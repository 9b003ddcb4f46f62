--------------------------- MODULE CodegenProofs ---------------------------
(***************************************************************************)
(* Proofs about the code generator, for any programs: types, functions     *)
(* written whole, branches that land, and references that resolve.         *)
(*                                                                         *)
(* The argument follows the stack of the program being generated.  Between *)
(* two instructions of a section the frame has a height, the number of     *)
(* words the code has pushed on it beyond those reserved for variables, or *)
(* the code is at one of the places of prologue and epilogue, or outside   *)
(* functions.  Every task on the stack of the generator leads from the     *)
(* height where it starts to that of the task below.  What labels stand    *)
(* for is a second invariant, RInv.                                        *)
(***************************************************************************)
EXTENDS Codegen, FiniteSetTheorems, SequenceTheorems, WellFoundedInduction, TLAPS

-----------------------------------------------------------------------------
(* Labels and instructions *)

UserLabels  == {l \in Seq(LabelChars) : l # <<>> /\ l[1] = "user"}
DataLabels  == {l \in Seq(LabelChars) : l # <<>> /\ l[1] = "G"}
LocalLabels == {"L_if_else", "L_if_end"} \X Nat
LiteralLabels == {"L_double"} \X Nat

WordRegs == {"rax", "rbx", "rdi", "rsi", "rdx", "rcx", "r8", "r9"}

\* Where code may be besides a height: outside functions, behind the label of
\* a function, behind its first push, behind the first instruction of its
\* epilogue, and behind the second.
Outside == -1
Entered == -2
Saved   == -3
Left    == -4
Popped  == -5

Neutral ==
  ({"mov"} \X WordRegs \X WordRegs) \cup ({"movsd"} \X LiteralLabels)
    \cup ({"call"} \X (UserLabels \cup Runtime \cup {Garbage}))
    \cup ({"lea", "load", "store", "cmp"} \X DataLabels)
    \cup ({"loadslot"} \X (Nat \ (0 .. SlotSize - 1)))
    \cup ({"saveslot"} \X (Nat \ (0 .. SlotSize - 1)) \X WordRegs)
    \cup {<<"null">>} \cup ({"je", "jmp", "label"} \X LocalLabels)

BodyCode == Neutral \cup {PushRax} \cup ({"pop"} \X WordRegs)

Instructions ==
  BodyCode \cup ({"label"} \X (UserLabels \cup {MainLabel})) \cup ({"reserve"} \X Nat)
    \cup {<<"push", "rbp">>, <<"mov", "rbp", "rsp">>, <<"mov", "rsp", "rbp">>, <<"pop", "rbp">>, <<"ret">>}

\* Instruction i leads from a to b.
Moves(i, a, b) ==
  \/ a = Outside /\ b = Entered /\ i \in {"label"} \X (UserLabels \cup {MainLabel})
  \/ a = Entered /\ b = Saved /\ i = <<"push", "rbp">>
  \/ a = Saved /\ b = 0 /\ i = <<"mov", "rbp", "rsp">>
  \/ a \in Nat /\ b = Left /\ i = <<"mov", "rsp", "rbp">>
  \/ a = Left /\ b = Popped /\ i = <<"pop", "rbp">>
  \/ a = Popped /\ b = Outside /\ i = <<"ret">>
  \/ a \in Nat /\ b = a /\ i \in Neutral
  \/ a \in Nat /\ b = a + 1 /\ i = PushRax
  \/ a \in Nat /\ b \in Nat /\ b = a - 1 /\ i \in {"pop"} \X WordRegs
  \/ a \in Nat /\ b = a /\ i \in {"reserve"} \X Nat

\* h gives the heights between the instructions of code.
Shape(code, h) ==
  /\ code \in Seq(Instructions)
  /\ h \in [1 .. Len(code) + 1 -> Int]
  /\ \A i \in 1 .. Len(code) : Moves(code[i], h[i], h[i + 1])

-----------------------------------------------------------------------------
(* Tasks *)

CompareAndBranch(l) == Emitted(<< <<"cmp", NilLabel>>, <<"je", l>> >>)
BranchAndLabel(m, l) == Emitted(<< <<"jmp", m>>, <<"label", l>> >>)
LabelAlone(l) == Emitted(<< <<"label", l>> >>)
LoadOperands == Emitted(<< <<"mov", "rdi", "rax">>, <<"pop", "rsi">> >>)

Tasks ==
  [do : {"expr"}, e : Exprs] \cup [do : {"emit"}, code : Seq(BodyCode)]
    \cup [do : {"global"}, name : Exprs] \cup [do : {"local"}, name : Names]
    \cup [do : {"param"}, name : Exprs, reg : WordRegs] \cup [do : {"endfunc", "finish"}]
    \cup [do : {"builtin"}, op : Nat] \cup [do : {"call"}, op : Nat, args : 0 .. MaxArgs]

\* Task t leads from a to b.
TaskMoves(t, a, b) ==
  /\ a \in Nat
  /\ \/ b = a /\ t \in [do : {"expr"}, e : Exprs]
     \/ b = a /\ t = Emitted(<< LoadNil >>)
     \/ b = a + 1 /\ t = Emitted(<< PushRax >>)
     \/ b = a - 1 /\ b \in Nat /\ t = LoadOperands
     \/ b = a /\ \E l \in LocalLabels : t = CompareAndBranch(l)
     \/ b = a /\ \E m, l \in LocalLabels : t = BranchAndLabel(m, l)
     \/ b = a /\ \E l \in LocalLabels : t = LabelAlone(l)
     \/ b = a - 1 /\ b \in Nat /\ t \in [do : {"global"}, name : Exprs]
     \/ b = a /\ t \in [do : {"local"}, name : Names]
     \/ b = a /\ t \in [do : {"param"}, name : Exprs, reg : WordRegs]
     \/ b = a /\ t \in [do : {"builtin"}, op : Nat]
     \/ t \in [do : {"call"}, op : Nat, args : 0 .. MaxArgs] /\ b = a - t.args /\ b \in Nat
     \/ b \in Nat /\ t = [do |-> "endfunc"]
     \/ b = Outside /\ t = [do |-> "finish"]

\* The tasks of the stack wk, the last one first: a task keeps its number until
\* it is done.
At(wk, d) == wk[Len(wk) + 1 - d]

\* Task t will define label l, or branch to it.
Defines(t, l)  == t = LabelAlone(l) \/ \E m \in LocalLabels : t = BranchAndLabel(m, l)
Branches(t, l) == t = CompareAndBranch(l) \/ \E m \in LocalLabels : t = BranchAndLabel(l, m)

-----------------------------------------------------------------------------
(* The symbol table *)

InfoSet ==
  {info \in [name : Names, kind : Kinds, offset : Nat, label : Seq(LabelChars)] :
     /\ info.kind = "local" => info.offset >= SlotSize
     /\ info.kind # "local" => info.offset = 0
     /\ info.kind = "user" => info.label \in UserLabels
     /\ info.kind = "global" => info.label \in DataLabels}

ScopeSet == [map : [Names -> Nat], offset : Nat]

\* What symbol_table_define is given: slots are not assigned yet.
NewInfos ==
  {info \in [name : Names, kind : Kinds, offset : {0}, label : Seq(LabelChars)] :
     /\ info.kind = "user" => info.label \in UserLabels
     /\ info.kind = "global" => info.label \in DataLabels}

Ids(t) == 1 .. Len(t.infos)

TableOK(t) ==
  /\ t \in [scopes : Seq(ScopeSet), infos : Seq(InfoSet), freed : SUBSET Nat]
  /\ t.freed \subseteq Ids(t)
  /\ \A d \in 1 .. Depth(t) : \A n \in Names : t.scopes[d].map[n] \in Ids(t) \cup {NoInfo}

\* Whatever has not been freed is in some scope.
LiveHeld(t) ==
  \A id \in Ids(t) \ t.freed : \E d \in 1 .. Depth(t) : \E n \in Names : t.scopes[d].map[n] = id

ScopesMatch ==
  Depth(st) = IF status = "done" THEN 0 ELSE IF inFunc THEN 2 ELSE 1

DataOK ==
  /\ labels \in Nat
  /\ inFunc \in BOOLEAN
  /\ status \in {"running", "done", "failed", "crashed"}
  /\ rodata \in Seq(({"L_double"} \X Nat) \X Int)
  /\ \A i \in 1 .. Len(rodata) : rodata[i][1][2] < labels
  /\ data \in Seq(DataLabels)

Base == TableOK(st) /\ LiveHeld(st) /\ ScopesMatch /\ DataOK

-----------------------------------------------------------------------------
(* The tasks and the sections *)

\* The stack of tasks is wk; w gives the heights between the tasks, and e is the
\* task that ends the function, 0 outside functions.
Stack(wk, w, e) ==
  /\ wk \in Seq(Tasks)
  /\ w \in [0 .. Len(wk) -> Int]
  /\ w[0] = Outside
  /\ \A d \in 1 .. Len(wk) : TaskMoves(At(wk, d), w[d], w[d - 1])
  /\ \A d \in 1 .. Len(wk) : At(wk, d).do = "finish" <=> d = 1
  /\ \A d \in 1 .. Len(wk) : At(wk, d).do = "endfunc" <=> d = e
  /\ e \in {0} \cup 2 .. Len(wk)

\* The tasks of the function being compiled, and those of main.
FuncTasks(wk, e) == {d \in 1 .. Len(wk) : e # 0 /\ d > e}
MainTasks(wk, e) == {d \in 1 .. Len(wk) : e # 0 => d < e}

\* The sections fn and tx end where the next task for them starts.
Ends(fn, tx, wk, hf, ht, w, e) ==
  /\ hf[1] = Outside
  /\ ht[1] = Outside
  /\ e = 0 => hf[Len(fn) + 1] = Outside /\ ht[Len(tx) + 1] = w[Len(wk)]
  /\ e # 0 => hf[Len(fn) + 1] = w[Len(wk)] /\ ht[Len(tx) + 1] = w[e - 1]

\* Every local label below the counter lb has at most one place: in a section or
\* in a task.
Placed(fn, tx, wk, lb, own) ==
  /\ own \in [LocalLabels -> {"func", "text", "work"} \X Nat]
  /\ \A i \in 1 .. Len(fn) : \A l \in LocalLabels :
       fn[i] = <<"label", l>> => own[l] = <<"func", i>> /\ l[2] < lb
  /\ \A i \in 1 .. Len(tx) : \A l \in LocalLabels :
       tx[i] = <<"label", l>> => own[l] = <<"text", i>> /\ l[2] < lb
  /\ \A d \in 1 .. Len(wk) : \A l \in LocalLabels :
       Defines(At(wk, d), l) => own[l] = <<"work", d>> /\ l[2] < lb

\* A branch at place i has its label at place j of the same function.
Landed(code, h, i, j, l) ==
  /\ j \in i + 1 .. Len(code)
  /\ code[j] = <<"label", l>>
  /\ h[j] = h[i]
  /\ \A k \in i .. j : h[k] \in Nat

\* Its label is still to come, from task d, at the same height.
Waiting(code, h, wk, w, i, d, l) ==
  /\ Defines(At(wk, d), l)
  /\ w[d] = h[i]
  /\ \A k \in i .. Len(code) + 1 : h[k] \in Nat

BranchTo(i, l) == i = <<"je", l>> \/ i = <<"jmp", l>>

\* Every branch of code has its label, or gets it from one of the tasks ds.
Branched(code, h, wk, w, ds) ==
  \A i \in 1 .. Len(code) : \A l \in LocalLabels : BranchTo(code[i], l) =>
    \/ \E j \in 1 .. Len(code) : Landed(code, h, i, j, l)
    \/ \E d \in ds : Waiting(code, h, wk, w, i, d, l)

TaskBranches(wk, w, e) ==
  \A d \in 1 .. Len(wk) : \A l \in LocalLabels : Branches(At(wk, d), l) =>
    \E c \in 1 .. d - 1 :
      /\ Defines(At(wk, c), l)
      /\ w[c] = w[d]
      /\ d \in FuncTasks(wk, e) => c \in FuncTasks(wk, e)

Code(fn, tx, wk, lb, hf, ht, w, e, own) ==
  /\ Shape(fn, hf)
  /\ Shape(tx, ht)
  /\ Stack(wk, w, e)
  /\ Ends(fn, tx, wk, hf, ht, w, e)
  /\ Placed(fn, tx, wk, lb, own)
  /\ Branched(fn, hf, wk, w, FuncTasks(wk, e))
  /\ Branched(tx, ht, wk, w, MainTasks(wk, e))
  /\ TaskBranches(wk, w, e)

\* What op_info points to when a call has been looked up.
OperatorsKnown(wk, t) ==
  /\ \A d \in 1 .. Len(wk) : At(wk, d).do = "call" =>
       At(wk, d).op \in Ids(t) /\ t.infos[At(wk, d).op].kind = "user"
  /\ \A d \in 1 .. Len(wk) : At(wk, d).do = "builtin" => At(wk, d).op \in Ids(t)

Generated ==
  /\ work = <<>> <=> status = "done"
  /\ \E hf, ht, w, e, own :
       Code(func, text, work, labels, hf, ht, w, e, own) /\ inFunc = (e # 0)

CInv == Base /\ OperatorsKnown(work, st) /\ Generated

-----------------------------------------------------------------------------
(* Sets of natural numbers *)

\* Well-foundedness of the natural numbers, for sets.
LEMMA Least ==
  ASSUME NEW T \in SUBSET Nat, T # {}
  PROVE  \E x \in T : \A y \in T : x <= y
PROOF
  <1>1. \E x \in T : \A y \in T : ~ (<<y, x>> \in OpToRel(<, Nat))
    BY NatLessThanWellFounded, WFMin
  <1>2. \A x, y \in Nat : x < y => <<x, y>> \in OpToRel(<, Nat)
    BY DEF OpToRel
  <1>3. \A x \in T : x \in Nat
    OBVIOUS
  <1>4. \E x \in T : \A y \in T : ~ (y < x)
    BY <1>1, <1>2, <1>3, Zenon
  <1> QED BY <1>3, <1>4

LEMMA Greatest ==
  ASSUME NEW n \in Nat, NEW S \in SUBSET (1 .. n), S # {}
  PROVE  \E i \in S : \A j \in S : j <= i
PROOF
  <1> DEFINE T == {n - i : i \in S}
  <1>1. T \in SUBSET Nat /\ T # {}
    <2>1. \A i \in S : i \in 1 .. n
      OBVIOUS
    <2>2. \A i \in S : n - i \in Nat
      BY <2>1
    <2> QED BY <2>2
  <1>2. PICK x \in T : \A y \in T : x <= y
    BY <1>1, Least
  <1>3. PICK i \in S : x = n - i
    OBVIOUS
  <1>4. \A j \in S : n - i <= n - j
    BY <1>2, <1>3
  <1> QED BY <1>4

-----------------------------------------------------------------------------
(* Code and its heights *)

\* k gives heights h to code and heights g to the code c appended to it.
Joins(code, h, c, g, k) ==
  /\ code \in Seq(Instructions) /\ c \in Seq(Instructions)
  /\ \A i \in 1 .. Len(code) + 1 : k[i] = h[i]
  /\ \A i \in 1 .. Len(c) + 1 : k[Len(code) + i] = g[i]

\* Code followed by code that starts at the height where it ends.
LEMMA ShapeConcat ==
  ASSUME NEW code, NEW h, Shape(code, h), NEW c, NEW g, Shape(c, g), g[1] = h[Len(code) + 1]
  PROVE  \E k : Shape(code \o c, k) /\ Joins(code, h, c, g, k)
PROOF
  <1> DEFINE m == Len(code)
             n == Len(c)
             k == [i \in 1 .. m + n + 1 |-> IF i <= m + 1 THEN h[i] ELSE g[i - m]]
  <1>1. /\ code \in Seq(Instructions) /\ c \in Seq(Instructions) /\ m \in Nat /\ n \in Nat
        /\ h \in [1 .. m + 1 -> Int] /\ g \in [1 .. n + 1 -> Int]
    BY DEF Shape
  <1>2. /\ code \o c \in Seq(Instructions) /\ Len(code \o c) = m + n
        /\ \A i \in 1 .. m + n : (code \o c)[i] = IF i <= m THEN code[i] ELSE c[i - m]
    BY <1>1, ConcatProperties
  <1>3. \A i \in 1 .. m + 1 : k[i] = h[i]
    BY <1>1
  <1>4. \A i \in 1 .. n + 1 : k[m + i] = g[i]
    <2> SUFFICES ASSUME NEW i \in 1 .. n + 1 PROVE k[m + i] = g[i]
      OBVIOUS
    <2>1. CASE i = 1
      BY <1>1, <2>1
    <2>2. CASE i # 1
      <3>1. m + i \in 1 .. m + n + 1 /\ ~(m + i <= m + 1) /\ (m + i) - m = i
        BY <1>1, <2>2
      <3> QED BY <3>1
    <2> QED BY <2>1, <2>2
  <1>5. k \in [1 .. m + n + 1 -> Int]
    <2> SUFFICES ASSUME NEW i \in 1 .. m + n + 1 PROVE k[i] \in Int
      OBVIOUS
    <2>1. CASE i <= m + 1
      BY <1>1, <2>1
    <2>2. CASE ~(i <= m + 1)
      <3>1. i - m \in 1 .. n + 1
        BY <1>1, <2>2
      <3> QED BY <1>1, <2>2, <3>1
    <2> QED BY <2>1, <2>2
  <1> HIDE DEF k
  <1>6. ASSUME NEW i \in 1 .. m + n PROVE Moves((code \o c)[i], k[i], k[i + 1])
    <2>1. CASE i <= m
      <3>1. i \in 1 .. m /\ i \in 1 .. m + 1 /\ i + 1 \in 1 .. m + 1
        BY <1>1, <2>1
      <3>2. Moves(code[i], h[i], h[i + 1])
        BY <3>1 DEF Shape
      <3> QED BY <1>2, <1>3, <2>1, <3>1, <3>2
    <2>2. CASE ~(i <= m)
      <3>1. PICK j \in 1 .. n : i = m + j
        <4>1. i - m \in 1 .. n /\ i = m + (i - m)
          BY <1>1, <2>2
        <4> QED BY <4>1
      <3>2. j \in 1 .. n + 1 /\ j + 1 \in 1 .. n + 1 /\ i + 1 = m + (j + 1) /\ i - m = j
        BY <1>1, <3>1
      <3>3. Moves(c[j], g[j], g[j + 1])
        BY DEF Shape
      <3>4. k[i] = g[j] /\ k[i + 1] = g[j + 1]
        BY <1>4, <3>1, <3>2
      <3>5. (code \o c)[i] = c[j]
        BY <1>2, <2>2, <3>2
      <3> QED BY <3>3, <3>4, <3>5
    <2> QED BY <2>1, <2>2
  <1>7. Shape(code \o c, k)
    BY <1>2, <1>5, <1>6 DEF Shape
  <1>8. Joins(code, h, c, g, k)
    BY <1>1, <1>3, <1>4 DEF Joins
  <1> QED BY <1>7, <1>8

LEMMA ShapeNone == ASSUME NEW a \in Int PROVE Shape(<<>>, <<a>>)
PROOF
  <1>1. Len(<<>>) = 0 /\ <<>> \in Seq(Instructions) /\ Len(<<a>>) = 1
    OBVIOUS
  <1>2. <<a>> \in [1 .. 0 + 1 -> Int]
    OBVIOUS
  <1> QED BY <1>1, <1>2 DEF Shape

LEMMA ShapeOne ==
  ASSUME NEW i \in Instructions, NEW a \in Int, NEW b \in Int, Moves(i, a, b)
  PROVE  Shape(<<i>>, <<a, b>>)
PROOF
  <1>1. <<i>> \in Seq(Instructions) /\ Len(<<i>>) = 1 /\ <<i>>[1] = i
    OBVIOUS
  <1>2. <<a, b>> \in [1 .. 1 + 1 -> Int] /\ <<a, b>>[1] = a /\ <<a, b>>[2] = b
    OBVIOUS
  <1>3. \A j \in 1 .. 1 : j = 1 /\ j + 1 = 2
    OBVIOUS
  <1> QED BY <1>1, <1>2, <1>3 DEF Shape

LEMMA ShapeTwo ==
  ASSUME NEW i \in Instructions, NEW j \in Instructions, NEW a \in Int, NEW b \in Int, NEW c \in Int,
         Moves(i, a, b), Moves(j, b, c)
  PROVE  Shape(<<i, j>>, <<a, b, c>>)
PROOF
  <1>1. <<i, j>> \in Seq(Instructions) /\ Len(<<i, j>>) = 2 /\ <<i, j>>[1] = i /\ <<i, j>>[2] = j
    OBVIOUS
  <1>2. /\ <<a, b, c>> \in [1 .. 2 + 1 -> Int]
        /\ <<a, b, c>>[1] = a /\ <<a, b, c>>[2] = b /\ <<a, b, c>>[3] = c
    OBVIOUS
  <1>3. \A k \in 1 .. 2 : (k = 1 /\ k + 1 = 2) \/ (k = 2 /\ k + 1 = 3)
    OBVIOUS
  <1> QED BY <1>1, <1>2, <1>3 DEF Shape

LEMMA ShapeThree ==
  ASSUME NEW i \in Instructions, NEW j \in Instructions, NEW k \in Instructions,
         NEW a \in Int, NEW b \in Int, NEW c \in Int, NEW d \in Int,
         Moves(i, a, b), Moves(j, b, c), Moves(k, c, d)
  PROVE  Shape(<<i, j, k>>, <<a, b, c, d>>)
PROOF
  <1>1. /\ <<i, j, k>> \in Seq(Instructions) /\ Len(<<i, j, k>>) = 3
        /\ <<i, j, k>>[1] = i /\ <<i, j, k>>[2] = j /\ <<i, j, k>>[3] = k
    OBVIOUS
  <1>2. /\ <<a, b, c, d>> \in [1 .. 3 + 1 -> Int] /\ <<a, b, c, d>>[1] = a
        /\ <<a, b, c, d>>[2] = b /\ <<a, b, c, d>>[3] = c /\ <<a, b, c, d>>[4] = d
    OBVIOUS
  <1>3. \A m \in 1 .. 3 : (m = 1 /\ m + 1 = 2) \/ (m = 2 /\ m + 1 = 3) \/ (m = 3 /\ m + 1 = 4)
    OBVIOUS
  <1> QED BY <1>1, <1>2, <1>3 DEF Shape

-----------------------------------------------------------------------------
(* The stack of tasks *)

LEMMA TaskOnTop ==
  ASSUME NEW wk \in Seq(Tasks), wk # <<>>
  PROVE  Len(wk) \in Nat \ {0} /\ Head(wk) = At(wk, Len(wk)) /\ Head(wk) \in Tasks
PROOF
  <1>1. Len(wk) \in Nat \ {0} /\ Head(wk) = wk[1] /\ Head(wk) \in Tasks
    OBVIOUS
  <1>2. Len(wk) + 1 - Len(wk) = 1
    BY <1>1
  <1> QED BY <1>1, <1>2 DEF At

\* The task on top of wk is replaced by tasks ts; those below keep their numbers.
ReplacesTop(wk, ts, wk1) ==
  /\ wk1 \in Seq(Tasks) /\ Len(ts) \in Nat
  /\ Len(wk) \in Nat \ {0} /\ Len(wk1) = Len(wk) - 1 + Len(ts)
  /\ \A d \in 1 .. Len(wk) - 1 : At(wk1, d) = At(wk, d)
  /\ \A i \in 1 .. Len(ts) : At(wk1, Len(wk) + Len(ts) - i) = ts[i]
  /\ \A d \in 1 .. Len(wk1) : d \notin 1 .. Len(wk) - 1 =>
       \E i \in 1 .. Len(ts) : d = Len(wk) + Len(ts) - i

LEMMA TasksAfter ==
  ASSUME NEW wk \in Seq(Tasks), wk # <<>>, NEW ts \in Seq(Tasks), NEW wk1, wk1 = ts \o Tail(wk)
  PROVE  ReplacesTop(wk, ts, wk1)
PROOF
  <1> DEFINE n == Len(wk)
             m == Len(ts)
  <1>1. /\ n \in Nat \ {0} /\ m \in Nat /\ Tail(wk) \in Seq(Tasks) /\ Len(Tail(wk)) = n - 1
        /\ \A i \in 1 .. n - 1 : Tail(wk)[i] = wk[i + 1]
    BY HeadTailProperties
  <1>2. /\ wk1 \in Seq(Tasks) /\ Len(wk1) = m + (n - 1)
        /\ \A i \in 1 .. m + (n - 1) : wk1[i] = IF i <= m THEN ts[i] ELSE Tail(wk)[i - m]
    BY <1>1, ConcatProperties
  <1>3. ASSUME NEW d \in 1 .. n - 1 PROVE At(wk1, d) = At(wk, d)
    <2>1. /\ m + n - d \in 1 .. m + (n - 1) /\ ~(m + n - d <= m) /\ (m + n - d) - m = n - d
          /\ n - d \in 1 .. n - 1 /\ (n - d) + 1 = n + 1 - d /\ m + (n - 1) + 1 - d = m + n - d
      BY <1>1
    <2>2. At(wk1, d) = wk1[m + n - d]
      BY <1>2, <2>1 DEF At
    <2>3. wk1[m + n - d] = Tail(wk)[n - d]
      BY <1>2, <2>1
    <2> QED BY <1>1, <2>1, <2>2, <2>3 DEF At
  <1>4. ASSUME NEW i \in 1 .. m PROVE At(wk1, n + m - i) = ts[i]
    <2>1. i \in 1 .. m + (n - 1) /\ i <= m /\ m + (n - 1) + 1 - (n + m - i) = i
      BY <1>1
    <2> QED BY <1>2, <2>1 DEF At
  <1>5. ASSUME NEW d \in 1 .. Len(wk1), d \notin 1 .. n - 1
        PROVE  \E i \in 1 .. m : d = n + m - i
    <2>1. n + m - d \in 1 .. m /\ d = n + m - (n + m - d)
      BY <1>1, <1>2, <1>5
    <2> QED BY <2>1
  <1>6. Len(wk1) = n - 1 + m
    BY <1>1, <1>2
  <1> QED BY <1>1, <1>2, <1>3, <1>4, <1>5, <1>6 DEF ReplacesTop

LEMMA JoinFacts ==
  ASSUME NEW code, NEW h, NEW c, NEW g, NEW k, Joins(code, h, c, g, k)
  PROVE  /\ Len(code) \in Nat /\ Len(c) \in Nat /\ Len(code \o c) = Len(code) + Len(c)
         /\ \A i \in 1 .. Len(code) : (code \o c)[i] = code[i]
         /\ \A i \in 1 .. Len(c) : (code \o c)[Len(code) + i] = c[i]
         /\ \A i \in 1 .. Len(code \o c) : i \notin 1 .. Len(code) =>
              \E j \in 1 .. Len(c) : i = Len(code) + j
PROOF
  <1> DEFINE m == Len(code)
             n == Len(c)
  <1>1. /\ m \in Nat /\ n \in Nat /\ Len(code \o c) = m + n
        /\ \A i \in 1 .. m + n : (code \o c)[i] = IF i <= m THEN code[i] ELSE c[i - m]
    BY ConcatProperties DEF Joins
  <1>2. ASSUME NEW i \in 1 .. m PROVE (code \o c)[i] = code[i]
    BY <1>1
  <1>3. ASSUME NEW i \in 1 .. n PROVE (code \o c)[m + i] = c[i]
    <2>1. m + i \in 1 .. m + n /\ ~(m + i <= m) /\ (m + i) - m = i
      BY <1>1
    <2> QED BY <1>1, <2>1
  <1>4. ASSUME NEW i \in 1 .. m + n, i \notin 1 .. m PROVE \E j \in 1 .. n : i = m + j
    <2>1. i - m \in 1 .. n /\ i = m + (i - m)
      BY <1>1, <1>4
    <2> QED BY <2>1
  <1> QED BY <1>1, <1>2, <1>3, <1>4

LEMMA JoinLengths ==
  ASSUME NEW code, NEW h, NEW c, NEW g, NEW k, Joins(code, h, c, g, k)
  PROVE  Len(code) \in Nat /\ Len(c) \in Nat /\ Len(code \o c) = Len(code) + Len(c)
BY JoinFacts

LEMMA JoinTail ==
  ASSUME NEW code, NEW h, NEW c, NEW g, NEW k, Joins(code, h, c, g, k), NEW i \in 1 .. Len(code \o c),
         i \notin 1 .. Len(code)
  PROVE  \E j \in 1 .. Len(c) : i = Len(code) + j
BY JoinFacts

LEMMA StillLanded ==
  ASSUME NEW code, NEW h, NEW c, NEW g, NEW k, Joins(code, h, c, g, k),
         NEW i \in 1 .. Len(code), NEW j, NEW l, Landed(code, h, i, j, l)
  PROVE  j \in 1 .. Len(code \o c) /\ Landed(code \o c, k, i, j, l)
PROOF
  <1>1. Len(code) \in Nat /\ Len(c) \in Nat /\ Len(code \o c) = Len(code) + Len(c)
    BY JoinFacts
  <1>2. j \in 1 .. Len(code) /\ j \in i + 1 .. Len(code) /\ j \in i + 1 .. Len(code \o c)
        /\ j \in 1 .. Len(code \o c)
    BY <1>1 DEF Landed
  <1>3. (code \o c)[j] = <<"label", l>>
    BY <1>2, JoinFacts DEF Landed
  <1>4. \A x \in i .. j : x \in 1 .. Len(code) + 1
    BY <1>1, <1>2
  <1>5. i \in i .. j /\ j \in i .. j
    BY <1>1, <1>2
  <1>6. \A x \in i .. j : k[x] = h[x]
    BY <1>4 DEF Joins
  <1> QED BY <1>2, <1>3, <1>5, <1>6 DEF Landed

LEMMA StillNat ==
  ASSUME NEW code, NEW h, NEW c, NEW g, NEW k, Joins(code, h, c, g, k),
         NEW i \in 1 .. Len(code), \A x \in i .. Len(code) + 1 : h[x] \in Nat,
         \A x \in 1 .. Len(c) + 1 : g[x] \in Nat
  PROVE  \A x \in i .. Len(code \o c) + 1 : k[x] \in Nat
PROOF
  <1>1. Len(code) \in Nat /\ Len(c) \in Nat /\ Len(code \o c) = Len(code) + Len(c)
    BY JoinFacts
  <1> SUFFICES ASSUME NEW x \in i .. Len(code \o c) + 1 PROVE k[x] \in Nat
    OBVIOUS
  <1>2. CASE x <= Len(code) + 1
    <2>1. x \in i .. Len(code) + 1 /\ x \in 1 .. Len(code) + 1
      BY <1>1, <1>2
    <2> QED BY <2>1 DEF Joins
  <1>3. CASE ~(x <= Len(code) + 1)
    <2>1. x - Len(code) \in 1 .. Len(c) + 1 /\ x = Len(code) + (x - Len(code))
      BY <1>1, <1>3
    <2>2. k[Len(code) + (x - Len(code))] = g[x - Len(code)]
      BY <2>1 DEF Joins
    <2> QED BY <2>1, <2>2
  <1> QED BY <1>2, <1>3

LEMMA NowLanded ==
  ASSUME NEW code, NEW h, NEW c, NEW g, NEW k, Joins(code, h, c, g, k),
         NEW i \in 1 .. Len(code), \A x \in i .. Len(code) + 1 : h[x] \in Nat,
         \A x \in 1 .. Len(c) + 1 : g[x] \in Nat,
         NEW y \in 1 .. Len(c), NEW l, c[y] = <<"label", l>>, g[y] = h[i]
  PROVE  \E j \in 1 .. Len(code \o c) : Landed(code \o c, k, i, j, l)
PROOF
  <1>1. Len(code) \in Nat /\ Len(c) \in Nat /\ Len(code \o c) = Len(code) + Len(c)
    BY JoinFacts
  <1>2. PICK j : j = Len(code) + y
    OBVIOUS
  <1>3. j \in 1 .. Len(code \o c) /\ j \in i + 1 .. Len(code \o c)
        /\ y \in 1 .. Len(c) + 1 /\ i \in 1 .. Len(code) + 1
    BY <1>1, <1>2
  <1>4. (code \o c)[j] = <<"label", l>>
    BY <1>2, JoinFacts
  <1>5. k[j] = k[i]
    BY <1>2, <1>3 DEF Joins
  <1>6. \A x \in i .. j : x \in i .. Len(code \o c) + 1
    BY <1>1, <1>3
  <1>7. \A x \in i .. j : k[x] \in Nat
    BY <1>6, StillNat
  <1> QED BY <1>3, <1>4, <1>5, <1>7 DEF Landed

-----------------------------------------------------------------------------
(* One step inside a function or inside main *)

\* The task on top writes c, with heights g, and is replaced by tasks ts, with
\* heights v.
Advances(wk, w, c, g, ts, v) ==
  /\ wk # <<>>
  /\ Head(wk).do \notin {"endfunc", "finish"}
  /\ Shape(c, g)
  /\ \A i \in 1 .. Len(c) + 1 : g[i] \in Nat
  /\ ts \in Seq(Tasks)
  /\ v \in [1 .. Len(ts) + 1 -> Nat]
  /\ \A i \in 1 .. Len(ts) : ts[i].do \notin {"endfunc", "finish"} /\ TaskMoves(ts[i], v[i], v[i + 1])
  /\ g[1] = w[Len(wk)]
  /\ v[1] = g[Len(c) + 1]
  /\ v[Len(ts) + 1] = w[Len(wk) - 1]

\* A label the task was to define is now in the code; other labels of c and ts
\* are new.
Relabels(fn, tx, wk, lb, e, own, c, ts, lb1, own1) ==
  /\ lb1 >= lb
  /\ own1 \in [LocalLabels -> {"func", "text", "work"} \X Nat]
  /\ \A l \in LocalLabels : l[2] < lb /\ ~Defines(Head(wk), l) => own1[l] = own[l]
  /\ \A i \in 1 .. Len(c) : \A l \in LocalLabels : c[i] = <<"label", l>> =>
       /\ own1[l] = IF e # 0 THEN <<"func", Len(fn) + i>> ELSE <<"text", Len(tx) + i>>
       /\ l[2] < lb1
  /\ \A i \in 1 .. Len(ts) : \A l \in LocalLabels : Defines(ts[i], l) =>
       own1[l] = <<"work", Len(wk) + Len(ts) - i>> /\ l[2] < lb1

\* Labels are defined at the height of the task, and branches of c and ts find
\* their labels in the tasks below.
KeepsBranches(wk, w, e, c, g, ts, v) ==
  /\ \A l \in LocalLabels : Defines(Head(wk), l) =>
       \E i \in 1 .. Len(c) : c[i] = <<"label", l>> /\ g[i] = w[Len(wk)]
  /\ \A i \in 1 .. Len(c) : \A l \in LocalLabels : BranchTo(c[i], l) =>
       \E d \in 1 .. Len(wk) - 1 : Defines(At(wk, d), l) /\ w[d] = g[i] /\ (e # 0 => d > e)
  /\ \A i \in 1 .. Len(ts) : \A l \in LocalLabels : Branches(ts[i], l) =>
       \E j \in i + 1 .. Len(ts) : Defines(ts[j], l) /\ v[j] = v[i]

\* w1 gives the heights of the tasks after the step.
Follows(wk, w, ts, v, wk1, w1) ==
  /\ w1 \in [0 .. Len(wk1) -> Int]
  /\ \A d \in 0 .. Len(wk) - 1 : w1[d] = w[d]
  /\ \A i \in 1 .. Len(ts) + 1 : w1[Len(wk) + Len(ts) - i] = v[i]

LEMMA HeightsAfter ==
  ASSUME NEW wk \in Seq(Tasks), wk # <<>>, NEW w \in [0 .. Len(wk) -> Int],
         NEW ts \in Seq(Tasks), NEW v \in [1 .. Len(ts) + 1 -> Int],
         v[Len(ts) + 1] = w[Len(wk) - 1], NEW wk1, wk1 = ts \o Tail(wk)
  PROVE  \E w1 : Follows(wk, w, ts, v, wk1, w1)
PROOF
  <1> DEFINE n == Len(wk)
             m == Len(ts)
             w1 == [d \in 0 .. n + m - 1 |-> IF d < n THEN w[d] ELSE v[n + m - d]]
  <1>1. n \in Nat \ {0} /\ m \in Nat /\ Len(wk1) = n + m - 1
    BY TasksAfter DEF ReplacesTop
  <1>2. \A d \in 0 .. n - 1 : w1[d] = w[d]
    BY <1>1
  <1>3. ASSUME NEW i \in 1 .. m + 1 PROVE w1[n + m - i] = v[i]
    <2>1. CASE i = m + 1
      <3>1. n + m - i = n - 1 /\ n - 1 \in 0 .. n + m - 1 /\ n - 1 < n
        BY <1>1, <2>1
      <3> QED BY <2>1, <3>1
    <2>2. CASE i # m + 1
      <3>1. n + m - i \in 0 .. n + m - 1 /\ ~(n + m - i < n) /\ n + m - (n + m - i) = i
        BY <1>1, <2>2
      <3> QED BY <3>1
    <2> QED BY <2>1, <2>2
  <1>4. ASSUME NEW d \in 0 .. n + m - 1 PROVE w1[d] \in Int
    <2>1. CASE d < n
      <3>1. d \in 0 .. n
        BY <1>1, <2>1
      <3> QED BY <2>1, <3>1
    <2>2. CASE ~(d < n)
      <3>1. n + m - d \in 1 .. m + 1
        BY <1>1, <2>2
      <3> QED BY <2>2, <3>1
    <2> QED BY <2>1, <2>2
  <1> HIDE DEF w1
  <1>5. w1 \in [0 .. Len(wk1) -> Int]
    BY <1>1, <1>4 DEF w1
  <1> QED BY <1>2, <1>3, <1>5 DEF Follows

\* Where the step leaves the stack.
NewStack(wk, e, c, g, ts, wk1, w1) ==
  /\ Stack(wk1, w1, e)
  /\ Len(wk) \in Nat /\ Len(wk) > 1 /\ Len(ts) \in Nat
  /\ e # 0 => e \in 2 .. Len(wk) - 1
  /\ Len(wk1) = Len(wk) - 1 + Len(ts)
  /\ w1[Len(wk1)] = g[Len(c) + 1]

LEMMA StackAfter ==
  ASSUME NEW wk, NEW w, NEW e, Stack(wk, w, e), NEW c, NEW g, NEW ts, NEW v, Advances(wk, w, c, g, ts, v),
         NEW wk1, wk1 = ts \o Tail(wk), NEW w1, Follows(wk, w, ts, v, wk1, w1)
  PROVE  NewStack(wk, e, c, g, ts, wk1, w1)
PROOF
  <1> DEFINE n == Len(wk)
             m == Len(ts)
  <1>1. wk \in Seq(Tasks) /\ wk # <<>> /\ ts \in Seq(Tasks)
    BY DEF Stack, Advances
  <1>2. /\ wk1 \in Seq(Tasks) /\ m \in Nat /\ n \in Nat \ {0} /\ Len(wk1) = n - 1 + m
        /\ \A d \in 1 .. n - 1 : At(wk1, d) = At(wk, d)
        /\ \A i \in 1 .. m : At(wk1, n + m - i) = ts[i]
        /\ \A d \in 1 .. Len(wk1) : d \notin 1 .. n - 1 => \E i \in 1 .. m : d = n + m - i
    <2>1. ReplacesTop(wk, ts, wk1)
      BY <1>1, TasksAfter
    <2> QED BY <2>1 DEF ReplacesTop
  <1>3. Head(wk) = At(wk, n)
    BY <1>1, TaskOnTop
  <1>4. n > 1 /\ (e # 0 => e \in 2 .. n - 1)
    <2>1. At(wk, n).do \notin {"endfunc", "finish"}
      BY <1>3 DEF Advances
    <2>2. /\ n \in 1 .. Len(wk)
          /\ \A d \in 1 .. Len(wk) : At(wk, d).do = "finish" <=> d = 1
          /\ \A d \in 1 .. Len(wk) : At(wk, d).do = "endfunc" <=> d = e
          /\ e \in {0} \cup 2 .. Len(wk)
      BY <1>2 DEF Stack
    <2>3. n # 1 /\ n # e /\ e \in {0} \cup 2 .. n
      BY <2>1, <2>2
    <2>4. n \in Nat \ {0}
      BY <1>2
    <2> HIDE DEF n
    <2> QED BY <2>3, <2>4
  <1>5. \A d \in 1 .. Len(wk1) : d \in 1 .. n - 1 \/ \E i \in 1 .. m : d = n + m - i
    BY <1>2
  <1>6. w1[0] = Outside
    <2>1. 0 \in 0 .. n - 1
      BY <1>2
    <2> QED BY <2>1 DEF Stack, Follows
  <1>7. ASSUME NEW d \in 1 .. Len(wk1) PROVE TaskMoves(At(wk1, d), w1[d], w1[d - 1])
    <2>1. CASE d \in 1 .. n - 1
      <3>1. d \in 0 .. n - 1 /\ d - 1 \in 0 .. n - 1 /\ d \in 1 .. n
        BY <1>2, <2>1
      <3>2. TaskMoves(At(wk, d), w[d], w[d - 1])
        BY <3>1 DEF Stack
      <3>3. w1[d] = w[d] /\ w1[d - 1] = w[d - 1]
        BY <3>1 DEF Follows
      <3> QED BY <1>2, <2>1, <3>2, <3>3
    <2>2. ASSUME NEW i \in 1 .. m, d = n + m - i PROVE TaskMoves(At(wk1, d), w1[d], w1[d - 1])
      <3>1. i \in 1 .. m + 1 /\ i + 1 \in 1 .. m + 1 /\ d - 1 = n + m - (i + 1)
        BY <1>2, <2>2
      <3>2. w1[d] = v[i] /\ w1[d - 1] = v[i + 1]
        BY <2>2, <3>1 DEF Follows
      <3>3. TaskMoves(ts[i], v[i], v[i + 1])
        BY DEF Advances
      <3> QED BY <1>2, <2>2, <3>2, <3>3
    <2> QED BY <1>5, <2>1, <2>2
  <1>8. ASSUME NEW d \in 1 .. Len(wk1)
        PROVE  (At(wk1, d).do = "finish" <=> d = 1) /\ (At(wk1, d).do = "endfunc" <=> d = e)
    <2>1. CASE d \in 1 .. n - 1
      <3>1. d \in 1 .. n
        BY <1>2, <2>1
      <3> QED BY <1>2, <2>1, <3>1 DEF Stack
    <2>2. ASSUME NEW i \in 1 .. m, d = n + m - i
          PROVE  (At(wk1, d).do = "finish" <=> d = 1) /\ (At(wk1, d).do = "endfunc" <=> d = e)
      <3>1. At(wk1, d).do \notin {"endfunc", "finish"}
        BY <1>2, <2>2 DEF Advances
      <3>2. d # 1 /\ d # e
        BY <1>2, <1>4, <2>2 DEF Stack
      <3> QED BY <3>1, <3>2
    <2> QED BY <1>5, <2>1, <2>2
  <1>9. e \in {0} \cup 2 .. Len(wk1)
    BY <1>2, <1>4 DEF Stack
  <1>10. Stack(wk1, w1, e)
    BY <1>2, <1>6, <1>7, <1>8, <1>9 DEF Stack, Follows
  <1>11. w1[Len(wk1)] = g[Len(c) + 1]
    <2>1. 1 \in 1 .. m + 1 /\ Len(wk1) = n + m - 1
      BY <1>2
    <2> QED BY <2>1 DEF Follows, Advances
  <1> QED BY <1>2, <1>4, <1>10, <1>11 DEF NewStack

\* What becomes of the single tasks.
NewTasks(wk, w, ts, v, wk1, w1) ==
  /\ \A d \in 1 .. Len(wk) - 1 : d \in 1 .. Len(wk1) /\ At(wk1, d) = At(wk, d) /\ w1[d] = w[d]
  /\ \A i \in 1 .. Len(ts) : /\ Len(wk) + Len(ts) - i \in Len(wk) .. Len(wk1)
                             /\ At(wk1, Len(wk) + Len(ts) - i) = ts[i]
                             /\ w1[Len(wk) + Len(ts) - i] = v[i]
  /\ \A d \in 1 .. Len(wk1) : d \notin 1 .. Len(wk) - 1 =>
       \E i \in 1 .. Len(ts) : d = Len(wk) + Len(ts) - i
  /\ At(wk, Len(wk)) = Head(wk)

LEMMA TasksBelow ==
  ASSUME NEW wk, NEW w, NEW e, Stack(wk, w, e), NEW c, NEW g, NEW ts, NEW v, Advances(wk, w, c, g, ts, v),
         NEW wk1, wk1 = ts \o Tail(wk), NEW w1, Follows(wk, w, ts, v, wk1, w1)
  PROVE  NewTasks(wk, w, ts, v, wk1, w1)
PROOF
  <1>1. wk \in Seq(Tasks) /\ wk # <<>> /\ ts \in Seq(Tasks)
    BY DEF Stack, Advances
  <1>2. ReplacesTop(wk, ts, wk1)
    BY <1>1, TasksAfter
  <1>3. Len(wk) \in Nat \ {0} /\ Len(ts) \in Nat /\ Len(wk1) = Len(wk) - 1 + Len(ts)
    BY <1>2 DEF ReplacesTop
  <1>4. ASSUME NEW d \in 1 .. Len(wk) - 1
        PROVE  d \in 1 .. Len(wk1) /\ At(wk1, d) = At(wk, d) /\ w1[d] = w[d]
    <2>1. d \in 1 .. Len(wk1) /\ d \in 0 .. Len(wk) - 1
      BY <1>3
    <2> QED BY <1>2, <2>1 DEF ReplacesTop, Follows
  <1>5. ASSUME NEW i \in 1 .. Len(ts)
        PROVE  /\ Len(wk) + Len(ts) - i \in Len(wk) .. Len(wk1)
               /\ At(wk1, Len(wk) + Len(ts) - i) = ts[i]
               /\ w1[Len(wk) + Len(ts) - i] = v[i]
    <2>1. Len(wk) + Len(ts) - i \in Len(wk) .. Len(wk1) /\ i \in 1 .. Len(ts) + 1
      BY <1>3
    <2> QED BY <1>2, <2>1 DEF ReplacesTop, Follows
  <1>6. At(wk, Len(wk)) = Head(wk)
    BY <1>1, TaskOnTop
  <1>7. \A d \in 1 .. Len(wk1) : d \notin 1 .. Len(wk) - 1 =>
              \E i \in 1 .. Len(ts) : d = Len(wk) + Len(ts) - i
    BY <1>2 DEF ReplacesTop
  <1> QED BY <1>4, <1>5, <1>6, <1>7 DEF NewTasks

LEMMA PlacedAfter ==
  ASSUME NEW fn \in Seq(Instructions), NEW tx \in Seq(Instructions), NEW wk, NEW w, NEW e, Stack(wk, w, e),
         NEW c \in Seq(Instructions), NEW g, NEW ts, NEW v, Advances(wk, w, c, g, ts, v),
         NEW wk1, wk1 = ts \o Tail(wk), NEW lb \in Nat, NEW lb1 \in Nat, NEW own, NEW own1,
         Placed(fn, tx, wk, lb, own), Relabels(fn, tx, wk, lb, e, own, c, ts, lb1, own1),
         NEW fn1, NEW tx1,
         IF e # 0 THEN fn1 = fn \o c /\ tx1 = tx ELSE fn1 = fn /\ tx1 = tx \o c
  PROVE  Placed(fn1, tx1, wk1, lb1, own1)
PROOF
  <1> DEFINE n == Len(wk)
             m == Len(ts)
  <1>1. wk \in Seq(Tasks) /\ wk # <<>> /\ ts \in Seq(Tasks)
    BY DEF Stack, Advances
  <1>2. ReplacesTop(wk, ts, wk1)
    BY <1>1, TasksAfter
  <1>3. n \in Nat \ {0} /\ m \in Nat /\ At(wk, n) = Head(wk) /\ n \in 1 .. n
    BY <1>1, TaskOnTop
  <1>4. ASSUME NEW l \in LocalLabels, NEW x, own[l] = x, l[2] < lb, x # <<"work", n>>
        PROVE  own1[l] = x /\ l[2] < lb1
    <2>1. ~Defines(Head(wk), l)
      BY <1>3, <1>4 DEF Placed
    <2>2. l[2] \in Nat
      BY DEF LocalLabels
    <2> QED BY <1>4, <2>1, <2>2 DEF Relabels
  <1>5. ASSUME NEW i \in 1 .. Len(fn1), NEW l \in LocalLabels, fn1[i] = <<"label", l>>
        PROVE  own1[l] = <<"func", i>> /\ l[2] < lb1
    <2>1. CASE i \in 1 .. Len(fn)
      <3>1. fn1[i] = fn[i]
        BY <2>1, ConcatProperties
      <3>2. own[l] = <<"func", i>> /\ l[2] < lb
        BY <1>5, <2>1, <3>1 DEF Placed
      <3>3. <<"func", i>> # <<"work", n>>
        OBVIOUS
      <3> QED BY <1>4, <3>2, <3>3
    <2>2. CASE i \notin 1 .. Len(fn)
      <3>1. e # 0 /\ fn1 = fn \o c
        BY <2>2
      <3>2. PICK y \in 1 .. Len(c) : i = Len(fn) + y /\ fn1[i] = c[y]
        <4>1. Len(fn) \in Nat /\ Len(c) \in Nat /\ Len(fn1) = Len(fn) + Len(c)
          BY <3>1, ConcatProperties
        <4>2. i - Len(fn) \in 1 .. Len(c) /\ i = Len(fn) + (i - Len(fn)) /\ ~(i <= Len(fn))
          BY <2>2, <4>1
        <4>3. fn1[i] = c[i - Len(fn)]
          BY <3>1, <4>2, ConcatProperties
        <4> QED BY <4>2, <4>3
      <3>3. c[y] = <<"label", l>>
        BY <1>5, <3>2
      <3>4. own1[l] = <<"func", Len(fn) + y>> /\ l[2] < lb1
        BY <3>1, <3>3 DEF Relabels
      <3> QED BY <3>2, <3>4
    <2> QED BY <2>1, <2>2
  <1>6. ASSUME NEW i \in 1 .. Len(tx1), NEW l \in LocalLabels, tx1[i] = <<"label", l>>
        PROVE  own1[l] = <<"text", i>> /\ l[2] < lb1
    <2>1. CASE i \in 1 .. Len(tx)
      <3>1. tx1[i] = tx[i]
        BY <2>1, ConcatProperties
      <3>2. own[l] = <<"text", i>> /\ l[2] < lb
        BY <1>6, <2>1, <3>1 DEF Placed
      <3>3. <<"text", i>> # <<"work", n>>
        OBVIOUS
      <3> QED BY <1>4, <3>2, <3>3
    <2>2. CASE i \notin 1 .. Len(tx)
      <3>1. e = 0 /\ tx1 = tx \o c
        BY <2>2
      <3>2. PICK y \in 1 .. Len(c) : i = Len(tx) + y /\ tx1[i] = c[y]
        <4>1. Len(tx) \in Nat /\ Len(c) \in Nat /\ Len(tx1) = Len(tx) + Len(c)
          BY <3>1, ConcatProperties
        <4>2. i - Len(tx) \in 1 .. Len(c) /\ i = Len(tx) + (i - Len(tx)) /\ ~(i <= Len(tx))
          BY <2>2, <4>1
        <4>3. tx1[i] = c[i - Len(tx)]
          BY <3>1, <4>2, ConcatProperties
        <4> QED BY <4>2, <4>3
      <3>3. c[y] = <<"label", l>>
        BY <1>6, <3>2
      <3>4. own1[l] = <<"text", Len(tx) + y>> /\ l[2] < lb1
        BY <3>1, <3>3 DEF Relabels
      <3> QED BY <3>2, <3>4
    <2> QED BY <2>1, <2>2
  <1>7. ASSUME NEW d \in 1 .. Len(wk1), NEW l \in LocalLabels, Defines(At(wk1, d), l)
        PROVE  own1[l] = <<"work", d>> /\ l[2] < lb1
    <2>1. CASE d \in 1 .. n - 1
      <3>1. At(wk1, d) = At(wk, d)
        BY <1>2, <2>1 DEF ReplacesTop
      <3>2. d \in 1 .. n /\ d # n
        BY <1>3, <2>1
      <3>3. own[l] = <<"work", d>> /\ l[2] < lb
        BY <1>7, <3>1, <3>2 DEF Placed
      <3> QED BY <1>4, <3>2, <3>3
    <2>2. CASE d \notin 1 .. n - 1
      <3>1. PICK i \in 1 .. m : d = n + m - i
        BY <1>2, <2>2 DEF ReplacesTop
      <3>2. At(wk1, d) = ts[i]
        BY <1>2, <3>1 DEF ReplacesTop
      <3> QED BY <1>7, <3>1, <3>2 DEF Relabels
    <2> QED BY <2>1, <2>2
  <1> QED BY <1>5, <1>6, <1>7 DEF Placed, Relabels

\* Tasks ds have written to a section, and tasks ds1 will, after c has been
\* written: a label that is waited for comes from either, and those of c come
\* from ds1.
HandsOver(wk, w, ds, wk1, w1, ds1, c, g) ==
  /\ \A i \in 1 .. Len(c) + 1 : g[i] \in Nat
  /\ \A d \in ds : \A l \in LocalLabels : Defines(At(wk, d), l) =>
       \/ d \in ds1 /\ At(wk1, d) = At(wk, d) /\ w1[d] = w[d]
       \/ \E y \in 1 .. Len(c) : c[y] = <<"label", l>> /\ g[y] = w[d]
  /\ \A i \in 1 .. Len(c) : \A l \in LocalLabels : BranchTo(c[i], l) =>
       \E d \in ds1 : Defines(At(wk1, d), l) /\ w1[d] = g[i]

LEMMA BranchedAfter ==
  ASSUME NEW code, NEW h, NEW c, NEW g, NEW k, Joins(code, h, c, g, k), h[Len(code) + 1] = g[1],
         NEW wk, NEW w, NEW ds, NEW wk1, NEW w1, NEW ds1, Branched(code, h, wk, w, ds),
         HandsOver(wk, w, ds, wk1, w1, ds1, c, g)
  PROVE  Branched(code \o c, k, wk1, w1, ds1)
PROOF
  <1>1. /\ Len(code) \in Nat /\ Len(c) \in Nat /\ Len(code \o c) = Len(code) + Len(c)
        /\ \A i \in 1 .. Len(code) : (code \o c)[i] = code[i]
        /\ \A i \in 1 .. Len(c) : (code \o c)[Len(code) + i] = c[i]
        /\ \A i \in 1 .. Len(code \o c) : i \notin 1 .. Len(code) =>
              \E j \in 1 .. Len(c) : i = Len(code) + j
    BY JoinFacts
  <1>0. \A i \in 1 .. Len(c) + 1 : g[i] \in Nat
    BY DEF HandsOver
  <1> SUFFICES ASSUME NEW i \in 1 .. Len(code \o c), NEW l \in LocalLabels, BranchTo((code \o c)[i], l)
               PROVE  \/ \E j \in 1 .. Len(code \o c) : Landed(code \o c, k, i, j, l)
                      \/ \E d \in ds1 : Waiting(code \o c, k, wk1, w1, i, d, l)
    BY DEF Branched
  <1>2. CASE i \in 1 .. Len(code)
    <2>1. BranchTo(code[i], l) /\ i \in 1 .. Len(code) + 1
      BY <1>1, <1>2
    <2>2. ASSUME NEW j \in 1 .. Len(code), Landed(code, h, i, j, l)
          PROVE  \E z \in 1 .. Len(code \o c) : Landed(code \o c, k, i, z, l)
      BY <1>2, <2>2, StillLanded
    <2>3. ASSUME NEW d \in ds, Waiting(code, h, wk, w, i, d, l)
          PROVE  \/ \E j \in 1 .. Len(code \o c) : Landed(code \o c, k, i, j, l)
                 \/ \E d1 \in ds1 : Waiting(code \o c, k, wk1, w1, i, d1, l)
      <3>1. Defines(At(wk, d), l) /\ w[d] = h[i] /\ \A x \in i .. Len(code) + 1 : h[x] \in Nat
        BY <2>3 DEF Waiting
      <3>2. k[i] = h[i]
        BY <2>1 DEF Joins
      <3>3. CASE d \in ds1 /\ At(wk1, d) = At(wk, d) /\ w1[d] = w[d]
        <4>1. \A x \in i .. Len(code \o c) + 1 : k[x] \in Nat
          BY <1>0, <1>2, <3>1, StillNat
        <4>2. Waiting(code \o c, k, wk1, w1, i, d, l)
          BY <3>1, <3>2, <3>3, <4>1 DEF Waiting
        <4> QED BY <3>3, <4>2
      <3>4. ASSUME NEW y \in 1 .. Len(c), c[y] = <<"label", l>>, g[y] = w[d]
            PROVE  \E j \in 1 .. Len(code \o c) : Landed(code \o c, k, i, j, l)
        <4>1. g[y] = h[i]
          BY <3>1, <3>4
        <4> QED BY <1>0, <1>2, <3>1, <3>4, <4>1, NowLanded
      <3> QED BY <3>1, <3>3, <3>4 DEF HandsOver
    <2> QED BY <1>2, <2>1, <2>2, <2>3 DEF Branched
  <1>3. CASE i \notin 1 .. Len(code)
    <2>1. PICK y \in 1 .. Len(c) : i = Len(code) + y
      BY <1>1, <1>3
    <2>2. BranchTo(c[y], l)
      BY <1>1, <2>1
    <2>3. PICK d \in ds1 : Defines(At(wk1, d), l) /\ w1[d] = g[y]
      BY <2>2 DEF HandsOver
    <2>4. k[i] = g[y]
      <3>1. y \in 1 .. Len(c) + 1
        BY <1>1
      <3> QED BY <2>1, <3>1 DEF Joins
    <2>5. ASSUME NEW x \in i .. Len(code \o c) + 1 PROVE k[x] \in Nat
      <3>1. x - Len(code) \in 1 .. Len(c) + 1 /\ x = Len(code) + (x - Len(code))
        BY <1>1, <2>1
      <3>2. k[Len(code) + (x - Len(code))] = g[x - Len(code)]
        BY <3>1 DEF Joins
      <3> QED BY <1>0, <3>1, <3>2
    <2>6. Waiting(code \o c, k, wk1, w1, i, d, l)
      BY <2>3, <2>4, <2>5 DEF Waiting
    <2> QED BY <2>6
  <1> QED BY <1>2, <1>3

LEMMA TaskBranchesAfter ==
  ASSUME NEW wk, NEW w, NEW e, Stack(wk, w, e), NEW c, NEW g, NEW ts, NEW v, Advances(wk, w, c, g, ts, v),
         NEW wk1, wk1 = ts \o Tail(wk), NEW w1, Follows(wk, w, ts, v, wk1, w1),
         KeepsBranches(wk, w, e, c, g, ts, v), TaskBranches(wk, w, e)
  PROVE  TaskBranches(wk1, w1, e)
PROOF
  <1> DEFINE n == Len(wk)
             m == Len(ts)
  <1>1. /\ n \in Nat /\ n > 1 /\ m \in Nat /\ (e # 0 => e \in 2 .. n - 1) /\ Len(wk1) = n - 1 + m
    <2>1. NewStack(wk, e, c, g, ts, wk1, w1)
      BY StackAfter
    <2> QED BY <2>1 DEF NewStack
  <1>2. /\ \A d \in 1 .. n - 1 : d \in 1 .. Len(wk1) /\ At(wk1, d) = At(wk, d) /\ w1[d] = w[d]
        /\ \A i \in 1 .. m : n + m - i \in n .. Len(wk1) /\ At(wk1, n + m - i) = ts[i] /\ w1[n + m - i] = v[i]
        /\ \A d \in 1 .. Len(wk1) : d \notin 1 .. n - 1 => \E i \in 1 .. m : d = n + m - i
    <2>1. NewTasks(wk, w, ts, v, wk1, w1)
      BY TasksBelow
    <2> QED BY <2>1 DEF NewTasks
  <1> SUFFICES ASSUME NEW d \in 1 .. Len(wk1), NEW l \in LocalLabels, Branches(At(wk1, d), l)
               PROVE  \E b \in 1 .. d - 1 :
                        /\ Defines(At(wk1, b), l)
                        /\ w1[b] = w1[d]
                        /\ d \in FuncTasks(wk1, e) => b \in FuncTasks(wk1, e)
    BY DEF TaskBranches
  <1>3. CASE d \in 1 .. n - 1
    <2>1. Branches(At(wk, d), l) /\ d \in 1 .. n
      BY <1>1, <1>2, <1>3
    <2>2. PICK b \in 1 .. d - 1 : Defines(At(wk, b), l) /\ w[b] = w[d]
                                  /\ (d \in FuncTasks(wk, e) => b \in FuncTasks(wk, e))
      BY <2>1 DEF TaskBranches
    <2>3. b \in 1 .. n - 1 /\ d \in 1 .. n /\ b \in 1 .. n /\ b \in 1 .. Len(wk1)
      BY <1>1, <1>2, <1>3
    <2>4. d \in FuncTasks(wk1, e) => b \in FuncTasks(wk1, e)
      BY <2>2, <2>3 DEF FuncTasks
    <2> QED BY <1>2, <1>3, <2>2, <2>3, <2>4
  <1>4. CASE d \notin 1 .. n - 1
    <2>1. PICK i \in 1 .. m : d = n + m - i
      BY <1>2, <1>4
    <2>2. Branches(ts[i], l)
      BY <1>2, <2>1
    <2>3. PICK j \in i + 1 .. m : Defines(ts[j], l) /\ v[j] = v[i]
      BY <2>2 DEF KeepsBranches
    <2>4. PICK b : b = n + m - j
      OBVIOUS
    <2>5. j \in 1 .. m /\ b \in 1 .. d - 1 /\ b \in 1 .. Len(wk1) /\ (e # 0 => b > e)
      BY <1>1, <2>1, <2>4
    <2>6. Defines(At(wk1, b), l) /\ w1[b] = w1[d]
      BY <1>2, <2>1, <2>3, <2>4, <2>5
    <2> QED BY <2>5, <2>6 DEF FuncTasks
  <1> QED BY <1>3, <1>4

\* A step that stays in the section keeps the code and the tasks in order.
LEMMA StepCode ==
  ASSUME NEW fn, NEW tx, NEW wk, NEW lb \in Nat, NEW hf, NEW ht, NEW w, NEW e, NEW own,
         Code(fn, tx, wk, lb, hf, ht, w, e, own),
         NEW c, NEW g, NEW ts, NEW v, NEW own1, NEW lb1 \in Nat,
         Advances(wk, w, c, g, ts, v), Relabels(fn, tx, wk, lb, e, own, c, ts, lb1, own1),
         KeepsBranches(wk, w, e, c, g, ts, v),
         NEW fn1, NEW tx1, NEW wk1,
         IF e # 0 THEN fn1 = fn \o c /\ tx1 = tx ELSE fn1 = fn /\ tx1 = tx \o c,
         wk1 = ts \o Tail(wk)
  PROVE  \E hf1, ht1, w1 : Code(fn1, tx1, wk1, lb1, hf1, ht1, w1, e, own1)
PROOF
  <1> DEFINE n == Len(wk)
             m == Len(ts)
  <1>1. /\ Stack(wk, w, e) /\ Ends(fn, tx, wk, hf, ht, w, e) /\ Placed(fn, tx, wk, lb, own)
        /\ Shape(fn, hf) /\ Shape(tx, ht) /\ Shape(c, g)
        /\ Branched(fn, hf, wk, w, FuncTasks(wk, e)) /\ Branched(tx, ht, wk, w, MainTasks(wk, e))
        /\ TaskBranches(wk, w, e)
    BY DEF Code, Advances
  <1>2. fn \in Seq(Instructions) /\ tx \in Seq(Instructions) /\ c \in Seq(Instructions)
    BY <1>1 DEF Shape
  <1>3. PICK w1 : Follows(wk, w, ts, v, wk1, w1)
    <2>1. /\ wk \in Seq(Tasks) /\ wk # <<>> /\ w \in [0 .. n -> Int] /\ ts \in Seq(Tasks)
          /\ v \in [1 .. m + 1 -> Int] /\ v[m + 1] = w[n - 1]
      BY <1>1 DEF Stack, Advances
    <2> QED BY <2>1, HeightsAfter
  <1>4. /\ Stack(wk1, w1, e) /\ n \in Nat /\ n > 1 /\ m \in Nat /\ (e # 0 => e \in 2 .. n - 1)
        /\ Len(wk1) = n - 1 + m /\ w1[Len(wk1)] = g[Len(c) + 1]
    <2>1. NewStack(wk, e, c, g, ts, wk1, w1)
      BY <1>1, <1>3, StackAfter
    <2> QED BY <2>1 DEF NewStack
  <1>5. /\ \A d \in 1 .. n - 1 : d \in 1 .. Len(wk1) /\ At(wk1, d) = At(wk, d) /\ w1[d] = w[d]
        /\ At(wk, n) = Head(wk)
    <2>1. NewTasks(wk, w, ts, v, wk1, w1)
      BY <1>1, <1>3, TasksBelow
    <2> QED BY <2>1 DEF NewTasks
  <1>6. Placed(fn1, tx1, wk1, lb1, own1)
    BY <1>1, <1>2, <1>3, PlacedAfter
  <1>7. TaskBranches(wk1, w1, e)
    BY <1>1, <1>3, TaskBranchesAfter
  <1>8. \A i \in 1 .. Len(c) + 1 : g[i] \in Nat
    BY DEF Advances
  <1>9. ASSUME NEW d \in 1 .. n, NEW l \in LocalLabels, Defines(At(wk, d), l)
        PROVE  \/ d \in 1 .. n - 1 /\ d \in 1 .. Len(wk1) /\ At(wk1, d) = At(wk, d) /\ w1[d] = w[d]
               \/ \E y \in 1 .. Len(c) : c[y] = <<"label", l>> /\ g[y] = w[d]
    <2>1. CASE d = n
      BY <1>5, <1>9, <2>1 DEF KeepsBranches
    <2>2. CASE d # n
      <3>1. d \in 1 .. n - 1
        BY <1>4, <2>2
      <3> QED BY <1>5, <3>1
    <2> QED BY <2>1, <2>2
  <1>10. ASSUME NEW i \in 1 .. Len(c), NEW l \in LocalLabels, BranchTo(c[i], l)
         PROVE  \E d \in 1 .. n - 1 : /\ d \in 1 .. Len(wk1) /\ Defines(At(wk1, d), l) /\ w1[d] = g[i]
                                      /\ e # 0 => d > e
    <2>1. PICK d \in 1 .. n - 1 : Defines(At(wk, d), l) /\ w[d] = g[i] /\ (e # 0 => d > e)
      BY <1>10 DEF KeepsBranches
    <2> QED BY <1>5, <2>1
  <1>11. CASE e # 0
    <2>1. fn1 = fn \o c /\ tx1 = tx
      BY <1>11
    <2>2. hf[Len(fn) + 1] = w[n] /\ ht[Len(tx) + 1] = w[e - 1] /\ hf[1] = Outside /\ ht[1] = Outside
      BY <1>1, <1>11 DEF Ends
    <2>3. g[1] = w[n]
      BY DEF Advances
    <2>4. PICK k : Shape(fn \o c, k) /\ Joins(fn, hf, c, g, k)
      BY <1>1, <2>2, <2>3, ShapeConcat
    <2>5. /\ \A i \in 1 .. Len(fn) + 1 : k[i] = hf[i]
          /\ \A i \in 1 .. Len(c) + 1 : k[Len(fn) + i] = g[i]
      BY <2>4 DEF Joins
    <2>6. /\ Len(fn) \in Nat /\ Len(c) \in Nat /\ Len(fn1) = Len(fn) + Len(c)
      BY <2>1, <2>4, JoinFacts
    <2>7. Ends(fn1, tx1, wk1, k, ht, w1, e)
      <3>1. k[1] = Outside
        <4>1. 1 \in 1 .. Len(fn) + 1
          BY <2>6
        <4> QED BY <2>2, <2>5, <4>1
      <3>2. k[Len(fn1) + 1] = w1[Len(wk1)]
        <4>1. Len(c) + 1 \in 1 .. Len(c) + 1 /\ Len(fn1) + 1 = Len(fn) + (Len(c) + 1)
          BY <2>6
        <4> QED BY <1>4, <2>5, <4>1
      <3>3. w1[e - 1] = w[e - 1]
        <4>1. e - 1 \in 1 .. n - 1
          BY <1>4, <1>11
        <4> QED BY <1>5, <4>1
      <3> QED BY <1>11, <2>1, <2>2, <3>1, <3>2, <3>3 DEF Ends
    <2>8. Branched(fn1, k, wk1, w1, FuncTasks(wk1, e))
      <3>1. \A d \in FuncTasks(wk, e) : \A l \in LocalLabels : Defines(At(wk, d), l) =>
              \/ d \in FuncTasks(wk1, e) /\ At(wk1, d) = At(wk, d) /\ w1[d] = w[d]
              \/ \E y \in 1 .. Len(c) : c[y] = <<"label", l>> /\ g[y] = w[d]
        BY <1>9 DEF FuncTasks
      <3>2. \A i \in 1 .. Len(c) : \A l \in LocalLabels : BranchTo(c[i], l) =>
              \E d \in FuncTasks(wk1, e) : Defines(At(wk1, d), l) /\ w1[d] = g[i]
        BY <1>10, <1>11 DEF FuncTasks
      <3>3. HandsOver(wk, w, FuncTasks(wk, e), wk1, w1, FuncTasks(wk1, e), c, g)
        BY <1>8, <3>1, <3>2 DEF HandsOver
      <3>4. hf[Len(fn) + 1] = g[1]
        BY <2>2, <2>3
      <3>5. Branched(fn \o c, k, wk1, w1, FuncTasks(wk1, e))
        BY <1>1, <2>4, <3>3, <3>4, BranchedAfter
      <3> QED BY <2>1, <3>5
    <2>9. Branched(tx1, ht, wk1, w1, MainTasks(wk1, e))
      <3>1. ASSUME NEW d \in MainTasks(wk, e)
            PROVE  d \in MainTasks(wk1, e) /\ At(wk1, d) = At(wk, d) /\ w1[d] = w[d]
        <4>1. d \in 1 .. n - 1 /\ d < e
          BY <1>4, <1>11 DEF MainTasks
        <4> QED BY <1>5, <4>1 DEF MainTasks
      <3> QED BY <1>1, <2>1, <3>1 DEF Branched, Waiting
    <2> QED BY <1>1, <1>4, <1>6, <1>7, <2>1, <2>4, <2>7, <2>8, <2>9 DEF Code
  <1>12. CASE e = 0
    <2>1. fn1 = fn /\ tx1 = tx \o c
      BY <1>12
    <2>2. hf[Len(fn) + 1] = Outside /\ ht[Len(tx) + 1] = w[n] /\ hf[1] = Outside /\ ht[1] = Outside
      BY <1>1, <1>12 DEF Ends
    <2>3. g[1] = w[n]
      BY DEF Advances
    <2>4. PICK k : Shape(tx \o c, k) /\ Joins(tx, ht, c, g, k)
      BY <1>1, <2>2, <2>3, ShapeConcat
    <2>5. /\ \A i \in 1 .. Len(tx) + 1 : k[i] = ht[i]
          /\ \A i \in 1 .. Len(c) + 1 : k[Len(tx) + i] = g[i]
      BY <2>4 DEF Joins
    <2>6. /\ Len(tx) \in Nat /\ Len(c) \in Nat /\ Len(tx1) = Len(tx) + Len(c)
      BY <2>1, <2>4, JoinFacts
    <2>7. Ends(fn1, tx1, wk1, hf, k, w1, e)
      <3>1. k[1] = Outside
        <4>1. 1 \in 1 .. Len(tx) + 1
          BY <2>6
        <4> QED BY <2>2, <2>5, <4>1
      <3>2. k[Len(tx1) + 1] = w1[Len(wk1)]
        <4>1. Len(c) + 1 \in 1 .. Len(c) + 1 /\ Len(tx1) + 1 = Len(tx) + (Len(c) + 1)
          BY <2>6
        <4> QED BY <1>4, <2>5, <4>1
      <3> QED BY <1>12, <2>1, <2>2, <3>1, <3>2 DEF Ends
    <2>8. Branched(tx1, k, wk1, w1, MainTasks(wk1, e))
      <3>1. \A d \in MainTasks(wk, e) : \A l \in LocalLabels : Defines(At(wk, d), l) =>
              \/ d \in MainTasks(wk1, e) /\ At(wk1, d) = At(wk, d) /\ w1[d] = w[d]
              \/ \E y \in 1 .. Len(c) : c[y] = <<"label", l>> /\ g[y] = w[d]
        BY <1>9 DEF MainTasks
      <3>2. \A i \in 1 .. Len(c) : \A l \in LocalLabels : BranchTo(c[i], l) =>
              \E d \in MainTasks(wk1, e) : Defines(At(wk1, d), l) /\ w1[d] = g[i]
        BY <1>10, <1>12 DEF MainTasks
      <3>3. HandsOver(wk, w, MainTasks(wk, e), wk1, w1, MainTasks(wk1, e), c, g)
        BY <1>8, <3>1, <3>2 DEF HandsOver
      <3>4. ht[Len(tx) + 1] = g[1]
        BY <2>2, <2>3
      <3>5. Branched(tx \o c, k, wk1, w1, MainTasks(wk1, e))
        BY <1>1, <2>4, <3>3, <3>4, BranchedAfter
      <3> QED BY <2>1, <3>5
    <2>9. Branched(fn1, hf, wk1, w1, FuncTasks(wk1, e))
      <3>1. FuncTasks(wk, e) = {}
        BY <1>12 DEF FuncTasks
      <3> QED BY <1>1, <2>1, <3>1 DEF Branched
    <2> QED BY <1>1, <1>4, <1>6, <1>7, <2>1, <2>4, <2>7, <2>8, <2>9 DEF Code
  <1> QED BY <1>11, <1>12

-----------------------------------------------------------------------------
(* Steps without labels and branches *)

\* Code c and then tasks ts lead from height a to b.
Performs(c, ts, a, b) ==
  /\ ts \in Seq(Tasks)
  /\ \E g, v :
       /\ Shape(c, g)
       /\ \A i \in 1 .. Len(c) + 1 : g[i] \in Nat
       /\ v \in [1 .. Len(ts) + 1 -> Nat]
       /\ \A i \in 1 .. Len(ts) : /\ ts[i].do \notin {"endfunc", "finish"}
                                  /\ TaskMoves(ts[i], v[i], v[i + 1])
       /\ g[1] = a
       /\ v[1] = g[Len(c) + 1]
       /\ v[Len(ts) + 1] = b

Quiet(t, c, ts) ==
  /\ \A l \in LocalLabels : ~Defines(t, l)
  /\ \A i \in 1 .. Len(c) : c[i][1] \notin {"label", "je", "jmp"}
  /\ \A i \in 1 .. Len(ts) : \A l \in LocalLabels : ~Defines(ts[i], l) /\ ~Branches(ts[i], l)

LEMMA QuietCode ==
  ASSUME NEW fn, NEW tx, NEW wk, NEW lb \in Nat, NEW hf, NEW ht, NEW w, NEW e, NEW own,
         Code(fn, tx, wk, lb, hf, ht, w, e, own),
         NEW c, NEW g, NEW ts, NEW v, NEW lb1 \in Nat, lb1 >= lb,
         Advances(wk, w, c, g, ts, v), Quiet(Head(wk), c, ts),
         NEW fn1, NEW tx1, NEW wk1,
         IF e # 0 THEN fn1 = fn \o c /\ tx1 = tx ELSE fn1 = fn /\ tx1 = tx \o c,
         wk1 = ts \o Tail(wk)
  PROVE  \E hf1, ht1, w1 : Code(fn1, tx1, wk1, lb1, hf1, ht1, w1, e, own)
PROOF
  <1>1. \A i \in 1 .. Len(c) : \A l : c[i] # <<"label", l>> /\ ~BranchTo(c[i], l)
    <2> SUFFICES ASSUME NEW i \in 1 .. Len(c), NEW l PROVE c[i] # <<"label", l>> /\ ~BranchTo(c[i], l)
      OBVIOUS
    <2>1. c[i][1] \notin {"label", "je", "jmp"}
      BY DEF Quiet
    <2>2. <<"label", l>>[1] = "label" /\ <<"je", l>>[1] = "je" /\ <<"jmp", l>>[1] = "jmp"
      OBVIOUS
    <2> QED BY <2>1, <2>2 DEF BranchTo
  <1>2. Relabels(fn, tx, wk, lb, e, own, c, ts, lb1, own)
    <2>1. own \in [LocalLabels -> {"func", "text", "work"} \X Nat]
      BY DEF Code, Placed
    <2> QED BY <1>1, <2>1 DEF Relabels, Quiet
  <1>3. KeepsBranches(wk, w, e, c, g, ts, v)
    BY <1>1 DEF KeepsBranches, Quiet
  <1> QED BY <1>2, <1>3, StepCode

\* A step of the generator that appends c to the current section.
Writes(c) == IF inFunc THEN func' = func \o c /\ text' = text ELSE func' = func /\ text' = text \o c

LEMMA EmitWrites == ASSUME NEW c, Emit(c) PROVE Writes(c)
PROOF BY DEF Emit, Writes

LEMMA NothingWritten ==
  ASSUME Generated, UNCHANGED <<func, text>> PROVE Writes(<<>>)
PROOF
  <1>1. func \in Seq(Instructions) /\ text \in Seq(Instructions)
    BY DEF Generated, Code, Shape
  <1>2. func \o <<>> = func /\ text \o <<>> = text
    BY <1>1, ConcatEmptySeq
  <1> QED BY <1>2 DEF Writes

\* What is known of the task on top.
LEMMA TopTask ==
  ASSUME Generated, status = "running"
  PROVE  work \in Seq(Tasks) /\ work # <<>> /\ Task \in Tasks
PROOF
  <1>1. work \in Seq(Tasks) /\ work # <<>>
    BY DEF Generated, Code, Stack
  <1> QED BY <1>1, TaskOnTop DEF Task

LEMMA QuietStep ==
  ASSUME Generated, labels \in Nat, status = "running", NEW c, NEW ts,
         Task.do \notin {"endfunc", "finish"}, Quiet(Task, c, ts),
         \A a, b : TaskMoves(Task, a, b) /\ b # Outside => Performs(c, ts, a, b),
         Writes(c), Then(ts), inFunc' = inFunc, status' = status,
         labels' \in Nat, labels' >= labels
  PROVE  Generated'
PROOF
  <1>1. PICK hf, ht, w, e, own : Code(func, text, work, labels, hf, ht, w, e, own) /\ inFunc = (e # 0)
    BY DEF Generated
  <1> DEFINE n == Len(work)
  <1>2. /\ work \in Seq(Tasks) /\ work # <<>> /\ n \in Nat \ {0} /\ Task = At(work, n)
        /\ Head(work) = Task /\ n \in 1 .. n
    BY TopTask, TaskOnTop DEF Task
  <1>3. Stack(work, w, e)
    BY <1>1 DEF Code
  <1>4. TaskMoves(Task, w[n], w[n - 1])
    BY <1>2, <1>3 DEF Stack
  <1>5. n > 1
    <2>1. Task.do # "finish" /\ (At(work, n).do = "finish" <=> n = 1)
      BY <1>2, <1>3 DEF Stack
    <2>2. n # 1
      BY <1>2, <2>1
    <2> HIDE DEF n
    <2> QED BY <1>2, <2>2
  <1>6. w[n - 1] # Outside
    <2>1. n - 1 \in 1 .. n
      BY <1>2, <1>5
    <2>2. w[n - 1] \in Nat
      BY <1>3, <2>1 DEF Stack, TaskMoves
    <2> QED BY <2>2 DEF Outside
  <1>7. Performs(c, ts, w[n], w[n - 1])
    BY <1>4, <1>6
  <1>8. PICK g, v :
          /\ Shape(c, g)
          /\ \A i \in 1 .. Len(c) + 1 : g[i] \in Nat
          /\ v \in [1 .. Len(ts) + 1 -> Nat]
          /\ \A i \in 1 .. Len(ts) : ts[i].do \notin {"endfunc", "finish"} /\ TaskMoves(ts[i], v[i], v[i + 1])
          /\ g[1] = w[n] /\ v[1] = g[Len(c) + 1] /\ v[Len(ts) + 1] = w[n - 1]
    BY <1>7 DEF Performs
  <1>9. Advances(work, w, c, g, ts, v)
    BY <1>2, <1>7, <1>8 DEF Advances, Performs
  <1>10. IF e # 0 THEN func' = func \o c /\ text' = text ELSE func' = func /\ text' = text \o c
    BY <1>1 DEF Writes
  <1>11. work' = ts \o Tail(work)
    BY DEF Then
  <1>12. \E hf1, ht1, w1 : Code(func', text', work', labels', hf1, ht1, w1, e, own)
    BY <1>1, <1>2, <1>9, <1>10, <1>11, QuietCode
  <1>13. work' # <<>>
    <2>1. ReplacesTop(work, ts, work')
      BY <1>2, <1>7, <1>11, TasksAfter DEF Performs
    <2>2. Len(work') > 0
      BY <1>5, <2>1 DEF ReplacesTop
    <2> QED BY <2>2
  <1> QED BY <1>1, <1>12, <1>13 DEF Generated

LEMMA PerformsCode ==
  ASSUME NEW c, NEW g, Shape(c, g), \A i \in 1 .. Len(c) + 1 : g[i] \in Nat
  PROVE  Performs(c, <<>>, g[1], g[Len(c) + 1])
PROOF
  <1>1. Len(c) \in Nat
    BY DEF Shape
  <1> DEFINE b == g[Len(c) + 1]
  <1>2. b \in Nat
    BY <1>1
  <1> HIDE DEF b
  <1>3. /\ <<>> \in Seq(Tasks) /\ Len(<<>>) = 0 /\ <<b>> \in [1 .. 0 + 1 -> Nat] /\ <<b>>[1] = b
    BY <1>2
  <1>4. Performs(c, <<>>, g[1], b)
    BY <1>3 DEF Performs, b
  <1> QED BY <1>4 DEF b

LEMMA PerformsTasks ==
  ASSUME NEW ts \in Seq(Tasks), NEW v \in [1 .. Len(ts) + 1 -> Nat],
         \A i \in 1 .. Len(ts) : ts[i].do \notin {"endfunc", "finish"} /\ TaskMoves(ts[i], v[i], v[i + 1])
  PROVE  Performs(<<>>, ts, v[1], v[Len(ts) + 1])
PROOF
  <1> DEFINE a == v[1]
  <1>1. a \in Nat
    <2>1. 1 \in 1 .. Len(ts) + 1
      OBVIOUS
    <2> QED BY <2>1
  <1> HIDE DEF a
  <1>2. Shape(<<>>, <<a>>) /\ <<a>>[1] = a /\ Len(<<>>) = 0
    BY <1>1, ShapeNone
  <1>3. \A i \in 1 .. 0 + 1 : <<a>>[i] \in Nat
    BY <1>1
  <1>4. Performs(<<>>, ts, a, v[Len(ts) + 1])
    BY <1>2, <1>3 DEF Performs, a
  <1> QED BY <1>4 DEF a

LEMMA NeutralMoves ==
  ASSUME NEW i \in Neutral, NEW a \in Nat
  PROVE  i \in Instructions /\ Moves(i, a, a)
PROOF BY DEF Moves, Instructions, BodyCode

LEMMA PerformsOne ==
  ASSUME NEW i \in Neutral, NEW a \in Nat
  PROVE  Performs(<<i>>, <<>>, a, a)
PROOF
  <1>1. i \in Instructions /\ Moves(i, a, a)
    BY NeutralMoves
  <1>2. Shape(<<i>>, <<a, a>>)
    BY <1>1, ShapeOne
  <1>3. Len(<<i>>) = 1 /\ <<a, a>>[1] = a /\ <<a, a>>[2] = a
    OBVIOUS
  <1>4. \A j \in 1 .. 1 + 1 : <<a, a>>[j] \in Nat
    OBVIOUS
  <1>5. Performs(<<i>>, <<>>, <<a, a>>[1], <<a, a>>[Len(<<i>>) + 1])
    BY <1>2, <1>3, <1>4, PerformsCode
  <1> QED BY <1>3, <1>5

LEMMA PerformsTwo ==
  ASSUME NEW i \in Neutral, NEW j \in Neutral, NEW a \in Nat
  PROVE  Performs(<<i, j>>, <<>>, a, a)
PROOF
  <1>1. i \in Instructions /\ Moves(i, a, a) /\ j \in Instructions /\ Moves(j, a, a)
    BY NeutralMoves
  <1>2. Shape(<<i, j>>, <<a, a, a>>)
    BY <1>1, ShapeTwo
  <1>3. Len(<<i, j>>) = 2 /\ <<a, a, a>>[1] = a /\ <<a, a, a>>[3] = a
    OBVIOUS
  <1>4. \A k \in 1 .. 2 + 1 : <<a, a, a>>[k] \in Nat
    OBVIOUS
  <1>5. Performs(<<i, j>>, <<>>, <<a, a, a>>[1], <<a, a, a>>[Len(<<i, j>>) + 1])
    BY <1>2, <1>3, <1>4, PerformsCode
  <1> QED BY <1>3, <1>5

LEMMA FiveLong ==
  ASSUME NEW S, NEW a \in S, NEW b \in S, NEW c \in S, NEW d \in S, NEW e \in S
  PROVE  <<a, b, c, d, e>> \in Seq(S)
PROOF OBVIOUS

\* Some instructions the generator writes.
LEMMA SomeNeutral ==
  /\ LoadNil \in Neutral
  /\ \A l \in DataLabels : /\ <<"lea", l>> \in Neutral /\ <<"load", l>> \in Neutral
                           /\ <<"store", l>> \in Neutral /\ <<"cmp", l>> \in Neutral
  /\ \A l \in UserLabels \cup Runtime \cup {Garbage} : <<"call", l>> \in Neutral
  /\ \A l \in LiteralLabels : <<"movsd", l>> \in Neutral
  /\ \A r \in WordRegs : \A s \in WordRegs : <<"mov", r, s>> \in Neutral
  /\ \A o \in Nat : o >= SlotSize => <<"loadslot", o>> \in Neutral
  /\ \A o \in Nat : \A r \in WordRegs : o >= SlotSize => <<"saveslot", o, r>> \in Neutral
  /\ <<"null">> \in Neutral
  /\ \A l \in LocalLabels : <<"je", l>> \in Neutral /\ <<"jmp", l>> \in Neutral /\ <<"label", l>> \in Neutral
  /\ NilLabel \in DataLabels /\ TrueLabel \in DataLabels
PROOF
  <1>1. NilLabel \in DataLabels /\ TrueLabel \in DataLabels
    <2>0. "G" \in LabelChars /\ "_" \in LabelChars /\ "LISP" \in LabelChars
          /\ "TRUE" \in LabelChars /\ "NIL" \in LabelChars
      BY DEF LabelChars
    <2>1. NilLabel \in Seq(LabelChars) /\ TrueLabel \in Seq(LabelChars)
      BY <2>0, FiveLong DEF NilLabel, TrueLabel
    <2>2. NilLabel[1] = "G" /\ TrueLabel[1] = "G" /\ Len(NilLabel) = 5 /\ Len(TrueLabel) = 5
      BY DEF NilLabel, TrueLabel
    <2>3. NilLabel # <<>> /\ TrueLabel # <<>>
      BY <2>2
    <2> QED BY <2>1, <2>2, <2>3 DEF DataLabels
  <1>2. \A o \in Nat : o >= SlotSize => o \in Nat \ (0 .. SlotSize - 1)
    BY DEF SlotSize
  <1>3. \A l \in DataLabels : /\ <<"lea", l>> \in Neutral /\ <<"load", l>> \in Neutral
                              /\ <<"store", l>> \in Neutral /\ <<"cmp", l>> \in Neutral
    BY DEF Neutral
  <1>4. \A l \in UserLabels \cup Runtime \cup {Garbage} : <<"call", l>> \in Neutral
    BY DEF Neutral
  <1>5. \A l \in LiteralLabels : <<"movsd", l>> \in Neutral
    BY DEF Neutral
  <1>6. \A r \in WordRegs : \A s \in WordRegs : <<"mov", r, s>> \in Neutral
    BY DEF Neutral
  <1>7. \A o \in Nat : o >= SlotSize => <<"loadslot", o>> \in Neutral
    BY <1>2 DEF Neutral
  <1>8. \A o \in Nat : \A r \in WordRegs : o >= SlotSize => <<"saveslot", o, r>> \in Neutral
    BY <1>2 DEF Neutral
  <1>9. \A l \in LocalLabels : <<"je", l>> \in Neutral /\ <<"jmp", l>> \in Neutral /\ <<"label", l>> \in Neutral
    BY DEF Neutral
  <1>10. <<"null">> \in Neutral
    BY DEF Neutral
  <1> QED BY <1>1, <1>3, <1>4, <1>5, <1>6, <1>7, <1>8, <1>9, <1>10 DEF LoadNil

\* Where a task leads to, by its kind.
LEMMA TaskFacts ==
  ASSUME NEW t \in Tasks, NEW a, NEW b, TaskMoves(t, a, b)
  PROVE  /\ a \in Nat
         /\ t.do = "expr" => b = a /\ t.e \in Exprs
         /\ t.do = "global" => b = a - 1 /\ b \in Nat /\ t.name \in Exprs
         /\ t.do = "local" => b = a /\ t.name \in Names
         /\ t.do = "param" => b = a /\ t.name \in Exprs /\ t.reg \in WordRegs
         /\ t.do = "builtin" => b = a /\ t.op \in Nat
         /\ t.do = "call" => b = a - t.args /\ b \in Nat /\ t.op \in Nat /\ t.args \in 0 .. MaxArgs
         /\ t.do = "endfunc" => b \in Nat
         /\ t.do = "finish" => b = Outside
PROOF
  <1>1. CASE t \in [do : {"expr"}, e : Exprs]
    BY <1>1 DEF TaskMoves, Emitted, LoadOperands, CompareAndBranch, BranchAndLabel, LabelAlone
  <1>2. CASE t \in [do : {"emit"}, code : Seq(BodyCode)]
    BY <1>2 DEF TaskMoves
  <1>3. CASE t \in [do : {"global"}, name : Exprs]
    BY <1>3 DEF TaskMoves, Emitted, LoadOperands, CompareAndBranch, BranchAndLabel, LabelAlone
  <1>4. CASE t \in [do : {"local"}, name : Names]
    BY <1>4 DEF TaskMoves, Emitted, LoadOperands, CompareAndBranch, BranchAndLabel, LabelAlone
  <1>5. CASE t \in [do : {"param"}, name : Exprs, reg : WordRegs]
    BY <1>5 DEF TaskMoves, Emitted, LoadOperands, CompareAndBranch, BranchAndLabel, LabelAlone
  <1>6. CASE t \in [do : {"endfunc", "finish"}]
    BY <1>6 DEF TaskMoves, Emitted, LoadOperands, CompareAndBranch, BranchAndLabel, LabelAlone
  <1>7. CASE t \in [do : {"builtin"}, op : Nat]
    BY <1>7 DEF TaskMoves, Emitted, LoadOperands, CompareAndBranch, BranchAndLabel, LabelAlone
  <1>8. CASE t \in [do : {"call"}, op : Nat, args : 0 .. MaxArgs]
    BY <1>8 DEF TaskMoves, Emitted, LoadOperands, CompareAndBranch, BranchAndLabel, LabelAlone
  <1> QED BY <1>1, <1>2, <1>3, <1>4, <1>5, <1>6, <1>7, <1>8 DEF Tasks

\* Only instructions to emit define labels or branch.
LEMMA TaskQuiet ==
  ASSUME NEW t \in Tasks, t.do # "emit", NEW l
  PROVE  ~Defines(t, l) /\ ~Branches(t, l)
PROOF BY DEF Defines, Branches, LabelAlone, BranchAndLabel, CompareAndBranch, Emitted

-----------------------------------------------------------------------------
(* The symbol table *)

\* Table t1 has what t had, and info.
Defined(t, info, t1) ==
  /\ TableOK(t1) /\ LiveHeld(t1) /\ Depth(t1) = Depth(t)
  /\ Len(t1.infos) = Len(t.infos) + 1
  /\ \A i \in Ids(t) : t1.infos[i] = t.infos[i]
  /\ t1.infos[Len(t1.infos)].kind = info.kind
  /\ t1.infos[Len(t1.infos)].label = info.label
  /\ t1.infos[Len(t1.infos)].name = info.name
  /\ t.freed \subseteq t1.freed
  /\ info.kind = "local" => ReturnedOffset(t1) \in Nat /\ ReturnedOffset(t1) >= SlotSize

LEMMA DefineTable ==
  ASSUME NEW t, TableOK(t), LiveHeld(t), Depth(t) > 0, NEW info \in NewInfos, NEW t1, t1 = Define(t, info)
  PROVE  Defined(t, info, t1)
PROOF
  <1> DEFINE D == Depth(t)
             id == Len(t.infos) + 1
             offset == Current(t).offset + (IF info.kind = "local" THEN SlotSize ELSE 0)
             placed == IF info.kind = "local" THEN [info EXCEPT !.offset = offset] ELSE info
             map == [t.scopes[D].map EXCEPT ![info.name] = id]
             scope == [map |-> map, offset |-> offset]
             old == t.scopes[D].map[info.name]
  <1>1. /\ t.scopes \in Seq(ScopeSet) /\ t.infos \in Seq(InfoSet) /\ t.freed \in SUBSET Nat
        /\ t.freed \subseteq 1 .. Len(t.infos)
    BY DEF TableOK, Ids
  <1>2. D \in Nat \ {0} /\ D = Len(t.scopes) /\ D \in 1 .. D
    BY <1>1 DEF Depth
  <1>3. t.scopes[D] \in ScopeSet /\ Current(t) = t.scopes[D]
    BY <1>1, <1>2 DEF Current
  <1>4. id \in Nat /\ Len(t.infos) \in Nat /\ id = Len(t.infos) + 1
    BY <1>1
  <1>5. offset \in Nat /\ (info.kind = "local" => offset >= SlotSize)
    BY <1>3 DEF ScopeSet, SlotSize
  <1>6. info.name \in Names
    BY DEF NewInfos
  <1>7. /\ placed \in InfoSet /\ placed.kind = info.kind /\ placed.label = info.label
        /\ placed.name = info.name
    <2> HIDE DEF offset
    <2> QED BY <1>5 DEF NewInfos, InfoSet, SlotSize
  <1>8. map \in [Names -> Nat] /\ map[info.name] = id
        /\ \A n \in Names : n # info.name => map[n] = t.scopes[D].map[n]
    BY <1>3, <1>4, <1>6 DEF ScopeSet
  <1>9. scope \in ScopeSet /\ scope.map = map
    <2> HIDE DEF map, offset
    <2> QED BY <1>5, <1>8 DEF ScopeSet
  <1>10. t1 = [scopes |-> [t.scopes EXCEPT ![D] = scope],
               infos  |-> Append(t.infos, placed),
               freed  |-> t.freed \cup ({old} \ {NoInfo})]
    BY <1>2, <1>3 DEF Define
  <1>11. old \in 1 .. Len(t.infos) \cup {NoInfo}
    BY <1>2, <1>6 DEF TableOK, Ids
  <1> HIDE DEF placed, scope, map, offset, id, D, old
  <1>12. /\ [t.scopes EXCEPT ![D] = scope] \in Seq(ScopeSet)
         /\ Len([t.scopes EXCEPT ![D] = scope]) = D
         /\ \A d \in 1 .. D : [t.scopes EXCEPT ![D] = scope][d] = IF d = D THEN scope ELSE t.scopes[d]
    BY <1>1, <1>2, <1>9
  <1>13. /\ Append(t.infos, placed) \in Seq(InfoSet) /\ Len(Append(t.infos, placed)) = id
         /\ Append(t.infos, placed)[id] = placed
         /\ \A i \in 1 .. Len(t.infos) : Append(t.infos, placed)[i] = t.infos[i]
    BY <1>1, <1>4, <1>7
  <1>14. /\ t1.scopes = [t.scopes EXCEPT ![D] = scope] /\ t1.infos = Append(t.infos, placed)
         /\ t1.freed = t.freed \cup ({old} \ {NoInfo})
    BY <1>10
  <1>15. Ids(t1) = 1 .. id /\ Depth(t1) = D /\ Ids(t) = 1 .. Len(t.infos) /\ Ids(t) \subseteq Ids(t1)
    BY <1>4, <1>12, <1>13, <1>14 DEF Ids, Depth
  <1>16. \A d \in 1 .. D : t1.scopes[d] = IF d = D THEN scope ELSE t.scopes[d]
    BY <1>12, <1>14
  <1>17. t1.freed \subseteq Ids(t1) /\ t1.freed \in SUBSET Nat
    BY <1>1, <1>4, <1>11, <1>14, <1>15
  <1>18. ASSUME NEW d \in 1 .. D, NEW n \in Names PROVE t1.scopes[d].map[n] \in Ids(t1) \cup {NoInfo}
    <2>1. CASE d = D /\ n = info.name
      BY <1>4, <1>8, <1>9, <1>15, <1>16, <2>1
    <2>2. CASE d = D /\ n # info.name
      <3>1. t1.scopes[d].map[n] = t.scopes[d].map[n]
        BY <1>8, <1>9, <1>16, <2>2
      <3> QED BY <1>15, <3>1 DEF TableOK, D
    <2>3. CASE d # D
      <3>1. t1.scopes[d].map[n] = t.scopes[d].map[n]
        BY <1>16, <2>3
      <3> QED BY <1>15, <3>1 DEF TableOK, D
    <2> QED BY <2>1, <2>2, <2>3
  <1>19. t1 \in [scopes : Seq(ScopeSet), infos : Seq(InfoSet), freed : SUBSET Nat]
    BY <1>10, <1>12, <1>13, <1>14, <1>17
  <1>20. TableOK(t1)
    BY <1>15, <1>17, <1>18, <1>19 DEF TableOK
  <1>21. ASSUME NEW i \in Ids(t1) \ t1.freed
         PROVE  \E d \in 1 .. Depth(t1) : \E n \in Names : t1.scopes[d].map[n] = i
    <2>1. CASE i = id
      BY <1>2, <1>6, <1>8, <1>9, <1>15, <1>16, <2>1
    <2>2. CASE i # id
      <3>1. i \in Ids(t) \ t.freed
        BY <1>4, <1>14, <1>15, <2>2
      <3>2. PICK d \in 1 .. D : \E n \in Names : t.scopes[d].map[n] = i
        BY <3>1 DEF LiveHeld, D
      <3>3. PICK n \in Names : t.scopes[d].map[n] = i
        BY <3>2
      <3>4. i # NoInfo
        BY <1>4, <3>1, <1>15 DEF NoInfo
      <3>5. ~(d = D /\ n = info.name)
        BY <1>14, <3>3, <3>4 DEF old
      <3>6. t1.scopes[d].map[n] = t.scopes[d].map[n]
        BY <1>8, <1>9, <1>16, <3>5
      <3> QED BY <1>15, <3>3, <3>6
    <2> QED BY <2>1, <2>2
  <1>22. LiveHeld(t1)
    BY <1>21 DEF LiveHeld
  <1>23. info.kind = "local" => ReturnedOffset(t1) \in Nat /\ ReturnedOffset(t1) >= SlotSize
    BY <1>7, <1>13, <1>14 DEF ReturnedOffset, InfoSet
  <1> QED BY <1>7, <1>13, <1>14, <1>15, <1>20, <1>22, <1>23 DEF D, id, Defined

LEMMA EnterTable ==
  ASSUME NEW t, TableOK(t), LiveHeld(t), Depth(t) > 0, NEW t1, t1 = EnterScope(t)
  PROVE  TableOK(t1) /\ LiveHeld(t1) /\ Depth(t1) = Depth(t) + 1 /\ t1.infos = t.infos /\ t1.freed = t.freed
PROOF
  <1> DEFINE D == Depth(t)
             new == EmptyScope(t.scopes[D].offset)
  <1>1. /\ t \in [scopes : Seq(ScopeSet), infos : Seq(InfoSet), freed : SUBSET Nat]
        /\ t.scopes \in Seq(ScopeSet) /\ t.infos \in Seq(InfoSet) /\ t.freed \in SUBSET Nat
    BY DEF TableOK
  <1>2. D \in Nat \ {0} /\ D = Len(t.scopes) /\ D \in 1 .. D
    BY <1>1 DEF Depth
  <1>3. t.scopes[D] \in ScopeSet /\ Current(t) = t.scopes[D]
    BY <1>1, <1>2 DEF Current
  <1>4. new \in ScopeSet /\ \A n \in Names : new.map[n] = NoInfo
    BY <1>3 DEF EmptyScope, ScopeSet, NoInfo
  <1>5. t1 = [t EXCEPT !.scopes = Append(@, new)]
    BY <1>3 DEF EnterScope
  <1> HIDE DEF new, D
  <1>6. /\ Append(t.scopes, new) \in Seq(ScopeSet) /\ Len(Append(t.scopes, new)) = D + 1
        /\ Append(t.scopes, new)[D + 1] = new
        /\ \A d \in 1 .. D : Append(t.scopes, new)[d] = t.scopes[d]
    BY <1>1, <1>2, <1>4
  <1>7. t1.scopes = Append(t.scopes, new) /\ t1.infos = t.infos /\ t1.freed = t.freed
    BY <1>1, <1>5
  <1>8. t1 \in [scopes : Seq(ScopeSet), infos : Seq(InfoSet), freed : SUBSET Nat]
    BY <1>1, <1>5, <1>6, <1>7
  <1>9. Depth(t1) = D + 1 /\ Ids(t1) = Ids(t) /\ \A d \in 1 .. D : t1.scopes[d] = t.scopes[d]
    BY <1>6, <1>7 DEF Depth, Ids
  <1>10. ASSUME NEW d \in 1 .. D + 1, NEW n \in Names PROVE t1.scopes[d].map[n] \in Ids(t1) \cup {NoInfo}
    <2>1. CASE d = D + 1
      BY <1>4, <1>6, <1>7, <2>1
    <2>2. CASE d # D + 1
      <3>1. d \in 1 .. D
        BY <1>2, <2>2
      <3> QED BY <1>9, <3>1 DEF TableOK, D
    <2> QED BY <2>1, <2>2
  <1>11. TableOK(t1)
    BY <1>7, <1>8, <1>9, <1>10 DEF TableOK
  <1>12. ASSUME NEW i \in Ids(t1) \ t1.freed
         PROVE  \E d \in 1 .. D + 1 : \E n \in Names : t1.scopes[d].map[n] = i
    <2>1. i \in Ids(t) \ t.freed
      BY <1>7, <1>9
    <2>2. PICK d \in 1 .. D : \E n \in Names : t.scopes[d].map[n] = i
      BY <2>1 DEF LiveHeld, D
    <2>3. d \in 1 .. D + 1
      BY <1>2
    <2> QED BY <1>9, <2>2, <2>3
  <1>13. LiveHeld(t1)
    BY <1>9, <1>12 DEF LiveHeld
  <1> QED BY <1>7, <1>9, <1>11, <1>13 DEF D

LEMMA EntriesAreIds ==
  ASSUME NEW t, TableOK(t), NEW d \in 1 .. Depth(t)
  PROVE  /\ Entries(t.scopes[d]) \subseteq Ids(t)
         /\ \A n \in Names : t.scopes[d].map[n] # NoInfo => t.scopes[d].map[n] \in Entries(t.scopes[d])
PROOF BY DEF TableOK, Entries

LEMMA ExitTable ==
  ASSUME NEW t, TableOK(t), LiveHeld(t), Depth(t) = 2, NEW t1, t1 = ExitScope(t)
  PROVE  TableOK(t1) /\ LiveHeld(t1) /\ Depth(t1) = 1 /\ t1.infos = t.infos /\ t.freed \subseteq t1.freed
PROOF
  <1>1. /\ t \in [scopes : Seq(ScopeSet), infos : Seq(InfoSet), freed : SUBSET Nat]
        /\ t.scopes \in Seq(ScopeSet) /\ t.infos \in Seq(InfoSet) /\ t.freed \in SUBSET Nat
        /\ t.freed \subseteq Ids(t) /\ Ids(t) \in SUBSET Nat
    BY DEF TableOK, Ids
  <1>2. Len(t.scopes) = 2 /\ Current(t) = t.scopes[2]
    BY DEF Depth, Current
  <1>3. t1 = [t EXCEPT !.scopes = SubSeq(@, 1, 1), !.freed = @ \cup Entries(t.scopes[2])]
    BY <1>2 DEF ExitScope
  <1>4. /\ SubSeq(t.scopes, 1, 1) \in Seq(ScopeSet) /\ Len(SubSeq(t.scopes, 1, 1)) = 1
        /\ SubSeq(t.scopes, 1, 1)[1] = t.scopes[1]
    BY <1>1, <1>2
  <1>5. /\ t1.scopes = SubSeq(t.scopes, 1, 1) /\ t1.infos = t.infos
        /\ t1.freed = t.freed \cup Entries(t.scopes[2])
    BY <1>1, <1>3
  <1>6. Entries(t.scopes[2]) \subseteq Ids(t)
    BY EntriesAreIds
  <1>7. t1.freed \subseteq Ids(t) /\ t1.freed \in SUBSET Nat
    BY <1>1, <1>5, <1>6
  <1>8. t1 \in [scopes : Seq(ScopeSet), infos : Seq(InfoSet), freed : SUBSET Nat]
    BY <1>1, <1>3, <1>4, <1>5, <1>7
  <1>9. Depth(t1) = 1 /\ Ids(t1) = Ids(t) /\ t1.scopes[1] = t.scopes[1]
    BY <1>4, <1>5 DEF Depth, Ids
  <1>10. TableOK(t1)
    <2> SUFFICES ASSUME NEW d \in 1 .. 1, NEW n \in Names
                 PROVE  t1.scopes[d].map[n] \in Ids(t1) \cup {NoInfo}
      BY <1>7, <1>8, <1>9 DEF TableOK
    <2>1. d = 1 /\ 1 \in 1 .. Depth(t)
      OBVIOUS
    <2> QED BY <1>9, <2>1 DEF TableOK
  <1>11. ASSUME NEW i \in Ids(t1) \ t1.freed
         PROVE  \E d \in 1 .. Depth(t1) : \E n \in Names : t1.scopes[d].map[n] = i
    <2>1. i \in Ids(t) \ t.freed /\ i \notin Entries(t.scopes[2]) /\ i # NoInfo
      BY <1>5, <1>9 DEF Ids, NoInfo
    <2>2. PICK d \in 1 .. Depth(t) : \E n \in Names : t.scopes[d].map[n] = i
      BY <2>1 DEF LiveHeld
    <2>3. PICK n \in Names : t.scopes[d].map[n] = i
      BY <2>2
    <2>4. d # 2
      BY <2>1, <2>3, EntriesAreIds
    <2>5. d = 1
      BY <2>4
    <2> QED BY <1>9, <2>3, <2>5
  <1>12. LiveHeld(t1)
    BY <1>11 DEF LiveHeld
  <1> QED BY <1>5, <1>9, <1>10, <1>12

\* symbol_table_destroy leaves nothing behind.
LEMMA DestroyedTable ==
  ASSUME NEW t, TableOK(t), LiveHeld(t), NEW t1, t1 = DestroyTable(t)
  PROVE  /\ TableOK(t1) /\ LiveHeld(t1) /\ Depth(t1) = 0 /\ t1.infos = t.infos
         /\ t1.freed = Ids(t1) /\ t.freed \subseteq t1.freed
PROOF
  <1> DEFINE held == UNION {Entries(t.scopes[d]) : d \in 1 .. Depth(t)}
  <1>1. /\ t \in [scopes : Seq(ScopeSet), infos : Seq(InfoSet), freed : SUBSET Nat]
        /\ t.infos \in Seq(InfoSet) /\ t.freed \in SUBSET Nat
        /\ t.freed \subseteq Ids(t) /\ Ids(t) \in SUBSET Nat /\ NoInfo \notin Ids(t)
    BY DEF TableOK, Ids, NoInfo
  <1>2. t1 = [t EXCEPT !.scopes = <<>>, !.freed = @ \cup held]
    BY DEF DestroyTable
  <1>3. held \subseteq Ids(t)
    BY EntriesAreIds
  <1>4. ASSUME NEW i \in Ids(t), i \notin t.freed PROVE i \in held
    <2>1. PICK d \in 1 .. Depth(t) : \E n \in Names : t.scopes[d].map[n] = i
      BY <1>4 DEF LiveHeld
    <2>2. i \in Entries(t.scopes[d])
      BY <1>1, <2>1, EntriesAreIds
    <2> QED BY <2>2
  <1> HIDE DEF held
  <1>5. <<>> \in Seq(ScopeSet) /\ Len(<<>>) = 0
    OBVIOUS
  <1>6. t1.scopes = <<>> /\ t1.infos = t.infos /\ t1.freed = t.freed \cup held
    BY <1>1, <1>2
  <1>7. t1.freed = Ids(t) /\ Ids(t1) = Ids(t) /\ Depth(t1) = 0
    BY <1>1, <1>3, <1>4, <1>5, <1>6 DEF Ids, Depth
  <1>8. t1 \in [scopes : Seq(ScopeSet), infos : Seq(InfoSet), freed : SUBSET Nat]
    BY <1>1, <1>2, <1>5, <1>6, <1>7
  <1>9. TableOK(t1) /\ LiveHeld(t1)
    BY <1>7, <1>8 DEF TableOK, LiveHeld
  <1> QED BY <1>1, <1>6, <1>7, <1>9

LEMMA LookupFinds ==
  ASSUME NEW t, TableOK(t), NEW n \in Names, Lookup(t, n) # NoInfo
  PROVE  Lookup(t, n) \in Ids(t) /\ t.infos[Lookup(t, n)] \in InfoSet
PROOF
  <1> DEFINE knowing == {d \in 1 .. Depth(t) : t.scopes[d].map[n] # NoInfo}
             best == CHOOSE d \in knowing : \A c \in knowing : c <= d
  <1>1. knowing # {} /\ Lookup(t, n) = t.scopes[best].map[n]
    BY DEF Lookup
  <1>2. Len(t.infos) \in Nat /\ t.infos \in Seq(InfoSet)
    BY DEF TableOK
  <1>3. knowing \in SUBSET (1 .. Depth(t))
    OBVIOUS
  <1>4. Depth(t) \in Nat
    BY DEF TableOK, Depth
  <1>5. \E d \in knowing : \A c \in knowing : c <= d
    <2> HIDE DEF knowing
    <2> QED BY <1>1, <1>3, <1>4, Greatest
  <1>6. best \in knowing
    BY <1>5
  <1>7. t.scopes[best].map[n] \in Ids(t)
    BY <1>1, <1>6 DEF TableOK
  <1> HIDE DEF best, knowing
  <1>8. Lookup(t, n) \in Ids(t)
    BY <1>1, <1>7
  <1>9. t.infos[Lookup(t, n)] \in InfoSet
    BY <1>2, <1>8 DEF Ids
  <1> QED BY <1>8, <1>9

-----------------------------------------------------------------------------
(* Expressions and labels *)

LEMMA ExprFacts ==
  ASSUME NEW e \in Exprs
  PROVE  /\ e.t \in {"num", "sym", "str", "list"}
         /\ e.t = "num" => e.v \in Int
         /\ HasName(e) => e.s \in Names
         /\ e.t = "list" => e.es \in Seq(Exprs)
PROOF
  <1>1. e \in Atoms \/ e \in [t : {"list"}, es : Seq(Exprs)]
    BY CodegenAssumption
  <1> QED BY <1>1 DEF Atoms, HasName

\* A sequence whose elements are computed from another's.
LEMMA Mapped ==
  ASSUME NEW S, NEW T, NEW s \in Seq(S), NEW r, DOMAIN r = DOMAIN s, r = [i \in DOMAIN r |-> r[i]],
         \A i \in DOMAIN s : r[i] \in T
  PROVE  r \in Seq(T) /\ Len(r) = Len(s)
PROOF
  <1>1. Len(s) \in Nat /\ DOMAIN s = 1 .. Len(s)
    OBVIOUS
  <1>2. r \in [1 .. Len(s) -> T]
    BY <1>1
  <1>3. r \in Seq(T)
    BY <1>1, <1>2, SeqDef
  <1> QED BY <1>1, <1>2, <1>3

LEMMA NameChars ==
  ASSUME NEW n \in Names
  PROVE  n \in Seq(LabelChars) /\ Sanitize(n) \in Seq(LabelChars) /\ Len(Sanitize(n)) = Len(n)
PROOF
  <1>1. n \in Seq(STRING)
    BY CodegenAssumption
  <1>2. \A i \in DOMAIN n : n[i] \in LabelChars
    <2>1. \A i \in DOMAIN n : n[i] \in ToSet(n)
      BY DEF ToSet
    <2>2. \A x \in ToSet(n) : x \in UNION {ToSet(name) : name \in Names}
      OBVIOUS
    <2> QED BY <2>1, <2>2 DEF LabelChars
  <1>3. "_" \in LabelChars
    BY DEF LabelChars
  <1>4. n = [i \in DOMAIN n |-> n[i]]
    BY <1>1
  <1>5. n \in Seq(LabelChars)
    BY <1>1, <1>2, <1>4, Mapped
  <1>6. /\ DOMAIN Sanitize(n) = DOMAIN n /\ Sanitize(n) = [i \in DOMAIN Sanitize(n) |-> Sanitize(n)[i]]
        /\ \A i \in DOMAIN n : Sanitize(n)[i] \in LabelChars
    BY <1>2, <1>3 DEF Sanitize
  <1>7. Sanitize(n) \in Seq(LabelChars) /\ Len(Sanitize(n)) = Len(n)
    BY <1>5, <1>6, Mapped
  <1> QED BY <1>5, <1>7

LEMMA MutateKeeps ==
  ASSUME NEW l \in Seq(LabelChars), l # <<>>, l[1] \notin Punctuation
  PROVE  Mutate(l) \in Seq(LabelChars) /\ Mutate(l) # <<>> /\ Mutate(l)[1] = l[1]
PROOF
  <1>1. "_" \in LabelChars
    BY DEF LabelChars
  <1>2. \A i \in DOMAIN l : l[i] \in LabelChars
    OBVIOUS
  <1>3. 1 \in DOMAIN l /\ Len(l) > 0
    OBVIOUS
  <1>4. /\ DOMAIN Mutate(l) = DOMAIN l /\ Mutate(l) = [i \in DOMAIN Mutate(l) |-> Mutate(l)[i]]
        /\ \A i \in DOMAIN l : Mutate(l)[i] \in LabelChars
    BY <1>1, <1>2 DEF Mutate
  <1>5. Mutate(l) \in Seq(LabelChars) /\ Len(Mutate(l)) = Len(l)
    BY <1>4, Mapped
  <1>6. Mutate(l)[1] = l[1]
    BY <1>3 DEF Mutate
  <1>7. Mutate(l) # <<>>
    BY <1>3, <1>5
  <1> QED BY <1>5, <1>6, <1>7

LEMMA TwoLong == ASSUME NEW S, NEW a \in S, NEW b \in S PROVE <<a, b>> \in Seq(S)
PROOF OBVIOUS

LEMMA FourLong ==
  ASSUME NEW S, NEW a \in S, NEW b \in S, NEW c \in S, NEW d \in S
  PROVE  <<a, b, c, d>> \in Seq(S)
PROOF OBVIOUS

LEMMA Prefixed ==
  ASSUME NEW S, NEW p \in Seq(S), NEW s \in Seq(S), Len(p) > 0
  PROVE  p \o s \in Seq(S) /\ Len(p \o s) > 0 /\ (p \o s)[1] = p[1]
PROOF
  <1>1. Len(p) \in Nat /\ Len(s) \in Nat /\ Len(p \o s) = Len(p) + Len(s) /\ p \o s \in Seq(S)
    BY ConcatProperties
  <1>2. 1 \in 1 .. Len(p) + Len(s) /\ 1 <= Len(p)
    BY <1>1
  <1>3. (p \o s)[1] = p[1]
    BY <1>2, ConcatProperties
  <1> QED BY <1>1, <1>3

LEMMA MadeLabels ==
  ASSUME NEW n \in Names
  PROVE  /\ GlobalLabel(n) \in DataLabels /\ Mutate(GlobalLabel(n)) \in DataLabels
         /\ FuncLabel(n) \in UserLabels /\ Mutate(FuncLabel(n)) \in UserLabels
PROOF
  <1>1. Sanitize(n) \in Seq(LabelChars)
    BY NameChars
  <1>2. "G" \in LabelChars /\ "_" \in LabelChars /\ "user" \in LabelChars /\ "func" \in LabelChars
    BY DEF LabelChars
  <1>3. GlobalPrefix \in Seq(LabelChars) /\ Len(GlobalPrefix) = 2 /\ GlobalPrefix[1] = "G"
    <2>1. <<"G", "_">> \in Seq(LabelChars)
      BY <1>2, TwoLong
    <2> QED BY <2>1 DEF GlobalPrefix
  <1>4. FuncPrefix \in Seq(LabelChars) /\ Len(FuncPrefix) = 4 /\ FuncPrefix[1] = "user"
    <2>1. <<"user", "_", "func", "_">> \in Seq(LabelChars)
      BY <1>2, FourLong
    <2> QED BY <2>1 DEF FuncPrefix
  <1>5. /\ GlobalLabel(n) \in Seq(LabelChars) /\ GlobalLabel(n)[1] = "G" /\ Len(GlobalLabel(n)) > 0
    <2>1. Len(GlobalPrefix) > 0
      BY <1>3
    <2>2. /\ GlobalPrefix \o Sanitize(n) \in Seq(LabelChars) /\ Len(GlobalPrefix \o Sanitize(n)) > 0
          /\ (GlobalPrefix \o Sanitize(n))[1] = GlobalPrefix[1]
      BY <1>1, <1>3, <2>1, Prefixed
    <2> QED BY <1>3, <2>2 DEF GlobalLabel
  <1>6. /\ FuncLabel(n) \in Seq(LabelChars) /\ FuncLabel(n)[1] = "user" /\ Len(FuncLabel(n)) > 0
    <2>1. Len(FuncPrefix) > 0
      BY <1>4
    <2>2. /\ FuncPrefix \o Sanitize(n) \in Seq(LabelChars) /\ Len(FuncPrefix \o Sanitize(n)) > 0
          /\ (FuncPrefix \o Sanitize(n))[1] = FuncPrefix[1]
      BY <1>1, <1>4, <2>1, Prefixed
    <2> QED BY <1>4, <2>2 DEF FuncLabel
  <1>7. "G" \notin Punctuation /\ "user" \notin Punctuation
    BY DEF Punctuation
  <1>8. GlobalLabel(n) # <<>> /\ FuncLabel(n) # <<>>
    BY <1>5, <1>6
  <1>9. Mutate(GlobalLabel(n)) \in DataLabels
    BY <1>5, <1>7, <1>8, MutateKeeps DEF DataLabels
  <1>10. Mutate(FuncLabel(n)) \in UserLabels
    BY <1>6, <1>7, <1>8, MutateKeeps DEF UserLabels
  <1> QED BY <1>5, <1>6, <1>8, <1>9, <1>10 DEF DataLabels, UserLabels

\* The informations the generator makes.
LEMMA MadeInfos ==
  ASSUME NEW n \in Names
  PROVE  /\ LocalVar(n) \in NewInfos /\ LocalVar(n).kind = "local" /\ LocalVar(n).name = n
         /\ \A l \in DataLabels : /\ Info(n, "global", l) \in NewInfos
                                  /\ Info(n, "global", l).kind = "global"
                                  /\ Info(n, "global", l).label = l
         /\ \A l \in UserLabels : /\ Info(n, "user", l) \in NewInfos
                                  /\ Info(n, "user", l).kind = "user"
PROOF
  <1>1. <<>> \in Seq(LabelChars)
    OBVIOUS
  <1>2. LocalVar(n) \in NewInfos /\ LocalVar(n).kind = "local" /\ LocalVar(n).name = n
    BY <1>1 DEF LocalVar, Info, NewInfos, Kinds
  <1>3. ASSUME NEW l \in DataLabels
        PROVE  Info(n, "global", l) \in NewInfos /\ Info(n, "global", l).kind = "global" /\ Info(n, "global", l).label = l
    <2>1. l \in Seq(LabelChars)
      BY DEF DataLabels
    <2> QED BY <2>1 DEF Info, NewInfos, Kinds
  <1>4. ASSUME NEW l \in UserLabels
        PROVE  Info(n, "user", l) \in NewInfos /\ Info(n, "user", l).kind = "user"
    <2>1. l \in Seq(LabelChars)
      BY DEF UserLabels
    <2> QED BY <2>1 DEF Info, NewInfos, Kinds
  <1> QED BY <1>2, <1>3, <1>4

-----------------------------------------------------------------------------
(* Quiet steps of the generator *)

\* Table t1 has at least what t had.
Grows(t, t1) ==
  /\ TableOK(t1) /\ LiveHeld(t1) /\ Depth(t1) = Depth(t)
  /\ \A i \in Ids(t) : i \in Ids(t1) /\ t1.infos[i] = t.infos[i]

OperatorsIn(ts, t) ==
  \A i \in 1 .. Len(ts) :
    /\ ts[i].do = "call" => ts[i].op \in Ids(t) /\ t.infos[ts[i].op].kind = "user"
    /\ ts[i].do = "builtin" => ts[i].op \in Ids(t)

LEMMA GrowsSame == ASSUME NEW t, TableOK(t), LiveHeld(t) PROVE Grows(t, t)
PROOF BY DEF Grows

LEMMA GrowsDefine ==
  ASSUME NEW t, TableOK(t), NEW info, NEW t1, Defined(t, info, t1)
  PROVE  Grows(t, t1)
PROOF
  <1>1. Len(t.infos) \in Nat
    BY DEF TableOK
  <1>2. Ids(t1) = 1 .. Len(t.infos) + 1 /\ Ids(t) \subseteq Ids(t1)
    BY <1>1 DEF Defined, Ids
  <1> QED BY <1>2 DEF Defined, Grows

LEMMA OperatorsAfter ==
  ASSUME NEW wk \in Seq(Tasks), wk # <<>>, NEW t, OperatorsKnown(wk, t), NEW ts \in Seq(Tasks), NEW t1,
         \A i \in Ids(t) : i \in Ids(t1) /\ t1.infos[i] = t.infos[i], OperatorsIn(ts, t1),
         NEW wk1, wk1 = ts \o Tail(wk)
  PROVE  OperatorsKnown(wk1, t1)
PROOF
  <1>1. ReplacesTop(wk, ts, wk1)
    BY TasksAfter
  <1> SUFFICES ASSUME NEW d \in 1 .. Len(wk1)
               PROVE  /\ At(wk1, d).do = "call" => At(wk1, d).op \in Ids(t1) /\ t1.infos[At(wk1, d).op].kind = "user"
                      /\ At(wk1, d).do = "builtin" => At(wk1, d).op \in Ids(t1)
    BY DEF OperatorsKnown
  <1>2. CASE d \in 1 .. Len(wk) - 1
    <2>1. At(wk1, d) = At(wk, d) /\ d \in 1 .. Len(wk)
      BY <1>1, <1>2 DEF ReplacesTop
    <2> QED BY <2>1 DEF OperatorsKnown
  <1>3. CASE d \notin 1 .. Len(wk) - 1
    <2>1. PICK i \in 1 .. Len(ts) : At(wk1, d) = ts[i]
      BY <1>1, <1>3 DEF ReplacesTop
    <2> QED BY <2>1 DEF OperatorsIn
  <1> QED BY <1>2, <1>3

LEMMA QuietInv ==
  ASSUME CInv, status = "running", NEW c, NEW ts, ts \in Seq(Tasks),
         Task.do \notin {"endfunc", "finish"}, Quiet(Task, c, ts),
         \A a, b : TaskMoves(Task, a, b) /\ b # Outside => Performs(c, ts, a, b),
         Writes(c), Then(ts), inFunc' = inFunc, status' = status,
         labels' \in Nat, labels' >= labels, Grows(st, st'), OperatorsIn(ts, st'), DataOK'
  PROVE  CInv'
PROOF
  <1>1. Generated /\ Base /\ OperatorsKnown(work, st) /\ labels \in Nat
    BY DEF CInv, Base, DataOK
  <1>2. Generated'
    BY <1>1, QuietStep
  <1>3. work \in Seq(Tasks) /\ work # <<>>
    BY <1>1, TopTask
  <1>4. work' = ts \o Tail(work)
    BY DEF Then
  <1>5. \A i \in Ids(st) : i \in Ids(st') /\ st'.infos[i] = st.infos[i]
    BY DEF Grows
  <1>6. OperatorsKnown(work', st')
    BY <1>1, <1>3, <1>4, <1>5, OperatorsAfter
  <1>7. TableOK(st') /\ LiveHeld(st')
    BY DEF Grows
  <1>8. Depth(st') = IF status' = "done" THEN 0 ELSE IF inFunc' THEN 2 ELSE 1
    BY <1>1 DEF Grows, Base, ScopesMatch
  <1>9. Base'
    BY <1>7, <1>8 DEF Base, ScopesMatch
  <1> QED BY <1>2, <1>6, <1>9 DEF CInv

LEMMA SameData ==
  ASSUME DataOK, rodata' = rodata, data' = data, labels' = labels, inFunc' = inFunc, status' = status
  PROVE  DataOK'
PROOF BY DEF DataOK

\* Steps that leave no task behind.
LEMMA NoTasks ==
  ASSUME NEW t
  PROVE  <<>> \in Seq(Tasks) /\ OperatorsIn(<<>>, t)
PROOF BY DEF OperatorsIn

Simple(i) == i \in Instructions /\ i[1] \notin {"label", "je", "jmp"}

LEMMA QuietOne ==
  ASSUME NEW t \in Tasks, t.do # "emit", NEW i, Simple(i)
  PROVE  Quiet(t, <<i>>, <<>>)
PROOF
  <1>1. Len(<<i>>) = 1 /\ <<i>>[1] = i /\ Len(<<>>) = 0
    OBVIOUS
  <1>2. \A l \in LocalLabels : ~Defines(t, l)
    BY TaskQuiet
  <1> QED BY <1>1, <1>2 DEF Quiet, Simple

LEMMA QuietTwo ==
  ASSUME NEW t \in Tasks, t.do # "emit", NEW i, NEW j, Simple(i), Simple(j)
  PROVE  Quiet(t, <<i, j>>, <<>>)
PROOF
  <1>1. Len(<<i, j>>) = 2 /\ <<i, j>>[1] = i /\ <<i, j>>[2] = j /\ Len(<<>>) = 0
    OBVIOUS
  <1>2. \A l \in LocalLabels : ~Defines(t, l)
    BY TaskQuiet
  <1>3. \A k \in 1 .. 2 : k = 1 \/ k = 2
    OBVIOUS
  <1> QED BY <1>1, <1>2, <1>3 DEF Quiet, Simple

LEMMA QuietThree ==
  ASSUME NEW t \in Tasks, t.do # "emit", NEW i, NEW j, NEW k, Simple(i), Simple(j), Simple(k)
  PROVE  Quiet(t, <<i, j, k>>, <<>>)
PROOF
  <1>1. /\ Len(<<i, j, k>>) = 3 /\ <<i, j, k>>[1] = i /\ <<i, j, k>>[2] = j /\ <<i, j, k>>[3] = k
        /\ Len(<<>>) = 0
    OBVIOUS
  <1>2. \A l \in LocalLabels : ~Defines(t, l)
    BY TaskQuiet
  <1>3. \A x \in 1 .. 3 : x = 1 \/ x = 2 \/ x = 3
    OBVIOUS
  <1> QED BY <1>1, <1>2, <1>3 DEF Quiet, Simple

LEMMA SimpleNeutral ==
  ASSUME NEW i \in Neutral, i[1] \notin {"label", "je", "jmp"}
  PROVE  Simple(i)
PROOF BY DEF Simple, Instructions, BodyCode

-----------------------------------------------------------------------------
(* Atoms *)

\* The task on top only writes.
LEMMA WriteInv ==
  ASSUME CInv, status = "running", NEW c,
         Task.do \notin {"endfunc", "finish"}, Quiet(Task, c, <<>>),
         \A a, b : TaskMoves(Task, a, b) /\ b # Outside => Performs(c, <<>>, a, b),
         Emit(c), Then(<<>>), inFunc' = inFunc, status' = status,
         labels' \in Nat, labels' >= labels, Grows(st, st'), DataOK'
  PROVE  CInv'
PROOF
  <1>1. <<>> \in Seq(Tasks) /\ OperatorsIn(<<>>, st')
    BY NoTasks
  <1>2. Writes(c)
    BY EmitWrites
  <1> QED BY <1>1, <1>2, QuietInv

LEMMA CInvFacts ==
  ASSUME CInv, status = "running"
  PROVE  /\ TableOK(st) /\ LiveHeld(st) /\ DataOK /\ labels \in Nat /\ labels >= labels
         /\ Depth(st) = (IF inFunc THEN 2 ELSE 1) /\ Depth(st) > 0
         /\ Task \in Tasks /\ Generated /\ Grows(st, st)
         /\ OperatorsKnown(work, st)
PROOF
  <1>1. Generated /\ TableOK(st) /\ LiveHeld(st) /\ DataOK /\ labels \in Nat /\ ScopesMatch
    BY DEF CInv, Base, DataOK
  <1>2. Depth(st) = (IF inFunc THEN 2 ELSE 1)
    BY <1>1 DEF ScopesMatch
  <1>3. Task \in Tasks /\ Grows(st, st)
    BY <1>1, TopTask, GrowsSame
  <1> QED BY <1>1, <1>2, <1>3 DEF CInv

LEMMA CompileNilInv == CInv /\ CompileNil => CInv'
PROOF
  <1> SUFFICES ASSUME CInv, CompileNil PROVE CInv'
    OBVIOUS
  <1>1. status = "running" /\ Task.do = "expr" /\ Emit(<< LoadNil >>) /\ Then(<<>>)
        /\ UNCHANGED <<program, st, rodata, data, inFunc, labels, status>>
    BY DEF CompileNil, Doing
  <1>2. DataOK /\ labels \in Nat /\ labels >= labels /\ Task \in Tasks /\ Grows(st, st)
    BY <1>1, CInvFacts
  <1>3. LoadNil \in Neutral /\ LoadNil[1] = "lea"
    BY SomeNeutral DEF LoadNil
  <1>4. Quiet(Task, << LoadNil >>, <<>>)
    BY <1>1, <1>2, <1>3, SimpleNeutral, QuietOne
  <1>5. ASSUME NEW a, NEW b, TaskMoves(Task, a, b) PROVE Performs(<< LoadNil >>, <<>>, a, b)
    BY <1>1, <1>2, <1>3, <1>5, TaskFacts, PerformsOne
  <1>6. DataOK'
    BY <1>1, <1>2, SameData
  <1> QED BY <1>1, <1>2, <1>4, <1>5, <1>6, WriteInv

LEMMA CompileSymbolInv == CInv /\ CompileSymbol => CInv'
PROOF
  <1> DEFINE info == st.infos[Lookup(st, Task.e.s)]
  <1> SUFFICES ASSUME CInv, CompileSymbol PROVE CInv'
    OBVIOUS
  <1>1. /\ status = "running" /\ Task.do = "expr" /\ Emit(<< LoadVariable(info) >>) /\ Then(<<>>)
        /\ UNCHANGED <<program, st, rodata, data, inFunc, labels, status>>
        /\ Task.e.t = "sym" /\ IsVariable(Lookup(st, Task.e.s))
    BY DEF CompileSymbol, Doing
  <1>2. TableOK(st) /\ DataOK /\ labels \in Nat /\ labels >= labels /\ Task \in Tasks /\ Grows(st, st)
    BY <1>1, CInvFacts
  <1>3. Task.e \in Exprs
    BY <1>1, <1>2 DEF Tasks
  <1>4. Task.e.s \in Names
    BY <1>1, <1>3, ExprFacts DEF HasName
  <1>5. info \in InfoSet /\ info.kind \in {"local", "global"}
    BY <1>1, <1>2, <1>4, LookupFinds DEF IsVariable
  <1> HIDE DEF info
  <1> DEFINE i == LoadVariable(info)
  <1>6. i \in Neutral /\ i[1] \in {"loadslot", "lea", "load"}
    <2>1. CASE info.kind = "local"
      <3>1. i = <<"loadslot", info.offset>> /\ info.offset \in Nat /\ info.offset >= SlotSize
        BY <1>5, <2>1 DEF LoadVariable, InfoSet
      <3>2. <<"loadslot", info.offset>> \in Neutral
        BY <3>1, SomeNeutral
      <3> QED BY <3>1, <3>2
    <2>2. CASE info.kind = "global"
      <3>1. (i = <<"lea", info.label>> \/ i = <<"load", info.label>>) /\ info.label \in DataLabels
        BY <1>5, <2>2 DEF LoadVariable, InfoSet
      <3>2. <<"lea", info.label>> \in Neutral /\ <<"load", info.label>> \in Neutral
        BY <3>1, SomeNeutral
      <3> QED BY <3>1, <3>2
    <2> QED BY <1>5, <2>1, <2>2
  <1> HIDE DEF i
  <1>7. Emit(<<i>>)
    BY <1>1 DEF i
  <1>8. Quiet(Task, <<i>>, <<>>)
    BY <1>1, <1>2, <1>6, SimpleNeutral, QuietOne
  <1>9. ASSUME NEW a, NEW b, TaskMoves(Task, a, b) PROVE Performs(<<i>>, <<>>, a, b)
    BY <1>1, <1>2, <1>6, <1>9, TaskFacts, PerformsOne
  <1>10. DataOK'
    BY <1>1, <1>2, SameData
  <1> QED BY <1>1, <1>2, <1>7, <1>8, <1>9, <1>10, WriteInv

LEMMA CompileNumberInv == CInv /\ CompileNumber => CInv'
PROOF
  <1> DEFINE i == <<"movsd", DoubleLabel(labels)>>
             j == <<"call", <<"lisp_make_number">> >>
  <1> SUFFICES ASSUME CInv, CompileNumber PROVE CInv'
    OBVIOUS
  <1>1. /\ status = "running" /\ Task.do = "expr" /\ Emit(<<i, j>>) /\ Then(<<>>)
        /\ UNCHANGED <<program, st, data, inFunc, status>>
        /\ Task.e.t = "num" /\ labels' = labels + 1
        /\ rodata' = Append(rodata, <<DoubleLabel(labels), Task.e.v>>)
    BY DEF CompileNumber, Doing
  <1>2. DataOK /\ labels \in Nat /\ Task \in Tasks /\ Grows(st, st)
    BY <1>1, CInvFacts
  <1>3. Task.e \in Exprs
    BY <1>1, <1>2 DEF Tasks
  <1>4. Task.e.v \in Int
    BY <1>1, <1>3, ExprFacts
  <1>5. i \in Neutral /\ i[1] = "movsd"
    BY <1>2, SomeNeutral DEF LiteralLabels, DoubleLabel
  <1>6. j \in Neutral /\ j[1] = "call"
    BY SomeNeutral DEF Runtime
  <1> HIDE DEF i, j
  <1>7. Quiet(Task, <<i, j>>, <<>>)
    BY <1>1, <1>2, <1>5, <1>6, SimpleNeutral, QuietTwo
  <1>8. ASSUME NEW a, NEW b, TaskMoves(Task, a, b) PROVE Performs(<<i, j>>, <<>>, a, b)
    BY <1>1, <1>2, <1>5, <1>6, <1>8, TaskFacts, PerformsTwo
  <1>9. DataOK'
    <2> DEFINE x == <<DoubleLabel(labels), Task.e.v>>
    <2>1. x \in ({"L_double"} \X Nat) \X Int /\ x[1][2] = labels
      BY <1>2, <1>4 DEF DoubleLabel
    <2> HIDE DEF x
    <2>2. rodata \in Seq(({"L_double"} \X Nat) \X Int) /\ \A k \in 1 .. Len(rodata) : rodata[k][1][2] < labels
      BY <1>2 DEF DataOK
    <2>3. rodata' = Append(rodata, x)
      BY <1>1 DEF x
    <2>4. /\ rodata' \in Seq(({"L_double"} \X Nat) \X Int) /\ Len(rodata') = Len(rodata) + 1
          /\ \A k \in 1 .. Len(rodata) : rodata'[k] = rodata[k]
          /\ rodata'[Len(rodata) + 1] = x
      BY <2>1, <2>2, <2>3
    <2>5. ASSUME NEW k \in 1 .. Len(rodata') PROVE rodata'[k][1][2] < labels'
      <3>1. CASE k \in 1 .. Len(rodata)
        <4>0. \A S : rodata \in Seq(S) => rodata[k] \in S
          BY <3>1
        <4>1. rodata'[k] = rodata[k] /\ rodata[k] \in ({"L_double"} \X Nat) \X Int
          BY <2>2, <2>4, <3>1, <4>0
        <4>2. rodata[k][1][2] < labels /\ rodata[k][1][2] \in Nat
          BY <2>2, <3>1, <4>1
        <4> QED BY <1>1, <1>2, <4>1, <4>2
      <3>2. CASE k = Len(rodata) + 1
        BY <1>1, <1>2, <2>1, <2>4, <3>2
      <3> QED BY <2>2, <2>4, <3>1, <3>2
    <2> QED BY <1>1, <1>2, <2>4, <2>5 DEF DataOK
  <1>10. labels' \in Nat /\ labels' >= labels
    BY <1>1, <1>2
  <1> QED BY <1>1, <1>2, <1>7, <1>8, <1>9, <1>10, WriteInv

-----------------------------------------------------------------------------
(* The ends of definitions and calls *)

LEMMA PopsMove ==
  ASSUME NEW r \in WordRegs, NEW a \in Nat, NEW b \in Nat, b = a - 1
  PROVE  <<"pop", r>> \in Instructions /\ Moves(<<"pop", r>>, a, b) /\ Simple(<<"pop", r>>)
PROOF
  <1>1. <<"pop", r>> \in {"pop"} \X WordRegs /\ <<"pop", r>>[1] = "pop"
    OBVIOUS
  <1>2. <<"pop", r>> \in Instructions
    BY <1>1 DEF Instructions, BodyCode
  <1> QED BY <1>1, <1>2 DEF Moves, Simple

LEMMA FinishGlobalInv == CInv /\ FinishGlobal => CInv'
PROOF
  <1> DEFINE n == Task.name.s
             label == GlobalLabel(n)
             use == Mutate(label)
             pop == <<"pop", "rbx">>
             store == <<"store", use>>
             load == <<"mov", "rax", "rbx">>
  <1> SUFFICES ASSUME CInv, FinishGlobal PROVE CInv'
    OBVIOUS
  <1>1. /\ status = "running" /\ Task.do = "global" /\ Then(<<>>) /\ HasName(Task.name)
        /\ UNCHANGED <<program, rodata, inFunc, labels, status>>
        /\ data' = Append(data, label) /\ st' = Define(st, Info(n, "global", use))
        /\ Emit(<<pop, <<"store", Info(n, "global", use).label>>, load>>)
    BY DEF FinishGlobal, Doing
  <1>2. /\ TableOK(st) /\ LiveHeld(st) /\ Depth(st) > 0 /\ DataOK /\ labels \in Nat /\ labels >= labels
        /\ Task \in Tasks
    BY <1>1, CInvFacts
  <1>3. Task.name \in Exprs
    BY <1>1, <1>2 DEF Tasks
  <1>4. n \in Names
    BY <1>1, <1>3, ExprFacts
  <1>5. label \in DataLabels /\ use \in DataLabels
    BY <1>4, MadeLabels
  <1>6. Info(n, "global", use) \in NewInfos /\ Info(n, "global", use).label = use
    BY <1>4, <1>5, MadeInfos
  <1>7. Grows(st, st')
    <2>1. Defined(st, Info(n, "global", use), st')
      BY <1>1, <1>2, <1>6, DefineTable
    <2> QED BY <1>2, <2>1, GrowsDefine
  <1>8. Emit(<<pop, store, load>>)
    BY <1>1, <1>6
  <1>9. store \in Neutral /\ load \in Neutral /\ store[1] = "store" /\ load[1] = "mov"
    <2>1. "rax" \in WordRegs /\ "rbx" \in WordRegs
      BY DEF WordRegs
    <2> QED BY <1>5, <2>1, SomeNeutral
  <1>10. Simple(pop) /\ Simple(store) /\ Simple(load)
    <2>1. "rbx" \in WordRegs /\ 0 = 1 - 1
      BY DEF WordRegs
    <2> QED BY <1>9, <2>1, PopsMove, SimpleNeutral
  <1>11. ASSUME NEW a, NEW b, TaskMoves(Task, a, b) PROVE Performs(<<pop, store, load>>, <<>>, a, b)
    <2>1. a \in Nat /\ b \in Nat /\ b = a - 1
      BY <1>1, <1>2, <1>11, TaskFacts
    <2>2. "rbx" \in WordRegs
      BY DEF WordRegs
    <2>3. pop \in Instructions /\ Moves(pop, a, b)
      BY <2>1, <2>2, PopsMove
    <2>4. store \in Instructions /\ Moves(store, b, b) /\ load \in Instructions /\ Moves(load, b, b)
      BY <1>9, <2>1, NeutralMoves
    <2> HIDE DEF pop, store, load
    <2>5. Shape(<<pop, store, load>>, <<a, b, b, b>>)
      BY <2>1, <2>3, <2>4, ShapeThree
    <2>6. Len(<<pop, store, load>>) = 3 /\ <<a, b, b, b>>[1] = a /\ <<a, b, b, b>>[4] = b
      OBVIOUS
    <2>7. \A k \in 1 .. 3 + 1 : <<a, b, b, b>>[k] \in Nat
      BY <2>1
    <2>8. Performs(<<pop, store, load>>, <<>>, <<a, b, b, b>>[1], <<a, b, b, b>>[Len(<<pop, store, load>>) + 1])
      BY <2>5, <2>6, <2>7, PerformsCode
    <2> QED BY <2>6, <2>8
  <1> HIDE DEF pop, store, load
  <1>12. Quiet(Task, <<pop, store, load>>, <<>>)
    BY <1>1, <1>2, <1>10, QuietThree
  <1>13. DataOK'
    BY <1>1, <1>2, <1>5 DEF DataOK
  <1> QED BY <1>1, <1>2, <1>7, <1>8, <1>11, <1>12, <1>13, WriteInv

LEMMA FinishLocalInv == CInv /\ FinishLocal => CInv'
PROOF
  <1> DEFINE n == Task.name
             save == <<"saveslot", ReturnedOffset(st'), "rax">>
             null == <<"null">>
  <1> SUFFICES ASSUME CInv, FinishLocal PROVE CInv'
    OBVIOUS
  <1>1. /\ status = "running" /\ Task.do = "local" /\ Then(<<>>)
        /\ UNCHANGED <<program, rodata, data, inFunc, labels, status>>
        /\ st' = Define(st, LocalVar(n)) /\ Emit(<<save, null>>)
    BY DEF FinishLocal, Doing
  <1>2. /\ TableOK(st) /\ LiveHeld(st) /\ Depth(st) > 0 /\ DataOK /\ labels \in Nat /\ labels >= labels
        /\ Task \in Tasks
    BY <1>1, CInvFacts
  <1>3. n \in Names
    BY <1>1, <1>2 DEF Tasks
  <1>4. Defined(st, LocalVar(n), st')
    BY <1>1, <1>2, <1>3, MadeInfos, DefineTable
  <1>5. Grows(st, st')
    BY <1>2, <1>4, GrowsDefine
  <1>6. ReturnedOffset(st') \in Nat /\ ReturnedOffset(st') >= SlotSize
    BY <1>3, <1>4, MadeInfos DEF Defined
  <1>7. save \in Neutral /\ null \in Neutral /\ save[1] = "saveslot" /\ null[1] = "null"
    <2>1. "rax" \in WordRegs
      BY DEF WordRegs
    <2>2. save \in Neutral
      BY <1>6, <2>1, SomeNeutral
    <2> QED BY <2>2, SomeNeutral
  <1> HIDE DEF save, null
  <1>8. Quiet(Task, <<save, null>>, <<>>)
    BY <1>1, <1>2, <1>7, SimpleNeutral, QuietTwo
  <1>9. ASSUME NEW a, NEW b, TaskMoves(Task, a, b) PROVE Performs(<<save, null>>, <<>>, a, b)
    BY <1>1, <1>2, <1>7, <1>9, TaskFacts, PerformsTwo
  <1>10. DataOK'
    BY <1>1, <1>2, SameData
  <1> QED BY <1>1, <1>2, <1>5, <1>8, <1>9, <1>10, WriteInv

LEMMA DefineParamInv == CInv /\ DefineParam => CInv'
PROOF
  <1> DEFINE n == Task.name.s
             save == <<"saveslot", ReturnedOffset(st'), Task.reg>>
  <1> SUFFICES ASSUME CInv, DefineParam PROVE CInv'
    OBVIOUS
  <1>1. /\ status = "running" /\ Task.do = "param" /\ Then(<<>>) /\ HasName(Task.name)
        /\ UNCHANGED <<program, rodata, data, inFunc, labels, status>>
        /\ st' = Define(st, LocalVar(n)) /\ Emit(<<save>>)
    BY DEF DefineParam, Doing
  <1>2. /\ TableOK(st) /\ LiveHeld(st) /\ Depth(st) > 0 /\ DataOK /\ labels \in Nat /\ labels >= labels
        /\ Task \in Tasks
    BY <1>1, CInvFacts
  <1>3. Task.name \in Exprs /\ Task.reg \in WordRegs
    BY <1>1, <1>2 DEF Tasks
  <1>4. n \in Names
    BY <1>1, <1>3, ExprFacts
  <1>5. Defined(st, LocalVar(n), st')
    BY <1>1, <1>2, <1>4, MadeInfos, DefineTable
  <1>6. Grows(st, st')
    BY <1>2, <1>5, GrowsDefine
  <1>7. ReturnedOffset(st') \in Nat /\ ReturnedOffset(st') >= SlotSize
    BY <1>4, <1>5, MadeInfos DEF Defined
  <1>8. save \in Neutral /\ save[1] = "saveslot"
    BY <1>3, <1>7, SomeNeutral
  <1> HIDE DEF save
  <1>9. Quiet(Task, <<save>>, <<>>)
    BY <1>1, <1>2, <1>8, SimpleNeutral, QuietOne
  <1>10. ASSUME NEW a, NEW b, TaskMoves(Task, a, b) PROVE Performs(<<save>>, <<>>, a, b)
    BY <1>1, <1>2, <1>8, <1>10, TaskFacts, PerformsOne
  <1>11. DataOK'
    BY <1>1, <1>2, SameData
  <1> QED BY <1>1, <1>2, <1>6, <1>9, <1>10, <1>11, WriteInv

LEMMA FinishBuiltinInv == CInv /\ FinishBuiltin => CInv'
PROOF
  <1> SUFFICES ASSUME CInv, FinishBuiltin PROVE CInv'
    OBVIOUS
  <1>1. PICK name \in NamesRead(Task.op) : Emit(<< <<"call", MatchBuiltinFunction(name)>> >>)
    BY DEF FinishBuiltin
  <1>2. /\ status = "running" /\ Task.do = "builtin" /\ Then(<<>>)
        /\ UNCHANGED <<program, st, rodata, data, inFunc, labels, status>>
    BY DEF FinishBuiltin, Doing
  <1>3. DataOK /\ labels \in Nat /\ labels >= labels /\ Task \in Tasks /\ Grows(st, st)
    BY <1>2, CInvFacts
  <1> DEFINE i == <<"call", MatchBuiltinFunction(name)>>
  <1>4. i \in Neutral /\ i[1] = "call"
    <2>1. MatchBuiltinFunction(name) \in Runtime
      BY DEF MatchBuiltinFunction, Runtime
    <2> QED BY <2>1, SomeNeutral
  <1> HIDE DEF i
  <1>5. Emit(<<i>>)
    BY <1>1 DEF i
  <1>6. Quiet(Task, <<i>>, <<>>)
    BY <1>2, <1>3, <1>4, SimpleNeutral, QuietOne
  <1>7. ASSUME NEW a, NEW b, TaskMoves(Task, a, b) PROVE Performs(<<i>>, <<>>, a, b)
    BY <1>2, <1>3, <1>4, <1>7, TaskFacts, PerformsOne
  <1>8. DataOK'
    BY <1>2, <1>3, SameData
  <1> QED BY <1>2, <1>3, <1>5, <1>6, <1>7, <1>8, WriteInv

\* The instructions that pop n operands.
Pops(n) == [i \in 1 .. n |-> <<"pop", ArgRegisters[n + 1 - i]>>]

LEMMA RegisterNames ==
  /\ MaxArgs = 6
  /\ \A i \in 1 .. MaxArgs : ArgRegisters[i] \in WordRegs
PROOF
  <1>1. Len(ArgRegisters) = 6
    BY DEF ArgRegisters
  <1>2. /\ ArgRegisters[1] = "rdi" /\ ArgRegisters[2] = "rsi" /\ ArgRegisters[3] = "rdx"
        /\ ArgRegisters[4] = "rcx" /\ ArgRegisters[5] = "r8" /\ ArgRegisters[6] = "r9"
    BY DEF ArgRegisters
  <1>3. \A i \in 1 .. 6 : i = 1 \/ i = 2 \/ i = 3 \/ i = 4 \/ i = 5 \/ i = 6
    OBVIOUS
  <1> QED BY <1>1, <1>2, <1>3 DEF MaxArgs, WordRegs

\* The code s takes the height of the stack from a down to b.
Lowers(s, a, b) ==
  \E g : /\ Shape(s, g) /\ g[1] = a /\ g[Len(s) + 1] = b
         /\ \A i \in 1 .. Len(s) + 1 : g[i] \in Nat

LEMMA PopsShape ==
  ASSUME NEW n \in 0 .. MaxArgs, NEW a \in Nat, a - n \in Nat
  PROVE  /\ Lowers(Pops(n), a, a - n)
         /\ Len(Pops(n)) = n
         /\ \A i \in 1 .. n : Simple(Pops(n)[i])
PROOF
  <1> DEFINE g == [i \in 1 .. n + 1 |-> a + 1 - i]
  <1>1. n \in Nat /\ n <= 6
    BY RegisterNames
  <1>2. \A i \in 1 .. n : ArgRegisters[n + 1 - i] \in WordRegs
    <2> SUFFICES ASSUME NEW i \in 1 .. n PROVE ArgRegisters[n + 1 - i] \in WordRegs
      OBVIOUS
    <2>1. n + 1 - i \in 1 .. MaxArgs
      BY <1>1, RegisterNames
    <2> QED BY <2>1, RegisterNames
  <1>3. ASSUME NEW i \in 1 .. n
        PROVE  Pops(n)[i] \in Instructions /\ Moves(Pops(n)[i], g[i], g[i + 1]) /\ Simple(Pops(n)[i])
    <2>1. Pops(n)[i] = <<"pop", ArgRegisters[n + 1 - i]>>
      BY DEF Pops
    <2>2. /\ g[i] = a + 1 - i /\ g[i + 1] = a + 1 - (i + 1) /\ a + 1 - i \in Nat
          /\ a + 1 - (i + 1) \in Nat /\ a + 1 - (i + 1) = (a + 1 - i) - 1
      BY <1>1
    <2> QED BY <1>2, <2>1, <2>2, PopsMove
  <1>4. Pops(n) \in [1 .. n -> Instructions]
    BY <1>3 DEF Pops
  <1>5. Pops(n) \in Seq(Instructions) /\ Len(Pops(n)) = n
    <2>1. Pops(n) \in Seq(Instructions)
      BY <1>1, <1>4, SeqDef
    <2> QED BY <1>1, <1>4, <2>1
  <1>6. \A i \in 1 .. n + 1 : g[i] \in Nat
    BY <1>1
  <1>7. g[1] = a /\ g[n + 1] = a - n /\ g \in [1 .. n + 1 -> Int]
    BY <1>1
  <1> HIDE DEF g
  <1>8. Shape(Pops(n), g)
    BY <1>3, <1>5, <1>7 DEF Shape
  <1>9. Lowers(Pops(n), a, a - n)
    BY <1>5, <1>6, <1>7, <1>8 DEF Lowers
  <1> QED BY <1>3, <1>5, <1>9

LEMMA FinishCallInv == CInv /\ FinishCall => CInv'
PROOF
  <1> SUFFICES ASSUME CInv, FinishCall PROVE CInv'
    OBVIOUS
  <1> DEFINE n == Task.args
  <1>1. PICK label \in LabelsRead(Task.op) : Emit(Pops(n) \o << <<"call", label>> >>)
    BY DEF FinishCall, Pops
  <1>2. /\ status = "running" /\ Task.do = "call" /\ Then(<<>>)
        /\ UNCHANGED <<program, st, rodata, data, inFunc, labels, status>>
    BY DEF FinishCall, Doing
  <1>3. /\ DataOK /\ labels \in Nat /\ labels >= labels /\ Task \in Tasks /\ Grows(st, st)
        /\ TableOK(st) /\ Generated /\ OperatorsKnown(work, st)
    BY <1>2, CInvFacts
  <1>4. Task.op \in Ids(st) /\ st.infos[Task.op].kind = "user"
    <2>1. work \in Seq(Tasks) /\ work # <<>>
      BY <1>2, <1>3, TopTask
    <2>2. Task = At(work, Len(work)) /\ Len(work) \in 1 .. Len(work)
      BY <2>1, TaskOnTop DEF Task
    <2> QED BY <1>2, <1>3, <2>2 DEF OperatorsKnown
  <1>5. label \in UserLabels \cup {Garbage}
    <2>1. st.infos[Task.op] \in InfoSet
      BY <1>3, <1>4 DEF TableOK, Ids
    <2>2. st.infos[Task.op].label \in UserLabels
      BY <1>4, <2>1 DEF InfoSet
    <2> QED BY <2>2 DEF LabelsRead
  <1> DEFINE i == <<"call", label>>
             c == Pops(n) \o <<i>>
  <1>6. i \in Neutral /\ i[1] = "call"
    BY <1>5, SomeNeutral
  <1> HIDE DEF i
  <1>7. n \in 0 .. MaxArgs
    BY <1>2, <1>3 DEF Tasks
  <1>8. ASSUME NEW a, NEW b, TaskMoves(Task, a, b) PROVE Performs(c, <<>>, a, b)
    <2>1. a \in Nat /\ b \in Nat /\ b = a - n
      BY <1>2, <1>3, <1>8, TaskFacts
    <2>2. PICK g : /\ Shape(Pops(n), g) /\ g[1] = a /\ g[Len(Pops(n)) + 1] = b
                   /\ \A j \in 1 .. Len(Pops(n)) + 1 : g[j] \in Nat
      <3>1. Lowers(Pops(n), a, a - n)
        BY <1>7, <2>1, PopsShape
      <3>2. Lowers(Pops(n), a, b)
        BY <2>1, <3>1
      <3> QED BY <3>2 DEF Lowers
    <2>3. i \in Instructions /\ Moves(i, b, b)
      BY <1>6, <2>1, NeutralMoves
    <2>4. Shape(<<i>>, <<b, b>>)
      BY <2>1, <2>3, ShapeOne
    <2>5. <<b, b>>[1] = b /\ <<b, b>>[2] = b /\ Len(<<i>>) = 1
      OBVIOUS
    <2>6. PICK k : Shape(c, k) /\ Joins(Pops(n), g, <<i>>, <<b, b>>, k)
      BY <2>2, <2>4, <2>5, ShapeConcat
    <2>7. Len(c) = n + 1 /\ Len(Pops(n)) = n /\ n \in Nat
      BY <1>7, <2>1, <2>5, <2>6, PopsShape, JoinFacts
    <2>8. k[1] = a
      <3>1. 1 \in 1 .. Len(Pops(n)) + 1
        BY <2>7
      <3> QED BY <2>2, <2>6, <3>1 DEF Joins
    <2>9. k[Len(c) + 1] = b
      <3>1. Len(c) + 1 = Len(Pops(n)) + 2 /\ 2 \in 1 .. Len(<<i>>) + 1
        BY <2>5, <2>7
      <3> QED BY <2>5, <2>6, <3>1 DEF Joins
    <2>10. ASSUME NEW j \in 1 .. Len(c) + 1 PROVE k[j] \in Nat
      <3>1. CASE j = Len(c) + 1
        BY <2>1, <2>9, <3>1
      <3>2. CASE j # Len(c) + 1
        <4>1. j \in 1 .. Len(Pops(n)) + 1
          BY <2>7, <3>2
        <4> QED BY <2>2, <2>6, <4>1 DEF Joins
      <3> QED BY <3>1, <3>2
    <2> HIDE DEF c
    <2>11. Performs(c, <<>>, k[1], k[Len(c) + 1])
      BY <2>6, <2>10, PerformsCode
    <2> QED BY <2>8, <2>9, <2>11
  <1>9. Quiet(Task, c, <<>>)
    <2>1. \A l \in LocalLabels : ~Defines(Task, l)
      BY <1>2, <1>3, TaskQuiet
    <2>2. ASSUME NEW j \in 1 .. Len(c) PROVE c[j][1] \notin {"label", "je", "jmp"}
      <3>1. PICK a : a \in Nat /\ a - n \in Nat
        <4>1. n \in Nat /\ n - n \in Nat
          BY <1>7, RegisterNames
        <4> QED BY <4>1
      <3>2. Len(Pops(n)) = n /\ \A y \in 1 .. n : Simple(Pops(n)[y])
        BY <1>7, <3>1, PopsShape
      <3>3. Pops(n) \in Seq(Instructions)
        BY <1>7, <3>1, PopsShape DEF Lowers, Shape
      <3>4. <<i>> \in Seq(Instructions) /\ Len(<<i>>) = 1 /\ <<i>>[1] = i
        BY <1>6, NeutralMoves
      <3>5. /\ Len(c) = n + 1 /\ n \in Nat
            /\ \A y \in 1 .. n + 1 : c[y] = IF y <= n THEN Pops(n)[y] ELSE <<i>>[y - n]
        BY <3>2, <3>3, <3>4, ConcatProperties
      <3>6. CASE j <= n
        BY <3>2, <3>5, <3>6 DEF Simple
      <3>7. CASE ~(j <= n)
        <4>1. j = n + 1 /\ j - n = 1
          BY <3>5, <3>7
        <4>2. c[j] = i
          BY <3>4, <3>5, <3>7, <4>1
        <4> QED BY <1>6, <4>2
      <3> QED BY <3>6, <3>7
    <2>3. Len(<<>>) = 0
      OBVIOUS
    <2> QED BY <2>1, <2>2, <2>3 DEF Quiet
  <1>10. Emit(c)
    BY <1>1 DEF i
  <1>11. DataOK'
    BY <1>2, <1>3, SameData
  <1> HIDE DEF c
  <1> QED BY <1>2, <1>3, <1>8, <1>9, <1>10, <1>11, WriteInv

-----------------------------------------------------------------------------
(* The starts of definitions and calls *)

\* Task t has nothing to do with branches, and ends neither function nor main.
Calm(t) ==
  /\ t.do \notin {"endfunc", "finish"}
  /\ \A l \in LocalLabels : ~Defines(t, l) /\ ~Branches(t, l)

\* From height a tasks ts lead back to height a.
Leads(ts, a) ==
  \E v \in [1 .. Len(ts) + 1 -> Nat] :
    /\ v[1] = a /\ v[Len(ts) + 1] = a
    /\ \A i \in 1 .. Len(ts) : TaskMoves(ts[i], v[i], v[i + 1])

LEMMA KindCalm ==
  ASSUME NEW t \in Tasks, t.do \notin {"emit", "endfunc", "finish"}
  PROVE  Calm(t)
BY TaskQuiet DEF Calm

LEMMA EmitCalm ==
  ASSUME NEW c, c[1][1] \notin {"label", "jmp", "cmp"}
  PROVE  Calm(Emitted(c))
PROOF
  <1>1. Emitted(c).do = "emit" /\ Emitted(c).code = c
    BY DEF Emitted
  <1>2. \A l : LabelAlone(l).code[1][1] = "label" /\ CompareAndBranch(l).code[1][1] = "cmp"
    BY DEF LabelAlone, CompareAndBranch, Emitted
  <1>3. \A m, l : BranchAndLabel(m, l).code[1][1] = "jmp"
    BY DEF BranchAndLabel, Emitted
  <1> QED BY <1>1, <1>2, <1>3 DEF Calm, Defines, Branches

\* An expression is replaced by calm tasks.
LEMMA StartInv ==
  ASSUME CInv, status = "running", Task.do = "expr", NEW ts, ts \in Seq(Tasks),
         \A i \in 1 .. Len(ts) : Calm(ts[i]), OperatorsIn(ts, st), \A a \in Nat : Leads(ts, a),
         Then(ts), UNCHANGED <<program, st, sections, inFunc, labels, status>>
  PROVE  CInv'
PROOF
  <1>1. DataOK /\ labels \in Nat /\ labels >= labels /\ Task \in Tasks /\ Grows(st, st) /\ Generated
    BY CInvFacts
  <1>2. Writes(<<>>)
    BY <1>1, NothingWritten DEF sections
  <1>3. Quiet(Task, <<>>, ts)
    <2>1. \A l \in LocalLabels : ~Defines(Task, l)
      BY <1>1, TaskQuiet
    <2>2. Len(<<>>) = 0
      OBVIOUS
    <2> QED BY <2>1, <2>2 DEF Quiet, Calm
  <1>4. ASSUME NEW a, NEW b, TaskMoves(Task, a, b) PROVE Performs(<<>>, ts, a, b)
    <2>1. a \in Nat /\ b = a
      BY <1>1, <1>4, TaskFacts
    <2>2. Leads(ts, a)
      BY <2>1
    <2>3. PICK v \in [1 .. Len(ts) + 1 -> Nat] :
            /\ v[1] = a /\ v[Len(ts) + 1] = a
            /\ \A i \in 1 .. Len(ts) : TaskMoves(ts[i], v[i], v[i + 1])
      BY <2>2 DEF Leads
    <2>4. \A i \in 1 .. Len(ts) : ts[i].do \notin {"endfunc", "finish"} /\ TaskMoves(ts[i], v[i], v[i + 1])
      BY <2>3 DEF Calm
    <2>5. Performs(<<>>, ts, v[1], v[Len(ts) + 1])
      BY <2>4, PerformsTasks
    <2> QED BY <2>1, <2>3, <2>5
  <1>5. DataOK'
    BY <1>1, SameData DEF sections
  <1>6. /\ inFunc' = inFunc /\ status' = status /\ labels' \in Nat /\ labels' >= labels
        /\ Grows(st, st') /\ OperatorsIn(ts, st')
    BY <1>1
  <1> QED BY <1>1, <1>2, <1>3, <1>4, <1>5, <1>6, QuietInv

\* The tasks of which these start.
LEMMA StartTasks ==
  /\ \A e \in Exprs : Expr(e) \in Tasks /\ Expr(e).do = "expr" /\ Calm(Expr(e))
                      /\ \A a \in Nat : TaskMoves(Expr(e), a, a)
  /\ Emitted(<<PushRax>>) \in Tasks /\ Emitted(<<PushRax>>).do = "emit" /\ Calm(Emitted(<<PushRax>>))
  /\ \A a \in Nat : TaskMoves(Emitted(<<PushRax>>), a, a + 1)
  /\ LoadOperands \in Tasks /\ LoadOperands.do = "emit" /\ Calm(LoadOperands)
  /\ \A a \in Nat : TaskMoves(LoadOperands, a + 1, a)
PROOF
  <1>1. ASSUME NEW e \in Exprs
        PROVE  Expr(e) \in Tasks /\ Expr(e).do = "expr" /\ Calm(Expr(e)) /\ \A a \in Nat : TaskMoves(Expr(e), a, a)
    <2>1. Expr(e) \in [do : {"expr"}, e : Exprs] /\ Expr(e).do = "expr"
      BY DEF Expr
    <2>2. Expr(e) \in Tasks
      BY <2>1 DEF Tasks
    <2>3. Calm(Expr(e))
      BY <2>1, <2>2, KindCalm
    <2> QED BY <2>1, <2>2, <2>3 DEF TaskMoves
  <1>2. PushRax \in BodyCode /\ PushRax[1] = "push"
    BY DEF PushRax, BodyCode
  <1>3. /\ <<"mov", "rdi", "rax">> \in BodyCode /\ <<"pop", "rsi">> \in BodyCode
        /\ <<"mov", "rdi", "rax">>[1] = "mov"
    BY SomeNeutral DEF BodyCode, WordRegs
  <1>4. Emitted(<<PushRax>>) \in Tasks /\ Emitted(<<PushRax>>).do = "emit"
    <2>1. <<PushRax>> \in Seq(BodyCode)
      BY <1>2
    <2> QED BY <2>1 DEF Emitted, Tasks
  <1>5. LoadOperands \in Tasks /\ LoadOperands.do = "emit"
    <2>1. << <<"mov", "rdi", "rax">>, <<"pop", "rsi">> >> \in Seq(BodyCode)
      BY <1>3, TwoLong
    <2> QED BY <2>1 DEF LoadOperands, Emitted, Tasks
  <1>6. Calm(Emitted(<<PushRax>>))
    BY <1>2, EmitCalm
  <1>7. Calm(LoadOperands)
    BY <1>3, EmitCalm DEF LoadOperands
  <1>8. \A a \in Nat : TaskMoves(Emitted(<<PushRax>>), a, a + 1)
    BY DEF TaskMoves
  <1>9. \A a \in Nat : TaskMoves(LoadOperands, a + 1, a)
    <2>1. \A a \in Nat : a + 1 \in Nat /\ a = (a + 1) - 1
      OBVIOUS
    <2> QED BY <2>1 DEF TaskMoves
  <1> QED BY <1>1, <1>4, <1>5, <1>6, <1>7, <1>8, <1>9

\* A list with an operator, and what the operator is.
LEMMA FormFacts ==
  ASSUME TableOK(st), NEW e \in Exprs, OpKind(e) \notin {"none", "unknown"}
  PROVE  /\ e.t = "list" /\ e.es \in Seq(Exprs) /\ Len(e.es) \in Nat \ {0}
         /\ OpId(e) \in Ids(st) /\ st.infos[OpId(e)].kind = OpKind(e)
         /\ \A i \in 1 .. Len(e.es) : e.es[i] \in Exprs
PROOF
  <1>1. /\ e.t = "list" /\ e.es # <<>> /\ OpId(e) # NoInfo
        /\ st.infos[OpId(e)].kind = OpKind(e)
    BY DEF OpKind
  <1>2. e.es \in Seq(Exprs)
    BY <1>1, ExprFacts
  <1>3. Len(e.es) \in Nat \ {0} /\ \A i \in 1 .. Len(e.es) : e.es[i] \in Exprs
    BY <1>1, <1>2
  <1>4. e.es[1] \in Exprs /\ e.es[1].t = "sym" /\ OpId(e) = Lookup(st, e.es[1].s)
    BY <1>1, <1>3 DEF OpId
  <1>5. e.es[1].s \in Names
    BY <1>4, ExprFacts DEF HasName
  <1> QED BY <1>1, <1>2, <1>3, <1>4, <1>5, LookupFinds

LEMMA TwoTasks ==
  ASSUME NEW x \in Tasks, NEW y \in Tasks, Calm(x), Calm(y),
         \A a \in Nat : TaskMoves(x, a, a) /\ TaskMoves(y, a, a)
  PROVE  /\ <<x, y>> \in Seq(Tasks) /\ \A i \in 1 .. Len(<<x, y>>) : Calm(<<x, y>>[i])
         /\ \A a \in Nat : Leads(<<x, y>>, a)
PROOF
  <1>1. Len(<<x, y>>) = 2 /\ <<x, y>>[1] = x /\ <<x, y>>[2] = y
    BY Zenon
  <1>2. \A i \in 1 .. 2 : (i = 1 /\ i + 1 = 2) \/ (i = 2 /\ i + 1 = 3)
    OBVIOUS
  <1>3. ASSUME NEW a \in Nat PROVE Leads(<<x, y>>, a)
    <2>1. /\ <<a, a, a>> \in [1 .. 2 + 1 -> Nat]
          /\ <<a, a, a>>[1] = a /\ <<a, a, a>>[2] = a /\ <<a, a, a>>[3] = a /\ 2 + 1 = 3
      OBVIOUS
    <2> QED BY <1>1, <1>2, <2>1 DEF Leads
  <1>4. <<x, y>> \in Seq(Tasks)
    BY TwoLong
  <1> QED BY <1>1, <1>2, <1>3, <1>4

LEMMA ThreeTasks ==
  ASSUME NEW x \in Tasks, NEW y \in Tasks, NEW z \in Tasks, Calm(x), Calm(y), Calm(z),
         \A a \in Nat : TaskMoves(x, a, a) /\ TaskMoves(y, a, a + 1) /\ TaskMoves(z, a + 1, a)
  PROVE  /\ <<x, y, z>> \in Seq(Tasks) /\ \A i \in 1 .. Len(<<x, y, z>>) : Calm(<<x, y, z>>[i])
         /\ \A a \in Nat : Leads(<<x, y, z>>, a)
PROOF
  <1>1. /\ Len(<<x, y, z>>) = 3
        /\ <<x, y, z>>[1] = x /\ <<x, y, z>>[2] = y /\ <<x, y, z>>[3] = z /\ <<x, y, z>> \in Seq(Tasks)
    OBVIOUS
  <1>2. \A i \in 1 .. 3 : (i = 1 /\ i + 1 = 2) \/ (i = 2 /\ i + 1 = 3) \/ (i = 3 /\ i + 1 = 4)
    OBVIOUS
  <1>3. ASSUME NEW a \in Nat PROVE Leads(<<x, y, z>>, a)
    <2> DEFINE v == <<a, a, a + 1, a>>
    <2>1. v \in [1 .. 3 + 1 -> Nat] /\ v[1] = a /\ v[2] = a /\ v[3] = a + 1 /\ v[4] = a /\ 3 + 1 = 4
      OBVIOUS
    <2> HIDE DEF v
    <2> QED BY <1>1, <1>2, <2>1 DEF Leads
  <1> QED BY <1>1, <1>2, <1>3

LEMMA StartGlobalInv == CInv /\ StartGlobal => CInv'
PROOF
  <1> SUFFICES ASSUME CInv, StartGlobal PROVE CInv'
    OBVIOUS
  <1> DEFINE x == Expr(Task.e.es[3])
             y == Emitted(<<PushRax>>)
             z == [do |-> "global", name |-> Task.e.es[2]]
  <1>1. /\ status = "running" /\ Task.do = "expr" /\ DefinesVariable(Task.e) /\ Then(<<x, y, z>>)
        /\ UNCHANGED <<program, st, sections, inFunc, labels, status>>
    BY DEF StartGlobal, Doing
  <1>2. TableOK(st) /\ Task \in Tasks
    BY <1>1, CInvFacts
  <1>3. Task.e.es[2] \in Exprs /\ Task.e.es[3] \in Exprs
    <2>1. Task.e \in Exprs
      BY <1>1, <1>2 DEF Tasks
    <2>2. OpKind(Task.e) = "special" /\ Len(Task.e.es) >= 3
      BY <1>1 DEF DefinesVariable, IsDefine, IsForm
    <2>3. Len(Task.e.es) \in Nat /\ \A i \in 1 .. Len(Task.e.es) : Task.e.es[i] \in Exprs
      BY <1>2, <2>1, <2>2, FormFacts
    <2> QED BY <2>2, <2>3
  <1>4. x \in Tasks /\ Calm(x) /\ x.do = "expr" /\ \A a \in Nat : TaskMoves(x, a, a)
    BY <1>3, StartTasks
  <1>5. y \in Tasks /\ Calm(y) /\ y.do = "emit" /\ \A a \in Nat : TaskMoves(y, a, a + 1)
    BY StartTasks
  <1>6. z \in Tasks /\ Calm(z) /\ z.do = "global" /\ \A a \in Nat : TaskMoves(z, a + 1, a)
    <2>1. z \in [do : {"global"}, name : Exprs] /\ z.do = "global"
      BY <1>3
    <2>2. z \in Tasks
      BY <2>1 DEF Tasks
    <2>3. \A a \in Nat : a + 1 \in Nat /\ a = (a + 1) - 1
      OBVIOUS
    <2> QED BY <2>1, <2>2, <2>3, KindCalm DEF TaskMoves
  <1> HIDE DEF x, y, z
  <1>7. /\ <<x, y, z>> \in Seq(Tasks) /\ \A i \in 1 .. Len(<<x, y, z>>) : Calm(<<x, y, z>>[i])
        /\ \A a \in Nat : Leads(<<x, y, z>>, a)
    BY <1>4, <1>5, <1>6, ThreeTasks
  <1>8. OperatorsIn(<<x, y, z>>, st)
    <2>1. Len(<<x, y, z>>) = 3 /\ <<x, y, z>>[1] = x /\ <<x, y, z>>[2] = y /\ <<x, y, z>>[3] = z
      OBVIOUS
    <2>2. \A i \in 1 .. 3 : i = 1 \/ i = 2 \/ i = 3
      OBVIOUS
    <2> QED BY <1>4, <1>5, <1>6, <2>1, <2>2 DEF OperatorsIn
  <1> QED BY <1>1, <1>7, <1>8, StartInv

LEMMA StartLocalInv == CInv /\ StartLocal => CInv'
PROOF
  <1> SUFFICES ASSUME CInv, StartLocal PROVE CInv'
    OBVIOUS
  <1> DEFINE x == Expr(Task.e.es[3])
             y == [do |-> "local", name |-> Task.e.es[2].s]
  <1>1. /\ status = "running" /\ Task.do = "expr" /\ DefinesVariable(Task.e) /\ Then(<<x, y>>)
        /\ UNCHANGED <<program, st, sections, inFunc, labels, status>> /\ HasName(Task.e.es[2])
    BY DEF StartLocal, Doing
  <1>2. TableOK(st) /\ Task \in Tasks
    BY <1>1, CInvFacts
  <1>3. Task.e.es[2].s \in Names /\ Task.e.es[3] \in Exprs
    <2>1. Task.e \in Exprs
      BY <1>1, <1>2 DEF Tasks
    <2>2. OpKind(Task.e) = "special" /\ Len(Task.e.es) >= 3
      BY <1>1 DEF DefinesVariable, IsDefine, IsForm
    <2>3. Len(Task.e.es) \in Nat /\ \A i \in 1 .. Len(Task.e.es) : Task.e.es[i] \in Exprs
      BY <1>2, <2>1, <2>2, FormFacts
    <2>4. Task.e.es[2] \in Exprs /\ Task.e.es[3] \in Exprs
      BY <2>2, <2>3
    <2> QED BY <1>1, <2>4, ExprFacts
  <1>4. x \in Tasks /\ Calm(x) /\ x.do = "expr" /\ \A a \in Nat : TaskMoves(x, a, a)
    BY <1>3, StartTasks
  <1>5. y \in Tasks /\ Calm(y) /\ y.do = "local" /\ \A a \in Nat : TaskMoves(y, a, a)
    <2>1. y \in [do : {"local"}, name : Names] /\ y.do = "local"
      BY <1>3
    <2>2. y \in Tasks
      BY <2>1 DEF Tasks
    <2> QED BY <2>1, <2>2, KindCalm DEF TaskMoves
  <1> HIDE DEF x, y
  <1>6. /\ <<x, y>> \in Seq(Tasks) /\ \A i \in 1 .. Len(<<x, y>>) : Calm(<<x, y>>[i])
        /\ \A a \in Nat : Leads(<<x, y>>, a)
    BY <1>4, <1>5, TwoTasks
  <1>7. OperatorsIn(<<x, y>>, st)
    <2>1. Len(<<x, y>>) = 2 /\ <<x, y>>[1] = x /\ <<x, y>>[2] = y
      OBVIOUS
    <2>2. \A i \in 1 .. 2 : i = 1 \/ i = 2
      OBVIOUS
    <2> QED BY <1>4, <1>5, <2>1, <2>2 DEF OperatorsIn
  <1> QED BY <1>1, <1>6, <1>7, StartInv

LEMMA StartBuiltinInv == CInv /\ StartBuiltin => CInv'
PROOF
  <1> SUFFICES ASSUME CInv, StartBuiltin PROVE CInv'
    OBVIOUS
  <1> DEFINE x == Expr(Operands(Task.e)[2])
             p == Emitted(<<PushRax>>)
             y == Expr(Operands(Task.e)[1])
             l == LoadOperands
             z == [do |-> "builtin", op |-> OpId(Task.e)]
             ts == <<x, p, y, l, z>>
  <1>1. /\ status = "running" /\ Task.do = "expr" /\ OpKind(Task.e) = "builtin" /\ Then(ts)
        /\ UNCHANGED <<program, st, sections, inFunc, labels, status>>
        /\ Len(Operands(Task.e)) = 2
    BY DEF StartBuiltin, Doing, LoadOperands
  <1>2. TableOK(st) /\ Task \in Tasks
    BY <1>1, CInvFacts
  <1>3. /\ Operands(Task.e)[1] \in Exprs /\ Operands(Task.e)[2] \in Exprs
        /\ OpId(Task.e) \in Ids(st) /\ OpId(Task.e) \in Nat
    <2>1. Task.e \in Exprs
      BY <1>1, <1>2 DEF Tasks
    <2>2. Task.e.es \in Seq(Exprs) /\ Len(Task.e.es) \in Nat \ {0} /\ OpId(Task.e) \in Ids(st)
      BY <1>1, <1>2, <2>1, FormFacts
    <2>3. Task.e.es # <<>>
      BY <2>2
    <2>4. Operands(Task.e) \in Seq(Exprs)
      BY <2>2, <2>3 DEF Operands
    <2>5. st.infos \in Seq(InfoSet)
      BY <1>2 DEF TableOK
    <2> QED BY <1>1, <2>2, <2>4, <2>5 DEF Ids
  <1>4. /\ x \in Tasks /\ Calm(x) /\ x.do = "expr" /\ \A a \in Nat : TaskMoves(x, a, a)
        /\ y \in Tasks /\ Calm(y) /\ y.do = "expr" /\ \A a \in Nat : TaskMoves(y, a, a)
    BY <1>3, StartTasks
  <1>5. /\ p \in Tasks /\ Calm(p) /\ p.do = "emit" /\ \A a \in Nat : TaskMoves(p, a, a + 1)
        /\ l \in Tasks /\ Calm(l) /\ l.do = "emit" /\ \A a \in Nat : TaskMoves(l, a + 1, a)
    BY StartTasks
  <1>6. /\ z \in Tasks /\ Calm(z) /\ z.do = "builtin" /\ \A a \in Nat : TaskMoves(z, a, a)
        /\ z.op \in Ids(st)
    <2>1. z \in [do : {"builtin"}, op : Nat] /\ z.do = "builtin" /\ z.op = OpId(Task.e)
      BY <1>3
    <2>2. z \in Tasks
      BY <2>1 DEF Tasks
    <2> QED BY <1>3, <2>1, <2>2, KindCalm DEF TaskMoves
  <1> HIDE DEF x, p, y, l, z
  <1>7. /\ Len(ts) = 5 /\ ts \in Seq(Tasks)
        /\ ts[1] = x /\ ts[2] = p /\ ts[3] = y /\ ts[4] = l /\ ts[5] = z
    BY <1>4, <1>5, <1>6, FiveLong
  <1> HIDE DEF ts
  <1>8. \A i \in 1 .. 5 : \/ i = 1 /\ i + 1 = 2
                          \/ i = 2 /\ i + 1 = 3
                          \/ i = 3 /\ i + 1 = 4
                          \/ i = 4 /\ i + 1 = 5
                          \/ i = 5 /\ i + 1 = 6
    OBVIOUS
  <1>9. ASSUME NEW a \in Nat PROVE Leads(ts, a)
    <2> DEFINE v == <<a, a, a + 1, a + 1, a, a>>
    <2>1. /\ v \in [1 .. 5 + 1 -> Nat] /\ 5 + 1 = 6
          /\ v[1] = a /\ v[2] = a /\ v[3] = a + 1 /\ v[4] = a + 1 /\ v[5] = a /\ v[6] = a
      OBVIOUS
    <2> HIDE DEF v
    <2>2. a + 1 \in Nat
      OBVIOUS
    <2>3. TaskMoves(y, a + 1, a + 1)
      BY <1>4, <2>2
    <2>4. \A i \in 1 .. 5 : TaskMoves(ts[i], v[i], v[i + 1])
      BY <1>4, <1>5, <1>6, <1>7, <1>8, <2>1, <2>3
    <2>5. v \in [1 .. Len(ts) + 1 -> Nat] /\ v[Len(ts) + 1] = a
      BY <1>7, <2>1
    <2> QED BY <1>7, <2>1, <2>4, <2>5 DEF Leads
  <1>10. \A i \in 1 .. Len(ts) : Calm(ts[i])
    BY <1>4, <1>5, <1>6, <1>7, <1>8
  <1>11. OperatorsIn(ts, st)
    BY <1>4, <1>5, <1>6, <1>7, <1>8 DEF OperatorsIn
  <1> QED BY <1>1, <1>7, <1>9, <1>10, <1>11, StartInv

LEMMA Halves ==
  ASSUME NEW i \in Nat
  PROVE  /\ i % 2 = 1 => i \div 2 = (i - 1) \div 2 /\ (i + 1) \div 2 = (i - 1) \div 2 + 1
         /\ i % 2 # 1 => i \div 2 = (i - 1) \div 2 + 1
         /\ i \div 2 \in Nat
         /\ i >= 1 => (i - 1) \div 2 \in Nat
         /\ i % 2 = 1 => \A n \in Nat : i <= 2 * n => (i + 1) \div 2 \in 1 .. n
         /\ (2 * i) \div 2 = i
OBVIOUS

LEMMA LastOr ==
  ASSUME NEW m \in Nat
  PROVE  \A i \in 1 .. m + 1 :
           \/ i = m + 1
           \/ i \in 1 .. m /\ i + 1 \in 1 .. m + 1 /\ (i + 1) - 1 = i /\ i \in Nat /\ i >= 1 /\ i <= m
OBVIOUS

\* The tasks of a call with the operands es.
CallTasks(es, op) ==
  [i \in 1 .. 2 * Len(es) |-> IF i % 2 = 1 THEN Expr(es[(i + 1) \div 2]) ELSE Emitted(<<PushRax>>)]
    \o << [do |-> "call", op |-> op, args |-> Len(es)] >>

LEMMA CallTasksAre ==
  ASSUME NEW es \in Seq(Exprs), Len(es) \in 0 .. MaxArgs, NEW op \in Nat
  PROVE  /\ CallTasks(es, op) \in Seq(Tasks) /\ Len(CallTasks(es, op)) = 2 * Len(es) + 1
         /\ \A i \in 1 .. 2 * Len(es) :
              CallTasks(es, op)[i] = IF i % 2 = 1 THEN Expr(es[(i + 1) \div 2]) ELSE Emitted(<<PushRax>>)
         /\ \A i \in 1 .. 2 * Len(es) : CallTasks(es, op)[i].do \in {"expr", "emit"} /\ Calm(CallTasks(es, op)[i])
         /\ CallTasks(es, op)[2 * Len(es) + 1] = [do |-> "call", op |-> op, args |-> Len(es)]
         /\ Calm(CallTasks(es, op)[2 * Len(es) + 1])
PROOF
  <1> DEFINE n == Len(es)
             s == [i \in 1 .. 2 * n |-> IF i % 2 = 1 THEN Expr(es[(i + 1) \div 2]) ELSE Emitted(<<PushRax>>)]
             z == [do |-> "call", op |-> op, args |-> n]
  <1>1. n \in Nat /\ 2 * n \in Nat
    OBVIOUS
  <1>2. ASSUME NEW i \in 1 .. 2 * n
        PROVE  s[i] \in Tasks /\ s[i].do \in {"expr", "emit"} /\ Calm(s[i])
    <2>1. i \in Nat /\ i <= 2 * n
      BY <1>1
    <2>2. CASE i % 2 = 1
      <3>1. (i + 1) \div 2 \in 1 .. n
        BY <1>1, <2>1, <2>2, Halves
      <3>2. es[(i + 1) \div 2] \in Exprs /\ s[i] = Expr(es[(i + 1) \div 2])
        BY <2>2, <3>1
      <3> HIDE DEF s
      <3> QED BY <3>2, StartTasks
    <2>3. CASE i % 2 # 1
      <3>1. s[i] = Emitted(<<PushRax>>)
        BY <2>3
      <3> HIDE DEF s
      <3> QED BY <3>1, StartTasks
    <2> QED BY <2>2, <2>3
  <1>3. z \in Tasks /\ Calm(z)
    <2>1. z \in [do : {"call"}, op : Nat, args : 0 .. MaxArgs] /\ z.do = "call"
      OBVIOUS
    <2> HIDE DEF z
    <2>2. z \in Tasks
      BY <2>1 DEF Tasks
    <2> QED BY <2>1, <2>2, KindCalm
  <1>4. s \in Seq(Tasks) /\ Len(s) = 2 * n
    <2>1. s \in [1 .. 2 * n -> Tasks]
      BY <1>2
    <2>2. s \in Seq(Tasks)
      BY <1>1, <2>1, SeqDef
    <2> QED BY <1>1, <2>1, <2>2
  <1>5. \A i \in 1 .. 2 * n : s[i] = IF i % 2 = 1 THEN Expr(es[(i + 1) \div 2]) ELSE Emitted(<<PushRax>>)
    OBVIOUS
  <1>6. CallTasks(es, op) = s \o <<z>>
    BY DEF CallTasks
  <1> HIDE DEF s, z
  <1>7. <<z>> \in Seq(Tasks) /\ Len(<<z>>) = 1 /\ <<z>>[1] = z
    BY <1>3
  <1>8. /\ s \o <<z>> \in Seq(Tasks) /\ Len(s \o <<z>>) = 2 * n + 1
        /\ \A i \in 1 .. 2 * n + 1 : (s \o <<z>>)[i] = IF i <= 2 * n THEN s[i] ELSE <<z>>[i - 2 * n]
    BY <1>4, <1>7, ConcatProperties
  <1>9. \A i \in 1 .. 2 * n : (s \o <<z>>)[i] = s[i]
    <2>1. \A i \in 1 .. 2 * n : i \in 1 .. 2 * n + 1 /\ i <= 2 * n
      BY <1>1
    <2> QED BY <1>8, <2>1
  <1>10. (s \o <<z>>)[2 * n + 1] = z
    <2>1. 2 * n + 1 \in 1 .. 2 * n + 1 /\ ~(2 * n + 1 <= 2 * n) /\ (2 * n + 1) - 2 * n = 1
      BY <1>1
    <2> QED BY <1>7, <1>8, <2>1
  <1> QED BY <1>2, <1>3, <1>5, <1>6, <1>8, <1>9, <1>10 DEF z

LEMMA CallLeads ==
  ASSUME NEW es \in Seq(Exprs), Len(es) \in 0 .. MaxArgs, NEW op \in Nat, NEW a \in Nat
  PROVE  Leads(CallTasks(es, op), a)
PROOF
  <1> DEFINE n == Len(es)
             ts == CallTasks(es, op)
             v == [i \in 1 .. 2 * n + 2 |-> IF i = 2 * n + 2 THEN a ELSE a + (i - 1) \div 2]
  <1>1. n \in Nat /\ n \in 0 .. MaxArgs
    OBVIOUS
  <1>2. /\ ts \in Seq(Tasks) /\ Len(ts) = 2 * n + 1
        /\ \A i \in 1 .. 2 * n : ts[i] = IF i % 2 = 1 THEN Expr(es[(i + 1) \div 2]) ELSE Emitted(<<PushRax>>)
        /\ ts[2 * n + 1] = [do |-> "call", op |-> op, args |-> n]
    BY CallTasksAre
  <1> HIDE DEF ts
  <1>3. \A i \in 1 .. 2 * n + 1 : v[i] = a + (i - 1) \div 2 /\ a + (i - 1) \div 2 \in Nat
    <2> SUFFICES ASSUME NEW i \in 1 .. 2 * n + 1
                 PROVE  v[i] = a + (i - 1) \div 2 /\ a + (i - 1) \div 2 \in Nat
      OBVIOUS
    <2>1. i \in Nat /\ i >= 1 /\ i \in 1 .. 2 * n + 2 /\ i # 2 * n + 2
      BY <1>1
    <2>2. (i - 1) \div 2 \in Nat
      BY <2>1, Halves
    <2> QED BY <2>1, <2>2
  <1>4. v[2 * n + 2] = a
    BY <1>1
  <1>5. v[1] = a
    <2>1. 1 \in 1 .. 2 * n + 1 /\ (1 - 1) \div 2 = 0
      BY <1>1
    <2> QED BY <1>3, <2>1
  <1>6. v[2 * n + 1] = a + n
    <2>1. 2 * n + 1 \in 1 .. 2 * n + 1 /\ (2 * n + 1) - 1 = 2 * n
      BY <1>1
    <2>2. (2 * n) \div 2 = n
      BY <1>1, Halves
    <2> QED BY <1>3, <2>1, <2>2
  <1>7. v \in [1 .. Len(ts) + 1 -> Nat] /\ v[Len(ts) + 1] = a
    <2>1. \A i \in 1 .. 2 * n + 2 : i \in 1 .. 2 * n + 1 \/ i = 2 * n + 2
      BY <1>1
    <2>2. \A i \in 1 .. 2 * n + 2 : v[i] \in Nat
      BY <1>3, <1>4, <2>1
    <2>3. Len(ts) + 1 = 2 * n + 2
      BY <1>1, <1>2
    <2> QED BY <1>4, <2>2, <2>3
  <1> HIDE DEF v
  <1>8. ASSUME NEW i \in 1 .. Len(ts) PROVE TaskMoves(ts[i], v[i], v[i + 1])
    <2>1. CASE i = 2 * n + 1
      <3>1. v[i] = a + n /\ v[i + 1] = a /\ a + n \in Nat /\ a = (a + n) - n
        <4>1. (2 * n + 1) + 1 = 2 * n + 2
          BY <1>1
        <4> QED BY <1>1, <1>4, <1>6, <2>1, <4>1
      <3>2. ts[i] \in [do : {"call"}, op : Nat, args : 0 .. MaxArgs] /\ ts[i].args = n
        BY <1>1, <1>2, <2>1
      <3> QED BY <1>1, <3>1, <3>2 DEF TaskMoves
    <2>2. CASE i # 2 * n + 1
      <3>1. i \in 1 .. 2 * n /\ i \in Nat /\ i >= 1 /\ i <= 2 * n /\ i \in 1 .. 2 * n + 1 /\ i + 1 \in 1 .. 2 * n + 1
            /\ (i + 1) - 1 = i
        <4>1. 2 * n \in Nat /\ i \in 1 .. 2 * n + 1
          BY <1>1, <1>2
        <4> QED BY <2>2, <4>1, LastOr
      <3>2. v[i] = a + (i - 1) \div 2 /\ v[i + 1] = a + i \div 2 /\ v[i] \in Nat /\ v[i + 1] \in Nat
        BY <1>3, <3>1
      <3>3. CASE i % 2 = 1
        <4>1. v[i + 1] = v[i] /\ (i + 1) \div 2 \in 1 .. n
          BY <1>1, <3>1, <3>2, <3>3, Halves
        <4>2. es[(i + 1) \div 2] \in Exprs /\ ts[i] = Expr(es[(i + 1) \div 2])
          BY <1>2, <3>1, <3>3, <4>1
        <4> QED BY <3>2, <4>1, <4>2, StartTasks
      <3>4. CASE i % 2 # 1
        <4>1. i \div 2 = (i - 1) \div 2 + 1 /\ (i - 1) \div 2 \in Nat
          BY <3>1, <3>4, Halves
        <4>2. v[i + 1] = v[i] + 1
          BY <3>2, <4>1
        <4>3. ts[i] = Emitted(<<PushRax>>)
          BY <1>2, <3>1, <3>4
        <4> QED BY <3>2, <4>2, <4>3, StartTasks
      <3> QED BY <3>3, <3>4
    <2> QED BY <2>1, <2>2
  <1> QED BY <1>5, <1>7, <1>8 DEF Leads, ts

LEMMA StartCallInv == CInv /\ StartCall => CInv'
PROOF
  <1> SUFFICES ASSUME CInv, StartCall PROVE CInv'
    OBVIOUS
  <1> DEFINE es == Operands(Task.e)
             n == Len(es)
             ts == CallTasks(es, OpId(Task.e))
  <1>1. /\ status = "running" /\ Task.do = "expr" /\ OpKind(Task.e) = "user" /\ Then(ts)
        /\ UNCHANGED <<program, st, sections, inFunc, labels, status>>
        /\ n <= MaxArgs
    BY DEF StartCall, Doing, CallTasks
  <1>2. TableOK(st) /\ Task \in Tasks
    BY <1>1, CInvFacts
  <1>3. /\ es \in Seq(Exprs) /\ n \in 0 .. MaxArgs /\ n \in Nat
        /\ OpId(Task.e) \in Ids(st) /\ OpId(Task.e) \in Nat /\ st.infos[OpId(Task.e)].kind = "user"
    <2>1. Task.e \in Exprs
      BY <1>1, <1>2 DEF Tasks
    <2>2. /\ Task.e.es \in Seq(Exprs) /\ Len(Task.e.es) \in Nat \ {0} /\ OpId(Task.e) \in Ids(st)
          /\ st.infos[OpId(Task.e)].kind = "user"
      BY <1>1, <1>2, <2>1, FormFacts
    <2>3. Task.e.es # <<>>
      BY <2>2
    <2>4. Operands(Task.e) \in Seq(Exprs)
      BY <2>2, <2>3 DEF Operands
    <2>5. st.infos \in Seq(InfoSet)
      BY <1>2 DEF TableOK
    <2>6. n \in 0 .. MaxArgs /\ n \in Nat
      <3>1. \A s \in Seq(Exprs) : Len(s) \in Nat
        OBVIOUS
      <3>2. n \in Nat /\ MaxArgs \in Nat
        BY <2>4, <3>1, RegisterNames
      <3> HIDE DEF n
      <3> QED BY <1>1, <3>2
    <2> QED BY <2>2, <2>4, <2>5, <2>6 DEF Ids
  <1>4. /\ ts \in Seq(Tasks) /\ Len(ts) = 2 * n + 1
        /\ \A i \in 1 .. 2 * n : ts[i].do \in {"expr", "emit"} /\ Calm(ts[i])
        /\ ts[2 * n + 1] = [do |-> "call", op |-> OpId(Task.e), args |-> n]
        /\ Calm(ts[2 * n + 1])
    BY <1>3, CallTasksAre
  <1>5. \A a \in Nat : Leads(ts, a)
    BY <1>3, CallLeads
  <1> HIDE DEF ts
  <1>6. \A i \in 1 .. Len(ts) : i \in 1 .. 2 * n \/ i = 2 * n + 1
    <2>1. 2 * n \in Nat
      BY <1>3
    <2> QED BY <1>4, <2>1, LastOr
  <1>7. \A i \in 1 .. Len(ts) : Calm(ts[i])
    BY <1>4, <1>6
  <1>8. OperatorsIn(ts, st)
    <2>1. ts[2 * n + 1].do = "call" /\ ts[2 * n + 1].op = OpId(Task.e)
      BY <1>4
    <2> QED BY <1>3, <1>4, <1>6, <2>1 DEF OperatorsIn
  <1> QED BY <1>1, <1>4, <1>5, <1>7, <1>8, StartInv

-----------------------------------------------------------------------------
(* Conditionals and emitted instructions *)

\* The task on top, in a stack where it does not end function or main.
LEMMA TopPlace ==
  ASSUME NEW wk, NEW w, NEW e, Stack(wk, w, e), wk # <<>>, Head(wk).do \notin {"endfunc", "finish"}
  PROVE  /\ wk \in Seq(Tasks) /\ Len(wk) \in Nat /\ Len(wk) > 1 /\ Head(wk) = At(wk, Len(wk))
         /\ Head(wk) \in Tasks /\ TaskMoves(Head(wk), w[Len(wk)], w[Len(wk) - 1])
         /\ w[Len(wk)] \in Nat /\ w[Len(wk) - 1] \in Nat
         /\ Len(wk) \in 1 .. Len(wk) /\ e # Len(wk) /\ (e # 0 => e \in Nat /\ Len(wk) > e)
PROOF
  <1> DEFINE n == Len(wk)
  <1>1. /\ wk \in Seq(Tasks) /\ n \in Nat \ {0} /\ Head(wk) = At(wk, n) /\ n \in 1 .. n
        /\ Head(wk) \in Tasks
    BY TaskOnTop DEF Stack
  <1>2. TaskMoves(Head(wk), w[n], w[n - 1])
    BY <1>1 DEF Stack
  <1>3. n # 1 /\ n # e /\ e \in {0} \cup 2 .. n
    BY <1>1 DEF Stack
  <1>4. w[n] \in Nat
    BY <1>2 DEF TaskMoves
  <1>5. w[n - 1] \in Nat
    <2>1. n - 1 \in 1 .. n
      <3> HIDE DEF n
      <3> QED BY <1>1, <1>3
    <2> QED BY <2>1 DEF Stack, TaskMoves
  <1>6. n > 1 /\ (e # 0 => e \in Nat /\ n > e)
    <2> HIDE DEF n
    <2> QED BY <1>1, <1>3
  <1> QED BY <1>1, <1>2, <1>3, <1>4, <1>5, <1>6

\* The task on top can write c and leave tasks ts.
Proceeds(fn, tx, wk, lb, w, e, own, c, ts, lb1) ==
  \E g, v, own1 :
    /\ Advances(wk, w, c, g, ts, v)
    /\ Relabels(fn, tx, wk, lb, e, own, c, ts, lb1, own1)
    /\ KeepsBranches(wk, w, e, c, g, ts, v)

LEMMA StepInv ==
  ASSUME CInv, status = "running", NEW c, NEW ts, ts \in Seq(Tasks),
         Task.do \notin {"endfunc", "finish"},
         \A hf, ht, w, e, own :
           Code(func, text, work, labels, hf, ht, w, e, own) =>
             Proceeds(func, text, work, labels, w, e, own, c, ts, labels'),
         Writes(c), Then(ts), inFunc' = inFunc, status' = status,
         labels' \in Nat, Grows(st, st'), OperatorsIn(ts, st'), DataOK'
  PROVE  CInv'
PROOF
  <1>1. Generated /\ Base /\ OperatorsKnown(work, st) /\ labels \in Nat
    BY DEF CInv, Base, DataOK
  <1>2. work \in Seq(Tasks) /\ work # <<>> /\ Head(work) = Task
    BY <1>1, TopTask DEF Task
  <1>3. work' = ts \o Tail(work)
    BY DEF Then
  <1>4. Generated'
    <2>1. PICK hf, ht, w, e, own : Code(func, text, work, labels, hf, ht, w, e, own) /\ inFunc = (e # 0)
      BY <1>1 DEF Generated
    <2>2. Proceeds(func, text, work, labels, w, e, own, c, ts, labels')
      BY <2>1
    <2>3. PICK g, v, own1 : /\ Advances(work, w, c, g, ts, v)
                            /\ Relabels(func, text, work, labels, e, own, c, ts, labels', own1)
                            /\ KeepsBranches(work, w, e, c, g, ts, v)
      BY <2>2 DEF Proceeds
    <2>4. IF e # 0 THEN func' = func \o c /\ text' = text ELSE func' = func /\ text' = text \o c
      BY <2>1 DEF Writes
    <2>5. \E hf1, ht1, w1 : Code(func', text', work', labels', hf1, ht1, w1, e, own1)
      BY <1>1, <1>3, <2>1, <2>3, <2>4, StepCode
    <2>6. work' # <<>>
      <3>1. Stack(work, w, e)
        BY <2>1 DEF Code
      <3>2. ReplacesTop(work, ts, work') /\ Len(work) > 1
        BY <1>2, <1>3, <3>1, TasksAfter, TopPlace
      <3>3. Len(work') > 0
        BY <3>2 DEF ReplacesTop
      <3> QED BY <3>3
    <2> QED BY <2>1, <2>5, <2>6 DEF Generated
  <1>5. \A i \in Ids(st) : i \in Ids(st') /\ st'.infos[i] = st.infos[i]
    BY DEF Grows
  <1>6. OperatorsKnown(work', st')
    BY <1>1, <1>2, <1>3, <1>5, OperatorsAfter
  <1>7. TableOK(st') /\ LiveHeld(st')
    BY DEF Grows
  <1>8. Depth(st') = IF status' = "done" THEN 0 ELSE IF inFunc' THEN 2 ELSE 1
    BY <1>1 DEF Grows, Base, ScopesMatch
  <1>9. Base'
    BY <1>7, <1>8 DEF Base, ScopesMatch
  <1> QED BY <1>4, <1>6, <1>9 DEF CInv

\* The tasks that branch and define labels.
LEMMA BranchTasks ==
  ASSUME NEW l \in LocalLabels, NEW m \in LocalLabels
  PROVE  /\ CompareAndBranch(l) \in Tasks /\ CompareAndBranch(l).do = "emit"
         /\ BranchAndLabel(m, l) \in Tasks /\ BranchAndLabel(m, l).do = "emit"
         /\ LabelAlone(l) \in Tasks /\ LabelAlone(l).do = "emit"
         /\ \A k : /\ ~Defines(CompareAndBranch(l), k) /\ (Branches(CompareAndBranch(l), k) => k = l)
                   /\ (Defines(BranchAndLabel(m, l), k) => k = l)
                   /\ (Branches(BranchAndLabel(m, l), k) => k = m)
                   /\ (Defines(LabelAlone(l), k) => k = l) /\ ~Branches(LabelAlone(l), k)
         /\ Defines(BranchAndLabel(m, l), l) /\ Defines(LabelAlone(l), l)
         /\ \A a \in Nat : /\ TaskMoves(CompareAndBranch(l), a, a) /\ TaskMoves(BranchAndLabel(m, l), a, a)
                           /\ TaskMoves(LabelAlone(l), a, a)
PROOF
  <1>1. /\ <<"cmp", NilLabel>> \in BodyCode /\ <<"je", l>> \in BodyCode /\ <<"jmp", m>> \in BodyCode
        /\ <<"label", l>> \in BodyCode
    BY SomeNeutral DEF BodyCode
  <1>2. /\ \A c \in Seq(BodyCode) : Emitted(c) \in Tasks
        /\ \A c : Emitted(c).do = "emit" /\ Emitted(c).code = c
    BY DEF Emitted, Tasks
  <1>3. CompareAndBranch(l) \in Tasks /\ BranchAndLabel(m, l) \in Tasks /\ LabelAlone(l) \in Tasks
    <2>1. << <<"cmp", NilLabel>>, <<"je", l>> >> \in Seq(BodyCode)
      BY <1>1, TwoLong
    <2>2. << <<"jmp", m>>, <<"label", l>> >> \in Seq(BodyCode)
      BY <1>1, TwoLong
    <2>3. << <<"label", l>> >> \in Seq(BodyCode)
      BY <1>1
    <2> QED BY <1>2, <2>1, <2>2, <2>3 DEF CompareAndBranch, BranchAndLabel, LabelAlone
  <1>4. \A k : /\ CompareAndBranch(k).do = "emit" /\ CompareAndBranch(k).code[1][1] = "cmp"
               /\ CompareAndBranch(k).code[2][2] = k
               /\ LabelAlone(k).do = "emit" /\ LabelAlone(k).code[1][1] = "label"
               /\ LabelAlone(k).code[1][2] = k
    BY DEF CompareAndBranch, LabelAlone, Emitted
  <1>5. \A j, k : /\ BranchAndLabel(j, k).do = "emit" /\ BranchAndLabel(j, k).code[1][1] = "jmp"
                  /\ BranchAndLabel(j, k).code[1][2] = j /\ BranchAndLabel(j, k).code[2][2] = k
    BY DEF BranchAndLabel, Emitted
  <1>6. ASSUME NEW k
        PROVE  /\ ~Defines(CompareAndBranch(l), k) /\ (Branches(CompareAndBranch(l), k) => k = l)
               /\ (Defines(BranchAndLabel(m, l), k) => k = l)
               /\ (Branches(BranchAndLabel(m, l), k) => k = m)
               /\ (Defines(LabelAlone(l), k) => k = l) /\ ~Branches(LabelAlone(l), k)
    <2>1. ~Defines(CompareAndBranch(l), k) /\ (Branches(CompareAndBranch(l), k) => k = l)
      BY <1>4, <1>5 DEF Defines, Branches
    <2>2. (Defines(BranchAndLabel(m, l), k) => k = l) /\ (Branches(BranchAndLabel(m, l), k) => k = m)
      BY <1>4, <1>5 DEF Defines, Branches
    <2>3. (Defines(LabelAlone(l), k) => k = l) /\ ~Branches(LabelAlone(l), k)
      BY <1>4, <1>5 DEF Defines, Branches
    <2> QED BY <2>1, <2>2, <2>3
  <1>7. Defines(BranchAndLabel(m, l), l) /\ Defines(LabelAlone(l), l)
    BY DEF Defines
  <1>8. ASSUME NEW a \in Nat
        PROVE  /\ TaskMoves(CompareAndBranch(l), a, a) /\ TaskMoves(BranchAndLabel(m, l), a, a)
               /\ TaskMoves(LabelAlone(l), a, a)
    BY DEF TaskMoves
  <1> QED BY <1>3, <1>4, <1>5, <1>6, <1>7, <1>8

\* The tasks that emit instructions.
LEMMA EmitKinds ==
  ASSUME NEW t, NEW a, NEW b, TaskMoves(t, a, b), t.do = "emit"
  PROVE  \/ b = a /\ t = Emitted(<< LoadNil >>)
         \/ b = a + 1 /\ t = Emitted(<< PushRax >>)
         \/ b = a - 1 /\ b \in Nat /\ t = LoadOperands
         \/ b = a /\ \E l \in LocalLabels : t = CompareAndBranch(l)
         \/ b = a /\ \E m, l \in LocalLabels : t = BranchAndLabel(m, l)
         \/ b = a /\ \E l \in LocalLabels : t = LabelAlone(l)
PROOF BY DEF TaskMoves

\* A label at the end of the code.
LEMMA LabelProceeds ==
  ASSUME NEW fn, NEW tx, NEW wk, NEW lb \in Nat, NEW hf, NEW ht, NEW w, NEW e, NEW own,
         Code(fn, tx, wk, lb, hf, ht, w, e, own), wk # <<>>, NEW l \in LocalLabels,
         Defines(Head(wk), l), \A k : Defines(Head(wk), k) => k = l,
         NEW c, NEW g, Shape(c, g), \A i \in 1 .. Len(c) + 1 : g[i] \in Nat,
         g[1] = w[Len(wk)], g[Len(c)] = w[Len(wk)], g[Len(c) + 1] = w[Len(wk) - 1],
         Head(wk).do = "emit", Len(c) > 0, c[Len(c)] = <<"label", l>>,
         \A i \in 1 .. Len(c) : c[i][1] = "label" => i = Len(c),
         \A i \in 1 .. Len(c) : \A k \in LocalLabels :
           BranchTo(c[i], k) => Branches(Head(wk), k) /\ g[i] = w[Len(wk)]
  PROVE  Proceeds(fn, tx, wk, lb, w, e, own, c, <<>>, lb)
PROOF
  <1> DEFINE n == Len(wk)
             place == IF e # 0 THEN <<"func", Len(fn) + Len(c)>> ELSE <<"text", Len(tx) + Len(c)>>
             own1 == [own EXCEPT ![l] = place]
             v == <<w[n - 1]>>
  <1>1. Stack(wk, w, e) /\ Placed(fn, tx, wk, lb, own) /\ TaskBranches(wk, w, e)
        /\ fn \in Seq(Instructions) /\ tx \in Seq(Instructions)
    BY DEF Code, Shape
  <1>2. /\ wk \in Seq(Tasks) /\ n \in Nat /\ n > 1 /\ Head(wk) = At(wk, n) /\ n \in 1 .. n
        /\ w[n] \in Nat /\ w[n - 1] \in Nat /\ e # n /\ (e # 0 => e \in Nat /\ n > e)
    BY <1>1, TopPlace
  <1>3. Len(c) \in Nat \ {0} /\ c \in Seq(Instructions)
    BY DEF Shape
  <1>4. Advances(wk, w, c, g, <<>>, v)
    <2>1. /\ Len(<<>>) = 0 /\ v \in [1 .. 0 + 1 -> Nat] /\ v[0 + 1] = w[n - 1] /\ v[1] = w[n - 1]
          /\ <<>> \in Seq(Tasks)
      BY <1>2
    <2> HIDE DEF v
    <2> QED BY <1>2, <2>1 DEF Advances
  <1>5. Relabels(fn, tx, wk, lb, e, own, c, <<>>, lb, own1)
    <2>1. own \in [LocalLabels -> {"func", "text", "work"} \X Nat] /\ l[2] < lb
      BY <1>1, <1>2 DEF Placed
    <2>2. Len(fn) + Len(c) \in Nat /\ Len(tx) + Len(c) \in Nat
      BY <1>1, <1>3
    <2>3. place \in {"func", "text", "work"} \X Nat
      BY <2>2
    <2>4. own1 \in [LocalLabels -> {"func", "text", "work"} \X Nat] /\ own1[l] = place
          /\ \A k \in LocalLabels : k # l => own1[k] = own[k]
      BY <2>1, <2>3
    <2>5. ASSUME NEW i \in 1 .. Len(c), NEW k \in LocalLabels, c[i] = <<"label", k>>
          PROVE  /\ own1[k] = IF e # 0 THEN <<"func", Len(fn) + i>> ELSE <<"text", Len(tx) + i>>
                 /\ k[2] < lb
      <3>1. i = Len(c) /\ k = l
        <4>1. c[i][1] = "label" /\ c[i][2] = k
          BY <2>5
        <4>2. i = Len(c)
          BY <4>1
        <4>3. <<"label", l>>[2] = l
          OBVIOUS
        <4> QED BY <4>1, <4>2, <4>3
      <3> QED BY <2>1, <2>4, <3>1
    <2>6. \A k \in LocalLabels : ~Defines(Head(wk), k) => own1[k] = own[k]
      BY <2>4
    <2>7. Len(<<>>) = 0 /\ lb >= lb
      OBVIOUS
    <2> HIDE DEF own1
    <2> QED BY <2>4, <2>5, <2>6, <2>7 DEF Relabels
  <1>6. KeepsBranches(wk, w, e, c, g, <<>>, v)
    <2>1. \A k \in LocalLabels : Defines(Head(wk), k) =>
            \E i \in 1 .. Len(c) : c[i] = <<"label", k>> /\ g[i] = w[n]
      <3>1. Len(c) \in 1 .. Len(c)
        BY <1>3
      <3> QED BY <3>1
    <2>2. ASSUME NEW i \in 1 .. Len(c), NEW k \in LocalLabels, BranchTo(c[i], k)
          PROVE  \E d \in 1 .. n - 1 : Defines(At(wk, d), k) /\ w[d] = g[i] /\ (e # 0 => d > e)
      <3>1. Branches(At(wk, n), k) /\ g[i] = w[n]
        BY <1>2, <2>2
      <3>2. PICK d \in 1 .. n - 1 : /\ Defines(At(wk, d), k) /\ w[d] = w[n]
                                    /\ n \in FuncTasks(wk, e) => d \in FuncTasks(wk, e)
        BY <1>1, <1>2, <3>1 DEF TaskBranches
      <3>3. e # 0 => d > e
        BY <1>2, <3>2 DEF FuncTasks
      <3> QED BY <3>1, <3>2, <3>3
    <2>3. Len(<<>>) = 0
      OBVIOUS
    <2> QED BY <2>1, <2>2, <2>3 DEF KeepsBranches
  <1> QED BY <1>4, <1>5, <1>6 DEF Proceeds

\* A branch without a label.
LEMMA BranchProceeds ==
  ASSUME NEW fn, NEW tx, NEW wk, NEW lb \in Nat, NEW hf, NEW ht, NEW w, NEW e, NEW own,
         Code(fn, tx, wk, lb, hf, ht, w, e, own), wk # <<>>,
         \A l \in LocalLabels : ~Defines(Head(wk), l),
         NEW c, NEW g, Shape(c, g), \A i \in 1 .. Len(c) + 1 : g[i] \in Nat,
         g[1] = w[Len(wk)], g[Len(c) + 1] = w[Len(wk) - 1],
         Head(wk).do = "emit", \A i \in 1 .. Len(c) : c[i][1] # "label",
         \A i \in 1 .. Len(c) : \A k \in LocalLabels :
           BranchTo(c[i], k) => Branches(Head(wk), k) /\ g[i] = w[Len(wk)]
  PROVE  Proceeds(fn, tx, wk, lb, w, e, own, c, <<>>, lb)
PROOF
  <1> DEFINE n == Len(wk)
             v == <<w[n - 1]>>
  <1>1. Stack(wk, w, e) /\ Placed(fn, tx, wk, lb, own) /\ TaskBranches(wk, w, e)
    BY DEF Code
  <1>2. /\ wk \in Seq(Tasks) /\ n \in Nat /\ n > 1 /\ Head(wk) = At(wk, n) /\ n \in 1 .. n
        /\ w[n] \in Nat /\ w[n - 1] \in Nat /\ e # n /\ (e # 0 => e \in Nat /\ n > e)
    BY <1>1, TopPlace
  <1>3. Advances(wk, w, c, g, <<>>, v)
    <2>1. /\ Len(<<>>) = 0 /\ v \in [1 .. 0 + 1 -> Nat] /\ v[0 + 1] = w[n - 1] /\ v[1] = w[n - 1]
          /\ <<>> \in Seq(Tasks)
      BY <1>2
    <2> HIDE DEF v
    <2> QED BY <1>2, <2>1 DEF Advances
  <1>4. Relabels(fn, tx, wk, lb, e, own, c, <<>>, lb, own)
    <2>1. own \in [LocalLabels -> {"func", "text", "work"} \X Nat]
      BY <1>1 DEF Placed
    <2>2. Len(<<>>) = 0 /\ lb >= lb /\ \A k : <<"label", k>>[1] = "label"
      OBVIOUS
    <2> QED BY <2>1, <2>2 DEF Relabels
  <1>5. KeepsBranches(wk, w, e, c, g, <<>>, v)
    <2>1. ASSUME NEW i \in 1 .. Len(c), NEW k \in LocalLabels, BranchTo(c[i], k)
          PROVE  \E d \in 1 .. n - 1 : Defines(At(wk, d), k) /\ w[d] = g[i] /\ (e # 0 => d > e)
      <3>1. Branches(At(wk, n), k) /\ g[i] = w[n]
        BY <1>2, <2>1
      <3>2. PICK d \in 1 .. n - 1 : /\ Defines(At(wk, d), k) /\ w[d] = w[n]
                                    /\ n \in FuncTasks(wk, e) => d \in FuncTasks(wk, e)
        BY <1>1, <1>2, <3>1 DEF TaskBranches
      <3>3. e # 0 => d > e
        BY <1>2, <3>2 DEF FuncTasks
      <3> QED BY <3>1, <3>2, <3>3
    <2>2. Len(<<>>) = 0
      OBVIOUS
    <2> QED BY <2>1, <2>2 DEF KeepsBranches
  <1> QED BY <1>3, <1>4, <1>5 DEF Proceeds

\* Code of one or two instructions.
LEMMA OneInstr ==
  ASSUME NEW i \in Instructions, NEW a \in Nat, NEW b \in Nat, Moves(i, a, b)
  PROVE  /\ Shape(<<i>>, <<a, b>>) /\ Len(<<i>>) = 1 /\ \A k \in 1 .. 1 + 1 : <<a, b>>[k] \in Nat
         /\ <<i>>[1] = i /\ <<a, b>>[1] = a /\ <<a, b>>[1 + 1] = b /\ \A k \in 1 .. 1 : k = 1
PROOF
  <1>1. Shape(<<i>>, <<a, b>>)
    BY ShapeOne
  <1> QED BY <1>1

LEMMA TwoInstrs ==
  ASSUME NEW i \in Instructions, NEW j \in Instructions, NEW a \in Nat, NEW b \in Nat, NEW c \in Nat,
         Moves(i, a, b), Moves(j, b, c)
  PROVE  /\ Shape(<<i, j>>, <<a, b, c>>) /\ Len(<<i, j>>) = 2 /\ \A k \in 1 .. 2 + 1 : <<a, b, c>>[k] \in Nat
         /\ <<i, j>>[1] = i /\ <<i, j>>[2] = j
         /\ <<a, b, c>>[1] = a /\ <<a, b, c>>[2] = b /\ <<a, b, c>>[2 + 1] = c
         /\ \A k \in 1 .. 2 : k = 1 \/ k = 2
PROOF
  <1>1. Shape(<<i, j>>, <<a, b, c>>)
    BY ShapeTwo
  <1>2. \A k \in 1 .. 2 + 1 : <<a, b, c>>[k] \in Nat
    OBVIOUS
  <1> QED BY <1>1, <1>2

\* Instructions that are not branches.
LEMMA NoBranch ==
  ASSUME NEW i, i[1] \notin {"je", "jmp"}
  PROVE  \A l : ~BranchTo(i, l)
PROOF
  <1>1. \A l : <<"je", l>>[1] = "je" /\ <<"jmp", l>>[1] = "jmp"
    OBVIOUS
  <1> QED BY <1>1 DEF BranchTo

LEMMA EmitProceeds ==
  ASSUME NEW fn, NEW tx, NEW wk, NEW lb \in Nat, NEW hf, NEW ht, NEW w, NEW e, NEW own,
         Code(fn, tx, wk, lb, hf, ht, w, e, own), wk # <<>>, Head(wk).do = "emit"
  PROVE  Proceeds(fn, tx, wk, lb, w, e, own, Head(wk).code, <<>>, lb)
PROOF
  <1> DEFINE a == w[Len(wk)]
             b == w[Len(wk) - 1]
             t == Head(wk)
  <1>1. TaskMoves(t, a, b) /\ a \in Nat /\ b \in Nat
    BY TopPlace DEF Code
  <1>2. \/ b = a /\ t = Emitted(<< LoadNil >>)
        \/ b = a + 1 /\ t = Emitted(<< PushRax >>)
        \/ b = a - 1 /\ t = LoadOperands
        \/ b = a /\ \E l \in LocalLabels : t = CompareAndBranch(l)
        \/ b = a /\ \E m, l \in LocalLabels : t = BranchAndLabel(m, l)
        \/ b = a /\ \E l \in LocalLabels : t = LabelAlone(l)
    BY <1>1, EmitKinds
  <1>3. \A s : Emitted(s).code = s
    BY DEF Emitted
  <1>4. ASSUME NEW i \in Instructions, Moves(i, a, b), i[1] \notin {"label", "je", "jmp", "cmp"},
               t = Emitted(<<i>>)
        PROVE  Proceeds(fn, tx, wk, lb, w, e, own, t.code, <<>>, lb)
    <2>1. t.code = <<i>> /\ t.code[1][1] = i[1]
      BY <1>3, <1>4
    <2>2. \A l \in LocalLabels : ~Defines(t, l)
      BY <1>4, <2>1, EmitCalm DEF Calm
    <2>3. /\ Shape(<<i>>, <<a, b>>) /\ Len(<<i>>) = 1 /\ \A k \in 1 .. 1 + 1 : <<a, b>>[k] \in Nat
          /\ <<i>>[1] = i /\ <<a, b>>[1] = a /\ <<a, b>>[1 + 1] = b /\ \A k \in 1 .. 1 : k = 1
      BY <1>1, <1>4, OneInstr
    <2>4. \A l : ~BranchTo(i, l)
      BY <1>4, NoBranch
    <2> DEFINE c == <<i>>
               g == <<a, b>>
    <2> HIDE DEF c, g
    <2>5. /\ Shape(c, g) /\ \A k \in 1 .. Len(c) + 1 : g[k] \in Nat
          /\ g[1] = a /\ g[Len(c) + 1] = b /\ \A k \in 1 .. Len(c) : c[k] = i
      BY <2>3 DEF c, g
    <2>6. Proceeds(fn, tx, wk, lb, w, e, own, c, <<>>, lb)
      BY <1>4, <2>2, <2>4, <2>5, BranchProceeds
    <2> QED BY <2>1, <2>6 DEF c
  <1>5. CASE b = a /\ t = Emitted(<< LoadNil >>)
    <2>1. LoadNil \in Neutral /\ LoadNil[1] = "lea"
      BY SomeNeutral DEF LoadNil
    <2> QED BY <1>1, <1>4, <1>5, <2>1, NeutralMoves
  <1>6. CASE b = a + 1 /\ t = Emitted(<< PushRax >>)
    <2>1. PushRax \in Instructions /\ Moves(PushRax, a, b) /\ PushRax[1] = "push"
      BY <1>1, <1>6 DEF Instructions, BodyCode, Moves, PushRax
    <2> QED BY <1>4, <1>6, <2>1
  <1>7. CASE b = a - 1 /\ t = LoadOperands
    <2> DEFINE i == <<"mov", "rdi", "rax">>
               j == <<"pop", "rsi">>
    <2>1. i \in Neutral /\ i[1] = "mov"
      BY SomeNeutral DEF WordRegs
    <2>2. j \in Instructions /\ Moves(j, a, b) /\ j[1] = "pop"
      BY <1>1, <1>7, PopsMove DEF WordRegs
    <2>3. t = Emitted(<<i, j>>)
      BY <1>7 DEF LoadOperands
    <2> HIDE DEF i, j
    <2>4. i \in Instructions /\ Moves(i, a, a)
      BY <1>1, <2>1, NeutralMoves
    <2> DEFINE c == <<i, j>>
               g == <<a, a, b>>
    <2>5. /\ Shape(c, g) /\ Len(c) = 2 /\ \A k \in 1 .. 2 + 1 : g[k] \in Nat
          /\ c[1] = i /\ c[2] = j /\ g[1] = a /\ g[2 + 1] = b /\ \A k \in 1 .. 2 : k = 1 \/ k = 2
      BY <1>1, <2>2, <2>4, TwoInstrs
    <2>6. t.code = c
      BY <1>3, <2>3
    <2> HIDE DEF c, g
    <2>7. \A l \in LocalLabels : ~Defines(t, l)
      BY <2>1, <2>5, <2>6, <1>7, StartTasks DEF Calm
    <2>8. \A l : ~BranchTo(i, l) /\ ~BranchTo(j, l)
      BY <2>1, <2>2, NoBranch
    <2>9. Proceeds(fn, tx, wk, lb, w, e, own, c, <<>>, lb)
      BY <2>1, <2>2, <2>5, <2>7, <2>8, BranchProceeds
    <2> QED BY <2>6, <2>9
  <1>8. ASSUME NEW l \in LocalLabels, b = a, t = CompareAndBranch(l)
        PROVE  Proceeds(fn, tx, wk, lb, w, e, own, t.code, <<>>, lb)
    <2> DEFINE i == <<"cmp", NilLabel>>
               j == <<"je", l>>
    <2>1. i \in Neutral /\ i[1] = "cmp" /\ j \in Neutral /\ j[1] = "je" /\ j[2] = l
      BY SomeNeutral
    <2>2. t = Emitted(<<i, j>>)
      BY <1>8 DEF CompareAndBranch
    <2>3. \A k : BranchTo(j, k) => k = l
      BY DEF BranchTo
    <2> HIDE DEF i, j
    <2>4. i \in Instructions /\ Moves(i, a, a) /\ j \in Instructions /\ Moves(j, a, a)
      BY <1>1, <2>1, NeutralMoves
    <2> DEFINE c == <<i, j>>
               g == <<a, a, a>>
    <2>5. /\ Shape(c, g) /\ Len(c) = 2 /\ \A k \in 1 .. 2 + 1 : g[k] \in Nat
          /\ c[1] = i /\ c[2] = j /\ g[1] = a /\ g[2] = a /\ g[2 + 1] = a /\ \A k \in 1 .. 2 : k = 1 \/ k = 2
      BY <1>1, <2>4, TwoInstrs
    <2>6. t.code = c
      BY <1>3, <2>2
    <2> HIDE DEF c, g
    <2>7. \A k \in LocalLabels : ~Defines(t, k)
      BY <1>8, BranchTasks
    <2>8. Branches(t, l) /\ \A k : ~BranchTo(i, k)
      BY <1>8, <2>1, NoBranch DEF Branches
    <2>9. \A x \in 1 .. Len(c) : \A k \in LocalLabels : BranchTo(c[x], k) => Branches(t, k) /\ g[x] = a
      BY <2>3, <2>5, <2>8
    <2>10. \A x \in 1 .. Len(c) : c[x][1] # "label"
      BY <2>1, <2>5
    <2>11. t.do = "emit" /\ g[Len(c) + 1] = b /\ \A k \in 1 .. Len(c) + 1 : g[k] \in Nat
      BY <1>8, <2>5
    <2>12. Proceeds(fn, tx, wk, lb, w, e, own, c, <<>>, lb)
      BY <2>5, <2>7, <2>9, <2>10, <2>11, BranchProceeds
    <2> QED BY <2>6, <2>12
  <1>9. ASSUME NEW l \in LocalLabels, NEW m \in LocalLabels, b = a, t = BranchAndLabel(m, l)
        PROVE  Proceeds(fn, tx, wk, lb, w, e, own, t.code, <<>>, lb)
    <2> DEFINE i == <<"jmp", m>>
               j == <<"label", l>>
    <2>1. i \in Neutral /\ i[1] = "jmp" /\ j \in Neutral /\ j[1] = "label" /\ j = <<"label", l>>
      BY SomeNeutral
    <2>2. t = Emitted(<<i, j>>)
      BY <1>9 DEF BranchAndLabel
    <2>3. \A k : BranchTo(i, k) => k = m
      BY DEF BranchTo
    <2> HIDE DEF i, j
    <2>4. i \in Instructions /\ Moves(i, a, a) /\ j \in Instructions /\ Moves(j, a, a)
      BY <1>1, <2>1, NeutralMoves
    <2> DEFINE c == <<i, j>>
               g == <<a, a, a>>
    <2>5. /\ Shape(c, g) /\ Len(c) = 2 /\ \A k \in 1 .. 2 + 1 : g[k] \in Nat
          /\ c[1] = i /\ c[2] = j /\ g[1] = a /\ g[2] = a /\ g[2 + 1] = a /\ \A k \in 1 .. 2 : k = 1 \/ k = 2
      BY <1>1, <2>4, TwoInstrs
    <2>6. t.code = c
      BY <1>3, <2>2
    <2> HIDE DEF c, g
    <2>7. Defines(t, l) /\ \A k : Defines(t, k) => k = l
      BY <1>9, BranchTasks
    <2>8. Branches(t, m) /\ \A k : ~BranchTo(j, k)
      BY <1>9, <2>1, NoBranch DEF Branches
    <2>9. \A x \in 1 .. Len(c) : \A k \in LocalLabels : BranchTo(c[x], k) => Branches(t, k) /\ g[x] = a
      BY <2>3, <2>5, <2>8
    <2>10. (\A x \in 1 .. Len(c) : c[x][1] = "label" => x = Len(c)) /\ c[Len(c)] = <<"label", l>>
      BY <2>1, <2>5
    <2>11. /\ t.do = "emit" /\ g[Len(c) + 1] = b /\ g[Len(c)] = a /\ Len(c) > 0
           /\ \A k \in 1 .. Len(c) + 1 : g[k] \in Nat
      BY <1>9, <2>5
    <2>12. Proceeds(fn, tx, wk, lb, w, e, own, c, <<>>, lb)
      BY <2>5, <2>7, <2>9, <2>10, <2>11, LabelProceeds
    <2> QED BY <2>6, <2>12
  <1>10. ASSUME NEW l \in LocalLabels, b = a, t = LabelAlone(l)
         PROVE  Proceeds(fn, tx, wk, lb, w, e, own, t.code, <<>>, lb)
    <2> DEFINE i == <<"label", l>>
    <2>1. i \in Neutral /\ i[1] = "label" /\ i = <<"label", l>>
      BY SomeNeutral
    <2>2. t = Emitted(<<i>>)
      BY <1>10 DEF LabelAlone
    <2> HIDE DEF i
    <2>3. i \in Instructions /\ Moves(i, a, a)
      BY <1>1, <2>1, NeutralMoves
    <2> DEFINE c == <<i>>
               g == <<a, a>>
    <2>4. /\ Shape(c, g) /\ Len(c) = 1 /\ \A k \in 1 .. 1 + 1 : g[k] \in Nat
          /\ c[1] = i /\ g[1] = a /\ g[1 + 1] = a /\ \A k \in 1 .. 1 : k = 1
      BY <1>1, <2>3, OneInstr
    <2>5. t.code = c
      BY <1>3, <2>2
    <2> HIDE DEF c, g
    <2>6. Defines(t, l) /\ \A k : Defines(t, k) => k = l
      BY <1>10, BranchTasks
    <2>7. \A k : ~BranchTo(i, k)
      BY <2>1, NoBranch
    <2>8. \A x \in 1 .. Len(c) : \A k \in LocalLabels : BranchTo(c[x], k) => Branches(t, k) /\ g[x] = a
      BY <2>4, <2>7
    <2>9. (\A x \in 1 .. Len(c) : c[x][1] = "label" => x = Len(c)) /\ c[Len(c)] = <<"label", l>>
      BY <2>1, <2>4
    <2>10. /\ t.do = "emit" /\ g[Len(c) + 1] = b /\ g[Len(c)] = a /\ Len(c) > 0
           /\ \A k \in 1 .. Len(c) + 1 : g[k] \in Nat
      BY <1>10, <2>4
    <2>11. Proceeds(fn, tx, wk, lb, w, e, own, c, <<>>, lb)
      BY <2>4, <2>6, <2>8, <2>9, <2>10, LabelProceeds
    <2> QED BY <2>5, <2>11
  <1> QED BY <1>2, <1>5, <1>6, <1>7, <1>8, <1>9, <1>10

LEMMA EmitTaskInv == CInv /\ EmitTask => CInv'
PROOF
  <1> SUFFICES ASSUME CInv, EmitTask PROVE CInv'
    OBVIOUS
  <1>1. /\ status = "running" /\ Task.do = "emit" /\ Emit(Task.code) /\ Then(<<>>)
        /\ UNCHANGED <<program, st, rodata, data, inFunc, labels, status>>
    BY DEF EmitTask, Doing
  <1>2. DataOK /\ labels \in Nat /\ Grows(st, st) /\ Generated
    BY <1>1, CInvFacts
  <1>3. <<>> \in Seq(Tasks) /\ OperatorsIn(<<>>, st')
    BY NoTasks
  <1>4. Writes(Task.code)
    BY <1>1, EmitWrites
  <1>5. DataOK'
    BY <1>1, <1>2, SameData
  <1>6. work # <<>> /\ Head(work) = Task
    BY <1>1, <1>2, TopTask DEF Task
  <1>7. ASSUME NEW hf, NEW ht, NEW w, NEW e, NEW own, Code(func, text, work, labels, hf, ht, w, e, own)
        PROVE  Proceeds(func, text, work, labels, w, e, own, Task.code, <<>>, labels)
    BY <1>1, <1>2, <1>6, <1>7, EmitProceeds
  <1>8. Task.do \notin {"endfunc", "finish"} /\ labels' = labels /\ labels' \in Nat /\ Grows(st, st')
    BY <1>1, <1>2
  <1> QED BY <1>1, <1>3, <1>4, <1>5, <1>7, <1>8, StepInv

\* The tasks of a conditional, with two new labels.
IfTasks(x, y, z, lb) ==
  << x, CompareAndBranch(ElseLabel(lb)), y, BranchAndLabel(EndLabel(lb + 1), ElseLabel(lb)), z,
     LabelAlone(EndLabel(lb + 1)) >>

\* Tasks without labels and branches that keep the height.
Level(t) == t \in Tasks /\ Calm(t) /\ \A a \in Nat : TaskMoves(t, a, a)

IfForm(ts, x, y, z, lb) ==
  /\ ts \in Seq(Tasks) /\ Len(ts) = 6
  /\ ts[1] = x /\ ts[3] = y /\ ts[5] = z
  /\ ts[2] = CompareAndBranch(ElseLabel(lb))
  /\ ts[4] = BranchAndLabel(EndLabel(lb + 1), ElseLabel(lb))
  /\ ts[6] = LabelAlone(EndLabel(lb + 1))
  /\ ElseLabel(lb) \in LocalLabels /\ EndLabel(lb + 1) \in LocalLabels
  /\ ElseLabel(lb)[2] = lb /\ EndLabel(lb + 1)[2] = lb + 1 /\ ElseLabel(lb) # EndLabel(lb + 1)
  /\ \A i \in 1 .. 6 : i = 1 \/ i = 2 \/ i = 3 \/ i = 4 \/ i = 5 \/ i = 6

LEMMA IfTasksAre ==
  ASSUME NEW x, NEW y, NEW z, Level(x), Level(y), Level(z), NEW lb \in Nat
  PROVE  IfForm(IfTasks(x, y, z, lb), x, y, z, lb)
PROOF
  <1>1. /\ ElseLabel(lb) \in LocalLabels /\ EndLabel(lb + 1) \in LocalLabels
        /\ ElseLabel(lb)[2] = lb /\ EndLabel(lb + 1)[2] = lb + 1
    BY DEF LocalLabels, ElseLabel, EndLabel
  <1>2. ElseLabel(lb) # EndLabel(lb + 1)
    BY <1>1
  <1> DEFINE p == CompareAndBranch(ElseLabel(lb))
             q == BranchAndLabel(EndLabel(lb + 1), ElseLabel(lb))
             r == LabelAlone(EndLabel(lb + 1))
  <1>3. p \in Tasks /\ q \in Tasks /\ r \in Tasks /\ x \in Tasks /\ y \in Tasks /\ z \in Tasks
    BY <1>1, BranchTasks DEF Level
  <1> HIDE DEF p, q, r
  <1> DEFINE ts == <<x, p, y, q, z, r>>
  <1>4. ts \in Seq(Tasks) /\ Len(ts) = 6
    BY <1>3
  <1>5. ts[1] = x /\ ts[2] = p /\ ts[3] = y /\ ts[4] = q /\ ts[5] = z /\ ts[6] = r
    OBVIOUS
  <1>6. IfTasks(x, y, z, lb) = ts
    BY DEF IfTasks, p, q, r
  <1>7. \A i \in 1 .. 6 : i = 1 \/ i = 2 \/ i = 3 \/ i = 4 \/ i = 5 \/ i = 6
    OBVIOUS
  <1> HIDE DEF ts
  <1> QED BY <1>1, <1>2, <1>4, <1>5, <1>6, <1>7 DEF p, q, r, IfForm

LEMMA IfProceeds ==
  ASSUME NEW fn, NEW tx, NEW wk, NEW lb \in Nat, NEW hf, NEW ht, NEW w, NEW e, NEW own,
         Code(fn, tx, wk, lb, hf, ht, w, e, own), wk # <<>>, Head(wk).do = "expr",
         NEW x, NEW y, NEW z, Level(x), Level(y), Level(z)
  PROVE  Proceeds(fn, tx, wk, lb, w, e, own, <<>>, IfTasks(x, y, z, lb), lb + 2)
PROOF
  <1> DEFINE n == Len(wk)
             a == w[n]
             l1 == ElseLabel(lb)
             l2 == EndLabel(lb + 1)
             ts == IfTasks(x, y, z, lb)
             own1 == [own EXCEPT ![l1] = <<"work", n + 2>>, ![l2] = <<"work", n>>]
             g == <<a>>
             v == [i \in 1 .. 6 + 1 |-> a]
  <1>1. Stack(wk, w, e) /\ Placed(fn, tx, wk, lb, own)
    BY DEF Code
  <1>2. /\ wk \in Seq(Tasks) /\ n \in Nat /\ n > 1 /\ Head(wk) = At(wk, n) /\ n \in 1 .. n
        /\ Head(wk) \in Tasks /\ a \in Nat /\ TaskMoves(Head(wk), a, w[n - 1])
    BY <1>1, TopPlace
  <1>3. w[n - 1] = a
    BY <1>2, TaskFacts
  <1>4. /\ ts \in Seq(Tasks) /\ Len(ts) = 6
        /\ ts[1] = x /\ ts[3] = y /\ ts[5] = z
        /\ ts[2] = CompareAndBranch(l1) /\ ts[4] = BranchAndLabel(l2, l1) /\ ts[6] = LabelAlone(l2)
        /\ l1 \in LocalLabels /\ l2 \in LocalLabels /\ l1[2] = lb /\ l2[2] = lb + 1 /\ l1 # l2
        /\ \A i \in 1 .. 6 : i = 1 \/ i = 2 \/ i = 3 \/ i = 4 \/ i = 5 \/ i = 6
    BY IfTasksAre DEF IfForm
  <1>5. \A k : ~Defines(Head(wk), k)
    BY <1>2, TaskQuiet
  <1>6. /\ \A k \in LocalLabels : ~Defines(x, k) /\ ~Branches(x, k) /\ ~Defines(y, k) /\ ~Branches(y, k)
                                  /\ ~Defines(z, k) /\ ~Branches(z, k)
        /\ \A k : ~Defines(ts[2], k) /\ (Branches(ts[2], k) => k = l1)
        /\ \A k : (Defines(ts[4], k) => k = l1) /\ (Branches(ts[4], k) => k = l2)
        /\ \A k : (Defines(ts[6], k) => k = l2) /\ ~Branches(ts[6], k)
        /\ Defines(ts[4], l1) /\ Defines(ts[6], l2)
    <2>1. \A k : ~Defines(ts[2], k) /\ (Branches(ts[2], k) => k = l1)
      BY <1>4, BranchTasks
    <2>2. /\ \A k : (Defines(ts[4], k) => k = l1) /\ (Branches(ts[4], k) => k = l2)
          /\ Defines(ts[4], l1)
      BY <1>4, BranchTasks
    <2>3. (\A k : (Defines(ts[6], k) => k = l2) /\ ~Branches(ts[6], k)) /\ Defines(ts[6], l2)
      BY <1>4, BranchTasks
    <2> QED BY <2>1, <2>2, <2>3 DEF Level, Calm
  <1>7. \A i \in 1 .. 6 : ts[i].do \notin {"endfunc", "finish"} /\ TaskMoves(ts[i], a, a)
    <2>1. x.do \notin {"endfunc", "finish"} /\ TaskMoves(x, a, a)
      BY <1>2 DEF Level, Calm
    <2>2. y.do \notin {"endfunc", "finish"} /\ TaskMoves(y, a, a)
      BY <1>2 DEF Level, Calm
    <2>3. z.do \notin {"endfunc", "finish"} /\ TaskMoves(z, a, a)
      BY <1>2 DEF Level, Calm
    <2>4. ts[2].do \notin {"endfunc", "finish"} /\ TaskMoves(ts[2], a, a)
      BY <1>2, <1>4, BranchTasks
    <2>5. ts[4].do \notin {"endfunc", "finish"} /\ TaskMoves(ts[4], a, a)
      BY <1>2, <1>4, BranchTasks
    <2>6. ts[6].do \notin {"endfunc", "finish"} /\ TaskMoves(ts[6], a, a)
      BY <1>2, <1>4, BranchTasks
    <2> HIDE DEF ts, a
    <2> QED BY <1>4, <2>1, <2>2, <2>3, <2>4, <2>5, <2>6
  <1> HIDE DEF ts, l1, l2
  <1>8. v \in [1 .. 6 + 1 -> Nat] /\ \A i \in 1 .. 6 : v[i] = a /\ v[i + 1] = a
    BY <1>2
  <1>9. v[1] = a /\ v[6 + 1] = a
    BY <1>2
  <1>10. Shape(<<>>, g) /\ Len(<<>>) = 0 /\ g[0 + 1] = a /\ g[1] = a /\ \A i \in 1 .. 0 + 1 : g[i] \in Nat
    BY <1>2, ShapeNone
  <1> HIDE DEF v, g
  <1>11. Advances(wk, w, <<>>, g, ts, v)
    BY <1>2, <1>3, <1>4, <1>7, <1>8, <1>9, <1>10 DEF Advances
  <1>12. Relabels(fn, tx, wk, lb, e, own, <<>>, ts, lb + 2, own1)
    <2>1. own \in [LocalLabels -> {"func", "text", "work"} \X Nat]
      BY <1>1 DEF Placed
    <2>2. <<"work", n + 2>> \in {"func", "text", "work"} \X Nat /\ <<"work", n>> \in {"func", "text", "work"} \X Nat
      BY <1>2
    <2>3. /\ own1 \in [LocalLabels -> {"func", "text", "work"} \X Nat]
          /\ own1[l1] = <<"work", n + 2>> /\ own1[l2] = <<"work", n>>
          /\ \A k \in LocalLabels : k # l1 /\ k # l2 => own1[k] = own[k]
      BY <1>4, <2>1, <2>2
    <2> HIDE DEF own1
    <2>4. ASSUME NEW k \in LocalLabels, k[2] < lb PROVE own1[k] = own[k]
      <3>1. k # l1 /\ k # l2
        BY <1>4, <2>4
      <3> QED BY <2>3, <3>1
    <2>5. n + 6 - 4 = n + 2 /\ n + 6 - 6 = n /\ lb < lb + 2 /\ lb + 1 < lb + 2 /\ lb + 2 >= lb
      BY <1>2
    <2>6. ASSUME NEW i \in 1 .. 6, NEW k \in LocalLabels, Defines(ts[i], k)
          PROVE  own1[k] = <<"work", n + 6 - i>> /\ k[2] < lb + 2
      <3>1. (i = 4 /\ k = l1) \/ (i = 6 /\ k = l2)
        BY <1>4, <1>6, <2>6
      <3> QED BY <1>4, <2>3, <2>5, <3>1
    <2> QED BY <1>4, <1>10, <2>3, <2>4, <2>5, <2>6 DEF Relabels
  <1>13. KeepsBranches(wk, w, e, <<>>, g, ts, v)
    <2>1. ASSUME NEW i \in 1 .. 6, NEW k \in LocalLabels, Branches(ts[i], k)
          PROVE  \E j \in i + 1 .. 6 : Defines(ts[j], k) /\ v[j] = v[i]
      <3>1. (i = 2 /\ k = l1) \/ (i = 4 /\ k = l2)
        BY <1>4, <1>6, <2>1
      <3>2. v[2] = v[4] /\ v[4] = v[6] /\ 4 \in 2 + 1 .. 6 /\ 6 \in 4 + 1 .. 6
        BY <1>8
      <3> QED BY <1>6, <3>1, <3>2
    <2> QED BY <1>4, <1>5, <1>10, <2>1 DEF KeepsBranches
  <1> QED BY <1>11, <1>12, <1>13 DEF Proceeds, ts

LEMMA CompileIfInv == CInv /\ CompileIf => CInv'
PROOF
  <1> SUFFICES ASSUME CInv, CompileIf PROVE CInv'
    OBVIOUS
  <1> DEFINE e  == Task.e
             x  == Expr(e.es[2])
             y  == Expr(e.es[3])
             z  == IF Len(e.es) = 4 THEN Expr(e.es[4]) ELSE Emitted(<< LoadNil >>)
             ts == IfTasks(x, y, z, labels)
  <1>1. /\ status = "running" /\ Task.do = "expr" /\ Then(ts) /\ labels' = labels + 2
        /\ UNCHANGED <<program, st, sections, inFunc, status>>
        /\ OpKind(e) = "special" /\ Len(e.es) \in 3 .. 4
    BY DEF CompileIf, Doing, IsForm, IfTasks, CompareAndBranch, BranchAndLabel, LabelAlone
  <1>2. TableOK(st) /\ DataOK /\ Task \in Tasks /\ labels \in Nat /\ Grows(st, st) /\ Generated
    BY <1>1, CInvFacts
  <1>3. /\ e.es[2] \in Exprs /\ e.es[3] \in Exprs
        /\ Len(e.es) = 4 => e.es[4] \in Exprs
    <2>1. e \in Exprs
      BY <1>1, <1>2 DEF Tasks
    <2>2. \A i \in 1 .. Len(e.es) : e.es[i] \in Exprs
      BY <1>1, <1>2, <2>1, FormFacts
    <2> HIDE DEF e
    <2>3. Len(e.es) = 3 \/ Len(e.es) = 4
      BY <1>1
    <2> QED BY <2>2, <2>3
  <1>4. Level(x) /\ x.do = "expr" /\ Level(y) /\ y.do = "expr"
    BY <1>3, StartTasks DEF Level
  <1>5. Level(z) /\ z.do \in {"expr", "emit"}
    <2>1. CASE Len(e.es) = 4
      <3>1. z = Expr(e.es[4])
        BY <2>1
      <3> HIDE DEF z
      <3> QED BY <1>3, <2>1, <3>1, StartTasks DEF Level
    <2>2. CASE Len(e.es) # 4
      <3>1. z = Emitted(<< LoadNil >>)
        BY <2>2
      <3> HIDE DEF z
      <3>2. LoadNil \in BodyCode /\ LoadNil[1] = "lea"
        BY SomeNeutral DEF BodyCode, LoadNil
      <3>3. z \in Tasks /\ z.do = "emit"
        <4>1. << LoadNil >> \in Seq(BodyCode)
          BY <3>2
        <4> QED BY <3>1, <4>1 DEF Emitted, Tasks
      <3>4. Calm(z)
        BY <3>1, <3>2, EmitCalm
      <3>5. \A a \in Nat : TaskMoves(z, a, a)
        BY <3>1 DEF TaskMoves
      <3> QED BY <3>3, <3>4, <3>5 DEF Level
    <2> QED BY <2>1, <2>2
  <1> HIDE DEF x, y, z
  <1>6. /\ ts \in Seq(Tasks) /\ Len(ts) = 6 /\ ts[1] = x /\ ts[3] = y /\ ts[5] = z
        /\ ts[2].do = "emit" /\ ts[4].do = "emit" /\ ts[6].do = "emit"
        /\ \A i \in 1 .. 6 : i = 1 \/ i = 2 \/ i = 3 \/ i = 4 \/ i = 5 \/ i = 6
    <2>1. /\ ts \in Seq(Tasks) /\ Len(ts) = 6 /\ ts[1] = x /\ ts[3] = y /\ ts[5] = z
          /\ ts[2] = CompareAndBranch(ElseLabel(labels)) /\ ElseLabel(labels) \in LocalLabels
          /\ ts[4] = BranchAndLabel(EndLabel(labels + 1), ElseLabel(labels))
          /\ ts[6] = LabelAlone(EndLabel(labels + 1)) /\ EndLabel(labels + 1) \in LocalLabels
          /\ \A i \in 1 .. 6 : i = 1 \/ i = 2 \/ i = 3 \/ i = 4 \/ i = 5 \/ i = 6
      <3>1. IfForm(ts, x, y, z, labels)
        BY <1>2, <1>4, <1>5, IfTasksAre
      <3> QED BY <3>1 DEF IfForm
    <2>2. ts[2].do = "emit"
      BY <2>1, BranchTasks
    <2>3. ts[4].do = "emit"
      BY <2>1, BranchTasks
    <2>4. ts[6].do = "emit"
      BY <2>1, BranchTasks
    <2> HIDE DEF ts
    <2> QED BY <2>1, <2>2, <2>3, <2>4
  <1>7. ASSUME NEW hf, NEW ht, NEW w, NEW f, NEW own, Code(func, text, work, labels, hf, ht, w, f, own)
        PROVE  Proceeds(func, text, work, labels, w, f, own, <<>>, ts, labels + 2)
    <2>1. work # <<>> /\ Head(work) = Task
      BY <1>1, <1>2, TopTask DEF Task
    <2> QED BY <1>1, <1>2, <1>4, <1>5, <1>7, <2>1, IfProceeds
  <1> HIDE DEF ts
  <1>8. OperatorsIn(ts, st)
    BY <1>4, <1>5, <1>6 DEF OperatorsIn
  <1>9. Writes(<<>>)
    BY <1>1, <1>2, NothingWritten DEF sections
  <1>10. DataOK'
    <2>1. \A i \in 1 .. Len(rodata) : rodata[i] \in ({"L_double"} \X Nat) \X Int
      BY <1>2 DEF DataOK
    <2>2. ASSUME NEW i \in 1 .. Len(rodata) PROVE rodata[i][1][2] < labels + 2
      <3>1. rodata[i][1][2] \in Nat /\ rodata[i][1][2] < labels
        BY <1>2, <2>1 DEF DataOK
      <3> QED BY <1>2, <3>1
    <2>3. labels + 2 \in Nat
      BY <1>2
    <2> QED BY <1>1, <1>2, <2>2, <2>3 DEF DataOK, sections
  <1>11. Task.do \notin {"endfunc", "finish"} /\ labels' \in Nat /\ Grows(st, st') /\ OperatorsIn(ts, st')
    BY <1>1, <1>2, <1>8
  <1>12. inFunc' = inFunc /\ status' = status
    BY <1>1
  <1>13. labels' = labels + 2
    BY <1>1
  <1> QED BY <1>1, <1>6, <1>7, <1>9, <1>10, <1>11, <1>12, <1>13, StepInv

-----------------------------------------------------------------------------
(* Functions *)

\* Instructions without local labels and branches to them.
Unlinked(c) ==
  \A i \in 1 .. Len(c) : \A l \in LocalLabels : c[i] # <<"label", l>> /\ ~BranchTo(c[i], l)

\* The tasks of a function: some that keep the height, and its end.
BodyTasks(ts, m) ==
  /\ m \in Nat /\ ts \in Seq(Tasks) /\ Len(ts) = m + 1
  /\ \A i \in 1 .. m : Level(ts[i])
  /\ ts[m + 1] = [do |-> "endfunc"]

LEMMA EndTask ==
  /\ \A l : ~Defines([do |-> "endfunc"], l) /\ ~Branches([do |-> "endfunc"], l)
  /\ \A a, b \in Nat : TaskMoves([do |-> "endfunc"], a, b)
  /\ [do |-> "endfunc"] \in Tasks
PROOF
  <1>1. [do |-> "endfunc"] \in Tasks
    BY DEF Tasks
  <1>2. \A l : ~Defines([do |-> "endfunc"], l) /\ ~Branches([do |-> "endfunc"], l)
    BY <1>1, TaskQuiet
  <1> QED BY <1>1, <1>2 DEF TaskMoves

\* Branches of code all land, and still do when more code follows.
LEMMA AllStillLanded ==
  ASSUME NEW code, NEW h, NEW c, NEW g, NEW k, Joins(code, h, c, g, k),
         NEW wk, NEW w, NEW ds, Branched(code, h, wk, w, ds),
         \A d \in ds : \A l \in LocalLabels : ~Defines(At(wk, d), l),
         Unlinked(c), NEW wk1, NEW w1, NEW ds1
  PROVE  Branched(code \o c, k, wk1, w1, ds1)
PROOF
  <1> SUFFICES ASSUME NEW i \in 1 .. Len(code \o c), NEW l \in LocalLabels, BranchTo((code \o c)[i], l)
               PROVE  \E j \in 1 .. Len(code \o c) : Landed(code \o c, k, i, j, l)
    BY DEF Branched
  <1>1. CASE i \in 1 .. Len(code)
    <2>1. BranchTo(code[i], l)
      BY <1>1, JoinFacts
    <2>2. PICK j \in 1 .. Len(code) : Landed(code, h, i, j, l)
      BY <1>1, <2>1 DEF Branched, Waiting
    <2> QED BY <1>1, <2>2, StillLanded
  <1>2. CASE i \notin 1 .. Len(code)
    <2>1. PICK j \in 1 .. Len(c) : i = Len(code) + j
      BY <1>2, JoinFacts
    <2>2. (code \o c)[i] = c[j]
      BY <2>1, JoinFacts
    <2> QED BY <2>1, <2>2 DEF Unlinked
  <1> QED BY <1>1, <1>2

\* Code c starts a function, and tasks ts compile it.
LEMMA BeginCode ==
  ASSUME NEW fn, NEW tx, NEW wk, NEW lb \in Nat, NEW hf, NEW ht, NEW w, NEW own,
         Code(fn, tx, wk, lb, hf, ht, w, 0, own), wk # <<>>, Head(wk).do = "expr",
         NEW ts, NEW m, BodyTasks(ts, m), NEW c, NEW g, Shape(c, g), g[1] = Outside, g[Len(c) + 1] \in Nat,
         Unlinked(c), NEW wk1, wk1 = ts \o Tail(wk)
  PROVE  /\ Len(wk) # 0
         /\ \E hf1, ht1, w1 : Code(fn \o c, tx, wk1, lb, hf1, ht1, w1, Len(wk), own)
PROOF
  <1> DEFINE n == Len(wk)
             H == g[Len(c) + 1]
             v == [i \in 1 .. m + 2 |-> IF i <= m + 1 THEN H ELSE w[n - 1]]
  <1>1. /\ Stack(wk, w, 0) /\ Placed(fn, tx, wk, lb, own) /\ Shape(fn, hf) /\ Shape(tx, ht)
        /\ Branched(fn, hf, wk, w, FuncTasks(wk, 0)) /\ Branched(tx, ht, wk, w, MainTasks(wk, 0))
        /\ TaskBranches(wk, w, 0) /\ Ends(fn, tx, wk, hf, ht, w, 0)
    BY DEF Code
  <1>2. /\ wk \in Seq(Tasks) /\ n \in Nat /\ n > 1 /\ Head(wk) = At(wk, n) /\ n \in 1 .. n
        /\ Head(wk) \in Tasks /\ TaskMoves(Head(wk), w[n], w[n - 1]) /\ w[n] \in Nat /\ w[n - 1] \in Nat
    BY <1>1, TopPlace
  <1>3. w[n - 1] = w[n]
    BY <1>2, TaskFacts
  <1>4. m \in Nat /\ ts \in Seq(Tasks) /\ Len(ts) = m + 1
    BY DEF BodyTasks
  <1>5. /\ v \in [1 .. Len(ts) + 1 -> Int] /\ v[Len(ts) + 1] = w[n - 1]
        /\ \A i \in 1 .. m + 1 : v[i] = H
    <2>1. Len(ts) + 1 = m + 2 /\ m + 2 \in 1 .. m + 2 /\ ~(m + 2 <= m + 1)
          /\ \A i \in 1 .. m + 1 : i \in 1 .. m + 2 /\ i <= m + 1
      BY <1>4
    <2> QED BY <1>2, <2>1
  <1> HIDE DEF v
  <1>6. w \in [0 .. n -> Int]
    BY <1>1 DEF Stack
  <1>7. PICK w1 : Follows(wk, w, ts, v, wk1, w1)
    BY <1>2, <1>4, <1>5, <1>6, HeightsAfter
  <1>8. ReplacesTop(wk, ts, wk1)
    BY <1>2, <1>4, TasksAfter
  <1>9. /\ wk1 \in Seq(Tasks) /\ Len(wk1) = n + m
        /\ \A d \in 1 .. n - 1 : At(wk1, d) = At(wk, d)
        /\ \A d \in 0 .. n - 1 : w1[d] = w[d]
        /\ w1 \in [0 .. Len(wk1) -> Int]
    BY <1>2, <1>4, <1>7, <1>8 DEF ReplacesTop, Follows
  \* The tasks from the end of the function up.
  <1>10. ASSUME NEW d \in n .. n + m
         PROVE  /\ w1[d] = H /\ (d = n => At(wk1, d) = [do |-> "endfunc"])
                /\ d # n => Level(At(wk1, d)) /\ w1[d - 1] = H
    <2>1. PICK i \in 1 .. m + 1 : d = n + Len(ts) - i
      <3>1. n + (m + 1) - d \in 1 .. m + 1 /\ d = n + (m + 1) - (n + (m + 1) - d)
        BY <1>2, <1>4
      <3> QED BY <1>4, <3>1
    <2>2. At(wk1, d) = ts[i] /\ w1[d] = v[i]
      <3>1. i \in 1 .. Len(ts) /\ i \in 1 .. Len(ts) + 1
        BY <1>4
      <3> QED BY <1>7, <1>8, <2>1, <3>1 DEF ReplacesTop, Follows
    <2>3. d = n => i = m + 1
      BY <1>2, <1>4, <2>1
    <2>4. ASSUME d # n PROVE i \in 1 .. m /\ w1[d - 1] = H
      <3>1. i \in 1 .. m /\ i + 1 \in 1 .. m + 1 /\ d - 1 = n + Len(ts) - (i + 1) /\ i + 1 \in 1 .. Len(ts) + 1
        <4> HIDE DEF n
        <4> QED BY <1>2, <1>4, <2>1, <2>4
      <3> QED BY <1>5, <1>7, <3>1 DEF Follows
    <2> QED BY <1>5, <2>1, <2>2, <2>3, <2>4 DEF BodyTasks
  <1>11. \A d \in 1 .. n + m : d \in 1 .. n - 1 \/ d \in n .. n + m
    BY <1>2, <1>4
  <1>12. Stack(wk1, w1, n)
    <2>1. w1[0] = Outside
      <3>1. 0 \in 0 .. n - 1
        BY <1>2
      <3> QED BY <1>1, <1>9, <3>1 DEF Stack
    <2>2. ASSUME NEW d \in 1 .. n - 1
          PROVE  /\ TaskMoves(At(wk1, d), w1[d], w1[d - 1])
                 /\ At(wk1, d).do = "finish" <=> d = 1
                 /\ At(wk1, d).do = "endfunc" <=> d = n
      <3>1. d \in 1 .. n /\ d \in 0 .. n - 1 /\ d - 1 \in 0 .. n - 1 /\ d # n /\ d # 0
        BY <1>2
      <3> QED BY <1>1, <1>9, <3>1 DEF Stack
    <2>3. ASSUME NEW d \in n .. n + m
          PROVE  /\ TaskMoves(At(wk1, d), w1[d], w1[d - 1])
                 /\ At(wk1, d).do = "finish" <=> d = 1
                 /\ At(wk1, d).do = "endfunc" <=> d = n
      <3>1. d # 1
        BY <1>2, <1>4
      <3>2. CASE d = n
        <4>1. w1[d] = H /\ w1[d - 1] = w[n - 1] /\ At(wk1, d) = [do |-> "endfunc"]
          <5>1. n - 1 \in 0 .. n - 1
            BY <1>2
          <5> QED BY <1>9, <1>10, <3>2, <5>1
        <4> QED BY <1>2, <3>1, <3>2, <4>1, EndTask
      <3>3. CASE d # n
        BY <1>10, <3>1, <3>3 DEF Level, Calm
      <3> QED BY <3>2, <3>3
    <2>4. n \in {0} \cup 2 .. Len(wk1)
      BY <1>2, <1>4, <1>9
    <2> HIDE DEF n, H
    <2> QED BY <1>9, <1>11, <2>1, <2>2, <2>3, <2>4 DEF Stack
  <1>13. PICK k : Shape(fn \o c, k) /\ Joins(fn, hf, c, g, k)
    BY <1>1, ShapeConcat DEF Ends
  <1>14. Ends(fn \o c, tx, wk1, k, ht, w1, n)
    <2>1. Len(fn) \in Nat /\ Len(c) \in Nat /\ Len(fn \o c) = Len(fn) + Len(c)
      BY <1>13, JoinFacts
    <2>2. k[1] = Outside
      <3>1. 1 \in 1 .. Len(fn) + 1
        BY <2>1
      <3> QED BY <1>1, <1>13, <3>1 DEF Joins, Ends
    <2>3. k[Len(fn \o c) + 1] = H
      <3>1. Len(fn \o c) + 1 = Len(fn) + (Len(c) + 1) /\ Len(c) + 1 \in 1 .. Len(c) + 1
        BY <2>1
      <3> QED BY <1>13, <3>1 DEF Joins
    <2>4. w1[Len(wk1)] = H
      <3>1. n + m \in n .. n + m
        BY <1>2, <1>4
      <3> QED BY <1>9, <1>10, <3>1
    <2>5. ht[1] = Outside /\ ht[Len(tx) + 1] = w1[n - 1]
      <3>1. n - 1 \in 0 .. n - 1
        BY <1>2
      <3> QED BY <1>1, <1>3, <1>9, <3>1 DEF Ends
    <2>6. n # 0
      BY <1>2
    <2> QED BY <2>2, <2>3, <2>4, <2>5, <2>6 DEF Ends
  <1>15. ASSUME NEW d \in n .. n + m, NEW l \in LocalLabels
         PROVE  ~Defines(At(wk1, d), l) /\ ~Branches(At(wk1, d), l)
    BY <1>10, EndTask DEF Level, Calm
  <1>16. Placed(fn \o c, tx, wk1, lb, own)
    <2>1. ASSUME NEW i \in 1 .. Len(fn \o c), NEW l \in LocalLabels, (fn \o c)[i] = <<"label", l>>
          PROVE  own[l] = <<"func", i>> /\ l[2] < lb
      <3>1. i \in 1 .. Len(fn)
        <4>1. Joins(fn, hf, c, g, k)
          BY <1>13
        <4>2. i \notin 1 .. Len(fn) => \E j \in 1 .. Len(c) : i = Len(fn) + j
          BY <4>1, JoinFacts
        <4>3. \A j \in 1 .. Len(c) : (fn \o c)[Len(fn) + j] = c[j]
          BY <4>1, JoinFacts
        <4> QED BY <2>1, <4>2, <4>3 DEF Unlinked
      <3>2. fn[i] = <<"label", l>>
        BY <1>13, <2>1, <3>1, JoinFacts
      <3> QED BY <1>1, <3>1, <3>2 DEF Placed
    <2>2. ASSUME NEW d \in 1 .. Len(wk1), NEW l \in LocalLabels, Defines(At(wk1, d), l)
          PROVE  own[l] = <<"work", d>> /\ l[2] < lb
      <3>1. d \in 1 .. n - 1
        BY <1>9, <1>11, <1>15, <2>2
      <3>2. d \in 1 .. n /\ Defines(At(wk, d), l)
        BY <1>2, <1>9, <2>2, <3>1
      <3> QED BY <1>1, <3>2 DEF Placed
    <2> QED BY <1>1, <2>1, <2>2 DEF Placed
  <1>17. Branched(fn \o c, k, wk1, w1, FuncTasks(wk1, n))
    <2>1. FuncTasks(wk, 0) = {}
      BY DEF FuncTasks
    <2> QED BY <1>1, <1>13, <2>1, AllStillLanded
  <1>18. Branched(tx, ht, wk1, w1, MainTasks(wk1, n))
    <2> SUFFICES ASSUME NEW i \in 1 .. Len(tx), NEW l \in LocalLabels, BranchTo(tx[i], l),
                        NEW d \in MainTasks(wk, 0), Waiting(tx, ht, wk, w, i, d, l)
                 PROVE  d \in MainTasks(wk1, n) /\ Waiting(tx, ht, wk1, w1, i, d, l)
      BY <1>1 DEF Branched
    <2>1. d \in 1 .. n /\ Defines(At(wk, d), l)
      BY DEF MainTasks, Waiting
    <2>2. d # n
      BY <1>2, <2>1, TaskQuiet
    <2>3. d \in 1 .. n - 1 /\ d \in 0 .. n - 1 /\ d \in 1 .. Len(wk1) /\ d < n
      <3> HIDE DEF n
      <3> QED BY <1>2, <1>4, <1>9, <2>1, <2>2
    <2> QED BY <1>9, <2>3 DEF MainTasks, Waiting
  <1>19. TaskBranches(wk1, w1, n)
    <2> SUFFICES ASSUME NEW d \in 1 .. Len(wk1), NEW l \in LocalLabels, Branches(At(wk1, d), l)
                 PROVE  \E x \in 1 .. d - 1 : /\ Defines(At(wk1, x), l) /\ w1[x] = w1[d]
                                              /\ d \in FuncTasks(wk1, n) => x \in FuncTasks(wk1, n)
      BY DEF TaskBranches
    <2>1. d \in 1 .. n - 1
      BY <1>9, <1>11, <1>15
    <2>2. d \in 1 .. n /\ d \in 0 .. n - 1 /\ ~(d > n) /\ Branches(At(wk, d), l)
      BY <1>2, <1>9, <2>1
    <2>3. PICK x \in 1 .. d - 1 : Defines(At(wk, x), l) /\ w[x] = w[d]
      BY <1>1, <2>2 DEF TaskBranches
    <2>4. x \in 1 .. n - 1 /\ x \in 0 .. n - 1
      BY <1>2, <2>1
    <2> QED BY <1>9, <2>1, <2>2, <2>3, <2>4 DEF FuncTasks
  <1>20. Code(fn \o c, tx, wk1, lb, k, ht, w1, n, own)
    BY <1>1, <1>12, <1>13, <1>14, <1>16, <1>17, <1>18, <1>19 DEF Code
  <1>21. n # 0
    BY <1>2
  <1> QED BY <1>20, <1>21

\* The code that starts a function whose frame has k words.
Opening(label, k) ==
  << <<"label", label>>, <<"push", "rbp">>, <<"mov", "rbp", "rsp">> >>
    \o (IF k = 0 THEN <<>> ELSE << <<"reserve", SlotSize * k>> >>)

\* The code c leads from outside functions into one.
Opens(c) ==
  /\ Unlinked(c)
  /\ \E g : Shape(c, g) /\ g[1] = Outside /\ g[Len(c) + 1] \in Nat

LEMMA ThreeUnlinked ==
  ASSUME NEW label, label \in UserLabels \cup {MainLabel}
  PROVE  Unlinked(<< <<"label", label>>, <<"push", "rbp">>, <<"mov", "rbp", "rsp">> >>)
PROOF
  <1> DEFINE i == <<"label", label>>
             j == <<"push", "rbp">>
             k == <<"mov", "rbp", "rsp">>
  <1>1. i[1] = "label" /\ j[1] = "push" /\ k[1] = "mov" /\ i[2] = label
    OBVIOUS
  <1>2. label \notin LocalLabels
    <2>1. label[1] \in {"user", "main"}
      BY DEF UserLabels, MainLabel
    <2>2. \A l \in LocalLabels : l[1] \in {"L_if_else", "L_if_end"}
      BY DEF LocalLabels
    <2> QED BY <2>1, <2>2
  <1> HIDE DEF i, j, k
  <1>3. \A l : ~BranchTo(i, l) /\ ~BranchTo(j, l) /\ ~BranchTo(k, l)
    BY <1>1, NoBranch
  <1>4. \A l \in LocalLabels : i # <<"label", l>> /\ j # <<"label", l>> /\ k # <<"label", l>>
    <2>1. \A l : <<"label", l>>[1] = "label" /\ <<"label", l>>[2] = l
      OBVIOUS
    <2> QED BY <1>1, <1>2, <2>1
  <1>5. Len(<<i, j, k>>) = 3 /\ <<i, j, k>>[1] = i /\ <<i, j, k>>[2] = j /\ <<i, j, k>>[3] = k
        /\ \A x \in 1 .. 3 : x = 1 \/ x = 2 \/ x = 3
    OBVIOUS
  <1>6. Unlinked(<<i, j, k>>)
    BY <1>3, <1>4, <1>5 DEF Unlinked
  <1> QED BY <1>6 DEF i, j, k

LEMMA OpeningShape ==
  ASSUME NEW label, label \in UserLabels \cup {MainLabel}
  PROVE  Shape(<< <<"label", label>>, <<"push", "rbp">>, <<"mov", "rbp", "rsp">> >>, <<Outside, Entered, Saved, 0>>)
PROOF
  <1> DEFINE i == <<"label", label>>
             j == <<"push", "rbp">>
             k == <<"mov", "rbp", "rsp">>
  <1>1. i \in Instructions /\ Moves(i, Outside, Entered)
    BY DEF Instructions, Moves
  <1>2. j \in Instructions /\ Moves(j, Entered, Saved)
    BY DEF Instructions, Moves
  <1>3. k \in Instructions /\ Moves(k, Saved, 0)
    BY DEF Instructions, Moves
  <1> HIDE DEF i, j, k
  <1>4. Outside \in Int /\ Entered \in Int /\ Saved \in Int /\ 0 \in Int
    BY DEF Outside, Entered, Saved
  <1>5. Shape(<<i, j, k>>, <<Outside, Entered, Saved, 0>>)
    BY <1>1, <1>2, <1>3, <1>4, ShapeThree
  <1> QED BY <1>5 DEF i, j, k

LEMMA OpeningOpens ==
  ASSUME NEW label \in UserLabels, NEW k \in Nat
  PROVE  Opens(Opening(label, k)) /\ Opening(label, k) \in Seq(Instructions)
PROOF
  <1> DEFINE c == << <<"label", label>>, <<"push", "rbp">>, <<"mov", "rbp", "rsp">> >>
             h == <<Outside, Entered, Saved, 0>>
             r == <<"reserve", SlotSize * k>>
  <1>1. Shape(c, h) /\ Unlinked(c)
    BY OpeningShape, ThreeUnlinked
  <1>2. Len(c) = 3 /\ h[1] = Outside /\ h[3 + 1] = 0 /\ c \in Seq(Instructions)
    BY <1>1 DEF Shape
  <1>3. Opening(label, k) = c \o (IF k = 0 THEN <<>> ELSE <<r>>)
    BY DEF Opening
  <1>4. CASE k = 0
    <2>1. c \o <<>> = c
      BY <1>2, ConcatEmptySeq
    <2>2. Opening(label, k) = c
      BY <1>3, <1>4, <2>1
    <2> HIDE DEF c, h
    <2>3. h[Len(c) + 1] \in Nat
      BY <1>2
    <2> QED BY <1>1, <1>2, <2>2, <2>3 DEF Opens
  <1>5. CASE k # 0
    <2>1. r \in Instructions /\ Moves(r, 0, 0) /\ r[1] = "reserve"
      <3>1. SlotSize * k \in Nat
        BY DEF SlotSize
      <3>2. r \in {"reserve"} \X Nat
        BY <3>1
      <3> QED BY <3>2 DEF Instructions, Moves
    <2> HIDE DEF c, h, r
    <2>2. Shape(<<r>>, <<0, 0>>) /\ Len(<<r>>) = 1 /\ <<r>>[1] = r /\ <<0, 0>>[1] = 0 /\ <<0, 0>>[1 + 1] = 0
      BY <2>1, OneInstr
    <2>3. PICK g : Shape(c \o <<r>>, g) /\ Joins(c, h, <<r>>, <<0, 0>>, g)
      BY <1>1, <1>2, <2>2, ShapeConcat
    <2>4. Len(c \o <<r>>) = Len(c) + 1
      BY <2>2, <2>3, JoinFacts
    <2>5. g[1] = Outside
      <3>1. 1 \in 1 .. Len(c) + 1
        BY <1>2
      <3> QED BY <1>2, <2>3, <3>1 DEF Joins
    <2>6. g[Len(c \o <<r>>) + 1] = 0
      <3>1. Len(c \o <<r>>) + 1 = Len(c) + 2 /\ 2 \in 1 .. Len(<<r>>) + 1
        BY <1>2, <2>2, <2>4
      <3>2. g[Len(c) + 2] = <<0, 0>>[2]
        BY <2>3, <3>1 DEF Joins
      <3> QED BY <3>1, <3>2
    <2>7. Unlinked(c \o <<r>>)
      <3> SUFFICES ASSUME NEW i \in 1 .. Len(c \o <<r>>), NEW l \in LocalLabels
                   PROVE  (c \o <<r>>)[i] # <<"label", l>> /\ ~BranchTo((c \o <<r>>)[i], l)
        BY DEF Unlinked
      <3>1. Joins(c, h, <<r>>, <<0, 0>>, g)
        BY <2>3
      <3>2. CASE i \in 1 .. Len(c)
        <4>1. (c \o <<r>>)[i] = c[i]
          BY <3>1, <3>2, JoinFacts
        <4> QED BY <1>1, <3>2, <4>1 DEF Unlinked
      <3>3. CASE i \notin 1 .. Len(c)
        <4>1. i = Len(c) + 1 /\ 1 \in 1 .. Len(<<r>>)
          BY <1>2, <2>2, <2>4, <3>3
        <4>2. (c \o <<r>>)[i] = r
          BY <2>2, <3>1, <4>1, JoinFacts
        <4>3. <<"label", l>>[1] = "label"
          OBVIOUS
        <4> QED BY <2>1, <4>2, <4>3, NoBranch
      <3> QED BY <3>2, <3>3
    <2>8. Opening(label, k) = c \o <<r>>
      BY <1>3, <1>5
    <2>9. g[Len(c \o <<r>>) + 1] \in Nat
      BY <2>6
    <2>10. Opens(c \o <<r>>)
      BY <2>3, <2>5, <2>7, <2>9 DEF Opens
    <2>11. c \o <<r>> \in Seq(Instructions)
      BY <2>3 DEF Shape
    <2> QED BY <2>8, <2>10, <2>11
  <1> QED BY <1>4, <1>5

\* The tasks of a function with parameters ps and body b.
FunctionTasks(ps, b) ==
  [i \in DOMAIN ps |-> [do |-> "param", name |-> ps[i], reg |-> ArgRegisters[i]]]
    \o [i \in DOMAIN b |-> Expr(b[i])] \o << [do |-> "endfunc"] >>

LEMMA FunctionTasksAre ==
  ASSUME NEW ps \in Seq(Exprs), Len(ps) <= MaxArgs, NEW b \in Seq(Exprs)
  PROVE  /\ BodyTasks(FunctionTasks(ps, b), Len(ps) + Len(b))
         /\ \A t : OperatorsIn(FunctionTasks(ps, b), t)
         /\ \A i \in 1 .. Len(ps) + Len(b) : FunctionTasks(ps, b)[i].do \in {"param", "expr"}
PROOF
  <1> DEFINE p == [i \in DOMAIN ps |-> [do |-> "param", name |-> ps[i], reg |-> ArgRegisters[i]]]
             x == [i \in DOMAIN b |-> Expr(b[i])]
             z == [do |-> "endfunc"]
             m == Len(ps) + Len(b)
  <1>1. Len(ps) \in Nat /\ Len(b) \in Nat /\ DOMAIN ps = 1 .. Len(ps) /\ DOMAIN b = 1 .. Len(b) /\ m \in Nat
    OBVIOUS
  <1>2. ASSUME NEW i \in 1 .. Len(ps) PROVE Level(p[i]) /\ p[i] \in Tasks /\ p[i].do = "param"
    <2>1. ps[i] \in Exprs /\ ArgRegisters[i] \in WordRegs
      <3>1. i \in 1 .. MaxArgs
        BY <1>1, RegisterNames
      <3> QED BY <3>1, RegisterNames
    <2>2. p[i] \in [do : {"param"}, name : Exprs, reg : WordRegs] /\ p[i].do = "param"
      BY <1>1, <2>1
    <2> HIDE DEF p
    <2>3. p[i] \in Tasks
      BY <2>2 DEF Tasks
    <2>4. Calm(p[i])
      BY <2>2, <2>3, KindCalm
    <2>5. \A a \in Nat : TaskMoves(p[i], a, a)
      BY <2>2 DEF TaskMoves
    <2> QED BY <2>2, <2>3, <2>4, <2>5 DEF Level
  <1>3. ASSUME NEW i \in 1 .. Len(b) PROVE Level(x[i]) /\ x[i] \in Tasks /\ x[i].do = "expr"
    <2>1. b[i] \in Exprs /\ x[i] = Expr(b[i])
      BY <1>1
    <2> HIDE DEF x
    <2> QED BY <2>1, StartTasks DEF Level
  <1>4. z \in Tasks
    BY EndTask
  <1>5. p \in [1 .. Len(ps) -> Tasks] /\ x \in [1 .. Len(b) -> Tasks]
    BY <1>1, <1>2, <1>3
  <1>6. FunctionTasks(ps, b) = (p \o x) \o <<z>>
    BY DEF FunctionTasks
  <1> HIDE DEF p, x, z
  <1>7. p \in Seq(Tasks) /\ Len(p) = Len(ps) /\ x \in Seq(Tasks) /\ Len(x) = Len(b)
    <2>1. p \in Seq(Tasks) /\ x \in Seq(Tasks)
      BY <1>1, <1>5, SeqDef
    <2> QED BY <1>1, <1>5, <2>1
  <1>8. /\ p \o x \in Seq(Tasks) /\ Len(p \o x) = m
        /\ \A i \in 1 .. m : (p \o x)[i] = IF i <= Len(ps) THEN p[i] ELSE x[i - Len(ps)]
    <2>1. /\ p \o x \in Seq(Tasks) /\ Len(p \o x) = Len(p) + Len(x)
          /\ \A i \in 1 .. Len(p) + Len(x) : (p \o x)[i] = IF i <= Len(p) THEN p[i] ELSE x[i - Len(p)]
      BY <1>7, ConcatProperties
    <2> QED BY <1>7, <2>1
  <1>9. ASSUME NEW i \in 1 .. m
        PROVE  Level((p \o x)[i]) /\ (p \o x)[i].do \in {"param", "expr"}
    <2>1. CASE i <= Len(ps)
      BY <1>1, <1>2, <1>8, <2>1
    <2>2. CASE ~(i <= Len(ps))
      <3>1. i - Len(ps) \in 1 .. Len(b)
        BY <1>1, <2>2
      <3> QED BY <1>3, <1>8, <2>2, <3>1
    <2> QED BY <2>1, <2>2
  <1> DEFINE q == p \o x
             ts == q \o <<z>>
  <1>10. <<z>> \in Seq(Tasks) /\ Len(<<z>>) = 1 /\ <<z>>[1] = z
    BY <1>4
  <1>11. q \in Seq(Tasks) /\ Len(q) = m /\ \A i \in 1 .. m : Level(q[i]) /\ q[i].do \in {"param", "expr"}
    BY <1>8, <1>9
  <1> HIDE DEF q, m
  <1>12. /\ ts \in Seq(Tasks) /\ Len(ts) = m + 1
         /\ \A i \in 1 .. m + 1 : ts[i] = IF i <= m THEN q[i] ELSE <<z>>[i - m]
    BY <1>10, <1>11, ConcatProperties
  <1>13. \A i \in 1 .. m : ts[i] = q[i]
    <2>1. \A i \in 1 .. m : i \in 1 .. m + 1 /\ i <= m
      BY <1>1
    <2> QED BY <1>12, <2>1
  <1>14. ts[m + 1] = z
    <2>1. m + 1 \in 1 .. m + 1 /\ ~(m + 1 <= m) /\ (m + 1) - m = 1
      BY <1>1
    <2> QED BY <1>10, <1>12, <2>1
  <1> HIDE DEF ts
  <1>15. BodyTasks(ts, m)
    BY <1>1, <1>11, <1>12, <1>13, <1>14 DEF BodyTasks, z
  <1>16. ASSUME NEW t PROVE OperatorsIn(ts, t)
    <2>1. z.do = "endfunc"
      BY DEF z
    <2>2. \A i \in 1 .. m + 1 : i \in 1 .. m \/ i = m + 1
      BY <1>1, LastOr
    <2>3. \A i \in 1 .. m + 1 : ts[i].do \in {"param", "expr", "endfunc"}
      BY <1>11, <1>13, <1>14, <2>1, <2>2
    <2> QED BY <1>12, <2>3 DEF OperatorsIn
  <1>17. FunctionTasks(ps, b) = ts
    BY <1>6 DEF ts, q
  <1>18. \A i \in 1 .. m : ts[i].do \in {"param", "expr"}
    BY <1>11, <1>13
  <1> QED BY <1>15, <1>16, <1>17, <1>18 DEF m

\* The parts of a function definition.
LEMMA FunctionParts ==
  ASSUME TableOK(st), NEW e \in Exprs, DefinesFunction(e), Signature(e) # <<>>
  PROVE  /\ Signature(e)[1] \in Exprs /\ Params(e) \in Seq(Exprs) /\ Body(e) \in Seq(Exprs)
         /\ FrameWords(e) \in Nat
PROOF
  <1>1. /\ e.es \in Seq(Exprs) /\ Len(e.es) \in Nat /\ Len(e.es) >= 3
        /\ \A i \in 1 .. Len(e.es) : e.es[i] \in Exprs
    <2>1. OpKind(e) = "special" /\ Len(e.es) >= 3
      BY DEF DefinesFunction, IsDefine, IsForm
    <2> QED BY <2>1, FormFacts
  <1>2. e.es[2] \in Exprs /\ e.es[2].t = "list"
    BY <1>1 DEF DefinesFunction
  <1>3. Signature(e) \in Seq(Exprs)
    BY <1>2, ExprFacts DEF Signature
  <1>4. Signature(e)[1] \in Exprs /\ Params(e) \in Seq(Exprs)
    BY <1>3 DEF Params
  <1>5. Body(e) \in Seq(Exprs)
    <2>1. \A i \in 3 .. Len(e.es) : e.es[i] \in Exprs
      BY <1>1
    <2> QED BY <1>1, <2>1, SubSeqProperties DEF Body
  <1>6. FrameWords(e) \in Nat
    <2> DEFINE D(i) == LET stmt == Body(e)[i]
                       IN  /\ stmt.t = "list"
                           /\ Len(stmt.es) >= 2
                           /\ stmt.es[1] = Sym(Define_)
                           /\ stmt.es[2].t # "list"
               S == {i \in DOMAIN Body(e) : D(i)}
    <2>1. DOMAIN Body(e) = 1 .. Len(Body(e)) /\ Len(Body(e)) \in Nat
      BY <1>5
    <2>2. IsFiniteSet(1 .. Len(Body(e)))
      BY <2>1, FS_Interval
    <2>3. S \subseteq 1 .. Len(Body(e))
      BY <2>1
    <2>4. IsFiniteSet(S)
      BY <2>2, <2>3, FS_Subset
    <2>5. Cardinality(S) \in Nat
      BY <2>4, FS_CardinalityType
    <2>6. CountLocalDefines(e) = Cardinality(S)
      BY DEF CountLocalDefines
    <2>7. Len(Params(e)) \in Nat
      BY <1>4
    <2> QED BY <2>5, <2>6, <2>7 DEF FrameWords
  <1> QED BY <1>4, <1>5, <1>6

LEMMA OneAndTwo == ASSUME NEW a, NEW b, NEW c PROVE <<a>> \o <<b, c>> = <<a, b, c>>
PROOF
  <1> DEFINE S == {a, b, c}
  <1>1. <<a>> \in Seq(S) /\ Len(<<a>>) = 1 /\ <<a>>[1] = a
    OBVIOUS
  <1>2. <<b, c>> \in Seq(S) /\ Len(<<b, c>>) = 2 /\ <<b, c>>[1] = b /\ <<b, c>>[2] = c
    OBVIOUS
  <1>3. <<a, b, c>> \in Seq(S) /\ Len(<<a, b, c>>) = 3 /\ <<a, b, c>>[1] = a /\ <<a, b, c>>[2] = b /\ <<a, b, c>>[3] = c
    OBVIOUS
  <1> HIDE DEF S
  <1> DEFINE s == <<a>> \o <<b, c>>
  <1>4. s \in Seq(S) /\ Len(s) = 3 /\ s[1] = a /\ s[2] = b /\ s[3] = c
    <2>1. /\ s \in Seq(S) /\ Len(s) = 1 + 2
          /\ \A i \in 1 .. 1 + 2 : s[i] = IF i <= 1 THEN <<a>>[i] ELSE <<b, c>>[i - 1]
      BY <1>1, <1>2, ConcatProperties
    <2> QED BY <1>1, <1>2, <2>1
  <1>5. \A i \in 1 .. 3 : i = 1 \/ i = 2 \/ i = 3
    OBVIOUS
  <1> HIDE DEF s
  <1>6. \A i \in 1 .. 3 : s[i] = <<a, b, c>>[i]
    BY <1>3, <1>4, <1>5
  <1>7. s = <<a, b, c>>
    BY <1>3, <1>4, <1>6, SeqEqual
  <1> QED BY <1>7 DEF s

\* What BeginFunction writes.
LEMMA FunctionOpened ==
  ASSUME NEW f \in Seq(Instructions), NEW label, NEW k
  PROVE  f \o << <<"label", label>> >> \o Prologue
           \o (IF k = 0 THEN <<>> ELSE << <<"reserve", SlotSize * k>> >>) = f \o Opening(label, k)
PROOF
  <1> DEFINE l == << <<"label", label>> >>
             p == Prologue
             r == IF k = 0 THEN <<>> ELSE << <<"reserve", SlotSize * k>> >>
             T == {<<"label", label>>, <<"push", "rbp">>, <<"mov", "rbp", "rsp">>,
                   <<"reserve", SlotSize * k>>} \cup Instructions
  <1>1. l \in Seq(T)
    OBVIOUS
  <1>2. p \in Seq(T)
    <2>1. <<"push", "rbp">> \in T /\ <<"mov", "rbp", "rsp">> \in T
      OBVIOUS
    <2> HIDE DEF T
    <2> QED BY <2>1, TwoLong DEF Prologue
  <1>3. r \in Seq(T)
    <2>1. <<"reserve", SlotSize * k>> \in T
      OBVIOUS
    <2> HIDE DEF T
    <2>2. CASE k = 0
      BY <2>2
    <2>3. CASE k # 0
      BY <2>1, <2>3
    <2> QED BY <2>2, <2>3
  <1>4. f \in Seq(T)
    <2>1. Instructions \subseteq T
      OBVIOUS
    <2> HIDE DEF T
    <2> QED BY <2>1
  <1>5. l \o p = << <<"label", label>>, <<"push", "rbp">>, <<"mov", "rbp", "rsp">> >>
    BY OneAndTwo DEF Prologue
  <1>6. Opening(label, k) = (l \o p) \o r
    BY <1>5 DEF Opening
  <1> HIDE DEF l, p, r, T
  <1>7. f \o l \in Seq(T) /\ l \o p \in Seq(T)
    BY <1>1, <1>2, <1>4, ConcatProperties
  <1>8. (f \o l) \o p = f \o (l \o p)
    BY <1>1, <1>2, <1>4, ConcatAssociative
  <1>9. (f \o (l \o p)) \o r = f \o ((l \o p) \o r)
    BY <1>3, <1>4, <1>7, ConcatAssociative
  <1>10. ((f \o l) \o p) \o r = f \o Opening(label, k)
    BY <1>6, <1>8, <1>9
  <1> QED BY <1>10 DEF l, p, r

LEMMA BeginFunctionInv == CInv /\ BeginFunction => CInv'
PROOF
  <1> SUFFICES ASSUME CInv, BeginFunction PROVE CInv'
    OBVIOUS
  <1> DEFINE x        == Task.e
             name     == Signature(x)[1].s
             label    == FuncLabel(name)
             info     == Info(name, "user", Mutate(label))
             declared == Define(st, info)
             c        == Opening(label, FrameWords(x))
             ts       == FunctionTasks(Params(x), Body(x))
  <1>1. /\ status = "running" /\ Task.do = "expr" /\ ~inFunc /\ DefinesFunction(x) /\ Signature(x) # <<>>
        /\ HasName(Signature(x)[1]) /\ Len(Params(x)) <= MaxArgs
        /\ st' = EnterScope(declared) /\ inFunc' = TRUE
        /\ UNCHANGED <<program, text, rodata, data, labels, status>>
    BY DEF BeginFunction, Doing
  <1>2. /\ func' = func \o << <<"label", label>> >> \o Prologue
                     \o (IF FrameWords(x) = 0 THEN <<>> ELSE << <<"reserve", SlotSize * FrameWords(x)>> >>)
        /\ work' = ts \o Tail(work)
    BY DEF BeginFunction, FunctionTasks, ParamTasks, Then
  <1>3. /\ TableOK(st) /\ LiveHeld(st) /\ DataOK /\ labels \in Nat /\ Task \in Tasks /\ Generated
        /\ OperatorsKnown(work, st) /\ Depth(st) = 1 /\ Depth(st) > 0
    BY <1>1, CInvFacts
  <1>4. /\ Signature(x)[1] \in Exprs /\ Params(x) \in Seq(Exprs) /\ Body(x) \in Seq(Exprs)
        /\ FrameWords(x) \in Nat
    <2>1. x \in Exprs
      BY <1>1, <1>3 DEF Tasks
    <2> QED BY <1>1, <1>3, <2>1, FunctionParts
  <1>5. name \in Names
    BY <1>1, <1>4, ExprFacts
  <1>6. label \in UserLabels /\ Mutate(label) \in UserLabels
    BY <1>5, MadeLabels
  <1>7. info \in NewInfos
    BY <1>5, <1>6, MadeInfos
  <1> HIDE DEF info, label, name
  <1>8. Defined(st, info, declared)
    BY <1>3, <1>7, DefineTable
  <1> HIDE DEF declared
  <1>9. /\ TableOK(st') /\ LiveHeld(st') /\ Depth(st') = 2
        /\ \A i \in Ids(st) : i \in Ids(st') /\ st'.infos[i] = st.infos[i]
    <2>1. /\ TableOK(declared) /\ LiveHeld(declared) /\ Depth(declared) = 1
          /\ \A i \in Ids(st) : i \in Ids(declared) /\ declared.infos[i] = st.infos[i]
      BY <1>3, <1>8, GrowsDefine DEF Grows
    <2>2. TableOK(st') /\ LiveHeld(st') /\ Depth(st') = Depth(declared) + 1 /\ st'.infos = declared.infos
      BY <1>1, <2>1, EnterTable
    <2> QED BY <2>1, <2>2 DEF Ids
  <1>10. Opens(c) /\ c \in Seq(Instructions)
    BY <1>4, <1>6, OpeningOpens
  <1>11. BodyTasks(ts, Len(Params(x)) + Len(Body(x))) /\ OperatorsIn(ts, st')
    BY <1>1, <1>4, FunctionTasksAre
  <1>12. func' = func \o c
    <2>1. func \in Seq(Instructions)
      BY <1>3 DEF Generated, Code, Shape
    <2> QED BY <1>2, <2>1, FunctionOpened
  <1>13. work \in Seq(Tasks) /\ work # <<>> /\ Head(work) = Task
    BY <1>1, <1>3, TopTask DEF Task
  <1>14. ts \in Seq(Tasks)
    BY <1>11 DEF BodyTasks
  <1> HIDE DEF c, ts
  <1>15. OperatorsKnown(work', st')
    BY <1>2, <1>3, <1>9, <1>11, <1>13, <1>14, OperatorsAfter
  <1>16. Generated'
    <2>1. PICK hf, ht, w, e, own : Code(func, text, work, labels, hf, ht, w, e, own) /\ inFunc = (e # 0)
      BY <1>3 DEF Generated
    <2>2. e = 0
      BY <1>1, <2>1
    <2>3. PICK g : Shape(c, g) /\ g[1] = Outside /\ g[Len(c) + 1] \in Nat
      BY <1>10 DEF Opens
    <2>4. /\ Len(work) # 0
          /\ \E hf1, ht1, w1 : Code(func \o c, text, work', labels, hf1, ht1, w1, Len(work), own)
      BY <1>1, <1>2, <1>3, <1>10, <1>11, <1>13, <2>1, <2>2, <2>3, BeginCode DEF Opens
    <2>5. \E hf1, ht1, w1 : Code(func', text', work', labels', hf1, ht1, w1, Len(work), own)
      BY <1>1, <1>12, <2>4
    <2>6. work' # <<>>
      <3>1. ReplacesTop(work, ts, work')
        BY <1>2, <1>13, <1>14, TasksAfter
      <3>2. Len(ts) > 0 /\ Len(ts) \in Nat
        BY <1>11 DEF BodyTasks
      <3>3. Len(work') > 0
        BY <3>1, <3>2 DEF ReplacesTop
      <3> QED BY <3>3
    <2>7. inFunc' = (Len(work) # 0)
      BY <1>1, <2>4
    <2>8. work' = <<>> <=> status' = "done"
      BY <1>1, <2>6
    <2>9. PICK hf1, ht1, w1 : Code(func', text', work', labels', hf1, ht1, w1, Len(work), own)
      BY <2>5
    <2> QED BY <2>7, <2>8, <2>9, Zenon DEF Generated
  <1>17. Base'
    <2>1. ScopesMatch'
      BY <1>1, <1>9 DEF ScopesMatch
    <2>2. DataOK'
      BY <1>1, <1>3 DEF DataOK
    <2> QED BY <1>9, <2>1, <2>2 DEF Base
  <1> QED BY <1>15, <1>16, <1>17 DEF CInv

LEMMA EpilogueShape ==
  ASSUME NEW a \in Nat
  PROVE  /\ Shape(Epilogue, <<a, Left, Popped, Outside>>) /\ Unlinked(Epilogue) /\ Len(Epilogue) = 3
         /\ <<a, Left, Popped, Outside>>[1] = a /\ <<a, Left, Popped, Outside>>[3 + 1] = Outside
PROOF
  <1> DEFINE i == <<"mov", "rsp", "rbp">>
             j == <<"pop", "rbp">>
             k == <<"ret">>
  <1>1. i \in Instructions /\ Moves(i, a, Left)
    BY DEF Instructions, Moves
  <1>2. j \in Instructions /\ Moves(j, Left, Popped)
    BY DEF Instructions, Moves
  <1>3. k \in Instructions /\ Moves(k, Popped, Outside)
    BY DEF Instructions, Moves
  <1>4. i[1] = "mov" /\ j[1] = "pop" /\ k[1] = "ret"
    OBVIOUS
  <1>5. Epilogue = <<i, j, k>>
    BY DEF Epilogue
  <1> HIDE DEF i, j, k
  <1>6. Outside \in Int /\ Left \in Int /\ Popped \in Int /\ a \in Int
    BY DEF Outside, Left, Popped
  <1>7. Shape(<<i, j, k>>, <<a, Left, Popped, Outside>>)
    BY <1>1, <1>2, <1>3, <1>6, ShapeThree
  <1>8. Len(<<i, j, k>>) = 3 /\ <<i, j, k>>[1] = i /\ <<i, j, k>>[2] = j /\ <<i, j, k>>[3] = k
        /\ \A x \in 1 .. 3 : x = 1 \/ x = 2 \/ x = 3
    OBVIOUS
  <1>9. \A l : <<"label", l>>[1] = "label"
    OBVIOUS
  <1>10. Unlinked(<<i, j, k>>)
    BY <1>4, <1>8, <1>9, NoBranch DEF Unlinked
  <1> QED BY <1>5, <1>7, <1>8, <1>10

\* The task on top is done and leaves none.
LEMMA TaskDone ==
  ASSUME NEW wk \in Seq(Tasks), wk # <<>>, NEW wk1, wk1 = <<>> \o Tail(wk)
  PROVE  /\ wk1 \in Seq(Tasks) /\ Len(wk) \in Nat \ {0} /\ Len(wk1) = Len(wk) - 1
         /\ \A d \in 1 .. Len(wk) - 1 : At(wk1, d) = At(wk, d)
PROOF
  <1>1. <<>> \in Seq(Tasks) /\ Len(<<>>) = 0
    OBVIOUS
  <1>2. ReplacesTop(wk, <<>>, wk1)
    BY <1>1, TasksAfter
  <1> QED BY <1>1, <1>2 DEF ReplacesTop

LEMMA EndCode ==
  ASSUME NEW fn, NEW tx, NEW wk, NEW lb \in Nat, NEW hf, NEW ht, NEW w, NEW e, NEW own,
         Code(fn, tx, wk, lb, hf, ht, w, e, own), wk # <<>>, Head(wk).do = "endfunc",
         NEW wk1, wk1 = <<>> \o Tail(wk)
  PROVE  /\ e # 0 /\ wk1 # <<>>
         /\ \E hf1, ht1, w1 : Code(fn \o Epilogue, tx \o << LoadNil >>, wk1, lb, hf1, ht1, w1, 0, own)
PROOF
  <1> DEFINE n == Len(wk)
             w1 == [d \in 0 .. n - 1 |-> w[d]]
  <1>1. /\ Stack(wk, w, e) /\ Placed(fn, tx, wk, lb, own) /\ Shape(fn, hf) /\ Shape(tx, ht)
        /\ Branched(fn, hf, wk, w, FuncTasks(wk, e)) /\ Branched(tx, ht, wk, w, MainTasks(wk, e))
        /\ TaskBranches(wk, w, e) /\ Ends(fn, tx, wk, hf, ht, w, e)
    BY DEF Code
  <1>2. /\ wk \in Seq(Tasks) /\ n \in Nat \ {0} /\ Head(wk) = At(wk, n) /\ n \in 1 .. n /\ Head(wk) \in Tasks
    BY <1>1, TaskOnTop DEF Stack
  <1>3. n = e /\ n > 1
    <2>1. n = e /\ e \in {0} \cup 2 .. n
      BY <1>1, <1>2 DEF Stack
    <2> HIDE DEF n
    <2> QED BY <1>2, <2>1
  <1>4. w[n] \in Nat /\ w[n - 1] \in Nat
    <2>1. n - 1 \in 1 .. n /\ n \in 1 .. n
      <3> HIDE DEF n
      <3> QED BY <1>2, <1>3
    <2> QED BY <1>1, <2>1 DEF Stack, TaskMoves
  <1>5. /\ wk1 \in Seq(Tasks) /\ Len(wk1) = n - 1
        /\ \A d \in 1 .. n - 1 : At(wk1, d) = At(wk, d)
    BY <1>2, TaskDone
  <1>6. /\ w1 \in [0 .. n - 1 -> Int] /\ \A d \in 0 .. n - 1 : w1[d] = w[d]
    <2>1. \A d \in 0 .. n - 1 : d \in 0 .. n
      BY <1>2
    <2> QED BY <1>1, <2>1 DEF Stack
  <1> HIDE DEF w1
  <1>7. \A d \in 1 .. n - 1 : d \in 1 .. n /\ d \in 0 .. n - 1 /\ d - 1 \in 0 .. n - 1 /\ d # n /\ d # 0
    <2> HIDE DEF n
    <2> QED BY <1>2
  <1>8. Stack(wk1, w1, 0)
    <2>1. w1[0] = Outside
      <3>1. 0 \in 0 .. n - 1
        BY <1>2
      <3> QED BY <1>1, <1>6, <3>1 DEF Stack
    <2>2. ASSUME NEW d \in 1 .. n - 1
          PROVE  /\ TaskMoves(At(wk1, d), w1[d], w1[d - 1])
                 /\ At(wk1, d).do = "finish" <=> d = 1
                 /\ At(wk1, d).do = "endfunc" <=> d = 0
      BY <1>1, <1>3, <1>5, <1>6, <1>7 DEF Stack
    <2> QED BY <1>5, <1>6, <2>1, <2>2 DEF Stack
  <1> DEFINE g == <<w[n], Left, Popped, Outside>>
             b == w[n - 1]
  <1>9. /\ Shape(Epilogue, g) /\ Unlinked(Epilogue) /\ Len(Epilogue) = 3
        /\ g[1] = w[n] /\ g[3 + 1] = Outside
    BY <1>4, EpilogueShape
  <1>10. hf[Len(fn) + 1] = w[n] /\ ht[Len(tx) + 1] = b /\ hf[1] = Outside /\ ht[1] = Outside
    BY <1>1, <1>2, <1>3 DEF Ends
  <1> HIDE DEF g
  <1>11. PICK kf : Shape(fn \o Epilogue, kf) /\ Joins(fn, hf, Epilogue, g, kf)
    BY <1>1, <1>9, <1>10, ShapeConcat
  <1>12. /\ LoadNil \in Neutral /\ LoadNil \in Instructions /\ Moves(LoadNil, b, b)
         /\ LoadNil[1] = "lea"
    BY <1>4, SomeNeutral, NeutralMoves DEF LoadNil
  <1>13. /\ Shape(<< LoadNil >>, <<b, b>>) /\ Len(<< LoadNil >>) = 1 /\ \A k \in 1 .. 1 + 1 : <<b, b>>[k] \in Nat
         /\ << LoadNil >>[1] = LoadNil /\ <<b, b>>[1] = b /\ <<b, b>>[1 + 1] = b /\ \A k \in 1 .. 1 : k = 1
    BY <1>4, <1>12, OneInstr
  <1> DEFINE c == << LoadNil >>
             f == <<b, b>>
  <1>14. /\ Shape(c, f) /\ Len(c) = 1 /\ f[1] = b /\ f[Len(c) + 1] = b
         /\ \A k \in 1 .. Len(c) + 1 : f[k] \in Nat
         /\ \A k \in 1 .. Len(c) : c[k] = LoadNil
    BY <1>13
  <1> HIDE DEF c, f
  <1>15. PICK kt : Shape(tx \o c, kt) /\ Joins(tx, ht, c, f, kt)
    BY <1>1, <1>10, <1>14, ShapeConcat
  <1>16. \A k \in 1 .. Len(c) : \A l : c[k] # <<"label", l>> /\ ~BranchTo(c[k], l)
    <2>1. \A l : LoadNil # <<"label", l>> /\ ~BranchTo(LoadNil, l)
      <3>1. \A l : <<"label", l>>[1] = "label"
        OBVIOUS
      <3> QED BY <1>12, <3>1, NoBranch
    <2> QED BY <1>14, <2>1
  <1>17. Ends(fn \o Epilogue, tx \o c, wk1, kf, kt, w1, 0)
    <2>1. /\ Len(fn) \in Nat /\ Len(fn \o Epilogue) = Len(fn) + 3
          /\ Len(tx) \in Nat /\ Len(tx \o c) = Len(tx) + 1
      <3>1. Len(fn) \in Nat /\ Len(fn \o Epilogue) = Len(fn) + 3
        <4>1. Joins(fn, hf, Epilogue, g, kf) /\ Len(Epilogue) = 3
          BY <1>9, <1>11
        <4>2. Len(fn) \in Nat /\ Len(fn \o Epilogue) = Len(fn) + Len(Epilogue)
          BY <4>1, JoinLengths
        <4> QED BY <4>1, <4>2
      <3>2. Len(tx) \in Nat /\ Len(tx \o c) = Len(tx) + 1
        BY <1>14, <1>15, JoinFacts
      <3> QED BY <3>1, <3>2
    <2>2. kf[1] = Outside /\ kt[1] = Outside
      <3>1. 1 \in 1 .. Len(fn) + 1 /\ 1 \in 1 .. Len(tx) + 1
        BY <2>1
      <3> QED BY <1>10, <1>11, <1>15, <3>1 DEF Joins
    <2>3. kf[Len(fn \o Epilogue) + 1] = Outside
      <3>1. Len(fn \o Epilogue) + 1 = Len(fn) + 4 /\ 4 \in 1 .. Len(Epilogue) + 1 /\ 3 + 1 = 4
        BY <1>9, <2>1
      <3>2. kf[Len(fn) + 4] = g[4]
        BY <1>11, <3>1 DEF Joins
      <3> QED BY <1>9, <3>1, <3>2
    <2>4. kt[Len(tx \o c) + 1] = b
      <3>1. Len(tx \o c) + 1 = Len(tx) + 2 /\ 2 \in 1 .. Len(c) + 1 /\ Len(c) + 1 = 2
        BY <1>14, <2>1
      <3>2. kt[Len(tx) + 2] = f[2]
        BY <1>15, <3>1 DEF Joins
      <3> QED BY <1>14, <3>1, <3>2
    <2>5. w1[Len(wk1)] = b
      <3>1. n - 1 \in 0 .. n - 1
        BY <1>2
      <3> QED BY <1>5, <1>6, <3>1
    <2> QED BY <2>2, <2>3, <2>4, <2>5 DEF Ends
  <1>18. Placed(fn \o Epilogue, tx \o c, wk1, lb, own)
    <2>1. ASSUME NEW i \in 1 .. Len(fn \o Epilogue), NEW l \in LocalLabels, (fn \o Epilogue)[i] = <<"label", l>>
          PROVE  own[l] = <<"func", i>> /\ l[2] < lb
      <3>1. i \in 1 .. Len(fn)
        <4>1. i \notin 1 .. Len(fn) => \E j \in 1 .. Len(Epilogue) : i = Len(fn) + j
          BY <1>11, JoinFacts
        <4>2. \A j \in 1 .. Len(Epilogue) : (fn \o Epilogue)[Len(fn) + j] = Epilogue[j]
          BY <1>11, JoinFacts
        <4> QED BY <1>9, <2>1, <4>1, <4>2 DEF Unlinked
      <3>2. fn[i] = <<"label", l>>
        BY <1>11, <2>1, <3>1, JoinFacts
      <3> QED BY <1>1, <3>1, <3>2 DEF Placed
    <2>2. ASSUME NEW i \in 1 .. Len(tx \o c), NEW l \in LocalLabels, (tx \o c)[i] = <<"label", l>>
          PROVE  own[l] = <<"text", i>> /\ l[2] < lb
      <3>1. i \in 1 .. Len(tx)
        <4>1. i \notin 1 .. Len(tx) => \E j \in 1 .. Len(c) : i = Len(tx) + j
          BY <1>15, JoinFacts
        <4>2. \A j \in 1 .. Len(c) : (tx \o c)[Len(tx) + j] = c[j]
          BY <1>15, JoinFacts
        <4> QED BY <1>16, <2>2, <4>1, <4>2
      <3>2. tx[i] = <<"label", l>>
        BY <1>15, <2>2, <3>1, JoinFacts
      <3> QED BY <1>1, <3>1, <3>2 DEF Placed
    <2>3. ASSUME NEW d \in 1 .. Len(wk1), NEW l \in LocalLabels, Defines(At(wk1, d), l)
          PROVE  own[l] = <<"work", d>> /\ l[2] < lb
      <3>1. d \in 1 .. n /\ At(wk1, d) = At(wk, d)
        BY <1>5, <1>7
      <3> QED BY <1>1, <2>3, <3>1 DEF Placed
    <2>4. own \in [LocalLabels -> {"func", "text", "work"} \X Nat]
      BY <1>1 DEF Placed
    <2> QED BY <2>1, <2>2, <2>3, <2>4 DEF Placed
  <1>19. Branched(fn \o Epilogue, kf, wk1, w1, FuncTasks(wk1, 0))
    <2>1. FuncTasks(wk, e) = {}
      <3> HIDE DEF n
      <3> SUFFICES ASSUME NEW d \in FuncTasks(wk, e) PROVE FALSE
        OBVIOUS
      <3>1. d \in 1 .. n /\ d > n
        BY <1>3 DEF FuncTasks, n
      <3> QED BY <1>2, <3>1
    <2> QED BY <1>1, <1>9, <1>11, <2>1, AllStillLanded
  <1>20. Branched(tx \o c, kt, wk1, w1, MainTasks(wk1, 0))
    <2>1. HandsOver(wk, w, MainTasks(wk, e), wk1, w1, MainTasks(wk1, 0), c, f)
      <3>1. ASSUME NEW d \in MainTasks(wk, e)
            PROVE  d \in MainTasks(wk1, 0) /\ At(wk1, d) = At(wk, d) /\ w1[d] = w[d]
        <4>1. d \in 1 .. n - 1
          <5>1. d \in 1 .. n /\ d < n
            BY <1>2, <1>3 DEF MainTasks
          <5> HIDE DEF n
          <5> QED BY <1>2, <5>1
        <4>2. d \in 0 .. n - 1 /\ d \in 1 .. Len(wk1)
          BY <1>5, <1>7, <4>1
        <4> QED BY <1>5, <1>6, <4>1, <4>2 DEF MainTasks
      <3> QED BY <1>14, <1>16, <3>1 DEF HandsOver
    <2>2. ht[Len(tx) + 1] = f[1]
      BY <1>10, <1>14
    <2> QED BY <1>1, <1>15, <2>1, <2>2, BranchedAfter
  <1>21. TaskBranches(wk1, w1, 0)
    <2> SUFFICES ASSUME NEW d \in 1 .. Len(wk1), NEW l \in LocalLabels, Branches(At(wk1, d), l)
                 PROVE  \E x \in 1 .. d - 1 : /\ Defines(At(wk1, x), l) /\ w1[x] = w1[d]
                                              /\ d \in FuncTasks(wk1, 0) => x \in FuncTasks(wk1, 0)
      BY DEF TaskBranches
    <2>1. d \in 1 .. n /\ d \in 0 .. n - 1 /\ d \in 1 .. n - 1 /\ Branches(At(wk, d), l)
      BY <1>5, <1>7
    <2>2. PICK x \in 1 .. d - 1 : Defines(At(wk, x), l) /\ w[x] = w[d]
      BY <1>1, <2>1 DEF TaskBranches
    <2>3. x \in 1 .. n - 1
      <3> HIDE DEF n
      <3> QED BY <1>2, <2>1
    <2>4. x \in 0 .. n - 1
      BY <1>7, <2>3
    <2> QED BY <1>5, <1>6, <2>1, <2>2, <2>3, <2>4 DEF FuncTasks
  <1>22. Code(fn \o Epilogue, tx \o c, wk1, lb, kf, kt, w1, 0, own)
    BY <1>8, <1>11, <1>15, <1>17, <1>18, <1>19, <1>20, <1>21 DEF Code
  <1>23. e # 0 /\ wk1 # <<>>
    <2> HIDE DEF n
    <2>1. Len(wk1) > 0 /\ Len(<<>>) = 0
      BY <1>2, <1>3, <1>5
    <2>2. wk1 # <<>>
      BY <2>1
    <2> QED BY <1>2, <1>3, <2>2
  <1> QED BY <1>22, <1>23 DEF c

\* The last task has been done, in main.
Closed(fn, tx, wk, lb, e, own) ==
  e = 0 /\ wk = <<>> /\ \E hf, ht, w : Code(fn, tx, wk, lb, hf, ht, w, 0, own)

LEMMA FinishCode ==
  ASSUME NEW fn, NEW tx, NEW wk, NEW lb \in Nat, NEW hf, NEW ht, NEW w, NEW e, NEW own,
         Code(fn, tx, wk, lb, hf, ht, w, e, own), wk # <<>>, Head(wk).do = "finish",
         NEW wk1, wk1 = <<>> \o Tail(wk)
  PROVE  Closed(fn, (tx \o << <<"null">> >>) \o Epilogue, wk1, lb, e, own)
PROOF
  <1> SUFFICES /\ e = 0 /\ wk1 = <<>>
               /\ \E hf1, ht1, w1 : Code(fn, (tx \o << <<"null">> >>) \o Epilogue, wk1, lb, hf1, ht1, w1, 0, own)
    BY DEF Closed
  <1> DEFINE n == Len(wk)
             w1 == [d \in 0 .. 0 |-> Outside]
  <1>1. /\ Stack(wk, w, e) /\ Placed(fn, tx, wk, lb, own) /\ Shape(fn, hf) /\ Shape(tx, ht)
        /\ Branched(fn, hf, wk, w, FuncTasks(wk, e)) /\ Branched(tx, ht, wk, w, MainTasks(wk, e))
        /\ TaskBranches(wk, w, e) /\ Ends(fn, tx, wk, hf, ht, w, e)
    BY DEF Code
  <1>2. /\ wk \in Seq(Tasks) /\ n \in Nat \ {0} /\ Head(wk) = At(wk, n) /\ n \in 1 .. n /\ Head(wk) \in Tasks
    BY <1>1, TaskOnTop DEF Stack
  <1>3. n = 1 /\ e = 0
    <2>1. n = 1 /\ e \in {0} \cup 2 .. n
      BY <1>1, <1>2 DEF Stack
    <2> HIDE DEF n
    <2> QED BY <2>1
  <1>4. w[1] \in Nat
    <2>1. 1 \in 1 .. Len(wk) /\ TaskMoves(At(wk, 1), w[1], w[1 - 1])
      BY <1>1, <1>3 DEF Stack
    <2> QED BY <2>1 DEF TaskMoves
  <1>5. wk1 = <<>> /\ Len(wk1) = 0 /\ wk1 \in Seq(Tasks)
    <2>1. wk1 \in Seq(Tasks) /\ Len(wk1) = 0
      BY <1>2, <1>3, TaskDone
    <2> QED BY <2>1, EmptySeq
  <1>6. w1 \in [0 .. 0 -> Int] /\ w1[0] = Outside
    BY DEF Outside
  <1> HIDE DEF w1
  <1>7. Stack(wk1, w1, 0)
    BY <1>5, <1>6 DEF Stack
  <1>8. hf[Len(fn) + 1] = Outside /\ ht[Len(tx) + 1] = w[1] /\ hf[1] = Outside /\ ht[1] = Outside
    BY <1>1, <1>3 DEF Ends
  <1> DEFINE a == w[1]
             i == <<"null">>
             g == <<a, Left, Popped, Outside>>
             f == <<a, a>>
             c == <<i>>
  <1>9. i \in Instructions /\ Moves(i, a, a) /\ i[1] = "null"
    BY <1>4, SomeNeutral, NeutralMoves
  <1> HIDE DEF i
  <1>10. Shape(c, f) /\ Len(c) = 1 /\ c[1] = i /\ f[1] = a /\ f[2] = a /\ \A k \in 1 .. 1 : k = 1
    BY <1>4, <1>9, OneInstr
  <1>11. Unlinked(c)
    <2>1. \A l : i # <<"label", l>> /\ ~BranchTo(i, l)
      <3>1. \A l : <<"label", l>>[1] = "label"
        OBVIOUS
      <3> QED BY <1>9, <3>1, NoBranch
    <2> HIDE DEF c
    <2> QED BY <1>10, <2>1 DEF Unlinked
  <1>12. /\ Shape(Epilogue, g) /\ Unlinked(Epilogue) /\ Len(Epilogue) = 3 /\ g[1] = a /\ g[3 + 1] = Outside
    BY <1>4, EpilogueShape
  <1> HIDE DEF a, g, f, c
  <1>13. PICK k1 : Shape(tx \o c, k1) /\ Joins(tx, ht, c, f, k1)
    <2>1. f[1] = ht[Len(tx) + 1]
      BY <1>8, <1>10 DEF a
    <2> QED BY <1>1, <1>10, <2>1, ShapeConcat
  <1>14. Len(tx) \in Nat /\ Len(tx \o c) = Len(tx) + 1
    <2>1. Len(tx) \in Nat /\ Len(tx \o c) = Len(tx) + Len(c)
      BY <1>13, JoinLengths
    <2> QED BY <1>10, <2>1
  <1>15. k1[1] = Outside /\ k1[Len(tx \o c) + 1] = a
    <2>1. 1 \in 1 .. Len(tx) + 1 /\ Len(tx \o c) + 1 = Len(tx) + 2 /\ 2 \in 1 .. Len(c) + 1
      BY <1>10, <1>14
    <2>2. k1[1] = ht[1] /\ k1[Len(tx) + 2] = f[2]
      BY <1>13, <2>1 DEF Joins
    <2> QED BY <1>8, <1>10, <2>1, <2>2
  <1>16. PICK k2 : Shape((tx \o c) \o Epilogue, k2) /\ Joins(tx \o c, k1, Epilogue, g, k2)
    <2>1. g[1] = k1[Len(tx \o c) + 1]
      BY <1>12, <1>15
    <2> QED BY <1>12, <1>13, <2>1, ShapeConcat
  <1> DEFINE s == (tx \o c) \o Epilogue
  <1>17. Len(s) = Len(tx) + 4
    <2>1. Len(s) = Len(tx \o c) + Len(Epilogue)
      BY <1>16, JoinFacts
    <2> QED BY <1>12, <1>14, <2>1
  <1>18. k2[1] = Outside /\ k2[Len(s) + 1] = Outside
    <2>1. 1 \in 1 .. Len(tx \o c) + 1 /\ Len(s) + 1 = Len(tx \o c) + 4 /\ 4 \in 1 .. Len(Epilogue) + 1 /\ 3 + 1 = 4
      BY <1>12, <1>14, <1>17
    <2>2. k2[1] = k1[1] /\ k2[Len(tx \o c) + 4] = g[4]
      BY <1>16, <2>1 DEF Joins
    <2> QED BY <1>12, <1>15, <2>1, <2>2
  <1>19. Ends(fn, s, wk1, hf, k2, w1, 0)
    BY <1>5, <1>6, <1>8, <1>18 DEF Ends
  <1>20. Placed(fn, s, wk1, lb, own)
    <2>1. ASSUME NEW x \in 1 .. Len(s), NEW l \in LocalLabels, s[x] = <<"label", l>>
          PROVE  own[l] = <<"text", x>> /\ l[2] < lb
      <3>1. x \in 1 .. Len(tx \o c)
        <4>1. x \notin 1 .. Len(tx \o c) => \E j \in 1 .. Len(Epilogue) : x = Len(tx \o c) + j
          BY <1>16, JoinTail
        <4>2. \A j \in 1 .. Len(Epilogue) : s[Len(tx \o c) + j] = Epilogue[j]
          BY <1>16, JoinFacts
        <4> QED BY <1>12, <2>1, <4>1, <4>2 DEF Unlinked
      <3>2. (tx \o c)[x] = <<"label", l>>
        BY <1>16, <2>1, <3>1, JoinFacts
      <3>3. x \in 1 .. Len(tx)
        <4>1. x \notin 1 .. Len(tx) => \E j \in 1 .. Len(c) : x = Len(tx) + j
          BY <1>13, <3>1, JoinTail
        <4>2. \A j \in 1 .. Len(c) : (tx \o c)[Len(tx) + j] = c[j]
          BY <1>13, JoinFacts
        <4> QED BY <1>11, <3>2, <4>1, <4>2 DEF Unlinked
      <3>4. tx[x] = <<"label", l>>
        BY <1>13, <3>2, <3>3, JoinFacts
      <3> QED BY <1>1, <3>3, <3>4 DEF Placed
    <2>2. \A d \in 1 .. Len(wk1) : FALSE
      BY <1>5
    <2> QED BY <1>1, <2>1, <2>2 DEF Placed
  <1>21. \A d \in 1 .. Len(wk) : \A l : ~Defines(At(wk, d), l)
    <2>1. \A d \in 1 .. Len(wk) : At(wk, d) = Head(wk)
      BY <1>2, <1>3
    <2>2. \A l : ~Defines(Head(wk), l)
      BY <1>2, TaskQuiet
    <2> QED BY <2>1, <2>2
  <1>22. Branched(s, k2, wk1, w1, MainTasks(wk1, 0))
    <2>1. MainTasks(wk, e) \subseteq 1 .. Len(wk)
      BY DEF MainTasks
    <2>2. Branched(tx \o c, k1, wk, w, {})
      BY <1>1, <1>11, <1>13, <1>21, <2>1, AllStillLanded
    <2> QED BY <1>12, <1>16, <2>2, AllStillLanded
  <1>23. Branched(fn, hf, wk1, w1, FuncTasks(wk1, 0))
    <2>1. FuncTasks(wk, e) = {}
      BY <1>3 DEF FuncTasks
    <2> QED BY <1>1, <2>1 DEF Branched
  <1>24. TaskBranches(wk1, w1, 0)
    <2>1. \A d \in 1 .. Len(wk1) : FALSE
      BY <1>5
    <2> QED BY <2>1 DEF TaskBranches
  <1>25. Code(fn, s, wk1, lb, hf, k2, w1, 0, own)
    BY <1>1, <1>7, <1>16, <1>19, <1>20, <1>22, <1>23, <1>24 DEF Code
  <1> QED BY <1>3, <1>5, <1>25 DEF c, i

\* Identities stay valid when no information is added.
LEMMA OperatorsStay ==
  ASSUME OperatorsKnown(work, st), work \in Seq(Tasks), work # <<>>, st'.infos = st.infos,
         work' = <<>> \o Tail(work)
  PROVE  OperatorsKnown(work', st')
PROOF
  <1>1. \A i \in Ids(st) : i \in Ids(st') /\ st'.infos[i] = st.infos[i]
    BY DEF Ids
  <1>2. <<>> \in Seq(Tasks) /\ OperatorsIn(<<>>, st')
    BY NoTasks
  <1> QED BY <1>1, <1>2, OperatorsAfter

LEMMA EndFunctionInv == CInv /\ EndFunction => CInv'
PROOF
  <1> SUFFICES ASSUME CInv, EndFunction PROVE CInv'
    OBVIOUS
  <1>1. /\ status = "running" /\ Task.do = "endfunc" /\ func' = func \o Epilogue
        /\ text' = Append(text, LoadNil) /\ inFunc' = FALSE /\ st' = ExitScope(st)
        /\ work' = <<>> \o Tail(work) /\ UNCHANGED <<program, rodata, data, labels, status>>
    BY DEF EndFunction, Doing, Then
  <1>2. /\ TableOK(st) /\ LiveHeld(st) /\ DataOK /\ labels \in Nat /\ Generated
        /\ OperatorsKnown(work, st) /\ Depth(st) = IF inFunc THEN 2 ELSE 1
    BY <1>1, CInvFacts
  <1>3. work \in Seq(Tasks) /\ work # <<>> /\ Head(work) = Task
    BY <1>1, <1>2, TopTask DEF Task
  <1>4. PICK hf, ht, w, e, own : Code(func, text, work, labels, hf, ht, w, e, own) /\ inFunc = (e # 0)
    BY <1>2 DEF Generated
  <1>5. /\ e # 0 /\ work' # <<>>
        /\ \E hf1, ht1, w1 : Code(func \o Epilogue, text \o << LoadNil >>, work', labels, hf1, ht1, w1, 0, own)
    BY <1>1, <1>2, <1>3, <1>4, EndCode
  <1>6. text' = text \o << LoadNil >>
    <2>1. LoadNil \in Instructions /\ text \in Seq(Instructions)
      <3>1. LoadNil \in Instructions
        BY SomeNeutral DEF Instructions, BodyCode
      <3> QED BY <1>4, <3>1 DEF Code, Shape
    <2> QED BY <1>1, <2>1, AppendIsConcat
  <1>7. Generated'
    <2>1. PICK hf1, ht1, w1 : Code(func', text', work', labels', hf1, ht1, w1, 0, own)
      BY <1>1, <1>5, <1>6
    <2>2. inFunc' = (0 # 0)
      BY <1>1
    <2>3. work' = <<>> <=> status' = "done"
      BY <1>1, <1>5
    <2> QED BY <2>1, <2>2, <2>3, Zenon DEF Generated
  <1>8. TableOK(st') /\ LiveHeld(st') /\ Depth(st') = 1 /\ st'.infos = st.infos
    <2>1. Depth(st) = 2
      BY <1>2, <1>4, <1>5
    <2> QED BY <1>1, <1>2, <2>1, ExitTable
  <1>9. OperatorsKnown(work', st')
    BY <1>1, <1>2, <1>3, <1>8, OperatorsStay
  <1>10. Base'
    <2>1. ScopesMatch'
      BY <1>1, <1>8 DEF ScopesMatch
    <2>2. DataOK'
      BY <1>1, <1>2 DEF DataOK
    <2> QED BY <1>8, <2>1, <2>2 DEF Base
  <1> QED BY <1>7, <1>9, <1>10 DEF CInv

LEMMA FinishInv == CInv /\ Finish => CInv'
PROOF
  <1> SUFFICES ASSUME CInv, Finish PROVE CInv'
    OBVIOUS
  <1>1. /\ status = "running" /\ Task.do = "finish" /\ text' = text \o << <<"null">> >> \o Epilogue
        /\ st' = DestroyTable(st) /\ status' = "done"
        /\ work' = <<>> \o Tail(work) /\ UNCHANGED <<program, func, rodata, data, inFunc, labels>>
    BY DEF Finish, Doing, Then
  <1>2. /\ TableOK(st) /\ LiveHeld(st) /\ DataOK /\ labels \in Nat /\ Generated
        /\ OperatorsKnown(work, st)
    BY <1>1, CInvFacts
  <1>3. work \in Seq(Tasks) /\ work # <<>> /\ Head(work) = Task
    BY <1>1, <1>2, TopTask DEF Task
  <1>4. PICK hf, ht, w, e, own : Code(func, text, work, labels, hf, ht, w, e, own) /\ inFunc = (e # 0)
    BY <1>2 DEF Generated
  <1>5. /\ e = 0 /\ work' = <<>>
        /\ \E hf1, ht1, w1 : Code(func, (text \o << <<"null">> >>) \o Epilogue, work', labels, hf1, ht1, w1, 0, own)
    <2>1. Head(work).do = "finish" /\ labels \in Nat /\ work' = <<>> \o Tail(work)
      BY <1>1, <1>2, <1>3
    <2>2. Code(func, text, work, labels, hf, ht, w, e, own)
      BY <1>4
    <2>3. Closed(func, (text \o << <<"null">> >>) \o Epilogue, work', labels, e, own)
      BY <1>3, <2>1, <2>2, FinishCode
    <2> QED BY <2>3 DEF Closed
  <1>6. Generated'
    <2>1. PICK hf1, ht1, w1 : Code(func', text', work', labels', hf1, ht1, w1, 0, own)
      BY <1>1, <1>5
    <2>2. inFunc' = (0 # 0)
      BY <1>1, <1>4, <1>5
    <2>3. work' = <<>> <=> status' = "done"
      BY <1>1, <1>5
    <2> QED BY <2>1, <2>2, <2>3, Zenon DEF Generated
  <1>7. TableOK(st') /\ LiveHeld(st') /\ Depth(st') = 0 /\ st'.infos = st.infos
    BY <1>1, <1>2, DestroyedTable
  <1>8. OperatorsKnown(work', st')
    BY <1>1, <1>2, <1>3, <1>7, OperatorsStay
  <1>9. Base'
    <2>1. ScopesMatch'
      BY <1>1, <1>7 DEF ScopesMatch
    <2>2. DataOK'
      BY <1>1, <1>2 DEF DataOK
    <2> QED BY <1>7, <2>1, <2>2 DEF Base
  <1> QED BY <1>6, <1>8, <1>9 DEF CInv

\* Errors leave everything but the status as it is.
LEMMA SameState ==
  ASSUME CInv, UNCHANGED <<st, sections, inFunc, labels, work>>,
         status' = status \/ (status = "running" /\ status' \in {"failed", "crashed"})
  PROVE  CInv'
PROOF
  <1>1. status' = "done" <=> status = "done"
    OBVIOUS
  <1>2. UNCHANGED <<func, text, rodata, data>>
    BY DEF sections
  <1>3. Generated'
    BY <1>1, <1>2 DEF CInv, Generated
  <1>4. Base'
    BY <1>1, <1>2 DEF CInv, Base, ScopesMatch, DataOK
  <1>5. OperatorsKnown(work', st')
    BY DEF CInv
  <1> QED BY <1>3, <1>4, <1>5 DEF CInv

LEMMA CNext == CInv /\ [Compile]_vars => CInv'
PROOF
  <1> SUFFICES ASSUME CInv, [Compile]_vars PROVE CInv'
    OBVIOUS
  <1>1. CASE CompileNumber BY <1>1, CompileNumberInv
  <1>2. CASE CompileSymbol BY <1>2, CompileSymbolInv
  <1>3. CASE CompileNil BY <1>3, CompileNilInv
  <1>4. CASE CompileIf BY <1>4, CompileIfInv
  <1>5. CASE StartGlobal BY <1>5, StartGlobalInv
  <1>6. CASE FinishGlobal BY <1>6, FinishGlobalInv
  <1>7. CASE StartLocal BY <1>7, StartLocalInv
  <1>8. CASE FinishLocal BY <1>8, FinishLocalInv
  <1>9. CASE BeginFunction BY <1>9, BeginFunctionInv
  <1>10. CASE DefineParam BY <1>10, DefineParamInv
  <1>11. CASE EndFunction BY <1>11, EndFunctionInv
  <1>12. CASE StartBuiltin BY <1>12, StartBuiltinInv
  <1>13. CASE FinishBuiltin BY <1>13, FinishBuiltinInv
  <1>14. CASE StartCall BY <1>14, StartCallInv
  <1>15. CASE FinishCall BY <1>15, FinishCallInv
  <1>16. CASE EmitTask BY <1>16, EmitTaskInv
  <1>17. CASE Finish BY <1>17, FinishInv
  <1>18. CASE Reject
    <2>1. UNCHANGED <<st, sections, inFunc, labels, work>> /\ status = "running" /\ status' = "failed"
      BY <1>18 DEF Reject, Rejected, Doing
    <2> QED BY <2>1, SameState
  <1>19. CASE Crash
    <2>1. UNCHANGED <<st, sections, inFunc, labels, work>> /\ status = "running" /\ status' = "crashed"
      BY <1>19 DEF Crash, Misused, Doing
    <2> QED BY <2>1, SameState
  <1>20. CASE UNCHANGED vars
    <2>1. UNCHANGED <<st, sections, inFunc, labels, work>>
      BY <1>20 DEF vars
    <2>2. status' = status \/ (status = "running" /\ status' \in {"failed", "crashed"})
      BY <1>20 DEF vars
    <2> QED BY <2>1, <2>2, SameState, Zenon
  <1> QED
    BY <1>1, <1>2, <1>3, <1>4, <1>5, <1>6, <1>7, <1>8, <1>9, <1>10, <1>11, <1>12, <1>13, <1>14,
       <1>15, <1>16, <1>17, <1>18, <1>19, <1>20 DEF Compile

-----------------------------------------------------------------------------
(* The global scope *)

LEMMA SixInfos ==
  /\ GlobalInfos \in Seq(InfoSet) /\ Len(GlobalInfos) = 6
  /\ \A i \in 1 .. 6 : GlobalInfos[i] \in InfoSet
  /\ \A i \in 1 .. 6 : \A j \in 1 .. 6 : GlobalInfos[i].name = GlobalInfos[j].name => i = j
PROOF
  <1> DEFINE a == Info(Define_, "special", <<>>)
             b == Info(If_, "special", <<>>)
             c == Info(Plus, "builtin", <<>>)
             d == Info(Minus, "builtin", <<>>)
             e == Info(True_, "global", TrueLabel)
             f == Info(False_, "global", NilLabel)
  <1>1. Define_ \in Names /\ If_ \in Names /\ Plus \in Names /\ Minus \in Names
        /\ True_ \in Names /\ False_ \in Names
    BY CodegenAssumption
  <1>2. <<>> \in Seq(LabelChars) /\ TrueLabel \in DataLabels /\ NilLabel \in DataLabels
    BY SomeNeutral
  <1>3. TrueLabel \in Seq(LabelChars) /\ NilLabel \in Seq(LabelChars)
    BY <1>2 DEF DataLabels
  <1>4. a \in InfoSet /\ b \in InfoSet /\ c \in InfoSet /\ d \in InfoSet
    BY <1>1, <1>2 DEF InfoSet, Info, Kinds
  <1>5. e \in InfoSet /\ f \in InfoSet
    BY <1>1, <1>2, <1>3 DEF InfoSet, Info, Kinds
  <1>6. /\ a.name = Define_ /\ b.name = If_ /\ c.name = Plus /\ d.name = Minus
        /\ e.name = True_ /\ f.name = False_
    BY DEF Info
  <1>7. /\ Define_ # If_ /\ Define_ # Plus /\ Define_ # Minus /\ If_ # Plus /\ If_ # Minus /\ Plus # Minus
        /\ True_ # Define_ /\ True_ # If_ /\ True_ # Plus /\ True_ # Minus
        /\ False_ # Define_ /\ False_ # If_ /\ False_ # Plus /\ False_ # Minus /\ True_ # False_
    <2>1. /\ Define_[1] = "define" /\ If_[1] = "if" /\ Plus[1] = "+" /\ Minus[1] = "-"
          /\ True_[1] = "#" /\ False_[1] = "#" /\ True_[2] = "t" /\ False_[2] = "f"
      BY DEF Define_, If_, Plus, Minus, True_, False_
    <2> QED BY <2>1
  <1>8. GlobalInfos = <<a, b, c, d, e, f>>
    BY DEF GlobalInfos
  <1> HIDE DEF a, b, c, d, e, f
  <1>9. /\ Len(GlobalInfos) = 6 /\ GlobalInfos \in Seq(InfoSet)
        /\ GlobalInfos[1] = a /\ GlobalInfos[2] = b /\ GlobalInfos[3] = c
        /\ GlobalInfos[4] = d /\ GlobalInfos[5] = e /\ GlobalInfos[6] = f
    BY <1>4, <1>5, <1>8
  <1>10. \A i \in 1 .. 6 : i = 1 \/ i = 2 \/ i = 3 \/ i = 4 \/ i = 5 \/ i = 6
    OBVIOUS
  <1>11. \A i \in 1 .. 6 : GlobalInfos[i] \in InfoSet
    BY <1>4, <1>5, <1>9, <1>10
  <1>12. ASSUME NEW i \in 1 .. 6, NEW j \in 1 .. 6, GlobalInfos[i].name = GlobalInfos[j].name PROVE i = j
    BY <1>6, <1>7, <1>9, <1>10, <1>12
  <1> QED BY <1>9, <1>11, <1>12

LEMMA GlobalTable ==
  /\ TableOK(GlobalScope) /\ LiveHeld(GlobalScope) /\ Depth(GlobalScope) = 1
  /\ GlobalScope.infos = GlobalInfos
PROOF
  <1> DEFINE Known(n) == {id \in DOMAIN GlobalInfos : GlobalInfos[id].name = n}
             m == [n \in Names |-> IF Known(n) = {} THEN NoInfo ELSE CHOOSE id \in Known(n) : TRUE]
             s == [map |-> m, offset |-> 0]
             t == [scopes |-> <<s>>, infos |-> GlobalInfos, freed |-> {}]
  <1>1. GlobalScope = t
    BY DEF GlobalScope
  <1>2. DOMAIN GlobalInfos = 1 .. 6
    BY SixInfos
  <1>3. \A n \in Names : m[n] \in (1 .. 6) \cup {NoInfo}
    BY <1>2
  <1>4. ASSUME NEW id \in 1 .. 6 PROVE GlobalInfos[id].name \in Names /\ m[GlobalInfos[id].name] = id
    <2> DEFINE n == GlobalInfos[id].name
    <2>1. n \in Names
      BY SixInfos DEF InfoSet
    <2>2. id \in Known(n) /\ \A j \in Known(n) : j = id
      BY <1>2, SixInfos
    <2>3. Known(n) # {} /\ (CHOOSE j \in Known(n) : TRUE) = id
      BY <2>2
    <2> QED BY <2>1, <2>3
  <1>5. m \in [Names -> Nat]
    <2>1. m = [n \in Names |-> m[n]]
      OBVIOUS
    <2> HIDE DEF m
    <2>2. \A i \in (1 .. 6) \cup {NoInfo} : i \in Nat
      BY DEF NoInfo
    <2>3. \A n \in Names : m[n] \in Nat
      BY <1>3, <2>2
    <2> QED BY <2>1, <2>3
  <1> HIDE DEF m
  <1>6. s \in ScopeSet /\ s.map = m
    BY <1>5 DEF ScopeSet
  <1> HIDE DEF s
  <1>7. /\ <<s>> \in Seq(ScopeSet) /\ Len(<<s>>) = 1 /\ <<s>>[1] = s
        /\ \A d \in 1 .. 1 : d = 1 /\ 1 \in 1 .. 1
    BY <1>6
  <1>8. t \in [scopes : Seq(ScopeSet), infos : Seq(InfoSet), freed : SUBSET Nat]
    BY <1>7, SixInfos
  <1>9. t.scopes = <<s>> /\ t.infos = GlobalInfos /\ t.freed = {} /\ Depth(t) = 1 /\ Ids(t) = 1 .. 6
    BY <1>7, SixInfos DEF Depth, Ids
  <1> HIDE DEF t
  <1>10. TableOK(t)
    BY <1>3, <1>6, <1>7, <1>8, <1>9 DEF TableOK
  <1>11. LiveHeld(t)
    <2> SUFFICES ASSUME NEW id \in 1 .. 6
                 PROVE  \E d \in 1 .. Depth(t) : \E n \in Names : t.scopes[d].map[n] = id
      BY <1>9 DEF LiveHeld
    <2>1. 1 \in 1 .. Depth(t) /\ t.scopes[1].map = m
      BY <1>6, <1>7, <1>9
    <2> QED BY <1>4, <2>1
  <1> QED BY <1>1, <1>9, <1>10, <1>11

-----------------------------------------------------------------------------
(* The first state *)

LEMMA FirstTasks ==
  ASSUME NEW p \in Seq(Exprs), NEW wk,
         wk = [i \in DOMAIN p |-> Expr(p[i])] \o << [do |-> "finish"] >>
  PROVE  /\ wk \in Seq(Tasks) /\ Len(wk) \in Nat \ {0}
         /\ At(wk, 1) = [do |-> "finish"]
         /\ \A d \in 2 .. Len(wk) : \E e \in Exprs : At(wk, d) = Expr(e)
PROOF
  <1> DEFINE r == [i \in DOMAIN p |-> Expr(p[i])]
             n == Len(p)
             f == [do |-> "finish"]
  <1>1. DOMAIN r = DOMAIN p /\ r = [i \in DOMAIN r |-> r[i]] /\ DOMAIN p = 1 .. n /\ n \in Nat
    OBVIOUS
  <1>2. \A i \in DOMAIN p : r[i] \in Tasks
    BY StartTasks, <1>1
  <1>3. r \in Seq(Tasks) /\ Len(r) = n
    <2> HIDE DEF r
    <2> QED BY <1>1, <1>2, Mapped
  <1>4. f \in Tasks
    BY DEF Tasks
  <1>5. \A i \in 1 .. n : r[i] = Expr(p[i]) /\ p[i] \in Exprs
    BY <1>1
  <1> HIDE DEF r, n, f
  <1>6. <<f>> \in Seq(Tasks) /\ Len(<<f>>) = 1 /\ <<f>>[1] = f
    BY <1>4
  <1>7. wk = r \o <<f>>
    BY DEF r, f
  <1>8. /\ wk \in Seq(Tasks) /\ Len(wk) = n + 1
        /\ \A i \in 1 .. n + 1 : wk[i] = IF i <= n THEN r[i] ELSE <<f>>[i - n]
    <2> DEFINE g == <<f>>
    <2>1. g \in Seq(Tasks) /\ Len(g) = 1 /\ wk = r \o g
      BY <1>6, <1>7
    <2> HIDE DEF g
    <2>2. /\ r \o g \in Seq(Tasks) /\ Len(r \o g) = Len(r) + Len(g)
          /\ \A i \in 1 .. Len(r) + Len(g) : (r \o g)[i] = IF i <= Len(r) THEN r[i] ELSE g[i - Len(r)]
      BY <1>3, <2>1, ConcatProperties
    <2>3. /\ r \o g \in Seq(Tasks) /\ Len(r \o g) = n + 1
          /\ \A i \in 1 .. n + 1 : (r \o g)[i] = IF i <= n THEN r[i] ELSE g[i - n]
      BY <1>3, <2>1, <2>2, Zenon
    <2> QED BY <2>1, <2>3, Zenon DEF g
  <1>9. At(wk, 1) = f
    <2>1. (n + 1) + 1 - 1 = n + 1 /\ (n + 1) - n = 1 /\ ~(n + 1 <= n) /\ n + 1 \in 1 .. n + 1
      BY <1>1
    <2>2. wk[n + 1] = <<f>>[1]
      BY <1>8, <2>1
    <2> QED BY <1>6, <1>8, <2>1, <2>2 DEF At
  <1>10. ASSUME NEW d \in 2 .. n + 1 PROVE \E e \in Exprs : At(wk, d) = Expr(e)
    <2>1. (n + 1) + 1 - d \in 1 .. n
      BY <1>1
    <2>2. wk[(n + 1) + 1 - d] = Expr(p[(n + 1) + 1 - d])
      BY <1>1, <1>5, <1>8, <2>1
    <2> QED BY <1>5, <1>8, <2>1, <2>2 DEF At
  <1>11. n + 1 \in Nat \ {0}
    BY <1>1
  <1> QED BY <1>8, <1>9, <1>10, <1>11 DEF f

LEMMA FirstStack ==
  ASSUME NEW wk \in Seq(Tasks), Len(wk) \in Nat \ {0}, At(wk, 1) = [do |-> "finish"],
         \A d \in 2 .. Len(wk) : \E e \in Exprs : At(wk, d) = Expr(e),
         NEW w, w = [d \in 0 .. Len(wk) |-> IF d = 0 THEN Outside ELSE 0]
  PROVE  /\ Stack(wk, w, 0) /\ w[Len(wk)] = 0
         /\ \A d \in 1 .. Len(wk) : \A l : ~Defines(At(wk, d), l) /\ ~Branches(At(wk, d), l)
PROOF
  <1> DEFINE n == Len(wk)
             f == [do |-> "finish"]
  <1>1. n \in Nat \ {0} /\ w[0] = Outside /\ \A d \in 1 .. n : w[d] = 0
    OBVIOUS
  <1>2. w \in [0 .. n -> Int]
    BY DEF Outside
  <1>3. f.do = "finish" /\ f \in Tasks /\ TaskMoves(f, 0, Outside)
    BY DEF Tasks, TaskMoves
  <1>4. \A e \in Exprs : Expr(e).do = "expr" /\ Expr(e) \in Tasks /\ TaskMoves(Expr(e), 0, 0)
    BY StartTasks
  <1> HIDE DEF f
  <1>5. ASSUME NEW d \in 1 .. n
        PROVE  /\ TaskMoves(At(wk, d), w[d], w[d - 1])
               /\ At(wk, d).do = "finish" <=> d = 1
               /\ At(wk, d).do # "endfunc"
               /\ \A l : ~Defines(At(wk, d), l) /\ ~Branches(At(wk, d), l)
    <2>1. CASE d = 1
      <3>1. At(wk, d) = f /\ w[d] = 0 /\ w[d - 1] = Outside
        BY <1>1, <2>1 DEF f
      <3> QED BY <1>3, <2>1, <3>1, TaskQuiet
    <2>2. CASE d # 1
      <3>1. d \in 2 .. n /\ d - 1 \in 1 .. n
        BY <1>1, <2>2
      <3>2. PICK e \in Exprs : At(wk, d) = Expr(e)
        BY <3>1
      <3>3. w[d] = 0 /\ w[d - 1] = 0
        BY <1>1, <3>1
      <3> QED BY <1>4, <2>2, <3>2, <3>3, TaskQuiet
    <2> QED BY <2>1, <2>2
  <1>6. ASSUME NEW d \in 1 .. n PROVE At(wk, d).do = "endfunc" <=> d = 0
    <2>1. At(wk, d).do # "endfunc"
      BY <1>5
    <2>2. d # 0
      OBVIOUS
    <2> QED BY <2>1, <2>2
  <1>7. Stack(wk, w, 0)
    BY <1>1, <1>2, <1>5, <1>6 DEF Stack
  <1> QED BY <1>1, <1>5, <1>7

LEMMA InitCode ==
  ASSUME NEW p \in Seq(Exprs), NEW wk, wk = [i \in DOMAIN p |-> Expr(p[i])] \o << [do |-> "finish"] >>,
         NEW tx, tx = << <<"label", MainLabel>> >> \o Prologue
  PROVE  /\ wk \in Seq(Tasks) /\ wk # <<>>
         /\ \A d \in 1 .. Len(wk) : At(wk, d).do \notin {"call", "builtin"}
         /\ \E hf, ht, w, own : Code(<<>>, tx, wk, 0, hf, ht, w, 0, own)
PROOF
  <1> DEFINE w == [d \in 0 .. Len(wk) |-> IF d = 0 THEN Outside ELSE 0]
             hf == <<Outside>>
             ht == <<Outside, Entered, Saved, 0>>
             own == [l \in LocalLabels |-> <<"work", 0>>]
  <1>1. /\ wk \in Seq(Tasks) /\ Len(wk) \in Nat \ {0}
        /\ At(wk, 1) = [do |-> "finish"]
        /\ \A d \in 2 .. Len(wk) : \E e \in Exprs : At(wk, d) = Expr(e)
    BY FirstTasks
  <1>2. wk # <<>>
    BY <1>1
  <1>3. ASSUME NEW d \in 1 .. Len(wk) PROVE At(wk, d).do \notin {"call", "builtin"}
    <2>1. d = 1 \/ d \in 2 .. Len(wk)
      BY <1>1
    <2>2. CASE d = 1
      BY <1>1, <2>2
    <2>3. CASE d \in 2 .. Len(wk)
      <3>1. PICK e \in Exprs : At(wk, d) = Expr(e)
        BY <1>1, <2>3
      <3>2. At(wk, d).do = "expr"
        BY <3>1 DEF Expr
      <3> QED BY <3>2
    <2> QED BY <2>1, <2>2, <2>3
  <1>4. /\ Stack(wk, w, 0) /\ w[Len(wk)] = 0
        /\ \A d \in 1 .. Len(wk) : \A l : ~Defines(At(wk, d), l) /\ ~Branches(At(wk, d), l)
    BY <1>1, FirstStack
  <1>5. tx = << <<"label", MainLabel>>, <<"push", "rbp">>, <<"mov", "rbp", "rsp">> >>
    BY OneAndTwo DEF Prologue
  <1>6. Shape(tx, ht) /\ Unlinked(tx)
    BY <1>5, OpeningShape, ThreeUnlinked
  <1>7. Shape(<<>>, hf)
    BY ShapeNone DEF Outside
  <1>8. Len(<<>>) = 0 /\ hf[1] = Outside /\ hf[0 + 1] = Outside /\ ht[1] = Outside /\ Len(tx) = 3 /\ ht[3 + 1] = 0
    <2>1. Len(tx) = 3
      <3>1. \A a, b, c : Len(<<a, b, c>>) = 3
        OBVIOUS
      <3> QED BY <1>5, <3>1
    <2>2. hf[1] = Outside /\ ht[1] = Outside /\ ht[4] = 0
      OBVIOUS
    <2>3. 0 + 1 = 1 /\ 3 + 1 = 4
      OBVIOUS
    <2>4. Len(<<>>) = 0
      OBVIOUS
    <2> QED BY <2>1, <2>2, <2>3, <2>4
  <1> HIDE DEF w, hf, ht
  <1>9. Ends(<<>>, tx, wk, hf, ht, w, 0)
    BY <1>4, <1>8 DEF Ends
  <1>10. Placed(<<>>, tx, wk, 0, own)
    <2>1. own \in [LocalLabels -> {"func", "text", "work"} \X Nat]
      OBVIOUS
    <2>2. \A i \in 1 .. Len(<<>>) : FALSE
      BY <1>8
    <2>3. \A i \in 1 .. Len(tx) : \A l \in LocalLabels : tx[i] # <<"label", l>>
      BY <1>6 DEF Unlinked
    <2> HIDE DEF own
    <2> QED BY <1>4, <2>1, <2>2, <2>3 DEF Placed
  <1>11. Branched(<<>>, hf, wk, w, FuncTasks(wk, 0))
    <2>1. \A i \in 1 .. Len(<<>>) : FALSE
      BY <1>8
    <2> QED BY <2>1 DEF Branched
  <1>12. Branched(tx, ht, wk, w, MainTasks(wk, 0))
    BY <1>6 DEF Branched, Unlinked
  <1>13. TaskBranches(wk, w, 0)
    BY <1>4 DEF TaskBranches
  <1>14. Code(<<>>, tx, wk, 0, hf, ht, w, 0, own)
    BY <1>4, <1>6, <1>7, <1>9, <1>10, <1>11, <1>12, <1>13 DEF Code
  <1> QED BY <1>1, <1>2, <1>3, <1>14

LEMMA CInit == Init => CInv
PROOF
  <1> SUFFICES ASSUME Init PROVE CInv
    OBVIOUS
  <1>1. /\ program \in Seq(Exprs) /\ st = GlobalScope /\ func = <<>>
        /\ text = << <<"label", MainLabel>> >> \o Prologue /\ rodata = <<>>
        /\ data = <<TrueLabel, NilLabel>> /\ inFunc = FALSE /\ labels = 0
        /\ work = [i \in DOMAIN program |-> Expr(program[i])] \o << [do |-> "finish"] >>
        /\ status = "running"
    BY CodegenAssumption DEF Init
  <1>2. /\ work \in Seq(Tasks) /\ work # <<>>
        /\ \A d \in 1 .. Len(work) : At(work, d).do \notin {"call", "builtin"}
        /\ \E hf, ht, w, own : Code(<<>>, text, work, 0, hf, ht, w, 0, own)
    BY <1>1, InitCode
  <1>3. Generated
    <2>1. PICK hf, ht, w, own : Code(<<>>, text, work, 0, hf, ht, w, 0, own)
      BY <1>2
    <2>2. Code(func, text, work, labels, hf, ht, w, 0, own)
      BY <1>1, <2>1
    <2>3. inFunc = (0 # 0)
      BY <1>1
    <2>4. work = <<>> <=> status = "done"
      BY <1>1, <1>2
    <2> QED BY <2>2, <2>3, <2>4, Zenon DEF Generated
  <1>4. OperatorsKnown(work, st)
    BY <1>2 DEF OperatorsKnown
  <1>5. TableOK(st) /\ LiveHeld(st) /\ Depth(st) = 1
    BY <1>1, GlobalTable
  <1>6. DataOK
    <2>1. data \in Seq(DataLabels)
      BY <1>1, SomeNeutral, TwoLong
    <2>2. rodata \in Seq(({"L_double"} \X Nat) \X Int) /\ \A i \in 1 .. Len(rodata) : FALSE
      BY <1>1
    <2> QED BY <1>1, <2>1, <2>2 DEF DataOK
  <1>7. ScopesMatch
    BY <1>1, <1>5 DEF ScopesMatch
  <1> QED BY <1>3, <1>4, <1>5, <1>6, <1>7 DEF CInv, Base

\* The invariant from which everything below follows.
THEOREM CodegenInvariant == Spec => []CInv
PROOF
  <1> QED BY CInit, CNext, PTL DEF Spec

-----------------------------------------------------------------------------
(* Types *)

LEMMA TypesFollow == CInv => TypeOK
PROOF
  <1> SUFFICES ASSUME CInv PROVE TypeOK
    OBVIOUS
  <1>1. TableOK(st) /\ DataOK /\ Generated
    BY DEF CInv, Base
  <1>2. ASSUME NEW i \in DOMAIN st.infos
        PROVE  /\ st.infos[i].name \in Names /\ st.infos[i].kind \in Kinds /\ st.infos[i].offset \in Nat
               /\ st.infos[i].kind = "local" <=> st.infos[i].offset > 0
    <2>1. st.infos[i] \in InfoSet
      BY <1>1 DEF TableOK
    <2> QED BY <2>1 DEF InfoSet, SlotSize
  <1>3. ASSUME NEW i \in DOMAIN rodata PROVE rodata[i] \in ({"L_double"} \X (0 .. labels - 1)) \X Int
    <2>1. rodata[i] \in ({"L_double"} \X Nat) \X Int /\ rodata[i][1][2] < labels /\ labels \in Nat
      BY <1>1 DEF DataOK
    <2>2. PICK k \in Nat, v \in Int : rodata[i] = << <<"L_double", k>>, v >>
      BY <2>1
    <2>3. k \in 0 .. labels - 1
      BY <2>1, <2>2
    <2> QED BY <2>2, <2>3
  <1>4. ASSUME NEW i \in DOMAIN data PROVE data[i] \in Seq(LabelChars)
    <2>1. data[i] \in DataLabels
      BY <1>1 DEF DataOK
    <2> QED BY <2>1 DEF DataLabels
  <1>5. ASSUME NEW i \in DOMAIN work PROVE work[i].do \in TaskKinds
    <2>1. work \in Seq(Tasks)
      BY <1>1 DEF Generated, Code, Stack
    <2>2. work[i] \in Tasks
      BY <2>1
    <2> QED BY <2>2 DEF Tasks, TaskKinds
  <1>6. /\ inFunc \in BOOLEAN /\ labels \in Nat /\ status \in {"running", "done", "failed", "crashed"}
    BY <1>1 DEF DataOK
  <1> QED BY <1>2, <1>3, <1>4, <1>5, <1>6 DEF TypeOK

\* The state of the code generator is well typed: every information in the symbol
\* table has a name of the program, local variables and only they have a slot, and
\* the labels of number literals stay below label_counter.
THEOREM CodegenTypes == Spec => []TypeOK
PROOF
  <1> QED BY CodegenInvariant, TypesFollow, PTL

-----------------------------------------------------------------------------
(* What instructions are by their operation *)

LEMMA LabelInstruction ==
  ASSUME NEW i \in Instructions, i[1] = "label"
  PROVE  /\ i = <<"label", i[2]>> /\ i[2] \in LocalLabels \cup UserLabels \cup {MainLabel}
PROOF
  <1>1. i \in {"label"} \X LocalLabels \/ i \in {"label"} \X (UserLabels \cup {MainLabel})
    BY DEF Instructions, BodyCode, Neutral, PushRax
  <1> QED BY <1>1

LEMMA BranchInstruction ==
  ASSUME NEW i \in Instructions, i[1] \in {"je", "jmp"}
  PROVE  /\ BranchTo(i, i[2]) /\ i[2] \in LocalLabels
PROOF
  <1>1. i \in {"je", "jmp", "label"} \X LocalLabels
    BY DEF Instructions, BodyCode, Neutral, PushRax
  <1> QED BY <1>1 DEF BranchTo

LEMMA LabelKinds ==
  /\ \A l \in LocalLabels : IsLocalLabel(l)
  /\ \A l \in UserLabels \cup {MainLabel} : ~IsLocalLabel(l)
BY DEF LocalLabels, UserLabels, MainLabel, IsLocalLabel

\* The start of a function is where its label is, its end where it returns.
LEMMA StartsAndReturns ==
  ASSUME NEW i \in Instructions, NEW a, NEW b, Moves(i, a, b)
  PROVE  /\ i[1] = "label" /\ ~IsLocalLabel(i[2]) => a = Outside /\ b # Outside
         /\ i[1] = "ret" => a # Outside /\ b = Outside
         /\ ~(i[1] = "label" /\ ~IsLocalLabel(i[2])) /\ i[1] # "ret" => (a = Outside <=> b = Outside)
         /\ ~(i[1] = "label" /\ ~IsLocalLabel(i[2])) => a # Outside
PROOF
  <1>1. Outside \notin Nat /\ Entered # Outside /\ Saved # Outside /\ Left # Outside /\ Popped # Outside
    BY DEF Outside, Entered, Saved, Left, Popped
  <1>2. CASE a = Outside /\ b = Entered /\ i \in {"label"} \X (UserLabels \cup {MainLabel})
    <2>1. i[1] = "label" /\ ~IsLocalLabel(i[2])
      BY <1>2, LabelKinds
    <2> QED BY <1>1, <1>2, <2>1
  <1>3. CASE i \in Neutral /\ a \in Nat /\ b = a
    <2>1. i[1] # "ret" /\ (i[1] = "label" => i[2] \in LocalLabels)
      BY <1>3 DEF Neutral
    <2> QED BY <1>1, <1>3, <2>1, LabelKinds
  <1>4. CASE a = Popped /\ b = Outside /\ i = <<"ret">>
    BY <1>1, <1>4
  <1>5. CASE \/ a = Entered /\ b = Saved /\ i = <<"push", "rbp">>
             \/ a = Saved /\ b = 0 /\ i = <<"mov", "rbp", "rsp">>
             \/ a \in Nat /\ b = Left /\ i = <<"mov", "rsp", "rbp">>
             \/ a = Left /\ b = Popped /\ i = <<"pop", "rbp">>
             \/ a \in Nat /\ b = a + 1 /\ i = PushRax
             \/ a \in Nat /\ b \in Nat /\ b = a - 1 /\ i \in {"pop"} \X WordRegs
             \/ a \in Nat /\ b = a /\ i \in {"reserve"} \X Nat
    <2>1. i[1] # "ret" /\ i[1] # "label"
      BY <1>5 DEF PushRax
    <2>2. a # Outside /\ b # Outside
      BY <1>5 DEF Outside, Entered, Saved, Left, Popped
    <2> QED BY <2>1, <2>2
  <1> QED BY <1>2, <1>3, <1>4, <1>5 DEF Moves

-----------------------------------------------------------------------------
(* Functions are written whole *)

\* Of the first i instructions, the starts and the ends of functions.
StartsUpTo(code, i) == {j \in 1 .. i : code[j][1] = "label" /\ ~IsLocalLabel(code[j][2])}
EndsUpTo(code, i)   == {j \in 1 .. i : code[j][1] = "ret"}

LEMMA CountsStep ==
  ASSUME NEW code, NEW i \in Nat
  PROVE  /\ IsFiniteSet(StartsUpTo(code, i)) /\ IsFiniteSet(EndsUpTo(code, i))
         /\ Cardinality(StartsUpTo(code, i)) \in Nat /\ Cardinality(EndsUpTo(code, i)) \in Nat
         /\ i = 0 => Cardinality(StartsUpTo(code, i)) = 0 /\ Cardinality(EndsUpTo(code, i)) = 0
         /\ i # 0 =>
              /\ Cardinality(StartsUpTo(code, i)) = Cardinality(StartsUpTo(code, i - 1))
                   + (IF code[i][1] = "label" /\ ~IsLocalLabel(code[i][2]) THEN 1 ELSE 0)
              /\ Cardinality(EndsUpTo(code, i)) = Cardinality(EndsUpTo(code, i - 1))
                   + (IF code[i][1] = "ret" THEN 1 ELSE 0)
PROOF
  <1>1. \A k \in Nat : IsFiniteSet(1 .. k)
    BY FS_Interval
  <1>2. ASSUME NEW k \in Nat PROVE IsFiniteSet(StartsUpTo(code, k)) /\ IsFiniteSet(EndsUpTo(code, k))
    <2>1. StartsUpTo(code, k) \subseteq 1 .. k /\ EndsUpTo(code, k) \subseteq 1 .. k
      BY DEF StartsUpTo, EndsUpTo
    <2> QED BY <1>1, <2>1, FS_Subset
  <1>3. Cardinality(StartsUpTo(code, i)) \in Nat /\ Cardinality(EndsUpTo(code, i)) \in Nat
    BY <1>2, FS_CardinalityType
  <1>4. ASSUME i = 0 PROVE Cardinality(StartsUpTo(code, i)) = 0 /\ Cardinality(EndsUpTo(code, i)) = 0
    <2>1. StartsUpTo(code, i) = {} /\ EndsUpTo(code, i) = {}
      BY <1>4 DEF StartsUpTo, EndsUpTo
    <2> QED BY <2>1, FS_EmptySet
  <1>5. ASSUME i # 0
        PROVE  Cardinality(StartsUpTo(code, i)) = Cardinality(StartsUpTo(code, i - 1))
                 + (IF code[i][1] = "label" /\ ~IsLocalLabel(code[i][2]) THEN 1 ELSE 0)
    <2>1. i - 1 \in Nat /\ i \notin StartsUpTo(code, i - 1)
      BY <1>5 DEF StartsUpTo
    <2>2. CASE code[i][1] = "label" /\ ~IsLocalLabel(code[i][2])
      <3>1. StartsUpTo(code, i) = StartsUpTo(code, i - 1) \cup {i}
        BY <1>5, <2>2 DEF StartsUpTo
      <3> QED BY <1>2, <2>1, <2>2, <3>1, FS_AddElement
    <2>3. CASE ~(code[i][1] = "label" /\ ~IsLocalLabel(code[i][2]))
      <3>1. StartsUpTo(code, i) = StartsUpTo(code, i - 1)
        BY <1>5, <2>3 DEF StartsUpTo
      <3> QED BY <1>3, <2>3, <3>1
    <2> QED BY <2>2, <2>3
  <1>6. ASSUME i # 0
        PROVE  Cardinality(EndsUpTo(code, i)) = Cardinality(EndsUpTo(code, i - 1))
                 + (IF code[i][1] = "ret" THEN 1 ELSE 0)
    <2>1. i - 1 \in Nat /\ i \notin EndsUpTo(code, i - 1)
      BY <1>6 DEF EndsUpTo
    <2>2. CASE code[i][1] = "ret"
      <3>1. EndsUpTo(code, i) = EndsUpTo(code, i - 1) \cup {i}
        BY <1>6, <2>2 DEF EndsUpTo
      <3> QED BY <1>2, <2>1, <2>2, <3>1, FS_AddElement
    <2>3. CASE ~(code[i][1] = "ret")
      <3>1. EndsUpTo(code, i) = EndsUpTo(code, i - 1)
        BY <1>6, <2>3 DEF EndsUpTo
      <3> QED BY <1>3, <2>3, <3>1
    <2> QED BY <2>2, <2>3
  <1> QED BY <1>2, <1>3, <1>4, <1>5, <1>6

Open(code, i) == Cardinality(StartsUpTo(code, i)) - Cardinality(EndsUpTo(code, i))

LEMMA OpenOrOutside ==
  ASSUME NEW code, NEW h, Shape(code, h), h[1] = Outside, NEW i \in 0 .. Len(code)
  PROVE  Open(code, i) = IF h[i + 1] = Outside THEN 0 ELSE 1
PROOF
  <1> DEFINE T == {k \in 0 .. Len(code) : Open(code, k) # IF h[k + 1] = Outside THEN 0 ELSE 1}
  <1>1. Len(code) \in Nat /\ code \in Seq(Instructions)
    BY DEF Shape
  <1>2. ASSUME T # {} PROVE FALSE
    <2>1. T \in SUBSET Nat
      BY <1>1
    <2>2. PICK k \in T : \A y \in T : k <= y
      BY <1>2, <2>1, Least
    <2>3. k \in 0 .. Len(code) /\ k \in Nat
      BY <1>1
    <2>4. CASE k = 0
      <3>1. Open(code, k) = 0
        BY <2>4, CountsStep DEF Open
      <3> QED BY <2>4, <3>1
    <2>5. CASE k # 0
      <3>1. k - 1 \in 0 .. Len(code) /\ k - 1 \in Nat /\ k \in 1 .. Len(code) /\ (k - 1) + 1 = k
        BY <1>1, <2>3, <2>5
      <3>2. k - 1 \notin T
        BY <2>2, <2>3
      <3>3. Open(code, k - 1) = IF h[k] = Outside THEN 0 ELSE 1
        BY <3>1, <3>2
      <3>4. Open(code, k) # IF h[k + 1] = Outside THEN 0 ELSE 1
        OBVIOUS
      <3>5. Moves(code[k], h[k], h[k + 1]) /\ code[k] \in Instructions
        BY <1>1, <3>1 DEF Shape
      <3> DEFINE p == code[k][1] = "label" /\ ~IsLocalLabel(code[k][2])
                 q == code[k][1] = "ret"
      <3>6. /\ p => h[k] = Outside /\ h[k + 1] # Outside
            /\ q => h[k] # Outside /\ h[k + 1] = Outside
            /\ ~p /\ ~q => (h[k] = Outside <=> h[k + 1] = Outside)
        BY <3>5, StartsAndReturns
      <3>7. /\ Cardinality(StartsUpTo(code, k)) = Cardinality(StartsUpTo(code, k - 1)) + (IF p THEN 1 ELSE 0)
            /\ Cardinality(EndsUpTo(code, k)) = Cardinality(EndsUpTo(code, k - 1)) + (IF q THEN 1 ELSE 0)
            /\ Cardinality(StartsUpTo(code, k - 1)) \in Nat /\ Cardinality(EndsUpTo(code, k - 1)) \in Nat
        BY <2>3, <2>5, <3>1, CountsStep
      <3>8. ~(p /\ q)
        OBVIOUS
      <3> HIDE DEF p, q
      <3>9. Open(code, k) = Open(code, k - 1) + (IF p THEN 1 ELSE 0) - (IF q THEN 1 ELSE 0)
        BY <3>7 DEF Open
      <3> QED BY <3>3, <3>4, <3>6, <3>8, <3>9
    <2> QED BY <2>4, <2>5
  <1>3. i \notin T
    BY <1>2
  <1> QED BY <1>3

LEMMA OneOpen ==
  ASSUME NEW code, NEW h, Shape(code, h), h[1] = Outside, NEW i \in 1 .. Len(code)
  PROVE  Cardinality(StartsUpTo(code, i)) - Cardinality(EndsUpTo(code, i - 1)) = 1
PROOF
  <1>1. Len(code) \in Nat /\ code \in Seq(Instructions) /\ i \in Nat
    BY DEF Shape
  <1>2. i - 1 \in 0 .. Len(code) /\ i - 1 \in Nat /\ (i - 1) + 1 = i
    BY <1>1
  <1>3. Open(code, i - 1) = IF h[i] = Outside THEN 0 ELSE 1
    BY <1>2, OpenOrOutside
  <1>4. Moves(code[i], h[i], h[i + 1]) /\ code[i] \in Instructions
    BY <1>1 DEF Shape
  <1> DEFINE p == code[i][1] = "label" /\ ~IsLocalLabel(code[i][2])
  <1>5. (p => h[i] = Outside) /\ (~p => h[i] # Outside)
    BY <1>4, StartsAndReturns
  <1>6. /\ Cardinality(StartsUpTo(code, i)) = Cardinality(StartsUpTo(code, i - 1)) + (IF p THEN 1 ELSE 0)
        /\ Cardinality(StartsUpTo(code, i - 1)) \in Nat /\ Cardinality(EndsUpTo(code, i - 1)) \in Nat
    BY <1>1, <1>2, CountsStep
  <1> HIDE DEF p
  <1>7. Cardinality(StartsUpTo(code, i - 1)) - Cardinality(EndsUpTo(code, i - 1)) = IF p THEN 0 ELSE 1
    BY <1>3, <1>5 DEF Open
  <1> DEFINE x == Cardinality(StartsUpTo(code, i))
             y == Cardinality(StartsUpTo(code, i - 1))
             z == Cardinality(EndsUpTo(code, i - 1))
  <1>8. x = y + (IF p THEN 1 ELSE 0) /\ y \in Nat /\ z \in Nat /\ y - z = IF p THEN 0 ELSE 1
    BY <1>6, <1>7
  <1> HIDE DEF x, y, z
  <1>9. x - z = 1
    BY <1>8
  <1> QED BY <1>9 DEF x, z

LEMMA FunctionTaskCount ==
  ASSUME NEW wk, NEW w, NEW e, Stack(wk, w, e)
  PROVE  Cardinality({i \in DOMAIN wk : wk[i].do = "endfunc"}) = IF e # 0 THEN 1 ELSE 0
PROOF
  <1> DEFINE n == Len(wk)
             T == {i \in DOMAIN wk : wk[i].do = "endfunc"}
  <1>1. n \in Nat /\ DOMAIN wk = 1 .. n /\ e \in {0} \cup 2 .. n
    BY DEF Stack
  <1>2. ASSUME NEW i \in 1 .. n PROVE wk[i].do = "endfunc" <=> n + 1 - i = e
    <2>1. n + 1 - i \in 1 .. n /\ n + 1 - (n + 1 - i) = i
      BY <1>1
    <2>2. At(wk, n + 1 - i).do = "endfunc" <=> n + 1 - i = e
      BY <2>1 DEF Stack
    <2> QED BY <2>1, <2>2 DEF At
  <1>3. CASE e = 0
    <2>1. T = {}
      BY <1>1, <1>2, <1>3
    <2> QED BY <1>3, <2>1, FS_EmptySet
  <1>4. CASE e # 0
    <2>1. T = {n + 1 - e}
      BY <1>1, <1>2, <1>4
    <2> QED BY <1>4, <2>1, FS_Singleton
  <1> QED BY <1>3, <1>4

LEMMA FunctionsWhole == CInv => FunctionsNotNested
PROOF
  <1> SUFFICES ASSUME CInv PROVE FunctionsNotNested
    OBVIOUS
  <1>1. TableOK(st) /\ LiveHeld(st) /\ ScopesMatch /\ Generated /\ inFunc \in BOOLEAN
    BY DEF CInv, Base, DataOK
  <1>2. PICK hf, ht, w, e, own : Code(func, text, work, labels, hf, ht, w, e, own) /\ inFunc = (e # 0)
    BY <1>1 DEF Generated
  <1>3. ASSUME status = "running"
        PROVE  /\ Depth(st) = IF inFunc THEN 2 ELSE 1
               /\ Cardinality({i \in DOMAIN work : work[i].do = "endfunc"}) = IF inFunc THEN 1 ELSE 0
    <2>1. Depth(st) = IF inFunc THEN 2 ELSE 1
      BY <1>1, <1>3 DEF ScopesMatch
    <2>2. Stack(work, w, e)
      BY <1>2 DEF Code
    <2>3. Cardinality({i \in DOMAIN work : work[i].do = "endfunc"}) = IF e # 0 THEN 1 ELSE 0
      BY <2>2, FunctionTaskCount
    <2> QED BY <1>2, <2>1, <2>3
  <1>4. ASSUME NEW i \in DOMAIN func
        PROVE  Cardinality({j \in FunctionStarts : j <= i}) - Cardinality({j \in Positions(func, "ret") : j < i}) = 1
    <2>1. Shape(func, hf) /\ hf[1] = Outside
      BY <1>2 DEF Code, Ends
    <2>2. func \in Seq(Instructions) /\ DOMAIN func = 1 .. Len(func) /\ Len(func) \in Nat
      BY <2>1 DEF Shape
    <2>3. {j \in FunctionStarts : j <= i} = StartsUpTo(func, i)
      BY <2>2 DEF FunctionStarts, Positions, IsCode, StartsUpTo
    <2>4. {j \in Positions(func, "ret") : j < i} = EndsUpTo(func, i - 1)
      BY <2>2 DEF Positions, IsCode, EndsUpTo
    <2>5. i \in 1 .. Len(func)
      BY <2>2
    <2> QED BY <2>1, <2>3, <2>4, <2>5, OneOpen
  <1>5. ASSUME status = "done" PROVE st.freed = DOMAIN st.infos
    <2>1. Depth(st) = 0
      BY <1>1, <1>5 DEF ScopesMatch
    <2>2. Ids(st) \ st.freed = {}
      BY <1>1, <2>1 DEF LiveHeld
    <2>3. st.freed \subseteq Ids(st) /\ Ids(st) = DOMAIN st.infos
      BY <1>1 DEF TableOK, Ids
    <2> QED BY <2>2, <2>3
  <1> QED BY <1>3, <1>4, <1>5 DEF FunctionsNotNested

\* Whatever a program defines inside what, a scope is open exactly while a function is
\* written, functions are written whole, one after the other, and at the end nothing of
\* the symbol table is left.
THEOREM NoFunctionInsideAnother == Spec => []FunctionsNotNested
PROOF
  <1> QED BY CodegenInvariant, FunctionsWhole, PTL

-----------------------------------------------------------------------------
(* Branches land *)

LEMMA LabelOwned ==
  ASSUME NEW fn, NEW tx, NEW wk, NEW lb, NEW own, Placed(fn, tx, wk, lb, own),
         NEW code, code \in {fn, tx}, NEW l \in LocalLabels, NEW i \in 1 .. Len(code), NEW j \in 1 .. Len(code),
         code[i] = <<"label", l>>, code[j] = <<"label", l>>
  PROVE  i = j
PROOF
  <1>1. CASE code = fn
    <2>1. own[l] = <<"func", i>> /\ own[l] = <<"func", j>>
      BY <1>1 DEF Placed
    <2> QED BY <2>1
  <1>2. CASE code = tx
    <2>1. own[l] = <<"text", i>> /\ own[l] = <<"text", j>>
      BY <1>2 DEF Placed
    <2> QED BY <2>1
  <1> QED BY <1>1, <1>2

LEMMA LandedLands ==
  ASSUME NEW code, NEW h, Shape(code, h), NEW i \in 1 .. Len(code), code[i][1] \in {"je", "jmp"},
         NEW j \in 1 .. Len(code), Landed(code, h, i, j, code[i][2]),
         \A k \in 1 .. Len(code) : code[k] = <<"label", code[i][2]>> => k = j
  PROVE  Lands(code, i)
PROOF
  <1>1. code \in Seq(Instructions) /\ DOMAIN code = 1 .. Len(code) /\ Len(code) \in Nat
    BY DEF Shape
  <1>2. /\ i < j /\ code[j] = <<"label", code[i][2]>> /\ \A k \in i .. j : h[k] \in Nat
    BY <1>1 DEF Landed
  <1>3. j \in Positions(code, "label") /\ code[j][2] = code[i][2]
    BY <1>1, <1>2 DEF Positions, IsCode
  <1>4. ASSUME NEW k \in Positions(code, "label"), code[k][2] = code[j][2] PROVE k = j
    <2>1. k \in 1 .. Len(code) /\ code[k] \in Instructions /\ code[k][1] = "label"
      BY <1>1 DEF Positions, IsCode
    <2>2. code[k] = <<"label", code[k][2]>>
      BY <2>1, LabelInstruction
    <2> QED BY <1>3, <1>4, <2>1, <2>2
  <1>5. ASSUME NEW k \in i .. j PROVE ~IsCode(code[k], "ret")
    <2>1. k \in 1 .. Len(code) /\ h[k] \in Nat
      BY <1>1, <1>2
    <2>2. code[k] \in Instructions /\ Moves(code[k], h[k], h[k + 1])
      BY <1>1, <2>1 DEF Shape
    <2>3. ASSUME code[k][1] = "ret" PROVE FALSE
      BY <2>1, <2>2, <2>3 DEF Moves, Outside, Entered, Saved, Left, Popped, Neutral, PushRax
    <2> QED BY <2>3 DEF IsCode
  <1> QED BY <1>2, <1>3, <1>4, <1>5 DEF Lands

LEMMA BranchesFollow == CInv => BranchesLand
PROOF
  <1> SUFFICES ASSUME CInv, status = "done", NEW code \in {func, text},
                      NEW i \in Positions(code, "je") \cup Positions(code, "jmp")
               PROVE  Lands(code, i)
    BY DEF BranchesLand
  <1>1. Generated /\ work = <<>>
    BY DEF CInv, Generated
  <1>2. PICK hf, ht, w, e, own : Code(func, text, work, labels, hf, ht, w, e, own)
    BY <1>1 DEF Generated
  <1>3. FuncTasks(work, e) = {} /\ MainTasks(work, e) = {}
    <2>1. \A d \in 1 .. Len(work) : FALSE
      BY <1>1
    <2> QED BY <2>1 DEF FuncTasks, MainTasks
  <1>4. PICK h : Shape(code, h) /\ Branched(code, h, work, w, {})
    BY <1>2, <1>3 DEF Code
  <1>5. Placed(func, text, work, labels, own)
    BY <1>2 DEF Code
  <1>6. code \in Seq(Instructions) /\ DOMAIN code = 1 .. Len(code)
    BY <1>4 DEF Shape
  <1>7. i \in 1 .. Len(code) /\ code[i] \in Instructions /\ code[i][1] \in {"je", "jmp"}
    BY <1>6 DEF Positions, IsCode
  <1>8. BranchTo(code[i], code[i][2]) /\ code[i][2] \in LocalLabels
    BY <1>7, BranchInstruction
  <1>9. PICK j \in 1 .. Len(code) : Landed(code, h, i, j, code[i][2])
    BY <1>4, <1>7, <1>8 DEF Branched
  <1>10. code[j] = <<"label", code[i][2]>>
    BY <1>9 DEF Landed
  <1>11. \A k \in 1 .. Len(code) : code[k] = <<"label", code[i][2]>> => k = j
    BY <1>5, <1>8, <1>10, LabelOwned
  <1> QED BY <1>4, <1>7, <1>9, <1>11, LandedLands

\* However conditionals and functions are nested, every branch has one label, ahead of
\* it in the same function.
THEOREM EveryBranchLands == Spec => []BranchesLand
PROOF
  <1> QED BY CodegenInvariant, BranchesFollow, PTL

-----------------------------------------------------------------------------
(* References: what the labels of the code stand for.  The argument is for *)
(* programs whose names make labels of their own, up to the current state: *)
(* then no function or global variable has been defined twice, and so no   *)
(* operator that is still to be called has been freed.                     *)

UserIds(infos)   == {i \in 1 .. Len(infos) : infos[i].kind = "user"}
GlobalIds(infos) == {i \in 7 .. Len(infos) : infos[i].kind = "global"}
NamedIds(infos)  == UserIds(infos) \cup GlobalIds(infos)

\* CleanNames, of the informations infos.
Clean(infos) ==
  \A a \in NamedIds(infos) :
    /\ \A i \in DOMAIN infos[a].name : infos[a].name[i] # "#"
    /\ GlobalLabel(infos[a].name) \notin {TrueLabel, NilLabel}
    /\ \A b \in NamedIds(infos) : a # b => Sanitize(infos[a].name) # Sanitize(infos[b].name)

\* The informations begin with those of the global scope, and the others have
\* the labels of their names.
InfosMade(infos) ==
  /\ Len(infos) \in Nat /\ Len(infos) >= 6
  /\ \A i \in 1 .. 6 : infos[i] = GlobalInfos[i]
  /\ \A i \in NamedIds(infos) : infos[i].name \in Names
  /\ \A i \in UserIds(infos) : infos[i].label = Mutate(FuncLabel(infos[i].name))
  /\ \A i \in GlobalIds(infos) : infos[i].label = Mutate(GlobalLabel(infos[i].name))

\* A scope maps a name to an information of that name; the scope of a function
\* holds local variables.
ScopesMade(t) ==
  /\ \A d \in 1 .. Depth(t) : \A n \in Names :
       t.scopes[d].map[n] # NoInfo => t.infos[t.scopes[d].map[n]].name = n
  /\ \A d \in 2 .. Depth(t) : \A n \in Names :
       t.scopes[d].map[n] # NoInfo => t.infos[t.scopes[d].map[n]].kind = "local"

\* A function ends below task d.
EndBelow(wk, d) == \E c \in 1 .. d - 1 : At(wk, c).do = "endfunc"

\* Global variables are defined in main, local ones and parameters in functions.
TasksMade(wk) ==
  \A d \in 1 .. Len(wk) :
    /\ At(wk, d).do = "global" => ~EndBelow(wk, d)
    /\ At(wk, d).do \in {"local", "param"} => EndBelow(wk, d)

\* No function has been freed.
FunctionsHeld(t) == \A i \in UserIds(t.infos) : i \notin t.freed

\* What instruction i refers to exists.
Resolved(i, infos, ro) ==
  /\ i[1] = "call" => i[2] \in Runtime \/ \E id \in UserIds(infos) : i[2] = FuncLabel(infos[id].name)
  /\ i[1] \in {"lea", "load", "store", "cmp"} =>
       \/ i[2] \in {TrueLabel, NilLabel}
       \/ \E id \in GlobalIds(infos) : i[2] = GlobalLabel(infos[id].name)
  /\ i[1] = "movsd" => \E k \in 1 .. Len(ro) : i[2] = ro[k][1]

AllResolved(code, infos, ro) == \A i \in 1 .. Len(code) : Resolved(code[i], infos, ro)

\* Every function has its label in the section of functions, once.
FunctionsPlaced(fn, infos) ==
  /\ \A id \in UserIds(infos) : \E j \in 1 .. Len(fn) : fn[j] = <<"label", FuncLabel(infos[id].name)>>
  /\ \A j \in 1 .. Len(fn) : \A l \in UserLabels : fn[j] = <<"label", l>> =>
       /\ \E id \in UserIds(infos) : l = FuncLabel(infos[id].name)
       /\ \A k \in 1 .. Len(fn) : fn[k] = <<"label", l>> => k = j

NoUserLabels(code) == \A j \in 1 .. Len(code) : \A l \in UserLabels : code[j] # <<"label", l>>

\* Every global variable has its label in the data section, once.
GlobalsPlaced(da, infos) ==
  /\ Len(da) \in Nat /\ Len(da) >= 2 /\ da[1] = TrueLabel /\ da[2] = NilLabel
  /\ \A id \in GlobalIds(infos) : \E j \in 3 .. Len(da) : da[j] = GlobalLabel(infos[id].name)
  /\ \A j \in 3 .. Len(da) :
       /\ \E id \in GlobalIds(infos) : da[j] = GlobalLabel(infos[id].name)
       /\ \A k \in 3 .. Len(da) : da[k] = da[j] => k = j

LiteralsPlaced(ro) == \A j \in 1 .. Len(ro) : \A k \in 1 .. Len(ro) : ro[k][1] = ro[j][1] => k = j

Resolvable(fn, tx, da, ro, infos) ==
  /\ AllResolved(fn, infos, ro) /\ AllResolved(tx, infos, ro)
  /\ FunctionsPlaced(fn, infos) /\ NoUserLabels(tx)
  /\ GlobalsPlaced(da, infos)

RInv ==
  /\ InfosMade(st.infos) /\ ScopesMade(st) /\ TasksMade(work) /\ LiteralsPlaced(rodata)
  /\ Clean(st.infos) =>
       /\ status # "done" => FunctionsHeld(st)
       /\ Resolvable(func, text, data, rodata, st.infos)

-----------------------------------------------------------------------------
(* Labels of clean names *)

\* Nothing in s has to be replaced in a label.
Plain(s) == \A i \in 1 .. Len(s) : s[i] \notin Punctuation \ {"_"}

LEMMA MutateNothing ==
  ASSUME NEW l \in Seq(LabelChars), Plain(l)
  PROVE  Mutate(l) = l
PROOF
  <1>1. l = [i \in DOMAIN l |-> l[i]] /\ DOMAIN l = 1 .. Len(l)
    OBVIOUS
  <1>2. \A i \in DOMAIN l : (IF l[i] \in Punctuation \ {"_"} THEN "_" ELSE l[i]) = l[i]
    BY <1>1 DEF Plain
  <1>3. Mutate(l) = [i \in DOMAIN l |-> l[i]]
    BY <1>2 DEF Mutate
  <1> QED BY <1>1, <1>3

LEMMA SanitizedChars ==
  ASSUME NEW n \in Names, \A i \in DOMAIN n : n[i] # "#"
  PROVE  Plain(Sanitize(n))
PROOF
  <1>1. DOMAIN Sanitize(n) = DOMAIN n
    BY DEF Sanitize
  <1>2. DOMAIN Sanitize(n) = 1 .. Len(Sanitize(n))
    BY NameChars
  <1>3. ASSUME NEW i \in DOMAIN n PROVE Sanitize(n)[i] \notin Punctuation \ {"_"}
    <2>1. Sanitize(n)[i] = IF n[i] \in Punctuation \ {"#"} THEN "_" ELSE n[i]
      BY DEF Sanitize
    <2> QED BY <2>1
  <1> QED BY <1>1, <1>2, <1>3 DEF Plain

LEMMA PlainPrefix ==
  ASSUME NEW p \in Seq(LabelChars), NEW s \in Seq(LabelChars), Plain(p), Plain(s)
  PROVE  Mutate(p \o s) = p \o s
PROOF
  <1>1. /\ p \o s \in Seq(LabelChars) /\ Len(p \o s) = Len(p) + Len(s)
        /\ \A i \in 1 .. Len(p) + Len(s) : (p \o s)[i] = IF i <= Len(p) THEN p[i] ELSE s[i - Len(p)]
    BY ConcatProperties
  <1>2. Len(p) \in Nat /\ Len(s) \in Nat
    OBVIOUS
  <1>3. ASSUME NEW i \in 1 .. Len(p) + Len(s) PROVE (p \o s)[i] \notin Punctuation \ {"_"}
    <2>1. CASE i <= Len(p)
      <3>1. i \in 1 .. Len(p)
        BY <1>2, <2>1
      <3> QED BY <1>1, <2>1, <3>1 DEF Plain
    <2>2. CASE ~(i <= Len(p))
      <3>1. i - Len(p) \in 1 .. Len(s)
        BY <1>2, <2>2
      <3> QED BY <1>1, <2>2, <3>1 DEF Plain
    <2> QED BY <2>1, <2>2
  <1>4. Plain(p \o s)
    BY <1>1, <1>3 DEF Plain
  <1> QED BY <1>1, <1>4, MutateNothing

LEMMA PlainPrefixes ==
  /\ GlobalPrefix \in Seq(LabelChars) /\ FuncPrefix \in Seq(LabelChars)
  /\ Plain(GlobalPrefix) /\ Plain(FuncPrefix)
PROOF
  <1>1. "G" \in LabelChars /\ "_" \in LabelChars /\ "user" \in LabelChars /\ "func" \in LabelChars
    BY DEF LabelChars
  <1>2. GlobalPrefix \in Seq(LabelChars)
    BY <1>1, TwoLong DEF GlobalPrefix
  <1>3. FuncPrefix \in Seq(LabelChars)
    BY <1>1, FourLong DEF FuncPrefix
  <1>4. "G" \notin Punctuation \ {"_"} /\ "_" \notin Punctuation \ {"_"} /\ "user" \notin Punctuation \ {"_"}
        /\ "func" \notin Punctuation \ {"_"}
    BY DEF Punctuation
  <1>5. Plain(GlobalPrefix)
    <2>1. Len(GlobalPrefix) = 2 /\ GlobalPrefix[1] = "G" /\ GlobalPrefix[2] = "_" /\ \A i \in 1 .. 2 : i = 1 \/ i = 2
      BY DEF GlobalPrefix
    <2> QED BY <1>4, <2>1 DEF Plain
  <1>6. Plain(FuncPrefix)
    <2>1. /\ Len(FuncPrefix) = 4 /\ FuncPrefix[1] = "user" /\ FuncPrefix[2] = "_"
          /\ FuncPrefix[3] = "func" /\ FuncPrefix[4] = "_"
          /\ \A i \in 1 .. 4 : i = 1 \/ i = 2 \/ i = 3 \/ i = 4
      BY DEF FuncPrefix
    <2> QED BY <1>4, <2>1 DEF Plain
  <1> QED BY <1>2, <1>3, <1>5, <1>6

LEMMA CleanLabels ==
  ASSUME NEW n \in Names, \A i \in DOMAIN n : n[i] # "#"
  PROVE  Mutate(GlobalLabel(n)) = GlobalLabel(n) /\ Mutate(FuncLabel(n)) = FuncLabel(n)
PROOF
  <1>1. Sanitize(n) \in Seq(LabelChars) /\ Plain(Sanitize(n))
    BY NameChars, SanitizedChars
  <1> QED BY <1>1, PlainPrefixes, PlainPrefix DEF GlobalLabel, FuncLabel

LEMMA LabelsDiffer ==
  ASSUME NEW n \in Names, NEW m \in Names
  PROVE  /\ GlobalLabel(n) = GlobalLabel(m) => Sanitize(n) = Sanitize(m)
         /\ FuncLabel(n) = FuncLabel(m) => Sanitize(n) = Sanitize(m)
PROOF
  <1>1. Sanitize(n) \in Seq(LabelChars) /\ Sanitize(m) \in Seq(LabelChars)
    BY NameChars
  <1> QED BY <1>1, PlainPrefixes, ConcatSimplifications DEF GlobalLabel, FuncLabel

-----------------------------------------------------------------------------
(* Longer lists of informations *)

LEMMA MoreInfos ==
  ASSUME NEW a, NEW b, Len(a) \in Nat, Len(b) \in Nat, Len(a) <= Len(b), \A i \in 1 .. Len(a) : b[i] = a[i]
  PROVE  /\ UserIds(a) \subseteq UserIds(b) /\ GlobalIds(a) \subseteq GlobalIds(b)
         /\ NamedIds(a) \subseteq NamedIds(b)
         /\ \A i \in NamedIds(a) : b[i] = a[i]
         /\ \A i \in UserIds(a) : b[i] = a[i]
         /\ \A i \in GlobalIds(a) : b[i] = a[i]
         /\ Clean(b) => Clean(a)
PROOF
  <1>1. UserIds(a) \subseteq UserIds(b) /\ GlobalIds(a) \subseteq GlobalIds(b)
    BY DEF UserIds, GlobalIds
  <1>2. NamedIds(a) \subseteq NamedIds(b)
    BY <1>1 DEF NamedIds
  <1>3. \A i \in NamedIds(a) : b[i] = a[i]
    BY DEF NamedIds, UserIds, GlobalIds
  <1>4. Clean(b) => Clean(a)
    BY <1>2, <1>3 DEF Clean
  <1> QED BY <1>1, <1>2, <1>3, <1>4 DEF NamedIds

\* One more information.
LEMMA OneMoreInfo ==
  ASSUME NEW a, NEW b, InfosMade(a), Len(b) = Len(a) + 1, \A i \in 1 .. Len(a) : b[i] = a[i]
  PROVE  /\ b[Len(b)].kind = "user" => UserIds(b) = UserIds(a) \cup {Len(b)} /\ GlobalIds(b) = GlobalIds(a)
         /\ b[Len(b)].kind = "global" => UserIds(b) = UserIds(a) /\ GlobalIds(b) = GlobalIds(a) \cup {Len(b)}
         /\ b[Len(b)].kind \notin {"user", "global"} => UserIds(b) = UserIds(a) /\ GlobalIds(b) = GlobalIds(a)
         /\ Len(b) \notin NamedIds(a)
PROOF
  <1>1. Len(a) \in Nat /\ Len(a) >= 6 /\ 1 .. Len(b) = 1 .. Len(a) \cup {Len(b)} /\ Len(b) \notin 1 .. Len(a)
    BY DEF InfosMade
  <1>2. 7 .. Len(b) = 7 .. Len(a) \cup {Len(b)} /\ Len(b) \notin 7 .. Len(a)
        /\ \A i \in 7 .. Len(a) : i \in 1 .. Len(a)
    BY <1>1
  <1> DEFINE n == Len(b)
             m == Len(a)
  <1> HIDE DEF n, m
  <1>3. UserIds(b) = {i \in 1 .. m \cup {n} : b[i].kind = "user"}
    BY <1>1 DEF UserIds, n, m
  <1>4. GlobalIds(b) = {i \in 7 .. m \cup {n} : b[i].kind = "global"}
    BY <1>2 DEF GlobalIds, n, m
  <1>5. UserIds(a) = {i \in 1 .. m : b[i].kind = "user"}
    BY DEF UserIds, n, m
  <1>6. GlobalIds(a) = {i \in 7 .. m : b[i].kind = "global"}
    BY <1>2 DEF GlobalIds, n, m
  <1>7. ASSUME b[n].kind = "user" PROVE UserIds(b) = UserIds(a) \cup {n} /\ GlobalIds(b) = GlobalIds(a)
    BY <1>3, <1>4, <1>5, <1>6, <1>7
  <1>8. ASSUME b[n].kind = "global" PROVE UserIds(b) = UserIds(a) /\ GlobalIds(b) = GlobalIds(a) \cup {n}
    BY <1>3, <1>4, <1>5, <1>6, <1>8
  <1>9. ASSUME b[n].kind \notin {"user", "global"} PROVE UserIds(b) = UserIds(a) /\ GlobalIds(b) = GlobalIds(a)
    BY <1>3, <1>4, <1>5, <1>6, <1>9
  <1>10. n \notin NamedIds(a)
    BY <1>1, <1>2, <1>5, <1>6 DEF NamedIds, n, m
  <1> QED BY <1>7, <1>8, <1>9, <1>10 DEF n

LEMMA StillResolved ==
  ASSUME NEW a, NEW b, Len(a) \in Nat, Len(b) \in Nat, Len(a) <= Len(b), \A i \in 1 .. Len(a) : b[i] = a[i],
         NEW ro, NEW ro1, Len(ro) \in Nat, Len(ro1) \in Nat, Len(ro) <= Len(ro1), \A i \in 1 .. Len(ro) : ro1[i] = ro[i],
         NEW x, Resolved(x, a, ro)
  PROVE  Resolved(x, b, ro1)
PROOF
  <1>1. /\ UserIds(a) \subseteq UserIds(b) /\ GlobalIds(a) \subseteq GlobalIds(b)
        /\ \A i \in UserIds(a) : b[i] = a[i]
        /\ \A i \in GlobalIds(a) : b[i] = a[i]
    BY MoreInfos
  <1>2. ASSUME x[1] = "call" PROVE x[2] \in Runtime \/ \E id \in UserIds(b) : x[2] = FuncLabel(b[id].name)
    BY <1>1, <1>2 DEF Resolved
  <1>3. ASSUME x[1] \in {"lea", "load", "store", "cmp"}
        PROVE  \/ x[2] \in {TrueLabel, NilLabel}
               \/ \E id \in GlobalIds(b) : x[2] = GlobalLabel(b[id].name)
    BY <1>1, <1>3 DEF Resolved
  <1>4. ASSUME x[1] = "movsd" PROVE \E k \in 1 .. Len(ro1) : x[2] = ro1[k][1]
    <2>1. PICK k \in 1 .. Len(ro) : x[2] = ro[k][1]
      BY <1>4 DEF Resolved
    <2>2. k \in 1 .. Len(ro1) /\ ro1[k] = ro[k]
      OBVIOUS
    <2> QED BY <2>1, <2>2
  <1> QED BY <1>2, <1>3, <1>4 DEF Resolved

-----------------------------------------------------------------------------
(* The symbol table holds functions and global variables outside, local    *)
(* variables inside functions                                              *)

LEMMA DefineScopes ==
  ASSUME NEW t, TableOK(t), LiveHeld(t), Depth(t) > 0, NEW info \in NewInfos, NEW t1, t1 = Define(t, info)
  PROVE  /\ Depth(t) \in Nat /\ Depth(t1) = Depth(t) /\ Len(t.infos) \in Nat
         /\ \A d \in 1 .. Depth(t) : \A n \in Names :
              t1.scopes[d].map[n] = IF d = Depth(t) /\ n = info.name THEN Len(t.infos) + 1 ELSE t.scopes[d].map[n]
         /\ t1.freed = t.freed \cup ({t.scopes[Depth(t)].map[info.name]} \ {NoInfo})
PROOF
  <1> DEFINE D == Depth(t)
             id == Len(t.infos) + 1
             offset == Current(t).offset + (IF info.kind = "local" THEN SlotSize ELSE 0)
             map == [t.scopes[D].map EXCEPT ![info.name] = id]
             scope == [map |-> map, offset |-> offset]
             old == t.scopes[D].map[info.name]
  <1>1. t.scopes \in Seq(ScopeSet) /\ t.infos \in Seq(InfoSet)
    BY DEF TableOK
  <1>2. D \in Nat \ {0} /\ D = Len(t.scopes) /\ D \in 1 .. D
    BY <1>1 DEF Depth
  <1>3. t.scopes[D] \in ScopeSet /\ Current(t) = t.scopes[D]
    BY <1>1, <1>2 DEF Current
  <1>4. \A n \in Names : map[n] = IF n = info.name THEN id ELSE t.scopes[D].map[n]
    BY <1>3 DEF ScopeSet
  <1>5. scope.map = map
    OBVIOUS
  <1>6. t1.scopes = [t.scopes EXCEPT ![D] = scope] /\ t1.freed = t.freed \cup ({old} \ {NoInfo})
    BY <1>2, <1>3 DEF Define
  <1> HIDE DEF scope, map, offset, id
  <1>7. \A d \in 1 .. D : t1.scopes[d] = IF d = D THEN scope ELSE t.scopes[d]
    BY <1>1, <1>2, <1>6
  <1>8. \A d \in 1 .. D : \A n \in Names :
          t1.scopes[d].map[n] = IF d = D /\ n = info.name THEN id ELSE t.scopes[d].map[n]
    BY <1>4, <1>5, <1>7
  <1>9. Depth(t1) = D
    BY DefineTable DEF Defined
  <1> QED BY <1>1, <1>2, <1>6, <1>8, <1>9 DEF id

\* What Define does to informations and scopes.
DefinedWell(t, info, t1) ==
  /\ InfosMade(t1.infos) /\ ScopesMade(t1)
  /\ Clean(t1.infos) => Clean(t.infos)
  /\ Clean(t1.infos) /\ FunctionsHeld(t) => FunctionsHeld(t1)

LEMMA DefineMade ==
  ASSUME NEW t, TableOK(t), LiveHeld(t), InfosMade(t.infos), ScopesMade(t), NEW info \in NewInfos,
         info.kind \in {"local", "user", "global"}, Depth(t) = (IF info.kind = "local" THEN 2 ELSE 1),
         info.kind = "user" => info.label = Mutate(FuncLabel(info.name)),
         info.kind = "global" => info.label = Mutate(GlobalLabel(info.name)),
         NEW t1, t1 = Define(t, info)
  PROVE  DefinedWell(t, info, t1)
PROOF
  <1> DEFINE n == Len(t.infos)
             x == t1.infos[n + 1]
             old == t.scopes[Depth(t)].map[info.name]
  <1>1. Depth(t) > 0 /\ Depth(t) \in 1 .. Depth(t) /\ info.name \in Names
    BY DEF NewInfos
  <1>2. Defined(t, info, t1)
    BY <1>1, DefineTable
  <1>3. /\ n \in Nat /\ Len(t1.infos) = n + 1 /\ \A i \in 1 .. n : t1.infos[i] = t.infos[i]
        /\ x.kind = info.kind /\ x.label = info.label /\ x.name = info.name /\ Depth(t1) = Depth(t)
    BY <1>2 DEF Defined, Ids, InfosMade
  <1>4. /\ \A d \in 1 .. Depth(t) : \A k \in Names :
             t1.scopes[d].map[k] = IF d = Depth(t) /\ k = info.name THEN n + 1 ELSE t.scopes[d].map[k]
        /\ t1.freed = t.freed \cup ({old} \ {NoInfo})
    BY <1>1, DefineScopes
  <1>5. \A d \in 1 .. Depth(t) : \A k \in Names : t.scopes[d].map[k] \in 1 .. n \cup {NoInfo}
    BY DEF TableOK, Ids
  <1>6. /\ x.kind = "user" => UserIds(t1.infos) = UserIds(t.infos) \cup {n + 1} /\ GlobalIds(t1.infos) = GlobalIds(t.infos)
        /\ x.kind = "global" => UserIds(t1.infos) = UserIds(t.infos) /\ GlobalIds(t1.infos) = GlobalIds(t.infos) \cup {n + 1}
        /\ x.kind \notin {"user", "global"} =>
             UserIds(t1.infos) = UserIds(t.infos) /\ GlobalIds(t1.infos) = GlobalIds(t.infos)
        /\ n + 1 \notin NamedIds(t.infos)
    <2>1. Len(t1.infos) = Len(t.infos) + 1 /\ \A i \in 1 .. Len(t.infos) : t1.infos[i] = t.infos[i]
      BY <1>3
    <2>2. x = t1.infos[Len(t1.infos)] /\ Len(t1.infos) = n + 1
      BY <1>3
    <2> HIDE DEF n, x
    <2> DEFINE b == t1.infos
               a == t.infos
    <2>3. InfosMade(a) /\ Len(b) = Len(a) + 1 /\ (\A i \in 1 .. Len(a) : b[i] = a[i]) /\ Len(b) = n + 1 /\ x = b[Len(b)]
      BY <2>1, <2>2
    <2> HIDE DEF a, b
    <2>4. /\ b[Len(b)].kind = "user" => UserIds(b) = UserIds(a) \cup {Len(b)} /\ GlobalIds(b) = GlobalIds(a)
          /\ b[Len(b)].kind = "global" => UserIds(b) = UserIds(a) /\ GlobalIds(b) = GlobalIds(a) \cup {Len(b)}
          /\ b[Len(b)].kind \notin {"user", "global"} => UserIds(b) = UserIds(a) /\ GlobalIds(b) = GlobalIds(a)
          /\ Len(b) \notin NamedIds(a)
      BY <2>3, OneMoreInfo, Zenon
    <2> QED BY <2>3, <2>4, Zenon DEF a, b
  <1>7. \A i \in NamedIds(t.infos) : t1.infos[i] = t.infos[i] /\ i \in 1 .. n
    BY <1>3 DEF NamedIds, UserIds, GlobalIds
  <1> HIDE DEF n, x, old
  <1>8. InfosMade(t1.infos)
    <2>1. Len(t1.infos) \in Nat /\ Len(t1.infos) >= 6 /\ \A i \in 1 .. 6 : t1.infos[i] = GlobalInfos[i]
      <3>1. n >= 6 /\ \A i \in 1 .. 6 : t.infos[i] = GlobalInfos[i]
        BY DEF InfosMade, n
      <3>2. n + 1 \in Nat /\ n + 1 >= 6 /\ \A i \in 1 .. 6 : i \in 1 .. n
        BY <1>3, <3>1
      <3> QED BY <1>3, <3>1, <3>2
    <2>2. \A i \in NamedIds(t1.infos) : i \in NamedIds(t.infos) \/ (i = n + 1 /\ x.kind = info.kind)
      BY <1>3, <1>6 DEF NamedIds
    <2>3. \A i \in NamedIds(t1.infos) : t1.infos[i].name \in Names
      BY <1>1, <1>3, <1>7, <2>2 DEF InfosMade, x
    <2>4. ASSUME NEW i \in UserIds(t1.infos) PROVE t1.infos[i].label = Mutate(FuncLabel(t1.infos[i].name))
      <3>1. CASE i \in UserIds(t.infos)
        BY <1>7, <3>1 DEF InfosMade, NamedIds
      <3>2. CASE i \notin UserIds(t.infos)
        <4>1. i = n + 1 /\ x.kind = "user"
          BY <1>3, <1>6, <3>2
        <4> QED BY <1>3, <4>1 DEF x
      <3> QED BY <3>1, <3>2
    <2>5. ASSUME NEW i \in GlobalIds(t1.infos) PROVE t1.infos[i].label = Mutate(GlobalLabel(t1.infos[i].name))
      <3>1. CASE i \in GlobalIds(t.infos)
        BY <1>7, <3>1 DEF InfosMade, NamedIds
      <3>2. CASE i \notin GlobalIds(t.infos)
        <4>1. i = n + 1 /\ x.kind = "global"
          BY <1>3, <1>6, <3>2
        <4> QED BY <1>3, <4>1 DEF x
      <3> QED BY <3>1, <3>2
    <2> QED BY <2>1, <2>3, <2>4, <2>5 DEF InfosMade
  <1>9. ScopesMade(t1)
    <2>1. ASSUME NEW d \in 1 .. Depth(t), NEW k \in Names, t1.scopes[d].map[k] # NoInfo
          PROVE  /\ t1.infos[t1.scopes[d].map[k]].name = k
                 /\ d \in 2 .. Depth(t) => t1.infos[t1.scopes[d].map[k]].kind = "local"
      <3>1. CASE d = Depth(t) /\ k = info.name
        <4>1. t1.scopes[d].map[k] = n + 1
          BY <1>4, <3>1
        <4>2. t1.infos[n + 1].name = k /\ t1.infos[n + 1].kind = info.kind
          BY <1>3, <3>1 DEF x
        <4>3. d \in 2 .. Depth(t) => info.kind = "local"
          BY <3>1
        <4> QED BY <4>1, <4>2, <4>3
      <3>2. CASE ~(d = Depth(t) /\ k = info.name)
        <4>1. t1.scopes[d].map[k] = t.scopes[d].map[k] /\ t.scopes[d].map[k] \in 1 .. n
          BY <1>4, <1>5, <2>1, <3>2
        <4>2. t1.infos[t1.scopes[d].map[k]] = t.infos[t.scopes[d].map[k]]
          BY <1>3, <4>1
        <4> QED BY <2>1, <4>1, <4>2 DEF ScopesMade
      <3> QED BY <3>1, <3>2
    <2>2. \A d \in 2 .. Depth(t) : d \in 1 .. Depth(t)
      OBVIOUS
    <2> QED BY <1>3, <2>1, <2>2 DEF ScopesMade
  <1>10. Clean(t1.infos) => Clean(t.infos)
    BY <1>3, MoreInfos DEF n
  <1>11. ASSUME Clean(t1.infos), FunctionsHeld(t) PROVE FunctionsHeld(t1)
    <2> SUFFICES ASSUME NEW i \in UserIds(t1.infos), i \in t1.freed PROVE FALSE
      BY DEF FunctionsHeld
    <2>1. n + 1 \notin t1.freed
      <3>1. \A j \in t.freed : j \in 1 .. n
        BY DEF TableOK, Ids, n
      <3>2. old \in 1 .. n \cup {NoInfo}
        BY <1>1, <1>5 DEF old
      <3>3. n + 1 \notin 1 .. n /\ n + 1 # NoInfo
        BY <1>3 DEF NoInfo
      <3> QED BY <1>4, <3>1, <3>2, <3>3
    <2>2. i \in UserIds(t.infos)
      BY <1>6, <2>1
    <2>3. i \notin t.freed
      BY <1>11, <2>2 DEF FunctionsHeld
    <2>4. i = old /\ old # NoInfo
      BY <1>4, <2>3
    <2>5. t.infos[i].name = info.name /\ t.infos[i].kind = "user"
      BY <1>1, <2>2, <2>4 DEF ScopesMade, UserIds, old
    <2>6. info.kind # "local"
      <3>1. ASSUME info.kind = "local" PROVE FALSE
        <4>1. Depth(t) = 2 /\ 2 \in 2 .. Depth(t)
          BY <3>1
        <4>2. t.infos[old].kind = "local"
          BY <1>1, <2>4, <4>1 DEF ScopesMade, old
        <4> QED BY <2>4, <2>5, <4>2
      <3> QED BY <3>1
    <2>7. n + 1 \in NamedIds(t1.infos) /\ i \in NamedIds(t1.infos) /\ i # n + 1
      BY <1>3, <1>6, <2>1, <2>2, <2>6 DEF NamedIds
    <2>8. t1.infos[i].name = t1.infos[n + 1].name
      BY <1>3, <1>7, <2>2, <2>5 DEF NamedIds, x
    <2> QED BY <1>11, <2>7, <2>8 DEF Clean
  <1> QED BY <1>8, <1>9, <1>10, <1>11 DEF DefinedWell

LEMMA ExitMade ==
  ASSUME NEW t, TableOK(t), LiveHeld(t), ScopesMade(t), Depth(t) = 2, NEW t1, t1 = ExitScope(t)
  PROVE  ScopesMade(t1) /\ t1.infos = t.infos /\ (FunctionsHeld(t) => FunctionsHeld(t1))
PROOF
  <1>1. t.scopes \in Seq(ScopeSet) /\ Len(t.scopes) = 2
    BY DEF TableOK, Depth
  <1>2. /\ t1.scopes = SubSeq(t.scopes, 1, Depth(t) - 1) /\ t1.freed = t.freed \cup Entries(Current(t))
        /\ t1.infos = t.infos
    BY DEF ExitScope
  <1>3. Depth(t1) = 1 /\ t1.scopes[1] = t.scopes[1] /\ Current(t) = t.scopes[2]
    BY <1>1, <1>2 DEF Depth, Current
  <1>4. ScopesMade(t1)
    <2>1. \A d \in 1 .. 1 : d = 1 /\ 1 \in 1 .. 2
      OBVIOUS
    <2>2. \A d \in 2 .. 1 : FALSE
      OBVIOUS
    <2> QED BY <1>2, <1>3, <2>1, <2>2 DEF ScopesMade
  <1>5. ASSUME FunctionsHeld(t), NEW i \in UserIds(t1.infos), i \in t1.freed PROVE FALSE
    <2>1. t.infos[i].kind = "user" /\ i \notin t.freed
      BY <1>2, <1>5 DEF FunctionsHeld, UserIds
    <2>2. PICK k \in Names : i = t.scopes[2].map[k] /\ i # NoInfo
      BY <1>2, <1>3, <1>5, <2>1 DEF Entries
    <2>3. 2 \in 2 .. Depth(t)
      OBVIOUS
    <2>4. t.infos[i].kind = "local"
      BY <2>2, <2>3 DEF ScopesMade
    <2> QED BY <2>1, <2>4
  <1> QED BY <1>2, <1>4, <1>5 DEF FunctionsHeld

LEMMA EnterMade ==
  ASSUME NEW t, TableOK(t), LiveHeld(t), ScopesMade(t), Depth(t) > 0, NEW t1, t1 = EnterScope(t)
  PROVE  ScopesMade(t1) /\ t1.infos = t.infos /\ t1.freed = t.freed
PROOF
  <1> DEFINE s == EmptyScope(Current(t).offset)
  <1>1. t.scopes \in Seq(ScopeSet) /\ Depth(t) = Len(t.scopes) /\ Depth(t) \in Nat
    BY DEF TableOK, Depth
  <1>2. t1.scopes = Append(t.scopes, s) /\ t1.infos = t.infos /\ t1.freed = t.freed
    BY DEF EnterScope
  <1>3. \A n \in Names : s.map[n] = NoInfo
    BY DEF EmptyScope
  <1> HIDE DEF s
  <1>4. /\ Depth(t1) = Depth(t) + 1
        /\ \A d \in 1 .. Depth(t) + 1 : t1.scopes[d] = IF d = Depth(t) + 1 THEN s ELSE t.scopes[d]
    BY <1>1, <1>2 DEF Depth
  <1>5. ASSUME NEW d \in 1 .. Depth(t) + 1, NEW n \in Names, t1.scopes[d].map[n] # NoInfo
        PROVE  d \in 1 .. Depth(t) /\ t1.scopes[d].map[n] = t.scopes[d].map[n]
    BY <1>1, <1>3, <1>4, <1>5
  <1>6. \A d \in 2 .. Depth(t) + 1 : d \in 1 .. Depth(t) + 1 /\ (d \in 1 .. Depth(t) => d \in 2 .. Depth(t))
    BY <1>1
  <1>7. ASSUME NEW d \in 1 .. Depth(t1), NEW n \in Names, t1.scopes[d].map[n] # NoInfo
        PROVE  t1.infos[t1.scopes[d].map[n]].name = n
    <2>1. d \in 1 .. Depth(t) /\ t1.scopes[d].map[n] = t.scopes[d].map[n]
      BY <1>4, <1>5, <1>7
    <2> QED BY <1>2, <1>7, <2>1 DEF ScopesMade
  <1>8. ASSUME NEW d \in 2 .. Depth(t1), NEW n \in Names, t1.scopes[d].map[n] # NoInfo
        PROVE  t1.infos[t1.scopes[d].map[n]].kind = "local"
    <2>1. d \in 1 .. Depth(t) /\ t1.scopes[d].map[n] = t.scopes[d].map[n]
      BY <1>4, <1>5, <1>6, <1>8
    <2>2. d \in 2 .. Depth(t)
      BY <1>4, <1>6, <2>1
    <2> QED BY <1>2, <1>8, <2>1, <2>2 DEF ScopesMade
  <1> QED BY <1>2, <1>7, <1>8 DEF ScopesMade

LEMMA DestroyMade ==
  ASSUME NEW t, TableOK(t), LiveHeld(t), NEW t1, t1 = DestroyTable(t)
  PROVE  ScopesMade(t1) /\ t1.infos = t.infos
PROOF
  <1>1. Depth(t1) = 0 /\ t1.infos = t.infos
    BY DestroyedTable
  <1>2. \A d \in 1 .. 0 : FALSE
    OBVIOUS
  <1>3. \A d \in 2 .. 0 : FALSE
    OBVIOUS
  <1> QED BY <1>1, <1>2, <1>3 DEF ScopesMade

-----------------------------------------------------------------------------
(* Where tasks are *)

\* Tasks ts may replace the task on top of wk.
Fits(wk, ts) ==
  \A i \in 1 .. Len(ts) :
    /\ ts[i].do = "global" => ~EndBelow(wk, Len(wk)) /\ \A j \in 1 .. Len(ts) : ts[j].do # "endfunc"
    /\ ts[i].do \in {"local", "param"} =>
         EndBelow(wk, Len(wk)) \/ \E j \in i + 1 .. Len(ts) : ts[j].do = "endfunc"

LEMMA TasksMadeAfter ==
  ASSUME NEW wk \in Seq(Tasks), wk # <<>>, TasksMade(wk), NEW ts \in Seq(Tasks), Fits(wk, ts),
         NEW wk1, wk1 = ts \o Tail(wk)
  PROVE  TasksMade(wk1)
PROOF
  <1> DEFINE n == Len(wk)
             m == Len(ts)
  <1>1. /\ m \in Nat /\ n \in Nat \ {0} /\ Len(wk1) = n - 1 + m
        /\ \A d \in 1 .. n - 1 : At(wk1, d) = At(wk, d)
        /\ \A i \in 1 .. m : At(wk1, n + m - i) = ts[i]
        /\ \A d \in 1 .. Len(wk1) : d \notin 1 .. n - 1 => \E i \in 1 .. m : d = n + m - i
    <2>1. ReplacesTop(wk, ts, wk1)
      BY TasksAfter
    <2>2. m \in Nat
      OBVIOUS
    <2> QED BY <2>1, <2>2 DEF ReplacesTop
  <1>8. m \in Nat /\ n \in Nat \ {0}
    BY <1>1
  <1> HIDE DEF n, m
  <1>2. ASSUME NEW d \in 1 .. n PROVE EndBelow(wk1, d) <=> EndBelow(wk, d)
    <2>1. \A c \in 1 .. d - 1 : At(wk1, c) = At(wk, c)
      BY <1>1
    <2> QED BY <2>1 DEF EndBelow
  <1>3. ASSUME NEW i \in 1 .. m, EndBelow(wk, n) PROVE EndBelow(wk1, n + m - i)
    <2>1. PICK c \in 1 .. n - 1 : At(wk, c).do = "endfunc"
      BY <1>3 DEF EndBelow
    <2>2. c \in 1 .. (n + m - i) - 1
      BY <1>8
    <2>3. At(wk1, c) = At(wk, c)
      BY <1>1
    <2> QED BY <2>1, <2>2, <2>3 DEF EndBelow
  <1>4. ASSUME NEW i \in 1 .. m, NEW j \in i + 1 .. m, ts[j].do = "endfunc" PROVE EndBelow(wk1, n + m - i)
    <2>1. n + m - j \in 1 .. (n + m - i) - 1 /\ j \in 1 .. m
      BY <1>8
    <2>2. At(wk1, n + m - j) = ts[j]
      BY <1>1, <2>1
    <2> QED BY <1>4, <2>1, <2>2 DEF EndBelow
  <1>5. ASSUME NEW i \in 1 .. m, EndBelow(wk1, n + m - i)
        PROVE  EndBelow(wk, n) \/ \E j \in 1 .. m : ts[j].do = "endfunc"
    <2>1. PICK c \in 1 .. (n + m - i) - 1 : At(wk1, c).do = "endfunc"
      BY <1>5 DEF EndBelow
    <2>2. CASE c \in 1 .. n - 1
      BY <1>1, <2>1, <2>2 DEF EndBelow
    <2>3. CASE c \notin 1 .. n - 1
      <3>1. c \in 1 .. Len(wk1)
        BY <1>1
      <3>2. PICK j \in 1 .. m : c = n + m - j
        BY <1>1, <2>3, <3>1
      <3> QED BY <1>1, <2>1, <3>2
    <2> QED BY <2>2, <2>3
  <1> SUFFICES ASSUME NEW d \in 1 .. Len(wk1)
               PROVE  /\ At(wk1, d).do = "global" => ~EndBelow(wk1, d)
                      /\ At(wk1, d).do \in {"local", "param"} => EndBelow(wk1, d)
    BY DEF TasksMade
  <1>6. CASE d \in 1 .. n - 1
    <2>1. d \in 1 .. n /\ d \in 1 .. Len(wk) /\ At(wk1, d) = At(wk, d)
      BY <1>1, <1>6 DEF n
    <2>2. EndBelow(wk1, d) <=> EndBelow(wk, d)
      BY <1>2, <2>1
    <2> QED BY <2>1, <2>2 DEF TasksMade
  <1>7. CASE d \notin 1 .. n - 1
    <2>1. PICK i \in 1 .. m : d = n + m - i
      BY <1>1, <1>7
    <2>2. At(wk1, d) = ts[i]
      BY <1>1, <2>1
    <2>3. /\ ts[i].do = "global" => ~EndBelow(wk, n) /\ \A j \in 1 .. m : ts[j].do # "endfunc"
          /\ ts[i].do \in {"local", "param"} =>
               EndBelow(wk, n) \/ \E j \in i + 1 .. m : ts[j].do = "endfunc"
      BY DEF Fits, n, m
    <2>4. ts[i].do = "global" => ~EndBelow(wk1, d)
      BY <1>5, <2>1, <2>3
    <2>5. ts[i].do \in {"local", "param"} => EndBelow(wk1, d)
      BY <1>3, <1>4, <2>1, <2>3
    <2> QED BY <2>2, <2>4, <2>5
  <1> QED BY <1>6, <1>7

LEMMA InFunction ==
  ASSUME Generated, inFunc \in BOOLEAN, status = "running", Task.do # "endfunc"
  PROVE  inFunc <=> EndBelow(work, Len(work))
PROOF
  <1>1. PICK hf, ht, w, e, own : Code(func, text, work, labels, hf, ht, w, e, own) /\ inFunc = (e # 0)
    BY DEF Generated
  <1>2. Stack(work, w, e)
    BY <1>1 DEF Code
  <1>3. work \in Seq(Tasks) /\ work # <<>>
    BY TopTask
  <1>4. Len(work) \in Nat \ {0} /\ Task = At(work, Len(work))
    BY <1>3, TaskOnTop DEF Task
  <1>5. (\A d \in 1 .. Len(work) : At(work, d).do = "endfunc" <=> d = e) /\ e \in {0} \cup 2 .. Len(work)
    BY <1>2 DEF Stack
  <1>6. e # Len(work)
    <2>1. Len(work) \in 1 .. Len(work)
      BY <1>4
    <2> QED BY <1>4, <1>5, <2>1
  <1>7. EndBelow(work, Len(work)) <=> e # 0
    <2>1. ASSUME e # 0 PROVE EndBelow(work, Len(work))
      <3>1. e \in 1 .. Len(work) - 1 /\ e \in 1 .. Len(work)
        BY <1>4, <1>5, <1>6, <2>1
      <3>2. At(work, e).do = "endfunc"
        BY <1>5, <3>1
      <3> QED BY <3>1, <3>2 DEF EndBelow
    <2>2. ASSUME EndBelow(work, Len(work)) PROVE e # 0
      <3>1. PICK c \in 1 .. Len(work) - 1 : At(work, c).do = "endfunc"
        BY <2>2 DEF EndBelow
      <3>2. c \in 1 .. Len(work) /\ c # 0
        BY <1>4
      <3> QED BY <1>5, <3>1, <3>2
    <2> QED BY <2>1, <2>2
  <1> QED BY <1>1, <1>7, Zenon

\* Where the task on top is tells which section is written.
LEMMA TaskPlace ==
  ASSUME CInv, TasksMade(work), status = "running"
  PROVE  /\ Task.do = "global" => ~inFunc /\ Depth(st) = 1
         /\ Task.do \in {"local", "param"} => inFunc /\ Depth(st) = 2
PROOF
  <1>1. Generated /\ inFunc \in BOOLEAN /\ Depth(st) = IF inFunc THEN 2 ELSE 1
    BY CInvFacts DEF DataOK
  <1>2. work \in Seq(Tasks) /\ work # <<>>
    BY <1>1, TopTask
  <1>3. Len(work) \in 1 .. Len(work) /\ Task = At(work, Len(work))
    BY <1>2, TaskOnTop DEF Task
  <1>4. /\ Task.do = "global" => ~EndBelow(work, Len(work))
        /\ Task.do \in {"local", "param"} => EndBelow(work, Len(work))
    BY <1>3 DEF TasksMade
  <1>5. Task.do # "endfunc" => (inFunc <=> EndBelow(work, Len(work)))
    BY <1>1, InFunction
  <1>6. Task.do = "global" => ~inFunc
    BY <1>4, <1>5
  <1>7. Task.do \in {"local", "param"} => inFunc
    BY <1>4, <1>5
  <1> QED BY <1>1, <1>6, <1>7

-----------------------------------------------------------------------------
(* What the sections refer to, when code and informations are added *)

\* b begins with a.
More(a, b) == Len(a) \in Nat /\ Len(b) \in Nat /\ Len(a) <= Len(b) /\ \A i \in 1 .. Len(a) : b[i] = a[i]

LEMMA MoreSame == ASSUME NEW a, Len(a) \in Nat PROVE More(a, a)
PROOF BY DEF More

LEMMA LongConcat ==
  ASSUME NEW S, NEW a \in Seq(S), NEW c \in Seq(S)
  PROVE  /\ Len(a) \in Nat /\ Len(c) \in Nat /\ a \o c \in Seq(S) /\ Len(a \o c) = Len(a) + Len(c)
         /\ \A i \in 1 .. Len(a) : (a \o c)[i] = a[i] /\ i \in 1 .. Len(a \o c)
         /\ \A i \in 1 .. Len(c) : (a \o c)[Len(a) + i] = c[i] /\ Len(a) + i \in 1 .. Len(a \o c)
         /\ \A i \in 1 .. Len(a \o c) : i \in 1 .. Len(a) \/ \E j \in 1 .. Len(c) : i = Len(a) + j
PROOF
  <1>1. /\ a \o c \in Seq(S) /\ Len(a \o c) = Len(a) + Len(c) /\ Len(a) \in Nat /\ Len(c) \in Nat
        /\ \A i \in 1 .. Len(a) + Len(c) : (a \o c)[i] = IF i <= Len(a) THEN a[i] ELSE c[i - Len(a)]
    BY ConcatProperties
  <1> DEFINE m == Len(a)
             n == Len(c)
  <1> HIDE DEF m, n
  <1>2. m \in Nat /\ n \in Nat
    BY <1>1 DEF m, n
  <1>3. ASSUME NEW i \in 1 .. m PROVE i \in 1 .. m + n /\ i <= m
    BY <1>2
  <1>4. ASSUME NEW i \in 1 .. n PROVE m + i \in 1 .. m + n /\ ~(m + i <= m) /\ (m + i) - m = i
    BY <1>2
  <1>5. ASSUME NEW i \in 1 .. m + n, i \notin 1 .. m PROVE \E j \in 1 .. n : i = m + j
    <2>1. i - m \in 1 .. n /\ i = m + (i - m)
      BY <1>2, <1>5
    <2> QED BY <2>1
  <1>6. \A i \in 1 .. m : (a \o c)[i] = a[i] /\ i \in 1 .. Len(a \o c)
    BY <1>1, <1>3 DEF m, n
  <1>7. \A i \in 1 .. n : (a \o c)[m + i] = c[i] /\ m + i \in 1 .. Len(a \o c)
    BY <1>1, <1>4 DEF m, n
  <1>8. \A i \in 1 .. Len(a \o c) : i \in 1 .. m \/ \E j \in 1 .. n : i = m + j
    BY <1>1, <1>5 DEF m, n
  <1> QED BY <1>1, <1>6, <1>7, <1>8 DEF m, n

LEMMA ResolvedConcat ==
  ASSUME NEW a \in Seq(Instructions), NEW c \in Seq(Instructions), NEW infos, NEW ro,
         AllResolved(a, infos, ro), AllResolved(c, infos, ro)
  PROVE  AllResolved(a \o c, infos, ro)
PROOF
  <1> SUFFICES ASSUME NEW i \in 1 .. Len(a \o c) PROVE Resolved((a \o c)[i], infos, ro)
    BY DEF AllResolved
  <1>1. CASE i \in 1 .. Len(a)
    BY <1>1, LongConcat DEF AllResolved
  <1>2. CASE i \notin 1 .. Len(a)
    <2>1. PICK j \in 1 .. Len(c) : i = Len(a) + j
      BY <1>2, LongConcat
    <2>2. (a \o c)[i] = c[j]
      BY <2>1, LongConcat
    <2> QED BY <2>2 DEF AllResolved
  <1> QED BY <1>1, <1>2

LEMMA NoUserConcat ==
  ASSUME NEW a \in Seq(Instructions), NEW c \in Seq(Instructions), NoUserLabels(a), NoUserLabels(c)
  PROVE  NoUserLabels(a \o c)
PROOF
  <1> SUFFICES ASSUME NEW i \in 1 .. Len(a \o c), NEW l \in UserLabels PROVE (a \o c)[i] # <<"label", l>>
    BY DEF NoUserLabels
  <1>1. CASE i \in 1 .. Len(a)
    BY <1>1, LongConcat DEF NoUserLabels
  <1>2. CASE i \notin 1 .. Len(a)
    <2>1. PICK j \in 1 .. Len(c) : i = Len(a) + j
      BY <1>2, LongConcat
    <2>2. (a \o c)[i] = c[j]
      BY <2>1, LongConcat
    <2> QED BY <2>2 DEF NoUserLabels
  <1> QED BY <1>1, <1>2

LEMMA FunctionsStay ==
  ASSUME NEW a \in Seq(Instructions), NEW c \in Seq(Instructions), NEW infos, FunctionsPlaced(a, infos), NoUserLabels(c)
  PROVE  FunctionsPlaced(a \o c, infos)
PROOF
  <1>1. ASSUME NEW id \in UserIds(infos)
        PROVE  \E j \in 1 .. Len(a \o c) : (a \o c)[j] = <<"label", FuncLabel(infos[id].name)>>
    <2>1. PICK j \in 1 .. Len(a) : a[j] = <<"label", FuncLabel(infos[id].name)>>
      BY DEF FunctionsPlaced
    <2>2. (a \o c)[j] = a[j] /\ j \in 1 .. Len(a \o c)
      BY LongConcat
    <2> QED BY <2>1, <2>2
  <1>2. ASSUME NEW j \in 1 .. Len(a \o c), NEW l \in UserLabels, (a \o c)[j] = <<"label", l>>
        PROVE  j \in 1 .. Len(a) /\ a[j] = <<"label", l>>
    <2>1. CASE j \in 1 .. Len(a)
      BY <1>2, <2>1, LongConcat
    <2>2. CASE j \notin 1 .. Len(a)
      <3>1. PICK k \in 1 .. Len(c) : j = Len(a) + k
        BY <2>2, LongConcat
      <3>2. (a \o c)[j] = c[k]
        BY <3>1, LongConcat
      <3> QED BY <1>2, <3>2 DEF NoUserLabels
    <2> QED BY <2>1, <2>2
  <1>3. ASSUME NEW j \in 1 .. Len(a \o c), NEW l \in UserLabels, (a \o c)[j] = <<"label", l>>
        PROVE  /\ \E id \in UserIds(infos) : l = FuncLabel(infos[id].name)
               /\ \A k \in 1 .. Len(a \o c) : (a \o c)[k] = <<"label", l>> => k = j
    BY <1>2, <1>3 DEF FunctionsPlaced
  <1> QED BY <1>1, <1>3 DEF FunctionsPlaced

LEMMA AllStillResolved ==
  ASSUME NEW a, NEW b, More(a, b), NEW ro, NEW ro1, More(ro, ro1), NEW c, AllResolved(c, a, ro)
  PROVE  AllResolved(c, b, ro1)
PROOF
  <1> SUFFICES ASSUME NEW i \in 1 .. Len(c) PROVE Resolved(c[i], b, ro1)
    BY DEF AllResolved
  <1>1. Resolved(c[i], a, ro)
    BY DEF AllResolved
  <1> QED BY <1>1, StillResolved DEF More

\* The same functions and global variables as before.
LEMMA ResolvableMore ==
  ASSUME NEW a, NEW b, More(a, b), UserIds(b) = UserIds(a), GlobalIds(b) = GlobalIds(a),
         NEW ro, NEW ro1, More(ro, ro1), NEW fn, NEW tx, NEW da, Resolvable(fn, tx, da, ro, a)
  PROVE  Resolvable(fn, tx, da, ro1, b)
PROOF
  <1>1. AllResolved(fn, b, ro1) /\ AllResolved(tx, b, ro1)
    BY AllStillResolved DEF Resolvable
  <1>2. \A i \in UserIds(a) \cup GlobalIds(a) : b[i] = a[i]
    BY DEF More, UserIds, GlobalIds
  <1>3. FunctionsPlaced(fn, b)
    BY <1>2 DEF Resolvable, FunctionsPlaced
  <1>4. GlobalsPlaced(da, b)
    BY <1>2 DEF Resolvable, GlobalsPlaced
  <1> QED BY <1>1, <1>3, <1>4 DEF Resolvable

\* One more global variable.
LEMMA ResolvableGlobal ==
  ASSUME NEW a, NEW b, More(a, b), NEW n, n \notin NamedIds(a), UserIds(b) = UserIds(a),
         GlobalIds(b) = GlobalIds(a) \cup {n}, InfosMade(b), Clean(b),
         NEW ro, Len(ro) \in Nat, NEW fn, NEW tx, NEW da \in Seq(DataLabels), Resolvable(fn, tx, da, ro, a),
         NEW da1, da1 = Append(da, GlobalLabel(b[n].name)), GlobalLabel(b[n].name) \in DataLabels
  PROVE  Resolvable(fn, tx, da1, ro, b)
PROOF
  <1> DEFINE l == GlobalLabel(b[n].name)
             m == Len(da)
  <1>1. AllResolved(fn, b, ro) /\ AllResolved(tx, b, ro)
    BY MoreSame, AllStillResolved DEF Resolvable
  <1>2. \A i \in UserIds(a) \cup GlobalIds(a) : b[i] = a[i]
    BY DEF More, UserIds, GlobalIds
  <1>3. FunctionsPlaced(fn, b)
    BY <1>2 DEF Resolvable, FunctionsPlaced
  <1>4. GlobalsPlaced(da, a)
    BY DEF Resolvable
  <1>5. m \in Nat /\ m >= 2 /\ Len(da1) = m + 1 /\ da1[m + 1] = l /\ \A i \in 1 .. m : da1[i] = da[i]
    BY <1>4 DEF GlobalsPlaced
  <1>6. ASSUME NEW j \in 3 .. m PROVE da[j] # l
    <2>1. PICK id \in GlobalIds(a) : da[j] = GlobalLabel(a[id].name)
      BY <1>4 DEF GlobalsPlaced
    <2>2. id # n /\ id \in NamedIds(b) /\ n \in NamedIds(b) /\ b[id] = a[id]
      BY <1>2 DEF NamedIds
    <2>3. b[id].name \in Names /\ b[n].name \in Names /\ Sanitize(b[id].name) # Sanitize(b[n].name)
      BY <2>2 DEF Clean, InfosMade
    <2> QED BY <2>1, <2>2, <2>3, LabelsDiffer
  <1> HIDE DEF m, l
  <1>7. /\ m + 1 \in 3 .. m + 1 /\ \A j \in 3 .. m : j \in 1 .. m /\ j \in 3 .. m + 1
        /\ \A j \in 3 .. m + 1 : j \in 3 .. m \/ j = m + 1
    BY <1>5
  <1>8. da1[1] = TrueLabel /\ da1[2] = NilLabel /\ Len(da1) \in Nat /\ Len(da1) >= 2
    <2>1. 1 \in 1 .. m /\ 2 \in 1 .. m /\ m + 1 \in Nat /\ m + 1 >= 2
      BY <1>5
    <2> QED BY <1>4, <1>5, <2>1 DEF GlobalsPlaced
  <1>9. ASSUME NEW id \in GlobalIds(b) PROVE \E j \in 3 .. m + 1 : da1[j] = GlobalLabel(b[id].name)
    <2>1. CASE id = n
      BY <1>5, <1>7, <2>1 DEF l
    <2>2. CASE id # n
      <3>1. id \in GlobalIds(a) /\ b[id] = a[id]
        BY <1>2, <2>2
      <3>2. PICK j \in 3 .. m : da[j] = GlobalLabel(a[id].name)
        BY <1>4, <3>1 DEF GlobalsPlaced, m
      <3> QED BY <1>5, <1>7, <3>1, <3>2
    <2> QED BY <2>1, <2>2
  <1>10. ASSUME NEW j \in 3 .. m + 1 PROVE \E id \in GlobalIds(b) : da1[j] = GlobalLabel(b[id].name)
    <2>1. CASE j = m + 1
      BY <1>5, <2>1 DEF l
    <2>2. CASE j # m + 1
      <3>1. j \in 3 .. m /\ da1[j] = da[j]
        BY <1>5, <1>7, <2>2
      <3>2. PICK id \in GlobalIds(a) : da[j] = GlobalLabel(a[id].name)
        BY <1>4, <3>1 DEF GlobalsPlaced, m
      <3> QED BY <1>2, <3>1, <3>2
    <2> QED BY <2>1, <2>2
  <1>11. ASSUME NEW j \in 3 .. m + 1, NEW k \in 3 .. m + 1, da1[k] = da1[j] PROVE k = j
    <2>1. \A i \in 3 .. m : da1[i] = da[i] /\ da1[i] # l
      BY <1>5, <1>6, <1>7 DEF m
    <2>2. \A i, o \in 3 .. m : da[o] = da[i] => o = i
      BY <1>4 DEF GlobalsPlaced, m
    <2> QED BY <1>5, <1>7, <1>11, <2>1, <2>2
  <1>12. GlobalsPlaced(da1, b)
    BY <1>5, <1>8, <1>9, <1>10, <1>11 DEF GlobalsPlaced
  <1>13. NoUserLabels(tx)
    BY DEF Resolvable
  <1> QED BY <1>1, <1>3, <1>12, <1>13 DEF Resolvable

\* The code c is the beginning of the function with label l.
Begins(c, l) ==
  /\ Len(c) > 0 /\ c[1] = <<"label", l>>
  /\ \A i \in 1 .. Len(c) : \A m \in UserLabels : c[i] = <<"label", m>> => i = 1

\* One more function.
LEMMA ResolvableUser ==
  ASSUME NEW a, NEW b, More(a, b), NEW n, n \notin NamedIds(a), UserIds(b) = UserIds(a) \cup {n},
         GlobalIds(b) = GlobalIds(a), InfosMade(b), Clean(b),
         NEW ro, Len(ro) \in Nat, NEW fn \in Seq(Instructions), NEW tx, NEW da, Resolvable(fn, tx, da, ro, a),
         NEW c \in Seq(Instructions), Begins(c, FuncLabel(b[n].name)), AllResolved(c, b, ro)
  PROVE  Resolvable(fn \o c, tx, da, ro, b)
PROOF
  <1> DEFINE l == FuncLabel(b[n].name)
             m == Len(fn)
             f == fn \o c
  <1>1. AllResolved(fn, b, ro) /\ AllResolved(tx, b, ro)
    BY MoreSame, AllStillResolved DEF Resolvable
  <1>2. \A i \in UserIds(a) \cup GlobalIds(a) : b[i] = a[i]
    BY DEF More, UserIds, GlobalIds
  <1>3. AllResolved(f, b, ro)
    BY <1>1, ResolvedConcat
  <1>4. GlobalsPlaced(da, b)
    BY <1>2 DEF Resolvable, GlobalsPlaced
  <1>5. FunctionsPlaced(fn, a)
    BY DEF Resolvable
  <1>6. /\ m \in Nat /\ Len(c) \in Nat
        /\ \A i \in 1 .. m : f[i] = fn[i] /\ i \in 1 .. Len(f)
        /\ \A i \in 1 .. Len(c) : f[m + i] = c[i] /\ m + i \in 1 .. Len(f)
        /\ \A i \in 1 .. Len(f) : i \in 1 .. m \/ \E j \in 1 .. Len(c) : i = m + j
    BY LongConcat
  <1>7. n \in NamedIds(b) /\ b[n].name \in Names
    BY DEF NamedIds, InfosMade
  <1>8. l \in UserLabels
    BY <1>7, MadeLabels
  <1> HIDE DEF f
  <1>9. ASSUME NEW j \in 1 .. m PROVE fn[j] # <<"label", l>>
    <2>1. ASSUME fn[j] = <<"label", l>> PROVE FALSE
      <3>1. PICK id \in UserIds(a) : l = FuncLabel(a[id].name)
        BY <1>5, <1>8, <2>1 DEF FunctionsPlaced
      <3>2. id # n /\ id \in NamedIds(b) /\ b[id] = a[id]
        BY <1>2 DEF NamedIds
      <3>3. b[id].name \in Names /\ Sanitize(b[id].name) # Sanitize(b[n].name)
        BY <1>7, <3>2 DEF Clean, InfosMade
      <3> QED BY <1>7, <3>1, <3>2, <3>3, LabelsDiffer
    <2> QED BY <2>1
  <1> HIDE DEF l, m
  <1>10. 1 \in 1 .. Len(c) /\ f[m + 1] = <<"label", l>> /\ m + 1 \in 1 .. Len(f)
    <2>1. 1 \in 1 .. Len(c) /\ c[1] = <<"label", l>>
      BY <1>6 DEF Begins, l
    <2> QED BY <1>6, <2>1
  <1>11. ASSUME NEW j \in 1 .. Len(f), NEW x \in UserLabels, f[j] = <<"label", x>>
         PROVE  (j \in 1 .. m /\ fn[j] = <<"label", x>>) \/ (j = m + 1 /\ x = l)
    <2>1. CASE j \in 1 .. m
      BY <1>6, <1>11, <2>1
    <2>2. CASE j \notin 1 .. m
      <3>1. PICK k \in 1 .. Len(c) : j = m + k
        BY <1>6, <2>2
      <3>2. c[k] = <<"label", x>>
        BY <1>6, <1>11, <3>1
      <3>3. k = 1
        BY <3>2 DEF Begins
      <3>4. <<"label", x>> = <<"label", l>>
        BY <1>10, <1>11, <3>1, <3>3
      <3> QED BY <3>1, <3>3, <3>4
    <2> QED BY <2>1, <2>2
  <1>12. ASSUME NEW id \in UserIds(b) PROVE \E j \in 1 .. Len(f) : f[j] = <<"label", FuncLabel(b[id].name)>>
    <2>1. CASE id = n
      BY <1>10, <2>1 DEF l
    <2>2. CASE id # n
      <3>1. id \in UserIds(a) /\ b[id] = a[id]
        BY <1>2, <2>2
      <3>2. PICK j \in 1 .. m : fn[j] = <<"label", FuncLabel(a[id].name)>>
        BY <1>5, <3>1 DEF FunctionsPlaced, m
      <3> QED BY <1>6, <3>1, <3>2
    <2> QED BY <2>1, <2>2
  <1>13. ASSUME NEW j \in 1 .. Len(f), NEW x \in UserLabels, f[j] = <<"label", x>>
         PROVE  /\ \E id \in UserIds(b) : x = FuncLabel(b[id].name)
                /\ \A k \in 1 .. Len(f) : f[k] = <<"label", x>> => k = j
    <2>1. CASE j \in 1 .. m /\ fn[j] = <<"label", x>>
      <3>1. PICK id \in UserIds(a) : x = FuncLabel(a[id].name)
        BY <1>5, <2>1 DEF FunctionsPlaced, m
      <3>2. id \in UserIds(b) /\ b[id] = a[id]
        BY <1>2
      <3>3. x # l
        BY <1>9, <2>1 DEF m
      <3>4. \A k \in 1 .. m : fn[k] = <<"label", x>> => k = j
        BY <1>5, <2>1 DEF FunctionsPlaced, m
      <3>5. \A k \in 1 .. Len(f) : f[k] = <<"label", x>> => k = j
        BY <1>11, <3>3, <3>4
      <3> QED BY <3>1, <3>2, <3>5
    <2>2. CASE j = m + 1 /\ x = l
      <3>1. \A k \in 1 .. Len(f) : f[k] = <<"label", x>> => k = j
        BY <1>9, <1>11, <2>2 DEF m
      <3>2. n \in UserIds(b) /\ x = FuncLabel(b[n].name)
        BY <2>2 DEF l
      <3> QED BY <3>1, <3>2
    <2> QED BY <1>11, <1>13, <2>1, <2>2
  <1>14. FunctionsPlaced(f, b)
    BY <1>12, <1>13 DEF FunctionsPlaced
  <1>15. NoUserLabels(tx)
    BY DEF Resolvable
  <1> QED BY <1>1, <1>3, <1>4, <1>14, <1>15 DEF Resolvable, f

-----------------------------------------------------------------------------
(* Every step keeps what the labels stand for *)

\* What a step that writes c does to the symbol table and the data.
Refers(t, t1, c, da1, ro1) ==
  /\ InfosMade(t1.infos) /\ ScopesMade(t1) /\ LiteralsPlaced(ro1)
  /\ Clean(t1.infos) => Clean(t.infos)
  /\ Clean(t1.infos) /\ FunctionsHeld(t) => FunctionsHeld(t1) /\ AllResolved(c, t1.infos, ro1)

LEMMA RefersStep ==
  ASSUME CInv, RInv, status = "running", status' = status, NEW c \in Seq(Instructions), NoUserLabels(c), Writes(c),
         NEW ts \in Seq(Tasks), Then(ts), Fits(work, ts), Refers(st, st', c, data', rodata'),
         Clean(st'.infos) /\ FunctionsHeld(st) /\ Resolvable(func, text, data, rodata, st.infos) =>
           Resolvable(func, text, data', rodata', st'.infos)
  PROVE  RInv'
PROOF
  <1>1. work \in Seq(Tasks) /\ work # <<>> /\ func \in Seq(Instructions) /\ text \in Seq(Instructions)
    <2>1. Generated
      BY DEF CInv
    <2>2. func \in Seq(Instructions) /\ text \in Seq(Instructions)
      BY <2>1 DEF Generated, Code, Shape
    <2> QED BY <2>1, <2>2, TopTask
  <1>2. TasksMade(work')
    BY <1>1, TasksMadeAfter DEF RInv, Then
  <1>3. InfosMade(st'.infos) /\ ScopesMade(st') /\ LiteralsPlaced(rodata')
    BY DEF Refers
  <1>4. ASSUME Clean(st'.infos)
        PROVE  FunctionsHeld(st') /\ Resolvable(func', text', data', rodata', st'.infos)
    <2>1. FunctionsHeld(st) /\ Resolvable(func, text, data, rodata, st.infos)
      BY <1>4 DEF Refers, RInv
    <2>2. FunctionsHeld(st') /\ AllResolved(c, st'.infos, rodata')
      BY <1>4, <2>1 DEF Refers
    <2>3. Resolvable(func, text, data', rodata', st'.infos)
      BY <1>4, <2>1
    <2>4. CASE inFunc
      <3>1. func' = func \o c /\ text' = text
        BY <2>4 DEF Writes
      <3>2. AllResolved(func \o c, st'.infos, rodata') /\ FunctionsPlaced(func \o c, st'.infos)
        BY <1>1, <2>2, <2>3, ResolvedConcat, FunctionsStay DEF Resolvable
      <3> QED BY <2>2, <2>3, <3>1, <3>2 DEF Resolvable
    <2>5. CASE ~inFunc
      <3>1. func' = func /\ text' = text \o c
        BY <2>5 DEF Writes
      <3>2. AllResolved(text \o c, st'.infos, rodata') /\ NoUserLabels(text \o c)
        BY <1>1, <2>2, <2>3, ResolvedConcat, NoUserConcat DEF Resolvable
      <3> QED BY <2>2, <2>3, <3>1, <3>2 DEF Resolvable
    <2> QED BY <2>4, <2>5
  <1> QED BY <1>2, <1>3, <1>4 DEF RInv

\* Steps that leave the symbol table and the data alone.
LEMMA WriteRefers ==
  ASSUME CInv, RInv, status = "running", UNCHANGED <<st, rodata, data, status>>,
         NEW c \in Seq(Instructions), NoUserLabels(c), Writes(c),
         NEW ts \in Seq(Tasks), Then(ts), Fits(work, ts),
         Clean(st.infos) /\ FunctionsHeld(st) => AllResolved(c, st.infos, rodata)
  PROVE  RInv'
PROOF
  <1>1. Refers(st, st', c, data', rodata')
    BY DEF Refers, RInv
  <1>2. Clean(st'.infos) /\ FunctionsHeld(st) /\ Resolvable(func, text, data, rodata, st.infos) =>
          Resolvable(func, text, data', rodata', st'.infos)
    OBVIOUS
  <1> QED BY <1>1, <1>2, RefersStep

\* Tasks that write to no place of their own.
LEMMA FitsAnywhere ==
  ASSUME NEW wk, NEW ts, \A i \in 1 .. Len(ts) : ts[i].do \notin {"global", "local", "param"}
  PROVE  Fits(wk, ts)
PROOF BY DEF Fits

LEMMA FitsNone == ASSUME NEW wk PROVE Fits(wk, <<>>)
PROOF
  <1>1. \A i \in 1 .. Len(<<>>) : FALSE
    OBVIOUS
  <1> QED BY <1>1 DEF Fits

\* Instructions that refer to nothing, or to a constant.
Fixed(x) ==
  \/ x[1] \notin {"call", "lea", "load", "store", "cmp", "movsd", "label"}
  \/ x[1] = "label" /\ x[2] \in LocalLabels \cup {MainLabel}
  \/ x[1] \in {"lea", "cmp"} /\ x[2] \in {TrueLabel, NilLabel}
  \/ x[1] = "call" /\ x[2] \in Runtime

LEMMA FixedCode ==
  ASSUME NEW c, \A i \in 1 .. Len(c) : Fixed(c[i])
  PROVE  NoUserLabels(c) /\ \A infos, ro : AllResolved(c, infos, ro)
PROOF
  <1>1. ASSUME NEW i \in 1 .. Len(c), NEW infos, NEW ro PROVE Resolved(c[i], infos, ro)
    BY DEF Fixed, Resolved
  <1>2. \A l \in UserLabels : l \notin LocalLabels \cup {MainLabel}
    <2>1. \A l \in UserLabels : l[1] = "user"
      BY DEF UserLabels
    <2>2. \A l \in LocalLabels : l[1] # "user"
      BY DEF LocalLabels
    <2>3. MainLabel[1] # "user"
      BY DEF MainLabel
    <2> QED BY <2>1, <2>2, <2>3
  <1>3. ASSUME NEW i \in 1 .. Len(c), NEW l \in UserLabels PROVE c[i] # <<"label", l>>
    BY <1>2 DEF Fixed
  <1> QED BY <1>1, <1>3 DEF NoUserLabels, AllResolved

\* Steps that only start something.
LEMMA StartRefers ==
  ASSUME CInv, RInv, status = "running", UNCHANGED <<st, sections, inFunc, status>>,
         NEW ts \in Seq(Tasks), Then(ts), Fits(work, ts)
  PROVE  RInv'
PROOF
  <1>1. <<>> \in Seq(Instructions) /\ \A i \in 1 .. Len(<<>>) : FALSE
    OBVIOUS
  <1>2. NoUserLabels(<<>>) /\ \A infos, ro : AllResolved(<<>>, infos, ro)
    BY <1>1, FixedCode
  <1>3. Writes(<<>>)
    BY NothingWritten DEF CInv, sections
  <1>4. UNCHANGED <<st, rodata, data, status>>
    BY DEF sections
  <1> QED BY <1>1, <1>2, <1>3, <1>4, WriteRefers

\* Where the task on top is, before it does something.
LEMMA ExprPlace ==
  ASSUME CInv, status = "running", Task.do # "endfunc"
  PROVE  EndBelow(work, Len(work)) <=> Depth(st) # 1
PROOF
  <1>1. Generated /\ inFunc \in BOOLEAN /\ Depth(st) = (IF inFunc THEN 2 ELSE 1)
    BY CInvFacts DEF DataOK
  <1>2. inFunc <=> EndBelow(work, Len(work))
    BY <1>1, InFunction
  <1> QED BY <1>1, <1>2

LEMMA StartGlobalRefers == CInv /\ RInv /\ StartGlobal => RInv'
PROOF
  <1> SUFFICES ASSUME CInv, RInv, StartGlobal PROVE RInv'
    OBVIOUS
  <1> DEFINE x == Expr(Task.e.es[3])
             y == Emitted(<<PushRax>>)
             z == [do |-> "global", name |-> Task.e.es[2]]
  <1>1. /\ status = "running" /\ Task.do = "expr" /\ DefinesVariable(Task.e) /\ Then(<<x, y, z>>)
        /\ UNCHANGED <<program, st, sections, inFunc, labels, status>> /\ Depth(st) = 1
    BY DEF StartGlobal, Doing
  <1>2. TableOK(st) /\ Task \in Tasks
    BY <1>1, CInvFacts
  <1>3. Task.e.es[2] \in Exprs /\ Task.e.es[3] \in Exprs
    <2>1. Task.e \in Exprs
      BY <1>1, <1>2 DEF Tasks
    <2>2. OpKind(Task.e) = "special" /\ Len(Task.e.es) >= 3
      BY <1>1 DEF DefinesVariable, IsDefine, IsForm
    <2>3. Len(Task.e.es) \in Nat /\ \A i \in 1 .. Len(Task.e.es) : Task.e.es[i] \in Exprs
      BY <1>2, <2>1, <2>2, FormFacts
    <2> QED BY <2>2, <2>3
  <1>4. x \in Tasks /\ x.do = "expr" /\ y \in Tasks /\ y.do = "emit"
    BY <1>3, StartTasks
  <1>5. z \in Tasks /\ z.do = "global"
    BY <1>3 DEF Tasks
  <1>6. ~EndBelow(work, Len(work))
    BY <1>1, ExprPlace
  <1> HIDE DEF x, y, z
  <1> DEFINE ts == <<x, y, z>>
  <1>7. ts \in Seq(Tasks) /\ Len(ts) = 3 /\ ts[1] = x /\ ts[2] = y /\ ts[3] = z /\ \A i \in 1 .. 3 : i = 1 \/ i = 2 \/ i = 3
    BY <1>4, <1>5
  <1> HIDE DEF ts
  <1>8. Fits(work, ts)
    BY <1>4, <1>5, <1>6, <1>7 DEF Fits
  <1> QED BY <1>1, <1>7, <1>8, StartRefers DEF ts

LEMMA StartLocalRefers == CInv /\ RInv /\ StartLocal => RInv'
PROOF
  <1> SUFFICES ASSUME CInv, RInv, StartLocal PROVE RInv'
    OBVIOUS
  <1> DEFINE x == Expr(Task.e.es[3])
             y == [do |-> "local", name |-> Task.e.es[2].s]
  <1>1. /\ status = "running" /\ Task.do = "expr" /\ DefinesVariable(Task.e) /\ Then(<<x, y>>)
        /\ UNCHANGED <<program, st, sections, inFunc, labels, status>> /\ HasName(Task.e.es[2]) /\ Depth(st) > 1
    BY DEF StartLocal, Doing
  <1>2. TableOK(st) /\ Task \in Tasks
    BY <1>1, CInvFacts
  <1>3. Task.e.es[2].s \in Names /\ Task.e.es[3] \in Exprs
    <2>1. Task.e \in Exprs
      BY <1>1, <1>2 DEF Tasks
    <2>2. OpKind(Task.e) = "special" /\ Len(Task.e.es) >= 3
      BY <1>1 DEF DefinesVariable, IsDefine, IsForm
    <2>3. Len(Task.e.es) \in Nat /\ \A i \in 1 .. Len(Task.e.es) : Task.e.es[i] \in Exprs
      BY <1>2, <2>1, <2>2, FormFacts
    <2>4. Task.e.es[2] \in Exprs /\ Task.e.es[3] \in Exprs
      BY <2>2, <2>3
    <2> QED BY <1>1, <2>4, ExprFacts
  <1>4. x \in Tasks /\ x.do = "expr"
    BY <1>3, StartTasks
  <1>5. y \in Tasks /\ y.do = "local"
    BY <1>3 DEF Tasks
  <1>6. EndBelow(work, Len(work))
    BY <1>1, ExprPlace
  <1> HIDE DEF x, y
  <1> DEFINE ts == <<x, y>>
  <1>7. ts \in Seq(Tasks) /\ Len(ts) = 2 /\ ts[1] = x /\ ts[2] = y /\ \A i \in 1 .. 2 : i = 1 \/ i = 2
    BY <1>4, <1>5
  <1> HIDE DEF ts
  <1>8. Fits(work, ts)
    BY <1>4, <1>5, <1>6, <1>7 DEF Fits
  <1> QED BY <1>1, <1>7, <1>8, StartRefers DEF ts

LEMMA StartBuiltinRefers == CInv /\ RInv /\ StartBuiltin => RInv'
PROOF
  <1> SUFFICES ASSUME CInv, RInv, StartBuiltin PROVE RInv'
    OBVIOUS
  <1> DEFINE x == Expr(Operands(Task.e)[2])
             p == Emitted(<<PushRax>>)
             y == Expr(Operands(Task.e)[1])
             l == LoadOperands
             z == [do |-> "builtin", op |-> OpId(Task.e)]
             ts == <<x, p, y, l, z>>
  <1>1. /\ status = "running" /\ Task.do = "expr" /\ OpKind(Task.e) = "builtin" /\ Then(ts)
        /\ UNCHANGED <<program, st, sections, inFunc, labels, status>>
        /\ Len(Operands(Task.e)) = 2
    BY DEF StartBuiltin, Doing, LoadOperands
  <1>2. TableOK(st) /\ Task \in Tasks
    BY <1>1, CInvFacts
  <1>3. Operands(Task.e)[1] \in Exprs /\ Operands(Task.e)[2] \in Exprs /\ OpId(Task.e) \in Nat
    <2>1. Task.e \in Exprs
      BY <1>1, <1>2 DEF Tasks
    <2>2. Task.e.es \in Seq(Exprs) /\ Len(Task.e.es) \in Nat \ {0} /\ OpId(Task.e) \in Ids(st)
      BY <1>1, <1>2, <2>1, FormFacts
    <2>3. Task.e.es # <<>>
      BY <2>2
    <2>4. Operands(Task.e) \in Seq(Exprs)
      BY <2>2, <2>3 DEF Operands
    <2>5. st.infos \in Seq(InfoSet)
      BY <1>2 DEF TableOK
    <2> QED BY <1>1, <2>2, <2>4, <2>5 DEF Ids
  <1>4. x \in Tasks /\ x.do = "expr" /\ y \in Tasks /\ y.do = "expr"
    BY <1>3, StartTasks
  <1>5. p \in Tasks /\ p.do = "emit" /\ l \in Tasks /\ l.do = "emit"
    BY StartTasks
  <1>6. z \in Tasks /\ z.do = "builtin"
    BY <1>3 DEF Tasks
  <1> HIDE DEF x, p, y, l, z
  <1>7. /\ Len(ts) = 5 /\ ts \in Seq(Tasks)
        /\ ts[1] = x /\ ts[2] = p /\ ts[3] = y /\ ts[4] = l /\ ts[5] = z
    BY <1>4, <1>5, <1>6, FiveLong
  <1> HIDE DEF ts
  <1>8. \A i \in 1 .. 5 : i = 1 \/ i = 2 \/ i = 3 \/ i = 4 \/ i = 5
    OBVIOUS
  <1>9. Fits(work, ts)
    BY <1>4, <1>5, <1>6, <1>7, <1>8, FitsAnywhere
  <1> QED BY <1>1, <1>7, <1>9, StartRefers

LEMMA StartCallRefers == CInv /\ RInv /\ StartCall => RInv'
PROOF
  <1> SUFFICES ASSUME CInv, RInv, StartCall PROVE RInv'
    OBVIOUS
  <1> DEFINE es == Operands(Task.e)
             n == Len(es)
             ts == CallTasks(es, OpId(Task.e))
  <1>1. /\ status = "running" /\ Task.do = "expr" /\ OpKind(Task.e) = "user" /\ Then(ts)
        /\ UNCHANGED <<program, st, sections, inFunc, labels, status>>
        /\ n <= MaxArgs
    BY DEF StartCall, Doing, CallTasks
  <1>2. TableOK(st) /\ Task \in Tasks
    BY <1>1, CInvFacts
  <1>3. es \in Seq(Exprs) /\ n \in 0 .. MaxArgs /\ n \in Nat /\ OpId(Task.e) \in Nat
    <2>1. Task.e \in Exprs
      BY <1>1, <1>2 DEF Tasks
    <2>2. Task.e.es \in Seq(Exprs) /\ Len(Task.e.es) \in Nat \ {0} /\ OpId(Task.e) \in Ids(st)
      BY <1>1, <1>2, <2>1, FormFacts
    <2>3. Task.e.es # <<>>
      BY <2>2
    <2>4. Operands(Task.e) \in Seq(Exprs)
      BY <2>2, <2>3 DEF Operands
    <2>5. st.infos \in Seq(InfoSet)
      BY <1>2 DEF TableOK
    <2>6. n \in 0 .. MaxArgs /\ n \in Nat
      <3>1. \A s \in Seq(Exprs) : Len(s) \in Nat
        OBVIOUS
      <3>2. n \in Nat /\ MaxArgs \in Nat
        BY <2>4, <3>1, RegisterNames
      <3> HIDE DEF n
      <3> QED BY <1>1, <3>2
    <2> QED BY <2>2, <2>4, <2>5, <2>6 DEF Ids
  <1>4. /\ ts \in Seq(Tasks) /\ Len(ts) = 2 * n + 1
        /\ \A i \in 1 .. 2 * n : ts[i].do \in {"expr", "emit"}
        /\ ts[2 * n + 1] = [do |-> "call", op |-> OpId(Task.e), args |-> n]
    BY <1>3, CallTasksAre
  <1> HIDE DEF ts
  <1>5. \A i \in 1 .. Len(ts) : i \in 1 .. 2 * n \/ i = 2 * n + 1
    <2>1. 2 * n \in Nat
      BY <1>3
    <2> QED BY <1>4, <2>1, LastOr
  <1>6. ts[2 * n + 1].do = "call"
    BY <1>4
  <1>7. Fits(work, ts)
    BY <1>4, <1>5, <1>6, FitsAnywhere
  <1> QED BY <1>1, <1>4, <1>7, StartRefers

LEMMA CompileIfRefers == CInv /\ RInv /\ CompileIf => RInv'
PROOF
  <1> SUFFICES ASSUME CInv, RInv, CompileIf PROVE RInv'
    OBVIOUS
  <1> DEFINE e  == Task.e
             x  == Expr(e.es[2])
             y  == Expr(e.es[3])
             z  == IF Len(e.es) = 4 THEN Expr(e.es[4]) ELSE Emitted(<< LoadNil >>)
             ts == IfTasks(x, y, z, labels)
  <1>1. /\ status = "running" /\ Task.do = "expr" /\ Then(ts)
        /\ UNCHANGED <<program, st, sections, inFunc, status>>
        /\ OpKind(e) = "special" /\ Len(e.es) \in 3 .. 4
    BY DEF CompileIf, Doing, IsForm, IfTasks, CompareAndBranch, BranchAndLabel, LabelAlone
  <1>2. TableOK(st) /\ Task \in Tasks /\ labels \in Nat
    BY <1>1, CInvFacts
  <1>3. /\ e.es[2] \in Exprs /\ e.es[3] \in Exprs
        /\ Len(e.es) = 4 => e.es[4] \in Exprs
    <2>1. e \in Exprs
      BY <1>1, <1>2 DEF Tasks
    <2>2. \A i \in 1 .. Len(e.es) : e.es[i] \in Exprs
      BY <1>1, <1>2, <2>1, FormFacts
    <2> HIDE DEF e
    <2>3. Len(e.es) = 3 \/ Len(e.es) = 4
      BY <1>1
    <2> QED BY <2>2, <2>3
  <1>4. x \in Tasks /\ x.do = "expr" /\ y \in Tasks /\ y.do = "expr"
    BY <1>3, StartTasks
  <1>5. z \in Tasks /\ z.do \in {"expr", "emit"}
    <2>1. CASE Len(e.es) = 4
      <3>1. z = Expr(e.es[4])
        BY <2>1
      <3> HIDE DEF z
      <3> QED BY <1>3, <2>1, <3>1, StartTasks
    <2>2. CASE Len(e.es) # 4
      <3>1. z = Emitted(<< LoadNil >>)
        BY <2>2
      <3> HIDE DEF z
      <3>2. LoadNil \in BodyCode
        BY SomeNeutral DEF BodyCode, LoadNil
      <3>3. << LoadNil >> \in Seq(BodyCode)
        BY <3>2
      <3> QED BY <3>1, <3>3 DEF Emitted, Tasks
    <2> QED BY <2>1, <2>2
  <1> DEFINE a == ElseLabel(labels)
             b == EndLabel(labels + 1)
             p == CompareAndBranch(a)
             q == BranchAndLabel(b, a)
             r == LabelAlone(b)
  <1>6. p \in Tasks /\ p.do = "emit" /\ q \in Tasks /\ q.do = "emit" /\ r \in Tasks /\ r.do = "emit"
    <2>1. a \in LocalLabels /\ b \in LocalLabels
      BY <1>2 DEF LocalLabels, ElseLabel, EndLabel
    <2> QED BY <2>1, BranchTasks
  <1>7. ts = <<x, p, y, q, z, r>>
    BY DEF IfTasks
  <1> HIDE DEF x, y, z, p, q, r, ts
  <1>8. ts \in Seq(Tasks) /\ Len(ts) = 6
    BY <1>4, <1>5, <1>6, <1>7
  <1>9. ts[1] = x /\ ts[2] = p /\ ts[3] = y /\ ts[4] = q /\ ts[5] = z /\ ts[6] = r
    BY <1>7
  <1>10. \A i \in 1 .. 6 : i = 1 \/ i = 2 \/ i = 3 \/ i = 4 \/ i = 5 \/ i = 6
    OBVIOUS
  <1>11. Fits(work, ts)
    BY <1>4, <1>5, <1>6, <1>8, <1>9, <1>10, FitsAnywhere
  <1> QED BY <1>1, <1>8, <1>11, StartRefers
LEMMA OneFixed ==
  ASSUME NEW x \in Instructions, Fixed(x)
  PROVE  <<x>> \in Seq(Instructions) /\ NoUserLabels(<<x>>) /\ \A infos, ro : AllResolved(<<x>>, infos, ro)
PROOF
  <1>1. <<x>> \in Seq(Instructions) /\ Len(<<x>>) = 1 /\ <<x>>[1] = x
    OBVIOUS
  <1>2. \A i \in 1 .. Len(<<x>>) : Fixed(<<x>>[i])
    BY <1>1
  <1> QED BY <1>1, <1>2, FixedCode

LEMMA TwoFixed ==
  ASSUME NEW x \in Instructions, NEW y \in Instructions, Fixed(x), Fixed(y)
  PROVE  <<x, y>> \in Seq(Instructions) /\ NoUserLabels(<<x, y>>) /\ \A infos, ro : AllResolved(<<x, y>>, infos, ro)
PROOF
  <1> DEFINE c == <<x, y>>
  <1>1. c \in Seq(Instructions) /\ Len(c) = 2 /\ c[1] = x /\ c[2] = y /\ \A i \in 1 .. 2 : i = 1 \/ i = 2
    OBVIOUS
  <1> HIDE DEF c
  <1>2. \A i \in 1 .. Len(c) : Fixed(c[i])
    BY <1>1
  <1>3. NoUserLabels(c) /\ \A infos, ro : AllResolved(c, infos, ro)
    BY <1>2, FixedCode
  <1> QED BY <1>1, <1>3 DEF c

LEMMA CompileNilRefers == CInv /\ RInv /\ CompileNil => RInv'
PROOF
  <1> SUFFICES ASSUME CInv, RInv, CompileNil PROVE RInv'
    OBVIOUS
  <1>1. status = "running" /\ Emit(<< LoadNil >>) /\ Then(<<>>) /\ UNCHANGED <<st, rodata, data, status>>
    BY DEF CompileNil, Doing
  <1>2. LoadNil \in Instructions /\ Fixed(LoadNil)
    BY SomeNeutral DEF LoadNil, Instructions, BodyCode, Fixed
  <1>3. << LoadNil >> \in Seq(Instructions) /\ NoUserLabels(<< LoadNil >>)
        /\ AllResolved(<< LoadNil >>, st.infos, rodata)
    BY <1>2, OneFixed
  <1>4. <<>> \in Seq(Tasks) /\ Fits(work, <<>>) /\ Writes(<< LoadNil >>)
    BY <1>1, NoTasks, FitsNone, EmitWrites
  <1> QED BY <1>1, <1>3, <1>4, WriteRefers

LEMMA FinishBuiltinRefers == CInv /\ RInv /\ FinishBuiltin => RInv'
PROOF
  <1> SUFFICES ASSUME CInv, RInv, FinishBuiltin PROVE RInv'
    OBVIOUS
  <1>1. PICK name \in NamesRead(Task.op) : Emit(<< <<"call", MatchBuiltinFunction(name)>> >>)
    BY DEF FinishBuiltin
  <1>2. status = "running" /\ Then(<<>>) /\ UNCHANGED <<st, rodata, data, status>>
    BY DEF FinishBuiltin, Doing
  <1> DEFINE i == <<"call", MatchBuiltinFunction(name)>>
  <1>3. MatchBuiltinFunction(name) \in Runtime
    BY DEF MatchBuiltinFunction, Runtime
  <1>4. i \in Instructions /\ Fixed(i)
    BY <1>3, SomeNeutral DEF Instructions, BodyCode, Fixed
  <1> HIDE DEF i
  <1>5. <<i>> \in Seq(Instructions) /\ NoUserLabels(<<i>>) /\ AllResolved(<<i>>, st.infos, rodata)
    BY <1>4, OneFixed
  <1>6. <<>> \in Seq(Tasks) /\ Fits(work, <<>>) /\ Writes(<<i>>)
    BY <1>1, NoTasks, FitsNone, EmitWrites DEF i
  <1> QED BY <1>2, <1>5, <1>6, WriteRefers

LEMMA EmittedFixed ==
  ASSUME NEW t, NEW a, NEW b, TaskMoves(t, a, b), t.do = "emit"
  PROVE  /\ t.code \in Seq(Instructions) /\ NoUserLabels(t.code)
         /\ \A infos, ro : AllResolved(t.code, infos, ro)
PROOF
  <1>1. \A c : Emitted(c).code = c
    BY DEF Emitted
  <1>2. LoadNil \in Instructions /\ Fixed(LoadNil)
    BY SomeNeutral DEF LoadNil, Instructions, BodyCode, Fixed
  <1>3. PushRax \in Instructions /\ Fixed(PushRax)
    BY DEF PushRax, Instructions, BodyCode, Fixed
  <1>4. <<"mov", "rdi", "rax">> \in Instructions /\ Fixed(<<"mov", "rdi", "rax">>)
        /\ <<"pop", "rsi">> \in Instructions /\ Fixed(<<"pop", "rsi">>)
    BY SomeNeutral DEF Instructions, BodyCode, WordRegs, Fixed
  <1>5. <<"cmp", NilLabel>> \in Instructions /\ Fixed(<<"cmp", NilLabel>>)
    BY SomeNeutral DEF Instructions, BodyCode, Fixed
  <1>6. \A l \in LocalLabels : /\ <<"je", l>> \in Instructions /\ Fixed(<<"je", l>>)
                               /\ <<"jmp", l>> \in Instructions /\ Fixed(<<"jmp", l>>)
                               /\ <<"label", l>> \in Instructions /\ Fixed(<<"label", l>>)
    BY SomeNeutral DEF Instructions, BodyCode, Fixed
  <1>7. CASE t = Emitted(<< LoadNil >>)
    BY <1>1, <1>2, <1>7, OneFixed
  <1>8. CASE t = Emitted(<< PushRax >>)
    BY <1>1, <1>3, <1>8, OneFixed
  <1>9. CASE t = LoadOperands
    BY <1>1, <1>4, <1>9, TwoFixed DEF LoadOperands
  <1>10. CASE \E l \in LocalLabels : t = CompareAndBranch(l)
    <2>1. PICK l \in LocalLabels : t = CompareAndBranch(l)
      BY <1>10
    <2> QED BY <1>1, <1>5, <1>6, <2>1, TwoFixed DEF CompareAndBranch
  <1>11. CASE \E m, l \in LocalLabels : t = BranchAndLabel(m, l)
    <2>1. PICK m, l \in LocalLabels : t = BranchAndLabel(m, l)
      BY <1>11
    <2> QED BY <1>1, <1>6, <2>1, TwoFixed DEF BranchAndLabel
  <1>12. CASE \E l \in LocalLabels : t = LabelAlone(l)
    <2>1. PICK l \in LocalLabels : t = LabelAlone(l)
      BY <1>12
    <2> QED BY <1>1, <1>6, <2>1, OneFixed DEF LabelAlone
  <1> QED BY <1>7, <1>8, <1>9, <1>10, <1>11, <1>12, EmitKinds

LEMMA EmitTaskRefers == CInv /\ RInv /\ EmitTask => RInv'
PROOF
  <1> SUFFICES ASSUME CInv, RInv, EmitTask PROVE RInv'
    OBVIOUS
  <1>1. /\ status = "running" /\ Task.do = "emit" /\ Emit(Task.code) /\ Then(<<>>)
        /\ UNCHANGED <<st, rodata, data, status>>
    BY DEF EmitTask, Doing
  <1>2. Generated
    BY DEF CInv
  <1>3. PICK w, e : Stack(work, w, e)
    BY <1>2 DEF Generated, Code
  <1>4. work \in Seq(Tasks) /\ work # <<>>
    BY <1>1, <1>2, TopTask
  <1>5. Len(work) \in 1 .. Len(work) /\ Task = At(work, Len(work))
    BY <1>4, TaskOnTop DEF Task
  <1>6. TaskMoves(Task, w[Len(work)], w[Len(work) - 1])
    BY <1>3, <1>5 DEF Stack
  <1>7. Task.code \in Seq(Instructions) /\ NoUserLabels(Task.code) /\ AllResolved(Task.code, st.infos, rodata)
    BY <1>1, <1>6, EmittedFixed
  <1>8. <<>> \in Seq(Tasks) /\ Fits(work, <<>>) /\ Writes(Task.code)
    BY <1>1, NoTasks, FitsNone, EmitWrites
  <1> QED BY <1>1, <1>7, <1>8, WriteRefers
LEMMA PopsFixed ==
  ASSUME NEW n \in 0 .. MaxArgs
  PROVE  Pops(n) \in Seq(Instructions) /\ \A i \in 1 .. Len(Pops(n)) : Fixed(Pops(n)[i])
PROOF
  <1>1. PICK a : a \in Nat /\ a - n \in Nat
    <2>1. n \in Nat /\ n - n \in Nat
      BY RegisterNames
    <2> QED BY <2>1
  <1>2. Pops(n) \in Seq(Instructions) /\ Len(Pops(n)) = n
    BY <1>1, PopsShape DEF Lowers, Shape
  <1>3. ASSUME NEW i \in 1 .. Len(Pops(n)) PROVE Fixed(Pops(n)[i])
    <2>1. Pops(n)[i] = <<"pop", ArgRegisters[n + 1 - i]>>
      BY <1>2, <1>3 DEF Pops
    <2>2. Pops(n)[i][1] = "pop"
      BY <2>1
    <2> QED BY <2>2 DEF Fixed
  <1> QED BY <1>2, <1>3

\* No user label is in an instruction that is no label.
LEMMA OneNoUser ==
  ASSUME NEW x \in Instructions, x[1] # "label"
  PROVE  <<x>> \in Seq(Instructions) /\ NoUserLabels(<<x>>)
PROOF
  <1>1. <<x>> \in Seq(Instructions) /\ Len(<<x>>) = 1 /\ <<x>>[1] = x
    OBVIOUS
  <1>2. ASSUME NEW i \in 1 .. Len(<<x>>), NEW l \in UserLabels PROVE <<x>>[i] # <<"label", l>>
    <2>1. <<x>>[i] = x /\ <<"label", l>>[1] = "label"
      BY <1>1
    <2> QED BY <2>1
  <1> QED BY <1>1, <1>2 DEF NoUserLabels

LEMMA OneResolved ==
  ASSUME NEW x, NEW infos, NEW ro, Resolved(x, infos, ro)
  PROVE  AllResolved(<<x>>, infos, ro)
PROOF
  <1>1. Len(<<x>>) = 1 /\ <<x>>[1] = x
    OBVIOUS
  <1> QED BY <1>1 DEF AllResolved

LEMMA FinishCallRefers == CInv /\ RInv /\ FinishCall => RInv'
PROOF
  <1> SUFFICES ASSUME CInv, RInv, FinishCall PROVE RInv'
    OBVIOUS
  <1> DEFINE n == Task.args
             op == Task.op
  <1>1. PICK label \in LabelsRead(op) : Emit(Pops(n) \o << <<"call", label>> >>)
    BY DEF FinishCall, Pops
  <1>2. status = "running" /\ Task.do = "call" /\ Then(<<>>) /\ UNCHANGED <<st, rodata, data, status>>
    BY DEF FinishCall, Doing
  <1>3. TableOK(st) /\ Generated /\ OperatorsKnown(work, st) /\ Task \in Tasks
    BY <1>2, CInvFacts
  <1>4. op \in Ids(st) /\ st.infos[op].kind = "user"
    <2>1. work \in Seq(Tasks) /\ work # <<>>
      BY <1>2, <1>3, TopTask
    <2>2. Task = At(work, Len(work)) /\ Len(work) \in 1 .. Len(work)
      BY <2>1, TaskOnTop DEF Task
    <2> QED BY <1>2, <1>3, <2>2 DEF OperatorsKnown
  <1>5. n \in 0 .. MaxArgs
    BY <1>2, <1>3 DEF Tasks
  <1> DEFINE i == <<"call", label>>
             c == Pops(n) \o <<i>>
  <1>6. i \in Instructions
    <2>1. st.infos[op] \in InfoSet
      BY <1>3, <1>4 DEF TableOK, Ids
    <2>2. st.infos[op].label \in UserLabels
      BY <1>4, <2>1 DEF InfoSet
    <2>3. label \in UserLabels \cup {Garbage}
      BY <2>2 DEF LabelsRead
    <2> QED BY <2>3, SomeNeutral DEF Instructions, BodyCode
  <1>7. i[1] = "call" /\ i[2] = label
    OBVIOUS
  <1>8. op \in UserIds(st.infos)
    BY <1>4 DEF UserIds, Ids
  <1> HIDE DEF i, n, op
  <1>9. <<i>> \in Seq(Instructions) /\ NoUserLabels(<<i>>)
    BY <1>6, <1>7, OneNoUser
  <1>10. /\ Pops(n) \in Seq(Instructions) /\ NoUserLabels(Pops(n))
         /\ AllResolved(Pops(n), st.infos, rodata)
    BY <1>5, PopsFixed, FixedCode
  <1>11. c \in Seq(Instructions) /\ NoUserLabels(c)
    BY <1>9, <1>10, NoUserConcat, LongConcat
  <1>12. ASSUME Clean(st.infos), FunctionsHeld(st) PROVE AllResolved(c, st.infos, rodata)
    <2>1. op \notin st.freed
      BY <1>8, <1>12 DEF FunctionsHeld
    <2>2. label = st.infos[op].label
      BY <1>1, <2>1 DEF LabelsRead, Stale
    <2>3. op \in NamedIds(st.infos)
      BY <1>8 DEF NamedIds
    <2>4. st.infos[op].name \in Names /\ label = Mutate(FuncLabel(st.infos[op].name))
      BY <1>8, <2>2, <2>3 DEF RInv, InfosMade
    <2>5. \A j \in DOMAIN st.infos[op].name : st.infos[op].name[j] # "#"
      BY <1>12, <2>3 DEF Clean
    <2>6. label = FuncLabel(st.infos[op].name)
      BY <2>4, <2>5, CleanLabels
    <2>7. Resolved(i, st.infos, rodata)
      BY <1>7, <1>8, <2>6 DEF Resolved
    <2> QED BY <1>9, <1>10, <2>7, OneResolved, ResolvedConcat
  <1>13. <<>> \in Seq(Tasks) /\ Fits(work, <<>>) /\ Writes(c)
    BY <1>1, NoTasks, FitsNone, EmitWrites DEF i
  <1> HIDE DEF c
  <1> QED BY <1>2, <1>11, <1>12, <1>13, WriteRefers

\* The label of a variable is that of its definition.
LEMMA VariableLabel ==
  ASSUME NEW infos, InfosMade(infos), Clean(infos), NEW id \in 1 .. Len(infos), infos[id].kind = "global"
  PROVE  \/ infos[id].label \in {TrueLabel, NilLabel}
         \/ \E k \in GlobalIds(infos) : infos[id].label = GlobalLabel(infos[k].name)
PROOF
  <1>1. CASE id \in 1 .. 6
    <2> DEFINE a == Info(Define_, "special", <<>>)
               b == Info(If_, "special", <<>>)
               c == Info(Plus, "builtin", <<>>)
               d == Info(Minus, "builtin", <<>>)
               e == Info(True_, "global", TrueLabel)
               f == Info(False_, "global", NilLabel)
    <2>1. a.kind # "global" /\ b.kind # "global" /\ c.kind # "global" /\ d.kind # "global"
          /\ e.label = TrueLabel /\ f.label = NilLabel
      BY DEF Info
    <2>2. GlobalInfos = <<a, b, c, d, e, f>>
      BY DEF GlobalInfos
    <2>3. id = 1 \/ id = 2 \/ id = 3 \/ id = 4 \/ id = 5 \/ id = 6
      BY <1>1
    <2>4. infos[id] = GlobalInfos[id]
      BY <1>1 DEF InfosMade
    <2> HIDE DEF a, b, c, d, e, f
    <2>5. /\ GlobalInfos[1] = a /\ GlobalInfos[2] = b /\ GlobalInfos[3] = c
          /\ GlobalInfos[4] = d /\ GlobalInfos[5] = e /\ GlobalInfos[6] = f
      BY <2>2
    <2> QED BY <2>1, <2>3, <2>4, <2>5
  <1>2. CASE id \notin 1 .. 6
    <2>1. id \in 7 .. Len(infos)
      BY <1>2 DEF InfosMade
    <2>2. id \in GlobalIds(infos) /\ id \in NamedIds(infos)
      BY <2>1 DEF GlobalIds, NamedIds
    <2>3. infos[id].name \in Names /\ infos[id].label = Mutate(GlobalLabel(infos[id].name))
      BY <2>2 DEF InfosMade
    <2>4. \A j \in DOMAIN infos[id].name : infos[id].name[j] # "#"
      BY <2>2 DEF Clean
    <2>5. infos[id].label = GlobalLabel(infos[id].name)
      BY <2>3, <2>4, CleanLabels
    <2> QED BY <2>2, <2>5
  <1> QED BY <1>1, <1>2

LEMMA CompileSymbolRefers == CInv /\ RInv /\ CompileSymbol => RInv'
PROOF
  <1> DEFINE id == Lookup(st, Task.e.s)
             info == st.infos[id]
  <1> SUFFICES ASSUME CInv, RInv, CompileSymbol PROVE RInv'
    OBVIOUS
  <1>1. /\ status = "running" /\ Task.do = "expr" /\ Emit(<< LoadVariable(info) >>) /\ Then(<<>>)
        /\ UNCHANGED <<st, rodata, data, status>>
        /\ Task.e.t = "sym" /\ IsVariable(id)
    BY DEF CompileSymbol, Doing
  <1>2. TableOK(st) /\ Task \in Tasks
    BY <1>1, CInvFacts
  <1>3. Task.e \in Exprs
    BY <1>1, <1>2 DEF Tasks
  <1>4. Task.e.s \in Names
    BY <1>1, <1>3, ExprFacts DEF HasName
  <1>5. info \in InfoSet /\ info.kind \in {"local", "global"} /\ id \in 1 .. Len(st.infos)
    BY <1>1, <1>2, <1>4, LookupFinds DEF IsVariable, Ids
  <1>6. ASSUME Clean(st.infos), info.kind = "global"
        PROVE  \/ info.label \in {TrueLabel, NilLabel}
               \/ \E k \in GlobalIds(st.infos) : info.label = GlobalLabel(st.infos[k].name)
    BY <1>5, <1>6, VariableLabel DEF RInv
  <1> DEFINE i == LoadVariable(info)
  <1> HIDE DEF info
  <1>7. i \in Instructions /\ i[1] # "label" /\ (Clean(st.infos) => Resolved(i, st.infos, rodata))
    <2>1. CASE info.kind = "local"
      <3>1. i = <<"loadslot", info.offset>> /\ info.offset \in Nat /\ info.offset >= SlotSize
        BY <1>5, <2>1 DEF LoadVariable, InfoSet
      <3>2. i[1] = "loadslot"
        BY <3>1
      <3> HIDE DEF i
      <3> QED BY <3>1, <3>2, SomeNeutral DEF Instructions, BodyCode, Resolved
    <2>2. CASE info.kind = "global"
      <3>1. (i = <<"lea", info.label>> \/ i = <<"load", info.label>>) /\ info.label \in DataLabels
        BY <1>5, <2>2 DEF LoadVariable, InfoSet
      <3>2. i[1] \in {"lea", "load"} /\ i[2] = info.label
        BY <3>1
      <3> HIDE DEF i
      <3>3. i \in Instructions
        BY <3>1, SomeNeutral DEF Instructions, BodyCode
      <3>4. ASSUME Clean(st.infos) PROVE Resolved(i, st.infos, rodata)
        BY <1>6, <2>2, <3>2, <3>4 DEF Resolved
      <3> QED BY <3>2, <3>3, <3>4
    <2> QED BY <1>5, <2>1, <2>2
  <1> HIDE DEF i
  <1>8. <<i>> \in Seq(Instructions) /\ NoUserLabels(<<i>>)
    BY <1>7, OneNoUser
  <1>9. Clean(st.infos) /\ FunctionsHeld(st) => AllResolved(<<i>>, st.infos, rodata)
    BY <1>7, OneResolved
  <1>10. <<>> \in Seq(Tasks) /\ Fits(work, <<>>) /\ Writes(<<i>>)
    BY <1>1, NoTasks, FitsNone, EmitWrites DEF i
  <1> QED BY <1>1, <1>8, <1>9, <1>10, WriteRefers

\* The literals ro have numbers below lb.
LiteralsBelow(ro, lb) == ro \in Seq(({"L_double"} \X Nat) \X Int) /\ \A i \in 1 .. Len(ro) : ro[i][1][2] < lb
HasLiteral(ro, lb) == \E k \in 1 .. Len(ro) : DoubleLabel(lb) = ro[k][1]

LEMMA LiteralAdded ==
  ASSUME NEW lb \in Nat, NEW ro, LiteralsBelow(ro, lb),
         LiteralsPlaced(ro), NEW v \in Int, NEW ro1, ro1 = Append(ro, <<DoubleLabel(lb), v>>)
  PROVE  More(ro, ro1) /\ LiteralsPlaced(ro1) /\ HasLiteral(ro1, lb)
PROOF
  <1> DEFINE x == <<DoubleLabel(lb), v>>
             n == Len(ro)
  <1>0. ro \in Seq(({"L_double"} \X Nat) \X Int) /\ \A i \in 1 .. Len(ro) : ro[i][1][2] < lb
    BY DEF LiteralsBelow
  <1>1. x \in ({"L_double"} \X Nat) \X Int /\ x[1] = DoubleLabel(lb) /\ DoubleLabel(lb)[2] = lb
    BY DEF DoubleLabel
  <1> HIDE DEF x
  <1>2. ro1 = Append(ro, x)
    BY DEF x
  <1>3. /\ n \in Nat /\ Len(ro1) = n + 1 /\ ro1[n + 1] = x
        /\ \A k \in 1 .. n : ro1[k] = ro[k]
    BY <1>0, <1>1, <1>2
  <1>4. ASSUME NEW k \in 1 .. n PROVE ro[k][1] # DoubleLabel(lb)
    <2>1. ro[k] \in ({"L_double"} \X Nat) \X Int
      BY <1>0
    <2>2. ro[k][1][2] \in Nat /\ ro[k][1][2] < lb
      BY <1>0, <2>1
    <2> QED BY <1>1, <2>2
  <1> HIDE DEF n
  <1>5. n + 1 \in 1 .. n + 1 /\ n <= n + 1 /\ n + 1 \in Nat /\ \A k \in 1 .. n + 1 : k \in 1 .. n \/ k = n + 1
    BY <1>3
  <1>6. More(ro, ro1)
    BY <1>3, <1>5 DEF More, n
  <1>7. ASSUME NEW j \in 1 .. n + 1, NEW k \in 1 .. n + 1, ro1[k][1] = ro1[j][1] PROVE k = j
    <2>1. \A i \in 1 .. n : ro1[i] = ro[i] /\ ro[i][1] # DoubleLabel(lb)
      BY <1>3, <1>4 DEF n
    <2>2. \A i, o \in 1 .. n : ro[o][1] = ro[i][1] => o = i
      BY DEF LiteralsPlaced, n
    <2> QED BY <1>1, <1>3, <1>5, <1>7, <2>1, <2>2
  <1>8. LiteralsPlaced(ro1)
    BY <1>3, <1>7 DEF LiteralsPlaced
  <1>9. HasLiteral(ro1, lb)
    BY <1>1, <1>3, <1>5 DEF HasLiteral
  <1> QED BY <1>6, <1>8, <1>9

LEMMA CompileNumberRefers == CInv /\ RInv /\ CompileNumber => RInv'
PROOF
  <1> DEFINE i == <<"movsd", DoubleLabel(labels)>>
             j == <<"call", <<"lisp_make_number">> >>
             c == <<i, j>>
  <1> SUFFICES ASSUME CInv, RInv, CompileNumber PROVE RInv'
    OBVIOUS
  <1>1. /\ status = "running" /\ Task.do = "expr" /\ Emit(c) /\ Then(<<>>)
        /\ UNCHANGED <<st, data, status>> /\ Task.e.t = "num"
        /\ rodata' = Append(rodata, <<DoubleLabel(labels), Task.e.v>>)
    BY DEF CompileNumber, Doing
  <1>2. DataOK /\ labels \in Nat /\ Task \in Tasks
    BY <1>1, CInvFacts
  <1>3. Task.e \in Exprs
    BY <1>1, <1>2 DEF Tasks
  <1>4. Task.e.v \in Int
    BY <1>1, <1>3, ExprFacts
  <1>5. More(rodata, rodata') /\ LiteralsPlaced(rodata') /\ HasLiteral(rodata', labels)
    <2>1. LiteralsBelow(rodata, labels)
      BY <1>2 DEF DataOK, LiteralsBelow
    <2>2. LiteralsPlaced(rodata)
      BY DEF RInv
    <2> QED BY <1>1, <1>2, <1>4, <2>1, <2>2, LiteralAdded
  <1>6. i \in Instructions /\ j \in Instructions
    BY <1>2, SomeNeutral DEF LiteralLabels, DoubleLabel, Instructions, BodyCode, Runtime
  <1>7. i[1] = "movsd" /\ i[2] = DoubleLabel(labels) /\ j[1] = "call" /\ j[2] \in Runtime
    BY DEF Runtime
  <1> HIDE DEF i, j
  <1>8. c \in Seq(Instructions) /\ Len(c) = 2 /\ c[1] = i /\ c[2] = j /\ \A k \in 1 .. 2 : k = 1 \/ k = 2
    BY <1>6
  <1> HIDE DEF c
  <1>9. NoUserLabels(c)
    <2> SUFFICES ASSUME NEW k \in 1 .. Len(c), NEW l \in UserLabels PROVE c[k] # <<"label", l>>
      BY DEF NoUserLabels
    <2>1. <<"label", l>>[1] = "label"
      OBVIOUS
    <2> QED BY <1>7, <1>8, <2>1
  <1>10. AllResolved(c, st.infos, rodata')
    <2>1. Resolved(i, st.infos, rodata') /\ Resolved(j, st.infos, rodata')
      BY <1>5, <1>7 DEF Resolved, HasLiteral
    <2> QED BY <1>8, <2>1 DEF AllResolved
  <1>11. Refers(st, st', c, data', rodata')
    BY <1>1, <1>5, <1>10 DEF Refers, RInv
  <1>12. ASSUME Resolvable(func, text, data, rodata, st.infos)
         PROVE  Resolvable(func, text, data', rodata', st'.infos)
    <2>1. Len(st.infos) \in Nat
      BY DEF RInv, InfosMade
    <2> QED BY <1>1, <1>5, <1>12, <2>1, MoreSame, ResolvableMore
  <1>13. <<>> \in Seq(Tasks) /\ Fits(work, <<>>) /\ Writes(c)
    BY <1>1, NoTasks, FitsNone, EmitWrites
  <1> QED BY <1>1, <1>8, <1>9, <1>11, <1>12, <1>13, RefersStep

\* Definitions of variables.
LEMMA NewVariable ==
  ASSUME NEW t, TableOK(t), LiveHeld(t), InfosMade(t.infos), ScopesMade(t), NEW info \in NewInfos,
         info.kind \in {"local", "user", "global"}, Depth(t) > 0, NEW t1, t1 = Define(t, info)
  PROVE  /\ More(t.infos, t1.infos) /\ Len(t1.infos) \in 1 .. Len(t1.infos) /\ Len(t1.infos) \notin NamedIds(t.infos)
         /\ t1.infos[Len(t1.infos)].name = info.name
         /\ info.kind = "local" => UserIds(t1.infos) = UserIds(t.infos) /\ GlobalIds(t1.infos) = GlobalIds(t.infos)
         /\ info.kind = "user" =>
              UserIds(t1.infos) = UserIds(t.infos) \cup {Len(t1.infos)} /\ GlobalIds(t1.infos) = GlobalIds(t.infos)
         /\ info.kind = "global" =>
              UserIds(t1.infos) = UserIds(t.infos) /\ GlobalIds(t1.infos) = GlobalIds(t.infos) \cup {Len(t1.infos)}
PROOF
  <1> DEFINE a == t.infos
             b == t1.infos
             n == Len(b)
  <1>1. Defined(t, info, t1)
    BY DefineTable
  <1>2. /\ n = Len(a) + 1 /\ \A i \in 1 .. Len(a) : b[i] = a[i]
        /\ b[n].kind = info.kind /\ b[n].name = info.name
    BY <1>1 DEF Defined, Ids
  <1>3. Len(a) \in Nat
    BY DEF InfosMade
  <1>4. More(a, b) /\ n \in 1 .. n
    BY <1>2, <1>3 DEF More
  <1>5. InfosMade(a)
    OBVIOUS
  <1> HIDE DEF a, b
  <1>6. /\ b[n].kind = "user" => UserIds(b) = UserIds(a) \cup {n} /\ GlobalIds(b) = GlobalIds(a)
        /\ b[n].kind = "global" => UserIds(b) = UserIds(a) /\ GlobalIds(b) = GlobalIds(a) \cup {n}
        /\ b[n].kind \notin {"user", "global"} => UserIds(b) = UserIds(a) /\ GlobalIds(b) = GlobalIds(a)
        /\ n \notin NamedIds(a)
    BY <1>2, <1>5, OneMoreInfo
  <1> QED BY <1>2, <1>4, <1>6 DEF a, b

LEMMA LocalRefers ==
  ASSUME CInv, RInv, status = "running", UNCHANGED <<rodata, data, status>>,
         NEW n \in Names, st' = Define(st, LocalVar(n)), Depth(st) = 2,
         NEW c \in Seq(Instructions), NoUserLabels(c), Writes(c), \A infos, ro : AllResolved(c, infos, ro),
         Then(<<>>)
  PROVE  RInv'
PROOF
  <1> DEFINE info == LocalVar(n)
  <1>1. TableOK(st) /\ LiveHeld(st) /\ InfosMade(st.infos) /\ ScopesMade(st) /\ Depth(st) > 0
    BY CInvFacts DEF RInv
  <1>2. info \in NewInfos /\ info.kind = "local"
    BY MadeInfos
  <1> HIDE DEF info
  <1>3. st' = Define(st, info)
    BY DEF info
  <1>4. DefinedWell(st, info, st')
    BY <1>1, <1>2, <1>3, DefineMade
  <1>5. /\ More(st.infos, st'.infos)
        /\ UserIds(st'.infos) = UserIds(st.infos) /\ GlobalIds(st'.infos) = GlobalIds(st.infos)
    BY <1>1, <1>2, <1>3, NewVariable
  <1>6. Refers(st, st', c, data', rodata')
    BY <1>4 DEF Refers, DefinedWell, RInv
  <1>7. ASSUME Resolvable(func, text, data, rodata, st.infos)
        PROVE  Resolvable(func, text, data', rodata', st'.infos)
    <2>1. Len(rodata) \in Nat
      BY CInvFacts DEF DataOK
    <2> QED BY <1>5, <1>7, <2>1, MoreSame, ResolvableMore
  <1>8. <<>> \in Seq(Tasks) /\ Fits(work, <<>>)
    BY NoTasks, FitsNone
  <1> QED BY <1>6, <1>7, <1>8, RefersStep

LEMMA OneFixedCode ==
  ASSUME NEW x \in Instructions, Fixed(x)
  PROVE  <<x>> \in Seq(Instructions) /\ NoUserLabels(<<x>>) /\ \A infos, ro : AllResolved(<<x>>, infos, ro)
PROOF
  <1>1. <<x>> \in Seq(Instructions) /\ Len(<<x>>) = 1 /\ <<x>>[1] = x
    OBVIOUS
  <1>2. \A i \in 1 .. Len(<<x>>) : Fixed(<<x>>[i])
    BY <1>1
  <1> QED BY <1>1, <1>2, FixedCode

LEMMA DefineParamRefers == CInv /\ RInv /\ DefineParam => RInv'
PROOF
  <1> DEFINE n == Task.name.s
             save == <<"saveslot", ReturnedOffset(st'), Task.reg>>
  <1> SUFFICES ASSUME CInv, RInv, DefineParam PROVE RInv'
    OBVIOUS
  <1>1. /\ status = "running" /\ Task.do = "param" /\ Then(<<>>) /\ HasName(Task.name)
        /\ UNCHANGED <<rodata, data, status>>
        /\ st' = Define(st, LocalVar(n)) /\ Emit(<<save>>)
    BY DEF DefineParam, Doing
  <1>2. TableOK(st) /\ LiveHeld(st) /\ Depth(st) > 0 /\ Task \in Tasks
    BY <1>1, CInvFacts
  <1>3. Task.name \in Exprs /\ Task.reg \in WordRegs
    BY <1>1, <1>2 DEF Tasks
  <1>4. n \in Names
    BY <1>1, <1>3, ExprFacts
  <1>5. Defined(st, LocalVar(n), st')
    BY <1>1, <1>2, <1>4, MadeInfos, DefineTable
  <1>6. ReturnedOffset(st') \in Nat /\ ReturnedOffset(st') >= SlotSize
    BY <1>4, <1>5, MadeInfos DEF Defined
  <1>7. save \in Instructions /\ save[1] = "saveslot"
    BY <1>3, <1>6, SomeNeutral DEF Instructions, BodyCode
  <1>8. Depth(st) = 2
    BY <1>1, TaskPlace DEF RInv
  <1> HIDE DEF save, n
  <1>9. Fixed(save)
    BY <1>7 DEF Fixed
  <1>10. <<save>> \in Seq(Instructions) /\ NoUserLabels(<<save>>) /\ \A infos, ro : AllResolved(<<save>>, infos, ro)
    BY <1>7, <1>9, OneFixedCode
  <1>11. Writes(<<save>>)
    BY <1>1, EmitWrites
  <1> QED BY <1>1, <1>4, <1>8, <1>10, <1>11, LocalRefers

LEMMA FinishLocalRefers == CInv /\ RInv /\ FinishLocal => RInv'
PROOF
  <1> DEFINE n == Task.name
             save == <<"saveslot", ReturnedOffset(st'), "rax">>
             null == <<"null">>
             c == <<save, null>>
  <1> SUFFICES ASSUME CInv, RInv, FinishLocal PROVE RInv'
    OBVIOUS
  <1>1. /\ status = "running" /\ Task.do = "local" /\ Then(<<>>)
        /\ UNCHANGED <<rodata, data, status>>
        /\ st' = Define(st, LocalVar(n)) /\ Emit(c)
    BY DEF FinishLocal, Doing
  <1>2. TableOK(st) /\ LiveHeld(st) /\ Depth(st) > 0 /\ Task \in Tasks
    BY <1>1, CInvFacts
  <1>3. n \in Names
    BY <1>1, <1>2 DEF Tasks
  <1>4. Defined(st, LocalVar(n), st')
    BY <1>1, <1>2, <1>3, MadeInfos, DefineTable
  <1>5. ReturnedOffset(st') \in Nat /\ ReturnedOffset(st') >= SlotSize
    BY <1>3, <1>4, MadeInfos DEF Defined
  <1>6. save \in Instructions /\ save[1] = "saveslot" /\ null \in Instructions /\ null[1] = "null"
    <2>1. "rax" \in WordRegs
      BY DEF WordRegs
    <2>2. save \in Neutral
      BY <1>5, <2>1, SomeNeutral
    <2> QED BY <2>2, SomeNeutral DEF Instructions, BodyCode
  <1>7. Depth(st) = 2
    BY <1>1, TaskPlace DEF RInv
  <1> HIDE DEF save, null, n
  <1>8. Fixed(save) /\ Fixed(null)
    BY <1>6 DEF Fixed
  <1>9. c \in Seq(Instructions) /\ Len(c) = 2 /\ c[1] = save /\ c[2] = null /\ \A k \in 1 .. 2 : k = 1 \/ k = 2
    BY <1>6
  <1>10. Writes(c)
    BY <1>1, EmitWrites
  <1> HIDE DEF c
  <1>11. NoUserLabels(c) /\ \A infos, ro : AllResolved(c, infos, ro)
    BY <1>8, <1>9, FixedCode
  <1> QED BY <1>1, <1>3, <1>7, <1>9, <1>10, <1>11, LocalRefers

LEMMA FinishGlobalRefers == CInv /\ RInv /\ FinishGlobal => RInv'
PROOF
  <1> DEFINE n == Task.name.s
             label == GlobalLabel(n)
             info == Info(n, "global", Mutate(label))
             pop == <<"pop", "rbx">>
             store == <<"store", Mutate(label)>>
             load == <<"mov", "rax", "rbx">>
             c == <<pop, store, load>>
  <1> SUFFICES ASSUME CInv, RInv, FinishGlobal PROVE RInv'
    OBVIOUS
  <1>1. /\ status = "running" /\ Task.do = "global" /\ Then(<<>>) /\ HasName(Task.name)
        /\ UNCHANGED <<rodata, status>>
        /\ data' = Append(data, label) /\ st' = Define(st, info)
        /\ Emit(<<pop, <<"store", info.label>>, load>>)
    BY DEF FinishGlobal, Doing
  <1>2. TableOK(st) /\ LiveHeld(st) /\ DataOK /\ Task \in Tasks
    BY <1>1, CInvFacts
  <1>3. Task.name \in Exprs
    BY <1>1, <1>2 DEF Tasks
  <1>4. n \in Names
    BY <1>1, <1>3, ExprFacts
  <1>5. label \in DataLabels /\ Mutate(label) \in DataLabels
    BY <1>4, MadeLabels
  <1>6. info \in NewInfos /\ info.label = Mutate(label) /\ info.kind = "global"
    BY <1>4, <1>5, MadeInfos
  <1>7. info.name = n
    BY DEF Info
  <1>8. Depth(st) = 1
    BY <1>1, TaskPlace DEF RInv
  <1>9. Emit(c)
    BY <1>1, <1>6
  <1>10. /\ pop \in Instructions /\ pop[1] = "pop" /\ store \in Instructions /\ store[1] = "store"
         /\ store[2] = Mutate(label) /\ load \in Instructions /\ load[1] = "mov"
    <2>1. "rax" \in WordRegs /\ "rbx" \in WordRegs
      BY DEF WordRegs
    <2>2. pop \in BodyCode
      BY <2>1 DEF BodyCode
    <2>3. store \in Neutral /\ load \in Neutral
      BY <1>5, <2>1, SomeNeutral
    <2> QED BY <2>2, <2>3 DEF Instructions, BodyCode
  <1> HIDE DEF pop, store, load
  <1>11. /\ c \in Seq(Instructions) /\ Len(c) = 3 /\ c[1] = pop /\ c[2] = store /\ c[3] = load
         /\ \A k \in 1 .. 3 : k = 1 \/ k = 2 \/ k = 3
    BY <1>10
  <1> HIDE DEF c, info, n
  <1>12. NoUserLabels(c)
    <2> SUFFICES ASSUME NEW k \in 1 .. Len(c), NEW l \in UserLabels PROVE c[k] # <<"label", l>>
      BY DEF NoUserLabels
    <2>1. <<"label", l>>[1] = "label"
      OBVIOUS
    <2> QED BY <1>10, <1>11, <2>1
  <1> DEFINE a == st.infos
             b == st'.infos
             x == Len(b)
  <1>13. InfosMade(a) /\ ScopesMade(st) /\ LiteralsPlaced(rodata)
    BY DEF RInv
  <1>14. DefinedWell(st, info, st')
    BY <1>1, <1>2, <1>6, <1>7, <1>8, <1>13, DefineMade
  <1>15. /\ More(a, b) /\ x \in 1 .. x /\ x \notin NamedIds(a) /\ b[x].name = n
         /\ UserIds(b) = UserIds(a) /\ GlobalIds(b) = GlobalIds(a) \cup {x}
    BY <1>1, <1>2, <1>6, <1>7, <1>8, <1>13, NewVariable
  <1>16. InfosMade(b)
    BY <1>14 DEF DefinedWell
  <1> HIDE DEF a, b, x
  <1>17. x \in GlobalIds(b) /\ x \in NamedIds(b)
    BY <1>15 DEF NamedIds
  <1>18. ASSUME Clean(b) PROVE AllResolved(c, b, rodata')
    <2>1. \A i \in DOMAIN n : n[i] # "#"
      BY <1>15, <1>17, <1>18 DEF Clean
    <2>2. Mutate(label) = GlobalLabel(b[x].name)
      BY <1>4, <1>15, <2>1, CleanLabels
    <2>3. Resolved(store, b, rodata')
      BY <1>10, <1>17, <2>2 DEF Resolved
    <2>4. Resolved(pop, b, rodata') /\ Resolved(load, b, rodata')
      BY <1>10 DEF Resolved
    <2> QED BY <1>11, <2>3, <2>4 DEF AllResolved
  <1>19. Refers(st, st', c, data', rodata')
    BY <1>1, <1>13, <1>14, <1>18 DEF Refers, DefinedWell, b
  <1>20. ASSUME Clean(b), Resolvable(func, text, data, rodata, a)
         PROVE  Resolvable(func, text, data', rodata', b)
    <2>1. Len(rodata) \in Nat /\ data \in Seq(DataLabels)
      BY <1>2 DEF DataOK
    <2>2. data' = Append(data, GlobalLabel(b[x].name)) /\ GlobalLabel(b[x].name) \in DataLabels
      BY <1>1, <1>5, <1>15
    <2> QED BY <1>1, <1>15, <1>16, <1>20, <2>1, <2>2, ResolvableGlobal
  <1>21. <<>> \in Seq(Tasks) /\ Fits(work, <<>>) /\ Writes(c)
    BY <1>9, NoTasks, FitsNone, EmitWrites
  <1> QED BY <1>1, <1>11, <1>12, <1>19, <1>20, <1>21, RefersStep DEF a, b

-----------------------------------------------------------------------------
(* Functions *)

LEMMA OpeningBegins ==
  ASSUME NEW l \in UserLabels, NEW k \in Nat
  PROVE  /\ Opening(l, k) \in Seq(Instructions) /\ Begins(Opening(l, k), l)
         /\ \A infos, ro : AllResolved(Opening(l, k), infos, ro)
PROOF
  <1> DEFINE a == <<"label", l>>
             b == <<"push", "rbp">>
             d == <<"mov", "rbp", "rsp">>
             r == <<"reserve", SlotSize * k>>
             c == <<a, b, d>>
             e == IF k = 0 THEN <<>> ELSE <<r>>
             o == c \o e
  <1>1. a \in Instructions /\ b \in Instructions /\ d \in Instructions /\ r \in Instructions
    <2>1. SlotSize * k \in Nat
      BY DEF SlotSize
    <2> QED BY <2>1 DEF Instructions
  <1>2. a[1] = "label" /\ b[1] = "push" /\ d[1] = "mov" /\ r[1] = "reserve" /\ a = <<"label", l>>
    OBVIOUS
  <1>3. Opening(l, k) = o
    BY DEF Opening
  <1> HIDE DEF a, b, d, r
  <1>4. c \in Seq(Instructions) /\ Len(c) = 3 /\ c[1] = a /\ c[2] = b /\ c[3] = d
        /\ \A i \in 1 .. 3 : i = 1 \/ i = 2 \/ i = 3
    BY <1>1
  <1>5. e \in Seq(Instructions) /\ \A i \in 1 .. Len(e) : e[i] = r
    <2>1. CASE k = 0
      <3>1. e = <<>> /\ <<>> \in Seq(Instructions) /\ \A i \in 1 .. Len(<<>>) : FALSE
        BY <2>1
      <3> QED BY <3>1
    <2>2. CASE k # 0
      <3>1. e = <<r>> /\ <<r>> \in Seq(Instructions) /\ Len(<<r>>) = 1 /\ <<r>>[1] = r
        BY <1>1, <2>2
      <3> QED BY <3>1
    <2> QED BY <2>1, <2>2
  <1> HIDE DEF c, e
  <1>6. /\ o \in Seq(Instructions) /\ Len(o) = 3 + Len(e) /\ Len(e) \in Nat
        /\ \A i \in 1 .. 3 : o[i] = c[i]
        /\ \A i \in 1 .. Len(o) : i \in 1 .. 3 \/ \E j \in 1 .. Len(e) : i = 3 + j /\ o[i] = e[j]
    <2>0. c \in Seq(Instructions) /\ e \in Seq(Instructions)
      BY <1>4, <1>5
    <2>1. /\ o \in Seq(Instructions) /\ Len(o) = Len(c) + Len(e) /\ Len(e) \in Nat
          /\ \A i \in 1 .. Len(c) : o[i] = c[i]
          /\ \A i \in 1 .. Len(e) : o[Len(c) + i] = e[i]
          /\ \A i \in 1 .. Len(o) : i \in 1 .. Len(c) \/ \E j \in 1 .. Len(e) : i = Len(c) + j
      BY <2>0, LongConcat
    <2> HIDE DEF o
    <2> QED BY <1>4, <2>1
  <1> HIDE DEF o
  <1>7. ASSUME NEW i \in 1 .. Len(o) PROVE (i = 1 /\ o[i] = a) \/ o[i][1] \in {"push", "mov", "reserve"}
    <2>1. CASE i \in 1 .. 3
      BY <1>2, <1>4, <1>6, <2>1
    <2>2. CASE i \notin 1 .. 3
      BY <1>2, <1>5, <1>6, <2>2
    <2> QED BY <2>1, <2>2
  <1>8. o[1] = a /\ Len(o) > 0
    BY <1>4, <1>6
  <1>9. Begins(o, l)
    <2>1. \A m : <<"label", m>>[1] = "label"
      OBVIOUS
    <2> QED BY <1>2, <1>7, <1>8, <2>1 DEF Begins
  <1>10. ASSUME NEW infos, NEW ro PROVE AllResolved(o, infos, ro)
    BY <1>2, <1>7 DEF AllResolved, Resolved
  <1> QED BY <1>3, <1>6, <1>9, <1>10

LEMMA FunctionFits ==
  ASSUME NEW wk, NEW ts, NEW m, BodyTasks(ts, m), \A i \in 1 .. m : ts[i].do \in {"param", "expr"}
  PROVE  Fits(wk, ts)
PROOF
  <1>1. m \in Nat /\ Len(ts) = m + 1 /\ ts[m + 1].do = "endfunc"
    BY DEF BodyTasks
  <1>2. ASSUME NEW i \in 1 .. m + 1 PROVE i = m + 1 \/ (i \in 1 .. m /\ m + 1 \in i + 1 .. m + 1)
    BY <1>1
  <1> QED BY <1>1, <1>2 DEF Fits

LEMMA BeginFunctionRefers == CInv /\ RInv /\ BeginFunction => RInv'
PROOF
  <1> SUFFICES ASSUME CInv, RInv, BeginFunction PROVE RInv'
    OBVIOUS
  <1> DEFINE x        == Task.e
             name     == Signature(x)[1].s
             label    == FuncLabel(name)
             info     == Info(name, "user", Mutate(label))
             declared == Define(st, info)
             c        == Opening(label, FrameWords(x))
             ts       == FunctionTasks(Params(x), Body(x))
  <1>1. /\ status = "running" /\ Task.do = "expr" /\ ~inFunc /\ DefinesFunction(x) /\ Signature(x) # <<>>
        /\ HasName(Signature(x)[1]) /\ Len(Params(x)) <= MaxArgs
        /\ st' = EnterScope(declared)
        /\ UNCHANGED <<text, rodata, data, status>>
    BY DEF BeginFunction, Doing
  <1>2. /\ func' = func \o << <<"label", label>> >> \o Prologue
                     \o (IF FrameWords(x) = 0 THEN <<>> ELSE << <<"reserve", SlotSize * FrameWords(x)>> >>)
        /\ work' = ts \o Tail(work)
    BY DEF BeginFunction, FunctionTasks, ParamTasks, Then
  <1>3. /\ TableOK(st) /\ LiveHeld(st) /\ DataOK /\ Task \in Tasks /\ Generated
        /\ Depth(st) = 1
    BY <1>1, CInvFacts
  <1>4. /\ Signature(x)[1] \in Exprs /\ Params(x) \in Seq(Exprs) /\ Body(x) \in Seq(Exprs)
        /\ FrameWords(x) \in Nat
    <2>1. x \in Exprs
      BY <1>1, <1>3 DEF Tasks
    <2> QED BY <1>1, <1>3, <2>1, FunctionParts
  <1>5. name \in Names
    BY <1>1, <1>4, ExprFacts
  <1>6. label \in UserLabels /\ Mutate(label) \in UserLabels
    BY <1>5, MadeLabels
  <1>7. info \in NewInfos /\ info.kind = "user" /\ info.name = name /\ info.label = Mutate(FuncLabel(info.name))
    BY <1>5, <1>6, MadeInfos DEF Info
  <1>8. func \in Seq(Instructions) /\ work \in Seq(Tasks) /\ work # <<>>
    <2>1. func \in Seq(Instructions)
      BY <1>3 DEF Generated, Code, Shape
    <2> QED BY <1>1, <1>3, <2>1, TopTask
  <1>9. func' = func \o c
    BY <1>2, <1>8, FunctionOpened
  <1>10. c \in Seq(Instructions) /\ Begins(c, label) /\ \A infos, ro : AllResolved(c, infos, ro)
    BY <1>4, <1>6, OpeningBegins
  <1>11. ts \in Seq(Tasks) /\ Fits(work, ts)
    <2>1. /\ BodyTasks(ts, Len(Params(x)) + Len(Body(x)))
          /\ \A i \in 1 .. Len(Params(x)) + Len(Body(x)) : ts[i].do \in {"param", "expr"}
      BY <1>1, <1>4, FunctionTasksAre
    <2>2. ts \in Seq(Tasks)
      BY <2>1 DEF BodyTasks
    <2> HIDE DEF ts
    <2> QED BY <2>1, <2>2, FunctionFits
  <1> HIDE DEF ts, c, info
  <1>12. InfosMade(st.infos) /\ ScopesMade(st) /\ LiteralsPlaced(rodata) /\ TasksMade(work)
    BY DEF RInv
  <1>13. TasksMade(work')
    BY <1>2, <1>8, <1>11, <1>12, TasksMadeAfter
  <1>14. Defined(st, info, declared) /\ DefinedWell(st, info, declared)
    BY <1>3, <1>7, <1>12, DefineTable, DefineMade
  <1> DEFINE a == st.infos
             b == declared.infos
             n == Len(b)
  <1>15. /\ More(a, b) /\ n \notin NamedIds(a) /\ b[n].name = name
         /\ UserIds(b) = UserIds(a) \cup {n} /\ GlobalIds(b) = GlobalIds(a)
    BY <1>3, <1>7, <1>12, NewVariable
  <1> HIDE DEF declared
  <1>16. ScopesMade(st') /\ st'.infos = b /\ st'.freed = declared.freed
    <2>1. TableOK(declared) /\ LiveHeld(declared) /\ ScopesMade(declared) /\ Depth(declared) > 0
      BY <1>3, <1>14 DEF Defined, DefinedWell
    <2> QED BY <1>1, <2>1, EnterMade
  <1> HIDE DEF label, name
  <1>17. ASSUME Clean(b)
         PROVE  FunctionsHeld(st') /\ Resolvable(func', text', data', rodata', b)
    <2>1. Clean(a) /\ InfosMade(b)
      BY <1>14, <1>17 DEF DefinedWell
    <2>2. FunctionsHeld(st) /\ Resolvable(func, text, data, rodata, a)
      BY <1>1, <2>1 DEF RInv
    <2>3. FunctionsHeld(declared)
      BY <1>14, <1>17, <2>2 DEF DefinedWell
    <2>4. FunctionsHeld(st')
      BY <1>16, <2>3 DEF FunctionsHeld
    <2>5. Begins(c, FuncLabel(b[n].name))
      BY <1>10, <1>15 DEF label
    <2>6. Len(rodata) \in Nat /\ AllResolved(c, b, rodata)
      BY <1>3, <1>10 DEF DataOK
    <2> HIDE DEF a, b, n
    <2>7. Resolvable(func \o c, text, data, rodata, b)
      BY <1>8, <1>10, <1>15, <1>17, <2>1, <2>2, <2>5, <2>6, ResolvableUser
    <2> QED BY <1>1, <1>9, <2>4, <2>7
  <1>18. InfosMade(st'.infos) /\ LiteralsPlaced(rodata')
    BY <1>1, <1>12, <1>14, <1>16 DEF DefinedWell
  <1> QED BY <1>13, <1>16, <1>17, <1>18 DEF RInv

LEMMA EpilogueFixed ==
  /\ Epilogue \in Seq(Instructions) /\ NoUserLabels(Epilogue)
  /\ \A infos, ro : AllResolved(Epilogue, infos, ro)
PROOF
  <1> DEFINE a == <<"mov", "rsp", "rbp">>
             b == <<"pop", "rbp">>
             c == <<"ret">>
             s == <<a, b, c>>
  <1>1. /\ a \in Instructions /\ b \in Instructions /\ c \in Instructions
        /\ a[1] = "mov" /\ b[1] = "pop" /\ c[1] = "ret"
    BY DEF Instructions
  <1>2. Epilogue = s
    BY DEF Epilogue
  <1> HIDE DEF a, b, c
  <1>3. s \in Seq(Instructions) /\ Len(s) = 3 /\ s[1] = a /\ s[2] = b /\ s[3] = c
        /\ \A i \in 1 .. 3 : i = 1 \/ i = 2 \/ i = 3
    BY <1>1
  <1> HIDE DEF s
  <1>4. \A i \in 1 .. Len(s) : Fixed(s[i])
    BY <1>1, <1>3 DEF Fixed
  <1> QED BY <1>2, <1>3, <1>4, FixedCode

LEMMA NilFixed ==
  /\ <<LoadNil>> \in Seq(Instructions) /\ NoUserLabels(<<LoadNil>>)
  /\ \A infos, ro : AllResolved(<<LoadNil>>, infos, ro)
PROOF
  <1>1. LoadNil \in Instructions
    BY SomeNeutral DEF Instructions, BodyCode
  <1>2. Fixed(LoadNil)
    BY DEF LoadNil, Fixed
  <1> QED BY <1>1, <1>2, OneFixedCode

LEMMA NullFixed ==
  /\ << <<"null">> >> \in Seq(Instructions) /\ NoUserLabels(<< <<"null">> >>)
  /\ \A infos, ro : AllResolved(<< <<"null">> >>, infos, ro)
PROOF
  <1> DEFINE x == <<"null">>
  <1>1. x \in Instructions /\ x[1] = "null"
    BY SomeNeutral DEF Instructions, BodyCode
  <1> HIDE DEF x
  <1>2. Fixed(x)
    BY <1>1 DEF Fixed
  <1>3. <<x>> \in Seq(Instructions) /\ NoUserLabels(<<x>>) /\ \A infos, ro : AllResolved(<<x>>, infos, ro)
    BY <1>1, <1>2, OneFixedCode
  <1> QED BY <1>3 DEF x

\* More of such code at the ends of both sections.
LEMMA ResolvableFixed ==
  ASSUME NEW fn \in Seq(Instructions), NEW tx \in Seq(Instructions), NEW da, NEW ro, NEW infos,
         Resolvable(fn, tx, da, ro, infos),
         NEW c \in Seq(Instructions), NoUserLabels(c), AllResolved(c, infos, ro)
  PROVE  Resolvable(fn \o c, tx, da, ro, infos) /\ Resolvable(fn, tx \o c, da, ro, infos)
PROOF
  <1>1. AllResolved(fn \o c, infos, ro) /\ AllResolved(tx \o c, infos, ro)
    BY ResolvedConcat DEF Resolvable
  <1>2. FunctionsPlaced(fn \o c, infos) /\ NoUserLabels(tx \o c)
    BY FunctionsStay, NoUserConcat DEF Resolvable
  <1> QED BY <1>1, <1>2 DEF Resolvable

LEMMA EndFunctionRefers == CInv /\ RInv /\ EndFunction => RInv'
PROOF
  <1> SUFFICES ASSUME CInv, RInv, EndFunction PROVE RInv'
    OBVIOUS
  <1>1. /\ status = "running" /\ Task.do = "endfunc" /\ func' = func \o Epilogue
        /\ text' = Append(text, LoadNil) /\ st' = ExitScope(st)
        /\ work' = <<>> \o Tail(work) /\ UNCHANGED <<rodata, data, status>>
    BY DEF EndFunction, Doing, Then
  <1>2. /\ TableOK(st) /\ LiveHeld(st) /\ Generated /\ Depth(st) = IF inFunc THEN 2 ELSE 1
    BY <1>1, CInvFacts
  <1>3. work \in Seq(Tasks) /\ work # <<>>
    BY <1>1, <1>2, TopTask
  <1>4. func \in Seq(Instructions) /\ text \in Seq(Instructions)
    BY <1>2 DEF Generated, Code, Shape
  <1>5. inFunc
    <2>1. PICK hf, ht, w, e, own : Code(func, text, work, labels, hf, ht, w, e, own) /\ inFunc = (e # 0)
      BY <1>2 DEF Generated
    <2>2. \A d \in 1 .. Len(work) : At(work, d).do = "endfunc" <=> d = e
      BY <2>1 DEF Code, Stack
    <2>3. Len(work) \in 1 .. Len(work) /\ Len(work) # 0 /\ Task = At(work, Len(work))
      BY <1>3, TaskOnTop DEF Task
    <2>4. e # 0
      BY <1>1, <2>2, <2>3
    <2> QED BY <2>1, <2>4
  <1>6. InfosMade(st.infos) /\ ScopesMade(st) /\ LiteralsPlaced(rodata) /\ TasksMade(work)
    BY DEF RInv
  <1>7. ScopesMade(st') /\ st'.infos = st.infos /\ (FunctionsHeld(st) => FunctionsHeld(st'))
    BY <1>1, <1>2, <1>5, <1>6, ExitMade
  <1>8. TasksMade(work')
    BY <1>1, <1>3, <1>6, NoTasks, FitsNone, TasksMadeAfter
  <1>9. text' = text \o << LoadNil >>
    BY <1>1, <1>4, NilFixed, AppendIsConcat, SomeNeutral DEF Instructions, BodyCode
  <1>10. ASSUME Clean(st'.infos)
         PROVE  FunctionsHeld(st') /\ Resolvable(func', text', data', rodata', st'.infos)
    <2>1. FunctionsHeld(st) /\ Resolvable(func, text, data, rodata, st.infos)
      BY <1>1, <1>7, <1>10 DEF RInv
    <2>2. Resolvable(func \o Epilogue, text, data, rodata, st.infos)
      BY <1>4, <2>1, EpilogueFixed, ResolvableFixed
    <2>3. func \o Epilogue \in Seq(Instructions)
      BY <1>4, EpilogueFixed, ConcatProperties
    <2>4. Resolvable(func \o Epilogue, text \o << LoadNil >>, data, rodata, st.infos)
      BY <1>4, <2>2, <2>3, NilFixed, ResolvableFixed
    <2> QED BY <1>1, <1>7, <1>9, <2>1, <2>4
  <1> QED BY <1>1, <1>6, <1>7, <1>8, <1>10 DEF RInv

LEMMA FinishRefers == CInv /\ RInv /\ Finish => RInv'
PROOF
  <1> SUFFICES ASSUME CInv, RInv, Finish PROVE RInv'
    OBVIOUS
  <1> DEFINE null == << <<"null">> >>
  <1>1. /\ status = "running" /\ text' = (text \o null) \o Epilogue
        /\ st' = DestroyTable(st) /\ status' = "done"
        /\ work' = <<>> \o Tail(work) /\ UNCHANGED <<func, rodata, data>>
    BY DEF Finish, Doing, Then
  <1>2. /\ TableOK(st) /\ LiveHeld(st) /\ Generated
    BY <1>1, CInvFacts
  <1>3. work \in Seq(Tasks) /\ work # <<>>
    BY <1>1, <1>2, TopTask
  <1>4. func \in Seq(Instructions) /\ text \in Seq(Instructions)
    BY <1>2 DEF Generated, Code, Shape
  <1>5. InfosMade(st.infos) /\ LiteralsPlaced(rodata) /\ TasksMade(work)
    BY DEF RInv
  <1>6. ScopesMade(st') /\ st'.infos = st.infos
    BY <1>1, <1>2, DestroyMade
  <1>7. TasksMade(work')
    BY <1>1, <1>3, <1>5, NoTasks, FitsNone, TasksMadeAfter
  <1>8. null \in Seq(Instructions) /\ NoUserLabels(null) /\ \A infos, ro : AllResolved(null, infos, ro)
    BY NullFixed
  <1> HIDE DEF null
  <1>9. ASSUME Clean(st'.infos)
         PROVE  Resolvable(func', text', data', rodata', st'.infos)
    <2>1. Resolvable(func, text, data, rodata, st.infos)
      BY <1>6, <1>9 DEF RInv
    <2>2. Resolvable(func, text \o null, data, rodata, st.infos)
      BY <1>4, <1>8, <2>1, ResolvableFixed
    <2>3. text \o null \in Seq(Instructions)
      BY <1>4, <1>8, ConcatProperties
    <2>4. Resolvable(func, (text \o null) \o Epilogue, data, rodata, st.infos)
      BY <1>4, <2>2, <2>3, EpilogueFixed, ResolvableFixed
    <2> QED BY <1>1, <1>6, <2>4
  <1> QED BY <1>1, <1>5, <1>6, <1>7, <1>9 DEF RInv

LEMMA SameRefers ==
  ASSUME RInv, UNCHANGED <<st, sections, work>>, status' = "done" => status = "done", status = "done" => status' = "done"
  PROVE  RInv'
PROOF
  <1>1. UNCHANGED <<func, text, rodata, data>>
    BY DEF sections
  <1> QED BY <1>1 DEF RInv

LEMMA RNext == CInv /\ RInv /\ [Compile]_vars => RInv'
PROOF
  <1> SUFFICES ASSUME CInv, RInv, [Compile]_vars PROVE RInv'
    OBVIOUS
  <1>1. CASE CompileNumber BY <1>1, CompileNumberRefers
  <1>2. CASE CompileSymbol BY <1>2, CompileSymbolRefers
  <1>3. CASE CompileNil BY <1>3, CompileNilRefers
  <1>4. CASE CompileIf BY <1>4, CompileIfRefers
  <1>5. CASE StartGlobal BY <1>5, StartGlobalRefers
  <1>6. CASE FinishGlobal BY <1>6, FinishGlobalRefers
  <1>7. CASE StartLocal BY <1>7, StartLocalRefers
  <1>8. CASE FinishLocal BY <1>8, FinishLocalRefers
  <1>9. CASE BeginFunction BY <1>9, BeginFunctionRefers
  <1>10. CASE DefineParam BY <1>10, DefineParamRefers
  <1>11. CASE EndFunction BY <1>11, EndFunctionRefers
  <1>12. CASE StartBuiltin BY <1>12, StartBuiltinRefers
  <1>13. CASE FinishBuiltin BY <1>13, FinishBuiltinRefers
  <1>14. CASE StartCall BY <1>14, StartCallRefers
  <1>15. CASE FinishCall BY <1>15, FinishCallRefers
  <1>16. CASE EmitTask BY <1>16, EmitTaskRefers
  <1>17. CASE Finish BY <1>17, FinishRefers
  <1>18. CASE Reject
    <2>1. UNCHANGED <<st, sections, work>> /\ status = "running" /\ status' = "failed"
      BY <1>18 DEF Reject, Rejected, Doing
    <2> QED BY <2>1, SameRefers
  <1>19. CASE Crash
    <2>1. UNCHANGED <<st, sections, work>> /\ status = "running" /\ status' = "crashed"
      BY <1>19 DEF Crash, Misused, Doing
    <2> QED BY <2>1, SameRefers
  <1>20. CASE UNCHANGED vars
    <2>1. UNCHANGED <<st, sections, work, status>>
      BY <1>20 DEF vars
    <2> QED BY <2>1, SameRefers
  <1> QED
    BY <1>1, <1>2, <1>3, <1>4, <1>5, <1>6, <1>7, <1>8, <1>9, <1>10, <1>11, <1>12, <1>13, <1>14,
       <1>15, <1>16, <1>17, <1>18, <1>19, <1>20 DEF Compile

-----------------------------------------------------------------------------
(* The first state *)

LEMMA FirstKinds == \A i \in 1 .. 6 : GlobalInfos[i].kind # "user"
PROOF
  <1> DEFINE a == Info(Define_, "special", <<>>)
             b == Info(If_, "special", <<>>)
             c == Info(Plus, "builtin", <<>>)
             d == Info(Minus, "builtin", <<>>)
             e == Info(True_, "global", TrueLabel)
             f == Info(False_, "global", NilLabel)
  <1>1. /\ a.kind # "user" /\ b.kind # "user" /\ c.kind # "user" /\ d.kind # "user"
        /\ e.kind # "user" /\ f.kind # "user"
    BY DEF Info
  <1>2. GlobalInfos = <<a, b, c, d, e, f>>
    BY DEF GlobalInfos
  <1> HIDE DEF a, b, c, d, e, f
  <1> SUFFICES ASSUME NEW i \in 1 .. 6 PROVE GlobalInfos[i].kind # "user"
    OBVIOUS
  <1>3. i = 1 \/ i = 2 \/ i = 3 \/ i = 4 \/ i = 5 \/ i = 6
    OBVIOUS
  <1> QED BY <1>1, <1>2, <1>3

LEMMA RInit == Init => RInv
PROOF
  <1> SUFFICES ASSUME Init PROVE RInv
    OBVIOUS
  <1>1. /\ program \in Seq(Exprs) /\ st = GlobalScope /\ func = <<>>
        /\ text = << <<"label", MainLabel>> >> \o Prologue /\ rodata = <<>>
        /\ data = <<TrueLabel, NilLabel>>
        /\ work = [i \in DOMAIN program |-> Expr(program[i])] \o << [do |-> "finish"] >>
    BY CodegenAssumption DEF Init
  <1>2. st.infos = GlobalInfos /\ Depth(st) = 1 /\ Len(GlobalInfos) = 6
    BY <1>1, GlobalTable, SixInfos
  <1>3. UserIds(GlobalInfos) = {} /\ GlobalIds(GlobalInfos) = {} /\ NamedIds(GlobalInfos) = {}
    <2>1. \A i \in 7 .. 6 : FALSE
      OBVIOUS
    <2>2. GlobalIds(GlobalInfos) = {}
      BY <1>2, <2>1 DEF GlobalIds
    <2>3. UserIds(GlobalInfos) = {}
      BY <1>2, FirstKinds DEF UserIds
    <2> QED BY <2>2, <2>3 DEF NamedIds
  <1>4. InfosMade(st.infos)
    BY <1>2, <1>3 DEF InfosMade, NamedIds
  <1>5. ScopesMade(st)
    <2>1. \A d \in 2 .. 1 : FALSE
      OBVIOUS
    <2>2. ASSUME NEW d \in 1 .. 1, NEW n \in Names, st.scopes[d].map[n] # NoInfo
          PROVE  st.infos[st.scopes[d].map[n]].name = n
      <3> DEFINE Known(k) == {id \in DOMAIN GlobalInfos : GlobalInfos[id].name = k}
                 m == [k \in Names |-> IF Known(k) = {} THEN NoInfo ELSE CHOOSE id \in Known(k) : TRUE]
      <3>1. st.scopes = << [map |-> m, offset |-> 0] >>
        BY <1>1 DEF GlobalScope
      <3>2. m[n] # NoInfo => m[n] \in Known(n)
        OBVIOUS
      <3> HIDE DEF m
      <3>3. st.scopes[1].map = m /\ d = 1
        BY <3>1
      <3> QED BY <1>2, <2>2, <3>2, <3>3
    <2> QED BY <1>2, <2>1, <2>2 DEF ScopesMade
  <1>6. TasksMade(work)
    <2>1. /\ work \in Seq(Tasks) /\ Len(work) \in Nat \ {0} /\ At(work, 1) = [do |-> "finish"]
          /\ \A d \in 2 .. Len(work) : \E e \in Exprs : At(work, d) = Expr(e)
      BY <1>1, FirstTasks
    <2>2. ASSUME NEW d \in 1 .. Len(work) PROVE At(work, d).do \in {"finish", "expr"}
      <3>1. d = 1 \/ d \in 2 .. Len(work)
        BY <2>1
      <3>2. \A e : Expr(e).do = "expr"
        BY DEF Expr
      <3> QED BY <2>1, <3>1, <3>2
    <2> QED BY <2>2 DEF TasksMade
  <1>7. LiteralsPlaced(rodata)
    <2>1. \A j \in 1 .. Len(<<>>) : FALSE
      OBVIOUS
    <2> QED BY <1>1, <2>1 DEF LiteralsPlaced
  <1>8. FunctionsHeld(st)
    BY <1>2, <1>3 DEF FunctionsHeld
  <1>9. Resolvable(func, text, data, rodata, st.infos)
    <2>1. \A j \in 1 .. Len(<<>>) : FALSE
      OBVIOUS
    <2>2. AllResolved(func, st.infos, rodata) /\ FunctionsPlaced(func, st.infos)
      BY <1>1, <1>2, <1>3, <2>1 DEF AllResolved, FunctionsPlaced
    <2>3. GlobalsPlaced(data, st.infos)
      <3>1. Len(data) = 2 /\ data[1] = TrueLabel /\ data[2] = NilLabel /\ \A j \in 3 .. 2 : FALSE
        BY <1>1
      <3> QED BY <1>2, <1>3, <3>1 DEF GlobalsPlaced
    <2>4. NoUserLabels(text) /\ AllResolved(text, st.infos, rodata)
      <3> DEFINE a == <<"label", MainLabel>>
                 b == <<"push", "rbp">>
                 c == <<"mov", "rbp", "rsp">>
      <3>1. text = <<a, b, c>>
        BY <1>1, OneAndTwo DEF Prologue
      <3>2. a[1] = "label" /\ a[2] = MainLabel /\ b[1] = "push" /\ c[1] = "mov"
        OBVIOUS
      <3> HIDE DEF a, b, c
      <3>3. Fixed(a) /\ Fixed(b) /\ Fixed(c)
        BY <3>2 DEF Fixed
      <3>4. Len(text) = 3 /\ text[1] = a /\ text[2] = b /\ text[3] = c /\ \A i \in 1 .. 3 : i = 1 \/ i = 2 \/ i = 3
        BY <3>1
      <3>5. \A i \in 1 .. Len(text) : Fixed(text[i])
        BY <3>3, <3>4
      <3> QED BY <3>5, FixedCode
    <2> QED BY <2>2, <2>3, <2>4 DEF Resolvable
  <1> QED BY <1>4, <1>5, <1>6, <1>7, <1>8, <1>9 DEF RInv

LEMMA ReferencesKept == Spec => []RInv
PROOF
  <1>1. Init => CInv /\ RInv
    BY CInit, RInit
  <1>2. (CInv /\ RInv) /\ [Compile]_vars => (CInv /\ RInv)'
    BY CNext, RNext
  <1> QED BY <1>1, <1>2, PTL DEF Spec

-----------------------------------------------------------------------------
(* The definitions of a label *)

\* Where labels are defined, by what they are made of.
LEMMA FirstParts ==
  /\ \A l \in UserLabels : l[1] = "user"
  /\ \A l \in DataLabels : l[1] = "G"
  /\ \A l \in LocalLabels : l[1] \in {"L_if_else", "L_if_end"}
  /\ \A l \in LiteralLabels : l[1] = "L_double"
  /\ MainLabel[1] = "main"
BY DEF UserLabels, DataLabels, LocalLabels, LiteralLabels, MainLabel

LEMMA PlacesOf ==
  ASSUME NEW code \in Seq(Instructions), NEW l
  PROVE  /\ LabelPlaces(code, l) = {i \in 1 .. Len(code) : code[i] = <<"label", l>>}
         /\ l \notin LocalLabels \cup UserLabels \cup {MainLabel} => LabelPlaces(code, l) = {}
PROOF
  <1>1. DOMAIN code = 1 .. Len(code) /\ \A i \in 1 .. Len(code) : code[i] \in Instructions
    OBVIOUS
  <1>2. ASSUME NEW i \in 1 .. Len(code)
        PROVE  (code[i][1] = "label" /\ code[i][2] = l) <=> code[i] = <<"label", l>>
    BY <1>1, LabelInstruction
  <1>3. LabelPlaces(code, l) = {i \in 1 .. Len(code) : code[i] = <<"label", l>>}
    BY <1>1, <1>2 DEF LabelPlaces, Positions, IsCode
  <1>4. ASSUME l \notin LocalLabels \cup UserLabels \cup {MainLabel}, NEW i \in 1 .. Len(code),
               code[i] = <<"label", l>>
        PROVE  FALSE
    BY <1>1, <1>4, LabelInstruction
  <1> QED BY <1>3, <1>4

\* The places of a label, section by section.
InData(l)   == {i \in DOMAIN data : data[i] = l}
InRodata(l) == {i \in DOMAIN rodata : rodata[i][1] = l}

LEMMA ElsewhereNot ==
  ASSUME DataOK, func \in Seq(Instructions), text \in Seq(Instructions)
  PROVE  /\ \A l : l \notin DataLabels => InData(l) = {}
         /\ \A l : l \notin LiteralLabels => InRodata(l) = {}
         /\ \A l \in UserLabels \cup LocalLabels : l \notin DataLabels /\ l \notin LiteralLabels
         /\ \A l \in DataLabels : l \notin LiteralLabels
         /\ \A l \in DataLabels \cup LiteralLabels : LabelPlaces(func, l) = {} /\ LabelPlaces(text, l) = {}
PROOF
  <1>1. data \in Seq(DataLabels) /\ rodata \in Seq(({"L_double"} \X Nat) \X Int)
    BY DEF DataOK
  <1>2. \A i \in DOMAIN data : data[i] \in DataLabels
    BY <1>1
  <1>3. \A i \in DOMAIN rodata : rodata[i][1] \in LiteralLabels
    BY <1>1 DEF LiteralLabels
  <1>4. \A l \in UserLabels \cup LocalLabels : l \notin DataLabels /\ l \notin LiteralLabels
    <2>1. \A l \in UserLabels \cup LocalLabels : l[1] \notin {"G", "L_double"}
      BY FirstParts
    <2> QED BY <2>1, FirstParts
  <1>5. \A l \in DataLabels : l \notin LiteralLabels
    BY FirstParts
  <1>6. \A l \in DataLabels \cup LiteralLabels : l \notin LocalLabels \cup UserLabels \cup {MainLabel}
    <2>1. \A l \in DataLabels \cup LiteralLabels : l[1] \in {"G", "L_double"}
      BY FirstParts
    <2> QED BY <2>1, FirstParts
  <1>7. ASSUME NEW l \in DataLabels \cup LiteralLabels PROVE LabelPlaces(func, l) = {} /\ LabelPlaces(text, l) = {}
    BY <1>6, PlacesOf
  <1>8. ASSUME NEW l, l \notin DataLabels PROVE InData(l) = {}
    BY <1>2, <1>8 DEF InData
  <1>9. ASSUME NEW l, l \notin LiteralLabels PROVE InRodata(l) = {}
    BY <1>3, <1>9 DEF InRodata
  <1> QED BY <1>4, <1>5, <1>7, <1>8, <1>9

LEMMA OneDefinition ==
  ASSUME NEW l, NEW s, NEW j,
         \/ LabelPlaces(func, l) = {j} /\ LabelPlaces(text, l) = {} /\ InData(l) = {} /\ InRodata(l) = {}
         \/ LabelPlaces(func, l) = {} /\ LabelPlaces(text, l) = {j} /\ InData(l) = {} /\ InRodata(l) = {}
         \/ LabelPlaces(func, l) = {} /\ LabelPlaces(text, l) = {} /\ InData(l) = {j} /\ InRodata(l) = {}
         \/ LabelPlaces(func, l) = {} /\ LabelPlaces(text, l) = {} /\ InData(l) = {} /\ InRodata(l) = {j}
  PROVE  DefinedOnce(l)
PROOF
  <1> DEFINE a == LabelPlaces(func, l)
             b == LabelPlaces(text, l)
             c == InData(l)
             d == InRodata(l)
  <1>1. Definitions(l) = ({"func"} \X a) \cup ({"text"} \X b) \cup ({"data"} \X c) \cup ({"rodata"} \X d)
    BY DEF Definitions, InData, InRodata
  <1>2. \/ a = {j} /\ b = {} /\ c = {} /\ d = {}
        \/ a = {} /\ b = {j} /\ c = {} /\ d = {}
        \/ a = {} /\ b = {} /\ c = {j} /\ d = {}
        \/ a = {} /\ b = {} /\ c = {} /\ d = {j}
    OBVIOUS
  <1> HIDE DEF a, b, c, d
  <1>3. \A x : {x} \X {} = {} /\ {x} \X {j} = {<<x, j>>}
    OBVIOUS
  <1>4. \E x : Definitions(l) = {x}
    <2>1. CASE a = {j} /\ b = {} /\ c = {} /\ d = {}
      <3>1. Definitions(l) = {<<"func", j>>}
        BY <1>1, <1>3, <2>1
      <3> QED BY <3>1
    <2>2. CASE a = {} /\ b = {j} /\ c = {} /\ d = {}
      <3>1. Definitions(l) = {<<"text", j>>}
        BY <1>1, <1>3, <2>2
      <3> QED BY <3>1
    <2>3. CASE a = {} /\ b = {} /\ c = {j} /\ d = {}
      <3>1. Definitions(l) = {<<"data", j>>}
        BY <1>1, <1>3, <2>3
      <3> QED BY <3>1
    <2>4. CASE a = {} /\ b = {} /\ c = {} /\ d = {j}
      <3>1. Definitions(l) = {<<"rodata", j>>}
        BY <1>1, <1>3, <2>4
      <3> QED BY <3>1
    <2> QED BY <1>2, <2>1, <2>2, <2>3, <2>4
  <1> QED BY <1>4, FS_Singleton DEF DefinedOnce

LEMMA FunctionDefined ==
  ASSUME CInv, NEW infos, InfosMade(infos), FunctionsPlaced(func, infos), NoUserLabels(text),
         NEW id \in UserIds(infos)
  PROVE  DefinedOnce(FuncLabel(infos[id].name))
PROOF
  <1> DEFINE l == FuncLabel(infos[id].name)
  <1>1. DataOK /\ func \in Seq(Instructions) /\ text \in Seq(Instructions)
    BY DEF CInv, Base, Generated, Code, Shape
  <1>2. l \in UserLabels
    <2>1. infos[id].name \in Names
      BY DEF InfosMade, NamedIds
    <2> QED BY <2>1, MadeLabels
  <1>3. PICK j \in 1 .. Len(func) : func[j] = <<"label", l>>
    BY DEF FunctionsPlaced
  <1> HIDE DEF l
  <1>4. \A k \in 1 .. Len(func) : func[k] = <<"label", l>> => k = j
    BY <1>2, <1>3 DEF FunctionsPlaced
  <1>5. LabelPlaces(func, l) = {j}
    BY <1>1, <1>3, <1>4, PlacesOf
  <1>6. LabelPlaces(text, l) = {}
    BY <1>1, <1>2, PlacesOf DEF NoUserLabels
  <1>7. InData(l) = {} /\ InRodata(l) = {}
    BY <1>1, <1>2, ElsewhereNot
  <1>8. DefinedOnce(l)
    BY <1>5, <1>6, <1>7, OneDefinition
  <1> QED BY <1>8 DEF l

LEMMA DataDefined ==
  ASSUME CInv, NEW infos, InfosMade(infos), Clean(infos), GlobalsPlaced(data, infos), NEW l,
         l \in {TrueLabel, NilLabel} \/ \E id \in GlobalIds(infos) : l = GlobalLabel(infos[id].name)
  PROVE  DefinedOnce(l)
PROOF
  <1>1. DataOK /\ func \in Seq(Instructions) /\ text \in Seq(Instructions)
    BY DEF CInv, Base, Generated, Code, Shape
  <1>2. /\ Len(data) \in Nat /\ Len(data) >= 2 /\ data[1] = TrueLabel /\ data[2] = NilLabel
        /\ DOMAIN data = 1 .. Len(data)
    BY <1>1 DEF GlobalsPlaced, DataOK
  <1>3. TrueLabel # NilLabel
    <2>1. TrueLabel[5] = "TRUE" /\ NilLabel[5] = "NIL"
      BY DEF TrueLabel, NilLabel
    <2> QED BY <2>1
  <1>4. ASSUME NEW id \in GlobalIds(infos)
        PROVE  GlobalLabel(infos[id].name) \notin {TrueLabel, NilLabel} /\ GlobalLabel(infos[id].name) \in DataLabels
    <2>1. id \in NamedIds(infos)
      BY DEF NamedIds
    <2> QED BY <2>1, MadeLabels DEF Clean, InfosMade
  <1>5. ASSUME NEW k \in 3 .. Len(data) PROVE data[k] \notin {TrueLabel, NilLabel}
    <2>1. PICK id \in GlobalIds(infos) : data[k] = GlobalLabel(infos[id].name)
      BY DEF GlobalsPlaced
    <2> QED BY <1>4, <2>1
  <1>6. \A k \in 1 .. Len(data) : k = 1 \/ k = 2 \/ k \in 3 .. Len(data)
    BY <1>2
  <1>7. 1 \in 1 .. Len(data) /\ 2 \in 1 .. Len(data) /\ \A k \in 3 .. Len(data) : k \in 1 .. Len(data)
    BY <1>2
  <1>8. \E j \in 1 .. Len(data) : data[j] = l /\ \A k \in 1 .. Len(data) : data[k] = l => k = j
    <2>1. CASE l = TrueLabel
      BY <1>2, <1>3, <1>5, <1>6, <1>7, <2>1
    <2>2. CASE l = NilLabel
      BY <1>2, <1>3, <1>5, <1>6, <1>7, <2>2
    <2>3. CASE \E id \in GlobalIds(infos) : l = GlobalLabel(infos[id].name)
      <3>1. PICK id \in GlobalIds(infos) : l = GlobalLabel(infos[id].name)
        BY <2>3
      <3>2. PICK j \in 3 .. Len(data) : data[j] = l
        BY <3>1 DEF GlobalsPlaced
      <3>3. \A k \in 3 .. Len(data) : data[k] = l => k = j
        BY <3>2 DEF GlobalsPlaced
      <3>4. l # TrueLabel /\ l # NilLabel
        BY <1>4, <3>1
      <3> QED BY <1>2, <1>6, <1>7, <3>2, <3>3, <3>4
    <2> QED BY <2>1, <2>2, <2>3
  <1>9. l \in DataLabels
    BY <1>4, SomeNeutral
  <1>10. PICK j \in 1 .. Len(data) : data[j] = l /\ \A k \in 1 .. Len(data) : data[k] = l => k = j
    BY <1>8
  <1>11. InData(l) = {j}
    BY <1>2, <1>10 DEF InData
  <1>12. InRodata(l) = {} /\ LabelPlaces(func, l) = {} /\ LabelPlaces(text, l) = {}
    BY <1>1, <1>9, ElsewhereNot
  <1> QED BY <1>11, <1>12, OneDefinition

LEMMA LiteralDefined ==
  ASSUME CInv, LiteralsPlaced(rodata), NEW k \in 1 .. Len(rodata)
  PROVE  DefinedOnce(rodata[k][1])
PROOF
  <1> DEFINE l == rodata[k][1]
  <1>1. DataOK /\ func \in Seq(Instructions) /\ text \in Seq(Instructions)
    BY DEF CInv, Base, Generated, Code, Shape
  <1>2. rodata \in Seq(({"L_double"} \X Nat) \X Int) /\ DOMAIN rodata = 1 .. Len(rodata)
    BY <1>1 DEF DataOK
  <1>3. l \in LiteralLabels
    BY <1>2 DEF LiteralLabels
  <1>4. \A j \in 1 .. Len(rodata) : rodata[j][1] = l => j = k
    BY DEF LiteralsPlaced
  <1>5. InRodata(l) = {k}
    BY <1>2, <1>4 DEF InRodata
  <1> HIDE DEF l
  <1>6. l \notin DataLabels
    BY <1>3, FirstParts
  <1>7. InData(l) = {} /\ LabelPlaces(func, l) = {} /\ LabelPlaces(text, l) = {}
    BY <1>1, <1>3, <1>6, ElsewhereNot
  <1>8. DefinedOnce(l)
    BY <1>5, <1>7, OneDefinition
  <1> QED BY <1>8 DEF l

LEMMA BranchDefined ==
  ASSUME CInv, status = "done", NEW code \in {func, text}, NEW i \in 1 .. Len(code), code[i][1] \in {"je", "jmp"}
  PROVE  DefinedOnce(code[i][2])
PROOF
  <1> DEFINE l == code[i][2]
  <1>1. Generated /\ work = <<>> /\ DataOK
    BY DEF CInv, Generated, Base
  <1>2. PICK hf, ht, w, e, own : Code(func, text, work, labels, hf, ht, w, e, own)
    BY <1>1 DEF Generated
  <1>3. FuncTasks(work, e) = {} /\ MainTasks(work, e) = {}
    <2>1. \A d \in 1 .. Len(work) : FALSE
      BY <1>1
    <2> QED BY <2>1 DEF FuncTasks, MainTasks
  <1>4. PICK h : Shape(code, h) /\ Branched(code, h, work, w, {})
    BY <1>2, <1>3 DEF Code
  <1>5. Placed(func, text, work, labels, own) /\ func \in Seq(Instructions) /\ text \in Seq(Instructions)
    BY <1>2 DEF Code, Shape
  <1>6. code[i] \in Instructions
    BY <1>4 DEF Shape
  <1>7. BranchTo(code[i], l) /\ l \in LocalLabels
    BY <1>6, BranchInstruction
  <1>8. PICK j \in 1 .. Len(code) : Landed(code, h, i, j, l)
    BY <1>4, <1>7 DEF Branched
  <1>9. code[j] = <<"label", l>>
    BY <1>8 DEF Landed
  <1>10. InData(l) = {} /\ InRodata(l) = {}
    BY <1>1, <1>5, <1>7, ElsewhereNot
  <1> HIDE DEF l
  <1>11. \A k \in 1 .. Len(code) : code[k] = <<"label", l>> => k = j
    BY <1>5, <1>7, <1>9, LabelOwned
  <1>12. LabelPlaces(code, l) = {j}
    BY <1>5, <1>9, <1>11, PlacesOf
  <1>13. \/ LabelPlaces(func, l) = {j} /\ LabelPlaces(text, l) = {}
         \/ LabelPlaces(func, l) = {} /\ LabelPlaces(text, l) = {j}
    <2>1. CASE code = func
      <3>1. own[l] = <<"func", j>>
        BY <1>5, <1>7, <1>9, <2>1 DEF Placed
      <3>2. ASSUME NEW k \in 1 .. Len(text) PROVE text[k] # <<"label", l>>
        <4>1. text[k] = <<"label", l>> => own[l] = <<"text", k>>
          BY <1>5, <1>7 DEF Placed
        <4> QED BY <3>1, <4>1
      <3>3. LabelPlaces(text, l) = {}
        BY <1>5, <3>2, PlacesOf
      <3> QED BY <1>12, <2>1, <3>3
    <2>2. CASE code = text
      <3>1. own[l] = <<"text", j>>
        BY <1>5, <1>7, <1>9, <2>2 DEF Placed
      <3>2. ASSUME NEW k \in 1 .. Len(func) PROVE func[k] # <<"label", l>>
        <4>1. func[k] = <<"label", l>> => own[l] = <<"func", k>>
          BY <1>5, <1>7 DEF Placed
        <4> QED BY <3>1, <4>1
      <3>3. LabelPlaces(func, l) = {}
        BY <1>5, <3>2, PlacesOf
      <3> QED BY <1>12, <2>2, <3>3
    <2> QED BY <2>1, <2>2
  <1>14. DefinedOnce(l)
    BY <1>10, <1>13, OneDefinition
  <1> QED BY <1>14 DEF l

\* What CleanNames says of the informations.
LEMMA NamesClean == InfosMade(st.infos) /\ CleanNames => Clean(st.infos)
PROOF
  <1> SUFFICES ASSUME InfosMade(st.infos), CleanNames PROVE Clean(st.infos)
    OBVIOUS
  <1>1. Len(GlobalScope.infos) = 6
    BY GlobalTable, SixInfos
  <1>2. ASSUME NEW a \in NamedIds(st.infos) PROVE a \in Globals
    <2>1. a \in 1 .. Len(st.infos) /\ st.infos[a].kind \in {"global", "user"}
      BY DEF NamedIds, UserIds, GlobalIds
    <2>2. a > 6
      <3>1. CASE a \in GlobalIds(st.infos)
        BY <3>1 DEF GlobalIds
      <3>2. CASE a \in UserIds(st.infos)
        <4>1. a \in 1 .. Len(st.infos) /\ Len(st.infos) \in Nat /\ st.infos[a].kind = "user"
          BY <3>2 DEF UserIds, InfosMade
        <4>2. ASSUME a \in 1 .. 6 PROVE FALSE
          <5>1. GlobalInfos[a].kind = "user"
            BY <4>1, <4>2 DEF InfosMade
          <5> QED BY <4>2, <5>1, FirstKinds
        <4> QED BY <4>1, <4>2
      <3> QED BY <3>1, <3>2 DEF NamedIds
    <2> QED BY <1>1, <2>1, <2>2 DEF Globals
  <1>3. ASSUME NEW a \in NamedIds(st.infos)
        PROVE  /\ \A i \in DOMAIN st.infos[a].name : st.infos[a].name[i] # "#"
               /\ GlobalLabel(st.infos[a].name) \notin {TrueLabel, NilLabel}
               /\ \A b \in NamedIds(st.infos) : a # b => Sanitize(st.infos[a].name) # Sanitize(st.infos[b].name)
    BY <1>2 DEF CleanNames
  <1> QED BY <1>3 DEF Clean

LEMMA ReferencesFollow == CInv /\ RInv => ReferencesResolve
PROOF
  <1> DEFINE Ops == {"call", "lea", "load", "store", "movsd", "cmp", "je", "jmp"}
  <1> SUFFICES ASSUME CInv, RInv, status = "done", CleanNames, NEW label \in References
               PROVE  label \in Runtime \/ DefinedOnce(label)
    BY DEF ReferencesResolve
  <1>1. PICK code \in {func, text} : \E i \in UNION {Positions(code, op) : op \in Ops} : label = code[i][2]
    BY DEF References
  <1>2. PICK i \in UNION {Positions(code, op) : op \in Ops} : label = code[i][2]
    BY <1>1
  <1>3. func \in Seq(Instructions) /\ text \in Seq(Instructions)
    BY DEF CInv, Generated, Code, Shape
  <1>4. i \in 1 .. Len(code) /\ code[i][1] \in Ops
    BY <1>1, <1>2, <1>3 DEF Positions, IsCode
  <1>5. InfosMade(st.infos) /\ LiteralsPlaced(rodata) /\ Clean(st.infos)
    BY NamesClean DEF RInv
  <1>6. Resolvable(func, text, data, rodata, st.infos)
    BY <1>5 DEF RInv
  <1>7. Resolved(code[i], st.infos, rodata)
    BY <1>1, <1>4, <1>6 DEF Resolvable, AllResolved
  <1>8. CASE code[i][1] = "call"
    <2>1. label \in Runtime \/ \E id \in UserIds(st.infos) : label = FuncLabel(st.infos[id].name)
      BY <1>2, <1>7, <1>8 DEF Resolved
    <2>2. ASSUME NEW id \in UserIds(st.infos) PROVE DefinedOnce(FuncLabel(st.infos[id].name))
      BY <1>5, <1>6, FunctionDefined DEF Resolvable
    <2> QED BY <2>1, <2>2
  <1>9. CASE code[i][1] \in {"lea", "load", "store", "cmp"}
    <2>1. label \in {TrueLabel, NilLabel} \/ \E id \in GlobalIds(st.infos) : label = GlobalLabel(st.infos[id].name)
      BY <1>2, <1>7, <1>9 DEF Resolved
    <2> QED BY <1>5, <1>6, <2>1, DataDefined DEF Resolvable
  <1>10. CASE code[i][1] = "movsd"
    <2>1. PICK k \in 1 .. Len(rodata) : label = rodata[k][1]
      BY <1>2, <1>7, <1>10 DEF Resolved
    <2> QED BY <1>5, <2>1, LiteralDefined
  <1>11. CASE code[i][1] \in {"je", "jmp"}
    BY <1>1, <1>2, <1>4, <1>11, BranchDefined
  <1> QED BY <1>4, <1>8, <1>9, <1>10, <1>11

\* Whatever a compiled program refers to is defined exactly once, in whatever section,
\* or is in the runtime, when its names make labels of their own.
THEOREM EveryReferenceResolves == Spec => []ReferencesResolve
PROOF
  <1> QED BY CodegenInvariant, ReferencesKept, ReferencesFollow, PTL
=============================================================================
