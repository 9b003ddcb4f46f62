------------------------------ MODULE Codegen ------------------------------
(***************************************************************************)
(* The code generator of codegen.c: compile_program and the handlers it    *)
(* reaches, from the syntax tree of a program to the contents of the       *)
(* assembly sections.                                                      *)
(*                                                                         *)
(* The C functions are mutually recursive.  What remains to be done when a *)
(* sub-expression has been compiled is kept on the stack work: a task is   *)
(* an expression to compile, instructions to emit, or the part of a        *)
(* handler that follows its last recursive call.  Every action performs    *)
(* the task on top of the stack.                                           *)
(*                                                                         *)
(* Expressions are records: numbers, symbols, strings and lists.  A name   *)
(* is the sequence of its characters, a run of letters and digits counting *)
(* as one, because the labels are computed from the characters.  An        *)
(* instruction is a tuple headed by its operation.                         *)
(***************************************************************************)
EXTENDS Scope, Integers, FiniteSets, SequencesExt

CONSTANTS
  Exprs,        \* the expressions of which programs are made
  Programs,     \* the programs to compile, each a sequence of expressions
  LabelBufSize  \* the size of label_buf, 256 in the code

VARIABLES
  program, \* the program being compiled
  st,      \* ctx->sym_table
  func,    \* the section files: functions,
  text,    \*   main,
  rodata,  \*   number literals,
  data,    \*   and labels of global variables
  inFunc,  \* text_file is func_file and func_file is NULL
  labels,  \* label_counter
  work,    \* what is left to do, next task first
  status   \* "running", "done", "failed" after exit, "crashed"

sections == <<func, text, rodata, data>>
vars == <<program, st, sections, inFunc, labels, work, status>>

-----------------------------------------------------------------------------
(* Expressions *)

Num(v)   == [t |-> "num", v |-> v]
Sym(s)   == [t |-> "sym", s |-> s]
Str(s)   == [t |-> "str", s |-> s]
List(es) == [t |-> "list", es |-> es]

\* The names the compiler knows.
Define_ == <<"define">>
If_     == <<"if">>
Plus    == <<"+">>
Minus   == <<"-">>
True_   == <<"#", "t">>
False_  == <<"#", "f">>

\* What the parser delivers: atoms, and lists of such expressions.  The names
\* above are among those in use.
Atoms == [t : {"num"}, v : Int] \cup [t : {"sym", "str"}, s : Names]

ASSUME CodegenAssumption ==
  /\ Names \subseteq Seq(STRING)
  /\ {Define_, If_, Plus, Minus, True_, False_} \subseteq Names
  /\ Exprs \subseteq Atoms \cup [t : {"list"}, es : Seq(Exprs)]
  /\ Programs \subseteq Seq(Exprs)
  /\ LabelBufSize \in Nat

\* An atom whose characters are read where a name is expected.  A string has
\* them where a symbol has; a number has its binary digits there, and a list
\* its length, neither of which is an address.
HasName(e) == e.t \in {"sym", "str"}

-----------------------------------------------------------------------------
(* Labels *)

Punctuation == {"!", "#", "$", "%", "&", "*", "+", "-", ".", "/", ":", "<",
                "=", ">", "?", "@", "^", "_", "~"}

\* What labels are made of: prefixes, underscores and the characters of names.
LabelChars ==
  {"G", "_", "user", "func", "LISP", "TRUE", "NIL"} \cup UNION {ToSet(name) : name \in Names}

\* mutated: nothing is replaced
SanitizeNothing(name) == name

\* sanitize_label leaves alphanumeric characters and the number sign.
Sanitize(name) ==
  [i \in DOMAIN name |-> IF name[i] \in Punctuation \ {"#"} THEN "_" ELSE name[i]]

\* mutate_func_name leaves alphanumeric characters and the underscore.
Mutate(label) ==
  [i \in DOMAIN label |-> IF label[i] \in Punctuation \ {"_"} THEN "_" ELSE label[i]]

GlobalPrefix == <<"G", "_">>
FuncPrefix   == <<"user", "_", "func", "_">>
GlobalLabel(name) == GlobalPrefix \o Sanitize(name)
FuncLabel(name)   == FuncPrefix \o Sanitize(name)
FitsBuffer(prefix, name) == Len(prefix) + Len(name) + 1 <= LabelBufSize

TrueLabel == <<"G", "_", "LISP", "_", "TRUE">>
NilLabel  == <<"G", "_", "LISP", "_", "NIL">>

\* Labels made from label_counter.
DoubleLabel(i) == <<"L_double", i>>
\* mutated: without the counter
ElseLabelFixed(i) == <<"L_if_else", 0>>
ElseLabel(i)   == <<"L_if_else", i>>
EndLabel(i)    == <<"L_if_end", i>>

-----------------------------------------------------------------------------
(* Tasks and output *)

Expr(e)       == [do |-> "expr", e |-> e]
Emitted(code) == [do |-> "emit", code |-> code]

Task == Head(work)
Doing(kind) == status = "running" /\ work # <<>> /\ Task.do = kind
Then(tasks) == work' = tasks \o Tail(work)

\* fprintf to text_file, which is the function file inside a function.
Emit(code) ==
  IF inFunc THEN func' = func \o code /\ UNCHANGED text
            ELSE text' = text \o code /\ UNCHANGED func

ArgRegisters == <<"rdi", "rsi", "rdx", "rcx", "r8", "r9">>
MaxArgs == Len(ArgRegisters)

PushRax  == <<"push", "rax">>
LoadNil  == <<"lea", NilLabel>>
\* mutated: rbp is not saved
PrologueWithoutPush == << <<"mov", "rbp", "rsp">> >>
Prologue == << <<"push", "rbp">>, <<"mov", "rbp", "rsp">> >>
\* mutated: no return
EpilogueWithoutRet == << <<"mov", "rsp", "rbp">>, <<"pop", "rbp">> >>
Epilogue == << <<"mov", "rsp", "rbp">>, <<"pop", "rbp">>, <<"ret">> >>

-----------------------------------------------------------------------------
(* compile_program, up to the first expression *)

MainLabel == <<"main">>

\* populate_global_scope
GlobalInfos ==
  << Info(Define_, "special", <<>>), Info(If_, "special", <<>>),
     Info(Plus, "builtin", <<>>), Info(Minus, "builtin", <<>>),
     Info(True_, "global", TrueLabel), Info(False_, "global", NilLabel) >>

GlobalScope ==
  LET Known(n) == {id \in DOMAIN GlobalInfos : GlobalInfos[id].name = n}
  IN  [scopes |-> << [map    |-> [n \in Names |-> IF Known(n) = {} THEN NoInfo
                                                  ELSE CHOOSE id \in Known(n) : TRUE],
                      offset |-> 0] >>,
       infos  |-> GlobalInfos,
       freed  |-> {}]

Init ==
  /\ program \in Programs
  /\ st = GlobalScope
  /\ func = <<>>
  /\ text = << <<"label", MainLabel>> >> \o Prologue
  /\ rodata = <<>>
  /\ data = <<TrueLabel, NilLabel>>
  /\ inFunc = FALSE
  /\ labels = 0
  /\ work = [i \in DOMAIN program |-> Expr(program[i])] \o << [do |-> "finish"] >>
  /\ status = "running"

-----------------------------------------------------------------------------
(* compile_atom *)

CompileNumber ==
  /\ Doing("expr")
  /\ Task.e.t = "num"
  /\ rodata' = Append(rodata, <<DoubleLabel(labels), Task.e.v>>)
  /\ labels' = labels + 1
  /\ Emit(<< <<"movsd", DoubleLabel(labels)>>, <<"call", <<"lisp_make_number">> >> >>)
  /\ Then(<<>>)
  /\ UNCHANGED <<program, st, data, inFunc, status>>

IsVariable(id) == id # NoInfo /\ st.infos[id].kind \in {"local", "global"}

\* The constants #t and #f are addresses, the other global variables contents.
LoadVariable(info) ==
  IF info.kind = "local" THEN <<"loadslot", info.offset>>
  ELSE IF info.name \in {True_, False_} THEN <<"lea", info.label>>
  ELSE <<"load", info.label>>

CompileSymbol ==
  /\ Doing("expr")
  /\ Task.e.t = "sym"
  /\ IsVariable(Lookup(st, Task.e.s))
  /\ Emit(<< LoadVariable(st.infos[Lookup(st, Task.e.s)]) >>)
  /\ Then(<<>>)
  /\ UNCHANGED <<program, st, rodata, data, inFunc, labels, status>>

-----------------------------------------------------------------------------
(* compile_list *)

\* The kind of the operator of a list, "none" when there is none to look up.
OpId(e) == IF e.es[1].t = "sym" THEN Lookup(st, e.es[1].s) ELSE NoInfo
OpKind(e) ==
  IF e.t # "list" \/ e.es = <<>> THEN "none"
  ELSE IF OpId(e) = NoInfo THEN "unknown" ELSE st.infos[OpId(e)].kind

IsForm(e, name) == OpKind(e) = "special" /\ e.es[1].s = name
IsDefine(e)     == IsForm(e, Define_) /\ Len(e.es) >= 3
DefinesVariable(e) == IsDefine(e) /\ e.es[2].t # "list"
DefinesFunction(e) == IsDefine(e) /\ e.es[2].t = "list"

CompileNil ==
  /\ Doing("expr")
  /\ Task.e = List(<<>>)
  /\ Emit(<< LoadNil >>)
  /\ Then(<<>>)
  /\ UNCHANGED <<program, st, rodata, data, inFunc, labels, status>>

CompileIf ==
  LET e       == Task.e
      else    == ElseLabel(labels)
      end     == EndLabel(labels + 1)
      noElse  == Emitted(<< LoadNil >>)
  IN  /\ Doing("expr")
      /\ IsForm(e, If_)
      /\ Len(e.es) \in 3 .. 4
      /\ labels' = labels + 2
      /\ Then(<< Expr(e.es[2]),
                 Emitted(<< <<"cmp", NilLabel>>, <<"je", else>> >>),
                 Expr(e.es[3]),
                 Emitted(<< <<"jmp", end>>, <<"label", else>> >>),
                 IF Len(e.es) = 4 THEN Expr(e.es[4]) ELSE noElse,
                 Emitted(<< <<"label", end>> >>) >>)
      /\ UNCHANGED <<program, st, sections, inFunc, status>>

\* (define name value) in the global scope: the value is compiled first.
StartGlobal ==
  /\ Doing("expr")
  /\ DefinesVariable(Task.e)
  /\ Depth(st) = 1
  /\ Then(<< Expr(Task.e.es[3]), Emitted(<< PushRax >>),
             [do |-> "global", name |-> Task.e.es[2]] >>)
  /\ UNCHANGED <<program, st, sections, inFunc, labels, status>>

FinishGlobal ==
  /\ Doing("global")
  /\ HasName(Task.name)
  /\ FitsBuffer(GlobalPrefix, Task.name.s)
  /\ LET label == GlobalLabel(Task.name.s)
         info  == Info(Task.name.s, "global", Mutate(label))
     IN  /\ data' = Append(data, label)
         /\ st' = Define(st, info)
         /\ Emit(<< <<"pop", "rbx">>, <<"store", info.label>>, <<"mov", "rax", "rbx">> >>)
  /\ Then(<<>>)
  /\ UNCHANGED <<program, rodata, inFunc, labels, status>>

StartLocal ==
  /\ Doing("expr")
  /\ DefinesVariable(Task.e)
  /\ Depth(st) > 1
  /\ HasName(Task.e.es[2])
  /\ Then(<< Expr(Task.e.es[3]), [do |-> "local", name |-> Task.e.es[2].s] >>)
  /\ UNCHANGED <<program, st, sections, inFunc, labels, status>>

FinishLocal ==
  /\ Doing("local")
  /\ st' = Define(st, LocalVar(Task.name))
  /\ Emit(<< <<"saveslot", ReturnedOffset(st'), "rax">>, <<"null">> >>)
  /\ Then(<<>>)
  /\ UNCHANGED <<program, rodata, data, inFunc, labels, status>>

-----------------------------------------------------------------------------
(* compile_define_function *)

Signature(e) == e.es[2].es
Params(e)    == Tail(Signature(e))
Body(e)      == SubSeq(e.es, 3, Len(e.es))

\* Only the definitions that are statements of the body are counted, whatever
\* define means there.
CountLocalDefines(e) ==
  Cardinality({i \in DOMAIN Body(e) :
    LET stmt == Body(e)[i]
    IN  /\ stmt.t = "list"
        /\ Len(stmt.es) >= 2
        /\ stmt.es[1] = Sym(Define_)
        /\ stmt.es[2].t # "list"})

\* mutated: only the parameters get room
FrameWordsOfParams(e) == Len(Params(e))
FrameWords(e) == Len(Params(e)) + CountLocalDefines(e)

ParamTasks(e) ==
  [i \in DOMAIN Params(e) |->
     [do |-> "param", name |-> Params(e)[i], reg |-> ArgRegisters[i]]]

BeginFunction ==
  LET e        == Task.e
      name     == Signature(e)[1].s
      label    == FuncLabel(name)
      declared == Define(st, Info(name, "user", Mutate(label)))
  IN  /\ Doing("expr")
      /\ DefinesFunction(e)
      /\ Signature(e) # <<>>
      /\ HasName(Signature(e)[1])
      /\ FitsBuffer(FuncPrefix, name)
      /\ ~inFunc
      /\ Len(Params(e)) <= MaxArgs
      /\ st' = EnterScope(declared)
      /\ func' = func \o << <<"label", label>> >> \o Prologue
                   \o (IF FrameWords(e) = 0 THEN <<>>
                       ELSE << <<"reserve", SlotSize * FrameWords(e)>> >>)
      /\ inFunc' = TRUE
      /\ Then(ParamTasks(e) \o [i \in DOMAIN Body(e) |-> Expr(Body(e)[i])]
              \o << [do |-> "endfunc"] >>)
      /\ UNCHANGED <<program, text, rodata, data, labels, status>>

\* A parameter is a local variable, stored on entry.
DefineParam ==
  /\ Doing("param")
  /\ HasName(Task.name)
  /\ st' = Define(st, LocalVar(Task.name.s))
  /\ Emit(<< <<"saveslot", ReturnedOffset(st'), Task.reg>> >>)
  /\ Then(<<>>)
  /\ UNCHANGED <<program, rodata, data, inFunc, labels, status>>

\* mutated: the scope is not left
EndFunctionInScope ==
  /\ Doing("endfunc")
  /\ func' = func \o Epilogue
  /\ text' = Append(text, LoadNil)
  /\ inFunc' = FALSE
  /\ Then(<<>>)
  /\ UNCHANGED <<program, st, rodata, data, labels, status>>

\* The files are swapped back; the value of the definition is loaded in main.
EndFunction ==
  /\ Doing("endfunc")
  /\ func' = func \o Epilogue
  /\ text' = Append(text, LoadNil)
  /\ inFunc' = FALSE
  /\ st' = ExitScope(st)
  /\ Then(<<>>)
  /\ UNCHANGED <<program, rodata, data, labels, status>>

-----------------------------------------------------------------------------
(* compile_function_call *)

Operands(e) == Tail(e.es)

\* strcmp is zero, and so false, for equal strings.
MatchBuiltinFunction(op) ==
  IF op = Plus THEN <<"lisp_add">>
  ELSE IF op # Minus THEN <<"lisp_subtract">> ELSE <<"lisp_multiply">>

StartBuiltin ==
  /\ Doing("expr")
  /\ OpKind(Task.e) = "builtin"
  /\ Len(Operands(Task.e)) = 2
  /\ Then(<< Expr(Operands(Task.e)[2]), Emitted(<< PushRax >>),
             Expr(Operands(Task.e)[1]),
             Emitted(<< <<"mov", "rdi", "rax">>, <<"pop", "rsi">> >>),
             [do |-> "builtin", op |-> OpId(Task.e)] >>)
  /\ UNCHANGED <<program, st, sections, inFunc, labels, status>>

StartCall ==
  LET n == Len(Operands(Task.e))
  IN  /\ Doing("expr")
      /\ OpKind(Task.e) = "user"
      /\ n <= MaxArgs
      /\ Then([i \in 1 .. 2 * n |-> IF i % 2 = 1 THEN Expr(Operands(Task.e)[(i + 1) \div 2])
                                                 ELSE Emitted(<< PushRax >>)]
              \o << [do |-> "call", op |-> OpId(Task.e), args |-> n] >>)
      /\ UNCHANGED <<program, st, sections, inFunc, labels, status>>

\* op_info and its name were looked up before the operands were compiled; a
\* definition among them may have freed both.  Reading them then gives what that
\* memory holds now: remains, or the data of an object allocated since.
Stale(id) == id \in st.freed
Garbage == <<"?">>

NamesRead(id) ==
  IF Stale(id) THEN {Garbage, Plus, Minus} ELSE {st.infos[id].name}
LabelsRead(id) ==
  IF Stale(id) THEN {Garbage, st.infos[id].label} ELSE {st.infos[id].label}

FinishBuiltin ==
  /\ Doing("builtin")
  /\ \E name \in NamesRead(Task.op) : Emit(<< <<"call", MatchBuiltinFunction(name)>> >>)
  /\ Then(<<>>)
  /\ UNCHANGED <<program, st, rodata, data, inFunc, labels, status>>

\* mutated: popped in the order they were pushed
FinishCallInOrder ==
  /\ Doing("call")
  /\ \E label \in LabelsRead(Task.op) :
       Emit([i \in 1 .. Task.args |-> <<"pop", ArgRegisters[i]>>] \o << <<"call", label>> >>)
  /\ Then(<<>>)
  /\ UNCHANGED <<program, st, rodata, data, inFunc, labels, status>>

FinishCall ==
  /\ Doing("call")
  /\ \E label \in LabelsRead(Task.op) :
       Emit([i \in 1 .. Task.args |-> <<"pop", ArgRegisters[Task.args + 1 - i]>>]
            \o << <<"call", label>> >>)
  /\ Then(<<>>)
  /\ UNCHANGED <<program, st, rodata, data, inFunc, labels, status>>

-----------------------------------------------------------------------------
(* Errors: a message on stderr and exit(EXIT_FAILURE) *)

BadAtom(e) ==
  \/ e.t = "str"
  \/ e.t = "sym" /\ ~IsVariable(Lookup(st, e.s))

\* mutated: an unknown operator goes unnoticed
BadKnownOperator(e) == OpKind(e) \in {"local", "global"}
BadOperator(e) == OpKind(e) \in {"unknown", "local", "global"}

BadForm(e) ==
  \/ IsForm(e, Define_) /\ Len(e.es) < 3
  \/ IsForm(e, If_) /\ Len(e.es) \notin 3 .. 4

BadFunction(e) ==
  /\ DefinesFunction(e)
  /\ Signature(e) # <<>> =>
       \/ Signature(e)[1].t = "list"
       \/ /\ HasName(Signature(e)[1])
          /\ \/ ~FitsBuffer(FuncPrefix, Signature(e)[1].s)
             \/ inFunc
             \/ Len(Params(e)) > MaxArgs

BadCall(e) ==
  \/ OpKind(e) = "builtin" /\ Len(Operands(e)) # 2
  \/ OpKind(e) = "user" /\ Len(Operands(e)) > MaxArgs

Rejected ==
  IF Doing("expr")
  THEN LET e == Task.e
       IN BadAtom(e) \/ BadOperator(e) \/ BadForm(e) \/ BadFunction(e) \/ BadCall(e)
  ELSE Doing("global") /\ HasName(Task.name) /\ ~FitsBuffer(GlobalPrefix, Task.name.s)

Reject ==
  /\ Rejected
  /\ status' = "failed"
  /\ UNCHANGED <<program, st, sections, inFunc, labels, work>>

\* Undefined behaviour that ends the compiler: an atom without a name is used
\* as a name, the first element of an empty signature is read, the label of a
\* freed SymbolInfo is no address.
NamelessLocal(e) == DefinesVariable(e) /\ Depth(st) > 1 /\ ~HasName(e.es[2])
NamelessFunction(e) ==
  DefinesFunction(e) /\ (Signature(e) # <<>> => Signature(e)[1].t = "num")

Misused ==
  \/ Doing("expr") /\ (NamelessLocal(Task.e) \/ NamelessFunction(Task.e))
  \/ (Doing("global") \/ Doing("param")) /\ ~HasName(Task.name)
  \/ Doing("call") /\ Stale(Task.op)

Crash ==
  /\ Misused
  /\ status' = "crashed"
  /\ UNCHANGED <<program, st, sections, inFunc, labels, work>>

-----------------------------------------------------------------------------

EmitTask ==
  /\ Doing("emit")
  /\ Emit(Task.code)
  /\ Then(<<>>)
  /\ UNCHANGED <<program, st, rodata, data, inFunc, labels, status>>

\* The end of generate_main and of compile_program.
Finish ==
  /\ Doing("finish")
  /\ text' = text \o << <<"null">> >> \o Epilogue
  /\ st' = DestroyTable(st)
  /\ status' = "done"
  /\ Then(<<>>)
  /\ UNCHANGED <<program, func, rodata, data, inFunc, labels>>

Compile ==
  \/ CompileNumber \/ CompileSymbol \/ CompileNil \/ CompileIf
  \/ StartGlobal \/ FinishGlobal \/ StartLocal \/ FinishLocal
  \/ BeginFunction \/ DefineParam \/ EndFunction
  \/ StartBuiltin \/ FinishBuiltin \/ StartCall \/ FinishCall
  \/ EmitTask \/ Finish \/ Reject \/ Crash

Spec == Init /\ [][Compile]_vars

-----------------------------------------------------------------------------
(* Invariants *)

TaskKinds == {"expr", "emit", "global", "local", "param", "endfunc", "builtin", "call", "finish"}
Kinds     == {"local", "global", "builtin", "user", "special"}

TypeOK ==
  /\ \A i \in DOMAIN st.infos :
       /\ st.infos[i].name \in Names
       /\ st.infos[i].kind \in Kinds
       /\ st.infos[i].offset \in Nat
       /\ st.infos[i].kind = "local" <=> st.infos[i].offset > 0
  /\ \A i \in DOMAIN rodata : rodata[i] \in ({"L_double"} \X (0 .. labels - 1)) \X Int
  /\ \A i \in DOMAIN data : data[i] \in Seq(LabelChars)
  /\ inFunc \in BOOLEAN
  /\ labels \in Nat
  /\ \A i \in DOMAIN work : work[i].do \in TaskKinds
  /\ status \in {"running", "done", "failed", "crashed"}

IsCode(instr, op) == instr[1] = op
Positions(code, op) == {i \in DOMAIN code : IsCode(code[i], op)}
IsLocalLabel(label) == label[1] \in {"L_if_else", "L_if_end"}
FunctionStarts == {i \in Positions(func, "label") : ~IsLocalLabel(func[i][2])}

\* The compiler has a scope open exactly while the output goes to the function
\* file, and the end of that one function is still to come; functions are
\* therefore written whole, one after the other, and what they open is closed:
\* symbol_table_destroy leaves no SymbolInfo behind (compile_define_function
\* swaps text_file and func_file and enters and leaves a scope around a body
\* that may itself try to define functions).
FunctionsNotNested ==
  /\ status = "running" =>
       /\ Depth(st) = IF inFunc THEN 2 ELSE 1
       /\ Cardinality({i \in DOMAIN work : work[i].do = "endfunc"}) = IF inFunc THEN 1 ELSE 0
  /\ \A i \in DOMAIN func :
       LET open == Cardinality({j \in FunctionStarts : j <= i})
                   - Cardinality({j \in Positions(func, "ret") : j < i})
       IN  open = 1
  /\ status = "done" => st.freed = DOMAIN st.infos

\* Instruction i of a section jumps forward to the only place that defines its
\* target, inside the same function.
Lands(code, i) ==
  \E j \in Positions(code, "label") :
    /\ i < j
    /\ code[j][2] = code[i][2]
    /\ \A k \in Positions(code, "label") : code[k][2] = code[j][2] => k = j
    /\ \A k \in i .. j : ~IsCode(code[k], "ret")

\* "This tests that labels for inner and outer ifs don't conflict"
\* (lisp/test_if_else.lisp): however conditionals are nested, in main and in
\* functions, every branch finds its own label, ahead of it and in the same
\* function, so that straight-line code always advances.
BranchesLand ==
  status = "done" =>
    \A code \in {func, text} : \A i \in Positions(code, "je") \cup Positions(code, "jmp") :
      Lands(code, i)

\* Everything the assembler sees defined, and the runtime it links.
Runtime == {<<"lisp_add">>, <<"lisp_subtract">>, <<"lisp_multiply">>,
            <<"lisp_divide">>, <<"lisp_make_number">>}
LabelPlaces(code, label) == {i \in Positions(code, "label") : code[i][2] = label}
Definitions(label) ==
  ({"func"} \X LabelPlaces(func, label)) \cup ({"text"} \X LabelPlaces(text, label))
    \cup ({"data"} \X {i \in DOMAIN data : data[i] = label})
    \cup ({"rodata"} \X {i \in DOMAIN rodata : rodata[i][1] = label})
DefinedOnce(label) == Cardinality(Definitions(label)) = 1

References ==
  UNION {{code[i][2] : i \in UNION {Positions(code, op) :
            op \in {"call", "lea", "load", "store", "movsd", "cmp", "je", "jmp"}}} :
         code \in {func, text}}

\* The names the program gives to functions and global variables make labels
\* of their own: no two are equal once their punctuation has become an
\* underscore, none is a runtime constant, none holds a number sign.
Globals == {id \in DOMAIN st.infos :
              id > Len(GlobalScope.infos) /\ st.infos[id].kind \in {"global", "user"}}
CleanNames ==
  \A a \in Globals :
    /\ "#" \notin {st.infos[a].name[i] : i \in DOMAIN st.infos[a].name}
    /\ GlobalLabel(st.infos[a].name) \notin {TrueLabel, NilLabel}
    /\ \A b \in Globals : a # b => Sanitize(st.infos[a].name) # Sanitize(st.infos[b].name)

\* What is reported as compiled can be assembled and linked: every label an
\* instruction refers to is defined exactly once, in whatever section
\* (sanitize_label makes the label of a definition, mutate_func_name the label
\* of its uses; op_info is used after the operands have been compiled).
ReferencesResolve ==
  status = "done" /\ CleanNames =>
    \A label \in References : label \in Runtime \/ DefinedOnce(label)
=============================================================================
