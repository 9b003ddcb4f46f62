------------------------------ MODULE Machine ------------------------------
(***************************************************************************)
(* A program after its compilation by Codegen: the sections are assembled  *)
(* and linked with the runtime of runtime.c, and the result is executed.   *)
(*                                                                         *)
(* The stack is a sequence of words that grows upwards, rsp and rbp count  *)
(* words, and [rbp - 8k] is word rbp + k.  A word is a tuple: a LispValue  *)
(* (which the runtime never changes once it has made it, so that a pointer *)
(* to it is as good as its contents), the address of a label, a return     *)
(* address, a saved rbp, zero, or junk.                                    *)
(***************************************************************************)
EXTENDS Codegen

CONSTANT MaxStack \* bound of the model: words on the stack

ASSUME MachineAssumption == MaxStack \in Nat \ {0}

VARIABLES
  image, \* the linked instructions
  pc,    \* the instruction to execute
  reg,   \* the general registers and xmm0
  rsp, rbp,
  mem,   \* the stack segment
  glob,  \* the data section: contents of the global variables
  zf,    \* the zero flag
  run    \* "off", "unlinked", "running", "halted", "faulted"

machine == <<image, pc, reg, rsp, rbp, mem, glob, zf, run>>

Zero        == <<"zero">>
Junk        == <<"junk">>
Number(n)   == <<"num", n>>
Address(l)  == <<"addr", l>>
ReturnTo(i) == <<"pc", i>>
SavedRbp(d) == <<"rbp", d>>

False  == Address(NilLabel)
OutOfMain == 0 \* where main returns to

CallerSaved == {"rdi", "rsi", "rdx", "rcx", "r8", "r9", "xmm0"}
Registers   == CallerSaved \cup {"rax", "rbx"}

-----------------------------------------------------------------------------
(* Assembling and linking *)

MachineInit ==
  /\ Init
  /\ image = <<>>
  /\ pc = 0
  /\ reg = [r \in Registers |-> Junk]
  /\ rsp = 1
  /\ rbp = 0
  /\ mem = [i \in 1 .. MaxStack |-> IF i = 1 THEN ReturnTo(OutOfMain) ELSE Junk]
  /\ glob = <<>>
  /\ zf = FALSE
  /\ run = "off"

Links == \A label \in References : label \in Runtime \/ DefinedOnce(label)

Target(label) == CHOOSE i \in DOMAIN image : image[i] = <<"label", label>>

Link ==
  /\ status = "done"
  /\ run = "off"
  /\ image' = text \o func
  /\ pc' = 1
  /\ glob' = [l \in {data[i] : i \in DOMAIN data} |-> Zero]
  /\ run' = IF Links THEN "running" ELSE "unlinked"
  /\ UNCHANGED <<vars, reg, rsp, rbp, mem, zf>>

-----------------------------------------------------------------------------
(* Instructions *)

Instr == image[pc]
Executing(op) == run = "running" /\ Instr[1] = op
Advance == pc' = pc + 1

Slot(offset) == rbp + offset \div SlotSize

Push ==
  /\ Executing("push")
  /\ rsp < MaxStack
  /\ rsp' = rsp + 1
  /\ mem' = [mem EXCEPT ![rsp'] = IF Instr[2] = "rbp" THEN SavedRbp(rbp) ELSE reg[Instr[2]]]
  /\ Advance
  /\ UNCHANGED <<vars, image, reg, rbp, glob, zf, run>>

Pop ==
  /\ Executing("pop")
  /\ Instr[2] # "rbp"
  /\ reg' = [reg EXCEPT ![Instr[2]] = mem[rsp]]
  /\ rsp' = rsp - 1
  /\ Advance
  /\ UNCHANGED <<vars, image, rbp, mem, glob, zf, run>>

PopRbp ==
  /\ Executing("pop")
  /\ Instr[2] = "rbp"
  /\ mem[rsp][1] = "rbp"
  /\ rbp' = mem[rsp][2]
  /\ rsp' = rsp - 1
  /\ Advance
  /\ UNCHANGED <<vars, image, reg, mem, glob, zf, run>>

EnterFrame ==
  /\ Executing("mov")
  /\ Instr[2] = "rbp"
  /\ rbp' = rsp
  /\ Advance
  /\ UNCHANGED <<vars, image, reg, rsp, mem, glob, zf, run>>

LeaveFrame ==
  /\ Executing("mov")
  /\ Instr[2] = "rsp"
  /\ rsp' = rbp
  /\ Advance
  /\ UNCHANGED <<vars, image, reg, rbp, mem, glob, zf, run>>

Reserve ==
  /\ Executing("reserve")
  /\ rsp + Instr[2] \div SlotSize <= MaxStack
  /\ rsp' = rsp + Instr[2] \div SlotSize
  /\ Advance
  /\ UNCHANGED <<vars, image, reg, rbp, mem, glob, zf, run>>

SaveSlot ==
  /\ Executing("saveslot")
  /\ Slot(Instr[2]) <= MaxStack
  /\ mem' = [mem EXCEPT ![Slot(Instr[2])] = reg[Instr[3]]]
  /\ Advance
  /\ UNCHANGED <<vars, image, reg, rsp, rbp, glob, zf, run>>

Store ==
  /\ Executing("store")
  /\ glob' = [glob EXCEPT ![Instr[2]] = reg["rbx"]]
  /\ Advance
  /\ UNCHANGED <<vars, image, reg, rsp, rbp, mem, zf, run>>

\* Instructions that only load a register: the register and its new contents.
Loads ==
  CASE Instr[1] = "mov"      -> <<Instr[2], reg[Instr[3]]>>
    [] Instr[1] = "loadslot" -> <<"rax", mem[Slot(Instr[2])]>>
    [] Instr[1] = "lea"      -> <<"rax", Address(Instr[2])>>
    [] Instr[1] = "load"     -> <<"rax", glob[Instr[2]]>>
    [] Instr[1] = "null"     -> <<"rax", Zero>>
    [] Instr[1] = "movsd"    ->
         <<"xmm0", Number((CHOOSE entry \in ToSet(rodata) : entry[1] = Instr[2])[2])>>

LoadRegister ==
  /\ run = "running"
  /\ Instr[1] \in {"mov", "loadslot", "lea", "load", "null", "movsd"}
  /\ Instr[1] = "mov" => Instr[2] \in Registers
  /\ Instr[1] = "loadslot" => Slot(Instr[2]) <= MaxStack
  /\ reg' = [reg EXCEPT ![Loads[1]] = Loads[2]]
  /\ Advance
  /\ UNCHANGED <<vars, image, rsp, rbp, mem, glob, zf, run>>

Compare ==
  /\ Executing("cmp")
  /\ zf' = (reg["rax"] = Address(Instr[2]))
  /\ Advance
  /\ UNCHANGED <<vars, image, reg, rsp, rbp, mem, glob, run>>

Jump ==
  /\ Executing("jmp") \/ Executing("je")
  /\ pc' = IF Instr[1] = "jmp" \/ zf THEN Target(Instr[2]) ELSE pc + 1
  /\ UNCHANGED <<vars, image, reg, rsp, rbp, mem, glob, zf, run>>

PassLabel ==
  /\ Executing("label")
  /\ Advance
  /\ UNCHANGED <<vars, image, reg, rsp, rbp, mem, glob, zf, run>>

Call ==
  /\ Executing("call")
  /\ Instr[2] \notin Runtime
  /\ rsp < MaxStack
  /\ rsp' = rsp + 1
  /\ mem' = [mem EXCEPT ![rsp'] = ReturnTo(pc + 1)]
  /\ pc' = Target(Instr[2])
  /\ UNCHANGED <<vars, image, reg, rbp, glob, zf, run>>

Return ==
  /\ Executing("ret")
  /\ mem[rsp][1] = "pc"
  /\ rsp' = rsp - 1
  /\ pc' = mem[rsp][2]
  /\ run' = IF pc' = OutOfMain THEN "halted" ELSE run
  /\ UNCHANGED <<vars, image, reg, rbp, mem, glob, zf>>

-----------------------------------------------------------------------------
(* The runtime *)

\* arg->value.num_val, of a number or of a constant, whose value field is 0.
IsLispValue(w) == w[1] \in {"num", "addr"}
NumVal(w) == IF w[1] = "num" THEN w[2] ELSE 0

RuntimeResult(f, x, a, b) ==
  Number(CASE f = <<"lisp_make_number">> -> NumVal(x)
           [] f = <<"lisp_add">>         -> NumVal(a) + NumVal(b)
           [] f = <<"lisp_subtract">>    -> NumVal(a) - NumVal(b)
           [] f = <<"lisp_multiply">>    -> NumVal(a) * NumVal(b))

ArgumentsValid ==
  Instr[2] = <<"lisp_make_number">> \/ (IsLispValue(reg["rdi"]) /\ IsLispValue(reg["rsi"]))

\* A C function keeps rbx, rbp and the stack in use; the other registers and
\* the words beyond rsp are its own.
CallRuntime ==
  /\ Executing("call")
  /\ Instr[2] \in Runtime
  /\ ArgumentsValid = TRUE
  /\ reg' = [r \in Registers |->
               CASE r = "rax" -> RuntimeResult(Instr[2], reg["xmm0"], reg["rdi"], reg["rsi"])
                 [] r = "rbx" -> reg["rbx"]
                 [] OTHER     -> Junk]
  /\ mem' = [i \in DOMAIN mem |-> IF i <= rsp THEN mem[i] ELSE Junk]
  /\ Advance
  /\ UNCHANGED <<vars, image, rsp, rbp, glob, zf, run>>

-----------------------------------------------------------------------------

\* A word is used as something it is not, or the stack is exhausted.
Faulty ==
  CASE Executing("push")     -> rsp = MaxStack
    [] Executing("pop")      -> Instr[2] = "rbp" /\ mem[rsp][1] # "rbp"
    [] Executing("reserve")  -> rsp + Instr[2] \div SlotSize > MaxStack
    [] Executing("saveslot") -> Slot(Instr[2]) > MaxStack
    [] Executing("loadslot") -> Slot(Instr[2]) > MaxStack
    [] Executing("call")     -> IF Instr[2] \in Runtime THEN ~ArgumentsValid ELSE rsp = MaxStack
    [] Executing("ret")      -> mem[rsp][1] # "pc"
    [] OTHER                 -> FALSE

Fault ==
  /\ Faulty
  /\ run' = "faulted"
  /\ UNCHANGED <<vars, image, pc, reg, rsp, rbp, mem, glob, zf>>

Execute ==
  \/ Link
  \/ Push \/ Pop \/ PopRbp \/ EnterFrame \/ LeaveFrame \/ Reserve
  \/ SaveSlot \/ Store \/ LoadRegister \/ Compare \/ Jump \/ PassLabel
  \/ Call \/ Return \/ CallRuntime \/ Fault

CompileAndRun ==
  \/ Compile /\ UNCHANGED machine
  \/ Execute

MachineSpec ==
  MachineInit /\ [][CompileAndRun]_<<vars, machine>> /\ WF_<<vars, machine>>(CompileAndRun)

-----------------------------------------------------------------------------
(* Properties of whatever the compiler accepts *)

MachineTypeOK ==
  /\ rsp \in 0 .. MaxStack
  /\ rbp \in 0 .. MaxStack
  /\ \A r \in Registers : reg[r][1] \in {"zero", "junk", "num", "addr", "pc", "rbp"}
  /\ \A i \in DOMAIN mem : mem[i][1] \in {"zero", "junk", "num", "addr", "pc", "rbp"}
  /\ run \in {"off", "unlinked", "running", "halted", "faulted"}
  /\ run = "running" => pc \in DOMAIN image
  /\ zf \in BOOLEAN

\* Expressions without definitions; the statements of a body, which may define a
\* variable each; and expressions in which functions define variables in no other
\* way.
DefineFree[e \in Exprs] ==
  e.t = "list" =>
    /\ e.es # <<>> => e.es[1] # Sym(Define_)
    /\ \A i \in DOMAIN e.es : DefineFree[e.es[i]]

Statement(e) ==
  \/ DefineFree[e]
  \/ /\ e.t = "list"
     /\ Len(e.es) >= 2
     /\ e.es[1] = Sym(Define_) /\ e.es[2].t # "list"
     /\ \A i \in 2 .. Len(e.es) : DefineFree[e.es[i]]

Orderly[e \in Exprs] ==
  e.t = "list" =>
    /\ \A i \in DOMAIN e.es : Orderly[e.es[i]]
    /\ Len(e.es) >= 3 /\ e.es[1] = Sym(Define_) /\ e.es[2].t = "list" =>
         \A i \in 3 .. Len(e.es) : Statement(e.es[i])

\* Every variable a function works with lies in its own frame, between rbp and
\* rsp, where neither a push nor a callee can reach it, however wrong the program,
\* as long as its functions define variables in statements of their bodies only
\* (count_local_defines reserves the frame from the syntax of the body,
\* symbol_table_define gives out its slots while compiling it).
StackDiscipline ==
  run = "running" /\ Instr[1] \in {"saveslot", "loadslot"} /\ Slot(Instr[2]) \notin rbp + 1 .. rsp
    => \E i \in DOMAIN program : ~Orderly[program[i]]

\* The activation whose frame starts at word d returns to a place in the
\* program, and the frame it was called from is intact in turn.
FrameIntact[d \in 0 .. MaxStack] ==
  d > 0 =>
    /\ mem[d][1] = "rbp"
    /\ mem[d][2] < d
    /\ mem[d - 1][1] = "pc"
    /\ FrameIntact[mem[d][2]]

\* No program the compiler accepts, however wrong, damages the chain of saved
\* frame pointers and return addresses: a variable defined inside an
\* expression gets a slot outside the frame, where pushed operands are, and a
\* call with too few arguments reads registers nobody set, but control always
\* comes back the way it went, to the end of main, which leaves the stack as it
\* found it.  What faults is an operand or the stack limit.
ControlIntact ==
  /\ run \in {"running", "halted", "faulted"} => FrameIntact[rbp]
  /\ run = "faulted" => Instr[1] \notin {"ret", "pop"}
  /\ run = "halted" => rsp = 0 /\ rbp = 0

\* Compiler and program together always come to an end: the code has no
\* backward jump, and recursion without end exhausts the stack.
EverythingEnds ==
  <>(status \in {"failed", "crashed"} \/ run \in {"unlinked", "halted", "faulted"})
=============================================================================
