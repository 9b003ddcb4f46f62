------------------------------ MODULE Compiler ------------------------------
(***************************************************************************)
(* Compilation, linking and execution held against the meaning of the      *)
(* source program.                                                         *)
(***************************************************************************)
EXTENDS Machine, LispSemantics

CONSTANT Correct \* the programs without errors: what they mean is defined

ASSUME CompilerAssumption == Correct \subseteq Programs

\* Word w stands for value v of the evaluator; anything does for Undefined.
Represents(w, v) ==
  \/ v = Undefined
  \/ v = Nil /\ w = Address(NilLabel)
  \/ v = Truth /\ w = Address(TrueLabel)
  \/ v[1] = "number" /\ w = Number(v[2])

\* The compiled program leaves in its global variables what the source means:
\* through conditionals, calls with their operands in flight, recursion and
\* local variables.  Arithmetic is left to right in the source, right to left
\* in the code.
CompiledAgrees ==
  run = "halted" /\ program \in Correct =>
    \A name \in DOMAIN Meaning(program) :
      Represents(glob[GlobalLabel(name)], Meaning(program)[name])

\* A program without errors is compiled, links, and runs to its end: nothing is
\* refused, no label is missing, no word is taken for what it is not, and no
\* branch or call leads astray.
RunsToTheEnd == program \in Correct => <>(run = "halted")
=============================================================================
