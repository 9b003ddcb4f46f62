------------------------------ MODULE MCDriver ------------------------------
(***************************************************************************)
(* prog.lisp, prog.s and prog share an output file; the last name has its  *)
(* only dots in the name of a directory.  Each is compiled after another,  *)
(* or after itself, with any calls failing.                                *)
(***************************************************************************)
EXTENDS Driver

MCInputs ==
  {<<"prog", ".", "lisp">>, <<"prog", ".", "s">>, <<"prog">>, <<".", ".", "/", "prog">>}

MCMaxChunks == [s \in AllSections |-> IF s = "text" THEN 2 ELSE 1]
=============================================================================
