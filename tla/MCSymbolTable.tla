--------------------------- MODULE MCSymbolTable ---------------------------
(***************************************************************************)
(* Three interchangeable names, three nested scopes and four definitions:  *)
(* enough for shadowing, redefinition in one scope, slots counted on from  *)
(* the parent and slots reused by a later scope.                           *)
(***************************************************************************)
EXTENDS SymbolTable, TLC

NameSymmetry == Permutations(Names)
=============================================================================
