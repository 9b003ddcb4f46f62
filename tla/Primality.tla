----------------------------- MODULE Primality -----------------------------
(***************************************************************************)
(* What find_next_prime of symbol.c looks for.                             *)
(***************************************************************************)
EXTENDS Naturals

IsPrime(n) == n > 1 /\ \A d \in 2 .. n - 1 : n % d # 0
=============================================================================
