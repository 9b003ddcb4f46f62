----------------------------- MODULE NextPrime -----------------------------
(***************************************************************************)
(* find_next_prime of symbol.c, a step for every turn of its loops.        *)
(***************************************************************************)
EXTENDS Primality

CONSTANT MaxArgument \* bound: the largest argument

ASSUME NextPrimeAssumption == MaxArgument \in Nat

VARIABLES
  argument,  \* n when the function is called
  candidate, \* n
  divisor,   \* i
  place      \* "idle", at the "entry", at the condition of the "for" loop, at the
             \* "test" behind it, or "returned"

search == <<argument, candidate, divisor, place>>

SearchInit ==
  /\ argument \in 0 .. MaxArgument
  /\ candidate = argument
  /\ divisor = 0 \* not set yet
  /\ place = "entry"

\* n <= 2: 2 is returned.
ReturnTwo ==
  /\ place = "entry" /\ candidate <= 2
  /\ candidate' = 2 /\ place' = "returned"
  /\ UNCHANGED <<argument, divisor>>

\* mutated: even numbers are candidates
StartEven ==
  /\ place = "entry" /\ candidate > 2
  /\ divisor' = 3 /\ place' = "for"
  /\ UNCHANGED <<argument, candidate>>

\* The search starts with an odd number.
Start ==
  /\ place = "entry" /\ candidate > 2
  /\ candidate' = IF candidate % 2 = 0 THEN candidate + 1 ELSE candidate
  /\ divisor' = 3 /\ place' = "for"
  /\ UNCHANGED argument

NextDivisor ==
  /\ place = "for" /\ divisor * divisor <= candidate
  /\ candidate % divisor # 0
  /\ divisor' = divisor + 2
  /\ UNCHANGED <<argument, candidate, place>>

\* mutated: the candidate stays
BreakOnly ==
  /\ place = "for" /\ divisor * divisor <= candidate
  /\ candidate % divisor = 0
  /\ place' = "test"
  /\ UNCHANGED <<argument, candidate, divisor>>

\* A divisor is found: the next candidate is taken before the loop is left.
Break ==
  /\ place = "for" /\ divisor * divisor <= candidate
  /\ candidate % divisor = 0
  /\ candidate' = candidate + 2
  /\ place' = "test"
  /\ UNCHANGED <<argument, divisor>>

LoopEnds ==
  /\ place = "for" /\ divisor * divisor > candidate
  /\ place' = "test"
  /\ UNCHANGED <<argument, candidate, divisor>>

\* Which way the loop was left is read off the divisor and the candidate, new or not.
ReturnCandidate ==
  /\ place = "test" /\ divisor * divisor > candidate
  /\ place' = "returned"
  /\ UNCHANGED <<argument, candidate, divisor>>

TryCandidate ==
  /\ place = "test" /\ divisor * divisor <= candidate
  /\ divisor' = 3 /\ place' = "for"
  /\ UNCHANGED <<argument, candidate>>

SearchNext ==
  ReturnTwo \/ Start \/ NextDivisor \/ Break \/ LoopEnds \/ ReturnCandidate \/ TryCandidate

-----------------------------------------------------------------------------
(* Properties *)

\* The number returned is the least prime from the argument on: odd divisors up to the
\* root are enough, none is left out, no candidate is skipped, and a candidate is
\* returned only after a loop that found no divisor of it (find_next_prime tests its
\* loop condition a second time when n may have changed).
LeastPrime ==
  place = "returned" =>
    /\ IsPrime(candidate) /\ argument <= candidate
    /\ \A q \in argument .. candidate - 1 : ~IsPrime(q)
=============================================================================
