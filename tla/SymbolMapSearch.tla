-------------------------- MODULE SymbolMapSearch --------------------------
(***************************************************************************)
(* The hash table of SymbolMap with the loops of find_next_prime, which    *)
(* symbol_map_create and symbol_map_emplace call for every new array.      *)
(***************************************************************************)
EXTENDS SymbolMap, NextPrime

all == <<vars, search>>

\* find_next_prime has been called for the first array, with any argument.
SearchingInit == Init /\ SearchInit

SearchOver == argument' = 0 /\ candidate' = 0 /\ divisor' = 0 /\ place' = "idle"

\* symbol_map_create goes on.  The array has InitialCapacity buckets; other arguments
\* lead to no table.
Create ==
  /\ place = "returned" /\ frames = <<>> /\ candidate = capacity
  /\ SearchOver /\ UNCHANGED vars

\* mutated: the search starts at the capacity the array has
SearchFromCapacity ==
  /\ place = "idle" /\ At("load") /\ Overloaded
  /\ argument' = capacity /\ candidate' = capacity /\ divisor' = 0 /\ place' = "entry"
  /\ UNCHANGED vars

\* symbol_map_emplace evaluates the argument of _symbol_map_resize.
CallSearch ==
  /\ place = "idle" /\ At("load") /\ Overloaded
  /\ argument' = capacity + 1 /\ candidate' = capacity + 1 /\ divisor' = 0 /\ place' = "entry"
  /\ UNCHANGED vars

Search == SearchNext /\ UNCHANGED vars

\* _symbol_map_resize is entered with what was found.
GrowAsFound ==
  /\ place = "returned" /\ candidate <= MaxCapacity
  /\ GrowTo(candidate)
  /\ SearchOver

TableStep == place = "idle" /\ Step /\ UNCHANGED search

SearchingNext == Create \/ CallSearch \/ Search \/ GrowAsFound \/ TableStep

\* A search that runs goes on.
SearchingSpec == SearchingInit /\ [][SearchingNext]_all /\ WF_all(Search)

-----------------------------------------------------------------------------
(* Properties *)

\* With what the loops find the table behaves as if find_next_prime gave the next
\* prime at once: it is created, grows and probes as in SymbolMap.
ImplementsTable == Spec

\* Every search ends.
SearchEnds == place = "entry" ~> place = "returned"
=============================================================================
