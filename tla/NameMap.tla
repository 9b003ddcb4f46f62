------------------------------ MODULE NameMap ------------------------------
(***************************************************************************)
(* What a symbol map promises its callers (symbol.h: create, emplace,      *)
(* lookup, free), with nothing said about buckets, hashing or growth: a    *)
(* partial function from names to the symbol information last emplaced     *)
(* under them.                                                             *)
(***************************************************************************)
CONSTANTS
  Keys,  \* the names (C strings, told apart by strcmp)
  Infos, \* identities of struct SymbolInfo objects
  NULL   \* absent: no entry, or no lookup answered yet

VARIABLES
  contents, \* for every name, the info it maps to, or NULL
  ret,      \* the answer of the last completed lookup
  alive     \* FALSE once the map has been freed

vars == <<contents, ret, alive>>

Init ==
  /\ contents = [k \in Keys |-> NULL]
  /\ ret = NULL
  /\ alive = TRUE

\* symbol_map_emplace: the name now maps to the new information, no other
\* name changes.
Put(k, v) ==
  /\ alive
  /\ contents' = [contents EXCEPT ![k] = v]
  /\ UNCHANGED <<ret, alive>>

\* symbol_map_lookup: answers the current information of the name, or NULL.
Get(k) ==
  /\ alive
  /\ ret' = [key |-> k, val |-> contents[k]]
  /\ UNCHANGED <<contents, alive>>

\* symbol_map_free
Free ==
  /\ alive
  /\ alive' = FALSE
  /\ contents' = [k \in Keys |-> NULL]
  /\ UNCHANGED ret

Next ==
  \/ \E k \in Keys, v \in Infos : Put(k, v)
  \/ \E k \in Keys : Get(k)
  \/ Free

Spec == Init /\ [][Next]_vars
=============================================================================
