---------------------------- MODULE MCSymbolMap ----------------------------
(***************************************************************************)
(* Four names in two groups of equal hash.  The hash 22 falls on the last  *)
(* bucket of a 23-bucket array and the hash 4 on the last of a 5-bucket    *)
(* one, so that the second name of each group wraps around; at capacities  *)
(* 19 and 7 the groups run into each other.  With four emplacements the    *)
(* array grows from 3 to 23 buckets, seven times, nested up to three deep. *)
(***************************************************************************)
EXTENDS SymbolMapSearch

MCKeys == 0 .. 3
MCHash == [k \in MCKeys |-> IF k < 2 THEN 22 ELSE 4]
=============================================================================
