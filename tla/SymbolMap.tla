----------------------------- MODULE SymbolMap -----------------------------
(***************************************************************************)
(* struct SymbolMap of symbol.c: an open-addressing hash table with linear *)
(* probing that maps names to struct SymbolInfo objects.                   *)
(*                                                                         *)
(* symbol_map_emplace calls _symbol_map_resize, which calls                *)
(* symbol_map_emplace for every entry of the old array, which may call     *)
(* _symbol_map_resize again on the table that is being filled.  The C call *)
(* stack is the variable frames, and an action is one step of the function *)
(* on top of it: a probe of one bucket, or one turn of the copying loop.   *)
(***************************************************************************)
EXTENDS Sequences, Primality

CONSTANTS
  Keys,            \* the names
  Hash,            \* hash_string before the reduction modulo the capacity
  InitialCapacity, \* 17 in symbol_map_create; find_next_prime(17) = 17
  MaxCapacity,     \* bound of the model: no array is larger
  MaxInfos,        \* bound of the model: SymbolInfo objects ever emplaced
  NULL

VARIABLES
  capacity, \* map->capacity
  size,     \* map->size
  buckets,  \* map->buckets, a NULL key is NULL
  frames,   \* the activations of emplace, resize and lookup, innermost last
  heap,     \* for every SymbolInfo whether it is unused, live or freed
  ret,      \* what the last completed lookup returned
  status    \* "running", "freed" after symbol_map_free, "exited" after exit

vars == <<capacity, size, buckets, frames, heap, ret, status>>

Infos == 1 .. MaxInfos
Entry == [key : Keys, val : Infos]
Array(c) == [0 .. c - 1 -> Entry \cup {NULL}]

Primes == {n \in 2 .. MaxCapacity : IsPrime(n)}

ASSUME SymbolMapAssumption ==
  /\ Hash \in [Keys -> Nat]
  /\ MaxCapacity \in Nat
  /\ MaxInfos \in Nat
  /\ InitialCapacity \in Primes
  /\ NULL \notin Entry
  /\ NULL \notin Infos

-----------------------------------------------------------------------------
(* Helpers *)

Home(k) == Hash[k] % capacity

\* mutated: without the reduction
NextIndexNoWrap(i) == i + 1

NextIndex(i) == (i + 1) % capacity

\* p is what find_next_prime(n) returns (SymbolMapSearch)
FindNextPrime(n, p) ==
  /\ p \in Primes
  /\ n <= p
  /\ \A q \in Primes : n <= q => p <= q

\* const unsigned int LOAD_FACTOR_THRESHOLD = 0.7: the initialiser is
\* converted to an unsigned integer, which truncates it.
LOAD_FACTOR_THRESHOLD == 7 \div 10

\* mutated: a threshold of 1
OverloadedWhenFull == size > capacity

Overloaded == size > LOAD_FACTOR_THRESHOLD * capacity

Top == frames[Len(frames)]
Return == SubSeq(frames, 1, Len(frames) - 1)
SetTop(f) == [frames EXCEPT ![Len(frames)] = f]
Running(fn) == status = "running" /\ frames # <<>> /\ Top.fn = fn
At(pc) == Running("emplace") /\ Top.pc = pc

EmplaceFrame(k, v) ==
  [fn |-> "emplace", pc |-> "load", key |-> k, val |-> v, index |-> 0]

Idle == status = "running" /\ frames = <<>>

\* symbol_info_free: freeing what is not live corrupts the C heap
FreeInfos(S) ==
  [v \in Infos |-> IF v \notin S THEN heap[v]
                   ELSE IF heap[v] = "live" THEN "freed" ELSE "corrupt"]

-----------------------------------------------------------------------------
(* The callers: one operation at a time, on a fresh SymbolInfo *)

Init ==
  /\ capacity = InitialCapacity
  /\ size = 0
  /\ buckets = [i \in 0 .. InitialCapacity - 1 |-> NULL]
  /\ frames = <<>>
  /\ heap = [v \in Infos |-> "unused"]
  /\ ret = NULL
  /\ status = "running"

CallEmplace(k, v) ==
  /\ Idle
  /\ heap[v] = "unused"
  /\ \A w \in Infos : heap[w] = "unused" => v <= w
  /\ heap' = [heap EXCEPT ![v] = "live"]
  /\ frames' = <<EmplaceFrame(k, v)>>
  /\ UNCHANGED <<capacity, size, buckets, ret, status>>

CallLookup(k) ==
  /\ Idle
  /\ frames' = <<[fn |-> "lookup", key |-> k, index |-> Home(k)]>>
  /\ UNCHANGED <<capacity, size, buckets, heap, ret, status>>

CallFree ==
  /\ Idle
  /\ heap' = FreeInfos({buckets[i].val : i \in {j \in DOMAIN buckets : buckets[j] # NULL}})
  /\ buckets' = [i \in DOMAIN buckets |-> NULL]
  /\ status' = "freed"
  /\ UNCHANGED <<capacity, size, frames, ret>>

-----------------------------------------------------------------------------
(* symbol_map_emplace *)

\* mutated: the bucket is computed before the table grows
GrowToKeepingIndex(p) ==
  /\ At("load")
  /\ Overloaded
  /\ capacity' = p
  /\ buckets' = [i \in 0 .. p - 1 |-> NULL]
  /\ size' = 0
  /\ frames' = Append(SetTop([Top EXCEPT !.pc = "probe", !.index = Home(Top.key)]),
                      [fn |-> "resize", old |-> buckets, len |-> capacity, i |-> 0])
  /\ UNCHANGED <<heap, ret, status>>

\* The load test succeeds: _symbol_map_resize is entered, the array is
\* replaced by an empty one of p buckets and the old array belongs to the new
\* activation.
GrowTo(p) ==
  /\ At("load")
  /\ Overloaded
  /\ capacity' = p
  /\ buckets' = [i \in 0 .. p - 1 |-> NULL]
  /\ size' = 0
  /\ frames' = Append(SetTop([Top EXCEPT !.pc = "hash"]),
                      [fn |-> "resize", old |-> buckets, len |-> capacity, i |-> 0])
  /\ UNCHANGED <<heap, ret, status>>

Grow == \E p \in Primes : FindNextPrime(capacity + 1, p) /\ GrowTo(p)

StartProbe ==
  /\ At("hash") \/ (At("load") /\ ~Overloaded)
  /\ frames' = SetTop([Top EXCEPT !.pc = "probe", !.index = Home(Top.key)])
  /\ UNCHANGED <<capacity, size, buckets, heap, ret, status>>

\* mutated: the replaced information is not freed
OverwriteLeaking ==
  /\ At("probe")
  /\ buckets[Top.index] # NULL
  /\ buckets[Top.index].key = Top.key
  /\ buckets' = [buckets EXCEPT ![Top.index] = [key |-> Top.key, val |-> Top.val]]
  /\ frames' = Return
  /\ UNCHANGED <<capacity, size, heap, ret, status>>

\* The bucket holds the same name: its information is freed and replaced.
Overwrite ==
  /\ At("probe")
  /\ buckets[Top.index] # NULL
  /\ buckets[Top.index].key = Top.key
  /\ heap' = FreeInfos({buckets[Top.index].val})
  /\ buckets' = [buckets EXCEPT ![Top.index] = [key |-> Top.key, val |-> Top.val]]
  /\ frames' = Return
  /\ UNCHANGED <<capacity, size, ret, status>>

Insert ==
  /\ At("probe")
  /\ buckets[Top.index] = NULL
  /\ buckets' = [buckets EXCEPT ![Top.index] = [key |-> Top.key, val |-> Top.val]]
  /\ size' = size + 1
  /\ frames' = Return
  /\ UNCHANGED <<capacity, heap, ret, status>>

\* The bucket holds another name.  Coming back to the first bucket means the
\* table is full: a message on stderr and exit.
ProbeNext ==
  /\ At("probe")
  /\ buckets[Top.index] # NULL
  /\ buckets[Top.index].key # Top.key
  /\ frames' = SetTop([Top EXCEPT !.index = NextIndex(@)])
  /\ status' = IF NextIndex(Top.index) = Home(Top.key) THEN "exited" ELSE status
  /\ UNCHANGED <<capacity, size, buckets, heap, ret>>

-----------------------------------------------------------------------------
(* _symbol_map_resize: the copying loop *)

ResizeSkip ==
  /\ Running("resize")
  /\ Top.i < Top.len
  /\ Top.old[Top.i] = NULL
  /\ frames' = SetTop([Top EXCEPT !.i = @ + 1])
  /\ UNCHANGED <<capacity, size, buckets, heap, ret, status>>

ResizeMove ==
  /\ Running("resize")
  /\ Top.i < Top.len
  /\ Top.old[Top.i] # NULL
  /\ frames' = Append(SetTop([Top EXCEPT !.i = @ + 1]),
                      EmplaceFrame(Top.old[Top.i].key, Top.old[Top.i].val))
  /\ UNCHANGED <<capacity, size, buckets, heap, ret, status>>

\* mutated: the last bucket may be skipped
ResizeDoneEarly ==
  /\ Running("resize")
  /\ Top.i + 1 >= Top.len
  /\ frames' = Return
  /\ UNCHANGED <<capacity, size, buckets, heap, ret, status>>

ResizeDone ==
  /\ Running("resize")
  /\ Top.i = Top.len
  /\ frames' = Return
  /\ UNCHANGED <<capacity, size, buckets, heap, ret, status>>

-----------------------------------------------------------------------------
(* symbol_map_lookup *)

\* A free bucket, or the first bucket again, ends the search with NULL.
LookupMiss ==
  /\ Running("lookup")
  /\ buckets[Top.index] # NULL =>
       /\ buckets[Top.index].key # Top.key
       /\ NextIndex(Top.index) = Home(Top.key)
  /\ frames' = Return
  /\ ret' = [key |-> Top.key, val |-> NULL]
  /\ UNCHANGED <<capacity, size, buckets, heap, status>>

LookupHit ==
  /\ Running("lookup")
  /\ buckets[Top.index] # NULL
  /\ buckets[Top.index].key = Top.key
  /\ frames' = Return
  /\ ret' = [key |-> Top.key, val |-> buckets[Top.index].val]
  /\ UNCHANGED <<capacity, size, buckets, heap, status>>

LookupNext ==
  /\ Running("lookup")
  /\ buckets[Top.index] # NULL
  /\ buckets[Top.index].key # Top.key
  /\ NextIndex(Top.index) # Home(Top.key)
  /\ frames' = SetTop([Top EXCEPT !.index = NextIndex(@)])
  /\ UNCHANGED <<capacity, size, buckets, heap, ret, status>>

\* Every step but growing.
Step ==
  \/ \E k \in Keys, v \in Infos : CallEmplace(k, v)
  \/ \E k \in Keys : CallLookup(k)
  \/ CallFree
  \/ StartProbe \/ Overwrite \/ Insert \/ ProbeNext
  \/ ResizeSkip \/ ResizeMove \/ ResizeDone
  \/ LookupMiss \/ LookupHit \/ LookupNext

Next == Step \/ Grow

Spec == Init /\ [][Next]_vars

-----------------------------------------------------------------------------
(* Invariants *)

\* Types of the table and of every activation record.
Frame(f) ==
  \/ /\ f.fn = "emplace"
     /\ f.pc \in {"load", "hash", "probe"}
     /\ f.key \in Keys
     /\ f.val \in Infos
     /\ f.index \in Nat
     /\ f.pc = "probe" => f.index < capacity
  \/ /\ f.fn = "resize"
     /\ f.len \in Nat
     /\ f.old \in Array(f.len)
     /\ f.i \in 0 .. f.len
  \/ /\ f.fn = "lookup"
     /\ f.key \in Keys
     /\ f.index \in 0 .. capacity - 1

TypeOK ==
  /\ capacity \in Primes
  /\ size \in Nat
  /\ buckets \in Array(capacity)
  /\ \A d \in DOMAIN frames : Frame(frames[d])
  /\ heap \in [Infos -> {"unused", "live", "freed", "corrupt"}]
  /\ ret = NULL \/ (ret.key \in Keys /\ ret.val \in Infos \cup {NULL})
  /\ status \in {"running", "freed", "exited"}

\* The buckets a probe for a name of home h visits before bucket i.
Path(h, i) ==
  IF h <= i THEN h .. i - 1 ELSE (h .. capacity - 1) \cup (0 .. i - 1)

\* Linear probing finds what it stored: no free bucket lies between the home
\* of a stored name and its bucket, and a name is stored once
\* (symbol_map_emplace and symbol_map_lookup stop at the first free bucket;
\* _symbol_map_resize changes the home of every name).
ProbePathsUnbroken ==
  \A i \in DOMAIN buckets : buckets[i] # NULL =>
    /\ \A j \in Path(Home(buckets[i].key), i) : buckets[j] # NULL
    /\ \A j \in DOMAIN buckets :
         buckets[j] # NULL /\ buckets[j].key = buckets[i].key => j = i

\* Entry e of an old array still waits to be copied by activation d.
Waiting(d, e) ==
  /\ frames[d].fn = "resize"
  /\ \E j \in frames[d].i .. frames[d].len - 1 : frames[d].old[j] = e

\* Entry e has left an old array and is on its way into the new one.
InFlight(d, e) ==
  /\ d > 1
  /\ frames[d].fn = "emplace"
  /\ e.key = frames[d].key
  /\ e.val = frames[d].val

Stored(e) == \E i \in DOMAIN buckets : buckets[i] = e

Held(e) == Stored(e) \/ \E d \in DOMAIN frames : Waiting(d, e) \/ InFlight(d, e)

\* The ownership rule of symbol_info_free: an information the table still
\* holds is live, none is ever freed twice, and between operations (and after
\* symbol_map_free) every live information is in the table: replacing an entry
\* frees the replaced one, growing frees none.
InfosOwned ==
  /\ \A v \in Infos : heap[v] # "corrupt"
  /\ \A e \in Entry : Held(e) => heap[e.val] = "live"
  /\ frames = <<>> => \A v \in Infos : heap[v] = "live" =>
       \E i \in DOMAIN buckets : buckets[i] # NULL /\ buckets[i].val = v

\* The table is never full, so a probe always meets a free bucket or its name
\* and the exit of symbol_map_emplace ("Symbol map is full") is never taken.
NeverFull ==
  /\ status # "exited"
  /\ \E i \in DOMAIN buckets : buckets[i] = NULL

-----------------------------------------------------------------------------
(* The table implements the abstract map *)

Contents ==
  [k \in Keys |->
     IF \E v \in Infos : Held([key |-> k, val |-> v])
     THEN CHOOSE v \in Infos : Held([key |-> k, val |-> v])
     ELSE NULL]

Abstract == INSTANCE NameMap WITH contents <- Contents, alive <- status # "freed"

\* Every lookup answers what was last emplaced under the name, whatever
\* growth happened in between, and growing is invisible to the callers.
ImplementsNameMap == Abstract!Spec

\* symbol.c:224 gives the load factor at which the table grows as 0.7.
GrowsOnlyAboveLoadFactor ==
  [][capacity' # capacity => 10 * size > 7 * capacity]_vars
=============================================================================
