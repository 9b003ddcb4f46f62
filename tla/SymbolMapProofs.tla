--------------------------- MODULE SymbolMapProofs ---------------------------
(***************************************************************************)
(* Proofs about the hash table, for every set of names, every hash and     *)
(* every capacity: its types, and that linear probing finds what it stored *)
(* however deep growing nests.  At the end, that the loops of             *)
(* find_next_prime give it the capacities it assumes.                      *)
(***************************************************************************)
EXTENDS SymbolMapSearch, SequenceTheorems, TLAPS

EmplaceFrames ==
  [fn : {"emplace"}, pc : {"load", "hash", "probe"}, key : Keys, val : Infos, index : Nat]
ResizeFrames == [fn : {"resize"}, old : UNION {Array(c) : c \in Nat}, len : Nat, i : Nat]
LookupFrames == [fn : {"lookup"}, key : Keys, index : Nat]
AnyFrame == EmplaceFrames \cup ResizeFrames \cup LookupFrames

\* An activation that waits for another one to return has not computed a
\* bucket yet: what it does next does not depend on the table as it was.
Settled(f) == f.fn = "resize" \/ (f.fn = "emplace" /\ f.pc = "hash")

Stack ==
  /\ frames \in Seq(AnyFrame)
  /\ \A d \in 1 .. Len(frames) : Frame(frames[d])
  /\ \A d \in 1 .. Len(frames) - 1 : Settled(frames[d])

\* The buckets a running emplace has passed hold other names.
TopProbes ==
  frames # <<>> /\ Top.fn = "emplace" /\ Top.pc = "probe" =>
    \A j \in Path(Home(Top.key), Top.index) : buckets[j] # NULL /\ buckets[j].key # Top.key

Heaps == [Infos -> {"unused", "live", "freed", "corrupt"}]

Table ==
  /\ capacity \in Primes
  /\ size \in Nat
  /\ buckets \in Array(capacity)
  /\ heap \in Heaps
  /\ ret = NULL \/ (ret.key \in Keys /\ ret.val \in Infos \cup {NULL})
  /\ status \in {"running", "freed", "exited"}

MInv == Table /\ Stack /\ TopProbes /\ ProbePathsUnbroken

-----------------------------------------------------------------------------
(* Buckets and paths *)

LEMMA PrimeFacts == ASSUME NEW c \in Primes PROVE c \in Nat /\ c > 1
BY SymbolMapAssumption DEF Primes, IsPrime

LEMMA HomeInRange ==
  ASSUME capacity \in Primes, NEW k \in Keys
  PROVE  Home(k) \in 0 .. capacity - 1
PROOF
  <1>1. capacity \in Nat /\ capacity > 1
    BY PrimeFacts
  <1>2. Hash[k] \in Nat
    BY SymbolMapAssumption
  <1> QED BY <1>1, <1>2 DEF Home

LEMMA NextIndexIs ==
  ASSUME capacity \in Primes, NEW i \in 0 .. capacity - 1
  PROVE  NextIndex(i) = IF i = capacity - 1 THEN 0 ELSE i + 1
PROOF
  <1>1. capacity \in Nat /\ capacity > 1
    BY PrimeFacts
  <1>2. CASE i = capacity - 1
    <2>1. i + 1 = capacity
      BY <1>1, <1>2
    <2>2. capacity % capacity = 0
      BY <1>1
    <2> QED BY <1>2, <2>1, <2>2 DEF NextIndex
  <1>3. CASE i # capacity - 1
    <2>1. i + 1 \in 0 .. capacity - 1
      BY <1>1, <1>3
    <2>2. (i + 1) % capacity = i + 1
      BY <1>1, <2>1
    <2> QED BY <1>3, <2>2 DEF NextIndex
  <1> QED BY <1>2, <1>3

LEMMA PathRange ==
  ASSUME capacity \in Primes, NEW h \in 0 .. capacity - 1, NEW i \in 0 .. capacity - 1
  PROVE  Path(h, i) \subseteq 0 .. capacity - 1 /\ i \notin Path(h, i) /\ Path(h, h) = {}
PROOF
  <1>1. capacity \in Nat /\ capacity > 1
    BY PrimeFacts
  <1> QED BY <1>1 DEF Path

\* One bucket further on, the path is one bucket longer, or back at home and empty.
LEMMA PathNext ==
  ASSUME capacity \in Primes, NEW h \in 0 .. capacity - 1, NEW i \in 0 .. capacity - 1
  PROVE  Path(h, NextIndex(i)) \subseteq Path(h, i) \cup {i}
PROOF
  <1>1. capacity \in Nat /\ capacity > 1
    BY PrimeFacts
  <1>2. CASE i = capacity - 1
    <2>1. NextIndex(i) = 0
      BY <1>2, NextIndexIs
    <2> QED BY <1>1, <1>2, <2>1 DEF Path
  <1>3. CASE i # capacity - 1
    <2>1. NextIndex(i) = i + 1
      BY <1>3, NextIndexIs
    <2> QED BY <1>1, <1>3, <2>1 DEF Path
  <1> QED BY <1>2, <1>3

\* Of two buckets one comes first on the way from a home.
LEMMA PathTotal ==
  ASSUME capacity \in Primes, NEW h \in 0 .. capacity - 1,
         NEW i \in 0 .. capacity - 1, NEW j \in 0 .. capacity - 1, i # j
  PROVE  j \in Path(h, i) \/ i \in Path(h, j)
PROOF
  <1>1. capacity \in Nat /\ capacity > 1
    BY PrimeFacts
  <1> QED BY <1>1 DEF Path

-----------------------------------------------------------------------------
(* The call stack *)

LEMMA TopFacts ==
  ASSUME Stack, frames # <<>>
  PROVE  /\ Len(frames) \in Nat /\ Len(frames) >= 1
         /\ Top \in AnyFrame
         /\ Frame(Top)
PROOF
  <1>1. Len(frames) \in Nat /\ Len(frames) >= 1
    BY DEF Stack
  <1>2. Len(frames) \in 1 .. Len(frames)
    BY <1>1
  <1> QED BY <1>1, <1>2 DEF Stack, Top

LEMMA TopReplaced ==
  ASSUME Stack, frames # <<>>, NEW f \in AnyFrame, frames' = SetTop(f), capacity' = capacity, Frame(f)
  PROVE  Stack' /\ frames' # <<>> /\ Top' = f
PROOF
  <1>1. frames \in Seq(AnyFrame) /\ Len(frames) \in 1 .. Len(frames) /\ Len(frames) \in Nat
    BY TopFacts DEF Stack
  <1>2. /\ frames' \in Seq(AnyFrame)
        /\ Len(frames') = Len(frames)
        /\ \A d \in 1 .. Len(frames) : frames'[d] = IF d = Len(frames) THEN f ELSE frames[d]
    BY <1>1, ExceptSeq DEF SetTop
  <1>3. \A d \in 1 .. Len(frames') : Frame(frames[d])'
    <2> SUFFICES ASSUME NEW d \in 1 .. Len(frames) PROVE Frame(frames[d])'
      BY <1>2
    <2>1. Frame(IF d = Len(frames) THEN f ELSE frames[d])
      BY DEF Stack
    <2> QED BY <1>2, <2>1 DEF Frame
  <1>4. \A d \in 1 .. Len(frames') - 1 : Settled(frames'[d])
    <2> SUFFICES ASSUME NEW d \in 1 .. Len(frames) - 1 PROVE Settled(frames'[d])
      BY <1>2
    <2>1. d \in 1 .. Len(frames) /\ d # Len(frames)
      BY <1>1
    <2> QED BY <1>2, <2>1 DEF Stack
  <1>5. frames' # <<>> /\ Top' = f
    <2>1. Top' = frames'[Len(frames)]
      BY <1>2 DEF Top
    <2> QED BY <1>1, <1>2, <2>1
  <1> QED BY <1>2, <1>3, <1>4, <1>5 DEF Stack, Settled

LEMMA Popped ==
  ASSUME Stack, frames # <<>>, frames' = Return, capacity' = capacity
  PROVE  Stack' /\ (frames' # <<>> => Settled(Top'))
PROOF
  <1>1. frames \in Seq(AnyFrame) /\ Len(frames) \in Nat /\ Len(frames) >= 1
    BY TopFacts DEF Stack
  <1>2. PICK n \in Nat : n = Len(frames) - 1
    BY <1>1
  <1>3. frames' = SubSeq(frames, 1, n) /\ n + 1 = Len(frames)
    BY <1>1, <1>2 DEF Return
  <1>4. \A d \in 1 .. n : frames[d] \in AnyFrame /\ d \in 1 .. Len(frames)
    BY <1>1, <1>3
  <1>5. /\ frames' \in Seq(AnyFrame)
        /\ Len(frames') = n
        /\ \A d \in 1 .. n : frames'[d] = frames[d]
    <2>1. /\ SubSeq(frames, 1, n) \in Seq(AnyFrame)
          /\ Len(SubSeq(frames, 1, n)) = IF 1 <= n THEN n - 1 + 1 ELSE 0
          /\ \A d \in 1 .. n - 1 + 1 : SubSeq(frames, 1, n)[d] = frames[1 + d - 1]
      BY <1>4, SubSeqProperties
    <2>2. n - 1 + 1 = n /\ (~(1 <= n) => n = 0) /\ \A d \in Int : 1 + d - 1 = d
      OBVIOUS
    <2> QED BY <1>3, <2>1, <2>2
  <1>6. \A d \in 1 .. n : Frame(frames[d])'
    <2> SUFFICES ASSUME NEW d \in 1 .. n PROVE Frame(frames[d])'
      OBVIOUS
    <2>1. Frame(frames[d])
      BY <1>4 DEF Stack
    <2> QED BY <1>5, <2>1 DEF Frame
  <1>7. \A d \in 1 .. n : Settled(frames'[d])
    <2> SUFFICES ASSUME NEW d \in 1 .. n PROVE Settled(frames'[d])
      OBVIOUS
    <2>1. d \in 1 .. Len(frames) - 1
      BY <1>1, <1>2
    <2> QED BY <1>5, <2>1 DEF Stack
  <1>8. frames' # <<>> => Settled(Top')
    <2> SUFFICES ASSUME frames' # <<>> PROVE Settled(Top')
      OBVIOUS
    <2>1. n \in 1 .. n
      BY <1>5
    <2>2. Top' = frames'[n]
      BY <1>5 DEF Top
    <2> QED BY <1>7, <2>1, <2>2
  <1> QED BY <1>5, <1>6, <1>7, <1>8 DEF Stack, Settled

\* The calling activation f waits, the called one g runs; the table may have
\* been replaced by one of another capacity.
LEMMA Pushed ==
  ASSUME Stack, frames # <<>>, NEW f \in AnyFrame, NEW g \in AnyFrame,
         frames' = Append(SetTop(f), g), Settled(f), Frame(f)', Frame(g)'
  PROVE  Stack' /\ frames' # <<>> /\ Top' = g
PROOF
  <1>1. frames \in Seq(AnyFrame) /\ Len(frames) \in 1 .. Len(frames) /\ Len(frames) \in Nat
    BY TopFacts DEF Stack
  <1>2. PICK n \in Nat : n = Len(frames)
    BY <1>1
  <1>3. /\ SetTop(f) \in Seq(AnyFrame)
        /\ Len(SetTop(f)) = n
        /\ \A d \in 1 .. n : SetTop(f)[d] = IF d = n THEN f ELSE frames[d]
    BY <1>1, <1>2, ExceptSeq DEF SetTop
  <1>4. /\ frames' \in Seq(AnyFrame)
        /\ Len(frames') = n + 1
        /\ \A d \in 1 .. n : frames'[d] = IF d = n THEN f ELSE frames[d]
        /\ frames'[n + 1] = g
    BY <1>3, AppendProperties
  <1>5. \A d \in 1 .. n : Settled(frames'[d]) /\ Frame(frames[d])'
    <2> SUFFICES ASSUME NEW d \in 1 .. n PROVE Settled(frames'[d]) /\ Frame(frames[d])'
      OBVIOUS
    <2>1. CASE d = n
      BY <1>4, <2>1 DEF Frame
    <2>2. CASE d # n
      <3>1. d \in 1 .. Len(frames) - 1 /\ d \in 1 .. Len(frames)
        BY <1>2, <2>2
      <3>2. Settled(frames[d]) /\ Frame(frames[d])
        BY <3>1 DEF Stack
      <3>3. frames'[d] = frames[d]
        BY <1>4, <2>2
      <3>4. PICK x : x = frames[d]
        OBVIOUS
      <3>5. Frame(x)'
        BY <3>2, <3>4 DEF Frame, Settled
      <3> QED BY <3>2, <3>3, <3>4, <3>5 DEF Frame
    <2> QED BY <2>1, <2>2
  <1>6. \A d \in 1 .. n + 1 : Frame(frames[d])'
    <2> SUFFICES ASSUME NEW d \in 1 .. n + 1 PROVE Frame(frames[d])'
      OBVIOUS
    <2>1. CASE d = n + 1
      BY <1>4, <2>1 DEF Frame
    <2>2. CASE d # n + 1
      <3>1. d \in 1 .. n
        BY <2>2
      <3> QED BY <1>5, <3>1
    <2> QED BY <2>1, <2>2
  <1>7. frames' # <<>> /\ Top' = g
    <2>1. Top' = frames'[n + 1]
      BY <1>4 DEF Top
    <2> QED BY <1>4, <2>1
  <1>8. Len(frames') - 1 = n
    BY <1>4
  <1> QED BY <1>4, <1>5, <1>6, <1>7, <1>8 DEF Stack, Settled

-----------------------------------------------------------------------------
(* The table *)

LEMMA BucketFacts ==
  ASSUME Table, NEW i \in 0 .. capacity - 1
  PROVE  /\ DOMAIN buckets = 0 .. capacity - 1
         /\ buckets[i] # NULL => buckets[i] \in Entry /\ buckets[i].key \in Keys /\ buckets[i].val \in Infos
PROOF
  <1>1. buckets \in [0 .. capacity - 1 -> Entry \cup {NULL}]
    BY DEF Table, Array
  <1> QED BY <1>1 DEF Entry

LEMMA EntryNotNull == ASSUME NEW e \in Entry PROVE e # NULL
BY SymbolMapAssumption

LEMMA EmptyTable ==
  ASSUME NEW c \in Nat, NEW d, d = [i \in 0 .. c - 1 |-> NULL]
  PROVE  d \in Array(c) /\ DOMAIN d = 0 .. c - 1 /\ \A i \in DOMAIN d : d[i] = NULL
BY DEF Array

LEMMA TableKept ==
  ASSUME ProbePathsUnbroken, UNCHANGED <<buckets, capacity>>
  PROVE  ProbePathsUnbroken'
BY DEF ProbePathsUnbroken, Path, Home

\* Storing a name where its probe stops, in a free bucket or in its own, breaks no
\* path and stores no name twice.
LEMMA StoreKeepsPaths ==
  ASSUME Table, ProbePathsUnbroken,
         NEW i \in 0 .. capacity - 1, NEW k \in Keys, NEW v \in Infos,
         \A j \in Path(Home(k), i) : buckets[j] # NULL /\ buckets[j].key # k,
         buckets[i] = NULL \/ buckets[i].key = k,
         buckets' = [buckets EXCEPT ![i] = [key |-> k, val |-> v]], capacity' = capacity
  PROVE  ProbePathsUnbroken'
PROOF
  <1> DEFINE e == [key |-> k, val |-> v]
  <1>1. e \in Entry /\ e # NULL /\ e.key = k
    BY EntryNotNull DEF Entry
  <1>2. capacity \in Primes /\ DOMAIN buckets = 0 .. capacity - 1 /\ DOMAIN buckets' = 0 .. capacity - 1
    BY BucketFacts DEF Table
  <1>3. \A j \in 0 .. capacity - 1 : buckets'[j] = IF j = i THEN e ELSE buckets[j]
    BY <1>2
  <1> HIDE DEF e
  <1>4. Home(k) \in 0 .. capacity - 1
    BY <1>2, HomeInRange
  <1>5. \A a \in 0 .. capacity - 1 : buckets'[a] # NULL => buckets'[a].key \in Keys
    BY <1>1, <1>3, BucketFacts
  <1>6. ASSUME NEW a \in 0 .. capacity - 1, NEW b \in 0 .. capacity - 1, buckets[a] # NULL
        PROVE  /\ b \in Path(Home(buckets[a].key), a) => buckets[b] # NULL
               /\ buckets[b] # NULL /\ buckets[b].key = buckets[a].key => b = a
    BY <1>2, <1>6 DEF ProbePathsUnbroken
  <1>7. ASSUME NEW b \in 0 .. capacity - 1, buckets[b] # NULL, buckets[b].key = k
        PROVE  b = i
    <2> SUFFICES ASSUME b # i PROVE FALSE
      OBVIOUS
    <2>1. CASE b \in Path(Home(k), i)
      BY <1>7, <2>1
    <2>2. CASE i \in Path(Home(k), b)
      <3>1. buckets[i] # NULL
        BY <1>6, <1>7, <2>2
      <3>2. buckets[i].key = buckets[b].key
        BY <1>7, <3>1
      <3> QED BY <1>6, <1>7, <3>1, <3>2
    <2> QED BY <1>2, <1>4, <2>1, <2>2, PathTotal
  <1>8. ASSUME NEW a \in 0 .. capacity - 1, buckets'[a] # NULL,
               NEW b \in Path(Home(buckets'[a].key), a)
        PROVE  buckets'[b] # NULL
    <2>1. b \in 0 .. capacity - 1
      BY <1>2, <1>5, <1>8, HomeInRange, PathRange
    <2>2. CASE a = i
      <3>1. b \in Path(Home(k), i)
        BY <1>1, <1>3, <1>8, <2>2
      <3>2. buckets[b] # NULL
        BY <3>1
      <3> QED BY <1>1, <1>3, <2>1, <3>2
    <2>3. CASE a # i
      <3>1. buckets'[a] = buckets[a]
        BY <1>3, <2>3
      <3>2. buckets[b] # NULL
        BY <1>6, <1>8, <2>1, <3>1
      <3> QED BY <1>1, <1>3, <2>1, <3>2
    <2> QED BY <2>2, <2>3
  <1>9. ASSUME NEW a \in 0 .. capacity - 1, NEW b \in 0 .. capacity - 1,
               buckets'[a] # NULL, buckets'[b] # NULL, buckets'[b].key = buckets'[a].key
        PROVE  b = a
    <2>1. CASE a = i /\ b # i
      BY <1>1, <1>3, <1>7, <1>9, <2>1
    <2>2. CASE a # i /\ b = i
      BY <1>1, <1>3, <1>7, <1>9, <2>2
    <2>3. CASE a # i /\ b # i
      BY <1>3, <1>6, <1>9, <2>3
    <2>4. CASE a = i /\ b = i
      BY <2>4
    <2> QED BY <2>1, <2>2, <2>3, <2>4
  <1> SUFFICES ASSUME NEW a \in DOMAIN buckets', buckets'[a] # NULL
               PROVE  /\ \A b \in Path(Home(buckets[a].key), a)' : buckets'[b] # NULL
                      /\ \A b \in DOMAIN buckets' :
                           buckets'[b] # NULL /\ buckets'[b].key = buckets'[a].key => b = a
    BY DEF ProbePathsUnbroken
  <1>10. Path(Home(buckets[a].key), a)' = Path(Home(buckets'[a].key), a)
    BY DEF Path, Home
  <1> QED BY <1>2, <1>8, <1>9, <1>10

-----------------------------------------------------------------------------
(* Steps *)

LEMMA FreeInfosType == ASSUME heap \in Heaps, NEW S PROVE FreeInfos(S) \in Heaps
BY DEF Heaps, FreeInfos

\* An activation that is not probing has nothing to remember.
LEMMA NoProbe ==
  ASSUME frames' # <<>> => Top'.fn # "emplace" \/ Top'.pc # "probe"
  PROVE  TopProbes'
BY DEF TopProbes

\* The probe of f has passed other names only.
Passed(f) == \A j \in Path(Home(f.key), f.index) : buckets[j] # NULL /\ buckets[j].key # f.key

LEMMA ProbeKept ==
  ASSUME NEW f, Top' = f, Passed(f), UNCHANGED <<buckets, capacity>>
  PROVE  TopProbes'
PROOF
  <1>1. Path(Home(Top.key), Top.index)' = Path(Home(f.key), f.index)
    BY DEF Path, Home
  <1> QED BY <1>1 DEF TopProbes, Passed

LEMMA MInit == Init => MInv
PROOF
  <1> SUFFICES ASSUME Init PROVE MInv
    OBVIOUS
  <1>1. capacity \in Primes /\ capacity \in Nat /\ capacity = InitialCapacity
    BY SymbolMapAssumption, PrimeFacts DEF Init
  <1>2. /\ buckets \in Array(capacity) /\ DOMAIN buckets = 0 .. capacity - 1
        /\ \A i \in DOMAIN buckets : buckets[i] = NULL
    BY <1>1, EmptyTable DEF Init
  <1>3. Table
    BY <1>1, <1>2 DEF Init, Table, Heaps
  <1>4. ProbePathsUnbroken
    BY <1>2 DEF ProbePathsUnbroken
  <1>5. Stack /\ TopProbes
    BY DEF Init, Stack, TopProbes
  <1> QED BY <1>3, <1>4, <1>5 DEF MInv

LEMMA OneFrame ==
  ASSUME NEW f \in AnyFrame, frames' = <<f>>, Frame(f)'
  PROVE  Stack' /\ Top' = f
PROOF
  <1>1. frames' \in Seq(AnyFrame) /\ Len(frames') = 1 /\ frames'[1] = f
    OBVIOUS
  <1>2. \A d \in 1 .. Len(frames') : d = 1
    BY <1>1
  <1>3. \A d \in 1 .. Len(frames') : Frame(frames[d])'
    BY <1>1, <1>2 DEF Frame
  <1>4. \A d \in 1 .. Len(frames') - 1 : FALSE
    BY <1>1
  <1>5. Top' = f
    BY <1>1 DEF Top
  <1> QED BY <1>1, <1>3, <1>4, <1>5 DEF Stack

LEMMA MCallEmplace == ASSUME MInv, NEW k \in Keys, NEW v \in Infos, CallEmplace(k, v) PROVE MInv'
PROOF
  <1> DEFINE f == EmplaceFrame(k, v)
  <1>1. /\ frames' = <<f>> /\ heap' = [heap EXCEPT ![v] = "live"]
        /\ UNCHANGED <<capacity, size, buckets, ret, status>>
    BY DEF CallEmplace
  <1>2. f \in AnyFrame /\ Frame(f)' /\ f.pc = "load"
    BY DEF EmplaceFrame, AnyFrame, EmplaceFrames, Frame
  <1> HIDE DEF f
  <1>3. Stack' /\ Top' = f
    BY <1>1, <1>2, OneFrame
  <1>4. TopProbes'
    BY <1>2, <1>3, NoProbe
  <1>5. heap' \in Heaps
    BY <1>1 DEF MInv, Table, Heaps
  <1>6. Table'
    BY <1>1, <1>5 DEF MInv, Table
  <1>7. ProbePathsUnbroken'
    BY <1>1, TableKept DEF MInv
  <1> QED BY <1>3, <1>4, <1>6, <1>7 DEF MInv

LEMMA MCallLookup == ASSUME MInv, NEW k \in Keys, CallLookup(k) PROVE MInv'
PROOF
  <1> DEFINE f == [fn |-> "lookup", key |-> k, index |-> Home(k)]
  <1>1. frames' = <<f>> /\ UNCHANGED <<capacity, size, buckets, heap, ret, status>>
    BY DEF CallLookup
  <1>2. capacity \in Primes /\ capacity \in Nat
    BY PrimeFacts DEF MInv, Table
  <1>3. PICK i \in 0 .. capacity - 1 : i = Home(k)
    BY <1>2, HomeInRange
  <1>4. PICK g : g = [fn |-> "lookup", key |-> k, index |-> i]
    OBVIOUS
  <1>5. g \in AnyFrame /\ Frame(g)' /\ g.fn = "lookup"
    <2>1. i \in Nat /\ i \in 0 .. capacity' - 1
      BY <1>1, <1>2
    <2>2. g \in AnyFrame
      BY <1>4, <2>1 DEF AnyFrame, LookupFrames
    <2>3. Frame(g)'
      BY <1>4, <2>1 DEF Frame
    <2> QED BY <1>4, <2>2, <2>3
  <1>6. Stack' /\ Top' = g
    BY <1>1, <1>3, <1>4, <1>5, OneFrame
  <1>7. TopProbes'
    BY <1>5, <1>6, NoProbe
  <1>8. Table' /\ ProbePathsUnbroken'
    BY <1>1, TableKept DEF MInv, Table
  <1> QED BY <1>6, <1>7, <1>8 DEF MInv

LEMMA MCallFree == MInv /\ CallFree => MInv'
PROOF
  <1> SUFFICES ASSUME MInv, CallFree PROVE MInv'
    OBVIOUS
  <1>1. /\ buckets' = [i \in DOMAIN buckets |-> NULL] /\ status' = "freed"
        /\ UNCHANGED <<capacity, size, frames, ret>> /\ frames = <<>>
    BY DEF CallFree, Idle
  <1>2. heap' \in Heaps
    BY FreeInfosType DEF MInv, Table, CallFree
  <1>3. DOMAIN buckets = 0 .. capacity - 1 /\ capacity \in Nat
    BY PrimeFacts DEF MInv, Table, Array
  <1>4. buckets' \in Array(capacity) /\ \A i \in DOMAIN buckets' : buckets'[i] = NULL
    BY <1>1, <1>3, EmptyTable
  <1>5. Table'
    BY <1>1, <1>2, <1>4 DEF MInv, Table
  <1>6. ProbePathsUnbroken'
    BY <1>4 DEF ProbePathsUnbroken
  <1>7. Stack' /\ TopProbes'
    BY <1>1 DEF MInv, Stack, TopProbes
  <1> QED BY <1>5, <1>6, <1>7 DEF MInv

LEMMA RunningTop ==
  ASSUME MInv, NEW fn, Running(fn)
  PROVE  frames # <<>> /\ Top \in AnyFrame /\ Frame(Top) /\ Top.fn = fn
BY TopFacts DEF MInv, Running

LEMMA EmplaceTop ==
  ASSUME MInv, NEW pc, At(pc)
  PROVE  /\ frames # <<>> /\ Top \in EmplaceFrames /\ Top.pc = pc /\ Top.fn = "emplace"
         /\ Top.key \in Keys /\ Top.val \in Infos
         /\ pc = "probe" => Top.index \in 0 .. capacity - 1 /\ Passed(Top)
PROOF
  <1>1. /\ frames # <<>> /\ Top \in AnyFrame /\ Frame(Top) /\ Top.fn = "emplace" /\ Top.pc = pc
    BY RunningTop DEF At
  <1>2. Top \in EmplaceFrames
    BY <1>1 DEF AnyFrame, ResizeFrames, LookupFrames
  <1>3. Top.key \in Keys /\ Top.val \in Infos /\ Top.index \in Nat
    BY <1>2 DEF EmplaceFrames
  <1>4. pc = "probe" => Top.index < capacity
    BY <1>1 DEF Frame
  <1>5. capacity \in Nat
    BY PrimeFacts DEF MInv, Table
  <1>6. pc = "probe" => Passed(Top)
    BY <1>1 DEF MInv, TopProbes, Passed
  <1> QED BY <1>1, <1>2, <1>3, <1>4, <1>5, <1>6

LEMMA MGrow == MInv /\ Grow => MInv'
PROOF
  <1> SUFFICES ASSUME MInv, Grow PROVE MInv'
    OBVIOUS
  <1> DEFINE f == [Top EXCEPT !.pc = "hash"]
             g == [fn |-> "resize", old |-> buckets, len |-> capacity, i |-> 0]
  <1>1. /\ At("load") /\ size' = 0 /\ frames' = Append(SetTop(f), g) /\ UNCHANGED <<heap, ret, status>>
    BY DEF Grow, GrowTo
  <1>2. PICK p \in Primes : capacity' = p /\ buckets' = [i \in 0 .. p - 1 |-> NULL]
    BY DEF Grow, GrowTo, FindNextPrime
  <1>3. frames # <<>> /\ Top \in EmplaceFrames
    BY <1>1, EmplaceTop
  <1>4. PICK x \in EmplaceFrames : x = f
    BY <1>3 DEF EmplaceFrames
  <1>5. x \in AnyFrame /\ Settled(x) /\ Frame(x)'
    <2>1. x.pc = "hash" /\ x.fn = "emplace" /\ x.key \in Keys /\ x.val \in Infos /\ x.index \in Nat
      BY <1>3, <1>4 DEF EmplaceFrames
    <2>2. Frame(x)'
      BY <2>1 DEF Frame
    <2> QED BY <2>1, <2>2 DEF AnyFrame, Settled
  <1>6. buckets \in Array(capacity) /\ capacity \in Nat
    BY PrimeFacts DEF MInv, Table
  <1>7. PICK y : y = g
    OBVIOUS
  <1>8. y \in AnyFrame /\ Frame(y)' /\ y.fn = "resize"
    <2>1. y.fn = "resize" /\ y.old = buckets /\ y.len = capacity /\ y.i = 0
      BY <1>7
    <2>2. buckets \in UNION {Array(c) : c \in Nat}
      BY <1>6
    <2>3. y \in ResizeFrames
      BY <1>6, <1>7, <2>2 DEF ResizeFrames
    <2>4. Frame(y)'
      BY <1>6, <2>1 DEF Frame
    <2> QED BY <2>1, <2>3, <2>4 DEF AnyFrame
  <1>9. frames' = Append(SetTop(x), y)
    BY <1>1, <1>4, <1>7
  <1> HIDE DEF f, g
  <1>10. Stack' /\ Top' = y
    BY <1>3, <1>5, <1>8, <1>9, Pushed DEF MInv
  <1>11. TopProbes'
    BY <1>8, <1>10, NoProbe
  <1>12. buckets' \in Array(p) /\ \A i \in DOMAIN buckets' : buckets'[i] = NULL
    BY <1>2, PrimeFacts, EmptyTable
  <1>13. Table'
    BY <1>1, <1>2, <1>12 DEF MInv, Table
  <1>14. ProbePathsUnbroken'
    BY <1>12 DEF ProbePathsUnbroken
  <1> QED BY <1>10, <1>11, <1>13, <1>14 DEF MInv

LEMMA MStartProbe == MInv /\ StartProbe => MInv'
PROOF
  <1> SUFFICES ASSUME MInv, StartProbe PROVE MInv'
    OBVIOUS
  <1>1. /\ frames' = SetTop([Top EXCEPT !.pc = "probe", !.index = Home(Top.key)])
        /\ UNCHANGED <<capacity, size, buckets, heap, ret, status>>
    BY DEF StartProbe
  <1>2. frames # <<>> /\ Top \in EmplaceFrames /\ Top.key \in Keys
    BY EmplaceTop DEF StartProbe
  <1>3. capacity \in Primes /\ capacity \in Nat /\ Home(Top.key) \in 0 .. capacity - 1
    BY <1>2, HomeInRange, PrimeFacts DEF MInv, Table
  <1>4. PICK x : x = [Top EXCEPT !.pc = "probe", !.index = Home(Top.key)]
    OBVIOUS
  <1>0. /\ x \in EmplaceFrames
        /\ x.pc = "probe" /\ x.fn = "emplace" /\ x.key = Top.key /\ x.val = Top.val
        /\ x.index = Home(Top.key)
    <2>1. Home(Top.key) \in Nat
      BY <1>3
    <2>2. PICK n \in Nat : n = Home(Top.key)
      BY <2>1
    <2>3. PICK t \in EmplaceFrames : t = Top
      BY <1>2
    <2>4. x = [t EXCEPT !.pc = "probe", !.index = n]
      BY <1>4, <2>2, <2>3
    <2>5. x \in EmplaceFrames /\ x.pc = "probe" /\ x.fn = "emplace" /\ x.key = t.key /\ x.val = t.val /\ x.index = n
      BY <2>4 DEF EmplaceFrames
    <2> QED BY <2>2, <2>3, <2>5
  <1>5. x \in AnyFrame /\ Frame(x)
    <2>1. x.key \in Keys /\ x.val \in Infos /\ x.index \in Nat /\ x.index < capacity
      BY <1>0, <1>2, <1>3 DEF EmplaceFrames
    <2> QED BY <1>0, <2>1 DEF AnyFrame, Frame
  <1>6. Stack' /\ Top' = x
    BY <1>1, <1>2, <1>4, <1>5, TopReplaced DEF MInv
  <1>7. Passed(x)
    <2>1. Path(Home(x.key), x.index) = {}
      BY <1>0, <1>3, PathRange
    <2> QED BY <2>1 DEF Passed
  <1>8. TopProbes'
    BY <1>1, <1>6, <1>7, ProbeKept
  <1>9. Table' /\ ProbePathsUnbroken'
    BY <1>1, TableKept DEF MInv, Table
  <1> QED BY <1>6, <1>8, <1>9 DEF MInv

LEMMA MProbeNext == MInv /\ ProbeNext => MInv'
PROOF
  <1> SUFFICES ASSUME MInv, ProbeNext PROVE MInv'
    OBVIOUS
  <1>1. /\ At("probe") /\ buckets[Top.index] # NULL /\ buckets[Top.index].key # Top.key
        /\ frames' = SetTop([Top EXCEPT !.index = NextIndex(@)])
        /\ status' \in {status, "exited"}
        /\ UNCHANGED <<capacity, size, buckets, heap, ret>>
    BY DEF ProbeNext
  <1>2. /\ frames # <<>> /\ Top \in EmplaceFrames /\ Top.pc = "probe" /\ Top.fn = "emplace"
        /\ Top.key \in Keys /\ Top.index \in 0 .. capacity - 1 /\ Passed(Top)
    BY <1>1, EmplaceTop
  <1>3. capacity \in Primes /\ capacity \in Nat /\ capacity > 1 /\ Home(Top.key) \in 0 .. capacity - 1
    BY <1>2, HomeInRange, PrimeFacts DEF MInv, Table
  <1>4. NextIndex(Top.index) \in 0 .. capacity - 1
    BY <1>2, <1>3, NextIndexIs
  <1>5. PICK x : x = [Top EXCEPT !.index = NextIndex(@)]
    OBVIOUS
  <1>0. /\ x \in EmplaceFrames
        /\ x.pc = "probe" /\ x.fn = "emplace" /\ x.key = Top.key /\ x.val = Top.val
        /\ x.index = NextIndex(Top.index)
    <2>1. NextIndex(Top.index) \in Nat
      BY <1>3, <1>4
    <2>2. PICK n \in Nat : n = NextIndex(Top.index)
      BY <2>1
    <2>3. PICK t \in EmplaceFrames : t = Top
      BY <1>2
    <2>4. x = [t EXCEPT !.index = n]
      BY <1>5, <2>2, <2>3
    <2>5. x \in EmplaceFrames /\ x.pc = t.pc /\ x.fn = "emplace" /\ x.key = t.key /\ x.val = t.val /\ x.index = n
      BY <2>4 DEF EmplaceFrames
    <2> QED BY <1>2, <2>2, <2>3, <2>5
  <1>6. x \in AnyFrame /\ Frame(x)
    <2>1. x.key \in Keys /\ x.val \in Infos /\ x.index \in Nat /\ x.index < capacity
      BY <1>0, <1>2, <1>3, <1>4 DEF EmplaceFrames
    <2> QED BY <1>0, <2>1 DEF AnyFrame, Frame
  <1>7. Stack' /\ Top' = x
    BY <1>1, <1>2, <1>5, <1>6, TopReplaced DEF MInv
  <1>8. Passed(x)
    <2>1. Path(Home(Top.key), NextIndex(Top.index)) \subseteq Path(Home(Top.key), Top.index) \cup {Top.index}
      BY <1>2, <1>3, PathNext
    <2>2. \A j \in Path(Home(Top.key), Top.index) : buckets[j] # NULL /\ buckets[j].key # Top.key
      BY <1>2 DEF Passed
    <2> QED BY <1>0, <1>1, <2>1, <2>2 DEF Passed
  <1>9. TopProbes'
    BY <1>1, <1>7, <1>8, ProbeKept
  <1>10. Table' /\ ProbePathsUnbroken'
    BY <1>1, TableKept DEF MInv, Table
  <1> QED BY <1>7, <1>9, <1>10 DEF MInv

\* What Overwrite and Insert have in common.
LEMMA MStore ==
  ASSUME MInv, At("probe"), buckets[Top.index] = NULL \/ buckets[Top.index].key = Top.key,
         buckets' = [buckets EXCEPT ![Top.index] = [key |-> Top.key, val |-> Top.val]],
         frames' = Return, UNCHANGED <<capacity, ret, status>>, size' \in Nat, heap' \in Heaps
  PROVE  MInv'
PROOF
  <1>1. /\ frames # <<>> /\ Top.key \in Keys /\ Top.val \in Infos /\ Top.index \in 0 .. capacity - 1
        /\ Passed(Top)
    BY EmplaceTop
  <1>2. Stack' /\ (frames' # <<>> => Settled(Top'))
    BY <1>1, Popped DEF MInv
  <1>3. TopProbes'
    BY <1>2, NoProbe DEF Settled
  <1>4. PICK i \in 0 .. capacity - 1, k \in Keys, v \in Infos : i = Top.index /\ k = Top.key /\ v = Top.val
    BY <1>1
  <1>5. /\ buckets' = [buckets EXCEPT ![i] = [key |-> k, val |-> v]]
        /\ buckets[i] = NULL \/ buckets[i].key = k
        /\ \A j \in Path(Home(k), i) : buckets[j] # NULL /\ buckets[j].key # k
    BY <1>1, <1>4 DEF Passed
  <1>6. ProbePathsUnbroken'
    BY <1>5, StoreKeepsPaths DEF MInv
  <1>7. buckets' \in Array(capacity)
    <2>1. buckets \in [0 .. capacity - 1 -> Entry \cup {NULL}]
      BY DEF MInv, Table, Array
    <2>2. [key |-> k, val |-> v] \in Entry
      BY DEF Entry
    <2> QED BY <1>5, <2>1, <2>2 DEF Array
  <1>8. Table'
    BY <1>7 DEF MInv, Table
  <1> QED BY <1>2, <1>3, <1>6, <1>8 DEF MInv

LEMMA MOverwrite == MInv /\ Overwrite => MInv'
PROOF
  <1> SUFFICES ASSUME MInv, Overwrite PROVE MInv'
    OBVIOUS
  <1>1. heap' \in Heaps
    BY FreeInfosType DEF MInv, Table, Overwrite
  <1>2. size' \in Nat
    BY DEF MInv, Table, Overwrite
  <1> QED BY <1>1, <1>2, MStore DEF Overwrite

LEMMA MInsert == MInv /\ Insert => MInv'
PROOF
  <1> SUFFICES ASSUME MInv, Insert PROVE MInv'
    OBVIOUS
  <1>1. heap' \in Heaps /\ size' \in Nat
    BY DEF MInv, Table, Insert
  <1> QED BY <1>1, MStore DEF Insert

LEMMA ResizeTop ==
  ASSUME MInv, Running("resize")
  PROVE  /\ frames # <<>> /\ Top \in ResizeFrames /\ Top.fn = "resize"
         /\ Top.len \in Nat /\ Top.old \in Array(Top.len) /\ Top.i \in 0 .. Top.len
PROOF
  <1>1. /\ frames # <<>> /\ Top \in AnyFrame /\ Frame(Top) /\ Top.fn = "resize"
    BY RunningTop
  <1>2. Top \in ResizeFrames
    BY <1>1 DEF AnyFrame, EmplaceFrames, LookupFrames
  <1>3. Top.len \in Nat /\ Top.old \in Array(Top.len) /\ Top.i \in 0 .. Top.len
    BY <1>1 DEF Frame
  <1> QED BY <1>1, <1>2, <1>3

\* One turn of the copying loop.
LEMMA ResizeTurn ==
  ASSUME MInv, Running("resize"), Top.i < Top.len,
         NEW x, x = [Top EXCEPT !.i = @ + 1]
  PROVE  x \in AnyFrame /\ Frame(x) /\ Frame(x)' /\ x.fn = "resize"
PROOF
  <1>1. /\ Top \in ResizeFrames /\ Top.fn = "resize"
        /\ Top.len \in Nat /\ Top.old \in Array(Top.len) /\ Top.i \in 0 .. Top.len
    BY ResizeTop
  <1>2. PICK t \in ResizeFrames : t = Top
    BY <1>1
  <1>3. PICK n \in Nat : n = Top.i + 1
    BY <1>1
  <1>4. x = [t EXCEPT !.i = n]
    BY <1>2, <1>3
  <1>5. x \in ResizeFrames /\ x.fn = "resize" /\ x.old = t.old /\ x.len = t.len /\ x.i = n
    BY <1>4 DEF ResizeFrames
  <1>6. x.i \in 0 .. x.len /\ x.len \in Nat /\ x.old \in Array(x.len)
    BY <1>1, <1>2, <1>3, <1>5
  <1> QED BY <1>5, <1>6 DEF AnyFrame, Frame

LEMMA MResizeSkip == MInv /\ ResizeSkip => MInv'
PROOF
  <1> SUFFICES ASSUME MInv, ResizeSkip PROVE MInv'
    OBVIOUS
  <1>1. /\ Running("resize") /\ Top.i < Top.len /\ frames # <<>>
        /\ frames' = SetTop([Top EXCEPT !.i = @ + 1])
        /\ UNCHANGED <<capacity, size, buckets, heap, ret, status>>
    BY DEF ResizeSkip, Running
  <1>2. PICK x : x = [Top EXCEPT !.i = @ + 1]
    OBVIOUS
  <1>3. x \in AnyFrame /\ Frame(x) /\ x.fn = "resize"
    BY <1>1, <1>2, ResizeTurn
  <1>4. Stack' /\ Top' = x
    BY <1>1, <1>2, <1>3, TopReplaced DEF MInv
  <1>5. TopProbes'
    BY <1>3, <1>4, NoProbe
  <1>6. Table' /\ ProbePathsUnbroken'
    BY <1>1, TableKept DEF MInv, Table
  <1> QED BY <1>4, <1>5, <1>6 DEF MInv

LEMMA MResizeMove == MInv /\ ResizeMove => MInv'
PROOF
  <1> SUFFICES ASSUME MInv, ResizeMove PROVE MInv'
    OBVIOUS
  <1> DEFINE e == Top.old[Top.i]
  <1>1. /\ Running("resize") /\ Top.i < Top.len /\ e # NULL /\ frames # <<>>
        /\ frames' = Append(SetTop([Top EXCEPT !.i = @ + 1]), EmplaceFrame(e.key, e.val))
        /\ UNCHANGED <<capacity, size, buckets, heap, ret, status>>
    BY DEF ResizeMove, Running
  <1>2. PICK x : x = [Top EXCEPT !.i = @ + 1]
    OBVIOUS
  <1>3. x \in AnyFrame /\ Frame(x)' /\ Settled(x)
    BY <1>1, <1>2, ResizeTurn DEF Settled
  <1>4. e \in Entry
    <2>1. Top.len \in Nat /\ Top.old \in [0 .. Top.len - 1 -> Entry \cup {NULL}] /\ Top.i \in 0 .. Top.len
      BY <1>1, ResizeTop DEF Array
    <2>2. Top.i \in 0 .. Top.len - 1
      BY <1>1, <2>1
    <2> QED BY <1>1, <2>1, <2>2
  <1>5. e.key \in Keys /\ e.val \in Infos
    BY <1>4 DEF Entry
  <1>6. PICK y : y = EmplaceFrame(e.key, e.val)
    OBVIOUS
  <1>7. y \in AnyFrame /\ Frame(y)' /\ y.pc = "load"
    BY <1>5, <1>6 DEF EmplaceFrame, AnyFrame, EmplaceFrames, Frame
  <1>8. frames' = Append(SetTop(x), y)
    BY <1>1, <1>2, <1>6
  <1>9. Stack' /\ Top' = y
    BY <1>1, <1>3, <1>7, <1>8, Pushed DEF MInv
  <1>10. TopProbes'
    BY <1>7, <1>9, NoProbe
  <1>11. Table' /\ ProbePathsUnbroken'
    BY <1>1, TableKept DEF MInv, Table
  <1> QED BY <1>9, <1>10, <1>11 DEF MInv

\* A function that returns without having changed the table.
LEMMA MReturn ==
  ASSUME MInv, frames # <<>>, frames' = Return,
         UNCHANGED <<capacity, size, buckets, heap, status>>,
         ret' = NULL \/ (ret'.key \in Keys /\ ret'.val \in Infos \cup {NULL})
  PROVE  MInv'
PROOF
  <1>1. Stack' /\ (frames' # <<>> => Settled(Top'))
    BY Popped DEF MInv
  <1>2. TopProbes'
    BY <1>1, NoProbe DEF Settled
  <1>3. Table' /\ ProbePathsUnbroken'
    BY TableKept DEF MInv, Table
  <1> QED BY <1>1, <1>2, <1>3 DEF MInv

LEMMA MResizeDone == MInv /\ ResizeDone => MInv'
PROOF
  <1> SUFFICES ASSUME MInv, ResizeDone PROVE MInv'
    OBVIOUS
  <1>1. ret' = NULL \/ (ret'.key \in Keys /\ ret'.val \in Infos \cup {NULL})
    BY DEF ResizeDone, MInv, Table
  <1> QED BY <1>1, MReturn DEF ResizeDone, Running

LEMMA LookupTop ==
  ASSUME MInv, Running("lookup")
  PROVE  /\ frames # <<>> /\ Top \in LookupFrames /\ Top.fn = "lookup"
         /\ Top.key \in Keys /\ Top.index \in 0 .. capacity - 1
PROOF
  <1>1. frames # <<>> /\ Top \in AnyFrame /\ Frame(Top) /\ Top.fn = "lookup"
    BY RunningTop
  <1>2. Top \in LookupFrames
    BY <1>1 DEF AnyFrame, EmplaceFrames, ResizeFrames
  <1> QED BY <1>1, <1>2 DEF Frame

LEMMA MLookupMiss == MInv /\ LookupMiss => MInv'
PROOF
  <1> SUFFICES ASSUME MInv, LookupMiss PROVE MInv'
    OBVIOUS
  <1>1. /\ frames # <<>> /\ frames' = Return /\ Top.key \in Keys
        /\ ret' = [key |-> Top.key, val |-> NULL]
        /\ UNCHANGED <<capacity, size, buckets, heap, status>>
    BY LookupTop DEF LookupMiss
  <1>2. ret'.key \in Keys /\ ret'.val \in Infos \cup {NULL}
    BY <1>1
  <1> QED BY <1>1, <1>2, MReturn

LEMMA MLookupHit == MInv /\ LookupHit => MInv'
PROOF
  <1> SUFFICES ASSUME MInv, LookupHit PROVE MInv'
    OBVIOUS
  <1>1. /\ frames # <<>> /\ frames' = Return /\ Top.key \in Keys
        /\ Top.index \in 0 .. capacity - 1 /\ buckets[Top.index] # NULL
        /\ ret' = [key |-> Top.key, val |-> buckets[Top.index].val]
        /\ UNCHANGED <<capacity, size, buckets, heap, status>>
    BY LookupTop DEF LookupHit
  <1>2. buckets[Top.index].val \in Infos
    BY <1>1, BucketFacts DEF MInv
  <1>3. ret'.key \in Keys /\ ret'.val \in Infos \cup {NULL}
    BY <1>1, <1>2
  <1> QED BY <1>1, <1>3, MReturn

LEMMA MLookupNext == MInv /\ LookupNext => MInv'
PROOF
  <1> SUFFICES ASSUME MInv, LookupNext PROVE MInv'
    OBVIOUS
  <1>1. /\ frames # <<>> /\ Top \in LookupFrames /\ Top.key \in Keys /\ Top.index \in 0 .. capacity - 1
        /\ frames' = SetTop([Top EXCEPT !.index = NextIndex(@)])
        /\ UNCHANGED <<capacity, size, buckets, heap, ret, status>>
    BY LookupTop DEF LookupNext
  <1>2. capacity \in Primes /\ capacity \in Nat /\ capacity > 1
    BY PrimeFacts DEF MInv, Table
  <1>3. NextIndex(Top.index) \in 0 .. capacity - 1
    BY <1>1, <1>2, NextIndexIs
  <1>4. PICK n \in 0 .. capacity - 1 : n = NextIndex(Top.index)
    BY <1>3
  <1>5. PICK t \in LookupFrames : t = Top
    BY <1>1
  <1>6. PICK x : x = [t EXCEPT !.index = n]
    OBVIOUS
  <1>7. x \in LookupFrames /\ x.fn = "lookup" /\ x.key = t.key /\ x.index = n
    <2>1. n \in Nat
      BY <1>2
    <2> QED BY <1>6, <2>1 DEF LookupFrames
  <1>8. x \in AnyFrame /\ Frame(x)
    BY <1>1, <1>4, <1>5, <1>7 DEF AnyFrame, Frame
  <1>9. frames' = SetTop(x)
    BY <1>1, <1>4, <1>5, <1>6
  <1>10. Stack' /\ Top' = x
    BY <1>1, <1>8, <1>9, TopReplaced DEF MInv
  <1>11. TopProbes'
    BY <1>7, <1>10, NoProbe
  <1>12. Table' /\ ProbePathsUnbroken'
    BY <1>1, TableKept DEF MInv, Table
  <1> QED BY <1>10, <1>11, <1>12 DEF MInv

LEMMA MStutter == MInv /\ UNCHANGED vars => MInv'
PROOF
  <1> SUFFICES ASSUME MInv, UNCHANGED vars PROVE MInv'
    OBVIOUS
  <1>1. UNCHANGED <<capacity, size, buckets, frames, heap, ret, status>>
    BY DEF vars
  <1>2. Table' /\ ProbePathsUnbroken'
    BY <1>1, TableKept DEF MInv, Table
  <1>3. Stack'
    BY <1>1 DEF MInv, Stack, Frame, Settled
  <1>4. TopProbes'
    BY <1>1 DEF MInv, TopProbes, Top, Path, Home
  <1> QED BY <1>2, <1>3, <1>4 DEF MInv

LEMMA MNext == MInv /\ [Next]_vars => MInv'
BY MCallEmplace, MCallLookup, MCallFree, MGrow, MStartProbe, MOverwrite, MInsert, MProbeNext,
   MResizeSkip, MResizeMove, MResizeDone, MLookupMiss, MLookupHit, MLookupNext, MStutter
   DEF Next, Step

-----------------------------------------------------------------------------
(* Theorems *)

\* The invariant is inductive: MInit for the empty table, MNext for every probe
\* and every turn of the copying loop.
THEOREM SymbolMapInvariant == Spec => []MInv
BY MInit, MNext, PTL DEF Spec

\* The array, its capacity and the activation records keep their types: no probe
\* leaves the array, and no turn of the copying loop the old one.
THEOREM SymbolMapTypeCorrect == Spec => []TypeOK
PROOF
  <1>1. MInv => TypeOK
    <2> SUFFICES ASSUME MInv PROVE TypeOK
      OBVIOUS
    <2>1. \A d \in DOMAIN frames : Frame(frames[d])
      BY DEF MInv, Stack
    <2> QED BY <2>1 DEF MInv, Table, TypeOK, Heaps
  <1> QED BY <1>1, SymbolMapInvariant, PTL

\* Linear probing finds what it stored, for every hash function and however deep
\* the calls of emplace and resize nest.
THEOREM ProbingSound == Spec => []ProbePathsUnbroken
PROOF
  <1>1. MInv => ProbePathsUnbroken
    BY DEF MInv
  <1> QED BY <1>1, SymbolMapInvariant, PTL

-----------------------------------------------------------------------------
(* The search for a prime *)

LEMMA Division ==
  ASSUME NEW n \in Nat, NEW d \in Nat, d > 0
  PROVE  n \div d \in Nat /\ n % d \in 0 .. d - 1 /\ n = d * (n \div d) + (n % d)
OBVIOUS

LEMMA Multiples ==
  ASSUME NEW d \in Nat, d > 0, NEW e \in Nat
  PROVE  (d * e) % d = 0
PROOF
  <1> DEFINE n == d * e
             q == n \div d
             r == n % d
  <1>1. n \in Nat
    OBVIOUS
  <1>2. q \in Nat /\ r \in 0 .. d - 1 /\ n = d * q + r
    BY <1>1, Division
  <1> SUFFICES r = 0
    OBVIOUS
  <1>3. d * e = d * q + r
    BY <1>2
  <1> HIDE DEF n, q, r
  <1>4. d * (e - q) = r
    BY <1>2, <1>3
  <1>5. CASE e - q >= 1
    <2>1. d * (e - q) >= d
      BY <1>2, <1>5
    <2> QED BY <1>2, <1>4, <2>1
  <1>6. CASE e - q <= -1
    <2>1. d * (e - q) <= -d
      BY <1>2, <1>6
    <2> QED BY <1>2, <1>4, <2>1
  <1>7. CASE e - q = 0
    BY <1>2, <1>4, <1>7
  <1> QED BY <1>2, <1>5, <1>6, <1>7

\* A number with an even divisor is even.
LEMMA EvenDivisor ==
  ASSUME NEW n \in Nat, NEW d \in Nat, d > 0, n % d = 0, d % 2 = 0
  PROVE  n % 2 = 0
PROOF
  <1>1. n \div d \in Nat /\ n = d * (n \div d)
    BY Division
  <1>2. d \div 2 \in Nat /\ d = 2 * (d \div 2)
    BY Division
  <1> DEFINE e == (d \div 2) * (n \div d)
  <1>3. e \in Nat
    BY <1>1, <1>2
  <1>4. n = 2 * e
    BY <1>1, <1>2
  <1> HIDE DEF e
  <1> QED BY <1>3, <1>4, Multiples

\* A number without divisors up to its root is prime: of two factors, one is that small.
LEMMA Root ==
  ASSUME NEW n \in Nat, n > 1, NEW r \in Nat, r * r > n, \A d \in 2 .. r - 1 : n % d # 0
  PROVE  IsPrime(n)
PROOF
  <1> SUFFICES ASSUME NEW d \in 2 .. n - 1, n % d = 0 PROVE FALSE
    BY DEF IsPrime
  <1>1. PICK e \in Nat : n = d * e
    BY Division
  <1>2. e >= 2
    <2>1. CASE e = 0
      BY <1>1, <2>1
    <2>2. CASE e = 1
      BY <1>1, <2>2
    <2> QED BY <2>1, <2>2
  <1>3. n % e = 0
    <2>1. n = e * d
      BY <1>1
    <2> QED BY <1>2, <2>1, Multiples
  <1>4. d \in Nat /\ d >= 2
    OBVIOUS
  <1>5. d \notin 2 .. r - 1 /\ e \notin 2 .. r - 1
    BY <1>3
  <1>6. d >= r /\ e >= r
    BY <1>2, <1>4, <1>5
  <1>7. d * e >= r * r
    <2>1. d * e >= d * r
      BY <1>4, <1>6
    <2>2. d * r >= r * r
      BY <1>4, <1>6
    <2> QED BY <2>1, <2>2
  <1> QED BY <1>1, <1>7

NoDivisor == \A d \in 2 .. divisor - 1 : candidate % d # 0

\* While a divisor is sought, everything up to it has been tried: the even numbers
\* need no trial, as the candidate is odd.
PInv ==
  /\ argument \in Nat /\ candidate \in Nat /\ divisor \in Nat
  /\ place \in {"idle", "entry", "for", "test", "returned"}
  /\ place = "entry" => candidate = argument
  /\ place \in {"for", "test"} =>
       /\ argument > 2 /\ candidate >= argument
       /\ candidate % 2 = 1 /\ divisor % 2 = 1 /\ divisor >= 3
       /\ \A q \in argument .. candidate - 1 : ~IsPrime(q)
  /\ place = "for" => NoDivisor
  /\ place = "test" /\ divisor * divisor > candidate => NoDivisor
  /\ LeastPrime

LEMMA SearchFirst == SearchInit => PInv
BY NextPrimeAssumption DEF SearchInit, PInv, LeastPrime

LEMMA PNext == PInv /\ [SearchNext]_search => PInv'
PROOF
  <1> SUFFICES ASSUME PInv, [SearchNext]_search PROVE PInv'
    OBVIOUS
  <1>1. /\ argument \in Nat /\ candidate \in Nat /\ divisor \in Nat
        /\ place \in {"idle", "entry", "for", "test", "returned"}
    BY DEF PInv
  <1>2. CASE ReturnTwo
    <2>1. argument' = argument /\ divisor' = divisor /\ candidate' = 2 /\ place' = "returned" /\ argument <= 2
      BY <1>2 DEF ReturnTwo, PInv
    <2>2. IsPrime(2)
      BY DEF IsPrime
    <2>3. \A q \in argument .. 2 - 1 : ~IsPrime(q)
      BY <1>1 DEF IsPrime
    <2> QED BY <1>1, <2>1, <2>2, <2>3 DEF PInv, LeastPrime
  <1>3. CASE Start
    <2>1. /\ argument' = argument /\ divisor' = 3 /\ place' = "for" /\ argument > 2
          /\ candidate' = IF argument % 2 = 0 THEN argument + 1 ELSE argument
      BY <1>3 DEF Start, PInv
    <2>2. candidate' \in Nat /\ candidate' >= argument /\ candidate' % 2 = 1
      BY <1>1, <2>1
    <2>3. \A q \in argument .. candidate' - 1 : ~IsPrime(q)
      <3>1. ASSUME NEW q \in argument .. candidate' - 1 PROVE q = argument /\ q % 2 = 0 /\ q > 2
        BY <1>1, <2>1
      <3> QED BY <1>1, <3>1 DEF IsPrime
    <2>4. NoDivisor'
      BY <1>1, <2>1, <2>2 DEF NoDivisor
    <2> QED BY <1>1, <2>1, <2>2, <2>3, <2>4 DEF PInv, LeastPrime
  <1>4. CASE NextDivisor
    <2>1. /\ argument' = argument /\ candidate' = candidate /\ place' = "for" /\ place = "for"
          /\ divisor' = divisor + 2 /\ candidate % divisor # 0
      BY <1>4 DEF NextDivisor
    <2>2. candidate % 2 = 1 /\ divisor % 2 = 1 /\ divisor >= 3 /\ NoDivisor
      BY <2>1 DEF PInv
    <2>3. divisor' \in Nat /\ divisor' % 2 = 1 /\ divisor' >= 3 /\ (divisor + 1) % 2 = 0 /\ divisor + 1 \in Nat
      BY <1>1, <2>1, <2>2
    <2>4. candidate % (divisor + 1) # 0
      BY <1>1, <2>2, <2>3, EvenDivisor
    <2>5. \A d \in 2 .. divisor' - 1 : d \in 2 .. divisor - 1 \/ d = divisor \/ d = divisor + 1
      BY <1>1, <2>1
    <2>6. NoDivisor'
      BY <2>1, <2>2, <2>4, <2>5 DEF NoDivisor
    <2> QED BY <1>1, <2>1, <2>3, <2>6 DEF PInv, LeastPrime
  <1>5. CASE Break
    <2>1. /\ argument' = argument /\ divisor' = divisor /\ place' = "test" /\ place = "for"
          /\ candidate' = candidate + 2 /\ candidate % divisor = 0 /\ divisor * divisor <= candidate
      BY <1>5 DEF Break
    <2>2. /\ candidate % 2 = 1 /\ divisor % 2 = 1 /\ divisor >= 3 /\ argument > 2 /\ candidate >= argument
          /\ \A q \in argument .. candidate - 1 : ~IsPrime(q)
      BY <2>1 DEF PInv
    <2>3. candidate' \in Nat /\ candidate' % 2 = 1 /\ candidate' >= argument /\ (candidate + 1) % 2 = 0
      BY <1>1, <2>1, <2>2
    <2>4. ~IsPrime(candidate)
      <3>1. divisor * divisor >= 3 * divisor
        BY <1>1, <2>2
      <3>2. divisor \in 2 .. candidate - 1
        BY <1>1, <2>1, <2>2, <3>1
      <3> QED BY <2>1, <3>2 DEF IsPrime
    <2>5. ~IsPrime(candidate + 1)
      <3>1. candidate + 1 \in Nat /\ 2 \in 2 .. (candidate + 1) - 1
        BY <1>1, <2>2
      <3> DEFINE n == candidate + 1
      <3>2. n % 2 = 0 /\ 2 \in 2 .. n - 1
        BY <2>3, <3>1
      <3> HIDE DEF n
      <3>3. ~IsPrime(n)
        BY <3>2 DEF IsPrime
      <3> QED BY <3>3 DEF n
    <2>6. \A q \in argument .. candidate' - 1 : ~IsPrime(q)
      <3>1. \A q \in argument .. candidate' - 1 :
              q \in argument .. candidate - 1 \/ q = candidate \/ q = candidate + 1
        BY <1>1, <2>1
      <3> QED BY <2>2, <2>4, <2>5, <3>1
    <2>7. ~(divisor' * divisor' > candidate')
      <3>1. divisor * divisor \in Nat
        BY <1>1
      <3> QED BY <1>1, <2>1, <3>1
    <2> QED BY <1>1, <2>1, <2>2, <2>3, <2>6, <2>7 DEF PInv, LeastPrime
  <1>6. CASE LoopEnds
    <2>1. UNCHANGED <<argument, candidate, divisor>> /\ place = "for" /\ place' = "test"
      BY <1>6 DEF LoopEnds
    <2> QED BY <2>1 DEF PInv, LeastPrime, NoDivisor
  <1>7. CASE ReturnCandidate
    <2>1. UNCHANGED <<argument, candidate, divisor>> /\ place' = "returned" /\ place = "test"
          /\ divisor * divisor > candidate
      BY <1>7 DEF ReturnCandidate
    <2>2. NoDivisor /\ candidate > 1 /\ candidate >= argument
          /\ \A q \in argument .. candidate - 1 : ~IsPrime(q)
      BY <1>1, <2>1 DEF PInv
    <2>3. IsPrime(candidate)
      BY <1>1, <2>1, <2>2, Root DEF NoDivisor
    <2> QED BY <1>1, <2>1, <2>2, <2>3 DEF PInv, LeastPrime
  <1>8. CASE TryCandidate
    <2>1. UNCHANGED <<argument, candidate>> /\ divisor' = 3 /\ place' = "for" /\ place = "test"
      BY <1>8 DEF TryCandidate
    <2>2. candidate % 2 = 1
      BY <2>1 DEF PInv
    <2>3. NoDivisor'
      BY <1>1, <2>1, <2>2 DEF NoDivisor
    <2> QED BY <1>1, <2>1, <2>3 DEF PInv, LeastPrime
  <1>9. CASE UNCHANGED search
    BY <1>9 DEF search, PInv, NoDivisor, LeastPrime
  <1> QED BY <1>2, <1>3, <1>4, <1>5, <1>6, <1>7, <1>8, <1>9 DEF SearchNext

LEMMA SearchAnswers ==
  ASSUME PInv, place = "returned", candidate <= MaxCapacity
  PROVE  candidate \in Primes /\ FindNextPrime(argument, candidate)
PROOF
  <1>1. argument \in Nat /\ candidate \in Nat /\ MaxCapacity \in Nat
    BY SymbolMapAssumption DEF PInv
  <1>2. /\ IsPrime(candidate) /\ argument <= candidate
        /\ \A q \in argument .. candidate - 1 : ~IsPrime(q)
    BY DEF PInv, LeastPrime
  <1>3. candidate \in Primes
    BY <1>1, <1>2 DEF Primes, IsPrime
  <1>4. ASSUME NEW q \in Primes, argument <= q PROVE candidate <= q
    <2>1. q \in Nat /\ IsPrime(q)
      BY <1>1, <1>4 DEF Primes
    <2>2. q \notin argument .. candidate - 1
      BY <1>2, <2>1
    <2> QED BY <1>1, <1>4, <2>1, <2>2
  <1> QED BY <1>2, <1>3, <1>4 DEF FindNextPrime

-----------------------------------------------------------------------------
(* The table and the search together *)

\* Once there is a table, only an emplace that has to grow it searches.
Asked == place # "idle" /\ frames # <<>> => At("load") /\ Overloaded /\ argument = capacity + 1

FInv == PInv /\ Asked /\ capacity \in Primes

LEMMA SearchingFirst == SearchingInit => FInv
PROOF
  <1> SUFFICES ASSUME SearchingInit PROVE FInv
    OBVIOUS
  <1>1. PInv
    BY SearchFirst DEF SearchingInit
  <1>2. capacity \in Primes /\ frames = <<>>
    BY SymbolMapAssumption DEF SearchingInit, Init
  <1> QED BY <1>1, <1>2 DEF FInv, Asked

\* After a call the variables of the search say nothing.
LEMMA SearchIdle == SearchOver => PInv'
BY DEF SearchOver, PInv, NoDivisor, LeastPrime

LEMMA StepKeepsCapacity == Step => UNCHANGED capacity
BY DEF Step, CallEmplace, CallLookup, CallFree, StartProbe, Overwrite, Insert, ProbeNext,
       ResizeSkip, ResizeMove, ResizeDone, LookupMiss, LookupHit, LookupNext

\* A step of the two is one of the table, or of the search alone.
LEMMA SearchingStep == FInv /\ [SearchingNext]_all => FInv' /\ [Next]_vars
PROOF
  <1> SUFFICES ASSUME FInv, [SearchingNext]_all PROVE FInv' /\ [Next]_vars
    OBVIOUS
  <1>1. PInv /\ Asked /\ capacity \in Primes /\ capacity \in Nat
    BY PrimeFacts DEF FInv
  <1>2. ASSUME UNCHANGED vars
        PROVE  /\ capacity' = capacity /\ frames' = frames
               /\ At("load") => At("load")'
               /\ Overloaded => Overloaded'
    BY <1>2 DEF vars, At, Running, Top, Overloaded
  <1>3. CASE Create
    <2>1. SearchOver /\ UNCHANGED vars
      BY <1>3 DEF Create
    <2>2. place' = "idle"
      BY <2>1 DEF SearchOver
    <2> QED BY <1>1, <1>2, <2>1, <2>2, SearchIdle DEF FInv, Asked
  <1>4. CASE CallSearch
    <2>1. /\ At("load") /\ Overloaded /\ UNCHANGED vars
          /\ argument' = capacity + 1 /\ candidate' = capacity + 1 /\ divisor' = 0 /\ place' = "entry"
      BY <1>4 DEF CallSearch
    <2>2. PInv'
      BY <1>1, <2>1 DEF PInv, LeastPrime
    <2>3. Asked'
      BY <1>2, <2>1 DEF Asked
    <2> QED BY <1>1, <1>2, <2>1, <2>2, <2>3 DEF FInv
  <1>5. CASE Search
    <2>1. SearchNext /\ UNCHANGED vars
      BY <1>5 DEF Search
    <2>2. argument' = argument /\ place # "idle"
      BY <2>1 DEF SearchNext, ReturnTwo, Start, NextDivisor, Break, LoopEnds, ReturnCandidate, TryCandidate
    <2>3. PInv'
      BY <1>1, <2>1, PNext
    <2>4. Asked'
      BY <1>1, <1>2, <2>1, <2>2 DEF Asked
    <2> QED BY <1>1, <1>2, <2>1, <2>3, <2>4 DEF FInv
  <1>6. CASE GrowAsFound
    <2>1. place = "returned" /\ candidate <= MaxCapacity /\ GrowTo(candidate) /\ SearchOver
      BY <1>6 DEF GrowAsFound
    <2>2. capacity' = candidate /\ frames # <<>> /\ place' = "idle"
      BY <2>1 DEF GrowTo, At, Running, SearchOver
    <2>3. argument = capacity + 1
      BY <1>1, <2>1, <2>2 DEF Asked
    <2>4. candidate \in Primes /\ FindNextPrime(argument, candidate)
      BY <1>1, <2>1, SearchAnswers
    <2>5. Grow
      BY <2>1, <2>3, <2>4 DEF Grow
    <2> QED BY <2>1, <2>2, <2>4, <2>5, SearchIdle DEF FInv, Asked, Next
  <1>7. CASE TableStep
    <2>1. place = "idle" /\ Step /\ UNCHANGED search
      BY <1>7 DEF TableStep
    <2>2. place' = "idle"
      BY <2>1 DEF search
    <2>3. PInv'
      BY <1>1, <2>1, PNext
    <2> QED BY <1>1, <2>1, <2>2, <2>3, StepKeepsCapacity DEF FInv, Asked, Next
  <1>8. CASE UNCHANGED all
    <2>1. UNCHANGED vars /\ UNCHANGED search
      BY <1>8 DEF all
    <2>2. PInv' /\ place' = place /\ argument' = argument
      BY <1>1, <2>1, PNext DEF search
    <2> QED BY <1>1, <1>2, <2>1, <2>2 DEF FInv, Asked
  <1> QED BY <1>3, <1>4, <1>5, <1>6, <1>7, <1>8 DEF SearchingNext

LEMMA SearchingInvariant == SearchingSpec => []FInv
BY SearchingFirst, SearchingStep, PTL DEF SearchingSpec

\* find_next_prime returns the least prime that is not below its argument.
THEOREM NextPrimeFound == SearchingSpec => []LeastPrime
PROOF
  <1>1. FInv => LeastPrime
    BY DEF FInv, PInv
  <1> QED BY <1>1, SearchingInvariant, PTL

\* The table that searches its capacities with the loops of find_next_prime implements
\* the one that is given them: whatever is proved of Spec holds of it.
THEOREM SearchingTable == SearchingSpec => ImplementsTable
PROOF
  <1>1. SearchingInit => Init
    BY DEF SearchingInit
  <1>2. FInv /\ [SearchingNext]_all => [Next]_vars
    BY SearchingStep
  <1> QED BY <1>1, <1>2, SearchingInvariant, PTL DEF SearchingSpec, Spec, ImplementsTable
=============================================================================
