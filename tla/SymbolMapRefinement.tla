------------------------ MODULE SymbolMapRefinement ------------------------
(***************************************************************************)
(* Proofs that the hash table owns its entries, is never full, and         *)
(* implements the abstract map, for every set of names, every hash and     *)
(* every capacity.  An entry is always in exactly one place: a bucket, the *)
(* part of an old array that has yet to be copied, or the parameters of an *)
(* activation of emplace.  Growing moves entries from place to place.      *)
(***************************************************************************)
EXTENDS SymbolMapProofs, FunctionTheorems, FiniteSetTheorems

\* Place <<0, i>> is bucket i; <<d, i>> is element i of the old array of the
\* activation d of resize; <<d, 0>> the parameters of the activation d of emplace.
FrameHolds(f, i) ==
  \/ f.fn = "resize" /\ i \in f.i .. f.len - 1 /\ f.old[i] # NULL
  \/ f.fn = "emplace" /\ i = 0

FrameEntry(f, i) == IF f.fn = "resize" THEN f.old[i] ELSE [key |-> f.key, val |-> f.val]

Holds(d, i) ==
  \/ d = 0 /\ i \in 0 .. capacity - 1 /\ buckets[i] # NULL
  \/ d \in 1 .. Len(frames) /\ FrameHolds(frames[d], i)

EntryAt(d, i) == IF d = 0 THEN buckets[i] ELSE FrameEntry(frames[d], i)

Holders == {p \in Nat \X Nat : Holds(p[1], p[2])}
EntryOf(p) == EntryAt(p[1], p[2])

\* The caller's activation is not one of resize, and a lookup calls nothing.
Bottom ==
  \A d \in 1 .. Len(frames) :
    /\ frames[d].fn = "resize" => d # 1
    /\ frames[d].fn = "lookup" => Len(frames) = 1

OneOwner == \A p, q \in Holders : EntryOf(p).val = EntryOf(q).val => p = q

\* Only the caller's emplace may carry a name that is stored already.
OneName ==
  \A p, q \in Holders : p[1] # 1 /\ q[1] # 1 /\ EntryOf(p).key = EntryOf(q).key => p = q

LiveHeld ==
  \A v \in Infos :
    /\ heap[v] # "corrupt"
    /\ heap[v] = "live" <=> \E p \in Holders : EntryOf(p).val = v

SizeZero == size = 0 => \A i \in 0 .. capacity - 1 : buckets[i] = NULL

AtEntry == Len(frames) = 1 /\ Top.fn = "emplace" /\ Top.pc = "load"

\* There is room for all entries and one bucket more: a call brings one entry
\* and, unless the table is empty, grows it by a bucket at least.
Room ==
  /\ IsFiniteSet(Holders)
  /\ Cardinality(Holders) <= IF AtEntry THEN capacity ELSE capacity - 1

LookupPassed == frames # <<>> /\ Top.fn = "lookup" => Passed(Top)

Owned == Bottom /\ OneOwner /\ OneName /\ LiveHeld /\ SizeZero
OInv == MInv /\ Owned /\ Room /\ LookupPassed /\ status # "exited"

\* What the table stores as its callers see it.
Stores(e) == \E p \in Holders : p[1] # 1 /\ EntryOf(p) = e
SameStores == \A e \in Entry : Stores(e)' <=> Stores(e)

-----------------------------------------------------------------------------
(* Places *)

LEMMA HolderFacts ==
  ASSUME MInv, NEW p \in Holders
  PROVE  /\ p[1] \in Nat /\ p[2] \in Nat /\ p = <<p[1], p[2]>>
         /\ EntryOf(p) \in Entry
         /\ EntryOf(p).key \in Keys /\ EntryOf(p).val \in Infos
PROOF
  <1>1. p \in Nat \X Nat /\ Holds(p[1], p[2])
    BY DEF Holders
  <1>2. PICK d \in Nat, i \in Nat : d = p[1] /\ i = p[2] /\ p = <<d, i>>
    BY <1>1
  <1>3. EntryAt(d, i) \in Entry
    <2>1. CASE d = 0
      <3>1. Len(frames) \in Nat
        BY DEF MInv, Stack
      <3>2. i \in 0 .. capacity - 1 /\ buckets[i] # NULL
        BY <1>1, <1>2, <2>1, <3>1 DEF Holds
      <3> QED BY <2>1, <3>2, BucketFacts DEF MInv, EntryAt
    <2>2. CASE d # 0
      <3>1. d \in 1 .. Len(frames) /\ FrameHolds(frames[d], i)
        BY <1>1, <1>2, <2>2 DEF Holds
      <3>2. PICK f \in AnyFrame : f = frames[d] /\ Frame(f)
        BY <3>1 DEF MInv, Stack
      <3>3. CASE f.fn = "resize"
        <4>1. f.len \in Nat /\ f.old \in [0 .. f.len - 1 -> Entry \cup {NULL}] /\ f.i \in 0 .. f.len
          BY <3>2, <3>3 DEF Frame, Array
        <4>2. i \in f.i .. f.len - 1 /\ f.old[i] # NULL
          BY <3>1, <3>2, <3>3 DEF FrameHolds
        <4>3. f.old[i] \in Entry
          BY <4>1, <4>2
        <4> QED BY <2>2, <3>2, <3>3, <4>3 DEF EntryAt, FrameEntry
      <3>4. CASE f.fn # "resize"
        <4>1. f.fn = "emplace"
          BY <3>1, <3>2, <3>4 DEF FrameHolds
        <4>2. f.key \in Keys /\ f.val \in Infos
          BY <3>2, <4>1 DEF Frame
        <4> QED BY <2>2, <3>2, <3>4, <4>2 DEF EntryAt, FrameEntry, Entry
      <3> QED BY <3>3, <3>4
    <2> QED BY <2>1, <2>2
  <1> QED BY <1>2, <1>3 DEF EntryOf, Entry

LEMMA HolderIs ==
  ASSUME NEW d \in Nat, NEW i \in Nat
  PROVE  /\ <<d, i>> \in Holders <=> Holds(d, i)
         /\ EntryOf(<<d, i>>) = EntryAt(d, i)
BY DEF Holders, EntryOf

LEMMA HolderIsNext ==
  ASSUME NEW d \in Nat, NEW i \in Nat
  PROVE  /\ <<d, i>> \in Holders' <=> Holds(d, i)'
         /\ EntryOf(<<d, i>>)' = EntryAt(d, i)'
BY DEF Holders, EntryOf

\* Nothing has moved.
LEMMA OwnedKept ==
  ASSUME OneOwner, OneName, LiveHeld, Holders' = Holders, heap' = heap,
         \A p \in Holders : EntryOf(p)' = EntryOf(p)
  PROVE  (OneOwner /\ OneName /\ LiveHeld)' /\ SameStores
PROOF
  <1>1. OneOwner'
    BY DEF OneOwner
  <1>2. OneName'
    BY DEF OneName
  <1>3. LiveHeld'
    BY DEF LiveHeld
  <1>4. SameStores
    BY DEF SameStores, Stores
  <1> QED BY <1>1, <1>2, <1>3, <1>4

\* Entries that have moved, each from its own place, still have one owner each.
LEMMA OwnerMoved ==
  ASSUME OneOwner,
         NEW r \in [Holders' -> Holders],
         \A p, q \in Holders' : r[p] = r[q] => p = q,
         \A p \in Holders' : EntryOf(p)' = EntryOf(r[p])
  PROVE  OneOwner'
PROOF
  <1> SUFFICES ASSUME NEW p \in Holders', NEW q \in Holders', EntryOf(p)'.val = EntryOf(q)'.val
               PROVE  p = q
    BY DEF OneOwner
  <1>1. r[p] \in Holders /\ r[q] \in Holders /\ EntryOf(r[p]).val = EntryOf(r[q]).val
    OBVIOUS
  <1> QED BY <1>1 DEF OneOwner

\* No entry was lost: what was live is.
LEMMA LiveMoved ==
  ASSUME LiveHeld, heap' = heap,
         NEW r \in [Holders' -> Holders],
         \A q \in Holders : \E p \in Holders' : r[p] = q,
         \A p \in Holders' : EntryOf(p)' = EntryOf(r[p])
  PROVE  LiveHeld'
PROOF
  <1>1. ASSUME NEW v \in Infos
        PROVE  (\E p \in Holders' : EntryOf(p)'.val = v) <=> (\E p \in Holders : EntryOf(p).val = v)
    OBVIOUS
  <1> QED BY <1>1 DEF LiveHeld

\* When none entered or left the caller's activation, the callers see no change.
LEMMA NamesMoved ==
  ASSUME OneName,
         NEW r \in [Holders' -> Holders],
         \A p, q \in Holders' : r[p] = r[q] => p = q,
         \A q \in Holders : \E p \in Holders' : r[p] = q,
         \A p \in Holders' : EntryOf(p)' = EntryOf(r[p]),
         \A p \in Holders' : r[p][1] = 1 <=> p[1] = 1
  PROVE  OneName' /\ SameStores
PROOF
  <1>1. OneName'
    <2> SUFFICES ASSUME NEW p \in Holders', NEW q \in Holders', p[1] # 1, q[1] # 1,
                        EntryOf(p)'.key = EntryOf(q)'.key
                 PROVE  p = q
      BY DEF OneName
    <2>1. /\ r[p] \in Holders /\ r[q] \in Holders /\ EntryOf(r[p]).key = EntryOf(r[q]).key
          /\ r[p][1] # 1 /\ r[q][1] # 1
      OBVIOUS
    <2> QED BY <2>1 DEF OneName
  <1>2. ASSUME NEW e \in Entry
        PROVE  (\E p \in Holders' : p[1] # 1 /\ EntryOf(p)' = e)
               <=> (\E p \in Holders : p[1] # 1 /\ EntryOf(p) = e)
    OBVIOUS
  <1>3. SameStores
    BY <1>2 DEF SameStores, Stores
  <1> QED BY <1>1, <1>3

LEMMA RoomMoved ==
  ASSUME IsFiniteSet(Holders),
         NEW r \in [Holders' -> Holders],
         \A p, q \in Holders' : r[p] = r[q] => p = q
  PROVE  IsFiniteSet(Holders)' /\ Cardinality(Holders)' <= Cardinality(Holders)
PROOF
  <1>1. r \in Injection(Holders', Holders)
    BY Fun_IsInj
  <1> QED BY <1>1, FS_Injection

-----------------------------------------------------------------------------
(* What happens to the call stack *)

LEMMA SetShape ==
  ASSUME Stack, frames # <<>>, NEW f \in AnyFrame, frames' = SetTop(f)
  PROVE  /\ Len(frames) \in Nat \ {0} /\ Len(frames') = Len(frames)
         /\ frames'[Len(frames)] = f
         /\ \A d \in 1 .. Len(frames) : d # Len(frames) => frames'[d] = frames[d]
PROOF
  <1>1. frames \in Seq(AnyFrame) /\ Len(frames) \in 1 .. Len(frames) /\ Len(frames) \in Nat
    BY TopFacts DEF Stack
  <1>2. /\ frames' \in Seq(AnyFrame)
        /\ Len(frames') = Len(frames)
        /\ \A d \in 1 .. Len(frames) : frames'[d] = IF d = Len(frames) THEN f ELSE frames[d]
    BY <1>1, ExceptSeq DEF SetTop
  <1> QED BY <1>1, <1>2

LEMMA PushShape ==
  ASSUME Stack, frames # <<>>, NEW f \in AnyFrame, NEW g \in AnyFrame, frames' = Append(SetTop(f), g)
  PROVE  /\ Len(frames) \in Nat \ {0} /\ Len(frames') = Len(frames) + 1
         /\ frames'[Len(frames)] = f
         /\ frames'[Len(frames) + 1] = g
         /\ \A d \in 1 .. Len(frames) : d # Len(frames) => frames'[d] = frames[d]
PROOF
  <1>1. frames \in Seq(AnyFrame) /\ Len(frames) \in 1 .. Len(frames) /\ Len(frames) \in Nat
    BY TopFacts DEF Stack
  <1>2. PICK n \in Nat : n = Len(frames)
    BY <1>1
  <1>3. /\ SetTop(f) \in Seq(AnyFrame)
        /\ Len(SetTop(f)) = n
        /\ \A d \in 1 .. n : SetTop(f)[d] = IF d = n THEN f ELSE frames[d]
    BY <1>1, <1>2, ExceptSeq DEF SetTop
  <1>4. /\ Len(frames') = n + 1
        /\ \A d \in 1 .. n : frames'[d] = IF d = n THEN f ELSE frames[d]
        /\ frames'[n + 1] = g
    BY <1>3, AppendProperties
  <1> QED BY <1>1, <1>2, <1>4

LEMMA PopShape ==
  ASSUME Stack, frames # <<>>, frames' = Return
  PROVE  /\ Len(frames) \in Nat \ {0} /\ Len(frames') = Len(frames) - 1
         /\ \A d \in 1 .. Len(frames) - 1 : frames'[d] = frames[d]
PROOF
  <1>1. frames \in Seq(AnyFrame) /\ Len(frames) \in Nat /\ Len(frames) >= 1
    BY TopFacts DEF Stack
  <1>2. PICK n \in Nat : n = Len(frames) - 1
    BY <1>1
  <1>3. frames' = SubSeq(frames, 1, n) /\ n + 1 = Len(frames)
    BY <1>1, <1>2 DEF Return
  <1>4. \A d \in 1 .. n : frames[d] \in AnyFrame
    BY <1>1, <1>3
  <1>5. /\ Len(SubSeq(frames, 1, n)) = IF 1 <= n THEN n - 1 + 1 ELSE 0
        /\ \A d \in 1 .. n - 1 + 1 : SubSeq(frames, 1, n)[d] = frames[1 + d - 1]
    BY <1>4, SubSeqProperties
  <1>6. n - 1 + 1 = n /\ (~(1 <= n) => n = 0) /\ \A d \in Int : 1 + d - 1 = d
    OBVIOUS
  <1> QED BY <1>1, <1>2, <1>3, <1>5, <1>6

-----------------------------------------------------------------------------
(* Steps that leave every entry in its place *)

LEMMA PlacesKept ==
  ASSUME UNCHANGED <<buckets, capacity>>,
         Len(frames) \in Nat, Len(frames') \in Nat,
         \A d, i \in Nat : d # 0 => (Holds(d, i)' <=> Holds(d, i)),
         \A d, i \in Nat : d # 0 /\ Holds(d, i) => EntryAt(d, i)' = EntryAt(d, i)
  PROVE  Holders' = Holders /\ \A p \in Holders : EntryOf(p)' = EntryOf(p)
PROOF
  <1>1. ASSUME NEW i \in Nat
        PROVE  /\ Holds(0, i)' <=> Holds(0, i)
               /\ EntryAt(0, i)' = EntryAt(0, i)
    <2>1. 0 \notin 1 .. Len(frames) /\ 0 \notin 1 .. Len(frames')
      OBVIOUS
    <2> QED BY <2>1 DEF Holds, EntryAt
  <1>2. \A d, i \in Nat : Holds(d, i)' <=> Holds(d, i)
    BY <1>1
  <1>3. \A d, i \in Nat : Holds(d, i) => EntryAt(d, i)' = EntryAt(d, i)
    BY <1>1
  <1>4. Holders' = Holders
    BY <1>2 DEF Holders
  <1>5. ASSUME NEW p \in Holders PROVE EntryOf(p)' = EntryOf(p)
    <2>1. p[1] \in Nat /\ p[2] \in Nat /\ Holds(p[1], p[2])
      BY DEF Holders
    <2> QED BY <1>3, <2>1 DEF EntryOf
  <1> QED BY <1>4, <1>5

LEMMA TopPlacesKept ==
  ASSUME Stack, frames # <<>>, NEW f \in AnyFrame, frames' = SetTop(f), UNCHANGED <<buckets, capacity>>,
         \A i \in Nat : FrameHolds(f, i) <=> FrameHolds(Top, i),
         \A i \in Nat : FrameHolds(f, i) => FrameEntry(f, i) = FrameEntry(Top, i)
  PROVE  Holders' = Holders /\ \A p \in Holders : EntryOf(p)' = EntryOf(p)
PROOF
  <1>1. PICK n \in Nat \ {0} : n = Len(frames)
    BY SetShape
  <1>2. /\ Len(frames') = n /\ frames'[n] = f /\ Top = frames[n]
        /\ \A d \in 1 .. n : d # n => frames'[d] = frames[d]
    BY <1>1, SetShape DEF Top
  <1>3. ASSUME NEW d \in Nat, NEW i \in Nat, d # 0
        PROVE  /\ Holds(d, i)' <=> Holds(d, i)
               /\ Holds(d, i) => EntryAt(d, i)' = EntryAt(d, i)
    <2>1. CASE d \notin 1 .. n
      BY <1>1, <1>2, <1>3, <2>1 DEF Holds
    <2>2. CASE d = n
      <3>1. Holds(d, i)' <=> FrameHolds(f, i)
        BY <1>2, <1>3, <2>2 DEF Holds, FrameHolds
      <3>2. Holds(d, i) <=> FrameHolds(Top, i)
        BY <1>1, <1>2, <1>3, <2>2 DEF Holds
      <3>3. EntryAt(d, i)' = FrameEntry(f, i) /\ EntryAt(d, i) = FrameEntry(Top, i)
        BY <1>2, <1>3, <2>2 DEF EntryAt, FrameEntry
      <3> QED BY <3>1, <3>2, <3>3
    <2>3. CASE d \in 1 .. n /\ d # n
      <3>1. frames'[d] = frames[d]
        BY <1>2, <2>3
      <3>2. Holds(d, i)' <=> Holds(d, i)
        BY <1>1, <1>2, <1>3, <2>3, <3>1 DEF Holds, FrameHolds
      <3>3. EntryAt(d, i)' = EntryAt(d, i)
        BY <1>3, <3>1 DEF EntryAt, FrameEntry
      <3> QED BY <3>2, <3>3
    <2> QED BY <2>1, <2>2, <2>3
  <1> QED BY <1>1, <1>2, <1>3, PlacesKept

LEMMA PopPlacesKept ==
  ASSUME Stack, frames # <<>>, frames' = Return, UNCHANGED <<buckets, capacity>>,
         \A i \in Nat : ~FrameHolds(Top, i)
  PROVE  Holders' = Holders /\ \A p \in Holders : EntryOf(p)' = EntryOf(p)
PROOF
  <1>1. PICK n \in Nat \ {0} : n = Len(frames)
    BY PopShape
  <1>2. /\ Len(frames') = n - 1 /\ Top = frames[n]
        /\ \A d \in 1 .. n - 1 : frames'[d] = frames[d]
    BY <1>1, PopShape DEF Top
  <1>3. ASSUME NEW d \in Nat, NEW i \in Nat, d # 0
        PROVE  /\ Holds(d, i)' <=> Holds(d, i)
               /\ Holds(d, i) => EntryAt(d, i)' = EntryAt(d, i)
    <2>1. CASE d \notin 1 .. n
      BY <1>1, <1>2, <1>3, <2>1 DEF Holds
    <2>2. CASE d = n
      <3>1. ~Holds(d, i)'
        BY <1>1, <1>2, <1>3, <2>2 DEF Holds
      <3>2. ~Holds(d, i)
        BY <1>1, <1>2, <1>3, <2>2 DEF Holds
      <3> QED BY <3>1, <3>2
    <2>3. CASE d \in 1 .. n - 1
      <3>1. frames'[d] = frames[d]
        BY <1>2, <2>3
      <3>2. Holds(d, i)' <=> Holds(d, i)
        BY <1>1, <1>2, <1>3, <2>3, <3>1 DEF Holds, FrameHolds
      <3>3. EntryAt(d, i)' = EntryAt(d, i)
        BY <1>3, <3>1 DEF EntryAt, FrameEntry
      <3> QED BY <3>2, <3>3
    <2> QED BY <1>1, <2>1, <2>2, <2>3
  <1> QED BY <1>1, <1>2, <1>3, PlacesKept

-----------------------------------------------------------------------------
(* The bottom of the call stack *)

LEMMA BottomSet ==
  ASSUME Stack, Bottom, frames # <<>>, NEW f \in AnyFrame, frames' = SetTop(f), f.fn = Top.fn
  PROVE  Bottom'
PROOF
  <1>1. PICK n \in Nat \ {0} : n = Len(frames)
    BY SetShape
  <1>2. /\ Len(frames') = n /\ frames'[n] = f /\ Top = frames[n]
        /\ \A d \in 1 .. n : d # n => frames'[d] = frames[d]
    BY <1>1, SetShape DEF Top
  <1>3. \A d \in 1 .. n : frames'[d].fn = frames[d].fn
    BY <1>2
  <1> QED BY <1>1, <1>2, <1>3 DEF Bottom

LEMMA BottomPush ==
  ASSUME Stack, Bottom, frames # <<>>, NEW f \in AnyFrame, NEW g \in AnyFrame,
         frames' = Append(SetTop(f), g), f.fn = Top.fn, Top.fn # "lookup", g.fn # "lookup"
  PROVE  Bottom'
PROOF
  <1>1. PICK n \in Nat \ {0} : n = Len(frames)
    BY PushShape
  <1>2. /\ Len(frames') = n + 1 /\ frames'[n] = f /\ frames'[n + 1] = g /\ Top = frames[n]
        /\ \A d \in 1 .. n : d # n => frames'[d] = frames[d]
    BY <1>1, PushShape DEF Top
  <1>3. \A d \in 1 .. n : frames'[d].fn = frames[d].fn
    BY <1>2
  <1>4. \A d \in 1 .. n : frames[d].fn # "lookup"
    <2> SUFFICES ASSUME NEW d \in 1 .. n, frames[d].fn = "lookup" PROVE FALSE
      OBVIOUS
    <2>1. n = 1
      BY <1>1 DEF Bottom
    <2>2. d = n
      BY <2>1
    <2> QED BY <1>2, <2>2
  <1> SUFFICES ASSUME NEW d \in 1 .. n + 1
               PROVE  /\ frames'[d].fn = "resize" => d # 1
                      /\ frames'[d].fn # "lookup"
    BY <1>2 DEF Bottom
  <1>5. CASE d \in 1 .. n
    BY <1>1, <1>3, <1>4, <1>5 DEF Bottom
  <1>6. CASE d = n + 1
    BY <1>1, <1>2, <1>6
  <1>7. d \in 1 .. n \/ d = n + 1
    BY <1>1
  <1> QED BY <1>5, <1>6, <1>7

LEMMA BottomPop ==
  ASSUME Stack, Bottom, frames # <<>>, frames' = Return
  PROVE  Bottom'
PROOF
  <1>1. PICK n \in Nat \ {0} : n = Len(frames)
    BY PopShape
  <1>2. Len(frames') = n - 1 /\ \A d \in 1 .. n - 1 : frames'[d] = frames[d]
    BY <1>1, PopShape
  <1>3. ASSUME NEW d \in 1 .. n - 1
        PROVE  frames'[d].fn # "lookup" /\ (frames'[d].fn = "resize" => d # 1)
    <2>1. n = 1 \/ (d \in 1 .. Len(frames) /\ Len(frames) # 1)
      BY <1>1
    <2>2. Settled(frames[d])
      BY <1>1 DEF Stack
    <2> QED BY <1>1, <1>2, <2>1, <2>2 DEF Bottom, Settled
  <1> QED BY <1>2, <1>3 DEF Bottom

-----------------------------------------------------------------------------
(* Room *)

LEMMA RoomFacts ==
  ASSUME OInv
  PROVE  /\ capacity \in Primes /\ capacity \in Nat /\ capacity > 1
         /\ IsFiniteSet(Holders) /\ Cardinality(Holders) \in Nat
         /\ ~AtEntry => Cardinality(Holders) <= capacity - 1
         /\ Cardinality(Holders) <= capacity
BY PrimeFacts, FS_CardinalityType DEF OInv, MInv, Table, Room

LEMMA RoomLeft ==
  ASSUME capacity' \in Nat, IsFiniteSet(Holders'), Cardinality(Holders') <= capacity' - 1
  PROVE  Room'
PROOF
  <1>1. Cardinality(Holders') \in Nat
    BY FS_CardinalityType
  <1> QED BY <1>1 DEF Room

\* More buckets than entries: some bucket is free.
LEMMA FreeBucket ==
  ASSUME OInv
  PROVE  \E i \in 0 .. capacity - 1 : buckets[i] = NULL
PROOF
  <1> SUFFICES ASSUME \A i \in 0 .. capacity - 1 : buckets[i] # NULL PROVE FALSE
    OBVIOUS
  <1>1. PICK c \in Nat : c = capacity /\ c > 1
    BY RoomFacts
  <1>2. \A i \in 0 .. c - 1 : <<0, i>> \in Holders
    <2> SUFFICES ASSUME NEW i \in 0 .. c - 1 PROVE <<0, i>> \in Holders
      OBVIOUS
    <2>1. i \in Nat /\ Holds(0, i)
      BY <1>1 DEF Holds
    <2> QED BY <2>1, HolderIs
  <1>3. CASE AtEntry
    <2>1. Holds(1, 0)
      BY <1>3 DEF AtEntry, Top, Holds, FrameHolds
    <2>2. <<1, 0>> \in Holders
      BY <2>1, HolderIs
    <2>3. PICK r : r = [i \in 0 .. c |-> IF i = c THEN <<1, 0>> ELSE <<0, i>>]
      OBVIOUS
    <2>4. r \in [0 .. c -> Holders]
      BY <1>1, <1>2, <2>2, <2>3
    <2>5. \A i, j \in 0 .. c : r[i] = r[j] => i = j
      BY <1>1, <2>3
    <2>6. r \in Injection(0 .. c, Holders)
      BY <2>4, <2>5, Fun_IsInj
    <2>7. Cardinality(0 .. c) <= Cardinality(Holders)
      BY <2>6, RoomFacts, FS_Injection
    <2>8. Cardinality(0 .. c) = c + 1
      <3>1. 0 \in Int /\ c \in Int /\ ~(0 > c)
        BY <1>1
      <3> QED BY <1>1, <3>1, FS_Interval
    <2> QED BY <1>1, <2>7, <2>8, RoomFacts
  <1>4. CASE ~AtEntry
    <2>3. PICK r : r = [i \in 0 .. c - 1 |-> <<0, i>>]
      OBVIOUS
    <2>4. r \in [0 .. c - 1 -> Holders]
      BY <1>2, <2>3
    <2>5. \A i, j \in 0 .. c - 1 : r[i] = r[j] => i = j
      BY <2>3
    <2>6. r \in Injection(0 .. c - 1, Holders)
      BY <2>4, <2>5, Fun_IsInj
    <2>7. Cardinality(0 .. c - 1) <= Cardinality(Holders)
      BY <2>6, RoomFacts, FS_Injection
    <2>8. Cardinality(0 .. c - 1) = c
      <3>1. 0 \in Int /\ c - 1 \in Int /\ ~(0 > c - 1)
        BY <1>1
      <3> QED BY <1>1, <3>1, FS_Interval
    <2> QED BY <1>1, <1>4, <2>7, <2>8, RoomFacts
  <1> QED BY <1>3, <1>4

\* Back at home, a probe has seen every bucket.
LEMMA PathFull ==
  ASSUME capacity \in Primes, NEW h \in 0 .. capacity - 1, NEW i \in 0 .. capacity - 1, NextIndex(i) = h,
         NEW j \in 0 .. capacity - 1, j # i
  PROVE  j \in Path(h, i)
PROOF
  <1>1. capacity \in Nat /\ capacity > 1
    BY PrimeFacts
  <1>2. h = IF i = capacity - 1 THEN 0 ELSE i + 1
    BY NextIndexIs
  <1> QED BY <1>1, <1>2 DEF Path

-----------------------------------------------------------------------------
(* Steps that move nothing *)

LEMMA StaysPut ==
  ASSUME OInv, UNCHANGED <<capacity, size, buckets, heap>>,
         Holders' = Holders, \A p \in Holders : EntryOf(p)' = EntryOf(p),
         Cardinality(Holders) <= capacity - 1
  PROVE  (OneOwner /\ OneName /\ LiveHeld /\ SizeZero /\ Room)' /\ SameStores
PROOF
  <1>1. (OneOwner /\ OneName /\ LiveHeld)' /\ SameStores
    BY OwnedKept DEF OInv, Owned
  <1>2. SizeZero'
    BY DEF OInv, Owned, SizeZero
  <1>3. Room'
    BY RoomFacts, RoomLeft
  <1> QED BY <1>1, <1>2, <1>3

\* Only a lookup has to remember what it has passed.
LEMMA NoLookup ==
  ASSUME frames' # <<>> => Top'.fn # "lookup"
  PROVE  LookupPassed'
BY DEF LookupPassed

LEMMA OInit == Init => OInv
PROOF
  <1> SUFFICES ASSUME Init PROVE OInv
    OBVIOUS
  <1>1. MInv
    BY MInit
  <1>2. frames = <<>> /\ status = "running" /\ \A i \in 0 .. capacity - 1 : buckets[i] = NULL
    BY DEF Init
  <1>3. capacity \in Nat /\ capacity > 1
    BY <1>1, PrimeFacts DEF MInv, Table
  <1>4. Holders = {}
    BY <1>2 DEF Holders, Holds
  <1>5. Room
    BY <1>3, <1>4, <1>2, FS_EmptySet DEF Room, AtEntry
  <1>6. Owned
    BY <1>2, <1>4 DEF Owned, Bottom, OneOwner, OneName, LiveHeld, SizeZero, Init
  <1> QED BY <1>1, <1>2, <1>5, <1>6 DEF OInv, LookupPassed

LEMMA OStutter == OInv /\ UNCHANGED vars => OInv' /\ SameStores
PROOF
  <1> SUFFICES ASSUME OInv, UNCHANGED vars PROVE OInv' /\ SameStores
    OBVIOUS
  <1>1. UNCHANGED <<capacity, size, buckets, frames, heap, ret, status>>
    BY DEF vars
  <1>2. MInv'
    BY MStutter DEF OInv
  <1>3. Len(frames) \in Nat
    BY DEF OInv, MInv, Stack
  <1>4. \A d, i \in Nat : /\ Holds(d, i)' <=> Holds(d, i)
                          /\ EntryAt(d, i)' = EntryAt(d, i)
    BY <1>1 DEF Holds, FrameHolds, EntryAt, FrameEntry
  <1>5. Holders' = Holders /\ \A p \in Holders : EntryOf(p)' = EntryOf(p)
    BY <1>1, <1>3, <1>4, PlacesKept
  <1>6. (OneOwner /\ OneName /\ LiveHeld)' /\ SameStores
    BY <1>1, <1>5, OwnedKept DEF OInv, Owned
  <1>7. Bottom' /\ SizeZero'
    BY <1>1 DEF OInv, Owned, Bottom, SizeZero
  <1>8. Room'
    BY <1>1, <1>5 DEF OInv, Room, AtEntry, Top
  <1>9. LookupPassed'
    BY <1>1 DEF OInv, LookupPassed, Top, Passed, Path, Home
  <1> QED BY <1>1, <1>2, <1>6, <1>7, <1>8, <1>9 DEF OInv, Owned

-----------------------------------------------------------------------------
(* Calls *)

LEMMA BottomOne ==
  ASSUME NEW f, f.fn # "resize", frames' = <<f>>
  PROVE  Bottom' /\ Len(frames') = 1 /\ frames'[1] = f /\ Top' = f /\ frames' # <<>>
PROOF
  <1>1. Len(frames') = 1 /\ frames'[1] = f /\ frames' # <<>>
    OBVIOUS
  <1>2. \A d \in 1 .. Len(frames') : d = 1
    BY <1>1
  <1> QED BY <1>1, <1>2 DEF Bottom, Top

\* Between operations every entry is in a bucket.
LEMMA IdleHolders ==
  ASSUME frames = <<>>, NEW d \in Nat, NEW i \in Nat
  PROVE  <<d, i>> \in Holders <=> d = 0 /\ i \in 0 .. capacity - 1 /\ buckets[i] # NULL
PROOF
  <1>1. 1 .. Len(frames) = {}
    OBVIOUS
  <1> QED BY <1>1, HolderIs DEF Holds

LEMMA OCallEmplace ==
  ASSUME OInv, NEW k \in Keys, NEW v \in Infos, CallEmplace(k, v)
  PROVE  OInv' /\ SameStores
PROOF
  <1>1. /\ frames = <<>> /\ frames' = <<EmplaceFrame(k, v)>> /\ heap[v] = "unused"
        /\ heap' = [heap EXCEPT ![v] = "live"]
        /\ UNCHANGED <<capacity, size, buckets, ret, status>>
    BY DEF CallEmplace, Idle
  <1>2. PICK f : f = EmplaceFrame(k, v)
    OBVIOUS
  <1>3. f.fn = "emplace" /\ f.pc = "load" /\ f.key = k /\ f.val = v
    BY <1>2 DEF EmplaceFrame
  <1>4. /\ Bottom' /\ Len(frames') = 1 /\ frames'[1] = f /\ Top' = f
        /\ MInv' /\ AtEntry'
    BY <1>1, <1>2, <1>3, BottomOne, MCallEmplace DEF OInv, AtEntry
  <1>5. ASSUME NEW d \in Nat, NEW i \in Nat
        PROVE  <<d, i>> \in Holders' <=> <<d, i>> \in Holders \/ (d = 1 /\ i = 0)
    <2>1. <<d, i>> \in Holders <=> d = 0 /\ i \in 0 .. capacity - 1 /\ buckets[i] # NULL
      BY <1>1, IdleHolders
    <2>2. d \in 1 .. Len(frames') <=> d = 1
      BY <1>4
    <2>3. FrameHolds(frames[1], i)' <=> i = 0
      BY <1>3, <1>4 DEF FrameHolds
    <2>4. Holds(d, i)' <=> \/ d = 0 /\ i \in 0 .. capacity - 1 /\ buckets[i] # NULL
                           \/ d = 1 /\ i = 0
      BY <1>1, <2>2, <2>3 DEF Holds
    <2> QED BY <2>1, <2>4, HolderIsNext
  <1>6. Holders' = Holders \cup {<<1, 0>>} /\ <<1, 0>> \notin Holders
    <2>1. Holders' \subseteq Nat \X Nat /\ Holders \subseteq Nat \X Nat
      BY DEF Holders
    <2>2. <<1, 0>> \notin Holders
      BY <1>1, IdleHolders
    <2> QED BY <1>5, <2>1, <2>2
  <1>7. ASSUME NEW p \in Holders
        PROVE  p[1] # 1 /\ EntryOf(p)' = EntryOf(p) /\ EntryOf(p).val # v
    <2>1. PICK d \in Nat, i \in Nat : p = <<d, i>>
      BY DEF Holders
    <2>2. d = 0
      BY <1>1, <2>1, IdleHolders
    <2>3. EntryOf(p)' = EntryOf(p)
      BY <1>1, <2>1, <2>2, HolderIs, HolderIsNext DEF EntryAt
    <2>4. EntryOf(p).val # v
      BY <1>1 DEF OInv, Owned, LiveHeld
    <2> QED BY <2>1, <2>2, <2>3, <2>4
  <1>8. EntryOf(<<1, 0>>)' = [key |-> k, val |-> v]
    <2>1. EntryAt(1, 0)' = [key |-> k, val |-> v]
      BY <1>3, <1>4 DEF EntryAt, FrameEntry
    <2> QED BY <2>1, HolderIsNext
  <1>9. OneOwner'
    BY <1>6, <1>7, <1>8 DEF OInv, Owned, OneOwner
  <1>10. OneName' /\ SameStores
    <2>1. \A p \in Holders' : p[1] # 1 => p \in Holders
      BY <1>6
    <2>2. OneName'
      BY <1>7, <2>1 DEF OInv, Owned, OneName
    <2>3. SameStores
      BY <1>6, <1>7, <2>1 DEF SameStores, Stores
    <2> QED BY <2>2, <2>3
  <1>11. LiveHeld'
    <2>1. heap \in Heaps
      BY DEF OInv, MInv, Table
    <2>2. ASSUME NEW w \in Infos
          PROVE  heap'[w] # "corrupt" /\ (heap'[w] = "live" <=> \E p \in Holders' : EntryOf(p)'.val = w)
      <3>1. CASE w = v
        BY <1>1, <1>6, <1>8, <2>1, <3>1 DEF Heaps
      <3>2. CASE w # v
        <4>1. heap'[w] = heap[w]
          BY <1>1, <2>1, <3>2 DEF Heaps
        <4>2. (\E p \in Holders' : EntryOf(p)'.val = w) <=> \E p \in Holders : EntryOf(p).val = w
          BY <1>6, <1>7, <1>8, <3>2
        <4> QED BY <4>1, <4>2 DEF OInv, Owned, LiveHeld
      <3> QED BY <3>1, <3>2
    <2> QED BY <2>2 DEF LiveHeld
  <1>12. SizeZero'
    BY <1>1 DEF OInv, Owned, SizeZero
  <1>13. Room'
    <2>1. ~AtEntry
      BY <1>1 DEF AtEntry
    <2>2. IsFiniteSet(Holders') /\ Cardinality(Holders') = Cardinality(Holders) + 1
      BY <1>6, RoomFacts, FS_AddElement
    <2>3. Cardinality(Holders') <= capacity
      BY <2>1, <2>2, RoomFacts
    <2> QED BY <1>1, <1>4, <2>2, <2>3 DEF Room
  <1>14. LookupPassed'
    BY <1>3, <1>4, NoLookup
  <1> QED BY <1>1, <1>4, <1>9, <1>10, <1>11, <1>12, <1>13, <1>14 DEF OInv, Owned

LEMMA OCallLookup ==
  ASSUME OInv, NEW k \in Keys, CallLookup(k)
  PROVE  OInv' /\ SameStores
PROOF
  <1>1. /\ frames = <<>> /\ frames' = <<[fn |-> "lookup", key |-> k, index |-> Home(k)]>>
        /\ UNCHANGED <<capacity, size, buckets, heap, ret, status>>
    BY DEF CallLookup, Idle
  <1>2. PICK h \in 0 .. capacity - 1 : h = Home(k)
    BY HomeInRange, RoomFacts
  <1>3. PICK f : f = [fn |-> "lookup", key |-> k, index |-> h]
    OBVIOUS
  <1>4. f.fn = "lookup" /\ f.key = k /\ f.index = h /\ frames' = <<f>>
    BY <1>1, <1>2, <1>3
  <1>5. Bottom' /\ Len(frames') = 1 /\ frames'[1] = f /\ Top' = f /\ MInv'
    BY <1>4, BottomOne, MCallLookup DEF OInv
  <1>6. ASSUME NEW d \in Nat, NEW i \in Nat, d # 0
        PROVE  ~Holds(d, i)' /\ ~Holds(d, i)
    <2>1. d \in 1 .. Len(frames') => d = 1
      BY <1>5
    <2>2. 1 .. Len(frames) = {}
      BY <1>1
    <2> QED BY <1>4, <1>5, <1>6, <2>1, <2>2 DEF Holds, FrameHolds
  <1>7. Holders' = Holders /\ \A p \in Holders : EntryOf(p)' = EntryOf(p)
    <2>1. Len(frames) \in Nat /\ Len(frames') \in Nat
      BY <1>1, <1>5
    <2> QED BY <1>1, <1>6, <2>1, PlacesKept
  <1>8. ~AtEntry
    BY <1>1 DEF AtEntry
  <1>9. (OneOwner /\ OneName /\ LiveHeld /\ SizeZero /\ Room)' /\ SameStores
    BY <1>1, <1>7, <1>8, RoomFacts, StaysPut
  <1>10. LookupPassed'
    <2>1. Path(h, h) = {}
      BY <1>2, RoomFacts, PathRange
    <2>2. Path(Home(k), h)' = Path(h, h)
      BY <1>1, <1>2 DEF Path, Home
    <2>3. Passed(f)'
      BY <1>4, <2>1, <2>2 DEF Passed
    <2> QED BY <1>5, <2>3 DEF LookupPassed, Passed
  <1> QED BY <1>1, <1>5, <1>9, <1>10 DEF OInv, Owned

LEMMA OCallFree ==
  ASSUME OInv, CallFree
  PROVE  OInv' /\ \A e \in Entry : ~Stores(e)'
PROOF
  <1> DEFINE S == {buckets[i].val : i \in {j \in DOMAIN buckets : buckets[j] # NULL}}
  <1>1. /\ frames = <<>> /\ frames' = <<>> /\ heap' = FreeInfos(S)
        /\ buckets' = [i \in DOMAIN buckets |-> NULL] /\ status' = "freed"
        /\ UNCHANGED <<capacity, size, ret>>
    BY DEF CallFree, Idle
  <1>2. MInv' /\ DOMAIN buckets = 0 .. capacity - 1
    BY MCallFree, BucketFacts DEF OInv, MInv, Table, Array
  <1>3. Holders' = {}
    <2>1. 1 .. Len(frames') = {}
      BY <1>1
    <2>2. \A i \in 0 .. capacity' - 1 : buckets'[i] = NULL
      BY <1>1, <1>2
    <2> QED BY <2>1, <2>2 DEF Holders, Holds
  <1>4. ASSUME NEW v \in Infos
        PROVE  heap'[v] # "corrupt" /\ heap'[v] # "live"
    <2>1. heap[v] # "corrupt" /\ (heap[v] = "live" <=> \E p \in Holders : EntryOf(p).val = v)
      BY DEF OInv, Owned, LiveHeld
    <2>2. (\E p \in Holders : EntryOf(p).val = v) <=> v \in S
      <3>1. ASSUME NEW p \in Holders, EntryOf(p).val = v PROVE v \in S
        <4>1. PICK d \in Nat, i \in Nat : p = <<d, i>>
          BY DEF Holders
        <4>2. d = 0 /\ i \in 0 .. capacity - 1 /\ buckets[i] # NULL
          BY <1>1, <4>1, IdleHolders
        <4>3. EntryOf(p) = buckets[i]
          BY <4>1, <4>2, HolderIs DEF EntryAt
        <4> QED BY <1>2, <3>1, <4>2, <4>3
      <3>2. ASSUME NEW i \in 0 .. capacity - 1, buckets[i] # NULL, buckets[i].val = v
            PROVE  \E p \in Holders : EntryOf(p).val = v
        <4>1. i \in Nat
          BY RoomFacts
        <4>2. <<0, i>> \in Holders /\ EntryOf(<<0, i>>) = buckets[i]
          BY <1>1, <3>2, <4>1, IdleHolders, HolderIs DEF EntryAt
        <4> QED BY <3>2, <4>2
      <3> QED BY <1>2, <3>1, <3>2
    <2>3. heap'[v] = IF v \notin S THEN heap[v] ELSE IF heap[v] = "live" THEN "freed" ELSE "corrupt"
      BY <1>1 DEF FreeInfos
    <2> HIDE DEF S
    <2> QED BY <2>1, <2>2, <2>3
  <1>5. Bottom' /\ OneOwner' /\ OneName' /\ LiveHeld' /\ SizeZero'
    BY <1>1, <1>2, <1>3, <1>4 DEF Bottom, OneOwner, OneName, LiveHeld, SizeZero
  <1>6. Room'
    BY <1>1, <1>3, RoomFacts, RoomLeft, FS_EmptySet
  <1>7. LookupPassed'
    BY <1>1, NoLookup
  <1> QED BY <1>1, <1>2, <1>3, <1>5, <1>6, <1>7 DEF OInv, Owned, Stores

-----------------------------------------------------------------------------
(* Emplacing: steps before the entry finds its bucket *)

\* An activation of emplace that probes on keeps its parameters.
LEMMA ProbesOn ==
  ASSUME OInv, NEW t \in EmplaceFrames, NEW x \in EmplaceFrames, frames # <<>>, Top = t, frames' = SetTop(x),
         x.key = t.key, x.val = t.val, MInv', UNCHANGED <<capacity, size, buckets, heap>>,
         Cardinality(Holders) <= capacity - 1, status' # "exited"
  PROVE  OInv' /\ SameStores
PROOF
  <1>1. x.fn = "emplace" /\ t.fn = "emplace" /\ x \in AnyFrame
    BY DEF EmplaceFrames, AnyFrame
  <1>2. Holders' = Holders /\ \A p \in Holders : EntryOf(p)' = EntryOf(p)
    <2>1. \A i \in Nat : FrameHolds(x, i) <=> FrameHolds(t, i)
      BY <1>1 DEF FrameHolds
    <2>2. \A i \in Nat : FrameEntry(x, i) = FrameEntry(t, i)
      BY <1>1 DEF FrameEntry
    <2> QED BY <1>1, <2>1, <2>2, TopPlacesKept DEF OInv, MInv
  <1>3. (OneOwner /\ OneName /\ LiveHeld /\ SizeZero /\ Room)' /\ SameStores
    BY <1>2, StaysPut
  <1>4. Bottom'
    BY <1>1, BottomSet DEF OInv, MInv, Owned
  <1>5. LookupPassed'
    <2>1. /\ Len(frames') = Len(frames) /\ frames'[Len(frames)] = x
      BY <1>1, SetShape DEF OInv, MInv
    <2>2. Top' = x
      BY <2>1 DEF Top
    <2> QED BY <1>1, <2>2, NoLookup
  <1> QED BY <1>3, <1>4, <1>5 DEF OInv, Owned

LEMMA OStartProbe ==
  ASSUME OInv, StartProbe
  PROVE  OInv' /\ SameStores
PROOF
  <1>1. /\ frames' = SetTop([Top EXCEPT !.pc = "probe", !.index = Home(Top.key)])
        /\ UNCHANGED <<capacity, size, buckets, heap, ret, status>>
        /\ MInv'
    BY MStartProbe DEF OInv, StartProbe
  <1>2. frames # <<>> /\ Top \in EmplaceFrames /\ Top.key \in Keys
    BY EmplaceTop DEF StartProbe, OInv
  <1>3. PICK t \in EmplaceFrames : t = Top
    BY <1>2
  <1>4. PICK h \in Nat : h = Home(Top.key)
    BY <1>2, HomeInRange, RoomFacts
  <1>5. PICK x : x = [t EXCEPT !.pc = "probe", !.index = h]
    OBVIOUS
  <1>6. x \in EmplaceFrames /\ x.key = t.key /\ x.val = t.val
    BY <1>5 DEF EmplaceFrames
  <1>7. frames' = SetTop(x)
    BY <1>1, <1>3, <1>4, <1>5
  <1>8. Cardinality(Holders) <= capacity - 1
    <2>1. CASE ~AtEntry
      BY <2>1, RoomFacts
    <2>2. CASE AtEntry
      <3>1. ~Overloaded
        BY <2>2 DEF StartProbe, At, AtEntry
      <3>2. size = 0
        <4>1. LOAD_FACTOR_THRESHOLD = 0
          BY DEF LOAD_FACTOR_THRESHOLD
        <4>2. size \in Nat
          BY DEF OInv, MInv, Table
        <4> QED BY <3>1, <4>1, <4>2, RoomFacts DEF Overloaded
      <3>3. \A i \in 0 .. capacity - 1 : buckets[i] = NULL
        BY <3>2 DEF OInv, Owned, SizeZero
      <3>4. \A d, i \in Nat : Holds(d, i) => d = 1 /\ i = 0
        BY <2>2, <3>3 DEF Holds, FrameHolds, AtEntry, Top
      <3>5. Holders \subseteq {<<1, 0>>}
        <4> SUFFICES ASSUME NEW p \in Holders PROVE p = <<1, 0>>
          OBVIOUS
        <4>1. PICK d \in Nat, i \in Nat : p = <<d, i>> /\ Holds(d, i)
          BY DEF Holders
        <4> QED BY <3>4, <4>1
      <3>6. Holders = {} \/ Holders = {<<1, 0>>}
        BY <3>5
      <3>7. Cardinality(Holders) <= 1
        <4>1. Cardinality({}) = 0 /\ Cardinality({<<1, 0>>}) = 1
          BY FS_EmptySet, FS_Singleton
        <4> QED BY <3>6, <4>1
      <3> QED BY <3>7, RoomFacts
    <2> QED BY <2>1, <2>2
  <1>9. status' # "exited"
    BY <1>1 DEF OInv
  <1> QED BY <1>1, <1>2, <1>3, <1>6, <1>7, <1>8, <1>9, ProbesOn

\* A probe comes back to its home in a full table only.
LEMMA OProbeNext ==
  ASSUME OInv, ProbeNext
  PROVE  OInv' /\ SameStores /\ status' = status
PROOF
  <1>1. /\ At("probe") /\ buckets[Top.index] # NULL
        /\ frames' = SetTop([Top EXCEPT !.index = NextIndex(@)])
        /\ status' = IF NextIndex(Top.index) = Home(Top.key) THEN "exited" ELSE status
        /\ UNCHANGED <<capacity, size, buckets, heap, ret>>
        /\ MInv'
    BY MProbeNext DEF OInv, ProbeNext
  <1>2. /\ frames # <<>> /\ Top \in EmplaceFrames /\ Top.key \in Keys /\ Passed(Top)
        /\ Top.index \in 0 .. capacity - 1 /\ Top.pc = "probe"
    BY <1>1, EmplaceTop DEF OInv
  <1>3. PICK t \in EmplaceFrames : t = Top
    BY <1>2
  <1>4. PICK m \in Nat : m = NextIndex(Top.index)
    BY <1>2, RoomFacts, NextIndexIs
  <1>5. PICK x : x = [t EXCEPT !.index = m]
    OBVIOUS
  <1>6. x \in EmplaceFrames /\ x.key = t.key /\ x.val = t.val
    BY <1>5 DEF EmplaceFrames
  <1>7. frames' = SetTop(x)
    BY <1>1, <1>3, <1>4, <1>5
  <1>8. Cardinality(Holders) <= capacity - 1
    BY <1>2, RoomFacts DEF AtEntry
  <1>9. NextIndex(Top.index) # Home(Top.key)
    <2> SUFFICES ASSUME NextIndex(Top.index) = Home(Top.key) PROVE FALSE
      OBVIOUS
    <2>1. PICK b \in 0 .. capacity - 1 : buckets[b] = NULL
      BY FreeBucket
    <2>2. Home(Top.key) \in 0 .. capacity - 1
      BY <1>2, RoomFacts, HomeInRange
    <2>3. b \in Path(Home(Top.key), Top.index)
      BY <1>1, <1>2, <2>1, <2>2, RoomFacts, PathFull
    <2> QED BY <1>2, <2>1, <2>3 DEF Passed
  <1>10. status' = status /\ status' # "exited"
    BY <1>1, <1>9 DEF OInv
  <1> QED BY <1>1, <1>2, <1>3, <1>6, <1>7, <1>8, <1>10, ProbesOn

-----------------------------------------------------------------------------
(* Steps that move entries *)

LEMMA PushedPlaces ==
  ASSUME Stack, frames # <<>>, NEW f \in AnyFrame, NEW g \in AnyFrame, frames' = Append(SetTop(f), g),
         NEW n, n = Len(frames), NEW i \in Nat
  PROVE  /\ n \in Nat \ {0}
         /\ Holds(n, i)' <=> FrameHolds(f, i)
         /\ EntryAt(n, i)' = FrameEntry(f, i)
         /\ Holds(n + 1, i)' <=> FrameHolds(g, i)
         /\ EntryAt(n + 1, i)' = FrameEntry(g, i)
         /\ Holds(n, i) <=> FrameHolds(Top, i)
         /\ EntryAt(n, i) = FrameEntry(Top, i)
         /\ ~Holds(n + 1, i)
         /\ \A d \in Nat : d \notin {0, n, n + 1} =>
              /\ Holds(d, i)' <=> Holds(d, i)
              /\ Holds(d, i) => EntryAt(d, i)' = EntryAt(d, i)
PROOF
  <1>1. /\ n \in Nat \ {0} /\ Len(frames') = n + 1
        /\ frames'[n] = f /\ frames'[n + 1] = g /\ Top = frames[n]
        /\ \A d \in 1 .. n : d # n => frames'[d] = frames[d]
    BY PushShape DEF Top
  <1>2. /\ n \in 1 .. n /\ n \in 1 .. n + 1 /\ n + 1 \in 1 .. n + 1 /\ n + 1 \notin 1 .. n
        /\ n # 0 /\ n + 1 # 0
    BY <1>1
  <1>3. Holds(n, i)' <=> FrameHolds(f, i)
    BY <1>1, <1>2 DEF Holds, FrameHolds
  <1>4. EntryAt(n, i)' = FrameEntry(f, i) /\ EntryAt(n + 1, i)' = FrameEntry(g, i)
    BY <1>1, <1>2 DEF EntryAt, FrameEntry
  <1>5. Holds(n + 1, i)' <=> FrameHolds(g, i)
    BY <1>1, <1>2 DEF Holds, FrameHolds
  <1>6. /\ Holds(n, i) <=> FrameHolds(Top, i)
        /\ EntryAt(n, i) = FrameEntry(Top, i)
        /\ ~Holds(n + 1, i)
    BY <1>1, <1>2 DEF Holds, EntryAt
  <1>7. ASSUME NEW d \in Nat, d \notin {0, n, n + 1}
        PROVE  /\ Holds(d, i)' <=> Holds(d, i)
               /\ Holds(d, i) => EntryAt(d, i)' = EntryAt(d, i)
    <2>1. CASE d \notin 1 .. n
      <3>1. d \notin 1 .. n + 1 /\ d # 0
        BY <1>1, <1>7, <2>1
      <3> QED BY <1>1, <2>1, <3>1 DEF Holds
    <2>2. CASE d \in 1 .. n
      <3>1. d \in 1 .. n + 1 /\ d # 0 /\ frames'[d] = frames[d]
        BY <1>1, <1>7, <2>2
      <3>2. Holds(d, i)' <=> Holds(d, i)
        BY <1>1, <2>2, <3>1 DEF Holds, FrameHolds
      <3>3. EntryAt(d, i)' = EntryAt(d, i)
        BY <3>1 DEF EntryAt, FrameEntry
      <3> QED BY <3>2, <3>3
    <2> QED BY <2>1, <2>2
  <1> QED BY <1>1, <1>3, <1>4, <1>5, <1>6, <1>7

LEMMA PoppedPlaces ==
  ASSUME Stack, frames # <<>>, frames' = Return, NEW n, n = Len(frames), NEW i \in Nat
  PROVE  /\ n \in Nat \ {0}
         /\ ~Holds(n, i)'
         /\ Holds(n, i) <=> FrameHolds(Top, i)
         /\ EntryAt(n, i) = FrameEntry(Top, i)
         /\ \A d \in Nat : d \notin {0, n} =>
              /\ Holds(d, i)' <=> Holds(d, i)
              /\ Holds(d, i) => EntryAt(d, i)' = EntryAt(d, i)
PROOF
  <1>1. /\ n \in Nat \ {0} /\ Len(frames') = n - 1 /\ Top = frames[n]
        /\ \A d \in 1 .. n - 1 : frames'[d] = frames[d]
    BY PopShape DEF Top
  <1>2. n \in 1 .. n /\ n \notin 1 .. n - 1 /\ n # 0
    BY <1>1
  <1>3. ~Holds(n, i)'
    BY <1>1, <1>2 DEF Holds
  <1>4. /\ Holds(n, i) <=> FrameHolds(Top, i)
        /\ EntryAt(n, i) = FrameEntry(Top, i)
    BY <1>1, <1>2 DEF Holds, EntryAt
  <1>5. ASSUME NEW d \in Nat, d \notin {0, n}
        PROVE  /\ Holds(d, i)' <=> Holds(d, i)
               /\ Holds(d, i) => EntryAt(d, i)' = EntryAt(d, i)
    <2>1. CASE d \notin 1 .. n
      <3>1. d \notin 1 .. n - 1 /\ d # 0
        BY <1>1, <1>5, <2>1
      <3> QED BY <1>1, <2>1, <3>1 DEF Holds
    <2>2. CASE d \in 1 .. n
      <3>1. d \in 1 .. n - 1 /\ d # 0 /\ frames'[d] = frames[d]
        BY <1>1, <1>5, <2>2
      <3>2. Holds(d, i)' <=> Holds(d, i)
        BY <1>1, <2>2, <3>1 DEF Holds, FrameHolds
      <3>3. EntryAt(d, i)' = EntryAt(d, i)
        BY <3>1 DEF EntryAt, FrameEntry
      <3> QED BY <3>2, <3>3
    <2> QED BY <2>1, <2>2
  <1> QED BY <1>1, <1>3, <1>4, <1>5

LEMMA Relocated ==
  ASSUME OInv, heap' = heap,
         NEW r \in [Holders' -> Holders],
         \A p, q \in Holders' : r[p] = r[q] => p = q,
         \A q \in Holders : \E p \in Holders' : r[p] = q,
         \A p \in Holders' : EntryOf(p)' = EntryOf(r[p]),
         \A p \in Holders' : r[p][1] = 1 <=> p[1] = 1,
         capacity' \in Nat, Cardinality(Holders) <= capacity' - 1
  PROVE  (OneOwner /\ OneName /\ LiveHeld /\ Room)' /\ SameStores
PROOF
  <1>1. OneOwner'
    BY OwnerMoved DEF OInv, Owned
  <1>2. LiveHeld'
    BY LiveMoved DEF OInv, Owned
  <1>3. OneName' /\ SameStores
    BY NamesMoved DEF OInv, Owned
  <1>4. IsFiniteSet(Holders') /\ Cardinality(Holders') <= Cardinality(Holders)
    BY RoomFacts, RoomMoved
  <1>5. Cardinality(Holders') <= capacity' - 1
    BY <1>4, RoomFacts, FS_CardinalityType
  <1>6. Room'
    BY <1>4, <1>5, RoomLeft
  <1> QED BY <1>1, <1>2, <1>3, <1>6

\* A new, larger array takes the place of the old one, whose entries wait to be copied.
LEMMA OGrow ==
  ASSUME OInv, Grow
  PROVE  OInv' /\ SameStores
PROOF
  <1>1. /\ At("load") /\ size' = 0 /\ UNCHANGED <<heap, ret, status>> /\ MInv'
        /\ frames' = Append(SetTop([Top EXCEPT !.pc = "hash"]),
                            [fn |-> "resize", old |-> buckets, len |-> capacity, i |-> 0])
    BY MGrow DEF OInv, Grow, GrowTo
  <1>2. PICK c \in Primes : /\ FindNextPrime(capacity + 1, c) /\ capacity' = c
                            /\ buckets' = [i \in 0 .. c - 1 |-> NULL]
    BY DEF Grow, GrowTo
  <1>3. c \in Nat /\ capacity + 1 <= c
    BY <1>2, PrimeFacts DEF FindNextPrime
  <1>4. frames # <<>> /\ Top \in EmplaceFrames
    BY <1>1, EmplaceTop DEF OInv
  <1>5. PICK t \in EmplaceFrames : t = Top
    BY <1>4
  <1>6. PICK f : f = [t EXCEPT !.pc = "hash"]
    OBVIOUS
  <1>7. f \in EmplaceFrames /\ f \in AnyFrame /\ f.fn = "emplace" /\ f.key = t.key /\ f.val = t.val /\ t.fn = "emplace"
    BY <1>6 DEF EmplaceFrames, AnyFrame
  <1>8. PICK g : g = [fn |-> "resize", old |-> buckets, len |-> capacity, i |-> 0]
    OBVIOUS
  <1>9. g \in AnyFrame /\ g.fn = "resize" /\ g.old = buckets /\ g.len = capacity /\ g.i = 0
    <2>1. buckets \in UNION {Array(b) : b \in Nat}
      BY RoomFacts DEF OInv, MInv, Table
    <2> QED BY <1>8, <2>1, RoomFacts DEF AnyFrame, ResizeFrames
  <1>10. frames' = Append(SetTop(f), g)
    BY <1>1, <1>5, <1>6, <1>8
  <1>11. PICK n \in Nat \ {0} : n = Len(frames)
    BY <1>4, <1>7, <1>9, <1>10, PushShape DEF OInv, MInv
  <1>12. ASSUME NEW i \in Nat
         PROVE  /\ ~Holds(0, i)'
                /\ Holds(n, i)' <=> Holds(n, i)
                /\ EntryAt(n, i)' = EntryAt(n, i)
                /\ Holds(n + 1, i)' <=> Holds(0, i)
                /\ Holds(0, i) => EntryAt(n + 1, i)' = EntryAt(0, i)
                /\ ~Holds(n + 1, i)
                /\ \A d \in Nat : d \notin {0, n, n + 1} =>
                     /\ Holds(d, i)' <=> Holds(d, i)
                     /\ Holds(d, i) => EntryAt(d, i)' = EntryAt(d, i)
    <2>1. /\ Holds(n, i)' <=> FrameHolds(f, i)
          /\ EntryAt(n, i)' = FrameEntry(f, i)
          /\ Holds(n + 1, i)' <=> FrameHolds(g, i)
          /\ EntryAt(n + 1, i)' = FrameEntry(g, i)
          /\ Holds(n, i) <=> FrameHolds(Top, i)
          /\ EntryAt(n, i) = FrameEntry(Top, i)
          /\ ~Holds(n + 1, i)
          /\ \A d \in Nat : d \notin {0, n, n + 1} =>
               /\ Holds(d, i)' <=> Holds(d, i)
               /\ Holds(d, i) => EntryAt(d, i)' = EntryAt(d, i)
      BY <1>4, <1>7, <1>9, <1>10, <1>11, PushedPlaces DEF OInv, MInv
    <2>2. ~Holds(0, i)'
      <3>1. 0 \notin 1 .. Len(frames')
        <4>1. Len(frames') = n + 1
          BY <1>4, <1>7, <1>9, <1>10, <1>11, PushShape DEF OInv, MInv
        <4> QED BY <4>1
      <3>2. i \in 0 .. capacity' - 1 => buckets'[i] = NULL
        BY <1>2
      <3> QED BY <3>1, <3>2 DEF Holds
    <2>3. /\ FrameHolds(f, i) <=> FrameHolds(Top, i)
          /\ FrameEntry(f, i) = FrameEntry(Top, i)
      BY <1>5, <1>7 DEF FrameHolds, FrameEntry
    <2>4. /\ FrameHolds(g, i) <=> Holds(0, i)
          /\ FrameEntry(g, i) = EntryAt(0, i)
      BY <1>9, <1>11 DEF FrameHolds, FrameEntry, Holds, EntryAt
    <2> QED BY <2>1, <2>2, <2>3, <2>4
  <1>13. PICK r : r = [p \in Holders' |-> IF p[1] = n + 1 THEN <<0, p[2]>> ELSE p]
    OBVIOUS
  <1>14. ASSUME NEW p \in Holders'
         PROVE  /\ p[1] \in Nat /\ p[2] \in Nat /\ p = <<p[1], p[2]>> /\ p[1] # 0
                /\ r[p] \in Holders
                /\ r[p] = <<IF p[1] = n + 1 THEN 0 ELSE p[1], p[2]>>
                /\ EntryOf(p)' = EntryOf(r[p])
    <2>1. PICK d \in Nat, i \in Nat : p = <<d, i>> /\ Holds(d, i)'
      BY DEF Holders
    <2>2. d # 0
      BY <1>12, <2>1
    <2>3. CASE d = n + 1
      <3>1. r[p] = <<0, i>>
        BY <1>13, <2>1, <2>3
      <3>2. Holds(0, i) /\ EntryAt(n + 1, i)' = EntryAt(0, i)
        BY <1>12, <2>1, <2>3
      <3>3. <<0, i>> \in Holders /\ EntryOf(<<0, i>>) = EntryAt(0, i) /\ EntryOf(<<d, i>>)' = EntryAt(d, i)'
        BY <3>2, HolderIs, HolderIsNext
      <3>4. EntryAt(d, i)' = EntryAt(0, i)
        BY <2>3, <3>2
      <3>5. EntryOf(p)' = EntryOf(r[p])
        BY <2>1, <3>1, <3>3, <3>4
      <3> QED BY <2>1, <2>2, <2>3, <3>1, <3>3, <3>5
    <2>4. CASE d # n + 1
      <3>1. r[p] = <<d, i>>
        BY <1>13, <2>1, <2>4
      <3>2. Holds(d, i) /\ EntryAt(d, i)' = EntryAt(d, i)
        <4>1. CASE d = n
          BY <1>12, <2>1, <4>1
        <4>2. CASE d # n
          BY <1>12, <2>1, <2>2, <2>4, <4>2
        <4> QED BY <4>1, <4>2
      <3>3. <<d, i>> \in Holders /\ EntryOf(<<d, i>>) = EntryAt(d, i) /\ EntryOf(<<d, i>>)' = EntryAt(d, i)'
        BY <3>2, HolderIs, HolderIsNext
      <3>4. EntryOf(p)' = EntryOf(r[p])
        BY <2>1, <3>1, <3>2, <3>3
      <3> QED BY <2>1, <2>2, <2>4, <3>1, <3>3, <3>4
    <2> QED BY <2>3, <2>4
  <1>15. r \in [Holders' -> Holders]
    BY <1>13, <1>14
  <1>16. \A p, q \in Holders' : r[p] = r[q] => p = q
    <2> SUFFICES ASSUME NEW p \in Holders', NEW q \in Holders', r[p] = r[q] PROVE p = q
      OBVIOUS
    <2>1. p[2] = q[2] /\ (IF p[1] = n + 1 THEN 0 ELSE p[1]) = (IF q[1] = n + 1 THEN 0 ELSE q[1])
      BY <1>14
    <2>2. p[1] # 0 /\ q[1] # 0
      BY <1>14
    <2>3. p[1] = q[1]
      BY <2>1, <2>2
    <2> QED BY <1>14, <2>1, <2>3
  <1>17. \A q \in Holders : \E p \in Holders' : r[p] = q
    <2> SUFFICES ASSUME NEW q \in Holders PROVE \E p \in Holders' : r[p] = q
      OBVIOUS
    <2>1. PICK d \in Nat, i \in Nat : q = <<d, i>> /\ Holds(d, i)
      BY DEF Holders
    <2>2. CASE d = 0
      <3>1. Holds(n + 1, i)'
        BY <1>12, <2>1, <2>2
      <3>2. <<n + 1, i>> \in Holders'
        BY <3>1, HolderIsNext
      <3>3. r[<<n + 1, i>>] = q
        BY <1>14, <2>1, <2>2, <3>2
      <3> QED BY <3>2, <3>3
    <2>3. CASE d # 0
      <3>1. d # n + 1
        BY <1>12, <2>1
      <3>2. Holds(d, i)'
        <4>1. CASE d = n
          BY <1>12, <2>1, <4>1
        <4>2. CASE d # n
          BY <1>12, <2>1, <2>3, <3>1, <4>2
        <4> QED BY <4>1, <4>2
      <3>3. <<d, i>> \in Holders'
        BY <3>2, HolderIsNext
      <3>4. r[<<d, i>>] = q
        BY <1>14, <2>1, <3>1, <3>3
      <3> QED BY <3>3, <3>4
    <2> QED BY <2>2, <2>3
  <1>18. \A p \in Holders' : r[p][1] = 1 <=> p[1] = 1
    BY <1>11, <1>14
  <1>19. Cardinality(Holders) <= capacity' - 1
    BY <1>2, <1>3, RoomFacts
  <1>20. (OneOwner /\ OneName /\ LiveHeld /\ Room)' /\ SameStores
    BY <1>1, <1>2, <1>3, <1>14, <1>15, <1>16, <1>17, <1>18, <1>19, Relocated
  <1>21. Bottom' /\ LookupPassed'
    <2>1. Bottom'
      BY <1>4, <1>5, <1>7, <1>9, <1>10, BottomPush DEF OInv, MInv, Owned
    <2>2. Len(frames') = n + 1 /\ frames'[n + 1] = g
      BY <1>4, <1>7, <1>9, <1>10, <1>11, PushShape DEF OInv, MInv
    <2>3. Top' = g
      BY <2>2 DEF Top
    <2> QED BY <1>9, <2>1, <2>3, NoLookup
  <1>22. SizeZero'
    BY <1>2 DEF SizeZero
  <1> QED BY <1>1, <1>20, <1>21, <1>22 DEF OInv, Owned

-----------------------------------------------------------------------------
(* Emplacing: the entry finds its bucket *)

\* One entry has moved, from the place old to the place new.
LEMMA MovedOne ==
  ASSUME NEW new \in Holders', NEW old \in Holders, new \notin Holders, old \notin Holders',
         \A d, i \in Nat : <<d, i>> # new /\ <<d, i>> # old =>
           /\ Holds(d, i)' <=> Holds(d, i)
           /\ Holds(d, i) => EntryAt(d, i)' = EntryAt(d, i),
         EntryOf(new)' = EntryOf(old)
  PROVE  \E r \in [Holders' -> Holders] :
           /\ \A p \in Holders' : r[p] = IF p = new THEN old ELSE p
           /\ \A p, q \in Holders' : r[p] = r[q] => p = q
           /\ \A q \in Holders : \E p \in Holders' : r[p] = q
           /\ \A p \in Holders' : EntryOf(p)' = EntryOf(r[p])
PROOF
  <1>1. ASSUME NEW p \in Holders', p # new
        PROVE  p \in Holders /\ p # old /\ EntryOf(p)' = EntryOf(p)
    <2>1. PICK d \in Nat, i \in Nat : p = <<d, i>> /\ Holds(d, i)'
      BY DEF Holders
    <2>2. Holds(d, i) /\ EntryAt(d, i)' = EntryAt(d, i)
      BY <1>1, <2>1
    <2>3. <<d, i>> \in Holders /\ EntryOf(<<d, i>>)' = EntryOf(<<d, i>>)
      BY <2>2, HolderIs, HolderIsNext
    <2> QED BY <2>1, <2>3
  <1>2. ASSUME NEW q \in Holders, q # old
        PROVE  q \in Holders' /\ q # new
    <2>1. PICK d \in Nat, i \in Nat : q = <<d, i>> /\ Holds(d, i)
      BY DEF Holders
    <2>2. Holds(d, i)'
      BY <1>2, <2>1
    <2> QED BY <2>1, <2>2, HolderIsNext
  <1>3. PICK r : r = [p \in Holders' |-> IF p = new THEN old ELSE p]
    OBVIOUS
  <1>4. \A p \in Holders' : r[p] = IF p = new THEN old ELSE p
    BY <1>3
  <1>5. r \in [Holders' -> Holders]
    BY <1>1, <1>3
  <1>6. \A p, q \in Holders' : r[p] = r[q] => p = q
    BY <1>1, <1>4
  <1>7. \A q \in Holders : \E p \in Holders' : r[p] = q
    BY <1>2, <1>4
  <1>8. \A p \in Holders' : EntryOf(p)' = EntryOf(r[p])
    BY <1>1, <1>4
  <1> QED BY <1>4, <1>5, <1>6, <1>7, <1>8

LEMMA StorePlaces ==
  ASSUME OInv, At("probe"), frames' = Return, capacity' = capacity,
         buckets' = [buckets EXCEPT ![Top.index] = [key |-> Top.key, val |-> Top.val]],
         NEW n, n = Len(frames), NEW b, b = Top.index, NEW k, k = Top.key, NEW v, v = Top.val,
         NEW i \in Nat
  PROVE  /\ n \in Nat \ {0} /\ b \in 0 .. capacity - 1 /\ b \in Nat
         /\ Holds(0, b)' /\ EntryAt(0, b)' = [key |-> k, val |-> v]
         /\ Holds(n, 0) /\ EntryAt(n, 0) = [key |-> k, val |-> v]
         /\ ~Holds(n, i)' /\ (Holds(n, i) => i = 0)
         /\ \A d \in Nat : <<d, i>> # <<0, b>> /\ d # n =>
              /\ Holds(d, i)' <=> Holds(d, i)
              /\ Holds(d, i) => EntryAt(d, i)' = EntryAt(d, i)
PROOF
  <1>1. frames # <<>> /\ Top.fn = "emplace" /\ b \in 0 .. capacity - 1 /\ k \in Keys /\ v \in Infos
    BY EmplaceTop DEF OInv
  <1>2. ASSUME NEW j \in Nat
        PROVE  /\ n \in Nat \ {0}
               /\ ~Holds(n, j)'
               /\ Holds(n, j) <=> FrameHolds(Top, j)
               /\ EntryAt(n, j) = FrameEntry(Top, j)
               /\ \A d \in Nat : d \notin {0, n} =>
                    /\ Holds(d, j)' <=> Holds(d, j)
                    /\ Holds(d, j) => EntryAt(d, j)' = EntryAt(d, j)
    BY <1>1, PoppedPlaces DEF OInv, MInv
  <1>3. n \in Nat \ {0} /\ Len(frames') \in Nat
    BY <1>1, PopShape DEF OInv, MInv
  <1>4. PICK e : e = [key |-> k, val |-> v]
    OBVIOUS
  <1>5. e # NULL
    BY <1>1, <1>4, EntryNotNull DEF Entry
  <1>6. DOMAIN buckets = 0 .. capacity - 1
    BY DEF OInv, MInv, Table, Array
  <1>7. \A j \in 0 .. capacity - 1 : buckets'[j] = IF j = b THEN e ELSE buckets[j]
    BY <1>4, <1>6
  <1>8. ASSUME NEW j \in Nat
        PROVE  /\ Holds(0, j)' <=> j \in 0 .. capacity - 1 /\ buckets'[j] # NULL
               /\ EntryAt(0, j)' = buckets'[j]
               /\ Holds(0, j) <=> j \in 0 .. capacity - 1 /\ buckets[j] # NULL
               /\ EntryAt(0, j) = buckets[j]
    <2>1. 0 \notin 1 .. Len(frames) /\ 0 \notin 1 .. Len(frames')
      BY <1>3
    <2> QED BY <2>1 DEF Holds, EntryAt
  <1>9. b \in Nat
    BY <1>1, RoomFacts
  <1>10. Holds(0, b)' /\ EntryAt(0, b)' = [key |-> k, val |-> v]
    BY <1>1, <1>4, <1>5, <1>7, <1>8, <1>9
  <1>11. Holds(n, 0) /\ EntryAt(n, 0) = [key |-> k, val |-> v] /\ (Holds(n, i) => i = 0)
    <2>1. FrameHolds(Top, 0) /\ FrameEntry(Top, 0) = [key |-> k, val |-> v]
      BY <1>1 DEF FrameHolds, FrameEntry
    <2>2. FrameHolds(Top, i) => i = 0
      BY <1>1 DEF FrameHolds
    <2> QED BY <1>2, <2>1, <2>2
  <1>12. ASSUME NEW d \in Nat, <<d, i>> # <<0, b>>, d # n
         PROVE  /\ Holds(d, i)' <=> Holds(d, i)
                /\ Holds(d, i) => EntryAt(d, i)' = EntryAt(d, i)
    <2>1. CASE d = 0
      <3>1. i # b
        BY <1>12, <2>1
      <3> QED BY <1>7, <1>8, <2>1, <3>1
    <2>2. CASE d # 0
      BY <1>2, <1>12, <2>2
    <2> QED BY <2>1, <2>2
  <1> QED BY <1>1, <1>2, <1>3, <1>9, <1>10, <1>11, <1>12

\* Between operations a name is stored once because linear probing stores it once.
LEMMA OneNameIdle ==
  ASSUME Len(frames') = 0, MInv'
  PROVE  /\ OneName'
         /\ \A p \in Holders' : p[1] = 0
PROOF
  <1>1. DOMAIN buckets' = 0 .. capacity' - 1
    BY DEF MInv, Table, Array
  <1>2. ASSUME NEW p \in Holders'
        PROVE  /\ p[1] = 0 /\ p = <<p[1], p[2]>> /\ p[2] \in 0 .. capacity' - 1
               /\ buckets'[p[2]] # NULL
               /\ EntryOf(p)' = buckets'[p[2]]
    <2>1. PICK d \in Nat, i \in Nat : p = <<d, i>> /\ Holds(d, i)'
      BY DEF Holders
    <2>2. 1 .. Len(frames') = {}
      OBVIOUS
    <2>3. d = 0 /\ i \in 0 .. capacity' - 1 /\ buckets'[i] # NULL
      BY <2>1, <2>2 DEF Holds
    <2>4. EntryOf(p)' = buckets'[i]
      BY <2>1, <2>3 DEF EntryOf, EntryAt
    <2> QED BY <2>1, <2>3, <2>4
  <1>3. ASSUME NEW p \in Holders', NEW q \in Holders', EntryOf(p)'.key = EntryOf(q)'.key
        PROVE  p = q
    <2>1. p[2] = q[2]
      BY <1>1, <1>2, <1>3 DEF MInv, ProbePathsUnbroken
    <2> QED BY <1>2, <2>1
  <1> QED BY <1>2, <1>3 DEF OneName

PutStores(k, v) ==
  \A e \in Entry : Stores(e)' <=> IF e.key = k THEN e.val = v ELSE Stores(e)

LEMMA PutStored ==
  ASSUME OneName', NEW k \in Keys, NEW v \in Infos,
         NEW new \in Holders', new[1] # 1, EntryOf(new)' = [key |-> k, val |-> v],
         \A p \in Holders' : p # new => p \in Holders /\ p[1] # 1 /\ EntryOf(p)' = EntryOf(p),
         \A p \in Holders : p[1] # 1 /\ EntryOf(p).key # k => p \in Holders' /\ EntryOf(p)' = EntryOf(p)
  PROVE  PutStores(k, v)
PROOF
  <1> SUFFICES ASSUME NEW e \in Entry
               PROVE  Stores(e)' <=> IF e.key = k THEN e.val = v ELSE Stores(e)
    BY DEF PutStores
  <1>1. CASE e.key = k
    <2>1. ASSUME NEW p \in Holders', p[1] # 1, EntryOf(p)' = e PROVE e.val = v
      <3>1. p = new
        BY <1>1, <2>1 DEF OneName
      <3> QED BY <2>1, <3>1
    <2>2. ASSUME e.val = v PROVE EntryOf(new)' = e
      BY <1>1, <2>2 DEF Entry
    <2> QED BY <1>1, <2>1, <2>2 DEF Stores
  <1>2. CASE e.key # k
    <2>1. ASSUME NEW p \in Holders', p[1] # 1, EntryOf(p)' = e PROVE Stores(e)
      <3>1. p # new
        BY <1>2, <2>1
      <3> QED BY <2>1, <3>1 DEF Stores
    <2>2. ASSUME NEW p \in Holders, p[1] # 1, EntryOf(p) = e PROVE Stores(e)'
      BY <1>2, <2>2 DEF Stores
    <2> QED BY <1>2, <2>1, <2>2 DEF Stores
  <1> QED BY <1>1, <1>2

\* After a store, no activation of emplace or lookup is on top of the stack.
LEMMA StoreReturns ==
  ASSUME OInv, frames # <<>>, frames' = Return, capacity' = capacity
  PROVE  Bottom' /\ LookupPassed'
PROOF
  <1>1. frames' # <<>> => Settled(Top')
    BY Popped DEF OInv, MInv
  <1>2. LookupPassed'
    BY <1>1, NoLookup DEF Settled
  <1>3. Bottom'
    BY BottomPop DEF OInv, MInv, Owned
  <1> QED BY <1>2, <1>3

LEMMA OInsert ==
  ASSUME OInv, Insert
  PROVE  /\ OInv'
         /\ IF Len(frames) = 1 THEN PutStores(Top.key, Top.val) ELSE SameStores
PROOF
  <1>1. /\ At("probe") /\ buckets[Top.index] = NULL /\ frames' = Return /\ size' = size + 1
        /\ buckets' = [buckets EXCEPT ![Top.index] = [key |-> Top.key, val |-> Top.val]]
        /\ UNCHANGED <<capacity, heap, ret, status>>
        /\ MInv'
    BY MInsert DEF OInv, Insert
  <1>2. frames # <<>> /\ Top.key \in Keys /\ Top.val \in Infos /\ Top.pc = "probe"
    BY <1>1, EmplaceTop DEF OInv
  <1>3. PICK k \in Keys, v \in Infos : k = Top.key /\ v = Top.val
    BY <1>2
  <1>4. PICK n, b : n = Len(frames) /\ b = Top.index
    OBVIOUS
  <1>5. ASSUME NEW i \in Nat
        PROVE  /\ n \in Nat \ {0} /\ b \in 0 .. capacity - 1 /\ b \in Nat
               /\ Holds(0, b)' /\ EntryAt(0, b)' = [key |-> k, val |-> v]
               /\ Holds(n, 0) /\ EntryAt(n, 0) = [key |-> k, val |-> v]
               /\ ~Holds(n, i)' /\ (Holds(n, i) => i = 0)
               /\ \A d \in Nat : <<d, i>> # <<0, b>> /\ d # n =>
                    /\ Holds(d, i)' <=> Holds(d, i)
                    /\ Holds(d, i) => EntryAt(d, i)' = EntryAt(d, i)
    BY <1>1, <1>3, <1>4, StorePlaces
  <1>6. n \in Nat \ {0} /\ b \in Nat /\ n \in Nat /\ 0 \in Nat
    BY <1>5
  <1>7. ~Holds(0, b)
    <2>1. 0 \notin 1 .. Len(frames)
      BY <1>4, <1>6
    <2> QED BY <1>1, <1>4, <2>1 DEF Holds
  <1>8. PICK new, old : new = <<0, b>> /\ old = <<n, 0>>
    OBVIOUS
  <1>9. /\ new \in Holders' /\ old \in Holders /\ new \notin Holders /\ old \notin Holders'
        /\ EntryOf(new)' = [key |-> k, val |-> v] /\ EntryOf(old) = [key |-> k, val |-> v]
    BY <1>5, <1>6, <1>7, <1>8, HolderIs, HolderIsNext
  <1>10. ASSUME NEW d \in Nat, NEW i \in Nat, <<d, i>> # new, <<d, i>> # old
         PROVE  /\ Holds(d, i)' <=> Holds(d, i)
                /\ Holds(d, i) => EntryAt(d, i)' = EntryAt(d, i)
    <2>1. CASE d = n
      BY <1>5, <1>8, <1>10, <2>1
    <2>2. CASE d # n
      BY <1>5, <1>8, <1>10, <2>2
    <2> QED BY <2>1, <2>2
  <1>11. PICK r \in [Holders' -> Holders] :
           /\ \A p \in Holders' : r[p] = IF p = new THEN old ELSE p
           /\ \A p, q \in Holders' : r[p] = r[q] => p = q
           /\ \A q \in Holders : \E p \in Holders' : r[p] = q
           /\ \A p \in Holders' : EntryOf(p)' = EntryOf(r[p])
    BY <1>9, <1>10, MovedOne
  <1>12. Cardinality(Holders) <= capacity' - 1 /\ capacity' \in Nat
    BY <1>1, <1>2, RoomFacts DEF AtEntry
  <1>13. SizeZero'
    BY <1>1 DEF SizeZero, OInv, MInv, Table
  <1>14. Bottom' /\ LookupPassed'
    BY <1>1, <1>2, StoreReturns
  <1>15. CASE n = 1
    <2>1. Len(frames') = 0
      BY <1>1, <1>2, <1>4, <1>15, PopShape DEF OInv, MInv
    <2>2. OneName' /\ \A p \in Holders' : p[1] = 0
      BY <1>1, <2>1, OneNameIdle
    <2>3. OneOwner' /\ LiveHeld'
      BY <1>1, <1>11, OwnerMoved, LiveMoved DEF OInv, Owned
    <2>4. Room'
      <3>1. IsFiniteSet(Holders') /\ Cardinality(Holders') <= Cardinality(Holders)
        BY <1>11, RoomFacts, RoomMoved
      <3>2. Cardinality(Holders') <= capacity' - 1
        BY <1>12, <3>1, RoomFacts, FS_CardinalityType
      <3> QED BY <1>12, <3>1, <3>2, RoomLeft
    <2>5. PutStores(k, v)
      <3>1. new[1] # 1
        BY <1>8
      <3>2. \A p \in Holders' : p # new => p \in Holders /\ p[1] # 1 /\ EntryOf(p)' = EntryOf(p)
        BY <1>11, <2>2
      <3>3. \A p \in Holders : p[1] # 1 => p \in Holders' /\ EntryOf(p)' = EntryOf(p)
        <4> SUFFICES ASSUME NEW p \in Holders, p[1] # 1 PROVE p \in Holders' /\ EntryOf(p)' = EntryOf(p)
          OBVIOUS
        <4>1. PICK q \in Holders' : r[q] = p
          BY <1>11
        <4>2. p # old
          BY <1>8, <1>15
        <4>3. q = p
          BY <1>11, <4>1, <4>2
        <4> QED BY <1>11, <4>1, <4>3
      <3> QED BY <1>9, <2>2, <3>1, <3>2, <3>3, PutStored
    <2> QED BY <1>1, <1>3, <1>4, <1>13, <1>14, <1>15, <2>2, <2>3, <2>4, <2>5 DEF OInv, Owned
  <1>16. CASE n # 1
    <2>1. \A p \in Holders' : r[p][1] = 1 <=> p[1] = 1
      <3> SUFFICES ASSUME NEW p \in Holders' PROVE r[p][1] = 1 <=> p[1] = 1
        OBVIOUS
      <3>1. CASE p = new
        BY <1>8, <1>11, <1>16, <3>1
      <3>2. CASE p # new
        BY <1>11, <3>2
      <3> QED BY <3>1, <3>2
    <2>2. (OneOwner /\ OneName /\ LiveHeld /\ Room)' /\ SameStores
      BY <1>1, <1>11, <1>12, <2>1, Relocated
    <2> QED BY <1>1, <1>4, <1>13, <1>14, <1>16, <2>2 DEF OInv, Owned
  <1> QED BY <1>15, <1>16

\* The name is in the table already: the caller's activation is the only one
\* that can carry it, so the information replaced is nowhere else.
LEMMA OOverwrite ==
  ASSUME OInv, Overwrite
  PROVE  OInv' /\ PutStores(Top.key, Top.val)
PROOF
  <1>1. /\ At("probe") /\ buckets[Top.index] # NULL /\ buckets[Top.index].key = Top.key
        /\ frames' = Return /\ heap' = FreeInfos({buckets[Top.index].val})
        /\ buckets' = [buckets EXCEPT ![Top.index] = [key |-> Top.key, val |-> Top.val]]
        /\ UNCHANGED <<capacity, size, ret, status>>
        /\ MInv'
    BY MOverwrite DEF OInv, Overwrite
  <1>2. /\ frames # <<>> /\ Top.key \in Keys /\ Top.val \in Infos /\ Top.pc = "probe"
        /\ Top.index \in 0 .. capacity - 1
    BY <1>1, EmplaceTop DEF OInv
  <1>3. PICK k \in Keys, v \in Infos : k = Top.key /\ v = Top.val
    BY <1>2
  <1>4. PICK n, b, w : n = Len(frames) /\ b = Top.index /\ w = buckets[Top.index].val
    OBVIOUS
  <1>5. ASSUME NEW i \in Nat
        PROVE  /\ n \in Nat \ {0} /\ b \in 0 .. capacity - 1 /\ b \in Nat
               /\ Holds(0, b)' /\ EntryAt(0, b)' = [key |-> k, val |-> v]
               /\ Holds(n, 0) /\ EntryAt(n, 0) = [key |-> k, val |-> v]
               /\ ~Holds(n, i)' /\ (Holds(n, i) => i = 0)
               /\ \A d \in Nat : <<d, i>> # <<0, b>> /\ d # n =>
                    /\ Holds(d, i)' <=> Holds(d, i)
                    /\ Holds(d, i) => EntryAt(d, i)' = EntryAt(d, i)
    BY <1>1, <1>3, <1>4, StorePlaces
  <1>6. n \in Nat \ {0} /\ b \in Nat /\ n \in Nat /\ 0 \in Nat /\ b \in 0 .. capacity - 1
    BY <1>5
  <1>7. PICK new, old : new = <<0, b>> /\ old = <<n, 0>>
    OBVIOUS
  <1>8. /\ new \in Holders /\ EntryOf(new) = buckets[b] /\ EntryOf(new).key = k /\ EntryOf(new).val = w
        /\ w \in Infos
    <2>1. Holds(0, b) /\ EntryAt(0, b) = buckets[b]
      BY <1>1, <1>4, <1>6 DEF Holds, EntryAt
    <2>2. new \in Holders /\ EntryOf(new) = buckets[b]
      BY <1>6, <1>7, <2>1, HolderIs
    <2> QED BY <1>1, <1>3, <1>4, <2>2, HolderFacts DEF OInv
  <1>9. /\ new \in Holders' /\ old \in Holders /\ old \notin Holders' /\ new # old
        /\ EntryOf(new)' = [key |-> k, val |-> v] /\ EntryOf(old) = [key |-> k, val |-> v]
    BY <1>5, <1>6, <1>7, HolderIs, HolderIsNext
  <1>10. n = 1
    <2> SUFFICES ASSUME n # 1 PROVE FALSE
      OBVIOUS
    <2>1. new[1] # 1 /\ old[1] # 1
      BY <1>7
    <2>2. EntryOf(new).key = EntryOf(old).key
      BY <1>8, <1>9
    <2> QED BY <1>8, <1>9, <2>1, <2>2 DEF OInv, Owned, OneName
  <1>11. ASSUME NEW p \in Holders', p # new
         PROVE  p \in Holders /\ p # old /\ EntryOf(p)' = EntryOf(p)
    <2>1. PICK d \in Nat, i \in Nat : p = <<d, i>> /\ Holds(d, i)'
      BY DEF Holders
    <2>2. d # n
      BY <1>5, <2>1
    <2>3. Holds(d, i) /\ EntryAt(d, i)' = EntryAt(d, i)
      BY <1>5, <1>7, <1>11, <2>1, <2>2
    <2>4. <<d, i>> \in Holders /\ EntryOf(<<d, i>>)' = EntryOf(<<d, i>>)
      BY <2>3, HolderIs, HolderIsNext
    <2> QED BY <1>9, <1>11, <2>1, <2>4
  <1>12. ASSUME NEW p \in Holders, p # old, p # new
         PROVE  p \in Holders' /\ EntryOf(p)' = EntryOf(p)
    <2>1. PICK d \in Nat, i \in Nat : p = <<d, i>> /\ Holds(d, i)
      BY DEF Holders
    <2>2. d # n
      BY <1>5, <1>7, <1>12, <2>1
    <2>3. Holds(d, i)' /\ EntryAt(d, i)' = EntryAt(d, i)
      BY <1>5, <1>7, <1>12, <2>1, <2>2
    <2> QED BY <2>1, <2>3, HolderIs, HolderIsNext
  <1>13. PICK r : r = [p \in Holders' |-> IF p = new THEN old ELSE p]
    OBVIOUS
  <1>14. /\ r \in [Holders' -> Holders]
         /\ \A p, q \in Holders' : r[p] = r[q] => p = q
         /\ \A p \in Holders' : EntryOf(p)' = EntryOf(r[p]) /\ r[p] # new
    BY <1>9, <1>11, <1>13
  <1>15. OneOwner'
    BY <1>14, OwnerMoved DEF OInv, Owned
  <1>16. OneName' /\ \A p \in Holders' : p[1] = 0
    <2>1. Len(frames') = 0
      BY <1>1, <1>2, <1>4, <1>10, PopShape DEF OInv, MInv
    <2> QED BY <1>1, <2>1, OneNameIdle
  <1>17. LiveHeld'
    <2>1. heap \in Heaps
      BY DEF OInv, MInv, Table
    <2>2. heap[w] = "live"
      BY <1>8 DEF OInv, Owned, LiveHeld
    <2>3. heap' = [u \in Infos |-> IF u = w THEN "freed" ELSE heap[u]]
      BY <1>1, <1>4, <2>2 DEF FreeInfos
    <2>4. ASSUME NEW u \in Infos
          PROVE  heap'[u] # "corrupt" /\ (heap'[u] = "live" <=> \E p \in Holders' : EntryOf(p)'.val = u)
      <3>1. CASE u = w
        <4>1. ASSUME NEW p \in Holders', EntryOf(p)'.val = w PROVE FALSE
          <5>1. r[p] \in Holders /\ EntryOf(r[p]).val = EntryOf(new).val /\ r[p] # new
            BY <1>8, <1>14, <4>1
          <5> QED BY <1>8, <5>1 DEF OInv, Owned, OneOwner
        <4> QED BY <2>3, <3>1, <4>1
      <3>2. CASE u # w
        <4>1. heap'[u] = heap[u]
          BY <2>3, <3>2
        <4>2. ASSUME NEW p \in Holders, EntryOf(p).val = u PROVE \E q \in Holders' : EntryOf(q)'.val = u
          <5>1. CASE p = old
            BY <1>9, <4>2, <5>1
          <5>2. CASE p # old
            BY <1>8, <1>12, <3>2, <4>2, <5>2
          <5> QED BY <5>1, <5>2
        <4>3. ASSUME NEW p \in Holders', EntryOf(p)'.val = u PROVE \E q \in Holders : EntryOf(q).val = u
          BY <1>14, <4>3
        <4> QED BY <4>1, <4>2, <4>3 DEF OInv, Owned, LiveHeld
      <3> QED BY <3>1, <3>2
    <2> QED BY <2>4 DEF LiveHeld
  <1>18. SizeZero'
    <2>1. size # 0
      BY <1>1, <1>2 DEF OInv, Owned, SizeZero
    <2> QED BY <1>1, <2>1 DEF SizeZero
  <1>19. Room'
    <2>1. IsFiniteSet(Holders') /\ Cardinality(Holders') <= Cardinality(Holders)
      BY <1>14, RoomFacts, RoomMoved
    <2>2. Cardinality(Holders) <= capacity' - 1 /\ capacity' \in Nat
      BY <1>1, <1>2, RoomFacts DEF AtEntry
    <2>3. Cardinality(Holders') <= capacity' - 1
      BY <2>1, <2>2, RoomFacts, FS_CardinalityType
    <2> QED BY <2>1, <2>2, <2>3, RoomLeft
  <1>20. Bottom' /\ LookupPassed'
    BY <1>1, <1>2, StoreReturns
  <1>21. PutStores(k, v)
    <2>1. new[1] # 1
      BY <1>7
    <2>2. \A p \in Holders' : p # new => p \in Holders /\ p[1] # 1 /\ EntryOf(p)' = EntryOf(p)
      BY <1>11, <1>16
    <2>3. \A p \in Holders : p[1] # 1 /\ EntryOf(p).key # k => p \in Holders' /\ EntryOf(p)' = EntryOf(p)
      <3> SUFFICES ASSUME NEW p \in Holders, p[1] # 1, EntryOf(p).key # k
                   PROVE  p \in Holders' /\ EntryOf(p)' = EntryOf(p)
        OBVIOUS
      <3>1. p # old /\ p # new
        BY <1>7, <1>8, <1>10
      <3> QED BY <1>12, <3>1
    <2> QED BY <1>9, <1>16, <2>1, <2>2, <2>3, PutStored
  <1> QED BY <1>1, <1>3, <1>15, <1>16, <1>17, <1>18, <1>19, <1>20, <1>21 DEF OInv, Owned

-----------------------------------------------------------------------------
(* The copying loop *)

LEMMA LoopTurn ==
  ASSUME OInv, Running("resize"), Top.i < Top.len
  PROVE  \E t, f \in AnyFrame :
           /\ t = Top /\ f = [Top EXCEPT !.i = @ + 1]
           /\ t.fn = "resize" /\ t.i \in 0 .. t.len - 1 /\ t.len \in Nat /\ t.old \in Array(t.len)
           /\ f.fn = "resize" /\ f.old = t.old /\ f.len = t.len /\ f.i = t.i + 1
PROOF
  <1>1. /\ Top \in ResizeFrames /\ Top.fn = "resize"
        /\ Top.len \in Nat /\ Top.old \in Array(Top.len) /\ Top.i \in 0 .. Top.len
    BY ResizeTop DEF OInv
  <1>2. PICK t \in ResizeFrames : t = Top
    BY <1>1
  <1>3. PICK m \in Nat : m = Top.i + 1
    BY <1>1
  <1>4. PICK f : f = [t EXCEPT !.i = m]
    OBVIOUS
  <1>5. f \in ResizeFrames /\ f.fn = "resize" /\ f.old = t.old /\ f.len = t.len /\ f.i = m
    BY <1>4 DEF ResizeFrames
  <1>6. f = [Top EXCEPT !.i = @ + 1]
    BY <1>2, <1>3, <1>4
  <1>7. t.i \in 0 .. t.len - 1
    BY <1>1, <1>2
  <1> QED BY <1>1, <1>2, <1>3, <1>5, <1>6, <1>7 DEF AnyFrame

LEMMA OResizeSkip ==
  ASSUME OInv, ResizeSkip
  PROVE  OInv' /\ SameStores
PROOF
  <1>1. /\ Running("resize") /\ Top.i < Top.len /\ Top.old[Top.i] = NULL
        /\ frames' = SetTop([Top EXCEPT !.i = @ + 1])
        /\ UNCHANGED <<capacity, size, buckets, heap, ret, status>>
        /\ MInv' /\ frames # <<>>
    BY MResizeSkip DEF OInv, ResizeSkip, Running
  <1>2. PICK t \in AnyFrame, f \in AnyFrame :
          /\ t = Top /\ f = [Top EXCEPT !.i = @ + 1]
          /\ t.fn = "resize" /\ t.i \in 0 .. t.len - 1 /\ t.len \in Nat /\ t.old \in Array(t.len)
          /\ f.fn = "resize" /\ f.old = t.old /\ f.len = t.len /\ f.i = t.i + 1
    BY <1>1, LoopTurn
  <1>3. frames' = SetTop(f)
    BY <1>1, <1>2
  <1>4. Holders' = Holders /\ \A p \in Holders : EntryOf(p)' = EntryOf(p)
    <2>1. ASSUME NEW i \in Nat PROVE FrameHolds(f, i) <=> FrameHolds(t, i)
      <3>1. i \in f.i .. f.len - 1 <=> i \in t.i .. t.len - 1 /\ i # t.i
        BY <1>2
      <3> QED BY <1>1, <1>2, <3>1 DEF FrameHolds
    <2>2. \A i \in Nat : FrameEntry(f, i) = FrameEntry(t, i)
      BY <1>2 DEF FrameEntry
    <2> QED BY <1>1, <1>2, <1>3, <2>1, <2>2, TopPlacesKept DEF OInv, MInv
  <1>5. Cardinality(Holders) <= capacity - 1
    BY <1>1, RoomFacts DEF AtEntry, Running
  <1>6. (OneOwner /\ OneName /\ LiveHeld /\ SizeZero /\ Room)' /\ SameStores
    BY <1>1, <1>4, <1>5, StaysPut
  <1>7. Bottom'
    BY <1>1, <1>2, <1>3, BottomSet DEF OInv, MInv, Owned
  <1>8. LookupPassed'
    <2>1. Len(frames') = Len(frames) /\ frames'[Len(frames)] = f
      BY <1>1, <1>3, SetShape DEF OInv, MInv
    <2>2. Top' = f
      BY <2>1 DEF Top
    <2> QED BY <1>2, <2>2, NoLookup
  <1> QED BY <1>1, <1>6, <1>7, <1>8 DEF OInv, Owned

LEMMA OResizeMove ==
  ASSUME OInv, ResizeMove
  PROVE  OInv' /\ SameStores
PROOF
  <1>1. /\ Running("resize") /\ Top.i < Top.len /\ Top.old[Top.i] # NULL
        /\ frames' = Append(SetTop([Top EXCEPT !.i = @ + 1]),
                            EmplaceFrame(Top.old[Top.i].key, Top.old[Top.i].val))
        /\ UNCHANGED <<capacity, size, buckets, heap, ret, status>>
        /\ MInv' /\ frames # <<>>
    BY MResizeMove DEF OInv, ResizeMove, Running
  <1>2. PICK t \in AnyFrame, f \in AnyFrame :
          /\ t = Top /\ f = [Top EXCEPT !.i = @ + 1]
          /\ t.fn = "resize" /\ t.i \in 0 .. t.len - 1 /\ t.len \in Nat /\ t.old \in Array(t.len)
          /\ f.fn = "resize" /\ f.old = t.old /\ f.len = t.len /\ f.i = t.i + 1
    BY <1>1, LoopTurn
  <1>3. PICK e : e = t.old[t.i]
    OBVIOUS
  <1>4. e \in Entry /\ e.key \in Keys /\ e.val \in Infos /\ e = [key |-> e.key, val |-> e.val]
    <2>1. t.old \in [0 .. t.len - 1 -> Entry \cup {NULL}]
      BY <1>2 DEF Array
    <2>2. e \in Entry
      BY <1>1, <1>2, <1>3, <2>1
    <2> QED BY <2>2 DEF Entry
  <1>5. PICK g : g = EmplaceFrame(e.key, e.val)
    OBVIOUS
  <1>6. g \in AnyFrame /\ g.fn = "emplace" /\ g.pc = "load" /\ g.key = e.key /\ g.val = e.val
    BY <1>4, <1>5 DEF EmplaceFrame, AnyFrame, EmplaceFrames
  <1>7. frames' = Append(SetTop(f), g)
    BY <1>1, <1>2, <1>3, <1>5
  <1>8. PICK n \in Nat \ {0} : n = Len(frames)
    BY <1>1, <1>6, <1>7, PushShape DEF OInv, MInv
  <1>9. n # 1
    <2>1. frames[n].fn = "resize" /\ n \in 1 .. Len(frames)
      BY <1>2, <1>8 DEF Top
    <2> QED BY <2>1 DEF OInv, Owned, Bottom
  <1>10. PICK m \in Nat : m = t.i
    BY <1>2
  <1>11. ASSUME NEW i \in Nat
         PROVE  /\ Holds(n, i)' <=> Holds(n, i) /\ i # m
                /\ EntryAt(n, i)' = EntryAt(n, i)
                /\ Holds(n + 1, i)' <=> i = 0
                /\ EntryAt(n + 1, i)' = e
                /\ ~Holds(n + 1, i)
                /\ Holds(n, m) /\ EntryAt(n, m) = e
                /\ \A d \in Nat : d \notin {0, n, n + 1} =>
                     /\ Holds(d, i)' <=> Holds(d, i)
                     /\ Holds(d, i) => EntryAt(d, i)' = EntryAt(d, i)
    <2>0. Stack /\ frames # <<>>
      BY <1>1 DEF OInv, MInv
    <2>1. ASSUME NEW j \in Nat
          PROVE  /\ Holds(n, j)' <=> FrameHolds(f, j)
                 /\ EntryAt(n, j)' = FrameEntry(f, j)
                 /\ Holds(n + 1, j)' <=> FrameHolds(g, j)
                 /\ EntryAt(n + 1, j)' = FrameEntry(g, j)
                 /\ Holds(n, j) <=> FrameHolds(Top, j)
                 /\ EntryAt(n, j) = FrameEntry(Top, j)
                 /\ ~Holds(n + 1, j)
                 /\ \A d \in Nat : d \notin {0, n, n + 1} =>
                      /\ Holds(d, j)' <=> Holds(d, j)
                      /\ Holds(d, j) => EntryAt(d, j)' = EntryAt(d, j)
      BY <1>6, <1>7, <1>8, <2>0, PushedPlaces
    <2>2. FrameHolds(f, i) <=> FrameHolds(Top, i) /\ i # m
      <3>1. i \in f.i .. f.len - 1 <=> i \in t.i .. t.len - 1 /\ i # t.i
        BY <1>2
      <3> QED BY <1>2, <1>10, <3>1 DEF FrameHolds
    <2>3. FrameEntry(f, i) = FrameEntry(Top, i)
      BY <1>2 DEF FrameEntry
    <2>4. (FrameHolds(g, i) <=> i = 0) /\ FrameEntry(g, i) = e
      BY <1>4, <1>6 DEF FrameHolds, FrameEntry
    <2>5. FrameHolds(Top, m) /\ FrameEntry(Top, m) = e
      <3>1. m \in t.i .. t.len - 1
        BY <1>2, <1>10
      <3> QED BY <1>1, <1>2, <1>3, <1>10, <3>1 DEF FrameHolds, FrameEntry
    <2> QED BY <2>1, <2>2, <2>3, <2>4, <2>5
  <1>12. ASSUME NEW i \in Nat
         PROVE  /\ Holds(0, i)' <=> Holds(0, i)
                /\ EntryAt(0, i)' = EntryAt(0, i)
    <2>1. Len(frames') = n + 1
      BY <1>1, <1>6, <1>7, <1>8, PushShape DEF OInv, MInv
    <2>2. 0 \notin 1 .. Len(frames) /\ 0 \notin 1 .. Len(frames')
      BY <1>8, <2>1
    <2> QED BY <1>1, <2>2 DEF Holds, EntryAt
  <1>13. PICK new, old : new = <<n + 1, 0>> /\ old = <<n, m>>
    OBVIOUS
  <1>14. /\ new \in Holders' /\ old \in Holders /\ new \notin Holders /\ old \notin Holders'
         /\ EntryOf(new)' = e /\ EntryOf(old) = e
    <2>1. /\ Holds(n + 1, 0)' /\ EntryAt(n + 1, 0)' = e /\ ~Holds(n + 1, 0)
          /\ Holds(n, m) /\ EntryAt(n, m) = e /\ ~Holds(n, m)'
      BY <1>11
    <2> QED BY <1>8, <1>13, <2>1, HolderIs, HolderIsNext
  <1>15. ASSUME NEW d \in Nat, NEW i \in Nat, <<d, i>> # new, <<d, i>> # old
         PROVE  /\ Holds(d, i)' <=> Holds(d, i)
                /\ Holds(d, i) => EntryAt(d, i)' = EntryAt(d, i)
    <2>1. CASE d = 0
      BY <1>12, <2>1
    <2>2. CASE d = n
      BY <1>11, <1>13, <1>15, <2>2
    <2>3. CASE d = n + 1
      BY <1>11, <1>13, <1>15, <2>3
    <2>4. CASE d \notin {0, n, n + 1}
      BY <1>11, <2>4
    <2> QED BY <2>1, <2>2, <2>3, <2>4
  <1>16. PICK r \in [Holders' -> Holders] :
           /\ \A p \in Holders' : r[p] = IF p = new THEN old ELSE p
           /\ \A p, q \in Holders' : r[p] = r[q] => p = q
           /\ \A q \in Holders : \E p \in Holders' : r[p] = q
           /\ \A p \in Holders' : EntryOf(p)' = EntryOf(r[p])
    BY <1>14, <1>15, MovedOne
  <1>17. \A p \in Holders' : r[p][1] = 1 <=> p[1] = 1
    <2> SUFFICES ASSUME NEW p \in Holders' PROVE r[p][1] = 1 <=> p[1] = 1
      OBVIOUS
    <2>1. CASE p = new
      <3>1. r[p] = <<n, m>> /\ p = <<n + 1, 0>> /\ n + 1 # 1
        BY <1>8, <1>13, <1>16, <2>1
      <3> QED BY <1>9, <3>1
    <2>2. CASE p # new
      BY <1>16, <2>2
    <2> QED BY <2>1, <2>2
  <1>18. Cardinality(Holders) <= capacity' - 1 /\ capacity' \in Nat
    BY <1>1, RoomFacts DEF AtEntry, Running
  <1>19. (OneOwner /\ OneName /\ LiveHeld /\ Room)' /\ SameStores
    BY <1>1, <1>16, <1>17, <1>18, Relocated
  <1>20. Bottom' /\ LookupPassed'
    <2>1. Bottom'
      BY <1>1, <1>2, <1>6, <1>7, BottomPush DEF OInv, MInv, Owned
    <2>2. Len(frames') = n + 1 /\ frames'[n + 1] = g
      BY <1>1, <1>6, <1>7, <1>8, PushShape DEF OInv, MInv
    <2>3. Top' = g
      BY <2>2 DEF Top
    <2> QED BY <1>6, <2>1, <2>3, NoLookup
  <1>21. SizeZero'
    BY <1>1 DEF OInv, Owned, SizeZero
  <1> QED BY <1>1, <1>19, <1>20, <1>21 DEF OInv, Owned

-----------------------------------------------------------------------------
(* Returning and looking up *)

LEMMA Returns ==
  ASSUME OInv, frames # <<>>, Top.fn # "emplace", \A i \in Nat : ~FrameHolds(Top, i),
         frames' = Return, UNCHANGED <<capacity, size, buckets, heap, status>>, MInv'
  PROVE  OInv' /\ SameStores
PROOF
  <1>1. Holders' = Holders /\ \A p \in Holders : EntryOf(p)' = EntryOf(p)
    BY PopPlacesKept DEF OInv, MInv
  <1>2. Cardinality(Holders) <= capacity - 1
    BY RoomFacts DEF AtEntry
  <1>3. (OneOwner /\ OneName /\ LiveHeld /\ SizeZero /\ Room)' /\ SameStores
    BY <1>1, <1>2, StaysPut
  <1>4. Bottom' /\ LookupPassed'
    BY StoreReturns
  <1> QED BY <1>3, <1>4 DEF OInv, Owned

LEMMA OResizeDone ==
  ASSUME OInv, ResizeDone
  PROVE  OInv' /\ SameStores
PROOF
  <1>1. /\ Running("resize") /\ Top.i = Top.len /\ frames' = Return
        /\ UNCHANGED <<capacity, size, buckets, heap, ret, status>> /\ MInv'
    BY MResizeDone DEF OInv, ResizeDone
  <1>2. frames # <<>> /\ Top.fn = "resize" /\ Top.len \in Nat
    BY <1>1, ResizeTop DEF OInv
  <1>3. \A i \in Nat : ~FrameHolds(Top, i)
    BY <1>1, <1>2 DEF FrameHolds
  <1> QED BY <1>1, <1>2, <1>3, Returns

LEMMA LookupReturns ==
  ASSUME OInv, Running("lookup"), frames' = Return, UNCHANGED <<capacity, size, buckets, heap, status>>, MInv'
  PROVE  OInv' /\ SameStores
PROOF
  <1>1. frames # <<>> /\ Top.fn = "lookup"
    BY DEF Running
  <1>2. \A i \in Nat : ~FrameHolds(Top, i)
    BY <1>1 DEF FrameHolds
  <1> QED BY <1>1, <1>2, Returns

LEMMA OLookupNext ==
  ASSUME OInv, LookupNext
  PROVE  OInv' /\ SameStores
PROOF
  <1>1. /\ Running("lookup") /\ buckets[Top.index] # NULL /\ buckets[Top.index].key # Top.key
        /\ frames' = SetTop([Top EXCEPT !.index = NextIndex(@)])
        /\ UNCHANGED <<capacity, size, buckets, heap, ret, status>> /\ MInv'
    BY MLookupNext DEF OInv, LookupNext
  <1>2. /\ frames # <<>> /\ Top \in LookupFrames /\ Top.key \in Keys /\ Top.index \in 0 .. capacity - 1
        /\ Top.fn = "lookup"
    BY <1>1, LookupTop DEF OInv
  <1>3. PICK m \in Nat : m = NextIndex(Top.index)
    BY <1>2, RoomFacts, NextIndexIs
  <1>4. PICK t \in LookupFrames : t = Top
    BY <1>2
  <1>5. PICK x : x = [t EXCEPT !.index = m]
    OBVIOUS
  <1>6. x \in AnyFrame /\ x.fn = "lookup" /\ x.key = t.key /\ x.index = m
    BY <1>5 DEF LookupFrames, AnyFrame
  <1>7. frames' = SetTop(x)
    BY <1>1, <1>3, <1>4, <1>5
  <1>8. Holders' = Holders /\ \A p \in Holders : EntryOf(p)' = EntryOf(p)
    <2>1. \A i \in Nat : ~FrameHolds(x, i) /\ ~FrameHolds(Top, i)
      BY <1>2, <1>6 DEF FrameHolds
    <2> QED BY <1>1, <1>2, <1>6, <1>7, <2>1, TopPlacesKept DEF OInv, MInv
  <1>9. Cardinality(Holders) <= capacity - 1
    BY <1>2, RoomFacts DEF AtEntry
  <1>10. (OneOwner /\ OneName /\ LiveHeld /\ SizeZero /\ Room)' /\ SameStores
    BY <1>1, <1>8, <1>9, StaysPut
  <1>11. Bottom'
    BY <1>2, <1>6, <1>7, BottomSet DEF OInv, MInv, Owned
  <1>12. LookupPassed'
    <2>1. Len(frames') = Len(frames) /\ frames'[Len(frames)] = x
      BY <1>2, <1>6, <1>7, SetShape DEF OInv, MInv
    <2>2. Top' = x
      BY <2>1 DEF Top
    <2>3. Home(Top.key) \in 0 .. capacity - 1
      BY <1>2, RoomFacts, HomeInRange
    <2>4. Path(Home(Top.key), NextIndex(Top.index)) \subseteq Path(Home(Top.key), Top.index) \cup {Top.index}
      BY <1>2, <2>3, RoomFacts, PathNext
    <2>5. Passed(Top)
      BY <1>2 DEF OInv, LookupPassed
    <2>6. Passed(x)
      BY <1>1, <1>3, <1>4, <1>6, <2>4, <2>5 DEF Passed
    <2>7. Path(Home(x.key), x.index)' = Path(Home(x.key), x.index)
      BY <1>1 DEF Path, Home
    <2>8. Passed(x)'
      BY <1>1, <2>6, <2>7 DEF Passed
    <2> QED BY <2>2, <2>8 DEF LookupPassed, Passed
  <1> QED BY <1>1, <1>10, <1>11, <1>12 DEF OInv, Owned

LEMMA OLookupMiss ==
  ASSUME OInv, LookupMiss
  PROVE  OInv' /\ SameStores
BY MLookupMiss, LookupReturns DEF OInv, LookupMiss

LEMMA OLookupHit ==
  ASSUME OInv, LookupHit
  PROVE  OInv' /\ SameStores
BY MLookupHit, LookupReturns DEF OInv, LookupHit

LEMMA ONext == OInv /\ [Next]_vars => OInv'
BY OCallEmplace, OCallLookup, OCallFree, OGrow, OStartProbe, OOverwrite, OInsert, OProbeNext,
   OResizeSkip, OResizeMove, OResizeDone, OLookupMiss, OLookupHit, OLookupNext, OStutter
   DEF Next, Step

-----------------------------------------------------------------------------
(* What the callers see *)

LEMMA HeldIs ==
  ASSUME OInv, NEW e \in Entry
  PROVE  Held(e) <=> Stores(e)
PROOF
  <1>1. DOMAIN buckets = 0 .. capacity - 1 /\ DOMAIN frames = 1 .. Len(frames) /\ Len(frames) \in Nat
    BY DEF OInv, MInv, Table, Array, Stack
  <1>2. ASSUME NEW i \in DOMAIN buckets, buckets[i] = e
        PROVE  Stores(e)
    <2>1. i \in Nat /\ i \in 0 .. capacity - 1
      BY <1>1, RoomFacts
    <2>2. Holds(0, i) /\ EntryAt(0, i) = e
      BY <1>2, <2>1, EntryNotNull DEF Holds, EntryAt
    <2>3. <<0, i>> \in Holders /\ EntryOf(<<0, i>>) = e
      BY <2>1, <2>2, HolderIs
    <2> QED BY <2>3 DEF Stores
  <1>3. ASSUME NEW d \in DOMAIN frames, Waiting(d, e)
        PROVE  Stores(e)
    <2>1. d \in Nat /\ d # 0 /\ d \in 1 .. Len(frames)
      BY <1>1
    <2>2. frames[d].fn = "resize" /\ frames[d].i \in Nat
      BY <1>3, <2>1 DEF Waiting, OInv, MInv, Stack, Frame
    <2>3. PICK i \in frames[d].i .. frames[d].len - 1 : frames[d].old[i] = e
      BY <1>3 DEF Waiting
    <2>4. i \in Nat
      BY <2>2, <2>3
    <2>5. Holds(d, i) /\ EntryAt(d, i) = e
      BY <2>1, <2>2, <2>3, EntryNotNull DEF Holds, EntryAt, FrameHolds, FrameEntry
    <2>6. <<d, i>> \in Holders /\ EntryOf(<<d, i>>) = e
      BY <2>1, <2>4, <2>5, HolderIs
    <2>7. d # 1
      BY <2>1, <2>2 DEF OInv, Owned, Bottom
    <2> QED BY <2>6, <2>7 DEF Stores
  <1>4. ASSUME NEW d \in DOMAIN frames, InFlight(d, e)
        PROVE  Stores(e)
    <2>1. d \in Nat /\ d # 0 /\ d \in 1 .. Len(frames) /\ d # 1
      BY <1>1, <1>4 DEF InFlight
    <2>2. frames[d].fn = "emplace" /\ e = [key |-> frames[d].key, val |-> frames[d].val]
      BY <1>4 DEF InFlight, Entry
    <2>3. Holds(d, 0) /\ EntryAt(d, 0) = e
      BY <2>1, <2>2 DEF Holds, EntryAt, FrameHolds, FrameEntry
    <2>4. <<d, 0>> \in Holders /\ EntryOf(<<d, 0>>) = e
      BY <2>1, <2>3, HolderIs
    <2> QED BY <2>1, <2>4 DEF Stores
  <1>5. ASSUME NEW p \in Holders, p[1] # 1, EntryOf(p) = e
        PROVE  Held(e)
    <2>1. PICK d \in Nat, i \in Nat : p = <<d, i>> /\ Holds(d, i) /\ EntryAt(d, i) = e
      BY <1>5 DEF Holders, EntryOf
    <2>2. CASE d = 0
      <3>1. i \in DOMAIN buckets /\ buckets[i] = e
        BY <1>1, <2>1, <2>2 DEF Holds, EntryAt
      <3> QED BY <3>1 DEF Held, Stored
    <2>3. CASE d # 0
      <3>1. d \in DOMAIN frames /\ FrameHolds(frames[d], i) /\ FrameEntry(frames[d], i) = e /\ d > 1
        BY <1>1, <1>5, <2>1, <2>3 DEF Holds, EntryAt
      <3>2. CASE frames[d].fn = "resize"
        BY <3>1, <3>2 DEF FrameHolds, FrameEntry, Held, Waiting
      <3>3. CASE frames[d].fn # "resize"
        BY <3>1, <3>3 DEF FrameHolds, FrameEntry, Held, InFlight
      <3> QED BY <3>2, <3>3
    <2> QED BY <2>2, <2>3
  <1> QED BY <1>2, <1>3, <1>4, <1>5 DEF Held, Stored, Stores

\* A name has one information, and it is what the abstract map gives for it.
StoresOnce ==
  \A k \in Keys : \A v, w \in Infos :
    Stores([key |-> k, val |-> v]) /\ Stores([key |-> k, val |-> w]) => v = w

ContentsGives ==
  \A k \in Keys :
    /\ \A v \in Infos : Stores([key |-> k, val |-> v]) => Contents[k] = v
    /\ (\A v \in Infos : ~Stores([key |-> k, val |-> v])) => Contents[k] = NULL

LEMMA ContentsIs == OInv => StoresOnce /\ ContentsGives
PROOF
  <1> SUFFICES ASSUME OInv, NEW k \in Keys
               PROVE  /\ \A v, w \in Infos : Stores([key |-> k, val |-> v]) /\ Stores([key |-> k, val |-> w]) => v = w
                      /\ \A v \in Infos : Stores([key |-> k, val |-> v]) => Contents[k] = v
                      /\ (\A v \in Infos : ~Stores([key |-> k, val |-> v])) => Contents[k] = NULL
    BY DEF StoresOnce, ContentsGives
  <1>1. ASSUME NEW v \in Infos
        PROVE  Held([key |-> k, val |-> v]) <=> Stores([key |-> k, val |-> v])
    <2>1. [key |-> k, val |-> v] \in Entry
      BY DEF Entry
    <2> QED BY <2>1, HeldIs
  <1>2. ASSUME NEW v \in Infos, NEW w \in Infos,
               Stores([key |-> k, val |-> v]), Stores([key |-> k, val |-> w])
        PROVE  v = w
    <2>1. PICK p \in Holders : p[1] # 1 /\ EntryOf(p) = [key |-> k, val |-> v]
      BY <1>2 DEF Stores
    <2>2. PICK q \in Holders : q[1] # 1 /\ EntryOf(q) = [key |-> k, val |-> w]
      BY <1>2 DEF Stores
    <2>3. EntryOf(p).key = EntryOf(q).key
      BY <2>1, <2>2
    <2>4. p = q
      BY <2>1, <2>2, <2>3 DEF OInv, Owned, OneName
    <2> QED BY <2>1, <2>2, <2>4
  <1>3. Contents[k] = IF \E v \in Infos : Held([key |-> k, val |-> v])
                      THEN CHOOSE v \in Infos : Held([key |-> k, val |-> v])
                      ELSE NULL
    BY DEF Contents
  <1>4. ASSUME NEW v \in Infos, Stores([key |-> k, val |-> v])
        PROVE  Contents[k] = v
    <2>1. \E w \in Infos : Held([key |-> k, val |-> w])
      BY <1>1, <1>4
    <2>2. Contents[k] \in Infos /\ Held([key |-> k, val |-> Contents[k]])
      BY <1>3, <2>1
    <2> QED BY <1>1, <1>2, <1>4, <2>2
  <1>5. ASSUME \A v \in Infos : ~Stores([key |-> k, val |-> v])
        PROVE  Contents[k] = NULL
    BY <1>1, <1>3, <1>5
  <1> QED BY <1>2, <1>4, <1>5

LEMMA ContentsNext == OInv' => StoresOnce' /\ ContentsGives'
BY ContentsIs, PTL

LEMMA SameContents ==
  ASSUME OInv, OInv', SameStores
  PROVE  Contents' = Contents
PROOF
  <1>1. ASSUME NEW k \in Keys
        PROVE  Contents'[k] = Contents[k]
    <2>1. ASSUME NEW v \in Infos
          PROVE  Stores([key |-> k, val |-> v])' <=> Stores([key |-> k, val |-> v])
      <3>1. PICK e \in Entry : e = [key |-> k, val |-> v]
        BY DEF Entry
      <3>2. Stores(e)' <=> Stores(e)
        BY DEF SameStores
      <3> QED BY <3>1, <3>2
    <2>2. CASE \E v \in Infos : Stores([key |-> k, val |-> v])
      <3>1. PICK v \in Infos : Stores([key |-> k, val |-> v])
        BY <2>2
      <3>2. Contents[k] = v
        BY <3>1, ContentsIs DEF ContentsGives
      <3>3. Contents'[k] = v
        BY <2>1, <3>1, ContentsNext DEF ContentsGives
      <3> QED BY <3>2, <3>3
    <2>3. CASE \A v \in Infos : ~Stores([key |-> k, val |-> v])
      <3>1. Contents[k] = NULL
        BY <2>3, ContentsIs DEF ContentsGives
      <3>2. Contents'[k] = NULL
        BY <2>1, <2>3, ContentsNext DEF ContentsGives
      <3> QED BY <3>1, <3>2
    <2> QED BY <2>2, <2>3
  <1>2. Contents = [k \in Keys |-> Contents[k]] /\ Contents' = [k \in Keys |-> Contents'[k]]
    BY DEF Contents
  <1> QED BY <1>1, <1>2

LEMMA PutContents ==
  ASSUME OInv, OInv', NEW k \in Keys, NEW v \in Infos, PutStores(k, v)
  PROVE  Contents' = [Contents EXCEPT ![k] = v]
PROOF
  <1>1. ASSUME NEW j \in Keys, NEW w \in Infos
        PROVE  Stores([key |-> j, val |-> w])' <=> IF j = k THEN w = v ELSE Stores([key |-> j, val |-> w])
    <2>1. PICK e \in Entry : e = [key |-> j, val |-> w]
      BY DEF Entry
    <2>2. Stores(e)' <=> IF e.key = k THEN e.val = v ELSE Stores(e)
      BY DEF PutStores
    <2>3. e.key = j /\ e.val = w
      BY <2>1
    <2> QED BY <2>1, <2>2, <2>3
  <1>2. Contents'[k] = v
    <2>1. Stores([key |-> k, val |-> v])'
      BY <1>1
    <2> QED BY <2>1, ContentsNext DEF ContentsGives
  <1>3. ASSUME NEW j \in Keys, j # k
        PROVE  Contents'[j] = Contents[j]
    <2>1. CASE \E w \in Infos : Stores([key |-> j, val |-> w])
      <3>1. PICK w \in Infos : Stores([key |-> j, val |-> w])
        BY <2>1
      <3>2. Contents[j] = w
        BY <3>1, ContentsIs DEF ContentsGives
      <3>3. Contents'[j] = w
        BY <1>1, <1>3, <3>1, ContentsNext DEF ContentsGives
      <3> QED BY <3>2, <3>3
    <2>2. CASE \A w \in Infos : ~Stores([key |-> j, val |-> w])
      <3>1. Contents[j] = NULL
        BY <2>2, ContentsIs DEF ContentsGives
      <3>2. Contents'[j] = NULL
        BY <1>1, <1>3, <2>2, ContentsNext DEF ContentsGives
      <3> QED BY <3>1, <3>2
    <2> QED BY <2>1, <2>2
  <1>4. DOMAIN Contents = Keys /\ Contents' = [j \in Keys |-> Contents'[j]]
    BY DEF Contents
  <1>5. [Contents EXCEPT ![k] = v] = [j \in Keys |-> IF j = k THEN v ELSE Contents[j]]
    BY <1>4
  <1> QED BY <1>2, <1>3, <1>4, <1>5

\* During a lookup every entry is in a bucket.
LEMMA LookupHolders ==
  ASSUME OInv, Running("lookup"), NEW e, Stores(e)
  PROVE  \E i \in 0 .. capacity - 1 : buckets[i] # NULL /\ buckets[i] = e
PROOF
  <1>1. PICK p \in Holders : p[1] # 1 /\ EntryOf(p) = e
    BY DEF Stores
  <1>2. PICK d \in Nat, i \in Nat : p = <<d, i>> /\ Holds(d, i)
    BY DEF Holders
  <1>3. Len(frames) = 1
    <2>1. frames # <<>> /\ Len(frames) \in 1 .. Len(frames) /\ frames[Len(frames)].fn = "lookup"
      BY TopFacts DEF Running, Top, OInv, MInv
    <2> QED BY <2>1 DEF OInv, Owned, Bottom
  <1>4. d = 0
    BY <1>1, <1>2, <1>3 DEF Holds
  <1>5. EntryOf(p) = buckets[i]
    BY <1>2, <1>4, HolderIs DEF EntryAt
  <1> QED BY <1>1, <1>2, <1>3, <1>4, <1>5 DEF Holds

LEMMA HitAnswers ==
  ASSUME OInv, LookupHit
  PROVE  Contents[Top.key] = buckets[Top.index].val
PROOF
  <1>1. /\ Top.key \in Keys /\ Top.index \in 0 .. capacity - 1
        /\ buckets[Top.index] # NULL /\ buckets[Top.index].key = Top.key
    BY LookupTop DEF OInv, LookupHit
  <1>2. PICK i \in 0 .. capacity - 1, k \in Keys : i = Top.index /\ k = Top.key
    BY <1>1
  <1>3. buckets[i] \in Entry /\ buckets[i].val \in Infos
    BY <1>1, <1>2, BucketFacts DEF OInv, MInv
  <1>4. buckets[i] = [key |-> k, val |-> buckets[i].val]
    BY <1>1, <1>2, <1>3 DEF Entry
  <1>5. Stores(buckets[i])
    <2>1. DOMAIN buckets = 0 .. capacity - 1
      BY DEF OInv, MInv, Table, Array
    <2>2. Held(buckets[i])
      BY <2>1 DEF Held, Stored
    <2> QED BY <1>3, <2>2, HeldIs
  <1>6. PICK v \in Infos : v = buckets[i].val
    BY <1>3
  <1>7. Stores([key |-> k, val |-> v])
    BY <1>4, <1>5, <1>6
  <1> QED BY <1>2, <1>6, <1>7, ContentsIs DEF ContentsGives

\* A name that is stored lies before the first free bucket of its path.
LEMMA MissAnswers ==
  ASSUME OInv, LookupMiss
  PROVE  Contents[Top.key] = NULL
PROOF
  <1>1. /\ Running("lookup") /\ Top.key \in Keys /\ Top.index \in 0 .. capacity - 1
        /\ buckets[Top.index] # NULL =>
             buckets[Top.index].key # Top.key /\ NextIndex(Top.index) = Home(Top.key)
        /\ Passed(Top)
    BY LookupTop DEF OInv, LookupMiss, LookupPassed, Running
  <1>2. PICK i \in 0 .. capacity - 1, k \in Keys : i = Top.index /\ k = Top.key
    BY <1>1
  <1>3. capacity \in Primes /\ Home(k) \in 0 .. capacity - 1 /\ DOMAIN buckets = 0 .. capacity - 1
    BY RoomFacts, HomeInRange DEF OInv, MInv, Table, Array
  <1>4. \A j \in Path(Home(k), i) : buckets[j] # NULL /\ buckets[j].key # k
    BY <1>1, <1>2 DEF Passed
  <1>5. ASSUME NEW j \in 0 .. capacity - 1, buckets[j] # NULL, buckets[j].key = k
        PROVE  FALSE
    <2>1. j # i
      BY <1>1, <1>2, <1>5
    <2>2. j \notin Path(Home(k), i)
      BY <1>4, <1>5
    <2>3. CASE buckets[i] = NULL
      <3>1. i \in Path(Home(k), j)
        BY <1>3, <2>1, <2>2, PathTotal
      <3>2. buckets[i] # NULL
        BY <1>3, <1>5, <3>1 DEF OInv, MInv, ProbePathsUnbroken
      <3> QED BY <2>3, <3>2
    <2>4. CASE buckets[i] # NULL
      <3>1. NextIndex(i) = Home(k)
        BY <1>1, <1>2, <2>4
      <3> QED BY <1>3, <2>1, <2>2, <3>1, PathFull
    <2> QED BY <2>3, <2>4
  <1>6. ASSUME NEW v \in Infos PROVE ~Stores([key |-> k, val |-> v])
    <2> SUFFICES ASSUME Stores([key |-> k, val |-> v]) PROVE FALSE
      OBVIOUS
    <2>1. PICK e : e = [key |-> k, val |-> v]
      OBVIOUS
    <2>2. PICK j \in 0 .. capacity - 1 : buckets[j] # NULL /\ buckets[j] = e
      BY <1>1, <2>1, LookupHolders
    <2> QED BY <1>5, <2>1, <2>2
  <1> QED BY <1>2, <1>6, ContentsIs DEF ContentsGives

-----------------------------------------------------------------------------
(* Refinement *)

LEMMA InitRefines == Init => Abstract!Init
PROOF
  <1> SUFFICES ASSUME Init PROVE Abstract!Init
    OBVIOUS
  <1>1. OInv
    BY OInit
  <1>2. /\ frames = <<>> /\ status = "running" /\ ret = NULL
        /\ \A i \in 0 .. capacity - 1 : buckets[i] = NULL
    BY DEF Init
  <1>3. Holders = {}
    BY <1>2 DEF Holders, Holds
  <1>4. \A k \in Keys : Contents[k] = NULL
    BY <1>1, <1>3, ContentsIs DEF ContentsGives, Stores
  <1>5. Contents = [k \in Keys |-> NULL]
    BY <1>4 DEF Contents
  <1> QED BY <1>2, <1>5 DEF Abstract!Init

\* Steps inside emplace and resize, and calls, are invisible.
LEMMA InvisibleStep ==
  ASSUME OInv, OInv', SameStores, UNCHANGED <<ret, status>>
  PROVE  UNCHANGED Abstract!vars
BY SameContents DEF Abstract!vars

LEMMA PutStep ==
  ASSUME OInv, OInv', At("probe"), PutStores(Top.key, Top.val), UNCHANGED <<ret, status>>
  PROVE  Abstract!Next
PROOF
  <1>1. Top.key \in Keys /\ Top.val \in Infos /\ status = "running"
    BY EmplaceTop DEF OInv, At, Running
  <1>2. PICK k \in Keys, v \in Infos : k = Top.key /\ v = Top.val
    BY <1>1
  <1>3. Contents' = [Contents EXCEPT ![k] = v]
    BY <1>2, PutContents
  <1>4. Abstract!Put(k, v)
    BY <1>1, <1>3 DEF Abstract!Put
  <1> QED BY <1>4 DEF Abstract!Next

LEMMA GetStep ==
  ASSUME OInv, OInv', SameStores, Running("lookup"), UNCHANGED status,
         NEW v, Contents[Top.key] = v, ret' = [key |-> Top.key, val |-> v]
  PROVE  Abstract!Next
PROOF
  <1>1. PICK k \in Keys : k = Top.key
    BY LookupTop DEF OInv
  <1>2. status = "running" /\ Contents' = Contents
    BY SameContents DEF Running
  <1>3. Abstract!Get(k)
    BY <1>1, <1>2 DEF Abstract!Get
  <1> QED BY <1>3 DEF Abstract!Next

LEMMA StepRefines == OInv /\ [Next]_vars => [Abstract!Next]_(Abstract!vars)
PROOF
  <1> SUFFICES ASSUME OInv, [Next]_vars
               PROVE  Abstract!Next \/ UNCHANGED Abstract!vars
    OBVIOUS
  <1>0. OInv'
    BY ONext
  <1>1. CASE \E k \in Keys, v \in Infos : CallEmplace(k, v)
    BY <1>0, <1>1, OCallEmplace, InvisibleStep DEF CallEmplace
  <1>2. CASE \E k \in Keys : CallLookup(k)
    BY <1>0, <1>2, OCallLookup, InvisibleStep DEF CallLookup
  <1>3. CASE CallFree
    <2>1. \A e \in Entry : ~Stores(e)'
      BY <1>3, OCallFree
    <2>2. ASSUME NEW k \in Keys
          PROVE  Contents'[k] = NULL
      <3>1. ASSUME NEW v \in Infos PROVE ~Stores([key |-> k, val |-> v])'
        <4>1. PICK e \in Entry : e = [key |-> k, val |-> v]
          BY DEF Entry
        <4>2. ~Stores(e)'
          BY <2>1
        <4> QED BY <4>1, <4>2
      <3> QED BY <1>0, <3>1, ContentsNext DEF ContentsGives
    <2>3. Contents' = [k \in Keys |-> NULL]
      <3>1. Contents' = [k \in Keys |-> Contents'[k]]
        BY DEF Contents
      <3> QED BY <2>2, <3>1
    <2>4. Abstract!Free
      BY <1>3, <2>3 DEF CallFree, Idle, Abstract!Free
    <2> QED BY <2>4 DEF Abstract!Next
  <1>4. CASE Grow
    BY <1>0, <1>4, OGrow, InvisibleStep DEF Grow, GrowTo
  <1>5. CASE StartProbe
    BY <1>0, <1>5, OStartProbe, InvisibleStep DEF StartProbe
  <1>6. CASE Overwrite
    BY <1>0, <1>6, OOverwrite, PutStep DEF Overwrite
  <1>7. CASE Insert
    <2>1. CASE Len(frames) = 1
      BY <1>0, <1>7, <2>1, OInsert, PutStep DEF Insert
    <2>2. CASE Len(frames) # 1
      BY <1>0, <1>7, <2>2, OInsert, InvisibleStep DEF Insert
    <2> QED BY <2>1, <2>2
  <1>8. CASE ProbeNext
    BY <1>0, <1>8, OProbeNext, InvisibleStep DEF ProbeNext
  <1>9. CASE ResizeSkip
    BY <1>0, <1>9, OResizeSkip, InvisibleStep DEF ResizeSkip
  <1>10. CASE ResizeMove
    BY <1>0, <1>10, OResizeMove, InvisibleStep DEF ResizeMove
  <1>11. CASE ResizeDone
    BY <1>0, <1>11, OResizeDone, InvisibleStep DEF ResizeDone
  <1>12. CASE LookupMiss
    BY <1>0, <1>12, OLookupMiss, MissAnswers, GetStep DEF LookupMiss
  <1>13. CASE LookupHit
    BY <1>0, <1>13, OLookupHit, HitAnswers, GetStep DEF LookupHit
  <1>14. CASE LookupNext
    BY <1>0, <1>14, OLookupNext, InvisibleStep DEF LookupNext
  <1>15. CASE UNCHANGED vars
    BY <1>0, <1>15, OStutter, InvisibleStep DEF vars
  <1> QED BY <1>1, <1>2, <1>3, <1>4, <1>5, <1>6, <1>7, <1>8, <1>9, <1>10, <1>11, <1>12, <1>13, <1>14, <1>15
          DEF Next, Step

-----------------------------------------------------------------------------
(* Theorems *)

\* Every entry stays in exactly one place, and there is room for all of them:
\* true of the empty table (OInit), and preserved by every call, every probe,
\* every turn of the copying loop and every return (ONext).
THEOREM OwnershipInvariant == Spec => []OInv
BY OInit, ONext, PTL DEF Spec

\* symbol_info_free is called once for every information: when its entry is
\* replaced or the table is freed, never because the table grows.
THEOREM TableOwnsInfos == Spec => []InfosOwned
PROOF
  <1>1. OInv => InfosOwned
    <2> SUFFICES ASSUME OInv PROVE InfosOwned
      OBVIOUS
    <2>1. \A v \in Infos : heap[v] # "corrupt"
      BY DEF OInv, Owned, LiveHeld
    <2>2. ASSUME NEW e \in Entry, Held(e)
          PROVE  heap[e.val] = "live"
      <3>1. \E p \in Holders : EntryOf(p).val = e.val
        BY <2>2, HeldIs DEF Stores
      <3>2. e.val \in Infos
        BY DEF Entry
      <3> QED BY <3>1, <3>2 DEF OInv, Owned, LiveHeld
    <2>3. ASSUME frames = <<>>, NEW v \in Infos, heap[v] = "live"
          PROVE  \E i \in DOMAIN buckets : buckets[i] # NULL /\ buckets[i].val = v
      <3>1. PICK p \in Holders : EntryOf(p).val = v
        BY <2>3 DEF OInv, Owned, LiveHeld
      <3>2. PICK d \in Nat, i \in Nat : p = <<d, i>>
        BY DEF Holders
      <3>3. d = 0 /\ i \in 0 .. capacity - 1 /\ buckets[i] # NULL
        BY <2>3, <3>2, IdleHolders
      <3>4. EntryOf(p) = buckets[i]
        BY <3>2, <3>3, HolderIs DEF EntryAt
      <3>5. DOMAIN buckets = 0 .. capacity - 1
        BY DEF OInv, MInv, Table, Array
      <3> QED BY <3>1, <3>3, <3>4, <3>5
    <2> QED BY <2>1, <2>2, <2>3 DEF InfosOwned
  <1> QED BY <1>1, OwnershipInvariant, PTL

\* The exit "Symbol map is full" of symbol_map_emplace is dead code: growing
\* always leaves a bucket more than there are entries, nested growth included.
THEOREM TableNeverFull == Spec => []NeverFull
PROOF
  <1>1. OInv => NeverFull
    <2> SUFFICES ASSUME OInv PROVE NeverFull
      OBVIOUS
    <2>1. DOMAIN buckets = 0 .. capacity - 1
      BY DEF OInv, MInv, Table, Array
    <2> QED BY <2>1, FreeBucket DEF OInv, NeverFull
  <1> QED BY <1>1, OwnershipInvariant, PTL

\* The hash table is a map: a lookup answers what was last emplaced under the
\* name, and nothing its callers can see changes while it probes or grows.
THEOREM TableIsNameMap == Spec => ImplementsNameMap
BY InitRefines, StepRefines, OwnershipInvariant, PTL DEF Spec, ImplementsNameMap, Abstract!Spec

\* All of this holds of the table that searches its capacities with the loops of
\* find_next_prime.
THEOREM SearchingTableRight ==
  SearchingSpec =>
    /\ [](TypeOK /\ ProbePathsUnbroken /\ InfosOwned /\ NeverFull /\ LeastPrime)
    /\ ImplementsNameMap
PROOF
  <1>1. SearchingSpec => Spec
    BY SearchingTable DEF ImplementsTable
  <1> QED BY <1>1, SymbolMapTypeCorrect, ProbingSound, TableOwnsInfos, TableNeverFull, TableIsNameMap,
             NextPrimeFound, PTL
=============================================================================
