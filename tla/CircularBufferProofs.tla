------------------------ MODULE CircularBufferProofs ------------------------
(***************************************************************************)
(* The rings, for any number of rings, any size of ring and of pool.       *)
(*                                                                         *)
(* With the lemmas of RingIndicesProofs the window of a ring is a Span     *)
(* that grows at one end and shrinks at the other.  A lemma for each       *)
(* operation then says what it does to the pool and to the keys a ring     *)
(* owns, and the rest of the proofs is about these sets.                   *)
(***************************************************************************)
EXTENDS CircularBuffer, RingIndicesProofs, SequenceTheorems, TLAPS

-----------------------------------------------------------------------------
(* What an operation does to the pool and to the keys of the rings.  None  *)
(* of these lemmas assumes that nobody reads into the ring.                *)

Ownership == TypeOK /\ EntriesOwnBuffers

(* Nothing happens to ring s.                                              *)
Untouched(s) == /\ s \in live' <=> s \in live
                /\ buffers'[s] = buffers[s]
                /\ data_sizes'[s] = data_sizes[s]
                /\ last_sent'[s] = last_sent[s]
                /\ next_to_be_received'[s] = next_to_be_received[s]
                /\ dest'[s] = dest[s]

OthersUntouched(r) == \A s \in Rings \ {r} : Untouched(s)

Keeps == free' = free /\ \A s \in Rings : KeysOf(s)' = KeysOf(s)

KeysElsewhere(r) == \A s \in Rings \ {r} : KeysOf(s)' = KeysOf(s)

Takes(r, b) == /\ b \in free
               /\ free' = free \ {b}
               /\ KeysOf(r)' = KeysOf(r) \union {b}
               /\ KeysElsewhere(r)

Returns(r, b) == /\ b \in KeysOf(r)
                 /\ free' = free \union {b}
                 /\ KeysOf(r)' = KeysOf(r) \ {b}
                 /\ KeysElsewhere(r)

Abandons(r) == /\ r \in live /\ r \notin live'
               /\ free' = free
               /\ KeysOf(r)' = {}
               /\ KeysElsewhere(r)

LEMMA Windows ==
    ASSUME NEW r \in Rings
    PROVE  /\ TypeOK => Window(r) = Span(last_sent[r], next_to_be_received[r])
           /\ TypeOK' => Window(r)' = Span(last_sent'[r], next_to_be_received'[r])
BY WindowSpan DEF TypeOK, Window, Length, Entry

LEMMA UntouchedKeys ==
    ASSUME NEW s, Untouched(s)
    PROVE  /\ Window(s)' = Window(s)
           /\ Length(s)' = Length(s)
           /\ KeysOf(s)' = KeysOf(s)
<1>1. Length(s)' = Length(s)
  BY DEF Untouched, Length
<1>2. Window(s)' = Window(s)
  BY <1>1 DEF Untouched, Window, Entry
<1>3. KeysOf(s)' = KeysOf(s)
  BY <1>2 DEF Untouched, KeysOf
<1> QED
  BY <1>1, <1>2, <1>3

(* An entry of a window names an allocated buffer of the pool.             *)
LEMMA NamedKeys ==
    ASSUME Ownership, NEW r \in live, NEW i \in Window(r)
    PROVE  /\ buffers[r][i] \in KeysOf(r)
           /\ buffers[r][i] \in Keys \ free
           /\ i \in Entries
<1>1. r \in Rings
  BY DEF Ownership, TypeOK
<1>2. buffers[r][i] \in KeysOf(r)
  BY DEF KeysOf
<1>3. buffers[r][i] \in Keys \ free
  BY <1>1, <1>2 DEF Ownership, EntriesOwnBuffers, Owned
<1>4. i \in Entries
  BY <1>1, Windows DEF Ownership, Span
<1> QED
  BY <1>2, <1>3, <1>4

(* Disjointness is a matter of the sets of keys alone.                     *)
Disjoint == /\ \A r, s \in Rings : r # s => KeysOf(r) \intersect KeysOf(s) = {}
            /\ \A r \in Rings : KeysOf(r) \subseteq Keys \ free

Injective == \A r \in live : \A i, j \in Window(r) :
                buffers[r][i] = buffers[r][j] => i = j

LEMMA OwnershipParts ==
    /\ TypeOK => (EntriesOwnBuffers <=> Injective /\ Disjoint)
    /\ TypeOK' => (EntriesOwnBuffers' <=> Injective' /\ Disjoint')
<1>1. ASSUME live \subseteq Rings
      PROVE  EntriesOwnBuffers <=> Injective /\ Disjoint
  <2>1. (\A r, s \in live : r # s => KeysOf(r) \intersect KeysOf(s) = {})
        <=> \A r, s \in Rings : r # s => KeysOf(r) \intersect KeysOf(s) = {}
    BY <1>1 DEF KeysOf
  <2>2. Owned \subseteq Keys \ free <=> \A r \in Rings : KeysOf(r) \subseteq Keys \ free
    BY DEF Owned
  <2> QED
    BY <2>1, <2>2 DEF EntriesOwnBuffers, Injective, Disjoint
<1>2. ASSUME live' \subseteq Rings
      PROVE  EntriesOwnBuffers' <=> Injective' /\ Disjoint'
  <2>1. (\A r, s \in live : r # s => KeysOf(r) \intersect KeysOf(s) = {})'
        <=> (\A r, s \in Rings : r # s => KeysOf(r) \intersect KeysOf(s) = {})'
    BY <1>2 DEF KeysOf
  <2>2. (Owned \subseteq Keys \ free)'
        <=> (\A r \in Rings : KeysOf(r) \subseteq Keys \ free)'
    BY DEF Owned
  <2> QED
    BY <2>1, <2>2 DEF EntriesOwnBuffers, Injective, Disjoint
<1> QED
  BY <1>1, <1>2 DEF TypeOK

LEMMA StaysDisjoint ==
    ASSUME Disjoint, NEW r \in Rings,
           Keeps \/ (\E b \in Keys : Takes(r, b) \/ Returns(r, b)) \/ Abandons(r)
    PROVE  Disjoint'
<1>1. CASE Keeps
  BY <1>1 DEF Keeps, Disjoint, Keys
<1>2. ASSUME NEW b \in Keys, Takes(r, b)
      PROVE  Disjoint'
  <2>1. \A s \in Rings : b \notin KeysOf(s)
    BY <1>2 DEF Takes, Disjoint
  <2>2. \A s \in Rings : KeysOf(s)' = IF s = r THEN KeysOf(s) \union {b} ELSE KeysOf(s)
    BY <1>2 DEF Takes, KeysElsewhere
  <2> QED
    BY <1>2, <2>1, <2>2 DEF Disjoint, Takes, Keys
<1>3. ASSUME NEW b \in Keys, Returns(r, b)
      PROVE  Disjoint'
  <2>1. \A s \in Rings \ {r} : b \notin KeysOf(s)
    BY <1>3 DEF Returns, Disjoint
  <2>2. \A s \in Rings : KeysOf(s)' = IF s = r THEN KeysOf(s) \ {b} ELSE KeysOf(s)
    BY <1>3 DEF Returns, KeysElsewhere
  <2> QED
    BY <1>3, <2>1, <2>2 DEF Disjoint, Returns, Keys
<1>4. CASE Abandons(r)
  <2>1. \A s \in Rings : KeysOf(s)' = IF s = r THEN {} ELSE KeysOf(s)
    BY <1>4 DEF Abandons, KeysElsewhere
  <2> QED
    BY <1>4, <2>1 DEF Disjoint, Abandons, Keys
<1> QED
  BY <1>1, <1>2, <1>3, <1>4

(* An operation on r alone: types, disjoint keys, and injectivity in r.    *)
LEMMA OwnershipFrom ==
    ASSUME Ownership, TypeOK', NEW r \in Rings, OthersUntouched(r),
           Keeps \/ (\E b \in Keys : Takes(r, b) \/ Returns(r, b)) \/ Abandons(r),
           r \in live' => \A i, j \in Window(r)' :
                             buffers'[r][i] = buffers'[r][j] => i = j
    PROVE  Ownership'
<1>1. Injective /\ Disjoint
  BY OwnershipParts DEF Ownership
<1>2. Disjoint'
  BY <1>1, StaysDisjoint
<1>3. ASSUME NEW s \in live', s # r
      PROVE  \A i, j \in Window(s)' : buffers'[s][i] = buffers'[s][j] => i = j
  <2>1. s \in Rings \ {r} /\ Untouched(s)
    BY <1>3 DEF TypeOK, OthersUntouched
  <2>2. Window(s)' = Window(s) /\ s \in live /\ buffers'[s] = buffers[s]
    BY <2>1, <1>3, UntouchedKeys DEF Untouched
  <2> QED
    BY <2>2, <1>1 DEF Injective
<1>4. Injective'
  BY <1>3 DEF Injective
<1> QED
  BY <1>2, <1>4, OwnershipParts DEF Ownership

LEMMA FreshTypes ==
    ASSUME TypeOK, NEW r \in Rings, Fresh(r)
    PROVE  /\ buffers' \in [Rings -> [Entries -> Keys \union {-1, 0}]]
           /\ data_sizes' \in [Rings -> [Entries -> Sizes]]
           /\ last_sent' \in [Rings -> Entries]
           /\ next_to_be_received' \in [Rings -> Entries]
           /\ ret' \in [Rings -> Sizes \union {-2}]
<1>1. -1 \in Sizes /\ 0 \in Sizes
  BY SizeAssumption DEF Sizes
<1>2. 0 \in Entries
  BY CapPositive DEF Entries
<1>3. /\ [i \in Entries |-> -1] \in [Entries -> Keys \union {-1, 0}]
      /\ [i \in Entries |-> -1] \in [Entries -> Sizes]
  BY <1>1
<1> QED
  BY <1>1, <1>2, <1>3 DEF TypeOK, Fresh

LEMMA NewStep ==
    ASSUME Ownership, NEW r \in Rings, r \notin live, new_circular_buffer(r)
    PROVE  /\ Ownership'
           /\ OthersUntouched(r)
           /\ Keeps
           /\ Window(r)' = {}
<1>1. TypeOK'
  BY FreshTypes DEF Ownership, TypeOK, new_circular_buffer
<1>2. OthersUntouched(r)
  BY DEF Ownership, TypeOK, new_circular_buffer, Fresh, OthersUntouched, Untouched
<1>3. last_sent'[r] = 0 /\ next_to_be_received'[r] = 0 /\ 0 \in Entries
  BY CapPositive DEF Ownership, TypeOK, new_circular_buffer, Fresh, Entries
<1>4. Window(r)' = {}
  BY <1>1, <1>3, Windows, EmptySpan
<1>5. KeysOf(r) = {} /\ KeysOf(r)' = {}
  BY <1>4 DEF KeysOf
<1>6. Keeps
  BY <1>2, <1>5, UntouchedKeys DEF Keeps, OthersUntouched, new_circular_buffer
<1>7. Ownership'
  BY <1>1, <1>2, <1>4, <1>6, OwnershipFrom
<1> QED
  BY <1>2, <1>4, <1>6, <1>7

LEMMA FreeStep ==
    ASSUME Ownership, NEW r \in live, free_circular_buffer(r)
    PROVE  /\ Ownership'
           /\ OthersUntouched(r)
           /\ Abandons(r)
<1>0. r \in Rings
  BY DEF Ownership, TypeOK
<1>1. TypeOK'
  BY FreshTypes DEF Ownership, TypeOK, free_circular_buffer
<1>2. OthersUntouched(r)
  BY DEF Ownership, TypeOK, free_circular_buffer, Fresh, OthersUntouched, Untouched
<1>3. r \notin live' /\ KeysOf(r)' = {}
  BY DEF KeysOf, free_circular_buffer
<1>4. Abandons(r)
  BY <1>2, <1>3, UntouchedKeys
  DEF Abandons, KeysElsewhere, OthersUntouched, free_circular_buffer
<1>5. Ownership'
  BY <1>0, <1>1, <1>2, <1>3, <1>4, OwnershipFrom
<1> QED
  BY <1>2, <1>4, <1>5

LEMMA AllocStep ==
    ASSUME Ownership, NEW r \in live, NEW b \in Keys, FeedAlloc(r, b)
    PROVE  /\ Ownership'
           /\ OthersUntouched(r)
           /\ Takes(r, b)
           /\ Window(r)' = Window(r) \union {next_to_be_received[r]}
           /\ next_to_be_received[r] \in Entries \ Window(r)
           /\ LastReceived(r)' = next_to_be_received[r]
           /\ ~is_empty_circular_buffer(r)'
<1> DEFINE n == next_to_be_received[r]
<1>0. r \in Rings /\ b \in free /\ n \in Entries /\ last_sent[r] \in Entries
  BY DEF Ownership, TypeOK, FeedAlloc, alloc_entry
<1>1. TypeOK'
  BY <1>0, Wraps, SizeAssumption
  DEF Ownership, TypeOK, FeedAlloc, alloc_entry, Sizes
<1>2. OthersUntouched(r)
  BY DEF Ownership, TypeOK, FeedAlloc, alloc_entry, OthersUntouched, Untouched
<1>3. /\ circular_increment(n) # last_sent[r]
      /\ next_to_be_received'[r] = circular_increment(n)
      /\ last_sent'[r] = last_sent[r]
  BY <1>0 DEF FeedAlloc, alloc_entry, is_full_circular_buffer, Ownership, TypeOK
<1>4. Window(r)' = Window(r) \union {n} /\ n \in Entries \ Window(r)
  BY <1>0, <1>1, <1>3, Windows, Grows DEF Ownership
<1>5. LastReceived(r)' = n
  BY <1>0, <1>3, Wraps DEF LastReceived, circular_decrement
<1>6. ~is_empty_circular_buffer(r)'
  BY <1>0, <1>3, Grows DEF is_empty_circular_buffer
<1>7. buffers'[r] = [buffers[r] EXCEPT ![n] = b] /\ r \in live'
  BY <1>0 DEF FeedAlloc, alloc_entry, Ownership, TypeOK
<1>8. buffers'[r][n] = b /\ \A i \in Window(r) : buffers'[r][i] = buffers[r][i]
  BY <1>0, <1>4, <1>7, NamedKeys DEF Ownership, TypeOK
<1>9. KeysOf(r)' = KeysOf(r) \union {b}
  BY <1>4, <1>7, <1>8 DEF KeysOf
<1>10. Takes(r, b)
  BY <1>0, <1>2, <1>9, UntouchedKeys
  DEF Takes, KeysElsewhere, OthersUntouched, FeedAlloc, alloc_entry
<1>11. ASSUME NEW i \in Window(r)', NEW j \in Window(r)',
              buffers'[r][i] = buffers'[r][j]
       PROVE  i = j
  <2>1. \A k \in Window(r) : buffers[r][k] # b
    BY <1>0, NamedKeys
  <2> QED
    BY <1>4, <1>8, <1>11, <2>1 DEF Ownership, EntriesOwnBuffers
<1>12. Ownership'
  BY <1>0, <1>1, <1>2, <1>10, <1>11, OwnershipFrom
<1> QED
  BY <1>2, <1>4, <1>5, <1>6, <1>10, <1>12

(* A read into a ring that exists, or that was freed meanwhile.            *)
LEMMA ReadStep ==
    ASSUME Ownership, NEW r \in Rings, NEW n \in Sizes, NEW d \in Data,
           FeedRead(r, n, d)
    PROVE  /\ Ownership'
           /\ OthersUntouched(r)
           /\ Keeps
           /\ Window(r)' = Window(r)
<1>1. LastReceived(r) \in Entries
  BY Wraps DEF Ownership, TypeOK, LastReceived
<1>2. TypeOK'
  BY <1>1 DEF Ownership, TypeOK, FeedRead
<1>3. OthersUntouched(r)
  BY DEF Ownership, TypeOK, FeedRead, OthersUntouched, Untouched
<1>4. \A s \in Rings : Window(s)' = Window(s) /\ KeysOf(s)' = KeysOf(s)
  BY DEF FeedRead, Window, Length, Entry, KeysOf
<1>5. Keeps
  BY <1>4 DEF Keeps, FeedRead
<1>6. \A i, j \in Window(r)' :
         r \in live' /\ buffers'[r][i] = buffers'[r][j] => i = j
  BY <1>4 DEF FeedRead, Ownership, EntriesOwnBuffers
<1>7. Ownership'
  BY <1>2, <1>3, <1>5, <1>6, OwnershipFrom
<1> QED
  BY <1>3, <1>4, <1>5, <1>7

LEMMA SentStep ==
    ASSUME Ownership, NEW r \in live, buffer_has_been_sent(r)
    PROVE  /\ Ownership'
           /\ OthersUntouched(r)
           /\ Returns(r, buffers[r][last_sent[r]])
           /\ last_sent[r] \in Window(r)
           /\ Window(r)' = Window(r) \ {last_sent[r]}
<1> DEFINE l == last_sent[r]
<1>0. r \in Rings /\ l \in Entries /\ next_to_be_received[r] \in Entries
  BY DEF Ownership, TypeOK
<1>1. l # next_to_be_received[r]
  BY DEF buffer_has_been_sent, is_empty_circular_buffer
<1>2. l \in Window(r)
  BY <1>0, <1>1, Windows, Shrinks DEF Ownership
<1>3. buffers[r][l] \in Keys \ free /\ buffers[r][l] \in KeysOf(r)
  BY <1>2, NamedKeys
<1>4. TypeOK'
  BY <1>0, <1>3, Wraps, SizeAssumption
  DEF Ownership, TypeOK, buffer_has_been_sent, Sizes
<1>5. OthersUntouched(r)
  BY DEF Ownership, TypeOK, buffer_has_been_sent, OthersUntouched, Untouched
<1>6. /\ last_sent'[r] = circular_increment(l)
      /\ next_to_be_received'[r] = next_to_be_received[r]
      /\ buffers'[r] = [buffers[r] EXCEPT ![l] = 0]
      /\ r \in live'
  BY <1>0 DEF buffer_has_been_sent, Ownership, TypeOK
<1>7. Window(r)' = Window(r) \ {l}
  BY <1>0, <1>1, <1>4, <1>6, Windows, Shrinks DEF Ownership
<1>8. \A i \in Window(r)' : buffers'[r][i] = buffers[r][i]
  BY <1>0, <1>6, <1>7, NamedKeys DEF Ownership, TypeOK
<1>9. \A i \in Window(r) : buffers[r][i] = buffers[r][l] => i = l
  BY <1>2 DEF Ownership, EntriesOwnBuffers
<1>10. KeysOf(r)' = KeysOf(r) \ {buffers[r][l]}
  BY <1>6, <1>7, <1>8, <1>9 DEF KeysOf
<1>11. Returns(r, buffers[r][l])
  BY <1>3, <1>5, <1>10, UntouchedKeys
  DEF Returns, KeysElsewhere, OthersUntouched, buffer_has_been_sent
<1>12. \A i, j \in Window(r)' : buffers'[r][i] = buffers'[r][j] => i = j
  BY <1>7, <1>8 DEF Ownership, EntriesOwnBuffers
<1>13. Ownership'
  BY <1>0, <1>3, <1>4, <1>5, <1>11, <1>12, OwnershipFrom
<1> QED
  BY <1>2, <1>5, <1>7, <1>11, <1>13

-----------------------------------------------------------------------------
(* The sizes and contents of one ring.  Outside the window there is no     *)
(* size.  Inside a feed the last entry of the window is the one being read *)
(* into: it names dest and has no size yet.  A buffer nothing was read     *)
(* into is blank.                                                          *)
NoSizeOutside(r) ==
    r \in live => \A i \in Entries \ Window(r) : data_sizes[r][i] = -1

FeedInWindow(r) ==
    dest[r] # -1 => /\ r \in live
                    /\ ~is_empty_circular_buffer(r)
                    /\ buffers[r][LastReceived(r)] = dest[r]
                    /\ data_sizes[r][LastReceived(r)] = -1

BlankUntilRead(r) ==
    r \in live => \A i \in Window(r) :
                     data_sizes[r][i] <= 0 => messages[buffers[r][i]] = Blank

BlankInPool == \A b \in free : messages[b] = Blank

RingInv(r) == NoSizeOutside(r) /\ FeedInWindow(r) /\ BlankUntilRead(r)

IInv == /\ Ownership
        /\ BlankInPool
        /\ \A r \in Rings : RingInv(r)

(* A ring keeps its invariant when nothing happens to it and its buffers.  *)
LEMMA OtherRings ==
    ASSUME NEW s \in Rings, RingInv(s), Untouched(s),
           \A k \in KeysOf(s) : messages'[k] = messages[k]
    PROVE  RingInv(s)'
<1>1. Window(s)' = Window(s)
  BY UntouchedKeys
<1>2. s \in live => \A i \in Window(s) : buffers[s][i] \in KeysOf(s)
  BY DEF KeysOf
<1>3. NoSizeOutside(s)'
  BY <1>1 DEF RingInv, NoSizeOutside, Untouched
<1>4. FeedInWindow(s)'
  BY DEF RingInv, FeedInWindow, Untouched, LastReceived, is_empty_circular_buffer
<1>5. BlankUntilRead(s)'
  BY <1>1, <1>2 DEF RingInv, BlankUntilRead, Untouched
<1> QED
  BY <1>3, <1>4, <1>5 DEF RingInv

LEMMA Initially == Init => IInv
<1> SUFFICES ASSUME Init PROVE IInv
  OBVIOUS
<1>1. -1 \in Sizes /\ 0 \in Sizes /\ 0 \in Entries
  BY SizeAssumption, CapPositive DEF Sizes, Entries
<1>2. /\ [i \in Entries |-> -1] \in [Entries -> Keys \union {-1, 0}]
      /\ [i \in Entries |-> -1] \in [Entries -> Sizes]
  BY <1>1
<1>3. TypeOK
  BY <1>1, <1>2 DEF Init, TypeOK
<1>4. Ownership
  BY <1>3 DEF Init, Ownership, EntriesOwnBuffers, Owned, KeysOf
<1>5. BlankInPool
  BY DEF Init, BlankInPool
<1>6. \A r \in Rings : RingInv(r)
  BY DEF Init, RingInv, NoSizeOutside, FeedInWindow, BlankUntilRead
<1> QED
  BY <1>4, <1>5, <1>6 DEF IInv

(* What an operation does to the keys.                                     *)
Moves(r) == Keeps \/ (\E b \in Keys : Takes(r, b) \/ Returns(r, b)) \/ Abandons(r)

LEMMA NewInv ==
    ASSUME IInv, NEW r \in Rings, r \notin live, new_circular_buffer(r)
    PROVE  IInv' /\ Moves(r)
<1>1. Ownership' /\ OthersUntouched(r) /\ Keeps /\ Window(r)' = {}
  BY NewStep DEF IInv
<1>2. messages' = messages /\ free' = free /\ dest' = dest
  BY DEF new_circular_buffer
<1>3. \A s \in Rings \ {r} : RingInv(s)'
  BY <1>1, <1>2, OtherRings DEF IInv, OthersUntouched
<1>4. dest'[r] = -1
  BY <1>2 DEF IInv, RingInv, FeedInWindow
<1>5. \A i \in Entries : data_sizes'[r][i] = -1
  BY DEF new_circular_buffer, Fresh, IInv, Ownership, TypeOK
<1>6. RingInv(r)'
  BY <1>1, <1>4, <1>5 DEF RingInv, NoSizeOutside, FeedInWindow, BlankUntilRead
<1>7. BlankInPool'
  BY <1>2 DEF IInv, BlankInPool
<1> QED
  BY <1>1, <1>3, <1>6, <1>7 DEF IInv, Moves

LEMMA FreeInv ==
    ASSUME IInv, NEW r \in Rings, Idle(r), free_circular_buffer(r)
    PROVE  IInv' /\ Moves(r)
<1>1. Ownership' /\ OthersUntouched(r) /\ Abandons(r)
  BY FreeStep DEF IInv, Idle
<1>2. messages' = messages /\ free' = free /\ dest' = dest /\ r \notin live'
  BY DEF free_circular_buffer
<1>3. \A s \in Rings \ {r} : RingInv(s)'
  BY <1>1, <1>2, OtherRings DEF IInv, OthersUntouched
<1>4. RingInv(r)'
  BY <1>2 DEF Idle, RingInv, NoSizeOutside, FeedInWindow, BlankUntilRead
<1>5. BlankInPool'
  BY <1>2 DEF IInv, BlankInPool
<1> QED
  BY <1>1, <1>3, <1>4, <1>5 DEF IInv, Moves

LEMMA AllocInv ==
    ASSUME IInv, NEW r \in Rings, Idle(r), NEW b \in Keys, FeedAlloc(r, b)
    PROVE  IInv' /\ Moves(r)
<1> DEFINE n == next_to_be_received[r]
<1>0. r \in live /\ dest[r] = -1 /\ Ownership
  BY DEF Idle, IInv
<1>1. /\ Ownership' /\ OthersUntouched(r) /\ Takes(r, b)
      /\ Window(r)' = Window(r) \union {n}
      /\ n \in Entries \ Window(r)
      /\ LastReceived(r)' = n
      /\ ~is_empty_circular_buffer(r)'
  BY <1>0, AllocStep
<1>2. /\ messages' = messages /\ free' = free \ {b} /\ live' = live
      /\ dest'[r] = b
      /\ buffers'[r] = [buffers[r] EXCEPT ![n] = b]
      /\ data_sizes'[r] = [data_sizes[r] EXCEPT ![n] = -1]
  BY DEF FeedAlloc, alloc_entry, IInv, Ownership, TypeOK
<1>3. /\ buffers'[r][n] = b /\ data_sizes'[r][n] = -1
      /\ \A i \in Entries \ {n} : /\ buffers'[r][i] = buffers[r][i]
                                  /\ data_sizes'[r][i] = data_sizes[r][i]
  BY <1>0, <1>1, <1>2 DEF Ownership, TypeOK
<1>4. \A s \in Rings \ {r} : RingInv(s)'
  BY <1>1, <1>2, OtherRings DEF IInv, OthersUntouched
<1>5. NoSizeOutside(r)'
  BY <1>0, <1>1, <1>3 DEF IInv, RingInv, NoSizeOutside
<1>6. FeedInWindow(r)'
  BY <1>0, <1>1, <1>2, <1>3 DEF FeedInWindow
<1>7. messages[b] = Blank
  BY <1>1 DEF Takes, IInv, BlankInPool
<1>8. BlankUntilRead(r)'
  <2>1. \A i \in Window(r) : i \in Entries \ {n}
    BY <1>0, <1>1, NamedKeys
  <2> QED
    BY <1>0, <1>1, <1>2, <1>3, <1>7, <2>1 DEF IInv, RingInv, BlankUntilRead
<1>9. BlankInPool'
  BY <1>2 DEF IInv, BlankInPool
<1> QED
  BY <1>1, <1>4, <1>5, <1>6, <1>8, <1>9 DEF IInv, RingInv, Moves

LEMMA ReadInv ==
    ASSUME IInv, NEW r \in Rings, NEW n \in Sizes, NEW d \in Data,
           FeedRead(r, n, d)
    PROVE  IInv' /\ Moves(r)
<1> DEFINE i == LastReceived(r)
           k == dest[r]
<1>0. Ownership /\ FeedInWindow(r) /\ k # -1
  BY DEF IInv, RingInv, FeedRead
<1>1. r \in live /\ ~is_empty_circular_buffer(r) /\ buffers[r][i] = k
  BY <1>0 DEF FeedInWindow
<1>2. Ownership' /\ OthersUntouched(r) /\ Keeps /\ Window(r)' = Window(r)
  BY <1>0, ReadStep
<1>3. i \in Window(r) /\ i \in Entries
  <2>1. i \in Span(last_sent[r], next_to_be_received[r])
    BY <1>0, <1>1, Shrinks
    DEF Ownership, TypeOK, LastReceived, is_empty_circular_buffer
  <2> QED
    BY <1>0, <2>1, Windows DEF Ownership, Span
<1>4. k \in KeysOf(r) /\ k \in Keys \ free
  BY <1>0, <1>1, <1>3, NamedKeys
<1>5. \A c \in Keys \ {k} : messages'[c] = messages[c]
  BY <1>0 DEF FeedRead, Ownership, TypeOK
<1>6. /\ buffers' = buffers /\ live' = live /\ free' = free
      /\ dest'[r] = -1
      /\ data_sizes'[r] = [data_sizes[r] EXCEPT ![i] = n]
      /\ n <= 0 => messages' = messages
  BY <1>0 DEF FeedRead, Ownership, TypeOK, Sizes
<1>7. ASSUME NEW s \in Rings \ {r}
      PROVE  RingInv(s)'
  <2>1. KeysOf(s) \subseteq Keys \ {k}
    BY <1>0, <1>4, OwnershipParts DEF Ownership, Disjoint
  <2> QED
    BY <1>2, <1>5, <2>1, OtherRings DEF IInv, OthersUntouched
<1>8. NoSizeOutside(r)'
  BY <1>0, <1>1, <1>2, <1>3, <1>6
  DEF IInv, RingInv, NoSizeOutside, Ownership, TypeOK
<1>9. FeedInWindow(r)'
  BY <1>6 DEF FeedInWindow
<1>10. BlankUntilRead(r)'
  <2> SUFFICES ASSUME NEW j \in Window(r), data_sizes'[r][j] <= 0
               PROVE  messages'[buffers[r][j]] = Blank
    BY <1>2, <1>6 DEF BlankUntilRead
  <2>1. j \in Entries /\ buffers[r][j] \in Keys
    BY <1>0, <1>1, NamedKeys
  <2>2. CASE j = i
    <3>1. n <= 0
      BY <1>0, <1>3, <1>6, <2>2 DEF Ownership, TypeOK
    <3>2. messages[buffers[r][i]] = Blank
      BY <1>0, <1>1, <1>3 DEF IInv, RingInv, BlankUntilRead, FeedInWindow
    <3> QED
      BY <1>6, <2>2, <3>1, <3>2
  <2>3. CASE j # i
    <3>1. buffers[r][j] # k
      BY <1>0, <1>1, <1>3, <2>3 DEF Ownership, EntriesOwnBuffers
    <3>2. data_sizes'[r][j] = data_sizes[r][j]
      BY <1>0, <1>6, <2>1, <2>3 DEF Ownership, TypeOK
    <3>3. messages[buffers[r][j]] = Blank
      BY <1>1, <3>2 DEF IInv, RingInv, BlankUntilRead
    <3> QED
      BY <1>5, <2>1, <3>1, <3>3
  <2> QED
    BY <2>2, <2>3
<1>11. BlankInPool'
  BY <1>4, <1>5, <1>6 DEF IInv, BlankInPool, Ownership, TypeOK
<1> QED
  BY <1>2, <1>7, <1>8, <1>9, <1>10, <1>11 DEF IInv, RingInv, Moves

LEMMA SentInv ==
    ASSUME IInv, NEW r \in Rings, Idle(r), buffer_has_been_sent(r)
    PROVE  IInv' /\ Moves(r)
<1> DEFINE l == last_sent[r]
           k == buffers[r][l]
<1>0. r \in live /\ dest[r] = -1 /\ Ownership
  BY DEF Idle, IInv
<1>1. /\ Ownership' /\ OthersUntouched(r) /\ Returns(r, k)
      /\ l \in Window(r)
      /\ Window(r)' = Window(r) \ {l}
  BY <1>0, SentStep
<1>2. k \in KeysOf(r) /\ k \in Keys \ free /\ l \in Entries
  BY <1>0, <1>1, NamedKeys
<1>3. /\ live' = live /\ dest' = dest /\ free' = free \union {k}
      /\ messages'[k] = Blank
      /\ \A c \in Keys \ {k} : messages'[c] = messages[c]
      /\ data_sizes'[r][l] = -1
      /\ \A i \in Entries \ {l} : /\ buffers'[r][i] = buffers[r][i]
                                  /\ data_sizes'[r][i] = data_sizes[r][i]
  BY <1>0, <1>2 DEF buffer_has_been_sent, Ownership, TypeOK
<1>4. ASSUME NEW s \in Rings \ {r}
      PROVE  RingInv(s)'
  <2>1. KeysOf(s) \subseteq Keys \ {k}
    BY <1>0, <1>2, OwnershipParts DEF Ownership, Disjoint
  <2> QED
    BY <1>1, <1>3, <2>1, OtherRings DEF IInv, OthersUntouched
<1>5. NoSizeOutside(r)'
  BY <1>0, <1>1, <1>3 DEF IInv, RingInv, NoSizeOutside
<1>6. FeedInWindow(r)'
  BY <1>0, <1>3 DEF FeedInWindow
<1>7. BlankUntilRead(r)'
  <2> SUFFICES ASSUME NEW j \in Window(r) \ {l}, data_sizes'[r][j] <= 0
               PROVE  messages'[buffers'[r][j]] = Blank
    BY <1>1, <1>3 DEF BlankUntilRead
  <2>1. j \in Entries \ {l} /\ buffers[r][j] \in Keys
    BY <1>0, NamedKeys
  <2>2. buffers[r][j] # k
    BY <1>0, <1>1 DEF Ownership, EntriesOwnBuffers
  <2>3. messages[buffers[r][j]] = Blank
    BY <1>0, <1>3, <2>1 DEF IInv, RingInv, BlankUntilRead
  <2> QED
    BY <1>3, <2>1, <2>2, <2>3
<1>8. BlankInPool'
  BY <1>3 DEF IInv, BlankInPool, Ownership, TypeOK
<1> QED
  BY <1>1, <1>2, <1>4, <1>5, <1>6, <1>7, <1>8 DEF IInv, RingInv, Moves

(* FeedFull and FeedNoBuffer, whose only effect is the result.             *)
LEMMA RefusedInv ==
    ASSUME IInv, NEW r \in Rings, FeedFull(r) \/ FeedNoBuffer(r)
    PROVE  IInv' /\ Moves(r)
<1>1. \A s \in Rings : Untouched(s)
  BY DEF FeedFull, FeedNoBuffer, Untouched
<1>2. TypeOK'
  <2>1. -1 \in Sizes
    BY SizeAssumption DEF Sizes
  <2>2. ret' \in [Rings -> Sizes \union {-2}]
    BY <2>1 DEF FeedFull, FeedNoBuffer, IInv, Ownership, TypeOK
  <2> QED
    BY <2>2 DEF FeedFull, FeedNoBuffer, IInv, Ownership, TypeOK
<1>3. Keeps
  BY <1>1, UntouchedKeys DEF Keeps, FeedFull, FeedNoBuffer
<1>4. \A i, j \in Window(r)' :
         r \in live' /\ buffers'[r][i] = buffers'[r][j] => i = j
  BY <1>1, UntouchedKeys DEF Untouched, IInv, Ownership, EntriesOwnBuffers
<1>5. Ownership'
  BY <1>1, <1>2, <1>3, <1>4, OwnershipFrom DEF IInv, OthersUntouched
<1>6. \A s \in Rings : RingInv(s)'
  BY <1>1, OtherRings DEF IInv, FeedFull, FeedNoBuffer
<1>7. BlankInPool'
  BY DEF FeedFull, FeedNoBuffer, IInv, BlankInPool
<1> QED
  BY <1>3, <1>5, <1>6, <1>7 DEF IInv, Moves

LEMMA OperationInv ==
    ASSUME IInv, NEW r \in Rings, Operation(r)
    PROVE  IInv' /\ Moves(r)
BY NewInv, FreeInv, AllocInv, ReadInv, SentInv, RefusedInv DEF Operation

LEMMA Unchanged ==
    ASSUME UNCHANGED vars
    PROVE  /\ IInv => IInv'
           /\ Lost' = Lost
<1>1. \A s \in Rings : Untouched(s)
  BY DEF vars, Untouched
<1>2. Keeps
  BY <1>1, UntouchedKeys DEF Keeps, vars
<1>3. Lost' = Lost
  BY <1>2 DEF Keeps, Lost, Owned, Keys
<1>4. ASSUME IInv
      PROVE  IInv'
  <2>1. TypeOK' /\ live \subseteq Rings
    BY <1>4 DEF vars, IInv, Ownership, TypeOK
  <2>2. Injective /\ Disjoint
    BY <1>4, OwnershipParts DEF IInv, Ownership
  <2>3. Injective'
    BY <1>1, <2>1, <2>2, UntouchedKeys DEF Injective, vars
  <2>4. Disjoint'
    BY <1>2, <2>2 DEF Disjoint, Keeps, Keys
  <2>5. \A s \in Rings : RingInv(s)'
    BY <1>1, <1>4, OtherRings DEF IInv, vars
  <2>6. BlankInPool'
    BY <1>4 DEF IInv, BlankInPool, vars
  <2> QED
    BY <2>1, <2>3, <2>4, <2>5, <2>6, OwnershipParts DEF IInv, Ownership
<1> QED
  BY <1>3, <1>4

LEMMA Inductive == IInv /\ [Next]_vars => IInv'
BY OperationInv, Unchanged DEF Next

THEOREM RingsConsistent == Spec => []IInv
BY Initially, Inductive, PTL DEF Spec

(* circular_buffer.h: every index stays in its array, every key of the     *)
(* pool stays a key, whatever the number and the size of the rings.        *)
THEOREM TypeCorrect == Spec => []TypeOK
<1>1. IInv => TypeOK
  BY DEF IInv, Ownership
<1> QED
  BY <1>1, RingsConsistent, PTL

(* buffer_has_been_sent gives back a buffer that its entry alone owned: it *)
(* is freed once, and nobody else sends or receives into it.               *)
THEOREM EveryEntryOwnsItsBuffer == Spec => []EntriesOwnBuffers
<1>1. IInv => EntriesOwnBuffers
  BY DEF IInv, Ownership
<1> QED
  BY <1>1, RingsConsistent, PTL

(* The sizes left in the array around the window are all -1.               *)
THEOREM SizesOnlyInWindow == Spec => []NoStaleSize
<1>1. IInv => NoStaleSize
  BY DEF IInv, Ownership, TypeOK, RingInv, NoSizeOutside, NoStaleSize
<1> QED
  BY <1>1, RingsConsistent, PTL

-----------------------------------------------------------------------------
(* Lost buffers.                                                           *)

LostByFree == \E r \in live : /\ r \notin live'
                              /\ Lost' = Lost \union KeysOf(r)

(* Moving a key between the pool and a ring loses nothing.                 *)
LEMMA MovesLose ==
    ASSUME Disjoint, NEW r \in Rings, Moves(r)
    PROVE  Lost' = Lost \/ LostByFree
<1>1. CASE Keeps
  BY <1>1 DEF Keeps, Lost, Owned, Keys
<1>2. ASSUME NEW b \in Keys, Takes(r, b)
      PROVE  Lost' = Lost
  <2>1. \A s \in Rings : KeysOf(s)' = IF s = r THEN KeysOf(s) \union {b} ELSE KeysOf(s)
    BY <1>2 DEF Takes, KeysElsewhere
  <2>2. Owned' = Owned \union {b}
    BY <2>1 DEF Owned
  <2>3. free' \union Owned' = free \union Owned
    BY <1>2, <2>2 DEF Takes
  <2> QED
    BY <2>3 DEF Lost, Keys
<1>3. ASSUME NEW b \in Keys, Returns(r, b)
      PROVE  Lost' = Lost
  <2>1. \A s \in Rings : KeysOf(s)' = IF s = r THEN KeysOf(s) \ {b} ELSE KeysOf(s)
    BY <1>3 DEF Returns, KeysElsewhere
  <2>2. Owned' \union {b} = Owned
    BY <1>3, <2>1 DEF Owned, Returns, Disjoint
  <2>3. free' \union Owned' = free \union Owned
    BY <1>3, <2>2 DEF Returns
  <2> QED
    BY <2>3 DEF Lost, Keys
<1>4. ASSUME Abandons(r)
      PROVE  LostByFree
  <2>1. \A s \in Rings : KeysOf(s)' = IF s = r THEN {} ELSE KeysOf(s)
    BY <1>4 DEF Abandons, KeysElsewhere
  <2>2. Owned = Owned' \union KeysOf(r)
    BY <2>1 DEF Owned
  <2>3. \A k \in KeysOf(r) : k \in Keys \ free /\ k \notin Owned'
    BY <2>1 DEF Disjoint, Owned
  <2>4. Lost' = Lost \union KeysOf(r)
    BY <1>4, <2>2, <2>3 DEF Abandons, Lost, Keys
  <2> QED
    BY <1>4, <2>4 DEF Abandons, LostByFree
<1> QED
  BY <1>1, <1>2, <1>3, <1>4 DEF Moves

(* free_circular_buffer is the only leak: a buffer leaves both the pool    *)
(* and the rings only when a ring is freed with entries left in it.        *)
THEOREM OnlyFreeLoses == Spec => LostOnlyByFree
<1>1. IInv /\ [Next]_vars => [Lost' # Lost => LostByFree]_vars
  <2> SUFFICES ASSUME IInv, Next
               PROVE  Lost' = Lost \/ LostByFree
    OBVIOUS
  <2>1. PICK r \in Rings : Operation(r)
    BY DEF Next
  <2>2. Moves(r)
    BY <2>1, OperationInv
  <2>3. Disjoint
    BY OwnershipParts DEF IInv, Ownership
  <2> QED
    BY <2>2, <2>3, MovesLose
<1>2. LostOnlyByFree <=> [][Lost' # Lost => LostByFree]_vars
  BY PTL DEF LostOnlyByFree, LostByFree
<1> QED
  BY <1>1, <1>2, RingsConsistent, PTL DEF Spec

-----------------------------------------------------------------------------
(* Refinement of ChunkQueue.                                               *)

(* The chunks of a ring, as a sequence.                                    *)
ChunkRecords == [size : Sizes, data : Data \union {Blank}]

ChunksWellFormed(r) ==
    /\ Chunks(r) \in Seq(ChunkRecords)
    /\ r \notin live => Chunks(r) = <<>>
    /\ r \in live =>
         /\ Length(r) \in 0 .. Cap - 1
         /\ Len(Chunks(r)) = Length(r)
         /\ \A k \in 1 .. Length(r) :
               /\ Entry(r, k - 1) \in Window(r)
               /\ Chunks(r)[k] = Chunk(r, Entry(r, k - 1))

LEMMA ChunksNow == IInv => \A r \in Rings : ChunksWellFormed(r)
<1> SUFFICES ASSUME IInv, NEW r \in Rings
             PROVE  ChunksWellFormed(r)
  OBVIOUS
<1> USE DEF ChunksWellFormed
<1>1. CASE r \notin live
  BY <1>1 DEF Chunks
<1>2. CASE r \in live
  <2>1. Length(r) \in 0 .. Cap - 1
    BY Distance DEF Length, IInv, Ownership, TypeOK
  <2>2. Cap \in Nat \ {0} /\ Length(r) \in Nat
    BY <2>1, CapPositive
  <2>3. \A k \in 1 .. Length(r) : Entry(r, k - 1) \in Window(r)
    BY <2>2 DEF Window
  <2>4. \A k \in 1 .. Length(r) : Chunk(r, Entry(r, k - 1)) \in ChunkRecords
    BY <1>2, <2>3, NamedKeys DEF Chunk, ChunkRecords, IInv, Ownership, TypeOK
  <2>5. Chunks(r) = [k \in 1 .. Length(r) |-> Chunk(r, Entry(r, k - 1))]
    BY <1>2 DEF Chunks
  <2>6. Chunks(r) \in Seq(ChunkRecords) /\ Len(Chunks(r)) = Length(r)
    BY <2>2, <2>4, <2>5
  <2> QED
    BY <1>2, <2>1, <2>3, <2>5, <2>6
<1> QED
  BY <1>1, <1>2

LEMMA ChunksNext == IInv' => (\A r \in Rings : ChunksWellFormed(r))'
BY ChunksNow, PTL

LEMMA ChunksAfter ==
    ASSUME IInv', NEW r \in Rings, r \in live'
    PROVE  /\ Chunks(r)' \in Seq(ChunkRecords)
           /\ Len(Chunks(r)') = Length(r)'
           /\ \A k \in 1 .. Length(r)' :
                 LET e == (last_sent'[r] + (k - 1)) % Cap
                 IN  Chunks(r)'[k] = [size |-> data_sizes'[r][e],
                                      data |-> messages'[buffers'[r][e]]]
BY ChunksNext DEF ChunksWellFormed, Chunk, Entry

(* The chunks of the rings an operation does not touch stay as they are.   *)
LEMMA OtherChunks ==
    ASSUME IInv, NEW s \in Rings, Untouched(s),
           \A k \in KeysOf(s) : messages'[k] = messages[k]
    PROVE  Chunks(s)' = Chunks(s)
<1>1. CASE s \notin live
  BY <1>1 DEF Untouched, Chunks
<1>2. CASE s \in live
  <2>1. Length(s)' = Length(s) /\ s \in live'
    BY <1>2, UntouchedKeys DEF Untouched
  <2>2. ASSUME NEW k \in 1 .. Length(s)
        PROVE  Chunk(s, Entry(s, k - 1))' = Chunk(s, Entry(s, k - 1))
    <3>1. Entry(s, k - 1)' = Entry(s, k - 1)
      BY DEF Untouched, Entry
    <3>2. buffers[s][Entry(s, k - 1)] \in KeysOf(s)
      BY <1>2, ChunksNow, NamedKeys DEF IInv, ChunksWellFormed
    <3> QED
      BY <3>1, <3>2 DEF Untouched, Chunk
  <2> QED
    BY <1>2, <2>1, <2>2 DEF Chunks
<1> QED
  BY <1>1, <1>2

(* An entry allocated and not read into is a pending chunk at the end.     *)
LEMMA AllocChunks ==
    ASSUME IInv, IInv', NEW r \in Rings, Idle(r), NEW b \in Keys, FeedAlloc(r, b)
    PROVE  /\ Chunks(r)' = Append(Chunks(r), [size |-> -1, data |-> Blank])
           /\ Len(Chunks(r)) < Cap - 1
           /\ \A s \in Rings \ {r} : Chunks(s)' = Chunks(s)
<1> DEFINE n == next_to_be_received[r]
           l == last_sent[r]
           p == [size |-> -1, data |-> Blank]
<1>0. r \in live /\ Ownership /\ b \in free /\ n \in Entries /\ l \in Entries
  BY DEF Idle, IInv, Ownership, TypeOK, FeedAlloc, alloc_entry
<1>1. OthersUntouched(r) /\ n \in Entries \ Window(r)
  BY <1>0, AllocStep
<1>2. /\ messages' = messages /\ r \in live'
      /\ last_sent' = last_sent
      /\ next_to_be_received'[r] = circular_increment(n)
      /\ circular_increment(n) # l
      /\ buffers'[r] = [buffers[r] EXCEPT ![n] = b]
      /\ data_sizes'[r] = [data_sizes[r] EXCEPT ![n] = -1]
  BY <1>0 DEF FeedAlloc, alloc_entry, is_full_circular_buffer, Ownership, TypeOK
<1>3. /\ buffers'[r][n] = b /\ data_sizes'[r][n] = -1
      /\ \A i \in Entries \ {n} : /\ buffers'[r][i] = buffers[r][i]
                                  /\ data_sizes'[r][i] = data_sizes[r][i]
  BY <1>0, <1>2 DEF Ownership, TypeOK
<1>4. \A s \in Rings \ {r} : Chunks(s)' = Chunks(s)
  BY <1>1, <1>2, OtherChunks DEF OthersUntouched
<1>5. Length(r)' = Length(r) + 1
  BY <1>0, <1>2, DistanceGrows DEF Length
<1>6. /\ Length(r) < Cap - 1 /\ Length(r) \in Nat
      /\ Entry(r, Length(r)) = n
  BY <1>0, <1>2, CapPositive, Distance DEF Length, Entry
<1>7. /\ Chunks(r) \in Seq(ChunkRecords)
      /\ Len(Chunks(r)) = Length(r)
      /\ \A k \in 1 .. Length(r) : /\ Entry(r, k - 1) \in Window(r)
                                   /\ Chunks(r)[k] = Chunk(r, Entry(r, k - 1))
  BY <1>0, ChunksNow DEF ChunksWellFormed
<1>8. /\ Chunks(r)' \in Seq(ChunkRecords)
      /\ Len(Chunks(r)') = Length(r)'
      /\ \A k \in 1 .. Length(r)' :
            LET e == Entry(r, k - 1)
            IN  Chunks(r)'[k] = [size |-> data_sizes'[r][e],
                                 data |-> messages'[buffers'[r][e]]]
  BY <1>2, ChunksAfter DEF Entry
<1>9. p \in ChunkRecords
  BY SizeAssumption DEF ChunkRecords, Sizes
<1>10. ASSUME NEW k \in 1 .. Length(r)
       PROVE  Chunks(r)'[k] = Chunks(r)[k]
  <2> DEFINE e == Entry(r, k - 1)
  <2>1. e \in Entries \ {n}
    BY <1>0, <1>1, <1>7, NamedKeys
  <2>2. k \in 1 .. Length(r)'
    BY <1>5, <1>6
  <2>3. Chunks(r)'[k] = [size |-> data_sizes'[r][e],
                         data |-> messages'[buffers'[r][e]]]
    BY <1>8, <2>2
  <2>4. Chunks(r)[k] = Chunk(r, e)
    BY <1>7
  <2> HIDE DEF e
  <2> QED
    BY <1>2, <1>3, <2>1, <2>3, <2>4 DEF Chunk
<1>11. Chunks(r)'[Length(r) + 1] = p
  <2>1. /\ Length(r) + 1 \in 1 .. Length(r)'
        /\ n = Entry(r, (Length(r) + 1) - 1)
    BY <1>5, <1>6
  <2>2. messages[b] = Blank
    BY <1>0 DEF IInv, BlankInPool
  <2> QED
    BY <1>2, <1>3, <1>8, <2>1, <2>2
<1>12. Chunks(r)' = Append(Chunks(r), p)
  BY <1>5, <1>6, <1>7, <1>8, <1>9, <1>10, <1>11, AppendProperties, SeqEqual
<1> QED
  BY <1>4, <1>6, <1>7, <1>12

(* The read fills the last chunk, and no other one.                        *)
LEMMA ReadChunks ==
    ASSUME IInv, IInv', NEW r \in Rings, NEW n \in Sizes, NEW d \in Data,
           FeedRead(r, n, d)
    PROVE  /\ Chunks(r)' = [Chunks(r) EXCEPT ![Len(Chunks(r))] =
                              [size |-> n, data |-> IF n > 0 THEN d ELSE Blank]]
           /\ \A s \in Rings \ {r} : Chunks(s)' = Chunks(s)
<1> DEFINE i == LastReceived(r)
           b == dest[r]
           c == [size |-> n, data |-> IF n > 0 THEN d ELSE Blank]
<1>0. /\ Ownership /\ b \in Keys /\ b # -1
      /\ last_sent[r] \in Entries /\ next_to_be_received[r] \in Entries
  BY DEF IInv, Ownership, TypeOK, FeedRead
<1>1. /\ r \in live /\ r \in live'
      /\ last_sent[r] # next_to_be_received[r]
      /\ buffers[r][i] = b /\ data_sizes[r][i] = -1
  BY <1>0 DEF IInv, RingInv, FeedInWindow, is_empty_circular_buffer, FeedRead
<1>2. OthersUntouched(r) /\ Window(r)' = Window(r)
  BY <1>0, ReadStep
<1>3. /\ buffers' = buffers /\ last_sent' = last_sent
      /\ Length(r)' = Length(r)
      /\ data_sizes'[r] = [data_sizes[r] EXCEPT ![i] = n]
      /\ messages' = IF n > 0 THEN [messages EXCEPT ![b] = d] ELSE messages
  BY <1>0 DEF FeedRead, Length, Ownership, TypeOK
<1>4. /\ Length(r) \in 1 .. Cap - 1
      /\ Entry(r, Length(r) - 1) = i
      /\ \A j, k \in Entries : Entry(r, j) = Entry(r, k) => j = k
  BY <1>0, <1>1, CapPositive, Distance, DistanceShrinks
  DEF Length, Entry, LastReceived
<1>5. /\ Chunks(r) \in Seq(ChunkRecords)
      /\ Len(Chunks(r)) = Length(r)
      /\ \A k \in 1 .. Length(r) : /\ Entry(r, k - 1) \in Window(r)
                                   /\ Chunks(r)[k] = Chunk(r, Entry(r, k - 1))
  BY <1>1, ChunksNow DEF ChunksWellFormed
<1>6. /\ Chunks(r)' \in Seq(ChunkRecords)
      /\ Len(Chunks(r)') = Length(r)
      /\ \A k \in 1 .. Length(r) :
            LET e == Entry(r, k - 1)
            IN  Chunks(r)'[k] = [size |-> data_sizes'[r][e],
                                 data |-> messages'[buffers'[r][e]]]
  <2>1. \A k : Entry(r, k) = (last_sent'[r] + k) % Cap
    BY <1>3 DEF Entry
  <2>2. Length(r)' = Length(r)
    BY <1>3
  <2>3. /\ Chunks(r)' \in Seq(ChunkRecords)
        /\ Len(Chunks(r)') = Length(r)'
        /\ \A k \in 1 .. Length(r)' :
              LET e == (last_sent'[r] + (k - 1)) % Cap
              IN  Chunks(r)'[k] = [size |-> data_sizes'[r][e],
                                   data |-> messages'[buffers'[r][e]]]
    BY <1>1, ChunksAfter
  <2> QED
    BY <2>1, <2>2, <2>3
<1>7. i \in Window(r) /\ i \in Entries /\ b \in KeysOf(r)
  BY <1>0, <1>1, <1>4, <1>5, NamedKeys
<1>8. ASSUME NEW s \in Rings \ {r}
      PROVE  Chunks(s)' = Chunks(s)
  <2>1. KeysOf(s) \subseteq Keys \ {b}
    BY <1>0, <1>7, OwnershipParts DEF Ownership, Disjoint
  <2>2. \A k \in KeysOf(s) : messages'[k] = messages[k]
    BY <1>0, <1>3, <2>1 DEF Ownership, TypeOK
  <2> QED
    BY <1>2, <2>2, OtherChunks DEF OthersUntouched
<1>9. c \in ChunkRecords
  BY DEF ChunkRecords
<1>10. Chunks(r)'[Length(r)] = c
  <2>1. data_sizes'[r][i] = n
    BY <1>0, <1>3, <1>7 DEF Ownership, TypeOK
  <2>2. messages[b] = Blank
    BY <1>1, <1>7 DEF IInv, RingInv, BlankUntilRead
  <2>3. messages'[b] = IF n > 0 THEN d ELSE Blank
    BY <1>0, <1>3, <2>2 DEF Ownership, TypeOK
  <2>4. Length(r) \in 1 .. Length(r)
    BY <1>4
  <2> QED
    BY <1>1, <1>3, <1>4, <1>6, <2>1, <2>3, <2>4
<1>11. ASSUME NEW k \in 1 .. Length(r), k # Length(r)
       PROVE  Chunks(r)'[k] = Chunks(r)[k]
  <2> DEFINE e == Entry(r, k - 1)
  <2>1. k - 1 \in Entries /\ Length(r) - 1 \in Entries /\ k - 1 # Length(r) - 1
    BY <1>4, <1>11, CapPositive DEF Entries
  <2>2. e # i /\ e \in Window(r)
    BY <1>4, <1>5, <2>1
  <2>3. buffers[r][e] \in Keys \ {b} /\ e \in Entries
    BY <1>0, <1>1, <1>7, <2>2, NamedKeys DEF Ownership, EntriesOwnBuffers
  <2>4. /\ messages'[buffers[r][e]] = messages[buffers[r][e]]
        /\ data_sizes'[r][e] = data_sizes[r][e]
    BY <1>0, <1>3, <2>2, <2>3 DEF Ownership, TypeOK
  <2> QED
    BY <1>3, <1>5, <1>6, <2>4 DEF Chunk
<1>12. Chunks(r)' = [Chunks(r) EXCEPT ![Length(r)] = c]
  <2>1. /\ [Chunks(r) EXCEPT ![Length(r)] = c] \in Seq(ChunkRecords)
        /\ Len([Chunks(r) EXCEPT ![Length(r)] = c]) = Length(r)
        /\ \A k \in 1 .. Length(r) :
              [Chunks(r) EXCEPT ![Length(r)] = c][k] =
                 IF k = Length(r) THEN c ELSE Chunks(r)[k]
    <3>1. Length(r) \in 1 .. Len(Chunks(r))
      BY <1>4, <1>5
    <3> QED
      BY <1>5, <1>9, <3>1, ExceptSeq
  <2> QED
    BY <1>6, <1>10, <1>11, <2>1, SeqEqual
<1> QED
  BY <1>5, <1>8, <1>12

(* What is sent is the oldest chunk.                                       *)
LEMMA SentChunks ==
    ASSUME IInv, IInv', NEW r \in Rings, Idle(r), buffer_has_been_sent(r)
    PROVE  /\ Chunks(r) # <<>>
           /\ Chunks(r)' = Tail(Chunks(r))
           /\ \A s \in Rings \ {r} : Chunks(s)' = Chunks(s)
<1> DEFINE l == last_sent[r]
           b == buffers[r][l]
<1>0. /\ r \in live /\ Ownership
      /\ l \in Entries /\ next_to_be_received[r] \in Entries
      /\ l # next_to_be_received[r]
  BY DEF Idle, IInv, Ownership, TypeOK, buffer_has_been_sent,
         is_empty_circular_buffer
<1>1. /\ OthersUntouched(r) /\ l \in Window(r)
      /\ Window(r)' = Window(r) \ {l}
      /\ Returns(r, b)
  BY <1>0, SentStep
<1>2. b \in KeysOf(r) /\ b \in Keys \ free
  BY <1>0, <1>1, NamedKeys
<1>3. /\ r \in live' /\ last_sent'[r] = circular_increment(l)
      /\ next_to_be_received' = next_to_be_received
      /\ \A c \in Keys \ {b} : messages'[c] = messages[c]
      /\ \A i \in Entries \ {l} : /\ buffers'[r][i] = buffers[r][i]
                                  /\ data_sizes'[r][i] = data_sizes[r][i]
  BY <1>0, <1>2 DEF buffer_has_been_sent, Ownership, TypeOK
<1>4. ASSUME NEW s \in Rings \ {r}
      PROVE  Chunks(s)' = Chunks(s)
  <2>1. KeysOf(s) \subseteq Keys \ {b}
    BY <1>0, <1>2, OwnershipParts DEF Ownership, Disjoint
  <2> QED
    BY <1>1, <1>3, <2>1, OtherChunks DEF OthersUntouched
<1>5. /\ Length(r) \in 1 .. Cap - 1
      /\ Length(r)' = Length(r) - 1
      /\ \A k \in 1 .. Cap - 1 : (last_sent'[r] + (k - 1)) % Cap = Entry(r, k)
      /\ \A j, k \in Entries : Entry(r, j) = Entry(r, k) => j = k
  BY <1>0, <1>3, CapPositive, Distance, DistanceShrinks DEF Length, Entry
<1>6. /\ Chunks(r) \in Seq(ChunkRecords)
      /\ Len(Chunks(r)) = Length(r)
      /\ \A k \in 1 .. Length(r) : /\ Entry(r, k - 1) \in Window(r)
                                   /\ Chunks(r)[k] = Chunk(r, Entry(r, k - 1))
  BY <1>0, ChunksNow DEF ChunksWellFormed
<1>7. /\ Chunks(r)' \in Seq(ChunkRecords)
      /\ Len(Chunks(r)') = Length(r)'
      /\ \A k \in 1 .. Length(r)' :
            LET e == (last_sent'[r] + (k - 1)) % Cap
            IN  Chunks(r)'[k] = [size |-> data_sizes'[r][e],
                                 data |-> messages'[buffers'[r][e]]]
  BY <1>3, ChunksAfter
<1>8. Chunks(r) # <<>>
  BY <1>5, <1>6
<1>9. ASSUME NEW k \in 1 .. Length(r) - 1
      PROVE  Chunks(r)'[k] = Chunks(r)[k + 1]
  <2> DEFINE e == Entry(r, k)
  <2>1. /\ k \in 1 .. Length(r)' /\ k \in 1 .. Cap - 1
        /\ k + 1 \in 1 .. Length(r) /\ (k + 1) - 1 = k
    BY <1>5, CapPositive
  <2>2. Chunks(r)'[k] = [size |-> data_sizes'[r][e],
                         data |-> messages'[buffers'[r][e]]]
    BY <1>5, <1>7, <2>1
  <2>3. Chunks(r)[k + 1] = Chunk(r, e) /\ e \in Window(r)
    BY <1>6, <2>1
  <2>4. e # l
    <3>1. k \in Entries /\ 0 \in Entries /\ k # 0
      BY <2>1, CapPositive DEF Entries
    <3>2. Entry(r, 0) = l
      BY <1>0, CapPositive, Offsets DEF Entry, Entries
    <3> QED
      BY <1>5, <3>1, <3>2
  <2>5. e \in Entries /\ buffers[r][e] \in Keys \ {b}
    BY <1>0, <1>1, <2>3, <2>4, NamedKeys DEF Ownership, EntriesOwnBuffers
  <2> QED
    BY <1>3, <2>2, <2>3, <2>4, <2>5 DEF Chunk
<1>10. Chunks(r)' = Tail(Chunks(r))
  <2>1. /\ Tail(Chunks(r)) \in Seq(ChunkRecords)
        /\ Len(Tail(Chunks(r))) = Length(r) - 1
        /\ \A k \in 1 .. Length(r) - 1 : Tail(Chunks(r))[k] = Chunks(r)[k + 1]
    BY <1>6, <1>8, HeadTailProperties
  <2> QED
    BY <1>5, <1>7, <1>9, <2>1, SeqEqual
<1> QED
  BY <1>4, <1>8, <1>10

(* A ring without entries.                                                 *)
LEMMA EmptyChunks ==
    ASSUME NEW r \in Rings, TypeOK', Window(r)' = {}
    PROVE  Chunks(r)' = <<>>
<1>1. /\ Length(r)' \in 0 .. Cap - 1
      /\ Cap \in Nat \ {0}
  BY Distance, CapPositive DEF Length, TypeOK
<1>2. Length(r)' = 0
  BY <1>1 DEF Window
<1> QED
  BY <1>2 DEF Chunks

LEMMA OpenOrClosed ==
    ASSUME IInv, NEW r \in Rings,
           \/ r \notin live /\ new_circular_buffer(r)
           \/ Idle(r) /\ free_circular_buffer(r)
    PROVE  /\ Chunks(r)' = <<>>
           /\ \A s \in Rings \ {r} : Chunks(s)' = Chunks(s)
<1>1. OthersUntouched(r) /\ messages' = messages
  BY NewStep, FreeStep
  DEF IInv, Idle, new_circular_buffer, free_circular_buffer
<1>2. \A s \in Rings \ {r} : Chunks(s)' = Chunks(s)
  BY <1>1, OtherChunks DEF OthersUntouched
<1>3. CASE r \notin live /\ new_circular_buffer(r)
  BY <1>2, <1>3, NewStep, EmptyChunks DEF IInv, Ownership
<1>4. CASE Idle(r) /\ free_circular_buffer(r)
  BY <1>2, <1>4 DEF free_circular_buffer, Chunks
<1> QED
  BY <1>2, <1>3, <1>4

(* Every operation of a ring is an operation of its queue.                 *)
LEMMA QueueOperation ==
    ASSUME IInv, IInv', NEW r \in Rings, Operation(r)
    PROVE  Queue!Next
<1> DEFINE q == [s \in Rings |-> Chunks(s)]
<1>0. /\ r \in reading <=> dest[r] # -1
      /\ Chunks(r) \in Seq(ChunkRecords)
      /\ r \notin live => Chunks(r) = <<>>
      /\ r \in live => Len(Chunks(r)) = Length(r)
  BY ChunksNow DEF reading, ChunksWellFormed
<1>1. CASE r \notin live /\ new_circular_buffer(r)
  <2>1. q' = q /\ reading' = reading
    BY <1>0, <1>1, OpenOrClosed DEF new_circular_buffer, reading
  <2>2. Queue!Open(r)
    BY <1>1, <2>1 DEF Queue!Open, new_circular_buffer, Fresh
  <2> QED
    BY <2>2 DEF Queue!Next
<1>2. ASSUME Idle(r), NEW b \in Keys, FeedAlloc(r, b)
      PROVE  Queue!Next
  <2>1. q' = [q EXCEPT ![r] = Append(@, Queue!Pending)]
    BY <1>2, AllocChunks DEF Queue!Pending
  <2>2. b # -1
    BY DEF Keys
  <2>3. reading' = reading \union {r}
    BY <1>2, <2>2 DEF FeedAlloc, reading, IInv, Ownership, TypeOK
  <2>4. Queue!Reserve(r)
    BY <1>0, <1>2, <2>1, <2>3, AllocChunks
    DEF Queue!Reserve, Idle, FeedAlloc, alloc_entry
  <2> QED
    BY <2>4 DEF Queue!Next
<1>3. CASE Idle(r) /\ (FeedFull(r) \/ FeedNoBuffer(r))
  <2>1. \A s \in Rings : Chunks(s)' = Chunks(s)
    BY <1>3, OtherChunks DEF Untouched, FeedFull, FeedNoBuffer
  <2>2. q' = q /\ reading' = reading
    BY <1>3, <2>1 DEF FeedFull, FeedNoBuffer, reading
  <2>3. /\ Length(r) \in 0 .. Cap - 1
        /\ Length(r) = Cap - 1 <=> is_full_circular_buffer(r)
    BY Distance DEF Length, is_full_circular_buffer, IInv, Ownership, TypeOK
  <2>4. r \in live \ reading /\ Len(q[r]) = Length(r)
    BY <1>0, <1>3 DEF Idle
  <2>5. FeedFull(r) => Queue!Full(r)
    BY <2>2, <2>3, <2>4 DEF Queue!Full, FeedFull
  <2>6. FeedNoBuffer(r) => Queue!Starved(r)
    BY <2>2, <2>3, <2>4, CapPositive DEF Queue!Starved, FeedNoBuffer
  <2> QED
    BY <1>3, <2>5, <2>6 DEF Queue!Next
<1>4. ASSUME NEW n \in Sizes, NEW d \in Data, FeedRead(r, n, d)
      PROVE  Queue!Next
  <2>1. q' = [q EXCEPT ![r][Len(q[r])] =
                [size |-> n, data |-> IF n > 0 THEN d ELSE Blank]]
    <3>1. /\ q[r]' = [q[r] EXCEPT ![Len(q[r])] =
                        [size |-> n, data |-> IF n > 0 THEN d ELSE Blank]]
          /\ \A s \in Rings \ {r} : q[s]' = q[s]
      BY <1>4, ReadChunks
    <3> QED
      BY <3>1
  <2>2. reading' = reading \ {r}
    BY <1>4 DEF FeedRead, reading, IInv, Ownership, TypeOK
  <2>3. Queue!Deliver(r, n, d)
    BY <1>0, <1>4, <2>1, <2>2 DEF Queue!Deliver, FeedRead
  <2> QED
    BY <2>3 DEF Queue!Next
<1>5. CASE Idle(r) /\ buffer_has_been_sent(r)
  <2>1. q' = [q EXCEPT ![r] = Tail(@)] /\ q[r] # <<>>
    BY <1>5, SentChunks
  <2>2. Queue!Remove(r)
    BY <1>0, <1>5, <2>1 DEF Queue!Remove, Idle, buffer_has_been_sent, reading
  <2> QED
    BY <2>2 DEF Queue!Next
<1>6. CASE Idle(r) /\ free_circular_buffer(r)
  <2>1. q' = [q EXCEPT ![r] = <<>>]
    BY <1>6, OpenOrClosed
  <2>2. Queue!Close(r)
    BY <1>0, <1>6, <2>1
    DEF Queue!Close, Idle, free_circular_buffer, Fresh, reading
  <2> QED
    BY <2>2 DEF Queue!Next
<1> QED
  BY <1>1, <1>2, <1>3, <1>4, <1>5, <1>6 DEF Operation

(* Every ring is a bounded first-in first-out queue of its own chunks,     *)
(* whatever the other rings do with the pool they share: no chunk is lost, *)
(* repeated, reordered or overwritten between its read and its send.       *)
THEOREM RingsAreQueues == Spec => QueueSpec
<1>1. Init => Queue!Init
  BY DEF Init, Queue!Init, Chunks, reading
<1>2. IInv /\ IInv' /\ [Next]_vars => [Queue!Next]_Queue!queueVars
  <2> SUFFICES ASSUME IInv, IInv', [Next]_vars
               PROVE  [Queue!Next]_Queue!queueVars
    OBVIOUS
  <2>1. CASE Next
    BY <2>1, QueueOperation DEF Next
  <2>2. CASE UNCHANGED vars
    <3>1. \A s \in Rings : Chunks(s)' = Chunks(s)
      BY <2>2, OtherChunks DEF Untouched, vars
    <3> QED
      BY <2>2, <3>1 DEF Queue!queueVars, vars, reading
  <2> QED
    BY <2>1, <2>2
<1> QED
  BY <1>1, <1>2, RingsConsistent, PTL DEF Spec, QueueSpec, Queue!Spec
=============================================================================
