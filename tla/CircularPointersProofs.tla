----------------------- MODULE CircularPointersProofs -----------------------
(***************************************************************************)
(* The pointers into a ring of any size, over chunks of any length: they   *)
(* are compared as the stream orders them, their distance is the number of *)
(* bytes between them, and additions, subtractions and copies go exactly   *)
(* as far as they should.                                                  *)
(*                                                                         *)
(* None of this is inductive by itself.  The comparison needs the chunks   *)
(* of the window to follow each other in the stream in the order of the    *)
(* ring (Ordered), and the copy needs them to follow each other without a  *)
(* gap (Contiguous), whatever the reads return.  The others also need the  *)
(* sizes to be those of the chunks (NoneFailed), which the -1 of a read    *)
(* that failed is not; and the loop of the addition has to know, at every  *)
(* round, how far it is from its target (Aiming).  The loops of the other  *)
(* three are functions, computed by induction on the rounds (Loop).        *)
(***************************************************************************)
EXTENDS CircularPointers, RingIndicesProofs, SequenceTheorems,
        WellFoundedInduction, TLAPS

(* The place of an entry in the window, counted without wrapping.          *)
Rank(i) == IF i < last_sent THEN i + Cap ELSE i

(* The bytes of entry i, and where they stop in the stream; a read in      *)
(* error delivers none.                                                    *)
Extent(i) == IF data_sizes[i] > 0 THEN data_sizes[i] ELSE 0
StopOf(i) == start[i] + Extent(i)

Held == Span(last_sent, next_to_be_received)

Types == /\ TypeOK
         /\ add \in [idx : Int, remainder : Int, target : Int, dry : BOOLEAN]
         /\ ptr.buff_pos \in Int

Ordered == /\ \A i \in Held : StopOf(i) <= received
           /\ \A i, j \in Held : Rank(i) < Rank(j) => StopOf(i) <= start[j]

Contiguous ==
    \A i \in Held :
       StopOf(i) = IF circular_increment(i) = next_to_be_received
                   THEN received ELSE start[circular_increment(i)]

NoneFailed == \A i \in Held : data_sizes[i] >= 0

Aiming ==
    add # NotAdding /\ ~add.dry
       => /\ add.idx \in Held
          /\ add.target = start[add.idx] + data_sizes[add.idx] + add.remainder

PInv == Types /\ Ordered /\ Contiguous

AInv == PInv /\ NoneFailed /\ Aiming

-----------------------------------------------------------------------------
(* The window is the span of the indices.                                  *)
LEMMA WindowHeld ==
    ASSUME TypeOK
    PROVE  Window = Held
BY WindowSpan DEF TypeOK, Window, Held

(* The values of the variables are integers.                               *)
LEMMA Numbers ==
    /\ Entries \subseteq Int
    /\ -1 .. MaxSize \subseteq Int
    /\ 1 .. MaxSize \union Ends \subseteq -1 .. MaxSize
    /\ 0 .. Total \subseteq Int
    /\ 0 .. MaxAsk \subseteq Int
<1>1. MaxSize \in Nat \ {0} /\ Total \in Nat /\ MaxAsk \in Nat /\ Ends \subseteq {-1, 0}
  BY PointersAssumption
<1>2. Entries \subseteq Int
  BY CapPositive DEF Entries
<1>3. 1 .. MaxSize \union Ends \subseteq -1 .. MaxSize
  BY <1>1
<1> QED
  BY <1>1, <1>2, <1>3

(* What the two steps that change the ring do to it.                       *)
LEMMA FeedGrows ==
    ASSUME Types, NEW n \in 1 .. MaxSize \union Ends, feed_next_buffer(n)
    PROVE  /\ next_to_be_received \notin Held
           /\ Held' = Held \union {next_to_be_received}
           /\ \A i \in Held : /\ i \in Entries
                              /\ i # next_to_be_received
                              /\ Rank(i) < Rank(next_to_be_received)
                              /\ StopOf(i)' = StopOf(i)
           /\ \A i \in Entries : Rank(i)' = Rank(i)
<1>1. /\ last_sent \in Entries /\ next_to_be_received \in Entries
      /\ circular_increment(next_to_be_received) # last_sent
  BY DEF Types, TypeOK, feed_next_buffer, Full
<1>2. /\ last_sent' = last_sent
      /\ next_to_be_received' = circular_increment(next_to_be_received)
      /\ data_sizes' = [data_sizes EXCEPT ![next_to_be_received] = n]
      /\ start' = [start EXCEPT ![next_to_be_received] = received]
  BY DEF feed_next_buffer
<1>3. /\ Held' = Held \union {next_to_be_received}
      /\ next_to_be_received \notin Held
  BY <1>1, <1>2, Grows DEF Held
<1>4. ASSUME NEW i \in Held
      PROVE  /\ i \in Entries
             /\ i # next_to_be_received
             /\ Rank(i) < Rank(next_to_be_received)
  BY <1>1, <1>3, CapPositive DEF Held, Span, Rank, Entries
<1>5. ASSUME NEW i \in Held
      PROVE  StopOf(i)' = StopOf(i)
  BY <1>2, <1>4 DEF StopOf, Extent, Types, TypeOK
<1> QED
  BY <1>2, <1>3, <1>4, <1>5 DEF Rank

LEMMA SentShrinks ==
    ASSUME Types, BufferSent
    PROVE  /\ Held' = Held \ {last_sent}
           /\ \A i \in Held' : i \in Entries /\ StopOf(i)' = StopOf(i)
           /\ \A i, j \in Held' : Rank(i)' < Rank(j)' => Rank(i) < Rank(j)
<1>1. /\ last_sent \in Entries /\ next_to_be_received \in Entries
      /\ last_sent # next_to_be_received
  BY DEF Types, TypeOK, BufferSent, Empty
<1>2. /\ last_sent' = circular_increment(last_sent)
      /\ data_sizes' = [data_sizes EXCEPT ![last_sent] = -1]
      /\ UNCHANGED <<start, next_to_be_received>>
  BY DEF BufferSent
<1>3. Held' = Held \ {last_sent}
  BY <1>1, <1>2, Shrinks DEF Held
<1>4. ASSUME NEW i \in Held'
      PROVE  i \in Entries /\ StopOf(i)' = StopOf(i)
  BY <1>2, <1>3 DEF StopOf, Extent, Held, Span, Types, TypeOK
<1>5. ASSUME NEW i \in Held', NEW j \in Held', Rank(i)' < Rank(j)'
      PROVE  Rank(i) < Rank(j)
  <2>1. /\ i \in Entries /\ j \in Entries /\ i # last_sent /\ j # last_sent
        /\ i \in Held /\ j \in Held
    BY <1>3, <1>4
  <2>2. last_sent' = IF last_sent + 1 = Cap THEN 0 ELSE last_sent + 1
    BY <1>1, <1>2, Wraps
  <2> QED
    BY <1>1, <1>5, <2>1, <2>2, CapPositive DEF Rank, Entries, Held, Span
<1> QED
  BY <1>3, <1>4, <1>5

-----------------------------------------------------------------------------
LEMMA TypesInit == Init => Types
<1> SUFFICES ASSUME Init PROVE Types
  OBVIOUS
<1>1. 0 \in Entries /\ 0 \in 0 .. Total /\ -1 \in -1 .. MaxSize
  BY CapPositive, PointersAssumption DEF Entries
<1> QED
  BY <1>1 DEF Init, Types, TypeOK, NotAdding, At

LEMMA FeedTypes ==
    ASSUME Types, NEW n \in 1 .. MaxSize \union Ends, feed_next_buffer(n)
    PROVE  /\ data_sizes' \in [Entries -> -1 .. MaxSize]
           /\ last_sent' \in Entries /\ next_to_be_received' \in Entries
           /\ start' \in [Entries -> 0 .. Total]
           /\ received' \in 0 .. Total
<1>1. n \in -1 .. MaxSize /\ Total \in Nat
  BY PointersAssumption
<1>2. next_to_be_received' \in Entries
  BY Wraps DEF Types, TypeOK, feed_next_buffer
<1>3. received' \in 0 .. Total
  BY <1>1, PointersAssumption DEF Types, TypeOK, feed_next_buffer
<1> QED
  BY <1>1, <1>2, <1>3 DEF Types, TypeOK, feed_next_buffer

LEMMA TypesStep == Types /\ [Next]_vars => Types'
<1> SUFFICES ASSUME Types, [Next]_vars PROVE Types'
  OBVIOUS
<1> USE DEF Types, TypeOK
<1>1. ASSUME NEW i \in Entries
      PROVE  /\ data_sizes[i] \in Int /\ i \in Int
             /\ circular_increment(i) \in Entries
  BY Wraps, Numbers
<1>2. ASSUME NEW size \in Int, NEW got \in BOOLEAN,
             add # NotAdding, NextRound(size, got)
      PROVE  /\ add' = NotAdding \/ add.idx' \in Entries
             /\ add' \in [idx : Int, remainder : Int, target : Int, dry : BOOLEAN]
  <2>1. /\ add.idx \in Entries
        /\ circular_increment(add.idx) \in Entries
        /\ circular_increment(add.idx) \in Int
    BY <1>1, <1>2
  <2>2. add' = [add EXCEPT !.idx = circular_increment(@),
                       !.remainder = @ - size,
                       !.dry = @ \/ ~got]
    BY <1>2 DEF NextRound
  <2>3. (add.dry \/ ~got) \in BOOLEAN
    OBVIOUS
  <2>4. add.idx' = circular_increment(add.idx)
    BY <2>2
  <2>5. add.remainder - size \in Int
    BY <1>2
  <2>6. add' \in [idx : Int, remainder : Int, target : Int, dry : BOOLEAN]
    <3> HIDE DEF TypeOK
    <3> QED
      BY <2>1, <2>2, <2>3, <2>5
  <2> QED
    BY <2>1, <2>4, <2>6
<1>3. ASSUME NEW n \in 1 .. MaxSize \union Ends, Feed(n)
      PROVE  Types'
  BY <1>3, FeedTypes DEF Feed
<1>4. ASSUME NEW n \in 1 .. MaxSize \union Ends, AddFeed(n)
      PROVE  Types'
  <2>1. n \in Int /\ (n > 0) \in BOOLEAN
    BY PointersAssumption
  <2>2. add # NotAdding /\ NextRound(n, n > 0) /\ UNCHANGED ptr
    BY <1>4 DEF AddFeed, Going
  <2> QED
    BY <1>2, <1>4, <2>1, <2>2, FeedTypes DEF AddFeed
<1>5. CASE BufferSent
  <2>1. -1 \in -1 .. MaxSize
    BY PointersAssumption
  <2> QED
    BY <1>1, <1>5, <2>1 DEF BufferSent
<1>6. ASSUME NEW ask \in 0 .. MaxAsk, AddStart(ask)
      PROVE  Types'
  <2>1. ptr.circ_index \in Entries /\ ask \in Int /\ start[ptr.circ_index] \in Int
    BY PointersAssumption
  <2>2. data_sizes[ptr.circ_index] \in Int /\ ptr.circ_index \in Int
    BY <1>1, <2>1
  <2>3. /\ add'.idx \in Entries
        /\ add' \in [idx : Int, remainder : Int, target : Int, dry : BOOLEAN]
    BY <1>6, <2>1, <2>2 DEF AddStart, Position
  <2> QED
    BY <1>6, <2>3 DEF AddStart, ring
<1>7. CASE AddRound \/ AddFull
  <2>1. add.idx \in Entries /\ add # NotAdding /\ UNCHANGED <<ring, ptr>>
    BY <1>7 DEF AddRound, AddFull, Going
  <2>2. NextSize \in Int
    BY <1>1, <2>1 DEF NextSize
  <2>3. \E got \in BOOLEAN : NextRound(NextSize, got)
    BY <1>7 DEF AddRound, AddFull
  <2> QED
    BY <1>2, <2>1, <2>2, <2>3 DEF ring
<1>8. CASE AddEnd
  <2>1. add.idx \in Entries /\ add.remainder \in Int
    BY <1>8 DEF AddEnd
  <2>2. ptr'.circ_index \in Entries /\ ptr'.buff_pos \in Int
    BY <1>1, <1>8, <2>1 DEF AddEnd, At
  <2>3. NotAdding \in [idx : Int, remainder : Int, target : Int, dry : BOOLEAN]
    BY DEF NotAdding
  <2> QED
    BY <1>8, <2>2, <2>3 DEF AddEnd, ring
<1>9. CASE UNCHANGED vars
  BY <1>9 DEF vars, ring
<1> QED
  BY <1>3, <1>4, <1>5, <1>6, <1>7, <1>8, <1>9 DEF Next

-----------------------------------------------------------------------------
LEMMA OrderedInit == Init => Ordered
<1> SUFFICES ASSUME Init PROVE Ordered
  OBVIOUS
<1>1. 0 \in Entries
  BY CapPositive DEF Entries
<1>2. Held = {}
  BY <1>1, EmptySpan DEF Init, Held
<1> QED
  BY <1>2 DEF Ordered

LEMMA FeedOrders ==
    ASSUME Types, Ordered, NEW n \in 1 .. MaxSize \union Ends,
           feed_next_buffer(n)
    PROVE  Ordered'
<1> DEFINE new == next_to_be_received
<1>1. /\ new \in Entries /\ n \in Int /\ received \in Int
      /\ received' = IF n > 0 THEN received + n ELSE received
      /\ start'[new] = received
      /\ data_sizes'[new] = n
  BY Numbers DEF Types, TypeOK, feed_next_buffer
<1>2. \A i \in Entries : i = new => StopOf(i)' = received'
  BY <1>1 DEF StopOf, Extent
<1>3. \A i \in Held : StopOf(i) \in Int
  BY Numbers DEF Types, TypeOK, StopOf, Extent, Held, Span
<1>4. ASSUME NEW i \in Held'
      PROVE  StopOf(i)' <= received'
  <2>1. CASE i = new
    BY <1>1, <1>2, <2>1, Numbers
  <2>2. CASE i # new
    <3>1. i \in Held /\ StopOf(i)' = StopOf(i)
      BY <2>2, FeedGrows
    <3> QED
      BY <1>1, <1>3, <3>1 DEF Ordered
  <2> QED
    BY <2>1, <2>2
<1>5. ASSUME NEW i \in Held', NEW j \in Held', Rank(i)' < Rank(j)'
      PROVE  StopOf(i)' <= start'[j]
  <2>1. /\ i \in Entries /\ j \in Entries /\ new \in Entries
        /\ Rank(i) < Rank(j)
    BY <1>1, <1>5, FeedGrows
  <2>2. Rank(i) \in Int /\ Rank(j) \in Int
    BY <2>1, Numbers, CapPositive DEF Rank
  <2>3. i # new
    <3>1. CASE j = new
      BY <2>1, <2>2, <3>1
    <3>2. CASE j # new
      BY <2>1, <2>2, <3>2, FeedGrows
    <3> QED
      BY <3>1, <3>2
  <2>4. i \in Held /\ StopOf(i)' = StopOf(i) /\ StopOf(i) <= received
    BY <2>3, FeedGrows DEF Ordered
  <2>5. CASE j = new
    BY <1>1, <2>4, <2>5
  <2>6. CASE j # new
    <3>1. j \in Held /\ start'[j] = start[j]
      BY <2>1, <2>6, FeedGrows DEF feed_next_buffer, Types, TypeOK
    <3> QED
      BY <2>1, <2>4, <3>1 DEF Ordered
  <2> QED
    BY <2>5, <2>6
<1> QED
  BY <1>4, <1>5 DEF Ordered

LEMMA OrderedStep == PInv /\ [Next]_vars => Ordered'
<1> SUFFICES ASSUME PInv, [Next]_vars PROVE Ordered'
  OBVIOUS
<1> USE DEF PInv
<1>1. ASSUME NEW n \in 1 .. MaxSize \union Ends, Feed(n) \/ AddFeed(n)
      PROVE  Ordered'
  BY <1>1, FeedOrders DEF Feed, AddFeed
<1>2. CASE BufferSent
  <2>1. UNCHANGED <<start, received>>
    BY <1>2 DEF BufferSent
  <2>2. \A i \in Held' : StopOf(i)' <= received'
    BY <1>2, <2>1, SentShrinks DEF Ordered
  <2>3. ASSUME NEW i \in Held', NEW j \in Held', Rank(i)' < Rank(j)'
        PROVE  StopOf(i)' <= start'[j]
    BY <1>2, <2>1, <2>3, SentShrinks DEF Ordered
  <2> QED
    BY <2>2, <2>3 DEF Ordered
<1>3. CASE UNCHANGED ring
  BY <1>3 DEF ring, Ordered, StopOf, Extent, Held, Rank
<1>4. \/ UNCHANGED ring
      \/ BufferSent
      \/ \E n \in 1 .. MaxSize \union Ends : Feed(n) \/ AddFeed(n)
  BY DEF Next, AddStart, AddRound, AddFull, AddEnd, vars
<1> QED
  BY <1>1, <1>2, <1>3, <1>4

Numeric == /\ data_sizes \in [Entries -> Int] /\ start \in [Entries -> Int]
           /\ last_sent \in Entries /\ next_to_be_received \in Entries

LEMMA TypesNumeric == TypeOK => Numeric
BY Numbers DEF TypeOK, Numeric

LEMMA Integral ==
    ASSUME Numeric
    PROVE  /\ data_sizes \in [Entries -> Int] /\ start \in [Entries -> Int]
           /\ Entries \subseteq Int /\ Cap \in Nat \ {0}
           /\ last_sent \in Entries /\ next_to_be_received \in Entries
BY Numbers, CapPositive DEF Numeric

(* A pointer a caller may have points into or to the end of a chunk of the *)
(* window.                                                                 *)
LEMMA ValidPointer ==
    ASSUME TypeOK, NEW p \in Valid
    PROVE  /\ p.circ_index \in Held /\ p.circ_index \in Entries
           /\ p.buff_pos \in Nat /\ p.buff_pos <= data_sizes[p.circ_index]
           /\ Position(p) = start[p.circ_index] + p.buff_pos
<1>1. /\ p.circ_index \in Held
      /\ p.buff_pos \in 0 .. MaxSize
      /\ p.buff_pos <= data_sizes[p.circ_index]
  BY WindowHeld DEF Valid, Pointers, At
<1>2. p.circ_index \in Entries
  BY <1>1 DEF Held, Span
<1>3. p.buff_pos \in Nat
  BY <1>1, PointersAssumption
<1> QED
  BY <1>1, <1>2, <1>3 DEF Position

(* Pointers into different entries compare as these follow each other.     *)
LEMMA CompareRanks ==
    ASSUME Numeric, NEW p, NEW q, p.circ_index # q.circ_index,
           p.circ_index \in Held, q.circ_index \in Held
    PROVE  /\ Rank(p.circ_index) < Rank(q.circ_index) => cmp_circular_ptr(p, q) < 0
           /\ Rank(q.circ_index) < Rank(p.circ_index) => cmp_circular_ptr(p, q) > 0
           /\ \/ Rank(p.circ_index) < Rank(q.circ_index)
              \/ Rank(q.circ_index) < Rank(p.circ_index)
           /\ cmp_circular_ptr(p, q) \in Int
<1> DEFINE i == p.circ_index
           j == q.circ_index
           offset == IF last_sent > next_to_be_received THEN Cap ELSE 0
           Unwrapped(k) == IF k <= next_to_be_received THEN k + offset ELSE k
<1>1. /\ i \in Held /\ j \in Held /\ i # j
      /\ i \in Entries /\ j \in Entries
      /\ last_sent \in Entries /\ next_to_be_received \in Entries
  BY Integral DEF Held, Span
<1>2. cmp_circular_ptr(p, q) = Unwrapped(i) - Unwrapped(j)
  BY DEF cmp_circular_ptr
<1> HIDE DEF i, j
<1>3. /\ Rank(i) < Rank(j) => Unwrapped(i) < Unwrapped(j)
      /\ Rank(j) < Rank(i) => Unwrapped(j) < Unwrapped(i)
      /\ Rank(i) < Rank(j) \/ Rank(j) < Rank(i)
  BY <1>1, CapPositive DEF Rank, Held, Span, Entries
<1>4. Unwrapped(i) \in Int /\ Unwrapped(j) \in Int
  BY <1>1, CapPositive DEF Entries
<1> HIDE DEF Unwrapped
<1>5. /\ Rank(i) < Rank(j) => cmp_circular_ptr(p, q) < 0
      /\ Rank(j) < Rank(i) => cmp_circular_ptr(p, q) > 0
      /\ cmp_circular_ptr(p, q) \in Int
  BY <1>2, <1>3, <1>4
<1> QED
  BY <1>3, <1>5 DEF i, j

LEMMA NotAfter ==
    ASSUME Numeric, NEW p, NEW q, cmp_circular_ptr(p, q) <= 0,
           p.circ_index \in Held, q.circ_index \in Held
    PROVE  Rank(p.circ_index) <= Rank(q.circ_index)
<1>1. Rank(p.circ_index) \in Int /\ Rank(q.circ_index) \in Int
  BY Integral DEF Rank, Held, Span
<1>2. CASE p.circ_index = q.circ_index
  BY <1>1, <1>2
<1>3. CASE p.circ_index # q.circ_index
  <2>1. /\ Rank(q.circ_index) < Rank(p.circ_index) => cmp_circular_ptr(p, q) > 0
        /\ \/ Rank(p.circ_index) < Rank(q.circ_index)
           \/ Rank(q.circ_index) < Rank(p.circ_index)
        /\ cmp_circular_ptr(p, q) \in Int
    BY <1>3, CompareRanks
  <2> QED
    BY <1>1, <2>1
<1> QED
  BY <1>2, <1>3

(* The pointers of a caller compare as the stream orders them: the entries *)
(* of two pointers of the window, when they differ, follow each other in   *)
(* the ring as their chunks do in the stream.                              *)
LEMMA OrderedCompares == PInv => CmpOrders
<1> SUFFICES ASSUME PInv,
                    NEW p \in Valid, NEW q \in Valid, Position(p) < Position(q)
             PROVE  cmp_circular_ptr(p, q) < 0 /\ cmp_circular_ptr(q, p) > 0
  BY DEF CmpOrders
<1> DEFINE i == p.circ_index
           j == q.circ_index
           m == p.buff_pos
           n == q.buff_pos
<1>1. /\ i \in Held /\ i \in Entries /\ m \in Nat
      /\ j \in Held /\ j \in Entries /\ n \in Nat /\ n <= data_sizes[j]
      /\ start[i] + m < start[j] + n
  BY ValidPointer DEF PInv, Types
<1>2. /\ start[i] \in Int /\ start[j] \in Int /\ data_sizes[j] \in Int
      /\ Numeric
  BY <1>1, Integral, TypesNumeric DEF PInv, Types
<1>3. ~(Rank(j) < Rank(i))
  <2> SUFFICES ASSUME Rank(j) < Rank(i)
               PROVE  FALSE
    OBVIOUS
  <2>1. StopOf(j) <= start[i]
    BY <1>1 DEF PInv, Ordered
  <2>2. start[j] + data_sizes[j] <= StopOf(j) /\ StopOf(j) \in Int
    BY <1>2 DEF StopOf, Extent
  <2> HIDE DEF i, j, m, n
  <2> QED
    BY <1>1, <1>2, <2>1, <2>2
<1>4. CASE i = j
  <2>1. m < n
    BY <1>1, <1>2, <1>4
  <2> HIDE DEF m, n
  <2>2. cmp_circular_ptr(p, q) = m - n /\ cmp_circular_ptr(q, p) = n - m
    BY <1>4 DEF cmp_circular_ptr, m, n
  <2> QED
    BY <1>1, <2>1, <2>2
<1>5. CASE i # j
  BY <1>1, <1>2, <1>3, <1>5, CompareRanks
<1> QED
  BY <1>4, <1>5

-----------------------------------------------------------------------------
(* The chunks follow each other without a gap, and none of them has the    *)
(* size -1 if no read ends in error.                                       *)

LEMMA AimInit == Init => Contiguous /\ NoneFailed /\ Aiming
<1> SUFFICES ASSUME Init PROVE Contiguous /\ NoneFailed /\ Aiming
  OBVIOUS
<1>1. 0 \in Entries
  BY CapPositive DEF Entries
<1>2. Held = {}
  BY <1>1, EmptySpan DEF Init, Held
<1> QED
  BY <1>2 DEF Contiguous, NoneFailed, Aiming, Init

LEMMA FeedContinues ==
    ASSUME Types, Contiguous,
           NEW n \in 1 .. MaxSize \union Ends, feed_next_buffer(n)
    PROVE  Contiguous'
<1> DEFINE new == next_to_be_received
<1>1. /\ n \in Int
      /\ received \in Int
      /\ new \in Entries /\ last_sent \in Entries
      /\ next_to_be_received' = circular_increment(new)
      /\ received' = IF n > 0 THEN received + n ELSE received
      /\ start'[new] = received
      /\ data_sizes'[new] = n
  BY Numbers, PointersAssumption DEF Types, TypeOK, feed_next_buffer
<1>2. circular_increment(new) # new
  BY <1>1, CapPositive, Wraps DEF feed_next_buffer, Full, Entries
<1>3. ASSUME NEW i \in Held', i = new
      PROVE  /\ StopOf(i)' = received'
             /\ circular_increment(i) = next_to_be_received'
  BY <1>1, <1>3 DEF StopOf, Extent
<1>4. ASSUME NEW i \in Held', i # new
      PROVE  /\ StopOf(i)' = start'[circular_increment(i)]
             /\ circular_increment(i) # next_to_be_received'
  <2>1. i \in Held /\ i \in Entries /\ StopOf(i)' = StopOf(i)
    BY <1>4, FeedGrows
  <2>2. circular_increment(i) # circular_increment(new)
    BY <1>1, <1>4, <2>1, Wraps
  <2>3. circular_increment(i) \in Entries
    BY <2>1, Wraps
  <2>4. CASE circular_increment(i) = new
    BY <1>1, <1>2, <2>1, <2>4 DEF Contiguous
  <2>5. CASE circular_increment(i) # new
    <3>1. start'[circular_increment(i)] = start[circular_increment(i)]
      BY <2>3, <2>5 DEF feed_next_buffer, Types, TypeOK
    <3> QED
      BY <1>1, <2>1, <2>2, <2>5, <3>1 DEF Contiguous
  <2> QED
    BY <2>4, <2>5
<1>5. ASSUME NEW i \in Held'
      PROVE  StopOf(i)' = IF circular_increment(i) = next_to_be_received'
                          THEN received' ELSE start'[circular_increment(i)]
  BY <1>3, <1>4
<1> QED
  BY <1>5 DEF Contiguous, circular_increment

LEMMA ContiguousStep == PInv /\ [Next]_vars => Contiguous'
<1> SUFFICES ASSUME PInv, [Next]_vars PROVE Contiguous'
  OBVIOUS
<1> USE DEF PInv
<1>1. ASSUME NEW n \in 1 .. MaxSize \union Ends, Feed(n) \/ AddFeed(n)
      PROVE  Contiguous'
  BY <1>1, FeedContinues DEF Feed, AddFeed
<1>2. CASE BufferSent
  <2>1. ASSUME NEW i \in Held'
        PROVE  i \in Held /\ StopOf(i)' = StopOf(i)
    BY <1>2, SentShrinks
  <2>2. UNCHANGED <<start, received, next_to_be_received>>
    BY <1>2 DEF BufferSent
  <2> QED
    BY <2>1, <2>2 DEF Contiguous, circular_increment
<1>3. CASE UNCHANGED ring
  <2>1. Held' = Held /\ \A i : StopOf(i)' = StopOf(i)
    BY <1>3 DEF ring, Held, StopOf, Extent
  <2> QED
    BY <1>3, <2>1 DEF ring, Contiguous, circular_increment
<1>4. \/ UNCHANGED ring
      \/ BufferSent
      \/ \E n \in 1 .. MaxSize \union Ends : Feed(n) \/ AddFeed(n)
  BY DEF Next, AddStart, AddRound, AddFull, AddEnd, vars
<1> QED
  BY <1>1, <1>2, <1>3, <1>4

LEMMA NoneFailedStep ==
    ASSUME Ends \subseteq {0}, AInv, [Next]_vars
    PROVE  NoneFailed'
<1> USE DEF AInv, PInv
<1>1. ASSUME NEW n \in 1 .. MaxSize \union Ends, Feed(n) \/ AddFeed(n),
             NEW i \in Held'
      PROVE  data_sizes'[i] >= 0
  <2>1. feed_next_buffer(n) /\ n >= 0
    BY <1>1, PointersAssumption DEF Feed, AddFeed
  <2>2. CASE i = next_to_be_received
    BY <2>1, <2>2 DEF feed_next_buffer, Types, TypeOK
  <2>3. CASE i # next_to_be_received
    <3>1. i \in Held /\ i \in Entries
      BY <1>1, <2>1, <2>3, FeedGrows
    <3> QED
      BY <2>1, <2>3, <3>1 DEF feed_next_buffer, NoneFailed, Types, TypeOK
  <2> QED
    BY <2>2, <2>3
<1>2. ASSUME BufferSent, NEW i \in Held'
      PROVE  data_sizes'[i] >= 0
  <2>1. i \in Held /\ i # last_sent /\ i \in Entries
    BY <1>2, SentShrinks DEF Held, Span
  <2> QED
    BY <1>2, <2>1 DEF BufferSent, NoneFailed, Types, TypeOK
<1>3. CASE UNCHANGED ring
  BY <1>3 DEF ring, NoneFailed, Held
<1>4. \/ UNCHANGED ring
      \/ BufferSent
      \/ \E n \in 1 .. MaxSize \union Ends : Feed(n) \/ AddFeed(n)
  BY DEF Next, AddStart, AddRound, AddFull, AddEnd, vars
<1> QED
  BY <1>1, <1>2, <1>3, <1>4 DEF NoneFailed

(* The bytes of an entry that did not fail are those of its size.          *)
LEMMA Unfailed ==
    ASSUME Numeric, NoneFailed, NEW i \in Held
    PROVE  data_sizes[i] \in Nat /\ Extent(i) = data_sizes[i]
                                 /\ StopOf(i) = start[i] + data_sizes[i]
<1>1. data_sizes[i] \in Int /\ data_sizes[i] >= 0
  BY Integral DEF NoneFailed, Held, Span
<1> QED
  BY <1>1 DEF StopOf, Extent

(* After an entry of the window, unless it is the last one, comes another. *)
LEMMA NextHeld ==
    ASSUME NEW i \in Held, circular_increment(i) # next_to_be_received,
           last_sent \in Entries, next_to_be_received \in Entries
    PROVE  circular_increment(i) \in Held /\ circular_increment(i) \in Entries
<1>1. i \in Entries
  BY DEF Held, Span
<1>2. /\ circular_increment(i) = IF i + 1 = Cap THEN 0 ELSE i + 1
      /\ circular_increment(i) \in Entries
  BY <1>1, Wraps
<1> QED
  BY <1>1, <1>2, CapPositive DEF Held, Span, Entries

(* A round that got data leaves the loop as far from its target as its     *)
(* remainder says.                                                         *)
LEMMA RoundAims ==
    ASSUME AInv, Going, ~add.dry,
           NEW size \in Int, NEW got \in BOOLEAN, NextRound(size, got),
           circular_increment(add.idx) \in Held',
           start'[circular_increment(add.idx)]
             = start[add.idx] + data_sizes[add.idx],
           data_sizes'[circular_increment(add.idx)] = size
    PROVE  Aiming'
<1> USE DEF AInv, PInv, Types
<1>1. /\ add.idx \in Held /\ add.idx \in Entries
      /\ add.target = start[add.idx] + data_sizes[add.idx] + add.remainder
  BY DEF Going, Aiming, Held, Span
<1>2. /\ add'.idx = circular_increment(add.idx)
      /\ add'.remainder = add.remainder - size
      /\ add'.target = add.target
  BY DEF NextRound
<1>3. /\ start[add.idx] \in Int /\ data_sizes[add.idx] \in Int
      /\ add.remainder \in Int
  BY <1>1, Numbers DEF TypeOK
<1>4. add'.target = start'[add'.idx] + data_sizes'[add'.idx] + add'.remainder
  BY <1>1, <1>2, <1>3
<1> QED
  BY <1>2, <1>4 DEF Aiming

LEMMA AimingStep ==
    ASSUME Ends \subseteq {0}, AInv, [Next]_vars
    PROVE  Aiming'
<1> USE DEF AInv, PInv, Types
<1>1. ASSUME UNCHANGED <<start, data_sizes>>,
             UNCHANGED <<last_sent, next_to_be_received, add>>
      PROVE  Aiming'
  BY <1>1 DEF Aiming, Held
<1>2. ASSUME add = NotAdding, UNCHANGED add
      PROVE  Aiming'
  BY <1>2 DEF Aiming
<1>3. ASSUME add' = NotAdding
      PROVE  Aiming'
  BY <1>3 DEF Aiming
<1>4. ASSUME NEW ask \in 0 .. MaxAsk, AddStart(ask)
      PROVE  Aiming'
  <2> DEFINE i == ptr.circ_index
  <2>1. i \in Held /\ i \in Entries
    BY <1>4, WindowHeld DEF AddStart, TypeOK
  <2>2. /\ ask \in Int /\ ptr.buff_pos \in Int
        /\ start[i] \in Int /\ data_sizes[i] \in Int
    BY <2>1, Numbers DEF TypeOK
  <2>3. /\ UNCHANGED <<start, data_sizes, last_sent, next_to_be_received>>
        /\ add'.idx = i
        /\ add'.target = start[i] + ptr.buff_pos + ask
        /\ add'.remainder = ask + ptr.buff_pos - data_sizes[i]
    BY <1>4 DEF AddStart, ring, Position
  <2>4. add'.target = start[i] + data_sizes[i] + add'.remainder
    BY <2>2, <2>3
  <2> QED
    BY <2>1, <2>3, <2>4 DEF Aiming, Held
<1>5. CASE AddRound
  <2>1. CASE add.dry
    BY <1>5, <2>1 DEF AddRound, NextRound, Aiming
  <2>2. CASE ~add.dry
    <3> DEFINE j == circular_increment(add.idx)
    <3>1. /\ Going /\ j # next_to_be_received
          /\ NextRound(data_sizes[j], TRUE)
          /\ UNCHANGED <<start, data_sizes, last_sent, next_to_be_received>>
      BY <1>5 DEF AddRound, AtLast, NextSize, ring
    <3>2. add.idx \in Held
      BY <2>2, <3>1 DEF Aiming, Going
    <3>3. j \in Held /\ j \in Entries
      BY <3>1, <3>2, NextHeld DEF TypeOK
    <3>4. start[j] = start[add.idx] + data_sizes[add.idx]
      BY <3>1, <3>2, Unfailed, TypesNumeric DEF Contiguous
    <3>5. data_sizes[j] \in Int /\ Held' = Held
      BY <3>1, <3>3, Numbers DEF TypeOK, Held
    <3> HIDE DEF AInv, PInv, Types
    <3> QED
      BY <2>2, <3>1, <3>3, <3>4, <3>5, RoundAims
  <2> QED
    BY <2>1, <2>2
<1>6. ASSUME NEW n \in 1 .. MaxSize \union Ends, AddFeed(n)
      PROVE  Aiming'
  <2>1. CASE add.dry \/ ~(n > 0)
    BY <1>6, <2>1 DEF AddFeed, NextRound, Aiming
  <2>2. CASE ~(add.dry \/ ~(n > 0))
    <3> DEFINE j == circular_increment(add.idx)
    <3>1. /\ Going /\ j = next_to_be_received
          /\ feed_next_buffer(n) /\ NextRound(n, n > 0)
      BY <1>6 DEF AddFeed, AtLast
    <3>2. add.idx \in Held /\ next_to_be_received \in Entries
      BY <2>2, <3>1 DEF Aiming, Going, TypeOK
    <3>3. start[add.idx] + data_sizes[add.idx] = received
      BY <3>1, <3>2, Unfailed, TypesNumeric DEF Contiguous
    <3>4. j \in Held'
      BY <3>1, FeedGrows
    <3>5. start'[j] = received /\ data_sizes'[j] = n
      BY <3>1, <3>2 DEF feed_next_buffer, TypeOK
    <3>6. n \in Int /\ (n > 0) \in BOOLEAN
      BY Numbers
    <3> HIDE DEF AInv, PInv, Types
    <3> QED
      BY <2>2, <3>1, <3>3, <3>4, <3>5, <3>6, RoundAims
  <2> QED
    BY <2>1, <2>2
<1>7. CASE AddFull
  BY <1>7 DEF AddFull, NextRound, Aiming
<1> QED
  BY <1>1, <1>2, <1>3, <1>4, <1>5, <1>6, <1>7
  DEF Next, Feed, BufferSent, AddEnd, vars, ring

(* When the loop ends, the pointer it leaves is at its target.             *)
LEMMA EndHitsTarget ==
    ASSUME Types, Aiming
    PROVE  AddEnd /\ ~add.dry => Position(ptr') = add.target
<1> SUFFICES ASSUME AddEnd, ~add.dry
             PROVE  Position(ptr') = add.target
  OBVIOUS
<1>1. /\ add.idx \in Entries /\ add.remainder \in Int
      /\ add.target = start[add.idx] + data_sizes[add.idx] + add.remainder
  BY DEF AddEnd, Aiming, Held, Span, Types
<1>2. start[add.idx] \in Int /\ data_sizes[add.idx] \in Int
  BY <1>1, Numbers DEF Types, TypeOK
<1>3. Position(ptr')
        = start[add.idx] + (add.remainder + data_sizes[add.idx])
  BY DEF AddEnd, Position, At
<1> QED
  BY <1>1, <1>2, <1>3

-----------------------------------------------------------------------------
(* The loops of the pure functions.  A loop that changes a value of V in   *)
(* round k as `step' says computes the function it is written as.          *)

LEMMA Smallest ==
    ASSUME NEW S \in SUBSET Nat, S # {}
    PROVE  Min(S) \in S /\ \A n \in S : Min(S) <= n
<1> DEFINE Less == {ss \in Nat \X Nat : ss[1] < ss[2]}
<1>1. Less = OpToRel(<, Nat)
  BY Zenon DEF OpToRel
<1>2. IsWellFoundedOn(Less, Nat)
  BY <1>1, NatLessThanWellFounded, Zenon
<1>3. PICK m \in S : \A n \in S : ~(<<n, m>> \in Less)
  BY <1>2, WFMin, Zenon
<1>4. \A n \in S : n < m => <<n, m>> \in Less
  OBVIOUS
<1>5. ASSUME NEW n \in S
      PROVE  m <= n
  <2>1. ~(n < m)
    BY <1>3, <1>4, Zenon
  <2> QED
    BY <2>1
<1> QED
  BY <1>5 DEF Min

LEMMA Induction ==
    ASSUME NEW T \in SUBSET Nat, 0 \in T, \A n \in T : n + 1 \in T
    PROVE  Nat \subseteq T
<1> SUFFICES ASSUME Nat \ T # {} PROVE FALSE
  OBVIOUS
<1> DEFINE m == Min(Nat \ T)
<1>1. m \in Nat \ T /\ \A n \in Nat \ T : m <= n
  <2>1. Nat \ T \in SUBSET Nat
    OBVIOUS
  <2> QED
    BY <2>1, Smallest
<1> HIDE DEF m
<1>2. m - 1 \in T
  BY <1>1
<1>3. (m - 1) + 1 \in T
  BY <1>2
<1> QED
  BY <1>1, <1>3

(* Where a loop counts its rounds round the ring, it stays in it.          *)
LEMMA AnyIndex ==
    ASSUME NEW i \in Int
    PROVE  i % Cap \in Entries
BY CapPositive DEF Entries

Computes(f, n, init, step) ==
    f = [k \in 0 .. n |-> IF k = 0 THEN init ELSE step[<<f[k - 1], k>>]]

LEMMA Loop ==
    ASSUME NEW V, NEW init \in V, NEW n \in Nat,
           NEW step \in [V \X (1 .. n) -> V]
    PROVE  \E f \in [0 .. n -> V] : Computes(f, n, init, step)
<1> DEFINE T == {m \in Nat : m <= n => \E f \in [0 .. m -> V] :
                                          Computes(f, m, init, step)}
<1>1. 0 \in T
  <2> DEFINE f == [k \in 0 .. 0 |-> init]
  <2>1. f \in [0 .. 0 -> V] /\ Computes(f, 0, init, step)
    BY DEF Computes
  <2> QED
    BY <2>1
<1>2. ASSUME NEW m \in T, m + 1 <= n
      PROVE  \E f \in [0 .. m + 1 -> V] : Computes(f, m + 1, init, step)
  <2>1. PICK f \in [0 .. m -> V] : Computes(f, m, init, step)
    BY <1>2
  <2> DEFINE next == step[<<f[m], m + 1>>]
             value(k) == IF k = m + 1 THEN next ELSE f[k]
             g == [k \in 0 .. m + 1 |-> value(k)]
  <2>2. m \in Nat /\ f[m] \in V /\ m + 1 \in 1 .. n
    BY <1>2
  <2>3. next \in V
    <3>1. <<f[m], m + 1>> \in V \X (1 .. n)
      BY <2>2
    <3> QED
      BY <3>1
  <2> HIDE DEF next
  <2>4. g \in [0 .. m + 1 -> V]
    <3>1. ASSUME NEW k \in 0 .. m + 1
          PROVE  value(k) \in V
      <4>1. k # m + 1 => k \in 0 .. m
        BY <2>2
      <4> QED
        BY <2>3, <4>1
    <3> HIDE DEF value
    <3> QED
      BY <3>1
  <2>5. ASSUME NEW k \in 0 .. m + 1
        PROVE  g[k] = IF k = 0 THEN init ELSE step[<<g[k - 1], k>>]
    <3>1. CASE k = m + 1
      <4>1. k # 0 /\ k - 1 = m /\ m # m + 1 /\ m \in 0 .. m + 1
        BY <2>2, <3>1
      <4>2. g[k] = step[<<f[m], k>>] /\ g[k - 1] = f[m]
        BY <3>1, <4>1 DEF next
      <4> HIDE DEF g
      <4> QED
        BY <4>1, <4>2
    <3>2. CASE k # m + 1
      <4>1. k \in 0 .. m /\ g[k] = f[k]
        BY <2>2, <3>2
      <4>2. f[k] = IF k = 0 THEN init ELSE step[<<f[k - 1], k>>]
        BY <2>1, <4>1 DEF Computes
      <4>3. k # 0 => g[k - 1] = f[k - 1]
        BY <2>2, <4>1
      <4> QED
        BY <4>1, <4>2, <4>3
    <3> QED
      BY <3>1, <3>2
  <2>6. Computes(g, m + 1, init, step)
    BY <2>5 DEF Computes
  <2> QED
    BY <2>4, <2>6
<1>3. \A m \in T : m + 1 \in T
  BY <1>2
<1>4. n \in T
  <2> HIDE DEF T
  <2>1. T \in SUBSET Nat
    BY DEF T
  <2> QED
    BY <1>1, <1>3, <2>1, Induction
<1> QED
  BY <1>4

(* op_distance_circ_pointers is the loop it is written as.                 *)
LEMMA DistanceLoop ==
    ASSUME Numeric, NEW p, NEW q, p.circ_index \in Entries, p.buff_pos \in Int
    PROVE  \E result :
              /\ result[0] = data_sizes[p.circ_index] - p.buff_pos
              /\ \A k \in 1 .. Cap :
                    result[k] = result[k - 1] + data_sizes[(p.circ_index + k) % Cap]
              /\ op_distance_circ_pointers(p, q)
                   = IF p.circ_index = q.circ_index
                     THEN q.buff_pos - p.buff_pos
                     ELSE result[Apart(p.circ_index, q.circ_index) - 1]
                            + q.buff_pos
<1> DEFINE init == data_sizes[p.circ_index] - p.buff_pos
           size(k) == data_sizes[(p.circ_index + k) % Cap]
           step == [w \in Int \X (1 .. Cap) |-> w[1] + size(w[2])]
           Computed(f) == f = [k \in 0 .. Cap |-> IF k = 0 THEN init
                                                ELSE f[k - 1] + size(k)]
<1>1. Cap \in Nat \ {0} /\ init \in Int
  BY Integral
<1>2. ASSUME NEW k \in 1 .. Cap
      PROVE  size(k) \in Int
  <2>1. p.circ_index + k \in Int
    BY Integral
  <2>2. (p.circ_index + k) % Cap \in Entries
    BY <2>1, AnyIndex
  <2> QED
    BY <2>2, Integral
<1> HIDE DEF init, size
<1>3. step \in [Int \X (1 .. Cap) -> Int]
  BY <1>2
<1> HIDE DEF step
<1>4. PICK g \in [0 .. Cap -> Int] : Computes(g, Cap, init, step)
  BY <1>1, <1>3, Loop
<1>5. Computed(g)
  <2>1. ASSUME NEW k \in 0 .. Cap, k # 0
        PROVE  step[<<g[k - 1], k>>] = g[k - 1] + size(k)
    <3>1. k \in 1 .. Cap /\ k - 1 \in 0 .. Cap /\ g[k - 1] \in Int
      BY <1>1, <2>1
    <3> QED
      BY <3>1 DEF step
  <2>2. \A k \in 0 .. Cap : g[k] = IF k = 0 THEN init ELSE g[k - 1] + size(k)
    BY <1>4, <2>1 DEF Computes
  <2> QED
    BY <1>4, <2>2 DEF Computes
<1> DEFINE result == CHOOSE f : Computed(f)
<1>6. Computed(result)
  BY <1>5, Zenon
<1>7. op_distance_circ_pointers(p, q)
        = IF p.circ_index = q.circ_index
          THEN q.buff_pos - p.buff_pos
          ELSE result[Apart(p.circ_index, q.circ_index) - 1] + q.buff_pos
  BY Zenon DEF op_distance_circ_pointers, init, size
<1> HIDE DEF result
<1>8. result[0] = init
  BY <1>1, <1>6
<1>9. \A k \in 1 .. Cap : result[k] = result[k - 1] + size(k)
  BY <1>1, <1>6
<1> QED
  BY <1>7, <1>8, <1>9 DEF init, size

-----------------------------------------------------------------------------
(* From an entry of the window to a later one: every entry on the way is   *)
(* in the window, and its chunk goes on where the one before it stops.     *)

LEMMA Walk ==
    ASSUME Numeric, NEW i \in Held, NEW j \in Held, Rank(i) <= Rank(j)
    PROVE  /\ Apart(i, j) \in 0 .. Cap - 1
           /\ i # j <=> Apart(i, j) # 0
           /\ (i + 0) % Cap = i /\ (i + Apart(i, j)) % Cap = j
           /\ \A k \in 0 .. Apart(i, j) :
                 /\ (i + k) % Cap \in Held /\ (i + k) % Cap \in Entries
                 /\ Rank((i + k) % Cap) = Rank(i) + k
           /\ \A k \in 0 .. Apart(i, j) - 1 :
                 /\ circular_increment((i + k) % Cap) = (i + (k + 1)) % Cap
                 /\ (i + (k + 1)) % Cap # next_to_be_received
<1> DEFINE D == Apart(i, j)
           At_(k) == (i + k) % Cap
<1>1. /\ i \in Entries /\ j \in Entries /\ Cap \in Nat \ {0}
      /\ last_sent \in Entries /\ next_to_be_received \in Entries
  BY Integral DEF Held, Span
<1>2. /\ D = IF i <= j THEN j - i ELSE j - i + Cap
      /\ \A k \in Entries : At_(k) = IF i + k < Cap THEN i + k ELSE i + k - Cap
  BY <1>1, Offsets DEF Apart
<1> HIDE DEF D, At_
<1>3. D = Rank(j) - Rank(i)
  BY <1>1, <1>2 DEF Rank, Held, Span, Entries
<1>4. D \in 0 .. Cap - 1 /\ (i # j <=> D # 0)
  BY <1>1, <1>2, <1>3 DEF Rank, Held, Span, Entries
<1>5. At_(0) = i /\ At_(D) = j
  BY <1>1, <1>2, <1>4 DEF Entries
<1>6. ASSUME NEW k \in 0 .. D
      PROVE  At_(k) \in Held /\ At_(k) \in Entries /\ Rank(At_(k)) = Rank(i) + k
  <2>1. k \in Entries
    BY <1>1, <1>4 DEF Entries
  <2> QED
    BY <1>1, <1>2, <1>3, <2>1 DEF Rank, Held, Span, Entries
<1>7. ASSUME NEW k \in 0 .. D - 1
      PROVE  circular_increment(At_(k)) = At_(k + 1) /\ At_(k + 1) # next_to_be_received
  <2>1. k \in Entries /\ k + 1 \in Entries /\ k \in 0 .. D /\ k + 1 \in 0 .. D
    BY <1>1, <1>4 DEF Entries
  <2>2. circular_increment(At_(k)) = IF At_(k) + 1 = Cap THEN 0 ELSE At_(k) + 1
    BY <1>6, <2>1, Wraps
  <2>3. circular_increment(At_(k)) = At_(k + 1)
    BY <1>1, <1>2, <2>1, <2>2 DEF Entries
  <2>4. At_(k + 1) # next_to_be_received
    BY <1>1, <1>6, <2>1 DEF Held, Span, Entries
  <2> QED
    BY <2>3, <2>4
<1> QED
  BY <1>4, <1>5, <1>6, <1>7 DEF D, At_

LEMMA WalkStarts ==
    ASSUME Numeric, Contiguous, NEW i \in Held, NEW j \in Held, Rank(i) <= Rank(j),
           NEW k \in 0 .. Apart(i, j) - 1
    PROVE  /\ data_sizes[(i + k) % Cap] \in Int
           /\ start[(i + k) % Cap] \in Int /\ start[(i + (k + 1)) % Cap] \in Int
           /\ start[(i + (k + 1)) % Cap] = StopOf((i + k) % Cap)
<1>1. k \in 0 .. Apart(i, j) /\ k + 1 \in 0 .. Apart(i, j)
  BY Walk
<1>2. /\ (i + k) % Cap \in Held /\ (i + k) % Cap \in Entries
      /\ (i + (k + 1)) % Cap \in Entries
      /\ circular_increment((i + k) % Cap) = (i + (k + 1)) % Cap
      /\ (i + (k + 1)) % Cap # next_to_be_received
  BY <1>1, Walk
<1>3. data_sizes[(i + k) % Cap] \in Int
  BY <1>2, Integral
<1> QED
  BY <1>2, <1>3, Integral DEF Contiguous

(* The distance of two pointers is that of their positions, if no entry    *)
(* before the second one has failed.                                       *)
LEMMA DistanceRuns ==
    ASSUME Numeric, Contiguous, NEW p, NEW q,
           p.circ_index \in Held, p.buff_pos \in Int,
           q.circ_index \in Held, q.buff_pos \in Int,
           Rank(p.circ_index) <= Rank(q.circ_index),
           \A e \in Held : Rank(e) < Rank(q.circ_index) => data_sizes[e] >= 0
    PROVE  op_distance_circ_pointers(p, q) = Position(q) - Position(p)
<1> DEFINE i == p.circ_index
           j == q.circ_index
           m == p.buff_pos
           n == q.buff_pos
           D == Apart(i, j)
           from(k) == start[(i + k) % Cap]
<1>1. /\ i \in Held /\ i \in Entries /\ m \in Int /\ Position(p) = start[i] + m
      /\ j \in Held /\ j \in Entries /\ n \in Int /\ Position(q) = start[j] + n
  BY DEF Held, Span, Position
<1>2. /\ start[i] \in Int /\ start[j] \in Int /\ data_sizes[i] \in Int
      /\ Cap \in Nat \ {0}
  BY <1>1, Integral
<1>3. CASE i = j
  <2>1. op_distance_circ_pointers(p, q) = n - m
    BY <1>3 DEF op_distance_circ_pointers
  <2> HIDE DEF m, n
  <2> QED
    BY <1>1, <1>2, <1>3, <2>1
<1>4. CASE i # j
  <2>1. Rank(i) <= Rank(j) /\ Rank(i) \in Int /\ Rank(j) \in Int
    BY <1>1, Integral DEF Rank
  <2>2. PICK result :
          /\ result[0] = data_sizes[i] - m
          /\ \A k \in 1 .. Cap :
                result[k] = result[k - 1] + data_sizes[(i + k) % Cap]
          /\ op_distance_circ_pointers(p, q)
                = IF i = j THEN n - m ELSE result[D - 1] + n
    BY <1>1, DistanceLoop
  <2>3. D \in 1 .. Cap - 1 /\ (i + 0) % Cap = i /\ (i + D) % Cap = j
    BY <1>1, <1>4, <2>1, Walk, CapPositive
  <2>4. ASSUME NEW k \in 0 .. D - 1
        PROVE  /\ data_sizes[(i + k) % Cap] \in Nat
               /\ from(k) \in Int /\ from(k + 1) \in Int
               /\ from(k + 1) = from(k) + data_sizes[(i + k) % Cap]
    <3> DEFINE e == (i + k) % Cap
    <3>1. k \in 0 .. D /\ D \in 0 .. D /\ k < D /\ k \in Int /\ D \in Int
      BY <2>3
    <3>2. e \in Held /\ Rank(e) = Rank(i) + k /\ Rank(j) = Rank(i) + D
      BY <1>1, <2>1, <2>3, <3>1, Walk
    <3>3. /\ data_sizes[e] \in Int /\ from(k) \in Int /\ from(k + 1) \in Int
          /\ from(k + 1) = StopOf(e)
      BY <1>1, <2>1, WalkStarts
    <3> HIDE DEF D, e
    <3>4. data_sizes[e] >= 0
      BY <2>1, <3>1, <3>2
    <3>5. StopOf(e) = start[e] + data_sizes[e]
      BY <3>3, <3>4 DEF StopOf, Extent, e
    <3> QED
      BY <3>3, <3>4, <3>5 DEF e
  <2> DEFINE T == {k \in Nat : k <= D - 1 => result[k] = from(k + 1) - start[i] - m}
  <2>5. 0 \in T
    <3>1. from(0) = start[i] /\ from(1) = start[i] + data_sizes[i]
      BY <2>3, <2>4
    <3> QED
      BY <1>1, <1>2, <2>2, <3>1
  <2> HIDE DEF D, m
  <2>6. ASSUME NEW k \in T
        PROVE  k + 1 \in T
    <3> SUFFICES ASSUME k + 1 <= D - 1
                 PROVE  result[k + 1] = from(k + 2) - start[i] - m
      BY <2>3
    <3>1. k + 1 \in 0 .. D - 1 /\ k \in 0 .. D - 1 /\ k + 1 \in 1 .. Cap
      BY <1>2, <2>3
    <3>2. result[k] = from(k + 1) - start[i] - m
      BY <3>1
    <3>3. result[k + 1] = result[k] + data_sizes[(i + (k + 1)) % Cap]
      BY <2>2, <3>1
    <3>4. /\ data_sizes[(i + (k + 1)) % Cap] \in Nat
          /\ from(k + 1) \in Int /\ from((k + 1) + 1) \in Int
          /\ from((k + 1) + 1) = from(k + 1) + data_sizes[(i + (k + 1)) % Cap]
      BY <2>4, <3>1
    <3>5. (k + 1) + 1 = k + 2
      OBVIOUS
    <3> HIDE DEF from
    <3> QED
      BY <1>1, <1>2, <3>2, <3>3, <3>4, <3>5
  <2>7. D - 1 \in T
    <3> HIDE DEF T
    <3>1. T \in SUBSET Nat
      BY DEF T
    <3> QED
      BY <2>3, <2>5, <2>6, <3>1, Induction
  <2>8. result[D - 1] = start[j] - start[i] - m
    <3>1. (D - 1) + 1 = D
      BY <2>3
    <3> QED
      BY <2>3, <2>7, <3>1
  <2>9. op_distance_circ_pointers(p, q) = result[D - 1] + n
    BY <1>4, <2>2
  <2> HIDE DEF n, i, j
  <2> QED
    BY <1>1, <1>2, <2>8, <2>9
<1> QED
  BY <1>3, <1>4

(* op_sub_circ_pointer is the loop it is written as ...                    *)
LEMMA SubLoop ==
    ASSUME Numeric, NEW p, p.circ_index \in Entries, p.buff_pos \in Int,
           NEW ask \in Int
    PROVE  \E left :
              /\ left[0] = ask - p.buff_pos
              /\ \A k \in 1 .. Cap :
                    left[k] = left[k - 1] - data_sizes[(p.circ_index - k) % Cap]
              /\ LET k == Min({n \in 0 .. Cap : left[n] <= 0} \union {Cap})
                 IN  op_sub_circ_pointer(p, ask)
                       = At((p.circ_index - k) % Cap, -left[k])
<1> DEFINE init == ask - p.buff_pos
           size(k) == data_sizes[(p.circ_index - k) % Cap]
           step == [w \in Int \X (1 .. Cap) |-> w[1] - size(w[2])]
           Computed(f) == f = [k \in 0 .. Cap |-> IF k = 0 THEN init
                                                ELSE f[k - 1] - size(k)]
<1>1. Cap \in Nat \ {0} /\ init \in Int
  BY Integral
<1>2. ASSUME NEW k \in 1 .. Cap
      PROVE  size(k) \in Int
  <2>1. p.circ_index - k \in Int
    BY Integral
  <2>2. (p.circ_index - k) % Cap \in Entries
    BY <2>1, AnyIndex
  <2> QED
    BY <2>2, Integral
<1> HIDE DEF init, size
<1>3. step \in [Int \X (1 .. Cap) -> Int]
  BY <1>2
<1> HIDE DEF step
<1>4. PICK g \in [0 .. Cap -> Int] : Computes(g, Cap, init, step)
  BY <1>1, <1>3, Loop
<1>5. Computed(g)
  <2>1. ASSUME NEW k \in 0 .. Cap, k # 0
        PROVE  step[<<g[k - 1], k>>] = g[k - 1] - size(k)
    <3>1. k \in 1 .. Cap /\ k - 1 \in 0 .. Cap /\ g[k - 1] \in Int
      BY <1>1, <2>1
    <3> QED
      BY <3>1 DEF step
  <2>2. \A k \in 0 .. Cap : g[k] = IF k = 0 THEN init ELSE g[k - 1] - size(k)
    BY <1>4, <2>1 DEF Computes
  <2> QED
    BY <1>4, <2>2 DEF Computes
<1> DEFINE left == CHOOSE f : Computed(f)
           last == Min({n \in 0 .. Cap : left[n] <= 0} \union {Cap})
<1>6. Computed(left)
  BY <1>5, Zenon
<1>7. op_sub_circ_pointer(p, ask) = At((p.circ_index - last) % Cap, -left[last])
  BY Zenon DEF op_sub_circ_pointer, init, size
<1> HIDE DEF left
<1>8. left[0] = init
  BY <1>1, <1>6
<1>9. \A k \in 1 .. Cap : left[k] = left[k - 1] - size(k)
  BY <1>1, <1>6
<1> QED
  BY <1>7, <1>8, <1>9 DEF init, size

(* ... and goes back exactly as far as asked.                              *)
LEMMA SubCorrect == TypeOK /\ Contiguous /\ NoneFailed => SubExact
<1> SUFFICES ASSUME TypeOK, Contiguous, NoneFailed, NEW p \in Valid, NEW ask \in 0 .. MaxAsk,
                    Position(p) - ask >= start[last_sent]
             PROVE  Position(op_sub_circ_pointer(p, ask)) = Position(p) - ask
  BY DEF SubExact
<1> DEFINE i == p.circ_index
           m == p.buff_pos
           l == last_sent
           A == Apart(l, i)
           back(k) == (i - k) % Cap
<1>1. /\ i \in Held /\ i \in Entries /\ m \in Int /\ Position(p) = start[i] + m
  BY ValidPointer
<1>2. /\ start[i] \in Int /\ ask \in Int /\ l \in Entries
      /\ Cap \in Nat \ {0} /\ next_to_be_received \in Entries
      /\ start[l] \in Int /\ Numeric
  BY <1>1, Integral, TypesNumeric, Numbers
<1>3. l \in Held /\ Rank(l) <= Rank(i)
  BY <1>1, <1>2 DEF Held, Span, Rank, Entries
<1>4. A \in 0 .. Cap - 1 /\ (l + A) % Cap = i /\ (l + 0) % Cap = l
  BY <1>1, <1>2, <1>3, Walk
<1>5. ASSUME NEW k \in 0 .. A
      PROVE  back(k) = (l + (A - k)) % Cap /\ back(k) \in Entries
  <2> DEFINE e == (l + (A - k)) % Cap
  <2>1. A - k \in 0 .. A /\ A - k \in Entries /\ k \in Entries
    BY <1>2, <1>4 DEF Entries
  <2>2. e \in Entries
    BY <1>1, <1>2, <1>3, <2>1, Walk
  <2>3. A = IF l <= i THEN i - l ELSE i - l + Cap
    BY <1>1, <1>2, Offsets DEF Apart
  <2>4. e = IF l + (A - k) < Cap THEN l + (A - k) ELSE l + (A - k) - Cap
    BY <1>2, <2>1, Offsets
  <2>5. (i - k) % Cap = IF k <= i THEN i - k ELSE i - k + Cap
    BY <1>1, <2>1, Offsets
  <2> HIDE DEF e, A
  <2>6. back(k) = e
    BY <1>1, <1>2, <2>1, <2>3, <2>4, <2>5 DEF Entries
  <2> QED
    BY <2>2, <2>6 DEF e
<1>6. ASSUME NEW k \in 1 .. A
      PROVE  /\ data_sizes[back(k)] \in Int
             /\ start[back(k)] \in Int /\ start[back(k - 1)] \in Int
             /\ start[back(k - 1)] = start[back(k)] + data_sizes[back(k)]
  <2>1. A - k \in 0 .. A - 1 /\ k \in 0 .. A /\ k - 1 \in 0 .. A
    BY <1>4
  <2>2. back(k) = (l + (A - k)) % Cap
    BY <1>5, <2>1
  <2>3. back(k - 1) = (l + ((A - k) + 1)) % Cap
    <3>1. A - (k - 1) = (A - k) + 1
      BY <1>4
    <3> QED
      BY <1>5, <2>1, <3>1
  <2>4. back(k) \in Held
    BY <1>1, <1>2, <1>3, <2>1, <2>2, Walk
  <2> HIDE DEF back
  <2>5. StopOf(back(k)) = start[back(k)] + data_sizes[back(k)]
    BY <1>2, <2>4, Unfailed
  <2> QED
    BY <1>1, <1>2, <1>3, <2>1, <2>2, <2>3, <2>5, WalkStarts
<1>7. PICK left :
        /\ left[0] = ask - m
        /\ \A k \in 1 .. Cap : left[k] = left[k - 1] - data_sizes[back(k)]
        /\ LET k == Min({n \in 0 .. Cap : left[n] <= 0} \union {Cap})
           IN  op_sub_circ_pointer(p, ask) = At(back(k), -left[k])
  BY <1>1, <1>2, SubLoop
<1> DEFINE pos == Position(p)
           T == {k \in Nat : k <= A => left[k] = ask - pos + start[back(k)]}
<1>8. 0 \in T
  <2>1. back(0) = i
    <3>1. 0 \in 0 .. A /\ A - 0 = A
      BY <1>4
    <3> QED
      BY <1>4, <1>5, <3>1
  <2> QED
    BY <1>1, <1>2, <1>7, <2>1
<1>9. pos \in Int
  BY <1>1, <1>2
<1> HIDE DEF pos, back, A, i, m
<1>10. ASSUME NEW k \in T
       PROVE  k + 1 \in T
  <2> SUFFICES ASSUME k + 1 <= A
               PROVE  left[k + 1] = ask - pos + start[back(k + 1)]
    BY <1>4
  <2>1. k + 1 \in 1 .. A /\ k + 1 \in 1 .. Cap /\ (k + 1) - 1 = k
    BY <1>2, <1>4
  <2>2. left[k] = ask - pos + start[back(k)]
    BY <1>4, <2>1
  <2>3. left[k + 1] = left[k] - data_sizes[back(k + 1)]
    BY <1>7, <2>1
  <2>4. /\ data_sizes[back(k + 1)] \in Int
        /\ start[back(k + 1)] \in Int /\ start[back(k)] \in Int
        /\ start[back(k)] = start[back(k + 1)] + data_sizes[back(k + 1)]
    BY <1>6, <2>1
  <2> QED
    BY <1>2, <1>9, <2>2, <2>3, <2>4
<1>11. \A k \in 0 .. A : left[k] = ask - pos + start[back(k)]
  <2> HIDE DEF T
  <2>1. T \in SUBSET Nat
    BY DEF T
  <2>2. Nat \subseteq T
    BY <1>8, <1>10, <2>1, Induction
  <2> QED
    BY <1>4, <2>2 DEF T
<1> DEFINE S == {n \in 0 .. Cap : left[n] <= 0} \union {Cap}
           k == Min(S)
<1>12. A \in S
  <2>1. back(A) = l
    <3>1. A \in 0 .. A /\ A - A = 0
      BY <1>4
    <3> QED
      BY <1>4, <1>5, <3>1
  <2>2. left[A] = ask - pos + start[l]
    BY <1>4, <1>11, <2>1
  <2>3. left[A] <= 0
    BY <1>2, <1>9, <2>2 DEF pos
  <2> QED
    BY <1>2, <1>4, <2>3
<1>13. k \in 0 .. A
  <2>1. S \in SUBSET Nat /\ S # {}
    BY <1>2, <1>12
  <2> HIDE DEF S
  <2>2. k \in S /\ k <= A
    BY <1>12, <2>1, Smallest
  <2>3. k \in Nat
    BY <2>1, <2>2
  <2> HIDE DEF k
  <2> QED
    BY <1>2, <1>4, <2>2, <2>3
<1>14. op_sub_circ_pointer(p, ask) = At(back(k), -left[k])
  BY <1>7
<1> HIDE DEF k
<1>15. Position(op_sub_circ_pointer(p, ask)) = start[back(k)] + (-left[k])
  BY <1>14 DEF Position, At
<1>16. left[k] = ask - pos + start[back(k)] /\ start[back(k)] \in Int
  <2>1. back(k) \in Entries
    BY <1>5, <1>13
  <2> QED
    BY <1>2, <1>11, <1>13, <2>1, Integral
<1> QED
  BY <1>2, <1>9, <1>15, <1>16 DEF pos

(* The bytes of the stream from position a to b, and two such runs in a    *)
(* row.                                                                    *)
Run(a, b) == [k \in 1 .. b - a |-> a + k - 1]

LEMMA RunIsSeq ==
    ASSUME NEW a \in Int, NEW b \in Int
    PROVE  /\ Run(a, b) \in Seq(Int)
           /\ a <= b => Len(Run(a, b)) = b - a
<1>1. CASE a <= b
  <2>1. b - a \in Nat
    BY <1>1
  <2>2. \A k \in 1 .. b - a : a + k - 1 \in Int
    OBVIOUS
  <2> QED
    BY <2>1, <2>2 DEF Run
<1>2. CASE ~(a <= b)
  <2>1. 1 .. b - a = 1 .. 0
    BY <1>2
  <2>2. Run(a, b) = [k \in 1 .. 0 |-> a + k - 1]
    BY <2>1 DEF Run
  <2>3. \A k \in 1 .. 0 : a + k - 1 \in Int
    OBVIOUS
  <2> QED
    BY <1>2, <2>2, <2>3
<1> QED
  BY <1>1, <1>2

LEMMA RunsJoin ==
    ASSUME NEW a \in Int, NEW b \in Int, NEW c \in Int, a <= b, b <= c
    PROVE  Run(a, b) \o Run(b, c) = Run(a, c)
<1> DEFINE u == Run(a, b)
           v == Run(b, c)
           w == Run(a, c)
<1>1. /\ u \in Seq(Int) /\ Len(u) = b - a
      /\ v \in Seq(Int) /\ Len(v) = c - b
      /\ w \in Seq(Int) /\ Len(w) = c - a
  BY RunIsSeq
<1>2. /\ \A k \in 1 .. b - a : u[k] = a + k - 1
      /\ \A k \in 1 .. c - b : v[k] = b + k - 1
      /\ \A k \in 1 .. c - a : w[k] = a + k - 1
  BY DEF Run
<1> HIDE DEF u, v, w
<1>3. /\ u \o v \in Seq(Int) /\ Len(u \o v) = Len(w)
      /\ \A k \in 1 .. Len(w) : (u \o v)[k] = IF k <= Len(u) THEN u[k] ELSE v[k - Len(u)]
  <2>1. Len(u) + Len(v) = Len(w)
    BY <1>1
  <2>2. /\ u \o v \in Seq(Int) /\ Len(u \o v) = Len(u) + Len(v)
        /\ \A k \in 1 .. Len(u) + Len(v) :
              (u \o v)[k] = IF k <= Len(u) THEN u[k] ELSE v[k - Len(u)]
    <3>1. u \in Seq(Int) /\ v \in Seq(Int)
      BY <1>1
    <3> QED
      BY <3>1, ConcatProperties, Zenon
  <2> QED
    BY <2>1, <2>2
<1>4. ASSUME NEW k \in 1 .. Len(w)
      PROVE  (u \o v)[k] = w[k]
  <2>1. k \in 1 .. c - a
    BY <1>1
  <2>2. CASE k <= b - a
    <3>1. k \in 1 .. b - a
      BY <2>1, <2>2
    <3> QED
      BY <1>1, <1>2, <1>3, <2>1, <3>1
  <2>3. CASE ~(k <= b - a)
    <3>1. k - (b - a) \in 1 .. c - b
      BY <2>1, <2>3
    <3>2. b + (k - (b - a)) - 1 = a + k - 1
      BY <2>1
    <3>3. (u \o v)[k] = v[k - (b - a)]
      BY <1>1, <1>3, <2>3
    <3> QED
      BY <1>2, <2>1, <3>1, <3>2, <3>3
  <2> QED
    BY <2>2, <2>3
<1>5. u \o v = w
  BY <1>1, <1>3, <1>4, SeqEqual
<1> QED
  BY <1>5 DEF u, v, w

LEMMA BytesRun ==
    ASSUME NEW i, NEW m \in Int, NEW n \in Int, start[i] \in Int
    PROVE  Bytes(i, m, n) = Run(start[i] + m, start[i] + n)
<1>1. (start[i] + n) - (start[i] + m) = n - m
  OBVIOUS
<1> QED
  BY <1>1 DEF Bytes, Run

(* buffer_2_str_copy is the loop it is written as ...                      *)
LEMMA CopyLoop ==
    ASSUME Numeric, NEW p, NEW q, p.circ_index \in Entries, p.buff_pos \in Int
    PROVE  \E copied :
              /\ copied[0] = <<>>
              /\ \A k \in 1 .. Cap :
                    LET e == (p.circ_index + (k - 1)) % Cap
                    IN  copied[k] = copied[k - 1]
                                      \o Bytes(e, IF k - 1 = 0 THEN p.buff_pos ELSE 0,
                                               data_sizes[e])
              /\ LET rounds == Apart(p.circ_index, q.circ_index)
                 IN  buffer_2_str_copy(p, q)
                       = copied[rounds]
                           \o Bytes(q.circ_index,
                                    IF rounds = 0 THEN p.buff_pos ELSE 0, q.buff_pos)
<1> DEFINE Index(k) == (p.circ_index + k) % Cap
           src_start(k) == IF k = 0 THEN p.buff_pos ELSE 0
           bytes(k) == Bytes(Index(k - 1), src_start(k - 1), data_sizes[Index(k - 1)])
           init == <<>>
           step == [w \in Seq(Int) \X (1 .. Cap) |-> w[1] \o bytes(w[2])]
           Computed(f) == f = [k \in 0 .. Cap |-> IF k = 0 THEN <<>>
                                                ELSE f[k - 1] \o bytes(k)]
<1>1. Cap \in Nat \ {0} /\ <<>> \in Seq(Int)
  BY Integral
<1>2. ASSUME NEW k \in 1 .. Cap
      PROVE  bytes(k) \in Seq(Int)
  <2>1. k - 1 \in Int /\ p.circ_index + (k - 1) \in Int
    BY Integral
  <2>2. Index(k - 1) \in Entries
    BY <2>1, AnyIndex
  <2>3. start[Index(k - 1)] \in Int /\ data_sizes[Index(k - 1)] \in Int
    BY <2>2, Integral
  <2>4. src_start(k - 1) \in Int
    OBVIOUS
  <2> DEFINE e == Index(k - 1)
             a == start[e] + src_start(k - 1)
             b == start[e] + data_sizes[e]
  <2>5. bytes(k) = Run(a, b)
    <3> HIDE DEF Index, src_start
    <3> QED
      BY <2>3, <2>4, BytesRun
  <2>6. a \in Int /\ b \in Int
    <3> HIDE DEF Index, src_start
    <3> QED
      BY <2>3, <2>4
  <2> HIDE DEF a, b, bytes
  <2> QED
    BY <2>5, <2>6, RunIsSeq
<1> HIDE DEF bytes
<1>3. step \in [Seq(Int) \X (1 .. Cap) -> Seq(Int)]
  BY <1>2
<1> HIDE DEF step
<1>4. PICK g \in [0 .. Cap -> Seq(Int)] : Computes(g, Cap, <<>>, step)
  BY <1>1, <1>3, Loop
<1>5. Computed(g)
  <2>1. ASSUME NEW k \in 0 .. Cap, k # 0
        PROVE  step[<<g[k - 1], k>>] = g[k - 1] \o bytes(k)
    <3>1. k \in 1 .. Cap /\ k - 1 \in 0 .. Cap /\ g[k - 1] \in Seq(Int)
      BY <1>1, <2>1
    <3> QED
      BY <3>1 DEF step
  <2>2. \A k \in 0 .. Cap : g[k] = IF k = 0 THEN <<>> ELSE g[k - 1] \o bytes(k)
    BY <1>4, <2>1 DEF Computes
  <2> QED
    BY <1>4, <2>2 DEF Computes
<1> DEFINE copied == CHOOSE f : Computed(f)
           rounds == Apart(p.circ_index, q.circ_index)
<1>6. Computed(copied)
  BY <1>5, Zenon
<1>7. buffer_2_str_copy(p, q)
        = copied[rounds] \o Bytes(q.circ_index, src_start(rounds), q.buff_pos)
  BY Zenon DEF buffer_2_str_copy, bytes
<1> HIDE DEF copied
<1>8. copied[0] = <<>>
  BY <1>1, <1>6
<1>9. ASSUME NEW k \in 1 .. Cap
      PROVE  copied[k] = copied[k - 1] \o bytes(k)
  <2>1. k \in 0 .. Cap /\ k # 0
    BY <1>1
  <2> DEFINE more == copied[k - 1] \o bytes(k)
  <2>2. copied[k] = IF k = 0 THEN <<>> ELSE more
    BY <1>6, <2>1, Zenon
  <2> QED
    BY <2>1, <2>2
<1> QED
  BY <1>7, <1>8, <1>9 DEF bytes

(* A chunk is copied whole: of the entry of a read in error nothing is.    *)
LEMMA WholeBytes ==
    ASSUME Numeric, NEW e \in Entries, NEW m \in Nat, m <= Extent(e)
    PROVE  /\ Bytes(e, m, data_sizes[e]) = Run(start[e] + m, StopOf(e))
           /\ start[e] + m <= StopOf(e) /\ StopOf(e) \in Int
<1>1. start[e] \in Int /\ data_sizes[e] \in Int
  BY Integral
<1>2. Extent(e) \in Nat
  BY <1>1 DEF Extent
<1>3. Bytes(e, m, data_sizes[e]) = [k \in 1 .. data_sizes[e] - m |-> start[e] + m + k - 1]
  BY DEF Bytes
<1>4. 1 .. data_sizes[e] - m = 1 .. Extent(e) - m
  BY <1>1 DEF Extent
<1>5. (start[e] + Extent(e)) - (start[e] + m) = Extent(e) - m
  BY <1>1, <1>2
<1>6. Run(start[e] + m, start[e] + Extent(e))
        = [k \in 1 .. Extent(e) - m |-> start[e] + m + k - 1]
  BY <1>5, Zenon DEF Run
<1>7. Bytes(e, m, data_sizes[e]) = Run(start[e] + m, start[e] + Extent(e))
  BY <1>3, <1>4, <1>6
<1> QED
  BY <1>1, <1>2, <1>7 DEF StopOf

(* ... and copies the stream from one position to the other.               *)
LEMMA CopyRuns ==
    ASSUME Numeric, Contiguous, NEW p, NEW q,
           p.circ_index \in Held, p.buff_pos \in Nat,
           p.buff_pos <= Extent(p.circ_index),
           q.circ_index \in Held, q.buff_pos \in Nat,
           Rank(p.circ_index) <= Rank(q.circ_index)
    PROVE  buffer_2_str_copy(p, q) = Run(Position(p), Position(q))
<1> DEFINE i == p.circ_index
           j == q.circ_index
           m == p.buff_pos
           n == q.buff_pos
           D == Apart(i, j)
           from(k) == start[(i + k) % Cap]
           pos == Position(p)
<1>1. /\ i \in Held /\ i \in Entries /\ m \in Nat /\ pos = start[i] + m
      /\ j \in Held /\ j \in Entries /\ n \in Nat /\ Position(q) = start[j] + n
      /\ m <= Extent(i)
  BY DEF Held, Span, Position
<1>2. /\ start[i] \in Int /\ start[j] \in Int /\ data_sizes[i] \in Int
      /\ Cap \in Nat \ {0}
  BY <1>1, Integral
<1>3. PICK copied :
        /\ copied[0] = <<>>
        /\ \A k \in 1 .. Cap :
              LET e == (i + (k - 1)) % Cap
              IN  copied[k] = copied[k - 1]
                                \o Bytes(e, IF k - 1 = 0 THEN m ELSE 0, data_sizes[e])
        /\ buffer_2_str_copy(p, q)
             = copied[D] \o Bytes(j, IF D = 0 THEN m ELSE 0, n)
  <2>1. m \in Int
    BY <1>1
  <2> QED
    BY <1>1, <2>1, CopyLoop, Zenon
<1>4. Rank(i) <= Rank(j)
  OBVIOUS
<1>5. D \in 0 .. Cap - 1 /\ (i # j <=> D # 0) /\ (i + 0) % Cap = i /\ (i + D) % Cap = j
  BY <1>1, <1>4, Walk
<1>6. ASSUME NEW k \in 0 .. D - 1
      PROVE  /\ (i + k) % Cap \in Entries
             /\ from(k) \in Int /\ from(k + 1) \in Int
             /\ from(k + 1) = StopOf((i + k) % Cap)
  <2>1. k \in 0 .. D
    BY <1>5
  <2> QED
    BY <1>1, <1>4, <2>1, Walk, WalkStarts
<1>7. CASE i = j
  <2>1. D = 0
    BY <1>5, <1>7
  <2>2. buffer_2_str_copy(p, q) = <<>> \o Bytes(i, m, n)
    BY <1>3, <1>7, <2>1
  <2>3. Bytes(i, m, n) = Run(pos, Position(q))
    <3>1. Bytes(i, m, n) = Run(start[i] + m, start[i] + n)
      BY <1>1, <1>2, BytesRun
    <3> QED
      BY <1>1, <1>7, <3>1
  <2>4. Run(pos, Position(q)) \in Seq(Int)
    <3>1. pos \in Int /\ Position(q) \in Int
      BY <1>1, <1>2
    <3> QED
      BY <3>1, RunIsSeq
  <2> QED
    BY <2>2, <2>3, <2>4
<1>8. CASE i # j
  <2> DEFINE T == {k \in Nat : k <= D - 1 =>
                      /\ pos <= from(k + 1)
                      /\ copied[k + 1] = Run(pos, from(k + 1))}
  <2>1. D \in 1 .. Cap - 1 /\ pos \in Int
    BY <1>1, <1>2, <1>5, <1>8
  <2>2. 0 \in T
    <3>1. from(1) = StopOf(i)
      <4>1. 0 \in 0 .. D - 1
        BY <2>1
      <4> QED
        BY <1>5, <1>6, <4>1
    <3>2. copied[1] = <<>> \o Bytes(i, m, data_sizes[i])
      <4>1. 1 \in 1 .. Cap /\ 1 - 1 = 0
        BY <1>2
      <4> QED
        BY <1>3, <1>5, <4>1
    <3>3. /\ Bytes(i, m, data_sizes[i]) = Run(start[i] + m, StopOf(i))
          /\ start[i] + m <= StopOf(i) /\ StopOf(i) \in Int
      BY <1>1, WholeBytes
    <3>4. Run(pos, from(1)) \in Seq(Int)
      <4>1. from(1) \in Int
        BY <3>1, <3>3
      <4> HIDE DEF from, pos
      <4> QED
        BY <2>1, <4>1, RunIsSeq
    <3>5. copied[1] = Run(pos, from(1)) /\ pos <= from(1)
      <4> HIDE DEF pos, from, m, i
      <4> QED
        BY <1>1, <1>2, <3>1, <3>2, <3>3, <3>4
    <3> QED
      BY <3>5
  <2> HIDE DEF D, pos, i, j, m, n
  <2>3. ASSUME NEW k \in T
        PROVE  k + 1 \in T
    <3> SUFFICES ASSUME k + 1 <= D - 1
                 PROVE  /\ pos <= from(k + 2)
                        /\ copied[k + 2] = Run(pos, from(k + 2))
      BY <2>1
    <3> DEFINE e == (i + (k + 1)) % Cap
    <3>1. /\ k + 1 \in 0 .. D - 1 /\ k + 2 \in 1 .. Cap
          /\ (k + 2) - 1 = k + 1 /\ (k + 1) + 1 = k + 2 /\ k + 1 # 0
      BY <1>2, <2>1
    <3>2. pos <= from(k + 1) /\ copied[k + 1] = Run(pos, from(k + 1))
      BY <2>1, <3>1
    <3>3. /\ e \in Entries /\ from(k + 1) = start[e]
          /\ from(k + 1) \in Int /\ from(k + 2) \in Int
          /\ from(k + 2) = StopOf(e)
      BY <1>6, <3>1
    <3>4. copied[k + 2] = copied[k + 1] \o Bytes(e, 0, data_sizes[e])
      BY <1>3, <3>1
    <3> HIDE DEF e, from, T
    <3>5. /\ Bytes(e, 0, data_sizes[e]) = Run(from(k + 1), from(k + 2))
          /\ from(k + 1) <= from(k + 2)
      <4>1. 0 \in Nat /\ 0 <= Extent(e) /\ start[e] + 0 = start[e]
        BY <3>3, Integral DEF Extent
      <4>2. /\ Bytes(e, 0, data_sizes[e]) = Run(start[e] + 0, StopOf(e))
            /\ start[e] + 0 <= StopOf(e)
        BY <3>3, <4>1, WholeBytes
      <4> QED
        BY <3>3, <4>1, <4>2
    <3>6. pos <= from(k + 2)
      BY <2>1, <3>2, <3>3, <3>5
    <3> QED
      BY <2>1, <3>2, <3>3, <3>4, <3>5, <3>6, RunsJoin
  <2>4. D - 1 \in T
    <3> HIDE DEF T
    <3>1. T \in SUBSET Nat
      BY DEF T
    <3> QED
      BY <1>2, <2>1, <2>2, <2>3, <3>1, Induction
  <2>5. pos <= start[j] /\ copied[D] = Run(pos, start[j])
    <3>1. (D - 1) + 1 = D
      BY <1>2, <2>1
    <3> QED
      BY <1>2, <1>5, <2>1, <2>4, <3>1
  <2>6. buffer_2_str_copy(p, q) = copied[D] \o Bytes(j, 0, n)
    <3>1. D # 0
      BY <1>2, <2>1
    <3> QED
      BY <1>3, <3>1, Zenon
  <2>7. Bytes(j, 0, n) = Run(start[j], Position(q))
    <3>1. Bytes(j, 0, n) = Run(start[j] + 0, start[j] + n)
      BY <1>1, <1>2, BytesRun
    <3>2. start[j] + 0 = start[j]
      BY <1>2
    <3> QED
      BY <1>1, <3>1, <3>2
  <2>8. start[j] <= Position(q) /\ Position(q) \in Int
    BY <1>1, <1>2
  <2>9. buffer_2_str_copy(p, q) = Run(pos, Position(q))
    <3>1. Run(pos, start[j]) \o Run(start[j], Position(q)) = Run(pos, Position(q))
      BY <1>2, <2>1, <2>5, <2>8, RunsJoin
    <3> QED
      BY <2>5, <2>6, <2>7, <3>1, Zenon
  <2> QED
    BY <2>9 DEF pos
<1> QED
  BY <1>7, <1>8

LEMMA CopyCorrect == TypeOK /\ Contiguous => CopyExact
<1> SUFFICES ASSUME TypeOK, Contiguous, NEW p \in Valid, NEW q \in Valid,
                    cmp_circular_ptr(p, q) <= 0
             PROVE  buffer_2_str_copy(p, q) = Run(Position(p), Position(q))
  BY DEF CopyExact, Run
<1>1. /\ Numeric
      /\ p.circ_index \in Held /\ p.buff_pos \in Nat
      /\ q.circ_index \in Held /\ q.buff_pos \in Nat
      /\ p.circ_index \in Entries /\ p.buff_pos <= data_sizes[p.circ_index]
  BY ValidPointer, TypesNumeric
<1>2. Rank(p.circ_index) <= Rank(q.circ_index)
  BY <1>1, NotAfter
<1>3. data_sizes[p.circ_index] \in Int
  BY <1>1, Integral
<1>4. p.buff_pos <= Extent(p.circ_index)
  BY <1>1, <1>3 DEF Extent
<1> QED
  BY <1>1, <1>2, <1>4, CopyRuns

LEMMA DistanceCorrect == TypeOK /\ Contiguous /\ NoneFailed => DistanceExact
<1> SUFFICES ASSUME TypeOK, Contiguous, NoneFailed, NEW p \in Valid, NEW q \in Valid,
                    cmp_circular_ptr(p, q) <= 0
             PROVE  op_distance_circ_pointers(p, q) = Position(q) - Position(p)
  BY DEF DistanceExact
<1>1. /\ Numeric
      /\ p.circ_index \in Held /\ p.buff_pos \in Int
      /\ q.circ_index \in Held /\ q.buff_pos \in Int
  BY ValidPointer, TypesNumeric
<1>2. Rank(p.circ_index) <= Rank(q.circ_index)
  BY <1>1, NotAfter
<1> QED
  BY <1>1, <1>2, DistanceRuns DEF NoneFailed

-----------------------------------------------------------------------------
THEOREM PointersConsistent == Spec => []PInv
<1>1. Init => PInv
  BY TypesInit, OrderedInit, AimInit DEF PInv
<1>2. PInv /\ [Next]_vars => PInv'
  BY TypesStep, OrderedStep, ContiguousStep DEF PInv
<1> QED
  BY <1>1, <1>2, PTL DEF Spec

(* The indices stay in the ring and the sizes in the chunks, whatever is   *)
(* fed, sent and added.                                                    *)
THEOREM TypeCorrect == Spec => []TypeOK
<1>1. PInv => TypeOK
  BY DEF PInv, Types
<1> QED
  BY <1>1, PointersConsistent, PTL

(* cmp_circular_ptr never contradicts the order of the stream, for a ring  *)
(* of any size, chunks of any length and reads that fail.                  *)
THEOREM ComparesAsTheStream == Spec => []CmpOrders
BY OrderedCompares, PointersConsistent, PTL

(* As long as no read fails, the sizes are those of the chunks, and the    *)
(* loop of an addition knows its target.                                   *)
THEOREM StreamsAreFed ==
    ASSUME Ends \subseteq {0}
    PROVE  Spec => []AInv
<1>1. Init => AInv
  BY TypesInit, OrderedInit, AimInit DEF AInv, PInv
<1>2. AInv /\ [Next]_vars => AInv'
  BY TypesStep, OrderedStep, ContiguousStep, NoneFailedStep, AimingStep DEF AInv, PInv
<1> QED
  BY <1>1, <1>2, PTL DEF Spec

(* Then op_add_circ_pointers moves a pointer by exactly the number asked   *)
(* for, over any number of entries and of feeds, unless a feed came back   *)
(* empty or the ring was full on the way.                                  *)
THEOREM AddsExactly ==
    ASSUME Ends \subseteq {0}
    PROVE  Spec => AddExactWhenFed
<1>1. AInv => [AddEnd /\ ~add.dry => Position(ptr') = add.target]_vars
  BY EndHitsTarget DEF AInv, PInv
<1> QED
  BY <1>1, StreamsAreFed, PTL DEF Spec, AddExactWhenFed

(* op_distance_circ_pointers is the number of bytes between two pointers,  *)
(* however many entries are between them.                                  *)
THEOREM MeasuresExactly ==
    ASSUME Ends \subseteq {0}
    PROVE  Spec => []DistanceExact
<1>1. AInv => DistanceExact
  BY DistanceCorrect DEF AInv, PInv, Types
<1> QED
  BY <1>1, StreamsAreFed, PTL

(* op_sub_circ_pointer goes back exactly as far as asked, if what it asks  *)
(* for is still in the window.                                             *)
THEOREM SubtractsExactly ==
    ASSUME Ends \subseteq {0}
    PROVE  Spec => []SubExact
<1>1. AInv => SubExact
  BY SubCorrect DEF AInv, PInv, Types
<1> QED
  BY <1>1, StreamsAreFed, PTL

(* buffer_2_str_copy returns the bytes of the stream between two pointers, *)
(* in their order, however many entries are between them, and whatever the *)
(* reads return: the entry of one that failed adds nothing.                *)
THEOREM CopiesExactly == Spec => []CopyExact
<1>1. PInv => CopyExact
  BY CopyCorrect DEF PInv, Types
<1> QED
  BY <1>1, PointersConsistent, PTL
=============================================================================
