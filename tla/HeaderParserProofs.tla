------------------------- MODULE HeaderParserProofs -------------------------
(***************************************************************************)
(* The parser on any streams, any cuts of them and rings of any size.      *)
(*                                                                         *)
(* Types keeps the three pointers inside the window of the ring, so that   *)
(* the lemmas of CircularPointersProofs say what is copied between them:   *)
(* pieces of the stream.  NInv adds what the two ends of a header point    *)
(* to, whatever the cuts are.  TInv follows the status from the first      *)
(* chunk.  HInv is the loop invariant of the parser for clean cuts: the    *)
(* headers recorded so far are those the reference finds in what lies      *)
(* before the line that is being read.                                     *)
(***************************************************************************)
EXTENDS HeaderParser, SequenceTheorems, TLAPS

(* The facts about pointers into a ring; nothing is added here.            *)
Q == INSTANCE CircularPointersProofs
        WITH MaxSize <- MaxChunk, Ends <- {-1, 0}, MaxAsk <- 0, MaxRemainder <- 0,
             Total <- MaxLength, last_sent <- 0, ptr <- cur_loc,
             add <- [idx |-> -1, remainder |-> 0, target |-> 0, dry |-> FALSE]

LEMMA RingAssumptions == Q!CapAssumption /\ Q!PointersAssumption
BY ParserAssumption, InputsAssumption DEF Q!CapAssumption, Q!PointersAssumption

LEMMA SameRing ==
    /\ P!Cap = Q!Cap /\ P!Entries = Q!Entries
    /\ \A i : P!circular_increment(i) = Q!circular_increment(i)
    /\ \A p : P!Position(p) = Q!Position(p)
    /\ \A p, q : P!buffer_2_str_copy(p, q) = Q!buffer_2_str_copy(p, q)
    /\ \A p, q : P!op_distance_circ_pointers(p, q) = Q!op_distance_circ_pointers(p, q)
BY DEF P!Cap, Q!Cap, P!Entries, Q!Entries, P!circular_increment, Q!circular_increment,
       P!Position, Q!Position, P!buffer_2_str_copy, Q!buffer_2_str_copy,
       P!op_distance_circ_pointers, Q!op_distance_circ_pointers,
       P!Bytes, Q!Bytes, P!Apart, Q!Apart

-----------------------------------------------------------------------------
(* The ring, whose window begins at entry 0 and never wraps.               *)

N == next_to_be_received
Extent(i) == IF data_sizes[i] > 0 THEN data_sizes[i] ELSE 0
StopOf(i) == start[i] + Extent(i)

RingOK ==
    /\ input \in Inputs
    /\ N \in P!Entries
    /\ data_sizes \in [P!Entries -> -1 .. MaxChunk]
    /\ start \in [P!Entries -> Nat]
    /\ received \in 0 .. Len(stream)
    /\ start[0] = 0 /\ (N = 0 => received = 0)
    /\ \A i \in P!Entries : i >= N => data_sizes[i] = -1
    /\ \A i \in P!Entries : i < N =>
          /\ StopOf(i) = IF i + 1 = N THEN received ELSE start[i + 1]
          /\ StopOf(i) <= received
          /\ data_sizes[i] <= 0 => start[i] = Len(stream)
    /\ \A i, j \in P!Entries : i < j /\ j < N => StopOf(i) <= start[j]

LEMMA CapOne == P!Cap \in Nat \ {0} /\ P!Entries = 0 .. P!Cap - 1
BY ParserAssumption DEF P!Cap, P!Entries

LEMMA StreamIsSeq ==
    ASSUME input \in Inputs
    PROVE  stream \in Seq(Byte) /\ Len(stream) \in Nat
BY InputsAssumption DEF stream

LEMMA Increments ==
    ASSUME NEW i \in P!Entries
    PROVE  /\ P!circular_increment(i) = IF i + 1 = P!Cap THEN 0 ELSE i + 1
           /\ P!circular_increment(i) \in P!Entries
BY RingAssumptions, SameRing, Q!Wraps

LEMMA RingInit == Init => RingOK
<1> SUFFICES ASSUME Init PROVE RingOK
  OBVIOUS
<1>1. 0 \in P!Entries /\ -1 \in -1 .. MaxChunk /\ 0 \in 0 .. Len(stream)
  BY CapOne, ParserAssumption, StreamIsSeq DEF Init
<1> QED
  BY <1>1, CapOne DEF Init, RingOK, N

(* What a read does.                                                       *)
LEMMA FeedRing ==
    ASSUME RingOK, read_next_buffer, UNCHANGED input
    PROVE  RingOK'
<1> USE DEF RingOK, N
<1>1. CASE P!Full
  BY <1>1 DEF read_next_buffer, ring, StopOf, Extent, stream
<1>2. CASE ~P!Full
  <2>1. PICK n \in ReadResults : P!feed_next_buffer(n)
    BY <1>2 DEF read_next_buffer
  <2>2. /\ n \in -1 .. MaxChunk
        /\ n > 0 => received + n <= Len(stream)
        /\ n <= 0 => received = Len(stream)
    BY ParserAssumption DEF ReadResults
  <2>3. /\ data_sizes' = [data_sizes EXCEPT ![N] = n]
        /\ start' = [start EXCEPT ![N] = received]
        /\ received' = IF n > 0 THEN received + n ELSE received
        /\ next_to_be_received' = N + 1
        /\ N + 1 \in P!Entries
    BY <1>2, <2>1, Increments DEF P!feed_next_buffer, P!Full
  <2>4. /\ P!Entries \subseteq Nat /\ Len(stream) \in Nat /\ received \in Nat
        /\ input' = input /\ stream' = stream /\ received' \in Nat
        /\ MaxChunk \in Nat
    BY <2>2, <2>3, CapOne, StreamIsSeq, ParserAssumption DEF stream
  <2>5. ASSUME NEW i \in P!Entries, i # N
        PROVE  data_sizes'[i] = data_sizes[i] /\ start'[i] = start[i] /\ StopOf(i)' = StopOf(i)
    BY <2>3, <2>5 DEF StopOf, Extent
  <2>6. ASSUME NEW i \in P!Entries, i = N
        PROVE  data_sizes'[i] = n /\ start'[i] = received /\ StopOf(i)' = received'
    <3>1. data_sizes'[i] = n /\ start'[i] = received
      BY <2>3, <2>6
    <3>2. n \in Int /\ received' = IF n > 0 THEN received + n ELSE received
      BY <2>2, <2>3, <2>4
    <3> HIDE DEF RingOK
    <3>3. StopOf(i)' = received + IF n > 0 THEN n ELSE 0
      BY <3>1 DEF StopOf, Extent
    <3>4. received \in Nat
      BY <2>4
    <3> QED
      BY <3>1, <3>2, <3>3, <3>4
  <2>7. /\ data_sizes' \in [P!Entries -> -1 .. MaxChunk]
        /\ start' \in [P!Entries -> Nat]
    BY <2>2, <2>3, <2>4
  <2>8. received' \in 0 .. Len(stream)' /\ received <= received'
    BY <2>2, <2>3, <2>4
  <2>9. start'[0] = 0 /\ N' # 0
    BY <2>3, <2>4, <2>5, <2>6
  <2>10. \A i \in P!Entries : i >= N' => data_sizes'[i] = -1
    BY <2>3, <2>4, <2>5
  <2>11. ASSUME NEW i \in P!Entries, i < N'
         PROVE  /\ StopOf(i)' = IF i + 1 = N' THEN received' ELSE start'[i + 1]
                /\ StopOf(i)' <= received'
                /\ data_sizes'[i] <= 0 => start'[i] = Len(stream')
    <3>1. CASE i = N
      BY <2>2, <2>3, <2>4, <2>6, <3>1
    <3>2. CASE i # N
      <4>1. i < N /\ i + 1 # N' /\ i + 1 \in P!Entries
        BY <2>3, <2>4, <2>11, <3>2, CapOne
      <4>2. i + 1 # N => start'[i + 1] = start[i + 1]
        BY <2>5, <4>1
      <4>3. start[i] \in Nat /\ StopOf(i) \in Int
        BY <2>4 DEF StopOf, Extent
      <4>4. /\ StopOf(i) = IF i + 1 = N THEN received ELSE start[i + 1]
            /\ StopOf(i) <= received
            /\ data_sizes[i] <= 0 => start[i] = Len(stream)
        BY <4>1
      <4>5. received \in Nat /\ received' \in Nat /\ received <= received'
        BY <2>4, <2>8
      <4>6. i + 1 = N => start'[i + 1] = received
        BY <2>6, <4>1
      <4> HIDE DEF RingOK
      <4> QED
        BY <2>4, <2>5, <3>2, <4>1, <4>2, <4>3, <4>4, <4>5, <4>6
    <3> QED
      BY <3>1, <3>2
  <2>12. ASSUME NEW i \in P!Entries, NEW j \in P!Entries, i < j, j < N'
         PROVE  StopOf(i)' <= start'[j]
    <3>1. i < N /\ i # N
      BY <2>3, <2>4, <2>12
    <3> QED
      BY <2>3, <2>4, <2>5, <2>6, <2>12, <3>1
  <2> QED
    BY <2>3, <2>4, <2>7, <2>8, <2>9, <2>10, <2>11, <2>12
<1> QED
  BY <1>1, <1>2

(* Q sees the same ring.                                                   *)
LEMMA RingSeen ==
    ASSUME RingOK
    PROVE  /\ Q!Numeric /\ Q!Contiguous
           /\ Q!Held = {i \in P!Entries : i < N}
           /\ \A i \in P!Entries : Q!Rank(i) = i /\ Q!Extent(i) = Extent(i)
<1>1. /\ 0 \in P!Entries /\ N \in P!Entries /\ P!Entries \subseteq Nat
      /\ data_sizes \in [P!Entries -> Int] /\ start \in [P!Entries -> Int]
  BY CapOne, ParserAssumption DEF RingOK
<1>2. Q!Numeric
  BY <1>1, SameRing DEF Q!Numeric, N
<1>3. Q!Held = {i \in P!Entries : i < N}
  <2>1. Q!Held = {i \in P!Entries : IF 0 <= N THEN 0 <= i /\ i < N
                                    ELSE 0 <= i \/ i < N}
    BY SameRing DEF Q!Held, Q!Span, N
  <2>2. \A i \in P!Entries : 0 <= N /\ 0 <= i
    BY <1>1
  <2> QED
    BY <2>1, <2>2
<1>4. \A i \in P!Entries : Q!Rank(i) = i /\ Q!Extent(i) = Extent(i)
  BY <1>1 DEF Q!Rank, Q!Extent, Extent
<1>5. ASSUME NEW i \in Q!Held
      PROVE  Q!StopOf(i) = IF Q!circular_increment(i) = next_to_be_received
                           THEN received ELSE start[Q!circular_increment(i)]
  <2>1. i \in P!Entries /\ i < N
    BY <1>3, <1>5
  <2>2. Q!circular_increment(i) = i + 1
    BY <1>1, <2>1, Increments, SameRing, CapOne
  <2> QED
    BY <1>4, <2>1, <2>2 DEF Q!StopOf, StopOf, RingOK, N
<1> QED
  BY <1>2, <1>3, <1>4, <1>5 DEF Q!Contiguous

-----------------------------------------------------------------------------
(* The pointers of the parser.                                             *)

Pointer == [circ_index : P!Entries, buff_pos : Nat]

Good(p) == /\ p \in Pointer
           /\ p.circ_index < N \/ p.circ_index = 0
           /\ p.buff_pos <= Extent(p.circ_index)

NotAfter(p, q) == \/ p.circ_index < q.circ_index
                  \/ p.circ_index = q.circ_index /\ p.buff_pos <= q.buff_pos

Before(p, q) == \/ p.circ_index < q.circ_index
                \/ p.circ_index = q.circ_index /\ p.buff_pos < q.buff_pos

LEMMA Positions ==
    ASSUME RingOK, NEW p, Good(p)
    PROVE  /\ P!Position(p) = start[p.circ_index] + p.buff_pos
           /\ P!Position(p) \in Nat /\ P!Position(p) <= received
           /\ p.circ_index \in Nat /\ p.buff_pos \in Nat
           /\ p.buff_pos <= MaxChunk /\ MaxChunk \in Nat
           /\ Left(p) \in Int /\ Left(p) >= -1
           /\ start[p.circ_index] \in Nat /\ data_sizes[p.circ_index] \in Int
           /\ Extent(p.circ_index) \in Nat /\ StopOf(p.circ_index) <= received
           /\ N \in Nat
           /\ Left(p) > 0 => /\ p.circ_index < N
                             /\ P!Position(p) + 1 \in DOMAIN stream
                             /\ P!Position(p) + Left(p) = StopOf(p.circ_index)
<1> DEFINE i == p.circ_index
           n == p.buff_pos
<1>1. /\ i \in P!Entries /\ i \in Nat /\ n \in Nat /\ N \in Nat
      /\ start[i] \in Nat /\ data_sizes[i] \in -1 .. MaxChunk /\ MaxChunk \in Nat
      /\ i < N \/ i = 0
      /\ n <= Extent(i)
  BY CapOne, ParserAssumption DEF RingOK, Good, Pointer
<1>2. P!Position(p) = start[i] + n /\ Left(p) = data_sizes[i] - n
  BY DEF P!Position, Left
<1>3. received \in Nat /\ received <= Len(stream) /\ DOMAIN stream = 1 .. Len(stream)
  BY StreamIsSeq DEF RingOK
<1>4. Extent(i) \in Nat /\ Extent(i) <= MaxChunk
  BY <1>1 DEF Extent
<1>5. StopOf(i) <= received
  <2>1. CASE i < N
    BY <1>1, <2>1 DEF RingOK
  <2>2. CASE ~(i < N)
    <3>1. N = 0 /\ i = 0
      BY <1>1, <2>2
    <3>2. start[i] = 0 /\ data_sizes[i] = -1
      BY <1>1, <3>1 DEF RingOK
    <3> QED
      BY <1>3, <3>1, <3>2 DEF StopOf, Extent
  <2> QED
    BY <2>1, <2>2
<1>6. Left(p) > 0 => i < N
  <2> SUFFICES ASSUME Left(p) > 0, ~(i < N) PROVE FALSE
    OBVIOUS
  <2>1. data_sizes[i] = -1
    BY <1>1 DEF RingOK
  <2> QED
    BY <1>1, <1>2, <2>1
<1> HIDE DEF i, n
<1>7. StopOf(i) = start[i] + Extent(i) /\ (data_sizes[i] > 0 => Extent(i) = data_sizes[i])
  BY DEF StopOf, Extent
<1>8. /\ P!Position(p) \in Nat /\ P!Position(p) <= received /\ n <= MaxChunk
      /\ Left(p) \in Int /\ Left(p) >= -1
  <2>1. Left(p) \in Int /\ Left(p) >= -1
    BY <1>1, <1>2, <1>4 DEF Extent
  <2>2. n <= MaxChunk
    BY <1>1, <1>4
  <2> DEFINE first == start[i]
             extent == Extent(i)
  <2>3. /\ first \in Nat /\ n \in Nat /\ extent \in Nat /\ n <= extent
        /\ P!Position(p) = first + n /\ first + extent <= received /\ received \in Nat
    BY <1>1, <1>2, <1>3, <1>4, <1>5, <1>7
  <2> HIDE DEF first, extent
  <2>4. P!Position(p) \in Nat /\ P!Position(p) <= received
    BY <2>3
  <2> QED
    BY <2>1, <2>2, <2>4
<1>9. ASSUME Left(p) > 0
      PROVE  P!Position(p) + 1 \in DOMAIN stream /\ P!Position(p) + Left(p) = StopOf(i)
  <2>1. data_sizes[i] > 0
    BY <1>1, <1>2, <1>9
  <2>2. P!Position(p) + Left(p) = StopOf(i)
    BY <1>1, <1>2, <1>7, <2>1
  <2> QED
    BY <1>3, <1>5, <1>8, <1>9, <2>2
<1> QED
  BY <1>1, <1>2, <1>4, <1>5, <1>6, <1>8, <1>9 DEF i, n

LEMMA InOrder ==
    ASSUME RingOK, NEW p, NEW q, Good(p), Good(q), NotAfter(p, q)
    PROVE  P!Position(p) <= P!Position(q)
<1> DEFINE i == p.circ_index
           j == q.circ_index
<1>1. /\ P!Position(p) = start[i] + p.buff_pos /\ P!Position(q) = start[j] + q.buff_pos
      /\ i \in Nat /\ j \in Nat /\ p.buff_pos \in Nat /\ q.buff_pos \in Nat
      /\ start[i] \in Nat /\ start[j] \in Nat /\ Extent(i) \in Nat
  BY Positions
<1>2. /\ i \in P!Entries /\ j \in P!Entries
      /\ p.buff_pos <= Extent(i) /\ (j < N \/ j = 0)
  BY DEF Good, Pointer
<1>3. CASE i = j
  BY <1>1, <1>3 DEF NotAfter
<1>4. CASE i # j
  <2>1. i < j /\ j < N
    BY <1>1, <1>2, <1>4 DEF NotAfter
  <2>2. StopOf(i) <= start[j]
    BY <1>2, <2>1 DEF RingOK
  <2>3. p.buff_pos <= Extent(i)
    BY DEF Good
  <2> HIDE DEF i, j
  <2> QED
    BY <1>1, <2>2, <2>3 DEF StopOf
<1> QED
  BY <1>3, <1>4

LEMMA Piece ==
    ASSUME NEW S, NEW s \in Seq(S), NEW a \in Nat, NEW b \in Nat, a <= b, b <= Len(s)
    PROVE  /\ SubSeq(s, a + 1, b) = [k \in 1 .. b - a |-> s[a + k]]
           /\ SubSeq(s, a + 1, b) \in Seq(S)
           /\ Len(SubSeq(s, a + 1, b)) = b - a
<1> DEFINE t == [k \in 1 .. b - a |-> s[a + k]]
<1>1. b - a \in Nat /\ \A k \in 1 .. b - a : a + k \in 1 .. Len(s)
  OBVIOUS
<1>2. t \in Seq(S) /\ Len(t) = b - a
  BY <1>1
<1>3. SubSeq(s, a + 1, b) = t
  OBVIOUS
<1> QED
  BY <1>2, <1>3

(* The bytes between two pointers are a piece of the stream.                *)
LEMMA BetweenText ==
    ASSUME RingOK, NEW p, NEW q, Good(p), Good(q), NotAfter(p, q), N # 0
    PROVE  between(p, q) = SubSeq(stream, P!Position(p) + 1, P!Position(q))
<1> DEFINE a == P!Position(p)
           b == P!Position(q)
<1>1. /\ p.circ_index \in P!Entries /\ p.buff_pos \in Nat
      /\ p.buff_pos <= Extent(p.circ_index)
      /\ q.circ_index \in P!Entries /\ q.buff_pos \in Nat
      /\ a \in Nat /\ b \in Nat /\ a <= b /\ b <= Len(stream)
      /\ p.circ_index < N /\ q.circ_index < N
      /\ p.circ_index <= q.circ_index
  <2>1. received <= Len(stream) /\ received \in Nat /\ Len(stream) \in Nat
    BY StreamIsSeq DEF RingOK
  <2>2. /\ a \in Nat /\ b \in Nat /\ b <= received
        /\ p.circ_index \in Nat /\ q.circ_index \in Nat /\ N \in Nat
    BY Positions
  <2>3. a <= b
    BY InOrder
  <2> QED
    BY <2>1, <2>2, <2>3 DEF Good, Pointer, NotAfter
<1>2. P!buffer_2_str_copy(p, q) = Q!Run(a, b)
  <2>1. /\ p.circ_index \in Q!Held /\ q.circ_index \in Q!Held
        /\ Q!Rank(p.circ_index) <= Q!Rank(q.circ_index)
        /\ p.buff_pos <= Q!Extent(p.circ_index)
    BY <1>1, RingSeen
  <2>2. Q!buffer_2_str_copy(p, q) = Q!Run(Q!Position(p), Q!Position(q))
    BY <1>1, <2>1, RingSeen, RingAssumptions, Q!CopyRuns
  <2> QED
    BY <2>2, SameRing
<1> HIDE DEF a, b
<1>3. P!buffer_2_str_copy(p, q) = [k \in 1 .. b - a |-> a + k - 1]
  BY <1>2 DEF Q!Run
<1>4. between(p, q) = [k \in 1 .. b - a |-> stream[a + k]]
  <2>1. \A k \in 1 .. b - a : (a + k - 1) + 1 = a + k
    BY <1>1
  <2> QED
    BY <1>3, <2>1 DEF between
<1>5. SubSeq(stream, a + 1, b) = [k \in 1 .. b - a |-> stream[a + k]]
  BY <1>1, StreamIsSeq, Piece DEF RingOK
<1> QED
  BY <1>4, <1>5 DEF a, b

(* What is read at a pointer.  The byte behind a full buffer is a NUL.     *)
Quiet == MaxChunk \in Range(data_sizes) => input.beyond = NUL

LEMMA Chars ==
    ASSUME RingOK, NEW p, Good(p)
    PROVE  /\ Left(p) > 0 => get_char(p) = stream[P!Position(p) + 1]
           /\ Quiet /\ Left(p) <= 0 => get_char(p) = NUL
<1>1. CASE Left(p) > 0
  BY <1>1, Positions DEF get_char
<1>2. CASE ~(Left(p) > 0)
  <2> SUFFICES ASSUME Quiet PROVE get_char(p) = NUL
    BY <1>2, Positions
  <2>1. CASE p.buff_pos >= MaxChunk
    <3>1. p.circ_index \in DOMAIN data_sizes
      BY DEF RingOK, Good, Pointer
    <3>2. data_sizes[p.circ_index] = MaxChunk
      <4>1. data_sizes[p.circ_index] \in -1 .. MaxChunk
        BY DEF RingOK, Good, Pointer
      <4>2. MaxChunk \in Nat \ {0}
        BY ParserAssumption
      <4> QED
        BY <2>1, <4>1, <4>2, Positions DEF Good, Extent
    <3>3. MaxChunk \in Range(data_sizes)
      BY <3>1, <3>2 DEF Range
    <3> QED
      BY <1>2, <2>1, <3>3 DEF get_char, Quiet
  <2>2. CASE ~(p.buff_pos >= MaxChunk)
    BY <1>2, <2>2 DEF get_char
  <2> QED
    BY <2>1, <2>2
<1> QED
  BY <1>1, <1>2, Positions

LEMMA EndsOfLine ==
    ASSUME NEW p, NEW size \in Int
    PROVE  LET c == get_char(p)
               d == get_char(After(p, 1))
               two == (c = CR /\ d = LF) \/ (c = LF /\ d = CR)
           IN  is_eol(p, size) = IF size <= 0 THEN -1
                                 ELSE IF size >= 2 /\ two THEN 2
                                 ELSE IF c = LF THEN 1 ELSE 0
<1> DEFINE c == get_char(p)
           d == get_char(After(p, 1))
<1>1. ({c, d} = {LF, CR}) <=> ((c = CR /\ d = LF) \/ (c = LF /\ d = CR))
  <2> HIDE DEF c, d
  <2>1. LF # CR
    BY DEF LF, CR
  <2>2. ASSUME {c, d} = {LF, CR}
        PROVE  (c = CR /\ d = LF) \/ (c = LF /\ d = CR)
    <3>1. c \in {LF, CR} /\ d \in {LF, CR} /\ LF \in {c, d} /\ CR \in {c, d}
      BY <2>2
    <3> QED
      BY <2>1, <3>1
  <2>3. ((c = CR /\ d = LF) \/ (c = LF /\ d = CR)) => {c, d} = {LF, CR}
    OBVIOUS
  <2> QED
    BY <2>2, <2>3
<1> QED
  BY <1>1 DEF is_eol

LEMMA Afters ==
    ASSUME RingOK, NEW p, Good(p), NEW n \in Nat,
           p.buff_pos + n <= Extent(p.circ_index)
    PROVE  /\ After(p, n) = P!At(p.circ_index, p.buff_pos + n)
           /\ After(p, n).circ_index = p.circ_index
           /\ After(p, n).buff_pos = p.buff_pos + n
           /\ Good(After(p, n))
           /\ P!Position(After(p, n)) = P!Position(p) + n
           /\ Left(After(p, n)) = Left(p) - n
           /\ NotAfter(p, After(p, n))
<1> DEFINE a == After(p, n)
<1>1. /\ a = [circ_index |-> p.circ_index, buff_pos |-> p.buff_pos + n]
      /\ a.circ_index = p.circ_index /\ a.buff_pos = p.buff_pos + n
      /\ a \in Pointer
  BY DEF After, Good, Pointer
<1>2. /\ p.circ_index \in Nat /\ p.buff_pos \in Nat
      /\ start[p.circ_index] \in Nat /\ data_sizes[p.circ_index] \in Int
  BY Positions
<1> HIDE DEF a
<1>3. Good(a) /\ NotAfter(p, a)
  BY <1>1, <1>2 DEF Good, NotAfter
<1>4. P!Position(a) = P!Position(p) + n /\ Left(a) = Left(p) - n
  BY <1>1, <1>2 DEF P!Position, Left
<1> QED
  BY <1>1, <1>3, <1>4 DEF a, P!At

(* One byte further, if there is one: into the next entry from the end of  *)
(* one.                                                                    *)
LEMMA OneFurther ==
    ASSUME RingOK, NEW p, Good(p),
           Left(p) > 0 \/ data_sizes[P!circular_increment(p.circ_index)] > 0
    PROVE  /\ Good(op_add_1(p)) /\ Before(p, op_add_1(p))
           /\ P!Position(op_add_1(p)) = P!Position(p) + 1
           /\ Left(p) > 0 => op_add_1(p) = P!At(p.circ_index, p.buff_pos + 1)
           /\ Left(p) <= 0 => /\ op_add_1(p) = P!At(p.circ_index + 1, 1)
                              /\ p.circ_index + 1 < N
                              /\ p.circ_index + 1 \in P!Entries
                              /\ start[p.circ_index + 1] = P!Position(p)
                              /\ P!circular_increment(p.circ_index) = p.circ_index + 1
           /\ N # 0
<1> DEFINE i == p.circ_index
           n == p.buff_pos
<1>1. /\ i \in P!Entries /\ i \in Nat /\ n \in Nat /\ N \in Nat
      /\ start[i] \in Nat /\ data_sizes[i] \in Int
      /\ n <= Extent(i) /\ Left(p) = data_sizes[i] - n
      /\ P!Position(p) = start[i] + n
  BY Positions DEF Good, Pointer, Left
<1>2. CASE Left(p) > 0
  <2>1. op_add_1(p) = After(p, 1) /\ n + 1 <= Extent(i) /\ i < N
    BY <1>1, <1>2, Positions DEF op_add_1, Extent
  <2>2. p # After(p, 1) /\ N # 0
    BY <1>1, <2>1, Afters
  <2> QED
    BY <1>1, <1>2, <2>1, <2>2, Afters DEF Before
<1>3. CASE ~(Left(p) > 0)
  <2> DEFINE j == P!circular_increment(i)
  <2>1. /\ data_sizes[j] > 0 /\ j \in P!Entries /\ j \in Nat
        /\ j = IF i + 1 = P!Cap THEN 0 ELSE i + 1
    <3>1. j \in P!Entries /\ j = IF i + 1 = P!Cap THEN 0 ELSE i + 1
      BY <1>1, Increments
    <3>2. data_sizes[j] > 0
      BY <1>3
    <3> HIDE DEF j
    <3> QED
      BY <3>1, <3>2, CapOne
  <2>2. j < N /\ N < P!Cap /\ N \in Nat
    <3>1. j >= N => data_sizes[j] = -1
      BY <2>1 DEF RingOK
    <3>2. N \in P!Entries
      BY DEF RingOK
    <3> HIDE DEF j
    <3> QED
      BY <2>1, <3>1, <3>2, CapOne
  <2>3. i < N
    BY <1>1, <2>1, <2>2 DEF Good
  <2>4. j = i + 1 /\ N # 0
    BY <1>1, <2>1, <2>2, <2>3, CapOne
  <2>5. n = Extent(i)
    BY <1>1, <1>3 DEF Extent
  <2>6. start[j] = StopOf(i)
    BY <1>1, <2>2, <2>3, <2>4 DEF RingOK
  <2>7. op_add_1(p) = P!At(j, 1)
    BY <1>3 DEF op_add_1
  <2> DEFINE q == P!At(j, 1)
  <2>8. q.circ_index = j /\ q.buff_pos = 1 /\ q \in Pointer
    BY <2>1 DEF P!At, Pointer
  <2> HIDE DEF q, j, i, n
  <2>9. data_sizes[j] \in Int
    BY <2>1, ParserAssumption DEF RingOK
  <2>10. Good(q)
    BY <2>1, <2>2, <2>8, <2>9 DEF Good, Extent
  <2>11. P!Position(q) = P!Position(p) + 1
    BY <1>1, <2>5, <2>6, <2>8 DEF P!Position, StopOf
  <2>12. Before(p, q)
    BY <1>1, <2>4, <2>8 DEF Before, NotAfter, i
  <2>13. start[j] = P!Position(p)
    BY <1>1, <2>5, <2>6 DEF StopOf
  <2> QED
    BY <1>3, <2>1, <2>2, <2>4, <2>7, <2>10, <2>11, <2>12, <2>13 DEF q, i, j
<1> QED
  BY <1>2, <1>3

(* cmp_circular_ptr compares the entries first.                            *)
LEMMA Compares ==
    ASSUME RingOK, NEW p, NEW q
    PROVE  P!cmp_circular_ptr(p, q)
             = IF p.circ_index = q.circ_index THEN p.buff_pos - q.buff_pos
               ELSE (IF p.circ_index <= N THEN p.circ_index + 0 ELSE p.circ_index)
                      - (IF q.circ_index <= N THEN q.circ_index + 0 ELSE q.circ_index)
<1>1. N \in Nat
  BY CapOne DEF RingOK
<1>2. ~(0 > N)
  BY <1>1
<1> QED
  BY <1>2, Zenon DEF P!cmp_circular_ptr, N

-----------------------------------------------------------------------------
(* The types: the pointers stay in the window, the first one at the start  *)
(* of a line and not after the last one.                                   *)

Types ==
    /\ RingOK
    /\ Good(start_of_line) /\ Good(cur_loc) /\ NotAfter(start_of_line, cur_loc)
    /\ last_semicolon.circ_index \in P!Entries \union {-1}
    /\ "circ_index" \in DOMAIN last_semicolon
    /\ lines \in 0 .. 2
    /\ pc \in {"read", "type", "read_again", "line", "skip", "scan", "judge", "done", "fault"}

(* Where a pointer points to is not changed by a read.                     *)
LEMMA GoodStays ==
    ASSUME RingOK, read_next_buffer \/ UNCHANGED ring, UNCHANGED input,
           NEW p, Good(p)
    PROVE  /\ Good(p)' /\ P!Position(p)' = P!Position(p)
           /\ start'[p.circ_index] = start[p.circ_index]
           /\ p.circ_index < N => Left(p)' = Left(p)
           /\ Extent(p.circ_index) <= Extent(p.circ_index)'
<1> DEFINE i == p.circ_index
<1>1. /\ i \in P!Entries /\ i \in Nat /\ N \in Nat /\ P!Entries \subseteq Nat
      /\ data_sizes[i] \in Int /\ (i < N \/ i = 0)
  BY Positions, CapOne DEF Good, Pointer
<1>2. CASE UNCHANGED ring
  BY <1>1, <1>2 DEF ring, Good, Extent, P!Position, Left, N
<1>3. CASE ~(UNCHANGED ring)
  <2>1. PICK n \in ReadResults : P!feed_next_buffer(n)
    BY <1>3 DEF read_next_buffer
  <2>2. /\ n \in Int
        /\ data_sizes' = [data_sizes EXCEPT ![N] = n]
        /\ start' = [start EXCEPT ![N] = received]
        /\ next_to_be_received' = P!circular_increment(N)
        /\ ~P!Full
    BY <1>3, <2>1, ParserAssumption DEF P!feed_next_buffer, ReadResults, N, read_next_buffer
  <2>3. N' = N + 1 /\ N \in P!Entries /\ received \in Nat
    BY <2>2, Increments, CapOne, StreamIsSeq DEF RingOK, P!Full, N
  <2>4. CASE i = N
    <3>1. /\ i = 0 /\ received = 0 /\ start[i] = 0 /\ start'[i] = 0
          /\ data_sizes[i] = -1 /\ data_sizes'[i] = n
      BY <1>1, <2>2, <2>3, <2>4 DEF RingOK
    <3>2. Extent(i) = 0 /\ Extent(i)' \in Nat
      BY <2>2, <3>1 DEF Extent
    <3> QED
      BY <1>1, <2>3, <2>4, <3>1, <3>2 DEF Good, P!Position, Pointer
  <2>5. CASE i # N
    <3>1. start'[i] = start[i] /\ data_sizes'[i] = data_sizes[i]
      BY <1>1, <2>2, <2>5 DEF RingOK
    <3> QED
      BY <1>1, <2>3, <3>1 DEF Good, Extent, P!Position, Left
  <2> QED
    BY <2>4, <2>5
<1> QED
  BY <1>2, <1>3

LEMMA TypesInit == Init => Types
<1> SUFFICES ASSUME Init PROVE Types
  OBVIOUS
<1>1. RingOK /\ 0 \in P!Entries
  BY RingInit, CapOne
<1>2. /\ start_of_line = P!At(0, 0) /\ cur_loc = P!At(0, 0)
      /\ last_semicolon = P!At(-1, -1)
      /\ data_sizes[0] = -1
  BY <1>1 DEF Init
<1>3. Good(start_of_line) /\ Good(cur_loc) /\ NotAfter(start_of_line, cur_loc)
  BY <1>1, <1>2 DEF Good, Pointer, Extent, NotAfter, P!At
<1>4. last_semicolon.circ_index = -1 /\ "circ_index" \in DOMAIN last_semicolon
  BY <1>2 DEF P!At
<1> QED
  BY <1>1, <1>3, <1>4 DEF Types, Init

(* What the parser finds at cur_loc.                                       *)
LEMMA LineNotEnded ==
    ASSUME Types, Judges, ~is_ptr_pointing_to_eol_or_eos
    PROVE  Left(cur_loc) > 0 \/ Ahead > 0
<1>1. Left(cur_loc) \in Int
  BY Positions DEF Types
<1>2. Ahead \in Int
  BY Increments, ParserAssumption DEF Ahead, Types, RingOK, Good, Pointer
<1>3. (Left(cur_loc) >= 2 \/ Ahead <= 0) => ~(Left(cur_loc) <= 0)
  BY DEF is_ptr_pointing_to_eol_or_eos
<1> QED
  BY <1>1, <1>2, <1>3

(* An end of line is skipped whole.                                        *)
LEMMA Skipped ==
    ASSUME Types, is_eol(cur_loc, Left(cur_loc)) > 0
    PROVE  LET offset == is_eol(cur_loc, Left(cur_loc))
               next == After(cur_loc, offset)
           IN  /\ offset \in {1, 2} /\ offset <= Left(cur_loc)
               /\ Good(next) /\ Before(cur_loc, next)
               /\ P!Position(next) = P!Position(cur_loc) + offset
               /\ stream[P!Position(next)] \in {LF, CR}
               /\ stream[P!Position(cur_loc) + 1] \in {LF, CR}
               /\ offset = 1 => stream[P!Position(cur_loc) + 1] = LF
               /\ offset = 2 => stream[P!Position(cur_loc) + 1] # stream[P!Position(cur_loc) + 2]
<1> DEFINE size == Left(cur_loc)
           offset == is_eol(cur_loc, size)
           next == After(cur_loc, offset)
           n == P!Position(cur_loc)
           c == get_char(cur_loc)
           d == get_char(After(cur_loc, 1))
<1>1. /\ RingOK /\ Good(cur_loc) /\ size \in Int
      /\ cur_loc.buff_pos \in Nat /\ data_sizes[cur_loc.circ_index] \in Int
      /\ n \in Nat
  BY Positions DEF Types
<1>2. offset = IF size <= 0 THEN -1
               ELSE IF size >= 2 /\ ((c = CR /\ d = LF) \/ (c = LF /\ d = CR)) THEN 2
               ELSE IF c = LF THEN 1 ELSE 0
  BY <1>1, EndsOfLine
<1>3. offset > 0
  OBVIOUS
<1>4. size > 0 /\ c = stream[n + 1] /\ offset \in {1, 2} /\ offset <= size
  <2>1. size > 0 /\ offset \in {1, 2} /\ offset <= size
    <3> HIDE DEF size, c, d, offset
    <3> QED
      BY <1>1, <1>2, <1>3
  <2> QED
    BY <1>1, <2>1, Chars
<1>5. \A k \in Nat : k <= size => cur_loc.buff_pos + k <= Extent(cur_loc.circ_index)
  BY <1>1, <1>4 DEF Left, Extent
<1>6. /\ Good(next) /\ P!Position(next) = n + offset /\ NotAfter(cur_loc, next)
      /\ next.circ_index = cur_loc.circ_index
      /\ next.buff_pos = cur_loc.buff_pos + offset
  <2>1. offset \in Nat /\ offset <= size
    BY <1>4
  <2> QED
    BY <1>1, <1>5, <2>1, Afters
<1>7. Before(cur_loc, next)
  <2>1. offset # 0
    BY <1>4
  <2> QED
    BY <1>1, <1>4, <1>6, <2>1 DEF Before
<1>8. CASE offset = 2
  <2>1. size >= 2 /\ ((c = CR /\ d = LF) \/ (c = LF /\ d = CR))
    <3> HIDE DEF size, c, d, offset
    <3> QED
      BY <1>1, <1>2, <1>8
  <2>2. /\ Good(After(cur_loc, 1)) /\ P!Position(After(cur_loc, 1)) = n + 1
        /\ Left(After(cur_loc, 1)) = size - 1
    BY <1>1, <1>5, <2>1, Afters
  <2>3. d = stream[n + 2]
    BY <1>1, <2>1, <2>2, Chars
  <2>4. LF # CR
    BY DEF LF, CR
  <2> HIDE DEF c, d, n, next, size, offset
  <2>5. stream[P!Position(next)] = d
    BY <1>6, <1>8, <2>3
  <2> QED
    BY <1>4, <1>6, <1>7, <1>8, <2>1, <2>3, <2>4, <2>5 DEF next, offset, n, size
<1>9. CASE offset = 1
  <2>1. c = LF
    <3> HIDE DEF size, c, d, offset
    <3> QED
      BY <1>1, <1>2, <1>9
  <2> HIDE DEF c, d, n, next, size, offset
  <2> QED
    BY <1>4, <1>6, <1>7, <1>9, <2>1 DEF next, offset, n, size
<1> QED
  BY <1>4, <1>8, <1>9

LEMMA ColonNotBeforeLine ==
    ASSUME Types, ColonAfterStart > 0
    PROVE  last_semicolon.circ_index \in P!Entries
<1>1. /\ start_of_line.circ_index \in Nat /\ N \in Nat
      /\ P!Entries \subseteq Nat /\ 0 \in P!Entries
  BY Positions, CapOne DEF Types
<1>2. CASE last_semicolon.circ_index = -1
  <2>1. ColonAfterStart = -1 - start_of_line.circ_index
    BY <1>1, <1>2, Compares DEF ColonAfterStart, Types
  <2> QED
    BY <1>1, <2>1
<1> QED
  BY <1>2 DEF Types

LEMMA TypesStep == Types /\ [Next]_vars => Types'
<1> SUFFICES ASSUME Types, [Next]_vars PROVE Types'
  OBVIOUS
<1>1. ASSUME read_next_buffer \/ UNCHANGED ring,
             UNCHANGED <<input, start_of_line, last_semicolon, cur_loc>>
      PROVE  /\ RingOK'
             /\ Good(start_of_line)' /\ Good(cur_loc)'
             /\ NotAfter(start_of_line, cur_loc)'
             /\ last_semicolon'.circ_index \in P!Entries \union {-1}
             /\ "circ_index" \in DOMAIN last_semicolon'
  <2>1. RingOK'
    <3>1. CASE read_next_buffer
      BY <1>1, <3>1, FeedRing DEF Types
    <3>2. CASE UNCHANGED ring
      BY <1>1, <3>2 DEF Types, RingOK, ring, stream, StopOf, Extent, N
    <3> QED
      BY <1>1, <3>1, <3>2
  <2>2. Good(start_of_line)' /\ Good(cur_loc)'
    BY <1>1, GoodStays DEF Types
  <2> QED
    BY <1>1, <2>1, <2>2 DEF Types, NotAfter
<1>2. CASE ReadFirst \/ DecodeType \/ ReadSecond \/ GetNextLine \/ LookAhead
  BY <1>1, <1>2 DEF Types, ReadFirst, DecodeType, ReadSecond, GetNextLine, LookAhead,
                    pointers, results
<1>3. CASE FirstLine \/ AddOutOfLine \/ HeaderDecoded \/ UNCHANGED vars
  BY <1>1, <1>3 DEF Types, FirstLine, AddOutOfLine, HeaderDecoded, vars,
                    pointers, results
<1>4. CASE skip_eol_if_present
  <2> DEFINE offset == is_eol(cur_loc, Left(cur_loc))
  <2>1. /\ UNCHANGED <<input, ring, last_semicolon, results, lines>>
        /\ pc' = "scan"
        /\ IF offset > 0 THEN /\ cur_loc' = After(cur_loc, offset)
                              /\ start_of_line' = cur_loc'
           ELSE UNCHANGED <<cur_loc, start_of_line>>
    BY <1>4 DEF skip_eol_if_present
  <2>2. CASE offset > 0
    <3>1. Good(After(cur_loc, offset))
      BY <2>2, Skipped
    <3>2. Good(start_of_line)' /\ Good(cur_loc)'
      BY <2>1, <2>2, <3>1, GoodStays DEF Types
    <3>3. NotAfter(start_of_line, cur_loc)' /\ RingOK'
      <4>1. NotAfter(start_of_line, cur_loc)'
        BY <2>1, <2>2, <3>1, Positions DEF NotAfter, Types
      <4> QED
        BY <2>1, <4>1 DEF Types, RingOK, ring, stream, StopOf, Extent, N
    <3> QED
      BY <2>1, <3>2, <3>3 DEF Types
  <2>3. CASE ~(offset > 0)
    BY <1>1, <2>1, <2>3 DEF Types
  <2> QED
    BY <2>2, <2>3
<1>5. CASE Advance
  <2>1. /\ UNCHANGED <<input, ring, start_of_line, lines>>
        /\ pc' = "scan" /\ cur_loc' = op_add_1(cur_loc)
        /\ last_semicolon' \in {last_semicolon, cur_loc}
        /\ Judges /\ ~is_ptr_pointing_to_eol_or_eos
    BY <1>5 DEF Advance, results
  <2>2. Good(op_add_1(cur_loc)) /\ Before(cur_loc, op_add_1(cur_loc))
    BY <2>1, LineNotEnded, OneFurther DEF Ahead, Types
  <2>3. Good(start_of_line)' /\ Good(cur_loc)'
    BY <2>1, <2>2, GoodStays DEF Types
  <2>4. NotAfter(start_of_line, cur_loc)'
    BY <2>1, <2>2, Positions DEF NotAfter, Before, Types
  <2>5. /\ last_semicolon'.circ_index \in P!Entries \union {-1}
        /\ "circ_index" \in DOMAIN last_semicolon'
    BY <2>1 DEF Types, Good, Pointer
  <2>6. RingOK'
    BY <2>1 DEF Types, RingOK, ring, stream, StopOf, Extent, N
  <2> QED
    BY <2>1, <2>3, <2>4, <2>5, <2>6 DEF Types
<1>6. CASE http_headers_add
  <2>1. /\ UNCHANGED <<input, ring, start_of_line, cur_loc>>
        /\ pc' = "line" /\ lines' = 2
        /\ last_semicolon' \in {last_semicolon, ValueStart}
        /\ ColonAfterStart > 0
    BY <1>6 DEF http_headers_add
  <2>2. last_semicolon.circ_index \in P!Entries
    BY <2>1, ColonNotBeforeLine
  <2> DEFINE p == op_add_1(last_semicolon)
  <2>3. p.circ_index \in P!Entries /\ "circ_index" \in DOMAIN p
    <3>1. CASE Left(last_semicolon) > 0
      BY <2>2, <3>1 DEF op_add_1, After, Types
    <3>2. CASE ~(Left(last_semicolon) > 0)
      BY <2>2, <3>2, Increments DEF op_add_1, P!At
    <3> QED
      BY <3>1, <3>2
  <2>4. ValueStart.circ_index \in P!Entries /\ "circ_index" \in DOMAIN ValueStart
    BY <2>3 DEF ValueStart, After
  <2>5. /\ last_semicolon'.circ_index \in P!Entries \union {-1}
        /\ "circ_index" \in DOMAIN last_semicolon'
    BY <2>1, <2>4 DEF Types
  <2>6. Good(start_of_line)' /\ Good(cur_loc)'
    BY <2>1, GoodStays DEF Types
  <2>7. RingOK' /\ NotAfter(start_of_line, cur_loc)'
    BY <2>1 DEF Types, RingOK, ring, stream, StopOf, Extent, N, NotAfter
  <2> QED
    BY <2>1, <2>5, <2>6, <2>7 DEF Types
<1> QED
  BY <1>2, <1>3, <1>4, <1>5, <1>6 DEF Next

-----------------------------------------------------------------------------
(* A header is recorded from its line.                                     *)

LEMMA Least ==
    ASSUME NEW S \in SUBSET Nat, S # {}
    PROVE  Min(S) \in S /\ \A n \in S : Min(S) <= n
<1>1. Min(S) = Q!Min(S)
  BY DEF Min, Q!Min
<1> QED
  BY <1>1, RingAssumptions, Q!Smallest

(* A string without a NUL is all of it; so what is copied from a text      *)
(* without one is the text.                                                *)
LEMMA WholeString ==
    ASSUME NEW s \in Seq(Byte), \A k \in 1 .. Len(s) : s[k] # NUL
    PROVE  c_string(s) = s
<1>1. {k \in DOMAIN s : s[k] = NUL} \union {Len(s) + 1} = {Len(s) + 1}
  OBVIOUS
<1>2. Min({Len(s) + 1}) = Len(s) + 1
  BY Least
<1>3. (Len(s) + 1) - 1 = Len(s)
  OBVIOUS
<1>4. SubSeq(s, 1, Len(s)) = s
  OBVIOUS
<1> QED
  BY <1>1, <1>2, <1>3, <1>4 DEF c_string

LEMMA CopyText ==
    ASSUME RingOK, NEW p, NEW q, Good(p), Good(q), NotAfter(p, q), N # 0,
           \A k \in P!Position(p) + 1 .. P!Position(q) : stream[k] # NUL
    PROVE  copy(p, q) = SubSeq(stream, P!Position(p) + 1, P!Position(q))
<1> DEFINE a == P!Position(p)
           b == P!Position(q)
           text == SubSeq(stream, a + 1, b)
<1>1. between(p, q) = text
  BY BetweenText
<1>2. /\ a \in Nat /\ b \in Nat /\ a <= b /\ b <= Len(stream)
      /\ stream \in Seq(Byte) /\ Len(stream) \in Nat
  BY StreamIsSeq, Positions, InOrder DEF RingOK
<1>3. \A k \in a + 1 .. b : stream[k] # NUL
  OBVIOUS
<1> HIDE DEF a, b
<1>4. /\ text = [k \in 1 .. b - a |-> stream[a + k]]
      /\ text \in Seq(Byte) /\ Len(text) = b - a
  BY <1>2, Piece
<1>5. ASSUME NEW k \in 1 .. Len(text)
      PROVE  text[k] # NUL
  <2>1. k \in 1 .. b - a /\ a + k \in a + 1 .. b
    BY <1>2, <1>4
  <2> QED
    BY <1>3, <1>4, <2>1
<1> HIDE DEF text
<1>6. c_string(text) = text
  BY <1>4, <1>5, WholeString
<1> QED
  BY <1>1, <1>6 DEF copy, a, b, text

NulFree == \A k \in DOMAIN stream : stream[k] # NUL

LineStarts == P!Position(start_of_line) = 0 \/ stream[P!Position(start_of_line)] \in {LF, CR}

(* The colon that last_semicolon points to, or has been moved behind: then *)
(* it is either in a line before, or in the key.                           *)
AtColon == /\ Left(last_semicolon) > 0
           /\ stream[P!Position(last_semicolon) + 1] = COLON
           /\ Before(last_semicolon, cur_loc)

PastColon ==
    /\ NotAfter(last_semicolon, cur_loc)
    /\ \/ Before(last_semicolon, start_of_line)
       \/ \E m \in Nat : /\ m < last_semicolon.buff_pos
                         /\ stream[start[last_semicolon.circ_index] + m + 1] = COLON
                         /\ NotAfter(start_of_line, P!At(last_semicolon.circ_index, m))

SemicolonOK == \/ last_semicolon = P!At(-1, -1)
               \/ Good(last_semicolon) /\ (AtColon \/ PastColon)

LEMMA LineEnds ==
    ASSUME Types, Quiet, LineRead
    PROVE  Left(cur_loc) <= 0 \/ get_char(cur_loc) \in {LF, CR}
<1>1. RingOK /\ Good(cur_loc) /\ Left(cur_loc) \in Int
  BY Positions DEF Types
<1> SUFFICES ASSUME Left(cur_loc) > 0 PROVE get_char(cur_loc) \in {LF, CR}
  BY <1>1
<1>2. PICK size \in Int : size > 0 /\ is_eol(cur_loc, size) # 0
  <2>1. CASE Left(cur_loc) >= 2 \/ Ahead <= 0
    BY <1>1, <2>1 DEF LineRead, is_ptr_pointing_to_eol_or_eos
  <2>2. CASE ~(Left(cur_loc) >= 2 \/ Ahead <= 0)
    <3>1. Left(cur_loc) = 1
      BY <1>1, <2>2
    <3> QED
      BY <2>2, <3>1 DEF LineRead, is_ptr_pointing_to_eol_or_eos
  <2> QED
    BY <2>1, <2>2
<1> QED
  BY <1>2, EndsOfLine

(* The line of a header that is looked up: the key is the text up to       *)
(* last_semicolon, which points behind the start of the line.              *)
LEMMA KeyText ==
    ASSUME Types, Good(last_semicolon), ColonAfterStart > 0
    PROVE  /\ N # 0
           /\ Before(start_of_line, last_semicolon)
           /\ P!Position(start_of_line) <= P!Position(last_semicolon)
           /\ (\A k \in P!Position(start_of_line) + 1 .. P!Position(last_semicolon) :
                  stream[k] # NUL)
                => Key = SubSeq(stream, P!Position(start_of_line) + 1, P!Position(last_semicolon))
<1> DEFINE sol == start_of_line
           ls == last_semicolon
<1>1. /\ RingOK /\ Good(sol) /\ Good(ls)
      /\ sol.circ_index \in Nat /\ sol.buff_pos \in Nat
      /\ ls.circ_index \in Nat /\ ls.buff_pos \in Nat /\ N \in Nat
      /\ ls.circ_index \in P!Entries /\ sol.circ_index \in P!Entries
  BY Positions DEF Types, Good, Pointer
<1>2. Before(sol, ls)
  BY <1>1, Compares DEF ColonAfterStart, Before, NotAfter
<1>3. N # 0
  <2> SUFFICES ASSUME N = 0 PROVE FALSE
    OBVIOUS
  <2>1. sol.circ_index = 0 /\ ls.circ_index = 0 /\ Extent(0) = 0
    <3>1. data_sizes[0] = -1
      BY <1>1, CapOne DEF RingOK
    <3> QED
      BY <1>1, <3>1 DEF Good, Extent
  <2>2. sol.buff_pos = 0 /\ ls.buff_pos = 0
    BY <1>1, <2>1 DEF Good
  <2> QED
    BY <1>1, <2>1, <2>2, Compares DEF ColonAfterStart
<1>4. NotAfter(sol, ls)
  BY <1>1, <1>2 DEF Before, NotAfter
<1> QED
  BY <1>1, <1>2, <1>3, <1>4, InOrder, CopyText DEF Key

(* A key that is known has no colon: last_semicolon still points to the    *)
(* one behind it.                                                          *)
LEMMA KnownAtColon ==
    ASSUME Types, NulFree, SemicolonOK, ColonAfterStart > 0, Key \in KnownKeys
    PROVE  Good(last_semicolon) /\ AtColon
<1> DEFINE sol == start_of_line
           ls == last_semicolon
           a == P!Position(sol)
           b == P!Position(ls)
<1>1. Good(ls) /\ (AtColon \/ PastColon)
  <2>1. ls # P!At(-1, -1)
    <3>1. ls.circ_index \in Nat
      BY ColonNotBeforeLine, CapOne
    <3> QED
      BY <3>1 DEF P!At
  <2> QED
    BY <2>1 DEF SemicolonOK
<1> SUFFICES ASSUME PastColon PROVE FALSE
  BY <1>1
<1>2. /\ Before(sol, ls) /\ a <= b
      /\ Key = SubSeq(stream, a + 1, b)
  <2>1. \A k \in a + 1 .. b : k \in DOMAIN stream
    <3>1. RingOK /\ Good(sol) /\ Good(ls)
      BY <1>1 DEF Types
    <3>2. a \in Nat /\ b \in Nat /\ b <= received
      BY <3>1, Positions
    <3>3. received <= Len(stream) /\ DOMAIN stream = 1 .. Len(stream) /\ Len(stream) \in Nat
          /\ received \in Nat
      BY <3>1, StreamIsSeq DEF RingOK
    <3> HIDE DEF a, b
    <3> QED
      BY <3>2, <3>3
  <2> QED
    BY <1>1, <2>1, KeyText DEF NulFree
<1>3. /\ RingOK /\ Good(sol)
      /\ sol.circ_index \in Nat /\ sol.buff_pos \in Nat
      /\ ls.circ_index \in Nat /\ ls.buff_pos \in Nat
      /\ a \in Nat /\ b \in Nat /\ b <= Len(stream)
      /\ start[ls.circ_index] \in Nat /\ b = start[ls.circ_index] + ls.buff_pos
      /\ stream \in Seq(Byte) /\ Len(stream) \in Nat
  <2>1. RingOK /\ Good(sol) /\ Good(ls)
    BY <1>1 DEF Types
  <2>2. /\ received \in Nat /\ received <= Len(stream)
        /\ stream \in Seq(Byte) /\ Len(stream) \in Nat
    BY <2>1, StreamIsSeq DEF RingOK
  <2>3. sol.circ_index \in Nat /\ sol.buff_pos \in Nat /\ a \in Nat
    BY <2>1, Positions
  <2>4. /\ ls.circ_index \in Nat /\ ls.buff_pos \in Nat /\ b \in Nat /\ b <= received
        /\ start[ls.circ_index] \in Nat /\ b = start[ls.circ_index] + ls.buff_pos
    BY <2>1, Positions
  <2> HIDE DEF a, b, sol, ls
  <2> QED
    BY <2>1, <2>2, <2>3, <2>4
<1>4. PICK m \in Nat : /\ m < ls.buff_pos
                       /\ stream[start[ls.circ_index] + m + 1] = COLON
                       /\ NotAfter(sol, P!At(ls.circ_index, m))
  <2>1. ~Before(ls, sol)
    BY <1>2, <1>3 DEF Before, NotAfter
  <2> QED
    BY <2>1 DEF PastColon
<1> DEFINE q == P!At(ls.circ_index, m)
<1>5. q.circ_index = ls.circ_index /\ q.buff_pos = m /\ q \in Pointer
  BY <1>1 DEF P!At, Pointer, Good
<1>6. Good(q) /\ P!Position(q) = start[ls.circ_index] + m
  <2>1. m <= Extent(ls.circ_index)
    <3>1. ls.buff_pos <= Extent(ls.circ_index) /\ Extent(ls.circ_index) \in Nat
      BY <1>1, <1>3, Positions DEF Good
    <3> QED
      BY <1>3, <1>4, <3>1
  <2> HIDE DEF q
  <2> QED
    BY <1>1, <1>5, <2>1 DEF Good, P!Position
<1>7. a <= start[ls.circ_index] + m
  BY <1>3, <1>4, <1>6, InOrder
<1> DEFINE k == start[ls.circ_index] + m + 1 - a
           key == SubSeq(stream, a + 1, b)
<1>8. k \in 1 .. b - a /\ a + k = start[ls.circ_index] + m + 1
  <2> DEFINE first == start[ls.circ_index]
             pos == ls.buff_pos
  <2>1. a \in Nat /\ first \in Nat /\ pos \in Nat /\ b = first + pos
    BY <1>3
  <2>2. m < pos /\ a <= first + m
    BY <1>4, <1>7
  <2> HIDE DEF a, b, first, pos
  <2> QED
    BY <2>1, <2>2 DEF first
<1> HIDE DEF a, b, k
<1>9. key \in Seq(Byte) /\ Len(key) = b - a /\ key[k] = stream[a + k]
  <2>1. stream \in Seq(Byte) /\ a \in Nat /\ b \in Nat /\ a <= b /\ b <= Len(stream)
    BY <1>2, <1>3
  <2>2. /\ key = [j \in 1 .. b - a |-> stream[a + j]]
        /\ key \in Seq(Byte) /\ Len(key) = b - a
    BY <2>1, Piece
  <2> QED
    BY <1>8, <2>2
<1>10. key \in Seq(Byte \ {COLON, NUL})
  BY <1>2, WordsAssumption
<1> HIDE DEF key
<1>11. key[k] # COLON
  BY <1>8, <1>9, <1>10
<1> QED
  BY <1>4, <1>8, <1>9, <1>11

(* The value begins behind the colon and the spaces that follow it in the  *)
(* entry.                                                                  *)
LEMMA ValueBegins ==
    ASSUME Types, Quiet, LineRead, Good(last_semicolon), AtColon
    PROVE  /\ Good(ValueStart) /\ NotAfter(ValueStart, cur_loc)
           /\ ValueStart.circ_index = last_semicolon.circ_index
           /\ ValueStart.buff_pos > last_semicolon.buff_pos
           /\ P!Position(ValueStart) > P!Position(last_semicolon)
           /\ \A k \in P!Position(last_semicolon) + 2 .. P!Position(ValueStart) :
                 stream[k] = SP
           /\ Left(ValueStart) > 0 => stream[P!Position(ValueStart) + 1] # SP
<1> DEFINE ls == last_semicolon
           i == ls.circ_index
           b == P!Position(ls)
           p == op_add_1(ls)
           K == {k \in 0 .. MaxChunk : get_char(After(p, k)) # SP}
           k0 == Min(K)
           r == Left(p)
<1>1. /\ RingOK /\ Good(cur_loc) /\ Good(ls) /\ Left(ls) > 0
      /\ i \in Nat /\ ls.buff_pos \in Nat /\ b \in Nat /\ Left(ls) \in Int
      /\ MaxChunk \in Nat /\ data_sizes[i] \in -1 .. MaxChunk
      /\ Left(ls) = data_sizes[i] - ls.buff_pos
  BY Positions DEF Types, AtColon, Left, RingOK, Good, Pointer
<1>2. /\ p = After(ls, 1) /\ Good(p) /\ p.circ_index = i /\ p.buff_pos = ls.buff_pos + 1
      /\ P!Position(p) = b + 1 /\ r = Left(ls) - 1 /\ r \in 0 .. MaxChunk
      /\ Extent(i) = data_sizes[i]
  <2>1. p = After(ls, 1)
    BY <1>1 DEF op_add_1
  <2>2. Extent(i) = data_sizes[i] /\ ls.buff_pos + 1 <= Extent(i)
    BY <1>1 DEF Extent
  <2>3. 1 \in Nat
    OBVIOUS
  <2> HIDE DEF p, b
  <2>4. /\ Good(p) /\ p.circ_index = i /\ p.buff_pos = ls.buff_pos + 1
        /\ P!Position(p) = b + 1 /\ r = Left(ls) - 1
    BY <1>1, <2>1, <2>2, <2>3, Afters DEF b
  <2>5. r \in 0 .. MaxChunk
    BY <1>1, <2>4
  <2> QED
    BY <2>1, <2>2, <2>4, <2>5
<1> HIDE DEF p
<1>3. ASSUME NEW k \in 0 .. r
      PROVE  /\ Good(After(p, k)) /\ After(p, k) = P!At(i, ls.buff_pos + 1 + k)
             /\ After(p, k).circ_index = i /\ After(p, k).buff_pos = ls.buff_pos + 1 + k
             /\ P!Position(After(p, k)) = b + 1 + k
             /\ Left(After(p, k)) = r - k
             /\ k < r => get_char(After(p, k)) = stream[b + 1 + k + 1]
             /\ k = r => get_char(After(p, k)) = NUL
  <2>1. k \in Nat /\ k <= r /\ r \in Nat
    BY <1>2
  <2>2. p.buff_pos + k <= Extent(p.circ_index)
    BY <1>1, <1>2, <2>1
  <2>3. /\ Good(After(p, k)) /\ After(p, k) = P!At(i, ls.buff_pos + 1 + k)
        /\ After(p, k).circ_index = i /\ After(p, k).buff_pos = ls.buff_pos + 1 + k
        /\ P!Position(After(p, k)) = b + 1 + k
        /\ Left(After(p, k)) = r - k
    BY <1>1, <1>2, <2>1, <2>2, Afters
  <2>4. k < r => get_char(After(p, k)) = stream[b + 1 + k + 1]
    BY <1>1, <2>1, <2>3, Chars
  <2>5. k = r => get_char(After(p, k)) = NUL
    BY <1>1, <2>1, <2>3, Chars
  <2> QED
    BY <2>3, <2>4, <2>5
<1>4. r \in K /\ K \subseteq Nat
  BY <1>1, <1>2, <1>3 DEF NUL, SP
<1>5. k0 \in K /\ \A k \in K : k0 <= k
  <2> HIDE DEF K
  <2> QED
    BY <1>4, Least
<1>6. k0 \in 0 .. r /\ get_char(After(p, k0)) # SP /\ ValueStart = After(p, k0)
  <2>1. k0 \in 0 .. r
    <3>1. k0 \in Nat /\ k0 <= r /\ r \in Nat
      <4> HIDE DEF K, k0, r
      <4> QED
        BY <1>1, <1>2, <1>4, <1>5
    <3> QED
      BY <3>1
  <2> QED
    BY <1>5, <2>1 DEF ValueStart, p
<1> HIDE DEF k0
<1>7. /\ Good(ValueStart) /\ ValueStart.circ_index = i
      /\ ValueStart.buff_pos = ls.buff_pos + 1 + k0
      /\ P!Position(ValueStart) = b + 1 + k0
      /\ Left(ValueStart) = r - k0
  BY <1>3, <1>6
<1>8. ASSUME NEW k \in b + 2 .. b + 1 + k0
      PROVE  stream[k] = SP
  <2> DEFINE j == k - (b + 2)
  <2>1. j \in 0 .. r /\ j < r /\ j < k0 /\ b + 1 + j + 1 = k /\ j \in 0 .. MaxChunk
    BY <1>1, <1>2, <1>6
  <2>2. j \notin K
    <3> HIDE DEF j, K
    <3> QED
      BY <1>4, <1>5, <1>6, <2>1
  <2>3. get_char(After(p, j)) = SP
    BY <2>1, <2>2
  <2> QED
    BY <1>3, <2>1, <2>3
<1>9. Left(ValueStart) > 0 => stream[P!Position(ValueStart) + 1] # SP
  <2> SUFFICES ASSUME k0 < r PROVE stream[b + 1 + k0 + 1] # SP
    BY <1>2, <1>6, <1>7
  <2> QED
    BY <1>3, <1>6
<1>10. NotAfter(ValueStart, cur_loc)
  <2>1. CASE i < cur_loc.circ_index
    BY <1>7, <2>1 DEF NotAfter
  <2>2. CASE i = cur_loc.circ_index /\ ls.buff_pos < cur_loc.buff_pos
    <3> DEFINE k == cur_loc.buff_pos - (ls.buff_pos + 1)
    <3>1. /\ cur_loc.buff_pos \in Nat /\ cur_loc.buff_pos <= Extent(i)
          /\ cur_loc = P!At(i, cur_loc.buff_pos)
      BY <1>1, <2>2, Positions DEF Good, Pointer, P!At
    <3>2. k \in 0 .. r /\ ls.buff_pos + 1 + k = cur_loc.buff_pos
      BY <1>1, <1>2, <2>2, <3>1
    <3>3. After(p, k) = cur_loc
      BY <1>3, <3>1, <3>2
    <3>4. get_char(cur_loc) # SP
      <4>1. CASE Left(cur_loc) <= 0
        BY <1>1, <4>1, Chars DEF NUL, SP
      <4>2. CASE get_char(cur_loc) \in {LF, CR}
        BY <4>2 DEF LF, CR, SP
      <4> QED
        BY <4>1, <4>2, LineEnds
    <3>5. k \in K
      <4>1. k \in 0 .. MaxChunk
        BY <1>1, <1>2, <3>2
      <4> QED
        BY <3>3, <3>4, <4>1
    <3>6. k0 <= k
      <4> HIDE DEF k, K
      <4> QED
        BY <1>5, <3>5 DEF k0
    <3> QED
      BY <1>1, <1>6, <1>7, <2>2, <3>1, <3>2, <3>6 DEF NotAfter
  <2> QED
    BY <2>1, <2>2 DEF AtColon, Before
<1> QED
  BY <1>1, <1>6, <1>7, <1>8, <1>9, <1>10

(* No stream begins like a header: its first line is not one.              *)
NoHeaderFirst ==
    \A i \in Inputs, key \in KnownKeys :
       SubSeq(i.stream, 1, Len(key) + 1) # Append(key, COLON)

Header == [key : Seq(Byte), value : Seq(Byte)]

LEMMA HeaderOccurs ==
    ASSUME NoHeaderFirst,
           Types, LineStarts, Quiet, NulFree, SemicolonOK, LineRead,
           ColonAfterStart > 0, Key \in KnownKeys
    PROVE  LET h == [key |-> Key, value |-> copy(ValueStart, cur_loc)]
           IN  h \in Header /\ Occurs(h)
<1> DEFINE b == P!Position(start_of_line)
           c == P!Position(last_semicolon)
           v == P!Position(ValueStart)
           e == P!Position(cur_loc)
           key == Key
           value == copy(ValueStart, cur_loc)
           h == [key |-> key, value |-> value]
<1>1. /\ Good(last_semicolon) /\ AtColon
      /\ RingOK /\ Good(start_of_line) /\ Good(cur_loc)
      /\ stream \in Seq(Byte) /\ Len(stream) \in Nat
  BY KnownAtColon, StreamIsSeq DEF Types, RingOK
<1>0. \A k \in 1 .. received : stream[k] # NUL
  BY <1>1 DEF RingOK, NulFree
<1>2. /\ N # 0 /\ b <= c /\ key = SubSeq(stream, b + 1, c)
  <2>1. b \in Nat /\ c \in Nat /\ c <= received /\ received \in Nat
    BY <1>1, Positions DEF RingOK
  <2>2. \A k \in b + 1 .. c : k \in 1 .. received
    <3> HIDE DEF b, c
    <3> QED
      BY <2>1
  <2> QED
    BY <1>0, <1>1, <2>2, KeyText
<1>3. /\ Good(ValueStart) /\ NotAfter(ValueStart, cur_loc) /\ v > c
      /\ \A k \in c + 2 .. v : stream[k] = SP
  BY <1>1, ValueBegins
<1>4. value = SubSeq(stream, v + 1, e) /\ v <= e
  <2>1. v \in Nat /\ e \in Nat /\ e <= received /\ received \in Nat
    BY <1>1, <1>3, Positions DEF RingOK
  <2>2. \A k \in v + 1 .. e : k \in 1 .. received
    <3> HIDE DEF v, e
    <3> QED
      BY <2>1
  <2> QED
    BY <1>0, <1>1, <1>2, <1>3, <2>2, CopyText, InOrder
<1>5. /\ b \in Nat /\ c \in Nat /\ v \in Nat /\ e \in Nat
      /\ e <= received /\ received \in Nat /\ received <= Len(stream)
      /\ c + 1 \in DOMAIN stream
  BY <1>1, <1>3, Positions DEF RingOK, AtColon
<1>6. e <= Len(stream) /\ c < Len(stream)
  BY <1>1, <1>5
<1>7. stream[c + 1] = COLON
  BY <1>1 DEF AtColon
<1>8. b = 0 \/ stream[b] \in {LF, CR}
  BY DEF LineStarts
<1> HIDE DEF b, c, v, e, key, value
<1>9. /\ key = [k \in 1 .. c - b |-> stream[b + k]]
      /\ key \in Seq(Byte) /\ Len(key) = c - b
  BY <1>1, <1>2, <1>5, <1>6, Piece
<1>10. value \in Seq(Byte) /\ Len(value) = e - v
  BY <1>1, <1>4, <1>5, <1>6, Piece
<1>11. b # 0
  <2> SUFFICES ASSUME b = 0 PROVE FALSE
    OBVIOUS
  <2> DEFINE more == SubSeq(stream, 1, c + 1)
  <2>1. 0 \in Nat /\ c + 1 \in Nat /\ 0 <= c + 1 /\ c + 1 <= Len(stream) /\ 0 + 1 = 1
    BY <1>1, <1>5, <1>6
  <2>2. /\ more = [k \in 1 .. (c + 1) - 0 |-> stream[0 + k]]
        /\ more \in Seq(Byte) /\ Len(more) = (c + 1) - 0
    BY <1>1, <2>1, Piece
  <2>3. COLON \in Byte
    BY DEF COLON, Byte
  <2>4. /\ Append(key, COLON) \in Seq(Byte) /\ Len(Append(key, COLON)) = c + 1
        /\ \A k \in 1 .. c + 1 : Append(key, COLON)[k] = IF k <= c THEN key[k] ELSE COLON
    <3>1. Len(key) = c
      BY <1>5, <1>9
    <3> QED
      BY <1>5, <1>9, <2>3, <3>1, AppendProperties
  <2>5. ASSUME NEW k \in 1 .. c + 1
        PROVE  more[k] = Append(key, COLON)[k]
    <3>1. k \in 1 .. (c + 1) - 0 /\ 0 + k = k /\ (k <= c => k \in 1 .. c - b) /\ b + k = k
      BY <1>5
    <3>2. more[k] = stream[k]
      BY <2>2, <3>1
    <3>3. CASE k <= c
      BY <1>9, <2>4, <3>1, <3>2, <3>3
    <3>4. CASE ~(k <= c)
      <4>1. k = c + 1
        BY <1>5, <3>4
      <4> QED
        BY <1>7, <2>4, <3>2, <3>4, <4>1
    <3> QED
      BY <3>3, <3>4
  <2>6. more = Append(key, COLON)
    <3>1. Len(more) = c + 1 /\ Len(Append(key, COLON)) = c + 1
      BY <1>5, <2>2, <2>4
    <3> HIDE DEF more
    <3> QED
      BY <2>2, <2>4, <2>5, <3>1, SeqEqual
  <2>7. key \in KnownKeys /\ input \in Inputs /\ Len(key) + 1 = c + 1
    BY <1>1, <1>5, <1>9 DEF key, RingOK
  <2> QED
    BY <2>6, <2>7 DEF NoHeaderFirst, stream
<1>12. h \in Header
  BY <1>9, <1>10 DEF Header
<1>13. Occurs(h)
  <2>1. /\ b + 1 \in DOMAIN stream /\ b + 1 > 1 /\ (b + 1) - 1 = b
        /\ stream[(b + 1) - 1] \in {LF, CR}
    BY <1>1, <1>2, <1>5, <1>6, <1>8, <1>11
  <2>2. /\ v + 1 \in (b + 1) + Len(h.key) + 1 .. Len(stream) + 1
        /\ (b + 1) + Len(h.key) = c + 1
        /\ (v + 1) + Len(h.value) - 1 = e
    <3>1. Len(h.key) = c - b /\ Len(h.value) = e - v
      BY <1>9, <1>10
    <3> HIDE DEF h
    <3>2. Len(stream) \in Nat /\ v > c /\ v <= e /\ e <= Len(stream)
      BY <1>1, <1>3, <1>4, <1>6
    <3> QED
      BY <1>5, <3>1, <3>2
  <2>3. SubSeq(stream, b + 1, (c + 1) - 1) = h.key /\ SubSeq(stream, v + 1, e) = h.value
    <3>1. (c + 1) - 1 = c
      BY <1>5
    <3> QED
      BY <1>2, <1>4, <3>1
  <2>4. \A k \in (c + 1) + 1 .. (v + 1) - 1 : stream[k] = SP
    BY <1>3, <1>5
  <2> HIDE DEF h
  <2> QED
    BY <1>7, <2>1, <2>2, <2>3, <2>4 DEF Occurs
<1> QED
  BY <1>12, <1>13 DEF key, value

-----------------------------------------------------------------------------
(* Nothing is invented, whatever the chunks are.                           *)

NInv == /\ Types /\ LineStarts
        /\ Quiet /\ NulFree => SemicolonOK /\ headers \in Seq({h \in Header : Occurs(h)})

LEMMA QuietBefore ==
    ASSUME RingOK, read_next_buffer \/ UNCHANGED ring, UNCHANGED input, Quiet'
    PROVE  Quiet
<1>1. CASE UNCHANGED ring
  BY <1>1 DEF Quiet, ring
<1>2. CASE ~(UNCHANGED ring)
  <2> SUFFICES ASSUME MaxChunk \in Range(data_sizes)
               PROVE  MaxChunk \in Range(data_sizes')
    BY DEF Quiet
  <2>1. PICK n \in ReadResults : data_sizes' = [data_sizes EXCEPT ![N] = n]
    BY <1>2 DEF read_next_buffer, P!feed_next_buffer, N
  <2>2. PICK i \in DOMAIN data_sizes : data_sizes[i] = MaxChunk
    BY DEF Range
  <2>3. data_sizes[N] = -1 /\ MaxChunk \in Nat
    BY ParserAssumption, CapOne DEF RingOK
  <2>4. i # N
    BY <2>2, <2>3
  <2>5. i \in DOMAIN data_sizes' /\ data_sizes'[i] = MaxChunk
    BY <2>1, <2>2, <2>4
  <2> QED
    BY <2>5 DEF Range
<1> QED
  BY <1>1, <1>2

LEMMA SemicolonStays ==
    ASSUME Types, SemicolonOK, read_next_buffer \/ UNCHANGED ring,
           UNCHANGED <<input, start_of_line, last_semicolon, cur_loc>>
    PROVE  SemicolonOK'
<1>1. CASE last_semicolon = P!At(-1, -1)
  BY <1>1 DEF SemicolonOK, P!At
<1>2. CASE Good(last_semicolon) /\ (AtColon \/ PastColon)
  <2>1. /\ Good(last_semicolon)'
        /\ P!Position(last_semicolon)' = P!Position(last_semicolon)
        /\ start'[last_semicolon.circ_index] = start[last_semicolon.circ_index]
        /\ last_semicolon.circ_index < N => Left(last_semicolon)' = Left(last_semicolon)
    BY <1>2, GoodStays DEF Types
  <2>2. stream' = stream
    BY DEF stream
  <2>3. AtColon => AtColon'
    <3>1. Left(last_semicolon) > 0 => last_semicolon.circ_index < N
      BY <1>2, Positions DEF Types
    <3> QED
      BY <2>1, <2>2, <3>1 DEF AtColon, Before
  <2>4. PastColon => PastColon'
    BY <2>1, <2>2 DEF PastColon, NotAfter, Before, P!At
  <2> QED
    BY <1>2, <2>1, <2>3, <2>4 DEF SemicolonOK
<1> QED
  BY <1>1, <1>2 DEF SemicolonOK

LEMMA Between ==
    ASSUME NEW p \in Pointer, NEW q \in Pointer, NEW r \in Pointer
    PROVE  /\ NotAfter(p, q) /\ NotAfter(q, r) => NotAfter(p, r)
           /\ NotAfter(p, q) /\ Before(q, r) => Before(p, r)
           /\ Before(p, q) /\ NotAfter(q, r) => Before(p, r)
           /\ Before(p, q) => NotAfter(p, q)
<1>1. /\ {p.circ_index, q.circ_index, r.circ_index} \subseteq Nat
      /\ {p.buff_pos, q.buff_pos, r.buff_pos} \subseteq Nat
  BY CapOne DEF Pointer
<1> QED
  BY <1>1 DEF NotAfter, Before

LEMMA SemicolonStep ==
    ASSUME Types, [Next]_vars, Quiet, NulFree, SemicolonOK
    PROVE  SemicolonOK'
<1>1. CASE read_next_buffer /\ UNCHANGED <<input, pointers>>
  BY <1>1, SemicolonStays DEF pointers
<1>2. CASE UNCHANGED <<input, ring, pointers>>
  BY <1>2, SemicolonStays DEF pointers
<1>3. ASSUME UNCHANGED <<input, ring, last_semicolon>>
      PROVE  /\ stream' = stream
             /\ last_semicolon = P!At(-1, -1) => last_semicolon' = P!At(-1, -1)'
             /\ Good(last_semicolon) =>
                   /\ Good(last_semicolon)' /\ last_semicolon \in Pointer
                   /\ P!Position(last_semicolon)' = P!Position(last_semicolon)
                   /\ Left(last_semicolon)' = Left(last_semicolon)
  BY <1>3, GoodStays DEF stream, P!At, ring, Left, Types, Good
<1>4. CASE skip_eol_if_present
  <2> DEFINE offset == is_eol(cur_loc, Left(cur_loc))
             next == After(cur_loc, offset)
  <2>1. /\ UNCHANGED <<input, ring, last_semicolon>>
        /\ IF offset > 0 THEN cur_loc' = next /\ start_of_line' = next
           ELSE UNCHANGED <<cur_loc, start_of_line>>
    BY <1>4 DEF skip_eol_if_present
  <2>2. CASE offset > 0
    <3>1. /\ cur_loc \in Pointer /\ next \in Pointer /\ Before(cur_loc, next)
          /\ cur_loc' = next /\ start_of_line' = next
      BY <2>1, <2>2, Skipped DEF Types, Good
    <3>2. CASE Good(last_semicolon) /\ (AtColon \/ PastColon)
      <4> HIDE DEF next
      <4>1. NotAfter(last_semicolon, cur_loc) /\ last_semicolon \in Pointer
        BY <3>1, <3>2, Between DEF AtColon, PastColon, Good
      <4>2. Before(last_semicolon, next) /\ NotAfter(last_semicolon, next)
        BY <3>1, <4>1, Between
      <4>3. PastColon'
        BY <2>1, <3>1, <4>2 DEF PastColon, NotAfter, Before
      <4> QED
        BY <1>3, <2>1, <3>2, <4>3 DEF SemicolonOK
    <3>3. CASE last_semicolon = P!At(-1, -1)
      BY <1>3, <2>1, <3>3 DEF SemicolonOK
    <3> QED
      BY <3>2, <3>3 DEF SemicolonOK
  <2>3. CASE ~(offset > 0)
    BY <2>1, <2>3, SemicolonStays
  <2> QED
    BY <2>2, <2>3
<1>5. CASE Advance
  <2> DEFINE next == op_add_1(cur_loc)
  <2>1. /\ UNCHANGED <<input, ring, start_of_line>>
        /\ cur_loc' = next
        /\ last_semicolon' = IF get_char(cur_loc) = COLON THEN cur_loc ELSE last_semicolon
        /\ Judges /\ ~is_ptr_pointing_to_eol_or_eos
    BY <1>5 DEF Advance
  <2>2. /\ Good(next) /\ Before(cur_loc, next) /\ RingOK
        /\ Good(cur_loc) /\ cur_loc \in Pointer /\ next \in Pointer
    BY <2>1, LineNotEnded, OneFurther DEF Ahead, Types, Good
  <2> HIDE DEF next
  <2>3. CASE get_char(cur_loc) = COLON
    <3>1. Left(cur_loc) > 0 /\ stream[P!Position(cur_loc) + 1] = COLON
      <4>1. Left(cur_loc) \in Int
        BY <2>2, Positions
      <4>2. Left(cur_loc) > 0
        BY <2>2, <2>3, <4>1, Chars DEF COLON, NUL
      <4> QED
        BY <2>2, <2>3, <4>2, Chars
    <3>2. last_semicolon' = cur_loc
      BY <2>1, <2>3
    <3>3. /\ Good(last_semicolon)'
          /\ P!Position(last_semicolon)' = P!Position(cur_loc)
          /\ Left(last_semicolon)' = Left(cur_loc)
      BY <2>1, <2>2, <3>2, GoodStays DEF ring, Left, P!Position
    <3>4. AtColon'
      BY <2>1, <2>2, <3>1, <3>2, <3>3 DEF AtColon, Before, stream
    <3> QED
      BY <3>3, <3>4 DEF SemicolonOK
  <2>4. CASE ~(get_char(cur_loc) = COLON)
    <3>1. last_semicolon' = last_semicolon
      BY <2>1, <2>4
    <3>2. CASE last_semicolon = P!At(-1, -1)
      BY <1>3, <2>1, <3>1, <3>2 DEF SemicolonOK
    <3>3. CASE Good(last_semicolon) /\ AtColon
      <4>1. Before(last_semicolon, next)
        <5>1. Before(last_semicolon, cur_loc) /\ last_semicolon \in Pointer
          BY <3>3 DEF AtColon, Good
        <5> QED
          BY <2>2, <5>1, Between
      <4>2. AtColon'
        BY <1>3, <2>1, <3>1, <3>3, <4>1 DEF AtColon, Before
      <4> QED
        BY <1>3, <2>1, <3>1, <3>3, <4>2 DEF SemicolonOK
    <3>4. CASE Good(last_semicolon) /\ PastColon
      <4>1. NotAfter(last_semicolon, next)
        <5>1. NotAfter(last_semicolon, cur_loc) /\ last_semicolon \in Pointer
          BY <3>4 DEF PastColon, Good
        <5> QED
          BY <2>2, <5>1, Between
      <4>2. PastColon'
        BY <1>3, <2>1, <3>1, <3>4, <4>1 DEF PastColon, NotAfter, Before, ring, P!At
      <4> QED
        BY <1>3, <2>1, <3>1, <3>4, <4>2 DEF SemicolonOK
    <3> QED
      BY <3>2, <3>3, <3>4 DEF SemicolonOK
  <2> QED
    BY <2>3, <2>4
<1>6. CASE http_headers_add
  <2> DEFINE i == last_semicolon.circ_index
             m == last_semicolon.buff_pos
  <2>1. /\ UNCHANGED <<input, ring, start_of_line, cur_loc>>
        /\ last_semicolon' = IF Key \in KnownKeys THEN ValueStart ELSE last_semicolon
        /\ ColonAfterStart > 0 /\ LineRead
    BY <1>6 DEF http_headers_add, HeaderLine
  <2>2. CASE Key \in KnownKeys
    <3>1. /\ Good(last_semicolon) /\ AtColon
          /\ RingOK /\ Good(start_of_line)
      BY <2>1, <2>2, KnownAtColon DEF Types
    <3>2. /\ Good(ValueStart) /\ NotAfter(ValueStart, cur_loc)
          /\ ValueStart.circ_index = i /\ ValueStart.buff_pos > m
      BY <2>1, <3>1, ValueBegins
    <3>3. Before(start_of_line, last_semicolon)
      BY <2>1, <3>1, KeyText
    <3>4. m \in Nat /\ start_of_line.buff_pos \in Nat
      BY <3>1, Positions
    <3>5. NotAfter(start_of_line, P!At(i, m))
      BY <3>3, <3>4 DEF NotAfter, Before, P!At
    <3>6. stream[start[i] + m + 1] = COLON
      BY <3>1, Positions DEF AtColon
    <3>7. last_semicolon' = ValueStart
      BY <2>1, <2>2
    <3> HIDE DEF i, m
    <3>8. NotAfter(last_semicolon, cur_loc)'
      BY <2>1, <3>2, <3>7 DEF NotAfter
    <3>9. \E k \in Nat : /\ k < last_semicolon'.buff_pos
                         /\ stream'[start'[last_semicolon'.circ_index] + k + 1] = COLON
                         /\ NotAfter(start_of_line', P!At(last_semicolon'.circ_index, k))
      <4>1. start' = start /\ stream' = stream
        BY <2>1 DEF ring, stream
      <4> QED
        BY <2>1, <3>2, <3>4, <3>5, <3>6, <3>7, <4>1
    <3>10. PastColon'
      BY <3>8, <3>9 DEF PastColon
    <3>11. Good(last_semicolon)'
      BY <2>1, <3>1, <3>2, <3>7, GoodStays
    <3> QED
      BY <3>10, <3>11 DEF SemicolonOK
  <2>3. CASE ~(Key \in KnownKeys)
    BY <2>1, <2>3, SemicolonStays
  <2> QED
    BY <2>2, <2>3
<1> QED
  BY <1>1, <1>2, <1>4, <1>5, <1>6
     DEF Next, ReadFirst, DecodeType, ReadSecond, GetNextLine, LookAhead, FirstLine,
         AddOutOfLine, HeaderDecoded, vars, pointers, results

LEMMA LineStartsStep == Types /\ LineStarts /\ [Next]_vars => LineStarts'
<1> SUFFICES ASSUME Types, LineStarts, [Next]_vars PROVE LineStarts'
  OBVIOUS
<1>1. CASE skip_eol_if_present /\ is_eol(cur_loc, Left(cur_loc)) > 0
  <2> DEFINE next == After(cur_loc, is_eol(cur_loc, Left(cur_loc)))
  <2>1. UNCHANGED <<input, ring>> /\ start_of_line' = next
    BY <1>1 DEF skip_eol_if_present
  <2>2. Good(next) /\ stream[P!Position(next)] \in {LF, CR}
    BY <1>1, Skipped
  <2> HIDE DEF next
  <2>3. P!Position(start_of_line)' = P!Position(next)
    BY <2>1 DEF P!Position, ring
  <2> QED
    BY <2>1, <2>2, <2>3 DEF LineStarts, stream
<1>2. CASE UNCHANGED <<input, start_of_line>> /\ (read_next_buffer \/ UNCHANGED ring)
  <2>1. P!Position(start_of_line)' = P!Position(start_of_line)
    BY <1>2, GoodStays DEF Types
  <2> QED
    BY <1>2, <2>1 DEF LineStarts, stream
<1> QED
  BY <1>1, <1>2
     DEF Next, ReadFirst, DecodeType, ReadSecond, GetNextLine, LookAhead, FirstLine,
         AddOutOfLine, HeaderDecoded, skip_eol_if_present, Advance, http_headers_add,
         vars, pointers, results

LEMMA NInvInit == Init => NInv
<1> SUFFICES ASSUME Init PROVE NInv
  OBVIOUS
<1>1. Types
  BY TypesInit
<1>2. P!Position(start_of_line) = 0
  BY CapOne DEF Init, P!Position, P!At
<1>3. SemicolonOK /\ headers \in Seq({h \in Header : Occurs(h)})
  BY DEF Init, SemicolonOK
<1> QED
  BY <1>1, <1>2, <1>3 DEF NInv, LineStarts

LEMMA NInvStep ==
    ASSUME NoHeaderFirst, NInv, [Next]_vars
    PROVE  NInv'
<1> DEFINE S == {h \in Header : Occurs(h)}
<1>1. Types' /\ LineStarts'
  BY TypesStep, LineStartsStep DEF NInv
<1>2. UNCHANGED input /\ (read_next_buffer \/ UNCHANGED ring)
  BY DEF Next, ReadFirst, DecodeType, ReadSecond, GetNextLine, LookAhead, FirstLine,
         AddOutOfLine, HeaderDecoded, skip_eol_if_present, Advance, http_headers_add,
         vars
<1> SUFFICES ASSUME Quiet', NulFree' PROVE SemicolonOK' /\ headers' \in Seq(S')
  BY <1>1 DEF NInv
<1>3. Quiet /\ NulFree /\ SemicolonOK /\ headers \in Seq(S)
  BY <1>2, QuietBefore DEF NInv, NulFree, stream, Types
<1>4. SemicolonOK'
  BY <1>3, SemicolonStep DEF NInv
<1>5. S' = S
  BY <1>2 DEF Occurs, stream
<1>6. headers' \in Seq(S)
  <2>1. CASE UNCHANGED headers
    BY <1>3, <2>1
  <2>2. CASE http_headers_add /\ Key \in KnownKeys
    <3> DEFINE h == [key |-> Key, value |-> copy(ValueStart, cur_loc)]
    <3>1. headers' = Append(headers, h) /\ LineRead /\ ColonAfterStart > 0
      BY <2>2 DEF http_headers_add, HeaderLine
    <3>2. h \in S
      BY <1>3, <2>2, <3>1, HeaderOccurs DEF NInv
    <3> HIDE DEF h, S
    <3> QED
      BY <1>3, <3>1, <3>2, AppendProperties
  <2> QED
    BY <2>1, <2>2
       DEF Next, ReadFirst, DecodeType, ReadSecond, GetNextLine, LookAhead, FirstLine,
           AddOutOfLine, HeaderDecoded, skip_eol_if_present, Advance, http_headers_add,
           vars, results
<1> QED
  BY <1>4, <1>5, <1>6

(* Whatever the peer sends and however it is cut, the pointers stay in the *)
(* ring and in its buffers.                                                *)
THEOREM TypeCorrect == Spec => []TypeOK
<1>1. Init => Types
  BY TypesInit
<1>2. Types /\ [Next]_vars => Types'
  BY TypesStep
<1>3. Types => TypeOK
  <2> SUFFICES ASSUME Types PROVE TypeOK
    OBVIOUS
  <2>1. ASSUME NEW p \in {start_of_line, cur_loc}
        PROVE  p.circ_index \in P!Entries /\ p.buff_pos \in 0 .. MaxChunk
    <3>1. Good(p) /\ RingOK
      BY <2>1 DEF Types
    <3>2. p.buff_pos \in Nat /\ MaxChunk \in Nat /\ p.buff_pos <= MaxChunk
      BY <3>1, Positions
    <3> QED
      BY <3>1, <3>2 DEF Good, Pointer
  <2> QED
    BY <2>1 DEF Types, TypeOK, RingOK, N
<1> QED
  BY <1>1, <1>2, <1>3, PTL DEF Spec

(* A header that is recorded is one line start of the stream, followed by  *)
(* its key, a colon, spaces and its value: for any stream without a NUL    *)
(* that does not begin with a header, any cuts and any ring.               *)
THEOREM InventsNothing ==
    ASSUME NoHeaderFirst
    PROVE  Spec => []NothingInvented
<1>1. Init => NInv
  BY NInvInit
<1>2. NInv /\ [Next]_vars => NInv'
  BY NInvStep
<1>3. NInv => NothingInvented
  <2> SUFFICES ASSUME NInv, input.beyond = NUL, NUL \notin Range(stream),
                      NEW k \in DOMAIN headers
               PROVE  Occurs(headers[k])
    BY DEF NothingInvented
  <2>1. headers \in Seq({h \in Header : Occurs(h)})
    BY DEF NInv, Quiet, NulFree, Range
  <2>2. headers[k] \in {h \in Header : Occurs(h)}
    BY <2>1
  <2> QED
    BY <2>2
<1> QED
  BY <1>1, <1>2, <1>3, PTL DEF Spec

-----------------------------------------------------------------------------
(* The type of a reply.                                                    *)

LEMMA ByteIsInt == \A n \in Byte : n \in Int
BY DEF Byte

(* Decimal is the loop it is written as.                                   *)
LEMMA DecimalLoop ==
    ASSUME NEW digits \in Seq(Byte)
    PROVE  \E value \in [0 .. Len(digits) -> Int] :
              /\ value[0] = 0
              /\ \A k \in 1 .. Len(digits) :
                    value[k] = 10 * value[k - 1] + digits[k] - 48
              /\ Decimal(digits) = value[Len(digits)]
<1> DEFINE n == Len(digits)
           step == [w \in Int \X (1 .. n) |-> 10 * w[1] + digits[w[2]] - 48]
           Computed(f) == f = [k \in 0 .. n |-> IF k = 0 THEN 0
                                              ELSE 10 * f[k - 1] + digits[k] - 48]
<1>1. n \in Nat /\ 0 \in Int /\ \A k \in 1 .. n : digits[k] \in Int
  <2>1. n \in Nat /\ \A k \in 1 .. n : digits[k] \in Byte
    OBVIOUS
  <2>2. ASSUME NEW k \in 1 .. n
        PROVE  digits[k] \in Int
    <3>1. digits[k] \in Byte
      BY <2>1
    <3> QED
      BY <3>1, ByteIsInt
  <2> QED
    BY <2>1, <2>2
<1>2. step \in [Int \X (1 .. n) -> Int]
  BY <1>1
<1> HIDE DEF step
<1>3. PICK g \in [0 .. n -> Int] : Q!Computes(g, n, 0, step)
  BY <1>1, <1>2, RingAssumptions, Q!Loop
<1>4. Computed(g)
  <2>1. ASSUME NEW k \in 0 .. n, k # 0
        PROVE  step[<<g[k - 1], k>>] = 10 * g[k - 1] + digits[k] - 48
    <3>1. k \in 1 .. n /\ k - 1 \in 0 .. n /\ g[k - 1] \in Int
      BY <1>1, <2>1
    <3> QED
      BY <3>1 DEF step
  <2>2. \A k \in 0 .. n : g[k] = IF k = 0 THEN 0 ELSE 10 * g[k - 1] + digits[k] - 48
    BY <1>3, <2>1 DEF Q!Computes
  <2> QED
    BY <1>3, <2>2 DEF Q!Computes
<1> DEFINE value == CHOOSE f : Computed(f)
<1>5. Computed(value)
  BY <1>4, Zenon
<1>6. Decimal(digits) = value[n]
  BY Zenon DEF Decimal
<1> HIDE DEF value
<1>7. value[0] = 0 /\ \A k \in 1 .. n : value[k] = 10 * value[k - 1] + digits[k] - 48
  BY <1>1, <1>5
<1>8. value \in [0 .. n -> Int]
  <2> DEFINE T == {k \in Nat : k <= n => value[k] \in Int}
  <2>1. 0 \in T
    BY <1>7
  <2>2. ASSUME NEW k \in T
        PROVE  k + 1 \in T
    <3> SUFFICES ASSUME k + 1 <= n
                 PROVE  value[k + 1] \in Int
      OBVIOUS
    <3>1. k + 1 \in 1 .. n /\ (k + 1) - 1 = k /\ value[k] \in Int
      BY <1>1
    <3>2. value[k + 1] = 10 * value[k] + digits[k + 1] - 48
      BY <1>7, <3>1
    <3> QED
      BY <1>1, <3>1, <3>2
  <2> HIDE DEF T
  <2>3. T \in SUBSET Nat
    BY DEF T
  <2>4. Nat \subseteq T
    BY <2>1, <2>2, <2>3, RingAssumptions, Q!Induction
  <2>5. \A k \in 0 .. n : value[k] \in Int
    BY <1>1, <2>4 DEF T
  <2> QED
    BY <1>5, <2>5
<1> QED
  BY <1>6, <1>7, <1>8

LEMMA LeastIs ==
    ASSUME NEW S \in SUBSET Nat, NEW m \in S, \A n \in S : m <= n
    PROVE  Min(S) = m
<1> DEFINE least == Min(S)
<1>1. least \in S /\ \A n \in S : least <= n
  BY Least
<1> HIDE DEF least
<1>2. least \in Nat /\ m \in Nat /\ least <= m /\ m <= least
  BY <1>1
<1>3. least = m
  BY <1>2
<1> QED
  BY <1>3 DEF least

(* The first space of the stream, and the first byte behind it that is     *)
(* none.                                                                   *)
LEMMA StatusAt ==
    ASSUME RingOK, HasStatus
    PROVE  \E s \in DOMAIN stream, t \in DOMAIN stream :
              /\ stream[s] = SP /\ \A k \in DOMAIN stream : stream[k] = SP => s <= k
              /\ s <= t /\ stream[t] # SP
              /\ \A k \in s .. Len(stream) : stream[k] # SP => t <= k
              /\ StatusEnd = t + 2
<1> DEFINE S == {k \in DOMAIN stream : stream[k] = SP}
           s == Min(S)
           T == {k \in s .. Len(stream) : stream[k] # SP}
           t == Min(T)
<1>1. Len(stream) \in Nat /\ DOMAIN stream = 1 .. Len(stream)
  BY StreamIsSeq DEF RingOK
<1>2. PICK k \in S : \E j \in k .. Len(stream) : stream[j] # SP
  BY DEF HasStatus
<1>3. S \in SUBSET Nat /\ S # {}
  BY <1>1, <1>2
<1>4. s \in S /\ \A n \in S : s <= n
  <2> HIDE DEF S
  <2> QED
    BY <1>3, Least
<1> HIDE DEF s
<1>5. T \in SUBSET Nat /\ T # {}
  <2>1. s \in Nat /\ s >= 1 /\ s <= k /\ k \in Nat
    BY <1>1, <1>4
  <2> QED
    BY <1>1, <1>2, <2>1
<1>6. t \in T /\ \A n \in T : t <= n
  <2> HIDE DEF T
  <2> QED
    BY <1>5, Least
<1> HIDE DEF t
<1>7. StatusEnd = t + 2
  BY DEF StatusEnd, s, t
<1>8. s \in DOMAIN stream /\ t \in DOMAIN stream /\ s <= t
  BY <1>1, <1>4, <1>6
<1> QED
  BY <1>4, <1>6, <1>7, <1>8

StatusKnown == IsPrefix(HTTP, stream) /\ HasStatus /\ data_sizes[0] >= StatusEnd

LEMMA StatusDecoded ==
    ASSUME RingOK, N <= 1, StatusKnown
    PROVE  http_decode_response_type = Decimal(SubSeq(stream, StatusEnd - 2, StatusEnd))
<1> DEFINE size == data_sizes[0]
<1>1. /\ 0 \in P!Entries /\ N \in Nat /\ P!Cap \in Nat /\ P!Cap > 0
      /\ stream \in Seq(Byte) /\ Len(stream) \in Nat /\ DOMAIN stream = 1 .. Len(stream)
      /\ size \in -1 .. MaxChunk /\ MaxChunk \in Nat
  BY CapOne, StreamIsSeq, ParserAssumption DEF RingOK
<1>2. PICK s \in DOMAIN stream, t \in DOMAIN stream :
              /\ stream[s] = SP /\ \A k \in DOMAIN stream : stream[k] = SP => s <= k
              /\ s <= t /\ stream[t] # SP
              /\ \A k \in s .. Len(stream) : stream[k] # SP => t <= k
              /\ StatusEnd = t + 2
  BY StatusAt DEF StatusKnown
<1>3. s \in Nat /\ t \in Nat /\ s >= 1 /\ s <= t /\ t + 2 <= size
  BY <1>1, <1>2 DEF StatusKnown
<1>4. N = 1 /\ size <= Len(stream) /\ start[0] = 0
  <2>1. N # 0
    BY <1>1, <1>3 DEF RingOK
  <2>2. StopOf(0) <= received /\ received \in Nat /\ received <= Len(stream) /\ start[0] = 0
    BY <1>1, <2>1 DEF RingOK
  <2> QED
    BY <1>1, <1>3, <2>1, <2>2 DEF StopOf, Extent
<1>5. P!LastReceived = 0
  BY <1>1, <1>4 DEF P!LastReceived, P!circular_decrement, N
<1>6. ASSUME NEW k \in Nat, k < size
      PROVE  get_char(InLast(k)) = stream[k + 1]
  <2>1. InLast(k).circ_index = 0 /\ InLast(k).buff_pos = k
    BY <1>5 DEF InLast, P!At
  <2>2. Left(InLast(k)) > 0 /\ P!Position(InLast(k)) = k
    BY <1>1, <1>4, <1>6, <2>1 DEF Left, P!Position
  <2> QED
    BY <2>2 DEF get_char
<1> DEFINE spaces == {k \in 0 .. MaxChunk - 1 : get_char(InLast(k)) = SP}
           after == {k \in Min(spaces) .. MaxChunk : get_char(InLast(k)) # SP}
           code == Min(after)
           digit(k) == get_char(InLast(code + k)) - 48
<1>7. Min(spaces) = s - 1 /\ spaces # {}
  <2>1. s - 1 \in spaces
    BY <1>1, <1>2, <1>3, <1>6
  <2>2. ASSUME NEW n \in spaces
        PROVE  s - 1 <= n
    <3>1. n \in Nat /\ get_char(InLast(n)) = SP
      BY <1>1
    <3>2. CASE n < size
      <4>1. n + 1 \in DOMAIN stream /\ stream[n + 1] = SP
        BY <1>1, <1>4, <1>6, <3>1, <3>2
      <4>2. s <= n + 1
        BY <1>2, <4>1
      <4> QED
        BY <1>3, <3>1, <4>2
    <3>3. CASE ~(n < size)
      BY <1>1, <1>3, <3>1, <3>3
    <3> QED
      BY <3>2, <3>3
  <2>3. spaces \in SUBSET Nat
    BY <1>1
  <2> HIDE DEF spaces
  <2> QED
    BY <2>1, <2>2, <2>3, LeastIs
<1> HIDE DEF spaces
<1>8. code = t - 1
  <2>1. t - 1 \in after
    BY <1>1, <1>2, <1>3, <1>6, <1>7
  <2>2. ASSUME NEW n \in after
        PROVE  t - 1 <= n
    <3>1. n \in Nat /\ get_char(InLast(n)) # SP /\ n >= s - 1
      BY <1>1, <1>3, <1>7
    <3>2. CASE n < size
      <4>1. n + 1 \in s .. Len(stream) /\ stream[n + 1] # SP
        BY <1>1, <1>3, <1>4, <1>6, <3>1, <3>2
      <4>2. t <= n + 1
        BY <1>2, <4>1
      <4> QED
        BY <1>3, <3>1, <4>2
    <3>3. CASE ~(n < size)
      BY <1>1, <1>3, <3>1, <3>3
    <3> QED
      BY <3>2, <3>3
  <2>3. after \in SUBSET Nat
    BY <1>1, <1>3, <1>7
  <2> HIDE DEF after
  <2> QED
    BY <2>1, <2>2, <2>3, LeastIs
<1> HIDE DEF code
<1>9. StartsWith(HTTP)
  <2>1. HTTP \in Seq(Byte \ {SP}) /\ Len(HTTP) \in Nat
    BY WordsAssumption
  <2>2. Len(HTTP) <= Len(stream) /\ SubSeq(HTTP, 1, Len(HTTP)) = SubSeq(stream, 1, Len(HTTP))
    BY DEF StatusKnown, IsPrefix
  <2>3. ASSUME NEW k \in 1 .. Len(HTTP)
        PROVE  HTTP[k] = stream[k] /\ stream[k] # SP
    <3> DEFINE both == SubSeq(stream, 1, Len(HTTP))
    <3>1. /\ both = [j \in 1 .. Len(HTTP) - 0 |-> stream[0 + j]]
          /\ both = [j \in 1 .. Len(HTTP) - 0 |-> HTTP[0 + j]]
      <4>1. SubSeq(stream, 0 + 1, Len(HTTP)) = [j \in 1 .. Len(HTTP) - 0 |-> stream[0 + j]]
        BY <1>1, <2>1, <2>2, Piece
      <4>2. SubSeq(HTTP, 0 + 1, Len(HTTP)) = [j \in 1 .. Len(HTTP) - 0 |-> HTTP[0 + j]]
        BY <2>1, Piece
      <4>3. 0 + 1 = 1
        OBVIOUS
      <4> QED
        BY <2>2, <4>1, <4>2, <4>3
    <3> HIDE DEF both
    <3>2. k \in 1 .. Len(HTTP) - 0 /\ 0 + k = k
      BY <2>1
    <3>3. HTTP[k] # SP
      BY <2>1
    <3>4. both[k] = stream[0 + k] /\ both[k] = HTTP[0 + k]
      BY <3>1, <3>2
    <3> QED
      BY <3>2, <3>3, <3>4
  <2>4. Len(HTTP) < s
    BY <1>2, <1>3, <2>1, <2>3
  <2>5. ASSUME NEW k \in 1 .. Len(HTTP)
        PROVE  get_char(InLast(k - 1)) = HTTP[k]
    <3>1. k - 1 \in Nat /\ k - 1 < size /\ (k - 1) + 1 = k
      BY <1>1, <1>3, <2>1, <2>4
    <3> QED
      BY <1>6, <2>3, <3>1
  <2> QED
    BY <2>5 DEF StartsWith
<1>10. http_decode_response_type = 100 * digit(0) + 10 * digit(1) + digit(2)
  BY <1>7, <1>9 DEF http_decode_response_type, code, after, spaces
<1>11. ASSUME NEW k \in 0 .. 2
       PROVE  digit(k) = stream[t + k] - 48 /\ stream[t + k] \in Int
  <2>1. code + k \in Nat /\ code + k < size /\ (code + k) + 1 = t + k
    <3>1. t \in Nat /\ t >= 1 /\ t + 2 <= size /\ size \in Int
      BY <1>1, <1>3
    <3> HIDE DEF code, size
    <3> QED
      BY <1>8, <3>1
  <2>2. stream[t + k] \in Byte
    <3>1. t + k \in 1 .. Len(stream)
      BY <1>1, <1>3, <1>4
    <3> QED
      BY <1>1, <3>1
  <2>3. get_char(InLast(code + k)) = stream[t + k]
    BY <1>6, <2>1
  <2> QED
    BY <2>2, <2>3, ByteIsInt
<1> DEFINE digits == SubSeq(stream, t, t + 2)
<1>12. /\ digits \in Seq(Byte) /\ Len(digits) = 3
       /\ \A k \in 1 .. 3 : digits[k] = stream[t + (k - 1)]
  <2>1. /\ t - 1 \in Nat /\ t + 2 \in Nat /\ t - 1 <= t + 2 /\ t + 2 <= Len(stream)
        /\ (t - 1) + 1 = t /\ (t + 2) - (t - 1) = 3
    <3>1. /\ t \in Nat /\ t >= 1 /\ t + 2 <= size /\ size <= Len(stream)
          /\ size \in Int /\ Len(stream) \in Nat
      BY <1>1, <1>3, <1>4
    <3> HIDE DEF size
    <3> QED
      BY <3>1
  <2>2. /\ digits = [k \in 1 .. (t + 2) - (t - 1) |-> stream[(t - 1) + k]]
        /\ digits \in Seq(Byte) /\ Len(digits) = (t + 2) - (t - 1)
    <3>1. /\ SubSeq(stream, (t - 1) + 1, t + 2)
               = [k \in 1 .. (t + 2) - (t - 1) |-> stream[(t - 1) + k]]
          /\ SubSeq(stream, (t - 1) + 1, t + 2) \in Seq(Byte)
          /\ Len(SubSeq(stream, (t - 1) + 1, t + 2)) = (t + 2) - (t - 1)
      <4> DEFINE a == t - 1
                 b == t + 2
      <4>1. a \in Nat /\ b \in Nat /\ a <= b /\ b <= Len(stream)
        BY <2>1
      <4> HIDE DEF a, b
      <4>2. /\ SubSeq(stream, a + 1, b) = [k \in 1 .. b - a |-> stream[a + k]]
            /\ SubSeq(stream, a + 1, b) \in Seq(Byte)
            /\ Len(SubSeq(stream, a + 1, b)) = b - a
        BY <1>1, <4>1, Piece
      <4> QED
        BY <4>2 DEF a, b
    <3> QED
      BY <2>1, <3>1
  <2>3. \A k \in 1 .. 3 : (t - 1) + k = t + (k - 1)
    BY <1>3
  <2> QED
    BY <2>1, <2>2, <2>3
<1> HIDE DEF digits
<1>13. Decimal(digits) = 100 * (digits[1] - 48) + 10 * (digits[2] - 48) + (digits[3] - 48)
  <2>1. PICK value \in [0 .. 3 -> Int] :
              /\ value[0] = 0
              /\ \A k \in 1 .. 3 : value[k] = 10 * value[k - 1] + digits[k] - 48
              /\ Decimal(digits) = value[3]
    BY <1>12, DecimalLoop
  <2>2. digits[1] \in Int /\ digits[2] \in Int /\ digits[3] \in Int
    <3>1. digits[1] = stream[t + 0] /\ digits[2] = stream[t + 1] /\ digits[3] = stream[t + 2]
      BY <1>12
    <3> QED
      BY <1>11, <3>1
  <2>3. /\ value[1] = 10 * value[0] + digits[1] - 48
        /\ value[2] = 10 * value[1] + digits[2] - 48
        /\ value[3] = 10 * value[2] + digits[3] - 48
    <3>1. /\ value[1] = 10 * value[1 - 1] + digits[1] - 48
          /\ value[2] = 10 * value[2 - 1] + digits[2] - 48
          /\ value[3] = 10 * value[3 - 1] + digits[3] - 48
      BY <2>1
    <3> QED
      BY <3>1
  <2>4. value[1] \in Int /\ value[2] \in Int /\ value[3] \in Int
    BY <2>1
  <2> QED
    BY <2>1, <2>2, <2>3, <2>4
<1>14. /\ digits[1] = stream[t + 0] /\ digits[2] = stream[t + 1] /\ digits[3] = stream[t + 2]
  BY <1>12
<1>15. StatusEnd - 2 = t /\ StatusEnd = t + 2
  BY <1>2, <1>3
<1>16. /\ digit(0) = digits[1] - 48 /\ digit(1) = digits[2] - 48 /\ digit(2) = digits[3] - 48
  BY <1>11, <1>14
<1> HIDE DEF digit
<1>17. http_decode_response_type = Decimal(digits)
  BY <1>10, <1>13, <1>16
<1> QED
  BY <1>15, <1>17 DEF digits

(* The first chunk of a reply stays where it is.                           *)
StatusOK ==
    /\ pc # "read_again"
    /\ pc = "read" => N = 0
    /\ pc = "type" => N <= 1
    /\ pc # "read" => N >= 1 \/ P!Full
    /\ pc \notin {"read", "type"} /\ StatusKnown
         => type = Decimal(SubSeq(stream, StatusEnd - 2, StatusEnd))

TInv == Types /\ (input.kind = "reply" => StatusOK)

LEMMA FirstStays ==
    ASSUME RingOK, read_next_buffer \/ UNCHANGED ring, N >= 1 \/ P!Full
    PROVE  data_sizes'[0] = data_sizes[0] /\ (N' >= 1 \/ P!Full')
<1>1. N \in Nat /\ 0 \in P!Entries
  BY CapOne DEF RingOK
<1>2. CASE UNCHANGED ring
  BY <1>2 DEF ring, N, P!Full
<1>3. CASE ~(UNCHANGED ring)
  <2>1. PICK n \in ReadResults : P!feed_next_buffer(n)
    BY <1>3 DEF read_next_buffer
  <2>2. ~P!Full /\ N >= 1 /\ data_sizes' = [data_sizes EXCEPT ![N] = n]
    <3>1. ~P!Full
      BY <1>3 DEF read_next_buffer
    <3> QED
      BY <2>1, <3>1 DEF P!feed_next_buffer, N
  <2>3. N' = N + 1
    BY <2>1, <2>2, Increments, CapOne DEF RingOK, P!Full, N, P!feed_next_buffer
  <2> QED
    BY <1>1, <2>2, <2>3 DEF RingOK
<1> QED
  BY <1>2, <1>3

LEMMA TInvStep == TInv /\ [Next]_vars => TInv'
<1> SUFFICES ASSUME TInv, [Next]_vars PROVE TInv'
  OBVIOUS
<1>1. Types' /\ RingOK /\ RingOK'
  BY TypesStep DEF TInv, Types
<1>2. UNCHANGED input /\ (read_next_buffer \/ UNCHANGED ring)
  BY DEF Next, ReadFirst, DecodeType, ReadSecond, GetNextLine, LookAhead, FirstLine,
         AddOutOfLine, HeaderDecoded, skip_eol_if_present, Advance, http_headers_add,
         vars
<1> SUFFICES ASSUME input.kind = "reply" PROVE StatusOK'
  BY <1>1, <1>2 DEF TInv
<1>3. StatusOK
  BY DEF TInv
<1>4. stream' = stream /\ StatusEnd' = StatusEnd /\ HasStatus' = HasStatus
  BY <1>2 DEF stream, StatusEnd, HasStatus
<1>5. N \in Nat /\ N' \in Nat
  BY <1>1, CapOne DEF RingOK
<1>6. CASE ReadFirst
  <2>1. N = 0 /\ pc' = "type" /\ read_next_buffer
    BY <1>3, <1>6 DEF StatusOK, ReadFirst
  <2>2. CASE P!Full
    BY <1>5, <2>1, <2>2 DEF read_next_buffer, StatusOK, ring, N, P!Full
  <2>3. CASE ~P!Full
    <3>1. N' = P!circular_increment(N)
      BY <2>1, <2>3 DEF read_next_buffer, P!feed_next_buffer, N
    <3>2. N' = 1
      BY <1>1, <2>1, <2>3, <3>1, Increments, CapOne DEF RingOK, P!Full, N
    <3> QED
      BY <2>1, <3>2 DEF StatusOK
  <2> QED
    BY <2>2, <2>3
<1>7. CASE DecodeType
  <2>1. /\ UNCHANGED ring /\ pc = "type" /\ pc' = "line"
        /\ type' = http_decode_response_type
    BY <1>7 DEF DecodeType
  <2>2. StatusKnown' = StatusKnown /\ N' = N /\ P!Full' = P!Full
    BY <1>4, <2>1 DEF StatusKnown, ring, N, P!Full
  <2> QED
    BY <1>1, <1>3, <1>4, <2>1, <2>2, StatusDecoded DEF StatusOK
<1>8. CASE pc \notin {"read", "type"} /\ UNCHANGED type
           /\ pc' \notin {"read", "type", "read_again"}
  <2>1. N >= 1 \/ P!Full
    BY <1>3, <1>8 DEF StatusOK
  <2>2. data_sizes'[0] = data_sizes[0] /\ (N' >= 1 \/ P!Full')
    BY <1>1, <1>2, <2>1, FirstStays
  <2>3. StatusKnown' = StatusKnown
    BY <1>4, <2>2 DEF StatusKnown
  <2> QED
    BY <1>3, <1>4, <1>8, <2>2, <2>3 DEF StatusOK
<1>9. CASE UNCHANGED vars
  <2>1. StatusKnown' = StatusKnown /\ N' = N /\ P!Full' = P!Full /\ pc' = pc /\ type' = type
    BY <1>4, <1>9 DEF StatusKnown, vars, ring, N, P!Full, results
  <2> QED
    BY <1>3, <1>4, <2>1 DEF StatusOK
<1> QED
  BY <1>3, <1>6, <1>7, <1>8, <1>9
     DEF Next, ReadSecond, GetNextLine, LookAhead, FirstLine, AddOutOfLine, HeaderDecoded,
         skip_eol_if_present, Advance, http_headers_add, results, LineRead, Judges,
         HeaderLine, LooksAhead, StatusOK

(* The type of a reply is the decimal number of its status, once the first *)
(* read has brought it: whatever HTTP and the stream are.                  *)
THEOREM StatusExact == Spec => []TypeExact
<1>1. Init => TInv
  <2> SUFFICES ASSUME Init, input.kind = "reply" PROVE StatusOK
    BY TypesInit DEF TInv
  <2>1. pc = "read" /\ N = 0
    BY DEF Init, N
  <2> QED
    BY <2>1 DEF StatusOK
<1>2. TInv /\ [Next]_vars => TInv'
  BY TInvStep
<1>3. TInv => TypeExact
  BY DEF TInv, StatusOK, TypeExact, StatusKnown
<1> QED
  BY <1>1, <1>2, <1>3, PTL DEF Spec

-----------------------------------------------------------------------------
(* The reference: what its lines are.                                      *)

LEMMA GreatestIs ==
    ASSUME NEW S \in SUBSET Nat, NEW m \in S, \A n \in S : n <= m
    PROVE  Max(S) = m
<1> DEFINE greatest == Max(S)
<1>1. \E x \in S : \A y \in S : x >= y
  <2>1. \A y \in S : m >= y
    OBVIOUS
  <2> QED
    BY <2>1
<1>2. greatest \in S /\ \A y \in S : greatest >= y
  BY <1>1 DEF Max
<1> HIDE DEF greatest
<1>3. greatest = m
  <2>1. greatest \in Nat /\ m \in Nat /\ greatest <= m /\ greatest >= m
    BY <1>2
  <2> QED
    BY <2>1
<1> QED
  BY <1>3 DEF greatest

(* What a well-formed stream is.                                           *)
LEMMA WholeHeader ==
    ASSUME input \in Inputs, stream \in WellFormed
    PROVE  /\ stream \in Seq(Byte) /\ Len(stream) \in Nat /\ DOMAIN stream = 1 .. Len(stream)
           /\ HeaderEnd \in DOMAIN stream /\ HeaderEnd \in Nat
           /\ stream[HeaderEnd] = LF /\ HeaderEnd \in Blanks(stream)
           /\ \A n \in Blanks(stream) : HeaderEnd <= n
           /\ stream[1] \notin {LF, CR}
           /\ \A k \in 1 .. HeaderEnd : stream[k] # NUL
           /\ \A k \in 1 .. HeaderEnd - 1 : stream[k] = CR => stream[k + 1] = LF
           /\ \A n \in Feeds(stream) :
                 0 < LineStart(stream, n) /\ n < HeaderEnd => OneColon(stream, n)
           /\ HeaderEnd > 1
<1> DEFINE s == stream
<1>1. s \in Seq(Byte) /\ Len(s) \in Nat /\ DOMAIN s = 1 .. Len(s)
  BY StreamIsSeq
<1>2. HeaderEnd = Min(Blanks(s))
  BY DEF HeaderEnd, HeaderEndOf
<1>3. /\ Blanks(s) # {} /\ s[1] \notin {LF, CR}
      /\ \A k \in 1 .. Min(Blanks(s)) : s[k] # NUL
      /\ \A k \in 1 .. Min(Blanks(s)) - 1 : s[k] = CR => s[k + 1] = LF
      /\ \A n \in Feeds(s) : 0 < LineStart(s, n) /\ n < Min(Blanks(s)) => OneColon(s, n)
  BY DEF WellFormed
<1>4. Blanks(s) \subseteq Feeds(s) /\ Feeds(s) \subseteq DOMAIN s
  BY DEF Blanks, Feeds
<1>5. Min(Blanks(s)) \in Blanks(s) /\ \A n \in Blanks(s) : Min(Blanks(s)) <= n
  <2>1. Blanks(s) \in SUBSET Nat
    BY <1>1, <1>4
  <2> QED
    BY <1>3, <2>1, Least
<1>6. s[HeaderEnd] = LF /\ HeaderEnd \in DOMAIN s
  BY <1>2, <1>4, <1>5 DEF Feeds
<1>7. HeaderEnd \in Nat /\ HeaderEnd > 1
  BY <1>1, <1>3, <1>6
<1> QED
  BY <1>1, <1>2, <1>3, <1>5, <1>6, <1>7

(* A line that ends at e begins behind the last line feed before.          *)
LEMMA LineAt ==
    ASSUME input \in Inputs, NEW e \in Feeds(stream), NEW b \in Nat, b < e,
           b = 0 \/ stream[b] = LF, \A k \in b + 1 .. e - 1 : stream[k] # LF
    PROVE  LineStart(stream, e) = b
<1>1. stream \in Seq(Byte) /\ Len(stream) \in Nat /\ DOMAIN stream = 1 .. Len(stream)
  BY StreamIsSeq
<1>2. e \in 1 .. Len(stream) /\ Feeds(stream) \subseteq 1 .. Len(stream)
  BY <1>1 DEF Feeds
<1> DEFINE S == {0} \union {m \in Feeds(stream) : m < e}
<1>3. S \in SUBSET Nat
  BY <1>1, <1>2
<1>4. b \in S
  <2>1. b # 0 => b \in DOMAIN stream
    BY <1>1, <1>2
  <2> QED
    BY <2>1 DEF Feeds
<1>5. ASSUME NEW n \in S
      PROVE  n <= b
  <2>1. n \in Nat
    BY <1>3
  <2>2. n # 0 => n < e /\ stream[n] = LF
    BY DEF Feeds
  <2>3. n > b => n \in b + 1 .. e - 1
    BY <1>2, <2>1, <2>2
  <2> QED
    BY <2>1, <2>2, <2>3
<1>6. Max(S) = b
  <2> HIDE DEF S
  <2> QED
    BY <1>3, <1>4, <1>5, GreatestIs
<1> QED
  BY <1>6 DEF LineStart

-----------------------------------------------------------------------------
(* The headers of the reference, line by line.                             *)
Parsed == ParsedOf(stream)
Refs == {RefHeader(stream, n) : n \in 1 .. HeaderEnd - 1}

LEMMA ParsedLoop ==
    ASSUME input \in Inputs, stream \in WellFormed
    PROVE  /\ Parsed[0] = <<>>
           /\ \A n \in 1 .. HeaderEnd - 1 :
                 Parsed[n] = IF Recorded(stream, n)
                             THEN Append(Parsed[n - 1], RefHeader(stream, n))
                             ELSE Parsed[n - 1]
           /\ RefHeaders = Parsed[HeaderEnd - 1]
<1> DEFINE E == HeaderEnd
           last == HeaderEndOf[stream] - 1
           step == [w \in Seq(Refs) \X (1 .. last) |->
                      IF Recorded(stream, w[2]) THEN Append(w[1], RefHeader(stream, w[2]))
                      ELSE w[1]]
           Computed(f) == f = [n \in 0 .. HeaderEndOf[stream] - 1 |->
                                 IF n = 0 THEN <<>>
                                 ELSE IF Recorded(stream, n)
                                 THEN Append(f[n - 1], RefHeader(stream, n))
                                 ELSE f[n - 1]]
<1>1. /\ E \in Nat /\ E > 1 /\ last \in Nat /\ last = E - 1
      /\ <<>> \in Seq(Refs)
  BY WholeHeader DEF HeaderEnd
<1>2. step \in [Seq(Refs) \X (1 .. last) -> Seq(Refs)]
  <2>1. ASSUME NEW w \in Seq(Refs) \X (1 .. last)
        PROVE  (IF Recorded(stream, w[2]) THEN Append(w[1], RefHeader(stream, w[2]))
                ELSE w[1]) \in Seq(Refs)
    <3>1. w[1] \in Seq(Refs) /\ w[2] \in 1 .. E - 1
      BY <1>1
    <3>2. RefHeader(stream, w[2]) \in Refs
      BY <3>1 DEF Refs
    <3> QED
      BY <3>1, <3>2, AppendProperties
  <2> QED
    BY <2>1
<1> HIDE DEF step
<1>3. PICK g \in [0 .. last -> Seq(Refs)] : Q!Computes(g, last, <<>>, step)
  BY <1>1, <1>2, RingAssumptions, Q!Loop
<1>4. Computed(g)
  <2>1. ASSUME NEW n \in 0 .. last, n # 0
        PROVE  step[<<g[n - 1], n>>] = IF Recorded(stream, n)
                                       THEN Append(g[n - 1], RefHeader(stream, n))
                                       ELSE g[n - 1]
    <3>1. n \in 1 .. last /\ n - 1 \in 0 .. last /\ g[n - 1] \in Seq(Refs)
      BY <1>1, <2>1
    <3>2. <<g[n - 1], n>> \in Seq(Refs) \X (1 .. last)
      BY <3>1
    <3> QED
      BY <3>2 DEF step
  <2>2. \A n \in 0 .. last : g[n] = IF n = 0 THEN <<>>
                                    ELSE IF Recorded(stream, n)
                                    THEN Append(g[n - 1], RefHeader(stream, n))
                                    ELSE g[n - 1]
    BY <1>3, <2>1 DEF Q!Computes
  <2> QED
    BY <1>3, <2>2 DEF Q!Computes
<1> DEFINE parsed == CHOOSE f : Computed(f)
<1>5. Computed(parsed)
  BY <1>4, Zenon
<1>6. Parsed = parsed
  BY Zenon DEF Parsed, ParsedOf
<1> HIDE DEF parsed
<1>7. parsed[0] = <<>>
  <2>1. 0 \in 0 .. HeaderEndOf[stream] - 1
    BY <1>1
  <2> QED
    BY <1>5, <2>1
<1>8. ASSUME NEW n \in 1 .. E - 1
      PROVE  parsed[n] = IF Recorded(stream, n)
                         THEN Append(parsed[n - 1], RefHeader(stream, n))
                         ELSE parsed[n - 1]
  <2>1. n \in 0 .. HeaderEndOf[stream] - 1 /\ n # 0
    BY <1>1
  <2> DEFINE more == IF Recorded(stream, n)
                     THEN Append(parsed[n - 1], RefHeader(stream, n))
                     ELSE parsed[n - 1]
  <2>2. parsed[n] = IF n = 0 THEN <<>> ELSE more
    BY <1>5, <2>1, Zenon
  <2> QED
    BY <2>1, <2>2
<1>9. RefHeaders = Parsed[E - 1]
  BY DEF RefHeaders, RefHeadersOf, Parsed, HeaderEnd
<1> QED
  BY <1>6, <1>7, <1>8, <1>9

LEMMA ParsedTyped ==
    ASSUME input \in Inputs, stream \in WellFormed
    PROVE  \A n \in 0 .. HeaderEnd - 1 : Parsed[n] \in Seq(Refs)
<1> DEFINE T == {n \in Nat : n <= HeaderEnd - 1 => Parsed[n] \in Seq(Refs)}
<1>1. HeaderEnd \in Nat
  BY WholeHeader
<1>2. 0 \in T
  <2>1. Parsed[0] = <<>>
    BY ParsedLoop
  <2>2. <<>> \in Seq(Refs)
    OBVIOUS
  <2> QED
    BY <2>1, <2>2
<1>3. ASSUME NEW n \in T
      PROVE  n + 1 \in T
  <2> SUFFICES ASSUME n + 1 <= HeaderEnd - 1
               PROVE  Parsed[n + 1] \in Seq(Refs)
    OBVIOUS
  <2>1. n + 1 \in 1 .. HeaderEnd - 1 /\ (n + 1) - 1 = n /\ Parsed[n] \in Seq(Refs)
    BY <1>1
  <2>2. RefHeader(stream, n + 1) \in Refs
    BY <2>1 DEF Refs
  <2>3. Parsed[n + 1] \in {Append(Parsed[n], RefHeader(stream, n + 1)), Parsed[n]}
    BY <2>1, ParsedLoop
  <2>4. CASE Parsed[n + 1] = Parsed[n]
    BY <2>1, <2>4
  <2>5. CASE Parsed[n + 1] = Append(Parsed[n], RefHeader(stream, n + 1))
    <3> HIDE DEF T
    <3> QED
      BY <2>1, <2>2, <2>5, AppendProperties
  <2> QED
    BY <2>3, <2>4, <2>5
<1> HIDE DEF T
<1>4. T \in SUBSET Nat
  BY DEF T
<1>5. Nat \subseteq T
  BY <1>2, <1>3, <1>4, RingAssumptions, Q!Induction
<1> QED
  BY <1>1, <1>5 DEF T

(* Only line feeds add to them.                                            *)
LEMMA ParsedSame ==
    ASSUME input \in Inputs, stream \in WellFormed,
           NEW a \in Nat, NEW b \in Nat, a <= b, b <= HeaderEnd - 1,
           \A n \in a + 1 .. b : stream[n] # LF
    PROVE  Parsed[b] = Parsed[a]
<1> DEFINE T == {n \in Nat : a + n <= b => Parsed[a + n] = Parsed[a]}
<1>1. HeaderEnd \in Nat
  BY WholeHeader
<1>2. 0 \in T
  OBVIOUS
<1>3. ASSUME NEW n \in T
      PROVE  n + 1 \in T
  <2> SUFFICES ASSUME a + (n + 1) <= b
               PROVE  Parsed[a + (n + 1)] = Parsed[a]
    OBVIOUS
  <2> DEFINE m == a + (n + 1)
  <2>1. /\ m \in 1 .. HeaderEnd - 1 /\ m - 1 = a + n /\ Parsed[a + n] = Parsed[a]
        /\ m \in a + 1 .. b
    BY <1>1
  <2> HIDE DEF m
  <2>2. ~Recorded(stream, m)
    BY <2>1 DEF Recorded, Feeds
  <2>3. Parsed[m] = Parsed[m - 1]
    BY <2>1, <2>2, ParsedLoop
  <2> QED
    BY <2>1, <2>3 DEF m
<1> HIDE DEF T
<1>4. T \in SUBSET Nat
  BY DEF T
<1>5. Nat \subseteq T
  BY <1>2, <1>3, <1>4, RingAssumptions, Q!Induction
<1>6. b - a \in Nat /\ a + (b - a) = b
  OBVIOUS
<1>7. b - a \in T
  BY <1>5, <1>6
<1>8. a + (b - a) <= b => Parsed[a + (b - a)] = Parsed[a]
  BY <1>7 DEF T
<1> QED
  BY <1>6, <1>8

LEMMA PrefixGrows ==
    ASSUME NEW S, NEW s \in Seq(S), NEW t \in Seq(S), NEW e \in S, IsPrefix(s, t)
    PROVE  IsPrefix(s, Append(t, e))
<1> DEFINE u == Append(t, e)
<1>1. Len(s) \in Nat /\ Len(t) \in Nat /\ Len(s) <= Len(t)
  BY DEF IsPrefix
<1>2. u \in Seq(S) /\ Len(u) = Len(t) + 1 /\ \A k \in 1 .. Len(t) : u[k] = t[k]
  BY AppendProperties
<1> HIDE DEF u
<1>3. SubSeq(u, 1, Len(s)) = SubSeq(t, 1, Len(s))
  <2>1. /\ SubSeq(u, 0 + 1, Len(s)) = [k \in 1 .. Len(s) - 0 |-> u[0 + k]]
        /\ SubSeq(t, 0 + 1, Len(s)) = [k \in 1 .. Len(s) - 0 |-> t[0 + k]]
    BY <1>1, <1>2, Piece
  <2>2. \A k \in 1 .. Len(s) - 0 : u[0 + k] = t[0 + k]
    BY <1>1, <1>2
  <2>3. 0 + 1 = 1
    OBVIOUS
  <2> QED
    BY <2>1, <2>2, <2>3
<1>4. Len(s) <= Len(u)
  BY <1>1, <1>2
<1> QED
  BY <1>3, <1>4 DEF IsPrefix, u

LEMMA ParsedPrefix ==
    ASSUME input \in Inputs, stream \in WellFormed, NEW a \in 0 .. HeaderEnd - 1
    PROVE  IsPrefix(Parsed[a], RefHeaders)
<1> DEFINE T == {n \in Nat : a + n <= HeaderEnd - 1 => IsPrefix(Parsed[a], Parsed[a + n])}
<1>1. HeaderEnd \in Nat /\ Parsed[a] \in Seq(Refs) /\ a \in Nat
  BY WholeHeader, ParsedTyped
<1>2. 0 \in T
  BY <1>1 DEF IsPrefix
<1>3. ASSUME NEW n \in T
      PROVE  n + 1 \in T
  <2> SUFFICES ASSUME a + (n + 1) <= HeaderEnd - 1
               PROVE  IsPrefix(Parsed[a], Parsed[a + (n + 1)])
    OBVIOUS
  <2> DEFINE m == a + (n + 1)
  <2>1. /\ m \in 1 .. HeaderEnd - 1 /\ m - 1 = a + n /\ IsPrefix(Parsed[a], Parsed[a + n])
        /\ a + n \in 0 .. HeaderEnd - 1
    BY <1>1
  <2> HIDE DEF m
  <2>2. Parsed[a + n] \in Seq(Refs) /\ RefHeader(stream, m) \in Refs
    BY <2>1, ParsedTyped DEF Refs
  <2>3. Parsed[m] \in {Append(Parsed[a + n], RefHeader(stream, m)), Parsed[a + n]}
    BY <2>1, ParsedLoop
  <2> QED
    BY <1>1, <2>1, <2>2, <2>3, PrefixGrows DEF m
<1> HIDE DEF T
<1>4. T \in SUBSET Nat
  BY DEF T
<1>5. Nat \subseteq T
  BY <1>2, <1>3, <1>4, RingAssumptions, Q!Induction
<1>6. (HeaderEnd - 1) - a \in Nat /\ a + ((HeaderEnd - 1) - a) = HeaderEnd - 1
  BY <1>1
<1>7. (HeaderEnd - 1) - a \in T
  BY <1>5, <1>6
<1>8. a + ((HeaderEnd - 1) - a) <= HeaderEnd - 1
         => IsPrefix(Parsed[a], Parsed[a + ((HeaderEnd - 1) - a)])
  BY <1>7 DEF T
<1>9. HeaderEnd - 1 <= HeaderEnd - 1
  BY <1>1
<1> QED
  BY <1>6, <1>8, <1>9, ParsedLoop

-----------------------------------------------------------------------------
(* The cuts.                                                               *)

LEMMA FirstEntries ==
    ASSUME NEW n \in P!Entries
    PROVE  {(0 + k) % P!Cap : k \in 0 .. ((n - 0) % P!Cap) - 1} = {i \in P!Entries : i < n}
<1>1. 0 \in P!Entries /\ P!Entries \subseteq Nat
  BY CapOne
<1>2. {(0 + k) % P!Cap : k \in 0 .. ((n - 0) % P!Cap) - 1} = Q!Span(0, n)
  BY <1>1, SameRing, RingAssumptions, Q!WindowSpan
<1>3. \A i \in P!Entries : 0 <= n /\ 0 <= i
  BY <1>1
<1>4. Q!Span(0, n) = {i \in P!Entries : IF 0 <= n THEN 0 <= i /\ i < n
                                         ELSE 0 <= i \/ i < n}
  BY SameRing DEF Q!Span
<1> QED
  BY <1>2, <1>3, <1>4

LEMMA WindowIs ==
    ASSUME RingOK
    PROVE  P!Window = {i \in P!Entries : i < N}
BY FirstEntries DEF P!Window, RingOK, N

LEMMA CleanBefore ==
    ASSUME RingOK, read_next_buffer \/ UNCHANGED ring, UNCHANGED input, Clean'
    PROVE  /\ Clean /\ stream' = stream /\ HeaderEnd' = HeaderEnd
           /\ Parsed' = Parsed /\ RefHeaders' = RefHeaders
<1>1. /\ stream' = stream /\ HeaderEnd' = HeaderEnd /\ Parsed' = Parsed
      /\ RefHeaders' = RefHeaders
  BY DEF stream, HeaderEnd, Parsed, RefHeaders
<1>2. stream \in WellFormed
  BY <1>1 DEF Clean
<1>3. Quiet
  BY QuietBefore DEF Clean, Quiet
<1>4. RingOK'
  <2>1. CASE read_next_buffer
    BY <2>1, FeedRing
  <2>2. CASE UNCHANGED ring
    BY <2>2 DEF RingOK, ring, stream, StopOf, Extent, N
  <2> QED
    BY <2>1, <2>2
<1>5. CASE UNCHANGED ring
  BY <1>1, <1>5 DEF Clean, CleanCut, ring, P!Window, P!Full
<1>6. CASE ~(UNCHANGED ring)
  <2>1. PICK n \in ReadResults : P!feed_next_buffer(n)
    BY <1>6 DEF read_next_buffer
  <2>2. ~P!Full
    BY <1>6 DEF read_next_buffer
  <2>3. /\ data_sizes' = [data_sizes EXCEPT ![N] = n]
        /\ start' = [start EXCEPT ![N] = received]
        /\ N' = N + 1 /\ N \in Nat
    BY <2>1, <2>2, Increments, CapOne DEF RingOK, P!Full, N, P!feed_next_buffer
  <2>4. ASSUME NEW i \in P!Window, data_sizes[i] > 0
        PROVE  CleanCut(i)
    <3>1. i \in P!Entries /\ i < N /\ i # N /\ i \in Nat
      BY <2>3, WindowIs, CapOne
    <3>2. i \in P!Window'
      <4>1. N' \in P!Entries /\ i < N'
        BY <1>4, <2>3, <3>1 DEF RingOK
      <4>2. P!Window' = {(0 + k) % P!Cap : k \in 0 .. ((N' - 0) % P!Cap) - 1}
        BY DEF P!Window, N
      <4> QED
        BY <3>1, <4>1, <4>2, FirstEntries
    <3>3. data_sizes'[i] = data_sizes[i] /\ start'[i] = start[i]
      BY <2>3, <3>1 DEF RingOK
    <3> QED
      BY <1>1, <2>4, <3>2, <3>3 DEF Clean, CleanCut
  <2> QED
    BY <1>1, <1>2, <1>3, <2>2, <2>4 DEF Clean, Quiet
<1> QED
  BY <1>1, <1>5, <1>6

Here == P!Position(cur_loc)

(* An entry is followed by a chunk that does not begin with what matters,  *)
(* if more than its own was received.                                      *)
LEMMA NextChunk ==
    ASSUME RingOK, Clean, NEW i \in P!Entries, i < N, data_sizes[i] > 0,
           StopOf(i) < received, StopOf(i) < HeaderEnd
    PROVE  /\ i + 1 < N /\ i + 1 \in P!Entries
           /\ P!circular_increment(i) = i + 1
           /\ start[i + 1] = StopOf(i)
           /\ data_sizes[i + 1] >= 2
           /\ stream[StopOf(i) + 1] \notin {LF, CR, COLON, SP}
           /\ stream[StopOf(i) + 2] \notin {LF, CR}
<1>1. /\ i \in Nat /\ N \in Nat /\ N < P!Cap /\ P!Cap \in Nat /\ N \in P!Entries
      /\ received \in Nat /\ HeaderEnd \in Nat /\ HeaderEnd <= Len(stream)
      /\ start[i] \in Nat /\ data_sizes[i] \in Int /\ MaxChunk \in Nat
  BY CapOne, WholeHeader, StreamIsSeq, ParserAssumption DEF RingOK, Clean
<1>2. StopOf(i) = IF i + 1 = N THEN received ELSE start[i + 1]
  BY DEF RingOK
<1>3. i + 1 < N /\ i + 1 \in P!Entries /\ P!circular_increment(i) = i + 1
  BY <1>1, <1>2, Increments, CapOne
<1>4. start[i + 1] = StopOf(i)
  BY <1>1, <1>2, <1>3
<1>5. data_sizes[i + 1] > 0
  <2>1. data_sizes[i + 1] <= 0 => start[i + 1] = Len(stream)
    BY <1>3 DEF RingOK
  <2>2. data_sizes[i + 1] \in -1 .. MaxChunk
    BY <1>3 DEF RingOK
  <2> QED
    BY <1>1, <1>4, <2>1, <2>2
<1>6. CleanCut(i + 1)
  BY <1>3, <1>5, WindowIs DEF Clean
<1>7. start[i + 1] \in 1 .. HeaderEnd - 1
  <2>1. StopOf(i) \in Nat /\ StopOf(i) >= 1
    BY <1>1 DEF StopOf, Extent
  <2> QED
    BY <1>1, <1>4, <2>1
<1> QED
  BY <1>3, <1>4, <1>6, <1>7 DEF CleanCut

Fed == pc \in {"skip", "scan", "judge"} => N >= 1 \/ P!Full
LookedAhead == pc = "judge" /\ Ahead < 0 => P!Full \/ received = Len(stream)

LEMMA InHeader ==
    ASSUME Types, Fed, Clean, pc \in {"skip", "scan", "judge"}, Here < HeaderEnd
    PROVE  /\ RingOK /\ Good(cur_loc) /\ N \in Nat /\ N >= 1
           /\ Here \in Nat /\ Left(cur_loc) \in Int /\ Left(cur_loc) >= 0
           /\ cur_loc.circ_index \in P!Entries /\ cur_loc.circ_index < N
           /\ data_sizes[cur_loc.circ_index] \in Int
           /\ data_sizes[cur_loc.circ_index] > 0
           /\ StopOf(cur_loc.circ_index) = Here + Left(cur_loc)
           /\ StopOf(cur_loc.circ_index) <= received
           /\ Here + 1 \in DOMAIN stream /\ Here + 1 \in 1 .. HeaderEnd
           /\ input \in Inputs /\ stream \in WellFormed
<1> DEFINE i == cur_loc.circ_index
<1>1. /\ RingOK /\ Good(cur_loc) /\ N \in Nat /\ Here \in Nat /\ Left(cur_loc) \in Int
      /\ i \in P!Entries /\ i \in Nat /\ input \in Inputs /\ stream \in WellFormed
      /\ data_sizes[i] \in Int /\ start[i] \in Nat /\ cur_loc.buff_pos \in Nat
      /\ Here = start[i] + cur_loc.buff_pos
      /\ StopOf(i) <= received /\ Extent(i) \in Nat
  BY Positions DEF Types, RingOK, Good, Pointer, Clean, Here
<1>2. /\ HeaderEnd \in Nat /\ HeaderEnd > 1 /\ HeaderEnd <= Len(stream)
      /\ Len(stream) \in Nat /\ DOMAIN stream = 1 .. Len(stream)
  BY <1>1, WholeHeader
<1>3. N >= 1
  <2> SUFFICES ASSUME N = 0 PROVE FALSE
    BY <1>1
  <2>1. received >= HeaderEnd
    BY <1>1 DEF Fed, Clean
  <2>2. received = 0
    BY <1>1 DEF RingOK
  <2> QED
    BY <1>2, <2>1, <2>2
<1>4. i < N
  BY <1>1, <1>3 DEF Good
<1>5. data_sizes[i] > 0
  <2>1. data_sizes[i] <= 0 => start[i] = Len(stream)
    BY <1>1, <1>4 DEF RingOK
  <2> QED
    BY <1>1, <1>2, <2>1
<1>6. /\ Extent(i) = data_sizes[i] /\ cur_loc.buff_pos <= data_sizes[i]
      /\ Left(cur_loc) = data_sizes[i] - cur_loc.buff_pos
      /\ StopOf(i) = start[i] + data_sizes[i]
  BY <1>1, <1>5 DEF Extent, StopOf, Left, Good
<1> HIDE DEF i
<1>7. Left(cur_loc) >= 0 /\ StopOf(i) = Here + Left(cur_loc)
  BY <1>1, <1>6
<1>8. Here + 1 \in DOMAIN stream /\ Here + 1 \in 1 .. HeaderEnd
  BY <1>1, <1>2
<1> QED
  BY <1>1, <1>3, <1>4, <1>5, <1>7, <1>8 DEF i

(* When it is judged what is at cur_loc, the next entry has been fed where *)
(* it matters.                                                             *)
LEMMA Near ==
    ASSUME Types, Fed, LookedAhead, Clean, Judges, Here < HeaderEnd,
           Left(cur_loc) <= 1, StopOf(cur_loc.circ_index) < HeaderEnd
    PROVE  StopOf(cur_loc.circ_index) < received
<1> DEFINE i == cur_loc.circ_index
<1>1. pc \in {"scan", "judge"}
  BY DEF Judges
<1>2. /\ RingOK /\ N \in Nat /\ i \in P!Entries /\ i < N
      /\ StopOf(i) <= received /\ input \in Inputs /\ stream \in WellFormed
      /\ Left(cur_loc) \in Int
  BY <1>1, InHeader
<1>3. /\ i \in Nat /\ N < P!Cap /\ P!Cap \in Nat /\ received \in Nat /\ HeaderEnd \in Nat
      /\ HeaderEnd <= Len(stream) /\ Len(stream) \in Nat /\ N \in P!Entries
  BY <1>2, CapOne, WholeHeader DEF RingOK
<1> SUFFICES ASSUME StopOf(i) = received PROVE FALSE
  <2>1. StopOf(i) \in Int
    BY <1>2, <1>3, InHeader, <1>1
  <2> QED
    BY <1>2, <1>3, <2>1
<1>4. received < HeaderEnd
  OBVIOUS
<1> HIDE DEF i
<1>5. i + 1 = N
  <2> SUFFICES ASSUME i + 1 # N PROVE FALSE
    OBVIOUS
  <2>1. start[i + 1] = received /\ i + 1 \in P!Entries /\ i + 1 < N
    BY <1>2, <1>3, CapOne DEF RingOK
  <2>2. /\ data_sizes[i + 1] \in -1 .. MaxChunk /\ MaxChunk \in Nat
        /\ StopOf(i + 1) <= received
        /\ data_sizes[i + 1] <= 0 => start[i + 1] = Len(stream)
    BY <1>2, <2>1, ParserAssumption DEF RingOK
  <2>3. data_sizes[i + 1] > 0
    BY <1>3, <1>4, <2>1, <2>2
  <2>4. StopOf(i + 1) = received + data_sizes[i + 1]
    BY <2>1, <2>3 DEF StopOf, Extent
  <2> QED
    BY <1>3, <2>2, <2>3, <2>4
<1>6. Ahead = -1
  <2>1. P!circular_increment(i) = N
    BY <1>2, <1>3, <1>5, Increments, CapOne
  <2>2. data_sizes[N] = -1
    BY <1>2, <1>3 DEF RingOK
  <2> QED
    BY <2>1, <2>2 DEF Ahead, i
<1>7. pc = "judge"
  BY <1>2, <1>6 DEF Judges, LooksAhead
<1>8. P!Full \/ received = Len(stream)
  BY <1>6, <1>7 DEF LookedAhead
<1> QED
  BY <1>3, <1>4, <1>8 DEF Clean

LEMMA Control == LF = 10 /\ CR = 13 /\ SP = 32 /\ COLON = 58 /\ NUL = 0
BY DEF LF, CR, SP, COLON, NUL

(* What follows an end of entry is the next chunk.                         *)
LEMMA AtEntryEnd ==
    ASSUME Types, Fed, LookedAhead, Clean, Judges, Here < HeaderEnd,
           Left(cur_loc) <= 1, Here + Left(cur_loc) < HeaderEnd
    PROVE  /\ Ahead >= 2
           /\ stream[Here + Left(cur_loc) + 1] \notin {LF, CR, COLON, SP}
           /\ stream[Here + Left(cur_loc) + 2] \notin {LF, CR}
<1> DEFINE i == cur_loc.circ_index
<1>1. pc \in {"skip", "scan", "judge"}
  BY DEF Judges
<1>2. /\ RingOK /\ i \in P!Entries /\ i < N /\ data_sizes[i] > 0
      /\ StopOf(i) = Here + Left(cur_loc)
  BY <1>1, InHeader
<1>3. StopOf(i) < received
  BY <1>2, Near
<1> HIDE DEF i
<1>4. /\ P!circular_increment(i) = i + 1 /\ data_sizes[i + 1] >= 2
      /\ stream[StopOf(i) + 1] \notin {LF, CR, COLON, SP}
      /\ stream[StopOf(i) + 2] \notin {LF, CR}
  BY <1>2, <1>3, NextChunk
<1> QED
  BY <1>2, <1>4 DEF Ahead, i

(* An end of line is found where there is one, and nowhere else; and a     *)
(* colon.                                                                  *)
LEMMA EndFound ==
    ASSUME Types, Fed, LookedAhead, Clean, Judges, Here < HeaderEnd
    PROVE  /\ is_ptr_pointing_to_eol_or_eos <=> stream[Here + 1] \in {LF, CR}
           /\ stream[Here + 1] \in {LF, CR} => Left(cur_loc) >= 1
           /\ stream[Here + 1] = CR => /\ Left(cur_loc) >= 2 /\ Here + 2 <= HeaderEnd
                                       /\ stream[Here + 2] = LF
           /\ get_char(cur_loc) = COLON <=> stream[Here + 1] = COLON
<1> DEFINE size == Left(cur_loc)
           c == get_char(cur_loc)
           d == get_char(After(cur_loc, 1))
<1>1. pc \in {"skip", "scan", "judge"}
  BY DEF Judges
<1>2. /\ RingOK /\ Good(cur_loc) /\ Here \in Nat /\ size \in Int /\ size >= 0
      /\ input \in Inputs /\ stream \in WellFormed /\ Here + 1 \in 1 .. HeaderEnd
      /\ data_sizes[cur_loc.circ_index] \in Int /\ data_sizes[cur_loc.circ_index] > 0
      /\ cur_loc.buff_pos \in Nat
  BY <1>1, InHeader, Positions
<1>3. /\ HeaderEnd \in Nat /\ stream[HeaderEnd] = LF
      /\ \A k \in 1 .. HeaderEnd - 1 : stream[k] = CR => stream[k + 1] = LF
  BY <1>2, WholeHeader
<1>4. stream[Here + 1] = CR => Here + 2 <= HeaderEnd /\ stream[Here + 2] = LF
  <2> SUFFICES ASSUME stream[Here + 1] = CR
               PROVE  Here + 2 <= HeaderEnd /\ stream[Here + 2] = LF
    OBVIOUS
  <2>1. Here + 1 # HeaderEnd
    BY <1>3, Control
  <2>2. Here + 1 \in 1 .. HeaderEnd - 1 /\ (Here + 1) + 1 = Here + 2
    BY <1>2, <1>3, <2>1
  <2> QED
    BY <1>2, <1>3, <2>2
<1>5. Quiet
  BY DEF Clean, Quiet
<1>6. size >= 1 => /\ c = stream[Here + 1]
                   /\ Good(After(cur_loc, 1)) /\ Left(After(cur_loc, 1)) = size - 1
                   /\ P!Position(After(cur_loc, 1)) = Here + 1
  <2> SUFFICES ASSUME size >= 1
               PROVE  /\ c = stream[Here + 1]
                      /\ Good(After(cur_loc, 1)) /\ Left(After(cur_loc, 1)) = size - 1
                      /\ P!Position(After(cur_loc, 1)) = Here + 1
    OBVIOUS
  <2>1. c = stream[Here + 1]
    BY <1>2, Chars DEF Here
  <2>2. cur_loc.buff_pos + 1 <= Extent(cur_loc.circ_index) /\ 1 \in Nat
    BY <1>2 DEF Extent, Left
  <2> QED
    BY <1>2, <2>1, <2>2, Afters DEF Here
<1>7. size >= 2 => d = stream[Here + 2]
  <2>1. (Here + 1) + 1 = Here + 2
    BY <1>2
  <2> QED
    BY <1>2, <1>6, <2>1, Chars
<1>8. size = 1 => d = NUL
  BY <1>2, <1>5, <1>6, Chars
<1>9. \A n \in Int : is_eol(cur_loc, n) =
         IF n <= 0 THEN -1
         ELSE IF n >= 2 /\ ((c = CR /\ d = LF) \/ (c = LF /\ d = CR)) THEN 2
         ELSE IF c = LF THEN 1 ELSE 0
  BY EndsOfLine
<1>10. Ahead \in Int
  BY <1>2, Increments, ParserAssumption DEF Ahead, RingOK, Good, Pointer
<1>11. CASE size >= 2
  <2>1. is_ptr_pointing_to_eol_or_eos <=> is_eol(cur_loc, size) # 0
    BY <1>2, <1>11 DEF is_ptr_pointing_to_eol_or_eos
  <2>2. is_eol(cur_loc, size) # 0 <=> stream[Here + 1] \in {LF, CR}
    <3> HIDE DEF c, d, size
    <3> QED
      BY <1>2, <1>4, <1>6, <1>7, <1>9, <1>11, Control
  <2> QED
    BY <1>2, <1>4, <1>6, <1>11, <2>1, <2>2
<1>12. CASE size = 1
  <2>1. Here + 1 < HeaderEnd => Ahead >= 2 /\ stream[Here + 2] \notin {LF, CR}
    <3>1. Here + size + 1 = Here + 2
      BY <1>2, <1>12
    <3> QED
      BY <1>2, <1>12, <3>1, AtEntryEnd
  <2>2. stream[Here + 1] # CR
    BY <1>2, <1>3, <1>4, <2>1, Control
  <2>3. is_ptr_pointing_to_eol_or_eos <=> is_eol(cur_loc, IF Ahead <= 0 THEN 1 ELSE 2) # 0
    BY <1>10, <1>12 DEF is_ptr_pointing_to_eol_or_eos
  <2>4. is_eol(cur_loc, IF Ahead <= 0 THEN 1 ELSE 2) # 0 <=> c = LF
    <3> HIDE DEF c, d, size
    <3> QED
      BY <1>8, <1>9, <1>12, Control
  <2> HIDE DEF c, d, size
  <2> QED
    BY <1>2, <1>6, <1>12, <2>2, <2>3, <2>4 DEF c, size
<1>13. CASE size = 0
  <2> DEFINE next == op_add_1(cur_loc)
  <2>1. /\ Ahead >= 2
        /\ stream[Here + 1] \notin {LF, CR, COLON, SP} /\ stream[Here + 2] \notin {LF, CR}
    <3>1. Here + size = Here
      BY <1>2, <1>13
    <3> QED
      BY <1>2, <1>13, <3>1, AtEntryEnd
  <2>2. /\ Good(next) /\ P!Position(next) = Here + 1
        /\ next = P!At(cur_loc.circ_index + 1, 1)
        /\ P!circular_increment(cur_loc.circ_index) = cur_loc.circ_index + 1
    <3>1. data_sizes[P!circular_increment(cur_loc.circ_index)] > 0
      BY <1>10, <2>1 DEF Ahead
    <3> QED
      BY <1>2, <1>13, <3>1, OneFurther DEF Here
  <2>3. Left(next) >= 1 /\ Left(next) \in Int
    <3>1. next.circ_index = cur_loc.circ_index + 1 /\ next.buff_pos = 1
      BY <2>2 DEF P!At
    <3> QED
      BY <1>10, <2>1, <2>2, <3>1 DEF Left, Ahead
  <2>4. get_char(next) = stream[Here + 2]
    <3>1. (Here + 1) + 1 = Here + 2
      BY <1>2
    <3> QED
      BY <1>2, <2>2, <2>3, <3>1, Chars
  <2>5. is_eol(next, Left(next)) = 0
    BY <2>1, <2>3, <2>4, EndsOfLine
  <2>6. ~is_ptr_pointing_to_eol_or_eos
    BY <1>10, <1>13, <2>1, <2>5 DEF is_ptr_pointing_to_eol_or_eos
  <2>7. c = NUL
    BY <1>2, <1>5, <1>13, Chars
  <2> QED
    BY <2>1, <2>6, <2>7, Control
<1> QED
  BY <1>2, <1>11, <1>12, <1>13

-----------------------------------------------------------------------------
(* What the parser knows, whatever the cuts are.                           *)

LEMMA Steps ==
    ASSUME [Next]_vars
    PROVE  UNCHANGED input /\ (read_next_buffer \/ UNCHANGED ring)
BY DEF Next, ReadFirst, DecodeType, ReadSecond, GetNextLine, LookAhead, FirstLine,
       AddOutOfLine, HeaderDecoded, skip_eol_if_present, Advance, http_headers_add,
       vars

LEMMA FedStep ==
    ASSUME Types, Fed, [Next]_vars
    PROVE  Fed'
<1>1. RingOK /\ N \in Nat /\ (read_next_buffer \/ UNCHANGED ring)
  BY Steps, CapOne DEF Types, RingOK
<1>2. CASE GetNextLine
  <2>1. CASE N = 0
    <3>1. read_next_buffer
      BY <1>2, <2>1 DEF GetNextLine, P!Empty, N
    <3>2. CASE P!Full
      BY <3>1, <3>2 DEF read_next_buffer, Fed, ring, N, P!Full
    <3>3. CASE ~P!Full
      <4>1. N' = P!circular_increment(N)
        BY <3>1, <3>3 DEF read_next_buffer, P!feed_next_buffer, N
      <4>2. N' = 1
        BY <1>1, <2>1, <3>3, <4>1, Increments, CapOne DEF RingOK, P!Full, N
      <4> QED
        BY <4>2 DEF Fed
    <3> QED
      BY <3>2, <3>3
  <2>2. CASE N # 0
    <3>1. N >= 1
      BY <1>1, <2>2
    <3> QED
      BY <1>1, <3>1, FirstStays DEF Fed
  <2> QED
    BY <2>1, <2>2
<1>3. CASE pc \in {"skip", "scan", "judge"}
  <2>1. N >= 1 \/ P!Full
    BY <1>3 DEF Fed
  <2> QED
    BY <1>1, <2>1, FirstStays DEF Fed
<1>4. CASE pc' \notin {"skip", "scan", "judge"}
  BY <1>4 DEF Fed
<1>5. CASE UNCHANGED vars
  BY <1>5 DEF Fed, vars, ring, N, P!Full
<1> QED
  BY <1>2, <1>3, <1>4, <1>5
     DEF Next, ReadFirst, DecodeType, ReadSecond, LookAhead, FirstLine,
         AddOutOfLine, HeaderDecoded, skip_eol_if_present, Advance, http_headers_add,
         Judges, LooksAhead

LEMMA LookedAheadStep ==
    ASSUME Types, Fed, LookedAhead, [Next]_vars
    PROVE  LookedAhead'
<1>1. CASE pc' # "judge"
  BY <1>1 DEF LookedAhead
<1>2. CASE UNCHANGED vars
  BY <1>2 DEF LookedAhead, vars, ring, pointers, Ahead, P!Full, stream
<1>3. CASE LookAhead
  <2> DEFINE i == cur_loc.circ_index
             j == P!circular_increment(i)
  <2>1. /\ read_next_buffer /\ UNCHANGED <<input, cur_loc>> /\ data_sizes[j] < 0
        /\ pc = "scan"
    BY <1>3 DEF LookAhead, LooksAhead, Ahead
  <2>2. /\ RingOK /\ N \in Nat /\ N \in P!Entries /\ i \in P!Entries /\ i \in Nat
        /\ N < P!Cap /\ P!Cap \in Nat /\ (i < N \/ i = 0)
        /\ j \in P!Entries /\ j = IF i + 1 = P!Cap THEN 0 ELSE i + 1
        /\ received \in Nat /\ Len(stream) \in Nat /\ received <= Len(stream)
        /\ stream' = stream
    <3>1. i \in P!Entries /\ (i < N \/ i = 0) /\ RingOK
      BY DEF Types, Good, Pointer
    <3> HIDE DEF i
    <3>2. N \in P!Entries
      BY <3>1 DEF RingOK
    <3>3. stream' = stream
      BY <2>1 DEF stream
    <3>4. /\ received \in Nat /\ Len(stream) \in Nat /\ received <= Len(stream)
      BY <3>1, StreamIsSeq DEF RingOK
    <3> QED
      BY <3>1, <3>2, <3>3, <3>4, CapOne, Increments
  <2>3. CASE P!Full
    BY <2>1, <2>3 DEF read_next_buffer, ring, P!Full, LookedAhead
  <2>4. CASE ~P!Full
    <3>1. PICK n \in ReadResults : P!feed_next_buffer(n)
      BY <2>1, <2>4 DEF read_next_buffer
    <3>2. /\ data_sizes' = [data_sizes EXCEPT ![N] = n]
          /\ received' = IF n > 0 THEN received + n ELSE received
      BY <3>1 DEF P!feed_next_buffer, N
    <3>3. /\ n \in Int
          /\ n <= 0 => received = Len(stream)
          /\ n > 0 => received < Len(stream)
      BY <2>2, ParserAssumption DEF ReadResults
    <3>4. CASE n <= 0
      BY <2>2, <3>2, <3>3, <3>4 DEF LookedAhead
    <3>5. CASE n > 0
      <4>1. N >= 1
        BY <2>1, <2>2, <2>4 DEF Fed
      <4> HIDE DEF i, j
      <4>2. j = i + 1 /\ j <= N
        <5>1. i < N /\ i + 1 # P!Cap
          BY <2>2, <4>1
        <5>2. j = i + 1
          BY <2>2, <5>1
        <5> QED
          BY <2>2, <5>1, <5>2
      <4>3. j = N
        <5> SUFFICES ASSUME j < N PROVE FALSE
          BY <2>2, <4>2
        <5>1. /\ start[j] = Len(stream) /\ StopOf(j) <= received
              /\ StopOf(j) = start[j]
          <6>1. data_sizes[j] <= 0 /\ ~(data_sizes[j] > 0)
            BY <2>1, <2>2, ParserAssumption DEF RingOK
          <6>2. start[j] = Len(stream) /\ StopOf(j) <= received /\ start[j] \in Nat
            BY <2>2, <6>1 DEF RingOK
          <6> QED
            BY <6>1, <6>2 DEF StopOf, Extent
        <5> QED
          BY <2>2, <3>3, <3>5, <5>1
      <4>4. data_sizes'[j] = n
        BY <2>2, <3>2, <4>3 DEF RingOK
      <4>5. Ahead' = n
        BY <2>1, <4>4 DEF Ahead, i, j
      <4> QED
        BY <3>3, <3>5, <4>5 DEF LookedAhead
    <3> QED
      BY <3>3, <3>4, <3>5
  <2> QED
    BY <2>3, <2>4
<1> QED
  BY <1>1, <1>2, <1>3
     DEF Next, ReadFirst, DecodeType, ReadSecond, GetNextLine, FirstLine,
         AddOutOfLine, HeaderDecoded, skip_eol_if_present, Advance, http_headers_add

-----------------------------------------------------------------------------
(* What the parser knows, when the cuts are clean.                         *)

Begin == P!Position(start_of_line)
EndOf(n) == IF stream[n + 1] = CR THEN n + 2 ELSE n + 1

(* Nothing was parsed yet.                                                 *)
AtStart == cur_loc = P!At(0, 0) /\ start_of_line = P!At(0, 0) /\ headers = <<>>

(* The end of a line that was parsed is there whole, and is not the last.  *)
AtLineEnd ==
    /\ Left(cur_loc) >= 1 /\ stream[Here + 1] \in {LF, CR}
    /\ stream[Here + 1] = CR => Left(cur_loc) >= 2 /\ stream[Here + 2] = LF
    /\ EndOf(Here) < HeaderEnd
    /\ headers = Parsed[EndOf(Here)]

(* last_semicolon points to the last colon of the line, if there is one.   *)
LastTracked ==
    \/ \A k \in Begin + 1 .. Here : stream[k] # COLON
    \/ /\ Good(last_semicolon) /\ AtColon
       /\ NotAfter(start_of_line, last_semicolon)
       /\ \A k \in P!Position(last_semicolon) + 2 .. Here : stream[k] # COLON

(* Inside a line.  The line feed of a line may have been skipped together  *)
(* with the carriage return of the empty one that follows it.              *)
InLine ==
    /\ Here < HeaderEnd
    /\ \A k \in Begin + 1 .. Here : stream[k] \notin {LF, CR}
    /\ headers = Parsed[Begin]
    /\ lines = 0 => Begin = 0
    /\ lines > 0 => /\ Begin > 0
                    /\ \/ stream[Begin] = LF
                       \/ stream[Begin] = CR /\ Begin = HeaderEnd - 1
    /\ LastTracked

ParseOK ==
    /\ pc \in {"read", "type", "read_again"} => lines = 0
    /\ pc \in {"read", "type", "read_again", "line", "skip"} /\ lines = 0 => AtStart
    /\ pc \in {"line", "skip"} /\ lines > 0 => AtLineEnd
    /\ pc \in {"scan", "judge"} => InLine
    /\ pc = "done" => headers = RefHeaders
    /\ pc # "fault"

HInv == Types /\ Fed /\ LookedAhead /\ (Clean => ParseOK)

(* The line that ends at cur_loc.                                          *)
LEMMA LineAtEnd ==
    ASSUME Types, Fed, LookedAhead, Clean, InLine, LineRead
    PROVE  /\ Left(cur_loc) >= 1 /\ stream[Here + 1] \in {LF, CR}
           /\ stream[Here + 1] = CR => Left(cur_loc) >= 2 /\ stream[Here + 2] = LF
           /\ EndOf(Here) \in Feeds(stream) /\ EndOf(Here) <= HeaderEnd
           /\ EndOf(Here) \in Nat /\ Here \in Nat /\ Begin \in Nat
           /\ Begin <= Here /\ Here < EndOf(Here)
           /\ \A k \in Begin + 1 .. EndOf(Here) - 1 : stream[k] # LF
           /\ Begin = 0 \/ stream[Begin] = LF
                 => /\ LineStart(stream, EndOf(Here)) = Begin
                    /\ TextEnd(stream, EndOf(Here)) = Here
           /\ EndOf(Here) < HeaderEnd => Parsed[EndOf(Here) - 1] = Parsed[Begin]
<1> DEFINE n == Here
           e == EndOf(n)
           b == Begin
<1>1. /\ pc \in {"skip", "scan", "judge"} /\ Judges /\ is_ptr_pointing_to_eol_or_eos
      /\ n < HeaderEnd
  BY DEF LineRead, Judges, InLine
<1>2. /\ n \in Nat /\ n + 1 \in 1 .. HeaderEnd /\ input \in Inputs /\ stream \in WellFormed
      /\ RingOK /\ Good(cur_loc) /\ Good(start_of_line)
      /\ NotAfter(start_of_line, cur_loc)
  BY <1>1, InHeader DEF Types
<1>3. b \in Nat /\ b <= n
  BY <1>2, Positions, InOrder DEF Begin, Here
<1>4. /\ stream[n + 1] \in {LF, CR} /\ Left(cur_loc) >= 1
      /\ stream[n + 1] = CR => /\ Left(cur_loc) >= 2 /\ n + 2 <= HeaderEnd
                               /\ stream[n + 2] = LF
  BY <1>1, EndFound
<1>5. /\ HeaderEnd \in Nat /\ HeaderEnd <= Len(stream) /\ Len(stream) \in Nat
      /\ DOMAIN stream = 1 .. Len(stream) /\ stream[1] \notin {LF, CR}
  BY <1>2, WholeHeader
<1>6. \A k \in b + 1 .. n : stream[k] \notin {LF, CR}
  BY DEF InLine
<1> HIDE DEF n, b
<1>7. /\ e \in Nat /\ e <= HeaderEnd /\ n < e /\ stream[e] = LF
      /\ e = n + 2 => stream[n + 1] = CR
      /\ e = n + 1 \/ e = n + 2
  BY <1>2, <1>4, <1>5 DEF EndOf
<1> HIDE DEF e
<1>8. e \in Feeds(stream)
  BY <1>2, <1>5, <1>7 DEF Feeds
<1>9. ASSUME NEW k \in b + 1 .. e - 1
      PROVE  stream[k] # LF
  <2>1. k \in b + 1 .. n \/ (k = n + 1 /\ e = n + 2)
    BY <1>2, <1>3, <1>7
  <2> QED
    BY <1>6, <1>7, <2>1, Control
<1>10. ASSUME b = 0 \/ stream[b] = LF
       PROVE  LineStart(stream, e) = b /\ TextEnd(stream, e) = n
  <2>1. LineStart(stream, e) = b
    <3>1. b < e
      BY <1>2, <1>3, <1>7
    <3> QED
      BY <1>2, <1>3, <1>8, <1>9, <1>10, <3>1, LineAt
  <2>2. CASE e = n + 2
    <3>1. e > 1 /\ e - 1 = n + 1 /\ e - 2 = n
      BY <1>2, <2>2
    <3> QED
      BY <1>7, <2>1, <2>2, <3>1 DEF TextEnd
  <2>3. CASE e = n + 1
    <3>1. e - 1 = n
      BY <1>2, <2>3
    <3>2. e > 1 => stream[n] # CR
      <4>1. CASE n = b
        BY <1>2, <1>10, <2>3, <4>1, Control
      <4>2. CASE n # b
        <5>1. n \in b + 1 .. n
          BY <1>2, <1>3, <4>2
        <5> QED
          BY <1>6, <5>1
      <4> QED
        BY <4>1, <4>2
    <3> QED
      BY <2>1, <3>1, <3>2 DEF TextEnd
  <2> QED
    BY <1>7, <2>2, <2>3
<1>11. ASSUME e < HeaderEnd
       PROVE  Parsed[e - 1] = Parsed[b]
  <2>1. e - 1 \in Nat /\ b <= e - 1 /\ e - 1 <= HeaderEnd - 1
    BY <1>2, <1>3, <1>5, <1>7
  <2> QED
    BY <1>2, <1>3, <1>9, <2>1, ParsedSame
<1> QED
  BY <1>2, <1>3, <1>4, <1>7, <1>8, <1>9, <1>10, <1>11 DEF n, b, e

(* The steps of the parser inside the header.                              *)

LEMMA StartPosition ==
    ASSUME RingOK
    PROVE  P!Position(P!At(0, 0)) = 0 /\ Left(P!At(0, 0)) = data_sizes[0]
<1>1. /\ P!At(0, 0).circ_index = 0 /\ P!At(0, 0).buff_pos = 0
      /\ start[0] = 0 /\ data_sizes[0] \in Int
  BY CapOne, ParserAssumption DEF P!At, RingOK
<1> QED
  BY <1>1 DEF P!Position, Left

(* No end of line is skipped before the first line.                        *)
LEMMA SkipFirst ==
    ASSUME Types, Fed, Clean, AtStart, lines = 0, skip_eol_if_present
    PROVE  InLine'
<1>1. RingOK /\ input \in Inputs /\ stream \in WellFormed
  BY DEF Types, RingOK, Clean
<1>2. Here = 0 /\ Begin = 0 /\ Left(cur_loc) = data_sizes[0]
  BY <1>1, StartPosition DEF AtStart, Here, Begin
<1>3. /\ HeaderEnd \in Nat /\ HeaderEnd > 1 /\ stream[1] \notin {LF, CR}
  BY <1>1, WholeHeader
<1>4. pc \in {"skip", "scan", "judge"}
  BY DEF skip_eol_if_present
<1>5. /\ Left(cur_loc) > 0 /\ Left(cur_loc) \in Int /\ Good(cur_loc)
  <2>1. /\ data_sizes[cur_loc.circ_index] > 0 /\ Left(cur_loc) \in Int /\ Good(cur_loc)
    BY <1>2, <1>3, <1>4, InHeader
  <2>2. cur_loc.circ_index = 0
    BY DEF AtStart, P!At
  <2> QED
    BY <1>2, <2>1, <2>2
<1>6. get_char(cur_loc) = stream[1]
  <2>1. Here + 1 = 1
    BY <1>2
  <2> QED
    BY <1>1, <1>5, <2>1, Chars DEF Here
<1>7. is_eol(cur_loc, Left(cur_loc)) = 0
  BY <1>3, <1>5, <1>6, EndsOfLine
<1>8. UNCHANGED <<input, ring, pointers, headers, lines>>
  BY <1>7 DEF skip_eol_if_present, pointers, results
<1>9. /\ Here' = 0 /\ Begin' = 0 /\ HeaderEnd' = HeaderEnd /\ stream' = stream
      /\ Parsed' = Parsed /\ headers' = <<>> /\ lines' = 0
  BY <1>2, <1>8 DEF Here, Begin, HeaderEnd, stream, Parsed, pointers, ring, P!Position, AtStart
<1>10. Parsed[0] = <<>>
  BY <1>1, ParsedLoop
<1>11. \A k \in Begin' + 1 .. Here' : FALSE
  BY <1>9
<1> QED
  BY <1>3, <1>9, <1>10, <1>11 DEF InLine, LastTracked

LEMMA BlankBehind ==
    ASSUME input \in Inputs, stream \in WellFormed, NEW e \in Nat, e < HeaderEnd,
           e > 0, stream[e] = LF, stream[e + 1] = CR
    PROVE  HeaderEnd = e + 2
<1>1. /\ HeaderEnd \in Nat /\ stream[HeaderEnd] = LF /\ HeaderEnd <= Len(stream)
      /\ Len(stream) \in Nat /\ DOMAIN stream = 1 .. Len(stream)
      /\ \A n \in Blanks(stream) : HeaderEnd <= n
      /\ \A k \in 1 .. HeaderEnd - 1 : stream[k] = CR => stream[k + 1] = LF
  BY WholeHeader
<1>2. e + 1 \in 1 .. HeaderEnd - 1 /\ (e + 1) + 1 = e + 2
  <2>1. e + 1 # HeaderEnd
    BY <1>1, Control
  <2> QED
    BY <1>1, <2>1
<1>3. stream[e + 2] = LF
  BY <1>1, <1>2
<1>4. e + 2 \in Feeds(stream)
  BY <1>1, <1>2, <1>3 DEF Feeds
<1>5. LineStart(stream, e + 2) = e
  <2>1. \A k \in e + 1 .. (e + 2) - 1 : stream[k] # LF
    <3>1. \A k \in e + 1 .. (e + 2) - 1 : k = e + 1
      OBVIOUS
    <3> QED
      BY <3>1, Control
  <2>2. e < e + 2
    OBVIOUS
  <2> QED
    BY <1>4, <2>1, <2>2, LineAt
<1>6. TextEnd(stream, e + 2) = e
  <2>1. (e + 2) - 1 = e + 1 /\ (e + 2) - 2 = e /\ e + 2 > 1
    OBVIOUS
  <2> QED
    BY <2>1 DEF TextEnd
<1>7. e + 2 \in Blanks(stream)
  BY <1>4, <1>5, <1>6 DEF Blanks
<1> QED
  BY <1>1, <1>2, <1>7

(* The end of a line is skipped, and with it the carriage return of an     *)
(* empty line behind it.                                                   *)
LEMMA SkipLine ==
    ASSUME Types, Fed, Clean, AtLineEnd, lines > 0, skip_eol_if_present
    PROVE  InLine'
<1> DEFINE n == Here
           e == EndOf(n)
           size == Left(cur_loc)
           offset == is_eol(cur_loc, size)
           next == After(cur_loc, offset)
           c == get_char(cur_loc)
           d == get_char(After(cur_loc, 1))
<1>1. /\ RingOK /\ input \in Inputs /\ stream \in WellFormed /\ Good(cur_loc)
      /\ n \in Nat /\ size \in Int /\ size >= 1 /\ lines \in Nat
      /\ cur_loc.buff_pos \in Nat /\ data_sizes[cur_loc.circ_index] \in Int
  BY Positions DEF Types, RingOK, Clean, AtLineEnd, Here
<1>2. /\ stream[n + 1] \in {LF, CR}
      /\ stream[n + 1] = CR => size >= 2 /\ stream[n + 2] = LF
      /\ e < HeaderEnd /\ headers = Parsed[e]
  BY DEF AtLineEnd
<1>3. /\ HeaderEnd \in Nat /\ stream[HeaderEnd] = LF
  BY <1>1, WholeHeader
<1>4. c = stream[n + 1] /\ (size >= 2 => d = stream[n + 2])
  <2>1. c = stream[n + 1]
    BY <1>1, Chars DEF Here
  <2>2. cur_loc.buff_pos + 1 <= Extent(cur_loc.circ_index) /\ 1 \in Nat
    BY <1>1 DEF Left, Extent
  <2>3. /\ Good(After(cur_loc, 1)) /\ Left(After(cur_loc, 1)) = size - 1
        /\ P!Position(After(cur_loc, 1)) = n + 1
    BY <1>1, <2>2, Afters DEF Here
  <2>4. size >= 2 => d = stream[(n + 1) + 1]
    BY <1>1, <2>3, Chars
  <2>5. (n + 1) + 1 = n + 2
    BY <1>1
  <2> QED
    BY <2>1, <2>4, <2>5
<1>5. offset = IF size <= 0 THEN -1
               ELSE IF size >= 2 /\ ((c = CR /\ d = LF) \/ (c = LF /\ d = CR)) THEN 2
               ELSE IF c = LF THEN 1 ELSE 0
  BY <1>1, EndsOfLine
<1>6. /\ offset > 0 /\ stream[e] = LF
      /\ \/ n + offset = e
         \/ n + offset = e + 1 /\ stream[e + 1] = CR
  <2> HIDE DEF c, d, size, offset, n
  <2>1. CASE stream[n + 1] = CR
    <3>1. e = n + 2
      BY <2>1 DEF EndOf
    <3>2. offset = 2
      BY <1>1, <1>2, <1>4, <1>5, <2>1
    <3> QED
      BY <1>1, <1>2, <2>1, <3>1, <3>2
  <2>2. CASE stream[n + 1] # CR
    <3>1. e = n + 1 /\ stream[n + 1] = LF
      BY <1>2, <2>2 DEF EndOf
    <3>2. CASE size >= 2 /\ stream[n + 2] = CR
      <4>1. offset = 2
        BY <1>1, <1>4, <1>5, <3>1, <3>2
      <4>2. e + 1 = n + 2
        BY <1>1, <3>1
      <4> QED
        BY <1>1, <3>1, <3>2, <4>1, <4>2
    <3>3. CASE ~(size >= 2 /\ stream[n + 2] = CR)
      <4>1. offset = 1
        BY <1>1, <1>4, <1>5, <3>1, <3>3, Control
      <4> QED
        BY <1>1, <3>1, <4>1
    <3> QED
      BY <3>2, <3>3
  <2> QED
    BY <2>1, <2>2
<1>7. Good(next) /\ P!Position(next) = n + offset
  BY <1>6, Skipped DEF Here
<1>8. /\ UNCHANGED <<input, ring, headers, lines>>
      /\ cur_loc' = next /\ start_of_line' = next
  BY <1>6 DEF skip_eol_if_present, results
<1> HIDE DEF n, offset, next, c, d, size
<1>9. /\ Here' = n + offset /\ Begin' = n + offset /\ HeaderEnd' = HeaderEnd
      /\ stream' = stream /\ Parsed' = Parsed /\ headers' = Parsed[e] /\ lines' = lines
  <2>1. Here' = P!Position(next) /\ Begin' = P!Position(next)
    BY <1>8 DEF Here, Begin, ring, P!Position
  <2>2. /\ HeaderEnd' = HeaderEnd /\ stream' = stream /\ Parsed' = Parsed
        /\ headers' = Parsed[e] /\ lines' = lines
    BY <1>2, <1>8 DEF HeaderEnd, stream, Parsed
  <2> QED
    BY <1>7, <2>1, <2>2
<1>10. e \in Nat /\ e > 0
  BY <1>1 DEF EndOf
<1>11. /\ n + offset > 0 /\ n + offset < HeaderEnd
       /\ Parsed[n + offset] = Parsed[e]
       /\ \/ stream[n + offset] = LF
          \/ stream[n + offset] = CR /\ n + offset = HeaderEnd - 1
  <2>1. CASE n + offset = e
    BY <1>2, <1>6, <1>10, <2>1
  <2>2. CASE n + offset = e + 1 /\ stream[e + 1] = CR
    <3>1. HeaderEnd = e + 2
      BY <1>1, <1>2, <1>6, <1>10, <2>2, BlankBehind
    <3>2. Parsed[e + 1] = Parsed[e]
      <4>1. /\ e + 1 \in Nat /\ e <= e + 1 /\ e + 1 <= HeaderEnd - 1
            /\ \A k \in e + 1 .. e + 1 : k = e + 1
        BY <1>10, <3>1
      <4>2. \A k \in e + 1 .. e + 1 : stream[k] # LF
        BY <2>2, <4>1, Control
      <4> HIDE DEF e
      <4> QED
        BY <1>1, <1>10, <4>1, <4>2, ParsedSame
    <3> QED
      BY <1>10, <2>2, <3>1, <3>2
  <2> QED
    BY <1>6, <2>1, <2>2
<1> HIDE DEF e
<1>12. \A k \in Begin' + 1 .. Here' : FALSE
  <2>1. n + offset \in Int
    BY <1>3, <1>10, <1>1, <1>6
  <2> QED
    BY <1>9, <2>1
<1> QED
  BY <1>1, <1>9, <1>11, <1>12 DEF InLine, LastTracked

(* Reads that keep the cuts clean change nothing of this.                  *)
LEMMA ReadKeeps ==
    ASSUME Types, read_next_buffer \/ UNCHANGED ring, Clean',
           UNCHANGED <<input, pointers, headers, lines>>
    PROVE  /\ AtLineEnd => AtLineEnd'
           /\ InLine => InLine'
           /\ AtStart => AtStart'
<1>1. /\ RingOK /\ Good(cur_loc) /\ Good(start_of_line)
      /\ UNCHANGED <<start_of_line, last_semicolon, cur_loc, headers, lines, input>>
  BY DEF Types, pointers
<1>2. /\ stream' = stream /\ HeaderEnd' = HeaderEnd /\ Parsed' = Parsed
  BY <1>1, CleanBefore
<1>3. /\ Here' = Here /\ Begin' = Begin
      /\ cur_loc.circ_index < N => Left(cur_loc)' = Left(cur_loc)
  <2>1. P!Position(cur_loc)' = P!Position(cur_loc)
        /\ (cur_loc.circ_index < N => Left(cur_loc)' = Left(cur_loc))
    BY <1>1, GoodStays
  <2>2. P!Position(start_of_line)' = P!Position(start_of_line)
    BY <1>1, GoodStays
  <2> QED
    BY <2>1, <2>2 DEF Here, Begin
<1>4. AtStart => AtStart'
  BY <1>1 DEF AtStart, P!At
<1>5. ASSUME AtLineEnd
      PROVE  AtLineEnd'
  <2>1. Left(cur_loc) \in Int /\ (Left(cur_loc) > 0 => cur_loc.circ_index < N)
    BY <1>1, Positions
  <2>2. Left(cur_loc)' = Left(cur_loc)
    BY <1>3, <1>5, <2>1 DEF AtLineEnd
  <2> QED
    BY <1>1, <1>2, <1>3, <1>5, <2>2 DEF AtLineEnd, EndOf
<1>6. ASSUME InLine
      PROVE  InLine'
  <2>1. LastTracked'
    <3>1. CASE \A k \in Begin + 1 .. Here : stream[k] # COLON
      BY <1>2, <1>3, <3>1 DEF LastTracked
    <3>2. CASE /\ Good(last_semicolon) /\ AtColon
               /\ NotAfter(start_of_line, last_semicolon)
               /\ \A k \in P!Position(last_semicolon) + 2 .. Here : stream[k] # COLON
      <4>1. /\ Good(last_semicolon)'
            /\ P!Position(last_semicolon)' = P!Position(last_semicolon)
            /\ last_semicolon.circ_index < N
                  => Left(last_semicolon)' = Left(last_semicolon)
        BY <1>1, <3>2, GoodStays
      <4>2. Left(last_semicolon)' = Left(last_semicolon)
        BY <1>1, <3>2, <4>1, Positions DEF AtColon
      <4>3. AtColon' /\ NotAfter(start_of_line, last_semicolon)'
        BY <1>1, <1>2, <3>2, <4>1, <4>2 DEF AtColon, Before, NotAfter
      <4> QED
        BY <1>2, <1>3, <3>2, <4>1, <4>3 DEF LastTracked
    <3> QED
      BY <1>6, <3>1, <3>2 DEF InLine, LastTracked
  <2> QED
    BY <1>1, <1>2, <1>3, <1>6, <2>1 DEF InLine
<1> QED
  BY <1>4, <1>5, <1>6

LEMMA AdvanceKeeps ==
    ASSUME Types, Fed, LookedAhead, Clean, InLine, Advance
    PROVE  InLine'
<1> DEFINE next == op_add_1(cur_loc)
<1>1. /\ Judges /\ ~is_ptr_pointing_to_eol_or_eos /\ Here < HeaderEnd
      /\ UNCHANGED <<input, ring, start_of_line, headers, lines>>
      /\ cur_loc' = next
      /\ last_semicolon' = IF get_char(cur_loc) = COLON THEN cur_loc ELSE last_semicolon
      /\ pc \in {"skip", "scan", "judge"}
  BY DEF Advance, InLine, results, Judges
<1>2. /\ RingOK /\ Good(cur_loc) /\ Good(start_of_line) /\ Here \in Nat
      /\ NotAfter(start_of_line, cur_loc) /\ Left(cur_loc) \in Int
      /\ input \in Inputs /\ stream \in WellFormed /\ Here + 1 \in 1 .. HeaderEnd
  BY <1>1, InHeader DEF Types
<1>3. stream[Here + 1] \notin {LF, CR}
      /\ (get_char(cur_loc) = COLON <=> stream[Here + 1] = COLON)
  BY <1>1, EndFound
<1>4. /\ Good(next) /\ Before(cur_loc, next) /\ P!Position(next) = Here + 1
      /\ cur_loc \in Pointer /\ next \in Pointer /\ start_of_line \in Pointer
  BY <1>1, <1>2, LineNotEnded, OneFurther DEF Ahead, Here, Good
<1>5. /\ HeaderEnd \in Nat /\ stream[HeaderEnd] = LF
  BY <1>2, WholeHeader
<1> HIDE DEF next
<1>6. /\ stream' = stream /\ HeaderEnd' = HeaderEnd /\ Parsed' = Parsed
      /\ Here' = Here + 1 /\ Begin' = Begin
  BY <1>1, <1>4 DEF stream, HeaderEnd, Parsed, Here, Begin, ring, P!Position
<1>7. Here + 1 < HeaderEnd
  BY <1>2, <1>3, <1>5
<1>8. Begin \in Nat /\ Begin <= Here
  BY <1>2, Positions, InOrder DEF Begin, Here
<1>9. ASSUME NEW k \in Begin + 1 .. Here + 1
      PROVE  k \in Begin + 1 .. Here \/ k = Here + 1
  BY <1>2, <1>8
<1>10. \A k \in Begin' + 1 .. Here' : stream'[k] \notin {LF, CR}
  BY <1>3, <1>6, <1>9 DEF InLine
<1>11. LastTracked'
  <2>1. CASE get_char(cur_loc) = COLON
    <3>1. Quiet
      BY DEF Clean, Quiet
    <3>2. Left(cur_loc) > 0 /\ stream[Here + 1] = COLON
      BY <1>2, <1>3, <2>1, <3>1, Chars, Control
    <3>3. last_semicolon' = cur_loc
      BY <1>1, <2>1
    <3>4. /\ Good(last_semicolon)' /\ P!Position(last_semicolon)' = Here
          /\ Left(last_semicolon)' = Left(cur_loc)
      BY <1>1, <1>2, <3>3, GoodStays DEF ring, Left, P!Position, Here
    <3>5. AtColon' /\ NotAfter(start_of_line, last_semicolon)'
      BY <1>1, <1>2, <1>4, <1>6, <3>2, <3>3, <3>4 DEF AtColon, Before, NotAfter
    <3>6. \A k \in P!Position(last_semicolon)' + 2 .. Here' : FALSE
      BY <1>2, <1>6, <3>4
    <3> QED
      BY <3>4, <3>5, <3>6 DEF LastTracked
  <2>2. CASE get_char(cur_loc) # COLON
    <3>1. last_semicolon' = last_semicolon /\ stream[Here + 1] # COLON
      BY <1>1, <1>3, <2>2
    <3>2. CASE \A k \in Begin + 1 .. Here : stream[k] # COLON
      BY <1>6, <1>9, <3>1, <3>2 DEF LastTracked
    <3>3. CASE /\ Good(last_semicolon) /\ AtColon
               /\ NotAfter(start_of_line, last_semicolon)
               /\ \A k \in P!Position(last_semicolon) + 2 .. Here : stream[k] # COLON
      <4>1. /\ Good(last_semicolon)' /\ P!Position(last_semicolon)' = P!Position(last_semicolon)
            /\ Left(last_semicolon)' = Left(last_semicolon)
        BY <1>1, <1>2, <3>1, <3>3, GoodStays DEF ring, Left, P!Position
      <4>2. Before(last_semicolon, next)
        BY <1>4, <3>3, Between DEF AtColon, Good
      <4>3. AtColon' /\ NotAfter(start_of_line, last_semicolon)'
        BY <1>1, <1>6, <3>1, <3>3, <4>1, <4>2 DEF AtColon, Before, NotAfter
      <4>4. ASSUME NEW k \in P!Position(last_semicolon)' + 2 .. Here'
            PROVE  stream'[k] # COLON
        <5>1. P!Position(last_semicolon) \in Nat
          BY <1>2, <3>3, Positions
        <5>2. k \in P!Position(last_semicolon) + 2 .. Here \/ k = Here + 1
          BY <1>2, <1>6, <4>1, <5>1
        <5> QED
          BY <1>6, <3>1, <3>3, <5>2
      <4> QED
        BY <4>1, <4>3, <4>4 DEF LastTracked
    <3> QED
      BY <3>2, <3>3 DEF InLine, LastTracked
  <2> QED
    BY <2>1, <2>2
<1> QED
  BY <1>1, <1>6, <1>7, <1>10, <1>11 DEF InLine

LEMMA FirstLineKeeps ==
    ASSUME Types, Fed, LookedAhead, Clean, InLine, FirstLine
    PROVE  AtLineEnd'
<1> DEFINE e == EndOf(Here)
<1>1. /\ LineRead /\ lines = 0 /\ UNCHANGED <<input, ring, pointers, headers>>
  BY DEF FirstLine, results
<1>2. Begin = 0 /\ headers = Parsed[0]
  BY <1>1 DEF InLine
<1>3. input \in Inputs /\ stream \in WellFormed
  BY DEF Types, RingOK, Clean
<1>4. /\ Left(cur_loc) >= 1 /\ stream[Here + 1] \in {LF, CR}
      /\ stream[Here + 1] = CR => Left(cur_loc) >= 2 /\ stream[Here + 2] = LF
      /\ e <= HeaderEnd /\ e \in Nat /\ Here \in Nat /\ Here < e
      /\ LineStart(stream, e) = 0
      /\ e < HeaderEnd => Parsed[e - 1] = Parsed[0]
  BY <1>1, <1>2, LineAtEnd
<1> HIDE DEF e
<1>5. HeaderEnd \in Nat /\ HeaderEnd \in Blanks(stream)
  BY <1>3, WholeHeader
<1>6. e # HeaderEnd
  BY <1>4, <1>5 DEF Blanks
<1>7. e \in 1 .. HeaderEnd - 1 /\ e < HeaderEnd
  BY <1>4, <1>5, <1>6
<1>8. Parsed[e] = Parsed[0]
  <2>1. ~Recorded(stream, e)
    BY <1>4 DEF Recorded
  <2> QED
    BY <1>3, <1>4, <1>7, <2>1, ParsedLoop
<1>9. /\ Here' = Here /\ stream' = stream /\ HeaderEnd' = HeaderEnd /\ Parsed' = Parsed
      /\ Left(cur_loc)' = Left(cur_loc) /\ headers' = headers
  BY <1>1 DEF Here, stream, HeaderEnd, Parsed, Left, ring, pointers, P!Position
<1>10. EndOf(Here)' = e
  BY <1>9 DEF EndOf, e
<1> QED
  BY <1>2, <1>4, <1>7, <1>8, <1>9, <1>10 DEF AtLineEnd

-----------------------------------------------------------------------------
(* The lines of headers.                                                   *)

LEMMA LengthOfLine ==
    ASSUME Types, Fed, Clean, InLine, LineRead
    PROVE  header_strlen = Here - Begin
<1> DEFINE p == start_of_line
           q == cur_loc
           j == q.circ_index
<1>1. /\ pc \in {"skip", "scan", "judge"} /\ Here < HeaderEnd
  BY DEF LineRead, Judges, InLine
<1>2. /\ RingOK /\ Good(p) /\ Good(q) /\ NotAfter(p, q) /\ N \in Nat /\ N >= 1
      /\ input \in Inputs /\ stream \in WellFormed /\ Here \in Nat
      /\ j \in P!Entries /\ j < N
  BY <1>1, InHeader DEF Types
<1>3. /\ HeaderEnd \in Nat /\ HeaderEnd <= Len(stream) /\ Len(stream) \in Nat
      /\ P!Entries \subseteq Nat
  BY <1>2, WholeHeader, CapOne
<1>4. /\ p.circ_index \in P!Entries /\ p.circ_index < N /\ p.buff_pos \in Int
      /\ q.buff_pos \in Nat /\ q.buff_pos \in Int /\ p.circ_index <= j
      /\ Here = start[j] + q.buff_pos /\ start[j] \in Nat
  <2>1. /\ p.circ_index \in P!Entries /\ p.buff_pos \in Int /\ q.buff_pos \in Nat
        /\ p.circ_index < N \/ p.circ_index = 0
    BY <1>2 DEF Good, Pointer
  <2>2. p.circ_index <= j
    <3>1. NotAfter(p, q) /\ p.circ_index \in Nat /\ j \in Nat
      BY <1>2, <1>3, <2>1
    <3> QED
      BY <3>1 DEF NotAfter
  <2>3. Here = start[j] + q.buff_pos /\ start[j] \in Nat
    BY <1>2, Positions DEF Here
  <2> HIDE DEF p, q, j
  <2>4. p.circ_index < N /\ q.buff_pos \in Int
    BY <1>2, <2>1
  <2> QED
    BY <2>1, <2>2, <2>3, <2>4
<1>5. ASSUME NEW i \in P!Entries, i < j
      PROVE  data_sizes[i] >= 0
  <2> SUFFICES ASSUME ~(data_sizes[i] >= 0) PROVE FALSE
    OBVIOUS
  <2>1. i < N /\ i \in Nat /\ data_sizes[i] \in -1 .. MaxChunk /\ MaxChunk \in Nat
    <3>1. i < N /\ i \in Nat
      <4> HIDE DEF j
      <4>1. i \in Nat /\ j \in Nat
        BY <1>2, <1>3
      <4> QED
        BY <1>2, <1>5, <4>1
    <3>2. data_sizes[i] \in -1 .. MaxChunk /\ MaxChunk \in Nat
      BY <1>2, ParserAssumption DEF RingOK
    <3> QED
      BY <3>1, <3>2
  <2>2. data_sizes[i] <= 0 /\ ~(data_sizes[i] > 0)
    BY <2>1
  <2>3. start[i] = Len(stream) /\ StopOf(i) <= start[j]
    BY <1>2, <1>5, <2>1, <2>2 DEF RingOK
  <2>4. StopOf(i) = Len(stream)
    BY <1>3, <2>2, <2>3 DEF StopOf, Extent
  <2> QED
    BY <1>1, <1>3, <1>4, <2>3, <2>4
<1>6. /\ Q!Numeric /\ Q!Contiguous
      /\ p.circ_index \in Q!Held /\ j \in Q!Held
      /\ Q!Rank(p.circ_index) <= Q!Rank(j)
      /\ \A i \in Q!Held : Q!Rank(i) < Q!Rank(j) => data_sizes[i] >= 0
  BY <1>2, <1>4, <1>5, RingSeen
<1> HIDE DEF p, q
<1>7. Q!op_distance_circ_pointers(p, q) = Q!Position(q) - Q!Position(p)
  BY <1>4, <1>6, RingAssumptions, Q!DistanceRuns
<1>8. P!op_distance_circ_pointers(p, q) = P!Position(q) - P!Position(p)
  BY <1>7, SameRing
<1> QED
  BY <1>8 DEF header_strlen, Here, Begin, p, q

(* A line that is not empty is a header with one colon, behind the key,    *)
(* and last_semicolon points to it.                                        *)
LEMMA HeaderFound ==
    ASSUME Types, Fed, LookedAhead, Clean, InLine, LineRead, lines > 0, Begin < Here
    PROVE  /\ stream[Begin] = LF /\ EndOf(Here) < HeaderEnd
           /\ Good(last_semicolon) /\ AtColon /\ ColonAfterStart > 0
           /\ P!Position(last_semicolon) \in Begin + 1 .. Here - 1
           /\ \A k \in Begin + 1 .. Here :
                 stream[k] = COLON <=> k = P!Position(last_semicolon) + 1
<1> DEFINE e == EndOf(Here)
           ls == last_semicolon
           c == P!Position(ls) + 1
<1>1. /\ input \in Inputs /\ stream \in WellFormed /\ RingOK
      /\ Good(cur_loc) /\ Good(start_of_line)
  BY DEF Types, RingOK, Clean
<1>2. /\ HeaderEnd \in Nat /\ HeaderEnd \in Blanks(stream)
      /\ \A n \in Feeds(stream) :
            0 < LineStart(stream, n) /\ n < HeaderEnd => OneColon(stream, n)
  BY <1>1, WholeHeader
<1>3. /\ e \in Feeds(stream) /\ e <= HeaderEnd /\ e \in Nat /\ Here \in Nat /\ Begin \in Nat
      /\ Here < HeaderEnd
      /\ Begin = 0 \/ stream[Begin] = LF
            => LineStart(stream, e) = Begin /\ TextEnd(stream, e) = Here
  BY LineAtEnd DEF InLine
<1>4. stream[Begin] = LF /\ Begin > 0
  BY <1>2, <1>3 DEF InLine
<1>5. LineStart(stream, e) = Begin /\ TextEnd(stream, e) = Here
  BY <1>3, <1>4
<1> HIDE DEF e
<1>6. e < HeaderEnd
  <2>1. e # HeaderEnd
    BY <1>2, <1>3, <1>5 DEF Blanks
  <2> QED
    BY <1>2, <1>3, <2>1
<1>7. PICK m \in Begin + 2 .. Here :
         \A k \in Begin + 1 .. Here : stream[k] = COLON <=> k = m
  <2>1. OneColon(stream, e)
    BY <1>2, <1>3, <1>4, <1>5, <1>6
  <2> QED
    BY <1>5, <2>1 DEF OneColon
<1>8. m \in Begin + 1 .. Here /\ stream[m] = COLON
  BY <1>3, <1>7
<1>9. /\ Good(ls) /\ AtColon /\ NotAfter(start_of_line, ls)
      /\ \A k \in P!Position(ls) + 2 .. Here : stream[k] # COLON
  BY <1>8 DEF InLine, LastTracked
<1>10. /\ c - 1 \in Nat /\ c \in Nat /\ stream[c] = COLON /\ Begin <= c - 1 /\ c <= Here
       /\ P!Position(ls) = c - 1
  <2>1. /\ P!Position(ls) \in Nat /\ stream[c] = COLON /\ Begin <= P!Position(ls)
        /\ Left(ls) > 0 /\ Left(ls) \in Int
    BY <1>1, <1>9, Positions, InOrder DEF Begin, AtColon
  <2>2. c <= Here
    <3>1. /\ ls.circ_index \in P!Entries /\ ls.buff_pos + 1 <= Extent(ls.circ_index)
          /\ ls.buff_pos \in Nat /\ 1 \in Nat /\ ls.circ_index \in Nat
          /\ cur_loc.buff_pos \in Nat /\ cur_loc.circ_index \in Nat
      <4>1. /\ ls.circ_index \in P!Entries /\ ls.buff_pos \in Nat /\ ls.circ_index \in Nat
            /\ cur_loc.buff_pos \in Nat /\ cur_loc.circ_index \in Nat
            /\ data_sizes[ls.circ_index] \in Int
        BY <1>1, <1>9, Positions DEF Good, Pointer
      <4> QED
        BY <2>1, <4>1 DEF Extent, Left
    <3>2. Good(After(ls, 1)) /\ P!Position(After(ls, 1)) = c
          /\ After(ls, 1).circ_index = ls.circ_index
          /\ After(ls, 1).buff_pos = ls.buff_pos + 1
      BY <1>1, <1>9, <3>1, Afters
    <3>3. NotAfter(After(ls, 1), cur_loc)
      BY <1>9, <3>1, <3>2 DEF AtColon, Before, NotAfter
    <3> QED
      BY <1>1, <3>2, <3>3, InOrder DEF Here
  <2> HIDE DEF c
  <2> QED
    BY <2>1, <2>2 DEF c
<1> HIDE DEF c
<1>11. c = m
  <2>1. c \in Begin + 1 .. Here
    BY <1>3, <1>10
  <2> QED
    BY <1>7, <1>10, <2>1
<1>12. ColonAfterStart > 0
  <2>1. /\ ls.circ_index \in Nat /\ start_of_line.circ_index \in Nat /\ N \in Nat
        /\ ls.buff_pos \in Nat /\ start_of_line.buff_pos \in Nat
        /\ P!Position(ls) = start[ls.circ_index] + ls.buff_pos
        /\ Begin = start[start_of_line.circ_index] + start_of_line.buff_pos
        /\ start[ls.circ_index] \in Nat /\ start[start_of_line.circ_index] \in Nat
    BY <1>1, <1>9, Positions DEF Begin
  <2>2. Begin < P!Position(ls)
    BY <1>3, <1>7, <1>10, <1>11
  <2>3. ColonAfterStart = IF ls.circ_index = start_of_line.circ_index
                          THEN ls.buff_pos - start_of_line.buff_pos
                          ELSE ls.circ_index - start_of_line.circ_index
    BY <1>1, <2>1, Compares DEF ColonAfterStart
  <2> QED
    BY <1>9, <2>1, <2>2, <2>3 DEF NotAfter
<1>13. P!Position(ls) \in Begin + 1 .. Here - 1
  BY <1>3, <1>7, <1>10, <1>11
<1>14. P!Position(ls) + 1 = m
  BY <1>10, <1>11
<1> QED
  BY <1>4, <1>6, <1>7, <1>9, <1>12, <1>13, <1>14 DEF e

LEMMA HeaderCopied ==
    ASSUME Types, Fed, LookedAhead, Clean, InLine, LineRead, lines > 0, Begin < Here
    PROVE  /\ [key |-> Key, value |-> copy(ValueStart, cur_loc)]
                = RefHeader(stream, EndOf(Here))
           /\ ValueInLine
<1> DEFINE e == EndOf(Here)
           b == Begin
           n == Here
           ls == last_semicolon
           c == P!Position(ls) + 1
           v == P!Position(ValueStart)
           i == ValueStart.circ_index
           colons == {k \in LineStart(stream, e) + 1 .. TextEnd(stream, e) : stream[k] = COLON}
           text == {k \in Min(colons) + 1 .. TextEnd(stream, e) : stream[k] # SP}
                     \union {TextEnd(stream, e) + 1}
<1>1. /\ input \in Inputs /\ stream \in WellFormed /\ RingOK
      /\ Good(cur_loc) /\ Good(start_of_line) /\ Quiet
  BY DEF Types, RingOK, Clean, Quiet
<1>2. /\ e \in Nat /\ n \in Nat /\ b \in Nat /\ n < HeaderEnd
      /\ Good(ls) /\ AtColon /\ ColonAfterStart > 0
      /\ P!Position(ls) \in b + 1 .. n - 1
      /\ \A k \in b + 1 .. n : stream[k] = COLON <=> k = c
      /\ LineStart(stream, e) = b /\ TextEnd(stream, e) = n
  BY HeaderFound, LineAtEnd DEF InLine
<1>3. /\ Good(ValueStart) /\ NotAfter(ValueStart, cur_loc)
      /\ i = ls.circ_index
      /\ v > P!Position(ls)
      /\ \A k \in P!Position(ls) + 2 .. v : stream[k] = SP
      /\ Left(ValueStart) > 0 => stream[v + 1] # SP
  BY <1>1, <1>2, ValueBegins
<1>0. \A k \in 1 .. n : stream[k] # NUL
  <2>1. HeaderEnd \in Nat /\ \A k \in 1 .. HeaderEnd : stream[k] # NUL
    BY <1>1, WholeHeader
  <2> HIDE DEF n
  <2> QED
    BY <1>2, <2>1
<1>4. /\ N # 0 /\ Key = SubSeq(stream, b + 1, c - 1)
  <2>0. \A k \in b + 1 .. P!Position(ls) : stream[k] # NUL
    <3>1. b \in Nat
      BY <1>1, Positions DEF Begin
    <3> HIDE DEF b, n, ls
    <3> QED
      BY <1>0, <1>2, <3>1
  <2>1. /\ N # 0 /\ Key = SubSeq(stream, b + 1, P!Position(ls))
    BY <1>2, <2>0, KeyText DEF Begin
  <2>2. c - 1 = P!Position(ls)
    BY <1>2
  <2> QED
    BY <2>1, <2>2
<1>5. /\ copy(ValueStart, cur_loc) = SubSeq(stream, v + 1, n) /\ v <= n /\ v \in Nat
  <2>1. v <= n /\ v \in Nat
    BY <1>1, <1>3, InOrder, Positions DEF Here
  <2>2. \A k \in v + 1 .. n : stream[k] # NUL
    <3> HIDE DEF v, n
    <3> QED
      BY <1>0, <1>2, <2>1
  <2> QED
    BY <1>1, <1>3, <1>4, <2>1, <2>2, CopyText DEF Here
<1>6. Min(colons) = c
  <2>1. c \in colons
    BY <1>2
  <2>2. \A k \in colons : c <= k
    BY <1>2
  <2>3. colons \in SUBSET Nat
    BY <1>2
  <2> HIDE DEF colons
  <2> QED
    BY <2>1, <2>2, <2>3, LeastIs
<1>7. v < n => stream[v + 1] # SP
  <2> SUFFICES ASSUME v < n, ~(Left(ValueStart) > 0) PROVE stream[v + 1] # SP
    BY <1>3
  <2>1. /\ i \in P!Entries /\ i \in Nat /\ N \in Nat
        /\ Left(ValueStart) \in Int /\ data_sizes[i] \in Int
        /\ ValueStart.buff_pos \in Nat /\ start[i] \in Nat
        /\ ValueStart.buff_pos <= Extent(i)
        /\ v = start[i] + ValueStart.buff_pos
    BY <1>1, <1>3, Positions DEF Good, Pointer
  <2>2. data_sizes[i] > 0 /\ i < N
    <3>1. Left(ls) > 0
      BY <1>2 DEF AtColon
    <3>2. ls.circ_index < N /\ ls.buff_pos \in Nat
      BY <1>1, <1>2, <3>1, Positions
    <3> HIDE DEF i
    <3> QED
      BY <1>3, <2>1, <3>1, <3>2 DEF Left
  <2>3. StopOf(i) = v
    <3>1. Left(ValueStart) = data_sizes[i] - ValueStart.buff_pos
      BY DEF Left
    <3> HIDE DEF i, v
    <3> QED
      BY <2>1, <2>2, <3>1 DEF StopOf, Extent
  <2>4. v < received /\ v < HeaderEnd
    <3>1. n <= received /\ received \in Nat /\ HeaderEnd \in Nat
      BY <1>1, Positions, WholeHeader DEF Here, RingOK
    <3> QED
      BY <1>2, <1>5, <3>1
  <2> HIDE DEF i, v
  <2>5. stream[StopOf(i) + 1] \notin {LF, CR, COLON, SP}
    BY <1>1, <2>1, <2>2, <2>3, <2>4, NextChunk
  <2> QED
    BY <2>3, <2>5
<1>8. Min(text) = v + 1
  <2> HIDE DEF colons, e, v, b, n
  <2>1. c \in Nat /\ v >= c /\ n \in Nat /\ v \in Nat /\ v <= n
    BY <1>2, <1>3, <1>5
  <2>2. v + 1 \in text
    BY <1>2, <1>6, <1>7, <2>1
  <2>3. ASSUME NEW k \in text
        PROVE  v + 1 <= k
    <3>1. k = n + 1 \/ (k \in c + 1 .. n /\ stream[k] # SP)
      BY <1>2, <1>6
    <3>2. k \in c + 1 .. n /\ stream[k] # SP => ~(k <= v)
      <4>1. \A j \in c + 1 .. v : stream[j] = SP
        BY <1>2, <1>3
      <4> HIDE DEF c
      <4> QED
        BY <2>1, <4>1
    <3> HIDE DEF c
    <3> QED
      BY <2>1, <3>1, <3>2
  <2>4. text \in SUBSET Nat
    BY <1>2, <1>6, <2>1
  <2> HIDE DEF text
  <2> QED
    BY <2>2, <2>3, <2>4, LeastIs
<1>9. RefHeader(stream, e) = [key |-> SubSeq(stream, b + 1, c - 1),
                             value |-> SubSeq(stream, v + 1, n)]
  <2>1. RefHeader(stream, e) = [key |-> SubSeq(stream, LineStart(stream, e) + 1, Min(colons) - 1),
                               value |-> SubSeq(stream, Min(text), TextEnd(stream, e))]
    BY DEF RefHeader
  <2> HIDE DEF colons, text, e, v, b, n, c
  <2> QED
    BY <1>2, <1>6, <1>8, <2>1
<1>10. ValueInLine
  <2>1. /\ ValueStart.circ_index \in Nat /\ ValueStart.buff_pos \in Nat
        /\ cur_loc.circ_index \in Nat /\ cur_loc.buff_pos \in Nat /\ N \in Nat
    BY <1>1, <1>3, Positions
  <2> QED
    BY <1>1, <1>3, <2>1, Compares DEF ValueInLine, NotAfter
<1> QED
  BY <1>4, <1>5, <1>9, <1>10

LEMMA AddKeeps ==
    ASSUME Types, Fed, LookedAhead, Clean, InLine, http_headers_add
    PROVE  AtLineEnd'
<1> DEFINE e == EndOf(Here)
           h == [key |-> Key, value |-> copy(ValueStart, cur_loc)]
<1>1. /\ LineRead /\ lines > 0 /\ header_strlen > 0
      /\ UNCHANGED <<input, ring, cur_loc>>
      /\ headers' = IF h.key \in KnownKeys THEN Append(headers, h) ELSE headers
  BY DEF http_headers_add, HeaderLine
<1>2. header_strlen = Here - Begin
  BY <1>1, LengthOfLine
<1>3. /\ Left(cur_loc) >= 1 /\ stream[Here + 1] \in {LF, CR}
      /\ stream[Here + 1] = CR => Left(cur_loc) >= 2 /\ stream[Here + 2] = LF
      /\ e \in Feeds(stream) /\ e \in Nat /\ Here \in Nat /\ Begin \in Nat /\ Here < e
      /\ Begin = 0 \/ stream[Begin] = LF => LineStart(stream, e) = Begin
      /\ e < HeaderEnd => Parsed[e - 1] = Parsed[Begin]
      /\ headers = Parsed[Begin]
  BY <1>1, LineAtEnd DEF InLine
<1>4. Begin < Here
  BY <1>1, <1>2, <1>3
<1>5. e < HeaderEnd /\ stream[Begin] = LF /\ h = RefHeader(stream, e)
  BY <1>1, <1>4, HeaderFound, HeaderCopied
<1> HIDE DEF e, h
<1>6. LineStart(stream, e) > 0
  <2>1. Begin > 0
    BY <1>1 DEF InLine
  <2> QED
    BY <1>3, <1>5, <2>1
<1>7. input \in Inputs /\ stream \in WellFormed
  BY DEF Types, RingOK, Clean
<1>8. HeaderEnd \in Nat /\ e \in 1 .. HeaderEnd - 1
  <2>1. HeaderEnd \in Nat
    BY <1>7, WholeHeader
  <2> QED
    BY <1>3, <1>5, <2>1
<1>9. headers' = Parsed[e]
  <2>1. Parsed[e] = IF Recorded(stream, e)
                    THEN Append(Parsed[e - 1], RefHeader(stream, e)) ELSE Parsed[e - 1]
    BY <1>7, <1>8, ParsedLoop
  <2>2. Recorded(stream, e) <=> h.key \in KnownKeys
    BY <1>3, <1>5, <1>6 DEF Recorded
  <2> QED
    BY <1>1, <1>3, <1>5, <2>1, <2>2
<1>10. /\ Here' = Here /\ stream' = stream /\ HeaderEnd' = HeaderEnd /\ Parsed' = Parsed
       /\ Left(cur_loc)' = Left(cur_loc)
  BY <1>1 DEF Here, stream, HeaderEnd, Parsed, Left, ring, P!Position
<1>11. EndOf(Here)' = e
  BY <1>10 DEF EndOf, e
<1> QED
  BY <1>3, <1>5, <1>9, <1>10, <1>11 DEF AtLineEnd

LEMMA DecodedWhole ==
    ASSUME Types, Fed, LookedAhead, Clean, InLine, HeaderDecoded
    PROVE  headers = RefHeaders
<1> DEFINE e == EndOf(Here)
<1>1. /\ LineRead /\ lines > 0 /\ (header_strlen <= 0 \/ ColonAfterStart = 0)
  BY DEF HeaderDecoded
<1>2. header_strlen = Here - Begin
  BY <1>1, LengthOfLine
<1>3. /\ e \in Feeds(stream) /\ e \in Nat /\ Here \in Nat /\ Begin \in Nat /\ Here < e
      /\ e <= HeaderEnd /\ Begin <= Here
      /\ \A k \in Begin + 1 .. e - 1 : stream[k] # LF
      /\ Begin = 0 \/ stream[Begin] = LF
            => LineStart(stream, e) = Begin /\ TextEnd(stream, e) = Here
      /\ headers = Parsed[Begin]
      /\ Begin > 0 /\ (stream[Begin] = LF \/ Begin = HeaderEnd - 1)
  BY <1>1, LineAtEnd DEF InLine
<1>4. Begin = Here
  <2> SUFFICES ASSUME Begin < Here PROVE FALSE
    BY <1>3
  <2>1. ColonAfterStart > 0
    BY <1>1, HeaderFound
  <2> QED
    BY <1>1, <1>2, <1>3, <2>1
<1>5. input \in Inputs /\ stream \in WellFormed
  BY DEF Types, RingOK, Clean
<1>6. HeaderEnd \in Nat /\ \A k \in Blanks(stream) : HeaderEnd <= k
  BY <1>5, WholeHeader
<1> HIDE DEF e
<1>7. CASE Begin = HeaderEnd - 1
  BY <1>3, <1>5, <1>7, ParsedLoop
<1>8. CASE stream[Begin] = LF
  <2>1. e \in Blanks(stream)
    BY <1>3, <1>4, <1>8 DEF Blanks
  <2>2. e = HeaderEnd
    BY <1>3, <1>6, <2>1
  <2>3. HeaderEnd - 1 \in Nat /\ Begin <= HeaderEnd - 1 /\ HeaderEnd - 1 <= HeaderEnd - 1
    BY <1>3, <1>6, <2>2
  <2>4. Parsed[HeaderEnd - 1] = Parsed[Begin]
    BY <1>3, <1>5, <2>2, <2>3, ParsedSame
  <2> QED
    BY <1>3, <1>5, <2>4, ParsedLoop
<1> QED
  BY <1>3, <1>7, <1>8

-----------------------------------------------------------------------------
(* All of it.                                                              *)

LEMMA HInvInit == Init => HInv
<1> SUFFICES ASSUME Init PROVE HInv
  OBVIOUS
<1>1. Types
  BY TypesInit
<1>2. /\ pc \in {"line", "read"} /\ lines = 0 /\ AtStart
  BY DEF Init, AtStart
<1> QED
  BY <1>1, <1>2 DEF HInv, Fed, LookedAhead, ParseOK

LEMMA ParseStep ==
    ASSUME HInv, [Next]_vars, Clean'
    PROVE  ParseOK'
<1>1. /\ Types /\ Types' /\ Fed /\ LookedAhead /\ RingOK /\ lines \in Nat
      /\ UNCHANGED input /\ (read_next_buffer \/ UNCHANGED ring)
  BY TypesStep, Steps DEF HInv, Types
<1>2. /\ Clean /\ ParseOK /\ RefHeaders' = RefHeaders
  BY <1>1, CleanBefore DEF HInv
<1>3. ASSUME UNCHANGED <<pointers, headers, lines>>
      PROVE  /\ AtLineEnd => AtLineEnd'
             /\ InLine => InLine'
             /\ AtStart => AtStart'
  BY <1>1, <1>3, ReadKeeps
<1>4. CASE ReadFirst
  <2>1. pc = "read" /\ pc' = "type" /\ UNCHANGED <<pointers, headers, lines>>
    BY <1>4 DEF ReadFirst, results
  <2> QED
    BY <1>2, <1>3, <2>1 DEF ParseOK
<1>5. CASE DecodeType
  <2>1. pc = "type" /\ pc' \in {"read_again", "line"} /\ UNCHANGED <<pointers, headers, lines>>
    BY <1>5 DEF DecodeType
  <2> QED
    BY <1>2, <1>3, <2>1 DEF ParseOK
<1>6. CASE ReadSecond
  <2>1. pc = "read_again" /\ pc' = "line" /\ UNCHANGED <<pointers, headers, lines>>
    BY <1>6 DEF ReadSecond, results
  <2> QED
    BY <1>2, <1>3, <2>1 DEF ParseOK
<1>7. CASE GetNextLine
  <2>1. pc = "line" /\ pc' = "skip" /\ UNCHANGED <<pointers, headers, lines>>
    BY <1>7 DEF GetNextLine, results, pointers
  <2> QED
    BY <1>2, <1>3, <2>1 DEF ParseOK
<1>8. CASE skip_eol_if_present
  <2>1. pc = "skip" /\ pc' = "scan"
    BY <1>8 DEF skip_eol_if_present
  <2>2. InLine'
    <3>1. CASE lines = 0
      BY <1>1, <1>2, <1>8, <2>1, <3>1, SkipFirst DEF ParseOK
    <3>2. CASE lines > 0
      BY <1>1, <1>2, <1>8, <2>1, <3>2, SkipLine DEF ParseOK
    <3> QED
      BY <1>1, <3>1, <3>2
  <2> QED
    BY <2>1, <2>2 DEF ParseOK
<1>9. CASE LookAhead
  <2>1. pc = "scan" /\ pc' = "judge" /\ UNCHANGED <<pointers, headers, lines>>
    BY <1>9 DEF LookAhead, LooksAhead, results, pointers
  <2> QED
    BY <1>2, <1>3, <2>1 DEF ParseOK
<1>10. LineRead \/ Advance => InLine
  BY <1>2 DEF LineRead, Advance, Judges, ParseOK
<1>11. CASE Advance
  <2>1. pc' = "scan"
    BY <1>11 DEF Advance
  <2>2. InLine'
    BY <1>1, <1>2, <1>10, <1>11, AdvanceKeeps
  <2> QED
    BY <2>1, <2>2 DEF ParseOK
<1>12. CASE FirstLine
  <2>1. pc' = "line" /\ lines' = 1 /\ LineRead
    BY <1>12 DEF FirstLine
  <2>2. AtLineEnd'
    BY <1>1, <1>2, <1>10, <1>12, <2>1, FirstLineKeeps
  <2> QED
    BY <2>1, <2>2 DEF ParseOK
<1>13. CASE AddOutOfLine
  <2>1. /\ LineRead /\ lines > 0 /\ header_strlen > 0 /\ InLine
        /\ ColonAfterStart < 0 \/ ~ValueInLine
    BY <1>10, <1>13 DEF AddOutOfLine, HeaderLine
  <2>2. header_strlen = Here - Begin /\ Here \in Nat /\ Begin \in Nat
    BY <1>1, <1>2, <2>1, LengthOfLine, LineAtEnd
  <2>3. ColonAfterStart > 0
    BY <1>1, <1>2, <2>1, <2>2, HeaderFound
  <2>4. ColonAfterStart \in Int
    <3>1. Good(last_semicolon)
      BY <1>1, <1>2, <2>1, <2>2, HeaderFound
    <3> QED
      BY <1>1, <3>1, Positions, Compares DEF ColonAfterStart, Types
  <2>5. ValueInLine
    BY <1>1, <1>2, <2>1, <2>2, HeaderCopied
  <2> QED
    BY <2>1, <2>3, <2>4, <2>5
<1>14. CASE http_headers_add
  <2>1. pc' = "line" /\ lines' = 2 /\ LineRead
    BY <1>14 DEF http_headers_add, HeaderLine
  <2>2. AtLineEnd'
    BY <1>1, <1>2, <1>10, <1>14, <2>1, AddKeeps
  <2> QED
    BY <2>1, <2>2 DEF ParseOK
<1>15. CASE HeaderDecoded
  <2>1. pc' = "done" /\ UNCHANGED headers /\ LineRead
    BY <1>15 DEF HeaderDecoded
  <2>2. headers = RefHeaders
    BY <1>1, <1>2, <1>10, <1>15, <2>1, DecodedWhole
  <2> QED
    BY <1>2, <2>1, <2>2 DEF ParseOK
<1>16. CASE UNCHANGED vars
  <2>1. UNCHANGED <<pointers, headers, lines, pc>>
    BY <1>16 DEF vars, results
  <2> QED
    BY <1>2, <1>3, <2>1 DEF ParseOK
<1> QED
  BY <1>4, <1>5, <1>6, <1>7, <1>8, <1>9, <1>11, <1>12, <1>13, <1>14, <1>15, <1>16 DEF Next

LEMMA HInvStep == HInv /\ [Next]_vars => HInv'
<1> SUFFICES ASSUME HInv, [Next]_vars PROVE HInv'
  OBVIOUS
<1>1. Types' /\ Fed' /\ LookedAhead'
  BY TypesStep, FedStep, LookedAheadStep DEF HInv
<1>2. Clean' => ParseOK'
  BY ParseStep
<1> QED
  BY <1>1, <1>2 DEF HInv

LEMMA ParsedSoFar ==
    ASSUME HInv, Clean
    PROVE  \E n \in 0 .. HeaderEnd - 1 : headers = Parsed[n]
<1>1. /\ Types /\ ParseOK /\ input \in Inputs /\ stream \in WellFormed /\ RingOK
      /\ Good(cur_loc) /\ Good(start_of_line) /\ NotAfter(start_of_line, cur_loc)
      /\ lines \in Nat
  BY DEF HInv, Clean, Types, RingOK
<1>2. HeaderEnd \in Nat /\ HeaderEnd > 1
  BY <1>1, WholeHeader
<1>3. Parsed[0] = <<>> /\ RefHeaders = Parsed[HeaderEnd - 1]
  BY <1>1, ParsedLoop
<1>4. CASE AtStart
  BY <1>2, <1>3, <1>4 DEF AtStart
<1>5. CASE AtLineEnd
  <2>1. Here \in Nat
    BY <1>1, Positions DEF Here
  <2>2. EndOf(Here) \in 0 .. HeaderEnd - 1
    BY <1>2, <1>5, <2>1 DEF AtLineEnd, EndOf
  <2> QED
    BY <1>5, <2>2 DEF AtLineEnd
<1>6. CASE InLine
  <2>1. Here \in Nat /\ Begin \in Nat /\ Begin <= Here
    BY <1>1, Positions, InOrder DEF Here, Begin
  <2>2. Begin \in 0 .. HeaderEnd - 1
    BY <1>2, <1>6, <2>1 DEF InLine
  <2> QED
    BY <1>6, <2>2 DEF InLine
<1>7. CASE pc = "done"
  <2>1. HeaderEnd - 1 \in 0 .. HeaderEnd - 1
    BY <1>2
  <2> QED
    BY <1>1, <1>3, <1>7, <2>1 DEF ParseOK
<1>8. lines = 0 \/ lines > 0
  BY <1>1
<1> QED
  BY <1>1, <1>4, <1>5, <1>6, <1>7, <1>8 DEF ParseOK, Types

(* The headers that are recorded are those of the uncut stream, for every  *)
(* well-formed header and all clean cuts of it.                            *)
THEOREM ParsesExactly == Spec => []HeadersExact
<1>1. Init => HInv
  BY HInvInit
<1>2. HInv /\ [Next]_vars => HInv'
  BY HInvStep
<1>3. HInv => HeadersExact
  <2> SUFFICES ASSUME HInv, Clean
               PROVE  /\ IsPrefix(headers, RefHeaders)
                      /\ pc # "fault"
                      /\ pc = "done" => headers = RefHeaders
    BY DEF HeadersExact
  <2>1. ParseOK /\ input \in Inputs /\ stream \in WellFormed
    BY DEF HInv, Clean, Types, RingOK
  <2>2. IsPrefix(headers, RefHeaders)
    BY <2>1, ParsedSoFar, ParsedPrefix
  <2> QED
    BY <2>1, <2>2 DEF ParseOK
<1> QED
  BY <1>1, <1>2, <1>3, PTL DEF Spec

-----------------------------------------------------------------------------
(* The length of a body.                                                   *)

LEMMA IntWraps ==
    /\ MaxInt \in Nat
    /\ \A n \in Int : Wrap(n) \in Int /\ ToInt(n) \in Int
    /\ \A n \in 0 .. MaxInt : Wrap(n) = n /\ ToInt(n) = n
<1>1. MaxInt \in Nat
  BY ParserAssumption DEF MaxInt
<1>2. 2 * (MaxInt + 1) \in Nat \ {0}
  BY <1>1
<1>3. \A a \in Int : a % (2 * (MaxInt + 1)) \in Int
  BY <1>2
<1>4. \A a \in Nat : a < 2 * (MaxInt + 1) => a % (2 * (MaxInt + 1)) = a
  BY <1>2
<1> HIDE DEF MaxInt
<1>5. ASSUME NEW n \in Int
      PROVE  Wrap(n) \in Int /\ ToInt(n) \in Int
  <2>1. (n + MaxInt + 1) % (2 * (MaxInt + 1)) \in Int
    BY <1>1, <1>3
  <2> QED
    BY <1>1, <2>1 DEF Wrap, ToInt
<1>6. ASSUME NEW n \in 0 .. MaxInt
      PROVE  Wrap(n) = n /\ ToInt(n) = n
  <2>1. (n + MaxInt + 1) % (2 * (MaxInt + 1)) = n + MaxInt + 1
    BY <1>1, <1>4
  <2> QED
    BY <1>1, <2>1 DEF Wrap, ToInt
<1> QED
  BY <1>1, <1>5, <1>6

LEMMA PowersLoop ==
    ASSUME NEW n \in Nat
    PROVE  /\ PowersTo(n) \in [0 .. n -> Nat \ {0}]
           /\ PowersTo(n)[0] = 1
           /\ \A e \in 1 .. n : PowersTo(n)[e] = 10 * PowersTo(n)[e - 1]
<1> DEFINE step == [w \in Nat \X (1 .. n) |-> 10 * w[1]]
           Computed(f) == f = [e \in 0 .. n |-> IF e = 0 THEN 1 ELSE 10 * f[e - 1]]
<1>1. step \in [Nat \X (1 .. n) -> Nat]
  OBVIOUS
<1> HIDE DEF step
<1>2. PICK g \in [0 .. n -> Nat] : Q!Computes(g, n, 1, step)
  BY <1>1, RingAssumptions, Q!Loop
<1>3. Computed(g)
  <2>1. ASSUME NEW e \in 0 .. n, e # 0
        PROVE  step[<<g[e - 1], e>>] = 10 * g[e - 1]
    <3>1. e \in 1 .. n /\ e - 1 \in 0 .. n /\ g[e - 1] \in Nat
      BY <2>1
    <3> QED
      BY <3>1 DEF step
  <2>2. \A e \in 0 .. n : g[e] = IF e = 0 THEN 1 ELSE 10 * g[e - 1]
    BY <1>2, <2>1 DEF Q!Computes
  <2> QED
    BY <1>2, <2>2 DEF Q!Computes
<1> DEFINE power == CHOOSE f : Computed(f)
<1>4. Computed(power)
  BY <1>3, Zenon
<1>5. PowersTo(n) = power
  BY Zenon DEF PowersTo
<1> HIDE DEF power
<1>6. power[0] = 1 /\ \A e \in 1 .. n : power[e] = 10 * power[e - 1]
  BY <1>4
<1>7. power \in [0 .. n -> Nat \ {0}]
  <2> DEFINE T == {e \in Nat : e <= n => power[e] \in Nat \ {0}}
  <2>1. 0 \in T
    BY <1>6
  <2>2. ASSUME NEW e \in T
        PROVE  e + 1 \in T
    <3> SUFFICES ASSUME e + 1 <= n
                 PROVE  power[e + 1] \in Nat \ {0}
      OBVIOUS
    <3>1. e + 1 \in 1 .. n /\ (e + 1) - 1 = e /\ power[e] \in Nat \ {0}
      OBVIOUS
    <3> QED
      BY <1>6, <3>1
  <2> HIDE DEF T
  <2>3. T \in SUBSET Nat
    BY DEF T
  <2>4. Nat \subseteq T
    BY <2>1, <2>2, <2>3, RingAssumptions, Q!Induction
  <2>5. \A e \in 0 .. n : power[e] \in Nat \ {0}
    BY <2>4 DEF T
  <2> QED
    BY <1>4, <2>5
<1> QED
  BY <1>5, <1>6, <1>7

LEMMA StringLoop ==
    ASSUME NEW value \in Seq(Byte)
    PROVE  \E res \in [0 .. Len(value) -> Int] :
              /\ res[0] = 0
              /\ \A i \in 1 .. Len(value) :
                    res[i] = Wrap(res[i - 1] + ToInt(PowersTo(Len(value))[Len(value) - i])
                                                 * (value[i] - 48))
              /\ str2int(value) = res[Len(value)]
<1> DEFINE n == Len(value)
           pow == PowersTo(Len(value))
           step == [w \in Int \X (1 .. n) |->
                      Wrap(w[1] + ToInt(pow[n - w[2]]) * (value[w[2]] - 48))]
           Computed(f) == f = [i \in 0 .. Len(value) |->
                                 IF i = 0 THEN 0
                                 ELSE Wrap(f[i - 1] + ToInt(pow[Len(value) - i])
                                                        * (value[i] - 48))]
<1>1. n \in Nat /\ 0 \in Int /\ \A i \in 1 .. n : value[i] - 48 \in Int
  <2>1. n \in Nat /\ \A i \in 1 .. n : value[i] \in Byte
    OBVIOUS
  <2> QED
    BY <2>1, ByteIsInt
<1>2. \A i \in 1 .. n : ToInt(pow[n - i]) \in Int
  <2>1. pow \in [0 .. n -> Nat \ {0}]
    BY <1>1, PowersLoop
  <2>2. ASSUME NEW i \in 1 .. n
        PROVE  pow[n - i] \in Int
    BY <1>1, <2>1
  <2> QED
    BY <2>2, IntWraps
<1> DEFINE term(i) == ToInt(pow[n - i]) * (value[i] - 48)
<1>3. \A i \in 1 .. n : term(i) \in Int
  BY <1>1, <1>2
<1>4. step \in [Int \X (1 .. n) -> Int]
  <2>1. ASSUME NEW w \in Int \X (1 .. n)
        PROVE  Wrap(w[1] + term(w[2])) \in Int
    <3>1. w[1] + term(w[2]) \in Int
      <4>1. w[1] \in Int /\ term(w[2]) \in Int
        BY <1>3
      <4> HIDE DEF term
      <4> QED
        BY <4>1
    <3> HIDE DEF term
    <3> QED
      BY <3>1, IntWraps
  <2> QED
    BY <2>1
<1> HIDE DEF step, pow
<1>5. PICK g \in [0 .. n -> Int] : Q!Computes(g, n, 0, step)
  BY <1>1, <1>4, RingAssumptions, Q!Loop
<1>6. Computed(g)
  <2>1. ASSUME NEW i \in 0 .. n, i # 0
        PROVE  step[<<g[i - 1], i>>] = Wrap(g[i - 1] + term(i))
    <3>1. i \in 1 .. n /\ i - 1 \in 0 .. n /\ g[i - 1] \in Int
      BY <1>1, <2>1
    <3> QED
      BY <3>1 DEF step
  <2>2. \A i \in 0 .. n : g[i] = IF i = 0 THEN 0 ELSE Wrap(g[i - 1] + term(i))
    BY <1>5, <2>1 DEF Q!Computes
  <2> QED
    BY <1>5, <2>2 DEF Q!Computes
<1> DEFINE res == CHOOSE f : Computed(f)
<1>7. Computed(res)
  BY <1>6, Zenon
<1>8. str2int(value) = res[n]
  BY Zenon DEF str2int, pow
<1> HIDE DEF res
<1>9. res[0] = 0 /\ \A i \in 1 .. n : res[i] = Wrap(res[i - 1] + term(i))
  <2>1. 0 \in 0 .. Len(value) /\ \A i \in 1 .. n : i \in 0 .. Len(value) /\ i # 0
    BY <1>1
  <2>2. res[0] = 0
    BY <1>7, <2>1
  <2>3. ASSUME NEW i \in 1 .. n
        PROVE  res[i] = Wrap(res[i - 1] + term(i))
    <3>1. res[i] = IF i = 0 THEN 0
                   ELSE Wrap(res[i - 1] + ToInt(pow[Len(value) - i]) * (value[i] - 48))
      BY <1>7, <2>1, Zenon
    <3> QED
      BY <2>1, <3>1
  <2> QED
    BY <2>2, <2>3
<1>10. res \in [0 .. n -> Int]
  <2> DEFINE T == {i \in Nat : i <= n => res[i] \in Int}
  <2>1. 0 \in T
    BY <1>9
  <2>2. ASSUME NEW i \in T
        PROVE  i + 1 \in T
    <3> SUFFICES ASSUME i + 1 <= n
                 PROVE  res[i + 1] \in Int
      OBVIOUS
    <3>1. i + 1 \in 1 .. n /\ (i + 1) - 1 = i /\ res[i] \in Int
      BY <1>1
    <3>2. term(i + 1) \in Int
      BY <1>3, <3>1
    <3>3. res[i + 1] = Wrap(res[i] + term(i + 1))
      BY <1>9, <3>1
    <3> HIDE DEF term
    <3>4. res[i] + term(i + 1) \in Int
      BY <3>1, <3>2
    <3> QED
      BY <3>3, <3>4, IntWraps
  <2> HIDE DEF T
  <2>3. T \in SUBSET Nat
    BY DEF T
  <2>4. Nat \subseteq T
    BY <2>1, <2>2, <2>3, RingAssumptions, Q!Induction
  <2>5. \A i \in 0 .. n : res[i] \in Int
    BY <1>1, <2>4 DEF T
  <2> QED
    BY <1>7, <2>5
<1> QED
  BY <1>8, <1>9, <1>10 DEF pow

LEMMA Products ==
    ASSUME NEW a \in Nat, NEW p \in Nat, NEW d \in 0 .. 9
    PROVE  /\ a * p \in Nat /\ p * d \in Nat
           /\ (10 * a + d) * p = a * (10 * p) + p * d
           /\ d > 0 => p * d >= p
<1>1. a * p \in Nat /\ p * d \in Nat
  OBVIOUS
<1>2. (10 * a + d) * p = a * (10 * p) + p * d
  OBVIOUS
<1>3. d \in {0, 1, 2, 3, 4, 5, 6, 7, 8, 9}
  OBVIOUS
<1>4. d > 0 => p * d >= p
  BY <1>3
<1> QED
  BY <1>1, <1>2, <1>4

(* A number that an int can hold is decoded without an overflow: a power   *)
(* that does not fit is multiplied by 0.                                   *)
LEMMA DigitsDecoded ==
    ASSUME NEW value \in Seq(48 .. 57), Decimal(value) <= MaxInt
    PROVE  str2int(value) = Decimal(value)
<1> DEFINE n == Len(value)
           digit(i) == value[i] - 48
<1>1. value \in Seq(Byte) /\ n \in Nat
  BY DEF Byte
<1>2. \A i \in 1 .. n : digit(i) \in 0 .. 9
  <2>1. ASSUME NEW i \in 1 .. n
        PROVE  digit(i) \in 0 .. 9
    <3>1. value[i] \in 48 .. 57
      BY <1>1
    <3> QED
      BY <3>1
  <2> QED
    BY <2>1
<1>3. PICK dec \in [0 .. n -> Int] :
         /\ dec[0] = 0
         /\ \A i \in 1 .. n : dec[i] = 10 * dec[i - 1] + value[i] - 48
         /\ Decimal(value) = dec[n]
  BY <1>1, DecimalLoop
<1> DEFINE pow == PowersTo(n)
<1>4. /\ pow \in [0 .. n -> Nat \ {0}] /\ pow[0] = 1
      /\ \A e \in 1 .. n : pow[e] = 10 * pow[e - 1]
  BY <1>1, PowersLoop
<1>5. PICK res \in [0 .. n -> Int] :
         /\ res[0] = 0
         /\ \A i \in 1 .. n : res[i] = Wrap(res[i - 1] + ToInt(pow[n - i]) * digit(i))
         /\ str2int(value) = res[n]
  BY <1>1, StringLoop
<1>6. \A i \in 1 .. n : dec[i] = 10 * dec[i - 1] + digit(i)
  <2>1. ASSUME NEW i \in 1 .. n
        PROVE  dec[i] = 10 * dec[i - 1] + digit(i)
    <3>1. i - 1 \in 0 .. n /\ value[i] \in 48 .. 57 /\ dec[i - 1] \in Int
      BY <1>1
    <3>2. dec[i] = 10 * dec[i - 1] + value[i] - 48
      BY <1>3
    <3> QED
      BY <3>1, <3>2
  <2> QED
    BY <2>1
<1> HIDE DEF pow, digit
<1>7. \A i \in 0 .. n : dec[i] \in Nat
  <2> DEFINE T == {i \in Nat : i <= n => dec[i] \in Nat}
  <2>1. 0 \in T
    BY <1>3
  <2>2. ASSUME NEW i \in T
        PROVE  i + 1 \in T
    <3> SUFFICES ASSUME i + 1 <= n
                 PROVE  dec[i + 1] \in Nat
      OBVIOUS
    <3>1. i + 1 \in 1 .. n /\ (i + 1) - 1 = i /\ dec[i] \in Nat
      BY <1>1
    <3>2. dec[i + 1] = 10 * dec[i] + digit(i + 1) /\ digit(i + 1) \in 0 .. 9
      BY <1>2, <1>6, <3>1
    <3> QED
      BY <3>1, <3>2
  <2> HIDE DEF T
  <2>3. T \in SUBSET Nat
    BY DEF T
  <2>4. Nat \subseteq T
    BY <2>1, <2>2, <2>3, RingAssumptions, Q!Induction
  <2> QED
    BY <1>1, <2>4 DEF T
(* What the digits so far add to the number. *)
<1> DEFINE sum(i) == dec[i] * pow[n - i]
<1>8. ASSUME NEW i \in 1 .. n
      PROVE  /\ sum(i) \in Nat /\ sum(i - 1) \in Nat /\ pow[n - i] \in Nat
             /\ pow[n - i] * digit(i) \in Nat
             /\ sum(i) = sum(i - 1) + pow[n - i] * digit(i)
             /\ digit(i) > 0 => pow[n - i] * digit(i) >= pow[n - i]
  <2>1. /\ i - 1 \in 0 .. n /\ n - i \in 0 .. n /\ n - (i - 1) \in 1 .. n
        /\ (n - (i - 1)) - 1 = n - i
    BY <1>1
  <2>2. dec[i - 1] \in Nat /\ dec[i] \in Nat /\ pow[n - i] \in Nat /\ digit(i) \in 0 .. 9
    <3>1. i \in 0 .. n
      BY <1>1
    <3>2. dec[i - 1] \in Nat /\ dec[i] \in Nat
      BY <1>7, <2>1, <3>1
    <3>3. pow[n - i] \in Nat
      BY <1>4, <2>1
    <3> QED
      BY <1>2, <3>2, <3>3
  <2>3. pow[n - (i - 1)] = 10 * pow[n - i] /\ dec[i] = 10 * dec[i - 1] + digit(i)
    BY <1>4, <1>6, <2>1
  <2>4. 10 * pow[n - i] \in Nat
    BY <2>2
  <2>5. dec[i] * pow[n - i] \in Nat /\ dec[i - 1] * (10 * pow[n - i]) \in Nat
    BY <2>2, <2>4, Products
  <2>6. dec[i] * pow[n - i] = dec[i - 1] * (10 * pow[n - i]) + pow[n - i] * digit(i)
    <3>1. (10 * dec[i - 1] + digit(i)) * pow[n - i]
            = dec[i - 1] * (10 * pow[n - i]) + pow[n - i] * digit(i)
      BY <2>2, Products
    <3> QED
      BY <2>3, <3>1
  <2>7. /\ pow[n - i] * digit(i) \in Nat
        /\ digit(i) > 0 => pow[n - i] * digit(i) >= pow[n - i]
    BY <2>2, Products
  <2> QED
    BY <2>2, <2>3, <2>5, <2>6, <2>7
<1>9. sum(0) = 0 /\ sum(n) = Decimal(value)
  <2>1. n - 0 = n /\ n - n = 0 /\ n \in 0 .. n /\ dec[n] \in Nat /\ pow[n] \in Nat
    BY <1>1, <1>4, <1>7
  <2> QED
    BY <1>3, <1>4, <2>1
<1> HIDE DEF sum
<1>10. \A i \in 0 .. n : sum(i) \in Nat
  <2>1. ASSUME NEW i \in 0 .. n, i # 0
        PROVE  sum(i) \in Nat
    <3>1. i \in 1 .. n
      BY <1>1, <2>1
    <3> QED
      BY <1>8, <3>1
  <2> QED
    BY <1>9, <2>1
<1>11. \A i \in 0 .. n : sum(i) <= MaxInt
  <2> DEFINE T == {k \in Nat : k <= n => \A i \in 0 .. k : sum(i) <= sum(k)}
  <2>1. 0 \in T
    BY <1>9
  <2>2. ASSUME NEW k \in T
        PROVE  k + 1 \in T
    <3> SUFFICES ASSUME k + 1 <= n, NEW i \in 0 .. k + 1
                 PROVE  sum(i) <= sum(k + 1)
      OBVIOUS
    <3>1. k + 1 \in 1 .. n /\ (k + 1) - 1 = k /\ k \in 0 .. n /\ i \in 0 .. n
      BY <1>1
    <3>2. sum(k) <= sum(k + 1)
      <4> DEFINE j == k + 1
      <4>1. j \in 1 .. n /\ j - 1 = k
        BY <3>1
      <4> HIDE DEF j
      <4>2. /\ sum(j) \in Nat /\ sum(j - 1) \in Nat /\ pow[n - j] * digit(j) \in Nat
            /\ sum(j) = sum(j - 1) + pow[n - j] * digit(j)
        BY <1>8, <4>1
      <4>3. sum(k) <= sum(j)
        BY <4>1, <4>2
      <4> QED
        BY <4>3 DEF j
    <3>3. CASE i = k + 1
      BY <1>10, <3>1, <3>3
    <3>4. CASE i # k + 1
      <4>1. i \in 0 .. k /\ k <= n
        BY <1>1, <3>4
      <4>2. sum(i) <= sum(k)
        BY <4>1
      <4>3. sum(i) \in Nat /\ sum(k) \in Nat /\ sum(k + 1) \in Nat
        BY <1>10, <3>1
      <4> QED
        BY <3>2, <4>2, <4>3
    <3> QED
      BY <3>3, <3>4
  <2> HIDE DEF T
  <2>3. T \in SUBSET Nat
    BY DEF T
  <2>4. n \in T
    BY <1>1, <2>1, <2>2, <2>3, RingAssumptions, Q!Induction
  <2>5. \A i \in 0 .. n : sum(i) <= sum(n)
    BY <1>1, <2>4 DEF T
  <2>6. n \in 0 .. n /\ sum(n) \in Nat /\ sum(n) <= MaxInt
    BY <1>1, <1>9, <1>10
  <2> QED
    BY <1>10, <2>5, <2>6, IntWraps
<1>12. \A i \in 0 .. n : res[i] = sum(i)
  <2> DEFINE T == {i \in Nat : i <= n => res[i] = sum(i)}
  <2>1. 0 \in T
    BY <1>5, <1>9
  <2>2. ASSUME NEW i \in T
        PROVE  i + 1 \in T
    <3> SUFFICES ASSUME i + 1 <= n
                 PROVE  res[i + 1] = sum(i + 1)
      OBVIOUS
    <3> DEFINE j == i + 1
               p == pow[n - j]
               product == p * digit(j)
    <3>1. j \in 1 .. n /\ j - 1 = i /\ i \in 0 .. n /\ j \in 0 .. n /\ res[i] = sum(i)
      BY <1>1
    <3>2. res[j] = Wrap(sum(i) + ToInt(p) * digit(j))
      BY <1>5, <3>1
    <3> HIDE DEF j
    <3>3. /\ sum(j) \in Nat /\ sum(j - 1) \in Nat /\ p \in Nat /\ product \in Nat
          /\ sum(j) = sum(j - 1) + product
          /\ digit(j) > 0 => product >= p
      BY <1>8, <3>1
    <3>4. digit(j) \in 0 .. 9 /\ sum(j) <= MaxInt /\ MaxInt \in Nat
      BY <1>2, <1>11, <3>1, IntWraps
    <3>5. sum(j) = sum(i) + product /\ sum(j) \in 0 .. MaxInt /\ sum(i) \in Nat
      BY <3>1, <3>3, <3>4
    <3> HIDE DEF p
    <3>6. CASE p <= MaxInt
      <4>1. ToInt(p) = p
        BY <3>3, <3>6, IntWraps
      <4>2. res[j] = Wrap(sum(j))
        BY <3>2, <3>5, <4>1
      <4> QED
        BY <3>5, <4>2, IntWraps DEF j
    <3>7. CASE p > MaxInt
      <4>1. digit(j) = 0
        <5> HIDE DEF product
        <5> QED
          BY <3>3, <3>4, <3>5, <3>7
      <4>2. ToInt(p) \in Int
        BY <3>3, IntWraps
      <4>3. ToInt(p) * digit(j) = 0 /\ product = 0
        BY <3>3, <4>1, <4>2
      <4>4. res[j] = Wrap(sum(j))
        BY <3>2, <3>5, <4>3
      <4> QED
        BY <3>5, <4>4, IntWraps DEF j
    <3> QED
      BY <3>3, <3>4, <3>6, <3>7
  <2> HIDE DEF T
  <2>3. T \in SUBSET Nat
    BY DEF T
  <2>4. Nat \subseteq T
    BY <2>1, <2>2, <2>3, RingAssumptions, Q!Induction
  <2> QED
    BY <1>1, <2>4 DEF T
<1>13. n \in 0 .. n
  BY <1>1
<1> QED
  BY <1>5, <1>9, <1>12, <1>13

BInv == HInv /\ (pc = "done" => body_length = decode_body_length(headers))

LEMMA BInvStep == BInv /\ [Next]_vars => BInv'
<1> SUFFICES ASSUME BInv, [Next]_vars, pc' = "done"
             PROVE  body_length' = decode_body_length(headers')
  BY HInvStep DEF BInv
<1>1. CASE HeaderDecoded
  BY <1>1 DEF HeaderDecoded
<1>2. CASE UNCHANGED vars
  BY <1>2 DEF vars, results, BInv
<1>3. ~(\/ ReadFirst \/ DecodeType \/ ReadSecond
        \/ GetNextLine \/ skip_eol_if_present \/ LookAhead \/ Advance
        \/ FirstLine \/ AddOutOfLine \/ http_headers_add)
  BY DEF ReadFirst, DecodeType, ReadSecond, GetNextLine, skip_eol_if_present, LookAhead,
         Advance, FirstLine, AddOutOfLine, http_headers_add
<1> QED
  BY <1>1, <1>2, <1>3 DEF Next

(* The length of the body is the number that the last content length of    *)
(* the uncut header stands for, for all clean cuts, if an int can hold it; *)
(* without a content length it is 0.                                       *)
THEOREM BodyLengthDecoded == Spec => []BodyLengthExact
<1>1. Init => BInv
  BY HInvInit DEF BInv, Init
<1>2. BInv /\ [Next]_vars => BInv'
  BY BInvStep
<1>3. BInv => BodyLengthExact
  <2> DEFINE digits == RefHeaders[Max(LengthsIn(RefHeaders))].value
  <2> SUFFICES ASSUME BInv, Clean, pc = "done"
               PROVE  IF LengthsIn(RefHeaders) = {} THEN body_length = 0
                      ELSE digits \in Seq(48 .. 57) /\ Decimal(digits) <= MaxInt
                             => body_length = Decimal(digits)
    BY DEF BodyLengthExact
  <2>1. headers = RefHeaders /\ body_length = decode_body_length(RefHeaders)
    BY DEF BInv, HInv, ParseOK
  <2>2. CASE LengthsIn(RefHeaders) = {}
    BY <2>1, <2>2 DEF decode_body_length
  <2>3. CASE LengthsIn(RefHeaders) # {}
    <3>1. body_length = str2int(digits)
      BY <2>1, <2>3 DEF decode_body_length
    <3> HIDE DEF digits
    <3> QED
      BY <2>3, <3>1, DigitsDecoded
  <2> QED
    BY <2>2, <2>3
<1> QED
  BY <1>1, <1>2, <1>3, PTL DEF Spec
=============================================================================
