-------------------------- MODULE CircularPointers --------------------------
(***************************************************************************)
(* The arithmetic on circular_ptr_t of buffers/circular_buffer.c: pairs    *)
(* (circ_index, buff_pos) that point into the window of a ring, and the    *)
(* loop of op_add_circ_pointers, which feeds the ring when it runs off the *)
(* last entry.                                                             *)
(*                                                                         *)
(* The reference is the position in the stream of bytes the ring was fed   *)
(* with: `start' records where in the stream each entry begins, and the    *)
(* byte at position n of the stream is n itself.  The pool of buffers is   *)
(* never empty here; a ring may be full.                                   *)
(***************************************************************************)
EXTENDS Integers, Sequences, FiniteSetsExt, RingIndices

CONSTANTS MaxSize,         \* as in CircularBuffer
          Ends,            \* what a read without data returns (0, or -1 on error)
          Total,           \* bytes the stream delivers at most
          MaxAsk,          \* largest number added to or taken from a pointer
          MaxRemainder     \* bound on the remainder of an addition (see Going)

ASSUME PointersAssumption == /\ MaxSize \in Nat \ {0}
                             /\ Ends \subseteq {-1, 0}
                             /\ {Total, MaxAsk, MaxRemainder} \subseteq Nat

VARIABLES data_sizes, last_sent, next_to_be_received,
          start,      \* position in the stream of the first byte of each entry
          received,   \* bytes received
          ptr,        \* the pointer of the caller
          add         \* the loop of op_add_circ_pointers, when one is running

ring == <<data_sizes, last_sent, next_to_be_received, start, received>>
vars == <<ring, ptr, add>>

Full == circular_increment(next_to_be_received) = last_sent
Empty == last_sent = next_to_be_received
LastReceived == circular_decrement(next_to_be_received)

Window == {(last_sent + k) % Cap :
              k \in 0 .. ((next_to_be_received - last_sent) % Cap) - 1}

(* How many entries further j is than i, going round.                      *)
Apart(i, j) == (j - i) % Cap

At(i, n) == [circ_index |-> i, buff_pos |-> n]

-----------------------------------------------------------------------------
(* The pure functions.                                                     *)

(* Mutant: the entries in between are forgotten.                           *)
op_distance_circ_pointers_NoMiddle(lhs, rhs) ==
    IF lhs.circ_index = rhs.circ_index THEN rhs.buff_pos - lhs.buff_pos
    ELSE data_sizes[lhs.circ_index] - lhs.buff_pos + rhs.buff_pos

(* result[k]: the sum after k rounds of the loop over the entries between. *)
op_distance_circ_pointers(lhs, rhs) ==
    LET result[k \in 0 .. Cap] ==
          IF k = 0 THEN data_sizes[lhs.circ_index] - lhs.buff_pos
          ELSE result[k - 1] + data_sizes[(lhs.circ_index + k) % Cap]
    IN IF lhs.circ_index = rhs.circ_index THEN rhs.buff_pos - lhs.buff_pos
       ELSE result[Apart(lhs.circ_index, rhs.circ_index) - 1] + rhs.buff_pos

(* Mutant: the position in the first entry is not taken into account.      *)
op_sub_circ_pointer_NoPos(lhs, ask) ==
    LET left[k \in 0 .. Cap] ==
          IF k = 0 THEN ask
          ELSE left[k - 1] - data_sizes[(lhs.circ_index - k) % Cap]
        k == Min({n \in 0 .. Cap : left[n] <= 0} \union {Cap})
    IN At((lhs.circ_index - k) % Cap, -left[k])

(* left[k]: what is left of `ask' after k entries; no run needs more       *)
(* rounds than there are entries.                                          *)
op_sub_circ_pointer(lhs, ask) ==
    LET left[k \in 0 .. Cap] ==
          IF k = 0 THEN ask - lhs.buff_pos
          ELSE left[k - 1] - data_sizes[(lhs.circ_index - k) % Cap]
        k == Min({n \in 0 .. Cap : left[n] <= 0} \union {Cap})
    IN At((lhs.circ_index - k) % Cap, -left[k])

cmp_ptr_to_last_received(p) ==
    IF p.circ_index = LastReceived
    THEN p.buff_pos - data_sizes[LastReceived] + 1 ELSE -1

(* Mutant: the indices of a wrapped window are compared as they are.       *)
cmp_circular_ptr_NoOffset(lhs, rhs) ==
    IF lhs.circ_index = rhs.circ_index THEN lhs.buff_pos - rhs.buff_pos
    ELSE lhs.circ_index - rhs.circ_index

cmp_circular_ptr(lhs, rhs) ==
    LET offset == IF last_sent > next_to_be_received THEN Cap ELSE 0
        Unwrapped(i) == IF i <= next_to_be_received THEN i + offset ELSE i
    IN IF lhs.circ_index = rhs.circ_index THEN lhs.buff_pos - rhs.buff_pos
       ELSE Unwrapped(lhs.circ_index) - Unwrapped(rhs.circ_index)

(* The bytes of entry i from position m up to n.                           *)
Bytes(i, m, n) == [k \in 1 .. n - m |-> start[i] + m + k - 1]

(* Mutant: the position in the first entry is kept for the next ones.      *)
buffer_2_str_copy_KeepsStart(from, to) ==
    LET Index(k) == (from.circ_index + k) % Cap
        copied[k \in 0 .. Cap] ==
          IF k = 0 THEN <<>>
          ELSE copied[k - 1] \o Bytes(Index(k - 1), from.buff_pos,
                                      data_sizes[Index(k - 1)])
        rounds == Apart(from.circ_index, to.circ_index)
    IN copied[rounds] \o Bytes(to.circ_index, from.buff_pos, to.buff_pos)

(* copied[k]: the copy after k rounds of the loop; the entry of `to' comes *)
(* last.  Bytes are positions here: that strncpy stops at a NUL is in the  *)
(* `copy' of HeaderParser, which knows the bytes.                          *)
buffer_2_str_copy(from, to) ==
    LET Index(k) == (from.circ_index + k) % Cap
        src_start(k) == IF k = 0 THEN from.buff_pos ELSE 0
        copied[k \in 0 .. Cap] ==
          IF k = 0 THEN <<>>
          ELSE copied[k - 1] \o Bytes(Index(k - 1), src_start(k - 1),
                                      data_sizes[Index(k - 1)])
        rounds == Apart(from.circ_index, to.circ_index)
    IN copied[rounds] \o Bytes(to.circ_index, src_start(rounds), to.buff_pos)

-----------------------------------------------------------------------------
(* The ring, and the pointer that moves over it.                           *)

NotAdding == [idx |-> -1, remainder |-> 0, target |-> 0, dry |-> FALSE]

(* new_circular_buffer, and a pointer to the first byte to come.           *)
Init == /\ data_sizes = [i \in Entries |-> -1]
        /\ last_sent = 0
        /\ next_to_be_received = 0
        /\ start = [i \in Entries |-> 0]
        /\ received = 0
        /\ ptr = At(0, 0)
        /\ add = NotAdding

(* feed_next_buffer, when the read returns n.                              *)
feed_next_buffer(n) ==
    /\ ~Full
    /\ received + n <= Total
    /\ data_sizes' = [data_sizes EXCEPT ![next_to_be_received] = n]
    /\ start' = [start EXCEPT ![next_to_be_received] = received]
    /\ received' = IF n > 0 THEN received + n ELSE received
    /\ next_to_be_received' = circular_increment(next_to_be_received)
    /\ UNCHANGED last_sent

Feed(n) == /\ add = NotAdding
           /\ feed_next_buffer(n)
           /\ UNCHANGED <<ptr, add>>

(* buffer_has_been_sent; nobody sends the entry a pointer points to.       *)
BufferSent ==
    /\ add = NotAdding
    /\ ~Empty
    /\ last_sent # ptr.circ_index
    /\ data_sizes' = [data_sizes EXCEPT ![last_sent] = -1]
    /\ last_sent' = circular_increment(last_sent)
    /\ UNCHANGED <<next_to_be_received, start, received, ptr, add>>

Position(p) == start[p.circ_index] + p.buff_pos

(* op_add_circ_pointers: before the loop, one round of it, and the end.    *)
AddStart(ask) ==
    /\ add = NotAdding
    /\ ptr.circ_index \in Window
    /\ add' = [idx |-> ptr.circ_index,
               remainder |-> ask + ptr.buff_pos - data_sizes[ptr.circ_index],
               target |-> Position(ptr) + ask,
               dry |-> FALSE]
    /\ UNCHANGED <<ring, ptr>>

(* One more round.  Each lap of a full ring without data makes the         *)
(* remainder one larger, for ever: the laps after MaxRemainder are not     *)
(* followed.                                                               *)
Going == /\ add # NotAdding
         /\ add.remainder \in 1 .. MaxRemainder

AtLast == circular_increment(add.idx) = next_to_be_received

NextRound(size, got) ==
    add' = [add EXCEPT !.idx = circular_increment(@),
                       !.remainder = @ - size,
                       !.dry = @ \/ ~got]

NextSize == data_sizes[circular_increment(add.idx)]

AddRound ==
    /\ Going /\ ~AtLast
    /\ NextRound(NextSize, TRUE)
    /\ UNCHANGED <<ring, ptr>>

AddFeed(n) ==
    /\ Going /\ AtLast
    /\ feed_next_buffer(n)
    /\ NextRound(n, n > 0)
    /\ UNCHANGED ptr

AddFull ==
    /\ Going /\ AtLast
    /\ Full
    /\ NextRound(NextSize, FALSE)
    /\ UNCHANGED <<ring, ptr>>

(* Mutant: the remainder is taken for the position.                        *)
AddEnd_Remainder ==
    /\ add # NotAdding
    /\ add.remainder <= 0
    /\ ptr' = At(add.idx, -add.remainder)
    /\ add' = NotAdding
    /\ UNCHANGED ring

AddEnd ==
    /\ add # NotAdding
    /\ add.remainder <= 0
    /\ ptr' = At(add.idx, add.remainder + data_sizes[add.idx])
    /\ add' = NotAdding
    /\ UNCHANGED ring

Next == \/ \E n \in 1 .. MaxSize \union Ends : Feed(n) \/ AddFeed(n)
        \/ BufferSent
        \/ \E ask \in 0 .. MaxAsk : AddStart(ask)
        \/ AddRound \/ AddFull \/ AddEnd

Spec == Init /\ [][Next]_vars

-----------------------------------------------------------------------------
(* The pointers into the window that have a byte before or under them.     *)
Pointers == {At(i, n) : i \in Window, n \in 0 .. MaxSize}
Valid == {p \in Pointers : p.buff_pos <= data_sizes[p.circ_index]}

TypeOK ==
    /\ data_sizes \in [Entries -> -1 .. MaxSize]
    /\ last_sent \in Entries /\ next_to_be_received \in Entries
    /\ start \in [Entries -> 0 .. Total]
    /\ received \in 0 .. Total
    /\ ptr.circ_index \in Entries
    /\ add = NotAdding \/ add.idx \in Entries

(* "number of characters between the 2 pointers" (circular_buffer.h:130):  *)
(* the distance of two pointers is that of their positions in the stream,  *)
(* whatever the chunks in between and wherever the window wraps.           *)
DistanceExact ==
    \A p, q \in Valid : Position(p) <= Position(q) /\ cmp_circular_ptr(p, q) <= 0
       => op_distance_circ_pointers(p, q) = Position(q) - Position(p)

(* op_sub_circ_pointer goes back exactly `ask' bytes, as long as they are  *)
(* still in the window.                                                    *)
SubExact ==
    \A p \in Valid, ask \in 0 .. MaxAsk :
       Position(p) - ask >= start[last_sent]
         => Position(op_sub_circ_pointer(p, ask)) = Position(p) - ask

(* cmp_circular_ptr never contradicts the order of the stream.             *)
CmpOrders ==
    \A p, q \in Valid : Position(p) < Position(q)
       => cmp_circular_ptr(p, q) < 0 /\ cmp_circular_ptr(q, p) > 0

(* "Extract in a single string the content between start and end"          *)
(* (circular_buffer.h:163).                                                *)
CopyExact ==
    \A p, q \in Valid : Position(p) <= Position(q) /\ cmp_circular_ptr(p, q) <= 0
       => buffer_2_str_copy(p, q)
            = [k \in 1 .. Position(q) - Position(p) |-> Position(p) + k - 1]

(* op_add_circ_pointers, over any number of entries and of feeds, moves    *)
(* the pointer by exactly `ask' bytes, provided no feed came back empty.   *)
AddExactWhenFed ==
    [][AddEnd /\ ~add.dry => Position(ptr') = add.target]_vars
=============================================================================
