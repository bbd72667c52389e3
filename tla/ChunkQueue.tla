----------------------------- MODULE ChunkQueue -----------------------------
(***************************************************************************)
(* What buffers/circular_buffer.h promises to the owner of a message: a    *)
(* bounded first-in first-out queue of chunks.  A chunk is reserved, then  *)
(* filled with what the source delivered, and leaves in order.  The size   *)
(* of a chunk is the result of the read: it is positive when the chunk has *)
(* data, 0 at end of file and -1 after an error or while it is pending.    *)
(*                                                                         *)
(* CircularBuffer.tla, rings over the shared pool, refines this module:    *)
(* no ring ever sees the data of another one.                              *)
(***************************************************************************)
EXTENDS Integers, Sequences

CONSTANTS Rings,      \* one queue per message in progress
          Data,       \* what a chunk may contain
          Sizes,      \* what a read may return
          Blank,      \* the content of a buffer nothing was read into
          Capacity    \* "n - 1 is the maximum capacity"

VARIABLES open,       \* the rings that exist
          queue,      \* queue[r]: the chunks received and not yet sent
          reading,    \* the last chunk of r is reserved and not yet filled
          ret         \* what the last feed of r returned

queueVars == <<open, queue, reading, ret>>

Pending == [size |-> -1, data |-> Blank]

Init == /\ open = {}
        /\ queue = [r \in Rings |-> <<>>]
        /\ reading = {}
        /\ ret = [r \in Rings |-> 0]

Open(r) == /\ r \notin open
           /\ open' = open \union {r}
           /\ ret' = [ret EXCEPT ![r] = 0]
           /\ UNCHANGED <<queue, reading>>

Reserve(r) ==
    /\ r \in open \ reading
    /\ Len(queue[r]) < Capacity
    /\ queue' = [queue EXCEPT ![r] = Append(@, Pending)]
    /\ reading' = reading \union {r}
    /\ UNCHANGED <<open, ret>>

(* A feed is refused with -2 at capacity, and only then ...                *)
Full(r) ==
    /\ r \in open \ reading
    /\ Len(queue[r]) = Capacity
    /\ ret' = [ret EXCEPT ![r] = -2]
    /\ UNCHANGED <<open, queue, reading>>

(* ... and with -1 when the pool has no buffer left.                       *)
Starved(r) ==
    /\ r \in open \ reading
    /\ Len(queue[r]) < Capacity
    /\ ret' = [ret EXCEPT ![r] = -1]
    /\ UNCHANGED <<open, queue, reading>>

Deliver(r, n, d) ==
    /\ r \in reading
    /\ queue' = [queue EXCEPT ![r][Len(queue[r])] =
                   [size |-> n, data |-> IF n > 0 THEN d ELSE Blank]]
    /\ reading' = reading \ {r}
    /\ ret' = [ret EXCEPT ![r] = n]
    /\ UNCHANGED open

Remove(r) ==
    /\ r \in open \ reading
    /\ queue[r] # <<>>
    /\ queue' = [queue EXCEPT ![r] = Tail(@)]
    /\ UNCHANGED <<open, reading, ret>>

Close(r) ==
    /\ r \in open \ reading
    /\ open' = open \ {r}
    /\ queue' = [queue EXCEPT ![r] = <<>>]
    /\ ret' = [ret EXCEPT ![r] = 0]
    /\ UNCHANGED reading

Next == \E r \in Rings :
           \/ Open(r) \/ Reserve(r) \/ Full(r) \/ Starved(r)
           \/ \E n \in Sizes, d \in Data : Deliver(r, n, d)
           \/ Remove(r) \/ Close(r)

Spec == Init /\ [][Next]_queueVars
=============================================================================
