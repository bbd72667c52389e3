--------------------------- MODULE CircularBuffer ---------------------------
(***************************************************************************)
(* The circular buffer of a message (buffers/circular_buffer.c): a window  *)
(* [last_sent, next_to_be_received) of an array of 2^size entries, each    *)
(* entry naming a buffer of the shared pool.  Several rings draw on one    *)
(* pool; a ring is used by one thread at a time, and a feed is two steps   *)
(* because its read blocks while other rings go on.                        *)
(*                                                                         *)
(* The pool is the abstract one of BufferPool (alloc_buffer and            *)
(* free_buffer take effect at one instant); free_buffer blanks the buffer. *)
(***************************************************************************)
EXTENDS Integers, Sequences, RingIndices

CONSTANTS Rings,        \* the circular_buffer_t of the messages in progress
          MaxBuffers,   \* buffers in the shared pool
          MaxSize,      \* max_size: the most one read delivers
          Data, Blank   \* contents of a buffer

ASSUME PoolAssumption == MaxBuffers \in Nat
ASSUME SizeAssumption == MaxSize \in Nat
ASSUME DataAssumption == Blank \notin Data

VARIABLES free,                  \* keys in the shared pool
          messages,              \* contents of the shared buffers
          live,                  \* rings that exist
          buffers, data_sizes,   \* per ring: the two arrays
          last_sent, next_to_be_received,
          dest,                  \* the buffer the feed of a ring reads into, or -1
          ret                    \* result of the last feed of a ring

vars == <<free, messages, live, buffers, data_sizes, last_sent,
          next_to_be_received, dest, ret>>

Keys == 0 .. MaxBuffers - 1

(* Results of feed_data: -1 error, 0 end of file, or a number of bytes.    *)
Sizes == -1 .. MaxSize

is_full_circular_buffer(r) ==
    circular_increment(next_to_be_received[r]) = last_sent[r]

is_empty_circular_buffer(r) == last_sent[r] = next_to_be_received[r]

LastReceived(r) == circular_decrement(next_to_be_received[r])

(* Rings whose feed is inside feed_data.                                   *)
reading == {r \in Rings : dest[r] # -1}

-----------------------------------------------------------------------------

Init == /\ free = Keys
        /\ messages = [b \in Keys |-> Blank]
        /\ live = {}
        /\ buffers = [r \in Rings |-> [i \in Entries |-> -1]]
        /\ data_sizes = [r \in Rings |-> [i \in Entries |-> -1]]
        /\ last_sent = [r \in Rings |-> 0]
        /\ next_to_be_received = [r \in Rings |-> 0]
        /\ dest = [r \in Rings |-> -1]
        /\ ret = [r \in Rings |-> 0]

(* The arrays and indices as malloc'ed and filled by new_circular_buffer.  *)
Fresh(r) ==
    /\ buffers' = [buffers EXCEPT ![r] = [i \in Entries |-> -1]]
    /\ data_sizes' = [data_sizes EXCEPT ![r] = [i \in Entries |-> -1]]
    /\ last_sent' = [last_sent EXCEPT ![r] = 0]
    /\ next_to_be_received' = [next_to_be_received EXCEPT ![r] = 0]
    /\ ret' = [ret EXCEPT ![r] = 0]

new_circular_buffer(r) ==
    /\ live' = live \union {r}
    /\ Fresh(r)
    /\ UNCHANGED <<free, messages, dest>>

(* alloc_entry_in_circular_buffer                                          *)
alloc_entry(r, b) ==
    /\ ~is_full_circular_buffer(r)
    /\ b \in free
    /\ free' = free \ {b}
    /\ buffers' = [buffers EXCEPT ![r][next_to_be_received[r]] = b]
    /\ data_sizes' = [data_sizes EXCEPT ![r][next_to_be_received[r]] = -1]
    /\ next_to_be_received' =
          [next_to_be_received EXCEPT ![r] = circular_increment(@)]

(* feed_next_buffer, up to the read.                                       *)
FeedAlloc(r, b) ==
    /\ alloc_entry(r, b)
    /\ dest' = [dest EXCEPT ![r] = b]
    /\ UNCHANGED <<messages, live, last_sent, ret>>

FeedFull(r) ==
    /\ is_full_circular_buffer(r)
    /\ ret' = [ret EXCEPT ![r] = -2]
    /\ UNCHANGED <<free, messages, live, buffers, data_sizes, last_sent,
                   next_to_be_received, dest>>

FeedNoBuffer(r) ==
    /\ ~is_full_circular_buffer(r)
    /\ free = {}
    /\ ret' = [ret EXCEPT ![r] = -1]
    /\ UNCHANGED <<free, messages, live, buffers, data_sizes, last_sent,
                   next_to_be_received, dest>>

(* Mutant: the size goes to the entry after the one read.                  *)
FeedRead_NextEntry(r, n, d) ==
    /\ dest[r] # -1
    /\ messages' = IF n > 0 THEN [messages EXCEPT ![dest[r]] = d] ELSE messages
    /\ data_sizes' = [data_sizes EXCEPT ![r][next_to_be_received[r]] = n]
    /\ ret' = [ret EXCEPT ![r] = n]
    /\ dest' = [dest EXCEPT ![r] = -1]
    /\ UNCHANGED <<free, live, buffers, last_sent, next_to_be_received>>

(* The read of feed_next_buffer returns n: read_into_next_buffer chose its *)
(* destination before it blocked, set_data_size_for_last_received_buffer   *)
(* looks for the entry afterwards.  An entry stays allocated when nothing  *)
(* was read.  (The caller's to_last_char belongs to CircularPointers.)     *)
FeedRead(r, n, d) ==
    /\ dest[r] # -1
    /\ messages' = IF n > 0 THEN [messages EXCEPT ![dest[r]] = d] ELSE messages
    /\ data_sizes' = [data_sizes EXCEPT ![r][LastReceived(r)] = n]
    /\ ret' = [ret EXCEPT ![r] = n]
    /\ dest' = [dest EXCEPT ![r] = -1]
    /\ UNCHANGED <<free, live, buffers, last_sent, next_to_be_received>>

(* Mutant: last_sent stays.                                                *)
buffer_has_been_sent_Stays(r) ==
    /\ ~is_empty_circular_buffer(r)
    /\ free' = free \union {buffers[r][last_sent[r]]}
    /\ messages' = [messages EXCEPT ![buffers[r][last_sent[r]]] = Blank]
    /\ buffers' = [buffers EXCEPT ![r][last_sent[r]] = 0]
    /\ data_sizes' = [data_sizes EXCEPT ![r][last_sent[r]] = -1]
    /\ UNCHANGED <<live, last_sent, next_to_be_received, dest, ret>>

(* Mutant: the size stays.                                                 *)
buffer_has_been_sent_KeepsSize(r) ==
    /\ ~is_empty_circular_buffer(r)
    /\ free' = free \union {buffers[r][last_sent[r]]}
    /\ messages' = [messages EXCEPT ![buffers[r][last_sent[r]]] = Blank]
    /\ buffers' = [buffers EXCEPT ![r][last_sent[r]] = 0]
    /\ last_sent' = [last_sent EXCEPT ![r] = circular_increment(@)]
    /\ UNCHANGED <<data_sizes, live, next_to_be_received, dest, ret>>

(* Mutant: the key is overwritten before free_buffer sees it, and the      *)
(* buffer is not freed.                                                    *)
buffer_has_been_sent_NotFreed(r) ==
    /\ ~is_empty_circular_buffer(r)
    /\ buffers' = [buffers EXCEPT ![r][last_sent[r]] = 0]
    /\ data_sizes' = [data_sizes EXCEPT ![r][last_sent[r]] = -1]
    /\ last_sent' = [last_sent EXCEPT ![r] = circular_increment(@)]
    /\ UNCHANGED <<free, messages, live, next_to_be_received, dest, ret>>

(* The entry is given back; its key is overwritten with 0, not with -1.    *)
buffer_has_been_sent(r) ==
    /\ ~is_empty_circular_buffer(r)
    /\ free' = free \union {buffers[r][last_sent[r]]}
    /\ messages' = [messages EXCEPT ![buffers[r][last_sent[r]]] = Blank]
    /\ buffers' = [buffers EXCEPT ![r][last_sent[r]] = 0]
    /\ data_sizes' = [data_sizes EXCEPT ![r][last_sent[r]] = -1]
    /\ last_sent' = [last_sent EXCEPT ![r] = circular_increment(@)]
    /\ UNCHANGED <<live, next_to_be_received, dest, ret>>

(* free_circular_buffer frees the arrays only: the buffers named by the    *)
(* window go back to nobody.  (Nothing reads a freed ring: its variables   *)
(* take their initial values.)                                             *)
free_circular_buffer(r) ==
    /\ live' = live \ {r}
    /\ Fresh(r)
    /\ UNCHANGED <<free, messages, dest>>

(* A ring is used by one thread: nothing else happens to it while a read   *)
(* is in progress.                                                         *)
Idle(r) == r \in live /\ dest[r] = -1

Operation(r) ==
    \/ r \notin live /\ new_circular_buffer(r)
    \/ Idle(r) /\ \E b \in Keys : FeedAlloc(r, b)
    \/ Idle(r) /\ FeedFull(r)
    \/ Idle(r) /\ FeedNoBuffer(r)
    \/ \E n \in Sizes, d \in Data : FeedRead(r, n, d)
    \/ Idle(r) /\ buffer_has_been_sent(r)
    \/ Idle(r) /\ free_circular_buffer(r)

Next == \E r \in Rings : Operation(r)

Spec == Init /\ [][Next]_vars

-----------------------------------------------------------------------------
(* The window of a ring, as the offsets of its entries from last_sent.     *)

Length(r) == (next_to_be_received[r] - last_sent[r]) % Cap

Entry(r, k) == (last_sent[r] + k) % Cap

Window(r) == {Entry(r, k) : k \in 0 .. Length(r) - 1}

KeysOf(r) == IF r \in live THEN {buffers[r][i] : i \in Window(r)} ELSE {}

Owned == UNION {KeysOf(r) : r \in Rings}

Lost == Keys \ (free \union Owned)

TypeOK ==
    /\ free \subseteq Keys
    /\ messages \in [Keys -> Data \union {Blank}]
    /\ live \subseteq Rings
    /\ buffers \in [Rings -> [Entries -> Keys \union {-1, 0}]]
    /\ data_sizes \in [Rings -> [Entries -> Sizes]]
    /\ last_sent \in [Rings -> Entries]
    /\ next_to_be_received \in [Rings -> Entries]
    /\ dest \in [Rings -> Keys \union {-1}]
    /\ ret \in [Rings -> Sizes \union {-2}]

(* Every entry of a window has a buffer of its own: no other entry, of     *)
(* this ring or of another, names it, and the pool does not offer it, so   *)
(* buffer_has_been_sent frees it exactly once.                             *)
EntriesOwnBuffers ==
    /\ \A r \in live : \A i, j \in Window(r) :
          buffers[r][i] = buffers[r][j] => i = j
    /\ \A r, s \in live : r # s => KeysOf(r) \intersect KeysOf(s) = {}
    /\ Owned \subseteq Keys \ free

(* Outside the window every size is -1, whatever the ring went through, so *)
(* a walk that leaves the window never counts stale bytes.                 *)
NoStaleSize ==
    \A r \in live : \A i \in Entries \ Window(r) : data_sizes[r][i] = -1

(* A buffer leaves both the pool and the rings only when a ring is freed   *)
(* with entries left in it.                                                *)
LostOnlyByFree ==
    [][Lost' # Lost
         => \E r \in live : /\ r \notin live'
                            /\ Lost' = Lost \union KeysOf(r)]_vars

-----------------------------------------------------------------------------
(* Each ring is a bounded queue of its own chunks.                         *)

Chunk(r, i) == [size |-> data_sizes[r][i], data |-> messages[buffers[r][i]]]

Chunks(r) == IF r \in live
             THEN [k \in 1 .. Length(r) |-> Chunk(r, Entry(r, k - 1))]
             ELSE <<>>

Queue == INSTANCE ChunkQueue
           WITH open <- live,
                queue <- [r \in Rings |-> Chunks(r)],
                Capacity <- Cap - 1

QueueSpec == Queue!Spec
=============================================================================
