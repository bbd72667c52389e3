-------------------------- MODULE ForwardingProofs --------------------------
(***************************************************************************)
(* The forwarding of one request to any number of servers, in every mode.  *)
(*                                                                         *)
(* Flow says where the session thread and the calls may be, what is alive  *)
(* there and who is inside a read.  With it every step of a thread is an   *)
(* operation of one ring, or of none, and the lemmas about the rings of    *)
(* CircularBufferProofs apply: in every mode as far as they concern the    *)
(* ownership of buffers, and outside ASYNC, where nothing happens to a     *)
(* ring that is being read into, in full.                                  *)
(***************************************************************************)
EXTENDS Forwarding, SequenceTheorems, TLAPS

P == INSTANCE CircularBufferProofs

(* The assumptions of CircularBuffer hold of the rings of a request.       *)
LEMMA RingAssumptions ==
    /\ P!CapAssumption /\ P!PoolAssumption
    /\ P!SizeAssumption /\ P!DataAssumption
BY PoolAssumption
DEF P!CapAssumption, P!PoolAssumption, P!SizeAssumption, P!DataAssumption,
    MaxSize, Blank, Data

-----------------------------------------------------------------------------
(* The two instances of CircularBuffer, R here and the one that            *)
(* CircularBufferProofs extends, define the same.                          *)

LEMMA SameIndices ==
    /\ R!Cap = P!Cap /\ R!Entries = P!Entries /\ R!Keys = P!Keys
    /\ R!Sizes = P!Sizes
    /\ \A v : R!circular_increment(v) = P!circular_increment(v)
    /\ \A v : R!circular_decrement(v) = P!circular_decrement(v)
    /\ \A r : R!is_full_circular_buffer(r) <=> P!is_full_circular_buffer(r)
    /\ \A r : R!is_empty_circular_buffer(r) <=> P!is_empty_circular_buffer(r)
    /\ \A r : R!LastReceived(r) = P!LastReceived(r)
    /\ R!reading = P!reading
BY DEF R!Cap, P!Cap, R!Entries, P!Entries, R!Keys, P!Keys, R!Sizes, P!Sizes,
       R!circular_increment, P!circular_increment,
       R!circular_decrement, P!circular_decrement,
       R!is_full_circular_buffer, P!is_full_circular_buffer,
       R!is_empty_circular_buffer, P!is_empty_circular_buffer,
       R!LastReceived, P!LastReceived, R!reading, P!reading

LEMMA SameOperations ==
    ASSUME NEW r
    PROVE  /\ \A b : R!FeedAlloc(r, b) => P!FeedAlloc(r, b)
           /\ \A n, d : R!FeedRead(r, n, d) => P!FeedRead(r, n, d)
           /\ R!FeedFull(r) => P!FeedFull(r)
           /\ R!FeedNoBuffer(r) => P!FeedNoBuffer(r)
           /\ R!buffer_has_been_sent(r) => P!buffer_has_been_sent(r)
           /\ R!free_circular_buffer(r) => P!free_circular_buffer(r)
BY SameIndices
DEF R!FeedAlloc, P!FeedAlloc, R!alloc_entry, P!alloc_entry,
    R!FeedFull, P!FeedFull, R!FeedNoBuffer, P!FeedNoBuffer,
    R!FeedRead, P!FeedRead, R!buffer_has_been_sent, P!buffer_has_been_sent,
    R!free_circular_buffer, P!free_circular_buffer, R!Fresh, P!Fresh

LEMMA SameSets ==
    /\ \A r : R!Window(r) = P!Window(r)
    /\ \A r : R!KeysOf(r) = P!KeysOf(r)
    /\ R!Owned = P!Owned
    /\ R!Lost = P!Lost
<1>1. \A r : R!Length(r) = P!Length(r)
  BY SameIndices DEF R!Length, P!Length
<1>2. \A r, k : R!Entry(r, k) = P!Entry(r, k)
  BY SameIndices DEF R!Entry, P!Entry
<1>3. \A r : R!Window(r) = P!Window(r)
  BY <1>1, <1>2 DEF R!Window, P!Window
<1>4. \A r : R!KeysOf(r) = P!KeysOf(r)
  BY <1>3 DEF R!KeysOf, P!KeysOf
<1>5. R!Owned = P!Owned
  BY <1>4 DEF R!Owned, P!Owned
<1>6. R!Lost = P!Lost
  BY <1>5, SameIndices DEF R!Lost, P!Lost
<1> QED
  BY <1>3, <1>4, <1>5, <1>6

LEMMA SameInvariants ==
    /\ R!TypeOK <=> P!TypeOK
    /\ R!EntriesOwnBuffers <=> P!EntriesOwnBuffers
<1>1. R!TypeOK <=> P!TypeOK
  BY SameIndices DEF R!TypeOK, P!TypeOK
<1>2. R!EntriesOwnBuffers <=> P!EntriesOwnBuffers
  BY SameIndices, SameSets DEF R!EntriesOwnBuffers, P!EntriesOwnBuffers
<1> QED
  BY <1>1, <1>2

-----------------------------------------------------------------------------
(* Where the session thread and the calls may be.                          *)

Reading == {"decode", "decode_read", "decode_spin"}
Starting == {"forward", "call", "free_env"}
Replying == {"reply_get", "reply_data", "reply_mark"}
Releasing == {"release_reply", "done"}
MainSteps == Reading \union Starting \union Replying \union Releasing
             \union {"synchronize", "reply", "release_request"}

(* The steps of a call before receive_reply has used response_message, and *)
(* those inside a read.                                                    *)
Early == {"none", "connect", "send_request", "send_test", "send_get",
          "send_data", "send_mark", "receive"}
InRead == {"first_read", "header_read", "body_read"}
Steps == Early \union InRead \union {"first", "header", "spin", "body", "done"}

Control == /\ mode \in Modes
           /\ main \in MainSteps
           /\ idx \in Servers
           /\ main \in Reading \union {"release_request"} => idx = 1
           /\ pc \in [Servers -> Steps]
           /\ env \in [Servers -> {"none", "live", "freed"}]
           /\ snap \in [Rings -> P!Keys \union {-1}]
           /\ joiner \in 0 .. N + 1
           /\ mode # "ASYNC" => joiner = 0
           /\ response \in {"usable", "wild"}
           /\ fault \in {"none", "envelope", "request", "reply", "response", "no_buffer"}

(* What is allocated.                                                      *)
Allocated == /\ live \subseteq Rings
             /\ 0 \in live <=> main \notin Releasing
             /\ replies = IF main = "done" THEN {}
                          ELSE IF main = "release_reply" THEN idx .. N ELSE Servers
             /\ \A i \in Servers : i \in live <=> response = "usable" /\ i \in replies
             /\ response = "wild" =>
                   /\ main \in Reading \union Starting \union {"synchronize", "reply"}
                   /\ \A i \in Servers : pc[i] \in Early

(* Calls start in the order of the loop ...                                *)
Started == /\ main \in Reading => \A i \in Servers : pc[i] = "none"
           /\ main = "forward" => \A i \in idx .. N : pc[i] = "none"
           /\ main \in {"call", "free_env"} => \A i \in idx + 1 .. N : pc[i] = "none"
           /\ main = "call" => mode = "SEQ"

(* ... and in mode SEQ they end in that order, in mode SYNC before replies *)
(* are forwarded.                                                          *)
Ended == /\ mode = "SEQ" =>
              /\ main \in Starting => \A i \in 1 .. idx - 1 : pc[i] = "done"
              /\ main = "free_env" => pc[idx] = "done"
              /\ \A i \in Servers : env[i] = "freed" => pc[i] = "done"
         /\ RepliesAfterJoin
         /\ mode = "SEQ" /\ Forwarded => \A i \in Servers : pc[i] = "done"

(* A buffer waits for a read exactly while its thread is inside the read.  *)
Busy == /\ main = "decode_read" <=> dest[0] # -1
        /\ \A i \in Servers : pc[i] \in InRead <=> dest[i] # -1

Flow == Control /\ Allocated /\ Started /\ Ended /\ Busy /\ NoUseAfterRelease

(* The invariant: outside ASYNC the rings are as consistent as those of    *)
(* CircularBuffer; ASYNC may release a message under its reader, and keeps *)
(* what concerns the ownership of buffers.                                 *)
FInv == /\ Flow
        /\ P!Ownership
        /\ mode # "ASYNC" => P!IInv

-----------------------------------------------------------------------------
(* The steps of the calls.                                                 *)

LEMMA ServerOrder ==
    /\ Servers \subseteq Rings /\ 0 \in Rings /\ 0 \notin Servers
    /\ 1 \in Servers /\ N \in Servers
    /\ \A i \in Servers : i \in Int /\ 1 <= i /\ i <= N
BY ForwardingAssumption DEF Servers, Rings

(* What a call that goes on does: it moves, and reads into its own reply.  *)
CallStep(i) ==
    /\ UNCHANGED <<mainVars, env, live, joiner, fault>>
    /\ pc[i] \notin {"none", "done"}
    /\ \E step \in Steps \ {"none"} :
          /\ Goto(i, step)
          /\ step \in InRead <=> dest'[i] # -1
          /\ response = "wild" => step \in Early
    /\ \A r \in Rings \ {i} : dest'[r] = dest[r]
    /\ snap' \in [Rings -> P!Keys \union {-1}]

(* The faults that each mode leaves possible.                              *)
MayFault(kind) ==
    /\ kind \in {"envelope", "request", "reply", "response", "no_buffer"}
    /\ mode # "ASYNC" => kind \notin {"request", "reply"}
    /\ mode = "SEQ" => kind # "envelope"

CallFault == \E kind : MayFault(kind) /\ Crash(kind)

(* Outside ASYNC nothing is released while a call goes on.                 *)
LEMMA CallAlive ==
    ASSUME Flow, NEW i \in Servers, pc[i] # "done", mode # "ASYNC"
    PROVE  /\ 0 \in live
           /\ i \in replies
           /\ response = "usable" => i \in live
<1>1. main \notin Releasing
  BY ForwardingAssumption
  DEF Flow, Control, Ended, RepliesAfterJoin, Forwarded, Releasing
<1> QED
  BY <1>1 DEF Flow, Allocated, Releasing

LEMMA EnvelopeStep ==
    ASSUME Flow, NEW i \in Servers, NEW step \in Steps \ (InRead \union {"none", "done"}),
           NEW next \in Steps \ (InRead \union {"none"}),
           response = "wild" => next \in Early,
           ReadEnvelope(i, step, next)
    PROVE  CallStep(i) \/ CallFault
<1>1. CASE env[i] = "freed" /\ Crash("envelope")
  <2>1. mode # "SEQ"
    BY <1>1 DEF Flow, Ended, ReadEnvelope
  <2> QED
    BY <1>1, <2>1 DEF CallFault, MayFault
<1>2. CASE i \notin replies /\ Crash("reply")
  <2>1. mode = "ASYNC"
    BY <1>2, CallAlive DEF ReadEnvelope
  <2> QED
    BY <1>2, <2>1 DEF CallFault, MayFault
<1>3. CASE /\ Goto(i, next)
           /\ UNCHANGED <<ringVars, mainVars, env, snap, got, status, received,
                          joiner, fault>>
  BY <1>3 DEF ReadEnvelope, CallStep, Flow, Control, Busy, ringVars
<1> QED
  BY <1>1, <1>2, <1>3 DEF ReadEnvelope

(* The key that is to be sent next is a key of the pool.                   *)
LEMMA GetBufferType ==
    ASSUME Flow, P!Ownership, NEW t \in Rings, NEW r \in live, GetBuffer(t, r)
    PROVE  snap' \in [Rings -> P!Keys \union {-1}]
<1>1. r \in Rings /\ last_sent[r] \in P!Entries /\ next_to_be_received[r] \in P!Entries
  BY DEF P!Ownership, P!TypeOK
<1>2. ASSUME ~R!is_empty_circular_buffer(r)
      PROVE  buffers[r][last_sent[r]] \in P!Keys
  <2>1. last_sent[r] # next_to_be_received[r]
    BY <1>2 DEF R!is_empty_circular_buffer
  <2>2. last_sent[r] \in P!Span(last_sent[r], next_to_be_received[r])
    BY <1>1, <2>1, RingAssumptions, P!Shrinks
  <2>3. last_sent[r] \in P!Window(r)
    BY <1>1, <2>2, RingAssumptions, P!Windows DEF P!Ownership
  <2> QED
    BY <2>3, RingAssumptions, P!NamedKeys
<1> QED
  BY <1>2 DEF GetBuffer, Flow, Control

LEMMA ReadAllocStep ==
    ASSUME Flow, P!Ownership, NEW i \in Servers,
           NEW step \in Steps \ (Early \union {"done"}), NEW next \in InRead,
           ReadAlloc(i, step, next)
    PROVE  CallStep(i)
<1>1. PICK b \in free : R!FeedAlloc(i, b)
  BY DEF ReadAlloc
<1>2. b # -1 /\ dest' = [dest EXCEPT ![i] = b] /\ live' = live
  BY <1>1 DEF P!Ownership, P!TypeOK, P!Keys, R!FeedAlloc
<1>3. dest \in [Rings -> P!Keys \union {-1}]
  BY DEF P!Ownership, P!TypeOK
<1>4. response = "usable" /\ pc[i] = step
  BY DEF ReadAlloc, UsesReply, Flow, Allocated
<1>5. UNCHANGED <<mainVars, env, snap, joiner, fault>> /\ Goto(i, next)
  BY DEF ReadAlloc
<1> QED
  BY <1>2, <1>3, <1>4, <1>5, ServerOrder
  DEF CallStep, Flow, Control, InRead, Steps, Early

LEMMA ReadDataStep ==
    ASSUME Flow, P!Ownership, NEW i \in Servers, NEW step \in InRead,
           NEW next \in Steps \ (InRead \union {"none"}), NEW n,
           UsesReply(i, step), R!FeedRead(i, n, "reply"), Goto(i, next),
           UNCHANGED <<mainVars, env, snap, joiner, fault>>
    PROVE  CallStep(i)
<1>1. dest' = [dest EXCEPT ![i] = -1] /\ live' = live
  BY DEF R!FeedRead
<1>2. dest \in [Rings -> P!Keys \union {-1}]
  BY DEF P!Ownership, P!TypeOK
<1>3. response = "usable" /\ pc[i] = step
  BY DEF UsesReply, Flow, Allocated
<1> QED
  BY <1>1, <1>2, <1>3, ServerOrder
  DEF CallStep, Flow, Control, InRead, Steps, Early

LEMMA CallMoves ==
    ASSUME Flow, P!Ownership, NEW i \in Servers, Call(i)
    PROVE  CallStep(i) \/ CallFault
<1> DEFINE Quiet == UNCHANGED <<ringVars, mainVars, env, joiner, fault>>
<1>1. CASE connect_to_server(i) \/ send_request(i)
  BY <1>1, EnvelopeStep DEF connect_to_server, send_request, Steps, Early, InRead
<1>2. ASSUME Quiet, pc[i] \notin InRead \union {"none", "done"},
             snap' \in [Rings -> P!Keys \union {-1}],
             NEW next \in Steps \ (InRead \union {"none"}), Goto(i, next),
             response = "wild" => next \in Early
      PROVE  CallStep(i)
  BY <1>2 DEF CallStep, Flow, Busy, ringVars
<1>3. snap \in [Rings -> P!Keys \union {-1}] /\ i \in Rings
  BY ServerOrder DEF Flow, Control
<1>4. CASE SendTest(i)
  BY <1>2, <1>3, <1>4 DEF SendTest, UsesRequest, Steps, Early, InRead
<1>5. CASE SendGet(i)
  <2>1. snap' \in [Rings -> P!Keys \union {-1}]
    BY <1>3, <1>5, GetBufferType DEF SendGet, UsesRequest
  <2> QED
    BY <1>2, <1>5, <2>1 DEF SendGet, UsesRequest, Steps, Early, InRead
<1>6. CASE SendPush(i)
  BY <1>2, <1>3, <1>6 DEF SendPush, UsesRequest, Steps, Early, InRead
<1>7. CASE SendMark(i)
  <2>1. dest' = dest /\ live' = live
    BY <1>7 DEF SendMark, MarkSent, R!buffer_has_been_sent, ringVars
  <2> QED
    BY <1>3, <1>7, <2>1
    DEF SendMark, UsesRequest, CallStep, Flow, Busy, Steps, Early, InRead
<1>8. CASE RequestGone(i)
  <2>1. mode = "ASYNC"
    BY <1>8, CallAlive DEF RequestGone
  <2> QED
    BY <1>8, <2>1 DEF RequestGone, CallFault, MayFault
<1>9. CASE receive_reply(i)
  <2>1. CASE pc[i] = "receive" /\ response = "wild" /\ Crash("response")
    BY <2>1 DEF CallFault, MayFault
  <2>2. CASE response = "usable" /\ ReadEnvelope(i, "receive", "first")
    BY <2>2, EnvelopeStep DEF Steps, Early, InRead
  <2> QED
    BY <1>9, <2>1, <2>2 DEF receive_reply
<1>10. CASE ReplyGone(i)
  <2>1. response = "usable"
    BY <1>10 DEF ReplyGone, Flow, Control, Allocated, Early
  <2>2. mode = "ASYNC"
    BY <1>10, <2>1, CallAlive DEF ReplyGone
  <2> QED
    BY <1>10, <2>2 DEF ReplyGone, CallFault, MayFault
<1>11. CASE AcceptAlloc(i) \/ HeaderAlloc(i) \/ BodyAlloc(i)
  BY <1>11, ReadAllocStep
  DEF AcceptAlloc, HeaderAlloc, BodyAlloc, Steps, Early, InRead
<1>12. CASE AcceptNoBuffer(i)
  BY <1>12 DEF AcceptNoBuffer, CallFault, MayFault
<1>13. CASE AcceptRead(i) \/ HeaderRead(i) \/ BodyRead(i)
  BY <1>13, ReadDataStep
  DEF AcceptRead, HeaderRead, BodyRead, ReadData, Steps, Early, InRead
<1>14. CASE HeaderEnd(i) \/ BodyEnd(i)
  BY <1>14, ReadDataStep DEF HeaderEnd, BodyEnd, BodyComplete, Steps, Early, InRead
<1>15. CASE HeaderComplete(i) \/ BodyNoBuffer(i)
  <2>1. response = "usable"
    BY <1>15 DEF HeaderComplete, BodyNoBuffer, UsesReply, Flow, Allocated
  <2> QED
    BY <1>2, <1>3, <1>15, <2>1
    DEF HeaderComplete, BodyNoBuffer, BodyComplete, UsesReply, Steps, Early, InRead
<1>16. CASE HeaderNoBuffer(i)
  <2>1. dest' = dest /\ live' = live /\ response = "usable"
    BY <1>16
    DEF HeaderNoBuffer, UsesReply, Flow, Allocated, R!FeedFull, R!FeedNoBuffer
  <2> QED
    BY <1>3, <1>16, <2>1
    DEF HeaderNoBuffer, UsesReply, CallStep, Flow, Busy, Steps, Early, InRead
<1> QED
  BY <1>1, <1>4, <1>5, <1>6, <1>7, <1>8, <1>9, <1>10, <1>11, <1>12, <1>13, <1>14,
     <1>15, <1>16 DEF Call

(* What is said of the session thread does not depend on where a call is   *)
(* that has started and has not ended.                                     *)
LEMMA CallKeepsFlow ==
    ASSUME Flow, P!Ownership, NEW i \in Servers, CallStep(i)
    PROVE  Flow'
<1>0. PICK step \in Steps \ {"none"} :
        /\ pc' = [pc EXCEPT ![i] = step]
        /\ step \in InRead <=> dest'[i] # -1
        /\ response = "wild" => step \in Early
  BY DEF CallStep, Goto
<1>1. /\ UNCHANGED <<mode, main, idx, replies, response, env, live, joiner, fault>>
      /\ pc[i] \notin {"none", "done"}
      /\ \A r \in Rings \ {i} : dest'[r] = dest[r]
      /\ snap' \in [Rings -> P!Keys \union {-1}]
  BY DEF CallStep, mainVars
<1>2. pc \in [Servers -> Steps] /\ main \in MainSteps
  BY DEF Flow, Control
<1>3. Control'
  BY <1>0, <1>1 DEF Flow, Control
<1>4. Allocated'
  BY <1>0, <1>1, <1>2 DEF Flow, Allocated
<1>5. Started'
  BY <1>0, <1>1, <1>2, ServerOrder DEF Flow, Started
<1>6. Ended'
  BY <1>0, <1>1, <1>2, ServerOrder DEF Flow, Ended, RepliesAfterJoin, Forwarded
<1>7. Busy'
  BY <1>0, <1>1, <1>2, ServerOrder DEF Flow, Busy
<1>8. NoUseAfterRelease'
  BY <1>1 DEF Flow, NoUseAfterRelease
<1> QED
  BY <1>3, <1>4, <1>5, <1>6, <1>7, <1>8 DEF Flow

LEMMA FaultKeepsFlow ==
    ASSUME Flow, CallFault
    PROVE  Flow'
<1>1. /\ UNCHANGED <<mode, main, idx, replies, response, pc, env, snap, live, dest, joiner>>
      /\ MayFault(fault')
  BY DEF CallFault, Crash, ringVars, mainVars, callVars
<1>2. Control' /\ NoUseAfterRelease'
  BY <1>1 DEF Flow, Control, MayFault, NoUseAfterRelease
<1>3. Allocated' /\ Started' /\ Ended' /\ Busy'
  BY <1>1 DEF Flow, Allocated, Started, Ended, RepliesAfterJoin, Forwarded, Busy
<1> QED
  BY <1>2, <1>3 DEF Flow

-----------------------------------------------------------------------------
(* The steps of the session thread.                                        *)

(* A loop over the servers goes on with the next one or is left.           *)
LEMMA Loops ==
    ASSUME Flow, NEW step, NEW after, Loop(step, after)
    PROVE  /\ idx' \in Servers
           /\ \/ idx < N /\ idx' = idx + 1 /\ main' = step
              \/ idx = N /\ idx' = 1 /\ main' = after
BY ForwardingAssumption DEF Loop, Flow, Control, Servers

LEMMA DecodeFlow ==
    ASSUME Flow, P!Ownership, fault = "none",
           DecodeAlloc \/ DecodeRead \/ DecodeEnd \/ Decoded
    PROVE  Flow'
<1>1. /\ UNCHANGED <<mode, idx, replies, response, live, pc, env, snap, joiner, fault>>
      /\ main \in Reading
      /\ main' \in Reading \union {"forward"}
  BY DEF DecodeAlloc, DecodeRead, DecodeEnd, Decoded, At, callVars, ringVars, Reading,
         R!FeedAlloc, R!FeedRead
<1>2. /\ main' = "decode_read" <=> dest'[0] # -1
      /\ \A i \in Servers : dest'[i] = dest[i]
  <2>1. dest \in [Rings -> P!Keys \union {-1}] /\ free \subseteq P!Keys
    BY DEF P!Ownership, P!TypeOK
  <2>2. CASE DecodeAlloc
    <3>1. PICK b \in free : dest' = [dest EXCEPT ![0] = b]
      BY <2>2 DEF DecodeAlloc, R!FeedAlloc
    <3> QED
      BY <2>1, <2>2, <3>1, ServerOrder DEF DecodeAlloc, P!Keys
  <2>3. CASE DecodeRead \/ DecodeEnd
    <3>1. dest' = [dest EXCEPT ![0] = -1]
      BY <2>3 DEF DecodeRead, DecodeEnd, R!FeedRead
    <3> QED
      BY <2>1, <2>3, <3>1, ServerOrder DEF DecodeRead, DecodeEnd
  <2>4. CASE Decoded
    BY <2>4 DEF Decoded, At, ringVars, Flow, Busy
  <2> QED
    BY <2>2, <2>3, <2>4
<1>3. Control' /\ NoUseAfterRelease'
  BY <1>1 DEF Flow, Control, NoUseAfterRelease, Reading, MainSteps, Starting
<1>4. Allocated'
  BY <1>1 DEF Flow, Allocated, Reading, Starting, Releasing
<1>5. Started' /\ Ended'
  BY <1>1, ServerOrder
  DEF Flow, Control, Started, Ended, RepliesAfterJoin, Forwarded, Reading, Starting,
      Servers
<1>6. Busy'
  BY <1>1, <1>2 DEF Flow, Busy
<1> QED
  BY <1>3, <1>4, <1>5, <1>6 DEF Flow

(* Without a buffer the session stays where it is, or crashes.             *)
LEMMA DecodeNoBufferFlow ==
    ASSUME Flow, fault = "none", DecodeNoBuffer
    PROVE  Flow'
<1>1. CASE Crash("no_buffer")
  BY <1>1, FaultKeepsFlow DEF CallFault, MayFault
<1>2. CASE /\ R!FeedFull(0) \/ R!FeedNoBuffer(0)
           /\ main' = "decode_spin"
           /\ UNCHANGED <<mode, idx, replies, response, callVars, joiner, fault>>
  <2>1. /\ UNCHANGED <<mode, idx, replies, response, live, dest, pc, env, snap, joiner,
                       fault>>
        /\ main = "decode" /\ main' = "decode_spin"
    BY <1>2 DEF DecodeNoBuffer, At, callVars, R!FeedFull, R!FeedNoBuffer
  <2>2. Control' /\ NoUseAfterRelease'
    BY <2>1 DEF Flow, Control, NoUseAfterRelease, Reading, MainSteps
  <2>3. Allocated' /\ Busy'
    BY <2>1 DEF Flow, Allocated, Busy, Reading, Starting, Releasing
  <2>4. Started' /\ Ended'
    BY <2>1
    DEF Flow, Started, Ended, RepliesAfterJoin, Forwarded, Reading, Starting
  <2> QED
    BY <2>2, <2>3, <2>4 DEF Flow
<1> QED
  BY <1>1, <1>2 DEF DecodeNoBuffer

LEMMA SendFlow ==
    ASSUME Flow, fault = "none", SendToServer
    PROVE  Flow'
<1>1. /\ UNCHANGED <<mode, idx, replies, response, live, dest, snap, joiner, fault>>
      /\ env' = [env EXCEPT ![idx] = "live"]
      /\ pc' = [pc EXCEPT ![idx] = "connect"]
      /\ main = "forward"
      /\ main' = IF mode = "SEQ" THEN "call" ELSE "free_env"
  BY DEF SendToServer, At, Goto, ringVars
<1>2. idx \in Servers /\ pc[idx] = "none" /\ pc \in [Servers -> Steps]
  BY <1>1, ServerOrder DEF Flow, Control, Started, Servers
<1>3. Control' /\ NoUseAfterRelease'
  BY <1>1, <1>2
  DEF Flow, Control, NoUseAfterRelease, MainSteps, Starting, Steps, Early, Reading
<1>4. Allocated'
  BY <1>1, <1>2 DEF Flow, Allocated, Starting, Releasing, Early
<1>5. Started'
  <2>1. \A i \in idx + 1 .. N : i \in Servers /\ i # idx /\ pc[i] = "none"
    BY <1>1, <1>2, ServerOrder DEF Flow, Started, Servers
  <2>2. \A i \in idx + 1 .. N : pc'[i] = "none"
    BY <1>1, <1>2, <2>1
  <2>3. main' \notin Reading \union {"forward"} /\ idx' = idx
    BY <1>1 DEF Reading
  <2> QED
    BY <1>1, <2>2, <2>3 DEF Started
<1>6. Ended'
  BY <1>1, <1>2, ServerOrder
  DEF Flow, Control, Ended, RepliesAfterJoin, Forwarded, Starting, Servers
<1>7. Busy'
  BY <1>1, <1>2 DEF Flow, Busy, InRead
<1> QED
  BY <1>3, <1>4, <1>5, <1>6, <1>7 DEF Flow

LEMMA ReturnFlow ==
    ASSUME Flow, fault = "none", CallReturns
    PROVE  Flow'
<1>1. /\ UNCHANGED <<mode, idx, replies, response, live, dest, pc, env, snap, joiner, fault>>
      /\ main = "call" /\ main' = "free_env" /\ pc[idx] = "done"
  BY DEF CallReturns, At, callVars, ringVars
<1>2. Control' /\ NoUseAfterRelease'
  BY <1>1 DEF Flow, Control, NoUseAfterRelease, MainSteps, Starting, Reading
<1>3. Allocated' /\ Started' /\ Busy'
  BY <1>1 DEF Flow, Allocated, Started, Busy, Starting, Releasing, Reading
<1>4. Ended'
  BY <1>1 DEF Flow, Ended, RepliesAfterJoin, Forwarded, Starting
<1> QED
  BY <1>2, <1>3, <1>4 DEF Flow

LEMMA EnvelopeFlow ==
    ASSUME Flow, fault = "none", FreeEnvelope
    PROVE  Flow'
<1>1. /\ UNCHANGED <<mode, replies, response, live, dest, pc, snap, joiner, fault>>
      /\ env' = [env EXCEPT ![idx] = "freed"]
      /\ main = "free_env"
      /\ idx \in Servers /\ idx' \in Servers
      /\ \/ idx < N /\ idx' = idx + 1 /\ main' = "forward"
         \/ idx = N /\ idx' = 1 /\ main' = "synchronize"
  BY Loops DEF FreeEnvelope, At, ringVars, Flow, Control
<1>2. Control' /\ NoUseAfterRelease'
  BY <1>1 DEF Flow, Control, NoUseAfterRelease, MainSteps, Starting, Reading
<1>3. Allocated' /\ Busy'
  BY <1>1 DEF Flow, Allocated, Busy, Starting, Releasing, Reading
<1>4. Started'
  BY <1>1, ServerOrder DEF Flow, Started, Reading, Servers
<1>5. mode = "SEQ" => \A i \in 1 .. idx : pc[i] = "done"
  BY <1>1, ServerOrder DEF Flow, Ended, Starting, Servers
<1>6. Ended'
  <2>1. mode = "SEQ" => \A i \in Servers : env'[i] = "freed" => pc[i] = "done"
    BY <1>1, <1>5, ServerOrder DEF Flow, Control, Ended
  <2>2. RepliesAfterJoin'
    BY <1>1 DEF RepliesAfterJoin, Forwarded
  <2>3. mode = "SEQ" /\ main' = "forward" => \A i \in 1 .. idx' - 1 : pc[i] = "done"
    BY <1>1, <1>5, ServerOrder
  <2>4. mode = "SEQ" /\ main' = "synchronize" => \A i \in Servers : pc[i] = "done"
    BY <1>1, <1>5 DEF Servers
  <2> QED
    BY <1>1, <2>1, <2>2, <2>3, <2>4 DEF Ended, Forwarded, Starting
<1> QED
  BY <1>2, <1>3, <1>4, <1>6 DEF Flow

LEMMA SynchronizeFlow ==
    ASSUME Flow, fault = "none", SynchronizeAll
    PROVE  Flow'
<1>1. /\ UNCHANGED <<mode, idx, replies, response, live, dest, pc, env, snap, fault>>
      /\ joiner' = IF mode = "ASYNC" THEN 1 ELSE joiner
      /\ main = "synchronize" /\ main' = "reply"
      /\ mode = "SYNC" => \A i \in Servers : pc[i] = "done"
  BY DEF SynchronizeAll, Synchronize, At, callVars, ringVars
<1>2. mode \in {"SEQ", "SYNC", "ASYNC"}
  BY ForwardingAssumption DEF Flow, Control
<1>3. Control' /\ NoUseAfterRelease'
  BY <1>1, ForwardingAssumption
  DEF Flow, Control, NoUseAfterRelease, MainSteps, Starting, Reading
<1>4. Allocated' /\ Started' /\ Busy'
  BY <1>1 DEF Flow, Allocated, Started, Busy, Starting, Releasing, Reading
<1>5. Ended'
  BY <1>1, <1>2 DEF Flow, Ended, RepliesAfterJoin, Forwarded, Starting
<1> QED
  BY <1>3, <1>4, <1>5 DEF Flow

LEMMA ReplyFlow ==
    ASSUME Flow, P!Ownership, fault = "none",
           ReplyTest \/ ReplyGet \/ ReplyPush \/ ReplyMark
    PROVE  Flow'
<1>1. CASE ReplyTest /\ response = "wild"
  BY <1>1, FaultKeepsFlow DEF ReplyTest, CallFault, MayFault
<1>2. CASE ~(ReplyTest /\ response = "wild")
  <2>1. /\ UNCHANGED <<mode, replies, response, live, dest, pc, env, joiner, fault>>
        /\ main \in Replying \union {"reply"}
    BY <1>2 DEF ReplyTest, ReplyGet, ReplyPush, ReplyMark, At, MarkSent,
               R!buffer_has_been_sent, ringVars, callVars, Replying
  <2>2. response = "usable" /\ idx \in Servers
    <3>1. main = "reply" => ReplyTest
      BY DEF ReplyGet, ReplyPush, ReplyMark, At
    <3> QED
      BY <1>2, <2>1, <3>1 DEF Flow, Control, Allocated, Replying, Reading, Starting
  <2>3. /\ idx' \in Servers
        /\ main' \in Replying \union {"reply", "release_request"}
        /\ main' = "release_request" => idx' = 1
    BY <1>2, <2>2, Loops, ForwardingAssumption
    DEF ReplyTest, ReplyGet, ReplyPush, ReplyMark, Replying, Servers
  <2>4. snap' \in [Rings -> P!Keys \union {-1}]
    <3>1. CASE ReplyGet
      <4>1. idx \in live /\ 0 \in Rings
        BY <2>1, <2>2, ServerOrder DEF Flow, Allocated, Replying
      <4> QED
        BY <3>1, <4>1, GetBufferType DEF ReplyGet
    <3>2. CASE ~ReplyGet
      BY <1>2, <3>2 DEF ReplyTest, ReplyPush, ReplyMark, callVars, Flow, Control
    <3> QED
      BY <3>1, <3>2
  <2>5. Control' /\ NoUseAfterRelease'
    BY <2>1, <2>3, <2>4
    DEF Flow, Control, NoUseAfterRelease, MainSteps, Replying, Reading
  <2>6. Allocated'
    BY <2>1, <2>2, <2>3 DEF Flow, Allocated, Replying, Releasing
  <2>7. Started' /\ Ended' /\ Busy'
    BY <2>1, <2>3
    DEF Flow, Started, Ended, Busy, RepliesAfterJoin, Forwarded, Replying, Reading,
        Starting
  <2> QED
    BY <2>5, <2>6, <2>7 DEF Flow
<1> QED
  BY <1>1, <1>2

LEMMA ReleaseRequestFlow ==
    ASSUME Flow, fault = "none", ReleaseRequest
    PROVE  Flow'
<1>1. /\ UNCHANGED <<mode, idx, replies, response, dest, pc, env, snap, joiner, fault>>
      /\ live' = live \ {0}
      /\ main = "release_request" /\ main' = "release_reply"
  BY DEF ReleaseRequest, At, R!free_circular_buffer, callVars
<1>2. idx = 1 /\ response = "usable"
  BY <1>1 DEF Flow, Control, Allocated, Reading, Starting
<1>3. Control' /\ NoUseAfterRelease'
  BY <1>1 DEF Flow, Control, NoUseAfterRelease, MainSteps, Releasing, Reading
<1>4. Allocated'
  BY <1>1, <1>2, ServerOrder DEF Flow, Allocated, Releasing, Servers
<1>5. Started' /\ Ended' /\ Busy'
  BY <1>1
  DEF Flow, Started, Ended, Busy, RepliesAfterJoin, Forwarded, Reading, Starting
<1> QED
  BY <1>3, <1>4, <1>5 DEF Flow

LEMMA ReleaseReplyFlow ==
    ASSUME Flow, fault = "none", ReleaseReply
    PROVE  Flow'
<1>1. CASE response = "wild"
  BY <1>1, FaultKeepsFlow DEF ReleaseReply, CallFault, MayFault
<1>2. CASE response # "wild"
  <2>1. /\ UNCHANGED <<mode, response, dest, pc, env, snap, joiner, fault>>
        /\ live' = live \ {idx}
        /\ replies' = replies \ {idx}
        /\ main = "release_reply"
        /\ idx \in Servers /\ idx' \in Servers
        /\ \/ idx < N /\ idx' = idx + 1 /\ main' = "release_reply"
           \/ idx = N /\ idx' = 1 /\ main' = "done"
    BY <1>2, Loops
    DEF ReleaseReply, At, R!free_circular_buffer, callVars, Flow, Control
  <2>2. Control' /\ NoUseAfterRelease'
    BY <2>1 DEF Flow, Control, NoUseAfterRelease, MainSteps, Releasing, Reading
  <2>3. replies = idx .. N
    BY <2>1 DEF Flow, Allocated
  <2>4. replies' = IF main' = "done" THEN {}
                   ELSE IF main' = "release_reply" THEN idx' .. N ELSE Servers
    BY <2>1, <2>3, ServerOrder
  <2>5. Allocated'
    BY <2>1, <2>4, ServerOrder, <1>2 DEF Flow, Allocated, Releasing, Control
  <2>6. Started' /\ Ended' /\ Busy'
    BY <2>1
    DEF Flow, Started, Ended, Busy, RepliesAfterJoin, Forwarded, Reading, Starting
  <2> QED
    BY <2>2, <2>5, <2>6 DEF Flow
<1> QED
  BY <1>1, <1>2

LEMMA JoinerFlow ==
    ASSUME Flow, fault = "none", JoinClientThread
    PROVE  Flow'
<1>1. mode = "ASYNC"
  BY DEF JoinClientThread, Servers, Flow, Control
<1>2. CASE joiner \notin replies
  BY <1>1, <1>2, FaultKeepsFlow DEF JoinClientThread, CallFault, MayFault
<1>3. CASE joiner \in replies
  <2>1. /\ UNCHANGED <<mode, main, idx, replies, response, live, dest, pc, env, snap, fault>>
        /\ joiner' \in 0 .. N + 1
    BY <1>3, ServerOrder
    DEF JoinClientThread, ringVars, mainVars, callVars, Flow, Control
  <2>2. Control' /\ NoUseAfterRelease'
    BY <1>1, <2>1 DEF Flow, Control, NoUseAfterRelease
  <2>3. Allocated' /\ Started' /\ Ended' /\ Busy'
    BY <2>1 DEF Flow, Allocated, Started, Ended, RepliesAfterJoin, Forwarded, Busy
  <2> QED
    BY <2>2, <2>3 DEF Flow
<1> QED
  BY <1>2, <1>3

LEMMA StepFlow == Flow /\ P!Ownership /\ Next => Flow'
<1> SUFFICES ASSUME Flow, P!Ownership, Next PROVE Flow'
  OBVIOUS
<1>1. CASE Main
  BY <1>1, DecodeFlow, DecodeNoBufferFlow, SendFlow, ReturnFlow, EnvelopeFlow, SynchronizeFlow, ReplyFlow,
     ReleaseRequestFlow, ReleaseReplyFlow
  DEF Next, Main
<1>2. ASSUME NEW i \in Servers, Call(i)
      PROVE  Flow'
  BY <1>2, CallMoves, CallKeepsFlow, FaultKeepsFlow
<1>3. CASE JoinClientThread
  BY <1>3, JoinerFlow DEF Next
<1> QED
  BY <1>1, <1>2, <1>3 DEF Next

-----------------------------------------------------------------------------
(* What a step does to the rings: one operation of one of them, on a ring  *)
(* that exists, and outside ASYNC not on one that is being read into.      *)

Quiet(r) == r \in live /\ (mode # "ASYNC" => dest[r] = -1)

RingStep(r) ==
    \/ Quiet(r) /\ \E b \in P!Keys : P!FeedAlloc(r, b)
    \/ \E n \in P!Sizes, d \in Data : P!FeedRead(r, n, d)
    \/ Quiet(r) /\ (P!FeedFull(r) \/ P!FeedNoBuffer(r))
    \/ Quiet(r) /\ P!buffer_has_been_sent(r)
    \/ Quiet(r) /\ P!free_circular_buffer(r)

LEMMA ReadAllocRing ==
    ASSUME Flow, P!Ownership, NEW i \in Servers,
           NEW step \in Steps \ InRead, NEW next, ReadAlloc(i, step, next)
    PROVE  RingStep(i)
<1>1. PICK b \in free : R!FeedAlloc(i, b)
  BY DEF ReadAlloc
<1>2. b \in P!Keys /\ P!FeedAlloc(i, b)
  BY <1>1, SameOperations DEF P!Ownership, P!TypeOK
<1>3. Quiet(i)
  BY DEF ReadAlloc, UsesReply, Quiet, Flow, Busy
<1> QED
  BY <1>2, <1>3 DEF RingStep

LEMMA FeedReadRing ==
    ASSUME NEW r \in Rings, NEW n \in -1 .. 2, NEW d \in Data, R!FeedRead(r, n, d)
    PROVE  RingStep(r)
BY SameOperations DEF RingStep, P!Sizes, MaxSize

(* A call works on the ring of its reply, but for marking the request.     *)
LEMMA CallRing ==
    ASSUME Flow, P!Ownership, NEW i \in Servers, Call(i)
    PROVE  UNCHANGED ringVars \/ RingStep(i) \/ (SendMark(i) /\ RingStep(0))
<1>0. i \in Rings /\ 0 \in Rings /\ "reply" \in Data
  BY ServerOrder DEF Data
<1>1. CASE \/ connect_to_server(i) \/ send_request(i) \/ SendTest(i) \/ SendGet(i)
           \/ SendPush(i) \/ RequestGone(i) \/ receive_reply(i) \/ ReplyGone(i)
           \/ AcceptNoBuffer(i) \/ HeaderComplete(i) \/ BodyNoBuffer(i)
  BY <1>1
  DEF connect_to_server, send_request, SendTest, SendGet, SendPush, RequestGone,
      receive_reply, ReplyGone, AcceptNoBuffer, HeaderComplete, BodyNoBuffer,
      ReadEnvelope, Crash
<1>2. CASE SendMark(i)
  <2>1. UNCHANGED ringVars \/ P!buffer_has_been_sent(0)
    BY <1>2, SameOperations DEF SendMark, MarkSent
  <2>2. Quiet(0)
    BY <1>2 DEF SendMark, UsesRequest, Quiet, Flow, Busy, Started, Reading
  <2> QED
    BY <1>2, <2>1, <2>2 DEF RingStep
<1>3. CASE AcceptAlloc(i) \/ HeaderAlloc(i) \/ BodyAlloc(i)
  BY <1>0, <1>3, ReadAllocRing
  DEF AcceptAlloc, HeaderAlloc, BodyAlloc, Steps, InRead, Early
<1>4. CASE AcceptRead(i) \/ HeaderRead(i) \/ BodyRead(i)
  <2>1. R!FeedRead(i, 1, "reply")
    BY <1>4 DEF AcceptRead, HeaderRead, BodyRead, ReadData
  <2> QED
    BY <1>0, <2>1, FeedReadRing
<1>5. CASE HeaderEnd(i) \/ BodyEnd(i)
  <2>1. \E n \in {-1, 0} : R!FeedRead(i, n, "reply")
    BY <1>5 DEF HeaderEnd, BodyEnd
  <2> QED
    BY <1>0, <2>1, FeedReadRing
<1>6. CASE HeaderNoBuffer(i)
  <2>1. P!FeedFull(i) \/ P!FeedNoBuffer(i)
    BY <1>6, SameOperations DEF HeaderNoBuffer
  <2>2. Quiet(i)
    BY <1>6 DEF HeaderNoBuffer, UsesReply, Quiet, Flow, Busy, InRead
  <2> QED
    BY <2>1, <2>2 DEF RingStep
<1> QED
  BY <1>1, <1>2, <1>3, <1>4, <1>5, <1>6 DEF Call

LEMMA MainRing ==
    ASSUME Flow, P!Ownership, Main
    PROVE  UNCHANGED ringVars \/ \E r \in Rings : RingStep(r)
<1>0. idx \in Rings /\ 0 \in Rings /\ {"request1", "request2"} \subseteq Data
  BY ServerOrder DEF Data, Flow, Control
<1>1. CASE \/ Decoded \/ SendToServer \/ CallReturns \/ FreeEnvelope
           \/ SynchronizeAll \/ ReplyTest \/ ReplyGet \/ ReplyPush
  BY <1>1
  DEF Decoded, SendToServer, CallReturns, FreeEnvelope, SynchronizeAll, Synchronize,
      ReplyTest, ReplyGet, ReplyPush, Crash
<1>2. CASE DecodeAlloc
  <2>1. PICK b \in free : R!FeedAlloc(0, b)
    BY <1>2 DEF DecodeAlloc
  <2>2. b \in P!Keys /\ P!FeedAlloc(0, b)
    BY <2>1, SameOperations DEF P!Ownership, P!TypeOK
  <2>3. Quiet(0)
    BY <1>2 DEF DecodeAlloc, At, Quiet, Flow, Allocated, Busy, Releasing
  <2> QED
    BY <1>0, <2>2, <2>3 DEF RingStep
<1>3. CASE DecodeRead \/ DecodeEnd
  BY <1>0, <1>3, FeedReadRing DEF DecodeRead, DecodeEnd
<1>4. CASE ReplyMark
  <2>1. UNCHANGED ringVars \/ P!buffer_has_been_sent(idx)
    BY <1>4, SameOperations DEF ReplyMark, MarkSent
  <2>2. idx \in live
    BY <1>4 DEF ReplyMark, At, Flow, Control, Allocated, Reading, Starting
  <2>3. mode # "ASYNC" => dest[idx] = -1
    BY <1>4 DEF ReplyMark, At, Flow, Control, Ended, RepliesAfterJoin, Forwarded,
                Busy, InRead
  <2> QED
    BY <1>0, <2>1, <2>2, <2>3 DEF RingStep, Quiet
<1>5. CASE ReleaseRequest
  <2>1. P!free_circular_buffer(0)
    BY <1>5, SameOperations DEF ReleaseRequest
  <2>2. Quiet(0)
    BY <1>5 DEF ReleaseRequest, At, Quiet, Flow, Allocated, Busy, Releasing
  <2> QED
    BY <1>0, <2>1, <2>2 DEF RingStep
<1>6. CASE ReleaseReply
  <2>1. CASE response = "wild"
    BY <1>6, <2>1 DEF ReleaseReply, Crash
  <2>2. CASE response # "wild"
    <3>1. P!free_circular_buffer(idx)
      BY <1>6, <2>2, SameOperations DEF ReleaseReply
    <3>2. idx \in live
      BY <1>6, <2>2, ServerOrder
      DEF ReleaseReply, At, Flow, Control, Allocated
    <3>3. mode # "ASYNC" => dest[idx] = -1
      BY <1>6 DEF ReleaseReply, At, Flow, Control, Ended, RepliesAfterJoin, Forwarded,
                  Busy, InRead
    <3> QED
      BY <1>0, <3>1, <3>2, <3>3 DEF RingStep, Quiet
  <2> QED
    BY <2>1, <2>2
<1>7. CASE DecodeNoBuffer
  <2>1. UNCHANGED ringVars \/ P!FeedFull(0) \/ P!FeedNoBuffer(0)
    BY <1>7, SameOperations DEF DecodeNoBuffer, Crash
  <2>2. Quiet(0)
    BY <1>7 DEF DecodeNoBuffer, At, Quiet, Flow, Allocated, Busy, Releasing
  <2> QED
    BY <1>0, <2>1, <2>2 DEF RingStep
<1> QED
  BY <1>1, <1>2, <1>3, <1>4, <1>5, <1>6, <1>7 DEF Main

LEMMA StepRing ==
    ASSUME Flow, P!Ownership, Next
    PROVE  /\ UNCHANGED ringVars \/ \E r \in Rings : RingStep(r)
           /\ mode' = mode
<1>1. CASE Main
  <2>1. mode' = mode
    BY <1>1
    DEF Main, DecodeAlloc, DecodeRead, DecodeEnd, DecodeNoBuffer, Decoded,
        SendToServer, CallReturns,
        FreeEnvelope, SynchronizeAll, Synchronize, ReplyTest, ReplyGet, ReplyPush,
        ReplyMark, ReleaseRequest, ReleaseReply, Crash, mainVars
  <2> QED
    BY <1>1, <2>1, MainRing
<1>2. ASSUME NEW i \in Servers, Call(i)
      PROVE  /\ UNCHANGED ringVars \/ \E r \in Rings : RingStep(r)
             /\ mode' = mode
  <2>1. mode' = mode
    BY <1>2, CallMoves DEF CallStep, CallFault, Crash, mainVars
  <2> QED
    BY <1>2, <2>1, CallRing, ServerOrder
<1>3. CASE JoinClientThread
  BY <1>3 DEF JoinClientThread, Crash, mainVars
<1> QED
  BY <1>1, <1>2, <1>3 DEF Next

-----------------------------------------------------------------------------
(* So every step keeps what CircularBufferProofs says of the rings.        *)

(* A refused allocation changes nothing but the result of the feed.        *)
LEMMA RefusedOwnership ==
    ASSUME P!Ownership, NEW r \in Rings, P!FeedFull(r) \/ P!FeedNoBuffer(r)
    PROVE  P!Ownership' /\ P!Keeps
<1>1. /\ UNCHANGED <<free, messages, live, buffers, data_sizes, last_sent,
                     next_to_be_received, dest>>
      /\ ret' = [ret EXCEPT ![r] = -1] \/ ret' = [ret EXCEPT ![r] = -2]
  BY DEF P!FeedFull, P!FeedNoBuffer
<1>2. \A s \in Rings : P!Window(s)' = P!Window(s) /\ P!KeysOf(s)' = P!KeysOf(s)
  BY <1>1, RingAssumptions, P!UntouchedKeys DEF P!Untouched
<1>3. P!TypeOK'
  <2>1. -1 \in P!Sizes
    BY DEF P!Sizes, MaxSize
  <2>2. ret' \in [Rings -> P!Sizes \union {-2}]
    BY <1>1, <2>1 DEF P!Ownership, P!TypeOK
  <2> QED
    BY <1>1, <2>2 DEF P!Ownership, P!TypeOK
<1>4. P!EntriesOwnBuffers'
  BY <1>1, <1>2 DEF P!Ownership, P!TypeOK, P!EntriesOwnBuffers, P!Owned
<1> QED
  BY <1>1, <1>2, <1>3, <1>4 DEF P!Ownership, P!Keeps

LEMMA RingOwnership ==
    ASSUME P!Ownership, NEW r \in Rings, RingStep(r)
    PROVE  P!Ownership' /\ P!Moves(r)
<1>1. ASSUME r \in live, NEW b \in P!Keys, P!FeedAlloc(r, b)
      PROVE  P!Ownership' /\ P!Moves(r)
  BY <1>1, RingAssumptions, P!AllocStep DEF P!Moves
<1>2. ASSUME NEW n \in P!Sizes, NEW d \in Data, P!FeedRead(r, n, d)
      PROVE  P!Ownership' /\ P!Moves(r)
  BY <1>2, RingAssumptions, P!ReadStep DEF P!Moves
<1>3. CASE r \in live /\ P!buffer_has_been_sent(r)
  <2>1. P!Ownership' /\ P!Returns(r, buffers[r][last_sent[r]]) /\ last_sent[r] \in P!Window(r)
    BY <1>3, RingAssumptions, P!SentStep
  <2>2. buffers[r][last_sent[r]] \in P!Keys
    BY <1>3, <2>1, RingAssumptions, P!NamedKeys
  <2> QED
    BY <2>1, <2>2 DEF P!Moves
<1>4. CASE r \in live /\ P!free_circular_buffer(r)
  BY <1>4, RingAssumptions, P!FreeStep DEF P!Moves
<1>5. CASE P!FeedFull(r) \/ P!FeedNoBuffer(r)
  BY <1>5, RefusedOwnership DEF P!Moves
<1> QED
  BY <1>1, <1>2, <1>3, <1>4, <1>5 DEF RingStep, Quiet

LEMMA RingsKept ==
    ASSUME P!Ownership, mode # "ASYNC" => P!IInv, mode' = mode,
           UNCHANGED ringVars \/ \E r \in Rings : RingStep(r)
    PROVE  /\ P!Ownership'
           /\ mode # "ASYNC" => P!IInv'
           /\ P!Lost' = P!Lost \/ P!LostByFree
<1>1. ASSUME NEW r \in Rings, RingStep(r)
      PROVE  /\ P!Ownership'
             /\ mode # "ASYNC" => P!IInv'
             /\ P!Lost' = P!Lost \/ P!LostByFree
  <2>1. P!Ownership' /\ P!Moves(r)
    BY <1>1, RingOwnership
  <2>2. mode # "ASYNC" => P!Operation(r)
    BY <1>1 DEF RingStep, Quiet, P!Operation, P!Idle
  <2>3. mode # "ASYNC" => P!IInv'
    BY <2>2, RingAssumptions, P!OperationInv
  <2>4. P!Disjoint
    BY RingAssumptions, P!OwnershipParts DEF P!Ownership
  <2>5. P!Lost' = P!Lost \/ P!LostByFree
    BY <2>1, <2>4, RingAssumptions, P!MovesLose
  <2> QED
    BY <2>1, <2>3, <2>5
<1>2. CASE UNCHANGED ringVars
  <2>1. UNCHANGED P!vars
    BY <1>2 DEF ringVars, P!vars
  <2>2. \A r \in Rings : P!Window(r)' = P!Window(r) /\ P!KeysOf(r)' = P!KeysOf(r)
    BY <1>2, RingAssumptions, P!UntouchedKeys DEF ringVars, P!Untouched
  <2>3. P!TypeOK'
    BY <1>2 DEF ringVars, P!Ownership, P!TypeOK
  <2>4. P!EntriesOwnBuffers'
    BY <1>2, <2>2 DEF ringVars, P!Ownership, P!TypeOK, P!EntriesOwnBuffers, P!Owned
  <2> QED
    BY <2>1, <2>3, <2>4, RingAssumptions, P!Unchanged DEF P!Ownership
<1> QED
  BY <1>1, <1>2

(* A read goes to a buffer of its ring.                                    *)
LEMMA ReadIntoOwn ==
    ASSUME P!IInv, NEW r \in Rings, dest[r] # -1
    PROVE  dest[r] \in P!KeysOf(r)
<1>1. /\ r \in live
      /\ ~P!is_empty_circular_buffer(r)
      /\ buffers[r][P!LastReceived(r)] = dest[r]
  BY DEF P!IInv, P!RingInv, P!FeedInWindow
<1>2. last_sent[r] \in P!Entries /\ next_to_be_received[r] \in P!Entries
  BY DEF P!IInv, P!Ownership, P!TypeOK
<1>3. P!LastReceived(r) \in P!Span(last_sent[r], next_to_be_received[r])
  BY <1>1, <1>2, RingAssumptions, P!Shrinks
  DEF P!LastReceived, P!is_empty_circular_buffer
<1>4. P!LastReceived(r) \in P!Window(r)
  BY <1>3, RingAssumptions, P!Windows DEF P!IInv, P!Ownership
<1> QED
  BY <1>1, <1>4 DEF P!KeysOf

LEMMA Initially == Init => FInv
<1> SUFFICES ASSUME Init PROVE FInv
  OBVIOUS
<1>0. /\ N \in Nat \ {0} /\ Modes \subseteq {"SEQ", "SYNC", "ASYNC"}
      /\ R!Keys = P!Keys /\ R!Entries = P!Entries
      /\ 0 \in P!Entries
  BY ForwardingAssumption, SameIndices, RingAssumptions, P!CapPositive DEF P!Entries
<1>1. Control
  BY <1>0, ServerOrder
  DEF Init, Control, MainSteps, Reading, Steps, Early, Servers
<1>2. Allocated
  BY ServerOrder
  DEF Init, Allocated, Reading, Releasing, Early
<1>3. Started /\ Ended /\ NoUseAfterRelease
  BY DEF Init, Started, Ended, RepliesAfterJoin, Forwarded, NoUseAfterRelease, Reading,
         Starting
<1>4. Busy
  BY ServerOrder DEF Init, Busy, InRead
<1>5. P!TypeOK
  <2>1. [i \in P!Entries |-> -1] \in [P!Entries -> P!Keys \union {-1, 0}]
    OBVIOUS
  <2>2. [i \in P!Entries |-> -1] \in [P!Entries -> P!Sizes] /\ 0 \in P!Sizes
    BY DEF P!Sizes, MaxSize
  <2>3. live \subseteq Rings
    BY ServerOrder DEF Init
  <2> QED
    BY <1>0, <2>1, <2>2, <2>3 DEF Init, P!TypeOK
<1>6. \A r \in Rings : P!Window(r) = {} /\ P!KeysOf(r) = {}
  <2> SUFFICES ASSUME NEW r \in Rings PROVE P!Window(r) = {} /\ P!KeysOf(r) = {}
    OBVIOUS
  <2>1. last_sent[r] = 0 /\ next_to_be_received[r] = 0
    BY DEF Init
  <2>2. P!Window(r) = {}
    BY <1>0, <1>5, <2>1, RingAssumptions, P!Windows, P!EmptySpan
  <2> QED
    BY <2>2 DEF P!KeysOf
<1>7. P!Ownership
  BY <1>5, <1>6 DEF P!Ownership, P!EntriesOwnBuffers, P!Owned, P!TypeOK
<1>8. P!IInv
  <2>1. P!BlankInPool
    BY <1>0 DEF Init, P!BlankInPool
  <2>2. ASSUME NEW r \in Rings PROVE P!RingInv(r)
    BY <1>0, <1>6
    DEF Init, P!RingInv, P!NoSizeOutside, P!FeedInWindow, P!BlankUntilRead
  <2> QED
    BY <1>7, <2>1, <2>2 DEF P!IInv
<1> QED
  BY <1>1, <1>2, <1>3, <1>4, <1>7, <1>8 DEF FInv, Flow

LEMMA Stutter == UNCHANGED vars /\ Flow => Flow'
<1> SUFFICES ASSUME UNCHANGED vars, Flow PROVE Flow'
  OBVIOUS
<1>1. Control' /\ NoUseAfterRelease'
  BY DEF vars, mainVars, callVars, Flow, Control, NoUseAfterRelease
<1>2. Allocated' /\ Started' /\ Ended' /\ Busy'
  BY DEF vars, ringVars, mainVars, callVars, Flow, Allocated, Started, Ended,
         RepliesAfterJoin, Forwarded, Busy
<1> QED
  BY <1>1, <1>2 DEF Flow

LEMMA Inductive ==
    FInv /\ [Next]_vars => /\ FInv'
                           /\ P!Lost' = P!Lost \/ P!LostByFree
<1> SUFFICES ASSUME FInv, [Next]_vars
             PROVE  FInv' /\ (P!Lost' = P!Lost \/ P!LostByFree)
  OBVIOUS
<1>1. CASE Next
  BY <1>1, StepFlow, StepRing, RingsKept DEF FInv
<1>2. CASE UNCHANGED vars
  BY <1>2, Stutter, RingsKept DEF FInv, vars, mainVars
<1> QED
  BY <1>1, <1>2

-----------------------------------------------------------------------------
(* What holds of every request, with any number of servers, any pool and   *)
(* rings of any size.                                                      *)

THEOREM ForwardingConsistent == Spec => []FInv
BY Initially, Inductive, PTL DEF Spec

(* The indices, keys and positions stay in range in all three modes, ASYNC *)
(* included (request_replies.c, http_reply.c, circular_buffer.c).          *)
THEOREM TypeCorrect == Spec => []TypeOK
<1>1. FInv => TypeOK
  <2> SUFFICES ASSUME FInv PROVE TypeOK
    OBVIOUS
  <2>1. replies \subseteq Servers
    BY ServerOrder DEF FInv, Flow, Control, Allocated, Servers
  <2> QED
    BY <2>1, SameIndices, SameInvariants DEF FInv, Flow, Control, P!Ownership, TypeOK
<1> QED
  BY <1>1, ForwardingConsistent, PTL

(* Every pool buffer has one owner among the messages in progress, even    *)
(* where ASYNC sends from a ring that a thread reads into, or releases it. *)
THEOREM OneOwnerHolds == Spec => []OneOwner
<1>1. FInv => OneOwner
  BY SameInvariants DEF FInv, P!Ownership, OneOwner
<1> QED
  BY <1>1, ForwardingConsistent, PTL

(* Outside ASYNC the reply of a server is read into a buffer its message   *)
(* owns until the read returns (read_next_buffer_from_source).             *)
THEOREM ReadsStayOwned == Spec => []ReadsOwnBuffer
<1>1. FInv => ReadsOwnBuffer
  BY ReadIntoOwn, SameSets DEF FInv, ReadsOwnBuffer, R!reading
<1> QED
  BY <1>1, ForwardingConsistent, PTL

(* request_replies.c: synchronize_all_senders joins every thread before    *)
(* forward_replies, however many there are and in whatever order they run. *)
THEOREM JoinBeforeReplies == Spec => []RepliesAfterJoin
<1>1. FInv => RepliesAfterJoin
  BY DEF FInv, Flow, Ended
<1> QED
  BY <1>1, ForwardingConsistent, PTL

(* request_replies.c: outside ASYNC no call ever uses a request, a reply   *)
(* or a message after its release, and in SEQ not even a freed envelope.   *)
THEOREM NothingUsedAfterRelease == Spec => []NoUseAfterRelease
<1>1. FInv => NoUseAfterRelease
  BY DEF FInv, Flow
<1> QED
  BY <1>1, ForwardingConsistent, PTL

(* In every mode only the release of a message that still has entries      *)
(* loses pool buffers.                                                     *)
THEOREM OnlyReleaseLoses == Spec => LostOnlyByFree
<1>1. (R!Lost = P!Lost)'
  BY SameSets, PTL
<1>2. FInv /\ [Next]_vars => [R!Lost' # R!Lost =>
         \E r \in live : /\ r \notin live'
                         /\ R!Lost' = R!Lost \union R!KeysOf(r)]_(R!vars)
  BY <1>1, Inductive, SameSets DEF P!LostByFree
<1> QED
  BY <1>2, ForwardingConsistent, PTL DEF Spec, LostOnlyByFree, R!LostOnlyByFree

(* Without ASYNC the request and the replies are queues of chunks: what    *)
(* the session thread and the calls do to them, in whatever order, is one  *)
(* step of ChunkQueue at a time (circular_buffer.c as request_replies.c    *)
(* and http_reply.c use it).                                               *)
THEOREM MessagesStayQueues ==
    ASSUME "ASYNC" \notin Modes
    PROVE  Spec => [][P!Queue!Next]_(P!Queue!queueVars)
<1>1. FInv /\ FInv' /\ [Next]_vars => [P!Queue!Next]_(P!Queue!queueVars)
  <2> SUFFICES ASSUME FInv, FInv', [Next]_vars
               PROVE  [P!Queue!Next]_(P!Queue!queueVars)
    OBVIOUS
  <2>1. mode # "ASYNC" /\ mode' # "ASYNC"
    BY DEF FInv, Flow, Control
  <2>2. P!IInv /\ P!IInv'
    BY <2>1 DEF FInv
  <2>3. UNCHANGED ringVars \/ \E r \in Rings : RingStep(r)
    BY StepRing DEF FInv, vars
  <2>4. ASSUME NEW r \in Rings, RingStep(r)
        PROVE  P!Queue!Next
    <3>1. P!Operation(r)
      BY <2>1, <2>4 DEF RingStep, Quiet, P!Operation, P!Idle
    <3> QED
      BY <2>2, <3>1, RingAssumptions, P!QueueOperation
  <2>5. CASE UNCHANGED ringVars
    <3>1. \A r \in Rings : P!Chunks(r)' = P!Chunks(r)
      BY <2>2, <2>5, RingAssumptions, P!OtherChunks DEF P!Untouched, ringVars
    <3> QED
      BY <2>5, <3>1 DEF P!Queue!queueVars, P!reading, ringVars
  <2> QED
    BY <2>3, <2>4, <2>5
<1> QED
  BY <1>1, ForwardingConsistent, PTL DEF Spec

-----------------------------------------------------------------------------
(* In mode SEQ every server gets the first buffer of the request, for any  *)
(* number of servers, any pool and rings of any size.  The calls share the *)
(* ring of the request and the pool.  The first entry is filled by the     *)
(* first read and stays as it is, with its buffer, until the last call     *)
(* marks it as sent: the replies read before go to buffers of other rings. *)

(* What is sent on a connection.                                           *)
Sent == [data : Data \union {Blank}, size : P!Sizes]
Sends == received \in [Rings -> Seq(Sent)]

Unsent == {"none", "connect", "send_request", "send_test", "send_get", "send_data"}

FirstKey == buffers[0][0]
FirstRead == data_sizes[0][0] = 2 /\ messages[FirstKey] = "request1"

(* While the request is read ...                                           *)
Decoding == /\ last_sent[0] = 0
            /\ next_to_be_received[0] \in 0 .. 2
            /\ main = "decode_read" => next_to_be_received[0] # 0
            /\ main = "decode_read" /\ next_to_be_received[0] = 2 => FirstRead
            /\ main = "decode" /\ next_to_be_received[0] # 0 => FirstRead
            /\ main = "decode_spin" => next_to_be_received[0] # 0 /\ FirstRead

(* ... and until the last server has got it.                               *)
FirstReady == /\ last_sent[0] = 0
              /\ next_to_be_received[0] \in {1, 2}
              /\ FirstRead

Delivered(i) == received[i] # <<>> /\ received[i][1] = FirstChunk

Delivery ==
    /\ main \in Reading => Decoding
    /\ main \notin Reading /\ pc[N] \in Unsent \union {"send_mark"} => FirstReady
    /\ \A i \in Servers : /\ pc[i] \in Unsent => received[i] = <<>>
                          /\ pc[i] = "send_data" => snap[i] = FirstKey
                          /\ pc[i] = "send_mark" => i = N
                          /\ pc[i] \notin Unsent => Delivered(i)

DInv == /\ FInv
        /\ Sends
        /\ mode = "SEQ" => Delivery

-----------------------------------------------------------------------------
(* What has been sent stays sent.                                          *)

OnlyGrows == \A c \in Rings : received[c] # <<>> =>
                /\ received'[c] # <<>>
                /\ received'[c][1] = received[c][1]

LEMMA SendGrows ==
    ASSUME FInv, Sends, NEW t \in Rings, NEW r \in Rings, NEW c \in Rings,
           SendData(t, r, c)
    PROVE  /\ Sends' /\ OnlyGrows
           /\ \A d \in Rings \ {c} : received'[d] = received[d]
<1>1. CASE snap[t] = -1
  BY <1>1 DEF SendData, Sends, OnlyGrows
<1>2. CASE snap[t] # -1
  <2> DEFINE x == [data |-> messages[snap[t]], size |-> data_sizes[r][last_sent[r]]]
  <2>1. x \in Sent
    <3>1. snap[t] \in P!Keys
      BY <1>2 DEF FInv, Flow, Control
    <3>2. messages[snap[t]] \in Data \union {Blank}
      BY <3>1 DEF FInv, P!Ownership, P!TypeOK
    <3>3. data_sizes[r][last_sent[r]] \in P!Sizes
      BY DEF FInv, P!Ownership, P!TypeOK
    <3> QED
      BY <3>2, <3>3 DEF Sent
  <2>2. received' = [received EXCEPT ![c] = Append(received[c], x)]
    BY <1>2 DEF SendData
  <2>3. received[c] \in Seq(Sent)
    BY DEF Sends
  <2> HIDE DEF x
  <2>4. /\ Append(received[c], x) \in Seq(Sent) \ {<<>>}
        /\ received[c] # <<>> => Append(received[c], x)[1] = received[c][1]
    BY <2>1, <2>3, AppendProperties
  <2> QED
    BY <2>2, <2>4 DEF Sends, OnlyGrows
<1> QED
  BY <1>1, <1>2

LEMMA CallSendsOnce ==
    ASSUME NEW i \in Servers, Call(i), ~SendPush(i)
    PROVE  UNCHANGED received
<1>1. CASE connect_to_server(i) \/ send_request(i) \/ receive_reply(i)
  BY <1>1
  DEF connect_to_server, send_request, receive_reply, ReadEnvelope, Crash, callVars
<1>2. CASE SendTest(i) \/ SendGet(i) \/ SendMark(i)
  BY <1>2 DEF SendTest, SendGet, SendMark
<1>3. CASE RequestGone(i) \/ ReplyGone(i) \/ AcceptNoBuffer(i)
  BY <1>3 DEF RequestGone, ReplyGone, AcceptNoBuffer, Crash, callVars
<1>4. CASE AcceptAlloc(i) \/ HeaderAlloc(i) \/ BodyAlloc(i)
  BY <1>4 DEF AcceptAlloc, HeaderAlloc, BodyAlloc, ReadAlloc
<1>5. CASE AcceptRead(i) \/ HeaderRead(i) \/ BodyRead(i)
  BY <1>5 DEF AcceptRead, HeaderRead, BodyRead, ReadData
<1>6. CASE \/ HeaderEnd(i) \/ HeaderNoBuffer(i) \/ HeaderComplete(i)
           \/ BodyNoBuffer(i) \/ BodyEnd(i)
  BY <1>6 DEF HeaderEnd, HeaderNoBuffer, HeaderComplete, BodyNoBuffer, BodyEnd
<1> QED
  BY <1>1, <1>2, <1>3, <1>4, <1>5, <1>6 DEF Call

LEMMA StepGrows ==
    ASSUME FInv, Sends, Next
    PROVE  Sends' /\ OnlyGrows
<1>1. CASE UNCHANGED received
  BY <1>1 DEF Sends, OnlyGrows
<1>2. ASSUME NEW i \in Servers, SendPush(i)
      PROVE  Sends' /\ OnlyGrows
  BY <1>2, SendGrows, ServerOrder DEF SendPush
<1>3. CASE ReplyPush
  <2>1. idx \in Rings
    BY ServerOrder DEF FInv, Flow, Control
  <2> QED
    BY <1>3, <2>1, SendGrows, ServerOrder DEF ReplyPush
<1>4. ASSUME NEW i \in Servers, Call(i), ~SendPush(i)
      PROVE  UNCHANGED received
  BY <1>4, CallSendsOnce
<1>5. ASSUME Main, ~ReplyPush
      PROVE  UNCHANGED received
  <2>1. CASE \/ DecodeAlloc \/ DecodeRead \/ DecodeEnd \/ DecodeNoBuffer \/ Decoded
             \/ ReplyMark \/ ReleaseRequest
    BY <2>1
    DEF DecodeAlloc, DecodeRead, DecodeEnd, DecodeNoBuffer, Decoded, ReplyMark,
        ReleaseRequest, Crash, callVars
  <2>2. CASE SendToServer \/ CallReturns \/ FreeEnvelope \/ SynchronizeAll
    BY <2>2
    DEF SendToServer, CallReturns, FreeEnvelope, SynchronizeAll, Synchronize, callVars
  <2>3. CASE ReplyTest \/ ReplyGet \/ ReleaseReply
    BY <2>3 DEF ReplyTest, ReplyGet, ReleaseReply, Crash, callVars
  <2> QED
    BY <1>5, <2>1, <2>2, <2>3 DEF Main
<1>6. JoinClientThread => UNCHANGED received
  BY DEF JoinClientThread, Crash, callVars
<1> QED
  BY <1>1, <1>2, <1>3, <1>4, <1>5, <1>6 DEF Next

-----------------------------------------------------------------------------
(* Nothing that happens to another ring changes the first entry.           *)

LEMMA OtherRingKeeps ==
    ASSUME P!IInv, mode # "ASYNC", NEW r \in Rings \ {0}, RingStep(r)
    PROVE  /\ P!Untouched(0)
           /\ \A k \in P!KeysOf(0) : messages'[k] = messages[k]
<1>0. P!Ownership /\ 0 \in Rings \ {r}
  BY ServerOrder DEF P!IInv
<1>1. ASSUME NEW k \in P!KeysOf(r),
             \A b \in P!Keys \ {k} : messages'[b] = messages[b]
      PROVE  \A b \in P!KeysOf(0) : messages'[b] = messages[b]
  <2>1. P!Disjoint
    BY <1>0, RingAssumptions, P!OwnershipParts DEF P!Ownership
  <2> QED
    BY <1>0, <1>1, <2>1 DEF P!Disjoint
<1>2. ASSUME r \in live, NEW b \in P!Keys, P!FeedAlloc(r, b)
      PROVE  P!OthersUntouched(r) /\ messages' = messages
  BY <1>0, <1>2, RingAssumptions, P!AllocStep DEF P!FeedAlloc
<1>3. ASSUME NEW n \in P!Sizes, NEW d \in Data, P!FeedRead(r, n, d)
      PROVE  /\ P!OthersUntouched(r)
             /\ \A b \in P!KeysOf(0) : messages'[b] = messages[b]
  <2>1. dest[r] \in P!KeysOf(r)
    BY <1>3, ReadIntoOwn DEF P!FeedRead
  <2>2. \A b \in P!Keys \ {dest[r]} : messages'[b] = messages[b]
    BY <1>0, <1>3 DEF P!FeedRead, P!Ownership, P!TypeOK
  <2>3. P!OthersUntouched(r)
    BY <1>0, <1>3, RingAssumptions, P!ReadStep
  <2> QED
    BY <1>1, <2>1, <2>2, <2>3
<1>4. ASSUME r \in live, P!buffer_has_been_sent(r)
      PROVE  /\ P!OthersUntouched(r)
             /\ \A b \in P!KeysOf(0) : messages'[b] = messages[b]
  <2> DEFINE k == buffers[r][last_sent[r]]
  <2>1. P!OthersUntouched(r) /\ last_sent[r] \in P!Window(r)
    BY <1>0, <1>4, RingAssumptions, P!SentStep
  <2>2. k \in P!KeysOf(r)
    BY <1>0, <1>4, <2>1, RingAssumptions, P!NamedKeys
  <2>3. \A b \in P!Keys \ {k} : messages'[b] = messages[b]
    BY <1>0, <1>4 DEF P!buffer_has_been_sent, P!Ownership, P!TypeOK
  <2> HIDE DEF k
  <2> QED
    BY <1>1, <2>1, <2>2, <2>3
<1>5. ASSUME r \in live, P!free_circular_buffer(r)
      PROVE  P!OthersUntouched(r) /\ messages' = messages
  BY <1>0, <1>5, RingAssumptions, P!FreeStep DEF P!free_circular_buffer
<1>6. ASSUME P!FeedFull(r) \/ P!FeedNoBuffer(r)
      PROVE  P!OthersUntouched(r) /\ messages' = messages
  BY <1>6 DEF P!FeedFull, P!FeedNoBuffer, P!OthersUntouched, P!Untouched
<1> QED
  BY <1>0, <1>2, <1>3, <1>4, <1>5, <1>6 DEF RingStep, Quiet, P!OthersUntouched

(* A ring that starts at entry 0 and is not empty owns its first buffer.   *)
LEMMA FirstOwned ==
    ASSUME P!Ownership, 0 \in live, last_sent[0] = 0, next_to_be_received[0] # 0
    PROVE  /\ FirstKey \in P!KeysOf(0)
           /\ FirstKey \in P!Keys
           /\ 0 \in P!Window(0)
           /\ 0 \in P!Entries
<1>1. last_sent[0] \in P!Entries /\ next_to_be_received[0] \in P!Entries
  BY ServerOrder DEF P!Ownership, P!TypeOK
<1>2. 0 \in P!Span(last_sent[0], next_to_be_received[0])
  BY <1>1, RingAssumptions, P!Shrinks
<1>3. 0 \in P!Window(0)
  BY <1>2, RingAssumptions, ServerOrder, P!Windows DEF P!Ownership
<1>4. buffers[0][0] \in P!KeysOf(0) /\ buffers[0][0] \in P!Keys
  BY <1>3, RingAssumptions, P!NamedKeys
<1> QED
  BY <1>1, <1>3, <1>4 DEF FirstKey

LEMMA OtherRingReady ==
    ASSUME P!IInv, mode = "SEQ", 0 \in live, FirstReady,
           NEW r \in Rings \ {0}, RingStep(r)
    PROVE  FirstReady' /\ FirstKey' = FirstKey
<1>1. P!Untouched(0) /\ \A k \in P!KeysOf(0) : messages'[k] = messages[k]
  BY OtherRingKeeps
<1>2. FirstKey \in P!KeysOf(0)
  BY FirstOwned DEF FirstReady, P!IInv
<1> QED
  BY <1>1, <1>2 DEF FirstReady, FirstRead, FirstKey, P!Untouched

(* In mode SEQ the call that goes on is the one the loop has come to.      *)
LEMMA OneCall ==
    ASSUME Flow, mode = "SEQ", NEW i \in Servers, pc[i] \notin {"none", "done"}
    PROVE  /\ main = "call" /\ i = idx
           /\ 0 \in live
           /\ \A j \in Servers \ {i} : pc[j] \in {"none", "done"}
           /\ i # N => pc[N] = "none"
<1>1. main \in Starting
  BY DEF Flow, Control, Started, Ended, Forwarded, Starting, Reading
<1>2. /\ \A j \in 1 .. idx - 1 : pc[j] = "done"
      /\ main = "free_env" => pc[idx] = "done"
      /\ main = "forward" => \A j \in idx .. N : pc[j] = "none"
      /\ main \in {"call", "free_env"} => \A j \in idx + 1 .. N : pc[j] = "none"
  BY <1>1 DEF Flow, Started, Ended
<1>3. idx \in 1 .. N /\ i \in 1 .. N /\ N \in Nat
  BY ForwardingAssumption DEF Flow, Control, Servers
<1>4. main = "call"
  <2>1. ASSUME main = "forward" PROVE FALSE
    <3>1. i \in 1 .. idx - 1 \/ i \in idx .. N
      BY <1>3
    <3> QED
      BY <1>2, <2>1, <3>1
  <2>2. ASSUME main = "free_env" PROVE FALSE
    <3>1. i \in 1 .. idx - 1 \/ i = idx \/ i \in idx + 1 .. N
      BY <1>3
    <3> QED
      BY <1>2, <2>2, <3>1
  <2> QED
    BY <1>1, <2>1, <2>2 DEF Starting
<1>5. \A j \in Servers : j \in 1 .. idx - 1 \/ j = idx \/ j \in idx + 1 .. N
  BY <1>3 DEF Servers
<1>6. i = idx
  BY <1>2, <1>4, <1>5
<1>7. 0 \in live
  BY <1>4 DEF Flow, Allocated, Releasing
<1>8. i # N => N \in idx + 1 .. N
  BY <1>3, <1>6
<1> QED
  BY <1>2, <1>4, <1>5, <1>6, <1>7, <1>8

LEMMA CallReady ==
    ASSUME DInv, mode = "SEQ", NEW i \in Servers, Call(i), ~SendMark(i), FirstReady
    PROVE  FirstReady' /\ FirstKey' = FirstKey
<1>1. P!IInv /\ Flow /\ P!Ownership
  BY DEF DInv, FInv
<1>2. UNCHANGED ringVars \/ RingStep(i)
  BY <1>1, CallRing
<1>3. CASE UNCHANGED ringVars
  BY <1>3 DEF ringVars, FirstReady, FirstRead, FirstKey
<1>4. CASE RingStep(i) /\ ~UNCHANGED ringVars
  <2>1. pc[i] \notin {"none", "done"}
    <3>1. CallStep(i) \/ CallFault
      BY <1>1, CallMoves
    <3> QED
      BY <1>4, <3>1 DEF CallStep, CallFault, Crash
  <2>2. 0 \in live
    BY <1>1, <2>1, OneCall
  <2> QED
    BY <1>1, <1>4, <2>2, ServerOrder, OtherRingReady
<1> QED
  BY <1>2, <1>3, <1>4

(* The call of another server, or this one having its buffer already.      *)
Past == {"receive", "done"} \union (Steps \ Early)

LEMMA PastStays ==
    ASSUME NEW i \in Servers, pc \in [Servers -> Steps], Call(i), pc[i] \in Past
    PROVE  /\ pc'[i] \in Past
           /\ \A j \in Servers \ {i} : pc'[j] = pc[j]
           /\ snap' = snap
           /\ ~SendMark(i)
<1>1. ~(\/ connect_to_server(i) \/ send_request(i) \/ SendTest(i) \/ SendGet(i)
        \/ SendPush(i) \/ SendMark(i) \/ RequestGone(i))
  BY DEF connect_to_server, send_request, ReadEnvelope, SendTest, SendGet, SendPush,
         SendMark, UsesRequest, RequestGone, Past, Steps, Early, InRead
<1> DEFINE Goal == /\ pc'[i] \in Past
                   /\ \A j \in Servers \ {i} : pc'[j] = pc[j]
                   /\ snap' = snap
<1>2. ASSUME NEW next \in Past, Goto(i, next), snap' = snap
      PROVE  Goal
  BY <1>2 DEF Goto
<1>3. ASSUME NEW kind, Crash(kind)
      PROVE  Goal
  BY <1>3 DEF Crash, callVars
<1>4. {"first", "first_read", "header", "header_read", "spin", "body", "body_read",
       "done"} \subseteq Past
  BY DEF Past, Steps, Early, InRead
<1> SUFFICES Goal
  BY <1>1
<1> HIDE DEF Goal
<1>5. CASE receive_reply(i) \/ ReplyGone(i) \/ AcceptNoBuffer(i)
  BY <1>2, <1>3, <1>4, <1>5 DEF receive_reply, ReadEnvelope, ReplyGone, AcceptNoBuffer
<1>6. CASE AcceptAlloc(i) \/ HeaderAlloc(i) \/ BodyAlloc(i)
  BY <1>2, <1>4, <1>6 DEF AcceptAlloc, HeaderAlloc, BodyAlloc, ReadAlloc
<1>7. CASE AcceptRead(i) \/ HeaderRead(i) \/ BodyRead(i)
  BY <1>2, <1>4, <1>7 DEF AcceptRead, HeaderRead, BodyRead, ReadData
<1>8. CASE \/ HeaderEnd(i) \/ HeaderNoBuffer(i) \/ HeaderComplete(i)
           \/ BodyNoBuffer(i) \/ BodyEnd(i)
  BY <1>2, <1>4, <1>8
  DEF HeaderEnd, HeaderNoBuffer, HeaderComplete, BodyNoBuffer, BodyEnd, BodyComplete
<1> QED
  BY <1>1, <1>5, <1>6, <1>7, <1>8 DEF Call

(* A call that has not sent yet: it finds the ring not empty, takes the    *)
(* first buffer, and sends it with its size.                               *)
LEMMA SendDelivers ==
    ASSUME DInv, mode = "SEQ", fault = "none",
           NEW i \in Servers, Call(i), CallStep(i), pc[i] \notin Past
    PROVE  /\ pc'[i] \in Unsent => received'[i] = <<>>
           /\ pc'[i] = "send_data" => snap'[i] = FirstKey'
           /\ pc'[i] = "send_mark" => i = N
           /\ pc'[i] \notin Unsent => Delivered(i)'
           /\ SendMark(i) => pc'[i] = "receive"
<1>0. /\ P!Ownership /\ Flow /\ pc \in [Servers -> Steps] /\ i \in Rings
      /\ Delivery /\ pc[i] \in Unsent \union {"send_mark"}
  BY ServerOrder DEF DInv, FInv, Flow, Control, CallStep, Past, Steps, Early, Unsent
<1>1. /\ FirstReady /\ 0 \in live
      /\ FirstKey \in P!Keys
  <2>1. main = "call" /\ 0 \in live /\ (i # N => pc[N] = "none")
    BY <1>0, OneCall DEF CallStep
  <2>2. FirstReady
    BY <1>0, <2>1 DEF Delivery, Reading, Unsent
  <2> QED
    BY <1>0, <2>1, <2>2, FirstOwned DEF FirstReady
<1>2. ~(\/ receive_reply(i) \/ ReplyGone(i) \/ AcceptAlloc(i) \/ AcceptNoBuffer(i)
        \/ AcceptRead(i) \/ HeaderAlloc(i) \/ HeaderRead(i) \/ HeaderEnd(i)
        \/ HeaderNoBuffer(i) \/ HeaderComplete(i) \/ BodyAlloc(i) \/ BodyRead(i) \/ BodyNoBuffer(i) \/ BodyEnd(i))
  BY <1>0
  DEF receive_reply, ReadEnvelope, ReplyGone, AcceptAlloc, AcceptNoBuffer, AcceptRead,
      HeaderAlloc, HeaderRead, HeaderEnd, HeaderNoBuffer, HeaderComplete, BodyAlloc,
      BodyRead, BodyNoBuffer, BodyEnd, ReadAlloc, ReadData, UsesReply, Unsent
<1>3. ~RequestGone(i)
  BY <1>1 DEF RequestGone
<1>4. CASE connect_to_server(i) \/ send_request(i)
  <2>1. pc'[i] \in {"send_request", "send_test"} /\ received' = received
    <3>1. \A kind \in {"envelope", "reply"} : ~Crash(kind)
      BY DEF CallStep, Crash
    <3> QED
      BY <1>0, <1>4, <3>1 DEF connect_to_server, send_request, ReadEnvelope, Goto
  <2>2. pc[i] \in Unsent /\ ~SendMark(i)
    BY <1>4 DEF connect_to_server, send_request, ReadEnvelope, Unsent, SendMark, UsesRequest
  <2> QED
    BY <1>0, <2>1, <2>2 DEF Delivery, Unsent
<1>5. CASE SendTest(i)
  <2>1. ~R!is_empty_circular_buffer(0)
    BY <1>1 DEF FirstReady, R!is_empty_circular_buffer
  <2>2. pc'[i] = "send_get" /\ received' = received /\ pc[i] = "send_test"
    BY <1>0, <1>5, <2>1 DEF SendTest, UsesRequest, Goto
  <2> QED
    BY <1>0, <2>2 DEF Delivery, Unsent, SendMark, UsesRequest
<1>6. CASE SendGet(i)
  <2>1. snap' = [snap EXCEPT ![i] = FirstKey] /\ UNCHANGED ringVars
    <3>1. ~R!is_empty_circular_buffer(0) /\ last_sent[0] = 0
      BY <1>1 DEF FirstReady, R!is_empty_circular_buffer
    <3> QED
      BY <1>6, <3>1 DEF SendGet, GetBuffer, FirstKey
  <2>2. snap'[i] = FirstKey'
    BY <1>0, <2>1 DEF Flow, Control, ringVars, FirstKey
  <2>3. pc'[i] = "send_data" /\ received' = received /\ pc[i] = "send_get"
    BY <1>0, <1>6 DEF SendGet, UsesRequest, Goto
  <2> QED
    BY <1>0, <2>2, <2>3 DEF Delivery, Unsent, SendMark, UsesRequest
<1>7. CASE SendPush(i)
  <2>1. pc[i] = "send_data" /\ snap[i] = FirstKey /\ received[i] = <<>>
    BY <1>0, <1>7 DEF SendPush, UsesRequest, Delivery, Unsent
  <2>2. received' = [received EXCEPT ![i] = Append(received[i], FirstChunk)]
    <3>1. snap[i] # -1
      BY <1>1, <2>1 DEF P!Keys
    <3>2. [data |-> messages[snap[i]], size |-> data_sizes[0][last_sent[0]]] = FirstChunk
      BY <1>1, <2>1 DEF FirstReady, FirstRead, FirstChunk
    <3> QED
      BY <1>7, <3>1, <3>2 DEF SendPush, SendData
  <2>3. received'[i] = <<FirstChunk>>
    BY <1>0, <2>1, <2>2 DEF DInv, Sends
  <2>4. Delivered(i)'
    BY <2>3 DEF Delivered, FirstChunk
  <2>5. pc'[i] = IF i = N THEN "send_mark" ELSE "receive"
    BY <1>0, <1>7 DEF SendPush, Goto
  <2> QED
    BY <2>1, <2>4, <2>5 DEF Unsent, SendMark, UsesRequest
<1>8. CASE SendMark(i)
  <2>1. pc[i] = "send_mark" /\ pc'[i] = "receive" /\ received' = received
    BY <1>0, <1>8 DEF SendMark, UsesRequest, Goto
  <2> QED
    BY <1>0, <2>1 DEF Delivery, Unsent, Delivered
<1> QED
  BY <1>2, <1>3, <1>4, <1>5, <1>6, <1>7, <1>8 DEF Call

LEMMA CallDelivery ==
    ASSUME DInv, mode = "SEQ", fault = "none", NEW i \in Servers, Call(i)
    PROVE  Delivery'
<1>0. /\ P!Ownership /\ Flow /\ pc \in [Servers -> Steps] /\ Delivery /\ Sends
  BY DEF DInv, FInv, Flow, Control
<1>1. CASE CallFault
  BY <1>0, <1>1
  DEF CallFault, Crash, ringVars, mainVars, callVars, Delivery, Decoding, FirstReady,
      FirstRead, FirstKey, Delivered
<1>2. CASE CallStep(i)
  <2>1. /\ main = "call" /\ main' = "call"
        /\ \A j \in Servers \ {i} : pc[j] \in {"none", "done"}
        /\ i # N => pc[N] = "none"
    BY <1>0, <1>2, OneCall DEF CallStep, mainVars
  <2>2. \A j \in Servers \ {i} : pc'[j] = pc[j]
    BY <1>2 DEF CallStep, Goto
  <2>3. \A j \in Servers \ {i} : received'[j] = received[j]
    BY CallSendsOnce, SendGrows, ServerOrder DEF SendPush, DInv
  <2>4. ASSUME pc'[N] \in Unsent \union {"send_mark"}
        PROVE  FirstReady'
    <3>1. N = i => pc[i] \notin Past
      BY <1>0, <2>4, PastStays DEF Past, Steps, Early, InRead, Unsent
    <3>2. FirstReady
      BY <1>0, <2>1, <3>1, ServerOrder
      DEF Delivery, Reading, Past, Steps, Early, Unsent
    <3>3. ~SendMark(i)
      <4>1. ASSUME SendMark(i) PROVE FALSE
        <5>1. pc[i] = "send_mark" /\ pc'[i] = "receive"
          BY <1>0, <4>1 DEF SendMark, UsesRequest, Goto
        <5>2. i = N
          BY <1>0, <5>1 DEF Delivery
        <5> QED
          BY <2>4, <5>1, <5>2 DEF Unsent
      <4> QED
        BY <4>1
    <3> QED
      BY <3>2, <3>3, CallReady
  <2>5. ASSUME pc[i] \in Past
        PROVE  /\ pc'[i] \in Past /\ snap' = snap /\ received' = received
               /\ Delivered(i)
    <3>1. pc[i] \notin Unsent /\ ~SendPush(i)
      BY <2>5 DEF Past, Steps, Early, InRead, Unsent, SendPush, UsesRequest
    <3> QED
      BY <1>0, <2>5, <3>1, PastStays, CallSendsOnce DEF Delivery
  <2>6. /\ pc'[i] \in Unsent => received'[i] = <<>>
        /\ pc'[i] = "send_data" => snap'[i] = FirstKey'
        /\ pc'[i] = "send_mark" => i = N
        /\ pc'[i] \notin Unsent => Delivered(i)'
    <3>1. CASE pc[i] \in Past
      BY <2>5, <3>1 DEF Past, Steps, Early, InRead, Unsent, Delivered
    <3>2. CASE pc[i] \notin Past
      BY <1>2, <3>2, SendDelivers
    <3> QED
      BY <3>1, <3>2
  <2>7. ASSUME NEW j \in Servers \ {i}
        PROVE  /\ pc'[j] \in Unsent => received'[j] = <<>>
               /\ pc'[j] = "send_data" => snap'[j] = FirstKey'
               /\ pc'[j] = "send_mark" => j = N
               /\ pc'[j] \notin Unsent => Delivered(j)'
    BY <1>0, <2>1, <2>2, <2>3 DEF Delivery, Unsent, Delivered
  <2>8. \A j \in Servers : /\ pc'[j] \in Unsent => received'[j] = <<>>
                           /\ pc'[j] = "send_data" => snap'[j] = FirstKey'
                           /\ pc'[j] = "send_mark" => j = N
                           /\ pc'[j] \notin Unsent => Delivered(j)'
    BY <2>6, <2>7
  <2> QED
    BY <2>1, <2>4, <2>8 DEF Delivery, Reading
<1> QED
  BY <1>0, <1>1, <1>2, CallMoves

-----------------------------------------------------------------------------
(* The request is read into the first entries of its ring.                 *)

LEMMA DecodeAllocDelivery ==
    ASSUME DInv, mode = "SEQ", DecodeAlloc
    PROVE  Decoding'
<1>1. PICK b \in free : P!FeedAlloc(0, b)
  BY SameOperations DEF DecodeAlloc
<1> DEFINE n == next_to_be_received[0]
<1>2. /\ P!Ownership /\ P!TypeOK /\ Flow /\ Delivery /\ b \in P!Keys /\ 0 \in Rings
      /\ main \in {"decode", "decode_spin"} /\ main' = "decode_read"
      /\ n < RequestChunks
  BY <1>1, ServerOrder DEF DInv, FInv, P!Ownership, P!TypeOK, DecodeAlloc
<1>3. 0 \in live /\ last_sent[0] = 0 /\ n \in {0, 1} /\ (n = 1 => FirstRead)
  BY <1>2, ForwardingAssumption
  DEF Flow, Allocated, Delivery, Decoding, Reading, Releasing
<1>4. /\ last_sent' = last_sent /\ messages' = messages
      /\ next_to_be_received' = [next_to_be_received EXCEPT ![0] = P!circular_increment(n)]
      /\ buffers' = [buffers EXCEPT ![0][n] = b]
      /\ data_sizes' = [data_sizes EXCEPT ![0][n] = -1]
      /\ P!circular_increment(n) # 0
  BY <1>1, <1>3 DEF P!FeedAlloc, P!alloc_entry, P!is_full_circular_buffer
<1>5. P!circular_increment(n) = n + 1
  <2>1. n \in P!Entries
    BY <1>2 DEF P!TypeOK
  <2> QED
    BY <1>4, <2>1, RingAssumptions, P!Wraps
<1>6. n = 1 => /\ buffers'[0][0] = buffers[0][0]
               /\ data_sizes'[0][0] = data_sizes[0][0]
  BY <1>2, <1>4 DEF P!TypeOK
<1>7. next_to_be_received'[0] = n + 1
  BY <1>2, <1>4, <1>5 DEF P!TypeOK
<1> QED
  BY <1>2, <1>3, <1>4, <1>6, <1>7 DEF Decoding, FirstRead, FirstKey

LEMMA DecodeReadDelivery ==
    ASSUME DInv, mode = "SEQ", DecodeRead \/ DecodeEnd
    PROVE  Decoding'
<1> DEFINE n == next_to_be_received[0]
<1>1. /\ P!IInv /\ P!Ownership /\ P!TypeOK /\ Flow /\ Delivery /\ 0 \in Rings
      /\ main = "decode_read" /\ main' \in {"decode", "decode_spin"}
  BY ServerOrder DEF DInv, FInv, P!Ownership, DecodeRead, DecodeEnd, At
<1>2. /\ 0 \in live /\ last_sent[0] = 0 /\ n \in {1, 2}
      /\ n = 2 => FirstRead
      /\ dest[0] # -1
      /\ DecodeEnd => n = 2
  BY <1>1 DEF Flow, Allocated, Busy, Delivery, Decoding, Reading, Releasing, DecodeEnd
<1>3. n \in P!Entries /\ n - 1 \in P!Entries /\ P!LastReceived(0) = n - 1
  <2>1. n \in P!Entries /\ last_sent[0] \in P!Entries
    BY <1>1 DEF P!TypeOK
  <2>2. n - 1 \in P!Entries
    BY <1>2, <2>1, RingAssumptions, P!CapPositive DEF P!Entries
  <2>3. P!circular_decrement(n) = IF n = 0 THEN P!Cap - 1 ELSE n - 1
    BY <2>1, RingAssumptions, P!Wraps
  <2> QED
    BY <1>2, <2>1, <2>2, <2>3 DEF P!LastReceived
<1>4. dest[0] = buffers[0][n - 1]
  BY <1>1, <1>2, <1>3 DEF P!IInv, P!RingInv, P!FeedInWindow
<1>5. /\ last_sent' = last_sent /\ next_to_be_received' = next_to_be_received
      /\ buffers' = buffers
      /\ n = 1 => /\ messages' = [messages EXCEPT ![dest[0]] = "request1"]
                  /\ data_sizes' = [data_sizes EXCEPT ![0][n - 1] = 2]
      /\ n = 2 => /\ \/ messages' = [messages EXCEPT ![dest[0]] = "request2"]
                     \/ messages' = messages
                  /\ \E sz \in {-1, 0, 1} :
                        data_sizes' = [data_sizes EXCEPT ![0][n - 1] = sz]
  <2>1. R!LastReceived(0) = n - 1
    BY <1>3, SameIndices
  <2>2. CASE DecodeRead
    BY <1>2, <2>1, <2>2 DEF DecodeRead, R!FeedRead
  <2>3. CASE DecodeEnd
    <3>1. PICK sz \in {-1, 0} : R!FeedRead(0, sz, "request2")
      BY <2>3 DEF DecodeEnd
    <3>2. /\ messages' = IF sz > 0 THEN [messages EXCEPT ![dest[0]] = "request2"]
                          ELSE messages
          /\ data_sizes' = [data_sizes EXCEPT ![0][R!LastReceived(0)] = sz]
          /\ UNCHANGED <<buffers, last_sent, next_to_be_received>>
      BY <3>1 DEF R!FeedRead
    <3>3. messages' = messages
      BY <3>2
    <3>4. data_sizes' = [data_sizes EXCEPT ![0][n - 1] = sz]
      BY <2>1, <3>2, Zenon
    <3>5. n = 2
      BY <1>2, <2>3
    <3>6. \E size \in {-1, 0, 1} :
             data_sizes' = [data_sizes EXCEPT ![0][n - 1] = size]
      BY <3>4, Zenon
    <3>7. ~(n = 1)
      BY <3>5
    <3> HIDE DEF n
    <3> QED
      BY <3>2, <3>3, <3>6, <3>7, Zenon
  <2> QED
    BY <2>2, <2>3
<1>6. FirstKey \in P!Keys /\ 0 \in P!Window(0) /\ 0 \in P!Entries
  BY <1>1, <1>2, FirstOwned
<1>7. n = 2 => dest[0] # FirstKey
  <2> SUFFICES ASSUME n = 2 PROVE dest[0] # FirstKey
    OBVIOUS
  <2>1. 1 \in P!Span(last_sent[0], n)
    BY <1>2, <1>3 DEF P!Span
  <2>2. 1 \in P!Window(0)
    BY <1>1, <2>1, RingAssumptions, P!Windows
  <2>3. P!Injective
    BY <1>1, RingAssumptions, P!OwnershipParts DEF P!Ownership
  <2> QED
    BY <1>2, <1>4, <1>6, <2>2, <2>3 DEF P!Injective, FirstKey
<1>8. FirstRead'
  <2>0. /\ messages \in [P!Keys -> Data \union {Blank}]
        /\ data_sizes \in [Rings -> [P!Entries -> P!Sizes]]
        /\ FirstKey' = FirstKey
    BY <1>1, <1>5 DEF P!TypeOK, FirstKey
  <2>1. CASE n = 1
    <3>1. dest[0] = FirstKey
      BY <1>4, <2>1 DEF FirstKey
    <3>2. data_sizes'[0][0] = 2
      BY <1>1, <1>5, <1>6, <2>0, <2>1
    <3>3. messages'[FirstKey] = "request1"
      BY <1>5, <1>6, <2>0, <2>1, <3>1
    <3> QED
      BY <2>0, <3>2, <3>3 DEF FirstRead
  <2>2. CASE n = 2
    <3>1. data_sizes'[0][0] = data_sizes[0][0]
      BY <1>1, <1>5, <1>6, <2>0, <2>2
    <3>2. messages'[FirstKey] = messages[FirstKey]
      BY <1>5, <1>6, <1>7, <2>0, <2>2
    <3> QED
      BY <1>2, <2>0, <2>2, <3>1, <3>2 DEF FirstRead
  <2> QED
    BY <1>2, <2>1, <2>2
<1> QED
  BY <1>1, <1>2, <1>5, <1>8 DEF Decoding

-----------------------------------------------------------------------------
(* The other steps of the session thread, and the theorem.                 *)

LEMMA DecodeNoBufferDelivery ==
    ASSUME DInv, mode = "SEQ", DecodeNoBuffer
    PROVE  Decoding' /\ main' \in Reading
<1>1. Decoding /\ main = "decode"
  BY DEF DInv, Delivery, DecodeNoBuffer, At, Reading
<1>2. CASE Crash("no_buffer")
  BY <1>1, <1>2
  DEF Crash, ringVars, mainVars, Decoding, FirstRead, FirstKey, Reading
<1>3. CASE ~R!is_empty_circular_buffer(0)
  <2>1. /\ UNCHANGED <<messages, buffers, data_sizes, last_sent, next_to_be_received>>
        /\ main' = "decode_spin"
    BY <1>3 DEF DecodeNoBuffer, R!FeedFull, R!FeedNoBuffer
  <2>2. next_to_be_received[0] # 0
    BY <1>1, <1>3 DEF Decoding, R!is_empty_circular_buffer
  <2> QED
    BY <1>1, <2>1, <2>2 DEF Decoding, FirstRead, FirstKey, Reading
<1> QED
  BY <1>2, <1>3 DEF DecodeNoBuffer

LEMMA MainDelivery ==
    ASSUME DInv, mode = "SEQ", fault = "none", Main, OnlyGrows
    PROVE  Delivery'
<1>0. /\ P!Ownership /\ Flow /\ pc \in [Servers -> Steps] /\ Delivery /\ N \in Servers
  BY ServerOrder DEF DInv, FInv, Flow, Control
<1>1. CASE DecodeAlloc \/ DecodeRead \/ DecodeEnd \/ DecodeNoBuffer
  <2>1. Decoding' /\ main' \in Reading
    BY <1>1, DecodeAllocDelivery, DecodeReadDelivery, DecodeNoBufferDelivery
    DEF DecodeAlloc, DecodeRead, DecodeEnd, Reading
  <2>2. \A i \in Servers : pc[i] = "none"
    BY <1>0, <1>1
    DEF Flow, Started, DecodeAlloc, DecodeRead, DecodeEnd, DecodeNoBuffer, At, Reading
  <2>3. UNCHANGED <<pc, snap, received>>
    BY <1>1
    DEF DecodeAlloc, DecodeRead, DecodeEnd, DecodeNoBuffer, Crash, callVars
  <2> QED
    BY <1>0, <2>1, <2>2, <2>3 DEF Delivery, Unsent
<1>2. CASE Decoded
  <2>1. FirstReady
    BY <1>0, <1>2 DEF Decoded, At, Delivery, Decoding, Reading, FirstReady
  <2> QED
    BY <1>0, <1>2, <2>1
    DEF Decoded, ringVars, callVars, Delivery, FirstReady, FirstRead, FirstKey, Reading,
        Delivered
<1>3. CASE SendToServer
  <2>1. pc[idx] = "none" /\ idx \in Servers
    BY <1>0, <1>3, ServerOrder
    DEF SendToServer, At, Flow, Control, Started, Servers
  <2>2. /\ UNCHANGED <<ringVars, snap, received>>
        /\ pc' = [pc EXCEPT ![idx] = "connect"]
        /\ main = "forward" /\ main' = "call"
    BY <1>3 DEF SendToServer, At, Goto
  <2>3. (FirstReady => FirstReady') /\ FirstKey' = FirstKey
    BY <2>2 DEF ringVars, FirstReady, FirstRead, FirstKey
  <2>4. pc'[N] \in Unsent \union {"send_mark"} => pc[N] \in Unsent \union {"send_mark"}
    BY <1>0, <2>1, <2>2 DEF Unsent
  <2> QED
    BY <1>0, <2>1, <2>2, <2>3, <2>4 DEF Delivery, Unsent, Reading, Delivered
<1>4. CASE CallReturns \/ FreeEnvelope \/ SynchronizeAll
  <2>1. UNCHANGED <<ringVars, pc, snap, received>> /\ main \notin Reading
    BY <1>4
    DEF CallReturns, FreeEnvelope, SynchronizeAll, Synchronize, At, callVars, Reading
  <2>2. main' \notin Reading
    BY <1>0, <1>4, Loops
    DEF CallReturns, FreeEnvelope, SynchronizeAll, Synchronize, Reading
  <2> QED
    BY <1>0, <2>1, <2>2
    DEF ringVars, Delivery, FirstReady, FirstRead, FirstKey, Delivered
<1>5. CASE \/ ReplyTest \/ ReplyGet \/ ReplyPush \/ ReplyMark \/ ReleaseRequest
           \/ ReleaseReply
  <2>1. main \in {"reply", "reply_get", "reply_data", "reply_mark", "release_request",
                 "release_reply"}
    BY <1>5
    DEF ReplyTest, ReplyGet, ReplyPush, ReplyMark, ReleaseRequest, ReleaseReply, At
  <2>2. \A i \in Servers : pc[i] = "done" /\ Delivered(i)
    BY <1>0, <2>1 DEF Flow, Ended, Forwarded, Delivery, Unsent
  <2>3. pc' = pc
    BY <1>5
    DEF ReplyTest, ReplyGet, ReplyPush, ReplyMark, ReleaseRequest, ReleaseReply, Crash,
        callVars
  <2>4. main' \notin Reading
    BY <1>0, <1>5, Loops
    DEF ReplyTest, ReplyGet, ReplyPush, ReplyMark, ReleaseRequest, ReleaseReply, Crash,
        mainVars, At, Reading
  <2>5. \A i \in Servers : Delivered(i)'
    BY <2>2, ServerOrder DEF OnlyGrows, Delivered
  <2> QED
    BY <1>0, <2>2, <2>3, <2>4, <2>5 DEF Delivery, Unsent
<1> QED
  BY <1>1, <1>2, <1>3, <1>4, <1>5 DEF Main

LEMMA DeliveryInductive == DInv /\ [Next]_vars => DInv'
<1> SUFFICES ASSUME DInv, [Next]_vars
             PROVE  DInv'
  OBVIOUS
<1>1. FInv'
  BY Inductive DEF DInv
<1>2. CASE Next
  <2>1. Sends' /\ OnlyGrows
    BY <1>2, StepGrows DEF DInv
  <2>2. mode' = mode
    BY <1>2, StepRing DEF DInv, FInv
  <2>3. mode = "SEQ" => Delivery'
    <3> SUFFICES ASSUME mode = "SEQ" PROVE Delivery'
      OBVIOUS
    <3>1. ~JoinClientThread
      BY DEF JoinClientThread, DInv, FInv, Flow, Control, Servers
    <3> QED
      BY <1>2, <2>1, <3>1, MainDelivery, CallDelivery DEF Next
  <2> QED
    BY <1>1, <2>1, <2>2, <2>3 DEF DInv
<1>3. CASE UNCHANGED vars
  BY <1>1, <1>3
  DEF vars, ringVars, mainVars, callVars, DInv, Sends, Delivery, Decoding, FirstReady,
      FirstRead, FirstKey, Delivered
<1> QED
  BY <1>2, <1>3

LEMMA DeliveryInitially == Init => DInv
<1> SUFFICES ASSUME Init PROVE DInv
  OBVIOUS
<1>1. Sends
  <2>1. <<>> \in Seq(Sent)
    OBVIOUS
  <2> QED
    BY <2>1 DEF Init, Sends
<1>2. Delivery
  BY ServerOrder DEF Init, Delivery, Decoding, Reading, Unsent
<1> QED
  BY <1>1, <1>2, Initially DEF DInv

THEOREM RequestDelivered == Spec => []DInv
BY DeliveryInitially, DeliveryInductive, PTL DEF Spec

(* request_replies.c, http_message.c: in mode SEQ every server is sent the *)
(* first buffer of the request with its size before a reply is forwarded,  *)
(* although every call sends from one ring and its reply comes from the    *)
(* same pool; only the last call frees the buffer.                         *)
THEOREM EveryServerGetsTheRequest == Spec => []SeqDeliversToAll
<1>1. DInv => SeqDeliversToAll
  BY DEF DInv, FInv, Flow, Ended, Delivery, Delivered, Unsent, SeqDeliversToAll
<1> QED
  BY <1>1, RequestDelivered, PTL
=============================================================================
