----------------------------- MODULE Forwarding -----------------------------
(***************************************************************************)
(* One request and its replies (http/request_replies.c, http/http_reply.c, *)
(* the sending and reading half of http/http_message.c):                   *)
(* strategy_sequential_request_replies decodes the request, forwards it to *)
(* every server, synchronises, forwards the replies and releases all.      *)
(* In mode SEQ the main thread talks to the servers itself; in SYNC and    *)
(* ASYNC each server has a thread, which is handed an `envelope' that the  *)
(* main thread frees as soon as the thread is created.  SYNC joins the     *)
(* threads, ASYNC leaves that to one more thread and goes on.              *)
(*                                                                         *)
(* The messages are rings of CircularBuffer: ring 0 is the request, ring i *)
(* the reply of server i.  All draw on the shared pool.                    *)
(*                                                                         *)
(* Memory used after it was freed, or through a pointer that was never     *)
(* set, is undefined behaviour.  Where the old value may still be there,   *)
(* both outcomes are possible; otherwise the step sets `fault', and what   *)
(* comes after is not followed.                                            *)
(***************************************************************************)
EXTENDS Integers, Sequences

CONSTANTS N,              \* out_connections
          Modes,          \* the forward modes to consider
          MaxBuffers, Size,
          RequestChunks,  \* at most so many reads to get the request
          ReplyChunks     \* reads that deliver data before a server closes

ASSUME ForwardingAssumption ==
    /\ N \in Nat \ {0}
    /\ Modes \subseteq {"SEQ", "SYNC", "ASYNC"}
    /\ RequestChunks \in 1 .. 2
    /\ ReplyChunks \in Nat \ {0}

ASSUME PoolAssumption ==
    /\ MaxBuffers \in Nat
    /\ Size \in Nat /\ 2^Size \in Nat \ {0}

Servers == 1 .. N
Rings == 0 .. N
Blank == "blank"
Data == {"request1", "request2", "reply"}
MaxSize == 2

VARIABLES free, messages, live, buffers, data_sizes, last_sent,
          next_to_be_received, dest, ret,   \* the rings and the pool
          mode,       \* forward_mode
          main, idx,  \* the session thread: where it is, and its loop index
          pc,         \* pc[i]: the call send_request_receive_reply for server i
          env,        \* env[i]: the envelope of that call: none, live or freed
          snap,       \* the buffer send_next_buffer_to_destination has got
          got,        \* chunks read by call i (ReplyChunks: no more will come)
          status,     \* status[i] of the reply message of server i
          response,   \* whether response_message names a message
          replies,    \* the reply_t that are allocated
          joiner,     \* async_replies_thread
          received,   \* what was sent on the connection of each server (0: client)
          fault

ringVars == <<free, messages, live, buffers, data_sizes, last_sent,
              next_to_be_received, dest, ret>>
mainVars == <<mode, main, idx, replies, response>>
callVars == <<pc, env, snap, got, status, received>>
vars == <<ringVars, mainVars, callVars, joiner, fault>>

R == INSTANCE CircularBuffer

(* new_request_replies has run.  create_reply does not set                 *)
(* response_message: what malloc left there may happen to name a usable    *)
(* message, or not.                                                        *)
Init == /\ free = R!Keys
        /\ messages = [b \in R!Keys |-> Blank]
        /\ response \in {"usable", "wild"}
        /\ live = IF response = "usable" THEN Rings ELSE {0}
        /\ buffers = [r \in Rings |-> [i \in R!Entries |-> -1]]
        /\ data_sizes = [r \in Rings |-> [i \in R!Entries |-> -1]]
        /\ last_sent = [r \in Rings |-> 0]
        /\ next_to_be_received = [r \in Rings |-> 0]
        /\ dest = [r \in Rings |-> -1]
        /\ ret = [r \in Rings |-> 0]
        /\ mode \in Modes
        /\ main = "decode"
        /\ idx = 1
        /\ pc = [i \in Servers |-> "none"]
        /\ env = [i \in Servers |-> "none"]
        /\ snap = [t \in Rings |-> -1]
        /\ got = [i \in Servers |-> 0]
        /\ status = [i \in Servers |-> "INIT"]
        /\ replies = Servers
        /\ joiner = 0
        /\ received = [c \in Rings |-> <<>>]
        /\ fault = "none"

NoRoom(r) == free = {} \/ R!is_full_circular_buffer(r)

(* Undefined behaviour.                                                    *)
Crash(kind) == /\ fault' = kind
               /\ UNCHANGED <<ringVars, mainVars, callVars, joiner>>

Goto(i, step) == pc' = [pc EXCEPT ![i] = step]

-----------------------------------------------------------------------------
(* send_next_buffer_to_destination, by actor t (0 is the main thread),     *)
(* ring r, connection c: get the buffer, send it with the size found in    *)
(* the ring, and possibly mark it as sent.                                 *)

GetBuffer(t, r) ==
    snap' = [snap EXCEPT ![t] = IF R!is_empty_circular_buffer(r)
                                THEN -1 ELSE buffers[r][last_sent[r]]]

SendData(t, r, c) ==
    received' = IF snap[t] = -1 THEN received
                ELSE [received EXCEPT ![c] =
                        Append(@, [data |-> messages[snap[t]],
                                   size |-> data_sizes[r][last_sent[r]]])]

MarkSent(r) == IF R!is_empty_circular_buffer(r)
               THEN UNCHANGED ringVars
               ELSE R!buffer_has_been_sent(r)

-----------------------------------------------------------------------------
(* send_request_receive_reply for server i.  The envelope is read each     *)
(* time the code dereferences `env'; once it is freed its fields may still *)
(* be there, or not.                                                       *)

ReadEnvelope(i, step, next) ==
    /\ pc[i] = step
    /\ \/ env[i] = "freed" /\ Crash("envelope")
       \/ i \notin replies /\ Crash("reply")
       \/ /\ i \in replies
          /\ Goto(i, next)
          /\ UNCHANGED <<ringVars, mainVars, env, snap, got, status, received,
                         joiner, fault>>

connect_to_server(i) == ReadEnvelope(i, "connect", "send_request")

send_request(i) == ReadEnvelope(i, "send_request", "send_test")

UsesRequest(i, step) == pc[i] = step /\ 0 \in live

SendTest(i) ==
    /\ UsesRequest(i, "send_test")
    /\ Goto(i, IF R!is_empty_circular_buffer(0) THEN "receive" ELSE "send_get")
    /\ UNCHANGED <<ringVars, mainVars, env, snap, got, status,
                   received, joiner, fault>>

SendGet(i) ==
    /\ UsesRequest(i, "send_get")
    /\ GetBuffer(i, 0)
    /\ Goto(i, "send_data")
    /\ UNCHANGED <<ringVars, mainVars, env, got, status, received,
                   joiner, fault>>

(* Mutant: every server marks the request as sent.                         *)
SendPush_AllMark(i) ==
    /\ UsesRequest(i, "send_data")
    /\ SendData(i, 0, i)
    /\ Goto(i, "send_mark")
    /\ UNCHANGED <<ringVars, mainVars, env, snap, got, status, joiner, fault>>

SendPush(i) ==
    /\ UsesRequest(i, "send_data")
    /\ SendData(i, 0, i)
    /\ Goto(i, IF i = N THEN "send_mark" ELSE "receive")
    /\ UNCHANGED <<ringVars, mainVars, env, snap, got, status,
                   joiner, fault>>

SendMark(i) ==
    /\ UsesRequest(i, "send_mark")
    /\ MarkSent(0)
    /\ Goto(i, "receive")
    /\ UNCHANGED <<mainVars, env, snap, got, status, received,
                   joiner, fault>>

RequestGone(i) ==
    /\ pc[i] \in {"send_test", "send_get", "send_data", "send_mark"}
    /\ 0 \notin live
    /\ Crash("request")

(* receive_reply(env->reply): the first buffer, the header, the body.      *)
receive_reply(i) ==
    /\ \/ pc[i] = "receive" /\ response = "wild" /\ Crash("response")
       \/ response = "usable" /\ ReadEnvelope(i, "receive", "first")

ReplyGone(i) ==
    /\ pc[i] \in {"first", "first_read", "header", "header_read", "spin", "body", "body_read"}
    /\ i \notin live
    /\ Crash("reply")

UsesReply(i, step) == pc[i] = step /\ i \in live

(* read_next_buffer_from_source allocates an entry and reads into it.  The *)
(* server delivers at most ReplyChunks chunks and then closes.             *)
ReadAlloc(i, step, next) ==
    /\ UsesReply(i, step)
    /\ \E b \in free : R!FeedAlloc(i, b)
    /\ Goto(i, next)
    /\ UNCHANGED <<mainVars, env, snap, got, status, received,
                   joiner, fault>>

ReadData(i, step, next) ==
    /\ UsesReply(i, step)
    /\ got[i] < ReplyChunks
    /\ R!FeedRead(i, 1, "reply")
    /\ got' = [got EXCEPT ![i] = @ + 1]
    /\ Goto(i, next)
    /\ UNCHANGED <<mainVars, env, snap, received, joiner, fault>>

(* accept_reply_from_server.  Without a first buffer,                      *)
(* http_decode_response_type looks at entry -1.                            *)
AcceptAlloc(i) == ReadAlloc(i, "first", "first_read")

AcceptNoBuffer(i) ==
    /\ UsesReply(i, "first")
    /\ NoRoom(i)
    /\ Crash("no_buffer")

AcceptRead(i) ==
    /\ ReadData(i, "first_read", "header")
    /\ status' = [status EXCEPT ![i] = "HEADER"]

(* decode_http_message_header.  Either the header is complete, or its last *)
(* line goes on and takes another read.  If that read fails, because the   *)
(* ring is full, the pool empty or the server gone, get_next_line ends the *)
(* line at the end of the entry; start_of_line stays, header_strlen is not *)
(* 0, and decode_http_headers looks at the line again: it `spins', and     *)
(* each time tries to read.                                                *)
HeaderAlloc(i) == \/ ReadAlloc(i, "header", "header_read")
                  \/ ReadAlloc(i, "spin", "header_read")

HeaderRead(i) == ReadData(i, "header_read", "header") /\ UNCHANGED status

HeaderEnd(i) ==
    /\ UsesReply(i, "header_read")
    /\ \E n \in {-1, 0} : R!FeedRead(i, n, "reply")
    /\ got' = [got EXCEPT ![i] = ReplyChunks]
    /\ Goto(i, "spin")
    /\ UNCHANGED <<mainVars, env, snap, status, received, joiner, fault>>

HeaderNoBuffer(i) ==
    /\ UsesReply(i, "header")
    /\ R!FeedFull(i) \/ R!FeedNoBuffer(i)
    /\ Goto(i, "spin")
    /\ UNCHANGED <<mainVars, env, snap, got, status, received, joiner, fault>>

HeaderComplete(i) ==
    /\ UsesReply(i, "header")
    /\ status' = [status EXCEPT ![i] = "BODY_INCOMPLETE"]
    /\ Goto(i, "body")
    /\ UNCHANGED <<ringVars, mainVars, env, snap, got, received,
                   joiner, fault>>

(* http_message_receive_body: until nothing is read, or no entry is left.  *)
BodyAlloc(i) == ReadAlloc(i, "body", "body_read")

BodyRead(i) == ReadData(i, "body_read", "body") /\ UNCHANGED status

BodyComplete(i) ==
    /\ status' = [status EXCEPT ![i] = "BODY_COMPLETE"]
    /\ Goto(i, "done")


BodyNoBuffer(i) ==
    /\ UsesReply(i, "body")
    /\ NoRoom(i)
    /\ BodyComplete(i)
    /\ UNCHANGED <<ringVars, mainVars, env, snap, got, received,
                   joiner, fault>>

BodyEnd(i) ==
    /\ UsesReply(i, "body_read")
    /\ \E n \in {-1, 0} : R!FeedRead(i, n, "reply")
    /\ BodyComplete(i)
    /\ UNCHANGED <<mainVars, env, snap, got, received, joiner, fault>>

Call(i) == \/ connect_to_server(i) \/ send_request(i)
           \/ SendTest(i) \/ SendGet(i) \/ SendPush(i) \/ SendMark(i)
           \/ RequestGone(i) \/ receive_reply(i) \/ ReplyGone(i)
           \/ AcceptAlloc(i) \/ AcceptNoBuffer(i) \/ AcceptRead(i)
           \/ HeaderAlloc(i) \/ HeaderRead(i) \/ HeaderEnd(i)
           \/ HeaderNoBuffer(i) \/ HeaderComplete(i)
           \/ BodyAlloc(i) \/ BodyRead(i) \/ BodyNoBuffer(i) \/ BodyEnd(i)

-----------------------------------------------------------------------------
(* The session thread.                                                     *)

At(step) == main = step

(* Mutant: idx <= N.                                                       *)
Loop_Inclusive(step, after) ==
    IF idx <= N THEN main' = step /\ idx' = idx + 1
                ELSE main' = after /\ idx' = 1

Loop(step, after) ==
    IF idx < N THEN main' = step /\ idx' = idx + 1
               ELSE main' = after /\ idx' = 1

(* decode_request_message_header reads the request, of which the client    *)
(* sends at least a first chunk.  A request cut short after it makes the   *)
(* session spin like a reply.  With no buffer at all, get_next_line looks  *)
(* at entry -1.                                                            *)
DecodeAlloc ==
    /\ main \in {"decode", "decode_spin"}
    /\ next_to_be_received[0] < RequestChunks
    /\ \E b \in free : R!FeedAlloc(0, b)
    /\ main' = "decode_read"
    /\ UNCHANGED <<mode, idx, replies, response, callVars, joiner, fault>>

DecodeRead ==
    /\ At("decode_read")
    /\ IF next_to_be_received[0] = 1
       THEN R!FeedRead(0, 2, "request1") ELSE R!FeedRead(0, 1, "request2")
    /\ main' = "decode"
    /\ UNCHANGED <<mode, idx, replies, response, callVars, joiner, fault>>

DecodeEnd ==
    /\ At("decode_read")
    /\ next_to_be_received[0] > 1
    /\ \E n \in {-1, 0} : R!FeedRead(0, n, "request2")
    /\ main' = "decode_spin"
    /\ UNCHANGED <<mode, idx, replies, response, callVars, joiner, fault>>

DecodeNoBuffer ==
    /\ At("decode")
    /\ NoRoom(0)
    /\ IF R!is_empty_circular_buffer(0) THEN Crash("no_buffer")
       ELSE /\ R!FeedFull(0) \/ R!FeedNoBuffer(0)
            /\ main' = "decode_spin"
            /\ UNCHANGED <<mode, idx, replies, response, callVars, joiner, fault>>

Decoded ==
    /\ At("decode")
    /\ next_to_be_received[0] > 0
    /\ main' = "forward"
    /\ UNCHANGED <<ringVars, mode, idx, replies, response, callVars, joiner, fault>>

(* send_request_to_server_and_wait_reply: a new envelope, and either a     *)
(* call or a thread.                                                       *)
SendToServer ==
    /\ At("forward")
    /\ env' = [env EXCEPT ![idx] = "live"]
    /\ Goto(idx, "connect")
    /\ main' = IF mode = "SEQ" THEN "call" ELSE "free_env"
    /\ UNCHANGED <<ringVars, mode, idx, replies, response, snap, got, status,
                   received, joiner, fault>>

CallReturns ==
    /\ At("call")
    /\ pc[idx] = "done"
    /\ main' = "free_env"
    /\ UNCHANGED <<ringVars, mode, idx, replies, response, callVars, joiner, fault>>

FreeEnvelope ==
    /\ At("free_env")
    /\ env' = [env EXCEPT ![idx] = "freed"]
    /\ Loop("forward", "synchronize")
    /\ UNCHANGED <<ringVars, mode, replies, response, pc, snap, got, status,
                   received, joiner, fault>>

(* synchronize_all_senders, where the session waits for the threads of     *)
(* `joined'.                                                               *)
Synchronize(joined) ==
    /\ At("synchronize")
    /\ \A i \in joined : pc[i] = "done"
    /\ joiner' = IF mode = "ASYNC" THEN 1 ELSE joiner
    /\ main' = "reply"
    /\ UNCHANGED <<ringVars, mode, idx, replies, response, callVars, fault>>

(* Mutants: SYNC falls through without joining; the last thread is not     *)
(* joined; ASYNC joins in the session thread.                              *)
SynchronizeAll_NoJoin == Synchronize({})
SynchronizeAll_AllButLast == Synchronize(IF mode = "SYNC" THEN Servers \ {N} ELSE {})
SynchronizeAll_JoinsAsync == Synchronize(IF mode = "SEQ" THEN {} ELSE Servers)

SynchronizeAll == Synchronize(IF mode = "SYNC" THEN Servers ELSE {})

(* join_client_threads, in the thread that ASYNC creates.                  *)
JoinClientThread ==
    /\ joiner \in Servers
    /\ IF joiner \notin replies THEN Crash("reply")
       ELSE /\ pc[joiner] = "done"
            /\ joiner' = joiner + 1
            /\ UNCHANGED <<ringVars, mainVars, callVars, fault>>

(* forward_replies: reply_to_client sends on reply->connection_params,     *)
(* which is the connection of the server.                                  *)
ReplyTest ==
    /\ At("reply")
    /\ IF response = "wild" THEN Crash("response")
       ELSE /\ IF R!is_empty_circular_buffer(idx)
               THEN Loop("reply", "release_request")
               ELSE main' = "reply_get" /\ idx' = idx
            /\ UNCHANGED <<ringVars, mode, replies, response, callVars, joiner, fault>>

ReplyGet ==
    /\ At("reply_get")
    /\ GetBuffer(0, idx)
    /\ main' = "reply_data"
    /\ UNCHANGED <<ringVars, mode, idx, replies, response, pc, env, got,
                   status, received, joiner, fault>>

ReplyPush ==
    /\ At("reply_data")
    /\ SendData(0, idx, idx)
    /\ main' = "reply_mark"
    /\ UNCHANGED <<ringVars, mode, idx, replies, response, pc, env, snap,
                   got, status, joiner, fault>>

ReplyMark ==
    /\ At("reply_mark")
    /\ MarkSent(idx)
    /\ Loop("reply", "release_request")
    /\ UNCHANGED <<mode, replies, response, callVars, joiner, fault>>

(* release_buffer_after_processing                                         *)
ReleaseRequest ==
    /\ At("release_request")
    /\ R!free_circular_buffer(0)
    /\ main' = "release_reply"
    /\ UNCHANGED <<mode, idx, replies, response, callVars, joiner, fault>>

ReleaseReply ==
    /\ At("release_reply")
    /\ IF response = "wild" THEN Crash("response")
       ELSE /\ R!free_circular_buffer(idx)
            /\ replies' = replies \ {idx}
            /\ Loop("release_reply", "done")
            /\ UNCHANGED <<mode, response, callVars, joiner, fault>>

Main == \/ DecodeAlloc \/ DecodeRead \/ DecodeEnd \/ DecodeNoBuffer \/ Decoded
        \/ SendToServer
        \/ CallReturns \/ FreeEnvelope \/ SynchronizeAll
        \/ ReplyTest \/ ReplyGet \/ ReplyPush \/ ReplyMark
        \/ ReleaseRequest \/ ReleaseReply

Next == /\ fault = "none"
        /\ \/ Main
           \/ \E i \in Servers : Call(i)
           \/ JoinClientThread

Spec == Init /\ [][Next]_vars

(* Every thread that can run runs, and every read returns: a peer that     *)
(* neither sends nor closes is the business of Session.                    *)
FairSpec == /\ Spec
            /\ WF_vars(Next /\ Main)
            /\ \A i \in Servers : WF_vars(Next /\ Call(i))

(* The session thread runs; nothing is assumed of servers and threads.     *)
SessionSpec == Spec /\ WF_vars(Next /\ Main)

-----------------------------------------------------------------------------
Forwarded == main \notin {"decode", "decode_read", "decode_spin",
                          "forward", "call", "free_env"}

FirstChunk == [data |-> "request1", size |-> 2]

TypeOK ==
    /\ R!TypeOK
    /\ mode \in Modes
    /\ idx \in Servers
    /\ env \in [Servers -> {"none", "live", "freed"}]
    /\ snap \in [Rings -> R!Keys \union {-1}]
    /\ replies \subseteq Servers
    /\ joiner \in 0 .. N + 1
    /\ fault \in {"none", "envelope", "request", "reply", "response", "no_buffer"}

(* In mode SEQ every server gets the first buffer of the request, with its *)
(* size, before a reply is forwarded: the last server alone frees it, and  *)
(* the replies read meanwhile from the same pool leave it alone.           *)
SeqDeliversToAll ==
    mode = "SEQ" /\ Forwarded
      => \A i \in Servers : received[i] # <<>> /\ received[i][1] = FirstChunk

(* "Mark the 'last_send' buffer as 'sent', freeing the entry"              *)
(* (circular_buffer.h:105): the request buffer is not freed before it has  *)
(* been sent, and it is to be sent to every server.                        *)
FreedAfterSent ==
    0 \in live /\ last_sent[0] > 0 => \A i \in Servers : received[i] # <<>>

(* SEQ and SYNC never use a request, reply or message that was released:   *)
(* the joins come before the releases.  What SYNC may use after free is    *)
(* the envelope, and nothing else; SEQ not even that.                      *)
NoUseAfterRelease ==
    /\ mode # "ASYNC" => fault \notin {"request", "reply"}
    /\ mode = "SEQ" => fault # "envelope"

(* SEQ and SYNC forward no reply while a server is still being served.     *)
RepliesAfterJoin ==
    mode # "ASYNC" /\ Forwarded /\ main # "synchronize"
      => \A i \in Servers : pc[i] = "done"

(* "Message cannot be re released to destination until header has been     *)
(* fully received" (http_message.h:9).                                     *)
HeaderBeforeReply ==
    main = "reply_data" => status[idx] \in {"BODY_INCOMPLETE", "BODY_COMPLETE"}

(* A buffer of the pool has one owner among the messages, in every mode,   *)
(* even when one thread sends from a ring another one reads into.          *)
OneOwner == R!EntriesOwnBuffers

(* Outside ASYNC, a read always goes to a buffer that its message still    *)
(* owns: nobody frees it under the reader.                                 *)
ReadsOwnBuffer ==
    mode # "ASYNC" =>
       \A r \in R!reading : dest[r] \in R!KeysOf(r)

(* A header, of the request or of a reply, is cut short: its decoding      *)
(* spins, and there is nothing to read the rest into.                      *)
CutShort == \/ main = "decode_spin"
            \/ \E i \in Servers : pc[i] = "spin" /\ NoRoom(i)


(* ASYNC never makes the session wait for a server: once the request is    *)
(* decoded, it gets through (or meets a fault) even when no server ever    *)
(* answers.                                                                *)
AsyncNeverWaits ==
    mode = "ASYNC" /\ main = "forward" ~> main = "done" \/ fault # "none"

(* In every mode a pool buffer is lost only in the release of a message    *)
(* that still has entries (free_circular_buffer).                          *)
LostOnlyByFree == R!LostOnlyByFree
=============================================================================
