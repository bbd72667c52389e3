------------------------------ MODULE Session ------------------------------
(***************************************************************************)
(* A session from main to its end: main.c starts a route and installs a    *)
(* signal handler, start_route runs run_session in a thread and joins it,  *)
(* run_session accepts a client and exchanges requests and replies.  What  *)
(* an exchange does with its messages is the module Forwarding; here it    *)
(* opens the connections of the servers, waits where the code waits for a  *)
(* peer, and releases the request.                                         *)
(*                                                                         *)
(* Connections are descriptors of the process, the lowest that is free, as *)
(* in POSIX; the connection parameters of the route keep one descriptor    *)
(* per connector.  Following a null pointer ends the process: `fault'.     *)
(***************************************************************************)
EXTENDS Integers, Sequences, FiniteSetsExt, Functions

CONSTANTS N,            \* out_connections
          Modes,        \* the forward modes to consider
          Prepared,     \* whether an exchange is on the stack at the start
          Interrupts,   \* whether the user sends SIGINT
          Stalls        \* the peers that may fall silent

ASSUME SessionAssumption == /\ N \in Nat \ {0}
                            /\ Modes \subseteq {"SEQ", "SYNC", "ASYNC"}
                            /\ Prepared \subseteq BOOLEAN
                            /\ Interrupts \in BOOLEAN
                            /\ Stalls \subseteq 0 .. N

Servers == 1 .. N
Connectors == 0 .. N      \* 0: the client
None == -1
Descriptors == 3 .. N + 6

VARIABLES mode,       \* forward_mode of the route
          main,       \* the main thread
          ri,         \* the global ri: null or set
          conn,       \* the ri_connection_t: none, live or freed
          sess, idx,  \* the thread of run_session, and its loop index
          stack,      \* requestReplies: for each exchange, its rr->request
          server,     \* the call send_request_receive_reply of each server
          stalled,    \* the peers that have fallen silent
          fd,         \* connection_params->fd of each connector
          sock,       \* sockfd of the connect in progress of each connector
          open,       \* the open descriptors
          fault

sessVars == <<sess, idx, stack>>
fdVars == <<fd, sock, open>>
vars == <<mode, main, ri, conn, sessVars, server, stalled, fdVars, fault>>

(* "prepared": an exchange is pushed before the session runs, as the tests *)
(* do (http_connection_TEST.c:69); no code of the program does.            *)
Init == /\ mode \in Modes
        /\ main = "init"
        /\ ri = "null"
        /\ conn = "none"
        /\ sess = "none"
        /\ idx = 1
        /\ stack \in {IF p THEN <<"live">> ELSE <<>> : p \in Prepared}
        /\ server = [i \in Servers |-> "none"]
        /\ stalled = {}
        /\ fd = [c \in Connectors |-> None]
        /\ sock = [c \in Connectors |-> None]
        /\ open = {}
        /\ fault = "none"

Crash(kind) == /\ fault' = kind
               /\ UNCHANGED <<mode, main, ri, conn, sessVars, server, stalled, fdVars>>

Lowest == Min(Descriptors \ open)

(* Mutant: the client's place is taken.                                    *)
Keep_Client(c, d) == fd' = [fd EXCEPT ![0] = d]

(* connection_params->fd of connector c becomes d.                         *)
Keep(c, d) == fd' = [fd EXCEPT ![c] = d]

(* A system call that returns a descriptor, which connector c keeps.       *)
OpenInto(c) == open' = open \union {Lowest} /\ Keep(c, Lowest)

(* exit(0) in the middle of an open: every descriptor is closed.           *)
Exit == /\ sess' = "exited"
        /\ open' = {}
        /\ UNCHANGED <<fd, sock>>

(* A peer falls silent for good: it neither sends nor closes, or its       *)
(* header is cut short, in which the decoding spins (Forwarding).          *)
Stall(c) ==
    /\ c \notin stalled
    /\ stalled' = stalled \union {c}
    /\ UNCHANGED <<mode, main, ri, conn, sessVars, server, fdVars, fault>>

-----------------------------------------------------------------------------
(* main and start_route.                                                   *)

(* main creates the default route and installs close_route.                *)
Setup ==
    /\ main = "init"
    /\ main' = "start"
    /\ UNCHANGED <<mode, ri, conn, sessVars, server, stalled, fdVars, fault>>

(* Mutant: start_route hands out its instance before it joins.             *)
start_route_Publishes ==
    /\ main = "start"
    /\ main' = "join"
    /\ ri' = "set"
    /\ conn' = "live"
    /\ sess' = "open"
    /\ UNCHANGED <<mode, idx, stack, server, stalled, fdVars, fault>>

start_route ==
    /\ main = "start"
    /\ main' = "join"
    /\ conn' = "live"
    /\ sess' = "open"
    /\ UNCHANGED <<mode, ri, idx, stack, server, stalled, fdVars, fault>>

(* start_route waits in its join until run_session returns; then main sets *)
(* `ri' and returns.                                                       *)
join_session ==
    /\ main = "join"
    /\ IF sess = "closed" THEN main' = "done" /\ ri' = "set"
                          ELSE UNCHANGED <<main, ri>>
    /\ UNCHANGED <<mode, conn, sessVars, server, stalled, fdVars, fault>>

(* The exchanges are popped and freed, then the connection.                *)
release_runtime_route == conn' = "freed" /\ stack' = <<>>

(* close_route, on SIGINT, once it is installed: release_runtime_route     *)
(* takes ri->connections[0], which main sets only after the join.          *)
close_route ==
    /\ Interrupts
    /\ main # "init"
    /\ IF ri = "null" THEN Crash("ri")
       ELSE /\ release_runtime_route
            /\ UNCHANGED <<mode, main, ri, sess, idx, server, stalled, fdVars, fault>>

-----------------------------------------------------------------------------
(* run_session: open_connection.                                           *)

NoExchange ==
    /\ sess = "open"
    /\ stack = <<>>
    /\ Crash("no_exchange")

(* bind_port: a socket, which stays open if it cannot be bound.            *)
Bind ==
    /\ sess = "open"
    /\ stack # <<>>
    /\ sess' = "accept"
    /\ OpenInto(0) \/ (open' = open \union {Lowest} /\ Keep(0, None))
    /\ UNCHANGED <<mode, main, ri, conn, idx, stack, server, stalled, sock, fault>>

(* open_socket_connector overwrites the listening descriptor with that of  *)
(* the client.                                                             *)
Accept ==
    /\ sess = "accept"
    /\ fd[0] # None
    /\ OpenInto(0)
    /\ sess' = "request"
    /\ UNCHANGED <<mode, main, ri, conn, idx, stack, server, stalled, sock, fault>>

AcceptFails ==
    /\ sess = "accept"
    /\ Exit
    /\ UNCHANGED <<mode, main, ri, conn, idx, stack, server, stalled, fault>>

(* The two reads of receive_new_request_from_client and the decoding of    *)
(* the header; the session goes on whatever they return, if they return.   *)
ReceiveRequest ==
    /\ sess = "request"
    /\ 0 \notin stalled
    /\ sess' = "exchange"
    /\ UNCHANGED <<mode, main, ri, conn, idx, stack, server, stalled, fdVars, fault>>

-----------------------------------------------------------------------------
(* process_connection.                                                     *)

(* prepare_for_next_request_replies pushes a new exchange; the one that    *)
(* was opened with stays below it.                                         *)
NewExchange ==
    /\ sess = "exchange"
    /\ stack' = Append(stack, "live")
    /\ server' = [i \in Servers |-> "none"]
    /\ sess' = "decode"
    /\ UNCHANGED <<mode, main, ri, conn, idx, stalled, fdVars, fault>>

(* The new exchange has a message of its own, still empty: the decoding of *)
(* its header reads from the client again.                                 *)
DecodeRequest ==
    /\ sess = "decode"
    /\ 0 \notin stalled
    /\ sess' = "forward"
    /\ UNCHANGED <<mode, main, ri, conn, idx, stack, server, stalled, fdVars, fault>>

(* Mutant: idx <= N.                                                       *)
Forward_Inclusive ==
    IF idx <= N THEN sess' = "forward" /\ idx' = idx + 1
                ELSE sess' = "synchronize" /\ idx' = 1

Forward ==
    IF idx < N THEN sess' = "forward" /\ idx' = idx + 1
               ELSE sess' = "synchronize" /\ idx' = 1

(* Mutant: the last server is not called, although it is waited for.       *)
SendToServer_AllButLast ==
    /\ sess = "forward"
    /\ server' = IF idx = N THEN server ELSE [server EXCEPT ![idx] = "call"]
    /\ IF mode = "SEQ" THEN sess' = "call" /\ UNCHANGED idx ELSE Forward
    /\ UNCHANGED <<mode, main, ri, conn, stack, stalled, fdVars, fault>>

(* send_request_to_server_and_wait_reply: a call in mode SEQ, a thread     *)
(* otherwise.                                                              *)
SendToServer ==
    /\ sess = "forward"
    /\ server' = [server EXCEPT ![idx] = "call"]
    /\ IF mode = "SEQ" THEN sess' = "call" /\ UNCHANGED idx ELSE Forward
    /\ UNCHANGED <<mode, main, ri, conn, stack, stalled, fdVars, fault>>

CallReturns ==
    /\ sess = "call"
    /\ server[idx] = "done"
    /\ Forward
    /\ UNCHANGED <<mode, main, ri, conn, stack, server, stalled, fdVars, fault>>

(* send_request_receive_reply: socket_connect first opens a socket.        *)
Socket(i) ==
    /\ server[i] = "call"
    /\ open' = open \union {Lowest}
    /\ sock' = [sock EXCEPT ![i] = Lowest]
    /\ server' = [server EXCEPT ![i] = "connecting"]
    /\ UNCHANGED <<mode, main, ri, conn, sessVars, stalled, fd, fault>>

(* Without a socket the call goes on with the descriptor -1, from which it *)
(* reads nothing: the decoding of the reply may spin.                      *)
SocketFails(i) ==
    /\ server[i] = "call"
    /\ server' = [server EXCEPT ![i] = "open"]
    /\ stalled' \in {stalled, stalled \union {i}}
    /\ UNCHANGED <<mode, main, ri, conn, sessVars, fdVars, fault>>

(* Once connected, open_server_socket_connector keeps the socket.          *)
Connect(i) ==
    /\ server[i] = "connecting"
    /\ Keep(i, sock[i])
    /\ sock' = [sock EXCEPT ![i] = None]
    /\ server' = [server EXCEPT ![i] = "open"]
    /\ UNCHANGED <<mode, main, ri, conn, sessVars, stalled, open, fault>>

(* No such host, or no connection: exit(0).                                *)
ConnectFails(i) ==
    /\ server[i] = "connecting"
    /\ Exit
    /\ UNCHANGED <<mode, main, ri, conn, idx, stack, server, stalled, fault>>

(* send_request, then receive_reply, which reads until the server closes.  *)
receive_reply(i) ==
    /\ server[i] = "open"
    /\ i \notin stalled
    /\ server' = [server EXCEPT ![i] = "done"]
    /\ UNCHANGED <<mode, main, ri, conn, sessVars, stalled, fdVars, fault>>

(* In mode ASYNC the reply may have been released while its thread is to   *)
(* follow it.                                                              *)
ReplyGone(i) ==
    /\ server[i] \in {"call", "open"}
    /\ sess = "keep_alive"
    /\ Crash("reply")

(* synchronize_all_senders, and release_buffer_after_processing, which     *)
(* sets rr->request to the null that release_request returns.              *)
Release ==
    /\ sess = "synchronize"
    /\ mode = "SYNC" => \A i \in Servers : server[i] = "done"
    /\ stack' = [stack EXCEPT ![Len(stack)] = "null"]
    /\ sess' = "keep_alive"
    /\ UNCHANGED <<mode, main, ri, conn, idx, server, stalled, fdVars, fault>>

close_connection == open' = open \ Range(fd)

(* get_request_connection_keep_alive(rr->request), then another exchange,  *)
(* or close_connection.                                                    *)
KeepAlive ==
    /\ sess = "keep_alive"
    /\ IF stack[Len(stack)] = "null" THEN Crash("request")
       ELSE /\ \E keep \in BOOLEAN :
                  IF keep THEN sess' = "exchange" /\ UNCHANGED open
                  ELSE sess' = "closed" /\ close_connection
            /\ UNCHANGED <<mode, main, ri, conn, idx, stack, server, stalled,
                           fd, sock, fault>>

Running == fault = "none" /\ sess # "exited"

Sessions == \/ NoExchange \/ Bind \/ Accept \/ AcceptFails \/ ReceiveRequest
            \/ NewExchange \/ DecodeRequest \/ SendToServer \/ CallReturns
            \/ Release \/ KeepAlive

Calls(i) == \/ Socket(i) \/ SocketFails(i) \/ Connect(i) \/ ConnectFails(i)
            \/ receive_reply(i) \/ ReplyGone(i)

Next == /\ Running
        /\ \/ Setup \/ start_route \/ join_session \/ close_route
           \/ Sessions
           \/ \E i \in Servers : Calls(i)
           \/ \E c \in Stalls : Stall(c)

Spec == Init /\ [][Next]_vars

(* Threads run, clients come, servers accept or refuse, and peers that are *)
(* not silent send what is awaited or close.                               *)
FairSpec == /\ Spec
            /\ WF_vars(Running /\ (Setup \/ start_route \/ join_session))
            /\ WF_vars(Running /\ Sessions)
            /\ \A i \in Servers : WF_vars(Running /\ Calls(i))

-----------------------------------------------------------------------------
TypeOK ==
    /\ mode \in Modes
    /\ sess \in {"none", "open", "accept", "request", "exchange", "decode",
                 "forward", "call", "synchronize", "keep_alive", "closed", "exited"}
    /\ idx \in Servers
    /\ stack \in Seq({"live", "null"}) /\ Len(stack) <= 2
    /\ stalled \subseteq Connectors
    /\ fd \in [Connectors -> Descriptors \union {None}]
    /\ sock \in [Connectors -> Descriptors \union {None}]
    /\ open \subseteq Descriptors

(* The signal handler never frees the connection, or the exchanges on its  *)
(* stack, under the session thread: `ri' is null until the session is      *)
(* over.  (The price is that SIGINT during a session ends in a crash.)     *)
ConnectionOutlivesSession ==
    sess \notin {"none", "closed", "exited"} =>
       /\ conn = "live"
       /\ sess # "open" => stack # <<>>

(* The descriptors that connector c keeps, or will once it is connected.   *)
Held(c) == {fd[c], sock[c]} \ {None}

(* Once a client is accepted, every open descriptor but one belongs to one *)
(* connector, which keeps it or is connecting with it, so that             *)
(* close_connection could close it; the one that is lost is the listening  *)
(* socket, and no two connectors share one.                                *)
OnlyListenerLost ==
    Running /\ sess \notin {"none", "open", "accept"} =>
       /\ \A c, d \in Connectors : c # d => Held(c) \intersect Held(d) = {}
       /\ open \ UNION {Held(c) : c \in Connectors} = {Min(Descriptors)}

(* A read that a silent peer does not answer: of the client's request or   *)
(* of the next one, of a reply in the call of mode SEQ, or of a reply      *)
(* whose thread SYNC joins.                                                *)
WaitsForPeer ==
    \/ sess \in {"request", "decode"} /\ 0 \in stalled
    \/ \E i \in stalled \ {0} :
          /\ server[i] = "open"
          /\ \/ sess = "call" /\ idx = i
             \/ sess = "synchronize" /\ mode = "SYNC"

(* The process sits in an exchange only for a peer that keeps silent: if   *)
(* clients come and servers accept or refuse, the session ends, one way or *)
(* the other, or it waits for ever in a read from a peer that stalls.      *)
SessionEnds == \/ <>(fault # "none" \/ sess \in {"closed", "exited"})
               \/ <>[]WaitsForPeer

(* `1 == mock_called_close_client_connection' after run_session, of a      *)
(* session whose accept succeeded (http_connection_TEST.c:243): it closes  *)
(* its connection or, if a server refuses, exits.                          *)
AcceptedSessionCloses ==
    sess = "exchange" ~> sess \in {"closed", "exited"}
=============================================================================
