--------------------------- MODULE SessionProofs ---------------------------
(***************************************************************************)
(* The signal handler and the session, for any number of servers, any mode *)
(* and any stack at the start.  The invariant says what carries the thread *)
(* of main from one step to the next: `ri' is null until main is done, for *)
(* which the session must be over, so before that the handler can only     *)
(* crash; the session thread exists once main waits for it, and no server  *)
(* is called before a client has been accepted.                            *)
(*                                                                         *)
(* FdInv says which descriptors are open: the listening one and those the  *)
(* connectors keep or connect with, one each (ListenerAndKept).  No        *)
(* exchange follows the first (OneExchange), so no server is connected to  *)
(* twice, and one of the descriptors is always left to open (Available).   *)
(***************************************************************************)
EXTENDS Session, SequenceTheorems, FiniteSetTheorems, WellFoundedInduction, TLAPS

Exchanges == Seq({"live", "null"})

IInv == /\ main \in {"init", "start", "join", "done"}
        /\ ri # "null" => main = "done"
        /\ main = "done" => sess \in {"closed", "exited"}
        /\ main \in {"join", "done"} <=> sess # "none"
        /\ stack \in Exchanges
        /\ sess # "none" /\ main # "done" => conn = "live"
        /\ sess \notin {"none", "open"} /\ main # "done" => stack # <<>>
        /\ sess \in {"none", "open"} => \A i \in Servers : server[i] = "none"

(* The session starts without a thread and a connection.                   *)
LEMMA Initially == Init => IInv
<1> SUFFICES ASSUME Init PROVE IInv
  OBVIOUS
<1>1. PICK p \in Prepared : stack = IF p THEN <<"live">> ELSE <<>>
  BY DEF Init
<1>2. <<"live">> \in Exchanges /\ <<>> \in Exchanges
  BY DEF Exchanges
<1> QED
  BY <1>1, <1>2 DEF Init, IInv

(* Pushing an exchange, and marking the top one as released, leave a stack *)
(* that is not empty.                                                      *)
LEMMA StackNotEmpty ==
    ASSUME stack \in Exchanges
    PROVE  /\ Append(stack, "live") \in Exchanges /\ Append(stack, "live") # <<>>
           /\ stack # <<>> =>
                /\ [stack EXCEPT ![Len(stack)] = "null"] \in Exchanges
                /\ [stack EXCEPT ![Len(stack)] = "null"] # <<>>
<1>1. Append(stack, "live") \in Exchanges /\ Append(stack, "live") # <<>>
  BY DEF Exchanges
<1>2. ASSUME stack # <<>>
      PROVE  /\ [stack EXCEPT ![Len(stack)] = "null"] \in Exchanges
             /\ [stack EXCEPT ![Len(stack)] = "null"] # <<>>
  <2>1. Len(stack) \in 1 .. Len(stack)
    BY <1>2, EmptySeq DEF Exchanges
  <2>2. [stack EXCEPT ![Len(stack)] = "null"] \in Exchanges
    BY <2>1, ExceptSeq DEF Exchanges
  <2>3. Len([stack EXCEPT ![Len(stack)] = "null"]) = Len(stack)
    BY <2>1, ExceptSeq DEF Exchanges
  <2> QED
    BY <2>1, <2>2, <2>3, EmptySeq DEF Exchanges
<1> QED
  BY <1>1, <1>2

(* A step of main or of the handler.                                       *)
LEMMA MainStep ==
    ASSUME IInv, Setup \/ start_route \/ join_session \/ close_route
    PROVE  IInv'
<1>1. CASE Setup
  BY <1>1 DEF IInv, Setup, sessVars, fdVars
<1>2. CASE start_route
  BY <1>2 DEF IInv, start_route, sessVars, fdVars
<1>3. CASE join_session
  BY <1>3 DEF IInv, join_session, sessVars, fdVars
<1>4. CASE close_route
  <2>1. CASE ri = "null"
    BY <1>4, <2>1 DEF IInv, close_route, Crash, sessVars, fdVars
  <2>2. CASE ri # "null"
    <3>1. <<>> \in Exchanges
      BY DEF Exchanges
    <3> QED
      BY <1>4, <2>2, <3>1 DEF IInv, close_route, release_runtime_route, fdVars
  <2> QED
    BY <2>1, <2>2
<1> QED
  BY <1>1, <1>2, <1>3, <1>4

(* A step of the session thread.                                           *)
LEMMA SessionStep ==
    ASSUME IInv, Sessions
    PROVE  IInv'
<1>0. stack \in Exchanges
  BY DEF IInv
<1>1. CASE NoExchange
  BY <1>1 DEF IInv, NoExchange, Crash, sessVars, fdVars
<1>2. CASE Bind
  BY <1>2 DEF IInv, Bind
<1>3. CASE Accept
  BY <1>3 DEF IInv, Accept
<1>4. CASE AcceptFails
  BY <1>4 DEF IInv, AcceptFails, Exit
<1>5. CASE ReceiveRequest \/ DecodeRequest
  BY <1>5 DEF IInv, ReceiveRequest, DecodeRequest, fdVars
<1>6. CASE NewExchange
  BY <1>0, <1>6, StackNotEmpty DEF IInv, NewExchange, fdVars
<1>7. CASE SendToServer
  BY <1>7 DEF IInv, SendToServer, Forward, fdVars
<1>8. CASE CallReturns
  BY <1>8 DEF IInv, CallReturns, Forward, fdVars
<1>9. CASE Release
  BY <1>0, <1>9, StackNotEmpty DEF IInv, Release, fdVars
<1>10. CASE KeepAlive
  BY <1>10 DEF IInv, KeepAlive, Crash, close_connection, sessVars, fdVars
<1> QED
  BY <1>1, <1>2, <1>3, <1>4, <1>5, <1>6, <1>7, <1>8, <1>9, <1>10 DEF Sessions

(* A step of the call, or the thread, of server i.                         *)
LEMMA ServerStep ==
    ASSUME IInv, Running, NEW i \in Servers, Calls(i)
    PROVE  IInv'
<1>1. CASE Socket(i)
  BY <1>1 DEF IInv, Socket, sessVars
<1>2. CASE SocketFails(i)
  BY <1>2 DEF IInv, SocketFails, sessVars, fdVars
<1>3. CASE Connect(i)
  BY <1>3 DEF IInv, Connect, sessVars
<1>4. CASE ConnectFails(i)
  BY <1>4 DEF IInv, ConnectFails, Exit
<1>5. CASE receive_reply(i)
  BY <1>5 DEF IInv, receive_reply, sessVars, fdVars
<1>6. CASE ReplyGone(i)
  BY <1>6 DEF IInv, ReplyGone, Crash, sessVars, fdVars
<1> QED
  BY <1>1, <1>2, <1>3, <1>4, <1>5, <1>6 DEF Calls

LEMMA Silence ==
    ASSUME IInv, NEW c \in Stalls, Stall(c)
    PROVE  IInv'
BY DEF IInv, Stall, sessVars, fdVars

LEMMA Inductive == IInv /\ [Next]_vars => IInv'
<1> SUFFICES ASSUME IInv, [Next]_vars PROVE IInv'
  OBVIOUS
<1>1. CASE Next
  BY <1>1, MainStep, SessionStep, ServerStep, Silence DEF Next
<1>2. CASE UNCHANGED vars
  BY <1>2 DEF IInv, vars, sessVars, fdVars
<1> QED
  BY <1>1, <1>2

(* main.c:29: whenever SIGINT comes, the connection and its exchanges are  *)
(* there as long as the session uses them.                                 *)
THEOREM HandlerFreesNothing == Spec => []ConnectionOutlivesSession
<1>1. IInv => ConnectionOutlivesSession
  BY DEF IInv, ConnectionOutlivesSession
<1> QED
  BY Initially, Inductive, <1>1, PTL DEF Spec

-----------------------------------------------------------------------------
(* Descriptors.                                                            *)

(* Every non-empty set of numbers has a smallest one.                      *)
LEMMA Smallest ==
    ASSUME NEW S \in SUBSET Nat, S # {}
    PROVE  Min(S) \in S
<1> DEFINE Less == {ss \in Nat \X Nat : ss[1] < ss[2]}
<1>1. Less = OpToRel(<, Nat)
  BY Zenon DEF OpToRel
<1>2. IsWellFoundedOn(Less, Nat)
  BY <1>1, NatLessThanWellFounded, Zenon
<1>3. PICK x \in S : \A y \in S : ~(<<y, x>> \in Less)
  BY <1>2, WFMin, Zenon
<1>4. \A y \in S : y < x => <<y, x>> \in Less
  OBVIOUS
<1>5. ASSUME NEW y \in S
      PROVE  x <= y
  <2>1. ~(y < x)
    BY <1>3, <1>4, Zenon
  <2> QED
    BY <2>1
<1> QED
  BY <1>5 DEF Min

(* How far the call of a server has come.                                  *)
Progress == {"none", "call", "connecting", "open", "done"}

(* One exchange is pushed before the session, at most, and one by it: when *)
(* the second is over the session crashes, so no third follows, no server  *)
(* is called twice and the session is never closed.                        *)
OneExchange ==
    /\ server \in [Servers -> Progress]
    /\ sess \in {"none", "open", "accept", "request", "exchange"} => Len(stack) <= 1
    /\ sess \in {"none", "open", "accept", "request", "exchange", "decode"}
         => \A i \in Servers : server[i] = "none"
    /\ sess = "forward" => \A i \in Servers : idx <= i => server[i] = "none"
    /\ sess = "call" => \A i \in Servers : idx < i => server[i] = "none"
    /\ sess = "keep_alive" => stack[Len(stack)] = "null"
    /\ sess # "closed"

First == Min(Descriptors)

(* The descriptor of a connector, None if it has none.                     *)
Has(c) == IF sock[c] # None THEN sock[c] ELSE fd[c]

(* The descriptors that connectors have.                                   *)
Kept == {Has(c) : c \in {d \in Connectors : Has(d) # None}}

Apart == \A c, d \in Connectors : c # d /\ Has(c) # None => Has(c) # Has(d)

Accepted == sess \notin {"none", "open", "accept", "exited"}

(* A connector has a socket of its own while it is connecting, and nothing *)
(* before.                                                                 *)
Sockets ==
    /\ sock[0] = None
    /\ \A i \in Servers : /\ sock[i] # None <=> server[i] = "connecting"
                          /\ server[i] \in {"none", "call", "connecting"} => fd[i] = None

(* What is open is the listening socket, and what the connectors have.     *)
ListenerAndKept ==
    /\ sess \in {"none", "open"} => open = {}
    /\ sess = "accept" => open = {First} /\ fd[0] \in {First, None}
    /\ Accepted => open = Kept \union {First} /\ First \notin Kept /\ Apart

FdInv == TypeOK /\ OneExchange /\ Sockets /\ ListenerAndKept

(* There is always a descriptor left to open, and it is not open yet.      *)
LEMMA Available ==
    ASSUME TypeOK, Accepted => open = Kept \union {First},
           sess \in {"open", "accept"} => open \subseteq {First},
           sess \in {"open", "accept"} \/ Accepted
    PROVE  /\ Lowest \in Descriptors \ open
           /\ Lowest # None
           /\ First \in Descriptors
<1>1. N \in Nat \ {0}
  BY SessionAssumption
<1>2. Descriptors \subseteq Nat /\ 3 \in Descriptors
  BY <1>1 DEF Descriptors
<1>3. First \in Descriptors
  BY <1>2, Smallest DEF First
<1>4. /\ IsFiniteSet(Descriptors) /\ Cardinality(Descriptors) = N + 4
      /\ IsFiniteSet(Connectors) /\ Cardinality(Connectors) = N + 1
  BY <1>1, FS_Interval DEF Descriptors, Connectors
<1>5. IsFiniteSet(Kept) /\ Cardinality(Kept) <= N + 1 /\ Cardinality(Kept) \in Nat
  <2> DEFINE Used == {d \in Connectors : Has(d) # None}
             f == [c \in Used |-> Has(c)]
  <2>1. IsFiniteSet(Used) /\ Cardinality(Used) <= N + 1 /\ Cardinality(Used) \in Nat
    BY <1>4, FS_Subset, FS_CardinalityType
  <2>2. f \in Surjection(Used, Kept)
    BY DEF Surjection, Kept
  <2>3. IsFiniteSet(Kept) /\ Cardinality(Kept) <= Cardinality(Used)
    BY <2>1, <2>2, FS_Surjection
  <2> QED
    BY <1>1, <2>1, <2>3, FS_CardinalityType
<1>6. /\ IsFiniteSet(Kept \union {First})
      /\ Cardinality(Kept \union {First}) <= N + 2
      /\ Cardinality(Kept \union {First}) \in Nat
  <2>1. /\ IsFiniteSet(Kept \union {First})
        /\ Cardinality(Kept \union {First}) =
              IF First \in Kept THEN Cardinality(Kept) ELSE Cardinality(Kept) + 1
    BY <1>5, FS_AddElement
  <2> QED
    BY <1>1, <1>5, <2>1
<1>7. open \subseteq Kept \union {First}
  BY DEF Accepted
<1>8. Descriptors \ open # {}
  <2> SUFFICES ASSUME Descriptors \subseteq Kept \union {First}
               PROVE  FALSE
    BY <1>7
  <2>1. Cardinality(Descriptors) <= Cardinality(Kept \union {First})
    BY <1>6, FS_Subset
  <2> QED
    BY <1>1, <1>4, <1>6, <2>1
<1>9. Lowest \in Descriptors \ open
  BY <1>2, <1>8, Smallest DEF Lowest
<1> QED
  BY <1>2, <1>3, <1>9 DEF None

LEMMA FdInitially == Init => FdInv
<1> SUFFICES ASSUME Init PROVE FdInv
  OBVIOUS
<1>1. PICK p \in Prepared : stack = IF p THEN <<"live">> ELSE <<>>
  BY DEF Init
<1>2. N \in Nat \ {0}
  BY SessionAssumption
<1>3. stack \in Seq({"live", "null"}) /\ Len(stack) <= 1
  <2>1. CASE stack = <<"live">>
    BY <2>1
  <2>2. CASE stack = <<>>
    BY <2>2
  <2> QED
    BY <1>1, <2>1, <2>2
<1>4. TypeOK
  BY <1>2, <1>3 DEF Init, TypeOK, Servers
<1>5. OneExchange
  BY <1>3 DEF Init, OneExchange, Progress
<1>6. Sockets /\ ListenerAndKept
  BY <1>2 DEF Init, Sockets, ListenerAndKept, Accepted, Servers, Connectors
<1> QED
  BY <1>4, <1>5, <1>6 DEF FdInv

(* A call goes on: which servers have not been called stays the same.      *)
LEMMA CallGoesOn ==
    ASSUME OneExchange, Running, NEW i \in Servers, NEW s \in Progress \ {"none"},
           server[i] # "none", server' = [server EXCEPT ![i] = s],
           UNCHANGED <<sess, idx, stack>>
    PROVE  OneExchange' /\ Accepted
<1>1. \A j \in Servers : server[j] = "none" => j # i /\ server'[j] = "none"
  BY DEF OneExchange
<1>2. server' \in [Servers -> Progress]
  BY DEF OneExchange
<1>3. sess \notin {"none", "open", "accept", "request", "exchange", "decode", "exited"}
  BY DEF OneExchange, Running
<1> QED
  BY <1>1, <1>2, <1>3 DEF OneExchange, Accepted

(* Opening the socket of server i.                                         *)
LEMMA SocketFd ==
    ASSUME FdInv, Running, NEW i \in Servers, Socket(i)
    PROVE  FdInv'
<1>0. /\ N \in Nat \ {0} /\ i \in Connectors /\ i # 0
      /\ TypeOK /\ OneExchange /\ Sockets /\ ListenerAndKept
  BY SessionAssumption DEF Servers, Connectors, FdInv
<1>1. /\ server[i] = "call" /\ fd[i] = None /\ sock[i] = None
      /\ open' = open \union {Lowest}
      /\ sock' = [sock EXCEPT ![i] = Lowest]
      /\ server' = [server EXCEPT ![i] = "connecting"]
      /\ UNCHANGED <<mode, sess, idx, stack, stalled, fd>>
  BY <1>0 DEF Socket, Sockets, sessVars
<1>2. OneExchange' /\ Accepted
  BY <1>0, <1>1, CallGoesOn DEF Progress
<1>3. /\ Lowest \in Descriptors \ open /\ Lowest # None /\ First \in Descriptors
      /\ open = Kept \union {First} /\ First \notin Kept /\ Apart
  BY <1>0, <1>2, Available DEF ListenerAndKept
<1>4. TypeOK'
  BY <1>0, <1>1, <1>3 DEF TypeOK
<1>5. \A c \in Connectors : sock'[c] = IF c = i THEN Lowest ELSE sock[c]
  BY <1>0, <1>1 DEF TypeOK
<1>6. \A c \in Connectors : Has(c)' = IF c = i THEN Lowest ELSE Has(c)
  BY <1>1, <1>3, <1>5 DEF Has
<1>7. Has(i) = None
  BY <1>1 DEF Has
<1>8. Kept' = Kept \union {Lowest}
  BY <1>0, <1>3, <1>6, <1>7 DEF Kept
<1>9. \A c \in Connectors : Has(c) # None => Has(c) \in open
  BY <1>3 DEF Kept
<1>10. Apart'
  BY <1>3, <1>6, <1>9 DEF Apart
<1>11. Sockets'
  <2>1. sock'[0] = None
    BY <1>0, <1>5 DEF Sockets, Connectors
  <2>2. \A j \in Servers : j \in Connectors
    BY DEF Servers, Connectors
  <2>3. \A j \in Servers : server'[j] = IF j = i THEN "connecting" ELSE server[j]
    BY <1>0, <1>1 DEF OneExchange
  <2> QED
    BY <1>0, <1>1, <1>3, <1>5, <2>1, <2>2, <2>3 DEF Sockets
<1>12. ListenerAndKept'
  BY <1>1, <1>2, <1>3, <1>8, <1>10 DEF ListenerAndKept, Accepted
<1> QED
  BY <1>2, <1>4, <1>11, <1>12 DEF FdInv

(* Keeping the socket of server i moves it within the connector.           *)
LEMMA ConnectFd ==
    ASSUME FdInv, Running, NEW i \in Servers, Connect(i)
    PROVE  FdInv'
<1>0. /\ N \in Nat \ {0} /\ i \in Connectors /\ i # 0
      /\ TypeOK /\ OneExchange /\ Sockets /\ ListenerAndKept
  BY SessionAssumption DEF Servers, Connectors, FdInv
<1>1. /\ server[i] = "connecting" /\ fd[i] = None /\ sock[i] # None
      /\ fd' = [fd EXCEPT ![i] = sock[i]]
      /\ sock' = [sock EXCEPT ![i] = None]
      /\ server' = [server EXCEPT ![i] = "open"]
      /\ UNCHANGED <<mode, sess, idx, stack, stalled, open>>
  BY <1>0 DEF Connect, Keep, Sockets, sessVars
<1>2. OneExchange' /\ Accepted
  BY <1>0, <1>1, CallGoesOn DEF Progress
<1>3. TypeOK'
  BY <1>0, <1>1 DEF TypeOK
<1>4. \A c \in Connectors : /\ fd'[c] = IF c = i THEN sock[i] ELSE fd[c]
                            /\ sock'[c] = IF c = i THEN None ELSE sock[c]
  BY <1>0, <1>1 DEF TypeOK
<1>5. \A c \in Connectors : Has(c)' = Has(c)
  BY <1>1, <1>4 DEF Has
<1>6. Kept' = Kept /\ (Apart => Apart')
  BY <1>5 DEF Kept, Apart
<1>7. Sockets'
  <2>1. sock'[0] = None
    BY <1>0, <1>4 DEF Sockets, Connectors
  <2>2. \A j \in Servers : j \in Connectors
    BY DEF Servers, Connectors
  <2>3. \A j \in Servers : server'[j] = IF j = i THEN "open" ELSE server[j]
    BY <1>0, <1>1 DEF OneExchange
  <2> QED
    BY <1>0, <1>1, <1>4, <2>1, <2>2, <2>3 DEF Sockets
<1>8. ListenerAndKept'
  BY <1>0, <1>1, <1>2, <1>6 DEF ListenerAndKept, Accepted
<1> QED
  BY <1>2, <1>3, <1>7, <1>8 DEF FdInv

(* Steps that leave the descriptors alone, once the connection exists.     *)
LEMMA SameDescriptors ==
    ASSUME FdInv, UNCHANGED <<fd, sock, open>>, Accepted <=> Accepted',
           sess' \in {"none", "open"} => sess \in {"none", "open"},
           sess' # "accept"
    PROVE  ListenerAndKept'
<1>1. \A c \in Connectors : Has(c)' = Has(c)
  BY DEF Has
<1>2. Kept' = Kept /\ (Apart => Apart')
  BY <1>1 DEF Kept, Apart
<1> QED
  BY <1>2 DEF FdInv, ListenerAndKept

(* A server that replies, or to which no socket could be opened.           *)
LEMMA ReplyFd ==
    ASSUME FdInv, Running, NEW i \in Servers, SocketFails(i) \/ receive_reply(i)
    PROVE  FdInv'
<1>0. /\ i \in Connectors /\ i # 0
      /\ TypeOK /\ OneExchange /\ Sockets
  BY SessionAssumption DEF Servers, Connectors, FdInv
<1>1. PICK s \in {"open", "done"} :
         /\ server[i] = IF s = "open" THEN "call" ELSE "open"
         /\ server' = [server EXCEPT ![i] = s]
         /\ stalled' \in {stalled, stalled \union {i}}
         /\ UNCHANGED <<mode, sess, idx, stack, fd, sock, open>>
  BY DEF SocketFails, receive_reply, sessVars, fdVars
<1>2. OneExchange' /\ Accepted
  BY <1>0, <1>1, CallGoesOn DEF Progress
<1>3. TypeOK'
  BY <1>0, <1>1 DEF TypeOK
<1>4. Sockets'
  <2>1. \A j \in Servers : server'[j] = IF j = i THEN s ELSE server[j]
    BY <1>0, <1>1 DEF OneExchange
  <2> QED
    BY <1>0, <1>1, <2>1 DEF Sockets
<1>5. ListenerAndKept'
  BY <1>1, <1>2, SameDescriptors DEF Accepted
<1> QED
  BY <1>2, <1>3, <1>4, <1>5 DEF FdInv

(* Bind opens the listening socket, Accept the connection of the client.   *)
LEMMA BindFd ==
    ASSUME FdInv, Bind
    PROVE  FdInv'
<1>0. /\ N \in Nat \ {0} /\ TypeOK /\ OneExchange /\ Sockets /\ ListenerAndKept
      /\ sess = "open" /\ stack # <<>> /\ open = {}
      /\ \A i \in Servers : server[i] = "none" /\ fd[i] = None
  BY SessionAssumption DEF FdInv, Bind, OneExchange, Sockets, ListenerAndKept
<1>1. First \in Descriptors /\ Lowest = First
  <2>1. Descriptors \ {} = Descriptors
    OBVIOUS
  <2> QED
    BY <1>0, <2>1, Available DEF Lowest, First, Accepted
<1>2. /\ open' = {First} /\ fd'[0] \in {First, None}
      /\ fd' \in [Connectors -> Descriptors \union {None}]
      /\ \A i \in Servers : fd'[i] = None
  BY <1>0, <1>1 DEF Bind, OpenInto, Keep, TypeOK, Servers, Connectors
<1>3. TypeOK'
  BY <1>0, <1>1, <1>2 DEF Bind, TypeOK
<1>4. OneExchange'
  BY <1>0 DEF Bind, OneExchange
<1>5. Sockets'
  BY <1>0, <1>2 DEF Bind, Sockets
<1>6. ListenerAndKept'
  BY <1>2 DEF Bind, ListenerAndKept, Accepted
<1> QED
  BY <1>3, <1>4, <1>5, <1>6 DEF FdInv

LEMMA AcceptFd ==
    ASSUME FdInv, Accept
    PROVE  FdInv'
<1>0. /\ N \in Nat \ {0} /\ 0 \in Connectors
      /\ TypeOK /\ OneExchange /\ Sockets /\ ListenerAndKept
      /\ sess = "accept" /\ open = {First} /\ sess' = "request"
      /\ \A i \in Servers : server[i] = "none" /\ fd[i] = None /\ sock[i] = None
      /\ sock[0] = None
  BY SessionAssumption
  DEF FdInv, Accept, OneExchange, Sockets, ListenerAndKept, Connectors
<1>1. Lowest \in Descriptors \ {First} /\ Lowest # None /\ First \in Descriptors
  BY <1>0, Available DEF Accepted
<1>2. /\ open' = {First, Lowest} /\ fd' = [fd EXCEPT ![0] = Lowest]
      /\ UNCHANGED <<server, stack, mode, idx, stalled, sock>>
  BY <1>0 DEF Accept, OpenInto, Keep
<1>3. \A c \in Connectors : c = 0 \/ c \in Servers
  BY <1>0 DEF Connectors, Servers
<1>4. \A c \in Connectors : fd'[c] = (IF c = 0 THEN Lowest ELSE None) /\ sock[c] = None
  BY <1>0, <1>2, <1>3 DEF TypeOK
<1>5. \A c \in Connectors : Has(c)' = IF c = 0 THEN Lowest ELSE None
  BY <1>2, <1>4 DEF Has
<1>6. Kept' = {Lowest} /\ Apart'
  BY <1>0, <1>1, <1>5 DEF Kept, Apart
<1>7. TypeOK'
  BY <1>0, <1>1, <1>2 DEF TypeOK
<1>8. OneExchange'
  BY <1>0, <1>2 DEF OneExchange
<1>9. Sockets'
  <2>1. \A i \in Servers : i \in Connectors /\ i # 0
    BY <1>0 DEF Servers, Connectors
  <2> QED
    BY <1>0, <1>2, <1>4, <2>1 DEF Sockets
<1>10. ListenerAndKept'
  BY <1>0, <1>1, <1>2, <1>6 DEF ListenerAndKept, Accepted
<1> QED
  BY <1>7, <1>8, <1>9, <1>10 DEF FdInv

(* Steps that change nothing of what FdInv is about.                       *)
LEMMA SameFd ==
    ASSUME FdInv, stalled' \subseteq Connectors,
           UNCHANGED <<mode, sess, idx, stack, server, fd, sock, open>>
    PROVE  FdInv'
BY DEF FdInv, TypeOK, OneExchange, Sockets, ListenerAndKept, Has, Kept, Apart, Accepted

LEMMA MainFd ==
    ASSUME IInv, FdInv, Running, Setup \/ start_route \/ join_session \/ close_route
    PROVE  FdInv'
<1>0. TypeOK /\ OneExchange /\ Sockets /\ ListenerAndKept
  BY DEF FdInv
<1>1. CASE Setup \/ join_session
  <2>1. UNCHANGED <<mode, sess, idx, stack, server, stalled, fd, sock, open>>
    BY <1>1 DEF Setup, join_session, sessVars, fdVars
  <2> QED
    BY <1>0, <2>1, SameFd DEF TypeOK
<1>2. CASE start_route
  <2>1. /\ UNCHANGED <<mode, idx, stack, server, stalled, fd, sock, open>>
        /\ sess = "none" /\ sess' = "open"
    BY <1>2 DEF start_route, fdVars, IInv
  <2> QED
    BY <1>0, <2>1 DEF FdInv, TypeOK, OneExchange, Sockets, ListenerAndKept, Accepted
<1>3. CASE close_route
  <2>1. ri = "null"
    BY DEF IInv, FdInv, OneExchange, Running
  <2>2. UNCHANGED <<mode, sess, idx, stack, server, stalled, fd, sock, open>>
    BY <1>3, <2>1 DEF close_route, Crash, sessVars, fdVars
  <2> QED
    BY <1>0, <2>2, SameFd DEF TypeOK
<1> QED
  BY <1>1, <1>2, <1>3

(* exit(0), the accesses through a null pointer, and a peer's silence.     *)
LEMMA EndFd ==
    ASSUME FdInv,
           \/ AcceptFails \/ NoExchange
           \/ \E i \in Servers : ConnectFails(i) \/ ReplyGone(i)
           \/ \E c \in Stalls : Stall(c)
    PROVE  FdInv'
<1>0. TypeOK /\ OneExchange /\ Sockets /\ ListenerAndKept
  BY DEF FdInv
<1>1. CASE AcceptFails \/ \E i \in Servers : ConnectFails(i)
  <2>1. /\ UNCHANGED <<mode, idx, stack, server, stalled, fd, sock>>
        /\ sess' = "exited" /\ open' = {}
    BY <1>1 DEF AcceptFails, ConnectFails, Exit
  <2> QED
    BY <1>0, <2>1 DEF FdInv, TypeOK, OneExchange, Sockets, ListenerAndKept, Accepted
<1>2. CASE NoExchange \/ \E i \in Servers : ReplyGone(i)
  <2>1. UNCHANGED <<mode, sess, idx, stack, server, stalled, fd, sock, open>>
    BY <1>2 DEF NoExchange, ReplyGone, Crash, sessVars, fdVars
  <2> QED
    BY <1>0, <2>1, SameFd DEF TypeOK
<1>3. CASE \E c \in Stalls : Stall(c)
  <2>1. UNCHANGED <<mode, sess, idx, stack, server, fd, sock, open>>
    BY <1>3 DEF Stall, sessVars, fdVars
  <2>2. stalled' \subseteq Connectors
    BY <1>0, <1>3, SessionAssumption DEF Stall, TypeOK, Connectors
  <2> QED
    BY <2>1, <2>2, SameFd
<1> QED
  BY <1>1, <1>2, <1>3

(* The exchange, from the push of its requests to the release.             *)
LEMMA ExchangeFd ==
    ASSUME IInv, FdInv,
           \/ ReceiveRequest \/ NewExchange \/ DecodeRequest
           \/ SendToServer \/ CallReturns \/ Release \/ KeepAlive
    PROVE  FdInv'
<1>0. /\ N \in Nat \ {0} /\ TypeOK /\ OneExchange /\ Sockets
      /\ stack \in Seq({"live", "null"}) /\ Len(stack) <= 2 /\ idx \in Servers
  BY SessionAssumption DEF FdInv, TypeOK
<1>1. CASE NewExchange
  <2>1. /\ sess = "exchange" /\ sess' = "decode"
        /\ server' = [i \in Servers |-> "none"]
        /\ stack' = Append(stack, "live")
        /\ UNCHANGED <<mode, idx, stalled, fd, sock, open>>
    BY <1>1 DEF NewExchange, fdVars
  <2>2. Len(stack) <= 1 /\ \A i \in Servers : server[i] = "none"
    BY <1>0, <2>1 DEF OneExchange
  <2>3. stack' \in Seq({"live", "null"}) /\ Len(stack') <= 2
    BY <1>0, <2>1, <2>2, AppendProperties
  <2>4. TypeOK' /\ OneExchange' /\ Sockets'
    BY <1>0, <2>1, <2>2, <2>3 DEF TypeOK, OneExchange, Progress, Sockets
  <2>5. ListenerAndKept'
    BY <2>1, SameDescriptors DEF Accepted
  <2> QED
    BY <2>4, <2>5 DEF FdInv
<1>2. CASE SendToServer
  <2>1. /\ sess = "forward" /\ server' = [server EXCEPT ![idx] = "call"]
        /\ \/ sess' = "call" /\ idx' = idx
           \/ sess' = "forward" /\ idx' = idx + 1 /\ idx < N
           \/ sess' = "synchronize" /\ idx' = 1
        /\ UNCHANGED <<mode, stack, stalled, fd, sock, open>>
    BY <1>2 DEF SendToServer, Forward, fdVars
  <2>2. /\ server \in [Servers -> Progress]
        /\ \A i \in Servers : idx <= i => server[i] = "none"
    BY <1>0, <2>1 DEF OneExchange
  <2>3. idx' \in Servers /\ server' \in [Servers -> Progress]
    BY <1>0, <2>1, <2>2 DEF Servers, Progress
  <2>4. \A i \in Servers : idx < i => server'[i] = "none"
    BY <1>0, <2>1, <2>2 DEF Servers
  <2>5. sess' = "forward" => \A i \in Servers : idx' <= i => server'[i] = "none"
    BY <1>0, <2>1, <2>4 DEF Servers
  <2>6. TypeOK' /\ OneExchange'
    BY <1>0, <2>1, <2>3, <2>4, <2>5 DEF TypeOK, OneExchange
  <2>7. \A i \in Servers : server'[i] = IF i = idx THEN "call" ELSE server[i]
    BY <1>0, <2>1, <2>2
  <2>8. Sockets'
    BY <1>0, <2>1, <2>2, <2>7 DEF Sockets, Servers
  <2>9. ListenerAndKept'
    BY <2>1, SameDescriptors DEF Accepted
  <2> QED
    BY <2>6, <2>8, <2>9 DEF FdInv
<1>3. CASE CallReturns
  <2>1. /\ sess = "call"
        /\ \/ sess' = "forward" /\ idx' = idx + 1 /\ idx < N
           \/ sess' = "synchronize" /\ idx' = 1
        /\ UNCHANGED <<mode, stack, server, stalled, fd, sock, open>>
    BY <1>3 DEF CallReturns, Forward, fdVars
  <2>2. idx' \in Servers
    BY <1>0, <2>1 DEF Servers
  <2>3. sess' = "forward" => \A i \in Servers : idx' <= i => server[i] = "none"
    BY <1>0, <2>1 DEF OneExchange, Servers
  <2>4. TypeOK' /\ OneExchange' /\ Sockets'
    BY <1>0, <2>1, <2>2, <2>3 DEF TypeOK, OneExchange, Sockets
  <2>5. ListenerAndKept'
    BY <2>1, SameDescriptors DEF Accepted
  <2> QED
    BY <2>4, <2>5 DEF FdInv
<1>4. CASE Release
  <2>1. /\ sess = "synchronize" /\ sess' = "keep_alive"
        /\ stack' = [stack EXCEPT ![Len(stack)] = "null"]
        /\ UNCHANGED <<mode, idx, server, stalled, fd, sock, open>>
    BY <1>4 DEF Release, fdVars
  <2>2. stack # <<>>
    BY <2>1 DEF IInv
  <2>3. Len(stack) \in 1 .. Len(stack)
    BY <1>0, <2>2, EmptySeq
  <2>4. /\ stack' \in Seq({"live", "null"}) /\ Len(stack') = Len(stack)
        /\ stack'[Len(stack)] = "null"
    BY <1>0, <2>1, <2>3, ExceptSeq
  <2>5. TypeOK' /\ OneExchange' /\ Sockets'
    BY <1>0, <2>1, <2>4 DEF TypeOK, OneExchange, Sockets
  <2>6. ListenerAndKept'
    BY <2>1, SameDescriptors DEF Accepted
  <2> QED
    BY <2>5, <2>6 DEF FdInv
<1>5. CASE KeepAlive
  <2>1. UNCHANGED <<mode, sess, idx, stack, server, stalled, fd, sock, open>>
    BY <1>0, <1>5 DEF KeepAlive, OneExchange, Crash, sessVars, fdVars
  <2> QED
    BY <1>0, <2>1, SameFd DEF TypeOK
<1>6. CASE ReceiveRequest \/ DecodeRequest
  <2>1. /\ UNCHANGED <<mode, idx, stack, server, stalled, fd, sock, open>>
        /\ \/ sess = "request" /\ sess' = "exchange"
           \/ sess = "decode" /\ sess' = "forward"
    BY <1>6 DEF ReceiveRequest, DecodeRequest, fdVars
  <2>2. TypeOK' /\ OneExchange' /\ Sockets'
    BY <1>0, <2>1 DEF TypeOK, OneExchange, Sockets
  <2>3. ListenerAndKept'
    BY <2>1, SameDescriptors DEF Accepted
  <2> QED
    BY <2>2, <2>3 DEF FdInv
<1> QED
  BY <1>1, <1>2, <1>3, <1>4, <1>5, <1>6

LEMMA FdInductive == IInv /\ FdInv /\ [Next]_vars => FdInv'
<1> SUFFICES ASSUME IInv, FdInv, [Next]_vars PROVE FdInv'
  OBVIOUS
<1>1. CASE Next
  BY <1>1, MainFd, EndFd, ExchangeFd, BindFd, AcceptFd, SocketFd, ConnectFd, ReplyFd
  DEF Next, Sessions, Calls
<1>2. CASE UNCHANGED vars
  <2>1. stalled \subseteq Connectors
    BY DEF FdInv, TypeOK
  <2>2. /\ UNCHANGED <<mode, sess, idx, stack, server, fd, sock, open>>
        /\ stalled' \subseteq Connectors
    BY <1>2, <2>1 DEF vars, sessVars, fdVars
  <2> QED
    BY <2>2, SameFd
<1> QED
  BY <1>1, <1>2

THEOREM DescriptorsKnown == Spec => [](IInv /\ FdInv)
BY Initially, Inductive, FdInitially, FdInductive, PTL DEF Spec

(* run_session handles one exchange of its own above the one it was opened *)
(* with, and there is always a descriptor for the next open.               *)
THEOREM TypeCorrect == Spec => []TypeOK
<1>1. FdInv => TypeOK
  BY DEF FdInv
<1> QED
  BY <1>1, DescriptorsKnown, PTL

(* sockets.c, open_socket_connector: the descriptor that accept overwrites *)
(* is the only one the process loses track of; every other one belongs to  *)
(* one connector, whatever the number of servers and the order in which    *)
(* their threads connect.                                                  *)
THEOREM ConnectorsKeepDescriptors == Spec => []OnlyListenerLost
<1>1. FdInv => OnlyListenerLost
  <2> SUFFICES ASSUME FdInv, Running, sess \notin {"none", "open", "accept"}
               PROVE  /\ \A c, d \in Connectors : c # d => Held(c) \intersect Held(d) = {}
                      /\ open \ UNION {Held(c) : c \in Connectors} = {Min(Descriptors)}
    BY DEF OnlyListenerLost
  <2>1. Accepted
    BY DEF Accepted, Running
  <2>2. open = Kept \union {First} /\ First \notin Kept /\ Apart
    BY <2>1 DEF FdInv, ListenerAndKept
  <2>3. ASSUME NEW c \in Connectors
        PROVE  Held(c) = {Has(c)} \ {None}
    <3>1. c = 0 \/ c \in Servers
      BY SessionAssumption DEF Connectors, Servers
    <3>2. sock[c] = None \/ fd[c] = None
      BY <3>1 DEF FdInv, Sockets
    <3> QED
      BY <3>2 DEF Held, Has
  <2>4. \A c, d \in Connectors : c # d => Held(c) \intersect Held(d) = {}
    BY <2>2, <2>3 DEF Apart
  <2>5. UNION {Held(c) : c \in Connectors} = Kept
    BY <2>3 DEF Kept
  <2> QED
    BY <2>2, <2>4, <2>5 DEF First
<1> QED
  BY <1>1, DescriptorsKnown, PTL
=============================================================================
