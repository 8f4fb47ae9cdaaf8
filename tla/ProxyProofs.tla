---------------------------- MODULE ProxyProofs ----------------------------
(***************************************************************************)
(* OwnDescriptors, ResponsesAreNotCrossed, CachedWhole and, at the end,    *)
(* DescriptorsAccounted for any number of workers, of descriptors, of      *)
(* clients and of slots in the buffer, whatever fails.                     *)
(*                                                                         *)
(* A descriptor is a number, and two holders of one number would close     *)
(* each other's connection.  What keeps their numbers apart is that their  *)
(* clients are apart: a client is in the hands of one holder from accept   *)
(* to Close (Numbered), and the table of open descriptors leads back from  *)
(* a number to its client.                                                 *)
(***************************************************************************)
EXTENDS Proxy, Foundations, SequenceTheorems

\* The descriptors on their way to the workers.
Chain == queue \o accepting
Places == 1 .. Len(Chain)

HostPoints == {"connect", "send", "relay", "relayWrite", "store", "closeHost"}
AskedPoints == HostPoints \cup {"errorReply", "headers", "stuck", "lookup", "hit", "socket"}

Typed == /\ open \in [Fds -> Connections \cup {Free}]
         /\ queue \in Seq(Handed) /\ accepting \in Seq(Handed) /\ conns \in 0 .. MaxConns
         /\ pc \in [Workers -> Points]
         /\ connfd \in [Workers -> Numbers] /\ hostfd \in [Workers -> Numbers]
         /\ serving \in [Workers -> 0 .. MaxConns]
         /\ source \in [Workers -> Connections \cup {Free, Nobody}]

\* No client is in two hands, and none is there that has not connected.
Numbered ==
    /\ \A i \in Places : Chain[i].conn <= conns /\ (Chain[i].conn = 0 <=> Chain[i].fd = NoFd)
    /\ \A w \in Workers : serving[w] <= conns /\ (serving[w] = 0 <=> connfd[w] = NoFd)
    /\ \A i, j \in Places : Chain[i].conn = Chain[j].conn => Chain[i].conn = 0 \/ i = j
    /\ \A w, v \in Workers : serving[w] = serving[v] => serving[w] = 0 \/ w = v
    /\ \A i \in Places, w \in Workers : Chain[i].conn = serving[w] => serving[w] = 0

\* A worker has an origin server's descriptor between Socket and CloseHost
\* only, and answers no client but one whose request it has read.
InOrder == \A w \in Workers : /\ pc[w] \in HostPoints \/ hostfd[w] = NoFd
                              /\ pc[w] \in AskedPoints => serving[w] # 0

Sourced == "severed" \notin failed =>
             \A w \in Workers : pc[w] \in AskedPoints => source[w] = Client(serving[w])

IInv == Typed /\ Numbered /\ InOrder /\ Sourced /\ OwnDescriptors

---------------------------------------------------------------------------
\* Those who wait are the elements of the chain.
LEMMA WaitingIsChain ==
    ASSUME Typed
    PROVE  /\ Chain \in Seq(Handed) /\ Waiting = {Chain[i] : i \in Places}
           /\ \A i \in Places : Chain[i] \in Handed
<1>1. queue \in Seq(Handed) /\ accepting \in Seq(Handed)  BY DEF Typed
<1>2. Chain \in Seq(Handed) /\ Len(Chain) = Len(queue) + Len(accepting)  BY <1>1 DEF Chain
<1>3. \A i \in Places : Chain[i] = IF i <= Len(queue) THEN queue[i] ELSE accepting[i - Len(queue)]
  BY <1>1, <1>2 DEF Chain, Places
<1>4. \A i \in 1 .. Len(queue) : i \in Places /\ Chain[i] = queue[i]
  BY <1>1, <1>2, <1>3 DEF Places
<1>5. \A i \in 1 .. Len(accepting) : i + Len(queue) \in Places /\ Chain[i + Len(queue)] = accepting[i]
  BY <1>1, <1>2, <1>3 DEF Places
<1>6. \A i \in Places : Chain[i] \in Waiting
  <2>1. SUFFICES ASSUME NEW i \in Places PROVE Chain[i] \in Waiting
    OBVIOUS
  <2>2. CASE i <= Len(queue)  BY <1>1, <1>3, <2>2 DEF Waiting, Places
  <2>3. CASE i > Len(queue)
    <3>1. i - Len(queue) \in 1 .. Len(accepting)  BY <1>1, <1>2, <2>3 DEF Places
    <3>2. Chain[i] = accepting[i - Len(queue)]  BY <1>1, <1>3, <2>3 DEF Places
    <3> QED  BY <3>1, <3>2 DEF Waiting
  <2> QED  BY <1>1, <2>2, <2>3 DEF Places
<1>7. Waiting \subseteq {Chain[i] : i \in Places}  BY <1>4, <1>5 DEF Waiting
<1>8. \A i \in Places : Chain[i] \in Handed  BY <1>2 DEF Places
<1> QED  BY <1>2, <1>6, <1>7, <1>8

\* OwnDescriptors by places in the chain.
LEMMA OwnByPlace ==
    ASSUME Typed
    PROVE  OwnDescriptors <=>
             ("severed" \notin failed =>
                /\ \A i \in Places : Chain[i].fd # NoFd => open[Chain[i].fd] = Client(Chain[i].conn)
                /\ \A w \in Workers : connfd[w] # NoFd => open[connfd[w]] = Client(serving[w])
                /\ \A w \in Workers : hostfd[w] # NoFd => open[hostfd[w]] = Origin(serving[w]))
<1>1. Waiting = {Chain[i] : i \in Places}  BY WaitingIsChain
<1> QED  BY <1>1 DEF OwnDescriptors

\* While nothing has severed a connection, no two hold the same number.
LEMMA HoldersApart ==
    ASSUME IInv, "severed" \notin failed
    PROVE  /\ \A i \in Places, w \in Workers : Chain[i].fd = connfd[w] => connfd[w] = NoFd
           /\ \A i \in Places, w \in Workers : Chain[i].fd = hostfd[w] => hostfd[w] = NoFd
           /\ \A w, v \in Workers : connfd[w] = connfd[v] => connfd[w] = NoFd \/ w = v
           /\ \A w, v \in Workers : connfd[w] = hostfd[v] => connfd[w] = NoFd
           /\ \A w, v \in Workers : hostfd[w] = hostfd[v] => hostfd[w] = NoFd \/ w = v
<1>1. Typed /\ Numbered /\ InOrder  BY DEF IInv
<1>2. /\ \A i \in Places : Chain[i].fd # NoFd => open[Chain[i].fd] = Client(Chain[i].conn)
      /\ \A w \in Workers : connfd[w] # NoFd => open[connfd[w]] = Client(serving[w])
      /\ \A w \in Workers : hostfd[w] # NoFd => open[hostfd[w]] = Origin(serving[w])
  BY <1>1, OwnByPlace DEF IInv
<1>3. \A c, d : (Client(c) = Client(d) => c = d) /\ (Origin(c) = Origin(d) => c = d) /\ Client(c) # Origin(d)
  BY DEF Client, Origin
<1>4. \A w \in Workers : hostfd[w] # NoFd => serving[w] # 0
  BY <1>1 DEF InOrder, AskedPoints
<1>5. ASSUME NEW i \in Places, NEW w \in Workers PROVE
        /\ Chain[i].fd = connfd[w] => connfd[w] = NoFd
        /\ Chain[i].fd = hostfd[w] => hostfd[w] = NoFd
  BY <1>1, <1>2, <1>3 DEF Numbered
<1>6. ASSUME NEW w \in Workers, NEW v \in Workers PROVE
        /\ connfd[w] = connfd[v] => connfd[w] = NoFd \/ w = v
        /\ connfd[w] = hostfd[v] => connfd[w] = NoFd
        /\ hostfd[w] = hostfd[v] => hostfd[w] = NoFd \/ w = v
  BY <1>1, <1>2, <1>3, <1>4 DEF Numbered
<1> QED  BY <1>5, <1>6

---------------------------------------------------------------------------
(* Steps of a worker that keeps its client *)

\* Worker w goes on to `to'; nobody else's locals change, nor w's client.
Moves(w, to) ==
    /\ to \in Points /\ pc' = [pc EXCEPT ![w] = to]
    /\ UNCHANGED <<daemon, connfd, serving>>
    /\ open' \in [Fds -> Connections \cup {Free}]
    /\ hostfd' \in [Workers -> Numbers] /\ \A v \in Workers : v # w => hostfd'[v] = hostfd[v]
    /\ source' \in [Workers -> Connections \cup {Free, Nobody}]
    /\ \A v \in Workers : v # w => source'[v] = source[v]
    /\ failed \subseteq failed'
    /\ to \in HostPoints \/ hostfd'[w] = NoFd
    /\ to \in AskedPoints => serving[w] # 0

\* Unless it severs a connection, it changes nothing in the table of open
\* descriptors but free ones and its own to the origin server.
Harmless(w, to) ==
    "severed" \notin failed' =>
        /\ \A f \in Fds : open'[f] # open[f] => open[f] = Free \/ f = hostfd[w]
        /\ hostfd'[w] # NoFd => open'[hostfd'[w]] = Origin(serving[w])
        /\ to \in AskedPoints => source'[w] = Client(serving[w])

\* Such a step keeps the invariant.
LEMMA MoveKeeps ==
    ASSUME IInv, NEW w \in Workers, NEW to, Moves(w, to), Harmless(w, to)
    PROVE  IInv'
<1>1. Typed /\ Numbered /\ InOrder /\ Sourced  BY DEF IInv
<1>2. Chain' = Chain /\ Places' = Places /\ connfd' = connfd /\ serving' = serving /\ conns' = conns
  BY DEF Moves, daemon, Chain, Places
<1>3. /\ pc' \in [Workers -> Points] /\ pc'[w] = to
      /\ \A v \in Workers : v # w => pc'[v] = pc[v]
  BY <1>1 DEF Moves, Typed
<1>4. Typed'  BY <1>1, <1>3 DEF Moves, Typed, daemon
<1>5. Numbered'  BY <1>1, <1>2 DEF Numbered
<1>6. InOrder'  BY <1>1, <1>2, <1>3 DEF InOrder, Moves
<1>7. Sourced'  BY <1>1, <1>2, <1>3 DEF Sourced, Moves, Harmless
<1>8. ASSUME "severed" \notin failed'
      PROVE  /\ \A i \in Places : Chain[i].fd # NoFd => open'[Chain[i].fd] = Client(Chain[i].conn)
             /\ \A v \in Workers : connfd[v] # NoFd => open'[connfd[v]] = Client(serving[v])
             /\ \A v \in Workers : hostfd'[v] # NoFd => open'[hostfd'[v]] = Origin(serving[v])
  <2>1. "severed" \notin failed  BY <1>8 DEF Moves
  <2>2. /\ \A i \in Places : Chain[i].fd # NoFd => open[Chain[i].fd] = Client(Chain[i].conn)
        /\ \A v \in Workers : connfd[v] # NoFd => open[connfd[v]] = Client(serving[v])
        /\ \A v \in Workers : hostfd[v] # NoFd => open[hostfd[v]] = Origin(serving[v])
    BY <1>1, <2>1, OwnByPlace DEF IInv
  <2>3. \A f \in Fds : open'[f] # open[f] => open[f] = Free \/ f = hostfd[w]
    BY <1>8 DEF Harmless
  <2>4. /\ \A i \in Places : Chain[i].conn \in 0 .. MaxConns /\ Chain[i].fd \in Numbers
        /\ \A v \in Workers : connfd[v] \in Numbers /\ hostfd[v] \in Numbers
    BY <1>1, WaitingIsChain DEF Typed, Handed
  <2>5. ASSUME NEW i \in Places, Chain[i].fd # NoFd
        PROVE  open'[Chain[i].fd] = Client(Chain[i].conn)
    <3>1. Chain[i].fd \in Fds /\ Chain[i].fd # hostfd[w]
      BY <2>1, <2>4, <2>5, HoldersApart DEF Numbers
    <3>2. Client(Chain[i].conn) # Free
      <4>1. Chain[i].conn \in 1 .. MaxConns
        BY <1>1, <2>4, <2>5, BoundsAssumption DEF Numbered
      <4> QED  BY <4>1, FreeAssumption DEF Connections
    <3> QED  BY <2>2, <2>3, <2>5, <3>1, <3>2
  <2>6. ASSUME NEW v \in Workers, connfd[v] # NoFd
        PROVE  open'[connfd[v]] = Client(serving[v])
    <3>1. connfd[v] \in Fds /\ connfd[v] # hostfd[w]
      BY <2>1, <2>4, <2>6, HoldersApart DEF Numbers
    <3>2. Client(serving[v]) # Free
      <4>1. serving[v] \in 1 .. MaxConns
        BY <1>1, <2>6, BoundsAssumption DEF Numbered, Typed
      <4> QED  BY <4>1, FreeAssumption DEF Connections
    <3> QED  BY <2>2, <2>3, <2>6, <3>1, <3>2
  <2>7. ASSUME NEW v \in Workers, hostfd'[v] # NoFd
        PROVE  open'[hostfd'[v]] = Origin(serving[v])
    <3>1. CASE v = w  BY <1>8, <2>7, <3>1 DEF Harmless
    <3>2. CASE v # w
      <4>1. hostfd'[v] = hostfd[v]  BY <3>2 DEF Moves
      <4>2. hostfd[v] \in Fds /\ hostfd[v] # hostfd[w]
        BY <2>1, <2>4, <2>7, <3>2, <4>1, HoldersApart DEF Numbers
      <4>3. Origin(serving[v]) # Free
        BY <1>1, FreeAssumption DEF Connections, Typed
      <4> QED  BY <2>2, <2>3, <2>7, <4>1, <4>2, <4>3
    <3> QED  BY <3>1, <3>2
  <2> QED  BY <2>5, <2>6, <2>7
<1>9. OwnDescriptors'
  <2>1. Waiting' = Waiting  BY DEF Moves, daemon, Waiting
  <2>2. Waiting = {Chain[i] : i \in Places}  BY <1>1, WaitingIsChain
  <2> QED  BY <1>2, <1>8, <2>1, <2>2 DEF OwnDescriptors
<1> QED  BY <1>4, <1>5, <1>6, <1>7, <1>9 DEF IInv

\* Reading and writing: what the wrappers close, they close for an error that
\* severs the connection.
Severing == {"clientReset", "clientBroken", "hostReset", "hostBroken"}

Touched(fd) == \/ Works(fd) \/ \E error \in Severing : Cut(fd, error)
               \/ \E error \in AllFailures : Fails(fd, error)

\* Closing and opening leave a table of descriptors.
LEMMA OpenAsTyped ==
    ASSUME Typed, NEW fd, NEW what, fd \in Fds => what \in Connections \cup {Free}, OpenAs(fd, what)
    PROVE  /\ open' \in [Fds -> Connections \cup {Free}]
           /\ \A f \in Fds : open'[f] = IF f = fd THEN what ELSE open[f]
<1>1. open \in [Fds -> Connections \cup {Free}]  BY DEF Typed
<1>2. open' = [f \in Fds |-> IF f = fd THEN what ELSE open[f]]  BY DEF OpenAs
<1> QED  BY <1>1, <1>2

\* A read or a write that closes its descriptor severs the connection.
LEMMA TouchedEffect ==
    ASSUME Typed, NEW fd, Touched(fd)
    PROVE  /\ open' \in [Fds -> Connections \cup {Free}] /\ failed \subseteq failed'
           /\ "severed" \notin failed' => open' = open
<1>1. CASE Works(fd)  BY <1>1 DEF Works, Typed
<1>2. ASSUME NEW error \in Severing, Cut(fd, error)
      PROVE  open' \in [Fds -> Connections \cup {Free}] /\ failed \subseteq failed' /\ "severed" \in failed'
  <2>1. Mark(error) = {"severed"}  BY Zenon DEF Mark, Severing
  <2>2. failed' = failed \cup {"severed"}  BY <1>2, <2>1 DEF Cut, Occurs
  <2>3. open' \in [Fds -> Connections \cup {Free}]
    BY <1>2, OpenAsTyped DEF Cut, Shut
  <2> QED  BY <2>2, <2>3
<1>3. ASSUME NEW error \in AllFailures, Fails(fd, error)
      PROVE  open' = open /\ failed \subseteq failed'
  BY <1>3 DEF Fails, Occurs
<1> QED  BY <1>1, <1>2, <1>3 DEF Touched, Typed

\* Where a step that opens and closes nothing may go.
Onward(w, from, to) ==
    /\ Goto(w, from, to) /\ to \in Points
    /\ to \in AskedPoints => from \in AskedPoints
    /\ from \in HostPoints => to \in HostPoints
    /\ UNCHANGED <<daemon, connfd, serving, source, hostfd>>
    /\ UNCHANGED <<open, failed>> \/ \E fd \in Numbers : Touched(fd)

\* Such a step keeps the invariant.
LEMMA OnwardKeeps ==
    ASSUME IInv, NEW w \in Workers, NEW from, NEW to, Onward(w, from, to)
    PROVE  IInv'
<1>1. Typed /\ InOrder /\ Sourced  BY DEF IInv
<1>2. /\ open' \in [Fds -> Connections \cup {Free}] /\ failed \subseteq failed'
      /\ "severed" \notin failed' => open' = open
  BY <1>1, TouchedEffect DEF Onward, Typed
<1>3. pc[w] = from /\ pc' = [pc EXCEPT ![w] = to]  BY DEF Onward, Goto
<1>4. Moves(w, to)
  BY <1>1, <1>2, <1>3 DEF Moves, Onward, Typed, InOrder
<1>5. Harmless(w, to)
  <2>1. SUFFICES ASSUME "severed" \notin failed' PROVE
          /\ \A f \in Fds : open'[f] # open[f] => open[f] = Free \/ f = hostfd[w]
          /\ hostfd'[w] # NoFd => open'[hostfd'[w]] = Origin(serving[w])
          /\ to \in AskedPoints => source'[w] = Client(serving[w])
    BY DEF Harmless
  <2>2. open' = open /\ "severed" \notin failed  BY <1>2, <2>1
  <2>3. hostfd[w] # NoFd => open[hostfd[w]] = Origin(serving[w])
    BY <2>2 DEF IInv, OwnDescriptors
  <2>4. to \in AskedPoints => source[w] = Client(serving[w])
    BY <1>1, <1>3, <2>2 DEF Sourced, Onward
  <2> QED  BY <2>2, <2>3, <2>4 DEF Onward
<1> QED  BY <1>4, <1>5, MoveKeeps

---------------------------------------------------------------------------
(* The steps of do_proxy, one by one *)

\* The steps that open and close nothing, but for errors that sever.
LEMMA OnwardSteps ==
    ASSUME IInv, NEW w \in Workers,
           \/ ErrorReply(w) \/ ReadHeaders(w) \/ HeadersEnd(w) \/ ReadFails(w)
           \/ ReadCacheHit(w) \/ ReplyFromCache(w) \/ ReadCacheMiss(w)
           \/ SendRequest(w) \/ RelayRead(w) \/ RelayWrite(w) \/ RelayEnd(w) \/ RelayFails(w)
           \/ WriteCache(w)
    PROVE  IInv'
<1> DEFINE Goes(from, to) == Onward(w, from, to)
<1>1. connfd[w] \in Numbers /\ hostfd[w] \in Numbers  BY DEF IInv, Typed
<1>2. {"clientReset", "clientBroken", "hostReset", "hostBroken"} \subseteq Severing  BY DEF Severing
<1>3. {"clientError", "hostError", "clientEof"} \subseteq AllFailures  BY DEF AllFailures
<1> USE <1>1, <1>2, <1>3 DEF Onward, Touched, local, Points, AskedPoints, HostPoints
<1>4. CASE ErrorReply(w)
  <2> DEFINE to == IF lines[w] = 1 THEN "close" ELSE "errorReply"
  <2>1. Goes("errorReply", to)  BY <1>4 DEF ErrorReply
  <2> QED  BY <2>1, OnwardKeeps
<1>5. CASE ReadHeaders(w)
  <2>1. Goes("headers", "lookup")  BY <1>5 DEF ReadHeaders
  <2> QED  BY <2>1, OnwardKeeps
<1>6. CASE HeadersEnd(w)
  <2>1. Fails(connfd[w], "clientEof")  BY <1>6 DEF HeadersEnd, Fails
  <2>2. Goes("headers", "stuck")  BY <1>6, <2>1 DEF HeadersEnd
  <2> QED  BY <2>2, OnwardKeeps
<1>7. CASE ReadFails(w)
  <2>1. \E point \in {"request", "headers"} : Goes(point, "close")  BY <1>7 DEF ReadFails
  <2> QED  BY <2>1, OnwardKeeps
<1>8. CASE ReadCacheHit(w)
  <2>1. Goes("lookup", "hit")  BY <1>8 DEF ReadCacheHit
  <2> QED  BY <2>1, OnwardKeeps
<1>9. CASE ReplyFromCache(w)
  <2>1. Goes("hit", "close")  BY <1>9 DEF ReplyFromCache
  <2> QED  BY <2>1, OnwardKeeps
<1>10. CASE ReadCacheMiss(w)
  <2>1. Goes("lookup", "socket")  BY <1>10 DEF ReadCacheMiss
  <2> QED  BY <2>1, OnwardKeeps
<1>11. CASE SendRequest(w)
  <2> DEFINE to == IF lines[w] = 1 THEN "relay" ELSE "send"
  <2>1. Goes("send", to)  BY <1>11 DEF SendRequest
  <2> QED  BY <2>1, OnwardKeeps
<1>12. CASE RelayRead(w)
  <2>1. Goes("relay", "relayWrite")  BY <1>12 DEF RelayRead
  <2> QED  BY <2>1, OnwardKeeps
<1>13. CASE RelayWrite(w)
  <2>1. Goes("relayWrite", "relay") \/ Goes("relayWrite", "closeHost")  BY <1>13 DEF RelayWrite
  <2> QED  BY <2>1, OnwardKeeps
<1>14. CASE RelayEnd(w)
  <2>1. Goes("relay", "store")  BY <1>14 DEF RelayEnd
  <2> QED  BY <2>1, OnwardKeeps
<1>15. CASE RelayFails(w)
  <2>1. Goes("relay", "store")  BY <1>15 DEF RelayFails
  <2> QED  BY <2>1, OnwardKeeps
<1>16. CASE WriteCache(w)
  <2>1. Goes("store", "closeHost")  BY <1>16 DEF WriteCache
  <2> QED  BY <2>1, OnwardKeeps
<1> QED
  BY <1>4, <1>5, <1>6, <1>7, <1>8, <1>9, <1>10, <1>11, <1>12, <1>13, <1>14, <1>15, <1>16

\* The request is read from whatever is behind the descriptor.
LEMMA RequestRead ==
    ASSUME IInv, NEW w \in Workers, RejectRequest(w) \/ \E t \in Tags : ReadRequest(w, t)
    PROVE  IInv'
<1>1. Typed /\ Numbered /\ InOrder  BY DEF IInv
<1>2. PICK to \in {"headers", "errorReply"} : Goto(w, "request", to)
  BY DEF RejectRequest, ReadRequest
<1>3. /\ connfd[w] \in Fds /\ open' = open /\ failed' = failed
      /\ source' = [source EXCEPT ![w] = open[connfd[w]]]
      /\ UNCHANGED <<daemon, connfd, serving, hostfd>>
  BY DEF RejectRequest, ReadRequest, Works, Live
<1>4. connfd[w] # NoFd /\ serving[w] # 0
  BY <1>1, <1>3, FdsAssumption DEF Numbered, NoFd
<1>5. hostfd[w] = NoFd  BY <1>1, <1>2 DEF InOrder, HostPoints, Goto
<1>6. open[connfd[w]] \in Connections \cup {Free}  BY <1>1, <1>3 DEF Typed
<1>7. Moves(w, to)
  BY <1>1, <1>2, <1>3, <1>4, <1>5, <1>6 DEF Moves, Typed, Goto, Points
<1>8. Harmless(w, to)
  BY <1>1, <1>3, <1>4, <1>5 DEF Harmless, IInv, OwnDescriptors, Typed
<1> QED  BY <1>7, <1>8, MoveKeeps

\* The lowest free number is a free number.
LEMMA LowestIsFree ==
    LowestFree = NoFd \/ (LowestFree \in Fds /\ open[LowestFree] = Free)
<1>1. FreeFds \in SUBSET Nat  BY FdsAssumption DEF FreeFds
<1>2. CASE FreeFds = {}  BY <1>2 DEF LowestFree
<1>3. CASE FreeFds # {}
  <2>1. Min(FreeFds) \in FreeFds  BY <1>1, <1>3, MinIsMember
  <2> QED  BY <1>3, <2>1 DEF LowestFree, FreeFds
<1> QED  BY <1>2, <1>3

\* socket() hands out a number nobody holds.
LEMMA SocketKeeps == ASSUME IInv, NEW w \in Workers, Socket(w) PROVE IInv'
<1> DEFINE fd == LowestFree
           to == IF fd = NoFd THEN "send" ELSE "connect"
<1>1. Typed /\ InOrder /\ Sourced  BY DEF IInv
<1>2. /\ Goto(w, "socket", to) /\ hostfd' = [hostfd EXCEPT ![w] = fd]
      /\ OpenAs(fd, Origin(serving[w])) /\ failed \subseteq failed'
      /\ UNCHANGED <<daemon, connfd, serving, source>>
  BY DEF Socket
<1>3. fd = NoFd \/ (fd \in Fds /\ open[fd] = Free)  BY LowestIsFree
<1>4. fd \in Numbers  BY <1>3 DEF Numbers
<1> HIDE DEF fd
<1>5. Origin(serving[w]) \in Connections  BY <1>1 DEF Typed, Connections
<1>6. /\ open' \in [Fds -> Connections \cup {Free}]
      /\ \A f \in Fds : open'[f] = IF f = fd THEN Origin(serving[w]) ELSE open[f]
  BY <1>1, <1>2, <1>5, OpenAsTyped
<1>7. hostfd'[w] = fd /\ pc[w] = "socket" /\ serving[w] # 0
  BY <1>1, <1>2 DEF Typed, InOrder, Goto, AskedPoints
<1>8. Moves(w, to)
  BY <1>1, <1>2, <1>4, <1>6, <1>7 DEF Moves, Typed, Goto, Points, HostPoints
<1>9. \A f \in Fds : open'[f] # open[f] => open[f] = Free \/ f = hostfd[w]
  BY <1>3, <1>6, FdsAssumption DEF NoFd
<1>10. hostfd'[w] # NoFd => open'[hostfd'[w]] = Origin(serving[w])  BY <1>3, <1>6, <1>7
<1>11. "severed" \notin failed' => source'[w] = Client(serving[w])
  BY <1>1, <1>2, <1>7 DEF Sourced, AskedPoints
<1>12. Harmless(w, to)  BY <1>9, <1>10, <1>11 DEF Harmless
<1> QED  BY <1>8, <1>12, MoveKeeps

\* Whoever closes the descriptor to the origin server forgets it.
LEMMA HostClosed ==
    ASSUME IInv, NEW w \in Workers, NEW from, NEW to, Goto(w, from, to), to \in Points,
           to \in AskedPoints => from \in AskedPoints,
           UNCHANGED <<daemon, connfd, serving, source>>, failed \subseteq failed',
           hostfd' = [hostfd EXCEPT ![w] = NoFd], Shut(hostfd[w]) \/ UNCHANGED open
    PROVE  IInv'
<1>1. Typed /\ InOrder /\ Sourced  BY DEF IInv
<1>2. /\ open' \in [Fds -> Connections \cup {Free}]
      /\ \A f \in Fds : open'[f] # open[f] => f = hostfd[w]
  BY <1>1, OpenAsTyped DEF Shut, Typed
<1>3. hostfd'[w] = NoFd /\ NoFd \in Numbers /\ pc[w] = from  BY <1>1 DEF Typed, Numbers, Goto
<1>4. Moves(w, to)  BY <1>1, <1>2, <1>3 DEF Moves, Typed, Goto, InOrder
<1>5. Harmless(w, to)  BY <1>1, <1>2, <1>3 DEF Harmless, Sourced
<1> QED  BY <1>4, <1>5, MoveKeeps

\* do_proxy closes its own connection to the origin server.
LEMMA CloseHostKeeps == ASSUME IInv, NEW w \in Workers, CloseHost(w) PROVE IInv'
<1>1. "close" \in Points /\ "close" \notin AskedPoints  BY DEF Points, AskedPoints, HostPoints
<1> QED  BY <1>1, HostClosed DEF CloseHost

\* However connecting ends, what is closed or forgotten is its own.
LEMMA ConnectKeeps == ASSUME IInv, NEW w \in Workers, Connect(w) PROVE IInv'
<1>1. /\ Goto(w, "connect", "send") /\ "send" \in Points
      /\ {"connect", "send"} \subseteq AskedPoints /\ {"connect", "send"} \subseteq HostPoints
      /\ UNCHANGED <<daemon, connfd, serving, source>>
  BY DEF Connect, Points, AskedPoints, HostPoints
<1>2. CASE Works(hostfd[w]) /\ UNCHANGED hostfd
  <2>1. Onward(w, "connect", "send")  BY <1>1, <1>2 DEF Onward, Works
  <2> QED  BY <2>1, OnwardKeeps
<1>3. CASE /\ Cut(hostfd[w], "hostRefused") \/ Fails(hostfd[w], "hostUnknown")
           /\ hostfd' = [hostfd EXCEPT ![w] = NoFd]
  <2>1. failed \subseteq failed' /\ (Shut(hostfd[w]) \/ UNCHANGED open)
    BY <1>3 DEF Cut, Fails, Occurs
  <2> QED  BY <1>1, <1>3, <2>1, HostClosed
<1> QED  BY <1>2, <1>3 DEF Connect

---------------------------------------------------------------------------
(* A client changes hands *)

\* thread closes its own connection and nobody else's.
LEMMA CloseConnKeeps == ASSUME IInv, NEW w \in Workers, CloseConn(w) PROVE IInv'
<1>1. Typed /\ Numbered /\ InOrder /\ Sourced  BY DEF IInv
<1>2. /\ Goto(w, "close", "remove") /\ Shut(connfd[w])
      /\ connfd' = [connfd EXCEPT ![w] = NoFd] /\ serving' = [serving EXCEPT ![w] = 0]
      /\ source' = [source EXCEPT ![w] = Nobody]
      /\ UNCHANGED <<daemon, hostfd, failed>>
  BY DEF CloseConn
<1>3. Chain' = Chain /\ Places' = Places /\ conns' = conns
  BY <1>2 DEF daemon, Chain, Places
<1>4. /\ open' \in [Fds -> Connections \cup {Free}]
      /\ \A f \in Fds : open'[f] = IF f = connfd[w] THEN Free ELSE open[f]
  BY <1>1, <1>2, OpenAsTyped DEF Shut
<1>5. pc[w] = "close" /\ pc' = [pc EXCEPT ![w] = "remove"]  BY <1>2 DEF Goto
<1>6. NoFd \in Numbers /\ 0 \in 0 .. MaxConns /\ "remove" \in Points
  BY BoundsAssumption DEF Numbers, Points
<1>7. Typed'  BY <1>1, <1>2, <1>4, <1>5, <1>6 DEF Typed, daemon
<1>8. /\ connfd'[w] = NoFd /\ serving'[w] = 0
      /\ \A v \in Workers : v # w => connfd'[v] = connfd[v] /\ serving'[v] = serving[v]
                                    /\ source'[v] = source[v] /\ pc'[v] = pc[v]
  BY <1>1, <1>2, <1>5 DEF Typed
<1>9. Numbered'
  <2>1. conns' \in Nat  BY <1>1, <1>3, BoundsAssumption DEF Typed
  <2> QED  BY <1>1, <1>3, <1>8, <2>1 DEF Numbered
<1>10. pc'[w] = "remove"  BY <1>1, <1>5 DEF Typed
<1>11. InOrder'
  <2>1. hostfd[w] = NoFd  BY <1>1, <1>5 DEF InOrder, HostPoints
  <2> QED  BY <1>1, <1>2, <1>8, <1>10, <2>1 DEF InOrder, AskedPoints, HostPoints
<1>12. Sourced'  BY <1>1, <1>2, <1>8, <1>10 DEF Sourced, AskedPoints, HostPoints
<1>13. OwnDescriptors'
  <2>1. SUFFICES ASSUME "severed" \notin failed'
        PROVE  /\ \A handed \in Waiting' : handed.fd # NoFd => open'[handed.fd] = Client(handed.conn)
               /\ \A v \in Workers : connfd'[v] # NoFd => open'[connfd'[v]] = Client(serving'[v])
               /\ \A v \in Workers : hostfd'[v] # NoFd => open'[hostfd'[v]] = Origin(serving'[v])
    BY DEF OwnDescriptors
  <2>2. "severed" \notin failed  BY <1>2, <2>1
  <2>3. Waiting' = {Chain[i] : i \in Places} /\ \A i \in Places : Chain[i].fd \in Numbers
    BY <1>1, <1>2, WaitingIsChain DEF daemon, Waiting, Handed
  <2>4. /\ \A i \in Places : Chain[i].fd # NoFd => open[Chain[i].fd] = Client(Chain[i].conn)
        /\ \A v \in Workers : connfd[v] # NoFd => open[connfd[v]] = Client(serving[v])
        /\ \A v \in Workers : hostfd[v] # NoFd => open[hostfd[v]] = Origin(serving[v])
    BY <1>1, <2>2, OwnByPlace DEF IInv
  <2>5. ASSUME NEW i \in Places, Chain[i].fd # NoFd
        PROVE  open'[Chain[i].fd] = Client(Chain[i].conn)
    <3>1. Chain[i].fd \in Fds /\ Chain[i].fd # connfd[w]
      BY <2>2, <2>3, <2>5, HoldersApart DEF Numbers
    <3> QED  BY <1>4, <2>4, <2>5, <3>1
  <2>6. ASSUME NEW v \in Workers, connfd'[v] # NoFd
        PROVE  open'[connfd'[v]] = Client(serving'[v])
    <3>1. v # w /\ connfd'[v] = connfd[v] /\ serving'[v] = serving[v]  BY <1>8, <2>6
    <3>2. connfd[v] \in Fds  BY <1>1, <2>6, <3>1 DEF Typed, Numbers
    <3>3. connfd[v] # connfd[w]  BY <2>2, <2>6, <3>1, HoldersApart
    <3> QED  BY <1>4, <2>4, <2>6, <3>1, <3>2, <3>3
  <2>7. ASSUME NEW v \in Workers, hostfd'[v] # NoFd
        PROVE  open'[hostfd'[v]] = Origin(serving'[v])
    <3>1. hostfd'[v] = hostfd[v]  BY <1>2
    <3>2. v # w  BY <1>1, <1>5, <2>7, <3>1 DEF InOrder, HostPoints
    <3>3. hostfd[v] \in Fds  BY <1>1, <2>7, <3>1 DEF Typed, Numbers
    <3>4. hostfd[v] # connfd[w]  BY <2>2, <2>7, <3>1, HoldersApart
    <3> QED  BY <1>4, <1>8, <2>4, <2>7, <3>1, <3>2, <3>3, <3>4
  <2> QED  BY <2>3, <2>5, <2>6, <2>7
<1> QED  BY <1>7, <1>9, <1>11, <1>12, <1>13 DEF IInv

\* sbuf_insert leaves the chain as it is.
LEMMA SbufInsertKeeps == ASSUME IInv, SbufInsert PROVE IInv'
<1>1. Typed /\ Numbered /\ InOrder /\ Sourced /\ OwnDescriptors  BY DEF IInv
<1>2. /\ queue' = Chain /\ accepting' = <<>>
      /\ open' = open /\ conns' = conns /\ pc' = pc /\ failed' = failed
      /\ connfd' = connfd /\ serving' = serving /\ source' = source /\ hostfd' = hostfd
  BY DEF SbufInsert, local, Chain
<1>3. Chain \in Seq(Handed)  BY <1>1, WaitingIsChain
<1>4. Chain' = Chain /\ Places' = Places  BY <1>2, <1>3 DEF Chain, Places
<1>5. Typed'  BY <1>1, <1>2, <1>3 DEF Typed
<1>6. Numbered'  BY <1>1, <1>2, <1>4 DEF Numbered
<1>7. InOrder' /\ Sourced'  BY <1>1, <1>2 DEF InOrder, Sourced
<1>8. OwnDescriptors'
  <2>1. Waiting' = {Chain[i] : i \in Places}
    <3>1. Waiting' = {Chain[i] : i \in 1 .. Len(Chain)} \cup {(<<>>)[i] : i \in 1 .. Len(<<>>)}
      BY <1>2 DEF Waiting
    <3>2. 1 .. Len(<<>>) = {}  OBVIOUS
    <3> QED  BY <3>1, <3>2 DEF Places
  <2>2. Waiting' = Waiting  BY <1>1, <2>1, WaitingIsChain
  <2> QED  BY <1>1, <1>2, <2>2 DEF OwnDescriptors
<1> QED  BY <1>5, <1>6, <1>7, <1>8 DEF IInv

\* A worker takes the client at the head of the chain.
LEMMA SbufRemoveKeeps == ASSUME IInv, NEW w \in Workers, SbufRemove(w) PROVE IInv'
<1>1. Typed /\ Numbered /\ InOrder /\ Sourced /\ OwnDescriptors  BY DEF IInv
<1>2. /\ queue # <<>> /\ Goto(w, "remove", "request")
      /\ queue' = Tail(queue) /\ accepting' = accepting /\ conns' = conns
      /\ connfd' = [connfd EXCEPT ![w] = Head(queue).fd]
      /\ serving' = [serving EXCEPT ![w] = Head(queue).conn]
      /\ source' = source /\ hostfd' = hostfd
      /\ open' = open /\ failed' = failed
  BY DEF SbufRemove
<1> DEFINE h == Head(queue)
<1>3. /\ queue \in Seq(Handed) /\ accepting \in Seq(Handed) /\ Len(queue) > 0
      /\ Len(queue') = Len(queue) - 1 /\ queue' \in Seq(Handed)
      /\ \A i \in 1 .. Len(queue) - 1 : queue'[i] = queue[i + 1]
  BY <1>1, <1>2 DEF Typed
<1>4. Len(Chain) = Len(queue) + Len(accepting)  BY <1>3 DEF Chain
<1>5. \A i \in Places : Chain[i] = IF i <= Len(queue) THEN queue[i] ELSE accepting[i - Len(queue)]
  BY <1>3, <1>4 DEF Chain, Places
<1>6. /\ Chain' = queue' \o accepting /\ Len(Chain') = Len(Chain) - 1
      /\ \A i \in 1 .. Len(Chain) - 1 :
            Chain'[i] = IF i <= Len(queue') THEN queue'[i] ELSE accepting[i - Len(queue')]
  BY <1>2, <1>3, <1>4 DEF Chain
<1>7. 1 \in Places /\ Chain[1] = h /\ h \in Handed
  BY <1>2, <1>3, <1>4, <1>5 DEF Places
<1>8. Places' = 1 .. Len(Chain) - 1  BY <1>6 DEF Places
<1>9. \A i \in Places' : i + 1 \in Places /\ i + 1 # 1 /\ Chain'[i] = Chain[i + 1]
  <2>1. SUFFICES ASSUME NEW i \in 1 .. Len(Chain) - 1 PROVE i + 1 \in Places /\ i + 1 # 1 /\ Chain'[i] = Chain[i + 1]
    BY <1>8
  <2>2. i + 1 \in Places /\ i + 1 # 1  BY <1>3, <1>4 DEF Places
  <2>3. CASE i <= Len(queue')
    <3>1. i + 1 <= Len(queue)  BY <1>3, <2>3
    <3>2. Chain[i + 1] = queue[i + 1]  BY <1>5, <2>2, <3>1
    <3>3. Chain'[i] = queue'[i]  BY <1>6, <2>3
    <3>4. i \in 1 .. Len(queue) - 1  BY <1>3, <2>3
    <3> QED  BY <1>3, <2>2, <3>2, <3>3, <3>4
  <2>4. CASE ~ (i <= Len(queue'))
    <3>1. ~ (i + 1 <= Len(queue)) /\ (i + 1) - Len(queue) = i - Len(queue')  BY <1>3, <2>4
    <3>2. Chain[i + 1] = accepting[(i + 1) - Len(queue)]  BY <1>5, <2>2, <3>1
    <3>3. Chain'[i] = accepting[i - Len(queue')]  BY <1>6, <2>4
    <3> QED  BY <2>2, <3>1, <3>2, <3>3
  <2> QED  BY <2>3, <2>4
<1>10. /\ pc[w] = "remove" /\ pc' = [pc EXCEPT ![w] = "request"] /\ "request" \in Points
       /\ h.fd \in Numbers /\ h.conn \in 0 .. MaxConns /\ NoFd \in Numbers
  BY <1>2, <1>7 DEF Goto, Points, Handed, Numbers
<1>a. hostfd[w] = NoFd  BY <1>1, <1>10 DEF InOrder, HostPoints
<1>11. /\ connfd'[w] = h.fd /\ serving'[w] = h.conn /\ hostfd'[w] = NoFd /\ pc'[w] = "request"
       /\ \A v \in Workers : v # w => connfd'[v] = connfd[v] /\ serving'[v] = serving[v]
               /\ hostfd'[v] = hostfd[v] /\ source'[v] = source[v] /\ pc'[v] = pc[v]
  BY <1>1, <1>2, <1>10, <1>a DEF Typed
<1>12. Typed'  BY <1>1, <1>2, <1>3, <1>10 DEF Typed
<1>13. Numbered'
  <2> DEFINE c == h.conn
  <2>1. /\ \A i \in Places : Chain[i].conn <= conns /\ (Chain[i].conn = 0 <=> Chain[i].fd = NoFd)
        /\ \A v \in Workers : serving[v] <= conns /\ (serving[v] = 0 <=> connfd[v] = NoFd)
        /\ \A i, j \in Places : Chain[i].conn = Chain[j].conn => Chain[i].conn = 0 \/ i = j
        /\ \A u, v \in Workers : serving[u] = serving[v] => serving[u] = 0 \/ u = v
        /\ \A i \in Places, v \in Workers : Chain[i].conn = serving[v] => serving[v] = 0
    BY <1>1 DEF Numbered
  <2>2. \A i \in Places' : Chain'[i].conn <= conns' /\ (Chain'[i].conn = 0 <=> Chain'[i].fd = NoFd)
    BY <1>2, <1>9, <2>1
  <2>3. \A v \in Workers : serving'[v] <= conns' /\ (serving'[v] = 0 <=> connfd'[v] = NoFd)
    BY <1>2, <1>7, <1>11, <2>1
  <2>4. \A i, j \in Places' : Chain'[i].conn = Chain'[j].conn => Chain'[i].conn = 0 \/ i = j
    <3>1. SUFFICES ASSUME NEW i \in Places', NEW j \in Places', Chain'[i].conn = Chain'[j].conn
                   PROVE Chain'[i].conn = 0 \/ i = j
      OBVIOUS
    <3>2. Chain[i + 1].conn = 0 \/ i + 1 = j + 1  BY <1>9, <2>1, <3>1
    <3>3. i \in Int /\ j \in Int  BY <1>8
    <3> QED  BY <1>9, <3>1, <3>2, <3>3
  <2>5. \A u, v \in Workers : serving'[u] = serving'[v] => serving'[u] = 0 \/ u = v
    BY <1>7, <1>11, <2>1
  <2>6. \A i \in Places', v \in Workers : Chain'[i].conn = serving'[v] => serving'[v] = 0
    BY <1>7, <1>9, <1>11, <2>1
  <2> QED  BY <2>2, <2>3, <2>4, <2>5, <2>6 DEF Numbered
<1>14. InOrder'  BY <1>1, <1>11 DEF InOrder, AskedPoints, HostPoints
<1>15. Sourced'  BY <1>1, <1>2, <1>11 DEF Sourced, AskedPoints, HostPoints
<1>16. OwnDescriptors'
  <2>1. SUFFICES ASSUME "severed" \notin failed'
        PROVE  /\ \A handed \in Waiting' : handed.fd # NoFd => open'[handed.fd] = Client(handed.conn)
               /\ \A v \in Workers : connfd'[v] # NoFd => open'[connfd'[v]] = Client(serving'[v])
               /\ \A v \in Workers : hostfd'[v] # NoFd => open'[hostfd'[v]] = Origin(serving'[v])
    BY DEF OwnDescriptors
  <2>2. /\ \A i \in Places : Chain[i].fd # NoFd => open[Chain[i].fd] = Client(Chain[i].conn)
        /\ \A v \in Workers : connfd[v] # NoFd => open[connfd[v]] = Client(serving[v])
        /\ \A v \in Workers : hostfd[v] # NoFd => open[hostfd[v]] = Origin(serving[v])
    BY <1>1, <1>2, <2>1, OwnByPlace
  <2>3. \A handed \in Waiting' : \E i \in Places' : handed = Chain'[i]
    <3>1. Waiting' = {queue'[i] : i \in 1 .. Len(queue')} \cup {accepting[i] : i \in 1 .. Len(accepting)}
      BY <1>2 DEF Waiting
    <3>2. \A i \in 1 .. Len(queue') : i \in Places' /\ Chain'[i] = queue'[i]
      BY <1>3, <1>4, <1>6, <1>8
    <3>3. ASSUME NEW i \in 1 .. Len(accepting)
          PROVE  i + Len(queue') \in Places' /\ Chain'[i + Len(queue')] = accepting[i]
      <4>1. i + Len(queue') \in 1 .. Len(Chain) - 1 /\ ~ (i + Len(queue') <= Len(queue'))
            /\ (i + Len(queue')) - Len(queue') = i
        BY <1>3, <1>4
      <4> QED  BY <1>6, <1>8, <4>1
    <3> QED  BY <3>1, <3>2, <3>3
  <2>4. \A handed \in Waiting' : handed.fd # NoFd => open'[handed.fd] = Client(handed.conn)
    BY <1>2, <1>9, <2>2, <2>3
  <2> QED  BY <1>2, <1>7, <1>11, <2>2, <2>4
<1> QED  BY <1>12, <1>13, <1>14, <1>15, <1>16 DEF IInv

\* accept puts a client that is new behind a number that is free, or nobody.
LEMMA AcceptKeeps == ASSUME IInv, Accept PROVE IInv'
<1>1. Typed /\ Numbered /\ InOrder /\ Sourced /\ OwnDescriptors  BY DEF IInv
<1>2. PICK h : /\ accepting = <<>> /\ accepting' = <<h>> /\ queue' = queue
               /\ conns < MaxConns /\ failed' = failed
               /\ pc' = pc /\ connfd' = connfd /\ serving' = serving /\ source' = source /\ hostfd' = hostfd
               /\ \/ /\ h = [fd |-> NoFd, conn |-> 0] /\ conns' = conns /\ open' = open
                  \/ /\ h = [fd |-> LowestFree, conn |-> conns + 1] /\ LowestFree # NoFd
                     /\ conns' = conns + 1 /\ OpenAs(LowestFree, Client(conns + 1))
  BY DEF Accept, local
<1>3. conns \in Nat /\ conns + 1 \in 1 .. MaxConns  BY <1>1, <1>2, BoundsAssumption DEF Typed
<1>4. /\ h \in Handed /\ (h.conn = 0 <=> h.fd = NoFd) /\ conns' \in 0 .. MaxConns
      /\ conns <= conns' /\ h.conn <= conns' /\ h.conn \in {0, conns + 1}
      /\ h.fd # NoFd => h.fd \in Fds /\ open[h.fd] = Free
  <2>1. CASE h = [fd |-> NoFd, conn |-> 0] /\ conns' = conns
    BY <1>1, <1>3, <2>1, BoundsAssumption DEF Typed, Handed, Numbers
  <2>2. CASE h = [fd |-> LowestFree, conn |-> conns + 1] /\ LowestFree # NoFd /\ conns' = conns + 1
    <3>1. LowestFree \in Fds /\ open[LowestFree] = Free  BY <2>2, LowestIsFree
    <3> QED  BY <1>3, <2>2, <3>1 DEF Handed, Numbers
  <2> QED  BY <1>2, <2>1, <2>2
<1>5. /\ open' \in [Fds -> Connections \cup {Free}]
      /\ \A f \in Fds : open'[f] = IF f = h.fd THEN Client(h.conn) ELSE open[f]
  <2>1. CASE h = [fd |-> NoFd, conn |-> 0] /\ open' = open
    BY <1>1, <2>1, FdsAssumption DEF Typed, NoFd
  <2>2. CASE h = [fd |-> LowestFree, conn |-> conns + 1] /\ OpenAs(LowestFree, Client(conns + 1))
    <3>1. Client(conns + 1) \in Connections  BY <1>3 DEF Connections
    <3> QED  BY <1>1, <2>2, <3>1, OpenAsTyped
  <2> QED  BY <1>2, <2>1, <2>2
<1>6. queue \in Seq(Handed) /\ accepting' \in Seq(Handed)  BY <1>1, <1>2, <1>4 DEF Typed
<1>7. Chain = queue  BY <1>1, <1>2 DEF Chain, Typed
<1>8. /\ Len(Chain') = Len(Chain) + 1 /\ Chain'[Len(Chain) + 1] = h
      /\ \A i \in Places : Chain'[i] = Chain[i]
  BY <1>2, <1>6, <1>7 DEF Chain, Places
<1>9. Places' = 1 .. Len(Chain) + 1 /\ Len(Chain) \in Nat  BY <1>6, <1>7, <1>8 DEF Places
<1>10. \A i \in Places' : (i \in Places /\ Chain'[i] = Chain[i]) \/ (i = Len(Chain) + 1 /\ Chain'[i] = h)
  BY <1>8, <1>9 DEF Places
<1>11. Typed'  BY <1>1, <1>2, <1>4, <1>5, <1>6 DEF Typed
<1>12. Numbered'
  <2>1. /\ \A i \in Places : Chain[i].conn <= conns /\ (Chain[i].conn = 0 <=> Chain[i].fd = NoFd)
        /\ \A v \in Workers : serving[v] <= conns /\ (serving[v] = 0 <=> connfd[v] = NoFd)
        /\ \A i, j \in Places : Chain[i].conn = Chain[j].conn => Chain[i].conn = 0 \/ i = j
        /\ \A u, v \in Workers : serving[u] = serving[v] => serving[u] = 0 \/ u = v
        /\ \A i \in Places, v \in Workers : Chain[i].conn = serving[v] => serving[v] = 0
    BY <1>1 DEF Numbered
  <2>2. /\ \A i \in Places : Chain[i].conn \in Nat /\ Chain[i].conn # conns + 1
        /\ \A v \in Workers : serving[v] \in Nat /\ serving[v] # conns + 1
    BY <1>1, <1>3, <2>1, WaitingIsChain DEF Typed, Handed
  <2>3. \A i \in Places' : Chain'[i].conn <= conns' /\ (Chain'[i].conn = 0 <=> Chain'[i].fd = NoFd)
    <3>1. \A i \in Places : Chain[i].conn <= conns'
      BY <1>3, <1>4, <2>1, <2>2
    <3> QED  BY <1>4, <1>10, <2>1, <3>1
  <2>4. \A v \in Workers : serving'[v] <= conns' /\ (serving'[v] = 0 <=> connfd'[v] = NoFd)
    BY <1>2, <1>3, <1>4, <2>1, <2>2
  <2>5. \A i, j \in Places' : Chain'[i].conn = Chain'[j].conn => Chain'[i].conn = 0 \/ i = j
    BY <1>4, <1>10, <2>1, <2>2
  <2>6. \A u, v \in Workers : serving'[u] = serving'[v] => serving'[u] = 0 \/ u = v
    BY <1>2, <2>1
  <2>7. \A i \in Places', v \in Workers : Chain'[i].conn = serving'[v] => serving'[v] = 0
    BY <1>2, <1>4, <1>10, <2>1, <2>2
  <2> QED  BY <2>3, <2>4, <2>5, <2>6, <2>7 DEF Numbered
<1>13. InOrder' /\ Sourced'  BY <1>1, <1>2 DEF InOrder, Sourced
<1>14. OwnDescriptors'
  <2>1. SUFFICES ASSUME "severed" \notin failed'
        PROVE  /\ \A handed \in Waiting' : handed.fd # NoFd => open'[handed.fd] = Client(handed.conn)
               /\ \A v \in Workers : connfd'[v] # NoFd => open'[connfd'[v]] = Client(serving'[v])
               /\ \A v \in Workers : hostfd'[v] # NoFd => open'[hostfd'[v]] = Origin(serving'[v])
    BY DEF OwnDescriptors
  <2>2. /\ \A handed \in Waiting : handed.fd # NoFd => open[handed.fd] = Client(handed.conn)
        /\ \A v \in Workers : connfd[v] # NoFd => open[connfd[v]] = Client(serving[v])
        /\ \A v \in Workers : hostfd[v] # NoFd => open[hostfd[v]] = Origin(serving[v])
    BY <1>1, <1>2, <2>1 DEF OwnDescriptors
  <2>3. /\ \A handed \in Waiting : handed.fd \in Numbers /\ handed.conn \in 0 .. MaxConns
                                   /\ (handed.conn = 0 <=> handed.fd = NoFd)
        /\ \A v \in Workers : /\ connfd[v] \in Numbers /\ hostfd[v] \in Numbers
                              /\ serving[v] \in 0 .. MaxConns /\ (serving[v] = 0 <=> connfd[v] = NoFd)
    BY <1>1, WaitingIsChain DEF Typed, Numbered, Handed
  <2>4. /\ \A c \in 0 .. MaxConns : Origin(c) # Free
        /\ \A c \in 1 .. MaxConns : Client(c) # Free
    BY FreeAssumption DEF Connections
  <2>5. \A handed \in Waiting' : handed \in Waiting \/ handed = h
    <3>1. /\ Waiting' = {queue[i] : i \in 1 .. Len(queue)} \cup {(<<h>>)[i] : i \in 1 .. Len(<<h>>)}
      BY <1>2 DEF Waiting
    <3>2. \A i \in 1 .. Len(<<h>>) : (<<h>>)[i] = h  OBVIOUS
    <3> QED  BY <3>1, <3>2 DEF Waiting
  <2>a. \A f \in Fds : f # NoFd /\ open[f] # Free => open'[f] = open[f]  BY <1>4, <1>5
  <2>6. ASSUME NEW handed \in Waiting', handed.fd # NoFd
        PROVE  open'[handed.fd] = Client(handed.conn)
    <3>1. CASE handed = h  BY <1>4, <1>5, <2>6, <3>1
    <3>2. CASE handed \in Waiting
      <4>1. handed.fd \in Fds /\ handed.conn \in 1 .. MaxConns  BY <2>3, <2>6, <3>2 DEF Numbers
      <4>2. open[handed.fd] = Client(handed.conn) /\ open[handed.fd] # Free
        BY <2>2, <2>4, <2>6, <3>2, <4>1
      <4> QED  BY <2>6, <2>a, <4>1, <4>2
    <3> QED  BY <2>5, <3>1, <3>2
  <2>7. ASSUME NEW v \in Workers, connfd[v] # NoFd
        PROVE  open'[connfd[v]] = Client(serving[v])
    <3>1. connfd[v] \in Fds /\ serving[v] \in 1 .. MaxConns  BY <2>3, <2>7 DEF Numbers
    <3>2. open[connfd[v]] = Client(serving[v]) /\ open[connfd[v]] # Free  BY <2>2, <2>4, <2>7, <3>1
    <3> QED  BY <2>7, <2>a, <3>1, <3>2
  <2>8. ASSUME NEW v \in Workers, hostfd[v] # NoFd
        PROVE  open'[hostfd[v]] = Origin(serving[v])
    <3>1. hostfd[v] \in Fds  BY <2>3, <2>8 DEF Numbers
    <3>2. open[hostfd[v]] = Origin(serving[v]) /\ open[hostfd[v]] # Free  BY <2>2, <2>3, <2>4, <2>8
    <3> QED  BY <2>8, <2>a, <3>1, <3>2
  <2> QED  BY <1>2, <2>6, <2>7, <2>8
<1> QED  BY <1>11, <1>12, <1>13, <1>14 DEF IInv

---------------------------------------------------------------------------
\* No client has connected and nobody holds anything.
LEMMA InitIInv == Init => IInv
<1>1. SUFFICES ASSUME Init PROVE IInv
  OBVIOUS
<1>2. NoFd \in Numbers /\ 0 \in 0 .. MaxConns /\ "remove" \in Points
  BY BoundsAssumption DEF Numbers, Points
<1>3. Typed  BY <1>1, <1>2 DEF Init, Typed
<1>4. Chain = <<>> /\ Places = {} /\ Waiting = {}  BY <1>1 DEF Init, Chain, Places, Waiting
<1>5. Numbered  BY <1>1, <1>4 DEF Init, Numbered
<1>6. InOrder /\ Sourced
  BY <1>1 DEF Init, InOrder, Sourced, AskedPoints, HostPoints
<1>7. OwnDescriptors  BY <1>1, <1>4 DEF Init, OwnDescriptors
<1> QED  BY <1>3, <1>5, <1>6, <1>7 DEF IInv

\* A step that changes nothing keeps the invariant.
LEMMA IdleKeeps == ASSUME IInv, UNCHANGED vars PROVE IInv'
<1>1. /\ Chain' = Chain /\ Places' = Places /\ Waiting' = Waiting
      /\ open' = open /\ queue' = queue /\ accepting' = accepting /\ conns' = conns /\ pc' = pc
      /\ connfd' = connfd /\ serving' = serving /\ source' = source /\ hostfd' = hostfd /\ failed' = failed
  BY DEF vars, daemon, local, Chain, Places, Waiting
<1>2. Typed' /\ Numbered'  BY <1>1 DEF IInv, Typed, Numbered
<1>3. InOrder' /\ Sourced' /\ OwnDescriptors'  BY <1>1 DEF IInv, InOrder, Sourced, OwnDescriptors
<1> QED  BY <1>2, <1>3 DEF IInv

\* When the process dies nobody holds anything.
LEMMA OverflowKeeps == ASSUME IInv, NEW w \in Workers, HeadersOverflow(w) PROVE IInv'
<1>1. /\ open' = [f \in Fds |-> Free] /\ queue' = <<>> /\ accepting' = <<>> /\ conns' = conns
      /\ pc' = [v \in Workers |-> "dead"] /\ connfd' = [v \in Workers |-> NoFd]
      /\ hostfd' = [v \in Workers |-> NoFd] /\ serving' = [v \in Workers |-> 0]
      /\ source' = [v \in Workers |-> Nobody]
  BY DEF HeadersOverflow
<1>2. /\ NoFd \in Numbers /\ 0 \in 0 .. MaxConns /\ "dead" \in Points
      /\ conns \in 0 .. MaxConns /\ 0 <= conns
  BY BoundsAssumption DEF Numbers, Points, IInv, Typed
<1>3. Typed'  BY <1>1, <1>2 DEF Typed
<1>4. Chain' = <<>> /\ Places' = {} /\ Waiting' = {}  BY <1>1 DEF Chain, Places, Waiting
<1>5. Numbered'  BY <1>1, <1>2, <1>4 DEF Numbered
<1>6. InOrder' /\ Sourced'
  BY <1>1 DEF InOrder, Sourced, AskedPoints, HostPoints
<1>7. OwnDescriptors'  BY <1>1, <1>4 DEF OwnDescriptors
<1> QED  BY <1>3, <1>5, <1>6, <1>7 DEF IInv

\* Every step of the proxy keeps the invariant.
LEMMA StepIInv == IInv /\ [Next]_vars => IInv'
<1> SUFFICES ASSUME IInv, [Next]_vars PROVE IInv'  OBVIOUS
<1>1. CASE Accept  BY <1>1, AcceptKeeps
<1>2. CASE SbufInsert  BY <1>2, SbufInsertKeeps
<1>3. ASSUME NEW w \in Workers, SbufRemove(w) PROVE IInv'  BY <1>3, SbufRemoveKeeps
<1>4. ASSUME NEW w \in Workers, DoProxy(w) PROVE IInv'
  BY <1>4, OnwardSteps, RequestRead, SocketKeeps, ConnectKeeps, CloseHostKeeps, CloseConnKeeps, OverflowKeeps
     DEF DoProxy
<1>5. CASE UNCHANGED vars  BY <1>5, IdleKeeps
<1> QED  BY <1>1, <1>2, <1>3, <1>4, <1>5 DEF Next, Quiet

\* The invariant holds in every reachable state.
THEOREM Inductive == Spec => []IInv
BY InitIInv, StepIInv, PTL DEF Spec

\* Until an error at which the wrappers close a descriptor, whoever holds a
\* number holds the connection it was given it for.
THEOREM DescriptorsOwned == Spec => []OwnDescriptors
<1>1. IInv => OwnDescriptors  BY DEF IInv
<1> QED  BY Inductive, <1>1, PTL

\* Until then no worker sends an answer to a client that did not ask for it.
THEOREM AnswersNotCrossed == Spec => []ResponsesAreNotCrossed
<1>1. IInv => ResponsesAreNotCrossed
  <2>1. SUFFICES ASSUME IInv, "severed" \notin failed, NEW w \in Workers,
                        pc[w] \in {"hit", "relayWrite"}, Live(connfd[w])
                 PROVE  open[connfd[w]] = source[w]
    BY DEF ResponsesAreNotCrossed, ResponsesReachTheirClient
  <2>2. source[w] = Client(serving[w])  BY <2>1 DEF IInv, Sourced, AskedPoints, HostPoints
  <2>3. connfd[w] # NoFd  BY <2>1, FdsAssumption DEF Live, NoFd
  <2> QED  BY <2>1, <2>2, <2>3 DEF IInv, OwnDescriptors
<1> QED  BY Inductive, <1>1, PTL

---------------------------------------------------------------------------
(* What is cached *)

\* Who is about to store has met the end of the answer or an error, and only
\* after an error that severs is a connection read that is another's.
Met(w) == /\ pc[w] = "store" => answer[w] # "part"
          /\ answer[w] = "taken" => "severed" \in failed
Answered == (\A w \in Workers : Met(w)) /\ CachedWhole

WInv == IInv /\ answer \in [Workers -> Answers] /\ Answered

\* A step of one worker keeps that if it does where it goes.
LEMMA AnsweredMoves ==
    ASSUME WInv, NEW w \in Workers, NEW from, NEW to, Goto(w, from, to), failed \subseteq failed',
           answer' \in [Workers -> Answers], \A v \in Workers : v # w => answer'[v] = answer[v],
           to = "store" => answer'[w] # "part", answer'[w] = "taken" => "severed" \in failed',
           cached' = cached
    PROVE  answer' \in [Workers -> Answers] /\ Answered'
<1>1. pc'[w] = to /\ \A v \in Workers : v # w => pc'[v] = pc[v]
  BY DEF Goto, WInv, IInv, Typed
<1>2. CachedWhole'  BY DEF WInv, Answered, CachedWhole
<1>3. ASSUME NEW v \in Workers
      PROVE  Met(v)'
  <2>1. CASE v = w  BY <1>1, <2>1 DEF Met
  <2>2. CASE v # w  BY <1>1, <2>2 DEF WInv, Answered, Met
  <2> QED  BY <2>1, <2>2
<1> QED  BY <1>2, <1>3 DEF Answered

\* Errors are remembered.
LEMMA FailuresKept ==
    \A fd, error : Fails(fd, error) \/ Cut(fd, error) \/ Works(fd) => failed \subseteq failed'
BY DEF Fails, Cut, Works, Occurs

\* What a call on the connection to the origin server tells a worker: no
\* longer nothing if it is the end or an error, and another's answer only when
\* the number has changed hands, after an error that severs.
LEMMA LearnsAnswer ==
    ASSUME WInv, NEW w \in Workers, NEW what \in {"part", "whole", "error"}, Learns(w, what)
    PROVE  /\ answer' \in [Workers -> Answers] /\ \A v \in Workers : v # w => answer'[v] = answer[v]
           /\ what # "part" => answer'[w] # "part"
           /\ answer'[w] = "taken" => "severed" \in failed
<1>1. /\ answer \in [Workers -> Answers] /\ what \in Answers /\ "taken" \in Answers
      /\ answer[w] = "taken" => "severed" \in failed
  BY DEF WInv, Answered, Met, Answers
<1>2. ~ Ours(w) => "severed" \in failed
  BY DEF Ours, WInv, IInv, OwnDescriptors
<1> DEFINE new == IF ~Ours(w) THEN "taken" ELSE IF answer[w] = "part" THEN what ELSE answer[w]
<1>3. new \in Answers /\ answer' = [answer EXCEPT ![w] = new]  BY <1>1 DEF Learns
<1>4. (what # "part" => new # "part") /\ (new = "taken" => "severed" \in failed)  BY <1>1, <1>2
<1> HIDE DEF new
<1>5. answer'[w] = new  BY <1>1, <1>3
<1> QED  BY <1>1, <1>3, <1>4, <1>5

\* Where the connection to the origin server is not used nothing is learnt.
LEMMA ClientStepsAnswer ==
    ASSUME WInv, NEW w \in Workers,
           \/ SbufRemove(w) \/ RejectRequest(w) \/ ErrorReply(w) \/ ReadHeaders(w) \/ HeadersEnd(w)
           \/ ReadFails(w) \/ ReadCacheHit(w) \/ ReplyFromCache(w) \/ ReadCacheMiss(w)
           \/ RelayWrite(w) \/ CloseHost(w) \/ \E t \in Tags : ReadRequest(w, t)
    PROVE  answer' \in [Workers -> Answers] /\ Answered'
<1>1. PICK from, to : Goto(w, from, to) /\ to # "store"
  BY DEF SbufRemove, RejectRequest, ErrorReply, ReadHeaders, HeadersEnd, ReadFails, ReadCacheHit,
         ReplyFromCache, ReadCacheMiss, RelayWrite, CloseHost, ReadRequest
<1>2. failed \subseteq failed' /\ cached' = cached /\ answer' = answer
  BY FailuresKept
     DEF SbufRemove, RejectRequest, ErrorReply, ReadHeaders, HeadersEnd, ReadFails, ReadCacheHit,
         ReplyFromCache, ReadCacheMiss, RelayWrite, CloseHost, ReadRequest, Occurs, local
<1>3. answer' \in [Workers -> Answers] /\ (answer'[w] = "taken" => "severed" \in failed')
  BY <1>2 DEF WInv, Answered, Met
<1> QED  BY <1>1, <1>2, <1>3, AnsweredMoves

\* The calls on that connection.
LEMMA HostStepsAnswer ==
    ASSUME WInv, NEW w \in Workers,
           Socket(w) \/ Connect(w) \/ SendRequest(w) \/ RelayRead(w) \/ RelayEnd(w) \/ RelayFails(w)
    PROVE  answer' \in [Workers -> Answers] /\ Answered'
<1>1. PICK what \in {"part", "whole", "error"}, from \in Points, to \in Points :
          Goto(w, from, to) /\ Learns(w, what) /\ (to = "store" => what # "part")
  <2> USE DEF Points
  <2>1. CASE Socket(w)
    <3>1. CASE LowestFree = NoFd
      <4>1. Goto(w, "socket", "send") /\ Learns(w, "error")  BY <2>1, <3>1 DEF Socket
      <4> QED  BY <4>1
    <3>2. CASE LowestFree # NoFd
      <4>1. Goto(w, "socket", "connect") /\ Learns(w, "part")  BY <2>1, <3>2 DEF Socket
      <4> QED  BY <4>1
    <3> QED  BY <3>1, <3>2
  <2>2. CASE Connect(w)
    <3>1. Goto(w, "connect", "send") /\ \E what \in {"part", "error"} : Learns(w, what)
      BY <2>2 DEF Connect
    <3> QED  BY <3>1
  <2>3. CASE SendRequest(w)
    <3>1. /\ \E to \in {"relay", "send"} : Goto(w, "send", to)
          /\ \E what \in {"part", "error"} : Learns(w, what)
      BY <2>3 DEF SendRequest
    <3> QED  BY <3>1
  <2>4. CASE RelayRead(w)
    <3>1. Goto(w, "relay", "relayWrite") /\ Learns(w, "part")  BY <2>4 DEF RelayRead
    <3> QED  BY <3>1
  <2>5. CASE RelayEnd(w) \/ RelayFails(w)
    <3>1. Goto(w, "relay", "store") /\ \E what \in {"whole", "error"} : Learns(w, what)
      BY <2>5 DEF RelayEnd, RelayFails
    <3> QED  BY <3>1
  <2> QED  BY <2>1, <2>2, <2>3, <2>4, <2>5
<1>2. failed \subseteq failed' /\ cached' = cached
  BY FailuresKept DEF Socket, Connect, SendRequest, RelayRead, RelayEnd, RelayFails
<1>3. /\ answer' \in [Workers -> Answers] /\ \A v \in Workers : v # w => answer'[v] = answer[v]
      /\ to = "store" => answer'[w] # "part"
      /\ answer'[w] = "taken" => "severed" \in failed'
  BY <1>1, <1>2, LearnsAnswer
<1> QED  BY <1>1, <1>2, <1>3, AnsweredMoves

\* What is stored is not part of an answer still coming.
LEMMA WriteCacheAnswers ==
    ASSUME WInv, NEW w \in Workers, WriteCache(w) PROVE answer' \in [Workers -> Answers] /\ Answered'
<1>1. /\ pc[w] = "store" /\ pc' = [pc EXCEPT ![w] = "closeHost"] /\ answer' = answer /\ failed' = failed
      /\ \A object \in cached' : object \in cached \/ object = [tag |-> tag[w], answer |-> answer[w]]
  BY DEF WriteCache, local, Goto
<1>2. answer[w] \in {"whole", "error"} \/ (answer[w] = "taken" /\ "severed" \in failed)
  <2>1. answer[w] \in Answers /\ Met(w)  BY DEF WInv, Answered
  <2> QED  BY <1>1, <2>1 DEF Met, Answers
<1>3. CachedWhole'
  <2>1. SUFFICES ASSUME NEW object \in cached'
                 PROVE  \/ object.answer \in {"whole", "error"}
                        \/ object.answer = "taken" /\ "severed" \in failed'
    BY DEF CachedWhole
  <2>2. CASE object \in cached  BY <1>1, <2>2 DEF WInv, Answered, Met, CachedWhole
  <2>3. CASE object = [tag |-> tag[w], answer |-> answer[w]]
    <3>1. object.answer = answer[w]  BY <2>3
    <3> QED  BY <1>1, <1>2, <3>1
  <2> QED  BY <1>1, <2>2, <2>3
<1>4. \A v \in Workers : pc'[v] = "store" => pc[v] = "store"
  BY <1>1 DEF WInv, IInv, Typed
<1> QED  BY <1>1, <1>3, <1>4 DEF WInv, Answered, Met

\* The end of a request, and of the process, forgets the answer.
LEMMA EndsAnswer ==
    ASSUME WInv, NEW w \in Workers, CloseConn(w) \/ HeadersOverflow(w)
    PROVE  answer' \in [Workers -> Answers] /\ Answered'
<1>1. CASE CloseConn(w)
  <2>1. /\ Goto(w, "close", "remove") /\ cached' = cached /\ failed' = failed
        /\ answer' = [answer EXCEPT ![w] = "part"]
    BY <1>1 DEF CloseConn
  <2>2. /\ answer' \in [Workers -> Answers] /\ answer'[w] = "part"
        /\ \A v \in Workers : v # w => answer'[v] = answer[v]
    BY <2>1 DEF WInv, Answers
  <2> QED  BY <2>1, <2>2, AnsweredMoves
<1>2. CASE HeadersOverflow(w)
  BY <1>2 DEF HeadersOverflow, Answered, Met, CachedWhole, Answers
<1> QED  BY <1>1, <1>2

\* The invariant is inductive.
LEMMA StepWInv == WInv /\ [Next]_vars => WInv'
<1> SUFFICES ASSUME WInv, [Next]_vars PROVE WInv'  OBVIOUS
<1>1. IInv'  BY StepIInv DEF WInv
<1>2. CASE Accept \/ SbufInsert \/ Quiet \/ UNCHANGED vars
  <2>1. UNCHANGED <<cached, pc, answer, failed>>
    BY <1>2 DEF Accept, SbufInsert, Quiet, vars, local
  <2>2. answer' \in [Workers -> Answers] /\ Answered'  BY <2>1 DEF WInv, Answered, Met, CachedWhole
  <2> QED  BY <1>1, <2>2 DEF WInv
<1>3. ASSUME NEW w \in Workers, SbufRemove(w) \/ DoProxy(w) PROVE WInv'
  <2>1. answer' \in [Workers -> Answers] /\ Answered'
    BY <1>3, ClientStepsAnswer, HostStepsAnswer, WriteCacheAnswers, EndsAnswer DEF DoProxy
  <2> QED  BY <1>1, <2>1 DEF WInv
<1> QED  BY <1>2, <1>3 DEF Next

\* Whatever fails, an answer is cached only when it has been read to its end,
\* or the connection it came by has failed, or, after an error at which a
\* wrapper closed a descriptor, somebody has closed it in place of his own.
\* No client's failure, and no failure of another's server, cuts it short.
THEOREM CutShortByItsServer == Spec => []CachedWhole
<1>1. Init => WInv
  <2> SUFFICES ASSUME Init PROVE WInv  OBVIOUS
  <2>1. IInv  BY InitIInv
  <2> QED  BY <2>1 DEF Init, WInv, Answered, Met, Answers, CachedWhole
<1>2. WInv => CachedWhole  BY DEF WInv, Answered
<1> QED  BY <1>1, <1>2, StepWInv, PTL DEF Spec

---------------------------------------------------------------------------
(***************************************************************************)
(* DescriptorsAccounted, without excepting any failure.                    *)
(*                                                                         *)
(* After an error at which a wrapper closes a descriptor its number may be *)
(* in two hands, so who holds it says nothing about what is behind it.     *)
(* What stays true is that a client's connection is held as a client's, by *)
(* the queue or a worker's connfd, and an origin server's as one, by a     *)
(* hostfd (Held); and that a worker forgets a number only when it has      *)
(* closed it, or has never had one (Placed).                               *)
(***************************************************************************)
AskedFor == HostPoints \cup {"headers", "stuck", "lookup", "hit", "socket"}

\* The number that is held for a client's connection.
HeldForClient(f) == (\E handed \in Waiting : handed.fd = f) \/ \E w \in Workers : connfd[w] = f

Clients == {Client(c) : c \in 1 .. MaxConns}
Origins == {Origin(c) : c \in 0 .. MaxConns}

Held == \A f \in Fds :
          /\ open[f] \in Clients => HeldForClient(f)
          /\ open[f] \in Origins =>
                (\E w \in Workers : hostfd[w] = f) \/ "hostUnknown" \in failed

\* What a worker holds, and how much it has left to write, at each point.
PlacedWith(point, conn, host, t, n) ==
    /\ point = "remove" => conn = NoFd
    /\ point \notin HostPoints => host = NoFd
    /\ point \in AskedFor => t \in Tags
    /\ point = "errorReply" => n \in 1 .. 4
    /\ point \in {"connect", "send"} => n \in 1 .. 2
    /\ point = "connect" => n = 2
    /\ point \in {"relay", "relayWrite", "store"} => n \in 0 .. MaxLines

Placed == \A w \in Workers : PlacedWith(pc[w], connfd[w], hostfd[w], tag[w], lines[w])

LInv == TypeOK /\ Held /\ Placed

---------------------------------------------------------------------------
(* Steps of a worker *)

\* Worker w goes on to `to' with these values; nobody else's locals change.
Carries(w, to, conn, host, t, n) ==
    /\ to \in Points /\ conn \in Numbers /\ host \in Numbers
    /\ t \in Tags \cup {NoTag} /\ n \in 0 .. 4 + MaxLines
    /\ pc' = [pc EXCEPT ![w] = to]
    /\ connfd' = [connfd EXCEPT ![w] = conn] /\ hostfd' = [hostfd EXCEPT ![w] = host]
    /\ tag' = [tag EXCEPT ![w] = t] /\ lines' = [lines EXCEPT ![w] = n]

\* What else a step changes stays within its type.
StepTyped ==
    /\ open' \in [Fds -> Connections \cup {Free}]
    /\ cached' \subseteq [tag : Tags, answer : Answers]
    /\ serving' \in [Workers -> 0 .. MaxConns] /\ source' \in [Workers -> Connections \cup {Nobody}]
    /\ answer' \in [Workers -> Answers]
    /\ failed' \subseteq {"severed", "host", "hostUnknown", "clientEof"}

\* Such a step keeps types and places, if it brings w where its values fit.
LEMMA CarriesKeeps ==
    ASSUME TypeOK, Placed, NEW w \in Workers,
           NEW to, NEW conn, NEW host, NEW t, NEW n, Carries(w, to, conn, host, t, n), StepTyped,
           PlacedWith(to, conn, host, t, n)
    PROVE  /\ Placed'
           /\ UNCHANGED daemon => TypeOK'
           /\ connfd'[w] = conn /\ hostfd'[w] = host
           /\ \A v \in Workers : v # w => connfd'[v] = connfd[v] /\ hostfd'[v] = hostfd[v]
<1>1. /\ pc' \in [Workers -> Points] /\ connfd' \in [Workers -> Numbers] /\ hostfd' \in [Workers -> Numbers]
      /\ tag' \in [Workers -> Tags \cup {NoTag}] /\ lines' \in [Workers -> 0 .. 4 + MaxLines]
  BY DEF TypeOK, Carries
<1>2. /\ pc'[w] = to /\ connfd'[w] = conn /\ hostfd'[w] = host /\ tag'[w] = t /\ lines'[w] = n
      /\ \A v \in Workers : v # w => /\ pc'[v] = pc[v] /\ connfd'[v] = connfd[v] /\ hostfd'[v] = hostfd[v]
                                     /\ tag'[v] = tag[v] /\ lines'[v] = lines[v]
  BY DEF TypeOK, Carries
<1>3. Placed'
  <2>1. SUFFICES ASSUME NEW v \in Workers
                 PROVE PlacedWith(pc'[v], connfd'[v], hostfd'[v], tag'[v], lines'[v])
    BY DEF Placed, PlacedWith
  <2>2. CASE v = w  BY <1>2, <2>2
  <2>3. CASE v # w  BY <1>2, <2>3 DEF Placed
  <2> QED  BY <2>2, <2>3
<1>4. ASSUME UNCHANGED daemon PROVE TypeOK'
  BY <1>1, <1>4 DEF TypeOK, StepTyped, daemon
<1> QED  BY <1>2, <1>3, <1>4

\* Descriptors that are closed need no holder any more.
LEMMA ClosingKeepsHeld ==
    ASSUME Held, \A f \in Fds : open'[f] = open[f] \/ open'[f] = Free,
           Waiting' = Waiting, connfd' = connfd, failed \subseteq failed',
           \A f \in Fds, v \in Workers :
               hostfd[v] = f /\ open'[f] \in Origins => hostfd'[v] = f \/ "hostUnknown" \in failed'
    PROVE  Held'
<1>1. Free \notin Clients /\ Free \notin Origins
  BY FreeAssumption DEF Connections, Clients, Origins
<1>2. SUFFICES ASSUME NEW f \in Fds
               PROVE /\ open'[f] \in Clients => HeldForClient(f)'
                     /\ open'[f] \in Origins => (\E w \in Workers : hostfd'[w] = f) \/ "hostUnknown" \in failed'
  BY DEF Held, HeldForClient
<1>3. HeldForClient(f)' <=> HeldForClient(f)  BY DEF HeldForClient
<1>4. open'[f] \in Clients => HeldForClient(f)'  BY <1>1, <1>3 DEF Held
<1>5. ASSUME open'[f] \in Origins
      PROVE  (\E w \in Workers : hostfd'[w] = f) \/ "hostUnknown" \in failed'
  <2>1. open[f] \in Origins  BY <1>1, <1>5
  <2>2. (\E w \in Workers : hostfd[w] = f) \/ "hostUnknown" \in failed  BY <2>1 DEF Held
  <2> QED  BY <1>5, <2>2
<1> QED  BY <1>4, <1>5

\* How the calls that read and write leave descriptors: open or closed.
TouchedAnyhow(fd) == \/ Works(fd)
               \/ \E error \in AllFailures : Cut(fd, error) \/ Fails(fd, error)
                                             \/ (Occurs(error) /\ UNCHANGED open)

\* What an error is remembered as.
LEMMA MarkTyped ==
    ASSUME NEW error \in AllFailures
    PROVE  Mark(error) \subseteq {"severed", "host", "hostUnknown", "clientEof"}
BY Zenon DEF Mark

\* They open nothing.
LEMMA TouchedCloses ==
    ASSUME TypeOK, NEW fd, UNCHANGED <<open, failed>> \/ TouchedAnyhow(fd)
    PROVE  /\ open' \in [Fds -> Connections \cup {Free}]
           /\ \A f \in Fds : open'[f] = open[f] \/ open'[f] = Free
           /\ failed \subseteq failed' /\ failed' \subseteq {"severed", "host", "hostUnknown", "clientEof"}
<1>1. /\ open \in [Fds -> Connections \cup {Free}]
      /\ failed \subseteq {"severed", "host", "hostUnknown", "clientEof"}
  BY DEF TypeOK
<1>2. CASE UNCHANGED <<open, failed>> \/ Works(fd)  BY <1>1, <1>2 DEF Works
<1>3. ASSUME NEW error \in AllFailures, Cut(fd, error) \/ Fails(fd, error) \/ (Occurs(error) /\ UNCHANGED open)
      PROVE  /\ open' = open \/ open' = [f \in Fds |-> IF f = fd THEN Free ELSE open[f]]
             /\ failed' = failed \/ failed' = failed \cup Mark(error)
  BY <1>3 DEF Cut, Fails, Occurs, Shut, OpenAs
<1>4. ASSUME NEW error \in AllFailures, Cut(fd, error) \/ Fails(fd, error) \/ (Occurs(error) /\ UNCHANGED open)
      PROVE  /\ open' \in [Fds -> Connections \cup {Free}]
             /\ \A f \in Fds : open'[f] = open[f] \/ open'[f] = Free
             /\ failed \subseteq failed' /\ failed' \subseteq {"severed", "host", "hostUnknown", "clientEof"}
  BY <1>1, <1>3, <1>4, MarkTyped
<1> QED  BY <1>2, <1>4 DEF TouchedAnyhow

\* A step of a worker that keeps its descriptors keeps the invariant.
LEMMA OnwardAccounts ==
    ASSUME LInv, NEW w \in Workers, NEW to, NEW t, NEW n,
           Carries(w, to, connfd[w], hostfd[w], t, n), PlacedWith(to, connfd[w], hostfd[w], t, n),
           UNCHANGED daemon,
           cached' \subseteq [tag : Tags, answer : Answers],
           serving' \in [Workers -> 0 .. MaxConns], source' \in [Workers -> Connections \cup {Nobody}],
           answer' \in [Workers -> Answers],
           NEW fd, UNCHANGED <<open, failed>> \/ TouchedAnyhow(fd)
    PROVE  LInv'
<1>1. TypeOK /\ Held /\ Placed  BY DEF LInv
<1>2. /\ open' \in [Fds -> Connections \cup {Free}]
      /\ \A f \in Fds : open'[f] = open[f] \/ open'[f] = Free
      /\ failed \subseteq failed' /\ failed' \subseteq {"severed", "host", "hostUnknown", "clientEof"}
  BY <1>1, TouchedCloses
<1>3. TypeOK' /\ Placed'
  <2>1. StepTyped  BY <1>2 DEF StepTyped
  <2> QED  BY <1>1, <2>1, CarriesKeeps
<1>4. connfd' = connfd /\ hostfd' = hostfd
  BY <1>1 DEF TypeOK, Carries
<1>5. Waiting' = Waiting  BY DEF Waiting, daemon
<1>6. Held'  BY <1>1, <1>2, <1>4, <1>5, ClosingKeepsHeld
<1> QED  BY <1>3, <1>6 DEF LInv

\* The errors the code distinguishes.
LEMMA ErrorsAreKnown ==
    /\ \A fd, error : error \in AllFailures /\ (Cut(fd, error) \/ Fails(fd, error)) => TouchedAnyhow(fd)
    /\ \A fd : Works(fd) => TouchedAnyhow(fd)
    /\ {"clientEof", "clientReset", "clientBroken", "clientError", "hostUnknown", "hostRefused",
        "hostReset", "hostBroken", "hostError"} = AllFailures
BY DEF TouchedAnyhow, AllFailures

\* What a worker knows of its answer stays within its type.
LEMMA LearnsTyped ==
    ASSUME TypeOK, NEW w \in Workers, NEW what \in {"part", "whole", "error"}, Learns(w, what)
    PROVE  answer' \in [Workers -> Answers]
BY DEF TypeOK, Learns, Answers

\* The steps that keep a worker's descriptors.
LEMMA OnwardStepsAccount ==
    ASSUME LInv, NEW w \in Workers,
           \/ \E t \in Tags : ReadRequest(w, t)
           \/ RejectRequest(w) \/ ErrorReply(w)
           \/ ReadHeaders(w) \/ HeadersEnd(w) \/ ReadFails(w)
           \/ ReadCacheHit(w) \/ ReplyFromCache(w) \/ ReadCacheMiss(w)
           \/ SendRequest(w) \/ RelayRead(w) \/ RelayWrite(w) \/ RelayEnd(w) \/ RelayFails(w)
           \/ WriteCache(w)
    PROVE  LInv'
<1> USE DEF AskedFor, HostPoints
<1>1. TypeOK /\ PlacedWith(pc[w], connfd[w], hostfd[w], tag[w], lines[w])  BY DEF LInv, Placed
<1>2. /\ connfd[w] \in Numbers /\ hostfd[w] \in Numbers /\ tag[w] \in Tags \cup {NoTag}
      /\ lines[w] \in 0 .. 4 + MaxLines /\ pc[w] \in Points /\ MaxLines \in Nat \ {0}
      /\ pc \in [Workers -> Points] /\ connfd = [connfd EXCEPT ![w] = connfd[w]]
      /\ hostfd = [hostfd EXCEPT ![w] = hostfd[w]] /\ tag = [tag EXCEPT ![w] = tag[w]]
      /\ lines = [lines EXCEPT ![w] = lines[w]]
      /\ serving \in [Workers -> 0 .. MaxConns] /\ source \in [Workers -> Connections \cup {Nobody}]
      /\ answer \in [Workers -> Answers] /\ cached \subseteq [tag : Tags, answer : Answers]
      /\ open \in [Fds -> Connections \cup {Free}]
  BY <1>1, BoundsAssumption DEF TypeOK
<1>3. ASSUME NEW to \in Points, NEW from, Goto(w, from, to), UNCHANGED <<daemon, cached, local>>,
             PlacedWith(to, connfd[w], hostfd[w], tag[w], lines[w]),
             NEW fd, UNCHANGED <<open, failed>> \/ TouchedAnyhow(fd)
      PROVE  LInv'
  <2>1. Carries(w, to, connfd[w], hostfd[w], tag[w], lines[w])
    BY <1>2, <1>3 DEF Carries, Goto, local
  <2>2. UNCHANGED <<daemon, cached, serving, source, answer>>  BY <1>3 DEF local
  <2> QED  BY <1>2, <1>3, <2>1, <2>2, OnwardAccounts
<1>4. ASSUME NEW to \in Points, NEW n \in 0 .. 4 + MaxLines, NEW from, Goto(w, from, to),
             lines' = [lines EXCEPT ![w] = n],
             UNCHANGED <<daemon, cached, connfd, serving, source, hostfd, tag>>,
             answer' \in [Workers -> Answers],
             PlacedWith(to, connfd[w], hostfd[w], tag[w], n),
             NEW fd, UNCHANGED <<open, failed>> \/ TouchedAnyhow(fd)
      PROVE  LInv'
  <2>1. Carries(w, to, connfd[w], hostfd[w], tag[w], n)
    BY <1>2, <1>4 DEF Carries, Goto
  <2> QED  BY <1>2, <1>4, <2>1, OnwardAccounts
<1>5. ASSUME Works(connfd[w]) PROVE open[connfd[w]] \in Connections /\ TouchedAnyhow(connfd[w])
  BY <1>2, <1>5, ErrorsAreKnown DEF Works, Live
<1>6. ASSUME NEW t \in Tags, ReadRequest(w, t) PROVE LInv'
  <2>1. Goto(w, "request", "headers") /\ "headers" \in Points  BY <1>6 DEF ReadRequest, Points
  <2>2. TouchedAnyhow(connfd[w])  BY <1>5, <1>6 DEF ReadRequest
  <2>3. source' \in [Workers -> Connections \cup {Nobody}]  BY <1>2, <1>5, <1>6 DEF ReadRequest
  <2>4. PlacedWith("headers", connfd[w], hostfd[w], t, lines[w])
    BY <1>1, <2>1 DEF PlacedWith, Goto
  <2>5. Carries(w, "headers", connfd[w], hostfd[w], t, lines[w])
    BY <1>2, <1>6, <2>1 DEF Carries, Goto, ReadRequest
  <2>6. UNCHANGED <<daemon, cached, serving, answer>>  BY <1>6 DEF ReadRequest
  <2> QED  BY <1>2, <2>2, <2>3, <2>4, <2>5, <2>6, OnwardAccounts
<1>7. CASE RejectRequest(w)
  <2>1. Goto(w, "request", "errorReply") /\ "errorReply" \in Points  BY <1>7 DEF RejectRequest, Points
  <2>2. TouchedAnyhow(connfd[w])  BY <1>5, <1>7 DEF RejectRequest
  <2>3. source' \in [Workers -> Connections \cup {Nobody}]  BY <1>2, <1>5, <1>7 DEF RejectRequest
  <2>4. PlacedWith("errorReply", connfd[w], hostfd[w], tag[w], 4)
    BY <1>1, <2>1 DEF PlacedWith, Goto
  <2>5. Carries(w, "errorReply", connfd[w], hostfd[w], tag[w], 4)
    BY <1>2, <1>7, <2>1 DEF Carries, Goto, RejectRequest
  <2>6. UNCHANGED <<daemon, cached, serving, answer>>  BY <1>7 DEF RejectRequest
  <2> QED  BY <1>2, <2>2, <2>3, <2>4, <2>5, <2>6, OnwardAccounts
<1>8. CASE ErrorReply(w)
  <2> DEFINE to == IF lines[w] = 1 THEN "close" ELSE "errorReply"
  <2>1. Goto(w, "errorReply", to) /\ to \in Points  BY <1>8 DEF ErrorReply, Points
  <2>2. lines[w] \in 1 .. 4  BY <1>1, <2>1 DEF PlacedWith, Goto
  <2>3. PlacedWith(to, connfd[w], hostfd[w], tag[w], lines[w] - 1) /\ lines[w] - 1 \in 0 .. 4 + MaxLines
    BY <1>1, <1>2, <2>1, <2>2 DEF PlacedWith, Goto
  <2>4. TouchedAnyhow(connfd[w])  BY <1>8, ErrorsAreKnown DEF ErrorReply
  <2>5. answer' \in [Workers -> Answers]  BY <1>2, <1>8 DEF ErrorReply
  <2> HIDE DEF to
  <2> QED  BY <1>4, <1>8, <2>1, <2>3, <2>4, <2>5 DEF ErrorReply
<1>9. CASE ReadHeaders(w)
  <2>1. Goto(w, "headers", "lookup") /\ "lookup" \in Points  BY <1>9 DEF ReadHeaders, Points
  <2>2. PlacedWith("lookup", connfd[w], hostfd[w], tag[w], lines[w])  BY <1>1, <2>1 DEF PlacedWith, Goto
  <2> QED  BY <1>3, <1>5, <1>9, <2>1, <2>2 DEF ReadHeaders
<1>10. CASE HeadersEnd(w)
  <2>1. Goto(w, "headers", "stuck") /\ "stuck" \in Points  BY <1>10 DEF HeadersEnd, Points
  <2>2. PlacedWith("stuck", connfd[w], hostfd[w], tag[w], lines[w])  BY <1>1, <2>1 DEF PlacedWith, Goto
  <2>3. TouchedAnyhow(connfd[w])  BY <1>10, ErrorsAreKnown DEF HeadersEnd, TouchedAnyhow
  <2> QED  BY <1>3, <1>10, <2>1, <2>2, <2>3 DEF HeadersEnd
<1>11. CASE ReadFails(w)
  <2>1. PICK from \in {"request", "headers"} : Goto(w, from, "close")  BY <1>11 DEF ReadFails
  <2>2. PlacedWith("close", connfd[w], hostfd[w], tag[w], lines[w]) /\ "close" \in Points
    BY <1>1, <2>1 DEF PlacedWith, Goto, Points
  <2>3. TouchedAnyhow(connfd[w])  BY <1>11, ErrorsAreKnown DEF ReadFails
  <2> QED  BY <1>3, <1>11, <2>1, <2>2, <2>3 DEF ReadFails
<1>12. CASE ReadCacheHit(w)
  <2>1. Goto(w, "lookup", "hit") /\ "hit" \in Points  BY <1>12 DEF ReadCacheHit, Points
  <2>2. PlacedWith("hit", connfd[w], hostfd[w], tag[w], lines[w])  BY <1>1, <2>1 DEF PlacedWith, Goto
  <2> QED  BY <1>3, <1>12, <2>1, <2>2 DEF ReadCacheHit
<1>13. CASE ReplyFromCache(w)
  <2>1. Goto(w, "hit", "close") /\ "close" \in Points  BY <1>13 DEF ReplyFromCache, Points
  <2>2. PlacedWith("close", connfd[w], hostfd[w], tag[w], lines[w])  BY <1>1, <2>1 DEF PlacedWith, Goto
  <2>3. TouchedAnyhow(connfd[w])  BY <1>13, ErrorsAreKnown DEF ReplyFromCache
  <2> QED  BY <1>3, <1>13, <2>1, <2>2, <2>3 DEF ReplyFromCache
<1>14. CASE ReadCacheMiss(w)
  <2>1. Goto(w, "lookup", "socket") /\ "socket" \in Points  BY <1>14 DEF ReadCacheMiss, Points
  <2>2. PlacedWith("socket", connfd[w], hostfd[w], tag[w], lines[w])  BY <1>1, <2>1 DEF PlacedWith, Goto
  <2> QED  BY <1>3, <1>14, <2>1, <2>2 DEF ReadCacheMiss
<1>15. CASE SendRequest(w)
  <2> DEFINE to == IF lines[w] = 1 THEN "relay" ELSE "send"
  <2>1. Goto(w, "send", to) /\ to \in Points  BY <1>15 DEF SendRequest, Points
  <2>2. lines[w] \in 1 .. 2  BY <1>1, <2>1 DEF PlacedWith, Goto
  <2>3. PlacedWith(to, connfd[w], hostfd[w], tag[w], lines[w] - 1) /\ lines[w] - 1 \in 0 .. 4 + MaxLines
    BY <1>1, <1>2, <2>1, <2>2 DEF PlacedWith, Goto
  <2>4. TouchedAnyhow(hostfd[w])  BY <1>15, ErrorsAreKnown DEF SendRequest
  <2>5. answer' \in [Workers -> Answers]  BY <1>1, <1>15, LearnsTyped DEF SendRequest
  <2> HIDE DEF to
  <2> QED  BY <1>4, <1>15, <2>1, <2>3, <2>4, <2>5 DEF SendRequest
<1>16. CASE RelayRead(w)
  <2>1. Goto(w, "relay", "relayWrite") /\ "relayWrite" \in Points /\ lines[w] < MaxLines
    BY <1>16 DEF RelayRead, Points
  <2>2. PlacedWith("relayWrite", connfd[w], hostfd[w], tag[w], lines[w] + 1) /\ lines[w] + 1 \in 0 .. 4 + MaxLines
    BY <1>1, <1>2, <2>1 DEF PlacedWith, Goto
  <2>3. TouchedAnyhow(hostfd[w])  BY <1>16, ErrorsAreKnown DEF RelayRead
  <2>4. answer' \in [Workers -> Answers]  BY <1>1, <1>16, LearnsTyped DEF RelayRead
  <2> QED  BY <1>4, <1>16, <2>1, <2>2, <2>3, <2>4 DEF RelayRead
<1>17. CASE RelayWrite(w)
  <2>1. PICK to \in {"relay", "closeHost"} : Goto(w, "relayWrite", to)  BY <1>17 DEF RelayWrite
  <2>2. PlacedWith(to, connfd[w], hostfd[w], tag[w], lines[w]) /\ to \in Points
    BY <1>1, <2>1 DEF PlacedWith, Goto, Points
  <2>3. TouchedAnyhow(connfd[w])  BY <1>17, ErrorsAreKnown DEF RelayWrite
  <2> QED  BY <1>3, <1>17, <2>1, <2>2, <2>3 DEF RelayWrite
<1>18. CASE RelayEnd(w) \/ RelayFails(w)
  <2>1. Goto(w, "relay", "store") /\ "store" \in Points  BY <1>18 DEF RelayEnd, RelayFails, Points
  <2>2. PlacedWith("store", connfd[w], hostfd[w], tag[w], lines[w])  BY <1>1, <2>1 DEF PlacedWith, Goto
  <2>3. TouchedAnyhow(hostfd[w])  BY <1>18, ErrorsAreKnown DEF RelayEnd, RelayFails
  <2>4. answer' \in [Workers -> Answers]  BY <1>1, <1>18, LearnsTyped DEF RelayEnd, RelayFails
  <2>5. Carries(w, "store", connfd[w], hostfd[w], tag[w], lines[w])
    BY <1>2, <1>18, <2>1 DEF Carries, Goto, RelayEnd, RelayFails
  <2>6. UNCHANGED <<daemon, cached, serving, source>>  BY <1>18 DEF RelayEnd, RelayFails
  <2> QED  BY <1>2, <2>2, <2>3, <2>4, <2>5, <2>6, OnwardAccounts
<1>19. CASE WriteCache(w)
  <2>1. Goto(w, "store", "closeHost") /\ "closeHost" \in Points  BY <1>19 DEF WriteCache, Points
  <2>2. PlacedWith("closeHost", connfd[w], hostfd[w], tag[w], lines[w])  BY <1>1, <2>1 DEF PlacedWith, Goto
  <2>3. tag[w] \in Tags /\ answer[w] \in Answers  BY <1>1, <1>2, <2>1 DEF PlacedWith, Goto
  <2>4. cached' \subseteq [tag : Tags, answer : Answers]  BY <1>2, <1>19, <2>3 DEF WriteCache
  <2>5. UNCHANGED <<open, daemon, local, failed>>  BY <1>19 DEF WriteCache
  <2>6. Carries(w, "closeHost", connfd[w], hostfd[w], tag[w], lines[w])
    BY <1>2, <2>1, <2>5 DEF Carries, Goto, local
  <2>7. UNCHANGED <<daemon, serving, source, answer, open, failed>>  BY <2>5 DEF local
  <2> QED  BY <1>2, <2>2, <2>4, <2>6, <2>7, OnwardAccounts
<1> QED  BY <1>6, <1>7, <1>8, <1>9, <1>10, <1>11, <1>12, <1>13, <1>14, <1>15, <1>16, <1>17,
            <1>18, <1>19

---------------------------------------------------------------------------
(* Steps that open, close or pass on *)

\* Opening and closing leave a table of descriptors.
LEMMA OpenAsTable ==
    ASSUME TypeOK, NEW fd, NEW what, fd \in Fds => what \in Connections \cup {Free}, OpenAs(fd, what)
    PROVE  /\ open' \in [Fds -> Connections \cup {Free}]
           /\ \A f \in Fds : open'[f] = IF f = fd THEN what ELSE open[f]
BY DEF TypeOK, OpenAs

\* The socket is in its worker's hands.
LEMMA SocketAccounts == ASSUME LInv, NEW w \in Workers, Socket(w) PROVE LInv'
<1> DEFINE fd == LowestFree
           to == IF fd = NoFd THEN "send" ELSE "connect"
<1>1. /\ TypeOK /\ Held /\ Placed /\ pc[w] = "socket" /\ to \in Points
      /\ PlacedWith("socket", connfd[w], hostfd[w], tag[w], lines[w])
  BY DEF LInv, Placed, Socket, Goto, Points
<1>2. fd \in Numbers /\ (fd # NoFd => fd \in Fds /\ open[fd] = Free)
  BY LowestIsFree DEF Numbers
<1>3. Origin(serving[w]) \in Connections /\ Origin(serving[w]) \in Origins
  BY <1>1 DEF TypeOK, Connections, Origins
<1>4. /\ open' \in [Fds -> Connections \cup {Free}]
      /\ \A f \in Fds : open'[f] = IF f = fd THEN Origin(serving[w]) ELSE open[f]
  BY <1>1, <1>3, OpenAsTable DEF Socket
<1>5. /\ Goto(w, "socket", to) /\ hostfd' = [hostfd EXCEPT ![w] = fd] /\ lines' = [lines EXCEPT ![w] = 2]
      /\ failed \subseteq failed' /\ failed' \subseteq failed \cup {"host"}
      /\ UNCHANGED <<daemon, cached, connfd, serving, source, tag>>
      /\ answer' \in [Workers -> Answers]
  <2>1. \E what \in {"part", "error"} : Learns(w, what)  BY DEF Socket
  <2>2. answer' \in [Workers -> Answers]  BY <1>1, <2>1, LearnsTyped
  <2> QED  BY <2>2 DEF Socket
<1> HIDE DEF fd
<1>6. PlacedWith(to, connfd[w], fd, tag[w], 2)
  BY <1>1 DEF PlacedWith, AskedFor, HostPoints
<1>7. /\ connfd[w] \in Numbers /\ tag[w] \in Tags \cup {NoTag} /\ 2 \in 0 .. 4 + MaxLines
      /\ connfd' = [connfd EXCEPT ![w] = connfd[w]] /\ tag' = [tag EXCEPT ![w] = tag[w]]
  BY <1>1, <1>5, BoundsAssumption DEF TypeOK
<1>8. Carries(w, to, connfd[w], fd, tag[w], 2)
  BY <1>1, <1>2, <1>5, <1>7 DEF Carries, Goto
<1>9. StepTyped  BY <1>1, <1>4, <1>5 DEF StepTyped, TypeOK
<1>10. /\ TypeOK' /\ Placed' /\ hostfd'[w] = fd
       /\ \A v \in Workers : v # w => hostfd'[v] = hostfd[v]
  BY <1>1, <1>5, <1>6, <1>8, <1>9, CarriesKeeps
<1>11. ASSUME NEW f \in Fds
       PROVE  /\ open'[f] \in Clients => HeldForClient(f)'
              /\ open'[f] \in Origins => (\E v \in Workers : hostfd'[v] = f) \/ "hostUnknown" \in failed'
  <2>1. HeldForClient(f)' <=> HeldForClient(f)  BY <1>5 DEF HeldForClient, Waiting, daemon
  <2>2. CASE f = fd
    <3>1. open'[f] \notin Clients  BY <1>4, <2>2 DEF Clients, Client, Origin
    <3> QED  BY <1>10, <2>2, <3>1
  <2>3. CASE f # fd
    <3>1. open'[f] = open[f]  BY <1>4, <2>3
    <3>2. \A v \in Workers : hostfd[v] = f => v # w
      BY <1>1, FdsAssumption DEF PlacedWith, HostPoints, NoFd
    <3> QED  BY <1>1, <1>5, <1>10, <2>1, <3>1, <3>2 DEF Held
  <2> QED  BY <2>2, <2>3
<1>12. Held'  BY <1>11 DEF Held, HeldForClient
<1> QED  BY <1>10, <1>12 DEF LInv

\* A worker that lets go of its origin server's number has closed it, or
\* found the name unknown.
LEMMA HostLetGo ==
    ASSUME LInv, NEW w \in Workers, NEW from \in HostPoints, NEW to \in {"send", "close"}, Goto(w, from, to),
           from = "connect" \/ to = "close",
           hostfd' = [hostfd EXCEPT ![w] = NoFd],
           UNCHANGED <<daemon, cached, connfd, serving, source, tag, lines>>,
           answer' \in [Workers -> Answers],
           open' \in [Fds -> Connections \cup {Free}],
           \A f \in Fds : open'[f] = open[f] \/ open'[f] = Free,
           failed \subseteq failed', failed' \subseteq {"severed", "host", "hostUnknown", "clientEof"},
           \A f \in Fds : hostfd[w] = f => open'[f] \notin Origins \/ "hostUnknown" \in failed'
    PROVE  LInv'
<1>1. /\ TypeOK /\ Held /\ Placed /\ to \in Points /\ NoFd \in Numbers
      /\ PlacedWith(from, connfd[w], hostfd[w], tag[w], lines[w])
  BY DEF LInv, Placed, Goto, Points, Numbers
<1>2. PlacedWith(to, connfd[w], NoFd, tag[w], lines[w])
  BY <1>1 DEF PlacedWith, AskedFor, HostPoints
<1>3. /\ connfd[w] \in Numbers /\ tag[w] \in Tags \cup {NoTag} /\ lines[w] \in 0 .. 4 + MaxLines
      /\ connfd' = [connfd EXCEPT ![w] = connfd[w]] /\ tag' = [tag EXCEPT ![w] = tag[w]]
      /\ lines' = [lines EXCEPT ![w] = lines[w]]
  BY <1>1 DEF TypeOK
<1>4. Carries(w, to, connfd[w], NoFd, tag[w], lines[w])
  BY <1>1, <1>3 DEF Carries, Goto
<1>5. StepTyped  BY <1>1 DEF StepTyped, TypeOK
<1>6. /\ TypeOK' /\ Placed' /\ \A v \in Workers : v # w => hostfd'[v] = hostfd[v]
  BY <1>1, <1>2, <1>4, <1>5, CarriesKeeps
<1>7. Waiting' = Waiting  BY DEF Waiting, daemon
<1>8. Held'  BY <1>1, <1>6, <1>7, ClosingKeepsHeld
<1> QED  BY <1>6, <1>8 DEF LInv

\* do_proxy closes its connection to the origin server.
LEMMA CloseHostAccounts == ASSUME LInv, NEW w \in Workers, CloseHost(w) PROVE LInv'
<1>1. TypeOK  BY DEF LInv
<1>2. /\ open' \in [Fds -> Connections \cup {Free}]
      /\ \A f \in Fds : open'[f] = IF f = hostfd[w] THEN Free ELSE open[f]
  BY <1>1, OpenAsTable DEF CloseHost, Shut
<1>3. Free \notin Origins  BY FreeAssumption DEF Connections, Origins
<1>4. failed' = failed /\ failed \subseteq {"severed", "host", "hostUnknown", "clientEof"}
  BY <1>1 DEF CloseHost, TypeOK
<1>5. answer' \in [Workers -> Answers]  BY <1>1 DEF CloseHost, TypeOK
<1> QED  BY <1>2, <1>3, <1>4, <1>5, HostLetGo DEF CloseHost, HostPoints

\* open_clientfd_r gives a connected descriptor, or lets go of it.
LEMMA ConnectAccounts == ASSUME LInv, NEW w \in Workers, Connect(w) PROVE LInv'
<1>1. TypeOK /\ Goto(w, "connect", "send") /\ "send" \in Points /\ pc[w] = "connect"
  BY DEF LInv, Connect, Goto, Points
<1>2. /\ UNCHANGED <<daemon, cached, connfd, serving, source, tag, lines>>
      /\ answer' \in [Workers -> Answers]
  <2>1. \E what \in {"part", "error"} : Learns(w, what)  BY DEF Connect
  <2>2. answer' \in [Workers -> Answers]  BY <1>1, <2>1, LearnsTyped
  <2> QED  BY <2>2 DEF Connect
<1>3. Free \notin Origins  BY FreeAssumption DEF Connections, Origins
<1>4. CASE Works(hostfd[w]) /\ UNCHANGED hostfd
  <2>1. PlacedWith("connect", connfd[w], hostfd[w], tag[w], lines[w])  BY <1>1 DEF LInv, Placed
  <2>2. PlacedWith("send", connfd[w], hostfd[w], tag[w], lines[w])
    BY <2>1 DEF PlacedWith, AskedFor, HostPoints
  <2>3. /\ connfd[w] \in Numbers /\ hostfd[w] \in Numbers /\ tag[w] \in Tags \cup {NoTag}
        /\ lines[w] \in 0 .. 4 + MaxLines
        /\ connfd' = [connfd EXCEPT ![w] = connfd[w]] /\ tag' = [tag EXCEPT ![w] = tag[w]]
        /\ lines' = [lines EXCEPT ![w] = lines[w]] /\ hostfd' = [hostfd EXCEPT ![w] = hostfd[w]]
    BY <1>1, <1>2, <1>4 DEF TypeOK
  <2>4. Carries(w, "send", connfd[w], hostfd[w], tag[w], lines[w])
    BY <1>1, <2>3 DEF Carries, Goto
  <2>5. /\ serving' \in [Workers -> 0 .. MaxConns] /\ source' \in [Workers -> Connections \cup {Nobody}]
        /\ answer' \in [Workers -> Answers] /\ cached' \subseteq [tag : Tags, answer : Answers]
    BY <1>1, <1>2 DEF TypeOK
  <2>6. UNCHANGED <<open, failed>>  BY <1>4 DEF Works
  <2> QED  BY <1>2, <2>2, <2>4, <2>5, <2>6, OnwardAccounts
<1>5. CASE Cut(hostfd[w], "hostRefused") /\ hostfd' = [hostfd EXCEPT ![w] = NoFd]
  <2>1. TouchedAnyhow(hostfd[w])  BY <1>5, ErrorsAreKnown
  <2>2. /\ open' \in [Fds -> Connections \cup {Free}]
        /\ \A f \in Fds : open'[f] = open[f] \/ open'[f] = Free
        /\ failed \subseteq failed' /\ failed' \subseteq {"severed", "host", "hostUnknown", "clientEof"}
    BY <1>1, <2>1, TouchedCloses
  <2>3. \A f \in Fds : hostfd[w] = f => open'[f] = Free
    BY <1>5 DEF Cut, Shut, OpenAs
  <2> QED  BY <1>1, <1>2, <1>3, <1>5, <2>2, <2>3, HostLetGo DEF HostPoints
<1>6. CASE Fails(hostfd[w], "hostUnknown") /\ hostfd' = [hostfd EXCEPT ![w] = NoFd]
  <2>1. TouchedAnyhow(hostfd[w])  BY <1>6, ErrorsAreKnown
  <2>2. /\ open' \in [Fds -> Connections \cup {Free}]
        /\ \A f \in Fds : open'[f] = open[f] \/ open'[f] = Free
        /\ failed \subseteq failed' /\ failed' \subseteq {"severed", "host", "hostUnknown", "clientEof"}
    BY <1>1, <2>1, TouchedCloses
  <2>3. Mark("hostUnknown") = {"hostUnknown"}  BY Zenon DEF Mark
  <2>4. open' = open  BY <1>6 DEF Fails
  <2>5. \A f \in Fds : hostfd[w] = f => open'[f] \notin Origins \/ "hostUnknown" \in failed'
    BY <1>3, <1>6, <2>3, <2>4 DEF Fails, Occurs, Live
  <2> QED  BY <1>1, <1>2, <1>6, <2>2, <2>5, HostLetGo DEF HostPoints
<1> QED  BY <1>4, <1>5, <1>6 DEF Connect

\* thread closes the number it was given and forgets it.
LEMMA CloseConnAccounts == ASSUME LInv, NEW w \in Workers, CloseConn(w) PROVE LInv'
<1>1. /\ TypeOK /\ Held /\ Placed /\ Goto(w, "close", "remove") /\ "remove" \in Points
      /\ NoFd \in Numbers /\ pc[w] = "close"
      /\ PlacedWith("close", connfd[w], hostfd[w], tag[w], lines[w])
  BY DEF LInv, Placed, CloseConn, Goto, Points, Numbers
<1>2. /\ open' \in [Fds -> Connections \cup {Free}]
      /\ \A f \in Fds : open'[f] = IF f = connfd[w] THEN Free ELSE open[f]
  BY <1>1, OpenAsTable DEF CloseConn, Shut
<1>3. /\ connfd' = [connfd EXCEPT ![w] = NoFd] /\ serving' = [serving EXCEPT ![w] = 0]
      /\ source' = [source EXCEPT ![w] = Nobody]
      /\ tag' = [tag EXCEPT ![w] = NoTag] /\ lines' = [lines EXCEPT ![w] = 0]
      /\ answer' = [answer EXCEPT ![w] = "part"]
      /\ UNCHANGED <<daemon, cached, hostfd, failed>>
  BY DEF CloseConn
<1>4. PlacedWith("remove", NoFd, hostfd[w], NoTag, 0)
  BY <1>1 DEF PlacedWith, AskedFor, HostPoints
<1>5. /\ hostfd[w] \in Numbers /\ 0 \in 0 .. 4 + MaxLines /\ "part" \in Answers
      /\ hostfd' = [hostfd EXCEPT ![w] = hostfd[w]]
  BY <1>1, <1>3, BoundsAssumption DEF TypeOK, Answers
<1>6. Carries(w, "remove", NoFd, hostfd[w], NoTag, 0)
  BY <1>1, <1>3, <1>5 DEF Carries, Goto
<1>7. StepTyped  BY <1>1, <1>2, <1>3, <1>5, BoundsAssumption DEF StepTyped, TypeOK
<1>8. /\ TypeOK' /\ Placed' /\ \A v \in Workers : v # w => connfd'[v] = connfd[v]
  BY <1>1, <1>3, <1>4, <1>6, <1>7, CarriesKeeps
<1>9. Free \notin Clients /\ Free \notin Origins
  BY FreeAssumption DEF Connections, Clients, Origins
<1>10. ASSUME NEW f \in Fds
       PROVE  /\ open'[f] \in Clients => HeldForClient(f)'
              /\ open'[f] \in Origins => (\E v \in Workers : hostfd'[v] = f) \/ "hostUnknown" \in failed'
  <2>1. CASE f = connfd[w]  BY <1>2, <1>9, <2>1
  <2>2. CASE f # connfd[w]
    <3>1. open'[f] = open[f] /\ Waiting' = Waiting  BY <1>2, <1>3, <2>2 DEF Waiting, daemon
    <3>2. HeldForClient(f) => HeldForClient(f)'  BY <1>8, <2>2, <3>1 DEF HeldForClient
    <3> QED  BY <1>1, <1>3, <3>1, <3>2 DEF Held
  <2> QED  BY <2>1, <2>2
<1>11. Held'  BY <1>10 DEF Held, HeldForClient
<1> QED  BY <1>8, <1>11 DEF LInv

\* Waiting is the elements of the queue and of accepting.
LEMMA Passing ==
    ASSUME NEW q \in Seq(Handed), NEW h \in Handed
    PROVE  /\ {(q \o <<h>>)[i] : i \in 1 .. Len(q \o <<h>>)} = {q[i] : i \in 1 .. Len(q)} \cup {h}
           /\ q # <<>> => {q[i] : i \in 1 .. Len(q)} =
                            {Tail(q)[i] : i \in 1 .. Len(Tail(q))} \cup {Head(q)}
<1>1. {(q \o <<h>>)[i] : i \in 1 .. Len(q \o <<h>>)} = {q[i] : i \in 1 .. Len(q)} \cup {h}
  <2>1. /\ Len(q \o <<h>>) = Len(q) + 1 /\ (q \o <<h>>)[Len(q) + 1] = h /\ Len(q) \in Nat
        /\ \A i \in 1 .. Len(q) : (q \o <<h>>)[i] = q[i]
    OBVIOUS
  <2>2. 1 .. Len(q) + 1 = (1 .. Len(q)) \cup {Len(q) + 1}  BY <2>1
  <2> QED  BY <2>1, <2>2
<1>2. ASSUME q # <<>>
      PROVE  {q[i] : i \in 1 .. Len(q)} = {Tail(q)[i] : i \in 1 .. Len(Tail(q))} \cup {Head(q)}
  <2>1. /\ Len(q) \in Nat \ {0} /\ Len(Tail(q)) = Len(q) - 1 /\ Head(q) = q[1]
        /\ \A i \in 1 .. Len(Tail(q)) : Tail(q)[i] = q[i + 1]
    BY <1>2
  <2>2. \A i \in 1 .. Len(q) : i = 1 \/ (i - 1 \in 1 .. Len(Tail(q)) /\ Tail(q)[i - 1] = q[i])
    BY <2>1
  <2>3. \A i \in 1 .. Len(Tail(q)) : i + 1 \in 1 .. Len(q)  BY <2>1
  <2>4. 1 \in 1 .. Len(q)  BY <2>1
  <2>5. \A i \in 1 .. Len(q) : q[i] \in {Tail(q)[j] : j \in 1 .. Len(Tail(q))} \cup {Head(q)}
    BY <2>1, <2>2
  <2>6. \A i \in 1 .. Len(Tail(q)) : Tail(q)[i] \in {q[j] : j \in 1 .. Len(q)}
    BY <2>1, <2>3
  <2> QED  BY <2>1, <2>4, <2>5, <2>6
<1> QED  BY <1>1, <1>2

\* accepting is empty or holds one connection.
LEMMA AcceptingIsOne ==
    ASSUME TypeOK, accepting # <<>>
    PROVE  accepting = <<accepting[1]>> /\ accepting[1] \in Handed
<1>1. accepting \in Seq(Handed) /\ Len(accepting) <= 1  BY DEF TypeOK
<1>2. Len(accepting) \in Nat \ {0}  BY <1>1, EmptySeq
<1> DEFINE n == Len(accepting)
<1>3. n \in Nat \ {0} /\ n <= 1  BY <1>1, <1>2
<1> HIDE DEF n
<1>4. n = 1 /\ 1 \in 1 .. n  BY <1>3
<1>5. Len(accepting) = 1 /\ accepting[1] \in Handed  BY <1>1, <1>4, ElementOfSeq DEF n
<1>6. <<accepting[1]>> \in Seq(Handed) /\ Len(<<accepting[1]>>) = 1  BY <1>5
<1>7. accepting = <<accepting[1]>>  BY <1>1, <1>5, <1>6, SeqEqual
<1> QED  BY <1>5, <1>7

\* sbuf_insert passes a connection on to the queue.
LEMMA SbufInsertAccounts == ASSUME LInv, SbufInsert PROVE LInv'
<1>1. TypeOK /\ Held /\ Placed  BY DEF LInv
<1>2. PICK h \in Handed : accepting = <<h>>  BY <1>1, AcceptingIsOne DEF SbufInsert
<1>3. /\ Len(queue) < SbufSize /\ queue' = queue \o <<h>> /\ accepting' = <<>>
      /\ UNCHANGED <<open, conns, cached, pc, connfd, serving, source, hostfd, tag, lines, answer, failed>>
  BY <1>2 DEF SbufInsert, local
<1>4. queue \in Seq(Handed) /\ SbufSize \in Nat  BY <1>1, BoundsAssumption DEF TypeOK
<1>5. /\ queue' \in Seq(Handed) /\ Len(queue') <= SbufSize /\ accepting' \in Seq(Handed) /\ Len(accepting') <= 1
  BY <1>2, <1>3, <1>4
<1>6. TypeOK'  BY <1>1, <1>3, <1>5 DEF TypeOK
<1>7. Waiting' = Waiting
  <2>1. Waiting = {queue[i] : i \in 1 .. Len(queue)} \cup {h}  BY <1>2 DEF Waiting
  <2>2. Waiting' = {queue'[i] : i \in 1 .. Len(queue')}  BY <1>3 DEF Waiting
  <2> QED  BY <1>3, <1>4, <2>1, <2>2, Passing
<1>8. Held'  BY <1>1, <1>3, <1>7 DEF Held, HeldForClient
<1>9. Placed'  BY <1>1, <1>3 DEF Placed
<1> QED  BY <1>6, <1>8, <1>9 DEF LInv

\* A worker has no descriptor when it takes one.
LEMMA SbufRemoveAccounts == ASSUME LInv, NEW w \in Workers, SbufRemove(w) PROVE LInv'
<1> DEFINE h == Head(queue)
<1>1. /\ TypeOK /\ Held /\ Placed /\ queue \in Seq(Handed) /\ queue # <<>>
      /\ PlacedWith("remove", connfd[w], hostfd[w], tag[w], lines[w])
      /\ Goto(w, "remove", "request") /\ "request" \in Points /\ NoFd \in Numbers
  BY DEF LInv, Placed, TypeOK, SbufRemove, Goto, Points, Numbers
<1>2. /\ h \in Handed /\ Tail(queue) \in Seq(Handed) /\ Len(Tail(queue)) = Len(queue) - 1
      /\ h.fd \in Numbers /\ h.conn \in 0 .. MaxConns /\ Len(queue) \in Nat
  <2>1. h \in Handed /\ Tail(queue) \in Seq(Handed) /\ Len(Tail(queue)) = Len(queue) - 1 /\ Len(queue) \in Nat
    BY <1>1
  <2> QED  BY <2>1 DEF Handed
<1>3. /\ queue' = Tail(queue) /\ connfd' = [connfd EXCEPT ![w] = h.fd]
      /\ serving' = [serving EXCEPT ![w] = h.conn]
      /\ UNCHANGED <<open, accepting, conns, cached, source, hostfd, tag, lines, answer, failed>>
  BY DEF SbufRemove
<1>a. /\ hostfd[w] = NoFd /\ tag[w] \in Tags \cup {NoTag} /\ lines[w] \in 0 .. 4 + MaxLines
      /\ hostfd' = [hostfd EXCEPT ![w] = NoFd] /\ tag' = [tag EXCEPT ![w] = tag[w]]
      /\ lines' = [lines EXCEPT ![w] = lines[w]]
  BY <1>1, <1>3 DEF TypeOK, PlacedWith, HostPoints
<1>4. PlacedWith("request", h.fd, NoFd, tag[w], lines[w])  BY DEF PlacedWith, AskedFor, HostPoints
<1>5. Carries(w, "request", h.fd, NoFd, tag[w], lines[w])
  BY <1>1, <1>2, <1>3, <1>a DEF Carries, Goto
<1>6. StepTyped  BY <1>1, <1>2, <1>3 DEF StepTyped, TypeOK
<1>7. /\ Placed' /\ connfd'[w] = h.fd /\ hostfd'[w] = NoFd
      /\ \A v \in Workers : v # w => connfd'[v] = connfd[v] /\ hostfd'[v] = hostfd[v]
  BY <1>1, <1>4, <1>5, <1>6, CarriesKeeps
<1>8. TypeOK'
  <2>1. /\ pc' \in [Workers -> Points] /\ connfd' \in [Workers -> Numbers] /\ hostfd' \in [Workers -> Numbers]
        /\ tag' \in [Workers -> Tags \cup {NoTag}] /\ lines' \in [Workers -> 0 .. 4 + MaxLines]
    BY <1>1, <1>5 DEF TypeOK, Carries
  <2>2. queue' \in Seq(Handed) /\ Len(queue') <= SbufSize
    BY <1>1, <1>2, <1>3, BoundsAssumption DEF TypeOK
  <2> QED  BY <1>1, <1>3, <1>6, <2>1, <2>2 DEF TypeOK, StepTyped
<1>9. Waiting = Waiting' \cup {h}
  <2>1. {queue[i] : i \in 1 .. Len(queue)} = {Tail(queue)[i] : i \in 1 .. Len(Tail(queue))} \cup {h}
    BY <1>1, <1>2, Passing
  <2> QED  BY <1>3, <2>1 DEF Waiting
<1>10. connfd[w] \notin Fds /\ hostfd[w] \notin Fds
  BY <1>1, FdsAssumption DEF PlacedWith, HostPoints, NoFd
<1>11. \A f \in Fds : HeldForClient(f) => HeldForClient(f)'
  BY <1>7, <1>9, <1>10 DEF HeldForClient
<1>12. Held'
  <2>1. ASSUME NEW f \in Fds
        PROVE  /\ open[f] \in Clients => HeldForClient(f)'
               /\ open[f] \in Origins => (\E v \in Workers : hostfd'[v] = f) \/ "hostUnknown" \in failed
    BY <1>1, <1>7, <1>10, <1>11 DEF Held
  <2> QED  BY <1>3, <2>1 DEF Held, HeldForClient
<1> QED  BY <1>7, <1>8, <1>12 DEF LInv

\* accept's new connection is in main's hands.
LEMMA AcceptAccounts == ASSUME LInv, Accept PROVE LInv'
<1>1. TypeOK /\ Held /\ Placed /\ queue \in Seq(Handed)  BY DEF LInv, TypeOK
<1>2. PICK h : /\ accepting = <<>> /\ accepting' = <<h>> /\ conns < MaxConns
               /\ UNCHANGED <<queue, cached, pc, connfd, serving, source, hostfd, tag, lines, answer, failed>>
               /\ \/ /\ h = [fd |-> NoFd, conn |-> 0] /\ conns' = conns /\ open' = open
                  \/ /\ h = [fd |-> LowestFree, conn |-> conns + 1] /\ LowestFree # NoFd
                     /\ conns' = conns + 1 /\ OpenAs(LowestFree, Client(conns + 1))
  BY DEF Accept, local
<1>3. conns \in Nat /\ conns + 1 \in 1 .. MaxConns  BY <1>1, <1>2, BoundsAssumption DEF TypeOK
<1>4. /\ h \in Handed /\ conns' \in 0 .. MaxConns
      /\ open' \in [Fds -> Connections \cup {Free}]
      /\ \A f \in Fds : open'[f] # open[f] => f = h.fd /\ open'[f] \notin Origins
  <2>1. CASE h = [fd |-> NoFd, conn |-> 0] /\ conns' = conns /\ open' = open
    BY <1>1, <2>1, BoundsAssumption DEF TypeOK, Handed, Numbers
  <2>2. CASE /\ h = [fd |-> LowestFree, conn |-> conns + 1] /\ LowestFree # NoFd
             /\ conns' = conns + 1 /\ OpenAs(LowestFree, Client(conns + 1))
    <3>1. LowestFree \in Fds /\ Client(conns + 1) \in Connections /\ Client(conns + 1) \notin Origins
      BY <1>3, <2>2, LowestIsFree DEF Connections, Origins, Client, Origin
    <3>2. /\ open' \in [Fds -> Connections \cup {Free}]
          /\ \A f \in Fds : open'[f] = IF f = LowestFree THEN Client(conns + 1) ELSE open[f]
      BY <1>1, <2>2, <3>1, OpenAsTable
    <3> QED  BY <1>3, <2>2, <3>1, <3>2 DEF Handed, Numbers
  <2> QED  BY <1>2, <2>1, <2>2
<1>5. TypeOK'
  <2>1. accepting' \in Seq(Handed) /\ Len(accepting') <= 1  BY <1>2, <1>4
  <2> QED  BY <1>1, <1>2, <1>4, <2>1 DEF TypeOK
<1>6. Waiting' = Waiting \cup {h}
  <2>1. Waiting = {queue[i] : i \in 1 .. Len(queue)}  BY <1>2 DEF Waiting
  <2>2. Waiting' = {queue[i] : i \in 1 .. Len(queue)} \cup {(<<h>>)[i] : i \in 1 .. Len(<<h>>)}
    BY <1>2 DEF Waiting
  <2>3. {(<<h>>)[i] : i \in 1 .. Len(<<h>>)} = {h}
    <3>1. Len(<<h>>) = 1 /\ (<<h>>)[1] = h /\ 1 .. 1 = {1}  OBVIOUS
    <3> QED  BY <3>1
  <2> QED  BY <2>1, <2>2, <2>3
<1>7. Held'
  <2>1. ASSUME NEW f \in Fds
        PROVE  /\ open'[f] \in Clients => HeldForClient(f)'
               /\ open'[f] \in Origins => (\E v \in Workers : hostfd[v] = f) \/ "hostUnknown" \in failed
    <3>1. HeldForClient(f) => HeldForClient(f)'  BY <1>2, <1>6 DEF HeldForClient
    <3>2. f = h.fd => HeldForClient(f)'  BY <1>6 DEF HeldForClient
    <3> QED  BY <1>1, <1>4, <3>1, <3>2 DEF Held
  <2> QED  BY <1>2, <2>1 DEF Held, HeldForClient
<1>8. Placed'  BY <1>1, <1>2 DEF Placed
<1> QED  BY <1>5, <1>7, <1>8 DEF LInv

---------------------------------------------------------------------------
\* Nothing is open and nobody holds anything.
LEMMA InitLInv == Init => LInv
<1>1. SUFFICES ASSUME Init PROVE LInv
  OBVIOUS
<1>2. NoFd \in Numbers /\ 0 \in 0 .. MaxConns /\ "remove" \in Points /\ 0 \in 0 .. 4 + MaxLines /\ 0 <= SbufSize
  BY BoundsAssumption DEF Numbers, Points
<1>3. TypeOK
  <2>1. "part" \in Answers  BY DEF Answers
  <2> QED  BY <1>1, <1>2, <2>1 DEF Init, TypeOK
<1>4. Held
  BY <1>1, FreeAssumption DEF Init, Held, Clients, Origins, Connections
<1>5. Placed
  BY <1>1 DEF Init, Placed, PlacedWith, AskedFor, HostPoints
<1> QED  BY <1>3, <1>4, <1>5 DEF LInv

\* A step that changes nothing keeps the invariant.
LEMMA IdleAccounts == ASSUME LInv, UNCHANGED vars PROVE LInv'
<1>1. UNCHANGED <<open, queue, accepting, conns, cached, pc, connfd, serving, source, hostfd, tag, lines,
                  answer, failed, Waiting>>
  BY DEF vars, daemon, local, Waiting
<1>2. TypeOK'  BY <1>1 DEF LInv, TypeOK
<1> QED  BY <1>1, <1>2 DEF LInv, Held, HeldForClient, Placed

\* A process that has died has nothing open.
LEMMA OverflowAccounts == ASSUME LInv, NEW w \in Workers, HeadersOverflow(w) PROVE LInv'
<1>1. TypeOK  BY DEF LInv
<1>2. /\ open' = [f \in Fds |-> Free] /\ queue' = <<>> /\ accepting' = <<>> /\ conns' = conns
      /\ pc' = [v \in Workers |-> "dead"] /\ connfd' = [v \in Workers |-> NoFd]
      /\ hostfd' = [v \in Workers |-> NoFd] /\ serving' = [v \in Workers |-> 0]
      /\ source' = [v \in Workers |-> Nobody] /\ cached' = {}
      /\ tag' = [v \in Workers |-> NoTag] /\ lines' = [v \in Workers |-> 0]
      /\ answer' = [v \in Workers |-> "part"] /\ Occurs("clientEof")
  BY DEF HeadersOverflow
<1>3. failed' \subseteq {"severed", "host", "hostUnknown", "clientEof"}
  BY <1>1, <1>2, MarkTyped DEF Occurs, AllFailures, TypeOK
<1>4. NoFd \in Numbers /\ 0 \in 0 .. MaxConns /\ "dead" \in Points /\ 0 \in 0 .. 4 + MaxLines
      /\ 0 <= SbufSize /\ "part" \in Answers
  BY BoundsAssumption DEF Numbers, Points, Answers
<1>5. TypeOK'  BY <1>1, <1>2, <1>3, <1>4 DEF TypeOK
<1>6. Held'
  BY <1>2, FreeAssumption DEF Held, Clients, Origins, Connections
<1>7. Placed'
  BY <1>2 DEF Placed, PlacedWith, AskedFor, HostPoints
<1> QED  BY <1>5, <1>6, <1>7 DEF LInv

\* Every step of the proxy keeps the invariant.
LEMMA StepLInv == LInv /\ [Next]_vars => LInv'
<1> SUFFICES ASSUME LInv, [Next]_vars PROVE LInv'  OBVIOUS
<1>1. CASE Accept  BY <1>1, AcceptAccounts
<1>2. CASE SbufInsert  BY <1>2, SbufInsertAccounts
<1>3. ASSUME NEW w \in Workers, SbufRemove(w) PROVE LInv'  BY <1>3, SbufRemoveAccounts
<1>4. ASSUME NEW w \in Workers, DoProxy(w) PROVE LInv'
  BY <1>4, OnwardStepsAccount, SocketAccounts, ConnectAccounts, CloseHostAccounts, CloseConnAccounts,
     OverflowAccounts DEF DoProxy
<1>5. CASE UNCHANGED vars  BY <1>5, IdleAccounts
<1> QED  BY <1>1, <1>2, <1>3, <1>4, <1>5 DEF Next, Quiet

\* Every variable stays within its type, and whatever fails, a descriptor that
\* is open is in the hands of somebody who will close it, but for the sockets
\* open_clientfd_r forgets when a name is unknown.
THEOREM NoneForgotten == Spec => []DescriptorsAccounted
<1>1. LInv => DescriptorsAccounted
  <2>1. SUFFICES ASSUME LInv, NEW f \in Fds, open[f] # Free
                 PROVE  \/ \E handed \in Waiting : handed.fd = f
                        \/ \E w \in Workers : f \in {connfd[w], hostfd[w]}
                        \/ "hostUnknown" \in failed /\ open[f] \in {Origin(c) : c \in 0 .. MaxConns}
    BY DEF DescriptorsAccounted, NoDescriptorLeak, LInv
  <2>2. open[f] \in Clients \/ open[f] \in Origins
    BY <2>1 DEF LInv, TypeOK, Connections, Clients, Origins
  <2> QED  BY <2>1, <2>2 DEF LInv, Held, HeldForClient, Origins
<1> QED  BY InitLInv, StepLInv, <1>1, PTL DEF Spec

=============================================================================
