------------------------------- MODULE Proxy -------------------------------
(***************************************************************************)
(* proxy_lab/proxy.c with the wrappers of csapp.c it uses: the main thread *)
(* accepts connections and hands their descriptors to a pool of workers    *)
(* through the FIFO of BoundedFifo (which Sbuf is shown to implement); a   *)
(* worker reads the request, answers it from the cache (abstracted as in   *)
(* ObjectCache: a lookup may always miss) or relays the origin server's    *)
(* answer, and closes.                                                     *)
(*                                                                         *)
(* The model is about descriptors: the kernel hands out the lowest free    *)
(* number, a number that is closed is handed out again, and using a number *)
(* reaches whatever connection is behind it by then.  `unix_error' only    *)
(* prints: after an error the code goes on.                                *)
(***************************************************************************)
EXTENDS Integers, Sequences, FiniteSets, FiniteSetsExt

CONSTANTS Workers,
          Tags,          \* the objects asked for
          Fds,           \* the descriptors left to connections, small naturals
          Free,          \* a descriptor nothing is behind
          SbufSize,      \* SBUF_SIZE
          MaxLines,      \* bound: lines in an origin server's answer
          StoreLimit,    \* how many lines fit in MAX_OBJECT_SIZE
          MaxConns,      \* bound: clients that connect
          Failures       \* what may go wrong, of AllFailures

AllFailures ==
    {"clientEof",      \* a client closes before the end of its headers
     "clientReset",    \* read from a client: ECONNRESET
     "clientBroken",   \* write to a client: EPIPE
     "clientError",    \* read or write: any other error
     "hostUnknown", "hostRefused",              \* getaddrinfo, connect
     "hostReset", "hostBroken", "hostError"}    \* as for clients

ASSUME FdsAssumption == Fds \subseteq Nat /\ IsFiniteSet(Fds) /\ Free \notin Fds
ASSUME BoundsAssumption == /\ SbufSize \in Nat \ {0} /\ MaxLines \in Nat \ {0}
                           /\ StoreLimit \in Nat /\ MaxConns \in Nat
ASSUME FailuresAssumption == Failures \subseteq AllFailures

NoFd == -1
Client(c) == <<"client", c>>     \* the connection of the c-th client
Origin(c) == <<"origin", c>>     \* the one opened to answer it
Connections == {Client(c) : c \in 1 .. MaxConns} \cup {Origin(c) : c \in 0 .. MaxConns}

ASSUME FreeAssumption == Free \notin Connections

VARIABLES open,       \* what is behind each descriptor
          queue,      \* sbuf: descriptors, with the client each was accepted for
          accepting,  \* main's connfd, between Accept and sbuf_insert
          conns,      \* how many clients have connected
          cached,     \* the objects in the cache: tag, and (history) answer
          pc,
          connfd,     \* the worker's parameter fd, and
          serving,    \* (history) the client it was accepted for
          source,     \* (history) the connection the request was read from
          hostfd,     \* to_real_host_fd
          tag,
          lines,      \* lines relayed, or writes left of a reply
          answer,     \* (history) what the worker has of the origin's answer
          failed      \* (history) what has gone wrong so far

daemon == <<queue, accepting, conns>>
local == <<connfd, serving, source, hostfd, tag, lines, answer>>
vars == <<open, daemon, cached, pc, local, failed>>

Nobody == <<"nobody", 0>>
NoTag == "none"

Init == /\ open = [f \in Fds |-> Free]
        /\ queue = <<>> /\ accepting = <<>> /\ conns = 0
        /\ cached = {}
        /\ pc = [w \in Workers |-> "remove"]
        /\ connfd = [w \in Workers |-> NoFd] /\ hostfd = [w \in Workers |-> NoFd]
        /\ serving = [w \in Workers |-> 0] /\ source = [w \in Workers |-> Nobody]
        /\ tag = [w \in Workers |-> NoTag]
        /\ lines = [w \in Workers |-> 0]
        /\ answer = [w \in Workers |-> "part"]
        /\ failed = {}

Goto(w, from, to) == pc[w] = from /\ pc' = [pc EXCEPT ![w] = to]

---------------------------------------------------------------------------
(* Descriptors *)

FreeFds == {f \in Fds : open[f] = Free}
LowestFree == IF FreeFds = {} THEN NoFd ELSE Min(FreeFds)
OpenAs(fd, what) == open' = [f \in Fds |-> IF f = fd THEN what ELSE open[f]]
Live(fd) == fd \in Fds /\ open[fd] # Free

\* close(fd), which does nothing to a number nothing is behind.
Shut(fd) == OpenAs(fd, Free)

\* What there is to remember of an error: that a wrapper has closed the
\* descriptor, that an origin server failed, was not found, or that a client's
\* headers ended too soon.
Mark(error) == CASE error \in {"clientReset", "clientBroken", "hostReset", "hostBroken"} -> {"severed"}
                 [] error \in {"hostRefused", "hostError"} -> {"host"}
                 [] error \in {"hostUnknown", "clientEof"} -> {error}
                 [] OTHER -> {}

\* How read and write end: well, with the error that makes the wrappers close
\* the descriptor, or with another one.
Occurs(error) == error \in Failures /\ failed' = failed \cup Mark(error)
Works(fd) == Live(fd) /\ UNCHANGED <<open, failed>>
Cut(fd, error) == Live(fd) /\ Occurs(error) /\ Shut(fd)
Fails(fd, error) == (IF Live(fd) THEN Occurs(error) ELSE UNCHANGED failed) /\ UNCHANGED open

\* The process has not crashed.
Alive == \A w \in Workers : pc[w] # "dead"

---------------------------------------------------------------------------
(* main *)

\* accept fails when no descriptor is left, and main goes on with -1.
Accept == /\ Alive /\ accepting = <<>> /\ conns < MaxConns
          /\ LET fd == LowestFree IN
               IF fd = NoFd
               THEN accepting' = <<[fd |-> NoFd, conn |-> 0]>> /\ UNCHANGED <<conns, open>>
               ELSE /\ accepting' = <<[fd |-> fd, conn |-> conns + 1]>>
                    /\ conns' = conns + 1
                    /\ OpenAs(fd, Client(conns + 1))
          /\ UNCHANGED <<queue, cached, pc, local, failed>>

SbufInsert == /\ accepting # <<>> /\ Len(queue) < SbufSize
              /\ queue' = queue \o accepting
              /\ accepting' = <<>>
              /\ UNCHANGED <<open, conns, cached, pc, local, failed>>

---------------------------------------------------------------------------
(* thread and do_proxy: the request *)

SbufRemove(w) == /\ queue # <<>>
                 /\ Goto(w, "remove", "request")
                 /\ queue' = Tail(queue)
                 /\ connfd' = [connfd EXCEPT ![w] = Head(queue).fd]
                 /\ serving' = [serving EXCEPT ![w] = Head(queue).conn]
                 /\ UNCHANGED <<open, accepting, conns, cached, source, hostfd, tag, lines, answer, failed>>

\* The request line: a good one, or one parse_request answers with an error.
\* At end of file the line is what an earlier call left on the stack: either.
ReadRequest(w, t) == /\ Works(connfd[w])
                     /\ Goto(w, "request", "headers")
                     /\ tag' = [tag EXCEPT ![w] = t]
                     /\ source' = [source EXCEPT ![w] = open[connfd[w]]]
                     /\ UNCHANGED <<daemon, cached, connfd, serving, hostfd, lines, answer>>

RejectRequest(w) == /\ Works(connfd[w])
                    /\ Goto(w, "request", "errorReply")
                    /\ source' = [source EXCEPT ![w] = open[connfd[w]]]
                    /\ lines' = [lines EXCEPT ![w] = 4]
                    /\ UNCHANGED <<daemon, cached, connfd, serving, hostfd, tag, answer>>

\* clienterror's four writes, the results of which nobody looks at.
ErrorReply(w) == /\ Goto(w, "errorReply", IF lines[w] = 1 THEN "close" ELSE "errorReply")
                 /\ lines' = [lines EXCEPT ![w] = @ - 1]
                 /\ \/ Works(connfd[w]) \/ Cut(connfd[w], "clientBroken") \/ Fails(connfd[w], "clientError")
                 /\ UNCHANGED <<daemon, cached, connfd, serving, source, hostfd, tag, answer>>

ReadHeaders(w) == /\ Works(connfd[w])
                  /\ Goto(w, "headers", "lookup")
                  /\ UNCHANGED <<daemon, cached, local>>

\* At end of file Rio_readlineb returns 0, which is not < 0, and leaves the
\* last line in buf: the loop never ends.  If the line is one it drops, or the
\* host's, the worker spins.
HeadersEnd(w) == /\ Live(connfd[w]) /\ Occurs("clientEof")
                 /\ Goto(w, "headers", "stuck")
                 /\ UNCHANGED <<open, daemon, cached, local>>

\* If it is any other line, every turn appends it to hdr_buf, which is on the
\* stack, until the process dies of it and leaves nothing.
HeadersOverflow(w) ==
    /\ pc[w] = "headers" /\ Live(connfd[w]) /\ Occurs("clientEof")
    /\ pc' = [v \in Workers |-> "dead"]
    /\ open' = [f \in Fds |-> Free]
    /\ queue' = <<>> /\ accepting' = <<>> /\ cached' = {}
    /\ connfd' = [v \in Workers |-> NoFd] /\ hostfd' = [v \in Workers |-> NoFd]
    /\ serving' = [v \in Workers |-> 0] /\ source' = [v \in Workers |-> Nobody]
    /\ tag' = [v \in Workers |-> NoTag] /\ lines' = [v \in Workers |-> 0]
    /\ answer' = [v \in Workers |-> "part"]
    /\ UNCHANGED conns

ReadFails(w) == /\ \E point \in {"request", "headers"} : Goto(w, point, "close")
                /\ Cut(connfd[w], "clientReset") \/ Fails(connfd[w], "clientError")
                /\ UNCHANGED <<daemon, cached, local>>

---------------------------------------------------------------------------
(* do_proxy: the cache *)

ReadCacheHit(w) == /\ Goto(w, "lookup", "hit")
                   /\ \E object \in cached : object.tag = tag[w]
                   /\ UNCHANGED <<open, daemon, cached, local, failed>>

ReplyFromCache(w) == /\ Goto(w, "hit", "close")
                     /\ \/ Works(connfd[w]) \/ Cut(connfd[w], "clientBroken") \/ Fails(connfd[w], "clientError")
                     /\ UNCHANGED <<daemon, cached, local>>

ReadCacheMiss(w) == /\ Goto(w, "lookup", "socket")
                    /\ UNCHANGED <<open, daemon, cached, local, failed>>

---------------------------------------------------------------------------
(* do_proxy: the origin server (Open_clientfd_r) *)

\* The call w makes on hostfd tells this of the answer: "part" until its end
\* is read ("whole") or a call fails ("error").  If the number is by now not
\* the connection w opened, the answer is no answer to w ("taken").
Ours(w) == hostfd[w] = NoFd \/ open[hostfd[w]] = Origin(serving[w])
Learns(w, what) == answer' = [answer EXCEPT ![w] = IF ~Ours(w) THEN "taken"
                                                   ELSE IF @ = "part" THEN what ELSE @]

\* socket() gives -1 when no descriptor is left; open_clientfd_r then returns.
Socket(w) == /\ LET fd == LowestFree IN
                  /\ Goto(w, "socket", IF fd = NoFd THEN "send" ELSE "connect")
                  /\ hostfd' = [hostfd EXCEPT ![w] = fd]
                  /\ OpenAs(fd, Origin(serving[w]))
                  /\ failed' = IF fd = NoFd THEN failed \cup {"host"} ELSE failed
                  /\ Learns(w, IF fd = NoFd THEN "error" ELSE "part")
             /\ lines' = [lines EXCEPT ![w] = 2]
             /\ UNCHANGED <<daemon, cached, connfd, serving, source, tag>>

Connect(w) == /\ Goto(w, "connect", "send")
              /\ \/ Works(hostfd[w]) /\ Learns(w, "part") /\ UNCHANGED hostfd
                 \/ \* every address refuses: the socket is closed
                    /\ Cut(hostfd[w], "hostRefused") /\ Learns(w, "error")
                    /\ hostfd' = [hostfd EXCEPT ![w] = NoFd]
                 \/ \* getaddrinfo fails: it is not
                    /\ Fails(hostfd[w], "hostUnknown") /\ Learns(w, "error")
                    /\ hostfd' = [hostfd EXCEPT ![w] = NoFd]
              /\ UNCHANGED <<daemon, cached, connfd, serving, source, tag, lines>>

\* The request line and the headers: two writes nobody looks at the result of.
SendRequest(w) ==
    /\ Goto(w, "send", IF lines[w] = 1 THEN "relay" ELSE "send")
    /\ lines' = [lines EXCEPT ![w] = @ - 1]
    /\ \/ Works(hostfd[w]) /\ Learns(w, "part")
       \/ Cut(hostfd[w], "hostBroken") /\ Learns(w, "error")
       \/ Fails(hostfd[w], "hostError") /\ Learns(w, "error")
    /\ UNCHANGED <<daemon, cached, connfd, serving, source, hostfd, tag>>

RelayRead(w) == /\ lines[w] < MaxLines
                /\ Works(hostfd[w]) /\ Learns(w, "part")
                /\ Goto(w, "relay", "relayWrite")
                /\ lines' = [lines EXCEPT ![w] = @ + 1]
                /\ UNCHANGED <<daemon, cached, connfd, serving, source, hostfd, tag>>

\* Mutants: on a write error the server's descriptor is not closed; the
\* client's is closed too; the loop goes on; the answer so far is cached.
RelayWriteLeaks(w) == /\ \/ Works(connfd[w]) /\ Goto(w, "relayWrite", "relay")
                         \/ Fails(connfd[w], "clientError") /\ Goto(w, "relayWrite", "close")
                      /\ UNCHANGED <<daemon, cached, local>>

RelayWriteCloses(w) == /\ \/ Works(connfd[w]) /\ Goto(w, "relayWrite", "relay")
                          \/ Cut(connfd[w], "clientError") /\ Goto(w, "relayWrite", "closeHost")
                       /\ UNCHANGED <<daemon, cached, local>>

RelayWriteGoesOn(w) == /\ \/ Works(connfd[w]) \/ Cut(connfd[w], "clientError")
                          \/ Fails(connfd[w], "clientError")
                       /\ Goto(w, "relayWrite", "relay")
                       /\ UNCHANGED <<daemon, cached, local>>

RelayWriteStores(w) == /\ \/ Works(connfd[w]) /\ Goto(w, "relayWrite", "relay")
                          \/ Fails(connfd[w], "clientError") /\ Goto(w, "relayWrite", "store")
                       /\ UNCHANGED <<daemon, cached, local>>

RelayWrite(w) == /\ \/ Works(connfd[w]) /\ Goto(w, "relayWrite", "relay")
                    \/ /\ Cut(connfd[w], "clientBroken") \/ Fails(connfd[w], "clientError")
                       /\ Goto(w, "relayWrite", "closeHost")
                 /\ UNCHANGED <<daemon, cached, local>>

\* The end of the answer, which may be empty.
RelayEnd(w) == /\ Works(hostfd[w]) /\ Learns(w, "whole")
               /\ Goto(w, "relay", "store")
               /\ UNCHANGED <<daemon, cached, connfd, serving, source, hostfd, tag, lines>>

\* Mutant: the loop goes on after a read error (!= 0 for > 0).
RelayRetries(w) == /\ Goto(w, "relay", "relay")
                   /\ Fails(hostfd[w], "hostError")
                   /\ UNCHANGED <<daemon, cached, local>>

\* A read error ends the loop too: its body, which tests for one, is not run.
RelayFails(w) == /\ Goto(w, "relay", "store")
                 /\ Cut(hostfd[w], "hostReset") \/ Fails(hostfd[w], "hostError")
                 /\ Learns(w, "error")
                 /\ UNCHANGED <<daemon, cached, connfd, serving, source, hostfd, tag, lines>>

WriteCache(w) == /\ Goto(w, "store", "closeHost")
                 /\ cached' = IF lines[w] <= StoreLimit
                              THEN cached \cup {[tag |-> tag[w], answer |-> answer[w]]}
                              ELSE cached
                 /\ UNCHANGED <<open, daemon, local, failed>>

CloseHost(w) == /\ Goto(w, "closeHost", "close")
                /\ Shut(hostfd[w])
                /\ hostfd' = [hostfd EXCEPT ![w] = NoFd]
                /\ UNCHANGED <<daemon, cached, connfd, serving, source, tag, lines, answer, failed>>

\* Mutant: no Close(connfd).
CloseNothing(w) == /\ Goto(w, "close", "remove")
                   /\ connfd' = [connfd EXCEPT ![w] = NoFd]
                   /\ serving' = [serving EXCEPT ![w] = 0]
                   /\ source' = [source EXCEPT ![w] = Nobody]
                   /\ UNCHANGED <<open, daemon, cached, hostfd, tag, lines, answer, failed>>

\* Back in thread: Close(connfd), whatever do_proxy has done to it.
CloseConn(w) == /\ Goto(w, "close", "remove")
                /\ Shut(connfd[w])
                /\ connfd' = [connfd EXCEPT ![w] = NoFd]
                /\ serving' = [serving EXCEPT ![w] = 0]
                /\ source' = [source EXCEPT ![w] = Nobody]
                /\ tag' = [tag EXCEPT ![w] = NoTag]
                /\ lines' = [lines EXCEPT ![w] = 0]
                /\ answer' = [answer EXCEPT ![w] = "part"]
                /\ UNCHANGED <<daemon, cached, hostfd, failed>>

---------------------------------------------------------------------------
DoProxy(w) == \/ \E t \in Tags : ReadRequest(w, t)
              \/ RejectRequest(w) \/ ErrorReply(w)
              \/ ReadHeaders(w) \/ HeadersEnd(w) \/ HeadersOverflow(w) \/ ReadFails(w)
              \/ ReadCacheHit(w) \/ ReplyFromCache(w) \/ ReadCacheMiss(w)
              \/ Socket(w) \/ Connect(w) \/ SendRequest(w)
              \/ RelayRead(w) \/ RelayWrite(w) \/ RelayEnd(w) \/ RelayFails(w)
              \/ WriteCache(w) \/ CloseHost(w) \/ CloseConn(w)

\* The bound is reached: main blocks in accept, and no worker has a request
\* to go on with; or the process is gone.
Quiet == /\ \/ ~Alive
            \/ /\ conns = MaxConns /\ accepting = <<>>
               /\ \A w \in Workers : pc[w] \in {"remove", "stuck"}
               /\ queue = <<>> \/ \A w \in Workers : pc[w] = "stuck"
         /\ UNCHANGED vars

Next == \/ Accept \/ SbufInsert
        \/ \E w \in Workers : SbufRemove(w) \/ DoProxy(w)
        \/ Quiet

Spec == Init /\ [][Next]_vars

\* Threads keep running, peers answer or fail; nobody has to connect.
FairSpec == Spec /\ WF_vars(SbufInsert) /\ \A w \in Workers : WF_vars(SbufRemove(w) \/ DoProxy(w))

---------------------------------------------------------------------------
(* Safety *)

Points == {"remove", "request", "errorReply", "headers", "stuck", "dead", "lookup", "hit", "socket", "connect",
           "send", "relay", "relayWrite", "store", "closeHost", "close"}

Answers == {"part", "whole", "error", "taken"}
Numbers == Fds \cup {NoFd}
Handed == [fd : Numbers, conn : 0 .. MaxConns]

TypeOK == /\ open \in [Fds -> Connections \cup {Free}]
          /\ queue \in Seq(Handed) /\ Len(queue) <= SbufSize
          /\ accepting \in Seq(Handed) /\ Len(accepting) <= 1 /\ conns \in 0 .. MaxConns
          /\ cached \subseteq [tag : Tags, answer : Answers]
          /\ pc \in [Workers -> Points]
          /\ connfd \in [Workers -> Numbers] /\ hostfd \in [Workers -> Numbers]
          /\ serving \in [Workers -> 0 .. MaxConns] /\ source \in [Workers -> Connections \cup {Nobody}]
          /\ tag \in [Workers -> Tags \cup {NoTag}]
          /\ lines \in [Workers -> 0 .. 4 + MaxLines] /\ answer \in [Workers -> Answers]
          /\ failed \subseteq {"severed", "host", "hostUnknown", "clientEof"}

Waiting == {queue[i] : i \in 1 .. Len(queue)} \cup {accepting[i] : i \in 1 .. Len(accepting)}

\* Whoever holds a descriptor holds the connection it was given it for: it
\* was neither closed by somebody else nor handed out again meanwhile, until
\* an error at which the wrappers close it.
OwnDescriptors ==
    "severed" \notin failed =>
        /\ \A handed \in Waiting : handed.fd # NoFd => open[handed.fd] = Client(handed.conn)
        /\ \A w \in Workers : connfd[w] # NoFd => open[connfd[w]] = Client(serving[w])
        /\ \A w \in Workers : hostfd[w] # NoFd => open[hostfd[w]] = Origin(serving[w])

\* Whatever goes wrong, a descriptor that is open is in somebody's hands, who
\* will close it; only open_clientfd_r, for a name getaddrinfo does not know,
\* forgets its socket.
NoDescriptorLeak ==
    \A f \in Fds : open[f] # Free =>
        \/ \E handed \in Waiting : handed.fd = f
        \/ \E w \in Workers : f \in {connfd[w], hostfd[w]}
        \/ "hostUnknown" \in failed /\ open[f] \in {Origin(c) : c \in 0 .. MaxConns}

\* Every variable within its type, and every descriptor accounted for.
DescriptorsAccounted == TypeOK /\ NoDescriptorLeak

\* What a worker is about to send goes to the client that asked for it
\* ("get data from host and send it back to client", proxy.c:14-15).
ResponsesReachTheirClient ==
    \A w \in Workers : pc[w] \in {"hit", "relayWrite"} /\ Live(connfd[w]) => open[connfd[w]] = source[w]

\* That holds through every failure after which a descriptor is closed once.
ResponsesAreNotCrossed == "severed" \notin failed => ResponsesReachTheirClient

\* Whatever the clients do, and whatever happens to other workers' requests,
\* an answer whose own server is well is cached, and so handed to later
\* clients, only when it has been read to its end: what is cut short was cut
\* short by an error on the connection to that server, or by somebody who had
\* closed its descriptor in place of his own.
CachedWhole == \A object \in cached : \/ object.answer \in {"whole", "error"}
                                      \/ object.answer = "taken" /\ "severed" \in failed

\* After an error on the connection to the server nothing is cached (proxy.c:168
\* "return on read error").  It is: the error ends the loop whose body tests
\* for it, and write_cache follows.
ReadErrorsNotCached == \A object \in cached : object.answer # "error"

---------------------------------------------------------------------------
(* Liveness *)

\* A client that has been accepted is let go of: its connection is closed,
\* unless a worker is caught in the header loop.
ClientsServed ==
    \A c \in 1 .. MaxConns : conns >= c ~> (\A f \in Fds : open[f] # Client(c)) \/ "clientEof" \in failed

\* A worker comes back for another connection: "pthread of pool will
\* continuosly remove a fd from sbuf and do the proxy job" (proxy.c:10-11),
\* unless a client has closed within its headers.
WorkersReturn == \A w \in Workers : pc[w] # "remove" ~> pc[w] = "remove" \/ "clientEof" \in failed

=============================================================================
