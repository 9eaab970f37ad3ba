----------------------------- MODULE ServerConn -----------------------------
(***************************************************************************)
(* The life of the server's connections: the main thread (ServerSocket     *)
(* with its listening socket, its mailbox and its agents, calling Server), *)
(* the io threads (ServerSocketIOThread with its mailbox) and the sockets  *)
(* they own (ServerIOSocket).                                              *)
(*                                                                         *)
(* A connection is accepted by main, handed to an io thread, announced     *)
(* back to main, which makes an AgentClient for it; requests travel from   *)
(* the io thread to main, replies back; a close travels to main first and  *)
(* then to the io thread, which deletes the socket.                        *)
(*                                                                         *)
(* The mailboxes are used as the FIFO channels that ThreadPair implements: *)
(* an owner enters pairCallback when its queue is not empty.               *)
(***************************************************************************)
EXTENDS ServerIOSocket, FiniteSets

CONSTANTS
    IOThreads,      \* number of io threads
    MaxSockets,     \* _nMaxSockets
    PairDealCount,  \* _nPairDealCount
    Fds,            \* the descriptors the kernel can give out
    Env,            \* what the environment may do, see Faults
    MaxConn,        \* bound: connection attempts
    MaxReq          \* bound: requests of one connection

\* "timeout": an idle time limit is configured;  "write_error": a write to a
\* client fails;  "accept_fail": accept() returns -1;  "bev_fail": no memory
\* for a bufferevent;  "ws_close": a websocket client sends a close frame;
\* "short": a client sends a package shorter than a package head.
Faults == {"timeout", "write_error", "accept_fail", "bev_fail", "ws_close", "short"}

\* What accept() == -1 becomes in an unsigned long long.
BadFd == -1

ASSUME ServerConnAssumption ==
    /\ IOThreads \in Nat \ {0}
    /\ MaxSockets \in Nat
    /\ PairDealCount \in Nat
    /\ Fds \subseteq Nat \ {0}
    /\ Env \subseteq Faults
    /\ MaxConn \in Nat
    /\ MaxReq \in Nat

Threads == 1..IOThreads
Sockets == 1..MaxConn
Requests == 1..MaxReq

VARIABLES
    \* The kernel and the clients
    arrived,        \* connection attempts so far
    open,           \* descriptors of accepted connections that are not closed
    sent,           \* sent[s]: requests the client of s has sent
    \* Main thread
    nCurrentThread, \* _nCurrentThread: the io thread that is next
    mainList,       \* ServerSocket::_listPackList
    mainDeal,       \* 0: outside pairCallback, else its dealCount + 1
    mapAgents,      \* _mapAgents: an agent is named by its socket
    nNowSocketCount,
    nSocketCount,   \* Server::_nSocketCount
    \* Io threads
    ioList,         \* ioList[t]: ServerSocketIOThread::_listPackList
    ioDeal,         \* as mainDeal
    needSendList,   \* needSendList[t]: pairCallback's local of that name
    nSockets,       \* ServerIOSocket objects made so far
    sock,           \* sock[s]: the object, see module ServerIOSocket
    \* The process and its history
    crashed,        \* a null pointer was followed
    session,        \* session[s]: what the application was told of s
    asked           \* asked[s]: requests of s the application has answered

mainVars == <<nCurrentThread, mainList, mainDeal, mapAgents, nNowSocketCount,
              nSocketCount, session, asked>>
ioVars == <<ioList, ioDeal, needSendList, nSockets, sock>>
envVars == <<arrived, open, sent>>
vars == <<mainVars, ioVars, envVars, crashed>>

Init ==
    /\ arrived = 0
    /\ open = {}
    /\ sent = [s \in Sockets |-> 0]
    /\ nCurrentThread = 1
    /\ mainList = <<>>
    /\ mainDeal = 0
    /\ mapAgents = [f \in {} |-> 0]
    /\ nNowSocketCount = 0
    /\ nSocketCount = 0
    /\ ioList = [t \in Threads |-> <<>>]
    /\ ioDeal = [t \in Threads |-> 0]
    /\ needSendList = [t \in Threads |-> {}]
    /\ nSockets = 0
    /\ sock = [s \in Sockets |-> Unused]
    /\ crashed = FALSE
    /\ session = [s \in Sockets |-> "none"]
    /\ asked = [s \in Sockets |-> <<>>]

-----------------------------------------------------------------------------
(***************************************************************************)
(* The mailboxes                                                           *)
(***************************************************************************)
\* threadPackage; the fields a command does not use are 0 and "none".
Package(c, f, s, r, k) == [cmd |-> c, fd |-> f, socket |-> s, req |-> r, kind |-> k]
OnSocket(c, s) == Package(c, 0, s, 0, "none")

\* ServerSocket::asynAccept, asynRecive and asynClose push for main,
\* ServerSocketIOThread::asynAccept, asynSend and asynClose for thread t.
ToMain(p) == mainList' = Append(mainList, p)
ToIO(t, p) == ioList' = [ioList EXCEPT ![t] = Append(@, p)]

\* while ((dealCount++) <= _nPairDealCount)
MayDeal(deal) == deal > 0 /\ deal - 1 <= PairDealCount

-----------------------------------------------------------------------------
(***************************************************************************)
(* Main thread                                                             *)
(***************************************************************************)
\* The connection goes to the next io thread, in turn.  The test for a failed
\* accept compares an unsigned value with 0, so that -1 goes on as well.
HandOver(f) ==
    /\ ToIO(nCurrentThread, Package("accept", f, 0, 0, "none"))
    /\ nCurrentThread' = IF nCurrentThread >= IOThreads THEN 1 ELSE nCurrentThread + 1

\* acceptCallback runs between two callbacks of the loop.
AcceptReady ==
    /\ ~crashed
    /\ mainDeal = 0
    /\ arrived < MaxConn
    /\ arrived' = arrived + 1

\* acceptCallback: accept() gives the lowest free descriptor.
AcceptConnection ==
    /\ AcceptReady
    /\ nNowSocketCount < MaxSockets
    /\ \E f \in Fds \ open :
           /\ \A g \in Fds \ open : f <= g
           /\ open' = open \cup {f}
           /\ HandOver(f)
    /\ UNCHANGED <<sent, mainList, mainDeal, mapAgents, nNowSocketCount,
                   nSocketCount, session, asked, ioDeal, needSendList, nSockets,
                   sock, crashed>>

\* Mutant: at the limit the new descriptor is forgotten.
AcceptRefusedLeak ==
    /\ AcceptReady
    /\ nNowSocketCount >= MaxSockets
    /\ \E f \in Fds \ open : open' = open \cup {f}
    /\ UNCHANGED <<sent, mainVars, ioVars, crashed>>

\* acceptCallback at the limit: the new descriptor is closed at once.
AcceptRefused ==
    /\ AcceptReady
    /\ nNowSocketCount >= MaxSockets
    /\ UNCHANGED <<open, sent, mainVars, ioVars, crashed>>

\* acceptCallback: accept() fails, and the failure is not seen.
AcceptFailed ==
    /\ "accept_fail" \in Env
    /\ AcceptReady
    /\ nNowSocketCount < MaxSockets
    /\ HandOver(BadFd)
    /\ UNCHANGED <<open, sent, mainList, mainDeal, mapAgents, nNowSocketCount,
                   nSocketCount, session, asked, ioDeal, needSendList, nSockets,
                   sock, crashed>>

MainWake ==
    /\ ~crashed
    /\ mainDeal = 0
    /\ mainList # <<>>
    /\ mainDeal' = 1
    /\ UNCHANGED <<nCurrentThread, mainList, mapAgents, nNowSocketCount,
                   nSocketCount, session, asked, ioVars, envVars, crashed>>

\* The loop of pairCallback takes a package with the command c.
MainTakes(c) ==
    /\ ~crashed
    /\ MayDeal(mainDeal)
    /\ mainList # <<>>
    /\ Head(mainList).cmd = c
    /\ mainList' = Tail(mainList)
    /\ mainDeal' = mainDeal + 1
    /\ UNCHANGED <<nCurrentThread, envVars>>

HasAgent(s) == sock[s].fd \in DOMAIN mapAgents
Agent(s) == mapAgents[sock[s].fd]           \* getAgent

\* Mutant: deleteAgent does not erase the entry of _mapAgents.
ForgetAgentKeepEntry(a) ==
    /\ nSocketCount' = nSocketCount - 1
    /\ session' = [session EXCEPT ![a] = "closed"]
    /\ UNCHANGED mapAgents

\* Mutant: Server::onClientClose does not count.
ForgetAgentUncounted(a) ==
    /\ session' = [session EXCEPT ![a] = "closed"]
    /\ mapAgents' = [f \in DOMAIN mapAgents \ {sock[a].fd} |-> mapAgents[f]]
    /\ UNCHANGED nSocketCount

\* Server::onClientClose(agent) and deleteAgent(agent).
ForgetAgent(a) ==
    /\ nSocketCount' = nSocketCount - 1
    /\ session' = [session EXCEPT ![a] = "closed"]
    /\ mapAgents' = [f \in DOMAIN mapAgents \ {sock[a].fd} |-> mapAgents[f]]

\* pairCallback, accept: an agent for the socket and Server::onAcceptClient.
\* A socket whose descriptor has an agent already is left alone.
MainAccept ==
    /\ MainTakes("accept")
    /\ LET s == Head(mainList).socket
       IN  IF HasAgent(s)
           THEN UNCHANGED <<mapAgents, nNowSocketCount, nSocketCount, session>>
           ELSE /\ nNowSocketCount' = nNowSocketCount + 1
                /\ mapAgents' = [f \in DOMAIN mapAgents \cup {sock[s].fd} |->
                                     IF f = sock[s].fd THEN s ELSE mapAgents[f]]
                /\ nSocketCount' = nSocketCount + 1
                /\ session' = [session EXCEPT ![s] = "open"]
    /\ UNCHANGED <<asked, ioVars, crashed>>

\* pairCallback, recv_buf without an agent: agent->close() on a null pointer.
MainRecvNoAgent ==
    /\ MainTakes("recv_buf")
    /\ ~HasAgent(Head(mainList).socket)
    /\ crashed' = TRUE
    /\ UNCHANGED <<mapAgents, nNowSocketCount, nSocketCount, session, asked, ioVars>>

\* pairCallback, recv_buf: Server::onClientRecive answers a heartbeat through
\* AgentClient::send.
MainRecvHeartbeat ==
    /\ MainTakes("recv_buf")
    /\ LET p == Head(mainList)
           a == Agent(p.socket)
       IN  /\ HasAgent(p.socket)
           /\ p.kind = "heartbeat"
           /\ asked' = [asked EXCEPT ![a] = Append(@, p.req)]
           /\ ToIO(sock[a].thread, Package("send_buf", 0, a, p.req, "none"))
    /\ UNCHANGED <<mapAgents, nNowSocketCount, nSocketCount, session, ioDeal,
                   needSendList, nSockets, sock, crashed>>

\* pairCallback, recv_buf: Server::onClientRecive logs any other package.
MainRecvOther ==
    /\ MainTakes("recv_buf")
    /\ HasAgent(Head(mainList).socket)
    /\ Head(mainList).kind = "other"
    /\ UNCHANGED <<mapAgents, nNowSocketCount, nSocketCount, session, asked, ioVars,
                   crashed>>

\* pairCallback, recv_buf whose head cannot be read: AgentClient::close and
\* closeByLogic, which asks the deleted agent for its socket.  The agent's
\* memory is zeroed by then.
MainRecvShort ==
    /\ MainTakes("recv_buf")
    /\ LET p == Head(mainList)
       IN  /\ HasAgent(p.socket)
           /\ p.kind = "short"
           /\ ForgetAgent(Agent(p.socket))
    /\ nNowSocketCount' = nNowSocketCount - 1
    /\ crashed' = TRUE
    /\ UNCHANGED <<asked, ioVars>>

\* Mutant: the io thread is not told.
MainCloseSilently ==
    /\ MainTakes("close")
    /\ nNowSocketCount' = nNowSocketCount - 1
    /\ LET s == Head(mainList).socket
       IN  IF HasAgent(s)
           THEN ForgetAgent(Agent(s))
           ELSE UNCHANGED <<mapAgents, nSocketCount, session>>
    /\ UNCHANGED <<asked, ioVars, crashed>>

\* pairCallback, close: the count goes down whether there is an agent or not;
\* then the io thread of the socket is told.  A deleted socket has none.
MainClose ==
    /\ MainTakes("close")
    /\ nNowSocketCount' = nNowSocketCount - 1
    /\ LET s == Head(mainList).socket
       IN  /\ IF HasAgent(s)
              THEN ForgetAgent(Agent(s))
              ELSE UNCHANGED <<mapAgents, nSocketCount, session>>
           /\ IF sock[s].thread \in Threads
              THEN ToIO(sock[s].thread, OnSocket("close", s)) /\ UNCHANGED crashed
              ELSE crashed' = TRUE /\ UNCHANGED ioList
    /\ UNCHANGED <<asked, ioDeal, needSendList, nSockets, sock>>

\* The loop ends; what is left in the queue wakes main again.
MainLeave ==
    /\ ~crashed
    /\ mainDeal > 0
    /\ mainList = <<>> \/ ~MayDeal(mainDeal)
    /\ mainDeal' = 0
    /\ UNCHANGED <<nCurrentThread, mainList, mapAgents, nNowSocketCount,
                   nSocketCount, session, asked, ioVars, envVars, crashed>>

-----------------------------------------------------------------------------
(***************************************************************************)
(* Io threads                                                              *)
(***************************************************************************)
IOWake(t) ==
    /\ ~crashed
    /\ ioDeal[t] = 0
    /\ ioList[t] # <<>>
    /\ ioDeal' = [ioDeal EXCEPT ![t] = 1]
    /\ UNCHANGED <<ioList, needSendList, nSockets, sock, mainVars, envVars, crashed>>

IOTakes(t, c) ==
    /\ ~crashed
    /\ MayDeal(ioDeal[t])
    /\ ioList[t] # <<>>
    /\ Head(ioList[t]).cmd = c
    /\ ioList' = [ioList EXCEPT ![t] = Tail(@)]
    /\ ioDeal' = [ioDeal EXCEPT ![t] = @ + 1]
    /\ UNCHANGED <<nCurrentThread, mainDeal, mapAgents, nNowSocketCount,
                   nSocketCount, session, asked, arrived, sent, crashed>>

\* pairCallback, accept: a bufferevent and a ServerIOSocket for the
\* descriptor, announced to main.
IOAccept(t) ==
    /\ IOTakes(t, "accept")
    /\ nSockets < MaxConn
    /\ nSockets' = nSockets + 1
    /\ sock' = [sock EXCEPT ![nSockets'] = Accepted(Head(ioList[t]).fd, t)]
    /\ ToMain(OnSocket("accept", nSockets'))
    /\ UNCHANGED <<open, needSendList>>

\* pairCallback, accept without memory for the bufferevent: the package is
\* dropped, and the descriptor stays open.
IOAcceptFailed(t) ==
    /\ "bev_fail" \in Env
    /\ IOTakes(t, "accept")
    /\ UNCHANGED <<mainList, open, needSendList, nSockets, sock>>

\* Mutant: the socket is not put into needSendList.
IOSendUnlisted(t) ==
    /\ IOTakes(t, "send_buf")
    /\ LET p == Head(ioList[t])
       IN  sock' = [sock EXCEPT ![p.socket] = expandSendBuf(@, p.req)]
    /\ UNCHANGED <<mainList, open, nSockets, needSendList>>

\* Mutant: beside a full buffer the reply is written at once.
IOSendOvertakes(t) ==
    /\ IOTakes(t, "send_buf")
    /\ LET p == Head(ioList[t])
           s == p.socket
       IN  IF canExpand(sock[s])
           THEN /\ sock' = [sock EXCEPT ![s] = expandSendBuf(@, p.req)]
                /\ needSendList' = [needSendList EXCEPT ![t] = @ \cup {s}]
           ELSE /\ sock' = [sock EXCEPT ![s] = toSend(@, <<p.req>>)]
                /\ UNCHANGED needSendList
    /\ UNCHANGED <<mainList, open, nSockets>>

\* pairCallback, send_buf: the reply joins the send buffer; a full buffer is
\* written out first, and its socket is listed already.
IOSend(t) ==
    /\ IOTakes(t, "send_buf")
    /\ LET p == Head(ioList[t])
           s == p.socket
       IN  IF canExpand(sock[s])
           THEN /\ sock' = [sock EXCEPT ![s] = expandSendBuf(@, p.req)]
                /\ needSendList' = [needSendList EXCEPT ![t] = @ \cup {s}]
           ELSE /\ sock' = [sock EXCEPT ![s] =
                                expandSendBuf(consumeSendBuf(@), p.req)]
                /\ UNCHANGED needSendList
    /\ UNCHANGED <<mainList, open, nSockets>>

\* pairCallback, close: toClose frees the bufferevent, which closes the
\* descriptor, and the object is deleted.  On an object that is deleted
\* already there is nothing left to free.
IOClose(t) ==
    /\ IOTakes(t, "close")
    /\ LET s == Head(ioList[t]).socket
       IN  IF sock[s].mem = "live"
           THEN /\ open' = open \ {sock[s].fd}
                /\ sock' = [sock EXCEPT ![s] = Released(@)]
           ELSE UNCHANGED <<open, sock>>
    /\ UNCHANGED <<mainList, needSendList, nSockets>>

\* The loop ends: the buffers of the listed sockets are written out, and what
\* is left in the queue wakes the thread again.
IOFlush(t) ==
    /\ ~crashed
    /\ ioDeal[t] > 0
    /\ ioList[t] = <<>> \/ ~MayDeal(ioDeal[t])
    /\ sock' = [s \in Sockets |-> IF s \in needSendList[t]
                                  THEN consumeSendBuf(sock[s]) ELSE sock[s]]
    /\ needSendList' = [needSendList EXCEPT ![t] = {}]
    /\ ioDeal' = [ioDeal EXCEPT ![t] = 0]
    /\ UNCHANGED <<ioList, nSockets, mainVars, envVars, crashed>>

-----------------------------------------------------------------------------
(***************************************************************************)
(* What the clients and the kernel do to a connection.  libevent calls the *)
(* callbacks of a socket from the loop of its thread, outside pairCallback.*)
(***************************************************************************)
Served(s) ==
    /\ ~crashed
    /\ sock[s].mem = "live"
    /\ ioDeal[sock[s].thread] = 0

Unaffected == UNCHANGED <<nCurrentThread, mainDeal, mapAgents, nNowSocketCount,
                          nSocketCount, session, asked, ioList, ioDeal,
                          needSendList, nSockets, arrived, open, crashed>>

Kinds == {"heartbeat", "other"} \cup (Env \cap {"short"})

\* readCallback and recv: one complete package goes up; in any other status
\* than connected recv returns at once.
Read(s) ==
    /\ Served(s)
    /\ sock[s].reading
    /\ sock[s].fd # BadFd
    /\ sent[s] < MaxReq
    /\ sent' = [sent EXCEPT ![s] = @ + 1]
    /\ IF sock[s].status = "connected"
       THEN \E k \in Kinds : ToMain(Package("recv_buf", 0, s, sent'[s], k))
       ELSE UNCHANGED mainList
    /\ UNCHANGED sock
    /\ Unaffected

\* readCallback and removeWebSocketHead: a close frame.
ReadCloseFrame(s) ==
    /\ "ws_close" \in Env
    /\ Served(s)
    /\ sock[s].reading
    /\ sock[s].fd # BadFd
    /\ sock[s].status = "connected"
    /\ sock' = [sock EXCEPT ![s].status = "while_Close"]
    /\ UNCHANGED <<mainList, sent>>
    /\ Unaffected

\* Mutant: the descriptor is closed before main has been asked.
ReadEventFrees(s) ==
    /\ Served(s)
    /\ sock[s].reading
    /\ sock' = [sock EXCEPT ![s].reading = FALSE]
    /\ ToMain(OnSocket("close", s))
    /\ open' = open \ {sock[s].fd}
    /\ UNCHANGED <<mainDeal, mapAgents, nNowSocketCount, nSocketCount, session,
                   asked, nCurrentThread, ioList, ioDeal, needSendList, nSockets,
                   arrived, sent, crashed>>

\* Mutant: the read side stays on and reports its end again.
ReadEventAgain(s) ==
    /\ Served(s)
    /\ sock[s].reading
    /\ ToMain(OnSocket("close", s))
    /\ UNCHANGED <<sent, sock>>
    /\ Unaffected

\* eventCallback for the read side: end of file, error, or an idle client.
\* The invalid descriptor is never readable, only idle.
ReadEvent(s) ==
    /\ Served(s)
    /\ sock[s].reading
    /\ sock[s].fd # BadFd \/ "timeout" \in Env
    /\ sock' = [sock EXCEPT ![s].reading = FALSE]
    /\ ToMain(OnSocket("close", s))
    /\ UNCHANGED sent
    /\ Unaffected

\* eventCallback for the write side.
WriteEvent(s) ==
    /\ "write_error" \in Env
    /\ Served(s)
    /\ sock[s].writing = "pending"
    /\ sock' = [sock EXCEPT ![s].writing = "failed"]
    /\ ToMain(OnSocket("close", s))
    /\ UNCHANGED sent
    /\ Unaffected

-----------------------------------------------------------------------------
MainLoop ==
    \/ MainWake \/ MainAccept \/ MainRecvNoAgent \/ MainRecvHeartbeat
    \/ MainRecvOther \/ MainRecvShort \/ MainClose \/ MainLeave

IOLoop(t) ==
    \/ IOWake(t) \/ IOAccept(t) \/ IOAcceptFailed(t) \/ IOSend(t)
    \/ IOClose(t) \/ IOFlush(t)

Next ==
    \/ AcceptConnection \/ AcceptRefused \/ AcceptFailed
    \/ MainLoop
    \/ \E t \in Threads : IOLoop(t)
    \/ \E s \in Sockets :
           Read(s) \/ ReadCloseFrame(s) \/ ReadEvent(s) \/ WriteEvent(s)

Spec == Init /\ [][Next]_vars

\* Every event loop keeps running; the clients do as they like.
FairSpec == Spec /\ WF_vars(MainLoop) /\ \A t \in Threads : WF_vars(IOLoop(t))

-----------------------------------------------------------------------------
(***************************************************************************)
(* Properties                                                              *)
(***************************************************************************)
Packages(list) == {list[i] : i \in DOMAIN list}
Live(s) == sock[s].mem = "live"
IsClose(p, s) == p.cmd = "close" /\ p.socket = s
Closing(s) ==
    \E t \in Threads : \E i \in 1..Len(ioList[t]) : IsClose(ioList[t][i], s)

MainPackage ==
    [cmd : {"accept", "close"}, fd : {0}, socket : Sockets, req : {0},
     kind : {"none"}]
    \cup [cmd : {"recv_buf"}, fd : {0}, socket : Sockets, req : Requests,
          kind : {"heartbeat", "other", "short"}]

IOPackage ==
    [cmd : {"accept"}, fd : Fds \cup {BadFd}, socket : {0}, req : {0},
     kind : {"none"}]
    \cup [cmd : {"send_buf"}, fd : {0}, socket : Sockets, req : Requests,
          kind : {"none"}]
    \cup [cmd : {"close"}, fd : {0}, socket : Sockets, req : {0}, kind : {"none"}]

SocketType ==
    [mem : {"unused", "live", "freed"}, fd : Fds \cup {0, BadFd},
     thread : Threads \cup {0}, status : Status, sendBuf : Seq(Requests),
     out : Seq(Requests), reading : BOOLEAN, writing : Writing]

\* The variables have their types.
TypeOK ==
    /\ arrived \in 0..MaxConn
    /\ open \subseteq Fds
    /\ sent \in [Sockets -> 0..MaxReq]
    /\ nCurrentThread \in Threads
    /\ mainList \in Seq(MainPackage)
    /\ mainDeal \in 0..(PairDealCount + 2)
    /\ DOMAIN mapAgents \subseteq Fds \cup {0, BadFd}
    /\ mapAgents \in [DOMAIN mapAgents -> Sockets]
    /\ nNowSocketCount \in Int
    /\ nSocketCount \in Int
    /\ ioList \in [Threads -> Seq(IOPackage)]
    /\ ioDeal \in [Threads -> 0..(PairDealCount + 2)]
    /\ needSendList \in [Threads -> SUBSET Sockets]
    /\ nSockets \in 0..MaxConn
    /\ sock \in [Sockets -> SocketType]
    /\ crashed \in BOOLEAN
    /\ session \in [Sockets -> {"none", "open", "closed"}]
    /\ asked \in [Sockets -> Seq(Requests)]

\* An agent never outlives its socket: the socket of every agent in _mapAgents
\* is allocated, has the descriptor the agent is filed under, and its io thread
\* has not been told to delete it (ServerSocket.cpp pairCallback and
\* deleteAgent, ServerSocketIOThread.cpp pairCallback).
AgentsLive ==
    \A f \in DOMAIN mapAgents :
        LET s == mapAgents[f]
        IN  Live(s) /\ sock[s].fd = f /\ ~Closing(s)

\* A reply never reaches a deleted socket, nor a thread that does not own the
\* socket: no close of the socket is ahead of it in the list.
SendTargetsLive ==
    \A t \in Threads : \A i \in 1..Len(ioList[t]) :
        ioList[t][i].cmd = "send_buf" =>
            LET s == ioList[t][i].socket
            IN  /\ Live(s)
                /\ sock[s].thread = t
                /\ \A j \in 1..(i - 1) : ~IsClose(ioList[t][j], s)

\* A reply in a send buffer is written at the end of the batch that put it
\* there: its socket is in the needSendList of its own thread, although
\* pairCallback does not list it when it finds the buffer full.
RepliesListed ==
    \A s \in Sockets : hadSendBufData(sock[s]) =>
        LET t == sock[s].thread
        IN  t \in Threads /\ ioDeal[t] > 0 /\ s \in needSendList[t]

\* The end of a connection is never lost between the threads: from the event
\* that reports it (eventCallback) to the deletion of the socket, its close is
\* in main's list or in that of an io thread.
ClosesUnderway ==
    \A s \in Sockets : (Live(s) /\ (~sock[s].reading \/ sock[s].writing = "failed")) =>
        Closing(s) \/ \E i \in 1..Len(mainList) : IsClose(mainList[i], s)

\* getAgent looks an agent up by descriptor, and descriptors are used again;
\* still a request is only ever given to the agent of the socket it was read
\* from.
RequestsToOwnAgent ==
    (mainList # <<>> /\ Head(mainList).cmd = "recv_buf") =>
        LET s == Head(mainList).socket
        IN  HasAgent(s) => Agent(s) = s

\* No two sockets share a descriptor and no socket holds a closed one, the
\* invalid descriptor apart: bufferevent_free closes the number it was given,
\* whoever owns it by then.
FdsOwned ==
    \A s \in Sockets : (Live(s) /\ sock[s].fd # BadFd) =>
        /\ sock[s].fd \in open
        /\ \A r \in Sockets \ {s} : Live(r) => sock[r].fd # sock[s].fd

\* Every open descriptor has an owner: a package on its way to an io thread,
\* or a socket.
NoFdLeak ==
    open = ({p.fd : p \in {q \in UNION {Packages(ioList[t]) : t \in Threads} :
                               q.cmd = "accept"}}
            \cup {sock[s].fd : s \in {r \in Sockets : Live(r)}}) \ {BadFd}

\* _nNowSocketCount is what its comment says, the number of clients, and so is
\* the application's own count (Server::onAcceptClient and onClientClose).
CountsExact ==
    /\ nNowSocketCount = Cardinality(DOMAIN mapAgents)
    /\ nSocketCount = Cardinality(DOMAIN mapAgents)

\* No package names a deleted socket.
NoStalePackage ==
    \A p \in Packages(mainList) \cup UNION {Packages(ioList[t]) : t \in Threads} :
        p.socket # 0 => Live(p.socket)

\* The comment on ServerSocket::asynClose: when main is notified of a close,
\* the lower layer has done no closing or cleaning yet.
CloseFindsSocket ==
    (mainList # <<>> /\ Head(mainList).cmd = "close") => Live(Head(mainList).socket)

\* The connections behave as the abstract service says: callbacks in order,
\* once each, and replies a prefix of what the application answered.
Service == INSTANCE EchoService WITH
    Connections <- Sockets, answered <- [s \in Sockets |-> sock[s].out]

ServiceSpec == Service!Spec

\* A connection whose client is gone is given back: its socket is deleted.
EveryCloseCompletes ==
    \A s \in Sockets : (Live(s) /\ ~sock[s].reading) ~> (sock[s].mem = "freed")

\* A reply the application gave is written out, unless the connection ends.
EveryReplyLeaves ==
    \A s \in Sockets, r \in Requests :
        (r \in Packages(asked[s])) ~>
            (r \in Packages(sock[s].out) \/ sock[s].mem = "freed")
=============================================================================
