----------------------------- MODULE ClientConn -----------------------------
(***************************************************************************)
(* The connecting side: the main thread (ClientSocket with its mailbox and *)
(* agents), its io threads (ClientSocketIOThread) and the sockets they own *)
(* (ClientIOSocket), one for each server, which is connected anew, by a    *)
(* timer, whenever its connection has failed or ended.                     *)
(*                                                                         *)
(* No descriptor and no bufferevent of a connection is ever given back, so *)
(* that the kernel numbers the connections of the process, and a           *)
(* connection is named by its descriptor.  A package on the wire has two   *)
(* parts, so that a connection can end between them; recv (see Framing)    *)
(* hands up pairs of parts.  A part is <<descriptor, number>>.             *)
(***************************************************************************)
EXTENDS Integers, Sequences

CONSTANTS
    Servers,        \* the servers the application connects to
    IOThreads,      \* number of io threads
    PairDealCount,  \* _nPairDealCount
    BufferSize,     \* MAX_BUFFER_SIZE in units of one request
    FdLimit,        \* descriptors that the process can have
    Env,            \* what the environment may do, see Faults
    MaxSent,        \* bound: packages a server sends on one connection
    MaxReq          \* bound: requests the application makes on one connection

\* "cut": a connection breaks off with data still unread, so that only one part
\* of a package may have come;  "no_bev": no memory for a bufferevent.
Faults == {"cut", "no_bev"}

ASSUME ClientConnAssumption ==
    /\ IOThreads \in Nat \ {0}
    /\ PairDealCount \in Nat
    /\ BufferSize \in Nat
    /\ BufferSize > 1
    /\ FdLimit \in Nat
    /\ Env \subseteq Faults
    /\ MaxSent \in Nat
    /\ MaxReq \in Nat

Threads == 0..IOThreads - 1
Fds == 1..FdLimit
Parts == 1..2 * MaxSent
Requests == 1..MaxReq

\* What socket() == -1 and the -1 of the constructor become: not a descriptor.
BadFd == 0

\* _pBev before the first connection, and where there was no memory for one.
NotSet == -1
NoBev == 0

VARIABLES
    \* The kernel and the servers
    conn,           \* conn[fd]: the connection, see Attempt
    \* Main thread
    currentThread,  \* _nCurrentThread
    requested,      \* the servers that the application has asked for
    mainList,       \* ClientSocket::_listPackList
    mapAgents,      \* _mapAgents: an agent is named by the server of its socket
    \* Io threads
    ioList,         \* ioList[t]: ClientSocketIOThread::_listPackList
    ioDeal,         \* 0: outside pairCallback, else its dealCount + 1
    needSendList,   \* needSendList[t]: pairCallback's local of that name
    sock,           \* sock[s]: the ClientIOSocket of s, see Made
    \* History
    session,        \* session[s]: what the application was told of s
    asked           \* asked[fd]: number of requests made while fd's agent was in use

mainVars == <<currentThread, requested, mapAgents, session, asked>>
batchVars == <<ioList, ioDeal, needSendList>>
vars == <<conn, mainVars, mainList, batchVars, sock>>

\* The socket of a server before and after its constructor.  bev is the
\* connection whose bufferevent _pBev is, timer whether _pReConnEvent is set.
Made(t) ==
    [thread |-> t, fd |-> BadFd, bev |-> NotSet, timer |-> FALSE,
     recvBuf |-> <<>>, sendBuf |-> <<>>]
Unmade == [Made(0) EXCEPT !.thread = -1]

\* The connection that an attempt gets: what the server's end is, whether a
\* bufferevent reports what comes (reading), and whether something may still be
\* unwritten.  sent and read are numbers of parts; out is history, the requests
\* handed to the bufferevent.
Attempt(s, peer, reading) ==
    [server |-> s, peer |-> peer, sent |-> 0, read |-> 0, reading |-> reading,
     writing |-> "idle", out |-> <<>>]

Init ==
    /\ conn = <<>>
    /\ currentThread = 0
    /\ requested = {}
    /\ mainList = <<>>
    /\ mapAgents = <<>>
    /\ ioList = [t \in Threads |-> <<>>]
    /\ ioDeal = [t \in Threads |-> 0]
    /\ needSendList = [t \in Threads |-> {}]
    /\ sock = [s \in Servers |-> Unmade]
    /\ session = [s \in Servers |-> [link |-> "down", conn |-> 0, last |-> 0]]
    /\ asked = [fd \in Fds |-> 0]

\* A package about server s; buf is empty where the command has none.
Package(cmd, s, buf) == [cmd |-> cmd, server |-> s, buf |-> buf]

ToMain(p) == mainList' = Append(mainList, p)
ToIO(t, p) == ioList' = [ioList EXCEPT ![t] = Append(@, p)]

-----------------------------------------------------------------------------
(* The application and the main thread *)

\* The application connects to a server.  The cursor moves on when the
\* notification was written, which a full socket pair does not take; the
\* package is in the queue in either case.
Connect(s) ==
    /\ s \notin requested
    /\ requested' = requested \cup {s}
    /\ ToIO(currentThread, Package("connect", s, <<>>))
    /\ \E ret \in {1, -1} :
           currentThread' = IF ret # 1 THEN currentThread
                            ELSE (currentThread + 1) % IOThreads
    /\ UNCHANGED <<conn, mainList, mapAgents, session, asked, ioDeal, needSendList, sock>>

\* The application sends a request, or a heartbeat, by the agent of fd.
Send(fd) ==
    /\ fd \in DOMAIN mapAgents
    /\ asked[fd] < MaxReq
    /\ asked' = [asked EXCEPT ![fd] = @ + 1]
    /\ LET s == mapAgents[fd]
       IN  ToIO(sock[s].thread, Package("send_buf", s, <<fd, asked'[fd]>>))
    /\ UNCHANGED <<conn, currentThread, requested, mainList, mapAgents, session,
                   ioDeal, needSendList, sock>>

\* getAgent(socket) and the agent it returns: looked up by the descriptor that
\* the socket has now.
FdOf(s) == sock[s].fd
HasAgent(s) == FdOf(s) \in DOMAIN mapAgents
Agent(s) == mapAgents[FdOf(s)]

\* deleteAgent, of the agent whose socket is that of s.
deleteAgent(s) == [fd \in DOMAIN mapAgents \ {FdOf(s)} |-> mapAgents[fd]]

\* pairCallback takes a package about s.
MainTakes(cmd, s) ==
    /\ mainList # <<>>
    /\ Head(mainList).cmd = cmd
    /\ Head(mainList).server = s
    /\ mainList' = Tail(mainList)
    /\ UNCHANGED <<conn, currentThread, requested, asked, batchVars, sock>>

\* connect_end: a new agent, unless there is one for this descriptor.
MainConnectEnd(s) ==
    /\ MainTakes("connect_end", s)
    /\ IF HasAgent(s) THEN UNCHANGED <<mapAgents, session>>
       ELSE /\ mapAgents' = [fd \in DOMAIN mapAgents \cup {FdOf(s)} |->
                                 IF fd = FdOf(s) THEN s ELSE mapAgents[fd]]
            /\ session' = [session EXCEPT ![s] =
                              [link |-> "up", conn |-> FdOf(s), last |-> 0]]

\* recv_buf: onServerRecive, or a line in the log.
MainRecv(s) ==
    /\ MainTakes("recv_buf", s)
    /\ IF HasAgent(s)
       THEN session' = [session EXCEPT ![Agent(s)].last = Head(mainList).buf[2][2]]
       ELSE UNCHANGED session
    /\ UNCHANGED mapAgents

\* Mutant: the agent is not deleted.
MainCloseKeepsAgent(s) ==
    /\ MainTakes("close", s)
    /\ IF HasAgent(s)
       THEN session' = [session EXCEPT ![Agent(s)].link = "down"]
       ELSE UNCHANGED session
    /\ UNCHANGED mapAgents

\* Mutant: the application is not told.
MainCloseUntold(s) ==
    /\ MainTakes("close", s)
    /\ IF HasAgent(s)
       THEN mapAgents' = deleteAgent(Agent(s))
       ELSE UNCHANGED mapAgents
    /\ UNCHANGED session

\* close: onServerClose and deleteAgent, or a line in the log.
MainClose(s) ==
    /\ MainTakes("close", s)
    /\ IF HasAgent(s)
       THEN /\ session' = [session EXCEPT ![Agent(s)].link = "down"]
            /\ mapAgents' = deleteAgent(Agent(s))
       ELSE UNCHANGED <<mapAgents, session>>

-----------------------------------------------------------------------------
(* toConnect, called for the socket o of server s *)

\* The connection is made: main gets to know.
ToConnectDone(s, o) ==
    /\ Len(conn) < FdLimit
    /\ conn' = Append(conn, Attempt(s, "open", TRUE))
    /\ sock' = [sock EXCEPT ![s] = [o EXCEPT !.fd = Len(conn'), !.bev = Len(conn')]]
    /\ ToMain(Package("connect_end", s, <<>>))

\* Mutant: no timer is set when a connection is refused.
ToConnectGivesUp(s, o) ==
    /\ Len(conn) < FdLimit
    /\ conn' = Append(conn, Attempt(s, "closed", FALSE))
    /\ sock' = [sock EXCEPT ![s] = [o EXCEPT !.fd = Len(conn')]]
    /\ ToMain(Package("close", s, <<>>))

\* The connection is refused, or cannot be made non-blocking: main gets a
\* close, the timer is set, the descriptor stays open.
ToConnectRefused(s, o) ==
    /\ Len(conn) < FdLimit
    /\ conn' = Append(conn, Attempt(s, "closed", FALSE))
    /\ sock' = [sock EXCEPT ![s] = [o EXCEPT !.fd = Len(conn'), !.timer = TRUE]]
    /\ ToMain(Package("close", s, <<>>))

\* There is no descriptor left.  The test for it does not see the -1, and
\* connect() fails.
ToConnectNoFd(s, o) ==
    /\ Len(conn) = FdLimit
    /\ sock' = [sock EXCEPT ![s] = [o EXCEPT !.fd = BadFd, !.timer = TRUE]]
    /\ ToMain(Package("close", s, <<>>))
    /\ UNCHANGED conn

\* There is no bufferevent: nobody is told and no timer is set.
ToConnectNoBev(s, o) ==
    /\ "no_bev" \in Env
    /\ Len(conn) < FdLimit
    /\ conn' = Append(conn, Attempt(s, "open", FALSE))
    /\ sock' = [sock EXCEPT ![s] = [o EXCEPT !.fd = Len(conn'), !.bev = NoBev]]
    /\ UNCHANGED mainList

ToConnect(s, o) ==
    \/ ToConnectDone(s, o)
    \/ ToConnectRefused(s, o)
    \/ ToConnectNoFd(s, o)
    \/ ToConnectNoBev(s, o)

-----------------------------------------------------------------------------
(* An io thread *)

\* pairCallback begins.
IOWake(t) ==
    /\ ioDeal[t] = 0
    /\ ioList[t] # <<>>
    /\ ioDeal' = [ioDeal EXCEPT ![t] = 1]
    /\ UNCHANGED <<conn, mainVars, mainList, ioList, needSendList, sock>>

\* (dealCount++) <= _nPairDealCount
MayDeal(t) == ioDeal[t] - 1 <= PairDealCount

IOTakes(t, cmd) ==
    /\ ioDeal[t] > 0
    /\ MayDeal(t)
    /\ ioList[t] # <<>>
    /\ Head(ioList[t]).cmd = cmd
    /\ ioList' = [ioList EXCEPT ![t] = Tail(@)]
    /\ ioDeal' = [ioDeal EXCEPT ![t] = @ + 1]
    /\ UNCHANGED mainVars

\* connect: a new socket, which connects at once.
IOConnect(t) ==
    /\ IOTakes(t, "connect")
    /\ ToConnect(Head(ioList[t]).server, Made(t))
    /\ UNCHANGED needSendList

\* toSend: bufferevent_write to _pBev.
Written(c, buf) ==
    [c EXCEPT !.out = @ \o buf,
              !.writing = IF @ = "failed" THEN @ ELSE "pending"]

\* Whether expandSendBuf returns true.
canExpand(s) == ~(1 + Len(sock[s].sendBuf) >= BufferSize)

\* Mutant: the socket is not listed.
IOSendUnlisted(t) ==
    /\ IOTakes(t, "send_buf")
    /\ LET s == Head(ioList[t]).server
       IN  /\ sock' = [sock EXCEPT ![s].sendBuf = Append(@, Head(ioList[t]).buf)]
           /\ UNCHANGED <<conn, needSendList>>
    /\ UNCHANGED mainList

\* Mutant: a request that finds the buffer full is written before the buffer.
IOSendOvertakes(t) ==
    /\ IOTakes(t, "send_buf")
    /\ LET p == Head(ioList[t])
           s == p.server
       IN  IF canExpand(s)
           THEN /\ sock' = [sock EXCEPT ![s].sendBuf = Append(@, p.buf)]
                /\ needSendList' = [needSendList EXCEPT ![t] = @ \cup {s}]
                /\ UNCHANGED conn
           ELSE /\ conn' = [conn EXCEPT ![sock[s].bev] = Written(@, <<p.buf>>)]
                /\ UNCHANGED <<sock, needSendList>>
    /\ UNCHANGED mainList

\* send_buf: into the send buffer, which is written out first when it is full.
IOSend(t) ==
    /\ IOTakes(t, "send_buf")
    /\ LET p == Head(ioList[t])
           s == p.server
       IN  IF canExpand(s)
           THEN /\ sock' = [sock EXCEPT ![s].sendBuf = Append(@, p.buf)]
                /\ needSendList' = [needSendList EXCEPT ![t] = @ \cup {s}]
                /\ UNCHANGED conn
           ELSE /\ conn' = [conn EXCEPT ![sock[s].bev] = Written(@, sock[s].sendBuf)]
                /\ sock' = [sock EXCEPT ![s].sendBuf = <<p.buf>>]
                /\ UNCHANGED needSendList
    /\ UNCHANGED mainList

\* consumeSendBuf, for each of a set of sockets with something in the buffer.
Flushed(ss) ==
    /\ conn' = [fd \in DOMAIN conn |->
                   LET s == conn[fd].server
                   IN  IF s \in ss /\ sock[s].bev = fd
                       THEN Written(conn[fd], sock[s].sendBuf) ELSE conn[fd]]
    /\ sock' = [s \in Servers |-> IF s \in ss THEN [sock[s] EXCEPT !.sendBuf = <<>>]
                                  ELSE sock[s]]

\* The loop ends, and the buffers of the listed sockets are written out.
IOFlush(t) ==
    /\ ioDeal[t] > 0
    /\ ioList[t] = <<>> \/ ~MayDeal(t)
    /\ Flushed({s \in needSendList[t] : sock[s].sendBuf # <<>>})
    /\ needSendList' = [needSendList EXCEPT ![t] = {}]
    /\ ioDeal' = [ioDeal EXCEPT ![t] = 0]
    /\ UNCHANGED <<mainVars, mainList, ioList>>

-----------------------------------------------------------------------------
(***************************************************************************)
(* What the servers, the kernel and the clock do.  libevent calls the      *)
(* callbacks of a socket from the loop of its thread, outside pairCallback.*)
(***************************************************************************)
Served(s) ==
    /\ sock[s] # Unmade
    /\ ioDeal[sock[s].thread] = 0

About(list, s) == \E i \in DOMAIN list : list[i].server = s

\* Nothing about the last connection of s is under way.  That is assumed when
\* the timer fires: in the five seconds since the end of the connection the
\* threads have come round, and the kernel has ended the other side of the
\* bufferevent, which nobody frees.
Settled(s) ==
    /\ ~About(mainList, s)
    /\ ~About(ioList[sock[s].thread], s)
    /\ sock[s].bev \in DOMAIN conn => ~conn[sock[s].bev].reading

\* reconnectCallback.
Reconnect(s) ==
    /\ Served(s)
    /\ sock[s].timer
    /\ Settled(s)
    /\ ToConnect(s, [sock[s] EXCEPT !.timer = FALSE])
    /\ UNCHANGED <<mainVars, batchVars>>

\* readCallback: recv takes what has arrived and hands up a package when it
\* has both parts.
Read(fd) ==
    /\ fd \in DOMAIN conn
    /\ conn[fd].reading
    /\ LET s == conn[fd].server
       IN  /\ Served(s)
           /\ \E n \in 1..2 :
                  LET parts == sock[s].recvBuf \o [i \in 1..n |-> <<fd, conn[fd].read + i>>]
                  IN  /\ conn[fd].read + n <= conn[fd].sent
                      /\ conn' = [conn EXCEPT ![fd].read = @ + n]
                      /\ IF Len(parts) < 2
                         THEN /\ sock' = [sock EXCEPT ![s].recvBuf = parts]
                              /\ UNCHANGED mainList
                         ELSE /\ sock' = [sock EXCEPT ![s].recvBuf = SubSeq(parts, 3, Len(parts))]
                              /\ ToMain(Package("recv_buf", s, SubSeq(parts, 1, 2)))
    /\ UNCHANGED <<mainVars, batchVars>>

\* How eventCallback takes the end of a connection: a close to main, and the
\* timer is set, or set again.
ReportEnd(s) ==
    /\ ToMain(Package("close", s, <<>>))
    /\ sock' = [sock EXCEPT ![s].timer = TRUE]

\* Mutant: main is not told.
ReadEventSilently(fd) ==
    /\ fd \in DOMAIN conn
    /\ Served(conn[fd].server)
    /\ conn[fd].reading
    /\ conn[fd].peer = "closed"
    /\ conn[fd].read = conn[fd].sent \/ "cut" \in Env
    /\ conn' = [conn EXCEPT ![fd].reading = FALSE]
    /\ sock' = [sock EXCEPT ![conn[fd].server].timer = TRUE]
    /\ UNCHANGED <<mainVars, mainList, batchVars>>

\* eventCallback, end of file or an error on the read side.
ReadEvent(fd) ==
    /\ fd \in DOMAIN conn
    /\ Served(conn[fd].server)
    /\ conn[fd].reading
    /\ conn[fd].peer = "closed"
    /\ conn[fd].read = conn[fd].sent \/ "cut" \in Env
    /\ conn' = [conn EXCEPT ![fd].reading = FALSE]
    /\ ReportEnd(conn[fd].server)
    /\ UNCHANGED <<mainVars, batchVars>>

\* eventCallback, an error on the write side, which leaves the read side on; it
\* comes before the timer fires, too.
WriteEvent(fd) ==
    /\ fd \in DOMAIN conn
    /\ Served(conn[fd].server)
    /\ conn[fd].writing = "pending"
    /\ conn[fd].peer = "closed"
    /\ sock[conn[fd].server].bev = fd
    /\ conn' = [conn EXCEPT ![fd].writing = "failed"]
    /\ ReportEnd(conn[fd].server)
    /\ UNCHANGED <<mainVars, batchVars>>

\* A server sends a package.
ServerSends(fd) ==
    /\ fd \in DOMAIN conn
    /\ conn[fd].peer = "open"
    /\ conn[fd].sent + 2 <= 2 * MaxSent
    /\ conn' = [conn EXCEPT ![fd].sent = @ + 2]
    /\ UNCHANGED <<mainVars, mainList, batchVars, sock>>

ServerCloses(fd) ==
    /\ fd \in DOMAIN conn
    /\ conn[fd].peer = "open"
    /\ conn' = [conn EXCEPT ![fd].peer = "closed"]
    /\ UNCHANGED <<mainVars, mainList, batchVars, sock>>

-----------------------------------------------------------------------------
MainLoop == \E s \in Servers : MainConnectEnd(s) \/ MainRecv(s) \/ MainClose(s)

IOLoop(t) == IOWake(t) \/ IOConnect(t) \/ IOSend(t) \/ IOFlush(t)

Next ==
    \/ \E s \in Servers : Connect(s) \/ Reconnect(s)
    \/ MainLoop
    \/ \E t \in Threads : IOLoop(t)
    \/ \E fd \in Fds :
           \/ Send(fd) \/ Read(fd) \/ ReadEvent(fd) \/ WriteEvent(fd)
           \/ ServerSends(fd) \/ ServerCloses(fd)

Spec == Init /\ [][Next]_vars

\* The event loops keep running, so that timers fire and ends are noticed; the
\* servers and the application do as they like.
FairSpec ==
    /\ Spec
    /\ WF_vars(MainLoop)
    /\ \A t \in Threads : WF_vars(IOLoop(t))
    /\ \A s \in Servers : WF_vars(Reconnect(s))
    /\ \A fd \in Fds : WF_vars(Read(fd) \/ ReadEvent(fd))

-----------------------------------------------------------------------------
ConnType ==
    [server : Servers, peer : {"open", "closed"}, sent : 0..2 * MaxSent,
     read : 0..2 * MaxSent, reading : BOOLEAN,
     writing : {"idle", "pending", "failed"}, out : Seq(Fds \X Requests)]

\* A package is handed up as its two parts.
MainPackage ==
    [cmd : {"connect_end", "close"}, server : Servers, buf : {<<>>}]
    \cup [cmd : {"recv_buf"}, server : Servers,
          buf : (Fds \X Parts) \X (Fds \X Parts)]

IOPackage ==
    [cmd : {"connect"}, server : Servers, buf : {<<>>}]
    \cup [cmd : {"send_buf"}, server : Servers, buf : Fds \X Requests]

SocketType ==
    [thread : Threads \cup {-1}, fd : Fds \cup {BadFd},
     bev : Fds \cup {NotSet, NoBev}, timer : BOOLEAN,
     recvBuf : Seq(Fds \X Parts), sendBuf : Seq(Fds \X Requests)]

SessionType ==
    [link : {"up", "down"}, conn : Fds \cup {0}, last : Parts \cup {0}]

\* The variables have their types.
TypeOK ==
    /\ conn \in Seq(ConnType)
    /\ Len(conn) <= FdLimit
    /\ currentThread \in Threads
    /\ requested \subseteq Servers
    /\ mainList \in Seq(MainPackage)
    /\ DOMAIN mapAgents \subseteq Fds
    /\ \A fd \in DOMAIN mapAgents : mapAgents[fd] \in Servers
    /\ ioList \in [Threads -> Seq(IOPackage)]
    /\ ioDeal \in [Threads -> 0..PairDealCount + 2]
    /\ needSendList \in [Threads -> SUBSET Servers]
    /\ sock \in [Servers -> SocketType]
    /\ session \in [Servers -> SessionType]
    /\ asked \in [Fds -> 0..MaxReq]

\* An agent never outlives its connection in the socket: it is filed under the
\* descriptor that the socket has now, by which main finds it (getAgent).
AgentsFound == \A fd \in DOMAIN mapAgents : FdOf(mapAgents[fd]) = fd

\* What is written to a connection was asked of its own agent, in order, and
\* nothing is left out or written twice.
RequestsOnOwnConnection ==
    \A fd \in DOMAIN conn : \A i \in DOMAIN conn[fd].out : conn[fd].out[i] = <<fd, i>>

\* A request in a send buffer is written at the end of the batch that put it
\* there: its socket is in the needSendList of its own thread, although
\* pairCallback does not list it when it finds the buffer full.
RequestsListed ==
    \A s \in Servers : sock[s].sendBuf # <<>> =>
        LET t == sock[s].thread
        IN  t \in Threads /\ ioDeal[t] > 0 /\ s \in needSendList[t]

\* The end of a connection that the application knows of is never lost: from the
\* event on, its close is in main's list until onServerClose is called.
EndsUnderway ==
    \A s \in Servers : session[s].link = "up" /\ ~conn[session[s].conn].reading =>
        \E i \in 1..Len(mainList) : mainList[i].cmd = "close" /\ mainList[i].server = s

\* "Reconnect automatically": a server that was asked for is waiting to be
\* connected, has a connection that is read from, or has its timer set; only
\* where there was no memory for a bufferevent it is given up.
NoServerForgotten ==
    \A s \in requested :
        \/ \E t \in Threads : \E i \in 1..Len(ioList[t]) :
               ioList[t][i].cmd = "connect" /\ ioList[t][i].server = s
        \/ FdOf(s) # BadFd /\ conn[FdOf(s)].reading
        \/ sock[s].timer
        \/ sock[s].bev = NoBev

\* The application sees what the abstract service promises.
Link == INSTANCE LinkService WITH Conns <- Fds

LinkSpec == Link!Spec

\* The application is told of the end of every connection it was told of.
EveryEndIsReported ==
    \A fd \in Fds :
        (fd \in DOMAIN conn /\ ~conn[fd].reading) ~>
            \A s \in Servers : session[s].conn = fd => session[s].link = "down"

\* A connection that has ended or was refused is followed by another attempt
\* ("reconnect automatically"); only where there was no memory for a
\* bufferevent it is not.
EveryEndIsFollowedUp ==
    \A fd \in Fds :
        (fd \in DOMAIN conn /\ ~conn[fd].reading /\ sock[conn[fd].server].bev # NoBev) ~>
            (fd \in DOMAIN conn => sock[conn[fd].server].fd # fd)

\* What the application asks is written to the bufferevent in the end.
EveryRequestLeaves ==
    \A fd \in Fds :
        (fd \in DOMAIN conn /\ Len(conn[fd].out) < asked[fd]) ~>
            (fd \in DOMAIN conn => Len(conn[fd].out) = asked[fd])
=============================================================================
