-------------------------- MODULE ServerConn_proofs --------------------------
(***************************************************************************)
(* What holds of the server's connections for every number of io threads,    *)
(* connections, requests and descriptors, every limit and every              *)
(* environment: the types, that an agent never outlives its socket, that a   *)
(* reply never reaches a deleted one, and that a descriptor never has two    *)
(* owners; and, where there is memory for every bufferevent, that an open    *)
(* descriptor always has one.                                                *)
(***************************************************************************)
EXTENDS ServerConn, TLAPS

USE ServerConnAssumption, BufferSizeAssumption

(***************************************************************************)
(* Lists and sockets                                                       *)
(***************************************************************************)
\* What a push does to a package list, entry by entry.
LEMMA PushFact ==
    ASSUME NEW S, NEW q \in Seq(S), NEW e \in S
    PROVE  /\ Append(q, e) \in Seq(S)
           /\ Len(Append(q, e)) = Len(q) + 1
           /\ \A i \in 1..Len(q) : Append(q, e)[i] = q[i]
           /\ Append(q, e)[Len(q) + 1] = e
OBVIOUS

\* What a pop does to one.
LEMMA PopFact ==
    ASSUME NEW S, NEW q \in Seq(S), q # <<>>
    PROVE  /\ Tail(q) \in Seq(S)
           /\ Len(q) \in Nat \ {0}
           /\ Len(Tail(q)) = Len(q) - 1
           /\ \A i \in 1..(Len(q) - 1) : Tail(q)[i] = q[i + 1]
           /\ Head(q) = q[1]
           /\ Head(q) \in S
OBVIOUS

\* Two records stand for the same allocated object.
SameObject(r, s) == r.mem = s.mem /\ r.fd = s.fd /\ r.thread = s.thread

\* The operations of ServerIOSocket keep the type of the record, and those on
\* the send buffer keep the object.
LEMMA ToSendFact ==
    ASSUME NEW r \in SocketType, NEW buf \in Seq(Requests)
    PROVE  toSend(r, buf) \in SocketType /\ SameObject(toSend(r, buf), r)
<1>1. r.out \o buf \in Seq(Requests)
  BY DEF SocketType
<1>2. CASE r.status # "connected"
  BY <1>2 DEF toSend, SameObject
<1>3. CASE r.status = "connected"
  <2> DEFINE o == r.out \o buf
             w == IF r.writing = "failed" THEN r.writing ELSE "pending"
  <2>1. w \in Writing
    BY DEF Writing, SocketType
  <2>2. toSend(r, buf) = [r EXCEPT !.out = o, !.writing = w]
    BY <1>3 DEF toSend
  <2> HIDE DEF o, w
  <2>3. o \in Seq(Requests)
    BY <1>1 DEF o
  <2>4. QED
    BY <2>1, <2>2, <2>3 DEF SocketType, SameObject
<1>4. QED
  BY <1>2, <1>3

\* What consumeSendBuf leaves of a socket.
LEMMA ConsumeFact ==
    ASSUME NEW r \in SocketType
    PROVE  consumeSendBuf(r) \in SocketType /\ SameObject(consumeSendBuf(r), r)
<1> DEFINE w == toSend(r, r.sendBuf)
           e == <<>>
<1>1. r.sendBuf \in Seq(Requests)
  BY DEF SocketType
<1>2. w \in SocketType /\ SameObject(w, r)
  BY <1>1, ToSendFact
<1> HIDE DEF w
<1>3. e \in Seq(Requests)
  OBVIOUS
<1> HIDE DEF e
<1>4. [w EXCEPT !.sendBuf = e] \in SocketType
  BY <1>2, <1>3 DEF SocketType
<1>5. SameObject([w EXCEPT !.sendBuf = e], r)
  BY <1>2 DEF SocketType, SameObject
<1>6. QED
  BY <1>4, <1>5 DEF consumeSendBuf, w, e, SameObject

\* What expandSendBuf leaves of one.
LEMMA ExpandFact ==
    ASSUME NEW r \in SocketType, NEW q \in Requests
    PROVE  expandSendBuf(r, q) \in SocketType /\ SameObject(expandSendBuf(r, q), r)
<1> DEFINE b == Append(r.sendBuf, q)
<1>1. b \in Seq(Requests)
  BY DEF SocketType
<1>2. expandSendBuf(r, q) = [r EXCEPT !.sendBuf = b]
  BY DEF expandSendBuf
<1> HIDE DEF b
<1>3. QED
  BY <1>1, <1>2 DEF SocketType, SameObject

\* What a socket is after its constructor.
LEMMA AcceptedFact ==
    ASSUME NEW f \in Fds \cup {BadFd}, NEW t \in Threads
    PROVE  Accepted(f, t) \in SocketType
BY DEF Accepted, SocketType, Status, Writing, Threads

\* What it is after releaseAll.
LEMMA ReleasedFact ==
    ASSUME NEW r \in SocketType
    PROVE  Released(r) \in SocketType
BY DEF Released, SocketType, Status, Writing

-----------------------------------------------------------------------------
(***************************************************************************)
(* Packages                                                                *)
(***************************************************************************)
\* The packages the threads make are of the type of the list they go to.
LEMMA PackageFact ==
    ASSUME NEW s \in Sockets, NEW r \in Requests, NEW f \in Fds \cup {BadFd},
           NEW k \in Kinds
    PROVE  /\ OnSocket("accept", s) \in MainPackage
           /\ OnSocket("close", s) \in MainPackage
           /\ OnSocket("close", s) \in IOPackage
           /\ Package("recv_buf", 0, s, r, k) \in MainPackage
           /\ Package("accept", f, 0, 0, "none") \in IOPackage
           /\ Package("send_buf", 0, s, r, "none") \in IOPackage
BY DEF OnSocket, Package, MainPackage, IOPackage, Kinds

\* The same for the packages that name a socket only.
LEMMA OnSocketFact ==
    ASSUME NEW s \in Sockets
    PROVE  /\ OnSocket("accept", s) \in MainPackage
           /\ OnSocket("close", s) \in MainPackage
           /\ OnSocket("close", s) \in IOPackage
BY DEF OnSocket, Package, MainPackage, IOPackage

\* What main finds at the head of its list.
LEMMA MainTakesFact ==
    ASSUME TypeOK, NEW c, MainTakes(c)
    PROVE  /\ mainList # <<>>
           /\ Head(mainList) \in MainPackage
           /\ Head(mainList).cmd = c
           /\ Head(mainList).socket \in Sockets
           /\ mainList' = Tail(mainList)
           /\ mainList' \in Seq(MainPackage)
           /\ mainDeal' \in 0..(PairDealCount + 2)
           /\ UNCHANGED <<nCurrentThread, arrived, open, sent>>
<1>1. mainList \in Seq(MainPackage) /\ mainList # <<>>
  BY DEF TypeOK, MainTakes
<1>2. Head(mainList) \in MainPackage /\ Tail(mainList) \in Seq(MainPackage)
  BY <1>1, PopFact
<1>3. mainDeal' \in 0..(PairDealCount + 2)
  <2>1. mainDeal \in 0..(PairDealCount + 2)
    BY DEF TypeOK
  <2>2. QED
    BY <2>1 DEF MainTakes, MayDeal
<1>4. Head(mainList).socket \in Sockets
  BY <1>2 DEF MainPackage
<1>5. QED
  BY <1>1, <1>2, <1>3, <1>4 DEF MainTakes, envVars

\* What an io thread finds at the head of its list.
LEMMA IOTakesFact ==
    ASSUME TypeOK, NEW t \in Threads, NEW c, IOTakes(t, c)
    PROVE  /\ ioList[t] \in Seq(IOPackage) /\ ioList[t] # <<>>
           /\ Head(ioList[t]) \in IOPackage
           /\ Head(ioList[t]).cmd = c
           /\ c = "accept" => Head(ioList[t]).fd \in Fds \cup {BadFd}
           /\ c # "accept" => Head(ioList[t]).socket \in Sockets
           /\ c = "send_buf" => Head(ioList[t]).req \in Requests
           /\ ioList' = [ioList EXCEPT ![t] = Tail(@)]
           /\ ioList' \in [Threads -> Seq(IOPackage)]
           /\ ioDeal' \in [Threads -> 0..(PairDealCount + 2)]
           /\ UNCHANGED <<nCurrentThread, mainDeal, mapAgents, nNowSocketCount,
                          nSocketCount, session, asked, arrived, sent, crashed>>
<1>1. ioList[t] \in Seq(IOPackage) /\ ioList[t] # <<>>
  BY DEF TypeOK, IOTakes
<1>2. Head(ioList[t]) \in IOPackage /\ Tail(ioList[t]) \in Seq(IOPackage)
  BY <1>1, PopFact
<1>3. ioDeal[t] + 1 \in 0..(PairDealCount + 2)
  <2>1. ioDeal[t] \in 0..(PairDealCount + 2)
    BY DEF TypeOK
  <2>2. QED
    BY <2>1 DEF IOTakes, MayDeal
<1>4. ioDeal' \in [Threads -> 0..(PairDealCount + 2)]
  BY <1>3 DEF TypeOK, IOTakes
<1>5. ioList' \in [Threads -> Seq(IOPackage)]
  BY <1>2 DEF TypeOK, IOTakes
<1>6. Head(ioList[t]).cmd = c
  BY DEF IOTakes
<1>7. /\ c = "accept" => Head(ioList[t]).fd \in Fds \cup {BadFd}
      /\ c # "accept" => Head(ioList[t]).socket \in Sockets
      /\ c = "send_buf" => Head(ioList[t]).req \in Requests
  BY <1>2, <1>6 DEF IOPackage
<1>8. QED
  BY <1>1, <1>2, <1>4, <1>5, <1>6, <1>7 DEF IOTakes

\* A push for an io thread keeps the type of the lists.
LEMMA ToIOType ==
    ASSUME TypeOK, NEW t, NEW p \in IOPackage, ToIO(t, p)
    PROVE  ioList' \in [Threads -> Seq(IOPackage)]
<1>1. ioList \in [Threads -> Seq(IOPackage)]
  BY DEF TypeOK
<1>2. \A q \in Seq(IOPackage) : Append(q, p) \in Seq(IOPackage)
  BY PushFact
<1>3. QED
  BY <1>1, <1>2 DEF ToIO

-----------------------------------------------------------------------------
(***************************************************************************)
(* Types                                                                   *)
(***************************************************************************)
\* The connecting side starts with its variables in their types.
LEMMA InitType == Init => TypeOK
<1> SUFFICES ASSUME Init PROVE TypeOK
  OBVIOUS
<1> USE DEF Init
<1>1. /\ arrived \in 0..MaxConn
      /\ open \subseteq Fds
      /\ sent \in [Sockets -> 0..MaxReq]
  OBVIOUS
<1>2. /\ nCurrentThread \in Threads
      /\ mainDeal \in 0..(PairDealCount + 2)
      /\ nNowSocketCount \in Int
      /\ nSocketCount \in Int
      /\ nSockets \in 0..MaxConn
  BY DEF Threads
<1>3. crashed \in BOOLEAN
  OBVIOUS
<1>4. /\ mainList \in Seq(MainPackage)
      /\ ioList \in [Threads -> Seq(IOPackage)]
      /\ ioDeal \in [Threads -> 0..(PairDealCount + 2)]
      /\ needSendList \in [Threads -> SUBSET Sockets]
  OBVIOUS
<1>5. /\ DOMAIN mapAgents \subseteq Fds \cup {0, BadFd}
      /\ mapAgents \in [DOMAIN mapAgents -> Sockets]
  OBVIOUS
<1>6. Unused \in SocketType
  BY DEF Unused, SocketType, Status, Writing
<1>7. /\ sock \in [Sockets -> SocketType]
      /\ session \in [Sockets -> {"none", "open", "closed"}]
      /\ asked \in [Sockets -> Seq(Requests)]
  BY <1>6
<1>8. QED
  BY <1>1, <1>4, <1>5, <1>7, <1>2, <1>3 DEF TypeOK

\* Deleting an agent leaves a well-typed map.
LEMMA ForgetType ==
    ASSUME TypeOK, NEW a, ForgetAgent(a)
    PROVE  /\ DOMAIN mapAgents' \subseteq DOMAIN mapAgents
           /\ mapAgents' \in [DOMAIN mapAgents' -> Sockets]
           /\ nSocketCount' \in Int
           /\ session' \in [Sockets -> {"none", "open", "closed"}]
<1>1. /\ mapAgents \in [DOMAIN mapAgents -> Sockets]
      /\ nSocketCount \in Int
      /\ session \in [Sockets -> {"none", "open", "closed"}]
  BY DEF TypeOK
<1>2. DOMAIN mapAgents' = DOMAIN mapAgents \ {sock[a].fd}
  BY DEF ForgetAgent
<1>3. mapAgents' \in [DOMAIN mapAgents' -> Sockets]
  BY <1>1, <1>2 DEF ForgetAgent
<1>4. nSocketCount' \in Int
  BY <1>1 DEF ForgetAgent
<1>5. session' = [session EXCEPT ![a] = "closed"]
  BY DEF ForgetAgent
<1>6. session' \in [Sockets -> {"none", "open", "closed"}]
  BY <1>1, <1>5
<1>7. DOMAIN mapAgents' \subseteq DOMAIN mapAgents
  BY <1>2
<1>8. QED
  BY <1>3, <1>4, <1>6, <1>7

\* The agent that getAgent finds is one of the sockets.
LEMMA AgentType ==
    ASSUME TypeOK, NEW s, HasAgent(s)
    PROVE  Agent(s) \in Sockets
BY DEF TypeOK, HasAgent, Agent

\* Main keeps the types.
LEMMA MainType == TypeOK /\ MainLoop => TypeOK'
<1> SUFFICES ASSUME TypeOK, MainLoop PROVE TypeOK'
  OBVIOUS
<1> USE DEF ioVars, envVars
<1>1. CASE MainWake
  BY <1>1, SMTT(30) DEF MainWake, TypeOK
<1>2. CASE MainLeave
  BY <1>2, SMTT(30) DEF MainLeave, TypeOK
<1>3. CASE MainAccept
  <2> DEFINE s == Head(mainList).socket
  <2>1. MainTakes("accept")
    BY <1>3 DEF MainAccept
  <2>2. s \in Sockets
    BY <2>1, MainTakesFact
  <2>3. sock[s].fd \in Fds \cup {0, BadFd}
    BY <2>2 DEF TypeOK, SocketType
  <2>4. /\ DOMAIN mapAgents' \subseteq Fds \cup {0, BadFd}
        /\ mapAgents' \in [DOMAIN mapAgents' -> Sockets]
        /\ nNowSocketCount' \in Int
        /\ nSocketCount' \in Int
        /\ session' \in [Sockets -> {"none", "open", "closed"}]
    <3>1. /\ DOMAIN mapAgents \subseteq Fds \cup {0, BadFd}
          /\ mapAgents \in [DOMAIN mapAgents -> Sockets]
          /\ nNowSocketCount \in Int
          /\ nSocketCount \in Int
          /\ session \in [Sockets -> {"none", "open", "closed"}]
      BY DEF TypeOK
    <3>2. CASE HasAgent(s)
      BY <1>3, <3>1, <3>2 DEF MainAccept
    <3>3. CASE ~HasAgent(s)
      <4>1. mapAgents' = [f \in DOMAIN mapAgents \cup {sock[s].fd} |->
                              IF f = sock[s].fd THEN s ELSE mapAgents[f]]
        BY <1>3, <3>3 DEF MainAccept
      <4>2. /\ nNowSocketCount' = nNowSocketCount + 1
            /\ nSocketCount' = nSocketCount + 1
            /\ session' = [session EXCEPT ![s] = "open"]
        BY <1>3, <3>3 DEF MainAccept
      <4>3. QED
        BY <2>2, <2>3, <3>1, <4>1, <4>2
    <3>4. QED
      BY <3>2, <3>3
  <2>5. UNCHANGED <<asked, ioVars, crashed>>
    BY <1>3 DEF MainAccept
  <2>6. QED
    BY <2>1, <2>4, <2>5, MainTakesFact DEF TypeOK
<1>4. CASE MainRecvNoAgent
  <2>1. MainTakes("recv_buf")
    BY <1>4 DEF MainRecvNoAgent
  <2>2. QED
    BY <1>4, <2>1, MainTakesFact DEF MainRecvNoAgent, TypeOK
<1>5. CASE MainRecvHeartbeat
  <2> DEFINE p == Head(mainList)
             a == Agent(p.socket)
  <2>1. MainTakes("recv_buf") /\ HasAgent(p.socket)
    BY <1>5 DEF MainRecvHeartbeat
  <2>2. a \in Sockets
    BY <2>1, AgentType
  <2>3. p \in MainPackage /\ p.cmd = "recv_buf"
    BY <2>1, MainTakesFact
  <2>4. p.req \in Requests
    BY <2>3 DEF MainPackage
  <2>5. Package("send_buf", 0, a, p.req, "none") \in IOPackage
    BY <2>2, <2>4 DEF Package, IOPackage
  <2>6. ioList' \in [Threads -> Seq(IOPackage)]
    BY <1>5, <2>5, ToIOType DEF MainRecvHeartbeat
  <2>7. asked' \in [Sockets -> Seq(Requests)]
    <3>1. asked \in [Sockets -> Seq(Requests)]
      BY DEF TypeOK
    <3>2. asked' = [asked EXCEPT ![a] = Append(@, p.req)]
      BY <1>5 DEF MainRecvHeartbeat
    <3> HIDE DEF a, p
    <3>3. QED
      BY <2>2, <2>4, <3>1, <3>2
  <2>8. UNCHANGED <<mapAgents, nNowSocketCount, nSocketCount, session, ioDeal,
                    needSendList, nSockets, sock, crashed>>
    BY <1>5 DEF MainRecvHeartbeat
  <2>9. QED
    BY <2>1, <2>6, <2>7, <2>8, MainTakesFact DEF TypeOK
<1>6. CASE MainRecvOther
  <2>1. MainTakes("recv_buf")
    BY <1>6 DEF MainRecvOther
  <2>2. QED
    BY <1>6, <2>1, MainTakesFact DEF MainRecvOther, TypeOK
<1>7. CASE MainRecvShort
  <2>1. MainTakes("recv_buf") /\ ForgetAgent(Agent(Head(mainList).socket))
    BY <1>7 DEF MainRecvShort
  <2>2. nNowSocketCount' \in Int /\ crashed' \in BOOLEAN /\ UNCHANGED <<asked, ioVars>>
    BY <1>7 DEF MainRecvShort, TypeOK
  <2>3. QED
    BY <2>1, <2>2, MainTakesFact, ForgetType DEF TypeOK
<1>8. CASE MainClose
  <2> DEFINE s == Head(mainList).socket
  <2>1. MainTakes("close")
    BY <1>8 DEF MainClose
  <2>2. s \in Sockets
    BY <2>1, MainTakesFact
  <2>3. /\ DOMAIN mapAgents' \subseteq DOMAIN mapAgents
        /\ mapAgents' \in [DOMAIN mapAgents' -> Sockets]
        /\ nSocketCount' \in Int
        /\ session' \in [Sockets -> {"none", "open", "closed"}]
    <3>1. CASE HasAgent(s)
      BY <1>8, <3>1, ForgetType DEF MainClose
    <3>2. CASE ~HasAgent(s)
      BY <1>8, <3>2 DEF MainClose, TypeOK
    <3>3. QED
      BY <3>1, <3>2
  <2>4. ioList' \in [Threads -> Seq(IOPackage)] /\ crashed' \in BOOLEAN
    <3>1. CASE sock[s].thread \in Threads
      <4>1. ToIO(sock[s].thread, OnSocket("close", s)) /\ UNCHANGED crashed
        BY <1>8, <3>1 DEF MainClose
      <4>2. OnSocket("close", s) \in IOPackage
        BY <2>2, OnSocketFact
      <4>3. QED
        BY <4>1, <4>2, ToIOType DEF TypeOK
    <3>2. CASE sock[s].thread \notin Threads
      BY <1>8, <3>2 DEF MainClose, TypeOK
    <3>3. QED
      BY <3>1, <3>2
  <2>5. nNowSocketCount' \in Int
    BY <1>8 DEF MainClose, TypeOK
  <2>6. UNCHANGED <<asked, ioDeal, needSendList, nSockets, sock>>
    BY <1>8 DEF MainClose
  <2>7. QED
    BY <2>1, <2>3, <2>4, <2>5, <2>6, MainTakesFact DEF TypeOK
<1>9. QED
  BY <1>1, <1>2, <1>3, <1>4, <1>5, <1>6, <1>7, <1>8 DEF MainLoop

\* acceptCallback keeps the types.
LEMMA AcceptType ==
    ASSUME TypeOK, AcceptConnection \/ AcceptRefused \/ AcceptFailed
    PROVE  TypeOK'
<1> USE DEF mainVars, ioVars, envVars
<1>1. arrived' \in 0..MaxConn
  BY SMTT(30) DEF TypeOK, AcceptConnection, AcceptRefused, AcceptFailed, AcceptReady
<1>2. ASSUME NEW f \in Fds \cup {BadFd}, HandOver(f)
      PROVE  /\ ioList' \in [Threads -> Seq(IOPackage)]
             /\ nCurrentThread' \in Threads
  <2>1. Package("accept", f, 0, 0, "none") \in IOPackage
    BY DEF Package, IOPackage
  <2>2. ioList' \in [Threads -> Seq(IOPackage)]
    BY <1>2, <2>1, ToIOType DEF HandOver
  <2>3. nCurrentThread \in Threads
    BY DEF TypeOK
  <2>4. nCurrentThread' \in Threads
    <3>1. nCurrentThread' =
              IF nCurrentThread >= IOThreads THEN 1 ELSE nCurrentThread + 1
      BY <1>2 DEF HandOver
    <3>2. IOThreads \in Nat \ {0} /\ nCurrentThread \in 1..IOThreads
      BY <2>3 DEF Threads
    <3>3. nCurrentThread' \in 1..IOThreads
      BY <3>1, <3>2
    <3>4. QED
      BY <3>3 DEF Threads
  <2>5. QED
    BY <2>2, <2>4
<1>3. CASE AcceptConnection
  <2>1. PICK f \in Fds \ open : open' = open \cup {f} /\ HandOver(f)
    BY <1>3 DEF AcceptConnection
  <2>2. open' \subseteq Fds
    BY <2>1 DEF TypeOK
  <2>3. UNCHANGED <<sent, mainList, mainDeal, mapAgents, nNowSocketCount,
                    nSocketCount, session, asked, ioDeal, needSendList, nSockets,
                    sock, crashed>>
    BY <1>3 DEF AcceptConnection
  <2>4. QED
    BY <1>1, <1>2, <2>1, <2>2, <2>3 DEF TypeOK
<1>4. CASE AcceptRefused
  <2>1. UNCHANGED <<open, sent, mainVars, ioVars, crashed>>
    BY <1>4 DEF AcceptRefused
  <2>2. QED
    BY <1>1, <2>1 DEF TypeOK
<1>5. CASE AcceptFailed
  <2>1. HandOver(BadFd)
    BY <1>5 DEF AcceptFailed
  <2>2. UNCHANGED <<open, sent, mainList, mainDeal, mapAgents, nNowSocketCount,
                    nSocketCount, session, asked, ioDeal, needSendList, nSockets,
                    sock, crashed>>
    BY <1>5 DEF AcceptFailed
  <2>3. QED
    BY <1>1, <1>2, <2>1, <2>2 DEF TypeOK
<1>6. QED
  BY <1>3, <1>4, <1>5

\* A socket is replaced by one of the right type.
LEMMA SockType ==
    ASSUME TypeOK, NEW s, NEW r \in SocketType, sock' = [sock EXCEPT ![s] = r]
    PROVE  sock' \in [Sockets -> SocketType]
BY DEF TypeOK

\* The io threads keep the types.
LEMMA IOType ==
    ASSUME TypeOK, NEW t \in Threads, IOLoop(t)
    PROVE  TypeOK'
<1> USE DEF mainVars, envVars
<1>0. sock \in [Sockets -> SocketType]
  BY DEF TypeOK
<1>1. CASE IOWake(t)
  <2>1. ioDeal' \in [Threads -> 0..(PairDealCount + 2)]
    BY <1>1, SMTT(30) DEF TypeOK, IOWake
  <2>2. UNCHANGED <<ioList, needSendList, nSockets, sock, mainVars, envVars, crashed>>
    BY <1>1 DEF IOWake
  <2>3. QED
    BY <2>1, <2>2 DEF TypeOK
<1>2. CASE IOAccept(t)
  <2> DEFINE r == Accepted(Head(ioList[t]).fd, t)
             p == OnSocket("accept", nSockets')
  <2>1. IOTakes(t, "accept")
    BY <1>2 DEF IOAccept
  <2>2. r \in SocketType
    BY <2>1, IOTakesFact, AcceptedFact
  <2>3. nSockets' \in Sockets /\ nSockets' \in 0..MaxConn
    BY <1>2, SMTT(30) DEF IOAccept, TypeOK, Sockets
  <2>4. sock' = [sock EXCEPT ![nSockets'] = r]
    BY <1>2 DEF IOAccept
  <2>5. sock' \in [Sockets -> SocketType]
    BY <2>2, <2>4, SockType
  <2>6. p \in MainPackage
    BY <2>3, OnSocketFact
  <2>7. mainList' \in Seq(MainPackage)
    BY <1>2, <2>6, PushFact DEF IOAccept, ToMain, TypeOK
  <2>8. UNCHANGED <<open, needSendList>>
    BY <1>2 DEF IOAccept
  <2>9. QED
    BY <2>1, <2>3, <2>5, <2>7, <2>8, IOTakesFact DEF TypeOK
<1>3. CASE IOAcceptFailed(t)
  <2>1. /\ IOTakes(t, "accept")
        /\ UNCHANGED <<mainList, open, needSendList, nSockets, sock>>
    BY <1>3 DEF IOAcceptFailed
  <2>2. QED
    BY <2>1, IOTakesFact DEF TypeOK
<1>4. CASE IOSend(t)
  <2> DEFINE p == Head(ioList[t])
             s == p.socket
  <2>1. IOTakes(t, "send_buf")
    BY <1>4 DEF IOSend
  <2>2. s \in Sockets /\ p.req \in Requests
    BY <2>1, IOTakesFact
  <2>3. sock[s] \in SocketType /\ consumeSendBuf(sock[s]) \in SocketType
    BY <1>0, <2>2, ConsumeFact
  <2>4. sock' \in [Sockets -> SocketType]
    <3>1. \/ sock' = [sock EXCEPT ![s] = expandSendBuf(sock[s], p.req)]
          \/ sock' = [sock EXCEPT ![s] =
                          expandSendBuf(consumeSendBuf(sock[s]), p.req)]
      BY <1>4 DEF IOSend
    <3>2. /\ expandSendBuf(sock[s], p.req) \in SocketType
          /\ expandSendBuf(consumeSendBuf(sock[s]), p.req) \in SocketType
      BY <2>2, <2>3, ExpandFact
    <3>3. QED
      BY <3>1, <3>2, SockType
  <2>5. needSendList' \in [Threads -> SUBSET Sockets]
    <3>1. needSendList \in [Threads -> SUBSET Sockets]
      BY DEF TypeOK
    <3>2. \/ needSendList' = [needSendList EXCEPT ![t] = needSendList[t] \cup {s}]
          \/ needSendList' = needSendList
      BY <1>4 DEF IOSend
    <3> HIDE DEF s
    <3>3. needSendList[t] \cup {s} \in SUBSET Sockets
      BY <2>2, <3>1
    <3>4. QED
      BY <3>1, <3>2, <3>3
  <2>6. UNCHANGED <<mainList, open, nSockets>>
    BY <1>4 DEF IOSend
  <2>7. QED
    BY <2>1, <2>4, <2>5, <2>6, IOTakesFact DEF TypeOK
<1>5. CASE IOClose(t)
  <2> DEFINE s == Head(ioList[t]).socket
  <2>1. IOTakes(t, "close")
    BY <1>5 DEF IOClose
  <2>2. s \in Sockets
    BY <2>1, IOTakesFact
  <2>3. Released(sock[s]) \in SocketType
    BY <1>0, <2>2, ReleasedFact
  <2>4. open' \subseteq Fds /\ sock' \in [Sockets -> SocketType]
    <3>1. CASE sock[s].mem = "live"
      <4>1. open' = open \ {sock[s].fd} /\ sock' = [sock EXCEPT ![s] = Released(sock[s])]
        BY <1>5, <3>1 DEF IOClose
      <4>2. QED
        BY <2>3, <4>1, SockType DEF TypeOK
    <3>2. CASE sock[s].mem # "live"
      BY <1>0, <1>5, <3>2 DEF IOClose, TypeOK
    <3>3. QED
      BY <3>1, <3>2
  <2>5. UNCHANGED <<mainList, needSendList, nSockets>>
    BY <1>5 DEF IOClose
  <2>6. QED
    BY <2>1, <2>4, <2>5, IOTakesFact DEF TypeOK
<1>6. CASE IOFlush(t)
  <2>1. sock' = [s \in Sockets |-> IF s \in needSendList[t]
                                   THEN consumeSendBuf(sock[s]) ELSE sock[s]]
    BY <1>6 DEF IOFlush
  <2>2. \A s \in Sockets : sock[s] \in SocketType /\ consumeSendBuf(sock[s]) \in SocketType
    BY <1>0, ConsumeFact
  <2>3. sock' \in [Sockets -> SocketType]
    BY <2>1, <2>2
  <2>4. needSendList' \in [Threads -> SUBSET Sockets]
    <3>1. needSendList \in [Threads -> SUBSET Sockets]
      BY DEF TypeOK
    <3>2. needSendList' = [needSendList EXCEPT ![t] = {}]
      BY <1>6 DEF IOFlush
    <3>3. {} \in SUBSET Sockets
      OBVIOUS
    <3>4. QED
      BY <3>1, <3>2, <3>3
  <2>5. ioDeal' \in [Threads -> 0..(PairDealCount + 2)]
    BY <1>6, SMTT(30) DEF IOFlush, TypeOK
  <2>6. UNCHANGED <<ioList, nSockets, mainVars, envVars, crashed>>
    BY <1>6 DEF IOFlush
  <2>7. QED
    BY <2>3, <2>4, <2>5, <2>6 DEF TypeOK
<1>7. QED
  BY <1>1, <1>2, <1>3, <1>4, <1>5, <1>6 DEF IOLoop

\* What the clients do keeps the types.
LEMMA ClientType ==
    ASSUME TypeOK, NEW s \in Sockets,
           Read(s) \/ ReadCloseFrame(s) \/ ReadEvent(s) \/ WriteEvent(s)
    PROVE  TypeOK'
<1>1. /\ sock \in [Sockets -> SocketType]
      /\ sent \in [Sockets -> 0..MaxReq]
      /\ mainList \in Seq(MainPackage)
  BY DEF TypeOK
<1>2. Unaffected
  BY DEF Read, ReadCloseFrame, ReadEvent, WriteEvent
<1>3. /\ sock' \in [Sockets -> SocketType]
      /\ sent' \in [Sockets -> 0..MaxReq]
      /\ mainList' \in Seq(MainPackage)
  <2>1. CASE Read(s)
    <3>1. sent[s] + 1 \in 0..MaxReq /\ sent[s] + 1 \in Requests
      BY <1>1, <2>1 DEF Read, Requests
    <3>2. sent' = [sent EXCEPT ![s] = sent[s] + 1] /\ sock' = sock
      BY <2>1 DEF Read
    <3>3. sent' \in [Sockets -> 0..MaxReq] /\ sent'[s] \in Requests
      BY <1>1, <3>1, <3>2
    <3>4. \/ mainList' = mainList
          \/ \E k \in Kinds :
                 mainList' = Append(mainList, Package("recv_buf", 0, s, sent'[s], k))
      BY <2>1 DEF Read, ToMain
    <3>5. ASSUME NEW k \in Kinds
          PROVE  Package("recv_buf", 0, s, sent'[s], k) \in MainPackage
      BY <3>3 DEF Package, MainPackage, Kinds
    <3>6. mainList' \in Seq(MainPackage)
      BY <1>1, <3>4, <3>5, PushFact
    <3>7. QED
      BY <1>1, <3>2, <3>3, <3>6
  <2>2. CASE ReadCloseFrame(s)
    <3>1. sock' = [sock EXCEPT ![s] = [sock[s] EXCEPT !.status = "while_Close"]]
      BY <2>2 DEF ReadCloseFrame
    <3>2. [sock[s] EXCEPT !.status = "while_Close"] \in SocketType
      BY <1>1 DEF SocketType, Status
    <3>3. UNCHANGED <<mainList, sent>>
      BY <2>2 DEF ReadCloseFrame
    <3>4. QED
      BY <1>1, <3>1, <3>2, <3>3, SockType
  <2>3. CASE ReadEvent(s)
    <3>1. sock' = [sock EXCEPT ![s] = [sock[s] EXCEPT !.reading = FALSE]]
      BY <2>3 DEF ReadEvent
    <3>2. [sock[s] EXCEPT !.reading = FALSE] \in SocketType
      BY <1>1 DEF SocketType
    <3>3. sent' = sent /\ mainList' = Append(mainList, OnSocket("close", s))
      BY <2>3 DEF ReadEvent, ToMain
    <3>4. QED
      BY <1>1, <3>1, <3>2, <3>3, SockType, OnSocketFact, PushFact
  <2>4. CASE WriteEvent(s)
    <3>1. sock' = [sock EXCEPT ![s] = [sock[s] EXCEPT !.writing = "failed"]]
      BY <2>4 DEF WriteEvent
    <3>2. [sock[s] EXCEPT !.writing = "failed"] \in SocketType
      BY <1>1 DEF SocketType, Writing
    <3>3. sent' = sent /\ mainList' = Append(mainList, OnSocket("close", s))
      BY <2>4 DEF WriteEvent, ToMain
    <3>4. QED
      BY <1>1, <3>1, <3>2, <3>3, SockType, OnSocketFact, PushFact
  <2>5. QED
    BY <2>1, <2>2, <2>3, <2>4
<1>4. QED
  BY <1>2, <1>3 DEF Unaffected, TypeOK

\* Every step keeps the types.
LEMMA NextType == TypeOK /\ [Next]_vars => TypeOK'
<1> SUFFICES ASSUME TypeOK, [Next]_vars PROVE TypeOK'
  OBVIOUS
<1>1. CASE UNCHANGED vars
  BY <1>1 DEF vars, mainVars, ioVars, envVars, TypeOK
<1>2. QED
  BY <1>1, MainType, AcceptType, IOType, ClientType DEF Next

\* The variables of the server keep their types: among others, no package on
\* any list names a socket that does not exist, the cursor of acceptCallback
\* always names an io thread, and a callback stays within its limit.
THEOREM TypeCorrect == Spec => []TypeOK
BY InitType, NextType, PTL DEF Spec

-----------------------------------------------------------------------------
(***************************************************************************)
(* Agents, replies and the objects they use.                               *)
(*                                                                         *)
(* A socket is intact while it is allocated and no io thread has been told *)
(* to delete it.  Agents exist only for intact sockets, and the accept of  *)
(* a socket is the first that main hears of it, so that the agent is made  *)
(* before any close.  Main takes the agent away before it passes a close   *)
(* on, so that a reply is never pushed behind a close.                     *)
(***************************************************************************)
Intact(s) == Live(s) /\ ~Closing(s)

SocketsMade ==
    \A s \in Sockets : Live(s) => s <= nSockets /\ sock[s].thread \in Threads

\* The lists name no socket that is still to be made.
MainListMade == \A i \in 1..Len(mainList) : mainList[i].socket <= nSockets
IOListMade ==
    \A t \in Threads : \A i \in 1..Len(ioList[t]) : ioList[t][i].socket <= nSockets

AcceptFirst ==
    \A i \in 1..Len(mainList) :
        mainList[i].cmd = "accept" =>
            /\ Intact(mainList[i].socket)
            /\ \A j \in 1..(i - 1) : mainList[j].socket # mainList[i].socket

CloseAtOwner ==
    \A t \in Threads : \A i \in 1..Len(ioList[t]) :
        ioList[t][i].cmd = "close" /\ Live(ioList[t][i].socket) =>
            sock[ioList[t][i].socket].thread = t

MainInv == MainListMade /\ AcceptFirst
IOInv == IOListMade /\ CloseAtOwner /\ SendTargetsLive

IInv == TypeOK /\ SocketsMade /\ MainInv /\ IOInv /\ AgentsLive

\* A step keeps the allocated objects of all sockets.
SameObjects == \A s \in Sockets : SameObject(sock'[s], sock[s])

\* A step keeps the sockets in S intact.
KeepsIntact(S) ==
    \A s \in S : Intact(s) => Intact(s)' /\ sock'[s].fd = sock[s].fd

\* The server starts in a state of the invariant.
LEMMA InitSafe == Init => IInv
<1> SUFFICES ASSUME Init PROVE IInv
  OBVIOUS
<1>1. TypeOK
  BY InitType
<1>2. \A s \in Sockets : ~Live(s)
  BY DEF Init, Live, Unused
<1>3. mainList = <<>> /\ \A t \in Threads : ioList[t] = <<>>
  BY DEF Init
<1>4. DOMAIN mapAgents = {}
  BY DEF Init
<1>5. QED
  BY <1>1, <1>2, <1>3, <1>4
  DEF IInv, SocketsMade, MainInv, MainListMade, AcceptFirst, IOInv, IOListMade,
      CloseAtOwner, SendTargetsLive, AgentsLive

\* One socket is replaced by a record of the same object.
LEMMA SameUpdate ==
    ASSUME TypeOK, NEW s \in Sockets, NEW r, SameObject(r, sock[s]),
           sock' = [sock EXCEPT ![s] = r]
    PROVE  SameObjects
BY DEF TypeOK, SameObjects, SameObject

\* Nothing becomes of the sockets that are made.
LEMMA SocketsKept ==
    ASSUME IInv, SameObjects, nSockets' = nSockets
    PROVE  SocketsMade'
BY DEF IInv, SocketsMade, SameObjects, SameObject, Live

\* Agents stay with intact sockets.
LEMMA AgentsKept ==
    ASSUME IInv, NEW S, KeepsIntact(S),
           \A f \in DOMAIN mapAgents' :
               /\ f \in DOMAIN mapAgents
               /\ mapAgents'[f] = mapAgents[f]
               /\ mapAgents[f] \in S
    PROVE  AgentsLive'
BY DEF IInv, AgentsLive, KeepsIntact, Intact

\* A step that leaves the lists of the io threads alone.
LEMMA IOKept ==
    ASSUME IInv, SameObjects, nSockets' = nSockets, ioList' = ioList
    PROVE  IOInv' /\ KeepsIntact(Sockets)
<1>1. \A s \in Sockets : /\ sock'[s].mem = sock[s].mem
                         /\ sock'[s].thread = sock[s].thread
                         /\ sock'[s].fd = sock[s].fd
                         /\ Closing(s)' = Closing(s)
  BY DEF SameObjects, SameObject, Closing
<1>2. ASSUME NEW t \in Threads, NEW i \in 1..Len(ioList[t]),
             ioList[t][i].cmd # "accept"
      PROVE  ioList[t][i].socket \in Sockets
  BY <1>2, SMTT(30) DEF IInv, TypeOK, IOPackage
<1>3. IOListMade'
  BY DEF IInv, IOInv, IOListMade
<1>4. CloseAtOwner'
  <2>1. CloseAtOwner
    BY DEF IInv, IOInv
  <2>2. QED
    BY <1>1, <1>2, <2>1 DEF CloseAtOwner, Live
<1>5. SendTargetsLive'
  <2>1. SendTargetsLive
    BY DEF IInv, IOInv
  <2>2. SUFFICES ASSUME NEW t \in Threads, NEW i \in 1..Len(ioList[t]),
                        ioList[t][i].cmd = "send_buf"
                 PROVE  LET s == ioList[t][i].socket
                        IN  /\ Live(s)'
                            /\ sock'[s].thread = t
                            /\ \A j \in 1..(i - 1) : ~IsClose(ioList[t][j], s)
    BY DEF SendTargetsLive, IsClose
  <2>3. QED
    BY <1>1, <1>2, <2>1, <2>2 DEF SendTargetsLive, Live
<1>6. KeepsIntact(Sockets)
  BY <1>1 DEF KeepsIntact, Intact, Live
<1>7. QED
  BY <1>3, <1>4, <1>5, <1>6 DEF IOInv

\* Where the packages of thread u were before thread t took one.
Before(u, t, i) == IF u = t THEN i + 1 ELSE i

\* Where a package of a popped list was before.
LEMMA PopBefore ==
    ASSUME TypeOK, NEW t \in Threads, ioList[t] # <<>>,
           ioList' = [ioList EXCEPT ![t] = Tail(@)],
           NEW u \in Threads, NEW i \in 1..Len(ioList'[u])
    PROVE  /\ i \in Nat
           /\ Before(u, t, i) \in 1..Len(ioList[u])
           /\ ioList'[u][i] = ioList[u][Before(u, t, i)]
           /\ ioList[u][Before(u, t, i)] \in IOPackage
<1>1. ioList \in [Threads -> Seq(IOPackage)]
  BY DEF TypeOK
<1>2. CASE u = t
  <2> DEFINE q == ioList[t]
  <2>1. ioList'[u] = Tail(q)
    BY <1>1, <1>2
  <2>2. q \in Seq(IOPackage) /\ q # <<>>
    BY <1>1
  <2> HIDE DEF q
  <2>3. /\ Len(q) \in Nat \ {0}
        /\ Len(Tail(q)) = Len(q) - 1
        /\ \A k \in 1..(Len(q) - 1) : Tail(q)[k] = q[k + 1]
    BY <2>2, PopFact
  <2>4. i \in 1..(Len(q) - 1)
    BY <2>1, <2>3
  <2>5. i + 1 \in 1..Len(q) /\ ioList'[u][i] = q[i + 1] /\ q[i + 1] \in IOPackage
    BY <2>1, <2>2, <2>3, <2>4
  <2>6. QED
    BY <1>2, <2>4, <2>5 DEF Before, q
<1>3. CASE u # t
  BY <1>1, <1>3 DEF Before
<1>4. QED
  BY <1>2, <1>3

\* Thread t takes a package.  The object of a socket may change only when the
\* socket is a new one, or the package is the close that deletes it.
LEMMA IOPopped ==
    ASSUME IInv, NEW t \in Threads, ioList[t] # <<>>,
           ioList' = [ioList EXCEPT ![t] = Tail(@)],
           nSockets' \in Nat, nSockets' >= nSockets,
           \A s \in Sockets :
               \/ SameObject(sock'[s], sock[s])
               \/ s > nSockets
               \/ IsClose(ioList[t][1], s) /\ ~Live(s)'
    PROVE  IOInv' /\ KeepsIntact(Sockets)
<1>1. TypeOK
  BY DEF IInv
<1>2. nSockets \in Nat /\ ioList \in [Threads -> Seq(IOPackage)]
  BY <1>1 DEF TypeOK
<1>3. ASSUME NEW u \in Threads, NEW i \in 1..Len(ioList'[u])
      PROVE  /\ i \in Nat
             /\ Before(u, t, i) \in 1..Len(ioList[u])
             /\ ioList'[u][i] = ioList[u][Before(u, t, i)]
             /\ ioList[u][Before(u, t, i)] \in IOPackage
             /\ ioList[u][Before(u, t, i)].socket <= nSockets
  <2>1. Before(u, t, i) \in 1..Len(ioList[u])
    BY <1>1, PopBefore
  <2>2. ioList[u][Before(u, t, i)].socket <= nSockets
    BY <2>1 DEF IInv, IOInv, IOListMade
  <2>3. QED
    BY <1>1, <2>2, PopBefore
<1>4. \A p \in IOPackage :
          /\ p.socket \in Nat
          /\ p.cmd # "accept" => p.socket \in Sockets
  BY DEF IOPackage, Sockets
<1>5. ASSUME NEW s \in Sockets, s <= nSockets,
              ~IsClose(ioList[t][1], s) \/ sock'[s].mem = "live"
       PROVE  SameObject(sock'[s], sock[s])
  <2>1. s \in Nat /\ ~(s > nSockets)
    BY <1>2, <1>5 DEF Sockets
  <2>2. QED
    BY <1>5, <2>1 DEF Live
<1>6. IOListMade'
  <2>1. ASSUME NEW u \in Threads, NEW i \in 1..Len(ioList'[u])
        PROVE  ioList'[u][i].socket <= nSockets'
    <3> DEFINE n == ioList'[u][i].socket
    <3>1. n \in Nat /\ n <= nSockets
      BY <1>3, <1>4
    <3> HIDE DEF n
    <3>2. n <= nSockets'
      BY <1>2, <3>1
    <3>3. QED
      BY <3>2 DEF n
  <2>2. QED
    BY <2>1 DEF IOListMade
<1>7. CloseAtOwner'
  <2>1. ASSUME NEW u \in Threads, NEW i \in 1..Len(ioList'[u]),
               ioList'[u][i].cmd = "close",
               sock'[ioList'[u][i].socket].mem = "live"
        PROVE  sock'[ioList'[u][i].socket].thread = u
    <3> DEFINE p == ioList'[u][i]
               s == p.socket
               b == Before(u, t, i)
    <3>1. b \in 1..Len(ioList[u]) /\ p = ioList[u][b]
      BY <1>3
    <3>2. s \in Sockets /\ s \in Nat /\ s <= nSockets
      BY <1>3, <1>4, <2>1
    <3>3. SameObject(sock'[s], sock[s])
      BY <1>5, <2>1, <3>2
    <3>4. sock[s].mem = "live" => sock[s].thread = u
      <4>1. CloseAtOwner
        BY DEF IInv, IOInv
      <4>2. QED
        BY <2>1, <3>1, <4>1 DEF CloseAtOwner, Live
    <3>5. QED
      BY <2>1, <3>3, <3>4 DEF SameObject
  <2>2. QED
    BY <2>1 DEF CloseAtOwner, Live
<1>8. SendTargetsLive'
  <2>1. ASSUME NEW u \in Threads, NEW i \in 1..Len(ioList'[u]),
               ioList'[u][i].cmd = "send_buf"
        PROVE  /\ sock'[ioList'[u][i].socket].mem = "live"
               /\ sock'[ioList'[u][i].socket].thread = u
               /\ \A j \in 1..(i - 1) :
                      ~IsClose(ioList'[u][j], ioList'[u][i].socket)
    <3> DEFINE p == ioList'[u][i]
               s == p.socket
               b == Before(u, t, i)
    <3>1. b \in 1..Len(ioList[u]) /\ p = ioList[u][b]
      BY <1>3
    <3>2. s \in Sockets /\ s \in Nat /\ s <= nSockets
      BY <1>3, <1>4, <2>1
    <3>3. /\ sock[s].mem = "live"
          /\ sock[s].thread = u
          /\ \A j \in 1..(b - 1) : ~IsClose(ioList[u][j], s)
      <4>1. SendTargetsLive
        BY DEF IInv, IOInv
      <4>2. QED
        BY <2>1, <3>1, <4>1 DEF SendTargetsLive, Live
    <3>4. ~IsClose(ioList[t][1], s)
      <4>1. CASE u = t
        <5>1. 1 \in 1..(b - 1)
          BY <1>3, <4>1 DEF Before
        <5>2. QED
          BY <3>3, <4>1, <5>1
      <4>2. CASE u # t
        <5>1. CloseAtOwner
          BY DEF IInv, IOInv
        <5>2. 1 \in 1..Len(ioList[t])
          BY <1>2
        <5>3. QED
          BY <3>3, <4>2, <5>1, <5>2 DEF CloseAtOwner, IsClose, Live
      <4>3. QED
        BY <4>1, <4>2
    <3>5. SameObject(sock'[s], sock[s])
      BY <1>5, <3>2, <3>4
    <3>6. ASSUME NEW j \in 1..(i - 1)
          PROVE  ~IsClose(ioList'[u][j], s)
      <4>1. j \in 1..Len(ioList'[u])
        <5>1. ioList'[u] \in Seq(IOPackage)
          BY <1>2, PopFact
        <5>2. QED
          BY <5>1
      <4>2. ioList'[u][j] = ioList[u][Before(u, t, j)]
        BY <1>3, <4>1
      <4>3. Before(u, t, j) \in 1..(b - 1)
        BY <1>3 DEF Before
      <4>4. QED
        BY <3>3, <4>2, <4>3
    <3>7. QED
      BY <3>3, <3>5, <3>6 DEF SameObject
  <2>2. QED
    BY <2>1 DEF SendTargetsLive, Live, IsClose
<1>9. KeepsIntact(Sockets)
  <2>1. ASSUME NEW s \in Sockets, Intact(s)
        PROVE  /\ sock'[s].mem = "live"
               /\ ~Closing(s)'
               /\ sock'[s].fd = sock[s].fd
    <3>1. sock[s].mem = "live" /\ s \in Nat /\ s <= nSockets
      BY <2>1 DEF IInv, SocketsMade, Intact, Live, Sockets
    <3>2. \A u \in Threads : \A i \in 1..Len(ioList[u]) : ~IsClose(ioList[u][i], s)
      BY <2>1 DEF Intact, Closing
    <3>3. ~IsClose(ioList[t][1], s)
      BY <1>2, <3>2
    <3>4. SameObject(sock'[s], sock[s])
      BY <1>5, <3>1, <3>3
    <3>5. ~Closing(s)'
      BY <1>3, <3>2 DEF Closing, IsClose
    <3>6. QED
      BY <3>1, <3>4, <3>5 DEF SameObject
  <2>2. QED
    BY <2>1 DEF KeepsIntact, Intact, Live
<1>10. QED
  BY <1>6, <1>7, <1>8, <1>9 DEF IOInv

\* The list of thread t grows by p, the others stay.
LEMMA PushAfter ==
    ASSUME TypeOK, NEW t \in Threads, NEW p \in IOPackage, ToIO(t, p),
           NEW u \in Threads, NEW i \in 1..Len(ioList'[u])
    PROVE  /\ i \in Nat
           /\ \/ i \in 1..Len(ioList[u]) /\ ioList'[u][i] = ioList[u][i]
              \/ u = t /\ i = Len(ioList[u]) + 1 /\ ioList'[u][i] = p
           /\ \A j \in 1..(i - 1) :
                  j \in 1..Len(ioList[u]) /\ ioList'[u][j] = ioList[u][j]
<1>1. ioList \in [Threads -> Seq(IOPackage)]
  BY DEF TypeOK
<1>2. CASE u = t
  <2> DEFINE q == ioList[t]
  <2>1. ioList'[u] = Append(q, p) /\ q \in Seq(IOPackage)
    BY <1>1, <1>2 DEF ToIO
  <2> HIDE DEF q
  <2>2. /\ Len(q) \in Nat
        /\ Len(Append(q, p)) = Len(q) + 1
        /\ \A k \in 1..Len(q) : Append(q, p)[k] = q[k]
        /\ Append(q, p)[Len(q) + 1] = p
    BY <2>1, PushFact
  <2>3. i \in 1..(Len(q) + 1)
    BY <2>1, <2>2
  <2>4. /\ i \in Nat
        /\ i \in 1..Len(q) \/ i = Len(q) + 1
        /\ \A j \in 1..(i - 1) : j \in 1..Len(q)
    BY <2>2, <2>3
  <2>5. QED
    BY <1>2, <2>1, <2>2, <2>4 DEF q
<1>3. CASE u # t
  <2> DEFINE q == ioList[u]
  <2>1. ioList'[u] = q /\ q \in Seq(IOPackage)
    BY <1>1, <1>3 DEF ToIO
  <2> HIDE DEF q
  <2>2. i \in Nat /\ \A j \in 1..(i - 1) : j \in 1..Len(q)
    BY <2>1
  <2>3. QED
    BY <2>1, <2>2 DEF q
<1>4. QED
  BY <1>2, <1>3

\* A thread is sent a package: a close only if it owns the socket, a reply only
\* if the socket is also intact.
LEMMA IOPushed ==
    ASSUME IInv, NEW t \in Threads, NEW p \in IOPackage, ToIO(t, p),
           SameObjects, nSockets' = nSockets,
           p.socket <= nSockets,
           p.cmd # "accept" => sock[p.socket].thread = t,
           p.cmd = "send_buf" => Intact(p.socket)
    PROVE  IOInv' /\ KeepsIntact({s \in Sockets : ~IsClose(p, s)})
<1>1. TypeOK
  BY DEF IInv
<1>2. ioList \in [Threads -> Seq(IOPackage)]
  BY <1>1 DEF TypeOK
<1>3. ASSUME NEW u \in Threads, NEW i \in 1..Len(ioList'[u])
      PROVE  /\ i \in Nat
             /\ \/ i \in 1..Len(ioList[u]) /\ ioList'[u][i] = ioList[u][i]
                \/ u = t /\ i = Len(ioList[u]) + 1 /\ ioList'[u][i] = p
             /\ \A j \in 1..(i - 1) :
                    j \in 1..Len(ioList[u]) /\ ioList'[u][j] = ioList[u][j]
  BY <1>1, PushAfter
<1>4. \A q \in IOPackage : q.cmd # "accept" => q.socket \in Sockets
  BY DEF IOPackage
<1>5. \A s \in Sockets : /\ sock'[s].mem = sock[s].mem
                         /\ sock'[s].thread = sock[s].thread
                         /\ sock'[s].fd = sock[s].fd
  BY DEF SameObjects, SameObject
<1>6. IOListMade'
  <2>1. IOListMade
    BY DEF IInv, IOInv
  <2>2. ASSUME NEW u \in Threads, NEW i \in 1..Len(ioList'[u])
        PROVE  ioList'[u][i].socket <= nSockets
    BY <1>3, <2>1 DEF IOListMade
  <2>3. QED
    BY <2>2 DEF IOListMade
<1>7. CloseAtOwner'
  <2>1. CloseAtOwner
    BY DEF IInv, IOInv
  <2>2. ASSUME NEW u \in Threads, NEW i \in 1..Len(ioList'[u]),
               ioList'[u][i].cmd = "close",
               sock'[ioList'[u][i].socket].mem = "live"
        PROVE  sock'[ioList'[u][i].socket].thread = u
    <3>1. CASE i \in 1..Len(ioList[u]) /\ ioList'[u][i] = ioList[u][i]
      <4>1. ioList[u][i].socket \in Sockets
        BY <1>2, <1>4, <2>2, <3>1
      <4>2. QED
        BY <1>5, <2>1, <2>2, <3>1, <4>1 DEF CloseAtOwner, Live
    <3>2. CASE u = t /\ ioList'[u][i] = p
      BY <1>4, <1>5, <2>2, <3>2
    <3>3. QED
      BY <1>3, <3>1, <3>2
  <2>3. QED
    BY <2>2 DEF CloseAtOwner, Live
<1>8. SendTargetsLive'
  <2>1. SendTargetsLive
    BY DEF IInv, IOInv
  <2>2. ASSUME NEW u \in Threads, NEW i \in 1..Len(ioList'[u]),
               ioList'[u][i].cmd = "send_buf"
        PROVE  /\ sock'[ioList'[u][i].socket].mem = "live"
               /\ sock'[ioList'[u][i].socket].thread = u
               /\ \A j \in 1..(i - 1) :
                      ~IsClose(ioList'[u][j], ioList'[u][i].socket)
    <3>1. CASE i \in 1..Len(ioList[u]) /\ ioList'[u][i] = ioList[u][i]
      <4>1. ioList[u][i].socket \in Sockets
        BY <1>2, <1>4, <2>2, <3>1
      <4>2. /\ sock[ioList[u][i].socket].mem = "live"
            /\ sock[ioList[u][i].socket].thread = u
            /\ \A j \in 1..(i - 1) : ~IsClose(ioList[u][j], ioList[u][i].socket)
        BY <2>1, <2>2, <3>1 DEF SendTargetsLive, Live
      <4>3. QED
        BY <1>3, <1>5, <3>1, <4>1, <4>2
    <3>2. CASE u = t /\ ioList'[u][i] = p
      <4>1. p.cmd = "send_buf" /\ p.socket \in Sockets
        BY <1>4, <2>2, <3>2
      <4>2. sock[p.socket].mem = "live"
        BY <4>1 DEF Intact, Live
      <4>3. \A j \in 1..Len(ioList[u]) : ~IsClose(ioList[u][j], p.socket)
        BY <4>1 DEF Intact, Closing
      <4>4. QED
        BY <1>3, <1>5, <3>2, <4>1, <4>2, <4>3
    <3>3. QED
      BY <1>3, <3>1, <3>2
  <2>3. QED
    BY <2>2 DEF SendTargetsLive, Live, IsClose
<1>9. ASSUME NEW s \in Sockets, ~IsClose(p, s), Intact(s)
      PROVE  /\ sock'[s].mem = "live"
             /\ ~Closing(s)'
             /\ sock'[s].fd = sock[s].fd
  <2>1. \A u \in Threads : \A i \in 1..Len(ioList[u]) : ~IsClose(ioList[u][i], s)
    BY <1>9 DEF Intact, Closing
  <2>2. ASSUME NEW u \in Threads, NEW i \in 1..Len(ioList'[u])
        PROVE  ~IsClose(ioList'[u][i], s)
    BY <1>3, <1>9, <2>1
  <2>3. ~Closing(s)'
    BY <2>2 DEF Closing, IsClose
  <2>4. QED
    BY <1>5, <1>9, <2>3 DEF Intact, Live
<1>10. KeepsIntact({s \in Sockets : ~IsClose(p, s)})
  BY <1>9 DEF KeepsIntact, Intact, Live
<1>11. QED
  BY <1>6, <1>7, <1>8, <1>10 DEF IOInv

-----------------------------------------------------------------------------
\* Main's list stays as it is.
LEMMA MainKept ==
    ASSUME IInv, KeepsIntact(Sockets), mainList' = mainList, nSockets' = nSockets
    PROVE  MainInv'
<1>1. MainListMade'
  BY DEF IInv, MainInv, MainListMade
<1>2. AcceptFirst'
  <2>1. AcceptFirst
    BY DEF IInv, MainInv
  <2>2. \A i \in 1..Len(mainList) : mainList[i].socket \in Sockets
    BY SMTT(30) DEF IInv, TypeOK, MainPackage
  <2>3. ASSUME NEW i \in 1..Len(mainList), mainList[i].cmd = "accept"
        PROVE  Intact(mainList[i].socket)'
    BY <2>1, <2>2, <2>3 DEF AcceptFirst, KeepsIntact
  <2>4. QED
    BY <2>1, <2>3 DEF AcceptFirst
<1>3. QED
  BY <1>1, <1>2 DEF MainInv

\* Main takes a package; every other socket stays intact.
LEMMA MainPopped ==
    ASSUME IInv, mainList # <<>>, mainList' = Tail(mainList), nSockets' = nSockets,
           KeepsIntact(Sockets \ {Head(mainList).socket})
    PROVE  MainInv'
<1>1. mainList \in Seq(MainPackage)
  BY DEF IInv, TypeOK
<1>2. /\ Len(mainList) \in Nat \ {0}
      /\ Len(mainList') = Len(mainList) - 1
      /\ \A i \in 1..(Len(mainList) - 1) : mainList'[i] = mainList[i + 1]
      /\ Head(mainList) = mainList[1]
  BY <1>1, PopFact
<1>3. ASSUME NEW i \in 1..Len(mainList')
      PROVE  /\ i + 1 \in 1..Len(mainList)
             /\ mainList'[i] = mainList[i + 1]
             /\ mainList[i + 1].socket \in Sockets
             /\ i \in Nat
  <2>1. i + 1 \in 1..Len(mainList) /\ mainList'[i] = mainList[i + 1] /\ i \in Nat
    BY <1>2
  <2>2. mainList[i + 1] \in MainPackage
    BY <1>1, <2>1
  <2>3. QED
    BY <2>1, <2>2 DEF MainPackage
<1>4. MainListMade'
  BY <1>3 DEF IInv, MainInv, MainListMade
<1>5. AcceptFirst'
  <2>1. AcceptFirst
    BY DEF IInv, MainInv
  <2>2. ASSUME NEW i \in 1..Len(mainList'), mainList'[i].cmd = "accept"
        PROVE  /\ Intact(mainList[i].socket)'
               /\ \A j \in 1..(i - 1) : mainList'[j].socket # mainList'[i].socket
    <3>1. PICK s \in Sockets : s = mainList[i + 1].socket
      BY <1>3
    <3>2. Intact(s) /\ \A j \in 1..i : mainList[j].socket # s
      BY <1>3, <2>1, <2>2, <3>1 DEF AcceptFirst
    <3>3. 1 \in 1..i
      BY <1>3
    <3>4. s # Head(mainList).socket
      BY <1>2, <3>2, <3>3
    <3>5. Intact(s)'
      BY <3>2, <3>4 DEF KeepsIntact
    <3>6. Intact(mainList[i].socket)'
      BY <1>3, <3>1, <3>5
    <3>7. \A j \in 1..(i - 1) : j \in 1..Len(mainList') /\ j + 1 \in 1..i
      BY <1>2, <1>3
    <3>8. QED
      BY <1>3, <3>1, <3>2, <3>6, <3>7
  <2>3. QED
    BY <2>2 DEF AcceptFirst
<1>6. QED
  BY <1>4, <1>5 DEF MainInv

\* Main is sent a package; an accept is about a new socket.
LEMMA MainAppended ==
    ASSUME IInv, NEW p \in MainPackage, ToMain(p), KeepsIntact(Sockets),
           nSockets' \in Nat, nSockets' >= nSockets, p.socket <= nSockets',
           p.cmd = "accept" => p.socket > nSockets /\ Intact(p.socket)'
    PROVE  MainInv'
<1>1. mainList \in Seq(MainPackage) /\ nSockets \in Nat
  BY DEF IInv, TypeOK
<1>2. /\ Len(mainList) \in Nat
      /\ Len(mainList') = Len(mainList) + 1
      /\ \A i \in 1..Len(mainList) : mainList'[i] = mainList[i]
      /\ mainList'[Len(mainList) + 1] = p
  BY <1>1, PushFact DEF ToMain
<1>3. ASSUME NEW i \in 1..Len(mainList')
      PROVE  /\ i \in Nat
             /\ \/ i \in 1..Len(mainList) /\ mainList'[i] = mainList[i]
                \/ i = Len(mainList) + 1 /\ mainList'[i] = p
             /\ \A j \in 1..(i - 1) :
                    j \in 1..Len(mainList) /\ mainList'[j] = mainList[j]
  BY <1>2
<1>4. ASSUME NEW i \in 1..Len(mainList)
      PROVE  /\ mainList[i].socket \in Sockets
             /\ mainList[i].socket \in Nat
             /\ mainList[i].socket <= nSockets
  <2>1. mainList[i] \in MainPackage
    BY <1>1
  <2>2. mainList[i].socket <= nSockets
    BY DEF IInv, MainInv, MainListMade
  <2>3. QED
    BY <2>1, <2>2 DEF MainPackage, Sockets
<1>5. MainListMade'
  <2>1. ASSUME NEW i \in 1..Len(mainList')
        PROVE  mainList'[i].socket <= nSockets'
    <3>1. CASE i \in 1..Len(mainList) /\ mainList'[i] = mainList[i]
      <4> DEFINE n == mainList[i].socket
      <4>1. n \in Nat /\ n <= nSockets
        BY <1>4, <3>1
      <4> HIDE DEF n
      <4>2. n <= nSockets'
        BY <1>1, <4>1
      <4>3. QED
        BY <3>1, <4>2 DEF n
    <3>2. CASE mainList'[i] = p
      BY <3>2
    <3>3. QED
      BY <1>3, <3>1, <3>2
  <2>2. QED
    BY <2>1 DEF MainListMade
<1>6. AcceptFirst'
  <2>1. AcceptFirst
    BY DEF IInv, MainInv
  <2>2. ASSUME NEW i \in 1..Len(mainList'), mainList'[i].cmd = "accept"
        PROVE  /\ Intact(mainList[i].socket)'
               /\ \A j \in 1..(i - 1) : mainList'[j].socket # mainList'[i].socket
    <3>1. CASE i \in 1..Len(mainList) /\ mainList'[i] = mainList[i]
      <4>1. PICK s \in Sockets : s = mainList[i].socket
        BY <1>4, <3>1
      <4>2. Intact(s) /\ \A j \in 1..(i - 1) : mainList[j].socket # s
        BY <2>1, <2>2, <3>1, <4>1 DEF AcceptFirst
      <4>3. Intact(s)'
        BY <4>2 DEF KeepsIntact
      <4>4. Intact(mainList[i].socket)'
        BY <3>1, <4>1, <4>3
      <4>5. QED
        BY <1>3, <3>1, <4>1, <4>2, <4>4
    <3>2. CASE mainList'[i] = p
      <4>1. p.socket > nSockets /\ Intact(p.socket)'
        BY <2>2, <3>2
      <4>2. Intact(mainList[i].socket)'
        BY <3>2, <4>1
      <4>3. ASSUME NEW j \in 1..(i - 1)
            PROVE  mainList'[j].socket # p.socket
        <5>1. j \in 1..Len(mainList) /\ mainList'[j] = mainList[j]
          BY <1>3
        <5>2. QED
          BY <1>1, <1>4, <4>1, <5>1
      <4>4. QED
        BY <3>2, <4>2, <4>3
    <3>3. QED
      BY <1>3, <3>1, <3>2
  <2>3. QED
    BY <2>2 DEF AcceptFirst
<1>7. QED
  BY <1>5, <1>6 DEF MainInv

-----------------------------------------------------------------------------
(***************************************************************************)
(* The actions                                                             *)
(***************************************************************************)
\* A step that touches neither agents, lists of the io threads, nor objects,
\* except that agents may go.
LEMMA QuietStep ==
    ASSUME IInv, TypeOK', MainInv', SameObjects, nSockets' = nSockets,
           ioList' = ioList,
           \A f \in DOMAIN mapAgents' :
               f \in DOMAIN mapAgents /\ mapAgents'[f] = mapAgents[f]
    PROVE  IInv'
<1>1. IOInv' /\ KeepsIntact(Sockets)
  BY IOKept
<1>2. SocketsMade'
  BY SocketsKept
<1>3. \A f \in DOMAIN mapAgents : mapAgents[f] \in Sockets
  BY DEF IInv, TypeOK
<1>4. AgentsLive'
  BY <1>1, <1>3, AgentsKept
<1>5. QED
  BY <1>1, <1>2, <1>4 DEF IInv

\* ForgetAgent takes one agent away.
LEMMA ForgetFact ==
    ASSUME NEW a, ForgetAgent(a)
    PROVE  \A f \in DOMAIN mapAgents' :
               /\ f \in DOMAIN mapAgents
               /\ f # sock[a].fd
               /\ mapAgents'[f] = mapAgents[f]
BY DEF ForgetAgent

\* Main takes a package and leaves the io threads alone.
LEMMA MainQuiet ==
    ASSUME IInv, TypeOK', NEW c, MainTakes(c), UNCHANGED ioVars,
           \A f \in DOMAIN mapAgents' :
               f \in DOMAIN mapAgents /\ mapAgents'[f] = mapAgents[f]
    PROVE  IInv'
<1>1. mainList # <<>> /\ mainList' = Tail(mainList)
  BY DEF MainTakes
<1>2. SameObjects /\ nSockets' = nSockets /\ ioList' = ioList
  BY DEF ioVars, SameObjects, SameObject
<1>3. KeepsIntact(Sockets)
  BY <1>2, IOKept
<1>4. KeepsIntact(Sockets \ {Head(mainList).socket})
  BY <1>3 DEF KeepsIntact
<1>5. MainInv'
  BY <1>1, <1>2, <1>4, MainPopped
<1>6. QED
  BY <1>2, <1>5, QuietStep

\* The accept of a socket is the first of its packages, so that the new agent
\* is that of an intact socket.
LEMMA MainAcceptSafe == IInv /\ TypeOK' /\ MainAccept => IInv'
<1> SUFFICES ASSUME IInv, TypeOK', MainAccept PROVE IInv'
  OBVIOUS
<1>1. MainTakes("accept") /\ UNCHANGED ioVars
  BY DEF MainAccept
<1>2. TypeOK
  BY DEF IInv
<1>3. PICK s \in Sockets : s = Head(mainList).socket
  BY <1>1, <1>2, MainTakesFact
<1>4. CASE HasAgent(s)
  <2>1. mapAgents' = mapAgents
    BY <1>3, <1>4 DEF MainAccept
  <2>2. QED
    BY <1>1, <2>1, MainQuiet
<1>5. CASE ~HasAgent(s)
  <2>1. mapAgents' = [f \in DOMAIN mapAgents \cup {sock[s].fd} |->
                          IF f = sock[s].fd THEN s ELSE mapAgents[f]]
    BY <1>3, <1>5 DEF MainAccept
  <2>2. /\ mainList # <<>> /\ mainList' = Tail(mainList)
        /\ Head(mainList).cmd = "accept"
    BY <1>1 DEF MainTakes
  <2>3. SameObjects /\ nSockets' = nSockets /\ ioList' = ioList /\ sock' = sock
    BY <1>1 DEF ioVars, SameObjects, SameObject
  <2>4. IOInv' /\ KeepsIntact(Sockets)
    BY <2>3, IOKept
  <2>5. MainInv'
    <3>1. KeepsIntact(Sockets \ {Head(mainList).socket})
      BY <2>4 DEF KeepsIntact
    <3>2. QED
      BY <2>2, <2>3, <3>1, MainPopped
  <2>6. Intact(s)
    <3>1. mainList \in Seq(MainPackage)
      BY <1>2 DEF TypeOK
    <3>2. 1 \in 1..Len(mainList) /\ Head(mainList) = mainList[1]
      BY <2>2, <3>1, PopFact
    <3>3. QED
      BY <1>3, <2>2, <3>2 DEF IInv, MainInv, AcceptFirst
  <2>7. AgentsLive'
    <3>1. ASSUME NEW f \in DOMAIN mapAgents'
          PROVE  /\ Live(mapAgents'[f])
                 /\ sock[mapAgents'[f]].fd = f
                 /\ ~Closing(mapAgents'[f])
      <4>1. CASE f = sock[s].fd
        BY <2>1, <2>6, <4>1 DEF Intact
      <4>2. CASE f # sock[s].fd
        BY <2>1, <4>2 DEF IInv, AgentsLive
      <4>3. QED
        BY <4>1, <4>2
    <3>2. QED
      BY <2>3, <3>1 DEF AgentsLive, Live, Closing
  <2>8. SocketsMade'
    BY <2>3, SocketsKept
  <2>9. QED
    BY <2>4, <2>5, <2>7, <2>8 DEF IInv
<1>6. QED
  BY <1>4, <1>5

\* The agent that is found answers an intact socket.
LEMMA MainRecvHeartbeatSafe == IInv /\ TypeOK' /\ MainRecvHeartbeat => IInv'
<1> SUFFICES ASSUME IInv, TypeOK', MainRecvHeartbeat PROVE IInv'
  OBVIOUS
<1>1. TypeOK
  BY DEF IInv
<1>2. /\ MainTakes("recv_buf")
      /\ HasAgent(Head(mainList).socket)
  BY DEF MainRecvHeartbeat
<1>3. PICK r \in Requests : r = Head(mainList).req
  <2>1. Head(mainList) \in MainPackage /\ Head(mainList).cmd = "recv_buf"
    BY <1>1, <1>2, MainTakesFact
  <2>2. QED
    BY <2>1 DEF MainPackage
<1>4. PICK a \in Sockets : a = Agent(Head(mainList).socket)
  BY <1>1, <1>2, AgentType
<1>5. Intact(a)
  BY <1>2, <1>4 DEF IInv, AgentsLive, HasAgent, Agent, Intact
<1>6. sock[a].thread \in Threads /\ a <= nSockets
  BY <1>5 DEF IInv, SocketsMade, Intact
<1>7. /\ SameObjects /\ nSockets' = nSockets
      /\ mapAgents' = mapAgents
      /\ ToIO(sock[a].thread, Package("send_buf", 0, a, r, "none"))
      /\ mainList # <<>> /\ mainList' = Tail(mainList)
  BY <1>2, <1>3, <1>4 DEF MainRecvHeartbeat, MainTakes, SameObjects, SameObject
<1> DEFINE p == Package("send_buf", 0, a, r, "none")
<1>8. /\ p \in IOPackage /\ p.cmd = "send_buf" /\ p.socket = a
      /\ \A s \in Sockets : ~IsClose(p, s)
  BY DEF Package, IOPackage, IsClose
<1> HIDE DEF p
<1>9. IOInv' /\ KeepsIntact({s \in Sockets : ~IsClose(p, s)})
  BY <1>5, <1>6, <1>7, <1>8, IOPushed DEF p
<1>10. KeepsIntact(Sockets)
  BY <1>8, <1>9 DEF KeepsIntact
<1>11. MainInv'
  <2>1. KeepsIntact(Sockets \ {Head(mainList).socket})
    BY <1>10 DEF KeepsIntact
  <2>2. QED
    BY <1>7, <2>1, MainPopped
<1>12. AgentsLive'
  <2>1. \A f \in DOMAIN mapAgents : mapAgents[f] \in Sockets
    BY <1>1 DEF TypeOK
  <2>2. QED
    BY <1>7, <1>10, <2>1, AgentsKept
<1>13. SocketsMade'
  BY <1>7, SocketsKept
<1>14. QED
  BY <1>9, <1>11, <1>12, <1>13 DEF IInv

\* The agent of a socket is gone before the close goes to the io thread, and
\* nothing behind the close in main's list announces the socket.
LEMMA MainCloseSafe == IInv /\ TypeOK' /\ MainClose => IInv'
<1> SUFFICES ASSUME IInv, TypeOK', MainClose PROVE IInv'
  OBVIOUS
<1>1. TypeOK
  BY DEF IInv
<1>2. MainTakes("close")
  BY DEF MainClose
<1>3. PICK s \in Sockets : s = Head(mainList).socket
  BY <1>1, <1>2, MainTakesFact
<1>4. /\ SameObjects /\ nSockets' = nSockets
      /\ mainList # <<>> /\ mainList' = Tail(mainList)
  BY <1>2 DEF MainClose, MainTakes, SameObjects, SameObject
<1>5. \A f \in DOMAIN mapAgents' :
          /\ f \in DOMAIN mapAgents
          /\ mapAgents'[f] = mapAgents[f]
          /\ f # sock[s].fd
  <2>1. CASE HasAgent(s)
    <3>1. sock[Agent(s)].fd = sock[s].fd
      BY <2>1 DEF IInv, AgentsLive, HasAgent, Agent
    <3>2. ForgetAgent(Agent(s))
      BY <1>3, <2>1 DEF MainClose
    <3>3. QED
      BY <3>1, <3>2, ForgetFact
  <2>2. CASE ~HasAgent(s)
    BY <1>3, <2>2 DEF MainClose, HasAgent
  <2>3. QED
    BY <2>1, <2>2
<1>6. IOInv' /\ KeepsIntact(Sockets \ {s})
  <2>1. CASE sock[s].thread \in Threads
    <3> DEFINE p == OnSocket("close", s)
    <3>1. ToIO(sock[s].thread, p)
      BY <1>3, <2>1 DEF MainClose
    <3>2. /\ p \in IOPackage /\ p.cmd = "close" /\ p.socket = s
          /\ \A r \in Sockets : IsClose(p, r) => r = s
      BY DEF OnSocket, Package, IOPackage, IsClose
    <3>3. s <= nSockets
      <4>1. mainList \in Seq(MainPackage)
        BY <1>1 DEF TypeOK
      <4>2. 1 \in 1..Len(mainList) /\ Head(mainList) = mainList[1]
        BY <1>4, <4>1, PopFact
      <4>3. QED
        BY <1>3, <4>2 DEF IInv, MainInv, MainListMade
    <3> HIDE DEF p
    <3>4. IOInv' /\ KeepsIntact({r \in Sockets : ~IsClose(p, r)})
      BY <1>4, <2>1, <3>1, <3>2, <3>3, IOPushed
    <3>5. KeepsIntact(Sockets \ {s})
      BY <3>2, <3>4 DEF KeepsIntact
    <3>6. QED
      BY <3>4, <3>5
  <2>2. CASE sock[s].thread \notin Threads
    <3>1. ioList' = ioList
      BY <1>3, <2>2 DEF MainClose
    <3>2. IOInv' /\ KeepsIntact(Sockets)
      BY <1>4, <3>1, IOKept
    <3>3. QED
      BY <3>2 DEF KeepsIntact
  <2>3. QED
    BY <2>1, <2>2
<1>7. MainInv'
  BY <1>3, <1>4, <1>6, MainPopped
<1>8. AgentsLive'
  <2>1. \A f \in DOMAIN mapAgents' : mapAgents[f] \in Sockets \ {s}
    <3>1. \A f \in DOMAIN mapAgents : mapAgents[f] \in Sockets
      BY <1>1 DEF TypeOK
    <3>2. \A f \in DOMAIN mapAgents : sock[mapAgents[f]].fd = f
      BY DEF IInv, AgentsLive
    <3>3. QED
      BY <1>5, <3>1, <3>2
  <2>2. QED
    BY <1>5, <1>6, <2>1, AgentsKept
<1>9. SocketsMade'
  BY <1>4, SocketsKept
<1>10. QED
  BY <1>6, <1>7, <1>8, <1>9 DEF IInv

\* Every step of main keeps the invariant.
LEMMA MainSafe == IInv /\ MainLoop => IInv'
<1> SUFFICES ASSUME IInv, MainLoop PROVE IInv'
  OBVIOUS
<1>1. TypeOK'
  BY MainType DEF IInv
<1>2. CASE MainWake \/ MainLeave
  <2>1. /\ mainList' = mainList /\ mapAgents' = mapAgents
        /\ SameObjects /\ nSockets' = nSockets /\ ioList' = ioList
    BY <1>2 DEF MainWake, MainLeave, ioVars, SameObjects, SameObject
  <2>2. KeepsIntact(Sockets)
    BY <2>1, IOKept
  <2>3. MainInv'
    BY <2>1, <2>2, MainKept
  <2>4. QED
    BY <1>1, <2>1, <2>3, QuietStep
<1>3. CASE MainAccept
  BY <1>1, <1>3, MainAcceptSafe
<1>4. CASE MainRecvNoAgent \/ MainRecvOther
  <2>1. MainTakes("recv_buf") /\ UNCHANGED ioVars /\ mapAgents' = mapAgents
    BY <1>4 DEF MainRecvNoAgent, MainRecvOther
  <2>2. QED
    BY <1>1, <2>1, MainQuiet
<1>5. CASE MainRecvHeartbeat
  BY <1>1, <1>5, MainRecvHeartbeatSafe
<1>6. CASE MainRecvShort
  <2>1. /\ MainTakes("recv_buf") /\ UNCHANGED ioVars
        /\ ForgetAgent(Agent(Head(mainList).socket))
    BY <1>6 DEF MainRecvShort
  <2>2. QED
    BY <1>1, <2>1, MainQuiet, ForgetFact
<1>7. CASE MainClose
  BY <1>1, <1>7, MainCloseSafe
<1>8. QED
  BY <1>2, <1>3, <1>4, <1>5, <1>6, <1>7 DEF MainLoop

\* acceptCallback sends a descriptor, no socket.
LEMMA AcceptSafe ==
    ASSUME IInv, AcceptConnection \/ AcceptRefused \/ AcceptFailed
    PROVE  IInv'
<1>1. TypeOK /\ TypeOK'
  BY AcceptType DEF IInv
<1>2. /\ mainList' = mainList /\ mapAgents' = mapAgents
      /\ SameObjects /\ nSockets' = nSockets
  BY DEF AcceptConnection, AcceptRefused, AcceptFailed, mainVars, ioVars,
         SameObjects, SameObject
<1>3. IOInv' /\ KeepsIntact(Sockets)
  <2>1. CASE AcceptRefused
    <3>1. ioList' = ioList
      BY <2>1 DEF AcceptRefused, ioVars
    <3>2. QED
      BY <1>2, <3>1, IOKept
  <2>2. CASE AcceptConnection \/ AcceptFailed
    <3>1. PICK f \in Fds \cup {BadFd} : HandOver(f)
      BY <2>2 DEF AcceptConnection, AcceptFailed
    <3>2. PICK p : p = Package("accept", f, 0, 0, "none")
      OBVIOUS
    <3>3. /\ p \in IOPackage /\ p.cmd = "accept" /\ p.socket = 0
          /\ \A s \in Sockets : ~IsClose(p, s)
      BY <3>2 DEF Package, IOPackage, IsClose
    <3>4. ToIO(nCurrentThread, p) /\ nCurrentThread \in Threads
      BY <1>1, <3>1, <3>2 DEF HandOver, TypeOK
    <3>5. 0 <= nSockets
      BY <1>1 DEF TypeOK
    <3>6. IOInv' /\ KeepsIntact({s \in Sockets : ~IsClose(p, s)})
      BY <1>2, <3>3, <3>4, <3>5, IOPushed
    <3>7. QED
      BY <3>3, <3>6 DEF KeepsIntact
  <2>3. QED
    BY <2>1, <2>2
<1>4. MainInv'
  BY <1>2, <1>3, MainKept
<1>5. AgentsLive'
  <2>1. \A f \in DOMAIN mapAgents : mapAgents[f] \in Sockets
    BY <1>1 DEF TypeOK
  <2>2. QED
    BY <1>2, <1>3, <2>1, AgentsKept
<1>6. SocketsMade'
  BY <1>2, SocketsKept
<1>7. QED
  BY <1>1, <1>3, <1>4, <1>5, <1>6 DEF IInv

\* The object that IOAccept makes is announced to main as the newest package.
LEMMA IOAcceptSafe ==
    ASSUME IInv, TypeOK', NEW t \in Threads, IOAccept(t)
    PROVE  IInv'
<1>1. TypeOK
  BY DEF IInv
<1>2. IOTakes(t, "accept")
  BY DEF IOAccept
<1>3. /\ ioList[t] # <<>> /\ ioList' = [ioList EXCEPT ![t] = Tail(@)]
      /\ mapAgents' = mapAgents
      /\ Head(ioList[t]).fd \in Fds \cup {BadFd}
  BY <1>1, <1>2, IOTakesFact
<1>4. PICK n \in Sockets : n = nSockets'
  BY <1>1 DEF IOAccept, TypeOK, Sockets
<1>5. /\ nSockets \in Nat /\ nSockets' \in Nat
      /\ n = nSockets + 1 /\ n > nSockets /\ nSockets' >= nSockets
  <2>1. nSockets \in Nat
    BY <1>1 DEF TypeOK
  <2>2. nSockets' = nSockets + 1
    BY DEF IOAccept
  <2>3. QED
    BY <1>4, <2>1, <2>2
<1>6. PICK f \in Fds \cup {BadFd} :
          /\ sock' = [sock EXCEPT ![n] = Accepted(f, t)]
          /\ ToMain(OnSocket("accept", n))
  BY <1>3, <1>4 DEF IOAccept
<1>7. sock \in [Sockets -> SocketType]
  BY <1>1 DEF TypeOK
<1>8. /\ \A s \in Sockets : s # n => sock'[s] = sock[s]
      /\ sock'[n].mem = "live" /\ sock'[n].thread = t
  BY <1>6, <1>7 DEF Accepted
<1>9. IOInv' /\ KeepsIntact(Sockets)
  <2>1. \A s \in Sockets : SameObject(sock'[s], sock[s]) \/ s > nSockets
    BY <1>5, <1>8 DEF SameObject
  <2>2. QED
    BY <1>3, <1>5, <2>1, IOPopped
<1>10. SocketsMade'
  <2>1. ASSUME NEW s \in Sockets, sock'[s].mem = "live"
        PROVE  s <= nSockets' /\ sock'[s].thread \in Threads
    <3>1. CASE s = n
      BY <1>4, <1>5, <1>8, <3>1
    <3>2. CASE s # n
      <4>1. s \in Nat /\ s <= nSockets /\ sock[s].thread \in Threads
        BY <1>8, <2>1, <3>2 DEF IInv, SocketsMade, Live, Sockets
      <4>2. QED
        BY <1>5, <1>4, <1>8, <3>2, <4>1
    <3>3. QED
      BY <3>1, <3>2
  <2>2. QED
    BY <2>1 DEF SocketsMade, Live
<1>11. Intact(n)'
  <2>1. IOListMade'
    BY <1>9 DEF IOInv
  <2>2. ASSUME NEW u \in Threads, NEW i \in 1..Len(ioList'[u])
        PROVE  ~IsClose(ioList'[u][i], n)
    <3>1. /\ Before(u, t, i) \in 1..Len(ioList[u])
          /\ ioList'[u][i] = ioList[u][Before(u, t, i)]
          /\ ioList[u][Before(u, t, i)] \in IOPackage
      BY <1>1, <1>3, PopBefore
    <3>2. ioList[u][Before(u, t, i)].socket <= nSockets
      BY <3>1 DEF IInv, IOInv, IOListMade
    <3>3. QED
      BY <1>5, <3>1, <3>2 DEF IsClose
  <2>3. QED
    BY <1>8, <2>2 DEF Intact, Live, Closing, IsClose
<1>12. MainInv'
  <2>1. PICK p : p = OnSocket("accept", n)
    OBVIOUS
  <2>2. p \in MainPackage /\ p.socket = n
    BY <2>1, OnSocketFact DEF OnSocket, Package
  <2>3. p.socket <= nSockets' /\ p.socket > nSockets /\ Intact(p.socket)'
    BY <1>4, <1>5, <1>11, <2>2
  <2>4. QED
    BY <1>5, <1>6, <1>9, <2>1, <2>2, <2>3, MainAppended
<1>13. AgentsLive'
  <2>1. \A fd \in DOMAIN mapAgents : mapAgents[fd] \in Sockets
    BY <1>1 DEF TypeOK
  <2>2. QED
    BY <1>3, <1>9, <2>1, AgentsKept
<1>14. QED
  BY <1>9, <1>10, <1>12, <1>13 DEF IInv

\* The thread that deletes a socket was told so, which means that the socket
\* has no agent, is not announced, and has no reply behind the close.
LEMMA IOCloseSafe ==
    ASSUME IInv, TypeOK', NEW t \in Threads, IOClose(t)
    PROVE  IInv'
<1>1. TypeOK
  BY DEF IInv
<1>2. IOTakes(t, "close")
  BY DEF IOClose
<1>3. /\ ioList[t] # <<>> /\ ioList' = [ioList EXCEPT ![t] = Tail(@)]
      /\ mapAgents' = mapAgents
      /\ ioList[t] \in Seq(IOPackage)
      /\ Head(ioList[t]).cmd = "close"
  BY <1>1, <1>2, IOTakesFact
<1>4. PICK s \in Sockets : s = Head(ioList[t]).socket
  BY <1>1, <1>2, IOTakesFact
<1>5. /\ mainList' = mainList /\ nSockets' = nSockets /\ nSockets \in Nat
  <2>1. nSockets \in Nat
    BY <1>1 DEF TypeOK
  <2>2. QED
    BY <2>1 DEF IOClose
<1>6. IsClose(ioList[t][1], s)
  <2>1. Head(ioList[t]) = ioList[t][1]
    BY <1>3, PopFact
  <2>2. QED
    BY <1>3, <1>4, <2>1 DEF IsClose
<1>7. sock' = sock \/ sock' = [sock EXCEPT ![s] = Released(sock[s])]
  BY <1>4 DEF IOClose
<1>8. /\ \A r \in Sockets : r # s => sock'[r] = sock[r]
      /\ sock'[s].mem # "live" \/ sock'[s] = sock[s]
  <2>1. sock \in [Sockets -> SocketType]
    BY <1>1 DEF TypeOK
  <2>2. QED
    BY <1>7, <2>1 DEF Released
<1>9. IOInv' /\ KeepsIntact(Sockets)
  <2>1. \A r \in Sockets : \/ SameObject(sock'[r], sock[r])
                           \/ r > nSockets
                           \/ IsClose(ioList[t][1], r) /\ ~Live(r)'
    <3>1. ASSUME NEW r \in Sockets, ~SameObject(sock'[r], sock[r])
          PROVE  r = s /\ sock'[r].mem # "live"
      BY <1>8, <3>1 DEF SameObject
    <3>2. QED
      BY <1>6, <3>1 DEF Live
  <2>2. nSockets' \in Nat /\ nSockets' >= nSockets
    BY <1>5
  <2>3. QED
    BY <1>3, <2>1, <2>2, IOPopped
<1>10. SocketsMade'
  <2>1. ASSUME NEW r \in Sockets, sock'[r].mem = "live"
        PROVE  r <= nSockets /\ sock'[r].thread \in Threads
    <3>1. sock'[r] = sock[r]
      BY <1>8, <2>1
    <3>2. SocketsMade
      BY DEF IInv
    <3>3. QED
      BY <2>1, <3>1, <3>2 DEF SocketsMade, Live
  <2>2. QED
    BY <1>5, <2>1 DEF SocketsMade, Live
<1>11. MainInv'
  BY <1>5, <1>9, MainKept
<1>12. AgentsLive'
  <2>1. \A f \in DOMAIN mapAgents : mapAgents[f] \in Sockets
    BY <1>1 DEF TypeOK
  <2>2. QED
    BY <1>3, <1>9, <2>1, AgentsKept
<1>13. QED
  BY <1>9, <1>10, <1>11, <1>12 DEF IInv

\* So does every step of an io thread.
LEMMA IOSafe ==
    ASSUME IInv, NEW t \in Threads, IOLoop(t)
    PROVE  IInv'
<1>1. TypeOK /\ TypeOK'
  BY IOType DEF IInv
<1>2. sock \in [Sockets -> SocketType]
  BY <1>1 DEF TypeOK
<1>3. \A f \in DOMAIN mapAgents : mapAgents[f] \in Sockets
  BY <1>1 DEF TypeOK
<1>4. CASE IOWake(t)
  <2>1. /\ mainList' = mainList /\ mapAgents' = mapAgents
        /\ SameObjects /\ nSockets' = nSockets /\ ioList' = ioList
    BY <1>4 DEF IOWake, mainVars, SameObjects, SameObject
  <2>2. MainInv'
    BY <2>1, IOKept, MainKept
  <2>3. QED
    BY <1>1, <2>1, <2>2, QuietStep
<1>5. CASE IOAccept(t)
  BY <1>1, <1>5, IOAcceptSafe
<1>6. CASE IOAcceptFailed(t) \/ IOSend(t)
  <2>1. PICK c \in {"accept", "send_buf"} : IOTakes(t, c)
    BY <1>6 DEF IOAcceptFailed, IOSend
  <2>2. /\ ioList[t] # <<>> /\ ioList' = [ioList EXCEPT ![t] = Tail(@)]
        /\ mapAgents' = mapAgents
    BY <1>1, <2>1, IOTakesFact
  <2>3. mainList' = mainList /\ nSockets' = nSockets
    BY <1>6 DEF IOAcceptFailed, IOSend
  <2>4. SameObjects
    <3>1. CASE IOAcceptFailed(t)
      BY <3>1 DEF IOAcceptFailed, SameObjects, SameObject
    <3>2. CASE IOSend(t)
      <4>1. IOTakes(t, "send_buf")
        BY <3>2 DEF IOSend
      <4>2. PICK s \in Sockets, q \in Requests :
                s = Head(ioList[t]).socket /\ q = Head(ioList[t]).req
        BY <1>1, <4>1, IOTakesFact
      <4>3. PICK r \in {sock[s], consumeSendBuf(sock[s])} :
                sock' = [sock EXCEPT ![s] = expandSendBuf(r, q)]
        BY <3>2, <4>2 DEF IOSend
      <4>4. r \in SocketType /\ SameObject(r, sock[s])
        BY <1>2, ConsumeFact DEF SameObject
      <4>5. SameObject(expandSendBuf(r, q), sock[s])
        BY <4>4, ExpandFact DEF SameObject
      <4>6. QED
        BY <1>1, <4>3, <4>5, SameUpdate
    <3>3. QED
      BY <1>6, <3>1, <3>2
  <2>5. IOInv' /\ KeepsIntact(Sockets)
    <3>1. nSockets' \in Nat /\ nSockets' >= nSockets
      BY <1>1, <2>3 DEF TypeOK
    <3>2. QED
      BY <2>2, <2>4, <3>1, IOPopped DEF SameObjects
  <2>6. MainInv'
    BY <2>3, <2>5, MainKept
  <2>7. AgentsLive'
    BY <1>3, <2>2, <2>5, AgentsKept
  <2>8. SocketsMade'
    BY <2>3, <2>4, SocketsKept
  <2>9. QED
    BY <1>1, <2>5, <2>6, <2>7, <2>8 DEF IInv
<1>7. CASE IOClose(t)
  BY <1>1, <1>7, IOCloseSafe
<1>8. CASE IOFlush(t)
  <2>1. sock' = [s \in Sockets |-> IF s \in needSendList[t]
                                   THEN consumeSendBuf(sock[s]) ELSE sock[s]]
    BY <1>8 DEF IOFlush
  <2>2. SameObjects
    BY <1>2, <2>1, ConsumeFact DEF SameObjects, SameObject
  <2>3. /\ mainList' = mainList /\ mapAgents' = mapAgents
        /\ nSockets' = nSockets /\ ioList' = ioList
    BY <1>8 DEF IOFlush, mainVars
  <2>4. MainInv'
    BY <2>2, <2>3, IOKept, MainKept
  <2>5. QED
    BY <1>1, <2>2, <2>3, <2>4, QuietStep
<1>9. QED
  BY <1>4, <1>5, <1>6, <1>7, <1>8 DEF IOLoop

\* The callbacks of libevent send main requests and closes of allocated sockets.
LEMMA ClientSafe ==
    ASSUME IInv, NEW s \in Sockets,
           Read(s) \/ ReadCloseFrame(s) \/ ReadEvent(s) \/ WriteEvent(s)
    PROVE  IInv'
<1>1. TypeOK /\ TypeOK'
  BY ClientType DEF IInv
<1>2. mapAgents' = mapAgents /\ ioList' = ioList /\ nSockets' = nSockets
  <2>1. Unaffected
    BY DEF Read, ReadCloseFrame, ReadEvent, WriteEvent
  <2>2. QED
    BY <2>1 DEF Unaffected
<1>3. sock[s].mem = "live" /\ s <= nSockets
  <2>1. Served(s)
    BY DEF Read, ReadCloseFrame, ReadEvent, WriteEvent
  <2>2. QED
    BY <2>1 DEF Served, IInv, SocketsMade, Live
<1>4. SameObjects
  <2>1. sock[s] \in SocketType
    BY <1>1 DEF TypeOK
  <2>2. PICK r : SameObject(r, sock[s]) /\ (sock' = sock \/ sock' = [sock EXCEPT ![s] = r])
    <3>1. CASE Read(s)
      BY <3>1 DEF Read, SameObject
    <3>2. CASE ReadCloseFrame(s)
      BY <2>1, <3>2 DEF ReadCloseFrame, SameObject, SocketType
    <3>3. CASE ReadEvent(s)
      BY <2>1, <3>3 DEF ReadEvent, SameObject, SocketType
    <3>4. CASE WriteEvent(s)
      BY <2>1, <3>4 DEF WriteEvent, SameObject, SocketType
    <3>5. QED
      BY <3>1, <3>2, <3>3, <3>4
  <2>3. CASE sock' = sock
    BY <2>3 DEF SameObjects, SameObject
  <2>4. QED
    BY <1>1, <2>2, <2>3, SameUpdate
<1>5. KeepsIntact(Sockets)
  BY <1>2, <1>4, IOKept
<1>6. MainInv'
  <2>1. \/ mainList' = mainList
        \/ \E p \in MainPackage :
               ToMain(p) /\ p.cmd # "accept" /\ p.socket = s
    <3>1. CASE Read(s)
      <4>1. \/ mainList' = mainList
            \/ \E k \in Kinds : ToMain(Package("recv_buf", 0, s, sent'[s], k))
        BY <3>1 DEF Read
      <4>2. sent'[s] \in Requests
        <5>1. sent \in [Sockets -> 0..MaxReq]
          BY <1>1 DEF TypeOK
        <5>2. sent' = [sent EXCEPT ![s] = sent[s] + 1] /\ sent[s] < MaxReq
          BY <3>1 DEF Read
        <5>3. QED
          BY <5>1, <5>2 DEF Requests
      <4>3. ASSUME NEW k \in Kinds
            PROVE  LET p == Package("recv_buf", 0, s, sent'[s], k)
                   IN  p \in MainPackage /\ p.cmd # "accept" /\ p.socket = s
        BY <4>2 DEF Package, MainPackage, Kinds
      <4>4. QED
        BY <4>1, <4>3
    <3>2. CASE ReadCloseFrame(s)
      BY <3>2 DEF ReadCloseFrame
    <3>3. CASE ReadEvent(s) \/ WriteEvent(s)
      <4>1. ToMain(OnSocket("close", s))
        BY <3>3 DEF ReadEvent, WriteEvent
      <4>2. /\ OnSocket("close", s) \in MainPackage
            /\ OnSocket("close", s).cmd # "accept"
            /\ OnSocket("close", s).socket = s
        BY OnSocketFact DEF OnSocket, Package
      <4>3. QED
        BY <4>1, <4>2
    <3>4. QED
      BY <3>1, <3>2, <3>3
  <2>2. CASE mainList' = mainList
    BY <1>2, <1>5, <2>2, MainKept
  <2>3. ASSUME NEW p \in MainPackage, ToMain(p), p.cmd # "accept", p.socket = s
        PROVE  MainInv'
    <3>1. nSockets' \in Nat /\ nSockets' >= nSockets /\ p.socket <= nSockets'
      BY <1>1, <1>2, <1>3, <2>3, SMTT(30) DEF TypeOK
    <3>2. QED
      BY <1>5, <2>3, <3>1, MainAppended
  <2>4. QED
    BY <2>1, <2>2, <2>3
<1>7. QED
  BY <1>1, <1>2, <1>4, <1>6, QuietStep

\* So does every step.
LEMMA NextSafe == IInv /\ [Next]_vars => IInv'
<1> SUFFICES ASSUME IInv, [Next]_vars PROVE IInv'
  OBVIOUS
<1>1. CASE UNCHANGED vars
  <2>1. /\ mainList' = mainList /\ mapAgents' = mapAgents
        /\ SameObjects /\ nSockets' = nSockets /\ ioList' = ioList
    BY <1>1 DEF vars, mainVars, ioVars, SameObjects, SameObject
  <2>2. TypeOK'
    BY NextType DEF IInv
  <2>3. MainInv'
    BY <2>1, IOKept, MainKept
  <2>4. QED
    BY <2>1, <2>2, <2>3, QuietStep
<1>2. QED
  BY <1>1, MainSafe, AcceptSafe, IOSafe, ClientSafe DEF Next

\* The invariant on agents, sockets and packages holds in every run.
LEMMA Invariance == Spec => []IInv
BY InitSafe, NextSafe, PTL DEF Spec

\* No agent of the main thread outlives its socket, however accepts, closes,
\* descriptors that are used again and packages in flight interleave
\* (ServerSocket::pairCallback and deleteAgent).
THEOREM AgentsSafe == Spec => []AgentsLive
<1>1. IInv => AgentsLive
  BY DEF IInv
<1>2. QED
  BY <1>1, Invariance, PTL

\* No reply reaches a deleted socket or a thread that does not own it
\* (AgentClient::send, ServerSocketIOThread::pairCallback).
THEOREM SendsSafe == Spec => []SendTargetsLive
<1>1. IInv => SendTargetsLive
  BY DEF IInv, IOInv
<1>2. QED
  BY <1>1, Invariance, PTL

-----------------------------------------------------------------------------
(***************************************************************************)
(* Who owns a descriptor. A descriptor that the kernel gave out is handed    *)
(* over once: it is in one accept package on its way to an io thread, or     *)
(* belongs to one socket, never both, until the socket is deleted and the    *)
(* descriptor closed in the same step. A step that is not an accept makes    *)
(* no new owner.                                                             *)
(***************************************************************************)

\* Package i of thread t carries a valid descriptor to it.
Hand(t, i) == ioList[t][i].cmd = "accept" /\ ioList[t][i].fd # BadFd

HandsOpen ==
    \A t \in Threads : \A i \in 1..Len(ioList[t]) :
        Hand(t, i) => ioList[t][i].fd \in open

HandsApart ==
    \A t, u \in Threads : \A i \in 1..Len(ioList[t]), j \in 1..Len(ioList[u]) :
        Hand(t, i) /\ Hand(u, j) /\ ioList[t][i].fd = ioList[u][j].fd
            => t = u /\ i = j

HandsFree ==
    \A t \in Threads : \A i \in 1..Len(ioList[t]) : \A s \in Sockets :
        Hand(t, i) /\ Live(s) => sock[s].fd # ioList[t][i].fd

Owners == HandsOpen /\ HandsApart /\ HandsFree /\ FdsOwned

\* Released and Unused have the descriptor 0, which the kernel does not give
\* to a connection.
LiveHasFd == \A s \in Sockets : Live(s) <=> sock[s].fd # 0

\* Nothing is read on the invalid descriptor.
RequestsHaveFd ==
    \A i \in 1..Len(mainList) :
        mainList[i].cmd = "recv_buf" => sock[mainList[i].socket].fd # BadFd

-----------------------------------------------------------------------------
(***************************************************************************)
(* What the steps change                                                   *)
(***************************************************************************)
\* Only the accept and the close of an io thread make or delete objects.
Makes == \E t \in Threads : IOAccept(t)
Deletes == \E t \in Threads : IOClose(t)

\* The descriptors on their way are some of those that were, each still in the
\* list of its thread, one place nearer to the front where the list was popped.
Inherits ==
    \E d \in [Threads -> {0, 1}] :
        \A t \in Threads : \A i \in 1..Len(ioList'[t]) :
            Hand(t, i)' => /\ i + d[t] \in 1..Len(ioList[t])
                           /\ ioList'[t][i] = ioList[t][i + d[t]]

\* The callbacks of libevent keep the objects.
LEMMA ClientObjects ==
    ASSUME TypeOK, NEW s \in Sockets,
           Read(s) \/ ReadCloseFrame(s) \/ ReadEvent(s) \/ WriteEvent(s)
    PROVE  SameObjects /\ UNCHANGED <<nSockets, ioList, open>>
<1>1. UNCHANGED <<nSockets, ioList, open>>
  <2>1. Unaffected
    BY DEF Read, ReadCloseFrame, ReadEvent, WriteEvent
  <2>2. QED
    BY <2>1 DEF Unaffected
<1>2. sock[s] \in SocketType
  BY DEF TypeOK
<1>3. PICK r : SameObject(r, sock[s]) /\ (sock' = sock \/ sock' = [sock EXCEPT ![s] = r])
  <2>1. CASE Read(s)
    BY <2>1 DEF Read, SameObject
  <2>2. CASE ReadCloseFrame(s)
    BY <1>2, <2>2 DEF ReadCloseFrame, SameObject, SocketType
  <2>3. CASE ReadEvent(s)
    BY <1>2, <2>3 DEF ReadEvent, SameObject, SocketType
  <2>4. CASE WriteEvent(s)
    BY <1>2, <2>4 DEF WriteEvent, SameObject, SocketType
  <2>5. QED
    BY <2>1, <2>2, <2>3, <2>4
<1>4. CASE sock' = sock
  BY <1>1, <1>4 DEF SameObjects, SameObject
<1>5. QED
  BY <1>1, <1>3, <1>4, SameUpdate

\* A reply and the writing out of the buffers keep them too.
LEMMA SendObjects ==
    ASSUME TypeOK, NEW t \in Threads, IOSend(t) \/ IOFlush(t)
    PROVE  SameObjects
<1>1. sock \in [Sockets -> SocketType]
  BY DEF TypeOK
<1>2. CASE IOSend(t)
  <2>1. IOTakes(t, "send_buf")
    BY <1>2 DEF IOSend
  <2>2. PICK s \in Sockets, q \in Requests :
            s = Head(ioList[t]).socket /\ q = Head(ioList[t]).req
    BY <2>1, IOTakesFact
  <2>3. PICK r \in {sock[s], consumeSendBuf(sock[s])} :
            sock' = [sock EXCEPT ![s] = expandSendBuf(r, q)]
    BY <1>2, <2>2 DEF IOSend
  <2>4. r \in SocketType /\ SameObject(r, sock[s])
    BY <1>1, ConsumeFact DEF SameObject
  <2>5. SameObject(expandSendBuf(r, q), sock[s])
    BY <2>4, ExpandFact DEF SameObject
  <2>6. QED
    BY <2>3, <2>5, SameUpdate
<1>3. CASE IOFlush(t)
  <2>1. sock' = [s \in Sockets |-> IF s \in needSendList[t]
                                   THEN consumeSendBuf(sock[s]) ELSE sock[s]]
    BY <1>3 DEF IOFlush
  <2>2. QED
    BY <1>1, <2>1, ConsumeFact DEF SameObjects, SameObject
<1>4. QED
  BY <1>2, <1>3

\* Every other step keeps all objects and closes nothing.
LEMMA OthersKeep ==
    ASSUME TypeOK, [Next]_vars, ~Makes, ~Deletes
    PROVE  /\ SameObjects
           /\ nSockets' = nSockets
           /\ ~AcceptConnection => open' = open
<1>1. ASSUME sock' = sock PROVE SameObjects
  BY <1>1 DEF SameObjects, SameObject
<1>2. CASE UNCHANGED vars
  BY <1>1, <1>2 DEF vars, ioVars, envVars
<1>3. CASE MainLoop
  <2>1. UNCHANGED <<sock, nSockets, open>>
    BY <1>3 DEF MainLoop, MainWake, MainAccept, MainRecvNoAgent, MainRecvHeartbeat,
                MainRecvOther, MainRecvShort, MainClose, MainLeave, MainTakes,
                ioVars, envVars
  <2>2. QED
    BY <1>1, <2>1
<1>4. CASE AcceptConnection \/ AcceptRefused \/ AcceptFailed
  <2>1. UNCHANGED <<sock, nSockets>> /\ (~AcceptConnection => open' = open)
    BY <1>4 DEF AcceptConnection, AcceptRefused, AcceptFailed, ioVars
  <2>2. QED
    BY <1>1, <2>1
<1>5. ASSUME NEW t \in Threads, IOLoop(t)
      PROVE  SameObjects /\ UNCHANGED <<nSockets, open>>
  <2>1. CASE IOWake(t) \/ IOAcceptFailed(t)
    <3>1. UNCHANGED <<sock, nSockets, open>>
      BY <2>1 DEF IOWake, IOAcceptFailed, envVars
    <3>2. QED
      BY <1>1, <3>1
  <2>2. CASE IOSend(t) \/ IOFlush(t)
    <3>1. UNCHANGED <<nSockets, open>>
      BY <2>2 DEF IOSend, IOFlush, envVars
    <3>2. QED
      BY <2>2, <3>1, SendObjects
  <2>3. ~IOAccept(t) /\ ~IOClose(t)
    BY DEF Makes, Deletes
  <2>4. QED
    BY <1>5, <2>1, <2>2, <2>3 DEF IOLoop
<1>6. QED
  BY <1>2, <1>3, <1>4, <1>5, ClientObjects DEF Next

\* The lists stay as they are.
LEMMA ListsKept ==
    ASSUME TypeOK, ioList' = ioList
    PROVE  Inherits
<1> DEFINE d == [t \in Threads |-> 0]
<1>1. d \in [Threads -> {0, 1}]
  OBVIOUS
<1>2. ASSUME NEW t \in Threads, NEW i \in 1..Len(ioList'[t])
      PROVE  /\ i + d[t] \in 1..Len(ioList[t])
             /\ ioList'[t][i] = ioList[t][i + d[t]]
  <2>1. d[t] = 0 /\ i \in Nat
    OBVIOUS
  <2>2. i + d[t] = i
    BY <2>1
  <2>3. QED
    BY <1>2, <2>2
<1> HIDE DEF d
<1>3. QED
  BY <1>1, <1>2 DEF Inherits

\* A thread takes a package.
LEMMA ListsPopped ==
    ASSUME TypeOK, NEW u \in Threads, ioList[u] # <<>>,
           ioList' = [ioList EXCEPT ![u] = Tail(@)]
    PROVE  Inherits /\ \A t \in Threads : \A i \in 1..Len(ioList'[t]) :
                           /\ Before(t, u, i) \in 1..Len(ioList[t])
                           /\ ioList'[t][i] = ioList[t][Before(t, u, i)]
<1> DEFINE d == [t \in Threads |-> IF t = u THEN 1 ELSE 0]
<1>1. d \in [Threads -> {0, 1}]
  OBVIOUS
<1>2. ASSUME NEW t \in Threads, NEW i \in 1..Len(ioList'[t])
      PROVE  /\ Before(t, u, i) \in 1..Len(ioList[t])
             /\ ioList'[t][i] = ioList[t][Before(t, u, i)]
             /\ Before(t, u, i) = i + d[t]
  <2>1. i \in Nat /\ Before(t, u, i) \in 1..Len(ioList[t])
           /\ ioList'[t][i] = ioList[t][Before(t, u, i)]
    BY PopBefore
  <2>2. d[t] = IF t = u THEN 1 ELSE 0
    OBVIOUS
  <2> HIDE DEF d
  <2>3. Before(t, u, i) = i + d[t]
    BY <2>1, <2>2 DEF Before
  <2>4. QED
    BY <2>1, <2>3
<1> HIDE DEF d
<1>3. ASSUME NEW t \in Threads, NEW i \in 1..Len(ioList'[t])
      PROVE  /\ i + d[t] \in 1..Len(ioList[t])
             /\ ioList'[t][i] = ioList[t][i + d[t]]
  BY <1>2
<1>4. Inherits
  BY <1>1, <1>3 DEF Inherits
<1>5. QED
  BY <1>2, <1>4

\* A thread is sent anything but a valid descriptor.
LEMMA ListsPushed ==
    ASSUME TypeOK, NEW u \in Threads, NEW p \in IOPackage, ToIO(u, p),
           p.cmd = "accept" => p.fd = BadFd
    PROVE  Inherits
<1> DEFINE d == [t \in Threads |-> 0]
<1>1. d \in [Threads -> {0, 1}]
  OBVIOUS
<1>2. ASSUME NEW t \in Threads, NEW i \in 1..Len(ioList'[t]), Hand(t, i)'
      PROVE  /\ i + d[t] \in 1..Len(ioList[t])
             /\ ioList'[t][i] = ioList[t][i + d[t]]
  <2>1. i \in Nat /\ d[t] = 0
    OBVIOUS
  <2>2. i + d[t] = i
    BY <2>1
  <2>3. ioList'[t][i] # p
    BY <1>2 DEF Hand
  <2>4. i \in 1..Len(ioList[t]) /\ ioList'[t][i] = ioList[t][i]
    BY <2>3, PushAfter
  <2>5. QED
    BY <2>2, <2>4
<1> HIDE DEF d
<1>3. QED
  BY <1>1, <1>2 DEF Inherits

\* Only a successful accept sends a valid descriptor on its way.
LEMMA NextInherits ==
    ASSUME IInv, [Next]_vars, ~AcceptConnection
    PROVE  Inherits
<1>1. TypeOK
  BY DEF IInv
<1>2. CASE UNCHANGED vars
  BY <1>1, <1>2, ListsKept DEF vars, ioVars
<1>3. CASE AcceptRefused
  BY <1>1, <1>3, ListsKept DEF AcceptRefused, ioVars
<1>4. CASE AcceptFailed
  <2>1. PICK p : p = Package("accept", BadFd, 0, 0, "none")
    OBVIOUS
  <2>2. p \in IOPackage /\ p.fd = BadFd
    BY <2>1 DEF Package, IOPackage
  <2>3. ToIO(nCurrentThread, p) /\ nCurrentThread \in Threads
    BY <1>1, <1>4, <2>1 DEF AcceptFailed, HandOver, TypeOK
  <2>4. QED
    BY <1>1, <2>2, <2>3, ListsPushed
<1>5. CASE MainLoop
  <2>1. \/ ioList' = ioList
        \/ \E t \in Threads, p \in IOPackage : ToIO(t, p) /\ p.cmd # "accept"
    <3>1. CASE MainRecvHeartbeat
      <4> DEFINE p == Head(mainList)
                 a == Agent(p.socket)
                 q == Package("send_buf", 0, a, p.req, "none")
      <4>1. MainTakes("recv_buf") /\ HasAgent(p.socket)
        BY <3>1 DEF MainRecvHeartbeat
      <4>2. p \in MainPackage /\ p.cmd = "recv_buf"
        BY <1>1, <4>1, MainTakesFact
      <4>3. p.req \in Requests
        BY <4>2 DEF MainPackage
      <4>4. a \in Sockets
        BY <1>1, <4>1, AgentType
      <4>5. q \in IOPackage /\ q.cmd # "accept"
        BY <4>3, <4>4 DEF Package, IOPackage
      <4>6. a = mapAgents[sock[p.socket].fd] /\ Live(a)
        BY <4>1 DEF IInv, AgentsLive, HasAgent, Agent
      <4>7. sock[a].thread \in Threads
        BY <4>4, <4>6 DEF IInv, SocketsMade
      <4>8. ToIO(sock[a].thread, q)
        BY <3>1 DEF MainRecvHeartbeat
      <4>9. QED
        BY <4>5, <4>7, <4>8
    <3>2. CASE MainClose
      <4>1. PICK s \in Sockets : s = Head(mainList).socket
        BY <1>1, <3>2, MainTakesFact DEF MainClose
      <4>2. OnSocket("close", s) \in IOPackage /\ OnSocket("close", s).cmd # "accept"
        BY OnSocketFact DEF OnSocket, Package
      <4>3. \/ ioList' = ioList
            \/ sock[s].thread \in Threads /\ ToIO(sock[s].thread, OnSocket("close", s))
        BY <3>2, <4>1 DEF MainClose
      <4>4. QED
        BY <4>2, <4>3
    <3>3. CASE ~MainRecvHeartbeat /\ ~MainClose
      BY <1>5, <3>3 DEF MainLoop, MainWake, MainAccept, MainRecvNoAgent,
                        MainRecvOther, MainRecvShort, MainLeave, ioVars
    <3>4. QED
      BY <3>1, <3>2, <3>3
  <2>2. QED
    BY <1>1, <2>1, ListsKept, ListsPushed
<1>6. ASSUME NEW t \in Threads, IOLoop(t) PROVE Inherits
  <2>1. CASE IOWake(t) \/ IOFlush(t)
    BY <1>1, <2>1, ListsKept DEF IOWake, IOFlush
  <2>2. CASE IOAccept(t) \/ IOAcceptFailed(t) \/ IOSend(t) \/ IOClose(t)
    <3>1. PICK c : IOTakes(t, c)
      BY <2>2 DEF IOAccept, IOAcceptFailed, IOSend, IOClose
    <3>2. ioList[t] # <<>> /\ ioList' = [ioList EXCEPT ![t] = Tail(@)]
      BY <3>1 DEF IOTakes
    <3>3. QED
      BY <1>1, <3>2, ListsPopped
  <2>3. QED
    BY <1>6, <2>1, <2>2 DEF IOLoop
<1>7. ASSUME NEW s \in Sockets,
             Read(s) \/ ReadCloseFrame(s) \/ ReadEvent(s) \/ WriteEvent(s)
      PROVE  Inherits
  BY <1>1, <1>7, ClientObjects, ListsKept
<1>8. QED
  BY <1>2, <1>3, <1>4, <1>5, <1>6, <1>7 DEF Next

\* The accept of thread t makes the next socket, with the descriptor that it
\* was sent.
LEMMA MakeFacts ==
    ASSUME IInv, NEW t \in Threads, IOAccept(t)
    PROVE  \E n \in Sockets, f \in Fds \cup {BadFd} :
               /\ n > nSockets /\ n = nSockets' /\ ~Live(n)
               /\ sock'[n].mem = "live" /\ sock'[n].fd = f
               /\ \A s \in Sockets : s # n => sock'[s] = sock[s]
               /\ ToMain(OnSocket("accept", n))
               /\ 1 \in 1..Len(ioList[t])
               /\ ioList[t][1].cmd = "accept" /\ ioList[t][1].fd = f
               /\ ioList[t] # <<>> /\ ioList' = [ioList EXCEPT ![t] = Tail(@)]
               /\ open' = open
<1>1. TypeOK
  BY DEF IInv
<1>2. IOTakes(t, "accept")
  BY DEF IOAccept
<1>3. /\ ioList[t] \in Seq(IOPackage) /\ ioList[t] # <<>>
      /\ ioList' = [ioList EXCEPT ![t] = Tail(@)]
      /\ Head(ioList[t]).fd \in Fds \cup {BadFd}
      /\ Head(ioList[t]).cmd = "accept"
  BY <1>1, <1>2, IOTakesFact
<1>4. 1 \in 1..Len(ioList[t]) /\ Head(ioList[t]) = ioList[t][1]
  <2>1. Len(ioList[t]) \in Nat \ {0} /\ Head(ioList[t]) = ioList[t][1]
    BY <1>3, PopFact
  <2>2. QED
    BY <2>1
<1>5. nSockets \in Nat
  BY <1>1 DEF TypeOK
<1>6. PICK n \in Sockets : n = nSockets'
  BY <1>1, ServerConnAssumption, SMTT(30) DEF IOAccept, TypeOK, Sockets
<1>7. n > nSockets
  <2>1. nSockets' = nSockets + 1
    BY DEF IOAccept
  <2>2. QED
    BY <1>5, <1>6, <2>1
<1>8. ~Live(n)
  <2>1. Live(n) => n <= nSockets
    BY DEF IInv, SocketsMade
  <2>2. n \in Nat
    BY DEF Sockets
  <2>3. QED
    BY <1>5, <1>7, <2>1, <2>2
<1>9. PICK f \in Fds \cup {BadFd} : f = Head(ioList[t]).fd
  BY <1>3
<1>10. sock' = [sock EXCEPT ![n] = Accepted(f, t)] /\ ToMain(OnSocket("accept", n))
         /\ open' = open
  BY <1>6, <1>9 DEF IOAccept
<1>11. /\ \A s \in Sockets : s # n => sock'[s] = sock[s]
       /\ sock'[n].mem = "live" /\ sock'[n].fd = f
  <2>1. sock \in [Sockets -> SocketType]
    BY <1>1 DEF TypeOK
  <2>2. QED
    BY <1>10, <2>1 DEF Accepted
<1>12. QED
  BY <1>3, <1>4, <1>6, <1>7, <1>8, <1>9, <1>10, <1>11

\* The close of thread t deletes a socket and closes its descriptor, or finds
\* it deleted.
LEMMA DeleteFacts ==
    ASSUME IInv, NEW t \in Threads, IOClose(t)
    PROVE  /\ mainList' = mainList
           /\ \/ sock' = sock /\ open' = open
              \/ \E s \in Sockets :
                     /\ Live(s)
                     /\ sock'[s].mem # "live" /\ sock'[s].fd = 0
                     /\ \A r \in Sockets : r # s => sock'[r] = sock[r]
                     /\ open' = open \ {sock[s].fd}
<1>1. TypeOK /\ IOTakes(t, "close")
  BY DEF IInv, IOClose
<1>2. PICK s \in Sockets : s = Head(ioList[t]).socket
  BY <1>1, IOTakesFact
<1>3. mainList' = mainList
  BY DEF IOClose
<1>4. CASE ~Live(s)
  BY <1>2, <1>3, <1>4 DEF IOClose, Live
<1>5. CASE Live(s)
  <2>1. sock' = [sock EXCEPT ![s] = Released(@)] /\ open' = open \ {sock[s].fd}
    BY <1>2, <1>5 DEF IOClose, Live
  <2>2. sock \in [Sockets -> SocketType]
    BY <1>1 DEF TypeOK
  <2>3. /\ sock'[s].mem # "live" /\ sock'[s].fd = 0
        /\ \A r \in Sockets : r # s => sock'[r] = sock[r]
    BY <2>1, <2>2 DEF Released
  <2>4. QED
    BY <1>3, <1>5, <2>1, <2>3
<1>6. QED
  BY <1>4, <1>5

-----------------------------------------------------------------------------
(***************************************************************************)
(* Descriptors and objects                                                 *)
(***************************************************************************)
\* The descriptors that the kernel gives out are neither 0 nor invalid.
LEMMA FdFact == \A f \in Fds \cup {BadFd} : f # 0 /\ (f # BadFd => f \in Fds)
BY ServerConnAssumption DEF BadFd

\* An allocated socket has a descriptor, any other has 0.
LEMMA LiveStep == IInv /\ LiveHasFd /\ [Next]_vars => LiveHasFd'
<1> SUFFICES ASSUME IInv, LiveHasFd, [Next]_vars PROVE LiveHasFd'
  OBVIOUS
<1>1. CASE Makes
  <2>1. PICK t \in Threads : IOAccept(t)
    BY <1>1 DEF Makes
  <2>2. PICK n \in Sockets, f \in Fds \cup {BadFd} :
            /\ sock'[n].mem = "live" /\ sock'[n].fd = f
            /\ \A s \in Sockets : s # n => sock'[s] = sock[s]
    BY <2>1, MakeFacts
  <2>3. QED
    BY <2>2, FdFact DEF LiveHasFd, Live
<1>2. CASE Deletes
  <2>1. PICK t \in Threads : IOClose(t)
    BY <1>2 DEF Deletes
  <2>2. CASE sock' = sock
    BY <2>2 DEF LiveHasFd, Live
  <2>3. CASE sock' # sock
    <3>1. PICK s \in Sockets :
              /\ sock'[s].mem # "live" /\ sock'[s].fd = 0
              /\ \A r \in Sockets : r # s => sock'[r] = sock[r]
      BY <2>1, <2>3, DeleteFacts
    <3>2. QED
      BY <3>1 DEF LiveHasFd, Live
  <2>4. QED
    BY <2>2, <2>3
<1>3. CASE ~Makes /\ ~Deletes
  <2>1. SameObjects
    BY <1>3, OthersKeep DEF IInv
  <2>2. QED
    BY <2>1 DEF LiveHasFd, Live, SameObjects, SameObject
<1>4. QED
  BY <1>1, <1>2, <1>3

\* A socket that was made keeps its descriptor until it is deleted.
LEMMA FdKept ==
    ASSUME IInv, [Next]_vars, NEW s \in Sockets, s <= nSockets,
           sock[s].fd # BadFd
    PROVE  sock'[s].fd # BadFd
<1>1. CASE Makes
  <2>1. PICK t \in Threads : IOAccept(t)
    BY <1>1 DEF Makes
  <2>2. PICK n \in Sockets :
            n > nSockets /\ \A r \in Sockets : r # n => sock'[r] = sock[r]
    BY <2>1, MakeFacts
  <2>3. s # n
    <3>1. nSockets \in Nat /\ s \in Nat
      BY DEF IInv, TypeOK, Sockets
    <3>2. QED
      BY <2>2, <3>1
  <2>4. QED
    BY <2>2, <2>3
<1>2. CASE Deletes
  <2>1. PICK t \in Threads : IOClose(t)
    BY <1>2 DEF Deletes
  <2>2. sock' = sock \/ sock'[s].fd = 0 \/ sock'[s] = sock[s]
    BY <2>1, DeleteFacts
  <2>3. QED
    BY <2>2 DEF BadFd
<1>3. CASE ~Makes /\ ~Deletes
  BY <1>3, OthersKeep DEF IInv, SameObjects, SameObject
<1>4. QED
  BY <1>1, <1>2, <1>3

-----------------------------------------------------------------------------
(***************************************************************************)
(* Requests and descriptors                                                *)
(***************************************************************************)
\* The accept of an io thread and the callbacks push for main, nothing else
\* does; a request is pushed by a socket that can be read.
LEMMA NextRequests ==
    ASSUME IInv, [Next]_vars
    PROVE  \/ mainList' = mainList
           \/ mainList # <<>> /\ mainList' = Tail(mainList)
           \/ \E p \in MainPackage :
                  /\ ToMain(p)
                  /\ p.cmd = "recv_buf" =>
                         p.socket <= nSockets /\ sock[p.socket].fd # BadFd
<1>1. TypeOK
  BY DEF IInv
<1>2. CASE UNCHANGED vars
  BY <1>2 DEF vars, mainVars
<1>3. CASE AcceptConnection \/ AcceptRefused \/ AcceptFailed
  BY <1>3 DEF AcceptConnection, AcceptRefused, AcceptFailed, mainVars
<1>4. CASE MainLoop
  <2>1. CASE MainWake \/ MainLeave
    BY <2>1 DEF MainWake, MainLeave
  <2>2. CASE ~MainWake /\ ~MainLeave
    <3>1. PICK c : MainTakes(c)
      BY <1>4, <2>2 DEF MainLoop, MainAccept, MainRecvNoAgent, MainRecvHeartbeat,
                        MainRecvOther, MainRecvShort, MainClose
    <3>2. QED
      BY <3>1 DEF MainTakes
  <2>3. QED
    BY <2>1, <2>2
<1>5. ASSUME NEW t \in Threads, IOLoop(t)
      PROVE  \/ mainList' = mainList
             \/ \E p \in MainPackage : ToMain(p) /\ p.cmd # "recv_buf"
  <2>1. CASE IOAccept(t)
    <3>1. PICK n \in Sockets : ToMain(OnSocket("accept", n))
      BY <2>1, MakeFacts
    <3>2. /\ OnSocket("accept", n) \in MainPackage
          /\ OnSocket("accept", n).cmd # "recv_buf"
      BY OnSocketFact DEF OnSocket, Package
    <3>3. QED
      BY <3>1, <3>2
  <2>2. CASE ~IOAccept(t)
    BY <1>5, <2>2 DEF IOLoop, IOWake, IOAcceptFailed, IOSend, IOClose, IOFlush, mainVars
  <2>3. QED
    BY <2>1, <2>2
<1>6. ASSUME NEW s \in Sockets,
             Read(s) \/ ReadCloseFrame(s) \/ ReadEvent(s) \/ WriteEvent(s)
      PROVE  \/ mainList' = mainList
             \/ \E p \in MainPackage :
                    /\ ToMain(p)
                    /\ p.cmd = "recv_buf" =>
                           p.socket <= nSockets /\ sock[p.socket].fd # BadFd
  <2>1. CASE Read(s)
    <3>1. \/ mainList' = mainList
          \/ \E k \in Kinds : ToMain(Package("recv_buf", 0, s, sent'[s], k))
      BY <2>1 DEF Read
    <3>2. sent'[s] \in Requests
      <4>1. sent \in [Sockets -> 0..MaxReq] /\ MaxReq \in Nat
        BY <1>1, ServerConnAssumption DEF TypeOK
      <4>2. sent' = [sent EXCEPT ![s] = sent[s] + 1] /\ sent[s] < MaxReq
        BY <2>1 DEF Read
      <4>3. QED
        BY <4>1, <4>2 DEF Requests
    <3>3. s <= nSockets /\ sock[s].fd # BadFd
      BY <2>1 DEF Read, Served, IInv, SocketsMade, Live
    <3>4. ASSUME NEW k \in Kinds
          PROVE  LET p == Package("recv_buf", 0, s, sent'[s], k)
                 IN  p \in MainPackage /\ p.socket = s
      BY <3>2 DEF Package, MainPackage, Kinds
    <3>5. QED
      BY <3>1, <3>3, <3>4
  <2>2. CASE ReadCloseFrame(s)
    BY <2>2 DEF ReadCloseFrame
  <2>3. CASE ReadEvent(s) \/ WriteEvent(s)
    <3>1. ToMain(OnSocket("close", s))
      BY <2>3 DEF ReadEvent, WriteEvent
    <3>2. /\ OnSocket("close", s) \in MainPackage
          /\ OnSocket("close", s).cmd # "recv_buf"
      BY OnSocketFact DEF OnSocket, Package
    <3>3. QED
      BY <3>1, <3>2
  <2>4. QED
    BY <1>6, <2>1, <2>2, <2>3
<1>7. QED
  BY <1>2, <1>3, <1>4, <1>5, <1>6 DEF Next

\* The sockets that main's requests name keep a valid descriptor.
LEMMA RequestsStep == IInv /\ RequestsHaveFd /\ [Next]_vars => RequestsHaveFd'
<1> SUFFICES ASSUME IInv, RequestsHaveFd, [Next]_vars PROVE RequestsHaveFd'
  OBVIOUS
<1> DEFINE Good(p) == p.cmd = "recv_buf" =>
                          /\ p.socket \in Sockets
                          /\ p.socket <= nSockets
                          /\ sock[p.socket].fd # BadFd
<1>1. mainList \in Seq(MainPackage)
  BY DEF IInv, TypeOK
<1>2. \A i \in 1..Len(mainList) : Good(mainList[i])
  <2>1. ASSUME NEW i \in 1..Len(mainList), mainList[i].cmd = "recv_buf"
        PROVE  Good(mainList[i])
    <3>1. mainList[i].socket \in Sockets
      BY <1>1 DEF MainPackage
    <3>2. mainList[i].socket <= nSockets
      BY DEF IInv, MainInv, MainListMade
    <3>3. sock[mainList[i].socket].fd # BadFd
      BY <2>1 DEF RequestsHaveFd
    <3>4. QED
      BY <3>1, <3>2, <3>3
  <2>2. QED
    BY <2>1
<1>3. \A i \in 1..Len(mainList') : Good(mainList'[i])
  <2> HIDE DEF Good
  <2>1. CASE mainList' = mainList
    BY <1>2, <2>1
  <2>2. CASE mainList # <<>> /\ mainList' = Tail(mainList)
    <3>1. ASSUME NEW i \in 1..Len(mainList')
          PROVE  i + 1 \in 1..Len(mainList) /\ mainList'[i] = mainList[i + 1]
      BY <1>1, <2>2, PopFact
    <3>2. QED
      BY <1>2, <3>1
  <2>3. ASSUME NEW p \in MainPackage, ToMain(p), Good(p)
        PROVE  \A i \in 1..Len(mainList') : Good(mainList'[i])
    <3>1. mainList' = Append(mainList, p)
      BY <2>3 DEF ToMain
    <3>2. ASSUME NEW i \in 1..Len(mainList')
          PROVE  \/ i \in 1..Len(mainList) /\ mainList'[i] = mainList[i]
                 \/ mainList'[i] = p
      <4>1. /\ Len(mainList) \in Nat
            /\ Len(mainList') = Len(mainList) + 1
            /\ \A k \in 1..Len(mainList) : mainList'[k] = mainList[k]
            /\ mainList'[Len(mainList) + 1] = p
        BY <1>1, <3>1, PushFact
      <4>2. i \in 1..Len(mainList) \/ i = Len(mainList) + 1
        BY <4>1
      <4>3. QED
        BY <4>1, <4>2
    <3>3. QED
      BY <1>2, <2>3, <3>2
  <2>4. \A p \in MainPackage :
            (p.cmd = "recv_buf" =>
                 p.socket <= nSockets /\ sock[p.socket].fd # BadFd) => Good(p)
    BY DEF Good, MainPackage
  <2>5. QED
    BY <2>1, <2>2, <2>3, <2>4, NextRequests
<1>4. ASSUME NEW i \in 1..Len(mainList'), mainList'[i].cmd = "recv_buf"
      PROVE  sock'[mainList'[i].socket].fd # BadFd
  BY <1>3, <1>4, FdKept
<1>5. QED
  BY <1>4 DEF RequestsHaveFd

-----------------------------------------------------------------------------
(***************************************************************************)
(* Owners                                                                  *)
(***************************************************************************)
\* A descriptor that is on its way stays where it was in its list.
LEMMA HandsBefore ==
    ASSUME TypeOK, Inherits
    PROVE  \E d \in [Threads -> {0, 1}] :
               \A t \in Threads : \A i \in 1..Len(ioList'[t]) :
                   Hand(t, i)' => /\ i \in Nat
                                  /\ i + d[t] \in 1..Len(ioList[t])
                                  /\ ioList'[t][i] = ioList[t][i + d[t]]
                                  /\ Hand(t, i + d[t])
                                  /\ ioList'[t][i].fd \in Fds
<1>1. PICK d \in [Threads -> {0, 1}] :
          \A t \in Threads : \A i \in 1..Len(ioList'[t]) :
              Hand(t, i)' => /\ i + d[t] \in 1..Len(ioList[t])
                             /\ ioList'[t][i] = ioList[t][i + d[t]]
  BY DEF Inherits
<1>2. ASSUME NEW t \in Threads, NEW i \in 1..Len(ioList'[t]), Hand(t, i)'
      PROVE  /\ i \in Nat
             /\ i + d[t] \in 1..Len(ioList[t])
             /\ ioList'[t][i] = ioList[t][i + d[t]]
             /\ Hand(t, i + d[t])
             /\ ioList'[t][i].fd \in Fds
  <2>1. /\ i \in Nat /\ i + d[t] \in 1..Len(ioList[t])
        /\ ioList'[t][i] = ioList[t][i + d[t]]
    BY <1>1, <1>2
  <2>2. ioList[t] \in Seq(IOPackage)
    BY DEF TypeOK
  <2>3. Hand(t, i + d[t])
    BY <1>2, <2>1 DEF Hand
  <2>4. ioList[t][i + d[t]] \in IOPackage
    BY <2>1, <2>2
  <2>5. ioList'[t][i].fd \in Fds
    BY <1>2, <2>1, <2>4 DEF Hand, IOPackage
  <2>6. QED
    BY <2>1, <2>3, <2>5
<1>3. QED
  BY <1>2

\* A step on which nothing gets a descriptor, and on which a descriptor is
\* closed only with the socket that had it, keeps the owners.
LEMMA OwnersKept ==
    ASSUME TypeOK, Owners, Inherits,
           \A s \in Sockets : Live(s)' => Live(s) /\ sock'[s].fd = sock[s].fd,
           \A f \in Fds : f \in open => \/ f \in open'
                                        \/ \E r \in Sockets :
                                               Live(r) /\ sock[r].fd = f /\ ~Live(r)'
    PROVE  Owners'
<1>1. PICK d \in [Threads -> {0, 1}] :
          \A t \in Threads : \A i \in 1..Len(ioList'[t]) :
              Hand(t, i)' => /\ i \in Nat
                             /\ i + d[t] \in 1..Len(ioList[t])
                             /\ ioList'[t][i] = ioList[t][i + d[t]]
                             /\ Hand(t, i + d[t])
                             /\ ioList'[t][i].fd \in Fds
  BY HandsBefore
<1>2. HandsOpen'
  <2>1. ASSUME NEW t \in Threads, NEW i \in 1..Len(ioList'[t]), Hand(t, i)'
        PROVE  ioList'[t][i].fd \in open'
    <3> DEFINE j == i + d[t]
               f == ioList[t][j].fd
    <3>1. /\ j \in 1..Len(ioList[t]) /\ Hand(t, j)
          /\ ioList'[t][i].fd = f /\ f \in Fds
      BY <1>1, <2>1
    <3> HIDE DEF j
    <3>2. f \in open
      BY <3>1 DEF Owners, HandsOpen
    <3>3. \A r \in Sockets : Live(r) => sock[r].fd # f
      BY <3>1 DEF Owners, HandsFree
    <3>4. QED
      BY <3>1, <3>2, <3>3
  <2>2. QED
    BY <2>1 DEF HandsOpen
<1>3. HandsApart'
  <2>1. ASSUME NEW t \in Threads, NEW u \in Threads,
               NEW i \in 1..Len(ioList'[t]), NEW j \in 1..Len(ioList'[u]),
               Hand(t, i)', Hand(u, j)', ioList'[t][i].fd = ioList'[u][j].fd
        PROVE  t = u /\ i = j
    <3>1. /\ i \in Nat /\ j \in Nat
          /\ i + d[t] \in 1..Len(ioList[t]) /\ j + d[u] \in 1..Len(ioList[u])
          /\ Hand(t, i + d[t]) /\ Hand(u, j + d[u])
          /\ ioList[t][i + d[t]].fd = ioList[u][j + d[u]].fd
      BY <1>1, <2>1
    <3>2. t = u /\ i + d[t] = j + d[u]
      BY <3>1 DEF Owners, HandsApart
    <3>3. d[t] \in {0, 1} /\ d[u] = d[t]
      BY <3>2
    <3>4. QED
      BY <3>1, <3>2, <3>3
  <2>2. QED
    BY <2>1 DEF HandsApart
<1>4. HandsFree'
  <2>1. ASSUME NEW t \in Threads, NEW i \in 1..Len(ioList'[t]), Hand(t, i)',
               NEW s \in Sockets, Live(s)'
        PROVE  sock'[s].fd # ioList'[t][i].fd
    <3>1. /\ i + d[t] \in 1..Len(ioList[t]) /\ Hand(t, i + d[t])
          /\ ioList'[t][i].fd = ioList[t][i + d[t]].fd
      BY <1>1, <2>1
    <3>2. Live(s) /\ sock'[s].fd = sock[s].fd
      BY <2>1
    <3>3. sock[s].fd # ioList[t][i + d[t]].fd
      BY <3>1, <3>2 DEF Owners, HandsFree
    <3>4. QED
      BY <3>1, <3>2, <3>3
  <2>2. QED
    BY <2>1 DEF HandsFree
<1>5. FdsOwned'
  <2>1. ASSUME NEW s \in Sockets, Live(s)', sock'[s].fd # BadFd
        PROVE  /\ sock'[s].fd \in open'
               /\ \A r \in Sockets \ {s} : Live(r)' => sock'[r].fd # sock'[s].fd
    <3>1. Live(s) /\ sock'[s].fd = sock[s].fd
      BY <2>1
    <3>2. /\ sock[s].fd \in open
          /\ \A r \in Sockets \ {s} : Live(r) => sock[r].fd # sock[s].fd
      BY <2>1, <3>1 DEF Owners, FdsOwned
    <3>3. sock[s].fd \in Fds
      BY <3>2 DEF TypeOK
    <3>4. sock[s].fd \in open'
      <4>1. CASE sock[s].fd \notin open'
        <5>1. PICK r \in Sockets : Live(r) /\ sock[r].fd = sock[s].fd /\ ~Live(r)'
          BY <3>2, <3>3, <4>1
        <5>2. r # s
          BY <2>1, <5>1
        <5>3. QED
          BY <3>2, <5>1, <5>2
      <4>2. QED
        BY <4>1
    <3>5. QED
      BY <3>1, <3>2, <3>4
  <2>2. QED
    BY <2>1 DEF FdsOwned
<1>6. QED
  BY <1>2, <1>3, <1>4, <1>5 DEF Owners

\* The accept of the listening socket gives out a descriptor that is not open.
LEMMA OwnersAccept ==
    ASSUME TypeOK, Owners, AcceptConnection
    PROVE  Owners'
<1>1. PICK f \in Fds \ open : open' = open \cup {f} /\ HandOver(f)
  BY DEF AcceptConnection
<1>2. PICK p : p = Package("accept", f, 0, 0, "none")
  OBVIOUS
<1>3. p \in IOPackage /\ p.cmd = "accept" /\ p.fd = f
  BY <1>2 DEF Package, IOPackage
<1>4. PICK v \in Threads : ToIO(v, p)
  BY <1>1, <1>2 DEF HandOver, TypeOK
<1>5. sock' = sock
  BY DEF AcceptConnection
<1>6. ASSUME NEW t \in Threads, NEW i \in 1..Len(ioList'[t])
      PROVE  \/ i \in 1..Len(ioList[t]) /\ ioList'[t][i] = ioList[t][i]
             \/ t = v /\ i = Len(ioList[v]) + 1 /\ ioList'[t][i].fd = f
  BY <1>3, <1>4, PushAfter
<1>7. \A t \in Threads : \A i \in 1..Len(ioList[t]) : Hand(t, i) => ioList[t][i].fd # f
  BY <1>1 DEF Owners, HandsOpen
<1>8. HandsOpen'
  <2>1. ASSUME NEW t \in Threads, NEW i \in 1..Len(ioList'[t]), Hand(t, i)'
        PROVE  ioList'[t][i].fd \in open'
    <3>1. CASE i \in 1..Len(ioList[t]) /\ ioList'[t][i] = ioList[t][i]
      BY <1>1, <2>1, <3>1 DEF Owners, HandsOpen, Hand
    <3>2. CASE ioList'[t][i].fd = f
      BY <1>1, <3>2
    <3>3. QED
      BY <1>6, <3>1, <3>2
  <2>2. QED
    BY <2>1 DEF HandsOpen
<1>9. HandsApart'
  <2>1. ASSUME NEW t \in Threads, NEW u \in Threads,
               NEW i \in 1..Len(ioList'[t]), NEW j \in 1..Len(ioList'[u]),
               Hand(t, i)', Hand(u, j)', ioList'[t][i].fd = ioList'[u][j].fd
        PROVE  t = u /\ i = j
    <3>1. CASE ioList'[t][i].fd = f
      <4>1. ~(i \in 1..Len(ioList[t]) /\ ioList'[t][i] = ioList[t][i])
        BY <1>7, <2>1, <3>1 DEF Hand
      <4>2. ~(j \in 1..Len(ioList[u]) /\ ioList'[u][j] = ioList[u][j])
        BY <1>7, <2>1, <3>1 DEF Hand
      <4>3. QED
        BY <1>6, <4>1, <4>2
    <3>2. CASE ioList'[t][i].fd # f
      <4>1. /\ i \in 1..Len(ioList[t]) /\ ioList'[t][i] = ioList[t][i]
            /\ j \in 1..Len(ioList[u]) /\ ioList'[u][j] = ioList[u][j]
        BY <1>6, <2>1, <3>2
      <4>2. Hand(t, i) /\ Hand(u, j) /\ ioList[t][i].fd = ioList[u][j].fd
        BY <2>1, <4>1 DEF Hand
      <4>3. QED
        BY <4>1, <4>2 DEF Owners, HandsApart
    <3>3. QED
      BY <3>1, <3>2
  <2>2. QED
    BY <2>1 DEF HandsApart
<1>10. HandsFree'
  <2>1. ASSUME NEW t \in Threads, NEW i \in 1..Len(ioList'[t]), Hand(t, i)',
               NEW s \in Sockets, Live(s)
        PROVE  sock[s].fd # ioList'[t][i].fd
    <3>1. CASE i \in 1..Len(ioList[t]) /\ ioList'[t][i] = ioList[t][i]
      <4>1. Hand(t, i)
        BY <2>1, <3>1 DEF Hand
      <4>2. QED
        BY <2>1, <3>1, <4>1 DEF Owners, HandsFree
    <3>2. CASE ioList'[t][i].fd = f
      <4>1. f # BadFd
        BY <2>1, <3>2 DEF Hand
      <4>2. sock[s].fd # BadFd => sock[s].fd \in open
        BY <2>1 DEF Owners, FdsOwned
      <4>3. QED
        BY <1>1, <3>2, <4>1, <4>2
    <3>3. QED
      BY <1>6, <3>1, <3>2
  <2>2. QED
    BY <1>5, <2>1 DEF HandsFree, Live
<1>11. FdsOwned'
  BY <1>1, <1>5 DEF Owners, FdsOwned, Live
<1>12. QED
  BY <1>8, <1>9, <1>10, <1>11 DEF Owners

\* The accept of an io thread passes a descriptor from the package that carried
\* it to the new socket.
LEMMA OwnersMake ==
    ASSUME IInv, Owners, NEW v \in Threads, IOAccept(v)
    PROVE  Owners'
<1>1. TypeOK
  BY DEF IInv
<1>2. PICK n \in Sockets, f \in Fds \cup {BadFd} :
          /\ ~Live(n)
          /\ sock'[n].mem = "live" /\ sock'[n].fd = f
          /\ \A s \in Sockets : s # n => sock'[s] = sock[s]
          /\ 1 \in 1..Len(ioList[v])
          /\ ioList[v][1].cmd = "accept" /\ ioList[v][1].fd = f
          /\ ioList[v] # <<>> /\ ioList' = [ioList EXCEPT ![v] = Tail(@)]
          /\ open' = open
  BY MakeFacts
<1>3. f # BadFd => Hand(v, 1)
  BY <1>2 DEF Hand
<1>4. ASSUME NEW t \in Threads, NEW i \in 1..Len(ioList'[t])
      PROVE  /\ i \in Nat
             /\ Before(t, v, i) \in 1..Len(ioList[t])
             /\ ioList'[t][i] = ioList[t][Before(t, v, i)]
             /\ Hand(t, i)' => Hand(t, Before(t, v, i))
             /\ ~(t = v /\ Before(t, v, i) = 1)
  <2>1. /\ i \in Nat
        /\ Before(t, v, i) \in 1..Len(ioList[t])
        /\ ioList'[t][i] = ioList[t][Before(t, v, i)]
    BY <1>1, <1>2, PopBefore
  <2>2. ~(t = v /\ Before(t, v, i) = 1)
    <3>1. i # 0
      OBVIOUS
    <3>2. QED
      BY <2>1, <3>1 DEF Before
  <2>3. Hand(t, i)' => Hand(t, Before(t, v, i))
    BY <2>1 DEF Hand
  <2>4. QED
    BY <2>1, <2>2, <2>3
<1>5. HandsOpen'
  <2>1. SUFFICES ASSUME NEW t \in Threads, NEW i \in 1..Len(ioList'[t]), Hand(t, i)'
                 PROVE  ioList'[t][i].fd \in open'
    BY DEF HandsOpen
  <2>2. /\ Before(t, v, i) \in 1..Len(ioList[t])
        /\ ioList'[t][i] = ioList[t][Before(t, v, i)]
        /\ Hand(t, Before(t, v, i)) /\ ~(t = v /\ Before(t, v, i) = 1)
    BY <1>4, <2>1
  <2>3. QED
    BY <1>2, <2>2 DEF Owners, HandsOpen
<1>6. HandsApart'
  <2>1. ASSUME NEW t \in Threads, NEW u \in Threads,
               NEW i \in 1..Len(ioList'[t]), NEW j \in 1..Len(ioList'[u]),
               Hand(t, i)', Hand(u, j)', ioList'[t][i].fd = ioList'[u][j].fd
        PROVE  t = u /\ i = j
    <3> DEFINE b == Before(t, v, i)
               c == Before(u, v, j)
    <3>1. /\ b \in 1..Len(ioList[t]) /\ Hand(t, b)
          /\ c \in 1..Len(ioList[u]) /\ Hand(u, c)
          /\ ioList[t][b].fd = ioList[u][c].fd
          /\ i \in Nat /\ j \in Nat
      BY <1>4, <2>1
    <3> HIDE DEF b, c
    <3>2. t = u /\ b = c
      BY <3>1 DEF Owners, HandsApart
    <3>3. QED
      BY <3>1, <3>2 DEF b, c, Before
  <2>2. QED
    BY <2>1 DEF HandsApart
<1>7. HandsFree'
  <2>1. ASSUME NEW t \in Threads, NEW i \in 1..Len(ioList'[t]), Hand(t, i)',
               NEW s \in Sockets, Live(s)'
        PROVE  sock'[s].fd # ioList'[t][i].fd
    <3> DEFINE j == Before(t, v, i)
    <3>1. /\ j \in 1..Len(ioList[t]) /\ Hand(t, j) /\ ~(t = v /\ j = 1)
          /\ ioList'[t][i].fd = ioList[t][j].fd
      BY <1>4, <2>1
    <3> HIDE DEF j
    <3>2. CASE s = n
      <4>1. f # ioList[t][j].fd
        <5>1. CASE f = BadFd
          BY <3>1, <5>1 DEF Hand
        <5>2. CASE f # BadFd
          <6>1. HandsApart
            BY DEF Owners
          <6>2. ioList[t][j].fd # ioList[v][1].fd
            BY <1>2, <1>3, <3>1, <5>2, <6>1 DEF HandsApart
          <6>3. QED
            BY <1>2, <6>2
        <5>3. QED
          BY <5>1, <5>2
      <4>2. QED
        BY <1>2, <3>1, <3>2, <4>1
    <3>3. CASE s # n
      <4>1. sock'[s] = sock[s]
        BY <1>2, <3>3
      <4>2. Live(s)
        BY <2>1, <4>1 DEF Live
      <4>3. QED
        BY <3>1, <4>1, <4>2 DEF Owners, HandsFree
    <3>4. QED
      BY <3>2, <3>3
  <2>2. QED
    BY <2>1 DEF HandsFree
<1>8. f # BadFd => f \in open /\ \A s \in Sockets : Live(s) => sock[s].fd # f
  <2>1. HandsOpen /\ HandsFree
    BY DEF Owners
  <2>2. QED
    BY <1>2, <1>3, <2>1 DEF HandsOpen, HandsFree
<1>9. FdsOwned'
  <2>1. ASSUME NEW s \in Sockets, sock'[s].mem = "live", sock'[s].fd # BadFd
        PROVE  /\ sock'[s].fd \in open
               /\ \A r \in Sockets \ {s} :
                      sock'[r].mem = "live" => sock'[r].fd # sock'[s].fd
    <3>1. CASE s = n
      BY <1>2, <1>8, <2>1, <3>1 DEF Live
    <3>2. CASE s # n
      <4>1. sock'[s] = sock[s]
        BY <1>2, <3>2
      <4>2. /\ sock[s].fd \in open
            /\ \A r \in Sockets \ {s} : Live(r) => sock[r].fd # sock[s].fd
        BY <2>1, <4>1 DEF Owners, FdsOwned, Live
      <4>3. f # sock[s].fd
        BY <1>8, <2>1, <4>1 DEF Live
      <4>4. QED
        BY <1>2, <4>1, <4>2, <4>3 DEF Live
    <3>3. QED
      BY <3>1, <3>2
  <2>2. QED
    BY <1>2, <2>1 DEF FdsOwned, Live
<1>10. QED
  BY <1>5, <1>6, <1>7, <1>9 DEF Owners

\* No step gives a descriptor to two owners or closes one that is owned.
LEMMA OwnersStep == IInv /\ Owners /\ [Next]_vars => Owners'
<1> SUFFICES ASSUME IInv, Owners, [Next]_vars PROVE Owners'
  OBVIOUS
<1>1. TypeOK
  BY DEF IInv
<1>2. CASE AcceptConnection
  BY <1>1, <1>2, OwnersAccept
<1>3. CASE Makes
  BY <1>3, OwnersMake DEF Makes
<1>4. CASE ~AcceptConnection /\ Deletes
  <2>1. PICK t \in Threads : IOClose(t)
    BY <1>4 DEF Deletes
  <2>2. Inherits
    BY <1>4, NextInherits
  <2>3. CASE sock' = sock /\ open' = open
    BY <1>1, <2>2, <2>3, OwnersKept DEF Live
  <2>4. CASE ~(sock' = sock /\ open' = open)
    <3>1. PICK s \in Sockets :
              /\ Live(s)
              /\ sock'[s].mem # "live"
              /\ \A r \in Sockets : r # s => sock'[r] = sock[r]
              /\ open' = open \ {sock[s].fd}
      BY <2>1, <2>4, DeleteFacts
    <3>2. \A r \in Sockets : Live(r)' => Live(r) /\ sock'[r].fd = sock[r].fd
      BY <3>1 DEF Live
    <3>3. \A f \in Fds : f \in open =>
              \/ f \in open'
              \/ \E r \in Sockets : Live(r) /\ sock[r].fd = f /\ ~Live(r)'
      BY <3>1 DEF Live
    <3>4. QED
      BY <1>1, <2>2, <3>2, <3>3, OwnersKept
  <2>5. QED
    BY <2>3, <2>4
<1>5. CASE ~AcceptConnection /\ ~Makes /\ ~Deletes
  <2>1. SameObjects /\ open' = open
    BY <1>1, <1>5, OthersKeep
  <2>2. \A s \in Sockets : Live(s)' => Live(s) /\ sock'[s].fd = sock[s].fd
    BY <2>1 DEF SameObjects, SameObject, Live
  <2>3. Inherits
    BY <1>5, NextInherits
  <2>4. QED
    BY <1>1, <2>1, <2>2, <2>3, OwnersKept
<1>6. QED
  BY <1>2, <1>3, <1>4, <1>5

-----------------------------------------------------------------------------
\* The inductive invariant.
FdInv == IInv /\ Owners /\ LiveHasFd /\ RequestsHaveFd

\* No descriptor is handed out to begin with.
LEMMA FdInit == Init => FdInv
<1> SUFFICES ASSUME Init PROVE FdInv
  OBVIOUS
<1>1. IInv
  BY InitSafe
<1>2. /\ mainList = <<>>
      /\ \A t \in Threads : ioList[t] = <<>>
      /\ \A s \in Sockets : ~Live(s) /\ sock[s].fd = 0
  BY DEF Init, Live, Unused
<1>3. QED
  BY <1>1, <1>2
  DEF FdInv, Owners, HandsOpen, HandsApart, HandsFree, FdsOwned, LiveHasFd,
      RequestsHaveFd

\* No step makes a second owner of a descriptor.
LEMMA FdNext == FdInv /\ [Next]_vars => FdInv'
BY NextSafe, OwnersStep, LiveStep, RequestsStep DEF FdInv

\* The invariant on owners holds in every run.
LEMMA FdInvariance == Spec => []FdInv
BY FdInit, FdNext, PTL DEF Spec

\* No two sockets have the same descriptor, and none has a closed one, in spite
\* of failed accepts, double closes and descriptors that are used again
\* (ServerSocketIOThread::pairCallback, ServerIOSocket::toClose).
THEOREM FdsSafe == Spec => []FdsOwned
<1>1. FdInv => FdsOwned
  BY DEF FdInv, Owners
<1>2. QED
  BY <1>1, FdInvariance, PTL

\* Agents are found by descriptor, and descriptors have one owner.
LEMMA RequestsOwn == FdInv => RequestsToOwnAgent
<1> SUFFICES ASSUME FdInv, mainList # <<>>, Head(mainList).cmd = "recv_buf",
                    HasAgent(Head(mainList).socket)
             PROVE  Agent(Head(mainList).socket) = Head(mainList).socket
  BY DEF RequestsToOwnAgent
<1>1. PICK s : s = Head(mainList).socket
  OBVIOUS
<1>2. PICK a : a = Agent(s)
  OBVIOUS
<1>3. TypeOK /\ AgentsLive
  BY DEF FdInv, IInv
<1>4. s \in Sockets /\ sock[s].fd # BadFd
  <2>1. mainList \in Seq(MainPackage)
    BY <1>3 DEF TypeOK
  <2>2. 1 \in 1..Len(mainList) /\ Head(mainList) = mainList[1]
    <3>1. Len(mainList) \in Nat \ {0} /\ Head(mainList) = mainList[1]
      BY <2>1, PopFact
    <3>2. QED
      BY <3>1
  <2>3. Head(mainList) \in MainPackage
    BY <2>1, PopFact
  <2>4. s \in Sockets
    BY <1>1, <2>3 DEF MainPackage
  <2>5. RequestsHaveFd
    BY DEF FdInv
  <2>6. QED
    BY <1>1, <2>2, <2>4, <2>5 DEF RequestsHaveFd
<1>5. a \in Sockets
  BY <1>1, <1>2, <1>3, AgentType
<1>6. Live(a) /\ sock[a].fd = sock[s].fd
  BY <1>1, <1>2, <1>3 DEF AgentsLive, HasAgent, Agent
<1>7. Live(s)
  <2>1. LiveHasFd
    BY DEF FdInv
  <2>2. QED
    BY <1>4, <1>5, <1>6, <2>1 DEF LiveHasFd
<1>8. a = s
  <2>1. FdsOwned
    BY DEF FdInv, Owners
  <2>2. QED
    BY <1>4, <1>5, <1>6, <1>7, <2>1 DEF FdsOwned
<1>9. QED
  BY <1>1, <1>2, <1>8

\* A request is given to the agent of the socket that read it, although agents
\* are found by descriptor (ServerSocket::pairCallback and getAgent).
THEOREM RequestsSafe == Spec => []RequestsToOwnAgent
BY RequestsOwn, FdInvariance, PTL

-----------------------------------------------------------------------------
(***************************************************************************)
(* Send buffers                                                            *)
(***************************************************************************)
\* What IOSend leaves of a socket's buffer: it is never empty, and the socket is
\* listed unless there was something in the buffer before.
LEMMA SendListed ==
    ASSUME IInv, NEW t \in Threads, IOSend(t)
    PROVE  \E s \in Sockets :
               /\ sock[s].thread = t /\ sock'[s].thread = t
               /\ \A x \in Sockets : x # s => sock'[x] = sock[x]
               /\ \/ needSendList' = [needSendList EXCEPT ![t] = needSendList[t] \cup {s}]
                  \/ needSendList' = needSendList /\ hadSendBufData(sock[s])
<1>1. TypeOK /\ IOTakes(t, "send_buf")
  BY DEF IInv, IOSend
<1>2. sock \in [Sockets -> SocketType]
  BY <1>1 DEF TypeOK
<1>3. PICK s \in Sockets, q \in Requests :
          s = Head(ioList[t]).socket /\ q = Head(ioList[t]).req
  BY <1>1, IOTakesFact
<1>4. sock[s].thread = t
  <2>1. /\ ioList[t] \in Seq(IOPackage) /\ ioList[t] # <<>>
        /\ Head(ioList[t]).cmd = "send_buf"
    BY <1>1, IOTakesFact
  <2>2. 1 \in 1..Len(ioList[t]) /\ Head(ioList[t]) = ioList[t][1]
    <3>1. Len(ioList[t]) \in Nat \ {0} /\ Head(ioList[t]) = ioList[t][1]
      BY <2>1, PopFact
    <3>2. QED
      BY <3>1
  <2>3. SendTargetsLive
    BY DEF IInv, IOInv
  <2>4. QED
    BY <1>3, <2>1, <2>2, <2>3 DEF SendTargetsLive
<1>5. PICK r \in {sock[s], consumeSendBuf(sock[s])} :
          sock' = [sock EXCEPT ![s] = expandSendBuf(r, q)]
  BY <1>3 DEF IOSend
<1>6. \A x \in Sockets : x # s => sock'[x] = sock[x]
  BY <1>2, <1>5
<1>7. sock'[s].thread = t
  <2>1. SameObjects
    BY <1>1, SendObjects
  <2>2. QED
    BY <1>4, <2>1 DEF SameObjects, SameObject
<1>8. \/ needSendList' = [needSendList EXCEPT ![t] = needSendList[t] \cup {s}]
      \/ needSendList' = needSendList /\ hadSendBufData(sock[s])
  <2>1. CASE canExpand(sock[s])
    BY <1>3, <2>1 DEF IOSend
  <2>2. CASE ~canExpand(sock[s])
    <3>1. needSendList' = needSendList
      BY <1>3, <2>2 DEF IOSend
    <3>2. Len(sock[s].sendBuf) # 0
      BY <2>2 DEF canExpand, BufferSizeAssumption
    <3>3. QED
      BY <3>1, <3>2 DEF hadSendBufData
  <2>3. QED
    BY <2>1, <2>2
<1>9. QED
  BY <1>4, <1>6, <1>7, <1>8

\* The end of a batch empties the buffers of all the sockets it has listed.
LEMMA ConsumeEmpties ==
    ASSUME NEW r \in SocketType
    PROVE  ~hadSendBufData(consumeSendBuf(r))
<1>1. CASE r.sendBuf = <<>>
  BY <1>1 DEF consumeSendBuf, hadSendBufData
<1>2. CASE r.sendBuf # <<>>
  <2>1. PICK w \in SocketType : w = toSend(r, r.sendBuf)
    BY ToSendFact DEF SocketType
  <2>2. consumeSendBuf(r) = [w EXCEPT !.sendBuf = <<>>]
    BY <1>2, <2>1 DEF consumeSendBuf, hadSendBufData
  <2>3. consumeSendBuf(r).sendBuf = <<>>
    BY <2>2 DEF SocketType
  <2>4. QED
    BY <2>3 DEF hadSendBufData
<1>3. QED
  BY <1>1, <1>2

LEMMA NextListed == IInv /\ RepliesListed /\ [Next]_vars => RepliesListed'
<1> SUFFICES ASSUME IInv, RepliesListed, [Next]_vars PROVE RepliesListed'
  OBVIOUS
<1>1. /\ TypeOK
      /\ sock \in [Sockets -> SocketType]
      /\ needSendList \in [Threads -> SUBSET Sockets]
      /\ \A t \in Threads : ioDeal[t] \in Nat
  BY DEF IInv, TypeOK
\* It is enough that each socket's batch and listing are kept while there is
\* something in its buffer.
<1> DEFINE Keeps(s) ==
        hadSendBufData(sock'[s]) =>
            /\ hadSendBufData(sock[s])
            /\ sock'[s].thread = sock[s].thread
            /\ \A t \in Threads : ioDeal[t] > 0 /\ s \in needSendList[t] =>
                   ioDeal'[t] > 0 /\ s \in needSendList'[t]
<1>2. ASSUME \A s \in Sockets : Keeps(s) PROVE RepliesListed'
  <2> SUFFICES ASSUME NEW s \in Sockets, hadSendBufData(sock'[s])
               PROVE  LET t == sock'[s].thread
                      IN  t \in Threads /\ ioDeal'[t] > 0 /\ s \in needSendList'[t]
    BY DEF RepliesListed, hadSendBufData
  <2>1. /\ hadSendBufData(sock[s])
        /\ sock'[s].thread = sock[s].thread
        /\ \A t \in Threads : ioDeal[t] > 0 /\ s \in needSendList[t] =>
               ioDeal'[t] > 0 /\ s \in needSendList'[t]
    BY <1>2
  <2>2. PICK t \in Threads : t = sock[s].thread /\ ioDeal[t] > 0 /\ s \in needSendList[t]
    BY <2>1 DEF RepliesListed
  <2>3. QED
    BY <2>1, <2>2
<1>3. ASSUME UNCHANGED <<sock, ioDeal, needSendList>> PROVE RepliesListed'
  BY <1>3 DEF RepliesListed
<1>4. CASE UNCHANGED vars
  BY <1>3, <1>4 DEF vars, ioVars
<1>5. CASE MainLoop
  <2>1. UNCHANGED <<sock, ioDeal, needSendList>>
    BY <1>5 DEF MainLoop, MainWake, MainAccept, MainRecvNoAgent, MainRecvHeartbeat,
                MainRecvOther, MainRecvShort, MainClose, MainLeave, MainTakes, ioVars
  <2>2. QED
    BY <1>3, <2>1
<1>6. CASE AcceptConnection \/ AcceptRefused \/ AcceptFailed
  <2>1. UNCHANGED <<sock, ioDeal, needSendList>>
    BY <1>6 DEF AcceptConnection, AcceptRefused, AcceptFailed, ioVars
  <2>2. QED
    BY <1>3, <2>1
<1>7. ASSUME NEW s \in Sockets,
             Read(s) \/ ReadCloseFrame(s) \/ ReadEvent(s) \/ WriteEvent(s)
      PROVE  RepliesListed'
  <2>1. UNCHANGED <<ioDeal, needSendList>>
    BY <1>7 DEF Read, ReadCloseFrame, ReadEvent, WriteEvent, Unaffected
  <2>2. sock[s] \in SocketType
    BY <1>1
  <2>3. PICK r : /\ r.sendBuf = sock[s].sendBuf /\ r.thread = sock[s].thread
                 /\ sock' = sock \/ sock' = [sock EXCEPT ![s] = r]
    <3>1. CASE Read(s)
      BY <3>1 DEF Read
    <3>2. CASE ReadCloseFrame(s)
      BY <2>2, <3>2 DEF ReadCloseFrame, SocketType
    <3>3. CASE ReadEvent(s)
      BY <2>2, <3>3 DEF ReadEvent, SocketType
    <3>4. CASE WriteEvent(s)
      BY <2>2, <3>4 DEF WriteEvent, SocketType
    <3>5. QED
      BY <1>7, <3>1, <3>2, <3>3, <3>4
  <2>4. ASSUME NEW x \in Sockets PROVE Keeps(x)
    <3>1. sock'[x].sendBuf = sock[x].sendBuf /\ sock'[x].thread = sock[x].thread
      BY <1>1, <2>3
    <3>2. QED
      BY <2>1, <3>1 DEF hadSendBufData
  <2>5. QED
    BY <1>2, <2>4
<1>8. ASSUME NEW t \in Threads, IOLoop(t) PROVE RepliesListed'
  <2>1. ASSUME NEW c, IOTakes(t, c), NEW u \in Threads, ioDeal[u] > 0 PROVE ioDeal'[u] > 0
    <3>1. ioDeal' = [ioDeal EXCEPT ![t] = ioDeal[t] + 1] /\ ioDeal[t] \in Nat
      BY <1>1, <2>1 DEF IOTakes
    <3>2. QED
      BY <1>1, <2>1, <3>1 DEF TypeOK
  <2>2. CASE IOWake(t)
    <3>1. /\ UNCHANGED <<sock, needSendList>>
          /\ ioDeal[t] = 0 /\ ioDeal' = [ioDeal EXCEPT ![t] = 1]
      BY <2>2 DEF IOWake
    <3>2. \A u \in Threads : ioDeal[u] > 0 => ioDeal'[u] > 0
      BY <1>1, <3>1 DEF TypeOK
    <3>3. \A s \in Sockets : Keeps(s)
      BY <3>1, <3>2
    <3>4. QED
      BY <1>2, <3>3
  <2>3. CASE IOAccept(t)
    <3>1. IOTakes(t, "accept") /\ needSendList' = needSendList
      BY <2>3 DEF IOAccept
    <3>2. \A u \in Threads : ioDeal[u] > 0 => ioDeal'[u] > 0
      BY <2>1, <3>1
    <3>3. PICK f : sock' = [sock EXCEPT ![nSockets'] = Accepted(f, t)]
      BY <2>3 DEF IOAccept
    <3>4. ASSUME NEW s \in Sockets PROVE Keeps(s)
      <4>1. CASE s = nSockets'
        BY <1>1, <3>3, <4>1 DEF Accepted, hadSendBufData
      <4>2. CASE s # nSockets'
        BY <1>1, <3>1, <3>2, <3>3, <4>2
      <4>3. QED
        BY <4>1, <4>2
    <3>5. QED
      BY <1>2, <3>4
  <2>4. CASE IOAcceptFailed(t)
    <3>1. IOTakes(t, "accept") /\ UNCHANGED <<sock, needSendList>>
      BY <2>4 DEF IOAcceptFailed
    <3>2. \A u \in Threads : ioDeal[u] > 0 => ioDeal'[u] > 0
      BY <2>1, <3>1
    <3>3. \A s \in Sockets : Keeps(s)
      BY <3>1, <3>2
    <3>4. QED
      BY <1>2, <3>3
  <2>5. CASE IOSend(t)
    <3>1. IOTakes(t, "send_buf")
      BY <2>5 DEF IOSend
    <3>2. \A u \in Threads : ioDeal[u] > 0 => ioDeal'[u] > 0
      BY <2>1, <3>1
    <3>3. PICK s \in Sockets :
              /\ sock[s].thread = t /\ sock'[s].thread = t
              /\ \A x \in Sockets : x # s => sock'[x] = sock[x]
              /\ \/ needSendList' = [needSendList EXCEPT ![t] = needSendList[t] \cup {s}]
                 \/ needSendList' = needSendList /\ hadSendBufData(sock[s])
      BY <2>5, SendListed
    <3>4. s \in needSendList'[t]
      <4>1. CASE needSendList' = needSendList /\ hadSendBufData(sock[s])
        BY <3>3, <4>1 DEF RepliesListed
      <4>2. QED
        BY <1>1, <3>3, <4>1
    <3>5. \A u \in Threads : needSendList[u] \subseteq needSendList'[u]
      BY <1>1, <3>3
    <3>6. ioDeal'[t] > 0
      <4>1. ioDeal' = [ioDeal EXCEPT ![t] = ioDeal[t] + 1] /\ ioDeal[t] \in Nat
        BY <1>1, <3>1 DEF IOTakes
      <4>2. ioDeal \in [Threads -> 0..(PairDealCount + 2)]
        BY <1>1 DEF TypeOK
      <4>3. ioDeal'[t] = ioDeal[t] + 1
        BY <4>1, <4>2, Zenon
      <4>4. QED
        BY <4>1, <4>3
    <3>7. ASSUME NEW x \in Sockets, x # s, hadSendBufData(sock'[x])
          PROVE  LET u == sock'[x].thread
                 IN  u \in Threads /\ ioDeal'[u] > 0 /\ x \in needSendList'[u]
      <4>1. sock'[x] = sock[x]
        BY <3>3, <3>7
      <4>2. PICK u \in Threads : u = sock[x].thread /\ ioDeal[u] > 0 /\ x \in needSendList[u]
        BY <3>7, <4>1 DEF RepliesListed
      <4>3. QED
        BY <3>2, <3>5, <4>1, <4>2
    <3>8. QED
      BY <3>3, <3>4, <3>6, <3>7 DEF RepliesListed, hadSendBufData
  <2>6. CASE IOClose(t)
    <3>1. IOTakes(t, "close") /\ needSendList' = needSendList
      BY <2>6 DEF IOClose
    <3>2. \A u \in Threads : ioDeal[u] > 0 => ioDeal'[u] > 0
      BY <2>1, <3>1
    <3>3. PICK s : sock' = sock \/ sock' = [sock EXCEPT ![s] = Released(sock[s])]
      BY <2>6 DEF IOClose
    <3>4. ASSUME NEW x \in Sockets PROVE Keeps(x)
      <4>1. CASE x = s /\ sock' # sock
        BY <1>1, <3>3, <4>1 DEF Released, hadSendBufData
      <4>2. CASE x # s \/ sock' = sock
        BY <1>1, <3>1, <3>2, <3>3, <4>2
      <4>3. QED
        BY <4>1, <4>2
    <3>5. QED
      BY <1>2, <3>4
  <2>7. CASE IOFlush(t)
    <3>1. /\ sock' = [s \in Sockets |-> IF s \in needSendList[t]
                                       THEN consumeSendBuf(sock[s]) ELSE sock[s]]
          /\ needSendList' = [needSendList EXCEPT ![t] = {}]
          /\ ioDeal' = [ioDeal EXCEPT ![t] = 0]
      BY <2>7 DEF IOFlush
    <3>2. ASSUME NEW s \in Sockets, hadSendBufData(sock'[s])
          PROVE  LET u == sock'[s].thread
                 IN  u \in Threads /\ ioDeal'[u] > 0 /\ s \in needSendList'[u]
      <4>1. s \notin needSendList[t] /\ sock'[s] = sock[s]
        BY <1>1, <3>1, <3>2, ConsumeEmpties
      <4>2. PICK u \in Threads : u = sock[s].thread /\ ioDeal[u] > 0 /\ s \in needSendList[u]
        BY <3>2, <4>1 DEF RepliesListed
      <4>3. u # t
        BY <4>1, <4>2
      <4>4. ioDeal'[u] = ioDeal[u] /\ needSendList'[u] = needSendList[u]
        BY <1>1, <3>1, <4>3 DEF TypeOK
      <4>5. QED
        BY <4>1, <4>2, <4>4
    <3>3. QED
      BY <3>2 DEF RepliesListed, hadSendBufData
  <2>8. QED
    BY <1>8, <2>2, <2>3, <2>4, <2>5, <2>6, <2>7 DEF IOLoop
<1>9. QED
  BY <1>4, <1>5, <1>6, <1>7, <1>8 DEF Next

\* No reply stays in a send buffer beyond its batch, also where pairCallback
\* finds the buffer full and does not list the socket, and whatever is closed
\* and deleted in between.
THEOREM ListedSafe == Spec => []RepliesListed
<1>1. Init => RepliesListed
  BY DEF Init, RepliesListed, Unused, hadSendBufData
<1>2. QED
  BY <1>1, NextListed, Invariance, PTL DEF Spec

-----------------------------------------------------------------------------
(***************************************************************************)
(* Every open descriptor has an owner, as long as there is memory for the  *)
(* bufferevents: an io thread that cannot make one drops the package and   *)
(* with it the descriptor (see the hazard at                               *)
(* ServerSocketIOThread::pairCallback, and the accept that fails there).   *)
(***************************************************************************)
\* No connection gets the invalid descriptor.
LEMMA FdInNat == \A f \in Fds : f # BadFd
BY ServerConnAssumption DEF BadFd

\* What a step does to the list of one thread.
LEMMA NextLists ==
    ASSUME IInv, [Next]_vars, NEW t \in Threads
    PROVE  \/ ioList'[t] = ioList[t]
           \/ IOAccept(t) \/ IOAcceptFailed(t) \/ IOSend(t) \/ IOClose(t)
           \/ \E p \in IOPackage :
                  /\ ioList'[t] = Append(ioList[t], p)
                  /\ p.cmd = "close" => MainClose /\ p.socket = Head(mainList).socket
                  /\ p.cmd = "accept" /\ p.fd = BadFd => AcceptFailed
<1>1. TypeOK /\ ioList \in [Threads -> Seq(IOPackage)]
  BY DEF IInv, TypeOK
<1>2. ASSUME NEW u \in Threads, NEW p \in IOPackage, ToIO(u, p)
      PROVE  ioList'[t] = ioList[t] \/ ioList'[t] = Append(ioList[t], p)
  BY <1>1, <1>2 DEF ToIO
<1>3. CASE UNCHANGED vars \/ AcceptRefused
  BY <1>3 DEF vars, ioVars, AcceptRefused
<1>4. CASE AcceptConnection \/ AcceptFailed
  <2>1. PICK f \in Fds \cup {BadFd} : HandOver(f) /\ (f = BadFd => AcceptFailed)
    <3>1. CASE AcceptConnection
      BY <3>1, FdInNat DEF AcceptConnection
    <3>2. CASE AcceptFailed
      BY <3>2 DEF AcceptFailed
    <3>3. QED
      BY <1>4, <3>1, <3>2
  <2>2. PICK p : p = Package("accept", f, 0, 0, "none")
    OBVIOUS
  <2>3. p \in IOPackage /\ p.cmd # "close" /\ p.fd = f
    BY <2>2 DEF Package, IOPackage
  <2>4. ToIO(nCurrentThread, p) /\ nCurrentThread \in Threads
    BY <1>1, <2>1, <2>2 DEF HandOver, TypeOK
  <2>5. QED
    BY <1>2, <2>1, <2>3, <2>4
<1>5. CASE MainLoop
  <2>1. CASE MainRecvHeartbeat
    <3> DEFINE h == Head(mainList)
    <3>1. MainTakes("recv_buf") /\ HasAgent(h.socket)
      BY <2>1 DEF MainRecvHeartbeat
    <3>2. h \in MainPackage /\ h.cmd = "recv_buf"
      BY <1>1, <3>1, MainTakesFact
    <3>3. h.req \in Requests
      BY <3>2 DEF MainPackage
    <3>4. PICK a \in Sockets : a = Agent(h.socket)
      BY <1>1, <3>1, AgentType
    <3>5. PICK p : p = Package("send_buf", 0, a, h.req, "none")
      OBVIOUS
    <3>6. p \in IOPackage /\ p.cmd = "send_buf"
      BY <3>3, <3>5 DEF Package, IOPackage
    <3>7. Live(a)
      BY <3>1, <3>4 DEF IInv, AgentsLive, HasAgent, Agent
    <3>8. sock[a].thread \in Threads
      BY <3>7 DEF IInv, SocketsMade
    <3>9. ToIO(sock[a].thread, p)
      BY <2>1, <3>4, <3>5 DEF MainRecvHeartbeat
    <3>10. QED
      BY <1>2, <3>6, <3>8, <3>9
  <2>2. CASE MainClose
    <3>1. PICK s \in Sockets : s = Head(mainList).socket
      BY <1>1, <2>2, MainTakesFact DEF MainClose
    <3>2. /\ OnSocket("close", s) \in IOPackage /\ OnSocket("close", s).socket = s
          /\ OnSocket("close", s).cmd = "close"
      BY OnSocketFact DEF OnSocket, Package
    <3>3. \/ ioList' = ioList
          \/ sock[s].thread \in Threads /\ ToIO(sock[s].thread, OnSocket("close", s))
      BY <2>2, <3>1 DEF MainClose
    <3>4. QED
      BY <1>2, <2>2, <3>1, <3>2, <3>3
  <2>3. CASE ~MainRecvHeartbeat /\ ~MainClose
    BY <1>5, <2>3 DEF MainLoop, MainWake, MainAccept, MainRecvNoAgent,
                      MainRecvOther, MainRecvShort, MainLeave, ioVars
  <2>4. QED
    BY <2>1, <2>2, <2>3
<1>6. ASSUME NEW u \in Threads, IOLoop(u)
      PROVE  \/ ioList'[t] = ioList[t]
             \/ IOAccept(t) \/ IOAcceptFailed(t) \/ IOSend(t) \/ IOClose(t)
  <2>1. CASE IOWake(u) \/ IOFlush(u)
    BY <2>1 DEF IOWake, IOFlush
  <2>2. CASE ~(IOWake(u) \/ IOFlush(u))
    <3>1. IOAccept(u) \/ IOAcceptFailed(u) \/ IOSend(u) \/ IOClose(u)
      BY <1>6, <2>2 DEF IOLoop
    <3>2. PICK c : IOTakes(u, c)
      BY <3>1 DEF IOAccept, IOAcceptFailed, IOSend, IOClose
    <3>3. t # u => ioList'[t] = ioList[t]
      BY <1>1, <3>2 DEF IOTakes
    <3>4. QED
      BY <3>1, <3>3
  <2>3. QED
    BY <2>1, <2>2
<1>7. ASSUME NEW s \in Sockets,
             Read(s) \/ ReadCloseFrame(s) \/ ReadEvent(s) \/ WriteEvent(s)
      PROVE  ioList'[t] = ioList[t]
  BY <1>1, <1>7, ClientObjects
<1>8. QED
  BY <1>3, <1>4, <1>5, <1>6, <1>7 DEF Next

\* What a thread finds in its list after it took the head.
LEMMA TakenEntries ==
    ASSUME TypeOK, NEW t \in Threads, NEW c, IOTakes(t, c)
    PROVE  /\ ioList[t] # <<>> /\ ioList'[t] = Tail(ioList[t])
           /\ Len(ioList[t]) \in Nat \ {0} /\ Len(ioList'[t]) = Len(ioList[t]) - 1
           /\ 1 \in 1..Len(ioList[t]) /\ ioList[t][1].cmd = c
           /\ Head(ioList[t]) = ioList[t][1]
           /\ \A i \in 1..Len(ioList[t]) : i # 1 =>
                  i - 1 \in 1..Len(ioList'[t]) /\ ioList'[t][i - 1] = ioList[t][i]
           /\ \A i \in 1..Len(ioList'[t]) :
                  i + 1 \in 1..Len(ioList[t]) /\ ioList'[t][i] = ioList[t][i + 1]
<1>1. /\ ioList[t] \in Seq(IOPackage) /\ ioList[t] # <<>> /\ ioList'[t] = Tail(ioList[t])
      /\ Head(ioList[t]).cmd = c
  BY DEF TypeOK, IOTakes
<1>2. /\ Len(ioList[t]) \in Nat \ {0} /\ Len(ioList'[t]) = Len(ioList[t]) - 1
      /\ \A i \in 1..(Len(ioList[t]) - 1) : ioList'[t][i] = ioList[t][i + 1]
      /\ Head(ioList[t]) = ioList[t][1]
  BY <1>1, PopFact
<1>3. QED
  BY <1>1, <1>2

\* The packages of a list after a push.
LEMMA PushedMail ==
    ASSUME TypeOK, NEW t \in Threads, NEW p \in IOPackage,
           ioList'[t] = Append(ioList[t], p)
    PROVE  /\ \A i \in 1..Len(ioList[t]) :
                  i \in 1..Len(ioList'[t]) /\ ioList'[t][i] = ioList[t][i]
           /\ \A i \in 1..Len(ioList'[t]) :
                  \/ i \in 1..Len(ioList[t]) /\ ioList'[t][i] = ioList[t][i]
                  \/ i = Len(ioList[t]) + 1 /\ ioList'[t][i] = p
<1>1. ioList[t] \in Seq(IOPackage)
  BY DEF TypeOK
<1>2. /\ Len(ioList[t]) \in Nat /\ Len(ioList'[t]) = Len(ioList[t]) + 1
      /\ \A k \in 1..Len(ioList[t]) : ioList'[t][k] = ioList[t][k]
      /\ ioList'[t][Len(ioList[t]) + 1] = p
  BY <1>1, PushFact
<1>3. QED
  BY <1>2

Handed(f) ==
    \E t \in Threads : \E i \in 1..Len(ioList[t]) : Hand(t, i) /\ ioList[t][i].fd = f
Held(f) == \E s \in Sockets : Live(s) /\ sock[s].fd = f

OpenOwned == \A f \in open : Handed(f) \/ Held(f)

\* A descriptor on its way to an io thread stays on it, or gets to its socket.
LEMMA HandedStep ==
    ASSUME IInv, [Next]_vars, "bev_fail" \notin Env, NEW f, Handed(f)
    PROVE  Handed(f)' \/ Held(f)'
<1>1. TypeOK
  BY DEF IInv
<1>0. PICK t \in Threads :
          \E k \in 1..Len(ioList[t]) : Hand(t, k) /\ ioList[t][k].fd = f
  BY DEF Handed
<1>2. PICK i \in 1..Len(ioList[t]) : Hand(t, i) /\ ioList[t][i].fd = f
  BY <1>0
<1>3. ASSUME NEW j \in 1..Len(ioList'[t]), ioList'[t][j] = ioList[t][i]
      PROVE  Handed(f)'
  BY <1>2, <1>3 DEF Handed, Hand
<1>4. ASSUME NEW c, IOTakes(t, c), i # 1 PROVE Handed(f)'
  BY <1>1, <1>3, <1>4, TakenEntries
<1>5. CASE ioList'[t] = ioList[t]
  BY <1>3, <1>5
<1>6. CASE IOAccept(t)
  <2>1. CASE i = 1
    <3>1. PICK n \in Sockets, g \in Fds \cup {BadFd} :
              sock'[n].mem = "live" /\ sock'[n].fd = g /\ ioList[t][1].fd = g
      BY <1>6, MakeFacts
    <3>2. QED
      BY <1>2, <2>1, <3>1 DEF Held, Live
  <2>2. CASE i # 1
    BY <1>4, <1>6, <2>2 DEF IOAccept
  <2>3. QED
    BY <2>1, <2>2
<1>7. ASSUME NEW c, IOTakes(t, c), c # "accept" PROVE Handed(f)'
  <2>1. i # 1
    BY <1>1, <1>2, <1>7, TakenEntries DEF Hand
  <2>2. QED
    BY <1>4, <1>7, <2>1
<1>8. CASE IOSend(t) \/ IOClose(t)
  BY <1>7, <1>8 DEF IOSend, IOClose
<1>9. ASSUME NEW p \in IOPackage, ioList'[t] = Append(ioList[t], p)
      PROVE  Handed(f)'
  BY <1>1, <1>3, <1>9, PushedMail
<1>10. ~IOAcceptFailed(t)
  BY DEF IOAcceptFailed
<1>11. QED
  BY <1>5, <1>6, <1>8, <1>9, <1>10, NextLists

\* A descriptor that stays open stays with its socket.
LEMMA HeldStep ==
    ASSUME IInv, [Next]_vars, NEW f, Held(f), f \in open'
    PROVE  Held(f)'
<1>1. PICK s \in Sockets : Live(s) /\ sock[s].fd = f
  BY DEF Held
<1>2. CASE Makes
  <2>1. PICK t \in Threads : IOAccept(t)
    BY <1>2 DEF Makes
  <2>2. PICK n \in Sockets : ~Live(n) /\ \A x \in Sockets : x # n => sock'[x] = sock[x]
    BY <2>1, MakeFacts
  <2>3. sock'[s] = sock[s]
    BY <1>1, <2>2
  <2>4. QED
    BY <1>1, <2>3 DEF Held, Live
<1>3. CASE Deletes
  <2>1. PICK t \in Threads : IOClose(t)
    BY <1>3 DEF Deletes
  <2>2. sock'[s] = sock[s]
    <3>1. CASE sock' = sock
      BY <3>1
    <3>2. CASE sock' # sock
      <4>1. PICK x \in Sockets : /\ \A r \in Sockets : r # x => sock'[r] = sock[r]
                                 /\ open' = open \ {sock[x].fd}
        BY <2>1, <3>2, DeleteFacts
      <4>2. x # s
        BY <1>1, <4>1
      <4>3. QED
        BY <4>1, <4>2
    <3>3. QED
      BY <3>1, <3>2
  <2>3. QED
    BY <1>1, <2>2 DEF Held, Live
<1>4. CASE ~Makes /\ ~Deletes
  <2>1. SameObjects
    BY <1>4, OthersKeep DEF IInv
  <2>2. QED
    BY <1>1, <2>1 DEF SameObjects, SameObject, Held, Live
<1>5. QED
  BY <1>2, <1>3, <1>4

\* Every step leaves the open descriptors an owner.
LEMMA OpenStep ==
    ASSUME IInv, OpenOwned, [Next]_vars, "bev_fail" \notin Env
    PROVE  OpenOwned'
<1>1. TypeOK
  BY DEF IInv
<1>2. ASSUME NEW f \in open', f \notin open PROVE Handed(f)'
  <2>1. CASE AcceptConnection
    <3>1. PICK g \in Fds : open' = open \cup {g} /\ HandOver(g)
      BY <2>1 DEF AcceptConnection
    <3>2. f = g
      BY <1>2, <3>1
    <3>3. PICK p : p = Package("accept", f, 0, 0, "none")
      OBVIOUS
    <3>4. p \in IOPackage /\ p.cmd = "accept" /\ p.fd = f /\ f # BadFd
      BY <3>1, <3>2, <3>3, FdInNat DEF Package, IOPackage
    <3>5. PICK t \in Threads : ioList'[t] = Append(ioList[t], p)
      BY <1>1, <3>1, <3>2, <3>3 DEF HandOver, ToIO, TypeOK
    <3>6. ioList[t] \in Seq(IOPackage)
      BY <1>1 DEF TypeOK
    <3>7. \E i \in 1..Len(ioList'[t]) : ioList'[t][i] = p
      <4>1. /\ Len(ioList[t]) \in Nat /\ Len(ioList'[t]) = Len(ioList[t]) + 1
            /\ ioList'[t][Len(ioList[t]) + 1] = p
        BY <3>4, <3>5, <3>6, PushFact
      <4>2. Len(ioList[t]) + 1 \in 1..Len(ioList'[t])
        BY <4>1
      <4>3. QED
        BY <4>1, <4>2
    <3>8. QED
      BY <3>4, <3>7 DEF Handed, Hand
  <2>2. CASE Makes
    BY <1>2, <2>2, MakeFacts DEF Makes
  <2>3. CASE Deletes
    BY <1>2, <2>3, DeleteFacts DEF Deletes
  <2>4. CASE ~AcceptConnection /\ ~Makes /\ ~Deletes
    BY <1>1, <1>2, <2>4, OthersKeep
  <2>5. QED
    BY <2>1, <2>2, <2>3, <2>4
<1>3. ASSUME NEW f \in open', f \in open PROVE Handed(f)' \/ Held(f)'
  BY <1>3, HandedStep, HeldStep DEF OpenOwned
<1>4. QED
  BY <1>2, <1>3 DEF OpenOwned

\* As long as there is memory for the bufferevents no descriptor is lost: every
\* descriptor that is open belongs to a socket, or to a package on its way to
\* an io thread, and none of these has one that is closed
\* (ServerSocket::acceptCallback, ServerSocketIOThread::pairCallback).
THEOREM NoLeakSafe ==
    ASSUME "bev_fail" \notin Env
    PROVE  Spec => []NoFdLeak
<1>1. Init => OpenOwned
  BY DEF Init, OpenOwned
<1>2. IInv /\ OpenOwned /\ [Next]_vars => OpenOwned'
  BY OpenStep
<1>3. FdInv /\ OpenOwned => NoFdLeak
  <2> SUFFICES ASSUME FdInv, OpenOwned PROVE NoFdLeak
    OBVIOUS
  <2>1. /\ HandsOpen /\ FdsOwned /\ open \subseteq Fds
        /\ ioList \in [Threads -> Seq(IOPackage)]
    BY DEF FdInv, Owners, IInv, TypeOK
  <2> DEFINE carried == {q \in UNION {Packages(ioList[t]) : t \in Threads} :
                             q.cmd = "accept"}
             hands == {p.fd : p \in carried}
             held == {sock[s].fd : s \in {r \in Sockets : Live(r)}}
  <2>2. ASSUME NEW f \in open PROVE f \in (hands \cup held) \ {BadFd}
    <3>1. f # BadFd
      BY <2>1, FdInNat
    <3>2. CASE Handed(f)
      <4>0. PICK t \in Threads : \E k \in 1..Len(ioList[t]) :
                ioList[t][k].cmd = "accept" /\ ioList[t][k].fd = f
        BY <3>2 DEF Handed, Hand
      <4>1. PICK i \in 1..Len(ioList[t]) :
                ioList[t][i].cmd = "accept" /\ ioList[t][i].fd = f
        BY <4>0
      <4>2. ioList[t][i] \in Packages(ioList[t])
        BY <2>1, <4>1 DEF Packages
      <4>3. ioList[t][i] \in carried
        BY <4>1, <4>2
      <4>4. QED
        BY <3>1, <4>1, <4>3
    <3>3. CASE Held(f)
      BY <3>1, <3>3 DEF Held
    <3>4. QED
      BY <3>2, <3>3 DEF OpenOwned
  <2>3. ASSUME NEW f \in hands, f # BadFd PROVE f \in open
    <3>8. PICK q \in carried : q.fd = f
      BY <2>3
    <3>1. q.cmd = "accept" /\ \E t \in Threads : q \in Packages(ioList[t])
      BY <3>8
    <3>9. PICK t \in Threads : q \in Packages(ioList[t])
      BY <3>1
    <3>2. PICK i \in 1..Len(ioList[t]) : q = ioList[t][i]
      BY <2>1, <3>9 DEF Packages
    <3>3. QED
      BY <2>1, <2>3, <3>8, <3>1, <3>2 DEF HandsOpen, Hand
  <2>4. ASSUME NEW f \in held, f # BadFd PROVE f \in open
    BY <2>1, <2>4 DEF FdsOwned
  <2>5. open = (hands \cup held) \ {BadFd}
    BY <2>2, <2>3, <2>4
  <2>6. QED
    BY <2>5 DEF NoFdLeak
<1>4. FdInv => IInv
  BY DEF FdInv
<1>5. QED
  BY <1>1, <1>2, <1>3, <1>4, FdInvariance, PTL DEF Spec
=============================================================================
