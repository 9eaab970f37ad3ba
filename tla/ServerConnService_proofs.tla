----------------------- MODULE ServerConnService_proofs ----------------------
(***************************************************************************)
(* The server's connections implement EchoService, for every number of io    *)
(* threads, connections, requests and descriptors, every limit and every     *)
(* environment.                                                              *)
(*                                                                           *)
(* A socket is new to the application when its accept reaches main, and an   *)
(* agent stands for an open session. The requests of a socket go up in the   *)
(* order they were read. As long as a socket is connected, what its          *)
(* bufferevent was given and what its send buffer holds are the first        *)
(* replies to what was asked, and the rest is on its way, in order.          *)
(*                                                                           *)
(* Where no write to a client fails, a connection is closed once and main    *)
(* keeps no package of a closed one; where no accept fails either, the two   *)
(* counts are exact.                                                         *)
(***************************************************************************)
EXTENDS ServerConn_proofs, FiniteSetTheorems, SequenceTheorems

Connected(s) == sock[s].status = "connected"
IsRequest(p, s) == p.cmd = "recv_buf" /\ p.socket = s
IsReply(p, s) == p.cmd = "send_buf" /\ p.socket = s
Prefix(u, v) == Len(u) <= Len(v) /\ \A i \in 1..Len(u) : u[i] = v[i]

-----------------------------------------------------------------------------
(***************************************************************************)
(* Sessions                                                                *)
(***************************************************************************)
AgentsOpen == \A f \in DOMAIN mapAgents : session[mapAgents[f]] = "open"

AcceptsNew ==
    \A i \in 1..Len(mainList) :
        mainList[i].cmd = "accept" => session[mainList[i].socket] = "none"

UnusedFresh ==
    \A s \in Sockets : s > nSockets =>
        session[s] = "none" /\ asked[s] = <<>> /\ sock[s] = Unused

SessionInv == AgentsOpen /\ AcceptsNew /\ UnusedFresh

\* A socket that main knows, by an agent or by a package, was made.
LEMMA KnownMade ==
    ASSUME IInv
    PROVE  /\ \A f \in DOMAIN mapAgents :
                  mapAgents[f] \in Sockets /\ mapAgents[f] <= nSockets
           /\ mainList # <<>> => Head(mainList).socket <= nSockets
<1>1. TypeOK /\ AgentsLive /\ SocketsMade /\ MainListMade
  BY DEF IInv, MainInv
<1>2. ASSUME NEW f \in DOMAIN mapAgents
      PROVE  mapAgents[f] \in Sockets /\ mapAgents[f] <= nSockets
  BY <1>1 DEF TypeOK, AgentsLive, SocketsMade
<1>3. ASSUME mainList # <<>> PROVE Head(mainList).socket <= nSockets
  <2>1. mainList \in Seq(MainPackage)
    BY <1>1 DEF TypeOK
  <2>2. 1 \in 1..Len(mainList) /\ Head(mainList) = mainList[1]
    <3>1. Len(mainList) \in Nat \ {0} /\ Head(mainList) = mainList[1]
      BY <1>3, <2>1, PopFact
    <3>2. QED
      BY <3>1
  <2>3. QED
    BY <1>1, <2>2 DEF MainListMade
<1>4. QED
  BY <1>2, <1>3

\* What a step does to the sessions: nothing, or it opens the session of the
\* accepted socket at the head of the list, or it closes the session of an
\* agent, which it takes away.
Opens ==
    \E s \in Sockets :
        /\ mainList # <<>>
        /\ Head(mainList).cmd = "accept" /\ Head(mainList).socket = s
        /\ mainList' = Tail(mainList)
        /\ session' = [session EXCEPT ![s] = "open"]
        /\ \A f \in DOMAIN mapAgents' :
               \/ f \in DOMAIN mapAgents /\ mapAgents'[f] = mapAgents[f]
               \/ mapAgents'[f] = s

Closes ==
    \E a \in Sockets :
        /\ sock[a].fd \in DOMAIN mapAgents /\ mapAgents[sock[a].fd] = a
        /\ ForgetAgent(a)
        /\ mainList # <<>> /\ mainList' = Tail(mainList)

KeepsSessions == session' = session /\ mapAgents' = mapAgents

\* What a step does to sessions, agents and sockets.
LEMMA NextSessions ==
    ASSUME IInv, [Next]_vars
    PROVE  \/ Opens /\ UNCHANGED <<ioVars, asked>>
           \/ Closes /\ UNCHANGED <<sock, nSockets, asked>>
           \/ KeepsSessions
<1>1. TypeOK
  BY DEF IInv
<1>2. CASE UNCHANGED vars
  BY <1>2 DEF vars, mainVars, KeepsSessions
<1>3. CASE AcceptConnection \/ AcceptRefused \/ AcceptFailed
  BY <1>3 DEF AcceptConnection, AcceptRefused, AcceptFailed, mainVars, KeepsSessions
<1>4. ASSUME NEW s \in Sockets, HasAgent(s)
      PROVE  \E a \in Sockets :
                 /\ a = Agent(s)
                 /\ sock[a].fd \in DOMAIN mapAgents /\ mapAgents[sock[a].fd] = a
  <2>1. Agent(s) \in Sockets
    BY <1>1, <1>4, AgentType
  <2>2. sock[Agent(s)].fd = sock[s].fd
    BY <1>4 DEF IInv, AgentsLive, HasAgent, Agent
  <2>3. QED
    BY <1>4, <2>1, <2>2 DEF HasAgent, Agent
<1>5. CASE MainLoop
  <2>1. CASE MainAccept
    <3>1. MainTakes("accept") /\ UNCHANGED <<ioVars, asked>>
      BY <2>1 DEF MainAccept
    <3>2. PICK s \in Sockets :
              /\ s = Head(mainList).socket /\ mainList # <<>>
              /\ Head(mainList).cmd = "accept" /\ mainList' = Tail(mainList)
      BY <1>1, <3>1, MainTakesFact
    <3>3. CASE HasAgent(s)
      BY <2>1, <3>2, <3>3 DEF MainAccept, KeepsSessions
    <3>4. CASE ~HasAgent(s)
      <4>1. /\ session' = [session EXCEPT ![s] = "open"]
            /\ mapAgents' = [f \in DOMAIN mapAgents \cup {sock[s].fd} |->
                                 IF f = sock[s].fd THEN s ELSE mapAgents[f]]
        BY <2>1, <3>2, <3>4 DEF MainAccept
      <4>2. \A f \in DOMAIN mapAgents' :
                \/ f \in DOMAIN mapAgents /\ mapAgents'[f] = mapAgents[f]
                \/ mapAgents'[f] = s
        BY <4>1
      <4>3. Opens
        BY <3>2, <4>1, <4>2 DEF Opens
      <4>4. QED
        BY <3>1, <4>3
    <3>5. QED
      BY <3>3, <3>4
  <2>2. CASE MainRecvShort
    <3>1. MainTakes("recv_buf") /\ UNCHANGED <<ioVars, asked>>
      BY <2>2 DEF MainRecvShort
    <3>2. PICK s \in Sockets :
              /\ s = Head(mainList).socket /\ mainList # <<>>
              /\ mainList' = Tail(mainList)
      BY <1>1, <3>1, MainTakesFact
    <3>3. HasAgent(s) /\ ForgetAgent(Agent(s))
      BY <2>2, <3>2 DEF MainRecvShort
    <3>4. Closes
      BY <1>4, <3>2, <3>3 DEF Closes
    <3>5. QED
      BY <3>1, <3>4 DEF ioVars
  <2>3. CASE MainClose
    <3>1. MainTakes("close") /\ UNCHANGED <<sock, nSockets, asked>>
      BY <2>3 DEF MainClose
    <3>2. PICK s \in Sockets :
              /\ s = Head(mainList).socket /\ mainList # <<>>
              /\ mainList' = Tail(mainList)
      BY <1>1, <3>1, MainTakesFact
    <3>3. CASE HasAgent(s)
      <4>1. ForgetAgent(Agent(s))
        BY <2>3, <3>2, <3>3 DEF MainClose
      <4>2. Closes
        BY <1>4, <3>2, <3>3, <4>1 DEF Closes
      <4>3. QED
        BY <3>1, <4>2
    <3>4. CASE ~HasAgent(s)
      BY <2>3, <3>2, <3>4 DEF MainClose, KeepsSessions
    <3>5. QED
      BY <3>3, <3>4
  <2>4. CASE ~MainAccept /\ ~MainRecvShort /\ ~MainClose
    BY <1>5, <2>4 DEF MainLoop, MainWake, MainRecvNoAgent, MainRecvHeartbeat,
                      MainRecvOther, MainLeave, KeepsSessions
  <2>5. QED
    BY <2>1, <2>2, <2>3, <2>4
<1>6. ASSUME NEW t \in Threads, IOLoop(t) PROVE KeepsSessions
  <2>1. CASE IOWake(t) \/ IOFlush(t)
    BY <2>1 DEF IOWake, IOFlush, mainVars, KeepsSessions
  <2>2. CASE ~(IOWake(t) \/ IOFlush(t))
    <3>1. PICK c : IOTakes(t, c)
      BY <1>6, <2>2 DEF IOLoop, IOAccept, IOAcceptFailed, IOSend, IOClose
    <3>2. QED
      BY <3>1 DEF IOTakes, KeepsSessions
  <2>3. QED
    BY <2>1, <2>2
<1>7. ASSUME NEW s \in Sockets,
             Read(s) \/ ReadCloseFrame(s) \/ ReadEvent(s) \/ WriteEvent(s)
      PROVE  KeepsSessions
  BY <1>7 DEF Read, ReadCloseFrame, ReadEvent, WriteEvent, Unaffected, KeepsSessions
<1>8. QED
  BY <1>2, <1>3, <1>5, <1>6, <1>7 DEF Next

\* Only a heartbeat is answered: the next request of an agent, which is told to
\* the agent's thread.
Asks ==
    \E a \in Sockets, r \in Requests :
        /\ mainList # <<>>
        /\ Head(mainList).cmd = "recv_buf" /\ Head(mainList).socket = a
        /\ Head(mainList).req = r
        /\ mainList' = Tail(mainList)
        /\ sock[a].fd \in DOMAIN mapAgents /\ mapAgents[sock[a].fd] = a
        /\ asked' = [asked EXCEPT ![a] = Append(@, r)]
        /\ ToIO(sock[a].thread, Package("send_buf", 0, a, r, "none"))
        /\ UNCHANGED <<sock, nSockets, sent>>
        /\ KeepsSessions

\* What a step does to the history of the requests.
LEMMA NextAsked ==
    ASSUME FdInv, [Next]_vars
    PROVE  Asks \/ (asked' = asked /\ ~MainRecvHeartbeat)
<1>1. TypeOK /\ IInv
  BY DEF FdInv, IInv
<1>2. CASE MainRecvHeartbeat
  <2>1. MainTakes("recv_buf")
    BY <1>2 DEF MainRecvHeartbeat
  <2>2. PICK p \in MainPackage :
            /\ p = Head(mainList) /\ mainList # <<>> /\ mainList' = Tail(mainList)
            /\ p.cmd = "recv_buf" /\ sent' = sent
    BY <1>1, <2>1, MainTakesFact
  <2>3. PICK a \in Sockets, r \in Requests : a = p.socket /\ r = p.req
    BY <2>2 DEF MainPackage
  <2>4. HasAgent(a)
    BY <1>2, <2>2, <2>3 DEF MainRecvHeartbeat
  <2>5. Agent(a) = a
    BY <2>2, <2>3, <2>4, RequestsOwn DEF RequestsToOwnAgent
  <2>6. /\ asked' = [asked EXCEPT ![a] = Append(@, r)]
        /\ ToIO(sock[a].thread, Package("send_buf", 0, a, r, "none"))
        /\ UNCHANGED <<sock, nSockets>>
        /\ KeepsSessions
    BY <1>2, <2>2, <2>3, <2>5 DEF MainRecvHeartbeat, KeepsSessions
  <2>7. sock[a].fd \in DOMAIN mapAgents /\ mapAgents[sock[a].fd] = a
    BY <2>4, <2>5 DEF HasAgent, Agent
  <2>8. QED
    BY <2>2, <2>3, <2>6, <2>7 DEF Asks
<1>3. CASE ~MainRecvHeartbeat
  <2>1. CASE UNCHANGED vars
    BY <1>3, <2>1 DEF vars, mainVars
  <2>2. CASE AcceptConnection \/ AcceptRefused \/ AcceptFailed
    BY <1>3, <2>2 DEF AcceptConnection, AcceptRefused, AcceptFailed, mainVars
  <2>3. CASE MainLoop
    BY <1>3, <2>3 DEF MainLoop, MainWake, MainAccept, MainRecvNoAgent,
                      MainRecvOther, MainRecvShort, MainClose, MainLeave
  <2>4. ASSUME NEW t \in Threads, IOLoop(t) PROVE asked' = asked
    BY <2>4 DEF IOLoop, IOWake, IOAccept, IOAcceptFailed, IOSend, IOClose, IOFlush,
                IOTakes, mainVars
  <2>5. ASSUME NEW s \in Sockets,
               Read(s) \/ ReadCloseFrame(s) \/ ReadEvent(s) \/ WriteEvent(s)
        PROVE  asked' = asked
    BY <2>5 DEF Read, ReadCloseFrame, ReadEvent, WriteEvent, Unaffected
  <2>6. QED
    BY <1>3, <2>1, <2>2, <2>3, <2>4, <2>5 DEF Next
<1>4. QED
  BY <1>2, <1>3

\* A socket that is still to be made is not touched.
LEMMA FreshStep ==
    ASSUME IInv, [Next]_vars, NEW s \in Sockets, sock[s] = Unused, s > nSockets,
           s > nSockets'
    PROVE  sock'[s] = Unused
<1>1. TypeOK /\ SocketsMade
  BY DEF IInv
<1>2. nSockets \in Nat /\ s \in Nat /\ sock \in [Sockets -> SocketType]
  BY <1>1 DEF TypeOK, Sockets
<1>3. ~Live(s)
  BY <1>2 DEF Live, Unused
<1>4. CASE UNCHANGED vars
  BY <1>4 DEF vars, ioVars
<1>5. CASE AcceptConnection \/ AcceptRefused \/ AcceptFailed
  BY <1>5 DEF AcceptConnection, AcceptRefused, AcceptFailed, ioVars
<1>6. CASE MainLoop
  BY <1>6 DEF MainLoop, MainWake, MainAccept, MainRecvNoAgent, MainRecvHeartbeat,
              MainRecvOther, MainRecvShort, MainClose, MainLeave, ioVars
<1>7. ASSUME NEW t \in Threads, IOLoop(t) PROVE sock'[s] = Unused
  <2>1. CASE IOWake(t) \/ IOAcceptFailed(t)
    BY <2>1 DEF IOWake, IOAcceptFailed
  <2>2. CASE IOAccept(t)
    <3>1. PICK n \in Sockets :
              n = nSockets' /\ \A r \in Sockets : r # n => sock'[r] = sock[r]
      BY <2>2, MakeFacts
    <3>2. s # n
      BY <1>2, <3>1
    <3>3. QED
      BY <3>1, <3>2
  <2>3. CASE IOSend(t)
    <3>1. IOTakes(t, "send_buf")
      BY <2>3 DEF IOSend
    <3>2. PICK p \in Sockets : p = Head(ioList[t]).socket
      BY <1>1, <3>1, IOTakesFact
    <3>3. \E x : sock' = [sock EXCEPT ![p] = x]
      BY <2>3, <3>2 DEF IOSend
    <3>4. Live(p)
      <4>1. ioList[t] \in Seq(IOPackage) /\ ioList[t] # <<>>
               /\ Head(ioList[t]).cmd = "send_buf"
        BY <1>1, <3>1, IOTakesFact
      <4>2. Len(ioList[t]) \in Nat \ {0} /\ Head(ioList[t]) = ioList[t][1]
        BY <4>1, PopFact
      <4>3. SendTargetsLive /\ 1 \in 1..Len(ioList[t])
        BY <4>2 DEF IInv, IOInv
      <4>4. QED
        BY <3>2, <4>1, <4>2, <4>3 DEF SendTargetsLive
    <3>5. p # s
      BY <1>3, <3>4
    <3>6. QED
      BY <1>2, <3>3, <3>5
  <2>4. CASE IOClose(t)
    <3>1. IOTakes(t, "close")
      BY <2>4 DEF IOClose
    <3>2. PICK p \in Sockets : p = Head(ioList[t]).socket
      BY <1>1, <3>1, IOTakesFact
    <3>3. sock' = sock \/ (Live(p) /\ \E x : sock' = [sock EXCEPT ![p] = x])
      BY <2>4, <3>2 DEF IOClose, Live
    <3>4. QED
      BY <1>2, <1>3, <3>3
  <2>5. CASE IOFlush(t)
    <3>1. sock'[s] = consumeSendBuf(sock[s]) \/ sock'[s] = sock[s]
      BY <2>5 DEF IOFlush
    <3>2. consumeSendBuf(Unused) = Unused
      BY DEF consumeSendBuf, hadSendBufData, Unused
    <3>3. QED
      BY <3>1, <3>2
  <2>6. QED
    BY <1>7, <2>1, <2>2, <2>3, <2>4, <2>5 DEF IOLoop
<1>8. ASSUME NEW r \in Sockets,
             Read(r) \/ ReadCloseFrame(r) \/ ReadEvent(r) \/ WriteEvent(r)
      PROVE  sock'[s] = Unused
  <2>1. Live(r)
    BY <1>8 DEF Read, ReadCloseFrame, ReadEvent, WriteEvent, Served, Live
  <2>2. sock' = sock \/ \E x : sock' = [sock EXCEPT ![r] = x]
    <3>1. CASE Read(r)
      BY <3>1 DEF Read
    <3>2. CASE ReadCloseFrame(r)
      <4>1. sock' = [sock EXCEPT ![r] = [sock[r] EXCEPT !.status = "while_Close"]]
        BY <3>2 DEF ReadCloseFrame
      <4>2. QED
        BY <4>1
    <3>3. CASE ReadEvent(r)
      <4>1. sock' = [sock EXCEPT ![r] = [sock[r] EXCEPT !.reading = FALSE]]
        BY <3>3 DEF ReadEvent
      <4>2. QED
        BY <4>1
    <3>4. CASE WriteEvent(r)
      <4>1. sock' = [sock EXCEPT ![r] = [sock[r] EXCEPT !.writing = "failed"]]
        BY <3>4 DEF WriteEvent
      <4>2. QED
        BY <4>1
    <3>5. QED
      BY <1>8, <3>1, <3>2, <3>3, <3>4
  <2>3. QED
    BY <1>2, <1>3, <2>1, <2>2
<1>9. QED
  BY <1>4, <1>5, <1>6, <1>7, <1>8 DEF Next

-----------------------------------------------------------------------------
(***************************************************************************)
(* Main's list                                                             *)
(***************************************************************************)
Kept == mainList' = mainList
Popped == mainList # <<>> /\ mainList' = Tail(mainList)

\* An io thread announces a socket that it made.
Announces ==
    \E n \in Sockets :
        n > nSockets /\ ToMain(OnSocket("accept", n)) /\ sent' = sent

\* A callback of libevent hands up a request or a close.
HandsUp(s) ==
    \E k \in Kinds :
        /\ ToMain(Package("recv_buf", 0, s, sent[s] + 1, k))
        /\ sent[s] + 1 \in Requests
        /\ sent' = [sent EXCEPT ![s] = sent[s] + 1]

Reports(s) == ToMain(OnSocket("close", s)) /\ sent' = sent

\* What a step does to main's list, and to what clients have sent.
LEMMA NextMain ==
    ASSUME IInv, [Next]_vars
    PROVE  \/ Kept /\ (sent' = sent \/ \E s \in Sockets :
                                           sent' = [sent EXCEPT ![s] = sent[s] + 1])
           \/ Popped /\ sent' = sent /\ nSockets' = nSockets
           \/ Announces
           \/ \E s \in Sockets : HandsUp(s) \/ Reports(s)
<1>1. TypeOK
  BY DEF IInv
<1>2. CASE UNCHANGED vars
  BY <1>2 DEF vars, mainVars, envVars, Kept
<1>3. CASE AcceptConnection \/ AcceptRefused \/ AcceptFailed
  BY <1>3 DEF AcceptConnection, AcceptRefused, AcceptFailed, HandOver, mainVars, Kept,
              AcceptReady
<1>4. CASE MainLoop
  <2>1. CASE MainWake \/ MainLeave
    BY <2>1 DEF MainWake, MainLeave, envVars, Kept
  <2>2. CASE ~MainWake /\ ~MainLeave
    <3>1. PICK c : MainTakes(c)
      BY <1>4, <2>2 DEF MainLoop, MainAccept, MainRecvNoAgent, MainRecvHeartbeat,
                        MainRecvOther, MainRecvShort, MainClose
    <3>2. nSockets' = nSockets
      BY <1>4, <2>2 DEF MainLoop, MainAccept, MainRecvNoAgent, MainRecvHeartbeat,
                        MainRecvOther, MainRecvShort, MainClose, ioVars
    <3>3. QED
      BY <3>1, <3>2 DEF MainTakes, Popped, envVars
  <2>3. QED
    BY <2>1, <2>2
<1>5. ASSUME NEW t \in Threads, IOLoop(t)
      PROVE  (Kept /\ sent' = sent) \/ Announces
  <2>1. CASE IOAccept(t)
    <3>1. \E n \in Sockets : n > nSockets /\ ToMain(OnSocket("accept", n))
      BY <1>1, <2>1, MakeFacts
    <3>2. sent' = sent
      BY <2>1 DEF IOAccept, IOTakes
    <3>3. QED
      BY <3>1, <3>2 DEF Announces
  <2>2. CASE ~IOAccept(t)
    BY <1>5, <2>2 DEF IOLoop, IOWake, IOAcceptFailed, IOSend, IOClose, IOFlush, IOTakes,
                      mainVars, envVars, Kept
  <2>3. QED
    BY <2>1, <2>2
<1>6. ASSUME NEW s \in Sockets,
             Read(s) \/ ReadCloseFrame(s) \/ ReadEvent(s) \/ WriteEvent(s)
      PROVE  \/ Kept /\ (sent' = sent \/ sent' = [sent EXCEPT ![s] = sent[s] + 1])
             \/ HandsUp(s) \/ Reports(s)
  <2>1. CASE Read(s)
    <3>1. /\ sent' = [sent EXCEPT ![s] = sent[s] + 1] /\ sent[s] < MaxReq
          /\ \/ mainList' = mainList
             \/ \E k \in Kinds : ToMain(Package("recv_buf", 0, s, sent'[s], k))
      BY <2>1 DEF Read
    <3>2. sent'[s] = sent[s] + 1 /\ sent[s] + 1 \in Requests
      BY <1>1, <3>1, ServerConnAssumption, SMTT(30) DEF TypeOK, Requests
    <3>3. QED
      BY <3>1, <3>2 DEF Kept, HandsUp
  <2>2. CASE ReadCloseFrame(s)
    BY <2>2 DEF ReadCloseFrame, Kept
  <2>3. CASE ReadEvent(s) \/ WriteEvent(s)
    BY <2>3 DEF ReadEvent, WriteEvent, Reports
  <2>4. QED
    BY <1>6, <2>1, <2>2, <2>3
<1>7. QED
  BY <1>2, <1>3, <1>4, <1>5, <1>6 DEF Next

\* What is in the list afterwards.
LEMMA PoppedEntries ==
    ASSUME TypeOK, Popped
    PROVE  /\ Len(mainList) \in Nat \ {0} /\ Len(mainList') = Len(mainList) - 1
           /\ Head(mainList) = mainList[1] /\ 1 \in 1..Len(mainList)
           /\ \A i \in 1..Len(mainList') :
                  /\ i \in Nat /\ i + 1 \in 1..Len(mainList)
                  /\ mainList'[i] = mainList[i + 1]
                  /\ 1 \in 1..((i + 1) - 1)
                  /\ \A j \in 1..(i - 1) : j \in 1..Len(mainList') /\ j + 1 \in 1..((i + 1) - 1)
<1>1. mainList \in Seq(MainPackage)
  BY DEF TypeOK
<1>2. /\ Len(mainList) \in Nat \ {0} /\ Len(mainList') = Len(mainList) - 1
      /\ Head(mainList) = mainList[1]
      /\ \A i \in 1..(Len(mainList) - 1) : mainList'[i] = mainList[i + 1]
  BY <1>1, PopFact DEF Popped
<1>3. QED
  BY <1>2

\* Main's list after a push.
LEMMA PushedEntries ==
    ASSUME TypeOK, NEW p \in MainPackage, ToMain(p)
    PROVE  /\ Len(mainList) \in Nat /\ Len(mainList') = Len(mainList) + 1
           /\ \A i \in 1..Len(mainList') :
                  /\ \/ i \in 1..Len(mainList) /\ mainList'[i] = mainList[i]
                     \/ i = Len(mainList) + 1 /\ mainList'[i] = p
                  /\ \A j \in 1..(i - 1) :
                         j \in 1..Len(mainList) /\ mainList'[j] = mainList[j]
<1>1. mainList \in Seq(MainPackage) /\ mainList' = Append(mainList, p)
  BY DEF TypeOK, ToMain
<1>2. /\ Len(mainList) \in Nat /\ Len(mainList') = Len(mainList) + 1
      /\ \A k \in 1..Len(mainList) : mainList'[k] = mainList[k]
      /\ mainList'[Len(mainList) + 1] = p
  BY <1>1, PushFact
<1>3. QED
  BY <1>2

\* The packages that are pushed for main.
LEMMA UpSockets ==
    ASSUME NEW s \in Sockets, NEW c \in {"accept", "close"}
    PROVE  /\ OnSocket(c, s) \in MainPackage
           /\ OnSocket(c, s).cmd = c /\ OnSocket(c, s).socket = s
BY DEF OnSocket, Package, MainPackage

\* The package in which readCallback hands up a request.
LEMMA UpRequest ==
    ASSUME NEW s \in Sockets, NEW r \in Requests, NEW k \in Kinds
    PROVE  /\ Package("recv_buf", 0, s, r, k) \in MainPackage
           /\ Package("recv_buf", 0, s, r, k).cmd = "recv_buf"
           /\ Package("recv_buf", 0, s, r, k).socket = s
           /\ Package("recv_buf", 0, s, r, k).req = r
BY DEF OnSocket, Package, MainPackage, Kinds

\* A list that was popped was not pushed.
LEMMA PoppedQuiet ==
    ASSUME IInv, [Next]_vars, Popped
    PROVE  sent' = sent
<1>1. TypeOK
  BY DEF IInv
<1>2. Len(mainList) \in Nat \ {0} /\ Len(mainList') = Len(mainList) - 1
  BY <1>1, PoppedEntries
<1>3. ~Kept
  BY <1>2 DEF Kept
<1>4. ASSUME NEW p \in MainPackage PROVE ~ToMain(p)
  BY <1>1, <1>2, PushedEntries
<1>5. ~Announces
  BY <1>4, UpSockets DEF Announces
<1>6. ASSUME NEW s \in Sockets PROVE ~HandsUp(s) /\ ~Reports(s)
  BY <1>4, UpSockets, UpRequest DEF HandsUp, Reports
<1>7. QED
  BY <1>3, <1>5, <1>6, NextMain

-----------------------------------------------------------------------------
\* The number of made sockets does not go down.
LEMMA MadeGrows ==
    ASSUME IInv, [Next]_vars
    PROVE  nSockets' >= nSockets /\ nSockets \in Nat /\ nSockets' \in Nat
<1>1. TypeOK /\ TypeOK'
  BY NextType DEF IInv
<1>2. nSockets \in Nat /\ nSockets' \in Nat
  BY <1>1 DEF TypeOK
<1>3. CASE Makes
  <2>1. PICK t \in Threads : IOAccept(t)
    BY <1>3 DEF Makes
  <2>2. \E n \in Sockets : n > nSockets /\ n = nSockets'
    BY <2>1, MakeFacts
  <2>3. QED
    BY <1>2, <2>2
<1>4. CASE Deletes
  <2>1. nSockets' = nSockets
    BY <1>4 DEF Deletes, IOClose
  <2>2. QED
    BY <1>2, <2>1
<1>5. CASE ~Makes /\ ~Deletes
  <2>1. nSockets' = nSockets
    BY <1>1, <1>5, OthersKeep
  <2>2. QED
    BY <1>2, <2>1
<1>6. QED
  BY <1>3, <1>4, <1>5

\* Sessions stay as the agents and the packages say.
LEMMA SessionStep == FdInv /\ SessionInv /\ [Next]_vars => SessionInv'
<1> SUFFICES ASSUME FdInv, SessionInv, [Next]_vars PROVE SessionInv'
  OBVIOUS
<1>1. /\ TypeOK /\ TypeOK' /\ IInv /\ AgentsLive
      /\ AgentsOpen /\ AcceptsNew /\ UnusedFresh
      /\ session \in [Sockets -> {"none", "open", "closed"}]
      /\ asked \in [Sockets -> Seq(Requests)]
      /\ mainList \in Seq(MainPackage)
  BY NextType DEF FdInv, IInv, SessionInv, TypeOK
<1>2. nSockets' >= nSockets /\ nSockets \in Nat /\ nSockets' \in Nat
  BY <1>1, MadeGrows
<1>3. AgentsOpen'
  <2>1. CASE Opens
    BY <1>1, <2>1, KnownMade DEF Opens, AgentsOpen
  <2>2. CASE Closes
    <3>1. PICK a \in Sockets :
              /\ sock[a].fd \in DOMAIN mapAgents /\ mapAgents[sock[a].fd] = a
              /\ ForgetAgent(a)
      BY <2>2 DEF Closes
    <3>2. session' = [session EXCEPT ![a] = "closed"]
      BY <3>1 DEF ForgetAgent
    <3>3. ASSUME NEW f \in DOMAIN mapAgents'
          PROVE  session'[mapAgents'[f]] = "open"
      <4>1. f \in DOMAIN mapAgents /\ f # sock[a].fd /\ mapAgents'[f] = mapAgents[f]
        BY <3>1, ForgetFact
      <4>2. mapAgents[f] \in Sockets /\ sock[mapAgents[f]].fd = f
        BY <1>1, <4>1, KnownMade DEF AgentsLive
      <4>3. mapAgents[f] # a
        BY <4>1, <4>2
      <4>4. QED
        BY <1>1, <3>2, <4>1, <4>2, <4>3 DEF AgentsOpen
    <3>4. QED
      BY <3>3 DEF AgentsOpen
  <2>3. CASE KeepsSessions
    BY <1>1, <2>3 DEF KeepsSessions, AgentsOpen
  <2>4. QED
    BY <1>1, <2>1, <2>2, <2>3, NextSessions
<1>4. ASSUME NEW s \in Sockets, session[s] = "none", session'[s] # "none"
      PROVE  /\ Popped /\ s <= nSockets
             /\ Head(mainList).socket = s /\ Head(mainList).cmd = "accept"
  <2>1. CASE Opens
    <3>1. PICK x \in Sockets :
              /\ Head(mainList).cmd = "accept" /\ Head(mainList).socket = x
              /\ session' = [session EXCEPT ![x] = "open"]
              /\ Popped
      BY <2>1 DEF Opens, Popped
    <3>2. x = s
      BY <1>1, <1>4, <3>1
    <3>3. Head(mainList).socket <= nSockets
      BY <1>1, <3>1, KnownMade DEF Popped
    <3>4. QED
      BY <3>1, <3>2, <3>3
  <2>2. CASE Closes
    <3>1. PICK a \in Sockets :
              /\ sock[a].fd \in DOMAIN mapAgents /\ mapAgents[sock[a].fd] = a
              /\ ForgetAgent(a)
      BY <2>2 DEF Closes
    <3>2. session' = [session EXCEPT ![a] = "closed"] /\ session[a] = "open"
      BY <1>1, <3>1 DEF ForgetAgent, AgentsOpen
    <3>3. QED
      BY <1>1, <1>4, <3>2
  <2>3. CASE KeepsSessions
    BY <1>4, <2>3 DEF KeepsSessions
  <2>4. QED
    BY <1>1, <2>1, <2>2, <2>3, NextSessions
<1>5. AcceptsNew'
  <2>1. ASSUME NEW i \in 1..Len(mainList), NEW j \in 1..(i - 1), Popped,
               Head(mainList).socket = mainList[i].socket, j = 1,
               Head(mainList) = mainList[1]
        PROVE  mainList[i].cmd # "accept"
    BY <1>1, <2>1 DEF IInv, MainInv, AcceptFirst
  <2>2. CASE Kept
    <3>1. ~Popped
      BY <1>1, <2>2, PoppedEntries DEF Kept
    <3>2. ASSUME NEW i \in 1..Len(mainList), mainList[i].cmd = "accept"
          PROVE  session'[mainList[i].socket] = "none"
      <4>1. mainList[i].socket \in Sockets /\ session[mainList[i].socket] = "none"
        BY <1>1, <3>2 DEF MainPackage, AcceptsNew
      <4>2. QED
        BY <1>4, <3>1, <4>1
    <3>3. QED
      BY <2>2, <3>2 DEF Kept, AcceptsNew
  <2>3. CASE Popped
    <3>1. ASSUME NEW i \in 1..Len(mainList'), mainList'[i].cmd = "accept"
          PROVE  session'[mainList'[i].socket] = "none"
      <4>1. /\ i + 1 \in 1..Len(mainList) /\ mainList'[i] = mainList[i + 1]
            /\ 1 \in 1..((i + 1) - 1) /\ Head(mainList) = mainList[1]
        BY <1>1, <2>3, PoppedEntries
      <4>2. mainList[i + 1].socket \in Sockets /\ session[mainList[i + 1].socket] = "none"
        BY <1>1, <3>1, <4>1 DEF MainPackage, AcceptsNew
      <4>3. Head(mainList).socket # mainList[i + 1].socket
        BY <2>1, <2>3, <3>1, <4>1
      <4>4. QED
        BY <1>4, <4>1, <4>2, <4>3
    <3>2. QED
      BY <3>1 DEF AcceptsNew
  <2>4. ASSUME NEW p \in MainPackage, ToMain(p),
               p.cmd = "accept" => p.socket \in Sockets /\ p.socket > nSockets
        PROVE  AcceptsNew'
    <3>1. ~Popped
      <4>1. Len(mainList) \in Nat /\ Len(mainList') = Len(mainList) + 1
        BY <1>1, <2>4, PushedEntries
      <4>2. QED
        BY <1>1, <4>1, PoppedEntries
    <3>2. ASSUME NEW i \in 1..Len(mainList'), mainList'[i].cmd = "accept"
          PROVE  session'[mainList'[i].socket] = "none"
      <4>1. CASE i \in 1..Len(mainList) /\ mainList'[i] = mainList[i]
        <5>1. mainList[i].socket \in Sockets /\ session[mainList[i].socket] = "none"
          BY <1>1, <3>2, <4>1 DEF MainPackage, AcceptsNew
        <5>2. QED
          BY <1>4, <3>1, <4>1, <5>1
      <4>2. CASE mainList'[i] = p
        <5>1. p.socket \in Sockets /\ session[p.socket] = "none"
          BY <1>1, <2>4, <3>2, <4>2 DEF UnusedFresh
        <5>2. QED
          BY <1>4, <3>1, <4>2, <5>1
      <4>3. QED
        BY <1>1, <2>4, <4>1, <4>2, PushedEntries
    <3>3. QED
      BY <3>2 DEF AcceptsNew
  <2>5. CASE Announces
    <3>1. PICK n \in Sockets : n > nSockets /\ ToMain(OnSocket("accept", n))
      BY <2>5 DEF Announces
    <3>2. QED
      BY <2>4, <3>1, UpSockets
  <2>6. ASSUME NEW s \in Sockets, HandsUp(s) PROVE AcceptsNew'
    <3>1. PICK k \in Kinds : ToMain(Package("recv_buf", 0, s, sent[s] + 1, k))
                             /\ sent[s] + 1 \in Requests
      BY <2>6 DEF HandsUp
    <3>2. QED
      BY <2>4, <3>1, UpRequest
  <2>7. ASSUME NEW s \in Sockets, Reports(s) PROVE AcceptsNew'
    BY <2>4, <2>7, UpSockets DEF Reports
  <2>8. QED
    BY <1>1, <2>2, <2>3, <2>5, <2>6, <2>7, NextMain
<1>6. UnusedFresh'
  <2>1. ASSUME NEW s \in Sockets, s > nSockets'
        PROVE  session'[s] = "none" /\ asked'[s] = <<>> /\ sock'[s] = Unused
    <3>1. s > nSockets /\ ~(s <= nSockets)
      BY <1>2, <2>1 DEF Sockets
    <3>2. session[s] = "none" /\ asked[s] = <<>> /\ sock[s] = Unused
      BY <1>1, <3>1 DEF UnusedFresh
    <3>3. session'[s] = "none"
      BY <1>4, <3>1, <3>2
    <3>4. asked'[s] = <<>>
      <4>1. CASE Asks
        <5>1. PICK a \in Sockets : /\ asked' = [asked EXCEPT ![a] = asked'[a]]
                                   /\ sock[a].fd \in DOMAIN mapAgents
                                   /\ mapAgents[sock[a].fd] = a
          BY <1>1, <4>1 DEF Asks
        <5>2. a # s
          BY <1>1, <3>1, <5>1, KnownMade
        <5>3. QED
          BY <1>1, <3>2, <5>1, <5>2
      <4>2. CASE ~Asks
        BY <3>2, <4>2, NextAsked
      <4>3. QED
        BY <4>1, <4>2
    <3>5. QED
      BY <1>1, <2>1, <3>1, <3>2, <3>3, <3>4, FreshStep
  <2>2. QED
    BY <2>1 DEF UnusedFresh
<1>7. QED
  BY <1>3, <1>5, <1>6 DEF SessionInv

-----------------------------------------------------------------------------
(***************************************************************************)
(* The order of the requests                                               *)
(***************************************************************************)
\* What was asked of a socket was sent, each request once and in order.
AskedUp ==
    \A s \in Sockets : \A i \in 1..Len(asked[s]) :
        /\ asked[s][i] <= sent[s]
        /\ \A j \in 1..(i - 1) : asked[s][j] < asked[s][i]

\* What waits to be asked of it comes later, in order.
Later(p, s) == \A j \in 1..Len(asked[s]) : asked[s][j] < p.req

WaitingUp ==
    \A i \in 1..Len(mainList) : \A s \in Sockets : IsRequest(mainList[i], s) =>
        /\ mainList[i].req <= sent[s]
        /\ Later(mainList[i], s)
        /\ \A j \in 1..(i - 1) :
               IsRequest(mainList[j], s) => mainList[j].req < mainList[i].req

OrderInv == AskedUp /\ WaitingUp

\* A request that is asked is later than those before.
LEMMA AsksLater ==
    ASSUME TypeOK, WaitingUp, Asks
    PROVE  \E a \in Sockets, r \in Requests :
               /\ IsRequest(mainList[1], a) /\ mainList[1].req = r
               /\ r <= sent[a] /\ Popped /\ sent' = sent
               /\ \A j \in 1..Len(asked[a]) : asked[a][j] < r
               /\ \A s \in Sockets : s # a => asked'[s] = asked[s]
               /\ Len(asked[a]) \in Nat /\ Len(asked'[a]) = Len(asked[a]) + 1
               /\ \A i \in 1..Len(asked[a]) : asked'[a][i] = asked[a][i]
               /\ asked'[a][Len(asked[a]) + 1] = r
<1>1. PICK a \in Sockets, r \in Requests :
          /\ mainList # <<>>
          /\ Head(mainList).cmd = "recv_buf" /\ Head(mainList).socket = a
          /\ Head(mainList).req = r
          /\ mainList' = Tail(mainList) /\ sent' = sent
          /\ asked' = [asked EXCEPT ![a] = Append(@, r)]
  BY DEF Asks
<1>2. Popped
  BY <1>1 DEF Popped
<1>3. Head(mainList) = mainList[1] /\ 1 \in 1..Len(mainList)
  BY <1>2, PoppedEntries
<1>4. IsRequest(mainList[1], a) /\ mainList[1].req = r
  BY <1>1, <1>3 DEF IsRequest
<1>5. r <= sent[a] /\ \A j \in 1..Len(asked[a]) : asked[a][j] < r
  BY <1>3, <1>4 DEF WaitingUp, Later
<1>6. asked \in [Sockets -> Seq(Requests)]
  BY DEF TypeOK
<1>7. \A s \in Sockets : s # a => asked'[s] = asked[s]
  BY <1>1, <1>6
<1>8. asked'[a] = Append(asked[a], r) /\ asked[a] \in Seq(Requests)
  BY <1>1, <1>6
<1>9. /\ Len(asked[a]) \in Nat /\ Len(asked'[a]) = Len(asked[a]) + 1
      /\ \A i \in 1..Len(asked[a]) : asked'[a][i] = asked[a][i]
      /\ asked'[a][Len(asked[a]) + 1] = r
  BY <1>8, PushFact
<1>10. QED
  BY <1>1, <1>2, <1>4, <1>5, <1>7, <1>9

\* Every step leaves the requests in the order in which they were read.
LEMMA OrderStep == FdInv /\ OrderInv /\ [Next]_vars => OrderInv'
<1> SUFFICES ASSUME FdInv, OrderInv, [Next]_vars PROVE OrderInv'
  OBVIOUS
<1>1. /\ TypeOK /\ IInv /\ AskedUp /\ WaitingUp
      /\ asked \in [Sockets -> Seq(Requests)]
      /\ sent \in [Sockets -> 0..MaxReq] /\ MaxReq \in Nat
      /\ mainList \in Seq(MainPackage)
  BY ServerConnAssumption DEF FdInv, IInv, OrderInv, TypeOK
<1>2. \A r \in Requests : r \in Nat
  BY <1>1 DEF Requests
<1>3. ASSUME NEW s \in Sockets, NEW i \in 1..Len(asked[s])
      PROVE  asked[s][i] \in Nat
  BY <1>1, <1>2
<1>4. ASSUME NEW i \in 1..Len(mainList), NEW s \in Sockets, IsRequest(mainList[i], s)
      PROVE  mainList[i].req \in Nat
  <2>1. mainList[i] \in MainPackage
    BY <1>1
  <2>2. mainList[i].req \in Requests
    BY <1>4, <2>1 DEF IsRequest, MainPackage
  <2>3. QED
    BY <1>2, <2>2
<1>5. ASSUME NEW s \in Sockets
      PROVE  sent'[s] >= sent[s] /\ sent[s] \in Nat /\ sent'[s] \in Int
  <2>1. sent' = sent \/ \E x \in Sockets : sent' = [sent EXCEPT ![x] = sent[x] + 1]
    BY <1>1, NextMain DEF Announces, HandsUp, Reports
  <2>2. CASE sent' = sent
    BY <1>1, <2>2
  <2>3. ASSUME NEW x \in Sockets, sent' = [sent EXCEPT ![x] = sent[x] + 1]
        PROVE  sent'[s] >= sent[s] /\ sent[s] \in Nat /\ sent'[s] \in Int
    <3>1. sent'[s] = IF s = x THEN sent[s] + 1 ELSE sent[s]
      BY <1>1, <2>3
    <3>2. QED
      BY <1>1, <3>1
  <2>4. QED
    BY <2>1, <2>2, <2>3
<1>6. AskedUp'
  <2>1. CASE Asks
    <3>1. PICK a \in Sockets, r \in Requests :
              /\ r <= sent[a] /\ sent' = sent
              /\ \A j \in 1..Len(asked[a]) : asked[a][j] < r
              /\ \A s \in Sockets : s # a => asked'[s] = asked[s]
              /\ Len(asked[a]) \in Nat /\ Len(asked'[a]) = Len(asked[a]) + 1
              /\ \A i \in 1..Len(asked[a]) : asked'[a][i] = asked[a][i]
              /\ asked'[a][Len(asked[a]) + 1] = r
      BY <1>1, <2>1, AsksLater
    <3>2. ASSUME NEW i \in 1..Len(asked'[a])
          PROVE  /\ asked'[a][i] <= sent[a]
                 /\ \A j \in 1..(i - 1) : asked'[a][j] < asked'[a][i]
      <4>1. CASE i \in 1..Len(asked[a])
        <5>1. \A j \in 1..(i - 1) : j \in 1..Len(asked[a])
          BY <3>1, <4>1
        <5>2. QED
          BY <1>1, <3>1, <4>1, <5>1 DEF AskedUp
      <4>2. CASE i = Len(asked[a]) + 1
        <5>1. \A j \in 1..(i - 1) : j \in 1..Len(asked[a])
          BY <3>1, <4>2
        <5>2. QED
          BY <3>1, <4>2, <5>1
      <4>3. QED
        BY <3>1, <4>1, <4>2
    <3>3. QED
      BY <1>1, <3>1, <3>2 DEF AskedUp
  <2>2. CASE ~Asks
    <3>1. asked' = asked
      BY <2>2, NextAsked
    <3>2. ASSUME NEW s \in Sockets, NEW i \in 1..Len(asked[s])
          PROVE  asked[s][i] <= sent'[s]
      <4>1. asked[s][i] \in Nat /\ asked[s][i] <= sent[s]
        BY <1>1, <1>3 DEF AskedUp
      <4>2. sent'[s] >= sent[s] /\ sent[s] \in Nat /\ sent'[s] \in Int
        BY <1>5
      <4>3. QED
        BY <4>1, <4>2
    <3>3. QED
      BY <1>1, <3>1, <3>2 DEF AskedUp
  <2>3. QED
    BY <2>1, <2>2
<1>7. ~Popped => asked' = asked
  BY <1>1, NextAsked, AsksLater
<1>8. WaitingUp'
  <2>1. CASE Kept
    <3>1. ~Popped
      BY <1>1, <2>1, PoppedEntries DEF Kept
    <3>2. ASSUME NEW i \in 1..Len(mainList), NEW s \in Sockets,
                 IsRequest(mainList[i], s)
          PROVE  mainList[i].req <= sent'[s]
      <4>1. mainList[i].req \in Nat /\ mainList[i].req <= sent[s]
        BY <1>1, <1>4, <3>2 DEF WaitingUp
      <4>2. sent'[s] >= sent[s] /\ sent[s] \in Nat /\ sent'[s] \in Int
        BY <1>5
      <4>3. QED
        BY <4>1, <4>2
    <3>3. QED
      BY <1>1, <1>7, <2>1, <3>1, <3>2 DEF Kept, WaitingUp, Later
  <2>2. CASE Popped
    <3>1. sent' = sent
      BY <1>1, <2>2, PoppedQuiet
    <3>2. ASSUME NEW i \in 1..Len(mainList'), NEW s \in Sockets,
                 IsRequest(mainList'[i], s)
          PROVE  /\ mainList'[i].req <= sent[s]
                 /\ \A j \in 1..Len(asked'[s]) : asked'[s][j] < mainList'[i].req
                 /\ \A j \in 1..(i - 1) :
                        IsRequest(mainList'[j], s) => mainList'[j].req < mainList'[i].req
      <4>1. /\ i + 1 \in 1..Len(mainList) /\ mainList'[i] = mainList[i + 1]
            /\ 1 \in 1..((i + 1) - 1)
            /\ \A j \in 1..(i - 1) :
                   j + 1 \in 1..((i + 1) - 1) /\ mainList'[j] = mainList[j + 1]
        BY <1>1, <2>2, PoppedEntries
      <4>2. /\ mainList[i + 1].req <= sent[s]
            /\ \A j \in 1..Len(asked[s]) : asked[s][j] < mainList[i + 1].req
            /\ \A j \in 1..((i + 1) - 1) :
                   IsRequest(mainList[j], s) => mainList[j].req < mainList[i + 1].req
        BY <1>1, <3>2, <4>1 DEF WaitingUp, Later
      <4>3. \A j \in 1..Len(asked'[s]) : asked'[s][j] < mainList'[i].req
        <5>1. CASE Asks
          <6>1. PICK a \in Sockets, r \in Requests :
                    /\ IsRequest(mainList[1], a) /\ mainList[1].req = r
                    /\ \A x \in Sockets : x # a => asked'[x] = asked[x]
                    /\ Len(asked[a]) \in Nat /\ Len(asked'[a]) = Len(asked[a]) + 1
                    /\ \A k \in 1..Len(asked[a]) : asked'[a][k] = asked[a][k]
                    /\ asked'[a][Len(asked[a]) + 1] = r
            BY <1>1, <5>1, AsksLater
          <6>2. CASE s # a
            BY <4>1, <4>2, <6>1, <6>2
          <6>3. CASE s = a
            <7>1. r < mainList[i + 1].req
              BY <4>1, <4>2, <6>1, <6>3
            <7>2. ASSUME NEW j \in 1..Len(asked'[s])
                  PROVE  asked'[s][j] < mainList[i + 1].req
              <8>1. j \in 1..Len(asked[s]) \/ j = Len(asked[s]) + 1
                BY <6>1, <6>3
              <8>2. QED
                BY <4>2, <6>1, <6>3, <7>1, <8>1
            <7>3. QED
              BY <4>1, <7>2
          <6>4. QED
            BY <6>2, <6>3
        <5>2. CASE ~Asks
          BY <4>1, <4>2, <5>2, NextAsked
        <5>3. QED
          BY <5>1, <5>2
      <4>4. QED
        BY <4>1, <4>2, <4>3
    <3>3. QED
      BY <3>1, <3>2 DEF WaitingUp, Later
  <2>3. ASSUME NEW p \in MainPackage, ToMain(p),
               \A s \in Sockets : IsRequest(p, s) =>
                   p.req = sent[s] + 1 /\ sent'[s] = sent[s] + 1
        PROVE  WaitingUp'
    <3>1. ~Popped
      <4>1. Len(mainList) \in Nat /\ Len(mainList') = Len(mainList) + 1
        BY <1>1, <2>3, PushedEntries
      <4>2. QED
        BY <1>1, <4>1, PoppedEntries
    <3>2. asked' = asked
      BY <1>7, <3>1
    <3>3. ASSUME NEW i \in 1..Len(mainList'), NEW s \in Sockets,
                 IsRequest(mainList'[i], s)
          PROVE  /\ mainList'[i].req <= sent'[s]
                 /\ \A j \in 1..Len(asked[s]) : asked[s][j] < mainList'[i].req
                 /\ \A j \in 1..(i - 1) :
                        IsRequest(mainList'[j], s) => mainList'[j].req < mainList'[i].req
      <4>1. /\ \/ i \in 1..Len(mainList) /\ mainList'[i] = mainList[i]
               \/ i = Len(mainList) + 1 /\ mainList'[i] = p
            /\ \A j \in 1..(i - 1) :
                   j \in 1..Len(mainList) /\ mainList'[j] = mainList[j]
        BY <1>1, <2>3, PushedEntries
      <4>2. sent'[s] >= sent[s] /\ sent[s] \in Nat /\ sent'[s] \in Int
        BY <1>5
      <4>3. CASE i \in 1..Len(mainList) /\ mainList'[i] = mainList[i]
        <5>1. /\ mainList[i].req <= sent[s]
              /\ \A j \in 1..Len(asked[s]) : asked[s][j] < mainList[i].req
              /\ \A j \in 1..(i - 1) :
                     IsRequest(mainList[j], s) => mainList[j].req < mainList[i].req
          BY <1>1, <3>3, <4>3 DEF WaitingUp, Later
        <5>2. mainList[i].req \in Nat
          BY <1>4, <3>3, <4>3
        <5>3. mainList'[i].req <= sent'[s]
          BY <4>2, <4>3, <5>1, <5>2
        <5>4. QED
          BY <4>1, <4>3, <5>1, <5>3
      <4>4. CASE mainList'[i] = p
        <5>1. p.req = sent[s] + 1 /\ sent'[s] = sent[s] + 1
          BY <2>3, <3>3, <4>4
        <5>2. ASSUME NEW j \in 1..Len(asked[s]) PROVE asked[s][j] < p.req
          <6>1. asked[s][j] <= sent[s] /\ asked[s][j] \in Nat
            BY <1>1, <1>3 DEF AskedUp
          <6>2. QED
            BY <4>2, <5>1, <6>1
        <5>3. ASSUME NEW j \in 1..(i - 1), IsRequest(mainList'[j], s)
              PROVE  mainList'[j].req < p.req
          <6>1. j \in 1..Len(mainList) /\ mainList'[j] = mainList[j]
            BY <4>1
          <6>2. mainList[j].req <= sent[s]
            BY <1>1, <5>3, <6>1 DEF WaitingUp
          <6>3. mainList[j].req \in Nat
            BY <1>4, <5>3, <6>1
          <6>4. QED
            BY <4>2, <5>1, <6>1, <6>2, <6>3
        <5>4. QED
          BY <4>2, <4>4, <5>1, <5>2, <5>3
      <4>5. QED
        BY <4>1, <4>3, <4>4
    <3>4. QED
      BY <3>2, <3>3 DEF WaitingUp, Later
  <2>4. CASE Announces
    <3>1. PICK n \in Sockets : ToMain(OnSocket("accept", n))
      BY <2>4 DEF Announces
    <3>2. QED
      BY <2>3, <3>1, UpSockets DEF IsRequest
  <2>5. ASSUME NEW x \in Sockets, HandsUp(x) PROVE WaitingUp'
    <3>1. PICK k \in Kinds : /\ ToMain(Package("recv_buf", 0, x, sent[x] + 1, k))
                             /\ sent[x] + 1 \in Requests
                             /\ sent' = [sent EXCEPT ![x] = sent[x] + 1]
      BY <2>5 DEF HandsUp
    <3>2. PICK p : p = Package("recv_buf", 0, x, sent[x] + 1, k)
      OBVIOUS
    <3>3. p \in MainPackage /\ p.socket = x /\ p.req = sent[x] + 1
      BY <3>1, <3>2, UpRequest
    <3>4. sent'[x] = sent[x] + 1
      BY <1>1, <3>1
    <3>5. QED
      BY <2>3, <3>1, <3>2, <3>3, <3>4 DEF IsRequest
  <2>6. ASSUME NEW x \in Sockets, Reports(x) PROVE WaitingUp'
    BY <2>3, <2>6, UpSockets DEF Reports, IsRequest
  <2>7. QED
    BY <1>1, <2>1, <2>2, <2>4, <2>5, <2>6, NextMain
<1>9. QED
  BY <1>6, <1>8 DEF OrderInv

-----------------------------------------------------------------------------
(***************************************************************************)
(* The replies on their way                                                *)
(***************************************************************************)
\* In the mail m of a thread are, in order, the replies of socket s to the
\* requests of q that follow the first b.
OnWay(b, q, m, s) ==
    /\ \A i \in 1..Len(m) : IsReply(m[i], s) =>
           /\ \E k \in (b + 1)..Len(q) : m[i].req = q[k]
           /\ \A j \in 1..(i - 1) : IsReply(m[j], s) => m[j].req < m[i].req
    /\ \A k \in (b + 1)..Len(q) :
           \E i \in 1..Len(m) : IsReply(m[i], s) /\ m[i].req = q[k]

Rising(q) == \A i \in 1..Len(q) : \A j \in 1..(i - 1) : q[j] < q[i]

\* Mail of others comes and goes.
LEMMA OthersPopped ==
    ASSUME NEW b \in Nat, NEW q \in Seq(Requests), NEW m \in Seq(IOPackage),
           NEW s, m # <<>>, ~IsReply(m[1], s), OnWay(b, q, m, s)
    PROVE  OnWay(b, q, Tail(m), s)
<1>1. /\ Len(m) \in Nat \ {0} /\ Len(Tail(m)) = Len(m) - 1
      /\ \A i \in 1..(Len(m) - 1) : Tail(m)[i] = m[i + 1]
  BY PopFact
<1>2. ASSUME NEW i \in 1..Len(Tail(m)), IsReply(Tail(m)[i], s)
      PROVE  /\ \E k \in (b + 1)..Len(q) : Tail(m)[i].req = q[k]
             /\ \A j \in 1..(i - 1) :
                    IsReply(Tail(m)[j], s) => Tail(m)[j].req < Tail(m)[i].req
  <2>1. i + 1 \in 1..Len(m) /\ Tail(m)[i] = m[i + 1]
    BY <1>1
  <2>2. \A j \in 1..(i - 1) : j + 1 \in 1..((i + 1) - 1) /\ Tail(m)[j] = m[j + 1]
    BY <1>1
  <2>3. \E k \in (b + 1)..Len(q) : m[i + 1].req = q[k]
    BY <1>2, <2>1 DEF OnWay
  <2>4. \A j \in 1..(i - 1) :
            IsReply(Tail(m)[j], s) => Tail(m)[j].req < Tail(m)[i].req
    BY <1>2, <2>1, <2>2 DEF OnWay
  <2>5. QED
    BY <2>1, <2>3, <2>4
<1>3. ASSUME NEW k \in (b + 1)..Len(q)
      PROVE  \E i \in 1..Len(Tail(m)) : IsReply(Tail(m)[i], s) /\ Tail(m)[i].req = q[k]
  <2>1. PICK i \in 1..Len(m) : IsReply(m[i], s) /\ m[i].req = q[k]
    BY <1>3 DEF OnWay
  <2>2. i # 1
    BY <2>1
  <2>3. i - 1 \in 1..Len(Tail(m)) /\ Tail(m)[i - 1] = m[i]
    BY <1>1, <2>2
  <2>4. QED
    BY <2>1, <2>3
<1>4. QED
  BY <1>2, <1>3 DEF OnWay

\* A package that is no reply on the socket changes nothing about those under way.
LEMMA OthersPushed ==
    ASSUME NEW b \in Nat, NEW q \in Seq(Requests), NEW m \in Seq(IOPackage),
           NEW s, NEW p \in IOPackage, ~IsReply(p, s), OnWay(b, q, m, s)
    PROVE  OnWay(b, q, Append(m, p), s)
<1>1. /\ Len(m) \in Nat /\ Len(Append(m, p)) = Len(m) + 1
      /\ \A i \in 1..Len(m) : Append(m, p)[i] = m[i]
      /\ Append(m, p)[Len(m) + 1] = p
  BY PushFact
<1> DEFINE n == Append(m, p)
<1> HIDE DEF n
<1>2. ASSUME NEW i \in 1..Len(n), IsReply(n[i], s)
      PROVE  /\ \E k \in (b + 1)..Len(q) : n[i].req = q[k]
             /\ \A j \in 1..(i - 1) : IsReply(n[j], s) => n[j].req < n[i].req
  <2>1. i \in 1..Len(m) /\ n[i] = m[i]
    BY <1>1, <1>2 DEF n
  <2>2. \A j \in 1..(i - 1) : n[j] = m[j]
    BY <1>1, <2>1 DEF n
  <2>3. QED
    BY <1>2, <2>1, <2>2, ZenonT(60) DEF OnWay
<1>3. ASSUME NEW k \in (b + 1)..Len(q)
      PROVE  \E i \in 1..Len(n) : IsReply(n[i], s) /\ n[i].req = q[k]
  <2>1. PICK i \in 1..Len(m) : IsReply(m[i], s) /\ m[i].req = q[k]
    BY <1>3 DEF OnWay
  <2>2. i \in 1..Len(n) /\ n[i] = m[i]
    BY <1>1 DEF n
  <2>3. QED
    BY <2>1, <2>2
<1>4. OnWay(b, q, n, s)
  BY <1>2, <1>3 DEF OnWay
<1>5. QED
  BY <1>4 DEF n

\* The first reply in the mail is the one that is due.
LEMMA ReplyPopped ==
    ASSUME NEW b \in Nat, NEW q \in Seq(Requests), NEW m \in Seq(IOPackage),
           NEW s, m # <<>>, IsReply(m[1], s), OnWay(b, q, m, s), Rising(q)
    PROVE  /\ b + 1 \in 1..Len(q) /\ m[1].req = q[b + 1]
           /\ OnWay(b + 1, q, Tail(m), s)
<1>1. /\ Len(m) \in Nat \ {0} /\ Len(Tail(m)) = Len(m) - 1
      /\ \A i \in 1..(Len(m) - 1) : Tail(m)[i] = m[i + 1]
  BY PopFact
<1>2. Len(q) \in Nat /\ \A k \in 1..Len(q) : q[k] \in Nat
  <2>1. \A r \in Requests : r \in Nat
    BY ServerConnAssumption DEF Requests
  <2>2. QED
    BY <2>1
<1>3. 1 \in 1..Len(m)
  BY <1>1
<1>4. PICK e \in (b + 1)..Len(q) : m[1].req = q[e]
  BY <1>3 DEF OnWay
<1>5. b + 1 \in 1..Len(q) /\ b + 1 \in (b + 1)..Len(q) /\ e \in 1..Len(q)
  BY <1>2, <1>4
<1>6. m[1].req = q[b + 1]
  <2>1. PICK i \in 1..Len(m) : IsReply(m[i], s) /\ m[i].req = q[b + 1]
    BY <1>5 DEF OnWay
  <2>2. CASE i = 1
    BY <2>1, <2>2
  <2>3. CASE i # 1
    <3>1. 1 \in 1..(i - 1)
      BY <1>1, <2>3
    <3>2. q[e] < q[b + 1]
      BY <1>4, <2>1, <3>1 DEF OnWay
    <3>3. CASE e = b + 1
      BY <1>2, <1>5, <3>2, <3>3
    <3>4. CASE e # b + 1
      <4>1. b + 1 \in 1..(e - 1)
        BY <1>2, <1>4, <3>4
      <4>2. q[b + 1] < q[e]
        BY <1>5, <4>1 DEF Rising
      <4>3. QED
        BY <1>2, <1>5, <3>2, <4>2
    <3>5. QED
      BY <3>3, <3>4
  <2>4. QED
    BY <2>2, <2>3
<1>7. ASSUME NEW i \in 1..Len(Tail(m)), IsReply(Tail(m)[i], s)
      PROVE  /\ \E k \in ((b + 1) + 1)..Len(q) : Tail(m)[i].req = q[k]
             /\ \A j \in 1..(i - 1) :
                    IsReply(Tail(m)[j], s) => Tail(m)[j].req < Tail(m)[i].req
  <2>1. /\ i + 1 \in 1..Len(m) /\ Tail(m)[i] = m[i + 1]
        /\ 1 \in 1..((i + 1) - 1)
    BY <1>1
  <2>2. \A j \in 1..(i - 1) : j + 1 \in 1..((i + 1) - 1) /\ Tail(m)[j] = m[j + 1]
    BY <1>1
  <2>3. PICK k \in (b + 1)..Len(q) : m[i + 1].req = q[k]
    BY <1>7, <2>1 DEF OnWay
  <2>4. q[b + 1] < q[k]
    BY <1>6, <1>7, <2>1, <2>3 DEF OnWay
  <2>5. k \in ((b + 1) + 1)..Len(q)
    BY <1>2, <1>5, <2>3, <2>4
  <2>6. \A j \in 1..(i - 1) :
            IsReply(Tail(m)[j], s) => Tail(m)[j].req < Tail(m)[i].req
    BY <1>7, <2>1, <2>2 DEF OnWay
  <2>7. QED
    BY <2>1, <2>3, <2>5, <2>6
<1>8. ASSUME NEW k \in ((b + 1) + 1)..Len(q)
      PROVE  \E i \in 1..Len(Tail(m)) : IsReply(Tail(m)[i], s) /\ Tail(m)[i].req = q[k]
  <2>1. k \in (b + 1)..Len(q) /\ k \in 1..Len(q) /\ b + 1 \in 1..(k - 1)
    BY <1>2, <1>8
  <2>2. PICK i \in 1..Len(m) : IsReply(m[i], s) /\ m[i].req = q[k]
    BY <2>1 DEF OnWay
  <2>3. q[b + 1] < q[k]
    BY <2>1 DEF Rising
  <2>4. i # 1
    BY <1>2, <1>6, <2>1, <2>2, <2>3, <1>5
  <2>5. i - 1 \in 1..Len(Tail(m)) /\ Tail(m)[i - 1] = m[i]
    BY <1>1, <2>4
  <2>6. QED
    BY <2>2, <2>5
<1>9. QED
  BY <1>5, <1>6, <1>7, <1>8 DEF OnWay

\* The reply to a new request is the last in the mail.
LEMMA ReplyPushed ==
    ASSUME NEW b \in Nat, NEW q \in Seq(Requests), NEW m \in Seq(IOPackage),
           NEW s, NEW p \in IOPackage, IsReply(p, s), NEW r \in Requests, p.req = r,
           b <= Len(q), \A j \in 1..Len(q) : q[j] < r, OnWay(b, q, m, s)
    PROVE  OnWay(b, Append(q, r), Append(m, p), s)
<1>1. /\ Len(m) \in Nat /\ Len(Append(m, p)) = Len(m) + 1
      /\ \A i \in 1..Len(m) : Append(m, p)[i] = m[i]
      /\ Append(m, p)[Len(m) + 1] = p
  BY PushFact
<1>2. /\ Len(q) \in Nat /\ Len(Append(q, r)) = Len(q) + 1
      /\ \A i \in 1..Len(q) : Append(q, r)[i] = q[i]
      /\ Append(q, r)[Len(q) + 1] = r
  BY PushFact
<1> DEFINE n == Append(m, p)
           a == Append(q, r)
<1> HIDE DEF n, a
<1>3. ASSUME NEW i \in 1..Len(n), IsReply(n[i], s)
      PROVE  /\ \E k \in (b + 1)..Len(a) : n[i].req = a[k]
             /\ \A j \in 1..(i - 1) : IsReply(n[j], s) => n[j].req < n[i].req
  <2>1. CASE i \in 1..Len(m)
    <3>1. n[i] = m[i] /\ \A j \in 1..(i - 1) : n[j] = m[j]
      BY <1>1, <2>1 DEF n
    <3>2. PICK k \in (b + 1)..Len(q) : m[i].req = q[k]
      BY <1>3, <2>1, <3>1 DEF OnWay
    <3>3. k \in (b + 1)..Len(a) /\ a[k] = q[k]
      BY <1>2, <3>2 DEF a
    <3>4. QED
      BY <1>3, <2>1, <3>1, <3>2, <3>3 DEF OnWay
  <2>2. CASE i = Len(m) + 1
    <3>1. n[i] = p
      BY <1>1, <2>2 DEF n
    <3>2. Len(a) \in (b + 1)..Len(a) /\ a[Len(a)] = r
      BY <1>2 DEF a
    <3>3. ASSUME NEW j \in 1..(i - 1), IsReply(n[j], s)
          PROVE  n[j].req < r
      <4>1. j \in 1..Len(m) /\ n[j] = m[j]
        BY <1>1, <2>2 DEF n
      <4>2. PICK k \in (b + 1)..Len(q) : m[j].req = q[k]
        BY <3>3, <4>1 DEF OnWay
      <4>3. k \in 1..Len(q)
        BY <1>2, <4>2
      <4>4. QED
        BY <4>1, <4>2, <4>3
    <3>4. QED
      BY <3>1, <3>2, <3>3
  <2>3. QED
    BY <1>1, <1>3, <2>1, <2>2 DEF n
<1>4. ASSUME NEW k \in (b + 1)..Len(a)
      PROVE  \E i \in 1..Len(n) : IsReply(n[i], s) /\ n[i].req = a[k]
  <2>1. CASE k \in (b + 1)..Len(q)
    <3>1. PICK i \in 1..Len(m) : IsReply(m[i], s) /\ m[i].req = q[k]
      BY <2>1 DEF OnWay
    <3>2. i \in 1..Len(n) /\ n[i] = m[i]
      BY <1>1 DEF n
    <3>3. a[k] = q[k]
      BY <1>2, <2>1 DEF a
    <3>4. QED
      BY <3>1, <3>2, <3>3
  <2>2. CASE k = Len(q) + 1
    <3>1. a[k] = r /\ Len(n) \in 1..Len(n) /\ n[Len(n)] = p
      BY <1>1, <1>2, <2>2 DEF a, n
    <3>2. QED
      BY <3>1
  <2>3. QED
    BY <1>2, <1>4, <2>1, <2>2 DEF a
<1>5. OnWay(b, a, n, s)
  BY <1>3, <1>4 DEF OnWay
<1>6. QED
  BY <1>5 DEF n, a

-----------------------------------------------------------------------------
(***************************************************************************)
(* Buffers                                                                 *)
(***************************************************************************)
\* The replies that were handed to the bufferevent or wait in the send buffer.
Buffered(s) == sock[s].out \o sock[s].sendBuf

\* Writing the buffer out moves the replies of a connected socket and drops
\* those of another.
LEMMA ConsumeReplies ==
    ASSUME NEW r \in SocketType
    PROVE  LET c == consumeSendBuf(r)
           IN  /\ c.status = r.status
               /\ r.status = "connected" => /\ c.out \o c.sendBuf = r.out \o r.sendBuf
                                            /\ c.out \in {r.out, r.out \o r.sendBuf}
               /\ r.status # "connected" => c.out = r.out
<1>1. r.out \in Seq(Requests) /\ r.sendBuf \in Seq(Requests)
  BY DEF SocketType
<1>2. CASE r.sendBuf = <<>>
  BY <1>2 DEF consumeSendBuf, hadSendBufData
<1>3. CASE r.sendBuf # <<>> /\ r.status # "connected"
  <2>1. consumeSendBuf(r) = [r EXCEPT !.sendBuf = <<>>]
    BY <1>3 DEF consumeSendBuf, hadSendBufData, toSend
  <2>2. QED
    BY <1>3, <2>1 DEF SocketType
<1>4. CASE r.sendBuf # <<>> /\ r.status = "connected"
  <2>1. PICK o, w : /\ o = r.out \o r.sendBuf
                    /\ consumeSendBuf(r) =
                           [[r EXCEPT !.out = o, !.writing = w] EXCEPT !.sendBuf = <<>>]
    BY <1>4 DEF consumeSendBuf, hadSendBufData, toSend
  <2>2. PICK c : c = consumeSendBuf(r)
    OBVIOUS
  <2>3. c.status = r.status /\ c.out = o /\ c.sendBuf = <<>>
    BY <2>1, <2>2 DEF SocketType
  <2>4. o \in Seq(Requests) /\ o \o <<>> = o
    BY <1>1, <2>1
  <2>5. QED
    BY <1>4, <2>1, <2>2, <2>3, <2>4
<1>5. QED
  BY <1>2, <1>3, <1>4

\* expandSendBuf loses no reply and keeps their order.
LEMMA ExpandReplies ==
    ASSUME NEW r \in SocketType, NEW q \in Requests
    PROVE  LET e == expandSendBuf(r, q)
           IN  /\ e.status = r.status /\ e.out = r.out
               /\ e.out \o e.sendBuf = Append(r.out \o r.sendBuf, q)
<1>1. PICK u, v : u = r.out /\ v = r.sendBuf
  OBVIOUS
<1>2. u \in Seq(Requests) /\ v \in Seq(Requests)
  BY <1>1 DEF SocketType
<1>3. PICK e : e = expandSendBuf(r, q)
  OBVIOUS
<1>4. e.status = r.status /\ e.out = u /\ e.sendBuf = Append(v, q)
  BY <1>1, <1>3 DEF expandSendBuf, SocketType
<1>5. u \o Append(v, q) = Append(u \o v, q)
  <2>1. /\ Append(v, q) \in Seq(Requests) /\ Len(Append(v, q)) = Len(v) + 1
        /\ \A i \in 1..Len(v) : Append(v, q)[i] = v[i]
        /\ Append(v, q)[Len(v) + 1] = q
    BY <1>2, PushFact
  <2>2. /\ u \o v \in Seq(Requests) /\ Len(u \o v) = Len(u) + Len(v)
        /\ \A i \in 1..(Len(u) + Len(v)) :
               (u \o v)[i] = IF i <= Len(u) THEN u[i] ELSE v[i - Len(u)]
    BY <1>2, ConcatProperties
  <2> DEFINE w == Append(v, q)
             x == u \o v
  <2> HIDE DEF w, x
  <2>3. /\ u \o w \in Seq(Requests) /\ Len(u \o w) = Len(u) + Len(w)
        /\ \A i \in 1..(Len(u) + Len(w)) :
               (u \o w)[i] = IF i <= Len(u) THEN u[i] ELSE w[i - Len(u)]
    BY <1>2, <2>1, ConcatProperties DEF w
  <2>4. /\ Append(x, q) \in Seq(Requests) /\ Len(Append(x, q)) = Len(x) + 1
        /\ \A i \in 1..Len(x) : Append(x, q)[i] = x[i]
        /\ Append(x, q)[Len(x) + 1] = q
    BY <2>2, PushFact DEF x
  <2>5. Len(u) \in Nat /\ Len(v) \in Nat /\ Len(w) = Len(v) + 1 /\ Len(x) = Len(u) + Len(v)
    BY <1>2, <2>1, <2>2 DEF w, x
  <2>6. Len(u \o w) = Len(Append(x, q))
    BY <2>3, <2>4, <2>5
  <2>7. ASSUME NEW i \in 1..Len(u \o w) PROVE (u \o w)[i] = Append(x, q)[i]
    <3>1. i \in 1..(Len(u) + Len(w))
      BY <2>3, <2>7
    <3>2. CASE i <= Len(u)
      <4>1. (u \o w)[i] = u[i] /\ x[i] = u[i] /\ i \in 1..Len(x)
        BY <2>2, <2>3, <2>5, <3>1, <3>2 DEF x
      <4>2. QED
        BY <2>4, <4>1
    <3>3. CASE i > Len(u) /\ i <= Len(u) + Len(v)
      <4>1. i - Len(u) \in 1..Len(v) /\ i \in 1..Len(x) /\ ~(i <= Len(u))
        BY <2>5, <3>1, <3>3
      <4>2. (u \o w)[i] = w[i - Len(u)] /\ x[i] = v[i - Len(u)]
        BY <2>2, <2>3, <2>5, <3>1, <4>1 DEF x
      <4>3. w[i - Len(u)] = v[i - Len(u)]
        BY <2>1, <4>1 DEF w
      <4>4. QED
        BY <2>4, <4>1, <4>2, <4>3
    <3>4. CASE i = Len(u) + Len(v) + 1
      <4>1. i - Len(u) = Len(v) + 1 /\ i = Len(x) + 1 /\ ~(i <= Len(u))
        BY <2>5, <3>4
      <4>2. (u \o w)[i] = w[i - Len(u)]
        BY <2>3, <3>1, <4>1
      <4>3. w[Len(v) + 1] = q
        BY <2>1 DEF w
      <4>4. QED
        BY <2>4, <4>1, <4>2, <4>3
    <3>5. QED
      BY <2>5, <3>1, <3>2, <3>3, <3>4
  <2>8. u \o w = Append(x, q)
    BY <2>3, <2>4, <2>6, <2>7, SeqEqual
  <2>9. QED
    BY <2>8 DEF w, x
<1>6. QED
  BY <1>1, <1>3, <1>4, <1>5

-----------------------------------------------------------------------------
(***************************************************************************)
(* What a step does to one socket and to the mail of one thread            *)
(***************************************************************************)
Drops(s) == ~Connected(s)' /\ sock'[s].out = sock[s].out

Keeps(s) ==
    /\ Connected(s) /\ Connected(s)' /\ SameObject(sock'[s], sock[s])
    /\ Buffered(s)' = Buffered(s)
    /\ sock'[s].out \in {sock[s].out, Buffered(s)}

Gets(s, r) ==
    /\ Connected(s) /\ Connected(s)' /\ SameObject(sock'[s], sock[s])
    /\ Buffered(s)' = Append(Buffered(s), r)
    /\ sock'[s].out \in {sock[s].out, Buffered(s)}

\* An io thread takes a reply of s from its mail.
TakesReply(t, s) == IOSend(t) /\ IsReply(Head(ioList[t]), s)

\* A record that differs in nothing that the replies depend on.
LEMMA SameReplies ==
    ASSUME NEW s \in Sockets, sock'[s].status = sock[s].status,
           sock'[s].out = sock[s].out, sock'[s].sendBuf = sock[s].sendBuf,
           SameObject(sock'[s], sock[s])
    PROVE  Drops(s) \/ Keeps(s)
BY DEF Drops, Keeps, Connected, Buffered

\* What becomes of a socket whose reply an io thread takes.
LEMMA SendNext ==
    ASSUME FdInv, NEW t \in Threads, NEW s \in Sockets, TakesReply(t, s)
    PROVE  /\ Drops(s) \/ Gets(s, Head(ioList[t]).req)
           /\ Head(ioList[t]).req \in Requests
           /\ ioList[t] # <<>> /\ ioList' = [ioList EXCEPT ![t] = Tail(@)]
           /\ asked' = asked
<1>1. /\ TypeOK /\ sock \in [Sockets -> SocketType] /\ sock[s] \in SocketType
      /\ IOSend(t) /\ IOTakes(t, "send_buf")
  BY DEF FdInv, IInv, TypeOK, TakesReply, IOSend
<1> DEFINE p == Head(ioList[t])
<1>2. /\ p.socket = s /\ p.req \in Requests /\ p.cmd = "send_buf"
      /\ ioList[t] # <<>> /\ ioList' = [ioList EXCEPT ![t] = Tail(@)]
      /\ asked' = asked
  BY <1>1, IOTakesFact DEF TakesReply, IsReply
<1>3. PICK r \in Requests : r = p.req
  BY <1>2
<1>4. PICK y \in {sock[s], consumeSendBuf(sock[s])} :
          sock' = [sock EXCEPT ![s] = expandSendBuf(y, r)]
  BY <1>1, <1>2, <1>3 DEF IOSend
<1> HIDE DEF p
<1>5. sock'[s] = expandSendBuf(y, r)
  BY <1>1, <1>4
<1>6. y \in SocketType /\ SameObject(y, sock[s])
  BY <1>1, <1>4, ConsumeFact DEF SameObject
<1>7. SameObject(sock'[s], sock[s])
  BY <1>5, <1>6, ExpandFact DEF SameObject
<1>8. /\ sock'[s].status = y.status /\ sock'[s].out = y.out
      /\ Buffered(s)' = Append(y.out \o y.sendBuf, r)
  BY <1>5, <1>6, ExpandReplies DEF Buffered
<1>9. /\ y.status = sock[s].status
      /\ Connected(s) => /\ y.out \o y.sendBuf = Buffered(s)
                         /\ y.out \in {sock[s].out, Buffered(s)}
      /\ ~Connected(s) => y.out = sock[s].out
  BY <1>1, <1>4, ConsumeReplies DEF Connected, Buffered
<1>10. CASE Connected(s)
  <2>1. Gets(s, r)
    BY <1>7, <1>8, <1>9, <1>10 DEF Gets, Connected
  <2>2. QED
    BY <1>2, <1>3, <2>1 DEF p
<1>11. CASE ~Connected(s)
  <2>1. Drops(s)
    BY <1>8, <1>9, <1>11 DEF Drops, Connected
  <2>2. QED
    BY <1>2, <2>1 DEF p
<1>12. QED
  BY <1>10, <1>11

\* What becomes of a socket in any other step.
LEMMA SockNext ==
    ASSUME FdInv, [Next]_vars, NEW s \in Sockets,
           \A t \in Threads : ~TakesReply(t, s)
    PROVE  \/ Drops(s) \/ Keeps(s)
           \/ /\ s > nSockets /\ Live(s)' /\ sock'[s].thread \in Threads
              /\ sock'[s].out = <<>> /\ sock'[s].sendBuf = <<>>
<1>1. TypeOK /\ IInv /\ sock \in [Sockets -> SocketType] /\ sock[s] \in SocketType
  BY DEF FdInv, IInv, TypeOK
<1>2. ASSUME sock'[s] = sock[s] PROVE Drops(s) \/ Keeps(s)
  BY <1>2, SameReplies DEF SameObject
<1>3. ASSUME sock'[s] = consumeSendBuf(sock[s]) PROVE Drops(s) \/ Keeps(s)
  <2>1. SameObject(sock'[s], sock[s])
    BY <1>1, <1>3, ConsumeFact
  <2>2. /\ sock'[s].status = sock[s].status
        /\ Connected(s) => /\ Buffered(s)' = Buffered(s)
                           /\ sock'[s].out \in {sock[s].out, Buffered(s)}
        /\ ~Connected(s) => sock'[s].out = sock[s].out
    BY <1>1, <1>3, ConsumeReplies DEF Connected, Buffered
  <2>3. QED
    BY <2>1, <2>2 DEF Drops, Keeps, Connected
<1>4. CASE \/ UNCHANGED vars \/ AcceptConnection \/ AcceptRefused \/ AcceptFailed
           \/ MainLoop
  <2>1. sock' = sock
    BY <1>4 DEF vars, AcceptConnection, AcceptRefused, AcceptFailed, MainLoop, MainWake,
                MainAccept, MainRecvNoAgent, MainRecvHeartbeat, MainRecvOther,
                MainRecvShort, MainClose, MainLeave, ioVars
  <2>2. QED
    BY <1>2, <2>1
<1>5. ASSUME NEW t \in Threads, IOWake(t) \/ IOAcceptFailed(t)
      PROVE  Drops(s) \/ Keeps(s)
  BY <1>2, <1>5 DEF IOWake, IOAcceptFailed
<1>6. ASSUME NEW t \in Threads, IOAccept(t)
      PROVE  \/ Drops(s) \/ Keeps(s)
             \/ /\ s > nSockets /\ Live(s)' /\ sock'[s].thread \in Threads
                /\ sock'[s].out = <<>> /\ sock'[s].sendBuf = <<>>
  <2>1. PICK n \in Sockets : /\ n > nSockets /\ n = nSockets'
                             /\ \A x \in Sockets : x # n => sock'[x] = sock[x]
    BY <1>1, <1>6, MakeFacts
  <2>2. CASE s # n
    BY <1>2, <2>1, <2>2
  <2>3. CASE s = n
    <3>1. sock' = [sock EXCEPT ![s] = Accepted(Head(ioList[t]).fd, t)]
      BY <1>6, <2>1, <2>3 DEF IOAccept
    <3>2. /\ sock'[s].mem = "live" /\ sock'[s].thread = t
          /\ sock'[s].out = <<>> /\ sock'[s].sendBuf = <<>>
      BY <1>1, <3>1 DEF Accepted
    <3>3. QED
      BY <2>1, <2>3, <3>1, <3>2 DEF Live
  <2>4. QED
    BY <2>2, <2>3
<1>7. ASSUME NEW t \in Threads, IOSend(t) PROVE Drops(s) \/ Keeps(s)
  <2>1. IOTakes(t, "send_buf")
    BY <1>7 DEF IOSend
  <2>2. PICK x \in Sockets :
            x = Head(ioList[t]).socket /\ Head(ioList[t]).cmd = "send_buf"
    BY <1>1, <2>1, IOTakesFact
  <2>3. x # s
    BY <1>7, <2>2 DEF TakesReply, IsReply
  <2>4. \E y : sock' = [sock EXCEPT ![x] = y]
    BY <1>7, <2>2 DEF IOSend
  <2>5. sock'[s] = sock[s]
    BY <1>1, <2>3, <2>4
  <2>6. QED
    BY <1>2, <2>5
<1>8. ASSUME NEW t \in Threads, IOClose(t) PROVE Drops(s) \/ Keeps(s)
  <2>1. PICK x \in Sockets : x = Head(ioList[t]).socket
    BY <1>1, <1>8, IOTakesFact DEF IOClose
  <2>2. sock' = sock \/ sock' = [sock EXCEPT ![x] = Released(sock[x])]
    BY <1>8, <2>1 DEF IOClose
  <2>3. CASE sock'[s] = sock[s]
    BY <1>2, <2>3
  <2>4. CASE sock'[s] # sock[s]
    <3>1. sock'[s] = Released(sock[s])
      BY <1>1, <2>2, <2>4
    <3>2. QED
      BY <3>1 DEF Drops, Connected, Released
  <2>5. QED
    BY <2>3, <2>4
<1>9. ASSUME NEW t \in Threads, IOFlush(t) PROVE Drops(s) \/ Keeps(s)
  <2>1. sock'[s] = consumeSendBuf(sock[s]) \/ sock'[s] = sock[s]
    BY <1>9 DEF IOFlush
  <2>2. QED
    BY <1>2, <1>3, <2>1
<1>10. ASSUME NEW x \in Sockets,
              Read(x) \/ ReadCloseFrame(x) \/ ReadEvent(x) \/ WriteEvent(x)
       PROVE  Drops(s) \/ Keeps(s)
  <2>1. CASE sock'[s] = sock[s]
    BY <1>2, <2>1
  <2>2. CASE sock'[s] # sock[s]
    <3>1. CASE ReadCloseFrame(x)
      <4>1. PICK r : /\ r = [sock[x] EXCEPT !.status = "while_Close"]
                     /\ sock' = [sock EXCEPT ![x] = r]
        BY <3>1 DEF ReadCloseFrame
      <4>2. sock'[s] = r /\ s = x
        BY <1>1, <2>2, <4>1
      <4>3. r.status = "while_Close" /\ r.out = sock[s].out
        BY <1>1, <4>1, <4>2 DEF SocketType
      <4>4. QED
        BY <4>2, <4>3 DEF Drops, Connected
    <3>2. CASE ReadEvent(x) \/ WriteEvent(x)
      <4>1. PICK r : /\ \/ r = [sock[x] EXCEPT !.reading = FALSE]
                        \/ r = [sock[x] EXCEPT !.writing = "failed"]
                     /\ sock' = [sock EXCEPT ![x] = r]
        BY <3>2 DEF ReadEvent, WriteEvent
      <4>2. sock'[s] = r /\ s = x
        BY <1>1, <2>2, <4>1
      <4>3. /\ r.status = sock[s].status /\ r.out = sock[s].out
            /\ r.sendBuf = sock[s].sendBuf /\ SameObject(r, sock[s])
        BY <1>1, <4>1, <4>2 DEF SocketType, SameObject
      <4>4. QED
        BY <4>2, <4>3, SameReplies
    <3>3. CASE Read(x)
      BY <2>2, <3>3 DEF Read
    <3>4. QED
      BY <1>10, <3>1, <3>2, <3>3
  <2>3. QED
    BY <2>1, <2>2
<1>11. CASE \E t \in Threads : IOAccept(t)
  BY <1>6, <1>11
<1>12. CASE \E t \in Threads : IOSend(t)
  BY <1>7, <1>12
<1>13. CASE /\ ~(\E t \in Threads : IOAccept(t)) /\ ~(\E t \in Threads : IOSend(t))
            /\ \E t \in Threads : IOLoop(t)
  BY <1>5, <1>8, <1>9, <1>13 DEF IOLoop
<1>14. QED
  BY <1>4, <1>10, <1>11, <1>12, <1>13 DEF Next

\* The mail of t holds the same replies of s as before.
MailKept(t, s) ==
    \/ ioList'[t] = ioList[t]
    \/ /\ ioList[t] # <<>> /\ ~IsReply(ioList[t][1], s)
       /\ ioList'[t] = Tail(ioList[t])
    \/ \E p \in IOPackage : ~IsReply(p, s) /\ ioList'[t] = Append(ioList[t], p)

\* A request of s is answered, by mail to the thread t.
AsksOf(t, s) ==
    \E r \in Requests, p \in IOPackage :
        /\ IsReply(p, s) /\ p.req = r
        /\ asked'[s] = Append(asked[s], r)
        /\ \A j \in 1..Len(asked[s]) : asked[s][j] < r
        /\ ioList'[t] = Append(ioList[t], p)
        /\ sock' = sock

\* What becomes of the list of its thread.
LEMMA MailNext ==
    ASSUME FdInv, WaitingUp, [Next]_vars, NEW t \in Threads, NEW s \in Sockets,
           Live(s) => sock[s].thread = t,
           \A u \in Threads : ~TakesReply(u, s)
    PROVE  \/ MailKept(t, s) /\ asked'[s] = asked[s]
           \/ Live(s) /\ AsksOf(t, s)
<1>1. /\ TypeOK /\ IInv /\ ioList \in [Threads -> Seq(IOPackage)]
      /\ asked \in [Sockets -> Seq(Requests)] /\ sock \in [Sockets -> SocketType]
  BY DEF FdInv, IInv, TypeOK
<1>2. ASSUME NEW u \in Threads, NEW p \in IOPackage, ToIO(u, p), ~IsReply(p, s)
      PROVE  MailKept(t, s)
  <2>1. ioList'[t] = IF t = u THEN Append(ioList[t], p) ELSE ioList[t]
    BY <1>1, <1>2 DEF ToIO
  <2>2. QED
    BY <1>2, <2>1 DEF MailKept
<1>3. CASE Asks
  <2>1. PICK a \in Sockets, r \in Requests :
            /\ mainList # <<>>
            /\ Head(mainList).cmd = "recv_buf" /\ Head(mainList).socket = a
            /\ Head(mainList).req = r
            /\ mainList' = Tail(mainList)
            /\ sock[a].fd \in DOMAIN mapAgents /\ mapAgents[sock[a].fd] = a
            /\ asked' = [asked EXCEPT ![a] = Append(@, r)]
            /\ ToIO(sock[a].thread, Package("send_buf", 0, a, r, "none"))
            /\ sock' = sock
    BY <1>3 DEF Asks
  <2>2. PICK p : p = Package("send_buf", 0, a, r, "none")
    OBVIOUS
  <2>3. p \in IOPackage /\ IsReply(p, a) /\ p.req = r
    BY <2>2 DEF Package, IOPackage, IsReply
  <2>4. Live(a)
    BY <1>1, <2>1 DEF IInv, AgentsLive
  <2>5. sock[a].thread \in Threads
    BY <1>1, <2>4 DEF IInv, SocketsMade
  <2>6. CASE s # a
    <3>1. ~IsReply(p, s)
      BY <2>3, <2>6 DEF IsReply
    <3>2. MailKept(t, s)
      BY <1>2, <2>1, <2>2, <2>3, <2>5, <3>1
    <3>3. asked'[s] = asked[s]
      BY <1>1, <2>1, <2>6
    <3>4. QED
      BY <3>2, <3>3
  <2>7. CASE s = a
    <3>1. sock[a].thread = t
      BY <2>4, <2>7
    <3>2. ioList'[t] = Append(ioList[t], p)
      BY <1>1, <2>1, <2>2, <3>1 DEF ToIO
    <3>3. asked'[s] = Append(asked[s], r)
      BY <1>1, <2>1, <2>7
    <3>4. \A j \in 1..Len(asked[s]) : asked[s][j] < r
      <4>1. 1 \in 1..Len(mainList) /\ Head(mainList) = mainList[1]
        BY <1>1, <2>1, PoppedEntries DEF Popped
      <4>2. IsRequest(mainList[1], s) /\ mainList[1].req = r
        BY <2>1, <2>7, <4>1 DEF IsRequest
      <4>3. QED
        BY <4>1, <4>2 DEF WaitingUp, Later
    <3>5. QED
      BY <2>1, <2>3, <2>4, <2>7, <3>2, <3>3, <3>4 DEF AsksOf
  <2>8. QED
    BY <2>6, <2>7
<1>4. CASE ~Asks
  <2>1. asked' = asked /\ ~MainRecvHeartbeat
    BY <1>4, NextAsked
  <2>2. CASE UNCHANGED vars \/ AcceptRefused
    BY <2>1, <2>2 DEF vars, ioVars, AcceptRefused, MailKept
  <2>3. CASE AcceptConnection \/ AcceptFailed
    <3>1. PICK f \in Fds \cup {BadFd} : HandOver(f)
      BY <2>3 DEF AcceptConnection, AcceptFailed
    <3>2. PICK p : p = Package("accept", f, 0, 0, "none")
      OBVIOUS
    <3>3. p \in IOPackage /\ ~IsReply(p, s)
      BY <3>2 DEF Package, IOPackage, IsReply
    <3>4. ToIO(nCurrentThread, p) /\ nCurrentThread \in Threads
      BY <1>1, <3>1, <3>2 DEF HandOver, TypeOK
    <3>5. QED
      BY <1>2, <2>1, <3>3, <3>4
  <2>4. CASE MainLoop
    <3>1. CASE MainClose
      <4>1. PICK x \in Sockets : x = Head(mainList).socket
        BY <1>1, <3>1, MainTakesFact DEF MainClose
      <4>2. OnSocket("close", x) \in IOPackage /\ ~IsReply(OnSocket("close", x), s)
        BY OnSocketFact DEF OnSocket, Package, IsReply
      <4>3. \/ ioList' = ioList
            \/ sock[x].thread \in Threads /\ ToIO(sock[x].thread, OnSocket("close", x))
        BY <3>1, <4>1 DEF MainClose
      <4>4. QED
        BY <1>2, <2>1, <4>2, <4>3 DEF MailKept
    <3>2. CASE ~MainClose
      <4>1. ioList' = ioList
        BY <2>1, <2>4, <3>2 DEF MainLoop, MainWake, MainAccept, MainRecvNoAgent,
                                MainRecvOther, MainRecvShort, MainLeave, ioVars
      <4>2. QED
        BY <2>1, <4>1 DEF MailKept
    <3>3. QED
      BY <3>1, <3>2
  <2>5. ASSUME NEW u \in Threads, IOLoop(u)
        PROVE  MailKept(t, s)
    <3>1. CASE IOWake(u) \/ IOFlush(u)
      BY <3>1 DEF IOWake, IOFlush, MailKept
    <3>2. CASE ~(IOWake(u) \/ IOFlush(u))
      <4>1. PICK c : IOTakes(u, c)
        BY <2>5, <3>2 DEF IOLoop, IOAccept, IOAcceptFailed, IOSend, IOClose
      <4>2. /\ ioList[u] # <<>> /\ ioList' = [ioList EXCEPT ![u] = Tail(@)]
            /\ Head(ioList[u]).cmd = c
        BY <4>1 DEF IOTakes
      <4>3. ioList'[t] = (IF t = u THEN Tail(ioList[t]) ELSE ioList[t])
        BY <1>1, <4>2
      <4>4. Head(ioList[u]) = ioList[u][1]
        BY <1>1, <4>2, PopFact
      <4>5. CASE t # u \/ ~IsReply(ioList[u][1], s)
        BY <4>2, <4>3, <4>5 DEF MailKept
      <4>6. CASE t = u /\ IsReply(ioList[u][1], s)
        <5>1. c = "send_buf"
          BY <4>2, <4>4, <4>6 DEF IsReply
        <5>2. IOSend(u)
          BY <2>5, <3>2, <4>2, <5>1
             DEF IOLoop, IOAccept, IOAcceptFailed, IOSend, IOClose, IOTakes
        <5>3. TakesReply(u, s)
          BY <4>4, <4>6, <5>2 DEF TakesReply
        <5>4. QED
          BY <5>3
      <4>7. QED
        BY <4>5, <4>6
    <3>3. QED
      BY <3>1, <3>2
  <2>6. ASSUME NEW x \in Sockets,
               Read(x) \/ ReadCloseFrame(x) \/ ReadEvent(x) \/ WriteEvent(x)
        PROVE  MailKept(t, s)
    BY <1>1, <2>6, ClientObjects DEF MailKept
  <2>7. QED
    BY <2>1, <2>2, <2>3, <2>4, <2>5, <2>6 DEF Next
<1>5. QED
  BY <1>3, <1>4

-----------------------------------------------------------------------------
(***************************************************************************)
(* The replies that were given                                             *)
(***************************************************************************)
OutOK == \A s \in Sockets : Prefix(sock[s].out, asked[s])

Due(s) ==
    /\ Live(s)
    /\ Prefix(Buffered(s), asked[s])
    /\ OnWay(Len(Buffered(s)), asked[s], ioList[sock[s].thread], s)

ReplyInv == OutOK /\ \A s \in Sockets : Connected(s) => Due(s)

\* The replies written and buffered on a socket, and what was asked.
LEMMA BufferedType ==
    ASSUME TypeOK, NEW s \in Sockets
    PROVE  /\ sock[s].out \in Seq(Requests) /\ Buffered(s) \in Seq(Requests)
           /\ Len(Buffered(s)) \in Nat /\ asked[s] \in Seq(Requests)
<1>1. sock[s] \in SocketType /\ asked[s] \in Seq(Requests)
  BY DEF TypeOK
<1>2. sock[s].out \in Seq(Requests) /\ sock[s].sendBuf \in Seq(Requests)
  BY <1>1 DEF SocketType
<1>3. Buffered(s) \in Seq(Requests)
  BY <1>2, ConcatProperties DEF Buffered
<1>4. Len(Buffered(s)) \in Nat
  BY <1>3
<1>5. QED
  BY <1>1, <1>2, <1>3, <1>4

\* What was asked only grows.
LEMMA PrefixGrows ==
    ASSUME NEW u \in Seq(Requests), NEW q \in Seq(Requests), NEW r \in Requests,
           Prefix(u, q)
    PROVE  Prefix(u, Append(q, r))
<1>1. /\ Len(q) \in Nat /\ Len(Append(q, r)) = Len(q) + 1
      /\ \A i \in 1..Len(q) : Append(q, r)[i] = q[i]
  BY PushFact
<1>2. Len(u) \in Nat
  OBVIOUS
<1>3. QED
  BY <1>1, <1>2 DEF Prefix

\* What was asked on a socket is only added to.
LEMMA AskedGrows ==
    ASSUME FdInv, [Next]_vars, NEW s \in Sockets
    PROVE  asked'[s] = asked[s] \/ \E r \in Requests : asked'[s] = Append(asked[s], r)
<1>1. asked \in [Sockets -> Seq(Requests)]
  BY DEF FdInv, IInv, TypeOK
<1>2. CASE Asks
  <2>1. PICK a \in Sockets, r \in Requests : asked' = [asked EXCEPT ![a] = Append(@, r)]
    BY <1>2 DEF Asks
  <2>2. QED
    BY <1>1, <2>1
<1>3. CASE ~Asks
  BY <1>3, NextAsked
<1>4. QED
  BY <1>2, <1>3

\* A step that takes no reply on the socket leaves those under way in order.
LEMMA MailKeeps ==
    ASSUME TypeOK, NEW t \in Threads, NEW s \in Sockets, MailKept(t, s),
           NEW b \in Nat, NEW q \in Seq(Requests), OnWay(b, q, ioList[t], s)
    PROVE  OnWay(b, q, ioList'[t], s)
<1>1. ioList[t] \in Seq(IOPackage)
  BY DEF TypeOK
<1>2. CASE ioList'[t] = ioList[t]
  BY <1>2
<1>3. CASE /\ ioList[t] # <<>> /\ ~IsReply(ioList[t][1], s)
           /\ ioList'[t] = Tail(ioList[t])
  BY <1>1, <1>3, OthersPopped
<1>4. ASSUME NEW p \in IOPackage, ~IsReply(p, s), ioList'[t] = Append(ioList[t], p)
      PROVE  OnWay(b, q, ioList'[t], s)
  BY <1>1, <1>4, OthersPushed
<1>5. QED
  BY <1>2, <1>3, <1>4 DEF MailKept

\* Only replies to what was asked are written.
LEMMA OutStep ==
    ASSUME FdInv, SessionInv, ReplyInv, [Next]_vars
    PROVE  OutOK'
<1>1. TypeOK /\ OutOK
  BY DEF FdInv, IInv, ReplyInv
<1>2. ASSUME NEW s \in Sockets
      PROVE  \/ sock'[s].out \in {sock[s].out, <<>>}
             \/ Connected(s) /\ sock'[s].out = Buffered(s)
  <2>1. CASE \E t \in Threads : TakesReply(t, s)
    BY <2>1, SendNext DEF Drops, Gets
  <2>2. CASE ~\E t \in Threads : TakesReply(t, s)
    BY <2>2, SockNext DEF Drops, Keeps
  <2>3. QED
    BY <2>1, <2>2
<1>3. ASSUME NEW s \in Sockets PROVE Prefix(sock'[s].out, asked'[s])
  <2>1. PICK u \in Seq(Requests) : u = sock'[s].out /\ Prefix(u, asked[s])
    <3>1. <<>> \in Seq(Requests) /\ Prefix(<<>>, asked[s])
      BY <1>1, BufferedType DEF Prefix
    <3>2. Prefix(sock[s].out, asked[s])
      BY <1>1 DEF OutOK
    <3>3. Connected(s) => Prefix(Buffered(s), asked[s])
      BY DEF ReplyInv, Due
    <3>4. QED
      BY <1>1, <1>2, <3>1, <3>2, <3>3, BufferedType
  <2>2. asked[s] \in Seq(Requests)
    BY <1>1, BufferedType
  <2>3. QED
    BY <2>1, <2>2, AskedGrows, PrefixGrows
<1>4. QED
  BY <1>3 DEF OutOK

\* Every request is answered once, in order, on a socket that stays connected.
LEMMA DueStep ==
    ASSUME FdInv, SessionInv, OrderInv, ReplyInv, [Next]_vars,
           NEW s \in Sockets, Connected(s)'
    PROVE  Due(s)'
<1>1. /\ TypeOK /\ TypeOK' /\ IInv /\ WaitingUp /\ AskedUp
      /\ ioList \in [Threads -> Seq(IOPackage)]
  BY NextType DEF FdInv, IInv, OrderInv, TypeOK
<1> DEFINE b == Len(Buffered(s))
           q == asked[s]
<1>2. b \in Nat /\ q \in Seq(Requests) /\ Buffered(s) \in Seq(Requests)
  BY <1>1, BufferedType
<1>3. Connected(s) =>
          /\ Live(s) /\ Prefix(Buffered(s), q) /\ b <= Len(q)
          /\ OnWay(b, q, ioList[sock[s].thread], s)
          /\ sock[s].thread \in Threads
  BY <1>1 DEF ReplyInv, Due, Prefix, IInv, SocketsMade
<1> HIDE DEF b, q
<1>4. ~Drops(s)
  BY DEF Drops
<1>5. ASSUME NEW t \in Threads, TakesReply(t, s) PROVE Due(s)'
  <2> DEFINE r == Head(ioList[t]).req
  <2>1. /\ Gets(s, r) /\ r \in Requests /\ ioList[t] # <<>>
        /\ ioList' = [ioList EXCEPT ![t] = Tail(@)] /\ asked' = asked
    BY <1>4, <1>5, SendNext
  <2>2. ioList[t] \in Seq(IOPackage) /\ ioList'[t] = Tail(ioList[t])
    BY <1>1, <2>1
  <2>3. Head(ioList[t]) = ioList[t][1] /\ 1 \in 1..Len(ioList[t])
    <3>1. Len(ioList[t]) \in Nat \ {0} /\ Head(ioList[t]) = ioList[t][1]
      BY <2>1, <2>2, PopFact
    <3>2. QED
      BY <3>1
  <2>4. IsReply(ioList[t][1], s) /\ ioList[t][1].req = r
    BY <1>5, <2>3 DEF TakesReply
  <2> HIDE DEF r
  <2>5. Connected(s) /\ SameObject(sock'[s], sock[s])
        /\ Buffered(s)' = Append(Buffered(s), r)
    BY <2>1 DEF Gets
  <2>6. sock[s].thread = t
    BY <1>1, <2>3, <2>4 DEF IInv, IOInv, SendTargetsLive, IsReply
  <2>7. Rising(q)
    BY <1>1 DEF AskedUp, Rising, q
  <2>8. OnWay(b, q, ioList[t], s)
    BY <1>3, <2>5, <2>6
  <2>9. b + 1 \in 1..Len(q) /\ r = q[b + 1] /\ OnWay(b + 1, q, Tail(ioList[t]), s)
    BY <1>2, <2>1, <2>2, <2>4, <2>7, <2>8, ReplyPopped
  <2>10. /\ Len(Append(Buffered(s), r)) = b + 1
         /\ \A i \in 1..b : Append(Buffered(s), r)[i] = Buffered(s)[i]
         /\ Append(Buffered(s), r)[b + 1] = r
    BY <1>2, <2>1, PushFact DEF b
  <2>11. Prefix(Append(Buffered(s), r), q)
    <3>1. \A i \in 1..b : Buffered(s)[i] = q[i]
      BY <1>3, <2>5 DEF Prefix, b
    <3>2. ASSUME NEW i \in 1..(b + 1) PROVE Append(Buffered(s), r)[i] = q[i]
      BY <1>2, <2>9, <2>10, <3>1
    <3>3. b + 1 <= Len(q)
      BY <1>2, <2>9
    <3>4. QED
      BY <2>10, <3>2, <3>3 DEF Prefix
  <2>12. Live(s)' /\ sock'[s].thread = t
    BY <1>3, <2>5, <2>6 DEF SameObject, Live
  <2>13. OnWay(Len(Buffered(s)'), asked'[s], ioList'[sock'[s].thread], s)
    BY <2>1, <2>2, <2>5, <2>9, <2>10, <2>12 DEF q
  <2>14. Prefix(Buffered(s)', asked'[s])
    BY <2>1, <2>5, <2>11 DEF q
  <2>15. QED
    BY <2>12, <2>13, <2>14 DEF Due
<1>6. CASE Keeps(s) /\ \A t \in Threads : ~TakesReply(t, s)
  <2>1. PICK t \in Threads : t = sock[s].thread
    BY <1>3, <1>6 DEF Keeps
  <2>2. /\ Connected(s) /\ Buffered(s)' = Buffered(s)
        /\ Live(s)' /\ sock'[s].thread = t
    BY <1>3, <1>6, <2>1 DEF Keeps, SameObject, Live
  <2>3. OnWay(b, q, ioList[t], s) /\ Prefix(Buffered(s), q) /\ b <= Len(q)
    BY <1>3, <2>1, <2>2
  <2>4. CASE MailKept(t, s) /\ asked'[s] = asked[s]
    <3>1. OnWay(b, q, ioList'[t], s)
      BY <1>1, <1>2, <2>3, <2>4, MailKeeps
    <3>2. QED
      BY <2>2, <2>3, <2>4, <3>1 DEF Due, b, q
  <2>5. CASE AsksOf(t, s)
    <3>1. PICK r \in Requests, p \in IOPackage :
              /\ IsReply(p, s) /\ p.req = r
              /\ asked'[s] = Append(q, r) /\ \A j \in 1..Len(q) : q[j] < r
              /\ ioList'[t] = Append(ioList[t], p)
      BY <2>5 DEF AsksOf, q
    <3>2. OnWay(b, Append(q, r), Append(ioList[t], p), s)
      BY <1>1, <1>2, <2>3, <3>1, ReplyPushed
    <3>3. Prefix(Buffered(s), Append(q, r))
      BY <1>2, <2>3, PrefixGrows
    <3>4. QED
      BY <2>2, <3>1, <3>2, <3>3 DEF Due, b
  <2>6. QED
    BY <1>1, <1>6, <2>1, <2>4, <2>5, MailNext
<1>7. CASE /\ s > nSockets /\ Live(s)' /\ sock'[s].thread \in Threads
           /\ sock'[s].out = <<>> /\ sock'[s].sendBuf = <<>>
           /\ \A t \in Threads : ~TakesReply(t, s)
  <2>1. PICK t \in Threads : t = sock'[s].thread
    BY <1>7
  <2>2. q = <<>> /\ ~Live(s)
    BY <1>7 DEF SessionInv, UnusedFresh, q, Live, Unused
  <2>3. MailKept(t, s) /\ asked'[s] = <<>>
    BY <1>1, <1>7, <2>2, MailNext DEF q
  <2>4. Buffered(s)' = <<>>
    BY <1>7 DEF Buffered
  <2>5. OnWay(0, <<>>, ioList[t], s)
    <3>1. ASSUME NEW i \in 1..Len(ioList[t]) PROVE ~IsReply(ioList[t][i], s)
      <4>1. ioList[t][i].socket <= nSockets /\ ioList[t][i] \in IOPackage
        BY <1>1 DEF IInv, IOInv, IOListMade
      <4>2. nSockets \in Nat /\ s \in Nat
        BY <1>1 DEF TypeOK, Sockets
      <4>3. QED
        BY <1>7, <4>1, <4>2 DEF IsReply
    <3>2. QED
      BY <3>1 DEF OnWay
  <2>6. OnWay(0, <<>>, ioList'[t], s)
    <3>1. PICK e \in Seq(Requests), z \in Nat : e = <<>> /\ z = 0
      <4>1. <<>> \in Seq(Requests) /\ 0 \in Nat
        OBVIOUS
      <4>2. QED
        BY <4>1, Zenon
    <3>2. OnWay(z, e, ioList[t], s) /\ MailKept(t, s)
      BY <2>3, <2>5, <3>1
    <3>3. OnWay(z, e, ioList'[t], s)
      BY <1>1, <3>2, MailKeeps
    <3>4. QED
      BY <3>1, <3>3
  <2>7. QED
    BY <1>7, <2>1, <2>3, <2>4, <2>6 DEF Due, Prefix
<1>8. QED
  BY <1>4, <1>5, <1>6, <1>7, SockNext

\* Every step keeps the invariant on replies.
LEMMA ReplyStep == FdInv /\ SessionInv /\ OrderInv /\ ReplyInv /\ [Next]_vars => ReplyInv'
BY OutStep, DueStep DEF ReplyInv

-----------------------------------------------------------------------------
\* The inductive invariant.
ServiceInv == FdInv /\ SessionInv /\ OrderInv /\ ReplyInv

\* The server starts in a state of the whole invariant.
LEMMA ServiceInit == Init => ServiceInv
<1> SUFFICES ASSUME Init PROVE ServiceInv
  OBVIOUS
<1>1. FdInv
  BY FdInit
<1>2. /\ mainList = <<>> /\ DOMAIN mapAgents = {} /\ nSockets = 0
      /\ \A t \in Threads : ioList[t] = <<>>
      /\ \A s \in Sockets : /\ session[s] = "none" /\ asked[s] = <<>>
                            /\ sock[s] = Unused
  BY DEF Init
<1>3. SessionInv
  BY <1>2 DEF SessionInv, AgentsOpen, AcceptsNew, UnusedFresh
<1>4. OrderInv
  BY <1>2 DEF OrderInv, AskedUp, WaitingUp
<1>5. ReplyInv
  <2>1. \A s \in Sockets : ~Connected(s) /\ sock[s].out = <<>>
    BY <1>2 DEF Connected, Unused
  <2>2. QED
    BY <1>2, <2>1 DEF ReplyInv, OutOK, Prefix
<1>6. QED
  BY <1>1, <1>3, <1>4, <1>5 DEF ServiceInv

\* The whole invariant holds in every run.
LEMMA ServiceInvariance == Spec => []ServiceInv
<1>1. FdInv /\ [Next]_vars => FdInv'
  BY NextSafe, OwnersStep, LiveStep, RequestsStep DEF FdInv
<1>2. ServiceInv /\ [Next]_vars => ServiceInv'
  BY <1>1, SessionStep, OrderStep, ReplyStep DEF ServiceInv
<1>3. QED
  BY <1>2, ServiceInit, PTL DEF Spec

-----------------------------------------------------------------------------
(***************************************************************************)
(* The refinement                                                          *)
(***************************************************************************)
\* There are no more answers than requests.
LEMMA AskedBounded ==
    ASSUME TypeOK, AskedUp, NEW s \in Sockets
    PROVE  Len(asked[s]) \in 0..Cardinality(Requests)
<1> DEFINE q == asked[s]
           n == Len(q)
<1>1. q \in Seq(Requests) /\ n \in Nat /\ q \in [1..n -> Requests]
  BY DEF TypeOK
<1>2. Requests = 1..MaxReq /\ MaxReq \in Nat
  BY ServerConnAssumption DEF Requests
<1>3. IsFiniteSet(Requests) /\ Cardinality(Requests) = MaxReq
  BY <1>2, FS_Interval
<1>4. Cardinality(1..n) = n
  BY <1>1, FS_Interval
<1>5. \A i \in 1..n : \A j \in 1..(i - 1) : q[j] < q[i]
  BY DEF AskedUp
<1> HIDE DEF q, n
<1>6. ASSUME NEW i \in 1..n, NEW j \in 1..n, q[i] = q[j] PROVE i = j
  <2>1. q[i] \in Nat /\ q[j] \in Nat
    BY <1>1, <1>2
  <2>2. ~(j \in 1..(i - 1)) /\ ~(i \in 1..(j - 1))
    BY <1>5, <1>6, <2>1
  <2>3. QED
    BY <1>1, <2>2
<1>7. q \in Injection(1..n, Requests)
  BY <1>1, <1>6 DEF Injection, IsInjective
<1>8. Cardinality(1..n) <= Cardinality(Requests)
  BY <1>3, <1>7, FS_Injection
<1>9. n \in 0..Cardinality(Requests)
  BY <1>1, <1>2, <1>3, <1>4, <1>8
<1>10. QED
  BY <1>9 DEF q, n

\* What left stays.
LEMMA OutGrows ==
    ASSUME ServiceInv, [Next]_vars, NEW s \in Sockets
    PROVE  Len(sock'[s].out) >= Len(sock[s].out)
<1>1. TypeOK /\ FdInv /\ UnusedFresh
  BY DEF ServiceInv, FdInv, IInv, SessionInv
<1>2. sock[s].out \in Seq(Requests) /\ sock[s].sendBuf \in Seq(Requests)
  BY <1>1 DEF TypeOK, SocketType
<1>3. Len(Buffered(s)) >= Len(sock[s].out) /\ Len(sock[s].out) \in Nat
  <2>1. PICK u, v \in Seq(Requests) : u = sock[s].out /\ v = sock[s].sendBuf
    BY <1>2
  <2>2. Len(u \o v) = Len(u) + Len(v) /\ Len(u) \in Nat /\ Len(v) \in Nat
    BY ConcatProperties
  <2>3. Len(u \o v) >= Len(u)
    BY <2>2
  <2>4. QED
    BY <2>1, <2>2, <2>3 DEF Buffered
<1>4. CASE \E t \in Threads : TakesReply(t, s)
  BY <1>1, <1>3, <1>4, SendNext DEF Drops, Gets
<1>5. CASE ~\E t \in Threads : TakesReply(t, s)
  <2>1. CASE Drops(s) \/ Keeps(s)
    BY <1>3, <2>1 DEF Drops, Keeps
  <2>2. CASE s > nSockets /\ sock'[s].out = <<>>
    BY <1>1, <1>2, <2>2 DEF UnusedFresh, Unused
  <2>3. QED
    BY <1>1, <1>5, <2>1, <2>2, SockNext
<1>6. QED
  BY <1>4, <1>5

\* A step on which no session changes and nothing is asked lets some replies
\* leave.
LEMMA AnswerStep ==
    ASSUME ServiceInv, [Next]_vars, session' = session, asked' = asked
    PROVE  Service!Answer
<1> DEFINE out == [s \in Sockets |-> sock[s].out]
           upTo == [s \in Sockets |-> Len(sock'[s].out)]
<1>1. /\ TypeOK /\ TypeOK' /\ FdInv /\ SessionInv /\ ReplyInv /\ AskedUp
  BY NextType DEF ServiceInv, FdInv, IInv, OrderInv
<1>2. ASSUME NEW s \in Sockets
      PROVE  /\ sock'[s].out \in Seq(Requests) /\ asked[s] \in Seq(Requests)
             /\ sock[s].out \in Seq(Requests)
             /\ Prefix(sock'[s].out, asked[s])
  <2>1. sock'[s] \in SocketType /\ sock[s] \in SocketType /\ asked[s] \in Seq(Requests)
    BY <1>1 DEF TypeOK
  <2>2. OutOK'
    BY <1>1, OutStep
  <2>3. QED
    BY <2>1, <2>2 DEF SocketType, OutOK
<1>3. ASSUME NEW s \in Sockets
      PROVE  /\ Len(sock'[s].out) \in Len(sock[s].out)..Len(asked[s])
             /\ Len(sock'[s].out) \in 0..Cardinality(Requests)
             /\ sock'[s].out = SubSeq(asked[s], 1, Len(sock'[s].out))
  <2>1. PICK u, v, q \in Seq(Requests) :
            u = sock[s].out /\ v = sock'[s].out /\ q = asked[s]
    BY <1>2
  <2>2. /\ Len(u) \in Nat /\ Len(v) \in Nat /\ Len(q) \in Nat
        /\ Len(v) <= Len(q) /\ \A i \in 1..Len(v) : v[i] = q[i]
    BY <1>2, <2>1 DEF Prefix
  <2>3. Len(v) >= Len(u)
    BY <2>1, OutGrows
  <2>4. Len(q) \in 0..Cardinality(Requests)
    BY <1>1, <2>1, AskedBounded
  <2>5. Cardinality(Requests) \in Nat
    BY ServerConnAssumption, FS_Interval, FS_CardinalityType DEF Requests
  <2>6. v = SubSeq(q, 1, Len(v))
    <3>1. PICK w : w = SubSeq(q, 1, Len(v))
      OBVIOUS
    <3>2. \A i \in 1..Len(v) : q[i] \in Requests
      BY <2>2
    <3>3. /\ w \in Seq(Requests)
          /\ Len(w) = IF 1 <= Len(v) THEN Len(v) - 1 + 1 ELSE 0
          /\ \A i \in 1..(Len(v) - 1 + 1) : w[i] = q[1 + i - 1]
      BY <2>2, <3>1, <3>2, SubSeqProperties
    <3>4. Len(w) = Len(v) /\ \A i \in 1..Len(w) : w[i] = v[i]
      BY <2>2, <3>3
    <3>5. w = v
      BY <3>3, <3>4, SeqEqual
    <3>6. QED
      BY <3>1, <3>5
  <2>7. QED
    BY <2>1, <2>2, <2>3, <2>4, <2>5, <2>6
<1>4. upTo \in [Sockets -> 0..Cardinality(Requests)]
  BY <1>3
<1>5. \A c \in Sockets : upTo[c] \in Len(out[c])..Len(asked[c])
  BY <1>3
<1>6. out' = [c \in Sockets |-> SubSeq(asked[c], 1, upTo[c])]
  BY <1>3
<1>7. \E f \in [Sockets -> 0..Cardinality(Requests)] :
          /\ \A c \in Sockets : f[c] \in Len(out[c])..Len(asked[c])
          /\ out' = [c \in Sockets |-> SubSeq(asked[c], 1, f[c])]
  <2> HIDE DEF out, upTo
  <2>1. QED
    BY <1>4, <1>5, <1>6
<1>8. Service!Cardinality(Requests) = Cardinality(Requests)
  BY DEF Service!Cardinality, Cardinality
<1> HIDE DEF out, upTo
<1>9. \E f \in [Sockets -> 0..Service!Cardinality(Requests)] :
          /\ \A c \in Sockets : f[c] \in Len(out[c])..Len(asked[c])
          /\ out' = [c \in Sockets |-> SubSeq(asked[c], 1, f[c])]
  BY <1>7, <1>8
<1>10. QED
  BY <1>9, Zenon DEF Service!Answer, out

\* Every step is one that the abstract service may take.
LEMMA ServiceStep ==
    ASSUME ServiceInv, [Next]_vars
    PROVE  Service!Next
<1>1. /\ TypeOK /\ IInv /\ FdInv /\ WaitingUp
      /\ AgentsOpen /\ AcceptsNew
      /\ mainList \in Seq(MainPackage)
  BY DEF ServiceInv, FdInv, IInv, OrderInv, SessionInv, TypeOK
<1>2. CASE Opens /\ UNCHANGED <<ioVars, asked>>
  <2>1. PICK s \in Sockets :
            /\ mainList # <<>> /\ mainList' = Tail(mainList)
            /\ Head(mainList).cmd = "accept" /\ Head(mainList).socket = s
            /\ session' = [session EXCEPT ![s] = "open"]
    BY <1>2 DEF Opens
  <2>2. 1 \in 1..Len(mainList) /\ Head(mainList) = mainList[1]
    BY <1>1, <2>1, PoppedEntries DEF Popped
  <2>3. session[s] = "none"
    BY <1>1, <2>1, <2>2 DEF AcceptsNew
  <2>4. sock' = sock /\ asked' = asked
    BY <1>2 DEF ioVars
  <2>5. Service!Accept(s)
    BY <2>1, <2>3, <2>4 DEF Service!Accept
  <2>6. QED
    BY <2>5 DEF Service!Next
<1>3. CASE Closes /\ UNCHANGED <<sock, nSockets, asked>>
  <2>1. PICK a \in Sockets :
            /\ sock[a].fd \in DOMAIN mapAgents /\ mapAgents[sock[a].fd] = a
            /\ ForgetAgent(a)
    BY <1>3 DEF Closes
  <2>2. session[a] = "open" /\ session' = [session EXCEPT ![a] = "closed"]
    BY <1>1, <2>1 DEF AgentsOpen, ForgetAgent
  <2>3. Service!Close(a)
    BY <1>3, <2>2 DEF Service!Close
  <2>4. QED
    BY <2>3 DEF Service!Next
<1>4. CASE KeepsSessions /\ Asks
  <2>1. PICK a \in Sockets, r \in Requests :
            /\ mainList # <<>> /\ mainList' = Tail(mainList)
            /\ Head(mainList).cmd = "recv_buf" /\ Head(mainList).socket = a
            /\ Head(mainList).req = r
            /\ sock[a].fd \in DOMAIN mapAgents /\ mapAgents[sock[a].fd] = a
            /\ asked' = [asked EXCEPT ![a] = Append(@, r)]
            /\ sock' = sock
    BY <1>4 DEF Asks
  <2>2. 1 \in 1..Len(mainList) /\ Head(mainList) = mainList[1]
    BY <1>1, <2>1, PoppedEntries DEF Popped
  <2>3. IsRequest(mainList[1], a) /\ mainList[1].req = r
    BY <2>1, <2>2 DEF IsRequest
  <2>4. \A j \in 1..Len(asked[a]) : asked[a][j] < r
    BY <1>1, <2>2, <2>3 DEF WaitingUp, Later
  <2>5. DOMAIN asked[a] = 1..Len(asked[a])
    BY <1>1 DEF TypeOK
  <2>6. session[a] = "open" /\ session' = session
    BY <1>1, <1>4, <2>1 DEF AgentsOpen, KeepsSessions
  <2>7. Service!Ask(a, r)
    BY <2>1, <2>4, <2>5, <2>6 DEF Service!Ask
  <2>8. QED
    BY <2>7 DEF Service!Next
<1>5. CASE KeepsSessions /\ ~Asks
  <2>1. asked' = asked /\ session' = session
    BY <1>1, <1>5, NextAsked DEF KeepsSessions
  <2>2. QED
    BY <2>1, AnswerStep DEF Service!Next
<1>6. QED
  BY <1>1, <1>2, <1>3, <1>4, <1>5, NextSessions

\* The server's connections implement the abstract service: the application is
\* told of every connection once, in order, its requests reach it in the order
\* they were sent, and what leaves is a prefix of the replies it gave
\* (ServerSocket::pairCallback, ServerSocketIOThread::pairCallback and
\* ServerIOSocket::expandSendBuf).
THEOREM ImplementsService == Spec => ServiceSpec
<1>1. Init => Service!Init
  <2> SUFFICES ASSUME Init PROVE Service!Init
    OBVIOUS
  <2>1. /\ session = [s \in Sockets |-> "none"] /\ asked = [s \in Sockets |-> <<>>]
        /\ sock = [s \in Sockets |-> Unused]
    BY DEF Init
  <2>2. \A s \in Sockets : sock[s].out = <<>>
    BY <2>1 DEF Unused
  <2>3. QED
    BY <2>1, <2>2 DEF Service!Init
<1>2. ServiceInv /\ [Next]_vars => [Service!Next]_(Service!vars)
  BY ServiceStep
<1>3. QED
  BY <1>1, <1>2, ServiceInvariance, PTL DEF Spec, ServiceSpec, Service!Spec

-----------------------------------------------------------------------------
(***************************************************************************)
(* A connection is closed once, as long as no write to a client fails: the *)
(* read side reports its end once and is off from then on, so that the     *)
(* close is the last that main hears of the socket, and the io thread is   *)
(* told to delete it once.                                                 *)
(***************************************************************************)
\* The socket of every package for main is allocated.
MainLive == \A i \in 1..Len(mainList) : Live(mainList[i].socket)

CloseLast ==
    \A i, j \in 1..Len(mainList) :
        mainList[i].cmd = "close" /\ j > i => mainList[j].socket # mainList[i].socket

\* Once the io thread was told to delete a socket, main hears nothing of it.
ClosingSilent ==
    \A s \in Sockets : Closing(s) =>
        Live(s) /\ \A i \in 1..Len(mainList) : mainList[i].socket # s

CloseOnce ==
    \A t, u \in Threads : \A i \in 1..Len(ioList[t]), j \in 1..Len(ioList[u]) :
        /\ ioList[t][i].cmd = "close" /\ ioList[u][j].cmd = "close"
        /\ ioList[t][i].socket = ioList[u][j].socket
        => t = u /\ i = j

\* A socket that is still read was not closed.
ReadingOpen ==
    \A s \in Sockets : sock[s].reading =>
        ~Closing(s) /\ \A i \in 1..Len(mainList) : ~IsClose(mainList[i], s)

OnceInv == MainLive /\ CloseLast /\ ClosingSilent /\ CloseOnce /\ ReadingOpen

\* The closes on their way to the io threads are some of those that were, unless
\* main passes one on.
LEMMA ClosesInherited ==
    ASSUME IInv, [Next]_vars, ~MainClose, NEW t \in Threads
    PROVE  \E d \in {0, 1} : \A i \in 1..Len(ioList'[t]) :
               ioList'[t][i].cmd = "close" =>
                   /\ i + d \in 1..Len(ioList[t])
                   /\ ioList'[t][i] = ioList[t][i + d]
<1>1. TypeOK
  BY DEF IInv
<1>2. ASSUME \A i \in 1..Len(ioList'[t]) : ioList'[t][i].cmd = "close" =>
                 i \in 1..Len(ioList[t]) /\ ioList'[t][i] = ioList[t][i]
      PROVE  \A i \in 1..Len(ioList'[t]) : ioList'[t][i].cmd = "close" =>
                 i + 0 \in 1..Len(ioList[t]) /\ ioList'[t][i] = ioList[t][i + 0]
  <2>1. SUFFICES ASSUME NEW i \in 1..Len(ioList'[t]), ioList'[t][i].cmd = "close"
                 PROVE  /\ i + 0 \in 1..Len(ioList[t])
                        /\ ioList'[t][i] = ioList[t][i + 0]
    OBVIOUS
  <2>2. i + 0 = i
    OBVIOUS
  <2>3. QED
    BY <1>2, <2>1, <2>2
<1>3. CASE ioList'[t] = ioList[t]
  BY <1>2, <1>3
<1>4. CASE \E c : IOTakes(t, c)
  BY <1>1, <1>4, TakenEntries, ZenonT(60)
<1>5. CASE \E p \in IOPackage :
               ioList'[t] = Append(ioList[t], p) /\ p.cmd # "close"
  BY <1>1, <1>2, <1>5, PushedMail
<1>6. QED
  BY <1>3, <1>4, <1>5, NextLists DEF IOAccept, IOAcceptFailed, IOSend, IOClose

\* They are all of those that were, unless the io thread deletes a socket.
LEMMA ClosesKept ==
    ASSUME IInv, [Next]_vars, NEW t \in Threads, NEW i \in 1..Len(ioList[t]),
           ioList[t][i].cmd = "close", ~(IOClose(t) /\ i = 1)
    PROVE  \E j \in 1..Len(ioList'[t]) : ioList'[t][j] = ioList[t][i]
<1>1. TypeOK
  BY DEF IInv
<1>2. CASE ioList'[t] = ioList[t]
  BY <1>2
<1>3. ASSUME NEW c, IOTakes(t, c), i # 1
      PROVE  \E j \in 1..Len(ioList'[t]) : ioList'[t][j] = ioList[t][i]
  BY <1>1, <1>3, TakenEntries
<1>4. ASSUME NEW c, IOTakes(t, c), c # "close" PROVE i # 1
  BY <1>1, <1>4, TakenEntries
<1>5. CASE \E p \in IOPackage : ioList'[t] = Append(ioList[t], p)
  BY <1>1, <1>5, PushedMail
<1>6. CASE IOAccept(t) \/ IOAcceptFailed(t) \/ IOSend(t) \/ IOClose(t)
  <2>1. i # 1
    BY <1>4, <1>6 DEF IOAccept, IOAcceptFailed, IOSend
  <2>2. PICK c : IOTakes(t, c)
    BY <1>6 DEF IOAccept, IOAcceptFailed, IOSend, IOClose
  <2>3. QED
    BY <1>3, <2>1, <2>2
<1>7. QED
  BY <1>2, <1>5, <1>6, NextLists

\* What the read side of a socket gives to main.
ReadUp(s) ==
    /\ Live(s) /\ sock[s].reading /\ ioList' = ioList /\ SameObjects
    /\ \A r \in Sockets : sock'[r].reading => sock[r].reading
    /\ \/ mainList' = mainList
       \/ \E k \in Kinds, q \in Requests : ToMain(Package("recv_buf", 0, s, q, k))
       \/ ToMain(OnSocket("close", s)) /\ ~sock'[s].reading

\* Without a failed write, only readCallback's thread tells main of a socket.
LEMMA NextReading ==
    ASSUME IInv, [Next]_vars, "write_error" \notin Env, ~Makes, ~Deletes, ~MainClose
    PROVE  \/ \E s \in Sockets : ReadUp(s)
           \/ /\ Kept \/ Popped
              /\ SameObjects
              /\ \A r \in Sockets : sock'[r].reading => sock[r].reading
<1>1. TypeOK /\ SameObjects
  BY OthersKeep DEF IInv
<1>2. sock \in [Sockets -> SocketType]
  BY <1>1 DEF TypeOK
<1>3. CASE UNCHANGED vars
  BY <1>1, <1>3 DEF vars, mainVars, ioVars, Kept
<1>4. CASE AcceptConnection \/ AcceptRefused \/ AcceptFailed
  BY <1>1, <1>4 DEF AcceptConnection, AcceptRefused, AcceptFailed, mainVars, ioVars, Kept
<1>5. CASE MainLoop
  <2>1. sock' = sock
    BY <1>5 DEF MainLoop, MainWake, MainAccept, MainRecvNoAgent, MainRecvHeartbeat,
                MainRecvOther, MainRecvShort, MainClose, MainLeave, ioVars
  <2>2. CASE MainWake \/ MainLeave
    BY <1>1, <2>1, <2>2 DEF MainWake, MainLeave, Kept
  <2>3. CASE ~MainWake /\ ~MainLeave
    <3>1. PICK c : MainTakes(c)
      BY <1>5, <2>3 DEF MainLoop, MainAccept, MainRecvNoAgent, MainRecvHeartbeat,
                        MainRecvOther, MainRecvShort, MainClose
    <3>2. QED
      BY <1>1, <2>1, <3>1 DEF MainTakes, Popped
  <2>4. QED
    BY <2>2, <2>3
<1>6. ASSUME NEW t \in Threads, IOLoop(t)
      PROVE  Kept /\ \A r \in Sockets : sock'[r].reading => sock[r].reading
  <2>1. ~IOAccept(t) /\ ~IOClose(t)
    BY DEF Makes, Deletes
  <2>2. \A r \in SocketType : /\ consumeSendBuf(r).reading = r.reading
                              /\ \A q \in Requests : expandSendBuf(r, q).reading = r.reading
    BY DEF consumeSendBuf, expandSendBuf, toSend, SocketType
  <2>3. Kept
    BY <1>6, <2>1 DEF IOLoop, IOWake, IOAcceptFailed, IOSend, IOFlush, mainVars, Kept
  <2>4. CASE IOWake(t) \/ IOAcceptFailed(t)
    BY <2>3, <2>4 DEF IOWake, IOAcceptFailed
  <2>5. CASE IOSend(t)
    <3>1. IOTakes(t, "send_buf")
      BY <2>5 DEF IOSend
    <3>2. PICK s \in Sockets, q \in Requests :
              s = Head(ioList[t]).socket /\ q = Head(ioList[t]).req
      BY <1>1, <3>1, IOTakesFact, SMTT(30)
    <3>3. PICK x \in {sock[s], consumeSendBuf(sock[s])} :
              sock' = [sock EXCEPT ![s] = expandSendBuf(x, q)]
      BY <2>5, <3>2 DEF IOSend
    <3>4. x \in SocketType /\ x.reading = sock[s].reading
      BY <1>2, <2>2, ConsumeFact
    <3>5. QED
      BY <1>2, <2>2, <2>3, <3>3, <3>4
  <2>6. CASE IOFlush(t)
    <3>1. ASSUME NEW r \in Sockets
          PROVE  sock'[r] = sock[r] \/ sock'[r] = consumeSendBuf(sock[r])
      BY <2>6 DEF IOFlush
    <3>2. QED
      BY <1>2, <2>2, <2>3, <3>1
  <2>7. QED
    BY <1>6, <2>1, <2>4, <2>5, <2>6 DEF IOLoop
<1>7. ASSUME NEW s \in Sockets,
             Read(s) \/ ReadCloseFrame(s) \/ ReadEvent(s) \/ WriteEvent(s)
      PROVE  ReadUp(s)
  <2>1. Live(s) /\ ioList' = ioList
    BY <1>1, <1>7, ClientObjects
       DEF Read, ReadCloseFrame, ReadEvent, WriteEvent, Served, Live
  <2>2. CASE Read(s)
    <3>1. /\ sent' = [sent EXCEPT ![s] = sent[s] + 1] /\ sent[s] < MaxReq
          /\ \/ mainList' = mainList
             \/ \E k \in Kinds : ToMain(Package("recv_buf", 0, s, sent'[s], k))
          /\ sock' = sock /\ sock[s].reading
      BY <2>2 DEF Read
    <3>2. sent'[s] \in Requests
      BY <1>1, <3>1, ServerConnAssumption, SMTT(30) DEF TypeOK, Requests
    <3>3. QED
      BY <1>1, <2>1, <3>1, <3>2 DEF ReadUp
  <2>3. CASE ReadCloseFrame(s)
    <3>1. sock' = [sock EXCEPT ![s] = [sock[s] EXCEPT !.status = "while_Close"]]
            /\ mainList' = mainList /\ sock[s].reading
      BY <2>3 DEF ReadCloseFrame
    <3>2. [sock[s] EXCEPT !.status = "while_Close"].reading = sock[s].reading
      BY <1>2 DEF SocketType
    <3>3. \A r \in Sockets : sock'[r].reading => sock[r].reading
      BY <1>2, <3>1, <3>2
    <3>4. QED
      BY <1>1, <2>1, <3>1, <3>3 DEF ReadUp
  <2>4. CASE ReadEvent(s)
    <3>1. /\ sock' = [sock EXCEPT ![s] = [sock[s] EXCEPT !.reading = FALSE]]
          /\ ToMain(OnSocket("close", s)) /\ sock[s].reading
      BY <2>4 DEF ReadEvent
    <3>2. ~[sock[s] EXCEPT !.reading = FALSE].reading
      BY <1>2 DEF SocketType
    <3>3. ~sock'[s].reading /\ \A r \in Sockets : sock'[r].reading => sock[r].reading
      BY <1>2, <3>1, <3>2
    <3>4. QED
      BY <1>1, <2>1, <3>1, <3>3 DEF ReadUp
  <2>5. CASE WriteEvent(s)
    BY <2>5 DEF WriteEvent
  <2>6. QED
    BY <1>7, <2>2, <2>3, <2>4, <2>5
<1>8. QED
  BY <1>1, <1>3, <1>4, <1>5, <1>6, <1>7 DEF Next

\* The close that main passes on.
LEMMA PassesOn ==
    ASSUME IInv, MainLive, MainClose
    PROVE  \E s \in Sockets :
               /\ 1 \in 1..Len(mainList) /\ IsClose(mainList[1], s) /\ Popped
               /\ Live(s) /\ sock' = sock /\ crashed' = crashed /\ ~crashed
               /\ sock[s].thread \in Threads
               /\ ToIO(sock[s].thread, OnSocket("close", s))
               /\ nNowSocketCount' = nNowSocketCount - 1
               /\ HasAgent(s) => ForgetAgent(Agent(s))
               /\ ~HasAgent(s) => UNCHANGED <<mapAgents, nSocketCount>>
<1>1. TypeOK /\ MainTakes("close")
  BY DEF IInv, MainClose
<1>2. Popped
  BY <1>1 DEF MainTakes, Popped
<1>3. 1 \in 1..Len(mainList) /\ Head(mainList) = mainList[1]
  BY <1>1, <1>2, PoppedEntries
<1>4. PICK s \in Sockets : s = Head(mainList).socket
  BY <1>1, MainTakesFact
<1>5. IsClose(mainList[1], s)
  BY <1>1, <1>3, <1>4 DEF IsClose, MainTakes
<1>6. Live(s)
  BY <1>3, <1>4 DEF MainLive
<1>7. sock[s].thread \in Threads
  BY <1>6 DEF IInv, SocketsMade
<1>8. /\ sock' = sock /\ crashed' = crashed /\ ~crashed
      /\ ToIO(sock[s].thread, OnSocket("close", s))
      /\ nNowSocketCount' = nNowSocketCount - 1
      /\ HasAgent(s) => ForgetAgent(Agent(s))
      /\ ~HasAgent(s) => UNCHANGED <<mapAgents, nSocketCount>>
  BY <1>1, <1>4, <1>7 DEF MainClose, MainTakes
<1>9. QED
  BY <1>2, <1>3, <1>5, <1>6, <1>7, <1>8

\* No socket is closed by any other step.
LEMMA ClosingBack ==
    ASSUME IInv, [Next]_vars, ~MainClose, CloseOnce
    PROVE  CloseOnce' /\ \A s \in Sockets : Closing(s)' => Closing(s)
<1>1. ASSUME NEW s \in Sockets, Closing(s)' PROVE Closing(s)
  <2>1. PICK t \in Threads : \E i \in 1..Len(ioList'[t]) : IsClose(ioList'[t][i], s)
    BY <1>1 DEF Closing, IsClose
  <2>2. PICK i \in 1..Len(ioList'[t]) : IsClose(ioList'[t][i], s)
    BY <2>1
  <2>3. \E k \in 1..Len(ioList[t]) : ioList'[t][i] = ioList[t][k]
    BY <2>2, ClosesInherited DEF IsClose
  <2>4. QED
    BY <2>2, <2>3 DEF Closing, IsClose
<1>2. ASSUME NEW t \in Threads, NEW u \in Threads,
             NEW i \in 1..Len(ioList'[t]), NEW j \in 1..Len(ioList'[u]),
             ioList'[t][i].cmd = "close", ioList'[u][j].cmd = "close",
             ioList'[t][i].socket = ioList'[u][j].socket
      PROVE  t = u /\ i = j
  <2>1. PICK d \in {0, 1} : \A k \in 1..Len(ioList'[t]) :
            ioList'[t][k].cmd = "close" =>
                /\ k + d \in 1..Len(ioList[t])
                /\ ioList'[t][k] = ioList[t][k + d]
    BY ClosesInherited
  <2>2. PICK e \in {0, 1} : \A k \in 1..Len(ioList'[u]) :
            ioList'[u][k].cmd = "close" =>
                /\ k + e \in 1..Len(ioList[u])
                /\ ioList'[u][k] = ioList[u][k + e]
    BY ClosesInherited
  <2>3. t = u /\ i + d = j + e
    <3>1. PICK k \in 1..Len(ioList[t]) : k = i + d /\ ioList'[t][i] = ioList[t][k]
      BY <1>2, <2>1
    <3>2. PICK l \in 1..Len(ioList[u]) : l = j + e /\ ioList'[u][j] = ioList[u][l]
      BY <1>2, <2>2
    <3>3. t = u /\ k = l
      BY <1>2, <3>1, <3>2 DEF CloseOnce
    <3>4. QED
      BY <3>1, <3>2, <3>3
  <2>4. t = u /\ i + d = j + d
    BY <1>2, <2>1, <2>3, SMTT(30) DEF CloseOnce
  <2>5. QED
    BY <2>4
<1>3. QED
  BY <1>1, <1>2 DEF CloseOnce

\* Every package for main names a socket.
LEMMA MainNames ==
    ASSUME TypeOK'
    PROVE  \A i \in 1..Len(mainList') : mainList'[i].socket \in Sockets
<1>1. mainList' \in Seq(MainPackage)
  BY DEF TypeOK
<1>2. \A p \in MainPackage : p.socket \in Sockets
  BY DEF MainPackage
<1>3. QED
  BY <1>1, <1>2

\* A step that leaves main's list as it is, or takes its head.
LEMMA MainShrinks ==
    ASSUME IInv, Kept \/ Popped
    PROVE  \E d \in {0, 1} : \A i \in 1..Len(mainList') :
               /\ i \in Nat /\ i + d \in 1..Len(mainList)
               /\ mainList'[i] = mainList[i + d]
<1>1. TypeOK
  BY DEF IInv
<1>2. CASE Kept
  <2>1. \A i \in 1..Len(mainList') :
            /\ i \in Nat /\ i + 0 \in 1..Len(mainList)
            /\ mainList'[i] = mainList[i + 0]
    <3>1. SUFFICES ASSUME NEW i \in 1..Len(mainList')
                   PROVE  /\ i \in Nat /\ i + 0 \in 1..Len(mainList)
                          /\ mainList'[i] = mainList[i + 0]
      OBVIOUS
    <3>2. i \in Nat /\ i + 0 = i
      OBVIOUS
    <3>3. QED
      BY <1>2, <3>2 DEF Kept
  <2>2. QED
    BY <2>1
<1>3. CASE Popped
  BY <1>1, <1>3, PoppedEntries
<1>4. QED
  BY <1>2, <1>3

\* Such a step keeps what is said of main's list and the sockets, if it deletes
\* none and tells no io thread to do so.
LEMMA OnceKept ==
    ASSUME IInv, OnceInv, [Next]_vars, ~MainClose, Kept \/ Popped, SameObjects,
           \A s \in Sockets : sock'[s].reading => sock[s].reading
    PROVE  OnceInv'
<1>1. TypeOK /\ TypeOK' /\ MainLive /\ CloseLast /\ ClosingSilent /\ CloseOnce
        /\ ReadingOpen
  BY NextType DEF IInv, OnceInv
<1>2. CloseOnce' /\ \A s \in Sockets : Closing(s)' => Closing(s)
  BY <1>1, ClosingBack
<1>3. \A s \in Sockets : Live(s)' = Live(s)
  BY DEF SameObjects, SameObject, Live
<1>4. PICK d \in {0, 1} : \A i \in 1..Len(mainList') :
          /\ i \in Nat /\ i + d \in 1..Len(mainList)
          /\ mainList'[i] = mainList[i + d]
  BY MainShrinks
<1>5. \A i \in 1..Len(mainList') : mainList'[i].socket \in Sockets
  BY <1>1, MainNames
<1>6. MainLive'
  <2>1. ASSUME NEW i \in 1..Len(mainList') PROVE Live(mainList'[i].socket)
    BY <1>1, <1>4 DEF MainLive
  <2>2. QED
    BY <1>3, <1>5, <2>1 DEF MainLive, Live
<1>7. CloseLast'
  <2>1. ASSUME NEW i \in 1..Len(mainList'), NEW j \in 1..Len(mainList'),
               mainList'[i].cmd = "close", j > i
        PROVE  mainList'[j].socket # mainList'[i].socket
    BY <1>1, <1>4, <2>1 DEF CloseLast
  <2>2. QED
    BY <2>1 DEF CloseLast
<1>8. ClosingSilent'
  BY <1>1, <1>2, <1>3, <1>4 DEF ClosingSilent
<1>9. ReadingOpen'
  BY <1>1, <1>2, <1>4 DEF ReadingOpen, IsClose
<1>10. QED
  BY <1>2, <1>6, <1>7, <1>8, <1>9 DEF OnceInv

\* The read side hands up a request, or reports its end.
LEMMA OnceRead ==
    ASSUME IInv, OnceInv, [Next]_vars, ~MainClose, NEW s \in Sockets, ReadUp(s)
    PROVE  OnceInv'
<1>1. TypeOK /\ TypeOK' /\ MainLive /\ CloseLast /\ ClosingSilent /\ CloseOnce
        /\ ReadingOpen
  BY NextType DEF IInv, OnceInv
<1>2. SameObjects /\ \A r \in Sockets : sock'[r].reading => sock[r].reading
  BY DEF ReadUp
<1>3. CASE mainList' = mainList
  BY <1>2, <1>3, OnceKept DEF Kept
<1>4. CASE mainList' # mainList
  <2>1. PICK p \in MainPackage :
            ToMain(p) /\ p.socket = s /\ (p.cmd = "close" => ~sock'[s].reading)
    BY <1>4, UpSockets, UpRequest DEF ReadUp
  <2>2. /\ Len(mainList) \in Nat /\ Len(mainList') = Len(mainList) + 1
        /\ \A i \in 1..Len(mainList') :
               \/ i \in 1..Len(mainList) /\ mainList'[i] = mainList[i]
               \/ i = Len(mainList) + 1 /\ mainList'[i] = p
    BY <1>1, <2>1, PushedEntries
  <2>3. /\ CloseOnce' /\ \A r \in Sockets : Closing(r)' => Closing(r)
        /\ \A r \in Sockets : Live(r)' = Live(r)
    BY <1>1, <1>2, ClosingBack DEF SameObjects, SameObject, Live
  <2>4. Live(s) /\ ~Closing(s) /\ \A i \in 1..Len(mainList) : ~IsClose(mainList[i], s)
    BY <1>1 DEF ReadUp, ReadingOpen
  <2>5. \A i \in 1..Len(mainList') : mainList'[i].socket \in Sockets
    BY <1>1, MainNames
  <2>6. MainLive'
    <3>1. ASSUME NEW i \in 1..Len(mainList') PROVE Live(mainList'[i].socket)
      BY <1>1, <2>1, <2>2, <2>4 DEF MainLive
    <3>2. QED
      BY <2>3, <2>5, <3>1 DEF MainLive, Live
  <2>7. CloseLast'
    <3>1. ASSUME NEW i \in 1..Len(mainList'), NEW j \in 1..Len(mainList'),
                 mainList'[i].cmd = "close", j > i
          PROVE  mainList'[j].socket # mainList'[i].socket
      <4>1. i \in 1..Len(mainList) /\ mainList'[i] = mainList[i]
        BY <2>2, <3>1
      <4>2. CASE j \in 1..Len(mainList) /\ mainList'[j] = mainList[j]
        BY <1>1, <3>1, <4>1, <4>2 DEF CloseLast
      <4>3. CASE mainList'[j] = p
        BY <2>1, <2>4, <3>1, <4>1, <4>3 DEF IsClose
      <4>4. QED
        BY <2>2, <4>2, <4>3
    <3>2. QED
      BY <3>1 DEF CloseLast
  <2>8. ClosingSilent'
    BY <1>1, <2>1, <2>2, <2>3, <2>4 DEF ClosingSilent
  <2>9. ReadingOpen'
    BY <1>1, <1>2, <2>1, <2>2, <2>3, <2>4 DEF ReadingOpen, IsClose
  <2>10. QED
    BY <2>3, <2>6, <2>7, <2>8, <2>9 DEF OnceInv
<1>5. QED
  BY <1>3, <1>4

\* An io thread makes a socket, of which nobody has heard.
LEMMA OnceMade ==
    ASSUME IInv, OnceInv, [Next]_vars, Makes
    PROVE  OnceInv'
<1>1. TypeOK /\ TypeOK' /\ MainLive /\ CloseLast /\ ClosingSilent /\ CloseOnce
        /\ ReadingOpen /\ MainListMade /\ IOListMade
  BY NextType DEF IInv, OnceInv, MainInv, IOInv
<1>2. PICK t \in Threads : IOAccept(t)
  BY DEF Makes
<1>3. PICK n \in Sockets :
          /\ n > nSockets /\ sock'[n].mem = "live"
          /\ \A s \in Sockets : s # n => sock'[s] = sock[s]
          /\ ToMain(OnSocket("accept", n))
  BY <1>2, MakeFacts
<1>4. ~MainClose
  <2>1. mainList' # Tail(mainList)
    <3>1. Len(mainList) \in Nat /\ Len(mainList') = Len(mainList) + 1
      BY <1>1, <1>3, PushedEntries, UpSockets
    <3>2. ~Popped
      BY <1>1, <3>1, PoppedEntries
    <3>3. ASSUME mainList = <<>> PROVE mainList' # Tail(mainList)
      <4>1. mainList' # <<>> /\ Tail(<<>>) = <<>>
        BY <1>3, <3>1, <3>3
      <4>2. QED
        BY <3>3, <4>1
    <3>4. QED
      BY <3>2, <3>3 DEF Popped
  <2>2. QED
    BY <2>1 DEF MainClose, MainTakes
<1>5. CloseOnce' /\ \A s \in Sockets : Closing(s)' => Closing(s)
  BY <1>1, <1>4, ClosingBack
<1>6. nSockets \in Nat /\ n \in Nat
  BY <1>1 DEF TypeOK, Sockets
<1>7. \A i \in 1..Len(mainList) : mainList[i].socket # n
  BY <1>3, <1>6, <1>1 DEF MainListMade
<1>8. ~Closing(n)
  BY <1>3, <1>6, <1>1 DEF IOListMade, Closing, IsClose
<1>9. PICK p \in MainPackage : ToMain(p) /\ p.socket = n /\ p.cmd = "accept"
  BY <1>3, UpSockets
<1>10. /\ Len(mainList) \in Nat /\ Len(mainList') = Len(mainList) + 1
       /\ \A i \in 1..Len(mainList') :
              \/ i \in 1..Len(mainList) /\ mainList'[i] = mainList[i]
              \/ i = Len(mainList) + 1 /\ mainList'[i] = p
  BY <1>1, <1>9, PushedEntries
<1>11. \A i \in 1..Len(mainList') : mainList'[i].socket \in Sockets
  BY <1>1, MainNames
<1>12. MainLive'
  <2>1. ASSUME NEW i \in 1..Len(mainList') PROVE sock'[mainList'[i].socket].mem = "live"
    <3>1. CASE i \in 1..Len(mainList) /\ mainList'[i] = mainList[i]
      <4>1. mainList'[i].socket # n /\ Live(mainList'[i].socket)
        BY <1>1, <1>7, <3>1 DEF MainLive
      <4>2. QED
        BY <1>3, <1>11, <4>1 DEF Live
    <3>2. CASE mainList'[i] = p
      BY <1>3, <1>9, <3>2
    <3>3. QED
      BY <1>10, <3>1, <3>2
  <2>2. QED
    BY <2>1 DEF MainLive, Live
<1>13. CloseLast'
  <2>1. ASSUME NEW i \in 1..Len(mainList'), NEW j \in 1..Len(mainList'),
               mainList'[i].cmd = "close", j > i
        PROVE  mainList'[j].socket # mainList'[i].socket
    <3>1. i \in 1..Len(mainList) /\ mainList'[i] = mainList[i]
      BY <1>9, <1>10, <2>1
    <3>2. CASE j \in 1..Len(mainList) /\ mainList'[j] = mainList[j]
      BY <1>1, <2>1, <3>1, <3>2 DEF CloseLast
    <3>3. CASE mainList'[j] = p
      BY <1>7, <1>9, <3>1, <3>3
    <3>4. QED
      BY <1>10, <3>2, <3>3
  <2>2. QED
    BY <2>1 DEF CloseLast
<1>14. ClosingSilent'
  <2>1. ASSUME NEW s \in Sockets, Closing(s)'
        PROVE  Live(s)' /\ \A i \in 1..Len(mainList') : mainList'[i].socket # s
    <3>1. Closing(s) /\ s # n
      BY <1>5, <1>8, <2>1
    <3>2. Live(s) /\ \A i \in 1..Len(mainList) : mainList[i].socket # s
      BY <1>1, <3>1 DEF ClosingSilent
    <3>3. Live(s)'
      BY <1>3, <3>1, <3>2 DEF Live
    <3>4. QED
      BY <1>9, <1>10, <3>1, <3>2, <3>3
  <2>2. QED
    BY <2>1 DEF ClosingSilent
<1>15. ReadingOpen'
  <2>1. ASSUME NEW s \in Sockets, sock'[s].reading
        PROVE  /\ ~Closing(s)'
               /\ \A i \in 1..Len(mainList') : ~IsClose(mainList'[i], s)
    <3>1. ~Closing(s) /\ \A i \in 1..Len(mainList) : ~IsClose(mainList[i], s)
      BY <1>1, <1>3, <1>7, <1>8, <2>1 DEF ReadingOpen, IsClose
    <3>2. QED
      BY <1>5, <1>9, <1>10, <3>1 DEF IsClose
  <2>2. QED
    BY <2>1 DEF ReadingOpen, IsClose
<1>16. QED
  BY <1>5, <1>12, <1>13, <1>14, <1>15 DEF OnceInv

\* An io thread deletes a socket: the close was the only one, and main hears
\* nothing of the socket any more.
LEMMA OnceDeleted ==
    ASSUME IInv, OnceInv, [Next]_vars, Deletes
    PROVE  OnceInv'
<1>1. TypeOK /\ TypeOK' /\ MainLive /\ CloseLast /\ ClosingSilent /\ CloseOnce
        /\ ReadingOpen
  BY NextType DEF IInv, OnceInv
<1>2. PICK t \in Threads : IOClose(t)
  BY DEF Deletes
<1>3. IOTakes(t, "close") /\ mainList' = mainList
  BY <1>2 DEF IOClose
<1>4. PICK s \in Sockets : s = Head(ioList[t]).socket
  BY <1>1, <1>3, IOTakesFact
<1>5. /\ 1 \in 1..Len(ioList[t]) /\ ioList[t][1].cmd = "close"
      /\ Head(ioList[t]) = ioList[t][1]
      /\ ioList[t] # <<>> /\ ioList' = [ioList EXCEPT ![t] = Tail(@)]
  BY <1>1, <1>3, TakenEntries DEF IOTakes
<1>6. Closing(s)
  BY <1>4, <1>5 DEF Closing, IsClose
<1>7. Live(s) /\ \A i \in 1..Len(mainList) : mainList[i].socket # s
  BY <1>1, <1>6 DEF ClosingSilent
<1>8. sock' = [sock EXCEPT ![s] = Released(@)]
  BY <1>2, <1>4, <1>7 DEF IOClose, Live
<1>9. ~sock'[s].reading /\ \A r \in Sockets : r # s => sock'[r] = sock[r]
  BY <1>1, <1>8 DEF TypeOK, Released
<1>10. ASSUME NEW u \in Threads, NEW i \in 1..Len(ioList'[u])
       PROVE  /\ i \in Nat /\ Before(u, t, i) \in 1..Len(ioList[u])
              /\ ioList'[u][i] = ioList[u][Before(u, t, i)]
  BY <1>1, <1>5, PopBefore
<1>11. ~Closing(s)'
  <2>1. ASSUME NEW u \in Threads, NEW i \in 1..Len(ioList'[u]),
               ioList'[u][i].cmd = "close", ioList'[u][i].socket = s
        PROVE  FALSE
    <3>1. PICK k \in 1..Len(ioList[u]) :
              k = Before(u, t, i) /\ ioList'[u][i] = ioList[u][k] /\ i \in 1..Len(ioList'[u])
      BY <1>10
    <3>2. u = t /\ k = 1
      BY <1>1, <1>4, <1>5, <2>1, <3>1 DEF CloseOnce
    <3>3. k = i + 1 /\ i \in Nat \ {0}
      <4>1. i \in Nat /\ i >= 1
        BY <1>10, <2>1
      <4>2. QED
        BY <3>1, <3>2, <4>1 DEF Before
    <3>4. QED
      BY <3>2, <3>3
  <2>2. QED
    BY <2>1 DEF Closing, IsClose
<1>12. CloseOnce' /\ \A r \in Sockets : Closing(r)' => Closing(r)
  <2>1. ~MainClose
    BY <1>3 DEF MainClose, MainTakes, IOTakes
  <2>2. QED
    BY <1>1, <2>1, ClosingBack
<1>13. MainLive'
  BY <1>1, <1>3, <1>7, <1>9, MainNames DEF MainLive, Live
<1>14. CloseLast'
  BY <1>1, <1>3 DEF CloseLast
<1>15. ClosingSilent'
  BY <1>1, <1>3, <1>9, <1>11, <1>12 DEF ClosingSilent, Live
<1>16. ReadingOpen'
  BY <1>1, <1>3, <1>9, <1>12 DEF ReadingOpen, IsClose
<1>17. QED
  BY <1>12, <1>13, <1>14, <1>15, <1>16 DEF OnceInv

\* Main passes the close on, and hears no more of the socket.
LEMMA OncePassed ==
    ASSUME IInv, OnceInv, [Next]_vars, MainClose
    PROVE  OnceInv'
<1>1. TypeOK /\ TypeOK' /\ MainLive /\ CloseLast /\ ClosingSilent /\ CloseOnce
        /\ ReadingOpen
  BY NextType DEF IInv, OnceInv
<1>2. PICK s \in Sockets :
          /\ 1 \in 1..Len(mainList) /\ IsClose(mainList[1], s) /\ Popped
          /\ Live(s) /\ sock' = sock
          /\ sock[s].thread \in Threads
          /\ ToIO(sock[s].thread, OnSocket("close", s))
  BY <1>1, PassesOn
<1>3. \A i \in 1..Len(mainList') :
          i \in Nat /\ i + 1 \in 1..Len(mainList) /\ mainList'[i] = mainList[i + 1]
  BY <1>1, <1>2, PoppedEntries
<1>4. PICK p \in IOPackage : p = OnSocket("close", s) /\ IsClose(p, s)
  BY OnSocketFact DEF OnSocket, Package, IsClose
<1>5. ASSUME NEW u \in Threads, NEW i \in 1..Len(ioList'[u])
      PROVE  \/ i \in 1..Len(ioList[u]) /\ ioList'[u][i] = ioList[u][i]
             \/ /\ u = sock[s].thread /\ i = Len(ioList[u]) + 1
                /\ ioList'[u][i] = p
  BY <1>1, <1>2, <1>4, PushAfter
<1>6. ~Closing(s) /\ ~sock[s].reading
  <2>1. ~Closing(s)
    BY <1>1, <1>2 DEF ClosingSilent, IsClose
  <2>2. ~sock[s].reading
    BY <1>1, <1>2 DEF ReadingOpen
  <2>3. QED
    BY <2>1, <2>2
<1>7. \A u \in Threads : \A i \in 1..Len(ioList[u]) : ~IsClose(ioList[u][i], s)
  BY <1>6 DEF Closing
<1>8. \A r \in Sockets : Closing(r)' => Closing(r) \/ r = s
  <2>1. ASSUME NEW r \in Sockets, r # s, NEW u \in Threads,
               NEW i \in 1..Len(ioList'[u]), IsClose(ioList'[u][i], r)
        PROVE  Closing(r)
    <3>1. ioList'[u][i] # p
      BY <1>4, <2>1 DEF IsClose
    <3>2. QED
      BY <1>5, <2>1, <3>1 DEF Closing
  <2>2. QED
    BY <2>1 DEF Closing, IsClose
<1>9. \A i \in 1..Len(mainList') : mainList'[i].socket # s
  <2>1. ASSUME NEW i \in 1..Len(mainList') PROVE mainList'[i].socket # s
    <3>1. i >= 1 /\ i + 1 \in 1..Len(mainList) /\ mainList'[i] = mainList[i + 1]
            /\ i + 1 > 1
      BY <1>3
    <3>2. QED
      BY <1>1, <1>2, <3>1 DEF CloseLast, IsClose
  <2>2. QED
    BY <2>1
<1>10. MainLive'
  BY <1>1, <1>2, <1>3 DEF MainLive, Live
<1>11. CloseLast'
  <2>1. ASSUME NEW i \in 1..Len(mainList'), NEW j \in 1..Len(mainList'),
               mainList'[i].cmd = "close", j > i
        PROVE  mainList'[j].socket # mainList'[i].socket
    BY <1>1, <1>3, <2>1 DEF CloseLast
  <2>2. QED
    BY <2>1 DEF CloseLast
<1>12. ClosingSilent'
  BY <1>1, <1>2, <1>3, <1>8, <1>9 DEF ClosingSilent, Live
<1>13. CloseOnce'
  <2>1. ASSUME NEW t \in Threads, NEW u \in Threads,
               NEW i \in 1..Len(ioList'[t]), NEW j \in 1..Len(ioList'[u]),
               ioList'[t][i].cmd = "close", ioList'[u][j].cmd = "close",
               ioList'[t][i].socket = ioList'[u][j].socket
        PROVE  t = u /\ i = j
    <3>1. CASE ioList'[t][i] = p
      <4>1. ~(j \in 1..Len(ioList[u]) /\ ioList'[u][j] = ioList[u][j])
        BY <1>4, <1>7, <2>1, <3>1 DEF IsClose
      <4>2. ~(i \in 1..Len(ioList[t]) /\ ioList'[t][i] = ioList[t][i])
        BY <1>4, <1>7, <2>1, <3>1 DEF IsClose
      <4>3. QED
        BY <1>5, <4>1, <4>2
    <3>2. CASE ioList'[t][i] # p
      <4>1. i \in 1..Len(ioList[t]) /\ ioList'[t][i] = ioList[t][i]
        BY <1>5, <3>2
      <4>2. ioList'[u][j] # p
        BY <1>4, <1>7, <2>1, <4>1 DEF IsClose
      <4>3. j \in 1..Len(ioList[u]) /\ ioList'[u][j] = ioList[u][j]
        BY <1>5, <4>2
      <4>4. QED
        BY <1>1, <2>1, <4>1, <4>3 DEF CloseOnce
    <3>3. QED
      BY <3>1, <3>2
  <2>2. QED
    BY <2>1 DEF CloseOnce
<1>14. ReadingOpen'
  <2>1. ASSUME NEW r \in Sockets, sock'[r].reading
        PROVE  /\ ~Closing(r)'
               /\ \A i \in 1..Len(mainList') : ~IsClose(mainList'[i], r)
    <3>1. r # s /\ ~Closing(r) /\ \A i \in 1..Len(mainList) : ~IsClose(mainList[i], r)
      BY <1>1, <1>2, <1>6, <2>1 DEF ReadingOpen
    <3>2. QED
      BY <1>3, <1>8, <3>1
  <2>2. QED
    BY <2>1 DEF ReadingOpen, IsClose
<1>15. QED
  BY <1>10, <1>11, <1>12, <1>13, <1>14 DEF OnceInv

\* Every step keeps what is said once of a socket.
LEMMA OnceStep ==
    ASSUME "write_error" \notin Env
    PROVE  IInv /\ OnceInv /\ [Next]_vars => OnceInv'
<1> SUFFICES ASSUME IInv, OnceInv, [Next]_vars PROVE OnceInv'
  OBVIOUS
<1>1. CASE ~Makes /\ ~Deletes /\ ~MainClose
  <2>1. CASE \E s \in Sockets : ReadUp(s)
    BY <1>1, <2>1, OnceRead
  <2>2. CASE ~ \E s \in Sockets : ReadUp(s)
    BY <1>1, <2>2, NextReading, OnceKept
  <2>3. QED
    BY <2>1, <2>2
<1>2. QED
  BY <1>1, OnceMade, OnceDeleted, OncePassed

\* Nothing was said of any socket to begin with.
LEMMA OnceInit == Init => OnceInv
<1> SUFFICES ASSUME Init PROVE OnceInv
  OBVIOUS
<1>1. mainList = <<>> /\ \A t \in Threads : ioList[t] = <<>>
  BY DEF Init
<1>2. \A s \in Sockets : ~Closing(s) /\ ~sock[s].reading
  BY <1>1 DEF Init, Closing, Unused
<1>3. QED
  BY <1>1, <1>2 DEF OnceInv, MainLive, CloseLast, ClosingSilent, CloseOnce, ReadingOpen

\* As long as no write to a client fails, no package that a thread has yet to
\* take names a deleted socket (ServerIOSocket::eventCallback, which switches
\* the side off that reported its end, and ServerSocket::pairCallback).
THEOREM NoStaleSafe ==
    ASSUME "write_error" \notin Env
    PROVE  Spec => []NoStalePackage
<1>1. IInv /\ OnceInv => NoStalePackage
  <2> SUFFICES ASSUME IInv, OnceInv PROVE NoStalePackage
    OBVIOUS
  <2>1. MainLive /\ ClosingSilent /\ SendTargetsLive
    BY DEF OnceInv, IInv, IOInv
  <2>2. mainList \in Seq(MainPackage) /\ ioList \in [Threads -> Seq(IOPackage)]
    BY DEF IInv, TypeOK
  <2>3. ASSUME NEW p \in Packages(mainList) PROVE Live(p.socket)
    BY <2>1, <2>2 DEF Packages, MainLive
  <2>4. ASSUME NEW t \in Threads, NEW p \in Packages(ioList[t]), p.socket # 0
        PROVE  Live(p.socket)
    <3>1. ioList[t] \in Seq(IOPackage)
      BY <2>2
    <3>2. PICK i \in 1..Len(ioList[t]) : p = ioList[t][i]
      BY <3>1 DEF Packages
    <3>3. p \in IOPackage
      BY <3>1, <3>2
    <3>4. CASE p.cmd = "send_buf"
      BY <2>1, <3>2, <3>4 DEF SendTargetsLive
    <3>5. CASE p.cmd = "close"
      BY <2>1, <3>2, <3>3, <3>5 DEF ClosingSilent, Closing, IsClose, IOPackage
    <3>6. QED
      BY <2>4, <3>3, <3>4, <3>5 DEF IOPackage
  <2>5. ASSUME NEW p \in Packages(mainList) \cup UNION {Packages(ioList[t]) : t \in Threads},
               p.socket # 0
        PROVE  Live(p.socket)
    BY <2>3, <2>4, <2>5
  <2>6. QED
    BY <2>5 DEF NoStalePackage
<1>2. IInv /\ OnceInv /\ [Next]_vars => OnceInv'
  BY OnceStep
<1>3. QED
  BY <1>1, <1>2, OnceInit, Invariance, PTL DEF Spec

\* The comment on ServerSocket::asynClose holds as long as no write to a client
\* fails: a close finds its socket as it was.
THEOREM CloseFinds ==
    ASSUME "write_error" \notin Env
    PROVE  Spec => []CloseFindsSocket
<1>1. IInv /\ OnceInv => CloseFindsSocket
  <2> SUFFICES ASSUME IInv, OnceInv, mainList # <<>> PROVE Live(Head(mainList).socket)
    BY DEF CloseFindsSocket
  <2>1. mainList \in Seq(MainPackage)
    BY DEF IInv, TypeOK
  <2>2. Len(mainList) \in Nat \ {0} /\ Head(mainList) = mainList[1]
    BY <2>1, PopFact
  <2>3. 1 \in 1..Len(mainList)
    BY <2>2
  <2>4. QED
    BY <2>2, <2>3 DEF OnceInv, MainLive
<1>2. IInv /\ OnceInv /\ [Next]_vars => OnceInv'
  BY OnceStep
<1>3. QED
  BY <1>1, <1>2, OnceInit, Invariance, PTL DEF Spec

-----------------------------------------------------------------------------
(***************************************************************************)
(* The end of a connection.  Its close waits in main's list, then in that  *)
(* of an io thread, until the socket is deleted.                           *)
(***************************************************************************)
Ended(s) == Live(s) /\ (~sock[s].reading \/ sock[s].writing = "failed")
Noticed(s) == \E i \in 1..Len(mainList) : IsClose(mainList[i], s)

\* Writing a socket's buffer out, or adding to it, ends no connection.
LEMMA BufferEnds ==
    ASSUME NEW r \in SocketType
    PROVE  /\ consumeSendBuf(r).reading = r.reading
           /\ consumeSendBuf(r).writing = "failed" => r.writing = "failed"
           /\ \A q : /\ expandSendBuf(r, q).reading = r.reading
                     /\ expandSendBuf(r, q).writing = r.writing
BY DEF consumeSendBuf, expandSendBuf, toSend, SocketType

\* A connection ends only by an event, which tells main.
LEMMA EndsBegin ==
    ASSUME IInv, [Next]_vars, NEW s \in Sockets, Ended(s)'
    PROVE  Ended(s) \/ ToMain(OnSocket("close", s))
<1>1. TypeOK /\ sock \in [Sockets -> SocketType]
  BY DEF IInv, TypeOK
<1>2. ASSUME sock'[s] = sock[s] PROVE Ended(s)
  BY <1>2 DEF Ended, Live
<1>3. CASE UNCHANGED vars
  BY <1>2, <1>3 DEF vars, ioVars
<1>4. CASE AcceptConnection \/ AcceptRefused \/ AcceptFailed
  BY <1>2, <1>4 DEF AcceptConnection, AcceptRefused, AcceptFailed, ioVars
<1>5. CASE MainLoop
  BY <1>2, <1>5 DEF MainLoop, MainWake, MainAccept, MainRecvNoAgent, MainRecvHeartbeat,
                    MainRecvOther, MainRecvShort, MainClose, MainLeave, ioVars
<1>6. ASSUME NEW t \in Threads, IOLoop(t)
      PROVE  Ended(s)
  <2>1. CASE IOWake(t) \/ IOAcceptFailed(t)
    BY <1>2, <2>1 DEF IOWake, IOAcceptFailed
  <2>2. CASE IOAccept(t)
    <3>1. PICK n, f : sock' = [sock EXCEPT ![n] = Accepted(f, t)]
      BY <2>2 DEF IOAccept
    <3>2. Accepted(f, t).reading /\ Accepted(f, t).writing # "failed"
      BY DEF Accepted
    <3>3. sock'[s] = sock[s] \/ sock'[s] = Accepted(f, t)
      BY <1>1, <3>1
    <3>4. QED
      BY <1>2, <3>2, <3>3 DEF Ended
  <2>3. CASE IOSend(t)
    <3>1. IOTakes(t, "send_buf")
      BY <2>3 DEF IOSend
    <3>2. PICK r \in Sockets, q \in Requests :
              r = Head(ioList[t]).socket /\ q = Head(ioList[t]).req
      <4>1. /\ Head(ioList[t]).socket \in Sockets
            /\ Head(ioList[t]).req \in Requests
        BY <1>1, <3>1, IOTakesFact
      <4>2. QED
        BY <4>1
    <3>3. PICK x \in {sock[r], consumeSendBuf(sock[r])} :
              sock' = [sock EXCEPT ![r] = expandSendBuf(x, q)]
      BY <2>3, <3>2 DEF IOSend
    <3>4. x \in SocketType /\ SameObject(x, sock[r])
      BY <1>1, ConsumeFact DEF SameObject
    <3>5. SameObject(expandSendBuf(x, q), x)
      BY <3>4, ExpandFact
    <3>6. /\ expandSendBuf(x, q).reading = sock[r].reading
          /\ expandSendBuf(x, q).writing = "failed" => sock[r].writing = "failed"
      BY <1>1, <3>3, <3>4, BufferEnds
    <3>7. CASE s = r
      BY <1>1, <3>3, <3>4, <3>5, <3>6, <3>7 DEF Ended, Live, SameObject
    <3>8. CASE s # r
      BY <1>1, <1>2, <3>3, <3>8
    <3>9. QED
      BY <3>7, <3>8
  <2>4. CASE IOClose(t)
    <3>1. sock'[s] = sock[s] \/ sock'[s].mem # "live"
      BY <2>4, DeleteFacts
    <3>2. QED
      BY <1>2, <3>1 DEF Ended, Live
  <2>5. CASE IOFlush(t)
    <3>1. sock'[s] = sock[s] \/ sock'[s] = consumeSendBuf(sock[s])
      BY <2>5 DEF IOFlush
    <3>2. SameObject(consumeSendBuf(sock[s]), sock[s])
      BY <1>1, ConsumeFact
    <3>3. /\ consumeSendBuf(sock[s]).reading = sock[s].reading
          /\ consumeSendBuf(sock[s]).writing = "failed" => sock[s].writing = "failed"
      BY <1>1, BufferEnds
    <3>4. QED
      BY <1>2, <3>1, <3>2, <3>3 DEF Ended, Live, SameObject
  <2>6. QED
    BY <1>6, <2>1, <2>2, <2>3, <2>4, <2>5 DEF IOLoop
<1>7. ASSUME NEW r \in Sockets,
             Read(r) \/ ReadCloseFrame(r) \/ ReadEvent(r) \/ WriteEvent(r)
      PROVE  Ended(s) \/ ToMain(OnSocket("close", s))
  <2>1. CASE Read(r)
    BY <1>2, <2>1 DEF Read
  <2>2. CASE ReadCloseFrame(r)
    <3>1. sock' = [sock EXCEPT ![r] = [sock[r] EXCEPT !.status = "while_Close"]]
      BY <2>2 DEF ReadCloseFrame
    <3>2. \A x \in SocketType : LET y == [x EXCEPT !.status = "while_Close"]
                                IN  /\ y.mem = x.mem /\ y.reading = x.reading
                                    /\ y.writing = x.writing
      BY DEF SocketType
    <3>3. QED
      BY <1>1, <1>2, <3>1, <3>2 DEF Ended, Live
  <2>3. CASE ReadEvent(r)
    BY <1>1, <1>2, <2>3 DEF ReadEvent
  <2>4. CASE WriteEvent(r)
    BY <1>1, <1>2, <2>4 DEF WriteEvent
  <2>5. QED
    BY <1>7, <2>1, <2>2, <2>3, <2>4
<1>8. QED
  BY <1>3, <1>4, <1>5, <1>6, <1>7 DEF Next

\* A close at the head of main's list is only taken by MainClose.
LEMMA OnlyCloseTakes ==
    ASSUME IInv, [Next]_vars, Head(mainList).cmd = "close", mainList' # mainList,
           \A p \in MainPackage : ~ToMain(p)
    PROVE  MainClose
<1>1. ~\E n \in Sockets : ToMain(OnSocket("accept", n)) \/ ToMain(OnSocket("close", n))
  BY DEF OnSocket, Package, MainPackage
<1>2. ASSUME NEW s \in Sockets,
             Read(s) \/ ReadCloseFrame(s) \/ ReadEvent(s) \/ WriteEvent(s)
      PROVE  FALSE
  <2>1. ~ReadEvent(s) /\ ~WriteEvent(s) /\ ~ReadCloseFrame(s)
    BY <1>1 DEF ReadEvent, WriteEvent, ReadCloseFrame
  <2>2. CASE Read(s)
    <3>1. sent' = [sent EXCEPT ![s] = sent[s] + 1] /\ sent[s] < MaxReq
      BY <2>2 DEF Read
    <3>2. sent'[s] \in Requests
      BY <3>1, ServerConnAssumption, SMTT(30) DEF IInv, TypeOK, Requests
    <3>3. PICK q \in Requests : q = sent'[s]
      BY <3>2
    <3>4. \A k \in Kinds : Package("recv_buf", 0, s, q, k) \in MainPackage
      BY DEF Kinds, Package, MainPackage
    <3>5. \E k \in Kinds : ToMain(Package("recv_buf", 0, s, q, k))
      BY <2>2, <3>3 DEF Read
    <3>6. QED
      BY <3>4, <3>5
  <2>3. QED
    BY <1>2, <2>1, <2>2
<1>3. ASSUME NEW t \in Threads, IOLoop(t) PROVE FALSE
  <2>1. ~IOAccept(t)
    BY <1>1, MakeFacts
  <2>2. QED
    BY <1>3, <2>1 DEF IOLoop, IOWake, IOAcceptFailed, IOSend, IOClose, IOFlush, mainVars
<1>4. ~(AcceptConnection \/ AcceptRefused \/ AcceptFailed) /\ ~UNCHANGED vars
  BY DEF AcceptConnection, AcceptRefused, AcceptFailed, mainVars, vars
<1>5. MainLoop
  BY <1>2, <1>3, <1>4 DEF Next
<1>6. QED
  BY <1>5 DEF MainLoop, MainWake, MainAccept, MainRecvNoAgent, MainRecvHeartbeat,
              MainRecvOther, MainRecvShort, MainLeave, MainTakes

\* MainClose passes it on to the thread of the socket.
LEMMA NoticeKept ==
    ASSUME IInv, [Next]_vars, NEW s \in Sockets, Live(s), Noticed(s)
    PROVE  Noticed(s)' \/ Closing(s)'
<1>1. TypeOK /\ SocketsMade
  BY DEF IInv
<1>2. PICK i \in 1..Len(mainList) : IsClose(mainList[i], s)
  BY DEF Noticed
<1>3. CASE Kept
  BY <1>2, <1>3 DEF Kept, Noticed, IsClose
<1>4. ASSUME NEW p \in MainPackage, ToMain(p) PROVE Noticed(s)'
  <2>1. mainList \in Seq(MainPackage) /\ mainList' = Append(mainList, p)
    BY <1>1, <1>4 DEF TypeOK, ToMain
  <2>2. i \in 1..Len(mainList') /\ mainList'[i] = mainList[i]
    BY <2>1, PushFact
  <2>3. QED
    BY <1>2, <2>2 DEF Noticed, IsClose
<1>5. CASE Popped
  <2>1. CASE i # 1
    <3>1. mainList \in Seq(MainPackage) /\ mainList' = Tail(mainList) /\ mainList # <<>>
      BY <1>1, <1>5 DEF TypeOK, Popped
    <3>2. i - 1 \in 1..Len(mainList') /\ mainList'[i - 1] = mainList[i]
      BY <2>1, <3>1, PopFact
    <3>3. QED
      BY <1>2, <3>2 DEF Noticed, IsClose
  <2>2. CASE i = 1
    <3>1. Head(mainList).cmd = "close" /\ Head(mainList).socket = s
      BY <1>1, <1>2, <1>5, <2>2, PoppedEntries DEF IsClose
    <3>2. MainClose
      <4>1. mainList' # mainList /\ \A p \in MainPackage : ~ToMain(p)
        <5>1. mainList \in Seq(MainPackage)
          BY <1>1 DEF TypeOK
        <5>2. Len(mainList) \in Nat /\ Len(mainList') = Len(mainList) - 1
          BY <1>1, <1>5, PoppedEntries
        <5>3. \A p \in MainPackage : Len(Append(mainList, p)) = Len(mainList) + 1
          BY <5>1, PushFact
        <5>4. QED
          BY <5>2, <5>3 DEF ToMain
      <4>2. QED
        BY <1>1, <3>1, <4>1, OnlyCloseTakes
    <3>3. sock[s].thread \in Threads
      BY <1>1 DEF SocketsMade
    <3>4. PICK t \in Threads : t = sock[s].thread
      BY <3>3
    <3>5. ToIO(t, OnSocket("close", s))
      BY <3>1, <3>2, <3>4 DEF MainClose
    <3>6. OnSocket("close", s) \in IOPackage /\ IsClose(OnSocket("close", s), s)
      BY DEF OnSocket, Package, IOPackage, IsClose
    <3>7. PICK p \in IOPackage : p = OnSocket("close", s)
      BY <3>6
    <3>8. ioList[t] \in Seq(IOPackage) /\ ioList'[t] = Append(ioList[t], p)
      BY <1>1, <3>5, <3>7 DEF TypeOK, ToIO
    <3>9. Len(ioList[t]) + 1 \in 1..Len(ioList'[t]) /\ ioList'[t][Len(ioList[t]) + 1] = p
      BY <3>8, PushFact
    <3>10. QED
      BY <3>6, <3>7, <3>9 DEF Closing, IsClose
  <2>3. QED
    BY <2>1, <2>2
<1>6. CASE Announces
  <2>1. PICK n \in Sockets : ToMain(OnSocket("accept", n))
    BY <1>6 DEF Announces
  <2>2. OnSocket("accept", n) \in MainPackage
    BY DEF OnSocket, Package, MainPackage
  <2>3. QED
    BY <1>4, <2>1, <2>2
<1>7. ASSUME NEW r \in Sockets, HandsUp(r) \/ Reports(r) PROVE Noticed(s)'
  <2>1. OnSocket("close", r) \in MainPackage
    BY DEF OnSocket, Package, MainPackage
  <2>2. \A k \in Kinds, q \in Requests : Package("recv_buf", 0, r, q, k) \in MainPackage
    BY DEF Kinds, Package, MainPackage
  <2>3. QED
    BY <1>4, <1>7, <2>1, <2>2 DEF HandsUp, Reports
<1>8. QED
  BY <1>3, <1>5, <1>6, <1>7, NextMain

\* An io thread that takes a close deletes its socket.
LEMMA ClosingKept ==
    ASSUME IInv, [Next]_vars, NEW s \in Sockets, Live(s)', Closing(s)
    PROVE  Closing(s)'
<1>1. TypeOK /\ sock \in [Sockets -> SocketType]
  BY DEF IInv, TypeOK
<1>2. PICK t \in Threads : \E i \in 1..Len(ioList[t]) : IsClose(ioList[t][i], s)
  BY DEF Closing
<1>3. PICK i \in 1..Len(ioList[t]) : IsClose(ioList[t][i], s)
  BY <1>2
<1>4. CASE IOClose(t) /\ i = 1
  <2>1. Head(ioList[t]) = ioList[t][1]
    BY <1>1, <1>4, TakenEntries DEF IOClose
  <2>2. Head(ioList[t]).socket = s
    BY <1>3, <1>4, <2>1 DEF IsClose
  <2>3. CASE sock[s].mem = "live"
    <3>1. sock' = [sock EXCEPT ![s] = Released(sock[s])]
      BY <1>4, <2>2, <2>3 DEF IOClose
    <3>2. QED
      BY <1>1, <3>1 DEF Live, Released
  <2>4. CASE sock[s].mem # "live"
    BY <1>4, <2>2, <2>4 DEF IOClose, Live
  <2>5. QED
    BY <2>3, <2>4
<1>5. CASE ~(IOClose(t) /\ i = 1)
  <2>1. PICK j \in 1..Len(ioList'[t]) : ioList'[t][j] = ioList[t][i]
    BY <1>3, <1>5, ClosesKept DEF IsClose
  <2>2. QED
    BY <1>3, <2>1 DEF Closing, IsClose
<1>6. QED
  BY <1>4, <1>5

\* No end of a connection is forgotten between the event that reports it and
\* the deletion of the socket, whatever fails.
THEOREM ClosesSafe == Spec => []ClosesUnderway
<1>1. Init => ClosesUnderway
  BY DEF Init, ClosesUnderway, Live, Unused
<1>2. IInv /\ ClosesUnderway /\ [Next]_vars => ClosesUnderway'
  <2> SUFFICES ASSUME IInv, ClosesUnderway, [Next]_vars, NEW s \in Sockets, Ended(s)'
               PROVE  Closing(s)' \/ Noticed(s)'
    BY DEF ClosesUnderway, Ended, Noticed
  <2>1. TypeOK /\ Live(s)'
    BY DEF IInv, Ended
  <2>2. CASE Ended(s)
    <3>1. Live(s) /\ (Closing(s) \/ Noticed(s))
      BY <2>2 DEF ClosesUnderway, Ended, Noticed
    <3>2. QED
      BY <2>1, <3>1, NoticeKept, ClosingKept
  <2>3. CASE ToMain(OnSocket("close", s))
    <3>1. OnSocket("close", s) \in MainPackage /\ IsClose(OnSocket("close", s), s)
      BY DEF OnSocket, Package, MainPackage, IsClose
    <3>2. PICK p \in MainPackage : p = OnSocket("close", s)
      BY <3>1
    <3>3. mainList \in Seq(MainPackage) /\ mainList' = Append(mainList, p)
      BY <2>1, <2>3, <3>2 DEF TypeOK, ToMain
    <3>4. /\ Len(mainList) + 1 \in 1..Len(mainList')
          /\ mainList'[Len(mainList) + 1] = p
      BY <3>3, PushFact
    <3>5. QED
      BY <3>1, <3>2, <3>4 DEF Noticed, IsClose
  <2>4. QED
    BY <2>2, <2>3, EndsBegin
<1>3. QED
  BY <1>1, <1>2, Invariance, PTL DEF Spec

-----------------------------------------------------------------------------
(***************************************************************************)
(* The counts.  They are exact as long as no write fails and no accept     *)
(* does: every socket has an agent of its own from its accept to its close *)
(* and is closed once.  A failed accept shares the invalid descriptor, so  *)
(* that the second of two gets no agent and its close is still counted.    *)
(***************************************************************************)
NoBadFd ==
    /\ \A t \in Threads : \A i \in 1..Len(ioList[t]) :
           ioList[t][i].cmd = "accept" => ioList[t][i].fd # BadFd
    /\ \A s \in Sockets : sock[s].fd # BadFd

Announced(s) ==
    \E i \in 1..Len(mainList) : mainList[i].cmd = "accept" /\ mainList[i].socket = s

\* Main knows every socket that is not to be deleted.
Known ==
    \A s \in Sockets : Live(s) /\ ~Closing(s) /\ ~crashed =>
        Announced(s) \/ (HasAgent(s) /\ Agent(s) = s)

CountInv == NoBadFd /\ Known /\ IsFiniteSet(DOMAIN mapAgents) /\ CountsExact

AllInv == FdInv /\ SessionInv /\ OnceInv /\ CountInv

\* An accepted socket has no agent yet.
LEMMA AcceptUnknown ==
    ASSUME AllInv, NEW s \in Sockets, NEW i \in 1..Len(mainList),
           mainList[i].cmd = "accept", mainList[i].socket = s
    PROVE  ~HasAgent(s)
<1>1. /\ AgentsLive /\ AcceptFirst /\ FdsOwned /\ AgentsOpen /\ AcceptsNew /\ NoBadFd
      /\ TypeOK
  BY DEF AllInv, FdInv, Owners, IInv, MainInv, SessionInv, CountInv
<1>2. Live(s) /\ sock[s].fd # BadFd
  BY <1>1 DEF AcceptFirst, Intact, NoBadFd
<1>3. ASSUME HasAgent(s) PROVE FALSE
  <2>1. PICK r \in Sockets : r = Agent(s)
    BY <1>1, <1>3, AgentType
  <2>2. Live(r) /\ sock[r].fd = sock[s].fd
    BY <1>1, <1>3, <2>1 DEF AgentsLive, HasAgent, Agent
  <2>3. r = s
    BY <1>1, <1>2, <2>2 DEF FdsOwned
  <2>4. session[s] = "open" /\ session[s] = "none"
    BY <1>1, <1>3, <2>1, <2>3 DEF AgentsOpen, AcceptsNew, HasAgent, Agent
  <2>5. QED
    BY <2>4
<1>4. QED
  BY <1>3

\* A socket that is closed has its agent.
LEMMA CloseKnown ==
    ASSUME AllInv, ~crashed, NEW s \in Sockets, 1 \in 1..Len(mainList),
           IsClose(mainList[1], s)
    PROVE  HasAgent(s) /\ Agent(s) = s
<1>1. AcceptFirst /\ MainLive /\ ClosingSilent /\ Known /\ TypeOK
  BY DEF AllInv, FdInv, IInv, MainInv, OnceInv, CountInv
<1>2. Live(s) /\ ~Closing(s)
  BY <1>1 DEF MainLive, ClosingSilent, IsClose
<1>3. ASSUME NEW i \in 1..Len(mainList), mainList[i].cmd = "accept",
             mainList[i].socket = s
      PROVE  FALSE
  <2>1. i # 1 /\ i >= 1
    BY <1>3 DEF IsClose
  <2>2. 1 \in 1..(i - 1)
    BY <2>1
  <2>3. QED
    BY <1>1, <1>3, <2>2 DEF AcceptFirst, IsClose
<1>4. QED
  BY <1>1, <1>2, <1>3 DEF Known, Announced

-----------------------------------------------------------------------------
\* What a step does to the agents and the counts.
AddsAgent ==
    \E s \in Sockets :
        /\ 1 \in 1..Len(mainList) /\ Popped
        /\ mainList[1].cmd = "accept" /\ mainList[1].socket = s
        /\ sock' = sock
        /\ DOMAIN mapAgents' = DOMAIN mapAgents \cup {sock[s].fd}
        /\ mapAgents'[sock[s].fd] = s
        /\ \A f \in DOMAIN mapAgents : f # sock[s].fd => mapAgents'[f] = mapAgents[f]
        /\ nNowSocketCount' = nNowSocketCount + 1
        /\ nSocketCount' = nSocketCount + 1

DropsAgent ==
    \E a \in Sockets :
        /\ HasAgent(a) /\ Agent(a) = a
        /\ sock' = sock
        /\ DOMAIN mapAgents' = DOMAIN mapAgents \ {sock[a].fd}
        /\ \A f \in DOMAIN mapAgents' : mapAgents'[f] = mapAgents[f]
        /\ nNowSocketCount' = nNowSocketCount - 1
        /\ nSocketCount' = nSocketCount - 1
        /\ \/ crashed'
           \/ /\ 1 \in 1..Len(mainList) /\ Popped
              /\ mainList[1].cmd = "close" /\ mainList[1].socket = a /\ Closing(a)'

\* Every accept that main has yet to take is still there.
AcceptsStay ==
    \A i \in 1..Len(mainList) : mainList[i].cmd = "accept" =>
        \E j \in 1..Len(mainList') : mainList'[j] = mainList[i]

\* A package for main stays in its list until main takes it.
LEMMA EntriesStay ==
    ASSUME TypeOK, Kept \/ Popped \/ \E p \in MainPackage : ToMain(p),
           NEW i \in 1..Len(mainList), ~(Popped /\ i = 1)
    PROVE  \E j \in 1..Len(mainList') : mainList'[j] = mainList[i]
<1>1. mainList \in Seq(MainPackage) /\ i \in Nat /\ i >= 1
  BY DEF TypeOK
<1>2. CASE Kept
  BY <1>2 DEF Kept
<1>3. CASE Popped
  <2>1. /\ mainList' = Tail(mainList) /\ Len(mainList) \in Nat \ {0}
        /\ Len(Tail(mainList)) = Len(mainList) - 1
        /\ \A k \in 1..(Len(mainList) - 1) : Tail(mainList)[k] = mainList[k + 1]
    BY <1>1, <1>3, PopFact DEF Popped
  <2>2. i - 1 \in 1..Len(mainList') /\ (i - 1) + 1 = i
    BY <1>1, <1>3, <2>1
  <2>3. QED
    BY <2>1, <2>2
<1>4. ASSUME NEW p \in MainPackage, ToMain(p)
      PROVE  \E j \in 1..Len(mainList') : mainList'[j] = mainList[i]
  <2>1. /\ Len(mainList) \in Nat /\ Len(Append(mainList, p)) = Len(mainList) + 1
        /\ \A k \in 1..Len(mainList) : Append(mainList, p)[k] = mainList[k]
    BY <1>1, PushFact
  <2>2. i \in 1..Len(mainList')
    BY <1>4, <2>1 DEF ToMain
  <2>3. QED
    BY <1>4, <2>1, <2>2 DEF ToMain
<1>5. QED
  BY <1>2, <1>3, <1>4

\* Main takes a package that is no accept: those stay.
LEMMA TakesOther ==
    ASSUME TypeOK, NEW c, MainTakes(c), c # "accept"
    PROVE  AcceptsStay
<1>1. Popped /\ Head(mainList) = mainList[1] /\ mainList[1].cmd = c
  <2>1. Popped /\ Head(mainList).cmd = c
    BY DEF MainTakes, Popped
  <2>2. Head(mainList) = mainList[1]
    BY <2>1, PoppedEntries
  <2>3. QED
    BY <2>1, <2>2
<1>2. QED
  BY <1>1, EntriesStay DEF AcceptsStay

\* What a step does to agents and counts.
LEMMA NextAgents ==
    ASSUME AllInv, [Next]_vars
    PROVE  \/ AddsAgent \/ DropsAgent
           \/ UNCHANGED <<mapAgents, nNowSocketCount, nSocketCount>> /\ AcceptsStay
<1>1. /\ FdInv /\ IInv /\ TypeOK /\ OnceInv /\ MainLive
      /\ mapAgents \in [DOMAIN mapAgents -> Sockets]
  BY DEF AllInv, FdInv, IInv, TypeOK, OnceInv
<1>2. ASSUME Kept \/ \E p \in MainPackage : ToMain(p)
      PROVE  AcceptsStay
  <2>1. ~Popped
    <3>1. ASSUME Popped PROVE FALSE
      <4>1. Len(mainList) \in Nat \ {0} /\ Len(mainList') = Len(mainList) - 1
        BY <1>1, <3>1, PoppedEntries
      <4>2. Len(mainList') >= Len(mainList)
        <5>1. CASE Kept
          BY <4>1, <5>1 DEF Kept
        <5>2. CASE \E p \in MainPackage : ToMain(p)
          BY <1>1, <4>1, <5>2, PushedEntries
        <5>3. QED
          BY <1>2, <5>1, <5>2
      <4>3. QED
        BY <4>1, <4>2
    <3>2. QED
      BY <3>1
  <2>2. QED
    BY <1>1, <1>2, <2>1, EntriesStay DEF AcceptsStay
<1>3. CASE UNCHANGED vars
  BY <1>2, <1>3 DEF vars, mainVars, Kept
<1>4. CASE AcceptConnection \/ AcceptRefused \/ AcceptFailed
  BY <1>2, <1>4 DEF AcceptConnection, AcceptRefused, AcceptFailed, mainVars, Kept
<1>5. CASE MainAccept
  <2>1. MainTakes("accept") /\ UNCHANGED <<ioVars, asked, crashed>>
    BY <1>5 DEF MainAccept
  <2>2. Popped
    BY <2>1 DEF MainTakes, Popped
  <2>3. 1 \in 1..Len(mainList) /\ Head(mainList) = mainList[1]
    BY <1>1, <2>2, PoppedEntries
  <2>4. PICK s \in Sockets : s = Head(mainList).socket
    BY <1>1, <2>1, MainTakesFact
  <2>5. mainList[1].cmd = "accept" /\ mainList[1].socket = s
    BY <2>1, <2>3, <2>4 DEF MainTakes
  <2>6. ~HasAgent(s)
    BY <2>3, <2>5, AcceptUnknown
  <2>7. /\ mapAgents' = [f \in DOMAIN mapAgents \cup {sock[s].fd} |->
                             IF f = sock[s].fd THEN s ELSE mapAgents[f]]
        /\ nNowSocketCount' = nNowSocketCount + 1
        /\ nSocketCount' = nSocketCount + 1
    BY <1>5, <2>4, <2>6 DEF MainAccept
  <2>8. /\ DOMAIN mapAgents' = DOMAIN mapAgents \cup {sock[s].fd}
        /\ mapAgents'[sock[s].fd] = s
        /\ \A f \in DOMAIN mapAgents : f # sock[s].fd => mapAgents'[f] = mapAgents[f]
    BY <2>7
  <2>9. sock' = sock
    BY <2>1 DEF ioVars
  <2>10. QED
    BY <2>2, <2>3, <2>5, <2>7, <2>8, <2>9 DEF AddsAgent
<1>6. ASSUME NEW a \in Sockets, ForgetAgent(a)
      PROVE  /\ DOMAIN mapAgents' = DOMAIN mapAgents \ {sock[a].fd}
             /\ \A f \in DOMAIN mapAgents' : mapAgents'[f] = mapAgents[f]
             /\ nSocketCount' = nSocketCount - 1
  BY <1>6 DEF ForgetAgent
<1>7. CASE MainRecvShort
  <2>1. MainTakes("recv_buf") /\ UNCHANGED <<asked, ioVars>> /\ crashed'
          /\ nNowSocketCount' = nNowSocketCount - 1
    BY <1>7 DEF MainRecvShort
  <2>2. PICK s \in Sockets : s = Head(mainList).socket
    BY <1>1, <2>1, MainTakesFact
  <2>3. HasAgent(s) /\ ForgetAgent(Agent(s))
    BY <1>7, <2>2 DEF MainRecvShort
  <2>4. PICK a \in Sockets : a = Agent(s)
    BY <1>1, <2>3, AgentType
  <2>5. HasAgent(a) /\ Agent(a) = a
    BY <1>1, <2>3, <2>4 DEF IInv, AgentsLive, HasAgent, Agent
  <2>6. QED
    BY <1>6, <2>1, <2>3, <2>4, <2>5 DEF DropsAgent, ioVars
<1>8. CASE MainClose
  <2>1. PICK s \in Sockets :
            /\ 1 \in 1..Len(mainList) /\ IsClose(mainList[1], s) /\ Popped
            /\ Live(s) /\ sock' = sock /\ ~crashed
            /\ sock[s].thread \in Threads
            /\ ToIO(sock[s].thread, OnSocket("close", s))
            /\ nNowSocketCount' = nNowSocketCount - 1
            /\ HasAgent(s) => ForgetAgent(Agent(s))
    BY <1>1, <1>8, PassesOn
  <2>2. HasAgent(s) /\ Agent(s) = s
    BY <2>1, CloseKnown
  <2>3. PICK u \in Threads : u = sock[s].thread
    BY <2>1
  <2>4. PICK p \in IOPackage : p = OnSocket("close", s) /\ IsClose(p, s)
    BY OnSocketFact DEF OnSocket, Package, IsClose
  <2>5. Closing(s)'
    <3>1. ioList[u] \in Seq(IOPackage) /\ ioList'[u] = Append(ioList[u], p)
      BY <1>1, <2>1, <2>3, <2>4 DEF TypeOK, ToIO
    <3>2. /\ Len(ioList[u]) \in Nat /\ Len(ioList'[u]) = Len(ioList[u]) + 1
          /\ ioList'[u][Len(ioList[u]) + 1] = p
      BY <3>1, PushFact
    <3>3. PICK k \in 1..Len(ioList'[u]) : ioList'[u][k] = p
      BY <3>2
    <3>4. QED
      BY <2>4, <3>3 DEF Closing, IsClose
  <2>6. QED
    BY <1>6, <2>1, <2>2, <2>5 DEF DropsAgent, IsClose
<1>9. CASE MainLoop /\ ~MainAccept /\ ~MainRecvShort /\ ~MainClose
  <2>1. UNCHANGED <<mapAgents, nNowSocketCount, nSocketCount>>
    BY <1>9 DEF MainLoop, MainWake, MainRecvNoAgent, MainRecvHeartbeat,
                MainRecvOther, MainLeave
  <2>2. AcceptsStay
    <3>1. CASE MainWake \/ MainLeave
      BY <1>2, <3>1 DEF MainWake, MainLeave, Kept
    <3>2. CASE ~MainWake /\ ~MainLeave
      <4>1. MainTakes("recv_buf")
        BY <1>9, <3>2 DEF MainLoop, MainRecvNoAgent, MainRecvHeartbeat, MainRecvOther
      <4>2. QED
        BY <1>1, <4>1, TakesOther
    <3>3. QED
      BY <3>1, <3>2
  <2>3. QED
    BY <2>1, <2>2
<1>10. ASSUME NEW t \in Threads, IOLoop(t)
       PROVE  UNCHANGED <<mapAgents, nNowSocketCount, nSocketCount>> /\ AcceptsStay
  <2>1. UNCHANGED <<mapAgents, nNowSocketCount, nSocketCount>>
    BY <1>10 DEF IOLoop, IOWake, IOAccept, IOAcceptFailed, IOSend, IOClose, IOFlush,
                 IOTakes, mainVars
  <2>2. CASE IOAccept(t)
    <3>1. PICK n \in Sockets : ToMain(OnSocket("accept", n))
      BY <1>1, <2>2, MakeFacts
    <3>2. QED
      BY <1>2, <2>1, <3>1, UpSockets
  <2>3. CASE ~IOAccept(t)
    <3>1. Kept
      BY <1>10, <2>3 DEF IOLoop, IOWake, IOAcceptFailed, IOSend, IOClose, IOFlush,
                         IOTakes, mainVars, Kept
    <3>2. QED
      BY <1>2, <2>1, <3>1
  <2>4. QED
    BY <2>2, <2>3
<1>11. ASSUME NEW s \in Sockets,
              Read(s) \/ ReadCloseFrame(s) \/ ReadEvent(s) \/ WriteEvent(s)
       PROVE  UNCHANGED <<mapAgents, nNowSocketCount, nSocketCount>> /\ AcceptsStay
  <2>1. UNCHANGED <<mapAgents, nNowSocketCount, nSocketCount>>
    BY <1>11 DEF Read, ReadCloseFrame, ReadEvent, WriteEvent, Unaffected
  <2>2. Kept \/ \E p \in MainPackage : ToMain(p)
    <3>1. CASE Read(s)
      <4>1. /\ sent' = [sent EXCEPT ![s] = sent[s] + 1] /\ sent[s] < MaxReq
            /\ \/ mainList' = mainList
               \/ \E k \in Kinds : ToMain(Package("recv_buf", 0, s, sent'[s], k))
        BY <3>1 DEF Read
      <4>2. sent'[s] \in Requests
        BY <1>1, <4>1, ServerConnAssumption, SMTT(30) DEF TypeOK, Requests
      <4>3. QED
        BY <4>1, <4>2, UpRequest DEF Kept
    <3>2. CASE ReadCloseFrame(s)
      BY <3>2 DEF ReadCloseFrame, Kept
    <3>3. CASE ReadEvent(s) \/ WriteEvent(s)
      BY <3>3, UpSockets DEF ReadEvent, WriteEvent
    <3>4. QED
      BY <1>11, <3>1, <3>2, <3>3
  <2>3. QED
    BY <1>2, <2>1, <2>2
<1>12. QED
  BY <1>3, <1>4, <1>5, <1>7, <1>8, <1>9, <1>10, <1>11 DEF Next

-----------------------------------------------------------------------------
\* The invalid descriptor comes from a failed accept only.
LEMMA ValidStep ==
    ASSUME IInv, NoBadFd, [Next]_vars, "accept_fail" \notin Env
    PROVE  NoBadFd'
<1>1. TypeOK
  BY DEF IInv
<1>2. ASSUME NEW t \in Threads, NEW i \in 1..Len(ioList'[t]),
             ioList'[t][i].cmd = "accept"
      PROVE  ioList'[t][i].fd # BadFd
  <2>1. CASE \E k \in 1..Len(ioList[t]) : ioList'[t][i] = ioList[t][k]
    BY <1>2, <2>1 DEF NoBadFd
  <2>2. CASE ioList'[t] = ioList[t]
    BY <2>1, <2>2
  <2>3. ASSUME NEW c, IOTakes(t, c) PROVE ioList'[t][i].fd # BadFd
    <3>1. i + 1 \in 1..Len(ioList[t]) /\ ioList'[t][i] = ioList[t][i + 1]
      BY <1>1, <2>3, TakenEntries
    <3>2. QED
      BY <2>1, <3>1
  <2>4. ASSUME NEW p \in IOPackage, ioList'[t] = Append(ioList[t], p),
               p.cmd = "accept" /\ p.fd = BadFd => AcceptFailed
        PROVE  ioList'[t][i].fd # BadFd
    <3>1. p.cmd = "accept" => p.fd # BadFd
      BY <2>4 DEF AcceptFailed
    <3>2. ioList'[t][i] = p \/ \E k \in 1..Len(ioList[t]) : ioList'[t][i] = ioList[t][k]
      BY <1>1, <2>4, PushedMail
    <3>3. QED
      BY <1>2, <2>1, <3>1, <3>2
  <2>5. QED
    BY <2>2, <2>3, <2>4, NextLists DEF IOAccept, IOAcceptFailed, IOSend, IOClose
<1>3. ASSUME NEW s \in Sockets PROVE sock'[s].fd # BadFd
  <2>1. sock[s].fd # BadFd
    BY DEF NoBadFd
  <2>2. CASE Makes
    <3>1. PICK t \in Threads : IOAccept(t)
      BY <2>2 DEF Makes
    <3>2. PICK n \in Sockets, f \in Fds \cup {BadFd} :
              /\ sock'[n].fd = f /\ \A r \in Sockets : r # n => sock'[r] = sock[r]
              /\ 1 \in 1..Len(ioList[t])
              /\ ioList[t][1].cmd = "accept" /\ ioList[t][1].fd = f
      BY <3>1, MakeFacts
    <3>3. f # BadFd
      BY <3>2 DEF NoBadFd
    <3>4. QED
      BY <2>1, <3>2, <3>3
  <2>3. CASE Deletes
    <3>1. sock'[s] = sock[s] \/ sock'[s].fd = 0
      BY <2>3, DeleteFacts DEF Deletes
    <3>2. QED
      BY <2>1, <3>1 DEF BadFd
  <2>4. CASE ~Makes /\ ~Deletes
    BY <1>1, <2>1, <2>4, OthersKeep DEF SameObjects, SameObject
  <2>5. QED
    BY <2>2, <2>3, <2>4
<1>4. QED
  BY <1>2, <1>3 DEF NoBadFd

\* A crashed process stays as it is.
LEMMA CrashStays == [Next]_vars /\ crashed => crashed'
<1> SUFFICES ASSUME [Next]_vars, crashed PROVE crashed'
  OBVIOUS
<1>1. ~Next
  BY DEF Next, AcceptConnection, AcceptRefused, AcceptFailed, AcceptReady, MainLoop,
         MainWake, MainAccept, MainRecvNoAgent, MainRecvHeartbeat, MainRecvOther,
         MainRecvShort, MainClose, MainLeave, MainTakes, IOLoop, IOWake, IOAccept,
         IOAcceptFailed, IOSend, IOClose, IOFlush, IOTakes, Read, ReadCloseFrame,
         ReadEvent, WriteEvent, Served
<1>2. QED
  BY <1>1 DEF vars

\* A socket that is there after the step, and is not to be deleted, was so
\* before, unless the step made it.
LEMMA StillOpen ==
    ASSUME IInv, [Next]_vars, NEW s \in Sockets, Live(s)', ~Closing(s)'
    PROVE  \/ Live(s) /\ ~Closing(s) /\ sock'[s].fd = sock[s].fd
           \/ \E t \in Threads : IOAccept(t) /\ ToMain(OnSocket("accept", s))
<1>1. TypeOK
  BY DEF IInv
<1>2. ASSUME Closing(s) PROVE FALSE
  <2>1. PICK t \in Threads : \E k \in 1..Len(ioList[t]) : IsClose(ioList[t][k], s)
    BY <1>2 DEF Closing
  <2>2. PICK i \in 1..Len(ioList[t]) : IsClose(ioList[t][i], s)
    BY <2>1
  <2>3. CASE IOClose(t) /\ i = 1
    <3>1. IOTakes(t, "close")
      BY <2>3 DEF IOClose
    <3>2. Head(ioList[t]) = ioList[t][1]
      BY <1>1, <3>1, TakenEntries
    <3>3. Head(ioList[t]).socket = s
      BY <2>2, <2>3, <3>2 DEF IsClose
    <3>4. (sock' = sock /\ ~Live(s)) \/ sock' = [sock EXCEPT ![s] = Released(@)]
      BY <2>3, <3>3 DEF IOClose, Live
    <3>5. QED
      BY <1>1, <3>4 DEF TypeOK, Live, Released
  <2>4. CASE ~(IOClose(t) /\ i = 1)
    <3>1. \E j \in 1..Len(ioList'[t]) : ioList'[t][j] = ioList[t][i]
      BY <2>2, <2>4, ClosesKept DEF IsClose
    <3>2. Closing(s)'
      BY <2>2, <3>1 DEF Closing, IsClose
    <3>3. QED
      BY <3>2
  <2>5. QED
    BY <2>3, <2>4
<1>3. CASE Makes
  <2>1. PICK t \in Threads : IOAccept(t)
    BY <1>3 DEF Makes
  <2>2. PICK n \in Sockets :
            /\ ToMain(OnSocket("accept", n))
            /\ \A r \in Sockets : r # n => sock'[r] = sock[r]
    BY <2>1, MakeFacts
  <2>3. QED
    BY <1>2, <2>1, <2>2 DEF Live
<1>4. CASE Deletes
  <2>1. PICK t \in Threads : IOClose(t)
    BY <1>4 DEF Deletes
  <2>2. sock'[s] = sock[s] \/ sock'[s].mem # "live"
    BY <2>1, DeleteFacts
  <2>3. QED
    BY <1>2, <2>2 DEF Live
<1>5. CASE ~Makes /\ ~Deletes
  BY <1>1, <1>2, <1>5, OthersKeep DEF SameObjects, SameObject, Live
<1>6. QED
  BY <1>3, <1>4, <1>5

\* Every step leaves main knowing of every socket.
LEMMA KnownStep ==
    ASSUME AllInv, [Next]_vars
    PROVE  Known'
<1>1. /\ IInv /\ TypeOK /\ AgentsLive /\ Known
      /\ mapAgents \in [DOMAIN mapAgents -> Sockets]
  BY DEF AllInv, FdInv, IInv, TypeOK, CountInv
<1>2. SUFFICES ASSUME NEW s \in Sockets, Live(s)', ~Closing(s)', ~crashed'
               PROVE  \/ \E j \in 1..Len(mainList') : /\ mainList'[j].cmd = "accept"
                                                      /\ mainList'[j].socket = s
                      \/ /\ sock'[s].fd \in DOMAIN mapAgents'
                         /\ mapAgents'[sock'[s].fd] = s
  BY DEF Known, Announced, HasAgent, Agent
<1>3. CASE \E t \in Threads : IOAccept(t) /\ ToMain(OnSocket("accept", s))
  <2>1. PICK p \in MainPackage : ToMain(p) /\ p.cmd = "accept" /\ p.socket = s
    BY <1>3, UpSockets
  <2>2. mainList \in Seq(MainPackage) /\ mainList' = Append(mainList, p)
    BY <1>1, <2>1 DEF TypeOK, ToMain
  <2>3. /\ Len(mainList) \in Nat /\ Len(mainList') = Len(mainList) + 1
        /\ mainList'[Len(mainList) + 1] = p
    BY <2>2, PushFact
  <2>4. Len(mainList) + 1 \in 1..Len(mainList')
    BY <2>3
  <2>5. QED
    BY <2>1, <2>3, <2>4
<1>4. CASE Live(s) /\ ~Closing(s) /\ sock'[s].fd = sock[s].fd
  <2>1. Announced(s) \/ (HasAgent(s) /\ Agent(s) = s)
    BY <1>1, <1>2, <1>4, CrashStays DEF Known
  <2>2. CASE AddsAgent
    <3>1. PICK a \in Sockets :
              /\ 1 \in 1..Len(mainList) /\ Popped
              /\ mainList[1].cmd = "accept" /\ mainList[1].socket = a
              /\ DOMAIN mapAgents' = DOMAIN mapAgents \cup {sock[a].fd}
              /\ mapAgents'[sock[a].fd] = a
              /\ \A f \in DOMAIN mapAgents : f # sock[a].fd => mapAgents'[f] = mapAgents[f]
      BY <2>2 DEF AddsAgent
    <3>2. CASE s = a
      BY <1>4, <3>1, <3>2
    <3>3. CASE s # a /\ Announced(s)
      <4>1. PICK i \in 1..Len(mainList) :
                mainList[i].cmd = "accept" /\ mainList[i].socket = s
        BY <3>3 DEF Announced
      <4>2. i # 1
        BY <3>1, <3>3, <4>1
      <4>3. QED
        BY <1>1, <3>1, <4>1, <4>2, EntriesStay
    <3>4. CASE HasAgent(s) /\ Agent(s) = s
      <4>1. ~HasAgent(a)
        BY <3>1, AcceptUnknown
      <4>2. QED
        BY <1>4, <3>1, <3>4, <4>1 DEF HasAgent, Agent
    <3>5. QED
      BY <2>1, <3>2, <3>3, <3>4
  <2>3. CASE DropsAgent
    <3>1. PICK a \in Sockets :
              /\ HasAgent(a) /\ Agent(a) = a
              /\ DOMAIN mapAgents' = DOMAIN mapAgents \ {sock[a].fd}
              /\ \A f \in DOMAIN mapAgents' : mapAgents'[f] = mapAgents[f]
              /\ 1 \in 1..Len(mainList) /\ Popped
              /\ mainList[1].cmd = "close" /\ mainList[1].socket = a /\ Closing(a)'
      BY <1>2, <2>3 DEF DropsAgent
    <3>2. a # s
      BY <1>2, <3>1
    <3>3. CASE Announced(s)
      <4>1. PICK i \in 1..Len(mainList) :
                mainList[i].cmd = "accept" /\ mainList[i].socket = s
        BY <3>3 DEF Announced
      <4>2. i # 1
        BY <3>1, <4>1
      <4>3. QED
        BY <1>1, <3>1, <4>1, <4>2, EntriesStay
    <3>4. CASE HasAgent(s) /\ Agent(s) = s
      <4>1. sock[s].fd # sock[a].fd
        BY <3>1, <3>2, <3>4 DEF Agent
      <4>2. QED
        BY <1>4, <3>1, <3>4, <4>1 DEF HasAgent, Agent
    <3>5. QED
      BY <2>1, <3>3, <3>4
  <2>4. CASE UNCHANGED <<mapAgents, nNowSocketCount, nSocketCount>> /\ AcceptsStay
    <3>1. CASE Announced(s)
      <4>1. PICK i \in 1..Len(mainList) :
                mainList[i].cmd = "accept" /\ mainList[i].socket = s
        BY <3>1 DEF Announced
      <4>2. QED
        BY <2>4, <4>1 DEF AcceptsStay
    <3>2. CASE HasAgent(s) /\ Agent(s) = s
      BY <1>4, <2>4, <3>2 DEF HasAgent, Agent
    <3>3. QED
      BY <2>1, <3>1, <3>2
  <2>5. QED
    BY <2>2, <2>3, <2>4, NextAgents
<1>5. QED
  BY <1>1, <1>2, <1>3, <1>4, StillOpen

\* An agent is counted when it is made and when it is taken away.
LEMMA CountStep ==
    ASSUME AllInv, [Next]_vars
    PROVE  IsFiniteSet(DOMAIN mapAgents)' /\ CountsExact'
<1>1. /\ IsFiniteSet(DOMAIN mapAgents)
      /\ nNowSocketCount = Cardinality(DOMAIN mapAgents)
      /\ nSocketCount = Cardinality(DOMAIN mapAgents)
  BY DEF AllInv, CountInv, CountsExact
<1>2. CASE AddsAgent
  <2>1. PICK s \in Sockets :
            /\ 1 \in 1..Len(mainList)
            /\ mainList[1].cmd = "accept" /\ mainList[1].socket = s
            /\ DOMAIN mapAgents' = DOMAIN mapAgents \cup {sock[s].fd}
            /\ nNowSocketCount' = nNowSocketCount + 1
            /\ nSocketCount' = nSocketCount + 1
    BY <1>2 DEF AddsAgent
  <2>2. sock[s].fd \notin DOMAIN mapAgents
    BY <2>1, AcceptUnknown DEF HasAgent
  <2>3. /\ IsFiniteSet(DOMAIN mapAgents')
        /\ Cardinality(DOMAIN mapAgents') = Cardinality(DOMAIN mapAgents) + 1
    BY <1>1, <2>1, <2>2, FS_AddElement
  <2>4. QED
    BY <1>1, <2>1, <2>3 DEF CountsExact
<1>3. CASE DropsAgent
  <2>1. PICK a \in Sockets :
            /\ sock[a].fd \in DOMAIN mapAgents
            /\ DOMAIN mapAgents' = DOMAIN mapAgents \ {sock[a].fd}
            /\ nNowSocketCount' = nNowSocketCount - 1
            /\ nSocketCount' = nSocketCount - 1
    BY <1>3 DEF DropsAgent, HasAgent
  <2>2. /\ IsFiniteSet(DOMAIN mapAgents')
        /\ Cardinality(DOMAIN mapAgents') = Cardinality(DOMAIN mapAgents) - 1
    BY <1>1, <2>1, FS_RemoveElement
  <2>3. QED
    BY <1>1, <2>1, <2>2 DEF CountsExact
<1>4. CASE UNCHANGED <<mapAgents, nNowSocketCount, nSocketCount>>
  BY <1>1, <1>4 DEF CountsExact
<1>5. QED
  BY <1>2, <1>3, <1>4, NextAgents

\* The counts are exact to begin with.
LEMMA CountInit == Init => CountInv
<1> SUFFICES ASSUME Init PROVE CountInv
  OBVIOUS
<1>1. DOMAIN mapAgents = {} /\ nNowSocketCount = 0 /\ nSocketCount = 0
  BY DEF Init
<1>2. IsFiniteSet({}) /\ Cardinality({}) = 0
  BY FS_EmptySet
<1>3. CountsExact /\ IsFiniteSet(DOMAIN mapAgents)
  BY <1>1, <1>2 DEF CountsExact
<1>4. \A s \in Sockets : ~Live(s) /\ sock[s].fd # BadFd
  BY DEF Init, Live, Unused, BadFd
<1>5. \A t \in Threads : ioList[t] = <<>>
  BY DEF Init
<1>6. QED
  BY <1>3, <1>4, <1>5 DEF CountInv, NoBadFd, Known

\* The count of clients in ServerSocket and the one in Server are exact as long
\* as no write to a client and no accept fails: every accept is counted once,
\* every close is counted once, and each finds the agent of its own socket
\* (ServerSocket::pairCallback, Server::onAcceptClient and onClientClose).
THEOREM CountsSafe ==
    ASSUME "write_error" \notin Env, "accept_fail" \notin Env
    PROVE  Spec => []CountsExact
<1>1. Init => AllInv
  <2> SUFFICES ASSUME Init PROVE AllInv
    OBVIOUS
  <2>1. SessionInv
    BY ServiceInit DEF ServiceInv
  <2>2. QED
    BY <2>1, FdInit, OnceInit, CountInit DEF AllInv
<1>2. AllInv /\ [Next]_vars => AllInv'
  <2> SUFFICES ASSUME AllInv, [Next]_vars PROVE AllInv'
    OBVIOUS
  <2>1. FdInv /\ SessionInv /\ OnceInv /\ CountInv /\ IInv /\ NoBadFd
    BY DEF AllInv, FdInv, CountInv
  <2>2. FdInv'
    BY <2>1, FdNext
  <2>3. SessionInv'
    BY <2>1, SessionStep
  <2>4. OnceInv'
    BY <2>1, OnceStep
  <2>5. CountInv'
    BY <2>1, ValidStep, KnownStep, CountStep DEF CountInv
  <2>6. QED
    BY <2>2, <2>3, <2>4, <2>5 DEF AllInv
<1>3. AllInv => CountsExact
  BY DEF AllInv, CountInv
<1>4. QED
  BY <1>1, <1>2, <1>3, PTL DEF Spec
=============================================================================
