-------------------------- MODULE ClientConn_proofs --------------------------
(***************************************************************************)
(* What holds of the connecting side for every set of servers, every number  *)
(* of io threads, requests, packages and descriptors, every limit and every  *)
(* environment: the types, that main finds every agent by the descriptor of  *)
(* its socket, that a request is written to the connection it was made for,  *)
(* in order, and that the application sees what LinkService promises.        *)
(*                                                                           *)
(* The invariant has two sides. On the io threads' side, a request under     *)
(* way is in the list of its socket's thread and was made for the            *)
(* connection the socket has now; written, buffered and listed requests of   *)
(* a connection follow on one another. On main's side, a connection the      *)
(* application knows of, or is about to hear of, is the one its socket has,  *)
(* and is either still read from or has its close under way. A new           *)
(* connection is tried only when nothing about the old one is under way, so  *)
(* that neither side ever meets a package of a connection that is gone.      *)
(***************************************************************************)
EXTENDS ClientConn, TLAPS, SequenceTheorems

-----------------------------------------------------------------------------
(***************************************************************************)
(* Sequences                                                               *)
(***************************************************************************)
\* What a push does to a sequence.
LEMMA PushFact ==
    ASSUME NEW S, NEW q \in Seq(S), NEW e \in S
    PROVE  /\ Append(q, e) \in Seq(S)
           /\ Len(q) \in Nat /\ Len(Append(q, e)) = Len(q) + 1
           /\ \A i \in 1..Len(q) : Append(q, e)[i] = q[i]
           /\ Append(q, e)[Len(q) + 1] = e
OBVIOUS

\* What a pop does to one.
LEMMA PopFact ==
    ASSUME NEW S, NEW q \in Seq(S), q # <<>>
    PROVE  /\ Tail(q) \in Seq(S)
           /\ Len(q) \in Nat \ {0}
           /\ Len(Tail(q)) = Len(q) - 1
           /\ \A i \in 1..(Len(q) - 1) : Tail(q)[i] = q[i + 1]
           /\ Head(q) = q[1]
           /\ Head(q) \in S
OBVIOUS

\* What the replacement of an element does to one.
LEMMA PutFact ==
    ASSUME NEW S, NEW q \in Seq(S), NEW i, NEW e,
           i \in DOMAIN q => e \in S
    PROVE  /\ [q EXCEPT ![i] = e] \in Seq(S)
           /\ Len([q EXCEPT ![i] = e]) = Len(q)
           /\ DOMAIN [q EXCEPT ![i] = e] = DOMAIN q
<1>1. q \in [1..Len(q) -> S] /\ Len(q) \in Nat /\ DOMAIN q = 1..Len(q)
  OBVIOUS
<1>2. [q EXCEPT ![i] = e] \in [1..Len(q) -> S]
  BY <1>1
<1>3. QED
  BY <1>1, <1>2

\* The first two elements of a sequence as a pair.
LEMMA PairFact ==
    ASSUME NEW S, NEW q \in Seq(S), Len(q) >= 2
    PROVE  /\ SubSeq(q, 1, 2) \in S \X S
           /\ SubSeq(q, 1, 2)[1] = q[1] /\ SubSeq(q, 1, 2)[2] = q[2]
<1>1. Len(q) \in Nat /\ q[1] \in S /\ q[2] \in S
  OBVIOUS
<1>2. /\ SubSeq(q, 1, 2) \in Seq(S) /\ Len(SubSeq(q, 1, 2)) = 2
      /\ SubSeq(q, 1, 2)[1] = q[1] /\ SubSeq(q, 1, 2)[2] = q[2]
  OBVIOUS
<1>3. <<q[1], q[2]>> \in Seq(S) /\ Len(<<q[1], q[2]>>) = 2
  BY <1>1
<1>4. PICK u : u = SubSeq(q, 1, 2)
  OBVIOUS
<1>5. PICK v : v = <<q[1], q[2]>>
  OBVIOUS
<1>6. u \in Seq(S) /\ v \in Seq(S) /\ Len(u) = Len(v) /\ \A i \in 1..Len(u) : u[i] = v[i]
  BY <1>1, <1>2, <1>3, <1>4, <1>5
<1>7. u = v
  BY <1>6, SeqEqual
<1>8. SubSeq(q, 1, 2) = <<q[1], q[2]>>
  BY <1>4, <1>5, <1>7
<1>9. <<q[1], q[2]>> \in S \X S
  BY <1>1
<1>10. QED
  BY <1>2, <1>8, <1>9

\* What is left behind the first two.
LEMMA RestFact ==
    ASSUME NEW S, NEW q \in Seq(S), Len(q) >= 2
    PROVE  SubSeq(q, 3, Len(q)) \in Seq(S) /\ Len(SubSeq(q, 3, Len(q))) = Len(q) - 2
<1>1. PICK n \in Nat : n = Len(q) /\ \A i \in 3..n : q[i] \in S
  OBVIOUS
<1>2. /\ SubSeq(q, 3, n) \in Seq(S)
      /\ Len(SubSeq(q, 3, n)) = IF 3 <= n THEN n - 3 + 1 ELSE 0
  BY <1>1, SubSeqProperties
<1>3. QED
  BY <1>1, <1>2

\* The parts that a read takes, behind those that are there.
LEMMA TakenFact ==
    ASSUME NEW q \in Seq(Fds \X Parts), NEW fd \in Fds, NEW r \in Nat, NEW n \in 1..2,
           r + n <= 2 * MaxSent
    PROVE  LET parts == q \o [i \in 1..n |-> <<fd, r + i>>]
           IN  /\ parts \in Seq(Fds \X Parts) /\ Len(parts) = Len(q) + n
               /\ \A i \in 1..n : parts[Len(q) + i] = <<fd, r + i>>
<1> DEFINE v == [i \in 1..n |-> <<fd, r + i>>]
<1>1. MaxSent \in Nat
  BY ClientConnAssumption
<1>2. \A i \in 1..n : <<fd, r + i>> \in Fds \X Parts
  BY <1>1 DEF Parts
<1>3. v \in Seq(Fds \X Parts) /\ Len(v) = n
  BY <1>2
<1>4. \A i \in 1..n : v[i] = <<fd, r + i>>
  OBVIOUS
<1> HIDE DEF v
<1>5. q \o v \in Seq(Fds \X Parts) /\ Len(q \o v) = Len(q) + n
        /\ \A i \in 1..n : (q \o v)[Len(q) + i] = v[i]
  BY <1>3
<1>6. QED
  BY <1>4, <1>5 DEF v

-----------------------------------------------------------------------------
(***************************************************************************)
(* Types                                                                   *)
(***************************************************************************)
\* What a socket is before and after its constructor.
LEMMA MadeFact ==
    ASSUME NEW t \in Threads \cup {-1}
    PROVE  /\ Made(t) \in SocketType
           /\ Made(t).thread = t /\ Made(t).fd = BadFd /\ Made(t).bev = NotSet
           /\ Made(t).timer = FALSE /\ Made(t).recvBuf = <<>> /\ Made(t).sendBuf = <<>>
<1>1. /\ Made(t).thread = t /\ Made(t).fd = BadFd /\ Made(t).bev = NotSet
      /\ Made(t).timer = FALSE /\ Made(t).recvBuf = <<>> /\ Made(t).sendBuf = <<>>
  BY DEF Made
<1>2. <<>> \in Seq(Fds \X Parts) /\ <<>> \in Seq(Fds \X Requests)
  OBVIOUS
<1>3. Made(t) \in SocketType
  BY <1>2 DEF Made, SocketType
<1>4. QED
  BY <1>1, <1>3

\* A socket that is not made yet is one without a thread.
LEMMA UnmadeFact == Unmade \in SocketType /\ Unmade.thread = -1 /\ Unmade = Made(-1)
<1>1. Made(0) \in SocketType /\ Made(-1) \in SocketType
  <2>1. 0 \in Threads \cup {-1} /\ -1 \in Threads \cup {-1}
    BY ClientConnAssumption DEF Threads
  <2>2. QED
    BY <2>1, MadeFact
<1>2. Unmade \in SocketType /\ Unmade.thread = -1 /\ Made(-1).thread = -1
  BY <1>1 DEF Unmade, SocketType, Made
<1>3. /\ Unmade.fd = Made(-1).fd /\ Unmade.bev = Made(-1).bev
      /\ Unmade.timer = Made(-1).timer
      /\ Unmade.recvBuf = Made(-1).recvBuf /\ Unmade.sendBuf = Made(-1).sendBuf
  BY <1>1 DEF Unmade, SocketType, Made
<1>4. Unmade = Made(-1)
  BY <1>1, <1>2, <1>3 DEF SocketType
<1>5. QED
  BY <1>2, <1>4

\* The connecting side starts with its variables in their types.
LEMMA InitType == Init => TypeOK
<1> SUFFICES ASSUME Init PROVE TypeOK
  OBVIOUS
<1> USE DEF Init
<1>1. /\ conn \in Seq(ConnType) /\ Len(conn) <= FdLimit
      /\ mainList \in Seq(MainPackage)
      /\ ioList \in [Threads -> Seq(IOPackage)]
  BY ClientConnAssumption
<1>2. currentThread \in Threads /\ requested \subseteq Servers
  BY ClientConnAssumption DEF Threads
<1>3. DOMAIN mapAgents = {}
  OBVIOUS
<1>4. ioDeal \in [Threads -> 0..PairDealCount + 2]
  BY ClientConnAssumption
<1>5. needSendList \in [Threads -> SUBSET Servers]
  OBVIOUS
<1>6. Unmade \in SocketType
  BY UnmadeFact
<1>7. sock \in [Servers -> SocketType]
  BY <1>6
<1>8. session \in [Servers -> SessionType]
  BY DEF SessionType
<1>9. asked \in [Fds -> 0..MaxReq]
  BY ClientConnAssumption
<1>10. QED
  BY <1>1, <1>2, <1>3, <1>4, <1>5, <1>7, <1>8, <1>9 DEF TypeOK

\* A package for an io thread joins its list.
LEMMA ToIOType ==
    ASSUME TypeOK, NEW t, NEW p \in IOPackage, ToIO(t, p)
    PROVE  ioList' \in [Threads -> Seq(IOPackage)]
<1>1. ioList \in [Threads -> Seq(IOPackage)]
  BY DEF TypeOK
<1>2. \A q \in Seq(IOPackage) : Append(q, p) \in Seq(IOPackage)
  BY PushFact
<1>3. QED
  BY <1>1, <1>2 DEF ToIO

\* A package for main joins its list.
LEMMA ToMainType ==
    ASSUME TypeOK, NEW p \in MainPackage, ToMain(p)
    PROVE  mainList' \in Seq(MainPackage)
BY DEF TypeOK, ToMain

\* The packages that are made have the types of the lists.
LEMMA PackageFact ==
    ASSUME NEW s \in Servers
    PROVE  /\ Package("connect", s, <<>>) \in IOPackage
           /\ \A b \in Fds \X Requests : Package("send_buf", s, b) \in IOPackage
           /\ Package("connect_end", s, <<>>) \in MainPackage
           /\ Package("close", s, <<>>) \in MainPackage
           /\ \A b \in (Fds \X Parts) \X (Fds \X Parts) :
                  Package("recv_buf", s, b) \in MainPackage
BY DEF Package, IOPackage, MainPackage

\* What main takes.
LEMMA MainTakesFact ==
    ASSUME TypeOK, NEW c, NEW s, MainTakes(c, s)
    PROVE  /\ mainList # <<>> /\ mainList' = Tail(mainList)
           /\ mainList' \in Seq(MainPackage)
           /\ Head(mainList) \in MainPackage
           /\ Head(mainList).cmd = c /\ Head(mainList).server = s
           /\ UNCHANGED <<conn, currentThread, requested, asked, batchVars, sock>>
<1>1. mainList \in Seq(MainPackage) /\ mainList # <<>>
  BY DEF TypeOK, MainTakes
<1>2. QED
  BY <1>1, PopFact DEF MainTakes

\* What an io thread takes.
LEMMA IOTakesFact ==
    ASSUME TypeOK, NEW t \in Threads, NEW c, IOTakes(t, c)
    PROVE  /\ ioList[t] \in Seq(IOPackage) /\ ioList[t] # <<>>
           /\ ioList' = [ioList EXCEPT ![t] = Tail(@)]
           /\ ioList' \in [Threads -> Seq(IOPackage)]
           /\ Head(ioList[t]) \in IOPackage
           /\ Head(ioList[t]).cmd = c
           /\ Head(ioList[t]).server \in Servers
           /\ c = "send_buf" => Head(ioList[t]).buf \in Fds \X Requests
           /\ ioDeal' \in [Threads -> 0..PairDealCount + 2]
           /\ ioDeal'[t] > 0
           /\ UNCHANGED mainVars
<1>1. ioList \in [Threads -> Seq(IOPackage)] /\ ioList[t] # <<>>
  BY DEF TypeOK, IOTakes
<1>2. Head(ioList[t]) \in IOPackage /\ Tail(ioList[t]) \in Seq(IOPackage)
  BY <1>1, PopFact
<1>3. ioList' = [ioList EXCEPT ![t] = Tail(ioList[t])] /\ Head(ioList[t]).cmd = c
        /\ UNCHANGED mainVars
  BY DEF IOTakes
<1>4. ioList' \in [Threads -> Seq(IOPackage)]
  BY <1>1, <1>2, <1>3
<1>5. /\ ioDeal \in [Threads -> 0..PairDealCount + 2] /\ PairDealCount \in Nat
      /\ ioDeal' = [ioDeal EXCEPT ![t] = ioDeal[t] + 1]
      /\ ioDeal[t] > 0 /\ ioDeal[t] - 1 <= PairDealCount
  BY ClientConnAssumption DEF TypeOK, IOTakes, MayDeal
<1>6. ioDeal[t] + 1 \in 0..PairDealCount + 2 /\ ioDeal[t] + 1 > 0
  BY <1>5
<1>7. ioDeal' \in [Threads -> 0..PairDealCount + 2] /\ ioDeal'[t] > 0
  BY <1>5, <1>6
<1>8. /\ Head(ioList[t]).server \in Servers
      /\ c = "send_buf" => Head(ioList[t]).buf \in Fds \X Requests
  BY <1>2, <1>3 DEF IOPackage
<1>9. QED
  BY <1>1, <1>2, <1>3, <1>4, <1>7, <1>8

\* What bufferevent_write leaves of a connection.
LEMMA WrittenFact ==
    ASSUME NEW c \in ConnType, NEW b \in Seq(Fds \X Requests)
    PROVE  /\ Written(c, b) \in ConnType
           /\ Written(c, b).server = c.server /\ Written(c, b).peer = c.peer
           /\ Written(c, b).sent = c.sent /\ Written(c, b).read = c.read
           /\ Written(c, b).reading = c.reading
           /\ Written(c, b).out = c.out \o b
<1> DEFINE o == c.out \o b
           w == IF c.writing = "failed" THEN c.writing ELSE "pending"
<1>1. o \in Seq(Fds \X Requests) /\ w \in {"idle", "pending", "failed"}
  BY DEF ConnType
<1>2. Written(c, b) = [c EXCEPT !.out = o, !.writing = w]
  BY DEF Written
<1> HIDE DEF o, w
<1>3. QED
  BY <1>1, <1>2 DEF ConnType, o

\* A new connection has the type of one.
LEMMA AttemptFact ==
    ASSUME NEW s \in Servers, NEW p \in {"open", "closed"}, NEW r \in BOOLEAN
    PROVE  Attempt(s, p, r) \in ConnType
<1>1. 0 \in 0..2 * MaxSent
  BY ClientConnAssumption
<1>2. <<>> \in Seq(Fds \X Requests)
  OBVIOUS
<1>3. QED
  BY <1>1, <1>2 DEF Attempt, ConnType

-----------------------------------------------------------------------------
(***************************************************************************)
(* The outcomes of toConnect                                               *)
(***************************************************************************)
\* The socket o of server s becomes r: there is no descriptor; or there is one
\* more connection, which is made, or refused, or has no bufferevent.
Outcome(s, o, r) ==
    \/ /\ conn' = conn /\ r.fd = BadFd /\ r.bev = o.bev
       /\ ToMain(Package("close", s, <<>>))
    \/ /\ r.fd = Len(conn) + 1 /\ r.fd \in Fds
       /\ \E p \in {"open", "closed"}, g \in BOOLEAN :
              /\ conn' = Append(conn, Attempt(s, p, g))
              /\ \/ g /\ r.bev = r.fd /\ ToMain(Package("connect_end", s, <<>>))
                 \/ ~g /\ r.bev = o.bev /\ ToMain(Package("close", s, <<>>))
                 \/ ~g /\ r.bev = NoBev /\ mainList' = mainList

\* toConnect changes the descriptor, the bufferevent and the timer of its socket.
LEMMA ToConnectFact ==
    ASSUME TypeOK, NEW s \in Servers, NEW o \in SocketType, ToConnect(s, o)
    PROVE  \E r \in SocketType :
               /\ sock' = [sock EXCEPT ![s] = r]
               /\ r.thread = o.thread
               /\ r.recvBuf = o.recvBuf /\ r.sendBuf = o.sendBuf
               /\ Outcome(s, o, r)
<1>1. conn \in Seq(ConnType) /\ Len(conn) \in Nat /\ Len(conn) <= FdLimit
  BY DEF TypeOK
<1>2. ASSUME NEW p \in {"open", "closed"}, NEW g \in BOOLEAN, Len(conn) < FdLimit,
             conn' = Append(conn, Attempt(s, p, g))
      PROVE  Len(conn') = Len(conn) + 1 /\ Len(conn') \in Fds
  <2>1. Attempt(s, p, g) \in ConnType
    BY AttemptFact
  <2>2. Len(conn') = Len(conn) + 1
    BY <1>1, <1>2, <2>1, PushFact
  <2>3. Len(conn) + 1 \in 1..FdLimit
    BY <1>1, <1>2, ClientConnAssumption
  <2>4. QED
    BY <2>2, <2>3 DEF Fds
<1>3. CASE ToConnectDone(s, o)
  <2>1. /\ Len(conn) < FdLimit /\ conn' = Append(conn, Attempt(s, "open", TRUE))
        /\ sock' = [sock EXCEPT ![s] = [o EXCEPT !.fd = Len(conn'), !.bev = Len(conn')]]
        /\ ToMain(Package("connect_end", s, <<>>))
    BY <1>3 DEF ToConnectDone
  <2>2. PICK n \in Fds : n = Len(conn') /\ n = Len(conn) + 1
    BY <1>2, <2>1
  <2>3. PICK r : r = [o EXCEPT !.fd = n, !.bev = n]
    OBVIOUS
  <2>4. /\ r \in SocketType /\ r.fd = n /\ r.bev = n /\ r.thread = o.thread
        /\ r.recvBuf = o.recvBuf /\ r.sendBuf = o.sendBuf
    BY <2>3 DEF SocketType
  <2>5. Outcome(s, o, r)
    BY <2>1, <2>2, <2>4 DEF Outcome
  <2>6. sock' = [sock EXCEPT ![s] = r]
    BY <2>1, <2>2, <2>3
  <2>7. QED
    BY <2>4, <2>5, <2>6
<1>4. CASE ToConnectRefused(s, o)
  <2>1. /\ Len(conn) < FdLimit /\ conn' = Append(conn, Attempt(s, "closed", FALSE))
        /\ sock' = [sock EXCEPT ![s] = [o EXCEPT !.fd = Len(conn'), !.timer = TRUE]]
        /\ ToMain(Package("close", s, <<>>))
    BY <1>4 DEF ToConnectRefused
  <2>2. PICK n \in Fds : n = Len(conn') /\ n = Len(conn) + 1
    BY <1>2, <2>1
  <2>3. PICK r : r = [o EXCEPT !.fd = n, !.timer = TRUE]
    OBVIOUS
  <2>4. /\ r \in SocketType /\ r.fd = n /\ r.bev = o.bev /\ r.thread = o.thread
        /\ r.recvBuf = o.recvBuf /\ r.sendBuf = o.sendBuf
    BY <2>3 DEF SocketType
  <2>5. Outcome(s, o, r)
    BY <2>1, <2>2, <2>4 DEF Outcome
  <2>6. sock' = [sock EXCEPT ![s] = r]
    BY <2>1, <2>2, <2>3
  <2>7. QED
    BY <2>4, <2>5, <2>6
<1>5. CASE ToConnectNoFd(s, o)
  <2>1. /\ sock' = [sock EXCEPT ![s] = [o EXCEPT !.fd = BadFd, !.timer = TRUE]]
        /\ ToMain(Package("close", s, <<>>)) /\ conn' = conn
    BY <1>5 DEF ToConnectNoFd
  <2>2. PICK r : r = [o EXCEPT !.fd = BadFd, !.timer = TRUE]
    OBVIOUS
  <2>3. /\ r \in SocketType /\ r.fd = BadFd /\ r.bev = o.bev /\ r.thread = o.thread
        /\ r.recvBuf = o.recvBuf /\ r.sendBuf = o.sendBuf
    BY <2>2 DEF SocketType
  <2>4. Outcome(s, o, r)
    BY <2>1, <2>3 DEF Outcome
  <2>5. sock' = [sock EXCEPT ![s] = r]
    BY <2>1, <2>2
  <2>6. QED
    BY <2>3, <2>4, <2>5
<1>6. CASE ToConnectNoBev(s, o)
  <2>1. /\ Len(conn) < FdLimit /\ conn' = Append(conn, Attempt(s, "open", FALSE))
        /\ sock' = [sock EXCEPT ![s] = [o EXCEPT !.fd = Len(conn'), !.bev = NoBev]]
        /\ mainList' = mainList
    BY <1>6 DEF ToConnectNoBev
  <2>2. PICK n \in Fds : n = Len(conn') /\ n = Len(conn) + 1
    BY <1>2, <2>1
  <2>3. PICK r : r = [o EXCEPT !.fd = n, !.bev = NoBev]
    OBVIOUS
  <2>4. /\ r \in SocketType /\ r.fd = n /\ r.bev = NoBev /\ r.thread = o.thread
        /\ r.recvBuf = o.recvBuf /\ r.sendBuf = o.sendBuf
    BY <2>3 DEF SocketType
  <2>5. Outcome(s, o, r)
    BY <2>1, <2>2, <2>4 DEF Outcome
  <2>6. sock' = [sock EXCEPT ![s] = r]
    BY <2>1, <2>2, <2>3
  <2>7. QED
    BY <2>4, <2>5, <2>6
<1>7. QED
  BY <1>3, <1>4, <1>5, <1>6 DEF ToConnect

\* Whatever comes of toConnect, the types stay.
LEMMA OutcomeType ==
    ASSUME TypeOK, NEW s \in Servers, NEW o \in SocketType, ToConnect(s, o)
    PROVE  /\ conn' \in Seq(ConnType) /\ Len(conn') <= FdLimit
           /\ mainList' \in Seq(MainPackage)
           /\ sock' \in [Servers -> SocketType]
<1>1. PICK r \in SocketType : sock' = [sock EXCEPT ![s] = r] /\ Outcome(s, o, r)
  BY ToConnectFact
<1>2. sock' \in [Servers -> SocketType]
  BY <1>1 DEF TypeOK
<1>3. mainList' \in Seq(MainPackage)
  <2>1. mainList \in Seq(MainPackage)
    BY DEF TypeOK
  <2>2. QED
    BY <1>1, <2>1, PackageFact, ToMainType DEF Outcome
<1>4. conn \in Seq(ConnType) /\ Len(conn) <= FdLimit
  BY DEF TypeOK
<1>5. CASE conn' = conn
  BY <1>2, <1>3, <1>4, <1>5
<1>6. CASE conn' # conn
  <2>1. PICK p \in {"open", "closed"}, g \in BOOLEAN : conn' = Append(conn, Attempt(s, p, g))
    BY <1>1, <1>6 DEF Outcome
  <2>2. Len(conn) + 1 \in 1..FdLimit
    BY <1>1, <1>6 DEF Outcome, Fds
  <2>3. Attempt(s, p, g) \in ConnType
    BY AttemptFact
  <2>4. conn' \in Seq(ConnType) /\ Len(conn') = Len(conn) + 1
    BY <1>4, <2>1, <2>3, PushFact
  <2>5. QED
    BY <1>2, <1>3, <2>2, <2>4
<1>7. QED
  BY <1>5, <1>6

\* A socket with something that is changed in it.
LEMMA SockPut ==
    ASSUME TypeOK, NEW s \in Servers, NEW r \in SocketType
    PROVE  [sock EXCEPT ![s] = r] \in [Servers -> SocketType]
BY DEF TypeOK

\* What a timer is, is set by eventCallback.
LEMMA ReportEndFact ==
    ASSUME TypeOK, NEW s \in Servers, ReportEnd(s)
    PROVE  /\ mainList' \in Seq(MainPackage)
           /\ mainList' = Append(mainList, Package("close", s, <<>>))
           /\ sock' \in [Servers -> SocketType]
           /\ sock' = [sock EXCEPT ![s].timer = TRUE]
<1>1. sock[s] \in SocketType
  BY DEF TypeOK
<1>2. [sock[s] EXCEPT !.timer = TRUE] \in SocketType
  BY <1>1 DEF SocketType
<1>3. sock' = [sock EXCEPT ![s].timer = TRUE] /\ ToMain(Package("close", s, <<>>))
  BY DEF ReportEnd
<1>4. sock' = [sock EXCEPT ![s] = [sock[s] EXCEPT !.timer = TRUE]]
  BY <1>3
<1>5. sock' \in [Servers -> SocketType]
  BY <1>2, <1>4, SockPut
<1>6. QED
  BY <1>3, <1>5, PackageFact, ToMainType DEF ToMain

\* What a step of one connection is that changes no more than its state.
LEMMA ConnPut ==
    ASSUME TypeOK, NEW fd \in DOMAIN conn, NEW c \in ConnType, conn' = [conn EXCEPT ![fd] = c]
    PROVE  /\ conn' \in Seq(ConnType) /\ Len(conn') <= FdLimit
           /\ DOMAIN conn' = DOMAIN conn /\ conn'[fd] = c
           /\ \A f \in DOMAIN conn : f # fd => conn'[f] = conn[f]
<1>1. conn \in Seq(ConnType) /\ Len(conn) <= FdLimit
  BY DEF TypeOK
<1>2. QED
  BY <1>1, PutFact

\* A connection in the list.
LEMMA ConnFact ==
    ASSUME TypeOK, NEW fd \in DOMAIN conn
    PROVE  conn[fd] \in ConnType /\ fd \in Fds /\ conn[fd].server \in Servers
<1>1. conn \in Seq(ConnType) /\ Len(conn) <= FdLimit /\ FdLimit \in Nat
  BY ClientConnAssumption DEF TypeOK
<1>2. fd \in 1..Len(conn) /\ Len(conn) \in Nat
  BY <1>1
<1>3. conn[fd] \in ConnType
  BY <1>1, <1>2
<1>4. QED
  BY <1>1, <1>2, <1>3 DEF ConnType, Fds

\* The reader takes n parts for server s, and leaves q: two parts make a package.
Reads(fd, s, n, q) ==
    /\ conn[fd].read + n \in 1..conn[fd].sent
    /\ conn' = [conn EXCEPT ![fd] = [conn[fd] EXCEPT !.read = conn[fd].read + n]]
    /\ sock' = [sock EXCEPT ![s] = [sock[s] EXCEPT !.recvBuf = q]]
    /\ \/ /\ Len(sock[s].recvBuf) + n < 2
          /\ Len(q) = Len(sock[s].recvBuf) + n
          /\ mainList' = mainList
       \/ /\ Len(sock[s].recvBuf) + n >= 2
          /\ Len(q) = Len(sock[s].recvBuf) + n - 2
          /\ \E b \in (Fds \X Parts) \X (Fds \X Parts) :
                 /\ mainList' = Append(mainList, Package("recv_buf", s, b))
                 /\ Len(sock[s].recvBuf) <= 1 =>
                        b[2][2] \in (conn[fd].read + 1)..(conn[fd].read + n)

\* What readCallback does, when recv has one part or two.
LEMMA ReadFact ==
    ASSUME TypeOK, NEW fd, Read(fd)
    PROVE  /\ fd \in DOMAIN conn /\ conn[fd].reading /\ Served(conn[fd].server)
           /\ UNCHANGED <<mainVars, batchVars>>
           /\ \E s \in Servers : \E n \in 1..2 : \E q \in Seq(Fds \X Parts) :
                  s = conn[fd].server /\ Reads(fd, s, n, q)
<1>1. /\ fd \in DOMAIN conn /\ conn[fd].reading /\ Served(conn[fd].server)
      /\ UNCHANGED <<mainVars, batchVars>>
  BY DEF Read
<1>2. conn[fd] \in ConnType /\ fd \in Fds /\ conn[fd].server \in Servers
  BY <1>1, ConnFact
<1>3. PICK s \in Servers : s = conn[fd].server
  BY <1>2
<1>4. sock[s] \in SocketType
  BY DEF TypeOK
<1>5. PICK r \in Nat, m \in 0..2 * MaxSent : r = conn[fd].read /\ m = conn[fd].sent
  BY <1>2, ClientConnAssumption DEF ConnType
<1>6. PICK q0 \in Seq(Fds \X Parts) : q0 = sock[s].recvBuf
  BY <1>4 DEF SocketType
<1>7. PICK n \in 1..2 :
          LET parts == q0 \o [i \in 1..n |-> <<fd, r + i>>]
          IN  /\ r + n <= m
              /\ conn' = [conn EXCEPT ![fd].read = @ + n]
              /\ IF Len(parts) < 2
                 THEN /\ sock' = [sock EXCEPT ![s].recvBuf = parts]
                      /\ UNCHANGED mainList
                 ELSE /\ sock' = [sock EXCEPT ![s].recvBuf = SubSeq(parts, 3, Len(parts))]
                      /\ ToMain(Package("recv_buf", s, SubSeq(parts, 1, 2)))
  BY <1>3, <1>5, <1>6 DEF Read
<1>8. PICK parts : parts = q0 \o [i \in 1..n |-> <<fd, r + i>>]
  OBVIOUS
<1>9. r + n <= 2 * MaxSent /\ r + n \in 1..m
  <2>1. r + n <= m
    BY <1>7
  <2>2. r \in Nat /\ n \in 1..2 /\ m \in 0..2 * MaxSent /\ MaxSent \in Nat
    BY ClientConnAssumption
  <2>3. QED
    BY <2>1, <2>2
<1>10. /\ parts \in Seq(Fds \X Parts) /\ Len(parts) = Len(q0) + n
       /\ \A i \in 1..n : parts[Len(q0) + i] = <<fd, r + i>>
  BY <1>2, <1>8, <1>9, TakenFact, ZenonT(60)
<1>11. conn' = [conn EXCEPT ![fd] = [conn[fd] EXCEPT !.read = r + n]]
  BY <1>5, <1>7
<1>12. CASE Len(parts) < 2
  <2>1. sock' = [sock EXCEPT ![s] = [sock[s] EXCEPT !.recvBuf = parts]] /\ mainList' = mainList
    BY <1>7, <1>8, <1>12
  <2>2. Len(sock[s].recvBuf) + n < 2 /\ Len(parts) = Len(sock[s].recvBuf) + n
    BY <1>6, <1>10, <1>12
  <2>3. QED
    BY <1>1, <1>3, <1>5, <1>9, <1>10, <1>11, <2>1, <2>2 DEF Reads
<1>13. CASE ~(Len(parts) < 2)
  <2>1. PICK q : q = SubSeq(parts, 3, Len(parts))
    OBVIOUS
  <2>2. PICK b : b = SubSeq(parts, 1, 2)
    OBVIOUS
  <2>3. /\ sock' = [sock EXCEPT ![s] = [sock[s] EXCEPT !.recvBuf = q]]
        /\ mainList' = Append(mainList, Package("recv_buf", s, b))
    BY <1>7, <1>8, <1>13, <2>1, <2>2 DEF ToMain
  <2>4. Len(q0) \in Nat /\ Len(parts) >= 2
    BY <1>10, <1>13
  <2>5. q \in Seq(Fds \X Parts) /\ Len(q) = Len(q0) + n - 2
    BY <1>10, <2>1, <2>4, RestFact
  <2>6. b \in (Fds \X Parts) \X (Fds \X Parts) /\ b[2] = parts[2]
    BY <1>10, <2>2, <2>4, PairFact
  <2>7. ASSUME Len(q0) <= 1 PROVE b[2][2] \in (r + 1)..(r + n)
    <3>1. PICK i \in 1..n : Len(q0) + i = 2
      BY <1>10, <2>4, <2>7
    <3>2. b[2] = <<fd, r + i>>
      BY <1>10, <2>6, <3>1
    <3>3. QED
      BY <3>2
  <2>8. Len(q0) + n >= 2
    BY <1>10, <2>4
  <2>9. QED
    BY <1>1, <1>3, <1>5, <1>6, <1>9, <1>11, <2>3, <2>5, <2>6, <2>7, <2>8 DEF Reads
<1>14. QED
  BY <1>12, <1>13

\* Thread t takes a request b to server s, whose send buffer becomes q: the
\* request joins it, or is alone in it, when what was there is written.
Buffers(t, s, b, q) ==
    /\ IOTakes(t, "send_buf")
    /\ Head(ioList[t]).server = s /\ Head(ioList[t]).buf = b
    /\ sock' = [sock EXCEPT ![s] = [sock[s] EXCEPT !.sendBuf = q]]
    /\ mainList' = mainList
    /\ \/ /\ conn' = conn /\ q = Append(sock[s].sendBuf, b)
          /\ needSendList' = [needSendList EXCEPT ![t] = needSendList[t] \cup {s}]
       \/ /\ sock[s].sendBuf # <<>> /\ q = <<b>>
          /\ conn' = [conn EXCEPT ![sock[s].bev] =
                         Written(conn[sock[s].bev], sock[s].sendBuf)]
          /\ needSendList' = needSendList

\* What a request becomes that an io thread takes.
LEMMA SendFact ==
    ASSUME TypeOK, NEW t \in Threads, IOSend(t)
    PROVE  \E s \in Servers : \E b \in Fds \X Requests : \E q \in Seq(Fds \X Requests) :
               Buffers(t, s, b, q)
<1>1. IOTakes(t, "send_buf") /\ mainList' = mainList
  BY DEF IOSend
<1>2. PICK s \in Servers : s = Head(ioList[t]).server
  BY <1>1, IOTakesFact
<1>3. PICK b \in Fds \X Requests : b = Head(ioList[t]).buf
  BY <1>1, IOTakesFact
<1>4. sock[s] \in SocketType
  BY DEF TypeOK
<1>5. PICK q0 \in Seq(Fds \X Requests) : q0 = sock[s].sendBuf
  BY <1>4 DEF SocketType
<1>6. IF canExpand(s)
      THEN /\ sock' = [sock EXCEPT ![s] = [sock[s] EXCEPT !.sendBuf = Append(q0, b)]]
           /\ needSendList' = [needSendList EXCEPT ![t] = needSendList[t] \cup {s}]
           /\ UNCHANGED conn
      ELSE /\ conn' = [conn EXCEPT ![sock[s].bev] = Written(conn[sock[s].bev], q0)]
           /\ sock' = [sock EXCEPT ![s] = [sock[s] EXCEPT !.sendBuf = <<b>>]]
           /\ UNCHANGED needSendList
  BY <1>2, <1>3, <1>5 DEF IOSend
<1>7. CASE canExpand(s)
  <2>1. PICK q \in Seq(Fds \X Requests) : q = Append(q0, b)
    BY PushFact
  <2>2. QED
    BY <1>1, <1>2, <1>3, <1>5, <1>6, <1>7, <2>1 DEF Buffers
<1>8. CASE ~canExpand(s)
  <2>1. PICK q \in Seq(Fds \X Requests) : q = <<b>>
    <3>1. <<b>> \in Seq(Fds \X Requests)
      OBVIOUS
    <3>2. QED
      BY <3>1
  <2>2. q0 # <<>>
    BY <1>5, <1>8, ClientConnAssumption DEF canExpand
  <2>3. QED
    BY <1>1, <1>2, <1>3, <1>5, <1>6, <1>8, <2>1, <2>2 DEF Buffers
<1>9. QED
  BY <1>7, <1>8

\* What the end of pairCallback is: the listed buffers are written.
LEMMA FlushFact ==
    ASSUME TypeOK, NEW t \in Threads, IOFlush(t)
    PROVE  /\ conn' \in Seq(ConnType) /\ Len(conn') = Len(conn) /\ DOMAIN conn' = DOMAIN conn
           /\ \A fd \in DOMAIN conn :
                  LET s == conn[fd].server
                  IN  conn'[fd] = IF s \in needSendList[t] /\ sock[s].sendBuf # <<>>
                                     /\ sock[s].bev = fd
                                  THEN Written(conn[fd], sock[s].sendBuf) ELSE conn[fd]
           /\ sock' \in [Servers -> SocketType]
           /\ \A s \in Servers :
                  sock'[s] = IF s \in needSendList[t] /\ sock[s].sendBuf # <<>>
                             THEN [sock[s] EXCEPT !.sendBuf = <<>>]
                             ELSE sock[s]
           /\ needSendList' = [needSendList EXCEPT ![t] = {}]
           /\ ioDeal[t] > 0
           /\ ioDeal' = [ioDeal EXCEPT ![t] = 0]
           /\ UNCHANGED <<mainVars, mainList, ioList>>
<1> DEFINE ss == {s \in needSendList[t] : sock[s].sendBuf # <<>>}
           Flush(fd) == LET s == conn[fd].server
                        IN  IF s \in ss /\ sock[s].bev = fd
                            THEN Written(conn[fd], sock[s].sendBuf) ELSE conn[fd]
<1>1. /\ Flushed(ss) /\ needSendList' = [needSendList EXCEPT ![t] = {}]
      /\ ioDeal[t] > 0 /\ ioDeal' = [ioDeal EXCEPT ![t] = 0]
      /\ UNCHANGED <<mainVars, mainList, ioList>>
  BY DEF IOFlush
<1>2. conn \in Seq(ConnType) /\ sock \in [Servers -> SocketType]
  BY DEF TypeOK
<1>3. PICK n \in Nat : n = Len(conn) /\ DOMAIN conn = 1..n
  BY <1>2
<1>4. conn' = [fd \in 1..n |-> Flush(fd)]
  BY <1>1, <1>3 DEF Flushed
<1>5. \A fd \in 1..n : Flush(fd) \in ConnType
  <2>1. TAKE fd \in 1..n
  <2>2. conn[fd] \in ConnType /\ conn[fd].server \in Servers
    BY <1>3, ConnFact
  <2>3. sock[conn[fd].server].sendBuf \in Seq(Fds \X Requests)
    BY <1>2, <2>2 DEF SocketType
  <2>4. QED
    BY <2>2, <2>3, WrittenFact
<1>6. conn' \in Seq(ConnType) /\ Len(conn') = n /\ DOMAIN conn' = 1..n
  <2> HIDE DEF Flush
  <2>1. QED
    BY <1>4, <1>5
<1>7. sock' = [s \in Servers |-> IF s \in ss THEN [sock[s] EXCEPT !.sendBuf = <<>>]
                                 ELSE sock[s]]
  BY <1>1 DEF Flushed
<1>8. \A r \in SocketType : [r EXCEPT !.sendBuf = <<>>] \in SocketType
  <2>1. <<>> \in Seq(Fds \X Requests)
    OBVIOUS
  <2>2. QED
    BY <2>1 DEF SocketType
<1>9. \A fd \in DOMAIN conn :
          LET s == conn[fd].server
          IN  conn'[fd] = IF s \in needSendList[t] /\ sock[s].sendBuf # <<>>
                             /\ sock[s].bev = fd
                          THEN Written(conn[fd], sock[s].sendBuf) ELSE conn[fd]
  BY <1>3, <1>4
<1>10. sock' \in [Servers -> SocketType]
  BY <1>2, <1>7, <1>8
<1>11. \A s \in Servers :
          sock'[s] = IF s \in needSendList[t] /\ sock[s].sendBuf # <<>>
                     THEN [sock[s] EXCEPT !.sendBuf = <<>>]
                     ELSE sock[s]
  BY <1>7
<1>12. QED
  BY <1>1, <1>3, <1>6, <1>9, <1>10, <1>11

-----------------------------------------------------------------------------
(***************************************************************************)
(* Type correctness                                                        *)
(***************************************************************************)
\* The application connects to a server.
LEMMA ConnectType == ASSUME TypeOK, NEW s \in Servers, Connect(s) PROVE TypeOK'
<1>1. ToIO(currentThread, Package("connect", s, <<>>))
  BY DEF Connect
<1>2. ioList' \in [Threads -> Seq(IOPackage)]
  BY <1>1, PackageFact, ToIOType
<1>3. requested' \subseteq Servers
  BY DEF TypeOK, Connect
<1>4. currentThread' \in Threads
  <2>1. currentThread \in Threads /\ IOThreads \in Nat \ {0}
    BY ClientConnAssumption DEF TypeOK
  <2>2. currentThread' = currentThread \/ currentThread' = (currentThread + 1) % IOThreads
    BY DEF Connect
  <2>3. QED
    BY <2>1, <2>2 DEF Threads
<1>5. UNCHANGED <<conn, mainList, mapAgents, session, asked, ioDeal, needSendList, sock>>
  BY DEF Connect
<1>6. QED
  BY <1>2, <1>3, <1>4, <1>5 DEF TypeOK

\* The application sends a request.
LEMMA SendType == ASSUME TypeOK, NEW fd \in Fds, Send(fd) PROVE TypeOK'
<1>1. mapAgents[fd] \in Servers /\ asked \in [Fds -> 0..MaxReq] /\ asked[fd] < MaxReq
        /\ MaxReq \in Nat
  BY ClientConnAssumption DEF TypeOK, Send
<1>2. asked[fd] + 1 \in 0..MaxReq /\ asked[fd] + 1 \in Requests
  BY <1>1 DEF Requests
<1>3. asked' = [asked EXCEPT ![fd] = asked[fd] + 1]
  BY DEF Send
<1>4. asked' \in [Fds -> 0..MaxReq] /\ asked'[fd] \in Requests
  BY <1>1, <1>2, <1>3
<1>5. PICK s \in Servers : s = mapAgents[fd]
  BY <1>1
<1>6. ToIO(sock[s].thread, Package("send_buf", s, <<fd, asked'[fd]>>))
  BY <1>5 DEF Send
<1>7. ioList' \in [Threads -> Seq(IOPackage)]
  BY <1>4, <1>6, PackageFact, ToIOType
<1>8. UNCHANGED <<conn, currentThread, requested, mainList, mapAgents, session,
                  ioDeal, needSendList, sock>>
  BY DEF Send
<1>9. QED
  BY <1>4, <1>7, <1>8 DEF TypeOK

\* Main takes a package; the descriptor it files an agent under is one.
LEMMA MainType ==
    ASSUME TypeOK, NEW s \in Servers, MainConnectEnd(s) \/ MainRecv(s) \/ MainClose(s),
           MainConnectEnd(s) => FdOf(s) # BadFd
    PROVE  TypeOK'
<1>1. /\ mainList' \in Seq(MainPackage)
      /\ UNCHANGED <<conn, currentThread, requested, asked, batchVars, sock>>
  BY MainTakesFact DEF MainConnectEnd, MainRecv, MainClose
<1> SUFFICES /\ DOMAIN mapAgents' \subseteq Fds
             /\ \A fd \in DOMAIN mapAgents' : mapAgents'[fd] \in Servers
             /\ session' \in [Servers -> SessionType]
  <2>1. UNCHANGED <<conn, currentThread, requested, asked, ioList, ioDeal, needSendList, sock>>
    BY <1>1 DEF batchVars
  <2>2. QED
    BY <1>1, <2>1 DEF TypeOK
<1>2. /\ DOMAIN mapAgents \subseteq Fds
      /\ \A fd \in DOMAIN mapAgents : mapAgents[fd] \in Servers
      /\ session \in [Servers -> SessionType]
      /\ FdOf(s) \in Fds \cup {BadFd}
  BY DEF TypeOK, SocketType, FdOf
<1>3. 0 \in Parts \cup {0}
  OBVIOUS
<1>4. CASE UNCHANGED <<mapAgents, session>>
  BY <1>2, <1>4
<1>5. CASE MainConnectEnd(s)
  <2> FdOf(s) \in Fds
    BY <1>2, <1>5
  <2>1. CASE HasAgent(s)
    BY <1>4, <1>5, <2>1 DEF MainConnectEnd
  <2>2. CASE ~HasAgent(s)
    <3>1. mapAgents' = [fd \in DOMAIN mapAgents \cup {FdOf(s)} |->
                            IF fd = FdOf(s) THEN s ELSE mapAgents[fd]]
      BY <1>5, <2>2 DEF MainConnectEnd
    <3>2. session' = [session EXCEPT ![s] = [link |-> "up", conn |-> FdOf(s), last |-> 0]]
      BY <1>5, <2>2 DEF MainConnectEnd
    <3>3. [link |-> "up", conn |-> FdOf(s), last |-> 0] \in SessionType
      BY <1>5 DEF SessionType
    <3>4. QED
      BY <1>2, <1>5, <3>1, <3>2, <3>3
  <2>3. QED
    BY <2>1, <2>2
<1>6. CASE MainRecv(s)
  <2>1. CASE ~HasAgent(s)
    BY <1>4, <1>6, <2>1 DEF MainRecv
  <2>2. CASE HasAgent(s)
    <3>1. MainTakes("recv_buf", s)
      BY <1>6 DEF MainRecv
    <3>2. Head(mainList).buf \in (Fds \X Parts) \X (Fds \X Parts)
      BY <3>1, MainTakesFact DEF MainPackage
    <3>3. PICK k \in Parts : k = Head(mainList).buf[2][2]
      BY <3>2
    <3>4. PICK r \in Servers : r = Agent(s)
      BY <1>2, <2>2 DEF HasAgent, Agent
    <3>5. session' = [session EXCEPT ![r] = [session[r] EXCEPT !.last = k]]
      BY <1>6, <2>2, <3>3, <3>4 DEF MainRecv
    <3>6. [session[r] EXCEPT !.last = k] \in SessionType
      BY <1>2 DEF SessionType
    <3>7. session' \in [Servers -> SessionType]
      BY <1>2, <3>5, <3>6
    <3>8. mapAgents' = mapAgents
      BY <1>6 DEF MainRecv
    <3>9. QED
      BY <1>2, <3>7, <3>8
  <2>3. QED
    BY <2>1, <2>2
<1>7. CASE MainClose(s)
  <2>1. CASE ~HasAgent(s)
    BY <1>4, <1>7, <2>1 DEF MainClose
  <2>2. CASE HasAgent(s)
    <3>1. PICK r \in Servers : r = Agent(s)
      BY <1>2, <2>2 DEF HasAgent, Agent
    <3>2. session' = [session EXCEPT ![r] = [session[r] EXCEPT !.link = "down"]]
      BY <1>7, <2>2, <3>1 DEF MainClose
    <3>3. [session[r] EXCEPT !.link = "down"] \in SessionType
      BY <1>2 DEF SessionType
    <3>4. session' \in [Servers -> SessionType]
      BY <1>2, <3>2, <3>3
    <3>5. mapAgents' = [fd \in DOMAIN mapAgents \ {FdOf(r)} |-> mapAgents[fd]]
      BY <1>7, <2>2, <3>1 DEF MainClose, deleteAgent
    <3>6. QED
      BY <1>2, <3>4, <3>5
  <2>3. QED
    BY <2>1, <2>2
<1>8. QED
  BY <1>4, <1>5, <1>6, <1>7

\* reconnectCallback.
LEMMA AttemptType ==
    ASSUME TypeOK, NEW s \in Servers, Reconnect(s) PROVE TypeOK'
<1>1. ToConnect(s, [sock[s] EXCEPT !.timer = FALSE]) /\ UNCHANGED <<mainVars, batchVars>>
  BY DEF Reconnect
<1>2. [sock[s] EXCEPT !.timer = FALSE] \in SocketType
  <2>1. sock[s] \in SocketType
    BY DEF TypeOK
  <2>2. QED
    BY <2>1 DEF SocketType
<1>3. /\ conn' \in Seq(ConnType) /\ Len(conn') <= FdLimit
      /\ mainList' \in Seq(MainPackage)
      /\ sock' \in [Servers -> SocketType]
  BY <1>1, <1>2, OutcomeType
<1>4. QED
  BY <1>1, <1>3 DEF TypeOK, mainVars, batchVars

\* A step of an io thread.
LEMMA IOType == ASSUME TypeOK, NEW t \in Threads, IOLoop(t) PROVE TypeOK'
<1>1. CASE IOWake(t)
  <2>1. 1 \in 0..PairDealCount + 2
    BY ClientConnAssumption
  <2>2. ioDeal' \in [Threads -> 0..PairDealCount + 2]
    BY <1>1, <2>1 DEF TypeOK, IOWake
  <2>3. UNCHANGED <<conn, mainVars, mainList, ioList, needSendList, sock>>
    BY <1>1 DEF IOWake
  <2>4. QED
    BY <2>2, <2>3 DEF TypeOK, mainVars
<1>2. CASE IOConnect(t)
  <2>1. /\ IOTakes(t, "connect") /\ needSendList' = needSendList
        /\ ToConnect(Head(ioList[t]).server, Made(t))
    BY <1>2 DEF IOConnect
  <2>2. /\ Head(ioList[t]).server \in Servers /\ UNCHANGED mainVars
        /\ ioList' \in [Threads -> Seq(IOPackage)]
        /\ ioDeal' \in [Threads -> 0..PairDealCount + 2]
    BY <2>1, IOTakesFact
  <2>3. Made(t) \in SocketType
    BY MadeFact
  <2>4. /\ conn' \in Seq(ConnType) /\ Len(conn') <= FdLimit
        /\ mainList' \in Seq(MainPackage)
        /\ sock' \in [Servers -> SocketType]
    BY <2>1, <2>2, <2>3, OutcomeType
  <2>5. QED
    BY <2>1, <2>2, <2>4 DEF TypeOK, mainVars
<1>3. CASE IOSend(t)
  <2>1. PICK s \in Servers : \E b \in Fds \X Requests : \E q \in Seq(Fds \X Requests) :
               /\ IOTakes(t, "send_buf")
               /\ sock' = [sock EXCEPT ![s] = [sock[s] EXCEPT !.sendBuf = q]]
               /\ mainList' = mainList
               /\ \/ /\ conn' = conn
                     /\ needSendList' = [needSendList EXCEPT ![t] = needSendList[t] \cup {s}]
                  \/ /\ conn' = [conn EXCEPT ![sock[s].bev] =
                                    Written(conn[sock[s].bev], sock[s].sendBuf)]
                     /\ needSendList' = needSendList
    BY <1>3, SendFact DEF Buffers
  <2>2. /\ ioList' \in [Threads -> Seq(IOPackage)] /\ UNCHANGED mainVars
        /\ ioDeal' \in [Threads -> 0..PairDealCount + 2]
    BY <2>1, IOTakesFact
  <2>3. sock[s] \in SocketType
    BY DEF TypeOK
  <2>4. PICK q \in Seq(Fds \X Requests) :
            sock' = [sock EXCEPT ![s] = [sock[s] EXCEPT !.sendBuf = q]]
    BY <2>1
  <2>5. sock' \in [Servers -> SocketType]
    <3>1. [sock[s] EXCEPT !.sendBuf = q] \in SocketType
      BY <2>3 DEF SocketType
    <3>2. QED
      BY <2>4, <3>1, SockPut
  <2>6. needSendList' \in [Threads -> SUBSET Servers]
    <3>1. needSendList \in [Threads -> SUBSET Servers]
      BY DEF TypeOK
    <3>2. needSendList' = [needSendList EXCEPT ![t] = needSendList[t] \cup {s}]
              \/ needSendList' = needSendList
      BY <2>1
    <3>3. needSendList[t] \cup {s} \in SUBSET Servers
      BY <3>1
    <3>4. QED
      BY <3>1, <3>2, <3>3
  <2>7. conn' \in Seq(ConnType) /\ Len(conn') <= FdLimit
    <3>1. conn \in Seq(ConnType) /\ Len(conn) <= FdLimit
      BY DEF TypeOK
    <3>2. sock[s].sendBuf \in Seq(Fds \X Requests)
      BY <2>3 DEF SocketType
    <3>3. sock[s].bev \in DOMAIN conn =>
              Written(conn[sock[s].bev], sock[s].sendBuf) \in ConnType
      BY <3>2, ConnFact, WrittenFact
    <3>4. QED
      BY <2>1, <3>1, <3>3, PutFact
  <2>8. QED
    BY <2>1, <2>2, <2>5, <2>6, <2>7 DEF TypeOK, mainVars
<1>4. CASE IOFlush(t)
  <2>1. /\ conn' \in Seq(ConnType) /\ Len(conn') = Len(conn)
        /\ sock' \in [Servers -> SocketType]
        /\ needSendList' = [needSendList EXCEPT ![t] = {}]
        /\ ioDeal' = [ioDeal EXCEPT ![t] = 0]
        /\ UNCHANGED <<mainVars, mainList, ioList>>
    BY <1>4, FlushFact
  <2>2. 0 \in 0..PairDealCount + 2
    BY ClientConnAssumption
  <2>3. ioDeal' \in [Threads -> 0..PairDealCount + 2]
    BY <2>1, <2>2 DEF TypeOK
  <2>4. needSendList' \in [Threads -> SUBSET Servers]
    BY <2>1 DEF TypeOK
  <2>5. QED
    BY <2>1, <2>3, <2>4 DEF TypeOK, mainVars
<1>5. QED
  BY <1>1, <1>2, <1>3, <1>4 DEF IOLoop

\* What is left of a connection's end is reported, and only its state changes.
LEMMA EventFact ==
    ASSUME TypeOK, NEW fd, ReadEvent(fd) \/ WriteEvent(fd)
    PROVE  /\ fd \in DOMAIN conn /\ Served(conn[fd].server) /\ ReportEnd(conn[fd].server)
           /\ \E c \in ConnType :
                  /\ conn' = [conn EXCEPT ![fd] = c]
                  /\ c.server = conn[fd].server /\ c.sent = conn[fd].sent
                  /\ c.read = conn[fd].read /\ c.out = conn[fd].out
                  /\ c.reading => conn[fd].reading
           /\ UNCHANGED <<mainVars, batchVars>>
<1>1. /\ fd \in DOMAIN conn /\ Served(conn[fd].server) /\ ReportEnd(conn[fd].server)
      /\ UNCHANGED <<mainVars, batchVars>>
  BY DEF ReadEvent, WriteEvent
<1>2. conn[fd] \in ConnType
  BY <1>1, ConnFact
<1>3. CASE ReadEvent(fd)
  <2>1. PICK c : c = [conn[fd] EXCEPT !.reading = FALSE]
    OBVIOUS
  <2>2. /\ c \in ConnType /\ c.server = conn[fd].server /\ c.sent = conn[fd].sent
        /\ c.read = conn[fd].read /\ c.out = conn[fd].out /\ ~c.reading
    BY <1>2, <2>1 DEF ConnType
  <2>3. conn' = [conn EXCEPT ![fd] = c]
    BY <1>3, <2>1 DEF ReadEvent
  <2>4. QED
    BY <1>1, <2>2, <2>3
<1>4. CASE WriteEvent(fd)
  <2>1. PICK c : c = [conn[fd] EXCEPT !.writing = "failed"]
    OBVIOUS
  <2>2. /\ c \in ConnType /\ c.server = conn[fd].server /\ c.sent = conn[fd].sent
        /\ c.read = conn[fd].read /\ c.out = conn[fd].out /\ c.reading = conn[fd].reading
    BY <1>2, <2>1 DEF ConnType
  <2>3. conn' = [conn EXCEPT ![fd] = c]
    BY <1>4, <2>1 DEF WriteEvent
  <2>4. QED
    BY <1>1, <2>2, <2>3
<1>5. QED
  BY <1>3, <1>4

\* What a server does to a connection.
LEMMA PeerFact ==
    ASSUME TypeOK, NEW fd, ServerSends(fd) \/ ServerCloses(fd)
    PROVE  /\ fd \in DOMAIN conn
           /\ \E c \in ConnType :
                  /\ conn' = [conn EXCEPT ![fd] = c]
                  /\ c.server = conn[fd].server /\ c.sent >= conn[fd].sent
                  /\ c.read = conn[fd].read /\ c.out = conn[fd].out
                  /\ c.reading = conn[fd].reading
           /\ UNCHANGED <<mainVars, mainList, batchVars, sock>>
<1>1. /\ fd \in DOMAIN conn
      /\ UNCHANGED <<mainVars, mainList, batchVars, sock>>
  BY DEF ServerSends, ServerCloses
<1>2. conn[fd] \in ConnType
  BY <1>1, ConnFact
<1>3. CASE ServerSends(fd)
  <2>1. PICK n \in Nat : n = conn[fd].sent
    BY <1>2 DEF ConnType
  <2>2. n + 2 \in 0..2 * MaxSent
    BY <1>3, <2>1, ClientConnAssumption DEF ServerSends
  <2>3. PICK c : c = [conn[fd] EXCEPT !.sent = n + 2]
    OBVIOUS
  <2>4. /\ c \in ConnType /\ c.server = conn[fd].server /\ c.sent >= conn[fd].sent
        /\ c.read = conn[fd].read /\ c.out = conn[fd].out /\ c.reading = conn[fd].reading
    BY <1>2, <2>1, <2>2, <2>3 DEF ConnType
  <2>5. conn' = [conn EXCEPT ![fd] = c]
    BY <1>3, <2>1, <2>3 DEF ServerSends
  <2>6. QED
    BY <1>1, <2>4, <2>5
<1>4. CASE ServerCloses(fd)
  <2>1. PICK c : c = [conn[fd] EXCEPT !.peer = "closed"]
    OBVIOUS
  <2>2. /\ c \in ConnType /\ c.server = conn[fd].server /\ c.sent >= conn[fd].sent
        /\ c.read = conn[fd].read /\ c.out = conn[fd].out /\ c.reading = conn[fd].reading
    BY <1>2, <2>1 DEF ConnType
  <2>3. conn' = [conn EXCEPT ![fd] = c]
    BY <1>4, <2>1 DEF ServerCloses
  <2>4. QED
    BY <1>1, <2>2, <2>3
<1>5. QED
  BY <1>3, <1>4

\* What is read goes to the socket's buffer and to main.
LEMMA ReadType == ASSUME TypeOK, NEW fd, Read(fd) PROVE TypeOK'
<1>1. /\ fd \in DOMAIN conn /\ UNCHANGED <<mainVars, batchVars>>
      /\ conn[fd] \in ConnType
  BY ReadFact, ConnFact
<1>2. PICK s \in Servers : \E n \in 1..2 : \E q \in Seq(Fds \X Parts) : Reads(fd, s, n, q)
  BY ReadFact
<1>3. PICK n \in 1..2 : \E q \in Seq(Fds \X Parts) : Reads(fd, s, n, q)
  BY <1>2
<1>4. PICK q \in Seq(Fds \X Parts) : Reads(fd, s, n, q)
  BY <1>3
<1>5. PICK k \in 0..2 * MaxSent : k = conn[fd].read + n
  <2>1. PICK m \in 0..2 * MaxSent : m = conn[fd].sent
    BY <1>1 DEF ConnType
  <2>2. conn[fd].read + n \in 1..m /\ MaxSent \in Nat
    BY <1>4, <2>1, ClientConnAssumption DEF Reads
  <2>3. QED
    BY <2>2
<1>6. PICK c : c = [conn[fd] EXCEPT !.read = k]
  OBVIOUS
<1>7. c \in ConnType
  BY <1>1, <1>6 DEF ConnType
<1>8. conn' \in Seq(ConnType) /\ Len(conn') <= FdLimit
  BY <1>1, <1>4, <1>5, <1>6, <1>7, ConnPut DEF Reads
<1>9. sock' \in [Servers -> SocketType]
  <2>1. sock[s] \in SocketType
    BY DEF TypeOK
  <2>2. [sock[s] EXCEPT !.recvBuf = q] \in SocketType
    BY <2>1 DEF SocketType
  <2>3. QED
    BY <1>4, <2>2, SockPut DEF Reads
<1>10. mainList' \in Seq(MainPackage)
  <2>1. mainList \in Seq(MainPackage)
    BY DEF TypeOK
  <2>2. CASE mainList' = mainList
    BY <2>1, <2>2
  <2>3. CASE mainList' # mainList
    <3>1. PICK b \in (Fds \X Parts) \X (Fds \X Parts) :
              mainList' = Append(mainList, Package("recv_buf", s, b))
      BY <1>4, <2>3 DEF Reads
    <3>2. Package("recv_buf", s, b) \in MainPackage
      BY PackageFact
    <3>3. QED
      BY <2>1, <3>1, <3>2, PushFact
  <2>4. QED
    BY <2>2, <2>3
<1>11. QED
  BY <1>1, <1>8, <1>9, <1>10 DEF TypeOK, mainVars, batchVars

\* The end of a connection.
LEMMA EventType ==
    ASSUME TypeOK, NEW fd, ReadEvent(fd) \/ WriteEvent(fd) PROVE TypeOK'
<1>1. /\ fd \in DOMAIN conn /\ ReportEnd(conn[fd].server) /\ UNCHANGED <<mainVars, batchVars>>
      /\ conn[fd].server \in Servers
  BY EventFact, ConnFact
<1>2. PICK c \in ConnType : conn' = [conn EXCEPT ![fd] = c]
  BY EventFact
<1>3. conn' \in Seq(ConnType) /\ Len(conn') <= FdLimit
  BY <1>1, <1>2, ConnPut
<1>4. mainList' \in Seq(MainPackage) /\ sock' \in [Servers -> SocketType]
  BY <1>1, ReportEndFact
<1>5. QED
  BY <1>1, <1>3, <1>4 DEF TypeOK, mainVars, batchVars

\* A step of a server.
LEMMA PeerType ==
    ASSUME TypeOK, NEW fd, ServerSends(fd) \/ ServerCloses(fd) PROVE TypeOK'
<1>1. fd \in DOMAIN conn /\ UNCHANGED <<mainVars, mainList, batchVars, sock>>
  BY PeerFact
<1>2. PICK c \in ConnType : conn' = [conn EXCEPT ![fd] = c]
  BY PeerFact
<1>3. conn' \in Seq(ConnType) /\ Len(conn') <= FdLimit
  BY <1>1, <1>2, ConnPut
<1>4. QED
  BY <1>1, <1>3 DEF TypeOK, mainVars, batchVars

-----------------------------------------------------------------------------
(***************************************************************************)
(* The inductive invariant                                                 *)
(***************************************************************************)
\* The socket of s has a connection, with a bufferevent on it.
Current(s) == sock[s].fd # BadFd /\ sock[s].bev = sock[s].fd

\* A made socket has a thread, and what it names are connections to its server.
Wired ==
    \A s \in Servers :
        /\ sock[s] = Unmade \/ sock[s].thread \in Threads
        /\ sock[s].fd # BadFd =>
               sock[s].fd \in DOMAIN conn /\ conn[sock[s].fd].server = s
        /\ sock[s].bev \in Fds =>
               sock[s].bev \in DOMAIN conn /\ conn[sock[s].bev].server = s
        /\ Len(sock[s].recvBuf) <= 1

\* Only the connection that a socket has now is read from.
ReadsCurrent ==
    \A fd \in DOMAIN conn :
        conn[fd].reading => /\ sock[conn[fd].server].bev = fd
                            /\ sock[conn[fd].server].fd = fd

IsConnect(p) == p.cmd = "connect"
IsSend(p, s) == p.cmd = "send_buf" /\ p.server = s

\* A socket is asked for once, and made once.
Asking ==
    /\ \A s \in Servers : s \notin requested =>
           sock[s] = Unmade /\ \A t \in Threads : ~About(ioList[t], s)
    /\ \A t \in Threads : \A i \in 1..Len(ioList[t]) :
           IsConnect(ioList[t][i]) => sock[ioList[t][i].server] = Unmade
    /\ \A t, u \in Threads : \A i \in 1..Len(ioList[t]), j \in 1..Len(ioList[u]) :
           IsConnect(ioList[t][i]) /\ IsConnect(ioList[u][j])
           /\ ioList[t][i].server = ioList[u][j].server => t = u /\ i = j
    /\ \A i \in 1..Len(mainList) : sock[mainList[i].server] # Unmade

\* A request under way is in the list of its socket's thread, and was made for
\* the connection that the socket has now.
SendsOwn ==
    \A t \in Threads : \A i \in 1..Len(ioList[t]) : ioList[t][i].cmd = "send_buf" =>
        LET s == ioList[t][i].server
        IN  sock[s].thread = t /\ Current(s) /\ ioList[t][i].buf[1] = sock[s].fd

\* Only a current socket has something in its buffer, and its thread will write
\* it out before pairCallback returns.
Listed ==
    /\ \A s \in Servers : sock[s].sendBuf # <<>> =>
           Current(s) /\ s \in needSendList[sock[s].thread]
    /\ \A t \in Threads : ioDeal[t] = 0 => needSendList[t] = {}

\* The requests of a socket's connection that have left the list.
Base(s) == Len(conn[sock[s].bev].out) + Len(sock[s].sendBuf)

\* Written, buffered and listed requests follow on one another.
Buffered ==
    \A s \in Servers : sock[s].bev \in Fds =>
        \A i \in 1..Len(sock[s].sendBuf) :
            sock[s].sendBuf[i] = <<sock[s].bev, Len(conn[sock[s].bev].out) + i>>

Numbered ==
    \A s \in Servers : sock[s].bev \in Fds =>
        /\ Base(s) <= asked[sock[s].bev]
        /\ \A t \in Threads : \A i \in 1..Len(ioList[t]) : IsSend(ioList[t][i], s) =>
               /\ ioList[t][i].buf[2] \in (Base(s) + 1)..asked[sock[s].bev]
               /\ \A j \in 1..(i - 1) : IsSend(ioList[t][j], s) =>
                      ioList[t][j].buf[2] < ioList[t][i].buf[2]
        /\ \A k \in (Base(s) + 1)..asked[sock[s].bev] :
               \E i \in 1..Len(ioList[sock[s].thread]) :
                   /\ IsSend(ioList[sock[s].thread][i], s)
                   /\ ioList[sock[s].thread][i].buf[2] = k

\* Nothing was asked of a connection that is not made yet.
NotAsked == \A fd \in Fds : fd \notin DOMAIN conn => asked[fd] = 0

Closes(s) == \E i \in 1..Len(mainList) : mainList[i].cmd = "close" /\ mainList[i].server = s
Begins(s) == \E i \in 1..Len(mainList) : mainList[i].cmd = "connect_end" /\ mainList[i].server = s
Up(s) == FdOf(s) \in DOMAIN mapAgents /\ mapAgents[FdOf(s)] = s

\* A connection that the application knows, or will know, of is the socket's own,
\* and is still read from, or its close is under way.
Told ==
    \A s \in Servers :
        Begins(s) \/ Up(s) => Current(s) /\ (conn[sock[s].fd].reading \/ Closes(s))

\* A connect_end is the first package about its connection.
BeginsFirst ==
    \A s \in Servers : \A i \in 1..Len(mainList) :
        mainList[i].cmd = "connect_end" /\ mainList[i].server = s =>
            /\ \A j \in 1..(i - 1) : mainList[j].server # s
            /\ ~Up(s)
            /\ session[s].conn < sock[s].fd

\* The application and the agents agree.
SessionsUp ==
    \A s \in Servers :
        /\ session[s].link = "up" <=> Up(s)
        /\ Up(s) => /\ session[s].conn = FdOf(s)
                    /\ session[s].last <= conn[FdOf(s)].read
        /\ session[s].conn # 0 =>
               session[s].conn \in DOMAIN conn /\ conn[session[s].conn].server = s

\* The number of the last part of a package.
Number(i) == mainList[i].buf[2][2]

\* Received packages are in order.
RecvRising ==
    \A s \in Servers : \A i \in 1..Len(mainList) :
        mainList[i].cmd = "recv_buf" /\ mainList[i].server = s =>
            /\ sock[s].bev \in Fds
            /\ Number(i) <= conn[sock[s].bev].read
            /\ Up(s) => session[s].last < Number(i)
            /\ \A j \in 1..(i - 1) :
                   mainList[j].cmd = "recv_buf" /\ mainList[j].server = s =>
                       Number(j) < Number(i)

IOInv ==
    /\ Asking
    /\ SendsOwn
    /\ Listed
    /\ Buffered
    /\ Numbered
    /\ NotAsked
    /\ RequestsOnOwnConnection

MainInv ==
    /\ Told
    /\ BeginsFirst
    /\ SessionsUp
    /\ RecvRising
    /\ AgentsFound

ClientInv ==
    /\ TypeOK
    /\ Wired
    /\ ReadsCurrent
    /\ IOInv
    /\ MainInv

-----------------------------------------------------------------------------
(***************************************************************************)
(* Steps that leave every socket its connection                            *)
(***************************************************************************)
\* Every socket has the connection and the bufferevent that it had.
Keeps ==
    /\ DOMAIN conn' = DOMAIN conn
    /\ \A fd \in DOMAIN conn :
           /\ conn'[fd].server = conn[fd].server
           /\ conn'[fd].reading => conn[fd].reading
           /\ conn'[fd].read >= conn[fd].read
    /\ \A s \in Servers :
           /\ sock'[s].thread = sock[s].thread
           /\ sock'[s].fd = sock[s].fd
           /\ sock'[s].bev = sock[s].bev
           /\ Len(sock'[s].recvBuf) <= 1
           /\ sock[s] = Unmade <=> sock'[s] = Unmade

\* The requests under way stay where they are.
IOSame ==
    /\ UNCHANGED <<ioList, needSendList, requested, asked>>
    /\ \A t \in Threads : ioDeal'[t] = 0 => ioDeal[t] = 0
    /\ \A fd \in DOMAIN conn : conn'[fd].out = conn[fd].out
    /\ \A s \in Servers : sock'[s].sendBuf = sock[s].sendBuf

\* So does what main has to do, and what the application was told.
MainSame ==
    /\ UNCHANGED <<mainList, mapAgents, session>>
    /\ \A fd \in DOMAIN conn : conn'[fd].reading = conn[fd].reading

\* A step that changes neither connections nor sockets.
LEMMA SameKeeps ==
    ASSUME TypeOK, Wired, UNCHANGED <<conn, sock>>
    PROVE  /\ Keeps
           /\ \A fd \in DOMAIN conn : conn'[fd].out = conn[fd].out
                                      /\ conn'[fd].reading = conn[fd].reading
           /\ \A s \in Servers : sock'[s].sendBuf = sock[s].sendBuf
<1>1. \A fd \in DOMAIN conn : conn[fd].read >= conn[fd].read
  <2>1. TAKE fd \in DOMAIN conn
  <2>2. conn[fd].read \in Nat
    BY ConnFact, ClientConnAssumption DEF ConnType
  <2>3. QED
    BY <2>2
<1>2. QED
  BY <1>1 DEF Keeps, Wired

\* A socket is made when it has a thread.
LEMMA ThreadFact ==
    ASSUME TypeOK, Wired, NEW s \in Servers
    PROVE  /\ sock[s] \in SocketType
           /\ sock[s] = Unmade <=> sock[s].thread = -1
           /\ sock[s] # Unmade <=> sock[s].thread \in Threads
           /\ sock[s] = Unmade => /\ sock[s].fd = BadFd /\ sock[s].bev = NotSet
                                  /\ sock[s].sendBuf = <<>> /\ sock[s].recvBuf = <<>>
                                  /\ sock[s].timer = FALSE
<1>1. sock[s] \in SocketType /\ (sock[s] = Unmade \/ sock[s].thread \in Threads)
  BY DEF TypeOK, Wired
<1>2. -1 \notin Threads
  BY ClientConnAssumption DEF Threads
<1>3. /\ Unmade.thread = -1 /\ Unmade.fd = BadFd /\ Unmade.bev = NotSet
      /\ Unmade.sendBuf = <<>> /\ Unmade.recvBuf = <<>> /\ Unmade.timer = FALSE
  <2>1. -1 \in Threads \cup {-1}
    OBVIOUS
  <2>2. QED
    BY <2>1, UnmadeFact, MadeFact
<1>4. QED
  BY <1>1, <1>2, <1>3

\* A made socket that keeps its connection.
LEMMA SockKeeps ==
    ASSUME TypeOK, Wired, NEW s \in Servers, NEW r \in SocketType,
           sock' = [sock EXCEPT ![s] = r],
           r.thread = sock[s].thread, r.fd = sock[s].fd, r.bev = sock[s].bev,
           Len(r.recvBuf) <= 1, sock[s] # Unmade
    PROVE  /\ sock'[s] = r
           /\ \A x \in Servers : x # s => sock'[x] = sock[x]
           /\ \A x \in Servers :
                  /\ sock'[x].thread = sock[x].thread
                  /\ sock'[x].fd = sock[x].fd
                  /\ sock'[x].bev = sock[x].bev
                  /\ Len(sock'[x].recvBuf) <= 1
                  /\ sock[x] = Unmade <=> sock'[x] = Unmade
<1>1. sock \in [Servers -> SocketType]
  BY DEF TypeOK
<1>2. sock'[s] = r /\ \A x \in Servers : x # s => sock'[x] = sock[x]
  BY <1>1
<1>3. r # Unmade
  <2>1. r.thread \in Threads
    BY ThreadFact
  <2>2. -1 \notin Threads /\ Unmade.thread = -1
    BY UnmadeFact, ClientConnAssumption DEF Threads
  <2>3. QED
    BY <2>1, <2>2
<1>4. \A x \in Servers : Len(sock[x].recvBuf) <= 1
  BY DEF Wired
<1>5. QED
  BY <1>2, <1>3, <1>4

\* A connection whose state alone changes.
LEMMA ConnKeeps ==
    ASSUME TypeOK, NEW fd \in DOMAIN conn, NEW c \in ConnType,
           conn' = [conn EXCEPT ![fd] = c],
           c.server = conn[fd].server, c.reading => conn[fd].reading,
           c.read >= conn[fd].read
    PROVE  /\ DOMAIN conn' = DOMAIN conn
           /\ conn'[fd] = c
           /\ \A x \in DOMAIN conn : x # fd => conn'[x] = conn[x]
           /\ \A x \in DOMAIN conn :
                  /\ conn'[x].server = conn[x].server
                  /\ conn'[x].reading => conn[x].reading
                  /\ conn'[x].read >= conn[x].read
<1>1. /\ DOMAIN conn' = DOMAIN conn /\ conn'[fd] = c
      /\ \A x \in DOMAIN conn : x # fd => conn'[x] = conn[x]
  BY ConnPut
<1>2. \A x \in DOMAIN conn : conn[x].read \in Nat
  BY ConnFact, ClientConnAssumption DEF ConnType
<1>3. QED
  BY <1>1, <1>2

\* send_buf, which leaves main alone.
LEMMA SendKeeps ==
    ASSUME TypeOK, Wired, SendsOwn, NEW t \in Threads, IOSend(t)
    PROVE  Keeps /\ MainSame
<1>1. PICK s \in Servers : \E b \in Fds \X Requests : \E q \in Seq(Fds \X Requests) :
               /\ IOTakes(t, "send_buf")
               /\ Head(ioList[t]).server = s
               /\ sock' = [sock EXCEPT ![s] = [sock[s] EXCEPT !.sendBuf = q]]
               /\ mainList' = mainList
               /\ \/ conn' = conn
                  \/ conn' = [conn EXCEPT ![sock[s].bev] =
                                    Written(conn[sock[s].bev], sock[s].sendBuf)]
  BY SendFact DEF Buffers
<1>2. PICK q \in Seq(Fds \X Requests) :
               sock' = [sock EXCEPT ![s] = [sock[s] EXCEPT !.sendBuf = q]]
  BY <1>1
<1>3. sock[s].thread = t /\ Current(s)
  <2>1. Head(ioList[t]) = ioList[t][1] /\ 1 \in 1..Len(ioList[t])
    BY <1>1, IOTakesFact, PopFact
  <2>2. Head(ioList[t]).cmd = "send_buf" /\ Head(ioList[t]).server = s
    BY <1>1, IOTakesFact
  <2>3. QED
    BY <2>1, <2>2 DEF SendsOwn
<1>4. sock[s] \in SocketType /\ sock[s] # Unmade
  BY <1>3, ThreadFact
<1>5. PICK r : r = [sock[s] EXCEPT !.sendBuf = q]
  OBVIOUS
<1>6. /\ r \in SocketType /\ r.thread = sock[s].thread /\ r.fd = sock[s].fd
      /\ r.bev = sock[s].bev /\ r.recvBuf = sock[s].recvBuf
  BY <1>4, <1>5 DEF SocketType
<1>7. Len(r.recvBuf) <= 1
  BY <1>6 DEF Wired
<1>8. \A x \in Servers :
          /\ sock'[x].thread = sock[x].thread
          /\ sock'[x].fd = sock[x].fd
          /\ sock'[x].bev = sock[x].bev
          /\ Len(sock'[x].recvBuf) <= 1
          /\ sock[x] = Unmade <=> sock'[x] = Unmade
  BY <1>2, <1>4, <1>5, <1>6, <1>7, SockKeeps
<1>9. /\ DOMAIN conn' = DOMAIN conn
      /\ \A fd \in DOMAIN conn :
             /\ conn'[fd].server = conn[fd].server
             /\ conn'[fd].reading = conn[fd].reading
             /\ conn'[fd].read >= conn[fd].read
  <2>1. \A x \in DOMAIN conn : conn[x].read \in Nat
    BY ConnFact, ClientConnAssumption DEF ConnType
  <2>2. CASE conn' = conn
    BY <2>1, <2>2
  <2>3. CASE conn' # conn
    <3>1. PICK fd \in DOMAIN conn : fd = sock[s].bev
      BY <1>3 DEF Wired, Current
    <3>2. sock[s].sendBuf \in Seq(Fds \X Requests) /\ conn[fd] \in ConnType
      BY <1>4, <3>1, ConnFact DEF SocketType
    <3>3. PICK c : c = Written(conn[fd], sock[s].sendBuf)
      OBVIOUS
    <3>4. /\ c \in ConnType /\ c.server = conn[fd].server /\ c.read = conn[fd].read
          /\ c.reading = conn[fd].reading
      BY <3>2, <3>3, WrittenFact
    <3>5. conn' = [conn EXCEPT ![fd] = c]
      BY <1>1, <2>3, <3>1, <3>3
    <3>6. /\ DOMAIN conn' = DOMAIN conn /\ conn'[fd] = c
          /\ \A x \in DOMAIN conn : x # fd => conn'[x] = conn[x]
      BY <3>4, <3>5, ConnPut
    <3>7. QED
      BY <2>1, <3>4, <3>6
  <2>4. QED
    BY <2>2, <2>3
<1>10. UNCHANGED <<mainList, mapAgents, session>>
  BY <1>1, IOTakesFact DEF mainVars
<1>11. QED
  BY <1>8, <1>9, <1>10 DEF Keeps, MainSame

\* The end of pairCallback, which leaves main alone.
LEMMA FlushKeeps ==
    ASSUME TypeOK, Wired, NEW t \in Threads, IOFlush(t)
    PROVE  Keeps /\ MainSame
<1>1. /\ DOMAIN conn' = DOMAIN conn
      /\ \A fd \in DOMAIN conn :
             \/ conn'[fd] = conn[fd]
             \/ conn'[fd] = Written(conn[fd], sock[conn[fd].server].sendBuf)
      /\ \A s \in Servers :
             sock'[s] = IF s \in needSendList[t] /\ sock[s].sendBuf # <<>>
                        THEN [sock[s] EXCEPT !.sendBuf = <<>>]
                        ELSE sock[s]
      /\ UNCHANGED <<mainVars, mainList>>
      /\ sock' \in [Servers -> SocketType]
  BY FlushFact
<1>2. \A fd \in DOMAIN conn :
          /\ conn'[fd].server = conn[fd].server
          /\ conn'[fd].reading = conn[fd].reading
          /\ conn'[fd].read >= conn[fd].read
  <2>1. TAKE fd \in DOMAIN conn
  <2>2. conn[fd] \in ConnType /\ conn[fd].server \in Servers
    BY ConnFact
  <2>3. conn[fd].read \in Nat
    BY <2>2, ClientConnAssumption DEF ConnType
  <2>4. sock[conn[fd].server].sendBuf \in Seq(Fds \X Requests)
    BY <2>2 DEF TypeOK, SocketType
  <2>5. QED
    BY <1>1, <2>2, <2>3, <2>4, WrittenFact
<1>3. \A s \in Servers :
          /\ sock'[s].thread = sock[s].thread
          /\ sock'[s].fd = sock[s].fd
          /\ sock'[s].bev = sock[s].bev
          /\ Len(sock'[s].recvBuf) <= 1
          /\ sock[s] = Unmade <=> sock'[s] = Unmade
  <2>1. TAKE s \in Servers
  <2>2. CASE sock'[s] = sock[s]
    BY <2>2 DEF Wired
  <2>3. CASE sock'[s] # sock[s]
    <3>1. sock'[s] = [sock[s] EXCEPT !.sendBuf = <<>>] /\ sock[s].sendBuf # <<>>
      BY <1>1, <2>3
    <3>2. sock[s] \in SocketType
      BY DEF TypeOK
    <3>3. /\ sock'[s].thread = sock[s].thread
          /\ sock'[s].fd = sock[s].fd
          /\ sock'[s].bev = sock[s].bev
          /\ sock'[s].recvBuf = sock[s].recvBuf
      BY <3>1, <3>2 DEF SocketType
    <3>4. sock[s].thread # -1 /\ sock[s] # Unmade
      BY <3>1, ThreadFact
    <3>5. sock'[s] # Unmade
      BY <3>3, <3>4, UnmadeFact
    <3>6. Len(sock'[s].recvBuf) <= 1
      BY <3>3 DEF Wired
    <3>7. QED
      BY <3>3, <3>4, <3>5, <3>6
  <2>4. QED
    BY <2>2, <2>3
<1>4. QED
  BY <1>1, <1>2, <1>3 DEF Keeps, MainSame, mainVars

\* readCallback, which leaves the requests alone.
LEMMA ReadKeeps ==
    ASSUME TypeOK, Wired, NEW fd, Read(fd)
    PROVE  Keeps /\ IOSame
<1>1. /\ fd \in DOMAIN conn /\ Served(conn[fd].server)
      /\ UNCHANGED <<mainVars, batchVars>>
  BY ReadFact
<1>2. conn[fd] \in ConnType /\ conn[fd].server \in Servers
  BY <1>1, ConnFact
<1>3. PICK s \in Servers : \E n \in 1..2 : \E q \in Seq(Fds \X Parts) :
          s = conn[fd].server /\ Reads(fd, s, n, q)
  BY ReadFact
<1>4. PICK n \in 1..2 : \E q \in Seq(Fds \X Parts) :
          s = conn[fd].server /\ Reads(fd, s, n, q)
  BY <1>3
<1>5. PICK q \in Seq(Fds \X Parts) : s = conn[fd].server /\ Reads(fd, s, n, q)
  BY <1>4
<1>6. sock[s] \in SocketType /\ sock[s] # Unmade /\ Len(sock[s].recvBuf) \in 0..1
  <2>1. sock[s] \in SocketType
    BY DEF TypeOK
  <2>2. sock[s] # Unmade /\ Len(sock[s].recvBuf) <= 1
    BY <1>1, <1>3 DEF Served, Wired
  <2>3. Len(sock[s].recvBuf) \in Nat
    BY <2>1 DEF SocketType
  <2>4. PICK l : l = Len(sock[s].recvBuf)
    OBVIOUS
  <2>5. l \in Nat /\ l <= 1
    BY <2>2, <2>3, <2>4
  <2>6. l \in 0..1
    BY <2>5
  <2>7. QED
    BY <2>1, <2>2, <2>4, <2>6
<1>7. PICK r : r = [sock[s] EXCEPT !.recvBuf = q]
  OBVIOUS
<1>8. /\ r \in SocketType /\ r.thread = sock[s].thread /\ r.fd = sock[s].fd
      /\ r.bev = sock[s].bev /\ r.recvBuf = q /\ r.sendBuf = sock[s].sendBuf
  BY <1>6, <1>7 DEF SocketType
<1>9. Len(r.recvBuf) <= 1
  <2>1. PICK l \in 0..1 : l = Len(sock[s].recvBuf)
    BY <1>6
  <2>2. (l + n < 2 /\ Len(q) = l + n) \/ Len(q) = l + n - 2
    BY <1>5, <2>1 DEF Reads
  <2>3. QED
    BY <1>8, <2>2
<1>10. /\ sock'[s] = r
       /\ \A x \in Servers : x # s => sock'[x] = sock[x]
       /\ \A x \in Servers :
             /\ sock'[x].thread = sock[x].thread
             /\ sock'[x].fd = sock[x].fd
             /\ sock'[x].bev = sock[x].bev
             /\ Len(sock'[x].recvBuf) <= 1
             /\ sock[x] = Unmade <=> sock'[x] = Unmade
  BY <1>5, <1>6, <1>7, <1>8, <1>9, SockKeeps DEF Reads
<1>11. PICK c : c = [conn[fd] EXCEPT !.read = conn[fd].read + n]
  OBVIOUS
<1>12. PICK k \in Nat, m \in 0..2 * MaxSent : k = conn[fd].read /\ m = conn[fd].sent
  BY <1>2, ClientConnAssumption DEF ConnType
<1>13. k + n \in 0..2 * MaxSent
  <2>1. k + n \in 1..m /\ MaxSent \in Nat
    BY <1>5, <1>12, ClientConnAssumption DEF Reads
  <2>2. QED
    BY <2>1
<1>14. /\ c \in ConnType /\ c.server = conn[fd].server /\ c.reading = conn[fd].reading
       /\ c.read >= conn[fd].read /\ c.out = conn[fd].out
  BY <1>2, <1>11, <1>12, <1>13, SMTT(30) DEF ConnType
<1>15. /\ DOMAIN conn' = DOMAIN conn /\ conn'[fd] = c
       /\ \A x \in DOMAIN conn : x # fd => conn'[x] = conn[x]
       /\ \A x \in DOMAIN conn :
              /\ conn'[x].server = conn[x].server
              /\ conn'[x].reading => conn[x].reading
              /\ conn'[x].read >= conn[x].read
  BY <1>1, <1>5, <1>11, <1>14, ConnKeeps DEF Reads
<1>16. QED
  BY <1>1, <1>8, <1>10, <1>14, <1>15 DEF Keeps, IOSame, mainVars, batchVars

\* eventCallback, which leaves the requests alone.
LEMMA EventKeeps ==
    ASSUME TypeOK, Wired, NEW fd, ReadEvent(fd) \/ WriteEvent(fd)
    PROVE  Keeps /\ IOSame
<1>1. /\ fd \in DOMAIN conn /\ Served(conn[fd].server) /\ ReportEnd(conn[fd].server)
      /\ UNCHANGED <<mainVars, batchVars>>
  BY EventFact
<1>2. conn[fd] \in ConnType /\ conn[fd].server \in Servers
  BY <1>1, ConnFact
<1>3. PICK s \in Servers : s = conn[fd].server
  BY <1>2
<1>4. sock' = [sock EXCEPT ![s].timer = TRUE]
  BY <1>1, <1>3, ReportEndFact
<1>5. sock[s] \in SocketType /\ sock[s] # Unmade /\ Len(sock[s].recvBuf) <= 1
  BY <1>1, <1>3 DEF TypeOK, Served, Wired
<1>6. PICK r : r = [sock[s] EXCEPT !.timer = TRUE]
  OBVIOUS
<1>7. /\ r \in SocketType /\ r.thread = sock[s].thread /\ r.fd = sock[s].fd
      /\ r.bev = sock[s].bev /\ r.recvBuf = sock[s].recvBuf /\ r.sendBuf = sock[s].sendBuf
  BY <1>5, <1>6 DEF SocketType
<1>8. sock' = [sock EXCEPT ![s] = r] /\ Len(r.recvBuf) <= 1
  BY <1>4, <1>5, <1>6, <1>7
<1>9. /\ sock'[s] = r
      /\ \A x \in Servers : x # s => sock'[x] = sock[x]
      /\ \A x \in Servers :
             /\ sock'[x].thread = sock[x].thread
             /\ sock'[x].fd = sock[x].fd
             /\ sock'[x].bev = sock[x].bev
             /\ Len(sock'[x].recvBuf) <= 1
             /\ sock[x] = Unmade <=> sock'[x] = Unmade
  BY <1>5, <1>7, <1>8, SockKeeps
<1>10. PICK c \in ConnType :
           /\ conn' = [conn EXCEPT ![fd] = c]
           /\ c.server = conn[fd].server /\ c.read = conn[fd].read
           /\ c.out = conn[fd].out /\ (c.reading => conn[fd].reading)
  BY EventFact
<1>11. conn[fd].read \in Nat
  BY <1>2, ClientConnAssumption DEF ConnType
<1>12. c.read >= conn[fd].read
  BY <1>10, <1>11
<1>13. /\ DOMAIN conn' = DOMAIN conn /\ conn'[fd] = c
       /\ \A x \in DOMAIN conn : x # fd => conn'[x] = conn[x]
       /\ \A x \in DOMAIN conn :
              /\ conn'[x].server = conn[x].server
              /\ conn'[x].reading => conn[x].reading
              /\ conn'[x].read >= conn[x].read
  BY <1>1, <1>10, <1>12, ConnKeeps
<1>14. QED
  BY <1>1, <1>7, <1>9, <1>10, <1>13 DEF Keeps, IOSame, mainVars, batchVars

\* What a server does, of which nobody is told.
LEMMA PeerKeeps ==
    ASSUME TypeOK, Wired, NEW fd, ServerSends(fd) \/ ServerCloses(fd)
    PROVE  Keeps /\ IOSame /\ MainSame
<1>1. /\ fd \in DOMAIN conn
      /\ UNCHANGED <<mainVars, mainList, batchVars, sock>>
  BY PeerFact
<1>2. PICK c \in ConnType :
          /\ conn' = [conn EXCEPT ![fd] = c]
          /\ c.server = conn[fd].server /\ c.read = conn[fd].read
          /\ c.out = conn[fd].out /\ c.reading = conn[fd].reading
  BY PeerFact
<1>3. conn[fd].read \in Nat
  BY <1>1, ConnFact, ClientConnAssumption DEF ConnType
<1>4. c.read >= conn[fd].read
  BY <1>2, <1>3
<1>5. /\ DOMAIN conn' = DOMAIN conn /\ conn'[fd] = c
      /\ \A x \in DOMAIN conn : x # fd => conn'[x] = conn[x]
      /\ \A x \in DOMAIN conn :
             /\ conn'[x].server = conn[x].server
             /\ conn'[x].reading => conn[x].reading
             /\ conn'[x].read >= conn[x].read
  BY <1>1, <1>2, <1>4, ConnKeeps
<1>6. QED
  BY <1>1, <1>2, <1>5 DEF Keeps, IOSame, MainSame, Wired, mainVars, batchVars

\* The rest of the invariant on connections.
LEMMA WiresKept ==
    ASSUME TypeOK, Wired, ReadsCurrent, Keeps
    PROVE  Wired' /\ ReadsCurrent'
<1>1. Wired'
  <2>1. SUFFICES ASSUME NEW s \in Servers
                 PROVE  /\ sock'[s] = Unmade \/ sock'[s].thread \in Threads
                        /\ sock'[s].fd # BadFd => /\ sock'[s].fd \in DOMAIN conn'
                                                  /\ conn'[sock'[s].fd].server = s
                        /\ sock'[s].bev \in Fds => /\ sock'[s].bev \in DOMAIN conn'
                                                   /\ conn'[sock'[s].bev].server = s
                        /\ Len(sock'[s].recvBuf) <= 1
    BY DEF Wired
  <2>2. QED
    BY DEF Wired, Keeps
<1>2. ReadsCurrent'
  <2>1. SUFFICES ASSUME NEW fd \in DOMAIN conn', conn'[fd].reading
                 PROVE  sock'[conn'[fd].server].bev = fd /\ sock'[conn'[fd].server].fd = fd
    BY DEF ReadsCurrent
  <2>2. fd \in DOMAIN conn /\ conn[fd].reading /\ conn'[fd].server = conn[fd].server
    BY <2>1 DEF Keeps
  <2>3. conn[fd].server \in Servers
    BY <2>2, ConnFact
  <2>4. QED
    BY <2>2, <2>3 DEF ReadsCurrent, Keeps
<1>3. QED
  BY <1>1, <1>2

-----------------------------------------------------------------------------
(***************************************************************************)
(* Steps that try a connection                                             *)
(***************************************************************************)
\* The socket of s, made by its thread or called by its timer, becomes r.
Tries(s, r) ==
    /\ r.thread \in Threads
    /\ r.recvBuf = sock[s].recvBuf /\ r.sendBuf = sock[s].sendBuf
    /\ sock' = [sock EXCEPT ![s] = r]
    /\ Outcome(s, sock[s], r)
    /\ UNCHANGED <<mainVars, needSendList>>
    /\ \/ /\ sock[s] # Unmade /\ r.thread = sock[s].thread
          /\ UNCHANGED <<ioList, ioDeal>>
       \/ /\ sock[s] = Unmade
          /\ IOTakes(r.thread, "connect")
          /\ Head(ioList[r.thread]).server = s

\* Nothing about s is under way.
Quiet(s) ==
    /\ s \in requested
    /\ \A i \in 1..Len(mainList) : mainList[i].server # s
    /\ \A t \in Threads : \A i \in 1..Len(ioList[t]) : ~IsSend(ioList[t][i], s)
    /\ sock[s].sendBuf = <<>>
    /\ \A fd \in DOMAIN conn : conn[fd].server = s => ~conn[fd].reading
    /\ \A fd \in DOMAIN mapAgents : mapAgents[fd] # s

\* reconnectCallback tries a connection.
LEMMA ReconnectTries ==
    ASSUME TypeOK, Wired, NEW s \in Servers, Reconnect(s)
    PROVE  \E r \in SocketType : Tries(s, r)
<1>1. /\ ToConnect(s, [sock[s] EXCEPT !.timer = FALSE]) /\ sock[s] # Unmade
      /\ UNCHANGED <<mainVars, batchVars>>
  BY DEF Reconnect, Served
<1>2. sock[s] \in SocketType /\ sock[s].thread \in Threads
  BY <1>1, ThreadFact
<1>3. PICK o : o = [sock[s] EXCEPT !.timer = FALSE]
  OBVIOUS
<1>4. /\ o \in SocketType /\ o.thread = sock[s].thread /\ o.bev = sock[s].bev
      /\ o.recvBuf = sock[s].recvBuf /\ o.sendBuf = sock[s].sendBuf
  BY <1>2, <1>3 DEF SocketType
<1>5. ToConnect(s, o)
  BY <1>1, <1>3
<1>6. PICK r \in SocketType :
          /\ sock' = [sock EXCEPT ![s] = r]
          /\ r.thread = o.thread
          /\ r.recvBuf = o.recvBuf /\ r.sendBuf = o.sendBuf
          /\ Outcome(s, o, r)
  BY <1>4, <1>5, ToConnectFact
<1>7. Outcome(s, sock[s], r)
  BY <1>4, <1>6 DEF Outcome
<1>8. QED
  BY <1>1, <1>2, <1>4, <1>6, <1>7 DEF Tries, batchVars

\* So does the constructor of a socket.
LEMMA ConnectTries ==
    ASSUME TypeOK, Wired, Asking, NEW t \in Threads, IOConnect(t)
    PROVE  \E s \in Servers : \E r \in SocketType : Tries(s, r)
<1>1. /\ IOTakes(t, "connect") /\ needSendList' = needSendList
      /\ ToConnect(Head(ioList[t]).server, Made(t))
  BY DEF IOConnect
<1>2. PICK s \in Servers : s = Head(ioList[t]).server
  BY <1>1, IOTakesFact
<1>3. UNCHANGED mainVars /\ Head(ioList[t]).cmd = "connect"
  BY <1>1, IOTakesFact
<1>4. sock[s] = Unmade
  <2>1. Head(ioList[t]) = ioList[t][1] /\ 1 \in 1..Len(ioList[t])
    BY <1>1, IOTakesFact, PopFact
  <2>2. QED
    BY <1>2, <1>3, <2>1 DEF Asking, IsConnect
<1>5. /\ sock[s].bev = NotSet /\ sock[s].sendBuf = <<>> /\ sock[s].recvBuf = <<>>
  BY <1>4, ThreadFact
<1>6. /\ Made(t) \in SocketType /\ Made(t).thread = t /\ Made(t).bev = NotSet
      /\ Made(t).sendBuf = <<>> /\ Made(t).recvBuf = <<>>
  BY MadeFact
<1>7. PICK r \in SocketType :
          /\ sock' = [sock EXCEPT ![s] = r]
          /\ r.thread = Made(t).thread
          /\ r.recvBuf = Made(t).recvBuf /\ r.sendBuf = Made(t).sendBuf
          /\ Outcome(s, Made(t), r)
  BY <1>1, <1>2, <1>6, ToConnectFact
<1>8. Outcome(s, sock[s], r)
  BY <1>5, <1>6, <1>7 DEF Outcome
<1>9. QED
  BY <1>1, <1>2, <1>3, <1>4, <1>5, <1>6, <1>7, <1>8 DEF Tries

\* A socket that is not made yet, and one whose timer fires, is quiet.
LEMMA QuietFact ==
    ASSUME ClientInv, NEW s \in Servers,
           Reconnect(s) \/ \E t \in Threads : IOTakes(t, "connect")
                                             /\ Head(ioList[t]).server = s
    PROVE  Quiet(s)
<1> USE DEF ClientInv, IOInv, MainInv
<1>1. sock[s] \in SocketType
  BY DEF TypeOK
<1>2. CASE Reconnect(s)
  <2>1. Served(s) /\ Settled(s) /\ sock[s].thread \in Threads
    BY <1>2, ThreadFact DEF Reconnect, Served
  <2>2. s \in requested
    BY <2>1 DEF Served, Asking
  <2>3. \A i \in 1..Len(mainList) : mainList[i].server # s
    BY <2>1 DEF Settled, About, TypeOK
  <2>4. \A t \in Threads : \A i \in 1..Len(ioList[t]) : ~IsSend(ioList[t][i], s)
    <3>1. SUFFICES ASSUME NEW t \in Threads, NEW i \in 1..Len(ioList[t]),
                          IsSend(ioList[t][i], s)
                   PROVE  FALSE
      OBVIOUS
    <3>2. sock[s].thread = t
      BY <3>1 DEF SendsOwn, IsSend
    <3>3. ioList[t] \in Seq(IOPackage) /\ i \in DOMAIN ioList[t]
      BY DEF TypeOK
    <3>4. QED
      BY <2>1, <3>1, <3>2, <3>3 DEF Settled, About, IsSend
  <2>5. sock[s].sendBuf = <<>>
    BY <2>1 DEF Served, Listed
  <2>6. \A fd \in DOMAIN conn : conn[fd].server = s => ~conn[fd].reading
    BY <2>1 DEF Settled, ReadsCurrent
  <2>7. \A fd \in DOMAIN mapAgents : mapAgents[fd] # s
    <3>1. SUFFICES ASSUME NEW fd \in DOMAIN mapAgents, mapAgents[fd] = s
                   PROVE  FALSE
      OBVIOUS
    <3>2. Up(s)
      BY <3>1 DEF AgentsFound, Up
    <3>3. Current(s) /\ (conn[sock[s].fd].reading \/ Closes(s))
      BY <3>2 DEF Told
    <3>4. ~Closes(s)
      BY <2>3 DEF Closes
    <3>5. sock[s].fd \in DOMAIN conn
      BY <3>3 DEF Current, Wired
    <3>6. QED
      BY <2>1, <3>3, <3>4, <3>5 DEF Settled, Current
  <2>8. QED
    BY <2>2, <2>3, <2>4, <2>5, <2>6, <2>7 DEF Quiet
<1>3. CASE \E t \in Threads : IOTakes(t, "connect") /\ Head(ioList[t]).server = s
  <2>1. PICK t \in Threads : IOTakes(t, "connect") /\ Head(ioList[t]).server = s
    BY <1>3
  <2>2. /\ Head(ioList[t]) = ioList[t][1] /\ 1 \in 1..Len(ioList[t])
        /\ Head(ioList[t]).cmd = "connect" /\ ioList[t] \in Seq(IOPackage)
    BY <2>1, IOTakesFact, PopFact
  <2>3. sock[s] = Unmade
    BY <2>1, <2>2 DEF Asking, IsConnect
  <2>4. s \in requested
    <3>1. 1 \in DOMAIN ioList[t]
      BY <2>2
    <3>2. About(ioList[t], s)
      BY <2>1, <2>2, <3>1 DEF About
    <3>3. QED
      BY <3>2 DEF Asking
  <2>5. \A i \in 1..Len(mainList) : mainList[i].server # s
    BY <2>3 DEF Asking
  <2>6. sock[s].fd = BadFd /\ sock[s].bev = NotSet /\ sock[s].sendBuf = <<>>
    BY <2>3, ThreadFact
  <2>7. ~Current(s)
    BY <2>6 DEF Current
  <2>8. \A u \in Threads : \A i \in 1..Len(ioList[u]) : ~IsSend(ioList[u][i], s)
    BY <2>7 DEF SendsOwn, IsSend
  <2>9. \A fd \in DOMAIN conn : conn[fd].server = s => ~conn[fd].reading
    <3>1. SUFFICES ASSUME NEW fd \in DOMAIN conn, conn[fd].server = s, conn[fd].reading
                   PROVE  FALSE
      OBVIOUS
    <3>2. sock[s].fd = fd /\ fd \in Fds
      BY <3>1, ConnFact DEF ReadsCurrent
    <3>3. QED
      BY <2>6, <3>2, ClientConnAssumption DEF Fds, BadFd
  <2>10. \A fd \in DOMAIN mapAgents : mapAgents[fd] # s
    <3>1. SUFFICES ASSUME NEW fd \in DOMAIN mapAgents, mapAgents[fd] = s
                   PROVE  FALSE
      OBVIOUS
    <3>2. Up(s)
      BY <3>1 DEF AgentsFound, Up
    <3>3. QED
      BY <2>7, <3>2 DEF Told
  <2>11. QED
    BY <2>4, <2>5, <2>6, <2>8, <2>9, <2>10 DEF Quiet
<1>4. QED
  BY <1>2, <1>3

\* What such a step does to connections and sockets: there may be one more.
LEMMA TryFacts ==
    ASSUME TypeOK, Wired, NEW s \in Servers, NEW r \in SocketType, Tries(s, r)
    PROVE  /\ sock'[s] = r /\ r # Unmade
           /\ \A x \in Servers : x # s => sock'[x] = sock[x]
           /\ \A fd \in DOMAIN conn : fd \in DOMAIN conn' /\ conn'[fd] = conn[fd]
           /\ \A fd \in DOMAIN conn' : fd \notin DOMAIN conn =>
                  /\ fd \in Fds /\ fd = r.fd /\ \A x \in DOMAIN conn : x < fd
                  /\ conn'[fd].server = s /\ conn'[fd].out = <<>> /\ conn'[fd].read = 0
                  /\ conn'[fd].reading => r.bev = fd
           /\ r.fd # BadFd => r.fd \in DOMAIN conn' /\ r.fd \notin DOMAIN conn
           /\ r.bev \in Fds => \/ r.bev = sock[s].bev /\ r.bev \in DOMAIN conn
                               \/ r.bev = r.fd /\ r.fd # BadFd
<1>1. conn \in Seq(ConnType) /\ sock \in [Servers -> SocketType]
  BY DEF TypeOK
<1>2. sock'[s] = r /\ (\A x \in Servers : x # s => sock'[x] = sock[x]) /\ Outcome(s, sock[s], r)
  BY <1>1 DEF Tries
<1>3. r # Unmade
  <2>1. -1 \notin Threads /\ Unmade.thread = -1
    BY UnmadeFact, ClientConnAssumption DEF Threads
  <2>2. QED
    BY <2>1 DEF Tries
<1>4. PICK n \in Nat : n = Len(conn) /\ DOMAIN conn = 1..n
  BY <1>1
<1>5. sock[s].bev \in Fds => sock[s].bev \in DOMAIN conn
  BY DEF Wired
<1>6. NoBev \notin Fds /\ BadFd \notin Fds
  BY ClientConnAssumption DEF Fds, NoBev, BadFd
<1>7. CASE conn' = conn
  <2>1. r.fd = BadFd /\ r.bev = sock[s].bev
    <3>1. ASSUME NEW p \in {"open", "closed"}, NEW g \in BOOLEAN,
                 conn' = Append(conn, Attempt(s, p, g))
          PROVE  FALSE
      <4>1. Attempt(s, p, g) \in ConnType
        BY AttemptFact
      <4>2. Len(conn') = n + 1
        BY <1>1, <1>4, <3>1, <4>1, PushFact
      <4>3. QED
        BY <1>4, <1>7, <4>2
    <3>2. QED
      BY <1>2, <3>1 DEF Outcome
  <2>2. QED
    BY <1>2, <1>3, <1>5, <1>7, <2>1
<1>8. CASE conn' # conn
  <2>1. PICK p \in {"open", "closed"} : \E g \in BOOLEAN :
            /\ conn' = Append(conn, Attempt(s, p, g))
            /\ \/ g /\ r.bev = r.fd
               \/ ~g /\ (r.bev = sock[s].bev \/ r.bev = NoBev)
    BY <1>2, <1>8 DEF Outcome
  <2>2. PICK g \in BOOLEAN :
            /\ conn' = Append(conn, Attempt(s, p, g))
            /\ \/ g /\ r.bev = r.fd
               \/ ~g /\ (r.bev = sock[s].bev \/ r.bev = NoBev)
    BY <2>1
  <2>3. PICK c \in ConnType : c = Attempt(s, p, g)
    BY AttemptFact
  <2>4. /\ conn' = Append(conn, c) /\ conn' \in Seq(ConnType) /\ Len(conn') = n + 1
        /\ conn'[n + 1] = c /\ \A i \in 1..n : conn'[i] = conn[i]
    BY <1>1, <1>4, <2>2, <2>3, PushFact
  <2>5. c.server = s /\ c.out = <<>> /\ c.read = 0 /\ c.reading = g
    BY <2>3 DEF Attempt
  <2>6. DOMAIN conn' = 1..(n + 1)
    BY <1>4, <2>4
  <2>7. r.fd = n + 1 /\ r.fd \in Fds
    BY <1>2, <1>4, <1>8 DEF Outcome
  <2>8. \A fd \in DOMAIN conn' : fd \notin DOMAIN conn => fd = n + 1
    BY <1>4, <2>6
  <2>9. \A x \in DOMAIN conn : x < n + 1
    BY <1>4
  <2>10. n + 1 \in DOMAIN conn' /\ n + 1 \notin DOMAIN conn
    BY <1>4, <2>6
  <2>11. \A fd \in DOMAIN conn : fd \in DOMAIN conn' /\ conn'[fd] = conn[fd]
    BY <1>4, <2>4, <2>6
  <2>12. r.bev \in Fds => r.bev = r.fd \/ r.bev = sock[s].bev
    BY <1>6, <2>2
  <2>13. g => r.bev = n + 1
    BY <2>2, <2>7
  <2>14. r.fd # BadFd
    BY <1>6, <2>7
  <2>15. \A fd \in DOMAIN conn' : fd \notin DOMAIN conn =>
                  /\ fd \in Fds /\ fd = r.fd /\ \A x \in DOMAIN conn : x < fd
                  /\ conn'[fd].server = s /\ conn'[fd].out = <<>> /\ conn'[fd].read = 0
                  /\ conn'[fd].reading => r.bev = fd
    BY <2>4, <2>5, <2>7, <2>8, <2>9, <2>13
  <2>16. QED
    BY <1>2, <1>3, <1>5, <2>7, <2>10, <2>11, <2>12, <2>14, <2>15
<1>9. QED
  BY <1>7, <1>8

\* What it does to main's list: at most one package joins it.
LEMMA TryMain ==
    ASSUME TypeOK, Wired, NEW s \in Servers, NEW r \in SocketType, Tries(s, r)
    PROVE  \/ mainList' = mainList
           \/ \E p \in MainPackage :
                  /\ mainList' = Append(mainList, p) /\ p.server = s
                  /\ \/ p.cmd = "close"
                     \/ /\ p.cmd = "connect_end" /\ r.fd # BadFd /\ r.bev = r.fd
                        /\ r.fd \in DOMAIN conn' /\ conn'[r.fd].reading
<1>1. Outcome(s, sock[s], r)
  BY DEF Tries
<1>2. CASE ToMain(Package("close", s, <<>>))
  <2>1. PICK p \in MainPackage : p = Package("close", s, <<>>)
    BY PackageFact
  <2>2. p.server = s /\ p.cmd = "close" /\ mainList' = Append(mainList, p)
    BY <1>2, <2>1 DEF Package, ToMain
  <2>3. QED
    BY <2>2
<1>3. CASE mainList' = mainList
  BY <1>3
<1>4. CASE ~ToMain(Package("close", s, <<>>)) /\ mainList' # mainList
  <2>1. PICK q \in {"open", "closed"} :
            /\ r.fd = Len(conn) + 1 /\ r.fd \in Fds
            /\ conn' = Append(conn, Attempt(s, q, TRUE))
            /\ r.bev = r.fd /\ ToMain(Package("connect_end", s, <<>>))
    BY <1>1, <1>4 DEF Outcome
  <2>2. PICK p \in MainPackage : p = Package("connect_end", s, <<>>)
    BY PackageFact
  <2>3. p.server = s /\ p.cmd = "connect_end" /\ mainList' = Append(mainList, p)
    BY <2>1, <2>2 DEF Package, ToMain
  <2>4. PICK c \in ConnType : c = Attempt(s, q, TRUE)
    BY AttemptFact
  <2>5. c.reading
    BY <2>4 DEF Attempt
  <2>6. conn \in Seq(ConnType)
    BY DEF TypeOK
  <2>7. conn'[r.fd] = c /\ conn' \in Seq(ConnType) /\ Len(conn') = r.fd
    <3>1. conn' = Append(conn, c) /\ r.fd = Len(conn) + 1
      BY <2>1, <2>4
    <3>2. /\ Append(conn, c) \in Seq(ConnType)
          /\ Len(Append(conn, c)) = Len(conn) + 1
          /\ Append(conn, c)[Len(conn) + 1] = c
      BY <2>6, PushFact
    <3>3. QED
      BY <3>1, <3>2
  <2>8. r.fd \in DOMAIN conn' /\ r.fd # BadFd
    BY <2>1, <2>7, ClientConnAssumption DEF Fds, BadFd
  <2>9. QED
    BY <2>1, <2>3, <2>5, <2>7, <2>8
<1>5. QED
  BY <1>2, <1>3, <1>4

\* What it does to the lists of the io threads: a connect of s leaves one.
LEMMA TryLists ==
    ASSUME TypeOK, Wired, NEW s \in Servers, NEW r \in SocketType, Tries(s, r)
    PROVE  \A t \in Threads :
               /\ ioDeal'[t] = 0 => ioDeal[t] = 0
               /\ \E d \in 0..1 :
                    /\ Len(ioList'[t]) = Len(ioList[t]) - d
                    /\ \A i \in 1..Len(ioList'[t]) :
                           i + d \in 1..Len(ioList[t]) /\ ioList'[t][i] = ioList[t][i + d]
                    /\ d = 1 => /\ 1 \in 1..Len(ioList[t])
                                /\ IsConnect(ioList[t][1]) /\ ioList[t][1].server = s
                    /\ sock[s] = Unmade /\ t = r.thread => d = 1
<1>1. TAKE t \in Threads
<1>2. ioList[t] \in Seq(IOPackage) /\ Len(ioList[t]) \in Nat
  BY DEF TypeOK
<1>3. CASE sock[s] # Unmade
  <2>1. ioList' = ioList /\ ioDeal' = ioDeal
    BY <1>3 DEF Tries
  <2>2. /\ Len(ioList'[t]) = Len(ioList[t]) - 0
        /\ \A i \in 1..Len(ioList'[t]) :
               i + 0 \in 1..Len(ioList[t]) /\ ioList'[t][i] = ioList[t][i + 0]
    BY <1>2, <2>1
  <2>3. 0 \in 0..1 /\ 0 # 1
    OBVIOUS
  <2>4. QED
    BY <1>3, <2>1, <2>2, <2>3
<1>4. CASE sock[s] = Unmade
  <2>1. PICK u \in Threads : u = r.thread
    BY DEF Tries
  <2>2. IOTakes(u, "connect") /\ Head(ioList[u]).server = s
    BY <1>4, <2>1 DEF Tries
  <2>3. /\ ioList' = [ioList EXCEPT ![u] = Tail(@)] /\ ioList[u] # <<>>
        /\ Head(ioList[u]).cmd = "connect" /\ ioDeal'[u] > 0
        /\ ioList[u] \in Seq(IOPackage)
    BY <2>2, IOTakesFact
  <2>4. ioDeal' = [ioDeal EXCEPT ![u] = ioDeal[u] + 1]
    BY <2>2 DEF IOTakes
  <2>5. ioDeal'[t] = 0 => ioDeal[t] = 0
    BY <2>3, <2>4 DEF TypeOK
  <2>6. CASE t = u
    <3>1. ioList'[t] = Tail(ioList[t])
      BY <2>3, <2>6 DEF TypeOK
    <3>2. /\ Len(ioList[t]) \in Nat \ {0} /\ Len(Tail(ioList[t])) = Len(ioList[t]) - 1
          /\ \A i \in 1..(Len(ioList[t]) - 1) : Tail(ioList[t])[i] = ioList[t][i + 1]
          /\ Head(ioList[t]) = ioList[t][1]
      BY <2>3, <2>6, PopFact
    <3>3. 1 \in 0..1 /\ 1 \in 1..Len(ioList[t])
      BY <3>2
    <3>4. /\ Len(ioList'[t]) = Len(ioList[t]) - 1
          /\ \A i \in 1..Len(ioList'[t]) :
                 i + 1 \in 1..Len(ioList[t]) /\ ioList'[t][i] = ioList[t][i + 1]
      BY <3>1, <3>2
    <3>5. IsConnect(ioList[t][1]) /\ ioList[t][1].server = s
      BY <2>2, <2>3, <2>6, <3>2 DEF IsConnect
    <3>6. QED
      BY <2>5, <3>3, <3>4, <3>5
  <2>7. CASE t # u
    <3>1. ioList'[t] = ioList[t]
      BY <2>3, <2>7 DEF TypeOK
    <3>2. /\ Len(ioList'[t]) = Len(ioList[t]) - 0
          /\ \A i \in 1..Len(ioList'[t]) :
                 i + 0 \in 1..Len(ioList[t]) /\ ioList'[t][i] = ioList[t][i + 0]
      BY <1>2, <3>1
    <3>3. 0 \in 0..1 /\ 0 # 1 /\ t # r.thread
      BY <2>1, <2>7
    <3>4. QED
      BY <2>5, <3>2, <3>3
  <2>8. QED
    BY <2>6, <2>7
<1>5. QED
  BY <1>3, <1>4

\* The socket's new connection is the only one that is read from.
LEMMA TryWires ==
    ASSUME ClientInv, NEW s \in Servers, NEW r \in SocketType, Tries(s, r), Quiet(s)
    PROVE  Wired' /\ ReadsCurrent'
<1> USE DEF ClientInv
<1>1. /\ sock'[s] = r /\ r # Unmade
      /\ \A x \in Servers : x # s => sock'[x] = sock[x]
      /\ \A fd \in DOMAIN conn : fd \in DOMAIN conn' /\ conn'[fd] = conn[fd]
      /\ \A fd \in DOMAIN conn' : fd \notin DOMAIN conn =>
             /\ fd \in Fds /\ fd = r.fd
             /\ conn'[fd].server = s
             /\ conn'[fd].reading => r.bev = fd
      /\ r.fd # BadFd => r.fd \in DOMAIN conn' /\ r.fd \notin DOMAIN conn
      /\ r.bev \in Fds => \/ r.bev = sock[s].bev /\ r.bev \in DOMAIN conn
                          \/ r.bev = r.fd /\ r.fd # BadFd
  BY TryFacts
<1>2. Wired'
  <2>1. SUFFICES ASSUME NEW x \in Servers
                 PROVE  /\ sock'[x] = Unmade \/ sock'[x].thread \in Threads
                        /\ sock'[x].fd # BadFd => /\ sock'[x].fd \in DOMAIN conn'
                                                  /\ conn'[sock'[x].fd].server = x
                        /\ sock'[x].bev \in Fds => /\ sock'[x].bev \in DOMAIN conn'
                                                   /\ conn'[sock'[x].bev].server = x
                        /\ Len(sock'[x].recvBuf) <= 1
    BY DEF Wired
  <2>2. CASE x # s
    BY <1>1, <2>2 DEF Wired
  <2>3. CASE x = s
    <3>1. r.thread \in Threads /\ r.recvBuf = sock[s].recvBuf
      BY DEF Tries
    <3>2. Len(r.recvBuf) <= 1
      BY <3>1 DEF Wired
    <3>3. r.bev \in Fds => r.bev \in DOMAIN conn' /\ conn'[r.bev].server = s
      BY <1>1 DEF Wired
    <3>4. QED
      BY <1>1, <2>3, <3>1, <3>2, <3>3
  <2>4. QED
    BY <2>2, <2>3
<1>3. ReadsCurrent'
  <2>1. SUFFICES ASSUME NEW fd \in DOMAIN conn', conn'[fd].reading
                 PROVE  sock'[conn'[fd].server].bev = fd /\ sock'[conn'[fd].server].fd = fd
    BY DEF ReadsCurrent
  <2>2. CASE fd \in DOMAIN conn
    <3>1. conn'[fd] = conn[fd] /\ conn[fd].reading /\ conn[fd].server \in Servers
      BY <1>1, <2>1, <2>2, ConnFact
    <3>2. conn[fd].server # s
      BY <2>2, <3>1 DEF Quiet
    <3>3. QED
      BY <1>1, <2>2, <3>1, <3>2 DEF ReadsCurrent
  <2>3. CASE fd \notin DOMAIN conn
    BY <1>1, <2>1, <2>3
  <2>4. QED
    BY <2>2, <2>3
<1>4. QED
  BY <1>2, <1>3

\* Nothing about s is under way on an io thread's list, either before or after,
\* and what is under way about the others stays.
LEMMA TryIO ==
    ASSUME ClientInv, TypeOK', NEW s \in Servers, NEW r \in SocketType, Tries(s, r), Quiet(s)
    PROVE  IOInv'
<1> USE DEF ClientInv, IOInv
<1>1. /\ sock'[s] = r /\ r # Unmade
      /\ \A x \in Servers : x # s => sock'[x] = sock[x]
      /\ \A fd \in DOMAIN conn : fd \in DOMAIN conn' /\ conn'[fd] = conn[fd]
      /\ \A fd \in DOMAIN conn' : fd \notin DOMAIN conn =>
             /\ fd \in Fds /\ fd = r.fd /\ \A x \in DOMAIN conn : x < fd
             /\ conn'[fd].server = s /\ conn'[fd].out = <<>>
      /\ r.fd # BadFd => r.fd \in DOMAIN conn' /\ r.fd \notin DOMAIN conn
      /\ r.bev \in Fds => \/ r.bev = sock[s].bev /\ r.bev \in DOMAIN conn
                          \/ r.bev = r.fd /\ r.fd # BadFd
  BY TryFacts
<1>2. \A t \in Threads :
          /\ ioDeal'[t] = 0 => ioDeal[t] = 0
          /\ \E d \in 0..1 :
                    /\ Len(ioList'[t]) = Len(ioList[t]) - d
                    /\ \A i \in 1..Len(ioList'[t]) :
                           i + d \in 1..Len(ioList[t]) /\ ioList'[t][i] = ioList[t][i + d]
                    /\ d = 1 => /\ 1 \in 1..Len(ioList[t])
                                /\ IsConnect(ioList[t][1]) /\ ioList[t][1].server = s
                    /\ sock[s] = Unmade /\ t = r.thread => d = 1
  BY TryLists
<1>3. \A t \in Threads : \A i \in 1..Len(ioList'[t]) :
          \E j \in 1..Len(ioList[t]) : ioList'[t][i] = ioList[t][j]
  BY <1>2
<1>4. \A t \in Threads : \A i \in 1..Len(ioList'[t]) :
          \E j \in 1..Len(ioList[t]) : j >= i /\ j - i \in 0..1 /\ ioList'[t][i] = ioList[t][j]
                                       /\ (j # i => IsConnect(ioList[t][1])
                                                    /\ ioList[t][1].server = s)
  <2>1. TAKE t \in Threads
  <2>2. PICK d \in 0..1 :
            /\ Len(ioList'[t]) = Len(ioList[t]) - d
            /\ \A i \in 1..Len(ioList'[t]) :
                   i + d \in 1..Len(ioList[t]) /\ ioList'[t][i] = ioList[t][i + d]
            /\ d = 1 => /\ 1 \in 1..Len(ioList[t])
                        /\ IsConnect(ioList[t][1]) /\ ioList[t][1].server = s
    BY <1>2
  <2>3. TAKE i \in 1..Len(ioList'[t])
  <2>4. PICK j \in 1..Len(ioList[t]) : j = i + d
    BY <2>2
  <2>5. j >= i /\ j - i \in 0..1 /\ (j # i => d = 1)
    BY <2>4
  <2>6. QED
    BY <2>2, <2>4, <2>5
<1>5. UNCHANGED <<requested, asked, needSendList>>
  BY DEF Tries, mainVars
<1>6. \A t \in Threads : ioList[t] \in Seq(IOPackage) /\ ioList'[t] \in Seq(IOPackage)
  BY DEF TypeOK
<1>7. \A t \in Threads : \A i \in 1..Len(ioList'[t]) :
          ioList'[t][i].server \in Servers /\ ~IsSend(ioList'[t][i], s)
  <2>1. \A p \in IOPackage : p.server \in Servers
    BY DEF IOPackage
  <2>2. QED
    BY <1>3, <1>6, <2>1 DEF Quiet
\* The only connect of s has left the lists.
<1>8. \A t \in Threads : \A i \in 1..Len(ioList'[t]) :
          IsConnect(ioList'[t][i]) => ioList'[t][i].server # s
  <2>1. SUFFICES ASSUME NEW t \in Threads, NEW i \in 1..Len(ioList'[t]),
                        IsConnect(ioList'[t][i]), ioList'[t][i].server = s
                 PROVE  FALSE
    OBVIOUS
  <2>2. PICK j \in 1..Len(ioList[t]) :
            /\ j - i \in 0..1 /\ ioList'[t][i] = ioList[t][j]
            /\ (j # i => IsConnect(ioList[t][1]) /\ ioList[t][1].server = s)
    BY <1>4
  <2>3. sock[s] = Unmade
    BY <2>1, <2>2 DEF Asking
  <2>4. PICK u \in Threads : u = r.thread
    BY DEF Tries
  <2>5. /\ 1 \in 1..Len(ioList[u])
        /\ IsConnect(ioList[u][1]) /\ ioList[u][1].server = s
        /\ \A k \in 1..Len(ioList'[u]) : ioList'[u][k] = ioList[u][k + 1]
                                         /\ k + 1 \in 1..Len(ioList[u])
    BY <1>2, <2>3, <2>4
  <2>6. \A v, w \in Threads : \A k \in 1..Len(ioList[v]), m \in 1..Len(ioList[w]) :
          IsConnect(ioList[v][k]) /\ IsConnect(ioList[w][m])
          /\ ioList[v][k].server = ioList[w][m].server => v = w /\ k = m
    BY DEF Asking
  <2>7. t = u /\ j = 1
    BY <2>1, <2>2, <2>5, <2>6
  <2>8. i = 1 \/ i = 0
    BY <2>2, <2>7
  <2>9. ioList'[u][i] = ioList[u][i + 1] /\ i + 1 \in 1..Len(ioList[u])
    BY <2>5, <2>7
  <2>10. i + 1 = 1
    BY <2>1, <2>5, <2>6, <2>7, <2>9
  <2>11. QED
    BY <2>10
<1>9. Asking'
  <2>1. ASSUME NEW x \in Servers, x \notin requested'
        PROVE  sock'[x] = Unmade /\ \A t \in Threads : ~About(ioList'[t], x)
    <3>1. x \notin requested /\ x # s
      BY <1>5, <2>1 DEF Quiet
    <3>2. sock[x] = Unmade /\ \A t \in Threads : ~About(ioList[t], x)
      BY <3>1 DEF Asking
    <3>3. ASSUME NEW t \in Threads, About(ioList'[t], x) PROVE FALSE
      <4>1. PICK i \in 1..Len(ioList'[t]) : ioList'[t][i].server = x
        BY <1>6, <3>3 DEF About
      <4>2. PICK j \in 1..Len(ioList[t]) : ioList'[t][i] = ioList[t][j]
        BY <1>3
      <4>3. j \in DOMAIN ioList[t] /\ ioList[t][j].server = x
        BY <1>6, <4>1, <4>2
      <4>4. QED
        BY <3>2, <4>3 DEF About
    <3>4. QED
      BY <1>1, <3>1, <3>2, <3>3
  <2>2. \A t \in Threads : \A i \in 1..Len(ioList'[t]) :
           IsConnect(ioList'[t][i]) => sock'[ioList'[t][i].server] = Unmade
    <3>1. SUFFICES ASSUME NEW t \in Threads, NEW i \in 1..Len(ioList'[t]),
                          IsConnect(ioList'[t][i])
                   PROVE  sock'[ioList'[t][i].server] = Unmade
      OBVIOUS
    <3>2. PICK j \in 1..Len(ioList[t]) : ioList'[t][i] = ioList[t][j]
      BY <1>3
    <3>3. sock[ioList'[t][i].server] = Unmade
      BY <3>1, <3>2 DEF Asking
    <3>4. QED
      BY <1>1, <1>7, <1>8, <3>1, <3>3
  <2>3. \A t, u \in Threads : \A i \in 1..Len(ioList'[t]), j \in 1..Len(ioList'[u]) :
           IsConnect(ioList'[t][i]) /\ IsConnect(ioList'[u][j])
           /\ ioList'[t][i].server = ioList'[u][j].server => t = u /\ i = j
    <3>1. SUFFICES ASSUME NEW t \in Threads, NEW u \in Threads,
                          NEW i \in 1..Len(ioList'[t]), NEW j \in 1..Len(ioList'[u]),
                          IsConnect(ioList'[t][i]), IsConnect(ioList'[u][j]),
                          ioList'[t][i].server = ioList'[u][j].server
                   PROVE  t = u /\ i = j
      OBVIOUS
    <3>2. \A v, w \in Threads : \A k \in 1..Len(ioList[v]), m \in 1..Len(ioList[w]) :
            IsConnect(ioList[v][k]) /\ IsConnect(ioList[w][m])
            /\ ioList[v][k].server = ioList[w][m].server => v = w /\ k = m
      BY DEF Asking
    <3>3. PICK d \in 0..1 :
              /\ Len(ioList'[t]) = Len(ioList[t]) - d
              /\ \A k \in 1..Len(ioList'[t]) :
                     k + d \in 1..Len(ioList[t]) /\ ioList'[t][k] = ioList[t][k + d]
      BY <1>2
    <3>4. PICK e \in 0..1 :
              /\ Len(ioList'[u]) = Len(ioList[u]) - e
              /\ \A k \in 1..Len(ioList'[u]) :
                     k + e \in 1..Len(ioList[u]) /\ ioList'[u][k] = ioList[u][k + e]
      BY <1>2
    <3>5. PICK k \in 1..Len(ioList[t]), m \in 1..Len(ioList[u]) :
              /\ k = i + d /\ ioList'[t][i] = ioList[t][k]
              /\ m = j + e /\ ioList'[u][j] = ioList[u][m]
      BY <3>3, <3>4
    <3>6. t = u /\ k = m
      BY <3>1, <3>2, <3>5
    <3>7. d = e
      BY <1>6, <3>3, <3>4, <3>6
    <3>8. QED
      BY <3>5, <3>6, <3>7
  <2>4. \A i \in 1..Len(mainList') : sock'[mainList'[i].server] # Unmade
    <3>1. mainList \in Seq(MainPackage)
      BY DEF TypeOK
    <3>2. \A i \in 1..Len(mainList) : mainList[i].server \in Servers
                                      /\ sock[mainList[i].server] # Unmade
      <4>1. \A p \in MainPackage : p.server \in Servers
        BY DEF MainPackage
      <4>2. QED
        BY <3>1, <4>1 DEF Asking
    <3>3. \A i \in 1..Len(mainList) : sock'[mainList[i].server] # Unmade
      BY <1>1, <3>2
    <3>4. CASE mainList' = mainList
      BY <3>3, <3>4
    <3>5. CASE mainList' # mainList
      <4>1. PICK p \in MainPackage : mainList' = Append(mainList, p) /\ p.server = s
        BY <3>5, TryMain
      <4>2. QED
        BY <1>1, <3>1, <3>3, <4>1, PushFact
    <3>6. QED
      BY <3>4, <3>5
  <2>5. QED
    BY <2>1, <2>2, <2>3, <2>4 DEF Asking
<1>10. SendsOwn'
  <2>1. SUFFICES ASSUME NEW t \in Threads, NEW i \in 1..Len(ioList'[t]),
                        ioList'[t][i].cmd = "send_buf"
                 PROVE  LET x == ioList'[t][i].server
                        IN  /\ sock'[x].thread = t
                            /\ sock'[x].fd # BadFd /\ sock'[x].bev = sock'[x].fd
                            /\ ioList'[t][i].buf[1] = sock'[x].fd
    BY DEF SendsOwn, Current
  <2>2. PICK j \in 1..Len(ioList[t]) : ioList'[t][i] = ioList[t][j]
    BY <1>3
  <2>3. PICK x \in Servers : x = ioList'[t][i].server /\ x # s
    BY <1>7, <2>1 DEF IsSend
  <2>4. sock[x].thread = t /\ Current(x) /\ ioList'[t][i].buf[1] = sock[x].fd
    BY <2>1, <2>2, <2>3 DEF SendsOwn
  <2>5. QED
    BY <1>1, <2>3, <2>4 DEF Current
<1>11. Listed'
  <2>1. SUFFICES
          /\ \A x \in Servers : sock'[x].sendBuf # <<>> =>
                 /\ sock'[x].fd # BadFd /\ sock'[x].bev = sock'[x].fd
                 /\ x \in needSendList'[sock'[x].thread]
          /\ \A t \in Threads : ioDeal'[t] = 0 => needSendList'[t] = {}
    BY DEF Listed, Current
  <2>2. r.sendBuf = <<>>
    BY DEF Quiet, Tries
  <2>3. QED
    BY <1>1, <1>2, <1>5, <2>2 DEF Listed, Current
<1>12. \A x \in Servers : x # s /\ sock'[x].bev \in Fds =>
           /\ sock'[x] = sock[x] /\ sock[x].bev \in DOMAIN conn
           /\ conn'[sock[x].bev] = conn[sock[x].bev]
  BY <1>1 DEF Wired
<1>13. Buffered'
  <2>1. SUFFICES ASSUME NEW x \in Servers, sock'[x].bev \in Fds
                 PROVE  \A i \in 1..Len(sock'[x].sendBuf) :
                            sock'[x].sendBuf[i] =
                                <<sock'[x].bev, Len(conn'[sock'[x].bev].out) + i>>
    BY DEF Buffered
  <2>2. CASE x = s
    BY <1>1, <2>2 DEF Quiet, Tries
  <2>3. CASE x # s
    <3>1. sock'[x] = sock[x] /\ conn'[sock[x].bev] = conn[sock[x].bev] /\ sock[x].bev \in Fds
      BY <1>12, <2>1, <2>3
    <3>2. \A i \in 1..Len(sock[x].sendBuf) :
              sock[x].sendBuf[i] = <<sock[x].bev, Len(conn[sock[x].bev].out) + i>>
      BY <3>1 DEF Buffered
    <3>3. QED
      BY <3>1, <3>2
  <2>4. QED
    BY <2>2, <2>3
<1>14. NotAsked'
  BY <1>1, <1>5 DEF NotAsked
<1>15. RequestsOnOwnConnection'
  BY <1>1 DEF RequestsOnOwnConnection
<1>16. Numbered'
  <2>1. SUFFICES ASSUME NEW x \in Servers, sock'[x].bev \in Fds
                 PROVE  /\ Base(x)' <= asked'[sock'[x].bev]
                        /\ \A t \in Threads : \A i \in 1..Len(ioList'[t]) :
                               IsSend(ioList'[t][i], x) =>
                                 /\ ioList'[t][i].buf[2] \in (Base(x)' + 1)..asked'[sock'[x].bev]
                                 /\ \A j \in 1..(i - 1) : IsSend(ioList'[t][j], x) =>
                                        ioList'[t][j].buf[2] < ioList'[t][i].buf[2]
                        /\ \A k \in (Base(x)' + 1)..asked'[sock'[x].bev] :
                               \E i \in 1..Len(ioList'[sock'[x].thread]) :
                                   /\ IsSend(ioList'[sock'[x].thread][i], x)
                                   /\ ioList'[sock'[x].thread][i].buf[2] = k
    BY DEF Numbered
  <2>2. CASE x = s
    <3>1. \A t \in Threads : \A i \in 1..Len(ioList'[t]) : ~IsSend(ioList'[t][i], x)
      BY <1>7, <2>2
    <3>2. Base(x)' = asked'[sock'[x].bev] /\ Base(x)' \in Nat
      <4>1. Base(x)' = Len(conn'[r.bev].out) + Len(<<>>) /\ sock'[x].bev = r.bev
        BY <1>1, <2>2 DEF Base, Quiet, Tries
      <4>2. CASE r.bev = sock[s].bev /\ r.bev \in DOMAIN conn
        <5>1. sock[s].bev \in Fds /\ conn'[r.bev] = conn[sock[s].bev]
          BY <1>1, <2>1, <2>2, <4>2
        <5>2. Base(s) = Len(conn[sock[s].bev].out) + Len(<<>>)
          BY DEF Base, Quiet
        <5>3. /\ Base(s) <= asked[sock[s].bev]
              /\ \A k \in (Base(s) + 1)..asked[sock[s].bev] :
                     \E i \in 1..Len(ioList[sock[s].thread]) :
                         IsSend(ioList[sock[s].thread][i], s)
          BY <5>1 DEF Numbered
        <5>4. sock[s].thread \in Threads
          <6>1. sock[s].bev # NotSet
            BY <5>1, ClientConnAssumption DEF Fds, NotSet
          <6>2. QED
            BY <6>1, ThreadFact
        <5>5. \A k \in (Base(s) + 1)..asked[sock[s].bev] : FALSE
          BY <5>3, <5>4 DEF Quiet
        <5>6. asked[sock[s].bev] \in Nat
          BY <5>1, ClientConnAssumption DEF TypeOK
        <5>7. conn[sock[s].bev].out \in Seq(Fds \X Requests)
          BY <4>2, ConnFact DEF ConnType
        <5>8. Base(s) \in Nat
          BY <5>2, <5>7
        <5>9. Base(s) = asked[sock[s].bev]
          <6>1. PICK a \in Nat, b \in Nat : a = asked[sock[s].bev] /\ b = Base(s)
            BY <5>6, <5>8
          <6>2. b <= a /\ \A k \in (b + 1)..a : FALSE
            BY <5>3, <5>5, <6>1
          <6>3. a \in (b + 1)..a \/ a = b
            BY <6>2
          <6>4. QED
            BY <6>1, <6>2, <6>3
        <5>10. QED
          BY <1>5, <4>1, <4>2, <5>1, <5>2, <5>8, <5>9
      <4>3. CASE r.bev = r.fd /\ r.fd # BadFd
        <5>1. conn'[r.bev].out = <<>> /\ r.bev \notin DOMAIN conn /\ r.bev \in Fds
          BY <1>1, <4>3
        <5>2. asked[r.bev] = 0
          BY <5>1 DEF NotAsked
        <5>3. Base(x)' = 0
          BY <4>1, <5>1
        <5>4. QED
          BY <1>5, <4>1, <5>2, <5>3
      <4>4. QED
        BY <1>1, <2>1, <2>2, <4>2, <4>3
    <3>3. \A k \in (Base(x)' + 1)..asked'[sock'[x].bev] : FALSE
      BY <3>2
    <3>4. Base(x)' <= asked'[sock'[x].bev]
      BY <3>2
    <3>5. QED
      BY <3>1, <3>3, <3>4
  <2>3. CASE x # s
    <3>1. sock'[x] = sock[x] /\ conn'[sock[x].bev] = conn[sock[x].bev] /\ sock[x].bev \in Fds
      BY <1>12, <2>1, <2>3
    <3>2. Base(x)' = Base(x) /\ asked' = asked /\ sock'[x].bev = sock[x].bev
            /\ sock'[x].thread = sock[x].thread
      BY <1>5, <3>1 DEF Base
    <3>3. /\ Base(x) <= asked[sock[x].bev]
          /\ \A t \in Threads : \A i \in 1..Len(ioList[t]) : IsSend(ioList[t][i], x) =>
                 /\ ioList[t][i].buf[2] \in (Base(x) + 1)..asked[sock[x].bev]
                 /\ \A j \in 1..(i - 1) : IsSend(ioList[t][j], x) =>
                        ioList[t][j].buf[2] < ioList[t][i].buf[2]
          /\ \A k \in (Base(x) + 1)..asked[sock[x].bev] :
                 \E i \in 1..Len(ioList[sock[x].thread]) :
                     /\ IsSend(ioList[sock[x].thread][i], x)
                     /\ ioList[sock[x].thread][i].buf[2] = k
      BY <3>1 DEF Numbered
    <3>4. \A t \in Threads : \A i \in 1..Len(ioList'[t]) : IsSend(ioList'[t][i], x) =>
             /\ ioList'[t][i].buf[2] \in (Base(x) + 1)..asked[sock[x].bev]
             /\ \A j \in 1..(i - 1) : IsSend(ioList'[t][j], x) =>
                    ioList'[t][j].buf[2] < ioList'[t][i].buf[2]
      <4>1. SUFFICES ASSUME NEW t \in Threads, NEW i \in 1..Len(ioList'[t]),
                            IsSend(ioList'[t][i], x)
                     PROVE  /\ ioList'[t][i].buf[2] \in (Base(x) + 1)..asked[sock[x].bev]
                            /\ \A j \in 1..(i - 1) : IsSend(ioList'[t][j], x) =>
                                   ioList'[t][j].buf[2] < ioList'[t][i].buf[2]
        OBVIOUS
      <4>2. PICK d \in 0..1 : \A k \in 1..Len(ioList'[t]) :
                k + d \in 1..Len(ioList[t]) /\ ioList'[t][k] = ioList[t][k + d]
        BY <1>2
      <4>3. i + d \in 1..Len(ioList[t]) /\ ioList'[t][i] = ioList[t][i + d]
        BY <4>2
      <4>4. ASSUME NEW j \in 1..(i - 1), IsSend(ioList'[t][j], x)
            PROVE  ioList'[t][j].buf[2] < ioList'[t][i].buf[2]
        <5>1. Len(ioList'[t]) \in Nat
          BY <1>6
        <5>2. j \in 1..Len(ioList'[t]) /\ j + d \in 1..((i + d) - 1)
          BY <5>1
        <5>3. ioList'[t][j] = ioList[t][j + d]
          BY <4>2, <5>2
        <5>4. QED
          BY <3>3, <4>1, <4>3, <4>4, <5>2, <5>3
      <4>5. QED
        BY <3>3, <4>1, <4>3, <4>4
    <3>5. ASSUME NEW k \in (Base(x) + 1)..asked[sock[x].bev]
          PROVE  \E i \in 1..Len(ioList'[sock[x].thread]) :
                     /\ IsSend(ioList'[sock[x].thread][i], x)
                     /\ ioList'[sock[x].thread][i].buf[2] = k
      <4>1. PICK t : t = sock[x].thread
        OBVIOUS
      <4>2. PICK i \in 1..Len(ioList[t]) : IsSend(ioList[t][i], x) /\ ioList[t][i].buf[2] = k
        BY <3>3, <3>5, <4>1
      <4>3. t \in Threads
        <5>1. sock[x].bev # NotSet
          BY <3>1, ClientConnAssumption DEF Fds, NotSet
        <5>2. QED
          BY <4>1, <5>1, ThreadFact
      <4>4. PICK d \in 0..1 :
                /\ Len(ioList'[t]) = Len(ioList[t]) - d
                /\ \A m \in 1..Len(ioList'[t]) :
                       m + d \in 1..Len(ioList[t]) /\ ioList'[t][m] = ioList[t][m + d]
                /\ d = 1 => IsConnect(ioList[t][1])
        BY <1>2, <4>3
      <4>5. d = 1 => i # 1
        BY <4>2, <4>4 DEF IsConnect, IsSend
      <4>6. Len(ioList[t]) \in Nat
        BY <1>6, <4>3
      <4>7. PICK m \in 1..Len(ioList'[t]) : m + d = i
        <5>1. i - d \in 1..Len(ioList'[t])
          BY <4>4, <4>5, <4>6
        <5>2. QED
          BY <5>1
      <4>8. ioList'[t][m] = ioList[t][i]
        BY <4>4, <4>7
      <4>9. QED
        BY <4>1, <4>2, <4>8
    <3>6. QED
      BY <3>2, <3>3, <3>4, <3>5
  <2>4. QED
    BY <2>2, <2>3
<1>17. QED
  BY <1>9, <1>10, <1>11, <1>13, <1>14, <1>15, <1>16

\* Main knows nothing of s, and hears of the new connection last.
LEMMA TryTold ==
    ASSUME ClientInv, TypeOK', NEW s \in Servers, NEW r \in SocketType, Tries(s, r), Quiet(s)
    PROVE  MainInv'
<1> USE DEF ClientInv, MainInv
<1>1. /\ sock'[s] = r
      /\ \A x \in Servers : x # s => sock'[x] = sock[x]
      /\ \A fd \in DOMAIN conn : fd \in DOMAIN conn' /\ conn'[fd] = conn[fd]
      /\ \A fd \in DOMAIN conn' : fd \notin DOMAIN conn =>
             /\ fd \in Fds /\ \A x \in DOMAIN conn : x < fd
             /\ conn'[fd].server = s
      /\ r.fd # BadFd => r.fd \in DOMAIN conn' /\ r.fd \notin DOMAIN conn
  BY TryFacts
<1>2. mapAgents' = mapAgents /\ session' = session
  BY DEF Tries, mainVars
<1>3. mainList \in Seq(MainPackage) /\ \A i \in 1..Len(mainList) : mainList[i].server \in Servers
  <2>1. \A p \in MainPackage : p.server \in Servers
    BY DEF MainPackage
  <2>2. mainList \in Seq(MainPackage)
    BY DEF TypeOK
  <2>3. QED
    BY <2>1, <2>2
<1>4. /\ Len(mainList') >= Len(mainList)
      /\ \A i \in 1..Len(mainList) : i \in 1..Len(mainList') /\ mainList'[i] = mainList[i]
      /\ \A i \in 1..Len(mainList') : i \notin 1..Len(mainList) =>
             /\ mainList'[i].server = s /\ mainList'[i].cmd # "recv_buf"
             /\ i = Len(mainList) + 1
             /\ mainList'[i].cmd = "connect_end" =>
                    /\ r.fd # BadFd /\ r.bev = r.fd
                    /\ r.fd \in DOMAIN conn' /\ conn'[r.fd].reading
  <2>1. CASE mainList' = mainList
    BY <1>3, <2>1
  <2>2. CASE mainList' # mainList
    <3>1. PICK p \in MainPackage :
              /\ mainList' = Append(mainList, p) /\ p.server = s
              /\ \/ p.cmd = "close"
                 \/ /\ p.cmd = "connect_end" /\ r.fd # BadFd /\ r.bev = r.fd
                    /\ r.fd \in DOMAIN conn' /\ conn'[r.fd].reading
      BY <2>2, TryMain
    <3>2. PICK n \in Nat : n = Len(mainList) /\ Len(mainList') = n + 1
      BY <1>3, <3>1, PushFact
    <3>3. \A i \in 1..n : i \in 1..(n + 1) /\ mainList'[i] = mainList[i]
      BY <1>3, <3>1, <3>2, PushFact
    <3>4. mainList'[n + 1] = p
      BY <1>3, <3>1, <3>2, PushFact
    <3>5. \A i \in 1..(n + 1) : i \notin 1..n => i = n + 1
      OBVIOUS
    <3>6. n + 1 >= n
      OBVIOUS
    <3>7. QED
      BY <3>1, <3>2, <3>3, <3>4, <3>5, <3>6
  <2>3. QED
    BY <2>1, <2>2
<1>5. Len(mainList) \in Nat /\ Len(mainList') \in Nat
  BY <1>3 DEF TypeOK
\* The others.
<1>6. \A x \in Servers : x # s => /\ Up(x)' = Up(x)
                                  /\ Begins(x)' => Begins(x)
                                  /\ Closes(x) => Closes(x)'
                                  /\ Current(x)' = Current(x)
  <2>1. SUFFICES ASSUME NEW x \in Servers, x # s
                 PROVE  /\ Up(x)' = Up(x) /\ (Begins(x)' => Begins(x))
                        /\ (Closes(x) => Closes(x)') /\ Current(x)' = Current(x)
    OBVIOUS
  <2>2. sock'[x] = sock[x]
    BY <1>1, <2>1
  <2>3. Up(x)' = Up(x) /\ Current(x)' = Current(x)
    BY <1>2, <2>2 DEF Up, FdOf, Current
  <2>4. Begins(x)' => Begins(x)
    BY <1>4, <2>1 DEF Begins
  <2>5. Closes(x) => Closes(x)'
    BY <1>4 DEF Closes
  <2>6. QED
    BY <2>3, <2>4, <2>5
<1>7. ~Up(s) /\ ~Up(s)'
  BY <1>2 DEF Quiet, Up
<1>8. Begins(s)' => /\ r.fd # BadFd /\ r.bev = r.fd
                    /\ r.fd \in DOMAIN conn' /\ conn'[r.fd].reading
  <2>1. SUFFICES ASSUME Begins(s)'
                 PROVE  /\ r.fd # BadFd /\ r.bev = r.fd
                        /\ r.fd \in DOMAIN conn' /\ conn'[r.fd].reading
    OBVIOUS
  <2>2. PICK i \in 1..Len(mainList') :
            mainList'[i].cmd = "connect_end" /\ mainList'[i].server = s
    BY <2>1 DEF Begins
  <2>3. i \notin 1..Len(mainList)
    BY <1>4, <2>2 DEF Quiet
  <2>4. QED
    BY <1>4, <2>2, <2>3
<1>9. Told'
  <2>1. SUFFICES ASSUME NEW x \in Servers, Begins(x)' \/ Up(x)'
                 PROVE  Current(x)' /\ (conn'[sock'[x].fd].reading \/ Closes(x)')
    BY DEF Told
  <2>2. CASE x = s
    BY <1>1, <1>7, <1>8, <2>1, <2>2 DEF Current
  <2>3. CASE x # s
    <3>1. Current(x) /\ (conn[sock[x].fd].reading \/ Closes(x))
      BY <1>6, <2>1, <2>3 DEF Told
    <3>2. conn'[sock'[x].fd] = conn[sock[x].fd]
      BY <1>1, <2>3, <3>1 DEF Current, Wired
    <3>3. QED
      BY <1>6, <2>3, <3>1, <3>2
  <2>4. QED
    BY <2>2, <2>3
<1>10. BeginsFirst'
  <2>1. SUFFICES ASSUME NEW x \in Servers, NEW i \in 1..Len(mainList'),
                        mainList'[i].cmd = "connect_end", mainList'[i].server = x
                 PROVE  /\ \A j \in 1..(i - 1) : mainList'[j].server # x
                        /\ ~Up(x)'
                        /\ session'[x].conn < sock'[x].fd
    BY DEF BeginsFirst
  <2>2. CASE i \in 1..Len(mainList)
    <3>1. mainList'[i] = mainList[i] /\ x # s
      BY <1>4, <2>1, <2>2 DEF Quiet
    <3>2. \A j \in 1..(i - 1) : mainList'[j] = mainList[j]
      BY <1>4, <1>5, <2>2
    <3>3. /\ \A j \in 1..(i - 1) : mainList[j].server # x
          /\ ~Up(x)
          /\ session[x].conn < sock[x].fd
      BY <2>1, <2>2, <3>1 DEF BeginsFirst
    <3>4. \A j \in 1..(i - 1) : mainList'[j].server # x
      BY <3>2, <3>3
    <3>5. session'[x].conn < sock'[x].fd
      BY <1>1, <1>2, <3>1, <3>3
    <3>6. QED
      BY <1>6, <3>1, <3>3, <3>4, <3>5
  <2>3. CASE i \notin 1..Len(mainList)
    <3>1. x = s /\ i = Len(mainList) + 1 /\ r.fd # BadFd /\ r.fd \in DOMAIN conn'
      BY <1>4, <2>1, <2>3
    <3>2. \A j \in 1..(i - 1) : mainList'[j].server # s
      BY <1>4, <1>5, <3>1 DEF Quiet
    <3>3. session[s].conn < r.fd
      <4>1. r.fd \notin DOMAIN conn /\ r.fd \in Fds
        BY <1>1, <3>1
      <4>2. session[s].conn = 0 \/ session[s].conn \in DOMAIN conn
        BY DEF SessionsUp
      <4>3. 0 < r.fd
        BY <4>1, ClientConnAssumption DEF Fds
      <4>4. \A y \in DOMAIN conn : y < r.fd
        BY <1>1, <3>1, <4>1
      <4>5. QED
        BY <4>2, <4>3, <4>4
    <3>4. session'[x].conn < sock'[x].fd
      BY <1>1, <1>2, <3>1, <3>3
    <3>5. QED
      BY <1>7, <3>1, <3>2, <3>4
  <2>4. QED
    BY <2>2, <2>3
<1>11. SessionsUp'
  <2>1. SUFFICES ASSUME NEW x \in Servers
                 PROVE  /\ session'[x].link = "up" <=> Up(x)'
                        /\ Up(x)' => /\ session'[x].conn = FdOf(x)'
                                     /\ session'[x].last <= conn'[FdOf(x)'].read
                        /\ session'[x].conn # 0 =>
                               /\ session'[x].conn \in DOMAIN conn'
                               /\ conn'[session'[x].conn].server = x
    BY DEF SessionsUp
  <2>2. session[x].conn # 0 => /\ session'[x].conn \in DOMAIN conn'
                               /\ conn'[session'[x].conn].server = x
    BY <1>1, <1>2 DEF SessionsUp
  <2>3. CASE x = s
    BY <1>2, <1>7, <2>2, <2>3 DEF SessionsUp
  <2>4. CASE x # s
    <3>1. Up(x)' = Up(x) /\ FdOf(x)' = FdOf(x) /\ sock'[x] = sock[x]
      BY <1>1, <1>6, <2>4 DEF FdOf
    <3>2. Up(x) => conn'[FdOf(x)] = conn[FdOf(x)]
      BY <1>1 DEF Told, Current, Wired, FdOf
    <3>3. /\ session[x].link = "up" <=> Up(x)
          /\ Up(x) => /\ session[x].conn = FdOf(x)
                      /\ session[x].last <= conn[FdOf(x)].read
      BY DEF SessionsUp
    <3>4. QED
      BY <1>2, <2>2, <3>1, <3>2, <3>3
  <2>5. QED
    BY <2>3, <2>4
<1>12. RecvRising'
  <2>1. SUFFICES ASSUME NEW x \in Servers, NEW i \in 1..Len(mainList'),
                        mainList'[i].cmd = "recv_buf", mainList'[i].server = x
                 PROVE  /\ sock'[x].bev \in Fds
                        /\ Number(i)' <= conn'[sock'[x].bev].read
                        /\ Up(x)' => session'[x].last < Number(i)'
                        /\ \A j \in 1..(i - 1) :
                               mainList'[j].cmd = "recv_buf" /\ mainList'[j].server = x =>
                                   Number(j)' < Number(i)'
    BY DEF RecvRising
  <2>2. i \in 1..Len(mainList)
    BY <1>4, <2>1
  <2>3. mainList'[i] = mainList[i] /\ x # s
    BY <1>4, <2>1, <2>2 DEF Quiet
  <2>4. \A j \in 1..(i - 1) : mainList'[j] = mainList[j]
    BY <1>4, <1>5, <2>2
  <2>5. Number(i)' = Number(i) /\ \A j \in 1..(i - 1) : Number(j)' = Number(j)
    BY <2>3, <2>4 DEF Number
  <2>6. /\ sock[x].bev \in Fds
        /\ Number(i) <= conn[sock[x].bev].read
        /\ Up(x) => session[x].last < Number(i)
        /\ \A j \in 1..(i - 1) :
               mainList[j].cmd = "recv_buf" /\ mainList[j].server = x =>
                   Number(j) < Number(i)
    BY <2>1, <2>2, <2>3 DEF RecvRising
  <2>7. sock'[x] = sock[x] /\ conn'[sock[x].bev] = conn[sock[x].bev]
    BY <1>1, <2>3, <2>6 DEF Wired
  <2>8. Up(x)' => session'[x].last < Number(i)'
    BY <1>2, <1>6, <2>3, <2>5, <2>6
  <2>9. QED
    BY <2>4, <2>5, <2>6, <2>7, <2>8
<1>13. AgentsFound'
  <2>1. SUFFICES ASSUME NEW fd \in DOMAIN mapAgents PROVE FdOf(mapAgents[fd])' = fd
    BY <1>2 DEF AgentsFound
  <2>2. mapAgents[fd] \in Servers /\ mapAgents[fd] # s
    BY DEF TypeOK, Quiet
  <2>3. QED
    BY <1>1, <1>2, <2>2 DEF AgentsFound, FdOf
<1>14. QED
  BY <1>9, <1>10, <1>11, <1>12, <1>13

-----------------------------------------------------------------------------
(***************************************************************************)
(* The requests under way                                                  *)
(***************************************************************************)
\* The lists as they are, and as many requests that have left them.
LEMMA NumberedKept ==
    ASSUME Numbered, Keeps, UNCHANGED <<ioList, asked>>,
           \A s \in Servers : sock[s].bev \in Fds => Base(s)' = Base(s)
    PROVE  Numbered'
<1>1. SUFFICES ASSUME NEW x \in Servers, sock'[x].bev \in Fds
               PROVE  /\ Base(x)' <= asked'[sock'[x].bev]
                      /\ \A t \in Threads : \A i \in 1..Len(ioList'[t]) :
                             IsSend(ioList'[t][i], x) =>
                               /\ ioList'[t][i].buf[2] \in (Base(x)' + 1)..asked'[sock'[x].bev]
                               /\ \A j \in 1..(i - 1) : IsSend(ioList'[t][j], x) =>
                                      ioList'[t][j].buf[2] < ioList'[t][i].buf[2]
                      /\ \A k \in (Base(x)' + 1)..asked'[sock'[x].bev] :
                             \E i \in 1..Len(ioList'[sock'[x].thread]) :
                                 /\ IsSend(ioList'[sock'[x].thread][i], x)
                                 /\ ioList'[sock'[x].thread][i].buf[2] = k
  BY DEF Numbered
<1>2. sock'[x].bev = sock[x].bev /\ sock'[x].thread = sock[x].thread
  BY DEF Keeps
<1>3. Base(x)' = Base(x) /\ sock[x].bev \in Fds
  BY <1>1, <1>2
<1>4. QED
  BY <1>2, <1>3 DEF Numbered

\* A step that leaves the requests where they are.
LEMMA IOKept ==
    ASSUME ClientInv, TypeOK', Keeps, IOSame,
           \A i \in 1..Len(mainList') : sock[mainList'[i].server] # Unmade
    PROVE  IOInv'
<1> USE DEF ClientInv, IOInv
<1>1. UNCHANGED <<ioList, needSendList, requested, asked>>
  BY DEF IOSame
<1>2. \A t \in Threads : \A i \in 1..Len(ioList[t]) : ioList[t][i].server \in Servers
  <2>1. \A p \in IOPackage : p.server \in Servers
    BY DEF IOPackage
  <2>2. \A t \in Threads : ioList[t] \in Seq(IOPackage)
    BY DEF TypeOK
  <2>3. QED
    BY <2>1, <2>2
<1>3. Asking'
  <2>1. \A i \in 1..Len(mainList') : sock'[mainList'[i].server] # Unmade
    <3>1. \A p \in MainPackage : p.server \in Servers
      BY DEF MainPackage
    <3>2. \A i \in 1..Len(mainList') : mainList'[i].server \in Servers
      BY <3>1 DEF TypeOK
    <3>3. QED
      BY <3>2 DEF Keeps
  <2>2. \A s \in Servers : s \notin requested' =>
            sock'[s] = Unmade /\ \A t \in Threads : ~About(ioList'[t], s)
    BY <1>1 DEF Asking, Keeps
  <2>3. \A t \in Threads : \A i \in 1..Len(ioList'[t]) :
            IsConnect(ioList'[t][i]) => sock'[ioList'[t][i].server] = Unmade
    BY <1>1, <1>2 DEF Asking, Keeps
  <2>4. \A t, u \in Threads : \A i \in 1..Len(ioList'[t]), j \in 1..Len(ioList'[u]) :
            IsConnect(ioList'[t][i]) /\ IsConnect(ioList'[u][j])
            /\ ioList'[t][i].server = ioList'[u][j].server => t = u /\ i = j
    BY <1>1 DEF Asking
  <2>5. QED
    BY <2>1, <2>2, <2>3, <2>4 DEF Asking
<1>4. SendsOwn'
  BY <1>1, <1>2 DEF SendsOwn, Current, Keeps
<1>5. Listed'
  BY <1>1 DEF Listed, Current, Keeps, IOSame
<1>6. \A s \in Servers : sock[s].bev \in Fds =>
          /\ sock[s].bev \in DOMAIN conn /\ conn'[sock[s].bev].out = conn[sock[s].bev].out
          /\ sock'[s].bev = sock[s].bev /\ sock'[s].sendBuf = sock[s].sendBuf
  BY DEF Wired, Keeps, IOSame
<1>7. Buffered'
  <2>1. SUFFICES ASSUME NEW x \in Servers, sock'[x].bev \in Fds
                 PROVE  \A i \in 1..Len(sock'[x].sendBuf) :
                            sock'[x].sendBuf[i] =
                                <<sock'[x].bev, Len(conn'[sock'[x].bev].out) + i>>
    BY DEF Buffered
  <2>2. sock[x].bev \in Fds
    BY <2>1 DEF Keeps
  <2>3. QED
    BY <1>6, <2>2 DEF Buffered
<1>8. Numbered'
  <2>1. \A s \in Servers : sock[s].bev \in Fds => Base(s)' = Base(s)
    BY <1>6 DEF Base
  <2>2. QED
    BY <1>1, <2>1, NumberedKept
<1>9. NotAsked'
  BY <1>1 DEF NotAsked, Keeps
<1>10. RequestsOnOwnConnection'
  BY DEF RequestsOnOwnConnection, Keeps, IOSame
<1>11. QED
  BY <1>3, <1>4, <1>5, <1>7, <1>8, <1>9, <1>10

\* What is appended to a thread's list.
LEMMA ListedFact ==
    ASSUME TypeOK, NEW t \in Threads, NEW p \in IOPackage, ToIO(t, p)
    PROVE  /\ \A u \in Threads : \A i \in 1..Len(ioList[u]) :
                  i \in 1..Len(ioList'[u]) /\ ioList'[u][i] = ioList[u][i]
           /\ \A u \in Threads : \A i \in 1..Len(ioList'[u]) : i \notin 1..Len(ioList[u]) =>
                  u = t /\ i = Len(ioList[t]) + 1 /\ ioList'[u][i] = p
           /\ Len(ioList[t]) + 1 \in 1..Len(ioList'[t])
           /\ ioList'[t][Len(ioList[t]) + 1] = p
<1>1. ioList \in [Threads -> Seq(IOPackage)]
  BY DEF TypeOK
<1>2. ioList'[t] = Append(ioList[t], p) /\ \A u \in Threads : u # t => ioList'[u] = ioList[u]
  BY <1>1 DEF ToIO
<1>3. PICK n \in Nat : n = Len(ioList[t]) /\ Len(ioList'[t]) = n + 1
  BY <1>1, <1>2, PushFact
<1>4. (\A i \in 1..n : ioList'[t][i] = ioList[t][i]) /\ ioList'[t][n + 1] = p
  BY <1>1, <1>2, <1>3, PushFact
<1>5. \A i \in 1..(n + 1) : i \notin 1..n => i = n + 1
  OBVIOUS
<1>6. QED
  BY <1>1, <1>2, <1>3, <1>4, <1>5, SMTT(30)

\* What the application asks for by Connect is asked for once.
LEMMA ConnectIO ==
    ASSUME ClientInv, NEW s \in Servers, Connect(s)
    PROVE  IOInv'
<1> USE DEF ClientInv, IOInv
<1>1. /\ s \notin requested /\ requested' = requested \cup {s}
      /\ ToIO(currentThread, Package("connect", s, <<>>))
      /\ UNCHANGED <<conn, mainList, asked, ioDeal, needSendList, sock>>
  BY DEF Connect
<1>2. PICK t \in Threads : t = currentThread
  BY DEF TypeOK
<1>3. PICK p \in IOPackage : p = Package("connect", s, <<>>)
  BY PackageFact
<1>4. IsConnect(p) /\ p.server = s /\ p.cmd # "send_buf" /\ ToIO(t, p)
  BY <1>1, <1>2, <1>3 DEF Package, IsConnect
<1>5. /\ \A u \in Threads : \A i \in 1..Len(ioList[u]) :
             i \in 1..Len(ioList'[u]) /\ ioList'[u][i] = ioList[u][i]
      /\ \A u \in Threads : \A i \in 1..Len(ioList'[u]) : i \notin 1..Len(ioList[u]) =>
             u = t /\ i = Len(ioList[t]) + 1 /\ ioList'[u][i] = p
  BY <1>4, ListedFact
<1>6. sock[s] = Unmade /\ \A u \in Threads : ~About(ioList[u], s)
  BY <1>1 DEF Asking
<1>7. \A u \in Threads : \A i \in 1..Len(ioList[u]) : ioList[u][i].server # s
  <2>1. \A u \in Threads : DOMAIN ioList[u] = 1..Len(ioList[u])
    BY DEF TypeOK
  <2>2. QED
    BY <1>6, <2>1 DEF About
<1>8. \A u \in Threads : ioList'[u] \in Seq(IOPackage)
  BY <1>4, ToIOType
<1>9. Asking'
  <2>1. ASSUME NEW x \in Servers, x \notin requested'
        PROVE  sock'[x] = Unmade /\ \A u \in Threads : ~About(ioList'[u], x)
    <3>1. x \notin requested /\ x # s
      BY <1>1, <2>1
    <3>2. sock[x] = Unmade /\ \A u \in Threads : ~About(ioList[u], x)
      BY <3>1 DEF Asking
    <3>3. ASSUME NEW u \in Threads, About(ioList'[u], x) PROVE FALSE
      <4>1. PICK i \in 1..Len(ioList'[u]) : ioList'[u][i].server = x
        BY <1>8, <3>3 DEF About
      <4>2. i \in 1..Len(ioList[u]) /\ ioList[u][i].server = x
        BY <1>4, <1>5, <3>1, <4>1
      <4>3. i \in DOMAIN ioList[u]
        BY <4>2 DEF TypeOK
      <4>4. QED
        BY <3>2, <4>2, <4>3 DEF About
    <3>4. QED
      BY <1>1, <3>2, <3>3
  <2>2. \A u \in Threads : \A i \in 1..Len(ioList'[u]) :
           IsConnect(ioList'[u][i]) => sock'[ioList'[u][i].server] = Unmade
    <3>1. SUFFICES ASSUME NEW u \in Threads, NEW i \in 1..Len(ioList'[u]),
                          IsConnect(ioList'[u][i])
                   PROVE  sock[ioList'[u][i].server] = Unmade
      BY <1>1
    <3>2. CASE i \in 1..Len(ioList[u])
      BY <1>5, <3>1, <3>2 DEF Asking
    <3>3. CASE i \notin 1..Len(ioList[u])
      BY <1>4, <1>5, <1>6, <3>3
    <3>4. QED
      BY <3>2, <3>3
  <2>3. \A u, v \in Threads : \A i \in 1..Len(ioList'[u]), j \in 1..Len(ioList'[v]) :
           IsConnect(ioList'[u][i]) /\ IsConnect(ioList'[v][j])
           /\ ioList'[u][i].server = ioList'[v][j].server => u = v /\ i = j
    <3>1. SUFFICES ASSUME NEW u \in Threads, NEW v \in Threads,
                          NEW i \in 1..Len(ioList'[u]), NEW j \in 1..Len(ioList'[v]),
                          IsConnect(ioList'[u][i]), IsConnect(ioList'[v][j]),
                          ioList'[u][i].server = ioList'[v][j].server
                   PROVE  u = v /\ i = j
      OBVIOUS
    <3>2. CASE i \in 1..Len(ioList[u]) /\ j \in 1..Len(ioList[v])
      <4>1. ioList'[u][i] = ioList[u][i] /\ ioList'[v][j] = ioList[v][j]
        BY <1>5, <3>2
      <4>2. QED
        BY <3>1, <3>2, <4>1 DEF Asking
    <3>3. CASE i \in 1..Len(ioList[u]) /\ j \notin 1..Len(ioList[v])
      BY <1>4, <1>5, <1>7, <3>1, <3>3
    <3>4. CASE i \notin 1..Len(ioList[u]) /\ j \in 1..Len(ioList[v])
      BY <1>4, <1>5, <1>7, <3>1, <3>4
    <3>5. CASE i \notin 1..Len(ioList[u]) /\ j \notin 1..Len(ioList[v])
      BY <1>5, <3>5
    <3>6. QED
      BY <3>2, <3>3, <3>4, <3>5
  <2>4. \A i \in 1..Len(mainList') : sock'[mainList'[i].server] # Unmade
    BY <1>1 DEF Asking
  <2>5. QED
    BY <2>1, <2>2, <2>3, <2>4 DEF Asking
<1>10. \A u \in Threads : \A i \in 1..Len(ioList'[u]) : ioList'[u][i].cmd = "send_buf" =>
           i \in 1..Len(ioList[u]) /\ ioList'[u][i] = ioList[u][i]
  BY <1>4, <1>5
<1>11. SendsOwn'
  BY <1>1, <1>10 DEF SendsOwn, Current
<1>12. Listed' /\ Buffered' /\ NotAsked' /\ RequestsOnOwnConnection'
  BY <1>1 DEF Listed, Current, Buffered, NotAsked, RequestsOnOwnConnection
<1>13. Numbered'
  <2>1. SUFFICES ASSUME NEW x \in Servers, sock[x].bev \in Fds
                 PROVE  /\ Base(x) <= asked[sock[x].bev]
                        /\ \A u \in Threads : \A i \in 1..Len(ioList'[u]) :
                               IsSend(ioList'[u][i], x) =>
                                 /\ ioList'[u][i].buf[2] \in (Base(x) + 1)..asked[sock[x].bev]
                                 /\ \A j \in 1..(i - 1) : IsSend(ioList'[u][j], x) =>
                                        ioList'[u][j].buf[2] < ioList'[u][i].buf[2]
                        /\ \A k \in (Base(x) + 1)..asked[sock[x].bev] :
                               \E i \in 1..Len(ioList'[sock[x].thread]) :
                                   /\ IsSend(ioList'[sock[x].thread][i], x)
                                   /\ ioList'[sock[x].thread][i].buf[2] = k
    <3>1. SUFFICES ASSUME NEW x \in Servers, sock'[x].bev \in Fds
                   PROVE  /\ Base(x)' <= asked'[sock'[x].bev]
                          /\ \A u \in Threads : \A i \in 1..Len(ioList'[u]) :
                                 IsSend(ioList'[u][i], x) =>
                                   /\ ioList'[u][i].buf[2] \in
                                          (Base(x)' + 1)..asked'[sock'[x].bev]
                                   /\ \A j \in 1..(i - 1) : IsSend(ioList'[u][j], x) =>
                                          ioList'[u][j].buf[2] < ioList'[u][i].buf[2]
                          /\ \A k \in (Base(x)' + 1)..asked'[sock'[x].bev] :
                                 \E i \in 1..Len(ioList'[sock'[x].thread]) :
                                     /\ IsSend(ioList'[sock'[x].thread][i], x)
                                     /\ ioList'[sock'[x].thread][i].buf[2] = k
      BY DEF Numbered
    <3>2. Base(x)' = Base(x) /\ sock'[x] = sock[x] /\ asked' = asked
      BY <1>1 DEF Base
    <3>3. QED
      BY <3>1, <3>2
  <2>2. /\ Base(x) <= asked[sock[x].bev]
        /\ \A u \in Threads : \A i \in 1..Len(ioList[u]) : IsSend(ioList[u][i], x) =>
               /\ ioList[u][i].buf[2] \in (Base(x) + 1)..asked[sock[x].bev]
               /\ \A j \in 1..(i - 1) : IsSend(ioList[u][j], x) =>
                      ioList[u][j].buf[2] < ioList[u][i].buf[2]
        /\ \A k \in (Base(x) + 1)..asked[sock[x].bev] :
               \E i \in 1..Len(ioList[sock[x].thread]) :
                   /\ IsSend(ioList[sock[x].thread][i], x)
                   /\ ioList[sock[x].thread][i].buf[2] = k
    BY <2>1 DEF Numbered
  <2>3. ASSUME NEW u \in Threads, NEW i \in 1..Len(ioList'[u]), IsSend(ioList'[u][i], x)
        PROVE  /\ ioList'[u][i].buf[2] \in (Base(x) + 1)..asked[sock[x].bev]
               /\ \A j \in 1..(i - 1) : IsSend(ioList'[u][j], x) =>
                      ioList'[u][j].buf[2] < ioList'[u][i].buf[2]
    <3>1. i \in 1..Len(ioList[u]) /\ ioList'[u][i] = ioList[u][i]
      BY <1>10, <2>3 DEF IsSend
    <3>2. Len(ioList[u]) \in Nat
      BY DEF TypeOK
    <3>3. \A j \in 1..(i - 1) : ioList'[u][j] = ioList[u][j]
      BY <1>5, <3>1, <3>2
    <3>4. QED
      BY <2>2, <2>3, <3>1, <3>3
  <2>4. sock[x].thread \in Threads
    <3>1. sock[x].bev # NotSet
      BY <2>1, ClientConnAssumption DEF Fds, NotSet
    <3>2. QED
      BY <3>1, ThreadFact
  <2>5. \A k \in (Base(x) + 1)..asked[sock[x].bev] :
            \E i \in 1..Len(ioList'[sock[x].thread]) :
                /\ IsSend(ioList'[sock[x].thread][i], x)
                /\ ioList'[sock[x].thread][i].buf[2] = k
    BY <1>5, <2>2, <2>4
  <2>6. QED
    BY <2>2, <2>3, <2>5
<1>14. QED
  BY <1>9, <1>11, <1>12, <1>13

\* What the application asks an agent joins the list of the thread whose socket
\* has the agent's connection.
LEMMA AskIO ==
    ASSUME ClientInv, TypeOK', NEW fd \in Fds, Send(fd)
    PROVE  IOInv'
<1> USE DEF ClientInv, IOInv
<1>1. /\ fd \in DOMAIN mapAgents /\ asked' = [asked EXCEPT ![fd] = @ + 1]
      /\ ToIO(sock[mapAgents[fd]].thread, Package("send_buf", mapAgents[fd], <<fd, asked'[fd]>>))
      /\ UNCHANGED <<conn, requested, mainList, ioDeal, needSendList, sock>>
      /\ asked[fd] < MaxReq
  BY DEF Send
<1>2. PICK s \in Servers : s = mapAgents[fd]
  BY <1>1 DEF TypeOK
<1>3. /\ sock[s].fd = fd /\ Current(s)
  <2>1. FdOf(s) = fd
    BY <1>1, <1>2 DEF AgentsFound, MainInv
  <2>2. Up(s)
    BY <1>1, <1>2, <2>1 DEF Up
  <2>3. QED
    BY <2>1, <2>2 DEF MainInv, Told, FdOf
<1>4. sock[s].bev = fd /\ fd \in DOMAIN conn /\ conn[fd].server = s
  BY <1>3 DEF Current, Wired
<1>5. PICK t \in Threads : t = sock[s].thread
  <2>1. sock[s].bev # NotSet
    BY <1>4, ClientConnAssumption DEF Fds, NotSet
  <2>2. QED
    BY <2>1, ThreadFact
<1>6. PICK k \in Requests : k = asked[fd] + 1
  <2>1. asked[fd] \in 0..MaxReq /\ MaxReq \in Nat
    BY ClientConnAssumption DEF TypeOK
  <2>2. QED
    BY <1>1, <2>1 DEF Requests
<1>7. asked'[fd] = k /\ \A f \in Fds : f # fd => asked'[f] = asked[f]
  BY <1>1, <1>6 DEF TypeOK
<1>8. PICK p \in IOPackage : p = Package("send_buf", s, <<fd, k>>)
  BY PackageFact
<1>9. /\ ~IsConnect(p) /\ p.server = s /\ p.cmd = "send_buf" /\ p.buf[1] = fd
      /\ p.buf[2] = k /\ ToIO(t, p)
  BY <1>1, <1>2, <1>5, <1>7, <1>8 DEF Package, IsConnect
<1>10. /\ \A u \in Threads : \A i \in 1..Len(ioList[u]) :
              i \in 1..Len(ioList'[u]) /\ ioList'[u][i] = ioList[u][i]
       /\ \A u \in Threads : \A i \in 1..Len(ioList'[u]) : i \notin 1..Len(ioList[u]) =>
              u = t /\ i = Len(ioList[t]) + 1 /\ ioList'[u][i] = p
       /\ Len(ioList[t]) + 1 \in 1..Len(ioList'[t])
       /\ ioList'[t][Len(ioList[t]) + 1] = p
  BY <1>9, ListedFact
<1>11. \A u \in Threads : ioList[u] \in Seq(IOPackage) /\ ioList'[u] \in Seq(IOPackage)
  BY DEF TypeOK
<1>12. sock[s] # Unmade /\ s \in requested
  <2>1. sock[s] # Unmade
    BY <1>5, ThreadFact
  <2>2. QED
    BY <2>1 DEF Asking
<1>13. asked \in [Fds -> Nat] /\ asked' \in [Fds -> Nat]
  <2>1. \A n \in 0..MaxReq : n \in Nat
    OBVIOUS
  <2>2. asked \in [Fds -> 0..MaxReq] /\ asked' \in [Fds -> 0..MaxReq]
    BY DEF TypeOK
  <2>3. QED
    BY <2>1, <2>2
<1>14. Asking'
  <2>1. ASSUME NEW x \in Servers, x \notin requested'
        PROVE  sock'[x] = Unmade /\ \A u \in Threads : ~About(ioList'[u], x)
    <3>1. x \notin requested /\ x # s
      BY <1>1, <1>12, <2>1
    <3>2. sock[x] = Unmade /\ \A u \in Threads : ~About(ioList[u], x)
      BY <3>1 DEF Asking
    <3>3. ASSUME NEW u \in Threads, About(ioList'[u], x) PROVE FALSE
      <4>1. PICK i \in 1..Len(ioList'[u]) : ioList'[u][i].server = x
        BY <1>11, <3>3 DEF About
      <4>2. i \in 1..Len(ioList[u]) /\ ioList[u][i].server = x
        BY <1>9, <1>10, <3>1, <4>1
      <4>3. i \in DOMAIN ioList[u]
        BY <1>11, <4>2
      <4>4. QED
        BY <3>2, <4>2, <4>3 DEF About
    <3>4. QED
      BY <1>1, <3>2, <3>3
  <2>2. \A u \in Threads : \A i \in 1..Len(ioList'[u]) : IsConnect(ioList'[u][i]) =>
            i \in 1..Len(ioList[u]) /\ ioList'[u][i] = ioList[u][i]
    BY <1>9, <1>10
  <2>3. \A u \in Threads : \A i \in 1..Len(ioList'[u]) :
           IsConnect(ioList'[u][i]) => sock'[ioList'[u][i].server] = Unmade
    BY <1>1, <2>2 DEF Asking
  <2>4. \A u, v \in Threads : \A i \in 1..Len(ioList'[u]), j \in 1..Len(ioList'[v]) :
           IsConnect(ioList'[u][i]) /\ IsConnect(ioList'[v][j])
           /\ ioList'[u][i].server = ioList'[v][j].server => u = v /\ i = j
    <3>1. SUFFICES ASSUME NEW u \in Threads, NEW v \in Threads,
                          NEW i \in 1..Len(ioList'[u]), NEW j \in 1..Len(ioList'[v]),
                          IsConnect(ioList'[u][i]), IsConnect(ioList'[v][j]),
                          ioList'[u][i].server = ioList'[v][j].server
                   PROVE  u = v /\ i = j
      OBVIOUS
    <3>2. /\ i \in 1..Len(ioList[u]) /\ ioList'[u][i] = ioList[u][i]
          /\ j \in 1..Len(ioList[v]) /\ ioList'[v][j] = ioList[v][j]
      BY <2>2, <3>1
    <3>3. QED
      BY <3>1, <3>2 DEF Asking
  <2>5. \A i \in 1..Len(mainList') : sock'[mainList'[i].server] # Unmade
    BY <1>1 DEF Asking
  <2>6. QED
    BY <2>1, <2>3, <2>4, <2>5 DEF Asking
<1>15. SendsOwn'
  <2>1. SUFFICES ASSUME NEW u \in Threads, NEW i \in 1..Len(ioList'[u]),
                        ioList'[u][i].cmd = "send_buf"
                 PROVE  LET x == ioList'[u][i].server
                        IN  /\ sock[x].thread = u
                            /\ sock[x].fd # BadFd /\ sock[x].bev = sock[x].fd
                            /\ ioList'[u][i].buf[1] = sock[x].fd
    BY <1>1 DEF SendsOwn, Current
  <2>2. CASE i \in 1..Len(ioList[u])
    BY <1>10, <2>1, <2>2 DEF SendsOwn, Current
  <2>3. CASE i \notin 1..Len(ioList[u])
    BY <1>3, <1>5, <1>9, <1>10, <2>3 DEF Current
  <2>4. QED
    BY <2>2, <2>3
<1>16. Listed' /\ Buffered' /\ RequestsOnOwnConnection'
  BY <1>1 DEF Listed, Current, Buffered, RequestsOnOwnConnection
<1>17. NotAsked'
  BY <1>1, <1>4, <1>7 DEF NotAsked
<1>18. Numbered'
  <2>1. SUFFICES ASSUME NEW x \in Servers, sock'[x].bev \in Fds
                 PROVE  /\ Base(x)' <= asked'[sock'[x].bev]
                        /\ \A u \in Threads : \A i \in 1..Len(ioList'[u]) :
                               IsSend(ioList'[u][i], x) =>
                                 /\ ioList'[u][i].buf[2] \in
                                        (Base(x)' + 1)..asked'[sock'[x].bev]
                                 /\ \A j \in 1..(i - 1) : IsSend(ioList'[u][j], x) =>
                                        ioList'[u][j].buf[2] < ioList'[u][i].buf[2]
                        /\ \A m \in (Base(x)' + 1)..asked'[sock'[x].bev] :
                               \E i \in 1..Len(ioList'[sock'[x].thread]) :
                                   /\ IsSend(ioList'[sock'[x].thread][i], x)
                                   /\ ioList'[sock'[x].thread][i].buf[2] = m
    BY DEF Numbered
  <2>2. Base(x)' = Base(x) /\ sock'[x] = sock[x] /\ sock[x].bev \in Fds
    BY <1>1, <2>1 DEF Base
  <2>3. PICK b : b = sock[x].bev /\ b \in Fds /\ b \in DOMAIN conn /\ conn[b].server = x
    BY <2>2 DEF Wired
  <2>4. /\ Base(x) <= asked[b]
        /\ \A u \in Threads : \A i \in 1..Len(ioList[u]) : IsSend(ioList[u][i], x) =>
               /\ ioList[u][i].buf[2] \in (Base(x) + 1)..asked[b]
               /\ \A j \in 1..(i - 1) : IsSend(ioList[u][j], x) =>
                      ioList[u][j].buf[2] < ioList[u][i].buf[2]
        /\ \A m \in (Base(x) + 1)..asked[b] :
               \E i \in 1..Len(ioList[sock[x].thread]) :
                   /\ IsSend(ioList[sock[x].thread][i], x)
                   /\ ioList[sock[x].thread][i].buf[2] = m
    BY <2>2, <2>3 DEF Numbered
  <2>5. asked[b] \in Nat /\ asked[fd] \in Nat /\ Base(x) \in Nat
    <3>1. asked[b] \in Nat /\ asked[fd] \in Nat
      BY <1>13, <2>3
    <3>2. conn[b].out \in Seq(Fds \X Requests) /\ sock[x].sendBuf \in Seq(Fds \X Requests)
      BY <2>3, ConnFact, ThreadFact DEF ConnType, SocketType
    <3>3. PICK m \in Nat, n \in Nat : m = Len(conn[b].out) /\ n = Len(sock[x].sendBuf)
      BY <3>2
    <3>4. m + n \in Nat
      OBVIOUS
    <3>5. Base(x) = m + n
      BY <2>3, <3>3 DEF Base
    <3>6. QED
      BY <3>1, <3>4, <3>5
  <2>6. sock[x].thread \in Threads
    <3>1. sock[x].bev # NotSet
      BY <2>2, ClientConnAssumption DEF Fds, NotSet
    <3>2. QED
      BY <3>1, ThreadFact
  <2>7. (b = fd <=> x = s) /\ asked[b] <= asked'[b]
    <3>1. b = fd <=> x = s
      BY <1>4, <2>3
    <3>2. QED
      BY <1>6, <1>7, <2>3, <2>5, <3>1
  <2>8. ASSUME NEW u \in Threads, NEW i \in 1..Len(ioList[u]), IsSend(ioList[u][i], x)
        PROVE  /\ ioList'[u][i] = ioList[u][i]
               /\ ioList[u][i].buf[2] \in (Base(x) + 1)..asked[b]
               /\ \A j \in 1..(i - 1) : IsSend(ioList'[u][j], x) =>
                      ioList'[u][j].buf[2] < ioList[u][i].buf[2]
    <3>1. Len(ioList[u]) \in Nat
      BY <1>11
    <3>2. \A j \in 1..(i - 1) : ioList'[u][j] = ioList[u][j]
      BY <1>10, <3>1
    <3>3. QED
      BY <1>10, <2>4, <2>8, <3>2
  <2>9. ASSUME NEW u \in Threads, NEW i \in 1..Len(ioList'[u]), IsSend(ioList'[u][i], x)
        PROVE  /\ ioList'[u][i].buf[2] \in (Base(x) + 1)..asked'[b]
               /\ \A j \in 1..(i - 1) : IsSend(ioList'[u][j], x) =>
                      ioList'[u][j].buf[2] < ioList'[u][i].buf[2]
    <3>1. CASE i \in 1..Len(ioList[u])
      <4>1. ioList'[u][i] = ioList[u][i] /\ IsSend(ioList[u][i], x)
        BY <1>10, <2>9, <3>1
      <4>2. ioList[u][i].buf[2] \in (Base(x) + 1)..asked[b]
        BY <2>8, <3>1, <4>1
      <4>3. asked'[b] \in Nat
        BY <1>13, <2>3
      <4>4. ioList[u][i].buf[2] \in (Base(x) + 1)..asked'[b]
        BY <2>5, <2>7, <4>2, <4>3
      <4>5. QED
        BY <2>8, <3>1, <4>1, <4>4
    <3>2. CASE i \notin 1..Len(ioList[u])
      <4>1. u = t /\ i = Len(ioList[t]) + 1 /\ ioList'[u][i] = p
        BY <1>10, <3>2
      <4>2. x = s /\ b = fd
        BY <1>9, <2>7, <2>9, <4>1 DEF IsSend
      <4>3. k \in (Base(x) + 1)..asked'[b]
        BY <1>6, <1>7, <2>4, <2>5, <4>2
      <4>4. Len(ioList[t]) \in Nat
        BY <1>11
      <4>5. ASSUME NEW j \in 1..(i - 1), IsSend(ioList'[u][j], x)
            PROVE  ioList'[u][j].buf[2] < k
        <5>1. j \in 1..Len(ioList[u])
          BY <4>1, <4>4
        <5>2. ioList'[u][j] = ioList[u][j]
          BY <1>10, <5>1
        <5>3. ioList[u][j].buf[2] \in (Base(x) + 1)..asked[b]
          BY <2>8, <4>5, <5>1, <5>2
        <5>4. QED
          BY <1>6, <2>5, <4>2, <5>2, <5>3
      <4>6. QED
        BY <1>9, <4>1, <4>3, <4>5
    <3>3. QED
      BY <3>1, <3>2
  <2>10. ASSUME NEW m \in (Base(x) + 1)..asked'[b]
         PROVE  \E i \in 1..Len(ioList'[sock[x].thread]) :
                    /\ IsSend(ioList'[sock[x].thread][i], x)
                    /\ ioList'[sock[x].thread][i].buf[2] = m
    <3>1. CASE m \in (Base(x) + 1)..asked[b]
      BY <1>10, <2>4, <2>6, <3>1
    <3>2. CASE m \notin (Base(x) + 1)..asked[b]
      <4>1. x = s /\ b = fd /\ m = k
        <5>1. b = fd
          BY <1>7, <2>3, <3>2
        <5>2. QED
          BY <1>6, <1>7, <2>5, <2>7, <3>2, <5>1
      <4>2. IsSend(p, x) /\ p.buf[2] = m
        BY <1>9, <4>1 DEF IsSend
      <4>3. QED
        BY <1>5, <1>10, <4>1, <4>2
    <3>3. QED
      BY <3>1, <3>2
  <2>11. Base(x) <= asked'[b]
    <3>1. asked'[b] \in Nat
      BY <1>13, <2>3
    <3>2. QED
      BY <2>4, <2>5, <2>7, <3>1
  <2>12. QED
    BY <2>2, <2>3, <2>9, <2>10, <2>11
<1>19. QED
  BY <1>14, <1>15, <1>16, <1>17, <1>18

\* Two stretches of requests of one connection that follow on one another.
LEMMA JoinedFact ==
    ASSUME NEW o \in Seq(Fds \X Requests), NEW q \in Seq(Fds \X Requests), NEW fd,
           \A j \in 1..Len(o) : o[j] = <<fd, j>>,
           \A j \in 1..Len(q) : q[j] = <<fd, Len(o) + j>>
    PROVE  \A i \in DOMAIN (o \o q) : (o \o q)[i] = <<fd, i>>
<1>1. PICK m \in Nat, n \in Nat : m = Len(o) /\ n = Len(q)
  OBVIOUS
<1>2. /\ o \o q \in Seq(Fds \X Requests) /\ DOMAIN (o \o q) = 1..(m + n)
      /\ \A i \in 1..m : (o \o q)[i] = o[i]
      /\ \A i \in (m + 1)..(m + n) : (o \o q)[i] = q[i - m]
  BY <1>1
<1>3. \A i \in 1..m : (o \o q)[i] = <<fd, i>>
  BY <1>1, <1>2
<1>4. \A i \in (m + 1)..(m + n) : (o \o q)[i] = <<fd, i>>
  <2>1. TAKE i \in (m + 1)..(m + n)
  <2>2. i - m \in 1..n /\ m + (i - m) = i
    OBVIOUS
  <2>3. q[i - m] = <<fd, m + (i - m)>>
    BY <1>1, <2>2
  <2>4. QED
    BY <1>2, <2>2, <2>3
<1>5. \A i \in 1..(m + n) : i \in 1..m \/ i \in (m + 1)..(m + n)
  OBVIOUS
<1>6. QED
  BY <1>2, <1>3, <1>4, <1>5

\* The numbers of a current socket.
LEMMA BaseFact ==
    ASSUME TypeOK, Wired, NEW s \in Servers, sock[s].bev \in Fds
    PROVE  /\ sock[s].bev \in DOMAIN conn /\ conn[sock[s].bev].server = s
           /\ conn[sock[s].bev] \in ConnType
           /\ conn[sock[s].bev].out \in Seq(Fds \X Requests)
           /\ sock[s].sendBuf \in Seq(Fds \X Requests)
           /\ sock[s].thread \in Threads
           /\ Base(s) \in Nat /\ asked[sock[s].bev] \in Nat
<1>1. sock[s].bev \in DOMAIN conn /\ conn[sock[s].bev].server = s
  BY DEF Wired
<1>2. conn[sock[s].bev] \in ConnType
  BY <1>1, ConnFact
<1>3. conn[sock[s].bev].out \in Seq(Fds \X Requests)
  BY <1>2 DEF ConnType
<1>4. sock[s].sendBuf \in Seq(Fds \X Requests)
  BY ThreadFact DEF SocketType
<1>5. sock[s].thread \in Threads
  <2>1. sock[s].bev # NotSet
    BY ClientConnAssumption DEF Fds, NotSet
  <2>2. QED
    BY <2>1, ThreadFact
<1>6. PICK m \in Nat, n \in Nat :
          m = Len(conn[sock[s].bev].out) /\ n = Len(sock[s].sendBuf)
  BY <1>3, <1>4
<1>7. m + n \in Nat
  OBVIOUS
<1>8. Base(s) = m + n
  BY <1>6 DEF Base
<1>9. asked[sock[s].bev] \in Nat
  <2>1. \A n0 \in 0..MaxReq : n0 \in Nat
    OBVIOUS
  <2>2. QED
    BY <2>1 DEF TypeOK
<1>10. QED
  BY <1>1, <1>2, <1>3, <1>4, <1>5, <1>7, <1>8, <1>9

\* What pairCallback writes out at its end was in the buffers.
LEMMA FlushIO ==
    ASSUME ClientInv, TypeOK', NEW t \in Threads, IOFlush(t)
    PROVE  IOInv'
<1> USE DEF ClientInv, IOInv
<1>1. /\ DOMAIN conn' = DOMAIN conn
      /\ \A fd \in DOMAIN conn :
             LET s == conn[fd].server
             IN  conn'[fd] = IF s \in needSendList[t] /\ sock[s].sendBuf # <<>>
                                /\ sock[s].bev = fd
                             THEN Written(conn[fd], sock[s].sendBuf) ELSE conn[fd]
      /\ \A s \in Servers :
             sock'[s] = IF s \in needSendList[t] /\ sock[s].sendBuf # <<>>
                        THEN [sock[s] EXCEPT !.sendBuf = <<>>]
                        ELSE sock[s]
      /\ needSendList' = [needSendList EXCEPT ![t] = {}]
      /\ ioDeal' = [ioDeal EXCEPT ![t] = 0]
      /\ UNCHANGED <<mainVars, mainList, ioList>>
  BY FlushFact
<1>2. Keeps /\ UNCHANGED <<requested, asked, ioList, mainList>>
  BY <1>1, FlushKeeps DEF mainVars
<1>3. \A s \in Servers : sock[s] \in SocketType
  BY DEF TypeOK
<1>4. \A s \in Servers :
          /\ s \in needSendList[t] => sock'[s].sendBuf = <<>>
          /\ s \notin needSendList[t] => sock'[s].sendBuf = sock[s].sendBuf
  <2>1. \A r \in SocketType : [r EXCEPT !.sendBuf = <<>>].sendBuf = <<>>
    BY DEF SocketType
  <2>2. QED
    BY <1>1, <1>3, <2>1, ZenonT(60)
\* Of each connection with a bufferevent.
<1>5. ASSUME NEW s \in Servers, sock[s].bev \in Fds
      PROVE  LET b == sock[s].bev
             IN  /\ sock'[s].bev = b
                 /\ \/ /\ s \in needSendList[t] /\ sock'[s].sendBuf = <<>>
                       /\ conn'[b].out = conn[b].out \o sock[s].sendBuf
                    \/ /\ sock'[s].sendBuf = sock[s].sendBuf
                       /\ conn'[b].out = conn[b].out
  <2>1. /\ sock[s].bev \in DOMAIN conn /\ conn[sock[s].bev].server = s
        /\ conn[sock[s].bev] \in ConnType /\ sock[s].sendBuf \in Seq(Fds \X Requests)
    BY <1>5, BaseFact
  <2>2. PICK b : b = sock[s].bev /\ b \in DOMAIN conn /\ conn[b].server = s
    BY <2>1
  <2>3. sock'[s].bev = b
    BY <1>2, <2>2 DEF Keeps
  <2>4. CASE s \in needSendList[t] /\ sock[s].sendBuf # <<>>
    <3>1. conn'[b] = Written(conn[b], sock[s].sendBuf)
      BY <1>1, <2>2, <2>4
    <3>2. conn'[b].out = conn[b].out \o sock[s].sendBuf
      BY <2>1, <2>2, <3>1, WrittenFact, ZenonT(60)
    <3>3. QED
      BY <1>4, <2>2, <2>3, <2>4, <3>2
  <2>5. CASE ~(s \in needSendList[t] /\ sock[s].sendBuf # <<>>)
    <3>1. conn'[b] = conn[b]
      BY <1>1, <2>2, <2>5
    <3>2. sock'[s].sendBuf = sock[s].sendBuf
      BY <1>4, <2>5
    <3>3. QED
      BY <2>2, <2>3, <3>1, <3>2
  <2>6. QED
    BY <2>4, <2>5
<1>6. \A u \in Threads : \A i \in 1..Len(ioList[u]) : ioList[u][i].server \in Servers
  <2>1. \A p \in IOPackage : p.server \in Servers
    BY DEF IOPackage
  <2>2. \A u \in Threads : ioList[u] \in Seq(IOPackage)
    BY DEF TypeOK
  <2>3. QED
    BY <2>1, <2>2
<1>7. Asking'
  <2>1. \A i \in 1..Len(mainList') : sock'[mainList'[i].server] # Unmade
    <3>1. \A p \in MainPackage : p.server \in Servers
      BY DEF MainPackage
    <3>2. \A i \in 1..Len(mainList) : mainList[i].server \in Servers
      BY <3>1, SMTT(30) DEF TypeOK
    <3>3. QED
      BY <1>2, <3>2 DEF Keeps, Asking
  <2>2. \A s \in Servers : s \notin requested' =>
            sock'[s] = Unmade /\ \A u \in Threads : ~About(ioList'[u], s)
    BY <1>2 DEF Asking, Keeps
  <2>3. \A u \in Threads : \A i \in 1..Len(ioList'[u]) :
            IsConnect(ioList'[u][i]) => sock'[ioList'[u][i].server] = Unmade
    BY <1>2, <1>6 DEF Asking, Keeps
  <2>4. \A u, v \in Threads : \A i \in 1..Len(ioList'[u]), j \in 1..Len(ioList'[v]) :
            IsConnect(ioList'[u][i]) /\ IsConnect(ioList'[v][j])
            /\ ioList'[u][i].server = ioList'[v][j].server => u = v /\ i = j
    BY <1>2 DEF Asking
  <2>5. QED
    BY <2>1, <2>2, <2>3, <2>4 DEF Asking
<1>8. SendsOwn'
  BY <1>2, <1>6 DEF SendsOwn, Current, Keeps
<1>9. Listed'
  <2>1. ASSUME NEW s \in Servers, sock'[s].sendBuf # <<>>
        PROVE  /\ sock'[s].fd # BadFd /\ sock'[s].bev = sock'[s].fd
               /\ s \in needSendList'[sock'[s].thread]
    <3>1. s \notin needSendList[t] /\ sock[s].sendBuf # <<>>
      BY <1>4, <2>1
    <3>2. Current(s) /\ s \in needSendList[sock[s].thread]
      BY <3>1 DEF Listed
    <3>3. needSendList'[sock[s].thread] = needSendList[sock[s].thread]
      BY <1>1, <3>1, <3>2
    <3>4. QED
      BY <1>2, <3>2, <3>3 DEF Keeps, Current
  <2>2. \A u \in Threads : ioDeal'[u] = 0 => needSendList'[u] = {}
    BY <1>1 DEF Listed, TypeOK
  <2>3. QED
    BY <2>1, <2>2 DEF Listed, Current
<1>10. Buffered'
  <2>1. SUFFICES ASSUME NEW s \in Servers, sock'[s].bev \in Fds
                 PROVE  \A i \in 1..Len(sock'[s].sendBuf) :
                            sock'[s].sendBuf[i] =
                                <<sock'[s].bev, Len(conn'[sock'[s].bev].out) + i>>
    BY DEF Buffered
  <2>2. PICK b \in Fds : b = sock[s].bev /\ b = sock'[s].bev
    BY <1>2, <2>1 DEF Keeps
  <2>3. CASE sock'[s].sendBuf = <<>>
    BY <2>3
  <2>4. CASE sock'[s].sendBuf # <<>>
    <3>1. sock'[s].sendBuf = sock[s].sendBuf /\ conn'[b].out = conn[b].out
      BY <1>5, <2>2, <2>4
    <3>2. \A i \in 1..Len(sock[s].sendBuf) : sock[s].sendBuf[i] = <<b, Len(conn[b].out) + i>>
      BY <2>2 DEF Buffered
    <3>3. QED
      BY <2>2, <3>1, <3>2
  <2>5. QED
    BY <2>3, <2>4
<1>11. \A s \in Servers : sock[s].bev \in Fds => Base(s)' = Base(s)
  <2>1. SUFFICES ASSUME NEW s \in Servers, sock[s].bev \in Fds PROVE Base(s)' = Base(s)
    OBVIOUS
  <2>2. PICK b \in Fds : b = sock[s].bev /\ b = sock'[s].bev
    BY <1>5, <2>1
  <2>3. CASE /\ sock'[s].sendBuf = <<>>
             /\ conn'[b].out = conn[b].out \o sock[s].sendBuf
    <3>1. PICK o \in Seq(Fds \X Requests), q \in Seq(Fds \X Requests) :
              o = conn[b].out /\ q = sock[s].sendBuf
      BY <2>1, <2>2, BaseFact
    <3>2. Len(o \o q) = Len(o) + Len(q) /\ Len(o) \in Nat /\ Len(q) \in Nat
      OBVIOUS
    <3>3. Base(s) = Len(o) + Len(q)
      BY <2>2, <3>1 DEF Base
    <3>4. Base(s)' = Len(o \o q) + Len(<<>>)
      BY <2>2, <2>3, <3>1 DEF Base
    <3>5. QED
      BY <3>2, <3>3, <3>4
  <2>4. CASE sock'[s].sendBuf = sock[s].sendBuf /\ conn'[b].out = conn[b].out
    BY <2>2, <2>4 DEF Base
  <2>5. QED
    BY <1>5, <2>1, <2>2, <2>3, <2>4
<1>12. Numbered'
  BY <1>2, <1>11, NumberedKept
<1>13. NotAsked'
  BY <1>1, <1>2 DEF NotAsked
<1>14. RequestsOnOwnConnection'
  <2>1. SUFFICES ASSUME NEW fd \in DOMAIN conn, NEW i \in DOMAIN conn'[fd].out
                 PROVE  conn'[fd].out[i] = <<fd, i>>
    BY <1>1 DEF RequestsOnOwnConnection
  <2>2. PICK s \in Servers : s = conn[fd].server /\ conn[fd] \in ConnType /\ fd \in Fds
    BY ConnFact
  <2>3. CASE conn'[fd] = conn[fd]
    BY <2>3 DEF RequestsOnOwnConnection
  <2>4. CASE conn'[fd] # conn[fd]
    <3>1. sock[s].bev = fd /\ conn'[fd] = Written(conn[fd], sock[s].sendBuf)
      BY <1>1, <2>2, <2>4
    <3>2. sock[s].sendBuf \in Seq(Fds \X Requests) /\ conn[fd].out \in Seq(Fds \X Requests)
      BY <2>2, <3>1, BaseFact
    <3>3. PICK o \in Seq(Fds \X Requests), q \in Seq(Fds \X Requests) :
              o = conn[fd].out /\ q = sock[s].sendBuf
      BY <3>2
    <3>4. conn[fd] \in ConnType
      BY <2>2
    <3>5. conn'[fd].out = o \o q
      <4>1. PICK c \in ConnType : c = conn[fd]
        BY <3>4
      <4>2. Written(c, q).out = c.out \o q
        BY WrittenFact
      <4>3. QED
        BY <3>1, <3>3, <4>1, <4>2
    <3>6. \A j \in 1..Len(q) : q[j] = <<fd, Len(o) + j>>
      BY <2>2, <3>1, <3>3 DEF Buffered
    <3>7. \A j \in 1..Len(o) : o[j] = <<fd, j>>
      BY <3>3 DEF RequestsOnOwnConnection
    <3>8. \A j \in DOMAIN (o \o q) : (o \o q)[j] = <<fd, j>>
      BY <3>6, <3>7, JoinedFact
    <3>9. QED
      BY <3>5, <3>8
  <2>5. QED
    BY <2>3, <2>4
<1>15. QED
  BY <1>7, <1>8, <1>9, <1>10, <1>12, <1>13, <1>14

\* The request that an io thread takes is the next one of its connection.
LEMMA TakenNext ==
    ASSUME ClientInv, NEW t \in Threads, IOTakes(t, "send_buf"),
           NEW s \in Servers, NEW b \in Fds \X Requests,
           Head(ioList[t]).server = s, Head(ioList[t]).buf = b
    PROVE  /\ sock[s].thread = t /\ Current(s) /\ sock[s].bev \in Fds
           /\ b = <<sock[s].bev, Base(s) + 1>>
           /\ Base(s) + 1 <= asked[sock[s].bev]
<1> USE DEF ClientInv, IOInv
<1>1. /\ Head(ioList[t]) = ioList[t][1] /\ 1 \in 1..Len(ioList[t])
      /\ Head(ioList[t]).cmd = "send_buf" /\ ioList[t] \in Seq(IOPackage)
  BY IOTakesFact, PopFact
<1>2. sock[s].thread = t /\ Current(s) /\ b[1] = sock[s].fd
  BY <1>1 DEF SendsOwn
<1>3. PICK f \in Fds : f = sock[s].bev /\ b[1] = f
  BY <1>2 DEF Wired, Current, TypeOK, SocketType
<1>4. PICK n \in Nat, a \in Nat : n = Base(s) /\ a = asked[f]
  BY <1>3, BaseFact
<1>5. b[2] \in (n + 1)..a
  <2>1. IsSend(ioList[t][1], s) /\ ioList[t][1].buf[2] = b[2]
    BY <1>1 DEF IsSend
  <2>2. QED
    BY <1>1, <1>3, <1>4, <2>1 DEF Numbered
<1>6. PICK i \in 1..Len(ioList[t]) : IsSend(ioList[t][i], s) /\ ioList[t][i].buf[2] = n + 1
  <2>1. n + 1 \in (n + 1)..a
    BY <1>5
  <2>2. \A k \in (Base(s) + 1)..asked[sock[s].bev] :
            \E i \in 1..Len(ioList[sock[s].thread]) :
                /\ IsSend(ioList[sock[s].thread][i], s)
                /\ ioList[sock[s].thread][i].buf[2] = k
    BY <1>3 DEF Numbered
  <2>3. QED
    BY <1>2, <1>3, <1>4, <2>1, <2>2
<1>7. i = 1
  <2>1. SUFFICES ASSUME i # 1 PROVE FALSE
    OBVIOUS
  <2>2. 1 \in 1..(i - 1)
    BY <2>1
  <2>3. IsSend(ioList[t][1], s) /\ ioList[t][1].buf[2] = b[2]
    BY <1>1 DEF IsSend
  <2>4. b[2] < n + 1
    BY <1>3, <1>6, <2>2, <2>3 DEF Numbered
  <2>5. QED
    BY <1>5, <2>4
<1>8. b[2] = n + 1
  BY <1>1, <1>6, <1>7
<1>9. b = <<f, n + 1>>
  BY <1>3, <1>8
<1>10. n + 1 <= a
  BY <1>5
<1>11. QED
  BY <1>2, <1>3, <1>4, <1>9, <1>10

\* An io thread buffers a request behind those that are there already.
LEMMA TakeIO ==
    ASSUME ClientInv, TypeOK', NEW t \in Threads, IOSend(t)
    PROVE  IOInv'
<1> USE DEF ClientInv, IOInv
<1>1. PICK s \in Servers : \E b \in Fds \X Requests : \E q \in Seq(Fds \X Requests) :
               Buffers(t, s, b, q)
  BY SendFact
<1>2. PICK b \in Fds \X Requests : \E q \in Seq(Fds \X Requests) :
               Buffers(t, s, b, q)
  BY <1>1
<1>3. PICK q \in Seq(Fds \X Requests) :
               Buffers(t, s, b, q)
  BY <1>2
<1>4. sock[s].thread = t /\ Current(s) /\ sock[s].bev \in Fds
  BY <1>3, TakenNext DEF Buffers
<1>5. PICK f \in Fds : f = sock[s].bev
  BY <1>4
<1>6. /\ f \in DOMAIN conn /\ conn[f].server = s /\ conn[f] \in ConnType
      /\ Base(s) \in Nat /\ asked[f] \in Nat
  BY <1>5, BaseFact
<1>7. PICK o \in Seq(Fds \X Requests), v \in Seq(Fds \X Requests) :
          o = conn[f].out /\ v = sock[s].sendBuf
  BY <1>5, BaseFact
<1>8. PICK m \in Nat, l \in Nat, n \in Nat, a \in Nat :
          m = Len(o) /\ l = Len(v) /\ n = Base(s) /\ a = asked[f]
  BY <1>6
<1>9. n = m + l
  BY <1>5, <1>7, <1>8 DEF Base
<1>10. b = <<f, n + 1>> /\ n + 1 <= a
  BY <1>3, <1>5, <1>8, TakenNext DEF Buffers
<1>11. /\ \A i \in 1..l : v[i] = <<f, m + i>>
       /\ \A i \in 1..m : o[i] = <<f, i>>
  <2>1. \A i \in 1..l : v[i] = <<f, m + i>>
    BY <1>5, <1>7, <1>8 DEF Buffered
  <2>2. \A i \in 1..m : o[i] = <<f, i>>
    BY <1>6, <1>7, <1>8 DEF RequestsOnOwnConnection
  <2>3. QED
    BY <2>1, <2>2
\* What has become of the buffer and the connection.
<1>12. /\ sock'[s].sendBuf = q
       /\ \A x \in Servers : x # s => sock'[x] = sock[x]
       /\ q # <<>>
  <2>1. sock[s] \in SocketType /\ sock \in [Servers -> SocketType]
    BY DEF TypeOK
  <2>2. PICK r : r = [sock[s] EXCEPT !.sendBuf = q]
    OBVIOUS
  <2>3. r.sendBuf = q
    BY <2>1, <2>2 DEF SocketType
  <2>4. sock'[s] = r /\ \A x \in Servers : x # s => sock'[x] = sock[x]
    BY <1>3, <2>1, <2>2 DEF Buffers
  <2>5. q # <<>>
    <3>1. q = Append(v, b) \/ q = <<b>>
      BY <1>3, <1>7 DEF Buffers
    <3>2. Len(Append(v, b)) = Len(v) + 1 /\ Len(v) \in Nat
      BY PushFact
    <3>3. Append(v, b) # <<>>
      <4>1. Len(Append(v, b)) = l + 1
        BY <1>8, <3>2
      <4>2. Len(<<>>) = 0 /\ l + 1 # 0
        OBVIOUS
      <4>3. QED
        BY <4>1, <4>2
    <3>4. <<b>> # <<>>
      OBVIOUS
    <3>5. QED
      BY <3>1, <3>3, <3>4
  <2>6. QED
    BY <2>3, <2>4, <2>5
<1>13. Keeps
  BY SendKeeps
<1>14. UNCHANGED <<requested, asked, mainList>>
  BY <1>3, IOTakesFact DEF Buffers, mainVars
<1>15. /\ s \in needSendList'[t]
       /\ \A u \in Threads : needSendList[u] \subseteq needSendList'[u]
       /\ \A u \in Threads : u # t => needSendList'[u] = needSendList[u]
  <2>1. needSendList \in [Threads -> SUBSET Servers]
    BY DEF TypeOK
  <2>2. CASE needSendList' = [needSendList EXCEPT ![t] = needSendList[t] \cup {s}]
    BY <2>1, <2>2
  <2>3. CASE needSendList' = needSendList /\ sock[s].sendBuf # <<>>
    BY <1>4, <2>3 DEF Listed
  <2>4. QED
    BY <1>3, <2>2, <2>3 DEF Buffers
<1>16. /\ \A x \in DOMAIN conn : x # f => conn'[x] = conn[x]
       /\ conn'[f].out \in Seq(Fds \X Requests)
       /\ \A i \in DOMAIN conn'[f].out : conn'[f].out[i] = <<f, i>>
       /\ Len(conn'[f].out) + Len(q) = n + 1
       /\ \A i \in 1..Len(q) : q[i] = <<f, Len(conn'[f].out) + i>>
  <2>1. CASE conn' = conn /\ q = Append(sock[s].sendBuf, b)
    <3>1. q = Append(v, b) /\ conn'[f].out = o
      BY <1>7, <2>1
    <3>2. Len(q) = l + 1 /\ q[l + 1] = b /\ \A i \in 1..l : q[i] = v[i]
      BY <1>8, <3>1, PushFact
    <3>3. \A i \in 1..(l + 1) : q[i] = <<f, m + i>>
      <4>1. b = <<f, m + (l + 1)>>
        BY <1>9, <1>10
      <4>2. \A i \in 1..(l + 1) : i \in 1..l \/ i = l + 1
        OBVIOUS
      <4>3. QED
        BY <1>11, <3>2, <4>1, <4>2
    <3>4. m + (l + 1) = n + 1
      BY <1>9
    <3>5. DOMAIN o = 1..m
      BY <1>8
    <3>6. \A x \in DOMAIN conn : conn'[x] = conn[x]
      BY <2>1
    <3>7. QED
      BY <1>8, <1>11, <3>1, <3>2, <3>3, <3>4, <3>5, <3>6
  <2>2. CASE /\ q = <<b>>
             /\ conn' = [conn EXCEPT ![sock[s].bev] =
                            Written(conn[sock[s].bev], sock[s].sendBuf)]
    <3>1. PICK c0 \in ConnType : c0 = conn[f]
      BY <1>6
    <3>2. PICK c : c = Written(c0, v)
      OBVIOUS
    <3>3. c \in ConnType /\ c.out = o \o v
      BY <1>7, <3>1, <3>2, WrittenFact
    <3>4. conn' = [conn EXCEPT ![f] = c]
      BY <1>5, <1>7, <2>2, <3>1, <3>2
    <3>5. conn'[f] = c /\ \A x \in DOMAIN conn : x # f => conn'[x] = conn[x]
      BY <1>6, <3>3, <3>4, ConnPut
    <3>6. /\ o \o v \in Seq(Fds \X Requests) /\ Len(o \o v) = n
          /\ \A i \in DOMAIN (o \o v) : (o \o v)[i] = <<f, i>>
      <4>1. o \o v \in Seq(Fds \X Requests) /\ Len(o \o v) = n
        BY <1>8, <1>9
      <4>2. \A i \in DOMAIN (o \o v) : (o \o v)[i] = <<f, i>>
        <5>1. /\ \A j \in 1..Len(o) : o[j] = <<f, j>>
              /\ \A j \in 1..Len(v) : v[j] = <<f, Len(o) + j>>
          BY <1>8, <1>11
        <5>2. QED
          BY <5>1, JoinedFact
      <4>3. QED
        BY <4>1, <4>2
    <3>7. Len(q) = 1 /\ q[1] = <<f, n + 1>>
      BY <1>10, <2>2
    <3>8. conn'[f].out = o \o v
      BY <3>3, <3>5
    <3>9. n + Len(q) = n + 1 /\ \A i \in 1..Len(q) : q[i] = <<f, n + i>>
      BY <3>7
    <3>10. QED
      BY <3>5, <3>6, <3>8, <3>9
  <2>3. QED
    BY <1>3, <2>1, <2>2 DEF Buffers
\* What has become of the lists.
<1>17. /\ ioList[t] \in Seq(IOPackage) /\ 1 \in 1..Len(ioList[t])
       /\ Len(ioList'[t]) = Len(ioList[t]) - 1
       /\ \A i \in 1..Len(ioList'[t]) :
              i + 1 \in 1..Len(ioList[t]) /\ ioList'[t][i] = ioList[t][i + 1]
       /\ \A u \in Threads : u # t => ioList'[u] = ioList[u]
       /\ IsSend(ioList[t][1], s) /\ ioList[t][1].buf = b
       /\ ioDeal'[t] > 0 /\ \A u \in Threads : u # t => ioDeal'[u] = ioDeal[u]
  <2>1. /\ ioList[t] \in Seq(IOPackage) /\ ioList[t] # <<>>
        /\ ioList' = [ioList EXCEPT ![t] = Tail(@)] /\ ioDeal'[t] > 0
        /\ Head(ioList[t]).cmd = "send_buf"
    BY <1>3, IOTakesFact DEF Buffers
  <2>2. /\ Len(ioList[t]) \in Nat \ {0} /\ Len(Tail(ioList[t])) = Len(ioList[t]) - 1
        /\ \A i \in 1..(Len(ioList[t]) - 1) : Tail(ioList[t])[i] = ioList[t][i + 1]
        /\ Head(ioList[t]) = ioList[t][1]
    BY <2>1, PopFact
  <2>3. ioList'[t] = Tail(ioList[t]) /\ \A u \in Threads : u # t => ioList'[u] = ioList[u]
    BY <2>1 DEF TypeOK
  <2>4. ioDeal' = [ioDeal EXCEPT ![t] = @ + 1]
    BY <1>3 DEF Buffers, IOTakes
  <2>5. \A u \in Threads : u # t => ioDeal'[u] = ioDeal[u]
    BY <2>4 DEF TypeOK
  <2>6. 1 \in 1..Len(ioList[t])
    BY <2>2
  <2>7. IsSend(ioList[t][1], s) /\ ioList[t][1].buf = b
    BY <1>3, <2>1, <2>2 DEF Buffers, IsSend
  <2>8. \A i \in 1..Len(ioList'[t]) :
              i + 1 \in 1..Len(ioList[t]) /\ ioList'[t][i] = ioList[t][i + 1]
    BY <2>2, <2>3
  <2>9. QED
    BY <2>1, <2>2, <2>3, <2>5, <2>6, <2>7, <2>8
<1>18. \A u \in Threads : \A i \in 1..Len(ioList'[u]) :
           \E j \in 1..Len(ioList[u]) : ioList'[u][i] = ioList[u][j]
                                        /\ j = IF u = t THEN i + 1 ELSE i
  BY <1>17
<1>19. \A u \in Threads : ioList[u] \in Seq(IOPackage) /\ ioList'[u] \in Seq(IOPackage)
  BY DEF TypeOK
<1>20. \A u \in Threads : \A i \in 1..Len(ioList[u]) : ioList[u][i].server \in Servers
  <2>1. \A p \in IOPackage : p.server \in Servers
    BY DEF IOPackage
  <2>2. QED
    BY <1>19, <2>1
<1>21. Asking'
  <2>1. \A i \in 1..Len(mainList') : sock'[mainList'[i].server] # Unmade
    <3>1. \A p \in MainPackage : p.server \in Servers
      BY DEF MainPackage
    <3>2. \A i \in 1..Len(mainList) : mainList[i].server \in Servers
      <4>1. mainList \in Seq(MainPackage)
        BY DEF TypeOK
      <4>2. QED
        BY <3>1, <4>1
    <3>3. QED
      BY <1>13, <1>14, <3>2 DEF Keeps, Asking
  <2>2. ASSUME NEW x \in Servers, x \notin requested'
        PROVE  sock'[x] = Unmade /\ \A u \in Threads : ~About(ioList'[u], x)
    <3>1. sock[x] = Unmade /\ \A u \in Threads : ~About(ioList[u], x)
      BY <1>14, <2>2 DEF Asking
    <3>2. ASSUME NEW u \in Threads, About(ioList'[u], x) PROVE FALSE
      <4>1. PICK i \in 1..Len(ioList'[u]) : ioList'[u][i].server = x
        BY <1>19, <3>2 DEF About
      <4>2. PICK j \in 1..Len(ioList[u]) : ioList[u][j].server = x
        BY <1>18, <4>1
      <4>3. j \in DOMAIN ioList[u]
        BY <1>19, <4>2
      <4>4. QED
        BY <3>1, <4>2, <4>3 DEF About
    <3>3. QED
      BY <1>13, <3>1, <3>2 DEF Keeps
  <2>3. \A u \in Threads : \A i \in 1..Len(ioList'[u]) :
            IsConnect(ioList'[u][i]) => sock'[ioList'[u][i].server] = Unmade
    <3>1. SUFFICES ASSUME NEW u \in Threads, NEW i \in 1..Len(ioList'[u]),
                          IsConnect(ioList'[u][i])
                   PROVE  sock'[ioList'[u][i].server] = Unmade
      OBVIOUS
    <3>2. PICK j \in 1..Len(ioList[u]) : ioList'[u][i] = ioList[u][j]
      BY <1>18
    <3>3. PICK x \in Servers : x = ioList[u][j].server
      BY <1>20
    <3>4. sock[x] = Unmade
      BY <3>1, <3>2, <3>3 DEF Asking
    <3>5. QED
      BY <1>13, <3>2, <3>3, <3>4 DEF Keeps
  <2>4. \A u, w \in Threads : \A i \in 1..Len(ioList'[u]), j \in 1..Len(ioList'[w]) :
            IsConnect(ioList'[u][i]) /\ IsConnect(ioList'[w][j])
            /\ ioList'[u][i].server = ioList'[w][j].server => u = w /\ i = j
    <3>1. SUFFICES ASSUME NEW u \in Threads, NEW w \in Threads,
                          NEW i \in 1..Len(ioList'[u]), NEW j \in 1..Len(ioList'[w]),
                          IsConnect(ioList'[u][i]), IsConnect(ioList'[w][j]),
                          ioList'[u][i].server = ioList'[w][j].server
                   PROVE  u = w /\ i = j
      OBVIOUS
    <3>2. PICK i0 \in 1..Len(ioList[u]) : ioList'[u][i] = ioList[u][i0]
                                          /\ i0 = IF u = t THEN i + 1 ELSE i
      BY <1>18
    <3>3. PICK j0 \in 1..Len(ioList[w]) : ioList'[w][j] = ioList[w][j0]
                                          /\ j0 = IF w = t THEN j + 1 ELSE j
      BY <1>18
    <3>4. /\ IsConnect(ioList[u][i0]) /\ IsConnect(ioList[w][j0])
          /\ ioList[u][i0].server = ioList[w][j0].server
      BY <3>1, <3>2, <3>3
    <3>5. u = w /\ i0 = j0
      BY <3>4 DEF Asking
    <3>6. i = j
      BY <3>2, <3>3, <3>5
    <3>7. QED
      BY <3>5, <3>6
  <2>5. QED
    BY <2>1, <2>2, <2>3, <2>4 DEF Asking
<1>22. SendsOwn'
  <2>1. SUFFICES ASSUME NEW u \in Threads, NEW i \in 1..Len(ioList'[u]),
                        ioList'[u][i].cmd = "send_buf"
                 PROVE  LET x == ioList'[u][i].server
                        IN  /\ sock'[x].thread = u
                            /\ sock'[x].fd # BadFd /\ sock'[x].bev = sock'[x].fd
                            /\ ioList'[u][i].buf[1] = sock'[x].fd
    BY DEF SendsOwn, Current
  <2>2. PICK j \in 1..Len(ioList[u]) : ioList'[u][i] = ioList[u][j]
    BY <1>18
  <2>3. PICK x \in Servers : x = ioList[u][j].server
    BY <1>20
  <2>4. sock[x].thread = u /\ Current(x) /\ ioList[u][j].buf[1] = sock[x].fd
    BY <2>1, <2>2, <2>3 DEF SendsOwn
  <2>5. QED
    BY <1>13, <2>2, <2>3, <2>4 DEF Current, Keeps
<1>23. Listed'
  <2>1. ASSUME NEW x \in Servers, sock'[x].sendBuf # <<>>
        PROVE  /\ sock'[x].fd # BadFd /\ sock'[x].bev = sock'[x].fd
               /\ x \in needSendList'[sock'[x].thread]
    <3>1. CASE x = s
      BY <1>4, <1>13, <1>15, <3>1 DEF Keeps, Current
    <3>2. CASE x # s
      <4>1. sock[x].sendBuf # <<>>
        BY <1>12, <2>1, <3>2
      <4>2. Current(x) /\ x \in needSendList[sock[x].thread]
        BY <4>1 DEF Listed
      <4>3. sock[x].thread \in Threads
        <5>1. sock[x] # Unmade
          BY <4>1, ThreadFact
        <5>2. QED
          BY <5>1, ThreadFact
      <4>4. QED
        BY <1>13, <1>15, <4>2, <4>3 DEF Keeps, Current
    <3>3. QED
      BY <3>1, <3>2
  <2>2. ASSUME NEW u \in Threads, ioDeal'[u] = 0 PROVE needSendList'[u] = {}
    <3>1. u # t
      BY <1>17, <2>2
    <3>2. ioDeal[u] = 0 /\ needSendList'[u] = needSendList[u]
      BY <1>15, <1>17, <2>2, <3>1
    <3>3. QED
      BY <3>2 DEF Listed
  <2>3. QED
    BY <2>1, <2>2 DEF Listed, Current
\* The others' buffers and connections are as they were.
<1>24. \A x \in Servers : x # s /\ sock[x].bev \in Fds =>
           /\ sock'[x] = sock[x] /\ conn'[sock[x].bev] = conn[sock[x].bev]
  BY <1>6, <1>12, <1>16 DEF Wired
<1>25. Buffered'
  <2>1. SUFFICES ASSUME NEW x \in Servers, sock'[x].bev \in Fds
                 PROVE  \A i \in 1..Len(sock'[x].sendBuf) :
                            sock'[x].sendBuf[i] =
                                <<sock'[x].bev, Len(conn'[sock'[x].bev].out) + i>>
    BY DEF Buffered
  <2>2. CASE x = s
    <3>1. sock'[x].bev = f
      BY <1>5, <1>13, <2>2 DEF Keeps
    <3>2. QED
      BY <1>12, <1>16, <2>2, <3>1
  <2>3. CASE x # s
    <3>1. sock[x].bev \in Fds
      BY <1>13, <2>1 DEF Keeps
    <3>2. sock'[x] = sock[x] /\ conn'[sock[x].bev] = conn[sock[x].bev]
      BY <1>24, <2>3, <3>1
    <3>3. \A i \in 1..Len(sock[x].sendBuf) :
              sock[x].sendBuf[i] = <<sock[x].bev, Len(conn[sock[x].bev].out) + i>>
      BY <3>1 DEF Buffered
    <3>4. QED
      BY <3>2, <3>3
  <2>4. QED
    BY <2>2, <2>3
<1>26. NotAsked'
  BY <1>13, <1>14 DEF NotAsked, Keeps
<1>27. RequestsOnOwnConnection'
  <2>1. SUFFICES ASSUME NEW x \in DOMAIN conn
                 PROVE  \A i \in DOMAIN conn'[x].out : conn'[x].out[i] = <<x, i>>
    BY <1>13 DEF RequestsOnOwnConnection, Keeps
  <2>2. CASE x = f
    BY <1>16, <2>2
  <2>3. CASE x # f
    BY <1>16, <2>3 DEF RequestsOnOwnConnection
  <2>4. QED
    BY <2>2, <2>3
<1>28. Base(s)' = n + 1
  <2>1. sock'[s].bev = f
    BY <1>5, <1>13 DEF Keeps
  <2>2. QED
    BY <1>12, <1>16, <2>1 DEF Base
<1>29. Numbered'
  <2>1. SUFFICES ASSUME NEW x \in Servers, sock'[x].bev \in Fds
                 PROVE  /\ Base(x)' <= asked'[sock'[x].bev]
                        /\ \A u \in Threads : \A i \in 1..Len(ioList'[u]) :
                               IsSend(ioList'[u][i], x) =>
                                 /\ ioList'[u][i].buf[2] \in
                                        (Base(x)' + 1)..asked'[sock'[x].bev]
                                 /\ \A j \in 1..(i - 1) : IsSend(ioList'[u][j], x) =>
                                        ioList'[u][j].buf[2] < ioList'[u][i].buf[2]
                        /\ \A k \in (Base(x)' + 1)..asked'[sock'[x].bev] :
                               \E i \in 1..Len(ioList'[sock'[x].thread]) :
                                   /\ IsSend(ioList'[sock'[x].thread][i], x)
                                   /\ ioList'[sock'[x].thread][i].buf[2] = k
    BY DEF Numbered
  <2>2. PICK g \in Fds, w \in Threads :
            g = sock[x].bev /\ g = sock'[x].bev /\ w = sock[x].thread /\ w = sock'[x].thread
    <3>1. /\ sock'[x].bev = sock[x].bev /\ sock[x].bev \in Fds
          /\ sock'[x].thread = sock[x].thread
      BY <1>13, <2>1 DEF Keeps
    <3>2. sock[x].thread \in Threads
      BY <3>1, BaseFact
    <3>3. QED
      BY <3>1, <3>2
  <2>3. PICK h \in Nat, c \in Nat : h = Base(x) /\ c = asked[g]
    BY <2>2, BaseFact
  <2>4. asked' = asked
    BY <1>14
  <2>5. /\ h <= c
        /\ \A u \in Threads : \A i \in 1..Len(ioList[u]) : IsSend(ioList[u][i], x) =>
               /\ ioList[u][i].buf[2] \in (h + 1)..c
               /\ \A j \in 1..(i - 1) : IsSend(ioList[u][j], x) =>
                      ioList[u][j].buf[2] < ioList[u][i].buf[2]
        /\ \A k \in (h + 1)..c :
               \E i \in 1..Len(ioList[w]) : IsSend(ioList[w][i], x) /\ ioList[w][i].buf[2] = k
    <3>1. /\ Base(x) <= asked[sock[x].bev]
          /\ \A u \in Threads : \A i \in 1..Len(ioList[u]) : IsSend(ioList[u][i], x) =>
                 /\ ioList[u][i].buf[2] \in (Base(x) + 1)..asked[sock[x].bev]
                 /\ \A j \in 1..(i - 1) : IsSend(ioList[u][j], x) =>
                        ioList[u][j].buf[2] < ioList[u][i].buf[2]
          /\ \A k \in (Base(x) + 1)..asked[sock[x].bev] :
                 \E i \in 1..Len(ioList[sock[x].thread]) :
                     /\ IsSend(ioList[sock[x].thread][i], x)
                     /\ ioList[sock[x].thread][i].buf[2] = k
      BY <2>2 DEF Numbered
    <3>2. QED
      BY <2>2, <2>3, <3>1
\* The request that has gone was the first of its socket, and the others' stay.
  <2>6. PICK e \in Nat :
            /\ e = Base(x)' /\ e \in h..(h + 1) /\ e <= c
            /\ (x = s => e = h + 1) /\ (x # s => e = h)
    <3>1. CASE x = s
      <4>1. n = h /\ f = g
        BY <1>5, <1>8, <2>2, <2>3, <3>1
      <4>2. h + 1 <= c /\ Base(x)' = h + 1
        BY <1>8, <1>10, <1>28, <2>3, <3>1, <4>1
      <4>3. h + 1 \in Nat /\ h + 1 \in h..(h + 1)
        OBVIOUS
      <4>4. QED
        BY <3>1, <4>2, <4>3
    <3>2. CASE x # s
      <4>1. sock'[x] = sock[x] /\ conn'[sock[x].bev] = conn[sock[x].bev]
        BY <1>24, <2>2, <3>2
      <4>2. Base(x)' = h
        BY <2>3, <4>1 DEF Base
      <4>3. h \in h..(h + 1)
        OBVIOUS
      <4>4. QED
        BY <2>5, <3>2, <4>2, <4>3
    <3>3. QED
      BY <3>1, <3>2
  <2>7. ASSUME NEW u \in Threads, NEW i \in 1..Len(ioList'[u]), IsSend(ioList'[u][i], x)
        PROVE  /\ ioList'[u][i].buf[2] \in (e + 1)..c
               /\ \A j \in 1..(i - 1) : IsSend(ioList'[u][j], x) =>
                      ioList'[u][j].buf[2] < ioList'[u][i].buf[2]
    <3>1. PICK d \in 0..1 :
              /\ d = IF u = t THEN 1 ELSE 0
              /\ \A k \in 1..Len(ioList'[u]) :
                     k + d \in 1..Len(ioList[u]) /\ ioList'[u][k] = ioList[u][k + d]
      <4>1. CASE u = t
        <5>1. \A k \in 1..Len(ioList'[u]) :
                  k + 1 \in 1..Len(ioList[u]) /\ ioList'[u][k] = ioList[u][k + 1]
          BY <1>17, <4>1
        <5>2. 1 \in 0..1
          OBVIOUS
        <5>3. QED
          BY <4>1, <5>1, <5>2
      <4>2. CASE u # t
        <5>1. \A k \in 1..Len(ioList'[u]) :
                  k + 0 \in 1..Len(ioList[u]) /\ ioList'[u][k] = ioList[u][k + 0]
          BY <1>17, <1>19, <4>2
        <5>2. QED
          BY <4>2, <5>1
      <4>3. QED
        BY <4>1, <4>2
    <3>2. i + d \in 1..Len(ioList[u]) /\ ioList'[u][i] = ioList[u][i + d]
      BY <3>1
    <3>3. ioList[u][i + d].buf[2] \in (h + 1)..c
      BY <2>5, <2>7, <3>2
    <3>4. x = s => ioList[u][i + d].buf[2] > h + 1
      <4>1. SUFFICES ASSUME x = s PROVE ioList[u][i + d].buf[2] > h + 1
        OBVIOUS
      <4>2. u = t
        <5>1. sock[x].thread = u
          BY <2>7, <3>2 DEF SendsOwn, IsSend
        <5>2. QED
          BY <1>4, <4>1, <5>1
      <4>3. 1 \in 1..((i + d) - 1)
        BY <3>1, <4>2
      <4>4. IsSend(ioList[u][1], x) /\ ioList[u][1].buf[2] = h + 1
        <5>1. n = h
          BY <1>8, <2>3, <4>1
        <5>2. QED
          BY <1>10, <1>17, <4>1, <4>2, <5>1
      <4>5. ioList[u][1].buf[2] < ioList[u][i + d].buf[2]
        BY <2>5, <2>7, <3>2, <4>3, <4>4
      <4>6. QED
        BY <3>3, <4>4, <4>5
    <3>5. ioList[u][i + d].buf[2] \in (e + 1)..c
      BY <2>6, <3>3, <3>4
    <3>6. ASSUME NEW j \in 1..(i - 1), IsSend(ioList'[u][j], x)
          PROVE  ioList'[u][j].buf[2] < ioList'[u][i].buf[2]
      <4>1. Len(ioList'[u]) \in Nat
        BY <1>19
      <4>2. j \in 1..Len(ioList'[u]) /\ j + d \in 1..((i + d) - 1)
        BY <4>1
      <4>3. ioList'[u][j] = ioList[u][j + d]
        BY <3>1, <4>2
      <4>4. QED
        BY <2>5, <2>7, <3>2, <3>6, <4>2, <4>3
    <3>7. QED
      BY <3>2, <3>5, <3>6
  <2>8. ASSUME NEW k \in (e + 1)..c
        PROVE  \E i \in 1..Len(ioList'[w]) : IsSend(ioList'[w][i], x) /\ ioList'[w][i].buf[2] = k
    <3>1. k \in (h + 1)..c
      BY <2>6
    <3>2. PICK i \in 1..Len(ioList[w]) : IsSend(ioList[w][i], x) /\ ioList[w][i].buf[2] = k
      BY <2>5, <3>1
    <3>3. CASE w # t
      BY <1>17, <3>2, <3>3
    <3>4. CASE w = t
      <4>1. i # 1
        <5>1. SUFFICES ASSUME i = 1 PROVE FALSE
          OBVIOUS
        <5>2. x = s /\ ioList[t][1].buf[2] = k
          BY <1>17, <3>2, <3>4, <5>1 DEF IsSend
        <5>3. n = h /\ k = n + 1
          BY <1>8, <1>10, <1>17, <2>3, <5>2
        <5>4. QED
          BY <2>6, <5>2, <5>3
      <4>2. Len(ioList[t]) \in Nat
        BY <1>17
      <4>3. PICK j \in 1..Len(ioList'[t]) : j + 1 = i
        <5>1. i - 1 \in 1..Len(ioList'[t]) /\ (i - 1) + 1 = i
          BY <1>17, <3>4, <4>1, <4>2
        <5>2. QED
          BY <5>1
      <4>4. ioList'[t][j] = ioList[t][i]
        BY <1>17, <4>3
      <4>5. QED
        BY <3>2, <3>4, <4>3, <4>4
    <3>5. QED
      BY <3>3, <3>4
  <2>9. QED
    BY <2>2, <2>3, <2>4, <2>6, <2>7, <2>8
<1>30. QED
  BY <1>21, <1>22, <1>23, <1>25, <1>26, <1>27, <1>29

-----------------------------------------------------------------------------
(***************************************************************************)
(* What main has to do                                                     *)
(***************************************************************************)
\* The packages in main's list, and the numbers of their parts.
LEMMA NumberFact ==
    ASSUME TypeOK
    PROVE  /\ mainList \in Seq(MainPackage) /\ Len(mainList) \in Nat
           /\ \A i \in 1..Len(mainList) :
                  /\ mainList[i].server \in Servers
                  /\ mainList[i].cmd = "recv_buf" => Number(i) \in Nat /\ Number(i) > 0
                                                     /\ Number(i) \in Parts
<1>1. mainList \in Seq(MainPackage)
  BY DEF TypeOK
<1>2. Len(mainList) \in Nat /\ \A i \in 1..Len(mainList) : mainList[i] \in MainPackage
  BY <1>1
<1>3. \A p \in MainPackage :
          /\ p.server \in Servers
          /\ p.cmd = "recv_buf" => p.buf[2][2] \in Parts
  BY DEF MainPackage
<1>4. \A k \in Parts : k \in Nat /\ k > 0
  BY ClientConnAssumption DEF Parts
<1>5. QED
  BY <1>1, <1>2, <1>3, <1>4 DEF Number

\* The numbers that the parts are compared with.
LEMMA LastFact ==
    ASSUME TypeOK
    PROVE  /\ \A fd \in DOMAIN conn : conn[fd].read \in Nat
           /\ \A s \in Servers : session[s].last \in Nat /\ session[s].conn \in Nat
<1>1. MaxSent \in Nat /\ FdLimit \in Nat
  BY ClientConnAssumption
<1>2. \A fd \in DOMAIN conn : conn[fd].read \in Nat
  BY <1>1, ConnFact DEF ConnType
<1>3. \A s \in Servers : session[s] \in SessionType
  BY DEF TypeOK
<1>4. \A e \in SessionType : e.last \in Nat /\ e.conn \in Nat
  BY <1>1 DEF SessionType, Parts, Fds
<1>5. QED
  BY <1>2, <1>3, <1>4

\* A step after which main has at most one more package to take, which ends a
\* connection or has come on one.
LEMMA MainKept ==
    ASSUME ClientInv, TypeOK', Keeps, UNCHANGED <<mapAgents, session>>,
           \A i \in 1..Len(mainList) : i \in 1..Len(mainList') /\ mainList'[i] = mainList[i],
           \A i \in 1..Len(mainList') : i \notin 1..Len(mainList) =>
               /\ i = Len(mainList) + 1
               /\ mainList'[i].cmd # "connect_end"
               /\ mainList'[i].cmd = "recv_buf" =>
                      \E c \in DOMAIN conn :
                          /\ c = sock[mainList'[i].server].bev
                          /\ conn[c].read < Number(i)'
                          /\ Number(i)' <= conn'[c].read,
           \A fd \in DOMAIN conn : conn[fd].reading =>
               conn'[fd].reading \/ Closes(conn[fd].server)'
    PROVE  MainInv'
<1> USE DEF ClientInv, MainInv
<1>1. /\ mainList \in Seq(MainPackage) /\ Len(mainList) \in Nat
      /\ mainList' \in Seq(MainPackage) /\ Len(mainList') \in Nat
  BY DEF TypeOK
<1>2. /\ DOMAIN conn' = DOMAIN conn
      /\ \A fd \in DOMAIN conn : conn'[fd].server = conn[fd].server
                                 /\ conn'[fd].read >= conn[fd].read
      /\ \A x \in Servers : sock'[x].fd = sock[x].fd /\ sock'[x].bev = sock[x].bev
  BY DEF Keeps
<1>3. \A fd \in DOMAIN conn : conn[fd].read \in Nat /\ conn'[fd].read \in Nat
  <2>1. \A fd \in DOMAIN conn : conn[fd].read \in Nat
    BY LastFact
  <2>2. MaxSent \in Nat /\ conn' \in Seq(ConnType)
    BY ClientConnAssumption DEF TypeOK
  <2>3. \A c \in ConnType : c.read \in Nat
    BY <2>2 DEF ConnType
  <2>4. QED
    BY <1>2, <2>1, <2>2, <2>3
<1>4. \A x \in Servers : /\ Up(x)' = Up(x) /\ FdOf(x)' = FdOf(x)
                         /\ Current(x)' = Current(x)
                         /\ Closes(x) => Closes(x)'
                         /\ Begins(x)' => Begins(x)
  <2>1. SUFFICES ASSUME NEW x \in Servers
                 PROVE  /\ Up(x)' = Up(x) /\ FdOf(x)' = FdOf(x) /\ Current(x)' = Current(x)
                        /\ (Closes(x) => Closes(x)')
                        /\ (Begins(x)' => Begins(x))
    OBVIOUS
  <2>2. Up(x)' = Up(x) /\ FdOf(x)' = FdOf(x) /\ Current(x)' = Current(x)
    BY <1>2 DEF Up, FdOf, Current
  <2>3. Closes(x) => Closes(x)'
    BY DEF Closes
  <2>4. Begins(x)' => Begins(x)
    BY DEF Begins
  <2>5. QED
    BY <2>2, <2>3, <2>4
<1>5. Told'
  <2>1. SUFFICES ASSUME NEW x \in Servers, Begins(x)' \/ Up(x)'
                 PROVE  Current(x)' /\ (conn'[sock'[x].fd].reading \/ Closes(x)')
    BY DEF Told
  <2>2. Current(x) /\ (conn[sock[x].fd].reading \/ Closes(x))
    BY <1>4, <2>1 DEF Told
  <2>3. sock[x].fd \in DOMAIN conn /\ conn[sock[x].fd].server = x
    BY <2>2 DEF Current, Wired
  <2>4. QED
    BY <1>2, <1>4, <2>2, <2>3
<1>6. BeginsFirst'
  <2>1. SUFFICES ASSUME NEW x \in Servers, NEW i \in 1..Len(mainList'),
                        mainList'[i].cmd = "connect_end", mainList'[i].server = x
                 PROVE  /\ \A j \in 1..(i - 1) : mainList'[j].server # x
                        /\ ~Up(x)'
                        /\ session'[x].conn < sock'[x].fd
    BY DEF BeginsFirst
  <2>2. i \in 1..Len(mainList) /\ mainList'[i] = mainList[i]
    BY <2>1
  <2>3. \A j \in 1..(i - 1) : mainList'[j] = mainList[j]
    BY <1>1, <2>2
  <2>4. /\ \A j \in 1..(i - 1) : mainList[j].server # x
        /\ ~Up(x)
        /\ session[x].conn < sock[x].fd
    BY <2>1, <2>2 DEF BeginsFirst
  <2>5. QED
    BY <1>2, <1>4, <2>3, <2>4
<1>7. SessionsUp'
  <2>1. SUFFICES ASSUME NEW x \in Servers
                 PROVE  /\ session[x].link = "up" <=> Up(x)
                        /\ Up(x) => /\ session[x].conn = FdOf(x)
                                    /\ session[x].last <= conn'[FdOf(x)].read
                        /\ session[x].conn # 0 =>
                               /\ session[x].conn \in DOMAIN conn'
                               /\ conn'[session[x].conn].server = x
    BY <1>4 DEF SessionsUp
  <2>2. /\ session[x].link = "up" <=> Up(x)
        /\ Up(x) => session[x].conn = FdOf(x) /\ session[x].last <= conn[FdOf(x)].read
        /\ session[x].conn # 0 => /\ session[x].conn \in DOMAIN conn
                                  /\ conn[session[x].conn].server = x
    BY DEF SessionsUp
  <2>3. Up(x) => session[x].last <= conn'[FdOf(x)].read
    <3>1. SUFFICES ASSUME Up(x) PROVE session[x].last <= conn'[FdOf(x)].read
      OBVIOUS
    <3>2. FdOf(x) \in DOMAIN conn
      BY <3>1 DEF Told, Current, Wired, FdOf
    <3>3. session[x].last \in Nat
      BY LastFact
    <3>4. QED
      BY <1>2, <1>3, <2>2, <3>1, <3>2, <3>3
  <2>4. QED
    BY <1>2, <2>2, <2>3
<1>8. RecvRising'
  <2>1. SUFFICES ASSUME NEW x \in Servers, NEW i \in 1..Len(mainList'),
                        mainList'[i].cmd = "recv_buf", mainList'[i].server = x
                 PROVE  /\ sock[x].bev \in Fds
                        /\ Number(i)' <= conn'[sock[x].bev].read
                        /\ Up(x) => session[x].last < Number(i)'
                        /\ \A j \in 1..(i - 1) :
                               mainList'[j].cmd = "recv_buf" /\ mainList'[j].server = x =>
                                   Number(j)' < Number(i)'
    BY <1>2, <1>4 DEF RecvRising
  <2>2. \A j \in 1..(i - 1) : j \in 1..Len(mainList) /\ mainList'[j] = mainList[j]
                              /\ Number(j)' = Number(j)
    <3>1. i <= Len(mainList) + 1
      BY <1>1
    <3>2. \A j \in 1..(i - 1) : j \in 1..Len(mainList)
      BY <1>1, <3>1
    <3>3. QED
      BY <3>2 DEF Number
  <2>3. CASE i \in 1..Len(mainList)
    <3>1. mainList'[i] = mainList[i] /\ Number(i)' = Number(i)
      BY <2>3 DEF Number
    <3>2. /\ sock[x].bev \in Fds
          /\ Number(i) <= conn[sock[x].bev].read
          /\ Up(x) => session[x].last < Number(i)
          /\ \A j \in 1..(i - 1) :
                 mainList[j].cmd = "recv_buf" /\ mainList[j].server = x =>
                     Number(j) < Number(i)
      BY <2>1, <2>3, <3>1 DEF RecvRising
    <3>3. sock[x].bev \in DOMAIN conn /\ Number(i) \in Nat
      BY <2>1, <2>3, <3>1, <3>2, NumberFact DEF Wired
    <3>4. Number(i) <= conn'[sock[x].bev].read
      BY <1>2, <1>3, <3>2, <3>3
    <3>5. QED
      BY <2>2, <3>1, <3>2, <3>4
  <2>4. CASE i \notin 1..Len(mainList)
    <3>1. PICK c \in DOMAIN conn :
              c = sock[x].bev /\ conn[c].read < Number(i)' /\ Number(i)' <= conn'[c].read
      BY <2>1, <2>4
    <3>2. c \in Fds
      BY ConnFact
    <3>3. Number(i)' \in Nat
      <4>1. mainList'[i] \in MainPackage /\ MaxSent \in Nat
        BY <1>1, ClientConnAssumption
      <4>2. \A p \in MainPackage : p.cmd = "recv_buf" => p.buf[2][2] \in Parts
        BY DEF MainPackage
      <4>3. \A k \in Parts : k \in Nat
        BY <4>1 DEF Parts
      <4>4. QED
        BY <2>1, <4>1, <4>2, <4>3 DEF Number
    <3>4. Up(x) => session[x].last < Number(i)'
      <4>1. SUFFICES ASSUME Up(x) PROVE session[x].last < Number(i)'
        OBVIOUS
      <4>2. FdOf(x) = c
        BY <3>1, <4>1 DEF Told, Current, FdOf
      <4>3. session[x].last <= conn[c].read /\ session[x].last \in Nat
        BY <4>1, <4>2, LastFact DEF SessionsUp
      <4>4. QED
        BY <1>3, <3>1, <3>3, <4>3
    <3>5. ASSUME NEW j \in 1..(i - 1), mainList'[j].cmd = "recv_buf", mainList'[j].server = x
          PROVE  Number(j)' < Number(i)'
      <4>1. j \in 1..Len(mainList) /\ mainList'[j] = mainList[j] /\ Number(j)' = Number(j)
        BY <2>2
      <4>2. Number(j) <= conn[c].read /\ Number(j) \in Nat
        BY <3>1, <3>5, <4>1, NumberFact DEF RecvRising
      <4>3. QED
        BY <1>3, <3>1, <3>3, <4>1, <4>2
    <3>6. QED
      BY <3>1, <3>2, <3>4, <3>5
  <2>5. QED
    BY <2>3, <2>4
<1>9. AgentsFound'
  <2>1. \A fd \in DOMAIN mapAgents : mapAgents[fd] \in Servers
    BY DEF TypeOK
  <2>2. QED
    BY <1>4, <2>1 DEF AgentsFound
<1>10. QED
  BY <1>5, <1>6, <1>7, <1>8, <1>9

\* What a step leaves that says nothing to main.
LEMMA SameTold ==
    ASSUME ClientInv, TypeOK', Keeps, MainSame
    PROVE  MainInv'
<1>1. UNCHANGED <<mainList, mapAgents, session>>
      /\ \A fd \in DOMAIN conn : conn'[fd].reading = conn[fd].reading
  BY DEF MainSame
<1>2. \A i \in 1..Len(mainList) : i \in 1..Len(mainList') /\ mainList'[i] = mainList[i]
  BY <1>1
<1>3. \A i \in 1..Len(mainList') : i \in 1..Len(mainList)
  BY <1>1
<1>4. QED
  BY <1>1, <1>2, <1>3, MainKept

\* What a push to main's list does to it.
LEMMA ToldFact ==
    ASSUME TypeOK, NEW p \in MainPackage, mainList' = Append(mainList, p)
    PROVE  /\ \A i \in 1..Len(mainList) : i \in 1..Len(mainList') /\ mainList'[i] = mainList[i]
           /\ \A i \in 1..Len(mainList') : i \notin 1..Len(mainList) =>
                  i = Len(mainList) + 1 /\ mainList'[i] = p
           /\ Len(mainList) + 1 \in 1..Len(mainList')
           /\ mainList'[Len(mainList) + 1] = p
<1>1. mainList \in Seq(MainPackage)
  BY DEF TypeOK
<1>2. PICK n \in Nat : n = Len(mainList)
  BY <1>1
<1>3. /\ Len(mainList') = n + 1
      /\ \A i \in 1..n : mainList'[i] = mainList[i]
      /\ mainList'[n + 1] = p
  BY <1>1, <1>2, PushFact
<1>4. /\ \A i \in 1..n : i \in 1..(n + 1)
      /\ \A i \in 1..(n + 1) : i \notin 1..n => i = n + 1
      /\ n + 1 \in 1..(n + 1)
  OBVIOUS
<1>5. QED
  BY <1>2, <1>3, <1>4

\* A connection's end is reported before it is forgotten.
LEMMA EventTold ==
    ASSUME ClientInv, TypeOK', NEW fd, ReadEvent(fd) \/ WriteEvent(fd)
    PROVE  MainInv'
<1> USE DEF ClientInv
<1>1. /\ fd \in DOMAIN conn /\ ReportEnd(conn[fd].server) /\ UNCHANGED <<mainVars, batchVars>>
      /\ Keeps
  BY EventFact, EventKeeps
<1>2. PICK s \in Servers : s = conn[fd].server
  BY <1>1, ConnFact
<1>3. PICK p \in MainPackage : p = Package("close", s, <<>>) /\ p.cmd = "close" /\ p.server = s
  BY PackageFact DEF Package
<1>4. mainList' = Append(mainList, p)
  BY <1>1, <1>2, <1>3, ReportEndFact
<1>5. /\ \A i \in 1..Len(mainList) : i \in 1..Len(mainList') /\ mainList'[i] = mainList[i]
      /\ \A i \in 1..Len(mainList') : i \notin 1..Len(mainList) =>
             i = Len(mainList) + 1 /\ mainList'[i] = p
      /\ Len(mainList) + 1 \in 1..Len(mainList')
      /\ mainList'[Len(mainList) + 1] = p
  BY <1>4, ToldFact
<1>6. PICK c \in ConnType : conn' = [conn EXCEPT ![fd] = c]
  BY EventFact
<1>7. \A x \in DOMAIN conn : x # fd => conn'[x] = conn[x]
  BY <1>1, <1>6, ConnPut
<1>8. \A x \in DOMAIN conn : conn[x].reading => conn'[x].reading \/ Closes(conn[x].server)'
  <2>1. SUFFICES ASSUME NEW x \in DOMAIN conn, conn[x].reading
                 PROVE  conn'[x].reading \/ Closes(conn[x].server)'
    OBVIOUS
  <2>2. CASE x = fd
    <3>1. conn'[x].server = s
      BY <1>1, <1>2, <2>2 DEF Keeps
    <3>2. Closes(conn[x].server)'
      BY <1>3, <1>5, <3>1 DEF Closes
    <3>3. QED
      BY <3>2
  <2>3. CASE x # fd
    BY <1>7, <2>1, <2>3
  <2>4. QED
    BY <2>2, <2>3
<1>9. UNCHANGED <<mapAgents, session>>
  BY <1>1 DEF mainVars
<1>10. QED
  BY <1>1, <1>3, <1>5, <1>8, <1>9, MainKept

\* A package that is read is the newest of its connection, which is the one that
\* its socket has.
LEMMA ReadTold ==
    ASSUME ClientInv, TypeOK', NEW fd, Read(fd)
    PROVE  MainInv'
<1> USE DEF ClientInv
<1>1. /\ fd \in DOMAIN conn /\ conn[fd].reading /\ UNCHANGED <<mainVars, batchVars>>
      /\ Keeps
  BY ReadFact, ReadKeeps
<1>2. PICK s \in Servers : \E n \in 1..2 : \E q \in Seq(Fds \X Parts) :
          s = conn[fd].server /\ Reads(fd, s, n, q)
  BY ReadFact
<1>3. PICK n \in 1..2 : \E q \in Seq(Fds \X Parts) : Reads(fd, s, n, q)
  BY <1>2
<1>4. PICK q \in Seq(Fds \X Parts) : Reads(fd, s, n, q)
  BY <1>3
<1>5. sock[s].bev = fd /\ Len(sock[s].recvBuf) <= 1 /\ conn[fd] \in ConnType
  BY <1>1, <1>2, ConnFact DEF ReadsCurrent, Wired
<1>6. PICK c : c = [conn[fd] EXCEPT !.read = conn[fd].read + n]
  OBVIOUS
<1>7. c.read = conn[fd].read + n /\ c.reading = conn[fd].reading
  BY <1>5, <1>6 DEF ConnType
<1>8. /\ conn'[fd] = c
      /\ \A x \in DOMAIN conn : x # fd => conn'[x] = conn[x]
  <2>1. conn' = [conn EXCEPT ![fd] = c]
    BY <1>4, <1>6 DEF Reads
  <2>2. QED
    BY <1>1, <2>1 DEF TypeOK
<1>9. \A x \in DOMAIN conn : conn[x].reading => conn'[x].reading \/ Closes(conn[x].server)'
  BY <1>7, <1>8
<1>10. UNCHANGED <<mapAgents, session>>
  BY <1>1 DEF mainVars
<1>11. CASE mainList' = mainList
  <2>1. /\ \A i \in 1..Len(mainList) : i \in 1..Len(mainList') /\ mainList'[i] = mainList[i]
        /\ \A i \in 1..Len(mainList') : i \in 1..Len(mainList)
    BY <1>11
  <2>2. QED
    BY <1>1, <1>9, <1>10, <2>1, MainKept
<1>12. CASE mainList' # mainList
  <2>1. PICK b \in (Fds \X Parts) \X (Fds \X Parts) :
            /\ mainList' = Append(mainList, Package("recv_buf", s, b))
            /\ b[2][2] \in (conn[fd].read + 1)..(conn[fd].read + n)
    BY <1>4, <1>5, <1>12 DEF Reads
  <2>2. PICK p \in MainPackage : /\ p = Package("recv_buf", s, b)
                                 /\ p.cmd = "recv_buf" /\ p.server = s /\ p.buf = b
    BY PackageFact DEF Package
  <2>3. /\ \A i \in 1..Len(mainList) : i \in 1..Len(mainList') /\ mainList'[i] = mainList[i]
        /\ \A i \in 1..Len(mainList') : i \notin 1..Len(mainList) =>
               i = Len(mainList) + 1 /\ mainList'[i] = p
    BY <2>1, <2>2, ToldFact
  <2>4. conn[fd].read < b[2][2] /\ b[2][2] <= conn'[fd].read
    <3>1. PICK k \in Nat, m \in Nat : k = conn[fd].read /\ m = b[2][2]
      <4>1. b[2][2] \in Parts /\ Parts \subseteq Nat /\ conn[fd].read \in Nat
        BY <1>1, <2>1, LastFact, ClientConnAssumption DEF Parts
      <4>2. QED
        BY <4>1
    <3>2. m \in (k + 1)..(k + n) /\ conn'[fd].read = k + n
      BY <1>7, <1>8, <2>1, <3>1
    <3>3. k < m /\ m <= k + n
      BY <3>2
    <3>4. QED
      BY <3>1, <3>2, <3>3
  <2>5. ASSUME NEW i \in 1..Len(mainList'), i \notin 1..Len(mainList)
        PROVE  /\ i = Len(mainList) + 1
               /\ mainList'[i].cmd # "connect_end"
               /\ mainList'[i].cmd = "recv_buf" =>
                      \E x \in DOMAIN conn :
                          /\ x = sock[mainList'[i].server].bev
                          /\ conn[x].read < Number(i)'
                          /\ Number(i)' <= conn'[x].read
    <3>1. i = Len(mainList) + 1 /\ mainList'[i] = p
      BY <2>3, <2>5
    <3>2. Number(i)' = b[2][2] /\ mainList'[i].server = s
      BY <2>2, <3>1 DEF Number
    <3>3. QED
      BY <1>1, <1>5, <2>2, <2>4, <3>1, <3>2
  <2>6. QED
    BY <1>1, <1>9, <1>10, <2>3, <2>5, MainKept
<1>13. QED
  BY <1>11, <1>12

-----------------------------------------------------------------------------
(***************************************************************************)
(* What main does                                                          *)
(***************************************************************************)
\* What main takes from its list: the rest moves up.
LEMMA PoppedFact ==
    ASSUME TypeOK, NEW c, NEW s, MainTakes(c, s)
    PROVE  /\ 1 \in 1..Len(mainList) /\ mainList[1].cmd = c /\ mainList[1].server = s
           /\ Head(mainList) = mainList[1]
           /\ \A i \in 1..Len(mainList') :
                  i + 1 \in 1..Len(mainList) /\ mainList'[i] = mainList[i + 1]
           /\ \A i \in 1..Len(mainList) : i # 1 =>
                  i - 1 \in 1..Len(mainList') /\ mainList'[i - 1] = mainList[i]
           /\ UNCHANGED <<conn, requested, asked, batchVars, sock>>
<1>1. /\ mainList # <<>> /\ mainList' = Tail(mainList)
      /\ Head(mainList).cmd = c /\ Head(mainList).server = s
      /\ UNCHANGED <<conn, requested, asked, batchVars, sock>>
      /\ mainList \in Seq(MainPackage)
  BY MainTakesFact DEF TypeOK
<1>2. PICK n \in Nat \ {0} : n = Len(mainList)
  BY <1>1, PopFact
<1>3. /\ Len(mainList') = n - 1 /\ Head(mainList) = mainList[1]
      /\ \A i \in 1..(n - 1) : mainList'[i] = mainList[i + 1]
  BY <1>1, <1>2, PopFact
<1>4. \A i \in 1..(n - 1) : i + 1 \in 1..n
  OBVIOUS
<1>5. \A i \in 1..n : i # 1 => i - 1 \in 1..(n - 1) /\ (i - 1) + 1 = i
  OBVIOUS
<1>6. \A i \in 1..n : i # 1 => mainList'[i - 1] = mainList[i]
  BY <1>3, <1>5
<1>7. 1 \in 1..n
  OBVIOUS
<1>8. QED
  BY <1>1, <1>2, <1>3, <1>4, <1>5, <1>6, <1>7

\* The agent that main finds by a descriptor is of the socket that has it.
LEMMA AgentFact ==
    ASSUME ClientInv, NEW s \in Servers
    PROVE  HasAgent(s) <=> Up(s) /\ Agent(s) = s
<1> USE DEF ClientInv, MainInv
<1>1. SUFFICES ASSUME HasAgent(s) PROVE mapAgents[FdOf(s)] = s
  BY DEF HasAgent, Up, Agent
<1>2. FdOf(s) \in DOMAIN mapAgents /\ FdOf(s) \in Fds
  BY <1>1 DEF HasAgent, TypeOK
<1>3. PICK r \in Servers : r = mapAgents[FdOf(s)]
  BY <1>2 DEF TypeOK
<1>4. sock[r].fd = sock[s].fd /\ sock[s].fd # BadFd
  BY <1>2, <1>3, ClientConnAssumption DEF AgentsFound, FdOf, Fds, BadFd
<1>5. conn[sock[s].fd].server = s /\ conn[sock[s].fd].server = r
  BY <1>4 DEF Wired
<1>6. QED
  BY <1>3, <1>5

\* What is to be shown of a package about s that main takes: the rest is as it was.
LEMMA PoppedTold ==
    ASSUME ClientInv, TypeOK', NEW s \in Servers, NEW c, MainTakes(c, s),
           \A x \in Servers : x # s => (Up(x)' <=> Up(x)) /\ session'[x] = session[x],
           Up(s)' => Current(s) /\ (conn[sock[s].fd].reading \/ Closes(s)'),
           session'[s].link = "up" <=> Up(s)',
           Up(s)' => /\ session'[s].conn = FdOf(s)
                     /\ session'[s].last <= conn[FdOf(s)].read
                     /\ \A i \in 1..Len(mainList) :
                            i # 1 /\ mainList[i].cmd = "recv_buf" /\ mainList[i].server = s =>
                                session'[s].last < Number(i),
           session'[s].conn = session[s].conn \/ session'[s].conn = FdOf(s),
           AgentsFound'
    PROVE  MainInv'
<1> USE DEF ClientInv, MainInv
<1>1. /\ 1 \in 1..Len(mainList) /\ mainList[1].cmd = c /\ mainList[1].server = s
      /\ \A i \in 1..Len(mainList') :
             i + 1 \in 1..Len(mainList) /\ mainList'[i] = mainList[i + 1]
      /\ \A i \in 1..Len(mainList) : i # 1 =>
             i - 1 \in 1..Len(mainList') /\ mainList'[i - 1] = mainList[i]
      /\ conn' = conn /\ sock' = sock
  BY PoppedFact
<1>2. ~Begins(s)'
  <2>1. SUFFICES ASSUME NEW i \in 1..Len(mainList'),
                        mainList'[i].cmd = "connect_end", mainList'[i].server = s
                 PROVE  FALSE
    BY DEF Begins
  <2>2. /\ i + 1 \in 1..Len(mainList) /\ mainList[i + 1].cmd = "connect_end"
        /\ mainList[i + 1].server = s
    BY <1>1, <2>1
  <2>3. 1 \in 1..((i + 1) - 1)
    BY <2>1
  <2>4. QED
    BY <1>1, <2>2, <2>3 DEF BeginsFirst
<1>3. \A x \in Servers : x # s => /\ Begins(x)' => Begins(x)
                                  /\ Closes(x) => Closes(x)'
  <2>1. SUFFICES ASSUME NEW x \in Servers, x # s
                 PROVE  (Begins(x)' => Begins(x)) /\ (Closes(x) => Closes(x)')
    OBVIOUS
  <2>2. Begins(x)' => Begins(x)
    <3>1. SUFFICES ASSUME NEW i \in 1..Len(mainList'),
                          mainList'[i].cmd = "connect_end", mainList'[i].server = x
                   PROVE  Begins(x)
      BY DEF Begins
    <3>2. QED
      BY <1>1, <3>1 DEF Begins
  <2>3. Closes(x) => Closes(x)'
    <3>1. SUFFICES ASSUME NEW i \in 1..Len(mainList),
                          mainList[i].cmd = "close", mainList[i].server = x
                   PROVE  Closes(x)'
      BY DEF Closes
    <3>2. i # 1
      BY <1>1, <2>1, <3>1
    <3>3. QED
      BY <1>1, <3>1, <3>2 DEF Closes
  <2>4. QED
    BY <2>2, <2>3
<1>4. Told'
  <2>1. SUFFICES ASSUME NEW x \in Servers, Begins(x)' \/ Up(x)'
                 PROVE  Current(x) /\ (conn[sock[x].fd].reading \/ Closes(x)')
    BY <1>1 DEF Told, Current
  <2>2. CASE x = s
    BY <1>2, <2>1, <2>2
  <2>3. CASE x # s
    BY <1>3, <2>1, <2>3 DEF Told
  <2>4. QED
    BY <2>2, <2>3
<1>5. BeginsFirst'
  <2>1. SUFFICES ASSUME NEW x \in Servers, NEW i \in 1..Len(mainList'),
                        mainList'[i].cmd = "connect_end", mainList'[i].server = x
                 PROVE  /\ \A j \in 1..(i - 1) : mainList'[j].server # x
                        /\ ~Up(x)'
                        /\ session'[x].conn < sock[x].fd
    BY <1>1 DEF BeginsFirst
  <2>2. x # s
    BY <1>2, <2>1 DEF Begins
  <2>3. /\ i + 1 \in 1..Len(mainList) /\ mainList[i + 1].cmd = "connect_end"
        /\ mainList[i + 1].server = x
    BY <1>1, <2>1
  <2>4. /\ \A j \in 1..((i + 1) - 1) : mainList[j].server # x
        /\ ~Up(x) /\ session[x].conn < sock[x].fd
    BY <2>3 DEF BeginsFirst
  <2>5. ASSUME NEW j \in 1..(i - 1) PROVE mainList'[j].server # x
    <3>1. Len(mainList') \in Nat
      BY DEF TypeOK
    <3>2. j \in 1..Len(mainList') /\ j + 1 \in 1..((i + 1) - 1)
      BY <3>1
    <3>3. QED
      BY <1>1, <2>4, <3>2, ZenonT(60)
  <2>6. QED
    BY <2>2, <2>4, <2>5
<1>6. SessionsUp'
  <2>1. SUFFICES ASSUME NEW x \in Servers
                 PROVE  /\ session'[x].link = "up" <=> Up(x)'
                        /\ Up(x)' => /\ session'[x].conn = FdOf(x)
                                     /\ session'[x].last <= conn[FdOf(x)].read
                        /\ session'[x].conn # 0 =>
                               /\ session'[x].conn \in DOMAIN conn
                               /\ conn[session'[x].conn].server = x
    BY <1>1 DEF SessionsUp, FdOf
  <2>2. /\ session[x].link = "up" <=> Up(x)
        /\ Up(x) => /\ session[x].conn = FdOf(x)
                    /\ session[x].last <= conn[FdOf(x)].read
        /\ session[x].conn # 0 => /\ session[x].conn \in DOMAIN conn
                                  /\ conn[session[x].conn].server = x
    BY DEF SessionsUp
  <2>3. CASE x = s
    <3>1. session'[s].conn = FdOf(s) /\ session'[s].conn # 0 =>
              /\ session'[s].conn \in DOMAIN conn
              /\ conn[session'[s].conn].server = s
      BY DEF Wired, FdOf, BadFd
    <3>2. QED
      BY <2>2, <2>3, <3>1
  <2>4. CASE x # s
    BY <2>2, <2>4
  <2>5. QED
    BY <2>3, <2>4
<1>7. RecvRising'
  <2>1. SUFFICES ASSUME NEW x \in Servers, NEW i \in 1..Len(mainList'),
                        mainList'[i].cmd = "recv_buf", mainList'[i].server = x
                 PROVE  /\ sock[x].bev \in Fds
                        /\ Number(i)' <= conn[sock[x].bev].read
                        /\ Up(x)' => session'[x].last < Number(i)'
                        /\ \A j \in 1..(i - 1) :
                               mainList'[j].cmd = "recv_buf" /\ mainList'[j].server = x =>
                                   Number(j)' < Number(i)'
    BY <1>1 DEF RecvRising
  <2>2. PICK k \in 1..Len(mainList) : k = i + 1 /\ mainList'[i] = mainList[k]
                                      /\ Number(i)' = Number(k)
    BY <1>1 DEF Number
  <2>3. /\ sock[x].bev \in Fds
        /\ Number(k) <= conn[sock[x].bev].read
        /\ Up(x) => session[x].last < Number(k)
        /\ \A j \in 1..(k - 1) :
               mainList[j].cmd = "recv_buf" /\ mainList[j].server = x =>
                   Number(j) < Number(k)
    BY <2>1, <2>2 DEF RecvRising
  <2>4. Up(x)' => session'[x].last < Number(i)'
    <3>1. k # 1
      BY <2>2
    <3>2. CASE x = s
      BY <2>1, <2>2, <3>1, <3>2
    <3>3. CASE x # s
      BY <2>2, <2>3, <3>3
    <3>4. QED
      BY <3>2, <3>3
  <2>5. ASSUME NEW j \in 1..(i - 1), mainList'[j].cmd = "recv_buf", mainList'[j].server = x
        PROVE  Number(j)' < Number(i)'
    <3>1. Len(mainList') \in Nat
      BY DEF TypeOK
    <3>2. j \in 1..Len(mainList') /\ j + 1 \in 1..(k - 1)
      BY <2>2, <3>1
    <3>3. mainList'[j] = mainList[j + 1] /\ Number(j)' = Number(j + 1)
      BY <1>1, <3>2 DEF Number
    <3>4. QED
      BY <2>2, <2>3, <2>5, <3>2, <3>3
  <2>6. QED
    BY <2>2, <2>3, <2>4, <2>5
<1>8. QED
  BY <1>4, <1>5, <1>6, <1>7

\* connect_end: the agent is a new one, as is the connection.
LEMMA ConnectEndTold ==
    ASSUME ClientInv, TypeOK', NEW s \in Servers, MainConnectEnd(s)
    PROVE  MainInv' /\ Link!Connected(s)
<1> USE DEF ClientInv, MainInv
<1>1. MainTakes("connect_end", s)
  BY DEF MainConnectEnd
<1>2. /\ 1 \in 1..Len(mainList) /\ mainList[1].cmd = "connect_end" /\ mainList[1].server = s
      /\ \A i \in 1..Len(mainList) : i # 1 =>
             i - 1 \in 1..Len(mainList') /\ mainList'[i - 1] = mainList[i]
      /\ conn' = conn /\ sock' = sock
  BY <1>1, PoppedFact
<1>3. Begins(s) /\ ~Up(s) /\ session[s].conn < sock[s].fd
  BY <1>2 DEF Begins, BeginsFirst
<1>4. Current(s) /\ (conn[sock[s].fd].reading \/ Closes(s))
  BY <1>3 DEF Told
<1>5. PICK f : f = FdOf(s)
  OBVIOUS
<1>6. /\ f = sock[s].fd /\ f \in DOMAIN conn /\ conn[f].server = s /\ f # 0 /\ f \in Fds
  BY <1>4, <1>5, ConnFact DEF Current, Wired, FdOf, BadFd
<1>7. f \notin DOMAIN mapAgents
  BY <1>3, <1>5, AgentFact DEF HasAgent
<1>8. /\ mapAgents' = [g \in DOMAIN mapAgents \cup {f} |-> IF g = f THEN s ELSE mapAgents[g]]
      /\ session' = [session EXCEPT ![s] = [link |-> "up", conn |-> f, last |-> 0]]
  BY <1>5, <1>7 DEF MainConnectEnd, HasAgent
<1>9. /\ DOMAIN mapAgents' = DOMAIN mapAgents \cup {f} /\ mapAgents'[f] = s
      /\ \A g \in DOMAIN mapAgents : mapAgents'[g] = mapAgents[g]
  BY <1>7, <1>8
<1>10. session \in [Servers -> SessionType]
  BY DEF TypeOK
<1>11. /\ session'[s].link = "up" /\ session'[s].conn = f /\ session'[s].last = 0
       /\ \A x \in Servers : x # s => session'[x] = session[x]
  BY <1>8, <1>10
<1>12. \A x \in Servers : FdOf(x)' = FdOf(x)
  BY <1>2 DEF FdOf
<1>13. Up(s)'
  BY <1>5, <1>9, <1>12 DEF Up
<1>14. \A x \in Servers : x # s => (Up(x)' <=> Up(x))
  <2>1. SUFFICES ASSUME NEW x \in Servers, x # s
                 PROVE  /\ FdOf(x) \in DOMAIN mapAgents' /\ mapAgents'[FdOf(x)] = x
                            <=> FdOf(x) \in DOMAIN mapAgents /\ mapAgents[FdOf(x)] = x
    BY <1>12 DEF Up
  <2>2. QED
    BY <1>7, <1>9, <2>1
<1>15. conn[f].reading \/ Closes(s)'
  <2>1. SUFFICES ASSUME NEW i \in 1..Len(mainList),
                        mainList[i].cmd = "close", mainList[i].server = s
                 PROVE  Closes(s)'
    BY <1>4, <1>6 DEF Closes
  <2>2. i # 1
    BY <1>2, <2>1
  <2>3. QED
    BY <1>2, <2>1, <2>2 DEF Closes
<1>16. \A i \in 1..Len(mainList) : mainList[i].cmd = "recv_buf" => 0 < Number(i)
  BY NumberFact
<1>17. 0 <= conn[f].read
  BY <1>6, LastFact
<1>18. AgentsFound'
  <2>1. SUFFICES ASSUME NEW g \in DOMAIN mapAgents' PROVE sock[mapAgents'[g]].fd = g
    BY <1>2 DEF AgentsFound, FdOf
  <2>2. CASE g = f
    BY <1>6, <1>9, <2>2
  <2>3. CASE g # f
    <3>1. g \in DOMAIN mapAgents
      BY <1>9, <2>3
    <3>2. QED
      BY <1>9, <3>1 DEF AgentsFound, FdOf
  <2>4. QED
    BY <2>2, <2>3
<1>19. MainInv'
  BY <1>1, <1>4, <1>5, <1>6, <1>11, <1>13, <1>14, <1>15, <1>16, <1>17, <1>18, PoppedTold
<1>20. Link!Connected(s)
  <2>1. session[s].link = "down"
    BY <1>3, <1>10 DEF SessionsUp, SessionType
  <2>2. f > session[s].conn
    <3>1. f \in Nat /\ session[s].conn \in Nat
      BY <1>6, LastFact DEF Fds
    <3>2. QED
      BY <1>3, <1>6, <3>1
  <2>3. \A r \in Servers : session[r].conn # f
    <3>1. SUFFICES ASSUME NEW r \in Servers, session[r].conn = f PROVE FALSE
      OBVIOUS
    <3>2. r = s
      BY <1>6, <3>1 DEF SessionsUp
    <3>3. QED
      BY <2>2, <3>1, <3>2, LastFact
  <2>4. QED
    BY <1>6, <1>8, <2>1, <2>2, <2>3 DEF Link!Connected
<1>21. QED
  BY <1>19, <1>20

\* recv_buf: a package that is newer than the last, unless there is no agent.
LEMMA RecvTold ==
    ASSUME ClientInv, TypeOK', NEW s \in Servers, MainRecv(s)
    PROVE  MainInv' /\ (Link!Received(s) \/ session' = session)
<1> USE DEF ClientInv, MainInv
<1>1. MainTakes("recv_buf", s) /\ mapAgents' = mapAgents
  BY DEF MainRecv
<1>2. /\ 1 \in 1..Len(mainList) /\ mainList[1].cmd = "recv_buf" /\ mainList[1].server = s
      /\ Head(mainList) = mainList[1]
      /\ \A i \in 1..Len(mainList) : i # 1 =>
             i - 1 \in 1..Len(mainList') /\ mainList'[i - 1] = mainList[i]
      /\ conn' = conn /\ sock' = sock
  BY <1>1, PoppedFact
<1>3. \A x \in Servers : (Up(x)' <=> Up(x)) /\ FdOf(x)' = FdOf(x)
  BY <1>1, <1>2 DEF Up, FdOf
<1>4. PICK k \in Parts : k = Number(1)
  BY <1>2, NumberFact
<1>5. Up(s) => session[s].last < k
  BY <1>2, <1>4 DEF RecvRising
<1>6. session \in [Servers -> SessionType]
  BY DEF TypeOK
<1>7. \/ ~Up(s) /\ session' = session
      \/ Up(s) /\ session' = [session EXCEPT ![s].last = k]
  <2>1. CASE HasAgent(s)
    BY <1>2, <1>4, <2>1, AgentFact DEF MainRecv, Number
  <2>2. CASE ~HasAgent(s)
    BY <2>2, AgentFact DEF MainRecv, HasAgent, Up
  <2>3. QED
    BY <2>1, <2>2
<1>8. /\ session'[s].link = session[s].link /\ session'[s].conn = session[s].conn
      /\ Up(s) => session'[s].last = k
      /\ \A x \in Servers : x # s => session'[x] = session[x]
  <2>1. PICK e : e = [session[s] EXCEPT !.last = k]
    OBVIOUS
  <2>2. e.link = session[s].link /\ e.conn = session[s].conn /\ e.last = k
    <3>1. session[s] \in SessionType
      BY <1>6
    <3>2. QED
      BY <2>1, <3>1 DEF SessionType
  <2>3. CASE ~Up(s) /\ session' = session
    BY <2>3
  <2>4. CASE Up(s) /\ session' = [session EXCEPT ![s] = e]
    BY <1>6, <2>2, <2>4
  <2>5. QED
    BY <1>7, <2>1, <2>3, <2>4
<1>9. AgentsFound'
  <2>1. \A g \in DOMAIN mapAgents : mapAgents[g] \in Servers
    BY DEF TypeOK
  <2>2. QED
    BY <1>1, <1>3, <2>1 DEF AgentsFound
<1>10. Up(s) => Current(s) /\ (conn[sock[s].fd].reading \/ Closes(s)')
  <2>1. SUFFICES ASSUME Up(s), Closes(s) PROVE Closes(s)'
    BY DEF Told
  <2>2. PICK i \in 1..Len(mainList) : mainList[i].cmd = "close" /\ mainList[i].server = s
    BY <2>1 DEF Closes
  <2>3. i # 1
    BY <1>2, <2>2
  <2>4. QED
    BY <1>2, <2>2, <2>3 DEF Closes
<1>11. Up(s) => /\ session'[s].conn = FdOf(s)
                /\ session'[s].last <= conn[FdOf(s)].read
  <2>1. SUFFICES ASSUME Up(s) PROVE k <= conn[FdOf(s)].read /\ session[s].conn = FdOf(s)
    BY <1>8
  <2>2. FdOf(s) = sock[s].bev
    BY <1>10, <2>1 DEF Current, FdOf
  <2>3. QED
    BY <1>2, <1>4, <2>1, <2>2 DEF RecvRising, SessionsUp
<1>12. \A i \in 1..Len(mainList) :
           i # 1 /\ mainList[i].cmd = "recv_buf" /\ mainList[i].server = s => k < Number(i)
  <2>1. SUFFICES ASSUME NEW i \in 1..Len(mainList), i # 1,
                        mainList[i].cmd = "recv_buf", mainList[i].server = s
                 PROVE  k < Number(i)
    OBVIOUS
  <2>2. 1 \in 1..(i - 1)
    BY <2>1
  <2>3. QED
    BY <1>2, <1>4, <2>1, <2>2 DEF RecvRising
<1>13. session'[s].link = "up" <=> Up(s)
  BY <1>8 DEF SessionsUp
<1>14. MainInv'
  BY <1>1, <1>3, <1>8, <1>9, <1>10, <1>11, <1>12, <1>13, PoppedTold
<1>15. Link!Received(s) \/ session' = session
  <2>1. SUFFICES ASSUME Up(s), session' = [session EXCEPT ![s].last = k]
                 PROVE  Link!Received(s)
    BY <1>7
  <2>2. session[s].link = "up" /\ k > session[s].last
    <3>1. k \in Nat
      BY <1>2, <1>4, NumberFact
    <3>2. QED
      BY <1>5, <2>1, <3>1, LastFact DEF SessionsUp
  <2>3. QED
    BY <2>1, <2>2 DEF Link!Received
<1>16. QED
  BY <1>14, <1>15

\* close: the application is told, and the agent goes, unless there is none.
LEMMA CloseTold ==
    ASSUME ClientInv, TypeOK', NEW s \in Servers, MainClose(s)
    PROVE  MainInv' /\ (Link!Closed(s) \/ session' = session)
<1> USE DEF ClientInv, MainInv
<1>1. MainTakes("close", s)
  BY DEF MainClose
<1>2. conn' = conn /\ sock' = sock
  BY <1>1, PoppedFact
<1>3. \A x \in Servers : FdOf(x)' = FdOf(x)
  BY <1>2 DEF FdOf
<1>4. session \in [Servers -> SessionType]
  BY DEF TypeOK
<1>5. CASE HasAgent(s)
  <2>1. Up(s) /\ Agent(s) = s
    BY <1>5, AgentFact
  <2>2. PICK f : f = FdOf(s) /\ f \in DOMAIN mapAgents /\ mapAgents[f] = s
    BY <2>1 DEF Up
  <2>3. /\ session' = [session EXCEPT ![s].link = "down"]
        /\ mapAgents' = [g \in DOMAIN mapAgents \ {f} |-> mapAgents[g]]
    BY <1>5, <2>1, <2>2 DEF MainClose, deleteAgent
  <2>4. /\ DOMAIN mapAgents' = DOMAIN mapAgents \ {f}
        /\ \A g \in DOMAIN mapAgents' : mapAgents'[g] = mapAgents[g]
    BY <2>3
  <2>5. /\ session'[s].link = "down" /\ session'[s].conn = session[s].conn
        /\ \A x \in Servers : x # s => session'[x] = session[x]
    <3>1. PICK e : e = [session[s] EXCEPT !.link = "down"]
      OBVIOUS
    <3>2. session[s] \in SessionType
      BY <1>4
    <3>3. e.link = "down" /\ e.conn = session[s].conn
      BY <3>1, <3>2 DEF SessionType
    <3>4. session' = [session EXCEPT ![s] = e]
      BY <2>3, <3>1
    <3>5. QED
      BY <1>4, <3>3, <3>4
  <2>6. ~Up(s)'
    BY <1>3, <2>2, <2>4 DEF Up
  <2>7. \A x \in Servers : x # s => (Up(x)' <=> Up(x))
    <3>1. SUFFICES ASSUME NEW x \in Servers, x # s
                   PROVE  /\ FdOf(x) \in DOMAIN mapAgents' /\ mapAgents'[FdOf(x)] = x
                              <=> FdOf(x) \in DOMAIN mapAgents /\ mapAgents[FdOf(x)] = x
      BY <1>3 DEF Up
    <3>2. QED
      BY <2>2, <2>4, <3>1
  <2>8. AgentsFound'
    <3>1. \A g \in DOMAIN mapAgents : mapAgents[g] \in Servers
      BY DEF TypeOK
    <3>2. QED
      BY <1>3, <2>4, <3>1 DEF AgentsFound
  <2>9. MainInv'
    BY <1>1, <2>5, <2>6, <2>7, <2>8, PoppedTold
  <2>10. session[s].link = "up"
    BY <2>1 DEF SessionsUp
  <2>11. QED
    BY <2>3, <2>9, <2>10 DEF Link!Closed
<1>6. CASE ~HasAgent(s)
  <2>1. ~Up(s) /\ mapAgents' = mapAgents /\ session' = session
    BY <1>6 DEF MainClose, HasAgent, Up
  <2>2. \A x \in Servers : Up(x)' <=> Up(x)
    BY <1>3, <2>1 DEF Up
  <2>3. AgentsFound'
    <3>1. \A g \in DOMAIN mapAgents : mapAgents[g] \in Servers
      BY DEF TypeOK
    <3>2. QED
      BY <1>3, <2>1, <3>1 DEF AgentsFound
  <2>4. session'[s].link = "up" <=> Up(s)'
    BY <2>1, <2>2 DEF SessionsUp
  <2>5. MainInv'
    BY <1>1, <2>1, <2>2, <2>3, <2>4, PoppedTold
  <2>6. QED
    BY <2>1, <2>5
<1>7. QED
  BY <1>5, <1>6

-----------------------------------------------------------------------------
(***************************************************************************)
(* The invariant of every step                                             *)
(***************************************************************************)
\* The connecting side starts in a state of the invariant.
LEMMA ClientInit == Init => ClientInv
<1>1. SUFFICES ASSUME Init PROVE ClientInv
  OBVIOUS
<1>2. TypeOK
  BY <1>1, InitType
<1>3. /\ conn = <<>> /\ mainList = <<>> /\ mapAgents = <<>> /\ requested = {}
      /\ ioList = [t \in Threads |-> <<>>] /\ needSendList = [t \in Threads |-> {}]
      /\ sock = [s \in Servers |-> Unmade] /\ asked = [fd \in Fds |-> 0]
      /\ session = [s \in Servers |-> [link |-> "down", conn |-> 0, last |-> 0]]
  BY <1>1 DEF Init
<1>4. DOMAIN conn = {} /\ Len(mainList) = 0 /\ 1..Len(mainList) = {} /\ DOMAIN mapAgents = {}
  BY <1>3
<1>5. \A t \in Threads : ioList[t] = <<>> /\ DOMAIN ioList[t] = {} /\ 1..Len(ioList[t]) = {}
  BY <1>3
<1>6. \A s \in Servers : /\ sock[s] = Unmade /\ sock[s].fd = BadFd /\ sock[s].bev = NotSet
                         /\ sock[s].sendBuf = <<>> /\ Len(sock[s].recvBuf) <= 1
  <2>1. Unmade.fd = BadFd /\ Unmade.bev = NotSet /\ Unmade.sendBuf = <<>> /\ Unmade.recvBuf = <<>>
    BY DEF Unmade, Made
  <2>2. Len(<<>>) <= 1
    OBVIOUS
  <2>3. QED
    BY <1>3, <2>1, <2>2
<1>7. NotSet \notin Fds
  BY ClientConnAssumption DEF Fds, NotSet
<1>8. Wired /\ ReadsCurrent
  BY <1>4, <1>6, <1>7 DEF Wired, ReadsCurrent
<1>9. Asking
  BY <1>3, <1>4, <1>5, <1>6 DEF Asking, About
<1>10. SendsOwn /\ NotAsked /\ RequestsOnOwnConnection
  BY <1>3, <1>4, <1>5 DEF SendsOwn, NotAsked, RequestsOnOwnConnection
<1>11. Listed
  BY <1>3, <1>6 DEF Listed
<1>12. Buffered /\ Numbered
  BY <1>6, <1>7 DEF Buffered, Numbered
<1>13. Told /\ BeginsFirst /\ RecvRising /\ AgentsFound
  BY <1>4 DEF Told, BeginsFirst, RecvRising, AgentsFound, Begins, Up
<1>14. SessionsUp
  BY <1>3, <1>4 DEF SessionsUp, Up
<1>15. QED
  BY <1>2, <1>8, <1>9, <1>10, <1>11, <1>12, <1>13, <1>14 DEF ClientInv, IOInv, MainInv

\* A socket that main has packages of has been made.
LEMMA MadeMain ==
    ASSUME TypeOK, Asking, TypeOK',
           mainList' = mainList \/ \E s \in Servers : \E p \in MainPackage :
               /\ sock[s] # Unmade /\ p.server = s /\ mainList' = Append(mainList, p)
    PROVE  \A i \in 1..Len(mainList') : sock[mainList'[i].server] # Unmade
<1>1. CASE mainList' = mainList
  BY <1>1 DEF Asking
<1>2. CASE mainList' # mainList
  <2>1. PICK p \in MainPackage :
            sock[p.server] # Unmade /\ mainList' = Append(mainList, p)
    BY <1>2
  <2>2. /\ \A i \in 1..Len(mainList) : mainList'[i] = mainList[i]
        /\ \A i \in 1..Len(mainList') : i \notin 1..Len(mainList) => mainList'[i] = p
    BY <2>1, ToldFact
  <2>3. QED
    BY <2>1, <2>2 DEF Asking
<1>3. QED
  BY <1>1, <1>2

\* A step that tries a connection.
LEMMA TryNext ==
    ASSUME ClientInv, TypeOK', NEW s \in Servers, NEW r \in SocketType, Tries(s, r),
           Reconnect(s) \/ \E t \in Threads : IOConnect(t)
    PROVE  ClientInv' /\ session' = session
<1>1. Quiet(s)
  <2>1. CASE Reconnect(s)
    BY <2>1, QuietFact
  <2>2. CASE \E t \in Threads : IOConnect(t)
    <3>1. PICK t \in Threads : IOConnect(t)
      BY <2>2
    <3>2. ioDeal' # ioDeal
      <4>1. ioDeal' = [ioDeal EXCEPT ![t] = ioDeal[t] + 1]
        BY <3>1 DEF IOConnect, IOTakes
      <4>2. ioDeal \in [Threads -> 0..PairDealCount + 2] /\ PairDealCount \in Nat
        BY ClientConnAssumption DEF ClientInv, TypeOK
      <4>3. PICK k \in Nat : k = ioDeal[t]
        BY <4>2
      <4>4. ioDeal'[t] = k + 1 /\ k + 1 # k
        BY <4>1, <4>2, <4>3
      <4>5. QED
        BY <4>3, <4>4
    <3>3. /\ r.thread \in Threads /\ IOTakes(r.thread, "connect")
          /\ Head(ioList[r.thread]).server = s
      BY <3>2 DEF Tries
    <3>4. QED
      BY <3>3, QuietFact
  <2>3. QED
    BY <2>1, <2>2
<1>2. Wired' /\ ReadsCurrent' /\ IOInv' /\ MainInv'
  BY <1>1, TryWires, TryIO, TryTold
<1>3. QED
  BY <1>2 DEF ClientInv, Tries, mainVars

\* A step of an io thread.
LEMMA IONext ==
    ASSUME ClientInv, NEW t \in Threads, IOLoop(t)
    PROVE  ClientInv' /\ session' = session
<1> USE DEF ClientInv
<1>1. TypeOK'
  BY IOType
<1>2. CASE IOWake(t)
  <2>1. /\ ioDeal' = [ioDeal EXCEPT ![t] = 1]
        /\ UNCHANGED <<conn, mainVars, mainList, ioList, needSendList, sock>>
    BY <1>2 DEF IOWake
  <2>2. /\ Keeps
        /\ \A fd \in DOMAIN conn : conn'[fd].out = conn[fd].out
                                   /\ conn'[fd].reading = conn[fd].reading
        /\ \A s \in Servers : sock'[s].sendBuf = sock[s].sendBuf
    BY <2>1, SameKeeps
  <2>3. \A u \in Threads : ioDeal'[u] = 0 => ioDeal[u] = 0
    BY <2>1 DEF TypeOK
  <2>4. IOSame /\ MainSame
    BY <2>1, <2>2, <2>3 DEF IOSame, MainSame, mainVars
  <2>5. \A i \in 1..Len(mainList') : sock[mainList'[i].server] # Unmade
    BY <1>1, <2>1, MadeMain DEF IOInv
  <2>6. IOInv' /\ MainInv' /\ Wired' /\ ReadsCurrent'
    BY <1>1, <2>2, <2>4, <2>5, IOKept, SameTold, WiresKept
  <2>7. QED
    BY <1>1, <2>1, <2>6 DEF mainVars
<1>3. CASE IOConnect(t)
  <2>1. PICK s \in Servers : \E r \in SocketType : Tries(s, r)
    BY <1>3, ConnectTries DEF IOInv
  <2>2. PICK r \in SocketType : Tries(s, r)
    BY <2>1
  <2>3. QED
    BY <1>1, <1>3, <2>2, TryNext
<1>4. CASE IOSend(t)
  <2>1. Keeps /\ MainSame
    BY <1>4, SendKeeps DEF IOInv
  <2>2. IOInv' /\ MainInv' /\ Wired' /\ ReadsCurrent'
    BY <1>1, <1>4, <2>1, TakeIO, SameTold, WiresKept
  <2>3. QED
    BY <1>1, <2>1, <2>2 DEF MainSame
<1>5. CASE IOFlush(t)
  <2>1. Keeps /\ MainSame
    BY <1>5, FlushKeeps
  <2>2. IOInv' /\ MainInv' /\ Wired' /\ ReadsCurrent'
    BY <1>1, <1>5, <2>1, FlushIO, SameTold, WiresKept
  <2>3. QED
    BY <1>1, <2>1, <2>2 DEF MainSame
<1>6. QED
  BY <1>2, <1>3, <1>4, <1>5 DEF IOLoop

\* A step of main is one of the service.
LEMMA MainNext ==
    ASSUME ClientInv, NEW s \in Servers, MainConnectEnd(s) \/ MainRecv(s) \/ MainClose(s)
    PROVE  ClientInv' /\ (Link!Next \/ session' = session)
<1> USE DEF ClientInv
<1>1. PICK c : MainTakes(c, s)
  BY DEF MainConnectEnd, MainRecv, MainClose
<1>2. /\ 1 \in 1..Len(mainList) /\ mainList[1].server = s /\ mainList[1].cmd = c
      /\ \A i \in 1..Len(mainList') :
             i + 1 \in 1..Len(mainList) /\ mainList'[i] = mainList[i + 1]
      /\ UNCHANGED <<conn, requested, asked, batchVars, sock>>
  BY <1>1, PoppedFact
<1>3. MainConnectEnd(s) => FdOf(s) # BadFd
  <2>1. SUFFICES ASSUME MainConnectEnd(s) PROVE FdOf(s) # BadFd
    OBVIOUS
  <2>2. MainTakes("connect_end", s)
    BY <2>1 DEF MainConnectEnd
  <2>3. Begins(s)
    BY <2>2, PoppedFact DEF Begins
  <2>4. QED
    BY <2>3 DEF MainInv, Told, Current, FdOf
<1>4. TypeOK'
  BY <1>3, MainType
<1>5. MainInv' /\ (Link!Next \/ session' = session)
  BY <1>4, ConnectEndTold, RecvTold, CloseTold DEF Link!Next
<1>6. /\ Keeps
      /\ \A fd \in DOMAIN conn : conn'[fd].out = conn[fd].out
      /\ \A x \in Servers : sock'[x].sendBuf = sock[x].sendBuf
  BY <1>2, SameKeeps
<1>7. IOSame
  BY <1>2, <1>6 DEF IOSame, batchVars
<1>8. \A i \in 1..Len(mainList') : sock[mainList'[i].server] # Unmade
  BY <1>2 DEF IOInv, Asking
<1>9. IOInv' /\ Wired' /\ ReadsCurrent'
  BY <1>4, <1>6, <1>7, <1>8, IOKept, WiresKept
<1>10. QED
  BY <1>4, <1>5, <1>9

\* A step of the application.
LEMMA AppNext ==
    ASSUME ClientInv,
           (\E s \in Servers : Connect(s)) \/ (\E fd \in Fds : Send(fd))
    PROVE  ClientInv' /\ session' = session
<1> USE DEF ClientInv
<1>1. UNCHANGED <<conn, mainList, mapAgents, session, sock>>
  BY DEF Connect, Send
<1>2. TypeOK'
  BY ConnectType, SendType
<1>3. IOInv'
  BY <1>2, ConnectIO, AskIO
<1>4. Keeps /\ \A fd \in DOMAIN conn : conn'[fd].reading = conn[fd].reading
  BY <1>1, SameKeeps
<1>5. MainSame
  BY <1>1, <1>4 DEF MainSame
<1>6. MainInv' /\ Wired' /\ ReadsCurrent'
  BY <1>2, <1>4, <1>5, SameTold, WiresKept
<1>7. QED
  BY <1>1, <1>2, <1>3, <1>6

\* A callback of a socket, or a step of a server.
LEMMA WireNext ==
    ASSUME ClientInv, NEW fd,
           \/ Read(fd) \/ ReadEvent(fd) \/ WriteEvent(fd)
           \/ ServerSends(fd) \/ ServerCloses(fd)
    PROVE  ClientInv' /\ session' = session
<1> USE DEF ClientInv
<1>1. fd \in DOMAIN conn /\ session' = session
  BY DEF Read, ReadEvent, WriteEvent, ServerSends, ServerCloses, mainVars
<1>2. PICK s \in Servers : s = conn[fd].server
  BY <1>1, ConnFact
<1>3. CASE Read(fd)
  <2>1. TypeOK' /\ Keeps /\ IOSame
    BY <1>3, ReadType, ReadKeeps
  <2>2. \A i \in 1..Len(mainList') : sock[mainList'[i].server] # Unmade
    <3>1. sock[s] # Unmade
      BY <1>2, <1>3, ReadFact DEF Served
    <3>2. PICK n \in 1..2 : \E q \in Seq(Fds \X Parts) : Reads(fd, s, n, q)
      BY <1>2, <1>3, ReadFact
    <3>3. mainList' = mainList \/ \E b \in (Fds \X Parts) \X (Fds \X Parts) :
              mainList' = Append(mainList, Package("recv_buf", s, b))
      BY <3>2 DEF Reads
    <3>4. \A b \in (Fds \X Parts) \X (Fds \X Parts) :
              /\ Package("recv_buf", s, b) \in MainPackage
              /\ Package("recv_buf", s, b).server = s
      BY PackageFact DEF Package
    <3>5. QED
      BY <2>1, <3>1, <3>3, <3>4, MadeMain DEF IOInv
  <2>3. IOInv' /\ MainInv' /\ Wired' /\ ReadsCurrent'
    BY <1>3, <2>1, <2>2, IOKept, ReadTold, WiresKept
  <2>4. QED
    BY <1>1, <2>1, <2>3
<1>4. CASE ReadEvent(fd) \/ WriteEvent(fd)
  <2>1. TypeOK' /\ Keeps /\ IOSame
    BY <1>4, EventType, EventKeeps
  <2>2. \A i \in 1..Len(mainList') : sock[mainList'[i].server] # Unmade
    <3>1. sock[s] # Unmade /\ mainList' = Append(mainList, Package("close", s, <<>>))
      BY <1>2, <1>4, EventFact, ReportEndFact DEF Served
    <3>2. /\ Package("close", s, <<>>) \in MainPackage
          /\ Package("close", s, <<>>).server = s
      BY PackageFact DEF Package
    <3>3. QED
      BY <2>1, <3>1, <3>2, MadeMain DEF IOInv
  <2>3. IOInv' /\ MainInv' /\ Wired' /\ ReadsCurrent'
    BY <1>4, <2>1, <2>2, IOKept, EventTold, WiresKept
  <2>4. QED
    BY <1>1, <2>1, <2>3
<1>5. CASE ServerSends(fd) \/ ServerCloses(fd)
  <2>1. TypeOK' /\ Keeps /\ IOSame /\ MainSame
    BY <1>5, PeerType, PeerKeeps
  <2>2. \A i \in 1..Len(mainList') : sock[mainList'[i].server] # Unmade
    BY <2>1, MadeMain DEF IOInv, MainSame
  <2>3. IOInv' /\ MainInv' /\ Wired' /\ ReadsCurrent'
    BY <2>1, <2>2, IOKept, SameTold, WiresKept
  <2>4. QED
    BY <1>1, <2>1, <2>3
<1>6. QED
  BY <1>3, <1>4, <1>5

\* A step in which nothing happens.
LEMMA ClientStutter == ASSUME ClientInv, UNCHANGED vars PROVE ClientInv' /\ session' = session
<1> USE DEF ClientInv
<1>1. UNCHANGED <<conn, mainList, mapAgents, session, sock, ioList, ioDeal, needSendList,
                  requested, asked, currentThread>>
  BY DEF vars, mainVars, batchVars
<1>2. TypeOK'
  BY <1>1 DEF TypeOK
<1>3. /\ Keeps
      /\ \A fd \in DOMAIN conn : conn'[fd].out = conn[fd].out
                                 /\ conn'[fd].reading = conn[fd].reading
      /\ \A s \in Servers : sock'[s].sendBuf = sock[s].sendBuf
  BY <1>1, SameKeeps
<1>4. IOSame /\ MainSame
  BY <1>1, <1>3 DEF IOSame, MainSame
<1>5. \A i \in 1..Len(mainList') : sock[mainList'[i].server] # Unmade
  BY <1>1, <1>2, MadeMain DEF IOInv
<1>6. IOInv' /\ MainInv' /\ Wired' /\ ReadsCurrent'
  BY <1>2, <1>3, <1>4, <1>5, IOKept, SameTold, WiresKept
<1>7. QED
  BY <1>1, <1>2, <1>6

\* The invariant is inductive, and a step is one of the abstract service, or one
\* that the application does not see.
LEMMA ClientNext ==
    ClientInv /\ [Next]_vars => ClientInv' /\ (Link!Next \/ session' = session)
<1>1. SUFFICES ASSUME ClientInv, [Next]_vars
               PROVE  ClientInv' /\ (Link!Next \/ session' = session)
  OBVIOUS
<1>2. CASE UNCHANGED vars
  BY <1>1, <1>2, ClientStutter
<1>3. ASSUME NEW s \in Servers, Connect(s)
      PROVE  ClientInv' /\ session' = session
  BY <1>1, <1>3, AppNext
<1>4. ASSUME NEW s \in Servers, Reconnect(s)
      PROVE  ClientInv' /\ session' = session
  <2>1. TypeOK'
    BY <1>1, <1>4, AttemptType DEF ClientInv
  <2>2. PICK r \in SocketType : Tries(s, r)
    BY <1>1, <1>4, ReconnectTries DEF ClientInv
  <2>3. QED
    BY <1>1, <1>4, <2>1, <2>2, TryNext
<1>5. CASE MainLoop
  BY <1>1, <1>5, MainNext DEF MainLoop
<1>6. ASSUME NEW t \in Threads, IOLoop(t)
      PROVE  ClientInv' /\ session' = session
  BY <1>1, <1>6, IONext
<1>7. ASSUME NEW fd \in Fds, Send(fd)
      PROVE  ClientInv' /\ session' = session
  BY <1>1, <1>7, AppNext
<1>8. ASSUME NEW fd \in Fds,
             \/ Read(fd) \/ ReadEvent(fd) \/ WriteEvent(fd)
             \/ ServerSends(fd) \/ ServerCloses(fd)
      PROVE  ClientInv' /\ session' = session
  BY <1>1, <1>8, WireNext
<1>9. QED
  BY <1>1, <1>2, <1>3, <1>4, <1>5, <1>6, <1>7, <1>8 DEF Next

\* The invariant holds in every run of the connecting side, whatever the constants.
THEOREM ClientInvariance == Spec => []ClientInv
<1>1. ClientInv /\ [Next]_vars => ClientInv'
  BY ClientNext
<1>2. QED
  BY ClientInit, <1>1, PTL DEF Spec

-----------------------------------------------------------------------------
(***************************************************************************)
(* What follows from it                                                    *)
(***************************************************************************)
\* The variables of the connecting side have their types.  This is not inductive
\* by itself: that main files an agent under a descriptor, and not under the -1 of
\* a socket without one, is what Told says.
THEOREM TypeCorrect == Spec => []TypeOK
<1>1. ClientInv => TypeOK
  BY DEF ClientInv
<1>2. QED
  BY <1>1, ClientInvariance, PTL

\* getAgent finds every agent by the descriptor that its socket has now: no
\* reconnectCallback gives a socket another one while main has its agent.
THEOREM AgentsFoundSafe == Spec => []AgentsFound
<1>1. ClientInv => AgentsFound
  BY DEF ClientInv, MainInv
<1>2. QED
  BY <1>1, ClientInvariance, PTL

\* A request is written to the connection for whose agent it was made, behind
\* all the earlier ones, however often send_buf finds the buffer full, pairCallback
\* returns early, and the server is connected anew.
THEOREM RequestsSafe == Spec => []RequestsOnOwnConnection
<1>1. ClientInv => RequestsOnOwnConnection
  BY DEF ClientInv, IOInv
<1>2. QED
  BY <1>1, ClientInvariance, PTL

\* No request stays in a send buffer beyond its batch, also where send_buf finds
\* the buffer full and does not list the socket.
THEOREM ListedSafe == Spec => []RequestsListed
<1>1. ClientInv => RequestsListed
  <2> SUFFICES ASSUME ClientInv, NEW s \in Servers, sock[s].sendBuf # <<>>
               PROVE  LET t == sock[s].thread
                      IN  t \in Threads /\ ioDeal[t] > 0 /\ s \in needSendList[t]
    BY DEF RequestsListed
  <2>1. TypeOK /\ Wired /\ Listed
    BY DEF ClientInv, IOInv
  <2>2. sock[s] # Unmade
    BY DEF Unmade, Made
  <2>3. PICK t \in Threads : t = sock[s].thread
    BY <2>1, <2>2 DEF Wired
  <2>4. s \in needSendList[t] /\ ioDeal[t] # 0
    BY <2>1, <2>3 DEF Listed
  <2>5. ioDeal[t] \in 0..PairDealCount + 2
    BY <2>1 DEF TypeOK
  <2>6. PairDealCount \in Nat
    BY ClientConnAssumption
  <2>7. ioDeal[t] > 0
    BY <2>4, <2>5, <2>6
  <2>8. QED
    BY <2>3, <2>4, <2>7
<1>2. QED
  BY <1>1, ClientInvariance, PTL

\* The application is told of the end of a connection, or will be by a package
\* that main has yet to take.
THEOREM EndsSafe == Spec => []EndsUnderway
<1>1. ClientInv => EndsUnderway
  <2> SUFFICES ASSUME ClientInv, NEW s \in Servers, session[s].link = "up",
                      ~conn[session[s].conn].reading
               PROVE  Closes(s)
    BY DEF EndsUnderway, Closes
  <2>1. Told /\ SessionsUp
    BY DEF ClientInv, MainInv
  <2>2. Up(s) /\ session[s].conn = FdOf(s)
    BY <2>1 DEF SessionsUp
  <2>3. QED
    BY <2>1, <2>2 DEF Told, FdOf
<1>2. QED
  BY <1>1, ClientInvariance, PTL

-----------------------------------------------------------------------------
(***************************************************************************)
(* Reconnecting.  What becomes of a server that was asked for.             *)
(***************************************************************************)
Waiting(s) ==
    \E t \in Threads : \E i \in 1..Len(ioList[t]) :
        ioList[t][i].cmd = "connect" /\ ioList[t][i].server = s
Reading(s) == FdOf(s) # BadFd /\ conn[FdOf(s)].reading
Tended(s) == Reading(s) \/ sock[s].timer \/ sock[s].bev = NoBev

\* Every way out of toConnect leaves a connection that is read from or a timer,
\* unless there is no bufferevent; and it leaves the other servers alone.
LEMMA TryTends ==
    ASSUME TypeOK, NEW s \in Servers, NEW o \in SocketType, ToConnect(s, o)
    PROVE  /\ Tended(s)'
           /\ \A x \in Servers : x # s => sock'[x] = sock[x]
           /\ \A fd \in DOMAIN conn : conn'[fd] = conn[fd]
<1>1. /\ sock \in [Servers -> SocketType] /\ conn \in Seq(ConnType)
      /\ Len(conn) \in Nat /\ DOMAIN conn = 1..Len(conn)
  BY DEF TypeOK
<1>2. ASSUME NEW r, sock' = [sock EXCEPT ![s] = r]
      PROVE  sock'[s] = r /\ \A x \in Servers : x # s => sock'[x] = sock[x]
  BY <1>1, <1>2
<1>3. ASSUME NEW p \in {"open", "closed"}, NEW g \in BOOLEAN,
             conn' = Append(conn, Attempt(s, p, g))
      PROVE  /\ Len(conn') = Len(conn) + 1 /\ Len(conn') # BadFd
             /\ conn'[Len(conn')].reading = g
             /\ \A fd \in DOMAIN conn : conn'[fd] = conn[fd]
  <2>1. Attempt(s, p, g) \in ConnType /\ Attempt(s, p, g).reading = g
    BY AttemptFact DEF Attempt
  <2>2. PICK c \in ConnType : c = Attempt(s, p, g)
    BY <2>1
  <2>3. /\ Len(conn') = Len(conn) + 1 /\ conn'[Len(conn) + 1] = c
        /\ \A fd \in 1..Len(conn) : conn'[fd] = conn[fd]
    BY <1>1, <1>3, <2>2, PushFact
  <2>4. Len(conn) + 1 # BadFd
    BY <1>1 DEF BadFd
  <2>5. QED
    BY <1>1, <2>1, <2>2, <2>3, <2>4
<1>4. \A n : /\ [o EXCEPT !.fd = n, !.bev = n].fd = n
             /\ [o EXCEPT !.fd = n, !.timer = TRUE].timer
             /\ [o EXCEPT !.fd = n, !.bev = NoBev].bev = NoBev
  BY DEF SocketType
<1>5. CASE ToConnectDone(s, o)
  <2>1. PICK n : n = Len(conn')
    OBVIOUS
  <2>2. /\ conn' = Append(conn, Attempt(s, "open", TRUE))
        /\ sock' = [sock EXCEPT ![s] = [o EXCEPT !.fd = n, !.bev = n]]
    BY <1>5, <2>1 DEF ToConnectDone
  <2>3. n # BadFd /\ conn'[n].reading /\ \A fd \in DOMAIN conn : conn'[fd] = conn[fd]
    BY <1>3, <2>1, <2>2
  <2>4. sock'[s].fd = n /\ \A x \in Servers : x # s => sock'[x] = sock[x]
    BY <1>2, <1>4, <2>2
  <2>5. QED
    BY <2>3, <2>4 DEF Tended, Reading, FdOf
<1>6. CASE ToConnectRefused(s, o)
  <2>1. PICK n : n = Len(conn')
    OBVIOUS
  <2>2. /\ conn' = Append(conn, Attempt(s, "closed", FALSE))
        /\ sock' = [sock EXCEPT ![s] = [o EXCEPT !.fd = n, !.timer = TRUE]]
    BY <1>6, <2>1 DEF ToConnectRefused
  <2>3. \A fd \in DOMAIN conn : conn'[fd] = conn[fd]
    BY <1>3, <2>2
  <2>4. sock'[s].timer /\ \A x \in Servers : x # s => sock'[x] = sock[x]
    BY <1>2, <1>4, <2>2
  <2>5. QED
    BY <2>3, <2>4 DEF Tended
<1>7. CASE ToConnectNoFd(s, o)
  <2>1. conn' = conn /\ sock' = [sock EXCEPT ![s] = [o EXCEPT !.fd = BadFd, !.timer = TRUE]]
    BY <1>7 DEF ToConnectNoFd
  <2>2. sock'[s].timer /\ \A x \in Servers : x # s => sock'[x] = sock[x]
    BY <1>2, <1>4, <2>1
  <2>3. QED
    BY <2>1, <2>2 DEF Tended
<1>8. CASE ToConnectNoBev(s, o)
  <2>1. PICK n : n = Len(conn')
    OBVIOUS
  <2>2. /\ conn' = Append(conn, Attempt(s, "open", FALSE))
        /\ sock' = [sock EXCEPT ![s] = [o EXCEPT !.fd = n, !.bev = NoBev]]
    BY <1>8, <2>1 DEF ToConnectNoBev
  <2>3. \A fd \in DOMAIN conn : conn'[fd] = conn[fd]
    BY <1>3, <2>2
  <2>4. sock'[s].bev = NoBev /\ \A x \in Servers : x # s => sock'[x] = sock[x]
    BY <1>2, <1>4, <2>2
  <2>5. QED
    BY <2>3, <2>4 DEF Tended
<1>9. QED
  BY <1>5, <1>6, <1>7, <1>8 DEF ToConnect

\* A server whose socket keeps its descriptor, timer and bufferevent, and whose
\* connection is still read from, stays tended.
LEMMA SameTended ==
    ASSUME Wired, NEW s \in Servers, Tended(s),
           sock'[s].fd = sock[s].fd, sock'[s].bev = sock[s].bev,
           sock[s].timer => sock'[s].timer,
           sock[s].fd \in DOMAIN conn /\ conn[sock[s].fd].server = s
               /\ conn[sock[s].fd].reading => conn'[sock[s].fd].reading
    PROVE  Tended(s)'
BY DEF Wired, Tended, Reading, FdOf

\* No step leaves a server that is tended to itself: when its connection ends, the
\* timer is set; when the timer fires, another attempt is made.
LEMMA TendedKept ==
    ASSUME ClientInv, [Next]_vars, NEW s \in Servers, Tended(s)
    PROVE  Tended(s)'
<1>1. TypeOK /\ Wired /\ IOInv /\ sock \in [Servers -> SocketType]
  BY DEF ClientInv, TypeOK
<1>2. CASE UNCHANGED <<conn, sock>>
  BY <1>2 DEF Tended, Reading, FdOf
<1>3. ASSUME NEW x \in Servers, NEW o \in SocketType, ToConnect(x, o) PROVE Tended(s)'
  <2>1. /\ Tended(x)' /\ (x # s => sock'[s] = sock[s])
        /\ \A fd \in DOMAIN conn : conn'[fd] = conn[fd]
    BY <1>1, <1>3, TryTends
  <2>2. CASE x = s
    BY <2>1, <2>2
  <2>3. CASE x # s
    BY <1>1, <2>1, <2>3, SameTended
  <2>4. QED
    BY <2>2, <2>3
<1>4. ASSUME Keeps, \A fd \in DOMAIN conn : conn[fd].reading => conn'[fd].reading,
             sock[s].timer => sock'[s].timer
      PROVE  Tended(s)'
  BY <1>1, <1>4, SameTended DEF Keeps
<1>5. ASSUME NEW x \in Servers, NEW q,
             sock' = [sock EXCEPT ![x] = [sock[x] EXCEPT !.sendBuf = q]]
      PROVE  sock'[s].timer = sock[s].timer
  <2>1. [sock[x] EXCEPT !.sendBuf = q].timer = sock[x].timer
    BY <1>1 DEF SocketType
  <2>2. QED
    BY <1>1, <1>5, <2>1
<1>6. ASSUME NEW x \in Servers, Connect(x) \/ Reconnect(x) PROVE Tended(s)'
  <2>1. CASE Connect(x)
    BY <1>2, <2>1 DEF Connect
  <2>2. CASE Reconnect(x)
    <3>1. PICK o : o = [sock[x] EXCEPT !.timer = FALSE]
      OBVIOUS
    <3>2. o \in SocketType
      BY <1>1, <3>1 DEF SocketType
    <3>3. ToConnect(x, o)
      BY <2>2, <3>1 DEF Reconnect
    <3>4. QED
      BY <1>3, <3>2, <3>3
  <2>3. QED
    BY <1>6, <2>1, <2>2
<1>7. CASE MainLoop
  BY <1>2, <1>7 DEF MainLoop, MainConnectEnd, MainRecv, MainClose, MainTakes
<1>8. ASSUME NEW t \in Threads, IOLoop(t) PROVE Tended(s)'
  <2>1. CASE IOWake(t)
    BY <1>2, <2>1 DEF IOWake
  <2>2. CASE IOConnect(t)
    <3>1. Head(ioList[t]).server \in Servers /\ Made(t) \in SocketType
      BY <1>1, <2>2, IOTakesFact, MadeFact DEF IOConnect
    <3>2. PICK x \in Servers : x = Head(ioList[t]).server
      BY <3>1
    <3>3. ToConnect(x, Made(t))
      BY <2>2, <3>2 DEF IOConnect
    <3>4. QED
      BY <1>3, <3>1, <3>3
  <2>3. CASE IOSend(t)
    <3>1. Keeps /\ MainSame
      BY <1>1, <2>3, SendKeeps DEF IOInv
    <3>2. PICK x \in Servers, q \in Seq(Fds \X Requests) :
              sock' = [sock EXCEPT ![x] = [sock[x] EXCEPT !.sendBuf = q]]
      BY <1>1, <2>3, SendFact DEF Buffers
    <3>3. QED
      BY <1>4, <1>5, <3>1, <3>2 DEF MainSame
  <2>4. CASE IOFlush(t)
    <3>1. Keeps /\ MainSame
      BY <1>1, <2>4, FlushKeeps DEF IOInv
    <3>2. sock'[s] = sock[s] \/ sock'[s] = [sock[s] EXCEPT !.sendBuf = <<>>]
      BY <1>1, <2>4, FlushFact
    <3>3. [sock[s] EXCEPT !.sendBuf = <<>>].timer = sock[s].timer
      BY <1>1 DEF SocketType
    <3>4. QED
      BY <1>4, <3>1, <3>2, <3>3 DEF MainSame
  <2>5. QED
    BY <1>8, <2>1, <2>2, <2>3, <2>4 DEF IOLoop
<1>9. ASSUME NEW fd \in Fds, Send(fd) \/ Read(fd) PROVE Tended(s)'
  <2>1. CASE Send(fd)
    BY <1>2, <2>1 DEF Send
  <2>2. CASE Read(fd)
    <3>1. PICK x \in Servers, n \in 1..2, q \in Seq(Fds \X Parts) : Reads(fd, x, n, q)
      BY <1>1, <2>2, ReadFact
    <3>2. /\ fd \in DOMAIN conn
          /\ conn' = [conn EXCEPT ![fd] = [conn[fd] EXCEPT !.read = conn[fd].read + n]]
          /\ sock' = [sock EXCEPT ![x] = [sock[x] EXCEPT !.recvBuf = q]]
      BY <1>1, <2>2, <3>1, ReadFact DEF Reads
    <3>3. conn[fd] \in ConnType
      BY <1>1, <3>2, ConnFact
    <3>4. \A m : [conn[fd] EXCEPT !.read = m].reading = conn[fd].reading
      BY <3>3 DEF ConnType
    <3>5. \A f \in DOMAIN conn : conn'[f].reading = conn[f].reading
      BY <3>2, <3>4
    <3>6. LET r == [sock[x] EXCEPT !.recvBuf = q]
          IN  r.fd = sock[x].fd /\ r.bev = sock[x].bev /\ r.timer = sock[x].timer
      BY <1>1 DEF SocketType
    <3>7. /\ sock'[s].fd = sock[s].fd /\ sock'[s].bev = sock[s].bev
          /\ sock'[s].timer = sock[s].timer
      BY <1>1, <3>2, <3>6
    <3>8. QED
      BY <1>1, <3>5, <3>7, SameTended
  <2>3. QED
    BY <1>9, <2>1, <2>2
<1>10. ASSUME NEW fd \in Fds, ReadEvent(fd) \/ WriteEvent(fd) PROVE Tended(s)'
  <2>1. /\ fd \in DOMAIN conn /\ ReportEnd(conn[fd].server)
        /\ \E c \in ConnType : conn' = [conn EXCEPT ![fd] = c]
    BY <1>1, <1>10, EventFact
  <2>2. PICK x \in Servers : x = conn[fd].server
    BY <1>1, <2>1, ConnFact
  <2>3. sock' = [sock EXCEPT ![x] = [sock[x] EXCEPT !.timer = TRUE]]
    BY <2>1, <2>2 DEF ReportEnd
  <2>4. LET r == [sock[x] EXCEPT !.timer = TRUE]
        IN  r.fd = sock[x].fd /\ r.bev = sock[x].bev /\ r.timer
    BY <1>1 DEF SocketType
  <2>5. CASE x = s
    BY <1>1, <2>3, <2>4, <2>5 DEF Tended
  <2>6. CASE x # s
    <3>1. sock'[s] = sock[s]
      BY <1>1, <2>3, <2>6
    <3>2. \A f \in DOMAIN conn : f # fd => conn'[f] = conn[f]
      BY <1>1, <2>1, ConnPut
    <3>3. QED
      BY <1>1, <2>2, <2>6, <3>1, <3>2, SameTended
  <2>7. QED
    BY <2>5, <2>6
<1>11. ASSUME NEW fd \in Fds, ServerSends(fd) \/ ServerCloses(fd) PROVE Tended(s)'
  <2>1. /\ fd \in DOMAIN conn /\ sock' = sock
        /\ \E c \in ConnType : conn' = [conn EXCEPT ![fd] = c]
                               /\ c.reading = conn[fd].reading
    BY <1>1, <1>11, PeerFact
  <2>2. \A f \in DOMAIN conn : conn'[f].reading = conn[f].reading
    BY <2>1
  <2>3. QED
    BY <1>1, <2>1, <2>2, SameTended
<1>12. QED
  BY <1>2, <1>6, <1>7, <1>8, <1>9, <1>10, <1>11 DEF Next, vars

\* What a step does to the list of an io thread.
LEMMA ListStep ==
    ASSUME TypeOK, [Next]_vars, NEW t \in Threads
    PROVE  \/ ioList'[t] = ioList[t]
           \/ \E p \in IOPackage : ioList'[t] = Append(ioList[t], p)
           \/ IOConnect(t)
           \/ IOTakes(t, "send_buf")
<1>1. ioList \in [Threads -> Seq(IOPackage)]
  BY DEF TypeOK
<1>2. ASSUME NEW u, NEW p \in IOPackage, ToIO(u, p)
      PROVE  ioList'[t] = ioList[t] \/ ioList'[t] = Append(ioList[t], p)
  BY <1>1, <1>2 DEF ToIO
<1>3. CASE UNCHANGED vars
  BY <1>3 DEF vars, batchVars
<1>4. ASSUME NEW s \in Servers, Connect(s) \/ Reconnect(s)
      PROVE  ioList'[t] = ioList[t] \/ \E p \in IOPackage : ioList'[t] = Append(ioList[t], p)
  <2>1. CASE Connect(s)
    BY <1>2, <2>1, PackageFact DEF Connect
  <2>2. CASE Reconnect(s)
    BY <2>2 DEF Reconnect, batchVars
  <2>3. QED
    BY <1>4, <2>1, <2>2
<1>5. CASE MainLoop
  BY <1>5 DEF MainLoop, MainConnectEnd, MainRecv, MainClose, MainTakes, batchVars
<1>6. ASSUME NEW u \in Threads, IOLoop(u)
      PROVE  ioList'[t] = ioList[t] \/ IOConnect(t) \/ IOTakes(t, "send_buf")
  <2>1. CASE IOWake(u) \/ IOFlush(u)
    BY <2>1 DEF IOWake, IOFlush
  <2>2. CASE IOConnect(u) \/ IOSend(u)
    <3>1. ioList' = [ioList EXCEPT ![u] = Tail(ioList[u])]
      BY <2>2 DEF IOConnect, IOSend, IOTakes
    <3>2. CASE u = t
      BY <2>2, <3>2 DEF IOSend
    <3>3. CASE u # t
      BY <1>1, <3>1, <3>3
    <3>4. QED
      BY <3>2, <3>3
  <2>3. QED
    BY <1>6, <2>1, <2>2 DEF IOLoop
<1>7. ASSUME NEW fd \in Fds, Send(fd)
      PROVE  ioList'[t] = ioList[t] \/ \E p \in IOPackage : ioList'[t] = Append(ioList[t], p)
  <2>1. PICK s \in Servers, k \in Requests :
            ToIO(sock[s].thread, Package("send_buf", s, <<fd, k>>))
    <3>1. mapAgents[fd] \in Servers
      BY <1>7 DEF Send, TypeOK
    <3>2. asked' = [asked EXCEPT ![fd] = asked[fd] + 1] /\ asked[fd] < MaxReq
      BY <1>7 DEF Send
    <3>3. asked'[fd] \in Requests
      BY <3>2, ClientConnAssumption DEF TypeOK, Requests
    <3>4. QED
      BY <1>7, <3>1, <3>3 DEF Send
  <2>2. Package("send_buf", s, <<fd, k>>) \in IOPackage
    BY PackageFact
  <2>3. QED
    BY <1>2, <2>1, <2>2
<1>8. ASSUME NEW fd \in Fds,
             \/ Read(fd) \/ ReadEvent(fd) \/ WriteEvent(fd)
             \/ ServerSends(fd) \/ ServerCloses(fd)
      PROVE  ioList'[t] = ioList[t]
  <2>1. ioList' = ioList
    BY <1>1, <1>8, ReadFact, EventFact, PeerFact DEF batchVars
  <2>2. QED
    BY <2>1
<1>9. QED
  BY <1>3, <1>4, <1>5, <1>6, <1>7, <1>8 DEF Next

\* A server waits in the list of an io thread until the thread tries to connect it.
LEMMA WaitingKept ==
    ASSUME TypeOK, [Next]_vars, NEW s \in Servers, Waiting(s)
    PROVE  Waiting(s)' \/ Tended(s)'
<1>0. PICK t \in Threads : \E i \in 1..Len(ioList[t]) :
          ioList[t][i].cmd = "connect" /\ ioList[t][i].server = s
  BY DEF Waiting
<1>1. PICK i \in 1..Len(ioList[t]) :
          ioList[t][i].cmd = "connect" /\ ioList[t][i].server = s
  BY <1>0
<1>2. ioList[t] \in Seq(IOPackage)
  BY DEF TypeOK
<1>3. CASE ioList'[t] = ioList[t]
  BY <1>1, <1>3 DEF Waiting
<1>4. CASE \E p \in IOPackage : ioList'[t] = Append(ioList[t], p)
  <2>1. i \in 1..Len(ioList'[t]) /\ ioList'[t][i] = ioList[t][i]
    BY <1>2, <1>4, PushFact
  <2>2. QED
    BY <1>1, <2>1 DEF Waiting
<1>5. ASSUME NEW c, IOTakes(t, c), i # 1 PROVE Waiting(s)'
  <2>1. ioList[t] # <<>> /\ ioList'[t] = Tail(ioList[t])
    BY <1>5, IOTakesFact DEF TypeOK
  <2>2. i - 1 \in 1..Len(ioList'[t]) /\ ioList'[t][i - 1] = ioList[t][i]
    BY <1>2, <1>5, <2>1, PopFact
  <2>3. QED
    BY <1>1, <2>2 DEF Waiting
<1>6. ASSUME NEW c, IOTakes(t, c), i = 1
      PROVE  Head(ioList[t]).cmd = "connect" /\ Head(ioList[t]).server = s
  BY <1>1, <1>2, <1>6, IOTakesFact, PopFact
<1>7. CASE IOConnect(t)
  <2>1. IOTakes(t, "connect")
    BY <1>7 DEF IOConnect
  <2>2. CASE i = 1
    <3>1. ToConnect(s, Made(t)) /\ Made(t) \in SocketType
      BY <1>6, <1>7, <2>1, <2>2, MadeFact DEF IOConnect
    <3>2. QED
      BY <3>1, TryTends
  <2>3. QED
    BY <1>5, <2>1, <2>2
<1>8. CASE IOTakes(t, "send_buf")
  <2>1. Head(ioList[t]).cmd = "send_buf"
    BY <1>8 DEF IOTakes
  <2>2. QED
    BY <1>5, <1>6, <1>8, <2>1
<1>9. QED
  BY <1>3, <1>4, <1>7, <1>8, ListStep

\* Only the application's connect asks for a server.
LEMMA AskedFor ==
    ASSUME TypeOK, [Next]_vars, NEW s \in requested', s \notin requested
    PROVE  Connect(s)
<1>1. CASE UNCHANGED requested
  BY <1>1
<1>2. ASSUME NEW x \in Servers, Connect(x) PROVE s = x
  BY <1>2 DEF Connect
<1>3. ~UNCHANGED vars
  BY <1>1 DEF vars, mainVars
<1>4. \A x \in Servers : ~Reconnect(x)
  BY <1>1 DEF Reconnect, mainVars
<1>5. ~MainLoop
  BY <1>1 DEF MainLoop, MainConnectEnd, MainRecv, MainClose, MainTakes
<1>6. \A t \in Threads : ~IOLoop(t)
  BY <1>1 DEF IOLoop, IOWake, IOConnect, IOSend, IOFlush, IOTakes, mainVars
<1>7. \A fd \in Fds : ~(\/ Send(fd) \/ Read(fd) \/ ReadEvent(fd) \/ WriteEvent(fd)
                        \/ ServerSends(fd) \/ ServerCloses(fd))
  BY <1>1 DEF Send, Read, ReadEvent, WriteEvent, ServerSends, ServerCloses, mainVars
<1>8. QED
  BY <1>2, <1>3, <1>4, <1>5, <1>6, <1>7 DEF Next

\* However connections end, fail and are refused, no server that was asked for is
\* given up while there is memory for bufferevents.
THEOREM ForgetsNone == Spec => []NoServerForgotten
<1>1. Init => NoServerForgotten
  <2> SUFFICES ASSUME Init PROVE NoServerForgotten
    OBVIOUS
  <2>1. requested = {}
    BY DEF Init
  <2>2. QED
    BY <2>1 DEF NoServerForgotten
<1>2. ClientInv /\ NoServerForgotten /\ [Next]_vars => NoServerForgotten'
  <2> SUFFICES ASSUME ClientInv, NoServerForgotten, [Next]_vars, NEW s \in requested'
               PROVE  Waiting(s)' \/ Tended(s)'
    BY DEF NoServerForgotten, Waiting, Tended, Reading
  <2>1. TypeOK /\ TypeOK'
    BY ClientNext DEF ClientInv
  <2>2. s \in Servers
    BY <2>1 DEF TypeOK
  <2>3. CASE s \in requested
    <3>1. Waiting(s) \/ Tended(s)
      BY <2>3 DEF NoServerForgotten, Waiting, Tended, Reading
    <3>2. QED
      BY <2>1, <2>2, <3>1, WaitingKept, TendedKept
  <2>4. CASE s \notin requested
    <3>1. Connect(s)
      BY <2>1, <2>4, AskedFor
    <3>2. PICK p \in IOPackage : p = Package("connect", s, <<>>)
      BY <2>2, PackageFact
    <3>3. PICK t \in Threads : t = currentThread
      BY <2>1 DEF TypeOK
    <3>4. ioList[t] \in Seq(IOPackage) /\ ioList'[t] = Append(ioList[t], p)
      BY <2>1, <3>1, <3>2, <3>3 DEF TypeOK, Connect, ToIO
    <3>5. Len(ioList[t]) + 1 \in 1..Len(ioList'[t]) /\ ioList'[t][Len(ioList[t]) + 1] = p
      BY <3>4, PushFact
    <3>6. p.cmd = "connect" /\ p.server = s
      BY <3>2 DEF Package
    <3>7. QED
      BY <3>5, <3>6 DEF Waiting
  <2>5. QED
    BY <2>3, <2>4
<1>3. QED
  BY <1>1, <1>2, ClientInvariance, PTL DEF Spec

-----------------------------------------------------------------------------
(***************************************************************************)
(* The abstract service                                                    *)
(***************************************************************************)
\* onConnectServer, onServerRecive and onServerClose come as LinkService says.
THEOREM ImplementsLink == Spec => LinkSpec
<1>1. Init => Link!Init
  BY DEF Init, Link!Init
<1>2. ClientInv /\ [Next]_vars => [Link!Next]_session
  BY ClientNext
<1>3. QED
  BY <1>1, <1>2, ClientInvariance, PTL DEF Spec, LinkSpec, Link!Spec
=============================================================================
