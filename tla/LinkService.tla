---------------------------- MODULE LinkService ----------------------------
(***************************************************************************)
(* What ClientSocket promises the application of each server it connects   *)
(* to: onConnectServer and onServerClose take turns, every connection is a *)
(* new one, and onServerRecive comes only in between, with packages of     *)
(* that connection, each once and in the order in which they were sent.    *)
(***************************************************************************)
EXTENDS Naturals

CONSTANTS
    Servers,        \* the servers
    Conns,          \* numbers of connections
    Parts           \* numbers of the parts of packages that a server sends

VARIABLE session    \* of each server: whether it is connected, by which
                    \* connection, and the last part received on it

Init == session = [s \in Servers |-> [link |-> "down", conn |-> 0, last |-> 0]]

\* onConnectServer.
Connected(s) ==
    /\ session[s].link = "down"
    /\ \E c \in Conns :
           /\ c > session[s].conn
           /\ \A r \in Servers : session[r].conn # c
           /\ session' = [session EXCEPT ![s] = [link |-> "up", conn |-> c, last |-> 0]]

\* onServerRecive.
Received(s) ==
    /\ session[s].link = "up"
    /\ \E k \in Parts :
           /\ k > session[s].last
           /\ session' = [session EXCEPT ![s].last = k]

\* onServerClose.
Closed(s) ==
    /\ session[s].link = "up"
    /\ session' = [session EXCEPT ![s].link = "down"]

Next == \E s \in Servers : Connected(s) \/ Received(s) \/ Closed(s)

Spec == Init /\ [][Next]_session
=============================================================================
