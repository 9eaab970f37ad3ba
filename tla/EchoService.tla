---------------------------- MODULE EchoService ----------------------------
(***************************************************************************)
(* What the server promises its application and its clients, connection by *)
(* connection: one onAcceptClient, then any number of onClientRecive in    *)
(* the order the client sent, then one onClientClose; and the replies that *)
(* leave the server are a prefix of the replies the application gave.      *)
(***************************************************************************)
EXTENDS Naturals, Sequences, FiniteSets

CONSTANTS
    Connections,    \* the connections
    Requests        \* numbers of the requests of one connection

VARIABLES
    session,        \* session[c]: "none", "open" or "closed"
    asked,          \* asked[c]: the requests the application has answered
    answered        \* answered[c]: the replies on their way to the client

vars == <<session, asked, answered>>

Init ==
    /\ session = [c \in Connections |-> "none"]
    /\ asked = [c \in Connections |-> <<>>]
    /\ answered = [c \in Connections |-> <<>>]

Accept(c) ==
    /\ session[c] = "none"
    /\ session' = [session EXCEPT ![c] = "open"]
    /\ UNCHANGED <<asked, answered>>

\* A later request than all before it.
Ask(c, r) ==
    /\ session[c] = "open"
    /\ \A i \in DOMAIN asked[c] : asked[c][i] < r
    /\ asked' = [asked EXCEPT ![c] = Append(@, r)]
    /\ UNCHANGED <<session, answered>>

\* Some replies of some connections leave together; none is skipped.
Answer ==
    /\ \E upTo \in [Connections -> 0..Cardinality(Requests)] :
           /\ \A c \in Connections :
                  upTo[c] \in Len(answered[c])..Len(asked[c])
           /\ answered' = [c \in Connections |-> SubSeq(asked[c], 1, upTo[c])]
    /\ UNCHANGED <<session, asked>>

Close(c) ==
    /\ session[c] = "open"
    /\ session' = [session EXCEPT ![c] = "closed"]
    /\ UNCHANGED <<asked, answered>>

Next ==
    \/ \E c \in Connections :
           Accept(c) \/ Close(c) \/ \E r \in Requests : Ask(c, r)
    \/ Answer

Spec == Init /\ [][Next]_vars
=============================================================================
