---------------------------- MODULE FifoChannel ----------------------------
(***************************************************************************)
(* What the threads of the server rely on when they hand packages to each  *)
(* other: a bounded first-in first-out channel that loses nothing,         *)
(* repeats nothing, and whose receiver takes every package in the end.     *)
(***************************************************************************)
EXTENDS Naturals, Sequences

CONSTANTS
    Senders,    \* the threads that put packages into the channel
    Capacity    \* how many packages it holds

VARIABLE
    chan        \* the packages in flight, oldest first; a package is named
                \* by its sender

vars == <<chan>>

Init == chan = <<>>

Put(s) ==
    /\ Len(chan) < Capacity
    /\ chan' = Append(chan, s)

Take ==
    /\ chan # <<>>
    /\ chan' = Tail(chan)

Next == (\E s \in Senders : Put(s)) \/ Take

\* The receiver is never idle for ever in front of a package.
Spec == Init /\ [][Next]_vars /\ WF_vars(Take)
=============================================================================
