----------------------------- MODULE LossyQueue -----------------------------
(***************************************************************************)
(* What the agent's anti-flooding buffer promises: events leave in the     *)
(* order in which they came, each of them once, and an event is dropped    *)
(* only on its arrival, when Capacity events are held.                     *)
(*                                                                         *)
(* Events are numbered in the order of their arrival.                      *)
(***************************************************************************)
EXTENDS Naturals, Sequences

CONSTANT Capacity

VARIABLES
    offered,   \* how many events have come
    queue,     \* the events that are held
    out        \* the event that left last

vars == <<offered, queue, out>>

Init ==
    /\ offered = 0
    /\ queue = <<>>
    /\ out = 0

Accept ==
    /\ Len(queue) < Capacity
    /\ offered' = offered + 1
    /\ queue' = Append(queue, offered')
    /\ UNCHANGED out

Drop ==
    /\ Len(queue) = Capacity
    /\ offered' = offered + 1
    /\ UNCHANGED <<queue, out>>

Leave ==
    /\ queue # <<>>
    /\ out' = Head(queue)
    /\ queue' = Tail(queue)
    /\ UNCHANGED offered

Next == Accept \/ Drop \/ Leave

Spec == Init /\ [][Next]_vars
=============================================================================
