----------------------------- MODULE KeyQueue -----------------------------
(***************************************************************************)
(* What the keyboard driver promises about its buffer: a bounded queue of  *)
(* scancodes.  Every press is offered once; it is accepted unless the      *)
(* queue is full, and accepted presses come out once each, in order.       *)
(***************************************************************************)
EXTENDS Naturals, Sequences

CONSTANTS Keys, Capacity, NoKey

VARIABLES
    queue,    \* accepted and not yet taken out
    got,      \* taken out and not yet used, or NoKey
    offered   \* how many presses have been offered

queueVars == <<queue, got, offered>>

QueueInit == queue = << >> /\ got = NoKey /\ offered = 0

Accept(k) ==
    /\ Len(queue) < Capacity
    /\ queue' = Append(queue, k)
    /\ offered' = offered + 1
    /\ UNCHANGED got

Drop ==
    /\ Len(queue) = Capacity
    /\ offered' = offered + 1
    /\ UNCHANGED <<queue, got>>

Take ==
    /\ queue # << >>
    /\ got = NoKey
    /\ got' = Head(queue)
    /\ queue' = Tail(queue)
    /\ UNCHANGED offered

Consume ==
    /\ got # NoKey
    /\ got' = NoKey
    /\ UNCHANGED <<queue, offered>>

QueueNext == (\E k \in Keys : Accept(k)) \/ Drop \/ Take \/ Consume

QueueSpec == QueueInit /\ [][QueueNext]_queueVars /\ WF_queueVars(Take \/ Consume)
============================================================================
