---------------------------- MODULE BoundedFifo ----------------------------
(***************************************************************************)
(* What one queue of the bus promises (src/src/bus/bus.h): a first-in      *)
(* first-out queue of at most Capacity messages that can be closed.  Once  *)
(* closing begins a publish may be refused, once it is complete every      *)
(* publish is; what was accepted can still be consumed, and a consumer is  *)
(* told to stop only when nothing is left.                                 *)
(***************************************************************************)
EXTENDS Naturals, Sequences

CONSTANTS Message, Consumers, Capacity

VARIABLES
  queue,      \* accepted and not yet consumed
  phase,      \* "open", "closing", "closed"
  delivered,  \* what the consumers got, in order
  refused,    \* messages whose publish returned false
  stopped     \* consumers that got NULL

vars == <<queue, phase, delivered, refused, stopped>>

Init == /\ queue = <<>>
        /\ phase = "open"
        /\ delivered = <<>>
        /\ refused = {}
        /\ stopped = {}

Accept(m) == /\ phase # "closed"
             /\ Len(queue) < Capacity
             /\ queue' = Append(queue, m)
             /\ UNCHANGED <<phase, delivered, refused, stopped>>

Refuse(m) == /\ phase # "open"
             /\ refused' = refused \cup {m}
             /\ UNCHANGED <<queue, phase, delivered, stopped>>

Consume == /\ queue # <<>>
           /\ delivered' = Append(delivered, Head(queue))
           /\ queue' = Tail(queue)
           /\ UNCHANGED <<phase, refused, stopped>>

Stop(c) == /\ phase # "open"
           /\ queue = <<>>
           /\ stopped' = stopped \cup {c}
           /\ UNCHANGED <<queue, phase, delivered, refused>>

BeginClose == /\ phase = "open"
              /\ phase' = "closing"
              /\ UNCHANGED <<queue, delivered, refused, stopped>>

EndClose == /\ phase = "closing"
            /\ phase' = "closed"
            /\ UNCHANGED <<queue, delivered, refused, stopped>>

Next == \/ \E m \in Message : Accept(m) \/ Refuse(m)
        \/ Consume
        \/ \E c \in Consumers : Stop(c)
        \/ BeginClose
        \/ EndClose

Spec == Init /\ [][Next]_vars
=============================================================================
