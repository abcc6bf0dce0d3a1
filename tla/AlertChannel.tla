---------------------------- MODULE AlertChannel ----------------------------
(***************************************************************************)
(* What the HTTP side and the incident worker may take the alerts channel  *)
(* for: a bounded queue, first in first out, that nothing enters once the  *)
(* server is down or the worker is gone.  Module Intake implements it from *)
(* the sending side, module Pipeline from the receiving side, and neither  *)
(* knows more of the other.                                                *)
(***************************************************************************)
EXTENDS Naturals, Sequences

CONSTANTS Messages, Capacity

VARIABLES
  queue,      \* the alerts that wait
  senders,    \* some sender is left
  receiver    \* the receiver is left

Init ==
  /\ queue = <<>>
  /\ senders = TRUE
  /\ receiver = TRUE

Send(m) ==
  /\ senders /\ receiver
  /\ Len(queue) < Capacity
  /\ queue' = Append(queue, m)
  /\ UNCHANGED <<senders, receiver>>

Take ==
  /\ receiver
  /\ queue # <<>>
  /\ queue' = Tail(queue)
  /\ UNCHANGED <<senders, receiver>>

LoseSenders ==
  /\ senders
  /\ senders' = FALSE
  /\ UNCHANGED <<queue, receiver>>

\* What is in the channel goes with the receiver.
LoseReceiver ==
  /\ receiver
  /\ receiver' = FALSE
  /\ queue' = <<>>
  /\ UNCHANGED senders

Next ==
  \/ \E m \in Messages : Send(m)
  \/ Take
  \/ LoseSenders
  \/ LoseReceiver

Spec == Init /\ [][Next]_<<queue, senders, receiver>>
=============================================================================
