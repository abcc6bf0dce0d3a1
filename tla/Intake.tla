------------------------------- MODULE Intake -------------------------------
(***************************************************************************)
(* The HTTP side of the alerts channel: the webhook handlers of            *)
(* src/webhook.rs with the parsers of src/grafana.rs and src/pagerduty.rs, *)
(* and the graceful shutdown of serve().                                   *)
(*                                                                         *)
(* Handlers run concurrently, one per request.  A handler waits only for   *)
(* the body of its request; what it does then is code without an await,    *)
(* but on a thread of its own: it meets the other handlers, and the        *)
(* incident worker, in the channel.  The channel is the semaphore and the  *)
(* queue that tokio makes of it: room is reserved for a whole delivery,    *)
(* then its alerts are sent one by one, each on a permit.                  *)
(***************************************************************************)
EXTENDS Integers, FiniteSets, Sequences

CONSTANTS
  Requests,   \* bound: the requests ever made
  Bodies,     \* bound: Bodies[r], those that request r may carry
  Enabled,    \* the sources enabled in the configuration
  Capacity    \* incidents.queue_capacity

\* The sources there is a table for in the configuration.
Adapters == {"grafana", "pagerduty"}

ASSUME IntakeAssumption ==
  Capacity \in Nat \ {0} /\ IsFiniteSet(Requests) /\ Enabled \subseteq Adapters

VARIABLES
  accepting,  \* serve() takes new connections
  serving,    \* serve() has not returned: the router holds a sender
  open,       \* the incident worker holds the receiver
  free,       \* permits nobody holds
  queue,      \* the alerts in the channel
  phase,      \* phase[r]: where the request is
  body,       \* body[r]: the body it carries
  held,       \* held[r]: what it has permits for and has not sent
  status,     \* status[r]: how it was answered
  \* History, for the properties; no action reads it but to write it.
  entered,    \* all that ever entered the channel, in order
  lost,       \* requests that sent an alert after the receiver had gone
  before      \* before[r]: the requests answered when r came

channel == <<open, free, queue>>
request == <<phase, body, held, status>>
vars == <<accepting, serving, channel, request, entered, lost, before>>

-----------------------------------------------------------------------------
(***************************************************************************)
(* Bodies and their parsers.  A body is too large for the limit, is not    *)
(* what its source sends, or carries items: the alerts of a Grafana        *)
(* delivery, or the one event of a PagerDuty webhook.  An item is sound    *)
(* when the fields the parser asks of it are there and well-formed.        *)
(***************************************************************************)

\* The status an item stands for: a Grafana status, or status_for() of a
\* PagerDuty event type.  Any other event type is no signal.
StatusFor ==
  [firing                     |-> "firing",
   resolved                   |-> "resolved",
   incident_triggered         |-> "firing",
   incident_reopened          |-> "firing",
   incident_unacknowledged    |-> "firing",
   incident_acknowledged      |-> "acknowledged",
   incident_resolved          |-> "resolved",
   incident_annotated         |-> "none"]

GrafanaAlerts == [kind : {"firing", "resolved"}, sound : BOOLEAN]
PagerdutyEvents ==
  [kind : DOMAIN StatusFor \ {"firing", "resolved"}, sound : BOOLEAN]

\* What a source may send: a Grafana delivery any number of alerts, a
\* PagerDuty webhook one event.
ASSUME BodiesAssumption ==
  \A r \in Requests : \A b \in Bodies[r] :
    b.form = "json" =>
      /\ b.source = "grafana" => b.items \in Seq(GrafanaAlerts)
      /\ b.source = "pagerduty" => b.items \in {<<e>> : e \in PagerdutyEvents}

NoBody == [source |-> "none", form |-> "none", items |-> <<>>]

\* A PagerDuty event is looked at only if its type tells something.
Signals(b) == \A n \in DOMAIN b.items : StatusFor[b.items[n].kind] # "none"

\* Fault: an element that does not decode is let through.
ReadableInPart(b) == b.form = "json"

\* One element that does not decode fails the whole body.
Readable(b) ==
  /\ b.form = "json"
  /\ Signals(b) => \A n \in DOMAIN b.items : b.items[n].sound

AlertsOf(b) ==
  IF Signals(b) THEN [n \in DOMAIN b.items |-> StatusFor[b.items[n].kind]]
                ELSE <<>>

\* The alerts of request r, as messages of the channel.
DeliveryOf(r) ==
  [n \in DOMAIN AlertsOf(body[r]) |->
     [from |-> r, n |-> n, status |-> AlertsOf(body[r])[n]]]

-----------------------------------------------------------------------------
Init ==
  /\ accepting = TRUE
  /\ serving = TRUE
  /\ open = TRUE
  /\ free = Capacity
  /\ queue = <<>>
  /\ phase = [r \in Requests |-> "unsent"]
  /\ body = [r \in Requests |-> NoBody]
  /\ held = [r \in Requests |-> <<>>]
  /\ status = [r \in Requests |-> 0]
  /\ entered = <<>>
  /\ lost = {}
  /\ before = [r \in Requests |-> {}]

Answered == {r \in Requests : phase[r] = "answered"}
InFlight == {r \in Requests : phase[r] \in {"reading", "sending"}}

\* A request comes in; its handler waits for the body.
Arrive(r, b) ==
  /\ accepting
  /\ phase[r] = "unsent"
  /\ phase' = [phase EXCEPT ![r] = "reading"]
  /\ body' = [body EXCEPT ![r] = b]
  /\ before' = [before EXCEPT ![r] = Answered]
  /\ UNCHANGED <<accepting, serving, channel, held, status, entered, lost>>

\* The client goes away before its body is there: no handler is left.
HangUp(r) ==
  /\ phase[r] = "reading"
  /\ phase' = [phase EXCEPT ![r] = "gone"]
  /\ UNCHANGED <<accepting, serving, channel, body, held, status, entered,
                 lost, before>>

\* The adapters of the sources that are enabled, by the name in the URL.
Registry == {source \in Adapters : source \in Enabled}

Respond(r, code) ==
  /\ phase' = [phase EXCEPT ![r] = "answered"]
  /\ status' = [status EXCEPT ![r] = code]
  /\ UNCHANGED <<free, held>>

\* Fault: room is not looked for.
ReserveUnchecked(r) ==
  /\ phase' = [phase EXCEPT ![r] = "sending"]
  /\ held' = [held EXCEPT ![r] = DeliveryOf(r)]
  /\ free' = free - Len(DeliveryOf(r))
  /\ UNCHANGED status

\* Fault: permits are taken one by one, and those taken are not given back
\* when they turn out to be too few.
ReserveOneByOne(r) ==
  IF open /\ Len(DeliveryOf(r)) <= free
  THEN ReserveUnchecked(r)
  ELSE /\ phase' = [phase EXCEPT ![r] = "answered"]
       /\ status' = [status EXCEPT ![r] = 503]
       /\ free' = IF open THEN 0 ELSE free
       /\ UNCHANGED held

\* Fault: the handler waits for the room it does not find.
ReserveOrWait(r) ==
  /\ open => Len(DeliveryOf(r)) <= free
  /\ IF open THEN ReserveUnchecked(r) ELSE Respond(r, 503)

\* try_reserve_many: permits for all the alerts, or none.
Reserve(r) ==
  IF open /\ Len(DeliveryOf(r)) <= free
  THEN /\ phase' = [phase EXCEPT ![r] = "sending"]
       /\ held' = [held EXCEPT ![r] = DeliveryOf(r)]
       /\ free' = free - Len(DeliveryOf(r))
       /\ UNCHANGED status
  ELSE Respond(r, 503)

\* The body is there: up to the reservation of the room it needs.
Handle(r) ==
  LET b == body[r]
  IN /\ phase[r] = "reading"
     /\ \/ /\ b.form = "too_large"
           /\ Respond(r, 413)
        \/ /\ b.form # "too_large" /\ b.source \notin Registry
           /\ Respond(r, 404)
        \/ /\ b.form # "too_large" /\ b.source \in Registry
           /\ ~Readable(b)
           /\ Respond(r, 400)
        \/ /\ b.form # "too_large" /\ b.source \in Registry
           /\ Readable(b)
           /\ Reserve(r)
     /\ UNCHANGED <<accepting, serving, open, queue, body, entered, lost,
                    before>>

\* A permit is spent.  It does not fail: if the receiver has gone since, the
\* alert goes nowhere.
SendOne(r) ==
  /\ held[r] # <<>>
  /\ held' = [held EXCEPT ![r] = Tail(@)]
  /\ IF open
     THEN /\ queue' = Append(queue, Head(held[r]))
          /\ entered' = Append(entered, Head(held[r]))
          /\ UNCHANGED lost
     ELSE /\ lost' = lost \cup {r}
          /\ UNCHANGED <<queue, entered>>
  /\ UNCHANGED <<accepting, serving, open, free, phase, body, status, before>>

\* Fault: the answer does not wait for the alerts to be sent.
AnswerEarly(r) ==
  /\ phase[r] = "sending"
  /\ phase' = [phase EXCEPT ![r] = "answered"]
  /\ status' = [status EXCEPT ![r] = 202]
  /\ UNCHANGED <<accepting, serving, channel, body, held, entered, lost,
                 before>>

Answer(r) ==
  /\ phase[r] = "sending"
  /\ held[r] = <<>>
  /\ phase' = [phase EXCEPT ![r] = "answered"]
  /\ status' = [status EXCEPT ![r] = 202]
  /\ UNCHANGED <<accepting, serving, channel, body, held, entered, lost,
                 before>>

\* The shutdown signal: no request comes in any more ...
StopAccepting ==
  /\ accepting
  /\ accepting' = FALSE
  /\ UNCHANGED <<serving, channel, request, entered, lost, before>>

\* ... and serve() returns, with the last sender, once none is in flight.
StopServing ==
  /\ ~accepting /\ serving
  /\ InFlight = {}
  /\ serving' = FALSE
  /\ UNCHANGED <<accepting, channel, request, entered, lost, before>>

\* The incident worker takes an alert, and its permit is free again.
Take ==
  /\ open
  /\ queue # <<>>
  /\ queue' = Tail(queue)
  /\ free' = free + 1
  /\ UNCHANGED <<accepting, serving, open, request, entered, lost, before>>

\* The incident worker ends: after the server, as it should, or before it by
\* a panic, its own or that of a worker whose results it was waiting for.
WorkerEnds ==
  /\ open
  /\ open' = FALSE
  /\ queue' = <<>>
  /\ UNCHANGED <<accepting, serving, free, request, entered, lost, before>>

Handler(r) ==
  \/ \E b \in Bodies[r] : Arrive(r, b)
  \/ HangUp(r) \/ Handle(r) \/ SendOne(r) \/ Answer(r)

Next ==
  \/ \E r \in Requests : Handler(r)
  \/ StopAccepting \/ StopServing
  \/ Take \/ WorkerEnds

Spec == Init /\ [][Next]_vars

\* Handlers are polled, and serve() when the last of them is gone.  A client
\* either sends the body it announced or hangs up: nothing in the code times
\* it out.
Fairness ==
  /\ WF_vars(StopServing)
  /\ \A r \in Requests :
       WF_vars(Handle(r)) /\ WF_vars(SendOne(r)) /\ WF_vars(Answer(r))

FairSpec == Spec /\ Fairness

-----------------------------------------------------------------------------
(***************************************************************************)
(* Properties.                                                             *)
(***************************************************************************)

TypeOK ==
  /\ accepting \in BOOLEAN /\ serving \in BOOLEAN /\ open \in BOOLEAN
  /\ accepting => serving
  /\ free \in 0..Capacity
  /\ Len(queue) <= Capacity
  /\ \A r \in Requests :
       /\ phase[r] \in {"unsent", "reading", "sending", "answered", "gone"}
       /\ body[r] \in Bodies[r] \cup {NoBody}
       /\ held[r] # <<>> => phase[r] = "sending"
       /\ status[r] \in {0, 202, 400, 404, 413, 503}
       /\ (status[r] # 0) = (phase[r] = "answered")
  /\ lost \subseteq Requests

\* The permits that handlers hold, one for each alert still to be sent.
Held == UNION {{r} \X DOMAIN held[r] : r \in Requests}

\* The permits free, those of alerts in the channel and those that handlers
\* hold make up the capacity: no refusal or interleaving of deliveries loses
\* room for good, or makes some that is not there (webhook.rs:120).
PermitsConserved ==
  open => free + Len(queue) + Cardinality(Held) = Capacity

\* The places in the channel of what came with request r.
SentBy(r) == {i \in DOMAIN entered : entered[i].from = r}

\* A delivery is in the channel as a whole, each of its alerts once and in
\* the order of its body, if it was accepted, and not at all if it was
\* refused: so a sender that tries again a refused one does not repeat a
\* part.  Only the end of the worker in the middle of a handler makes an
\* exception (webhook.rs:120).
AllOrNothing ==
  \A r \in Answered \ lost :
    IF status[r] # 202 THEN SentBy(r) = {}
    ELSE /\ {entered[i] : i \in SentBy(r)} =
              {DeliveryOf(r)[n] : n \in DOMAIN DeliveryOf(r)}
         /\ \A i, j \in SentBy(r) : i < j => entered[i].n < entered[j].n
         /\ Signals(body[r]) => \A n \in DOMAIN body[r].items :
              /\ body[r].items[n].sound
              /\ \E i \in SentBy(r) : entered[i].n = n

\* Handlers are concurrent, and deliveries may mix in the channel; but what
\* was answered before a request came is ahead of all that request brings:
\* a resolve sent after the firing was taken is handled after it
\* (webhook.rs:122).
AnsweredIsAhead ==
  \A i, j \in DOMAIN entered :
    entered[i].from \in before[entered[j].from] => i < j

\* The channel between the handlers and the worker is a bounded queue.
Channel == INSTANCE AlertChannel WITH
  Messages <- [from : Requests, n : 1..Capacity,
               status : {"firing", "acknowledged", "resolved"}],
  senders <- serving, receiver <- open

ImplementsChannel == Channel!Spec

\* After the signal serve() returns, whatever room there is in the channel
\* and whether or not the worker lives (webhook.rs:47).
ServerDrains == ~accepting ~> ~serving
=============================================================================
