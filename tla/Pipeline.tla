------------------------------ MODULE Pipeline ------------------------------
(***************************************************************************)
(* The running program: the incident worker (src/incident/worker.rs), the  *)
(* triage and investigation workers (src/triage/worker.rs and              *)
(* src/investigation/worker.rs), the five bounded channels between them,   *)
(* and the shutdown of src/bin/oncall-ai.rs.                               *)
(*                                                                         *)
(*     webhooks --alerts--> incident worker --requests[w]--> worker w      *)
(*                                ^                             |          *)
(*                                +--------- results[w] --------+          *)
(*                                                                         *)
(* The two model-backed workers have the same loop and are one set of      *)
(* actions, for w in Workers.  A message is the id of its incident: what   *)
(* else it carries is not looked at.  The three workers are tasks of a     *)
(* multi-threaded runtime; a step below is what one of them does between   *)
(* two points where another can see, or change, what it depends on.        *)
(***************************************************************************)
EXTENDS Dedupe, FiniteSets

CONSTANTS
  Times,             \* readings of the wall clock
  IdleTtl,           \* incidents.idle_ttl
  AlertsCapacity,    \* incidents.queue_capacity
  RequestCapacity,   \* triage.queue_capacity and investigation.queue_capacity
  ResultCapacity,    \* TRIAGED_CAPACITY and INVESTIGATED_CAPACITY
  MaxAlerts,         \* bound: the alerts ever accepted
  MaxPanics,         \* bound: the workers that panic
  Deliveries         \* bound: the alerts webhooks may carry

ASSUME CapacitiesAssumption ==
  AlertsCapacity \in Nat \ {0} /\ RequestCapacity \in Nat \ {0}
  /\ ResultCapacity \in Nat \ {0} /\ MaxAlerts \in Nat /\ MaxPanics \in Nat
ASSUME TimesAssumption == Times \subseteq Int
ASSUME IdleTtlAssumption == IdleTtl \in Nat
ASSUME DeliveriesAssumption == Deliveries \subseteq Alert

Workers == {"triage", "investigation"}

VARIABLES
  store,       \* the incident worker's InMemoryStore
  alerts,      \* the alerts channel
  requests,    \* requests[w]: the channel to worker w
  results,     \* results[w]: the channel back from worker w
  serving,     \* the HTTP server is up, and holds the senders of alerts
  cancelled,   \* worker_shutdown was cancelled
  at,          \* where the incident worker is in its loop
  workerAt,    \* workerAt[w]: where worker w is in its loop
  inHand,      \* inHand[w]: the incidents (at most one) w is working on
  dropped,     \* the count each of the three workers returns
  \* History, for the properties; no action reads it but to write it.
  accepted,    \* alerts accepted
  handled,     \* alerts handled
  asked,       \* asked[w]: incidents whose request the channel took
  abandoned,   \* abandoned[w]: incidents whose call ended without a result
  sent,        \* sent[w]: incidents whose result the channel took
  refused,     \* refused[w]: incidents whose result met a closed channel
  panicked     \* the workers that ended by a panic

channels == <<alerts, requests, results>>
history == <<accepted, handled, asked, abandoned, sent, refused, panicked>>
vars == <<store, channels, serving, cancelled, at, workerAt, inHand, dropped,
          history>>

IncidentAt == {"select", "polled_shutdown", "polled_triaged",
               "polled_investigated", "drain_triaged", "drain_investigated",
               "drain_alerts", "drained", "done"}
WorkerAt == {"select", "receiving", "calling", "sending", "draining",
             "drained", "done"}

Init ==
  /\ store = NewStore
  /\ alerts = <<>>
  /\ requests = [w \in Workers |-> <<>>]
  /\ results = [w \in Workers |-> <<>>]
  /\ serving = TRUE
  /\ cancelled = FALSE
  /\ at = "select"
  /\ workerAt = [w \in Workers |-> "select"]
  /\ inHand = [w \in Workers |-> {}]
  /\ dropped = [p \in {"incident"} \cup Workers |-> 0]
  /\ accepted = 0
  /\ handled = 0
  /\ asked = [w \in Workers |-> {}]
  /\ abandoned = [w \in Workers |-> {}]
  /\ sent = [w \in Workers |-> {}]
  /\ refused = [w \in Workers |-> {}]
  /\ panicked = {}

-----------------------------------------------------------------------------
(***************************************************************************)
(* The HTTP server and the shutdown of main.                               *)
(***************************************************************************)

\* Fault: a sender outlives the server.
AcceptAfterServing(a) ==
  /\ accepted < MaxAlerts
  /\ Len(alerts) < AlertsCapacity
  /\ at # "done"
  /\ alerts' = Append(alerts, a)
  /\ accepted' = accepted + 1
  /\ UNCHANGED <<store, requests, results, serving, cancelled, at, workerAt,
                 inHand, dropped, handled, asked, abandoned, sent, refused,
                 panicked>>

\* A webhook's alert enters the channel; module Intake has the deliveries it
\* comes in, and those that are refused.
Accept(a) ==
  /\ serving
  /\ accepted < MaxAlerts
  /\ Len(alerts) < AlertsCapacity
  /\ at # "done"
  /\ alerts' = Append(alerts, a)
  /\ accepted' = accepted + 1
  /\ UNCHANGED <<store, requests, results, serving, cancelled, at, workerAt,
                 inHand, dropped, handled, asked, abandoned, sent, refused,
                 panicked>>

\* A signal came and the requests in flight were drained: serve() returns
\* and the last sender of the alerts channel is gone.
StopServing ==
  /\ serving
  /\ serving' = FALSE
  /\ UNCHANGED <<store, channels, cancelled, at, workerAt, inHand, dropped,
                 history>>

\* Fault: the workers are told to stop while HTTP still drains.
CancelEarly ==
  /\ ~cancelled
  /\ cancelled' = TRUE
  /\ UNCHANGED <<store, channels, serving, at, workerAt, inHand, dropped,
                 history>>

\* Only then are the workers told to stop.
CancelWorkers ==
  /\ ~serving /\ ~cancelled
  /\ cancelled' = TRUE
  /\ UNCHANGED <<store, channels, serving, at, workerAt, inHand, dropped,
                 history>>

-----------------------------------------------------------------------------
(***************************************************************************)
(* The incident worker.                                                    *)
(***************************************************************************)

\* Fault: the requests queue is unbounded.
AskUnbounded(w, id) ==
  IF workerAt[w] # "done"
  THEN /\ requests' = [requests EXCEPT ![w] = Append(@, id)]
       /\ asked' = [asked EXCEPT ![w] = @ \cup {id}]
  ELSE UNCHANGED <<requests, asked>>

\* try_send of a request to w.  The receiver lives until w is done.  A full
\* or closed channel sheds the request.
Ask(w, id) ==
  IF workerAt[w] # "done" /\ Len(requests[w]) < RequestCapacity
  THEN /\ requests' = [requests EXCEPT ![w] = Append(@, id)]
       /\ asked' = [asked EXCEPT ![w] = @ \cup {id}]
  ELSE UNCHANGED <<requests, asked>>

\* handle_alert
HandleAlert(a) ==
  \E now \in Times :
    LET swept == ExpireIdleBefore(store, now - IdleTtl, now)
    IN \/ /\ Settles(swept, a, now, store')
          /\ UNCHANGED <<requests, asked>>
       \/ /\ Opens(swept, a)
          /\ \E id \in NewIds(store) :
               /\ store' = Insert(swept, id, NewIncident(a, now))
               /\ Ask("triage", id)

\* Fault: when the investigation is shed, the triage is asked for again, in
\* the hope that the queue has room next time.
RecordTriagedOrRetry(id) ==
  /\ store' = SetTriage(store, id)
  /\ IF id \in OpenIds(store)
     THEN IF Len(requests["investigation"]) < RequestCapacity
          THEN Ask("investigation", id) ELSE Ask("triage", id)
     ELSE UNCHANGED <<requests, asked>>

\* Fault: the investigation of a closed incident is asked for too.
RecordTriagedUnchecked(id) ==
  /\ store' = SetTriage(store, id)
  /\ Ask("investigation", id)

\* record_triage, which asks for the investigation of an open incident
RecordTriaged(id) ==
  /\ store' = SetTriage(store, id)
  /\ IF id \in OpenIds(store)
     THEN Ask("investigation", id)
     ELSE UNCHANGED <<requests, asked>>

\* record_investigation
RecordInvestigated(id) ==
  /\ \E outcome \in Outcomes : store' = SetInvestigation(store, id, outcome)
  /\ UNCHANGED <<requests, asked>>

\* recv() or try_recv() on the channel from w returns a result.
TakeResult(w, id) ==
  /\ results[w] # <<>>
  /\ id = Head(results[w])
  /\ results' = [results EXCEPT ![w] = Tail(@)]

\* The sender of results[w] is w's, and lives until w is done.
NoMoreResults(w) == results[w] = <<>> /\ workerAt[w] = "done"

\* Fault: the worker is not woken by an investigation that comes back.
AwakeForTriage ==
  \/ cancelled \/ alerts # <<>> \/ ~serving
  \/ results["triage"] # <<>> \/ NoMoreResults("triage")

\* Some branch of the select has something to say.
Awake ==
  \/ cancelled \/ alerts # <<>> \/ ~serving
  \/ \E w \in Workers : results[w] # <<>> \/ NoMoreResults(w)

\* The branches of the biased select, polled in the order they are written.
\* A branch found pending is not looked at again before the next round.
PollShutdown ==
  /\ at = "select"
  /\ Awake
  /\ at' = IF cancelled THEN "drain_triaged" ELSE "polled_shutdown"
  /\ UNCHANGED <<store, channels, serving, cancelled, workerAt, inHand,
                 dropped, history>>

PollTriaged ==
  /\ at = "polled_shutdown"
  /\ \/ /\ \E id \in IncidentIds :
             TakeResult("triage", id) /\ RecordTriaged(id)
        /\ at' = "select"
     \/ /\ results["triage"] = <<>>
        /\ at' = IF NoMoreResults("triage") THEN "drain_triaged"
                                            ELSE "polled_triaged"
        /\ UNCHANGED <<store, requests, results, asked>>
  /\ UNCHANGED <<alerts, serving, cancelled, workerAt, inHand, dropped,
                 accepted, handled, abandoned, sent, refused, panicked>>

PollInvestigated ==
  /\ at = "polled_triaged"
  /\ \/ /\ \E id \in IncidentIds :
             TakeResult("investigation", id) /\ RecordInvestigated(id)
        /\ at' = "select"
     \/ /\ results["investigation"] = <<>>
        /\ at' = IF NoMoreResults("investigation") THEN "drain_triaged"
                                                   ELSE "polled_investigated"
        /\ UNCHANGED <<store, requests, results, asked>>
  /\ UNCHANGED <<alerts, serving, cancelled, workerAt, inHand, dropped,
                 accepted, handled, abandoned, sent, refused, panicked>>

PollAlerts ==
  /\ at = "polled_investigated"
  /\ \/ /\ alerts # <<>>
        /\ HandleAlert(Head(alerts))
        /\ alerts' = Tail(alerts)
        /\ handled' = handled + 1
        /\ at' = "select"
     \/ /\ alerts = <<>>
        /\ at' = IF serving THEN "select" ELSE "drain_triaged"
        /\ UNCHANGED <<store, alerts, requests, handled, asked>>
  /\ UNCHANGED <<results, serving, cancelled, workerAt, inHand, dropped,
                 accepted, abandoned, sent, refused, panicked>>

\* The three try_recv loops after the select loop.
DrainTriaged ==
  /\ at = "drain_triaged"
  /\ \/ /\ \E id \in IncidentIds :
             TakeResult("triage", id) /\ RecordTriaged(id)
        /\ UNCHANGED at
     \/ /\ results["triage"] = <<>>
        /\ at' = "drain_investigated"
        /\ UNCHANGED <<store, requests, results, asked>>
  /\ UNCHANGED <<alerts, serving, cancelled, workerAt, inHand, dropped,
                 accepted, handled, abandoned, sent, refused, panicked>>

DrainInvestigated ==
  /\ at = "drain_investigated"
  /\ \/ /\ \E id \in IncidentIds :
             TakeResult("investigation", id) /\ RecordInvestigated(id)
        /\ UNCHANGED at
     \/ /\ results["investigation"] = <<>>
        /\ at' = "drain_alerts"
        /\ UNCHANGED <<store, requests, results, asked>>
  /\ UNCHANGED <<alerts, serving, cancelled, workerAt, inHand, dropped,
                 accepted, handled, abandoned, sent, refused, panicked>>

\* Fault: alerts are drained and not counted.
DrainUncounted ==
  /\ at = "drain_alerts"
  /\ \/ alerts # <<>> /\ alerts' = Tail(alerts) /\ UNCHANGED at
     \/ alerts = <<>> /\ at' = "drained" /\ UNCHANGED alerts
  /\ UNCHANGED <<store, requests, results, serving, cancelled, workerAt,
                 inHand, dropped, history>>

DrainAlerts ==
  /\ at = "drain_alerts"
  /\ \/ /\ alerts # <<>>
        /\ alerts' = Tail(alerts)
        /\ dropped' = [dropped EXCEPT !["incident"] = @ + 1]
        /\ UNCHANGED at
     \/ /\ alerts = <<>>
        /\ at' = "drained"
        /\ UNCHANGED <<alerts, dropped>>
  /\ UNCHANGED <<store, requests, results, serving, cancelled, workerAt,
                 inHand, history>>

\* The task ends: its ends of the five channels are dropped, with whatever
\* still came into the three it receives from.
IncidentWorkerExit ==
  /\ at = "drained"
  /\ at' = "done"
  /\ alerts' = <<>>
  /\ results' = [w \in Workers |-> <<>>]
  /\ UNCHANGED <<store, requests, serving, cancelled, workerAt, inHand,
                 dropped, history>>

IncidentWorker ==
  \/ PollShutdown \/ PollTriaged \/ PollInvestigated \/ PollAlerts
  \/ DrainTriaged \/ DrainInvestigated \/ DrainAlerts
  \/ IncidentWorkerExit

\* A task that panics drops its ends of the channels, with what is in those
\* it receives from.  Nobody looks at its handle before the shutdown.
IncidentWorkerPanics ==
  /\ at # "done"
  /\ Cardinality(panicked) < MaxPanics
  /\ panicked' = panicked \cup {"incident"}
  /\ at' = "done"
  /\ alerts' = <<>>
  /\ results' = [w \in Workers |-> <<>>]
  /\ UNCHANGED <<store, requests, serving, cancelled, workerAt, inHand,
                 dropped, accepted, handled, asked, abandoned, sent, refused>>

-----------------------------------------------------------------------------
(***************************************************************************)
(* The triage worker and the investigation worker.                         *)
(***************************************************************************)

Goto(w, place) == workerAt' = [workerAt EXCEPT ![w] = place]

\* The first poll of the biased select looks at the shutdown.
WorkerSelect(w) ==
  /\ workerAt[w] = "select"
  /\ Goto(w, IF cancelled THEN "draining" ELSE "receiving")
  /\ UNCHANGED <<store, channels, serving, cancelled, at, inHand, dropped,
                 history>>

\* recv(): a request; a request and, before the call is first polled, the
\* shutdown; or None, for the incident worker and its sender are gone.
WorkerReceive(w) ==
  /\ workerAt[w] = "receiving"
  /\ requests[w] # <<>>
  /\ requests' = [requests EXCEPT ![w] = Tail(@)]
  /\ IF cancelled
     THEN /\ dropped' = [dropped EXCEPT ![w] = @ + 1]
          /\ Goto(w, "draining")
          /\ UNCHANGED inHand
     ELSE /\ inHand' = [inHand EXCEPT ![w] = {Head(requests[w])}]
          /\ Goto(w, "calling")
          /\ UNCHANGED dropped
  /\ UNCHANGED <<store, alerts, results, serving, cancelled, at, history>>

WorkerStop(w) ==
  /\ workerAt[w] = "receiving"
  /\ cancelled \/ (requests[w] = <<>> /\ at = "done")
  /\ Goto(w, "draining")
  /\ UNCHANGED <<store, channels, serving, cancelled, at, inHand, dropped,
                 history>>

\* The call returns a result to send back.
CallSucceeds(w) ==
  /\ workerAt[w] = "calling"
  /\ Goto(w, "sending")
  /\ UNCHANGED <<store, channels, serving, cancelled, at, inHand, dropped,
                 history>>

\* Triage gives up once its output was unusable too often; an investigation
\* always has an outcome to send.
CallAbandoned(w) ==
  /\ workerAt[w] = "calling"
  /\ w = "triage"
  /\ abandoned' = [abandoned EXCEPT ![w] = @ \cup inHand[w]]
  /\ inHand' = [inHand EXCEPT ![w] = {}]
  /\ Goto(w, "select")
  /\ UNCHANGED <<store, channels, serving, cancelled, at, dropped, accepted,
                 handled, asked, sent, refused, panicked>>

\* Fault: the run of an investigation is not raced against the shutdown.
CallCancelledTriageOnly(w) ==
  /\ w = "triage"
  /\ workerAt[w] = "calling"
  /\ cancelled
  /\ dropped' = [dropped EXCEPT ![w] = @ + 1]
  /\ inHand' = [inHand EXCEPT ![w] = {}]
  /\ Goto(w, "draining")
  /\ UNCHANGED <<store, channels, serving, cancelled, at, history>>

\* The shutdown wins over the call.
CallCancelled(w) ==
  /\ workerAt[w] = "calling"
  /\ cancelled
  /\ dropped' = [dropped EXCEPT ![w] = @ + 1]
  /\ inHand' = [inHand EXCEPT ![w] = {}]
  /\ Goto(w, "draining")
  /\ UNCHANGED <<store, channels, serving, cancelled, at, history>>

\* Fault: a result nobody receives any more is counted as a drop.
WorkerSendCounting(w) ==
  /\ workerAt[w] = "sending"
  /\ \/ /\ at # "done" /\ Len(results[w]) < ResultCapacity
        /\ \E id \in inHand[w] :
             results' = [results EXCEPT ![w] = Append(@, id)]
        /\ sent' = [sent EXCEPT ![w] = @ \cup inHand[w]]
        /\ UNCHANGED <<refused, dropped>>
     \/ /\ at = "done"
        /\ refused' = [refused EXCEPT ![w] = @ \cup inHand[w]]
        /\ dropped' = [dropped EXCEPT ![w] = @ + 1]
        /\ UNCHANGED <<results, sent>>
  /\ inHand' = [inHand EXCEPT ![w] = {}]
  /\ Goto(w, "select")
  /\ UNCHANGED <<store, alerts, requests, serving, cancelled, at,
                 accepted, handled, asked, abandoned, panicked>>

\* done_tx.send() waits for room, deaf to the shutdown, and fails when the
\* incident worker is gone.
WorkerSend(w) ==
  /\ workerAt[w] = "sending"
  /\ \/ /\ at # "done" /\ Len(results[w]) < ResultCapacity
        /\ \E id \in inHand[w] :
             results' = [results EXCEPT ![w] = Append(@, id)]
        /\ sent' = [sent EXCEPT ![w] = @ \cup inHand[w]]
        /\ UNCHANGED refused
     \/ /\ at = "done"
        /\ refused' = [refused EXCEPT ![w] = @ \cup inHand[w]]
        /\ UNCHANGED <<results, sent>>
  /\ inHand' = [inHand EXCEPT ![w] = {}]
  /\ Goto(w, "select")
  /\ UNCHANGED <<store, alerts, requests, serving, cancelled, at, dropped,
                 accepted, handled, asked, abandoned, panicked>>

WorkerDrain(w) ==
  /\ workerAt[w] = "draining"
  /\ \/ /\ requests[w] # <<>>
        /\ requests' = [requests EXCEPT ![w] = Tail(@)]
        /\ dropped' = [dropped EXCEPT ![w] = @ + 1]
        /\ UNCHANGED workerAt
     \/ /\ requests[w] = <<>>
        /\ Goto(w, "drained")
        /\ UNCHANGED <<requests, dropped>>
  /\ UNCHANGED <<store, alerts, results, serving, cancelled, at, inHand,
                 history>>

\* The task ends, and with it the receiver of its requests.
WorkerExit(w) ==
  /\ workerAt[w] = "drained"
  /\ Goto(w, "done")
  /\ requests' = [requests EXCEPT ![w] = <<>>]
  /\ UNCHANGED <<store, alerts, results, serving, cancelled, at, inHand,
                 dropped, history>>

WorkerPanics(w) ==
  /\ workerAt[w] # "done"
  /\ Cardinality(panicked) < MaxPanics
  /\ panicked' = panicked \cup {w}
  /\ Goto(w, "done")
  /\ requests' = [requests EXCEPT ![w] = <<>>]
  /\ inHand' = [inHand EXCEPT ![w] = {}]
  /\ UNCHANGED <<store, alerts, results, serving, cancelled, at, dropped,
                 accepted, handled, asked, abandoned, sent, refused>>

\* What a worker does by itself, whatever the model provider does.
WorkerStep(w) ==
  \/ WorkerSelect(w) \/ WorkerReceive(w) \/ WorkerStop(w)
  \/ CallCancelled(w) \/ WorkerSend(w) \/ WorkerDrain(w) \/ WorkerExit(w)

CallReturns(w) == CallSucceeds(w) \/ CallAbandoned(w)

AllDone == at = "done" /\ \A w \in Workers : workerAt[w] = "done"

\* main has awaited the three workers and returned.
Exited == AllDone /\ cancelled /\ UNCHANGED vars

Next ==
  \/ \E a \in Deliveries : Accept(a)
  \/ StopServing
  \/ CancelWorkers
  \/ IncidentWorker
  \/ \E w \in Workers : WorkerStep(w)
  \/ \E w \in Workers : CallReturns(w)
  \/ IncidentWorkerPanics
  \/ \E w \in Workers : WorkerPanics(w)
  \/ Exited

Spec == Init /\ [][Next]_vars

(***************************************************************************)
(* Fairness.  A task that is awake is eventually polled: the multi-thread  *)
(* runtime starves none, so each worker takes its own steps.  main goes on *)
(* from serve() to cancel().  Nothing says that the model provider answers *)
(* (triage is retried for ever), that a signal comes or that webhooks do.  *)
(***************************************************************************)

Fairness ==
  /\ WF_vars(CancelWorkers)
  /\ WF_vars(IncidentWorker)
  /\ \A w \in Workers : WF_vars(WorkerStep(w))

FairSpec == Spec /\ Fairness

-----------------------------------------------------------------------------
(***************************************************************************)
(* Properties.                                                             *)
(***************************************************************************)

InTransit(w) ==
  {requests[w][n] : n \in DOMAIN requests[w]} \cup inHand[w]
    \cup {results[w][n] : n \in DOMAIN results[w]}

Recorded(w) ==
  {i \in DOMAIN store.incidents :
     IF w = "triage" THEN store.incidents[i].triage
     ELSE store.incidents[i].investigation # Uninvestigated}

Ended(w) == Recorded(w) \cup abandoned[w] \cup refused[w]

TypeOK ==
  /\ StoreTypeOK(store)
  /\ alerts \in Seq(Deliveries) /\ Len(alerts) <= AlertsCapacity
  /\ \A w \in Workers :
       /\ requests[w] \in Seq(asked[w]) /\ Len(requests[w]) <= RequestCapacity
       /\ results[w] \in Seq(asked[w]) /\ Len(results[w]) <= ResultCapacity
       /\ inHand[w] \subseteq asked[w]
       /\ (inHand[w] # {}) = (workerAt[w] \in {"calling", "sending"})
       /\ asked[w] \subseteq DOMAIN store.incidents
       /\ abandoned[w] \cup sent[w] \cup refused[w] \subseteq asked[w]
  /\ serving \in BOOLEAN /\ cancelled \in BOOLEAN
  /\ at \in IncidentAt
  /\ workerAt \in [Workers -> WorkerAt]
  /\ dropped \in [{"incident"} \cup Workers -> Nat]
  /\ accepted \in 0..MaxAlerts /\ handled \in 0..MaxAlerts
  /\ panicked \subseteq {"incident"} \cup Workers

\* Every alert answered with 202 is handled, waiting, or in the count the
\* incident worker returns: none is lost to the channel, not even those in
\* it when the worker goes (worker.rs:59; the cancellation comes only after
\* HTTP drained, oncall-ai.rs:126).  Once a worker has panicked an alert can
\* be lost, but still none is counted twice.
AcceptedAlertsAccounted ==
  /\ handled + Len(alerts) + dropped["incident"] <= accepted
  /\ panicked = {} => accepted = handled + Len(alerts) + dropped["incident"]

\* An incident is asked about by one message, which is in one place: in a
\* channel, with a worker, or at its end.  It is never asked about again,
\* so an incident has one triage and one investigation (worker.rs:162).
OneQuestionPerIncident ==
  \A w \in Workers :
    /\ Cardinality(InTransit(w)) =
         Len(requests[w]) + Cardinality(inHand[w]) + Len(results[w])
    /\ InTransit(w) \cap Ended(w) = {}
    /\ Cardinality(Ended(w)) = Cardinality(Recorded(w))
         + Cardinality(abandoned[w]) + Cardinality(refused[w])

\* The count of drops a worker returns is of requests that met no other
\* end: nothing is counted that was answered, abandoned or is under way.
DropsAreReal ==
  \A w \in Workers :
    dropped[w] + Cardinality(InTransit(w)) + Cardinality(Ended(w))
      <= Cardinality(asked[w])

\* The workers and channels keep the life of incidents as the incident
\* worker alone sees it: each triage or investigation comes back at most
\* once, for an incident that asked for it.
Detail == INSTANCE Incidents WITH
  awaitingTriage <- asked["triage"] \ Recorded("triage"),
  awaitingInvestigation <- asked["investigation"] \ Recorded("investigation")

ImplementsIncidents == Detail!Spec

\* The channel between the webhooks and the incident worker is a bounded
\* queue, as module Intake takes it to be.
Channel == INSTANCE AlertChannel WITH
  Messages <- Deliveries, Capacity <- AlertsCapacity,
  queue <- alerts, senders <- serving, receiver <- at # "done"

ImplementsChannel == Channel!Spec

\* The worker's own comment: the tokens of an investigation nobody will
\* read must not be spent, on an incident that is closed (worker.rs:434).
ClosedNotInvestigated ==
  [][\A id \in inHand'["investigation"] \ inHand["investigation"] :
       id \in OpenIds(store)]_vars

\* "Everything queued is counted as dropped" (triage/worker.rs:342): once
\* the workers are done, a request the channel took was dropped and
\* counted, unless its call ended.
QueuedIsCounted ==
  AllDone => \A w \in Workers :
    Cardinality(asked[w]) =
      dropped[w] + Cardinality(abandoned[w] \cup sent[w] \cup refused[w])

\* Every alert accepted is in the end handled or counted as dropped, though
\* the select prefers the results to the alerts (worker.rs:36).  The only
\* exception is a panic that ended the incident worker, its own or, by the
\* None of a results channel, that of another worker: while the server still
\* accepts, an alert can then be lost with the channel, uncounted.
AlertsSettled ==
  \A n \in 1..MaxAlerts :
    accepted >= n ~>
      \/ handled + dropped["incident"] >= n
      \/ panicked # {} /\ at = "done"

\* Once HTTP has drained, all three workers end, whatever the providers do,
\* however full the channels are, and whichever worker panicked and closed
\* its channels on the others (oncall-ai.rs:128).  A panic, too, ends the
\* incident worker: webhooks are then refused, not taken for nobody.
ShutdownCompletes ==
  /\ ~serving ~> (AllDone /\ cancelled)
  /\ panicked # {} ~> at = "done"

\* If the providers answer every call in the end, a question that was queued
\* is answered, given up, or overtaken by the shutdown or by a panic; no
\* channel fills up for good.
QuestionsEnd ==
  (\A w \in Workers : WF_vars(CallReturns(w))) =>
    \A w \in Workers, i \in IncidentIds :
      i \in asked[w] ~> (i \in Ended(w) \/ ~serving \/ panicked # {})
==============================================================================
