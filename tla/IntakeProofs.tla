----------------------------- MODULE IntakeProofs -----------------------------
(***************************************************************************)
(* Proofs about module Intake, for any number of requests, any bodies and  *)
(* any capacity.                                                           *)
(*                                                                         *)
(* That answered deliveries stay ahead is not a matter of the queue alone: *)
(* it rests on a handler answering only when it has sent all it holds, and *)
(* on what it holds being its own (Holdings).                              *)
(***************************************************************************)
EXTENDS Intake, FiniteSetTheorems, TLAPS

\* Alerts in transit, of which only the request they came with is looked at.
Messages(r) == [from : {r}, n : Nat, status : {"firing", "acknowledged",
                                              "resolved", "none"}]
AnyMessage == UNION {Messages(r) : r \in Requests}

\* The parts of the state the argument looks at, with their types.
Shape ==
  /\ phase \in [Requests -> {"unsent", "reading", "sending", "answered", "gone"}]
  /\ body \in [Requests -> (UNION {Bodies[r] : r \in Requests}) \union {NoBody}]
  /\ held \in [Requests -> Seq(AnyMessage)]
  /\ before \in [Requests -> SUBSET Requests]
  /\ entered \in Seq(AnyMessage)

\* A handler holds permits only while it sends, for alerts of its own
\* request; and nothing entered the channel for one that has not come.
Holdings ==
  \A r \in Requests :
    /\ phase[r] # "unsent" => body[r] \in Bodies[r]
    /\ held[r] # <<>> => phase[r] = "sending"
    /\ held[r] \in Seq(Messages(r))
    /\ \A n \in DOMAIN entered : entered[n].from = r => phase[r] # "unsent"

\* Only what was answered is ever remembered as answered.
Memory == \A r \in Requests : before[r] \subseteq Answered

IInv == Shape /\ Holdings /\ Memory /\ AnsweredIsAhead

\* The alerts of a body that can be read are a sequence of messages that
\* name its request (Grafana::parse, Pagerduty::parse).
LEMMA DeliveryIsOwn ==
  ASSUME NEW r \in Requests, body[r] \in Bodies[r],
         body[r].source \in Registry, Readable(body[r])
  PROVE  DeliveryOf(r) \in Seq(Messages(r))
  <1>1. body[r].items \in Seq(GrafanaAlerts \union PagerdutyEvents)
    <2>1. CASE body[r].source = "grafana"
      <3>1. body[r].items \in Seq(GrafanaAlerts)
        BY <2>1, BodiesAssumption DEF Readable
      <3> QED
        BY <3>1
    <2>2. CASE body[r].source = "pagerduty"
      <3>1. PICK e \in PagerdutyEvents : body[r].items = <<e>>
        BY <2>2, BodiesAssumption DEF Readable
      <3> QED
        BY <3>1
    <2> QED
      BY <2>1, <2>2 DEF Registry, Adapters
  <1>2. \A n \in DOMAIN body[r].items :
          StatusFor[body[r].items[n].kind]
            \in {"firing", "acknowledged", "resolved", "none"}
    <2> TAKE n \in DOMAIN body[r].items
    <2>1. body[r].items[n] \in GrafanaAlerts \union PagerdutyEvents
      BY <1>1
    <2>2. body[r].items[n].kind \in DOMAIN StatusFor
      BY <2>1 DEF GrafanaAlerts, PagerdutyEvents, StatusFor
    <2> QED
      BY <2>2 DEF StatusFor
  <1>3. /\ DOMAIN AlertsOf(body[r]) = 1..Len(AlertsOf(body[r]))
        /\ Len(AlertsOf(body[r])) \in Nat
        /\ \A n \in DOMAIN AlertsOf(body[r]) :
             AlertsOf(body[r])[n] \in {"firing", "acknowledged", "resolved", "none"}
    BY <1>1, <1>2 DEF AlertsOf
  <1> QED
    BY <1>3 DEF DeliveryOf, Messages

\* A handler that holds nothing more comes to its end, answered or gone.
LEMMA LeavingIInv ==
  ASSUME IInv, NEW r \in Requests, NEW end \in {"sending", "answered", "gone"},
         phase[r] \in {"reading", "sending"}, held[r] = <<>>,
         phase' = [phase EXCEPT ![r] = end],
         UNCHANGED <<body, held, before, entered>>
  PROVE  IInv'
  <1> USE DEF IInv
  <1>1. Shape'
    BY DEF Shape
  <1>2. Answered \subseteq Answered'
    BY DEF Answered, Shape
  <1>3. Memory'
    BY <1>2 DEF Memory
  <1>4. Holdings'
    BY DEF Holdings, Shape
  <1>5. AnsweredIsAhead'
    BY DEF AnsweredIsAhead
  <1> QED
    BY <1>1, <1>3, <1>4, <1>5

LEMMA ArriveIInv ==
  ASSUME IInv, NEW r \in Requests, NEW b \in Bodies[r], Arrive(r, b)
  PROVE  IInv'
  <1> USE DEF IInv
  <1>1. /\ phase[r] = "unsent"
        /\ phase' = [phase EXCEPT ![r] = "reading"]
        /\ body' = [body EXCEPT ![r] = b]
        /\ before' = [before EXCEPT ![r] = Answered]
        /\ UNCHANGED <<held, entered>>
    BY DEF Arrive, channel
  <1>2. Shape'
    BY <1>1 DEF Shape, Answered
  <1>3. Answered' = Answered
    BY <1>1 DEF Answered, Shape
  <1>4. Memory'
    BY <1>1, <1>3 DEF Memory, Shape
  <1>5. Holdings'
    BY <1>1 DEF Holdings, Shape
  <1>6. AnsweredIsAhead'
    \* Nothing of this request is in the channel yet.
    <2>1. \A n \in DOMAIN entered : entered[n].from # r
      BY <1>1 DEF Holdings
    <2>2. \A n \in DOMAIN entered : entered[n].from \in Requests
      BY DEF Shape, AnyMessage, Messages
    <2> QED
      BY <1>1, <2>1, <2>2 DEF AnsweredIsAhead, Shape
  <1> QED
    BY <1>2, <1>4, <1>5, <1>6

\* Up to the reservation: the handler answers, or it holds its delivery.
LEMMA HandleIInv ==
  ASSUME IInv, NEW r \in Requests, Handle(r)
  PROVE  IInv'
  <1> USE DEF IInv
  <1>1. phase[r] = "reading" /\ held[r] = <<>> /\ body[r] \in Bodies[r]
    BY DEF Handle, Holdings, Shape
  <1>2. UNCHANGED <<body, before, entered>>
    BY DEF Handle
  <1>3. CASE \E code : Respond(r, code)
    <2>1. phase' = [phase EXCEPT ![r] = "answered"] /\ held' = held
      BY <1>3 DEF Respond
    <2> QED
      BY <1>1, <1>2, <2>1, LeavingIInv
  <1>4. CASE /\ body[r].source \in Registry
             /\ Readable(body[r])
             /\ phase' = [phase EXCEPT ![r] = "sending"]
             /\ held' = [held EXCEPT ![r] = DeliveryOf(r)]
    <2>1. DeliveryOf(r) \in Seq(Messages(r))
      BY <1>1, <1>4, DeliveryIsOwn
    <2>2. DeliveryOf(r) \in Seq(AnyMessage)
      <3>1. Messages(r) \subseteq AnyMessage
        BY DEF AnyMessage
      <3> QED
        BY <2>1, <3>1
    <2>3. Shape'
      BY <1>2, <1>4, <2>2 DEF Shape
    <2>4. Holdings'
      BY <1>2, <1>4, <1>1, <2>1 DEF Holdings, Shape
    <2>5. Answered' = Answered
      BY <1>1, <1>4 DEF Answered, Shape
    <2>6. Memory' /\ AnsweredIsAhead'
      BY <1>2, <2>5 DEF Memory, AnsweredIsAhead
    <2> QED
      BY <2>3, <2>4, <2>6
  <1> QED
    BY <1>3, <1>4 DEF Handle, Reserve

LEMMA SendOneIInv ==
  ASSUME IInv, NEW r \in Requests, SendOne(r)
  PROVE  IInv'
  <1> USE DEF IInv
  <1> DEFINE m == Head(held[r])
  <1>1. /\ held[r] # <<>> /\ phase[r] = "sending"
        /\ held' = [held EXCEPT ![r] = Tail(held[r])]
        /\ UNCHANGED <<phase, body, before>>
    BY DEF SendOne, Holdings
  <1>2. /\ m \in Messages(r) /\ Tail(held[r]) \in Seq(Messages(r))
        /\ m \in AnyMessage /\ Tail(held[r]) \in Seq(AnyMessage)
    BY <1>1 DEF Holdings, Shape
  <1>3. m.from = r
    BY <1>2 DEF Messages
  <1>4. entered' = entered \/ entered' = Append(entered, m)
    BY DEF SendOne
  <1>5. /\ entered' \in Seq(AnyMessage)
        /\ \A n \in DOMAIN entered' :
             \/ n \in DOMAIN entered /\ entered'[n] = entered[n]
             \/ n = Len(entered) + 1 /\ entered'[n] = m
    <2>1. CASE entered' = entered
      BY <2>1 DEF Shape
    <2>2. CASE entered' = Append(entered, m)
      <3>1. entered \in Seq(AnyMessage) /\ m \in AnyMessage
        BY <1>2 DEF Shape
      <3> HIDE DEF m
      <3> QED
        BY <2>2, <3>1
    <2> QED
      BY <1>4, <2>1, <2>2
  <1>6. Shape'
    BY <1>1, <1>2, <1>5 DEF Shape
  <1>7. Holdings'
    BY <1>1, <1>2, <1>3, <1>5 DEF Holdings, Shape
  <1>8. Memory'
    BY <1>1 DEF Memory, Answered
  <1>9. AnsweredIsAhead'
    <2> SUFFICES ASSUME NEW i \in DOMAIN entered', NEW j \in DOMAIN entered',
                        entered'[i].from \in before[entered'[j].from]
                 PROVE  i < j
      BY <1>1 DEF AnsweredIsAhead
    \* This request is not answered: no other remembers it so.
    <2>1. entered'[i].from # r
      <3>1. entered'[j].from \in Requests
        BY <1>5 DEF AnyMessage, Messages
      <3>2. entered'[i].from \in Answered
        BY <3>1 DEF Memory
      <3> QED
        BY <3>2, <1>1 DEF Answered
    <2>2. i \in DOMAIN entered /\ entered'[i] = entered[i]
      BY <2>1, <1>3, <1>5
    <2>3. CASE j \in DOMAIN entered /\ entered'[j] = entered[j]
      BY <2>2, <2>3 DEF AnsweredIsAhead
    <2>4. CASE j = Len(entered) + 1
      BY <2>2, <2>4 DEF Shape
    <2> QED
      BY <1>5, <2>3, <2>4
  <1> QED
    BY <1>6, <1>7, <1>8, <1>9

\* Every step of a handler, of the worker and of the shutdown keeps the
\* invariant (webhook, src/webhook.rs:122).
THEOREM Invariance == Spec => []IInv
  <1>1. Init => IInv
    <2> SUFFICES ASSUME Init PROVE IInv
      OBVIOUS
    <2>1. Shape
      BY DEF Init, Shape
    <2>2. Holdings
      BY DEF Init, Holdings
    <2>3. Memory /\ AnsweredIsAhead
      BY DEF Init, Memory, AnsweredIsAhead
    <2> QED
      BY <2>1, <2>2, <2>3 DEF IInv
  <1>2. IInv /\ [Next]_vars => IInv'
    <2> SUFFICES ASSUME IInv, [Next]_vars PROVE IInv'
      OBVIOUS
    <2> USE DEF IInv
    \* Steps that leave alone all that the invariant looks at.
    <2>1. ASSUME UNCHANGED <<phase, body, held, before, entered>> PROVE IInv'
      BY <2>1 DEF Shape, Holdings, Memory, Answered, AnsweredIsAhead
    <2>2. ASSUME NEW r \in Requests, NEW b \in Bodies[r], Arrive(r, b)
          PROVE  IInv'
      BY <2>2, ArriveIInv
    <2>3. ASSUME NEW r \in Requests, HangUp(r) PROVE IInv'
      <3>1. /\ phase[r] = "reading" /\ phase' = [phase EXCEPT ![r] = "gone"]
            /\ UNCHANGED <<body, held, before, entered>>
        BY <2>3 DEF HangUp, channel
      <3>2. held[r] = <<>>
        BY <3>1 DEF Holdings
      <3> QED
        BY <3>1, <3>2, LeavingIInv
    <2>4. ASSUME NEW r \in Requests, Handle(r) PROVE IInv'
      BY <2>4, HandleIInv
    <2>5. ASSUME NEW r \in Requests, SendOne(r) PROVE IInv'
      BY <2>5, SendOneIInv
    <2>6. ASSUME NEW r \in Requests, Answer(r) PROVE IInv'
      <3>1. /\ phase[r] = "sending" /\ held[r] = <<>>
            /\ phase' = [phase EXCEPT ![r] = "answered"]
            /\ UNCHANGED <<body, held, before, entered>>
        BY <2>6 DEF Answer, channel
      <3> QED
        BY <3>1, LeavingIInv
    <2>7. CASE StopAccepting \/ StopServing \/ Take \/ WorkerEnds
      BY <2>1, <2>7 DEF StopAccepting, StopServing, Take, WorkerEnds, channel, request
    <2>8. CASE UNCHANGED vars
      BY <2>1, <2>8 DEF vars, channel, request
    <2> QED
      BY <2>2, <2>3, <2>4, <2>5, <2>6, <2>7, <2>8 DEF Next, Handler
  <1> QED
    BY <1>1, <1>2, PTL DEF Spec

\* What was answered before a request came is ahead, in the channel, of all
\* that request brings (webhook, src/webhook.rs:122).
THEOREM AnsweredStaysAhead == Spec => []AnsweredIsAhead
  BY Invariance, PTL DEF IInv

(***************************************************************************)
(* What is left to say of the state: the server, the answers, the permits  *)
(* and the part of each delivery that is in the channel.                   *)
(***************************************************************************)

Server ==
  /\ accepting \in BOOLEAN /\ serving \in BOOLEAN /\ open \in BOOLEAN
  /\ accepting => serving
  /\ \A r \in Requests : phase[r] \in {"reading", "sending"} => serving

Answers ==
  /\ status \in [Requests -> {0, 202, 400, 404, 413, 503}]
  /\ \A r \in Requests :
       /\ status[r] # 0 <=> phase[r] = "answered"
       /\ phase[r] = "unsent" => body[r] = NoBody
  /\ lost \subseteq Requests
  /\ open => lost = {}

Room ==
  /\ free \in 0..Capacity
  /\ queue \in Seq(AnyMessage)
  /\ Len(queue) <= Capacity
  /\ PermitsConserved

\* The places of what came with request r among all that entered, e.
Places(r, e) == {i \in DOMAIN e : e[i].from = r}

\* Of the delivery d of request r, h is left to send, and the rest is in e, in
\* order.
Part(r, d, h, e) ==
  /\ Len(h) <= Len(d)
  /\ \A n \in DOMAIN h : h[n] = d[Len(d) - Len(h) + n]
  /\ {e[i] : i \in Places(r, e)} = {d[n] : n \in 1..(Len(d) - Len(h))}
  /\ \A i, j \in Places(r, e) : i < j => e[i].n < e[j].n

\* Of a delivery that was accepted, what is not in the channel is held, and
\* of any other nothing is in the channel.
Accepted(r) == phase[r] = "sending" \/ status[r] = 202

Acceptable(b) == b.source \in Registry /\ Readable(b)

Share(r) ==
  IF Accepted(r)
  THEN /\ Acceptable(body[r]) /\ Len(DeliveryOf(r)) <= Capacity
       /\ Part(r, DeliveryOf(r), held[r], entered)
  ELSE Places(r, entered) = {}

Shares == \A r \in Requests \ lost : Share(r)

Rest == Server /\ Answers /\ Room /\ Shares

\* The alerts of a delivery are numbered, and all of them are signals
\* (status_for, src/pagerduty.rs; parse, src/grafana.rs).
LEMMA DeliveryShape ==
  ASSUME NEW r \in Requests, body[r] \in Bodies[r],
         body[r].source \in Registry, Readable(body[r])
  PROVE  /\ DeliveryOf(r) \in Seq(Messages(r))
         /\ \A n \in DOMAIN DeliveryOf(r) :
              /\ DeliveryOf(r)[n].from = r /\ DeliveryOf(r)[n].n = n
              /\ DeliveryOf(r)[n].status # "none"
         /\ Signals(body[r]) => DOMAIN DeliveryOf(r) = DOMAIN body[r].items
  <1>1. DeliveryOf(r) \in Seq(Messages(r))
    BY DeliveryIsOwn
  <1>2. \A n \in DOMAIN DeliveryOf(r) :
          DeliveryOf(r)[n] =
            [from |-> r, n |-> n, status |-> AlertsOf(body[r])[n]]
    BY DEF DeliveryOf
  <1>3. \A n \in DOMAIN AlertsOf(body[r]) : AlertsOf(body[r])[n] # "none"
    BY DEF AlertsOf, Signals
  <1>4. Signals(body[r]) => DOMAIN AlertsOf(body[r]) = DOMAIN body[r].items
    BY DEF AlertsOf
  <1>5. DOMAIN DeliveryOf(r) = DOMAIN AlertsOf(body[r])
    BY DEF DeliveryOf
  <1> QED
    BY <1>1, <1>2, <1>3, <1>4, <1>5

\* The permits that handlers hold for their alerts h.
PermitsFor(h) == UNION {{r} \X DOMAIN h[r] : r \in Requests}

LEMMA PermitsCounted ==
  ASSUME NEW r, NEW s \in Seq(AnyMessage)
  PROVE  /\ IsFiniteSet({r} \X DOMAIN s)
         /\ Cardinality({r} \X DOMAIN s) = Len(s)
  <1>1. Len(s) \in Nat /\ DOMAIN s = 1..Len(s)
    OBVIOUS
  <1>2. IsFiniteSet(1..Len(s)) /\ Cardinality(1..Len(s)) = Len(s)
    BY <1>1, FS_Interval, SMTT(30)
  <1>3. IsFiniteSet({r}) /\ Cardinality({r}) = 1
    BY FS_Singleton
  <1>4. /\ IsFiniteSet({r} \X (1..Len(s)))
        /\ Cardinality({r} \X (1..Len(s))) = 1 * Len(s)
    BY <1>2, <1>3, FS_Product, ZenonT(40)
  <1>5. 1 * Len(s) = Len(s)
    <2>1. \A n \in Nat : 1 * n = n
      OBVIOUS
    <2> QED
      BY <1>1, <2>1
  <1>6. {r} \X DOMAIN s = {r} \X (1..Len(s))
    BY <1>1
  <1> QED
    BY <1>4, <1>5, <1>6

LEMMA PermitsFinite ==
  ASSUME NEW h \in [Requests -> Seq(AnyMessage)]
  PROVE  IsFiniteSet(PermitsFor(h)) /\ Cardinality(PermitsFor(h)) \in Nat
  <1> DEFINE f == [r \in Requests |-> {r} \X DOMAIN h[r]]
             all == {{r} \X DOMAIN h[r] : r \in Requests}
  <1>1. \A S \in all : IsFiniteSet(S)
    BY PermitsCounted
  <1>2. f \in Surjection(Requests, all)
    BY DEF Surjection
  <1> HIDE DEF f
  <1>3. IsFiniteSet(all)
    BY <1>2, IntakeAssumption, FS_Surjection
  <1>4. IsFiniteSet(UNION all)
    BY <1>1, <1>3, FS_UNION
  <1> QED
    BY <1>4, FS_CardinalityType DEF PermitsFor

\* The permits held when those of one handler change in number.
LEMMA PermitsChange ==
  ASSUME NEW g \in [Requests -> Seq(AnyMessage)],
         NEW h \in [Requests -> Seq(AnyMessage)], NEW r \in Requests,
         \A q \in Requests \ {r} : h[q] = g[q]
  PROVE  Cardinality(PermitsFor(h)) + Len(g[r]) =
           Cardinality(PermitsFor(g)) + Len(h[r])
  <1> DEFINE others == UNION {{q} \X DOMAIN g[q] : q \in Requests \ {r}}
  <1>1. /\ PermitsFor(g) = others \cup ({r} \X DOMAIN g[r])
        /\ PermitsFor(h) = others \cup ({r} \X DOMAIN h[r])
        /\ others \cap ({r} \X DOMAIN g[r]) = {}
        /\ others \cap ({r} \X DOMAIN h[r]) = {}
    BY DEF PermitsFor
  <1> HIDE DEF others
  <1>2. IsFiniteSet(others) /\ Cardinality(others) \in Nat
    BY <1>1, PermitsFinite, FS_Subset, FS_CardinalityType
  <1>3. ASSUME NEW s \in Seq(AnyMessage), others \cap ({r} \X DOMAIN s) = {}
        PROVE  Cardinality(others \cup ({r} \X DOMAIN s)) =
                 Cardinality(others) + Len(s)
    <2>1. /\ IsFiniteSet({r} \X DOMAIN s)
          /\ Cardinality({r} \X DOMAIN s) = Len(s)
      BY PermitsCounted
    <2>2. Cardinality(others \cup ({r} \X DOMAIN s)) =
            Cardinality(others) + Cardinality({r} \X DOMAIN s)
              - Cardinality(others \cap ({r} \X DOMAIN s))
      BY <1>2, <2>1, FS_Union
    <2>3. Cardinality(others \cap ({r} \X DOMAIN s)) = 0
      BY <1>3, FS_EmptySet
    <2> QED
      BY <1>2, <2>1, <2>2, <2>3
  <1>4. /\ Cardinality(PermitsFor(g)) = Cardinality(others) + Len(g[r])
        /\ Cardinality(PermitsFor(h)) = Cardinality(others) + Len(h[r])
    BY <1>1, <1>3
  <1>5. Len(g[r]) \in Nat /\ Len(h[r]) \in Nat
    OBVIOUS
  <1> QED
    BY <1>2, <1>4, <1>5

\* Nothing is held at first.
LEMMA NoPermits ==
  ASSUME \A r \in Requests : held[r] = <<>>
  PROVE  Cardinality(Held) = 0
  <1>1. Held = {}
    BY DEF Held
  <1> QED
    BY <1>1, FS_EmptySet

LEMMA InitRest == Init => Rest
  <1> SUFFICES ASSUME Init PROVE Rest
    OBVIOUS
  <1>1. Server
    BY DEF Init, Server
  <1>2. Answers
    BY DEF Init, Answers
  <1>3. Room
    <2>1. Capacity \in Nat
      BY IntakeAssumption
    <2>2. Cardinality(Held) = 0
      BY NoPermits DEF Init
    <2>3. <<>> \in Seq(AnyMessage) /\ Len(<<>>) = 0
      OBVIOUS
    <2> QED
      BY <2>1, <2>2, <2>3 DEF Init, Room, PermitsConserved
  <1>4. Shares
    BY DEF Init, Shares, Share, Accepted, Places
  <1> QED
    BY <1>1, <1>2, <1>3, <1>4 DEF Rest

LEMMA NextServer ==
  ASSUME IInv, Server, Next
  PROVE  Server'
  <1>1. ASSUME NEW r \in Requests, Handler(r)
        PROVE  Server'
    <2>1. UNCHANGED <<accepting, serving, open>>
      BY <1>1 DEF Handler, Arrive, HangUp, Handle, SendOne, Answer, channel
    <2>2. \A q \in Requests : phase'[q] \in {"reading", "sending"} =>
            phase[q] \in {"reading", "sending"} \/ accepting
      BY <1>1 DEF Handler, Arrive, HangUp, Handle, Reserve, Respond, SendOne,
                  Answer, channel, IInv, Shape
    <2> QED
      BY <2>1, <2>2 DEF Server
  <1>2. CASE StopServing
    BY <1>2 DEF StopServing, channel, request, Server, InFlight
  <1>3. CASE StopAccepting
    BY <1>3 DEF StopAccepting, channel, request, Server
  <1>4. CASE Take
    BY <1>4 DEF Take, request, Server
  <1>5. CASE WorkerEnds
    BY <1>5 DEF WorkerEnds, request, Server
  <1> QED
    BY <1>1, <1>2, <1>3, <1>4, <1>5 DEF Next

LEMMA NextAnswers ==
  ASSUME IInv, Answers, Next
  PROVE  Answers'
  <1>1. ASSUME NEW r \in Requests, Handle(r)
        PROVE  Answers'
    <2>1. /\ UNCHANGED <<open, body, lost>> /\ phase[r] = "reading"
          /\ \/ \E code \in {400, 404, 413, 503} :
                  /\ phase' = [phase EXCEPT ![r] = "answered"]
                  /\ status' = [status EXCEPT ![r] = code]
             \/ /\ phase' = [phase EXCEPT ![r] = "sending"]
                /\ UNCHANGED status
      BY <1>1 DEF Handle, Reserve, Respond
    <2>2. CASE /\ phase' = [phase EXCEPT ![r] = "sending"]
               /\ UNCHANGED status
      BY <2>1, <2>2 DEF Answers, IInv, Shape
    <2>3. ASSUME NEW code \in {400, 404, 413, 503},
                 phase' = [phase EXCEPT ![r] = "answered"],
                 status' = [status EXCEPT ![r] = code]
          PROVE  Answers'
      BY <2>1, <2>3 DEF Answers, IInv, Shape
    <2> QED
      BY <2>1, <2>2, <2>3
  <1>2. ASSUME NEW r \in Requests, SendOne(r)
        PROVE  Answers'
    BY <1>2 DEF SendOne, Answers
  <1>3. ASSUME NEW r \in Requests, Answer(r)
        PROVE  Answers'
    BY <1>3 DEF Answer, Answers, IInv, Shape, channel
  <1>4. ASSUME NEW r \in Requests,
               HangUp(r) \/ \E b \in Bodies[r] : Arrive(r, b)
        PROVE  Answers'
    BY <1>4 DEF HangUp, Arrive, Answers, IInv, Shape, channel
  <1>5. CASE StopAccepting \/ StopServing \/ Take \/ WorkerEnds
    BY <1>5 DEF StopAccepting, StopServing, Take, WorkerEnds, channel,
                request, Answers
  <1> QED
    BY <1>1, <1>2, <1>3, <1>4, <1>5 DEF Next, Handler

\* Room for what is taken on, and for what is sent, was reserved before.
LEMMA NextRoom ==
  ASSUME IInv, IInv', Answers, Room, Next
  PROVE  Room'
  <1> USE DEF Room
  <1>1. /\ Shape /\ Shape' /\ Capacity \in Nat
        /\ Held = PermitsFor(held) /\ Held' = PermitsFor(held')
        /\ Cardinality(Held) \in Nat /\ Cardinality(Held') \in Nat
    <2>1. Shape /\ Shape'
      BY DEF IInv
    <2>2. Held = PermitsFor(held) /\ Held' = PermitsFor(held')
      BY DEF Held, PermitsFor
    <2>3. /\ Cardinality(PermitsFor(held)) \in Nat
          /\ Cardinality(PermitsFor(held')) \in Nat
      BY <2>1, PermitsFinite DEF Shape
    <2> QED
      BY <2>1, <2>2, <2>3, IntakeAssumption
  <1>2. ASSUME UNCHANGED <<open, free, queue, held>>
        PROVE  Room'
    BY <1>2 DEF PermitsConserved, Held
  <1>3. ASSUME NEW r \in Requests,
               HangUp(r) \/ Answer(r) \/ \E b \in Bodies[r] : Arrive(r, b)
        PROVE  Room'
    BY <1>2, <1>3 DEF HangUp, Answer, Arrive, channel
  <1>4. ASSUME NEW r \in Requests, Handle(r)
        PROVE  Room'
    <2>1. CASE \E code : Respond(r, code)
      BY <1>2, <1>4, <2>1 DEF Handle, Respond
    <2>2. CASE /\ open /\ Len(DeliveryOf(r)) <= free
               /\ held' = [held EXCEPT ![r] = DeliveryOf(r)]
               /\ free' = free - Len(DeliveryOf(r))
      <3>1. held[r] = <<>> /\ Len(held[r]) = 0
        BY <1>4 DEF Handle, IInv, Holdings
      <3>2. held'[r] = DeliveryOf(r) /\ Len(held'[r]) \in Nat
        BY <1>1, <2>2 DEF Shape
      <3>3. Cardinality(Held') = Cardinality(Held) + Len(held'[r])
        <4>1. Cardinality(Held') + Len(held[r]) =
                Cardinality(Held) + Len(held'[r])
          BY <1>1, <2>2, PermitsChange DEF Shape
        <4> QED
          BY <1>1, <3>1, <4>1
      <3>4. UNCHANGED <<open, queue>>
        BY <1>4 DEF Handle
      <3>5. Len(queue) \in Nat
        OBVIOUS
      <3> QED
        BY <1>1, <2>2, <3>2, <3>3, <3>4, <3>5, SMTT(30) DEF PermitsConserved
    <2> QED
      BY <1>4, <2>1, <2>2 DEF Handle, Reserve
  <1>5. ASSUME NEW r \in Requests, SendOne(r)
        PROVE  Room'
    <2>1. /\ held[r] # <<>> /\ held' = [held EXCEPT ![r] = Tail(@)]
          /\ UNCHANGED <<open, free>>
      BY <1>5 DEF SendOne
    <2>2. /\ held[r] \in Seq(AnyMessage) /\ Head(held[r]) \in AnyMessage
          /\ held'[r] = Tail(held[r])
          /\ Len(held[r]) = Len(held'[r]) + 1 /\ Len(held'[r]) \in Nat
      BY <1>1, <2>1 DEF Shape
    <2>3. Cardinality(Held') + 1 = Cardinality(Held)
      <3>1. Cardinality(Held') + Len(held[r]) =
              Cardinality(Held) + Len(held'[r])
        BY <1>1, <2>1, PermitsChange DEF Shape
      <3> QED
        BY <1>1, <2>2, <3>1, SMTT(30)
    <2>4. CASE open
      <3>1. queue' = Append(queue, Head(held[r]))
        BY <1>5, <2>4 DEF SendOne
      <3>2. /\ queue' \in Seq(AnyMessage) /\ Len(queue') = Len(queue) + 1
            /\ Len(queue) \in Nat
        BY <2>2, <3>1
      <3>3. free' + Len(queue') + Cardinality(Held') = Capacity
        BY <1>1, <2>1, <2>3, <2>4, <3>2 DEF PermitsConserved
      <3>4. Len(queue') <= Capacity
        BY <1>1, <2>1, <3>2, <3>3
      <3> QED
        BY <2>1, <3>2, <3>3, <3>4 DEF PermitsConserved
    <2>5. CASE ~open
      BY <1>5, <2>1, <2>5 DEF SendOne, PermitsConserved
    <2> QED
      BY <2>4, <2>5
  <1>6. CASE Take
    <2>1. /\ open /\ open' = open /\ queue # <<>> /\ queue' = Tail(queue)
          /\ free' = free + 1 /\ UNCHANGED held
      BY <1>6 DEF Take, request
    <2>2. /\ queue' \in Seq(AnyMessage) /\ Len(queue') + 1 = Len(queue)
          /\ Len(queue') \in Nat
      BY <2>1
    <2>3. Cardinality(Held') = Cardinality(Held)
      BY <2>1 DEF Held
    <2> QED
      BY <1>1, <2>1, <2>2, <2>3 DEF PermitsConserved
  <1>7. CASE WorkerEnds
    <2>1. <<>> \in Seq(AnyMessage) /\ Len(<<>>) = 0
      OBVIOUS
    <2> QED
      BY <1>1, <1>7, <2>1 DEF WorkerEnds, PermitsConserved
  <1>8. CASE StopAccepting \/ StopServing
    BY <1>2, <1>8 DEF StopAccepting, StopServing, channel, request
  <1> QED
    BY <1>3, <1>4, <1>5, <1>6, <1>7, <1>8 DEF Next, Handler

\* All of a delivery is held, and none of it in the channel.
LEMMA WholePart ==
  ASSUME NEW r, NEW S, NEW d \in Seq(S), NEW e, Places(r, e) = {}
  PROVE  Part(r, d, d, e)
  <1>1. /\ Len(d) \in Nat /\ Len(d) - Len(d) = 0
        /\ \A n \in DOMAIN d : d[n] = d[0 + n]
    OBVIOUS
  <1>2. 1..0 = {}
    OBVIOUS
  <1> QED
    BY <1>1, <1>2 DEF Part

\* Another request's alert leaves the places of this one.
LEMMA PlacesAppend ==
  ASSUME NEW e \in Seq(AnyMessage), NEW m \in AnyMessage, NEW r
  PROVE  /\ \A i \in Places(r, e) : Append(e, m)[i] = e[i] /\ i <= Len(e)
         /\ Places(r, e) \subseteq Nat /\ Len(e) + 1 \in Nat
         /\ m.from # r => Places(r, Append(e, m)) = Places(r, e)
         /\ m.from = r =>
              /\ Places(r, Append(e, m)) = Places(r, e) \cup {Len(e) + 1}
              /\ Append(e, m)[Len(e) + 1] = m
  <1> DEFINE f == Append(e, m)
  <1>1. /\ DOMAIN f = 1..(Len(e) + 1) /\ DOMAIN e = 1..Len(e)
        /\ Len(e) \in Nat /\ f[Len(e) + 1] = m
        /\ \A i \in DOMAIN e : f[i] = e[i]
    OBVIOUS
  <1> HIDE DEF f
  <1> QED
    BY <1>1 DEF Places, f

LEMMA PlacesElsewhere ==
  ASSUME NEW e \in Seq(AnyMessage), NEW m \in AnyMessage, NEW r, m.from # r
  PROVE  /\ Places(r, Append(e, m)) = Places(r, e)
         /\ \A i \in Places(r, e) : Append(e, m)[i] = e[i]
  <1>1. m.from # r => Places(r, Append(e, m)) = Places(r, e)
    BY PlacesAppend
  <1>2. \A i \in Places(r, e) : Append(e, m)[i] = e[i] /\ i <= Len(e)
    BY PlacesAppend
  <1> QED
    BY <1>1, <1>2

\* The next alert of a delivery follows those sent before.
LEMMA NextPart ==
  ASSUME NEW r, NEW d \in Seq(AnyMessage), NEW h \in Seq(AnyMessage),
         NEW e \in Seq(AnyMessage),
         \A n \in DOMAIN d : d[n].from = r /\ d[n].n = n,
         h # <<>>, Part(r, d, h, e)
  PROVE  Part(r, d, Tail(h), Append(e, Head(h)))
  <1> DEFINE k == Len(d) - Len(h)
             m == Head(h)
             t == Tail(h)
             f == Append(e, m)
  <1>1. /\ Len(h) <= Len(d)
        /\ \A n \in DOMAIN h : h[n] = d[k + n]
        /\ {e[i] : i \in Places(r, e)} = {d[n] : n \in 1..k}
        /\ \A i, j \in Places(r, e) : i < j => e[i].n < e[j].n
    BY DEF Part
  <1>2. /\ Len(h) \in Nat \ {0} /\ DOMAIN h = 1..Len(h) /\ m = h[1]
        /\ DOMAIN t = 1..(Len(h) - 1) /\ Len(t) = Len(h) - 1
        /\ \A n \in DOMAIN t : t[n] = h[n + 1]
        /\ Len(d) \in Nat /\ DOMAIN d = 1..Len(d) /\ m \in AnyMessage
    OBVIOUS
  <1>3. k \in Nat /\ Len(d) - Len(t) = k + 1 /\ k + 1 \in DOMAIN d
    BY <1>1, <1>2
  <1> HIDE DEF k, m, t
  <1>4. m = d[k + 1] /\ m.from = r /\ m.n = k + 1
    BY <1>1, <1>2, <1>3, SMTT(30)
  <1>5. ASSUME NEW n \in DOMAIN t
        PROVE  t[n] = d[k + 1 + n]
    <2>1. n + 1 \in DOMAIN h /\ t[n] = h[n + 1] /\ n \in Nat
      BY <1>2
    <2>2. k + (n + 1) = k + 1 + n
      BY <1>3, <2>1
    <2> QED
      BY <1>1, <2>1, <2>2
  <1>6. /\ \A i \in Places(r, e) : f[i] = e[i] /\ i <= Len(e)
        /\ Places(r, e) \subseteq Nat /\ Len(e) + 1 \in Nat
        /\ Places(r, f) = Places(r, e) \cup {Len(e) + 1}
        /\ f[Len(e) + 1] = m
    <2>1. m \in AnyMessage /\ m.from = r
      BY <1>2, <1>4
    <2>2. /\ \A i \in Places(r, e) : Append(e, m)[i] = e[i] /\ i <= Len(e)
          /\ Places(r, e) \subseteq Nat /\ Len(e) + 1 \in Nat
          /\ m.from = r =>
               /\ Places(r, Append(e, m)) = Places(r, e) \cup {Len(e) + 1}
               /\ Append(e, m)[Len(e) + 1] = m
      BY <2>1, PlacesAppend
    <2> QED
      BY <2>1, <2>2
  <1> HIDE DEF f
  <1>7. {f[i] : i \in Places(r, f)} = {d[n] : n \in 1..(k + 1)}
    <2>1. {f[i] : i \in Places(r, e)} = {d[n] : n \in 1..k}
      <3>1. {f[i] : i \in Places(r, e)} = {e[i] : i \in Places(r, e)}
        BY <1>6, SMTT(30)
      <3> QED
        BY <1>1, <3>1
    <2>2. {f[i] : i \in Places(r, f)} = {f[i] : i \in Places(r, e)} \cup {m}
      BY <1>6
    <2>3. 1..(k + 1) = 1..k \cup {k + 1}
      BY <1>3
    <2> QED
      BY <1>4, <2>1, <2>2, <2>3
  <1>8. ASSUME NEW i \in Places(r, f), NEW j \in Places(r, f), i < j
        PROVE  f[i].n < f[j].n
    <2>1. i \in Places(r, e)
      BY <1>6, <1>8
    <2>2. CASE j \in Places(r, e)
      BY <1>1, <1>6, <1>8, <2>1, <2>2
    <2>3. CASE j = Len(e) + 1
      <3>1. PICK n \in 1..k : e[i] = d[n]
        <4>1. e[i] \in {e[l] : l \in Places(r, e)}
          BY <2>1
        <4>2. e[i] \in {d[n] : n \in 1..k}
          BY <1>1, <4>1
        <4> QED
          BY <4>2
      <3>2. n \in DOMAIN d /\ n < k + 1
        BY <1>2, <1>3, <3>1
      <3>3. f[i].n = n
        BY <1>6, <2>1, <3>1, <3>2
      <3> QED
        BY <1>4, <1>6, <2>3, <3>2, <3>3
    <2> QED
      BY <1>6, <2>2, <2>3
  <1>9. Len(t) <= Len(d)
    BY <1>1, <1>2
  <1> QED
    BY <1>3, <1>5, <1>7, <1>8, <1>9 DEF Part, t, f, m

\* The share of a request that a step does not touch.
LEMMA ShareKept ==
  ASSUME NEW r, Share(r), Accepted(r)' <=> Accepted(r),
         body'[r] = body[r], held'[r] = held[r],
         Places(r, entered') = Places(r, entered),
         \A i \in Places(r, entered) : entered'[i] = entered[i]
  PROVE  Share(r)'
  <1>1. DeliveryOf(r)' = DeliveryOf(r)
    BY DEF DeliveryOf
  <1>2. {entered'[i] : i \in Places(r, entered)} =
          {entered[i] : i \in Places(r, entered)}
    OBVIOUS
  <1>3. Part(r, DeliveryOf(r), held[r], entered) =>
          Part(r, DeliveryOf(r), held[r], entered')
    BY <1>2 DEF Part
  <1>4. Acceptable(body'[r]) <=> Acceptable(body[r])
    OBVIOUS
  <1> QED
    BY <1>1, <1>3, <1>4 DEF Share

LEMMA NextShares ==
  ASSUME IInv, Rest, Next, Answers'
  PROVE  Shares'
  <1>1. /\ Shape /\ Holdings /\ Answers /\ Room /\ Shares /\ Answers'
        /\ Capacity \in Nat
    BY IntakeAssumption DEF IInv, Rest
  <1>2. ASSUME NEW r \in Requests,
               \A q \in Requests \ {r} :
                 /\ Accepted(q)' <=> Accepted(q)
                 /\ body'[q] = body[q] /\ held'[q] = held[q],
               UNCHANGED entered, lost' = lost, r \notin lost => Share(r)'
        PROVE  Shares'
    BY <1>1, <1>2, ShareKept DEF Shares
  <1>3. ASSUME NEW r \in Requests, NEW b \in Bodies[r], Arrive(r, b)
        PROVE  Shares'
    <2>1. /\ phase[r] = "unsent" /\ status[r] = 0
          /\ phase' = [phase EXCEPT ![r] = "reading"]
          /\ body' = [body EXCEPT ![r] = b]
          /\ UNCHANGED <<held, status, entered, lost>>
      BY <1>1, <1>3 DEF Arrive, channel, Answers
    <2>2. \A q \in Requests \ {r} :
            /\ Accepted(q)' <=> Accepted(q)
            /\ body'[q] = body[q] /\ held'[q] = held[q]
      BY <1>1, <2>1 DEF Accepted, Shape
    <2>3. Share(r)'
      BY <1>1, <2>1 DEF Share, Accepted, Shape, Holdings, Places
    <2> QED
      BY <1>2, <2>1, <2>2, <2>3
  <1>4. ASSUME NEW r \in Requests, HangUp(r)
        PROVE  Shares'
    <2>1. /\ phase[r] = "reading" /\ status[r] = 0
          /\ phase' = [phase EXCEPT ![r] = "gone"]
          /\ UNCHANGED <<body, held, status, entered, lost>>
      BY <1>1, <1>4 DEF HangUp, channel, Answers
    <2>2. \A q \in Requests \ {r} :
            /\ Accepted(q)' <=> Accepted(q)
            /\ body'[q] = body[q] /\ held'[q] = held[q]
      BY <1>1, <2>1 DEF Accepted, Shape
    <2>3. r \notin lost => Share(r)'
      BY <1>1, <2>1 DEF Share, Shares, Accepted, Shape
    <2> QED
      BY <1>2, <2>1, <2>2, <2>3
  <1>5. ASSUME NEW r \in Requests, Handle(r)
        PROVE  Shares'
    <2>1. /\ phase[r] = "reading" /\ status[r] = 0
          /\ UNCHANGED <<body, entered, lost>>
      BY <1>1, <1>5 DEF Handle, Answers
    <2>2. ASSUME NEW code \in {400, 404, 413, 503}, Respond(r, code)
          PROVE  Shares'
      <3>1. /\ phase' = [phase EXCEPT ![r] = "answered"]
            /\ status' = [status EXCEPT ![r] = code]
            /\ UNCHANGED held
        BY <2>2 DEF Respond
      <3>2. \A q \in Requests \ {r} :
              /\ Accepted(q)' <=> Accepted(q)
              /\ body'[q] = body[q] /\ held'[q] = held[q]
        BY <1>1, <2>1, <3>1 DEF Accepted, Shape, Answers
      <3>3. r \notin lost => Share(r)'
        BY <1>1, <2>1, <3>1 DEF Share, Shares, Accepted, Shape, Answers
      <3> QED
        BY <1>2, <2>1, <3>2, <3>3
    <2>3. CASE /\ Acceptable(body[r]) /\ Len(DeliveryOf(r)) <= free
               /\ phase' = [phase EXCEPT ![r] = "sending"]
               /\ held' = [held EXCEPT ![r] = DeliveryOf(r)]
               /\ UNCHANGED status
      <3>1. \A q \in Requests \ {r} :
              /\ Accepted(q)' <=> Accepted(q)
              /\ body'[q] = body[q] /\ held'[q] = held[q]
        BY <1>1, <2>1, <2>3 DEF Accepted, Shape
      <3>2. r \notin lost => Places(r, entered) = {}
        BY <1>1, <2>1 DEF Share, Shares, Accepted
      <3>3. DeliveryOf(r) \in Seq(Messages(r)) /\ DeliveryOf(r)' = DeliveryOf(r)
        BY <1>1, <2>1, <2>3, DeliveryShape
           DEF Holdings, Acceptable, DeliveryOf
      <3>4. r \notin lost => Part(r, DeliveryOf(r), DeliveryOf(r), entered)
        BY <3>2, <3>3, WholePart
      <3>5. Len(DeliveryOf(r)) <= Capacity
        BY <1>1, <2>3, <3>3 DEF Room
      <3>6. /\ Accepted(r)' /\ held'[r] = DeliveryOf(r)
            /\ body'[r] = body[r] /\ entered' = entered
        BY <1>1, <2>1, <2>3 DEF Accepted, Shape
      <3>7. r \notin lost => Share(r)'
        BY <2>3, <3>3, <3>4, <3>5, <3>6 DEF Share
      <3> QED
        BY <1>2, <2>1, <3>1, <3>7
    <2> QED
      BY <1>5, <2>2, <2>3 DEF Handle, Reserve, Acceptable
  <1>6. ASSUME NEW r \in Requests, SendOne(r)
        PROVE  Shares'
    <2>1. /\ held[r] # <<>> /\ held' = [held EXCEPT ![r] = Tail(@)]
          /\ UNCHANGED <<phase, body, status>> /\ Accepted(r)
      BY <1>1, <1>6 DEF SendOne, Holdings, Accepted
    <2>2. \A q \in Requests : /\ Accepted(q)' <=> Accepted(q)
                              /\ body'[q] = body[q]
                              /\ q # r => held'[q] = held[q]
      BY <1>1, <2>1 DEF Accepted, Shape
    <2>3. CASE open
      <3> DEFINE m == Head(held[r])
      <3>1. /\ entered' = Append(entered, m) /\ lost = {} /\ lost' = lost
        BY <1>1, <1>6, <2>3 DEF SendOne, Answers
      <3>2. /\ held[r] \in Seq(Messages(r)) /\ held[r] \in Seq(AnyMessage)
            /\ m \in Messages(r) /\ m \in AnyMessage
            /\ entered \in Seq(AnyMessage)
            /\ held'[r] = Tail(held[r])
        BY <1>1, <2>1 DEF Shape, Holdings
      <3>3. m.from = r
        BY <3>2 DEF Messages
      <3> HIDE DEF m
      <3>4. ASSUME NEW q \in Requests, q # r
            PROVE  Share(q)'
        <4>1. /\ Places(q, Append(entered, m)) = Places(q, entered)
              /\ \A i \in Places(q, entered) :
                   Append(entered, m)[i] = entered[i]
          <5>1. m.from # q
            BY <3>3, <3>4
          <5>2. entered \in Seq(AnyMessage) /\ m \in AnyMessage
            BY <3>2
          <5> QED
            BY <5>1, <5>2, PlacesElsewhere
        <4>2. /\ Places(q, entered') = Places(q, entered)
              /\ \A i \in Places(q, entered) : entered'[i] = entered[i]
          BY <3>1, <4>1
        <4> QED
          BY <1>1, <2>2, <3>1, <3>4, <4>2, ShareKept DEF Shares
      <3>5. Share(r)'
        <4>1. /\ Acceptable(body[r]) /\ Len(DeliveryOf(r)) <= Capacity
              /\ Part(r, DeliveryOf(r), held[r], entered)
          BY <1>1, <2>1, <3>1 DEF Shares, Share
        <4>2. body[r] \in Bodies[r]
          BY <1>1, <2>1 DEF Holdings
        <4>3. /\ DeliveryOf(r) \in Seq(Messages(r))
              /\ \A n \in DOMAIN DeliveryOf(r) :
                   DeliveryOf(r)[n].from = r /\ DeliveryOf(r)[n].n = n
              /\ DeliveryOf(r)' = DeliveryOf(r)
          BY <2>1, <4>1, <4>2, DeliveryShape DEF Acceptable, DeliveryOf
        <4>4. DeliveryOf(r) \in Seq(AnyMessage)
          <5>1. Messages(r) \subseteq AnyMessage
            BY DEF AnyMessage
          <5> QED
            BY <4>3, <5>1
        <4>5. Part(r, DeliveryOf(r), Tail(held[r]), Append(entered, m))
          BY <2>1, <3>2, <4>1, <4>3, <4>4, NextPart DEF m
        <4> QED
          BY <2>1, <2>2, <3>1, <3>2, <4>1, <4>3, <4>5 DEF Share
      <3> QED
        BY <3>4, <3>5 DEF Shares
    <2>4. CASE ~open
      <3>1. entered' = entered /\ lost' = lost \cup {r}
        BY <1>6, <2>4 DEF SendOne
      <3> QED
        BY <1>1, <2>2, <3>1, ShareKept DEF Shares
    <2> QED
      BY <2>3, <2>4
  <1>7. ASSUME NEW r \in Requests, Answer(r)
        PROVE  Shares'
    <2>1. /\ phase[r] = "sending" /\ held' = held
          /\ phase' = [phase EXCEPT ![r] = "answered"]
          /\ status' = [status EXCEPT ![r] = 202]
          /\ UNCHANGED <<body, entered, lost>>
      BY <1>7 DEF Answer, channel
    <2>2. \A q \in Requests : Accepted(q)' <=> Accepted(q)
      BY <1>1, <2>1 DEF Accepted, Shape, Answers
    <2> QED
      BY <1>1, <2>1, <2>2, ShareKept DEF Shares
  <1>8. CASE StopAccepting \/ StopServing \/ Take \/ WorkerEnds
    <2>1. UNCHANGED <<phase, body, held, status, entered, lost>>
      BY <1>8 DEF StopAccepting, StopServing, Take, WorkerEnds, channel,
                  request
    <2> QED
      BY <1>1, <2>1, ShareKept DEF Shares, Accepted
  <1> QED
    BY <1>3, <1>4, <1>5, <1>6, <1>7, <1>8 DEF Next, Handler


\* Every step keeps what the types, the permits and the deliveries rest on
\* (webhook, src/webhook.rs:77).
THEOREM RestInvariance == Spec => []Rest
  <1>1. IInv /\ IInv' /\ Rest /\ [Next]_vars => Rest'
    <2> SUFFICES ASSUME IInv, IInv', Rest, [Next]_vars PROVE Rest'
      OBVIOUS
    <2>1. CASE Next
      <3>1. Server' /\ Answers' /\ Room'
        BY <2>1, NextServer, NextAnswers, NextRoom DEF Rest
      <3>2. Shares'
        BY <2>1, <3>1, NextShares
      <3> QED
        BY <3>1, <3>2 DEF Rest
    <2>2. CASE UNCHANGED vars
      <3>1. /\ Server' /\ Answers'
            /\ UNCHANGED <<free, queue, open, held, body, phase, status,
                           entered, lost>>
        BY <2>2 DEF vars, channel, request, Rest, Server, Answers
      <3>2. Room'
        BY <3>1 DEF Rest, Room, PermitsConserved, Held
      <3>3. Shares'
        BY <3>1, ShareKept DEF Rest, Shares, Accepted
      <3> QED
        BY <3>1, <3>2, <3>3 DEF Rest
    <2> QED
      BY <2>1, <2>2
  <1> QED
    BY <1>1, InitRest, Invariance, PTL DEF Spec

\* The types of the state: a request is answered when and only when it has a
\* status, and it holds room only while it sends (webhook, src/webhook.rs:77).
THEOREM TypeCorrect == Spec => []TypeOK
  <1>1. IInv /\ Rest => TypeOK
    <2> SUFFICES ASSUME IInv, Rest PROVE TypeOK
      OBVIOUS
    <2>1. /\ accepting \in BOOLEAN /\ serving \in BOOLEAN /\ open \in BOOLEAN
          /\ accepting => serving
      BY DEF Rest, Server
    <2>2. free \in 0..Capacity /\ Len(queue) <= Capacity
      BY DEF Rest, Room
    <2>3. ASSUME NEW r \in Requests
          PROVE  /\ phase[r] \in {"unsent", "reading", "sending", "answered",
                                  "gone"}
                 /\ body[r] \in Bodies[r] \cup {NoBody}
                 /\ held[r] # <<>> => phase[r] = "sending"
                 /\ status[r] \in {0, 202, 400, 404, 413, 503}
                 /\ (status[r] # 0) = (phase[r] = "answered")
      BY <2>3 DEF IInv, Shape, Holdings, Rest, Answers
    <2> QED
      BY <2>1, <2>2, <2>3 DEF TypeOK, Rest, Answers
  <1> QED
    BY <1>1, Invariance, RestInvariance, PTL

\* No refusal and no interleaving of deliveries loses room in the channel or
\* makes some that is not there (try_reserve_many, src/webhook.rs:120).
THEOREM RoomConserved == Spec => []PermitsConserved
  BY RestInvariance, PTL DEF Rest, Room

\* An accepted delivery is in the channel as a whole, once and in order, and
\* a refused one not at all (webhook, src/webhook.rs:120).
THEOREM WholeOrNothing == Spec => []AllOrNothing
  <1>1. IInv /\ Rest => AllOrNothing
    <2> SUFFICES ASSUME IInv, Rest, NEW r \in Answered \ lost
                 PROVE  IF status[r] # 202 THEN Places(r, entered) = {}
                        ELSE /\ {entered[i] : i \in Places(r, entered)} =
                                  {DeliveryOf(r)[n] :
                                     n \in DOMAIN DeliveryOf(r)}
                             /\ \A i, j \in Places(r, entered) :
                                  i < j => entered[i].n < entered[j].n
                             /\ Signals(body[r]) =>
                                  \A n \in DOMAIN body[r].items :
                                    /\ body[r].items[n].sound
                                    /\ \E i \in Places(r, entered) :
                                         entered[i].n = n
      BY DEF AllOrNothing, SentBy, Places
    <2>1. /\ r \in Requests /\ phase[r] = "answered" /\ Share(r)
          /\ held[r] = <<>> /\ body[r] \in Bodies[r]
      BY DEF Answered, Rest, Shares, IInv, Holdings
    <2>2. CASE status[r] # 202
      BY <2>1, <2>2 DEF Share, Accepted
    <2>3. CASE status[r] = 202
      <3> DEFINE d == DeliveryOf(r)
      <3>1. Acceptable(body[r]) /\ Part(r, d, <<>>, entered)
        BY <2>1, <2>3 DEF Share, Accepted
      <3>2. /\ d \in Seq(Messages(r))
            /\ \A n \in DOMAIN d : d[n].n = n
            /\ Signals(body[r]) => DOMAIN d = DOMAIN body[r].items
        BY <2>1, <3>1, DeliveryShape DEF Acceptable
      <3> HIDE DEF d
      <3>3. 1..(Len(d) - Len(<<>>)) = DOMAIN d
        BY <3>2
      <3>4. /\ {entered[i] : i \in Places(r, entered)} =
                 {d[n] : n \in DOMAIN d}
            /\ \A i, j \in Places(r, entered) :
                 i < j => entered[i].n < entered[j].n
        BY <3>1, <3>3 DEF Part
      <3>5. ASSUME Signals(body[r]), NEW n \in DOMAIN body[r].items
            PROVE  /\ body[r].items[n].sound
                   /\ \E i \in Places(r, entered) : entered[i].n = n
        <4>1. body[r].items[n].sound
          BY <3>1, <3>5 DEF Acceptable, Readable
        <4>2. n \in DOMAIN d /\ d[n].n = n
          BY <3>2, <3>5
        <4>3. d[n] \in {entered[i] : i \in Places(r, entered)}
          BY <3>4, <4>2
        <4> QED
          BY <4>1, <4>2, <4>3
      <3> QED
        BY <2>3, <3>4, <3>5 DEF d
    <2> QED
      BY <2>2, <2>3
  <1> QED
    BY <1>1, Invariance, RestInvariance, PTL

\* An alert sent goes into the bounded queue of the channel: its sender is
\* there, and room for it was reserved.
LEMMA SendShown ==
  ASSUME IInv, Rest, NEW r \in Requests, SendOne(r), open
  PROVE  Channel!Next
  <1> DEFINE m == Head(held[r])
  <1>1. /\ held[r] # <<>> /\ phase[r] = "sending" /\ serving /\ lost = {}
        /\ queue' = Append(queue, m) /\ UNCHANGED <<serving, open>>
    BY DEF SendOne, IInv, Holdings, Rest, Server, Answers
  <1>2. Len(queue) < Capacity
    <2>1. held \in [Requests -> Seq(AnyMessage)] /\ Held = PermitsFor(held)
      BY DEF IInv, Shape, Held, PermitsFor
    <2>2. IsFiniteSet(Held) /\ Cardinality(Held) \in Nat
      BY <2>1, PermitsFinite
    <2>3. held[r] \in Seq(AnyMessage)
      BY <2>1
    <2>4. 1 \in DOMAIN held[r]
      BY <1>1, <2>3
    <2>5. <<r, 1>> \in Held
      BY <2>4 DEF Held
    <2>6. Cardinality(Held) # 0
      BY <2>2, <2>5, FS_EmptySet
    <2>7. /\ free + Len(queue) + Cardinality(Held) = Capacity
          /\ free \in Nat /\ Len(queue) \in Nat /\ Capacity \in Nat
      BY IntakeAssumption DEF Rest, Room, PermitsConserved
    <2> QED
      BY <2>2, <2>6, <2>7
  <1>3. m \in [from : Requests, n : 1..Capacity,
               status : {"firing", "acknowledged", "resolved"}]
    <2> DEFINE d == DeliveryOf(r)
               h == held[r]
    <2>1. /\ Acceptable(body[r]) /\ Len(d) <= Capacity
          /\ Part(r, d, h, entered)
      BY <1>1 DEF Rest, Shares, Share, Accepted
    <2>2. body[r] \in Bodies[r] /\ h \in Seq(Messages(r))
      BY <1>1 DEF IInv, Holdings
    <2>3. /\ d \in Seq(Messages(r))
          /\ \A n \in DOMAIN d :
               d[n].from = r /\ d[n].n = n /\ d[n].status # "none"
      BY <2>1, <2>2, DeliveryShape DEF Acceptable
    <2> HIDE DEF d, h
    <2>4. /\ Len(h) \in Nat /\ Len(h) > 0 /\ DOMAIN h = 1..Len(h)
          /\ Head(h) = h[1] /\ Len(d) \in Nat /\ DOMAIN d = 1..Len(d)
      BY <1>1, <2>2, <2>3 DEF h
    <2>5. h[1] = d[Len(d) - Len(h) + 1] /\ Len(h) <= Len(d)
      BY <2>1, <2>4 DEF Part
    <2>6. Len(d) - Len(h) + 1 \in DOMAIN d
      BY <2>4, <2>5
    <2>7. ASSUME NEW n \in DOMAIN d
          PROVE  d[n] \in [from : Requests, n : 1..Capacity,
                           status : {"firing", "acknowledged", "resolved"}]
      <3>1. d[n] \in Messages(r) /\ n \in 1..Capacity
        BY <2>1, <2>3, <2>4, <2>7, IntakeAssumption
      <3> QED
        BY <2>3, <2>7, <3>1 DEF Messages
    <2> QED
      BY <2>4, <2>5, <2>6, <2>7 DEF h
  <1> HIDE DEF m
  <1> QED
    BY <1>1, <1>2, <1>3 DEF Channel!Next, Channel!Send

\* The handlers, the shutdown and the end of the worker use the channel as a
\* bounded queue that nothing enters once the server is down or the worker
\* gone (mpsc::channel, src/bin/oncall-ai.rs:65; webhook, src/webhook.rs:120).
THEOREM KeepsChannel == Spec => ImplementsChannel
  <1>1. Init => Channel!Init
    BY DEF Init, Channel!Init
  <1>2. IInv /\ Rest /\ [Next]_vars
          => [Channel!Next]_<<queue, serving, open>>
    <2> SUFFICES ASSUME IInv, Rest, [Next]_vars
                 PROVE  Channel!Next \/ UNCHANGED <<queue, serving, open>>
      OBVIOUS
    <2>1. ASSUME NEW r \in Requests, Handler(r)
          PROVE  Channel!Next \/ UNCHANGED <<queue, serving, open>>
      <3>1. CASE SendOne(r) /\ open
        BY <3>1, SendShown
      <3>2. CASE SendOne(r) /\ ~open
        BY <3>2 DEF SendOne
      <3>3. CASE ~SendOne(r)
        BY <2>1, <3>3 DEF Handler, Arrive, HangUp, Handle, Answer, channel
      <3> QED
        BY <3>1, <3>2, <3>3
    <2>2. CASE StopServing
      BY <2>2 DEF StopServing, channel, Channel!Next, Channel!LoseSenders
    <2>3. CASE Take
      BY <2>3 DEF Take, Channel!Next, Channel!Take
    <2>4. CASE WorkerEnds
      BY <2>4 DEF WorkerEnds, Channel!Next, Channel!LoseReceiver
    <2>5. CASE StopAccepting \/ UNCHANGED vars
      BY <2>5 DEF StopAccepting, vars, channel
    <2> QED
      BY <2>1, <2>2, <2>3, <2>4, <2>5 DEF Next
  <1> QED
    BY <1>1, <1>2, Invariance, RestInvariance, PTL
       DEF Spec, ImplementsChannel, Channel!Spec
==============================================================================
