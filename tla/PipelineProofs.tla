---------------------------- MODULE PipelineProofs ----------------------------
(***************************************************************************)
(* Proofs about module Pipeline, for any capacities, alerts, incidents and *)
(* clock readings, and any number of panics.                               *)
(*                                                                         *)
(* The heart of them is the life of one worker's questions, kept apart     *)
(* from the rest as a record (QuestionsOf): what happens to a question is  *)
(* an operator on that record, each preserves Placed, and every action of  *)
(* the program is at most one of them.                                     *)
(***************************************************************************)
EXTENDS Pipeline, IncidentStoreProofs, FiniteSetTheorems

(***************************************************************************)
(* Sequences without repetition, as the channels are.                      *)
(***************************************************************************)

Elems(s) == {s[n] : n \in DOMAIN s}

Distinct(s) == \A m, n \in DOMAIN s : s[m] = s[n] => m = n

LEMMA EmptyDistinct == Distinct(<<>>) /\ Elems(<<>>) = {}
  BY DEF Distinct, Elems

LEMMA AppendDistinct ==
  ASSUME NEW S, NEW s \in Seq(S), Distinct(s), NEW x, x \notin Elems(s)
  PROVE  /\ Distinct(Append(s, x))
         /\ Elems(Append(s, x)) = Elems(s) \cup {x}
         /\ Append(s, x) \in Seq(S \cup {x})
  <1> DEFINE t == Append(s, x)
  <1>1. /\ t \in Seq(S \cup {x}) /\ Len(t) = Len(s) + 1
        /\ DOMAIN t = 1..(Len(s) + 1) /\ DOMAIN s = 1..Len(s)
        /\ \A n \in DOMAIN t : t[n] = IF n = Len(s) + 1 THEN x ELSE s[n]
    <2>1. s \in Seq(S \cup {x})
      OBVIOUS
    <2> QED
      BY <2>1
  <1> HIDE DEF t
  <1>2. Len(s) \in Nat
    OBVIOUS
  <1>3. Distinct(t)
    BY <1>1, <1>2 DEF Distinct, Elems
  <1>4. Elems(t) = Elems(s) \cup {x}
    BY <1>1, <1>2 DEF Elems
  <1> QED
    BY <1>1, <1>3, <1>4 DEF t

LEMMA TailDistinct ==
  ASSUME NEW S, NEW s \in Seq(S), Distinct(s), s # <<>>
  PROVE  /\ Distinct(Tail(s)) /\ Tail(s) \in Seq(S)
         /\ Elems(Tail(s)) = Elems(s) \ {Head(s)}
         /\ Head(s) \in Elems(s)
  <1> DEFINE t == Tail(s)
  <1>1. /\ t \in Seq(S) /\ Len(s) \in Nat \ {0}
        /\ DOMAIN t = 1..(Len(s) - 1) /\ DOMAIN s = 1..Len(s)
        /\ \A n \in DOMAIN t : t[n] = s[n + 1]
        /\ Head(s) = s[1]
    OBVIOUS
  <1> HIDE DEF t
  <1>2. Distinct(t)
    BY <1>1 DEF Distinct
  <1>3. Elems(t) = Elems(s) \ {Head(s)}
    <2>1. ASSUME NEW x \in Elems(t)
          PROVE  x \in Elems(s) /\ x # Head(s)
      <3>1. PICK n \in DOMAIN t : x = s[n + 1]
        BY <1>1 DEF Elems
      <3>2. n + 1 \in DOMAIN s /\ n + 1 # 1 /\ 1 \in DOMAIN s
        BY <1>1
      <3> QED
        BY <1>1, <3>1, <3>2 DEF Elems, Distinct
    <2>2. ASSUME NEW x \in Elems(s), x # Head(s)
          PROVE  x \in Elems(t)
      <3>1. PICK n \in DOMAIN s : x = s[n] /\ n # 1
        BY <1>1, <2>2 DEF Elems
      <3>2. n - 1 \in DOMAIN t /\ t[n - 1] = s[n]
        BY <1>1, <3>1
      <3> QED
        BY <3>1, <3>2 DEF Elems
    <2> QED
      BY <2>1, <2>2
  <1>4. Head(s) \in Elems(s)
    BY <1>1 DEF Elems
  <1> QED
    BY <1>1, <1>2, <1>3, <1>4 DEF t

\* A sequence without repetition is as long as it has elements.
LEMMA DistinctCardinality ==
  ASSUME NEW S, NEW s \in Seq(S), Distinct(s)
  PROVE  IsFiniteSet(Elems(s)) /\ Cardinality(Elems(s)) = Len(s)
  <1>1. /\ Len(s) \in Nat /\ DOMAIN s = 1..Len(s)
        /\ s \in [1..Len(s) -> Elems(s)]
    BY DEF Elems
  <1>2. s \in Bijection(1..Len(s), Elems(s))
    BY <1>1 DEF Distinct, Elems, Bijection, Injection, Surjection,
                IsInjective
  <1>3. ExistsBijection(1..Len(s), Elems(s))
    BY <1>2 DEF ExistsBijection
  <1>4. IsFiniteSet(1..Len(s)) /\ Cardinality(1..Len(s)) = Len(s)
    BY <1>1, FS_Interval, SMTT(30)
  <1> QED
    BY <1>3, <1>4, FS_Bijection

(***************************************************************************)
(* The questions to one worker.                                            *)
(***************************************************************************)

Questions ==
  [asked : SUBSET IncidentIds, requests : Seq(IncidentIds),
   inHand : SUBSET IncidentIds, results : Seq(IncidentIds),
   recorded : SUBSET IncidentIds, abandoned : SUBSET IncidentIds,
   refused : SUBSET IncidentIds, sent : SUBSET IncidentIds, dropped : Nat]

UnderWay(q) == Elems(q.requests) \cup q.inHand \cup Elems(q.results)
Over(q) == q.recorded \cup q.abandoned \cup q.refused

\* Asked, and then dropped by its worker or lost with a channel.
Lost(q) == q.asked \ (UnderWay(q) \cup Over(q))

\* Each question asked is in one place, or lost; no more are counted as
\* dropped than are lost.
Placed(q) ==
  /\ q \in Questions
  /\ IsFiniteSet(q.asked)
  /\ UnderWay(q) \cup Over(q) \cup q.sent \subseteq q.asked
  /\ Distinct(q.requests) /\ Distinct(q.results)
  /\ \A i, j \in q.inHand : i = j
  /\ Elems(q.requests) \cap q.inHand = {}
  /\ (Elems(q.requests) \cup q.inHand) \cap Elems(q.results) = {}
  /\ UnderWay(q) \cap Over(q) = {}
  /\ q.recorded \cap q.abandoned = {}
  /\ (q.recorded \cup q.abandoned) \cap q.refused = {}
  /\ q.dropped <= Cardinality(Lost(q))

\* What becomes of questions: r is q after it.
NoneEnds(q, r) ==
  /\ r.asked = q.asked /\ r.recorded = q.recorded
  /\ r.abandoned = q.abandoned /\ r.refused = q.refused /\ r.sent = q.sent

AskedFor(q, r, id) ==
  /\ r.asked = q.asked \cup {id}
  /\ r.requests = Append(q.requests, id)
  /\ r.inHand = q.inHand /\ r.results = q.results
  /\ r.recorded = q.recorded /\ r.abandoned = q.abandoned
  /\ r.refused = q.refused /\ r.sent = q.sent /\ r.dropped = q.dropped

Received(q, r) ==
  /\ r.requests = Tail(q.requests) /\ r.inHand = {Head(q.requests)}
  /\ r.results = q.results /\ r.dropped = q.dropped /\ NoneEnds(q, r)

RequestDropped(q, r) ==
  /\ r.requests = Tail(q.requests) /\ r.dropped = q.dropped + 1
  /\ r.inHand = q.inHand /\ r.results = q.results /\ NoneEnds(q, r)

CallDropped(q, r) ==
  /\ r.inHand = {} /\ r.dropped = q.dropped + 1
  /\ r.requests = q.requests /\ r.results = q.results /\ NoneEnds(q, r)

GivenUp(q, r) ==
  /\ r.inHand = {} /\ r.abandoned = q.abandoned \cup q.inHand
  /\ r.asked = q.asked /\ r.requests = q.requests /\ r.results = q.results
  /\ r.recorded = q.recorded /\ r.refused = q.refused
  /\ r.sent = q.sent /\ r.dropped = q.dropped

ResultSent(q, r, id) ==
  /\ r.inHand = {} /\ r.results = Append(q.results, id)
  /\ r.sent = q.sent \cup q.inHand
  /\ r.asked = q.asked /\ r.requests = q.requests
  /\ r.recorded = q.recorded /\ r.abandoned = q.abandoned
  /\ r.refused = q.refused /\ r.dropped = q.dropped

ResultRefused(q, r) ==
  /\ r.inHand = {} /\ r.refused = q.refused \cup q.inHand
  /\ r.asked = q.asked /\ r.requests = q.requests /\ r.results = q.results
  /\ r.recorded = q.recorded /\ r.abandoned = q.abandoned
  /\ r.sent = q.sent /\ r.dropped = q.dropped

Taken(q, r) ==
  /\ r.results = Tail(q.results)
  /\ r.recorded = q.recorded \cup {Head(q.results)}
  /\ r.asked = q.asked /\ r.requests = q.requests /\ r.inHand = q.inHand
  /\ r.abandoned = q.abandoned /\ r.refused = q.refused
  /\ r.sent = q.sent /\ r.dropped = q.dropped

\* With a receiver goes what is in its channel, and with a worker what is in
\* its hand.
ChannelsLost(q, r) ==
  /\ r.requests \in {q.requests, <<>>} /\ r.results \in {q.results, <<>>}
  /\ r.inHand \in {q.inHand, {}}
  /\ r.dropped = q.dropped /\ NoneEnds(q, r)

\* One of these happens to q, or nothing does.
Moves(q, r) ==
  \/ r = q
  \/ \E id \in IncidentIds \ q.asked : AskedFor(q, r, id)
  \/ q.requests # <<>> /\ q.inHand = {} /\ Received(q, r)
  \/ q.requests # <<>> /\ RequestDropped(q, r)
  \/ q.inHand # {} /\ CallDropped(q, r)
  \/ GivenUp(q, r)
  \/ \E id \in q.inHand : ResultSent(q, r, id)
  \/ ResultRefused(q, r)
  \/ q.results # <<>> /\ Taken(q, r)
  \/ ChannelsLost(q, r)

\* What is lost stays lost, so a set of lost questions only grows: the count
\* of those dropped stays below it if it grows with it.
LEMMA LostGrows ==
  ASSUME NEW q, Placed(q), NEW r, r \in Questions, IsFiniteSet(r.asked),
         Lost(q) \subseteq Lost(r),
         \/ r.dropped = q.dropped
         \/ r.dropped = q.dropped + 1 /\ Lost(q) # Lost(r)
  PROVE  r.dropped <= Cardinality(Lost(r))
  <1>1. IsFiniteSet(Lost(r))
    BY FS_Subset DEF Lost
  <1>2. /\ Cardinality(Lost(q)) <= Cardinality(Lost(r))
        /\ Cardinality(Lost(q)) = Cardinality(Lost(r)) => Lost(q) = Lost(r)
        /\ IsFiniteSet(Lost(q))
    BY <1>1, FS_Subset
  <1>3. Cardinality(Lost(q)) \in Nat /\ Cardinality(Lost(r)) \in Nat
    BY <1>1, <1>2, FS_CardinalityType
  <1>4. q.dropped \in Nat /\ r.dropped \in Nat
        /\ q.dropped <= Cardinality(Lost(q))
    BY DEF Placed, Questions
  <1> QED
    BY <1>2, <1>3, <1>4

\* Whatever becomes of them, questions stay in one place each.
LEMMA MovesPlaced ==
  ASSUME NEW q, Placed(q), NEW r \in Questions, Moves(q, r)
  PROVE  Placed(r)
  <1>1. /\ q \in Questions /\ IsFiniteSet(q.asked)
        /\ q.requests \in Seq(IncidentIds) /\ q.results \in Seq(IncidentIds)
        /\ Distinct(q.requests) /\ Distinct(q.results)
        /\ UnderWay(q) \cup Over(q) \cup q.sent \subseteq q.asked
    BY DEF Placed, Questions
  <1>2. ASSUME NEW id \in IncidentIds \ q.asked, AskedFor(q, r, id)
        PROVE  Placed(r)
    <2>1. id \notin Elems(q.requests)
      BY <1>1, <1>2 DEF UnderWay
    <2>2. /\ Distinct(r.requests)
          /\ Elems(r.requests) = Elems(q.requests) \cup {id}
      BY <1>1, <1>2, <2>1, AppendDistinct DEF AskedFor
    <2>3. IsFiniteSet(r.asked)
      BY <1>1, <1>2, FS_AddElement DEF AskedFor
    <2>4. Lost(q) = Lost(r)
      BY <1>1, <1>2, <2>2 DEF Lost, UnderWay, Over, AskedFor
    <2>5. r.dropped <= Cardinality(Lost(r))
      BY <1>2, <2>3, <2>4, LostGrows DEF AskedFor
    <2> QED
      BY <1>1, <1>2, <2>2, <2>3, <2>5 DEF Placed, UnderWay, Over, AskedFor
  <1>3. ASSUME q.requests # <<>>, q.inHand = {}, Received(q, r)
        PROVE  Placed(r)
    <2>1. /\ Distinct(r.requests)
          /\ Elems(r.requests) = Elems(q.requests) \ {Head(q.requests)}
          /\ Head(q.requests) \in Elems(q.requests)
      BY <1>1, <1>3, TailDistinct DEF Received, NoneEnds
    <2>2. Lost(q) = Lost(r)
      BY <1>1, <1>3, <2>1 DEF Placed, Lost, UnderWay, Over, Received, NoneEnds
    <2>3. r.dropped <= Cardinality(Lost(r))
      BY <1>1, <1>3, <2>2, LostGrows DEF Received, NoneEnds
    <2> QED
      BY <1>1, <1>3, <2>1, <2>3 DEF Placed, UnderWay, Over, Received, NoneEnds
  <1>4. ASSUME q.requests # <<>>, RequestDropped(q, r)
        PROVE  Placed(r)
    <2>1. /\ Distinct(r.requests)
          /\ Elems(r.requests) = Elems(q.requests) \ {Head(q.requests)}
          /\ Head(q.requests) \in Elems(q.requests)
      BY <1>1, <1>4, TailDistinct DEF RequestDropped, NoneEnds
    <2>2. Lost(q) \subseteq Lost(r) /\ Lost(q) # Lost(r)
      BY <1>1, <1>4, <2>1 DEF Placed, Lost, UnderWay, Over, RequestDropped, NoneEnds
    <2>3. r.dropped <= Cardinality(Lost(r))
      BY <1>1, <1>4, <2>2, LostGrows DEF RequestDropped, NoneEnds
    <2> QED
      BY <1>1, <1>4, <2>1, <2>3 DEF Placed, UnderWay, Over, RequestDropped, NoneEnds
  <1>5. ASSUME q.inHand # {}, CallDropped(q, r)
        PROVE  Placed(r)
    <2>1. Lost(q) \subseteq Lost(r) /\ Lost(q) # Lost(r)
      BY <1>1, <1>5 DEF Placed, Lost, UnderWay, Over, CallDropped, NoneEnds
    <2>2. r.dropped <= Cardinality(Lost(r))
      BY <1>1, <1>5, <2>1, LostGrows DEF CallDropped, NoneEnds
    <2> QED
      BY <1>1, <1>5, <2>2 DEF Placed, UnderWay, Over, CallDropped, NoneEnds
  <1>6. ASSUME GivenUp(q, r)
        PROVE  Placed(r)
    <2>1. Lost(q) = Lost(r)
      BY <1>1, <1>6 DEF Placed, Lost, UnderWay, Over, GivenUp
    <2>2. r.dropped <= Cardinality(Lost(r))
      BY <1>1, <1>6, <2>1, LostGrows DEF GivenUp
    <2> QED
      BY <1>1, <1>6, <2>2 DEF Placed, UnderWay, Over, GivenUp
  <1>7. ASSUME NEW id \in q.inHand, ResultSent(q, r, id)
        PROVE  Placed(r)
    <2>1. /\ Distinct(r.results)
          /\ Elems(r.results) = Elems(q.results) \cup {id}
          /\ q.inHand = {id}
      <3>1. q.inHand = {id} /\ id \notin Elems(q.results)
        BY <1>7 DEF Placed
      <3>2. /\ Distinct(Append(q.results, id))
            /\ Elems(Append(q.results, id)) = Elems(q.results) \cup {id}
        BY <1>1, <3>1, AppendDistinct
      <3> QED
        BY <1>7, <3>1, <3>2 DEF ResultSent
    <2>2. Lost(q) = Lost(r)
      BY <1>1, <1>7, <2>1 DEF Placed, Lost, UnderWay, Over, ResultSent
    <2>3. r.dropped <= Cardinality(Lost(r))
      BY <1>1, <1>7, <2>2, LostGrows DEF ResultSent
    <2> QED
      BY <1>1, <1>7, <2>1, <2>3 DEF Placed, UnderWay, Over, ResultSent
  <1>8. ASSUME ResultRefused(q, r)
        PROVE  Placed(r)
    <2>1. Lost(q) = Lost(r)
      BY <1>1, <1>8 DEF Placed, Lost, UnderWay, Over, ResultRefused
    <2>2. r.dropped <= Cardinality(Lost(r))
      BY <1>1, <1>8, <2>1, LostGrows DEF ResultRefused
    <2> QED
      BY <1>1, <1>8, <2>2 DEF Placed, UnderWay, Over, ResultRefused
  <1>9. ASSUME q.results # <<>>, Taken(q, r)
        PROVE  Placed(r)
    <2>1. /\ Distinct(r.results)
          /\ Elems(r.results) = Elems(q.results) \ {Head(q.results)}
          /\ Head(q.results) \in Elems(q.results)
      BY <1>1, <1>9, TailDistinct DEF Taken
    <2>2. Lost(q) = Lost(r)
      BY <1>1, <1>9, <2>1 DEF Placed, Lost, UnderWay, Over, Taken
    <2>3. r.dropped <= Cardinality(Lost(r))
      BY <1>1, <1>9, <2>2, LostGrows DEF Taken
    <2> QED
      BY <1>1, <1>9, <2>1, <2>3 DEF Placed, UnderWay, Over, Taken
  <1>10. ASSUME ChannelsLost(q, r)
         PROVE  Placed(r)
    <2>1. /\ Distinct(r.requests) /\ Distinct(r.results)
          /\ Elems(r.requests) \subseteq Elems(q.requests)
          /\ Elems(r.results) \subseteq Elems(q.results)
      BY <1>1, <1>10, EmptyDistinct DEF ChannelsLost
    <2>2. Lost(q) \subseteq Lost(r)
      BY <1>10, <2>1 DEF Lost, UnderWay, Over, ChannelsLost, NoneEnds
    <2>3. r.dropped <= Cardinality(Lost(r))
      BY <1>1, <1>10, <2>2, LostGrows DEF ChannelsLost, NoneEnds
    <2> QED
      BY <1>1, <1>10, <2>1, <2>3
         DEF Placed, UnderWay, Over, ChannelsLost, NoneEnds
  <1> QED
    BY <1>2, <1>3, <1>4, <1>5, <1>6, <1>7, <1>8, <1>9, <1>10
       DEF Moves

(***************************************************************************)
(* The inductive invariant.                                                *)
(***************************************************************************)

QuestionsOf(w) ==
  [asked |-> asked[w], requests |-> requests[w], inHand |-> inHand[w],
   results |-> results[w], recorded |-> Recorded(w),
   abandoned |-> abandoned[w], refused |-> refused[w], sent |-> sent[w],
   dropped |-> dropped[w]]

Busy(w) == workerAt[w] \in {"calling", "sending"}

Types ==
  /\ alerts \in Seq(Deliveries) /\ Len(alerts) <= AlertsCapacity
  /\ requests \in [Workers -> Seq(IncidentIds)]
  /\ results \in [Workers -> Seq(IncidentIds)]
  /\ asked \in [Workers -> SUBSET IncidentIds]
  /\ inHand \in [Workers -> SUBSET IncidentIds]
  /\ abandoned \in [Workers -> SUBSET IncidentIds]
  /\ sent \in [Workers -> SUBSET IncidentIds]
  /\ refused \in [Workers -> SUBSET IncidentIds]
  /\ \A w \in Workers : /\ Len(requests[w]) <= RequestCapacity
                        /\ Len(results[w]) <= ResultCapacity
                        /\ inHand[w] # {} <=> Busy(w)
  /\ serving \in BOOLEAN /\ cancelled \in BOOLEAN
  /\ at \in IncidentAt
  /\ workerAt \in [Workers -> WorkerAt]
  /\ dropped \in [{"incident"} \cup Workers -> Nat]
  /\ accepted \in 0..MaxAlerts /\ handled \in Nat
  /\ panicked \subseteq {"incident"} \cup Workers

\* What is asked is asked about an incident, and its investigation once its
\* triage is on record.
Asks ==
  /\ StoreOK(store) /\ Justified(store, IdleTtl)
  /\ \A w \in Workers : /\ Placed(QuestionsOf(w))
                        /\ asked[w] \subseteq DOMAIN store.incidents
  /\ asked["investigation"] \subseteq Recorded("triage")

\* Without a panic, a worker that left its loop was told to by a server that
\* had stopped.
Stopping ==
  /\ cancelled => ~serving
  /\ panicked = {} =>
       /\ serving => at \in {"select", "polled_shutdown", "polled_triaged",
                             "polled_investigated"}
       /\ \A w \in Workers :
            serving => workerAt[w] \notin {"draining", "drained", "done"}
       /\ at \in {"drained", "done"} => alerts = <<>>

IInv == Types /\ Asks /\ Stopping /\ AcceptedAlertsAccounted

(***************************************************************************)
(* What the actions do to the questions.                                   *)
(***************************************************************************)

\* A question to one worker is moved by what that worker does, no other.
LEMMA WorkerMoves ==
  ASSUME Types, NEW w \in Workers,
         WorkerStep(w) \/ CallReturns(w) \/ WorkerPanics(w)
  PROVE  /\ UNCHANGED <<store, asked>>
         /\ \A v \in Workers : Moves(QuestionsOf(v), QuestionsOf(v)')
  <1>1. UNCHANGED <<store, asked>>
    BY DEF WorkerStep, CallReturns, WorkerPanics, WorkerSelect, WorkerReceive,
           WorkerStop, CallCancelled, WorkerSend, WorkerDrain, WorkerExit,
           CallSucceeds, CallAbandoned, channels, history
  <1>2. \A v \in Workers : Recorded(v)' = Recorded(v)
    BY <1>1 DEF Recorded
  <1>3. ASSUME NEW v \in Workers, v # w
        PROVE  QuestionsOf(v)' = QuestionsOf(v)
    BY <1>2, <1>3
       DEF QuestionsOf, Types, WorkerStep, CallReturns, WorkerPanics,
           WorkerSelect, WorkerReceive, WorkerStop, CallCancelled, WorkerSend,
           WorkerDrain, WorkerExit, CallSucceeds, CallAbandoned, channels,
           history
  <1>4. CASE WorkerSelect(w) \/ WorkerStop(w) \/ CallSucceeds(w)
    <2>1. QuestionsOf(w)' = QuestionsOf(w)
      BY <1>2, <1>4 DEF QuestionsOf, WorkerSelect, WorkerStop, CallSucceeds,
                        channels, history
    <2> QED
      BY <1>1, <1>3, <2>1 DEF Moves
  <1> DEFINE q == QuestionsOf(w)
  <1>5. CASE WorkerReceive(w)
    <2>1. q.requests # <<>> /\ q.inHand = {}
      BY <1>5 DEF WorkerReceive, QuestionsOf, Types, Busy
    <2>2. Received(q, q') \/ RequestDropped(q, q')
      BY <1>2, <1>5 DEF WorkerReceive, QuestionsOf, Types, Received,
                        RequestDropped, NoneEnds, history
    <2> QED
      BY <1>1, <1>3, <2>1, <2>2 DEF Moves
  <1>6. CASE CallCancelled(w)
    <2>1. q.inHand # {} /\ CallDropped(q, q')
      BY <1>2, <1>6 DEF CallCancelled, QuestionsOf, Types, Busy, CallDropped,
                        NoneEnds, channels, history
    <2> QED
      BY <1>1, <1>3, <2>1 DEF Moves
  <1>7. CASE CallAbandoned(w)
    <2>1. GivenUp(q, q')
      BY <1>2, <1>7 DEF CallAbandoned, QuestionsOf, Types, GivenUp, channels
    <2> QED
      BY <1>1, <1>3, <2>1 DEF Moves
  <1>8. CASE WorkerSend(w)
    <2>1. (\E id \in q.inHand : ResultSent(q, q', id)) \/ ResultRefused(q, q')
      BY <1>2, <1>8 DEF WorkerSend, QuestionsOf, Types, ResultSent,
                        ResultRefused
    <2> QED
      BY <1>1, <1>3, <2>1 DEF Moves
  <1>9. CASE WorkerDrain(w)
    <2>1. \/ q' = q
          \/ q.requests # <<>> /\ RequestDropped(q, q')
      BY <1>2, <1>9 DEF WorkerDrain, QuestionsOf, Types, RequestDropped,
                        NoneEnds, history
    <2> QED
      BY <1>1, <1>3, <2>1 DEF Moves
  <1>10. CASE WorkerExit(w) \/ WorkerPanics(w)
    <2>1. ChannelsLost(q, q')
      BY <1>2, <1>10 DEF WorkerExit, WorkerPanics, QuestionsOf, Types,
                         ChannelsLost, NoneEnds, history
    <2> QED
      BY <1>1, <1>3, <2>1 DEF Moves
  <1> QED
    BY <1>4, <1>5, <1>6, <1>7, <1>8, <1>9, <1>10
       DEF WorkerStep, CallReturns

\* handle_alert: the sweep, decide(), and for an incident it opens the
\* request for a triage.
LEMMA HandleAlertOK ==
  ASSUME Asks, NEW a \in Alert, HandleAlert(a)
  PROVE  /\ StoreOK(store') /\ Justified(store', IdleTtl)
         /\ DOMAIN store.incidents \subseteq DOMAIN store'.incidents
         /\ \A w \in Workers : Recorded(w)' = Recorded(w)
         /\ \/ UNCHANGED <<requests, asked>>
            \/ \E id \in DOMAIN store'.incidents \ DOMAIN store.incidents :
                 Ask("triage", id)
  <1>1. PICK now \in Times :
          \/ /\ Settles(ExpireIdleBefore(store, now - IdleTtl, now), a, now,
                        store')
             /\ UNCHANGED <<requests, asked>>
          \/ /\ Opens(ExpireIdleBefore(store, now - IdleTtl, now), a)
             /\ \E id \in NewIds(store) :
                  /\ store' = Insert(ExpireIdleBefore(store, now - IdleTtl,
                                                      now),
                                     id, NewIncident(a, now))
                  /\ Ask("triage", id)
    BY DEF HandleAlert
  <1> DEFINE s == ExpireIdleBefore(store, now - IdleTtl, now)
  <1>2. now \in Int
    BY TimesAssumption
  <1>3. /\ StoreOK(s) /\ Justified(s, IdleTtl) /\ Frame(store, s)
        /\ DOMAIN s.incidents = DOMAIN store.incidents
        /\ OpenIds(s) \subseteq OpenIds(store)
    BY <1>2, SweepOK, IdleTtlAssumption DEF Asks
  <1> HIDE DEF s
  <1>4. CASE Settles(s, a, now, store') /\ UNCHANGED <<requests, asked>>
    <2>1. /\ StoreOK(store') /\ Justified(store', IdleTtl)
          /\ Frame(s, store') /\ DOMAIN store'.incidents = DOMAIN s.incidents
      BY <1>2, <1>3, <1>4, SettlesOK, IdleTtlAssumption
    <2>2. Frame(store, store')
      BY <1>3, <2>1, FrameTransitive
    <2> QED
      BY <1>3, <1>4, <2>1, <2>2 DEF Frame, Recorded
  <1>5. ASSUME Opens(s, a), NEW id \in NewIds(store),
               store' = Insert(s, id, NewIncident(a, now)), Ask("triage", id)
        PROVE  /\ StoreOK(store') /\ Justified(store', IdleTtl)
               /\ DOMAIN store'.incidents = DOMAIN store.incidents \cup {id}
               /\ id \notin DOMAIN store.incidents
               /\ \A w \in Workers : Recorded(w)' = Recorded(w)
    <2>1. id \in NewIds(s) /\ id \notin DOMAIN store.incidents
      BY <1>3, <1>5 DEF NewIds
    <2>2. /\ StoreOK(store') /\ Justified(store', IdleTtl)
          /\ Frame(s, store')
          /\ DOMAIN store'.incidents = DOMAIN s.incidents \cup {id}
          /\ ~store'.incidents[id].triage
          /\ store'.incidents[id].investigation = Uninvestigated
      BY <1>2, <1>3, <1>5, <2>1, OpensOK, IdleTtlAssumption
    <2>3. Frame(store, store')
      BY <1>3, <2>2, FrameTransitive
    <2> QED
      BY <1>3, <2>1, <2>2, <2>3 DEF Frame, Recorded
  <1> QED
    BY <1>1, <1>4, <1>5 DEF s

\* record_triage
LEMMA RecordTriagedOK ==
  ASSUME Asks, NEW id \in DOMAIN store.incidents, RecordTriaged(id)
  PROVE  /\ StoreOK(store') /\ Justified(store', IdleTtl)
         /\ DOMAIN store'.incidents = DOMAIN store.incidents
         /\ Recorded("triage")' = Recorded("triage") \cup {id}
         /\ Recorded("investigation")' = Recorded("investigation")
         /\ Ask("investigation", id) \/ UNCHANGED <<requests, asked>>
  <1>1. store' = SetTriage(store, id) /\ StoreOK(store)
        /\ Justified(store, IdleTtl)
    BY DEF RecordTriaged, Asks
  <1>2. /\ StoreTypeOK(store') /\ SameButAnswers(store, store')
    BY <1>1, SetTriageOK
  <1>3. StoreOK(store') /\ Justified(store', IdleTtl)
    BY <1>1, <1>2, AnswersOK, AnswersJustified
  <1>4. /\ DOMAIN store'.incidents = DOMAIN store.incidents
        /\ store'.incidents[id].triage
        /\ \A i \in DOMAIN store.incidents :
             /\ i # id => store'.incidents[i] = store.incidents[i]
             /\ store'.incidents[i].investigation
                  = store.incidents[i].investigation
    <2>1. store.incidents[id] \in Incident /\ StoreTypeOK(store)
      BY <1>1 DEF StoreOK, StoreTypeOK
    <2> QED
      BY <1>1, <2>1 DEF SetTriage, Exists, StoreTypeOK, Incident
  <1> QED
    BY <1>3, <1>4 DEF Recorded, RecordTriaged

\* record_investigation
LEMMA RecordInvestigatedOK ==
  ASSUME Asks, NEW id \in DOMAIN store.incidents, RecordInvestigated(id)
  PROVE  /\ StoreOK(store') /\ Justified(store', IdleTtl)
         /\ DOMAIN store'.incidents = DOMAIN store.incidents
         /\ Recorded("triage")' = Recorded("triage")
         /\ Recorded("investigation")' = Recorded("investigation") \cup {id}
         /\ UNCHANGED <<requests, asked>>
  <1>1. PICK outcome \in Outcomes :
          store' = SetInvestigation(store, id, outcome)
    BY DEF RecordInvestigated
  <1>2. StoreOK(store) /\ Justified(store, IdleTtl)
    BY DEF Asks
  <1>3. StoreTypeOK(store') /\ SameButAnswers(store, store')
    BY <1>1, <1>2, SetInvestigationOK
  <1>4. StoreOK(store') /\ Justified(store', IdleTtl)
    BY <1>2, <1>3, AnswersOK, AnswersJustified
  <1>5. /\ DOMAIN store'.incidents = DOMAIN store.incidents
        /\ store'.incidents[id].investigation = outcome
        /\ \A i \in DOMAIN store.incidents :
             /\ i # id => store'.incidents[i] = store.incidents[i]
             /\ store'.incidents[i].triage = store.incidents[i].triage
    <2>1. store.incidents[id] \in Incident /\ StoreTypeOK(store)
      BY <1>2 DEF StoreOK, StoreTypeOK
    <2> QED
      BY <1>1, <2>1 DEF SetInvestigation, Exists, StoreTypeOK, Incident
  <1> QED
    BY <1>4, <1>5, OutcomesAssumption DEF Recorded, RecordInvestigated

LEMMA QuestionsTyped ==
  ASSUME Types', StoreTypeOK(store'), NEW w \in Workers
  PROVE  QuestionsOf(w)' \in Questions
  <1>1. Recorded(w)' \subseteq IncidentIds
    BY DEF Recorded, StoreTypeOK
  <1> QED
    BY <1>1 DEF Types, QuestionsOf, Questions

\* A request that a channel takes is a move of the questions to its worker.
LEMMA AskMoves ==
  ASSUME Types, NEW w \in Workers, NEW id \in IncidentIds \ asked[w],
         Ask(w, id) \/ UNCHANGED <<requests, asked>>,
         UNCHANGED <<inHand, abandoned, sent, refused>>,
         Recorded(w)' = Recorded(w), results'[w] = results[w],
         dropped'[w] = dropped[w]
  PROVE  Moves(QuestionsOf(w), QuestionsOf(w)')
  <1>1. CASE requests'[w] = requests[w] /\ asked'[w] = asked[w]
    <2>1. QuestionsOf(w)' = QuestionsOf(w)
      BY <1>1 DEF QuestionsOf
    <2> QED
      BY <2>1 DEF Moves
  <1>2. CASE /\ requests'[w] = Append(requests[w], id)
             /\ asked'[w] = asked[w] \cup {id}
    <2>1. /\ AskedFor(QuestionsOf(w), QuestionsOf(w)', id)
          /\ id \in IncidentIds \ QuestionsOf(w).asked
      BY <1>2 DEF QuestionsOf, AskedFor
    <2> QED
      BY <2>1 DEF Moves
  <1> QED
    BY <1>1, <1>2 DEF Ask, Types

\* ... and none of those to the other.
LEMMA AskOther ==
  ASSUME Types, NEW w \in Workers, NEW v \in Workers, v # w, NEW id,
         Ask(w, id) \/ UNCHANGED <<requests, asked>>
  PROVE  requests'[v] = requests[v] /\ asked'[v] = asked[v]
  BY DEF Ask, Types

LEMMA AskedGrows ==
  ASSUME Types, NEW w \in Workers, NEW id, Ask(w, id)
  PROVE  asked'[w] \subseteq asked[w] \cup {id}
  BY DEF Ask, Types

\* The questions of a worker that nothing touches.
LEMMA NothingMoves ==
  ASSUME NEW w, requests'[w] = requests[w], asked'[w] = asked[w],
         results'[w] = results[w], dropped'[w] = dropped[w],
         Recorded(w)' = Recorded(w),
         UNCHANGED <<inHand, abandoned, sent, refused>>
  PROVE  Moves(QuestionsOf(w), QuestionsOf(w)')
  BY DEF Moves, QuestionsOf

\* What the incident worker does when an alert comes.
HandlesAlert ==
  /\ alerts # <<>> /\ HandleAlert(Head(alerts))
  /\ UNCHANGED <<results, inHand, dropped, abandoned, sent, refused>>

\* ... when a triage comes back, in the select or in the drain;
TakesTriaged ==
  /\ \E id \in IncidentIds : TakeResult("triage", id) /\ RecordTriaged(id)
  /\ UNCHANGED <<inHand, dropped, abandoned, sent, refused>>

\* ... and when an investigation does.
TakesInvestigated ==
  /\ \E id \in IncidentIds :
       TakeResult("investigation", id) /\ RecordInvestigated(id)
  /\ UNCHANGED <<inHand, dropped, abandoned, sent, refused>>

\* All else that it does touches neither the store nor what is asked.
Elsewhere ==
  /\ UNCHANGED <<store, requests, asked, inHand, abandoned, sent, refused>>
  /\ \A w \in Workers : dropped'[w] = dropped[w]
  /\ UNCHANGED results \/ results' = [w \in Workers |-> <<>>]

LEMMA IncidentSteps ==
  ASSUME Types,
         \/ \E a \in Deliveries : Accept(a)
         \/ StopServing \/ CancelWorkers \/ IncidentWorker
         \/ IncidentWorkerPanics \/ Exited
  PROVE  HandlesAlert \/ TakesTriaged \/ TakesInvestigated \/ Elsewhere
  <1>1. CASE \/ \E a \in Deliveries : Accept(a)
             \/ StopServing \/ CancelWorkers \/ Exited
             \/ PollShutdown
    BY <1>1 DEF Accept, StopServing, CancelWorkers, Exited, PollShutdown,
                Elsewhere, channels, history, vars
  <1>2. CASE IncidentWorkerExit \/ IncidentWorkerPanics
    BY <1>2 DEF IncidentWorkerExit, IncidentWorkerPanics, Elsewhere, history
  <1>3. CASE PollTriaged \/ DrainTriaged
    BY <1>3 DEF PollTriaged, DrainTriaged, Elsewhere, TakesTriaged
  <1>4. CASE PollInvestigated \/ DrainInvestigated
    BY <1>4 DEF PollInvestigated, DrainInvestigated, Elsewhere,
                TakesInvestigated
  <1>5. CASE PollAlerts
    BY <1>5 DEF PollAlerts, Elsewhere, HandlesAlert
  <1>6. CASE DrainAlerts
    <2>1. \A w \in Workers : dropped'[w] = dropped[w]
      BY <1>6 DEF DrainAlerts, Types, Workers
    <2> QED
      BY <1>6, <2>1 DEF DrainAlerts, Elsewhere, history
  <1> QED
    BY <1>1, <1>2, <1>3, <1>4, <1>5, <1>6 DEF IncidentWorker

\* Each of these keeps every question in its place, and asks for a triage
\* of a new incident, for an investigation of one just triaged.
LEMMA HandlesAlertAsks ==
  ASSUME Types, Asks, HandlesAlert, Types'
  PROVE  Asks'
  <1>1. PICK a \in Alert : HandleAlert(a)
    BY DeliveriesAssumption DEF HandlesAlert, Types
  <1>2. /\ StoreOK(store') /\ Justified(store', IdleTtl)
        /\ DOMAIN store.incidents \subseteq DOMAIN store'.incidents
        /\ \A w \in Workers : Recorded(w)' = Recorded(w)
        /\ \/ UNCHANGED <<requests, asked>>
           \/ \E id \in DOMAIN store'.incidents \ DOMAIN store.incidents :
                Ask("triage", id)
    BY <1>1, HandleAlertOK
  <1>3. /\ StoreTypeOK(store')
        /\ DOMAIN store'.incidents \subseteq IncidentIds
    BY <1>2 DEF StoreOK, StoreTypeOK
  <1>4. "triage" \in Workers /\ "investigation" \in Workers
    BY DEF Workers
  <1>5. UNCHANGED <<results, inHand, dropped, abandoned, sent, refused>>
    BY DEF HandlesAlert
  <1>6. /\ requests'["investigation"] = requests["investigation"]
        /\ asked'["investigation"] = asked["investigation"]
    BY <1>2, <1>4, AskOther
  <1>7. Moves(QuestionsOf("triage"), QuestionsOf("triage")')
    <2>1. CASE UNCHANGED <<requests, asked>>
      BY <1>2, <1>4, <1>5, <2>1, NothingMoves
    <2>2. ASSUME NEW id \in DOMAIN store'.incidents \ DOMAIN store.incidents,
                 Ask("triage", id)
          PROVE  Moves(QuestionsOf("triage"), QuestionsOf("triage")')
      <3>1. id \in IncidentIds \ asked["triage"]
        BY <1>3, <1>4 DEF Asks
      <3> QED
        BY <1>2, <1>4, <1>5, <2>2, <3>1, AskMoves
    <2> QED
      BY <1>2, <2>1, <2>2
  <1>8. Moves(QuestionsOf("investigation"), QuestionsOf("investigation")')
    BY <1>2, <1>4, <1>5, <1>6, NothingMoves
  <1>9. \A w \in Workers : Placed(QuestionsOf(w)')
    BY <1>3, <1>4, <1>7, <1>8, QuestionsTyped, MovesPlaced DEF Asks, Workers
  <1>10. \A w \in Workers : asked'[w] \subseteq DOMAIN store'.incidents
    <2>1. asked'["triage"] \subseteq DOMAIN store'.incidents
      <3>1. asked["triage"] \subseteq DOMAIN store'.incidents
        BY <1>2, <1>4 DEF Asks
      <3>2. \/ UNCHANGED asked
            \/ \E id \in DOMAIN store'.incidents :
                 asked'["triage"] \subseteq asked["triage"] \cup {id}
        BY <1>2, <1>4, AskedGrows
      <3> QED
        BY <3>1, <3>2
    <2> QED
      BY <1>2, <1>4, <1>6, <2>1 DEF Asks, Workers
  <1>11. asked'["investigation"] \subseteq Recorded("triage")'
    BY <1>2, <1>4, <1>6 DEF Asks
  <1> QED
    BY <1>2, <1>9, <1>10, <1>11 DEF Asks

\* A result comes back about an incident that was asked about, and that has
\* no answer to the question yet.
LEMMA ResultAsked ==
  ASSUME Types, Asks, NEW w \in Workers, NEW id, TakeResult(w, id)
  PROVE  /\ id \in DOMAIN store.incidents /\ id \in asked[w]
         /\ id \notin Recorded(w) /\ id = Head(results[w])
         /\ results[w] # <<>>
         /\ results' = [results EXCEPT ![w] = Tail(@)]
  <1> DEFINE q == QuestionsOf(w)
  <1>1. results[w] # <<>> /\ id = Head(results[w])
    BY DEF TakeResult
  <1>2. /\ Placed(q) /\ q.results = results[w] /\ q.recorded = Recorded(w)
        /\ q.asked = asked[w]
    BY DEF Asks, QuestionsOf
  <1> HIDE DEF q
  <1>3. q.results \in Seq(IncidentIds) /\ Distinct(q.results)
    BY <1>2 DEF Placed, Questions
  <1>4. id \in Elems(q.results)
    BY <1>1, <1>2, <1>3, TailDistinct
  <1>5. id \in q.asked /\ id \notin q.recorded
    BY <1>2, <1>4 DEF Placed, UnderWay, Over
  <1> QED
    BY <1>1, <1>2, <1>5 DEF Asks, TakeResult

\* The answer of a question is a move of the questions to its worker.
LEMMA TakenMoves ==
  ASSUME Types, Asks, NEW w \in Workers, NEW id, TakeResult(w, id),
         Recorded(w)' = Recorded(w) \cup {id},
         requests'[w] = requests[w], asked'[w] = asked[w],
         UNCHANGED <<inHand, dropped, abandoned, sent, refused>>
  PROVE  Moves(QuestionsOf(w), QuestionsOf(w)')
  <1>1. /\ results[w] # <<>> /\ id = Head(results[w])
        /\ results'[w] = Tail(results[w])
    BY ResultAsked DEF Types
  <1>2. /\ QuestionsOf(w).results # <<>>
        /\ Taken(QuestionsOf(w), QuestionsOf(w)')
    BY <1>1 DEF QuestionsOf, Taken
  <1> QED
    BY <1>2 DEF Moves

LEMMA TakesTriagedAsks ==
  ASSUME Types, Asks, TakesTriaged, Types'
  PROVE  Asks'
  <1>1. PICK id \in IncidentIds :
          TakeResult("triage", id) /\ RecordTriaged(id)
    BY DEF TakesTriaged
  <1>2. "triage" \in Workers /\ "investigation" \in Workers
    BY DEF Workers
  <1>3. /\ id \in DOMAIN store.incidents /\ id \notin Recorded("triage")
        /\ results' = [results EXCEPT !["triage"] = Tail(@)]
    BY <1>1, <1>2, ResultAsked
  <1>4. /\ StoreOK(store') /\ Justified(store', IdleTtl)
        /\ DOMAIN store'.incidents = DOMAIN store.incidents
        /\ Recorded("triage")' = Recorded("triage") \cup {id}
        /\ Recorded("investigation")' = Recorded("investigation")
        /\ Ask("investigation", id) \/ UNCHANGED <<requests, asked>>
    BY <1>1, <1>3, RecordTriagedOK
  <1>5. UNCHANGED <<inHand, dropped, abandoned, sent, refused>>
    BY DEF TakesTriaged
  <1>6. /\ requests'["triage"] = requests["triage"]
        /\ asked'["triage"] = asked["triage"]
        /\ results'["investigation"] = results["investigation"]
    BY <1>2, <1>3, <1>4, AskOther DEF Types
  <1>7. Moves(QuestionsOf("triage"), QuestionsOf("triage")')
    BY <1>1, <1>2, <1>4, <1>5, <1>6, TakenMoves
  <1>8. Moves(QuestionsOf("investigation"), QuestionsOf("investigation")')
    <2>1. id \in IncidentIds \ asked["investigation"]
      BY <1>3 DEF Asks
    <2> QED
      BY <1>2, <1>4, <1>5, <1>6, <2>1, AskMoves
  <1>9. \A w \in Workers : Placed(QuestionsOf(w)')
    BY <1>2, <1>4, <1>7, <1>8, QuestionsTyped, MovesPlaced
       DEF Asks, StoreOK, Workers
  <1>10. asked'["investigation"] \subseteq asked["investigation"] \cup {id}
    BY <1>2, <1>4, AskedGrows
  <1>11. \A w \in Workers : asked'[w] \subseteq DOMAIN store'.incidents
    BY <1>2, <1>3, <1>4, <1>6, <1>10 DEF Asks, Workers
  <1>12. asked'["investigation"] \subseteq Recorded("triage")'
    BY <1>4, <1>10 DEF Asks
  <1> QED
    BY <1>4, <1>9, <1>11, <1>12 DEF Asks

LEMMA TakesInvestigatedAsks ==
  ASSUME Types, Asks, TakesInvestigated, Types'
  PROVE  Asks'
  <1>1. PICK id \in IncidentIds :
          TakeResult("investigation", id) /\ RecordInvestigated(id)
    BY DEF TakesInvestigated
  <1>2. "triage" \in Workers /\ "investigation" \in Workers
    BY DEF Workers
  <1>3. /\ id \in DOMAIN store.incidents
        /\ results' = [results EXCEPT !["investigation"] = Tail(@)]
    BY <1>1, <1>2, ResultAsked
  <1>4. /\ StoreOK(store') /\ Justified(store', IdleTtl)
        /\ DOMAIN store'.incidents = DOMAIN store.incidents
        /\ Recorded("triage")' = Recorded("triage")
        /\ Recorded("investigation")' = Recorded("investigation") \cup {id}
        /\ UNCHANGED <<requests, asked>>
    BY <1>1, <1>3, RecordInvestigatedOK
  <1>5. /\ UNCHANGED <<inHand, dropped, abandoned, sent, refused>>
        /\ results'["triage"] = results["triage"]
    BY <1>2, <1>3 DEF TakesInvestigated, Types
  <1>6. Moves(QuestionsOf("investigation"), QuestionsOf("investigation")')
    BY <1>1, <1>2, <1>4, <1>5, TakenMoves
  <1>7. Moves(QuestionsOf("triage"), QuestionsOf("triage")')
    BY <1>2, <1>4, <1>5, NothingMoves
  <1>8. \A w \in Workers : Placed(QuestionsOf(w)')
    BY <1>2, <1>4, <1>6, <1>7, QuestionsTyped, MovesPlaced
       DEF Asks, StoreOK, Workers
  <1>9. /\ \A w \in Workers : asked'[w] \subseteq DOMAIN store'.incidents
        /\ asked'["investigation"] \subseteq Recorded("triage")'
    BY <1>4 DEF Asks
  <1> QED
    BY <1>4, <1>8, <1>9 DEF Asks

\* Nothing else reaches the store or asks anything: the questions of each
\* worker are moved, at most.
LEMMA MovesAsks ==
  ASSUME Asks, Types', UNCHANGED <<store, asked>>,
         \A w \in Workers : Moves(QuestionsOf(w), QuestionsOf(w)')
  PROVE  Asks'
  <1>1. StoreOK(store') /\ Justified(store', IdleTtl) /\ StoreTypeOK(store')
    BY DEF Asks, StoreOK
  <1>2. \A w \in Workers : Placed(QuestionsOf(w)')
    BY <1>1, QuestionsTyped, MovesPlaced DEF Asks
  <1> QED
    BY <1>1, <1>2 DEF Asks, Recorded

LEMMA ElsewhereAsks ==
  ASSUME Types, Asks, Elsewhere, Types'
  PROVE  Asks'
  <1>1. \A w \in Workers : Recorded(w)' = Recorded(w)
    BY DEF Elsewhere, Recorded
  <1>2. ASSUME NEW w \in Workers
        PROVE  Moves(QuestionsOf(w), QuestionsOf(w)')
    <2>1. ChannelsLost(QuestionsOf(w), QuestionsOf(w)')
      BY <1>1, <1>2 DEF Elsewhere, QuestionsOf, ChannelsLost, NoneEnds
    <2> QED
      BY <2>1 DEF Moves
  <1> QED
    BY <1>2, MovesAsks DEF Elsewhere

LEMMA NextAsks ==
  ASSUME Types, Asks, Next, Types'
  PROVE  Asks'
  <1>1. ASSUME NEW w \in Workers,
               WorkerStep(w) \/ CallReturns(w) \/ WorkerPanics(w)
        PROVE  Asks'
    BY <1>1, WorkerMoves, MovesAsks
  <1> QED
    BY <1>1, IncidentSteps, HandlesAlertAsks, TakesTriagedAsks,
       TakesInvestigatedAsks, ElsewhereAsks DEF Next

(***************************************************************************)
(* Types.                                                                  *)
(***************************************************************************)

LEMMA AskTypes ==
  ASSUME Types, NEW w \in Workers, NEW id \in IncidentIds,
         Ask(w, id) \/ UNCHANGED <<requests, asked>>
  PROVE  /\ requests' \in [Workers -> Seq(IncidentIds)]
         /\ asked' \in [Workers -> SUBSET IncidentIds]
         /\ \A v \in Workers : Len(requests'[v]) <= RequestCapacity
  <1>1. CASE UNCHANGED <<requests, asked>>
    BY <1>1 DEF Types
  <1>2. CASE /\ Len(requests[w]) < RequestCapacity
             /\ requests' = [requests EXCEPT ![w] = Append(@, id)]
             /\ asked' = [asked EXCEPT ![w] = @ \cup {id}]
    <2>1. /\ requests[w] \in Seq(IncidentIds)
          /\ Append(requests[w], id) \in Seq(IncidentIds)
          /\ Len(Append(requests[w], id)) = Len(requests[w]) + 1
          /\ Len(requests[w]) \in Nat
      BY DEF Types
    <2>2. RequestCapacity \in Nat
      BY CapacitiesAssumption
    <2>3. \A v \in Workers : Len(requests'[v]) <= RequestCapacity
      BY <1>2, <2>1, <2>2 DEF Types
    <2> QED
      BY <1>2, <2>1, <2>3 DEF Types
  <1> QED
    BY <1>1, <1>2 DEF Ask

\* A channel that loses its first message, or all.
LEMMA ShorterTypes ==
  ASSUME NEW S, NEW s \in Seq(S), NEW n \in Nat, Len(s) <= n
  PROVE  /\ s # <<>> => Tail(s) \in Seq(S) /\ Len(Tail(s)) <= n
                        /\ Head(s) \in S
         /\ <<>> \in Seq(S) /\ Len(<<>>) <= n
  OBVIOUS

LEMMA TakeTypes ==
  ASSUME Types, NEW w \in Workers, NEW id, TakeResult(w, id)
  PROVE  /\ results' \in [Workers -> Seq(IncidentIds)]
         /\ \A v \in Workers : Len(results'[v]) <= ResultCapacity
  <1>1. /\ results[w] # <<>>
        /\ results' = [results EXCEPT ![w] = Tail(@)]
    BY DEF TakeResult
  <1>2. /\ results[w] \in Seq(IncidentIds)
        /\ Len(results[w]) <= ResultCapacity
        /\ ResultCapacity \in Nat
    BY CapacitiesAssumption DEF Types
  <1>3. /\ Tail(results[w]) \in Seq(IncidentIds)
        /\ Len(Tail(results[w])) <= ResultCapacity
    BY <1>1, <1>2, ShorterTypes
  <1> QED
    BY <1>1, <1>3 DEF Types

LEMMA InitIInv == Init => IInv
  <1> SUFFICES ASSUME Init PROVE IInv
    OBVIOUS
  <1>1. /\ AlertsCapacity \in Nat /\ RequestCapacity \in Nat
        /\ ResultCapacity \in Nat /\ MaxAlerts \in Nat
    BY CapacitiesAssumption
  <1>2. Types
    <2>1. /\ \A S : <<>> \in Seq(S)
          /\ Len(<<>>) = 0
      OBVIOUS
    <2>2. /\ alerts \in Seq(Deliveries) /\ Len(alerts) <= AlertsCapacity
          /\ requests \in [Workers -> Seq(IncidentIds)]
          /\ results \in [Workers -> Seq(IncidentIds)]
          /\ \A w \in Workers : /\ Len(requests[w]) <= RequestCapacity
                                /\ Len(results[w]) <= ResultCapacity
      BY <1>1, <2>1 DEF Init
    <2>3. /\ asked \in [Workers -> SUBSET IncidentIds]
          /\ inHand \in [Workers -> SUBSET IncidentIds]
          /\ abandoned \in [Workers -> SUBSET IncidentIds]
          /\ sent \in [Workers -> SUBSET IncidentIds]
          /\ refused \in [Workers -> SUBSET IncidentIds]
          /\ workerAt \in [Workers -> WorkerAt]
          /\ \A w \in Workers : inHand[w] # {} <=> Busy(w)
      BY DEF Init, WorkerAt, Busy
    <2>4. /\ dropped \in [{"incident"} \cup Workers -> Nat]
          /\ accepted \in 0..MaxAlerts /\ handled \in Nat
      BY <1>1 DEF Init
    <2> QED
      BY <2>2, <2>3, <2>4 DEF Init, Types, IncidentAt
  <1>3. StoreOK(store) /\ Justified(store, IdleTtl)
        /\ DOMAIN store.incidents = {}
    BY NewStoreOK DEF Init, Justified, NewStore, EmptyMap
  <1>4. ASSUME NEW w \in Workers
        PROVE  Placed(QuestionsOf(w))
    <2> DEFINE q == QuestionsOf(w)
    <2>1. Recorded(w) = {}
      BY <1>3 DEF Recorded
    <2>2. /\ q.asked = {} /\ q.requests = <<>> /\ q.inHand = {}
          /\ q.results = <<>> /\ q.recorded = {} /\ q.abandoned = {}
          /\ q.refused = {} /\ q.sent = {} /\ q.dropped = 0
          /\ q \in Questions
      BY <2>1 DEF Init, QuestionsOf, Questions
    <2> HIDE DEF q
    <2>3. Lost(q) = {} /\ Cardinality(Lost(q)) = 0
      BY <2>2, FS_EmptySet DEF Lost
    <2>4. IsFiniteSet(q.asked)
      BY <2>2, FS_EmptySet
    <2> QED
      BY <2>2, <2>3, <2>4, EmptyDistinct DEF Placed, UnderWay, Over, q
  <1>5. Asks
    BY <1>3, <1>4 DEF Asks, Init, Workers
  <1>6. Stopping /\ AcceptedAlertsAccounted
    BY DEF Init, Stopping, AcceptedAlertsAccounted
  <1> QED
    BY <1>2, <1>5, <1>6 DEF IInv

LEMMA CountTypes ==
  ASSUME Types, NEW p \in {"incident"} \cup Workers
  PROVE  [dropped EXCEPT ![p] = @ + 1] \in [{"incident"} \cup Workers -> Nat]
  BY DEF Types

\* A step of a worker: it shortens its own channel, or lengthens the one back
\* when there is room, and holds a request exactly while it is busy with it.
LEMMA WorkerTypes ==
  ASSUME Types, NEW w \in Workers,
         WorkerStep(w) \/ CallReturns(w) \/ WorkerPanics(w)
  PROVE  Types'
  <1>1. /\ RequestCapacity \in Nat /\ ResultCapacity \in Nat
        /\ requests[w] \in Seq(IncidentIds)
        /\ Len(requests[w]) <= RequestCapacity
        /\ results[w] \in Seq(IncidentIds)
        /\ inHand[w] \subseteq IncidentIds
    BY CapacitiesAssumption DEF Types
  <1>2. /\ <<>> \in Seq(IncidentIds) /\ Len(<<>>) <= RequestCapacity
        /\ requests[w] # <<>> =>
             /\ Tail(requests[w]) \in Seq(IncidentIds)
             /\ Len(Tail(requests[w])) <= RequestCapacity
             /\ {Head(requests[w])} \in SUBSET IncidentIds
    BY <1>1, ShorterTypes
  <1>3. CASE WorkerSelect(w) \/ WorkerStop(w) \/ CallSucceeds(w)
    <2>1. /\ UNCHANGED <<channels, serving, cancelled, at, inHand, dropped,
                         history>>
          /\ \E place \in WorkerAt :
               /\ Goto(w, place)
               /\ place \in {"calling", "sending"} <=> Busy(w)
      BY <1>3 DEF WorkerSelect, WorkerStop, CallSucceeds, WorkerAt, Busy
    <2> QED
      BY <2>1 DEF Types, Goto, Busy, channels, history
  <1>4. CASE WorkerReceive(w)
    <2>1. /\ requests' \in [Workers -> Seq(IncidentIds)]
          /\ \A v \in Workers : Len(requests'[v]) <= RequestCapacity
      BY <1>2, <1>4 DEF WorkerReceive, Types
    <2>2. dropped' \in [{"incident"} \cup Workers -> Nat]
      BY <1>4, CountTypes, ZenonT(40) DEF WorkerReceive, Types
    <2>3. CASE cancelled
      <3>1. /\ Goto(w, "draining") /\ UNCHANGED inHand
            /\ workerAt[w] = "receiving"
        BY <1>4, <2>3 DEF WorkerReceive
      <3>2. /\ workerAt' \in [Workers -> WorkerAt]
            /\ \A v \in Workers : inHand'[v] # {} <=> Busy(v)'
        BY <3>1 DEF Types, Goto, WorkerAt, Busy
      <3> QED
        BY <1>4, <2>1, <2>2, <3>1, <3>2 DEF WorkerReceive, Types, history
    <2>4. CASE ~cancelled
      <3>1. /\ Goto(w, "calling")
            /\ inHand' = [inHand EXCEPT ![w] = {Head(requests[w])}]
            /\ {Head(requests[w])} \in SUBSET IncidentIds
        BY <1>2, <1>4, <2>4 DEF WorkerReceive
      <3>2. /\ workerAt' \in [Workers -> WorkerAt]
            /\ inHand' \in [Workers -> SUBSET IncidentIds]
            /\ \A v \in Workers : inHand'[v] # {} <=> Busy(v)'
        BY <3>1 DEF Types, Goto, WorkerAt, Busy
      <3> QED
        BY <1>4, <2>1, <2>2, <3>2 DEF WorkerReceive, Types, history
    <2> QED
      BY <2>3, <2>4
  <1>5. CASE CallCancelled(w) \/ CallAbandoned(w)
    <2>1. /\ inHand' \in [Workers -> SUBSET IncidentIds]
          /\ workerAt' \in [Workers -> WorkerAt]
          /\ \A v \in Workers : inHand'[v] # {} <=> Busy(v)'
      BY <1>5, ZenonT(40)
         DEF CallCancelled, CallAbandoned, Types, Goto, WorkerAt, Busy
    <2>2. dropped' \in [{"incident"} \cup Workers -> Nat]
      <3>1. \/ UNCHANGED dropped
            \/ dropped' = [dropped EXCEPT ![w] = @ + 1]
        BY <1>5 DEF CallCancelled, CallAbandoned
      <3> QED
        BY <3>1, CountTypes, ZenonT(40) DEF Types
    <2>3. abandoned' \in [Workers -> SUBSET IncidentIds]
      <3>1. \/ UNCHANGED abandoned
            \/ abandoned' = [abandoned EXCEPT ![w] = @ \cup inHand[w]]
        BY <1>5 DEF CallCancelled, CallAbandoned, history
      <3> QED
        BY <1>1, <3>1, ZenonT(40) DEF Types
    <2> QED
      BY <1>5, <2>1, <2>2, <2>3
         DEF CallCancelled, CallAbandoned, Types, channels, history
  <1>6. CASE WorkerSend(w)
    <2>1. /\ inHand' \in [Workers -> SUBSET IncidentIds]
          /\ workerAt' \in [Workers -> WorkerAt]
          /\ \A v \in Workers : inHand'[v] # {} <=> Busy(v)'
      BY <1>6 DEF WorkerSend, Types, Goto, WorkerAt, Busy
    <2>2. /\ sent' \in [Workers -> SUBSET IncidentIds]
          /\ refused' \in [Workers -> SUBSET IncidentIds]
      BY <1>1, <1>6, ZenonT(40) DEF WorkerSend, Types
    <2>3. /\ results' \in [Workers -> Seq(IncidentIds)]
          /\ \A v \in Workers : Len(results'[v]) <= ResultCapacity
      <3>1. ASSUME NEW id \in inHand[w], Len(results[w]) < ResultCapacity
            PROVE  /\ Append(results[w], id) \in Seq(IncidentIds)
                   /\ Len(Append(results[w], id)) <= ResultCapacity
        BY <1>1, <3>1
      <3> QED
        BY <1>6, <3>1, ZenonT(40) DEF WorkerSend, Types
    <2> QED
      BY <1>6, <2>1, <2>2, <2>3 DEF WorkerSend, Types
  <1>7. CASE WorkerDrain(w)
    <2>1. /\ requests' \in [Workers -> Seq(IncidentIds)]
          /\ \A v \in Workers : Len(requests'[v]) <= RequestCapacity
      BY <1>2, <1>7, ZenonT(40) DEF WorkerDrain, Types
    <2>2. dropped' \in [{"incident"} \cup Workers -> Nat]
      <3>1. \/ UNCHANGED dropped
            \/ dropped' = [dropped EXCEPT ![w] = @ + 1]
        BY <1>7 DEF WorkerDrain
      <3> QED
        BY <3>1, CountTypes DEF Types
    <2>3. /\ workerAt' \in [Workers -> WorkerAt]
          /\ \A v \in Workers : inHand'[v] # {} <=> Busy(v)'
      BY <1>7 DEF WorkerDrain, Types, Goto, WorkerAt, Busy
    <2> QED
      BY <1>7, <2>1, <2>2, <2>3 DEF WorkerDrain, Types, history
  <1>8. CASE WorkerExit(w) \/ WorkerPanics(w)
    <2>1. /\ requests' \in [Workers -> Seq(IncidentIds)]
          /\ \A v \in Workers : Len(requests'[v]) <= RequestCapacity
      BY <1>2, <1>8, ZenonT(40) DEF WorkerExit, WorkerPanics, Types
    <2>2. /\ inHand' \in [Workers -> SUBSET IncidentIds]
          /\ workerAt' \in [Workers -> WorkerAt]
          /\ \A v \in Workers : inHand'[v] # {} <=> Busy(v)'
      BY <1>8 DEF WorkerExit, WorkerPanics, Types, Goto, WorkerAt, Busy
    <2> QED
      BY <1>8, <2>1, <2>2 DEF WorkerExit, WorkerPanics, Types, history
  <1> QED
    BY <1>3, <1>4, <1>5, <1>6, <1>7, <1>8 DEF WorkerStep, CallReturns

\* The results channel from w in the poll and in the drain of it.
LEMMA TakenTypes ==
  ASSUME Types,
         \/ PollTriaged \/ PollInvestigated
         \/ DrainTriaged \/ DrainInvestigated
  PROVE  Types'
  <1>1. \/ UNCHANGED <<requests, results, asked>>
        \/ \E w \in Workers, v \in Workers, id \in IncidentIds :
             /\ TakeResult(w, id)
             /\ Ask(v, id) \/ UNCHANGED <<requests, asked>>
    BY DEF PollTriaged, PollInvestigated, DrainTriaged, DrainInvestigated,
           RecordTriaged, RecordInvestigated, Workers
  <1>2. /\ requests' \in [Workers -> Seq(IncidentIds)]
        /\ results' \in [Workers -> Seq(IncidentIds)]
        /\ asked' \in [Workers -> SUBSET IncidentIds]
        /\ \A v \in Workers : /\ Len(requests'[v]) <= RequestCapacity
                              /\ Len(results'[v]) <= ResultCapacity
    <2>1. \/ UNCHANGED <<requests, asked>>
          \/ \E v \in Workers, id \in IncidentIds : Ask(v, id)
      BY <1>1
    <2>2. \/ UNCHANGED results
          \/ \E w \in Workers, id \in IncidentIds : TakeResult(w, id)
      BY <1>1
    <2>3. /\ requests' \in [Workers -> Seq(IncidentIds)]
          /\ asked' \in [Workers -> SUBSET IncidentIds]
          /\ \A v \in Workers : Len(requests'[v]) <= RequestCapacity
      BY <2>1, AskTypes DEF Types
    <2>4. /\ results' \in [Workers -> Seq(IncidentIds)]
          /\ \A v \in Workers : Len(results'[v]) <= ResultCapacity
      BY <2>2, TakeTypes DEF Types
    <2> QED
      BY <2>3, <2>4
  <1>3. /\ at' \in IncidentAt
        /\ UNCHANGED <<alerts, serving, cancelled, workerAt, inHand, dropped,
                       accepted, handled, abandoned, sent, refused, panicked>>
    BY DEF Types, PollTriaged, PollInvestigated, DrainTriaged,
           DrainInvestigated, IncidentAt
  <1> QED
    BY <1>2, <1>3 DEF Types, Busy

LEMMA PollAlertsTypes ==
  ASSUME Types, PollAlerts
  PROVE  Types'
  <1>1. CASE alerts = <<>>
    BY <1>1 DEF Types, PollAlerts, Busy, IncidentAt
  <1>2. CASE alerts # <<>>
    <2>1. /\ HandleAlert(Head(alerts)) /\ alerts' = Tail(alerts)
          /\ handled' = handled + 1 /\ at' = "select"
      BY <1>2 DEF PollAlerts
    <2>2. /\ alerts' \in Seq(Deliveries) /\ Len(alerts') <= AlertsCapacity
      BY <1>2, <2>1, ShorterTypes, CapacitiesAssumption DEF Types
    <2>3. \/ UNCHANGED <<requests, asked>>
          \/ \E id \in IncidentIds : Ask("triage", id)
      BY <2>1 DEF HandleAlert, NewIds
    <2>4. /\ requests' \in [Workers -> Seq(IncidentIds)]
          /\ asked' \in [Workers -> SUBSET IncidentIds]
          /\ \A v \in Workers : Len(requests'[v]) <= RequestCapacity
      BY <2>3, AskTypes DEF Types, Workers
    <2> QED
      BY <1>2, <2>1, <2>2, <2>4 DEF Types, PollAlerts, Busy, IncidentAt
  <1> QED
    BY <1>1, <1>2

LEMMA IncidentTypes ==
  ASSUME Types,
         \/ \E a \in Deliveries : Accept(a)
         \/ StopServing \/ CancelWorkers \/ IncidentWorker
         \/ IncidentWorkerPanics \/ Exited
  PROVE  Types'
  <1>1. ASSUME NEW a \in Deliveries, Accept(a)
        PROVE  Types'
    <2>1. /\ Append(alerts, a) \in Seq(Deliveries)
          /\ Len(Append(alerts, a)) <= AlertsCapacity
          /\ accepted + 1 \in 0..MaxAlerts
      BY <1>1, CapacitiesAssumption DEF Types, Accept
    <2> QED
      BY <1>1, <2>1 DEF Types, Accept, Busy
  <1>2. CASE StopServing \/ CancelWorkers \/ Exited \/ PollShutdown
    BY <1>2 DEF StopServing, CancelWorkers, Exited, PollShutdown, Types, Busy,
                IncidentAt, channels, history, vars
  <1>3. CASE IncidentWorkerExit \/ IncidentWorkerPanics
    <2>1. /\ <<>> \in Seq(Deliveries) /\ Len(<<>>) <= AlertsCapacity
          /\ <<>> \in Seq(IncidentIds) /\ Len(<<>>) <= ResultCapacity
      BY CapacitiesAssumption
    <2> QED
      BY <1>3, <2>1, ZenonT(40)
         DEF IncidentWorkerExit, IncidentWorkerPanics, Types, Busy,
                        IncidentAt, history
  <1>4. CASE DrainAlerts
    <2>1. /\ alerts' \in Seq(Deliveries) /\ Len(alerts') <= AlertsCapacity
      <3>1. \/ alerts' = alerts
            \/ alerts # <<>> /\ alerts' = Tail(alerts)
        BY <1>4 DEF DrainAlerts
      <3>2. alerts \in Seq(Deliveries) /\ Len(alerts) <= AlertsCapacity
        BY DEF Types
      <3> QED
        BY <3>1, <3>2, ShorterTypes, CapacitiesAssumption
    <2>2. dropped' \in [{"incident"} \cup Workers -> Nat]
      <3>1. \/ UNCHANGED dropped
            \/ dropped' = [dropped EXCEPT !["incident"] = @ + 1]
        BY <1>4 DEF DrainAlerts
      <3>2. [dropped EXCEPT !["incident"] = @ + 1]
              \in [{"incident"} \cup Workers -> Nat]
        BY CountTypes
      <3> QED
        BY <3>1, <3>2 DEF Types
    <2> QED
      BY <1>4, <2>1, <2>2 DEF DrainAlerts, Types, Busy, IncidentAt, history
  <1> QED
    BY <1>1, <1>2, <1>3, <1>4, TakenTypes, PollAlertsTypes DEF IncidentWorker

LEMMA NextTypes ==
  ASSUME Types, Next
  PROVE  Types'
  BY IncidentTypes, WorkerTypes DEF Next

(***************************************************************************)
(* The alerts, and the order of the shutdown.                              *)
(***************************************************************************)

LEMMA NextStopping ==
  ASSUME Types, Stopping, Next
  PROVE  Stopping'
  <1>1. ASSUME NEW w \in Workers,
               WorkerStep(w) \/ CallReturns(w) \/ WorkerPanics(w)
        PROVE  Stopping'
    <2>1. UNCHANGED <<alerts, serving, cancelled, at>>
      BY <1>1 DEF WorkerStep, CallReturns, WorkerPanics, WorkerSelect,
           WorkerReceive, WorkerStop, CallCancelled, WorkerSend, WorkerDrain,
           WorkerExit, CallSucceeds, CallAbandoned, channels
    <2>2. CASE panicked' # {}
      BY <2>1, <2>2, <1>1 DEF Stopping
    <2>3. CASE panicked' = {}
      <3>1. panicked = {} /\ (WorkerStep(w) \/ CallReturns(w))
        BY <1>1, <2>3 DEF WorkerStep, CallReturns, WorkerPanics, WorkerSelect,
           WorkerReceive, WorkerStop, CallCancelled, WorkerSend, WorkerDrain,
           WorkerExit, CallSucceeds, CallAbandoned, history
      <3>2. \E place : Goto(w, place) /\
              (place \in {"draining", "drained", "done"} => ~serving)
        BY <3>1 DEF Stopping, WorkerStep, CallReturns, WorkerSelect,
           WorkerReceive, WorkerStop, CallCancelled, WorkerSend, WorkerDrain,
           WorkerExit, CallSucceeds, CallAbandoned, Goto, Types
      <3> QED
        BY <2>1, <3>1, <3>2 DEF Stopping, Goto, Types
    <2> QED
      BY <2>2, <2>3
  <1>2. CASE IncidentWorkerPanics
    BY <1>2 DEF IncidentWorkerPanics, Stopping
  <1>3. CASE StopServing \/ CancelWorkers \/ Exited
    BY <1>3 DEF StopServing, CancelWorkers, Exited, Stopping, channels,
                history, vars
  <1>4. ASSUME NEW a \in Deliveries, Accept(a)
        PROVE  Stopping'
    BY <1>4 DEF Accept, Stopping
  <1>5. CASE IncidentWorker
    <2>1. UNCHANGED <<serving, cancelled, workerAt, panicked>>
      BY <1>5 DEF IncidentWorker, PollShutdown, PollTriaged, PollInvestigated,
           PollAlerts, DrainTriaged, DrainInvestigated, DrainAlerts,
           IncidentWorkerExit, history
    <2>2. CASE panicked # {}
      BY <2>1, <2>2 DEF Stopping
    <2>3. CASE panicked = {}
      <3>1. serving => at' \in {"select", "polled_shutdown", "polled_triaged",
                                "polled_investigated"}
        BY <1>5, <2>3 DEF Stopping, IncidentWorker, PollShutdown, PollTriaged,
           PollInvestigated, PollAlerts, DrainTriaged, DrainInvestigated,
           DrainAlerts, IncidentWorkerExit, NoMoreResults, Workers
      <3>2. at' \in {"drained", "done"} => alerts' = <<>>
        BY <1>5, <2>3 DEF Stopping, IncidentWorker, PollShutdown, PollTriaged,
           PollInvestigated, PollAlerts, DrainTriaged, DrainInvestigated,
           DrainAlerts, IncidentWorkerExit
      <3> QED
        BY <2>1, <2>3, <3>1, <3>2 DEF Stopping
    <2> QED
      BY <2>2, <2>3
  <1> QED
    BY <1>1, <1>2, <1>3, <1>4, <1>5 DEF Next

LEMMA NextAccounted ==
  ASSUME Types, Stopping, AcceptedAlertsAccounted, Next
  PROVE  AcceptedAlertsAccounted'
  <1>1. /\ Len(alerts) \in Nat /\ accepted \in Nat /\ handled \in Nat
        /\ dropped["incident"] \in Nat
        /\ alerts # <<>> => Len(Tail(alerts)) = Len(alerts) - 1
        /\ \A a \in Deliveries : Len(Append(alerts, a)) = Len(alerts) + 1
        /\ Len(<<>>) = 0
    BY CapacitiesAssumption DEF Types
  <1>2. ASSUME NEW w \in Workers,
               WorkerStep(w) \/ CallReturns(w) \/ WorkerPanics(w)
        PROVE  AcceptedAlertsAccounted'
    <2>1. /\ UNCHANGED <<alerts, accepted, handled>>
          /\ panicked' = {} => panicked = {}
          /\ \/ UNCHANGED dropped
             \/ dropped' = [dropped EXCEPT ![w] = @ + 1]
      BY <1>2 DEF WorkerStep, CallReturns, WorkerPanics, WorkerSelect,
           WorkerReceive, WorkerStop, CallCancelled, WorkerSend, WorkerDrain,
           WorkerExit, CallSucceeds, CallAbandoned, channels, history
    <2>2. dropped'["incident"] = dropped["incident"]
      BY <2>1 DEF Types, Workers
    <2> QED
      BY <2>1, <2>2 DEF AcceptedAlertsAccounted
  <1>3. CASE \/ StopServing \/ CancelWorkers \/ Exited \/ PollShutdown
             \/ PollTriaged \/ PollInvestigated
             \/ DrainTriaged \/ DrainInvestigated
    <2>1. UNCHANGED <<alerts, accepted, handled, dropped, panicked>>
      BY <1>3 DEF StopServing, CancelWorkers, Exited, PollShutdown,
           PollTriaged, PollInvestigated, DrainTriaged, DrainInvestigated,
           channels, history, vars
    <2> QED
      BY <2>1 DEF AcceptedAlertsAccounted
  <1>4. ASSUME NEW a \in Deliveries, Accept(a)
        PROVE  AcceptedAlertsAccounted'
    BY <1>1, <1>4 DEF Accept, AcceptedAlertsAccounted
  <1>5. CASE PollAlerts
    BY <1>1, <1>5, SMTT(30) DEF PollAlerts, AcceptedAlertsAccounted
  <1>6. CASE DrainAlerts
    <2>1. CASE alerts = <<>>
      BY <1>6, <2>1 DEF DrainAlerts, history, AcceptedAlertsAccounted
    <2>2. CASE alerts # <<>>
      <3>1. /\ dropped'["incident"] = dropped["incident"] + 1
            /\ alerts' = Tail(alerts)
            /\ UNCHANGED <<accepted, handled, panicked>>
        BY <1>6, <2>2 DEF DrainAlerts, Types, history
      <3> QED
        BY <1>1, <2>2, <3>1, SMTT(30) DEF AcceptedAlertsAccounted
    <2> QED
      BY <2>1, <2>2
  <1>7. CASE IncidentWorkerExit
    <2>1. /\ alerts' = <<>> /\ at = "drained"
          /\ UNCHANGED <<accepted, handled, dropped, panicked>>
      BY <1>7 DEF IncidentWorkerExit, history
    <2> QED
      BY <1>1, <2>1 DEF Stopping, AcceptedAlertsAccounted
  <1>8. CASE IncidentWorkerPanics
    <2>1. /\ alerts' = <<>> /\ panicked' # {}
          /\ UNCHANGED <<accepted, handled, dropped>>
      BY <1>8 DEF IncidentWorkerPanics
    <2> QED
      BY <1>1, <2>1 DEF AcceptedAlertsAccounted
  <1> QED
    BY <1>2, <1>3, <1>4, <1>5, <1>6, <1>7, <1>8 DEF Next, IncidentWorker

LEMMA UnchangedIInv ==
  ASSUME IInv, UNCHANGED vars
  PROVE  IInv'
  BY DEF IInv, Types, Asks, Stopping, AcceptedAlertsAccounted, QuestionsOf,
         Recorded, Busy, vars, channels, history

\* Every step of the three workers, of HTTP and of the shutdown keeps the
\* inductive invariant, and so does a panic anywhere (worker:
\* src/incident/worker.rs:38, src/triage/worker.rs:22,
\* src/investigation/worker.rs:46).
THEOREM Invariance == Spec => []IInv
  <1>1. IInv /\ [Next]_vars => IInv'
    <2> SUFFICES ASSUME IInv, [Next]_vars PROVE IInv'
      OBVIOUS
    <2>1. CASE Next
      <3>1. Types'
        BY <2>1, NextTypes DEF IInv
      <3> QED
        BY <2>1, <3>1, NextAsks, NextStopping, NextAccounted DEF IInv
    <2> QED
      BY <2>1, UnchangedIInv
  <1> QED
    BY <1>1, InitIInv, PTL DEF Spec

(***************************************************************************)
(* What the runs check.                                                    *)
(***************************************************************************)

\* No alert is counted twice and, unless a worker panicked, none is lost
\* between HTTP and the incident worker (worker, src/incident/worker.rs:59).
THEOREM AlertsAccounted == Spec => []AcceptedAlertsAccounted
  <1>1. IInv => AcceptedAlertsAccounted
    BY DEF IInv
  <1> QED
    BY <1>1, Invariance, PTL

\* A sequence whose elements are in a set is one over that set.
LEMMA SeqOver ==
  ASSUME NEW S, NEW s \in Seq(S), NEW T, Elems(s) \subseteq T
  PROVE  s \in Seq(T)
  BY DEF Elems

\* The channels stay within their capacities, each task where its loop can be
\* (worker, src/incident/worker.rs:38).
THEOREM TypeCorrect == Spec => []TypeOK
  <1>1. IInv => TypeOK
    <2> SUFFICES ASSUME IInv PROVE TypeOK
      OBVIOUS
    <2>1. Types /\ Asks /\ AcceptedAlertsAccounted
      BY DEF IInv
    <2>2. handled \in 0..MaxAlerts
      <3>1. /\ Len(alerts) \in Nat /\ dropped["incident"] \in Nat
            /\ accepted \in 0..MaxAlerts /\ handled \in Nat
        BY <2>1 DEF Types
      <3> QED
        BY <2>1, <3>1, CapacitiesAssumption DEF AcceptedAlertsAccounted
    <2>3. ASSUME NEW w \in Workers
          PROVE  /\ requests[w] \in Seq(asked[w])
                 /\ results[w] \in Seq(asked[w])
                 /\ inHand[w] \subseteq asked[w]
                 /\ asked[w] \subseteq DOMAIN store.incidents
                 /\ abandoned[w] \cup sent[w] \cup refused[w]
                      \subseteq asked[w]
      <3>1. /\ UnderWay(QuestionsOf(w)) \cup Over(QuestionsOf(w))
                 \cup QuestionsOf(w).sent \subseteq QuestionsOf(w).asked
            /\ asked[w] \subseteq DOMAIN store.incidents
        BY <2>1 DEF Asks, Placed
      <3>2. /\ Elems(requests[w]) \subseteq asked[w]
            /\ Elems(results[w]) \subseteq asked[w]
            /\ inHand[w] \subseteq asked[w]
            /\ abandoned[w] \cup sent[w] \cup refused[w] \subseteq asked[w]
        BY <3>1 DEF UnderWay, Over, QuestionsOf
      <3>3. /\ requests[w] \in Seq(IncidentIds)
            /\ results[w] \in Seq(IncidentIds)
        BY <2>1 DEF Types
      <3> QED
        BY <3>1, <3>2, <3>3, SeqOver
    <2> QED
      BY <2>1, <2>2, <2>3 DEF Types, Asks, StoreOK, TypeOK, Busy
  <1> QED
    BY <1>1, Invariance, PTL

LEMMA DisjointUnion ==
  ASSUME NEW S, NEW T, IsFiniteSet(S), IsFiniteSet(T), S \cap T = {}
  PROVE  /\ IsFiniteSet(S \cup T)
         /\ Cardinality(S \cup T) = Cardinality(S) + Cardinality(T)
  <1>1. Cardinality(S \cap T) = 0
    BY FS_EmptySet
  <1>2. Cardinality(S) \in Nat /\ Cardinality(T) \in Nat
    BY FS_CardinalityType
  <1>3. /\ IsFiniteSet(S \cup T)
        /\ Cardinality(S \cup T) =
             Cardinality(S) + Cardinality(T) - Cardinality(S \cap T)
    BY FS_Union
  <1> QED
    BY <1>1, <1>2, <1>3

\* Questions that are in one place each are counted where they are.
LEMMA PlacedCounts ==
  ASSUME NEW q, Placed(q)
  PROVE  /\ Cardinality(UnderWay(q)) =
              Len(q.requests) + Cardinality(q.inHand) + Len(q.results)
         /\ Cardinality(Over(q)) = Cardinality(q.recorded)
              + Cardinality(q.abandoned) + Cardinality(q.refused)
         /\ q.dropped + Cardinality(UnderWay(q)) + Cardinality(Over(q))
              <= Cardinality(q.asked)
  <1>1. /\ q.requests \in Seq(IncidentIds) /\ Distinct(q.requests)
        /\ q.results \in Seq(IncidentIds) /\ Distinct(q.results)
        /\ IsFiniteSet(q.asked) /\ q.dropped \in Nat
        /\ UnderWay(q) \cup Over(q) \subseteq q.asked
        /\ q.dropped <= Cardinality(Lost(q))
    BY DEF Placed, Questions
  <1>2. /\ IsFiniteSet(Elems(q.requests)) /\ IsFiniteSet(Elems(q.results))
        /\ Cardinality(Elems(q.requests)) = Len(q.requests)
        /\ Cardinality(Elems(q.results)) = Len(q.results)
    BY <1>1, DistinctCardinality
  <1>3. /\ IsFiniteSet(q.inHand) /\ IsFiniteSet(q.recorded)
        /\ IsFiniteSet(q.abandoned) /\ IsFiniteSet(q.refused)
    BY <1>1, FS_Subset DEF UnderWay, Over
  <1>4. /\ IsFiniteSet(UnderWay(q))
        /\ Cardinality(UnderWay(q)) =
             Len(q.requests) + Cardinality(q.inHand) + Len(q.results)
    <2>1. /\ Elems(q.requests) \cap q.inHand = {}
          /\ (Elems(q.requests) \cup q.inHand) \cap Elems(q.results) = {}
      BY DEF Placed
    <2>2. /\ IsFiniteSet(Elems(q.requests) \cup q.inHand)
          /\ Cardinality(Elems(q.requests) \cup q.inHand) =
               Len(q.requests) + Cardinality(q.inHand)
      BY <1>2, <1>3, <2>1, DisjointUnion
    <2>3. /\ IsFiniteSet(UnderWay(q))
          /\ Cardinality(UnderWay(q)) =
               Cardinality(Elems(q.requests) \cup q.inHand)
                 + Cardinality(Elems(q.results))
      BY <1>2, <2>1, <2>2, DisjointUnion, Zenon DEF UnderWay
    <2> QED
      BY <1>2, <2>2, <2>3
  <1>5. /\ IsFiniteSet(Over(q))
        /\ Cardinality(Over(q)) = Cardinality(q.recorded)
             + Cardinality(q.abandoned) + Cardinality(q.refused)
    <2>1. /\ q.recorded \cap q.abandoned = {}
          /\ (q.recorded \cup q.abandoned) \cap q.refused = {}
      BY DEF Placed
    <2>2. /\ IsFiniteSet(q.recorded \cup q.abandoned)
          /\ Cardinality(q.recorded \cup q.abandoned) =
               Cardinality(q.recorded) + Cardinality(q.abandoned)
      BY <1>3, <2>1, DisjointUnion
    <2> QED
      BY <1>3, <2>1, <2>2, DisjointUnion DEF Over
  <1>6. Cardinality(q.asked) = Cardinality(Lost(q))
          + Cardinality(UnderWay(q)) + Cardinality(Over(q))
    <2>1. IsFiniteSet(Lost(q))
      BY <1>1, FS_Subset DEF Lost
    <2>2. /\ UnderWay(q) \cap Over(q) = {}
          /\ Lost(q) \cap (UnderWay(q) \cup Over(q)) = {}
          /\ q.asked = Lost(q) \cup (UnderWay(q) \cup Over(q))
      BY <1>1 DEF Placed, Lost
    <2>3. /\ IsFiniteSet(UnderWay(q) \cup Over(q))
          /\ Cardinality(UnderWay(q) \cup Over(q)) =
               Cardinality(UnderWay(q)) + Cardinality(Over(q))
      BY <1>4, <1>5, <2>2, DisjointUnion
    <2>4. Cardinality(q.asked) =
            Cardinality(Lost(q)) + Cardinality(UnderWay(q) \cup Over(q))
      BY <2>1, <2>2, <2>3, DisjointUnion
    <2>5. /\ Cardinality(Lost(q)) \in Nat /\ Cardinality(UnderWay(q)) \in Nat
          /\ Cardinality(Over(q)) \in Nat
      BY <1>4, <1>5, <2>1, FS_CardinalityType
    <2> QED
      BY <2>3, <2>4, <2>5
  <1>7. /\ Cardinality(Lost(q)) \in Nat /\ Cardinality(UnderWay(q)) \in Nat
        /\ Cardinality(Over(q)) \in Nat
    BY <1>1, <1>4, <1>5, FS_CardinalityType, FS_Subset DEF Lost
  <1> QED
    BY <1>1, <1>4, <1>5, <1>6, <1>7

\* The places of the record are those of the properties.
LEMMA QuestionPlaces ==
  ASSUME NEW w \in Workers
  PROVE  /\ UnderWay(QuestionsOf(w)) = InTransit(w)
         /\ Over(QuestionsOf(w)) = Ended(w)
  BY DEF UnderWay, Over, QuestionsOf, Elems, InTransit, Ended

\* What was asked about an incident is in one place, and never asked again
\* (src/incident/worker.rs:162).
THEOREM OneQuestion == Spec => []OneQuestionPerIncident
  <1>1. IInv => OneQuestionPerIncident
    <2> SUFFICES ASSUME IInv, NEW w \in Workers
                 PROVE  OneQuestionPerIncident!(w)
      BY DEF OneQuestionPerIncident
    <2>1. Placed(QuestionsOf(w))
      BY DEF IInv, Asks
    <2>2. UnderWay(QuestionsOf(w)) \cap Over(QuestionsOf(w)) = {}
      BY <2>1 DEF Placed
    <2> QED
      BY <2>1, <2>2, PlacedCounts, QuestionPlaces DEF QuestionsOf
  <1> QED
    BY <1>1, Invariance, PTL

\* The drops a worker counts met no other end (src/triage/worker.rs:73).
THEOREM OnlyRealDrops == Spec => []DropsAreReal
  <1>1. IInv => DropsAreReal
    <2> SUFFICES ASSUME IInv, NEW w \in Workers
                 PROVE  dropped[w] + Cardinality(InTransit(w))
                          + Cardinality(Ended(w)) <= Cardinality(asked[w])
      BY DEF DropsAreReal
    <2>1. Placed(QuestionsOf(w))
      BY DEF IInv, Asks
    <2> QED
      BY <2>1, PlacedCounts, QuestionPlaces DEF QuestionsOf
  <1> QED
    BY <1>1, Invariance, PTL

(***************************************************************************)
(* The channel between the webhooks and the incident worker is the queue   *)
(* that module AlertChannel promises.                                      *)
(***************************************************************************)

\* HTTP and the incident worker use the channel as a bounded queue, from its
\* first alert to the end of either (src/bin/oncall-ai.rs:65).
THEOREM QueuesAlerts == Spec => ImplementsChannel
  <1>1. Init => Channel!Init
    BY DEF Init, Channel!Init
  <1>2. [Next]_vars => [Channel!Next]_<<alerts, serving, at # "done">>
    <2> SUFFICES ASSUME [Next]_vars
                 PROVE  \/ Channel!Next
                        \/ /\ UNCHANGED <<alerts, serving>>
                           /\ (at' # "done") = (at # "done")
      OBVIOUS
    <2>1. ASSUME NEW a \in Deliveries, Accept(a)
          PROVE  Channel!Next
      BY <2>1 DEF Accept, Channel!Next, Channel!Send
    <2>2. CASE StopServing
      BY <2>2 DEF StopServing, channels, Channel!Next, Channel!LoseSenders
    <2>3. ASSUME NEW w \in Workers,
                 WorkerStep(w) \/ CallReturns(w) \/ WorkerPanics(w)
          PROVE  UNCHANGED <<alerts, serving, at>>
      BY <2>3 DEF WorkerStep, CallReturns, WorkerPanics, WorkerSelect,
           WorkerReceive, WorkerStop, CallCancelled, WorkerSend, WorkerDrain,
           WorkerExit, CallSucceeds, CallAbandoned, channels
    <2>4. CASE CancelWorkers \/ Exited \/ UNCHANGED vars
      BY <2>4 DEF CancelWorkers, Exited, channels, vars
    <2>5. CASE PollShutdown \/ PollTriaged \/ PollInvestigated
                 \/ DrainTriaged \/ DrainInvestigated
      BY <2>5 DEF PollShutdown, PollTriaged, PollInvestigated, DrainTriaged,
           DrainInvestigated, channels
    <2>6. CASE PollAlerts \/ DrainAlerts
      BY <2>6 DEF PollAlerts, DrainAlerts, Channel!Next, Channel!Take
    <2>7. CASE IncidentWorkerExit \/ IncidentWorkerPanics
      BY <2>7 DEF IncidentWorkerExit, IncidentWorkerPanics, Channel!Next,
           Channel!LoseReceiver
    <2> QED
      BY <2>1, <2>2, <2>3, <2>4, <2>5, <2>6, <2>7 DEF Next, IncidentWorker
  <1> QED
    BY <1>1, <1>2, PTL DEF Spec, ImplementsChannel, Channel!Spec

(***************************************************************************)
(* The program keeps the life of incidents as module Incidents has it: to  *)
(* the incident worker the channels and the two workers behind them are    *)
(* the sets of what was asked and is not on record.                        *)
(***************************************************************************)

\* Both modules have the same store and the same decide().
LEMMA SameData ==
  /\ Detail!Alert = Alert
  /\ Detail!NewStore = NewStore
  /\ \A a, now : Detail!NewIncident(a, now) = NewIncident(a, now)
  BY DEF Alert, Detail!Alert, Statuses, Detail!Statuses,
         NewStore, Detail!NewStore, EmptyMap, Detail!EmptyMap,
         NewIncident, Detail!NewIncident, Open, Detail!Open,
         KeyOf, Detail!KeyOf, Uninvestigated, Detail!Uninvestigated

LEMMA SameSweep ==
  \A s, cutoff, now :
    Detail!ExpireIdleBefore(s, cutoff, now) = ExpireIdleBefore(s, cutoff, now)
  BY DEF ExpireIdleBefore, Detail!ExpireIdleBefore, CloseAll, Detail!CloseAll,
         Restrict, Detail!Restrict, Shut, Detail!Shut, Closed, Detail!Closed,
         RefsOf, Detail!RefsOf, RefOf, Detail!RefOf,
         IdleBefore, Detail!IdleBefore, OpenIds, Detail!OpenIds,
         IsOpen, Detail!IsOpen

LEMMA SameDecisions ==
  ASSUME NEW s, NEW a, NEW now
  PROVE  /\ \A t : Detail!Settles(s, a, now, t) <=> Settles(s, a, now, t)
         /\ Detail!Opens(s, a) <=> Opens(s, a)
         /\ Detail!NewIds(s) = NewIds(s)
         /\ \A id : Detail!Insert(s, id, a) = Insert(s, id, a)
  <1>1. \A t : Detail!Settles(s, a, now, t) <=> Settles(s, a, now, t)
    BY DEF Settles, Detail!Settles, ExactMatch, Detail!ExactMatch,
         HasOpenAlert, Detail!HasOpenAlert, RefOf, Detail!RefOf,
         KeyMatch, Detail!KeyMatch, HasOpenKey, Detail!HasOpenKey,
         KeyOf, Detail!KeyOf, LastResolve, Detail!LastResolve,
         Marked, Detail!Marked, AllResolved, Detail!AllResolved,
         SetAlertStatus, Detail!SetAlertStatus, WithStatus, Detail!WithStatus,
         FirstWith, Detail!FirstWith, RefsOf, Detail!RefsOf,
         Close, Detail!Close, CloseAll, Detail!CloseAll,
         Restrict, Detail!Restrict, Shut, Detail!Shut, Closed, Detail!Closed,
         AttachAlert, Detail!AttachAlert, Grown, Detail!Grown,
         Touched, Detail!Touched, Exists, Detail!Exists,
         Put, Detail!Put, PutAll, Detail!PutAll
  <1>2. /\ Detail!Opens(s, a) <=> Opens(s, a)
        /\ Detail!NewIds(s) = NewIds(s)
    BY DEF Opens, Detail!Opens, ExactMatch, Detail!ExactMatch,
         HasOpenAlert, Detail!HasOpenAlert, RefOf, Detail!RefOf,
         KeyMatch, Detail!KeyMatch, HasOpenKey, Detail!HasOpenKey,
         KeyOf, Detail!KeyOf, NewIds, Detail!NewIds
  <1>3. \A id : Detail!Insert(s, id, a) = Insert(s, id, a)
    BY DEF Insert, Detail!Insert, Put, Detail!Put, PutAll, Detail!PutAll,
         RefsOf, Detail!RefsOf, RefOf, Detail!RefOf
  <1> QED
    BY <1>1, <1>2, <1>3

LEMMA SameAnswers ==
  ASSUME NEW s, NEW id, NEW outcome
  PROVE  /\ Detail!SetTriage(s, id) = SetTriage(s, id)
         /\ Detail!SetInvestigation(s, id, outcome)
              = SetInvestigation(s, id, outcome)
         /\ Detail!OpenIds(s) = OpenIds(s)
  BY DEF SetTriage, Detail!SetTriage, SetInvestigation,
         Detail!SetInvestigation, Exists, Detail!Exists,
         OpenIds, Detail!OpenIds, IsOpen, Detail!IsOpen

\* What Incidents has for the questions under way.
Awaiting(w) == asked[w] \ Recorded(w)

LEMMA HandlesAlertShown ==
  ASSUME IInv, HandlesAlert
  PROVE  Detail!Next
  <1>1. /\ Head(alerts) \in Alert /\ HandleAlert(Head(alerts))
    BY DeliveriesAssumption DEF HandlesAlert, IInv, Types
  <1> DEFINE a == Head(alerts)
  <1>2. PICK now \in Times :
          \/ /\ Settles(ExpireIdleBefore(store, now - IdleTtl, now), a, now,
                        store')
             /\ UNCHANGED <<requests, asked>>
          \/ /\ Opens(ExpireIdleBefore(store, now - IdleTtl, now), a)
             /\ \E id \in NewIds(store) :
                  /\ store' = Insert(ExpireIdleBefore(store, now - IdleTtl,
                                                      now),
                                     id, NewIncident(a, now))
                  /\ Ask("triage", id)
    BY <1>1 DEF HandleAlert
  <1>3. /\ \A w \in Workers : Recorded(w)' = Recorded(w)
        /\ DOMAIN store.incidents \subseteq DOMAIN store'.incidents
    BY <1>1, HandleAlertOK DEF IInv
  <1>4. "triage" \in Workers /\ "investigation" \in Workers
    BY DEF Workers
  <1>5. a \in Detail!Alert
    BY <1>1, SameData
  <1> HIDE DEF a
  <1>6. CASE /\ Settles(ExpireIdleBefore(store, now - IdleTtl, now), a, now,
                        store')
             /\ UNCHANGED <<requests, asked>>
    <2>1. \A w \in Workers : Awaiting(w)' = Awaiting(w)
      BY <1>3, <1>6 DEF Awaiting
    <2>2. Detail!SettleAlert(a, now)
      BY <1>4, <1>6, <2>1, SameSweep, SameDecisions
         DEF Detail!SettleAlert, Detail!Swept, Awaiting
    <2> QED
      BY <1>5, <2>2 DEF Detail!Next
  <1>7. ASSUME Opens(ExpireIdleBefore(store, now - IdleTtl, now), a),
               NEW id \in NewIds(store),
               store' = Insert(ExpireIdleBefore(store, now - IdleTtl, now),
                               id, NewIncident(a, now)),
               Ask("triage", id)
        PROVE  Detail!Next
    <2>1. Awaiting("triage")' \in
            {Awaiting("triage"), Awaiting("triage") \cup {id}}
      <3>1. id \notin Recorded("triage")
        BY <1>7 DEF NewIds, Recorded
      <3>2. asked'["triage"] \in {asked["triage"], asked["triage"] \cup {id}}
        BY <1>4, <1>7 DEF Ask, IInv, Types
      <3> QED
        BY <1>3, <1>4, <3>1, <3>2 DEF Awaiting
    <2>2. Awaiting("investigation")' = Awaiting("investigation")
      BY <1>3, <1>4, <1>7, AskOther DEF Awaiting, IInv
    <2>3. Detail!OpenIncident(a, now)
      BY <1>7, <2>1, <2>2, SameData, SameSweep, SameDecisions
         DEF Detail!OpenIncident, Detail!Swept, Awaiting
    <2> QED
      BY <1>5, <2>3 DEF Detail!Next
  <1> QED
    BY <1>2, <1>6, <1>7

LEMMA TakesTriagedShown ==
  ASSUME IInv, TakesTriaged
  PROVE  Detail!Next
  <1>1. PICK id \in IncidentIds :
          TakeResult("triage", id) /\ RecordTriaged(id)
    BY DEF TakesTriaged
  <1>2. /\ Types /\ Asks
        /\ "triage" \in Workers /\ "investigation" \in Workers
    BY DEF IInv, Workers
  <1>3. /\ id \in DOMAIN store.incidents /\ id \in Awaiting("triage")
    BY <1>1, <1>2, ResultAsked DEF Awaiting
  <1>4. /\ Recorded("triage")' = Recorded("triage") \cup {id}
        /\ Recorded("investigation")' = Recorded("investigation")
        /\ Ask("investigation", id) \/ UNCHANGED <<requests, asked>>
    BY <1>1, <1>2, <1>3, RecordTriagedOK
  <1>5. Awaiting("triage")' = Awaiting("triage") \ {id}
    BY <1>2, <1>4, AskOther DEF Awaiting
  <1>6. \/ Awaiting("investigation")' = Awaiting("investigation")
        \/ /\ id \in OpenIds(store)
           /\ Awaiting("investigation")' = Awaiting("investigation") \cup {id}
    <2>1. id \notin Recorded("investigation")
      <3>1. Placed(QuestionsOf("investigation"))
        BY <1>2 DEF Asks
      <3>2. Recorded("investigation") \subseteq asked["investigation"]
        BY <3>1 DEF Placed, Over, QuestionsOf
      <3> QED
        BY <1>2, <1>3, <3>2 DEF Asks, Awaiting
    <2>2. \/ UNCHANGED asked
          \/ /\ id \in OpenIds(store)
             /\ asked'["investigation"] = asked["investigation"] \cup {id}
      BY <1>1, <1>2 DEF RecordTriaged, Ask, Types
    <2> QED
      BY <1>4, <2>1, <2>2 DEF Awaiting
  <1>7. Detail!RecordTriage(id)
    BY <1>1, <1>3, <1>5, <1>6, SameAnswers
       DEF Detail!RecordTriage, RecordTriaged, Awaiting
  <1> QED
    BY <1>7 DEF Detail!Next

LEMMA TakesInvestigatedShown ==
  ASSUME IInv, TakesInvestigated
  PROVE  Detail!Next
  <1>1. PICK id \in IncidentIds :
          TakeResult("investigation", id) /\ RecordInvestigated(id)
    BY DEF TakesInvestigated
  <1>2. /\ Types /\ Asks
        /\ "triage" \in Workers /\ "investigation" \in Workers
    BY DEF IInv, Workers
  <1>3. /\ id \in DOMAIN store.incidents /\ id \in Awaiting("investigation")
    BY <1>1, <1>2, ResultAsked DEF Awaiting
  <1>4. /\ Recorded("triage")' = Recorded("triage")
        /\ Recorded("investigation")' = Recorded("investigation") \cup {id}
        /\ UNCHANGED <<requests, asked>>
    BY <1>1, <1>2, <1>3, RecordInvestigatedOK
  <1>5. /\ Awaiting("investigation")' = Awaiting("investigation") \ {id}
        /\ Awaiting("triage")' = Awaiting("triage")
    BY <1>4 DEF Awaiting
  <1>6. PICK outcome \in Outcomes :
          store' = SetInvestigation(store, id, outcome)
    BY <1>1 DEF RecordInvestigated
  <1>7. Detail!RecordInvestigation(id, outcome)
    BY <1>3, <1>5, <1>6, SameAnswers
       DEF Detail!RecordInvestigation, Awaiting
  <1> QED
    BY <1>7 DEF Detail!Next

\* The two workers and the channels to and from them are no more than answers
\* that come once, later or never (worker, src/incident/worker.rs:38).
THEOREM KeepsIncidents == Spec => ImplementsIncidents
  <1>1. Init => Detail!Init
    <2> SUFFICES ASSUME Init PROVE Detail!Init
      OBVIOUS
    <2>1. asked["triage"] = {} /\ asked["investigation"] = {}
      BY DEF Init, Workers
    <2> QED
      BY <2>1, SameData DEF Init, Detail!Init
  <1>2. IInv /\ [Next]_vars => [Detail!Next]_(Detail!vars)
    <2> SUFFICES ASSUME IInv, [Next]_vars
                 PROVE  \/ Detail!Next
                        \/ UNCHANGED Detail!vars
      OBVIOUS
    <2>1. ASSUME UNCHANGED <<store, asked>>
          PROVE  UNCHANGED Detail!vars
      BY <2>1 DEF Detail!vars, Recorded
    <2>2. CASE UNCHANGED vars
      BY <2>1, <2>2 DEF vars, history
    <2>3. ASSUME NEW w \in Workers,
                 WorkerStep(w) \/ CallReturns(w) \/ WorkerPanics(w)
          PROVE  UNCHANGED Detail!vars
      BY <2>1, <2>3, WorkerMoves DEF IInv
    <2>4. ASSUME HandlesAlert \/ TakesTriaged \/ TakesInvestigated
                   \/ Elsewhere
          PROVE  Detail!Next \/ UNCHANGED Detail!vars
      BY <2>1, <2>4, HandlesAlertShown, TakesTriagedShown,
         TakesInvestigatedShown DEF Elsewhere
    <2> QED
      BY <2>2, <2>3, <2>4, IncidentSteps DEF Next, IInv
  <1> QED
    BY <1>1, <1>2, Invariance, PTL
       DEF Spec, ImplementsIncidents, Detail!Spec

(***************************************************************************)
(* So what is proved of incidents holds of them behind the channels too.   *)
(***************************************************************************)

Proved == INSTANCE IncidentsProofs WITH
  awaitingTriage <- asked["triage"] \ Recorded("triage"),
  awaitingInvestigation <- asked["investigation"] \ Recorded("investigation")

\* The same program: both instances have the same definitions.
LEMMA SameProgram ==
  /\ Detail!Init => Proved!Init
  /\ [Detail!Next]_(Detail!vars) => [Proved!Next]_(Proved!vars)
  <1>1. Detail!Alert = Proved!Alert
    BY DEF Detail!Alert, Proved!Alert, Detail!Statuses, Proved!Statuses
  <1>2. \A now : Detail!Swept(now) = Proved!Swept(now)
    BY Zenon DEF
         Detail!Swept, Proved!Swept, Detail!ExpireIdleBefore,
         Proved!ExpireIdleBefore, Detail!CloseAll, Proved!CloseAll,
         Detail!Restrict, Proved!Restrict, Detail!Shut, Proved!Shut,
         Detail!Closed, Proved!Closed, Detail!RefsOf, Proved!RefsOf,
         Detail!RefOf, Proved!RefOf, Detail!IdleBefore, Proved!IdleBefore,
         Detail!OpenIds, Proved!OpenIds, Detail!IsOpen, Proved!IsOpen
  <1>3. ASSUME NEW s, NEW a, NEW now
        PROVE  \A t : Detail!Settles(s, a, now, t)
                        <=> Proved!Settles(s, a, now, t)
    BY DEF
         Detail!Settles, Proved!Settles, Detail!ExactMatch, Proved!ExactMatch,
         Detail!HasOpenAlert, Proved!HasOpenAlert, Detail!RefOf, Proved!RefOf,
         Detail!KeyMatch, Proved!KeyMatch, Detail!HasOpenKey,
         Proved!HasOpenKey, Detail!KeyOf, Proved!KeyOf, Detail!LastResolve,
         Proved!LastResolve, Detail!Marked, Proved!Marked, Detail!AllResolved,
         Proved!AllResolved, Detail!SetAlertStatus, Proved!SetAlertStatus,
         Detail!WithStatus, Proved!WithStatus, Detail!FirstWith,
         Proved!FirstWith, Detail!RefsOf, Proved!RefsOf, Detail!Close,
         Proved!Close, Detail!CloseAll, Proved!CloseAll, Detail!Restrict,
         Proved!Restrict, Detail!Shut, Proved!Shut, Detail!Closed,
         Proved!Closed, Detail!AttachAlert, Proved!AttachAlert, Detail!Grown,
         Proved!Grown, Detail!Touched, Proved!Touched, Detail!Exists,
         Proved!Exists, Detail!Put, Proved!Put, Detail!PutAll, Proved!PutAll
  <1>4. ASSUME NEW a, NEW now, Detail!SettleAlert(a, now)
        PROVE  Proved!SettleAlert(a, now)
    BY <1>2, <1>3, <1>4, Zenon DEF Detail!SettleAlert, Proved!SettleAlert
  <1>5. /\ \A s, a : Detail!Opens(s, a) <=> Proved!Opens(s, a)
        /\ \A s : Detail!NewIds(s) = Proved!NewIds(s)
        /\ \A s, id, i : Detail!Insert(s, id, i) = Proved!Insert(s, id, i)
        /\ \A a, now : Detail!NewIncident(a, now) = Proved!NewIncident(a, now)
    BY Zenon DEF
         Detail!Opens, Proved!Opens, Detail!ExactMatch, Proved!ExactMatch,
         Detail!HasOpenAlert, Proved!HasOpenAlert, Detail!RefOf, Proved!RefOf,
         Detail!KeyMatch, Proved!KeyMatch, Detail!HasOpenKey,
         Proved!HasOpenKey, Detail!KeyOf, Proved!KeyOf, Detail!NewIds,
         Proved!NewIds, Detail!Insert, Proved!Insert, Detail!Put, Proved!Put,
         Detail!PutAll, Proved!PutAll, Detail!RefsOf, Proved!RefsOf,
         Detail!NewIncident, Proved!NewIncident, Detail!Open, Proved!Open,
         Detail!Uninvestigated, Proved!Uninvestigated
  <1>6. ASSUME NEW a, NEW now, Detail!OpenIncident(a, now)
        PROVE  Proved!OpenIncident(a, now)
    BY <1>2, <1>5, <1>6 DEF Detail!OpenIncident, Proved!OpenIncident
  <1>7. /\ \A id : Detail!RecordTriage(id) => Proved!RecordTriage(id)
        /\ \A id, outcome : Detail!RecordInvestigation(id, outcome)
                              => Proved!RecordInvestigation(id, outcome)
    BY Zenon DEF
         Detail!RecordTriage, Proved!RecordTriage, Detail!RecordInvestigation,
         Proved!RecordInvestigation, Detail!SetTriage, Proved!SetTriage,
         Detail!SetInvestigation, Proved!SetInvestigation, Detail!Exists,
         Proved!Exists, Detail!OpenIds, Proved!OpenIds, Detail!IsOpen,
         Proved!IsOpen
  <1>8. Detail!Next => Proved!Next
    BY <1>1, <1>4, <1>6, <1>7 DEF Detail!Next, Proved!Next
  <1>9. Detail!Init => Proved!Init
    BY DEF Detail!Init, Proved!Init, Detail!NewStore, Proved!NewStore,
           Detail!EmptyMap, Proved!EmptyMap
  <1> QED
    BY <1>8, <1>9 DEF Detail!vars, Proved!vars

LEMMA KeepsProved == Spec => Proved!Spec
  BY KeepsIncidents, SameProgram, PTL
     DEF ImplementsIncidents, Detail!Spec, Proved!Spec

\* What the theorems assume of what an incident without an investigation has.
LEMMA Assumed == Proved!Uninvestigated \notin Outcomes
  BY OutcomesAssumption DEF Proved!Uninvestigated, Uninvestigated

\* With the channels, the workers, the shutdown and any panic in between, what
\* is proved of the incident worker alone still holds (worker,
\* src/incident/worker.rs:38): the indexes are exact, an incident closes for
\* the right reason and for good, and is asked about in order and once.
THEOREM IncidentsHold ==
  Spec => /\ []Proved!IndexesExact
          /\ []Proved!AlertsDistinctAndKeyed
          /\ []Proved!ResolvedWhenAllResolved
          /\ []Proved!IdleMeansSilent
          /\ []Proved!AskedInOrderAndOnce
          /\ Proved!ClosedIsFinal
          /\ Proved!IdleNeverRevived
          /\ Proved!AnswersAreKept
  <1>1. /\ Proved!Spec => []Proved!IndexesExact
        /\ Proved!Spec => []Proved!AlertsDistinctAndKeyed
        /\ Proved!Spec => []Proved!ResolvedWhenAllResolved
        /\ Proved!Spec => []Proved!IdleMeansSilent
        /\ Proved!Spec => []Proved!AskedInOrderAndOnce
    BY Proved!IndexesAreExact, Proved!AlertsAreDistinct, Proved!ResolvedIsRight,
       Proved!IdleIsSilent, Proved!QuestionsInOrder, Assumed, TimesAssumption,
       IdleTtlAssumption
  <1>2. /\ Proved!Spec => Proved!ClosedIsFinal
        /\ Proved!Spec => Proved!IdleNeverRevived
        /\ Proved!Spec => Proved!AnswersAreKept
    BY Proved!ClosedStaysClosed, Proved!IdleIsNeverRevived, Proved!AnswersStay,
       Assumed, TimesAssumption, IdleTtlAssumption
  <1> QED
    BY <1>1, <1>2, KeepsProved, PTL
==============================================================================
