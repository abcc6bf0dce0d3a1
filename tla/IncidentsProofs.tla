--------------------------- MODULE IncidentsProofs ---------------------------
(***************************************************************************)
(* Proofs about module Incidents, for any sets of sources, alerts, labels, *)
(* incidents, outcomes and clock readings, and any TTL.                    *)
(*                                                                         *)
(* The handlers compose several methods of the store: a sweep, then        *)
(* decide().  Each lemma below follows one of them with what is true of    *)
(* every incident (StoreOK and Justified); the invariant IInv adds what    *)
(* ties the incidents to the questions under way.                          *)
(***************************************************************************)
EXTENDS Incidents, IncidentStoreProofs

(***************************************************************************)
(* The inductive invariant.                                                *)
(***************************************************************************)

IInv ==
  /\ StoreOK(store)
  /\ Justified(store, IdleTtl)
  /\ awaitingTriage \subseteq DOMAIN store.incidents
  /\ awaitingInvestigation \subseteq DOMAIN store.incidents
  /\ AskedInOrderAndOnce

\* The worker starts with an empty store and nothing asked.
LEMMA InitIInv == Init => IInv
  <1> SUFFICES ASSUME Init PROVE IInv
    OBVIOUS
  <1>1. DOMAIN store.incidents = {}
    BY DEF Init, NewStore, EmptyMap
  <1> QED
    BY <1>1, NewStoreOK DEF Init, IInv, Justified, AskedInOrderAndOnce

\* The questions under way stay in order when a handler of an alert changes
\* the store, whether it opens an incident or not.
LEMMA AlertKeepsQuestions ==
  ASSUME IInv, UNCHANGED awaitingInvestigation, Frame(store, store'),
         NEW new,
         DOMAIN store'.incidents = DOMAIN store.incidents \cup new,
         new \cap DOMAIN store.incidents = {},
         \A i \in new : /\ ~store'.incidents[i].triage
                        /\ store'.incidents[i].investigation = Uninvestigated,
         awaitingTriage \subseteq awaitingTriage',
         awaitingTriage' \subseteq awaitingTriage \cup new
  PROVE  /\ awaitingTriage' \subseteq DOMAIN store'.incidents
         /\ awaitingInvestigation' \subseteq DOMAIN store'.incidents
         /\ AskedInOrderAndOnce'
  <1>1. /\ awaitingTriage \subseteq DOMAIN store.incidents
        /\ awaitingInvestigation \subseteq DOMAIN store.incidents
        /\ AskedInOrderAndOnce
    BY DEF IInv
  <1>2. \A i \in DOMAIN store.incidents :
          /\ i \in DOMAIN store'.incidents
          /\ store'.incidents[i].triage = store.incidents[i].triage
          /\ store'.incidents[i].investigation
               = store.incidents[i].investigation
    BY DEF Frame
  <1> QED
    BY <1>1, <1>2 DEF AskedInOrderAndOnce

\* handle_alert, when it opens nothing, keeps the invariant, what it has no
\* business with, and no incident that went idle.
LEMMA SettleAlertIInv ==
  ASSUME IInv, NEW a \in Alert, NEW now \in Times, SettleAlert(a, now)
  PROVE  /\ IInv' /\ Frame(store, store')
         /\ IdleBefore(store, now - IdleTtl) \cap OpenIds(store') = {}
  <1> DEFINE s == Swept(now)
  <1>1. now \in Int
    BY TimesAssumption
  <1>2. /\ StoreOK(s) /\ Justified(s, IdleTtl) /\ Frame(store, s)
        /\ DOMAIN s.incidents = DOMAIN store.incidents
        /\ OpenIds(s) \subseteq OpenIds(store)
        /\ IdleBefore(store, now - IdleTtl) \cap OpenIds(s) = {}
    BY <1>1, SweepOK, IdleTtlAssumption DEF IInv, Swept
  <1>3. /\ Settles(s, a, now, store')
        /\ UNCHANGED <<awaitingTriage, awaitingInvestigation>>
    BY DEF SettleAlert
  <1> HIDE DEF s
  <1>4. /\ StoreOK(store') /\ Justified(store', IdleTtl) /\ Frame(s, store')
        /\ DOMAIN store'.incidents = DOMAIN s.incidents
    BY <1>1, <1>2, <1>3, SettlesOK, IdleTtlAssumption
  <1>5. Frame(store, store')
    BY <1>2, <1>4, FrameTransitive
  <1>6. /\ awaitingTriage' \subseteq DOMAIN store'.incidents
        /\ awaitingInvestigation' \subseteq DOMAIN store'.incidents
        /\ AskedInOrderAndOnce'
    <2> DEFINE new == {}
    <2>1. /\ DOMAIN store'.incidents = DOMAIN store.incidents \cup new
          /\ new \cap DOMAIN store.incidents = {}
          /\ \A i \in new : /\ ~store'.incidents[i].triage
                            /\ store'.incidents[i].investigation
                                 = Uninvestigated
          /\ awaitingTriage' \subseteq awaitingTriage \cup new
          /\ awaitingTriage \subseteq awaitingTriage'
          /\ UNCHANGED awaitingInvestigation
      BY <1>2, <1>3, <1>4
    <2> HIDE DEF new
    <2> QED
      BY <1>5, <2>1, AlertKeepsQuestions
  <1>7. StoreOK(store)' /\ Justified(store, IdleTtl)'
    BY <1>4 DEF StoreOK, Justified
  <1>8. IdleBefore(store, now - IdleTtl) \cap OpenIds(store') = {}
    BY <1>2, <1>4, ClosedStayClosed DEF IdleBefore, OpenIds
  <1> QED
    BY <1>5, <1>6, <1>7, <1>8 DEF IInv

\* So does handle_alert when it opens an incident: the new id is waiting for
\* nothing yet and is in no index.
LEMMA OpenIncidentIInv ==
  ASSUME IInv, NEW a \in Alert, NEW now \in Times, OpenIncident(a, now)
  PROVE  /\ IInv' /\ Frame(store, store')
         /\ IdleBefore(store, now - IdleTtl) \cap OpenIds(store') = {}
  <1> DEFINE s == Swept(now)
  <1>1. now \in Int
    BY TimesAssumption
  <1>2. /\ StoreOK(s) /\ Justified(s, IdleTtl) /\ Frame(store, s)
        /\ DOMAIN s.incidents = DOMAIN store.incidents
        /\ OpenIds(s) \subseteq OpenIds(store)
        /\ IdleBefore(store, now - IdleTtl) \cap OpenIds(s) = {}
    BY <1>1, SweepOK, IdleTtlAssumption DEF IInv, Swept
  <1>3. Opens(s, a) /\ UNCHANGED awaitingInvestigation
    BY DEF OpenIncident
  <1>4. PICK id \in NewIds(store) :
          /\ store' = Insert(s, id, NewIncident(a, now))
          /\ awaitingTriage' \in {awaitingTriage, awaitingTriage \cup {id}}
    BY DEF OpenIncident
  <1> HIDE DEF s
  <1>5. id \in NewIds(s)
    BY <1>2 DEF NewIds
  <1>6. /\ StoreOK(store') /\ Justified(store', IdleTtl) /\ Frame(s, store')
        /\ DOMAIN store'.incidents = DOMAIN s.incidents \cup {id}
        /\ ~store'.incidents[id].triage
        /\ store'.incidents[id].investigation = Uninvestigated
    BY <1>1, <1>2, <1>3, <1>4, <1>5, OpensOK, IdleTtlAssumption
  <1>7. Frame(store, store')
    BY <1>2, <1>6, FrameTransitive
  <1>8. /\ awaitingTriage' \subseteq DOMAIN store'.incidents
        /\ awaitingInvestigation' \subseteq DOMAIN store'.incidents
        /\ AskedInOrderAndOnce'
    <2> DEFINE new == {id}
    <2>1. /\ DOMAIN store'.incidents = DOMAIN store.incidents \cup new
          /\ new \cap DOMAIN store.incidents = {}
          /\ \A i \in new : /\ ~store'.incidents[i].triage
                            /\ store'.incidents[i].investigation
                                 = Uninvestigated
          /\ awaitingTriage' \subseteq awaitingTriage \cup new
          /\ awaitingTriage \subseteq awaitingTriage'
          /\ UNCHANGED awaitingInvestigation
      BY <1>2, <1>3, <1>4, <1>6 DEF NewIds
    <2> HIDE DEF new
    <2> QED
      BY <1>7, <2>1, AlertKeepsQuestions
  <1>9. StoreOK(store)' /\ Justified(store, IdleTtl)'
    BY <1>6 DEF StoreOK, Justified
  <1>10. IdleBefore(store, now - IdleTtl) \cap OpenIds(store') = {}
    BY <1>2, <1>6, ClosedStayClosed DEF IdleBefore, OpenIds
  <1> QED
    BY <1>7, <1>8, <1>9, <1>10 DEF IInv

\* record_triage keeps the invariant and changes no more than an answer: the
\* incident was waiting, so it had neither a triage nor an investigation.
LEMMA RecordTriageIInv ==
  ASSUME IInv, NEW id \in IncidentIds, RecordTriage(id)
  PROVE  IInv' /\ SameButAnswers(store, store')
  <1>1. /\ StoreOK(store) /\ Justified(store, IdleTtl)
        /\ id \in DOMAIN store.incidents /\ id \in awaitingTriage
        /\ awaitingTriage' = awaitingTriage \ {id}
        /\ store' = SetTriage(store, id)
        /\ \/ UNCHANGED awaitingInvestigation
           \/ awaitingInvestigation' = awaitingInvestigation \cup {id}
    BY DEF IInv, RecordTriage
  <1>2. StoreTypeOK(store') /\ SameButAnswers(store, store')
    BY <1>1, SetTriageOK
  <1>3. StoreOK(store')
    BY <1>1, <1>2, AnswersOK
  <1>4. Justified(store', IdleTtl)
    BY <1>1, <1>2, AnswersJustified
  <1>5. /\ DOMAIN store'.incidents = DOMAIN store.incidents
        /\ store'.incidents[id].triage
        /\ store'.incidents[id].investigation
             = store.incidents[id].investigation
        /\ \A i \in DOMAIN store.incidents :
             i # id => store'.incidents[i] = store.incidents[i]
    <2>1. store.incidents[id] \in Incident
      BY <1>1 DEF StoreOK, StoreTypeOK
    <2> QED
      BY <1>1, <1>2, <2>1
         DEF SetTriage, Exists, SameButAnswers, StoreOK, StoreTypeOK, Incident
  <1>6. /\ awaitingTriage' \subseteq DOMAIN store'.incidents
        /\ awaitingInvestigation' \subseteq DOMAIN store'.incidents
    BY <1>1, <1>5 DEF IInv
  <1>7. AskedInOrderAndOnce'
    <2>1. ~store.incidents[id].triage
          /\ store.incidents[id].investigation = Uninvestigated
      BY <1>1 DEF IInv, AskedInOrderAndOnce
    <2> QED
      BY <1>1, <1>5, <2>1 DEF IInv, AskedInOrderAndOnce
  <1>8. StoreOK(store)' /\ Justified(store, IdleTtl)'
    BY <1>3, <1>4 DEF StoreOK, Justified
  <1> QED
    BY <1>2, <1>6, <1>7, <1>8 DEF IInv

\* record_investigation keeps the invariant and changes no more than an
\* answer: the incident was waiting, so it had a triage.
LEMMA RecordInvestigationIInv ==
  ASSUME IInv, NEW id \in IncidentIds, NEW outcome \in Outcomes,
         RecordInvestigation(id, outcome)
  PROVE  IInv' /\ SameButAnswers(store, store')
  <1>1. /\ StoreOK(store) /\ Justified(store, IdleTtl)
        /\ id \in DOMAIN store.incidents /\ id \in awaitingInvestigation
        /\ awaitingInvestigation' = awaitingInvestigation \ {id}
        /\ store' = SetInvestigation(store, id, outcome)
        /\ UNCHANGED awaitingTriage
    BY DEF IInv, RecordInvestigation
  <1>2. StoreTypeOK(store') /\ SameButAnswers(store, store')
    BY <1>1, SetInvestigationOK
  <1>3. StoreOK(store')
    BY <1>1, <1>2, AnswersOK
  <1>4. Justified(store', IdleTtl)
    BY <1>1, <1>2, AnswersJustified
  <1>5. /\ DOMAIN store'.incidents = DOMAIN store.incidents
        /\ store'.incidents[id].triage = store.incidents[id].triage
        /\ \A i \in DOMAIN store.incidents :
             i # id => store'.incidents[i] = store.incidents[i]
    <2>1. store.incidents[id] \in Incident
      BY <1>1 DEF StoreOK, StoreTypeOK
    <2> QED
      BY <1>1, <1>2, <2>1
         DEF SetInvestigation, Exists, SameButAnswers, StoreOK, StoreTypeOK,
             Incident
  <1>6. /\ awaitingTriage' \subseteq DOMAIN store'.incidents
        /\ awaitingInvestigation' \subseteq DOMAIN store'.incidents
    BY <1>1, <1>5 DEF IInv
  <1>7. AskedInOrderAndOnce'
    BY <1>1, <1>5 DEF IInv, AskedInOrderAndOnce
  <1>8. StoreOK(store)' /\ Justified(store, IdleTtl)'
    BY <1>3, <1>4 DEF StoreOK, Justified
  <1> QED
    BY <1>2, <1>6, <1>7, <1>8 DEF IInv

\* Every step keeps the invariant.
LEMMA NextIInv == IInv /\ [Next]_vars => IInv'
  <1> SUFFICES ASSUME IInv, [Next]_vars PROVE IInv'
    OBVIOUS
  <1>1. CASE \E a \in Alert, now \in Times : SettleAlert(a, now)
    BY <1>1, SettleAlertIInv
  <1>2. CASE \E a \in Alert, now \in Times : OpenIncident(a, now)
    BY <1>2, OpenIncidentIInv
  <1>3. CASE \E id \in IncidentIds : RecordTriage(id)
    BY <1>3, RecordTriageIInv
  <1>4. CASE \E id \in IncidentIds, outcome \in Outcomes :
               RecordInvestigation(id, outcome)
    BY <1>4, RecordInvestigationIInv
  <1>5. CASE UNCHANGED vars
    BY <1>5 DEF vars, IInv, StoreOK, StoreTypeOK, AlertsIndexed, KeysIndexed,
                Justified, AskedInOrderAndOnce
  <1> QED
    BY <1>1, <1>2, <1>3, <1>4, <1>5 DEF Next

\* The inductive invariant holds whatever alerts come, in whatever order the
\* answers return and wherever the clock is set (worker.rs:35).
THEOREM Invariance == Spec => []IInv
  BY InitIInv, NextIInv, PTL DEF Spec

(***************************************************************************)
(* The invariants the runs check.                                          *)
(***************************************************************************)

\* The store and the two sets of questions keep their types, whatever the
\* alerts and the clock (store.rs:31).
THEOREM TypeCorrect == Spec => []TypeOK
  <1>1. IInv => TypeOK
    BY DEF IInv, TypeOK, StoreOK
  <1> QED
    BY <1>1, Invariance, PTL

\* find_open_by_alert and find_open_by_key answer with an incident exactly
\* for the alerts and the keys of open incidents, hence no two of them share
\* either (store.rs:68, store.rs:74).
THEOREM IndexesAreExact == Spec => []IndexesExact
  <1>1. IInv => IndexesExact
    BY DEF IInv, IndexesExact, StoreOK
  <1> QED
    BY <1>1, Invariance, PTL

\* An incident never lists an alert twice nor one of another key
\* (dedupe.rs:39).
THEOREM AlertsAreDistinct == Spec => []AlertsDistinctAndKeyed
  <1>1. IInv => AlertsDistinctAndKeyed
    BY DEF IInv, AlertsDistinctAndKeyed, StoreOK
  <1> QED
    BY <1>1, Invariance, PTL

\* Incidents are closed as resolved exactly when their last alert resolves
\* (dedupe.rs:24).
THEOREM ResolvedIsRight == Spec => []ResolvedWhenAllResolved
  <1>1. IInv => ResolvedWhenAllResolved
    BY DEF IInv, Justified, ResolvedWhenAllResolved
  <1> QED
    BY <1>1, Invariance, PTL

\* Incidents are closed as idle only after more than the TTL of silence, on
\* any wall clock (worker.rs:73).
THEOREM IdleIsSilent == Spec => []IdleMeansSilent
  <1>1. IInv => IdleMeansSilent
    BY DEF IInv, Justified, IdleMeansSilent
  <1> QED
    BY <1>1, Invariance, PTL

\* One triage, then one investigation, per incident (worker.rs:162).
THEOREM QuestionsInOrder == Spec => []AskedInOrderAndOnce
  <1>1. IInv => AskedInOrderAndOnce
    BY DEF IInv
  <1> QED
    BY <1>1, Invariance, PTL

(***************************************************************************)
(* The action properties the runs check.                                   *)
(***************************************************************************)

\* A step of Next either leaves all answers and all closed incidents alone,
\* or only records an answer.
LEMMA NextFrame ==
  IInv /\ [Next]_vars =>
    \/ Frame(store, store')
    \/ SameButAnswers(store, store')
  <1> SUFFICES ASSUME IInv, [Next]_vars
               PROVE  \/ Frame(store, store')
                      \/ SameButAnswers(store, store')
    OBVIOUS
  <1>1. CASE \E a \in Alert, now \in Times : SettleAlert(a, now)
    BY <1>1, SettleAlertIInv
  <1>2. CASE \E a \in Alert, now \in Times : OpenIncident(a, now)
    BY <1>2, OpenIncidentIInv
  <1>3. CASE \E id \in IncidentIds : RecordTriage(id)
    BY <1>3, RecordTriageIInv
  <1>4. CASE \E id \in IncidentIds, outcome \in Outcomes :
               RecordInvestigation(id, outcome)
    BY <1>4, RecordInvestigationIInv
  <1>5. CASE UNCHANGED vars
    BY <1>5 DEF vars, Frame
  <1> QED
    BY <1>1, <1>2, <1>3, <1>4, <1>5 DEF Next

\* Nothing reopens, recloses or changes a closed incident but its answers
\* (store.rs:130).
THEOREM ClosedStaysClosed == Spec => ClosedIsFinal
  <1> DEFINE Final ==
        \A i \in DOMAIN store.incidents \ OpenIds(store) :
          /\ i \in DOMAIN store'.incidents
          /\ store'.incidents[i].state = store.incidents[i].state
          /\ store'.incidents[i].alerts = store.incidents[i].alerts
          /\ store'.incidents[i].lastActivityAt =
               store.incidents[i].lastActivityAt
  <1>1. IInv /\ [Next]_vars => Final
    BY NextFrame DEF Frame, SameButAnswers
  <1>2. IInv /\ [Next]_vars => [Final]_vars
    BY <1>1
  <1> HIDE DEF Final
  <1>3. Spec => [][Final]_vars
    BY <1>2, Invariance, PTL DEF Spec
  <1> QED
    BY <1>3 DEF Final, ClosedIsFinal

\* No alert revives an incident that has been idle for longer than the TTL
\* (worker.rs:73).
THEOREM IdleIsNeverRevived == Spec => IdleNeverRevived
  <1> DEFINE NoneRevived ==
        \A now \in Times :
          IdleBefore(store, now - IdleTtl) \cap OpenIds(store') # {} =>
            ~\E a \in Alert : SettleAlert(a, now) \/ OpenIncident(a, now)
  <1>1. IInv /\ [Next]_vars => NoneRevived
    BY SettleAlertIInv, OpenIncidentIInv
  <1>2. IInv /\ [Next]_vars => [NoneRevived]_vars
    BY <1>1
  <1> HIDE DEF NoneRevived
  <1>3. Spec => [][NoneRevived]_vars
    BY <1>2, Invariance, PTL DEF Spec
  <1> QED
    BY <1>3 DEF NoneRevived, IdleNeverRevived

\* An answer on record is never replaced: only an incident that has no
\* investigation can be waiting for one (worker.rs:217).
THEOREM AnswersStay == Spec => AnswersAreKept
  <1> DEFINE Kept ==
        \A i \in DOMAIN store.incidents :
          /\ store.incidents[i].triage => store'.incidents[i].triage
          /\ store.incidents[i].investigation # Uninvestigated =>
               store'.incidents[i].investigation =
                 store.incidents[i].investigation
  <1>1. ASSUME IInv, [Next]_vars PROVE Kept
    <2>1. CASE Frame(store, store')
      BY <2>1 DEF Frame
    <2>2. ASSUME NEW id \in IncidentIds, RecordTriage(id)
          PROVE  Kept
      <3>1. /\ id \in DOMAIN store.incidents
            /\ store' = SetTriage(store, id)
            /\ \A i \in DOMAIN store.incidents :
                 store.incidents[i] \in Incident
        BY <1>1, <2>2 DEF IInv, RecordTriage, StoreOK, StoreTypeOK
      <3> QED
        BY <1>1, <3>1 DEF SetTriage, Exists, IInv, StoreOK, StoreTypeOK,
                          Incident
    <2>3. ASSUME NEW id \in IncidentIds, NEW outcome \in Outcomes,
                 RecordInvestigation(id, outcome)
          PROVE  Kept
      <3>1. /\ id \in DOMAIN store.incidents
            /\ store' = SetInvestigation(store, id, outcome)
            /\ store.incidents[id].investigation = Uninvestigated
            /\ \A i \in DOMAIN store.incidents :
                 store.incidents[i] \in Incident
        BY <1>1, <2>3 DEF IInv, RecordInvestigation, AskedInOrderAndOnce,
                          StoreOK, StoreTypeOK
      <3> QED
        BY <1>1, <3>1 DEF SetInvestigation, Exists, IInv, StoreOK,
                          StoreTypeOK, Incident
    <2>4. CASE UNCHANGED vars
      BY <2>4 DEF vars
    <2> QED
      BY <1>1, <2>1, <2>2, <2>3, <2>4, SettleAlertIInv, OpenIncidentIInv
         DEF Next
  <1>2. IInv /\ [Next]_vars => [Kept]_vars
    BY <1>1
  <1> HIDE DEF Kept
  <1>3. Spec => [][Kept]_vars
    BY <1>2, Invariance, PTL DEF Spec
  <1> QED
    BY <1>3 DEF Kept, AnswersAreKept

(***************************************************************************)
(* Refinement.  A handler shows as one step of the abstract life of        *)
(* incidents: phase, key, held and stage change together as it says.       *)
(***************************************************************************)

\* The state of an incident, open or closed.
LEMMA TagShown ==
  ASSUME NEW s, StoreTypeOK(s)
  PROVE  \A i \in DOMAIN s.incidents :
           s.incidents[i].state.tag = IF i \in OpenIds(s) THEN "open"
                                                          ELSE "closed"
  <1>1. \A i \in DOMAIN s.incidents : s.incidents[i].state \in States
    BY DEF StoreTypeOK, Incident
  <1> QED
    BY <1>1 DEF States, Open, OpenIds, IsOpen

\* The phase of the abstract specification says which incidents are open.
LEMMA PhaseShown ==
  ASSUME IInv
  PROVE  /\ \A i \in IncidentIds :
              PhaseOf(i) = IF i \in OpenIds(store) THEN "open"
                           ELSE IF i \in DOMAIN store.incidents THEN "closed"
                           ELSE "unborn"
         /\ DOMAIN store.incidents \subseteq IncidentIds
         /\ OpenIds(store) \subseteq DOMAIN store.incidents
  <1>1. StoreTypeOK(store)
    BY DEF IInv, StoreOK
  <1> QED
    BY <1>1, TagShown DEF StoreTypeOK, PhaseOf, Born, OpenIds

LEMMA PhaseShownNext ==
  ASSUME IInv'
  PROVE  \A i \in IncidentIds :
           PhaseOf(i)' = IF i \in OpenIds(store') THEN "open"
                         ELSE IF i \in DOMAIN store'.incidents THEN "closed"
                         ELSE "unborn"
  <1>1. StoreTypeOK(store')
    BY DEF IInv, StoreOK
  <1> QED
    BY <1>1, TagShown DEF StoreTypeOK, PhaseOf, Born, OpenIds

\* What an alert closes shows in the phase alone; no answer is touched, so
\* the stage of an incident stays unless it is asked for a triage.
LEMMA ShownAfterAlert ==
  ASSUME IInv, IInv', Frame(store, store'), UNCHANGED awaitingInvestigation,
         NEW i \in DOMAIN store.incidents,
         i \in awaitingTriage' <=> i \in awaitingTriage
  PROVE  i \in IncidentIds /\ StageOf(i)' = StageOf(i)
  <1>1. /\ i \in IncidentIds /\ i \in DOMAIN store'.incidents
        /\ store'.incidents[i].triage = store.incidents[i].triage
        /\ store'.incidents[i].investigation
             = store.incidents[i].investigation
    BY PhaseShown DEF Frame
  <1> QED
    BY <1>1 DEF StageOf, Born, AnsweredStage

LEMMA InitShown == Init => Lifecycle!Init
  <1> SUFFICES ASSUME Init PROVE Lifecycle!Init
    OBVIOUS
  <1>1. Born = {}
    BY DEF Init, Born, NewStore, EmptyMap
  <1> QED
    BY <1>1 DEF Lifecycle!Init, PhaseOf, KeyHeld, RefsHeld, StageOf

\* The handling of an alert that opens nothing: some incidents close, and
\* one of those left may gain the alert.
LEMMA SettleShown ==
  ASSUME IInv, NEW a \in Alert, NEW now \in Times, SettleAlert(a, now)
  PROVE  Lifecycle!Next
  <1> DEFINE s == Swept(now)
             idle == IdleBefore(store, now - IdleTtl)
  <1>1. now \in Int
    BY TimesAssumption
  <1>2. /\ StoreOK(s) /\ Keeps(store, s, idle)
        /\ Settles(s, a, now, store')
        /\ UNCHANGED <<awaitingTriage, awaitingInvestigation>>
    BY <1>1, SweepOK, SweepKeeps, IdleTtlAssumption
       DEF IInv, Swept, SettleAlert
  <1>3. IInv' /\ Frame(store, store')
    BY SettleAlertIInv
  <1> HIDE DEF s, idle
  <1>4. \/ \E closing : Keeps(s, store', closing)
        \/ \E id : Gains(s, store', id, RefOf(a))
    BY <1>1, <1>2, SettlesShows
  <1>5. /\ DOMAIN store'.incidents = DOMAIN store.incidents
        /\ \A i \in IncidentIds : /\ KeyHeld(i)' = KeyHeld(i)
                                  /\ StageOf(i)' = StageOf(i)
    <2>1. DOMAIN store'.incidents = DOMAIN store.incidents
      BY <1>2, <1>4 DEF Keeps, Gains
    <2>2. \A i \in DOMAIN store.incidents : KeyHeld(i)' = KeyHeld(i)
      BY <1>2, <1>4, <2>1 DEF Keeps, Gains, KeyHeld, Born
    <2>3. \A i \in DOMAIN store.incidents : StageOf(i)' = StageOf(i)
      BY <1>2, <1>3, ShownAfterAlert
    <2> QED
      BY <2>1, <2>2, <2>3 DEF KeyHeld, StageOf, Born
  <1>6. ASSUME NEW closing, Keeps(s, store', closing)
        PROVE  Lifecycle!CloseSome(idle \cup closing)
    <2>1. Keeps(store, store', idle \cup closing)
      BY <1>2, <1>6 DEF Keeps
    <2>2. \A i \in IncidentIds :
            /\ RefsHeld(i)' = RefsHeld(i)
            /\ PhaseOf(i)' = IF i \in idle \cup closing THEN "closed"
                                                        ELSE PhaseOf(i)
      <3>1. \A i \in IncidentIds : RefsHeld(i)' = RefsHeld(i)
        BY <2>1 DEF Keeps, RefsHeld, Born
      <3>2. \A i \in IncidentIds :
              PhaseOf(i)' = IF i \in idle \cup closing THEN "closed"
                                                       ELSE PhaseOf(i)
        BY <1>3, <2>1, PhaseShown, PhaseShownNext DEF Keeps
      <3> QED
        BY <3>1, <3>2
    <2> QED
      BY <1>5, <2>1, <2>2, PhaseShown
         DEF Keeps, Lifecycle!CloseSome, Lifecycle!OpenSet,
             Lifecycle!PhaseAfter
  <1>7. ASSUME NEW id, Gains(s, store', id, RefOf(a))
        PROVE  Lifecycle!Join(idle, id, RefOf(a))
    <2>1. \A i \in IncidentIds :
            /\ RefsHeld(i)' = IF i = id THEN RefsHeld(i) \cup {RefOf(a)}
                                        ELSE RefsHeld(i)
            /\ PhaseOf(i)' = IF i \in idle THEN "closed" ELSE PhaseOf(i)
      <3>1. \A i \in IncidentIds :
              RefsHeld(i)' = IF i = id THEN RefsHeld(i) \cup {RefOf(a)}
                                       ELSE RefsHeld(i)
        BY <1>2, <1>7, PhaseShown DEF Keeps, Gains, RefsHeld, Born, OpenIds
      <3>2. \A i \in IncidentIds :
              PhaseOf(i)' = IF i \in idle THEN "closed" ELSE PhaseOf(i)
        BY <1>2, <1>3, <1>7, PhaseShown, PhaseShownNext DEF Keeps, Gains
      <3> QED
        BY <3>1, <3>2
    <2>2. /\ idle \subseteq OpenIds(store) /\ id \in OpenIds(store) \ idle
          /\ \A i \in OpenIds(store) \ idle : RefOf(a) \notin RefsHeld(i)
      BY <1>2, <1>7, PhaseShown DEF Keeps, Gains, RefsHeld, Born
    <2> QED
      BY <1>5, <2>1, <2>2, PhaseShown
         DEF Lifecycle!Join, Lifecycle!OpenSet, Lifecycle!PhaseAfter
  <1>8. RefOf(a) \in Refs /\ idle \subseteq IncidentIds
    BY <1>2, PhaseShown DEF RefOf, Refs, Alert, Keeps
  <1> QED
    BY <1>2, <1>4, <1>6, <1>7, <1>8, PhaseShown
       DEF Lifecycle!Next, Keeps, Gains

\* The handling of an alert that opens an incident: the sweep and the opening
\* show as one step.
LEMMA OpenShown ==
  ASSUME IInv, NEW a \in Alert, NEW now \in Times, OpenIncident(a, now)
  PROVE  Lifecycle!Next
  <1> DEFINE s == Swept(now)
             idle == IdleBefore(store, now - IdleTtl)
  <1>1. now \in Int
    BY TimesAssumption
  <1>2. StoreOK(s) /\ Keeps(store, s, idle) /\ Opens(s, a)
    BY <1>1, SweepOK, SweepKeeps, IdleTtlAssumption
       DEF IInv, Swept, OpenIncident
  <1>3. PICK id \in NewIds(store) :
          /\ store' = Insert(s, id, NewIncident(a, now))
          /\ awaitingTriage' \in {awaitingTriage, awaitingTriage \cup {id}}
    BY DEF OpenIncident
  <1>4. IInv' /\ Frame(store, store') /\ UNCHANGED awaitingInvestigation
    BY OpenIncidentIInv DEF OpenIncident
  <1> HIDE DEF s, idle
  <1>5. id \in NewIds(s) /\ id \in IncidentIds \ DOMAIN store.incidents
    BY <1>2, <1>3 DEF NewIds, Keeps
  <1>6. /\ OpenIds(store') = OpenIds(s) \cup {id}
        /\ DOMAIN store'.incidents = DOMAIN s.incidents \cup {id}
        /\ store'.incidents[id] = NewIncident(a, now)
        /\ store'.incidents[id].key = KeyOf(a)
        /\ RefsOf(store'.incidents[id]) = {RefOf(a)}
        /\ \A i \in DOMAIN s.incidents :
             /\ store'.incidents[i].key = s.incidents[i].key
             /\ RefsOf(store'.incidents[i]) = RefsOf(s.incidents[i])
        /\ \A i \in OpenIds(s) : /\ s.incidents[i].key # KeyOf(a)
                                 /\ RefOf(a) \notin RefsOf(s.incidents[i])
    BY <1>1, <1>2, <1>3, <1>5, InsertOK, OpensShows
  <1>7. /\ id \in Lifecycle!Unborn
        /\ \A i \in IncidentIds :
             PhaseOf(i)' = IF i = id THEN "open"
                           ELSE IF i \in idle THEN "closed" ELSE PhaseOf(i)
    <2>1. \A i \in IncidentIds :
            PhaseOf(i)' = IF i = id THEN "open"
                          ELSE IF i \in idle THEN "closed" ELSE PhaseOf(i)
      BY <1>2, <1>4, <1>5, <1>6, PhaseShown, PhaseShownNext DEF Keeps
    <2>2. PhaseOf(id) = "unborn"
      BY <1>5 DEF PhaseOf, Born
    <2> QED
      BY <1>5, <2>1, <2>2 DEF Lifecycle!Unborn
  <1>8. \A i \in IncidentIds :
          /\ KeyHeld(i)' = IF i = id THEN KeyOf(a) ELSE KeyHeld(i)
          /\ RefsHeld(i)' = IF i = id THEN {RefOf(a)} ELSE RefsHeld(i)
    BY <1>2, <1>6 DEF Keeps, KeyHeld, RefsHeld, Born
  <1>9. /\ idle \subseteq OpenIds(store)
        /\ \A i \in OpenIds(store) \ idle : /\ KeyHeld(i) # KeyOf(a)
                                            /\ RefOf(a) \notin RefsHeld(i)
    BY <1>2, <1>6, PhaseShown DEF Keeps, KeyHeld, RefsHeld, Born
  <1>10. \A i \in IncidentIds : i # id => StageOf(i)' = StageOf(i)
    <2> SUFFICES ASSUME NEW i \in IncidentIds, i # id
                 PROVE  StageOf(i)' = StageOf(i)
      OBVIOUS
    <2>1. CASE i \in DOMAIN store.incidents
      BY <1>3, <1>4, <2>1, ShownAfterAlert
    <2>2. CASE i \notin DOMAIN store.incidents
      BY <1>2, <1>6, <2>2 DEF StageOf, Born, Keeps
    <2> QED
      BY <2>1, <2>2
  <1>11. StageOf(id)' \in {"untriaged", "triaging"}
    <2>1. id \notin awaitingInvestigation'
      BY <1>4, <1>5 DEF IInv
    <2> QED
      BY <1>6, <2>1 DEF StageOf, Born, AnsweredStage, NewIncident
  <1>12. Lifecycle!OpenOne(idle, id, KeyOf(a), RefOf(a))
    <2>1. \E stage \in {"untriaged", "triaging"} :
            [i \in IncidentIds |-> StageOf(i)]' =
              [[i \in IncidentIds |-> StageOf(i)] EXCEPT ![id] = stage]
      <3> WITNESS StageOf(id)' \in {"untriaged", "triaging"}
      <3> QED
        BY <1>10
    <2> QED
      BY <1>7, <1>8, <1>9, <2>1, PhaseShown
         DEF Lifecycle!OpenOne, Lifecycle!OpenSet, Lifecycle!PhaseAfter
  <1>13. /\ RefOf(a) \in Refs /\ KeyOf(a) \in Keys
         /\ idle \subseteq IncidentIds
    BY <1>9, PhaseShown DEF RefOf, Refs, KeyOf, Keys, Alert
  <1> QED
    BY <1>5, <1>12, <1>13 DEF Lifecycle!Next

\* An answer shows in the stage of its incident alone.
LEMMA AnswerShown ==
  ASSUME IInv, IInv', SameButAnswers(store, store')
  PROVE  \A i \in IncidentIds : /\ PhaseOf(i)' = PhaseOf(i)
                                /\ KeyHeld(i)' = KeyHeld(i)
                                /\ RefsHeld(i)' = RefsHeld(i)
  <1>1. OpenIds(store') = OpenIds(store)
    BY AnswersOK DEF IInv, StoreOK
  <1>2. \A i \in IncidentIds : PhaseOf(i)' = PhaseOf(i)
    BY <1>1, PhaseShown, PhaseShownNext DEF SameButAnswers
  <1> QED
    BY <1>2 DEF SameButAnswers, KeyHeld, RefsHeld, RefsOf, Born

LEMMA RecordTriageShown ==
  ASSUME IInv, NEW id \in IncidentIds, RecordTriage(id)
  PROVE  Lifecycle!Triaged(id)
  <1>1. IInv' /\ SameButAnswers(store, store')
    BY RecordTriageIInv
  <1>2. /\ id \in awaitingTriage /\ id \in DOMAIN store.incidents
        /\ id \notin awaitingInvestigation
        /\ store.incidents[id].investigation = Uninvestigated
        /\ store' = SetTriage(store, id)
        /\ awaitingTriage' = awaitingTriage \ {id}
        /\ \/ awaitingInvestigation' = awaitingInvestigation
           \/ /\ id \in OpenIds(store)
              /\ awaitingInvestigation' = awaitingInvestigation \cup {id}
    BY DEF IInv, AskedInOrderAndOnce, RecordTriage
  <1>3. /\ DOMAIN store'.incidents = DOMAIN store.incidents
        /\ \A i \in DOMAIN store.incidents :
             i # id => store'.incidents[i] = store.incidents[i]
        /\ store'.incidents[id].triage
        /\ store'.incidents[id].investigation = Uninvestigated
    <2>1. StoreTypeOK(store) /\ store.incidents[id] \in Incident
      BY <1>2 DEF IInv, StoreOK, StoreTypeOK
    <2> QED
      BY <1>2, <2>1 DEF SetTriage, Exists, StoreTypeOK, Incident
  <1>4. /\ StageOf(id) = "triaging"
        /\ \A i \in IncidentIds : i # id => StageOf(i)' = StageOf(i)
        /\ StageOf(id)' = IF id \in awaitingInvestigation'
                          THEN "investigating" ELSE "triaged"
    BY <1>2, <1>3 DEF StageOf, Born, AnsweredStage
  <1>5. StageOf(id)' = "investigating" => PhaseOf(id) = "open"
    BY <1>2, <1>4, PhaseShown
  <1>6. StageOf(id)' \in {"triaged", "investigating"}
    BY <1>4
  <1> QED
    BY <1>1, <1>4, <1>5, <1>6, AnswerShown DEF Lifecycle!Triaged

LEMMA RecordInvestigationShown ==
  ASSUME IInv, NEW id \in IncidentIds, NEW outcome \in Outcomes,
         RecordInvestigation(id, outcome)
  PROVE  Lifecycle!Investigated(id)
  <1>1. IInv' /\ SameButAnswers(store, store')
    BY RecordInvestigationIInv
  <1>2. /\ id \in awaitingInvestigation /\ id \in DOMAIN store.incidents
        /\ id \notin awaitingTriage
        /\ store' = SetInvestigation(store, id, outcome)
        /\ awaitingInvestigation' = awaitingInvestigation \ {id}
        /\ awaitingTriage' = awaitingTriage
    BY DEF IInv, AskedInOrderAndOnce, RecordInvestigation
  <1>3. /\ DOMAIN store'.incidents = DOMAIN store.incidents
        /\ \A i \in DOMAIN store.incidents :
             i # id => store'.incidents[i] = store.incidents[i]
        /\ store'.incidents[id].investigation = outcome
    <2>1. StoreTypeOK(store) /\ store.incidents[id] \in Incident
      BY <1>2 DEF IInv, StoreOK, StoreTypeOK
    <2> QED
      BY <1>2, <2>1 DEF SetInvestigation, Exists, StoreTypeOK, Incident
  <1>4. /\ StageOf(id) = "investigating"
        /\ \A i \in IncidentIds : i # id => StageOf(i)' = StageOf(i)
        /\ StageOf(id)' = "investigated"
    BY <1>2, <1>3, OutcomesAssumption DEF StageOf, Born, AnsweredStage
  <1> QED
    BY <1>1, <1>4, AnswerShown DEF Lifecycle!Investigated

LEMMA NextShown ==
  ASSUME IInv, [Next]_vars
  PROVE  [Lifecycle!Next]_Lifecycle!vars
  <1>1. CASE \E a \in Alert, now \in Times : SettleAlert(a, now)
    BY <1>1, SettleShown
  <1>2. CASE \E a \in Alert, now \in Times : OpenIncident(a, now)
    BY <1>2, OpenShown
  <1>3. CASE \E id \in IncidentIds : RecordTriage(id)
    BY <1>3, RecordTriageShown DEF Lifecycle!Next
  <1>4. CASE \E id \in IncidentIds, outcome \in Outcomes :
               RecordInvestigation(id, outcome)
    BY <1>4, RecordInvestigationShown DEF Lifecycle!Next
  <1>5. CASE UNCHANGED vars
    BY <1>5 DEF vars, Lifecycle!vars, PhaseOf, KeyHeld, RefsHeld, StageOf, Born
  <1> QED
    BY <1>1, <1>2, <1>3, <1>4, <1>5 DEF Next

\* The incident worker keeps the promises of the abstract life of incidents:
\* one open incident per key and per alert, each opened and closed once, and
\* asked for a triage and an investigation in order and at most once
\* (worker.rs:35, dedupe.rs:39).
THEOREM KeepsLifecycle == Spec => ImplementsLifecycle
  <1>1. Init => Lifecycle!Init
    BY InitShown
  <1>2. IInv /\ [Next]_vars => [Lifecycle!Next]_Lifecycle!vars
    BY NextShown
  <1> QED
    BY <1>1, <1>2, Invariance, PTL
       DEF Spec, ImplementsLifecycle, Lifecycle!Spec
==============================================================================
