------------------------------ MODULE Incidents ------------------------------
(***************************************************************************)
(* The life of incidents: the handlers of the incident worker             *)
(* (src/incident/worker.rs) on the store, one action per handler.          *)
(*                                                                         *)
(* The two model-backed workers behind the channels are reduced to two     *)
(* sets: the incidents whose triage, or investigation, was asked for and   *)
(* has not come back.  An answer may come at any later time or never.      *)
(* Module Pipeline puts the channels and the workers back.                 *)
(*                                                                         *)
(* Utc::now() is the wall clock, which may be set back between two alerts: *)
(* every reading is any instant of Times.                                  *)
(***************************************************************************)
EXTENDS Dedupe

CONSTANTS
  Times,         \* readings of the wall clock
  IdleTtl        \* incidents.idle_ttl of the configuration

ASSUME TimesAssumption == Times \subseteq Int
ASSUME IdleTtlAssumption == IdleTtl \in Nat

VARIABLES
  store,                  \* the InMemoryStore the worker owns
  awaitingTriage,         \* incidents with a triage request under way
  awaitingInvestigation   \* incidents with an investigation under way

vars == <<store, awaitingTriage, awaitingInvestigation>>

Init ==
  /\ store = NewStore
  /\ awaitingTriage = {}
  /\ awaitingInvestigation = {}

-----------------------------------------------------------------------------
(***************************************************************************)
(* Actions.                                                                *)
(***************************************************************************)

\* Fault: nothing is swept.
Unswept(now) == store

\* Every alert first sweeps the incidents idle for longer than the TTL; the
\* rest of the handler works on the swept store.
Swept(now) == ExpireIdleBefore(store, now - IdleTtl, now)

\* handle_alert, when decide() opens nothing.
SettleAlert(a, now) ==
  /\ Settles(Swept(now), a, now, store')
  /\ UNCHANGED <<awaitingTriage, awaitingInvestigation>>

\* handle_alert, when decide() opens an incident.  request_triage either
\* queues a request or sheds it: the queue is full or closed.
OpenIncident(a, now) ==
  /\ Opens(Swept(now), a)
  /\ \E id \in NewIds(store) :
       /\ store' = Insert(Swept(now), id, NewIncident(a, now))
       /\ awaitingTriage' \in {awaitingTriage, awaitingTriage \cup {id}}
  /\ UNCHANGED awaitingInvestigation

\* Fault: a triage result asks for an investigation of a closed incident too.
RecordTriageUnchecked(id) ==
  /\ id \in awaitingTriage
  /\ awaitingTriage' = awaitingTriage \ {id}
  /\ store' = SetTriage(store, id)
  /\ awaitingInvestigation' = awaitingInvestigation \cup {id}

\* record_triage: the result is kept whatever became of the incident; only
\* one still open asks for an investigation, which the queue may shed.
RecordTriage(id) ==
  /\ id \in awaitingTriage
  /\ awaitingTriage' = awaitingTriage \ {id}
  /\ store' = SetTriage(store, id)
  /\ \/ UNCHANGED awaitingInvestigation
     \/ /\ id \in OpenIds(store)
        /\ awaitingInvestigation' = awaitingInvestigation \cup {id}

\* Fault: an investigation that failed is asked for again.
RecordAndRetry(id, outcome) ==
  /\ id \in awaitingInvestigation
  /\ awaitingInvestigation' =
       IF outcome = "failed" THEN awaitingInvestigation
                             ELSE awaitingInvestigation \ {id}
  /\ store' = SetInvestigation(store, id, outcome)
  /\ UNCHANGED awaitingTriage

\* record_investigation
RecordInvestigation(id, outcome) ==
  /\ id \in awaitingInvestigation
  /\ awaitingInvestigation' = awaitingInvestigation \ {id}
  /\ store' = SetInvestigation(store, id, outcome)
  /\ UNCHANGED awaitingTriage

Next ==
  \/ \E a \in Alert, now \in Times : SettleAlert(a, now)
  \/ \E a \in Alert, now \in Times : OpenIncident(a, now)
  \/ \E id \in IncidentIds : RecordTriage(id)
  \/ \E id \in IncidentIds, outcome \in Outcomes :
       RecordInvestigation(id, outcome)

Spec == Init /\ [][Next]_vars

-----------------------------------------------------------------------------
(***************************************************************************)
(* Invariants.                                                             *)
(***************************************************************************)

TypeOK ==
  /\ StoreTypeOK(store)
  /\ awaitingTriage \subseteq DOMAIN store.incidents
  /\ awaitingInvestigation \subseteq DOMAIN store.incidents

\* Both indexes agree with the incidents: the alert index names exactly the
\* alerts of the open incidents and the key index exactly their keys, each
\* under its own incident.  Otherwise find_open_by_alert would hand out a
\* closed incident, two open incidents could share a key, or close() would
\* prune the entry of another incident (store.rs:68, store.rs:130,
\* store.rs:143).
IndexesExact == AlertsIndexed(store) /\ KeysIndexed(store)

\* An incident lists each alert once, and only alerts with its own key:
\* set_alert_status writes the first match (store.rs:96), so a second copy
\* would keep its incident from ever resolving.
AlertsDistinctAndKeyed ==
  \A i \in DOMAIN store.incidents : WellFormed(store.incidents[i])

\* An incident is closed as resolved only with every alert resolved, and
\* never while one of them still fires (dedupe.rs:24).
ResolvedWhenAllResolved ==
  \A i \in DOMAIN store.incidents : ResolvedRight(store.incidents[i])

\* An incident closed as idle had been silent for longer than the TTL by
\* the clock reading that closed it, wherever the clock was set meanwhile
\* (worker.rs:73, store.rs:151).
IdleMeansSilent ==
  \A i \in DOMAIN store.incidents : SilentRight(store.incidents[i], IdleTtl)

\* An incident has at most one question under way, asks for its
\* investigation only after its triage, and is not asked about again once
\* it was answered (worker.rs:162: one investigation per incident).
AskedInOrderAndOnce ==
  /\ awaitingTriage \cap awaitingInvestigation = {}
  /\ \A i \in awaitingTriage : ~store.incidents[i].triage
  /\ \A i \in awaitingInvestigation :
       /\ store.incidents[i].triage
       /\ store.incidents[i].investigation = Uninvestigated
  /\ \A i \in DOMAIN store.incidents :
       store.incidents[i].investigation # Uninvestigated =>
         store.incidents[i].triage

-----------------------------------------------------------------------------
(***************************************************************************)
(* Action properties.                                                      *)
(***************************************************************************)

\* A closed incident stays as it was closed: no alert, late resolve or sweep
\* reopens it, closes it again, or touches its alerts or its last activity.
\* Only the late answers of triage and investigation are still recorded.
ClosedIsFinal ==
  [][\A i \in DOMAIN store.incidents \ OpenIds(store) :
       /\ i \in DOMAIN store'.incidents
       /\ store'.incidents[i].state = store.incidents[i].state
       /\ store'.incidents[i].alerts = store.incidents[i].alerts
       /\ store'.incidents[i].lastActivityAt =
            store.incidents[i].lastActivityAt]_vars

\* An incident that went idle is closed by the next alert, whichever incident
\* that alert is for, and never revived: an alert that belongs to it starts a
\* new incident instead (worker.rs:73 comes before worker.rs:84).  So no step
\* that leaves it open is the handling of an alert.
IdleNeverRevived ==
  [][\A now \in Times :
       IdleBefore(store, now - IdleTtl) \cap OpenIds(store') # {} =>
         ~\E a \in Alert : SettleAlert(a, now) \/ OpenIncident(a, now)]_vars

\* Answers, once recorded, are never overwritten or lost: each incident gets
\* one triage result and one investigation (worker.rs:152, worker.rs:217).
AnswersAreKept ==
  [][\A i \in DOMAIN store.incidents :
       /\ store.incidents[i].triage => store'.incidents[i].triage
       /\ store.incidents[i].investigation # Uninvestigated =>
            store'.incidents[i].investigation =
              store.incidents[i].investigation]_vars

-----------------------------------------------------------------------------
(***************************************************************************)
(* Refinement of the abstract life of incidents.                           *)
(***************************************************************************)

Born == DOMAIN store.incidents

PhaseOf(i) == IF i \in Born THEN store.incidents[i].state.tag ELSE "unborn"
KeyHeld(i) == IF i \in Born THEN store.incidents[i].key ELSE {}
RefsHeld(i) == IF i \in Born THEN RefsOf(store.incidents[i]) ELSE {}

AnsweredStage(inc) ==
  IF inc.investigation # Uninvestigated THEN "investigated"
  ELSE IF inc.triage THEN "triaged" ELSE "untriaged"

StageOf(i) ==
  IF i \notin Born THEN "untriaged"
  ELSE IF i \in awaitingTriage THEN "triaging"
  ELSE IF i \in awaitingInvestigation THEN "investigating"
  ELSE AnsweredStage(store.incidents[i])

Lifecycle == INSTANCE IncidentLifecycle WITH
  Ids   <- IncidentIds,
  phase <- [i \in IncidentIds |-> PhaseOf(i)],
  key   <- [i \in IncidentIds |-> KeyHeld(i)],
  held  <- [i \in IncidentIds |-> RefsHeld(i)],
  stage <- [i \in IncidentIds |-> StageOf(i)]

\* The handlers of the incident worker keep the promises of the abstract
\* life of incidents: one open incident per key and per alert, opened and
\* closed once, asked for a triage and an investigation in order and once.
ImplementsLifecycle == Lifecycle!Spec
==============================================================================
