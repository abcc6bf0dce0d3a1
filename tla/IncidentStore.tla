---------------------------- MODULE IncidentStore ----------------------------
(***************************************************************************)
(* The incident store: src/incident/store.rs and the data it keeps, from   *)
(* src/incident/mod.rs and src/alert.rs.                                   *)
(*                                                                         *)
(* InMemoryStore owns three hash maps: the incidents themselves, and two   *)
(* indexes that let the incident worker find the OPEN incident an alert    *)
(* belongs to, by the alert's own reference (source, id) and by its        *)
(* deduplication key (source, labels).  The maps are TLA+ functions whose  *)
(* DOMAIN is the set of keys present; every method of the IncidentStore    *)
(* trait is an operator from a store to the store it leaves.               *)
(***************************************************************************)
EXTENDS Integers, Sequences, Functions

CONSTANTS
  Sources,       \* alert sources: "pagerduty", "grafana"
  AlertIds,      \* ids a source gives to its alerts
  LabelSets,     \* label maps; only equality of two of them is observed
  IncidentIds,   \* the UUIDs IncidentId::new() may return
  Outcomes       \* how an investigation ended

(***************************************************************************)
(* Data.                                                                   *)
(***************************************************************************)

Refs == Sources \X AlertIds
Keys == Sources \X LabelSets

Statuses == {"firing", "acknowledged", "resolved"}
CloseReasons == {"resolved", "idle_ttl"}

\* Title, url and raw payload are carried along and never looked at.
Alert == [source : Sources, id : AlertIds, labels : LabelSets,
          status : Statuses]

RefOf(a) == <<a.source, a.id>>
KeyOf(a) == <<a.source, a.labels>>

Open == [tag |-> "open"]
Closed(reason, now) == [tag |-> "closed", reason |-> reason, closedAt |-> now]

States ==
  {Open} \cup [tag : {"closed"}, reason : CloseReasons, closedAt : Int]

\* Option::None of an incident's investigation.
Uninvestigated == "uninvestigated"

ASSUME OutcomesAssumption == Uninvestigated \notin Outcomes

\* opened_at is written once and read by nobody; of a triage result the
\* store only shows whether there is one.
Incident == [state : States, key : Keys, alerts : Seq(Alert),
             triage : BOOLEAN,
             investigation : Outcomes \cup {Uninvestigated},
             lastActivityAt : Int]

\* Incident::open
NewIncident(a, now) ==
  [state |-> Open, key |-> KeyOf(a), alerts |-> <<a>>, triage |-> FALSE,
   investigation |-> Uninvestigated, lastActivityAt |-> now]

IsOpen(i) == i.state.tag = "open"

RefsOf(i) == {RefOf(i.alerts[n]) : n \in DOMAIN i.alerts}

AllResolved(i) == \A n \in DOMAIN i.alerts : i.alerts[n].status = "resolved"

EmptyMap == [x \in {} |-> x]

\* HashMap::insert of one value under each key of a set
PutAll(map, ks, v) ==
  [k \in DOMAIN map \cup ks |-> IF k \in ks THEN v ELSE map[k]]
Put(map, k, v) == PutAll(map, {k}, v)

NewStore ==
  [incidents |-> EmptyMap, openByAlert |-> EmptyMap, openByKey |-> EmptyMap]

OpenIds(s) == {i \in DOMAIN s.incidents : IsOpen(s.incidents[i])}

(***************************************************************************)
(* The methods of the trait.  get_mut on an unknown id logs a bug and      *)
(* leaves the store as it is.                                              *)
(***************************************************************************)

Insert(s, id, inc) ==
  [incidents   |-> Put(s.incidents, id, inc),
   openByAlert |-> PutAll(s.openByAlert, RefsOf(inc), id),
   openByKey   |-> Put(s.openByKey, inc.key, id)]

Exists(s, id) == id \in DOMAIN s.incidents

\* find_open_by_alert and find_open_by_key return Some or None
HasOpenAlert(s, ref) == ref \in DOMAIN s.openByAlert
HasOpenKey(s, key) == key \in DOMAIN s.openByKey

\* Fault: an alert that moves makes the triage result void.
TouchedAfresh(inc, alerts, now) ==
  [inc EXCEPT !.alerts = alerts, !.lastActivityAt = now, !.triage = FALSE]

\* Every write to the alerts of an incident is an activity.
Touched(inc, alerts, now) ==
  [inc EXCEPT !.alerts = alerts, !.lastActivityAt = now]

Grown(inc, a, now) == Touched(inc, Append(inc.alerts, a), now)

\* Fault: the alert index does not learn of an attached alert.
AttachUnindexed(s, id, a, now) ==
  IF Exists(s, id)
  THEN [s EXCEPT !.incidents = Put(@, id, Grown(s.incidents[id], a, now))]
  ELSE s

\* Fault: the alert index learns of it under the wrong one of its two names.
AttachByKey(s, id, a, now) ==
  IF Exists(s, id)
  THEN [s EXCEPT !.incidents = Put(@, id, Grown(s.incidents[id], a, now)),
                 !.openByAlert = Put(@, KeyOf(a), id)]
  ELSE s

AttachAlert(s, id, a, now) ==
  IF Exists(s, id)
  THEN [s EXCEPT !.incidents = Put(@, id, Grown(s.incidents[id], a, now)),
                 !.openByAlert = Put(@, RefOf(a), id)]
  ELSE s

\* The first alert of the incident with that reference, as Iterator::find.
FirstWith(alerts, ref) ==
  CHOOSE n \in DOMAIN alerts :
    /\ RefOf(alerts[n]) = ref
    /\ \A m \in DOMAIN alerts : RefOf(alerts[m]) = ref => n <= m

WithStatus(inc, ref, status, now) ==
  LET n == FirstWith(inc.alerts, ref)
  IN Touched(inc, [inc.alerts EXCEPT ![n].status = status], now)

SetAlertStatus(s, id, ref, status, now) ==
  IF Exists(s, id) /\ ref \in RefsOf(s.incidents[id])
  THEN [s EXCEPT !.incidents =
          Put(@, id, WithStatus(s.incidents[id], ref, status, now))]
  ELSE s

SetTriage(s, id) ==
  IF Exists(s, id)
  THEN [s EXCEPT !.incidents[id].triage = TRUE]
  ELSE s

SetInvestigation(s, id, outcome) ==
  IF Exists(s, id)
  THEN [s EXCEPT !.incidents[id].investigation = outcome]
  ELSE s

Shut(inc, reason, now) == [inc EXCEPT !.state = Closed(reason, now)]

\* Fault: close() leaves the alert index as it is.
CloseKeepingAlerts(s, ids, reason, now) ==
  [s EXCEPT
     !.incidents = [i \in DOMAIN @ |->
                      IF i \in ids THEN Shut(@[i], reason, now) ELSE @[i]],
     !.openByKey = Restrict(@, {k \in DOMAIN @ :
                      \A i \in ids : k # s.incidents[i].key})]

\* Fault: close() leaves the key index as it is.
CloseKeepingKey(s, ids, reason, now) ==
  [s EXCEPT
     !.incidents = [i \in DOMAIN @ |->
                      IF i \in ids THEN Shut(@[i], reason, now) ELSE @[i]],
     !.openByAlert = Restrict(@, {r \in DOMAIN @ :
                        \A i \in ids : r \notin RefsOf(s.incidents[i])})]

\* close() of every incident in ids, in any order: each writes its own
\* incident and only removes index entries, so the order leaves no trace.
CloseAll(s, ids, reason, now) ==
  [incidents |->
     [i \in DOMAIN s.incidents |->
        IF i \in ids THEN Shut(s.incidents[i], reason, now)
                     ELSE s.incidents[i]],
   openByAlert |->
     Restrict(s.openByAlert,
              {r \in DOMAIN s.openByAlert :
                 \A i \in ids \cap DOMAIN s.incidents :
                   r \notin RefsOf(s.incidents[i])}),
   openByKey |->
     Restrict(s.openByKey,
              {k \in DOMAIN s.openByKey :
                 \A i \in ids \cap DOMAIN s.incidents :
                   k # s.incidents[i].key})]

Close(s, id, reason, now) == CloseAll(s, {id}, reason, now)

\* Fault: an incident idle for exactly the TTL counts as idle.
IdleUpTo(s, cutoff) ==
  {i \in OpenIds(s) : s.incidents[i].lastActivityAt <= cutoff}

IdleBefore(s, cutoff) ==
  {i \in OpenIds(s) : s.incidents[i].lastActivityAt < cutoff}

ExpireIdleBefore(s, cutoff, now) ==
  CloseAll(s, IdleBefore(s, cutoff), "idle_ttl", now)

(***************************************************************************)
(* What a store looks like, for any worker that owns one.                  *)
(***************************************************************************)

StoreTypeOK(s) ==
  /\ s = [incidents   |-> s.incidents,
          openByAlert |-> s.openByAlert,
          openByKey   |-> s.openByKey]
  /\ DOMAIN s.incidents \subseteq IncidentIds
  /\ s.incidents \in [DOMAIN s.incidents -> Incident]
  /\ DOMAIN s.openByAlert \subseteq Refs
  /\ s.openByAlert \in [DOMAIN s.openByAlert -> IncidentIds]
  /\ DOMAIN s.openByKey \subseteq Keys
  /\ s.openByKey \in [DOMAIN s.openByKey -> IncidentIds]

\* The alert index names exactly the alerts of the open incidents.
AlertsIndexed(s) ==
  /\ \A r \in DOMAIN s.openByAlert :
       /\ s.openByAlert[r] \in OpenIds(s)
       /\ r \in RefsOf(s.incidents[s.openByAlert[r]])
  /\ \A i \in OpenIds(s) : \A r \in RefsOf(s.incidents[i]) :
       r \in DOMAIN s.openByAlert /\ s.openByAlert[r] = i

\* The key index names exactly the keys of the open incidents.
KeysIndexed(s) ==
  /\ \A k \in DOMAIN s.openByKey :
       /\ s.openByKey[k] \in OpenIds(s)
       /\ k = s.incidents[s.openByKey[k]].key
  /\ \A i \in OpenIds(s) :
       /\ s.incidents[i].key \in DOMAIN s.openByKey
       /\ s.openByKey[s.incidents[i].key] = i

\* An incident holds alerts of its own key, each once, and at least one.
WellFormed(inc) ==
  /\ inc.alerts # <<>>
  /\ \A m, n \in DOMAIN inc.alerts :
       RefOf(inc.alerts[m]) = RefOf(inc.alerts[n]) => m = n
  /\ \A n \in DOMAIN inc.alerts : KeyOf(inc.alerts[n]) = inc.key

\* An incident is closed as resolved only with every alert resolved; while
\* it is open, and when it is closed as idle, something in it is not
\* resolved (dedupe.rs:24).
ResolvedRight(inc) ==
  IF inc.state.tag = "open" THEN ~AllResolved(inc)
  ELSE inc.state.reason = "resolved" <=> AllResolved(inc)

\* An incident closed as idle had been silent for longer than the TTL by
\* the clock reading that closed it (store.rs:151).
SilentRight(inc, ttl) ==
  inc.state.tag = "closed" /\ inc.state.reason = "idle_ttl" =>
    inc.state.closedAt - inc.lastActivityAt > ttl
==============================================================================
