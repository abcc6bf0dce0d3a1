------------------------- MODULE IncidentStoreProofs -------------------------
(***************************************************************************)
(* What the methods of the store return and preserve, for stores of any    *)
(* size.  StoreOK is what the incident worker keeps true between any two   *)
(* method calls.                                                           *)
(***************************************************************************)
EXTENDS Dedupe, TLAPS

StoreOK(s) ==
  /\ StoreTypeOK(s)
  /\ AlertsIndexed(s)
  /\ KeysIndexed(s)
  /\ \A i \in DOMAIN s.incidents : WellFormed(s.incidents[i])

\* t is s after an activity of its open incident id, whose state, key and
\* answers stay as they are.
Touches(s, t, id) ==
  /\ id \in OpenIds(s) /\ OpenIds(t) = OpenIds(s)
  /\ DOMAIN t.incidents = DOMAIN s.incidents
  /\ \A i \in DOMAIN s.incidents :
       /\ i # id => t.incidents[i] = s.incidents[i]
       /\ t.incidents[i].key = s.incidents[i].key
       /\ t.incidents[i].triage = s.incidents[i].triage
       /\ t.incidents[i].investigation = s.incidents[i].investigation

\* A status written into an alert leaves its reference and its key alone.
LEMMA AlertWithStatus ==
  ASSUME NEW alert \in Alert, NEW status \in Statuses
  PROVE  LET new == [alert EXCEPT !.status = status]
         IN /\ new \in Alert /\ new.status = status
            /\ RefOf(new) = RefOf(alert) /\ KeyOf(new) = KeyOf(alert)
  BY DEF Alert, RefOf, KeyOf

\* Alerts and a time written into an incident leave the rest of it alone.
LEMMA TouchedIncident ==
  ASSUME NEW inc \in Incident, NEW alerts \in Seq(Alert), NEW now \in Int
  PROVE  LET new == Touched(inc, alerts, now)
         IN /\ new \in Incident
            /\ new.alerts = alerts /\ new.lastActivityAt = now
            /\ new.key = inc.key /\ new.state = inc.state
            /\ new.triage = inc.triage
            /\ new.investigation = inc.investigation
  BY DEF Incident, Touched

\* A closed incident keeps everything but its state.
LEMMA ShutIncident ==
  ASSUME NEW inc \in Incident, NEW reason \in CloseReasons, NEW now \in Int
  PROVE  LET new == Shut(inc, reason, now)
         IN /\ new \in Incident /\ ~IsOpen(new)
            /\ new.state = Closed(reason, now)
            /\ new.alerts = inc.alerts /\ new.key = inc.key
            /\ new.lastActivityAt = inc.lastActivityAt
            /\ new.triage = inc.triage
            /\ new.investigation = inc.investigation
  BY DEF Shut, Incident, States, IsOpen, Closed

\* InMemoryStore::new() is in order.
LEMMA NewStoreOK == StoreOK(NewStore)
  BY DEF StoreOK, StoreTypeOK, AlertsIndexed, KeysIndexed, OpenIds, NewStore,
         EmptyMap

\* insert() of a fresh incident whose alert and key are in no index.
LEMMA InsertOK ==
  ASSUME NEW s, StoreOK(s),
         NEW id \in NewIds(s), NEW a \in Alert, NEW now \in Int, Opens(s, a)
  PROVE  LET t == Insert(s, id, NewIncident(a, now))
         IN /\ StoreOK(t)
            /\ DOMAIN t.incidents = DOMAIN s.incidents \cup {id}
            /\ t.incidents[id] = NewIncident(a, now)
            /\ \A i \in DOMAIN s.incidents : t.incidents[i] = s.incidents[i]
  <1> DEFINE inc == NewIncident(a, now)
             t == Insert(s, id, inc)
  <1>1. inc \in Incident /\ WellFormed(inc)
    BY DEF NewIncident, Incident, Alert, KeyOf, Keys, States, Open, WellFormed
  <1>2. RefsOf(inc) = {RefOf(a)} /\ inc.key = KeyOf(a) /\ IsOpen(inc)
    BY DEF RefsOf, NewIncident, IsOpen, Open
  <1>3. /\ t = [incidents |-> t.incidents, openByAlert |-> t.openByAlert,
                openByKey |-> t.openByKey]
        /\ t.incidents = [i \in DOMAIN s.incidents \cup {id} |->
                            IF i = id THEN inc ELSE s.incidents[i]]
        /\ t.openByAlert = [r \in DOMAIN s.openByAlert \cup {RefOf(a)} |->
                              IF r = RefOf(a) THEN id ELSE s.openByAlert[r]]
        /\ t.openByKey = [k \in DOMAIN s.openByKey \cup {KeyOf(a)} |->
                            IF k = KeyOf(a) THEN id ELSE s.openByKey[k]]
    BY <1>2 DEF Insert, Put, PutAll
  <1>4. /\ StoreTypeOK(s) /\ AlertsIndexed(s) /\ KeysIndexed(s)
        /\ id \in IncidentIds /\ id \notin DOMAIN s.incidents
        /\ RefOf(a) \in Refs /\ RefOf(a) \notin DOMAIN s.openByAlert
        /\ KeyOf(a) \in Keys /\ KeyOf(a) \notin DOMAIN s.openByKey
    BY DEF StoreOK, NewIds, Opens, ExactMatch, KeyMatch, HasOpenAlert,
           HasOpenKey, Alert, RefOf, KeyOf, Refs, Keys
  <1> HIDE DEF inc, t
  <1>5. OpenIds(t) = OpenIds(s) \cup {id}
    BY <1>2, <1>3, <1>4 DEF OpenIds
  <1>6. StoreTypeOK(t)
    BY <1>1, <1>3, <1>4 DEF StoreTypeOK
  <1>7. AlertsIndexed(t)
    BY <1>2, <1>3, <1>4, <1>5, SMTT(30) DEF AlertsIndexed, OpenIds
  <1>8. KeysIndexed(t)
    <2>1. \A k \in DOMAIN t.openByKey :
            /\ t.openByKey[k] \in OpenIds(t)
            /\ k = t.incidents[t.openByKey[k]].key
      BY <1>2, <1>3, <1>4, <1>5 DEF KeysIndexed, OpenIds
    <2>2. \A i \in OpenIds(t) :
            /\ t.incidents[i].key \in DOMAIN t.openByKey
            /\ t.openByKey[t.incidents[i].key] = i
      BY <1>2, <1>3, <1>4, <1>5 DEF KeysIndexed, OpenIds
    <2> QED
      BY <2>1, <2>2 DEF KeysIndexed
  <1>9. \A i \in DOMAIN t.incidents : WellFormed(t.incidents[i])
    BY <1>1, <1>3, <1>4, SMTT(30) DEF StoreOK
  <1> QED
    BY <1>3, <1>4, <1>6, <1>7, <1>8, <1>9 DEF StoreOK, t, inc

\* attach_alert() to the open incident with the alert's key, when the alert
\* itself is in no open incident.
LEMMA AttachOK ==
  ASSUME NEW s, StoreOK(s), NEW a \in Alert, NEW now \in Int,
         ~ExactMatch(s, a), KeyMatch(s, a)
  PROVE  LET id == s.openByKey[KeyOf(a)]
             t == AttachAlert(s, id, a, now)
         IN /\ StoreOK(t) /\ Touches(s, t, id)
            /\ RefsOf(t.incidents[id]) = RefsOf(s.incidents[id]) \cup {RefOf(a)}
            /\ \E n \in DOMAIN t.incidents[id].alerts :
                 t.incidents[id].alerts[n] = a
  <1> DEFINE id == s.openByKey[KeyOf(a)]
             old == s.incidents[id]
             inc == Grown(old, a, now)
             t == AttachAlert(s, id, a, now)
  <1>1. /\ StoreTypeOK(s) /\ AlertsIndexed(s) /\ KeysIndexed(s)
        /\ RefOf(a) \in Refs /\ RefOf(a) \notin DOMAIN s.openByAlert
        /\ KeyOf(a) \in DOMAIN s.openByKey
    BY DEF StoreOK, ExactMatch, KeyMatch, HasOpenAlert, HasOpenKey, Alert,
           RefOf, Refs
  <1>2. /\ id \in OpenIds(s) /\ id \in DOMAIN s.incidents
        /\ old \in Incident /\ old.key = KeyOf(a) /\ WellFormed(old)
        /\ IsOpen(old)
    BY <1>1 DEF KeysIndexed, OpenIds, StoreTypeOK, StoreOK
  <1>3. RefOf(a) \notin RefsOf(old)
    BY <1>1, <1>2 DEF AlertsIndexed
  <1>4. /\ old.alerts \in Seq(Alert)
        /\ inc \in Incident /\ inc.alerts = Append(old.alerts, a)
        /\ inc.key = old.key /\ inc.state = old.state
        /\ inc.triage = old.triage /\ inc.investigation = old.investigation
    <2>1. old.alerts \in Seq(Alert)
      BY <1>2 DEF Incident
    <2>2. Append(old.alerts, a) \in Seq(Alert)
      BY <2>1
    <2> HIDE DEF old
    <2> QED
      BY <1>2, <2>1, <2>2, TouchedIncident, ZenonT(40) DEF Grown
  <1>5. t = [incidents |-> Put(s.incidents, id, inc),
             openByAlert |-> Put(s.openByAlert, RefOf(a), id),
             openByKey |-> s.openByKey]
    BY <1>1, <1>2 DEF AttachAlert, Exists, StoreTypeOK
  <1>6. /\ t.incidents = [i \in DOMAIN s.incidents |->
                            IF i = id THEN inc ELSE s.incidents[i]]
        /\ t.openByAlert = [r \in DOMAIN s.openByAlert \cup {RefOf(a)} |->
                              IF r = RefOf(a) THEN id ELSE s.openByAlert[r]]
        /\ t.openByKey = s.openByKey
    BY <1>2, <1>5 DEF Put, PutAll
  <1> HIDE DEF inc, t, id, old
  <1>7. RefsOf(inc) = RefsOf(old) \cup {RefOf(a)}
    BY <1>4 DEF RefsOf
  <1>8. WellFormed(inc)
    BY <1>2, <1>3, <1>4 DEF WellFormed, RefsOf
  <1>9. OpenIds(t) = OpenIds(s)
    BY <1>2, <1>4, <1>6 DEF OpenIds, IsOpen, old
  <1>10. StoreTypeOK(t)
    BY <1>1, <1>2, <1>4, <1>5, <1>6, SMTT(30) DEF StoreTypeOK
  <1>11. AlertsIndexed(t)
    BY <1>1, <1>2, <1>6, <1>7, <1>9 DEF AlertsIndexed, OpenIds, old
  <1>12. KeysIndexed(t)
    <2>1. \A i \in OpenIds(s) : t.incidents[i].key = s.incidents[i].key
      BY <1>2, <1>4, <1>6 DEF OpenIds, old
    <2>2. \A k \in DOMAIN t.openByKey :
            /\ t.openByKey[k] \in OpenIds(t)
            /\ k = t.incidents[t.openByKey[k]].key
      BY <1>1, <1>6, <1>9, <2>1 DEF KeysIndexed
    <2>3. \A i \in OpenIds(t) :
            /\ t.incidents[i].key \in DOMAIN t.openByKey
            /\ t.openByKey[t.incidents[i].key] = i
      BY <1>1, <1>6, <1>9, <2>1 DEF KeysIndexed
    <2> QED
      BY <2>2, <2>3 DEF KeysIndexed
  <1>13. \A i \in DOMAIN t.incidents : WellFormed(t.incidents[i])
    BY <1>6, <1>8 DEF StoreOK
  <1>14. Touches(s, t, id)
    BY <1>2, <1>4, <1>6, <1>9 DEF Touches, old
  <1>15. t.incidents[id].alerts[Len(old.alerts) + 1] = a
         /\ Len(old.alerts) + 1 \in DOMAIN t.incidents[id].alerts
    BY <1>2, <1>4, <1>6
  <1>16. RefsOf(t.incidents[id]) = RefsOf(s.incidents[id]) \cup {RefOf(a)}
    BY <1>2, <1>6, <1>7 DEF old
  <1> QED
    BY <1>10, <1>11, <1>12, <1>13, <1>14, <1>15, <1>16 DEF StoreOK, t, id

\* set_alert_status() of an alert the index knows.  The incident keeps its
\* key, its state and its alerts but for the status written.
LEMMA MarkOK ==
  ASSUME NEW s, StoreOK(s), NEW a \in Alert, NEW now \in Int,
         ExactMatch(s, a)
  PROVE  LET id == s.openByAlert[RefOf(a)]
             t == Marked(s, a, now)
         IN /\ StoreOK(t) /\ Touches(s, t, id)
            /\ \A i \in DOMAIN s.incidents :
                 RefsOf(t.incidents[i]) = RefsOf(s.incidents[i])
            /\ \E n \in DOMAIN t.incidents[id].alerts :
                 t.incidents[id].alerts[n].status = a.status
  <1> DEFINE id == s.openByAlert[RefOf(a)]
             old == s.incidents[id]
             n == FirstWith(old.alerts, RefOf(a))
             inc == WithStatus(old, RefOf(a), a.status, now)
             t == Marked(s, a, now)
  <1>1. /\ StoreTypeOK(s) /\ AlertsIndexed(s) /\ KeysIndexed(s)
        /\ RefOf(a) \in DOMAIN s.openByAlert
    BY DEF StoreOK, ExactMatch, HasOpenAlert
  <1>2. /\ id \in OpenIds(s) /\ id \in DOMAIN s.incidents
        /\ old \in Incident /\ WellFormed(old) /\ IsOpen(old)
        /\ RefOf(a) \in RefsOf(old)
    BY <1>1 DEF AlertsIndexed, OpenIds, StoreTypeOK, StoreOK
  <1>3. old.alerts \in Seq(Alert) /\ old.alerts # <<>>
    <2> HIDE DEF old
    <2> QED
      BY <1>2 DEF Incident, WellFormed
  <1>4. n \in DOMAIN old.alerts /\ RefOf(old.alerts[n]) = RefOf(a)
    <2> HIDE DEF old
    <2>1. PICK m \in DOMAIN old.alerts : RefOf(old.alerts[m]) = RefOf(a)
      BY <1>2 DEF RefsOf
    <2>2. \A k \in DOMAIN old.alerts : RefOf(old.alerts[k]) = RefOf(a) => m <= k
      BY <1>2, <1>3, <2>1 DEF WellFormed
    <2> QED
      BY <2>1, <2>2 DEF FirstWith
  <1> DEFINE marked == [old.alerts EXCEPT ![n].status = a.status]
  <1>5. inc = Touched(old, marked, now)
    BY DEF WithStatus
  <1>6. t = [incidents |-> Put(s.incidents, id, inc),
             openByAlert |-> s.openByAlert, openByKey |-> s.openByKey]
    BY <1>1, <1>2 DEF Marked, SetAlertStatus, Exists, StoreTypeOK
  <1>7. /\ t.incidents = [i \in DOMAIN s.incidents |->
                            IF i = id THEN inc ELSE s.incidents[i]]
        /\ t.openByAlert = s.openByAlert
        /\ t.openByKey = s.openByKey
    BY <1>2, <1>6 DEF Put, PutAll
  <1> HIDE DEF inc, t, id, old, n
  <1>8. /\ marked \in Seq(Alert) /\ DOMAIN marked = DOMAIN old.alerts
        /\ marked # <<>> /\ marked[n].status = a.status
        /\ \A m \in DOMAIN marked : /\ RefOf(marked[m]) = RefOf(old.alerts[m])
                                    /\ KeyOf(marked[m]) = KeyOf(old.alerts[m])
    <2>1. a.status \in Statuses
      BY DEF Alert
    <2> DEFINE new == [old.alerts[n] EXCEPT !.status = a.status]
    <2>2. /\ new \in Alert /\ new.status = a.status
          /\ RefOf(new) = RefOf(old.alerts[n])
          /\ KeyOf(new) = KeyOf(old.alerts[n])
      <3>1. old.alerts[n] \in Alert
        BY <1>3, <1>4
      <3> QED
        BY <2>1, <3>1, AlertWithStatus
    <2>3. marked = [m \in DOMAIN old.alerts |->
                      IF m = n THEN new ELSE old.alerts[m]]
      BY <1>3, <1>4
    <2> HIDE DEF new
    <2> HIDE DEF marked
    <2>4. marked \in Seq(Alert) /\ Len(marked) = Len(old.alerts)
      BY <1>3, <2>2, <2>3
    <2>5. marked # <<>>
      BY <1>3, <2>4
    <2>6. marked[n].status = a.status
      BY <1>4, <2>2, <2>3
    <2>7. \A m \in DOMAIN marked : /\ RefOf(marked[m]) = RefOf(old.alerts[m])
                                   /\ KeyOf(marked[m]) = KeyOf(old.alerts[m])
      BY <2>2, <2>3
    <2> QED
      BY <2>3, <2>4, <2>5, <2>6, <2>7
  <1> HIDE DEF marked
  <1>9. /\ inc \in Incident /\ inc.alerts = marked /\ inc.key = old.key
        /\ inc.state = old.state /\ inc.triage = old.triage
        /\ inc.investigation = old.investigation
    BY <1>2, <1>5, <1>8, TouchedIncident
  <1>10. RefsOf(inc) = RefsOf(old) /\ WellFormed(inc)
    BY <1>2, <1>8, <1>9 DEF RefsOf, WellFormed
  <1>11. OpenIds(t) = OpenIds(s)
    BY <1>2, <1>7, <1>9 DEF OpenIds, IsOpen, old
  <1>12. StoreTypeOK(t)
    BY <1>1, <1>2, <1>6, <1>7, <1>9 DEF StoreTypeOK
  <1>13. \A i \in OpenIds(s) : /\ t.incidents[i].key = s.incidents[i].key
                               /\ RefsOf(t.incidents[i]) = RefsOf(s.incidents[i])
    BY <1>2, <1>7, <1>9, <1>10 DEF OpenIds, old
  <1>14. AlertsIndexed(t)
    BY <1>1, <1>7, <1>11, <1>13 DEF AlertsIndexed
  <1>15. KeysIndexed(t)
    BY <1>1, <1>7, <1>11, <1>13 DEF KeysIndexed
  <1>16. \A i \in DOMAIN t.incidents : WellFormed(t.incidents[i])
    BY <1>7, <1>10 DEF StoreOK
  <1>17. Touches(s, t, id)
    BY <1>2, <1>7, <1>9, <1>11 DEF Touches, old
  <1>18. /\ n \in DOMAIN t.incidents[id].alerts
         /\ t.incidents[id].alerts[n].status = a.status
    BY <1>2, <1>4, <1>7, <1>8, <1>9
  <1>19. \A i \in DOMAIN s.incidents :
           RefsOf(t.incidents[i]) = RefsOf(s.incidents[i])
    BY <1>7, <1>10 DEF old
  <1> QED
    BY <1>12, <1>14, <1>15, <1>16, <1>17, <1>18, <1>19 DEF StoreOK, t, id

\* t is s with the incidents of ids closed.
Closes(s, t, ids, reason, now) ==
  /\ OpenIds(t) = OpenIds(s) \ ids
  /\ DOMAIN t.incidents = DOMAIN s.incidents
  /\ \A i \in DOMAIN s.incidents :
       /\ i \in ids => t.incidents[i] = Shut(s.incidents[i], reason, now)
       /\ i \notin ids => t.incidents[i] = s.incidents[i]

\* close() of open incidents, one or a whole sweep of them: each gives back
\* exactly its own entries of the two indexes.
LEMMA CloseOK ==
  ASSUME NEW s, StoreOK(s), NEW ids \in SUBSET OpenIds(s),
         NEW reason \in CloseReasons, NEW now \in Int
  PROVE  LET t == CloseAll(s, ids, reason, now)
         IN StoreOK(t) /\ Closes(s, t, ids, reason, now)
  <1> DEFINE t == CloseAll(s, ids, reason, now)
  <1>1. StoreTypeOK(s) /\ AlertsIndexed(s) /\ KeysIndexed(s)
    BY DEF StoreOK
  <1>2. ids \subseteq DOMAIN s.incidents
    BY DEF OpenIds
  <1>3. /\ t = [incidents |-> t.incidents, openByAlert |-> t.openByAlert,
                openByKey |-> t.openByKey]
        /\ t.incidents = [i \in DOMAIN s.incidents |->
                            IF i \in ids
                            THEN Shut(s.incidents[i], reason, now)
                            ELSE s.incidents[i]]
        /\ t.openByAlert = Restrict(s.openByAlert,
                             {r \in DOMAIN s.openByAlert : \A i \in ids :
                                r \notin RefsOf(s.incidents[i])})
        /\ t.openByKey = Restrict(s.openByKey,
                             {k \in DOMAIN s.openByKey : \A i \in ids :
                                k # s.incidents[i].key})
    BY <1>2 DEF CloseAll
  <1>4. \A inc \in Incident :
          LET new == Shut(inc, reason, now)
          IN /\ new \in Incident /\ ~IsOpen(new)
             /\ new.alerts = inc.alerts /\ new.key = inc.key
    BY ShutIncident
  <1> HIDE DEF t
  <1>5. \A i \in DOMAIN s.incidents :
          /\ s.incidents[i] \in Incident
          /\ t.incidents[i] = IF i \in ids
                              THEN Shut(s.incidents[i], reason, now)
                              ELSE s.incidents[i]
          /\ t.incidents[i] \in Incident
          /\ t.incidents[i].alerts = s.incidents[i].alerts
          /\ t.incidents[i].key = s.incidents[i].key
    BY <1>1, <1>3, <1>4 DEF StoreTypeOK
  <1>6. OpenIds(t) = OpenIds(s) \ ids
    BY <1>2, <1>3, <1>4, <1>5 DEF OpenIds
  <1>7. /\ DOMAIN t.incidents = DOMAIN s.incidents
        /\ DOMAIN t.openByAlert = {r \in DOMAIN s.openByAlert : \A i \in ids :
                                     r \notin RefsOf(s.incidents[i])}
        /\ \A r \in DOMAIN t.openByAlert :
             t.openByAlert[r] = s.openByAlert[r]
        /\ DOMAIN t.openByKey = {k \in DOMAIN s.openByKey : \A i \in ids :
                                   k # s.incidents[i].key}
        /\ \A k \in DOMAIN t.openByKey : t.openByKey[k] = s.openByKey[k]
    BY <1>3 DEF Restrict
  <1>8. StoreTypeOK(t)
    <2>1. /\ t.openByAlert \in [DOMAIN t.openByAlert -> IncidentIds]
          /\ t.openByKey \in [DOMAIN t.openByKey -> IncidentIds]
      BY <1>1, <1>3, <1>7 DEF StoreTypeOK, Restrict
    <2>2. t.incidents \in [DOMAIN t.incidents -> Incident]
      BY <1>3, <1>5, <1>7
    <2> QED
      BY <1>1, <1>3, <1>7, <2>1, <2>2 DEF StoreTypeOK
  <1>9. \A i \in DOMAIN s.incidents :
          RefsOf(t.incidents[i]) = RefsOf(s.incidents[i])
    BY <1>5 DEF RefsOf
  <1>10. AlertsIndexed(t)
    <2>1. ASSUME NEW r \in DOMAIN t.openByAlert
          PROVE  /\ t.openByAlert[r] \in OpenIds(t)
                 /\ r \in RefsOf(t.incidents[t.openByAlert[r]])
      BY <1>1, <1>6, <1>7, <1>9 DEF AlertsIndexed, OpenIds
    <2>2. ASSUME NEW i \in OpenIds(t), NEW r \in RefsOf(t.incidents[i])
          PROVE  r \in DOMAIN t.openByAlert /\ t.openByAlert[r] = i
      <3>1. i \in OpenIds(s) /\ i \notin ids /\ r \in RefsOf(s.incidents[i])
        BY <1>6, <1>9 DEF OpenIds
      <3>2. \A j \in ids : r \notin RefsOf(s.incidents[j])
        BY <1>1, <3>1 DEF AlertsIndexed
      <3> QED
        BY <1>1, <1>7, <3>1, <3>2 DEF AlertsIndexed
    <2> QED
      BY <2>1, <2>2 DEF AlertsIndexed
  <1>11. KeysIndexed(t)
    <2>1. ASSUME NEW k \in DOMAIN t.openByKey
          PROVE  /\ t.openByKey[k] \in OpenIds(t)
                 /\ k = t.incidents[t.openByKey[k]].key
      <3>1. /\ t.openByKey[k] = s.openByKey[k]
            /\ s.openByKey[k] \in OpenIds(s)
            /\ k = s.incidents[s.openByKey[k]].key
            /\ s.openByKey[k] \notin ids
        BY <1>1, <1>7 DEF KeysIndexed
      <3>2. s.openByKey[k] \in DOMAIN s.incidents
        BY <3>1 DEF OpenIds
      <3> QED
        BY <1>5, <1>6, <3>1, <3>2
    <2>2. ASSUME NEW i \in OpenIds(t)
          PROVE  /\ t.incidents[i].key \in DOMAIN t.openByKey
                 /\ t.openByKey[t.incidents[i].key] = i
      <3>1. /\ i \in OpenIds(s) /\ i \notin ids
            /\ t.incidents[i].key = s.incidents[i].key
        BY <1>5, <1>6 DEF OpenIds
      <3>2. \A j \in ids : t.incidents[i].key # s.incidents[j].key
        BY <1>1, <3>1 DEF KeysIndexed
      <3> QED
        BY <1>1, <1>7, <3>1, <3>2 DEF KeysIndexed
    <2> QED
      BY <2>1, <2>2 DEF KeysIndexed
  <1>12. \A i \in DOMAIN t.incidents : WellFormed(t.incidents[i])
    <2> SUFFICES ASSUME NEW i \in DOMAIN s.incidents
                 PROVE  WellFormed(t.incidents[i])
      BY <1>7
    <2>1. WellFormed(s.incidents[i])
      BY DEF StoreOK
    <2>2. /\ t.incidents[i].alerts = s.incidents[i].alerts
          /\ t.incidents[i].key = s.incidents[i].key
      BY <1>5
    <2> QED
      BY <2>1, <2>2 DEF WellFormed
  <1> QED
    BY <1>5, <1>6, <1>7, <1>8, <1>10, <1>11, <1>12 DEF StoreOK, Closes, t

\* Two stores whose incidents differ at most in what triage and
\* investigation answered.
SameButAnswers(s, t) ==
  /\ t.openByAlert = s.openByAlert /\ t.openByKey = s.openByKey
  /\ DOMAIN t.incidents = DOMAIN s.incidents
  /\ \A i \in DOMAIN s.incidents :
       /\ t.incidents[i].state = s.incidents[i].state
       /\ t.incidents[i].alerts = s.incidents[i].alerts
       /\ t.incidents[i].key = s.incidents[i].key
       /\ t.incidents[i].lastActivityAt = s.incidents[i].lastActivityAt

\* Answers are in no index and decide nothing about open incidents.
LEMMA AnswersOK ==
  ASSUME NEW s, StoreOK(s), NEW t, StoreTypeOK(t), SameButAnswers(s, t)
  PROVE  StoreOK(t) /\ OpenIds(t) = OpenIds(s)
  <1>1. OpenIds(t) = OpenIds(s)
    BY DEF OpenIds, IsOpen, SameButAnswers
  <1>2. \A i \in DOMAIN s.incidents :
          RefsOf(t.incidents[i]) = RefsOf(s.incidents[i])
    BY DEF RefsOf, SameButAnswers
  <1>3. OpenIds(s) \subseteq DOMAIN s.incidents
    BY DEF OpenIds
  <1>4. AlertsIndexed(t)
    BY <1>1, <1>2, <1>3 DEF AlertsIndexed, StoreOK, SameButAnswers
  <1>5. KeysIndexed(t)
    BY <1>1, <1>3 DEF KeysIndexed, StoreOK, SameButAnswers
  <1>6. \A i \in DOMAIN t.incidents : WellFormed(t.incidents[i])
    BY DEF WellFormed, StoreOK, SameButAnswers
  <1> QED
    BY <1>1, <1>4, <1>5, <1>6 DEF StoreOK

\* set_triage() writes nothing but the triage result.
LEMMA SetTriageOK ==
  ASSUME NEW s, StoreOK(s), NEW id \in DOMAIN s.incidents
  PROVE  LET t == SetTriage(s, id)
         IN StoreTypeOK(t) /\ SameButAnswers(s, t)
  <1> DEFINE inc == [s.incidents[id] EXCEPT !.triage = TRUE]
             t == SetTriage(s, id)
  <1>1. StoreTypeOK(s) /\ s.incidents[id] \in Incident
    BY DEF StoreOK, StoreTypeOK
  <1>2. /\ inc \in Incident
        /\ inc.state = s.incidents[id].state
        /\ inc.alerts = s.incidents[id].alerts
        /\ inc.key = s.incidents[id].key
        /\ inc.lastActivityAt = s.incidents[id].lastActivityAt
    BY <1>1 DEF Incident
  <1>3. t = [incidents |-> [s.incidents EXCEPT ![id] = inc],
             openByAlert |-> s.openByAlert, openByKey |-> s.openByKey]
    BY <1>1 DEF SetTriage, Exists, StoreTypeOK
  <1> HIDE DEF inc, t
  <1>4. SameButAnswers(s, t)
    BY <1>2, <1>3 DEF SameButAnswers
  <1>5. StoreTypeOK(t)
    BY <1>1, <1>2, <1>3 DEF StoreTypeOK
  <1> QED
    BY <1>4, <1>5 DEF t

\* set_investigation() writes nothing but the investigation.
LEMMA SetInvestigationOK ==
  ASSUME NEW s, StoreOK(s), NEW id \in DOMAIN s.incidents,
         NEW outcome \in Outcomes
  PROVE  LET t == SetInvestigation(s, id, outcome)
         IN StoreTypeOK(t) /\ SameButAnswers(s, t)
  <1> DEFINE inc == [s.incidents[id] EXCEPT !.investigation = outcome]
             t == SetInvestigation(s, id, outcome)
  <1>1. StoreTypeOK(s) /\ s.incidents[id] \in Incident
    BY DEF StoreOK, StoreTypeOK
  <1>2. /\ inc \in Incident
        /\ inc.state = s.incidents[id].state
        /\ inc.alerts = s.incidents[id].alerts
        /\ inc.key = s.incidents[id].key
        /\ inc.lastActivityAt = s.incidents[id].lastActivityAt
    BY <1>1 DEF Incident
  <1>3. t = [incidents |-> [s.incidents EXCEPT ![id] = inc],
             openByAlert |-> s.openByAlert, openByKey |-> s.openByKey]
    BY <1>1 DEF SetInvestigation, Exists, StoreTypeOK
  <1> HIDE DEF inc, t
  <1>4. SameButAnswers(s, t)
    BY <1>2, <1>3 DEF SameButAnswers
  <1>5. StoreTypeOK(t)
    BY <1>1, <1>2, <1>3 DEF StoreTypeOK
  <1> QED
    BY <1>4, <1>5 DEF t

(***************************************************************************)
(* What the handlers of the incident worker do with the store.             *)
(***************************************************************************)

\* Every incident was closed for the reason it has on record, if at all.
Justified(s, ttl) ==
  \A i \in DOMAIN s.incidents :
    ResolvedRight(s.incidents[i]) /\ SilentRight(s.incidents[i], ttl)

\* What a handler of an alert leaves alone: every answer, and every closed
\* incident altogether.
Frame(s, t) ==
  /\ DOMAIN s.incidents \subseteq DOMAIN t.incidents
  /\ \A i \in DOMAIN s.incidents :
       /\ i \notin OpenIds(s) => t.incidents[i] = s.incidents[i]
       /\ t.incidents[i].triage = s.incidents[i].triage
       /\ t.incidents[i].investigation = s.incidents[i].investigation

\* Handlers follow each other: what two steps leave alone, both together do,
\* as long as the first one opens nothing.
LEMMA FrameTransitive ==
  ASSUME NEW s, NEW t, NEW u, Frame(s, t), Frame(t, u),
         OpenIds(t) \subseteq OpenIds(s)
  PROVE  Frame(s, u)
  BY DEF Frame

\* ... and none of them opens an incident that was closed.
LEMMA ClosedStayClosed ==
  ASSUME NEW s, NEW t, Frame(s, t)
  PROVE  \A i \in DOMAIN s.incidents : i \notin OpenIds(s) => i \notin OpenIds(t)
  BY DEF Frame, OpenIds

\* Closing open incidents leaves the other incidents and all answers alone.
LEMMA CloseFrame ==
  ASSUME NEW s, StoreOK(s), NEW ids \in SUBSET OpenIds(s),
         NEW reason \in CloseReasons, NEW now \in Int
  PROVE  LET t == CloseAll(s, ids, reason, now)
         IN /\ Frame(s, t)
            /\ \A i \in ids :
                 /\ t.incidents[i].state = Closed(reason, now)
                 /\ t.incidents[i].alerts = s.incidents[i].alerts
                 /\ t.incidents[i].lastActivityAt
                      = s.incidents[i].lastActivityAt
  <1> DEFINE t == CloseAll(s, ids, reason, now)
  <1>1. Closes(s, t, ids, reason, now)
    BY CloseOK
  <1>2. \A i \in DOMAIN s.incidents : s.incidents[i] \in Incident
    BY DEF StoreOK, StoreTypeOK
  <1> HIDE DEF t
  <1>3. \A i \in ids : i \in DOMAIN s.incidents
    BY DEF OpenIds
  <1>4. \A i \in ids :
          /\ t.incidents[i].state = Closed(reason, now)
          /\ t.incidents[i].alerts = s.incidents[i].alerts
          /\ t.incidents[i].lastActivityAt = s.incidents[i].lastActivityAt
          /\ t.incidents[i].triage = s.incidents[i].triage
          /\ t.incidents[i].investigation = s.incidents[i].investigation
    <2> SUFFICES ASSUME NEW i \in ids
                 PROVE  LET new == t.incidents[i]
                            inc == s.incidents[i]
                        IN /\ new.state = Closed(reason, now)
                           /\ new.alerts = inc.alerts
                           /\ new.lastActivityAt = inc.lastActivityAt
                           /\ new.triage = inc.triage
                           /\ new.investigation = inc.investigation
      OBVIOUS
    <2>1. t.incidents[i] = Shut(s.incidents[i], reason, now)
      BY <1>1, <1>3 DEF Closes
    <2> QED
      BY <1>2, <1>3, <2>1, ShutIncident
  <1>5. Frame(s, t)
    BY <1>1, <1>4 DEF Closes, Frame
  <1> QED
    BY <1>4, <1>5 DEF t

\* expire_idle_before() with the cutoff handle_alert gives it.
LEMMA SweepOK ==
  ASSUME NEW s, NEW ttl \in Nat, StoreOK(s), Justified(s, ttl),
         NEW now \in Int
  PROVE  LET t == ExpireIdleBefore(s, now - ttl, now)
         IN /\ StoreOK(t) /\ Justified(t, ttl) /\ Frame(s, t)
            /\ DOMAIN t.incidents = DOMAIN s.incidents
            /\ OpenIds(t) \subseteq OpenIds(s)
            /\ IdleBefore(s, now - ttl) \cap OpenIds(t) = {}
  <1> DEFINE ids == IdleBefore(s, now - ttl)
             t == CloseAll(s, ids, "idle_ttl", now)
  <1>1. /\ ids \in SUBSET OpenIds(s)
        /\ \A i \in ids : s.incidents[i].lastActivityAt < now - ttl
        /\ \A i \in OpenIds(s) \ ids :
             ~(s.incidents[i].lastActivityAt < now - ttl)
    BY DEF IdleBefore
  <1>2. "idle_ttl" \in CloseReasons
    BY DEF CloseReasons
  <1> HIDE DEF ids
  <1>3. StoreOK(t) /\ Closes(s, t, ids, "idle_ttl", now)
    BY <1>1, <1>2, CloseOK
  <1>4. /\ Frame(s, t)
        /\ \A i \in ids :
             /\ t.incidents[i].state = Closed("idle_ttl", now)
             /\ t.incidents[i].alerts = s.incidents[i].alerts
             /\ t.incidents[i].lastActivityAt = s.incidents[i].lastActivityAt
    BY <1>1, <1>2, CloseFrame, ZenonT(40)
  <1> HIDE DEF t
  <1>5. Justified(t, ttl)
    <2> SUFFICES ASSUME NEW i \in DOMAIN t.incidents
                 PROVE  /\ ResolvedRight(t.incidents[i])
                        /\ SilentRight(t.incidents[i], ttl)
      BY DEF Justified
    <2>1. CASE i \notin ids
      BY <1>3, <2>1 DEF Closes, Justified
    <2>2. CASE i \in ids
      <3>1. IsOpen(s.incidents[i]) /\ s.incidents[i].lastActivityAt \in Int
        BY <1>1, <2>2 DEF OpenIds, StoreOK, StoreTypeOK, Incident
      <3>2. ~AllResolved(t.incidents[i])
        <4>1. i \in DOMAIN s.incidents /\ ~AllResolved(s.incidents[i])
          BY <1>1, <2>2, <3>1 DEF Justified, ResolvedRight, IsOpen, OpenIds
        <4>2. t.incidents[i].alerts = s.incidents[i].alerts
          BY <1>4, <2>2
        <4> QED
          BY <4>1, <4>2 DEF AllResolved
      <3>3. now - t.incidents[i].lastActivityAt > ttl
        BY <1>1, <1>4, <2>2, <3>1
      <3> QED
        BY <1>4, <2>2, <3>2, <3>3
           DEF ResolvedRight, SilentRight, Closed, IsOpen
    <2> QED
      BY <2>1, <2>2
  <1>6. ids \cap OpenIds(t) = {}
    BY <1>3 DEF Closes
  <1> QED
    BY <1>3, <1>4, <1>5, <1>6 DEF Closes, ExpireIdleBefore, t, ids

\* An activity of an open incident leaves every closed one alone.
LEMMA TouchesFrame ==
  ASSUME NEW s, NEW t, NEW id, Touches(s, t, id)
  PROVE  Frame(s, t)
  BY DEF Touches, Frame

\* ... and every incident justified, if something in it still fires.
LEMMA TouchesJustified ==
  ASSUME NEW s, NEW ttl, Justified(s, ttl), NEW t, NEW id, Touches(s, t, id),
         ~AllResolved(t.incidents[id])
  PROVE  Justified(t, ttl)
  <1> SUFFICES ASSUME NEW i \in DOMAIN t.incidents
               PROVE  /\ ResolvedRight(t.incidents[i])
                      /\ SilentRight(t.incidents[i], ttl)
    BY DEF Justified
  <1>1. CASE i # id
    BY <1>1 DEF Touches, Justified
  <1>2. CASE i = id
    <2>1. t.incidents[i].state.tag = "open"
      BY <1>2 DEF Touches, OpenIds, IsOpen
    <2> QED
      BY <1>2, <2>1 DEF ResolvedRight, SilentRight
  <1> QED
    BY <1>1, <1>2

\* decide(), whatever it decides but to open.
LEMMA SettlesOK ==
  ASSUME NEW s, NEW ttl \in Nat, StoreOK(s), Justified(s, ttl),
         NEW a \in Alert, NEW now \in Int, NEW t, Settles(s, a, now, t)
  PROVE  /\ StoreOK(t) /\ Justified(t, ttl) /\ Frame(s, t)
         /\ DOMAIN t.incidents = DOMAIN s.incidents
  <1> DEFINE id == s.openByAlert[RefOf(a)]
             m == Marked(s, a, now)
  <1>1. ASSUME ExactMatch(s, a)
        PROVE  /\ StoreOK(m) /\ Touches(s, m, id)
               /\ \E n \in DOMAIN m.incidents[id].alerts :
                    m.incidents[id].alerts[n].status = a.status
    BY <1>1, MarkOK
  <1>2. CASE ExactMatch(s, a) /\ LastResolve(s, a, now)
    <2> DEFINE u == CloseAll(m, {id}, "resolved", now)
    <2>1. t = u
      BY <1>2 DEF Settles, Close
    <2>2. /\ StoreOK(m) /\ Touches(s, m, id) /\ id \in OpenIds(m)
          /\ AllResolved(m.incidents[id])
      BY <1>1, <1>2 DEF Touches, LastResolve
    <2>3. "resolved" \in CloseReasons /\ {id} \in SUBSET OpenIds(m)
      BY <2>2 DEF CloseReasons
    <2> HIDE DEF m, id
    <2>4. StoreOK(u) /\ Closes(m, u, {id}, "resolved", now)
      BY <2>2, <2>3, CloseOK
    <2>5. /\ Frame(m, u)
          /\ u.incidents[id].state = Closed("resolved", now)
          /\ u.incidents[id].alerts = m.incidents[id].alerts
      BY <2>2, <2>3, CloseFrame
    <2> HIDE DEF u
    <2>6. Frame(s, u)
      BY <2>2, <2>5, TouchesFrame, FrameTransitive DEF Touches
    <2>7. Justified(u, ttl)
      <3> SUFFICES ASSUME NEW i \in DOMAIN u.incidents
                   PROVE  /\ ResolvedRight(u.incidents[i])
                          /\ SilentRight(u.incidents[i], ttl)
        BY DEF Justified
      <3>1. CASE i # id
        BY <2>2, <2>4, <3>1 DEF Closes, Touches, Justified
      <3>2. CASE i = id
        <4>1. AllResolved(u.incidents[id])
          BY <2>2, <2>5 DEF AllResolved
        <4> QED
          BY <2>5, <3>2, <4>1 DEF ResolvedRight, SilentRight, Closed
      <3> QED
        BY <3>1, <3>2
    <2> QED
      BY <2>1, <2>2, <2>4, <2>6, <2>7 DEF Closes, Touches
  <1>3. CASE ExactMatch(s, a) /\ ~LastResolve(s, a, now)
    <2>1. t = m
      BY <1>3 DEF Settles
    <2>2. ~AllResolved(m.incidents[id])
      <3>1. CASE a.status = "resolved"
        BY <1>3, <3>1 DEF LastResolve
      <3>2. CASE a.status # "resolved"
        BY <1>1, <1>3, <3>2 DEF AllResolved
      <3> QED
        BY <3>1, <3>2
    <2> HIDE DEF m, id
    <2>3. Justified(m, ttl) /\ Frame(s, m)
      BY <1>1, <1>3, <2>2, TouchesFrame, TouchesJustified
    <2> QED
      BY <1>1, <1>3, <2>1, <2>3 DEF Touches
  <1>4. CASE ~ExactMatch(s, a) /\ a.status = "resolved"
    BY <1>4 DEF Settles, Frame
  <1>5. CASE ~ExactMatch(s, a) /\ a.status # "resolved"
    <2> DEFINE k == s.openByKey[KeyOf(a)]
               u == AttachAlert(s, k, a, now)
    <2>1. a.status # "resolved" /\ KeyMatch(s, a) /\ t = u
      BY <1>5 DEF Settles
    <2>2. /\ StoreOK(u) /\ Touches(s, u, k)
          /\ \E n \in DOMAIN u.incidents[k].alerts :
               u.incidents[k].alerts[n] = a
      BY <1>5, <2>1, AttachOK
    <2> HIDE DEF k, u
    <2>3. ~AllResolved(u.incidents[k])
      BY <2>1, <2>2 DEF AllResolved
    <2>4. Justified(u, ttl) /\ Frame(s, u)
      BY <2>2, <2>3, TouchesFrame, TouchesJustified
    <2> QED
      BY <2>1, <2>2, <2>4 DEF Touches
  <1> QED
    BY <1>2, <1>3, <1>4, <1>5

\* decide(), when it opens an incident.
LEMMA OpensOK ==
  ASSUME NEW s, NEW ttl \in Nat, StoreOK(s), Justified(s, ttl),
         NEW a \in Alert, NEW now \in Int, Opens(s, a), NEW id \in NewIds(s)
  PROVE  LET t == Insert(s, id, NewIncident(a, now))
         IN /\ StoreOK(t) /\ Justified(t, ttl) /\ Frame(s, t)
            /\ DOMAIN t.incidents = DOMAIN s.incidents \cup {id}
            /\ ~t.incidents[id].triage
            /\ t.incidents[id].investigation = Uninvestigated
  <1> DEFINE t == Insert(s, id, NewIncident(a, now))
  <1>1. /\ StoreOK(t)
        /\ DOMAIN t.incidents = DOMAIN s.incidents \cup {id}
        /\ t.incidents[id] = NewIncident(a, now)
        /\ \A i \in DOMAIN s.incidents : t.incidents[i] = s.incidents[i]
    BY InsertOK
  <1> HIDE DEF t
  <1>2. /\ ResolvedRight(NewIncident(a, now))
        /\ SilentRight(NewIncident(a, now), ttl)
    <2>1. ~AllResolved(NewIncident(a, now))
      BY DEF Opens, AllResolved, NewIncident
    <2> QED
      BY <2>1 DEF ResolvedRight, SilentRight, NewIncident, Open
  <1>3. Justified(t, ttl)
    BY <1>1, <1>2 DEF Justified
  <1>4. Frame(s, t)
    BY <1>1 DEF Frame
  <1>5. /\ ~t.incidents[id].triage
        /\ t.incidents[id].investigation = Uninvestigated
    BY <1>1 DEF NewIncident
  <1> QED
    BY <1>1, <1>3, <1>4, <1>5 DEF t

\* An answer changes neither what closes an incident nor why it was closed.
LEMMA AnswersJustified ==
  ASSUME NEW s, NEW ttl, Justified(s, ttl), NEW t, SameButAnswers(s, t)
  PROVE  Justified(t, ttl)
  <1> SUFFICES ASSUME NEW i \in DOMAIN t.incidents
               PROVE  /\ ResolvedRight(t.incidents[i])
                      /\ SilentRight(t.incidents[i], ttl)
    BY DEF Justified
  <1>1. /\ t.incidents[i].state = s.incidents[i].state
        /\ t.incidents[i].alerts = s.incidents[i].alerts
        /\ t.incidents[i].lastActivityAt = s.incidents[i].lastActivityAt
        /\ i \in DOMAIN s.incidents
    BY DEF SameButAnswers
  <1>2. AllResolved(t.incidents[i]) <=> AllResolved(s.incidents[i])
    BY <1>1 DEF AllResolved
  <1> QED
    BY <1>1, <1>2 DEF Justified, ResolvedRight, SilentRight

(***************************************************************************)
(* What the handlers do to the incidents as seen from outside: which are   *)
(* open, with which key and which alerts.                                  *)
(***************************************************************************)

\* t is s with the incidents of closing closed.
Keeps(s, t, closing) ==
  /\ closing \subseteq OpenIds(s) /\ OpenIds(t) = OpenIds(s) \ closing
  /\ DOMAIN t.incidents = DOMAIN s.incidents
  /\ \A i \in DOMAIN s.incidents :
       /\ t.incidents[i].key = s.incidents[i].key
       /\ RefsOf(t.incidents[i]) = RefsOf(s.incidents[i])

\* t is s after an alert that was in no open incident joined one.
Gains(s, t, id, ref) ==
  /\ id \in OpenIds(s) /\ OpenIds(t) = OpenIds(s)
  /\ DOMAIN t.incidents = DOMAIN s.incidents
  /\ \A i \in DOMAIN s.incidents :
       /\ t.incidents[i].key = s.incidents[i].key
       /\ RefsOf(t.incidents[i]) = IF i = id
                                   THEN RefsOf(s.incidents[i]) \cup {ref}
                                   ELSE RefsOf(s.incidents[i])
  /\ \A i \in OpenIds(s) : ref \notin RefsOf(s.incidents[i])

LEMMA CloseKeeps ==
  ASSUME NEW s, StoreOK(s), NEW ids \in SUBSET OpenIds(s),
         NEW reason \in CloseReasons, NEW now \in Int
  PROVE  Keeps(s, CloseAll(s, ids, reason, now), ids)
  <1> DEFINE t == CloseAll(s, ids, reason, now)
  <1>1. Closes(s, t, ids, reason, now)
    BY CloseOK
  <1> HIDE DEF t
  <1>2. ASSUME NEW i \in DOMAIN s.incidents
        PROVE  /\ t.incidents[i].key = s.incidents[i].key
               /\ t.incidents[i].alerts = s.incidents[i].alerts
    <2> DEFINE inc == s.incidents[i]
               new == t.incidents[i]
    <2>1. inc \in Incident
      BY DEF StoreOK, StoreTypeOK
    <2>2. new = inc \/ new = Shut(inc, reason, now)
      BY <1>1 DEF Closes
    <2> QED
      BY <2>1, <2>2, ShutIncident
  <1> QED
    BY <1>1, <1>2 DEF Closes, Keeps, RefsOf, t

\* The sweep before an alert closes the idle incidents, no more.
LEMMA SweepKeeps ==
  ASSUME NEW s, StoreOK(s), NEW ttl \in Nat, NEW now \in Int
  PROVE  Keeps(s, ExpireIdleBefore(s, now - ttl, now), IdleBefore(s, now - ttl))
  <1>1. IdleBefore(s, now - ttl) \in SUBSET OpenIds(s)
    BY DEF IdleBefore
  <1>2. "idle_ttl" \in CloseReasons
    BY DEF CloseReasons
  <1> QED
    BY <1>1, <1>2, CloseKeeps DEF ExpireIdleBefore

\* decide(), but to open, closes the alert's incident, or grows it, or
\* shows nothing.
LEMMA SettlesShows ==
  ASSUME NEW s, StoreOK(s), NEW a \in Alert, NEW now \in Int, NEW t,
         Settles(s, a, now, t)
  PROVE  \/ \E closing : Keeps(s, t, closing)
         \/ \E id : Gains(s, t, id, RefOf(a))
  <1> DEFINE id == s.openByAlert[RefOf(a)]
             m == Marked(s, a, now)
  <1>1. ASSUME ExactMatch(s, a)
        PROVE  /\ StoreOK(m) /\ Touches(s, m, id)
               /\ Keeps(s, m, {})
    BY <1>1, MarkOK DEF Touches, Keeps
  <1>2. CASE ExactMatch(s, a) /\ LastResolve(s, a, now)
    <2> DEFINE u == CloseAll(m, {id}, "resolved", now)
    <2>1. t = u
      BY <1>2 DEF Settles, Close
    <2>2. "resolved" \in CloseReasons /\ {id} \in SUBSET OpenIds(m)
      BY <1>1, <1>2 DEF Touches, CloseReasons
    <2> HIDE DEF m, id
    <2>3. Keeps(m, u, {id})
      BY <1>1, <1>2, <2>2, CloseKeeps
    <2> HIDE DEF u
    <2>4. Keeps(s, u, {id})
      BY <1>1, <1>2, <2>3 DEF Keeps
    <2> QED
      BY <2>1, <2>4
  <1>3. CASE ExactMatch(s, a) /\ ~LastResolve(s, a, now)
    BY <1>1, <1>3 DEF Settles
  <1>4. CASE ~ExactMatch(s, a) /\ a.status = "resolved"
    <2>1. t = s
      BY <1>4 DEF Settles
    <2>2. Keeps(s, t, {})
      BY <2>1 DEF Keeps
    <2> QED
      BY <2>2
  <1>5. CASE ~ExactMatch(s, a) /\ a.status # "resolved"
    <2> DEFINE k == s.openByKey[KeyOf(a)]
               u == AttachAlert(s, k, a, now)
    <2>1. KeyMatch(s, a) /\ t = u
      BY <1>5 DEF Settles
    <2>2. /\ Touches(s, u, k)
          /\ RefsOf(u.incidents[k]) = RefsOf(s.incidents[k]) \cup {RefOf(a)}
      BY <1>5, <2>1, AttachOK
    <2> HIDE DEF k, u
    <2>3. \A i \in OpenIds(s) : RefOf(a) \notin RefsOf(s.incidents[i])
      BY <1>5 DEF StoreOK, AlertsIndexed, ExactMatch, HasOpenAlert
    <2>4. Gains(s, u, k, RefOf(a))
      BY <2>2, <2>3 DEF Touches, Gains
    <2> QED
      BY <2>1, <2>4
  <1> QED
    BY <1>2, <1>3, <1>4, <1>5

\* decide(), when it opens, shows one open incident more, whose key and
\* alert are in no other.
LEMMA OpensShows ==
  ASSUME NEW s, StoreOK(s), NEW a \in Alert, NEW now \in Int, Opens(s, a),
         NEW id \in NewIds(s)
  PROVE  LET t == Insert(s, id, NewIncident(a, now))
         IN /\ OpenIds(t) = OpenIds(s) \cup {id}
            /\ t.incidents[id].key = KeyOf(a)
            /\ RefsOf(t.incidents[id]) = {RefOf(a)}
            /\ \A i \in DOMAIN s.incidents :
                 /\ t.incidents[i].key = s.incidents[i].key
                 /\ RefsOf(t.incidents[i]) = RefsOf(s.incidents[i])
            /\ \A i \in OpenIds(s) :
                 /\ s.incidents[i].key # KeyOf(a)
                 /\ RefOf(a) \notin RefsOf(s.incidents[i])
  <1> DEFINE t == Insert(s, id, NewIncident(a, now))
             inc == NewIncident(a, now)
  <1>1. /\ DOMAIN t.incidents = DOMAIN s.incidents \cup {id}
        /\ t.incidents[id] = NewIncident(a, now)
        /\ \A i \in DOMAIN s.incidents : t.incidents[i] = s.incidents[i]
    BY InsertOK
  <1>2. IsOpen(inc) /\ inc.key = KeyOf(a) /\ RefsOf(inc) = {RefOf(a)}
    BY DEF NewIncident, IsOpen, Open, RefsOf
  <1>3. \A i \in OpenIds(s) : /\ s.incidents[i].key # KeyOf(a)
                              /\ RefOf(a) \notin RefsOf(s.incidents[i])
    BY DEF StoreOK, AlertsIndexed, KeysIndexed, Opens, ExactMatch, KeyMatch,
           HasOpenAlert, HasOpenKey
  <1> HIDE DEF t, inc
  <1>4. OpenIds(t) = OpenIds(s) \cup {id}
    BY <1>1, <1>2 DEF OpenIds, inc
  <1> QED
    BY <1>1, <1>2, <1>3, <1>4 DEF t, inc
==============================================================================
