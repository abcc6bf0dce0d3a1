------------------------------- MODULE Dedupe -------------------------------
(***************************************************************************)
(* src/incident/dedupe.rs: which incident an alert belongs to, and what it *)
(* does to it.  Each early return of decide() is an operator from a store  *)
(* to the store it leaves, and Settles / Opens say when each is taken.     *)
(* Opens is apart because the fresh id is the caller's to choose.          *)
(***************************************************************************)
EXTENDS IncidentStore

\* Fault: only a resolve is looked up by its alert.
ExactResolve(s, a) == a.status = "resolved" /\ HasOpenAlert(s, RefOf(a))

ExactMatch(s, a) == HasOpenAlert(s, RefOf(a))
KeyMatch(s, a) == HasOpenKey(s, KeyOf(a))

\* The store after an exact match wrote the alert's new status.
Marked(s, a, now) ==
  SetAlertStatus(s, s.openByAlert[RefOf(a)], RefOf(a), a.status, now)

\* Fault: any resolve closes its incident.
AnyResolve(s, a, now) == a.status = "resolved"

\* The exact match was the last alert of its incident to be resolved.
LastResolve(s, a, now) ==
  /\ a.status = "resolved"
  /\ AllResolved(Marked(s, a, now).incidents[s.openByAlert[RefOf(a)]])

\* decide(), for every decision but Opened: t is the store it leaves.
Settles(s, a, now, t) ==
  \/ /\ ExactMatch(s, a)                                     \* Closed
     /\ LastResolve(s, a, now)
     /\ t = Close(Marked(s, a, now), s.openByAlert[RefOf(a)], "resolved", now)
  \/ /\ ExactMatch(s, a)                                     \* Updated
     /\ ~LastResolve(s, a, now)
     /\ t = Marked(s, a, now)
  \/ /\ ~ExactMatch(s, a)                                    \* DroppedResolve
     /\ a.status = "resolved"
     /\ t = s
  \/ /\ ~ExactMatch(s, a)                                    \* Attached
     /\ a.status # "resolved"
     /\ KeyMatch(s, a)
     /\ t = AttachAlert(s, s.openByKey[KeyOf(a)], a, now)

\* decide(), Opened: IncidentId::new() never returns an id twice.
Opens(s, a) == ~ExactMatch(s, a) /\ a.status # "resolved" /\ ~KeyMatch(s, a)

NewIds(s) == IncidentIds \ DOMAIN s.incidents
==============================================================================
