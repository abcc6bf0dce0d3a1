------------------------------ MODULE MCIntake ------------------------------
(***************************************************************************)
(* Instances of Intake for TLC.                                            *)
(***************************************************************************)
EXTENDS Intake

Json(source, items) == [source |-> source, form |-> "json", items |-> items]
Unread(source, form) == [source |-> source, form |-> form, items |-> <<>>]
Item(kind, sound) == [kind |-> kind, sound |-> sound]

Firing == Item("firing", TRUE)
Resolved == Item("resolved", TRUE)

\* Deliveries that fit, that fit only when nothing else is there, and that
\* never fit a channel of two.
MCDeliveries ==
  {Json("grafana", items) :
     items \in {<<>>, <<Firing>>, <<Firing, Resolved>>,
                <<Firing, Resolved, Firing>>}}
    \cup {Json("pagerduty", <<Item("incident_resolved", TRUE)>>)}

\* Every way a body can be refused, or be read with a part that is not.
MCRefusals ==
  {Unread("grafana", "too_large"), Unread("pagerduty", "garbled"),
   Unread("other", "too_large"), Json("other", <<Firing>>),
   Json("grafana", <<Firing, Item("resolved", FALSE)>>)}

\* Every PagerDuty event.
MCEvents ==
  {Json("pagerduty", <<event>>) : event \in PagerdutyEvents}

\* The first request brings any body, the second any that is or may be
\* accepted, the third one alert: room for it is left, or not.
MCRequests == 1..3
MCBodies ==
  <<MCDeliveries \cup MCRefusals \cup MCEvents, MCDeliveries,
    {Json("grafana", <<Firing>>)}>>
=============================================================================
