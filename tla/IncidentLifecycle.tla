-------------------------- MODULE IncidentLifecycle --------------------------
(***************************************************************************)
(* What the incident pipeline promises, without its indexes, queues,       *)
(* clocks and workers.                                                     *)
(*                                                                         *)
(*   - An incident is opened once, by one alert, and closed at most once,  *)
(*     for good.                                                           *)
(*   - Open incidents share no key and no alert.  An alert stays in the    *)
(*     incident it joined.                                                 *)
(*   - An incident is asked for its triage when it opens or never, and for *)
(*     its investigation when the triage result comes or never, and then   *)
(*     only if it is still open.                                           *)
(***************************************************************************)
CONSTANTS Ids, Refs, Keys

VARIABLES
  phase,   \* phase[i]: "unborn", "open" or "closed"
  key,     \* key[i]: the key of incident i, once born
  held,    \* held[i]: the alerts incident i ever held
  stage    \* stage[i]: how far the questions about incident i have come

vars == <<phase, key, held, stage>>

Stages == {"untriaged", "triaging", "triaged", "investigating", "investigated"}

Unborn == {i \in Ids : phase[i] = "unborn"}
OpenSet == {i \in Ids : phase[i] = "open"}

Init ==
  /\ phase = [i \in Ids |-> "unborn"]
  /\ key = [i \in Ids |-> {}]
  /\ held = [i \in Ids |-> {}]
  /\ stage = [i \in Ids |-> "untriaged"]

PhaseAfter(closing) ==
  [i \in Ids |-> IF i \in closing THEN "closed" ELSE phase[i]]

\* Some open incidents close.
CloseSome(closing) ==
  /\ closing \subseteq OpenSet
  /\ phase' = PhaseAfter(closing)
  /\ UNCHANGED <<key, held, stage>>

\* Some open incidents close, and an alert in none of the others joins one.
Join(closing, i, ref) ==
  /\ closing \subseteq OpenSet
  /\ i \in OpenSet \ closing
  /\ \A j \in OpenSet \ closing : ref \notin held[j]
  /\ phase' = PhaseAfter(closing)
  /\ held' = [held EXCEPT ![i] = @ \cup {ref}]
  /\ UNCHANGED <<key, stage>>

\* Some open incidents close, and an alert whose key and reference are in
\* none of the others opens a new one.
OpenOne(closing, i, k, ref) ==
  /\ closing \subseteq OpenSet
  /\ i \in Unborn
  /\ \A j \in OpenSet \ closing : key[j] # k /\ ref \notin held[j]
  /\ phase' = [PhaseAfter(closing) EXCEPT ![i] = "open"]
  /\ key' = [key EXCEPT ![i] = k]
  /\ held' = [held EXCEPT ![i] = {ref}]
  /\ \E s \in {"untriaged", "triaging"} : stage' = [stage EXCEPT ![i] = s]

\* The triage result comes.
Triaged(i) ==
  /\ stage[i] = "triaging"
  /\ \E s \in {"triaged", "investigating"} :
       /\ s = "investigating" => phase[i] = "open"
       /\ stage' = [stage EXCEPT ![i] = s]
  /\ UNCHANGED <<phase, key, held>>

\* The investigation comes.
Investigated(i) ==
  /\ stage[i] = "investigating"
  /\ stage' = [stage EXCEPT ![i] = "investigated"]
  /\ UNCHANGED <<phase, key, held>>

Next ==
  \/ \E closing \in SUBSET Ids : CloseSome(closing)
  \/ \E closing \in SUBSET Ids, i \in Ids, ref \in Refs : Join(closing, i, ref)
  \/ \E closing \in SUBSET Ids, i \in Ids, k \in Keys, ref \in Refs :
       OpenOne(closing, i, k, ref)
  \/ \E i \in Ids : Triaged(i) \/ Investigated(i)

Spec == Init /\ [][Next]_vars
==============================================================================
