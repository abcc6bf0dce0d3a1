----------------------------- MODULE MCIncidents -----------------------------
\* Incidents on small sets, for TLC.
EXTENDS Incidents, TLC

\* A wall clock of a few ticks; runs set it forwards and backwards.
MCTimes == 0..2
MCTwoTimes == {0, 2}

Symmetry == Permutations(IncidentIds)
==============================================================================
