----------------------------- MODULE MCPipeline -----------------------------
\* Pipeline on small sets, for TLC.
EXTENDS Pipeline, TLC

\* A clock that can be read before and after the TTL has passed, set
\* forwards or back.
MCTimes == {0, 2}

\* An acknowledged alert goes through the channels as a firing one does.
MCDeliveries == {a \in Alert : a.status # "acknowledged"}

Symmetry == Permutations(IncidentIds)
==============================================================================
