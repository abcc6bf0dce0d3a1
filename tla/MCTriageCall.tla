---------------------------- MODULE MCTriageCall ----------------------------
\* TriageCall with small delays, for TLC.
EXTENDS TriageCall

\* Zero, which the configuration refuses as an initial delay, included; from
\* 1 to 9 the cap is met after four doublings.
MCDelays == 0..9
=============================================================================
