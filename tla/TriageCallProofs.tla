-------------------------- MODULE TriageCallProofs --------------------------
(***************************************************************************)
(* Proofs about module TriageCall, for every retry policy the              *)
(* configuration accepts.                                                  *)
(***************************************************************************)
EXTENDS TriageCall, TLAPS

\* The policy's count is the number of unusable outputs, and says by itself
\* whether the call was given up; the delay stays between the two bounds.
IInv ==
  /\ TypeOK
  /\ Validated(backoff)
  /\ backoff.initial <= delay /\ delay <= backoff.max
  /\ unusable = outputAttempts
  /\ GivesUpOnUnusableOutput

\* What is known of the numbers: the provers need it in one place.
LEMMA Numbers ==
  ASSUME IInv
  PROVE  /\ backoff.initial \in Nat /\ backoff.max \in Nat /\ delay \in Nat
         /\ outputAttempts \in Nat
         /\ backoff.initial > 0 /\ backoff.initial <= backoff.max
  <1>1. /\ backoff.initial \in Delays /\ backoff.max \in Delays
        /\ delay \in Nat /\ Validated(backoff)
    BY DEF IInv, TypeOK
  <1>2. outputAttempts \in Nat
    BY DEF IInv, TypeOK, OUTPUT_ERROR_ATTEMPTS
  <1> QED
    BY <1>1, <1>2, DelaysAssumption DEF Validated

\* A call starts with the initial delay, which the cap is not below.
LEMMA InitIInv == Init => IInv
  <1> SUFFICES ASSUME Init PROVE IInv
    OBVIOUS
  <1>1. /\ backoff \in [initial : Delays, max : Delays] /\ Validated(backoff)
        /\ backoff.initial \in Nat /\ backoff.max \in Nat
    BY DelaysAssumption DEF Init
  <1> QED
    BY <1>1 DEF Init, IInv, TypeOK, Validated, GivesUpOnUnusableOutput,
                Phases, MaxUnusable, OUTPUT_ERROR_ATTEMPTS

\* A failed attempt: the policy ends the call on the third unusable output
\* and on nothing else.
LEMMA FailIInv ==
  ASSUME IInv, NEW e \in ErrorKinds, Fail(e)
  PROVE  IInv'
  <1>1. /\ phase = "calling" /\ outputAttempts \in 0..2
        /\ unusable = outputAttempts
    BY DEF IInv, TypeOK, GivesUpOnUnusableOutput, Fail,
           OUTPUT_ERROR_ATTEMPTS
  <1>2. UNCHANGED <<backoff, delay>> /\ lastError' = e
    BY DEF Fail
  <1>3. CASE ClassOf[e] = "output"
    <2>1. /\ outputAttempts' = outputAttempts + 1
          /\ unusable' = outputAttempts + 1
          /\ phase' = IF outputAttempts + 1 < 3 THEN "sleeping" ELSE "abandoned"
      BY <1>1, <1>3 DEF Fail, KeepTrying, Counted, Smaller, MaxUnusable,
                        OUTPUT_ERROR_ATTEMPTS
    <2> QED
      BY <1>1, <1>2, <1>3, <2>1
         DEF IInv, TypeOK, Validated, GivesUpOnUnusableOutput, Phases,
             MaxUnusable, OUTPUT_ERROR_ATTEMPTS
  <1>4. CASE ClassOf[e] # "output"
    <2>1. /\ outputAttempts' = outputAttempts /\ unusable' = unusable
          /\ phase' = "sleeping"
      BY <1>4 DEF Fail, KeepTrying, Counted
    <2> QED
      BY <1>1, <1>2, <2>1
         DEF IInv, TypeOK, Validated, GivesUpOnUnusableOutput, Phases,
             MaxUnusable, OUTPUT_ERROR_ATTEMPTS
  <1> QED
    BY <1>3, <1>4

\* How the delay may change in a step.
BacksOff ==
  /\ delay <= delay' /\ delay' <= backoff.max
  /\ Wake => delay < delay' \/ delay' = backoff.max

\* A sleep doubles the delay, within the cap: it would shrink it only if the
\* cap were below it, and keep it only if it were zero, or the cap.
LEMMA WakeIInv ==
  ASSUME IInv, Wake
  PROVE  IInv' /\ BacksOff
  <1>1. /\ backoff.initial \in Nat /\ backoff.max \in Nat /\ delay \in Nat
        /\ 0 < backoff.initial
        /\ backoff.initial <= delay /\ delay <= backoff.max
    BY Numbers DEF IInv
  <1>2. /\ delay' = Smaller(2 * delay, backoff.max)
        /\ phase = "sleeping" /\ phase' = "calling"
        /\ UNCHANGED <<backoff, outputAttempts, lastError, unusable>>
    BY DEF Wake, NextDelay
  <1>3. /\ delay' \in Nat /\ delay <= delay' /\ delay' <= backoff.max
        /\ delay < delay' \/ delay' = backoff.max
    BY <1>1, <1>2 DEF Smaller
  <1>4. backoff'.initial <= delay' /\ delay' <= backoff'.max
    BY <1>1, <1>2, <1>3
  <1>5. IInv'
    BY <1>2, <1>3, <1>4
       DEF IInv, TypeOK, Validated, GivesUpOnUnusableOutput, Phases
  <1> QED
    BY <1>3, <1>5 DEF BacksOff

\* A step that leaves the delay alone, and is no sleep.
LEMMA StillBacksOff ==
  ASSUME IInv, UNCHANGED delay, ~ Wake
  PROVE  BacksOff
  <1>1. delay \in Nat /\ delay <= backoff.max
    BY DEF IInv, TypeOK
  <1> QED
    BY <1>1 DEF BacksOff

\* Every step keeps the invariant, and is one of backing off.
LEMMA NextIInv == IInv /\ [Next]_vars => IInv' /\ [BacksOff]_vars
  <1> SUFFICES ASSUME IInv, [Next]_vars PROVE IInv' /\ [BacksOff]_vars
    OBVIOUS
  <1>1. CASE Succeed
    <2>1. IInv'
      BY <1>1 DEF Succeed, IInv, TypeOK, Validated, Phases,
                  GivesUpOnUnusableOutput
    <2>2. UNCHANGED delay /\ ~ Wake
      BY <1>1 DEF Succeed, Wake
    <2> QED
      BY <2>1, <2>2, StillBacksOff
  <1>2. ASSUME NEW e \in ErrorKinds, Fail(e) PROVE IInv' /\ [BacksOff]_vars
    <2>1. UNCHANGED delay /\ ~ Wake
      BY <1>2 DEF Fail, Wake
    <2> QED
      BY <1>2, <2>1, FailIInv, StillBacksOff
  <1>3. CASE Wake
    BY <1>3, WakeIInv
  <1>4. CASE Cancel
    <2>1. IInv'
      BY <1>4 DEF Cancel, IInv, TypeOK, Validated, Phases,
                  GivesUpOnUnusableOutput
    <2>2. UNCHANGED delay /\ ~ Wake
      BY <1>4 DEF Cancel, Wake
    <2> QED
      BY <2>1, <2>2, StillBacksOff
  <1>5. CASE UNCHANGED vars
    BY <1>5 DEF vars, IInv, TypeOK, Validated, GivesUpOnUnusableOutput
  <1> QED
    BY <1>1, <1>2, <1>3, <1>4, <1>5 DEF Next

\* The inductive invariant holds under every accepted policy and whatever
\* the attempts end with (retry.rs:24).
THEOREM Invariance == Spec => []IInv
  BY InitIInv, NextIInv, PTL DEF Spec

\* The call keeps its types; its delay is a number of milliseconds
\* (retry.rs:23).
THEOREM TypeCorrect == Spec => []TypeOK
  <1>1. IInv => TypeOK
    BY DEF IInv
  <1> QED
    BY <1>1, Invariance, PTL

\* A triage is given up on its third unusable output, and on nothing else
\* (triage/worker.rs:44).
THEOREM OnlyOutputGivesUp == Spec => []GivesUpOnUnusableOutput
  <1>1. IInv => GivesUpOnUnusableOutput
    BY DEF IInv
  <1> QED
    BY <1>1, Invariance, PTL

\* Delays grow until they are the cap: that is what the configuration's
\* check of the two bounds is for (config.rs:234, retry.rs:35).
THEOREM DelaysBackOff == Spec => BacksOffToTheCap
  <1>1. IInv /\ [Next]_vars => [BacksOff]_vars
    BY NextIInv
  <1>2. Spec => [][BacksOff]_vars
    BY <1>1, Invariance, PTL DEF Spec
  <1> QED
    BY <1>2 DEF BacksOff, BacksOffToTheCap
=============================================================================
