----------------------------- MODULE TriageCall -----------------------------
(***************************************************************************)
(* One triage request in the hands of the triage worker: the attempts of   *)
(* Triager::triage (src/triage/triager.rs), retried by with_backoff        *)
(* (src/retry.rs) under the policy of src/triage/worker.rs, and raced      *)
(* against the shutdown.                                                   *)
(*                                                                         *)
(* Module Pipeline sees of it only how it ends: with a result, abandoned,  *)
(* or cancelled.  Time is left out but for the delays: an attempt may fail *)
(* by its own timeout like by any other error.                             *)
(***************************************************************************)
EXTENDS Integers

CONSTANTS
  Delays   \* values of backoff_initial_ms and backoff_max_ms

ASSUME DelaysAssumption == Delays \subseteq Nat

VARIABLES
  backoff,        \* the retry policy of the configuration
  phase,          \* where the call is
  delay,          \* how long the next sleep of with_backoff is
  outputAttempts, \* the policy's own count of unusable outputs
  \* History, for the properties; no action reads it but to write it.
  lastError,      \* the error of the last attempt that failed
  unusable        \* bounded by MaxUnusable: attempts that failed by their output

vars == <<backoff, phase, delay, outputAttempts, lastError, unusable>>

OUTPUT_ERROR_ATTEMPTS == 3

\* Bound of the history: a call was to end before so many unusable outputs.
MaxUnusable == OUTPUT_ERROR_ATTEMPTS + 1

Phases == {"calling", "sleeping", "answered", "abandoned", "cancelled"}
Ended == {"answered", "abandoned", "cancelled"}

\* TriageError::class, on the errors an attempt can end with.
ClassOf ==
  [timeout        |-> "transport",
   http_transport |-> "transport",
   http_status    |-> "model",
   completion     |-> "model",
   missing_text   |-> "output",
   unparseable    |-> "output"]

ErrorKinds == DOMAIN ClassOf
NoError == "none"

Smaller(m, n) == IF m <= n THEN m ELSE n

\* Fault: any delays are accepted.
ValidatedNever(b) == TRUE

\* validate(): the configurations the program starts with.
Validated(b) == b.initial > 0 /\ b.max >= b.initial

Init ==
  /\ backoff \in {b \in [initial : Delays, max : Delays] : Validated(b)}
  /\ phase = "calling"
  /\ delay = backoff.initial
  /\ outputAttempts = 0
  /\ lastError = NoError
  /\ unusable = 0

\* The attempt returns a TriageResult.
Succeed ==
  /\ phase = "calling"
  /\ phase' = "answered"
  /\ UNCHANGED <<backoff, delay, outputAttempts, lastError, unusable>>

\* Fault: an error of any class counts against the limit.
CountedAlways(e) == outputAttempts + 1

\* Fault: errors of the output are not counted.
CountedNever(e) == outputAttempts

\* The count kept by the worker's policy once it has seen error e.
Counted(e) ==
  IF ClassOf[e] = "output" THEN outputAttempts + 1 ELSE outputAttempts

KeepTrying(e) ==
  ClassOf[e] = "output" => Counted(e) < OUTPUT_ERROR_ATTEMPTS

\* The attempt fails; the policy says whether there will be another.
Fail(e) ==
  /\ phase = "calling"
  /\ phase' = IF KeepTrying(e) THEN "sleeping" ELSE "abandoned"
  /\ outputAttempts' = Counted(e)
  /\ lastError' = e
  /\ unusable' = IF ClassOf[e] = "output"
                 THEN Smaller(unusable + 1, MaxUnusable) ELSE unusable
  /\ UNCHANGED <<backoff, delay>>

\* Fault: the doubled delay is not capped.
Uncapped(d) == 2 * d

\* Milliseconds of a u64, doubled, stay far below what a Duration holds: the
\* multiplication never saturates.
NextDelay(d) == Smaller(2 * d, backoff.max)

\* The sleep ends, and the call is tried again.
Wake ==
  /\ phase = "sleeping"
  /\ phase' = "calling"
  /\ delay' = NextDelay(delay)
  /\ UNCHANGED <<backoff, outputAttempts, lastError, unusable>>

\* The shutdown wins over the call, whether it waits or sleeps.
Cancel ==
  /\ phase \in {"calling", "sleeping"}
  /\ phase' = "cancelled"
  /\ UNCHANGED <<backoff, delay, outputAttempts, lastError, unusable>>

Next ==
  \/ Succeed
  \/ \E e \in ErrorKinds : Fail(e)
  \/ Wake
  \/ Cancel

Spec == Init /\ [][Next]_vars

\* An attempt that brings some text back, usable or not.
Respond ==
  Succeed \/ \E e \in ErrorKinds : ClassOf[e] = "output" /\ Fail(e)

\* Timers fire, and of infinitely many attempts some get through to the
\* model.  Nothing in the code says they do: this is what the provider owes.
RespondingSpec == Spec /\ WF_vars(Wake) /\ SF_vars(Respond)

-----------------------------------------------------------------------------
(***************************************************************************)
(* Properties.                                                             *)
(***************************************************************************)

TypeOK ==
  /\ backoff \in [initial : Delays, max : Delays]
  /\ phase \in Phases
  /\ delay \in Nat
  /\ outputAttempts \in 0..OUTPUT_ERROR_ATTEMPTS
  /\ lastError \in ErrorKinds \cup {NoError}
  /\ unusable \in 0..MaxUnusable

\* A triage is given up exactly when its third unusable output comes,
\* however many errors of transport and model came in between; those alone
\* never end it (worker.rs:44).
GivesUpOnUnusableOutput ==
  /\ phase = "abandoned" <=> unusable >= OUTPUT_ERROR_ATTEMPTS
  /\ phase = "abandoned" => ClassOf[lastError] = "output"

\* The delays back off: none is shorter than the one before or beyond the
\* cap, and each attempt waits longer than the last until it waits as long as
\* the cap.  That takes the check of the configuration, that the cap is not
\* below a first delay which is not zero (config.rs:234, retry.rs:35).
BacksOffToTheCap ==
  [][/\ delay <= delay' /\ delay' <= backoff.max
     /\ Wake => delay < delay' \/ delay' = backoff.max]_vars

\* A triage ends, unless transport or model errors go on for ever: output
\* that stays unusable does not keep it, and the queue behind it, waiting
\* (worker.rs:43).
CallEnds == <>(phase \in Ended)
=============================================================================
