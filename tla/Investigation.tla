---------------------------- MODULE Investigation ----------------------------
(***************************************************************************)
(* One investigation: investigate() of src/investigation/worker.rs, the    *)
(* Recorder and its Recording (src/investigation/recorder.rs), and what    *)
(* they make of a run of rig's agent.                                      *)
(*                                                                         *)
(* The agent is a library.  It asks the model, runs the tools the answer   *)
(* calls for, in any order, and asks again; it tells the hooks what went   *)
(* on.  Its future is dropped, between any two of these, by the timeout or *)
(* by the shutdown.                                                        *)
(*                                                                         *)
(* Of a text, only which of the Lines it holds matters: a text is the set  *)
(* of quotes that are found in it.                                         *)
(***************************************************************************)
EXTENDS Integers, Sequences, FiniteSetsExt

CONSTANTS
  Lines,     \* lines that may be in files, and in what the model writes
  MaxTurns,  \* investigation.max_turns
  MaxCalls   \* bound: tool calls in one turn

ASSUME MaxTurnsAssumption == MaxTurns \in Nat \ {0, 1}
ASSUME MaxCallsAssumption == MaxCalls \in Nat \ {0}

INVALID_TOOL_CALL_RETRIES == 2

\* What the recorder writes as the result of a call that could not be
\* dispatched.  The model is told something else.
Note == "note"
\* A quote of white space only.
Blank == "blank"
Quotes == Lines \union {Note, Blank}

ASSUME LinesAssumption == Note \notin Lines /\ Blank \notin Lines

Texts == SUBSET Lines
Outcomes == {"Completed", "MaxTurnsExhausted", "TimedOut", "Failed"}
Steps ==
  [kind : {"Reasoning"}, turn : 1..MaxTurns, text : Texts]
    \union
  [kind : {"ToolCall"}, turn : 1..MaxTurns, text : Texts \union {{Note}}]

\* What a run may return: a Hypothesis, of which only the evidence matters,
\* or prose.
Responses ==
  [parses : {TRUE}, evidence : SUBSET Quotes]
    \union [parses : {FALSE}, evidence : {{}}]

VARIABLES
  at,         \* what the run waits for: "model", "tools"; or "done", "dropped"
  turn,       \* the turn under way, as rig counts them
  pending,    \* tool calls of this turn with no result yet
  fumbles,    \* retries of invalid tool calls
  steps,      \* State::steps of the recorder
  usage,      \* State::usage, a finished turn costing 1
  transcript, \* what became of the run, once it is done
  \* History, for the properties.
  calls,      \* answers of the provider
  shown       \* the lines of all tool results the model was shown

agent == <<at, turn, pending, fumbles, calls, shown>>
recorder == <<steps, usage>>
vars == <<agent, recorder, transcript>>

NoTranscript == [outcome |-> "none"]

Init ==
  /\ at = "model"
  /\ turn = 1
  /\ pending = 0
  /\ fumbles = 0
  /\ steps = <<>>
  /\ usage = 0
  /\ transcript = NoTranscript
  /\ calls = 0
  /\ shown = {}

-----------------------------------------------------------------------------
(***************************************************************************)
(* The recorder: what the hooks push.                                      *)
(***************************************************************************)

Reasoning(text) == [kind |-> "Reasoning", turn |-> turn, text |-> text]

\* Its classified outcome and its truncation flag are left out.
ToolCall(text) == [kind |-> "ToolCall", turn |-> turn, text |-> text]

\* on_model_turn_finished: its readable blocks become steps.
RecordTurn(thoughts) ==
  /\ usage' = usage + 1
  /\ steps' = steps \o thoughts

\* Fault: a result is recorded only if the call succeeded.
RecordSuccess(text, succeeded) ==
  /\ steps' = IF succeeded THEN Append(steps, ToolCall(text)) ELSE steps
  /\ usage' = usage

\* on_tool_result: an error, a refusal and a call that was skipped are
\* recorded as what the model was told of them.
RecordToolResult(text, succeeded) ==
  /\ steps' = Append(steps, ToolCall(text))
  /\ usage' = usage

\* on_invalid_tool_call, whose opinion is None: the other hook's stands.
RecordInvalidToolCall ==
  /\ steps' = Append(steps, ToolCall({Note}))
  /\ usage' = usage

-----------------------------------------------------------------------------
(***************************************************************************)
(* What investigate() makes of a run that ended.                           *)
(***************************************************************************)

\* Fault: the steps are counted, though several may belong to a turn.
StepCount(s) == Len(s)

\* The last turn that left a step.
Turns(s) == Max({0} \union {s[n].turn : n \in DOMAIN s})

ToolResults(s) == {s[n].text : n \in {m \in DOMAIN s : s[m].kind = "ToolCall"}}

\* Fault: what the model wrote itself is as good as what it read.
QuotedAnywhere(quote, s) ==
  quote # Blank /\ \E n \in DOMAIN s : quote \in s[n].text

IsQuoted(quote, s) ==
  quote # Blank /\ \E text \in ToolResults(s) : quote \in text

Unverified(evidence, s) == {quote \in evidence : ~ IsQuoted(quote, s)}

\* Fault: a run that returned is complete, whatever it returned.
ConcludedAnyhow(response) ==
  [outcome |-> "Completed", concluded |-> response.parses,
   evidence |-> response.evidence]

\* A response completes the investigation if its output is a Hypothesis.
Concluded(response) ==
  [outcome |-> IF response.parses THEN "Completed" ELSE "Failed",
   concluded |-> response.parses,
   evidence |-> response.evidence]

\* recording.drain() empties the recorder.
Drain ==
  /\ steps' = <<>>
  /\ usage' = 0

Finish(outcome, concluded, evidence, requests) ==
  /\ at' = "done"
  /\ transcript' = [outcome |-> outcome,
                    hypothesis |-> concluded,
                    evidence |-> evidence,
                    unverified |-> Unverified(evidence, steps),
                    usage |-> usage,
                    requests |-> requests,
                    steps |-> steps]
  /\ Drain
  /\ UNCHANGED <<turn, pending, fumbles, calls, shown>>

\* The run returned an error, or was given up: there is no response.
Abandon(outcome) == Finish(outcome, FALSE, {}, Turns(steps))

-----------------------------------------------------------------------------
(***************************************************************************)
(* The run.                                                                *)
(***************************************************************************)

\* The provider answers with some thoughts, readable or not, and with calls
\* of tools, an output, or neither.
TurnFinishes ==
  \E thoughts \in {<<>>} \union {<<Reasoning(text)>> : text \in Texts},
     wanted \in 0..MaxCalls :
    /\ at = "model"
    /\ at' = "tools"
    /\ pending' = wanted
    /\ calls' = calls + 1
    /\ RecordTurn(thoughts)
    /\ UNCHANGED <<turn, fumbles, shown, transcript>>

ToolReturns ==
  \E text \in Texts, succeeded \in BOOLEAN :
    /\ at = "tools"
    /\ pending > 0
    /\ pending' = pending - 1
    /\ shown' = shown \union text
    /\ RecordToolResult(text, succeeded)
    /\ UNCHANGED <<at, turn, fumbles, calls, transcript>>

\* Fault: the agent is given no limit of retries.
RetryAlways ==
  /\ at = "tools"
  /\ pending > 0
  /\ fumbles' = fumbles + 1
  /\ at' = "model"
  /\ pending' = 0
  /\ turn' \in {turn, turn + 1} \intersect 1..MaxTurns
  /\ RecordInvalidToolCall
  /\ UNCHANGED <<calls, shown, transcript>>

\* RetryInvalidToolCalls has the model asked again.  Whether rig counts that
\* as a turn is left open.
InvalidToolCall ==
  /\ at = "tools"
  /\ pending > 0
  /\ fumbles < INVALID_TOOL_CALL_RETRIES
  /\ fumbles' = fumbles + 1
  /\ at' = "model"
  /\ pending' = 0
  /\ turn' \in {turn, turn + 1} \intersect 1..MaxTurns
  /\ RecordInvalidToolCall
  /\ UNCHANGED <<calls, shown, transcript>>

\* Beyond the retries an invalid call is recorded and then fails the run,
\* which is one step here: rig returns at once.
TooManyFumbles ==
  LET s == Append(steps, ToolCall({Note}))
  IN  /\ at = "tools"
      /\ pending > 0
      /\ fumbles = INVALID_TOOL_CALL_RETRIES
      /\ at' = "done"
      /\ transcript' = [outcome |-> "Failed", hypothesis |-> FALSE,
                        evidence |-> {}, unverified |-> {}, usage |-> usage,
                        requests |-> Turns(s), steps |-> s]
      /\ Drain
      /\ UNCHANGED <<turn, pending, fumbles, calls, shown>>

\* All calls of the turn have their results.
NextTurn ==
  /\ at = "tools"
  /\ pending = 0
  /\ turn < MaxTurns
  /\ turn' = turn + 1
  /\ at' = "model"
  /\ UNCHANGED <<pending, fumbles, recorder, transcript, calls, shown>>

\* The budget counts the initial call.
BudgetSpent ==
  /\ at = "tools"
  /\ pending = 0
  /\ turn = MaxTurns
  /\ Abandon("MaxTurnsExhausted")

\* The run returns its output.
Return ==
  \E response \in Responses :
    LET conclusion == Concluded(response)
    IN  /\ at = "tools"
        /\ pending = 0
        /\ Finish(conclusion.outcome, conclusion.concluded,
                  conclusion.evidence, calls)

ProviderFails ==
  /\ at = "model"
  /\ Abandon("Failed")

\* Fault: the clock is looked at only when the model has answered.
TimesOutAtTools ==
  /\ at = "tools"
  /\ Abandon("TimedOut")

\* tokio::time::timeout drops the run wherever it is.
TimesOut ==
  /\ at \in {"model", "tools"}
  /\ Abandon("TimedOut")

\* The worker drops investigate() and all it holds.
Shutdown ==
  /\ at \in {"model", "tools"}
  /\ at' = "dropped"
  /\ UNCHANGED <<turn, pending, fumbles, recorder, transcript, calls, shown>>

Ended == at \in {"done", "dropped"} /\ UNCHANGED vars

Next ==
  \/ TurnFinishes
  \/ ToolReturns
  \/ InvalidToolCall
  \/ TooManyFumbles
  \/ NextTurn
  \/ BudgetSpent
  \/ Return
  \/ ProviderFails
  \/ TimesOut
  \/ Shutdown
  \/ Ended

\* Only the timer is sure to go on: the model, or a tool, may hang.
Spec == Init /\ [][Next]_vars /\ WF_vars(TimesOut)

-----------------------------------------------------------------------------
(***************************************************************************)
(* Properties.                                                             *)
(***************************************************************************)

\* The recorder and the transcript hold what their types say.
TypeOK ==
  /\ at \in {"model", "tools", "done", "dropped"}
  /\ turn \in 1..MaxTurns
  /\ pending \in 0..MaxCalls
  /\ fumbles \in 0..INVALID_TOOL_CALL_RETRIES
  /\ \A n \in DOMAIN steps : steps[n] \in Steps
  /\ usage \in Nat
  /\ at = "done" <=> transcript # NoTranscript
  /\ at = "done" => /\ transcript.outcome \in Outcomes
                    /\ \A n \in DOMAIN transcript.steps :
                         transcript.steps[n] \in Steps

\* Evidence passes unflagged exactly if its quote was in some result the
\* model was shown, whichever turn that was in and whether the call failed;
\* or if it quotes the note on a call that could not be dispatched, which the
\* model never saw (is_quoted looks at every ToolCall step).
EvidenceJudged ==
  at = "done" =>
    \A quote \in transcript.evidence :
      quote \notin transcript.unverified <=>
        quote \in shown \/ (quote = Note /\ fumbles > 0)

\* The outcome tells the truth about the run: it completed if and only if
\* there is a hypothesis, and it ran out of turns only if it had them all.
OutcomeHonest ==
  at = "done" =>
    /\ transcript.hypothesis <=> transcript.outcome = "Completed"
    /\ transcript.outcome = "MaxTurnsExhausted" => calls >= MaxTurns

\* However the run ended, its transcript accounts for all of it: the usage of
\* every answer, every line a tool returned, the steps in the order of their
\* turns.  The number of requests covers the turns of all steps and exceeds
\* that of the answers never; with a response to tell it, it is exact.
RunAccountedFor ==
  at = "done" =>
    /\ transcript.usage = calls
    /\ shown \subseteq UNION ToolResults(transcript.steps)
    /\ \A n, m \in DOMAIN transcript.steps :
         n < m => transcript.steps[n].turn <= transcript.steps[m].turn
    /\ Turns(transcript.steps) <= transcript.requests
    /\ transcript.requests <= calls
    /\ transcript.outcome = "Completed" => transcript.requests = calls

\* A run ends though the provider or a tool may never return (the timeout of
\* investigate(), or the shutdown).
RunEnds == <>(at \in {"done", "dropped"})

=============================================================================
