-------------------------- MODULE InvestigationProofs --------------------------
(***************************************************************************)
(* Proofs about module Investigation, for any lines, any budget of turns   *)
(* and any number of tool calls in a turn.                                 *)
(*                                                                         *)
(* The transcript is written in one step, from what the hooks recorded in  *)
(* all the steps before it.  What it promises therefore rests on Ledger:   *)
(* at any moment of the run, the moment it is dropped included, the        *)
(* recorder agrees with what the provider and the tools did.               *)
(***************************************************************************)
EXTENDS Investigation, TLAPS

Running == at \in {"model", "tools"}

\* Steps are in the order of their turns.
Ordered(s) == \A n, m \in DOMAIN s : n < m => s[n].turn <= s[m].turn

\* A quote is found in the recorded results exactly if the model was shown
\* it, or if it is the note on a fumbled call.
Heard(s) ==
  \A quote \in Quotes :
    IsQuoted(quote, s) <=> quote \in shown \/ (quote = Note /\ fumbles > 0)

Ledger ==
  /\ usage = calls
  /\ turn <= calls + (IF at = "model" THEN 1 ELSE 0)
  /\ \A n \in DOMAIN steps : steps[n].turn <= calls /\ steps[n].turn <= turn
  /\ Ordered(steps)
  /\ Heard(steps)

IInv ==
  /\ TypeOK
  /\ steps \in Seq(Steps)
  /\ calls \in Nat
  /\ shown \in SUBSET Lines
  /\ Running => Ledger
  /\ EvidenceJudged
  /\ OutcomeHonest
  /\ RunAccountedFor

-----------------------------------------------------------------------------
(***************************************************************************)
(* A step recorded.                                                        *)
(***************************************************************************)

\* Appending a step adds it at the end and changes nothing before it
\* (recorder.rs:57).
LEMMA Recorded ==
  ASSUME NEW s \in Seq(Steps), NEW x \in Steps
  PROVE  LET t == Append(s, x)
         IN /\ t \in Seq(Steps)
            /\ DOMAIN t = DOMAIN s \union {Len(s) + 1}
            /\ t[Len(s) + 1] = x
            /\ \A n \in DOMAIN s : t[n] = s[n] /\ n < Len(s) + 1
            /\ DOMAIN s \subseteq Nat
  OBVIOUS

\* ... and keeps the steps in order, if it is of the latest turn.
LEMMA RecordedInOrder ==
  ASSUME NEW s \in Seq(Steps), NEW x \in Steps, Ordered(s),
         \A n \in DOMAIN s : s[n].turn <= x.turn
  PROVE  Ordered(Append(s, x))
  <1> DEFINE t == Append(s, x)
  <1> SUFFICES ASSUME NEW n \in DOMAIN t, NEW m \in DOMAIN t, n < m
               PROVE  t[n].turn <= t[m].turn
    BY DEF Ordered
  <1>1. /\ DOMAIN t = DOMAIN s \union {Len(s) + 1}
        /\ t[Len(s) + 1] = x
        /\ \A k \in DOMAIN s : t[k] = s[k] /\ k < Len(s) + 1
        /\ DOMAIN s \subseteq Nat /\ Len(s) \in Nat
    BY Recorded
  <1> HIDE DEF t
  <1>2. n \in DOMAIN s
    BY <1>1
  <1>3. CASE m \in DOMAIN s
    BY <1>1, <1>2, <1>3 DEF Ordered
  <1>4. CASE m = Len(s) + 1
    BY <1>1, <1>2, <1>4
  <1> QED
    BY <1>1, <1>3, <1>4

\* A quote is found after a step if it was found before, or if the step is
\* the result of a tool and holds it (is_quoted).
LEMMA RecordedQuotes ==
  ASSUME NEW s \in Seq(Steps), NEW x \in Steps, NEW quote
  PROVE  IsQuoted(quote, Append(s, x)) <=>
           \/ IsQuoted(quote, s)
           \/ quote # Blank /\ x.kind = "ToolCall" /\ quote \in x.text
  <1> DEFINE t == Append(s, x)
  <1>1. /\ DOMAIN t = DOMAIN s \union {Len(s) + 1}
        /\ t[Len(s) + 1] = x
        /\ \A k \in DOMAIN s : t[k] = s[k]
    BY Recorded
  <1> HIDE DEF t
  <1>2. IsQuoted(quote, t) <=>
          quote # Blank
            /\ \E n \in DOMAIN t : t[n].kind = "ToolCall" /\ quote \in t[n].text
    BY DEF IsQuoted, ToolResults
  <1>3. IsQuoted(quote, s) <=>
          quote # Blank
            /\ \E n \in DOMAIN s : s[n].kind = "ToolCall" /\ quote \in s[n].text
    BY DEF IsQuoted, ToolResults
  <1> QED
    BY <1>1, <1>2, <1>3 DEF t

\* Of steps in order, the last has the latest turn (turns()).
LEMMA TurnsBounded ==
  ASSUME NEW s \in Seq(Steps), Ordered(s), NEW c \in Nat,
         \A n \in DOMAIN s : s[n].turn <= c
  PROVE  Turns(s) \in Nat /\ Turns(s) <= c
  <1> DEFINE T == {0} \union {s[n].turn : n \in DOMAIN s}
  <1>1. \A n \in DOMAIN s : s[n].turn \in Nat
    BY DEF Steps
  <1>2. PICK top \in T : \A y \in T : top >= y
    <2>1. CASE DOMAIN s = {}
      BY <2>1
    <2>2. CASE DOMAIN s # {}
      <3>1. Len(s) \in DOMAIN s /\ \A n \in DOMAIN s : n <= Len(s) /\ n \in Nat
        BY <2>2
      <3>2. \A n \in DOMAIN s : s[Len(s)].turn >= s[n].turn
        BY <1>1, <3>1 DEF Ordered
      <3>3. \A y \in T : s[Len(s)].turn >= y
        BY <1>1, <3>1, <3>2
      <3> QED
        BY <3>1, <3>3
    <2> QED
      BY <2>1, <2>2
  <1>3. Max(T) \in T
    BY <1>2 DEF Max
  <1>4. \A y \in T : y \in Nat /\ y <= c
    BY <1>1
  <1> QED
    BY <1>3, <1>4 DEF Turns

-----------------------------------------------------------------------------
(***************************************************************************)
(* The invariant is inductive: one lemma per kind of step.                 *)
(***************************************************************************)

\* A run starts with an empty recorder (worker.rs:94).
LEMMA InitIInv == Init => IInv
  <1> SUFFICES ASSUME Init PROVE IInv
    OBVIOUS
  <1>1. TypeOK /\ steps \in Seq(Steps) /\ at = "model" /\ calls = 0 /\ shown = {}
    BY MaxTurnsAssumption, MaxCallsAssumption
       DEF Init, TypeOK, INVALID_TOOL_CALL_RETRIES
  <1>2. Ledger
    BY DEF Init, Ledger, Ordered, Heard, IsQuoted, ToolResults
  <1> QED
    BY <1>1, <1>2 DEF IInv, EvidenceJudged, OutcomeHonest, RunAccountedFor

\* While the run goes on, the properties of the transcript say nothing.
LEMMA NotDone ==
  ASSUME at' # "done"
  PROVE  EvidenceJudged' /\ OutcomeHonest' /\ RunAccountedFor'
  BY DEF EvidenceJudged, OutcomeHonest, RunAccountedFor

\* A transcript written from a true ledger keeps the promises of the
\* transcript, if its outcome and requests are chosen right (worker.rs:130).
LEMMA Written ==
  ASSUME IInv, Ledger, Running,
         NEW s \in Seq(Steps), Ordered(s),
         shown \subseteq UNION ToolResults(s),
         NEW outcome \in Outcomes, NEW concluded \in BOOLEAN,
         NEW evidence \in SUBSET Quotes, NEW requests,
         \A quote \in evidence :
           IsQuoted(quote, s) <=> quote \in shown \/ (quote = Note /\ fumbles > 0),
         concluded <=> outcome = "Completed",
         outcome = "MaxTurnsExhausted" => calls >= MaxTurns,
         Turns(s) <= requests, requests <= calls,
         outcome = "Completed" => requests = calls,
         at' = "done",
         transcript' = [outcome |-> outcome, hypothesis |-> concluded,
                        evidence |-> evidence,
                        unverified |-> Unverified(evidence, s),
                        usage |-> usage, requests |-> requests, steps |-> s],
         Drain, UNCHANGED <<turn, pending, fumbles, calls, shown>>
  PROVE  IInv'
  <1>1. steps' \in Seq(Steps) /\ steps' = <<>> /\ usage' = 0
    BY DEF Drain
  <1>2. TypeOK'
    <2>1. transcript' # NoTranscript
      BY DEF NoTranscript, Outcomes
    <2>2. \A n \in DOMAIN s : s[n] \in Steps
      OBVIOUS
    <2> QED
      BY <1>1, <2>1, <2>2 DEF IInv, TypeOK, NoTranscript
  <1>3. EvidenceJudged'
    BY DEF EvidenceJudged, Unverified
  <1>4. OutcomeHonest'
    BY DEF OutcomeHonest
  <1>5. RunAccountedFor'
    BY DEF RunAccountedFor, Ledger, Ordered
  <1>6. ~Running'
    BY DEF Running
  <1> QED
    BY <1>1, <1>2, <1>3, <1>4, <1>5, <1>6 DEF IInv

\* Every line the model was shown is in a recorded result.
LEMMA ShownIsRecorded ==
  ASSUME IInv, Ledger
  PROVE  shown \subseteq UNION ToolResults(steps)
  <1> SUFFICES ASSUME NEW line \in shown
               PROVE  line \in UNION ToolResults(steps)
    OBVIOUS
  <1>1. line \in Quotes
    BY DEF IInv, Quotes
  <1>2. IsQuoted(line, steps)
    BY <1>1 DEF Ledger, Heard
  <1> QED
    BY <1>2 DEF IsQuoted

\* A run that returned, or was given up, is written down as it was recorded.
LEMMA FinishIInv ==
  ASSUME IInv, Running,
         NEW outcome \in Outcomes, NEW concluded \in BOOLEAN,
         NEW evidence \in SUBSET Quotes, NEW requests,
         Finish(outcome, concluded, evidence, requests),
         concluded <=> outcome = "Completed",
         outcome = "MaxTurnsExhausted" => calls >= MaxTurns,
         requests = calls \/ requests = Turns(steps),
         outcome = "Completed" => requests = calls
  PROVE  IInv'
  <1>1. Ledger
    BY DEF IInv
  <1>2. Turns(steps) \in Nat /\ Turns(steps) <= calls
    BY <1>1, TurnsBounded DEF IInv, Ledger
  <1>3. Turns(steps) <= requests /\ requests <= calls
    BY <1>2 DEF IInv
  <1>4. shown \subseteq UNION ToolResults(steps)
    BY <1>1, ShownIsRecorded
  <1>5. \A quote \in evidence :
          IsQuoted(quote, steps)
            <=> quote \in shown \/ (quote = Note /\ fumbles > 0)
    BY <1>1 DEF Ledger, Heard
  <1>6. /\ at' = "done"
        /\ transcript' = [outcome |-> outcome, hypothesis |-> concluded,
                          evidence |-> evidence,
                          unverified |-> Unverified(evidence, steps),
                          usage |-> usage, requests |-> requests,
                          steps |-> steps]
        /\ Drain
        /\ UNCHANGED <<turn, pending, fumbles, calls, shown>>
    BY DEF Finish
  <1>7. Ordered(steps) /\ steps \in Seq(Steps)
    BY <1>1 DEF Ledger, IInv
  <1> QED
    BY <1>1, <1>3, <1>4, <1>5, <1>6, <1>7, Written

\* A run given up has no hypothesis and counts its turns by its steps.
LEMMA AbandonIInv ==
  ASSUME IInv, Running, NEW outcome \in Outcomes \ {"Completed"},
         outcome = "MaxTurnsExhausted" => calls >= MaxTurns,
         Abandon(outcome)
  PROVE  IInv'
  <1>1. Finish(outcome, FALSE, {}, Turns(steps))
    BY DEF Abandon
  <1> QED
    BY <1>1, FinishIInv

\* An answer of the provider: a turn, and a step if it has a readable thought.
LEMMA TurnFinishesIInv ==
  ASSUME IInv, TurnFinishes
  PROVE  IInv'
  <1>1. /\ Ledger /\ TypeOK /\ steps \in Seq(Steps) /\ calls \in Nat
        /\ turn \in 1..MaxTurns /\ usage = calls /\ turn <= calls + 1
    BY DEF IInv, TurnFinishes, Running, Ledger, TypeOK
  <1>2. PICK thoughts \in {<<>>} \union {<<Reasoning(text)>> : text \in Texts},
             wanted \in 0..MaxCalls :
          /\ at = "model" /\ at' = "tools"
          /\ pending' = wanted
          /\ calls' = calls + 1
          /\ RecordTurn(thoughts)
          /\ UNCHANGED <<turn, fumbles, shown, transcript>>
    BY DEF TurnFinishes
  <1>3. \/ steps' = steps
        \/ \E text \in Texts : steps' = Append(steps, Reasoning(text))
    <2>1. CASE thoughts = <<>>
      BY <1>1, <1>2, <2>1 DEF RecordTurn
    <2>2. CASE \E text \in Texts : thoughts = <<Reasoning(text)>>
      BY <1>1, <1>2, <2>2 DEF RecordTurn
    <2> QED
      BY <2>1, <2>2
  <1>4. /\ steps' \in Seq(Steps)
        /\ \A n \in DOMAIN steps' :
             steps'[n].turn <= calls' /\ steps'[n].turn <= turn'
        /\ Ordered(steps')
        /\ Heard(steps)'
    <2>1. CASE steps' = steps
      <3>1. Heard(steps)'
        BY <1>1, <1>2, <2>1 DEF Ledger, Heard
      <3>2. \A n \in DOMAIN steps :
              steps[n].turn <= calls /\ steps[n].turn <= turn
        BY <1>1 DEF Ledger
      <3>3. \A n \in DOMAIN steps : steps[n].turn \in Int
        BY <1>1 DEF Steps
      <3>4. \A n \in DOMAIN steps :
              steps[n].turn <= calls + 1 /\ steps[n].turn <= turn
        BY <1>1, <3>2, <3>3
      <3> QED
        BY <1>1, <1>2, <2>1, <3>1, <3>4 DEF Ledger
    <2>2. ASSUME NEW text \in Texts, steps' = Append(steps, Reasoning(text))
          PROVE  /\ steps' \in Seq(Steps)
                 /\ \A n \in DOMAIN steps' :
                      steps'[n].turn <= calls' /\ steps'[n].turn <= turn'
                 /\ Ordered(steps')
                 /\ Heard(steps)'
      <3> DEFINE x == Reasoning(text)
      <3>1. x \in Steps /\ x.kind = "Reasoning" /\ x.turn = turn
        BY <1>1 DEF Reasoning, Steps
      <3> HIDE DEF x
      <3>2. steps' = Append(steps, x)
        BY <2>2 DEF x
      <3>3. /\ steps' \in Seq(Steps)
            /\ DOMAIN steps' = DOMAIN steps \union {Len(steps) + 1}
            /\ steps'[Len(steps) + 1] = x
            /\ \A n \in DOMAIN steps : steps'[n] = steps[n]
        BY <1>1, <3>1, <3>2, Recorded
      <3>4. \A n \in DOMAIN steps :
              /\ steps[n].turn <= calls /\ steps[n].turn <= turn
              /\ steps[n].turn \in Int
        BY <1>1 DEF Ledger, Steps
      <3>5. \A n \in DOMAIN steps' :
              steps'[n].turn <= calls' /\ steps'[n].turn <= turn'
        BY <1>1, <1>2, <3>1, <3>3, <3>4
      <3>6. Ordered(steps')
        BY <1>1, <3>1, <3>2, <3>4, RecordedInOrder DEF Ledger
      <3>7. \A quote : IsQuoted(quote, steps') <=> IsQuoted(quote, steps)
        BY <1>1, <3>1, <3>2, RecordedQuotes
      <3>8. Heard(steps)'
        BY <1>1, <1>2, <3>7 DEF Ledger, Heard
      <3> QED
        BY <3>3, <3>5, <3>6, <3>8
    <2> QED
      BY <1>3, <2>1, <2>2
  <1>5. usage' = calls'
    BY <1>1, <1>2 DEF RecordTurn
  <1>6. Ledger'
    BY <1>1, <1>2, <1>4, <1>5 DEF Ledger
  <1>7. TypeOK'
    BY <1>1, <1>2, <1>4, <1>5 DEF TypeOK
  <1>8. EvidenceJudged' /\ OutcomeHonest' /\ RunAccountedFor'
    BY <1>2, NotDone
  <1> QED
    BY <1>1, <1>2, <1>4, <1>6, <1>7, <1>8 DEF IInv

\* The result of a tool call, dispatched or not, of the turn under way.
LEMMA ResultIInv ==
  ASSUME IInv, at = "tools", NEW x \in Steps, x.kind = "ToolCall",
         x.turn = turn,
         steps' = Append(steps, x), usage' = usage,
         at' \in {"model", "tools"},
         turn' \in 1..MaxTurns, turn' \in {turn, turn + 1},
         at' = "tools" => turn' = turn,
         pending' \in 0..MaxCalls,
         fumbles' \in 0..INVALID_TOOL_CALL_RETRIES,
         shown' \in SUBSET Lines,
         calls' = calls, transcript' = transcript,
         \A quote \in Quotes \ {Blank} :
           quote \in shown' \/ (quote = Note /\ fumbles' > 0) <=>
             \/ quote \in shown \/ (quote = Note /\ fumbles > 0)
             \/ quote \in x.text
  PROVE  IInv'
  <1>1. /\ Ledger /\ TypeOK /\ steps \in Seq(Steps) /\ calls \in Nat
        /\ turn \in 1..MaxTurns /\ turn <= calls /\ usage = calls
    BY DEF IInv, Running, Ledger, TypeOK
  <1>2. /\ steps' \in Seq(Steps)
        /\ DOMAIN steps' = DOMAIN steps \union {Len(steps) + 1}
        /\ steps'[Len(steps) + 1] = x
        /\ \A n \in DOMAIN steps : steps'[n] = steps[n]
    BY <1>1, Recorded
  <1>3. \A n \in DOMAIN steps :
          /\ steps[n].turn <= calls /\ steps[n].turn <= turn
          /\ steps[n].turn \in Int
    BY <1>1 DEF Ledger, Steps
  <1>4. \A n \in DOMAIN steps' :
          steps'[n].turn <= calls' /\ steps'[n].turn <= turn'
    BY <1>1, <1>2, <1>3
  <1>5. Ordered(steps')
    BY <1>1, <1>3, RecordedInOrder DEF Ledger
  <1>6. Heard(steps)'
    <2>1. \A quote : IsQuoted(quote, steps') <=>
            IsQuoted(quote, steps) \/ (quote # Blank /\ quote \in x.text)
      BY <1>1, RecordedQuotes
    <2>2. Blank \notin shown /\ Blank \notin shown' /\ Blank # Note
      BY LinesAssumption DEF IInv, Blank, Note
    <2>3. ~IsQuoted(Blank, steps')
      BY DEF IsQuoted
    <2>4. \A quote \in Quotes \ {Blank} :
            IsQuoted(quote, steps')
              <=> quote \in shown' \/ (quote = Note /\ fumbles' > 0)
      BY <1>1, <2>1 DEF Ledger, Heard
    <2> QED
      BY <2>2, <2>3, <2>4 DEF Heard
  <1>7. turn' <= calls' + (IF at' = "model" THEN 1 ELSE 0)
    BY <1>1
  <1>8. Ledger'
    BY <1>1, <1>4, <1>5, <1>6, <1>7 DEF Ledger
  <1>9. TypeOK'
    BY <1>1, <1>2 DEF TypeOK
  <1>10. EvidenceJudged' /\ OutcomeHonest' /\ RunAccountedFor'
    BY NotDone
  <1> QED
    BY <1>1, <1>2, <1>8, <1>9, <1>10 DEF IInv

\* A tool that ran: the model is shown what it returned.
LEMMA ToolReturnsIInv ==
  ASSUME IInv, ToolReturns
  PROVE  IInv'
  <1>1. PICK text \in Texts, succeeded \in BOOLEAN :
          /\ at = "tools" /\ pending > 0
          /\ pending' = pending - 1
          /\ shown' = shown \union text
          /\ RecordToolResult(text, succeeded)
          /\ UNCHANGED <<at, turn, fumbles, calls, transcript>>
    BY DEF ToolReturns
  <1>2. turn \in 1..MaxTurns /\ pending' \in 0..MaxCalls
        /\ fumbles \in 0..INVALID_TOOL_CALL_RETRIES /\ shown' \in SUBSET Lines
    BY <1>1, MaxCallsAssumption DEF IInv, TypeOK, Texts
  <1> DEFINE x == ToolCall(text)
  <1>3. x \in Steps /\ x.kind = "ToolCall" /\ x.turn = turn /\ x.text = text
    BY <1>2 DEF ToolCall, Steps
  <1>4. steps' = Append(steps, x) /\ usage' = usage
    BY <1>1 DEF RecordToolResult
  <1> HIDE DEF x
  <1>5. \A quote \in Quotes \ {Blank} :
          quote \in shown' \/ (quote = Note /\ fumbles' > 0) <=>
            \/ quote \in shown \/ (quote = Note /\ fumbles > 0)
            \/ quote \in x.text
    BY <1>1, <1>3
  <1> QED
    BY <1>1, <1>2, <1>3, <1>4, <1>5, ResultIInv

\* A call that could not be dispatched: only the recorder has its note.
LEMMA InvalidToolCallIInv ==
  ASSUME IInv, InvalidToolCall
  PROVE  IInv'
  <1>1. /\ at = "tools" /\ at' = "model" /\ pending' = 0
        /\ fumbles' = fumbles + 1 /\ fumbles < INVALID_TOOL_CALL_RETRIES
        /\ turn' \in {turn, turn + 1} \intersect 1..MaxTurns
        /\ RecordInvalidToolCall
        /\ UNCHANGED <<calls, shown, transcript>>
    BY DEF InvalidToolCall
  <1>2. /\ turn \in 1..MaxTurns /\ 0 \in 0..MaxCalls
        /\ fumbles \in 0..INVALID_TOOL_CALL_RETRIES
        /\ fumbles' \in 0..INVALID_TOOL_CALL_RETRIES /\ fumbles' > 0
        /\ shown \in SUBSET Lines
    BY <1>1, MaxCallsAssumption DEF IInv, TypeOK, INVALID_TOOL_CALL_RETRIES
  <1> DEFINE x == ToolCall({Note})
  <1>3. x \in Steps /\ x.kind = "ToolCall" /\ x.turn = turn /\ x.text = {Note}
    BY <1>2 DEF ToolCall, Steps
  <1>4. steps' = Append(steps, x) /\ usage' = usage
    BY <1>1 DEF RecordInvalidToolCall
  <1> HIDE DEF x
  <1>5. \A quote \in Quotes \ {Blank} :
          quote \in shown' \/ (quote = Note /\ fumbles' > 0) <=>
            \/ quote \in shown \/ (quote = Note /\ fumbles > 0)
            \/ quote \in x.text
    BY <1>1, <1>2, <1>3
  <1> QED
    BY <1>1, <1>2, <1>3, <1>4, <1>5, ResultIInv

\* One such call too many: the note is the last step, and the run failed.
LEMMA TooManyFumblesIInv ==
  ASSUME IInv, TooManyFumbles
  PROVE  IInv'
  <1>1. /\ at = "tools" /\ Running /\ Ledger
        /\ turn \in 1..MaxTurns /\ turn <= calls /\ calls \in Nat
        /\ steps \in Seq(Steps)
    BY DEF TooManyFumbles, Running, IInv, TypeOK, Ledger
  <1> DEFINE x == ToolCall({Note})
             s == Append(steps, x)
  <1>2. x \in Steps /\ x.kind = "ToolCall" /\ x.turn = turn
    BY <1>1 DEF ToolCall, Steps
  <1>3. /\ at' = "done"
        /\ transcript' = [outcome |-> "Failed", hypothesis |-> FALSE,
                          evidence |-> {}, unverified |-> {},
                          usage |-> usage, requests |-> Turns(s), steps |-> s]
        /\ Drain
        /\ UNCHANGED <<turn, pending, fumbles, calls, shown>>
    BY DEF TooManyFumbles
  <1> HIDE DEF x
  <1>4. /\ s \in Seq(Steps)
        /\ DOMAIN s = DOMAIN steps \union {Len(steps) + 1}
        /\ s[Len(steps) + 1] = x
        /\ \A n \in DOMAIN steps : s[n] = steps[n]
    BY <1>1, <1>2, Recorded
  <1>5. \A n \in DOMAIN steps :
          /\ steps[n].turn <= calls /\ steps[n].turn <= turn
          /\ steps[n].turn \in Int
    BY <1>1 DEF Ledger, Steps
  <1>6. Ordered(s)
    BY <1>1, <1>2, <1>5, RecordedInOrder DEF Ledger
  <1>7. \A n \in DOMAIN s : s[n].turn <= calls
    BY <1>1, <1>2, <1>4, <1>5
  <1>8. Turns(s) \in Nat /\ Turns(s) <= calls
    BY <1>1, <1>4, <1>6, <1>7, TurnsBounded
  <1>9. shown \subseteq UNION ToolResults(s)
    <2>1. ToolResults(steps) \subseteq ToolResults(s)
      BY <1>4 DEF ToolResults
    <2> QED
      BY <1>1, <2>1, ShownIsRecorded
  <1>10. Unverified({}, s) = {}
    BY DEF Unverified
  <1> HIDE DEF s
  <1>11. transcript' = [outcome |-> "Failed", hypothesis |-> FALSE,
                        evidence |-> {}, unverified |-> Unverified({}, s),
                        usage |-> usage, requests |-> Turns(s), steps |-> s]
    BY <1>3, <1>10
  <1>12. /\ s \in Seq(Steps) /\ Turns(s) <= Turns(s)
         /\ "Failed" \in Outcomes /\ FALSE \in BOOLEAN
         /\ {} \in SUBSET Quotes
    BY <1>4, <1>8 DEF Outcomes
  <1> QED
    BY <1>1, <1>3, <1>6, <1>8, <1>9, <1>11, <1>12, Written

\* The model is asked again once every call has its result.
LEMMA NextTurnIInv ==
  ASSUME IInv, NextTurn
  PROVE  IInv'
  <1>1. /\ Ledger /\ TypeOK /\ steps \in Seq(Steps) /\ calls \in Nat
        /\ turn \in 1..MaxTurns /\ turn <= calls /\ turn < MaxTurns
        /\ turn' = turn + 1 /\ at' = "model" /\ at = "tools"
        /\ UNCHANGED <<pending, fumbles, recorder, transcript, calls, shown>>
    BY DEF IInv, Running, Ledger, TypeOK, NextTurn
  <1>2. steps' = steps /\ usage' = usage
    BY <1>1 DEF recorder
  <1>3. \A n \in DOMAIN steps : steps[n].turn <= turn + 1
    BY <1>1 DEF Ledger, Steps
  <1>4. Heard(steps)'
    BY <1>1, <1>2 DEF Ledger, Heard
  <1>5. Ledger'
    BY <1>1, <1>2, <1>3, <1>4 DEF Ledger
  <1>6. TypeOK'
    BY <1>1, <1>2, MaxTurnsAssumption DEF TypeOK
  <1>7. EvidenceJudged' /\ OutcomeHonest' /\ RunAccountedFor'
    BY <1>1, NotDone
  <1> QED
    BY <1>1, <1>2, <1>5, <1>6, <1>7 DEF IInv

\* The run returned a hypothesis, or prose.
LEMMA ReturnIInv ==
  ASSUME IInv, Return
  PROVE  IInv'
  <1>1. PICK response \in Responses :
          /\ at = "tools"
          /\ Finish(Concluded(response).outcome, Concluded(response).concluded,
                    Concluded(response).evidence, calls)
    BY DEF Return
  <1>2. /\ Concluded(response).concluded \in BOOLEAN
        /\ Concluded(response).outcome
             = IF response.parses THEN "Completed" ELSE "Failed"
        /\ Concluded(response).concluded = response.parses
        /\ Concluded(response).evidence \in SUBSET Quotes
    BY DEF Concluded, Responses
  <1>3. Concluded(response).outcome \in Outcomes
    BY <1>2 DEF Outcomes
  <1> QED
    BY <1>1, <1>2, <1>3, FinishIInv DEF Running

\* The budget is spent only if every turn of it was answered.
LEMMA BudgetSpentIInv ==
  ASSUME IInv, BudgetSpent
  PROVE  IInv'
  <1>1. Running /\ at = "tools" /\ turn = MaxTurns /\ Abandon("MaxTurnsExhausted")
    BY DEF BudgetSpent, Running
  <1>2. calls >= MaxTurns
    BY <1>1, MaxTurnsAssumption DEF IInv, Ledger
  <1> QED
    BY <1>1, <1>2, AbandonIInv DEF Outcomes

\* A run dropped by the shutdown leaves no transcript.
LEMMA ShutdownIInv ==
  ASSUME IInv, Shutdown
  PROVE  IInv'
  <1>1. /\ at \in {"model", "tools"} /\ at' = "dropped"
        /\ UNCHANGED <<turn, pending, fumbles, steps, usage, transcript, calls,
                       shown>>
    BY DEF Shutdown, recorder
  <1>2. EvidenceJudged' /\ OutcomeHonest' /\ RunAccountedFor'
    BY <1>1, NotDone
  <1> QED
    BY <1>1, <1>2 DEF IInv, TypeOK, Running

\* Nothing changes in the investigation.
LEMMA StutterIInv ==
  ASSUME IInv, UNCHANGED vars
  PROVE  IInv'
  <1>1. /\ UNCHANGED <<at, turn, pending, fumbles, calls, shown>>
        /\ UNCHANGED <<steps, usage, transcript>>
    BY DEF vars, agent, recorder
  <1>2. Ledger' <=> Ledger
    BY <1>1 DEF Ledger, Heard
  <1> QED
    BY <1>1, <1>2
       DEF IInv, TypeOK, Running, EvidenceJudged, OutcomeHonest, RunAccountedFor

LEMMA NextIInv == IInv /\ [Next]_vars => IInv'
  <1> SUFFICES ASSUME IInv, [Next]_vars PROVE IInv'
    OBVIOUS
  <1>1. CASE TurnFinishes
    BY <1>1, TurnFinishesIInv
  <1>2. CASE ToolReturns
    BY <1>2, ToolReturnsIInv
  <1>3. CASE InvalidToolCall
    BY <1>3, InvalidToolCallIInv
  <1>4. CASE TooManyFumbles
    BY <1>4, TooManyFumblesIInv
  <1>5. CASE NextTurn
    BY <1>5, NextTurnIInv
  <1>6. CASE BudgetSpent
    BY <1>6, BudgetSpentIInv
  <1>7. CASE Return
    BY <1>7, ReturnIInv
  <1>8. CASE ProviderFails
    <2>1. Running /\ Abandon("Failed")
      BY <1>8 DEF ProviderFails, Running
    <2> QED
      BY <2>1, AbandonIInv DEF Outcomes
  <1>9. CASE TimesOut
    <2>1. Running /\ Abandon("TimedOut")
      BY <1>9 DEF TimesOut, Running
    <2> QED
      BY <2>1, AbandonIInv DEF Outcomes
  <1>10. CASE Shutdown
    BY <1>10, ShutdownIInv
  <1>11. CASE Ended \/ UNCHANGED vars
    BY <1>11, StutterIInv DEF Ended
  <1> QED
    BY <1>1, <1>2, <1>3, <1>4, <1>5, <1>6, <1>7, <1>8, <1>9, <1>10, <1>11
       DEF Next

\* The ledger agrees with the run at every moment it may be dropped
\* (worker.rs:104).
THEOREM Invariance == Spec => []IInv
  BY InitIInv, NextIInv, PTL DEF Spec

(***************************************************************************)
(* The invariants the run checks.                                          *)
(***************************************************************************)

\* The recorder and the transcript keep their types, whatever the model and
\* the tools do (recorder.rs:14).
THEOREM TypeCorrect == Spec => []TypeOK
  <1>1. IInv => TypeOK
    BY DEF IInv
  <1> QED
    BY <1>1, Invariance, PTL

\* A quote passes unflagged exactly if the model was shown it, or if it is
\* the note on a call that was not dispatched (is_quoted).
THEOREM EvidenceIsJudged == Spec => []EvidenceJudged
  <1>1. IInv => EvidenceJudged
    BY DEF IInv
  <1> QED
    BY <1>1, Invariance, PTL

\* A run completed exactly if it has a hypothesis, and exhausted its turns
\* only if the provider answered that many times (worker.rs:165).
THEOREM OutcomeIsHonest == Spec => []OutcomeHonest
  <1>1. IInv => OutcomeHonest
    BY DEF IInv
  <1> QED
    BY <1>1, Invariance, PTL

\* The transcript accounts for the whole run, however it ended: usage,
\* results, order of steps, number of requests (worker.rs:104).
THEOREM RunIsAccountedFor == Spec => []RunAccountedFor
  <1>1. IInv => RunAccountedFor
    BY DEF IInv
  <1> QED
    BY <1>1, Invariance, PTL

=============================================================================
