# oncall-ai in TLA+

oncall-ai takes alerts from webhooks, groups them into incidents, asks a
language model to triage each new incident and, if the incident is still open
by then, asks a second one to investigate it in a repository. This directory
holds TLA+ models of that program, the TLC configurations that check them, and
proofs of what matters most. Paths below are relative to the crate's root:
`src/incident/worker.rs` is the incident worker.

## 1. The system

```
 webhook handlers --alerts--> incident worker --requests--> triage worker
  (one per request)             | store | ^ ^------results------'
                                |       | '--------results------- investigation worker
                                '-------'-----------requests------------^
```

Everything runs in one process on a multi-threaded tokio runtime, and nothing
is persisted: a restart starts from an empty store. The five channels are
bounded mpsc channels; they and one cancellation token are all that the tasks
share.

| component | source | state | operations |
|---|---|---|---|
| incident store | `incident/store.rs`, `incident/mod.rs` | incidents; open incidents by alert and by key | insert, attach, set status, set triage / investigation, close, expire |
| dedupe | `incident/dedupe.rs` | none | `decide`: open, attach, update, close, drop a resolve |
| incident worker | `incident/worker.rs` | the store; a count of drops | select loop; handle alert, record triage, record investigation; drain |
| triage worker | `triage/worker.rs`, `retry.rs` | the request in hand, its attempts and delay; drops | receive, call with retries, send, drain |
| investigation worker | `investigation/worker.rs` | the request in hand; drops | receive, run with a timeout, send, drain |
| investigation run | `investigation/worker.rs`, `recorder.rs` | transcript, usage, turns | hooks of the agent; classify; verify evidence |
| read_file tool | `investigation/read_file.rs` | the resolved root | resolve, open, look, read, truncate |
| webhook intake | `webhook.rs` | the sources enabled; requests in flight | read the body, parse, reserve, send, answer |
| source adapters | `pagerduty.rs`, `grafana.rs` | none | parse a body into alerts |
| startup and shutdown | `bin/oncall-ai.rs` | the cancellation token, task handles | start, serve, drain HTTP, cancel, join |
| configuration, logging | `config.rs`, `log.rs` | none once loaded | merge over the defaults, deserialize, validate; set up the filter |
| model runtime and registry | `model/mod.rs`, `registry.rs`, `settings.rs`, `spec.rs` | clients by provider, models by spec | parse specs and blocks, resolve secrets and values, build clients and models |
| model erasure | `model/erased.rs` | none | pass calls on to a client of any type |

What is hard in it, and hard to test:

- **The store's indexes** are pruned by the contents of the incident that
  closes, unguarded. They are right only as a consequence of every history of
  alerts there can be. The same goes for "an alert is in an incident once",
  without which an incident would never resolve.
- **Late answers.** A triage or an investigation comes back minutes later, when
  the incident may be closed. "One investigation per incident" is kept by no
  flag, only by the way the messages travel.
- **The wall clock** decides idleness and may be set back.
- **A ring of bounded channels** with a worker in it that waits for room
  without listening to the shutdown.
- **The shutdown**: HTTP drains first, then three workers are cancelled at
  once and drain their queues while the others may still send.
- **A biased select**, which could starve alerts or miss a wake-up.
- **Unlimited retries** in the one triage worker, with a limit on one class of
  errors only.
- **Deliveries of several alerts**, which concurrent handlers must put in the
  channel as a whole or not at all.
- **A worker that panics** closes its channels on the others, one after the
  other, while HTTP goes on.
- **A run of the agent dropped in the middle**, by its timeout, of which the
  recorder must still give a true account.
- **A file read while it is written to**, with a size taken at one instant and
  the bytes at another.
- **Credentials from many places**: blocks, conventional variables, OAuth. One
  that is set to nothing must not make the client act as somebody else.

`PROJECT.json` lists each of these hazards at the line where it bites, with the
properties that watch it.

## 2. The modules

| module | models | state |
|---|---|---|
| `IncidentStore` | `incident/store.rs`: every method, as an operator from a store to a store | (none: operators) |
| `Dedupe` | `decide()`: one disjunct per early return | (none: operators) |
| `Incidents` | the incident worker's handlers, one action each | `store`, and the incidents whose triage or investigation is under way |
| `IncidentLifecycle` | *abstract*: what an incident goes through | phase, key, alerts held, stage of the questions |
| `Pipeline` | three workers, five channels, shutdown | `store`, the channels, where each task is in its loop, drops |
| `AlertChannel` | *abstract*: the alerts channel as both sides may take it | a bounded queue and its two ends |
| `Intake` | webhook handlers, parsers, graceful shutdown | permits, queue, and the phase, body and unsent alerts of each request |
| `TriageCall` | one triage request with its retries | retry policy, phase, delay, count of unusable outputs |
| `Investigation` | one run of the agent: `investigate()`, the recorder's hooks, the ways a run ends | where the run is, its turn, steps and usage recorded, the transcript |
| `ReadFile` | one call of the tool, against a file system that others write to | what the path leads to, what the file holds, what was looked at and read, the answer |
| `ProviderSettings` | resolution of secrets and values; the builder of each provider | (none: operators) |
| `ConfigFile` | what the types accept: specs of models, blocks of providers | (none: operators) |
| `Startup` | `run()` until it serves: load, validate, `ModelRuntime::build`, the tool's root | what is done next, the error, clients, models |
| `IncidentStoreProofs`, `IncidentsProofs`, `PipelineProofs`, `IntakeProofs`, `TriageCallProofs`, `InvestigationProofs`, `ReadFileProofs`, `StartupProofs` | proofs | |
| `MCIncidents`, `MCPipeline`, `MCIntake`, `MCTriageCall`, `MCReadFile`, `MCStartup` | small sets for TLC | |

How they fit together:

```
 IncidentLifecycle <-implements- Incidents <-implements- Pipeline -implements-> AlertChannel <-implements- Intake
                                     \                     /  \
                                      Dedupe - IncidentStore    sees TriageCall and Investigation
                                                                only by how a call ends

 Startup -EXTENDS-> ConfigFile -EXTENDS-> ProviderSettings      Investigation sees ReadFile only by the text it returns
```

- `Incidents` reduces channels and workers to two sets: an answer may come at
  any later time, or never. `Pipeline` shows that this is what the channels and
  workers do (`ImplementsIncidents`, with `awaitingTriage` mapped to the
  incidents asked about and not recorded). That is proved, so what is proved of
  `Incidents` holds behind the channels too (`IncidentsHold`).
- `AlertChannel` is the contract between HTTP and the incident worker: `Intake`
  keeps it from the sending side, `Pipeline` from the receiving side.
- `Startup` establishes what the others assume of the configuration: its
  property `ServesIfSound` says that the program serves only with
  `backoff_max_ms >= backoff_initial_ms` (`Validated` of `TriageCall`), at least
  two turns (`MaxTurnsAssumption` of `Investigation`) and numbers that are not
  zero (capacities, the TTL, `CapAssumption` of `ReadFile`).

Correspondence with the code, where it is not one to one:

- A step of `Pipeline` is what a task does between two points where another
  task can see, or change, what it depends on. The biased select is one action
  per branch polled (`PollShutdown`, `PollTriaged`, `PollInvestigated`,
  `PollAlerts`), since senders run between two polls; a handler runs in the
  same step as the receive it follows, for only its own task sees the store.
- A worker that leaves its drain and the drop of its receivers are two steps
  (`drained`, then `done`): that is the window of section 3.
- The triage and the investigation worker have the same loop and are one set
  of actions, for `w` in `Workers`. Only a triage can be abandoned.
- A message is the id of its incident; the alert and the triage result it
  carries are not looked at by anything modelled. `IncidentId::new()` returns
  any id not used before (a UUID).
- `close()` on several incidents (the sweep) is one operator, `CloseAll`:
  each close writes its own incident and only removes index entries.
- `Intake` keeps tokio's channel as a semaphore and a queue, because
  `try_reserve_many` takes permits for a whole delivery and the alerts are
  sent one at a time after it. A handler never waits once it has its body; its
  steps still interleave with other threads.
- A panic is a step of its own, possible wherever its task is in its loop. It
  drops the task's ends of the channels, with what is in the ones it receives
  from; the others notice by what their next receive or send returns.
- In `Investigation` the agent of rig is external: it asks the model, runs
  tools and calls the hooks, in the order rig documents. A text is the set of
  the lines found in it, since `is_quoted` asks nothing else of one. Each hook is
  a step, for the timeout may drop the run between any two.
- In `ReadFile` a file is a sequence of bytes of three kinds, enough to tell a
  cut inside a character from a file that is not text. Each `await` is a step; a
  file that was opened is the one that is read, though the path comes to lead
  elsewhere.
- A value of the configuration or the environment is empty, blank, text or a
  URL; a credential also carries where it came from. The environment is a
  function from the variables that are set. The 24 providers have six
  profiles; `anthropic` and `groq` stand for the 19 keyed ones.
- Operators marked `Fault` are variants of the definition that follows them,
  with a plausible bug. No specification uses them: each is what one of the
  properties is tested against (`mutants` in `PROJECT.json`).

## 3. What is checked

| run | states | question |
|---|---|---|
| `incident_indexes` | 152,821 | indexes exact, alerts held once, `ImplementsLifecycle` |
| `incident_lifecycle` | 88,201 | closed for the right reason and for good; never revived; asked in order and once; answers kept |
| `pipeline_safety` | 447,353 | with a panic anywhere: no alert lost uncounted, one question per incident, drops are real, `ImplementsIncidents`, `ImplementsChannel` |
| `pipeline_liveness` | 47,643 | with a panic anywhere: `AlertsSettled`, `ShutdownCompletes`, `QuestionsEnd` |
| `triage_call` | 4,527 | when a triage is given up, that its delays back off to the cap, that it ends |
| `intake` | 771,520 | permits conserved, all or nothing, answered deliveries stay ahead, `ImplementsChannel`; `serve()` drains |
| `investigation` | 1,866,031 | evidence judged by what was shown, outcome honest, run accounted for however it ended; it ends |
| `read_file` | 1,268,908 | a file that stays still is read as promised; the answer fits; no notice means whole |
| `startup` | 181,348 | each client has the credential that was meant; the program serves exactly on sound settings |
| `closed_investigated` | violated | finding 1 |
| `queued_counted` | violated | finding 2 |
| `read_file_grows` | violated | finding 3 |

**Finding 1.** An incident that closes while its investigation request waits
is investigated all the same: `investigation/worker.rs:58` takes the request
without looking at the incident again. The comment at
`incident/worker.rs:433` says of a triage that came late that "the tokens of an
investigation nobody will read must not be spent".

**Finding 2.** A test says "everything queued is counted as dropped"
(`triage/worker.rs:342`). Between a worker's last `try_recv` and the drop of
its receiver the incident worker's `try_send` still succeeds; that request is
neither answered nor counted. The incident worker drains triage results, and
asks for investigations, at that very time. Only a count in a log line is wrong:
`DropsAreReal` shows that it is never too high.

**Finding 3.** "The extra byte is what tells 'exactly at the cap' apart from
'longer than it'" (`investigation/read_file.rs:106`). `present()` does not look
at that byte: it compares what it kept with the size `metadata()` gave before
the read. A file exactly at the cap then, which grows before it is read, is cut
at the cap without the notice. `NoNoticeMeansWhole` shows how far that goes: if
the file only grew, the model has all of it as it was at the look.

What the runs showed besides, which no document speaks against:

- A citation of the recorder's own note on a call that could not be dispatched
  passes as evidence, though the model never saw the note (`EvidenceJudged`
  names the exception).
- The number of requests of a run that was cut short is that of the last turn
  with a step: a turn that left none, having brought opaque reasoning only, is
  in the usage and not in the count (`RunAccountedFor`: it never exceeds the
  answers).
- The embedded defaults merge a block for Ollama, with a base URL, under every
  file: `OLLAMA_API_BASE_URL` is never read, and an `OLLAMA_API_KEY` that is set
  to nothing stops every start, whichever providers are used.
- A ChatGPT token from the configuration still goes with `CHATGPT_ACCOUNT_ID`
  from the environment. A secret of blanks is accepted; a required value of
  blanks is not.
- After a panic that ends the incident worker, alerts answered 202 between its
  last look at the channel and its end are in no count (`AlertsSettled` names
  the exception).

### Bounds

- *Incidents*: two incident ids, two alerts. Indexes go wrong by the
  interference of two open incidents, or of a closed one and its successor
  under the same key; a third adds no new pair. `incident_indexes` has two label
  maps, so that an alert can come back with other labels than its incident's
  key, and two incidents be open at once; `incident_lifecycle` has one, so that
  incidents of a key follow each other, and two outcomes. The model ends when no
  id is left for an alert that would open one: runs with it switch the deadlock
  check off. The theorems have no such bounds.
- *Clock*: readings 0, 1, 2 and a TTL of 1, in any order: below, at and above
  the TTL, forwards and back. Where the boundary is not the question, two
  readings do.
- *Pipeline*: `RequestCapacity` and `ResultCapacity` 1, `AlertsCapacity` 2 and
  as many alerts as incidents, so that a queue can be full, shed and block.
  Three incidents for safety (one in hand, one queued, one shed), two for
  liveness, and one panic in both: a second panic finds only tasks that are
  already ending. `MaxAlerts` bounds what is ever accepted. An acknowledged alert goes
  the way of a firing one and is left to the runs of `Incidents`.
- *Intake*: room for two alerts, and deliveries of none to three: that fit, that
  fit only alone, that never fit. Three requests: the first brings every kind of
  body, the second any that may be accepted, the third one alert.
- *TriageCall*: every pair of delays up to 9 ms that `validate` accepts: no cap
  is further than four doublings away. Unusable outputs are followed up to
  `MaxUnusable`, one more than the limit; the count is history that no action
  reads.
- *Investigation*: two turns, two calls in a turn, and one line that files and
  answers may hold or not, beside the note and a blank quote: enough for results
  of different turns, a call still out when the next ends the run, and both
  sides of every comparison of turns. The theorems have no such bounds.
- *ReadFile*: a cap of two bytes and every file of up to four, so that a
  character can straddle the cap and the extra byte; up to two changes, or
  failures of the disk, anywhere in a call.
- *Startup*: for each profile every combination of its settings and of the
  variables it reads, with the other parts sound; then several providers, the
  checks of `validate` and of the types, each in all combinations. A setting of
  one provider cannot meet a variable of another: no builder reads both.

### Fairness

- `Pipeline`: weak fairness of each of the three tasks, and of `main` between
  `serve()` and `cancel()`. A tokio task that was woken is polled in the end;
  a task's steps are one action for this purpose, because the task has one
  program counter. No fairness for webhooks, the signal or the providers:
  `AlertsSettled` and `ShutdownCompletes` hold though a call may hang for ever.
- `QuestionsEnd` has as its premise that calls return. The investigation has a
  timeout; triage is retried without limit, so this is an assumption about the
  provider.
- `CallEnds` assumes that timers fire and that of infinitely many attempts some
  bring a text back (strong fairness of `Respond`): usable or not, the call then
  ends. Without it an outage keeps one request, and the queue behind it, waiting.
- `Investigation`: the timer alone (`RunEnds` holds though the model or a tool
  hangs for ever).
- `Intake`: handlers are polled; a client sends the body it announced or hangs
  up. Nothing in the code times a slow client out, so without this `serve()`
  need not return.

## 4. What is proved

Every safety invariant, every action property and every refinement that a run
checks is also a theorem, which TLAPS checks for all values of the constants:

| module | theorems | for any |
|---|---|---|
| `IncidentsProofs` | `TypeCorrect`, `IndexesAreExact`, `AlertsAreDistinct`, `ResolvedIsRight`, `IdleIsSilent`, `QuestionsInOrder`; action properties `ClosedStaysClosed`, `IdleIsNeverRevived`, `AnswersStay`; refinement `KeepsLifecycle` | alerts, incidents, outcomes, clock readings and TTL |
| `PipelineProofs` | `TypeCorrect`, `AlertsAccounted`, `OneQuestion`, `OnlyRealDrops`; refinements `QueuesAlerts`, `KeepsIncidents`; `IncidentsHold` | those, and capacities and number of panics |
| `IntakeProofs` | `TypeCorrect`, `RoomConserved`, `AnsweredStaysAhead`, `WholeOrNothing`; refinement `KeepsChannel` | requests, bodies, capacity |
| `TriageCallProofs` | `TypeCorrect`, `OnlyOutputGivesUp`; action property `DelaysBackOff` | pair of delays that `validate` accepts |
| `InvestigationProofs` | `TypeCorrect`, `EvidenceIsJudged`, `OutcomeIsHonest`, `RunIsAccountedFor` | lines, turn budget, calls in a turn |
| `ReadFileProofs` | `TypeCorrect`, `StillFile`, `AnswersFit`, `NoNoticeIsWhole` | cap, contents, number of changes and failures |
| `StartupProofs` | `ServesSound`, `CredentialsMeant` | blocks, settings, environment |

`AcceptedAlertsAccounted` and the types of `Pipeline` still count with
`MaxAlerts`, of which nothing is assumed but that it is a number.

**Assumptions.** They are named, stand in the module that declares the constant,
and hold in every run. `OutcomesAssumption`: an outcome is not the mark for
none. `TimesAssumption`, `IdleTtlAssumption`: clock readings are integers, the
TTL a natural number. `CapacitiesAssumption`, `CapAssumption`,
`MaxTurnsAssumption`: what the types and `validate` refuse otherwise.
`DeliveriesAssumption`, `BodiesAssumption`, `IntakeAssumption`: alerts and
bodies have the fields the sources give them; requests are finitely many.
`ContentsAssumption`: a file is a sequence of bytes. `LinesAssumption`: the
note and the blank quote are not lines of files. `SettingsAssumption`: of what
shape blocks, settings and the environment are, whatever they hold.
`NoneAssumption`: a secret that is found is not the mark for none.

**Incidents.** No single invariant is inductive. That `close()` removes only
entries of its own incident needs both indexes exact; that they stay exact when
an alert is attached needs that `decide()` looked the alert up first, and that
alerts are held once; that a resolve closes its incident needs that too. So
`IncidentStoreProofs` takes them together (`StoreOK`) and shows of each method
of the store that it keeps them, under the condition `decide()` calls it with.
`IncidentsProofs` follows a handler through its methods (sweep, then decide)
with what is true of every incident (`Justified`: closed for the right reason)
and what the step leaves alone (`Frame`), and ties the incidents to the
questions under way in `IInv`. The action properties and the refinement of the
life cycle follow from `IInv` and `Frame`.

**The pipeline.** A worker's questions are kept apart from the rest, as a record
(`QuestionsOf`): those asked, queued, in hand, answered, and their ends. `Placed`
says that each one asked is in exactly one place, at its end, or lost, and that
drops are no more than the lost. What may happen to a question (asked, received,
dropped, given up, sent, refused, taken, lost with a channel) is an operator on
that record (`Moves`), each of which keeps `Placed`; every action of the program
is at most one of them for either worker (`WorkerMoves`, `IncidentSteps`).
`Asks` joins the two workers: what is asked of the second is on record from the
first. `Stopping` says that without a panic a worker leaves its loop only after
the server stopped, which is why no alert is lost uncounted. The refinement
maps each action to a handler of `Incidents` or to a stutter; `IncidentsHold`
then takes over the theorems of `IncidentsProofs` through that mapping.

**The intake.** That answered deliveries stay ahead does not follow from the
order of the queue alone. `IInv` adds `Holdings` (a handler holds unsent alerts
only while it sends, and only of its own request; nothing entered for a request
that has not come) and `Memory` (only what was answered is remembered as
answered). A handler that still sends was then not answered before anything
came, so what it sends overtakes nothing. For the rest, `Rest` counts permits by
naming them: a handler's are pairs of its request and a number, so that the sum
over the handlers is the cardinality of one finite set (`Room`); and it keeps
for each accepted delivery that what is in the channel and what is still held
make it up, in order (`Shares`).

**A triage call.** `IInv` adds to the types that the delay lies between the two
bounds, which is what `validate` makes possible, and that the policy's count is
the number of unusable outputs.

**An investigation.** The properties speak of the finished transcript; what
makes them true is kept while the run goes on. `IInv` adds `Ledger`: the usage is
the number of answers, the lines shown are those of the recorded results, a
step's turn is not beyond the current one and the steps are in the order of
their turns, and a note is there only if a call was fumbled. `FinishIInv` then
shows once, for whatever ends a run, that draining the ledger into a transcript
makes the properties true.

**read_file.** The lemmas are about the cut: the longest prefix within the cap
that ends a character exists, is text if the file is, and is what
`TruncateUtf8` keeps, whether or not the extra byte was read. `IInv` says where
the call is and, while nobody has written over the file, that what was looked at
and what was read both begin it (`Reading`): growth alone cannot make the answer
wrong about what was there at the look.

**The start.** `IInv` ties how far the start has come to the checks that passed
(`Checks`), the clients there are (`Clients`) and, at an end, its reason
(`Refusal`). Clients are built in order and the first failure is the result, so
a run that goes on has them all. A credential is a matter of its builder:
`ClientMeant` follows each of the six profiles from the block, which has passed
the types, and the variables to what the client proves itself with.

Only model-checked: liveness (`AlertsSettled`, `ShutdownCompletes`,
`QuestionsEnd`, `CallEnds`, `RunEnds`, `ServerDrains`), since fairness and
`ENABLED` are out of the prover's reach, and the three findings, which are
counterexamples.

## 5. What is not modelled

- Prompts, JSON schemas, log lines, payloads, titles: data nothing modelled
  depends on. `GET /health` has no state.
- In a transcript: the classified outcome of a tool call, its truncation flag,
  names, arguments and durations. They are copied, never decided upon.
- `allow_device_flow`: it is handed to rig, which acts on it only when it first
  sends.
- `model/erased.rs` erases the types of provider clients; the only part with a
  state is the relay of a stream, and neither worker streams.
- The merging of configuration files key by key, but for what it makes of the
  providers; a file that does not parse is one case.
- Crash recovery: nothing is persisted.

## 6. Plan

Every component that keeps a state is modelled, and every property but liveness
is proved. What could still be added:

1. The safety half of liveness, as theorems: that a worker which waits for room
   in a channel waits for one that receives, and that the tasks cannot wait in
   a ring, so that only fairness is left to TLC.
2. The composition of `Intake` and `Pipeline` over one channel. Both are proved
   to keep `AlertChannel` from their side; that the two together are the whole
   program is an argument of this document.
3. `Startup` to `Pipeline`: that the settings served with are values the
   assumptions of the other modules allow is a table in section 2.
