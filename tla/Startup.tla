------------------------------- MODULE Startup -------------------------------
(***************************************************************************)
(* The start of the program: run() of src/bin/oncall-ai.rs up to the point *)
(* where it serves, with the loading and the checks of the configuration   *)
(* (src/config.rs) and ModelRuntime::build (src/model/mod.rs).             *)
(*                                                                         *)
(* Everything is done in one order and the first error ends the program.   *)
(* Meanwhile the directory that investigations read may be removed, or     *)
(* replaced.                                                               *)
(***************************************************************************)
EXTENDS ConfigFile

CONSTANT Settings  \* configurations and environments to start with

Roots == {"directory", "file", "missing"}

\* A file that says nothing of a setting leaves it at its default, which is
\* sound.  "least" stands for the numbers that only must not be zero: the
\* TTL, the queue capacities, the timeouts and max_file_bytes.
ASSUME SettingsAssumption ==
  \A s \in Settings :
    /\ s.file \in {"none", "malformed", "unknown_key", "sound"}
    /\ s.file = "none" => s.blocks = <<>>
    /\ s.backoff_initial_ms \in Nat
    /\ s.backoff_max_ms \in Nat
    /\ s.max_turns \in Nat
    /\ s.least \in Nat
    /\ s.finite \in BOOLEAN
    /\ s.filter \in BOOLEAN
    /\ s.root \in Roots
    /\ \A name \in DOMAIN s.environment : s.environment[name] \in Readings

\* What is found somewhere is not None.
ASSUME NoneAssumption ==
  \A s \in Settings :
    None \notin [from : DOMAIN s.environment \union {"inline"}, is : Values]

VARIABLES
  settings,  \* config.toml, over the defaults, and the environment
  root,      \* what investigation.repo_root leads to
  at,        \* the next thing run() does
  error,     \* why the program ended
  clients,   \* ModelRuntime::build's clients, by provider
  models,    \* and its models, by spec
  resolved,  \* what repo_root led to when the tool resolved it
  \* History, for the properties.
  moved,     \* repo_root came to lead elsewhere
  mishap     \* an error that is not of the settings' making

vars == <<settings, root, at, error, clients, models, resolved, moved, mishap>>

Init ==
  /\ settings \in Settings
  /\ root = settings.root
  /\ at = "home"
  /\ error = None
  /\ clients = <<>>
  /\ models = {}
  /\ resolved = None
  /\ moved = FALSE
  /\ mishap = FALSE

\* What is given goes before the defaults, key by key.
Over(given, defaults) ==
  [key \in DOMAIN given \union DOMAIN defaults |->
     IF key \in DOMAIN given THEN given[key] ELSE defaults[key]]

\* The embedded defaults are merged under what the file says: a block for
\* Ollama is always there, and has a base URL.
Merged ==
  LET given == Over(settings.blocks, [p \in {"ollama"} |-> <<>>])
  IN  [given EXCEPT !["ollama"] = Over(@, [base_url |-> "url"])]

\* What is left of the settings once the configuration is loaded.
Specs == <<ParseSpec(settings.triage).it, ParseSpec(settings.investigation).it>>
Blocks == [p \in DOMAIN Merged |-> ParseProviderConfig(p, Merged[p]).it]

-----------------------------------------------------------------------------

Check(holds, failure) == IF holds THEN Ok(None) ELSE Fail(failure)

\* On to the next thing, or out with the error.
Proceed(result, next) ==
  /\ at' = IF result.ok THEN next ELSE "ended"
  /\ error' = IF result.ok THEN None ELSE result.it

\* What may fail whatever the settings: the operating system, or rig.
Mishap ==
  /\ at \in {"home", "configured", "referenced", "agent", "signals", "bind"}
  /\ mishap' = TRUE
  /\ Proceed(Fail("Mishap"), "ended")
  /\ UNCHANGED <<settings, root, clients, models, resolved, moved>>

RootMoves ==
  /\ at # "ended"
  /\ ~ moved
  /\ moved' = TRUE
  /\ root' \in Roots \ {root}
  /\ UNCHANGED <<settings, at, error, clients, models, resolved, mishap>>

ResolveHome ==
  /\ at = "home"
  /\ Proceed(Ok(None), "load")
  /\ UNCHANGED <<settings, root, clients, models, resolved, moved, mishap>>

\* Fault: what the types let through is not looked at.
ValidateTypes(s) == Check(root = "directory", "RepoRoot")

\* try_deserialize: what the types of Config let through.
Deserializes(s) ==
  InOrder(<<Check(s.file \notin {"malformed", "unknown_key"}, "File"),
            Check(s.backoff_initial_ms # 0 /\ s.max_turns # 0 /\ s.least # 0,
                  "Zero"),
            Check(\A p \in DOMAIN Merged :
                    ParseProviderConfig(p, Merged[p]).ok, "Providers"),
            ParseSpec(s.triage),
            ParseSpec(s.investigation)>>, None)

Validate(s) ==
  InOrder(<<Check(s.backoff_max_ms >= s.backoff_initial_ms, "Backoff"),
            Check(s.finite, "Temperature"),
            Check(s.max_turns >= 2, "MaxTurns"),
            Check(root = "directory", "RepoRoot")>>, None)

Load ==
  /\ at = "load"
  /\ Proceed(InOrder(<<Deserializes(settings), Validate(settings)>>, None), "log")
  /\ UNCHANGED <<settings, root, clients, models, resolved, moved, mishap>>

InitLog ==
  /\ at = "log"
  /\ Proceed(Check(settings.filter, "Filter"), "configured")
  /\ UNCHANGED <<settings, root, clients, models, resolved, moved, mishap>>

Build(provider, block, next) ==
  LET client == BuildClient(provider, block, settings.environment)
  IN  /\ Proceed(client, next)
      /\ clients' = IF client.ok
                    THEN Over(clients, [p \in {provider} |-> client.it])
                    ELSE clients

\* Every provider with a block, in the order of their names.
BuildConfigured ==
  LET todo == {n \in DOMAIN ProviderNames :
                 ProviderNames[n] \in DOMAIN Blocks \ DOMAIN clients}
      provider == ProviderNames[Min(todo)]
  IN  /\ at = "configured"
      /\ \/ /\ todo # {}
            /\ Build(provider, Blocks[provider], "configured")
         \/ /\ todo = {}
            /\ Proceed(Ok(None), "referenced")
            /\ UNCHANGED clients
      /\ UNCHANGED <<settings, root, models, resolved, moved, mishap>>

BlockOf(provider) ==
  IF provider \in DOMAIN Blocks THEN Blocks[provider]
  ELSE DefaultBlock(provider)

\* The provider of each spec, unless it has its client; then the model.
BuildReferenced ==
  LET todo == {n \in DOMAIN Specs : Specs[n] \notin models}
      spec == Specs[Min(todo)]
  IN  /\ at = "referenced"
      /\ \/ /\ todo # {}
            /\ spec.provider \notin DOMAIN clients
            /\ Build(spec.provider, BlockOf(spec.provider), "referenced")
            /\ UNCHANGED models
         \/ /\ todo # {}
            /\ spec.provider \in DOMAIN clients
            /\ models' = models \union {spec}
            /\ Proceed(Ok(None), "referenced")
            /\ UNCHANGED clients
         \/ /\ todo = {}
            /\ Proceed(Ok(None), "models")
            /\ UNCHANGED <<clients, models>>
      /\ UNCHANGED <<settings, root, resolved, moved, mishap>>

\* ModelRuntime::model, for both stages.
TakeModels ==
  /\ at = "models"
  /\ Proceed(Check(Range(Specs) \subseteq models, "NotConstructed"), "agent")
  /\ UNCHANGED <<settings, root, clients, models, resolved, moved, mishap>>

\* ReadFile::new resolves the root; that it is a directory is not checked
\* again.
BuildAgent ==
  /\ at = "agent"
  /\ Proceed(Check(root # "missing", "Unresolved"), "signals")
  /\ resolved' = IF root = "missing" THEN None ELSE root
  /\ UNCHANGED <<settings, root, clients, models, moved, mishap>>

SetUpSignals ==
  /\ at = "signals"
  /\ Proceed(Ok(None), "bind")
  /\ UNCHANGED <<settings, root, clients, models, resolved, moved, mishap>>

Bind ==
  /\ at = "bind"
  /\ Proceed(Ok(None), "serving")
  /\ UNCHANGED <<settings, root, clients, models, resolved, moved, mishap>>

Started == at \in {"serving", "ended"} /\ UNCHANGED vars

Next ==
  \/ Mishap
  \/ RootMoves
  \/ ResolveHome
  \/ Load
  \/ InitLog
  \/ BuildConfigured
  \/ BuildReferenced
  \/ TakeModels
  \/ BuildAgent
  \/ SetUpSignals
  \/ Bind
  \/ Started

Spec == Init /\ [][Next]_vars

-----------------------------------------------------------------------------
(***************************************************************************)
(* Properties.                                                             *)
(***************************************************************************)

\* The secrets a block names, or holds.
ConfiguredSources(block) ==
  ({block[f] : f \in DOMAIN block \intersect {"api_key", "token"}}
     \union {block.auth.secret : b \in {b \in {block} :
               /\ "auth" \in DOMAIN b
               /\ b.auth # None
               /\ "secret" \in DOMAIN b.auth}}) \ {None}

\* The variables that may prove who we are, the preferred ones first.
Preference(provider) ==
  CASE provider \in DOMAIN KeyVariables -> KeyVariables[provider]
    [] provider = "azure" -> <<"AZURE_API_KEY", "AZURE_TOKEN">>
    [] provider = "chatgpt" -> <<"CHATGPT_ACCESS_TOKEN">>
    [] provider = "copilot" -> CopilotKeys \o CopilotTokens
    [] provider = "llamafile" -> <<>>

ChosenOAuth(block) ==
  "auth" \in DOMAIN block /\ block.auth # None /\ block.auth.type = "oauth"

\* No client is built with another credential than was meant: what the
\* configuration says is what is used, whatever the environment holds; and
\* without it, the first variable that is set decides, so that none which is
\* set, be it to nothing, is passed over for a later one or for OAuth, and
\* none is ignored beside another of a different kind (resolve_*_secret,
\* build_azure, build_chatgpt, build_copilot).
CredentialsAsMeant ==
  \A provider \in DOMAIN clients :
    LET auth == clients[provider].auth
        sources == ConfiguredSources(BlockOf(provider))
        names == Preference(provider)
        set == {n \in DOMAIN names :
                  names[n] \in DOMAIN settings.environment}
    IN  /\ auth.secret # None => auth.secret.is # "empty"
        /\ sources # {} =>
             \E source \in sources :
               /\ sources = {source}
               /\ auth.secret # None
               /\ auth.secret.from =
                    IF "env" \in DOMAIN source THEN source.env ELSE "inline"
        /\ sources = {} =>
             IF ChosenOAuth(BlockOf(provider)) \/ set = {}
             THEN auth.secret = None
             ELSE /\ auth.secret # None
                  /\ auth.secret.from = names[Min(set)]
                  /\ provider = "azure" => Cardinality(set) = 1

\* Whether the settings are good, in whatever order one looks at them.
Sound ==
  /\ settings.file \notin {"malformed", "unknown_key"}
  /\ {settings.backoff_initial_ms, settings.max_turns, settings.least}
       \subseteq Nat \ {0}
  /\ ParseSpec(settings.triage).ok /\ ParseSpec(settings.investigation).ok
  /\ \A provider \in DOMAIN Merged :
       ParseProviderConfig(provider, Merged[provider]).ok
  /\ settings.backoff_max_ms >= settings.backoff_initial_ms
  /\ settings.max_turns >= 2
  /\ settings.finite
  /\ settings.filter
  /\ settings.root = "directory"
  /\ \A provider \in DOMAIN Blocks \union {spec.provider : spec \in Range(Specs)} :
       BuildClient(provider, BlockOf(provider), settings.environment).ok

\* The program serves only if its settings are good, which is what the
\* modules of its parts assume; each stage then has its model, and each
\* provider one client, made from its own block, of which no key that was
\* written has been passed over.  It refuses to start only if
\* the settings are not good, or for a reason outside of them.
ServesIfSound ==
  /\ at = "serving" =>
       /\ moved \/ Sound
       /\ settings.backoff_max_ms >= settings.backoff_initial_ms
       /\ settings.max_turns >= 2
       /\ settings.least > 0
       /\ \A provider \in DOMAIN settings.blocks :
            DOMAIN settings.blocks[provider] \subseteq DOMAIN BlockOf(provider)
       /\ models = Range(Specs)
       /\ DOMAIN clients = DOMAIN Blocks \union {spec.provider : spec \in models}
       /\ \A provider \in DOMAIN clients :
            clients[provider] = BuildClient(provider, BlockOf(provider),
                                            settings.environment).it
       /\ resolved \in IF moved THEN {"directory", "file"} ELSE {"directory"}
  /\ at = "ended" => mishap \/ moved \/ ~ Sound

=============================================================================
