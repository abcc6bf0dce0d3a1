------------------------------ MODULE MCStartup ------------------------------
(***************************************************************************)
(* Startup with one provider at a time in all its settings, and then with  *)
(* several providers, and the other parts of the configuration, in a few.  *)
(***************************************************************************)
EXTENDS Startup, TLC

\* An explicit secret, in one of the ways there are.
SecretSources == {None, FromEnv(""), FromEnv("SECRET"), Inline("empty"), Inline("text")}

\* The given variables, and no others.
Environment(given) ==
  Restrict(given, {name \in DOMAIN given : given[name] # "unset"})
Environments(given) == {Environment(g) : g \in given}

Few == {"unset", "empty", "text"}
Many == Few \union {"not_unicode"}

KeyedCases ==
  LET keys == [{"ANTHROPIC_API_KEY", "SECRET"} -> Many]
      bases == [{"ANTHROPIC_BASE_URL"} -> {"unset", "not_unicode", "text", "url"}]
  IN  {[provider |-> "anthropic",
        block |-> [api_key |-> key, base_url |-> base],
        environment |-> Environment(k @@ b)] :
         key \in SecretSources, base \in {None, "text", "url"}, k \in keys, b \in bases}

OllamaCases ==
  {[provider |-> "ollama",
    block |-> [api_key |-> key, base_url |-> base],
    environment |-> environment] :
     key \in SecretSources, base \in {None, "empty", "url"},
     environment \in Environments([{"OLLAMA_API_KEY", "OLLAMA_API_BASE_URL"} -> Many])}

LlamafileCases ==
  {[provider |-> "llamafile",
    block |-> [base_url |-> base],
    environment |-> environment] :
     base \in {None} \union Values,
     environment \in Environments([{"LLAMAFILE_API_BASE_URL"} -> Readings \union {"unset"}])}

\* The ways to authenticate, and the other settings, by turns.
AzureCases ==
  {[provider |-> "azure",
    block |-> [api_key |-> key, token |-> token, endpoint |-> "url",
               api_version |-> "text"],
    environment |-> environment] :
     key \in {None, Inline("empty"), Inline("text")}, token \in SecretSources,
     environment \in Environments([{"AZURE_API_KEY", "AZURE_TOKEN"} -> Many])}
    \union
  {[provider |-> "azure",
    block |-> [api_key |-> Inline("text"), token |-> None,
               endpoint |-> endpoint, api_version |-> version],
    environment |-> Environment(e @@ v)] :
     endpoint \in {None, "blank", "url"}, version \in {None, "blank", "text"},
     e \in [{"AZURE_ENDPOINT"} -> {"unset", "text", "url"}],
     v \in [{"AZURE_API_VERSION"} -> Many]}

ChatGptCases ==
  {[provider |-> "chatgpt",
    block |-> [base_url |-> base, auth |-> auth],
    environment |-> Environment(secrets @@ bases)] :
     base \in {None, "url"},
     auth \in {None, [type |-> "oauth"]}
                \union [type : {"token"}, secret : SecretSources \ {None}]
                \union [type : {"token"}, secret : SecretSources \ {None},
                        account_id : {"text"}],
     secrets \in [{"CHATGPT_ACCESS_TOKEN", "CHATGPT_ACCOUNT_ID"} -> Many],
     bases \in [{"CHATGPT_API_BASE", "OPENAI_CHATGPT_API_BASE"} -> {"unset", "text", "url"}]}

CopilotCases ==
  {[provider |-> "copilot",
    block |-> [base_url |-> None, auth |-> auth],
    environment |-> environment] :
     auth \in {None, [type |-> "oauth"]}
                \union [type : {"api_key", "token"}, secret : {Inline("text"), FromEnv("GITHUB_TOKEN")}],
     environment \in Environments(
       [Range(CopilotKeys) \union Range(CopilotTokens) -> Few])}

\* Settings with nothing wrong in them, to vary.
SoundSettings ==
  [file |-> "sound", filter |-> TRUE, finite |-> TRUE, root |-> "directory",
   backoff_initial_ms |-> 2, backoff_max_ms |-> 2, max_turns |-> 2, least |-> 1,
   blocks |-> <<>>, environment |-> Environment(<<>>),
   triage |-> <<"ollama", "small">>,
   investigation |-> <<"ollama", "large">>]

\* The keys of a block that are set.
Written(block) == Restrict(block, {key \in DOMAIN block : block[key] # None})

ProviderCases ==
  KeyedCases \union OllamaCases \union LlamafileCases \union AzureCases
    \union ChatGptCases \union CopilotCases

\* One provider, with a block ...
Configured(case) ==
  [SoundSettings EXCEPT
     !.blocks = case.provider :> Written(case.block),
     !.environment = case.environment,
     !.investigation = <<case.provider, "large">>]

\* ... and without.
Unconfigured(case) == [Configured(case) EXCEPT !.blocks = <<>>]

\* Several providers, configured and not, and the same client for both stages
\* or not.
Several ==
  LET blocks == ("groq" :> [api_key |-> Inline("text")])
                  @@ ("copilot" :> <<>>)
                  @@ ("azure" :> <<>>)
  IN  {[SoundSettings EXCEPT
          !.root = leads,
          !.blocks = [p \in configured |-> blocks[p]],
          !.triage = <<provider, "small">>,
          !.investigation = <<"groq", model>>] :
        leads \in Roots, configured \in SUBSET DOMAIN blocks,
        provider \in {"ollama", "groq", "copilot"}, model \in {"small", "large"}}

\* Everything else that is checked, right and wrong, and a provider with it.
Checked ==
  {[SoundSettings EXCEPT
      !.file = file, !.filter = filter, !.finite = finite, !.root = leads,
      !.backoff_max_ms = max, !.max_turns = turns,
      !.triage = <<provider, "small">>] :
    file \in {"sound", "malformed"}, filter \in BOOLEAN, finite \in BOOLEAN,
    leads \in Roots, max \in {1, 2}, turns \in {1, 2},
    provider \in {"ollama", "copilot"}}

\* What is written wrong, in one place or in two.
SpecTexts ==
  {<<"ollama">>, <<"ollama", "">>, <<"nobody", "small">>, <<"", "small">>,
   <<"ollama", "qwen3", "8b">>, <<"ollama", "", "">>}

BlockTexts ==
  {"nobody" :> <<>>,
   "groq" :> [api_key |-> [env |-> "GROQ_API_KEY", value |-> "text"]],
   "groq" :> [api_key |-> [secret |-> "text"]],
   "groq" :> [api_key |-> Inline("text"), token |-> Inline("text")],
   "llamafile" :> [api_key |-> Inline("text")],
   "azure" :> [base_url |-> "url"],
   "chatgpt" :> [auth |-> [type |-> "oauth", secret |-> Inline("text")]],
   "chatgpt" :> [auth |-> [type |-> "token"]],
   "chatgpt" :> [auth |-> [type |-> "api_key", secret |-> Inline("text")]],
   "copilot" :> [auth |-> [type |-> "token", secret |-> Inline("text"),
                           account_id |-> "text"]],
   "copilot" :> [auth |-> [secret |-> Inline("text")]],
   "copilot" :> [auth |-> [type |-> "api_key", secret |-> Inline("text")]]}

Misspelt ==
  {[SoundSettings EXCEPT !.triage = triage, !.investigation = investigation] :
     triage \in SpecTexts, investigation \in SpecTexts}
    \union
  {[SoundSettings EXCEPT !.blocks = blocks, !.file = file] :
     blocks \in BlockTexts, file \in {"unknown_key", "sound"}}
    \union
  {[SoundSettings EXCEPT !.least = least, !.max_turns = turns,
                         !.backoff_initial_ms = initial, !.backoff_max_ms = max] :
     least \in 0..1, turns \in 0..2, initial \in 0..2, max \in 0..2}
    \union
  {[SoundSettings EXCEPT !.file = "none", !.root = leads] : leads \in Roots}

MCSettings ==
  {Configured(case) : case \in ProviderCases}
    \union {Unconfigured(case) :
              case \in {c \in ProviderCases : c.block = DefaultBlock(c.provider)}}
    \union (Several \union Checked \union Misspelt)

=============================================================================
