--------------------------- MODULE ProviderSettings ---------------------------
(***************************************************************************)
(* What a provider's block of the configuration and the environment make   *)
(* of its client: the resolution of secrets and values                     *)
(* (src/model/settings.rs) and the builders of src/model/registry.rs.      *)
(*                                                                         *)
(* Of a value, the code tells apart whether it is empty, blank or a URL;   *)
(* the properties, also where it came from.                                *)
(***************************************************************************)
EXTENDS Integers, Sequences, FiniteSetsExt

CONSTANT None  \* Rust's None

\* What a setting may hold, and what a variable that is set may.
Values == {"empty", "blank", "text", "url"}
Readings == Values \union {"not_unicode"}

\* The registry, in its order.  "anthropic" and "groq" stand for the keyed
\* providers with and without a variable for the base URL, which differ from
\* one another by names only.
ProviderNames ==
  <<"anthropic", "azure", "chatgpt", "copilot", "groq", "llamafile", "ollama">>

KeyedProviders == {"anthropic", "groq"}

KeyVariables ==
  [anthropic |-> <<"ANTHROPIC_API_KEY">>,
   groq |-> <<"GROQ_API_KEY">>,
   ollama |-> <<"OLLAMA_API_KEY">>]

BaseVariables ==
  [anthropic |-> <<"ANTHROPIC_BASE_URL">>,
   groq |-> <<>>,
   llamafile |-> <<"LLAMAFILE_API_BASE_URL">>,
   ollama |-> <<"OLLAMA_API_BASE_URL">>,
   chatgpt |-> <<"CHATGPT_API_BASE", "OPENAI_CHATGPT_API_BASE">>,
   copilot |-> <<"GITHUB_COPILOT_API_BASE", "COPILOT_BASE_URL">>]

CopilotKeys == <<"GITHUB_COPILOT_API_KEY", "COPILOT_API_KEY">>
CopilotTokens == <<"COPILOT_GITHUB_ACCESS_TOKEN", "GITHUB_TOKEN">>

\* A block with nothing in it.
DefaultBlock(provider) ==
  CASE provider \in KeyedProviders \union {"ollama"} ->
         [api_key |-> None, base_url |-> None]
    [] provider = "llamafile" -> [base_url |-> None]
    [] provider = "azure" -> [api_key |-> None, token |-> None,
                              endpoint |-> None, api_version |-> None]
    [] provider \in {"chatgpt", "copilot"} -> [base_url |-> None, auth |-> None]

-----------------------------------------------------------------------------
(***************************************************************************)
(* Results, and the `?` that returns the first failure.                    *)
(***************************************************************************)

Ok(it) == [ok |-> TRUE, it |-> it]
Fail(error) == [ok |-> FALSE, it |-> error]

IsNone(result) == result.ok /\ result.it = None
IsSome(result) == result.ok /\ result.it # None

InOrder(results, it) ==
  IF \A n \in DOMAIN results : results[n].ok THEN Ok(it)
  ELSE results[Min({n \in DOMAIN results : ~ results[n].ok})]

-----------------------------------------------------------------------------
(***************************************************************************)
(* Settings.                                                               *)
(***************************************************************************)

Value(from, is) == [from |-> from, is |-> is]

\* EnvironmentSource::var; a variable that is not set is not in the domain.
Var(name, environment) ==
  IF name \notin DOMAIN environment THEN Ok(None)
  ELSE IF environment[name] = "not_unicode" THEN Fail("Environment")
  ELSE Ok(Value(name, environment[name]))

\* Fault: a variable that holds nothing is passed over.
FirstUseful(names, environment) ==
  LET useful == {n \in DOMAIN names : /\ names[n] \in DOMAIN environment
                                      /\ environment[names[n]] # "empty"}
  IN  IF useful = {} THEN Ok(None) ELSE Var(names[Min(useful)], environment)

\* The loop over the conventional variables: the first that is set decides.
FirstSet(names, environment) ==
  LET set == {n \in DOMAIN names : names[n] \in DOMAIN environment}
  IN  IF set = {} THEN Ok(None) ELSE Var(names[Min(set)], environment)

NonemptySecret(result) ==
  IF IsSome(result) /\ result.it.is = "empty" THEN Fail("EmptySecret")
  ELSE result

\* A source of a secret names a variable, or holds the secret itself.
FromEnv(name) == [env |-> name]
Inline(is) == [value |-> is]

ResolveExplicitSecret(source, environment) ==
  IF "value" \in DOMAIN source
  THEN NonemptySecret(Ok(Value("inline", source.value)))
  ELSE IF source.env = "" THEN Fail("EmptyEnvironmentName")
  ELSE LET found == Var(source.env, environment)
       IN  IF IsNone(found) THEN Fail("MissingSecret")
           ELSE NonemptySecret(found)

ResolveOptionalSecret(explicit, names, environment) ==
  IF explicit # None THEN ResolveExplicitSecret(explicit, environment)
  ELSE NonemptySecret(FirstSet(names, environment))

ResolveRequiredSecret(explicit, names, environment) ==
  LET found == ResolveOptionalSecret(explicit, names, environment)
  IN  IF IsNone(found) THEN Fail("MissingSecret") ELSE found

\* A value, unlike a secret, may be empty.
ResolveOptionalValue(explicit, names, environment) ==
  IF explicit # None THEN Ok(Value("config", explicit))
  ELSE FirstSet(names, environment)

ResolveRequiredValue(explicit, names, environment) ==
  LET found == ResolveOptionalValue(explicit, names, environment)
  IN  IF IsNone(found) THEN Fail("MissingValue")
      ELSE IF IsSome(found) /\ found.it.is \in {"empty", "blank"}
      THEN Fail("EmptyValue")
      ELSE found

\* checked_url, and validate_http_url.
CheckedUrl(result) ==
  IF IsSome(result) /\ result.it.is # "url" THEN Fail("InvalidUrl") ELSE result

-----------------------------------------------------------------------------
(***************************************************************************)
(* The builders.  A client is the way it proves who it is, and where it    *)
(* connects to; whether rig can then build it is for Startup to say.       *)
(***************************************************************************)

NoAuth == [type |-> "none", secret |-> None]
OAuth == [type |-> "oauth", secret |-> None]
ApiKey(result) == [type |-> "api_key", secret |-> result.it]
AccessToken(result) == [type |-> "token", secret |-> result.it]

Client(auth, base) == [auth |-> auth, base |-> base.it]

BaseUrl(provider, block, environment) ==
  CheckedUrl(ResolveOptionalValue(block.base_url, BaseVariables[provider],
                                  environment))

BuildKeyed(provider, block, environment) ==
  LET key == ResolveRequiredSecret(block.api_key, KeyVariables[provider],
                                   environment)
      base == BaseUrl(provider, block, environment)
  IN  InOrder(<<key, base>>, Client(ApiKey(key), base))

\* Without a key the client sends none.
BuildOllama(block, environment) ==
  LET key == ResolveOptionalSecret(block.api_key, KeyVariables["ollama"],
                                   environment)
      base == BaseUrl("ollama", block, environment)
  IN  InOrder(<<key, base>>,
              Client(IF IsNone(key) THEN NoAuth ELSE ApiKey(key), base))

BuildLlamafile(block, environment) ==
  LET base == CheckedUrl(ResolveRequiredValue(
                block.base_url, BaseVariables["llamafile"], environment))
  IN  InOrder(<<base>>, Client(NoAuth, base))

\* What is configured keeps the environment out; two that are configured are
\* not even looked at.
AzureSecrets(block, environment) ==
  CASE block.api_key # None /\ block.token # None -> <<Ok(None), Ok(None)>>
    [] block.api_key # None /\ block.token = None ->
         <<ResolveRequiredSecret(block.api_key, <<>>, environment), Ok(None)>>
    [] block.api_key = None /\ block.token # None ->
         <<Ok(None), ResolveRequiredSecret(block.token, <<>>, environment)>>
    [] block.api_key = None /\ block.token = None ->
         <<ResolveOptionalSecret(None, <<"AZURE_API_KEY">>, environment),
           ResolveOptionalSecret(None, <<"AZURE_TOKEN">>, environment)>>

BuildAzure(block, environment) ==
  LET secrets == AzureSecrets(block, environment)
      key == secrets[1]
      token == secrets[2]
      auth == IF IsSome(key) /\ IsNone(token) THEN Ok(ApiKey(key))
              ELSE IF IsNone(key) /\ IsSome(token) THEN Ok(AccessToken(token))
              ELSE Fail("ConflictingValues")
      endpoint == CheckedUrl(ResolveRequiredValue(
                    block.endpoint, <<"AZURE_ENDPOINT">>, environment))
      version == ResolveRequiredValue(
                   block.api_version, <<"AZURE_API_VERSION">>, environment)
  IN  InOrder(<<key, token, auth, endpoint, version>>,
              Client(auth.it, endpoint))

\* The account goes with the token, but is looked for in the environment
\* even when the token is configured.
ChatGptToken(secret, account, environment) ==
  LET id == ResolveOptionalValue(account, <<"CHATGPT_ACCOUNT_ID">>, environment)
  IN  InOrder(<<secret, id>>, AccessToken(secret))

ChatGptAuth(block, environment) ==
  LET found == ResolveOptionalSecret(None, <<"CHATGPT_ACCESS_TOKEN">>,
                                     environment)
  IN  IF block.auth = None
      THEN IF IsNone(found) THEN Ok(OAuth)
           ELSE ChatGptToken(found, None, environment)
      ELSE IF block.auth.type = "oauth" THEN Ok(OAuth)
      ELSE ChatGptToken(
             ResolveRequiredSecret(block.auth.secret, <<>>, environment),
             block.auth.account_id, environment)

BuildChatGpt(block, environment) ==
  LET base == BaseUrl("chatgpt", block, environment)
      auth == ChatGptAuth(block, environment)
  IN  InOrder(<<base, auth>>, Client(auth.it, base))

\* A key before a token, a token before OAuth.
CopilotAuth(block, environment) ==
  LET key == ResolveOptionalSecret(None, CopilotKeys, environment)
      token == ResolveOptionalSecret(None, CopilotTokens, environment)
  IN  IF block.auth = None
      THEN IF ~ IsNone(key) THEN InOrder(<<key>>, ApiKey(key))
           ELSE IF ~ IsNone(token) THEN InOrder(<<token>>, AccessToken(token))
           ELSE Ok(OAuth)
      ELSE IF block.auth.type = "oauth" THEN Ok(OAuth)
      ELSE LET secret == ResolveRequiredSecret(block.auth.secret, <<>>,
                                               environment)
           IN  InOrder(<<secret>>,
                       IF block.auth.type = "api_key" THEN ApiKey(secret)
                       ELSE AccessToken(secret))

BuildCopilot(block, environment) ==
  LET base == BaseUrl("copilot", block, environment)
      auth == CopilotAuth(block, environment)
  IN  InOrder(<<base, auth>>, Client(auth.it, base))

\* registry::build_client.
BuildClient(provider, block, environment) ==
  CASE provider \in KeyedProviders -> BuildKeyed(provider, block, environment)
    [] provider = "ollama" -> BuildOllama(block, environment)
    [] provider = "llamafile" -> BuildLlamafile(block, environment)
    [] provider = "azure" -> BuildAzure(block, environment)
    [] provider = "chatgpt" -> BuildChatGpt(block, environment)
    [] provider = "copilot" -> BuildCopilot(block, environment)

=============================================================================
