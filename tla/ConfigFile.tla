------------------------------- MODULE ConfigFile -------------------------------
(***************************************************************************)
(* What the types of the configuration accept, before anything is checked: *)
(* specs of models (src/model/spec.rs) and the blocks of the providers     *)
(* (src/model/settings.rs, parse_provider_config of src/model/registry.rs).*)
(*                                                                         *)
(* A table is written down as a function from its keys; a key that is      *)
(* missing is not in its domain.                                           *)
(***************************************************************************)
EXTENDS ProviderSettings, Functions

\* A provider is known by the name it has in the registry, exactly.
ParseProvider(written) ==
  IF written \in Range(ProviderNames) THEN Ok(written)
  ELSE Fail("UnknownProvider")

\* The name of a model is the provider's business, but for being one.
ParseModel(written) ==
  IF written # <<"">> THEN Ok(written) ELSE Fail("EmptyModel")

\* A spec is written as the parts between its colons.  The first is the
\* provider; what follows the first colon, whole, is the model.
ParseSpec(written) ==
  LET format == IF Len(written) > 1 THEN Ok(None) ELSE Fail("BadFormat")
      provider == ParseProvider(written[1])
      model == ParseModel(Tail(written))
  IN  InOrder(<<format, provider, model>>,
              [provider |-> provider.it, model |-> model.it])

\* A source of a secret is one key: the name of a variable, or the secret.
IsSecretSource(written) == written \in [env : STRING] \union [value : Values]

\* The keys that go with each type of auth.
AuthKeys(provider) ==
  IF provider = "chatgpt"
  THEN [oauth |-> {}, token |-> {"secret", "account_id"}]
  ELSE [oauth |-> {}, api_key |-> {"secret"}, token |-> {"secret"}]

IsAuth(provider, written) ==
  LET keys == AuthKeys(provider)
  IN  /\ "type" \in DOMAIN written
      /\ written.type \in DOMAIN keys
      /\ DOMAIN written \ {"type"} \subseteq keys[written.type]
      /\ "secret" \in keys[written.type] =>
           "secret" \in DOMAIN written /\ IsSecretSource(written.secret)

\* #[serde(default)]
Filled(written) ==
  IF "secret" \in DOMAIN written /\ "account_id" \notin DOMAIN written
  THEN [type |-> written.type, secret |-> written.secret, account_id |-> None]
  ELSE written

Secrets == {"api_key", "token"}

\* The keys of a block; allow_device_flow, which only says what rig may do
\* when it first sends, is left out.
KeysOf(provider) == DOMAIN DefaultBlock(provider)

\* parse_provider_config: a name of the registry, and keys of its profile.
ParseProviderConfig(name, written) ==
  IF name \notin Range(ProviderNames) THEN Fail("UnknownProvider")
  ELSE IF /\ DOMAIN written \subseteq KeysOf(name)
          /\ \A key \in DOMAIN written \intersect Secrets :
               IsSecretSource(written[key])
          /\ "auth" \in DOMAIN written => IsAuth(name, written.auth)
  THEN Ok([key \in KeysOf(name) |->
             IF key \notin DOMAIN written THEN None
             ELSE IF key = "auth" THEN Filled(written.auth)
             ELSE written[key]])
  ELSE Fail("InvalidBlock")

=============================================================================
