----------------------------- MODULE StartupProofs -----------------------------
(***************************************************************************)
(* Proofs about module Startup, for any settings, blocks and environment.  *)
(*                                                                         *)
(* For the start it does not matter what a client is made of: whatever     *)
(* building it comes to, one client is built for each provider that is     *)
(* configured or referred to, and a failure of any of them is one of the   *)
(* settings.  How far the start has come tells which of the checks have    *)
(* passed.  What a client proves itself with is then a matter of its       *)
(* builder alone, given a block that passed the types (ClientMeant).       *)
(***************************************************************************)
EXTENDS Startup, FiniteSetTheorems, SequenceTheorems, WellFoundedInduction, TLAPS

(***************************************************************************)
(* The first of several.                                                   *)
(***************************************************************************)

LEMMA MinIsThere ==
  ASSUME NEW S, S \subseteq Nat, S # {}
  PROVE  Min(S) \in S /\ \A n \in S : Min(S) <= n
  <1> DEFINE less == OpToRel(<, Nat)
  <1>1. IsWellFoundedOn(less, Nat)
    BY NatLessThanWellFounded, Zenon
  <1>2. less = {ss \in Nat \X Nat : ss[1] < ss[2]}
    BY DEF OpToRel
  <1> HIDE DEF less
  <1>3. PICK x \in S : \A y \in S : ~(<<y, x>> \in less)
    BY <1>1, WFMin
  <1>4. ASSUME NEW y \in S
        PROVE  x <= y
    <2>1. x \in Nat /\ y \in Nat /\ <<y, x>> \in Nat \X Nat
      BY <1>4
    <2>2. ~(y < x)
      BY <1>2, <1>3, <2>1
    <2> QED
      BY <2>1, <2>2
  <1>5. \E z \in S : \A y \in S : z <= y
    BY <1>4
  <1>6. Min(S) = CHOOSE z \in S : \A y \in S : z <= y
    BY DEF Min
  <1> QED
    BY <1>5, <1>6

\* Results in order are a success if and only if each of them is one.
LEMMA InOrderSucceeds ==
  ASSUME NEW results, NEW it, NEW n \in Nat, DOMAIN results = 1..n
  PROVE  /\ (\A k \in 1..n : results[k].ok) => InOrder(results, it) = Ok(it)
         /\ InOrder(results, it).ok => \A k \in 1..n : results[k].ok
  <1> DEFINE failed == {k \in DOMAIN results : ~results[k].ok}
  <1>1. ASSUME \E k \in 1..n : ~results[k].ok
        PROVE  ~InOrder(results, it).ok
    <2>1. failed \subseteq Nat /\ failed # {}
      BY <1>1
    <2>2. Min(failed) \in failed
      <3> HIDE DEF failed
      <3> QED
        BY <2>1, MinIsThere
    <2>3. InOrder(results, it) = results[Min(failed)]
      BY <1>1 DEF InOrder
    <2> QED
      BY <2>2, <2>3
  <1>2. (\A k \in 1..n : results[k].ok) => InOrder(results, it) = Ok(it)
    BY DEF InOrder
  <1> QED
    BY <1>1, <1>2

LEMMA CheckSucceeds ==
  ASSUME NEW holds, NEW failure
  PROVE  Check(holds, failure).ok <=> holds
  BY DEF Check, Ok, Fail

(***************************************************************************)
(* What loading the configuration has made sure of.                        *)
(***************************************************************************)

TypesPass ==
  /\ settings.file \notin {"malformed", "unknown_key"}
  /\ settings.backoff_initial_ms # 0
  /\ settings.max_turns # 0
  /\ settings.least # 0
  /\ \A p \in DOMAIN Merged : ParseProviderConfig(p, Merged[p]).ok
  /\ ParseSpec(settings.triage).ok
  /\ ParseSpec(settings.investigation).ok

ValuesPass ==
  /\ settings.backoff_max_ms >= settings.backoff_initial_ms
  /\ settings.finite
  /\ settings.max_turns >= 2

LEMMA DeserializesMeans == Deserializes(settings).ok <=> TypesPass
  <1> DEFINE file == Check(settings.file \notin {"malformed", "unknown_key"},
                           "File")
             zero == Check(settings.backoff_initial_ms # 0
                             /\ settings.max_turns # 0 /\ settings.least # 0,
                           "Zero")
             blocks == Check(\A p \in DOMAIN Merged :
                               ParseProviderConfig(p, Merged[p]).ok,
                             "Providers")
             results == <<file, zero, blocks, ParseSpec(settings.triage),
                          ParseSpec(settings.investigation)>>
  <1>1. /\ file.ok <=> settings.file \notin {"malformed", "unknown_key"}
        /\ zero.ok <=> settings.backoff_initial_ms # 0
                         /\ settings.max_turns # 0 /\ settings.least # 0
        /\ blocks.ok <=> \A p \in DOMAIN Merged :
                           ParseProviderConfig(p, Merged[p]).ok
    BY CheckSucceeds, Zenon
  <1>2. Deserializes(settings) = InOrder(results, None)
    BY DEF Deserializes
  <1> HIDE DEF file, zero, blocks
  <1>3. DOMAIN results = 1..5
    OBVIOUS
  <1>4. (\A k \in 1..5 : results[k].ok) <=>
          /\ file.ok /\ zero.ok /\ blocks.ok
          /\ ParseSpec(settings.triage).ok
          /\ ParseSpec(settings.investigation).ok
    <2>1. /\ results[1] = file /\ results[2] = zero /\ results[3] = blocks
          /\ results[4] = ParseSpec(settings.triage)
          /\ results[5] = ParseSpec(settings.investigation)
      OBVIOUS
    <2>2. 1..5 = {1, 2, 3, 4, 5}
      OBVIOUS
    <2> HIDE DEF results
    <2> QED
      BY <2>1, <2>2
  <1> HIDE DEF results
  <1>5. /\ (\A k \in 1..5 : results[k].ok) => InOrder(results, None) = Ok(None)
        /\ InOrder(results, None).ok => \A k \in 1..5 : results[k].ok
    BY <1>3, InOrderSucceeds
  <1>6. Ok(None).ok
    BY DEF Ok
  <1> QED
    BY <1>1, <1>2, <1>4, <1>5, <1>6 DEF TypesPass

LEMMA ValidateMeans ==
  Validate(settings).ok <=> ValuesPass /\ root = "directory"
  <1> DEFINE backoff == Check(settings.backoff_max_ms >=
                                settings.backoff_initial_ms, "Backoff")
             temperature == Check(settings.finite, "Temperature")
             turns == Check(settings.max_turns >= 2, "MaxTurns")
             repository == Check(root = "directory", "RepoRoot")
             results == <<backoff, temperature, turns, repository>>
  <1>1. /\ backoff.ok <=> settings.backoff_max_ms >= settings.backoff_initial_ms
        /\ temperature.ok <=> settings.finite
        /\ turns.ok <=> settings.max_turns >= 2
        /\ repository.ok <=> root = "directory"
    BY DEF Check, Ok, Fail
  <1>2. Validate(settings) = InOrder(results, None)
    BY DEF Validate
  <1> HIDE DEF backoff, temperature, turns, repository
  <1>3. DOMAIN results = 1..4
    OBVIOUS
  <1>4. (\A k \in 1..4 : results[k].ok) <=>
          backoff.ok /\ temperature.ok /\ turns.ok /\ repository.ok
    <2>1. /\ results[1] = backoff /\ results[2] = temperature
          /\ results[3] = turns /\ results[4] = repository
      OBVIOUS
    <2>2. 1..4 = {1, 2, 3, 4}
      OBVIOUS
    <2> HIDE DEF results
    <2> QED
      BY <2>1, <2>2
  <1> HIDE DEF results
  <1>5. /\ (\A k \in 1..4 : results[k].ok) => InOrder(results, None) = Ok(None)
        /\ InOrder(results, None).ok => \A k \in 1..4 : results[k].ok
    BY <1>3, InOrderSucceeds
  <1>6. Ok(None).ok
    BY DEF Ok
  <1> QED
    BY <1>1, <1>2, <1>4, <1>5, <1>6 DEF ValuesPass

LEMMA LoadMeans ==
  InOrder(<<Deserializes(settings), Validate(settings)>>, None).ok
    <=> TypesPass /\ ValuesPass /\ root = "directory"
  <1> DEFINE results == <<Deserializes(settings), Validate(settings)>>
  <1>1. DOMAIN results = 1..2 /\ 1..2 = {1, 2}
        /\ results[1] = Deserializes(settings)
        /\ results[2] = Validate(settings)
    OBVIOUS
  <1> HIDE DEF results
  <1>2. /\ (\A k \in 1..2 : results[k].ok) => InOrder(results, None) = Ok(None)
        /\ InOrder(results, None).ok => \A k \in 1..2 : results[k].ok
    BY <1>1, InOrderSucceeds
  <1>3. Ok(None).ok
    BY DEF Ok
  <1> QED
    BY <1>1, <1>2, <1>3, DeserializesMeans, ValidateMeans DEF results

(***************************************************************************)
(* The blocks.                                                             *)
(***************************************************************************)

\* A block that passes is of a provider of the registry, and none of the keys
\* written in it is passed over.
LEMMA BlocksKept ==
  ASSUME TypesPass
  PROVE  /\ DOMAIN Blocks \subseteq Range(ProviderNames)
         /\ \A p \in DOMAIN settings.blocks :
              /\ p \in DOMAIN Blocks
              /\ DOMAIN settings.blocks[p] \subseteq DOMAIN Blocks[p]
  <1>1. DOMAIN Blocks = DOMAIN Merged
    BY DEF Blocks
  <1>2. ASSUME NEW p \in DOMAIN Merged
        PROVE  /\ p \in Range(ProviderNames)
               /\ DOMAIN Merged[p] \subseteq DOMAIN Blocks[p]
    <2>1. ParseProviderConfig(p, Merged[p]).ok
      BY <1>2 DEF TypesPass
    <2>2. p \in Range(ProviderNames) /\ DOMAIN Merged[p] \subseteq KeysOf(p)
          /\ DOMAIN ParseProviderConfig(p, Merged[p]).it = KeysOf(p)
      BY <2>1 DEF ParseProviderConfig, Ok, Fail
    <2>3. Blocks[p] = ParseProviderConfig(p, Merged[p]).it
      BY <1>2 DEF Blocks
    <2> QED
      BY <2>2, <2>3
  <1>3. ASSUME NEW p \in DOMAIN settings.blocks
        PROVE  /\ p \in DOMAIN Merged
               /\ DOMAIN settings.blocks[p] \subseteq DOMAIN Merged[p]
    <2> DEFINE given == Over(settings.blocks, [q \in {"ollama"} |-> <<>>])
    <2>1. /\ p \in DOMAIN given /\ "ollama" \in DOMAIN given
          /\ given[p] = settings.blocks[p]
      BY <1>3 DEF Over
    <2>2. Merged = [given EXCEPT !["ollama"] =
                      Over(given["ollama"], [base_url |-> "url"])]
      BY DEF Merged
    <2>3. /\ DOMAIN Merged = DOMAIN given
          /\ Merged["ollama"] = Over(given["ollama"], [base_url |-> "url"])
          /\ p # "ollama" => Merged[p] = given[p]
      <3>1. given = [q \in DOMAIN given |-> given[q]]
        BY DEF Over
      <3> HIDE DEF given
      <3> QED
        BY <2>1, <2>2, <3>1
    <2> HIDE DEF given
    <2>4. DOMAIN given["ollama"] \subseteq DOMAIN Merged["ollama"]
      BY <2>3 DEF Over
    <2> QED
      BY <2>1, <2>3, <2>4
  <1> QED
    BY <1>1, <1>2, <1>3


\* The provider of a spec is one of the registry.
LEMMA SpecParsed ==
  ASSUME NEW written, ParseSpec(written).ok
  PROVE  ParseSpec(written).it.provider \in Range(ProviderNames)
  <1> DEFINE format == IF Len(written) > 1 THEN Ok(None) ELSE Fail("BadFormat")
             provider == ParseProvider(written[1])
             model == ParseModel(Tail(written))
             spec == [provider |-> provider.it, model |-> model.it]
             results == <<format, provider, model>>
  <1>1. ParseSpec(written) = InOrder(results, spec)
    BY DEF ParseSpec
  <1>2. DOMAIN results = 1..3 /\ 2 \in 1..3 /\ results[2] = provider
    OBVIOUS
  <1>3. spec.provider = provider.it
    OBVIOUS
  <1>4. provider.ok => provider.it \in Range(ProviderNames)
    BY DEF ParseProvider, Ok, Fail
  <1> HIDE DEF results, spec, provider
  <1>5. /\ (\A k \in 1..3 : results[k].ok) => InOrder(results, spec) = Ok(spec)
        /\ InOrder(results, spec).ok => \A k \in 1..3 : results[k].ok
    BY <1>2, InOrderSucceeds
  <1> QED
    BY <1>1, <1>2, <1>3, <1>4, <1>5 DEF Ok

(***************************************************************************)
(* Where secrets are found.                                                *)
(***************************************************************************)

\* What is read from an environment is no None.
IsEnvironment(environment) ==
  /\ \A name \in DOMAIN environment : environment[name] \in Readings
  /\ None \notin [from : DOMAIN environment \union {"inline"}, is : Values]

\* A secret that was found, and where.
Found(result, from) ==
  /\ result.ok /\ result.it # None
  /\ result.it.from = from /\ result.it.is # "empty"

LEMMA ValueIsSome ==
  ASSUME NEW environment, IsEnvironment(environment),
         NEW from \in DOMAIN environment \union {"inline"}, NEW is \in Values
  PROVE  /\ Value(from, is) # None
         /\ Value(from, is).from = from /\ Value(from, is).is = is
  BY DEF Value, IsEnvironment

LEMMA VarFinds ==
  ASSUME NEW environment, IsEnvironment(environment), NEW name
  PROVE  LET result == Var(name, environment)
         IN  /\ name \notin DOMAIN environment => result = Ok(None)
             /\ name \in DOMAIN environment /\ result.ok =>
                  /\ result.it # None
                  /\ result.it.from = name /\ result.it.is \in Values
  <1>1. CASE name \notin DOMAIN environment
    BY <1>1 DEF Var
  <1>2. CASE name \in DOMAIN environment
    <2>1. environment[name] \in Values \union {"not_unicode"}
      BY <1>2 DEF IsEnvironment, Readings
    <2>2. CASE environment[name] = "not_unicode"
      BY <1>2, <2>2 DEF Var, Fail
    <2>3. CASE environment[name] # "not_unicode"
      <3>1. environment[name] \in Values
        BY <2>1, <2>3
      <3>2. Var(name, environment) = Ok(Value(name, environment[name]))
        BY <1>2, <2>3 DEF Var
      <3> QED
        BY <1>2, <2>1, <2>3, <3>1, <3>2, ValueIsSome DEF Ok
    <2> QED
      BY <2>2, <2>3
  <1> QED
    BY <1>1, <1>2

LEMMA NonemptyFound ==
  ASSUME NEW result, result.ok, result.it # None, NonemptySecret(result).ok
  PROVE  NonemptySecret(result) = result /\ result.it.is # "empty"
  BY DEF NonemptySecret, IsSome, Fail

\* Of variables in order of preference, the first that is set decides.
LEMMA SecretOfVariables ==
  ASSUME NEW environment, IsEnvironment(environment),
         NEW names, DOMAIN names \subseteq Nat
  PROVE  LET set == {n \in DOMAIN names : names[n] \in DOMAIN environment}
             result == ResolveOptionalSecret(None, names, environment)
         IN  IF set = {} THEN result = Ok(None)
             ELSE result.ok => Found(result, names[Min(set)])
  <1> DEFINE set == {n \in DOMAIN names : names[n] \in DOMAIN environment}
             result == ResolveOptionalSecret(None, names, environment)
             first == Var(names[Min(set)], environment)
  <1>1. result = NonemptySecret(FirstSet(names, environment))
    BY DEF ResolveOptionalSecret
  <1>2. FirstSet(names, environment) = IF set = {} THEN Ok(None) ELSE first
    BY DEF FirstSet
  <1>3. CASE set = {}
    <2>1. result = NonemptySecret(Ok(None))
      BY <1>1, <1>2, <1>3
    <2>2. NonemptySecret(Ok(None)) = Ok(None)
      BY DEF NonemptySecret, IsSome, Ok
    <2> QED
      BY <1>3, <2>1, <2>2
  <1>4. CASE set # {} /\ result.ok
    <2>1. set \subseteq Nat
      OBVIOUS
    <2>2. Min(set) \in set
      <3> HIDE DEF set
      <3> QED
        BY <1>4, <2>1, MinIsThere
    <2>3. names[Min(set)] \in DOMAIN environment
      BY <2>2
    <2>4. result = NonemptySecret(first)
      BY <1>1, <1>2, <1>4
    <2> HIDE DEF set, result
    <2>5. first.ok
      BY <1>4, <2>4 DEF NonemptySecret, IsSome
    <2>6. first.it # None /\ first.it.from = names[Min(set)]
      BY <2>3, <2>5, VarFinds
    <2> HIDE DEF first
    <2>7. result = first /\ first.it.is # "empty"
      BY <1>4, <2>4, <2>5, <2>6, NonemptyFound
    <2>8. Found(result, names[Min(set)])
      BY <2>5, <2>6, <2>7 DEF Found
    <2> QED
      BY <1>4, <2>8 DEF set, result
  <1> QED
    BY <1>3, <1>4

\* Where a source says a secret is.
SourceOf(source) == IF "env" \in DOMAIN source THEN source.env ELSE "inline"

LEMMA SecretOfSource ==
  ASSUME NEW environment, IsEnvironment(environment),
         NEW source, IsSecretSource(source),
         ResolveExplicitSecret(source, environment).ok
  PROVE  Found(ResolveExplicitSecret(source, environment), SourceOf(source))
  <1> DEFINE result == ResolveExplicitSecret(source, environment)
  <1>1. CASE source \in [value : Values]
    <2>1. DOMAIN source = {"value"} /\ source.value \in Values
      BY <1>1
    <2> DEFINE found == Ok(Value("inline", source.value))
    <2>2. result = NonemptySecret(found)
      BY <2>1 DEF ResolveExplicitSecret
    <2>3. found.ok /\ found.it # None /\ found.it.from = "inline"
      BY <2>1, ValueIsSome DEF Ok
    <2>4. result.ok
      OBVIOUS
    <2> HIDE DEF found, result
    <2>5. result = found /\ found.it.is # "empty"
      BY <2>2, <2>3, <2>4, NonemptyFound
    <2>6. SourceOf(source) = "inline"
      BY <2>1 DEF SourceOf
    <2>7. Found(result, SourceOf(source))
      BY <2>3, <2>5, <2>6 DEF Found
    <2> QED
      BY <2>7 DEF result
  <1>2. CASE source \in [env : STRING]
    <2>1. DOMAIN source = {"env"}
      BY <1>2
    <2> DEFINE found == Var(source.env, environment)
    <2>2. result = IF source.env = "" THEN Fail("EmptyEnvironmentName")
                   ELSE IF IsNone(found) THEN Fail("MissingSecret")
                   ELSE NonemptySecret(found)
      BY <2>1 DEF ResolveExplicitSecret
    <2>3. result.ok
      OBVIOUS
    <2>4. found = Ok(None) \/ (found.ok => found.it # None /\ found.it.from = source.env)
      BY <2>1, VarFinds
    <2> HIDE DEF found, result
    <2>5. result = NonemptySecret(found) /\ ~IsNone(found)
      BY <2>2, <2>3 DEF Fail
    <2>6. found.ok
      BY <2>3, <2>5 DEF NonemptySecret, IsSome
    <2>7. found.it # None /\ found.it.from = source.env
      BY <2>4, <2>5, <2>6 DEF IsNone, Ok
    <2>8. result = found /\ found.it.is # "empty"
      BY <2>3, <2>5, <2>6, <2>7, NonemptyFound
    <2>9. SourceOf(source) = source.env
      BY <2>1 DEF SourceOf
    <2>10. Found(result, SourceOf(source))
      BY <2>6, <2>7, <2>8, <2>9 DEF Found
    <2> QED
      BY <2>10 DEF result
  <1> QED
    BY <1>1, <1>2 DEF IsSecretSource

(***************************************************************************)
(* What a client may prove itself with.                                    *)
(***************************************************************************)

SetIn(names, environment) ==
  {n \in DOMAIN names : names[n] \in DOMAIN environment}

\* The secret of the client that is built for a provider from its block.
Meant(provider, block, environment, secret) ==
  LET sources == ConfiguredSources(block)
      names == Preference(provider)
      set == SetIn(names, environment)
  IN  /\ secret # None => secret.is # "empty"
      /\ sources # {} =>
           \E source \in sources : /\ sources = {source}
                                   /\ secret # None
                                   /\ secret.from = SourceOf(source)
      /\ sources = {} =>
           IF ChosenOAuth(block) \/ set = {}
           THEN secret = None
           ELSE /\ secret # None
                /\ secret.from = names[Min(set)]
                /\ provider = "azure" => Cardinality(set) = 1

LEMMA MeantBySource ==
  ASSUME NEW provider, NEW block, NEW environment, NEW result, NEW source,
         ConfiguredSources(block) = {source},
         Found(result, SourceOf(source))
  PROVE  Meant(provider, block, environment, result.it)
  BY DEF Meant, Found

LEMMA MeantByVariable ==
  ASSUME NEW provider, NEW block, NEW environment, NEW result,
         ConfiguredSources(block) = {}, ~ChosenOAuth(block),
         SetIn(Preference(provider), environment) # {},
         Found(result, Preference(provider)[
                         Min(SetIn(Preference(provider), environment))]),
         provider = "azure" =>
           Cardinality(SetIn(Preference(provider), environment)) = 1
  PROVE  Meant(provider, block, environment, result.it)
  BY DEF Meant, Found

LEMMA MeantByNone ==
  ASSUME NEW provider, NEW block, NEW environment,
         ConfiguredSources(block) = {},
         ChosenOAuth(block) \/ SetIn(Preference(provider), environment) = {}
  PROVE  Meant(provider, block, environment, None)
  BY DEF Meant

(***************************************************************************)
(* What a block that passed the types holds.                               *)
(***************************************************************************)

IsSetting(source) == source = None \/ IsSecretSource(source)

IsBlock(provider, block) ==
  /\ provider \in KeyedProviders \cup {"ollama"} =>
       DOMAIN block = {"api_key", "base_url"} /\ IsSetting(block.api_key)
  /\ provider = "llamafile" => DOMAIN block = {"base_url"}
  /\ provider = "azure" =>
       /\ DOMAIN block = {"api_key", "token", "endpoint", "api_version"}
       /\ IsSetting(block.api_key) /\ IsSetting(block.token)
  /\ provider \in {"chatgpt", "copilot"} =>
       /\ DOMAIN block = {"base_url", "auth"}
       /\ \/ block.auth = None
          \/ block.auth.type = "oauth" /\ "secret" \notin DOMAIN block.auth
          \/ /\ block.auth.type # "oauth"
             /\ "secret" \in DOMAIN block.auth
             /\ IsSecretSource(block.auth.secret)

LEMMA SourcesOfKeys ==
  ASSUME NEW block, "auth" \notin DOMAIN block
  PROVE  ConfiguredSources(block) =
           {block[f] : f \in DOMAIN block \cap {"api_key", "token"}} \ {None}
  BY DEF ConfiguredSources

LEMMA SourcesOfAuth ==
  ASSUME NEW block, DOMAIN block = {"base_url", "auth"}
  PROVE  ConfiguredSources(block) =
           IF block.auth # None /\ "secret" \in DOMAIN block.auth
           THEN {block.auth.secret} \ {None} ELSE {}
  BY DEF ConfiguredSources

LEMMA DefaultIsBlock ==
  ASSUME NEW provider \in Range(ProviderNames)
  PROVE  IsBlock(provider, DefaultBlock(provider))
  BY DEF IsBlock, IsSetting, DefaultBlock, KeyedProviders, Range, ProviderNames

LEMMA ParsedIsBlock ==
  ASSUME NEW provider, NEW written, ParseProviderConfig(provider, written).ok
  PROVE  IsBlock(provider, ParseProviderConfig(provider, written).it)
  <1> DEFINE block == ParseProviderConfig(provider, written).it
  <1>1. /\ provider \in Range(ProviderNames)
        /\ \A key \in DOMAIN written \cap Secrets : IsSecretSource(written[key])
        /\ "auth" \in DOMAIN written => IsAuth(provider, written.auth)
        /\ block = [key \in KeysOf(provider) |->
                      IF key \notin DOMAIN written THEN None
                      ELSE IF key = "auth" THEN Filled(written.auth)
                      ELSE written[key]]
    BY DEF ParseProviderConfig, Ok, Fail
  <1> HIDE DEF block
  <1>2. \A key \in KeysOf(provider) \cap {"api_key", "token"} :
          IsSetting(block[key])
    BY <1>1 DEF IsSetting, Secrets
  <1>3. CASE provider \in KeyedProviders \cup {"ollama"}
    <2>1. KeysOf(provider) = {"api_key", "base_url"}
      BY <1>3 DEF KeysOf, DefaultBlock, KeyedProviders
    <2> QED
      BY <1>1, <1>2, <1>3, <2>1 DEF IsBlock, KeyedProviders, block
  <1>4. CASE provider = "llamafile"
    <2>1. KeysOf(provider) = {"base_url"}
      BY <1>4 DEF KeysOf, DefaultBlock, KeyedProviders
    <2> QED
      BY <1>1, <1>4, <2>1 DEF IsBlock, KeyedProviders, block
  <1>5. CASE provider = "azure"
    <2>1. KeysOf(provider) = {"api_key", "token", "endpoint", "api_version"}
      BY <1>5 DEF KeysOf, DefaultBlock, KeyedProviders
    <2> QED
      BY <1>1, <1>2, <1>5, <2>1 DEF IsBlock, KeyedProviders, block
  <1>6. CASE provider \in {"chatgpt", "copilot"}
    <2>1. KeysOf(provider) = {"base_url", "auth"}
      BY <1>6 DEF KeysOf, DefaultBlock, KeyedProviders
    <2>2. CASE "auth" \notin DOMAIN written
      <3>1. block.auth = None
        BY <1>1, <2>1, <2>2
      <3> QED
        BY <1>1, <1>6, <2>1, <3>1 DEF IsBlock, KeyedProviders, block
    <2>3. CASE "auth" \in DOMAIN written
      <3> DEFINE auth == Filled(written.auth)
      <3>1. block.auth = auth
        BY <1>1, <2>1, <2>3
      <3>2. /\ "type" \in DOMAIN written.auth
            /\ written.auth.type \in {"oauth", "api_key", "token"}
            /\ written.auth.type = "oauth" =>
                 "secret" \notin DOMAIN written.auth
            /\ written.auth.type # "oauth" =>
                 /\ "secret" \in DOMAIN written.auth
                 /\ IsSecretSource(written.auth.secret)
        BY <1>1, <1>6, <2>3 DEF IsAuth, AuthKeys
      <3>3. /\ auth.type = written.auth.type
            /\ "secret" \in DOMAIN auth <=> "secret" \in DOMAIN written.auth
            /\ "secret" \in DOMAIN written.auth =>
                 auth.secret = written.auth.secret
        BY DEF Filled
      <3> HIDE DEF auth
      <3> QED
        BY <1>1, <1>6, <2>1, <3>1, <3>2, <3>3 DEF IsBlock, KeyedProviders, block
    <2> QED
      BY <2>2, <2>3
  <1>7. provider \in {"anthropic", "azure", "chatgpt", "copilot", "groq",
                      "llamafile", "ollama"}
    BY <1>1 DEF Range, ProviderNames
  <1> QED
    BY <1>3, <1>4, <1>5, <1>6, <1>7 DEF block, KeyedProviders

(***************************************************************************)
(* The builders.                                                           *)
(***************************************************************************)

LEMMA RequiredSecret ==
  ASSUME NEW explicit, NEW names, NEW environment,
         ResolveRequiredSecret(explicit, names, environment).ok
  PROVE  /\ ResolveRequiredSecret(explicit, names, environment) =
              ResolveOptionalSecret(explicit, names, environment)
         /\ ~IsNone(ResolveOptionalSecret(explicit, names, environment))
  BY DEF ResolveRequiredSecret, Fail

LEMMA NoVariables ==
  ASSUME NEW environment
  PROVE  ResolveOptionalSecret(None, <<>>, environment) = Ok(None)
  <1>1. FirstSet(<<>>, environment) = Ok(None)
    BY DEF FirstSet
  <1>2. NonemptySecret(Ok(None)) = Ok(None)
    BY DEF NonemptySecret, IsSome, Ok
  <1> QED
    BY <1>1, <1>2 DEF ResolveOptionalSecret

\* A secret that must come from its source does, or there is none.
LEMMA SourceRequired ==
  ASSUME NEW environment, IsEnvironment(environment), NEW source,
         IsSetting(source),
         ResolveRequiredSecret(source, <<>>, environment).ok
  PROVE  /\ source # None
         /\ Found(ResolveRequiredSecret(source, <<>>, environment),
                  SourceOf(source))
  <1> DEFINE result == ResolveOptionalSecret(source, <<>>, environment)
  <1>1. /\ ResolveRequiredSecret(source, <<>>, environment) = result
        /\ ~IsNone(result) /\ result.ok
    BY RequiredSecret
  <1>2. source # None
    BY <1>1, NoVariables DEF IsNone, Ok
  <1>3. result = ResolveExplicitSecret(source, environment)
    BY <1>2 DEF ResolveOptionalSecret
  <1> HIDE DEF result
  <1>4. Found(result, SourceOf(source))
    BY <1>1, <1>2, <1>3, SecretOfSource DEF IsSetting
  <1> QED
    BY <1>1, <1>2, <1>4

\* A key, from its source or else from its variables.
LEMMA KeyMeant ==
  ASSUME NEW environment, IsEnvironment(environment),
         NEW provider \in KeyedProviders \cup {"ollama"},
         NEW block, IsBlock(provider, block),
         NEW key, key.ok,
         key = ResolveOptionalSecret(block.api_key, KeyVariables[provider],
                                     environment)
  PROVE  Meant(provider, block, environment, key.it)
  <1>1. /\ DOMAIN block = {"api_key", "base_url"} /\ IsSetting(block.api_key)
        /\ Preference(provider) = KeyVariables[provider]
        /\ DOMAIN KeyVariables[provider] \subseteq Nat
        /\ ~ChosenOAuth(block)
    BY DEF IsBlock, Preference, KeyVariables, KeyedProviders, ChosenOAuth
  <1>2. ConfiguredSources(block) = {block.api_key} \ {None}
    BY <1>1, SourcesOfKeys
  <1>3. CASE block.api_key # None
    <2>1. key = ResolveExplicitSecret(block.api_key, environment)
      BY <1>3 DEF ResolveOptionalSecret
    <2>2. Found(key, SourceOf(block.api_key))
      BY <1>1, <1>3, <2>1, SecretOfSource DEF IsSetting
    <2> QED
      BY <1>2, <1>3, <2>2, MeantBySource
  <1>4. CASE block.api_key = None
    <2> DEFINE names == KeyVariables[provider]
               set == SetIn(names, environment)
    <2>1. IF set = {} THEN key = Ok(None) ELSE Found(key, names[Min(set)])
      BY <1>1, <1>4, SecretOfVariables DEF SetIn
    <2>2. ConfiguredSources(block) = {} /\ provider # "azure"
      BY <1>2, <1>4 DEF KeyedProviders
    <2>3. CASE set = {}
      <3>1. key.it = None
        BY <2>1, <2>3 DEF Ok
      <3> QED
        BY <1>1, <2>2, <2>3, <3>1, MeantByNone
    <2>4. CASE set # {}
      BY <1>1, <2>1, <2>2, <2>4, MeantByVariable
    <2> QED
      BY <2>3, <2>4
  <1> QED
    BY <1>3, <1>4

LEMMA KeyedMeant ==
  ASSUME NEW environment, IsEnvironment(environment),
         NEW provider \in KeyedProviders,
         NEW block, IsBlock(provider, block),
         BuildKeyed(provider, block, environment).ok
  PROVE  Meant(provider, block, environment,
               BuildKeyed(provider, block, environment).it.auth.secret)
  <1> DEFINE key == ResolveRequiredSecret(block.api_key,
                                          KeyVariables[provider], environment)
             base == BaseUrl(provider, block, environment)
             client == Client(ApiKey(key), base)
             results == <<key, base>>
  <1>1. BuildKeyed(provider, block, environment) = InOrder(results, client)
    BY DEF BuildKeyed
  <1>2. DOMAIN results = 1..2 /\ 1 \in 1..2 /\ results[1] = key
    OBVIOUS
  <1>3. client.auth.secret = key.it
    BY DEF Client, ApiKey
  <1> HIDE DEF results, client, key
  <1>4. /\ (\A k \in 1..2 : results[k].ok) =>
             InOrder(results, client) = Ok(client)
        /\ InOrder(results, client).ok => \A k \in 1..2 : results[k].ok
    BY <1>2, InOrderSucceeds
  <1>5. key.ok /\ BuildKeyed(provider, block, environment).it = client
    BY <1>1, <1>2, <1>4 DEF Ok
  <1>6. Meant(provider, block, environment, key.it)
    BY <1>5, RequiredSecret, KeyMeant DEF key
  <1> QED
    BY <1>3, <1>5, <1>6

LEMMA OllamaMeant ==
  ASSUME NEW environment, IsEnvironment(environment),
         NEW block, IsBlock("ollama", block),
         BuildOllama(block, environment).ok
  PROVE  Meant("ollama", block, environment,
               BuildOllama(block, environment).it.auth.secret)
  <1> DEFINE key == ResolveOptionalSecret(block.api_key,
                                          KeyVariables["ollama"], environment)
             base == BaseUrl("ollama", block, environment)
             client == Client(IF IsNone(key) THEN NoAuth ELSE ApiKey(key), base)
             results == <<key, base>>
  <1>1. BuildOllama(block, environment) = InOrder(results, client)
    BY DEF BuildOllama
  <1>2. DOMAIN results = 1..2 /\ 1 \in 1..2 /\ results[1] = key
    OBVIOUS
  <1>3. client.auth.secret = key.it
    BY DEF Client, ApiKey, NoAuth, IsNone
  <1> HIDE DEF results, client, key
  <1>4. /\ (\A k \in 1..2 : results[k].ok) =>
             InOrder(results, client) = Ok(client)
        /\ InOrder(results, client).ok => \A k \in 1..2 : results[k].ok
    BY <1>2, InOrderSucceeds
  <1>5. key.ok /\ BuildOllama(block, environment).it = client
    BY <1>1, <1>2, <1>4 DEF Ok
  <1>6. Meant("ollama", block, environment, key.it)
    BY <1>5, KeyMeant DEF key
  <1> QED
    BY <1>3, <1>5, <1>6

LEMMA LlamafileMeant ==
  ASSUME NEW environment, NEW block, IsBlock("llamafile", block),
         BuildLlamafile(block, environment).ok
  PROVE  Meant("llamafile", block, environment,
               BuildLlamafile(block, environment).it.auth.secret)
  <1> DEFINE base == CheckedUrl(ResolveRequiredValue(block.base_url,
                               BaseVariables["llamafile"], environment))
             client == Client(NoAuth, base)
             results == <<base>>
  <1>1. BuildLlamafile(block, environment) = InOrder(results, client)
    BY DEF BuildLlamafile
  <1>2. DOMAIN results = 1..1
    OBVIOUS
  <1>3. client.auth.secret = None
    BY DEF Client, NoAuth
  <1> HIDE DEF results, client
  <1>4. /\ (\A k \in 1..1 : results[k].ok) =>
             InOrder(results, client) = Ok(client)
        /\ InOrder(results, client).ok => \A k \in 1..1 : results[k].ok
    BY <1>2, InOrderSucceeds
  <1>5. BuildLlamafile(block, environment).it = client
    BY <1>1, <1>4 DEF Ok
  <1>6. DOMAIN block = {"base_url"}
    BY DEF IsBlock
  <1>7. ConfiguredSources(block) = {}
    BY <1>6, SourcesOfKeys
  <1>8. SetIn(Preference("llamafile"), environment) = {}
    BY DEF SetIn, Preference, KeyVariables
  <1> QED
    BY <1>3, <1>5, <1>7, <1>8, MeantByNone

\* The one variable a secret may come from.
LEMMA OneVariable ==
  ASSUME NEW environment, IsEnvironment(environment), NEW name
  PROVE  LET result == ResolveOptionalSecret(None, <<name>>, environment)
         IN  IF name \in DOMAIN environment
             THEN result.ok => Found(result, name)
             ELSE result = Ok(None)
  <1> DEFINE names == <<name>>
             set == SetIn(names, environment)
             result == ResolveOptionalSecret(None, names, environment)
  <1>1. /\ DOMAIN names = {1} /\ names[1] = name
        /\ \A n : n \in set <=> n = 1 /\ name \in DOMAIN environment
    BY DEF SetIn
  <1>2. set \subseteq Nat /\ DOMAIN names \subseteq Nat
    BY <1>1
  <1>3. IF set = {} THEN result = Ok(None)
        ELSE result.ok => Found(result, names[Min(set)])
    BY <1>2, SecretOfVariables DEF SetIn
  <1>4. CASE name \in DOMAIN environment
    <2> HIDE DEF set, result
    <2>1. set # {}
      BY <1>1, <1>4
    <2>2. Min(set) \in set
      BY <1>2, <2>1, MinIsThere
    <2>3. names[Min(set)] = name
      BY <1>1, <2>2
    <2>4. result.ok => Found(result, name)
      BY <1>3, <2>1, <2>3
    <2> QED
      BY <1>4, <2>4 DEF result
  <1>5. CASE name \notin DOMAIN environment
    <2>1. set = {}
      <3> HIDE DEF set
      <3> QED
        BY <1>1, <1>5
    <2> QED
      BY <1>3, <1>5, <2>1
  <1> QED
    BY <1>4, <1>5

LEMMA AzureMeant ==
  ASSUME NEW environment, IsEnvironment(environment),
         NEW block, IsBlock("azure", block), BuildAzure(block, environment).ok
  PROVE  Meant("azure", block, environment,
               BuildAzure(block, environment).it.auth.secret)
  <1> DEFINE secrets == AzureSecrets(block, environment)
             key == secrets[1]
             token == secrets[2]
             auth == IF IsSome(key) /\ IsNone(token) THEN Ok(ApiKey(key))
                     ELSE IF IsNone(key) /\ IsSome(token)
                     THEN Ok(AccessToken(token))
                     ELSE Fail("ConflictingValues")
             endpoint == CheckedUrl(ResolveRequiredValue(
                           block.endpoint, <<"AZURE_ENDPOINT">>, environment))
             version == ResolveRequiredValue(
                          block.api_version, <<"AZURE_API_VERSION">>, environment)
             client == Client(auth.it, endpoint)
             results == <<key, token, auth, endpoint, version>>
  <1>1. BuildAzure(block, environment) = InOrder(results, client)
    BY DEF BuildAzure
  <1>2. /\ DOMAIN results = 1..5 /\ {1, 2, 3} \subseteq 1..5
        /\ results[1] = key /\ results[2] = token /\ results[3] = auth
    OBVIOUS
  <1>3. client.auth.secret = auth.it.secret
    BY DEF Client
  <1> HIDE DEF results, client
  <1>4. /\ (\A k \in 1..5 : results[k].ok) =>
             InOrder(results, client) = Ok(client)
        /\ InOrder(results, client).ok => \A k \in 1..5 : results[k].ok
    BY <1>2, InOrderSucceeds
  <1>5. BuildAzure(block, environment).it = client
    BY <1>1, <1>4 DEF Ok
  <1>6. results[1].ok /\ results[2].ok /\ results[3].ok
    BY <1>1, <1>2, <1>4
  <1>7. key.ok /\ token.ok /\ auth.ok
    <2> HIDE DEF key, token, auth
    <2> QED
      BY <1>2, <1>6
  <1>8. \/ IsSome(key) /\ IsNone(token) /\ auth.it.secret = key.it
        \/ IsNone(key) /\ IsSome(token) /\ auth.it.secret = token.it
    <2> HIDE DEF key, token
    <2> QED
      BY <1>7 DEF Ok, Fail, ApiKey, AccessToken
  <1>9. /\ DOMAIN block = {"api_key", "token", "endpoint", "api_version"}
        /\ IsSetting(block.api_key) /\ IsSetting(block.token)
    BY DEF IsBlock
  <1>10. ConfiguredSources(block) = {block.api_key, block.token} \ {None}
    BY <1>9, SourcesOfKeys
  <1>11. ~ChosenOAuth(block)
    BY <1>9 DEF ChosenOAuth
  <1> HIDE DEF auth
  <1>12. CASE block.api_key # None /\ block.token # None
    <2>1. key = Ok(None) /\ token = Ok(None)
      BY <1>12 DEF AzureSecrets
    <2> QED
      BY <1>8, <2>1 DEF IsSome, Ok
  <1>13. CASE block.api_key # None /\ block.token = None
    <2>1. /\ key = ResolveRequiredSecret(block.api_key, <<>>, environment)
          /\ token = Ok(None)
      BY <1>13 DEF AzureSecrets
    <2> HIDE DEF key, token
    <2>2. auth.it.secret = key.it
      BY <1>8, <2>1 DEF IsSome, Ok
    <2>3. Found(key, SourceOf(block.api_key))
      BY <1>7, <1>9, <2>1, SourceRequired
    <2>4. ConfiguredSources(block) = {block.api_key}
      BY <1>10, <1>13
    <2> QED
      BY <1>3, <1>5, <2>2, <2>3, <2>4, MeantBySource
  <1>14. CASE block.api_key = None /\ block.token # None
    <2>1. /\ token = ResolveRequiredSecret(block.token, <<>>, environment)
          /\ key = Ok(None)
      BY <1>14 DEF AzureSecrets
    <2> HIDE DEF key, token
    <2>2. auth.it.secret = token.it
      BY <1>8, <2>1 DEF IsSome, Ok
    <2>3. Found(token, SourceOf(block.token))
      BY <1>7, <1>9, <2>1, SourceRequired
    <2>4. ConfiguredSources(block) = {block.token}
      BY <1>10, <1>14
    <2> QED
      BY <1>3, <1>5, <2>2, <2>3, <2>4, MeantBySource
  <1>15. CASE block.api_key = None /\ block.token = None
    <2>1. /\ key = ResolveOptionalSecret(None, <<"AZURE_API_KEY">>, environment)
          /\ token = ResolveOptionalSecret(None, <<"AZURE_TOKEN">>, environment)
      BY <1>15 DEF AzureSecrets
    <2> HIDE DEF key, token
    <2> DEFINE names == Preference("azure")
               set == SetIn(names, environment)
    <2>2. /\ IF "AZURE_API_KEY" \in DOMAIN environment
             THEN Found(key, "AZURE_API_KEY") ELSE key = Ok(None)
          /\ IF "AZURE_TOKEN" \in DOMAIN environment
             THEN Found(token, "AZURE_TOKEN") ELSE token = Ok(None)
      BY <1>7, <2>1, OneVariable
    <2>3. /\ IsSome(key) <=> "AZURE_API_KEY" \in DOMAIN environment
          /\ IsNone(key) <=> "AZURE_API_KEY" \notin DOMAIN environment
          /\ IsSome(token) <=> "AZURE_TOKEN" \in DOMAIN environment
          /\ IsNone(token) <=> "AZURE_TOKEN" \notin DOMAIN environment
      BY <2>2 DEF Found, IsSome, IsNone, Ok
    <2>4. names = <<"AZURE_API_KEY", "AZURE_TOKEN">>
      BY DEF Preference, KeyVariables
    <2>5. ConfiguredSources(block) = {}
      BY <1>10, <1>15
    <2>6. \A n : n \in set <=>
                   \/ n = 1 /\ "AZURE_API_KEY" \in DOMAIN environment
                   \/ n = 2 /\ "AZURE_TOKEN" \in DOMAIN environment
      BY <2>4 DEF SetIn
    <2> HIDE DEF set
    <2>7. CASE IsSome(key) /\ IsNone(token) /\ auth.it.secret = key.it
      <3>1. set = {1}
        BY <2>3, <2>6, <2>7
      <3>2. Min(set) = 1 /\ Cardinality(set) = 1
        <4>1. set \subseteq Nat /\ set # {}
          BY <3>1
        <4>2. Min(set) \in set
          BY <4>1, MinIsThere
        <4>3. Cardinality(set) = 1
          BY <3>1, FS_Singleton
        <4> QED
          BY <3>1, <4>2, <4>3
      <3>3. Found(key, names[Min(set)])
        BY <2>2, <2>3, <2>4, <2>7, <3>2
      <3> QED
        BY <1>3, <1>5, <1>11, <2>5, <2>7, <3>1, <3>2, <3>3, MeantByVariable
           DEF set
    <2>8. CASE IsNone(key) /\ IsSome(token) /\ auth.it.secret = token.it
      <3>1. set = {2}
        BY <2>3, <2>6, <2>8
      <3>2. Min(set) = 2 /\ Cardinality(set) = 1
        <4>1. set \subseteq Nat /\ set # {}
          BY <3>1
        <4>2. Min(set) \in set
          BY <4>1, MinIsThere
        <4>3. Cardinality(set) = 1
          BY <3>1, FS_Singleton
        <4> QED
          BY <3>1, <4>2, <4>3
      <3>3. Found(token, names[Min(set)])
        BY <2>2, <2>3, <2>4, <2>8, <3>2
      <3> QED
        BY <1>3, <1>5, <1>11, <2>5, <2>8, <3>1, <3>2, <3>3, MeantByVariable
           DEF set
    <2> QED
      BY <1>8, <2>7, <2>8
  <1> QED
    BY <1>12, <1>13, <1>14, <1>15

LEMMA TokenSucceeds ==
  ASSUME NEW secret, NEW account, NEW environment,
         ChatGptToken(secret, account, environment).ok
  PROVE  /\ secret.ok
         /\ ChatGptToken(secret, account, environment).it.secret = secret.it
  <1> DEFINE id == ResolveOptionalValue(account, <<"CHATGPT_ACCOUNT_ID">>,
                                        environment)
             auth == AccessToken(secret)
             results == <<secret, id>>
  <1>1. ChatGptToken(secret, account, environment) = InOrder(results, auth)
    BY DEF ChatGptToken
  <1>2. DOMAIN results = 1..2 /\ 1 \in 1..2 /\ results[1] = secret
    OBVIOUS
  <1>3. auth.secret = secret.it
    BY DEF AccessToken
  <1> HIDE DEF results, auth
  <1>4. /\ (\A k \in 1..2 : results[k].ok) => InOrder(results, auth) = Ok(auth)
        /\ InOrder(results, auth).ok => \A k \in 1..2 : results[k].ok
    BY <1>2, InOrderSucceeds
  <1> QED
    BY <1>1, <1>2, <1>3, <1>4 DEF Ok

\* OAuth, or an auth with its secret.
LEMMA AuthSources ==
  ASSUME NEW provider \in {"chatgpt", "copilot"},
         NEW block, IsBlock(provider, block)
  PROVE  /\ block.auth = None =>
              ConfiguredSources(block) = {} /\ ~ChosenOAuth(block)
         /\ block.auth # None /\ block.auth.type = "oauth" =>
              ConfiguredSources(block) = {} /\ ChosenOAuth(block)
         /\ block.auth # None /\ block.auth.type # "oauth" =>
              /\ IsSecretSource(block.auth.secret)
              /\ block.auth.secret # None =>
                   ConfiguredSources(block) = {block.auth.secret}
  <1>1. /\ DOMAIN block = {"base_url", "auth"}
        /\ \/ block.auth = None
           \/ block.auth.type = "oauth" /\ "secret" \notin DOMAIN block.auth
           \/ /\ block.auth.type # "oauth"
              /\ "secret" \in DOMAIN block.auth
              /\ IsSecretSource(block.auth.secret)
    BY DEF IsBlock
  <1> QED
    BY <1>1, SourcesOfAuth DEF ChosenOAuth

LEMMA ChatGptAuthMeant ==
  ASSUME NEW environment, IsEnvironment(environment),
         NEW block, IsBlock("chatgpt", block),
         ChatGptAuth(block, environment).ok
  PROVE  Meant("chatgpt", block, environment,
               ChatGptAuth(block, environment).it.secret)
  <1> DEFINE auth == ChatGptAuth(block, environment)
             found == ResolveOptionalSecret(None, <<"CHATGPT_ACCESS_TOKEN">>,
                                            environment)
             given == ResolveRequiredSecret(block.auth.secret, <<>>, environment)
  <1>1. auth = IF block.auth = None
               THEN IF IsNone(found) THEN Ok(OAuth)
                    ELSE ChatGptToken(found, None, environment)
               ELSE IF block.auth.type = "oauth" THEN Ok(OAuth)
               ELSE ChatGptToken(given, block.auth.account_id, environment)
    BY DEF ChatGptAuth
  <1>2. Ok(OAuth).it.secret = None
    BY DEF Ok, OAuth
  <1>3. CASE block.auth = None
    <2> DEFINE names == Preference("chatgpt")
               set == SetIn(names, environment)
    <2>1. names = <<"CHATGPT_ACCESS_TOKEN">>
      BY DEF Preference, KeyVariables
    <2>2. \A n : n \in set <=>
                   n = 1 /\ "CHATGPT_ACCESS_TOKEN" \in DOMAIN environment
      BY <2>1 DEF SetIn
    <2>3. IF "CHATGPT_ACCESS_TOKEN" \in DOMAIN environment
          THEN found.ok => Found(found, "CHATGPT_ACCESS_TOKEN")
          ELSE found = Ok(None)
      BY OneVariable
    <2>4. ConfiguredSources(block) = {} /\ ~ChosenOAuth(block)
      BY <1>3, AuthSources
    <2> HIDE DEF found, set, names, auth
    <2>5. CASE IsNone(found)
      <3>1. "CHATGPT_ACCESS_TOKEN" \notin DOMAIN environment
        BY <2>3, <2>5 DEF IsNone, Found
      <3>2. set = {}
        BY <2>2, <3>1
      <3>3. auth.it.secret = None
        BY <1>1, <1>2, <1>3, <2>5
      <3> QED
        BY <2>4, <3>2, <3>3, MeantByNone DEF set, names, auth
    <2>6. CASE ~IsNone(found)
      <3>1. found.ok /\ auth.it.secret = found.it
        BY <1>1, <1>3, <2>6, TokenSucceeds DEF auth
      <3>2. "CHATGPT_ACCESS_TOKEN" \in DOMAIN environment
        BY <2>3, <2>6 DEF IsNone, Ok
      <3>3. set \subseteq Nat /\ set # {}
        BY <2>2, <3>2
      <3>4. Min(set) \in set
        BY <3>3, MinIsThere
      <3>5. Found(found, names[Min(set)])
        BY <2>1, <2>2, <2>3, <3>1, <3>2, <3>4
      <3> QED
        BY <2>4, <3>1, <3>3, <3>5, MeantByVariable DEF set, names, auth
    <2> QED
      BY <2>5, <2>6
  <1>4. CASE block.auth # None /\ block.auth.type = "oauth"
    <2>1. auth.it.secret = None
      BY <1>1, <1>2, <1>4
    <2> QED
      BY <1>4, <2>1, AuthSources, MeantByNone
  <1>5. CASE block.auth # None /\ block.auth.type # "oauth"
    <2>1. given.ok /\ auth.it.secret = given.it
      BY <1>1, <1>5, TokenSucceeds
    <2>2. IsSetting(block.auth.secret)
      BY <1>5, AuthSources DEF IsSetting
    <2>3. block.auth.secret # None /\ Found(given, SourceOf(block.auth.secret))
      BY <2>1, <2>2, SourceRequired
    <2>4. ConfiguredSources(block) = {block.auth.secret}
      BY <1>5, <2>3, AuthSources
    <2> QED
      BY <2>1, <2>3, <2>4, MeantBySource
  <1> QED
    BY <1>3, <1>4, <1>5

\* The secret of a client is that of the auth it was built with.
LEMMA ClientOf ==
  ASSUME NEW base, NEW auth, InOrder(<<base, auth>>, Client(auth.it, base)).ok
  PROVE  /\ auth.ok
         /\ InOrder(<<base, auth>>, Client(auth.it, base)).it.auth = auth.it
  <1> DEFINE client == Client(auth.it, base)
             results == <<base, auth>>
  <1>1. DOMAIN results = 1..2 /\ 2 \in 1..2 /\ results[2] = auth
    OBVIOUS
  <1>2. client.auth = auth.it
    BY DEF Client
  <1> HIDE DEF results, client
  <1>3. /\ (\A k \in 1..2 : results[k].ok) =>
             InOrder(results, client) = Ok(client)
        /\ InOrder(results, client).ok => \A k \in 1..2 : results[k].ok
    BY <1>1, InOrderSucceeds
  <1>4. InOrder(results, client).ok
    BY DEF results, client
  <1>5. auth.ok /\ InOrder(results, client).it.auth = auth.it
    BY <1>1, <1>2, <1>3, <1>4 DEF Ok
  <1> QED
    BY <1>5 DEF results, client

LEMMA ChatGptMeant ==
  ASSUME NEW environment, IsEnvironment(environment),
         NEW block, IsBlock("chatgpt", block),
         BuildChatGpt(block, environment).ok
  PROVE  Meant("chatgpt", block, environment,
               BuildChatGpt(block, environment).it.auth.secret)
  <1> DEFINE base == BaseUrl("chatgpt", block, environment)
             auth == ChatGptAuth(block, environment)
  <1>1. BuildChatGpt(block, environment) =
          InOrder(<<base, auth>>, Client(auth.it, base))
    BY DEF BuildChatGpt
  <1> HIDE DEF base, auth
  <1>2. auth.ok /\ BuildChatGpt(block, environment).it.auth = auth.it
    BY <1>1, ClientOf
  <1> QED
    BY <1>2, ChatGptAuthMeant DEF auth

\* One result, as a failure or as what comes of it.
LEMMA OneInOrder ==
  ASSUME NEW result, NEW it, InOrder(<<result>>, it).ok
  PROVE  result.ok /\ InOrder(<<result>>, it) = Ok(it)
  <1> DEFINE results == <<result>>
  <1>1. DOMAIN results = 1..1 /\ 1 \in 1..1 /\ results[1] = result
    OBVIOUS
  <1> HIDE DEF results
  <1>2. /\ (\A k \in 1..1 : results[k].ok) => InOrder(results, it) = Ok(it)
        /\ InOrder(results, it).ok => \A k \in 1..1 : results[k].ok
    BY <1>1, InOrderSucceeds
  <1>3. InOrder(results, it).ok
    BY DEF results
  <1>4. result.ok /\ InOrder(results, it) = Ok(it)
    BY <1>1, <1>2, <1>3
  <1> QED
    BY <1>4 DEF results

\* Two variables, the first of which goes before the second.
LEMMA TwoVariables ==
  ASSUME NEW environment, IsEnvironment(environment), NEW first, NEW second
  PROVE  LET result == ResolveOptionalSecret(None, <<first, second>>, environment)
         IN  IF first \in DOMAIN environment
             THEN result.ok => Found(result, first)
             ELSE IF second \in DOMAIN environment
             THEN result.ok => Found(result, second)
             ELSE result = Ok(None)
  <1> DEFINE names == <<first, second>>
             set == SetIn(names, environment)
             result == ResolveOptionalSecret(None, names, environment)
  <1>1. /\ DOMAIN names = {1, 2} /\ names[1] = first /\ names[2] = second
        /\ \A n : n \in set <=> \/ n = 1 /\ first \in DOMAIN environment
                                \/ n = 2 /\ second \in DOMAIN environment
    BY DEF SetIn
  <1>2. set \subseteq Nat /\ DOMAIN names \subseteq Nat
    BY <1>1
  <1>3. IF set = {} THEN result = Ok(None)
        ELSE result.ok => Found(result, names[Min(set)])
    BY <1>2, SecretOfVariables DEF SetIn
  <1> HIDE DEF set, result, names
  <1>4. set # {} => Min(set) \in set /\ \A n \in set : Min(set) <= n
    BY <1>2, MinIsThere
  <1>5. CASE first \in DOMAIN environment
    <2>1. 1 \in set
      BY <1>1, <1>5
    <2>2. Min(set) = 1
      BY <1>1, <1>4, <2>1
    <2>3. result.ok => Found(result, first)
      BY <1>1, <1>3, <2>1, <2>2
    <2> QED
      BY <1>5, <2>3 DEF result, names
  <1>6. CASE first \notin DOMAIN environment /\ second \in DOMAIN environment
    <2>1. 2 \in set
      BY <1>1, <1>6
    <2>2. Min(set) = 2
      BY <1>1, <1>4, <1>6, <2>1
    <2>3. result.ok => Found(result, second)
      BY <1>1, <1>3, <2>1, <2>2
    <2> QED
      BY <1>6, <2>3 DEF result, names
  <1>7. CASE first \notin DOMAIN environment /\ second \notin DOMAIN environment
    <2>1. set = {}
      BY <1>1, <1>7
    <2>2. result = Ok(None)
      BY <1>3, <2>1
    <2> QED
      BY <1>7, <2>2 DEF result, names
  <1> QED
    BY <1>5, <1>6, <1>7

\* Variables in order of preference, in two pairs.
LEMMA TwoAndTwo ==
  ASSUME NEW a, NEW b, NEW c, NEW d
  PROVE  LET both == <<a, b>> \o <<c, d>>
         IN  /\ DOMAIN both = {1, 2, 3, 4}
             /\ both[1] = a /\ both[2] = b /\ both[3] = c /\ both[4] = d
  <1> DEFINE s == <<a, b>>
             t == <<c, d>>
             S == {a, b, c, d}
  <1>1. /\ s \in Seq(S) /\ Len(s) = 2 /\ s[1] = a /\ s[2] = b
        /\ t \in Seq(S) /\ Len(t) = 2 /\ t[1] = c /\ t[2] = d
    OBVIOUS
  <1> HIDE DEF s, t, S
  <1>2. /\ s \o t \in Seq(S) /\ Len(s \o t) = Len(s) + Len(t)
        /\ \A n \in 1..(Len(s) + Len(t)) :
             (s \o t)[n] = IF n <= Len(s) THEN s[n] ELSE t[n - Len(s)]
    BY <1>1, ConcatProperties
  <1>3. DOMAIN (s \o t) = 1..4 /\ 1..4 = {1, 2, 3, 4}
    BY <1>1, <1>2
  <1>4. /\ (s \o t)[1] = a /\ (s \o t)[2] = b
        /\ (s \o t)[3] = c /\ (s \o t)[4] = d
    BY <1>1, <1>2
  <1> QED
    BY <1>3, <1>4 DEF s, t

LEMMA CopilotAuthMeant ==
  ASSUME NEW environment, IsEnvironment(environment),
         NEW block, IsBlock("copilot", block),
         CopilotAuth(block, environment).ok
  PROVE  Meant("copilot", block, environment,
               CopilotAuth(block, environment).it.secret)
  <1> DEFINE auth == CopilotAuth(block, environment)
             key == ResolveOptionalSecret(None, CopilotKeys, environment)
             token == ResolveOptionalSecret(None, CopilotTokens, environment)
             given == ResolveRequiredSecret(block.auth.secret, <<>>, environment)
  <1>1. auth = IF block.auth = None
               THEN IF ~IsNone(key) THEN InOrder(<<key>>, ApiKey(key))
                    ELSE IF ~IsNone(token)
                    THEN InOrder(<<token>>, AccessToken(token))
                    ELSE Ok(OAuth)
               ELSE IF block.auth.type = "oauth" THEN Ok(OAuth)
               ELSE InOrder(<<given>>,
                            IF block.auth.type = "api_key" THEN ApiKey(given)
                            ELSE AccessToken(given))
    BY DEF CopilotAuth
  <1>2. Ok(OAuth).it.secret = None
    BY DEF Ok, OAuth
  <1>3. CASE block.auth = None
    <2> DEFINE names == Preference("copilot")
               set == SetIn(names, environment)
               IsSet(name) == name \in DOMAIN environment
    <2>1. /\ DOMAIN names = {1, 2, 3, 4}
          /\ names[1] = "GITHUB_COPILOT_API_KEY"
          /\ names[2] = "COPILOT_API_KEY"
          /\ names[3] = "COPILOT_GITHUB_ACCESS_TOKEN"
          /\ names[4] = "GITHUB_TOKEN"
      <3>1. names = CopilotKeys \o CopilotTokens
        BY DEF Preference, KeyVariables
      <3> QED
        BY <3>1, TwoAndTwo DEF CopilotKeys, CopilotTokens
    <2>2. \A n : n \in set <=>
                   \/ n = 1 /\ IsSet("GITHUB_COPILOT_API_KEY")
                   \/ n = 2 /\ IsSet("COPILOT_API_KEY")
                   \/ n = 3 /\ IsSet("COPILOT_GITHUB_ACCESS_TOKEN")
                   \/ n = 4 /\ IsSet("GITHUB_TOKEN")
      BY <2>1 DEF SetIn
    <2>3. IF IsSet("GITHUB_COPILOT_API_KEY")
          THEN key.ok => Found(key, "GITHUB_COPILOT_API_KEY")
          ELSE IF IsSet("COPILOT_API_KEY")
          THEN key.ok => Found(key, "COPILOT_API_KEY")
          ELSE key = Ok(None)
      BY TwoVariables DEF CopilotKeys
    <2>4. IF IsSet("COPILOT_GITHUB_ACCESS_TOKEN")
          THEN token.ok => Found(token, "COPILOT_GITHUB_ACCESS_TOKEN")
          ELSE IF IsSet("GITHUB_TOKEN")
          THEN token.ok => Found(token, "GITHUB_TOKEN")
          ELSE token = Ok(None)
      BY TwoVariables DEF CopilotTokens
    <2>5. ConfiguredSources(block) = {} /\ ~ChosenOAuth(block)
      BY <1>3, AuthSources
    <2> HIDE DEF key, token, set, names, auth, IsSet
    <2>6. IsNone(key) <=> /\ ~IsSet("GITHUB_COPILOT_API_KEY")
                          /\ ~IsSet("COPILOT_API_KEY")
      BY <2>3 DEF IsNone, Found, Ok
    <2>7. IsNone(token) <=> /\ ~IsSet("COPILOT_GITHUB_ACCESS_TOKEN")
                            /\ ~IsSet("GITHUB_TOKEN")
      BY <2>4 DEF IsNone, Found, Ok
    <2>8. set # {} => Min(set) \in set /\ \A n \in set : Min(set) <= n
      <3>1. set \subseteq Nat
        BY <2>2
      <3> QED
        BY <3>1, MinIsThere
    <2>9. CASE ~IsNone(key)
      <3>1. key.ok /\ auth.it.secret = key.it
        <4>1. auth = InOrder(<<key>>, ApiKey(key))
          BY <1>1, <1>3, <2>9
        <4>2. key.ok /\ auth = Ok(ApiKey(key))
          BY <4>1, OneInOrder DEF auth
        <4> QED
          BY <4>2 DEF Ok, ApiKey
      <3>2. Min(set) = IF IsSet("GITHUB_COPILOT_API_KEY") THEN 1 ELSE 2
        BY <2>2, <2>6, <2>8, <2>9
      <3>3. set # {} /\ Found(key, names[Min(set)])
        BY <2>1, <2>2, <2>3, <2>6, <2>9, <3>1, <3>2
      <3> QED
        BY <2>5, <3>1, <3>3, MeantByVariable DEF set, names, auth
    <2>10. CASE IsNone(key) /\ ~IsNone(token)
      <3>1. token.ok /\ auth.it.secret = token.it
        <4>1. auth = InOrder(<<token>>, AccessToken(token))
          BY <1>1, <1>3, <2>10
        <4>2. token.ok /\ auth = Ok(AccessToken(token))
          BY <4>1, OneInOrder DEF auth
        <4> QED
          BY <4>2 DEF Ok, AccessToken
      <3>2. Min(set) = IF IsSet("COPILOT_GITHUB_ACCESS_TOKEN") THEN 3 ELSE 4
        BY <2>2, <2>6, <2>7, <2>8, <2>10
      <3>3. set # {} /\ Found(token, names[Min(set)])
        BY <2>1, <2>2, <2>4, <2>7, <2>10, <3>1, <3>2
      <3> QED
        BY <2>5, <3>1, <3>3, MeantByVariable DEF set, names, auth
    <2>11. CASE IsNone(key) /\ IsNone(token)
      <3>1. auth.it.secret = None
        BY <1>1, <1>2, <1>3, <2>11
      <3>2. set = {}
        BY <2>2, <2>6, <2>7, <2>11
      <3> QED
        BY <2>5, <3>1, <3>2, MeantByNone DEF set, names, auth
    <2> QED
      BY <2>9, <2>10, <2>11
  <1>4. CASE block.auth # None /\ block.auth.type = "oauth"
    <2>1. auth.it.secret = None
      BY <1>1, <1>2, <1>4
    <2> QED
      BY <1>4, <2>1, AuthSources, MeantByNone
  <1>5. CASE block.auth # None /\ block.auth.type # "oauth"
    <2>1. given.ok /\ auth.it.secret = given.it
      <3> DEFINE it == IF block.auth.type = "api_key" THEN ApiKey(given)
                       ELSE AccessToken(given)
      <3>1. it.secret = given.it
        BY DEF ApiKey, AccessToken
      <3>2. auth = InOrder(<<given>>, it)
        BY <1>1, <1>5
      <3>3. auth.ok
        OBVIOUS
      <3> HIDE DEF it, given, auth
      <3>4. given.ok /\ auth = Ok(it)
        BY <3>2, <3>3, OneInOrder
      <3> QED
        BY <3>1, <3>4 DEF Ok
    <2>2. IsSetting(block.auth.secret)
      BY <1>5, AuthSources DEF IsSetting
    <2>3. block.auth.secret # None /\ Found(given, SourceOf(block.auth.secret))
      BY <2>1, <2>2, SourceRequired
    <2>4. ConfiguredSources(block) = {block.auth.secret}
      BY <1>5, <2>3, AuthSources
    <2> QED
      BY <2>1, <2>3, <2>4, MeantBySource
  <1> QED
    BY <1>3, <1>4, <1>5

LEMMA CopilotMeant ==
  ASSUME NEW environment, IsEnvironment(environment),
         NEW block, IsBlock("copilot", block),
         BuildCopilot(block, environment).ok
  PROVE  Meant("copilot", block, environment,
               BuildCopilot(block, environment).it.auth.secret)
  <1> DEFINE base == BaseUrl("copilot", block, environment)
             auth == CopilotAuth(block, environment)
  <1>1. BuildCopilot(block, environment) =
          InOrder(<<base, auth>>, Client(auth.it, base))
    BY DEF BuildCopilot
  <1> HIDE DEF base, auth
  <1>2. auth.ok /\ BuildCopilot(block, environment).it.auth = auth.it
    BY <1>1, ClientOf
  <1> QED
    BY <1>2, CopilotAuthMeant DEF auth

\* Whatever client is built, it proves itself with the secret that was meant
\* (build_client, src/model/registry.rs:282).
LEMMA ClientMeant ==
  ASSUME NEW environment, IsEnvironment(environment),
         NEW provider \in Range(ProviderNames),
         NEW block, IsBlock(provider, block),
         BuildClient(provider, block, environment).ok
  PROVE  Meant(provider, block, environment,
               BuildClient(provider, block, environment).it.auth.secret)
  <1>1. provider \in KeyedProviders \cup {"ollama", "llamafile", "azure",
                                          "chatgpt", "copilot"}
    BY DEF Range, ProviderNames, KeyedProviders
  <1>2. BuildClient(provider, block, environment) =
          IF provider \in KeyedProviders
          THEN BuildKeyed(provider, block, environment)
          ELSE IF provider = "ollama" THEN BuildOllama(block, environment)
          ELSE IF provider = "llamafile" THEN BuildLlamafile(block, environment)
          ELSE IF provider = "azure" THEN BuildAzure(block, environment)
          ELSE IF provider = "chatgpt" THEN BuildChatGpt(block, environment)
          ELSE BuildCopilot(block, environment)
    BY <1>1 DEF BuildClient, KeyedProviders
  <1> QED
    BY <1>1, <1>2, KeyedMeant, OllamaMeant, LlamafileMeant, AzureMeant,
       ChatGptMeant, CopilotMeant DEF KeyedProviders


(***************************************************************************)
(* The start.                                                              *)
(***************************************************************************)

\* The providers that are to have a client.
Wanted == DOMAIN Blocks \union {spec.provider : spec \in Range(Specs)}

Built(provider) == BuildClient(provider, BlockOf(provider), settings.environment)

Connecting == {"referenced", "models", "agent", "signals", "bind", "serving"}
Logging == {"configured"} \union Connecting
Loaded == {"log"} \union Logging

\* Each check that has been passed, and what it rests on still.
Checks ==
  /\ settings \in Settings /\ root \in Roots
  /\ at \in {"home", "load", "ended"} \union Loaded
  /\ moved \/ root = settings.root
  /\ at \in Loaded =>
       TypesPass /\ ValuesPass /\ (moved \/ settings.root = "directory")
  /\ at \in Logging => settings.filter
  /\ at \in {"signals", "bind", "serving"} =>
       resolved \in IF moved THEN {"directory", "file"} ELSE {"directory"}

\* The clients and models there are, none of which failed.
Clients ==
  /\ \A p \in DOMAIN clients :
       TypesPass /\ p \in Wanted /\ Built(p).ok /\ clients[p] = Built(p).it
  /\ at \in Connecting => DOMAIN Blocks \subseteq DOMAIN clients
  /\ models \subseteq Range(Specs)
  /\ \A spec \in models : spec.provider \in DOMAIN clients
  /\ at \in {"models", "agent", "signals", "bind", "serving"} =>
       Range(Specs) \subseteq models

Refusal == at = "ended" => mishap \/ moved \/ ~Sound

IInv == Checks /\ Clients /\ Refusal

\* The operators that only look at the settings.
LEMMA SettingsStay ==
  ASSUME settings' = settings
  PROVE  /\ Blocks' = Blocks /\ Specs' = Specs /\ Wanted' = Wanted
         /\ Sound' = Sound /\ TypesPass' = TypesPass
         /\ ValuesPass' = ValuesPass
         /\ \A p : BlockOf(p)' = BlockOf(p) /\ Built(p)' = Built(p)
  <1>1. Blocks' = Blocks /\ Specs' = Specs /\ Merged' = Merged
    BY DEF Blocks, Specs, Merged
  <1>2. \A p : BlockOf(p)' = BlockOf(p)
    BY <1>1 DEF BlockOf
  <1> QED
    BY <1>1, <1>2 DEF Wanted, Sound, TypesPass, ValuesPass, Built

\* Good settings pass every check, as long as the repository is there.
LEMMA SoundPasses ==
  ASSUME Sound
  PROVE  /\ TypesPass /\ ValuesPass /\ settings.filter
         /\ settings.root = "directory"
         /\ \A p \in Wanted : Built(p).ok
  BY DEF Sound, TypesPass, ValuesPass, Wanted, Built

\* A step that passes to the next thing, or ends the program for a reason.
LEMMA ProceedIInv ==
  ASSUME IInv, UNCHANGED <<settings, root, clients, models, moved, mishap>>,
         NEW result, NEW next \in Loaded \union {"load"},
         Proceed(result, next),
         result.ok \/ mishap \/ moved \/ ~Sound,
         result.ok => Checks' /\ Clients'
  PROVE  IInv'
  <1>1. CASE result.ok
    <2>1. at' = next /\ next # "ended"
      BY <1>1 DEF Proceed, Loaded, Logging, Connecting
    <2> QED
      BY <1>1, <2>1 DEF IInv, Refusal
  <1>2. CASE ~result.ok
    <2>1. at' = "ended"
      BY <1>2 DEF Proceed
    <2>2. Checks' /\ Clients'
      BY <2>1, SettingsStay
         DEF IInv, Checks, Clients, Loaded, Logging, Connecting
    <2>3. Refusal'
      BY <1>2, SettingsStay DEF Refusal
    <2> QED
      BY <2>2, <2>3 DEF IInv
  <1> QED
    BY <1>1, <1>2


LEMMA InitIInv == Init => IInv
  BY SettingsAssumption
     DEF Init, IInv, Checks, Clients, Refusal, Loaded, Logging, Connecting

\* An error from outside, or the repository that is moved, ends the start or
\* excuses its end.
LEMMA MishapIInv == IInv /\ Mishap => IInv'
  <1> SUFFICES ASSUME IInv, Mishap
               PROVE  IInv'
    OBVIOUS
  <1>1. at' = "ended" /\ mishap'
    BY DEF Mishap, Proceed, Fail
  <1>2. UNCHANGED <<settings, root, clients, models, resolved, moved>>
    BY DEF Mishap
  <1>3. Checks' /\ Clients'
    BY <1>1, <1>2, SettingsStay
       DEF IInv, Checks, Clients, Loaded, Logging, Connecting
  <1> QED
    BY <1>1, <1>3 DEF IInv, Refusal

LEMMA RootMovesIInv == IInv /\ RootMoves => IInv'
  <1> SUFFICES ASSUME IInv, RootMoves
               PROVE  IInv'
    OBVIOUS
  <1>1. /\ UNCHANGED <<settings, at, clients, models, resolved>>
        /\ moved' /\ root' \in Roots /\ at # "ended"
    BY DEF RootMoves
  <1>2. Checks'
    BY <1>1, SettingsStay DEF IInv, Checks
  <1>3. Clients'
    BY <1>1, SettingsStay DEF IInv, Clients
  <1> QED
    BY <1>1, <1>2, <1>3 DEF IInv, Refusal

LEMMA ResolveHomeIInv == IInv /\ ResolveHome => IInv'
  <1> SUFFICES ASSUME IInv, ResolveHome
               PROVE  IInv'
    OBVIOUS
  <1>1. at' = "load"
    BY DEF ResolveHome, Proceed, Ok
  <1>2. UNCHANGED <<settings, root, clients, models, resolved, moved, mishap>>
    BY DEF ResolveHome
  <1>3. Checks' /\ Clients'
    BY <1>1, <1>2, SettingsStay
       DEF IInv, Checks, Clients, Loaded, Logging, Connecting
  <1> QED
    BY <1>1, <1>3 DEF IInv, Refusal

LEMMA LoadIInv == IInv /\ Load => IInv'
  <1> SUFFICES ASSUME IInv, Load
               PROVE  IInv'
    OBVIOUS
  <1> DEFINE result == InOrder(<<Deserializes(settings), Validate(settings)>>,
                               None)
  <1>1. /\ at = "load" /\ Proceed(result, "log")
        /\ UNCHANGED <<settings, root, clients, models, resolved, moved, mishap>>
    BY DEF Load
  <1>2. result.ok <=> TypesPass /\ ValuesPass /\ root = "directory"
    BY LoadMeans
  <1>3. moved \/ root = settings.root
    BY DEF IInv, Checks
  <1> HIDE DEF result
  <1>4. result.ok \/ mishap \/ moved \/ ~Sound
    BY <1>2, <1>3, SoundPasses
  <1>5. ASSUME result.ok
        PROVE  Checks' /\ Clients'
    <2>1. at' = "log"
      BY <1>1, <1>5 DEF Proceed
    <2>2. TypesPass' /\ ValuesPass'
      BY <1>1, <1>2, <1>5, SettingsStay
    <2>3. Checks'
      BY <1>1, <1>2, <1>3, <1>5, <2>1, <2>2
         DEF IInv, Checks, Loaded, Logging, Connecting
    <2>4. Clients'
      BY <1>1, <2>1, SettingsStay DEF IInv, Clients, Connecting
    <2> QED
      BY <2>3, <2>4
  <1>6. "log" \in Loaded \union {"load"}
    BY DEF Loaded
  <1> QED
    BY <1>1, <1>4, <1>5, <1>6, ProceedIInv

LEMMA InitLogIInv == IInv /\ InitLog => IInv'
  <1> SUFFICES ASSUME IInv, InitLog
               PROVE  IInv'
    OBVIOUS
  <1> DEFINE result == Check(settings.filter, "Filter")
  <1>1. /\ at = "log" /\ Proceed(result, "configured")
        /\ UNCHANGED <<settings, root, clients, models, resolved, moved, mishap>>
    BY DEF InitLog
  <1>2. result.ok <=> settings.filter
    BY CheckSucceeds
  <1> HIDE DEF result
  <1>3. result.ok \/ mishap \/ moved \/ ~Sound
    BY <1>2, SoundPasses
  <1>4. ASSUME result.ok
        PROVE  Checks' /\ Clients'
    <2>1. at' = "configured"
      BY <1>1, <1>4 DEF Proceed
    <2>2. Checks'
      BY <1>1, <1>2, <1>4, <2>1, SettingsStay
         DEF IInv, Checks, Loaded, Logging, Connecting
    <2>3. Clients'
      BY <1>1, <2>1, SettingsStay DEF IInv, Clients, Connecting
    <2> QED
      BY <2>2, <2>3
  <1>5. "configured" \in Loaded \union {"load"}
    BY DEF Loaded, Logging
  <1> QED
    BY <1>1, <1>3, <1>4, <1>5, ProceedIInv


\* A client more, or an error in the settings.
LEMMA BuildIInv ==
  ASSUME IInv, UNCHANGED <<settings, root, models, resolved, moved, mishap>>,
         at \in {"configured", "referenced"},
         NEW p \in Wanted, Build(p, BlockOf(p), at)
  PROVE  IInv'
  <1> DEFINE client == Built(p)
  <1>1. /\ at' = IF client.ok THEN at ELSE "ended"
        /\ clients' = IF client.ok
                      THEN Over(clients, [q \in {p} |-> client.it])
                      ELSE clients
    BY DEF Build, Proceed, Built
  <1> HIDE DEF client
  <1>2. CASE client.ok
    <2>1. at' = at /\ clients' = Over(clients, [q \in {p} |-> client.it])
      BY <1>1, <1>2
    <2>2. /\ DOMAIN clients' = DOMAIN clients \union {p}
          /\ \A q \in DOMAIN clients : clients'[q] = clients[q]
          /\ p \notin DOMAIN clients => clients'[p] = client.it
      BY <2>1 DEF Over
    <2>3. Checks'
      BY <2>1, SettingsStay DEF IInv, Checks
    <2>4. TypesPass
      BY DEF IInv, Checks, Loaded, Logging, Connecting
    <2>5. \A q \in DOMAIN clients' :
            q \in Wanted /\ Built(q).ok /\ clients'[q] = Built(q).it
      BY <1>2, <2>2 DEF IInv, Clients, client
    <2>6. Clients'
      BY <2>1, <2>2, <2>4, <2>5, SettingsStay DEF IInv, Clients
    <2>7. Refusal'
      BY <2>1 DEF Refusal
    <2> QED
      BY <2>3, <2>6, <2>7 DEF IInv
  <1>3. CASE ~client.ok
    <2>1. at' = "ended" /\ clients' = clients
      BY <1>1, <1>3
    <2>2. ~Sound
      BY <1>3, SoundPasses DEF client
    <2>3. Checks' /\ Clients'
      BY <2>1, SettingsStay
         DEF IInv, Checks, Clients, Loaded, Logging, Connecting
    <2> QED
      BY <2>2, <2>3, SettingsStay DEF IInv, Refusal
  <1> QED
    BY <1>2, <1>3

LEMMA BuildConfiguredIInv == IInv /\ BuildConfigured => IInv'
  <1> SUFFICES ASSUME IInv, BuildConfigured
               PROVE  IInv'
    OBVIOUS
  <1> DEFINE todo == {n \in DOMAIN ProviderNames :
                        ProviderNames[n] \in DOMAIN Blocks \ DOMAIN clients}
             provider == ProviderNames[Min(todo)]
  <1>1. /\ at = "configured"
        /\ UNCHANGED <<settings, root, models, resolved, moved, mishap>>
        /\ \/ todo # {} /\ Build(provider, Blocks[provider], "configured")
           \/ todo = {} /\ Proceed(Ok(None), "referenced") /\ UNCHANGED clients
    BY DEF BuildConfigured
  <1>2. todo \subseteq Nat
    BY DEF ProviderNames
  <1>3. ASSUME todo # {}, Build(provider, Blocks[provider], "configured")
        PROVE  IInv'
    <2>1. Min(todo) \in todo
      <3> HIDE DEF todo
      <3> QED
        BY <1>2, <1>3, MinIsThere
    <2>2. provider \in DOMAIN Blocks
      BY <2>1
    <2> HIDE DEF provider
    <2>3. provider \in Wanted /\ BlockOf(provider) = Blocks[provider]
      BY <2>2 DEF Wanted, BlockOf
    <2> QED
      BY <1>1, <1>3, <2>3, BuildIInv
  <1>4. ASSUME todo = {}, Proceed(Ok(None), "referenced"), UNCHANGED clients
        PROVE  IInv'
    <2>1. Ok(None).ok /\ at' = "referenced"
      BY <1>4 DEF Proceed, Ok
    <2>2. TypesPass
      BY <1>1 DEF IInv, Checks, Loaded, Logging
    <2>3. DOMAIN Blocks \subseteq DOMAIN clients
      <3>1. SUFFICES ASSUME NEW p \in DOMAIN Blocks
                     PROVE  p \in DOMAIN clients
        OBVIOUS
      <3>2. PICK n \in DOMAIN ProviderNames : ProviderNames[n] = p
        BY <2>2, <3>1, BlocksKept DEF Range
      <3> QED
        BY <1>4, <3>1, <3>2
    <2>4. Checks'
      BY <1>1, <2>1, SettingsStay
         DEF IInv, Checks, Loaded, Logging, Connecting
    <2>5. Clients'
      BY <1>1, <1>4, <2>1, <2>3, SettingsStay DEF IInv, Clients, Connecting
    <2>6. "referenced" \in Loaded \union {"load"}
      BY DEF Loaded, Logging, Connecting
    <2> HIDE DEF todo
    <2> QED
      BY <1>1, <1>4, <2>1, <2>4, <2>5, <2>6, ProceedIInv
  <1> QED
    BY <1>1, <1>3, <1>4

LEMMA BuildReferencedIInv == IInv /\ BuildReferenced => IInv'
  <1> SUFFICES ASSUME IInv, BuildReferenced
               PROVE  IInv'
    OBVIOUS
  <1> DEFINE todo == {n \in DOMAIN Specs : Specs[n] \notin models}
             spec == Specs[Min(todo)]
  <1>1. /\ at = "referenced"
        /\ UNCHANGED <<settings, root, resolved, moved, mishap>>
        /\ \/ /\ todo # {} /\ spec.provider \notin DOMAIN clients
              /\ Build(spec.provider, BlockOf(spec.provider), "referenced")
              /\ UNCHANGED models
           \/ /\ todo # {} /\ spec.provider \in DOMAIN clients
              /\ models' = models \union {spec}
              /\ Proceed(Ok(None), "referenced") /\ UNCHANGED clients
           \/ /\ todo = {} /\ Proceed(Ok(None), "models")
              /\ UNCHANGED <<clients, models>>
    BY DEF BuildReferenced
  <1>2. todo \subseteq Nat
    BY DEF Specs
  <1>3. todo # {} => Min(todo) \in todo
    <2> HIDE DEF todo
    <2> QED
      BY <1>2, MinIsThere
  <1>4. todo # {} => spec \in Range(Specs)
    BY <1>3 DEF Range
  <1>5. ASSUME todo # {}, UNCHANGED models,
               Build(spec.provider, BlockOf(spec.provider), "referenced")
        PROVE  IInv'
    <2>1. spec.provider \in Wanted
      BY <1>4, <1>5 DEF Wanted
    <2> HIDE DEF todo, spec
    <2> QED
      BY <1>1, <1>5, <2>1, BuildIInv
  <1>6. ASSUME todo # {}, spec.provider \in DOMAIN clients,
               models' = models \union {spec},
               Proceed(Ok(None), "referenced"), UNCHANGED clients
        PROVE  IInv'
    <2>1. at' = at
      BY <1>1, <1>6 DEF Proceed, Ok
    <2> HIDE DEF todo, spec
    <2>2. Checks'
      BY <1>1, <2>1, SettingsStay DEF IInv, Checks
    <2>3. Clients'
      BY <1>1, <1>4, <1>6, <2>1, SettingsStay DEF IInv, Clients
    <2> QED
      BY <1>1, <2>1, <2>2, <2>3 DEF IInv, Refusal
  <1>7. ASSUME todo = {}, Proceed(Ok(None), "models"),
               UNCHANGED <<clients, models>>
        PROVE  IInv'
    <2>1. Ok(None).ok /\ at' = "models"
      BY <1>7 DEF Proceed, Ok
    <2>2. Range(Specs) \subseteq models
      BY <1>7 DEF Range
    <2>3. Checks'
      BY <1>1, <2>1, SettingsStay
         DEF IInv, Checks, Loaded, Logging, Connecting
    <2>4. Clients'
      BY <1>1, <1>7, <2>1, <2>2, SettingsStay DEF IInv, Clients, Connecting
    <2>5. "models" \in Loaded \union {"load"}
      BY DEF Loaded, Logging, Connecting
    <2> HIDE DEF todo
    <2> QED
      BY <1>1, <1>7, <2>1, <2>3, <2>4, <2>5, ProceedIInv
  <1> HIDE DEF todo, spec
  <1> QED
    BY <1>1, <1>5, <1>6, <1>7


\* Both specs have their model, so that taking them cannot fail.
LEMMA TakeModelsIInv == IInv /\ TakeModels => IInv'
  <1> SUFFICES ASSUME IInv, TakeModels
               PROVE  IInv'
    OBVIOUS
  <1> DEFINE result == Check(Range(Specs) \subseteq models, "NotConstructed")
  <1>1. /\ at = "models" /\ Proceed(result, "agent")
        /\ UNCHANGED <<settings, root, clients, models, resolved, moved, mishap>>
    BY DEF TakeModels
  <1>2. result.ok
    BY <1>1, CheckSucceeds DEF IInv, Clients
  <1> HIDE DEF result
  <1>3. at' = "agent"
    BY <1>1, <1>2 DEF Proceed
  <1>4. Checks'
    BY <1>1, <1>3, SettingsStay DEF IInv, Checks, Loaded, Logging, Connecting
  <1>5. Clients'
    BY <1>1, <1>3, SettingsStay DEF IInv, Clients, Connecting
  <1>6. "agent" \in Loaded \union {"load"}
    BY DEF Loaded, Logging, Connecting
  <1> QED
    BY <1>1, <1>2, <1>4, <1>5, <1>6, ProceedIInv

LEMMA BuildAgentIInv == IInv /\ BuildAgent => IInv'
  <1> SUFFICES ASSUME IInv, BuildAgent
               PROVE  IInv'
    OBVIOUS
  <1> DEFINE result == Check(root # "missing", "Unresolved")
  <1>1. /\ at = "agent" /\ Proceed(result, "signals")
        /\ resolved' = IF root = "missing" THEN None ELSE root
        /\ UNCHANGED <<settings, root, clients, models, moved, mishap>>
    BY DEF BuildAgent
  <1>2. result.ok <=> root # "missing"
    BY CheckSucceeds
  <1>3. /\ moved \/ root = "directory"
        /\ root \in {"directory", "file", "missing"}
    BY <1>1 DEF IInv, Checks, Loaded, Logging, Connecting, Roots
  <1> HIDE DEF result
  <1>4. result.ok \/ mishap \/ moved \/ ~Sound
    BY <1>2, <1>3
  <1>5. ASSUME result.ok
        PROVE  Checks' /\ Clients'
    <2>1. at' = "signals"
      BY <1>1, <1>5 DEF Proceed
    <2>2. resolved' \in IF moved' THEN {"directory", "file"} ELSE {"directory"}
      BY <1>1, <1>2, <1>3, <1>5
    <2>3. Checks'
      BY <1>1, <2>1, <2>2, SettingsStay
         DEF IInv, Checks, Loaded, Logging, Connecting
    <2>4. Clients'
      BY <1>1, <2>1, SettingsStay DEF IInv, Clients, Connecting
    <2> QED
      BY <2>3, <2>4
  <1>6. "signals" \in Loaded \union {"load"}
    BY DEF Loaded, Logging, Connecting
  <1> QED
    BY <1>1, <1>4, <1>5, <1>6, ProceedIInv

LEMMA SetUpSignalsIInv == IInv /\ SetUpSignals => IInv'
  <1> SUFFICES ASSUME IInv, SetUpSignals
               PROVE  IInv'
    OBVIOUS
  <1>1. /\ at = "signals" /\ at' = "bind"
        /\ UNCHANGED <<settings, root, clients, models, resolved, moved, mishap>>
    BY DEF SetUpSignals, Proceed, Ok
  <1>2. Checks'
    BY <1>1, SettingsStay DEF IInv, Checks, Loaded, Logging, Connecting
  <1>3. Clients'
    BY <1>1, SettingsStay DEF IInv, Clients, Connecting
  <1> QED
    BY <1>1, <1>2, <1>3 DEF IInv, Refusal

LEMMA BindIInv == IInv /\ Bind => IInv'
  <1> SUFFICES ASSUME IInv, Bind
               PROVE  IInv'
    OBVIOUS
  <1>1. /\ at = "bind" /\ at' = "serving"
        /\ UNCHANGED <<settings, root, clients, models, resolved, moved, mishap>>
    BY DEF Bind, Proceed, Ok
  <1>2. Checks'
    BY <1>1, SettingsStay DEF IInv, Checks, Loaded, Logging, Connecting
  <1>3. Clients'
    BY <1>1, SettingsStay DEF IInv, Clients, Connecting
  <1> QED
    BY <1>1, <1>2, <1>3 DEF IInv, Refusal

LEMMA StutterIInv == IInv /\ UNCHANGED vars => IInv'
  <1> SUFFICES ASSUME IInv, UNCHANGED vars
               PROVE  IInv'
    OBVIOUS
  <1>1. UNCHANGED <<settings, root, at, clients, models, resolved, moved, mishap>>
    BY DEF vars
  <1>2. Checks'
    BY <1>1, SettingsStay DEF IInv, Checks
  <1>3. Clients'
    BY <1>1, SettingsStay DEF IInv, Clients
  <1> QED
    BY <1>1, <1>2, <1>3, SettingsStay DEF IInv, Refusal

\* How far the start has come (run, src/bin/oncall-ai.rs:30) tells which of
\* the checks of the configuration (src/config.rs:207, 236) have passed and
\* which clients (ModelRuntime::build, src/model/mod.rs:30) there are, whatever
\* the settings; and an end before it serves has its reason.
THEOREM Invariance == Spec => []IInv
  <1>1. IInv /\ Next => IInv'
    BY MishapIInv, RootMovesIInv, ResolveHomeIInv, LoadIInv, InitLogIInv,
       BuildConfiguredIInv, BuildReferencedIInv, TakeModelsIInv,
       BuildAgentIInv, SetUpSignalsIInv, BindIInv, StutterIInv
       DEF Next, Started
  <1>2. IInv /\ UNCHANGED vars => IInv'
    BY StutterIInv
  <1> QED
    BY InitIInv, <1>1, <1>2, PTL DEF Spec

LEMMA ServingIsSound == IInv /\ at = "serving" => moved \/ Sound
  <1> SUFFICES ASSUME IInv, at = "serving", ~moved
               PROVE  Sound
    OBVIOUS
  <1>1. /\ TypesPass /\ ValuesPass /\ settings.root = "directory"
        /\ settings.filter /\ settings \in Settings
    BY DEF IInv, Checks, Loaded, Logging, Connecting
  <1>2. Wanted \subseteq DOMAIN clients
    BY DEF IInv, Clients, Wanted, Connecting
  <1>3. \A p \in Wanted : Built(p).ok
    BY <1>2 DEF IInv, Clients
  <1>4. {settings.backoff_initial_ms, settings.max_turns, settings.least}
          \subseteq Nat \ {0}
    BY <1>1, SettingsAssumption DEF TypesPass
  <1> QED
    BY <1>1, <1>3, <1>4 DEF Sound, TypesPass, ValuesPass, Wanted, Built

\* What run serves with (src/bin/oncall-ai.rs:119) is sound, and it gives up
\* only on settings that are not, or for a reason outside of them: for any
\* settings and environment, any number of blocks and any two specs.
THEOREM ServesSound == Spec => []ServesIfSound
  <1>1. IInv => ServesIfSound
    <2>1. ASSUME IInv, at = "serving"
          PROVE  /\ settings.backoff_max_ms >= settings.backoff_initial_ms
                 /\ settings.max_turns >= 2
                 /\ settings.least > 0
                 /\ \A p \in DOMAIN settings.blocks :
                      DOMAIN settings.blocks[p] \subseteq DOMAIN BlockOf(p)
                 /\ models = Range(Specs)
                 /\ DOMAIN clients = DOMAIN Blocks
                                       \union {spec.provider : spec \in models}
                 /\ \A p \in DOMAIN clients :
                      clients[p] = BuildClient(p, BlockOf(p),
                                               settings.environment).it
                 /\ resolved \in IF moved THEN {"directory", "file"}
                                 ELSE {"directory"}
      <3>1. TypesPass /\ ValuesPass /\ settings \in Settings
        BY <2>1 DEF IInv, Checks, Loaded, Logging, Connecting
      <3>2. settings.least > 0
        BY <3>1, SettingsAssumption DEF TypesPass
      <3>3. \A p \in DOMAIN settings.blocks :
              DOMAIN settings.blocks[p] \subseteq DOMAIN BlockOf(p)
        BY <3>1, BlocksKept DEF BlockOf
      <3>4. models = Range(Specs)
        BY <2>1 DEF IInv, Clients
      <3>5. /\ DOMAIN clients \subseteq Wanted
            /\ Wanted \subseteq DOMAIN clients
            /\ \A p \in DOMAIN clients : clients[p] = Built(p).it
        BY <2>1, <3>4 DEF IInv, Clients, Wanted, Connecting
      <3>6. resolved \in IF moved THEN {"directory", "file"} ELSE {"directory"}
        BY <2>1 DEF IInv, Checks
      <3> QED
        BY <3>1, <3>2, <3>3, <3>4, <3>5, <3>6 DEF ValuesPass, Wanted, Built
    <2> QED
      BY <2>1, ServingIsSound DEF IInv, Refusal, ServesIfSound
  <1> QED
    BY <1>1, Invariance, PTL

\* Every block a client is built from is one its provider may have.
LEMMA BlockFits ==
  ASSUME TypesPass, NEW p \in Wanted
  PROVE  p \in Range(ProviderNames) /\ IsBlock(p, BlockOf(p))
  <1>1. CASE p \in DOMAIN Blocks
    <2>1. /\ BlockOf(p) = ParseProviderConfig(p, Merged[p]).it
          /\ ParseProviderConfig(p, Merged[p]).ok
      BY <1>1 DEF BlockOf, Blocks, TypesPass
    <2> QED
      BY <1>1, <2>1, BlocksKept, ParsedIsBlock
  <1>2. CASE p \notin DOMAIN Blocks
    <2>1. PICK spec \in Range(Specs) : p = spec.provider
      BY <1>2 DEF Wanted
    <2>2. spec \in {ParseSpec(settings.triage).it,
                    ParseSpec(settings.investigation).it}
      BY <2>1 DEF Specs, Range
    <2>3. p \in Range(ProviderNames)
      BY <2>1, <2>2, SpecParsed DEF TypesPass
    <2> QED
      BY <1>2, <2>3, DefaultIsBlock DEF BlockOf
  <1> QED
    BY <1>1, <1>2

\* No client proves itself with another credential than was meant
\* (resolve_optional_secret, src/model/settings.rs:252; build_client,
\* src/model/registry.rs:282): for any blocks, any environment and any sources
\* of secrets.
THEOREM CredentialsMeant == Spec => []CredentialsAsMeant
  <1>1. IInv => CredentialsAsMeant
    <2>1. SUFFICES ASSUME IInv, NEW p \in DOMAIN clients
                   PROVE  Meant(p, BlockOf(p), settings.environment,
                                clients[p].auth.secret)
      BY DEF CredentialsAsMeant, Meant, SetIn, SourceOf
    <2>2. /\ settings \in Settings /\ TypesPass /\ p \in Wanted
          /\ Built(p).ok /\ clients[p] = Built(p).it
      BY <2>1 DEF IInv, Checks, Clients
    <2>3. IsEnvironment(settings.environment)
      BY <2>2, SettingsAssumption, NoneAssumption DEF IsEnvironment
    <2>4. p \in Range(ProviderNames) /\ IsBlock(p, BlockOf(p))
      BY <2>2, BlockFits
    <2> QED
      BY <2>2, <2>3, <2>4, ClientMeant DEF Built
  <1> QED
    BY <1>1, Invariance, PTL
==============================================================================
