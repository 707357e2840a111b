------------------------------ MODULE LLMConfig ------------------------------
(***************************************************************************)
(* configs/llm.yaml as infra/llm_router.py reads it: what                  *)
(* load_llm_router_config accepts, and the chain of models a call gets     *)
(* from it.                                                                *)
(*                                                                         *)
(* A file is a record: default_model; providers, with for each whether its *)
(* type is openai_compatible and it names its two variables; models and    *)
(* nodes, with their fields as they are written.  None stands for a key    *)
(* that is missing.                                                        *)
(***************************************************************************)
EXTENDS Integers, Sequences, FiniteSets

CONSTANT None

\* max(1, int(...)) of _model_route and _node_route.
AtLeastOnce(attempts) == IF attempts > 1 THEN attempts ELSE 1

ModelRoute(raw) ==
    [provider |-> raw.provider, max_attempts |-> AtLeastOnce(raw.max_attempts),
     fallback_models |-> raw.fallback_models]

NodeRoute(raw) ==
    [primary_model |-> raw.primary_model, max_attempts |-> AtLeastOnce(raw.max_attempts),
     fallback_models |-> raw.fallback_models]

\* The models of a chain, in the order in which they are tried.
ModelsOf(chain) == <<chain.primary_model>> \o chain.fallback_models

ChainModels(chain) == {ModelsOf(chain)[i] : i \in DOMAIN ModelsOf(chain)}

\* _missing_node_models.
MissingNodeModels(file) ==
    (UNION {ChainModels(file.nodes[n]) : n \in DOMAIN file.nodes}) \ DOMAIN file.models

LoadsWithoutNodeCheck(file) ==      \* mutant: the models of the nodes go unchecked
    /\ \A p \in DOMAIN file.providers : file.providers[p]
    /\ file.default_model \in DOMAIN file.models
    /\ \A m \in DOMAIN file.models : file.models[m].provider \in DOMAIN file.providers

\* load_llm_router_config returns a configuration.  What models name as their
\* own fallbacks is not looked at.
Loads(file) ==
    /\ \A p \in DOMAIN file.providers : file.providers[p]
    /\ \A m \in DOMAIN file.models : file.models[m].provider # None
    /\ \A n \in DOMAIN file.nodes : file.nodes[n].primary_model # None
    /\ file.default_model \in DOMAIN file.models
    /\ {file.models[m].provider : m \in DOMAIN file.models} \subseteq DOMAIN file.providers
    /\ MissingNodeModels(file) = {}

\* The configuration it returns.
Loaded(file) ==
    [default_model |-> file.default_model,
     providers |-> file.providers,
     models |-> [m \in DOMAIN file.models |-> ModelRoute(file.models[m])],
     nodes |-> [n \in DOMAIN file.nodes |-> NodeRoute(file.nodes[n])]]

\* _routes_for: a prompt with a node entry follows it, any other the model
\* asked for, or the default.
ChainFor(config, prompt, model) ==
    LET id == IF model = None THEN config.default_model ELSE model IN
    CASE prompt \in DOMAIN config.nodes -> config.nodes[prompt]
      [] prompt \notin DOMAIN config.nodes /\ id \in DOMAIN config.models ->
            [primary_model |-> id, max_attempts |-> config.models[id].max_attempts,
             fallback_models |-> config.models[id].fallback_models]
      [] OTHER -> [primary_model |-> id, max_attempts |-> 1, fallback_models |-> << >>]

\* Otherwise a ConfigurationError is raised before anything is tried.
Routable(config, chain) == ChainModels(chain) \subseteq DOMAIN config.models

AttemptsAlways(chain, i) == chain.max_attempts  \* mutant: fallbacks inherit the attempts

AttemptsAt(chain, i) == IF i = 1 THEN AtLeastOnce(chain.max_attempts) ELSE 1

RoutesWithoutFallbacks(chain) ==    \* mutant: the fallbacks are forgotten
    <<[model |-> chain.primary_model, attempts |-> AttemptsAt(chain, 1)]>>

\* Where a sequence has something it has not had before, and the n-th of these
\* places.
NewPlaces(s) == {i \in DOMAIN s : \A k \in 1..(i - 1) : s[k] # s[i]}

NthOf(S, n) == CHOOSE i \in S : Cardinality({k \in S : k < i}) = n - 1

\* _routes_from_model_ids: the models a call tries, each once, with the number
\* of attempts it gives to each.
RoutesOf(chain) ==
    LET kept == NewPlaces(ModelsOf(chain))
        route(i) == [model |-> ModelsOf(chain)[i], attempts |-> AttemptsAt(chain, i)]
    IN [n \in 1..Cardinality(kept) |-> route(NthOf(kept, n))]
=============================================================================
