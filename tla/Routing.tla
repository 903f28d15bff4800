------------------------------ MODULE Routing ------------------------------
(***************************************************************************)
(* The provider registry (providers/factory.py), the selection of the      *)
(* candidates for a model (services/router.py) and the catalogue shown to  *)
(* clients (routers/models.py), as operators. A provider is a record with  *)
(* the fields of ProviderConfig that routing reads (name, models, priority)*)
(* and `kind`, the adapter class. A registry is the list registry.all(),   *)
(* in the order of registration.                                           *)
(***************************************************************************)
EXTENDS Integers, Sequences, FiniteSets

\* the part of ProviderConfig that routing reads, with the adapter class
Configs == [name : STRING, kind : STRING, models : SUBSET STRING, priority : Int]

-----------------------------------------------------------------------------
(* Faulty forms of the definitions below.                                  *)

\* strict membership: a provider without a list of models serves none
strictly_known(registry, model) ==
    \E i \in DOMAIN registry : model \in registry[i].models

\* the lookup of one model forgets the providers without a list
owner_if_listed(registry, model) ==
    IF strictly_known(registry, model)
    THEN CHOOSE i \in DOMAIN registry : model \in registry[i].models
    ELSE 0

-----------------------------------------------------------------------------
\* One provider after the other is registered if Settings has its API key
build_registry(catalogue, enabled) ==
    LET registered[n \in 0..Len(catalogue)] ==
            IF n = 0 THEN <<>>
            ELSE IF catalogue[n].name \in enabled
            THEN Append(registered[n - 1], catalogue[n])
            ELSE registered[n - 1]
    IN registered[Len(catalogue)]

\* An empty list of supported models is a wildcard.
Serves(provider, model) == provider.models = {} \/ model \in provider.models

\* the order of `sorted` by priority, which is stable
Precedes(registry, i, j) ==
    \/ registry[i].priority < registry[j].priority
    \/ registry[i].priority = registry[j].priority /\ i < j

Rank(registry, positions, i) ==
    1 + Cardinality({j \in positions : Precedes(registry, j, i)})

Candidates(registry, model) == {i \in DOMAIN registry : Serves(registry[i], model)}

select_providers(registry, model) ==
    LET found == Candidates(registry, model) IN
    [n \in 1..Cardinality(found) |->
        registry[CHOOSE i \in found : Rank(registry, found, i) = n]]

\* the condition of _reject_unknown_streaming_model
Known(registry, model) == \E i \in DOMAIN registry : Serves(registry[i], model)

-----------------------------------------------------------------------------
(* routers/models.py: who owns a model, as a position in the registry.     *)

\* the first of some providers in _providers_by_priority
First(registry, positions) ==
    CHOOSE i \in positions : \A j \in positions : ~Precedes(registry, j, i)

Listing(registry, model) == {i \in DOMAIN registry : model \in registry[i].models}
Wildcards(registry) == {i \in DOMAIN registry : registry[i].models = {}}

\* GET /v1/models: the models some provider lists, each with its owner
list_models(registry) ==
    [model \in UNION {registry[i].models : i \in DOMAIN registry} |->
        First(registry, Listing(registry, model))]

\* GET /v1/models/{id}: an explicit owner before any wildcard, 0 for a 404
get_model(registry, model) ==
    IF Listing(registry, model) # {} THEN First(registry, Listing(registry, model))
    ELSE IF Wildcards(registry) # {} THEN First(registry, Wildcards(registry))
    ELSE 0
=============================================================================
