--------------------------- MODULE Routing_proofs ---------------------------
(***************************************************************************)
(* What select_providers returns, for every registry and every model. The  *)
(* argument: the rank of a candidate is one more than the number of        *)
(* candidates before it, so ranks are an injection of the candidates into  *)
(* 1..n, hence onto it, and every CHOOSE of select_providers has a witness.*)
(***************************************************************************)
EXTENDS Routing, FiniteSetTheorems, TLAPS

\* Any list of provider configurations is a registry.
Registries == Seq(Configs)

\* The positions of a registry are finitely many numbers.
LEMMA PositionsFinite ==
    ASSUME NEW registry \in Registries, NEW found \in SUBSET DOMAIN registry
    PROVE  /\ IsFiniteSet(found)
           /\ Cardinality(found) \in Nat
           /\ \A i \in found : i \in Nat \ {0} /\ registry[i].priority \in Int
<1>1. DOMAIN registry = 1..Len(registry) /\ Len(registry) \in Nat
    BY DEF Registries
<1>2. IsFiniteSet(DOMAIN registry)
    BY <1>1, FS_Interval
<1>3. \A i \in found : i \in Nat \ {0} /\ registry[i].priority \in Int
  <2> SUFFICES ASSUME NEW i \in found
               PROVE  i \in Nat \ {0} /\ registry[i].priority \in Int
      OBVIOUS
  <2>1. i \in 1..Len(registry)
      BY <1>1
  <2>2. registry[i] \in Configs
      BY <1>1, <2>1 DEF Registries
  <2> QED
      BY <1>1, <2>1, <2>2 DEF Configs
<1> QED
    BY <1>2, <1>3, FS_Subset, FS_CardinalityType

\* So are the candidates for a model.
LEMMA CandidatesFinite ==
    ASSUME NEW registry \in Registries, NEW model
    PROVE  /\ Candidates(registry, model) \in SUBSET DOMAIN registry
           /\ IsFiniteSet(Candidates(registry, model))
           /\ Cardinality(Candidates(registry, model)) \in Nat
           /\ \A i \in Candidates(registry, model) : i \in Nat /\ registry[i].priority \in Int
<1>1. Candidates(registry, model) \in SUBSET DOMAIN registry
    BY DEF Candidates
<1> QED
    BY <1>1, PositionsFinite

\* An earlier candidate has a smaller rank, and no rank exceeds the number of
\* candidates.
LEMMA RankGrows ==
    ASSUME NEW registry \in Registries, NEW found \in SUBSET DOMAIN registry
    PROVE  /\ \A i \in found : Rank(registry, found, i) \in 1..Cardinality(found)
           /\ \A i, j \in found :
                Precedes(registry, i, j) => Rank(registry, found, i) < Rank(registry, found, j)
<1> DEFINE before(i) == {k \in found : Precedes(registry, k, i)}
<1>1. /\ IsFiniteSet(found)
      /\ Cardinality(found) \in Nat
      /\ \A i \in found : i \in Nat /\ registry[i].priority \in Int
    BY PositionsFinite
<1>2. ASSUME NEW i \in found
      PROVE  /\ IsFiniteSet(before(i)) /\ Cardinality(before(i)) \in Nat
             /\ IsFiniteSet(before(i) \cup {i})
             /\ Cardinality(before(i) \cup {i}) = Rank(registry, found, i)
  <2>1. IsFiniteSet(before(i)) /\ Cardinality(before(i)) \in Nat
      BY <1>1, FS_Subset, FS_CardinalityType
  <2>2. i \notin before(i)
      BY <1>1 DEF Precedes
  <2>3. Cardinality(before(i) \cup {i}) = Cardinality(before(i)) + 1
      BY <2>1, <2>2, FS_AddElement
  <2> QED
      BY <2>1, <2>3, FS_AddElement DEF Rank
<1>3. ASSUME NEW i \in found PROVE Rank(registry, found, i) \in 1..Cardinality(found)
  <2>1. before(i) \cup {i} \in SUBSET found
      OBVIOUS
  <2>2. Cardinality(before(i) \cup {i}) <= Cardinality(found)
      BY <1>1, <2>1, FS_Subset
  <2>3. Rank(registry, found, i) = 1 + Cardinality(before(i))
      BY DEF Rank
  <2>4. Cardinality(before(i)) \in Nat /\ Cardinality(before(i) \cup {i}) = Rank(registry, found, i)
      BY <1>2
  <2> QED
      BY <1>1, <2>2, <2>3, <2>4
<1>4. ASSUME NEW i \in found, NEW j \in found, Precedes(registry, i, j)
      PROVE  Rank(registry, found, i) < Rank(registry, found, j)
  <2>1. before(i) \cup {i} \in SUBSET before(j)
      BY <1>1, <1>4 DEF Precedes
  <2>2. Cardinality(before(i) \cup {i}) <= Cardinality(before(j))
      BY <1>2, <2>1, FS_Subset
  <2>3. Rank(registry, found, j) = 1 + Cardinality(before(j))
      BY DEF Rank
  <2>4. /\ Cardinality(before(i) \cup {i}) = Rank(registry, found, i)
        /\ Cardinality(before(i)) \in Nat /\ Cardinality(before(j)) \in Nat
      BY <1>2
  <2>5. Rank(registry, found, i) \in Nat
      BY <1>1, <1>3
  <2> QED
      BY <2>2, <2>3, <2>4, <2>5
<1> QED
    BY <1>3, <1>4

\* Every position of the result is the rank of exactly one candidate.
LEMMA RankOnto ==
    ASSUME NEW registry \in Registries, NEW found \in SUBSET DOMAIN registry
    PROVE  /\ \A n \in 1..Cardinality(found) : \E i \in found : Rank(registry, found, i) = n
           /\ \A i, j \in found : Rank(registry, found, i) = Rank(registry, found, j) => i = j
<1> DEFINE f == [i \in found |-> Rank(registry, found, i)]
           n == Cardinality(found)
<1>1. /\ IsFiniteSet(found)
      /\ n \in Nat
      /\ \A i \in found : i \in Nat /\ registry[i].priority \in Int
    BY PositionsFinite
<1>2. /\ \A i \in found : Rank(registry, found, i) \in 1..n
      /\ \A i, j \in found :
            Precedes(registry, i, j) => Rank(registry, found, i) < Rank(registry, found, j)
    BY RankGrows
<1>3. ASSUME NEW i \in found, NEW j \in found,
             Rank(registry, found, i) = Rank(registry, found, j)
      PROVE  i = j
  <2>1. i = j \/ Precedes(registry, i, j) \/ Precedes(registry, j, i)
      BY <1>1 DEF Precedes
  <2>2. Rank(registry, found, i) \in Nat /\ Rank(registry, found, j) \in Nat
      BY <1>1, <1>2
  <2> QED
      BY <1>2, <1>3, <2>1, <2>2
<1>4. f \in Injection(found, 1..n)
    BY <1>2, <1>3 DEF Injection, IsInjective
<1>5. IsFiniteSet(1..n) /\ Cardinality(1..n) = n
    BY <1>1, FS_Interval
<1>6. f \in Surjection(found, 1..n)
    BY <1>4, <1>5, FS_Injection
<1>7. \A m \in 1..n : \E i \in found : Rank(registry, found, i) = m
    BY <1>6 DEF Surjection
<1> QED
    BY <1>3, <1>7

\* The candidate at each position: it serves the model, and the positions
\* are in the order of the candidates.
LEMMA Chosen ==
    ASSUME NEW registry \in Registries, NEW model,
           NEW n \in DOMAIN select_providers(registry, model)
    PROVE  \E i \in Candidates(registry, model) :
                /\ Rank(registry, Candidates(registry, model), i) = n
                /\ select_providers(registry, model)[n] = registry[i]
<1> DEFINE found == Candidates(registry, model)
           i == CHOOSE k \in found : Rank(registry, found, k) = n
<1>1. n \in 1..Cardinality(found)
    BY DEF select_providers
<1>2. i \in found /\ Rank(registry, found, i) = n
    BY <1>1, CandidatesFinite, RankOnto
<1>3. select_providers(registry, model)[n] = registry[i]
    BY <1>1 DEF select_providers
<1> QED
    BY <1>2, <1>3

\* A non-empty set of positions has a first one.
LEMMA FirstIsFirst ==
    ASSUME NEW registry \in Registries, NEW found \in SUBSET DOMAIN registry, found # {}
    PROVE  /\ First(registry, found) \in found
           /\ \A j \in found : ~Precedes(registry, j, First(registry, found))
<1>1. IsFiniteSet(found) /\ Cardinality(found) \in Nat /\ Cardinality(found) # 0
    BY PositionsFinite, FS_EmptySet
<1>2. 1 \in 1..Cardinality(found)
    BY <1>1
<1>3. PICK i \in found : Rank(registry, found, i) = 1
    BY <1>2, RankOnto
<1>4. \A j \in found : ~Precedes(registry, j, i)
  <2> SUFFICES ASSUME NEW j \in found, Precedes(registry, j, i) PROVE FALSE
      OBVIOUS
  <2>1. Rank(registry, found, j) \in 1..Cardinality(found) /\ Rank(registry, found, j) < 1
      BY <1>3, RankGrows
  <2> QED
      BY <1>1, <2>1
<1> QED
    BY <1>4 DEF First

-----------------------------------------------------------------------------
\* select_providers returns the providers that serve the model and no other,
\* by ascending priority.
THEOREM SelectsInOrder ==
    ASSUME NEW registry \in Registries, NEW model
    PROVE  LET selected == select_providers(registry, model) IN
           /\ \A n \in DOMAIN selected : Serves(selected[n], model)
           /\ \A i \in DOMAIN registry :
                Serves(registry[i], model) => \E n \in DOMAIN selected : selected[n] = registry[i]
           /\ \A m, n \in DOMAIN selected : m < n => selected[m].priority <= selected[n].priority
<1> DEFINE selected == select_providers(registry, model)
           found == Candidates(registry, model)
<1>1. /\ Cardinality(found) \in Nat
      /\ \A i \in found : i \in Nat /\ registry[i].priority \in Int
    BY CandidatesFinite
<1>2. \A n \in DOMAIN selected : \E i \in found :
            Rank(registry, found, i) = n /\ selected[n] = registry[i]
    BY Chosen
<1>3. DOMAIN selected = 1..Cardinality(found)
    BY DEF select_providers
<1>4. /\ \A i \in found : Rank(registry, found, i) \in 1..Cardinality(found)
      /\ \A i, j \in found :
            Precedes(registry, i, j) => Rank(registry, found, i) < Rank(registry, found, j)
    BY CandidatesFinite, RankGrows
<1>5. \A i, j \in found : Rank(registry, found, i) = Rank(registry, found, j) => i = j
    BY CandidatesFinite, RankOnto
<1>6. \A i \in found : Serves(registry[i], model)
    BY DEF Candidates
<1>7. \A i \in DOMAIN registry : Serves(registry[i], model) => i \in found
    BY DEF Candidates
<1> HIDE DEF selected, found
<1>8. \A n \in DOMAIN selected : Serves(selected[n], model)
    BY <1>2, <1>6
<1>9. ASSUME NEW i \in found PROVE \E n \in DOMAIN selected : selected[n] = registry[i]
    BY <1>2, <1>3, <1>4, <1>5
<1>10. ASSUME NEW m \in DOMAIN selected, NEW n \in DOMAIN selected, m < n
       PROVE  selected[m].priority <= selected[n].priority
  <2>1. PICK i \in found : Rank(registry, found, i) = m /\ selected[m] = registry[i]
      BY <1>2
  <2>2. PICK j \in found : Rank(registry, found, j) = n /\ selected[n] = registry[j]
      BY <1>2
  <2>3. ~Precedes(registry, j, i)
      BY <1>3, <1>4, <1>10, <2>1, <2>2
  <2> QED
      BY <1>1, <2>1, <2>2, <2>3 DEF Precedes
<1> QED
    BY <1>7, <1>8, <1>9, <1>10 DEF selected

\* The early 404 of streaming requests (_reject_unknown_streaming_model) and
\* the routing of all requests (select_providers) agree for every registry,
\* wildcard providers included.
THEOREM KnownIffRoutable ==
    ASSUME NEW registry \in Registries, NEW model
    PROVE  Known(registry, model) <=> DOMAIN select_providers(registry, model) # {}
<1>1. /\ IsFiniteSet(Candidates(registry, model))
      /\ Cardinality(Candidates(registry, model)) \in Nat
    BY CandidatesFinite
<1>2. DOMAIN select_providers(registry, model) = 1..Cardinality(Candidates(registry, model))
    BY DEF select_providers
<1>3. Known(registry, model) <=> Candidates(registry, model) # {}
    BY DEF Known, Candidates
<1>4. Candidates(registry, model) = {} <=> Cardinality(Candidates(registry, model)) = 0
    BY <1>1, FS_EmptySet
<1> QED
    BY <1>1, <1>2, <1>3, <1>4

\* GET /v1/models/{id} finds an owner exactly for the models that are routed,
\* and an owner that routing uses; a listed model has the owner both routes
\* give; only wildcard providers are tried before an owner.
THEOREM CatalogueMatchesRouting ==
    ASSUME NEW registry \in Registries, NEW model
    PROVE  LET owner == get_model(registry, model)
               selected == select_providers(registry, model) IN
           /\ owner = 0 <=> DOMAIN selected = {}
           /\ model \in DOMAIN list_models(registry) => list_models(registry)[model] = owner
           /\ owner # 0 => \E n \in DOMAIN selected :
                /\ selected[n] = registry[owner]
                /\ \A m \in DOMAIN selected : m < n => selected[m].models = {}
<1> DEFINE owner == get_model(registry, model)
           selected == select_providers(registry, model)
           found == Candidates(registry, model)
           listing == Listing(registry, model)
           wild == Wildcards(registry)
<1>1. found = listing \cup wild /\ listing \in SUBSET DOMAIN registry /\ wild \in SUBSET DOMAIN registry
    BY DEF Candidates, Serves, Listing, Wildcards
<1>2. /\ listing # {} => owner \in listing /\ \A j \in listing : ~Precedes(registry, j, owner)
      /\ listing = {} /\ wild # {} => owner \in wild
      /\ listing = {} /\ wild = {} => owner = 0
    BY <1>1, FirstIsFirst DEF get_model
<1>3. /\ Cardinality(found) \in Nat
      /\ \A i \in found : i \in Nat \ {0} /\ registry[i].priority \in Int
    BY <1>1, PositionsFinite
<1>4. owner = 0 <=> found = {}
    BY <1>1, <1>2, <1>3
<1>5. owner = 0 <=> DOMAIN selected = {}
  <2>1. Known(registry, model) <=> found # {}
      BY DEF Known, Candidates
  <2> QED
      BY <1>4, <2>1, KnownIffRoutable
<1>6. ASSUME model \in DOMAIN list_models(registry)
      PROVE  list_models(registry)[model] = owner
  <2>1. listing # {}
      BY <1>6 DEF list_models, Listing
  <2> QED
      BY <1>6, <2>1 DEF list_models, get_model
<1>7. ASSUME owner # 0
      PROVE  \E n \in DOMAIN selected :
                /\ selected[n] = registry[owner]
                /\ \A m \in DOMAIN selected : m < n => selected[m].models = {}
  <2>1. owner \in found
      BY <1>1, <1>2, <1>7
  <2>2. \A n \in DOMAIN selected : \E i \in found :
            Rank(registry, found, i) = n /\ selected[n] = registry[i]
      BY Chosen
  <2>3. DOMAIN selected = 1..Cardinality(found)
      BY DEF select_providers
  <2>4. /\ \A i \in found : Rank(registry, found, i) \in 1..Cardinality(found)
        /\ \A i, j \in found :
                Precedes(registry, i, j) => Rank(registry, found, i) < Rank(registry, found, j)
      BY CandidatesFinite, RankGrows
  <2>5. \A i, j \in found : Rank(registry, found, i) = Rank(registry, found, j) => i = j
      BY CandidatesFinite, RankOnto
  <2>6. \A i \in found : i \in listing \/ registry[i].models = {}
      BY <1>1 DEF Wildcards
  <2> DEFINE n == Rank(registry, found, owner)
  <2> HIDE DEF selected, found, owner, listing, wild
  <2>7. n \in DOMAIN selected /\ selected[n] = registry[owner]
      BY <2>1, <2>2, <2>3, <2>4, <2>5
  <2>8. ASSUME NEW m \in DOMAIN selected, m < n PROVE selected[m].models = {}
    <3>1. PICK i \in found : Rank(registry, found, i) = m /\ selected[m] = registry[i]
        BY <2>2
    <3>2. n \in Nat /\ m \in Nat
        BY <1>3, <2>1, <2>3, <2>4
    <3>3. ~Precedes(registry, owner, i) /\ i # owner
        BY <2>1, <2>4, <2>8, <3>1, <3>2
    <3>4. Precedes(registry, i, owner)
        BY <1>3, <2>1, <3>1, <3>3 DEF Precedes
    <3>5. i \notin listing
        BY <1>2, <3>4
    <3> QED
        BY <2>6, <3>1, <3>5
  <2> QED
      BY <2>7, <2>8
<1> QED
    BY <1>5, <1>6, <1>7
=============================================================================
