----------------------------- MODULE MCUsageLog -----------------------------
(***************************************************************************)
(* An instance of UsageLog for TLC: a model with a price, and the empty    *)
(* name, which has none and which the labels replace.                      *)
(***************************************************************************)
EXTENDS UsageLog, TLC

\* a provider may report a negative count, as an int or as -1.0
MCCounts == {[value |-> 1, as |-> "int"], [value |-> -1, as |-> "int"],
             [value |-> -1, as |-> "float"]}

\* Pages show no sums, and nothing of a pager is ever summed: beside one, all
\* rows are of one key and free.
PagerIgnoresCosts ==
    client.at \in {"logs", "paged"} =>
        /\ Cardinality({row[r].key : r \in Requests} \ {None}) <= 1
        /\ \A r \in Requests : row[r].cost = 0 /\ row[r].clamped

MCPrice == [m \in Models |-> IF m = "gpt" THEN 1 ELSE 0]

MCFilters == {[status |-> Unfiltered, model |-> Unfiltered], [status |-> "ok", model |-> "gpt"]}

\* Requests and keys are interchangeable: no action names one.
Symmetry == Permutations(Requests) \cup Permutations(Keys)
=============================================================================
