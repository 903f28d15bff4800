---------------------------- MODULE MCStreaming ----------------------------
(* Small instances of Streaming for TLC.                                   *)
EXTENDS Streaming, TLC

Provider(name, kind, models, priority) ==
    [name |-> name, kind |-> kind, models |-> models, priority |-> priority]

\* The order of registration is not the order of priorities, the wildcard
\* serves every model, and one provider does not serve "m".
MCCatalogue ==
    << Provider("openai", "openai", {"m"}, 2),
       Provider("anthropic", "anthropic", {}, 1),
       Provider("groq", "openai", {"m", "n"}, 0),
       Provider("mistral", "openai", {"n"}, 0) >>

\* An unknown model, one provider of each kind, fallback both ways, and two
\* providers that list the model, registered against their priorities.
MCSettings ==
    {{"mistral"}, {"openai"}, {"anthropic"}, {"openai", "anthropic"}, {"anthropic", "groq"},
     {"openai", "groq"}}

\* Fallback between the two kinds of adapter, in either direction.
MCMixed == {{"openai", "anthropic"}, {"anthropic", "groq"}}

OpenAIOnly == {{"openai"}}

Symmetry == Permutations(Streams)
=============================================================================
