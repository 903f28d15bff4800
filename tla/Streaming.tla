----------------------------- MODULE Streaming -----------------------------
(***************************************************************************)
(* The streaming path: _stream_response (routers/chat.py), the relay and   *)
(* its accumulator (services/streaming.py) and the adapters that translate *)
(* a provider's events to OpenAI lines (providers/). The streams of one    *)
(* cache key: they share the model, its candidate providers and one cache  *)
(* entry, and are not coalesced.                                           *)
(*                                                                         *)
(* A step is what the generator does between two suspensions: the await of *)
(* the next upstream event, of a Redis command, or the yield of a line.    *)
(* Text is abstracted to numbered pieces: the n-th piece of an answer is n.*)
(***************************************************************************)
EXTENDS Routing, SequencesExt

CONSTANTS
    Streams,        \* identifiers of streaming requests
    Catalogue,      \* the providers build_registry knows, in its order
    Settings,       \* the sets of providers with an API key to start from
    Model,          \* the model the streams ask for
    MaxPieces,      \* bound: pieces of text in an answer
    InputTokens,    \* prompt tokens a provider counts for the request
    Faults,         \* what the environment of this instance may do
    None,           \* no cache entry
    Unreadable      \* a cache entry that ChatResponse cannot parse

(***************************************************************************)
(*  "upstream"    a provider request may raise an httpx error              *)
(*  "cut"         a provider may end its body early, without an error      *)
(*  "event"       a provider may report an error as an event of the stream *)
(*  "odd"         a provider may send a value outside the schema           *)
(*  "disconnect"  the client may go away                                   *)
(*  "redis"       a Redis command may raise, with or without its effect    *)
(*  "evict"       the entry may expire, or become unreadable               *)
(***************************************************************************)
AllFaults == {"upstream", "cut", "event", "odd", "disconnect", "redis", "evict"}

Kinds == {"openai", "anthropic"}

ASSUME StreamingAssumption ==
    /\ Catalogue \in Seq(Configs)
    /\ \A i \in DOMAIN Catalogue : Catalogue[i].kind \in Kinds
    /\ MaxPieces \in Nat \ {0}
    /\ InputTokens \in Nat \ {0}
    /\ Faults \subseteq AllFaults
    /\ None # Unreadable

VARIABLES
    registry,   \* registry.all(), fixed
    chain,      \* select_providers(registry, model), fixed
    pc,         \* where each generator is
    cand,       \* index of the provider it is calling
    wire,       \* what that provider has sent: phase, pieces, usage
    adapter,    \* locals of the provider's generator: input_tokens, done_sent
    serving,    \* serving_provider (0: None)
    usage,      \* usage, as capture_usage left it
    acc,        \* the ChunkAccumulator
    lastError,  \* last_error of stream_chat_completion
    reply,      \* the response `cache_service.get` returned
    seen,       \* the lines yielded to the client
    rows,       \* the usage rows scheduled, in order
    cache       \* Redis: the value of <cache key>

fixed == <<registry, chain>>
upstream == <<cand, wire, adapter, lastError>>
relay == <<serving, usage, acc>>
vars == <<fixed, pc, upstream, relay, reply, seen, rows, cache>>

NoTokens == [in |-> 0, out |-> 0]
NoUsage == [in |-> 0, out |-> MaxPieces + 1]    \* a chunk without `usage`
Tokens == [in : {0, InputTokens}, out : 0..MaxPieces]

Line(kind, text, finish, tokens, from) ==
    [kind |-> kind, text |-> text, finish |-> finish, usage |-> tokens, from |-> from]
NoLine == Line("none", <<>>, "none", NoUsage, 0)
DoneLine(from) == Line("done", <<>>, "none", NoUsage, from)
_sse_error(type) == Line("error", <<>>, type, NoUsage, 0)

Fresh == [phase |-> "opening", pieces |-> 0, reported |-> FALSE]
NewAdapter == [input |-> 0, done |-> FALSE]
NewAccumulator == [saw |-> FALSE, content |-> <<>>, finish |-> "stop", usage |-> NoTokens]

Kind(s) == chain[cand[s]].kind
Larger(a, b) == IF a < b THEN b ELSE a

-----------------------------------------------------------------------------
(* Faulty forms of the definitions below, against which the properties     *)
(* are tested.                                                             *)

\* `finally` without `and success`
record_always(s, success) == serving[s] # 0

\* falls back although lines of the failed provider were relayed
fallback_midstream(s) == {"open", "relay"}

\* usage taken from every chunk, also from those that have none
capture_always(line, current) == line.usage

\* content = content instead of +=
feed_overwrites(a, line) ==
    IF line.kind = "done" THEN a
    ELSE [a EXCEPT !.saw = TRUE, !.content = IF line.text = <<>> THEN @ ELSE line.text]

\* the usage of message_start read from the top of the event
input_from_top(s, e) == 0

\* the candidate list is walked without advancing
same_candidate(s) == cand[s]

-----------------------------------------------------------------------------
(* Metrics and rows.                                                       *)

Row(status, provider, tokens, error) ==
    [status |-> status, provider |-> provider, usage |-> tokens, error |-> error]

\* record_failed_request
Failed(type) == <<Row("error", 0, NoTokens, type)>>

\* _classify_upstream_error; "no_provider" is its last line
_classify_upstream_error(error) ==
    CASE error = "timeout"   -> "timeout_error"
      [] error = "auth"      -> "auth_error"
      [] error = "ratelimit" -> "rate_limit_error"
      [] error = "other"     -> "upstream_error"
      [] error = "none"      -> "no_provider"

\* `usage` of a chunk, if it has one
capture_usage(line, current) == IF line.usage = NoUsage THEN current ELSE line.usage

\* ChunkAccumulator.feed. Of the tokens, total_tokens is left out: no row has it.
feed(a, line) ==
    IF line.kind = "done" THEN a
    ELSE [saw     |-> TRUE,
          content |-> a.content \o line.text,
          finish  |-> IF line.kind = "chunk" /\ line.finish # "none" THEN line.finish ELSE a.finish,
          usage   |-> capture_usage(line, a.usage)]

\* ChunkAccumulator.to_response
to_response(s) ==
    [content |-> acc[s].content, finish |-> acc[s].finish, usage |-> acc[s].usage, by |-> s]

\* synthesize_cached_stream
synthesize_cached_stream(response) ==
    << Line("chunk", <<>>, "none", NoUsage, 0),
       Line("chunk", response.content, "none", NoUsage, 0),
       Line("chunk", <<>>, response.finish, response.usage, 0),
       DoneLine(0) >>

-----------------------------------------------------------------------------
Init ==
    /\ registry \in {build_registry(Catalogue, enabled) : enabled \in Settings}
    /\ chain = select_providers(registry, Model)
    /\ pc = [s \in Streams |-> "idle"]
    /\ cand = [s \in Streams |-> 1]
    /\ wire = [s \in Streams |-> Fresh]
    /\ adapter = [s \in Streams |-> NewAdapter]
    /\ lastError = [s \in Streams |-> "none"]
    /\ serving = [s \in Streams |-> 0]
    /\ usage = [s \in Streams |-> NoTokens]
    /\ acc = [s \in Streams |-> NewAccumulator]
    /\ reply = [s \in Streams |-> None]
    /\ seen = [s \in Streams |-> <<>>]
    /\ rows = [s \in Streams |-> <<>>]
    /\ cache = None

Goto(s, label) == pc' = [pc EXCEPT ![s] = label]
RedisError == "redis" \in Faults

\* _reject_unknown_streaming_model: 404 before the 200 of the stream
Start(s) ==
    /\ pc[s] = "idle"
    /\ \/ Known(registry, Model) /\ Goto(s, "get") /\ UNCHANGED rows
       \/ /\ ~Known(registry, Model)
          /\ Goto(s, "rejected")
          /\ rows' = [rows EXCEPT ![s] = @ \o Failed("model_not_found")]
    /\ UNCHANGED <<fixed, upstream, relay, reply, seen, cache>>

GetHit(s) ==
    /\ pc[s] = "get"
    /\ cache \notin {None, Unreadable}
    /\ reply' = [reply EXCEPT ![s] = cache]
    /\ Goto(s, "replay")
    /\ UNCHANGED <<fixed, upstream, relay, seen, rows, cache>>

GetMiss(s) ==
    /\ pc[s] = "get"
    /\ \/ cache = None /\ Goto(s, "open")
       \/ cache = Unreadable /\ Goto(s, "discard")
       \/ RedisError /\ Goto(s, "open")
    /\ UNCHANGED <<fixed, upstream, relay, reply, seen, rows, cache>>

DiscardEntry(s) ==
    /\ pc[s] = "discard"
    /\ cache' = None \/ (RedisError /\ cache' = cache)
    /\ Goto(s, "open")
    /\ UNCHANGED <<fixed, upstream, relay, reply, seen, rows>>

\* schedule_cached_stream_usage: at zero cost, attributed to "cache"
CachedRow(response) == Row("ok", 0, response.usage, "none")

\* yields a cached response line by line, then schedules its row
Replay(s) ==
    LET lines == synthesize_cached_stream(reply[s])
        n == Len(seen[s]) IN
    /\ pc[s] = "replay"
    /\ \/ /\ n < Len(lines)
          /\ seen' = [seen EXCEPT ![s] = Append(@, lines[n + 1])]
          /\ UNCHANGED <<pc, rows>>
       \/ /\ n = Len(lines)
          /\ rows' = [rows EXCEPT ![s] = Append(@, CachedRow(reply[s]))]
          /\ Goto(s, "end")
          /\ UNCHANGED seen
    /\ UNCHANGED <<fixed, upstream, relay, reply, cache>>

-----------------------------------------------------------------------------
(* The provider and its adapter.                                           *)

\* what a provider may send next
WireEvents(s) ==
    LET w == wire[s] IN
    UNION {
        IF w.phase = "opening" THEN {"start"} ELSE {},
        IF w.phase = "talking" /\ w.pieces < MaxPieces THEN {"text"} ELSE {},
        IF w.phase = "talking" THEN {"finish"} ELSE {},
        IF w.phase = "finished" THEN {"usage"} ELSE {},
        IF w.phase \in {"finished", "counted"} THEN {"stop"} ELSE {},
        IF "event" \in Faults /\ w.phase \notin {"stopped", "broken", "closed"}
            THEN {"fault"} ELSE {},
        IF "odd" \in Faults /\ w.phase = "talking" THEN {"oddtext", "oddfinish"} ELSE {} }

AfterEvent(s, e) ==
    LET w == wire[s] IN
    CASE e = "start"               -> [w EXCEPT !.phase = "talking"]
      [] e \in {"text", "oddtext"} -> [w EXCEPT !.pieces = IF @ < MaxPieces THEN @ + 1 ELSE @]
      [] e \in {"finish", "oddfinish"} ->
            IF Kind(s) = "anthropic" THEN [w EXCEPT !.phase = "counted", !.reported = TRUE]
                                     ELSE [w EXCEPT !.phase = "finished"]
      [] e = "usage"               -> [w EXCEPT !.phase = "counted", !.reported = TRUE]
      [] e = "stop"                -> [w EXCEPT !.phase = "stopped"]
      [] e = "fault"               -> [w EXCEPT !.phase = "broken"]

\* input_tokens = int(usage.get("input_tokens", input_tokens)) of message_start
InputFromStart(s, e) ==
    IF Kind(s) = "anthropic" /\ e = "start" THEN InputTokens ELSE adapter[s].input

\* OpenAI, Groq, Mistral: every `data: ` line passes through
OpenAILine(s, e) ==
    LET from == cand[s]
        n == wire[s].pieces IN
    CASE e = "start"     -> Line("chunk", <<>>, "none", NoUsage, from)
      [] e = "text"      -> Line("chunk", <<n + 1>>, "none", NoUsage, from)
      [] e = "oddtext"   -> Line("chunk", <<0>>, "none", NoUsage, from)
      [] e = "finish"    -> Line("chunk", <<>>, "stop", NoUsage, from)
      [] e = "oddfinish" -> Line("chunk", <<>>, "odd", NoUsage, from)
      [] e = "usage"     -> Line("chunk", <<>>, "none", [in |-> InputTokens, out |-> n], from)
      [] e = "stop"      -> DoneLine(from)
      [] e = "fault"     -> Line("error", <<>>, "none", NoUsage, from)

\* Anthropic: known events are translated, every other one is dropped; an
\* unknown stop_reason becomes "stop"
AnthropicLine(s, e) ==
    LET from == cand[s]
        n == wire[s].pieces IN
    CASE e = "start" -> Line("chunk", <<>>, "none", NoUsage, from)
      [] e = "text"  -> Line("chunk", <<n + 1>>, "none", NoUsage, from)
      [] e \in {"finish", "oddfinish"} ->
            Line("chunk", <<>>, "stop", [in |-> adapter[s].input, out |-> n], from)
      [] e = "oddtext" -> Line("chunk", <<0>>, "none", NoUsage, from)
      [] e = "stop"  -> DoneLine(from)
      [] e = "fault" -> NoLine

Translate(s, e) == IF Kind(s) = "anthropic" THEN AnthropicLine(s, e) ELSE OpenAILine(s, e)

-----------------------------------------------------------------------------
(* The relay.                                                              *)

\* body of the `async for`: remember the provider, capture, feed, yield
Relay(s, line) ==
    /\ serving' = [serving EXCEPT ![s] = IF @ = 0 THEN cand[s] ELSE @]
    /\ usage' = [usage EXCEPT ![s] = capture_usage(line, @)]
    /\ acc' = [acc EXCEPT ![s] = feed(@, line)]
    /\ seen' = [seen EXCEPT ![s] = Append(@, line)]
    /\ Goto(s, "relay")
    /\ UNCHANGED rows

\* the condition of schedule_stream_usage in `finally`
RecordsOk(s, success) == serving[s] # 0 /\ success

OkRow(s, success) ==
    IF RecordsOk(s, success)
    THEN <<Row("ok", serving[s], usage[s], "none")>>
    ELSE <<>>

\* the `except` branches, then `finally`
Abort(s, type, shown) ==
    /\ rows' = [rows EXCEPT ![s] = @ \o Failed(type) \o OkRow(s, FALSE)]
    /\ seen' = [seen EXCEPT ![s] = Append(@, _sse_error(shown))]
    /\ Goto(s, "end")
    /\ UNCHANGED <<fixed, upstream, relay, reply, cache>>

NextCandidate(s) == cand[s] + 1

\* `continue`: the next provider, or NoProviderAvailableError after the last
TryNext(s, error) ==
    \/ /\ cand[s] < Len(chain)
       /\ cand' = [cand EXCEPT ![s] = NextCandidate(s)]
       /\ wire' = [wire EXCEPT ![s] = Fresh]
       /\ adapter' = [adapter EXCEPT ![s] = NewAdapter]
       /\ lastError' = [lastError EXCEPT ![s] = error]
       /\ Goto(s, "open")
       /\ UNCHANGED <<fixed, relay, reply, seen, rows, cache>>
    \/ /\ cand[s] = Len(chain)
       /\ Abort(s, "upstream_error", _classify_upstream_error(error))

\* An event arrives. Lines without `data: ` change nothing and are not
\* steps. A content that is not a string passes both adapters and raises in
\* `+=`, which no handler catches: `finally` runs and the generator dies.
UpstreamSends(s) ==
    /\ pc[s] \in {"open", "relay"}
    /\ \E e \in WireEvents(s) :
        LET line == Translate(s, e) IN
        /\ wire' = [wire EXCEPT ![s] = AfterEvent(s, e)]
        /\ adapter' = [adapter EXCEPT ![s] =
                [input |-> InputFromStart(s, e), done |-> @.done \/ line.kind = "done"]]
        /\ \/ line = NoLine /\ UNCHANGED <<pc, relay, seen, rows>>
           \/ line # NoLine /\ line.text # <<0>> /\ Relay(s, line)
           \/ /\ line.text = <<0>>
              /\ serving' = [serving EXCEPT ![s] = IF @ = 0 THEN cand[s] ELSE @]
              /\ Goto(s, "died")
              /\ UNCHANGED <<usage, acc, seen, rows>>
    /\ UNCHANGED <<fixed, cand, lastError, reply, cache>>

MayEnd(s) == wire[s].phase \in {"stopped", "broken", "closed"} \/ "cut" \in Faults

\* The body ends. Anthropic's adapter adds a [DONE] of its own; then the
\* first-line case falls back and the relaying case succeeds.
UpstreamEnds(s) ==
    /\ pc[s] \in {"open", "relay"}
    /\ MayEnd(s)
    /\ \/ /\ Kind(s) = "anthropic" /\ ~adapter[s].done
          /\ adapter' = [adapter EXCEPT ![s].done = TRUE]
          /\ wire' = [wire EXCEPT ![s].phase = "closed"]
          /\ Relay(s, DoneLine(cand[s]))
          /\ UNCHANGED <<fixed, cand, lastError, reply, cache>>
       \/ /\ Kind(s) = "openai" \/ adapter[s].done
          /\ pc[s] = "open"
          /\ TryNext(s, lastError[s])
       \/ /\ Kind(s) = "openai" \/ adapter[s].done
          /\ pc[s] = "relay"
          /\ rows' = [rows EXCEPT ![s] = @ \o OkRow(s, TRUE)]
          /\ Goto(s, IF acc[s].saw THEN "set" ELSE "end")
          /\ UNCHANGED <<fixed, upstream, relay, reply, seen, cache>>

\* HTTP status errors precede every line, so only a timeout or a transport
\* error can interrupt a relay.
UpstreamErrors(s) ==
    {"timeout", "other"} \cup (IF wire[s].phase = "opening" THEN {"ratelimit", "auth"} ELSE {})

\* where an error leads to the next provider
FallsBack(s) == {"open"}

UpstreamFails(s) ==
    /\ pc[s] \in {"open", "relay"}
    /\ "upstream" \in Faults
    /\ wire[s].phase # "closed"
    /\ \E error \in UpstreamErrors(s) :
        \/ pc[s] \in FallsBack(s) /\ TryNext(s, error)
        \/ /\ pc[s] \notin FallsBack(s)
           /\ LET type == _classify_upstream_error(error) IN Abort(s, type, type)

\* the last await of `finally`; to_response raises for an unknown
\* finish_reason
CacheSet(s) ==
    /\ pc[s] = "set"
    /\ \/ /\ acc[s].finish # "odd"
          /\ cache' = to_response(s) \/ (RedisError /\ cache' = cache)
          /\ Goto(s, "end")
       \/ acc[s].finish = "odd" /\ Goto(s, "died") /\ UNCHANGED cache
    /\ UNCHANGED <<fixed, upstream, relay, reply, seen, rows>>

-----------------------------------------------------------------------------
(* The environment.                                                        *)

\* CancelledError or GeneratorExit: `finally` runs with success = False, or
\* its own await is cancelled while the SET is on its way.
Disconnect(s) ==
    /\ "disconnect" \in Faults
    /\ pc[s] \in {"get", "discard", "replay", "open", "relay", "set"}
    /\ \/ pc[s] # "set" /\ rows' = [rows EXCEPT ![s] = @ \o OkRow(s, FALSE)] /\ UNCHANGED cache
       \/ /\ pc[s] = "set" /\ UNCHANGED rows
          /\ cache' = cache \/ (acc[s].finish # "odd" /\ cache' = to_response(s))
    /\ Goto(s, "gone")
    /\ UNCHANGED <<fixed, upstream, relay, reply, seen>>

Evict ==
    /\ "evict" \in Faults
    /\ cache' \in {None, Unreadable} \ {cache}
    /\ UNCHANGED <<fixed, pc, upstream, relay, reply, seen, rows>>

Final == {"end", "rejected", "died", "gone"}

Done == (\A s \in Streams : pc[s] \in Final) /\ UNCHANGED vars

Step(s) ==
    \/ GetHit(s) \/ GetMiss(s) \/ DiscardEntry(s) \/ Replay(s)
    \/ UpstreamSends(s) \/ UpstreamEnds(s) \/ UpstreamFails(s) \/ CacheSet(s)

Next ==
    \/ \E s \in Streams : Start(s) \/ Step(s) \/ Disconnect(s)
    \/ Evict
    \/ Done

Spec == Init /\ [][Next]_vars

\* A provider that stops sending is cut off by the read timeout, a Redis
\* command answers or raises, the client reads on or disconnects, and the
\* event loop runs what is ready. Nobody has to ask for a stream.
FairSpec == Spec /\ \A s \in Streams : WF_vars(Step(s))

-----------------------------------------------------------------------------
(* Properties.                                                             *)

Lines ==
    [kind : {"chunk", "error", "done"}, text : Seq(0..MaxPieces),
     finish : {"none", "stop", "odd", "timeout_error", "auth_error", "rate_limit_error",
               "upstream_error", "no_provider"},
     usage : Tokens \cup {NoUsage}, from : 0..Len(chain)]

Responses ==
    [content : Seq(1..MaxPieces), finish : {"stop"}, usage : Tokens, by : Streams]

\* The types of the variables; a cached response passes the schema.
TypeOK ==
    /\ registry \in Seq(Range(Catalogue))
    /\ chain \in Seq(Range(Catalogue))
    /\ pc \in [Streams -> {"idle", "get", "discard", "replay", "open", "relay", "set"} \cup Final]
    /\ \A s \in Streams :
        /\ cand[s] \in 1..Larger(1, Len(chain))
        /\ wire[s] \in [phase : {"opening", "talking", "finished", "counted", "stopped",
                                 "broken", "closed"},
                        pieces : 0..MaxPieces, reported : BOOLEAN]
        /\ adapter[s] \in [input : {0, InputTokens}, done : BOOLEAN]
        /\ lastError[s] \in {"none", "timeout", "auth", "ratelimit", "other"}
        /\ serving[s] \in 0..Len(chain)
        /\ usage[s] \in Tokens
        /\ acc[s] \in [saw : BOOLEAN, content : Seq(1..MaxPieces), finish : {"stop", "odd"},
                       usage : Tokens]
        /\ reply[s] \in Responses \cup {None}
        /\ seen[s] \in Seq(Lines)
        /\ rows[s] \in Seq([status : {"ok", "error"}, provider : 0..Len(chain),
                            usage : Tokens,
                            error : {"none", "model_not_found", "timeout_error",
                                     "upstream_error"}])
    /\ cache \in Responses \cup {None, Unreadable}

\* A stream is refused with a 404 exactly when routing has no candidate for
\* its model: the check before the 200 and select_providers never disagree.
RejectedIffUnroutable ==
    \A s \in Streams : pc[s] # "idle" => (pc[s] = "rejected" <=> chain = <<>>)

\* GET /v1/models tells the truth about routing: a model has an owner exactly
\* when its streams are not refused, both routes name the same one, and only
\* wildcard providers may be tried before it.
CatalogueAgrees ==
    LET owner == get_model(registry, Model) IN
    /\ \A s \in Streams : pc[s] # "idle" => (pc[s] = "rejected" <=> owner = 0)
    /\ Model \in DOMAIN list_models(registry) => list_models(registry)[Model] = owner
    /\ owner # 0 => \E n \in DOMAIN chain :
            chain[n] = registry[owner] /\ \A m \in 1..(n - 1) : chain[m].models = {}

EndsInError(lines) == lines # <<>> /\ Last(lines).kind = "error" /\ Last(lines).from = 0

\* However providers fail and fall back, a stream schedules at most one usage
\* row; one that runs to its end schedules exactly one, and it says "error"
\* exactly when the client's last line is the gateway's error event.
LoggedOnce ==
    \A s \in Streams :
        /\ Len(rows[s]) <= 1
        /\ pc[s] \in {"end", "rejected"} => Len(rows[s]) = 1
        /\ pc[s] = "end" => (rows[s][1].status = "error" <=> EndsInError(seen[s]))

\* A client never gets lines of two providers, although a failed candidate is
\* replaced by the next; and the one whose lines it got is the one billed.
OneSource ==
    \A s \in Streams :
        /\ \A i, j \in DOMAIN seen[s] :
                seen[s][i].from # 0 /\ seen[s][j].from # 0 => seen[s][i].from = seen[s][j].from
        /\ \A i \in DOMAIN seen[s], j \in DOMAIN rows[s] :
                seen[s][i].from # 0 /\ rows[s][j].status = "ok" => rows[s][j].provider = seen[s][i].from

Content(lines) == FlattenSeq([i \in DOMAIN lines |-> lines[i].text])

\* A stream replayed from the cache shows its client the text that the client
\* of the original stream was shown, and logs the tokens the original logged.
ReplayFaithful ==
    \A s \in Streams :
        pc[s] = "end" /\ reply[s] # None =>
            /\ Content(seen[s]) = Content(seen[reply[s].by])
            /\ rows[s][1].usage = rows[reply[s].by][1].usage

\* A provider's usage report reaches the "ok" row whole: prompt tokens from
\* one event and completion tokens from another included.
BilledAsReported ==
    \A s \in Streams : \A i \in DOMAIN rows[s] :
        rows[s][i].status = "ok" /\ rows[s][i].provider # 0 /\ wire[s].reported =>
            rows[s][i].usage = [in |-> InputTokens, out |-> wire[s].pieces]

\* Every stream that was asked for ends: the candidate list is walked to its
\* end and the relay stops when the provider does.
EventuallyEnds == \A s \in Streams : pc[s] # "idle" ~> pc[s] \in Final

-----------------------------------------------------------------------------
(* What the comments say.                                                  *)

\* "a streaming request whose cache key already has a complete, cached response"
ReplayedIsComplete ==
    \A s \in Streams : reply[s] # None => wire[reply[s].by].phase = "stopped"
=============================================================================
