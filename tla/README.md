# A TLA+ verification of llm-gateway

llm-gateway is an asyncio/FastAPI proxy in front of several LLM providers. It
authenticates *virtual keys*, limits their rate and their spend, routes a model
to its providers, caches and coalesces identical requests over Redis, falls back
to the next provider when one fails, relays streams, and logs the usage it later
reads back to enforce the spend caps. Any number of replicas of the process share
one Redis and one SQL database.

This directory models the parts of it that keep state and can go wrong between
two awaits. Paths below are relative to `src/src/llm_gateway/`.

## 1. Inventory

| Part | Source | State | Operations | What makes it correct |
|---|---|---|---|---|
| Non-streaming gateway | `services/gateway.py`, `services/fallback.py` | `_inflight` (futures of the process) | `handle_chat_completion`: cache, join, lock, wait, call, release, share, store, bill | nobody waits for ever, a tenant sees only its own answers, what is served is billed |
| Response cache and lock | `services/cache.py` | Redis: entry and lock of a cache key | `get`, `_discard_entry`, `set`, `acquire_lock`, `release_lock`, `wait_for_result` | one winner at a time, no lock released by a stranger or leaked, a TTL that covers the call, a bounded wait |
| Rate limiter | `core/rate_limiter.py` | Redis: a sorted set per key | `check_rate_limit_status`: pipeline, roll back | never more than the limit in a window, no slots lost |
| Streaming | `routers/chat.py`, `services/streaming.py` | locals of the generators, cache entry | relay, accumulate, replay, fall back before the first line | one source per stream, one usage row, a replay equals its original |
| Provider adapters | `providers/*.py` | locals of a generator | pass OpenAI lines through, translate Anthropic events | usage survives the translation, the stream is terminated |
| Registry, router, model list | `providers/factory.py`, `services/router.py`, `routers/models.py` | the registry, fixed at start | `build_registry`, `select_providers`, `list_models`, `get_model` | candidates by priority; the early 404 and the catalogue agree with them |
| Admission | `routers/chat.py`, `core/security.py` | none of its own | authenticate, rate, key cap, global cap, `max_tokens` | no dead key served, a bounded overshoot |
| Usage log | `services/usage.py`, `services/metrics.py`, `models/api.py`, `storage/` | `usage_logs`, background tasks | schedule, insert, commit or lose a row; list, count and sum the rows | nothing counted twice, the sums do not shrink |
| Metrics | `services/prometheus_metrics.py` | label sets of the process, `_served_models` | record an answer or a failure | failures create no series for a client's free text |
| Dashboard API | `routers/logs.py`, `routers/usage.py` | none | page through the log, report the spend | paging misses no row, a report adds up |
| Key administration | `routers/keys.py`, `cli.py`, `storage/repositories.py` | `api_keys`, `audit_logs` | create (with a term), revoke, audit | the audit log agrees with the keys, a dead key administers nothing |
| Lifecycle | `main.py` | connections | start, shut down without waiting for background tasks | what was committed stays counted and listed |
| Health, middleware, configuration, schemas, migrations, frontend | `routers/health.py`, `core/`, ... | none | read-only or formatting | not modelled, see section 7 |

A request passes Admission (database and rate limiter), then either the
non-streaming gateway or the streaming path. Both of these use the same Redis cache
(never the same entry, as `stream` is part of the cache key) and call the router for their candidates; each schedules a background task that
writes the usage row which Admission sums up for later requests and the dashboard
lists. Replicas interact only
through Redis and the database; requests of a replica also through `_inflight`.

Hard behaviours: everything between two awaits (an answer is bought, shared,
unlocked, stored and billed in five different steps); locks with a TTL; Redis
replies that are lost after the command ran; crashes that leave locks, unbilled
answers and unaudited keys behind; provider errors in every phase of a stream;
sums that lag behind the answers. `PROJECT.json` lists them as hazards, each at its
line with the properties that cover it.

## 2. Modules

| Module | Models | Proofs | TLC |
|---|---|---|---|
| `ChatService` | abstract: what the non-streaming gateway promises | | through `SingleFlight` |
| `SingleFlight` | the non-streaming gateway, its cache and its lock | `SingleFlight_proofs` | `MCSingleFlight` |
| `LockLease` | the lock and the wait for it in real time | `LockLease_proofs` | `MCLockLease` |
| `RateLimiter` | the sliding window of one key | `RateLimiter_proofs` | `MCRateLimiter` |
| `Routing` | registry, candidate selection and catalogue, as operators | `Routing_proofs` | through `Streaming` |
| `Streaming` | streams of one cache key, with their adapters; EXTENDS `Routing` | `Streaming_proofs` | `MCStreaming` |
| `Admission` | checks, ledger, keys, audit log | `Admission_proofs` | `MCAdmission` |
| `UsageLog` | usage rows, metrics, and the clients that read them | `UsageLog_proofs` | `MCUsageLog` |
| `Sums` | the sums of `storage/repositories.py`, as an operator; used by `Admission` and `UsageLog` | `Sums_proofs` | through both |

All modules name a thing after the identifier in the code where TLA+ allows it.
A section "Faulty forms" at the head of a module holds plausible bugs
of definitions below it; each property is shown to fail when the matching one takes
the place of the original. They are not used otherwise.

### SingleFlight

A step is what a coroutine does between two awaits, or the effect of one Redis
command; Redis' effect and the resumption of its caller are separate steps
where something can happen in between (`ReleaseLock`, `Settle`). `pc[r]` is
the await at which request `r` is suspended:

| pc | line of `handle_chat_completion` (unless noted) |
|---|---|
| `get`, `discard` | `cache_service.get`, and its DEL of an entry that cannot be parsed |
| `check` | the lookup in `_inflight` and `select_providers` |
| `follow` | `await inflight` |
| `lock`, `wait` | `acquire_lock`, `wait_for_result` |
| `lead`, `call` | registration of the future; `execute_with_fallback` |
| `release`, `released` | `release_lock`; then `set_result` or the re-raise |
| `store`, `bill` | `cache_service.set`; the usage record |
| `served`, `failed`, `notfound`, `lost` | the outcome |

A response, a lock token and a future are named by the request that made
them. The poll loop is one action: a poll that finds nothing changes
nothing. `Faults` chooses what the environment may do: failing or slow
providers, answers that raise past the fallback loop (`odd`), Redis errors with
or without effect, crashes of a replica, expiry of entries and locks, unreadable
entries. The fault `overrun`, a lock that expires during the call it guards, is
excluded by `CallerHoldsLock` and by every run; `LockLease` says when that is
justified.

`ChatService` says what a client sees: a request buys at most one response, is
answered with it and billed, or is answered for free with a response bought for
the same tenant and body; one that bought a response does not fail.
`ImplementsService` is that specification under the mapping at the end of
`SingleFlight`.

### LockLease

SingleFlight has no clock, so whether a lock outlives its call is an assumption
there. `LockLease` is the same lock of one cache key with time: `clock` counts
ticks, and `Due(c)` is the instant by which what caller `c` awaits has happened or
raised (the socket timeout for a Redis command, the sleep of the poll loop, the
timeout of the candidate for one wait of a provider call). `Tick` is disabled while
something is due. `ExecuteSet` and `AcquireReplies` are separate, because the TTL
starts with the one and the call with the other. `CallFails` goes on to the next candidate,
or out of the fallback loop: after the last one, or at any one with an exception that is no
`ProviderError`. `NextWait` is what httpx does with a timeout:
each phase of a call gets it anew, so a call may last `Waits` timeouts; `overran`
records that it did. `TTL` is computed as `handle_chat_completion` and `acquire_lock`
do, sum, grace and rounding to seconds included. All the clocks agree, and
a command ends within one socket timeout (no retries by the client library).

`LeaseCoversCall` then says that a lock covers a call which did not overrun, also
beside callers that did: this is the exclusion of `overrun` in SingleFlight.
`LockOutlivesCall` drops that condition and is violated (section 5).

### RateLimiter

`ReadClock` is `time.time()`, `Pipeline` the MULTI/EXEC, `Rollback` the ZREM;
a Redis error may strike with or without its command having run. The EXPIRE is part of the
pipeline and takes effect in `Tick`. Three history variables (`horizon`, `sent`, `ran`)
exist for the properties only: `horizon` is the newest instant up to which Redis may have
forgotten, by pruning or by the EXPIRE, `sent` holds the calls whose pipeline took effect
and `ran` when it did. The clock is shared by replicas and Redis.

The promise "at most `Limit` in any `Window` seconds" does not hold as it stands, because a
call's stamp is older than its pipeline. Let the limit and the window be 2, two calls run at
0 and a third read the clock at 1: if its pipeline runs at 2, the EXPIRE has
removed the set, and three accepted calls are stamped in (-1, 1], although every
pipeline ran in the order of the stamps. A pipeline that runs after that of a later stamp is
let in likewise, as the later one pruned what the earlier should count. `SlidingWindow` is what does hold,
unconditionally: a window shortened by the longest delay between stamp and pipeline of the
calls in it. With no delay this is the promise itself.

### Routing and Streaming

`select_providers` is `sorted` by priority over the providers that serve the
model, stable, with the empty list as a wildcard. `Streaming` starts from any
registry that `Settings` allows and follows each generator through `Start` (early
404), the cache, and the candidates. `wire[s]` is the state of the provider's
body; `Translate` is the adapter; `Relay` is the body of the `async for`
(`capture_usage`, `feed`, yield); `Abort` an `except` branch followed by
`finally`; `TryNext` the `continue` to the next candidate. Text is abstracted to
numbered pieces, so that lost, repeated and reordered text can be told apart. The event `oddtext`
is a value that raises in the relay, the piece 0: a `content` that is no string, which both adapters
forward and `feed` cannot join. It stands for every other such value too, a payload that is no
object or a count that `int` rejects. `total_tokens` is left out: no usage row stores it.
`list_models` and `get_model` name the owner of a model by its position in the registry;
`CatalogueAgrees` compares them with what streams are told and with the chain they
walk.

### Admission

Every database session is a step. `usage_logs` is abstracted to what is read back:
the sum of the `ok` rows per key and overall. The cost of an answer is any
number up to the tokens it was allowed plus its prompt (a token costs 1). That a provider
reports neither more tokens than it was allowed nor a count that escapes the clamp (section
6) is an assumption of this module. The
verdict of the rate limiter is free here, as `RateLimiter` models it. `peak` and
`totalPeak` are history: how many requests were past a check at once.

An administrative call is made from the CLI, which needs no key, or over HTTP with a
key, any valid one. `Terms` holds the values of `expires_in_days` (omitted, null or
`--no-expiry`, 0, negative, too large); `Accepted` are the bounds of `KeyCreate`, which
the CLI lacks, and `Term` the CLI's `or`, which takes 0 for an omission. `dead` and
`barred` are history: requests and calls that came with a key not valid any more.

### UsageLog

A request is answered (`Complete`: clamp, price, metrics, schedule) or refused
(`Fail`), and its row is then inserted, which fixes its id, and committed, which
makes it visible; so ids and visibility may be in different orders. `PersistFails`
and `Restart` lose rows. `Restart` is a crash and `lifespan`'s shutdown alike, as the latter
closes the connections without waiting for `_background_tasks`; it also empties the metrics. `client` is a
reader of the dashboard: it pages through `/api/logs` until `offset` reaches `total`
as the route's docstring intends, or asks for `/api/usage/spend`. `list_logs` and `get_spend` are
the orders in which the two handlers await their queries. Labels and filters
are abstracted to model and status. The price of an answer is that of the model that was asked
for, or 0 from the cache; its model is what the provider echoed, or for a stream the one
asked for.

`Counts` are token counts as providers report them: a number, and whether the JSON writes
it as an int, a float or a string. `_never_negative` runs before pydantic's conversion and clamps ints
only; `_to_int`, through which the counts of streams pass, makes ints of strings and ignores floats.
The history field `clamped` of a row says that its count was an int when it came to the clamp.

## 3. Runs

All bounds are in the `.cfg` files.

| Run | Instance | Shows |
|---|---|---|
| `sf_faults` | 3 identical requests, 2 replicas, 2 candidates, all faults but `overrun` | `TypeOK`, `InflightIsLive`, `FollowersAreWoken`, `CallerHoldsLock`, `ServedIsBilled`, `OnlyOwnerLeaves`, `ImplementsService` |
| `sf_live` | 3 requests of 2 tenants, 2 replicas, fair; failing, slow, odd answers, crashing | `AnswersOwnRequest`, `LocksNotLeaked`, `EventuallyAnswered` |
| `lease` | 2 callers, 2 candidates of half a second, a tick of half a second, waits of 2 timeouts, clock to 9 | `TypeOK`, `LeaseCoversCall`, `WaitBounded` |
| `rl_window` | 4 calls, limit 2, window 3, clock to 5, Redis errors | `TypeOK`, `WithinLimit`, `SlidingWindow`, `RollbackComplete`, `RejectionHasCause` |
| `st_faults` | 2 streams, 6 registries, upstream errors, cut bodies, error events, odd values, disconnects, Redis errors | `TypeOK`, `LoggedOnce`, `OneSource`, `RejectedIffUnroutable`, `CatalogueAgrees` |
| `st_replay` | 2 streams, answers of 2 pieces, 2 registries (fallback between the kinds of adapter, either way), evictions, fair | `ReplayFaithful`, `BilledAsReported`, `EventuallyEnds` |
| `adm_cap` | 3 requests, a capped and an uncapped key, a global cap, lost rows, disconnects, unreadable answers, crashes | `TypeOK`, `KeyOvershootBounded`, `GlobalOvershootBounded`, `ReachedIsFinal`, `LedgerExact` |
| `adm_keys` | 1 request and 3 administrative calls of any caller, all classes of terms, crashes | `DeadKeysAreRejected`, `AuditMatchesKeys` |
| `usage_log` | 3 requests, 2 keys, 2 model names, counts 1, -1 and -1.0, a ceiling of 1, pages of 1, restarts | `TypeOK`, `PagesCoverLog`, `ErrorLabelsBounded`, `ReportConsistent`, `SpendShrinksOnlyUnclamped` |
| `sf_doc_first`, `lease_doc_ttl`, `st_doc_replay` | smallest instances | expected violations, section 5 |

Why the bounds are enough. Coalescing relates a leader to a follower or to a
second leader; the third request lets a second leader appear while a follower
waits for the first, and two replicas separate the lock from `_inflight`. Two
candidates give one fallback, and more would repeat it. Four calls with a limit of two fill
the window, reject a call, and let a fourth come during the rollback; a window of 3 lets a
call be delayed by less than the window, and a clock to 5 lets the set expire under it, with a call after that. Two streams are an original and its replay; two
pieces tell an overwritten text from an appended one. Three requests overshoot a cap of 2
by more than one answer. Three administrative calls create a key, use it and revoke it. Two
callers are a winner and a loser, or a late winner and its successor; the sum of the
timeouts and the grace is odd in ticks, so that rounding to seconds matters, and the clock
passes a whole lease. A positive count, a negative one and one that escapes the clamp are all that
sums can tell apart; pages show neither costs nor sums, so beside a pager all rows are of
one key and free (`PagerIgnoresCosts` of `MCUsageLog`). Three rows in pages of one let a page
shift under the client and a row with a lower id appear late. Requests, calls and streams are never named by an action,
so they are symmetric; replicas too. Runs with a liveness property use no
symmetry; `sf_live` starts instead from one of each set of interchangeable initial states
(`FairTenants` of `MCSingleFlight`).

**Fairness.** `FairSpec` of `SingleFlight` and `Streaming` assumes weak fairness of
each coroutine's step and nothing of the environment. The code justifies it:
the event loop resumes every coroutine whose await completed, and
every await completes, since Redis commands and provider phases have timeouts, the poll has
a deadline, and a silent provider is cut off by the read timeout. A future has no timeout;
that it completes is the point of `EventuallyAnswered`. It is not assumed that a
request or a stream arrives (`Arrive` and `Start` are no part of a `Step`), nor that anything
expires. A client need not stay, but the client of a stream that neither reads on nor
disconnects, and a provider that trickles for ever, are outside: `EventuallyEnds` assumes that what is
yielded is taken, and that bodies are finite (`MaxPieces`).

## 4. Theorems

TLAPS checks the following for every value of the constants that satisfies the
named assumptions (`ConstantsAssumption`, `RateAssumption`,
`AdmissionAssumption`, `LeaseAssumption`, `StreamingAssumption`,
`UsageLogAssumption`): any number of requests, replicas, tenants, calls, keys, streams, any
catalogue of providers and any set of faults.

**SingleFlight_proofs.** `InflightIsLive` and its companions are not inductive
by themselves. `IInv` adds `RequestShape` (what `pc` says about a request's
future, attempt and answer), `FollowerShape` (a follower's leader was
in a call on the same replica), `ResponseIsBought` and `CacheIsBought`
(every answer, and every entry, was produced by a call for the same tenant and
body). A crash is the hard case: it ends leader and followers together because
an entry only names requests of its own process. From `IInv` follow
`TypeCorrect`, `InflightAlwaysLive`, `FollowersNeverAbandoned`, `LockExcludes`,
`TenantsIsolated`, `ServedAlwaysBilled`, the action property
`EntriesLeaveWithOwner`, and `GatewayImplementsService`: initial states map to
initial states and each action to one action of `ChatService` or to a stutter.
`NoLockLeaks` has an invariant of its own, `LockIsOwned`: without Redis errors the
value of the lock names a request of that very cache key, which has its token and is
between `acquire_lock` and `release_lock`, or dead.

**LockLease_proofs.** `LeaseCoversCall` at the i-th candidate needs a
lower bound on what is left of the lease: `LeaseAtCall` says that a winner which has
not overrun and began candidate i at time b still owns the lock, with
`expires >= b + Rest[i]`, where `Rest[i]` is the sum of the timeouts from i on.
`LeaseAtReply` gives the start of that chain: between the SET and its reply at most a socket
timeout passes, which the grace covers (`SocketTimeout <= Grace`, true of
the shipped values, 5 and 5 seconds, and left to the operator by the code). Moving on to candidate i + 1 within
the timeout of i uses `Rest[i] = Timeout[i] + Rest[i + 1]`. `Untokened` says who may
have won a lock without a token, `Paced` that no clock runs past what is due. Together they are `LeaseInv`,
from which `LeaseAlwaysCovers` follows, and `TypeCorrect`. `WaitIsBounded` rests on
`WaitInv`: a poll begins before the deadline, and a sleep begins at most one socket timeout
after it.

**RateLimiter_proofs.** `IInv` is the conjunction of the properties and of
`SentShape`, which ties `sent`, `pc` and `verdict` together. The core is that the pruned
set holds every young accepted call, so that ZCARD bounds them
(`QuotaNeverExceeded`). `WindowsBounded` rests on a fact in `SentShape`: neither a prune nor an
EXPIRE takes the horizon beyond `clock - Window`. The pipeline of an accepted call c runs at
most `delay` after its stamp, so the horizon is then behind every window, shortened by
`delay`, that c belongs to; its other calls are young, and counted (`NewlyAccepted`). Every
other step leaves the windows as they are (`WindowsKept`). `RejectionsJustified` and
`RollbacksComplete` are the converse: no call is rejected without a cause, and only
errors leave slots behind. `TypeCorrect` includes that no stamp is later than the clock.

**Admission_proofs.** `KeyOvershoot` and `GlobalOvershoot` need the sum *and* the
outstanding cost on the left-hand side: writing a row then moves cost from
one to the other, and only passing a check, where the sum is below the limit, raises the
peak. `OverShape` and `DeadShape` say how far a request that came too late
can be; `AuditShape` what a call between its commits has done. `LimitsAreFinal`,
`DeadKeysStayDead` and `AuditTrail` follow, and `TypeCorrect` with the ceiling on tokens. That dead keys stay
dead (`DeadForever`) is a lemma about every action, `CreateKey` of a key with a term in the past
included; `BarredShape` carries it over to administrative calls. `LedgerIsExact` rests on
the laws of sums: writing one row adds its cost to the sum of its key
and to the global one, and changes no other sum, since a written row's cost and key
stay what they were.

**UsageLog_proofs.** `PagesComplete` is the hard one: ids are handed out before rows
become visible, in another order, and a page is cut by position, not by id. `Ahead` says that
a row which is due and not yet seen lies at `offset` or later in the order of the
table, behind the page once that was read, and before `total` once that was read too. New rows
only move the old ones to later positions, so that `Ahead` survives every
commit, and when `offset` has reached `total` nothing due is left. `LaterIsBefore`,
`PositionsDiffer` and the lemmas on `list_usage_logs` are about those positions. `ReportsConsistent` needs that the
key's sum, read first, is still below the global sum when that is read (`ReportShape`), since
costs are not negative while all counts were clamped (`RowCosts`); a row that was not
voids the claim, and stays in the table. `SpendMonotone` says the rest: no step lowers a sum, but the commit of such a
row (`OnlyCommitsShow`, `SumAfter`). `ErrorLabels`
needs that a tracked model has an "ok" series (`LabelShape`). All parts are in one `IInv`, with `TypeOK`.

**Streaming_proofs.** `IInv` has seven parts per stream and one for the cache:
`Route` (a 404 means an empty chain, and the candidate is in the chain), `Place` (what `pc` says about
`serving`, the phase of the body and the cache's reply), `Report` (a report the
provider has sent is what `usage` and the accumulator hold; Anthropic's prompt tokens
wait in the adapter), `Source` (every line is from
the serving provider or the gateway, whose error can only be the last line), `Account` (no row before the
end, one afterwards, billed to `serving` with `usage`), `Replaying` (what was yielded is a
prefix of the synthesized lines), `Accumulated` (the accumulator's content is the text of the lines
yielded so far) and `CacheTruthful` (the entry, and every response a stream took from it, tells
the text and the tokens of a stream that has ended). The last two make `ReplaysAreFaithful`,
the end of a stream being the one place where its own text becomes the cache's;
`Account` with `Source` makes `OneRowPerStream` and `OneProviderPerStream`, `Account` with
`Report` makes `UsageIsBilled`. Since the two kinds of adapter put the report into different events,
`EventSound` does each event of each kind. `RejectedOnlyIfUnroutable` is `Route`, and
`CatalogueTellsTheTruth` is `Route` with `CatalogueMatchesRouting`. Steps are shown to keep `IInv`
through one lemma, `OneStep`: a step that writes only the variables of its stream leaves the parts
of the others alone, and only has to show its own part and that what it stores is `Truthful`.

**Sums_proofs.** The laws of `SumOver` for finite sets: the sum over no row
is 0, a row adds its value, sums with non-negative
values grow with the set, and functions that agree on the set have the same sum. `SumOver` is a fold, defined by
recursion. A rule of induction has a predicate as its parameter, which the provers cannot
instantiate, so recursion is reasoned about here by smallest counterexamples: if the set of
arguments at which a law fails is not empty it has a minimal member (`SmallestSubset`, `LeastNatural`), and
the recursive equation refutes that. `RegistryType`, `FlatUnfold` and
`FlattenAppend` of Streaming_proofs do the same along a list (`Climb`, `StepsExist`): the
registry that `build_registry` returns is a list of the catalogue's providers, and the text
of one more line is appended to the text before it.

**Routing_proofs.** `SelectsInOrder`: `Rank` maps the candidates injectively into
`1..n`, hence onto it, so the `CHOOSE` in `select_providers` is defined
everywhere and the result lists exactly the candidates in ascending priority.
`KnownIffRoutable`: the early 404 agrees with it for every registry.
`CatalogueMatchesRouting`: so does `get_model`; both catalogue routes name the same
owner, and only wildcard providers precede it among the candidates.

TLC checked every inductive invariant as an invariant of the component's runs before it
was proved.

Only model-checked: the liveness properties `EventuallyAnswered` and `EventuallyEnds`
(fairness and ENABLED are out of the prover's reach). Every invariant and every action
property that a run checks is also a theorem. The documented claims of section 5 are
refuted by TLC.

## 5. Findings

Each is an expected violation, with a trace that TLC produces.

- **`sf_doc_first`**: "only the first triggers a provider call" (`gateway.py:68`).
  The future leaves `_inflight` and the lock is released before the entry is
  stored; a request that looks in between calls the provider again, with no fault
  at all.
- **`lease_doc_ttl`** (a bug): "the lock's TTL has to cover the worst case of the call it
  protects" (`gateway.py:93`, `cache.py:143`). The timeout is given to httpx
  (`base.py:62`), which applies it to each wait of the call; an answer that trickles
  in keeps the call alive past the lock, and another replica buys it again.
- **`st_doc_replay`** (a bug): a stream that a provider broke off with an error event
  counts as complete; it is logged `ok`, cached, and replayed.

## 6. Observations

Seen while modelling; no run is kept for them.

- A provider can lower the spend. "A negative count of the upstream becomes 0" says the
  docstring of the clamp (`models/api.py:126`; so does `tests/unit/test_models.py:97`), but the clamp sees the
  value before pydantic converts it and handles ints only (`models/api.py:137`): the count -5.0 or "-5" of a
  non-streaming answer is stored as -5, its cost is negative, and the sums of the spend
  caps fall. `SpendShrinksOnlyUnclamped` shows that nothing else lowers them, and
  `ReportConsistent` needs that no such row is in the table.
- After a wait that ran out a process may have two calls for one cache key in flight
  (`gateway.py:125`); the comment at `gateway.py:23-25` promises one.
- An unreadable entry ends `wait_for_result` early (`cache.py:191`).
- `_discard_entry` may delete a good entry stored since the read (`cache.py:94`).
- A provider's error in mid-stream gives an `ok` row (see `st_doc_replay`).
- If every candidate's body is empty the client is told that no provider is
  available (`streaming.py:64-65`).
- A spend cap is not hard, as `cli.py:141-142` suggests; `KeyOvershootBounded` says by
  how much it can be exceeded.
- The model lists of the shipped registry are disjoint, so fallback needs a
  registry of one's own, such as the one `MCStreaming` has.
- A rejected call holds its slot until its ZREM, and another call may be rejected for it
  (`rate_limiter.py:55`; the comment at line 60 speaks of accepted calls only).
- A key and its audit entry are two commits, and a crash may come between them
  (`keys.py:123`; the module says that every action is audited).
- An answer of an unexpected shape (a list, a null `content`) raises TypeError or
  AttributeError in the adapter, which `_parse_response` does not wrap (`base.py:131`): no fallback, a
  plain 500 and no usage row, although `fallback.py:16` promises to skip "on any
  provider-side failure".
- `get_model` reports an explicit owner even where a wildcard provider of a lower
  priority value is tried first (`models.py:51-57`).
- `--expires-in-days 0` gives a key of 90 days, and negative terms are accepted (`cli.py:160`);
  the HTTP route rejects both. A key born dead is refused like any other.
- The help of `--spend-limit-usd` speaks of a monthly cap; nothing resets the sums
  (`SpendShrinksOnlyUnclamped`).
- The series of *answers* are labelled with whatever model providers echo or, for a
  stream, the client asked for (`streaming.py:122`), beyond
  `_MAX_TRACKED_MODELS` (`prometheus_metrics.py:91`); only those of failures are bounded.
- A call whose pipeline runs after the EXPIRE of the set, or after the pipeline of a later
  stamp, is admitted although its window is full (`rate_limiter.py:32-41`); `SlidingWindow` says by how much.

## 7. Not modelled

- Health checks, `list_keys` and `/metrics` read state and change none; nothing
  interleaves with them that the other readers do not show.
- Payload building, error envelopes, headers, request ids, logging: formatting.
- The values of the Prometheus counters: nothing reads them back.
- The shipped price tables (data; `Price` of `UsageLog` is any function) and the hashing of
  keys (a key is its id).
- Validators of request bodies other than the token ceiling: they reject a request after
  admission and before anything happens.
- Cancellation of a non-streaming handler: the server cancels handlers only at shutdown.
- Retries inside the Redis client, clock drift between replicas.
- Migrations and the frontend.

## 8. Plan

1. Done: `ChatService`, `SingleFlight`, `RateLimiter`, `Routing`, `Streaming`,
   `Admission` and their runs; proofs for all but `Streaming`.
2. Done: `LockLease` with its proofs, `UsageLog`, the catalogue in `Routing`, callers and
   terms of keys in `Admission`, answers that raise in `SingleFlight` and
   `Admission`. A composition of `Admission` with `RateLimiter` would add nothing: the verdict is
   free in `Admission`, and no property of `RateLimiter` depends on who calls.
3. Done: `Sums`, the proofs about `Streaming` and `UsageLog`, `LedgerIsExact`, `NoLockLeaks` and the
   types of `RateLimiter`. Every safety property that is checked is proved. The window of `RateLimiter`
   and the sums of `UsageLog` are stated without assumptions on the order of pipelines or the form of counts.
4. Next: the link between `LockLease` and `SingleFlight` as a theorem (the
   exclusion of `overrun` is argued in section 2 and not proved), and abstract
   specifications of `RateLimiter` and `Streaming` that they refine.
