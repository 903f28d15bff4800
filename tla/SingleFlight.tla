---------------------------- MODULE SingleFlight ----------------------------
(***************************************************************************)
(* handle_chat_completion (services/gateway.py) together with the Redis    *)
(* cache and lock it uses (services/cache.py): the non-streaming path of   *)
(* the gateway, run by many requests on several replicas of the process.   *)
(*                                                                         *)
(* A step is what one coroutine does between two awaits, or what Redis     *)
(* does with one command: the effect of a command and the resumption of    *)
(* the coroutine that sent it are different steps, because other           *)
(* coroutines of the same event loop run between them.                     *)
(*                                                                         *)
(* A response is named by the request whose provider call produced it, a   *)
(* lock token and a future by the request that created them (each request  *)
(* creates at most one of each).                                           *)
(***************************************************************************)
EXTENDS Naturals, FiniteSets

CONSTANTS
    Requests,       \* identifiers of HTTP requests
    Replicas,       \* gateway processes behind the load balancer
    Tenants,        \* virtual key ids (the namespace of a cache key)
    Bodies,         \* normalised request bodies
    Candidates,     \* Candidates[b] = Len(select_providers(registry, b.model))
    Faults,         \* what the environment of this instance may do
    None,           \* Python's None / a missing Redis key
    Unreadable      \* a cache entry that ChatResponse cannot parse

(***************************************************************************)
(*  "upstream"  a provider call may raise a ProviderError                  *)
(*  "odd"       a provider may send a body that its adapter cannot read    *)
(*  "slow"      a call may outlast the 2 s that wait_for_result waits      *)
(*  "redis"     a Redis command may raise, with or without its effect      *)
(*  "crash"     a replica may die and restart                              *)
(*  "expiry"    the TTL of a cache entry or of an unused lock may elapse   *)
(*  "overrun"   the TTL of a lock may elapse during the call it guards     *)
(*  "poison"    an unreadable entry may appear under a cache key           *)
(***************************************************************************)
AllFaults ==
    {"upstream", "odd", "slow", "redis", "crash", "expiry", "overrun", "poison"}

\* Whatever can keep the winner of the lock from caching a result in time
\* also lets the losers' wait run out.
ASSUME ConstantsAssumption ==
    /\ Candidates \in [Bodies -> Nat]
    /\ Faults \subseteq AllFaults
    /\ Faults \cap {"upstream", "odd", "redis", "crash", "expiry"} # {} => "slow" \in Faults
    /\ None \notin Requests
    /\ Unreadable \notin Requests
    /\ Unreadable # None

VARIABLES
    pc,         \* where each request is in handle_chat_completion
    at,         \* the replica the load balancer sends it to
    req,        \* its tenant and body; neither ever changes
    token,      \* TRUE when its lock_token is not None
    attempt,    \* index of the provider it is calling
    future,     \* state of the future it created
    following,  \* the request whose future it awaits
    answer,     \* the response it obtained
    usage,      \* the usage record it scheduled
    inflight,   \* _inflight of every replica
    lock,       \* Redis: the value of lock:<cache key>
    cache       \* Redis: the value of <cache key>

fixed == <<at, req>>
redis == <<lock, cache>>
vars == <<pc, fixed, token, attempt, future, following, answer, usage, inflight, redis>>

Keys == Tenants \X Bodies
Terminal == {"served", "failed", "notfound", "lost"}
Live == {"get", "discard", "check", "follow", "lock", "wait", "lead", "call",
         "release", "released", "store", "bill"}

-----------------------------------------------------------------------------
(* Faulty forms of the definitions below, against which the properties     *)
(* are tested.                                                             *)

\* the cache key ignores the virtual key
key_without_namespace(r) == <<CHOOSE t \in Tenants : TRUE, req[r].body>>

\* `del _inflight[cache_key]`, whoever owns the entry
leave_blindly(r) ==
    [inflight EXCEPT ![at[r]][<<req[r].tenant, req[r].body>>] = None]

\* DEL without comparing the token
release_blindly(r) == [lock EXCEPT ![<<req[r].tenant, req[r].body>>] = None]

\* the failure path forgets future.set_exception
fail_silently(r) == future

\* the failure path returns without releasing the lock
fail_without_release(r) == "failed"

\* the `finally` forgets _inflight
stay_inflight(r) == inflight

\* off by one at the end of the candidate list
one_candidate_too_many(r) == attempt[r] <= Candidates[req[r].body]

\* the coroutine re-raises although the call succeeded
settle_as_failure(r) ==
    /\ pc[r] = "released"
    /\ pc' = [pc EXCEPT ![r] = "failed"]
    /\ UNCHANGED <<fixed, token, attempt, future, following, answer, usage, inflight, redis>>

\* returns right after cache_service.set, before the usage record
store_and_return(r) ==
    /\ pc[r] = "store"
    /\ cache' = [cache EXCEPT ![<<req[r].tenant, req[r].body>>] = r]
    /\ pc' = [pc EXCEPT ![r] = "served"]
    /\ UNCHANGED <<fixed, token, attempt, future, following, answer, usage, inflight, lock>>

-----------------------------------------------------------------------------
(* sha256 over the normalised body is taken to be injective; the namespace *)
(* prefix is the virtual key id.                                           *)
build_cache_key(r) == <<req[r].tenant, req[r].body>>

RedisError == "redis" \in Faults

Goto(r, label) == pc' = [pc EXCEPT ![r] = label]

\* _record_cache_style_usage: answered without a provider call, at zero cost
ServeFree(r, response) ==
    /\ Goto(r, "served")
    /\ answer' = [answer EXCEPT ![r] = response]
    /\ usage' = [usage EXCEPT ![r] = "free"]

Init ==
    /\ pc = [r \in Requests |-> "idle"]
    /\ at \in [Requests -> Replicas]
    /\ req \in [Requests -> [tenant : Tenants, body : Bodies]]
    /\ token = [r \in Requests |-> FALSE]
    /\ attempt = [r \in Requests |-> 0]
    /\ future = [r \in Requests |-> "none"]
    /\ following = [r \in Requests |-> None]
    /\ answer = [r \in Requests |-> None]
    /\ usage = [r \in Requests |-> "none"]
    /\ inflight = [p \in Replicas |-> [k \in Keys |-> None]]
    /\ lock = [k \in Keys |-> None]
    /\ cache = [k \in Keys |-> None]

-----------------------------------------------------------------------------
(* Cache lookup: `cached = await cache_service.get(cache_key)`.            *)

Arrive(r) ==
    /\ pc[r] = "idle"
    /\ Goto(r, "get")
    /\ UNCHANGED <<fixed, token, attempt, future, following, answer, usage, inflight, redis>>

GetHit(r) ==
    /\ pc[r] = "get"
    /\ cache[build_cache_key(r)] \in Requests
    /\ ServeFree(r, cache[build_cache_key(r)])
    /\ UNCHANGED <<fixed, token, attempt, future, following, inflight, redis>>

GetMiss(r) ==
    /\ pc[r] = "get"
    /\ \/ cache[build_cache_key(r)] = None /\ Goto(r, "check")
       \/ cache[build_cache_key(r)] = Unreadable /\ Goto(r, "discard")
       \/ RedisError /\ Goto(r, "check")
    /\ UNCHANGED <<fixed, token, attempt, future, following, answer, usage, inflight, redis>>

\* _discard_entry: the DEL of the key whose value was unreadable a while ago
DiscardEntry(r) ==
    /\ pc[r] = "discard"
    /\ \/ cache' = [cache EXCEPT ![build_cache_key(r)] = None]
       \/ RedisError /\ cache' = cache
    /\ Goto(r, "check")
    /\ UNCHANGED <<fixed, token, attempt, future, following, answer, usage, inflight, lock>>

-----------------------------------------------------------------------------
(* Coalescing: within the process through _inflight, across replicas       *)
(* through the Redis lock.                                                 *)

CheckInflight(r) ==
    LET owner == inflight[at[r]][build_cache_key(r)] IN
    /\ pc[r] = "check"
    /\ \/ /\ owner # None
          /\ following' = [following EXCEPT ![r] = owner]
          /\ Goto(r, "follow")
       \/ /\ owner = None
          /\ Candidates[req[r].body] = 0    \* NoProviderAvailableError, nothing attempted
          /\ Goto(r, "notfound")
          /\ UNCHANGED following
       \/ /\ owner = None
          /\ Candidates[req[r].body] > 0
          /\ Goto(r, "lock")
          /\ UNCHANGED following
    /\ UNCHANGED <<fixed, token, attempt, future, answer, usage, inflight, redis>>

\* `response = await inflight`, woken by set_result or set_exception
Follow(r) ==
    LET leader == following[r] IN
    /\ pc[r] = "follow"
    /\ \/ future[leader] = "result" /\ ServeFree(r, answer[leader])
       \/ future[leader] = "exception" /\ Goto(r, "failed") /\ UNCHANGED <<answer, usage>>
    /\ UNCHANGED <<fixed, token, attempt, future, following, inflight, redis>>

\* SET NX finds no key
LockIsFree(r) == lock[build_cache_key(r)] = None

\* acquire_lock; a RedisError may hide a SET that took effect
AcquireLock(r) ==
    /\ pc[r] = "lock"
    /\ \/ /\ LockIsFree(r)
          /\ lock' = [lock EXCEPT ![build_cache_key(r)] = r]
          /\ token' = [token EXCEPT ![r] = TRUE]
          /\ Goto(r, "lead")
       \/ /\ ~LockIsFree(r)
          /\ Goto(r, "wait")
          /\ UNCHANGED <<lock, token>>
       \/ /\ RedisError
          /\ \/ UNCHANGED lock
             \/ LockIsFree(r) /\ lock' = [lock EXCEPT ![build_cache_key(r)] = r]
          /\ Goto(r, "wait")
          /\ UNCHANGED token
    /\ UNCHANGED <<fixed, attempt, future, following, answer, usage, inflight, cache>>

\* wait_for_result: a poll that finds nothing changes nothing
WaitForResult(r) ==
    /\ pc[r] = "wait"
    /\ \/ /\ cache[build_cache_key(r)] \in Requests
          /\ ServeFree(r, cache[build_cache_key(r)])
       \/ /\ \/ cache[build_cache_key(r)] = Unreadable
             \/ RedisError
             \/ "slow" \in Faults           \* the deadline
          /\ Goto(r, "lead")
          /\ UNCHANGED <<answer, usage>>
    /\ UNCHANGED <<fixed, token, attempt, future, following, inflight, redis>>

-----------------------------------------------------------------------------
(* The provider call, with or without the lock.                            *)

Lead(r) ==
    /\ pc[r] = "lead"
    /\ future' = [future EXCEPT ![r] = "pending"]
    /\ inflight' = [inflight EXCEPT ![at[r]][build_cache_key(r)] = r]
    /\ attempt' = [attempt EXCEPT ![r] = 1]
    /\ Goto(r, "call")
    /\ UNCHANGED <<fixed, token, following, answer, usage, redis>>

\* `finally`: only our own future leaves _inflight
LeaveInflight(r) ==
    IF inflight[at[r]][build_cache_key(r)] = r
    THEN [inflight EXCEPT ![at[r]][build_cache_key(r)] = None]
    ELSE inflight

\* Without a lock to release there is no await between the end of the call
\* and set_result.
CallSucceeds(r) ==
    /\ pc[r] = "call"
    /\ answer' = [answer EXCEPT ![r] = r]
    /\ inflight' = LeaveInflight(r)
    /\ IF token[r]
       THEN Goto(r, "release") /\ UNCHANGED future
       ELSE Goto(r, "store") /\ future' = [future EXCEPT ![r] = "result"]
    /\ UNCHANGED <<fixed, token, attempt, following, usage, redis>>

HasNextCandidate(r) == attempt[r] < Candidates[req[r].body]

\* ProviderError: execute_with_fallback goes on to the next candidate
CallFallsBack(r) ==
    /\ pc[r] = "call"
    /\ "upstream" \in Faults
    /\ HasNextCandidate(r)
    /\ attempt' = [attempt EXCEPT ![r] = @ + 1]
    /\ UNCHANGED <<pc, fixed, token, future, following, answer, usage, inflight, redis>>

\* future.set_exception(exc)
SetException(r) == [future EXCEPT ![r] = "exception"]

\* the `finally` of the failure path releases the lock before it re-raises
AfterFailure(r) == IF token[r] THEN "release" ELSE "failed"

\* ProviderError from the last candidate; or, from any of them, an exception
\* that _parse_response does not wrap and the loop does not catch
CallFails(r) ==
    /\ pc[r] = "call"
    /\ \/ "upstream" \in Faults /\ ~HasNextCandidate(r)
       \/ "odd" \in Faults
    /\ future' = SetException(r)
    /\ inflight' = LeaveInflight(r)
    /\ Goto(r, AfterFailure(r))
    /\ UNCHANGED <<fixed, token, attempt, following, answer, usage, redis>>

\* _RELEASE_LOCK_SCRIPT: compare and delete in one command
Released(r) ==
    IF lock[build_cache_key(r)] = r
    THEN [lock EXCEPT ![build_cache_key(r)] = None]
    ELSE lock

ReleaseLock(r) ==
    /\ pc[r] = "release"
    /\ \/ lock' = Released(r)
       \/ RedisError /\ lock' = lock
    /\ Goto(r, "released")
    /\ UNCHANGED <<fixed, token, attempt, future, following, answer, usage, inflight, cache>>

\* the coroutine resumes after release_lock: set_result, or re-raise
Settle(r) ==
    /\ pc[r] = "released"
    /\ IF answer[r] = r
       THEN Goto(r, "store") /\ future' = [future EXCEPT ![r] = "result"]
       ELSE Goto(r, "failed") /\ UNCHANGED future
    /\ UNCHANGED <<fixed, token, attempt, following, answer, usage, inflight, redis>>

\* cache_service.set; a RedisError may hide a SET that took effect
Store(r) ==
    /\ pc[r] = "store"
    /\ \/ cache' = [cache EXCEPT ![build_cache_key(r)] = r]
       \/ RedisError /\ cache' = cache
    /\ Goto(r, "bill")
    /\ UNCHANGED <<fixed, token, attempt, future, following, answer, usage, inflight, lock>>

\* build_usage_record at the provider's price, emit, schedule persist, return
Bill(r) ==
    /\ pc[r] = "bill"
    /\ usage' = [usage EXCEPT ![r] = "paid"]
    /\ Goto(r, "served")
    /\ UNCHANGED <<fixed, token, attempt, future, following, answer, inflight, redis>>

-----------------------------------------------------------------------------
(* The environment.                                                        *)

\* A process dies with its coroutines and its _inflight; Redis keeps the
\* locks it held.
Crash(p) ==
    /\ "crash" \in Faults
    /\ \E r \in Requests : at[r] = p /\ pc[r] \in Live
    /\ pc' = [r \in Requests |-> IF at[r] = p /\ pc[r] \in Live THEN "lost" ELSE pc[r]]
    /\ inflight' = [inflight EXCEPT ![p] = [k \in Keys |-> None]]
    /\ UNCHANGED <<fixed, token, attempt, future, following, answer, usage, redis>>

\* The TTL given to acquire_lock covers the whole fallback chain, so a lock
\* outlives the call it guards unless the call overruns its timeouts.
Guarded(k) == \E r \in Requests : lock[k] = r /\ token[r] /\ pc[r] \in {"lead", "call"}

LockExpires(k) ==
    /\ "expiry" \in Faults
    /\ lock[k] # None
    /\ Guarded(k) => "overrun" \in Faults
    /\ lock' = [lock EXCEPT ![k] = None]
    /\ UNCHANGED <<pc, fixed, token, attempt, future, following, answer, usage, inflight, cache>>

EntryExpires(k) ==
    /\ "expiry" \in Faults
    /\ cache[k] # None
    /\ cache' = [cache EXCEPT ![k] = None]
    /\ UNCHANGED <<pc, fixed, token, attempt, future, following, answer, usage, inflight, lock>>

\* an entry written by a release with another schema, or a truncated one
EntryPoisoned(k) ==
    /\ "poison" \in Faults
    /\ cache[k] # Unreadable
    /\ cache' = [cache EXCEPT ![k] = Unreadable]
    /\ UNCHANGED <<pc, fixed, token, attempt, future, following, answer, usage, inflight, lock>>

-----------------------------------------------------------------------------
\* One resumption of a request's coroutine, or one Redis command of it
Step(r) ==
    \/ GetHit(r) \/ GetMiss(r) \/ DiscardEntry(r)
    \/ CheckInflight(r) \/ Follow(r)
    \/ AcquireLock(r) \/ WaitForResult(r)
    \/ Lead(r) \/ CallSucceeds(r) \/ CallFallsBack(r) \/ CallFails(r)
    \/ ReleaseLock(r) \/ Settle(r) \/ Store(r) \/ Bill(r)

Environment ==
    \/ \E p \in Replicas : Crash(p)
    \/ \E k \in Keys : LockExpires(k) \/ EntryExpires(k) \/ EntryPoisoned(k)

\* every request has been answered, or died with its replica
Done ==
    /\ \A r \in Requests : pc[r] \in Terminal
    /\ UNCHANGED vars

Next ==
    \/ \E r \in Requests : Arrive(r) \/ Step(r)
    \/ Environment
    \/ Done

Spec == Init /\ [][Next]_vars

\* asyncio resumes every coroutine whose await has completed, and every await
\* completes: Redis commands and provider calls have timeouts, the poll loop
\* a deadline.
FairSpec == Spec /\ \A r \in Requests : WF_vars(Step(r))

-----------------------------------------------------------------------------
(* Properties.                                                             *)

\* The types of the variables; execute_with_fallback never runs past the
\* candidates that select_providers returned.
TypeOK ==
    /\ pc \in [Requests -> {"idle"} \cup Live \cup Terminal]
    /\ at \in [Requests -> Replicas]
    /\ req \in [Requests -> [tenant : Tenants, body : Bodies]]
    /\ token \in [Requests -> BOOLEAN]
    /\ attempt \in [Requests -> Nat]
    /\ \A r \in Requests : attempt[r] <= Candidates[req[r].body]
    /\ future \in [Requests -> {"none", "pending", "result", "exception"}]
    /\ following \in [Requests -> Requests \cup {None}]
    /\ answer \in [Requests -> Requests \cup {None}]
    /\ usage \in [Requests -> {"none", "free", "paid"}]
    /\ inflight \in [Replicas -> [Keys -> Requests \cup {None}]]
    /\ lock \in [Keys -> Requests \cup {None}]
    /\ cache \in [Keys -> Requests \cup {None, Unreadable}]

\* Every entry of _inflight is the unresolved future of a request of that
\* very process that is calling a provider for that very cache key: a
\* request that finds an entry can always join it.
InflightIsLive ==
    \A p \in Replicas, k \in Keys :
        LET owner == inflight[p][k] IN
        owner # None =>
            /\ pc[owner] = "call"
            /\ future[owner] = "pending"
            /\ at[owner] = p
            /\ build_cache_key(owner) = k

\* A follower never awaits a future that nobody will resolve: its leader is
\* still between the call and set_result, or has resolved the future.
FollowersAreWoken ==
    \A r \in Requests :
        pc[r] = "follow" =>
            LET leader == following[r] IN
            \/ future[leader] \in {"result", "exception"}
            \/ pc[leader] \in {"call", "release", "released"}

\* While a request that won the lock is calling, the lock is its own, so at
\* most one winner per cache key is calling across all replicas. The lock
\* must outlive the call, which the TTL handle_chat_completion computes is
\* there to guarantee ("overrun" is excluded).
CallerHoldsLock ==
    "overrun" \notin Faults =>
        \A r \in Requests :
            token[r] /\ pc[r] \in {"lead", "call"} => lock[build_cache_key(r)] = r

\* Whatever path a response takes (cache, shared future, poll, own call), it
\* was produced for the same virtual key and the same body.
AnswersOwnRequest ==
    \A r \in Requests : answer[r] # None => req[answer[r]] = req[r]

\* A response that reached a client has been billed to its producer, is about
\* to be, or its producer died with its replica first.
ServedIsBilled ==
    \A r \in Requests :
        pc[r] = "served" =>
            \/ usage[answer[r]] = "paid"
            \/ pc[answer[r]] \in {"store", "bill", "lost"}

\* Without Redis errors every lock belongs to a request that is on its way
\* to release it, or that died with its replica: no path of
\* handle_chat_completion leaks one.
LocksNotLeaked ==
    "redis" \notin Faults =>
        \A k \in Keys :
            lock[k] # None =>
                pc[lock[k]] \in {"lead", "call", "release", "lost"} /\ token[lock[k]]

\* An entry of _inflight disappears only when the call of its owner ends: a
\* second leader that overwrote the entry never loses it to the first one.
OnlyOwnerLeaves ==
    [][\A p \in Replicas, k \in Keys :
         inflight[p][k] # None /\ inflight'[p][k] = None
             => pc'[inflight[p][k]] # "call"]_vars

\* Every request that reaches the gateway is answered or dies with its
\* replica: coalescing never leaves one waiting for ever.
EventuallyAnswered ==
    \A r \in Requests : pc[r] = "get" ~> pc[r] \in Terminal

-----------------------------------------------------------------------------
(* Refinement: the gateway offers the service that ChatService describes.  *)

Status(label) ==
    IF label \in Live THEN "pending"
    ELSE IF label = "notfound" THEN "failed"
    ELSE label

Service == INSTANCE ChatService WITH
    want   <- req,
    status <- [r \in Requests |-> Status(pc[r])],
    result <- [r \in Requests |-> IF pc[r] = "served" THEN answer[r] ELSE None],
    bought <- {r \in Requests : answer[r] = r},
    billed <- {r \in Requests : usage[r] = "paid"}

\* Whatever the interleaving, the faults and the path a response takes, the
\* clients of handle_chat_completion see the behaviour of ChatService.
ImplementsService == Service!Spec

-----------------------------------------------------------------------------
(* What the comments and docstrings say.                                   *)

\* handle_chat_completion: "only the first triggers a provider call, the
\* rest await its result".
OnlyTheFirstCalls ==
    \A r, s \in Requests :
        /\ attempt[r] > 0 /\ attempt[s] > 0
        /\ build_cache_key(r) = build_cache_key(s)
        => r = s
=============================================================================
