----------------------------- MODULE LockLease -----------------------------
(***************************************************************************)
(* The lock of one cache key in real time: does it outlive the provider    *)
(* call it guards, and how long does a request without it wait?            *)
(*                                                                         *)
(* handle_chat_completion (services/gateway.py) asks for a TTL of the sum  *)
(* of the candidates' timeouts plus a grace; acquire_lock, release_lock    *)
(* and wait_for_result (services/cache.py) talk to Redis, whose commands   *)
(* answer or raise within the socket timeout; _post (providers/base.py)    *)
(* gives httpx the timeout of its provider, which httpx applies to every   *)
(* wait of the call (connect, write, each read) and not to the call.       *)
(* SingleFlight leaves time out and assumes what is shown here.            *)
(*                                                                         *)
(* Time is a counter of ticks. It stands still while something is due: an  *)
(* event loop resumes a coroutine at once, and all clocks agree. A token   *)
(* is named by the caller that created it. Futures, the first lookup in    *)
(* the cache, usage records and expiring entries are SingleFlight's.       *)
(***************************************************************************)
EXTENDS Integers

CONSTANTS
    Callers,        \* requests that missed the cache, one per replica
    Chain,          \* number of candidates select_providers returned
    Timeout,        \* Timeout[i]: config.timeout of the i-th candidate
    Rest,           \* Rest[i]: sum of the timeouts of candidates i, i+1, ...
    Grace,          \* _LOCK_TTL_GRACE_SECONDS
    SocketTimeout,  \* REDIS_SOCKET_TIMEOUT_SECONDS
    WaitTimeout,    \* _WAIT_TIMEOUT_SECONDS
    PollInterval,   \* _LOCK_POLL_INTERVAL_SECONDS
    Second,         \* ticks in a second, the unit of a Redis TTL
    Waits,          \* most waits of one call that may each last the timeout
    MaxTime,        \* bound: the instant at which this instance stops
    None            \* no lock

ASSUME LeaseAssumption ==
    /\ Chain \in Nat \ {0}
    /\ Timeout \in [1..Chain -> Nat \ {0}]
    /\ Rest \in [1..Chain + 1 -> Nat]
    /\ Rest[Chain + 1] = 0
    /\ \A i \in 1..Chain : Rest[i] = Timeout[i] + Rest[i + 1]
    /\ Grace \in Nat
    /\ {SocketTimeout, WaitTimeout, PollInterval, Second, Waits} \subseteq Nat \ {0}
    /\ MaxTime \in Nat
    /\ None \notin Callers

VARIABLES
    clock,      \* now
    pc,         \* what each caller awaits
    since,      \* when it began to await it
    won,        \* its SET NX took effect
    token,      \* its lock_token is not None
    deadline,   \* deadline of wait_for_result
    candidate,  \* index of the provider it is calling
    began,      \* when the call of this candidate began
    waits,      \* waits of that call so far, the current one included
    overran,    \* one of its calls has lasted longer than its timeout
    result,     \* it has obtained a response from a provider
    owner,      \* Redis: whose token lock:<cache key> holds
    expires,    \* Redis: when that lock expires
    cached      \* Redis: <cache key> holds a response

callVars == <<candidate, began, waits, overran>>
locals == <<since, won, token, deadline, callVars, result>>
lockVars == <<owner, expires>>
vars == <<clock, pc, locals, lockVars, cached>>

Terminal == {"served", "failed", "lost"}

-----------------------------------------------------------------------------
(* Faulty forms of the definitions below.                                  *)

\* int(ttl_seconds): a fractional TTL is rounded down
round_down(t) == (t \div Second) * Second

\* the poll loop measures its timeout from the last poll
restart_deadline(c) == since[c] + WaitTimeout

\* off by one at the end of the candidate list
one_too_far(c) == candidate[c] <= Chain

-----------------------------------------------------------------------------
\* math.ceil: `ex` takes whole seconds
WholeSeconds(t) == ((t + Second - 1) \div Second) * Second

\* lock_ttl_seconds: the whole fallback chain and a grace
TTL == WholeSeconds(Rest[1] + Grace)

\* Redis drops a key once its time of expiry has passed
Expired == clock > expires
Holds(c) == owner = c /\ ~Expired
LockIsFree == owner = None \/ Expired

\* c starts to await something new
Await(c, label) ==
    /\ pc' = [pc EXCEPT ![c] = label]
    /\ since' = [since EXCEPT ![c] = clock]

\* the coroutine of c ends, and its local variables with it
End(c, label) ==
    /\ pc' = [pc EXCEPT ![c] = label]
    /\ since' = [since EXCEPT ![c] = 0]
    /\ won' = [won EXCEPT ![c] = FALSE]
    /\ token' = [token EXCEPT ![c] = FALSE]
    /\ deadline' = [deadline EXCEPT ![c] = 0]
    /\ candidate' = [candidate EXCEPT ![c] = 1]
    /\ began' = [began EXCEPT ![c] = 0]
    /\ waits' = [waits EXCEPT ![c] = 0]
    /\ overran' = [overran EXCEPT ![c] = FALSE]
    /\ result' = [result EXCEPT ![c] = FALSE]

\* execute_with_fallback turns to its i-th candidate
Call(c, i) ==
    /\ Await(c, "call")
    /\ candidate' = [candidate EXCEPT ![c] = i]
    /\ began' = [began EXCEPT ![c] = clock]
    /\ waits' = [waits EXCEPT ![c] = 1]
    /\ UNCHANGED overran

\* lock_token is None: wait_for_result
Wait(c) ==
    /\ Await(c, "poll")
    /\ deadline' = [deadline EXCEPT ![c] = clock + WaitTimeout]

Init ==
    /\ clock = 0
    /\ pc = [c \in Callers |-> "idle"]
    /\ since = [c \in Callers |-> 0]
    /\ won = [c \in Callers |-> FALSE]
    /\ token = [c \in Callers |-> FALSE]
    /\ deadline = [c \in Callers |-> 0]
    /\ candidate = [c \in Callers |-> 1]
    /\ began = [c \in Callers |-> 0]
    /\ waits = [c \in Callers |-> 0]
    /\ overran = [c \in Callers |-> FALSE]
    /\ result = [c \in Callers |-> FALSE]
    /\ owner = None
    /\ expires = 0
    /\ cached = FALSE

-----------------------------------------------------------------------------
(* acquire_lock.                                                           *)

Arrive(c) ==
    /\ pc[c] = "idle"
    /\ Await(c, "acquire")
    /\ UNCHANGED <<clock, won, token, deadline, callVars, result, lockVars, cached>>

\* Redis executes SET NX EX
ExecuteSet(c) ==
    /\ pc[c] = "acquire"
    /\ IF LockIsFree
       THEN /\ owner' = c
            /\ expires' = clock + TTL
            /\ won' = [won EXCEPT ![c] = TRUE]
       ELSE UNCHANGED <<lockVars, won>>
    /\ pc' = [pc EXCEPT ![c] = "reply"]
    /\ UNCHANGED <<clock, since, token, deadline, callVars, result, cached>>

\* the reply arrives: the winner calls, the others wait
AcquireReplies(c) ==
    /\ pc[c] = "reply"
    /\ \/ /\ won[c]
          /\ token' = [token EXCEPT ![c] = TRUE]
          /\ Call(c, 1)
          /\ UNCHANGED deadline
       \/ /\ ~won[c]
          /\ Wait(c)
          /\ UNCHANGED <<token, callVars>>
    /\ UNCHANGED <<clock, won, result, lockVars, cached>>

\* RedisError, whether or not the SET took effect
AcquireRaises(c) ==
    /\ pc[c] \in {"acquire", "reply"}
    /\ Wait(c)
    /\ UNCHANGED <<clock, won, token, callVars, result, lockVars, cached>>

-----------------------------------------------------------------------------
(* wait_for_result.                                                        *)

\* `deadline` is computed once, before the loop
Deadline(c) == deadline[c]

\* the GET answers: a response, nothing, or an error (or an unreadable
\* entry), which ends the wait with None
Poll(c) ==
    /\ pc[c] = "poll"
    /\ \/ cached /\ End(c, "served")
       \/ /\ \/ ~cached /\ Await(c, "sleep") /\ UNCHANGED callVars
             \/ Call(c, 1)
          /\ UNCHANGED <<won, token, deadline, result>>
    /\ UNCHANGED <<clock, lockVars, cached>>

\* asyncio.sleep is over: poll again, or call without the lock
Wake(c) ==
    /\ pc[c] = "sleep"
    /\ clock = since[c] + PollInterval
    /\ \/ clock < Deadline(c) /\ Await(c, "poll") /\ UNCHANGED callVars
       \/ clock >= Deadline(c) /\ Call(c, 1)
    /\ UNCHANGED <<clock, won, token, deadline, result, lockVars, cached>>

-----------------------------------------------------------------------------
(* execute_with_fallback over _post.                                       *)

\* one wait of the call is over (connected, sent, some bytes read) and the
\* next begins, with the whole timeout again
NextWait(c) ==
    /\ pc[c] = "call"
    /\ waits[c] < Waits
    /\ waits' = [waits EXCEPT ![c] = @ + 1]
    /\ Await(c, "call")
    /\ UNCHANGED <<clock, won, token, deadline, candidate, began, overran, result,
                   lockVars, cached>>

\* the response is complete; `finally` releases the lock, if there is one,
\* before anything else is awaited
CallSucceeds(c) ==
    /\ pc[c] = "call"
    /\ result' = [result EXCEPT ![c] = TRUE]
    /\ Await(c, IF token[c] THEN "release" ELSE "store")
    /\ UNCHANGED <<clock, won, token, deadline, callVars, lockVars, cached>>

\* the loop over `providers` goes on
HasNext(c) == candidate[c] < Chain

\* A ProviderError, a timeout included, leads to the next candidate. After
\* the last one, or if an exception of another kind passes the fallback loop,
\* a lock is released first.
CallFails(c) ==
    /\ pc[c] = "call"
    /\ \/ HasNext(c) /\ Call(c, candidate[c] + 1)
       \/ token[c] /\ Await(c, "release") /\ UNCHANGED callVars
    /\ UNCHANGED <<clock, won, token, deadline, result, lockVars, cached>>

\* the same with no lock to release
CallFailsUnlocked(c) ==
    /\ pc[c] = "call"
    /\ ~token[c]
    /\ End(c, "failed")
    /\ UNCHANGED <<clock, lockVars, cached>>

-----------------------------------------------------------------------------
(* release_lock and cache_service.set.                                     *)

\* compare-and-delete, or a RedisError with or without its effect
Release(c) ==
    /\ pc[c] = "release"
    /\ \/ owner' = IF Holds(c) THEN None ELSE owner
       \/ UNCHANGED owner
    /\ \/ /\ result[c]
          /\ Await(c, "store")
          /\ UNCHANGED <<won, token, deadline, callVars, result>>
       \/ ~result[c] /\ End(c, "failed")
    /\ UNCHANGED <<clock, expires, cached>>

Store(c) ==
    /\ pc[c] = "store"
    /\ \/ cached' = TRUE
       \/ UNCHANGED cached
    /\ End(c, "served")
    /\ UNCHANGED <<clock, lockVars>>

-----------------------------------------------------------------------------
(* The environment.                                                        *)

\* the process of c dies; Redis keeps its lock until it expires
Crash(c) ==
    /\ pc[c] \notin Terminal \cup {"idle"}
    /\ End(c, "lost")
    /\ UNCHANGED <<clock, lockVars, cached>>

\* the instant by which what c awaits has happened or raised
Due(c) ==
    since[c] + (CASE pc[c] = "call"  -> Timeout[candidate[c]]
                  [] pc[c] = "sleep" -> PollInterval
                  [] OTHER           -> SocketTimeout)

Tick ==
    /\ clock < MaxTime
    /\ \A c \in Callers : pc[c] \in Terminal \cup {"idle"} \/ clock < Due(c)
    /\ clock' = clock + 1
    /\ overran' = [c \in Callers |->
            overran[c] \/ (pc[c] = "call" /\ clock' > began[c] + Timeout[candidate[c]])]
    /\ UNCHANGED <<pc, since, won, token, deadline, candidate, began, waits, result,
                   lockVars, cached>>

\* everybody is done, or the instance has reached its end
Stop ==
    /\ clock = MaxTime \/ \A c \in Callers : pc[c] \in Terminal
    /\ UNCHANGED vars

Step(c) ==
    \/ Arrive(c) \/ ExecuteSet(c) \/ AcquireReplies(c) \/ AcquireRaises(c)
    \/ Poll(c) \/ Wake(c)
    \/ NextWait(c) \/ CallSucceeds(c) \/ CallFails(c) \/ CallFailsUnlocked(c)
    \/ Release(c) \/ Store(c)

Next ==
    \/ \E c \in Callers : Step(c) \/ Crash(c)
    \/ Tick
    \/ Stop

Spec == Init /\ [][Next]_vars

-----------------------------------------------------------------------------
(* Properties.                                                             *)

Labels == {"idle", "acquire", "reply", "poll", "sleep", "call", "release", "store"}
              \cup Terminal

\* The types of the variables.
TypeOK ==
    /\ clock \in Nat
    /\ pc \in [Callers -> Labels]
    /\ since \in [Callers -> Nat]
    /\ won \in [Callers -> BOOLEAN]
    /\ token \in [Callers -> BOOLEAN]
    /\ deadline \in [Callers -> Nat]
    /\ candidate \in [Callers -> 1..Chain]
    /\ began \in [Callers -> Nat]
    /\ waits \in [Callers -> 0..Waits]
    /\ overran \in [Callers -> BOOLEAN]
    /\ result \in [Callers -> BOOLEAN]
    /\ owner \in Callers \cup {None}
    /\ expires \in Nat
    /\ cached \in BOOLEAN

\* The TTL that handle_chat_completion computes covers the whole fallback
\* chain: a winner of the lock whose calls kept to their timeouts holds the
\* lock for as long as it calls, even if the reply of the SET took the whole
\* socket timeout, and even beside callers that overran, lost the lock and
\* release it late. The grace must cover the socket timeout (both are 5 s).
LeaseCoversCall ==
    SocketTimeout <= Grace =>
        \A c \in Callers :
            token[c] /\ pc[c] = "call" /\ ~overran[c] => Holds(c)

\* wait_for_result is bounded: no caller is still polling when the deadline
\* is further back than one GET that hangs and one sleep, whatever the
\* winner of the lock does, so a dead winner never starves the others.
WaitBounded ==
    \A c \in Callers :
        pc[c] \in {"poll", "sleep"} =>
            clock < deadline[c] + SocketTimeout + PollInterval

\* acquire_lock: "`ttl_seconds` must outlive the upstream call being
\* guarded"; handle_chat_completion: the TTL covers the worst case of the
\* call it protects.
LockOutlivesCall ==
    SocketTimeout <= Grace =>
        \A c \in Callers : token[c] /\ pc[c] = "call" => Holds(c)
=============================================================================
