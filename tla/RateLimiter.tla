---------------------------- MODULE RateLimiter ----------------------------
(***************************************************************************)
(* check_rate_limit_status (core/rate_limiter.py): the sliding window of   *)
(* one virtual key, kept in one Redis sorted set and used by calls of any  *)
(* number of replicas. Sets of different virtual keys do not interact.     *)
(*                                                                         *)
(* A call reads the clock, sends one MULTI/EXEC pipeline and, if it was    *)
(* rejected, one ZREM. Time passes, and other calls run, between those     *)
(* steps. A member of the sorted set is named by the call that added it;   *)
(* its score is the call's stamp.                                          *)
(***************************************************************************)
EXTENDS Integers, FiniteSets

CONSTANTS
    Calls,          \* identifiers of calls
    Limit,          \* RATE_LIMIT_REQUESTS
    Window,         \* RATE_LIMIT_WINDOW_SECONDS
    FailOpen,       \* RATE_LIMIT_FAIL_OPEN
    RedisErrors,    \* TRUE when a Redis command may raise
    MaxTime         \* bound: the clock stops there

ASSUME RateAssumption ==
    /\ Limit \in Nat \ {0}
    /\ Window \in Nat \ {0}
    /\ FailOpen \in BOOLEAN
    /\ RedisErrors \in BOOLEAN
    /\ MaxTime \in Nat

VARIABLES
    clock,      \* wall clock, shared by the replicas and Redis
    pc,         \* where each call is
    stamp,      \* its `now`
    verdict,    \* what it returned
    zset,       \* the members of ratelimit:<virtual key>
    expireAt,   \* when EXPIRE removes the whole key
    horizon,    \* history: Redis may have forgotten members stamped up to here
    sent,       \* history: calls whose pipeline took effect
    ran         \* history: when it did

redis == <<zset, expireAt, horizon, sent, ran>>
vars == <<clock, pc, stamp, verdict, redis>>

Larger(a, b) == IF a < b THEN b ELSE a

-----------------------------------------------------------------------------
(* Faulty forms of the definitions below, against which the properties     *)
(* are tested.                                                             *)

\* no ZREMRANGEBYSCORE
prune_nothing(c) == zset

\* `count < limit + 2`: off by one
one_too_many(count) == count <= Limit + 1

\* no ZREM for a rejected call
keep_rejected(c) == zset

\* prunes the calls of the last Window - 1 seconds too
prune_early(c) == {m \in zset : stamp[m] > stamp[c] - Window + 1}

\* the clock rounded up: a stamp may lie in the future
round_up == clock + 1

-----------------------------------------------------------------------------
Init ==
    /\ clock = 0
    /\ pc = [c \in Calls |-> "idle"]
    /\ stamp = [c \in Calls |-> 0]
    /\ verdict = [c \in Calls |-> "none"]
    /\ zset = {}
    /\ expireAt = 0
    /\ horizon = 0 - Window
    /\ sent = {}
    /\ ran = [c \in Calls |-> 0]

\* An expired key does not exist for the next command. (An empty set is no
\* key: there is nothing to expire.)
Tick ==
    /\ clock < MaxTime
    /\ clock' = clock + 1
    /\ IF zset # {} /\ clock' >= expireAt
       THEN zset' = {} /\ horizon' = Larger(horizon, clock' - Window)
       ELSE UNCHANGED <<zset, horizon>>
    /\ UNCHANGED <<pc, stamp, verdict, expireAt, sent, ran>>

\* now = time.time()
Now == clock

ReadClock(c) ==
    /\ pc[c] = "idle"
    /\ stamp' = [stamp EXCEPT ![c] = Now]
    /\ pc' = [pc EXCEPT ![c] = "pipeline"]
    /\ UNCHANGED <<clock, verdict, redis>>

\* ZREMRANGEBYSCORE key 0 window_start, both ends included
Pruned(c) == {m \in zset : stamp[m] > stamp[c] - Window}

\* the commands of the pipeline take effect together
Execute(c) ==
    /\ zset' = Pruned(c) \cup {c}
    /\ expireAt' = clock + Window
    /\ horizon' = Larger(horizon, stamp[c] - Window)
    /\ sent' = sent \cup {c}
    /\ ran' = [ran EXCEPT ![c] = clock]

Allowed(count) == count <= Limit

Pipeline(c) ==
    /\ pc[c] = "pipeline"
    /\ Execute(c)
    /\ \/ /\ Allowed(Cardinality(zset'))
          /\ verdict' = [verdict EXCEPT ![c] = "accepted"]
          /\ pc' = [pc EXCEPT ![c] = "done"]
       \/ /\ ~Allowed(Cardinality(zset'))
          /\ verdict' = [verdict EXCEPT ![c] = "rejected"]
          /\ pc' = [pc EXCEPT ![c] = "rollback"]
    /\ UNCHANGED <<clock, stamp>>

OnError == IF FailOpen THEN "open" ELSE "closed"

\* RedisError: the reply is lost, the pipeline may have run
PipelineFails(c) ==
    /\ pc[c] = "pipeline"
    /\ RedisErrors
    /\ Execute(c) \/ UNCHANGED redis
    /\ verdict' = [verdict EXCEPT ![c] = OnError]
    /\ pc' = [pc EXCEPT ![c] = "done"]
    /\ UNCHANGED <<clock, stamp>>

WithoutMember(c) == zset \ {c}

\* ZREM of a rejected call; after an error its member may stay until it
\* expires
Rollback(c) ==
    /\ pc[c] = "rollback"
    /\ \/ /\ zset' = WithoutMember(c)
          /\ pc' = [pc EXCEPT ![c] = "done"]
       \/ /\ RedisErrors
          /\ zset' \in {WithoutMember(c), zset}
          /\ pc' = [pc EXCEPT ![c] = "warned"]
    /\ UNCHANGED <<clock, stamp, verdict, expireAt, horizon, sent, ran>>

Done == (\A c \in Calls : pc[c] \in {"done", "warned"}) /\ UNCHANGED vars

Next ==
    \/ Tick
    \/ \E c \in Calls : ReadClock(c) \/ Pipeline(c) \/ PipelineFails(c) \/ Rollback(c)
    \/ Done

Spec == Init /\ [][Next]_vars

-----------------------------------------------------------------------------
(* Properties.                                                             *)

\* The types of the variables; nothing is stamped in the future.
TypeOK ==
    /\ clock \in Nat
    /\ pc \in [Calls -> {"idle", "pipeline", "rollback", "done", "warned"}]
    /\ stamp \in [Calls -> Nat]
    /\ \A c \in Calls : stamp[c] <= clock
    /\ verdict \in [Calls -> {"none", "accepted", "rejected", "open", "closed"}]
    /\ zset \subseteq sent
    /\ sent \subseteq Calls
    /\ expireAt \in Nat
    /\ horizon \in Int
    /\ ran \in [Calls -> Nat]

Accepted == {c \in Calls : verdict[c] = "accepted"}

\* Accepted calls that the limiter still has to remember
Young == {c \in Accepted : stamp[c] > horizon}

\* The limiter forgets no accepted call before its time, and never admits
\* more than Limit of those it must remember, whatever the interleaving of
\* the replicas and the errors of Redis.
WithinLimit == Young \subseteq zset /\ Cardinality(Young) <= Limit

\* A call's stamp is read before its pipeline runs. Redis may by then have
\* pruned for a later stamp, or dropped the whole set at its EXPIRE, and the
\* call is let in although the Window seconds before it are full. The bound
\* holds for a window that is shorter by that delay: accepted calls that ran
\* within `delay` of their stamps never exceed Limit in any Window - delay
\* seconds, in whatever order they ran and whatever happened to the rest.
SlidingWindow ==
    \A c \in Accepted, delay \in 0..Window :
        LET window == {d \in Accepted : /\ stamp[c] - (Window - delay) < stamp[d]
                                       /\ stamp[d] <= stamp[c]} IN
        (\A d \in window : ran[d] - stamp[d] <= delay) => Cardinality(window) <= Limit

\* A slot is occupied by an accepted call, by one whose ZREM is under way, or
\* by one of which a Redis error made a phantom: no other path leaks a slot.
RollbackComplete ==
    \A m \in zset :
        \/ verdict[m] = "accepted"
        \/ verdict[m] = "rejected" /\ pc[m] \in {"rollback", "warned"}
        \/ verdict[m] \in {"open", "closed"}

\* A rejection needs Limit other calls in or after the caller's window:
\* neither phantom slots nor earlier rejections block it for longer.
RejectionHasCause ==
    \A c \in Calls :
        verdict[c] = "rejected" =>
            Cardinality({d \in sent \ {c} : stamp[d] > stamp[c] - Window}) >= Limit
=============================================================================
