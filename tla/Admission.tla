----------------------------- MODULE Admission -----------------------------
(***************************************************************************)
(* What stands before and after the gateway proper: the dependencies of    *)
(* chat_completions (routers/chat.py), the usage rows it leaves behind     *)
(* (services/usage.py), and the administration of virtual keys             *)
(* (routers/keys.py, cli.py), over the tables api_keys, usage_logs and     *)
(* audit_logs (storage/repositories.py).                                   *)
(*                                                                         *)
(* Every database session is a step of its own. The rows of a key in       *)
(* usage_logs are abstracted to the sum of estimated_cost over its "ok"    *)
(* rows, the only thing the gateway reads back. RateLimiter models the     *)
(* rate limiter, SingleFlight and Streaming what serving a request does.   *)
(***************************************************************************)
EXTENDS Integers, FiniteSets, Sums

CONSTANTS
    Keys,           \* virtual key ids
    Existing,       \* those created before, by the CLI
    Requests,       \* chat requests
    Calls,          \* administrative calls
    CLI,            \* the caller of those that come from the command line
    Limit,          \* Limit[k] = spend_limit_usd given when k is created
    GlobalLimit,    \* GLOBAL_SPEND_LIMIT_USD
    NoLimit,        \* None, for either limit
    MaxTokens,      \* MAX_TOKENS_PER_REQUEST
    Asks,           \* the values of max_tokens clients send
    Omitted,        \* no max_tokens, or no expires_in_days
    MaxPrompt,      \* bound: estimated cost of a prompt (a token costs 1)
    Terms,          \* the values of expires_in_days callers give
    Never,          \* a null expires_in_days, or --no-expiry
    NoKey,          \* no row in api_keys
    DefaultDays,    \* DEFAULT_KEY_EXPIRY_DAYS
    MaxDays,        \* the largest expires_in_days KeyCreate accepts
    MaxTime,        \* bound: the clock stops there
    Faults          \* what the environment of this instance may do

(***************************************************************************)
(*  "persist"     the insertion of a usage row may fail                    *)
(*  "disconnect"  a client may leave while its answer streams              *)
(*  "odd"         a provider may send what its adapter cannot read         *)
(*  "crash"       the process serving a request or a call may die          *)
(***************************************************************************)
AllFaults == {"persist", "disconnect", "odd", "crash"}

ASSUME AdmissionAssumption ==
    /\ Existing \subseteq Keys
    /\ IsFiniteSet(Requests) /\ IsFiniteSet(Keys)
    /\ NoLimit \notin Nat
    /\ Limit \in [Keys -> Nat \cup {NoLimit}]
    /\ GlobalLimit \in Nat \cup {NoLimit}
    /\ MaxTokens \in Nat \ {0}
    /\ Asks \subseteq Nat
    /\ Omitted \notin Int
    /\ MaxPrompt \in Nat
    /\ CLI \notin Keys
    /\ Never \notin Int
    /\ NoKey \notin Int \cup {Never}
    /\ Terms \subseteq Int \cup {Omitted, Never}
    /\ Omitted # Never
    /\ DefaultDays \in Nat \ {0}
    /\ MaxDays \in Nat \ {0}
    /\ MaxTime \in Nat
    /\ Faults \subseteq AllFaults

VARIABLES
    clock,
    expires,    \* api_keys.expires_at
    active,     \* api_keys.is_active
    audit,      \* audit_logs, as a set of <<action, key>>
    spent,      \* usage_logs: sum of the "ok" rows of each key
    total,      \* usage_logs: sum of all "ok" rows
    pc,         \* where each request is
    key,        \* the virtual key it carries
    tokens,     \* its max_tokens, as sent and then as enforced
    cost,       \* the estimated_cost of its answer
    row,        \* the usage row it scheduled
    apc,        \* where each administrative call is
    caller,     \* the key it is made with
    target,     \* the key it is about
    dead,       \* history: requests that came with a key not valid any more
    barred,     \* history: administrative calls that came with such a key
    over,       \* history: requests that came when a limit was reached
    peak,       \* history: most requests of a key past its cap at a time
    totalPeak   \* history: most requests past the global cap at a time

db == <<expires, active, audit, spent, total>>
request == <<pc, key, tokens, cost, row>>
admin == <<apc, caller, target>>
history == <<dead, barred, over, peak, totalPeak>>
vars == <<clock, db, request, admin, history>>

MaxCost == MaxTokens + MaxPrompt
Larger(a, b) == IF a < b THEN b ELSE a

\* past the cap of its key, and not yet in usage_logs
Outstanding(k) ==
    {r \in Requests : key[r] = k /\ (pc[r] \in {"global", "tokens", "serve"} \/ row[r] = "ok")}
AllOutstanding == {r \in Requests : pc[r] \in {"tokens", "serve"} \/ row[r] = "ok"}

-----------------------------------------------------------------------------
(* Faulty forms of the definitions below, against which the properties     *)
(* are tested.                                                             *)

\* spent > limit instead of >=
exceeded(sum, limit) == limit # NoLimit /\ sum > limit

\* an omitted max_tokens is left to the provider's default
leave_omitted(m) == IF m = Omitted THEN 2 * MaxTokens + MaxPrompt + 1 ELSE m

\* expires_at < now: valid for one instant too long
expires_late(k) == expires[k] # Never /\ expires[k] < clock

\* the route answers without create_audit_log
revoke_unaudited(a) == "done"

\* a task that wrote its row stays scheduled
persist_again(r) == "ok"

-----------------------------------------------------------------------------
Init ==
    /\ clock = 1
    /\ expires = [k \in Keys |-> IF k \in Existing THEN 1 + DefaultDays ELSE NoKey]
    /\ active = [k \in Keys |-> k \in Existing]
    /\ audit = {<<"key_created", k>> : k \in Existing}
    /\ spent = [k \in Keys |-> 0]
    /\ total = 0
    /\ pc = [r \in Requests |-> "idle"]
    /\ key \in [Requests -> Keys]
    /\ tokens \in [Requests -> Asks \cup {Omitted}]
    /\ cost = [r \in Requests |-> 0]
    /\ row = [r \in Requests |-> "none"]
    /\ apc = [a \in Calls |-> "idle"]
    /\ caller \in [Calls -> Keys \cup {CLI}]
    /\ target \in [Calls -> Keys]
    /\ dead = {}
    /\ barred = {}
    /\ over = {}
    /\ peak = [k \in Keys |-> 0]
    /\ totalPeak = 0

Tick ==
    /\ clock < MaxTime
    /\ clock' = clock + 1
    /\ UNCHANGED <<db, request, admin, history>>

-----------------------------------------------------------------------------
(* Authentication.                                                         *)

_is_expired(k) == expires[k] # Never /\ expires[k] <= clock

\* authenticate_virtual_key: the key exists, is active and has not expired
Authenticates(k) == expires[k] # NoKey /\ active[k] /\ ~_is_expired(k)

\* Not valid any more, whatever the implementation answers
Dead(k) == expires[k] # NoKey /\ (~active[k] \/ (expires[k] # Never /\ clock >= expires[k]))

Reached(sum, limit) == limit # NoLimit /\ sum >= limit

OverLimit(k) == Reached(spent[k], Limit[k]) \/ Reached(total, GlobalLimit)

Arrive(r) ==
    /\ pc[r] = "idle"
    /\ pc' = [pc EXCEPT ![r] = "auth"]
    /\ dead' = IF Dead(key[r]) THEN dead \cup {r} ELSE dead
    /\ over' = IF OverLimit(key[r]) THEN over \cup {r} ELSE over
    /\ UNCHANGED <<clock, db, key, tokens, cost, row, admin, barred, peak, totalPeak>>

Authenticate(r) ==
    /\ pc[r] = "auth"
    /\ pc' = [pc EXCEPT ![r] = IF Authenticates(key[r]) THEN "rate" ELSE "401"]
    /\ UNCHANGED <<clock, db, key, tokens, cost, row, admin, history>>

\* enforce_rate_limit: either verdict; a rejection leaves an error row
EnforceRateLimit(r) ==
    /\ pc[r] = "rate"
    /\ \/ pc' = [pc EXCEPT ![r] = "spend"] /\ UNCHANGED row
       \/ pc' = [pc EXCEPT ![r] = "429"] /\ row' = [row EXCEPT ![r] = "error"]
    /\ UNCHANGED <<clock, db, key, tokens, cost, admin, history>>

-----------------------------------------------------------------------------
(* enforce_spend_cap: two sums, read one after the other. The limit of a   *)
(* key never changes, so reading it is not a step of its own.              *)

CapReached(sum, limit) == limit # NoLimit /\ sum >= limit

EnforceKeyCap(r) ==
    LET k == key[r] IN
    /\ pc[r] = "spend"
    /\ \/ /\ CapReached(spent[k], Limit[k])
          /\ pc' = [pc EXCEPT ![r] = "quota"]
          /\ UNCHANGED peak
       \/ /\ ~CapReached(spent[k], Limit[k])
          /\ pc' = [pc EXCEPT ![r] = "global"]
          /\ peak' = [peak EXCEPT ![k] = Larger(@, Cardinality(Outstanding(k)) + 1)]
    /\ UNCHANGED <<clock, db, key, tokens, cost, row, admin, dead, barred, over, totalPeak>>

EnforceGlobalCap(r) ==
    /\ pc[r] = "global"
    /\ \/ /\ CapReached(total, GlobalLimit)
          /\ pc' = [pc EXCEPT ![r] = "quota"]
          /\ UNCHANGED totalPeak
       \/ /\ ~CapReached(total, GlobalLimit)
          /\ pc' = [pc EXCEPT ![r] = "tokens"]
          /\ totalPeak' = Larger(totalPeak, Cardinality(AllOutstanding) + 1)
    /\ UNCHANGED <<clock, db, key, tokens, cost, row, admin, dead, barred, over, peak>>

-----------------------------------------------------------------------------
(* chat_completions.                                                       *)

\* the value _enforce_max_tokens returns for a body it does not reject
Enforced(m) == IF m = Omitted THEN MaxTokens ELSE m

_enforce_max_tokens(r) ==
    /\ pc[r] = "tokens"
    /\ \/ /\ tokens[r] \in Nat /\ tokens[r] > MaxTokens
          /\ pc' = [pc EXCEPT ![r] = "400"]
          /\ UNCHANGED tokens
       \/ /\ ~(tokens[r] \in Nat /\ tokens[r] > MaxTokens)
          /\ tokens' = [tokens EXCEPT ![r] = Enforced(@)]
          /\ pc' = [pc EXCEPT ![r] = "serve"]
    /\ UNCHANGED <<clock, db, key, cost, row, admin, history>>

\* an answer, free from the cache or at the provider's price, and its row
Serve(r) ==
    /\ pc[r] = "serve"
    /\ \E c \in 0..(tokens[r] + MaxPrompt) : cost' = [cost EXCEPT ![r] = c]
    /\ row' = [row EXCEPT ![r] = "ok"]
    /\ pc' = [pc EXCEPT ![r] = "200"]
    /\ UNCHANGED <<clock, db, key, tokens, admin, history>>

\* unknown model, or every candidate failed: record_failed_request
ServeFails(r) ==
    /\ pc[r] = "serve"
    /\ row' = [row EXCEPT ![r] = "error"]
    /\ pc' = [pc EXCEPT ![r] = "5xx"]
    /\ UNCHANGED <<clock, db, key, tokens, cost, admin, history>>

\* an exception that no handler of chat_completions expects: a plain 500
ServeRaises(r) ==
    /\ pc[r] = "serve"
    /\ "odd" \in Faults
    /\ pc' = [pc EXCEPT ![r] = "5xx"]
    /\ UNCHANGED <<clock, db, key, tokens, cost, row, admin, history>>

\* a stream whose client left schedules no row
Abandon(r) ==
    /\ pc[r] = "serve"
    /\ "disconnect" \in Faults
    /\ pc' = [pc EXCEPT ![r] = "gone"]
    /\ UNCHANGED <<clock, db, key, tokens, cost, row, admin, history>>

Written(r) == "written"

\* The background task of a scheduled row. Rows of failed requests cost
\* nothing; the error of an insertion is logged and forgotten.
Persist(r) ==
    /\ row[r] \in {"ok", "error"}
    /\ \/ /\ row' = [row EXCEPT ![r] = Written(r)]
          /\ spent' = [spent EXCEPT ![key[r]] = IF row[r] = "ok" THEN @ + cost[r] ELSE @]
          /\ total' = IF row[r] = "ok" THEN total + cost[r] ELSE total
       \/ /\ "persist" \in Faults
          /\ row' = [row EXCEPT ![r] = "lost"]
          /\ UNCHANGED <<spent, total>>
    /\ UNCHANGED <<clock, expires, active, audit, pc, key, tokens, cost, admin, history>>

-----------------------------------------------------------------------------
(* create-key, revoke-key and their HTTP routes.                           *)

AdminArrive(a) ==
    /\ apc[a] = "idle"
    /\ apc' = [apc EXCEPT ![a] = IF caller[a] = CLI THEN "act" ELSE "auth"]
    /\ barred' = IF caller[a] # CLI /\ Dead(caller[a]) THEN barred \cup {a} ELSE barred
    /\ UNCHANGED <<clock, db, request, caller, target, dead, over, peak, totalPeak>>

\* The CLI needs no key; a route needs a valid one, and any will do.
AdminAuthenticate(a) ==
    /\ apc[a] = "auth"
    /\ apc' = [apc EXCEPT ![a] = IF Authenticates(caller[a]) THEN "act" ELSE "401"]
    /\ UNCHANGED <<clock, db, request, caller, target, history>>

\* `args.expires_in_days or DEFAULT_KEY_EXPIRY_DAYS` takes 0 for an omission
\* and any other number as it is; the route's default replaces an omission.
Term(a, t) ==
    IF t = Omitted \/ (caller[a] = CLI /\ t = 0) THEN DefaultDays ELSE t

\* the bounds of KeyCreate.expires_in_days, which the CLI does not have
Accepted(a, t) == caller[a] = CLI \/ t \in {Omitted, Never} \cup 1..MaxDays

\* The row of a new key. Its id is fresh: target[a] names it beforehand.
CreateKey(a) ==
    LET k == target[a] IN
    /\ apc[a] = "act"
    /\ expires[k] = NoKey
    /\ \E t \in Terms :
        \/ /\ ~Accepted(a, t)
           /\ apc' = [apc EXCEPT ![a] = "400"]
           /\ UNCHANGED <<expires, active>>
        \/ /\ Accepted(a, t)
           /\ expires' = [expires EXCEPT ![k] = IF t = Never THEN Never ELSE clock + Term(a, t)]
           /\ active' = [active EXCEPT ![k] = TRUE]
           /\ apc' = [apc EXCEPT ![a] = "audit_created"]
    /\ UNCHANGED <<clock, audit, spent, total, request, caller, target, history>>

\* where revoke_key goes once the key is inactive
AfterRevoke(a) == "audit_revoked"

\* deactivate_key; 404 for an unknown id
RevokeKey(a) ==
    LET k == target[a] IN
    /\ apc[a] = "act"
    /\ \/ /\ expires[k] = NoKey
          /\ apc' = [apc EXCEPT ![a] = "404"]
          /\ UNCHANGED active
       \/ /\ expires[k] # NoKey
          /\ active' = [active EXCEPT ![k] = FALSE]
          /\ apc' = [apc EXCEPT ![a] = AfterRevoke(a)]
    /\ UNCHANGED <<clock, expires, audit, spent, total, request, caller, target, history>>

\* create_audit_log, in a session of its own
Audit(a) ==
    /\ \/ /\ apc[a] = "audit_created"
          /\ audit' = audit \cup {<<"key_created", target[a]>>}
       \/ /\ apc[a] = "audit_revoked"
          /\ audit' = audit \cup {<<"key_revoked", target[a]>>}
    /\ apc' = [apc EXCEPT ![a] = "done"]
    /\ UNCHANGED <<clock, expires, active, spent, total, request, caller, target, history>>

-----------------------------------------------------------------------------
(* The environment.                                                        *)

Running == {"auth", "rate", "spend", "global", "tokens", "serve"}
Working == {"auth", "act", "audit_created", "audit_revoked"}

\* A process dies with its coroutines and its background tasks.
CrashRequest(r) ==
    /\ "crash" \in Faults
    /\ pc[r] \in Running \/ row[r] \in {"ok", "error"}
    /\ pc' = [pc EXCEPT ![r] = IF @ \in Running THEN "gone" ELSE @]
    /\ row' = [row EXCEPT ![r] = IF @ \in {"ok", "error"} THEN "lost" ELSE @]
    /\ UNCHANGED <<clock, db, key, tokens, cost, admin, history>>

CrashCall(a) ==
    /\ "crash" \in Faults
    /\ apc[a] \in Working
    /\ apc' = [apc EXCEPT ![a] = "gone"]
    /\ UNCHANGED <<clock, db, request, caller, target, history>>

Quiet ==
    /\ \A r \in Requests : pc[r] \notin Running \cup {"idle"} /\ row[r] \notin {"ok", "error"}
    /\ \A a \in Calls : apc[a] \notin Working \cup {"idle"}
    /\ UNCHANGED vars

Next ==
    \/ Tick
    \/ \E r \in Requests :
        \/ Arrive(r) \/ Authenticate(r) \/ EnforceRateLimit(r)
        \/ EnforceKeyCap(r) \/ EnforceGlobalCap(r) \/ _enforce_max_tokens(r)
        \/ Serve(r) \/ ServeFails(r) \/ ServeRaises(r) \/ Abandon(r) \/ Persist(r)
        \/ CrashRequest(r)
    \/ \E a \in Calls :
        \/ AdminArrive(a) \/ AdminAuthenticate(a) \/ CreateKey(a) \/ RevokeKey(a)
        \/ Audit(a) \/ CrashCall(a)
    \/ Quiet

Spec == Init /\ [][Next]_vars

-----------------------------------------------------------------------------
(* Properties.                                                             *)

\* The types of the variables; no request asks a provider for more than
\* MAX_TOKENS_PER_REQUEST, whatever its body said or left out.
TypeOK ==
    /\ clock \in Nat \ {0}
    /\ expires \in [Keys -> Int \cup {Never, NoKey}]
    /\ active \in [Keys -> BOOLEAN]
    /\ audit \subseteq {"key_created", "key_revoked"} \X Keys
    /\ spent \in [Keys -> Nat]
    /\ total \in Nat
    /\ pc \in [Requests ->
            Running \cup {"idle", "200", "400", "401", "429", "quota", "5xx", "gone"}]
    /\ key \in [Requests -> Keys]
    /\ tokens \in [Requests -> Nat \cup {Omitted}]
    /\ \A r \in Requests : pc[r] = "serve" => tokens[r] \in Nat /\ tokens[r] <= MaxTokens
    /\ cost \in [Requests -> Nat]
    /\ row \in [Requests -> {"none", "ok", "error", "written", "lost"}]
    /\ apc \in [Calls -> Working \cup {"idle", "done", "401", "404", "400", "gone"}]
    /\ caller \in [Calls -> Keys \cup {CLI}]
    /\ target \in [Calls -> Keys]
    /\ dead \subseteq Requests
    /\ barred \subseteq Calls
    /\ over \subseteq Requests
    /\ peak \in [Keys -> Nat]
    /\ totalPeak \in Nat

\* Rows are written late, but a key overruns its spend_limit_usd by at most
\* what the requests that were past the check at the same time can cost.
KeyOvershootBounded ==
    \A k \in Keys :
        Limit[k] # NoLimit /\ (spent[k] # 0 \/ Outstanding(k) # {}) =>
            spent[k] + MaxCost * Cardinality(Outstanding(k)) <= Limit[k] - 1 + MaxCost * peak[k]

\* The same for GLOBAL_SPEND_LIMIT_USD, which is read after the key's sum.
GlobalOvershootBounded ==
    GlobalLimit # NoLimit /\ (total # 0 \/ AllOutstanding # {}) =>
        total + MaxCost * Cardinality(AllOutstanding) <= GlobalLimit - 1 + MaxCost * totalPeak

Served == {"serve", "200", "5xx"}

\* A request that arrives after usage_logs reached a limit is never served,
\* even if rows, keys and other requests change before it is checked.
ReachedIsFinal == \A r \in over : pc[r] \notin Served

\* A request that arrives with a revoked or an expired key is never served,
\* and an administrative call with such a key changes nothing, whichever keys
\* other calls create, revoke or let expire in the meantime.
DeadKeysAreRejected ==
    /\ \A r \in dead : pc[r] \notin Served
    /\ \A a \in barred : apc[a] \in {"auth", "401", "gone"}

\* usage_logs counts every answer once: a key's sum is the cost of the
\* answers whose row was written, and the global sum is that of the keys.
LedgerExact ==
    /\ \A k \in Keys :
        spent[k] = SumOver(cost, {r \in Requests : key[r] = k /\ row[r] = "written"})
    /\ total = SumOver(spent, Keys)

\* audit_logs and api_keys agree, up to the calls that are between their two
\* commits or died there.
AuditMatchesKeys ==
    \A k \in Keys :
        /\ <<"key_created", k>> \in audit => expires[k] # NoKey
        /\ <<"key_revoked", k>> \in audit => ~active[k]
        /\ expires[k] # NoKey =>
                \/ <<"key_created", k>> \in audit
                \/ \E a \in Calls : target[a] = k /\ apc[a] \in {"audit_created", "gone"}
        /\ expires[k] # NoKey /\ ~active[k] =>
                \/ <<"key_revoked", k>> \in audit
                \/ \E a \in Calls : target[a] = k /\ apc[a] \in {"audit_revoked", "gone"}
=============================================================================
