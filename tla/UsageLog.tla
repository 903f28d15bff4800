------------------------------ MODULE UsageLog ------------------------------
(***************************************************************************)
(* What the gateway remembers of the requests it answered, and who reads   *)
(* it: the usage records (services/metrics.py, services/usage.py), the     *)
(* table usage_logs (storage/repositories.py), the Prometheus series of    *)
(* the process (services/prometheus_metrics.py), and a client that pages   *)
(* through GET /api/logs (routers/logs.py) or asks GET /api/usage/spend    *)
(* (routers/usage.py), while the process may be restarted (main.py).       *)
(* Clients write nothing, so one stands for any number of them.            *)
(*                                                                         *)
(* A row gets its id when it is inserted and is visible once its           *)
(* transaction commits, so rows may become visible out of the order of     *)
(* their ids. Every query is a session, and a step, of its own. A series   *)
(* is abstracted to its labels model and status, and a filter to those     *)
(* two columns; provider is treated like model in both.                    *)
(***************************************************************************)
EXTENDS Integers, FiniteSets, Sequences, Sums

CONSTANTS
    Requests,       \* requests that reach a provider, the cache or a 404
    Keys,           \* virtual key ids
    Models,         \* model names: of the catalogue, free text, or ""
    Price,          \* pricing_for(m): Price[m] a token, 0 if unconfigured
    Counts,         \* token counts as providers report them: a number, also a
                    \* negative one, and how the JSON of the answer writes it
    MaxTracked,     \* _MAX_TRACKED_MODELS
    Filters,        \* the filters the pager may ask for
    Limit,          \* its `limit`
    GlobalLimited,  \* GLOBAL_SPEND_LIMIT_USD is set
    Unfiltered,     \* None as a filter
    None            \* no key

ASSUME UsageLogAssumption ==
    /\ IsFiniteSet(Requests)
    /\ Price \in [Models -> Nat]
    /\ Counts \subseteq [value : Int, as : {"int", "string", "float"}]
    /\ {MaxTracked, Limit} \subseteq Nat \ {0}
    /\ GlobalLimited \in BOOLEAN
    /\ Unfiltered \notin Models \cup {"ok", "error"}
    /\ Filters \subseteq [status : {Unfiltered, "ok", "error"}, model : Models \cup {Unfiltered}]

VARIABLES
    phase,      \* the life of its usage row
    row,        \* the row itself
    id,         \* its primary key
    lastId,     \* the sequence of usage_logs.id
    served,     \* _served_models of the process
    series,     \* label pairs of llm_gateway_requests_total
    client      \* a client of the dashboard, of either endpoint

table == <<phase, row, id, lastId>>
process == <<served, series>>
vars == <<table, process, client>>

Unknown == "unknown"
NoRow == [key |-> None, status |-> "none", model |-> Unknown, cost |-> 0, clamped |-> TRUE]

-----------------------------------------------------------------------------
(* Faulty forms of the definitions below.                                  *)

\* the provider's count is taken as it comes
any_count(count) == count.value

\* the label is the raw text of the request
raw_label(m) == IF m = "" THEN Unknown ELSE m

\* the total is read before the page
count_first == <<"count", "list">>

\* the global sum is read before the key's
global_first == <<"global_spend_usd", "spend_usd">>

\* the ceiling is checked one model too late
track_one_more(m) == m \in served \/ Cardinality(served) > MaxTracked

-----------------------------------------------------------------------------
(* Usage records and Prometheus series.                                    *)

\* Usage._never_negative runs before pydantic makes an int of what the answer
\* holds, and clamps only what is an int already
_never_negative(count) == IF count.as = "int" /\ count.value < 0 THEN 0 ELSE count.value

\* _to_int: streams make an int of a string, and the default of anything else
_to_int(count) == [value |-> IF count.as = "float" THEN 0 ELSE count.value, as |-> "int"]

\* build_usage_record; input and output tokens are taken together
estimated_cost(price, tokens) == price * tokens

_safe(m) == IF m = "" THEN Unknown ELSE m

\* _remember_model returns early
NotTracked(m) == m \in served \/ Cardinality(served) >= MaxTracked

_model_label(m) == IF m \in served THEN m ELSE Unknown

Init ==
    /\ phase = [r \in Requests |-> "idle"]
    /\ row = [r \in Requests |-> NoRow]
    /\ id = [r \in Requests |-> 0]
    /\ lastId = 0
    /\ served = {}
    /\ series = {}
    /\ client = [at |-> "idle"]

\* An answer: emit_metric, then persist_usage is scheduled. It is priced by
\* the model that was asked for, or free if it came from the cache. Its model
\* is the name the provider echoed, or for a stream the one asked for; its
\* count is what the answer says, or for a stream what _to_int makes of it.
\* `clamped` is history: the count was an int when it came to the clamp.
Complete(r) ==
    /\ phase[r] = "idle"
    /\ \E k \in Keys, asked, model \in Models, reported \in Counts :
        \E price \in {Price[asked], 0}, count \in {reported, _to_int(reported)} :
            /\ served' = IF NotTracked(_safe(model)) THEN served
                         ELSE served \cup {_safe(model)}
            /\ series' = series \cup {<<_safe(model), "ok">>}
            /\ row' = [row EXCEPT ![r] =
                    [key |-> k, status |-> "ok", model |-> model,
                     cost |-> estimated_cost(price, _never_negative(count)),
                     clamped |-> count.as = "int"]]
    /\ phase' = [phase EXCEPT ![r] = "scheduled"]
    /\ UNCHANGED <<id, lastId, client>>

\* record_failed_request: the series gets a bounded label, the row the text
Fail(r) ==
    /\ phase[r] = "idle"
    /\ \E k \in Keys, asked \in Models :
        /\ series' = series \cup {<<_model_label(asked), "error">>}
        /\ row' = [row EXCEPT ![r] =
                [key |-> k, status |-> "error", model |-> asked, cost |-> 0, clamped |-> TRUE]]
    /\ phase' = [phase EXCEPT ![r] = "scheduled"]
    /\ UNCHANGED <<id, lastId, served, client>>

-----------------------------------------------------------------------------
(* usage_logs: create_usage_log and create_failed_usage_log.               *)

\* session.add and the flush: the row has an id and nobody sees it
Insert(r) ==
    /\ phase[r] = "scheduled"
    /\ phase' = [phase EXCEPT ![r] = "inserted"]
    /\ lastId' = lastId + 1
    /\ id' = [id EXCEPT ![r] = lastId + 1]
    /\ UNCHANGED <<row, process, client>>

Commit(r) ==
    /\ phase[r] = "inserted"
    /\ phase' = [phase EXCEPT ![r] = "visible"]
    /\ UNCHANGED <<row, id, lastId, process, client>>

\* the tasks and transactions of these requests come to nothing
Lose(requests) ==
    /\ phase' = [r \in Requests |-> IF r \in requests THEN "lost" ELSE phase[r]]
    /\ row' = [r \in Requests |-> IF r \in requests THEN NoRow ELSE row[r]]
    /\ id' = [r \in Requests |-> IF r \in requests THEN 0 ELSE id[r]]
    /\ UNCHANGED lastId

Pending == {r \in Requests : phase[r] \in {"scheduled", "inserted"}}

\* the database refuses: logged by persist_usage, and forgotten
PersistFails(r) ==
    /\ r \in Pending
    /\ Lose({r})
    /\ UNCHANGED <<process, client>>

Matches(r, f) ==
    /\ phase[r] = "visible"
    /\ f.status \in {Unfiltered, row[r].status}
    /\ f.model \in {Unfiltered, row[r].model}

Matching(f) == {r \in Requests : Matches(r, f)}

\* rows before r in the order id DESC
Before(r, f) == Cardinality({s \in Matching(f) : id[s] > id[r]})

list_usage_logs(f, offset) ==
    {r \in Matching(f) : Before(r, f) >= offset /\ Before(r, f) < offset + Limit}

count_usage_logs(f) == Cardinality(Matching(f))

Spend(requests) ==
    SumOver([r \in Requests |-> row[r].cost],
            {r \in requests : phase[r] = "visible" /\ row[r].status = "ok"})

get_key_spend_usd(k) == Spend({r \in Requests : row[r].key = k})
get_global_spend_usd == Spend(Requests)

-----------------------------------------------------------------------------
(* GET /api/logs, called by a client that advances `offset` by what it got *)
(* and stops when it has reached `total`.                                  *)

\* list_logs queries twice, in this order
list_logs == <<"list", "count">>

StartPaging(f) ==
    /\ client.at = "idle"
    /\ client' = [at |-> "logs", filter |-> f, offset |-> 0, step |-> 1,
                  page |-> {}, total |-> 0, seen |-> {}, due |-> Matching(f)]
    /\ UNCHANGED <<table, process>>

\* the next query of the handler
QueryLogs ==
    /\ client.at = "logs"
    /\ client.step <= Len(list_logs)
    /\ \/ /\ list_logs[client.step] = "list"
          /\ client' = [client EXCEPT !.step = @ + 1,
                                      !.page = list_usage_logs(client.filter, client.offset)]
       \/ /\ list_logs[client.step] = "count"
          /\ client' = [client EXCEPT !.step = @ + 1,
                                      !.total = count_usage_logs(client.filter)]
    /\ UNCHANGED <<table, process>>

\* the client gets its page and asks for the next one, or stops
ReceivePage ==
    LET next == client.offset + Cardinality(client.page) IN
    /\ client.at = "logs"
    /\ client.step > Len(list_logs)
    /\ client' = [client EXCEPT !.at = IF next >= client.total THEN "paged" ELSE "logs",
                                !.offset = next, !.step = 1, !.page = {},
                                !.seen = @ \cup client.page]
    /\ UNCHANGED <<table, process>>

-----------------------------------------------------------------------------
(* GET /api/usage/spend.                                                   *)

\* get_spend awaits the two sums in the order of the fields of its answer,
\* the second only if there is a global limit
get_spend ==
    IF GlobalLimited THEN <<"spend_usd", "global_spend_usd">> ELSE <<"spend_usd">>

AskSpend(k) ==
    /\ client.at = "idle"
    /\ client' = [at |-> "spend", key |-> k, step |-> 1, spend_usd |-> 0,
                  global_spend_usd |-> 0]
    /\ UNCHANGED <<table, process>>

\* one of the sums; with the last one the client has its answer
ReadSpend ==
    /\ client.at = "spend"
    /\ client' =
        [client EXCEPT !.at = IF client.step = Len(get_spend) THEN "informed" ELSE "spend",
                       !.step = @ + 1,
                       ![get_spend[client.step]] =
                            IF get_spend[client.step] = "spend_usd"
                            THEN get_key_spend_usd(client.key)
                            ELSE get_global_spend_usd]
    /\ UNCHANGED <<table, process>>

-----------------------------------------------------------------------------
(* The process ends, by a crash or by the shutdown of lifespan, which      *)
(* closes the connections without waiting for the background tasks, and    *)
(* starts again with empty metrics. Clients repeat what was not answered.  *)
Restart ==
    /\ Lose(Pending)
    /\ served' = {}
    /\ series' = {}
    /\ client' = IF client.at \in {"logs", "spend"} THEN [client EXCEPT !.step = 1] ELSE client

Quiet ==
    /\ \A r \in Requests : phase[r] \in {"visible", "lost"}
    /\ client.at \in {"paged", "informed"}
    /\ UNCHANGED vars

Next ==
    \/ \E r \in Requests :
        \/ Complete(r) \/ Fail(r)
        \/ Insert(r) \/ Commit(r) \/ PersistFails(r)
    \/ (\E f \in Filters : StartPaging(f)) \/ QueryLogs \/ ReceivePage
    \/ (\E k \in Keys : AskSpend(k)) \/ ReadSpend
    \/ Restart
    \/ Quiet

Spec == Init /\ [][Next]_vars

-----------------------------------------------------------------------------
(* Properties.                                                             *)

\* The types of the variables; _served_models never outgrows its ceiling.
TypeOK ==
    /\ phase \in [Requests -> {"idle", "scheduled", "inserted", "visible", "lost"}]
    /\ \A r \in Requests :
        /\ row[r].key \in Keys \cup {None}
        /\ row[r].status \in {"none", "ok", "error"}
        /\ row[r].model \in Models \cup {Unknown}
        /\ row[r].cost \in Int
        /\ row[r].clamped \in BOOLEAN
    /\ id \in [Requests -> 0..lastId]
    /\ served \subseteq (Models \ {""}) \cup {Unknown}
    /\ Cardinality(served) <= MaxTracked
    /\ client.at \in {"idle", "logs", "spend", "paged", "informed"}

\* A client that pages through GET /api/logs until offset reaches total has
\* seen every matching row that was visible when it began, although rows
\* become visible, out of the order of their ids, between its queries.
PagesCoverLog == client.at = "paged" => client.due \subseteq client.seen

\* The series of failed requests name only models that were served since the
\* process started, and at most _MAX_TRACKED_MODELS of them: a client's free
\* text creates no series unless a provider has answered to it.
ErrorLabelsBounded ==
    LET labels == {s[1] : s \in {t \in series : t[2] = "error"}} IN
    /\ \A m \in labels \ {Unknown} : <<m, "ok">> \in series
    /\ Cardinality(labels) <= MaxTracked + 1

\* Every count in the table was an int when it came to the clamp.
AllClamped == \A r \in Requests : phase[r] = "visible" => row[r].clamped

\* One answer of GET /api/usage/spend never shows a key that has spent more
\* than all keys together, unless a count has escaped the clamp.
ReportConsistent ==
    client.at = "informed" /\ GlobalLimited /\ AllClamped =>
        client.spend_usd <= client.global_spend_usd

\* However rows are lost and whenever the process ends, what the spend caps
\* sum for a key shrinks only in one way: by the commit of a row of that key
\* whose count escaped the clamp.
SpendShrinksOnlyUnclamped ==
    [][\A k \in Keys :
        get_key_spend_usd(k)' < get_key_spend_usd(k) =>
            \E r \in Requests :
                /\ phase[r] = "inserted" /\ phase'[r] = "visible"
                /\ row[r].key = k /\ ~row[r].clamped]_vars
=============================================================================
