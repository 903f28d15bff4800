-------------------------- MODULE UsageLog_proofs --------------------------
(***************************************************************************)
(* Proofs about UsageLog, for any requests, keys, models, prices, counts,  *)
(* filters and page sizes, and whenever the process ends.                  *)
(***************************************************************************)
EXTENDS UsageLog, Sums_proofs

\* Nothing costs less than nothing, if its count came to the clamp as an int.
Rows == {x \in [key : Keys \cup {None}, status : {"none", "ok", "error"},
                model : Models \cup {Unknown}, cost : Int, clamped : BOOLEAN] :
            x.clamped => x.cost >= 0}

\* Only rows of the table have an id, no two the same.
TableShape ==
    /\ row \in [Requests -> Rows]
    /\ lastId \in Nat
    /\ \A r \in Requests : phase[r] \in {"inserted", "visible"} => id[r] > 0
    /\ \A r \in Requests : id[r] > 0 => phase[r] \in {"inserted", "visible"}
    /\ \A r, s \in Requests : id[r] = id[s] /\ id[r] > 0 => r = s

\* A model is remembered when it is served, and only a remembered one
\* becomes the label of an error.
LabelShape ==
    /\ IsFiniteSet(served)
    /\ \A m \in served : <<m, "ok">> \in series
    /\ series \subseteq (Models \cup {Unknown}) \X {"ok", "error"}
    /\ \A m \in Models \cup {Unknown} : <<m, "error">> \in series => m \in served \cup {Unknown}

\* the fields the client has, by where it is
Pagers == [at : {"logs", "paged"}, filter : Filters, offset : Nat, step : 1..3,
           page : SUBSET Requests, total : Nat, seen : SUBSET Requests, due : SUBSET Requests]
Readers == [at : {"spend", "informed"}, key : Keys, step : 1..3, spend_usd : Int,
            global_spend_usd : Int]
ClientShape == client = [at |-> "idle"] \/ client \in Pagers \/ client \in Readers

\* What is due and not yet seen is still ahead of the pager: at `offset` or
\* later in the order of the table, behind the page once that is read, and
\* before `total` once that is read too.
Ahead(f) ==
    LET next == client.offset + Cardinality(client.page)
        rest == client.due \ (client.seen \cup client.page) IN
    /\ client.due \subseteq Matching(f)
    /\ \A r \in client.due \ client.seen : Before(r, f) >= client.offset
    /\ client.step > 1 => \A r \in rest : Before(r, f) >= next
    /\ client.step > 2 /\ rest # {} => next < client.total

PagerShape == \A f \in Filters : client.at = "logs" /\ client.filter = f => Ahead(f)

\* The key's sum was read first, and the global one has only grown since, if
\* no count has escaped the clamp.
ReportShape ==
    client.at = "spend" =>
        /\ client.step <= Len(get_spend)
        /\ client.step = 2 /\ AllClamped => client.spend_usd <= get_global_spend_usd

\* The inductive invariant.
IInv ==
    /\ TypeOK
    /\ TableShape
    /\ LabelShape
    /\ ClientShape
    /\ PagerShape
    /\ PagesCoverLog
    /\ ReportShape
    /\ ReportConsistent

-----------------------------------------------------------------------------
(* The order of the table: Before is the position of a row.                *)

\* The rows a filter selects are finitely many, and have a position each.
LEMMA MatchingFinite ==
    ASSUME NEW f
    PROVE  /\ Matching(f) \subseteq Requests /\ IsFiniteSet(Matching(f))
           /\ Cardinality(Matching(f)) \in Nat
           /\ \A r : Before(r, f) \in Nat
<1>1. Matching(f) \subseteq Requests
    BY DEF Matching
<1>2. IsFiniteSet(Matching(f))
    BY <1>1, UsageLogAssumption, FS_Subset
<1>3. ASSUME NEW r PROVE Before(r, f) \in Nat
  <2>1. IsFiniteSet({s \in Matching(f) : id[s] > id[r]})
      BY <1>2, FS_Subset
  <2> QED
      BY <2>1, FS_CardinalityType DEF Before
<1> QED
    BY <1>1, <1>2, <1>3, FS_CardinalityType

\* Ids are numbers.
LEMMA IdType ==
    ASSUME TypeOK, TableShape
    PROVE  \A r \in Requests : id[r] \in Nat
<1>1. id \in [Requests -> 0..lastId] /\ lastId \in Nat
    BY DEF TypeOK, TableShape
<1> QED
    BY <1>1

\* The row with the larger id has the smaller position.
LEMMA LaterIsBefore ==
    ASSUME TypeOK, TableShape, NEW f, NEW r \in Matching(f), NEW s \in Matching(f), id[r] < id[s]
    PROVE  Before(s, f) < Before(r, f)
<1> DEFINE R == {t \in Matching(f) : id[t] > id[r]}
           S == {t \in Matching(f) : id[t] > id[s]}
<1>1. R \subseteq Matching(f) /\ S \subseteq R /\ s \in R /\ s \notin S
    BY MatchingFinite, IdType
<1>2. IsFiniteSet(R)
    BY <1>1, MatchingFinite, FS_Subset
<1>3. Cardinality(S) <= Cardinality(R) /\ Cardinality(S) # Cardinality(R)
    BY <1>1, <1>2, FS_Subset
<1>4. Cardinality(S) = Before(s, f) /\ Cardinality(R) = Before(r, f)
    BY DEF Before
<1> HIDE DEF R, S
<1> QED
    BY <1>3, <1>4, MatchingFinite

\* No two rows have the same position.
LEMMA PositionsDiffer ==
    ASSUME TypeOK, TableShape, NEW f, NEW r \in Matching(f), NEW s \in Matching(f), r # s
    PROVE  Before(r, f) # Before(s, f)
<1>1. id[r] # id[s] /\ id[r] \in Nat /\ id[s] \in Nat
  <2>1. phase[r] = "visible" /\ r \in Requests /\ s \in Requests
      BY DEF Matching, Matches
  <2>2. id[r] > 0
      BY <2>1 DEF TableShape
  <2> QED
      BY <2>1, <2>2, IdType DEF TableShape
<1>2. id[r] < id[s] \/ id[s] < id[r]
    BY <1>1
<1>3. Before(r, f) \in Nat /\ Before(s, f) \in Nat
    BY MatchingFinite
<1> QED
    BY <1>2, <1>3, LaterIsBefore

\* `LIMIT limit OFFSET offset` returns at most limit rows.
LEMMA PageBounded ==
    ASSUME TypeOK, TableShape, NEW f, NEW offset \in Nat
    PROVE  LET page == list_usage_logs(f, offset) IN
           /\ page \subseteq Matching(f)
           /\ Cardinality(page) \in Nat /\ Cardinality(page) <= Limit
<1> DEFINE page == list_usage_logs(f, offset)
           T == offset..(offset + Limit - 1)
           position == [r \in page |-> Before(r, f)]
<1>1. page \subseteq Matching(f)
    BY DEF list_usage_logs
<1>2. IsFiniteSet(page) /\ Cardinality(page) \in Nat
    BY <1>1, MatchingFinite, FS_Subset, FS_CardinalityType
<1>3. IsFiniteSet(T) /\ Cardinality(T) = Limit
  <2>1. Limit \in Nat \ {0} /\ offset + Limit - 1 \in Int
      BY UsageLogAssumption
  <2>2. /\ IsFiniteSet(T)
        /\ Cardinality(T) = IF offset > offset + Limit - 1 THEN 0
                            ELSE offset + Limit - 1 - offset + 1
      BY <2>1, FS_Interval
  <2> QED
      BY <2>1, <2>2
<1>4. position \in [page -> T]
    BY MatchingFinite, UsageLogAssumption DEF list_usage_logs
<1>5. \A r, s \in page : r # s => position[r] # position[s]
    BY <1>1, PositionsDiffer
<1> HIDE DEF page, T, position
<1>6. ~(Cardinality(T) < Cardinality(page))
    BY <1>2, <1>3, <1>4, <1>5, FS_PigeonHole
<1>7. Cardinality(page) <= Limit
    BY <1>2, <1>3, <1>6, UsageLogAssumption
<1> QED
    BY <1>1, <1>2, <1>7 DEF page

\* A row's position is below the number of rows.
LEMMA PositionBelowCount ==
    ASSUME TypeOK, TableShape, NEW f, NEW r \in Matching(f)
    PROVE  Before(r, f) < count_usage_logs(f)
<1> DEFINE R == {t \in Matching(f) : id[t] > id[r]}
<1>1. R \subseteq Matching(f) /\ r \notin R
    BY MatchingFinite, IdType
<1>2. Cardinality(R) <= Cardinality(Matching(f)) /\ Cardinality(R) # Cardinality(Matching(f))
    BY <1>1, MatchingFinite, FS_Subset
<1>3. Cardinality(R) = Before(r, f)
    BY DEF Before
<1> HIDE DEF R
<1> QED
    BY <1>2, <1>3, MatchingFinite DEF count_usage_logs

-----------------------------------------------------------------------------
(* What a step does to the table.                                          *)

\* A visible row stays as it is, under its id.
RowsStay ==
    \A r \in Requests :
        phase[r] = "visible" => phase'[r] = "visible" /\ row'[r] = row[r] /\ id'[r] = id[r]

\* No step touches a visible row.
LEMMA VisibleStays ==
    ASSUME TypeOK, TableShape, [Next]_vars
    PROVE  RowsStay
<1> USE DEF TypeOK, TableShape, RowsStay, table
<1>1. ASSUME NEW r \in Requests, Complete(r) PROVE RowsStay
    BY <1>1 DEF Complete
<1>2. ASSUME NEW r \in Requests, Fail(r) PROVE RowsStay
    BY <1>2 DEF Fail
<1>3. ASSUME NEW r \in Requests, Insert(r) \/ Commit(r) PROVE RowsStay
    BY <1>3 DEF Insert, Commit
<1>4. ASSUME NEW requests, requests \subseteq Pending, Lose(requests) PROVE RowsStay
    BY <1>4 DEF Lose, Pending
<1>5. CASE UNCHANGED table
    BY <1>5
<1>6. UNCHANGED vars => UNCHANGED table
    BY DEF vars
<1> QED
    BY <1>1, <1>2, <1>3, <1>4, <1>5, <1>6 DEF Next, PersistFails, Restart, StartPaging, QueryLogs,
       ReceivePage, AskSpend, ReadSpend, Quiet

\* Rows join the selection of a filter and never leave it, so that the
\* position of a row in it only grows.
LEMMA PositionsGrow ==
    ASSUME TypeOK, RowsStay, NEW f
    PROVE  /\ Matching(f) \subseteq Matching(f)'
           /\ \A r \in Matching(f) : Before(r, f)' \in Nat /\ Before(r, f) <= Before(r, f)'
<1>1. Matching(f) \subseteq Matching(f)'
    BY DEF RowsStay, Matching, Matches
<1>2. ASSUME NEW r \in Matching(f)
      PROVE  Before(r, f)' \in Nat /\ Before(r, f) <= Before(r, f)'
  <2> DEFINE R == {t \in Matching(f) : id[t] > id[r]}
             S == {t \in Matching(f)' : id'[t] > id'[r]}
  <2>1. \A t \in Matching(f) : id'[t] = id[t]
      BY DEF RowsStay, Matching, Matches
  <2>2. R \subseteq S
      BY <1>1, <2>1
  <2>3. S \subseteq Requests
      BY DEF Matching
  <2>4. IsFiniteSet(S)
      BY <2>3, UsageLogAssumption, FS_Subset
  <2>5. Cardinality(R) <= Cardinality(S) /\ Cardinality(S) \in Nat
      BY <2>2, <2>4, FS_Subset, FS_CardinalityType
  <2>6. Cardinality(R) = Before(r, f) /\ Cardinality(S) = Before(r, f)'
      BY DEF Before
  <2> QED
      BY <2>5, <2>6
<1> QED
    BY <1>1, <1>2

-----------------------------------------------------------------------------
(* What the spend caps and GET /api/usage/spend sum.                       *)

Cost == [r \in Requests |-> row[r].cost]
Charged(requests) == {r \in requests : phase[r] = "visible" /\ row[r].status = "ok"}

\* What a row of the table costs.
LEMMA RowCosts ==
    ASSUME NEW x \in Rows
    PROVE  x.cost \in Int /\ x.clamped \in BOOLEAN /\ (x.clamped => x.cost >= 0)
    BY DEF Rows

\* A part of the table has a sum after a step, too.
LEMMA SumAfter ==
    ASSUME TableShape', NEW T \in SUBSET Requests
    PROVE  Spend(T)' \in Int
<1>1. (Charged(T) \in SUBSET Requests /\ IsFiniteSet(Charged(T)))'
    BY UsageLogAssumption, FS_Subset DEF Charged
<1>2. \A r \in Requests : Cost'[r] \in Int
    BY RowCosts DEF TableShape, Cost
<1>3. \A r \in Charged(T)' : Cost'[r] \in Int
    BY <1>1, <1>2
<1>4. SumOver(Cost', Charged(T)') \in Int
    BY <1>1, <1>3, SumPicks
<1> QED
    BY <1>4 DEF Spend, Charged, Cost

\* Any part of the table has a sum; a larger part no smaller one, unless a
\* count has escaped the clamp.
LEMMA PartsOfTable ==
    ASSUME TableShape, NEW T \in SUBSET Requests, NEW S \in SUBSET T
    PROVE  Spend(S) \in Int /\ (AllClamped => Spend(S) <= Spend(T))
<1>1. \A r \in Requests : Cost[r] \in Int /\ (row[r].clamped => Cost[r] >= 0)
    BY RowCosts DEF TableShape, Cost
<1>2. Charged(S) \in SUBSET Charged(T) /\ Charged(T) \in SUBSET Requests
    BY DEF Charged
<1>3. IsFiniteSet(Charged(T)) /\ IsFiniteSet(Charged(S))
    BY <1>2, UsageLogAssumption, FS_Subset
<1>4. \A r \in Charged(T) : Cost[r] \in Int
    BY <1>1, <1>2
<1>5. \A r \in Charged(S) : Cost[r] \in Int
    BY <1>2, <1>4
<1>6. SumOver(Cost, Charged(S)) \in Int
    BY <1>3, <1>5, SumPicks
<1>7. ASSUME AllClamped PROVE SumOver(Cost, Charged(S)) <= SumOver(Cost, Charged(T))
  <2>1. \A r \in Charged(T) : Cost[r] >= 0
      BY <1>1, <1>7 DEF Charged, AllClamped
  <2> QED
      BY <1>2, <1>3, <1>4, <2>1, SumGrows
<1> QED
    BY <1>6, <1>7 DEF Spend, Charged, Cost

\* A key has not spent more than all keys together.
LEMMA KeyBelowGlobal ==
    ASSUME TableShape, NEW k
    PROVE  /\ get_key_spend_usd(k) \in Int /\ get_global_spend_usd \in Int
           /\ AllClamped => get_key_spend_usd(k) <= get_global_spend_usd
<1> DEFINE S == {r \in Requests : row[r].key = k}
<1>1. S \in SUBSET Requests
    OBVIOUS
<1>2. /\ Spend(S) \in Int /\ Spend(Requests) \in Int
      /\ AllClamped => Spend(S) <= Spend(Requests)
  <2> HIDE DEF S
  <2> QED
      BY <1>1, PartsOfTable
<1> QED
    BY <1>2 DEF get_key_spend_usd, get_global_spend_usd

\* Rows that stay what they are keep their cost, and clamped rows that join
\* the table cost nothing less than nothing.
LEMMA SpendGrows ==
    ASSUME TableShape, TableShape', RowsStay,
           NEW S \in SUBSET Requests, NEW T \in SUBSET Requests,
           \A r \in S : phase[r] = "visible" => r \in T,
           \A r \in T : phase'[r] = "visible" /\ ~(r \in S /\ phase[r] = "visible") => row'[r].clamped
    PROVE  Spend(S) <= Spend(T)'
<1>1. Charged(S) \in SUBSET Charged(T)'
    BY DEF Charged, RowsStay
<1>2. Charged(T)' \in SUBSET Requests
    BY DEF Charged
<1>3. IsFiniteSet(Charged(T)') /\ IsFiniteSet(Charged(S))
    BY <1>1, <1>2, UsageLogAssumption, FS_Subset
<1>0. \A r \in Requests : row[r] \in Rows /\ row'[r] \in Rows
    BY DEF TableShape
<1>4. \A r \in Requests : Cost[r] \in Int /\ Cost'[r] \in Int
    BY <1>0, RowCosts DEF Cost
<1>9. \A r \in Requests : row'[r].clamped => Cost'[r] >= 0
    BY <1>0, RowCosts DEF Cost
<1>5. \A r \in Charged(S) : Cost[r] = Cost'[r]
    BY DEF Charged, RowsStay, Cost
<1>6. \A r \in Charged(S) : Cost[r] \in Int /\ Cost[r] = Cost'[r]
    BY <1>1, <1>2, <1>4, <1>5
<1>7. SumOver(Cost, Charged(S)) = SumOver(Cost', Charged(S))
    BY <1>3, <1>6, SumAgrees
<1>8. SumOver(Cost', Charged(S)) <= SumOver(Cost', Charged(T)')
  <2>1. \A r \in Charged(T)' : Cost'[r] \in Int
      BY <1>2, <1>4
  <2>2. ASSUME NEW r \in Charged(T)' \ Charged(S) PROVE Cost'[r] >= 0
    <3>1. r \in T /\ r \in Requests /\ phase'[r] = "visible" /\ row'[r].status = "ok"
        BY DEF Charged
    <3>2. ~(r \in S /\ phase[r] = "visible")
        BY <3>1 DEF Charged, RowsStay
    <3> QED
        BY <1>9, <3>1, <3>2
  <2> QED
      BY <1>1, <1>3, <2>1, <2>2, SumGrows
<1> QED
    BY <1>7, <1>8 DEF Spend, Charged, Cost

-----------------------------------------------------------------------------
(* Every step preserves the invariant.                                     *)

\* The invariant holds before the first request.
LEMMA InitIInv == Init => IInv
<1> SUFFICES ASSUME Init PROVE IInv
    OBVIOUS
<1>1. IsFiniteSet({}) /\ Cardinality({}) = 0
    BY FS_EmptySet
<1>2. NoRow \in Rows
    BY DEF NoRow, Rows
<1>3. TypeOK
  <2>1. /\ NoRow.key = None /\ NoRow.status = "none" /\ NoRow.model = Unknown
        /\ NoRow.cost = 0 /\ NoRow.clamped \in BOOLEAN
      BY DEF NoRow
  <2> QED
      BY <1>1, <2>1, UsageLogAssumption DEF Init, TypeOK
<1>4. TableShape /\ LabelShape /\ ClientShape
    BY <1>1, <1>2 DEF Init, TableShape, LabelShape, ClientShape
<1>5. PagerShape /\ PagesCoverLog /\ ReportShape /\ ReportConsistent
    BY DEF Init, PagerShape, PagesCoverLog, ReportShape, ReportConsistent
<1> QED
    BY <1>3, <1>4, <1>5 DEF IInv

\* The part of TypeOK about the table; TableShape implies the rest of it.
IdsInRange ==
    /\ phase \in [Requests -> {"idle", "scheduled", "inserted", "visible", "lost"}]
    /\ id \in [Requests -> 0..lastId]

\* build_usage_record never computes a negative cost from a clamped count.
LEMMA CostType ==
    ASSUME NEW m \in Models, NEW price \in {Price[m], 0}, NEW count \in Counts
    PROVE  \A n \in {count, _to_int(count)} :
               /\ estimated_cost(price, _never_negative(n)) \in Int
               /\ n.as = "int" => estimated_cost(price, _never_negative(n)) >= 0
<1>1. price \in Nat /\ count.value \in Int
    BY UsageLogAssumption
<1>2. ASSUME NEW n \in {count, _to_int(count)} PROVE n.value \in Int
    BY <1>1 DEF _to_int
<1>3. ASSUME NEW n \in {count, _to_int(count)}
      PROVE  _never_negative(n) \in Int /\ (n.as = "int" => _never_negative(n) >= 0)
    BY <1>2 DEF _never_negative
<1>4. \A a \in Nat, b \in Int : a * b \in Int
    OBVIOUS
<1>5. \A a \in Nat, b \in Nat : a * b >= 0
    OBVIOUS
<1> QED
    BY <1>1, <1>3, <1>4, <1>5 DEF estimated_cost

\* What an answer leaves: a tracked label, a series and a row.
LEMMA AnswerRecorded ==
    ASSUME NEW r \in Requests, Complete(r)
    PROVE  \E model \in Models, new \in Rows :
               /\ served' = IF NotTracked(_safe(model)) THEN served
                            ELSE served \cup {_safe(model)}
               /\ series' = series \cup {<<_safe(model), "ok">>}
               /\ row' = [row EXCEPT ![r] = new]
<1>1. PICK k \in Keys, asked, model \in Models, reported \in Counts :
        \E price \in {Price[asked], 0}, count \in {reported, _to_int(reported)} :
            /\ served' = IF NotTracked(_safe(model)) THEN served
                         ELSE served \cup {_safe(model)}
            /\ series' = series \cup {<<_safe(model), "ok">>}
            /\ row' = [row EXCEPT ![r] =
                    [key |-> k, status |-> "ok", model |-> model,
                     cost |-> estimated_cost(price, _never_negative(count)),
                     clamped |-> count.as = "int"]]
    BY Zenon DEF Complete
<1>2. PICK price \in {Price[asked], 0}, count \in {reported, _to_int(reported)} :
            row' = [row EXCEPT ![r] =
                    [key |-> k, status |-> "ok", model |-> model,
                     cost |-> estimated_cost(price, _never_negative(count)),
                     clamped |-> count.as = "int"]]
    BY <1>1
<1>3. [key |-> k, status |-> "ok", model |-> model,
       cost |-> estimated_cost(price, _never_negative(count)),
       clamped |-> count.as = "int"] \in Rows
  <2>1. /\ estimated_cost(price, _never_negative(count)) \in Int
        /\ count.as = "int" => estimated_cost(price, _never_negative(count)) >= 0
      BY CostType
  <2> QED
      BY <2>1 DEF Rows
<1> QED
    BY <1>1, <1>2, <1>3

\* The table keeps its shape: an id is given once, and taken back only with
\* its row.
LEMMA TableStep == IInv /\ [Next]_vars => IdsInRange' /\ TableShape'
<1> SUFFICES ASSUME IInv, [Next]_vars PROVE IdsInRange' /\ TableShape'
    OBVIOUS
<1>0. IdsInRange /\ TableShape /\ \A r \in Requests : id[r] \in Nat
    BY IdType DEF IInv, TypeOK, IdsInRange
<1> USE DEF IdsInRange, TableShape
<1>1. ASSUME NEW r \in Requests, Complete(r) \/ Fail(r) PROVE IdsInRange' /\ TableShape'
  <2>1. PICK new \in Rows : row' = [row EXCEPT ![r] = new]
    <3>1. CASE Complete(r)
        BY <3>1, AnswerRecorded
    <3>2. CASE Fail(r)
      <4>1. \A k \in Keys, asked \in Models :
              [key |-> k, status |-> "error", model |-> asked, cost |-> 0, clamped |-> TRUE] \in Rows
          BY DEF Rows
      <4> QED
          BY <3>2, <4>1 DEF Fail
    <3> QED
        BY <1>1, <3>1, <3>2
  <2>2. phase[r] = "idle" /\ phase' = [phase EXCEPT ![r] = "scheduled"] /\ UNCHANGED <<id, lastId>>
      BY <1>1 DEF Complete, Fail
  <2>3. IdsInRange'
      BY <1>0, <2>2
  <2> QED
      BY <1>0, <2>1, <2>2, <2>3
<1>2. ASSUME NEW r \in Requests, Insert(r) PROVE IdsInRange' /\ TableShape'
  <2>1. /\ phase' = [phase EXCEPT ![r] = "inserted"] /\ lastId' = lastId + 1
        /\ id' = [id EXCEPT ![r] = lastId + 1] /\ UNCHANGED row
      BY <1>2 DEF Insert
  <2>2. \A s \in Requests : id[s] <= lastId
      BY <1>0
  <2>3. IdsInRange'
      BY <1>0, <2>1
  <2> QED
      BY <1>0, <2>1, <2>2, <2>3
<1>3. ASSUME NEW r \in Requests, Commit(r) PROVE IdsInRange' /\ TableShape'
    BY <1>0, <1>3 DEF Commit
<1>4. ASSUME NEW requests, Lose(requests) PROVE IdsInRange' /\ TableShape'
  <2>1. NoRow \in Rows
      BY DEF NoRow, Rows
  <2>2. IdsInRange' /\ row' \in [Requests -> Rows]
      BY <1>0, <1>4, <2>1 DEF Lose
  <2>3. \A r \in Requests : id'[r] > 0 => id'[r] = id[r] /\ phase'[r] = phase[r]
      BY <1>0, <1>4 DEF Lose
  <2>4. \A r \in Requests : phase'[r] \in {"inserted", "visible"} => id'[r] = id[r] /\ phase'[r] = phase[r]
      BY <1>0, <1>4 DEF Lose
  <2> QED
      BY <1>0, <1>4, <2>2, <2>3, <2>4 DEF Lose
<1>5. CASE UNCHANGED table
    BY <1>0, <1>5 DEF table
<1>6. UNCHANGED vars => UNCHANGED table
    BY DEF vars
<1> QED
    BY <1>1, <1>2, <1>3, <1>4, <1>5, <1>6 DEF Next, PersistFails, Restart, StartPaging, QueryLogs,
       ReceivePage, AskSpend, ReadSpend, Quiet

\* what _model_label may return
Labels == (Models \ {""}) \cup {Unknown}

\* _remember_model keeps _served_models below its ceiling, and what it
\* remembers has a series.
LEMMA LabelStep ==
    IInv /\ [Next]_vars =>
        /\ LabelShape'
        /\ served' \subseteq Labels
        /\ Cardinality(served') <= MaxTracked
<1> SUFFICES ASSUME IInv, [Next]_vars
             PROVE  /\ LabelShape'
                    /\ served' \subseteq Labels
                    /\ Cardinality(served') <= MaxTracked
    OBVIOUS
<1> USE DEF LabelShape
<1>0. /\ LabelShape /\ served \subseteq Labels
      /\ Cardinality(served) <= MaxTracked /\ Cardinality(served) \in Nat /\ MaxTracked \in Nat
  <2>1. served \subseteq Labels /\ Cardinality(served) <= MaxTracked
      BY DEF IInv, TypeOK, Labels
  <2> QED
      BY <2>1, UsageLogAssumption, FS_CardinalityType DEF IInv
<1>1. ASSUME NEW r \in Requests, Complete(r)
      PROVE  /\ LabelShape'
             /\ served' \subseteq Labels
             /\ Cardinality(served') <= MaxTracked
  <2>1. PICK echoed \in Models :
            /\ served' = IF NotTracked(_safe(echoed)) THEN served ELSE served \cup {_safe(echoed)}
            /\ series' = series \cup {<<_safe(echoed), "ok">>}
      BY <1>1, AnswerRecorded
  <2> DEFINE m == _safe(echoed)
  <2>2. m \in Labels /\ m \in Models \cup {Unknown}
      BY DEF _safe, Labels
  <2> HIDE DEF m
  <2>3. CASE NotTracked(m)
    <3>1. served' = served /\ series' = series \cup {<<m, "ok">>}
        BY <2>1, <2>3 DEF m
    <3> QED
        BY <1>0, <2>2, <3>1
  <2>4. CASE ~NotTracked(m)
    <3>1. m \notin served /\ Cardinality(served) < MaxTracked
        BY <1>0, <2>4 DEF NotTracked
    <3>2. served' = served \cup {m} /\ series' = series \cup {<<m, "ok">>}
        BY <2>1, <2>4 DEF m
    <3>3. IsFiniteSet(served') /\ Cardinality(served') = Cardinality(served) + 1
        BY <1>0, <3>1, <3>2, FS_AddElement
    <3> QED
        BY <1>0, <2>2, <3>1, <3>2, <3>3
  <2> QED
      BY <2>3, <2>4
<1>2. ASSUME NEW r \in Requests, Fail(r) PROVE LabelShape' /\ served' = served
    BY <1>0, <1>2 DEF Fail, _model_label, Unknown
<1>3. CASE Restart
  <2>1. served' = {} /\ series' = {}
      BY <1>3 DEF Restart
  <2> QED
      BY <1>0, <2>1, FS_EmptySet
<1>4. CASE UNCHANGED process
    BY <1>0, <1>4 DEF process
<1>5. UNCHANGED vars => UNCHANGED process
    BY DEF vars
<1> QED
    BY <1>0, <1>1, <1>2, <1>3, <1>4, <1>5 DEF Next, Insert, Commit, PersistFails, StartPaging,
       QueryLogs, ReceivePage, AskSpend, ReadSpend, Quiet

\* Whatever queries and answers write, the client keeps its fields.
LEMMA PagerUpdates ==
    ASSUME NEW c \in Pagers, NEW step \in 1..3
    PROVE  /\ [c EXCEPT !.step = step] \in Pagers
           /\ \A page \in SUBSET Requests : [c EXCEPT !.step = step, !.page = page] \in Pagers
           /\ \A total \in Nat : [c EXCEPT !.step = step, !.total = total] \in Pagers
    BY DEF Pagers

\* A client that asks for the next page, or stops, is still one that pages.
LEMMA PagerMoves ==
    ASSUME NEW c \in Pagers, NEW at \in {"logs", "paged"}, NEW offset \in Nat, NEW step \in 1..3,
           NEW page \in SUBSET Requests, NEW seen \in SUBSET Requests
    PROVE  [c EXCEPT !.at = at, !.offset = offset, !.step = step, !.page = page, !.seen = seen]
               \in Pagers
    BY DEF Pagers

\* The client of the spend route stays one between its two reads.
LEMMA ReaderUpdates ==
    ASSUME NEW c \in Readers, NEW step \in 1..3
    PROVE  /\ [c EXCEPT !.step = step] \in Readers
           /\ \A at \in {"spend", "informed"}, sum \in Int :
                /\ [c EXCEPT !.at = at, !.step = step, !.spend_usd = sum] \in Readers
                /\ [c EXCEPT !.at = at, !.step = step, !.global_spend_usd = sum] \in Readers
    BY DEF Readers

\* get_spend reads the key's sum, then the global one if there is a limit.
LEMMA SumRead ==
    ASSUME IInv, ReadSpend
    PROVE  /\ client \in Readers
           /\ \/ /\ client.step = 1
                 /\ client' = [client EXCEPT !.at = IF GlobalLimited THEN "spend" ELSE "informed",
                                             !.step = 2,
                                             !.spend_usd = get_key_spend_usd(client.key)]
              \/ /\ client.step = 2 /\ GlobalLimited
                 /\ client' = [client EXCEPT !.at = "informed", !.step = 3,
                                             !.global_spend_usd = get_global_spend_usd]
<1>1. client.at = "spend" /\ client \in Readers /\ client.step \in 1..3
    BY DEF IInv, ClientShape, Readers, Pagers, ReadSpend
<1>2. client.step <= Len(get_spend)
    BY <1>1 DEF IInv, ReportShape
<1>3. client' =
        [client EXCEPT !.at = IF client.step = Len(get_spend) THEN "informed" ELSE "spend",
                       !.step = client.step + 1,
                       ![get_spend[client.step]] =
                            IF get_spend[client.step] = "spend_usd"
                            THEN get_key_spend_usd(client.key)
                            ELSE get_global_spend_usd]
    BY Zenon DEF ReadSpend
<1>4. GlobalLimited \in BOOLEAN
    BY UsageLogAssumption
<1>5. CASE client.step = 1
  <2>1. get_spend[client.step] = "spend_usd"
      BY <1>5 DEF get_spend
  <2>2. (client.step = Len(get_spend)) = ~GlobalLimited /\ client.step + 1 = 2
      BY <1>4, <1>5 DEF get_spend
  <2>3. (IF client.step = Len(get_spend) THEN "informed" ELSE "spend")
            = (IF GlobalLimited THEN "spend" ELSE "informed")
      BY <1>4, <2>2
  <2>4. (IF get_spend[client.step] = "spend_usd" THEN get_key_spend_usd(client.key)
         ELSE get_global_spend_usd) = get_key_spend_usd(client.key)
      BY <2>1
  <2> QED
      BY <1>1, <1>3, <1>5, <2>1, <2>2, <2>3, <2>4, Zenon
<1>6. CASE client.step = 2
  <2>1. get_spend[client.step] = "global_spend_usd" /\ GlobalLimited
      BY <1>2, <1>4, <1>6 DEF get_spend
  <2>2. client.step = Len(get_spend) /\ client.step + 1 = 3
      BY <1>6, <2>1 DEF get_spend
  <2>3. (IF client.step = Len(get_spend) THEN "informed" ELSE "spend") = "informed"
      BY <2>2
  <2>4. (IF get_spend[client.step] = "spend_usd" THEN get_key_spend_usd(client.key)
         ELSE get_global_spend_usd) = get_global_spend_usd
      BY <2>1
  <2> QED
      BY <1>1, <1>3, <1>6, <2>1, <2>2, <2>3, <2>4, Zenon
<1>7. client.step # 3
    BY <1>2 DEF get_spend
<1> QED
    BY <1>1, <1>5, <1>6, <1>7

\* The client has the fields of where it is.
LEMMA ClientStep == IInv /\ [Next]_vars => ClientShape'
<1> SUFFICES ASSUME IInv, [Next]_vars PROVE ClientShape'
    OBVIOUS
<1>0. ClientShape /\ TypeOK /\ TableShape
    BY DEF IInv
<1>1. ASSUME NEW f \in Filters, StartPaging(f) PROVE ClientShape'
  <2>1. Matching(f) \in SUBSET Requests
      BY DEF Matching
  <2> QED
      BY <1>1, <2>1 DEF StartPaging, ClientShape, Pagers
<1>2. CASE QueryLogs
  <2>1. client \in Pagers /\ client.step \in 1..2
    <3>1. client.at = "logs" /\ client.step <= 2
        BY <1>2 DEF QueryLogs, list_logs
    <3> QED
        BY <1>0, <3>1 DEF ClientShape, Pagers, Readers
  <2>2. PICK f, offset, step :
            f = client.filter /\ offset = client.offset /\ step = client.step + 1
      OBVIOUS
  <2>3. PICK page, total : page = list_usage_logs(f, offset) /\ total = count_usage_logs(f)
      OBVIOUS
  <2>4. page \in SUBSET Requests /\ total \in Nat /\ step \in 1..3
      BY <2>1, <2>2, <2>3, MatchingFinite DEF list_usage_logs, count_usage_logs
  <2>5. \/ client' = [client EXCEPT !.step = step, !.page = page]
        \/ client' = [client EXCEPT !.step = step, !.total = total]
      BY <1>2, <2>2, <2>3, Zenon DEF QueryLogs
  <2>6. /\ [client EXCEPT !.step = step, !.page = page] \in Pagers
        /\ [client EXCEPT !.step = step, !.total = total] \in Pagers
      BY <2>1, <2>4, PagerUpdates, Zenon
  <2>7. client' \in Pagers
      BY <2>5, <2>6, Zenon
  <2> QED
      BY <2>7 DEF ClientShape, Pagers
<1>3. CASE ReceivePage
  <2>1. client \in Pagers
      BY <1>0, <1>3 DEF ReceivePage, ClientShape, Pagers, Readers
  <2>2. PICK page, next, place, seen :
            /\ page = client.page /\ next = client.offset + Cardinality(client.page)
            /\ place = IF next >= client.total THEN "paged" ELSE "logs"
            /\ seen = client.seen \cup client.page
      OBVIOUS
  <2>3. page \in SUBSET Requests /\ client.offset \in Nat /\ seen \in SUBSET Requests
      BY <2>1, <2>2 DEF Pagers
  <2>4. Cardinality(page) \in Nat
      BY <2>3, UsageLogAssumption, FS_Subset, FS_CardinalityType
  <2>5. next \in Nat /\ place \in {"logs", "paged"}
      BY <2>2, <2>3, <2>4
  <2>6. client' = [client EXCEPT !.at = place, !.offset = next, !.step = 1, !.page = {},
                                 !.seen = seen]
      BY <1>3, <2>2, Zenon DEF ReceivePage
  <2>7. 1 \in 1..3 /\ {} \in SUBSET Requests
      OBVIOUS
  <2>8. client' \in Pagers
      BY <2>1, <2>3, <2>5, <2>6, <2>7, PagerMoves, Zenon
  <2> QED
      BY <2>8 DEF ClientShape, Pagers
<1>4. ASSUME NEW k \in Keys, AskSpend(k) PROVE ClientShape'
    BY <1>4 DEF AskSpend, ClientShape, Readers
<1>5. CASE ReadSpend
  <2>1. PICK k, place : k = client.key /\ place = IF GlobalLimited THEN "spend" ELSE "informed"
      OBVIOUS
  <2>2. PICK key, all : key = get_key_spend_usd(k) /\ all = get_global_spend_usd
      OBVIOUS
  <2>3. key \in Int /\ all \in Int /\ place \in {"spend", "informed"}
      BY <1>0, <2>1, <2>2, KeyBelowGlobal
  <2>4. /\ client \in Readers
        /\ \/ client' = [client EXCEPT !.at = place, !.step = 2, !.spend_usd = key]
           \/ client' = [client EXCEPT !.at = "informed", !.step = 3, !.global_spend_usd = all]
      BY <1>5, <2>1, <2>2, SumRead
  <2>5. 2 \in 1..3 /\ 3 \in 1..3 /\ "informed" \in {"spend", "informed"}
      OBVIOUS
  <2>6. /\ [client EXCEPT !.at = place, !.step = 2, !.spend_usd = key] \in Readers
        /\ [client EXCEPT !.at = "informed", !.step = 3, !.global_spend_usd = all] \in Readers
      BY <2>3, <2>4, <2>5, ReaderUpdates
  <2>7. client' \in Readers
      BY <2>4, <2>6, Zenon
  <2> QED
      BY <2>7 DEF ClientShape, Readers
<1>6. CASE Restart
  <2>1. \/ client' = client
        \/ client' = [client EXCEPT !.step = 1] /\ client.at \in {"logs", "spend"}
      BY <1>6 DEF Restart
  <2>2. CASE client' = client
      BY <1>0, <2>2 DEF ClientShape, Pagers, Readers
  <2>3. CASE client' = [client EXCEPT !.step = 1] /\ client.at \in {"logs", "spend"}
    <3>1. client \in Pagers \/ client \in Readers
        BY <1>0, <2>3 DEF ClientShape
    <3>2. client' \in Pagers \/ client' \in Readers
      <4>1. 1 \in 1..3
          OBVIOUS
      <4> QED
          BY <2>3, <3>1, <4>1, PagerUpdates, ReaderUpdates, Zenon
    <3> QED
        BY <3>2 DEF ClientShape, Pagers, Readers
  <2> QED
      BY <2>1, <2>2, <2>3
<1>7. CASE UNCHANGED client
    BY <1>0, <1>7 DEF ClientShape, Pagers, Readers
<1>8. UNCHANGED vars => UNCHANGED client
    BY DEF vars
<1> QED
    BY <1>1, <1>2, <1>3, <1>4, <1>5, <1>6, <1>7, <1>8 DEF Next, Complete, Fail, Insert, Commit,
       PersistFails, Quiet

\* What is ahead of the pager stays ahead while the table grows, until it
\* is read; a request that is repeated starts with its first query.
LEMMA AheadStays ==
    ASSUME TypeOK, RowsStay, client \in Pagers, NEW f, Ahead(f),
           client' = client \/ client' = [client EXCEPT !.step = 1]
    PROVE  Ahead(f)'
<1>1. /\ client'.due = client.due /\ client'.seen = client.seen /\ client'.page = client.page
      /\ client'.offset = client.offset /\ client'.total = client.total
      /\ client'.step \in {1, client.step}
    BY DEF Pagers
<1>2. client.offset \in Nat /\ Cardinality(client.page) \in Nat
  <2>1. client.offset \in Nat /\ client.page \in SUBSET Requests
      BY DEF Pagers
  <2> QED
      BY <2>1, UsageLogAssumption, FS_Subset, FS_CardinalityType
<1>3. /\ Matching(f) \subseteq Matching(f)'
      /\ \A r \in Matching(f) : /\ Before(r, f) \in Nat /\ Before(r, f)' \in Nat
                                /\ Before(r, f) <= Before(r, f)'
    BY PositionsGrow, MatchingFinite
<1>4. (client.due \subseteq Matching(f))'
    BY <1>1, <1>3 DEF Ahead
<1>5. (\A r \in client.due \ client.seen : Before(r, f) >= client.offset)'
    BY <1>1, <1>2, <1>3 DEF Ahead
<1>6. (client.step > 1 => \A r \in client.due \ (client.seen \cup client.page) :
            Before(r, f) >= client.offset + Cardinality(client.page))'
    BY <1>1, <1>2, <1>3 DEF Ahead
<1>7. (client.step > 2 /\ client.due \ (client.seen \cup client.page) # {}
        => client.offset + Cardinality(client.page) < client.total)'
    BY <1>1 DEF Ahead
<1> QED
    BY <1>4, <1>5, <1>6, <1>7 DEF Ahead

\* The pager misses nothing: what list_usage_logs does not return is behind
\* the page, count_usage_logs then counts it, and the client goes on.
LEMMA PagerStep == IInv /\ [Next]_vars => PagerShape' /\ PagesCoverLog'
<1> SUFFICES ASSUME IInv, [Next]_vars PROVE PagerShape' /\ PagesCoverLog'
    OBVIOUS
<1>0. /\ TypeOK /\ TableShape /\ RowsStay /\ ClientShape
      /\ client.at = "logs" => client \in Pagers
    BY VisibleStays DEF IInv, ClientShape, Readers
<1>1. ASSUME client'.at \notin {"logs", "paged"} PROVE PagerShape' /\ PagesCoverLog'
    BY <1>1 DEF PagerShape, PagesCoverLog
<1>2. ASSUME NEW g \in Filters, StartPaging(g) PROVE PagerShape' /\ PagesCoverLog'
  <2>1. /\ client'.at = "logs" /\ client'.filter = g /\ client'.offset = 0 /\ client'.step = 1
        /\ client'.due = Matching(g)
      BY <1>2 DEF StartPaging
  <2>2. /\ Matching(g) \subseteq Matching(g)'
        /\ \A r \in Matching(g) : Before(r, g)' \in Nat
      BY <1>0, PositionsGrow
  <2>3. Ahead(g)'
      BY <2>1, <2>2 DEF Ahead
  <2> QED
      BY <2>1, <2>3 DEF PagerShape, PagesCoverLog
<1>3. ASSUME NEW g \in Filters, client.at = "logs", client.filter = g,
             QueryLogs \/ ReceivePage
      PROVE  PagerShape' /\ PagesCoverLog'
  <2>1. client \in Pagers /\ Ahead(g)
      BY <1>0, <1>3 DEF IInv, PagerShape
  <2>2. PICK offset \in Nat, step \in 1..3, page \in SUBSET Requests, total \in Nat,
             seen \in SUBSET Requests, due \in SUBSET Requests :
            /\ client.offset = offset /\ client.step = step /\ client.page = page
            /\ client.total = total /\ client.seen = seen /\ client.due = due
      BY <2>1 DEF Pagers
  <2>3. /\ due \subseteq Matching(g)
        /\ \A r \in due \ seen : Before(r, g) >= offset
        /\ step > 1 => \A r \in due \ (seen \cup page) : Before(r, g) >= offset + Cardinality(page)
        /\ step > 2 /\ due \ (seen \cup page) # {} => offset + Cardinality(page) < total
      BY <2>1, <2>2 DEF Ahead
  <2>4. /\ Matching(g) \subseteq Matching(g)'
        /\ \A r \in Matching(g) : /\ Before(r, g) \in Nat /\ Before(r, g)' \in Nat
                                  /\ Before(r, g) <= Before(r, g)'
      BY <1>0, PositionsGrow, MatchingFinite
  <2>5. Cardinality(page) \in Nat
      BY UsageLogAssumption, FS_Subset, FS_CardinalityType
  <2>6. CASE QueryLogs /\ step = 1
    <3>1. PICK new : new = list_usage_logs(g, offset)
        OBVIOUS
    <3>2. client' = [client EXCEPT !.step = 2, !.page = new]
        BY <1>3, <2>2, <2>6, <3>1 DEF QueryLogs, list_logs
    <3>3. /\ client'.at = "logs" /\ client'.filter = g /\ client'.offset = offset
          /\ client'.step = 2 /\ client'.page = new /\ client'.seen = seen /\ client'.due = due
        BY <1>3, <2>1, <2>2, <3>2 DEF Pagers
    <3>4. Cardinality(new) \in Nat /\ Cardinality(new) <= Limit /\ Limit \in Nat
        BY <1>0, <3>1, PageBounded, UsageLogAssumption
    <3>5. \A r \in due \ (seen \cup new) : Before(r, g) >= offset + Limit
        BY <2>3, <2>4, <3>1, <3>4 DEF list_usage_logs
    <3>6. \A r \in due \ (seen \cup new) : Before(r, g)' >= offset + Cardinality(new)
        BY <2>3, <2>4, <3>4, <3>5
    <3>7. \A r \in due \ seen : Before(r, g)' >= offset
        BY <2>3, <2>4
    <3>8. Ahead(g)'
        BY <2>3, <2>4, <3>3, <3>6, <3>7 DEF Ahead
    <3> QED
        BY <3>3, <3>8 DEF PagerShape, PagesCoverLog
  <2>7. CASE QueryLogs /\ step = 2
    <3>1. PICK new : new = count_usage_logs(g)
        OBVIOUS
    <3>2. client' = [client EXCEPT !.step = 3, !.total = new]
        BY <1>3, <2>2, <2>7, <3>1 DEF QueryLogs, list_logs
    <3>3. /\ client'.at = "logs" /\ client'.filter = g /\ client'.offset = offset
          /\ client'.step = 3 /\ client'.page = page /\ client'.total = new
          /\ client'.seen = seen /\ client'.due = due
        BY <1>3, <2>1, <2>2, <3>2 DEF Pagers
    <3>4. new \in Nat /\ \A r \in Matching(g) : Before(r, g) < new
        BY <1>0, <3>1, PositionBelowCount, MatchingFinite DEF count_usage_logs
    <3>5. \A r \in due \ (seen \cup page) :
              /\ Before(r, g)' >= offset + Cardinality(page)
              /\ offset + Cardinality(page) < new
        BY <2>3, <2>4, <2>5, <2>7, <3>4
    <3>6. \A r \in due \ seen : Before(r, g)' >= offset
        BY <2>3, <2>4
    <3>7. Ahead(g)'
        BY <2>3, <2>4, <3>3, <3>5, <3>6 DEF Ahead
    <3> QED
        BY <3>3, <3>7 DEF PagerShape, PagesCoverLog
  <2>8. CASE ReceivePage
    <3>1. PICK next, place :
              /\ next = offset + Cardinality(page)
              /\ place = IF next >= total THEN "paged" ELSE "logs"
        OBVIOUS
    <3>2. step = 3
        BY <2>2, <2>8 DEF ReceivePage, list_logs
    <3>3. client' = [client EXCEPT !.at = place, !.offset = next, !.step = 1, !.page = {},
                                   !.seen = seen \cup page]
        BY <2>2, <2>8, <3>1 DEF ReceivePage
    <3>4. /\ client'.at = place /\ client'.filter = g /\ client'.offset = next
          /\ client'.step = 1 /\ client'.seen = seen \cup page /\ client'.due = due
        BY <1>3, <2>1, <2>2, <3>3 DEF Pagers
    <3>5. \A r \in due \ (seen \cup page) : Before(r, g)' >= next
        BY <2>3, <2>4, <2>5, <3>1, <3>2
    <3>6. Ahead(g)'
        BY <2>3, <2>4, <3>4, <3>5 DEF Ahead
    <3>7. place = "paged" => due \subseteq seen \cup page
        BY <2>3, <2>5, <3>1, <3>2
    <3> QED
        BY <3>4, <3>6, <3>7 DEF PagerShape, PagesCoverLog
  <2>9. QueryLogs => step \in 1..2
      BY <2>2 DEF QueryLogs, list_logs
  <2> QED
      BY <1>3, <2>6, <2>7, <2>8, <2>9
<1>4. CASE client' = client \/ (client' = [client EXCEPT !.step = 1] /\ client.at = "logs")
  <2>1. CASE client.at = "logs"
    <3>1. client \in Pagers
        BY <1>0, <2>1
    <3>2. client'.at = "logs" /\ client'.filter = client.filter
        BY <1>4, <2>1, <3>1 DEF Pagers
    <3>3. ASSUME NEW f \in Filters, client.filter = f PROVE Ahead(f)'
      <4>1. Ahead(f)
          BY <2>1, <3>3 DEF IInv, PagerShape
      <4> QED
          BY <1>0, <1>4, <3>1, <4>1, AheadStays
    <3> QED
        BY <3>2, <3>3 DEF PagerShape, PagesCoverLog
  <2>2. CASE client.at # "logs"
      BY <1>4, <2>2 DEF IInv, PagerShape, PagesCoverLog
  <2> QED
      BY <2>1, <2>2
<1>5. ASSUME NEW k \in Keys, AskSpend(k) PROVE PagerShape' /\ PagesCoverLog'
  <2>1. client'.at \notin {"logs", "paged"}
      BY <1>5 DEF AskSpend
  <2> QED
      BY <1>1, <2>1
<1>6. CASE ReadSpend
  <2>1. client'.at \in {"spend", "informed"}
      BY <1>6, SumRead DEF Readers
  <2> QED
      BY <1>1, <2>1
<1>7. CASE Restart
  <2>1. CASE client.at = "spend"
    <3>1. client \in Readers /\ client' = [client EXCEPT !.step = 1]
        BY <1>0, <1>7, <2>1 DEF Restart, ClientShape, Pagers
    <3>2. client'.at = "spend"
        BY <2>1, <3>1 DEF Readers
    <3> QED
        BY <1>1, <3>2
  <2>2. CASE client.at # "spend"
      BY <1>4, <1>7, <2>2 DEF Restart
  <2> QED
      BY <2>1, <2>2
<1>8. QueryLogs \/ ReceivePage => client.at = "logs" /\ client.filter \in Filters
    BY <1>0 DEF QueryLogs, ReceivePage, Pagers
<1>9. UNCHANGED vars => client' = client
    BY DEF vars
<1> QED
    BY <1>2, <1>3, <1>4, <1>5, <1>6, <1>7, <1>8, <1>9 DEF Next, Complete, Fail, Insert, Commit,
       PersistFails, Quiet

\* The key's sum is read before the global one, which then only grows.
LEMMA ReportStep == IInv /\ [Next]_vars => ReportShape' /\ ReportConsistent'
<1> SUFFICES ASSUME IInv, [Next]_vars PROVE ReportShape' /\ ReportConsistent'
    OBVIOUS
<1>0. /\ TypeOK /\ TableShape /\ TableShape' /\ RowsStay /\ ClientShape
      /\ client.at = "spend" => client \in Readers
    BY VisibleStays, TableStep DEF IInv, ClientShape, Pagers
<1>1. /\ get_global_spend_usd \in Int /\ get_global_spend_usd' \in Int
      /\ AllClamped' => AllClamped /\ get_global_spend_usd <= get_global_spend_usd'
  <2>1. AllClamped' => AllClamped /\ Spend(Requests) <= Spend(Requests)'
    <3>1. AllClamped' => \A r \in Requests : phase'[r] = "visible" => row'[r].clamped
        BY DEF AllClamped
    <3>2. AllClamped' => AllClamped
        BY <1>0, <3>1 DEF AllClamped, RowsStay
    <3> QED
        BY <1>0, <3>1, <3>2, SpendGrows
  <2>2. get_global_spend_usd \in Int
      BY <1>0, KeyBelowGlobal
  <2>3. get_global_spend_usd' \in Int
      BY <1>0, SumAfter DEF get_global_spend_usd
  <2> QED
      BY <2>1, <2>2, <2>3 DEF get_global_spend_usd
<1>2. Len(get_spend) \in {1, 2} /\ (Len(get_spend) = 2 <=> GlobalLimited)
    BY UsageLogAssumption DEF get_spend
<1>3. ASSUME client'.at \notin {"spend", "informed"} PROVE ReportShape' /\ ReportConsistent'
    BY <1>3 DEF ReportShape, ReportConsistent
<1>4. ASSUME NEW k \in Keys, AskSpend(k) PROVE ReportShape' /\ ReportConsistent'
  <2>1. client'.at = "spend" /\ client'.step = 1
      BY <1>4 DEF AskSpend
  <2> QED
      BY <1>2, <2>1 DEF ReportShape, ReportConsistent, get_spend
<1>5. CASE ReadSpend
  <2>1. PICK k, place : k = client.key /\ place = IF GlobalLimited THEN "spend" ELSE "informed"
      OBVIOUS
  <2>2. PICK key, all : key = get_key_spend_usd(k) /\ all = get_global_spend_usd
      OBVIOUS
  <2>3. /\ key \in Int /\ all \in Int
        /\ AllClamped' => AllClamped /\ key <= all /\ all <= get_global_spend_usd'
      BY <1>0, <1>1, <2>2, KeyBelowGlobal
  <2>4. /\ client \in Readers
        /\ \/ /\ client.step = 1
              /\ client' = [client EXCEPT !.at = place, !.step = 2, !.spend_usd = key]
           \/ /\ client.step = 2 /\ GlobalLimited
              /\ client' = [client EXCEPT !.at = "informed", !.step = 3,
                                          !.global_spend_usd = all]
      BY <1>5, <2>1, <2>2, SumRead
  <2>5. CASE client' = [client EXCEPT !.at = place, !.step = 2, !.spend_usd = key]
    <3>1. client'.at = place /\ client'.step = 2 /\ client'.spend_usd = key
        BY <2>4, <2>5 DEF Readers
    <3>2. place = "spend" => GlobalLimited
        BY <2>1
    <3>3. place = "informed" => ~GlobalLimited
        BY <2>1
    <3>4. AllClamped' => key <= get_global_spend_usd'
        BY <1>1, <2>3
    <3>5. ReportShape'
        BY <1>2, <3>1, <3>2, <3>4 DEF ReportShape, get_spend
    <3>6. ReportConsistent'
        BY <3>1, <3>3 DEF ReportConsistent
    <3> QED
        BY <3>5, <3>6
  <2>6. CASE /\ client.step = 2
             /\ client' = [client EXCEPT !.at = "informed", !.step = 3, !.global_spend_usd = all]
    <3>1. /\ client'.at = "informed" /\ client'.spend_usd = client.spend_usd
          /\ client'.global_spend_usd = all
        BY <2>4, <2>6 DEF Readers
    <3>2. AllClamped' => client.spend_usd <= all
        BY <1>1, <1>5, <2>2, <2>6 DEF IInv, ReportShape, ReadSpend
    <3> QED
        BY <3>1, <3>2 DEF ReportShape, ReportConsistent
  <2> QED
      BY <2>4, <2>5, <2>6
<1>6. CASE client' = client
  <2>1. client.at = "spend" => client.spend_usd \in Int
      BY <1>0 DEF Readers
  <2> QED
      BY <1>1, <1>6, <2>1 DEF IInv, ReportShape, ReportConsistent, get_spend
<1>7. CASE Restart
  <2>1. CASE client.at = "spend"
    <3>1. client \in Readers /\ client' = [client EXCEPT !.step = 1]
        BY <1>0, <1>7, <2>1 DEF Restart
    <3>2. client'.at = "spend" /\ client'.step = 1
        BY <2>1, <3>1 DEF Readers
    <3> QED
        BY <1>2, <3>2 DEF ReportShape, ReportConsistent, get_spend
  <2>2. CASE client.at = "logs"
    <3>1. client \in Pagers /\ client' = [client EXCEPT !.step = 1]
        BY <1>0, <1>7, <2>2 DEF Restart, ClientShape, Readers
    <3>2. client'.at = "logs"
        BY <2>2, <3>1 DEF Pagers
    <3> QED
        BY <1>3, <3>2
  <2>3. CASE client.at \notin {"logs", "spend"}
      BY <1>6, <1>7, <2>3 DEF Restart
  <2> QED
      BY <2>1, <2>2, <2>3
<1>8. ASSUME QueryLogs \/ ReceivePage \/ \E f \in Filters : StartPaging(f)
      PROVE  ReportShape' /\ ReportConsistent'
  <2>1. client'.at \in {"logs", "paged"}
    <3>1. CASE QueryLogs \/ ReceivePage
      <4>1. client.at = "logs" /\ client \in Pagers
          BY <1>0, <3>1 DEF QueryLogs, ReceivePage, ClientShape, Readers
      <4>2. CASE QueryLogs
          BY <4>1, <4>2 DEF QueryLogs, Pagers
      <4>3. CASE ReceivePage
        <5>1. PICK place \in {"logs", "paged"} : \E next, seen :
                client' = [client EXCEPT !.at = place, !.offset = next, !.step = 1, !.page = {},
                                         !.seen = seen]
            BY <4>3 DEF ReceivePage
        <5> QED
            BY <4>1, <5>1 DEF Pagers
      <4> QED
          BY <3>1, <4>2, <4>3
    <3>2. CASE \E f \in Filters : StartPaging(f)
        BY <3>2 DEF StartPaging
    <3> QED
        BY <1>8, <3>1, <3>2
  <2> QED
      BY <1>3, <2>1
<1>9. UNCHANGED vars => client' = client
    BY DEF vars
<1> QED
    BY <1>4, <1>5, <1>6, <1>7, <1>8, <1>9 DEF Next, Complete, Fail, Insert, Commit,
       PersistFails, Quiet

\* The type invariant is a consequence of the other parts.
LEMMA TypeStep == IInv /\ [Next]_vars => TypeOK'
<1> SUFFICES ASSUME IInv, [Next]_vars PROVE TypeOK'
    OBVIOUS
<1>1. IdsInRange' /\ TableShape'
    BY TableStep
<1>2. served' \subseteq (Models \ {""}) \cup {Unknown} /\ Cardinality(served') <= MaxTracked
    BY LabelStep, Zenon DEF Labels
<1>3. client'.at \in {"idle", "logs", "spend", "paged", "informed"}
    BY ClientStep DEF ClientShape, Pagers, Readers
<1>4. \A r \in Requests :
        /\ row'[r].key \in Keys \cup {None}
        /\ row'[r].status \in {"none", "ok", "error"}
        /\ row'[r].model \in Models \cup {Unknown}
        /\ row'[r].cost \in Int
        /\ row'[r].clamped \in BOOLEAN
  <2>1. \A r \in Requests : row'[r] \in Rows
      BY <1>1 DEF TableShape
  <2> QED
      BY <2>1 DEF Rows
<1>5. /\ phase' \in [Requests -> {"idle", "scheduled", "inserted", "visible", "lost"}]
      /\ id' \in [Requests -> 0..lastId']
    BY <1>1 DEF IdsInRange
<1> QED
    BY <1>2, <1>3, <1>4, <1>5, Zenon DEF TypeOK

\* The invariant is inductive.
LEMMA NextIInv == IInv /\ [Next]_vars => IInv'
    BY TypeStep, TableStep, LabelStep, ClientStep, PagerStep, ReportStep DEF IInv

-----------------------------------------------------------------------------
(* The results.                                                            *)

\* The invariant holds of every run of the gateway, its database and their
\* clients.
THEOREM Invariance == Spec => []IInv
    BY InitIInv, NextIInv, PTL DEF Spec

\* Usage rows, ids, tracked models and clients always have their types, and
\* _remember_model never exceeds _MAX_TRACKED_MODELS.
THEOREM TypeCorrect == Spec => []TypeOK
<1>1. IInv => TypeOK
    BY DEF IInv
<1> QED
    BY <1>1, Invariance, PTL

\* GET /api/logs, paged to the end, has shown every row that was visible
\* when the client began, whatever is committed and lost meanwhile.
THEOREM PagesComplete == Spec => []PagesCoverLog
<1>1. IInv => PagesCoverLog
    BY DEF IInv
<1> QED
    BY <1>1, Invariance, PTL

\* One answer of GET /api/usage/spend never shows a key above the global
\* sum, although the two are read at different times, as long as every
\* count that was summed had come to the clamp as an int.
THEOREM ReportsConsistent == Spec => []ReportConsistent
<1>1. IInv => ReportConsistent
    BY DEF IInv
<1> QED
    BY <1>1, Invariance, PTL

\* The label of a failed request is a model that was served before, so that
\* there are at most _MAX_TRACKED_MODELS + 1 series of failures.
THEOREM ErrorLabels == Spec => []ErrorLabelsBounded
<1>1. IInv => ErrorLabelsBounded
  <2> SUFFICES ASSUME IInv PROVE ErrorLabelsBounded
      OBVIOUS
  <2> DEFINE labels == {s[1] : s \in {t \in series : t[2] = "error"}}
  <2>1. LabelShape /\ Cardinality(served) <= MaxTracked
      BY DEF IInv, TypeOK
  <2>2. ASSUME NEW m \in labels PROVE m \in served \cup {Unknown}
    <3>1. PICK t \in series : t[2] = "error" /\ m = t[1]
        OBVIOUS
    <3>2. t = <<m, "error">>
        BY <2>1, <3>1 DEF LabelShape
    <3> QED
        BY <2>1, <3>1, <3>2 DEF LabelShape
  <2>3. \A m \in labels \ {Unknown} : <<m, "ok">> \in series
    <3> HIDE DEF labels
    <3> QED
        BY <2>1, <2>2 DEF LabelShape
  <2>4. Cardinality(labels) <= MaxTracked + 1
    <3> HIDE DEF labels
    <3>1. IsFiniteSet(served \cup {Unknown})
        BY <2>1, FS_AddElement DEF LabelShape
    <3>2. Cardinality(served \cup {Unknown}) <= Cardinality(served) + 1
      <4>1. IsFiniteSet(served) /\ Cardinality(served) \in Nat
          BY <2>1, FS_CardinalityType DEF LabelShape
      <4>2. Cardinality(served \cup {Unknown}) \in {Cardinality(served), Cardinality(served) + 1}
          BY <4>1, FS_AddElement
      <4> QED
          BY <4>1, <4>2
    <3>3. labels \subseteq served \cup {Unknown}
        BY <2>2
    <3>4. /\ IsFiniteSet(labels)
          /\ Cardinality(labels) <= Cardinality(served \cup {Unknown})
        BY <3>1, <3>3, FS_Subset
    <3>5. /\ Cardinality(labels) \in Nat /\ Cardinality(served) \in Nat
          /\ Cardinality(served \cup {Unknown}) \in Nat /\ MaxTracked \in Nat
        BY <2>1, <3>1, <3>4, FS_CardinalityType, UsageLogAssumption DEF LabelShape
    <3> QED
        BY <2>1, <3>2, <3>4, <3>5
  <2> QED
      BY <2>3, <2>4 DEF ErrorLabelsBounded
<1> QED
    BY <1>1, Invariance, PTL

\* Only a commit makes a row visible, and it leaves the row as it is.
LEMMA OnlyCommitsShow ==
    ASSUME TypeOK, TableShape, [Next]_vars, NEW r \in Requests, phase'[r] = "visible",
           phase[r] # "visible"
    PROVE  phase[r] = "inserted" /\ row'[r] = row[r]
<1> USE DEF TypeOK, table
<1>1. ASSUME NEW s \in Requests, Complete(s) \/ Fail(s) \/ Insert(s)
      PROVE  FALSE
    BY <1>1 DEF Complete, Fail, Insert
<1>2. ASSUME NEW s \in Requests, Commit(s)
      PROVE  phase[r] = "inserted" /\ row'[r] = row[r]
    BY <1>2 DEF Commit
<1>3. ASSUME NEW requests, Lose(requests) PROVE FALSE
    BY <1>3 DEF Lose
<1>4. CASE UNCHANGED table
    BY <1>4
<1>5. UNCHANGED vars => UNCHANGED table
    BY DEF vars
<1> QED
    BY <1>1, <1>2, <1>3, <1>4, <1>5 DEF Next, PersistFails, Restart, StartPaging, QueryLogs,
       ReceivePage, AskSpend, ReadSpend, Quiet

\* A charged row is never lost or changed, and no clamped row has a negative
\* cost: a key's spend shrinks only by the commit of a row of its own whose
\* count escaped the clamp.
THEOREM SpendMonotone == Spec => SpendShrinksOnlyUnclamped
<1>1. IInv /\ IInv' /\ [Next]_vars
        => [\A k \in Keys :
                get_key_spend_usd(k)' < get_key_spend_usd(k) =>
                    \E r \in Requests :
                        /\ phase[r] = "inserted" /\ phase'[r] = "visible"
                        /\ row[r].key = k /\ ~row[r].clamped]_vars
  <2> SUFFICES ASSUME IInv, IInv', [Next]_vars, NEW k \in Keys,
                      ~\E r \in Requests :
                            /\ phase[r] = "inserted" /\ phase'[r] = "visible"
                            /\ row[r].key = k /\ ~row[r].clamped
               PROVE  ~(get_key_spend_usd(k)' < get_key_spend_usd(k))
      BY Zenon
  <2>1. TypeOK /\ TableShape /\ TableShape' /\ RowsStay
      BY VisibleStays DEF IInv
  <2>2. PICK S, T : /\ S = {r \in Requests : row[r].key = k}
                    /\ T = {r \in Requests : row'[r].key = k}
      OBVIOUS
  <2>3. S \in SUBSET Requests /\ T \in SUBSET Requests
      BY <2>2
  <2>4. \A r \in S : phase[r] = "visible" => r \in T
      BY <2>1, <2>2 DEF RowsStay
  <2>5. ASSUME NEW r \in T, phase'[r] = "visible", ~(r \in S /\ phase[r] = "visible")
        PROVE  row'[r].clamped
    <3>1. r \in Requests /\ row'[r].key = k
        BY <2>2
    <3>2. phase[r] # "visible"
        BY <2>1, <2>2, <2>5, <3>1 DEF RowsStay
    <3>3. phase[r] = "inserted" /\ row'[r] = row[r]
        BY <2>1, <2>5, <3>1, <3>2, OnlyCommitsShow
    <3> QED
        BY <2>5, <3>1, <3>3
  <2>6. Spend(S) <= Spend(T)'
      BY <2>1, <2>3, <2>4, <2>5, SpendGrows
  <2>7. Spend(S) = get_key_spend_usd(k) /\ Spend(S) \in Int
      BY <2>1, <2>2, <2>3, PartsOfTable DEF get_key_spend_usd
  <2>8. Spend(T)' = get_key_spend_usd(k)'
      BY <2>2 DEF get_key_spend_usd, Spend
  <2>9. Spend(T)' \in Int
      BY <2>1, <2>3, SumAfter
  <2> QED
      BY <2>6, <2>7, <2>8, <2>9
<1> QED
    BY <1>1, Invariance, PTL DEF Spec, SpendShrinksOnlyUnclamped
=============================================================================
