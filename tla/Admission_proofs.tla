-------------------------- MODULE Admission_proofs --------------------------
(***************************************************************************)
(* Proofs about Admission, for any keys, limits, requests and calls, and   *)
(* whatever rows, clients and processes are lost.                          *)
(***************************************************************************)
EXTENDS Admission, Sums_proofs

\* What a request's place in the handler says of its row, tokens and cost.
RequestShape ==
    \A r \in Requests :
        /\ pc[r] \in Running \cup {"idle"} => row[r] = "none"
        /\ row[r] = "ok" => cost[r] <= MaxCost

\* A request that came too late stops at the check that it came too late for.
OverShape ==
    \A r \in over :
        \/ pc[r] \in {"401", "429", "quota", "gone"}
        \/ pc[r] \in {"auth", "rate", "spend"} /\ Reached(spent[key[r]], Limit[key[r]])
        \/ pc[r] \in {"auth", "rate", "spend", "global"} /\ Reached(total, GlobalLimit)

\* A dead key stays dead, and authentication is the first check.
DeadShape ==
    \A r \in dead : Dead(key[r]) /\ pc[r] \in {"auth", "401", "gone"}

BarredShape ==
    \A a \in barred :
        caller[a] \in Keys /\ Dead(caller[a]) /\ apc[a] \in {"auth", "401", "gone"}

\* An entry of audit_logs, or the intention to write one, follows its commit.
AuditShape ==
    /\ \A k \in Keys : active[k] => expires[k] # NoKey
    /\ \A k \in Keys : <<"key_revoked", k>> \in audit => expires[k] # NoKey
    /\ \A a \in Calls : apc[a] = "audit_created" => expires[target[a]] # NoKey
    /\ \A a \in Calls : apc[a] = "audit_revoked" => expires[target[a]] # NoKey /\ ~active[target[a]]

\* The inductive invariant.
IInv ==
    /\ TypeOK
    /\ RequestShape
    /\ OverShape
    /\ DeadShape
    /\ BarredShape
    /\ AuditShape
    /\ AuditMatchesKeys
    /\ KeyOvershootBounded
    /\ GlobalOvershootBounded

-----------------------------------------------------------------------------
(* The arithmetic of a bound: s spent, n outstanding, limit l, peak p.     *)

Bound(s, n, l, p) == s + MaxCost * n <= l - 1 + MaxCost * p

\* A cost is a number.
LEMMA MaxCostType == MaxCost \in Nat
BY AdmissionAssumption DEF MaxCost

\* Outstanding requests that vanish only help.
LEMMA BoundShrinks ==
    ASSUME NEW s \in Nat, NEW n \in Nat, NEW l \in Nat, NEW p \in Nat,
           NEW n2 \in Nat, n2 <= n, Bound(s, n, l, p)
    PROVE  Bound(s, n2, l, p)
<1>1. MaxCost * n2 <= MaxCost * n
    BY MaxCostType
<1>2. MaxCost * n2 \in Nat /\ MaxCost * n \in Nat /\ MaxCost * p \in Nat
    BY MaxCostType
<1> QED
    BY <1>1, <1>2 DEF Bound

\* A written row moves at most MaxCost from the requests to the sum.
LEMMA BoundMoves ==
    ASSUME NEW s \in Nat, NEW n \in Nat, NEW l \in Nat, NEW p \in Nat, NEW c \in Nat,
           n >= 1, c <= MaxCost, Bound(s, n, l, p)
    PROVE  Bound(s + c, n - 1, l, p)
<1>1. MaxCost * n = MaxCost * (n - 1) + MaxCost
    BY MaxCostType
<1>2. MaxCost * (n - 1) \in Nat /\ MaxCost * n \in Nat /\ MaxCost * p \in Nat
    BY MaxCostType
<1> QED
    BY <1>1, <1>2, MaxCostType DEF Bound

\* A request passes when the sum is below the limit, and raises the peak.
LEMMA BoundGrows ==
    ASSUME NEW s \in Nat, NEW n \in Nat, NEW l \in Nat, NEW p \in Nat, s < l, n <= p
    PROVE  Bound(s, n, l, p)
<1>1. MaxCost * n <= MaxCost * p
    BY MaxCostType
<1>2. MaxCost * n \in Nat /\ MaxCost * p \in Nat
    BY MaxCostType
<1> QED
    BY <1>1, <1>2 DEF Bound

\* There are finitely many requests.
LEMMA FiniteRequests ==
    ASSUME NEW S, S \subseteq Requests
    PROVE  IsFiniteSet(S) /\ Cardinality(S) \in Nat
BY AdmissionAssumption, FS_Subset, FS_CardinalityType

-----------------------------------------------------------------------------
\* No key is dead, no request outstanding, when the gateway starts.
LEMMA InitIInv == Init => IInv
<1> SUFFICES ASSUME Init PROVE IInv
    OBVIOUS
<1>1. TypeOK
  <2>1. expires \in [Keys -> Int \cup {Never, NoKey}] /\ active \in [Keys -> BOOLEAN]
    BY AdmissionAssumption DEF Init
  <2>2. audit \subseteq {"key_created", "key_revoked"} \X Keys
    BY AdmissionAssumption DEF Init
  <2>3. tokens \in [Requests -> Nat \cup {Omitted}]
    BY AdmissionAssumption DEF Init
  <2> QED
    BY <2>1, <2>2, <2>3 DEF Init, TypeOK, Running, Working
<1>2. RequestShape /\ OverShape /\ DeadShape /\ BarredShape
    BY DEF Init, RequestShape, OverShape, DeadShape, BarredShape
<1>3. AuditShape /\ AuditMatchesKeys
  <2>1. \A k \in Keys : <<"key_revoked", k>> \notin audit
    BY DEF Init
  <2>2. \A k \in Keys : <<"key_created", k>> \in audit <=> k \in Existing
    BY DEF Init
  <2>3. \A k \in Keys : (expires[k] # NoKey <=> k \in Existing) /\ (active[k] <=> k \in Existing)
    <3>1. \A k \in Keys : expires[k] # NoKey <=> k \in Existing
        BY AdmissionAssumption, SMT DEF Init
    <3>2. \A k \in Keys : active[k] <=> k \in Existing
        BY Zenon DEF Init
    <3> QED
        BY <3>1, <3>2
  <2>4. AuditMatchesKeys
    BY <2>1, <2>2, <2>3 DEF AuditMatchesKeys
  <2> QED
    BY <2>1, <2>3, <2>4 DEF Init, AuditShape
<1>4. AllOutstanding = {} /\ \A k \in Keys : Outstanding(k) = {}
    BY DEF Init, AllOutstanding, Outstanding
<1>5. KeyOvershootBounded /\ GlobalOvershootBounded
    BY <1>4 DEF Init, KeyOvershootBounded, GlobalOvershootBounded
<1> QED
    BY <1>1, <1>2, <1>3, <1>5 DEF IInv

\* Every step keeps the types.
LEMMA TypeStep == IInv /\ [Next]_vars => TypeOK'
<1> SUFFICES ASSUME IInv, [Next]_vars PROVE TypeOK'
    OBVIOUS
<1> USE AdmissionAssumption DEF IInv, TypeOK, Running, Working, db, request, admin, history
<1>1. CASE UNCHANGED vars
    BY <1>1 DEF vars
<1>2. CASE Tick
    BY <1>2 DEF Tick
<1>3. ASSUME NEW r \in Requests,
             Arrive(r) \/ Authenticate(r) \/ EnforceRateLimit(r) \/ Abandon(r) \/ ServeRaises(r)
                  \/ ServeFails(r)
      PROVE  TypeOK'
    BY <1>3 DEF Arrive, Authenticate, EnforceRateLimit, Abandon, ServeRaises, ServeFails
<1>4. ASSUME NEW r \in Requests, EnforceKeyCap(r) PROVE TypeOK'
  <2>1. Cardinality(Outstanding(key[r])) \in Nat
    BY FiniteRequests DEF Outstanding
  <2> QED
    BY <1>4, <2>1 DEF EnforceKeyCap, Larger
<1>5. ASSUME NEW r \in Requests, EnforceGlobalCap(r) PROVE TypeOK'
  <2>1. Cardinality(AllOutstanding) \in Nat
    BY FiniteRequests DEF AllOutstanding
  <2> QED
    BY <1>5, <2>1 DEF EnforceGlobalCap, Larger
<1>6. ASSUME NEW r \in Requests, _enforce_max_tokens(r) PROVE TypeOK'
  <2>1. tokens[r] \in Nat \cup {Omitted}
    OBVIOUS
  <2>2. CASE tokens[r] \in Nat /\ tokens[r] > MaxTokens
    BY <1>6, <2>2 DEF _enforce_max_tokens
  <2>3. CASE ~(tokens[r] \in Nat /\ tokens[r] > MaxTokens)
    <3>1. Enforced(tokens[r]) \in Nat /\ Enforced(tokens[r]) <= MaxTokens
      BY <2>1, <2>3 DEF Enforced
    <3> QED
      BY <1>6, <2>3, <3>1 DEF _enforce_max_tokens
  <2> QED
    BY <2>2, <2>3
<1>7. ASSUME NEW r \in Requests, Serve(r) PROVE TypeOK'
    BY <1>7 DEF Serve, RequestShape
<1>8. ASSUME NEW r \in Requests, Persist(r) PROVE TypeOK'
    BY <1>8 DEF Persist, Written
<1>9. ASSUME NEW r \in Requests, CrashRequest(r) PROVE TypeOK'
    BY <1>9 DEF CrashRequest
<1>10. ASSUME NEW a \in Calls, AdminArrive(a) \/ AdminAuthenticate(a) \/ CrashCall(a)
       PROVE  TypeOK'
    BY <1>10 DEF AdminArrive, AdminAuthenticate, CrashCall
<1>12. ASSUME NEW a \in Calls, CreateKey(a) PROVE TypeOK'
  <2>1. PICK t \in Terms :
            \/ /\ apc' = [apc EXCEPT ![a] = "400"]
               /\ UNCHANGED <<expires, active>>
            \/ /\ expires' = [expires EXCEPT ![target[a]] =
                                    IF t = Never THEN Never ELSE clock + Term(a, t)]
               /\ active' = [active EXCEPT ![target[a]] = TRUE]
               /\ apc' = [apc EXCEPT ![a] = "audit_created"]
    BY <1>12 DEF CreateKey
  <2>2. t # Never => clock + Term(a, t) \in Int
    BY DEF Term
  <2>3. expires' \in [Keys -> Int \cup {Never, NoKey}]
    BY <2>1, <2>2
  <2>4. active' \in [Keys -> BOOLEAN]
    BY <2>1
  <2>5. apc' \in [Calls -> Working \cup {"idle", "done", "401", "404", "400", "gone"}]
    BY <2>1
  <2> QED
    BY <1>12, <2>3, <2>4, <2>5 DEF CreateKey
<1>13. ASSUME NEW a \in Calls, RevokeKey(a) PROVE TypeOK'
  <2>1. active' \in [Keys -> BOOLEAN]
    BY <1>13 DEF RevokeKey
  <2>2. apc' \in [Calls -> Working \cup {"idle", "done", "401", "404", "400", "gone"}]
    BY <1>13 DEF RevokeKey, AfterRevoke
  <2> QED
    BY <1>13, <2>1, <2>2 DEF RevokeKey
<1>11. ASSUME NEW a \in Calls, Audit(a) PROVE TypeOK'
    BY <1>11 DEF Audit
<1> QED
    BY <1>1, <1>2, <1>3, <1>4, <1>5, <1>6, <1>7, <1>8, <1>9, <1>10, <1>11, <1>12, <1>13
       DEF Next, Quiet

\* Every step keeps the shape of requests.
LEMMA RequestStep == IInv /\ [Next]_vars => RequestShape'
<1> SUFFICES ASSUME IInv, [Next]_vars PROVE RequestShape'
    OBVIOUS
<1> USE AdmissionAssumption DEF IInv, TypeOK, RequestShape, Running, db, request
<1>1. CASE UNCHANGED vars \/ Tick
    BY <1>1 DEF vars, Tick
<1>2. ASSUME NEW r \in Requests,
             Arrive(r) \/ Authenticate(r) \/ EnforceRateLimit(r) \/ Abandon(r) \/ ServeRaises(r)
                  \/ ServeFails(r)
      PROVE  RequestShape'
    BY <1>2 DEF Arrive, Authenticate, EnforceRateLimit, Abandon, ServeRaises, ServeFails
<1>3. ASSUME NEW r \in Requests, EnforceKeyCap(r) \/ EnforceGlobalCap(r) PROVE RequestShape'
    BY <1>3 DEF EnforceKeyCap, EnforceGlobalCap
<1>4. ASSUME NEW r \in Requests, _enforce_max_tokens(r) PROVE RequestShape'
    BY <1>4 DEF _enforce_max_tokens, Enforced
<1>5. ASSUME NEW r \in Requests, Serve(r) PROVE RequestShape'
    BY <1>5 DEF Serve, MaxCost
<1>6. ASSUME NEW r \in Requests, Persist(r) \/ CrashRequest(r) PROVE RequestShape'
    BY <1>6 DEF Persist, Written, CrashRequest
<1>7. ASSUME NEW a \in Calls,
             \/ AdminArrive(a) \/ AdminAuthenticate(a) \/ CreateKey(a)
             \/ RevokeKey(a) \/ Audit(a) \/ CrashCall(a)
      PROVE  RequestShape'
    BY <1>7 DEF AdminArrive, AdminAuthenticate, CreateKey, RevokeKey, Audit, CrashCall
<1> QED
    BY <1>1, <1>2, <1>3, <1>4, <1>5, <1>6, <1>7 DEF Next, Quiet

\* Sums only grow, so a limit that was reached stays reached.
LEMMA ReachedStep ==
    ASSUME IInv, [Next]_vars
    PROVE  /\ \A k \in Keys : Reached(spent[k], Limit[k]) => Reached(spent'[k], Limit[k])
           /\ Reached(total, GlobalLimit) => Reached(total', GlobalLimit)
<1>1. (\A k \in Keys : spent'[k] >= spent[k]) /\ total' >= total
  <2>1. ASSUME NEW r \in Requests, Persist(r)
        PROVE  (\A k \in Keys : spent'[k] >= spent[k]) /\ total' >= total
    BY <2>1 DEF Persist, IInv, TypeOK
  <2>2. CASE spent' = spent /\ total' = total
    BY <2>2 DEF IInv, TypeOK
  <2>3. (spent' = spent /\ total' = total) \/ \E r \in Requests : Persist(r)
    BY DEF Next, Quiet, vars, db, Tick, Arrive, Authenticate, EnforceRateLimit, EnforceKeyCap,
           EnforceGlobalCap, _enforce_max_tokens, Serve, ServeFails, Abandon, ServeRaises,
           CrashRequest,
           AdminArrive, AdminAuthenticate, CreateKey, RevokeKey, Audit, CrashCall
  <2> QED
    BY <2>1, <2>2, <2>3
<1>2. spent' \in [Keys -> Nat] /\ total' \in Nat
    BY TypeStep DEF TypeOK
<1> QED
    BY <1>1, <1>2, AdmissionAssumption DEF Reached, IInv, TypeOK

\* The keys of requests are fixed.
LEMMA KeyFixed == [Next]_vars => key' = key
BY DEF Next, Quiet, vars, request, Tick, Arrive, Authenticate, EnforceRateLimit, EnforceKeyCap,
       EnforceGlobalCap, _enforce_max_tokens, Serve, ServeFails, Abandon, ServeRaises,
       Persist, CrashRequest,
       AdminArrive, AdminAuthenticate, CreateKey, RevokeKey, Audit, CrashCall

\* A late request is stopped by the check whose limit was reached.
LEMMA OverStep == IInv /\ [Next]_vars => OverShape'
<1> SUFFICES ASSUME IInv, [Next]_vars PROVE OverShape'
    OBVIOUS
<1> DEFINE Stopped(q) ==
        \/ pc'[q] \in {"401", "429", "quota", "gone"}
        \/ pc'[q] \in {"auth", "rate", "spend"} /\ Reached(spent[key[q]], Limit[key[q]])
        \/ pc'[q] \in {"auth", "rate", "spend", "global"} /\ Reached(total, GlobalLimit)
<1>1. \A q \in over' : q \in Requests /\ key[q] \in Keys
    BY TypeStep, KeyFixed DEF TypeOK, IInv
<1>2. SUFFICES ASSUME NEW q \in over' PROVE Stopped(q)
    BY <1>1, ReachedStep, KeyFixed DEF OverShape
<1> USE <1>1 DEF IInv, TypeOK, OverShape, Running
<1>3. CASE over' = over /\ pc'[q] = pc[q]
    BY <1>3
<1>4. ASSUME NEW r \in Requests, Arrive(r) PROVE Stopped(q)
    BY <1>4 DEF Arrive, OverLimit
<1>5. ASSUME NEW r \in Requests, Authenticate(r) \/ EnforceRateLimit(r) PROVE Stopped(q)
    BY <1>5 DEF Authenticate, EnforceRateLimit, history
<1>6. ASSUME NEW r \in Requests, EnforceKeyCap(r) \/ EnforceGlobalCap(r) PROVE Stopped(q)
    BY <1>6 DEF EnforceKeyCap, EnforceGlobalCap, CapReached, Reached
<1>7. ASSUME NEW r \in Requests,
             _enforce_max_tokens(r) \/ Serve(r) \/ ServeFails(r) \/ Abandon(r)
             \/ ServeRaises(r) \/ CrashRequest(r)
      PROVE  Stopped(q)
    BY <1>7 DEF _enforce_max_tokens, Serve, ServeFails, Abandon, ServeRaises, CrashRequest,
       history
<1>8. CASE UNCHANGED vars \/ Tick \/ \E r \in Requests : Persist(r)
    BY <1>3, <1>8 DEF vars, request, history, Tick, Persist
<1>9. ASSUME NEW a \in Calls,
             \/ AdminArrive(a) \/ AdminAuthenticate(a) \/ CreateKey(a)
             \/ RevokeKey(a) \/ Audit(a) \/ CrashCall(a)
      PROVE  Stopped(q)
    BY <1>3, <1>9 DEF AdminArrive, AdminAuthenticate, CreateKey, RevokeKey, Audit,
                CrashCall, request, history
<1> QED
    BY <1>4, <1>5, <1>6, <1>7, <1>8, <1>9 DEF Next, Quiet

\* A dead key is never revived: ids are not reused and the clock only grows.
LEMMA DeadForever == ASSUME IInv, [Next]_vars, NEW k \in Keys, Dead(k) PROVE Dead(k)'
<1> USE DEF IInv, TypeOK
<1>1. ASSUME NEW a \in Calls, CreateKey(a) PROVE Dead(k)'
  <2>1. k # target[a]
    BY <1>1 DEF CreateKey, Dead
  <2>2. expires'[k] = expires[k] /\ active'[k] = active[k] /\ clock' = clock
    BY <1>1, <2>1 DEF CreateKey
  <2> QED
    BY <2>2 DEF Dead
<1>2. ASSUME NEW a \in Calls, RevokeKey(a) PROVE Dead(k)'
    BY <1>2 DEF RevokeKey, Dead
<1>3. CASE UNCHANGED <<expires, active>> /\ clock' >= clock
    BY <1>3, TypeStep, AdmissionAssumption DEF Dead
<1>4. \/ UNCHANGED <<expires, active>> /\ (clock' = clock \/ clock' = clock + 1)
      \/ \E a \in Calls : CreateKey(a) \/ RevokeKey(a)
    BY DEF Next, Quiet, vars, db, Tick, Arrive, Authenticate, EnforceRateLimit, EnforceKeyCap,
           EnforceGlobalCap, _enforce_max_tokens, Serve, ServeFails, Abandon, ServeRaises,
           Persist,
           CrashRequest, AdminArrive, AdminAuthenticate, Audit, CrashCall
<1> QED
    BY <1>1, <1>2, <1>3, <1>4

\* A request with a dead key goes no further than authentication.
LEMMA DeadStep == IInv /\ [Next]_vars => DeadShape'
<1> SUFFICES ASSUME IInv, [Next]_vars PROVE DeadShape'
    OBVIOUS
<1> USE DEF IInv, TypeOK, DeadShape
<1>1. \A k \in Keys : Dead(k) => Dead(k)'
    BY DeadForever
<1>2. \A q \in dead' : q \in Requests /\ key[q] \in Keys
    BY TypeStep, KeyFixed
<1>3. SUFFICES ASSUME NEW q \in dead' PROVE Dead(key[q]) /\ pc'[q] \in {"auth", "401", "gone"}
    BY <1>1, <1>2, KeyFixed
<1> USE <1>2
<1>4. ASSUME NEW r \in Requests, Arrive(r)
      PROVE  Dead(key[q]) /\ pc'[q] \in {"auth", "401", "gone"}
    BY <1>4 DEF Arrive
<1>5. ASSUME NEW r \in Requests, Authenticate(r)
      PROVE  Dead(key[q]) /\ pc'[q] \in {"auth", "401", "gone"}
    BY <1>5 DEF Authenticate, Authenticates, _is_expired, Dead, history
<1>6. CASE dead' = dead /\ (pc'[q] = pc[q] \/ pc'[q] = "gone")
    BY <1>6
<1>7. ASSUME NEW r \in Requests,
             \/ EnforceRateLimit(r) \/ EnforceKeyCap(r) \/ EnforceGlobalCap(r)
             \/ _enforce_max_tokens(r) \/ Serve(r) \/ ServeFails(r) \/ Abandon(r) \/ ServeRaises(r)
             \/ CrashRequest(r) \/ Persist(r)
      PROVE  dead' = dead /\ (pc'[q] = pc[q] \/ pc'[q] = "gone")
  <2>1. dead' = dead /\ pc[q] \in {"auth", "401", "gone"}
    BY <1>7 DEF EnforceRateLimit, EnforceKeyCap, EnforceGlobalCap, _enforce_max_tokens, Serve,
                ServeFails, Abandon, ServeRaises, CrashRequest, Persist, history
  <2> QED
    BY <1>7, <2>1 DEF EnforceRateLimit, EnforceKeyCap, EnforceGlobalCap, _enforce_max_tokens,
       Serve,
                ServeFails, Abandon, ServeRaises, CrashRequest, Persist
<1>8. CASE UNCHANGED vars \/ Tick
    BY <1>6, <1>8 DEF vars, request, history, Tick
<1>9. ASSUME NEW a \in Calls,
             \/ AdminArrive(a) \/ AdminAuthenticate(a) \/ CreateKey(a)
             \/ RevokeKey(a) \/ Audit(a) \/ CrashCall(a)
      PROVE  dead' = dead /\ (pc'[q] = pc[q] \/ pc'[q] = "gone")
    BY <1>9 DEF AdminArrive, AdminAuthenticate, CreateKey, RevokeKey, Audit,
                CrashCall, request, history
<1> QED
    BY <1>4, <1>5, <1>6, <1>7, <1>8, <1>9 DEF Next, Quiet

\* Nor does an administrative call.
LEMMA BarredStep == IInv /\ [Next]_vars => BarredShape'
<1> SUFFICES ASSUME IInv, [Next]_vars, NEW b \in barred'
             PROVE  /\ caller'[b] \in Keys /\ Dead(caller[b])' /\ caller' = caller
                    /\ apc'[b] \in {"auth", "401", "gone"}
    BY DEF BarredShape
<1>1. b \in Calls /\ caller' = caller /\ (barred' = barred \/ \E a \in Calls : AdminArrive(a))
  <2>1. b \in Calls
    BY TypeStep DEF TypeOK
  <2>2. caller' = caller
    BY DEF Next, Quiet, vars, admin, Tick, Arrive, Authenticate, EnforceRateLimit,
           EnforceKeyCap, EnforceGlobalCap, _enforce_max_tokens, Serve, ServeFails, Abandon,
           ServeRaises,
           Persist, CrashRequest, AdminArrive, AdminAuthenticate, CreateKey, RevokeKey, Audit,
           CrashCall
  <2> QED
    BY <2>1, <2>2 DEF Next, Quiet, vars, history, Tick, Arrive, Authenticate,
           EnforceRateLimit, EnforceKeyCap, EnforceGlobalCap, _enforce_max_tokens, Serve,
           ServeFails, Abandon, ServeRaises,
           Persist, CrashRequest, AdminAuthenticate, CreateKey, RevokeKey, Audit, CrashCall
<1>2. SUFFICES caller[b] \in Keys /\ Dead(caller[b]) /\ apc'[b] \in {"auth", "401", "gone"}
    BY <1>1, DeadForever
<1> USE DEF IInv, TypeOK, BarredShape
<1>3. ASSUME NEW a \in Calls, AdminArrive(a)
      PROVE  caller[b] \in Keys /\ Dead(caller[b]) /\ apc'[b] \in {"auth", "401", "gone"}
    BY <1>1, <1>3 DEF AdminArrive
<1>4. CASE b \in barred
  <2>1. caller[b] \in Keys /\ Dead(caller[b]) /\ apc[b] \in {"auth", "401", "gone"}
    BY <1>4
  <2>2. ~Authenticates(caller[b])
    BY <2>1 DEF Dead, Authenticates, _is_expired
  <2>3. ASSUME NEW a \in Calls,
               \/ AdminArrive(a) \/ AdminAuthenticate(a) \/ CreateKey(a)
               \/ RevokeKey(a) \/ Audit(a) \/ CrashCall(a)
        PROVE  apc'[b] \in {"auth", "401", "gone"}
    BY <1>1, <2>1, <2>2, <2>3 DEF AdminArrive, AdminAuthenticate, CreateKey, RevokeKey, Audit,
                                  CrashCall
  <2>4. apc' = apc \/ \E a \in Calls :
               \/ AdminArrive(a) \/ AdminAuthenticate(a) \/ CreateKey(a)
               \/ RevokeKey(a) \/ Audit(a) \/ CrashCall(a)
    BY DEF Next, Quiet, vars, admin, Tick, Arrive, Authenticate, EnforceRateLimit,
           EnforceKeyCap, EnforceGlobalCap, _enforce_max_tokens, Serve, ServeFails, Abandon,
           ServeRaises,
           Persist, CrashRequest
  <2> QED
    BY <2>1, <2>3, <2>4
<1> QED
    BY <1>1, <1>3, <1>4

\* The two commits of a call keep their order.
LEMMA AuditStep == IInv /\ [Next]_vars => AuditShape' /\ AuditMatchesKeys'
<1> SUFFICES ASSUME IInv, [Next]_vars PROVE AuditShape' /\ AuditMatchesKeys'
    OBVIOUS
<1>0. /\ expires \in [Keys -> Int \cup {Never, NoKey}] /\ active \in [Keys -> BOOLEAN]
      /\ apc \in [Calls -> Working \cup {"idle", "done", "401", "404", "400", "gone"}]
      /\ target \in [Calls -> Keys]
      /\ AuditShape /\ AuditMatchesKeys
    BY DEF IInv, TypeOK
<1> USE <1>0 DEF AuditShape, AuditMatchesKeys
<1>1. CASE UNCHANGED <<expires, active, audit, apc, target>>
    BY <1>1
<1>2. ASSUME NEW a \in Calls, AdminArrive(a) \/ AdminAuthenticate(a) \/ CrashCall(a)
      PROVE  AuditShape' /\ AuditMatchesKeys'
    BY <1>2 DEF AdminArrive, AdminAuthenticate, CrashCall, db
<1>3. ASSUME NEW a \in Calls, CreateKey(a) PROVE AuditShape' /\ AuditMatchesKeys'
  <2>1. CASE UNCHANGED <<expires, active>> /\ apc' = [apc EXCEPT ![a] = "400"]
    BY <1>3, <2>1 DEF CreateKey
  <2>2. ASSUME NEW e \in Int \cup {Never},
               expires' = [expires EXCEPT ![target[a]] = e],
               active' = [active EXCEPT ![target[a]] = TRUE],
               apc' = [apc EXCEPT ![a] = "audit_created"]
        PROVE  AuditShape' /\ AuditMatchesKeys'
    <3>1. expires[target[a]] = NoKey /\ apc[a] = "act" /\ UNCHANGED <<audit, target>> /\ e # NoKey
        BY <1>3, AdmissionAssumption DEF CreateKey
    <3>2. AuditShape'
        BY <2>2, <3>1
    <3>3. AuditMatchesKeys'
      <4> SUFFICES ASSUME NEW k \in Keys
                   PROVE  /\ <<"key_created", k>> \in audit' => expires'[k] # NoKey
                          /\ <<"key_revoked", k>> \in audit' => ~active'[k]
                          /\ expires'[k] # NoKey =>
                                \/ <<"key_created", k>> \in audit'
                                \/ \E c \in Calls : target'[c] = k /\ apc'[c] \in {"audit_created", "gone"}
                          /\ expires'[k] # NoKey /\ ~active'[k] =>
                                \/ <<"key_revoked", k>> \in audit'
                                \/ \E c \in Calls : target'[c] = k /\ apc'[c] \in {"audit_revoked", "gone"}
          OBVIOUS
      <4>1. \A c \in Calls : c # a => apc'[c] = apc[c]
          BY <2>2
      <4>2. apc'[a] = "audit_created"
          BY <2>2
      <4>3. CASE k = target[a]
          BY <2>2, <3>1, <4>2, <4>3
      <4>4. CASE k # target[a]
        <5>1. expires'[k] = expires[k] /\ active'[k] = active[k] /\ audit' = audit /\ target' = target
            BY <2>2, <3>1, <4>4
        <5> QED
            BY <3>1, <4>1, <4>4, <5>1
      <4> QED
          BY <4>3, <4>4
    <3> QED
        BY <3>2, <3>3
  <2>3. \/ UNCHANGED <<expires, active>> /\ apc' = [apc EXCEPT ![a] = "400"]
        \/ \E e \in Int \cup {Never} :
                /\ expires' = [expires EXCEPT ![target[a]] = e]
                /\ active' = [active EXCEPT ![target[a]] = TRUE]
                /\ apc' = [apc EXCEPT ![a] = "audit_created"]
    <3>1. PICK t \in Terms :
            \/ UNCHANGED <<expires, active>> /\ apc' = [apc EXCEPT ![a] = "400"]
            \/ /\ expires' = [expires EXCEPT ![target[a]] =
                                IF t = Never THEN Never ELSE clock + Term(a, t)]
               /\ active' = [active EXCEPT ![target[a]] = TRUE]
               /\ apc' = [apc EXCEPT ![a] = "audit_created"]
        BY <1>3 DEF CreateKey
    <3>2. clock \in Nat
        BY DEF IInv, TypeOK
    <3>3. (IF t = Never THEN Never ELSE clock + Term(a, t)) \in Int \cup {Never}
        BY <3>2, AdmissionAssumption DEF Term
    <3> QED
        BY <3>1, <3>3
  <2> QED
    BY <2>1, <2>2, <2>3
<1>4. ASSUME NEW a \in Calls, RevokeKey(a) PROVE AuditShape' /\ AuditMatchesKeys'
    BY <1>4 DEF RevokeKey, AfterRevoke
<1>5. ASSUME NEW a \in Calls, Audit(a) PROVE AuditShape' /\ AuditMatchesKeys'
    BY <1>5 DEF Audit
<1>6. \/ UNCHANGED <<expires, active, audit, apc, target>>
      \/ \E a \in Calls :
            \/ AdminArrive(a) \/ AdminAuthenticate(a) \/ CreateKey(a)
            \/ RevokeKey(a) \/ Audit(a) \/ CrashCall(a)
    BY DEF Next, Quiet, vars, db, admin, Tick, Arrive, Authenticate, EnforceRateLimit,
           EnforceKeyCap, EnforceGlobalCap, _enforce_max_tokens, Serve, ServeFails, Abandon,
           ServeRaises,
           Persist, CrashRequest
<1> QED
    BY <1>1, <1>2, <1>3, <1>4, <1>5, <1>6

\* A request that passes the cap of its key joins the outstanding ones; one
\* whose row is written leaves them; no other step adds any.
LEMMA KeyBoundStep == IInv /\ [Next]_vars => KeyOvershootBounded'
<1> SUFFICES ASSUME IInv, [Next]_vars, NEW k \in Keys, Limit[k] # NoLimit,
                    spent'[k] # 0 \/ Outstanding(k)' # {}
             PROVE  Bound(spent'[k], Cardinality(Outstanding(k)'), Limit[k], peak'[k])
    BY DEF KeyOvershootBounded, Bound
<1> USE DEF IInv, TypeOK
<1>1. /\ Limit[k] \in Nat
      /\ spent[k] \in Nat /\ peak[k] \in Nat
      /\ Cardinality(Outstanding(k)) \in Nat /\ IsFiniteSet(Outstanding(k))
    BY AdmissionAssumption, FiniteRequests DEF Outstanding
<1>2. spent[k] # 0 \/ Outstanding(k) # {} =>
            Bound(spent[k], Cardinality(Outstanding(k)), Limit[k], peak[k])
    BY DEF KeyOvershootBounded, Bound
<1>3. ASSUME Outstanding(k)' \subseteq Outstanding(k), spent'[k] = spent[k], peak'[k] = peak[k]
      PROVE  Bound(spent'[k], Cardinality(Outstanding(k)'), Limit[k], peak'[k])
  <2>1. /\ Cardinality(Outstanding(k)') \in Nat
        /\ Cardinality(Outstanding(k)') <= Cardinality(Outstanding(k))
    BY <1>1, <1>3, FS_Subset, FS_CardinalityType
  <2> QED
    BY <1>1, <1>2, <1>3, <2>1, BoundShrinks
<1>4. ASSUME NEW r \in Requests, EnforceKeyCap(r)
      PROVE  Bound(spent'[k], Cardinality(Outstanding(k)'), Limit[k], peak'[k])
  <2>1. CASE key[r] = k /\ ~CapReached(spent[k], Limit[k])
    <3>1. pc' = [pc EXCEPT ![r] = "global"] /\ UNCHANGED <<key, row, spent>>
        BY <1>4, <2>1 DEF EnforceKeyCap, db
    <3>2. Outstanding(k)' = Outstanding(k) \cup {r} /\ r \notin Outstanding(k)
        BY <1>4, <2>1, <3>1 DEF EnforceKeyCap, Outstanding, RequestShape, Running
    <3>3. Cardinality(Outstanding(k)') = Cardinality(Outstanding(k)) + 1
      <4>1. PICK S : S = Outstanding(k)
          OBVIOUS
      <4>2. Cardinality(S \cup {r}) = Cardinality(S) + 1
          BY <1>1, <3>2, <4>1, FS_AddElement
      <4> QED
          BY <3>2, <4>1, <4>2, Zenon
    <3>4. /\ spent'[k] = spent[k] /\ spent[k] < Limit[k]
          /\ peak'[k] \in Nat /\ peak'[k] >= Cardinality(Outstanding(k)) + 1
        BY <1>1, <1>4, <2>1, <3>1 DEF EnforceKeyCap, CapReached, Larger
    <3> QED
        BY <1>1, <3>3, <3>4, BoundGrows
  <2>2. CASE key[r] # k \/ CapReached(spent[k], Limit[k])
    <3>1. Outstanding(k)' \subseteq Outstanding(k) /\ spent'[k] = spent[k] /\ peak'[k] = peak[k]
        BY <1>4, <2>2 DEF EnforceKeyCap, Outstanding, db
    <3> QED
        BY <1>3, <3>1
  <2> QED
    BY <2>1, <2>2
<1>5. ASSUME NEW r \in Requests, Persist(r)
      PROVE  Bound(spent'[k], Cardinality(Outstanding(k)'), Limit[k], peak'[k])
  <2>1. CASE key[r] = k /\ row[r] = "ok" /\ row'[r] = "written"
    <3>1. row' = [row EXCEPT ![r] = "written"] /\ UNCHANGED <<key, pc, peak>>
        BY <1>5, <2>1 DEF Persist, Written, history
    <3>2. spent'[k] = spent[k] + cost[r]
        BY <1>5, <2>1 DEF Persist
    <3>3. r \in Outstanding(k) /\ Outstanding(k)' = Outstanding(k) \ {r}
        BY <2>1, <3>1 DEF Outstanding, RequestShape, Running
    <3>4. /\ Cardinality(Outstanding(k)') = Cardinality(Outstanding(k)) - 1
          /\ Cardinality(Outstanding(k)) >= 1
      <4>1. Cardinality(Outstanding(k) \ {r}) = Cardinality(Outstanding(k)) - 1
        BY <1>1, <3>3, FS_RemoveElement
      <4>2. Cardinality(Outstanding(k) \ {r}) \in Nat
        BY FiniteRequests DEF Outstanding
      <4> QED
        BY <1>1, <3>3, <4>1, <4>2
    <3>5. cost[r] \in Nat /\ cost[r] <= MaxCost
        BY <2>1 DEF RequestShape
    <3>6. Bound(spent[k], Cardinality(Outstanding(k)), Limit[k], peak[k])
        BY <1>2, <3>3
    <3>7. Bound(spent[k] + cost[r], Cardinality(Outstanding(k)) - 1, Limit[k], peak[k])
        BY <1>1, <3>4, <3>5, <3>6, BoundMoves
    <3>8. peak'[k] = peak[k]
        BY <3>1
    <3> QED
        BY <3>2, <3>4, <3>7, <3>8
  <2>2. CASE ~(key[r] = k /\ row[r] = "ok" /\ row'[r] = "written")
    <3>1. Outstanding(k)' \subseteq Outstanding(k) /\ spent'[k] = spent[k] /\ peak'[k] = peak[k]
        BY <1>5, <2>2 DEF Persist, Written, Outstanding, history
    <3> QED
        BY <1>3, <3>1
  <2> QED
    BY <2>1, <2>2
<1>6. ASSUME NEW r \in Requests,
             \/ Arrive(r) \/ Authenticate(r) \/ EnforceRateLimit(r) \/ EnforceGlobalCap(r)
             \/ _enforce_max_tokens(r) \/ Serve(r) \/ ServeFails(r) \/ Abandon(r)
             \/ ServeRaises(r) \/ CrashRequest(r)
      PROVE  Outstanding(k)' \subseteq Outstanding(k) /\ spent'[k] = spent[k] /\ peak'[k] = peak[k]
    BY <1>6 DEF Arrive, Authenticate, EnforceRateLimit, EnforceGlobalCap, _enforce_max_tokens,
                Serve, ServeFails, Abandon, ServeRaises, CrashRequest, Outstanding, db, history
<1>7. CASE UNCHANGED <<pc, key, row, spent, peak>>
    BY <1>3, <1>7 DEF Outstanding
<1>8. CASE UNCHANGED vars \/ Tick
    BY <1>7, <1>8 DEF vars, db, request, history, Tick
<1>9. ASSUME NEW a \in Calls,
             \/ AdminArrive(a) \/ AdminAuthenticate(a) \/ CreateKey(a)
             \/ RevokeKey(a) \/ Audit(a) \/ CrashCall(a)
      PROVE  UNCHANGED <<pc, key, row, spent, peak>>
    BY <1>9 DEF AdminArrive, AdminAuthenticate, CreateKey, RevokeKey, Audit,
                CrashCall, db, request, history
<1> QED
    BY <1>3, <1>4, <1>5, <1>6, <1>7, <1>8, <1>9 DEF Next, Quiet

\* The same argument for the global sum.
LEMMA GlobalBoundStep == IInv /\ [Next]_vars => GlobalOvershootBounded'
<1> SUFFICES ASSUME IInv, [Next]_vars, GlobalLimit # NoLimit,
                    total' # 0 \/ AllOutstanding' # {}
             PROVE  Bound(total', Cardinality(AllOutstanding'), GlobalLimit, totalPeak')
    BY DEF GlobalOvershootBounded, Bound
<1> USE DEF IInv, TypeOK
<1>1. /\ GlobalLimit \in Nat
      /\ Cardinality(AllOutstanding) \in Nat /\ IsFiniteSet(AllOutstanding)
    BY AdmissionAssumption, FiniteRequests DEF AllOutstanding
<1>2. total # 0 \/ AllOutstanding # {} =>
            Bound(total, Cardinality(AllOutstanding), GlobalLimit, totalPeak)
    BY DEF GlobalOvershootBounded, Bound
<1>3. ASSUME AllOutstanding' \subseteq AllOutstanding, total' = total, totalPeak' = totalPeak
      PROVE  Bound(total', Cardinality(AllOutstanding'), GlobalLimit, totalPeak')
  <2>1. /\ Cardinality(AllOutstanding') \in Nat
        /\ Cardinality(AllOutstanding') <= Cardinality(AllOutstanding)
    BY <1>1, <1>3, FS_Subset, FS_CardinalityType
  <2> QED
    BY <1>1, <1>2, <1>3, <2>1, BoundShrinks
<1>4. ASSUME NEW r \in Requests, EnforceGlobalCap(r)
      PROVE  Bound(total', Cardinality(AllOutstanding'), GlobalLimit, totalPeak')
  <2>1. CASE ~CapReached(total, GlobalLimit)
    <3>1. pc' = [pc EXCEPT ![r] = "tokens"] /\ UNCHANGED <<key, row, total>>
        BY <1>4, <2>1 DEF EnforceGlobalCap, db
    <3>2. AllOutstanding' = AllOutstanding \cup {r} /\ r \notin AllOutstanding
        BY <1>4, <2>1, <3>1 DEF EnforceGlobalCap, AllOutstanding, RequestShape, Running
    <3>3. Cardinality(AllOutstanding') = Cardinality(AllOutstanding) + 1
        BY <1>1, <3>2, FS_AddElement
    <3>4. /\ total' = total /\ total < GlobalLimit
          /\ totalPeak' \in Nat /\ totalPeak' >= Cardinality(AllOutstanding) + 1
        BY <1>1, <1>4, <2>1, <3>1 DEF EnforceGlobalCap, CapReached, Larger
    <3> QED
        BY <1>1, <3>3, <3>4, BoundGrows
  <2>2. CASE CapReached(total, GlobalLimit)
    <3>1. AllOutstanding' \subseteq AllOutstanding /\ total' = total /\ totalPeak' = totalPeak
        BY <1>4, <2>2 DEF EnforceGlobalCap, AllOutstanding, db
    <3> QED
        BY <1>3, <3>1
  <2> QED
    BY <2>1, <2>2
<1>5. ASSUME NEW r \in Requests, Persist(r)
      PROVE  Bound(total', Cardinality(AllOutstanding'), GlobalLimit, totalPeak')
  <2>1. CASE row[r] = "ok" /\ row'[r] = "written"
    <3>1. row' = [row EXCEPT ![r] = "written"] /\ UNCHANGED <<key, pc, totalPeak>>
        BY <1>5, <2>1 DEF Persist, Written, history
    <3>2. total' = total + cost[r]
        BY <1>5, <2>1 DEF Persist
    <3>3. r \in AllOutstanding /\ AllOutstanding' = AllOutstanding \ {r}
        BY <2>1, <3>1 DEF AllOutstanding, RequestShape, Running
    <3>4. /\ Cardinality(AllOutstanding') = Cardinality(AllOutstanding) - 1
          /\ Cardinality(AllOutstanding) >= 1
      <4>1. Cardinality(AllOutstanding \ {r}) = Cardinality(AllOutstanding) - 1
        BY <1>1, <3>3, FS_RemoveElement
      <4>2. Cardinality(AllOutstanding \ {r}) \in Nat
        BY FiniteRequests DEF AllOutstanding
      <4> QED
        BY <1>1, <3>3, <4>1, <4>2
    <3>5. cost[r] \in Nat /\ cost[r] <= MaxCost
        BY <2>1 DEF RequestShape
    <3>6. Bound(total, Cardinality(AllOutstanding), GlobalLimit, totalPeak)
        BY <1>2, <3>3
    <3>7. Bound(total + cost[r], Cardinality(AllOutstanding) - 1, GlobalLimit, totalPeak)
        BY <1>1, <3>4, <3>5, <3>6, BoundMoves
    <3> QED
        BY <3>1, <3>2, <3>4, <3>7
  <2>2. CASE ~(row[r] = "ok" /\ row'[r] = "written")
    <3>1. AllOutstanding' \subseteq AllOutstanding /\ total' = total /\ totalPeak' = totalPeak
        BY <1>5, <2>2 DEF Persist, Written, AllOutstanding, history
    <3> QED
        BY <1>3, <3>1
  <2> QED
    BY <2>1, <2>2
<1>6. ASSUME NEW r \in Requests,
             \/ Arrive(r) \/ Authenticate(r) \/ EnforceRateLimit(r) \/ EnforceKeyCap(r)
             \/ _enforce_max_tokens(r) \/ Serve(r) \/ ServeFails(r) \/ Abandon(r)
             \/ ServeRaises(r) \/ CrashRequest(r)
      PROVE  AllOutstanding' \subseteq AllOutstanding /\ total' = total /\ totalPeak' = totalPeak
    BY <1>6 DEF Arrive, Authenticate, EnforceRateLimit, EnforceKeyCap, _enforce_max_tokens,
                Serve, ServeFails, Abandon, ServeRaises, CrashRequest, AllOutstanding, db,
                history
<1>7. CASE UNCHANGED <<pc, row, total, totalPeak>>
    BY <1>3, <1>7 DEF AllOutstanding
<1>8. CASE UNCHANGED vars \/ Tick
    BY <1>7, <1>8 DEF vars, db, request, history, Tick
<1>9. ASSUME NEW a \in Calls,
             \/ AdminArrive(a) \/ AdminAuthenticate(a) \/ CreateKey(a)
             \/ RevokeKey(a) \/ Audit(a) \/ CrashCall(a)
      PROVE  UNCHANGED <<pc, row, total, totalPeak>>
    BY <1>9 DEF AdminArrive, AdminAuthenticate, CreateKey, RevokeKey, Audit,
                CrashCall, db, request, history
<1> QED
    BY <1>3, <1>4, <1>5, <1>6, <1>7, <1>8, <1>9 DEF Next, Quiet

-----------------------------------------------------------------------------
(* The ledger.                                                             *)

\* The answers of a key whose row usage_logs has.
WrittenOf(k) == {r \in Requests : key[r] = k /\ row[r] = "written"}

\* An answer has a cost only once it is one, so that the row of a failed
\* request adds nothing when it is written.
CostShape == \A r \in Requests : row[r] \in {"none", "error"} => cost[r] = 0

\* The rows of a key are finitely many, and their costs are numbers.
LEMMA WrittenFinite ==
    ASSUME TypeOK, NEW k \in Keys
    PROVE  IsFiniteSet(WrittenOf(k)) /\ \A r \in WrittenOf(k) : cost[r] \in Int
BY AdmissionAssumption, FS_Subset DEF WrittenOf, TypeOK

\* No step but persist_usage writes a row or changes a sum, and none changes
\* the cost of an answer whose row is written.
LEMMA LedgerFrame ==
    ASSUME IInv, CostShape, [Next]_vars
    PROVE  /\ CostShape'
           /\ \/ \E r \in Requests : Persist(r)
              \/ /\ UNCHANGED <<spent, total, key>>
                 /\ \A r \in Requests : row'[r] = "written" <=> row[r] = "written"
                 /\ \A r \in Requests : row[r] = "written" => cost'[r] = cost[r]
<1> USE DEF IInv, TypeOK, CostShape
<1>1. ASSUME NEW r \in Requests, Persist(r)
      PROVE  CostShape'
    BY <1>1 DEF Persist, Written
<1>2. ASSUME NEW r \in Requests, Serve(r)
      PROVE  /\ CostShape' /\ UNCHANGED <<spent, total, key>>
             /\ \A q \in Requests : row'[q] = "written" <=> row[q] = "written"
             /\ \A q \in Requests : row[q] = "written" => cost'[q] = cost[q]
  <2>1. row[r] = "none" /\ row' = [row EXCEPT ![r] = "ok"] /\ UNCHANGED <<spent, total, key>>
      BY <1>2 DEF Serve, RequestShape, Running, db
  <2>2. PICK c : cost' = [cost EXCEPT ![r] = c]
      BY <1>2 DEF Serve
  <2> QED
      BY <2>1, <2>2
<1>3. ASSUME NEW r \in Requests, EnforceRateLimit(r) \/ ServeFails(r) \/ CrashRequest(r)
      PROVE  /\ CostShape' /\ UNCHANGED <<spent, total, key>>
             /\ \A q \in Requests : row'[q] = "written" <=> row[q] = "written"
             /\ \A q \in Requests : row[q] = "written" => cost'[q] = cost[q]
  <2>1. /\ UNCHANGED <<spent, total, key, cost>>
        /\ \/ row' = row
           \/ row' = [row EXCEPT ![r] = "error"] /\ row[r] = "none"
           \/ row' = [row EXCEPT ![r] = IF @ \in {"ok", "error"} THEN "lost" ELSE @]
      BY <1>3 DEF EnforceRateLimit, ServeFails, CrashRequest, RequestShape, Running, db
  <2> QED
      BY <2>1
<1>4. CASE UNCHANGED <<spent, total, key, cost, row>>
    BY <1>4
<1>5. ASSUME NEW r \in Requests,
             \/ Arrive(r) \/ Authenticate(r) \/ EnforceKeyCap(r) \/ EnforceGlobalCap(r)
             \/ _enforce_max_tokens(r) \/ ServeRaises(r) \/ Abandon(r)
      PROVE  UNCHANGED <<spent, total, key, cost, row>>
    BY <1>5 DEF Arrive, Authenticate, EnforceKeyCap, EnforceGlobalCap, _enforce_max_tokens,
       ServeRaises, Abandon, db
<1>6. ASSUME NEW a \in Calls,
             \/ AdminArrive(a) \/ AdminAuthenticate(a) \/ CreateKey(a)
             \/ RevokeKey(a) \/ Audit(a) \/ CrashCall(a)
      PROVE  UNCHANGED <<spent, total, key, cost, row>>
    BY <1>6 DEF AdminArrive, AdminAuthenticate, CreateKey, RevokeKey, Audit, CrashCall,
       db, request
<1>7. CASE UNCHANGED vars \/ Tick
    BY <1>4, <1>7 DEF vars, db, request, Tick
<1> QED
    BY <1>1, <1>2, <1>3, <1>4, <1>5, <1>6, <1>7 DEF Next, Quiet

\* A row that is written adds its cost to the sum of its key and to the
\* global one; whatever else happens, both sums stay what they were.
LEMMA LedgerStep == IInv /\ IInv' /\ CostShape /\ LedgerExact /\ [Next]_vars => LedgerExact'
<1> SUFFICES ASSUME IInv, IInv', CostShape, LedgerExact, [Next]_vars PROVE LedgerExact'
    OBVIOUS
<1>0. TypeOK /\ TypeOK' /\ IsFiniteSet(Keys)
    BY AdmissionAssumption DEF IInv
<1>1. /\ \A k \in Keys : spent[k] = SumOver(cost, WrittenOf(k))
      /\ total = SumOver(spent, Keys)
    BY DEF LedgerExact, WrittenOf
<1>2. SUFFICES /\ \A k \in Keys : spent'[k] = SumOver(cost', WrittenOf(k)')
               /\ total' = SumOver(spent', Keys)
    BY DEF LedgerExact, WrittenOf
<1>3. CASE /\ UNCHANGED <<spent, total, key>>
           /\ \A r \in Requests : row'[r] = "written" <=> row[r] = "written"
           /\ \A r \in Requests : row[r] = "written" => cost'[r] = cost[r]
  <2>1. ASSUME NEW k \in Keys PROVE spent'[k] = SumOver(cost', WrittenOf(k)')
    <3>1. WrittenOf(k)' = WrittenOf(k)
        BY <1>3 DEF WrittenOf
    <3>2. \A r \in WrittenOf(k) : cost[r] \in Int /\ cost[r] = cost'[r]
        BY <1>0, <1>3, WrittenFinite DEF WrittenOf
    <3>3. SumOver(cost, WrittenOf(k)) = SumOver(cost', WrittenOf(k))
        BY <1>0, <3>2, WrittenFinite, SumAgrees
    <3> QED
        BY <1>1, <1>3, <3>1, <3>3
  <2> QED
      BY <1>1, <1>3, <2>1
<1>4. ASSUME NEW r \in Requests, Persist(r)
      PROVE  /\ \A k \in Keys : spent'[k] = SumOver(cost', WrittenOf(k)')
             /\ total' = SumOver(spent', Keys)
  <2>1. CASE row' = [row EXCEPT ![r] = "lost"] /\ UNCHANGED <<spent, total>>
    <3>1. UNCHANGED <<key, cost>> /\ row[r] # "written"
        BY <1>4 DEF Persist
    <3> QED
        BY <1>0, <1>3, <2>1, <3>1 DEF TypeOK
  <2>2. CASE /\ row' = [row EXCEPT ![r] = "written"]
             /\ spent' = [spent EXCEPT ![key[r]] = IF row[r] = "ok" THEN @ + cost[r] ELSE @]
             /\ total' = IF row[r] = "ok" THEN total + cost[r] ELSE total
    <3>1. UNCHANGED <<key, cost>> /\ row[r] \in {"ok", "error"}
        BY <1>4 DEF Persist
    <3>2. key[r] \in Keys /\ cost[r] \in Nat /\ (row[r] = "error" => cost[r] = 0)
        BY <1>0 DEF TypeOK, CostShape
    <3>3. spent'[key[r]] = spent[key[r]] + cost[r] /\ total' = total + cost[r]
        BY <1>0, <2>2, <3>1, <3>2 DEF TypeOK
    <3>4. \A k \in Keys : k # key[r] => spent'[k] = spent[k]
        BY <1>0, <2>2 DEF TypeOK
    <3>5. total' = SumOver(spent', Keys)
      <4>1. \A k \in Keys : spent[k] \in Int /\ spent'[k] \in Int
          BY <1>0 DEF TypeOK
      <4>2. SumOver(spent', Keys) = SumOver(spent, Keys) + (spent'[key[r]] - spent[key[r]])
          BY <1>0, <3>2, <3>4, <4>1, SumShifts
      <4> QED
          BY <1>1, <3>2, <3>3, <4>1, <4>2
    <3>6. ASSUME NEW k \in Keys PROVE spent'[k] = SumOver(cost', WrittenOf(k)')
      <4>1. CASE k = key[r]
        <5>1. r \notin WrittenOf(k) /\ WrittenOf(k)' = WrittenOf(k) \cup {r}
            BY <1>0, <2>2, <3>1, <4>1 DEF WrittenOf, TypeOK
        <5>2. SumOver(cost, WrittenOf(k) \cup {r}) = cost[r] + SumOver(cost, WrittenOf(k))
            BY <1>0, <3>2, <5>1, WrittenFinite, SumAdds
        <5>3. spent[k] \in Nat
            BY <1>0 DEF TypeOK
        <5> QED
            BY <1>1, <3>1, <3>2, <3>3, <4>1, <5>1, <5>2, <5>3
      <4>2. CASE k # key[r]
        <5>1. WrittenOf(k)' = WrittenOf(k)
            BY <1>0, <2>2, <3>1, <4>2 DEF WrittenOf, TypeOK
        <5> QED
            BY <1>1, <3>1, <3>4, <4>2, <5>1
      <4> QED
          BY <4>1, <4>2
    <3> QED
        BY <3>5, <3>6
  <2> QED
      BY <1>4, <2>1, <2>2 DEF Persist, Written
<1> QED
    BY <1>3, <1>4, LedgerFrame

-----------------------------------------------------------------------------
(* The theorems.                                                           *)

\* The invariant holds in every reachable state.
THEOREM Invariance == Spec => []IInv
<1>1. IInv /\ [Next]_vars => IInv'
    BY TypeStep, RequestStep, OverStep, DeadStep, BarredStep, AuditStep, KeyBoundStep,
       GlobalBoundStep DEF IInv
<1> QED
    BY <1>1, InitIInv, PTL DEF Spec

\* The types of the variables, and _enforce_max_tokens: no request asks a
\* provider for more than MAX_TOKENS_PER_REQUEST.
THEOREM TypeCorrect == Spec => []TypeOK
<1>1. IInv => TypeOK
    BY DEF IInv
<1> QED
    BY <1>1, Invariance, PTL

\* enforce_spend_cap: however late the rows of usage_logs are written, a key
\* overruns its limit by no more than the requests past the check can cost.
THEOREM KeyOvershoot == Spec => []KeyOvershootBounded
<1>1. IInv => KeyOvershootBounded
    BY DEF IInv
<1> QED
    BY <1>1, Invariance, PTL

\* enforce_spend_cap: the same for the global limit.
THEOREM GlobalOvershoot == Spec => []GlobalOvershootBounded
<1>1. IInv => GlobalOvershootBounded
    BY DEF IInv
<1> QED
    BY <1>1, Invariance, PTL

\* enforce_spend_cap: a request that arrives after a limit was reached is
\* never served.
THEOREM LimitsAreFinal == Spec => []ReachedIsFinal
<1>1. IInv => ReachedIsFinal
    BY DEF IInv, OverShape, ReachedIsFinal, Served
<1> QED
    BY <1>1, Invariance, PTL

\* authenticate_virtual_key: whoever comes with a revoked or expired key is
\* neither served nor obeyed.
THEOREM DeadKeysStayDead == Spec => []DeadKeysAreRejected
<1>1. IInv => DeadKeysAreRejected
    BY DEF IInv, DeadShape, BarredShape, DeadKeysAreRejected, Served
<1> QED
    BY <1>1, Invariance, PTL

\* create_key, revoke_key: api_keys and audit_logs agree up to calls between
\* their two commits.
THEOREM AuditTrail == Spec => []AuditMatchesKeys
<1>1. IInv => AuditMatchesKeys
    BY DEF IInv
<1> QED
    BY <1>1, Invariance, PTL

\* create_usage_log, get_key_spend_usd, get_global_spend_usd: for any number
\* of keys and requests, what the caps compare is exactly the cost of the
\* answers whose row was written, each counted once, and the global sum is
\* that of the keys.
THEOREM LedgerIsExact == Spec => []LedgerExact
<1>1. Init => CostShape /\ LedgerExact
  <2> SUFFICES ASSUME Init PROVE CostShape /\ LedgerExact
      OBVIOUS
  <2>1. CostShape
      BY DEF Init, CostShape
  <2>2. \A k \in Keys : {r \in Requests : key[r] = k /\ row[r] = "written"} = {}
      BY DEF Init
  <2>3. SumOver(spent, Keys) = 0
    <3>1. IsFiniteSet(Keys) /\ \A k \in Keys : spent[k] = 0
        BY AdmissionAssumption DEF Init
    <3> QED
        BY <3>1, SumZero
  <2> QED
      BY <2>1, <2>2, <2>3, SumEmpty DEF Init, LedgerExact
<1>2. IInv /\ CostShape /\ [Next]_vars => CostShape'
    BY LedgerFrame
<1> QED
    BY <1>1, <1>2, LedgerStep, Invariance, PTL DEF Spec
=============================================================================
