------------------------ MODULE SingleFlight_proofs ------------------------
(***************************************************************************)
(* Proofs about SingleFlight, for any requests, replicas, tenants, bodies, *)
(* candidate lists and faults.                                             *)
(***************************************************************************)
EXTENDS SingleFlight, TLAPS

\* Where a request is determines what it has: its future, its response.
Waiting == {"idle", "get", "discard", "check", "follow", "lock", "wait", "lead", "notfound"}

RequestShape ==
    \A r \in Requests :
        /\ pc[r] \in {"lock", "wait", "lead", "call"} => Candidates[req[r].body] > 0
        /\ token[r] => pc[r] \notin Waiting \ {"lead"}
        /\ pc[r] \in Waiting => future[r] = "none" /\ answer[r] = None
        /\ pc[r] = "call" => future[r] = "pending" /\ answer[r] = None
        /\ pc[r] \in {"release", "released"} =>
               \/ future[r] = "pending" /\ answer[r] = r
               \/ future[r] = "exception" /\ answer[r] = None
        /\ pc[r] \in {"store", "bill"} => future[r] = "result" /\ answer[r] = r
        /\ pc[r] = "failed" => answer[r] = None
        /\ pc[r] = "served" => answer[r] \in Requests
        /\ future[r] = "pending" => pc[r] \in {"call", "release", "released", "lost"}
        /\ future[r] = "result" =>
               answer[r] = r /\ pc[r] \in {"store", "bill", "served", "lost"}
        /\ usage[r] = "paid" <=> pc[r] = "served" /\ answer[r] = r

\* A response in the hands of a request was bought for an identical request,
\* and is shared only once its producer has settled.
ResponseIsBought ==
    \A r \in Requests :
        answer[r] # None =>
            /\ req[answer[r]] = req[r]
            /\ answer[answer[r]] = answer[r]
            /\ answer[r] # r => future[answer[r]] = "result"

\* A readable cache entry was bought for that very key.
CacheIsBought ==
    \A k \in Keys :
        cache[k] \in Requests =>
            /\ build_cache_key(cache[k]) = k
            /\ answer[cache[k]] = cache[k]
            /\ future[cache[k]] = "result"

\* A follower and its leader are in the same process, for the same key.
FollowerShape ==
    \A r \in Requests :
        pc[r] = "follow" =>
            LET leader == following[r] IN
            /\ leader \in Requests
            /\ at[leader] = at[r]
            /\ req[leader] = req[r]
            /\ future[leader] # "none"
            /\ pc[leader] # "lost"

\* The inductive invariant.
IInv ==
    /\ TypeOK
    /\ RequestShape
    /\ InflightIsLive
    /\ ResponseIsBought
    /\ CacheIsBought
    /\ FollowerShape
    /\ CallerHoldsLock

\* A request's cache key is a key of the Redis maps, its replica has a table.
LEMMA KeyIsKey ==
    ASSUME TypeOK, NEW r \in Requests
    PROVE  /\ build_cache_key(r) \in Keys
           /\ at[r] \in Replicas
BY DEF TypeOK, build_cache_key, Keys

\* build_cache_key is injective in the tenant and the body.
LEMMA SameKeySameRequest ==
    ASSUME TypeOK, NEW r \in Requests, NEW s \in Requests,
           build_cache_key(r) = build_cache_key(s)
    PROVE  req[r] = req[s]
BY DEF TypeOK, build_cache_key

\* A gateway with no traffic and an empty Redis satisfies the invariant.
LEMMA InitIInv == Init => IInv
BY ConstantsAssumption
   DEF Init, IInv, TypeOK, RequestShape, Waiting, Live, Terminal, InflightIsLive,
       ResponseIsBought, CacheIsBought, FollowerShape, CallerHoldsLock, Keys

\* A request that takes over a bought response for the same tenant and body
\* keeps every response accounted for.
LEMMA Sharing ==
    ASSUME IInv, NEW r \in Requests, NEW source \in Requests,
           pc[r] \in Waiting, future[source] = "result", req[source] = req[r],
           answer' = [answer EXCEPT ![r] = source], UNCHANGED <<req, future>>
    PROVE  ResponseIsBought'
<1> SUFFICES ASSUME NEW s \in Requests, answer'[s] # None
             PROVE  /\ req[answer'[s]] = req[s] /\ answer'[answer'[s]] = answer'[s]
                    /\ answer'[s] # s => future[answer'[s]] = "result"
    BY DEF ResponseIsBought
<1>1. answer[r] = None /\ answer[source] = source /\ source # r
    BY ConstantsAssumption DEF IInv, RequestShape
<1>2. CASE s = r
    BY <1>1, <1>2 DEF IInv, TypeOK
<1>3. CASE s # r
    BY <1>1, <1>3, ConstantsAssumption DEF IInv, TypeOK, ResponseIsBought
<1> QED
    BY <1>2, <1>3

\* The `finally` of a leader removes its own entry and no other.
LEMMA Leaving ==
    ASSUME IInv, NEW r \in Requests
    PROVE  /\ LeaveInflight(r) \in [Replicas -> [Keys -> Requests \cup {None}]]
           /\ \A p \in Replicas, k \in Keys :
                  LeaveInflight(r)[p][k] # None =>
                      /\ LeaveInflight(r)[p][k] = inflight[p][k]
                      /\ inflight[p][k] # r
<1>1. build_cache_key(r) \in Keys /\ at[r] \in Replicas
    BY KeyIsKey DEF IInv
<1>2. LeaveInflight(r) \in [Replicas -> [Keys -> Requests \cup {None}]]
    BY <1>1 DEF LeaveInflight, IInv, TypeOK
<1>3. ASSUME NEW p \in Replicas, NEW k \in Keys, LeaveInflight(r)[p][k] # None
      PROVE  LeaveInflight(r)[p][k] = inflight[p][k] /\ inflight[p][k] # r
  <2>1. CASE p = at[r] /\ k = build_cache_key(r)
    BY <1>1, <1>3, <2>1 DEF LeaveInflight, IInv, TypeOK
  <2>2. CASE ~(p = at[r] /\ k = build_cache_key(r))
    <3>1. LeaveInflight(r)[p][k] = inflight[p][k]
      BY <1>1, <2>2 DEF LeaveInflight, IInv, TypeOK
    <3>2. inflight[p][k] # r
      BY <2>2, <3>1, <1>3, ConstantsAssumption DEF IInv, InflightIsLive
    <3> QED
      BY <3>1, <3>2
  <2> QED
    BY <2>1, <2>2
<1> QED
    BY <1>2, <1>3

\* Every step of every request and of the environment preserves it.
LEMMA StepIInv == IInv /\ [Next]_vars => IInv'
<1> SUFFICES ASSUME IInv, [Next]_vars PROVE IInv'
    OBVIOUS
<1> USE ConstantsAssumption DEF IInv, fixed, redis
<1>1. ASSUME NEW r \in Requests, Arrive(r) PROVE IInv'
  <2> USE <1>1 DEF Arrive, Goto
  <2>0. build_cache_key(r) \in Keys /\ at[r] \in Replicas
      BY KeyIsKey
  <2>1. TypeOK'
      BY <2>0 DEF TypeOK, Live, Terminal
  <2>2. RequestShape'
      BY <2>0 DEF RequestShape, TypeOK, Waiting, Live, Terminal
  <2>3. InflightIsLive' /\ ResponseIsBought' /\ CacheIsBought' /\ FollowerShape' /\ CallerHoldsLock'
      BY <2>0 DEF InflightIsLive, ResponseIsBought, CacheIsBought, FollowerShape,
         CallerHoldsLock, TypeOK, RequestShape, Waiting, build_cache_key
  <2> QED
      BY <2>1, <2>2, <2>3
<1>2. ASSUME NEW r \in Requests, GetHit(r) PROVE IInv'
  <2> USE <1>2 DEF GetHit, Goto, ServeFree
  <2>0. build_cache_key(r) \in Keys /\ at[r] \in Replicas
      BY KeyIsKey
  <2>1. TypeOK'
      BY <2>0 DEF TypeOK, Live, Terminal, RequestShape
  <2>2. RequestShape'
      BY <2>0 DEF RequestShape, TypeOK, Waiting, Live, Terminal, CacheIsBought
  <2>3. ResponseIsBought'
      <3> DEFINE source == cache[build_cache_key(r)]
      <3>1. CASE source \in Requests /\ ServeFree(r, source)
        <4>1. future[source] = "result" /\ build_cache_key(source) = build_cache_key(r)
            BY <2>0, <3>1 DEF CacheIsBought
        <4> QED
            BY <3>1, <4>1, SameKeySameRequest, Sharing DEF Waiting, ServeFree
      <3> QED
          BY <3>1
  <2>4. InflightIsLive' /\ CacheIsBought' /\ FollowerShape' /\ CallerHoldsLock'
      BY <2>0 DEF InflightIsLive, CacheIsBought, FollowerShape, CallerHoldsLock, TypeOK,
         RequestShape, Waiting, build_cache_key
  <2> QED
      BY <2>1, <2>2, <2>3, <2>4
<1>3. ASSUME NEW r \in Requests, GetMiss(r) PROVE IInv'
  <2> USE <1>3 DEF GetMiss, Goto
  <2>0. build_cache_key(r) \in Keys /\ at[r] \in Replicas
      BY KeyIsKey
  <2>1. TypeOK'
      BY <2>0 DEF TypeOK, Live, Terminal
  <2>2. RequestShape'
      <3>1. CASE pc' = [pc EXCEPT ![r] = "check"]
          BY <3>1 DEF RequestShape, TypeOK, Waiting
      <3>2. CASE pc' = [pc EXCEPT ![r] = "discard"]
          BY <3>2 DEF RequestShape, TypeOK, Waiting
      <3> QED
          BY <3>1, <3>2
  <2>3. InflightIsLive' /\ ResponseIsBought' /\ CacheIsBought' /\ FollowerShape' /\ CallerHoldsLock'
      BY <2>0 DEF InflightIsLive, ResponseIsBought, CacheIsBought, FollowerShape,
         CallerHoldsLock, TypeOK, RequestShape, Waiting, build_cache_key
  <2> QED
      BY <2>1, <2>2, <2>3
<1>4. ASSUME NEW r \in Requests, DiscardEntry(r) PROVE IInv'
  <2> USE <1>4 DEF DiscardEntry, Goto
  <2>0. build_cache_key(r) \in Keys /\ at[r] \in Replicas
      BY KeyIsKey
  <2>1. TypeOK'
      BY <2>0 DEF TypeOK, Live, Terminal
  <2>2. RequestShape'
      BY <2>0 DEF RequestShape, TypeOK, Waiting, Live, Terminal
  <2>3. CacheIsBought'
      <3>1. \A k \in Keys : cache'[k] \in Requests => cache'[k] = cache[k]
          BY <2>0 DEF TypeOK
      <3> QED
          BY <3>1 DEF CacheIsBought, build_cache_key
  <2>4. InflightIsLive' /\ ResponseIsBought' /\ FollowerShape' /\ CallerHoldsLock'
      BY <2>0 DEF InflightIsLive, ResponseIsBought, FollowerShape, CallerHoldsLock, TypeOK,
         RequestShape, Waiting, build_cache_key
  <2> QED
      BY <2>1, <2>2, <2>3, <2>4
<1>5. ASSUME NEW r \in Requests, CheckInflight(r) PROVE IInv'
  <2> USE <1>5 DEF CheckInflight, Goto
  <2>0. build_cache_key(r) \in Keys /\ at[r] \in Replicas
      BY KeyIsKey
  <2>1. TypeOK'
      <3>1. inflight[at[r]][build_cache_key(r)] \in Requests \cup {None}
          BY <2>0 DEF TypeOK
      <3>2. following' \in [Requests -> Requests \cup {None}]
          BY <3>1 DEF TypeOK
      <3> QED
          BY <3>2 DEF TypeOK, Live, Terminal
  <2>2. RequestShape'
      BY <2>0 DEF RequestShape, TypeOK, Waiting, Live, Terminal
  <2>3. FollowerShape'
      <3> DEFINE owner == inflight[at[r]][build_cache_key(r)]
      <3>1. CASE owner # None /\ following' = [following EXCEPT ![r] = owner]
        <4>1. /\ owner \in Requests /\ at[owner] = at[r] /\ pc[owner] = "call"
              /\ future[owner] = "pending"
              /\ build_cache_key(owner) = build_cache_key(r)
            BY <2>0, <3>1 DEF TypeOK, InflightIsLive
        <4>2. req[owner] = req[r]
            BY <4>1, SameKeySameRequest
        <4>3. pc' = [pc EXCEPT ![r] = "follow"]
            BY <3>1
        <4> HIDE DEF owner
        <4> QED
            BY <3>1, <4>1, <4>2, <4>3 DEF FollowerShape, TypeOK
      <3>2. CASE UNCHANGED following /\ pc'[r] # "follow"
          BY <3>2 DEF FollowerShape, TypeOK
      <3> QED
          BY <3>1, <3>2 DEF TypeOK
  <2>4. InflightIsLive' /\ ResponseIsBought' /\ CacheIsBought' /\ CallerHoldsLock'
      BY <2>0 DEF InflightIsLive, ResponseIsBought, CacheIsBought, CallerHoldsLock, TypeOK,
         RequestShape, Waiting, build_cache_key
  <2> QED
      BY <2>1, <2>2, <2>3, <2>4
<1>6. ASSUME NEW r \in Requests, Follow(r) PROVE IInv'
  <2> USE <1>6 DEF Follow, Goto, ServeFree
  <2>0. build_cache_key(r) \in Keys /\ at[r] \in Replicas
      BY KeyIsKey
  <2>1. TypeOK'
      <3>1. following[r] \in Requests
          BY DEF FollowerShape
      <3> QED
          BY <3>1 DEF TypeOK, Live, Terminal
  <2>2. RequestShape'
      BY <2>0 DEF RequestShape, TypeOK, Waiting, Live, Terminal, FollowerShape
  <2>3. ResponseIsBought'
      <3>1. CASE future[following[r]] = "result" /\ ServeFree(r, answer[following[r]])
        <4>1. /\ following[r] \in Requests /\ req[following[r]] = req[r]
              /\ answer[following[r]] = following[r]
            BY <3>1 DEF FollowerShape, RequestShape
        <4> QED
            BY <3>1, <4>1, Sharing DEF Waiting, ServeFree
      <3>2. CASE UNCHANGED answer
          BY <3>2 DEF ResponseIsBought
      <3> QED
          BY <3>1, <3>2
  <2>4. InflightIsLive' /\ CacheIsBought' /\ FollowerShape' /\ CallerHoldsLock'
      BY <2>0 DEF InflightIsLive, CacheIsBought, FollowerShape, CallerHoldsLock, TypeOK,
         RequestShape, Waiting, build_cache_key
  <2> QED
      BY <2>1, <2>2, <2>3, <2>4
<1>7. ASSUME NEW r \in Requests, AcquireLock(r) PROVE IInv'
  <2> USE <1>7 DEF AcquireLock, Goto, LockIsFree
  <2>0. build_cache_key(r) \in Keys /\ at[r] \in Replicas
      BY KeyIsKey
  <2>1. TypeOK'
      <3>1. lock' = lock \/ lock' = [lock EXCEPT ![build_cache_key(r)] = r]
          OBVIOUS
      <3>2. token' = token \/ token' = [token EXCEPT ![r] = TRUE]
          OBVIOUS
      <3>3. pc'= [pc EXCEPT ![r] = "lead"] \/ pc'= [pc EXCEPT ![r] = "wait"]
          OBVIOUS
      <3>4. lock' \in [Keys -> Requests \cup {None}]
          BY <2>0, <3>1 DEF TypeOK
      <3>5. token' \in [Requests -> BOOLEAN]
          BY <3>2 DEF TypeOK
      <3> QED
          BY <3>3, <3>4, <3>5 DEF TypeOK, Live, Terminal
  <2>2. RequestShape'
      <3>1. CASE pc' = [pc EXCEPT ![r] = "lead"] /\ token' = [token EXCEPT ![r] = TRUE]
          BY <3>1 DEF RequestShape, TypeOK, Waiting
      <3>2. CASE pc' = [pc EXCEPT ![r] = "wait"] /\ token' = token
          BY <3>2 DEF RequestShape, TypeOK, Waiting
      <3> QED
          BY <3>1, <3>2
  <2>3. CallerHoldsLock'
      <3> SUFFICES ASSUME "overrun" \notin Faults, NEW s \in Requests,
                          token'[s], pc'[s] \in {"lead", "call"}
                   PROVE  lock'[build_cache_key(s)] = s
          BY DEF CallerHoldsLock, build_cache_key
      <3>1. CASE s = r
          BY <2>0, <3>1 DEF TypeOK
      <3>2. CASE s # r
        <4>1. lock[build_cache_key(s)] = s /\ build_cache_key(s) \in Keys
            BY <3>2, KeyIsKey DEF TypeOK, CallerHoldsLock
        <4> QED
            BY <2>0, <4>1 DEF TypeOK
      <3> QED
          BY <3>1, <3>2
  <2>4. InflightIsLive' /\ ResponseIsBought' /\ CacheIsBought' /\ FollowerShape'
      BY <2>0 DEF InflightIsLive, ResponseIsBought, CacheIsBought, FollowerShape, TypeOK,
         RequestShape, Waiting, build_cache_key
  <2> QED
      BY <2>1, <2>2, <2>3, <2>4
<1>8. ASSUME NEW r \in Requests, WaitForResult(r) PROVE IInv'
  <2> USE <1>8 DEF WaitForResult, Goto, ServeFree
  <2>0. build_cache_key(r) \in Keys /\ at[r] \in Replicas
      BY KeyIsKey
  <2>1. TypeOK'
      BY <2>0 DEF TypeOK, Live, Terminal
  <2>2. RequestShape'
      <3>1. CASE pc' = [pc EXCEPT ![r] = "lead"] /\ UNCHANGED <<answer, usage>>
          BY <3>1 DEF RequestShape, TypeOK, Waiting
      <3>2. CASE /\ cache[build_cache_key(r)] \in Requests
                 /\ ServeFree(r, cache[build_cache_key(r)])
          BY <2>0, <3>2 DEF RequestShape, TypeOK, Waiting, CacheIsBought
      <3> QED
          BY <3>1, <3>2
  <2>3. ResponseIsBought'
      <3> DEFINE source == cache[build_cache_key(r)]
      <3>1. CASE source \in Requests /\ ServeFree(r, source)
        <4>1. future[source] = "result" /\ build_cache_key(source) = build_cache_key(r)
            BY <2>0, <3>1 DEF CacheIsBought
        <4> QED
            BY <3>1, <4>1, SameKeySameRequest, Sharing DEF Waiting, ServeFree
      <3>2. CASE UNCHANGED answer
          BY <3>2 DEF ResponseIsBought
      <3> QED
          BY <3>1, <3>2
  <2>4. InflightIsLive' /\ CacheIsBought' /\ FollowerShape' /\ CallerHoldsLock'
      BY <2>0 DEF InflightIsLive, CacheIsBought, FollowerShape, CallerHoldsLock, TypeOK,
         RequestShape, Waiting, build_cache_key
  <2> QED
      BY <2>1, <2>2, <2>3, <2>4
<1>9. ASSUME NEW r \in Requests, Lead(r) PROVE IInv'
  <2> USE <1>9 DEF Lead, Goto
  <2>0. build_cache_key(r) \in Keys /\ at[r] \in Replicas
      BY KeyIsKey
  <2>1. TypeOK'
      BY <2>0 DEF TypeOK, Live, Terminal, RequestShape
  <2>2. RequestShape'
      BY <2>0 DEF RequestShape, TypeOK, Waiting, Live, Terminal
  <2>3. InflightIsLive' /\ ResponseIsBought' /\ CacheIsBought' /\ FollowerShape' /\ CallerHoldsLock'
      BY <2>0 DEF InflightIsLive, ResponseIsBought, CacheIsBought, FollowerShape,
         CallerHoldsLock, TypeOK, RequestShape, Waiting, build_cache_key
  <2> QED
      BY <2>1, <2>2, <2>3
<1>10. ASSUME NEW r \in Requests, CallSucceeds(r) PROVE IInv'
  <2> USE <1>10 DEF CallSucceeds, Goto
  <2>0. build_cache_key(r) \in Keys /\ at[r] \in Replicas
      BY KeyIsKey
  <2>1. TypeOK'
      <3>1. inflight' \in [Replicas -> [Keys -> Requests \cup {None}]]
          BY Leaving
      <3>2. future' \in [Requests -> {"none", "pending", "result", "exception"}]
          BY DEF TypeOK
      <3> QED
          BY <3>1, <3>2 DEF TypeOK, Live, Terminal
  <2>2. RequestShape'
      BY <2>0 DEF RequestShape, TypeOK, Waiting, Live, Terminal
  <2>3. InflightIsLive'
      <3> SUFFICES ASSUME NEW p \in Replicas, NEW k \in Keys, inflight'[p][k] # None
                   PROVE  LET owner == inflight'[p][k] IN
                          /\ pc'[owner] = "call" /\ future'[owner] = "pending"
                          /\ at[owner] = p /\ build_cache_key(owner) = k
          BY DEF InflightIsLive, build_cache_key
      <3>1. inflight[p][k] = inflight'[p][k] /\ inflight[p][k] # r /\ inflight[p][k] \in Requests
          BY Leaving DEF TypeOK
      <3> QED
          BY <3>1 DEF InflightIsLive, TypeOK
  <2>4. ResponseIsBought' /\ CacheIsBought' /\ FollowerShape' /\ CallerHoldsLock'
      BY <2>0 DEF ResponseIsBought, CacheIsBought, FollowerShape, CallerHoldsLock, TypeOK,
         RequestShape, Waiting, build_cache_key
  <2> QED
      BY <2>1, <2>2, <2>3, <2>4
<1>11. ASSUME NEW r \in Requests, CallFallsBack(r) PROVE IInv'
  <2> USE <1>11 DEF CallFallsBack, HasNextCandidate
  <2>0. build_cache_key(r) \in Keys /\ at[r] \in Replicas
      BY KeyIsKey
  <2>1. TypeOK'
      BY <2>0 DEF TypeOK, Live, Terminal
  <2>2. RequestShape'
      BY <2>0 DEF RequestShape, TypeOK, Waiting, Live, Terminal
  <2>3. InflightIsLive' /\ ResponseIsBought' /\ CacheIsBought' /\ FollowerShape' /\ CallerHoldsLock'
      BY <2>0 DEF InflightIsLive, ResponseIsBought, CacheIsBought, FollowerShape,
         CallerHoldsLock, TypeOK, RequestShape, Waiting, build_cache_key
  <2> QED
      BY <2>1, <2>2, <2>3
<1>12. ASSUME NEW r \in Requests, CallFails(r) PROVE IInv'
  <2> USE <1>12 DEF CallFails, Goto, SetException, AfterFailure
  <2>0. build_cache_key(r) \in Keys /\ at[r] \in Replicas
      BY KeyIsKey
  <2>1. TypeOK'
      BY Leaving DEF TypeOK, Live, Terminal
  <2>2. RequestShape'
      BY <2>0 DEF RequestShape, TypeOK, Waiting, Live, Terminal
  <2>3. InflightIsLive'
      <3> SUFFICES ASSUME NEW p \in Replicas, NEW k \in Keys, inflight'[p][k] # None
                   PROVE  LET owner == inflight'[p][k] IN
                          /\ pc'[owner] = "call" /\ future'[owner] = "pending"
                          /\ at[owner] = p /\ build_cache_key(owner) = k
          BY DEF InflightIsLive, build_cache_key
      <3>1. inflight[p][k] = inflight'[p][k] /\ inflight[p][k] # r /\ inflight[p][k] \in Requests
          BY Leaving DEF TypeOK
      <3> QED
          BY <3>1 DEF InflightIsLive, TypeOK
  <2>4. ResponseIsBought' /\ CacheIsBought' /\ FollowerShape' /\ CallerHoldsLock'
      BY <2>0 DEF ResponseIsBought, CacheIsBought, FollowerShape, CallerHoldsLock, TypeOK,
         RequestShape, Waiting, build_cache_key
  <2> QED
      BY <2>1, <2>2, <2>3, <2>4
<1>13. ASSUME NEW r \in Requests, ReleaseLock(r) PROVE IInv'
  <2> USE <1>13 DEF ReleaseLock, Goto, Released
  <2>0. build_cache_key(r) \in Keys /\ at[r] \in Replicas
      BY KeyIsKey
  <2>1. TypeOK'
      BY <2>0 DEF TypeOK, Live, Terminal
  <2>2. RequestShape'
      BY <2>0 DEF RequestShape, TypeOK, Waiting, Live, Terminal
  <2>3. CallerHoldsLock'
      <3> SUFFICES ASSUME "overrun" \notin Faults, NEW s \in Requests,
                          token'[s], pc'[s] \in {"lead", "call"}
                   PROVE  lock'[build_cache_key(s)] = s
          BY DEF CallerHoldsLock, build_cache_key
      <3>1. s # r /\ lock[build_cache_key(s)] = s /\ build_cache_key(s) \in Keys
          BY KeyIsKey DEF TypeOK, CallerHoldsLock
      <3> QED
          BY <2>0, <3>1 DEF TypeOK
  <2>4. InflightIsLive' /\ ResponseIsBought' /\ CacheIsBought' /\ FollowerShape'
      BY <2>0 DEF InflightIsLive, ResponseIsBought, CacheIsBought, FollowerShape, TypeOK,
         RequestShape, Waiting, build_cache_key
  <2> QED
      BY <2>1, <2>2, <2>3, <2>4
<1>14. ASSUME NEW r \in Requests, Settle(r) PROVE IInv'
  <2> USE <1>14 DEF Settle, Goto
  <2>0. build_cache_key(r) \in Keys /\ at[r] \in Replicas
      BY KeyIsKey
  <2>1. TypeOK'
      BY <2>0 DEF TypeOK, Live, Terminal
  <2>2. RequestShape'
      <3>1. CASE answer[r] = r
          BY <3>1 DEF RequestShape, TypeOK, Waiting
      <3>2. CASE answer[r] # r
        <4>1. answer[r] = None /\ future[r] = "exception" /\ UNCHANGED future
            BY <3>2 DEF RequestShape
        <4> QED
            BY <3>2, <4>1 DEF RequestShape, TypeOK, Waiting
      <3> QED
          BY <3>1, <3>2
  <2>3. InflightIsLive' /\ ResponseIsBought' /\ CacheIsBought' /\ FollowerShape' /\ CallerHoldsLock'
      BY <2>0 DEF InflightIsLive, ResponseIsBought, CacheIsBought, FollowerShape,
         CallerHoldsLock, TypeOK, RequestShape, Waiting, build_cache_key
  <2> QED
      BY <2>1, <2>2, <2>3
<1>15. ASSUME NEW r \in Requests, Store(r) PROVE IInv'
  <2> USE <1>15 DEF Store, Goto
  <2>0. build_cache_key(r) \in Keys /\ at[r] \in Replicas
      BY KeyIsKey
  <2>1. TypeOK'
    <3>1. pc' \in [Requests -> {"idle"} \cup Live \cup Terminal]
        BY DEF TypeOK, Live, Terminal
    <3>2. cache' \in [Keys -> Requests \cup {None, Unreadable}]
        BY <2>0 DEF TypeOK
    <3> QED
        BY <3>1, <3>2 DEF TypeOK
  <2>2. RequestShape'
      BY <2>0 DEF RequestShape, TypeOK, Waiting, Live, Terminal
  <2>3. CacheIsBought'
      <3>1. answer[r] = r /\ future[r] = "result"
          BY DEF RequestShape
      <3>2. \A k \in Keys :
                cache'[k] = cache[k] \/ (k = build_cache_key(r) /\ cache'[k] = r)
          BY <2>0 DEF TypeOK
      <3> QED
          BY <3>1, <3>2 DEF CacheIsBought, build_cache_key
  <2>4. InflightIsLive' /\ ResponseIsBought' /\ FollowerShape' /\ CallerHoldsLock'
      BY <2>0 DEF InflightIsLive, ResponseIsBought, FollowerShape, CallerHoldsLock, TypeOK,
         RequestShape, Waiting, build_cache_key
  <2> QED
      BY <2>1, <2>2, <2>3, <2>4
<1>16. ASSUME NEW r \in Requests, Bill(r) PROVE IInv'
  <2> USE <1>16 DEF Bill, Goto
  <2>0. build_cache_key(r) \in Keys /\ at[r] \in Replicas
      BY KeyIsKey
  <2>1. TypeOK'
      BY <2>0 DEF TypeOK, Live, Terminal
  <2>2. RequestShape'
      BY <2>0 DEF RequestShape, TypeOK, Waiting, Live, Terminal
  <2>3. InflightIsLive' /\ ResponseIsBought' /\ CacheIsBought' /\ FollowerShape' /\ CallerHoldsLock'
      BY <2>0 DEF InflightIsLive, ResponseIsBought, CacheIsBought, FollowerShape,
         CallerHoldsLock, TypeOK, RequestShape, Waiting, build_cache_key
  <2> QED
      BY <2>1, <2>2, <2>3
<1>17. ASSUME NEW p \in Replicas, Crash(p) PROVE IInv'
  <2> USE <1>17 DEF Crash
  <2>1. TypeOK'
      BY DEF TypeOK, Live, Terminal
  <2>2. RequestShape'
      BY DEF RequestShape, TypeOK, Waiting, Live, Terminal
  <2>3. InflightIsLive' /\ ResponseIsBought' /\ CacheIsBought' /\ FollowerShape' /\ CallerHoldsLock'
      BY DEF InflightIsLive, ResponseIsBought, CacheIsBought, FollowerShape, CallerHoldsLock,
         TypeOK, RequestShape, Waiting, build_cache_key, Live
  <2> QED
      BY <2>1, <2>2, <2>3
<1>18. ASSUME NEW k \in Keys, LockExpires(k) PROVE IInv'
  <2> USE <1>18 DEF LockExpires, Guarded
  <2>1. TypeOK'
      BY DEF TypeOK, Live, Terminal
  <2>2. RequestShape'
      BY DEF RequestShape, TypeOK, Waiting, Live, Terminal
  <2>3. InflightIsLive' /\ ResponseIsBought' /\ CacheIsBought' /\ FollowerShape' /\ CallerHoldsLock'
      BY DEF InflightIsLive, ResponseIsBought, CacheIsBought, FollowerShape, CallerHoldsLock,
         TypeOK, RequestShape, Waiting, build_cache_key
  <2> QED
      BY <2>1, <2>2, <2>3
<1>19. ASSUME NEW k \in Keys, EntryExpires(k) PROVE IInv'
  <2> USE <1>19 DEF EntryExpires
  <2>1. TypeOK'
      BY DEF TypeOK, Live, Terminal
  <2>2. RequestShape'
      BY DEF RequestShape, TypeOK, Waiting, Live, Terminal
  <2>3. InflightIsLive' /\ ResponseIsBought' /\ CacheIsBought' /\ FollowerShape' /\ CallerHoldsLock'
      BY DEF InflightIsLive, ResponseIsBought, CacheIsBought, FollowerShape, CallerHoldsLock,
         TypeOK, RequestShape, Waiting, build_cache_key
  <2> QED
      BY <2>1, <2>2, <2>3
<1>20. ASSUME NEW k \in Keys, EntryPoisoned(k) PROVE IInv'
  <2> USE <1>20 DEF EntryPoisoned
  <2>1. TypeOK'
      BY DEF TypeOK, Live, Terminal
  <2>2. RequestShape'
      BY DEF RequestShape, TypeOK, Waiting, Live, Terminal
  <2>3. InflightIsLive' /\ ResponseIsBought' /\ CacheIsBought' /\ FollowerShape' /\ CallerHoldsLock'
      BY DEF InflightIsLive, ResponseIsBought, CacheIsBought, FollowerShape, CallerHoldsLock,
         TypeOK, RequestShape, Waiting, build_cache_key
  <2> QED
      BY <2>1, <2>2, <2>3
<1>21. ASSUME UNCHANGED vars PROVE IInv'
    BY <1>21 DEF vars, TypeOK, RequestShape, InflightIsLive, ResponseIsBought,
       CacheIsBought, FollowerShape, CallerHoldsLock, build_cache_key
<1> QED
    BY <1>1, <1>2, <1>3, <1>4, <1>5, <1>6, <1>7, <1>8, <1>9, <1>10, <1>11, <1>12, <1>13,
       <1>14, <1>15, <1>16, <1>17, <1>18, <1>19, <1>20, <1>21 DEF Next, Step, Environment, Done

-----------------------------------------------------------------------------
\* The inductive invariant holds in every reachable state of the gateway.
THEOREM Invariance == Spec => []IInv
BY InitIInv, StepIInv, PTL DEF Spec

\* The types hold, and execute_with_fallback never runs past the candidates
\* that select_providers returned.
THEOREM TypeCorrect == Spec => []TypeOK
<1>1. IInv => TypeOK
    BY DEF IInv
<1> QED
    BY <1>1, Invariance, PTL

\* A request that finds an entry in _inflight can always join it.
THEOREM InflightAlwaysLive == Spec => []InflightIsLive
<1>1. IInv => InflightIsLive
    BY DEF IInv
<1> QED
    BY <1>1, Invariance, PTL

\* No follower of a shared future is ever abandoned, under any fault.
THEOREM FollowersNeverAbandoned == Spec => []FollowersAreWoken
<1>1. IInv => FollowersAreWoken
  <2> SUFFICES ASSUME IInv, NEW r \in Requests, pc[r] = "follow"
               PROVE  \/ future[following[r]] \in {"result", "exception"}
                      \/ pc[following[r]] \in {"call", "release", "released"}
      BY DEF FollowersAreWoken
  <2>1. /\ following[r] \in Requests
        /\ future[following[r]] # "none" /\ pc[following[r]] # "lost"
      BY DEF IInv, FollowerShape
  <2> QED
      BY <2>1 DEF IInv, TypeOK, RequestShape
<1> QED
    BY <1>1, Invariance, PTL

\* The Redis lock excludes: while its winner calls, the lock is the winner's.
THEOREM LockExcludes == Spec => []CallerHoldsLock
<1>1. IInv => CallerHoldsLock
    BY DEF IInv
<1> QED
    BY <1>1, Invariance, PTL

\* Without Redis errors, a lock names a request for that very key which won
\* it and has not yet released it.
LockIsOwned ==
    "redis" \notin Faults =>
        \A k \in Keys :
            lock[k] # None =>
                /\ build_cache_key(lock[k]) = k
                /\ token[lock[k]]
                /\ pc[lock[k]] \in {"lead", "call", "release", "lost"}

\* Only acquire_lock makes an owner, and only the owner's compare-and-delete
\* or the TTL ends it: whatever other step is taken, the owner keeps its
\* token and stays on the way to release_lock.
LEMMA StepLockIsOwned == IInv /\ LockIsOwned /\ [Next]_vars => LockIsOwned'
<1> SUFFICES ASSUME IInv, LockIsOwned, [Next]_vars, "redis" \notin Faults,
                    NEW k \in Keys, lock'[k] # None
             PROVE  /\ <<req'[lock'[k]].tenant, req'[lock'[k]].body>> = k
                    /\ token'[lock'[k]]
                    /\ pc'[lock'[k]] \in {"lead", "call", "release", "lost"}
    BY DEF LockIsOwned, build_cache_key
<1> USE ConstantsAssumption DEF fixed, redis, Goto
<1>1. CASE \E r \in Requests : AcquireLock(r)
  <2> PICK r \in Requests : AcquireLock(r)
      BY <1>1
  <2>1. build_cache_key(r) \in Keys /\ req' = req
      BY KeyIsKey DEF IInv, AcquireLock
  <2>2. CASE /\ lock' = [lock EXCEPT ![build_cache_key(r)] = r] /\ k = build_cache_key(r)
             /\ token' = [token EXCEPT ![r] = TRUE] /\ pc' = [pc EXCEPT ![r] = "lead"]
      BY <2>1, <2>2 DEF IInv, TypeOK, build_cache_key
  <2>3. CASE lock'[k] = lock[k]
    <3>1. lock[k] \in Requests /\ lock[k] # r
        BY <2>3 DEF AcquireLock, IInv, TypeOK, LockIsOwned
    <3>2. token'[lock[k]] = token[lock[k]] /\ pc'[lock[k]] = pc[lock[k]]
        BY <3>1 DEF AcquireLock, IInv, TypeOK
    <3> QED
        BY <2>1, <2>3, <3>1, <3>2 DEF LockIsOwned, build_cache_key
  <2>4. \/ lock' = lock
        \/ /\ lock' = [lock EXCEPT ![build_cache_key(r)] = r]
           /\ token' = [token EXCEPT ![r] = TRUE] /\ pc' = [pc EXCEPT ![r] = "lead"]
      BY DEF AcquireLock, RedisError
  <2> QED
      BY <2>1, <2>2, <2>3, <2>4 DEF IInv, TypeOK
<1>2. CASE \E r \in Requests : ReleaseLock(r)
  <2> PICK r \in Requests : ReleaseLock(r)
      BY <1>2
  <2>1. build_cache_key(r) \in Keys /\ req' = req
      BY KeyIsKey DEF IInv, ReleaseLock
  <2>2. lock' = Released(r)
      BY DEF ReleaseLock, RedisError
  <2>3. lock'[k] = lock[k] /\ lock[k] \in Requests /\ lock[k] # r
      BY <2>1, <2>2 DEF Released, IInv, TypeOK, LockIsOwned
  <2> QED
      BY <2>1, <2>3 DEF ReleaseLock, IInv, TypeOK, LockIsOwned, build_cache_key
<1>3. CASE \E p \in Replicas : Crash(p)
    BY <1>3 DEF Crash, IInv, TypeOK, LockIsOwned, build_cache_key
<1>4. CASE \E j \in Keys : LockExpires(j)
    BY <1>4 DEF LockExpires, IInv, TypeOK, LockIsOwned, build_cache_key
<1>5. CASE \E r \in Requests : Lead(r) \/ CallSucceeds(r) \/ CallFails(r)
  <2> PICK r \in Requests : Lead(r) \/ CallSucceeds(r) \/ CallFails(r)
      BY <1>5
  <2>1. UNCHANGED <<lock, req, token>>
      BY DEF Lead, CallSucceeds, CallFails
  <2>2. \/ pc' = [pc EXCEPT ![r] = "call"]
        \/ pc' = [pc EXCEPT ![r] = "release"]
        \/ ~token[r] /\ (pc' = [pc EXCEPT ![r] = "store"] \/ pc' = [pc EXCEPT ![r] = "failed"])
      BY DEF Lead, CallSucceeds, CallFails, AfterFailure
  <2> DEFINE owner == lock[k]
  <2>3. /\ owner \in Requests /\ token[owner] /\ pc[owner] \in {"lead", "call", "release", "lost"}
        /\ <<req[owner].tenant, req[owner].body>> = k
      BY <2>1 DEF IInv, TypeOK, LockIsOwned, build_cache_key
  <2>4. pc'[owner] \in {"lead", "call", "release", "lost"}
    <3> HIDE DEF owner
    <3> QED
        BY <2>2, <2>3 DEF IInv, TypeOK
  <2> QED
      BY <2>1, <2>3, <2>4
<1>6. CASE /\ UNCHANGED <<lock, req, token>>
           /\ \A r \in Requests :
                  pc[r] \in {"lead", "call", "release", "lost"} => pc'[r] = pc[r]
    BY <1>6 DEF IInv, TypeOK, LockIsOwned, build_cache_key
<1>7. \/ \E r \in Requests :
            \/ AcquireLock(r) \/ ReleaseLock(r)
            \/ Lead(r) \/ CallSucceeds(r) \/ CallFails(r)
      \/ \E p \in Replicas : Crash(p)
      \/ \E j \in Keys : LockExpires(j)
      \/ /\ UNCHANGED <<lock, req, token>>
         /\ \A r \in Requests :
                pc[r] \in {"lead", "call", "release", "lost"} => pc'[r] = pc[r]
  <2>1. ASSUME NEW s \in Requests, Arrive(s) \/ Step(s),
               ~(AcquireLock(s) \/ ReleaseLock(s) \/ Lead(s) \/ CallSucceeds(s) \/ CallFails(s))
        PROVE  /\ UNCHANGED <<lock, req, token>>
               /\ \A r \in Requests :
                      pc[r] \in {"lead", "call", "release", "lost"} => pc'[r] = pc[r]
    <3>1. UNCHANGED <<lock, req, token>>
        BY <2>1 DEF Step, Arrive, GetHit, GetMiss, DiscardEntry, CheckInflight, Follow,
           WaitForResult, CallFallsBack, Settle, Store, Bill
    <3>2. \/ pc' = pc
          \/ /\ pc[s] \notin {"lead", "call", "release", "lost"}
             /\ pc' = [pc EXCEPT ![s] = pc'[s]]
        BY <2>1 DEF Step, Arrive, GetHit, GetMiss, DiscardEntry, CheckInflight, Follow, ServeFree,
           WaitForResult, CallFallsBack, Settle, Store, Bill, IInv, TypeOK
    <3> QED
        BY <3>1, <3>2 DEF IInv, TypeOK
  <2>2. CASE Done \/ UNCHANGED vars
      BY <2>2 DEF Done, vars
  <2>3. CASE \E j \in Keys : EntryExpires(j) \/ EntryPoisoned(j)
      BY <2>3 DEF EntryExpires, EntryPoisoned
  <2> QED
      BY <2>1, <2>2, <2>3 DEF Next, Environment
<1> QED
    BY <1>1, <1>2, <1>3, <1>4, <1>5, <1>6, <1>7

\* Without Redis errors no path of handle_chat_completion leaks a lock: its
\* owner is on the way to release it, or died with its replica.
THEOREM NoLockLeaks == Spec => []LocksNotLeaked
<1>1. Init => LockIsOwned
    BY DEF Init, LockIsOwned
<1>2. LockIsOwned => LocksNotLeaked
    BY DEF LockIsOwned, LocksNotLeaked
<1> QED
    BY <1>1, <1>2, StepLockIsOwned, Invariance, PTL DEF Spec

\* No tenant ever gets a response bought for another tenant or another body.
THEOREM TenantsIsolated == Spec => []AnswersOwnRequest
<1>1. IInv => AnswersOwnRequest
    BY DEF IInv, ResponseIsBought, AnswersOwnRequest
<1> QED
    BY <1>1, Invariance, PTL

\* Whatever reached a client is billed unless the producer's replica died.
THEOREM ServedAlwaysBilled == Spec => []ServedIsBilled
<1>1. IInv => ServedIsBilled
  <2> SUFFICES ASSUME IInv, NEW r \in Requests, pc[r] = "served"
               PROVE  \/ usage[answer[r]] = "paid"
                      \/ pc[answer[r]] \in {"store", "bill", "lost"}
      BY DEF ServedIsBilled
  <2>1. answer[r] \in Requests
      BY DEF IInv, RequestShape
  <2>2. CASE answer[r] = r
      BY <2>2 DEF IInv, RequestShape
  <2>3. CASE answer[r] # r
      BY <2>1, <2>3, ConstantsAssumption DEF IInv, RequestShape, ResponseIsBought
  <2> QED
      BY <2>2, <2>3
<1> QED
    BY <1>1, Invariance, PTL

\* An entry leaves _inflight only when its owner's call ends: a leader that
\* was overtaken never removes the entry of the one that overtook it.
THEOREM EntriesLeaveWithOwner == Spec => OnlyOwnerLeaves
<1> DEFINE A == \A p \in Replicas, k \in Keys :
                    inflight[p][k] # None /\ inflight'[p][k] = None
                        => pc'[inflight[p][k]] # "call"
<1>1. IInv /\ [Next]_vars => A \/ UNCHANGED vars
  <2> SUFFICES ASSUME IInv, Next, NEW p \in Replicas, NEW k \in Keys,
                      inflight[p][k] # None, inflight'[p][k] = None
               PROVE  pc'[inflight[p][k]] # "call"
      OBVIOUS
  <2> DEFINE owner == inflight[p][k]
  <2>1. owner \in Requests /\ at[owner] = p /\ build_cache_key(owner) = k /\ owner # None
      BY DEF IInv, TypeOK, InflightIsLive
  <2>2. ASSUME NEW r \in Requests, Lead(r) PROVE FALSE
      BY <2>1, <2>2, KeyIsKey, ConstantsAssumption DEF Lead, IInv, TypeOK
  <2>3. ASSUME NEW r \in Requests, CallSucceeds(r) \/ CallFails(r) PROVE pc'[owner] # "call"
    <3>1. inflight' = LeaveInflight(r)
        BY <2>3 DEF CallSucceeds, CallFails
    <3>2. at[r] \in Replicas /\ build_cache_key(r) \in Keys
        BY KeyIsKey DEF IInv, TypeOK
    <3>3. owner = r
        BY <2>1, <3>1, <3>2 DEF LeaveInflight, IInv, TypeOK
    <3> QED
        BY <2>3, <3>3 DEF CallSucceeds, CallFails, AfterFailure, Goto, IInv, TypeOK
  <2>4. ASSUME NEW q \in Replicas, Crash(q) PROVE pc'[owner] # "call"
    <3>1. q = p
        BY <2>4 DEF Crash, IInv, TypeOK
    <3> QED
        BY <2>1, <2>4, <3>1 DEF Crash, Live
  <2>5. \/ UNCHANGED inflight
        \/ \E r \in Requests : Lead(r) \/ CallSucceeds(r) \/ CallFails(r)
        \/ \E q \in Replicas : Crash(q)
      BY DEF Next, Step, Environment, Done, vars, Arrive, GetHit, GetMiss, DiscardEntry,
             CheckInflight, Follow, AcquireLock, WaitForResult, CallFallsBack,
             ReleaseLock, Settle, Store, Bill, LockExpires, EntryExpires, EntryPoisoned
  <2> QED
      BY <2>2, <2>3, <2>4, <2>5
<1> QED
    BY <1>1, Invariance, PTL DEF Spec, OnlyOwnerLeaves

-----------------------------------------------------------------------------
(* Refinement of ChatService.                                              *)

\* The abstract initial state.
LEMMA ServiceInit == Init => Service!Init
BY ConstantsAssumption DEF Init, Service!Init, Status, Live

\* A step that moves one request between two live labels, and no response or
\* usage record, is invisible to the clients.
LEMMA InvisibleMove ==
    ASSUME TypeOK, NEW r \in Requests, NEW label \in Live, pc[r] \in Live,
           pc' = [pc EXCEPT ![r] = label], UNCHANGED <<req, answer, usage>>
    PROVE  UNCHANGED Service!service
<1>1. \A s \in Requests : /\ Status(pc'[s]) = Status(pc[s])
                          /\ pc'[s] = "served" <=> pc[s] = "served"
    BY DEF TypeOK, Status, Live
<1> QED
    BY <1>1 DEF Service!service

\* A request that has bought nothing and fails is an abstract failure.
LEMMA VisibleFailure ==
    ASSUME TypeOK, NEW r \in Requests, NEW label \in {"failed", "notfound"}, pc[r] \in Live,
           answer[r] # r, pc' = [pc EXCEPT ![r] = label], UNCHANGED <<req, answer, usage>>
    PROVE  Service!Fail(r)
<1>1. \A s \in Requests :
          /\ Status(pc'[s]) = IF s = r THEN "failed" ELSE Status(pc[s])
          /\ pc'[s] = "served" <=> pc[s] = "served"
    BY DEF TypeOK, Status, Live
<1>2. Status(pc[r]) = "pending"
    BY DEF Status
<1> QED
    BY <1>1, <1>2 DEF Service!Fail

\* A request served free of charge shares a response bought by another.
LEMMA VisibleShare ==
    ASSUME TypeOK, NEW r \in Requests, NEW source \in Requests, pc[r] \in Live,
           answer[r] = None, answer[source] = source, req[source] = req[r],
           usage[r] # "paid", ServeFree(r, source), UNCHANGED req
    PROVE  Service!Share(r, source)
<1>1. \A s \in Requests :
          /\ Status(pc'[s]) = IF s = r THEN "served" ELSE Status(pc[s])
          /\ pc'[s] = "served" <=> s = r \/ pc[s] = "served"
          /\ answer'[s] = IF s = r THEN source ELSE answer[s]
          /\ usage'[s] = "paid" <=> usage[s] = "paid"
    BY DEF TypeOK, Status, Live, ServeFree, Goto
<1>2. Status(pc[r]) = "pending" /\ r # source
    BY ConstantsAssumption DEF Status
<1>3. {s \in Requests : answer'[s] = s} = {s \in Requests : answer[s] = s}
    BY <1>1, <1>2, ConstantsAssumption
<1>4. {s \in Requests : usage'[s] = "paid"} = {s \in Requests : usage[s] = "paid"}
    BY <1>1
<1> QED
    BY <1>1, <1>2, <1>3, <1>4, ConstantsAssumption DEF Service!Share

\* Every step of the gateway is a step of the service, or invisible.
LEMMA ServiceStep == IInv /\ [Next]_vars => [Service!Next]_(Service!service)
<1> SUFFICES ASSUME IInv, [Next]_vars
             PROVE  Service!Next \/ UNCHANGED Service!service
    OBVIOUS
<1> USE ConstantsAssumption DEF IInv, fixed, redis, Goto
<1>1. ASSUME NEW r \in Requests, Arrive(r) PROVE Service!Accept(r)
  <2>1. \A s \in Requests :
            /\ Status(pc'[s]) = IF s = r THEN "pending" ELSE Status(pc[s])
            /\ pc'[s] = "served" <=> pc[s] = "served"
      BY <1>1 DEF Arrive, TypeOK, Status, Live
  <2>2. Status(pc[r]) = "idle"
      BY <1>1 DEF Arrive, Status, Live
  <2> QED
      BY <1>1, <2>1, <2>2 DEF Arrive, Service!Accept
<1>2. ASSUME NEW r \in Requests, GetHit(r) \/ WaitForResult(r), pc'[r] = "served"
      PROVE  \E source \in Requests : Service!Share(r, source)
  <2> DEFINE source == cache[build_cache_key(r)]
  <2>1. source \in Requests /\ ServeFree(r, source) /\ pc[r] \in {"get", "wait"}
      BY <1>2 DEF GetHit, WaitForResult, TypeOK
  <2>2. answer[source] = source /\ req[source] = req[r]
      BY <2>1, KeyIsKey, SameKeySameRequest DEF CacheIsBought
  <2>3. answer[r] = None /\ usage[r] # "paid"
      BY <2>1 DEF RequestShape, Waiting
  <2> QED
      BY <1>2, <2>1, <2>2, <2>3, VisibleShare DEF GetHit, WaitForResult, Live
<1>3. ASSUME NEW r \in Requests, Follow(r)
      PROVE  (\E source \in Requests : Service!Share(r, source)) \/ Service!Fail(r)
  <2>1. answer[r] = None /\ usage[r] # "paid" /\ following[r] \in Requests
      BY <1>3 DEF Follow, RequestShape, Waiting, FollowerShape
  <2>2. CASE future[following[r]] = "result" /\ ServeFree(r, answer[following[r]])
    <3>1. answer[following[r]] = following[r] /\ req[following[r]] = req[r]
        BY <1>3, <2>1, <2>2 DEF Follow, RequestShape, FollowerShape
    <3> QED
        BY <1>3, <2>1, <2>2, <3>1, VisibleShare DEF Follow, Live
  <2>3. CASE pc' = [pc EXCEPT ![r] = "failed"] /\ UNCHANGED <<answer, usage>>
      BY <1>3, <2>1, <2>3, VisibleFailure DEF Follow, Live
  <2> QED
      BY <1>3, <2>2, <2>3 DEF Follow
<1>4. ASSUME NEW r \in Requests, CheckInflight(r), pc'[r] = "notfound" PROVE Service!Fail(r)
  <2>1. answer[r] # r /\ pc' = [pc EXCEPT ![r] = "notfound"]
      BY <1>4 DEF CheckInflight, RequestShape, Waiting, TypeOK
  <2> QED
      BY <1>4, <2>1, VisibleFailure DEF CheckInflight, Live
<1>5. ASSUME NEW r \in Requests, CallSucceeds(r) PROVE Service!Buy(r)
  <2>1. answer[r] = None /\ Status(pc[r]) = "pending"
      BY <1>5 DEF CallSucceeds, RequestShape, Status, Live
  <2>2. \A s \in Requests : /\ Status(pc'[s]) = Status(pc[s])
                            /\ pc'[s] = "served" <=> pc[s] = "served"
                            /\ pc[s] = "served" => answer'[s] = answer[s]
                            /\ answer'[s] = s <=> s = r \/ answer[s] = s
      BY <1>5 DEF CallSucceeds, TypeOK, Status, Live
  <2>3. {s \in Requests : answer'[s] = s} = {s \in Requests : answer[s] = s} \cup {r}
      BY <2>2
  <2> QED
      BY <1>5, <2>1, <2>2, <2>3 DEF CallSucceeds, Service!Buy
<1>6. ASSUME NEW r \in Requests, CallFails(r) \/ Settle(r), pc'[r] = "failed"
      PROVE  Service!Fail(r)
  <2>1. answer[r] # r /\ pc' = [pc EXCEPT ![r] = "failed"]
      BY <1>6 DEF CallFails, Settle, RequestShape, TypeOK
  <2> QED
      BY <1>6, <2>1, VisibleFailure DEF CallFails, Settle, Live
<1>7. ASSUME NEW r \in Requests, Bill(r) PROVE Service!Deliver(r)
  <2>1. answer[r] = r /\ Status(pc[r]) = "pending"
      BY <1>7 DEF Bill, RequestShape, Status, Live
  <2>2. \A s \in Requests :
            /\ Status(pc'[s]) = IF s = r THEN "served" ELSE Status(pc[s])
            /\ pc'[s] = "served" <=> s = r \/ pc[s] = "served"
            /\ usage'[s] = "paid" <=> s = r \/ usage[s] = "paid"
      BY <1>7 DEF Bill, TypeOK, Status, Live
  <2>3. {s \in Requests : usage'[s] = "paid"} = {s \in Requests : usage[s] = "paid"} \cup {r}
      BY <2>2
  <2>4. \A s \in Requests :
            (IF pc'[s] = "served" THEN answer'[s] ELSE None)
                = IF s = r THEN r ELSE IF pc[s] = "served" THEN answer[s] ELSE None
      BY <1>7, <2>1, <2>2 DEF Bill
  <2>5. UNCHANGED <<req, answer>> /\ r \in {s \in Requests : answer[s] = s}
      BY <1>7, <2>1 DEF Bill
  <2> HIDE <1>7
  <2> QED
      BY <2>1, <2>2, <2>3, <2>4, <2>5 DEF Service!Deliver
<1>8. ASSUME NEW p \in Replicas, Crash(p) PROVE \E group \in SUBSET Requests : Service!Lose(group)
  <2> DEFINE group == {r \in Requests : at[r] = p /\ pc[r] \in Live}
  <2>1. \A s \in Requests :
            /\ Status(pc'[s]) = IF s \in group THEN "lost" ELSE Status(pc[s])
            /\ s \in group => Status(pc[s]) = "pending"
            /\ pc'[s] = "served" <=> pc[s] = "served"
      BY <1>8 DEF Crash, Status, Live
  <2>2. Service!Lose(group)
      BY <1>8, <2>1 DEF Crash, Service!Lose
  <2> QED
      BY <2>2
<1>9. ASSUME NEW r \in Requests, Step(r), pc'[r] \in Live, ~CallSucceeds(r)
      PROVE  UNCHANGED Service!service
  <2>1. /\ pc[r] \in Live
        /\ pc' = [pc EXCEPT ![r] = pc'[r]]
        /\ UNCHANGED <<req, answer, usage>>
      BY <1>9 DEF Step, GetHit, GetMiss, DiscardEntry, CheckInflight, Follow, ServeFree,
         AcquireLock, WaitForResult, Lead, CallFallsBack, CallFails, ReleaseLock, Settle,
         Store, Bill, Live, TypeOK
  <2> QED
      BY <1>9, <2>1, InvisibleMove
<1>10. ASSUME NEW r \in Requests, Step(r), pc'[r] \notin Live
       PROVE  \/ (GetHit(r) \/ WaitForResult(r)) /\ pc'[r] = "served"
              \/ Follow(r) \/ Bill(r)
              \/ CheckInflight(r) /\ pc'[r] = "notfound"
              \/ (CallFails(r) \/ Settle(r)) /\ pc'[r] = "failed"
    BY <1>10 DEF Step, GetHit, GetMiss, DiscardEntry, CheckInflight, ServeFree,
       AcquireLock, WaitForResult, Lead, CallSucceeds, CallFallsBack, CallFails,
       AfterFailure, ReleaseLock, Settle, Store, Live, TypeOK
<1>11. ASSUME NEW k \in Keys, LockExpires(k) \/ EntryExpires(k) \/ EntryPoisoned(k)
       PROVE  UNCHANGED Service!service
    BY <1>11 DEF LockExpires, EntryExpires, EntryPoisoned, Service!service
<1>12. CASE UNCHANGED vars
    BY <1>12 DEF vars, Service!service
<1> QED
    BY <1>1, <1>2, <1>3, <1>4, <1>5, <1>6, <1>7, <1>8, <1>9, <1>10, <1>11, <1>12
       DEF Next, Environment, Done, Service!Next

\* handle_chat_completion implements ChatService: for every number of
\* requests and replicas and under every fault, each client sees one answer,
\* bought for its own tenant and body, and no purchase turns into a failure.
THEOREM GatewayImplementsService == Spec => ImplementsService
BY ServiceInit, ServiceStep, Invariance, PTL
   DEF Spec, ImplementsService, Service!Spec
=============================================================================
