------------------------- MODULE RateLimiter_proofs -------------------------
(***************************************************************************)
(* Proofs about RateLimiter, for any set of calls, limit, window and clock *)
(* bound, with and without Redis errors, failing open or closed.           *)
(***************************************************************************)
EXTENDS RateLimiter, FiniteSetTheorems, TLAPS

\* Only calls that reached Redis have a verdict, and the horizon covers them;
\* it is at least a window behind the clock.
SentShape ==
    /\ IsFiniteSet(sent)
    /\ horizon <= clock - Window
    /\ \A c \in Calls : pc[c] \in {"idle", "pipeline"} <=> verdict[c] = "none"
    /\ \A c \in Calls : pc[c] = "rollback" => verdict[c] = "rejected"
    /\ \A c \in Calls : verdict[c] \in {"accepted", "rejected"} => c \in sent
    /\ \A c \in sent :
           /\ verdict[c] # "none"
           /\ stamp[c] - Window <= horizon
           /\ stamp[c] + Window <= expireAt

\* The inductive invariant.
IInv == TypeOK /\ SentShape /\ WithinLimit /\ SlidingWindow /\ RejectionHasCause /\ RollbackComplete

\* Any set of members is finite, and no larger than one that contains it.
LEMMA Smaller ==
    ASSUME NEW S, NEW T, IsFiniteSet(T), S \subseteq T
    PROVE  /\ IsFiniteSet(S)
           /\ Cardinality(S) \in Nat /\ Cardinality(T) \in Nat
           /\ Cardinality(S) <= Cardinality(T)
BY FS_Subset, FS_CardinalityType

\* A limiter that has seen no call satisfies the invariant.
LEMMA InitIInv == Init => IInv
<1> SUFFICES ASSUME Init PROVE IInv
    OBVIOUS
<1>1. Young = {} /\ Accepted = {}
    BY DEF Init, Young, Accepted
<1>2. Cardinality({}) = 0 /\ IsFiniteSet({})
    BY FS_EmptySet
<1>3. WithinLimit
    BY <1>1, <1>2, RateAssumption DEF WithinLimit
<1>4. SlidingWindow
    BY <1>1 DEF SlidingWindow
<1>5. TypeOK
    BY RateAssumption DEF Init, TypeOK
<1> QED
    BY <1>2, <1>3, <1>4, <1>5 DEF Init, IInv, SentShape, RejectionHasCause, RollbackComplete

\* The accepted calls of the seconds that a delay leaves of the window of c.
Shortened(c, delay) ==
    {d \in Accepted : stamp[c] - (Window - delay) < stamp[d] /\ stamp[d] <= stamp[c]}

\* The windows only change with the accepted calls, their stamps and the
\* instants at which they ran.
LEMMA WindowsKept ==
    ASSUME SlidingWindow, Accepted' = Accepted,
           \A d \in Accepted : stamp'[d] = stamp[d] /\ ran'[d] = ran[d]
    PROVE  SlidingWindow'
<1> SUFFICES ASSUME NEW c \in Accepted, NEW delay \in 0..Window,
                    \A d \in Shortened(c, delay)' : ran'[d] - stamp'[d] <= delay
             PROVE  Cardinality(Shortened(c, delay)') <= Limit
    BY DEF SlidingWindow, Shortened
<1>1. Shortened(c, delay)' = Shortened(c, delay)
    BY DEF Shortened
<1>2. \A d \in Shortened(c, delay) : ran[d] - stamp[d] <= delay
    BY <1>1 DEF Shortened
<1> QED
    BY <1>1, <1>2 DEF SlidingWindow, Shortened

\* Nothing about accepted and rejected calls changes when no verdict does and
\* the set of Redis only loses members that need not be remembered.
LEMMA NoVerdict ==
    ASSUME IInv,
           UNCHANGED <<verdict, sent, ran>>,
           \A c \in sent : stamp'[c] = stamp[c],
           horizon' \in Int, horizon <= horizon', \A c \in Young : stamp[c] > horizon' => c \in zset'
    PROVE  WithinLimit' /\ SlidingWindow' /\ RejectionHasCause'
<1>1. Accepted' = Accepted /\ Accepted \subseteq sent
    BY DEF Accepted, IInv, SentShape
<1>2. Young' \subseteq Young /\ Young \subseteq sent
    BY <1>1 DEF Young, IInv, TypeOK
<1>3. WithinLimit'
  <2>1. Young' \subseteq zset'
      BY <1>1, <1>2 DEF Young
  <2>2. Cardinality(Young') <= Limit
    <3>1. IsFiniteSet(Young) /\ Cardinality(Young) <= Limit
        BY <1>2, Smaller DEF IInv, SentShape, WithinLimit
    <3> QED
        BY <1>2, <3>1, Smaller, RateAssumption
  <2> QED
      BY <2>1, <2>2 DEF WithinLimit
<1>4. SlidingWindow'
    BY <1>1, WindowsKept DEF IInv
<1>5. RejectionHasCause'
  <2> SUFFICES ASSUME NEW c \in Calls, verdict[c] = "rejected"
               PROVE  Cardinality({d \in sent \ {c} : stamp'[d] > stamp'[c] - Window}) >= Limit
      BY DEF RejectionHasCause
  <2>1. {d \in sent \ {c} : stamp'[d] > stamp'[c] - Window}
          = {d \in sent \ {c} : stamp[d] > stamp[c] - Window}
      BY DEF IInv, SentShape
  <2> QED
      BY <2>1 DEF IInv, RejectionHasCause
<1> QED
    BY <1>3, <1>4, <1>5

\* What the pipeline of a call leaves in Redis, whatever its verdict.
LEMMA Executed ==
    ASSUME IInv, NEW c \in Calls, pc[c] = "pipeline", Execute(c), UNCHANGED stamp
    PROVE  /\ c \notin sent /\ sent' = sent \cup {c} /\ IsFiniteSet(sent')
           /\ zset' \subseteq sent' /\ IsFiniteSet(zset')
           /\ \A m \in zset' : m = c \/ (m \in zset /\ stamp[m] > stamp[c] - Window)
           /\ horizon' \in Int /\ horizon <= horizon' /\ stamp[c] - Window <= horizon'
           /\ \A m \in Young : stamp[m] > horizon' => m \in zset'
           /\ horizon' <= clock - Window
           /\ ran' \in [Calls -> Nat] /\ ran'[c] = clock /\ \A d \in sent : ran'[d] = ran[d]
           /\ expireAt' \in Nat /\ \A d \in sent' : stamp[d] + Window <= expireAt'
           /\ \A d \in sent' : stamp[d] - Window <= horizon'
<1> USE RateAssumption DEF IInv, TypeOK
<1>1. c \notin sent
    BY DEF SentShape
<1>2. IsFiniteSet(sent')
    BY FS_AddElement DEF Execute, SentShape
<1>3. zset' \subseteq sent'
    BY DEF Execute, Pruned
<1>4. IsFiniteSet(zset')
    BY <1>2, <1>3, Smaller
<1>5. horizon' \in Int /\ horizon <= horizon' /\ stamp[c] - Window <= horizon'
    BY DEF Execute, Larger
<1>6. ASSUME NEW m \in Young, stamp[m] > horizon' PROVE m \in zset'
  <2>1. m \in zset /\ stamp[m] \in Nat
      BY DEF WithinLimit
  <2> QED
      BY <1>5, <1>6, <2>1 DEF Execute, Pruned
<1>7. /\ horizon' <= clock - Window
      /\ ran' \in [Calls -> Nat] /\ ran'[c] = clock /\ \A d \in sent : ran'[d] = ran[d]
    BY <1>1 DEF Execute, Larger, SentShape
<1>8. expireAt' \in Nat /\ \A d \in sent' : stamp[d] + Window <= expireAt'
    BY DEF Execute
<1>9. \A d \in sent' : stamp[d] - Window <= horizon'
    BY <1>5 DEF Execute, SentShape
<1> QED
    BY <1>1, <1>2, <1>3, <1>4, <1>5, <1>6, <1>7, <1>8, <1>9 DEF Execute, Pruned

\* A pipeline that accepts nobody disturbs no window.
LEMMA NotAccepted ==
    ASSUME IInv, NEW c \in Calls, pc[c] = "pipeline", Execute(c), UNCHANGED stamp,
           NEW v \in {"rejected", "open", "closed"},
           verdict' = [verdict EXCEPT ![c] = v]
    PROVE  WithinLimit' /\ SlidingWindow'
<1>1. Accepted' = Accepted /\ Accepted \subseteq sent
    BY DEF IInv, TypeOK, SentShape, Accepted
<1>2. Young' \subseteq Young /\ Young \subseteq sent
    BY <1>1, Executed DEF Young, IInv, TypeOK
<1>3. WithinLimit'
  <2>1. Young' \subseteq zset'
      BY <1>1, <1>2, Executed DEF Young
  <2>2. Cardinality(Young') <= Limit
    <3>1. IsFiniteSet(Young) /\ Cardinality(Young) <= Limit
        BY <1>2, Smaller DEF IInv, SentShape, WithinLimit
    <3> QED
        BY <1>2, <3>1, Smaller, RateAssumption
  <2> QED
      BY <2>1, <2>2 DEF WithinLimit
<1>4. SlidingWindow'
    BY <1>1, Executed, WindowsKept DEF IInv
<1> QED
    BY <1>3, <1>4

\* A pipeline that accepts its call keeps every window within the limit.
LEMMA NewlyAccepted ==
    ASSUME IInv, NEW c \in Calls, pc[c] = "pipeline", Execute(c), UNCHANGED stamp,
           Allowed(Cardinality(zset')), verdict' = [verdict EXCEPT ![c] = "accepted"]
    PROVE  WithinLimit' /\ SlidingWindow'
<1> USE RateAssumption
<1>1. Accepted' = Accepted \cup {c} /\ Accepted \subseteq sent
    BY DEF IInv, TypeOK, SentShape, Accepted
<1>2. Young' \subseteq zset'
  <2> SUFFICES ASSUME NEW m \in Young' PROVE m \in zset'
      OBVIOUS
  <2>1. CASE m = c
      BY <2>1 DEF Execute
  <2>2. CASE m # c
    <3>1. m \in Accepted /\ stamp[m] > horizon' /\ stamp[m] \in Nat
        BY <1>1, <2>2 DEF Young, IInv, TypeOK
    <3>2. m \in Young
        BY <3>1, Executed DEF Young, IInv, TypeOK
    <3> QED
        BY <3>1, <3>2, Executed
  <2> QED
      BY <2>1, <2>2
<1>3. Cardinality(Young') <= Limit
  <2>1. Cardinality(zset') <= Limit
      BY DEF Allowed
  <2> QED
      BY <1>2, <2>1, Executed, Smaller
<1>4. ASSUME NEW e \in Accepted', NEW delay \in 0..Window,
             \A d \in Shortened(e, delay)' : ran'[d] - stamp[d] <= delay
      PROVE  Cardinality(Shortened(e, delay)') <= Limit
  <2>1. stamp \in [Calls -> Nat] /\ Accepted' \subseteq Calls /\ clock \in Nat
      BY <1>1 DEF IInv, TypeOK, Accepted
  <2>2. CASE c \in Shortened(e, delay)'
    <3>1. clock - stamp[c] <= delay /\ stamp[c] <= stamp[e]
        BY <1>4, <2>2, Executed DEF Shortened
    <3>2. horizon' \in Int /\ horizon' <= clock - Window
        BY Executed
    <3>3. horizon' <= stamp[e] - (Window - delay)
        BY <2>1, <3>1, <3>2
    <3>4. Shortened(e, delay)' \subseteq Young'
        BY <2>1, <3>2, <3>3 DEF Shortened, Young
    <3>5. IsFiniteSet(Young')
        BY <1>2, Executed, Smaller
    <3> QED
        BY <1>3, <3>4, <3>5, Smaller
  <2>3. CASE c \notin Shortened(e, delay)' /\ e = c
    <3>1. delay = Window
        BY <2>1, <2>3 DEF Shortened
    <3>2. Shortened(e, delay)' = {}
        BY <2>1, <3>1 DEF Shortened
    <3> QED
        BY <3>2, FS_EmptySet
  <2>4. CASE c \notin Shortened(e, delay)' /\ e # c
    <3>1. e \in Accepted
        BY <1>1, <2>4
    <3>2. Shortened(e, delay)' = Shortened(e, delay)
        BY <1>1, <2>4 DEF Shortened
    <3>3. \A d \in Shortened(e, delay) : ran[d] - stamp[d] <= delay
        BY <1>1, <1>4, <3>2, Executed DEF Shortened
    <3> QED
        BY <3>1, <3>2, <3>3 DEF IInv, SlidingWindow, Shortened
  <2> QED
      BY <2>2, <2>3, <2>4
<1>5. SlidingWindow'
    BY <1>4 DEF SlidingWindow, Shortened
<1> QED
    BY <1>2, <1>3, <1>5 DEF WithinLimit

\* A rejection stays justified, and a new one has Limit calls beside it.
LEMMA StillJustified ==
    ASSUME IInv, NEW c \in Calls, pc[c] = "pipeline", Execute(c), UNCHANGED stamp,
           NEW v \in {"accepted", "rejected", "open", "closed"},
           verdict' = [verdict EXCEPT ![c] = v],
           v = "rejected" => ~Allowed(Cardinality(zset'))
    PROVE  RejectionHasCause'
<1> USE RateAssumption
<1> SUFFICES ASSUME NEW e \in Calls, verdict'[e] = "rejected"
             PROVE  Cardinality({d \in sent' \ {e} : stamp[d] > stamp[e] - Window}) >= Limit
    BY DEF RejectionHasCause
<1> DEFINE Beside == {d \in sent' \ {e} : stamp[d] > stamp[e] - Window}
<1>1. IsFiniteSet(Beside)
    BY Executed, Smaller
<1>2. CASE e = c
  <2>1. zset' \ {c} \subseteq Beside
      BY <1>2, Executed
  <2>2. Cardinality(zset' \ {c}) = Cardinality(zset') - 1
    <3>1. PICK S : S = zset'
        OBVIOUS
    <3>2. IsFiniteSet(S) /\ c \in S
        BY <3>1, Executed DEF Execute
    <3>3. Cardinality(S \ {c}) = Cardinality(S) - 1
        BY <3>2, FS_RemoveElement
    <3> QED
        BY <3>1, <3>3, Zenon
  <2>3. Cardinality(zset') > Limit /\ Cardinality(zset') \in Nat
      BY <1>2, Executed, FS_CardinalityType DEF Allowed, IInv, TypeOK
  <2>4. Cardinality(Beside) >= Limit
    <3> HIDE DEF Beside
    <3> QED
        BY <1>1, <2>1, <2>2, <2>3, Smaller
  <2> QED
      BY <2>4
<1>3. CASE e # c
  <2>1. verdict[e] = "rejected"
      BY <1>3 DEF IInv, TypeOK
  <2>2. Cardinality({d \in sent \ {e} : stamp[d] > stamp[e] - Window}) >= Limit
      BY <2>1 DEF IInv, RejectionHasCause
  <2>3. {d \in sent \ {e} : stamp[d] > stamp[e] - Window} \subseteq Beside
      BY Executed
  <2>4. Cardinality(Beside) >= Limit
    <3> HIDE DEF Beside
    <3> QED
        BY <1>1, <2>2, <2>3, Smaller
  <2> QED
      BY <2>4
<1> QED
    BY <1>2, <1>3

\* Every step preserves the invariant.
LEMMA StepIInv == IInv /\ [Next]_vars => IInv'
<1> SUFFICES ASSUME IInv, [Next]_vars PROVE IInv'
    OBVIOUS
<1> USE RateAssumption DEF redis
<1>1. CASE Tick
  <2>1. TypeOK' /\ SentShape' /\ RollbackComplete'
      BY <1>1 DEF Tick, Larger, IInv, TypeOK, SentShape, RollbackComplete
  <2>2. horizon' \in Int /\ horizon <= horizon' /\ \A c \in Young : stamp[c] > horizon' => c \in zset'
    <3>1. horizon' \in Int /\ horizon <= horizon'
        BY <1>1 DEF Tick, Larger, IInv, TypeOK
    <3>2. ASSUME NEW c \in Young, stamp[c] > horizon' PROVE c \in zset'
      <4>1. c \in zset /\ c \in sent /\ stamp[c] \in Nat /\ stamp[c] + Window <= expireAt
          BY DEF IInv, TypeOK, WithinLimit, SentShape
      <4> QED
          BY <1>1, <3>2, <4>1 DEF Tick, Larger, IInv, TypeOK
    <3> QED
        BY <3>1, <3>2
  <2> QED
      BY <1>1, <2>1, <2>2, NoVerdict DEF Tick, IInv
<1>2. ASSUME NEW c \in Calls, ReadClock(c) PROVE IInv'
  <2>1. TypeOK' /\ SentShape' /\ RollbackComplete'
      BY <1>2 DEF ReadClock, Now, IInv, TypeOK, SentShape, RollbackComplete
  <2>2. \A d \in sent : stamp'[d] = stamp[d]
      BY <1>2 DEF ReadClock, Now, IInv, TypeOK, SentShape
  <2>3. horizon' \in Int /\ horizon <= horizon' /\ \A d \in Young : stamp[d] > horizon' => d \in zset'
      BY <1>2 DEF ReadClock, Now, IInv, TypeOK, WithinLimit
  <2> QED
      BY <1>2, <2>1, <2>2, <2>3, NoVerdict DEF ReadClock, Now, IInv
<1>3. ASSUME NEW c \in Calls, Pipeline(c) PROVE IInv'
  <2>1. TypeOK'
      BY <1>3, Executed DEF Pipeline, IInv, TypeOK
  <2>2. SentShape'
      BY <1>3, Executed DEF Pipeline, IInv, TypeOK, SentShape
  <2>3. RollbackComplete'
      BY <1>3, Executed DEF Pipeline, IInv, TypeOK, RollbackComplete
  <2>4. WithinLimit' /\ SlidingWindow'
      BY <1>3, NewlyAccepted, NotAccepted DEF Pipeline
  <2>5. RejectionHasCause'
      BY <1>3, StillJustified DEF Pipeline
  <2> QED
      BY <2>1, <2>2, <2>3, <2>4, <2>5 DEF IInv
<1>4. ASSUME NEW c \in Calls, PipelineFails(c), Execute(c) PROVE IInv'
  <2>1. TypeOK'
      BY <1>4, Executed DEF PipelineFails, OnError, IInv, TypeOK
  <2>2. SentShape' /\ RollbackComplete'
      BY <1>4, Executed DEF PipelineFails, OnError, IInv, TypeOK, SentShape, RollbackComplete
  <2>3. WithinLimit' /\ SlidingWindow' /\ RejectionHasCause'
      BY <1>4, NotAccepted, StillJustified DEF PipelineFails, OnError
  <2> QED
      BY <2>1, <2>2, <2>3 DEF IInv
<1>5. ASSUME NEW c \in Calls, PipelineFails(c), UNCHANGED redis
      PROVE  IInv'
  <2>1. TypeOK' /\ SentShape' /\ RollbackComplete'
      BY <1>5 DEF PipelineFails, OnError, IInv, TypeOK, SentShape, RollbackComplete
  <2>2. Accepted' = Accepted /\ Young' = Young
      BY <1>5 DEF PipelineFails, OnError, IInv, TypeOK, SentShape, Accepted, Young
  <2>3. WithinLimit' /\ SlidingWindow'
      BY <1>5, <2>2 DEF PipelineFails, IInv, WithinLimit, SlidingWindow
  <2>4. RejectionHasCause'
      BY <1>5 DEF PipelineFails, OnError, IInv, TypeOK, RejectionHasCause
  <2> QED
      BY <2>1, <2>3, <2>4 DEF IInv
<1>6. ASSUME NEW c \in Calls, Rollback(c) PROVE IInv'
  <2>1. TypeOK' /\ SentShape' /\ RollbackComplete'
      BY <1>6 DEF Rollback, WithoutMember, IInv, TypeOK, SentShape, RollbackComplete
  <2>2. \A d \in Young : stamp[d] > horizon' => d \in zset'
      BY <1>6 DEF Rollback, WithoutMember, IInv, TypeOK, SentShape, WithinLimit, Young, Accepted
  <2>3. horizon' \in Int /\ horizon <= horizon'
      BY <1>6 DEF Rollback, IInv, TypeOK
  <2> QED
      BY <1>6, <2>1, <2>2, <2>3, NoVerdict DEF Rollback, IInv
<1>7. CASE UNCHANGED vars
    BY <1>7 DEF vars, IInv, TypeOK, SentShape, WithinLimit, SlidingWindow, RejectionHasCause,
       RollbackComplete, Young, Accepted
<1> QED
    BY <1>1, <1>2, <1>3, <1>4, <1>5, <1>6, <1>7 DEF Next, Done, PipelineFails

-----------------------------------------------------------------------------
\* The inductive invariant holds in every reachable state.
THEOREM Invariance == Spec => []IInv
BY InitIInv, StepIInv, PTL DEF Spec

\* The types hold: in particular the sorted set of Redis only ever holds
\* calls that were sent to it, and no stamp lies in the future.
THEOREM TypeCorrect == Spec => []TypeOK
<1>1. IInv => TypeOK
    BY DEF IInv
<1> QED
    BY <1>1, Invariance, PTL

\* Over all replicas and under every error of Redis, the limiter remembers
\* every accepted call it must and never admits more than Limit of them.
THEOREM QuotaNeverExceeded == Spec => []WithinLimit
<1>1. IInv => WithinLimit
    BY DEF IInv
<1> QED
    BY <1>1, Invariance, PTL

\* In whatever order pipelines run, accepted calls that ran within some delay
\* of their stamps never exceed Limit in any Window minus that delay.
THEOREM WindowsBounded == Spec => []SlidingWindow
<1>1. IInv => SlidingWindow
    BY DEF IInv
<1> QED
    BY <1>1, Invariance, PTL

\* Nobody is rejected on account of calls older than the window.
THEOREM RejectionsJustified == Spec => []RejectionHasCause
<1>1. IInv => RejectionHasCause
    BY DEF IInv
<1> QED
    BY <1>1, Invariance, PTL

\* Only a Redis error leaves a slot to a call that was not accepted.
THEOREM RollbacksComplete == Spec => []RollbackComplete
<1>1. IInv => RollbackComplete
    BY DEF IInv
<1> QED
    BY <1>1, Invariance, PTL
=============================================================================
