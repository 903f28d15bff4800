-------------------------- MODULE LockLease_proofs --------------------------
(***************************************************************************)
(* Proofs about LockLease for any number of callers and candidates and any *)
(* timeouts.                                                               *)
(***************************************************************************)
EXTENDS LockLease, TLAPS

-----------------------------------------------------------------------------
(* The TTL.                                                                *)

\* math.ceil never shortens: the TTL in whole seconds covers the chain and
\* the grace (acquire_lock rounds a fractional TTL up).
LEMMA CeilCovers ==
    ASSUME NEW t \in Nat
    PROVE  WholeSeconds(t) \in Nat /\ t <= WholeSeconds(t)
<1> DEFINE q == (t + Second - 1) \div Second
           r == (t + Second - 1) % Second
<1>1. Second \in Nat /\ Second > 0
  BY LeaseAssumption
<1>2. /\ q \in Nat
      /\ r \in 0..Second - 1
      /\ t + Second - 1 = Second * q + r
  BY <1>1
<1>3. q * Second = Second * q /\ Second * q \in Nat
  BY <1>1, <1>2
<1>4. WholeSeconds(t) = q * Second
  BY DEF WholeSeconds
<1> HIDE DEF q, r
<1> QED
  BY <1>1, <1>2, <1>3, <1>4

\* The TTL is at least the timeouts of the whole chain plus the grace.
LEMMA TTLCovers == TTL \in Nat /\ Rest[1] + Grace <= TTL
<1>1. Rest[1] + Grace \in Nat
  <2>1. 1 \in 1..(Chain + 1)
    BY LeaseAssumption
  <2>2. Rest[1] \in Nat
    BY <2>1, LeaseAssumption
  <2>3. Grace \in Nat
    BY LeaseAssumption
  <2> QED
    BY <2>2, <2>3
<1> QED
  BY <1>1, CeilCovers DEF TTL

\* What the assumptions say of one candidate.
LEMMA RestOf ==
    ASSUME NEW i \in 1..Chain
    PROVE  /\ Timeout[i] \in Nat \ {0}
           /\ Rest[i] \in Nat
           /\ Rest[i + 1] \in Nat
           /\ Rest[i] = Timeout[i] + Rest[i + 1]
  BY LeaseAssumption

\* The constants that need no quantifier.
LEMMA Scalars ==
    /\ Chain \in Nat /\ 1 \in 1..Chain
    /\ Grace \in Nat
    /\ SocketTimeout \in Nat /\ SocketTimeout > 0
    /\ WaitTimeout \in Nat /\ WaitTimeout > 0
    /\ PollInterval \in Nat /\ PollInterval > 0
    /\ Waits \in Nat /\ 0 \in 0..Waits /\ 1 \in 0..Waits
    /\ TTL \in Nat
<1>1. Chain \in Nat /\ 1 \in 1..Chain /\ Grace \in Nat
  BY LeaseAssumption
<1>2. /\ SocketTimeout \in Nat \ {0}
      /\ WaitTimeout \in Nat \ {0}
      /\ PollInterval \in Nat \ {0}
      /\ Waits \in Nat \ {0}
  BY LeaseAssumption
<1> QED
  BY <1>1, <1>2, TTLCovers

-----------------------------------------------------------------------------
(* Types.                                                                  *)

\* Every step keeps every variable in its type.
LEMMA TypeInductive == TypeOK /\ [Next]_vars => TypeOK'
<1> SUFFICES ASSUME TypeOK, [Next]_vars PROVE TypeOK'
  OBVIOUS
<1> USE Scalars DEF TypeOK, Labels, Terminal
<1>1. ASSUME NEW c \in Callers, Arrive(c) PROVE TypeOK'
  BY <1>1 DEF Arrive, Await, callVars, lockVars
<1>2. ASSUME NEW c \in Callers, ExecuteSet(c) PROVE TypeOK'
  <2>1. CASE LockIsFree
    <3>1. won' = [won EXCEPT ![c] = TRUE] /\ owner' = c /\ expires' = clock + TTL
      BY <1>2, <2>1 DEF ExecuteSet
    <3>2. won' \in [Callers -> BOOLEAN]
      BY <3>1, Zenon
    <3>3. owner' \in Callers \cup {None} /\ expires' \in Nat
      BY <3>1
    <3> QED
      BY <1>2, <3>2, <3>3 DEF ExecuteSet, callVars
  <2>2. CASE ~LockIsFree
    BY <1>2, <2>2 DEF ExecuteSet, callVars, lockVars
  <2> QED
    BY <2>1, <2>2
<1>3. ASSUME NEW c \in Callers, AcquireReplies(c) PROVE TypeOK'
  <2>1. CASE won[c]
    <3>1. token' = [token EXCEPT ![c] = TRUE] /\ Call(c, 1) /\ UNCHANGED deadline
      BY <1>3, <2>1 DEF AcquireReplies
    <3>2. token' \in [Callers -> BOOLEAN]
      BY <3>1, Zenon
    <3> QED
      BY <1>3, <3>1, <3>2 DEF AcquireReplies, Await, Call, lockVars
  <2>2. CASE ~won[c]
    BY <1>3, <2>2 DEF AcquireReplies, Await, Wait, callVars, lockVars
  <2> QED
    BY <2>1, <2>2
<1>4. ASSUME NEW c \in Callers, AcquireRaises(c) PROVE TypeOK'
  BY <1>4 DEF AcquireRaises, Await, Wait, callVars, lockVars
<1>5. ASSUME NEW c \in Callers, Poll(c) PROVE TypeOK'
  <2>1. CASE End(c, "served")
    BY <1>5, <2>1 DEF Poll, End, lockVars
  <2>2. CASE Await(c, "sleep") /\ UNCHANGED <<callVars, won, token, deadline, result>>
    BY <1>5, <2>2 DEF Poll, Await, callVars, lockVars
  <2>3. CASE Call(c, 1) /\ UNCHANGED <<won, token, deadline, result>>
    BY <1>5, <2>3 DEF Poll, Await, Call, lockVars
  <2> QED
    BY <1>5, <2>1, <2>2, <2>3 DEF Poll
<1>6. ASSUME NEW c \in Callers, Wake(c) PROVE TypeOK'
  BY <1>6 DEF Wake, Await, Call, callVars, lockVars
<1>7. ASSUME NEW c \in Callers, NextWait(c) PROVE TypeOK'
  BY <1>7 DEF NextWait, Await, lockVars
<1>8. ASSUME NEW c \in Callers, CallSucceeds(c) PROVE TypeOK'
  BY <1>8 DEF CallSucceeds, Await, callVars, lockVars
<1>9. ASSUME NEW c \in Callers, CallFails(c) PROVE TypeOK'
  BY <1>9 DEF CallFails, HasNext, Await, Call, callVars, lockVars
<1>10. ASSUME NEW c \in Callers, CallFailsUnlocked(c) PROVE TypeOK'
  BY <1>10 DEF CallFailsUnlocked, End, lockVars
<1>11. ASSUME NEW c \in Callers, Release(c) PROVE TypeOK'
  <2>1. CASE result[c]
    BY <1>11, <2>1 DEF Release, Await, callVars
  <2>2. CASE ~result[c]
    <3>1. owner' \in Callers \cup {None}
      BY <1>11 DEF Release
    <3>2. End(c, "failed") /\ UNCHANGED <<clock, expires, cached>>
      BY <1>11, <2>2 DEF Release
    <3> QED
      BY <3>1, <3>2 DEF End
  <2> QED
    BY <2>1, <2>2
<1>12. ASSUME NEW c \in Callers, Store(c) PROVE TypeOK'
  BY <1>12 DEF Store, End, lockVars
<1>13. ASSUME NEW c \in Callers, Crash(c) PROVE TypeOK'
  BY <1>13 DEF Crash, End, lockVars
<1>14. ASSUME Tick PROVE TypeOK'
  BY <1>14 DEF Tick, lockVars
<1>15. ASSUME UNCHANGED vars PROVE TypeOK'
  BY <1>15 DEF vars, locals, callVars, lockVars
<1> QED
  BY <1>1, <1>2, <1>3, <1>4, <1>5, <1>6, <1>7, <1>8, <1>9, <1>10, <1>11, <1>12, <1>13,
     <1>14, <1>15 DEF Next, Step, Stop

\* Type correctness of the timed lock, for any callers and timeouts.
THEOREM TypeCorrect == Spec => []TypeOK
<1>1. Init => TypeOK
  <2> SUFFICES ASSUME Init PROVE TypeOK
    OBVIOUS
  <2>1. /\ won \in [Callers -> BOOLEAN]
        /\ token \in [Callers -> BOOLEAN]
        /\ overran \in [Callers -> BOOLEAN]
        /\ result \in [Callers -> BOOLEAN]
    BY Zenon DEF Init
  <2> QED
    BY <2>1, Scalars DEF Init, TypeOK, Labels, Terminal
<1> QED
  BY <1>1, TypeInductive, PTL DEF Spec

-----------------------------------------------------------------------------
(* The lease. Neither LeaseCoversCall nor its parts hold of one moment     *)
(* alone: what is left of the TTL shrinks with the clock while what is     *)
(* left of the chain shrinks with every candidate. The invariant relates   *)
(* the two at the moments where each caller last fixed them: when its SET  *)
(* was sent, and when its current candidate's call began.                  *)

\* before the reply of acquire_lock has decided, there is no token
Untokened(c) ==
    /\ pc[c] \in {"idle", "acquire"} => ~won[c]
    /\ pc[c] \in {"idle", "acquire", "reply", "poll", "sleep"} => ~token[c]

\* a Redis command is answered, or raises, within the socket timeout
Paced(c) ==
    pc[c] \in {"acquire", "reply"} =>
        since[c] <= clock /\ clock <= since[c] + SocketTimeout

\* while the reply of a SET that took effect is under way
LeaseAtReply(c) ==
    pc[c] = "reply" /\ won[c] =>
        /\ owner = c
        /\ since[c] + TTL <= expires

\* what is left of the chain fits into what is left of the TTL
LeaseAtCall(c) ==
    token[c] /\ pc[c] = "call" /\ ~overran[c] =>
        /\ owner = c
        /\ clock <= began[c] + Timeout[candidate[c]]
        /\ began[c] + Rest[candidate[c]] <= expires

LeaseInv(c) == Untokened(c) /\ Paced(c) /\ LeaseAtReply(c) /\ LeaseAtCall(c)

\* A caller of either kind holds the lock at this moment.
LEMMA LeaseHolds ==
    ASSUME TypeOK, SocketTimeout <= Grace, NEW c \in Callers, LeaseInv(c),
           \/ pc[c] = "reply" /\ won[c]
           \/ token[c] /\ pc[c] = "call" /\ ~overran[c]
    PROVE  owner = c /\ clock <= expires
<1>1. CASE pc[c] = "reply" /\ won[c]
  <2>1. Rest[1] \in Nat
    BY Scalars, RestOf
  <2>2. SocketTimeout <= TTL
    BY <2>1, Scalars, TTLCovers
  <2> QED
    BY <1>1, <2>2, Scalars DEF LeaseInv, Paced, LeaseAtReply, TypeOK
<1>2. CASE token[c] /\ pc[c] = "call" /\ ~overran[c]
  <2>1. candidate[c] \in 1..Chain
    BY DEF TypeOK
  <2>2. /\ Timeout[candidate[c]] \in Nat
        /\ Rest[candidate[c]] \in Nat
        /\ Timeout[candidate[c]] <= Rest[candidate[c]]
    BY <2>1, RestOf
  <2> QED
    BY <1>2, <2>2 DEF LeaseInv, LeaseAtCall, TypeOK
<1> QED
  BY <1>1, <1>2

\* A step of one caller that leaves the lock alone, or takes it when it is
\* free, or drops its own, cannot disturb another caller's lease.
LEMMA LeaseOfOthers ==
    ASSUME TypeOK, SocketTimeout <= Grace,
           NEW c \in Callers, NEW d \in Callers, d # c, LeaseInv(d),
           clock' = clock,
           pc'[d] = pc[d], since'[d] = since[d], won'[d] = won[d], token'[d] = token[d],
           candidate'[d] = candidate[d], began'[d] = began[d], overran'[d] = overran[d],
           \/ UNCHANGED <<owner, expires>>
           \/ LockIsFree
           \/ owner = c /\ UNCHANGED expires
    PROVE  LeaseInv(d)'
<1>1. Untokened(d)' /\ Paced(d)'
  BY DEF LeaseInv, Untokened, Paced
<1>2. CASE UNCHANGED <<owner, expires>>
  BY <1>1, <1>2 DEF LeaseInv, LeaseAtReply, LeaseAtCall
<1>3. CASE LockIsFree \/ owner = c
  <2>1. ~(pc[d] = "reply" /\ won[d]) /\ ~(token[d] /\ pc[d] = "call" /\ ~overran[d])
    <3>1. SUFFICES ASSUME \/ pc[d] = "reply" /\ won[d]
                          \/ token[d] /\ pc[d] = "call" /\ ~overran[d]
                   PROVE  FALSE
      OBVIOUS
    <3>2. owner = d /\ clock <= expires
      BY <3>1, LeaseHolds
    <3> QED
      <4>1. owner # None /\ owner # c
        BY <3>2, LeaseAssumption
      <4>2. ~(clock > expires)
        BY <3>2 DEF TypeOK
      <4> QED
        BY <1>3, <4>1, <4>2 DEF LockIsFree, Expired
  <2> QED
    BY <1>1, <2>1 DEF LeaseInv, LeaseAtReply, LeaseAtCall
<1> QED
  BY <1>2, <1>3

\* The invariant is preserved by every step.
LEMMA LeaseInductive ==
    ASSUME TypeOK, SocketTimeout <= Grace, \A c \in Callers : LeaseInv(c), [Next]_vars
    PROVE  \A c \in Callers : LeaseInv(c)'
<1> SUFFICES ASSUME NEW d \in Callers PROVE LeaseInv(d)'
  OBVIOUS
<1> USE DEF TypeOK
<1>1. ASSUME NEW c \in Callers, Step(c) \/ Crash(c), d # c PROVE LeaseInv(d)'
  <2>1. /\ clock' = clock
        /\ pc'[d] = pc[d] /\ since'[d] = since[d]
        /\ won'[d] = won[d] /\ token'[d] = token[d]
        /\ candidate'[d] = candidate[d] /\ began'[d] = began[d] /\ overran'[d] = overran[d]
    BY <1>1 DEF Step, Crash, Arrive, ExecuteSet, AcquireReplies, AcquireRaises, Poll, Wake,
       NextWait, CallSucceeds, CallFails, CallFailsUnlocked, Release, Store, Await, End,
       Call, Wait, callVars, lockVars
  <2>2. \/ UNCHANGED <<owner, expires>>
        \/ LockIsFree
        \/ owner = c /\ UNCHANGED expires
    BY <1>1 DEF Step, Crash, Arrive, ExecuteSet, AcquireReplies, AcquireRaises, Poll, Wake,
       NextWait, CallSucceeds, CallFails, CallFailsUnlocked, Release, Store, Holds, lockVars
  <2> QED
    BY <1>1, <2>1, <2>2, LeaseOfOthers
<1>2. ASSUME Step(d) \/ Crash(d) PROVE LeaseInv(d)'
  <2>0. LeaseInv(d)
    OBVIOUS
  <2>1. CASE Arrive(d)
    BY <2>0, <2>1, Scalars DEF Arrive, Await, callVars, LeaseInv, Untokened, Paced,
       LeaseAtReply, LeaseAtCall
  <2>2. CASE ExecuteSet(d)
    <3>1. pc'[d] = "reply" /\ ~token'[d] /\ ~won[d] /\ clock' = clock /\ since' = since
      BY <2>0, <2>2 DEF ExecuteSet, callVars, LeaseInv, Untokened
    <3>2. CASE LockIsFree
      <4>1. owner' = d /\ expires' = clock + TTL
        BY <2>2, <3>2 DEF ExecuteSet
      <4>2. since[d] <= clock /\ clock <= since[d] + SocketTimeout
        BY <2>0, <2>2, Scalars DEF ExecuteSet, LeaseInv, Paced
      <4> QED
        BY <3>1, <4>1, <4>2, Scalars DEF LeaseInv, Untokened, Paced, LeaseAtReply, LeaseAtCall
    <3>3. CASE ~LockIsFree
      <4>1. won' = won
        BY <2>2, <3>3 DEF ExecuteSet
      <4>2. since[d] <= clock /\ clock <= since[d] + SocketTimeout
        BY <2>0, <2>2 DEF ExecuteSet, LeaseInv, Paced
      <4> QED
        BY <3>1, <4>1, <4>2 DEF LeaseInv, Untokened, Paced, LeaseAtReply, LeaseAtCall
    <3> QED
      BY <3>2, <3>3
  <2>3. CASE AcquireReplies(d)
    <3>1. CASE won[d]
      <4>1. /\ pc'[d] = "call" /\ candidate'[d] = 1 /\ began'[d] = clock /\ clock' = clock
            /\ owner' = owner /\ expires' = expires
        BY <2>3, <3>1 DEF AcquireReplies, Call, Await, lockVars
      <4>2. /\ pc[d] = "reply" /\ owner = d /\ clock <= since[d] + SocketTimeout
            /\ since[d] + TTL <= expires
        BY <2>0, <2>3, <3>1 DEF AcquireReplies, LeaseInv, Paced, LeaseAtReply
      <4>3. Rest[1] \in Nat /\ Timeout[1] \in Nat
        BY Scalars, RestOf
      <4>4. clock + Rest[1] <= expires
        BY <4>2, <4>3, TTLCovers, Scalars
      <4> QED
        BY <4>1, <4>2, <4>3, <4>4 DEF LeaseInv, Untokened, Paced, LeaseAtReply, LeaseAtCall
    <3>2. CASE ~won[d]
      BY <2>0, <2>3, <3>2 DEF AcquireReplies, Wait, Await, callVars, LeaseInv, Untokened,
         Paced, LeaseAtReply, LeaseAtCall
    <3> QED
      BY <3>1, <3>2
  <2>4. CASE AcquireRaises(d)
    BY <2>0, <2>4 DEF AcquireRaises, Await, Wait, callVars, LeaseInv, Untokened, Paced,
       LeaseAtReply, LeaseAtCall
  <2>5. CASE Poll(d)
    BY <2>0, <2>5 DEF Poll, Await, End, Call, callVars, LeaseInv, Untokened, Paced,
       LeaseAtReply, LeaseAtCall
  <2>6. CASE Wake(d)
    BY <2>0, <2>6 DEF Wake, Await, Call, callVars, LeaseInv, Untokened, Paced, LeaseAtReply,
       LeaseAtCall
  <2>7. CASE NextWait(d)
    BY <2>0, <2>7 DEF NextWait, Await, lockVars, LeaseInv, Untokened, Paced, LeaseAtReply,
       LeaseAtCall
  <2>8. CASE CallSucceeds(d)
    BY <2>0, <2>8 DEF CallSucceeds, Await, LeaseInv, Untokened, Paced, LeaseAtReply, LeaseAtCall
  <2>9. CASE CallFails(d)
    <3>1. CASE HasNext(d) /\ Call(d, candidate[d] + 1)
      <4>1. /\ pc[d] = "call" /\ pc'[d] = "call" /\ began'[d] = clock /\ clock' = clock
            /\ candidate'[d] = candidate[d] + 1
            /\ token' = token /\ overran' = overran /\ owner' = owner /\ expires' = expires
        BY <2>9, <3>1 DEF CallFails, Call, Await, lockVars
      <4>2. candidate[d] \in 1..Chain /\ candidate[d] + 1 \in 1..Chain
        BY <3>1, Scalars DEF HasNext
      <4>3. /\ Timeout[candidate[d]] \in Nat /\ Timeout[candidate[d] + 1] \in Nat
            /\ Rest[candidate[d]] \in Nat /\ Rest[candidate[d] + 1] \in Nat
            /\ Rest[candidate[d]] = Timeout[candidate[d]] + Rest[candidate[d] + 1]
        BY <4>2, RestOf
      <4> QED
        BY <2>0, <4>1, <4>3 DEF LeaseInv, Untokened, Paced, LeaseAtReply, LeaseAtCall
    <3>2. CASE Await(d, "release") /\ UNCHANGED callVars
      BY <2>0, <2>9, <3>2 DEF CallFails, Await, callVars, LeaseInv, Untokened, Paced,
         LeaseAtReply, LeaseAtCall
    <3> QED
      BY <2>9, <3>1, <3>2 DEF CallFails
  <2>10. CASE CallFailsUnlocked(d) \/ Release(d) \/ Store(d) \/ Crash(d)
    BY <2>0, <2>10 DEF CallFailsUnlocked, Release, Store, Crash, Await, End, LeaseInv,
       Untokened, Paced, LeaseAtReply, LeaseAtCall
  <2> QED
    BY <1>2, <2>1, <2>2, <2>3, <2>4, <2>5, <2>6, <2>7, <2>8, <2>9, <2>10 DEF Step
<1>3. ASSUME Tick PROVE LeaseInv(d)'
  <2>1. /\ clock' = clock + 1
        /\ UNCHANGED <<pc, since, won, token, candidate, began, owner, expires>>
    BY <1>3 DEF Tick, lockVars
  <2>2. LeaseInv(d)
    OBVIOUS
  <2>3. Untokened(d)'
    BY <2>1, <2>2 DEF LeaseInv, Untokened
  <2>4. Paced(d)'
    <3>1. pc[d] \in {"acquire", "reply"} => clock < since[d] + SocketTimeout
      BY <1>3 DEF Tick, Due, Terminal
    <3> QED
      BY <2>1, <2>2, <3>1, Scalars DEF LeaseInv, Paced
  <2>5. LeaseAtReply(d)'
    BY <2>1, <2>2 DEF LeaseInv, LeaseAtReply
  <2>6. LeaseAtCall(d)'
    <3>1. overran'[d] = (overran[d] \/ (pc[d] = "call" /\ clock' > began[d] + Timeout[candidate[d]]))
      BY <1>3 DEF Tick
    <3>2. Timeout[candidate[d]] \in Nat
      BY RestOf
    <3> QED
      BY <2>1, <2>2, <3>1, <3>2 DEF LeaseInv, LeaseAtCall
  <2> QED
    BY <2>3, <2>4, <2>5, <2>6 DEF LeaseInv
<1>4. ASSUME UNCHANGED vars PROVE LeaseInv(d)'
  BY <1>4 DEF vars, locals, callVars, lockVars, LeaseInv, Untokened, Paced, LeaseAtReply,
     LeaseAtCall
<1> QED
  BY <1>1, <1>2, <1>3, <1>4 DEF Next, Stop

\* The TTL handle_chat_completion asks for covers the whole fallback chain,
\* for any chain, timeouts, socket timeout and number of callers: a winner
\* that kept to its timeouts never loses the lock during its call.
THEOREM LeaseAlwaysCovers == Spec => []LeaseCoversCall
<1> DEFINE Inv == SocketTimeout <= Grace => \A c \in Callers : LeaseInv(c)
<1>1. Init => Inv
  BY Scalars DEF Init, LeaseInv, Untokened, Paced, LeaseAtReply, LeaseAtCall
<1>2. TypeOK /\ Inv /\ [Next]_vars => Inv'
  BY LeaseInductive
<1>3. TypeOK /\ Inv => LeaseCoversCall
  <2> SUFFICES ASSUME TypeOK, Inv, SocketTimeout <= Grace, NEW c \in Callers,
                      token[c], pc[c] = "call", ~overran[c]
               PROVE  Holds(c)
    BY DEF LeaseCoversCall
  <2>1. owner = c /\ clock <= expires
    BY LeaseHolds
  <2> QED
    BY <2>1 DEF Holds, Expired, TypeOK
<1> HIDE DEF Inv
<1> QED
  BY <1>1, <1>2, <1>3, TypeCorrect, PTL DEF Spec

-----------------------------------------------------------------------------
(* The wait. A poll starts before the deadline and lasts at most the       *)
(* socket timeout; a sleep starts when a poll ends.                        *)

PollInTime(c) ==
    pc[c] = "poll" => since[c] < deadline[c] /\ clock <= since[c] + SocketTimeout

SleepInTime(c) ==
    pc[c] = "sleep" =>
        /\ since[c] < deadline[c] + SocketTimeout
        /\ clock <= since[c] + PollInterval

WaitInv(c) == PollInTime(c) /\ SleepInTime(c)

\* The invariant of the wait is preserved by every step.
LEMMA WaitInductive ==
    ASSUME TypeOK, \A c \in Callers : WaitInv(c), [Next]_vars
    PROVE  \A c \in Callers : WaitInv(c)'
<1> SUFFICES ASSUME NEW d \in Callers PROVE WaitInv(d)'
  OBVIOUS
<1> USE DEF TypeOK, WaitInv, PollInTime, SleepInTime
<1>1. ASSUME NEW c \in Callers, Step(c) \/ Crash(c), d # c PROVE WaitInv(d)'
  <2>1. clock' = clock /\ pc'[d] = pc[d] /\ since'[d] = since[d] /\ deadline'[d] = deadline[d]
    BY <1>1 DEF Step, Crash, Arrive, ExecuteSet, AcquireReplies, AcquireRaises, Poll, Wake,
       NextWait, CallSucceeds, CallFails, CallFailsUnlocked, Release, Store, Await, End,
       Call, Wait, callVars, lockVars
  <2> QED
    BY <2>1
<1>2. ASSUME Step(d) \/ Crash(d) PROVE WaitInv(d)'
  <2>1. CASE AcquireReplies(d) \/ AcquireRaises(d)
    BY <2>1, Scalars DEF AcquireReplies, AcquireRaises, Wait, Call, Await
  <2>2. CASE Poll(d)
    BY <2>2, Scalars DEF Poll, Call, Await, End
  <2>3. CASE Wake(d)
    BY <2>3, Scalars DEF Wake, Deadline, Call, Await
  <2>4. CASE \/ Arrive(d) \/ ExecuteSet(d) \/ NextWait(d) \/ CallSucceeds(d) \/ CallFails(d)
             \/ CallFailsUnlocked(d) \/ Release(d) \/ Store(d) \/ Crash(d)
    <3>1. pc'[d] \notin {"poll", "sleep"}
      BY <2>4 DEF Arrive, ExecuteSet, NextWait, CallSucceeds, CallFails, CallFailsUnlocked,
         Release, Store, Crash, Call, Await, End
    <3> QED
      BY <3>1
  <2> QED
    BY <1>2, <2>1, <2>2, <2>3, <2>4 DEF Step
<1>3. ASSUME Tick PROVE WaitInv(d)'
  <2>1. clock' = clock + 1 /\ UNCHANGED <<pc, since, deadline>>
    BY <1>3 DEF Tick
  <2>2. /\ pc[d] = "poll" => clock < since[d] + SocketTimeout
        /\ pc[d] = "sleep" => clock < since[d] + PollInterval
    BY <1>3 DEF Tick, Due, Terminal
  <2> QED
    BY <2>1, <2>2, Scalars
<1>4. ASSUME UNCHANGED vars PROVE WaitInv(d)'
  BY <1>4 DEF vars, locals
<1> QED
  BY <1>1, <1>2, <1>3, <1>4 DEF Next, Stop

\* wait_for_result never keeps a caller longer than its timeout, one GET
\* that hangs and one sleep, whatever the others do.
THEOREM WaitIsBounded == Spec => []WaitBounded
<1> DEFINE Inv == \A c \in Callers : WaitInv(c)
<1>1. Init => Inv
  BY DEF Init, WaitInv, PollInTime, SleepInTime
<1>2. TypeOK /\ Inv /\ [Next]_vars => Inv'
  BY WaitInductive
<1>3. TypeOK /\ Inv => WaitBounded
  BY Scalars DEF WaitBounded, WaitInv, PollInTime, SleepInTime, TypeOK
<1> HIDE DEF Inv
<1> QED
  BY <1>1, <1>2, <1>3, TypeCorrect, PTL DEF Spec
=============================================================================
