-------------------------- MODULE Streaming_proofs --------------------------
(***************************************************************************)
(* Proofs about Streaming, for any streams, catalogue, settings, length of *)
(* the answers and faults of the environment.                              *)
(***************************************************************************)
EXTENDS Streaming, Routing_proofs, Sums_proofs

-----------------------------------------------------------------------------
(* The inductive invariant.                                                *)

Labels == {"idle", "get", "discard", "replay", "open", "relay", "set"} \cup Final
Wires == [phase : {"opening", "talking", "finished", "counted", "stopped", "broken", "closed"},
          pieces : 0..MaxPieces, reported : BOOLEAN]
Adapters == [input : {0, InputTokens}, done : BOOLEAN]
Errors == {"none", "timeout", "auth", "ratelimit", "other"}
Accumulators == [saw : BOOLEAN, content : Seq(1..MaxPieces), finish : {"stop", "odd"},
                 usage : Tokens]
UsageRows == [status : {"ok", "error"}, provider : 0..Len(chain), usage : Tokens,
              error : {"none", "model_not_found", "timeout_error", "upstream_error"}]

\* The types again, each variable a function of the streams.
Shape ==
    /\ pc \in [Streams -> Labels]
    /\ cand \in [Streams -> Nat]
    /\ wire \in [Streams -> Wires]
    /\ adapter \in [Streams -> Adapters]
    /\ lastError \in [Streams -> Errors]
    /\ serving \in [Streams -> 0..Len(chain)]
    /\ usage \in [Streams -> Tokens]
    /\ acc \in [Streams -> Accumulators]
    /\ reply \in [Streams -> Responses \cup {None}]
    /\ seen \in [Streams -> Seq(Lines)]
    /\ rows \in [Streams -> Seq(UsageRows)]
    /\ cache \in Responses \cup {None, Unreadable}

FixedShape ==
    /\ registry \in Seq(Range(Catalogue))
    /\ chain = select_providers(registry, Model)

\* Where a stream is says what it has done; a 404 means there is no candidate.
Route(s) ==
    /\ pc[s] # "idle" => (pc[s] = "rejected" <=> chain = <<>>)
    /\ cand[s] >= 1
    /\ cand[s] > 1 => cand[s] <= Len(chain)

Place(s) ==
    /\ pc[s] \in {"idle", "get", "discard", "open"} => seen[s] = <<>>
    /\ pc[s] \in {"idle", "get", "discard", "open", "relay", "set"} => reply[s] = None
    /\ pc[s] \in {"idle", "get", "discard", "replay", "open"} => serving[s] = 0
    /\ pc[s] \in {"idle", "get", "discard"} => wire[s] = Fresh
    /\ pc[s] = "open" => wire[s].phase \in {"opening", "broken"}
    /\ pc[s] = "relay" => serving[s] = cand[s] /\ wire[s].phase # "opening"
    /\ pc[s] = "set" => serving[s] # 0

\* What the provider reported is what `usage` and the accumulator hold.
Report(s) ==
    /\ wire[s].phase = "talking" /\ Kind(s) = "anthropic" => adapter[s].input = InputTokens
    /\ wire[s].phase = "finished" => Kind(s) # "anthropic"
    /\ wire[s].reported =>
        /\ wire[s].phase \in {"counted", "stopped", "broken", "closed"}
        /\ usage[s] = [in |-> InputTokens, out |-> wire[s].pieces]
    /\ acc[s].usage = usage[s]

GatewayError(line) == line.kind = "error" /\ line.from = 0

\* Lines come from the provider that is serving or from the gateway itself,
\* whose error is the last line.
Source(s) ==
    /\ \A i \in DOMAIN seen[s] : seen[s][i].from \in {0, serving[s]}
    /\ pc[s] # "end" => \A i \in DOMAIN seen[s] : ~GatewayError(seen[s][i])

\* The row: none until the end, then one.
Account(s) ==
    /\ pc[s] \in {"idle", "get", "discard", "replay", "open", "relay"} => rows[s] = <<>>
    /\ Len(rows[s]) <= 1
    /\ pc[s] \in {"end", "rejected", "set"} => Len(rows[s]) = 1
    /\ pc[s] = "set" => rows[s][1].status = "ok"
    /\ pc[s] = "end" => (rows[s][1].status = "error" <=> EndsInError(seen[s]))
    /\ \A i \in DOMAIN rows[s] : rows[s][i].status = "ok" =>
        /\ rows[s][i].provider = serving[s]
        /\ serving[s] # 0 => rows[s][i].usage = usage[s]

\* A cached stream is replayed line by line.
Replaying(s) ==
    /\ pc[s] = "replay" => reply[s] # None
    /\ reply[s] # None =>
        /\ pc[s] \in {"replay", "end", "gone"}
        /\ serving[s] = 0
        /\ Len(seen[s]) <= 4
        /\ \A i \in DOMAIN seen[s] : seen[s][i] = synthesize_cached_stream(reply[s])[i]
        /\ pc[s] = "end" => Len(seen[s]) = 4 /\ rows[s][1].usage = reply[s].usage

\* The accumulator holds the text that was relayed.
Accumulated(s) == reply[s] = None => acc[s].content = Content(seen[s])

\* A response tells what the stream that made it has shown and logged, and
\* that stream has come to its end.
Truthful(response) ==
    /\ response.by \in Streams
    /\ pc[response.by] \in {"end", "gone"}
    /\ Len(rows[response.by]) = 1
    /\ rows[response.by][1].usage = response.usage
    /\ Content(seen[response.by]) = response.content

CacheTruthful ==
    /\ cache \notin {None, Unreadable} => Truthful(cache)
    /\ \A s \in Streams : reply[s] # None => Truthful(reply[s])

StreamInv(s) ==
    Route(s) /\ Place(s) /\ Report(s) /\ Source(s) /\ Account(s) /\ Replaying(s) /\ Accumulated(s)

IInv == FixedShape /\ Shape /\ (\A s \in Streams : StreamInv(s)) /\ CacheTruthful

-----------------------------------------------------------------------------
(* Recursion along a list: the registry and the text of a stream.          *)

\* Induction up to n, over a set.
LEMMA Climb ==
    ASSUME NEW n \in Nat, NEW S, 0 \in S, \A k \in 1..n : k - 1 \in S => k \in S
    PROVE  0..n \subseteq S
<1> DEFINE B == {k \in 0..n : k \notin S}
<1> SUFFICES ASSUME B # {} PROVE FALSE
    OBVIOUS
<1>1. B \subseteq Nat
    OBVIOUS
<1>2. PICK k \in B : \A j \in B : k <= j
  <2> HIDE DEF B
  <2> QED
      BY <1>1, LeastNatural
<1>3. k \in 1..n /\ k - 1 \notin B
    BY <1>2
<1> QED
    BY <1>3

\* what g[k] is after the first k of n steps
IsRun(g, n, V, zero, step) ==
    g \in [0..n -> V] /\ g[0] = zero /\ \A k \in 1..n : g[k] = step[k][g[k - 1]]

\* A list of steps can be taken one after the other.
LEMMA StepsExist ==
    ASSUME NEW n \in Nat, NEW V, NEW zero \in V, NEW step \in [1..n -> [V -> V]]
    PROVE  \E g : IsRun(g, n, V, zero, step)
<1> DEFINE Good(m) == \E g \in [0..m -> V] :
                        g[0] = zero /\ \A k \in 1..m : g[k] = step[k][g[k - 1]]
           S == {m \in 0..n : Good(m)}
<1>1. 0 \in S
  <2>1. PICK g : g = [k \in 0..0 |-> zero]
      OBVIOUS
  <2>2. g \in [0..0 -> V] /\ g[0] = zero /\ 1..0 = {}
      BY <2>1
  <2>3. Good(0)
      BY <2>2
  <2> HIDE DEF Good
  <2> QED
      BY <2>3
<1>2. ASSUME NEW m \in 1..n, m - 1 \in S PROVE m \in S
  <2>1. PICK g \in [0..(m - 1) -> V] :
            g[0] = zero /\ \A k \in 1..(m - 1) : g[k] = step[k][g[k - 1]]
      BY <1>2
  <2>2. g[m - 1] \in V /\ step[m] \in [V -> V]
      OBVIOUS
  <2>3. PICK h : h = [k \in 0..m |-> IF k = m THEN step[m][g[m - 1]] ELSE g[k]]
      OBVIOUS
  <2>4. h \in [0..m -> V] /\ h[0] = zero /\ h[m] = step[m][h[m - 1]]
      BY <2>1, <2>2, <2>3
  <2>5. \A k \in 1..(m - 1) : h[k] = g[k] /\ h[k - 1] = g[k - 1]
      BY <2>3
  <2>6. \A k \in 1..m : h[k] = step[k][h[k - 1]]
      BY <2>1, <2>4, <2>5
  <2>7. Good(m)
      BY <2>4, <2>6
  <2> HIDE DEF Good
  <2> QED
      BY <2>7
<1>3. n \in S
  <2> HIDE DEF S
  <2>1. 0..n \subseteq S
      BY <1>1, <1>2, Climb
  <2> QED
      BY <2>1
<1> QED
    BY <1>3 DEF IsRun

\* A registry is a list of providers of the catalogue.
LEMMA RegistryType ==
    ASSUME NEW P, NEW catalogue \in Seq(P), NEW enabled
    PROVE  build_registry(catalogue, enabled) \in Seq(P)
<1> DEFINE n == Len(catalogue)
           next(k, q) == IF catalogue[k].name \in enabled THEN Append(q, catalogue[k]) ELSE q
           step == [k \in 1..n |-> [q \in Seq(P) |-> next(k, q)]]
           registered == CHOOSE f : f = [k \in 0..n |-> IF k = 0 THEN <<>> ELSE next(k, f[k - 1])]
<1>1. n \in Nat /\ \A k \in 1..n : catalogue[k] \in P
    OBVIOUS
<1>2. \A k \in 1..n, q \in Seq(P) : next(k, q) \in Seq(P)
    BY <1>1
<1>3. <<>> \in Seq(P)
    OBVIOUS
<1>4. step \in [1..n -> [Seq(P) -> Seq(P)]]
  <2> HIDE DEF next
  <2> QED
      BY <1>2
<1>5. PICK g \in [0..n -> Seq(P)] : g[0] = <<>> /\ \A k \in 1..n : g[k] = step[k][g[k - 1]]
  <2> HIDE DEF step, n
  <2>1. PICK V, zero : V = Seq(P) /\ zero = <<>>
      OBVIOUS
  <2>2. n \in Nat /\ zero \in V /\ step \in [1..n -> [V -> V]]
      BY <1>1, <1>3, <1>4, <2>1
  <2>3. PICK g : IsRun(g, n, V, zero, step)
      BY <2>2, StepsExist
  <2> QED
      BY <2>1, <2>3, Zenon DEF IsRun
<1>6. \A k \in 1..n : g[k] = next(k, g[k - 1])
  <2> HIDE DEF next
  <2>1. \A k \in 1..n : k - 1 \in 0..n
      BY <1>1
  <2> QED
      BY <1>5, <2>1
<1>7. g = [k \in 0..n |-> IF k = 0 THEN <<>> ELSE next(k, g[k - 1])]
  <2> HIDE DEF next
  <2> QED
      BY <1>1, <1>5, <1>6
<1>8. registered = [k \in 0..n |-> IF k = 0 THEN <<>> ELSE next(k, registered[k - 1])]
  <2> HIDE DEF next
  <2> QED
      BY <1>7
<1>9. build_registry(catalogue, enabled) = registered[n]
    BY DEF build_registry
<1> DEFINE S == {k \in 0..n : registered[k] \in Seq(P)}
<1>10. 0 \in S
  <2> HIDE DEF registered, next
  <2> QED
      BY <1>1, <1>3, <1>8
<1>11. ASSUME NEW k \in 1..n, k - 1 \in S PROVE k \in S
  <2> HIDE DEF registered, next
  <2>1. registered[k] = next(k, registered[k - 1])
      BY <1>8
  <2> QED
      BY <1>2, <1>11, <2>1
<1>12. n \in S
  <2> HIDE DEF S, n
  <2>1. 0..n \subseteq S
      BY <1>1, <1>10, <1>11, Climb
  <2> QED
      BY <1>1, <2>1
<1> QED
  <2> HIDE DEF registered, n
  <2> QED
      BY <1>9, <1>12

\* the function behind FlattenSeq
Flat(seqs) ==
    CHOOSE f : f = [i \in 1..Len(seqs) |-> IF i = 1 THEN seqs[i] ELSE f[i - 1] \o seqs[i]]

\* That function exists, and is built from one part after the other.
LEMMA FlatUnfold ==
    ASSUME NEW X, NEW seqs \in Seq(Seq(X))
    PROVE  /\ \A i \in 1..Len(seqs) : Flat(seqs)[i] \in Seq(X)
           /\ Len(seqs) > 0 => Flat(seqs)[1] = seqs[1]
           /\ \A i \in 2..Len(seqs) : Flat(seqs)[i] = Flat(seqs)[i - 1] \o seqs[i]
<1> DEFINE n == Len(seqs)
           step == [k \in 1..n |-> [q \in Seq(X) |-> q \o seqs[k]]]
           flat == Flat(seqs)
<1>1. n \in Nat /\ \A k \in 1..n : seqs[k] \in Seq(X)
    OBVIOUS
<1>2. \A k \in 1..n, q \in Seq(X) : q \o seqs[k] \in Seq(X)
    BY <1>1
<1>3. step \in [1..n -> [Seq(X) -> Seq(X)]] /\ <<>> \in Seq(X)
    BY <1>2
<1>4. PICK g \in [0..n -> Seq(X)] : g[0] = <<>> /\ \A k \in 1..n : g[k] = step[k][g[k - 1]]
  <2> HIDE DEF step, n
  <2>1. PICK V, zero : V = Seq(X) /\ zero = <<>>
      OBVIOUS
  <2>2. n \in Nat /\ zero \in V /\ step \in [1..n -> [V -> V]]
      BY <1>1, <1>3, <2>1
  <2>3. PICK g : IsRun(g, n, V, zero, step)
      BY <2>2, StepsExist
  <2> QED
      BY <2>1, <2>3, Zenon DEF IsRun
<1>5. \A k \in 1..n : g[k] = g[k - 1] \o seqs[k]
  <2>1. \A k \in 1..n : k - 1 \in 0..n
      BY <1>1
  <2> QED
      BY <1>4, <2>1
<1>6. n > 0 => g[1] = seqs[1]
  <2>1. ASSUME n > 0 PROVE g[1] = seqs[1]
    <3>1. 1 \in 1..n /\ g[0] = <<>> /\ seqs[1] \in Seq(X)
        BY <1>1, <1>4, <2>1
    <3>2. g[1] = g[1 - 1] \o seqs[1] /\ 1 - 1 = 0
      <4> HIDE DEF n
      <4>1. g[1] = g[1 - 1] \o seqs[1]
          BY <1>5, <3>1, Zenon
      <4> QED
          BY <4>1
    <3>3. \A q \in Seq(X) : <<>> \o q = q
        OBVIOUS
    <3> QED
        BY <3>1, <3>2, <3>3
  <2> QED
      BY <2>1
<1>7. PICK h : h = [i \in 1..n |-> g[i]]
    OBVIOUS
<1>8. h = [i \in 1..n |-> IF i = 1 THEN seqs[i] ELSE h[i - 1] \o seqs[i]]
  <2> HIDE DEF n
  <2>1. ASSUME NEW i \in 1..n PROVE g[i] = IF i = 1 THEN seqs[i] ELSE h[i - 1] \o seqs[i]
    <3>1. CASE i = 1
        BY <1>1, <1>6, <3>1
    <3>2. CASE i # 1
      <4>1. i - 1 \in 1..n
          BY <1>1, <3>2
      <4>2. h[i - 1] = g[i - 1]
          BY <1>7, <4>1
      <4> QED
          BY <1>5, <3>2, <4>2
    <3> QED
        BY <3>1, <3>2
  <2> QED
      BY <1>7, <2>1, Zenon
<1>9. flat = [i \in 1..n |-> IF i = 1 THEN seqs[i] ELSE flat[i - 1] \o seqs[i]]
    BY <1>8 DEF Flat
<1> DEFINE S == {k \in 0..n : k > 0 => flat[k] \in Seq(X)}
<1> HIDE DEF flat, n
<1>10. /\ n > 0 => flat[1] = seqs[1]
       /\ \A i \in 2..n : flat[i] = flat[i - 1] \o seqs[i]
  <2>1. \A i \in 1..n : flat[i] = IF i = 1 THEN seqs[i] ELSE flat[i - 1] \o seqs[i]
      BY <1>9, Zenon
  <2>2. n > 0 => 1 \in 1..n
      BY <1>1
  <2>3. \A i \in 2..n : i \in 1..n /\ i # 1
      BY <1>1
  <2> QED
      BY <2>1, <2>2, <2>3, Zenon
<1>11. 0 \in S
    BY <1>1
<1>12. ASSUME NEW k \in 1..n, k - 1 \in S PROVE k \in S
  <2>1. CASE k = 1
    <3>1. flat[k] \in Seq(X)
        BY <1>1, <1>10, <2>1
    <3> QED
        BY <1>1, <3>1
  <2>2. CASE k # 1
    <3>1. flat[k - 1] \in Seq(X) /\ k \in 2..n
        BY <1>1, <1>12, <2>2
    <3>2. flat[k] = flat[k - 1] \o seqs[k]
        BY <1>10, <3>1
    <3>3. flat[k] \in Seq(X)
        BY <1>2, <3>1, <3>2
    <3> QED
        BY <1>1, <3>3
  <2> QED
      BY <2>1, <2>2
<1>13. \A i \in 1..n : flat[i] \in Seq(X)
  <2>1. 0..n \subseteq S
    <3> HIDE DEF S
    <3> QED
        BY <1>1, <1>11, <1>12, Climb
  <2> QED
      BY <1>1, <2>1
<1> QED
    BY <1>10, <1>13 DEF flat, n

\* Flattening a longer list adds the last part at the end.
LEMMA FlattenAppend ==
    ASSUME NEW X, NEW seqs \in Seq(Seq(X)), NEW last \in Seq(X)
    PROVE  /\ FlattenSeq(seqs) \in Seq(X)
           /\ FlattenSeq(Append(seqs, last)) = FlattenSeq(seqs) \o last
<1> DEFINE n == Len(seqs)
           long == Append(seqs, last)
           f == Flat(seqs)
           g == Flat(long)
<1>1. /\ n \in Nat /\ long \in Seq(Seq(X)) /\ Len(long) = n + 1
      /\ long[n + 1] = last /\ \A i \in 1..n : long[i] = seqs[i] /\ seqs[i] \in Seq(X)
    OBVIOUS
<1>2. /\ \A i \in 1..n : f[i] \in Seq(X)
      /\ n > 0 => f[1] = seqs[1]
      /\ \A i \in 2..n : f[i] = f[i - 1] \o seqs[i]
    BY FlatUnfold
<1>3. /\ \A i \in 1..(n + 1) : g[i] \in Seq(X)
      /\ g[1] = long[1]
      /\ \A i \in 2..(n + 1) : g[i] = g[i - 1] \o long[i]
  <2> HIDE DEF long, n, g
  <2>1. /\ \A i \in 1..Len(long) : g[i] \in Seq(X)
        /\ Len(long) > 0 => g[1] = long[1]
        /\ \A i \in 2..Len(long) : g[i] = g[i - 1] \o long[i]
      BY <1>1, FlatUnfold DEF g
  <2>2. Len(long) = n + 1 /\ n + 1 > 0
      BY <1>1
  <2> QED
      BY <2>1, <2>2
<1>4. /\ FlattenSeq(seqs) = IF n = 0 THEN seqs ELSE f[n]
      /\ FlattenSeq(long) = IF Len(long) = 0 THEN long ELSE g[Len(long)]
    BY DEF FlattenSeq, Flat
<1>5. FlattenSeq(long) = g[n + 1]
  <2> HIDE DEF long, n, g
  <2> QED
      BY <1>1, <1>4
<1> HIDE DEF long, n, f, g
<1>6. CASE n = 0
  <2>1. seqs = <<>>
      BY <1>6 DEF n
  <2>2. FlattenSeq(seqs) = <<>> /\ g[1] = last
      BY <1>1, <1>3, <1>4, <1>6, <2>1
  <2> QED
      BY <1>5, <1>6, <2>2 DEF long
<1>7. CASE n # 0
  <2> DEFINE S == {k \in 0..n : k > 0 => g[k] = f[k]}
  <2>1. 0 \in S
      BY <1>1
  <2>2. ASSUME NEW k \in 1..n, k - 1 \in S PROVE k \in S
    <3>1. CASE k = 1
      <4>1. g[1] = long[1] /\ f[1] = seqs[1] /\ long[1] = seqs[1]
          BY <1>1, <1>2, <1>3, <1>7, <3>1
      <4> QED
          BY <3>1, <4>1
    <3>2. CASE k # 1
      <4>1. k \in 2..n /\ k \in 2..(n + 1) /\ k - 1 > 0
          BY <1>1, <3>2
      <4>2. g[k - 1] = f[k - 1]
          BY <2>2, <4>1
      <4>3. f[k] = f[k - 1] \o seqs[k] /\ g[k] = g[k - 1] \o long[k] /\ long[k] = seqs[k]
          BY <1>1, <1>2, <1>3, <4>1
      <4>4. g[k] = f[k]
          BY <4>2, <4>3
      <4> QED
          BY <4>4
    <3> QED
        BY <3>1, <3>2
  <2>3. n \in S
    <3> HIDE DEF S
    <3>1. 0..n \subseteq S
        BY <1>1, <2>1, <2>2, Climb
    <3> QED
        BY <1>1, <3>1
  <2>4. g[n] = f[n] /\ g[n + 1] = g[n] \o last
    <3>1. n > 0 /\ n + 1 \in 2..(n + 1) /\ (n + 1) - 1 = n
        BY <1>1, <1>7
    <3>2. g[n] = f[n]
        BY <2>3, <3>1
    <3>3. g[n + 1] = g[(n + 1) - 1] \o long[n + 1]
        BY <1>3, <3>1
    <3> QED
        BY <1>1, <3>1, <3>2, <3>3
  <2> QED
      BY <1>1, <1>2, <1>4, <1>5, <1>7, <2>4 DEF long
<1> QED
    BY <1>6, <1>7

\* What the client has read after one more line.
LEMMA ContentAppend ==
    ASSUME NEW X, NEW lines, NEW line,
           NEW L, lines \in Seq(L), line \in L, \A l \in L : l.text \in Seq(X)
    PROVE  /\ Content(lines) \in Seq(X)
           /\ Content(Append(lines, line)) = Content(lines) \o line.text
<1> DEFINE texts == [i \in DOMAIN lines |-> lines[i].text]
           more == [i \in DOMAIN Append(lines, line) |-> Append(lines, line)[i].text]
<1>1. texts \in Seq(Seq(X)) /\ line.text \in Seq(X)
    OBVIOUS
<1>2. more = Append(texts, line.text)
    OBVIOUS
<1>3. Content(lines) = FlattenSeq(texts) /\ Content(Append(lines, line)) = FlattenSeq(more)
    BY DEF Content
<1> HIDE DEF texts, more
<1> QED
    BY <1>1, <1>2, <1>3, FlattenAppend

\* Nothing read yet.
LEMMA ContentEmpty == Content(<<>>) = <<>>
<1>1. [i \in DOMAIN <<>> |-> <<>>[i].text] = <<>>
    OBVIOUS
<1>2. Content(<<>>) = FlattenSeq([i \in DOMAIN <<>> |-> <<>>[i].text])
    BY DEF Content
<1>3. FlattenSeq(<<>>) = <<>>
    BY DEF FlattenSeq
<1> QED
    BY <1>1, <1>2, <1>3

-----------------------------------------------------------------------------
(* What is fixed when the process starts.                                  *)

\* The candidates are providers of the catalogue, and there are none exactly
\* when the check before the 200 refuses the model.
LEMMA ChainFacts ==
    ASSUME FixedShape
    PROVE  /\ registry \in Registries
           /\ chain \in Seq(Range(Catalogue))
           /\ Len(chain) \in Nat
           /\ \A i \in 1..Len(chain) : chain[i].kind \in Kinds
           /\ chain = <<>> <=> ~Known(registry, Model)
<1>1. registry \in Registries /\ \A i \in DOMAIN registry : registry[i] \in Range(Catalogue)
  <2>1. registry \in Seq(Range(Catalogue))
      BY DEF FixedShape
  <2>2. Range(Catalogue) \subseteq Configs
      BY StreamingAssumption DEF Range
  <2> QED
      BY <2>1, <2>2 DEF Registries
<1>2. chain = select_providers(registry, Model)
    BY DEF FixedShape
<1> DEFINE n == Cardinality(Candidates(registry, Model))
<1>3. n \in Nat /\ DOMAIN chain = 1..n
    BY <1>1, <1>2, CandidatesFinite DEF select_providers
<1>4. \A i \in 1..n : chain[i] \in Range(Catalogue)
  <2> SUFFICES ASSUME NEW i \in 1..n PROVE chain[i] \in Range(Catalogue)
      OBVIOUS
  <2>1. \E j \in Candidates(registry, Model) : chain[i] = registry[j]
      BY <1>1, <1>2, <1>3, Chosen
  <2> QED
      BY <1>1, <2>1 DEF Candidates
<1>5. chain = [i \in 1..n |-> chain[i]]
    BY <1>2 DEF select_providers
<1>6. chain \in Seq(Range(Catalogue)) /\ Len(chain) = n
  <2> HIDE DEF n
  <2> QED
      BY <1>3, <1>4, <1>5
<1>7. \A p \in Range(Catalogue) : p.kind \in Kinds
    BY StreamingAssumption DEF Range
<1>8. chain = <<>> <=> DOMAIN chain = {}
    BY <1>3, <1>6
<1>9. chain = <<>> <=> ~Known(registry, Model)
    BY <1>1, <1>2, <1>8, KnownIffRoutable
<1> QED
    BY <1>1, <1>3, <1>4, <1>6, <1>7, <1>9

\* The invariant holds before the first request.
LEMMA InitIInv == Init => IInv
<1> SUFFICES ASSUME Init PROVE IInv
    OBVIOUS
<1>1. FixedShape
  <2>1. Catalogue \in Seq(Range(Catalogue))
      BY StreamingAssumption DEF Range
  <2>2. PICK enabled \in Settings : registry = build_registry(Catalogue, enabled)
      BY DEF Init
  <2>3. registry \in Seq(Range(Catalogue))
      BY <2>1, <2>2, RegistryType
  <2> QED
      BY <2>3 DEF Init, FixedShape
<1>2. Len(chain) \in Nat /\ MaxPieces \in Nat
    BY <1>1, ChainFacts, StreamingAssumption
<1>3. Shape
  <2>1. NoTokens \in Tokens /\ Fresh \in Wires /\ NewAdapter \in Adapters
      BY <1>2 DEF NoTokens, Tokens, Fresh, Wires, NewAdapter, Adapters
  <2>2. NewAccumulator \in Accumulators
      BY <2>1 DEF NewAccumulator, Accumulators
  <2> QED
      BY <1>2, <2>1, <2>2 DEF Init, Shape, Labels, Errors
<1>4. ASSUME NEW s \in Streams PROVE StreamInv(s)
  <2>1. /\ pc[s] = "idle" /\ cand[s] = 1 /\ wire[s] = Fresh /\ serving[s] = 0
        /\ usage[s] = NoTokens /\ acc[s] = NewAccumulator /\ reply[s] = None
        /\ seen[s] = <<>> /\ rows[s] = <<>>
      BY DEF Init
  <2>2. Route(s) /\ Place(s) /\ Report(s)
      BY <2>1 DEF Route, Place, Report, Fresh, NewAccumulator
  <2>3. Source(s) /\ Account(s) /\ Replaying(s)
      BY <2>1 DEF Source, Account, Replaying
  <2>4. Accumulated(s)
      BY <2>1, ContentEmpty DEF Accumulated, NewAccumulator
  <2> QED
      BY <2>2, <2>3, <2>4 DEF StreamInv
<1>5. CacheTruthful
    BY DEF Init, CacheTruthful
<1> QED
    BY <1>1, <1>3, <1>4, <1>5 DEF IInv

-----------------------------------------------------------------------------
(* A step of one stream.                                                   *)

\* a variable of the streams is written for s only, if at all
Written(before, after, s, X) ==
    after = before \/ \E v \in X : after = [before EXCEPT ![s] = v]

Writes(s) ==
    /\ UNCHANGED fixed
    /\ Written(pc, pc', s, Labels)
    /\ Written(cand, cand', s, Nat)
    /\ Written(wire, wire', s, Wires)
    /\ Written(adapter, adapter', s, Adapters)
    /\ Written(lastError, lastError', s, Errors)
    /\ Written(serving, serving', s, 0..Len(chain))
    /\ Written(usage, usage', s, Tokens)
    /\ Written(acc, acc', s, Accumulators)
    /\ Written(reply, reply', s, Responses \cup {None})
    /\ Written(seen, seen', s, Seq(Lines))
    /\ Written(rows, rows', s, Seq(UsageRows))
    /\ cache' \in Responses \cup {None, Unreadable}

\* the state of a stream
Same(t) ==
    /\ pc'[t] = pc[t] /\ cand'[t] = cand[t] /\ wire'[t] = wire[t] /\ adapter'[t] = adapter[t]
    /\ serving'[t] = serving[t] /\ usage'[t] = usage[t] /\ acc'[t] = acc[t]
    /\ reply'[t] = reply[t] /\ seen'[t] = seen[t] /\ rows'[t] = rows[t]

\* A written variable keeps its type, and only s sees the difference.
LEMMA WrittenFacts ==
    ASSUME NEW X, NEW x \in [Streams -> X], NEW y, NEW s \in Streams, Written(x, y, s, X)
    PROVE  y \in [Streams -> X] /\ \A t \in Streams \ {s} : y[t] = x[t]
<1>1. CASE y = x
    BY <1>1
<1>2. CASE \E v \in X : y = [x EXCEPT ![s] = v]
    BY <1>2
<1> QED
    BY <1>1, <1>2 DEF Written

\* Types are kept, and the other streams are left alone.
LEMMA WritesKeep ==
    ASSUME Shape, NEW s \in Streams, Writes(s)
    PROVE  Shape' /\ \A t \in Streams \ {s} : Same(t)
<1>1. Lines' = Lines /\ UsageRows' = UsageRows /\ Len(chain') = Len(chain)
    BY DEF Writes, fixed, Lines, UsageRows
<1>2. /\ pc' \in [Streams -> Labels] /\ cand' \in [Streams -> Nat]
      /\ wire' \in [Streams -> Wires] /\ adapter' \in [Streams -> Adapters]
      /\ lastError' \in [Streams -> Errors] /\ serving' \in [Streams -> 0..Len(chain)]
      /\ usage' \in [Streams -> Tokens] /\ acc' \in [Streams -> Accumulators]
      /\ reply' \in [Streams -> Responses \cup {None}] /\ seen' \in [Streams -> Seq(Lines)]
      /\ rows' \in [Streams -> Seq(UsageRows)]
    BY WrittenFacts DEF Shape, Writes
<1>3. \A t \in Streams \ {s} : Same(t)
  <2>0. ASSUME NEW x, NEW y, NEW X, x \in [Streams -> X], Written(x, y, s, X)
        PROVE  \A t \in Streams \ {s} : y[t] = x[t]
      BY <2>0, WrittenFacts
  <2>1. \A t \in Streams \ {s} : pc'[t] = pc[t]
    <3>1. pc \in [Streams -> Labels] /\ Written(pc, pc', s, Labels)
        BY DEF Shape, Writes
    <3> QED
        BY <2>0, <3>1
  <2>2. \A t \in Streams \ {s} : cand'[t] = cand[t]
    <3>1. cand \in [Streams -> Nat] /\ Written(cand, cand', s, Nat)
        BY DEF Shape, Writes
    <3> QED
        BY <2>0, <3>1
  <2>3. \A t \in Streams \ {s} : wire'[t] = wire[t]
    <3>1. wire \in [Streams -> Wires] /\ Written(wire, wire', s, Wires)
        BY DEF Shape, Writes
    <3> QED
        BY <2>0, <3>1
  <2>4. \A t \in Streams \ {s} : adapter'[t] = adapter[t]
    <3>1. adapter \in [Streams -> Adapters] /\ Written(adapter, adapter', s, Adapters)
        BY DEF Shape, Writes
    <3> QED
        BY <2>0, <3>1
  <2>5. \A t \in Streams \ {s} : serving'[t] = serving[t]
    <3>1. serving \in [Streams -> 0..Len(chain)] /\ Written(serving, serving', s, 0..Len(chain))
        BY DEF Shape, Writes
    <3> QED
        BY <2>0, <3>1
  <2>6. \A t \in Streams \ {s} : usage'[t] = usage[t]
    <3>1. usage \in [Streams -> Tokens] /\ Written(usage, usage', s, Tokens)
        BY DEF Shape, Writes
    <3> QED
        BY <2>0, <3>1
  <2>7. \A t \in Streams \ {s} : acc'[t] = acc[t]
    <3>1. acc \in [Streams -> Accumulators] /\ Written(acc, acc', s, Accumulators)
        BY DEF Shape, Writes
    <3> QED
        BY <2>0, <3>1
  <2>8. \A t \in Streams \ {s} : reply'[t] = reply[t]
    <3>1. /\ reply \in [Streams -> Responses \cup {None}]
          /\ Written(reply, reply', s, Responses \cup {None})
        BY DEF Shape, Writes
    <3> QED
        BY <2>0, <3>1
  <2>9. \A t \in Streams \ {s} : seen'[t] = seen[t]
    <3>1. seen \in [Streams -> Seq(Lines)] /\ Written(seen, seen', s, Seq(Lines))
        BY DEF Shape, Writes
    <3> QED
        BY <2>0, <3>1
  <2>10. \A t \in Streams \ {s} : rows'[t] = rows[t]
    <3>1. rows \in [Streams -> Seq(UsageRows)] /\ Written(rows, rows', s, Seq(UsageRows))
        BY DEF Shape, Writes
    <3> QED
        BY <2>0, <3>1
  <2> QED
      BY <2>1, <2>2, <2>3, <2>4, <2>5, <2>6, <2>7, <2>8, <2>9, <2>10 DEF Same
<1>4. cache' \in Responses \cup {None, Unreadable}
    BY DEF Writes
<1> HIDE DEF Lines, UsageRows
<1> QED
    BY <1>1, <1>2, <1>3, <1>4 DEF Shape

\* A stream that is left alone keeps its part of the invariant.
LEMMA SameKeeps ==
    ASSUME NEW t \in Streams, StreamInv(t), Same(t), UNCHANGED fixed
    PROVE  StreamInv(t)'
<1> USE DEF Same, fixed
<1>1. Route(t)' /\ Place(t)'
    BY DEF StreamInv, Route, Place
<1>2. Report(t)'
    BY DEF StreamInv, Report, Kind
<1>3. Source(t)'
    BY DEF StreamInv, Source
<1>4. Account(t)'
    BY DEF StreamInv, Account
<1>5. Replaying(t)' /\ Accumulated(t)'
    BY DEF StreamInv, Replaying, Accumulated
<1> QED
    BY <1>1, <1>2, <1>3, <1>4, <1>5 DEF StreamInv

\* A step of one stream keeps the invariant if it keeps the stream's own
\* part of it and stores only what is true of the stream.
LEMMA OneStep ==
    ASSUME IInv, NEW s \in Streams, pc[s] \notin Final, Writes(s), StreamInv(s)',
           reply'[s] = reply[s] \/ (reply'[s] = cache /\ cache \notin {None, Unreadable}),
           cache' \in {cache, None, Unreadable} \/ Truthful(cache)'
    PROVE  IInv'
<1>1. Shape' /\ (\A t \in Streams \ {s} : Same(t)) /\ UNCHANGED fixed
    BY WritesKeep DEF IInv, Writes
<1>2. FixedShape'
    BY <1>1 DEF IInv, FixedShape, fixed
<1>3. \A t \in Streams : StreamInv(t)'
    BY <1>1, SameKeeps DEF IInv
<1>4. ASSUME NEW response, Truthful(response)
      PROVE  Truthful(response)'
  <2>1. response.by \in Streams \ {s}
      BY <1>4 DEF Truthful, Final
  <2>2. Same(response.by)
      BY <1>1, <2>1
  <2> QED
      BY <1>4, <2>2 DEF Truthful, Same
<1>5. CacheTruthful'
  <2>1. cache' \notin {None, Unreadable} => Truthful(cache)'
    <3>1. CASE cache' = cache
      <4> SUFFICES ASSUME cache' \notin {None, Unreadable} PROVE Truthful(cache)'
          OBVIOUS
      <4>1. PICK response : response = cache
          OBVIOUS
      <4>2. Truthful(response)'
          BY <1>4, <3>1, <4>1 DEF IInv, CacheTruthful
      <4> QED
          BY <3>1, <4>1, <4>2 DEF Truthful
    <3> QED
        BY <3>1
  <2>2. ASSUME NEW t \in Streams, reply'[t] # None PROVE Truthful(reply[t])'
    <3>1. PICK response : response = reply'[t]
        OBVIOUS
    <3>2. Truthful(response)
      <4>1. CASE reply'[t] = reply[t]
          BY <2>2, <3>1, <4>1 DEF IInv, CacheTruthful
      <4>2. CASE reply'[t] # reply[t]
        <5>1. t = s
            BY <1>1, <4>2 DEF Same
        <5> QED
            BY <3>1, <4>2, <5>1 DEF IInv, CacheTruthful
      <4> QED
          BY <4>1, <4>2
    <3>3. Truthful(response)'
        BY <1>4, <3>2
    <3> QED
        BY <3>1, <3>3 DEF Truthful
  <2> QED
      BY <2>1, <2>2 DEF CacheTruthful
<1> QED
    BY <1>1, <1>2, <1>3, <1>5 DEF IInv

-----------------------------------------------------------------------------
(* Before the provider is called, and after it.                            *)

\* What each action relies on: the types of the stream's own state.
LEMMA OwnState ==
    ASSUME IInv, NEW s \in Streams
    PROVE  /\ StreamInv(s) /\ Len(chain) \in Nat /\ MaxPieces \in Nat
           /\ cand[s] \in Nat /\ wire[s] \in Wires /\ adapter[s] \in Adapters
           /\ lastError[s] \in Errors /\ serving[s] \in 0..Len(chain)
           /\ usage[s] \in Tokens /\ acc[s] \in Accumulators
           /\ reply[s] \in Responses \cup {None}
           /\ seen[s] \in Seq(Lines) /\ rows[s] \in Seq(UsageRows)
<1>1. Len(chain) \in Nat /\ MaxPieces \in Nat
    BY ChainFacts, StreamingAssumption DEF IInv
<1>2. StreamInv(s)
    BY DEF IInv
<1> HIDE DEF Wires, Adapters, Errors, Tokens, Accumulators, Responses, Lines, UsageRows
<1> QED
    BY <1>1, <1>2 DEF IInv, Shape

\* What the client has read when it gets one more line.
LEMMA LineRead ==
    ASSUME NEW lines \in Seq(Lines), NEW line \in Lines
    PROVE  Content(Append(lines, line)) = Content(lines) \o line.text
<1>1. PICK L, X : L = Lines /\ X = 0..MaxPieces
    OBVIOUS
<1>2. \A l \in L : l.text \in Seq(X)
    BY <1>1 DEF Lines
<1> HIDE DEF Lines
<1>3. lines \in Seq(L) /\ line \in L
    BY <1>1
<1> QED
    BY <1>2, <1>3, ContentAppend

\* The stream moves on, and nothing else happens but to the cache entry.
LEMMA MoveKeeps ==
    ASSUME IInv, NEW s \in Streams, NEW label \in {"get", "discard", "open"},
           pc[s] \in {"idle", "get", "discard"}, chain # <<>>, Goto(s, label),
           UNCHANGED <<fixed, upstream, relay, reply, seen, rows>>, cache' \in {cache, None}
    PROVE  IInv'
<1>1. StreamInv(s) /\ Shape
    BY OwnState DEF IInv
<1>2. Writes(s)
    BY <1>1 DEF Writes, Written, Goto, Labels, Shape, upstream, relay
<1>3. pc'[s] = label /\ fixed' = fixed
    BY <1>1 DEF Goto, Shape
<1>4. /\ cand' = cand /\ wire' = wire /\ adapter' = adapter /\ serving' = serving
      /\ usage' = usage /\ acc' = acc /\ reply' = reply /\ seen' = seen /\ rows' = rows
    BY DEF upstream, relay
<1>5. Route(s)' /\ Place(s)'
    BY <1>1, <1>3, <1>4 DEF StreamInv, Route, Place, Fresh, fixed
<1>6. Report(s)'
    BY <1>1, <1>3, <1>4 DEF StreamInv, Report, Kind, fixed
<1>7. Source(s)' /\ Account(s)'
    BY <1>1, <1>3, <1>4 DEF StreamInv, Source, Account, Place
<1>8. Replaying(s)' /\ Accumulated(s)'
    BY <1>1, <1>3, <1>4 DEF StreamInv, Replaying, Accumulated, Place
<1> QED
    BY <1>2, <1>5, <1>6, <1>7, <1>8, OneStep DEF StreamInv, Final

\* The row of a failed request.
LEMMA FailedRow ==
    ASSUME Len(chain) \in Nat, MaxPieces \in Nat,
           NEW type \in {"model_not_found", "timeout_error", "upstream_error"}
    PROVE  /\ Failed(type) = <<Row("error", 0, NoTokens, type)>>
           /\ Row("error", 0, NoTokens, type) \in UsageRows
    BY DEF Failed, Row, NoTokens, UsageRows, Tokens

\* A new stream is refused with its row, or looks into the cache.
LEMMA StartKeeps ==
    ASSUME IInv, NEW s \in Streams, Start(s)
    PROVE  IInv'
<1>1. StreamInv(s) /\ Shape /\ pc[s] = "idle"
    BY OwnState DEF IInv, Start
<1>2. chain = <<>> <=> ~Known(registry, Model)
    BY ChainFacts DEF IInv
<1>3. CASE Known(registry, Model)
  <2>1. Goto(s, "get") /\ UNCHANGED <<fixed, upstream, relay, reply, seen, rows>> /\ cache' = cache
      BY <1>3 DEF Start
  <2> QED
      BY <1>1, <1>2, <1>3, <2>1, MoveKeeps
<1>4. CASE ~Known(registry, Model)
  <2> DEFINE row == Row("error", 0, NoTokens, "model_not_found")
  <2>1. row \in UsageRows /\ Failed("model_not_found") = <<row>>
      BY OwnState, FailedRow
  <2> HIDE DEF row
  <2>2. rows[s] = <<>> /\ <<>> \o <<row>> = <<row>>
    <3>1. rows[s] = <<>>
        BY <1>1 DEF StreamInv, Account
    <3> QED
        BY <3>1
  <2>3. /\ pc' = [pc EXCEPT ![s] = "rejected"] /\ rows' = [rows EXCEPT ![s] = <<row>>]
        /\ UNCHANGED <<fixed, upstream, relay, reply, seen, cache>>
      BY <1>4, <2>1, <2>2 DEF Start, Goto
  <2>4. <<row>> \in Seq(UsageRows)
      BY <2>1
  <2>5. Writes(s)
      BY <1>1, <2>3, <2>4 DEF Writes, Written, Labels, Final, Shape, upstream, relay
  <2>6. /\ pc'[s] = "rejected" /\ rows'[s] = <<row>> /\ fixed' = fixed
        /\ cand' = cand /\ wire' = wire /\ adapter' = adapter /\ serving' = serving
        /\ usage' = usage /\ acc' = acc /\ reply' = reply /\ seen' = seen /\ cache' = cache
      BY <1>1, <2>3 DEF Shape, upstream, relay
  <2>7. Route(s)' /\ Place(s)'
      BY <1>1, <1>2, <1>4, <2>6 DEF StreamInv, Route, Place, fixed
  <2>8. Report(s)' /\ Source(s)'
      BY <1>1, <2>6 DEF StreamInv, Report, Source, Kind, fixed
  <2>9. row.status = "error"
      BY DEF row, Row
  <2>10. Account(s)'
      BY <1>1, <2>6, <2>9 DEF Account
  <2>11. Replaying(s)' /\ Accumulated(s)'
      BY <1>1, <2>6 DEF StreamInv, Replaying, Accumulated, Place
  <2> QED
      BY <1>1, <2>5, <2>6, <2>7, <2>8, <2>10, <2>11, OneStep DEF StreamInv, Final
<1> QED
    BY <1>3, <1>4

\* A hit: the stream will replay a response that is true.
LEMMA GetHitKeeps ==
    ASSUME IInv, NEW s \in Streams, GetHit(s)
    PROVE  IInv'
<1>1. StreamInv(s) /\ Shape /\ pc[s] = "get" /\ cache \in Responses
    BY OwnState DEF IInv, GetHit, Shape
<1>2. /\ pc' = [pc EXCEPT ![s] = "replay"] /\ reply' = [reply EXCEPT ![s] = cache]
      /\ UNCHANGED <<fixed, upstream, relay, seen, rows, cache>>
      /\ cache \notin {None, Unreadable}
    BY DEF GetHit, Goto
<1>3. Writes(s)
    BY <1>1, <1>2 DEF Writes, Written, Labels, Shape, upstream, relay
<1>4. /\ pc'[s] = "replay" /\ reply'[s] = cache /\ fixed' = fixed
      /\ cand' = cand /\ wire' = wire /\ adapter' = adapter /\ serving' = serving
      /\ usage' = usage /\ acc' = acc /\ seen' = seen /\ rows' = rows /\ cache' = cache
    BY <1>1, <1>2 DEF Shape, upstream, relay
<1>5. Route(s)' /\ Place(s)'
    BY <1>1, <1>4 DEF StreamInv, Route, Place, fixed
<1>6. Report(s)' /\ Source(s)'
    BY <1>1, <1>4 DEF StreamInv, Report, Source, Kind, fixed
<1>7. Account(s)'
    BY <1>1, <1>4 DEF StreamInv, Account
<1>8. seen[s] = <<>> /\ serving[s] = 0
    BY <1>1 DEF StreamInv, Place
<1>9. Replaying(s)' /\ Accumulated(s)'
    BY <1>1, <1>2, <1>4, <1>8 DEF Replaying, Accumulated
<1> QED
    BY <1>1, <1>2, <1>3, <1>4, <1>5, <1>6, <1>7, <1>9, OneStep DEF StreamInv, Final

\* Without a usable entry the stream goes on to the providers.
LEMMA GetMissKeeps ==
    ASSUME IInv, NEW s \in Streams, GetMiss(s) \/ DiscardEntry(s)
    PROVE  IInv'
<1>1. StreamInv(s) /\ pc[s] \in {"get", "discard"}
    BY OwnState DEF GetMiss, DiscardEntry
<1>2. chain # <<>>
    BY <1>1 DEF StreamInv, Route
<1>3. /\ Goto(s, "open") \/ Goto(s, "discard")
      /\ UNCHANGED <<fixed, upstream, relay, reply, seen, rows>> /\ cache' \in {cache, None}
    BY DEF GetMiss, DiscardEntry
<1> QED
    BY <1>1, <1>2, <1>3, MoveKeeps

\* The lines of a replay are lines, and none is an error or of a provider.
LEMMA CachedLines ==
    ASSUME Len(chain) \in Nat, MaxPieces \in Nat, NEW response \in Responses
    PROVE  LET lines == synthesize_cached_stream(response) IN
           /\ lines \in Seq(Lines) /\ Len(lines) = 4
           /\ \A i \in 1..4 : lines[i].from = 0 /\ lines[i].kind # "error"
           /\ lines[1].text = <<>> /\ lines[2].text = response.content
           /\ lines[3].text = <<>> /\ lines[4].text = <<>>
           /\ CachedRow(response) \in UsageRows
           /\ CachedRow(response).status = "ok" /\ CachedRow(response).provider = 0
           /\ CachedRow(response).usage = response.usage
<1>1. /\ response.content \in Seq(0..MaxPieces) /\ response.finish = "stop"
      /\ response.usage \in Tokens
  <2>1. response.content \in Seq(1..MaxPieces)
      BY DEF Responses
  <2>2. \A q \in Seq(1..MaxPieces) : q \in Seq(0..MaxPieces)
      OBVIOUS
  <2> QED
      BY <2>1, <2>2 DEF Responses
<1>2. <<>> \in Seq(0..MaxPieces)
    OBVIOUS
<1>3. /\ Line("chunk", <<>>, "none", NoUsage, 0) \in Lines
      /\ Line("chunk", response.content, "none", NoUsage, 0) \in Lines
      /\ Line("chunk", <<>>, response.finish, response.usage, 0) \in Lines
      /\ DoneLine(0) \in Lines
    BY <1>1, <1>2 DEF Line, DoneLine, Lines
<1>4. CachedRow(response) \in UsageRows
    BY <1>1 DEF CachedRow, Row, UsageRows
<1> QED
    BY <1>3, <1>4 DEF synthesize_cached_stream, Line, DoneLine, CachedRow, Row

\* A replay yields the next line, or ends with the row of a cached answer.
LEMMA ReplayKeeps ==
    ASSUME IInv, NEW s \in Streams, Replay(s)
    PROVE  IInv'
<1>1. StreamInv(s) /\ Shape /\ pc[s] = "replay"
    BY OwnState DEF IInv, Replay
<1> DEFINE lines == synthesize_cached_stream(reply[s])
           n == Len(seen[s])
           row == CachedRow(reply[s])
<1>2. /\ reply[s] \in Responses /\ reply[s] # None /\ serving[s] = 0 /\ rows[s] = <<>>
      /\ n \in 0..4 /\ seen[s] \in Seq(Lines) /\ Len(chain) \in Nat /\ MaxPieces \in Nat
      /\ DOMAIN seen[s] = 1..n
      /\ \A i \in 1..n : seen[s][i] = lines[i]
  <2>1. /\ reply[s] \in Responses \cup {None} /\ seen[s] \in Seq(Lines)
        /\ Len(chain) \in Nat /\ MaxPieces \in Nat
      BY OwnState
  <2>2. /\ reply[s] # None /\ serving[s] = 0 /\ rows[s] = <<>> /\ n <= 4
        /\ \A i \in DOMAIN seen[s] : seen[s][i] = lines[i]
      BY <1>1 DEF StreamInv, Place, Account, Replaying
  <2>3. n \in Nat /\ DOMAIN seen[s] = 1..n
      BY <2>1
  <2> HIDE DEF lines, n
  <2> QED
      BY <2>1, <2>2, <2>3
<1>3. /\ lines \in Seq(Lines) /\ Len(lines) = 4
      /\ \A i \in 1..4 : lines[i].from = 0 /\ lines[i].kind # "error"
      /\ row \in UsageRows /\ row.status = "ok" /\ row.provider = 0 /\ row.usage = reply[s].usage
    BY <1>2, CachedLines
<1> HIDE DEF lines, row
<1>4. CASE n < 4
  <2>1. /\ seen' = [seen EXCEPT ![s] = Append(seen[s], lines[n + 1])]
        /\ UNCHANGED <<fixed, pc, upstream, relay, reply, rows, cache>>
      BY <1>3, <1>4 DEF Replay, lines
  <2>2. PICK more : more = Append(seen[s], lines[n + 1])
      OBVIOUS
  <2>3. /\ more \in Seq(Lines) /\ Len(more) = n + 1 /\ DOMAIN more = 1..(n + 1)
        /\ \A i \in 1..(n + 1) : more[i] = lines[i]
    <3>1. lines[n + 1] \in Lines
      <4>1. n + 1 \in 1..Len(lines)
          BY <1>2, <1>3, <1>4
      <4>2. \A q \in Seq(Lines) : \A i \in 1..Len(q) : q[i] \in Lines
        <5> HIDE DEF Lines
        <5> QED
            OBVIOUS
      <4> QED
          BY <1>3, <4>1, <4>2, Zenon
    <3> QED
        BY <1>2, <2>2, <3>1
  <2>4. Writes(s)
      BY <1>1, <2>1, <2>2, <2>3 DEF Writes, Written, Shape, upstream, relay
  <2>5. /\ seen'[s] = more /\ fixed' = fixed /\ pc' = pc /\ rows' = rows /\ cache' = cache
        /\ cand' = cand /\ wire' = wire /\ adapter' = adapter /\ serving' = serving
        /\ usage' = usage /\ acc' = acc /\ reply' = reply
      BY <1>1, <2>1, <2>2 DEF Shape, upstream, relay
  <2>6. Route(s)' /\ Place(s)'
      BY <1>1, <2>5 DEF StreamInv, Route, Place, fixed
  <2>7. Report(s)'
      BY <1>1, <2>5 DEF StreamInv, Report, Kind, fixed
  <2>8. Source(s)'
    <3>1. \A i \in 1..(n + 1) : i \in 1..4
        BY <1>2, <1>4
    <3>2. \A i \in DOMAIN more : more[i].from = 0 /\ more[i].kind # "error"
      <4> HIDE DEF n
      <4> QED
          BY <1>3, <2>3, <3>1, Zenon
    <3>3. \A i \in DOMAIN more : more[i].from \in {0, serving'[s]} /\ ~GatewayError(more[i])
        BY <3>2 DEF GatewayError
    <3> QED
        BY <2>5, <3>3, Zenon DEF Source
  <2>9. Account(s)'
      BY <1>1, <1>2, <2>5 DEF Account
  <2>10. Replaying(s)'
    <3>1. lines = synthesize_cached_stream(reply'[s])
        BY <2>5 DEF lines
    <3> QED
        BY <1>1, <1>2, <1>4, <2>3, <2>5, <3>1 DEF Replaying
  <2>11. Accumulated(s)'
      BY <1>2, <2>5 DEF Accumulated
  <2> QED
      BY <1>1, <2>4, <2>5, <2>6, <2>7, <2>8, <2>9, <2>10, <2>11, OneStep DEF StreamInv, Final
<1>5. CASE n = 4
  <2>1. Append(rows[s], row) = <<row>>
      BY <1>2
  <2>2. /\ rows' = [rows EXCEPT ![s] = <<row>>] /\ pc' = [pc EXCEPT ![s] = "end"]
        /\ UNCHANGED <<fixed, upstream, relay, reply, seen, cache>>
      BY <1>3, <1>5, <2>1 DEF Replay, Goto, lines, row
  <2>3. <<row>> \in Seq(UsageRows)
      BY <1>3
  <2>4. Writes(s)
      BY <1>1, <2>2, <2>3 DEF Writes, Written, Shape, Labels, Final, upstream, relay
  <2>5. /\ rows'[s] = <<row>> /\ pc'[s] = "end" /\ fixed' = fixed /\ cache' = cache
        /\ cand' = cand /\ wire' = wire /\ adapter' = adapter /\ serving' = serving
        /\ usage' = usage /\ acc' = acc /\ reply' = reply /\ seen' = seen
      BY <1>1, <2>2 DEF Shape, upstream, relay
  <2>6. Route(s)' /\ Place(s)'
      BY <1>1, <2>5 DEF StreamInv, Route, Place, fixed
  <2>7. Report(s)' /\ Source(s)'
      BY <1>1, <2>5 DEF StreamInv, Report, Source, Kind, fixed
  <2>8. ~EndsInError(seen[s])
      BY <1>2, <1>3, <1>5 DEF EndsInError, Last
  <2>9. Account(s)'
      BY <1>2, <1>3, <2>5, <2>8 DEF Account
  <2>10. Replaying(s)' /\ Accumulated(s)'
    <3>1. lines = synthesize_cached_stream(reply'[s])
        BY <2>5 DEF lines
    <3>2. Len(seen'[s]) = 4 /\ \A i \in DOMAIN seen'[s] : seen'[s][i] = lines[i]
        BY <1>2, <1>5, <2>5
    <3>3. Replaying(s)'
        BY <1>2, <1>3, <2>5, <3>1, <3>2 DEF Replaying
    <3>4. Accumulated(s)'
        BY <1>2, <2>5 DEF Accumulated
    <3> QED
        BY <3>3, <3>4
  <2> QED
      BY <1>1, <2>4, <2>5, <2>6, <2>7, <2>9, <2>10, OneStep DEF StreamInv, Final
<1> QED
    BY <1>2, <1>4, <1>5

-----------------------------------------------------------------------------
(* What a provider sends, and what becomes of it.                          *)

\* The phases in which a provider sends an event.
LEMMA EventGuards ==
    ASSUME NEW s, NEW e \in WireEvents(s)
    PROVE  /\ e \in {"start", "text", "finish", "usage", "stop", "fault", "oddtext", "oddfinish"}
           /\ e = "start" => wire[s].phase = "opening"
           /\ e \in {"text", "finish", "oddtext", "oddfinish"} => wire[s].phase = "talking"
           /\ e = "text" => wire[s].pieces < MaxPieces
           /\ e = "usage" => wire[s].phase = "finished"
           /\ e = "stop" => wire[s].phase \in {"finished", "counted"}
           /\ e = "fault" => wire[s].phase \notin {"stopped", "broken", "closed"}
    BY DEF WireEvents

\* The provider that is being called is one of the candidates.
LEMMA Calling ==
    ASSUME IInv, NEW s \in Streams, pc[s] \in {"open", "relay"}
    PROVE  /\ cand[s] \in 1..Len(chain) /\ Kind(s) \in Kinds
           /\ rows[s] = <<>> /\ reply[s] = None
           /\ pc[s] = "open" => seen[s] = <<>> /\ serving[s] = 0
           /\ pc[s] = "relay" => serving[s] = cand[s]
<1>1. StreamInv(s) /\ cand[s] \in Nat
    BY OwnState
<1>2. /\ chain \in Seq(Range(Catalogue)) /\ Len(chain) \in Nat
      /\ \A i \in 1..Len(chain) : chain[i].kind \in Kinds
    BY ChainFacts DEF IInv
<1>3. chain # <<>> /\ cand[s] >= 1 /\ (cand[s] > 1 => cand[s] <= Len(chain))
    BY <1>1 DEF StreamInv, Route
<1>4. cand[s] \in 1..Len(chain)
    BY <1>1, <1>2, <1>3
<1> QED
    BY <1>1, <1>2, <1>4 DEF StreamInv, Place, Account, Kind

\* what the relay may rely on when a line is yielded, w and a being what the
\* provider has sent and the locals of its generator afterwards
Sound(s, line, w, a) ==
    /\ w \in Wires /\ a \in Adapters /\ w.phase # "opening"
    /\ w.phase = "talking" /\ Kind(s) = "anthropic" => a.input = InputTokens
    /\ w.phase = "finished" => Kind(s) # "anthropic"
    /\ w.reported =>
        /\ w.phase \in {"counted", "stopped", "broken", "closed"}
        /\ capture_usage(line, usage[s]) = [in |-> InputTokens, out |-> w.pieces]
    /\ line \in Lines /\ line.from = cand[s] /\ line.text \in Seq(1..MaxPieces)
    /\ line.usage \in Tokens \cup {NoUsage}
    /\ line.kind = "done" => line.text = <<>> /\ line.usage = NoUsage
    /\ line.kind = "chunk" /\ line.finish # "none" => line.finish \in {"stop", "odd"}

\* ChunkAccumulator.feed adds the text and the usage of a line.
LEMMA FeedAdds ==
    ASSUME MaxPieces \in Nat, NEW a \in Accumulators, NEW line,
           line.text \in Seq(1..MaxPieces), line.usage \in Tokens \cup {NoUsage},
           line.kind = "done" => line.text = <<>> /\ line.usage = NoUsage,
           line.kind = "chunk" /\ line.finish # "none" => line.finish \in {"stop", "odd"}
    PROVE  /\ feed(a, line) \in Accumulators
           /\ feed(a, line).content = a.content \o line.text
           /\ feed(a, line).usage = capture_usage(line, a.usage)
<1>1. a.content \in Seq(1..MaxPieces) /\ a.finish \in {"stop", "odd"} /\ a.usage \in Tokens
    BY DEF Accumulators
<1>2. a.content \o line.text \in Seq(1..MaxPieces) /\ a.content \o <<>> = a.content
    BY <1>1
<1>3. capture_usage(line, a.usage) \in Tokens
    BY <1>1 DEF capture_usage
<1>4. CASE line.kind = "done"
    BY <1>1, <1>2, <1>4 DEF feed, capture_usage
<1>5. CASE line.kind # "done"
    BY <1>1, <1>2, <1>3, <1>5 DEF feed, Accumulators
<1> QED
    BY <1>4, <1>5

\* A line is yielded.
LEMMA RelayKeeps ==
    ASSUME IInv, NEW s \in Streams, pc[s] \in {"open", "relay"}, NEW line, NEW w, NEW a,
           Sound(s, line, w, a), Relay(s, line), wire' = [wire EXCEPT ![s] = w],
           adapter' = [adapter EXCEPT ![s] = a], UNCHANGED <<fixed, cand, lastError, reply, cache>>
    PROVE  IInv'
<1>1. StreamInv(s) /\ Shape /\ Len(chain) \in Nat /\ MaxPieces \in Nat
    BY OwnState DEF IInv
<1>2. /\ cand[s] \in 1..Len(chain) /\ rows[s] = <<>> /\ reply[s] = None
      /\ pc[s] = "open" => seen[s] = <<>> /\ serving[s] = 0
      /\ pc[s] = "relay" => serving[s] = cand[s]
    BY Calling
<1>3. usage[s] \in Tokens /\ acc[s] \in Accumulators /\ seen[s] \in Seq(Lines)
    BY OwnState
<1>4. PICK tokens, total, lines :
            /\ tokens = capture_usage(line, usage[s])
            /\ total = feed(acc[s], line)
            /\ lines = Append(seen[s], line)
    OBVIOUS
<1>5. /\ total \in Accumulators /\ total.content = acc[s].content \o line.text
      /\ total.usage = tokens /\ tokens \in Tokens
  <2>1. acc[s].usage = usage[s]
      BY <1>1 DEF StreamInv, Report
  <2>2. tokens \in Tokens
      BY <1>3, <1>4 DEF Sound, capture_usage
  <2> QED
      BY <1>1, <1>3, <1>4, <2>1, <2>2, FeedAdds DEF Sound
<1>6. /\ lines \in Seq(Lines) /\ Len(lines) = Len(seen[s]) + 1
      /\ DOMAIN lines = 1..(Len(seen[s]) + 1) /\ DOMAIN seen[s] = 1..Len(seen[s])
      /\ lines[Len(seen[s]) + 1] = line
      /\ \A i \in DOMAIN seen[s] : lines[i] = seen[s][i]
  <2>1. line \in Lines
      BY DEF Sound
  <2> HIDE DEF Lines
  <2> QED
      BY <1>3, <1>4, <2>1
<1>7. (IF serving[s] = 0 THEN cand[s] ELSE serving[s]) = cand[s]
    BY <1>2
<1>8. /\ serving' = [serving EXCEPT ![s] = cand[s]] /\ usage' = [usage EXCEPT ![s] = tokens]
      /\ acc' = [acc EXCEPT ![s] = total] /\ seen' = [seen EXCEPT ![s] = lines]
      /\ pc' = [pc EXCEPT ![s] = "relay"] /\ rows' = rows
      /\ wire' = [wire EXCEPT ![s] = w] /\ adapter' = [adapter EXCEPT ![s] = a]
      /\ UNCHANGED <<fixed, cand, lastError, reply, cache>>
    BY <1>4, <1>7 DEF Relay, Goto
<1>9. Writes(s)
  <2>1. w \in Wires /\ a \in Adapters /\ cand[s] \in 0..Len(chain) /\ "relay" \in Labels
      BY <1>1, <1>2 DEF Sound, Labels
  <2> QED
      BY <1>1, <1>5, <1>6, <1>8, <2>1 DEF Writes, Written, Shape
<1>10. /\ serving'[s] = cand[s] /\ usage'[s] = tokens /\ acc'[s] = total /\ seen'[s] = lines
       /\ pc'[s] = "relay" /\ wire'[s] = w /\ adapter'[s] = a /\ fixed' = fixed
       /\ rows' = rows /\ cand' = cand /\ reply' = reply /\ cache' = cache
    BY <1>1, <1>8 DEF Shape
<1>11. Route(s)' /\ Place(s)'
    BY <1>1, <1>2, <1>10 DEF StreamInv, Route, Place, fixed, Sound
<1>12. Report(s)'
    BY <1>4, <1>5, <1>10 DEF Report, Kind, fixed, Sound
<1>13. Source(s)'
  <2>1. line.from = cand[s] /\ cand[s] # 0
      BY <1>2 DEF Sound
  <2>2. \A i \in DOMAIN seen[s] : seen[s][i].from \in {0, cand[s]} /\ ~GatewayError(seen[s][i])
      BY <1>1, <1>2 DEF StreamInv, Source
  <2>3. \A i \in DOMAIN lines : i \in DOMAIN seen[s] \/ i = Len(seen[s]) + 1
      BY <1>3, <1>6
  <2>4. \A i \in DOMAIN lines : lines[i].from \in {0, cand[s]} /\ ~GatewayError(lines[i])
      BY <1>6, <2>1, <2>2, <2>3 DEF GatewayError
  <2> QED
      BY <1>10, <2>4 DEF Source
<1>14. Account(s)'
    BY <1>2, <1>10 DEF Account
<1>15. Replaying(s)'
    BY <1>2, <1>10 DEF Replaying
<1>16. Accumulated(s)'
  <2>1. Content(lines) = Content(seen[s]) \o line.text
    <3>1. line \in Lines
        BY DEF Sound
    <3> HIDE DEF Lines
    <3> QED
        BY <1>3, <1>4, <3>1, LineRead
  <2>2. acc[s].content = Content(seen[s])
      BY <1>1, <1>2 DEF StreamInv, Accumulated
  <2> QED
      BY <1>5, <1>10, <2>1, <2>2 DEF Accumulated
<1> QED
    BY <1>9, <1>10, <1>11, <1>12, <1>13, <1>14, <1>15, <1>16, OneStep DEF StreamInv, Final

\* A translated event is sound; the adapters agree with what was reported.
LEMMA EventSound ==
    ASSUME IInv, NEW s \in Streams, pc[s] \in {"open", "relay"}, NEW e \in WireEvents(s),
           Translate(s, e) # NoLine, Translate(s, e).text # << 0 >>
    PROVE  Sound(s, Translate(s, e), AfterEvent(s, e),
                 [input |-> InputFromStart(s, e),
                  done |-> adapter[s].done \/ Translate(s, e).kind = "done"])
<1> DEFINE line == Translate(s, e)
           w == wire[s]
           v == AfterEvent(s, e)
           done == adapter[s].done \/ line.kind = "done"
           a == [input |-> InputFromStart(s, e), done |-> done]
<1>1. /\ MaxPieces \in Nat /\ InputTokens \in Nat /\ Len(chain) \in Nat
      /\ w \in Wires /\ w.phase \in {"opening", "talking", "finished", "counted", "stopped",
                                     "broken", "closed"}
      /\ w.pieces \in 0..MaxPieces /\ w.reported \in BOOLEAN
      /\ adapter[s].input \in {0, InputTokens} /\ usage[s] \in Tokens
      /\ cand[s] \in 0..Len(chain) /\ Kind(s) \in Kinds
    BY OwnState, Calling, StreamingAssumption DEF Wires, Adapters
<1>2. /\ w.phase = "talking" /\ Kind(s) = "anthropic" => adapter[s].input = InputTokens
      /\ w.phase = "finished" => Kind(s) # "anthropic"
      /\ w.reported => /\ w.phase \in {"counted", "stopped", "broken", "closed"}
                       /\ usage[s] = [in |-> InputTokens, out |-> w.pieces]
    BY OwnState DEF StreamInv, Report
<1>3. a \in Adapters
  <2>1. InputFromStart(s, e) \in {0, InputTokens}
      BY <1>1 DEF InputFromStart
  <2>2. done \in BOOLEAN
      OBVIOUS
  <2> HIDE DEF done
  <2> QED
      BY <2>1, <2>2 DEF Adapters
<1>4. /\ NoUsage \notin Tokens /\ <<>> \in Seq(1..MaxPieces) /\ <<>> \in Seq(0..MaxPieces)
      /\ \A n \in 0..MaxPieces : [in |-> InputTokens, out |-> n] \in Tokens
    BY <1>1 DEF NoUsage, Tokens
<1>5. ASSUME w.pieces < MaxPieces
      PROVE  <<w.pieces + 1>> \in Seq(1..MaxPieces) /\ <<w.pieces + 1>> \in Seq(0..MaxPieces)
    BY <1>1, <1>5
<1>6. a.input = InputFromStart(s, e)
    OBVIOUS
<1> HIDE DEF a, done
<1>7. CASE e = "start"
  <2>1. w.phase = "opening" /\ ~w.reported
      BY <1>1, <1>2, <1>7, EventGuards
  <2>2. v = [w EXCEPT !.phase = "talking"]
      BY <1>7 DEF AfterEvent
  <2>3. v \in Wires /\ v.phase = "talking" /\ ~v.reported
      BY <1>1, <2>1, <2>2 DEF Wires
  <2>4. line = Line("chunk", <<>>, "none", NoUsage, cand[s])
      BY <1>7 DEF Translate, OpenAILine, AnthropicLine
  <2>5. /\ line \in Lines /\ line.from = cand[s] /\ line.text = <<>> /\ line.usage = NoUsage
        /\ line.kind = "chunk" /\ line.finish = "none"
      BY <1>1, <1>4, <2>4 DEF Line, Lines
  <2>6. Kind(s) = "anthropic" => a.input = InputTokens
      BY <1>6, <1>7 DEF InputFromStart
  <2> HIDE DEF line, v
  <2> QED
      BY <1>3, <1>4, <2>3, <2>5, <2>6 DEF Sound, line, v, a, done
<1>8. CASE e = "text"
  <2>1. w.phase = "talking" /\ w.pieces < MaxPieces /\ ~w.reported
      BY <1>1, <1>2, <1>8, EventGuards
  <2>2. v = [w EXCEPT !.pieces = w.pieces + 1]
      BY <1>8, <2>1 DEF AfterEvent
  <2>3. v \in Wires /\ v.phase = "talking" /\ ~v.reported
      BY <1>1, <2>1, <2>2 DEF Wires
  <2>4. line = Line("chunk", <<w.pieces + 1>>, "none", NoUsage, cand[s])
      BY <1>8 DEF Translate, OpenAILine, AnthropicLine
  <2>5. /\ line \in Lines /\ line.from = cand[s] /\ line.text \in Seq(1..MaxPieces)
        /\ line.usage = NoUsage /\ line.kind = "chunk" /\ line.finish = "none"
      BY <1>1, <1>5, <2>1, <2>4 DEF Line, Lines
  <2>6. a.input = adapter[s].input
      BY <1>6, <1>8 DEF InputFromStart
  <2> HIDE DEF line, v
  <2> QED
      BY <1>2, <1>3, <2>1, <2>3, <2>5, <2>6 DEF Sound, line, v, a, done
<1>9. CASE e \in {"finish", "oddfinish"} /\ Kind(s) = "anthropic"
  <2>1. w.phase = "talking" /\ ~w.reported /\ adapter[s].input = InputTokens
      BY <1>1, <1>2, <1>9, EventGuards
  <2>2. v = [w EXCEPT !.phase = "counted", !.reported = TRUE]
      BY <1>9 DEF AfterEvent
  <2>3. v \in Wires /\ v.phase = "counted" /\ v.pieces = w.pieces
      BY <1>1, <2>1, <2>2 DEF Wires
  <2>4. line = Line("chunk", <<>>, "stop", [in |-> InputTokens, out |-> w.pieces], cand[s])
      BY <1>9, <2>1 DEF Translate, AnthropicLine
  <2>5. /\ line \in Lines /\ line.from = cand[s] /\ line.text = <<>>
        /\ line.usage = [in |-> InputTokens, out |-> w.pieces] /\ line.usage \in Tokens
        /\ line.kind = "chunk" /\ line.finish = "stop"
      BY <1>1, <1>4, <2>4 DEF Line, Lines
  <2>6. capture_usage(line, usage[s]) = [in |-> InputTokens, out |-> v.pieces]
    <3>1. line.usage # NoUsage
        BY <1>4, <2>5
    <3> QED
        BY <2>3, <2>5, <3>1 DEF capture_usage
  <2> HIDE DEF line, v
  <2> QED
      BY <1>3, <1>4, <2>3, <2>5, <2>6 DEF Sound, line, v, a, done
<1>10. CASE e \in {"finish", "oddfinish"} /\ Kind(s) # "anthropic"
  <2>1. w.phase = "talking" /\ ~w.reported
      BY <1>1, <1>2, <1>10, EventGuards
  <2>2. v = [w EXCEPT !.phase = "finished"]
      BY <1>10 DEF AfterEvent
  <2>3. v \in Wires /\ v.phase = "finished" /\ ~v.reported
      BY <1>1, <2>1, <2>2 DEF Wires
  <2>4. \E finish \in {"stop", "odd"} : line = Line("chunk", <<>>, finish, NoUsage, cand[s])
      BY <1>10 DEF Translate, OpenAILine
  <2>5. /\ line \in Lines /\ line.from = cand[s] /\ line.text = <<>> /\ line.usage = NoUsage
        /\ line.kind = "chunk" /\ line.finish \in {"stop", "odd"}
      BY <1>1, <1>4, <2>4 DEF Line, Lines
  <2> HIDE DEF line, v
  <2> QED
      BY <1>3, <1>4, <1>10, <2>3, <2>5 DEF Sound, line, v, a, done
<1>11. CASE e = "usage"
  <2>1. w.phase = "finished" /\ Kind(s) # "anthropic"
      BY <1>2, <1>11, EventGuards
  <2>2. v = [w EXCEPT !.phase = "counted", !.reported = TRUE]
      BY <1>11 DEF AfterEvent
  <2>3. v \in Wires /\ v.phase = "counted" /\ v.pieces = w.pieces
      BY <1>1, <2>1, <2>2 DEF Wires
  <2>4. line = Line("chunk", <<>>, "none", [in |-> InputTokens, out |-> w.pieces], cand[s])
      BY <1>11, <2>1 DEF Translate, OpenAILine
  <2>5. /\ line \in Lines /\ line.from = cand[s] /\ line.text = <<>>
        /\ line.usage = [in |-> InputTokens, out |-> w.pieces] /\ line.usage \in Tokens
        /\ line.kind = "chunk" /\ line.finish = "none"
      BY <1>1, <1>4, <2>4 DEF Line, Lines
  <2>6. capture_usage(line, usage[s]) = [in |-> InputTokens, out |-> v.pieces]
    <3>1. line.usage # NoUsage
        BY <1>4, <2>5
    <3> QED
        BY <2>3, <2>5, <3>1 DEF capture_usage
  <2> HIDE DEF line, v
  <2> QED
      BY <1>3, <1>4, <2>3, <2>5, <2>6 DEF Sound, line, v, a, done
<1>12. CASE e \in {"stop", "fault"}
  <2>1. PICK phase \in {"stopped", "broken"} : v = [w EXCEPT !.phase = phase]
      BY <1>12 DEF AfterEvent
  <2>2. /\ v \in Wires /\ v.phase = phase /\ v.reported = w.reported /\ v.pieces = w.pieces
      BY <1>1, <2>1 DEF Wires
  <2>3. \/ line = DoneLine(cand[s])
        \/ line = Line("error", <<>>, "none", NoUsage, cand[s])
    <3>1. e = "fault" => Kind(s) # "anthropic"
        BY DEF Translate, AnthropicLine
    <3> QED
        BY <1>12, <3>1 DEF Translate, OpenAILine, AnthropicLine
  <2>4. /\ line \in Lines /\ line.from = cand[s] /\ line.text = <<>> /\ line.usage = NoUsage
        /\ line.kind \in {"done", "error"}
    <3> HIDE DEF line
    <3>1. PICK kind \in {"done", "error"} : line = Line(kind, <<>>, "none", NoUsage, cand[s])
        BY <2>3 DEF DoneLine
    <3> QED
        BY <1>1, <1>4, <3>1 DEF Line, Lines
  <2>5. capture_usage(line, usage[s]) = usage[s]
      BY <2>4 DEF capture_usage
  <2> HIDE DEF line, v
  <2> QED
      BY <1>2, <1>3, <1>4, <2>2, <2>4, <2>5 DEF Sound, line, v, a, done
<1>13. e # "oddtext"
  <2>1. CASE Kind(s) = "anthropic"
      BY <2>1 DEF Translate, AnthropicLine, Line
  <2>2. CASE Kind(s) # "anthropic"
      BY <2>2 DEF Translate, OpenAILine, Line
  <2> QED
      BY <2>1, <2>2
<1> QED
    BY <1>7, <1>8, <1>9, <1>10, <1>11, <1>12, <1>13, EventGuards DEF line, v, a, done

\* An event that is dropped, or that kills the generator, reports nothing
\* that the stream does not know.
LEMMA DroppedEvent ==
    ASSUME IInv, NEW s \in Streams, pc[s] \in {"open", "relay"}, NEW e \in WireEvents(s),
           Translate(s, e) = NoLine \/ Translate(s, e).text = << 0 >>
    PROVE  LET w == wire[s]
               v == AfterEvent(s, e) IN
           /\ v \in Wires /\ v.reported = w.reported
           /\ w.reported => v.pieces = w.pieces
           /\ v.phase = "broken" \/ (v.phase = "talking" /\ w.phase = "talking")
           /\ InputFromStart(s, e) = adapter[s].input
<1> DEFINE w == wire[s]
           v == AfterEvent(s, e)
<1>1. /\ MaxPieces \in Nat /\ w \in Wires /\ w.pieces \in 0..MaxPieces
      /\ w.reported \in BOOLEAN /\ Kind(s) \in Kinds
      /\ w.reported => w.phase \in {"counted", "stopped", "broken", "closed"}
      /\ w.phase = "finished" => Kind(s) # "anthropic"
  <2>1. w \in Wires /\ MaxPieces \in Nat /\ StreamInv(s) /\ Kind(s) \in Kinds
      BY OwnState, Calling
  <2> QED
      BY <2>1 DEF Wires, StreamInv, Report
<1>2. e \in {"fault", "oddtext"}
  <2> SUFFICES ASSUME e \notin {"fault", "oddtext"} PROVE FALSE
      OBVIOUS
  <2>1. e \in {"start", "text", "finish", "usage", "stop", "oddfinish"}
      BY EventGuards
  <2>2. Kind(s) = "anthropic" => e # "usage"
      BY <1>1, EventGuards
  <2>3. PICK kind \in {"chunk", "done"}, text \in {<<>>, <<w.pieces + 1>>} :
            \E finish, tokens, from : Translate(s, e) = Line(kind, text, finish, tokens, from)
    <3>1. CASE Kind(s) = "anthropic"
        BY <2>1, <2>2, <3>1 DEF Translate, AnthropicLine, DoneLine
    <3>2. CASE Kind(s) # "anthropic"
        BY <2>1, <3>2 DEF Translate, OpenAILine, DoneLine
    <3> QED
        BY <3>1, <3>2
  <2>4. Translate(s, e).text = text /\ Translate(s, e).kind = kind
      BY <2>3 DEF Line
  <2>5. text # << 0 >>
    <3>1. \A n \in Nat : <<n + 1>> # << 0 >> /\ <<>> # << 0 >>
        OBVIOUS
    <3>2. w.pieces \in Nat
        BY <1>1
    <3>3. text \in {<<>>, <<w.pieces + 1>>}
        BY <2>3, Zenon
    <3> QED
        BY <3>1, <3>2, <3>3, Zenon
  <2>6. NoLine.kind = "none"
      BY DEF NoLine, Line
  <2> QED
      BY <2>3, <2>4, <2>5, <2>6
<1>3. CASE e = "fault"
  <2>1. v = [w EXCEPT !.phase = "broken"] /\ InputFromStart(s, e) = adapter[s].input
      BY <1>3 DEF AfterEvent, InputFromStart
  <2>2. v \in Wires /\ v.phase = "broken" /\ v.reported = w.reported /\ v.pieces = w.pieces
      BY <1>1, <2>1 DEF Wires
  <2> HIDE DEF v
  <2> QED
      BY <2>1, <2>2 DEF v
<1>4. CASE e = "oddtext"
  <2>1. w.phase = "talking" /\ ~w.reported
      BY <1>1, <1>4, EventGuards
  <2>2. PICK n \in 0..MaxPieces : v = [w EXCEPT !.pieces = n]
      BY <1>1, <1>4 DEF AfterEvent
  <2>3. v \in Wires /\ v.phase = "talking" /\ v.reported = w.reported
      BY <1>1, <2>1, <2>2 DEF Wires
  <2>4. InputFromStart(s, e) = adapter[s].input
      BY <1>4 DEF InputFromStart
  <2> HIDE DEF v
  <2> QED
      BY <2>1, <2>3, <2>4 DEF v
<1> QED
    BY <1>2, <1>3, <1>4

\* An event of the provider is relayed, dropped, or kills the generator.
LEMMA SendsKeeps ==
    ASSUME IInv, NEW s \in Streams, UpstreamSends(s)
    PROVE  IInv'
<1>1. StreamInv(s) /\ Shape /\ pc[s] \in {"open", "relay"} /\ Len(chain) \in Nat
    BY OwnState DEF IInv, UpstreamSends
<1>2. PICK e, line, w, a :
        /\ e \in WireEvents(s)
        /\ line = Translate(s, e) /\ w = AfterEvent(s, e)
        /\ a = [input |-> InputFromStart(s, e), done |-> adapter[s].done \/ line.kind = "done"]
        /\ wire' = [wire EXCEPT ![s] = w] /\ adapter' = [adapter EXCEPT ![s] = a]
        /\ \/ line = NoLine /\ UNCHANGED <<pc, relay, seen, rows>>
           \/ line # NoLine /\ line.text # << 0 >> /\ Relay(s, line)
           \/ /\ line.text = << 0 >>
              /\ serving' = [serving EXCEPT ![s] = IF @ = 0 THEN cand[s] ELSE @]
              /\ Goto(s, "died")
              /\ UNCHANGED <<usage, acc, seen, rows>>
        /\ UNCHANGED <<fixed, cand, lastError, reply, cache>>
  <2>1. PICK e \in WireEvents(s) :
        LET line == Translate(s, e) IN
        /\ wire' = [wire EXCEPT ![s] = AfterEvent(s, e)]
        /\ adapter' = [adapter EXCEPT ![s] =
                [input |-> InputFromStart(s, e), done |-> @.done \/ line.kind = "done"]]
        /\ \/ line = NoLine /\ UNCHANGED <<pc, relay, seen, rows>>
           \/ line # NoLine /\ line.text # << 0 >> /\ Relay(s, line)
           \/ /\ line.text = << 0 >>
              /\ serving' = [serving EXCEPT ![s] = IF @ = 0 THEN cand[s] ELSE @]
              /\ Goto(s, "died")
              /\ UNCHANGED <<usage, acc, seen, rows>>
      BY Zenon DEF UpstreamSends
  <2>2. UNCHANGED <<fixed, cand, lastError, reply, cache>>
      BY DEF UpstreamSends
  <2>3. PICK line, w, a :
        /\ line = Translate(s, e) /\ w = AfterEvent(s, e)
        /\ a = [input |-> InputFromStart(s, e), done |-> adapter[s].done \/ line.kind = "done"]
      OBVIOUS
  <2> QED
      BY <2>1, <2>2, <2>3, Zenon
<1>3. CASE line # NoLine /\ line.text # << 0 >> /\ Relay(s, line)
  <2>1. Sound(s, line, w, a)
      BY <1>1, <1>2, <1>3, EventSound
  <2> QED
      BY <1>1, <1>2, <1>3, <2>1, RelayKeeps
<1>4. ASSUME line = NoLine \/ line.text = << 0 >>,
             UNCHANGED <<usage, acc, seen, rows>>,
             NEW place \in {pc[s], "died"}, NEW by \in {serving[s], cand[s]},
             pc' = [pc EXCEPT ![s] = place], serving' = [serving EXCEPT ![s] = by],
             serving[s] # 0 => by = serving[s], place # "died" => by = serving[s]
      PROVE  IInv'
  <2>1. /\ w \in Wires /\ w.reported = wire[s].reported
        /\ wire[s].reported => w.pieces = wire[s].pieces
        /\ w.phase = "broken" \/ (w.phase = "talking" /\ wire[s].phase = "talking")
        /\ InputFromStart(s, e) = adapter[s].input
      BY <1>1, <1>2, <1>4, DroppedEvent
  <2>2. a \in Adapters /\ a.input = adapter[s].input
    <3>1. adapter[s].input \in {0, InputTokens} /\ adapter[s].done \in BOOLEAN
        BY OwnState DEF Adapters
    <3>2. (adapter[s].done \/ line.kind = "done") \in BOOLEAN
        OBVIOUS
    <3> QED
        BY <1>2, <2>1, <3>1, <3>2 DEF Adapters
  <2>3. /\ cand[s] \in 1..Len(chain) /\ rows[s] = <<>> /\ reply[s] = None
        /\ pc[s] = "open" => seen[s] = <<>> /\ serving[s] = 0
        /\ pc[s] = "relay" => serving[s] = cand[s]
      BY <1>1, Calling
  <2>4. Writes(s)
    <3>1. by \in 0..Len(chain) /\ place \in Labels
        BY <1>1, <1>4, <2>3 DEF Shape, Labels, Final
    <3> QED
        BY <1>1, <1>2, <1>4, <2>1, <2>2, <3>1 DEF Writes, Written, Shape
  <2>5. /\ serving'[s] = by /\ pc'[s] = place /\ wire'[s] = w /\ adapter'[s] = a
        /\ usage' = usage /\ acc' = acc /\ seen' = seen /\ rows' = rows /\ fixed' = fixed
        /\ cand' = cand /\ reply' = reply /\ cache' = cache
      BY <1>1, <1>2, <1>4 DEF Shape
  <2>6. Route(s)'
      BY <1>1, <1>4, <2>5 DEF StreamInv, Route, fixed
  <2>7. Place(s)'
    <3>1. pc[s] = "open" => w.phase = "broken"
        BY <1>1, <2>1 DEF StreamInv, Place
    <3> QED
        BY <1>1, <1>4, <2>1, <2>3, <2>5, <3>1 DEF Place
  <2>8. Report(s)'
      BY <1>1, <2>1, <2>2, <2>5 DEF StreamInv, Report, Kind, fixed
  <2>9. Source(s)'
      BY <1>1, <1>4, <2>3, <2>5 DEF StreamInv, Source
  <2>10. Account(s)' /\ Replaying(s)'
      BY <1>1, <1>4, <2>3, <2>5 DEF Account, Replaying
  <2>11. Accumulated(s)'
      BY <1>1, <2>5 DEF StreamInv, Accumulated
  <2> QED
      BY <1>1, <2>4, <2>5, <2>6, <2>7, <2>8, <2>9, <2>10, <2>11, OneStep DEF StreamInv, Final
<1>5. CASE line = NoLine /\ UNCHANGED <<pc, relay, seen, rows>>
  <2>1. pc' = [pc EXCEPT ![s] = pc[s]] /\ serving' = [serving EXCEPT ![s] = serving[s]]
      BY <1>1, <1>5 DEF Shape, relay
  <2> QED
      BY <1>4, <1>5, <2>1 DEF relay
<1>6. CASE /\ line.text = << 0 >>
           /\ serving' = [serving EXCEPT ![s] = IF @ = 0 THEN cand[s] ELSE @]
           /\ Goto(s, "died")
           /\ UNCHANGED <<usage, acc, seen, rows>>
  <2>1. PICK by \in {serving[s], cand[s]} : by = IF serving[s] = 0 THEN cand[s] ELSE serving[s]
      OBVIOUS
  <2>2. pc' = [pc EXCEPT ![s] = "died"] /\ serving' = [serving EXCEPT ![s] = by]
      BY <1>6, <2>1 DEF Goto
  <2> QED
      BY <1>4, <1>6, <2>1, <2>2
<1> QED
    BY <1>2, <1>3, <1>5, <1>6

\* The error event is the last line, and the row says so.
LEMMA AbortKeeps ==
    ASSUME IInv, NEW s \in Streams, pc[s] \in {"open", "relay"},
           NEW type \in {"timeout_error", "upstream_error"},
           NEW shown \in {"timeout_error", "auth_error", "rate_limit_error", "upstream_error",
                          "no_provider"},
           Abort(s, type, shown)
    PROVE  IInv'
<1> DEFINE line == _sse_error(shown)
           row == Row("error", 0, NoTokens, type)
           n == Len(seen[s])
<1>1. StreamInv(s) /\ Shape /\ Len(chain) \in Nat /\ MaxPieces \in Nat /\ seen[s] \in Seq(Lines)
    BY OwnState DEF IInv
<1>2. /\ rows[s] = <<>> /\ reply[s] = None /\ cand[s] \in 1..Len(chain)
      /\ pc[s] = "open" => seen[s] = <<>> /\ serving[s] = 0
    BY Calling
<1>3. /\ line \in Lines /\ line.from = 0 /\ line.kind = "error" /\ line.text = <<>>
  <2>1. <<>> \in Seq(0..MaxPieces)
      OBVIOUS
  <2> QED
      BY <1>1, <2>1 DEF _sse_error, Line, Lines
<1>4. Failed(type) = <<row>> /\ row \in UsageRows /\ row.status = "error"
    BY <1>1, FailedRow DEF Row
<1>5. rows[s] \o Failed(type) \o OkRow(s, FALSE) = <<row>>
  <2> HIDE DEF row
  <2> QED
      BY <1>2, <1>4 DEF OkRow, RecordsOk
<1> HIDE DEF line, row
<1>6. PICK lines : lines = Append(seen[s], line)
    OBVIOUS
<1>7. /\ lines \in Seq(Lines) /\ n \in Nat /\ Len(lines) = n + 1
      /\ DOMAIN lines = 1..(n + 1) /\ DOMAIN seen[s] = 1..n
      /\ lines[n + 1] = line /\ \A i \in 1..n : lines[i] = seen[s][i]
  <2> HIDE DEF Lines
  <2> QED
      BY <1>1, <1>3, <1>6
<1>8. /\ rows' = [rows EXCEPT ![s] = <<row>>] /\ seen' = [seen EXCEPT ![s] = lines]
      /\ pc' = [pc EXCEPT ![s] = "end"] /\ UNCHANGED <<fixed, upstream, relay, reply, cache>>
    BY <1>5, <1>6 DEF Abort, Goto, line
<1>9. Writes(s)
  <2>1. <<row>> \in Seq(UsageRows) /\ "end" \in Labels
      BY <1>4 DEF Labels, Final
  <2> QED
      BY <1>1, <1>7, <1>8, <2>1 DEF Writes, Written, Shape, upstream, relay
<1>10. /\ rows'[s] = <<row>> /\ seen'[s] = lines /\ pc'[s] = "end" /\ fixed' = fixed
       /\ cand' = cand /\ wire' = wire /\ adapter' = adapter /\ serving' = serving
       /\ usage' = usage /\ acc' = acc /\ reply' = reply /\ cache' = cache
    BY <1>1, <1>8 DEF Shape, upstream, relay
<1>11. Route(s)' /\ Place(s)'
    BY <1>1, <1>10 DEF StreamInv, Route, Place, fixed
<1>12. Report(s)'
    BY <1>1, <1>10 DEF StreamInv, Report, Kind, fixed
<1>13. Source(s)'
  <2>1. \A i \in 1..n : seen[s][i].from \in {0, serving[s]}
      BY <1>1, <1>7 DEF StreamInv, Source
  <2>2. \A i \in 1..(n + 1) : i \in 1..n \/ i = n + 1
      BY <1>7
  <2>3. \A i \in DOMAIN lines : lines[i].from \in {0, serving[s]}
      BY <1>3, <1>7, <2>1, <2>2
  <2> QED
      BY <1>10, <2>3 DEF Source
<1>14. Account(s)'
  <2>1. EndsInError(lines)
      BY <1>3, <1>7 DEF EndsInError, Last
  <2> QED
      BY <1>4, <1>10, <2>1 DEF Account
<1>15. Replaying(s)'
    BY <1>2, <1>10 DEF Replaying
<1>16. Accumulated(s)'
  <2>1. Content(lines) = Content(seen[s]) \o <<>>
      BY <1>1, <1>3, <1>6, LineRead
  <2>2. acc[s].content = Content(seen[s]) /\ acc[s].content \in Seq(1..MaxPieces)
      BY <1>1, <1>2, OwnState DEF StreamInv, Accumulated, Accumulators
  <2>3. Content(lines) = acc[s].content
      BY <2>1, <2>2
  <2> QED
      BY <1>10, <2>3 DEF Accumulated
<1> QED
    BY <1>1, <1>9, <1>10, <1>11, <1>12, <1>13, <1>14, <1>15, <1>16, OneStep DEF StreamInv, Final

\* Falling back starts the next candidate afresh, or ends the stream.
LEMMA TryNextKeeps ==
    ASSUME IInv, NEW s \in Streams, pc[s] = "open", NEW error \in Errors, TryNext(s, error)
    PROVE  IInv'
<1>1. StreamInv(s) /\ Shape /\ Len(chain) \in Nat /\ MaxPieces \in Nat
    BY OwnState DEF IInv
<1>2. CASE cand[s] = Len(chain) /\
           Abort(s, "upstream_error", _classify_upstream_error(error))
  <2>1. _classify_upstream_error(error) \in {"timeout_error", "auth_error", "rate_limit_error",
                                             "upstream_error", "no_provider"}
      BY DEF _classify_upstream_error, Errors
  <2> QED
      BY <1>2, <2>1, AbortKeeps
<1>3. CASE cand[s] < Len(chain)
  <2>1. /\ rows[s] = <<>> /\ reply[s] = None /\ cand[s] \in 1..Len(chain)
        /\ seen[s] = <<>> /\ serving[s] = 0
      BY Calling
  <2>2. PICK next : next = cand[s] + 1
      OBVIOUS
  <2>3. /\ cand' = [cand EXCEPT ![s] = next] /\ wire' = [wire EXCEPT ![s] = Fresh]
        /\ adapter' = [adapter EXCEPT ![s] = NewAdapter]
        /\ lastError' = [lastError EXCEPT ![s] = error]
        /\ pc' = [pc EXCEPT ![s] = "open"]
        /\ UNCHANGED <<fixed, relay, reply, seen, rows, cache>>
    <3>1. cand[s] # Len(chain)
        BY <1>1, <1>3, <2>1
    <3> QED
        BY <2>2, <3>1 DEF TryNext, NextCandidate, Goto
  <2>4. next \in Nat /\ next >= 1 /\ next <= Len(chain)
      BY <1>1, <1>3, <2>1, <2>2
  <2>5. Fresh \in Wires /\ NewAdapter \in Adapters /\ "open" \in Labels
      BY <1>1 DEF Fresh, NewAdapter, Wires, Adapters, Labels
  <2>6. Writes(s)
      BY <1>1, <2>3, <2>4, <2>5 DEF Writes, Written, Shape, relay
  <2>7. /\ cand'[s] = next /\ wire'[s] = Fresh /\ adapter'[s] = NewAdapter /\ pc'[s] = "open"
        /\ serving' = serving /\ usage' = usage /\ acc' = acc /\ fixed' = fixed
        /\ reply' = reply /\ seen' = seen /\ rows' = rows /\ cache' = cache
      BY <1>1, <2>3 DEF Shape, relay
  <2>8. Route(s)' /\ Place(s)'
      BY <1>1, <2>1, <2>4, <2>7 DEF StreamInv, Route, Place, fixed, Fresh
  <2>9. Report(s)'
      BY <1>1, <2>7 DEF StreamInv, Report, Fresh
  <2>10. Source(s)' /\ Account(s)' /\ Replaying(s)' /\ Accumulated(s)'
      BY <1>1, <2>1, <2>7 DEF StreamInv, Source, Account, Replaying, Accumulated
  <2> QED
      BY <1>1, <2>6, <2>7, <2>8, <2>9, <2>10, OneStep DEF StreamInv, Final
<1> QED
    BY <1>2, <1>3 DEF TryNext

\* The row of a completed stream is the provider's, with the usage as it was
\* captured; a stream that is closed early has none.
LEMMA RowOfStream ==
    ASSUME IInv, NEW s \in Streams
    PROVE  /\ OkRow(s, FALSE) = <<>>
           /\ serving[s] # 0 =>
                LET row == Row("ok", serving[s], usage[s], "none") IN
                /\ OkRow(s, TRUE) = <<row>> /\ row \in UsageRows /\ row.status = "ok"
                /\ row.provider = serving[s] /\ row.usage = usage[s]
<1>1. serving[s] \in 0..Len(chain) /\ usage[s] \in Tokens
    BY OwnState
<1> QED
    BY <1>1 DEF OkRow, RecordsOk, Row, UsageRows

\* Without the gateway's error among its lines, a stream does not end in it.
LEMMA NoErrorAtEnd ==
    ASSUME NEW lines \in Seq(Lines), \A i \in DOMAIN lines : ~GatewayError(lines[i])
    PROVE  ~EndsInError(lines)
<1> HIDE DEF Lines
<1>1. lines # <<>> => Len(lines) \in DOMAIN lines
    OBVIOUS
<1> QED
    BY <1>1 DEF EndsInError, GatewayError, Last

\* The end of the body closes the stream, or leads to the next candidate.
LEMMA EndsKeeps ==
    ASSUME IInv, NEW s \in Streams, UpstreamEnds(s)
    PROVE  IInv'
<1>1. StreamInv(s) /\ Shape /\ pc[s] \in {"open", "relay"} /\ Len(chain) \in Nat
    BY OwnState DEF IInv, UpstreamEnds
<1>2. /\ rows[s] = <<>> /\ reply[s] = None /\ cand[s] \in 1..Len(chain)
      /\ pc[s] = "relay" => serving[s] = cand[s]
    BY <1>1, Calling
<1>3. /\ wire[s] \in Wires /\ adapter[s] \in Adapters /\ usage[s] \in Tokens
      /\ lastError[s] \in Errors /\ seen[s] \in Seq(Lines) /\ MaxPieces \in Nat
    BY OwnState
<1>4. CASE /\ adapter' = [adapter EXCEPT ![s].done = TRUE]
           /\ wire' = [wire EXCEPT ![s].phase = "closed"]
           /\ Relay(s, DoneLine(cand[s]))
           /\ UNCHANGED <<fixed, cand, lastError, reply, cache>>
  <2>1. PICK w, a, line : /\ w = [wire[s] EXCEPT !.phase = "closed"]
                          /\ a = [adapter[s] EXCEPT !.done = TRUE]
                          /\ line = DoneLine(cand[s])
      OBVIOUS
  <2>2. wire' = [wire EXCEPT ![s] = w] /\ adapter' = [adapter EXCEPT ![s] = a]
      BY <1>4, <2>1
  <2>3. /\ w \in Wires /\ w.phase = "closed" /\ w.reported = wire[s].reported
        /\ w.pieces = wire[s].pieces
      BY <1>3, <2>1 DEF Wires
  <2>4. a \in Adapters
      BY <1>3, <2>1 DEF Adapters
  <2>5. /\ line \in Lines /\ line.from = cand[s] /\ line.text = <<>> /\ line.usage = NoUsage
        /\ line.kind = "done"
    <3>1. <<>> \in Seq(0..MaxPieces)
        OBVIOUS
    <3> QED
        BY <1>1, <1>2, <2>1, <3>1 DEF DoneLine, Line, Lines
  <2>6. wire[s].reported => usage[s] = [in |-> InputTokens, out |-> wire[s].pieces]
      BY <1>1 DEF StreamInv, Report
  <2>7. <<>> \in Seq(1..MaxPieces)
      OBVIOUS
  <2>8. Sound(s, line, w, a)
    <3> HIDE DEF Lines, Wires, Adapters
    <3> QED
        BY <2>3, <2>4, <2>5, <2>6, <2>7 DEF Sound, capture_usage
  <2> QED
      BY <1>1, <1>4, <2>1, <2>2, <2>8, RelayKeeps
<1>5. CASE pc[s] = "open" /\ TryNext(s, lastError[s])
    BY <1>3, <1>5, TryNextKeeps
<1>6. CASE /\ pc[s] = "relay"
           /\ rows' = [rows EXCEPT ![s] = @ \o OkRow(s, TRUE)]
           /\ Goto(s, IF acc[s].saw THEN "set" ELSE "end")
           /\ UNCHANGED <<fixed, upstream, relay, reply, seen, cache>>
  <2> DEFINE row == Row("ok", serving[s], usage[s], "none")
  <2>1. serving[s] # 0
      BY <1>2, <1>6
  <2>2. /\ OkRow(s, TRUE) = <<row>> /\ row \in UsageRows /\ row.status = "ok"
        /\ row.provider = serving[s] /\ row.usage = usage[s]
      BY <2>1, RowOfStream
  <2> HIDE DEF row
  <2>3. PICK place \in {"set", "end"} : place = IF acc[s].saw THEN "set" ELSE "end"
      OBVIOUS
  <2>4. rows[s] \o OkRow(s, TRUE) = <<row>> /\ <<row>> \in Seq(UsageRows) /\ place \in Labels
    <3>1. <<>> \o <<row>> = <<row>>
        OBVIOUS
    <3>2. rows[s] \o OkRow(s, TRUE) = <<row>>
        BY <1>2, <2>2, <3>1, Zenon
    <3>3. <<row>> \in Seq(UsageRows)
        BY <2>2
    <3> QED
        BY <2>3, <3>2, <3>3 DEF Labels, Final
  <2>5. /\ rows' = [rows EXCEPT ![s] = <<row>>] /\ pc' = [pc EXCEPT ![s] = place]
        /\ UNCHANGED <<fixed, upstream, relay, reply, seen, cache>>
      BY <1>6, <2>3, <2>4 DEF Goto
  <2>6. Writes(s)
      BY <1>1, <2>4, <2>5 DEF Writes, Written, Shape, upstream, relay
  <2>7. /\ rows'[s] = <<row>> /\ pc'[s] = place /\ fixed' = fixed /\ cand' = cand
        /\ wire' = wire /\ adapter' = adapter /\ serving' = serving /\ usage' = usage
        /\ acc' = acc /\ reply' = reply /\ seen' = seen /\ cache' = cache
      BY <1>1, <2>5 DEF Shape, upstream, relay
  <2>8. Route(s)' /\ Place(s)'
      BY <1>1, <1>2, <2>1, <2>7 DEF StreamInv, Route, Place, fixed
  <2>9. Report(s)'
      BY <1>1, <2>7 DEF StreamInv, Report, Kind, fixed
  <2>10. Source(s)'
      BY <1>1, <1>6, <2>7 DEF StreamInv, Source
  <2>11. ~EndsInError(seen[s])
      BY <1>1, <1>3, <1>6, NoErrorAtEnd DEF StreamInv, Source
  <2>12. Account(s)'
      BY <2>2, <2>7, <2>11 DEF Account
  <2>13. Replaying(s)' /\ Accumulated(s)'
      BY <1>1, <1>2, <2>7 DEF StreamInv, Replaying, Accumulated
  <2> QED
      BY <1>1, <2>6, <2>7, <2>8, <2>9, <2>10, <2>12, <2>13, OneStep DEF StreamInv, Final
<1> QED
    BY <1>4, <1>5, <1>6 DEF UpstreamEnds

\* An error falls back before the first line and ends the stream after it.
LEMMA FailsKeeps ==
    ASSUME IInv, NEW s \in Streams, UpstreamFails(s)
    PROVE  IInv'
<1>1. StreamInv(s) /\ pc[s] \in {"open", "relay"}
    BY OwnState DEF UpstreamFails
<1>2. PICK error \in UpstreamErrors(s) :
        \/ pc[s] \in FallsBack(s) /\ TryNext(s, error)
        \/ /\ pc[s] \notin FallsBack(s)
           /\ LET type == _classify_upstream_error(error) IN Abort(s, type, type)
    BY DEF UpstreamFails
<1>3. CASE pc[s] \in FallsBack(s) /\ TryNext(s, error)
  <2>1. pc[s] = "open" /\ error \in Errors
      BY <1>2, <1>3 DEF FallsBack, UpstreamErrors, Errors
  <2> QED
      BY <1>3, <2>1, TryNextKeeps
<1>4. CASE /\ pc[s] \notin FallsBack(s)
           /\ LET type == _classify_upstream_error(error) IN Abort(s, type, type)
  <2>1. pc[s] = "relay"
      BY <1>1, <1>4 DEF FallsBack
  <2>2. wire[s].phase # "opening"
      BY <1>1, <2>1 DEF StreamInv, Place
  <2>3. error \in {"timeout", "other"}
      BY <1>2, <2>2 DEF UpstreamErrors
  <2>4. PICK type : type = _classify_upstream_error(error)
      OBVIOUS
  <2>5. type \in {"timeout_error", "upstream_error"}
      BY <2>3, <2>4 DEF _classify_upstream_error
  <2>6. Abort(s, type, type)
      BY <1>4, <2>4
  <2> QED
      BY <1>1, <2>5, <2>6, AbortKeeps
<1> QED
    BY <1>2, <1>3, <1>4

-----------------------------------------------------------------------------
(* The end of a stream.                                                    *)

\* Once a stream has ended, what it would cache is true.
LEMMA ResponseTrue ==
    ASSUME IInv, NEW s \in Streams, pc[s] = "set"
    PROVE  /\ rows[s] # <<>> /\ Len(rows[s]) = 1 /\ rows[s][1].status = "ok"
           /\ rows[s][1].usage = to_response(s).usage
           /\ Content(seen[s]) = to_response(s).content
           /\ to_response(s).by = s
           /\ acc[s].finish # "odd" => to_response(s) \in Responses
           /\ ~EndsInError(seen[s]) /\ reply[s] = None
<1>1. /\ StreamInv(s) /\ acc[s] \in Accumulators /\ rows[s] \in Seq(UsageRows)
      /\ seen[s] \in Seq(Lines)
    BY OwnState
<1>2. /\ Len(rows[s]) = 1 /\ rows[s][1].status = "ok" /\ reply[s] = None /\ serving[s] # 0
      /\ acc[s].usage = usage[s] /\ acc[s].content = Content(seen[s])
    BY <1>1 DEF StreamInv, Account, Place, Report, Accumulated
<1>3. 1 \in DOMAIN rows[s] /\ rows[s] # <<>>
    BY <1>1, <1>2
<1>4. rows[s][1].usage = usage[s]
    BY <1>1, <1>2, <1>3 DEF StreamInv, Account
<1>5. ~EndsInError(seen[s])
    BY <1>1, NoErrorAtEnd DEF StreamInv, Source
<1>6. acc[s].finish # "odd" => to_response(s) \in Responses
    BY <1>1 DEF Accumulators, to_response, Responses
<1>7. /\ to_response(s).usage = acc[s].usage /\ to_response(s).content = acc[s].content
      /\ to_response(s).by = s
    BY DEF to_response
<1> QED
    BY <1>2, <1>3, <1>4, <1>5, <1>6, <1>7

\* A stream that has nothing more to say ends or dies or is left.
LEMMA LastStep ==
    ASSUME IInv, NEW s \in Streams, NEW label \in {"end", "died", "gone"}, Goto(s, label),
           pc[s] \in {"get", "discard", "replay", "open", "relay", "set"},
           label # "gone" => pc[s] = "set",
           UNCHANGED <<fixed, upstream, relay, reply, seen, rows>>,
           \/ cache' = cache
           \/ /\ pc[s] = "set" /\ label # "died"
              /\ acc[s].finish # "odd" /\ cache' = to_response(s)
    PROVE  IInv'
<1>1. StreamInv(s) /\ Shape /\ cache \in Responses \cup {None, Unreadable}
    BY OwnState DEF IInv, Shape
<1>2. cache' \in Responses \cup {None, Unreadable}
    BY <1>1, ResponseTrue
<1>3. Writes(s)
    BY <1>1, <1>2 DEF Writes, Written, Goto, Labels, Final, Shape, upstream, relay
<1>4. /\ pc'[s] = label /\ fixed' = fixed /\ cand' = cand /\ wire' = wire
      /\ adapter' = adapter /\ serving' = serving /\ usage' = usage /\ acc' = acc
      /\ reply' = reply /\ seen' = seen /\ rows' = rows
    BY <1>1 DEF Goto, Shape, upstream, relay
<1>5. Route(s)' /\ Place(s)'
    BY <1>1, <1>4 DEF StreamInv, Route, Place, fixed
<1>6. Report(s)' /\ Source(s)'
    BY <1>1, <1>4 DEF StreamInv, Report, Source, Kind, fixed
<1>7. Account(s)'
    BY <1>1, <1>4, ResponseTrue DEF StreamInv, Account
<1>8. Replaying(s)'
    BY <1>1, <1>4, ResponseTrue DEF StreamInv, Replaying
<1>9. Accumulated(s)'
    BY <1>1, <1>4 DEF StreamInv, Accumulated
<1>10. cache' = cache \/ Truthful(cache)'
  <2> SUFFICES ASSUME cache' # cache PROVE Truthful(cache)'
      OBVIOUS
  <2>1. pc[s] = "set" /\ label \in {"end", "gone"} /\ cache' = to_response(s)
      OBVIOUS
  <2>2. PICK response : response = to_response(s)
      OBVIOUS
  <2>3. /\ response.by = s /\ Len(rows[s]) = 1 /\ rows[s][1].usage = response.usage
        /\ Content(seen[s]) = response.content
      BY <2>1, <2>2, ResponseTrue
  <2> QED
      BY <1>4, <2>1, <2>2, <2>3 DEF Truthful
<1> QED
    BY <1>3, <1>4, <1>5, <1>6, <1>7, <1>8, <1>9, <1>10, OneStep DEF StreamInv, Final

\* The response is stored, or not, and the stream is over.
LEMMA CacheSetKeeps ==
    ASSUME IInv, NEW s \in Streams, CacheSet(s)
    PROVE  IInv'
<1>1. PICK label \in {"end", "died"} :
        /\ Goto(s, label)
        /\ \/ cache' = cache
           \/ label # "died" /\ acc[s].finish # "odd" /\ cache' = to_response(s)
    BY DEF CacheSet
<1>2. pc[s] = "set" /\ UNCHANGED <<fixed, upstream, relay, reply, seen, rows>>
    BY DEF CacheSet
<1> QED
    BY <1>1, <1>2, LastStep

\* A client that leaves has no row, and stores only a complete response.
LEMMA DisconnectKeeps ==
    ASSUME IInv, NEW s \in Streams, Disconnect(s)
    PROVE  IInv'
<1>1. StreamInv(s) /\ Shape
    BY OwnState DEF IInv
<1>2. /\ pc[s] \in {"get", "discard", "replay", "open", "relay", "set"} /\ Goto(s, "gone")
      /\ UNCHANGED <<fixed, upstream, relay, reply, seen>>
    BY DEF Disconnect
<1>3. rows' = rows
  <2>1. CASE pc[s] = "set"
      BY <2>1 DEF Disconnect
  <2>2. CASE pc[s] # "set"
    <3>1. rows[s] = <<>> /\ OkRow(s, FALSE) = <<>>
        BY <1>1, <1>2, <2>2, RowOfStream DEF StreamInv, Account
    <3>2. rows' = [rows EXCEPT ![s] = rows[s] \o OkRow(s, FALSE)]
        BY <2>2 DEF Disconnect
    <3>3. rows' = [rows EXCEPT ![s] = rows[s]]
      <4>1. <<>> \o <<>> = <<>>
          OBVIOUS
      <4>2. rows[s] \o OkRow(s, FALSE) = rows[s]
          BY <3>1, <4>1, Zenon
      <4> QED
          BY <3>2, <4>2, Zenon
    <3> QED
        BY <1>1, <3>3 DEF Shape
  <2> QED
      BY <2>1, <2>2
<1>4. cache' = cache \/ (pc[s] = "set" /\ acc[s].finish # "odd" /\ cache' = to_response(s))
    BY DEF Disconnect
<1> QED
    BY <1>2, <1>3, <1>4, LastStep

-----------------------------------------------------------------------------
(* Every step keeps the invariant.                                         *)

\* Losing the entry, or not being able to read it, only takes an answer away.
LEMMA EvictKeeps ==
    ASSUME IInv, cache' \in {cache, None, Unreadable},
           UNCHANGED <<fixed, pc, upstream, relay, reply, seen, rows>>
    PROVE  IInv'
<1>1. /\ Lines' = Lines /\ UsageRows' = UsageRows /\ registry' = registry /\ chain' = chain
      /\ pc' = pc /\ cand' = cand /\ wire' = wire /\ adapter' = adapter
      /\ lastError' = lastError /\ serving' = serving /\ usage' = usage /\ acc' = acc
      /\ reply' = reply /\ seen' = seen /\ rows' = rows
    BY DEF fixed, upstream, relay, Lines, UsageRows
<1>2. FixedShape'
    BY <1>1 DEF IInv, FixedShape
<1>3. Shape'
  <2> HIDE DEF Lines, UsageRows
  <2> QED
      BY <1>1 DEF IInv, Shape
<1>4. \A s \in Streams : StreamInv(s)'
  <2>1. \A s \in Streams : Same(s) /\ UNCHANGED fixed
      BY <1>1 DEF Same, fixed
  <2> QED
      BY <2>1, SameKeeps DEF IInv
<1>5. ASSUME NEW response, Truthful(response) PROVE Truthful(response)'
    BY <1>1, <1>5 DEF Truthful
<1>6. CacheTruthful'
  <2>1. ASSUME cache' \notin {None, Unreadable} PROVE Truthful(cache)'
    <3>1. PICK response : response = cache
        OBVIOUS
    <3>2. cache' = response /\ Truthful(response)
        BY <2>1, <3>1 DEF IInv, CacheTruthful
    <3>3. Truthful(response)'
        BY <1>5, <3>2
    <3> QED
        BY <3>2, <3>3 DEF Truthful
  <2>2. ASSUME NEW s \in Streams, reply'[s] # None PROVE Truthful(reply[s])'
    <3>1. PICK response : response = reply[s]
        OBVIOUS
    <3>2. reply'[s] = response /\ Truthful(response)
        BY <1>1, <2>2, <3>1 DEF IInv, CacheTruthful
    <3>3. Truthful(response)'
        BY <1>5, <3>2
    <3> QED
        BY <3>2, <3>3 DEF Truthful
  <2> QED
      BY <2>1, <2>2 DEF CacheTruthful
<1> QED
    BY <1>2, <1>3, <1>4, <1>6 DEF IInv

\* The invariant is inductive.
LEMMA NextIInv == IInv /\ [Next]_vars => IInv'
<1> SUFFICES ASSUME IInv, [Next]_vars PROVE IInv'
    OBVIOUS
<1>1. ASSUME NEW s \in Streams, Step(s) PROVE IInv'
  <2>1. CASE GetHit(s)
      BY <2>1, GetHitKeeps
  <2>2. CASE GetMiss(s) \/ DiscardEntry(s)
      BY <2>2, GetMissKeeps
  <2>3. CASE Replay(s)
      BY <2>3, ReplayKeeps
  <2>4. CASE UpstreamSends(s)
      BY <2>4, SendsKeeps
  <2>5. CASE UpstreamEnds(s)
      BY <2>5, EndsKeeps
  <2>6. CASE UpstreamFails(s)
      BY <2>6, FailsKeeps
  <2>7. CASE CacheSet(s)
      BY <2>7, CacheSetKeeps
  <2> QED
      BY <1>1, <2>1, <2>2, <2>3, <2>4, <2>5, <2>6, <2>7 DEF Step
<1>2. ASSUME NEW s \in Streams, Disconnect(s) PROVE IInv'
    BY <1>2, DisconnectKeeps
<1>3. ASSUME NEW s \in Streams, Start(s) PROVE IInv'
    BY <1>3, StartKeeps
<1>4. CASE Evict
    BY <1>4, EvictKeeps DEF Evict
<1>5. CASE UNCHANGED vars
    BY <1>5, EvictKeeps DEF vars
<1> QED
    BY <1>1, <1>2, <1>3, <1>4, <1>5 DEF Next, Done

-----------------------------------------------------------------------------
(* The theorems.                                                           *)

\* The inductive invariant holds in every reachable state: where a stream is,
\* what its provider sent, what its client read and what was scheduled to be
\* logged (_stream_response, relay_sse_stream) always fit together.
THEOREM Invariance == Spec => []IInv
<1>1. Init => IInv
    BY InitIInv
<1>2. IInv /\ [Next]_vars => IInv'
    BY NextIInv
<1> QED
    BY <1>1, <1>2, PTL DEF Spec

\* Every variable keeps its type; in particular stream_chat_completion never
\* looks past the list of candidates.
THEOREM TypeCorrect == Spec => []TypeOK
<1>1. IInv => TypeOK
  <2> SUFFICES ASSUME IInv PROVE TypeOK
      OBVIOUS
  <2>1. registry \in Seq(Range(Catalogue)) /\ chain \in Seq(Range(Catalogue))
      BY ChainFacts DEF IInv, FixedShape
  <2>2. pc \in [Streams -> Labels] /\ cache \in Responses \cup {None, Unreadable}
      BY DEF IInv, Shape
  <2>3. ASSUME NEW s \in Streams
        PROVE  /\ cand[s] \in 1..Larger(1, Len(chain))
               /\ wire[s] \in Wires /\ adapter[s] \in Adapters /\ lastError[s] \in Errors
               /\ serving[s] \in 0..Len(chain) /\ usage[s] \in Tokens
               /\ acc[s] \in Accumulators /\ reply[s] \in Responses \cup {None}
               /\ seen[s] \in Seq(Lines) /\ rows[s] \in Seq(UsageRows)
    <3>1. cand[s] \in 1..Larger(1, Len(chain))
        BY <2>3, OwnState DEF StreamInv, Route, Larger
    <3> HIDE DEF Lines, UsageRows, Wires, Adapters, Errors, Accumulators, Responses, Tokens
    <3> QED
        BY <2>3, <3>1, OwnState
  <2> QED
    <3> HIDE DEF Lines, Responses, Tokens
    <3> QED
        BY <2>1, <2>2, <2>3
           DEF TypeOK, Labels, Wires, Adapters, Errors, Accumulators, UsageRows
<1> QED
    BY <1>1, Invariance, PTL

\* However many providers are registered, the 404 sent before the stream
\* opens (_reject_unknown_streaming_model) and select_providers agree.
THEOREM RejectedOnlyIfUnroutable == Spec => []RejectedIffUnroutable
<1>1. IInv => RejectedIffUnroutable
    BY DEF IInv, StreamInv, Route, RejectedIffUnroutable
<1> QED
    BY <1>1, Invariance, PTL

\* For every catalogue and every set of API keys, GET /v1/models names an
\* owner for exactly the models whose streams are served, and the right one.
THEOREM CatalogueTellsTheTruth == Spec => []CatalogueAgrees
<1>1. IInv => CatalogueAgrees
  <2> SUFFICES ASSUME IInv PROVE CatalogueAgrees
      OBVIOUS
  <2> DEFINE owner == get_model(registry, Model)
  <2>1. registry \in Registries /\ chain = select_providers(registry, Model)
      BY ChainFacts DEF IInv, FixedShape
  <2>2. /\ owner = 0 <=> DOMAIN chain = {}
        /\ Model \in DOMAIN list_models(registry) => list_models(registry)[Model] = owner
        /\ owner # 0 => \E n \in DOMAIN chain :
                /\ chain[n] = registry[owner]
                /\ \A m \in DOMAIN chain : m < n => chain[m].models = {}
      BY <2>1, CatalogueMatchesRouting
  <2>3. chain \in Seq(Range(Catalogue)) /\ DOMAIN chain = 1..Len(chain) /\ Len(chain) \in Nat
      BY ChainFacts DEF IInv
  <2>4. \A s \in Streams : pc[s] # "idle" => (pc[s] = "rejected" <=> chain = <<>>)
      BY DEF IInv, StreamInv, Route
  <2> HIDE DEF owner
  <2>5. chain = <<>> <=> owner = 0
      BY <2>2, <2>3
  <2>6. owner # 0 => \E n \in DOMAIN chain :
                chain[n] = registry[owner] /\ \A m \in 1..(n - 1) : chain[m].models = {}
    <3>1. \A n \in DOMAIN chain : \A m \in 1..(n - 1) : m \in DOMAIN chain /\ m < n
        BY <2>3
    <3> QED
        BY <2>2, <3>1, Zenon
  <2> QED
      BY <2>2, <2>4, <2>5, <2>6 DEF CatalogueAgrees, owner
<1> QED
    BY <1>1, Invariance, PTL

\* Whatever fails, `finally` and the `except` branches schedule one usage row
\* for a stream that runs to its end, never two, and the row agrees with the
\* last line the client read.
THEOREM OneRowPerStream == Spec => []LoggedOnce
<1>1. IInv => LoggedOnce
  <2> SUFFICES ASSUME IInv, NEW s \in Streams
               PROVE  /\ Len(rows[s]) <= 1
                      /\ pc[s] \in {"end", "rejected"} => Len(rows[s]) = 1
                      /\ pc[s] = "end" => (rows[s][1].status = "error" <=> EndsInError(seen[s]))
      BY DEF LoggedOnce
  <2>1. Account(s)
      BY DEF IInv, StreamInv
  <2> QED
      BY <2>1 DEF Account
<1> QED
    BY <1>1, Invariance, PTL

\* The lines of a stream come from one provider, the one the row names, for
\* any number of candidates that fail before it.
THEOREM OneProviderPerStream == Spec => []OneSource
<1>1. IInv => OneSource
  <2> SUFFICES ASSUME IInv, NEW s \in Streams
               PROVE  /\ \A i, j \in DOMAIN seen[s] :
                            seen[s][i].from # 0 /\ seen[s][j].from # 0 =>
                                seen[s][i].from = seen[s][j].from
                      /\ \A i \in DOMAIN seen[s], j \in DOMAIN rows[s] :
                            seen[s][i].from # 0 /\ rows[s][j].status = "ok" =>
                                rows[s][j].provider = seen[s][i].from
      BY DEF OneSource
  <2>1. \A i \in DOMAIN seen[s] : seen[s][i].from = 0 \/ seen[s][i].from = serving[s]
      BY DEF IInv, StreamInv, Source
  <2>2. \A j \in DOMAIN rows[s] : rows[s][j].status = "ok" => rows[s][j].provider = serving[s]
      BY DEF IInv, StreamInv, Account
  <2> QED
      BY <2>1, <2>2, Zenon
<1> QED
    BY <1>1, Invariance, PTL

\* What the provider reported of the tokens is what the row says, whichever
\* events the report was spread over (capture_usage, the Anthropic adapter).
THEOREM UsageIsBilled == Spec => []BilledAsReported
<1>1. IInv => BilledAsReported
  <2> SUFFICES ASSUME IInv, NEW s \in Streams, NEW i \in DOMAIN rows[s],
                      rows[s][i].status = "ok", rows[s][i].provider # 0, wire[s].reported
               PROVE  rows[s][i].usage = [in |-> InputTokens, out |-> wire[s].pieces]
      BY DEF BilledAsReported
  <2>1. usage[s] = [in |-> InputTokens, out |-> wire[s].pieces]
      BY DEF IInv, StreamInv, Report
  <2>2. rows[s][i].provider = serving[s] /\ (serving[s] # 0 => rows[s][i].usage = usage[s])
      BY DEF IInv, StreamInv, Account
  <2> QED
      BY <2>1, <2>2
<1> QED
    BY <1>1, Invariance, PTL

\* The elements of a list of known length.
LEMMA Elements ==
    ASSUME NEW L, NEW q \in Seq(L), NEW n, Len(q) = n
    PROVE  DOMAIN q = 1..n /\ \A i \in 1..n : q[i] \in L
    OBVIOUS

\* The four lines synthesized from a cached response read like the response.
LEMMA ReplayedContent ==
    ASSUME Len(chain) \in Nat, MaxPieces \in Nat, NEW response \in Responses,
           NEW read \in Seq(Lines), Len(read) = 4,
           \A i \in DOMAIN read : read[i] = synthesize_cached_stream(response)[i]
    PROVE  Content(read) = response.content
<1>1. PICK lines : lines = synthesize_cached_stream(response)
    OBVIOUS
<1>2. /\ lines \in Seq(Lines) /\ Len(lines) = 4
      /\ lines[1].text = <<>> /\ lines[2].text = response.content
      /\ lines[3].text = <<>> /\ lines[4].text = <<>>
    BY <1>1, CachedLines
<1>3. response.content \in Seq(1..MaxPieces)
    BY DEF Responses
<1> HIDE DEF Lines
<1>4. /\ lines[1] \in Lines /\ lines[2] \in Lines /\ lines[3] \in Lines /\ lines[4] \in Lines
      /\ read = lines
  <2>1. DOMAIN read = 1..4 /\ DOMAIN lines = 1..4 /\ \A i \in 1..4 : lines[i] \in Lines
    <3>1. PICK L : L = Lines
        OBVIOUS
    <3>2. lines \in Seq(L) /\ read \in Seq(L)
        BY <1>2, <3>1
    <3>3. DOMAIN lines = 1..4 /\ \A i \in 1..4 : lines[i] \in L
        BY <1>2, <3>2, Elements
    <3>4. DOMAIN read = 1..4
        BY <3>2, Elements
    <3> QED
        BY <3>1, <3>3, <3>4, Zenon
  <2>2. \A i \in 1..4 : read[i] = lines[i]
      BY <1>1, <2>1, Zenon
  <2>3. read = lines
      BY <1>2, <2>1, <2>2
  <2> QED
      BY <2>1, <2>3
<1> DEFINE a == Append(<<>>, lines[1])
           b == Append(a, lines[2])
           c == Append(b, lines[3])
           d == Append(c, lines[4])
<1>5. a \in Seq(Lines) /\ b \in Seq(Lines) /\ c \in Seq(Lines) /\ <<>> \in Seq(Lines)
    BY <1>4
<1>6. d = lines
    BY <1>2, <1>4
<1>7. /\ Content(a) = Content(<<>>) \o lines[1].text
      /\ Content(b) = Content(a) \o lines[2].text
      /\ Content(c) = Content(b) \o lines[3].text
      /\ Content(d) = Content(c) \o lines[4].text
  <2> HIDE DEF a, b, c
  <2>1. Content(Append(<<>>, lines[1])) = Content(<<>>) \o lines[1].text
      BY <1>4, <1>5, LineRead
  <2>2. Content(Append(a, lines[2])) = Content(a) \o lines[2].text
      BY <1>4, <1>5, LineRead
  <2>3. Content(Append(b, lines[3])) = Content(b) \o lines[3].text
      BY <1>4, <1>5, LineRead
  <2>4. Content(Append(c, lines[4])) = Content(c) \o lines[4].text
      BY <1>4, <1>5, LineRead
  <2> QED
      BY <2>1, <2>2, <2>3, <2>4 DEF a, b, c
<1> HIDE DEF a, b, c, d
<1>8. <<>> \o <<>> = <<>>
    OBVIOUS
<1>9. <<>> \o response.content = response.content /\ response.content \o <<>> = response.content
    BY <1>3
<1>10. Content(a) = <<>>
    BY <1>2, <1>7, <1>8, ContentEmpty, Zenon
<1>11. Content(b) = response.content
    BY <1>2, <1>7, <1>9, <1>10, Zenon
<1>12. Content(c) = response.content
    BY <1>2, <1>7, <1>9, <1>11, Zenon
<1>13. Content(d) = response.content
    BY <1>2, <1>7, <1>9, <1>12, Zenon
<1> QED
    BY <1>4, <1>6, <1>13, Zenon

\* For any number of streams in any order: a stream served from the cache
\* shows its client the text the original stream showed, and its row has the
\* tokens of the original's row (synthesize_cached_stream, to_response).
THEOREM ReplaysAreFaithful == Spec => []ReplayFaithful
<1>1. IInv => ReplayFaithful
  <2> SUFFICES ASSUME IInv, NEW s \in Streams, pc[s] = "end", reply[s] # None
               PROVE  /\ Content(seen[s]) = Content(seen[reply[s].by])
                      /\ rows[s][1].usage = rows[reply[s].by][1].usage
      BY DEF ReplayFaithful
  <2>1. PICK response : response = reply[s]
      OBVIOUS
  <2>2. /\ Len(chain) \in Nat /\ MaxPieces \in Nat /\ response \in Responses
        /\ seen[s] \in Seq(Lines) /\ Replaying(s)
    <3> HIDE DEF Responses, Lines
    <3> QED
        BY <2>1, OwnState DEF StreamInv
  <2>3. /\ Len(seen[s]) = 4 /\ rows[s][1].usage = response.usage
        /\ \A i \in DOMAIN seen[s] : seen[s][i] = synthesize_cached_stream(response)[i]
      BY <2>1, <2>2 DEF Replaying
  <2>4. PICK read : read = seen[s]
      OBVIOUS
  <2>5. Content(read) = response.content
    <3>1. /\ read \in Seq(Lines) /\ Len(read) = 4
          /\ \A i \in DOMAIN read : read[i] = synthesize_cached_stream(response)[i]
        BY <2>2, <2>3, <2>4
    <3> QED
        BY <2>2, <3>1, ReplayedContent
  <2>6. Truthful(response)
      BY <2>1 DEF IInv, CacheTruthful
  <2> QED
      BY <2>1, <2>3, <2>4, <2>5, <2>6 DEF Truthful
<1> QED
    BY <1>1, Invariance, PTL
=============================================================================
