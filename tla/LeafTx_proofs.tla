---------------------------- MODULE LeafTx_proofs ---------------------------
(* Proofs about LeafTx, for every set of writers, every length of the queue *)
(* and every number of messages that the device takes at once.              *)
EXTENDS LeafTx, SequenceTheorems, FiniteSetTheorems, TLAPS

----------------------------------------------------------------------------
(* Sequences that lose elements.                                            *)

At(s, V) == {k \in DOMAIN s : s[k] \in V}

\* t has elements of s, but for those outside of V, in their order.
Thins(s, t, V) ==
    \E f \in [At(t, V) -> At(s, V)] :
        /\ \A k \in At(t, V) : t[k] = s[f[k]]
        /\ \A j, k \in At(t, V) : j < k => f[j] < f[k]

\* The positions are numbers that can be counted.
LEMMA AtFinite ==
    ASSUME NEW S, NEW s \in Seq(S), NEW V
    PROVE  /\ At(s, V) \subseteq 1 .. Len(s)
           /\ IsFiniteSet(At(s, V)) /\ Cardinality(At(s, V)) \in Nat
<1>1. At(s, V) \subseteq 1 .. Len(s)
  BY LenProperties DEF At
<1>2. IsFiniteSet(1 .. Len(s))
  BY FS_Interval, LenProperties
<1> QED BY <1>1, <1>2, FS_Subset, FS_CardinalityType

\* Nothing lost.
LEMMA ThinsItself ==
    ASSUME NEW S, NEW s \in Seq(S), NEW V
    PROVE  Thins(s, s, V)
<1> DEFINE f == [k \in At(s, V) |-> k]
<1> SUFFICES /\ f \in [At(s, V) -> At(s, V)]
             /\ \A k \in At(s, V) : s[k] = s[f[k]]
             /\ \A j, k \in At(s, V) : j < k => f[j] < f[k]
  BY DEF Thins
<1> QED OBVIOUS

\* Everything lost that counts.
LEMMA ThinsToNothing ==
    ASSUME NEW s, NEW t, NEW V, At(t, V) = {}
    PROVE  Thins(s, t, V)
<1> DEFINE f == [k \in At(t, V) |-> k]
<1> SUFFICES /\ f \in [At(t, V) -> At(s, V)]
             /\ \A k \in At(t, V) : t[k] = s[f[k]]
             /\ \A j, k \in At(t, V) : j < k => f[j] < f[k]
  BY DEF Thins
<1> QED OBVIOUS

\* Fewer elements count.
LEMMA ThinsFewer ==
    ASSUME NEW s, NEW t, NEW V, NEW W, W \subseteq V, Thins(s, t, V)
    PROVE  Thins(s, t, W)
<1>1. PICK g \in [At(t, V) -> At(s, V)] :
          /\ \A k \in At(t, V) : t[k] = s[g[k]]
          /\ \A j, k \in At(t, V) : j < k => g[j] < g[k]
  BY DEF Thins
<1>2. At(t, W) \subseteq At(t, V)
  BY DEF At
<1> DEFINE f == [k \in At(t, W) |-> g[k]]
<1>3. ASSUME NEW k \in At(t, W) PROVE f[k] \in At(s, W)
  BY <1>1, <1>2 DEF At
<1>4. f \in [At(t, W) -> At(s, W)]
  BY <1>3
<1>5. \A k \in At(t, W) : t[k] = s[f[k]]
  BY <1>1, <1>2
<1>6. \A j, k \in At(t, W) : j < k => f[j] < f[k]
  BY <1>1, <1>2
<1> HIDE DEF f
<1> QED BY <1>4, <1>5, <1>6 DEF Thins

\* The positions of a concatenation: those of the first part,
LEMMA AtFirst ==
    ASSUME NEW S, NEW s \in Seq(S), NEW t \in Seq(S), NEW V, NEW k \in At(s, V)
    PROVE  k \in At(s \o t, V) /\ (s \o t)[k] = s[k]
  BY LenProperties, ConcatProperties DEF At

\* and those of the second,
LEMMA AtSecond ==
    ASSUME NEW S, NEW s \in Seq(S), NEW t \in Seq(S), NEW V, NEW k \in At(t, V)
    PROVE  /\ Len(s) + k \in At(s \o t, V)
           /\ (s \o t)[Len(s) + k] = t[k]
  BY LenProperties, ConcatProperties DEF At

\* and no others.
LEMMA AtFirstOrSecond ==
    ASSUME NEW S, NEW s \in Seq(S), NEW t \in Seq(S), NEW V,
           NEW k \in At(s \o t, V)
    PROVE  \/ k <= Len(s) /\ k \in At(s, V) /\ (s \o t)[k] = s[k]
           \/ /\ k > Len(s) /\ k - Len(s) \in At(t, V)
              /\ (s \o t)[k] = t[k - Len(s)]
  BY LenProperties, ConcatProperties DEF At

\* Both parts of a concatenation may lose some.
LEMMA ThinsConcat ==
    ASSUME NEW S, NEW s1 \in Seq(S), NEW s2 \in Seq(S),
           NEW t1 \in Seq(S), NEW t2 \in Seq(S), NEW V,
           Thins(s1, t1, V), Thins(s2, t2, V)
    PROVE  Thins(s1 \o s2, t1 \o t2, V)
<1>1. PICK f1 \in [At(t1, V) -> At(s1, V)] :
          /\ \A k \in At(t1, V) : t1[k] = s1[f1[k]]
          /\ \A j, k \in At(t1, V) : j < k => f1[j] < f1[k]
  BY DEF Thins
<1>2. PICK f2 \in [At(t2, V) -> At(s2, V)] :
          /\ \A k \in At(t2, V) : t2[k] = s2[f2[k]]
          /\ \A j, k \in At(t2, V) : j < k => f2[j] < f2[k]
  BY DEF Thins
<1>3. /\ Len(s1) \in Nat /\ Len(t1) \in Nat
      /\ At(s1, V) \subseteq 1 .. Len(s1) /\ At(s2, V) \subseteq 1 .. Len(s2)
      /\ At(t1 \o t2, V) \subseteq Int
  <2>1. t1 \o t2 \in Seq(S)
    BY ConcatProperties
  <2>2. At(t1 \o t2, V) \subseteq 1 .. Len(t1 \o t2) /\ Len(t1 \o t2) \in Nat
    BY <2>1, AtFinite, LenProperties
  <2> QED BY <2>2, AtFinite, LenProperties
<1>4. ASSUME NEW k \in At(t1 \o t2, V), k <= Len(t1)
      PROVE  /\ k \in At(t1, V) /\ f1[k] \in 1 .. Len(s1)
             /\ f1[k] \in At(s1 \o s2, V) /\ (t1 \o t2)[k] = (s1 \o s2)[f1[k]]
  <2>. ~ (k > Len(t1))
    BY <1>3, <1>4
  <2>1. k \in At(t1, V) /\ (t1 \o t2)[k] = t1[k]
    BY AtFirstOrSecond
  <2> DEFINE n == f1[k]
  <2>2. n \in At(s1, V) /\ t1[k] = s1[n]
    BY <2>1, <1>1
  <2> HIDE DEF n
  <2>3. n \in At(s1 \o s2, V) /\ (s1 \o s2)[n] = s1[n]
    BY <2>2, AtFirst
  <2> QED BY <2>1, <2>2, <2>3, <1>3 DEF n
<1>5. ASSUME NEW k \in At(t1 \o t2, V), k > Len(t1)
      PROVE  /\ k - Len(t1) \in At(t2, V) /\ f2[k - Len(t1)] \in 1 .. Len(s2)
             /\ Len(s1) + f2[k - Len(t1)] \in At(s1 \o s2, V)
             /\ (t1 \o t2)[k] = (s1 \o s2)[Len(s1) + f2[k - Len(t1)]]
  <2> DEFINE m == k - Len(t1)
  <2>. ~ (k <= Len(t1))
    BY <1>3, <1>5
  <2>1. m \in At(t2, V) /\ (t1 \o t2)[k] = t2[m]
    BY AtFirstOrSecond
  <2> HIDE DEF m
  <2> DEFINE n == f2[m]
  <2>2. n \in At(s2, V) /\ t2[m] = s2[n]
    BY <2>1, <1>2
  <2> HIDE DEF n
  <2>3. Len(s1) + n \in At(s1 \o s2, V) /\ (s1 \o s2)[Len(s1) + n] = s2[n]
    BY <2>2, AtSecond, ZenonT(60)
  <2>4. n \in 1 .. Len(s2)
    BY <2>2, <1>3
  <2> QED BY <2>1, <2>2, <2>3, <2>4 DEF m, n
<1> DEFINE f == [k \in At(t1 \o t2, V) |->
                    IF k <= Len(t1) THEN f1[k] ELSE Len(s1) + f2[k - Len(t1)]]
<1>d. ASSUME NEW k \in At(t1 \o t2, V)
      PROVE  /\ k \in Int /\ (k <= Len(t1) \/ k > Len(t1))
             /\ k <= Len(t1) => f[k] = f1[k]
             /\ k > Len(t1) => f[k] = Len(s1) + f2[k - Len(t1)]
  <2>1. k \in Int
    BY <1>3
  <2> QED BY <2>1, <1>3
<1>6. f \in [At(t1 \o t2, V) -> At(s1 \o s2, V)]
  BY <1>4, <1>5, <1>d
<1> HIDE DEF f
<1>7. ASSUME NEW k \in At(t1 \o t2, V)
      PROVE  (t1 \o t2)[k] = (s1 \o s2)[f[k]]
  <2>1. CASE k <= Len(t1)
    BY <2>1, <1>4, <1>d
  <2>2. CASE k > Len(t1)
    BY <2>2, <1>5, <1>d
  <2> QED BY <2>1, <2>2, <1>d
<1>8. ASSUME NEW j \in At(t1 \o t2, V), NEW k \in At(t1 \o t2, V), j < k
      PROVE  f[j] < f[k]
  <2>1. j \in Int /\ k \in Int
    BY <1>3
  <2>2. CASE k <= Len(t1)
    <3>1. j \in At(t1, V) /\ k \in At(t1, V)
      BY <2>1, <2>2, <1>3, <1>4, <1>8
    <3>2. f1[j] < f1[k]
      BY <3>1, <1>1, <1>8
    <3> QED BY <3>2, <2>1, <2>2, <1>3, <1>8, <1>d
  <2>3. CASE j <= Len(t1) /\ k > Len(t1)
    <3>1. f1[j] \in 1 .. Len(s1) /\ f2[k - Len(t1)] \in Nat \ {0}
      BY <2>3, <1>4, <1>5
    <3> QED BY <3>1, <2>1, <2>3, <1>3, <1>d
  <2>4. CASE j > Len(t1)
    <3>0. k > Len(t1)
      BY <2>1, <2>4, <1>3, <1>8
    <3>1. /\ j - Len(t1) \in At(t2, V) /\ k - Len(t1) \in At(t2, V)
          /\ f2[j - Len(t1)] \in Int /\ f2[k - Len(t1)] \in Int
      BY <2>4, <3>0, <1>5
    <3>2. j - Len(t1) < k - Len(t1)
      BY <2>1, <1>3, <1>8
    <3>3. \A m, n \in At(t2, V) : m < n => f2[m] < f2[n]
      BY <1>2
    <3>4. f2[j - Len(t1)] < f2[k - Len(t1)]
      BY <3>1, <3>2, <3>3, Zenon
    <3>6. f[j] = Len(s1) + f2[j - Len(t1)] /\ f[k] = Len(s1) + f2[k - Len(t1)]
      BY <2>4, <3>0, <1>d
    <3> QED BY <3>1, <3>4, <3>6, <1>3
  <2> QED BY <2>1, <2>2, <2>3, <2>4, <1>3
<1> QED BY <1>6, <1>7, <1>8 DEF Thins

\* The first element is lost.
LEMMA ThinsTail ==
    ASSUME NEW S, NEW s \in Seq(S), s # <<>>, NEW V
    PROVE  /\ Thins(s, Tail(s), V)
           /\ \A k \in At(Tail(s), V) :
                 k + 1 \in At(s, V) \ {1} /\ Tail(s)[k] = s[k + 1]
<1>1. /\ Len(s) \in Nat /\ DOMAIN s = 1 .. Len(s)
      /\ Tail(s) \in Seq(S) /\ Len(Tail(s)) = Len(s) - 1
      /\ DOMAIN Tail(s) = 1 .. Len(s) - 1
      /\ \A i \in 1 .. Len(s) - 1 : Tail(s)[i] = s[i + 1]
  BY HeadTailProperties, LenProperties
<1>2. ASSUME NEW k \in At(Tail(s), V)
      PROVE  k + 1 \in At(s, V) \ {1} /\ Tail(s)[k] = s[k + 1] /\ k \in Int
  BY <1>1 DEF At
<1> DEFINE f == [k \in At(Tail(s), V) |-> k + 1]
<1>3. /\ f \in [At(Tail(s), V) -> At(s, V)]
      /\ \A k \in At(Tail(s), V) : Tail(s)[k] = s[f[k]]
      /\ \A j, k \in At(Tail(s), V) : j < k => f[j] < f[k]
  <2>1. f \in [At(Tail(s), V) -> At(s, V)]
    BY <1>2
  <2>2. \A k \in At(Tail(s), V) : Tail(s)[k] = s[f[k]]
    BY <1>2
  <2>3. \A j, k \in At(Tail(s), V) : j < k => f[j] < f[k]
    BY <1>2
  <2> QED BY <2>1, <2>2, <2>3
<1> HIDE DEF f
<1> QED BY <1>2, <1>3 DEF Thins

\* What is lost is counted no more.
LEMMA ThinsCounts ==
    ASSUME NEW S, NEW s \in Seq(S), NEW t \in Seq(S), NEW V, Thins(s, t, V)
    PROVE  Cardinality(At(t, V)) <= Cardinality(At(s, V))
<1>1. PICK f \in [At(t, V) -> At(s, V)] :
          \A j, k \in At(t, V) : j < k => f[j] < f[k]
  BY DEF Thins
<1>2. At(s, V) \subseteq Int /\ At(t, V) \subseteq Int
  BY AtFinite, LenProperties
<1>3. ASSUME NEW j \in At(t, V), NEW k \in At(t, V), f[j] = f[k]
      PROVE  j = k
  BY <1>1, <1>2, <1>3
<1>4. f \in Injection(At(t, V), At(s, V))
  BY <1>3 DEF Injection, IsInjective
<1> QED BY <1>4, AtFinite, FS_Injection

----------------------------------------------------------------------------
(* The inductive invariant.                                                 *)

\* How far a number is behind another, and behind the one that is given out next.
Behind(n, x) == IF x < n THEN n - x ELSE n - x + max_outstanding_tx

Dist(x) == Behind(transId, x)

\* Of two messages on their way the older is further behind, and none is further
\* behind than messages are counted.
Numbering ==
    ~miscounted =>
        /\ \A j, k \in Sent : j < k => Dist(InFlight[k]) < Dist(InFlight[j])
        /\ \A j \in Sent : Dist(InFlight[j]) <= outstanding_tx

\* What is on its way is counted, unless the counting started again.
Counting == ~miscounted => Cardinality(Sent) <= outstanding_tx

Bounded == Present <= MaxMessages

\* The worker holds a message only while one is queued, and fills a buffer that
\* was empty while no write is in progress.
Filling ==
    /\ sender = "pop" => txChanQueue > 0
    /\ sender = "idle" => buffer = <<>>
    /\ sender # "idle" => urb = <<>>

Flushes == {k \in DOMAIN InFlight : InFlight[k] = Flush}

\* There is at most one flush command, that of the caller who waits for it.
OneFlush ==
    /\ \A j, k \in Flushes : j = k
    /\ Flushes # {} => caller = "reply"

Flushed == {"restart", "clear again", "count again", "start", "start count",
            "ask start", "starting"}

\* BUS_ON starts the chip when its flush has left nothing on its way.
Going_on ==
    /\ caller \in {"start", "start count", "ask start", "starting"} => going_on
    /\ going_on => ~isBusOn
    /\ going_on /\ caller \in Flushed \cup {"count", "ask", "reply"} =>
          txChanQueue = 0 /\ sender # "pop"
    /\ going_on /\ caller = "reply" => \A j \in Flushes, k \in Sent : k < j
    /\ going_on /\ caller \in Flushed => Sent = {}

\* What canWriteSync waits for is queued or counted; once it has seen the queue
\* empty, it is counted.
Awaiting ==
    ~miscounted =>
        /\ caller \in {"check queue", "asleep"} => awaited <= Queued + outstanding_tx
        /\ caller = "check count" => awaited <= outstanding_tx
        /\ caller = "synced" => awaited = 0

\* Where a command is waited for.
Places == {"reply", "starting", "stopping"}

Place(cmd) == CASE cmd = Flush -> "reply" [] cmd = Start -> "starting"
                [] cmd = Stop -> "stopping"

\* How many of some kind are on their way.
Count(s, V) == Cardinality(At(s, V))

Number(V) == Count(InFlight, V)

\* A command is on its way while it is waited for, unless a transfer failed, once
\* and never longer.
CommandsAwaited ==
    \A cmd \in Commands :
        /\ Number({cmd}) <= 1
        /\ Number({cmd}) > 0 => caller = Place(cmd)
        /\ caller = Place(cmd) /\ ~failed => Number({cmd}) = 1

\* What is counted is on its way, unless a transfer lost it or the device drops
\* it; what it drops is not counted for long.
Dropping == {"reply", "restart", "clear again", "count again", "stopping", "stop count"}

Accounted ==
    /\ ~failed /\ caller \notin Dropping => outstanding_tx <= Cardinality(Sent)
    /\ caller \in {"ask start", "starting"} => outstanding_tx = 0

\* What the worker is about to pop is in its buffer.
Held == sender = "pop" => Count(buffer, TransIds) > 0

\* While a message is queued somebody is due to take it, or the device is full.
Served ==
    txChanQueue > 0 /\ ~miscounted =>
        \/ txWork \/ sender # "idle" \/ \E w \in Writer : pc[w] = "schedule"
        \/ outstanding_tx = max_outstanding_tx

Waits == {"check queue", "check count", "asleep"}

\* The bit of canWriteSync is set until all is sent, and its wakeup is not lost;
\* it does not sleep on nothing.
Waiting ==
    ~overtaken =>
        /\ caller \in Waits => waitEmpty \/ (AllSent /\ (caller = "asleep" => woken))
        /\ caller = "asleep" /\ ~woken /\ ~failed => Present > 0

IInv ==
    /\ TypeOK /\ Bounded /\ Filling
    /\ Counting /\ Numbering
    /\ OneFlush /\ Going_on
    /\ Awaiting
    /\ CommandsAwaited /\ Accounted
    /\ Held /\ Served /\ Waiting

----------------------------------------------------------------------------
(* Types.                                                                   *)

\* The types of the counters, of the queues and of the rest.
Counters ==
    /\ txChanQueue \in 0 .. QueueRoom /\ outstanding_tx \in 0 .. max_outstanding_tx
    /\ transId \in TransIds /\ awaited \in 0 .. MaxMessages

Queues ==
    /\ command \in Seq(Commands)
    /\ buffer \in Seq(Items) /\ urb \in Seq(Items) /\ device \in Seq(Items)

Callers == {"idle", "clear", "count", "ask", "reply", "restart", "clear again",
            "count again", "start", "start count", "ask start", "starting",
            "ask stop", "stopping", "stop count", "stop ids", "stop clear",
            "check queue", "check count", "asleep", "synced"}

Controls ==
    /\ waitEmpty \in BOOLEAN /\ txWork \in BOOLEAN
    /\ running \in BOOLEAN /\ isBusOn \in BOOLEAN /\ going_on \in BOOLEAN
    /\ sender \in {"idle", "fill", "pop"}
    /\ pc \in [Writer -> {"idle", "schedule"}]
    /\ caller \in Callers
    /\ woken \in BOOLEAN
    /\ overtaken \in BOOLEAN /\ miscounted \in BOOLEAN /\ failed \in BOOLEAN

\* These are all.
LEMMA TypeParts == TypeOK <=> Counters /\ Queues /\ Controls
  BY DEF TypeOK, Counters, Queues, Controls, Callers

\* What is in a sequence of some is in a sequence of more.
LEMMA WiderSeq ==
    ASSUME NEW S, NEW T, S \subseteq T, NEW s \in Seq(S)
    PROVE  s \in Seq(T)
<1>1. Len(s) \in Nat /\ \A i \in 1 .. Len(s) : s[i] \in T
  BY LenProperties, ElementOfSeq
<1>2. SubSeq(s, 1, Len(s)) \in Seq(T)
  BY <1>1, SubSeqProperties
<1> QED BY <1>2, SubSeqFull

\* The parts of which the device makes what it is going to answer.
LEMMA Pieces ==
    ASSUME TypeOK, urb # <<>>, NEW n \in 0 .. Len(device)
    PROVE  /\ Past(n) \in Seq(Items) /\ Unsent(n) \in Seq(Items)
           /\ device = Past(n) \o Unsent(n)
           /\ Head(urb) \in Items /\ Tail(urb) \in Seq(Items)
           /\ <<Head(urb)>> \in Seq(Items)
           /\ urb = <<Head(urb)>> \o Tail(urb)
<1>1. device \in Seq(Items) /\ urb \in Seq(Items) /\ Len(device) \in Nat
  BY LenProperties DEF TypeOK
<1>2. \A i \in 1 .. Len(device) : device[i] \in Items
  BY <1>1, ElementOfSeq
<1>3. Past(n) \in Seq(Items)
  BY <1>1, <1>2, SubSeqProperties DEF Past
<1>4. Unsent(n) \in Seq(Items)
  BY <1>1, <1>2, SubSeqProperties DEF Unsent
<1>5. SubSeq(device, 1, n) \o SubSeq(device, n + 1, Len(device))
        = SubSeq(device, 1, Len(device))
  <2>1. 1 \in 1 .. Len(device) + 1 /\ n \in 1 - 1 .. Len(device)
        /\ Len(device) \in n .. Len(device)
    BY <1>1
  <2> QED BY <2>1, <1>1, ConcatAdjacentSubSeq
<1>6. SubSeq(device, 1, Len(device)) = device
  BY <1>1, SubSeqFull
<1>7. Head(urb) \in Items /\ Tail(urb) \in Seq(Items)
  BY <1>1, HeadTailProperties
<1>8. <<Head(urb)>> \in Seq(Items)
  BY <1>7
<1>9. urb = <<Head(urb)>> \o Tail(urb)
  <2>1. /\ Len(urb) \in Nat \ {0} /\ Len(Tail(urb)) = Len(urb) - 1
        /\ \A i \in 1 .. Len(urb) - 1 : Tail(urb)[i] = urb[i + 1]
        /\ Head(urb) = urb[1]
    BY <1>1, HeadTailProperties, EmptySeq
  <2> DEFINE h == <<Head(urb)>>
  <2>2. Len(h) = 1 /\ h[1] = Head(urb) /\ h \in Seq(Items)
    BY <1>8
  <2> HIDE DEF h
  <2> DEFINE r == Tail(urb)
  <2>. r \in Seq(Items) /\ Len(r) = Len(urb) - 1
    BY <2>1, <1>7
  <2> HIDE DEF r
  <2>3. /\ h \o r \in Seq(Items) /\ Len(h \o r) = Len(urb)
        /\ \A i \in 1 .. Len(urb) :
              (h \o r)[i] = IF i <= 1 THEN h[i] ELSE r[i - 1]
    <3>1. /\ h \o r \in Seq(Items) /\ Len(h \o r) = Len(h) + Len(r)
          /\ \A i \in 1 .. Len(h) + Len(r) :
                (h \o r)[i] = IF i <= Len(h) THEN h[i] ELSE r[i - Len(h)]
      BY <2>2, ConcatProperties
    <3>2. Len(h) + Len(r) = Len(urb)
      BY <2>1, <2>2
    <3> QED BY <3>1, <3>2, <2>2
  <2>4. \A i \in 1 .. Len(urb) : (h \o r)[i] = urb[i]
    BY <2>1, <2>2, <2>3 DEF r
  <2> QED BY <2>3, <2>4, <1>1, SeqEqual DEF h, r
<1> QED BY <1>3, <1>4, <1>5, <1>6, <1>7, <1>8, <1>9 DEF Past, Unsent

\* Messages on their way can be counted.
LEMMA CountedInFlight ==
    ASSUME TypeOK
    PROVE  /\ InFlight \in Seq(Items) /\ Sent = At(InFlight, TransIds)
           /\ Sent \subseteq 1 .. Len(InFlight) /\ IsFiniteSet(Sent)
           /\ Cardinality(Sent) \in Nat
<1>1. /\ device \in Seq(Items) /\ urb \in Seq(Items) /\ buffer \in Seq(Items)
      /\ command \in Seq(Items)
  <2>1. command \in Seq(Commands) /\ Commands \subseteq Items
    BY DEF TypeOK, Items
  <2> QED BY <2>1, WiderSeq DEF TypeOK
<1>2. InFlight \in Seq(Items)
  BY <1>1, ConcatProperties DEF InFlight
<1>3. Sent = At(InFlight, TransIds)
  BY DEF Sent, At
<1> QED BY <1>2, <1>3, AtFinite

\* Every step keeps the types of the counters.
LEMMA CountersStep ==
    ASSUME TypeOK, Bounded, Filling, [Next]_vars
    PROVE  Counters'
<1> USE DEF channel, transfer, bus, histories, Goes, Counters
<1>0. Counters
  BY TypeParts
<1>1. CASE UNCHANGED vars
  BY <1>0, <1>1 DEF vars
<1>2. ASSUME NEW w \in Writer, SENDMSG(w) \/ leaf_schedule_send(w)
      PROVE  Counters'
  BY <1>0, <1>2, RoomAssumption DEF SENDMSG, leaf_schedule_send
<1>3. CASE leaf_send
  BY <1>0, <1>3 DEF leaf_send
<1>4. CASE Take
  BY <1>0, <1>4, OutstandingAssumption DEF Next_id, TransIds, Take, leaf_tx_available
<1>5. CASE Pop
  BY <1>0, <1>5, RoomAssumption DEF Filling, Pop
<1>6. CASE Nothing_filled \/ leaf_transmit \/ Submit_fails \/ Received
  BY <1>0, <1>6 DEF Nothing_filled, leaf_transmit, Submit_fails, Received
<1>7. CASE Tx_acknowledge
  BY <1>0, <1>7, OutstandingAssumption, BoundAssumption DEF Tx_acknowledge
<1>8. CASE Flush_replied \/ Started \/ Stopped
  BY <1>0, <1>8 DEF Flush_replied, Started, Stopped, Replied
<1>9. CASE leaf_flush_tx_buffer \/ leaf_bus_on \/ leaf_bus_off
  <2>1. 1 \in TransIds /\ 0 \in 0 .. max_outstanding_tx /\ 0 \in 0 .. QueueRoom
    BY OutstandingAssumption, RoomAssumption DEF TransIds
  <2> QED BY <1>0, <2>1, <1>9
             DEF leaf_flush_tx_buffer, leaf_bus_on, leaf_bus_off,
                 Clear_queue, Clear_count, Restart_ids, leaf_queue_cmd
<1>10. CASE Flush_timed_out \/ Start_timed_out \/ Stop_timed_out
  BY <1>0, <1>10 DEF Flush_timed_out, Start_timed_out, Stop_timed_out, Timed_out
<1>11. CASE wait_tx_queue_empty \/ Time_out
  <2>1. UNCHANGED <<txChanQueue, outstanding_tx, transId>>
    BY <1>11 DEF wait_tx_queue_empty, Check_queue, Check_count, Wake, Wait_ends,
                 Time_out
  <2>2. awaited' = 0 \/ UNCHANGED awaited
    BY <1>11 DEF wait_tx_queue_empty, Check_queue, Check_count, Wake, Wait_ends,
                 Time_out
  <2> QED BY <1>0, <2>1, <2>2, BoundAssumption
<1>12. CASE FLUSH_SENDBUFFER \/ BUS_ON \/ BUS_OFF
  BY <1>0, <1>12 DEF FLUSH_SENDBUFFER, BUS_ON, BUS_OFF
<1>13. CASE WAIT_EMPTY
  <2>1. Cardinality(Sent) \in Nat
    BY CountedInFlight
  <2>2. Present \in 0 .. MaxMessages
    BY <1>0, <2>1, RoomAssumption, BoundAssumption
       DEF Bounded, Present, Queued, Filling
  <2> QED BY <1>0, <2>2, <1>13 DEF WAIT_EMPTY
<1> QED BY <1>1, <1>2, <1>3, <1>4, <1>5, <1>6, <1>7, <1>8, <1>9, <1>10, <1>11,
           <1>12, <1>13 DEF Next, Worker, Receiver, Caller

\* Every step keeps the types of the rest.
LEMMA ControlsStep ==
    ASSUME TypeOK, [Next]_vars
    PROVE  Controls'
<1> USE DEF channel, transfer, bus, histories, Goes, Controls
<1>0. Controls
  BY TypeParts
<1>1. CASE UNCHANGED vars
  BY <1>0, <1>1 DEF vars
<1>2. ASSUME NEW w \in Writer, SENDMSG(w) \/ leaf_schedule_send(w)
      PROVE  Controls'
  BY <1>0, <1>2, ZenonT(60) DEF SENDMSG, leaf_schedule_send
<1>3. CASE leaf_send
  <2>1. /\ sender' \in {sender, "fill"} /\ txWork' = FALSE
        /\ UNCHANGED <<waitEmpty, running, bus, pc, caller, woken, histories>>
    BY <1>3 DEF leaf_send
  <2> QED BY <1>0, <2>1
<1>4. CASE Take
  <2>1. sender' = "pop" /\ UNCHANGED <<waitEmpty, txWork, running, bus, pc, caller, woken,
                                        histories>>
    BY <1>4 DEF Take
  <2> QED BY <1>0, <2>1
<1>5. CASE Pop
  <2>1. sender' = "fill" /\ UNCHANGED <<waitEmpty, txWork, running, bus, pc, caller,
                                         woken, histories>>
    BY <1>5 DEF Pop
  <2> QED BY <1>0, <2>1
<1>6. CASE Nothing_filled
  <2>1. sender' = "idle" /\ UNCHANGED <<waitEmpty, txWork, running, bus, pc, caller,
                                         woken, overtaken, miscounted, failed>>
    BY <1>6 DEF Nothing_filled
  <2> QED BY <1>0, <2>1
<1>7. CASE leaf_transmit
  <2>1. /\ sender' = "idle" /\ txWork' = TRUE
        /\ UNCHANGED <<waitEmpty, running, bus, pc, caller, woken, histories>>
    BY <1>7 DEF leaf_transmit
  <2> QED BY <1>0, <2>1
<1>8. CASE Submit_fails
  <2>1. /\ sender' = "idle" /\ txWork' = TRUE /\ failed' = TRUE
        /\ UNCHANGED <<waitEmpty, running, bus, pc, caller, woken, overtaken, miscounted>>
    BY <1>8 DEF Submit_fails
  <2> QED BY <1>0, <2>1
<1>9. CASE Received
  <2>1. UNCHANGED <<waitEmpty, txWork, sender, bus, pc, caller, woken, histories>>
    BY <1>9 DEF Received
  <2>2. \/ UNCHANGED running
        \/ running' = IF Head(urb) = Flush THEN running ELSE Head(urb) = Start
    BY <1>9 DEF Received
  <2>3. running' \in BOOLEAN
    BY <1>0, <2>2
  <2> QED BY <1>0, <2>1, <2>3
<1>10. CASE Tx_acknowledge
  <2>1. UNCHANGED <<sender, running, bus, pc, caller, overtaken, failed>>
    BY <1>10 DEF Tx_acknowledge
  <2>2. /\ txWork' = TRUE \/ UNCHANGED txWork
        /\ \/ UNCHANGED <<waitEmpty, woken>>
           \/ /\ waitEmpty' = FALSE
              /\ woken' = \/ caller = "check queue" \/ caller = "check count"
                          \/ caller = "asleep"
        /\ miscounted' = (miscounted /\ (Present > 1 \/ caller # "idle"))
    BY <1>10 DEF Tx_acknowledge, Wake_waiter
  <2>3. txWork' \in BOOLEAN /\ waitEmpty' \in BOOLEAN
    BY <1>0, <2>2
  <2>4. woken' \in BOOLEAN
    BY <1>0, <2>2, Zenon
  <2>5. miscounted' \in BOOLEAN
    BY <2>2, Zenon
  <2> QED BY <1>0, <2>1, <2>3, <2>4, <2>5
<1>11. CASE Flush_replied
  BY <1>0, <1>11 DEF Flush_replied, Replied, Callers
<1>12. CASE Started
  BY <1>0, <1>12 DEF Started, Replied, Callers
<1>13. CASE Stopped
  BY <1>0, <1>13, ZenonT(30) DEF Stopped, Replied, Callers
<1>14. CASE leaf_flush_tx_buffer
  <2> USE DEF Callers
  <2>1. CASE Clear_queue("clear", "count")
    BY <1>0, <2>1 DEF Clear_queue
  <2>2. CASE Clear_count("count", "ask")
    BY <1>0, <2>2 DEF Clear_count
  <2>3. CASE leaf_queue_cmd(Flush, "ask", "reply")
    BY <1>0, <2>3 DEF leaf_queue_cmd
  <2>4. CASE Restart_ids("restart", "clear again")
    BY <1>0, <2>4 DEF Restart_ids
  <2>5. CASE Clear_queue("clear again", "count again")
    BY <1>0, <2>5 DEF Clear_queue
  <2>6. CASE Clear_count("count again", IF going_on THEN "start" ELSE "idle")
    BY <1>0, <2>6 DEF Clear_count
  <2> QED BY <1>14, <2>1, <2>2, <2>3, <2>4, <2>5, <2>6 DEF leaf_flush_tx_buffer
<1>15. CASE leaf_bus_on
  <2> USE DEF Callers
  <2>1. CASE Restart_ids("start", "start count")
    BY <1>0, <2>1 DEF Restart_ids
  <2>2. CASE Clear_count("start count", "ask start")
    BY <1>0, <2>2 DEF Clear_count
  <2>3. CASE leaf_queue_cmd(Start, "ask start", "starting")
    BY <1>0, <2>3 DEF leaf_queue_cmd
  <2> QED BY <1>15, <2>1, <2>2, <2>3 DEF leaf_bus_on
<1>16. CASE leaf_bus_off
  <2> USE DEF Callers
  <2>1. CASE leaf_queue_cmd(Stop, "ask stop", "stopping")
    BY <1>0, <2>1 DEF leaf_queue_cmd
  <2>2. CASE Clear_count("stop count", "stop ids")
    BY <1>0, <2>2 DEF Clear_count
  <2>3. CASE Restart_ids("stop ids", "stop clear")
    BY <1>0, <2>3 DEF Restart_ids
  <2>4. CASE Clear_queue("stop clear", "idle")
    BY <1>0, <2>4 DEF Clear_queue
  <2> QED BY <1>16, <2>1, <2>2, <2>3, <2>4 DEF leaf_bus_off
<1>17. CASE Flush_timed_out
  BY <1>0, <1>17 DEF Flush_timed_out, Timed_out, Callers
<1>18. CASE Start_timed_out
  BY <1>0, <1>18 DEF Start_timed_out, Timed_out, Callers
<1>19. CASE Stop_timed_out
  BY <1>0, <1>19, ZenonT(30) DEF Stop_timed_out, Timed_out, Callers
<1>20. CASE Check_queue
  BY <1>0, <1>20, ZenonT(30) DEF Check_queue, Callers
<1>21. CASE Check_count
  BY <1>0, <1>21, ZenonT(30) DEF Check_count, Callers
<1>22. CASE Wake
  BY <1>0, <1>22 DEF Wake, Callers
<1>23. CASE Wait_ends("synced")
  BY <1>0, <1>23 DEF Wait_ends, Callers
<1>24. CASE Time_out
  BY <1>0, <1>24 DEF Time_out, Wait_ends, Callers
<1>25. CASE FLUSH_SENDBUFFER
  BY <1>0, <1>25 DEF FLUSH_SENDBUFFER, Callers
<1>26. CASE BUS_ON
  BY <1>0, <1>26 DEF BUS_ON, First_step, Callers
<1>27. CASE BUS_OFF
  BY <1>0, <1>27 DEF BUS_OFF, Callers
<1>28. CASE WAIT_EMPTY
  BY <1>0, <1>28 DEF WAIT_EMPTY, Callers
<1> QED BY <1>1, <1>2, <1>3, <1>4, <1>5, <1>6, <1>7, <1>8, <1>9, <1>10, <1>11,
           <1>12, <1>13, <1>14, <1>15, <1>16, <1>17, <1>18, <1>19, <1>20,
           <1>21, <1>22, <1>23, <1>24, <1>25, <1>26, <1>27, <1>28 DEF Next,
           Worker, Receiver, Caller, wait_tx_queue_empty

\* What a step does to the queues, if it is not one of those that fill them.
QueuesKept == UNCHANGED <<command, buffer, urb, device>>

\* Every step keeps the types of the queues.
LEMMA QueuesStep ==
    ASSUME TypeOK, [Next]_vars
    PROVE  Queues'
<1> USE DEF channel, transfer, bus, histories, Goes
<1>0. Queues /\ <<>> \in Seq(Items) /\ <<>> \in Seq(Commands)
  BY TypeParts
<1>k. ASSUME QueuesKept PROVE Queues'
  BY <1>0, <1>k DEF Queues, QueuesKept
<1>1. CASE UNCHANGED vars
  BY <1>1, <1>k DEF vars, QueuesKept
<1>2. ASSUME NEW w \in Writer, SENDMSG(w) \/ leaf_schedule_send(w)
      PROVE  Queues'
  BY <1>2, <1>k DEF SENDMSG, leaf_schedule_send, QueuesKept
<1>3. CASE leaf_send
  <2>1. command \in Seq(Items)
    BY <1>0, WiderSeq DEF Queues, Items
  <2> QED BY <2>1, <1>0, <1>3 DEF leaf_send, Queues
<1>4. CASE Take
  <2>1. transId \in Items
    BY DEF TypeOK, Items
  <2>2. buffer' \in Seq(Items)
    BY <2>1, <1>0, <1>4, AppendProperties DEF Queues, Take
  <2> QED BY <2>2, <1>0, <1>4 DEF Take, Queues
<1>5. CASE Pop \/ Nothing_filled
  BY <1>5, <1>k DEF Pop, Nothing_filled, QueuesKept
<1>6. CASE leaf_transmit \/ Submit_fails
  BY <1>0, <1>6 DEF leaf_transmit, Submit_fails, Queues
<1>7. CASE Received
  <2>1. urb # <<>> /\ UNCHANGED <<command, buffer>> /\ urb' = <<>>
    BY <1>7 DEF Received
  <2>2. CASE Head(urb) \in TransIds
    BY <2>1, <2>2, <1>0, <1>7, ConcatProperties DEF Queues, Received
  <2>3. CASE Head(urb) \notin TransIds
    <3>1. PICK n \in 0 .. (IF running THEN Len(device) ELSE 0) :
            \/ Head(urb) = Flush /\ device' = Past(n) \o urb
            \/ Head(urb) # Flush /\ device' = Past(n) \o <<Head(urb)>>
            \/ /\ Head(urb) # Flush
               /\ device' = Past(n) \o <<Head(urb)>> \o Unsent(n) \o Tail(urb)
      BY <2>3, <1>7 DEF Received
    <3>2. n \in 0 .. Len(device)
      BY <3>1, <1>0, LenProperties DEF Queues
    <3>3. /\ Past(n) \in Seq(Items) /\ Unsent(n) \in Seq(Items)
          /\ <<Head(urb)>> \in Seq(Items) /\ Tail(urb) \in Seq(Items)
      BY <3>2, <2>1, Pieces
    <3>4. /\ Past(n) \o urb \in Seq(Items)
          /\ Past(n) \o <<Head(urb)>> \in Seq(Items)
          /\ Past(n) \o <<Head(urb)>> \o Unsent(n) \o Tail(urb) \in Seq(Items)
      BY <3>3, <1>0, ConcatProperties DEF Queues
    <3> QED BY <3>1, <3>4, <2>1, <1>0 DEF Queues
  <2> QED BY <2>2, <2>3
<1>8. CASE Tx_acknowledge \/ Flush_replied \/ Started \/ Stopped
  <2>1. device # <<>> /\ device' = Tail(device) /\ UNCHANGED <<command, buffer, urb>>
    BY <1>8 DEF Tx_acknowledge, Flush_replied, Started, Stopped, Replied
  <2>2. device' \in Seq(Items)
    BY <2>1, <1>0, HeadTailProperties DEF Queues
  <2> QED BY <2>1, <2>2, <1>0 DEF Queues
<1>9. ASSUME NEW cmd \in Commands, NEW from, NEW to, leaf_queue_cmd(cmd, from, to)
      PROVE  Queues'
  <2>1. <<cmd>> \in Seq(Commands)
    OBVIOUS
  <2> QED BY <2>1, <1>0, <1>9 DEF leaf_queue_cmd, Queues
<1>10. ASSUME NEW from, NEW to,
              \/ Clear_queue(from, to) \/ Clear_count(from, to) \/ Restart_ids(from, to)
       PROVE  Queues'
  BY <1>10, <1>k DEF Clear_queue, Clear_count, Restart_ids, QueuesKept
<1>11. CASE leaf_flush_tx_buffer \/ leaf_bus_on \/ leaf_bus_off
  BY <1>9, <1>10, <1>11 DEF leaf_flush_tx_buffer, leaf_bus_on, leaf_bus_off, Commands
<1>12. CASE Flush_timed_out \/ Start_timed_out \/ Stop_timed_out
  BY <1>12, <1>k
     DEF Flush_timed_out, Start_timed_out, Stop_timed_out, Timed_out, QueuesKept
<1>13. CASE wait_tx_queue_empty \/ Time_out \/ WAIT_EMPTY
  BY <1>13, <1>k
     DEF wait_tx_queue_empty, Check_queue, Check_count, Wake, Wait_ends, Time_out,
         WAIT_EMPTY, QueuesKept
<1>14. CASE FLUSH_SENDBUFFER \/ BUS_ON \/ BUS_OFF
  BY <1>14, <1>k DEF FLUSH_SENDBUFFER, BUS_ON, BUS_OFF, QueuesKept
<1> QED BY <1>1, <1>2, <1>3, <1>4, <1>5, <1>6, <1>7, <1>8, <1>11, <1>12, <1>13,
           <1>14 DEF Next, Worker, Receiver, Caller

\* Every step keeps the types.
LEMMA TypeStep ==
    ASSUME TypeOK, Bounded, Filling, [Next]_vars
    PROVE  TypeOK'
<1>1. Counters' /\ Queues' /\ Controls'
  BY CountersStep, QueuesStep, ControlsStep
<1> QED BY <1>1 DEF TypeOK, Counters, Queues, Controls, Callers

----------------------------------------------------------------------------
(* What a step does to what is on its way.                                  *)

\* What is told apart on its way.
Tracked == TransIds \cup {Flush}

\* The queues are those of the types.
LEMMA QueueTypes ==
    ASSUME TypeOK
    PROVE  /\ device \in Seq(Items) /\ urb \in Seq(Items) /\ buffer \in Seq(Items)
           /\ command \in Seq(Items) /\ <<>> \in Seq(Items)
           /\ InFlight = (device \o urb) \o (buffer \o command)
           /\ device \o urb \in Seq(Items) /\ buffer \o command \in Seq(Items)
<1>1. command \in Seq(Commands) /\ Commands \subseteq Items
  BY DEF TypeOK, Items
<1>2. /\ device \in Seq(Items) /\ urb \in Seq(Items) /\ buffer \in Seq(Items)
      /\ command \in Seq(Items)
  BY <1>1, WiderSeq DEF TypeOK
<1>3. device \o urb \in Seq(Items) /\ buffer \o command \in Seq(Items)
  BY <1>2, ConcatProperties
<1>4. ((device \o urb) \o buffer) \o command = (device \o urb) \o (buffer \o command)
  BY <1>2, <1>3, ConcatAssociative, SMTT(60)
<1> QED BY <1>2, <1>3, <1>4 DEF InFlight

\* Handing a buffer on changes nothing.
LEMMA HandedOn ==
    ASSUME TypeOK, Filling, leaf_send \/ leaf_transmit
    PROVE  InFlight' = InFlight
<1>1. /\ device \in Seq(Items) /\ buffer \in Seq(Items) /\ command \in Seq(Items)
      /\ <<>> \in Seq(Items) /\ device \o buffer \in Seq(Items)
  BY QueueTypes, ConcatProperties
<1>2. /\ <<>> \o command = command /\ command \o <<>> = command
      /\ device \o <<>> = device /\ (device \o buffer) \o <<>> = device \o buffer
  BY <1>1, ConcatEmptySeq
<1>3. CASE leaf_send
  <2>1. urb = <<>> /\ buffer = <<>> /\ UNCHANGED <<device, urb>>
    BY <1>3 DEF leaf_send, Filling
  <2>2. InFlight = device \o command
    BY <2>1, <1>2 DEF InFlight
  <2>3. CASE command' = <<>> /\ buffer' = command
    <3>1. InFlight' = ((device \o <<>>) \o command) \o <<>>
      BY <2>1, <2>3 DEF InFlight
    <3>2. device \o command \in Seq(Items)
      BY <1>1, ConcatProperties
    <3>3. (device \o command) \o <<>> = device \o command
      BY <3>2, ConcatEmptySeq
    <3> QED BY <3>1, <3>3, <1>2, <2>2
  <2>4. CASE UNCHANGED <<command, buffer>>
    BY <2>1, <2>4 DEF InFlight
  <2> QED BY <2>3, <2>4, <1>3 DEF leaf_send
<1>4. CASE leaf_transmit
  <2>1. urb = <<>> /\ urb' = buffer /\ buffer' = <<>> /\ UNCHANGED <<device, command>>
    BY <1>4 DEF leaf_transmit, Filling, Filled
  <2>2. InFlight = (device \o buffer) \o command
    BY <2>1, <1>2 DEF InFlight
  <2>3. InFlight' = ((device \o buffer) \o <<>>) \o command
    BY <2>1 DEF InFlight
  <2> QED BY <2>2, <2>3, <1>2
<1> QED BY <1>3, <1>4

\* A transfer that fails loses the buffer.
LEMMA Fails ==
    ASSUME TypeOK, Submit_fails
    PROVE  Thins(InFlight, InFlight', Tracked)
<1>1. /\ UNCHANGED <<device, urb, command>> /\ buffer' = <<>>
      /\ device \in Seq(Items) /\ urb \in Seq(Items) /\ buffer \in Seq(Items)
      /\ command \in Seq(Items) /\ <<>> \in Seq(Items)
      /\ device \o urb \in Seq(Items)
  BY QueueTypes DEF Submit_fails
<1>2. At(<<>>, Tracked) = {}
  BY DEF At
<1>3. Thins(buffer, <<>>, Tracked)
  BY <1>2, ThinsToNothing
<1>4. Thins(device \o urb, device \o urb, Tracked) /\ Thins(command, command, Tracked)
  BY <1>1, ThinsItself
<1>5. Thins((device \o urb) \o buffer, (device \o urb) \o <<>>, Tracked)
  BY <1>1, <1>3, <1>4, ThinsConcat
<1>6. (device \o urb) \o buffer \in Seq(Items) /\ (device \o urb) \o <<>> \in Seq(Items)
  BY <1>1, ConcatProperties
<1>7. Thins(((device \o urb) \o buffer) \o command,
            ((device \o urb) \o <<>>) \o command, Tracked)
  BY <1>1, <1>4, <1>5, <1>6, ThinsConcat
<1> QED BY <1>1, <1>7 DEF InFlight

\* The device loses what it has not sent, or nothing.
LEMMA Receives ==
    ASSUME TypeOK, Received
    PROVE  Thins(InFlight, InFlight', Tracked)
<1> DEFINE rest == buffer \o command
<1>0. /\ device \in Seq(Items) /\ urb \in Seq(Items) /\ rest \in Seq(Items)
      /\ <<>> \in Seq(Items) /\ device \o urb \in Seq(Items)
      /\ InFlight = (device \o urb) \o rest
  BY QueueTypes
<1>1. urb # <<>> /\ urb' = <<>> /\ UNCHANGED <<buffer, command>>
  BY DEF Received
<1>2. ASSUME device' \in Seq(Items), Thins(device \o urb, device', Tracked)
      PROVE  Thins(InFlight, InFlight', Tracked)
  <2>1. device' \o <<>> = device'
    BY <1>2, ConcatEmptySeq
  <2>2. (device' \o buffer) \o command = device' \o (buffer \o command)
    <3>1. buffer \in Seq(Items) /\ command \in Seq(Items)
      BY QueueTypes
    <3> QED BY <3>1, <1>2, ConcatAssociative
  <2>3. InFlight' = device' \o rest
    BY <2>1, <2>2, <1>1 DEF InFlight
  <2> HIDE DEF rest
  <2>4. Thins(rest, rest, Tracked)
    BY <1>0, ThinsItself
  <2>5. Thins((device \o urb) \o rest, device' \o rest, Tracked)
    BY <1>0, <1>2, <2>4, ThinsConcat
  <2> QED BY <2>3, <2>5, <1>0
<1> HIDE DEF rest
<1>3. CASE Head(urb) \in TransIds
  <2>1. device' = device \o urb
    BY <1>3 DEF Received
  <2>2. Thins(device \o urb, device \o urb, Tracked)
    BY <1>0, ThinsItself
  <2> QED BY <2>1, <2>2, <1>0, <1>2
<1>4. CASE Head(urb) \notin TransIds
  <2>1. PICK n \in 0 .. (IF running THEN Len(device) ELSE 0) :
          \/ Head(urb) = Flush /\ device' = Past(n) \o urb
          \/ Head(urb) # Flush /\ device' = Past(n) \o <<Head(urb)>>
          \/ /\ Head(urb) # Flush
             /\ device' = Past(n) \o <<Head(urb)>> \o Unsent(n) \o Tail(urb)
    BY <1>4 DEF Received
  <2>2. n \in 0 .. Len(device)
    BY <2>1, <1>0, LenProperties
  <2> DEFINE p == Past(n)
             u == Unsent(n)
             h == <<Head(urb)>>
             t == Tail(urb)
  <2>3. /\ p \in Seq(Items) /\ u \in Seq(Items) /\ h \in Seq(Items) /\ t \in Seq(Items)
        /\ device = p \o u /\ urb = h \o t
    BY <2>2, <1>1, Pieces
  <2>4. Head(urb) # Flush => At(h, Tracked) = {}
    BY <1>4 DEF At, Tracked
  <2>5. Past(n) \o <<Head(urb)>> = p \o h
        /\ Past(n) \o <<Head(urb)>> \o Unsent(n) \o Tail(urb) = ((p \o h) \o u) \o t
    OBVIOUS
  <2> HIDE DEF p, u, h, t
  <2>6. /\ Thins(p, p, Tracked) /\ Thins(u, u, Tracked) /\ Thins(urb, urb, Tracked)
        /\ Thins(t, t, Tracked)
    BY <2>3, <1>0, ThinsItself
  <2>7. /\ p \o h \in Seq(Items) /\ (p \o h) \o u \in Seq(Items)
        /\ ((p \o h) \o u) \o t \in Seq(Items) /\ p \o urb \in Seq(Items)
        /\ p \o <<>> = p
    BY <2>3, <1>0, ConcatProperties, ConcatEmptySeq
  <2>8. CASE Head(urb) = Flush /\ device' = Past(n) \o urb
    <3>1. At(<<>>, Tracked) = {}
      BY DEF At
    <3>2. Thins(u, <<>>, Tracked)
      BY <3>1, ThinsToNothing
    <3>3. Thins(p \o u, p \o <<>>, Tracked)
      BY <3>2, <2>3, <2>6, <1>0, ThinsConcat
    <3>4. Thins((p \o u) \o urb, p \o urb, Tracked)
      BY <3>3, <2>3, <2>6, <2>7, <1>0, ThinsConcat
    <3> QED BY <3>4, <2>3, <2>7, <2>8, <1>2 DEF p
  <2>9. CASE Head(urb) # Flush /\ device' = Past(n) \o <<Head(urb)>>
    <3>1. At(<<>>, Tracked) = {}
      BY DEF At
    <3>2. Thins(u, <<>>, Tracked) /\ Thins(urb, h, Tracked)
      BY <3>1, <2>4, <2>9, ThinsToNothing
    <3>3. Thins(p \o u, p \o <<>>, Tracked)
      BY <3>2, <2>3, <2>6, <1>0, ThinsConcat
    <3>4. Thins((p \o u) \o urb, p \o h, Tracked)
      BY <3>2, <3>3, <2>3, <2>7, <1>0, ThinsConcat
    <3> QED BY <3>4, <2>3, <2>5, <2>7, <2>9, <1>2
  <2>10. CASE /\ Head(urb) # Flush
              /\ device' = Past(n) \o <<Head(urb)>> \o Unsent(n) \o Tail(urb)
    <3>1. /\ p \o u = (p \o <<>>) \o u
          /\ h \o t \in Seq(Items)
      BY <2>3, <2>7, ConcatProperties
    <3>2. Thins(<<>>, h, Tracked) /\ Thins(h, <<>>, Tracked)
      <4>1. At(<<>>, Tracked) = {}
        BY DEF At
      <4> QED BY <4>1, <2>4, <2>10, ThinsToNothing
    <3>3. Thins(p \o <<>>, p \o h, Tracked)
      BY <3>2, <2>3, <2>6, <1>0, ThinsConcat
    <3>4. p \o <<>> \in Seq(Items)
      BY <2>3, <2>7
    <3>5. Thins((p \o <<>>) \o u, (p \o h) \o u, Tracked)
      BY <3>3, <3>4, <2>3, <2>6, <2>7, ThinsConcat
    <3>6. <<>> \o t = t
      BY <2>3, ConcatEmptySeq
    <3>7. Thins(h \o t, <<>> \o t, Tracked)
      BY <3>2, <2>3, <2>6, <1>0, ThinsConcat
    <3>8. Thins((p \o u) \o (h \o t), ((p \o h) \o u) \o t, Tracked)
      <4>1. Thins(h \o t, t, Tracked) /\ Thins(p \o u, (p \o h) \o u, Tracked)
        BY <3>1, <3>5, <3>6, <3>7
      <4>2. p \o u \in Seq(Items)
        BY <2>3, <1>0
      <4> QED BY <4>1, <4>2, <3>1, <2>3, <2>7, ThinsConcat
    <3> QED BY <3>8, <2>3, <2>5, <2>7, <2>10, <1>2
  <2> QED BY <2>1, <2>8, <2>9, <2>10
<1> QED BY <1>3, <1>4

\* The first of a concatenation is that of its first part.
LEMMA TailOfConcat ==
    ASSUME NEW S, NEW s \in Seq(S), NEW t \in Seq(S), s # <<>>
    PROVE  /\ s \o t # <<>> /\ Head(s \o t) = Head(s)
           /\ Tail(s \o t) = Tail(s) \o t
<1>1. /\ Len(s) \in Nat \ {0} /\ Len(t) \in Nat /\ Tail(s) \in Seq(S)
      /\ Len(Tail(s)) = Len(s) - 1
      /\ \A k \in 1 .. Len(s) - 1 : Tail(s)[k] = s[k + 1]
  BY EmptySeq, LenProperties, HeadTailProperties
<1> DEFINE st == s \o t
          r == Tail(s)
<1>2. /\ st \in Seq(S) /\ Len(st) = Len(s) + Len(t)
      /\ \A k \in 1 .. Len(s) + Len(t) :
            st[k] = IF k <= Len(s) THEN s[k] ELSE t[k - Len(s)]
  BY ConcatProperties
<1>3. /\ r \o t \in Seq(S) /\ Len(r \o t) = Len(r) + Len(t)
      /\ \A k \in 1 .. Len(r) + Len(t) :
            (r \o t)[k] = IF k <= Len(r) THEN r[k] ELSE t[k - Len(r)]
  BY <1>1, ConcatProperties
<1> HIDE DEF st, r
<1>4. st # <<>> /\ Len(st) > 0
  BY <1>1, <1>2
<1>5. /\ Tail(st) \in Seq(S) /\ Len(Tail(st)) = Len(st) - 1 /\ Head(st) = st[1]
      /\ \A k \in 1 .. Len(Tail(st)) : Tail(st)[k] = st[k + 1]
  BY <1>2, <1>4, HeadTailProperties
<1>6. Head(st) = Head(s)
  <2>1. Head(s) = s[1]
    OBVIOUS
  <2> QED BY <2>1, <1>1, <1>2, <1>5
<1>7. /\ Len(Tail(st)) = Len(r \o t)
      /\ \A k \in 1 .. Len(Tail(st)) : Tail(st)[k] = (r \o t)[k]
  BY <1>1, <1>2, <1>3, <1>5, SMTT(60) DEF r
<1>8. Tail(st) = r \o t
  BY <1>3, <1>5, <1>7, SeqEqual
<1> QED BY <1>4, <1>6, <1>8 DEF st, r

\* What the device acknowledges or answers was the first on its way.
LEMMA Answers ==
    ASSUME TypeOK, device # <<>>, device' = Tail(device),
           UNCHANGED <<command, buffer, urb>>
    PROVE  /\ InFlight # <<>> /\ Head(InFlight) = Head(device)
           /\ InFlight' = Tail(InFlight)
<1> DEFINE rest == buffer \o command
<1>0. /\ device \in Seq(Items) /\ urb \in Seq(Items) /\ rest \in Seq(Items)
      /\ device \o urb \in Seq(Items) /\ InFlight = (device \o urb) \o rest
      /\ Tail(device) \in Seq(Items)
      /\ buffer \in Seq(Items) /\ command \in Seq(Items)
  BY QueueTypes, HeadTailProperties
<1>1. InFlight' = ((Tail(device) \o urb) \o buffer) \o command
  BY DEF InFlight
<1>2. Tail(device) \o urb \in Seq(Items)
  BY <1>0, ConcatProperties
<1>3. ((Tail(device) \o urb) \o buffer) \o command = (Tail(device) \o urb) \o rest
  <2> DEFINE t == Tail(device) \o urb
  <2>1. t \in Seq(Items)
    BY <1>2
  <2> HIDE DEF t
  <2>2. buffer \in Seq(Items) /\ command \in Seq(Items)
    BY <1>0
  <2>3. (t \o buffer) \o command = t \o (buffer \o command)
    BY <2>1, <2>2, ConcatAssociative, SMTT(30)
  <2> QED BY <2>3 DEF t
<1> HIDE DEF rest
<1>4. /\ device \o urb # <<>> /\ Head(device \o urb) = Head(device)
      /\ Tail(device \o urb) = Tail(device) \o urb
  BY <1>0, TailOfConcat
<1>5. /\ InFlight # <<>> /\ Head(InFlight) = Head(device \o urb)
      /\ Tail(InFlight) = Tail(device \o urb) \o rest
  BY <1>0, <1>4, TailOfConcat, ZenonT(30)
<1> QED BY <1>1, <1>3, <1>4, <1>5

\* A command is added behind everything; one that nobody waits for is lost.
LEMMA Asks ==
    ASSUME TypeOK, NEW cmd \in Commands, NEW from, NEW to,
           leaf_queue_cmd(cmd, from, to)
    PROVE  /\ Thins(InFlight, InFlight', TransIds)
           /\ cmd # Flush => Thins(InFlight, InFlight', Tracked)
<1> DEFINE front == (device \o urb) \o buffer
<1>0. /\ device \in Seq(Items) /\ urb \in Seq(Items) /\ buffer \in Seq(Items)
      /\ device \o urb \in Seq(Items) /\ command \in Seq(Items)
      /\ <<cmd>> \in Seq(Items)
  <2>1. <<cmd>> \in Seq(Items)
    BY DEF Items
  <2> QED BY <2>1, QueueTypes
<1>1. front \in Seq(Items)
  BY <1>0, ConcatProperties
<1>2. InFlight = front \o command /\ InFlight' = front \o <<cmd>>
  BY DEF InFlight, leaf_queue_cmd
<1> HIDE DEF front
<1>3. /\ At(<<cmd>>, TransIds) = {}
      /\ cmd # Flush => At(<<cmd>>, Tracked) = {}
  BY OutstandingAssumption DEF At, Tracked, TransIds, Commands, Flush, Start, Stop
<1>4. ASSUME NEW V, At(<<cmd>>, V) = {}
      PROVE  Thins(InFlight, InFlight', V)
  <2>1. Thins(front, front, V)
    BY <1>1, ThinsItself
  <2>2. Thins(command, <<cmd>>, V)
    BY <1>4, ThinsToNothing
  <2>3. Thins(front \o command, front \o <<cmd>>, V)
    BY <2>1, <2>2, <1>0, <1>1, ThinsConcat
  <2> QED BY <2>3, <1>2
<1>5. Thins(InFlight, InFlight', TransIds)
  BY <1>3, <1>4
<1>6. CASE cmd # Flush
  <2>1. At(<<cmd>>, Tracked) = {}
    BY <1>3, <1>6
  <2>2. Thins(InFlight, InFlight', Tracked)
    BY <2>1, <1>4
  <2> QED BY <2>2, <1>5
<1> QED BY <1>5, <1>6

\* Every step but Take and the request to flush loses what is on its way, or
\* nothing of it.
LEMMA StepThins ==
    ASSUME TypeOK, Filling, [Next]_vars, ~Take,
           ~leaf_queue_cmd(Flush, "ask", "reply")
    PROVE  Thins(InFlight, InFlight', Tracked)
<1> USE DEF channel, transfer, bus, histories
<1>k. ASSUME InFlight' = InFlight PROVE Thins(InFlight, InFlight', Tracked)
  BY <1>k, CountedInFlight, ThinsItself
<1>q. ASSUME QueuesKept PROVE Thins(InFlight, InFlight', Tracked)
  <2>1. InFlight' = InFlight
    BY <1>q DEF QueuesKept, InFlight
  <2> QED BY <2>1, <1>k
<1>1. CASE UNCHANGED vars
  BY <1>1, <1>q DEF vars, QueuesKept
<1>2. ASSUME NEW w \in Writer, SENDMSG(w) \/ leaf_schedule_send(w)
      PROVE  Thins(InFlight, InFlight', Tracked)
  BY <1>2, <1>q DEF SENDMSG, leaf_schedule_send, QueuesKept
<1>3. CASE leaf_send \/ leaf_transmit
  BY <1>3, <1>k, HandedOn
<1>4. CASE Pop \/ Nothing_filled
  BY <1>4, <1>q DEF Pop, Nothing_filled, QueuesKept
<1>5. CASE Submit_fails \/ Received
  BY <1>5, Fails, Receives
<1>6. CASE Tx_acknowledge \/ Flush_replied \/ Started \/ Stopped
  <2>1. device # <<>> /\ device' = Tail(device) /\ UNCHANGED <<command, buffer, urb>>
    BY <1>6 DEF Tx_acknowledge, Flush_replied, Started, Stopped, Replied
  <2> QED BY <2>1, Answers, CountedInFlight, ThinsTail
<1>7. ASSUME NEW cmd \in {Start, Stop}, NEW from, NEW to, leaf_queue_cmd(cmd, from, to)
      PROVE  Thins(InFlight, InFlight', Tracked)
  <2>1. cmd \in Commands /\ cmd # Flush
    BY OutstandingAssumption DEF Commands, Flush, Start, Stop
  <2> QED BY <2>1, <1>7, Asks
<1>8. ASSUME NEW from, NEW to,
             \/ Clear_queue(from, to) \/ Clear_count(from, to) \/ Restart_ids(from, to)
      PROVE  Thins(InFlight, InFlight', Tracked)
  BY <1>8, <1>q DEF Clear_queue, Clear_count, Restart_ids, QueuesKept
<1>9. CASE leaf_flush_tx_buffer \/ leaf_bus_on \/ leaf_bus_off
  BY <1>7, <1>8, <1>9 DEF leaf_flush_tx_buffer, leaf_bus_on, leaf_bus_off
<1>10. CASE Flush_timed_out \/ Start_timed_out \/ Stop_timed_out
  BY <1>10, <1>q
     DEF Flush_timed_out, Start_timed_out, Stop_timed_out, Timed_out, QueuesKept
<1>11. CASE wait_tx_queue_empty \/ Time_out \/ WAIT_EMPTY
  BY <1>11, <1>q
     DEF wait_tx_queue_empty, Check_queue, Check_count, Wake, Wait_ends, Time_out,
         WAIT_EMPTY, QueuesKept
<1>12. CASE FLUSH_SENDBUFFER \/ BUS_ON \/ BUS_OFF
  BY <1>12, <1>q DEF FLUSH_SENDBUFFER, BUS_ON, BUS_OFF, QueuesKept
<1> QED BY <1>1, <1>2, <1>3, <1>4, <1>5, <1>6, <1>9, <1>10, <1>11, <1>12
        DEF Next, Worker, Receiver, Caller

\* Take adds a message behind all others, and a command stays where it is.
LEMMA Takes ==
    ASSUME TypeOK, Take
    PROVE  /\ Thins(InFlight, InFlight', {Flush})
           /\ \E p \in Nat :
                 /\ Sent' = Sent \cup {p} /\ p \notin Sent /\ InFlight'[p] = transId
                 /\ \A k \in Sent : k < p /\ InFlight'[k] = InFlight[k]
<1> DEFINE x == <<transId>>
           front == (device \o urb) \o buffer
<1>0. /\ device \in Seq(Items) /\ urb \in Seq(Items) /\ buffer \in Seq(Items)
      /\ device \o urb \in Seq(Items) /\ command \in Seq(Items)
      /\ transId \in TransIds /\ transId \in Items
  BY QueueTypes DEF TypeOK, Items
<1>1. x \in Seq(Items) /\ Len(x) = 1 /\ x[1] = transId /\ DOMAIN x = {1}
  BY <1>0
<1>2. front \in Seq(Items) /\ InFlight = front \o command
  BY <1>0, ConcatProperties DEF InFlight
<1>3. InFlight' = (front \o x) \o command
  <2>1. buffer' = buffer \o x /\ UNCHANGED <<device, urb, command>>
    BY <1>0, AppendIsConcat DEF Take
  <2>2. (device \o urb) \o (buffer \o x) = front \o x
    BY <1>0, <1>1, ConcatAssociative
  <2> QED BY <2>1, <2>2 DEF InFlight
<1> HIDE DEF x, front
<1>4. /\ front \o x \in Seq(Items) /\ Len(front) \in Nat
      /\ Len(front \o x) = Len(front) + 1
  <2>1. front \o x \in Seq(Items) /\ Len(front \o x) = Len(front) + Len(x)
    <3>1. front \in Seq(Items) /\ x \in Seq(Items)
      BY <1>1, <1>2
    <3> QED BY <3>1, ConcatProperties, Zenon
  <2> QED BY <2>1, <1>1, <1>2, LenProperties
<1>5. Thins(InFlight, InFlight', {Flush})
  <2>1. At(x, {Flush}) = {} /\ At(<<>>, {Flush}) = {}
    BY <1>0, <1>1 DEF At, Flush, TransIds
  <2>2. Thins(<<>>, x, {Flush})
    BY <2>1, ThinsToNothing
  <2>3. Thins(front, front, {Flush}) /\ Thins(command, command, {Flush})
    BY <1>0, <1>2, ThinsItself
  <2>4. front \o <<>> = front /\ <<>> \in Seq(Items)
    BY <1>2, ConcatEmptySeq
  <2>5. Thins(front \o <<>>, front \o x, {Flush})
    BY <2>2, <2>3, <2>4, <1>1, <1>2, ThinsConcat
  <2>6. Thins(front \o command, (front \o x) \o command, {Flush})
    BY <2>3, <2>4, <2>5, <1>0, <1>2, <1>4, ThinsConcat
  <2> QED BY <2>6, <1>2, <1>3
<1> DEFINE p == Len(front) + 1
<1>6. At(command, TransIds) = {}
  <2>0. Commands \cap TransIds = {}
    BY OutstandingAssumption DEF Commands, TransIds, Flush, Start, Stop
  <2>1. command \in Seq(Commands) /\ Commands \cap TransIds = {}
    BY <2>0 DEF TypeOK
  <2>2. \A k \in DOMAIN command : command[k] \in Commands
    BY <2>1, LenProperties
  <2> QED BY <2>1, <2>2 DEF At
<1>7. ASSUME NEW s \in Seq(Items)
      PROVE  /\ At(s \o command, TransIds) = At(s, TransIds)
             /\ \A k \in At(s, TransIds) : (s \o command)[k] = s[k]
  <2>1. ASSUME NEW k \in At(s, TransIds)
        PROVE  k \in At(s \o command, TransIds) /\ (s \o command)[k] = s[k]
    BY <1>0, AtFirst
  <2>2. ASSUME NEW k \in At(s \o command, TransIds) PROVE k \in At(s, TransIds)
    BY <1>0, <1>6, AtFirstOrSecond
  <2> QED BY <2>1, <2>2
<1>8. /\ Sent = At(front, TransIds)
      /\ \A k \in Sent : InFlight[k] = front[k]
  <2>1. Sent = At(front \o command, TransIds)
    BY <1>2 DEF Sent, At
  <2> QED BY <2>1, <1>2, <1>7
<1>9. /\ Sent' = At(front \o x, TransIds)
      /\ \A k \in Sent' : InFlight'[k] = (front \o x)[k]
  <2>1. Sent' = At((front \o x) \o command, TransIds)
    BY <1>3 DEF Sent, At
  <2> QED BY <2>1, <1>3, <1>4, <1>7
<1>10. At(x, TransIds) = {1}
  BY <1>0, <1>1 DEF At
<1>11. ASSUME NEW k \in At(front, TransIds)
       PROVE  k \in At(front \o x, TransIds) /\ (front \o x)[k] = front[k]
  BY <1>1, <1>2, AtFirst, ZenonT(60)
<1>12. p \in At(front \o x, TransIds) /\ (front \o x)[p] = transId
  <2>1. 1 \in At(x, TransIds)
    BY <1>10
  <2>2. /\ Len(front) + 1 \in At(front \o x, TransIds)
        /\ (front \o x)[Len(front) + 1] = x[1]
    BY <2>1, <1>1, <1>2, AtSecond, SMTT(30)
  <2> QED BY <2>2, <1>1
<1>13. ASSUME NEW k \in At(front \o x, TransIds)
       PROVE  k \in At(front, TransIds) \/ k = p
  <2>1. k \in At(front, TransIds) \/ k - Len(front) \in At(x, TransIds)
    BY <1>1, <1>2, AtFirstOrSecond
  <2>2. At(front \o x, TransIds) \subseteq 1 .. Len(front \o x)
    BY <1>4, AtFinite
  <2>3. k \in Int
    BY <2>2, <1>4
  <2>4. k - Len(front) = 1 => k = Len(front) + 1
    BY <2>3, <1>4
  <2> QED BY <2>1, <2>4, <1>10
<1>14. \A k \in Sent : k < p
  <2>1. At(front, TransIds) \subseteq 1 .. Len(front)
    BY <1>2, AtFinite
  <2> QED BY <2>1, <1>4, <1>8
<1>15. p \in Nat
  BY <1>4
<1> HIDE DEF p
<1>16. Sent' = Sent \cup {p}
  BY <1>8, <1>9, <1>11, <1>12, <1>13
<1>17. p \notin Sent
  BY <1>14, <1>15
<1>18. InFlight'[p] = transId /\ \A k \in Sent : InFlight'[k] = InFlight[k]
  BY <1>8, <1>9, <1>11, <1>12
<1> QED BY <1>5, <1>14, <1>15, <1>16, <1>17, <1>18

\* Nor does a step change that.
LEMMA CountedNext ==
    ASSUME TypeOK'
    PROVE  /\ InFlight' \in Seq(Items) /\ Sent' = At(InFlight', TransIds)
           /\ Sent' \subseteq 1 .. Len(InFlight') /\ IsFiniteSet(Sent')
           /\ Cardinality(Sent') \in Nat
<1>1. /\ device' \in Seq(Items) /\ urb' \in Seq(Items) /\ buffer' \in Seq(Items)
      /\ command' \in Seq(Commands) /\ Commands \subseteq Items
  BY DEF TypeOK, Items
<1>2. command' \in Seq(Items)
  BY <1>1, WiderSeq
<1>3. InFlight' \in Seq(Items)
  BY <1>1, <1>2, ConcatProperties DEF InFlight
<1>4. Sent' = At(InFlight', TransIds)
  BY DEF Sent, At
<1> QED BY <1>3, <1>4, AtFinite

\* A step that loses messages leaves the others in their order, and fewer.
LEMMA FewerSent ==
    ASSUME TypeOK, TypeOK', Thins(InFlight, InFlight', TransIds)
    PROVE  /\ Cardinality(Sent') <= Cardinality(Sent)
           /\ Sent = {} => Sent' = {}
           /\ \E f \in [Sent' -> Sent] :
                 /\ \A k \in Sent' : InFlight'[k] = InFlight[f[k]]
                 /\ \A j, k \in Sent' : j < k => f[j] < f[k]
<1>1. InFlight \in Seq(Items) /\ Sent = At(InFlight, TransIds)
  BY CountedInFlight
<1>2. Sent' = At(InFlight', TransIds)
  BY CountedNext
<1>3. InFlight' \in Seq(Items)
  BY CountedNext
<1>4. Cardinality(Sent') <= Cardinality(Sent)
  BY <1>1, <1>2, <1>3, ThinsCounts
<1>5. \E f \in [Sent' -> Sent] :
         /\ \A k \in Sent' : InFlight'[k] = InFlight[f[k]]
         /\ \A j, k \in Sent' : j < k => f[j] < f[k]
  BY <1>1, <1>2 DEF Thins
<1> QED BY <1>4, <1>5
\* Every step but Take loses messages on their way, or none.
LEMMA StepLoses ==
    ASSUME TypeOK, TypeOK', Filling, [Next]_vars, ~Take
    PROVE  /\ Cardinality(Sent') <= Cardinality(Sent)
           /\ Sent = {} => Sent' = {}
           /\ \E f \in [Sent' -> Sent] :
                 /\ \A k \in Sent' : InFlight'[k] = InFlight[f[k]]
                 /\ \A j, k \in Sent' : j < k => f[j] < f[k]
<1>1. Thins(InFlight, InFlight', TransIds)
  <2>1. CASE leaf_queue_cmd(Flush, "ask", "reply")
    <3>1. Flush \in Commands
      BY DEF Commands
    <3> QED BY <2>1, <3>1, Asks
  <2>2. CASE ~leaf_queue_cmd(Flush, "ask", "reply")
    <3>1. TransIds \subseteq Tracked
      BY DEF Tracked
    <3> QED BY <2>2, <3>1, StepThins, ThinsFewer
  <2> QED BY <2>1, <2>2
<1> QED BY <1>1, FewerSent

----------------------------------------------------------------------------
(* The count of what is queued, and the worker.                             *)

\* What is queued and not taken grows by what is written.
LEMMA QueuedStep ==
    ASSUME TypeOK, Filling, [Next]_vars
    PROVE  /\ Queued \in Nat
           /\ \/ /\ \E w \in Writer : SENDMSG(w)
                 /\ Queued' = Queued + 1
              \/ Take /\ Queued' = Queued - 1
              \/ /\ \E from, to : Clear_queue(from, to)
                 /\ Queued' = 0
              \/ ~Take /\ Queued' = Queued
<1> USE DEF channel, transfer, bus, histories
<1>0. Counters /\ sender \in {"idle", "fill", "pop"} /\ txChanQueue \in Nat
  BY TypeParts, RoomAssumption DEF Controls, Counters
<1>n. Queued \in Nat
  BY <1>0 DEF Queued, Filling
<1>k. ASSUME UNCHANGED <<txChanQueue, sender>> PROVE Queued' = Queued /\ ~Take
  BY <1>k, <1>0 DEF Queued, Take
<1>1. CASE UNCHANGED vars
  BY <1>1, <1>n, <1>k DEF vars
<1>2. ASSUME NEW w \in Writer, SENDMSG(w)
      PROVE  (\E v \in Writer : SENDMSG(v)) /\ Queued' = Queued + 1
  <2>1. txChanQueue' = txChanQueue + 1 /\ UNCHANGED sender
    BY <1>2 DEF SENDMSG
  <2>2. Queued' = Queued + 1
    BY <1>0, <2>1 DEF Queued
  <2> QED BY <1>2, <2>2
<1>3. ASSUME NEW w \in Writer, leaf_schedule_send(w)
      PROVE  Queued' = Queued /\ ~Take
  BY <1>3, <1>k DEF leaf_schedule_send
<1>4. CASE leaf_send
  <2>1. UNCHANGED txChanQueue /\ sender # "pop" /\ sender' # "pop" /\ sender # "fill"
    BY <1>4 DEF leaf_send
  <2>2. Queued' = Queued /\ ~Take
    BY <2>1 DEF Queued, Take
  <2> QED BY <2>2, <1>n
<1>5. CASE Take
  BY <1>0, <1>5, <1>n DEF Take, Queued
<1>6. CASE Pop
  BY <1>0, <1>6, <1>n DEF Take, Pop, Queued
<1>7. CASE Nothing_filled \/ leaf_transmit \/ Submit_fails
  BY <1>0, <1>7, <1>n DEF Nothing_filled, leaf_transmit, Submit_fails, Filled, Take, Queued
<1>8. CASE Received
  BY <1>8, <1>n, <1>k DEF Received
<1>9. CASE Tx_acknowledge \/ Flush_replied \/ Started \/ Stopped
  BY <1>9, <1>n, <1>k DEF Tx_acknowledge, Flush_replied, Started, Stopped, Replied
<1>10. ASSUME NEW from, NEW to, Clear_queue(from, to)
       PROVE  (\E a, b : Clear_queue(a, b)) /\ Queued' = 0
  BY <1>10 DEF Clear_queue, Queued
<1>11. ASSUME NEW from, NEW to, Clear_count(from, to) \/ Restart_ids(from, to)
       PROVE  Queued' = Queued /\ ~Take
  BY <1>11, <1>k DEF Clear_count, Restart_ids
<1>12. ASSUME NEW cmd, NEW from, NEW to, leaf_queue_cmd(cmd, from, to)
       PROVE  Queued' = Queued /\ ~Take
  BY <1>12, <1>k DEF leaf_queue_cmd
<1>13. CASE leaf_flush_tx_buffer \/ leaf_bus_on \/ leaf_bus_off
  BY <1>10, <1>11, <1>12, <1>13, <1>n
     DEF leaf_flush_tx_buffer, leaf_bus_on, leaf_bus_off
<1>14. CASE Flush_timed_out \/ Start_timed_out \/ Stop_timed_out
  BY <1>14, <1>n, <1>k DEF Flush_timed_out, Start_timed_out, Stop_timed_out, Timed_out
<1>15. CASE wait_tx_queue_empty \/ Time_out \/ WAIT_EMPTY
  BY <1>15, <1>n, <1>k
     DEF wait_tx_queue_empty, Check_queue, Check_count, Wake, Wait_ends, Time_out,
         WAIT_EMPTY
<1>16. CASE FLUSH_SENDBUFFER \/ BUS_ON \/ BUS_OFF
  BY <1>16, <1>n, <1>k DEF FLUSH_SENDBUFFER, BUS_ON, BUS_OFF
<1> QED BY <1>n, <1>1, <1>2, <1>3, <1>4, <1>5, <1>6, <1>7, <1>8, <1>9, <1>13,
           <1>14, <1>15, <1>16 DEF Next, Worker, Receiver, Caller

\* The bound on the messages.
LEMMA BoundedStep ==
    ASSUME TypeOK, TypeOK', Bounded, Filling, [Next]_vars
    PROVE  Bounded'
<1>0. Cardinality(Sent) \in Nat /\ Cardinality(Sent') \in Nat /\ IsFiniteSet(Sent)
  <2>1. Cardinality(Sent) \in Nat /\ IsFiniteSet(Sent)
    BY CountedInFlight
  <2>2. Cardinality(Sent') \in Nat
    BY CountedNext
  <2> QED BY <2>1, <2>2
<1>1. Queued \in Nat
  BY QueuedStep
<1>2. CASE Take
  <2>1. Queued' = Queued - 1
    <3>1. txChanQueue \in Nat
      BY TypeParts, RoomAssumption DEF Counters
    <3> QED BY <3>1, <1>2 DEF Take, Queued
  <2>2. PICK p \in Nat : Sent' = Sent \cup {p} /\ p \notin Sent
    BY <1>2, Takes
  <2>3. Cardinality(Sent') = Cardinality(Sent) + 1
    BY <2>2, <1>0, FS_AddElement
  <2> QED BY <1>0, <1>1, <2>1, <2>3, BoundAssumption DEF Bounded, Present
<1>3. CASE ~Take
  <2>1. Cardinality(Sent') <= Cardinality(Sent)
    BY <1>3, StepLoses
  <2>2. (\E w \in Writer : SENDMSG(w)) => Present < MaxMessages
    BY DEF SENDMSG
  <2>3. \/ Queued' <= Queued /\ Queued' \in Nat
        \/ Present < MaxMessages /\ Queued' = Queued + 1
    BY <1>1, <1>3, <2>2, QueuedStep
  <2> QED BY <1>0, <1>1, <2>1, <2>3, BoundAssumption DEF Bounded, Present
<1> QED BY <1>2, <1>3

\* Every step keeps the worker's part.
LEMMA FillingStep ==
    ASSUME TypeOK, Filling, [Next]_vars
    PROVE  Filling'
<1> USE DEF channel, transfer, bus, histories
<1>0. txChanQueue \in Nat /\ sender \in {"idle", "fill", "pop"}
  BY TypeParts, RoomAssumption DEF Controls, Counters
<1>k. ASSUME UNCHANGED <<txChanQueue, sender, buffer, urb>> PROVE Filling'
  BY <1>k DEF Filling
<1>1. CASE UNCHANGED vars
  BY <1>1, <1>k DEF vars
<1>2. ASSUME NEW w \in Writer, SENDMSG(w)
      PROVE  Filling'
  BY <1>0, <1>2 DEF SENDMSG, Filling
<1>3. ASSUME NEW w \in Writer, leaf_schedule_send(w)
      PROVE  Filling'
  BY <1>3, <1>k DEF leaf_schedule_send
<1>4. CASE leaf_send
  BY <1>4 DEF leaf_send, Filling
<1>5. CASE Take
  BY <1>5 DEF Take, Filling
<1>6. CASE Pop
  BY <1>6 DEF Pop, Filling
<1>7. CASE Nothing_filled
  BY <1>7 DEF Nothing_filled, Filled, Filling
<1>8. CASE leaf_transmit \/ Submit_fails
  BY <1>8 DEF leaf_transmit, Submit_fails, Filled, Filling
<1>9. CASE Received
  <2>1. urb' = <<>> /\ UNCHANGED <<txChanQueue, sender, buffer>>
    BY <1>9 DEF Received
  <2> QED BY <2>1 DEF Filling
<1>10. CASE Tx_acknowledge \/ Flush_replied \/ Started \/ Stopped
  BY <1>10, <1>k DEF Tx_acknowledge, Flush_replied, Started, Stopped, Replied
<1>11. ASSUME NEW from, NEW to, Clear_queue(from, to)
       PROVE  Filling'
  BY <1>11 DEF Clear_queue, Filling
<1>12. ASSUME NEW from, NEW to, Clear_count(from, to) \/ Restart_ids(from, to)
       PROVE  Filling'
  BY <1>12, <1>k DEF Clear_count, Restart_ids
<1>13. ASSUME NEW cmd, NEW from, NEW to, leaf_queue_cmd(cmd, from, to)
       PROVE  Filling'
  BY <1>13, <1>k DEF leaf_queue_cmd
<1>14. CASE leaf_flush_tx_buffer \/ leaf_bus_on \/ leaf_bus_off
  BY <1>11, <1>12, <1>13, <1>14
     DEF leaf_flush_tx_buffer, leaf_bus_on, leaf_bus_off
<1>15. CASE Flush_timed_out \/ Start_timed_out \/ Stop_timed_out
  BY <1>15, <1>k DEF Flush_timed_out, Start_timed_out, Stop_timed_out, Timed_out
<1>16. CASE wait_tx_queue_empty \/ Time_out \/ WAIT_EMPTY
  BY <1>16, <1>k
     DEF wait_tx_queue_empty, Check_queue, Check_count, Wake, Wait_ends, Time_out,
         WAIT_EMPTY
<1>17. CASE FLUSH_SENDBUFFER \/ BUS_ON \/ BUS_OFF
  BY <1>17, <1>k DEF FLUSH_SENDBUFFER, BUS_ON, BUS_OFF
<1> QED BY <1>1, <1>2, <1>3, <1>4, <1>5, <1>6, <1>7, <1>8, <1>9, <1>10, <1>14,
           <1>15, <1>16, <1>17 DEF Next, Worker, Receiver, Caller

----------------------------------------------------------------------------
(* The count and the numbers.                                               *)

\* What most steps leave alone.
NumbersKept == UNCHANGED <<transId, outstanding_tx, miscounted>>

\* The steps that count and number.
LEMMA NumbersCases ==
    ASSUME [Next]_vars
    PROVE  \/ NumbersKept /\ ~Take
           \/ Take \/ Tx_acknowledge \/ Started
           \/ \E from, to : Clear_count(from, to) \/ Restart_ids(from, to)
<1> USE DEF channel, transfer, bus, histories, NumbersKept
<1> DEFINE Other == Take \/ Tx_acknowledge \/ Started
                    \/ \E from, to : Clear_count(from, to) \/ Restart_ids(from, to)
<1> SUFFICES NumbersKept \/ Other
  BY Zenon
<1>1. CASE UNCHANGED vars
  BY <1>1 DEF vars
<1>2. ASSUME NEW w \in Writer, SENDMSG(w) \/ leaf_schedule_send(w)
      PROVE  NumbersKept
  BY <1>2 DEF SENDMSG, leaf_schedule_send
<1>3. CASE leaf_send \/ Pop \/ Nothing_filled \/ leaf_transmit
  BY <1>3 DEF leaf_send, Pop, Nothing_filled, leaf_transmit
<1>4. CASE Submit_fails \/ Received
  BY <1>4 DEF Submit_fails, Received
<1>5. CASE Flush_replied \/ Stopped
  BY <1>5 DEF Flush_replied, Stopped, Replied
<1>6. ASSUME NEW from, NEW to, NEW cmd, Clear_queue(from, to) \/ leaf_queue_cmd(cmd, from, to)
      PROVE  NumbersKept
  BY <1>6 DEF Clear_queue, leaf_queue_cmd
<1>7. CASE leaf_flush_tx_buffer \/ leaf_bus_on \/ leaf_bus_off
  BY <1>6, <1>7 DEF leaf_flush_tx_buffer, leaf_bus_on, leaf_bus_off
<1>8. CASE Flush_timed_out \/ Start_timed_out \/ Stop_timed_out
  BY <1>8 DEF Flush_timed_out, Start_timed_out, Stop_timed_out, Timed_out
<1>9. CASE wait_tx_queue_empty \/ Time_out \/ WAIT_EMPTY
  BY <1>9 DEF wait_tx_queue_empty, Check_queue, Check_count, Wake, Wait_ends, Time_out,
              WAIT_EMPTY
<1>10. CASE FLUSH_SENDBUFFER \/ BUS_ON \/ BUS_OFF
  BY <1>10 DEF FLUSH_SENDBUFFER, BUS_ON, BUS_OFF
<1>11. CASE Take \/ Tx_acknowledge \/ Started
  BY <1>11
<1> HIDE DEF Other, NumbersKept
<1> QED BY <1>1, <1>2, <1>3, <1>4, <1>5, <1>7, <1>8, <1>9, <1>10, <1>11
        DEF Next, Worker, Receiver, Caller

\* A number is at most a round behind, and one more behind the next number.
LEMMA BehindNext ==
    ASSUME NEW n \in TransIds, NEW x \in TransIds
    PROVE  /\ Behind(n, x) \in 1 .. max_outstanding_tx
           /\ Next_id(n) \in TransIds
           /\ Behind(n, x) < max_outstanding_tx =>
                 Behind(Next_id(n), x) = Behind(n, x) + 1
           /\ Behind(Next_id(n), n) = 1
  BY OutstandingAssumption DEF Behind, Next_id, TransIds

\* The count and the numbers are right for what is left of what they were right
\* for.
LEMMA NumbersThin ==
    ASSUME TypeOK, TypeOK', Counting, Numbering,
           UNCHANGED <<transId, outstanding_tx>>, miscounted => miscounted',
           Cardinality(Sent') <= Cardinality(Sent),
           \E f \in [Sent' -> Sent] :
                 /\ \A k \in Sent' : InFlight'[k] = InFlight[f[k]]
                 /\ \A j, k \in Sent' : j < k => f[j] < f[k]
    PROVE  Counting' /\ Numbering'
<1>1. PICK f \in [Sent' -> Sent] :
          /\ \A k \in Sent' : InFlight'[k] = InFlight[f[k]]
          /\ \A j, k \in Sent' : j < k => f[j] < f[k]
  OBVIOUS
<1>2. /\ Cardinality(Sent) \in Nat /\ Cardinality(Sent') \in Nat
      /\ outstanding_tx \in Nat
  BY CountedInFlight, CountedNext, TypeParts, OutstandingAssumption DEF Counters
<1>3. Counting'
  BY <1>2 DEF Counting
<1>4. ASSUME ~miscounted', NEW j \in Sent'
      PROVE  Dist(InFlight[j])' <= outstanding_tx'
  <2>1. f[j] \in Sent /\ InFlight'[j] = InFlight[f[j]]
    BY <1>1
  <2>2. Dist(InFlight[f[j]]) <= outstanding_tx
    BY <1>4, <2>1 DEF Numbering
  <2> QED BY <2>1, <2>2 DEF Dist
<1>5. ASSUME ~miscounted', NEW j \in Sent', NEW k \in Sent', j < k
      PROVE  Dist(InFlight[k])' < Dist(InFlight[j])'
  <2>1. /\ f[j] \in Sent /\ InFlight'[j] = InFlight[f[j]]
        /\ f[k] \in Sent /\ InFlight'[k] = InFlight[f[k]]
        /\ f[j] < f[k]
    BY <1>1, <1>5
  <2>2. Dist(InFlight[f[k]]) < Dist(InFlight[f[j]])
    BY <1>5, <2>1 DEF Numbering
  <2> QED BY <2>1, <2>2 DEF Dist
<1>6. Numbering'
  BY <1>4, <1>5 DEF Numbering, Dist
<1> QED BY <1>3, <1>6

\* A message is counted when it is taken, and gets the number after the last.
LEMMA NumbersTake ==
    ASSUME TypeOK, TypeOK', Counting, Numbering, Take
    PROVE  Counting' /\ Numbering'
<1>1. PICK p \in Nat :
          /\ Sent' = Sent \cup {p} /\ p \notin Sent /\ InFlight'[p] = transId
          /\ \A k \in Sent : k < p /\ InFlight'[k] = InFlight[k]
  BY Takes
<1>2. /\ outstanding_tx \in Nat /\ outstanding_tx < max_outstanding_tx
      /\ max_outstanding_tx \in Nat /\ transId \in TransIds
      /\ outstanding_tx' = outstanding_tx + 1 /\ transId' = Next_id(transId)
      /\ UNCHANGED miscounted
  BY TypeParts, OutstandingAssumption
     DEF Counters, Take, leaf_tx_available, histories
<1>3. /\ Cardinality(Sent) \in Nat /\ Sent \subseteq Int
      /\ Cardinality(Sent') = Cardinality(Sent) + 1
  <2>1. IsFiniteSet(Sent) /\ Sent \subseteq 1 .. Len(InFlight) /\ Len(InFlight) \in Nat
        /\ Cardinality(Sent) \in Nat
    BY CountedInFlight, LenProperties
  <2>2. Cardinality(Sent \cup {p}) = Cardinality(Sent) + 1
    BY <2>1, <1>1, FS_AddElement
  <2> QED BY <2>1, <2>2, <1>1
<1>4. Counting'
  BY <1>2, <1>3 DEF Counting
<1>5. ASSUME ~miscounted, NEW k \in Sent
      PROVE  /\ Dist(InFlight[k]) \in 1 .. outstanding_tx
             /\ Dist(InFlight[k])' = Dist(InFlight[k]) + 1
  <2>1. InFlight[k] \in TransIds
    BY DEF Sent
  <2>2. Dist(InFlight[k]) <= outstanding_tx
    BY <1>5 DEF Numbering
  <2>3. Dist(InFlight[k]) \in 1 .. max_outstanding_tx
    BY <1>2, <2>1, BehindNext DEF Dist
  <2>4. Dist(InFlight[k]) < max_outstanding_tx
    BY <1>2, <2>2, <2>3
  <2>5. Behind(Next_id(transId), InFlight[k]) = Behind(transId, InFlight[k]) + 1
    BY <1>2, <2>1, <2>4, BehindNext DEF Dist
  <2>6. InFlight'[k] = InFlight[k]
    BY <1>1
  <2> QED BY <1>2, <2>2, <2>3, <2>5, <2>6 DEF Dist
<1>6. Dist(InFlight[p])' = 1
  BY <1>1, <1>2, BehindNext DEF Dist
<1>7. ASSUME ~miscounted', NEW j \in Sent'
      PROVE  Dist(InFlight[j])' <= outstanding_tx'
  <2>1. CASE j = p
    BY <2>1, <1>2, <1>6
  <2>2. CASE j \in Sent
    BY <2>2, <1>2, <1>5, <1>7
  <2> QED BY <2>1, <2>2, <1>1
<1>8. ASSUME ~miscounted', NEW j \in Sent', NEW k \in Sent', j < k
      PROVE  Dist(InFlight[k])' < Dist(InFlight[j])'
  <2>1. j \in Sent
    <3>1. j \in Sent \/ j = p
      BY <1>1
    <3>2. k = p \/ (k < p /\ k \in Int)
      BY <1>1, <1>3
    <3>3. j # p
      BY <3>2, <1>1, <1>8
    <3> QED BY <3>1, <3>3
  <2>2. CASE k = p
    BY <2>1, <2>2, <1>2, <1>5, <1>6, <1>8
  <2>3. CASE k \in Sent
    <3>1. Dist(InFlight[k]) < Dist(InFlight[j])
      BY <2>1, <2>3, <1>2, <1>8 DEF Numbering
    <3>2. /\ Dist(InFlight[k]) \in 1 .. outstanding_tx
          /\ Dist(InFlight[k])' = Dist(InFlight[k]) + 1
      BY <2>3, <1>2, <1>5, <1>8
    <3>3. /\ Dist(InFlight[j]) \in 1 .. outstanding_tx
          /\ Dist(InFlight[j])' = Dist(InFlight[j]) + 1
      BY <2>1, <1>2, <1>5, <1>8
    <3> QED BY <3>1, <3>2, <3>3, <1>2
  <2> QED BY <2>2, <2>3, <1>1
<1>9. Numbering'
  BY <1>7, <1>8 DEF Numbering, Dist
<1> QED BY <1>4, <1>9

\* The message that is acknowledged is the first on its way.
LEMMA AcknowledgedFirst ==
    ASSUME TypeOK, TypeOK', Tx_acknowledge
    PROVE  /\ 1 \in Sent
           /\ \A k \in Sent' : k \in Nat /\ k + 1 \in Sent \ {1}
                               /\ InFlight'[k] = InFlight[k + 1]
           /\ Cardinality(Sent) \in Nat /\ Cardinality(Sent') \in Nat
           /\ Cardinality(Sent') <= Cardinality(Sent) - 1
           /\ Cardinality(Sent') = 0 => Sent' = {}
<1>1. /\ device # <<>> /\ Head(device) \in TransIds /\ device' = Tail(device)
      /\ UNCHANGED <<command, buffer, urb>>
  BY DEF Tx_acknowledge
<1>2. /\ InFlight # <<>> /\ Head(InFlight) \in TransIds
      /\ InFlight' = Tail(InFlight)
  BY <1>1, Answers
<1>3. /\ InFlight \in Seq(Items) /\ Sent = At(InFlight, TransIds)
      /\ Sent' = At(InFlight', TransIds) /\ IsFiniteSet(Sent) /\ IsFiniteSet(Sent')
      /\ Sent' \subseteq 1 .. Len(InFlight') /\ Len(InFlight') \in Nat
      /\ Cardinality(Sent) \in Nat /\ Cardinality(Sent') \in Nat
  BY CountedInFlight, CountedNext, LenProperties
<1>4. 1 \in Sent
  <2>1. Len(InFlight) > 0 /\ DOMAIN InFlight = 1 .. Len(InFlight) /\ Len(InFlight) \in Nat
    BY <1>2, <1>3, EmptySeq, LenProperties
  <2>2. Head(InFlight) = InFlight[1]
    OBVIOUS
  <2> QED BY <2>1, <2>2, <1>2 DEF Sent
<1>5. \A k \in Sent' : k \in Nat /\ k + 1 \in Sent \ {1}
                       /\ InFlight'[k] = InFlight[k + 1]
  BY <1>2, <1>3, ThinsTail
<1>6. Cardinality(Sent') <= Cardinality(Sent) - 1
  <2> DEFINE f == [k \in Sent' |-> k + 1]
  <2>1. f \in [Sent' -> Sent \ {1}]
    BY <1>5
  <2>2. ASSUME NEW j \in Sent', NEW k \in Sent', f[j] = f[k]
        PROVE  j = k
    BY <1>5, <2>2
  <2>3. f \in Injection(Sent', Sent \ {1})
    BY <2>1, <2>2 DEF Injection, IsInjective
  <2>4. IsFiniteSet(Sent \ {1}) /\ Cardinality(Sent \ {1}) = Cardinality(Sent) - 1
    BY <1>3, <1>4, FS_RemoveElement
  <2> QED BY <2>3, <2>4, FS_Injection
<1>7. Cardinality(Sent') = 0 => Sent' = {}
  BY <1>3, FS_EmptySet
<1> QED BY <1>3, <1>4, <1>5, <1>6, <1>7

\* An acknowledgement takes one off the count, that of the first message.
LEMMA NumbersAcknowledge ==
    ASSUME TypeOK, TypeOK', Filling, Counting, Numbering, Tx_acknowledge
    PROVE  Counting' /\ Numbering'
<1>1. /\ 1 \in Sent
      /\ \A k \in Sent' : k \in Nat /\ k + 1 \in Sent \ {1}
                          /\ InFlight'[k] = InFlight[k + 1]
      /\ Cardinality(Sent) \in Nat /\ Cardinality(Sent') \in Nat
      /\ Cardinality(Sent') <= Cardinality(Sent) - 1
      /\ Cardinality(Sent') = 0 => Sent' = {}
  BY AcknowledgedFirst
<1>2. /\ outstanding_tx \in Nat /\ transId \in TransIds /\ UNCHANGED transId
      /\ outstanding_tx' = IF outstanding_tx > 0 THEN outstanding_tx - 1 ELSE 0
      /\ miscounted' = (miscounted /\ (Present > 1 \/ caller # "idle"))
  BY TypeParts, OutstandingAssumption DEF Counters, Tx_acknowledge
<1>3. \A k \in Sent : Dist(InFlight[k]) \in 1 .. max_outstanding_tx
  BY <1>2, BehindNext DEF Sent, Dist
<1>4. CASE ~miscounted
  <2>1. Dist(InFlight[1]) <= outstanding_tx /\ Dist(InFlight[1]) \in Nat \ {0}
    BY <1>1, <1>3, <1>4, OutstandingAssumption DEF Numbering
  <2>2. outstanding_tx' = outstanding_tx - 1 /\ outstanding_tx > 0
    BY <1>2, <2>1
  <2>3. Counting'
    BY <1>1, <1>2, <1>4, <2>2 DEF Counting
  <2>4. ASSUME NEW j \in Sent'
        PROVE  Dist(InFlight[j])' <= outstanding_tx'
    <3>1. j + 1 \in Sent /\ 1 < j + 1 /\ InFlight'[j] = InFlight[j + 1]
      BY <1>1
    <3>2. Dist(InFlight[j + 1]) < Dist(InFlight[1])
      BY <1>1, <1>4, <3>1 DEF Numbering
    <3>3. Dist(InFlight[j + 1]) \in Nat
      BY <1>3, <3>1
    <3>4. Dist(InFlight[j])' = Dist(InFlight[j + 1])
      BY <1>2, <3>1 DEF Dist
    <3> QED BY <1>2, <2>1, <2>2, <3>2, <3>3, <3>4
  <2>5. ASSUME NEW j \in Sent', NEW k \in Sent', j < k
        PROVE  Dist(InFlight[k])' < Dist(InFlight[j])'
    <3>1. /\ j + 1 \in Sent /\ InFlight'[j] = InFlight[j + 1]
          /\ k + 1 \in Sent /\ InFlight'[k] = InFlight[k + 1]
          /\ j + 1 < k + 1
      BY <1>1, <2>5
    <3>2. Dist(InFlight[k + 1]) < Dist(InFlight[j + 1])
      BY <1>4, <3>1 DEF Numbering
    <3> QED BY <3>1, <3>2, <1>2 DEF Dist
  <2>6. Numbering'
    BY <2>4, <2>5 DEF Numbering, Dist
  <2> QED BY <2>3, <2>6
<1>5. CASE miscounted /\ ~miscounted'
  <2>1. Queued \in Nat
    BY TypeParts, RoomAssumption DEF Queued, Filling, Counters
  <2>p. ~(Present > 1)
    BY <1>2, <1>5, Zenon
  <2>2. Cardinality(Sent') = 0
    BY <1>1, <2>p, <2>1 DEF Present
  <2>3. Sent' = {} /\ outstanding_tx' \in Nat
    BY <2>2, <1>1, <1>2
  <2> QED BY <2>2, <2>3 DEF Counting, Numbering
<1>6. CASE miscounted'
  BY <1>6 DEF Counting, Numbering
<1> QED BY <1>4, <1>5, <1>6

\* Every step keeps the count and the numbers.
LEMMA NumbersStep ==
    ASSUME TypeOK, TypeOK', Filling, Counting, Numbering, Going_on, [Next]_vars
    PROVE  Counting' /\ Numbering'
<1>1. outstanding_tx' \in Nat
  <2>1. outstanding_tx' \in 0 .. max_outstanding_tx
    BY DEF TypeOK
  <2> QED BY <2>1, OutstandingAssumption
<1>n. ASSUME Sent = {}, ~Take PROVE Counting' /\ Numbering'
  <2>1. Sent' = {}
    BY <1>n, StepLoses
  <2> QED BY <1>1, <2>1, FS_EmptySet DEF Counting, Numbering
<1>2. CASE NumbersKept /\ ~Take
  BY <1>2, StepLoses, NumbersThin DEF NumbersKept
<1>3. CASE Take
  BY <1>3, NumbersTake
<1>4. CASE Tx_acknowledge
  BY <1>4, NumbersAcknowledge
<1>5. CASE Started
  <2>1. caller = "starting" /\ device' = Tail(device) /\ device # <<>>
    BY <1>5 DEF Started, Goes, Replied
  <2>2. Sent = {}
    BY <2>1 DEF Going_on, Flushed
  <2>3. ~Take
    BY <1>5 DEF Take, Started, Replied
  <2> QED BY <2>2, <2>3, <1>n
<1>6. ASSUME NEW from, NEW to, Clear_count(from, to)
      PROVE  Counting' /\ Numbering'
  <2>1. ~Take /\ (~miscounted' => Present = 0 \/ ~(Present > 0))
    BY <1>6 DEF Take, Clear_count, transfer
  <2>2. Queued \in Nat /\ Cardinality(Sent) \in Nat /\ IsFiniteSet(Sent)
    BY CountedInFlight, QueuedStep
  <2>3. CASE ~miscounted'
    <3>1. Cardinality(Sent) = 0
      BY <2>1, <2>2, <2>3 DEF Present
    <3> QED BY <3>1, <2>1, <2>2, <1>n, FS_EmptySet
  <2>4. CASE miscounted'
    BY <2>4 DEF Counting, Numbering
  <2> QED BY <2>3, <2>4
<1>7. ASSUME NEW from, NEW to, Restart_ids(from, to)
      PROVE  Counting' /\ Numbering'
  <2>1. ~Take /\ (~miscounted' => Sent = {})
    BY <1>7 DEF Take, Restart_ids, transfer
  <2>2. CASE ~miscounted'
    BY <2>1, <2>2, <1>n
  <2>3. CASE miscounted'
    BY <2>3 DEF Counting, Numbering
  <2> QED BY <2>2, <2>3
<1> QED BY <1>2, <1>3, <1>4, <1>5, <1>6, <1>7, NumbersCases

----------------------------------------------------------------------------
(* The flush.                                                               *)

\* A number is no command, and the two kinds of positions differ.
LEMMA SentIsNoFlush ==
    /\ Flush \notin TransIds /\ Sent \cap Flushes = {}
    /\ At(InFlight, Tracked) = Sent \cup Flushes
    /\ At(InFlight, {Flush}) = Flushes
<1>1. Flush \notin TransIds
  BY OutstandingAssumption DEF Flush, TransIds
<1> QED BY <1>1 DEF At, Sent, Flushes, Tracked

\* The same in the next state.
LEMMA SentIsNoFlushNext ==
    /\ Sent' \cap Flushes' = {}
    /\ At(InFlight', Tracked) = Sent' \cup Flushes'
    /\ At(InFlight', {Flush}) = Flushes'
<1>1. Flush \notin TransIds
  BY OutstandingAssumption DEF Flush, TransIds
<1> QED BY <1>1 DEF At, Sent, Flushes, Tracked

\* The positions are numbers.
LEMMA Positions ==
    ASSUME TypeOK, TypeOK'
    PROVE  /\ Sent \subseteq Nat /\ Flushes \subseteq Nat
           /\ Sent' \subseteq Nat /\ Flushes' \subseteq Nat
<1>1. InFlight \in Seq(Items) /\ InFlight' \in Seq(Items)
  BY CountedInFlight, CountedNext
<1>2. /\ DOMAIN InFlight = 1 .. Len(InFlight) /\ Len(InFlight) \in Nat
      /\ DOMAIN InFlight' = 1 .. Len(InFlight') /\ Len(InFlight') \in Nat
  BY <1>1, LenProperties
<1> QED BY <1>2 DEF Sent, Flushes

\* What is left of messages and flush commands is in the order it was in.
LEMMA FlushAmongSent ==
    ASSUME TypeOK, TypeOK', Filling, [Next]_vars, ~Take,
           ~leaf_queue_cmd(Flush, "ask", "reply"),
           \A j \in Flushes, k \in Sent : k < j
    PROVE  \A j \in Flushes', k \in Sent' : k < j
<1>1. PICK f \in [Sent' \cup Flushes' -> Sent \cup Flushes] :
          /\ \A k \in Sent' \cup Flushes' : InFlight'[k] = InFlight[f[k]]
          /\ \A j, k \in Sent' \cup Flushes' : j < k => f[j] < f[k]
  <2>1. Thins(InFlight, InFlight', Tracked)
    BY StepThins
  <2> QED BY <2>1, SentIsNoFlush, SentIsNoFlushNext DEF Thins
<1>2. ASSUME NEW j \in Flushes', NEW k \in Sent'
      PROVE  k < j
  <2>1. InFlight[f[j]] = Flush /\ InFlight[f[k]] \in TransIds
    BY <1>1 DEF Flushes, Sent
  <2>2. f[j] \in Sent \cup Flushes /\ f[k] \in Sent \cup Flushes
    BY <1>1
  <2>3. f[j] \in Flushes /\ f[k] \in Sent
    BY <2>1, <2>2, SentIsNoFlush DEF Flushes, Sent
  <2>4. f[k] < f[j]
    BY <2>3
  <2>5. j # k
    BY SentIsNoFlushNext
  <2>6. j \in Nat /\ k \in Nat
    BY Positions
  <2>7. ~(j < k)
    <3>1. f[k] \in Nat /\ f[j] \in Nat
      BY <2>3, Positions
    <3>2. j < k => f[j] < f[k]
      BY <1>1
    <3> DEFINE x == f[k]
               y == f[j]
    <3> HIDE DEF x, y
    <3>3. x \in Nat /\ y \in Nat /\ x < y /\ (j < k => y < x)
      BY <3>1, <3>2, <2>4 DEF x, y
    <3> QED BY <3>3
  <2> QED BY <2>5, <2>6, <2>7
<1> QED BY <1>2

\* A flush command that is not new was there.
LEMMA FlushStays ==
    ASSUME TypeOK, TypeOK', Filling, [Next]_vars,
           ~leaf_queue_cmd(Flush, "ask", "reply"),
           \A j, k \in Flushes : j = k
    PROVE  /\ \A j, k \in Flushes' : j = k
           /\ Flushes = {} => Flushes' = {}
<1>1. Thins(InFlight, InFlight', {Flush})
  <2>1. CASE Take
    BY <2>1, Takes
  <2>2. CASE ~Take
    <3>1. {Flush} \subseteq Tracked
      BY DEF Tracked
    <3> QED BY <2>2, <3>1, StepThins, ThinsFewer
  <2> QED BY <2>1, <2>2
<1>2. PICK f \in [Flushes' -> Flushes] :
          \A j, k \in Flushes' : j < k => f[j] < f[k]
  BY <1>1, SentIsNoFlush, SentIsNoFlushNext DEF Thins
<1>3. ASSUME NEW j \in Flushes', NEW k \in Flushes', j < k
      PROVE  FALSE
  <2> DEFINE x == f[k]
             y == f[j]
  <2>1. x \in Flushes /\ y \in Flushes /\ y < x
    BY <1>2, <1>3
  <2> HIDE DEF x, y
  <2>2. x = y /\ x \in Nat
    BY <2>1, Positions
  <2> QED BY <2>1, <2>2
<1>4. \A j, k \in Flushes' : j = k
  <2>1. \A j, k \in Flushes' : ~(j < k)
    BY <1>3
  <2>2. Flushes' \subseteq Nat
    BY Positions
  <2> QED BY <2>1, <2>2
<1> QED BY <1>2, <1>4

\* A new one is behind everything.
LEMMA FlushIsLast ==
    ASSUME TypeOK, leaf_queue_cmd(Flush, "ask", "reply"), Flushes = {}
    PROVE  \E p : Flushes' = {p} /\ \A k \in Sent' : k < p
<1> DEFINE front == (device \o urb) \o buffer
           x == <<Flush>>
           p == Len(front) + 1
<1>0. /\ device \in Seq(Items) /\ urb \in Seq(Items) /\ buffer \in Seq(Items)
      /\ device \o urb \in Seq(Items) /\ command \in Seq(Items)
  BY QueueTypes
<1>1. x \in Seq(Items) /\ Len(x) = 1 /\ x[1] = Flush
  BY DEF Items, Commands
<1>2. front \in Seq(Items)
  BY <1>0, ConcatProperties
<1>3. InFlight = front \o command /\ InFlight' = front \o x
  BY DEF InFlight, leaf_queue_cmd
<1> HIDE DEF front, x
<1>4. /\ Len(front) \in Nat /\ Len(command) \in Nat
      /\ Len(front \o x) = Len(front) + 1
      /\ front \o x \in Seq(Items) /\ front \o command \in Seq(Items)
      /\ \A k \in 1 .. Len(front) + 1 :
            (front \o x)[k] = IF k <= Len(front) THEN front[k] ELSE x[k - Len(front)]
      /\ Len(front \o command) = Len(front) + Len(command)
      /\ \A k \in 1 .. Len(front) : (front \o command)[k] = front[k]
  <2>1. /\ front \o x \in Seq(Items) /\ Len(front \o x) = Len(front) + Len(x)
        /\ \A k \in 1 .. Len(front) + Len(x) :
              (front \o x)[k] = IF k <= Len(front) THEN front[k] ELSE x[k - Len(front)]
    BY <1>1, <1>2, ConcatProperties
  <2>2. /\ front \o command \in Seq(Items)
        /\ Len(front \o command) = Len(front) + Len(command)
        /\ \A k \in 1 .. Len(front) + Len(command) :
              (front \o command)[k] = IF k <= Len(front) THEN front[k]
                                      ELSE command[k - Len(front)]
    BY <1>0, <1>2, ConcatProperties
  <2>3. Len(front) \in Nat /\ Len(command) \in Nat
    BY <1>0, <1>2, LenProperties
  <2>4. \A k \in 1 .. Len(front) : (front \o command)[k] = front[k]
    BY <2>2, <2>3
  <2> QED BY <2>1, <2>2, <2>3, <2>4, <1>1
<1>5. /\ DOMAIN InFlight' = 1 .. Len(front) + 1
      /\ DOMAIN InFlight = 1 .. Len(front) + Len(command)
  BY <1>3, <1>4, LenProperties
<1>6. InFlight'[p] = Flush
  <2>1. (front \o x)[Len(front) + 1] = x[Len(front) + 1 - Len(front)]
    BY <1>4
  <2>2. Len(front) + 1 - Len(front) = 1
    BY <1>4
  <2> QED BY <2>1, <2>2, <1>1, <1>3
<1>7. ASSUME NEW k \in Flushes'
      PROVE  k = p
  <2>1. k \in 1 .. Len(front) + 1 /\ InFlight'[k] = Flush
    BY <1>5 DEF Flushes
  <2>2. ASSUME k \in 1 .. Len(front) PROVE FALSE
    <3>1. InFlight'[k] = front[k] /\ InFlight[k] = front[k] /\ k \in DOMAIN InFlight
      BY <2>2, <1>3, <1>4, <1>5
    <3> QED BY <3>1, <2>1 DEF Flushes
  <2> QED BY <2>1, <2>2, <1>4
<1>8. p \in Flushes'
  BY <1>4, <1>5, <1>6 DEF Flushes
<1>9. ASSUME NEW k \in Sent'
      PROVE  k < p
  <2>1. k \in 1 .. Len(front) + 1 /\ InFlight'[k] # Flush
    BY <1>5, SentIsNoFlush DEF Sent
  <2>2. k # Len(front) + 1
    BY <2>1, <1>6
  <2> QED BY <2>1, <2>2, <1>4
<1> QED BY <1>7, <1>8, <1>9

\* The reply is the first of what is on its way.
LEMMA FlushIsFirst ==
    ASSUME TypeOK, TypeOK', Flush_replied
    PROVE  /\ 1 \in Flushes
           /\ \A k \in Flushes' : k + 1 \in Flushes \ {1}
           /\ (\A j \in Flushes, k \in Sent : k < j) => Sent = {}
<1>1. /\ device # <<>> /\ Head(device) = Flush /\ device' = Tail(device)
      /\ UNCHANGED <<command, buffer, urb>>
  BY DEF Flush_replied, Replied
<1>2. /\ InFlight # <<>> /\ Head(InFlight) = Flush /\ InFlight' = Tail(InFlight)
      /\ InFlight \in Seq(Items)
  BY <1>1, Answers, CountedInFlight
<1>3. 1 \in Flushes
  <2>1. Len(InFlight) > 0 /\ DOMAIN InFlight = 1 .. Len(InFlight) /\ Len(InFlight) \in Nat
    BY <1>2, EmptySeq, LenProperties
  <2>2. Head(InFlight) = InFlight[1]
    OBVIOUS
  <2> QED BY <2>1, <2>2, <1>2 DEF Flushes
<1>4. \A k \in At(Tail(InFlight), {Flush}) : k + 1 \in At(InFlight, {Flush}) \ {1}
  BY <1>2, ThinsTail
<1>5. \A k \in Flushes' : k + 1 \in Flushes \ {1}
  BY <1>2, <1>4, SentIsNoFlush, SentIsNoFlushNext
<1>6. ASSUME \A j \in Flushes, k \in Sent : k < j, NEW k \in Sent
      PROVE  FALSE
  <2>1. k < 1
    BY <1>3, <1>6
  <2>2. k \in 1 .. Len(InFlight) /\ Len(InFlight) \in Nat
    BY CountedInFlight, <1>2, LenProperties
  <2> QED BY <2>1, <2>2
<1> QED BY <1>3, <1>5, <1>6

----------------------------------------------------------------------------
(* The caller.                                                              *)

\* The steps that are not those of a caller, and the steps of one.
Elsewhere ==
    \/ UNCHANGED vars
    \/ \E w \in Writer : SENDMSG(w) \/ leaf_schedule_send(w)
    \/ Worker \/ Submit_fails \/ Received \/ Tx_acknowledge

Of_caller ==
    \/ leaf_flush_tx_buffer \/ leaf_bus_on \/ leaf_bus_off
    \/ Flush_replied \/ Started \/ Stopped
    \/ Flush_timed_out \/ Start_timed_out \/ Stop_timed_out
    \/ Check_queue \/ Check_count \/ Wake \/ Wait_ends("synced") \/ Time_out
    \/ FLUSH_SENDBUFFER \/ BUS_ON \/ BUS_OFF \/ WAIT_EMPTY

\* There are no others.
LEMMA Steps == [Next]_vars => Elsewhere \/ Of_caller
  BY DEF Next, Elsewhere, Of_caller, Receiver, Caller, wait_tx_queue_empty

\* Elsewhere the caller stays where it is, and what it waits for is counted.
LEMMA ElsewhereStep ==
    ASSUME TypeOK, Filling, Elsewhere
    PROVE  /\ UNCHANGED <<caller, going_on, isBusOn>>
           /\ \/ Take
              \/ Tx_acknowledge
              \/ /\ UNCHANGED <<outstanding_tx, awaited, miscounted>>
                 /\ Queued' = Queued \/ Queued' = Queued + 1
<1> USE DEF channel, transfer, bus, histories
<1>0. txChanQueue \in Nat
  BY TypeParts, RoomAssumption DEF Counters
<1> DEFINE Stays == UNCHANGED <<caller, going_on, isBusOn>>
           Counts == UNCHANGED <<outstanding_tx, awaited, miscounted>>
<1>k. ASSUME UNCHANGED <<txChanQueue, sender>> PROVE Queued' = Queued
  BY <1>k DEF Queued
<1>1. CASE UNCHANGED vars
  BY <1>1, <1>k DEF vars
<1>2. ASSUME NEW w \in Writer, SENDMSG(w)
      PROVE  Stays /\ Counts /\ Queued' = Queued + 1
  <2>1. txChanQueue' = txChanQueue + 1 /\ UNCHANGED sender /\ Stays /\ Counts
    BY <1>2 DEF SENDMSG
  <2>2. Queued' = Queued + 1
    BY <1>0, <2>1 DEF Queued
  <2> QED BY <2>1, <2>2
<1>3. ASSUME NEW w \in Writer, leaf_schedule_send(w)
      PROVE  Stays /\ Counts /\ Queued' = Queued
  BY <1>3, <1>k DEF leaf_schedule_send
<1>4. CASE leaf_send
  <2>1. /\ Stays /\ Counts /\ UNCHANGED txChanQueue
        /\ sender # "pop" /\ sender' # "pop"
    BY <1>4 DEF leaf_send
  <2>2. Queued' = Queued
    BY <2>1 DEF Queued
  <2> QED BY <2>1, <2>2
<1>5. CASE Take
  BY <1>5 DEF Take
<1>6. CASE Pop
  BY <1>0, <1>6 DEF Pop, Queued
<1>7. CASE Nothing_filled \/ leaf_transmit \/ Submit_fails
  <2>1. /\ Stays /\ Counts /\ UNCHANGED txChanQueue
        /\ sender # "pop" /\ sender' # "pop"
    BY <1>7 DEF Nothing_filled, leaf_transmit, Submit_fails, Filled
  <2>2. Queued' = Queued
    BY <2>1 DEF Queued
  <2> QED BY <2>1, <2>2
<1>8. CASE Received
  BY <1>8, <1>k DEF Received
<1>9. CASE Tx_acknowledge
  BY <1>9 DEF Tx_acknowledge
<1> HIDE DEF Stays, Counts
<1> QED BY <1>1, <1>2, <1>3, <1>4, <1>5, <1>6, <1>7, <1>8, <1>9
        DEF Elsewhere, Worker, Stays, Counts

\* Every step keeps the part of the flush command.
LEMMA OneFlushStep ==
    ASSUME TypeOK, TypeOK', Filling, OneFlush, [Next]_vars
    PROVE  OneFlush'
<1> USE DEF channel, transfer, bus, histories, Goes
<1>1. CASE leaf_queue_cmd(Flush, "ask", "reply")
  <2>1. caller = "ask" /\ caller' = "reply"
    BY <1>1 DEF leaf_queue_cmd
  <2>2. Flushes = {}
    BY <2>1 DEF OneFlush
  <2>3. \A j, k \in Flushes' : j = k
    BY <1>1, <2>2, FlushIsLast
  <2> QED BY <2>1, <2>3 DEF OneFlush
<1>2. CASE ~leaf_queue_cmd(Flush, "ask", "reply")
  <2>1. \A j, k \in Flushes : j = k
    BY DEF OneFlush
  <2>2. /\ \A j, k \in Flushes' : j = k
        /\ Flushes = {} => Flushes' = {}
    BY <1>2, <2>1, FlushStays
  <2>3. CASE Flushes = {}
    BY <2>2, <2>3 DEF OneFlush
  <2>4. CASE Flushes # {}
    <3>1. caller = "reply"
      BY <2>4 DEF OneFlush
    <3>2. CASE UNCHANGED caller
      BY <2>2, <3>1, <3>2 DEF OneFlush
    <3>3. CASE Flush_replied
      <4>1. /\ 1 \in Flushes
            /\ \A k \in Flushes' : k + 1 \in Flushes \ {1}
        BY <3>3, FlushIsFirst
      <4>2. Flushes' = {}
        BY <4>1, <2>1
      <4> QED BY <2>2, <4>2 DEF OneFlush
    <3>4. CASE Flush_timed_out
      <4>1. \A k \in DOMAIN InFlight : InFlight[k] # Flush
        BY <3>4 DEF Flush_timed_out, Timed_out
      <4> QED BY <4>1, <2>4 DEF Flushes
    <3>5. CASE Of_caller
      <4>1. ~(Started \/ Stopped \/ Start_timed_out \/ Stop_timed_out)
        BY <3>1 DEF Started, Stopped, Start_timed_out, Stop_timed_out
      <4>2. ~(leaf_flush_tx_buffer \/ leaf_bus_on \/ leaf_bus_off)
        BY <3>1 DEF leaf_flush_tx_buffer, leaf_bus_on, leaf_bus_off,
                    Clear_queue, Clear_count, Restart_ids, leaf_queue_cmd
      <4>3. ~(Check_queue \/ Check_count \/ Wake \/ Wait_ends("synced") \/ Time_out)
        BY <3>1 DEF Check_queue, Check_count, Wake, Wait_ends, Time_out
      <4>4. ~(FLUSH_SENDBUFFER \/ BUS_ON \/ BUS_OFF \/ WAIT_EMPTY)
        BY <3>1 DEF FLUSH_SENDBUFFER, BUS_ON, BUS_OFF, WAIT_EMPTY
      <4> QED BY <4>1, <4>2, <4>3, <4>4, <3>3, <3>4, <3>5 DEF Of_caller
    <3>6. CASE Elsewhere
      BY <3>2, <3>6, ElsewhereStep
    <3> QED BY <3>5, <3>6, Steps
  <2> QED BY <2>3, <2>4
<1> QED BY <1>1, <1>2

\* An empty queue of a channel that is off bus stays empty.
LEMMA StaysEmpty ==
    ASSUME TypeOK, ~isBusOn, txChanQueue = 0, sender # "pop", [Next]_vars
    PROVE  txChanQueue' = 0 /\ sender' # "pop" /\ ~Take
<1> USE DEF channel, transfer, bus, histories
<1> SUFFICES txChanQueue' = 0 /\ sender' # "pop"
  BY DEF Take
<1>1. CASE UNCHANGED vars
  BY <1>1 DEF vars
<1>2. ASSUME NEW w \in Writer, SENDMSG(w) \/ leaf_schedule_send(w)
      PROVE  txChanQueue' = 0 /\ sender' # "pop"
  BY <1>2 DEF SENDMSG, leaf_schedule_send
<1>3. CASE leaf_send \/ Nothing_filled \/ leaf_transmit \/ Submit_fails
  BY <1>3 DEF leaf_send, Nothing_filled, leaf_transmit, Submit_fails
<1>4. CASE Take \/ Pop
  BY <1>4 DEF Take, Pop
<1>5. CASE Received \/ Tx_acknowledge \/ Flush_replied \/ Started \/ Stopped
  BY <1>5 DEF Received, Tx_acknowledge, Flush_replied, Started, Stopped, Replied
<1>6. ASSUME NEW from, NEW to, NEW cmd,
             \/ Clear_queue(from, to) \/ Clear_count(from, to)
             \/ Restart_ids(from, to) \/ leaf_queue_cmd(cmd, from, to)
      PROVE  txChanQueue' = 0 /\ sender' # "pop"
  BY <1>6 DEF Clear_queue, Clear_count, Restart_ids, leaf_queue_cmd
<1>7. CASE leaf_flush_tx_buffer \/ leaf_bus_on \/ leaf_bus_off
  BY <1>6, <1>7 DEF leaf_flush_tx_buffer, leaf_bus_on, leaf_bus_off
<1>8. CASE Flush_timed_out \/ Start_timed_out \/ Stop_timed_out
  BY <1>8 DEF Flush_timed_out, Start_timed_out, Stop_timed_out, Timed_out
<1>9. CASE wait_tx_queue_empty \/ Time_out \/ WAIT_EMPTY
  BY <1>9 DEF wait_tx_queue_empty, Check_queue, Check_count, Wake, Wait_ends, Time_out,
              WAIT_EMPTY
<1>10. CASE FLUSH_SENDBUFFER \/ BUS_ON \/ BUS_OFF
  BY <1>10 DEF FLUSH_SENDBUFFER, BUS_ON, BUS_OFF
<1> QED BY <1>1, <1>2, <1>3, <1>4, <1>5, <1>7, <1>8, <1>9, <1>10
        DEF Next, Worker, Receiver, Caller

\* How the caller comes to be in a flush, and in that of BUS_ON.
LEMMA FlushMoves ==
    ASSUME Of_caller, going_on'
    PROVE  /\ caller' \in {"start", "start count", "ask start", "starting"} =>
                 going_on \/ caller \in {"start", "start count", "ask start", "starting"}
           /\ caller' \in Flushed => caller \in Flushed \/ Flush_replied
           /\ caller' = "reply" => leaf_queue_cmd(Flush, "ask", "reply")
           /\ caller' \in {"count", "ask", "reply"} =>
                 \/ Clear_queue("clear", "count") \/ caller \in {"count", "ask", "reply"}
           /\ Flush_replied => caller = "reply"
           /\ going_on \/ BUS_ON
           /\ isBusOn' => isBusOn
           /\ BUS_ON => ~isBusOn' /\ caller' \notin Flushed \cup {"count", "ask", "reply"}
<1> USE DEF channel, transfer, bus, histories, Goes, Flushed
<1>1. CASE leaf_flush_tx_buffer
  <2>1. CASE Clear_queue("clear", "count")
    BY <2>1 DEF Clear_queue, Flush_replied, BUS_ON
  <2>2. CASE Clear_count("count", "ask")
    BY <2>2 DEF Clear_count, Flush_replied, BUS_ON
  <2>3. CASE leaf_queue_cmd(Flush, "ask", "reply")
    <3>1. caller = "ask" /\ caller' = "reply" /\ UNCHANGED <<going_on, isBusOn>>
      BY <2>3 DEF leaf_queue_cmd
    <3> QED BY <3>1, <2>3 DEF Flush_replied, BUS_ON
  <2>4. CASE Restart_ids("restart", "clear again")
    BY <2>4 DEF Restart_ids, Flush_replied, BUS_ON
  <2>5. CASE Clear_queue("clear again", "count again")
    BY <2>5 DEF Clear_queue, Flush_replied, BUS_ON
  <2>6. CASE Clear_count("count again", IF going_on THEN "start" ELSE "idle")
    BY <2>6 DEF Clear_count, Flush_replied, BUS_ON
  <2> QED BY <1>1, <2>1, <2>2, <2>3, <2>4, <2>5, <2>6 DEF leaf_flush_tx_buffer
<1>2. CASE leaf_bus_on
  <2>1. CASE Restart_ids("start", "start count")
    BY <2>1 DEF Restart_ids, Flush_replied, BUS_ON
  <2>2. CASE Clear_count("start count", "ask start")
    BY <2>2 DEF Clear_count, Flush_replied, BUS_ON
  <2>3. CASE leaf_queue_cmd(Start, "ask start", "starting")
    BY <2>3 DEF leaf_queue_cmd, Flush_replied, BUS_ON
  <2> QED BY <1>2, <2>1, <2>2, <2>3 DEF leaf_bus_on
<1>3. CASE leaf_bus_off
  <2>1. CASE leaf_queue_cmd(Stop, "ask stop", "stopping")
    BY <2>1 DEF leaf_queue_cmd, Flush_replied, BUS_ON
  <2>2. CASE Clear_count("stop count", "stop ids")
    BY <2>2 DEF Clear_count, Flush_replied, BUS_ON
  <2>3. CASE Restart_ids("stop ids", "stop clear")
    BY <2>3 DEF Restart_ids, Flush_replied, BUS_ON
  <2>4. CASE Clear_queue("stop clear", "idle")
    BY <2>4 DEF Clear_queue, Flush_replied, BUS_ON
  <2> QED BY <1>3, <2>1, <2>2, <2>3, <2>4 DEF leaf_bus_off
<1>4. CASE Flush_replied
  <2>1. caller = "reply" /\ caller' = "restart" /\ UNCHANGED <<going_on, isBusOn>>
    BY <1>4 DEF Flush_replied
  <2> QED BY <2>1, <1>4 DEF BUS_ON
<1>5. CASE Stopped
  BY <1>5 DEF Stopped, Flush_replied, BUS_ON
<1>6. CASE Started \/ Flush_timed_out \/ Start_timed_out
  BY <1>6 DEF Started, Flush_timed_out, Start_timed_out
<1>7. CASE Stop_timed_out
  BY <1>7 DEF Stop_timed_out, Timed_out, Flush_replied, BUS_ON
<1>8. CASE Check_queue
  BY <1>8 DEF Check_queue, Flush_replied, BUS_ON
<1>9. CASE Check_count
  BY <1>9 DEF Check_count, Flush_replied, BUS_ON
<1>10. CASE Wake
  BY <1>10 DEF Wake, Flush_replied, BUS_ON
<1>11. CASE Wait_ends("synced") \/ Time_out
  <2>1. /\ caller = "synced" \/ caller = "asleep"
        /\ caller' = "idle" /\ UNCHANGED <<going_on, isBusOn>>
    BY <1>11 DEF Wait_ends, Time_out
  <2> QED BY <2>1 DEF Flush_replied, BUS_ON
<1>12. CASE FLUSH_SENDBUFFER
  BY <1>12 DEF FLUSH_SENDBUFFER, Flush_replied, BUS_ON
<1>13. CASE BUS_ON
  <2>1. /\ caller = "idle" /\ caller' = "clear" /\ ~isBusOn /\ UNCHANGED isBusOn
    BY <1>13 DEF BUS_ON, First_step
  <2> QED BY <2>1, <1>13 DEF Flush_replied
<1>14. CASE BUS_OFF
  BY <1>14 DEF BUS_OFF, Flush_replied, BUS_ON
<1>15. CASE WAIT_EMPTY
  BY <1>15 DEF WAIT_EMPTY, Flush_replied, BUS_ON
<1> QED BY <1>1, <1>2, <1>3, <1>4, <1>5, <1>6, <1>7, <1>8, <1>9, <1>10, <1>11,
           <1>12, <1>13, <1>14, <1>15 DEF Of_caller

\* Only steps of BUS_ON itself are in its part behind the flush.
LEMMA StartMoves ==
    ASSUME Of_caller,
           caller \in {"start", "start count", "ask start", "starting"} => going_on,
           caller' \in {"start", "start count", "ask start", "starting"}
    PROVE  going_on'
<1> USE DEF channel, transfer, bus, histories, Goes
<1>1. CASE leaf_flush_tx_buffer
  BY <1>1 DEF leaf_flush_tx_buffer, Clear_queue, Clear_count, leaf_queue_cmd, Restart_ids
<1>2. CASE leaf_bus_on
  BY <1>2 DEF leaf_bus_on, Restart_ids, Clear_count, leaf_queue_cmd
<1>3. CASE leaf_bus_off
  BY <1>3 DEF leaf_bus_off, Clear_queue, Clear_count, leaf_queue_cmd, Restart_ids
<1>4. CASE Flush_replied \/ Started \/ Stopped
  BY <1>4 DEF Flush_replied, Started, Stopped
<1>5. CASE Flush_timed_out \/ Start_timed_out \/ Stop_timed_out
  BY <1>5 DEF Flush_timed_out, Start_timed_out, Stop_timed_out
<1>6. CASE Check_queue \/ Check_count \/ Wake \/ Wait_ends("synced") \/ Time_out
  BY <1>6 DEF Check_queue, Check_count, Wake, Wait_ends, Time_out
<1>7. CASE FLUSH_SENDBUFFER \/ BUS_ON \/ BUS_OFF \/ WAIT_EMPTY
  BY <1>7 DEF FLUSH_SENDBUFFER, BUS_ON, First_step, BUS_OFF, WAIT_EMPTY
<1> QED BY <1>1, <1>2, <1>3, <1>4, <1>5, <1>6, <1>7 DEF Of_caller

\* Every step keeps the part of BUS_ON.
LEMMA Going_onStep ==
    ASSUME TypeOK, TypeOK', Filling, OneFlush, Going_on, [Next]_vars
    PROVE  Going_on'
<1> DEFINE Starts == {"start", "start count", "ask start", "starting"}
           InFlush == Flushed \cup {"count", "ask", "reply"}
<1>1. /\ caller \in Starts => going_on
      /\ going_on => ~isBusOn
      /\ going_on /\ caller \in InFlush => txChanQueue = 0 /\ sender # "pop"
      /\ going_on /\ caller = "reply" => \A j \in Flushes, k \in Sent : k < j
      /\ going_on /\ caller \in Flushed => Sent = {}
  BY DEF Going_on
<1>2. CASE ~going_on'
  <2>1. caller' \notin Starts
    <3>1. CASE Elsewhere
      BY <3>1, <1>1, <1>2, ElsewhereStep
    <3>2. CASE Of_caller
      BY <3>2, <1>1, <1>2, StartMoves
    <3> QED BY <3>1, <3>2, Steps
  <2> QED BY <2>1, <1>2 DEF Going_on
<1>3. CASE going_on'
  <2>1. ~isBusOn'
    <3>1. CASE Elsewhere
      BY <3>1, <1>1, <1>3, ElsewhereStep
    <3>2. CASE Of_caller
      BY <3>2, <1>1, <1>3, FlushMoves
    <3> QED BY <3>1, <3>2, Steps
  <2>2. ASSUME caller' \in InFlush
        PROVE  /\ going_on
               /\ \/ Clear_queue("clear", "count") /\ caller' = "count"
                  \/ caller \in InFlush
    <3>1. CASE Elsewhere
      BY <3>1, <1>3, <2>2, ElsewhereStep
    <3>2. CASE Of_caller
      <4>1. going_on
        BY <3>2, <1>3, <2>2, FlushMoves
      <4>2. Clear_queue("clear", "count") => caller' = "count"
        BY DEF Clear_queue, Goes
      <4>3. Clear_queue("clear", "count") \/ caller \in Flushed
            \/ caller \in {"count", "ask", "reply"}
        <5>1. CASE caller' \in Flushed
          BY <5>1, <3>2, <1>3, FlushMoves
        <5>2. CASE caller' \in {"count", "ask", "reply"}
          BY <5>2, <3>2, <1>3, FlushMoves
        <5> QED BY <5>1, <5>2, <2>2
      <4> QED BY <4>1, <4>2, <4>3
    <3> QED BY <3>1, <3>2, Steps
  <2>3. ASSUME caller' \in InFlush
        PROVE  txChanQueue' = 0 /\ sender' # "pop"
    <3>1. CASE Clear_queue("clear", "count")
      BY <3>1 DEF Clear_queue, transfer
    <3>2. CASE caller \in InFlush
      BY <3>2, <2>2, <2>3, <1>1, StaysEmpty
    <3> QED BY <3>1, <3>2, <2>2, <2>3
  <2>4. ASSUME caller' = "reply"
        PROVE  \A j \in Flushes', k \in Sent' : k < j
    <3>1. CASE leaf_queue_cmd(Flush, "ask", "reply")
      <4>1. caller = "ask"
        BY <3>1 DEF leaf_queue_cmd, Goes
      <4>2. Flushes = {}
        BY <4>1 DEF OneFlush
      <4> QED BY <4>2, <3>1, FlushIsLast
    <3>2. CASE ~leaf_queue_cmd(Flush, "ask", "reply")
      <4>1. Elsewhere
        BY <3>2, <2>4, <1>3, Steps, FlushMoves
      <4>2. caller = "reply" /\ going_on
        BY <4>1, <2>4, <1>3, ElsewhereStep
      <4>3. txChanQueue = 0 /\ sender # "pop" /\ ~isBusOn
        BY <4>2, <1>1
      <4>4. ~Take
        BY <4>3, StaysEmpty
      <4> QED BY <4>2, <4>4, <3>2, <1>1, FlushAmongSent
    <3> QED BY <3>1, <3>2
  <2>5. ASSUME caller' \in Flushed
        PROVE  Sent' = {}
    <3>1. going_on /\ caller \in InFlush
      <4>1. ~(caller' = "count")
        BY <2>5 DEF Flushed
      <4> QED BY <4>1, <2>2, <2>5
    <3>2. ~Take
      BY <3>1, <1>1, StaysEmpty
    <3>3. caller \in Flushed \/ Flush_replied
      BY <2>5, <1>3, Steps, ElsewhereStep, FlushMoves
    <3>4. CASE caller \in Flushed
      BY <3>1, <3>2, <3>4, <1>1, StepLoses
    <3>5. CASE Flush_replied
      <4>1. caller = "reply"
        BY <3>5 DEF Flush_replied, Goes
      <4>2. Sent = {}
        BY <4>1, <3>1, <3>5, <1>1, FlushIsFirst
      <4> QED BY <4>2, <3>2, StepLoses
    <3> QED BY <3>3, <3>4, <3>5
  <2> QED BY <2>1, <2>3, <2>4, <2>5, <1>3 DEF Going_on
<1> QED BY <1>2, <1>3

\* Every step keeps the count of what canWriteSync waits for.
LEMMA AwaitingStep ==
    ASSUME TypeOK, TypeOK', Filling, Counting, Awaiting, [Next]_vars
    PROVE  Awaiting'
<1> USE DEF channel, transfer, bus, histories, Goes
<1>0. /\ outstanding_tx \in Nat /\ awaited \in Nat /\ txChanQueue \in Nat
      /\ Queued \in Nat
  BY TypeParts, QueuedStep, RoomAssumption, OutstandingAssumption, BoundAssumption
     DEF Counters
<1>n. ASSUME caller' \notin {"check queue", "asleep", "check count", "synced"}
      PROVE  Awaiting'
  BY <1>n DEF Awaiting
<1>m. ASSUME miscounted' PROVE Awaiting'
  BY <1>m DEF Awaiting
<1>a. ASSUME ~miscounted
      PROVE  /\ caller = "check queue" \/ caller = "asleep" =>
                   awaited <= Queued + outstanding_tx
             /\ caller = "check count" => awaited <= outstanding_tx
             /\ caller = "synced" => awaited = 0
  BY <1>a DEF Awaiting
<1>k. ASSUME UNCHANGED <<caller, miscounted>>, awaited' \in Nat, outstanding_tx' \in Nat,
             awaited <= outstanding_tx => awaited' <= outstanding_tx',
             awaited <= Queued + outstanding_tx => awaited' <= Queued' + outstanding_tx',
             awaited = 0 => awaited' = 0
      PROVE  Awaiting'
  BY <1>k, <1>a DEF Awaiting
<1>1. CASE Elsewhere
  <2>0. UNCHANGED caller
    BY <1>1, ElsewhereStep
  <2>1. CASE Take
    <3>1. /\ outstanding_tx' = outstanding_tx + 1 /\ UNCHANGED <<awaited, miscounted>>
          /\ Queued' = Queued - 1
      BY <2>1, <1>0 DEF Take, Queued
    <3>2. Queued' + outstanding_tx' = Queued + outstanding_tx
      BY <3>1, <1>0
    <3>3. awaited <= outstanding_tx => awaited' <= outstanding_tx'
      BY <3>1, <1>0
    <3>4. awaited' \in Nat /\ outstanding_tx' \in Nat
      BY <3>1, <1>0
    <3> QED BY <3>1, <3>2, <3>3, <3>4, <2>0, <1>k
  <2>2. CASE Tx_acknowledge
    <3>1. /\ outstanding_tx' = IF outstanding_tx > 0 THEN outstanding_tx - 1 ELSE 0
          /\ awaited' = IF awaited > 0 THEN awaited - 1 ELSE 0
          /\ UNCHANGED <<txChanQueue, sender>>
      BY <2>2 DEF Tx_acknowledge
    <3>2. Queued' = Queued
      BY <3>1 DEF Queued
    <3>3. miscounted' = (miscounted /\ (Present > 1 \/ caller # "idle"))
      BY <2>2 DEF Tx_acknowledge
    <3>4. CASE miscounted /\ ~miscounted'
      <4>1. caller = "idle"
        BY <3>3, <3>4, Zenon
      <4> QED BY <4>1, <2>0, <1>n
    <3>5. CASE ~miscounted
      <4>1. miscounted' <=> miscounted
        BY <3>3, <3>5, Zenon
      <4>2. UNCHANGED miscounted
        BY <4>1, <3>3, <3>5, TypeParts, Zenon DEF Controls
      <4>3. awaited <= outstanding_tx => awaited' <= outstanding_tx'
        BY <3>1, <1>0
      <4>4. awaited <= Queued + outstanding_tx => awaited' <= Queued + outstanding_tx'
        BY <3>1, <1>0
      <4>5. awaited = 0 => awaited' = 0
        BY <3>1
      <4>6. awaited' \in Nat /\ outstanding_tx' \in Nat
        BY <3>1, <1>0
      <4> QED BY <4>2, <4>3, <4>4, <4>5, <4>6, <3>2, <2>0, <1>k
    <3> QED BY <3>4, <3>5, <1>m
  <2>3. CASE /\ UNCHANGED <<outstanding_tx, awaited, miscounted>>
             /\ Queued' = Queued \/ Queued' = Queued + 1
    <3>1. awaited <= Queued + outstanding_tx => awaited <= Queued' + outstanding_tx
      BY <2>3, <1>0
    <3> QED BY <3>1, <2>0, <2>3, <1>0, <1>k
  <2> QED BY <2>1, <2>2, <2>3, <1>1, ElsewhereStep
<1>2. CASE Of_caller
  <2>1. CASE leaf_flush_tx_buffer
    <3>1. CASE going_on
      BY <3>1, <2>1, <1>n DEF leaf_flush_tx_buffer, Clear_queue, Clear_count,
                              leaf_queue_cmd, Restart_ids
    <3>2. CASE ~going_on
      BY <3>2, <2>1, <1>n DEF leaf_flush_tx_buffer, Clear_queue, Clear_count,
                              leaf_queue_cmd, Restart_ids
    <3> QED BY <3>1, <3>2
  <2>2. CASE leaf_bus_on \/ leaf_bus_off
    BY <2>2, <1>n DEF leaf_bus_on, leaf_bus_off, Clear_queue, Clear_count,
                      leaf_queue_cmd, Restart_ids
  <2>3. CASE Flush_replied \/ Started \/ Stopped
    BY <2>3, <1>n DEF Flush_replied, Started, Stopped
  <2>4. CASE Flush_timed_out \/ Start_timed_out \/ Stop_timed_out
    BY <2>4, <1>n DEF Flush_timed_out, Start_timed_out, Stop_timed_out
  <2>5. CASE FLUSH_SENDBUFFER \/ BUS_ON \/ BUS_OFF
    BY <2>5, <1>n DEF FLUSH_SENDBUFFER, BUS_ON, First_step, BUS_OFF
  <2>6. CASE Wait_ends("synced") \/ Time_out
    BY <2>6, <1>n DEF Wait_ends, Time_out
  <2>7. CASE WAIT_EMPTY
    <3>1. /\ caller' = "check queue" /\ awaited' = Present
          /\ UNCHANGED <<txChanQueue, sender, outstanding_tx, miscounted>>
      BY <2>7 DEF WAIT_EMPTY
    <3>2. Queued' = Queued
      BY <3>1 DEF Queued
    <3>3. Cardinality(Sent) \in Nat
      BY CountedInFlight
    <3>4. ~miscounted => Present <= Queued + outstanding_tx
      BY <3>3, <1>0 DEF Counting, Present
    <3> QED BY <3>1, <3>2, <3>4 DEF Awaiting
  <2>8. CASE Check_queue \/ Check_count \/ Wake
    <3>1. /\ UNCHANGED <<txChanQueue, sender, outstanding_tx, miscounted, awaited>>
      BY <2>8 DEF Check_queue, Check_count, Wake
    <3>2. Queued' = Queued
      BY <3>1 DEF Queued
    <3>3. txChanQueue = 0 => Queued = 0
      BY DEF Queued, Filling
    <3>4. CASE Check_queue
      <4>1. /\ caller = "check queue"
            /\ \/ caller' = "check count" /\ txChanQueue = 0
               \/ caller' = "asleep"
        BY <3>4 DEF Check_queue
      <4>2. ASSUME ~miscounted
            PROVE  /\ awaited' <= Queued' + outstanding_tx'
                   /\ txChanQueue = 0 => awaited' <= outstanding_tx'
        <5>1. awaited <= Queued + outstanding_tx
          BY <4>1, <4>2, <1>a
        <5> QED BY <5>1, <3>1, <3>2, <3>3, <1>0
      <4> QED BY <4>1, <4>2, <3>1 DEF Awaiting
    <3>5. CASE Check_count
      <4>1. /\ caller = "check count"
            /\ \/ caller' = "synced" /\ outstanding_tx = 0
               \/ caller' = "asleep"
        BY <3>5 DEF Check_count, leaf_outstanding_sync
      <4>2. ASSUME ~miscounted
            PROVE  /\ awaited' <= Queued' + outstanding_tx'
                   /\ outstanding_tx = 0 => awaited' = 0
        <5>1. awaited <= outstanding_tx
          BY <4>1, <4>2, <1>a
        <5> QED BY <5>1, <3>1, <3>2, <1>0
      <4> QED BY <4>1, <4>2, <3>1 DEF Awaiting
    <3>6. CASE Wake
      <4>1. caller = "asleep" /\ caller' = "check queue"
        BY <3>6 DEF Wake
      <4> QED BY <4>1, <3>1, <3>2, <1>0, <1>a DEF Awaiting
    <3> QED BY <2>8, <3>4, <3>5, <3>6
  <2> QED BY <2>1, <2>2, <2>3, <2>4, <2>5, <2>6, <2>7, <2>8, <1>2 DEF Of_caller
<1> QED BY <1>1, <1>2, Steps

----------------------------------------------------------------------------
(* How many are on their way.                                               *)

\* The counts of two parts add up.
LEMMA CountConcat ==
    ASSUME NEW S, NEW s \in Seq(S), NEW t \in Seq(S), NEW V
    PROVE  Count(s \o t, V) = Count(s, V) + Count(t, V)
<1> DEFINE A == At(s, V)
           T == At(t, V)
           B == {Len(s) + k : k \in T}
           f == [k \in T |-> Len(s) + k]
<1>1. /\ A \subseteq 1 .. Len(s) /\ T \subseteq 1 .. Len(t)
      /\ Len(s) \in Nat /\ Len(t) \in Nat
      /\ IsFiniteSet(A) /\ IsFiniteSet(T)
      /\ Cardinality(A) \in Nat /\ Cardinality(T) \in Nat
  BY AtFinite, LenProperties
<1>2. At(s \o t, V) = A \cup B
  <2>1. ASSUME NEW k \in At(s \o t, V) PROVE k \in A \cup B
    <3>1. k \in A \/ k - Len(s) \in T
      BY AtFirstOrSecond
    <3>2. k \in Int
      <4>1. s \o t \in Seq(S)
        BY ConcatProperties
      <4>2. At(s \o t, V) \subseteq 1 .. Len(s \o t) /\ Len(s \o t) \in Nat
        BY <4>1, AtFinite, LenProperties
      <4> QED BY <4>2
    <3>3. k = Len(s) + (k - Len(s))
      BY <3>2, <1>1
    <3> QED BY <3>1, <3>3
  <2>2. ASSUME NEW k \in A PROVE k \in At(s \o t, V)
    BY AtFirst
  <2>3. ASSUME NEW k \in T PROVE Len(s) + k \in At(s \o t, V)
    BY AtSecond
  <2> QED BY <2>1, <2>2, <2>3
<1>3. IsFiniteSet(B) /\ Cardinality(B) = Cardinality(T)
  <2>1. f \in Bijection(T, B)
    BY <1>1 DEF Bijection, Injection, Surjection, IsInjective
  <2>2. ExistsBijection(T, B)
    BY <2>1 DEF ExistsBijection
  <2> QED BY <2>2, <1>1, FS_Bijection
<1>4. A \cap B = {}
  BY <1>1
<1> HIDE DEF A, B, T
<1>5. Cardinality(A \cup B) = Cardinality(A) + Cardinality(B) - Cardinality(A \cap B)
  BY <1>1, <1>3, FS_Union
<1>6. Cardinality(A \cap B) = 0
  BY <1>4, FS_EmptySet
<1>7. Cardinality(A \cup B) = Cardinality(A) + Cardinality(T)
  BY <1>1, <1>3, <1>5, <1>6
<1> QED BY <1>2, <1>7 DEF Count, A, T

\* One counts once, if it is of the kind.
LEMMA CountOne ==
    ASSUME NEW x, NEW V
    PROVE  /\ x \in V => Count(<<x>>, V) = 1
           /\ x \notin V => Count(<<x>>, V) = 0
           /\ Count(<<>>, V) = 0
<1>1. /\ x \in V => At(<<x>>, V) = {1}
      /\ x \notin V => At(<<x>>, V) = {}
      /\ At(<<>>, V) = {}
  BY DEF At
<1> QED BY <1>1, FS_EmptySet, FS_Singleton DEF Count

\* A sequence is its first element and the others.
LEMMA CountTail ==
    ASSUME NEW S, NEW s \in Seq(S), s # <<>>, NEW V
    PROVE  Count(s, V) = Count(<<Head(s)>>, V) + Count(Tail(s), V)
<1>1. /\ Len(s) \in Nat /\ Len(s) > 0 /\ DOMAIN s = 1 .. Len(s)
      /\ Head(s) \in S /\ Tail(s) \in Seq(S) /\ Len(Tail(s)) = Len(s) - 1
      /\ \A i \in 1 .. Len(s) - 1 : Tail(s)[i] = s[i + 1]
      /\ Head(s) = s[1]
  BY HeadTailProperties, LenProperties, EmptySeq
<1> DEFINE h == <<Head(s)>>
           r == Tail(s)
<1>2. h \in Seq(S) /\ Len(h) = 1 /\ h[1] = s[1] /\ r \in Seq(S)
  BY <1>1
<1> HIDE DEF h, r
<1>3. /\ h \o r \in Seq(S) /\ Len(h \o r) = Len(h) + Len(r)
      /\ \A k \in 1 .. Len(h) + Len(r) :
            (h \o r)[k] = IF k <= Len(h) THEN h[k] ELSE r[k - Len(h)]
  BY <1>2, ConcatProperties
<1>4. Len(h \o r) = Len(s) /\ \A k \in 1 .. Len(s) : (h \o r)[k] = s[k]
  <2>1. Len(h) + Len(r) = Len(s)
    BY <1>1, <1>2 DEF r
  <2>2. ASSUME NEW k \in 1 .. Len(s) PROVE (h \o r)[k] = s[k]
    <3>1. CASE k = 1
      BY <3>1, <1>1, <1>2, <1>3, <2>1
    <3>2. CASE k # 1
      <4>1. (h \o r)[k] = r[k - 1] /\ k - 1 \in 1 .. Len(s) - 1
        BY <3>2, <1>1, <1>2, <1>3, <2>1
      <4>2. r[k - 1] = s[(k - 1) + 1]
        BY <4>1, <1>1 DEF r
      <4> QED BY <4>1, <4>2, <1>1
    <3> QED BY <3>1, <3>2
  <2> QED BY <2>1, <2>2, <1>3
<1>5. s = h \o r
  BY <1>3, <1>4, SeqEqual
<1>6. Count(h \o r, V) = Count(h, V) + Count(r, V)
  BY <1>2, CountConcat
<1>7. Count(s, V) = Count(h, V) + Count(r, V)
  BY <1>5, <1>6, Zenon
<1> QED BY <1>7 DEF h, r

\* What counts is a number.
LEMMA CountIsNat ==
    ASSUME NEW S, NEW s \in Seq(S), NEW V
    PROVE  Count(s, V) \in Nat
BY AtFinite DEF Count

\* The number on their way is that of the four places.
LEMMA NumberParts ==
    ASSUME TypeOK, NEW V
    PROVE  /\ Number(V) = Count(device, V) + Count(urb, V) + Count(buffer, V)
                          + Count(command, V)
           /\ Count(device, V) \in Nat /\ Count(urb, V) \in Nat
           /\ Count(buffer, V) \in Nat /\ Count(command, V) \in Nat
           /\ Number(V) \in Nat
<1>1. /\ device \in Seq(Items) /\ urb \in Seq(Items) /\ buffer \in Seq(Items)
      /\ command \in Seq(Items)
      /\ InFlight = (device \o urb) \o (buffer \o command)
      /\ device \o urb \in Seq(Items) /\ buffer \o command \in Seq(Items)
  BY QueueTypes
<1>2. /\ Count(device \o urb, V) = Count(device, V) + Count(urb, V)
      /\ Count(buffer \o command, V) = Count(buffer, V) + Count(command, V)
  BY <1>1, CountConcat
<1>3. Number(V) = Count(device \o urb, V) + Count(buffer \o command, V)
  <2> DEFINE a == device \o urb
             b == buffer \o command
  <2>1. a \in Seq(Items) /\ b \in Seq(Items) /\ InFlight = a \o b
    BY <1>1
  <2> HIDE DEF a, b
  <2>2. Count(a \o b, V) = Count(a, V) + Count(b, V)
    BY <2>1, CountConcat
  <2>3. Number(V) = Count(a \o b, V)
    BY <2>1 DEF Number
  <2> QED BY <2>2, <2>3 DEF a, b
<1>4. /\ Count(device, V) \in Nat /\ Count(urb, V) \in Nat
      /\ Count(buffer, V) \in Nat /\ Count(command, V) \in Nat
  BY <1>1, CountIsNat
<1> QED BY <1>2, <1>3, <1>4

\* The same in the next state.
LEMMA NumberPartsNext ==
    ASSUME TypeOK', NEW V
    PROVE  /\ Number(V)' = Count(device', V) + Count(urb', V) + Count(buffer', V)
                          + Count(command', V)
           /\ Count(device', V) \in Nat /\ Count(urb', V) \in Nat
           /\ Count(buffer', V) \in Nat /\ Count(command', V) \in Nat
           /\ Number(V)' \in Nat
<1>1. /\ device' \in Seq(Items) /\ urb' \in Seq(Items) /\ buffer' \in Seq(Items)
      /\ command' \in Seq(Commands) /\ Commands \subseteq Items
  BY DEF TypeOK, Items
<1>2. command' \in Seq(Items)
  BY <1>1, WiderSeq
<1> DEFINE du == device' \o urb'
           dub == du \o buffer'
<1>3. /\ du \in Seq(Items) /\ Count(du, V) = Count(device', V) + Count(urb', V)
  BY <1>1, ConcatProperties, CountConcat
<1>4. dub \in Seq(Items) /\ Count(dub, V) = Count(du, V) + Count(buffer', V)
  <2> HIDE DEF du
  <2> QED BY <1>1, <1>3, ConcatProperties, CountConcat
<1>5. Number(V)' = Count(dub, V) + Count(command', V)
  <2>1. InFlight' = dub \o command'
    BY DEF InFlight
  <2> HIDE DEF dub
  <2>2. Count(dub \o command', V) = Count(dub, V) + Count(command', V)
    BY <1>2, <1>4, CountConcat
  <2> QED BY <2>1, <2>2 DEF Number, Count
<1>6. /\ Count(device', V) \in Nat /\ Count(urb', V) \in Nat
      /\ Count(buffer', V) \in Nat /\ Count(command', V) \in Nat
  BY <1>1, <1>2, CountIsNat
<1> HIDE DEF du, dub
<1> QED BY <1>3, <1>4, <1>5, <1>6

\* The commands differ from one another and from messages, and so do their places.
LEMMA CommandsDiffer ==
    /\ Flush # Start /\ Flush # Stop /\ Start # Stop
    /\ Commands \cap TransIds = {}
    /\ Place(Flush) = "reply" /\ Place(Start) = "starting" /\ Place(Stop) = "stopping"
    /\ \A c, d \in Commands : Place(c) = Place(d) => c = d
<1>1. Flush # Start /\ Flush # Stop /\ Start # Stop /\ Commands \cap TransIds = {}
  BY OutstandingAssumption DEF Commands, TransIds, Flush, Start, Stop
<1>2. Place(Flush) = "reply" /\ Place(Start) = "starting" /\ Place(Stop) = "stopping"
  BY <1>1, Zenon DEF Place
<1>3. \A c, d \in Commands : Place(c) = Place(d) => c = d
  BY <1>2 DEF Commands
<1> QED BY <1>1, <1>2, <1>3

\* The steps that change what is on its way, but for those of a caller.
LEMMA ElsewhereMoves ==
    ASSUME TypeOK, Filling, Elsewhere
    PROVE  \/ InFlight' = InFlight /\ UNCHANGED failed
           \/ Take \/ Tx_acknowledge \/ Submit_fails
           \/ Received /\ Head(urb) \in Commands
<1> USE DEF channel, transfer, bus, histories
<1>q. ASSUME QueuesKept PROVE InFlight' = InFlight
  BY <1>q DEF QueuesKept, InFlight
<1>1. CASE UNCHANGED vars
  BY <1>1, <1>q DEF vars, QueuesKept
<1>2. ASSUME NEW w \in Writer, SENDMSG(w) \/ leaf_schedule_send(w)
      PROVE  InFlight' = InFlight /\ UNCHANGED failed
  BY <1>2, <1>q DEF SENDMSG, leaf_schedule_send, QueuesKept
<1>3. CASE leaf_send \/ leaf_transmit
  <2>1. UNCHANGED failed
    BY <1>3 DEF leaf_send, leaf_transmit
  <2> QED BY <2>1, <1>3, HandedOn
<1>4. CASE Pop \/ Nothing_filled
  BY <1>4, <1>q DEF Pop, Nothing_filled, QueuesKept
<1>5. CASE Received /\ Head(urb) \notin Commands
  <2>1. Head(urb) \in Items
    <3>1. urb # <<>> /\ urb \in Seq(Items)
      BY <1>5, QueueTypes DEF Received
    <3> QED BY <3>1, HeadTailProperties
  <2>2. Head(urb) \in TransIds
    BY <2>1, <1>5 DEF Items
  <2>3. /\ device' = device \o urb /\ urb' = <<>>
        /\ UNCHANGED <<buffer, command, failed>>
    BY <2>2, <1>5 DEF Received
  <2>4. (device \o urb) \o <<>> = device \o urb
    BY QueueTypes, ConcatEmptySeq
  <2> QED BY <2>3, <2>4 DEF InFlight
<1> QED BY <1>1, <1>2, <1>3, <1>4, <1>5 DEF Elsewhere, Worker

\* What the three steps that do not keep it do to the number of some kind.
LEMMA NumberTaken ==
    ASSUME TypeOK, TypeOK', Take, NEW V
    PROVE  Number(V)' = Number(V) + Count(<<transId>>, V)
<1>1. /\ buffer' = buffer \o <<transId>> /\ UNCHANGED <<device, urb, command>>
      /\ buffer \in Seq(Items) /\ <<transId>> \in Seq(Items)
  <2>1. buffer \in Seq(Items) /\ transId \in Items
    BY DEF TypeOK, Items
  <2> QED BY <2>1, AppendIsConcat DEF Take
<1>2. Count(buffer', V) = Count(buffer, V) + Count(<<transId>>, V)
  BY <1>1, CountConcat
<1>3. Count(<<transId>>, V) \in Nat
  BY <1>1, CountIsNat
<1>4. /\ Number(V) = Count(device, V) + Count(urb, V) + Count(buffer, V)
                     + Count(command, V)
      /\ Count(device, V) \in Nat /\ Count(urb, V) \in Nat
      /\ Count(buffer, V) \in Nat /\ Count(command, V) \in Nat
  BY NumberParts
<1>5. Number(V)' = Count(device, V) + Count(urb, V) + Count(buffer', V)
                   + Count(command, V)
  BY <1>1, NumberPartsNext
<1> QED BY <1>2, <1>3, <1>4, <1>5

LEMMA NumberAnswered ==
    ASSUME TypeOK, TypeOK', device # <<>>, device' = Tail(device),
           UNCHANGED <<command, buffer, urb>>, NEW V
    PROVE  Number(V)' = Number(V) - Count(<<Head(device)>>, V)
<1>1. device \in Seq(Items) /\ Head(device) \in Items
  <2>1. device \in Seq(Items)
    BY DEF TypeOK
  <2> QED BY <2>1, HeadTailProperties
<1>2. Count(device, V) = Count(<<Head(device)>>, V) + Count(device', V)
  BY <1>1, CountTail
<1>3. Count(<<Head(device)>>, V) \in Nat
  <2>1. <<Head(device)>> \in Seq(Items)
    BY <1>1
  <2> QED BY <2>1, CountIsNat
<1>4. /\ Number(V) = Count(device, V) + Count(urb, V) + Count(buffer, V)
                     + Count(command, V)
      /\ Count(device, V) \in Nat /\ Count(urb, V) \in Nat
      /\ Count(buffer, V) \in Nat /\ Count(command, V) \in Nat
  BY NumberParts
<1>5. /\ Number(V)' = Count(device', V) + Count(urb, V) + Count(buffer, V)
                     + Count(command, V)
      /\ Count(device', V) \in Nat
  BY NumberPartsNext
<1> QED BY <1>2, <1>3, <1>4, <1>5

LEMMA NumberFails ==
    ASSUME TypeOK, TypeOK', Submit_fails, NEW V
    PROVE  Number(V)' <= Number(V)
<1>1. UNCHANGED <<device, urb, command>> /\ buffer' = <<>>
  BY DEF Submit_fails, transfer
<1>2. Count(buffer', V) = 0
  BY <1>1, CountOne
<1>3. /\ Number(V) = Count(device, V) + Count(urb, V) + Count(buffer, V)
                     + Count(command, V)
      /\ Count(device, V) \in Nat /\ Count(urb, V) \in Nat
      /\ Count(buffer, V) \in Nat /\ Count(command, V) \in Nat
  BY NumberParts
<1>4. Number(V)' = Count(device, V) + Count(urb, V) + 0 + Count(command, V)
  BY <1>1, <1>2, NumberPartsNext
<1> QED BY <1>3, <1>4

\* The command that the device receives stays; anything else may be lost.
LEMMA NumberReceived ==
    ASSUME TypeOK, TypeOK', Received, Head(urb) \in Commands, NEW V
    PROVE  /\ Number(V)' <= Number(V)
           /\ Head(urb) \in V => Number(V)' >= 1 /\ Number(V) >= 1
<1> DEFINE h == <<Head(urb)>>
           t == Tail(urb)
<1>1. urb # <<>> /\ urb' = <<>> /\ UNCHANGED <<buffer, command>>
  BY DEF Received
<1>2. PICK n \in 0 .. (IF running THEN Len(device) ELSE 0) :
        \/ Head(urb) = Flush /\ device' = Past(n) \o urb
        \/ Head(urb) # Flush /\ device' = Past(n) \o <<Head(urb)>>
        \/ /\ Head(urb) # Flush
           /\ device' = Past(n) \o <<Head(urb)>> \o Unsent(n) \o Tail(urb)
  <2>1. Head(urb) \notin TransIds
    BY CommandsDiffer
  <2> QED BY <2>1 DEF Received
<1>3. n \in 0 .. Len(device)
  <2>1. device \in Seq(Items)
    BY DEF TypeOK
  <2> QED BY <2>1, <1>2, LenProperties
<1> DEFINE p == Past(n)
           u == Unsent(n)
<1>4. /\ p \in Seq(Items) /\ u \in Seq(Items) /\ h \in Seq(Items) /\ t \in Seq(Items)
      /\ device = p \o u /\ urb = h \o t
  BY <1>1, <1>3, Pieces
<1>5. \/ device' = p \o urb
      \/ device' = p \o h
      \/ device' = ((p \o h) \o u) \o t
  BY <1>2
<1>6. /\ Head(urb) \in V => Count(h, V) = 1
      /\ Head(urb) \notin V => Count(h, V) = 0
  BY CountOne
<1> HIDE DEF p, u, h, t
<1>7. /\ Count(p, V) \in Nat /\ Count(u, V) \in Nat
      /\ Count(h, V) \in Nat /\ Count(t, V) \in Nat
      /\ Count(device, V) = Count(p, V) + Count(u, V)
      /\ Count(urb, V) = Count(h, V) + Count(t, V)
  BY <1>4, CountIsNat, CountConcat
<1>8. /\ Count(device', V) <= Count(device, V) + Count(urb, V)
      /\ Count(device', V) >= Count(h, V)
      /\ Count(device', V) \in Nat
  <2>1. urb \in Seq(Items)
    BY QueueTypes
  <2>2. CASE device' = p \o urb
    <3>1. Count(p \o urb, V) = Count(p, V) + Count(urb, V)
      <4>1. p \in Seq(Items) /\ urb \in Seq(Items)
        BY <2>1, <1>4
      <4> QED BY <4>1, CountConcat, Zenon
    <3>2. Count(device', V) = Count(p, V) + Count(urb, V)
      BY <3>1, <2>2
    <3> QED BY <3>2, <1>7
  <2>3. CASE device' = p \o h
    <3>1. Count(p \o h, V) = Count(p, V) + Count(h, V)
      <4>1. p \in Seq(Items) /\ h \in Seq(Items)
        BY <1>4
      <4> QED BY <4>1, CountConcat, Zenon
    <3>2. Count(device', V) = Count(p, V) + Count(h, V)
      BY <3>1, <2>3
    <3> QED BY <3>2, <1>7
  <2>4. CASE device' = ((p \o h) \o u) \o t
    <3>1. p \o h \in Seq(Items) /\ Count(p \o h, V) = Count(p, V) + Count(h, V)
      BY <1>4, ConcatProperties, CountConcat
    <3> DEFINE ph == p \o h
    <3> HIDE DEF ph
    <3>2. ph \in Seq(Items) /\ Count(ph, V) = Count(p, V) + Count(h, V)
      BY <3>1 DEF ph
    <3>3. ph \o u \in Seq(Items) /\ Count(ph \o u, V) = Count(ph, V) + Count(u, V)
      BY <3>2, <1>4, ConcatProperties, CountConcat
    <3> DEFINE phu == ph \o u
    <3> HIDE DEF phu
    <3>4. phu \in Seq(Items) /\ Count(phu, V) = Count(ph, V) + Count(u, V)
      BY <3>3 DEF phu
    <3>5. Count(phu \o t, V) = Count(phu, V) + Count(t, V)
      BY <3>4, <1>4, CountConcat
    <3>6. device' = phu \o t
      BY <2>4 DEF ph, phu
    <3> QED BY <3>2, <3>4, <3>5, <3>6, <1>7
  <2> QED BY <2>2, <2>3, <2>4, <1>5
<1>9. Count(urb', V) = 0
  BY <1>1, CountOne
<1>10. /\ Number(V) = Count(device, V) + Count(urb, V) + Count(buffer, V)
                     + Count(command, V)
       /\ Count(device, V) \in Nat /\ Count(urb, V) \in Nat
       /\ Count(buffer, V) \in Nat /\ Count(command, V) \in Nat
  BY NumberParts
<1>11. Number(V)' = Count(device', V) + 0 + Count(buffer, V) + Count(command, V)
  BY <1>1, <1>9, NumberPartsNext
<1>12. Number(V)' <= Number(V)
  <2> DEFINE d == Count(device, V)
             w == Count(urb, V)
             b == Count(buffer, V)
             c == Count(command, V)
             d2 == Count(device', V)
  <2>1. /\ d \in Nat /\ w \in Nat /\ b \in Nat /\ c \in Nat
        /\ d2 \in Nat /\ d2 <= d + w
    BY <1>8, <1>10
  <2>2. Number(V) = d + w + b + c /\ Number(V)' = d2 + 0 + b + c
    BY <1>10, <1>11
  <2> HIDE DEF d, w, b, c, d2
  <2>3. d2 + 0 + b + c <= d + w + b + c
    BY <2>1
  <2> QED BY <2>2, <2>3
<1>13. ASSUME Head(urb) \in V PROVE Number(V)' >= 1 /\ Number(V) >= 1
  <2>1. Count(h, V) = 1
    BY <1>6, <1>13
  <2>2. Count(device', V) >= 1
    BY <2>1, <1>8
  <2>3. Count(urb, V) >= 1 /\ Count(urb, V) \in Nat
    BY <2>1, <1>7
  <2>4. Number(V)' >= 1
    BY <2>2, <1>8, <1>10, <1>11
  <2>5. Number(V) >= 1
    BY <2>3, <1>10
  <2> QED BY <2>4, <2>5
<1> QED BY <1>12, <1>13

\* A command that is asked for is the only one.
LEMMA NumberAsked ==
    ASSUME TypeOK, TypeOK', NEW cmd \in Commands, NEW from, NEW to,
           leaf_queue_cmd(cmd, from, to), NEW V, Number(V) = 0
    PROVE  Number(V)' = Count(<<cmd>>, V)
<1>1. UNCHANGED <<device, urb, buffer>> /\ command' = <<cmd>>
  BY DEF leaf_queue_cmd
<1>2. Count(device, V) = 0 /\ Count(urb, V) = 0 /\ Count(buffer, V) = 0
  BY NumberParts
<1>3. /\ Number(V)' = Count(device', V) + Count(urb', V) + Count(buffer', V)
                      + Count(command', V)
      /\ Count(command', V) \in Nat
  BY NumberPartsNext
<1> QED BY <1>1, <1>2, <1>3

----------------------------------------------------------------------------
(* Commands, and the account of what is counted.                            *)

\* How a caller comes to wait for a command and how that ends.
LEMMA CommandMoves ==
    ASSUME Of_caller
    PROVE  \/ \E cmd \in Commands, from \in Callers \ Places :
                 leaf_queue_cmd(cmd, from, Place(cmd))
           \/ \E cmd \in Commands :
                 /\ caller = Place(cmd) /\ caller' \notin Places
                 /\ Replied(cmd) \/ Timed_out(cmd)
           \/ QueuesKept /\ caller \notin Places /\ caller' \notin Places
<1> USE DEF channel, transfer, bus, histories, Goes, QueuesKept, Callers, Places
<1>0. /\ Flush \in Commands /\ Start \in Commands /\ Stop \in Commands
      /\ Place(Flush) = "reply" /\ Place(Start) = "starting" /\ Place(Stop) = "stopping"
  BY CommandsDiffer DEF Commands
<1>2. ASSUME NEW cmd \in Commands, NEW from \in Callers \ Places,
             leaf_queue_cmd(cmd, from, Place(cmd))
      PROVE  \E c \in Commands, f \in Callers \ Places : leaf_queue_cmd(c, f, Place(c))
  BY <1>2
<1>3. CASE leaf_flush_tx_buffer
  <2>1. CASE leaf_queue_cmd(Flush, "ask", "reply")
    <3>1. "ask" \in Callers \ Places
      OBVIOUS
    <3> QED BY <3>1, <2>1, <1>0, <1>2
  <2>2. CASE Clear_queue("clear", "count")
    BY <2>2 DEF Clear_queue
  <2>3. CASE Clear_count("count", "ask")
    BY <2>3 DEF Clear_count
  <2>4. CASE Restart_ids("restart", "clear again")
    BY <2>4 DEF Restart_ids
  <2>5. CASE Clear_queue("clear again", "count again")
    BY <2>5 DEF Clear_queue
  <2>6. CASE Clear_count("count again", IF going_on THEN "start" ELSE "idle")
    <3>1. (IF going_on THEN "start" ELSE "idle") \notin Places
      OBVIOUS
    <3> QED BY <3>1, <2>6 DEF Clear_count
  <2> QED BY <2>1, <2>2, <2>3, <2>4, <2>5, <2>6, <1>3 DEF leaf_flush_tx_buffer
<1>4. CASE leaf_bus_on
  <2>1. CASE leaf_queue_cmd(Start, "ask start", "starting")
    <3>1. "ask start" \in Callers \ Places
      OBVIOUS
    <3> QED BY <3>1, <2>1, <1>0, <1>2
  <2>2. CASE Restart_ids("start", "start count")
    BY <2>2 DEF Restart_ids
  <2>3. CASE Clear_count("start count", "ask start")
    BY <2>3 DEF Clear_count
  <2> QED BY <2>1, <2>2, <2>3, <1>4 DEF leaf_bus_on
<1>5. CASE leaf_bus_off
  <2>1. CASE leaf_queue_cmd(Stop, "ask stop", "stopping")
    <3>1. "ask stop" \in Callers \ Places
      OBVIOUS
    <3> QED BY <3>1, <2>1, <1>0, <1>2
  <2>2. CASE Clear_count("stop count", "stop ids")
    BY <2>2 DEF Clear_count
  <2>3. CASE Restart_ids("stop ids", "stop clear")
    BY <2>3 DEF Restart_ids
  <2>4. CASE Clear_queue("stop clear", "idle")
    BY <2>4 DEF Clear_queue
  <2> QED BY <2>1, <2>2, <2>3, <2>4, <1>5 DEF leaf_bus_off
<1>6. CASE Flush_replied \/ Flush_timed_out
  <2>1. caller = "reply" /\ caller' \notin Places /\ (Replied(Flush) \/ Timed_out(Flush))
    BY <1>6 DEF Flush_replied, Flush_timed_out
  <2> QED BY <2>1, <1>0
<1>7. CASE Started \/ Start_timed_out
  <2>1. caller = "starting" /\ caller' \notin Places /\ (Replied(Start) \/ Timed_out(Start))
    BY <1>7 DEF Started, Start_timed_out
  <2> QED BY <2>1, <1>0
<1>8. CASE Stopped \/ Stop_timed_out
  <2>1. caller = "stopping" /\ caller' \notin Places /\ (Replied(Stop) \/ Timed_out(Stop))
    BY <1>8 DEF Stopped, Stop_timed_out
  <2> QED BY <2>1, <1>0
<1>9. CASE Check_queue \/ Check_count \/ Wake
  BY <1>9 DEF Check_queue, Check_count, Wake
<1>10. CASE Wait_ends("synced") \/ Time_out \/ WAIT_EMPTY
  BY <1>10 DEF Wait_ends, Time_out, WAIT_EMPTY
<1>11. CASE FLUSH_SENDBUFFER \/ BUS_ON \/ BUS_OFF
  BY <1>11 DEF FLUSH_SENDBUFFER, BUS_ON, First_step, BUS_OFF
<1> QED BY <1>3, <1>4, <1>5, <1>6, <1>7, <1>8, <1>9, <1>10, <1>11 DEF Of_caller

\* A command is not a message.
LEMMA MessagesCount ==
    ASSUME NEW x
    PROVE  /\ x \in TransIds =>
                 Count(<<x>>, TransIds) = 1 /\ \A d \in Commands : Count(<<x>>, {d}) = 0
           /\ x \in Commands =>
                 /\ Count(<<x>>, TransIds) = 0 /\ Count(<<x>>, {x}) = 1
                 /\ \A d \in Commands \ {x} : Count(<<x>>, {d}) = 0
<1>1. CASE x \in TransIds
  <2>1. x \notin Commands /\ \A d \in Commands : x \notin {d}
    BY <1>1, CommandsDiffer
  <2> QED BY <2>1, <1>1, CountOne
<1>2. CASE x \in Commands
  <2>1. x \notin TransIds /\ \A d \in Commands \ {x} : x \notin {d}
    BY <1>2, CommandsDiffer
  <2> QED BY <2>1, <1>2, CountOne
<1> QED BY <1>1, <1>2

\* Every step keeps the part of the commands.
LEMMA CommandsStep ==
    ASSUME TypeOK, TypeOK', Filling, CommandsAwaited, [Next]_vars
    PROVE  CommandsAwaited'
<1> DEFINE Fine(d) ==
      /\ Number({d})' <= 1
      /\ Number({d})' > 0 => caller' = Place(d)
      /\ caller' = Place(d) /\ ~failed' => Number({d})' = 1
<1> SUFFICES ASSUME NEW d \in Commands PROVE Fine(d)
  BY DEF CommandsAwaited
<1>0. /\ Number({d}) \in Nat /\ Number({d}) <= 1
      /\ Number({d}) > 0 => caller = Place(d)
      /\ caller = Place(d) /\ ~failed => Number({d}) = 1
      /\ Number({d})' \in Nat
  BY NumberParts, NumberPartsNext DEF CommandsAwaited
<1>p. Place(d) \in Places
  BY CommandsDiffer DEF Commands, Places
<1>1. CASE Elsewhere
  <2>0. UNCHANGED caller
    BY <1>1, ElsewhereStep
  <2>s. ASSUME Number({d})' = Number({d}), UNCHANGED failed PROVE Fine(d)
    BY <2>0, <2>s, <1>0
  <2>1. CASE InFlight' = InFlight /\ UNCHANGED failed
    <3>1. Number({d})' = Number({d})
      BY <2>1 DEF Number
    <3> QED BY <3>1, <2>1, <2>s
  <2>2. CASE Take
    <3>1. transId \in TransIds /\ UNCHANGED failed
      BY <2>2 DEF TypeOK, Take, histories
    <3>2. Number({d})' = Number({d}) + Count(<<transId>>, {d})
      BY <2>2, NumberTaken
    <3>3. Count(<<transId>>, {d}) = 0
      BY <3>1, MessagesCount
    <3> QED BY <3>1, <3>2, <3>3, <2>s, <1>0
  <2>3. CASE Tx_acknowledge
    <3>1. /\ device # <<>> /\ Head(device) \in TransIds /\ device' = Tail(device)
          /\ UNCHANGED <<command, buffer, urb, failed>>
      BY <2>3 DEF Tx_acknowledge
    <3>2. Number({d})' = Number({d}) - Count(<<Head(device)>>, {d})
      BY <3>1, NumberAnswered
    <3>3. Count(<<Head(device)>>, {d}) = 0
      BY <3>1, MessagesCount
    <3> QED BY <3>1, <3>2, <3>3, <2>s, <1>0
  <2>4. CASE Submit_fails
    <3>1. failed' = TRUE /\ Number({d})' <= Number({d})
      BY <2>4, NumberFails DEF Submit_fails
    <3> QED BY <3>1, <2>0, <1>0
  <2>5. CASE Received /\ Head(urb) \in Commands
    <3>0. PICK c \in Commands : c = Head(urb)
      BY <2>5
    <3>1. /\ Number({d})' <= Number({d}) /\ Number({c}) >= 1
          /\ c = d => Number({d})' >= 1
      <4>1. /\ Number({d})' <= Number({d})
            /\ c \in {d} => Number({d})' >= 1 /\ Number({d}) >= 1
        BY <3>0, <2>5, NumberReceived
      <4>2. c \in {c} => Number({c})' >= 1 /\ Number({c}) >= 1
        BY <3>0, <2>5, NumberReceived
      <4> QED BY <4>1, <4>2
    <3>2. Number({c}) \in Nat
      BY NumberParts
    <3>3. caller = Place(c)
      BY <3>0, <3>1, <3>2 DEF CommandsAwaited
    <3>4. caller = Place(d) => c = d
      BY <3>0, <3>3, CommandsDiffer
    <3>5. CASE c = d
      <4>1. Number({d})' = 1 /\ caller' = Place(d)
        BY <3>1, <3>3, <3>5, <2>0, <1>0
      <4> QED BY <4>1
    <3>6. CASE c # d
      <4>1. caller' # Place(d) /\ Number({d}) = 0
        BY <3>4, <3>6, <2>0, <1>0
      <4>2. Number({d})' = 0
        BY <4>1, <3>1, <1>0
      <4> QED BY <4>1, <4>2
    <3> QED BY <3>5, <3>6
  <2> QED BY <2>1, <2>2, <2>3, <2>4, <2>5, <1>1, ElsewhereMoves
<1>2. CASE \E cmd \in Commands, from \in Callers \ Places :
              leaf_queue_cmd(cmd, from, Place(cmd))
  <2>1. PICK cmd \in Commands, from \in Callers \ Places :
            leaf_queue_cmd(cmd, from, Place(cmd))
    BY <1>2
  <2>2. caller = from /\ caller' = Place(cmd)
    BY <2>1 DEF leaf_queue_cmd, Goes
  <2>3. Number({d}) = 0
    BY <2>2, <1>0, <1>p
  <2>4. Number({d})' = Count(<<cmd>>, {d})
    BY <2>1, <2>3, NumberAsked
  <2>5. CASE d = cmd
    <3>1. Count(<<cmd>>, {cmd}) = 1
      BY MessagesCount
    <3> QED BY <3>1, <2>2, <2>4, <2>5
  <2>6. CASE d # cmd
    <3>1. Count(<<cmd>>, {d}) = 0 /\ Place(d) # Place(cmd)
      <4>1. d \in Commands \ {cmd}
        BY <2>6
      <4>2. Count(<<cmd>>, {d}) = 0
        BY <4>1, MessagesCount
      <4>3. Place(d) # Place(cmd)
        BY <2>6, CommandsDiffer
      <4> QED BY <4>2, <4>3
    <3> QED BY <3>1, <2>2, <2>4
  <2> QED BY <2>5, <2>6
<1>3. CASE \E cmd \in Commands :
              /\ caller = Place(cmd) /\ caller' \notin Places
              /\ Replied(cmd) \/ Timed_out(cmd)
  <2>1. PICK cmd \in Commands :
          /\ caller = Place(cmd) /\ caller' \notin Places
          /\ Replied(cmd) \/ Timed_out(cmd)
    BY <1>3
  <2>2. d # cmd => Number({d}) = 0
    <3>1. d # cmd => Place(d) # Place(cmd)
      BY CommandsDiffer
    <3> QED BY <3>1, <2>1, <1>0
  <2>3. Number({d})' = 0
    <3>1. CASE Replied(cmd)
      <4>1. /\ device # <<>> /\ Head(device) = cmd /\ device' = Tail(device)
            /\ UNCHANGED <<command, buffer, urb>>
        BY <3>1 DEF Replied
      <4>2. Number({d})' = Number({d}) - Count(<<cmd>>, {d})
        BY <4>1, NumberAnswered
      <4>3. /\ d = cmd => Count(<<cmd>>, {d}) = 1
            /\ d # cmd => Count(<<cmd>>, {d}) = 0
        BY MessagesCount
      <4> QED BY <4>2, <4>3, <2>2, <1>0
    <3>2. CASE Timed_out(cmd)
      <4>1. InFlight' = InFlight /\ \A k \in DOMAIN InFlight : InFlight[k] # cmd
        BY <3>2 DEF Timed_out, transfer, InFlight
      <4>2. At(InFlight, {cmd}) = {}
        BY <4>1 DEF At
      <4>3. Number({cmd}) = 0
        BY <4>2, FS_EmptySet DEF Number, Count
      <4>4. Number({d})' = Number({d})
        BY <4>1 DEF Number
      <4> QED BY <4>3, <4>4, <2>2
    <3> QED BY <3>1, <3>2, <2>1
  <2> QED BY <2>1, <2>3, <1>p
<1>4. CASE QueuesKept /\ caller \notin Places /\ caller' \notin Places
  <2>1. Number({d})' = Number({d})
    BY <1>4 DEF QueuesKept, Number, InFlight
  <2> QED BY <2>1, <1>4, <1>0, <1>p
<1> HIDE DEF Fine
<1> QED BY <1>1, <1>2, <1>3, <1>4, Steps, CommandMoves

\* What the steps of a caller do to the count.
LEMMA AccountMoves ==
    ASSUME Of_caller
    PROVE  \/ outstanding_tx' = 0
           \/ /\ caller \in {"ask start", "starting"} /\ UNCHANGED outstanding_tx
           \/ caller' \in Dropping
           \/ /\ \/ caller = "reply" /\ Timed_out(Flush)
                 \/ caller = "stopping" /\ Timed_out(Stop)
              /\ UNCHANGED <<outstanding_tx, failed>>
              /\ caller' \notin {"ask start", "starting"}
           \/ /\ QueuesKept /\ UNCHANGED <<outstanding_tx, failed>>
              /\ caller \notin Dropping /\ caller' \notin {"ask start", "starting"}
<1> USE DEF channel, transfer, bus, histories, Goes, QueuesKept, Dropping
<1>1. CASE leaf_flush_tx_buffer
  <2>1. CASE Clear_count("count", "ask")
            \/ Clear_count("count again", IF going_on THEN "start" ELSE "idle")
    BY <2>1 DEF Clear_count
  <2>2. CASE leaf_queue_cmd(Flush, "ask", "reply") \/ Restart_ids("restart", "clear again")
    BY <2>2 DEF leaf_queue_cmd, Restart_ids
  <2>3. CASE Clear_queue("clear", "count") \/ Clear_queue("clear again", "count again")
    BY <2>3 DEF Clear_queue
  <2> QED BY <2>1, <2>2, <2>3, <1>1 DEF leaf_flush_tx_buffer
<1>2. CASE leaf_bus_on
  BY <1>2 DEF leaf_bus_on, Restart_ids, Clear_count, leaf_queue_cmd
<1>3. CASE leaf_bus_off
  BY <1>3 DEF leaf_bus_off, Clear_queue, Clear_count, leaf_queue_cmd, Restart_ids
<1>4. CASE Flush_replied \/ Stopped
  BY <1>4 DEF Flush_replied, Stopped
<1>5. CASE Started \/ Start_timed_out
  BY <1>5 DEF Started, Start_timed_out, Replied, Timed_out
<1>6. CASE Flush_timed_out \/ Stop_timed_out
  BY <1>6 DEF Flush_timed_out, Stop_timed_out, Timed_out
<1>7. CASE Check_queue \/ Check_count \/ Wake
  BY <1>7 DEF Check_queue, Check_count, Wake
<1>8. CASE Wait_ends("synced") \/ Time_out \/ WAIT_EMPTY
  BY <1>8 DEF Wait_ends, Time_out, WAIT_EMPTY
<1>9. CASE FLUSH_SENDBUFFER \/ BUS_ON \/ BUS_OFF
  BY <1>9 DEF FLUSH_SENDBUFFER, BUS_ON, First_step, BUS_OFF
<1> QED BY <1>1, <1>2, <1>3, <1>4, <1>5, <1>6, <1>7, <1>8, <1>9 DEF Of_caller

\* A command that has timed out was lost by a transfer.
LEMMA TimeoutMeansFailure ==
    ASSUME CommandsAwaited, NEW cmd \in Commands, caller = Place(cmd), Timed_out(cmd)
    PROVE  failed
<1>1. At(InFlight, {cmd}) = {}
  BY DEF Timed_out, At
<1>2. Number({cmd}) = 0
  BY <1>1, FS_EmptySet DEF Number, Count
<1> QED BY <1>2 DEF CommandsAwaited

\* Every step keeps the account of what is counted.
LEMMA AccountedStep ==
    ASSUME TypeOK, TypeOK', Filling, Going_on, CommandsAwaited, Accounted, [Next]_vars
    PROVE  Accounted'
<1>c. /\ outstanding_tx \in Nat /\ Cardinality(Sent) \in Nat /\ Cardinality(Sent') \in Nat
  BY TypeParts, OutstandingAssumption, CountedInFlight, CountedNext DEF Counters
<1>0. /\ ~failed /\ caller \notin Dropping => outstanding_tx <= Cardinality(Sent)
      /\ caller \in {"ask start", "starting"} => outstanding_tx = 0
  BY DEF Accounted
<1>n. Cardinality(Sent) = Number(TransIds) /\ Cardinality(Sent') = Number(TransIds)'
  BY DEF Sent, Number, Count, At
<1>z. ASSUME outstanding_tx' = 0 PROVE Accounted'
  <2>1. outstanding_tx' <= Cardinality(Sent')
    BY <1>z, <1>c
  <2> QED BY <2>1, <1>z DEF Accounted
<1>1. CASE Elsewhere
  <2>0. UNCHANGED <<caller, going_on, isBusOn>>
    BY <1>1, ElsewhereStep
  <2>s. ASSUME caller \in {"ask start", "starting"} PROVE Accounted'
    <3>1. txChanQueue = 0 /\ sender # "pop" /\ ~isBusOn
      BY <2>s DEF Going_on, Flushed
    <3>2. ~Take
      BY <3>1, StaysEmpty
    <3>3. outstanding_tx = 0
      BY <2>s, <1>0
    <3>4. CASE Tx_acknowledge
      BY <3>3, <3>4, <1>z DEF Tx_acknowledge
    <3>5. CASE UNCHANGED outstanding_tx
      BY <3>3, <3>5, <1>z
    <3> QED BY <3>2, <3>4, <3>5, <1>1, ElsewhereStep
  <2>u. ASSUME caller \notin {"ask start", "starting"},
               ~failed' /\ caller \notin Dropping => outstanding_tx' <= Cardinality(Sent')
        PROVE  Accounted'
    BY <2>u, <2>0 DEF Accounted
  <2>1. CASE Take
    <3>1. outstanding_tx' = outstanding_tx + 1 /\ UNCHANGED failed /\ transId \in TransIds
      BY <2>1 DEF Take, TypeOK, histories
    <3>2. Count(<<transId>>, TransIds) = 1
      BY <3>1, MessagesCount
    <3>3. Number(TransIds)' = Number(TransIds) + 1
      BY <3>2, <2>1, NumberTaken
    <3>4. ~failed' /\ caller \notin Dropping => outstanding_tx' <= Cardinality(Sent')
      <4>1. Cardinality(Sent') = Cardinality(Sent) + 1
        BY <3>3, <1>n
      <4>2. ~failed' => ~failed
        BY <3>1
      <4>3. outstanding_tx <= Cardinality(Sent) => outstanding_tx' <= Cardinality(Sent')
        BY <4>1, <3>1, <1>c
      <4> QED BY <4>2, <4>3, <1>0
    <3> QED BY <3>4, <2>s, <2>u
  <2>2. CASE Tx_acknowledge
    <3>1. /\ device # <<>> /\ Head(device) \in TransIds /\ device' = Tail(device)
          /\ UNCHANGED <<command, buffer, urb, failed>>
          /\ outstanding_tx' = IF outstanding_tx > 0 THEN outstanding_tx - 1 ELSE 0
      BY <2>2 DEF Tx_acknowledge
    <3>2. Number(TransIds)' = Number(TransIds) - Count(<<Head(device)>>, TransIds)
      BY <3>1, NumberAnswered
    <3>3. Count(<<Head(device)>>, TransIds) = 1
      BY <3>1, MessagesCount
    <3>4. ~failed' /\ caller \notin Dropping => outstanding_tx' <= Cardinality(Sent')
      <4>1. Cardinality(Sent') = Cardinality(Sent) - 1
        BY <3>2, <3>3, <1>n
      <4>2. ~failed' => ~failed
        BY <3>1
      <4>3. outstanding_tx <= Cardinality(Sent) => outstanding_tx' <= Cardinality(Sent')
        BY <4>1, <3>1, <1>c
      <4> QED BY <4>2, <4>3, <1>0
    <3> QED BY <3>4, <2>s, <2>u
  <2>3. CASE Submit_fails
    <3>1. failed'
      BY <2>3 DEF Submit_fails
    <3> QED BY <3>1, <2>s, <2>u
  <2>4. CASE Received /\ Head(urb) \in Commands
    <3>1. PICK c \in Commands : c = Head(urb)
      BY <2>4
    <3>2. c \in {c} => Number({c})' >= 1 /\ Number({c}) >= 1
      BY <3>1, <2>4, NumberReceived
    <3>3. Number({c}) \in Nat
      BY NumberParts
    <3>4. caller = Place(c)
      BY <3>2, <3>3 DEF CommandsAwaited
    <3>5. caller \in Dropping \cup {"starting"}
      BY <3>4, CommandsDiffer DEF Commands, Dropping
    <3> QED BY <3>5, <2>s, <2>u
  <2>5. CASE InFlight' = InFlight /\ UNCHANGED <<failed, outstanding_tx>>
    <3>1. Number(TransIds)' = Number(TransIds)
      BY <2>5 DEF Number
    <3> QED BY <3>1, <2>5, <2>s, <2>u, <1>0, <1>n
  <2> QED BY <2>1, <2>2, <2>3, <2>4, <2>5, <1>1, ElsewhereMoves, ElsewhereStep
<1>2. CASE Of_caller
  <2>1. CASE caller \in {"ask start", "starting"} /\ UNCHANGED outstanding_tx
    BY <2>1, <1>0, <1>z
  <2>2. CASE caller' \in Dropping
    BY <2>2 DEF Accounted, Dropping
  <2>3. CASE /\ \/ caller = "reply" /\ Timed_out(Flush)
                \/ caller = "stopping" /\ Timed_out(Stop)
             /\ UNCHANGED <<outstanding_tx, failed>>
             /\ caller' \notin {"ask start", "starting"}
    <3>1. failed
      BY <2>3, CommandsDiffer, TimeoutMeansFailure DEF Commands
    <3> QED BY <3>1, <2>3 DEF Accounted
  <2>4. CASE /\ QueuesKept /\ UNCHANGED <<outstanding_tx, failed>>
             /\ caller \notin Dropping /\ caller' \notin {"ask start", "starting"}
    <3>1. Number(TransIds)' = Number(TransIds)
      BY <2>4 DEF QueuesKept, Number, InFlight
    <3> QED BY <3>1, <2>4, <1>0, <1>n DEF Accounted
  <2> QED BY <2>1, <2>2, <2>3, <2>4, <1>2, <1>z, AccountMoves
<1> QED BY <1>1, <1>2, Steps

\* Only the worker's own steps begin or end a pop, and none of them before it
\* changes the buffer.
LEMMA PopMoves ==
    ASSUME [Next]_vars, sender' = "pop"
    PROVE  Take \/ (sender = "pop" /\ UNCHANGED buffer)
<1> USE DEF channel, transfer, bus, histories
<1>1. CASE UNCHANGED vars
  BY <1>1 DEF vars
<1>2. ASSUME NEW w \in Writer, SENDMSG(w) \/ leaf_schedule_send(w)
      PROVE  sender = "pop" /\ UNCHANGED buffer
  BY <1>2 DEF SENDMSG, leaf_schedule_send
<1>3. CASE leaf_send \/ Pop \/ Nothing_filled \/ leaf_transmit \/ Submit_fails
  BY <1>3 DEF leaf_send, Pop, Nothing_filled, leaf_transmit, Submit_fails, Filled
<1>4. CASE Received \/ Tx_acknowledge \/ Flush_replied \/ Started \/ Stopped
  BY <1>4 DEF Received, Tx_acknowledge, Flush_replied, Started, Stopped, Replied
<1>5. ASSUME NEW from, NEW to, NEW cmd,
             \/ Clear_queue(from, to) \/ Clear_count(from, to)
             \/ Restart_ids(from, to) \/ leaf_queue_cmd(cmd, from, to)
      PROVE  sender = "pop" /\ UNCHANGED buffer
  BY <1>5 DEF Clear_queue, Clear_count, Restart_ids, leaf_queue_cmd
<1>6. CASE leaf_flush_tx_buffer \/ leaf_bus_on \/ leaf_bus_off
  BY <1>5, <1>6 DEF leaf_flush_tx_buffer, leaf_bus_on, leaf_bus_off
<1>7. CASE Flush_timed_out \/ Start_timed_out \/ Stop_timed_out
  BY <1>7 DEF Flush_timed_out, Start_timed_out, Stop_timed_out, Timed_out
<1>8. CASE wait_tx_queue_empty \/ Time_out \/ WAIT_EMPTY
  BY <1>8 DEF wait_tx_queue_empty, Check_queue, Check_count, Wake, Wait_ends, Time_out,
              WAIT_EMPTY
<1>9. CASE FLUSH_SENDBUFFER \/ BUS_ON \/ BUS_OFF
  BY <1>9 DEF FLUSH_SENDBUFFER, BUS_ON, BUS_OFF
<1> QED BY <1>1, <1>2, <1>3, <1>4, <1>6, <1>7, <1>8, <1>9
        DEF Next, Worker, Receiver, Caller

\* Every step keeps what the worker is about to pop.
LEMMA HeldStep ==
    ASSUME TypeOK, Held, [Next]_vars
    PROVE  Held'
<1> SUFFICES ASSUME sender' = "pop" PROVE Count(buffer', TransIds) > 0
  BY DEF Held
<1>1. CASE Take
  <2>1. /\ buffer' = buffer \o <<transId>> /\ transId \in TransIds
        /\ buffer \in Seq(Items) /\ <<transId>> \in Seq(Items)
    <3>1. buffer \in Seq(Items) /\ transId \in Items /\ transId \in TransIds
      BY DEF TypeOK, Items
    <3> QED BY <3>1, <1>1, AppendIsConcat DEF Take
  <2>2. Count(buffer', TransIds) = Count(buffer, TransIds) + Count(<<transId>>, TransIds)
    BY <2>1, CountConcat
  <2>3. Count(<<transId>>, TransIds) = 1 /\ Count(buffer, TransIds) \in Nat
    BY <2>1, MessagesCount, CountIsNat
  <2> QED BY <2>2, <2>3
<1>2. CASE sender = "pop" /\ UNCHANGED buffer
  BY <1>2 DEF Held
<1> QED BY <1>1, <1>2, PopMoves

----------------------------------------------------------------------------
(* Who is due to go on.                                                     *)

\* Every step keeps it that a queued message is due to be taken.
LEMMA ServedStep ==
    ASSUME TypeOK, TypeOK', Filling, Going_on, Served, [Next]_vars
    PROVE  Served'
<1> DEFINE Scheduling == \E w \in Writer : pc[w] = "schedule"
           Due == txWork \/ sender # "idle" \/ Scheduling
                  \/ outstanding_tx = max_outstanding_tx
<1> USE DEF channel, transfer, bus, histories, Goes
<1>0. /\ txChanQueue > 0 /\ ~miscounted => Due
      /\ Due' => Served'
      /\ ~(txChanQueue' > 0 /\ ~miscounted') => Served'
  BY DEF Served
<1>k. ASSUME UNCHANGED <<outstanding_tx, pc>>, txWork => txWork',
             sender # "idle" => sender' # "idle"
      PROVE  Due => Due'
  BY <1>k
<1>s. ASSUME txChanQueue' > 0 /\ ~miscounted' => txChanQueue > 0 /\ ~miscounted,
             Due => Due'
      PROVE  Served'
  <2> HIDE DEF Due
  <2> QED BY <1>s, <1>0, Zenon
<1>w. ASSUME UNCHANGED <<txChanQueue, miscounted>>, Due => Due' PROVE Served'
  <2> HIDE DEF Due
  <2> QED BY <1>w, <1>s
<1>u. ASSUME UNCHANGED <<outstanding_tx, pc, txChanQueue, miscounted, txWork, sender>>
      PROVE  Served'
  <2> Due => Due'
    BY <1>u, <1>k
  <2> HIDE DEF Due
  <2> QED BY <1>u, <1>w
<1>q. ASSUME txChanQueue' = 0 PROVE Served'
  <2>1. ~(txChanQueue' > 0)
    BY <1>q
  <2> QED BY <2>1, <1>0
<1>1. CASE UNCHANGED vars
  BY <1>1, <1>u DEF vars
<1>2. ASSUME NEW w \in Writer, SENDMSG(w) PROVE Served'
  <2>1. pc'[w] = "schedule"
    BY <1>2 DEF SENDMSG, TypeOK
  <2> QED BY <2>1, <1>0
<1>3. ASSUME NEW w \in Writer, leaf_schedule_send(w) PROVE Served'
  <2>1. CASE leaf_tx_available
    <3>1. txWork' = (txWork \/ leaf_tx_available)
      BY <1>3 DEF leaf_schedule_send
    <3>2. txWork'
      BY <3>1, <2>1, Zenon
    <3> QED BY <3>2, <1>0
  <2>2. CASE ~leaf_tx_available
    <3>1. outstanding_tx \in 0 .. max_outstanding_tx /\ max_outstanding_tx \in Nat
      BY OutstandingAssumption DEF TypeOK
    <3>2. outstanding_tx = max_outstanding_tx
      BY <3>1, <2>2 DEF leaf_tx_available
    <3>3. UNCHANGED outstanding_tx
      BY <1>3 DEF leaf_schedule_send
    <3> QED BY <3>2, <3>3, <1>0
  <2> QED BY <2>1, <2>2
<1>4. CASE leaf_send
  <2>1. CASE command # <<>> \/ txChanQueue > 0
    <3>1. sender' = "fill"
      BY <1>4, <2>1 DEF leaf_send
    <3> QED BY <3>1, <1>0
  <2>2. CASE ~(txChanQueue > 0)
    <3>1. UNCHANGED txChanQueue
      BY <1>4 DEF leaf_send
    <3> QED BY <3>1, <2>2, <1>0
  <2> QED BY <2>1, <2>2
<1>5. CASE Take \/ Pop
  <2>1. sender' # "idle"
    BY <1>5 DEF Take, Pop
  <2> QED BY <2>1, <1>0
<1>6. CASE Nothing_filled
  <2>1. UNCHANGED <<txChanQueue, outstanding_tx>>
    BY <1>6 DEF Nothing_filled
  <2>2. txChanQueue = 0 \/ ~leaf_tx_available
    BY <1>6 DEF Nothing_filled, Filled
  <2>3. CASE txChanQueue = 0
    BY <2>1, <2>3, <1>q
  <2>4. CASE ~leaf_tx_available
    <3>1. outstanding_tx \in 0 .. max_outstanding_tx /\ max_outstanding_tx \in Nat
      BY OutstandingAssumption DEF TypeOK
    <3>2. outstanding_tx = max_outstanding_tx
      BY <3>1, <2>4 DEF leaf_tx_available
    <3> QED BY <3>2, <2>1, <1>0
  <2> QED BY <2>2, <2>3, <2>4
<1>7. CASE leaf_transmit \/ Submit_fails
  <2>1. txWork'
    BY <1>7 DEF leaf_transmit, Submit_fails
  <2> QED BY <2>1, <1>0
<1>8. CASE Received
  BY <1>8, <1>u DEF Received
<1>9. CASE Tx_acknowledge
  <2>1. /\ UNCHANGED <<txChanQueue, sender, pc>>
        /\ miscounted' = (miscounted /\ (Present > 1 \/ caller # "idle"))
        /\ outstanding_tx' = IF outstanding_tx > 0 THEN outstanding_tx - 1 ELSE 0
        /\ Was_full(IF outstanding_tx > 0 THEN outstanding_tx - 1 ELSE 0) => txWork'
    BY <1>9 DEF Tx_acknowledge
  <2>2. CASE sender # "idle" \/ Scheduling
    <3>1. sender' # "idle" \/ Scheduling'
      BY <2>1, <2>2
    <3> HIDE DEF Scheduling
    <3> QED BY <3>1, <1>0
  <2>3. CASE sender = "idle" /\ miscounted
    <3>1. Cardinality(Sent) \in Nat /\ Cardinality(Sent) - 1 \in Nat /\ Queued = txChanQueue
      BY <1>9, <2>3, AcknowledgedFirst DEF Queued
    <3>2. txChanQueue \in Nat
      BY TypeParts, RoomAssumption DEF Counters
    <3>3. txChanQueue > 0 => Present > 1
      BY <3>1, <3>2 DEF Present
    <3>4. Present > 1 => miscounted'
      BY <2>1, <2>3, Zenon
    <3>5. txChanQueue' > 0 => miscounted'
      BY <2>1, <3>3, <3>4
    <3> QED BY <3>5, <1>0
  <2>4. CASE sender = "idle" /\ ~miscounted /\ ~Scheduling
    <3>1. CASE txWork
      <4>1. txWork'
        BY <3>1, <1>9 DEF Tx_acknowledge
      <4> QED BY <4>1, <1>0
    <3>2. CASE outstanding_tx = max_outstanding_tx
      <4>1. max_outstanding_tx \in Nat /\ max_outstanding_tx > 0
        BY OutstandingAssumption
      <4>2. Was_full(IF outstanding_tx > 0 THEN outstanding_tx - 1 ELSE 0)
        BY <4>1, <3>2 DEF Was_full
      <4>3. txWork'
        BY <4>2, <2>1
      <4> QED BY <4>3, <1>0
    <3>3. CASE ~(txChanQueue > 0)
      BY <3>3, <2>1, <1>0
    <3> QED BY <3>1, <3>2, <3>3, <2>4, <1>0
  <2> HIDE DEF Scheduling
  <2> QED BY <2>2, <2>3, <2>4
<1>10. CASE Flush_replied \/ Stopped
  BY <1>10, <1>u DEF Flush_replied, Stopped, Replied
<1>11. CASE Started
  <2>1. txChanQueue = 0 /\ UNCHANGED txChanQueue
    BY <1>11 DEF Started, Replied, Going_on, Flushed
  <2> QED BY <2>1, <1>q
<1>12. ASSUME NEW from, NEW to, Clear_queue(from, to) PROVE Served'
  BY <1>12, <1>q DEF Clear_queue
<1>13. ASSUME NEW from, NEW to, Clear_count(from, to) PROVE Served'
  <2>1. /\ UNCHANGED <<txChanQueue, sender>>
        /\ miscounted' = (miscounted \/ Present > 0)
    BY <1>13 DEF Clear_count
  <2>2. CASE sender = "pop"
    <3>1. sender' # "idle"
      BY <2>1, <2>2
    <3> QED BY <3>1, <1>0
  <2>3. CASE sender # "pop"
    <3>1. txChanQueue \in Nat /\ Cardinality(Sent) \in Nat
      BY TypeParts, RoomAssumption, CountedInFlight DEF Counters
    <3>2. txChanQueue > 0 => Present > 0
      BY <2>3, <3>1 DEF Present, Queued
    <3>3. Present > 0 => miscounted'
      BY <2>1, Zenon
    <3> QED BY <3>2, <3>3, <2>1, <1>0
  <2> QED BY <2>2, <2>3
<1>14. ASSUME NEW from, NEW to, Restart_ids(from, to) PROVE Served'
  <2>1. UNCHANGED <<outstanding_tx, pc, txChanQueue, txWork, sender>>
    BY <1>14 DEF Restart_ids
  <2>2. miscounted' = (miscounted \/ Sent # {})
    BY <1>14 DEF Restart_ids
  <2>3. ~miscounted' => ~miscounted
    BY <2>2, Zenon
  <2>4. Due => Due'
    BY <2>1, <1>k
  <2> HIDE DEF Due
  <2> QED BY <2>1, <2>3, <2>4, <1>s
<1>15. ASSUME NEW cmd, NEW from, NEW to, leaf_queue_cmd(cmd, from, to) PROVE Served'
  <2>1. txWork'
    BY <1>15 DEF leaf_queue_cmd
  <2> QED BY <2>1, <1>0
<1>16. CASE leaf_flush_tx_buffer \/ leaf_bus_on \/ leaf_bus_off
  BY <1>12, <1>13, <1>14, <1>15, <1>16 DEF leaf_flush_tx_buffer, leaf_bus_on, leaf_bus_off
<1>17. CASE Flush_timed_out \/ Start_timed_out \/ Stop_timed_out
  BY <1>17, <1>u DEF Flush_timed_out, Start_timed_out, Stop_timed_out, Timed_out
<1>18. CASE wait_tx_queue_empty \/ Time_out \/ WAIT_EMPTY
  BY <1>18, <1>u DEF wait_tx_queue_empty, Check_queue, Check_count, Wake, Wait_ends,
                     Time_out, WAIT_EMPTY
<1>19. CASE FLUSH_SENDBUFFER \/ BUS_ON \/ BUS_OFF
  BY <1>19, <1>u DEF FLUSH_SENDBUFFER, BUS_ON, BUS_OFF
<1> HIDE DEF Due, Scheduling
<1> QED BY <1>1, <1>2, <1>3, <1>4, <1>5, <1>6, <1>7, <1>8, <1>9, <1>10, <1>11, <1>16,
           <1>17, <1>18, <1>19 DEF Next, Worker, Receiver, Caller

\* A message that is queued, or on its way, is present: what the worker is about
\* to pop is in its buffer.
LEMMA PresentThere ==
    ASSUME TypeOK, Filling, Held
    PROVE  /\ Present \in Nat
           /\ txChanQueue > 0 \/ Cardinality(Sent) > 0 => Present > 0
<1>1. /\ txChanQueue \in Nat /\ Cardinality(Sent) \in Nat
      /\ Cardinality(Sent) = Number(TransIds)
  BY TypeParts, RoomAssumption, CountedInFlight DEF Counters, Sent, Number, Count, At
<1>2. CASE sender = "pop"
  <2>1. txChanQueue > 0 /\ Count(buffer, TransIds) > 0
    BY <1>2 DEF Filling, Held
  <2>2. Number(TransIds) > 0
    BY <2>1, NumberParts
  <2>3. Queued \in Nat
    BY <2>1, <1>1, <1>2 DEF Queued
  <2> QED BY <2>2, <2>3, <1>1 DEF Present
<1>3. CASE sender # "pop"
  <2>1. Queued = txChanQueue
    BY <1>3 DEF Queued
  <2> QED BY <2>1, <1>1 DEF Present
<1> QED BY <1>2, <1>3

\* The same in the next state.
LEMMA PresentThereNext ==
    (TypeOK /\ Filling /\ Held =>
        /\ Present \in Nat
        /\ txChanQueue > 0 \/ Cardinality(Sent) > 0 => Present > 0)'
<1>1. TypeOK /\ Filling /\ Held =>
        /\ Present \in Nat
        /\ txChanQueue > 0 \/ Cardinality(Sent) > 0 => Present > 0
  BY PresentThere
<1> QED BY <1>1, PTL

\* The steps that lead to or through the wait of canWriteSync.
LEMMA WaitMoves ==
    ASSUME Of_caller, caller' \in Waits
    PROVE  WAIT_EMPTY \/ Check_queue \/ Check_count \/ Wake
<1> USE DEF Goes, Waits
<1>1. ~leaf_flush_tx_buffer
  <2>1. ~Clear_count("count again", IF going_on THEN "start" ELSE "idle")
    BY DEF Clear_count
  <2> QED BY <2>1 DEF leaf_flush_tx_buffer, Clear_queue, Clear_count, leaf_queue_cmd,
                      Restart_ids
<1>2. ~(leaf_bus_on \/ leaf_bus_off)
  BY DEF leaf_bus_on, leaf_bus_off, Clear_queue, Clear_count, leaf_queue_cmd, Restart_ids
<1>3. ~(Flush_replied \/ Started \/ Stopped)
  BY DEF Flush_replied, Started, Stopped
<1>4. ~(Flush_timed_out \/ Start_timed_out \/ Stop_timed_out)
  BY DEF Flush_timed_out, Start_timed_out, Stop_timed_out
<1>5. ~(FLUSH_SENDBUFFER \/ BUS_ON \/ BUS_OFF \/ Wait_ends("synced") \/ Time_out)
  BY DEF FLUSH_SENDBUFFER, BUS_ON, First_step, BUS_OFF, Wait_ends, Time_out
<1> QED BY <1>1, <1>2, <1>3, <1>4, <1>5 DEF Of_caller

\* What of the wait the steps elsewhere leave alone, but for an acknowledgement.
LEMMA ElsewhereWaits ==
    ASSUME TypeOK, Filling, Elsewhere, ~Tx_acknowledge, caller \in Waits
    PROVE  \/ overtaken'
           \/ /\ UNCHANGED <<overtaken, waitEmpty, woken>>
              /\ AllSent => AllSent'
<1> USE DEF channel, transfer, bus, histories, AllSent
<1>0. txChanQueue \in Nat
  BY TypeParts, RoomAssumption DEF Counters
<1>1. CASE UNCHANGED vars
  BY <1>1 DEF vars
<1>2. ASSUME NEW w \in Writer, SENDMSG(w) PROVE overtaken'
  <2>1. caller # "idle" /\ overtaken' = (caller # "idle")
    BY <1>2 DEF SENDMSG, Waits
  <2> QED BY <2>1
<1>3. ASSUME NEW w \in Writer, leaf_schedule_send(w)
      PROVE  UNCHANGED <<overtaken, waitEmpty, woken>> /\ (AllSent => AllSent')
  BY <1>3 DEF leaf_schedule_send
<1>4. CASE leaf_send \/ Nothing_filled \/ leaf_transmit \/ Submit_fails \/ Received
  BY <1>4 DEF leaf_send, Nothing_filled, leaf_transmit, Submit_fails, Received
<1>5. CASE Take
  <2>1. ~AllSent /\ UNCHANGED <<overtaken, waitEmpty, woken>>
    BY <1>0, <1>5 DEF Take
  <2> QED BY <2>1
<1>6. CASE Pop
  <2>1. ~AllSent /\ UNCHANGED <<overtaken, waitEmpty, woken>>
    BY <1>0, <1>6 DEF Pop, Filling
  <2> QED BY <2>1
<1> HIDE DEF AllSent
<1> QED BY <1>1, <1>2, <1>3, <1>4, <1>5, <1>6 DEF Elsewhere, Worker

\* What an acknowledgement does to the wait.
LEMMA AcknowledgeWaits ==
    ASSUME TypeOK, Tx_acknowledge, caller \in Waits
    PROVE  /\ UNCHANGED <<overtaken, caller, txChanQueue>>
           /\ \/ waitEmpty /\ AllSent' /\ woken'
              \/ /\ UNCHANGED <<waitEmpty, woken>>
                 /\ AllSent => AllSent'
                 /\ waitEmpty => ~AllSent'
<1> DEFINE left == IF outstanding_tx > 0 THEN outstanding_tx - 1 ELSE 0
<1>1. /\ UNCHANGED <<overtaken, caller, txChanQueue>> /\ outstanding_tx' = left
      /\ IF Was_full(left)
         THEN txWork' = TRUE /\ UNCHANGED <<waitEmpty, woken>>
         ELSE /\ UNCHANGED txWork
              /\ IF left = 0 /\ txChanQueue = 0 /\ waitEmpty
                 THEN Wake_waiter
                 ELSE UNCHANGED <<waitEmpty, woken>>
  BY DEF Tx_acknowledge
<1>2. outstanding_tx \in Nat
  BY TypeParts, OutstandingAssumption DEF Counters
<1>3. left = 0 => ~Was_full(left)
  BY <1>2, OutstandingAssumption DEF Was_full
<1>4. AllSent => left = 0 /\ AllSent'
  BY <1>1, <1>2 DEF AllSent
<1>5. AllSent' <=> left = 0 /\ txChanQueue = 0
  BY <1>1 DEF AllSent
<1> HIDE DEF left
<1>6. CASE left = 0 /\ txChanQueue = 0 /\ waitEmpty
  <2>1. Wake_waiter
    BY <1>1, <1>3, <1>6
  <2>2. woken' = (caller = "check queue" \/ caller = "check count" \/ caller = "asleep")
    BY <2>1 DEF Wake_waiter
  <2>3. caller = "check queue" \/ caller = "check count" \/ caller = "asleep"
    BY DEF Waits
  <2>4. woken'
    BY <2>2, <2>3, Zenon
  <2> QED BY <2>4, <1>1, <1>5, <1>6
<1>7. CASE ~(left = 0 /\ txChanQueue = 0 /\ waitEmpty)
  <2>1. UNCHANGED <<waitEmpty, woken>>
    BY <1>1, <1>7
  <2>2. waitEmpty => ~AllSent'
    BY <1>5, <1>7
  <2> QED BY <2>1, <2>2, <1>1, <1>4
<1> QED BY <1>6, <1>7

\* Every step keeps the part of the wait.
LEMMA WaitingStep ==
    ASSUME TypeOK, TypeOK', Filling, Filling', Held, Held', CommandsAwaited,
           Accounted, Accounted', Waiting, [Next]_vars
    PROVE  Waiting'
<1> SUFFICES ASSUME ~overtaken', caller' \in Waits
             PROVE  /\ waitEmpty' \/ (AllSent' /\ (caller' = "asleep" => woken'))
                    /\ caller' = "asleep" /\ ~woken' /\ ~failed' => Present' > 0
  BY DEF Waiting, Waits
<1>0. /\ Present' \in Nat
      /\ txChanQueue' > 0 \/ Cardinality(Sent') > 0 => Present' > 0
  BY PresentThereNext
<1>c. /\ Cardinality(Sent) \in Nat /\ Cardinality(Sent') \in Nat
      /\ outstanding_tx \in Nat /\ outstanding_tx' \in Nat
      /\ txChanQueue \in Nat /\ txChanQueue' \in Nat
  <2>1. outstanding_tx' \in Nat /\ txChanQueue' \in Nat
    <3>1. outstanding_tx' \in 0 .. max_outstanding_tx /\ txChanQueue' \in 0 .. QueueRoom
      BY DEF TypeOK
    <3> QED BY <3>1, OutstandingAssumption, RoomAssumption
  <2>2. outstanding_tx \in Nat /\ txChanQueue \in Nat
    BY TypeParts, OutstandingAssumption, RoomAssumption DEF Counters
  <2> QED BY <2>1, <2>2, CountedInFlight, CountedNext
<1>a. caller \in Waits /\ ~overtaken =>
         /\ waitEmpty \/ (AllSent /\ (caller = "asleep" => woken))
         /\ caller = "asleep" /\ ~woken /\ ~failed => Present > 0
  BY DEF Waiting
<1>d. Waits \cap Dropping = {} /\ "asleep" \in Waits
  BY DEF Waits, Dropping
<1>1. CASE Elsewhere
  <2>0. UNCHANGED caller
    BY <1>1, ElsewhereStep
  <2>1. CASE Tx_acknowledge
    <3>1. /\ UNCHANGED <<overtaken, txChanQueue>>
          /\ \/ waitEmpty /\ AllSent' /\ woken'
             \/ /\ UNCHANGED <<waitEmpty, woken>>
                /\ AllSent => AllSent'
                /\ waitEmpty => ~AllSent'
      BY <2>0, <2>1, AcknowledgeWaits
    <3>2. waitEmpty' \/ (AllSent' /\ (caller' = "asleep" => woken'))
      BY <3>1, <2>0, <1>a
    <3>3. ASSUME caller' = "asleep", ~woken', ~failed' PROVE Present' > 0
      <4>1. ~AllSent'
        BY <3>1, <3>3, <2>0, <1>a
      <4>2. outstanding_tx' <= Cardinality(Sent')
        BY <3>3, <1>d DEF Accounted
      <4>3. txChanQueue' > 0 \/ Cardinality(Sent') > 0
        BY <4>1, <4>2, <1>c DEF AllSent
      <4> QED BY <4>3, <1>0
    <3> QED BY <3>2, <3>3
  <2>2. CASE ~Tx_acknowledge
    <3>1. /\ UNCHANGED <<overtaken, waitEmpty, woken>>
          /\ AllSent => AllSent'
      BY <2>0, <2>2, <1>1, ElsewhereWaits
    <3>2. waitEmpty' \/ (AllSent' /\ (caller' = "asleep" => woken'))
      BY <3>1, <2>0, <1>a
    <3>3. ASSUME caller' = "asleep", ~woken', ~failed' PROVE Present' > 0
      <4>1. CASE Take
        <5>1. txChanQueue' > 0
          BY <4>1 DEF Take
        <5> QED BY <5>1, <1>0
      <4>2. ~Submit_fails
        BY <3>3 DEF Submit_fails
      <4>3. ASSUME Received, Head(urb) \in Commands PROVE FALSE
        <5>1. PICK c \in Commands : c = Head(urb)
          BY <4>3
        <5>2. c \in {c} => Number({c})' >= 1 /\ Number({c}) >= 1
          BY <5>1, <4>3, NumberReceived
        <5>3. Number({c}) \in Nat
          BY NumberParts
        <5>4. caller = Place(c)
          BY <5>2, <5>3 DEF CommandsAwaited
        <5>5. caller \in {"reply", "starting", "stopping"}
          BY <5>4, CommandsDiffer DEF Commands
        <5> QED BY <5>5, <3>3, <2>0
      <4>4. CASE ~Take
        <5>1. InFlight' = InFlight /\ UNCHANGED failed
          BY <4>2, <4>3, <4>4, <2>2, <1>1, ElsewhereMoves
        <5>2. Queued' = Queued \/ Queued' = Queued + 1
          BY <4>4, <2>2, <1>1, ElsewhereStep
        <5>3. Sent' = Sent
          BY <5>1 DEF Sent
        <5>4. Present > 0
          BY <3>1, <3>3, <5>1, <2>0, <1>a
        <5>5. Queued \in Nat
          BY QueuedStep
        <5> QED BY <5>2, <5>3, <5>4, <5>5, <1>c DEF Present
      <4> QED BY <4>1, <4>4
    <3> QED BY <3>2, <3>3
  <2> QED BY <2>1, <2>2
<1>2. CASE Of_caller
  <2> USE DEF Goes, channel, transfer, bus, histories
  <2>1. CASE WAIT_EMPTY
    <3>1. waitEmpty' = TRUE /\ caller' = "check queue"
      BY <2>1 DEF WAIT_EMPTY
    <3> QED BY <3>1
  <2>2. CASE Check_queue
    <3>1. /\ caller = "check queue" /\ UNCHANGED <<waitEmpty, overtaken, txChanQueue,
                                                   outstanding_tx, woken>>
          /\ \/ txChanQueue = 0 /\ caller' = "check count"
             \/ txChanQueue # 0 /\ caller' = "asleep"
      BY <2>2 DEF Check_queue
    <3>2. waitEmpty \/ AllSent
      BY <3>1, <1>a DEF Waits
    <3>3. CASE txChanQueue = 0 /\ caller' = "check count"
      BY <3>1, <3>2, <3>3 DEF AllSent
    <3>4. CASE txChanQueue # 0 /\ caller' = "asleep"
      <4>1. waitEmpty'
        BY <3>1, <3>2, <3>4 DEF AllSent
      <4>2. txChanQueue' > 0
        <5>1. txChanQueue' # 0
          BY <3>1, <3>4
        <5> QED BY <5>1, <1>c
      <4> QED BY <4>1, <4>2, <1>0
    <3> QED BY <3>1, <3>3, <3>4
  <2>3. CASE Check_count
    <3>1. /\ caller = "check count" /\ UNCHANGED <<waitEmpty, overtaken, outstanding_tx>>
          /\ \/ outstanding_tx = 0 /\ caller' = "synced"
             \/ outstanding_tx # 0 /\ caller' = "asleep"
      BY <2>3 DEF Check_count, leaf_outstanding_sync
    <3>2. waitEmpty \/ AllSent
      BY <3>1, <1>a DEF Waits
    <3>3. outstanding_tx # 0 /\ caller' = "asleep"
      BY <3>1 DEF Waits
    <3>4. waitEmpty'
      BY <3>1, <3>2, <3>3 DEF AllSent
    <3>5. ~failed' => outstanding_tx' <= Cardinality(Sent')
      BY <3>3, <1>d DEF Accounted
    <3>6. ~failed' => Cardinality(Sent') > 0
      <4>1. outstanding_tx' # 0
        BY <3>1, <3>3
      <4>2. outstanding_tx' <= Cardinality(Sent') => Cardinality(Sent') > 0
        BY <4>1, <1>c
      <4> QED BY <4>2, <3>5
    <3> QED BY <3>4, <3>6, <1>0
  <2>4. CASE Wake
    <3>1. /\ caller = "asleep" /\ caller' = "check queue"
          /\ UNCHANGED <<waitEmpty, overtaken, txChanQueue, outstanding_tx>>
      BY <2>4 DEF Wake
    <3>2. waitEmpty \/ AllSent
      BY <3>1, <1>a, <1>d
    <3> QED BY <3>1, <3>2 DEF AllSent
  <2> QED BY <2>1, <2>2, <2>3, <2>4, <1>2, WaitMoves
<1> QED BY <1>1, <1>2, Steps

----------------------------------------------------------------------------
(* What holds.                                                              *)

\* Initially nothing is on its way.
LEMMA InitInvariant == Init => IInv
<1> SUFFICES ASSUME Init PROVE IInv
  OBVIOUS
<1>1. /\ InFlight = <<>> /\ <<>> \in Seq(Items) /\ <<>> \in Seq(Commands)
      /\ DOMAIN <<>> = {} /\ Sent = {} /\ Flushes = {} /\ Queued = 0
      /\ Cardinality({}) = 0
  BY FS_EmptySet, EmptySeq, ConcatEmptySeq DEF Init, InFlight, Sent, Flushes, Queued
<1>2. TypeOK
  <2>1. Counters
    BY RoomAssumption, OutstandingAssumption, BoundAssumption
       DEF Init, Counters, TransIds
  <2>2. Queues
    BY <1>1 DEF Init, Queues
  <2>3. Controls
    BY DEF Init, Controls, Callers
  <2> QED BY <2>1, <2>2, <2>3, TypeParts
<1>3. Bounded /\ Filling /\ Counting /\ Numbering
  BY <1>1, BoundAssumption
     DEF Init, Bounded, Present, Filling, Counting, Numbering
<1>4. OneFlush /\ Going_on /\ Awaiting
  BY <1>1 DEF Init, OneFlush, Going_on, Flushed, Awaiting
<1>5. \A V : Number(V) = 0
  BY <1>1, CountOne DEF Number
<1>6. CommandsAwaited
  <2>1. \A cmd \in Commands : Place(cmd) # "idle"
    BY CommandsDiffer DEF Commands
  <2> QED BY <2>1, <1>5 DEF Init, CommandsAwaited
<1>7. Accounted /\ Held /\ Served /\ Waiting
  BY <1>1 DEF Init, Accounted, Held, Served, Waiting, Waits
<1> QED BY <1>2, <1>3, <1>4, <1>6, <1>7 DEF IInv

\* Every step keeps the invariant.
LEMMA InvariantStep == IInv /\ [Next]_vars => IInv'
<1> SUFFICES ASSUME IInv, [Next]_vars PROVE IInv'
  OBVIOUS
<1>1. /\ TypeOK /\ Bounded /\ Filling /\ Counting /\ Numbering
      /\ OneFlush /\ Going_on /\ Awaiting
      /\ CommandsAwaited /\ Accounted /\ Held /\ Served /\ Waiting
  BY DEF IInv
<1>2. TypeOK'
  BY <1>1, TypeStep
<1>3. Bounded' /\ Filling'
  BY <1>1, <1>2, BoundedStep, FillingStep
<1>4. Counting' /\ Numbering'
  BY <1>1, <1>2, NumbersStep
<1>5. OneFlush' /\ Going_on'
  BY <1>1, <1>2, OneFlushStep, Going_onStep
<1>6. Awaiting'
  BY <1>1, <1>2, AwaitingStep
<1>7. CommandsAwaited' /\ Accounted'
  BY <1>1, <1>2, CommandsStep, AccountedStep
<1>8. Held' /\ Served'
  BY <1>1, <1>2, HeldStep, ServedStep
<1>9. Waiting'
  BY <1>1, <1>2, <1>3, <1>7, <1>8, WaitingStep
<1> QED BY <1>2, <1>3, <1>4, <1>5, <1>6, <1>7, <1>8, <1>9 DEF IInv

\* The invariant holds always.
LEMMA Invariance == Spec => []IInv
BY InitInvariant, InvariantStep, PTL DEF Spec

\* Every variable has its type: no counter runs over, whatever is lost or
\* flushed while the worker and the receive thread count.
THEOREM TypeCorrect == Spec => []TypeOK
<1>1. IInv => TypeOK
  BY DEF IInv
<1> QED BY <1>1, Invariance, PTL

\* No two messages on their way have the same number, so that an acknowledgement
\* echoes the message it is for (leaf_handle_command, CMD_TX_ACKNOWLEDGE).
THEOREM EchoesAreOwn == Spec => []EchoIsOwn
<1>1. ASSUME IInv, ~miscounted, NEW j \in Sent, NEW k \in Sent,
             InFlight[j] = InFlight[k]
      PROVE  j = k
  <2>1. TypeOK /\ Numbering
    BY <1>1 DEF IInv
  <2>2. j \in Nat /\ k \in Nat
    <3>1. Sent \subseteq 1 .. Len(InFlight) /\ InFlight \in Seq(Items)
      BY <2>1, CountedInFlight
    <3> QED BY <3>1, LenProperties
  <2>3. Dist(InFlight[j]) = Dist(InFlight[k]) /\ Dist(InFlight[j]) \in Int
    <3>1. InFlight[j] \in TransIds /\ transId \in TransIds
      BY <2>1, TypeParts DEF Sent, Counters
    <3>2. Behind(transId, InFlight[j]) \in 1 .. max_outstanding_tx
      BY <3>1, BehindNext
    <3> QED BY <3>2, <1>1, OutstandingAssumption DEF Dist
  <2>4. ~(j < k) /\ ~(k < j)
    BY <2>1, <2>3, <1>1 DEF Numbering
  <2> QED BY <2>2, <2>4
<1>2. IInv => EchoIsOwn
  BY <1>1 DEF EchoIsOwn
<1> QED BY <1>2, Invariance, PTL

\* canWriteSync returns when what was written before it has been acknowledged
\* (wait_tx_queue_empty), though it looks at the queue and at the count one after
\* the other while messages move from the one to the other.
THEOREM SyncIsSent == Spec => []SyncMeansSent
<1>1. IInv => SyncMeansSent
  BY DEF IInv, Awaiting, SyncMeansSent
<1> QED BY <1>1, Invariance, PTL

\* The device is full only while messages are on their way, or a step is due that
\* sets the count back.
LEMMA QueueServed == IInv => QueueIsServed
<1> SUFFICES ASSUME IInv, txChanQueue > 0, ~miscounted,
                    outstanding_tx = max_outstanding_tx, ~failed, ~Starts_over
             PROVE  Sent # {}
  BY DEF IInv, Served, QueueIsServed
<1>1. Cardinality(Sent) \in Nat
  BY CountedInFlight DEF IInv
<1>2. caller \notin Dropping
  BY DEF Starts_over, Dropping
<1>3. outstanding_tx <= Cardinality(Sent)
  BY <1>2 DEF IInv, Accounted
<1>4. Cardinality(Sent) # 0
  BY <1>1, <1>3, OutstandingAssumption
<1> QED BY <1>4, FS_EmptySet

\* Who sleeps was woken, or waits for a message that is there.
LEMMA SleeperServed == IInv => SleeperIsServed
<1> SUFFICES ASSUME IInv, caller = "asleep", ~overtaken, ~failed, ~woken
             PROVE  waitEmpty /\ Present > 0
  BY DEF SleeperIsServed
<1> QED BY DEF IInv, Waiting, Waits

\* No wakeup is lost between the writers, the worker, the receive thread and the
\* caller: while a message is queued the worker is due (leaf_schedule_send,
\* leaf_send) or an acknowledgement that starts it, and while canWriteSync sleeps
\* the acknowledgement that wakes it (CMD_TX_ACKNOWLEDGE, wait_tx_queue_empty).
THEOREM NobodyForgotten == Spec => []NobodyIsForgotten
<1>1. IInv => NobodyIsForgotten
  BY QueueServed, SleeperServed DEF NobodyIsForgotten
<1> QED BY <1>1, Invariance, PTL
=============================================================================
