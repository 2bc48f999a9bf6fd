--------------------------- MODULE Kvlclib_proofs ---------------------------
(* Proofs about the parts of kvlclib: about Converter and its queue, for     *)
(* every size of the buffer, of the elements and of the input, and about     *)
(* BQueue, the queue of the writers, for every size of its blocks.  Both     *)
(* queues rest on what FlattenSeq makes of blocks.                           *)
EXTENDS Converter, SequenceTheorems, FiniteSetTheorems, WellFoundedInduction,
        TLAPS

----------------------------------------------------------------------------
(* Sets of numbers: the least-number principle of the library, with a set   *)
(* in the place of a predicate.                                             *)

Below == {p \in Nat \X Nat : p[1] < p[2]}

\* A set of natural numbers that is not empty has a least element.
LEMMA LeastElement ==
    ASSUME NEW T, T \subseteq Nat, T # {}
    PROVE  \E m \in T : \A k \in T : m <= k
<1>1. /\ IsWellFoundedOn(Below, Nat)
      /\ \A x, y \in Nat : y < x => <<y, x>> \in Below
  BY NatLessThanWellFounded DEF OpToRel, Below
<1>2. \E x \in T : \A y \in T : ~ (<<y, x>> \in Below)
  BY <1>1, WFMin, Zenon
<1>3. PICK m \in T : \A y \in T : ~ (<<y, m>> \in Below)
  BY <1>2
<1>4. ASSUME NEW k \in T PROVE m <= k
  <2>1. m \in Nat /\ k \in Nat
    OBVIOUS
  <2>2. ~(k < m)
    BY <1>1, <1>3, <2>1
  <2> QED BY <2>1, <2>2
<1> QED BY <1>4

\* A set that holds 1 and with a number the next one up to n holds 1 to n.
LEMMA UpTo ==
    ASSUME NEW n \in Nat, NEW S, n > 0 => 1 \in S,
           \A i \in 1 .. n : i \in S /\ i < n => i + 1 \in S
    PROVE  \A i \in 1 .. n : i \in S
<1> DEFINE T == {i \in 1 .. n : i \notin S}
<1> SUFFICES ASSUME T # {} PROVE FALSE
  OBVIOUS
<1>0. T \subseteq Nat
  OBVIOUS
<1> HIDE DEF T
<1>1. PICK m \in T : \A k \in T : m <= k
  BY <1>0, LeastElement
<1>2. m \in 1 .. n /\ m \notin S
  BY DEF T
<1>3. CASE m = 1
  BY <1>2, <1>3
<1>4. CASE m > 1
  <2>1. m - 1 \in 1 .. n /\ m - 1 < n /\ (m - 1) + 1 = m /\ ~(m <= m - 1)
    BY <1>2, <1>4
  <2>2. m - 1 \in S
    BY <2>1, <1>1 DEF T
  <2> QED BY <1>2, <2>1, <2>2
<1> QED BY <1>2, <1>3, <1>4

----------------------------------------------------------------------------
(* What FlattenSeq makes of a sequence of blocks.                           *)

\* The concatenations of the first blocks, which FlattenSeq chooses.
Flat(s) ==
    CHOOSE f : f = [i \in 1 .. Len(s) |-> IF i = 1 THEN s[i] ELSE f[i - 1] \o s[i]]

\* FlattenSeq in these terms.
LEMMA FlattenIsFlat ==
    ASSUME NEW s
    PROVE  FlattenSeq(s) = IF Len(s) = 0 THEN s ELSE Flat(s)[Len(s)]
  BY DEF FlattenSeq, Flat

\* The lengths of s that have them.
Has_flats(S, s) ==
    {n \in 1 .. Len(s) :
        \E g \in [1 .. n -> Seq(S)] :
            /\ g[1] = s[1]
            /\ \A i \in 2 .. n : g[i] = g[i - 1] \o s[i]}

\* Every length has them.
LEMMA FlatsExist ==
    ASSUME NEW S, NEW s \in Seq(Seq(S)), Len(s) > 0
    PROVE  \E g \in [1 .. Len(s) -> Seq(S)] :
               /\ g[1] = s[1]
               /\ \A i \in 2 .. Len(s) : g[i] = g[i - 1] \o s[i]
<1>0. Len(s) \in Nat /\ \A i \in 1 .. Len(s) : s[i] \in Seq(S)
  BY LenProperties, ElementOfSeq
<1>1. 1 \in Has_flats(S, s)
  <2> DEFINE g == [i \in 1 .. 1 |-> s[i]]
  <2>1. /\ g \in [1 .. 1 -> Seq(S)] /\ g[1] = s[1]
        /\ \A i \in 2 .. 1 : g[i] = g[i - 1] \o s[i]
    BY <1>0
  <2>2. 1 \in 1 .. Len(s)
    BY <1>0
  <2> HIDE DEF g
  <2> QED BY <2>1, <2>2 DEF Has_flats
<1>2. ASSUME NEW n \in 1 .. Len(s), n \in Has_flats(S, s), n < Len(s)
      PROVE  n + 1 \in Has_flats(S, s)
  <2>1. PICK g \in [1 .. n -> Seq(S)] :
            /\ g[1] = s[1]
            /\ \A i \in 2 .. n : g[i] = g[i - 1] \o s[i]
    BY <1>2 DEF Has_flats
  <2>0. n \in Nat /\ n >= 1 /\ n + 1 \in 1 .. Len(s)
    BY <1>0, <1>2
  <2> DEFINE b == g[n] \o s[n + 1]
             h == [i \in 1 .. n + 1 |-> IF i = n + 1 THEN b ELSE g[i]]
  <2>2. b \in Seq(S)
    <3>1. g[n] \in Seq(S) /\ s[n + 1] \in Seq(S)
      BY <1>0, <2>0
    <3> QED BY <3>1, ConcatProperties
  <2> HIDE DEF b
  <2>3. h \in [1 .. n + 1 -> Seq(S)]
    BY <2>2, <2>0
  <2>4. h[n + 1] = b /\ \A i \in 1 .. n : h[i] = g[i]
    BY <2>0
  <2> HIDE DEF h
  <2>5. h[1] = s[1]
    BY <2>0, <2>1, <2>4
  <2>6. ASSUME NEW i \in 2 .. n + 1
        PROVE  h[i] = h[i - 1] \o s[i]
    <3>1. CASE i = n + 1
      <4>1. i - 1 = n /\ n \in 1 .. n
        BY <3>1, <2>0
      <4> QED BY <3>1, <4>1, <2>4 DEF b
    <3>2. CASE i # n + 1
      <4>1. i \in 2 .. n /\ i \in 1 .. n /\ i - 1 \in 1 .. n
        BY <3>2, <2>0
      <4> QED BY <4>1, <2>1, <2>4
    <3> QED BY <3>1, <3>2
  <2> QED BY <2>0, <2>3, <2>5, <2>6 DEF Has_flats
<1>3. Len(s) \in 1 .. Len(s)
  BY <1>0
<1>4. Len(s) \in Has_flats(S, s)
  BY <1>0, <1>1, <1>2, <1>3, UpTo
<1> QED BY <1>4 DEF Has_flats

\* What they are.
LEMMA FlatProperties ==
    ASSUME NEW S, NEW s \in Seq(Seq(S)), Len(s) > 0
    PROVE  /\ \A i \in 1 .. Len(s) : Flat(s)[i] \in Seq(S)
           /\ Flat(s)[1] = s[1]
           /\ \A i \in 1 .. Len(s) : i < Len(s) =>
                  Flat(s)[i + 1] = Flat(s)[i] \o s[i + 1]
<1>0. Len(s) \in Nat /\ \A i \in 1 .. Len(s) : s[i] \in Seq(S)
  BY LenProperties, ElementOfSeq
<1>1. PICK g \in [1 .. Len(s) -> Seq(S)] :
          /\ g[1] = s[1]
          /\ \A i \in 2 .. Len(s) : g[i] = g[i - 1] \o s[i]
  BY FlatsExist
<1>2. g = [i \in 1 .. Len(s) |-> IF i = 1 THEN s[i] ELSE g[i - 1] \o s[i]]
  <2>1. ASSUME NEW i \in 1 .. Len(s)
        PROVE  g[i] = IF i = 1 THEN s[i] ELSE g[i - 1] \o s[i]
    <3>1. CASE i = 1
      BY <3>1, <1>1
    <3>2. CASE i # 1
      <4>1. i \in 2 .. Len(s)
        BY <3>2, <1>0
      <4> QED BY <4>1, <3>2, <1>1
    <3> QED BY <3>1, <3>2
  <2> QED BY <2>1
<1> DEFINE f == Flat(s)
<1>3. f = [i \in 1 .. Len(s) |-> IF i = 1 THEN s[i] ELSE f[i - 1] \o s[i]]
  BY <1>2 DEF Flat
<1> HIDE DEF f
<1>4. \A i \in 1 .. Len(s) : f[i] = IF i = 1 THEN s[i] ELSE f[i - 1] \o s[i]
  BY <1>3
<1>5. ASSUME NEW i \in 1 .. Len(s), i < Len(s)
      PROVE  f[i + 1] = f[i] \o s[i + 1]
  <2>1. i + 1 \in 1 .. Len(s) /\ i + 1 # 1 /\ (i + 1) - 1 = i
    BY <1>0, <1>5
  <2>2. f[i + 1] = f[(i + 1) - 1] \o s[i + 1]
    BY <1>4, <2>1
  <2> QED BY <2>1, <2>2
<1> DEFINE G == {i \in 1 .. Len(s) : f[i] \in Seq(S)}
<1>6. 1 \in G /\ f[1] = s[1]
  <2>1. 1 \in 1 .. Len(s)
    BY <1>0
  <2> QED BY <2>1, <1>0, <1>4
<1>7. ASSUME NEW i \in 1 .. Len(s), i \in G, i < Len(s)
      PROVE  i + 1 \in G
  <2>1. i + 1 \in 1 .. Len(s)
    BY <1>0, <1>7
  <2>2. f[i] \in Seq(S) /\ s[i + 1] \in Seq(S)
    BY <1>0, <2>1, <1>7
  <2>3. f[i] \o s[i + 1] \in Seq(S)
    BY <2>2, ConcatProperties
  <2> QED BY <2>1, <2>3, <1>5, <1>7
<1>8. \A i \in 1 .. Len(s) : i \in G
  <2> HIDE DEF G
  <2> QED BY <1>0, <1>6, <1>7, UpTo
<1>9. \A i \in 1 .. Len(s) : f[i] \in Seq(S)
  BY <1>8
<1> QED BY <1>5, <1>6, <1>9 DEF f

\* No block, and one block.
LEMMA FlattenFew ==
    ASSUME NEW S
    PROVE  /\ FlattenSeq(<<>>) = <<>>
           /\ \A b \in Seq(S) : FlattenSeq(<<b>>) = b
<1>1. FlattenSeq(<<>>) = <<>>
  <2>1. Len(<<>>) = 0
    OBVIOUS
  <2> QED BY <2>1, FlattenIsFlat, Zenon
<1>2. ASSUME NEW b \in Seq(S) PROVE FlattenSeq(<<b>>) = b
  <2> DEFINE s == <<b>>
  <2>1. s \in Seq(Seq(S)) /\ Len(s) = 1 /\ s[1] = b /\ 1 > 0
    OBVIOUS
  <2> HIDE DEF s
  <2>2. Flat(s)[1] = s[1]
    BY <2>1, FlatProperties
  <2>3. Len(s) # 0
    BY <2>1
  <2>4. FlattenSeq(s) = Flat(s)[Len(s)]
    BY <2>3, FlattenIsFlat, Zenon
  <2> QED BY <2>1, <2>2, <2>4 DEF s
<1> QED BY <1>1, <1>2

\* It is a sequence of the elements.
LEMMA FlattenType ==
    ASSUME NEW S, NEW s \in Seq(Seq(S))
    PROVE  FlattenSeq(s) \in Seq(S)
<1>0. Len(s) \in Nat
  BY LenProperties
<1>1. CASE Len(s) = 0
  <2>1. s = <<>>
    BY <1>1, EmptySeq, Len(s) \notin Nat \ {0}
  <2>2. FlattenSeq(s) = <<>>
    BY <2>1, FlattenFew
  <2> QED BY <2>2
<1>2. CASE Len(s) > 0
  <2>1. Len(s) \in 1 .. Len(s) /\ Len(s) # 0
    BY <1>0, <1>2
  <2>2. Flat(s)[Len(s)] \in Seq(S)
    BY <1>2, <2>1, FlatProperties
  <2>3. FlattenSeq(s) = Flat(s)[Len(s)]
    BY <2>1, FlattenIsFlat
  <2> QED BY <2>2, <2>3
<1> QED BY <1>0, <1>1, <1>2

\* A block at the end.
LEMMA FlattenAppend ==
    ASSUME NEW S, NEW s \in Seq(Seq(S)), NEW b \in Seq(S)
    PROVE  FlattenSeq(Append(s, b)) = FlattenSeq(s) \o b
<1> DEFINE t == Append(s, b)
           n == Len(s)
<1>0. /\ t \in Seq(Seq(S)) /\ Len(t) = n + 1 /\ n \in Nat
      /\ t[n + 1] = b /\ \A i \in 1 .. n : t[i] = s[i]
  BY AppendProperties, LenProperties
<1>1. CASE n = 0
  <2>1. s = <<>>
    BY <1>1, EmptySeq, n \notin Nat \ {0}
  <2>2. t = <<b>>
    BY <2>1
  <2>3. FlattenSeq(s) = <<>> /\ FlattenSeq(t) = b
    BY <2>1, <2>2, FlattenFew
  <2>4. <<>> \o b = b
    BY ConcatEmptySeq
  <2> QED BY <2>3, <2>4
<1>2. CASE n > 0
  <2> HIDE DEF t
  <2> DEFINE f == Flat(s)
             g == Flat(t)
             G == {i \in 1 .. n : f[i] = g[i]}
  <2>1. /\ f[1] = s[1]
        /\ \A i \in 1 .. n : i < n => f[i + 1] = f[i] \o s[i + 1]
    BY <1>2, FlatProperties
  <2>2. /\ g[1] = t[1]
        /\ \A i \in 1 .. n + 1 : i < n + 1 => g[i + 1] = g[i] \o t[i + 1]
    <3>1. Len(t) > 0
      BY <1>0
    <3> QED BY <1>0, <3>1, FlatProperties
  <2>3. FlattenSeq(s) = f[n]
    BY <1>0, <1>2, FlattenIsFlat
  <2>4. FlattenSeq(t) = g[n + 1]
    BY <1>0, FlattenIsFlat
  <2> HIDE DEF f, g, n
  <2>5. 1 \in G
    <3>1. 1 \in 1 .. n
      BY <1>0, <1>2
    <3> QED BY <3>1, <1>0, <2>1, <2>2
  <2>6. ASSUME NEW i \in 1 .. n, i \in G, i < n
        PROVE  i + 1 \in G
    <3>1. i + 1 \in 1 .. n /\ i \in 1 .. n + 1 /\ i < n + 1
      BY <2>6, <1>0
    <3>2. f[i + 1] = f[i] \o s[i + 1] /\ g[i + 1] = g[i] \o t[i + 1]
      BY <3>1, <2>1, <2>2, <2>6
    <3>3. f[i] = g[i] /\ s[i + 1] = t[i + 1]
      BY <3>1, <2>6, <1>0
    <3> QED BY <3>1, <3>2, <3>3
  <2>7. \A i \in 1 .. n : i \in G
    <3> HIDE DEF G
    <3> QED BY <1>0, <2>5, <2>6, UpTo
  <2>8. n \in 1 .. n /\ n \in 1 .. n + 1 /\ n < n + 1
    BY <1>0, <1>2
  <2>9. f[n] = g[n]
    BY <2>7, <2>8
  <2>10. g[n + 1] = g[n] \o t[n + 1]
    BY <2>2, <2>8
  <2>11. g[n + 1] = f[n] \o b
    BY <2>9, <2>10, <1>0
  <2> QED BY <2>11, <2>3, <2>4 DEF t
<1> QED BY <1>0, <1>1, <1>2

\* Three blocks one after the other, however they are grouped.
LEMMA Regroup ==
    \A T : \A x, y, z \in Seq(T) : (x \o y) \o z = x \o (y \o z)
  BY ConcatAssociative

\* The block at the head.
LEMMA FlattenHead ==
    ASSUME NEW S, NEW s \in Seq(Seq(S)), s # <<>>
    PROVE  FlattenSeq(s) = Head(s) \o FlattenSeq(Tail(s))
<1> DEFINE t == Tail(s)
           a == Head(s)
           n == Len(t)
<1>0. /\ t \in Seq(Seq(S)) /\ Len(s) = n + 1 /\ n \in Nat
      /\ a \in Seq(S) /\ \A i \in 1 .. n : t[i] = s[i + 1]
      /\ a = s[1]
  BY HeadTailProperties, LenProperties, EmptySeq
<1> HIDE DEF t, a
<1>1. Len(s) > 0 /\ Len(s) # 0
  BY <1>0
<1>2. FlattenSeq(s) = Flat(s)[n + 1]
  BY <1>0, <1>1, FlattenIsFlat
<1>3. CASE n = 0
  <2>1. t = <<>>
    BY <1>0, <1>3, EmptySeq, n \notin Nat \ {0}
  <2>2. FlattenSeq(s) = a
    <3>1. Flat(s)[1] = s[1]
      BY <1>1, FlatProperties
    <3> QED BY <3>1, <1>0, <1>2, <1>3
  <2>3. FlattenSeq(t) = <<>>
    BY <2>1, FlattenFew
  <2>4. a \o <<>> = a
    BY <1>0, ConcatEmptySeq
  <2> QED BY <2>2, <2>3, <2>4 DEF t, a
<1>4. CASE n > 0
  <2> DEFINE f == Flat(s)
             g == Flat(t)
             G == {i \in 1 .. n : f[i + 1] = a \o g[i]}
  <2>1. /\ f[1] = s[1]
        /\ \A i \in 1 .. n + 1 : i < n + 1 => f[i + 1] = f[i] \o s[i + 1]
    BY <1>0, <1>1, FlatProperties
  <2>2. /\ \A i \in 1 .. n : g[i] \in Seq(S)
        /\ g[1] = t[1]
        /\ \A i \in 1 .. n : i < n => g[i + 1] = g[i] \o t[i + 1]
    BY <1>0, <1>4, FlatProperties
  <2>3. FlattenSeq(t) = g[n]
    BY <1>0, <1>4, FlattenIsFlat
  <2>4. \A i \in 1 .. n : t[i] \in Seq(S)
    BY <1>0, ElementOfSeq
  <2> HIDE DEF f, g, n
  <2>5. 1 \in G
    <3>1. 1 \in 1 .. n /\ 1 \in 1 .. n + 1 /\ 1 < n + 1
      BY <1>0, <1>4
    <3>2. f[1 + 1] = f[1] \o s[1 + 1] /\ t[1] = s[1 + 1]
      BY <3>1, <2>1, <1>0
    <3> QED BY <3>1, <3>2, <1>0, <2>1, <2>2
  <2>6. ASSUME NEW i \in 1 .. n, i \in G, i < n
        PROVE  i + 1 \in G
    <3>1. i + 1 \in 1 .. n /\ i + 1 \in 1 .. n + 1 /\ i + 1 < n + 1
      BY <2>6, <1>0
    <3> DEFINE k == i + 1
    <3>2. f[k + 1] = f[k] \o s[k + 1] /\ g[k] = g[i] \o t[k]
      BY <3>1, <2>1, <2>2, <2>6
    <3>3. t[k] = s[k + 1] /\ f[k] = a \o g[i]
      BY <3>1, <1>0, <2>6
    <3>4. t[k] \in Seq(S) /\ g[i] \in Seq(S)
      BY <3>1, <2>4, <2>2
    <3> HIDE DEF k
    <3>5. f[k + 1] = (a \o g[i]) \o t[k]
      BY <3>2, <3>3
    <3>6. (a \o g[i]) \o t[k] = a \o (g[i] \o t[k])
      <4>1. \A x, y, z \in Seq(S) : (x \o y) \o z = x \o (y \o z)
        BY Regroup, SMTT(60)
      <4> QED BY <3>4, <1>0, <4>1, Zenon
    <3>7. f[k + 1] = a \o g[k]
      BY <3>2, <3>5, <3>6
    <3> QED BY <3>1, <3>7 DEF k
  <2>7. \A i \in 1 .. n : i \in G
    <3> HIDE DEF G
    <3> QED BY <1>0, <2>5, <2>6, UpTo
  <2>8. n \in 1 .. n
    BY <1>0, <1>4
  <2>9. f[n + 1] = a \o g[n]
    BY <2>7, <2>8
  <2> QED BY <2>9, <2>3, <1>2 DEF t, f, a
<1> QED BY <1>0, <1>3, <1>4

----------------------------------------------------------------------------
(* The buffer of the converter.                                             *)

\* What a buffer is made of.
Buffers ==
    [storage : Seq(Event), push_index : 0 .. storage_size, pop_index : Nat,
     file : Seq(Seq(Event)), read_only : BOOLEAN, n_pushed_element : Int]

\* A block that was written holds something, and so does memory, unless the
\* buffer is empty; while blocks come back the first of them is in memory.
Blocks_hold(q) ==
    /\ q.read_only =>
           /\ q.file # <<>> /\ q.storage = Head(q.file)
           /\ q.pop_index < Len(q.storage) /\ q.push_index = 0
    /\ ~q.read_only =>
           /\ q.pop_index = 0
           /\ q.storage = <<>> => q.push_index = 0 /\ q.file = <<>>
    /\ \A k \in DOMAIN q.file : q.file[k] # <<>>

\* The buffer holds what it should.
Sound(q) == q \in Buffers /\ Blocks_hold(q)

\* A new buffer is empty.
LEMMA NewIsSound ==
    /\ Sound(New_queue) /\ Contents(New_queue) = <<>>
    /\ ~New_queue.read_only /\ New_queue.n_pushed_element = 0
<1>1. New_queue \in Buffers
  BY SizeAssumption DEF New_queue, Buffers
<1>2. Blocks_hold(New_queue)
  BY DEF New_queue, Blocks_hold
<1>3. Contents(New_queue) = FlattenSeq(<<>>) \o <<>>
  BY DEF New_queue, Contents
<1>4. FlattenSeq(<<>>) = <<>> /\ <<>> \o <<>> = <<>>
  BY FlattenFew, ConcatEmptySeq
<1>5. ~New_queue.read_only /\ New_queue.n_pushed_element = 0
  BY DEF New_queue
<1> QED BY <1>1, <1>2, <1>3, <1>4, <1>5 DEF Sound

\* What it holds are events.
LEMMA ContentsType ==
    ASSUME NEW q, Sound(q)
    PROVE  Contents(q) \in Seq(Event)
<1>1. /\ q.storage \in Seq(Event) /\ q.file \in Seq(Seq(Event))
      /\ q.pop_index \in Nat /\ q.read_only \in BOOLEAN
  BY DEF Sound, Buffers
<1>2. CASE q.read_only
  <2>1. q.file # <<>>
    BY <1>2 DEF Sound, Blocks_hold
  <2>2. Tail(q.file) \in Seq(Seq(Event))
    BY <2>1, <1>1, HeadTailProperties
  <2>3. FlattenSeq(Tail(q.file)) \in Seq(Event)
    BY <2>2, FlattenType
  <2> DEFINE s == q.storage
             p == q.pop_index
  <2>4. Len(s) \in Nat /\ \A i \in p + 1 .. Len(s) : s[i] \in Event
    BY <1>1, LenProperties, ElementOfSeq
  <2>5. s \in Seq(Event) /\ p + 1 \in Int
    BY <1>1
  <2> HIDE DEF s, p
  <2>6. SubSeq(s, p + 1, Len(s)) \in Seq(Event)
    BY <2>4, <2>5, SubSeqProperties
  <2>7. Contents(q) = SubSeq(s, p + 1, Len(s)) \o FlattenSeq(Tail(q.file))
    BY <1>2 DEF Contents, s, p
  <2> QED BY <2>3, <2>6, <2>7, ConcatProperties
<1>3. CASE ~q.read_only
  <2>1. FlattenSeq(q.file) \in Seq(Event)
    BY <1>1, FlattenType
  <2>2. Contents(q) = FlattenSeq(q.file) \o q.storage
    BY <1>3 DEF Contents
  <2> QED BY <1>1, <2>1, <2>2, ConcatProperties
<1> QED BY <1>2, <1>3

\* An element has a size that memory has room for.
LEMMA SizeType ==
    ASSUME NEW e \in Event
    PROVE  Size[e.type] \in 1 .. storage_size
<1>1. e.type \in Type
  BY DEF Event
<1> QED BY <1>1, SizeAssumption

\* What push makes of the fields.
LEMMA PushFields ==
    ASSUME NEW q, Sound(q), ~q.read_only, NEW e \in Event
    PROVE  /\ push(q, e) \in Buffers
           /\ ~push(q, e).read_only
           /\ push(q, e).pop_index = 0
           /\ push(q, e).n_pushed_element = q.n_pushed_element + 1
           /\ IF Fits(q, e)
              THEN /\ push(q, e).file = q.file
                   /\ push(q, e).storage = Append(q.storage, e)
              ELSE /\ q.storage # <<>>
                   /\ push(q, e).file = Append(q.file, q.storage)
                   /\ push(q, e).storage = Append(<<>>, e)
<1>0. /\ q \in Buffers /\ q.pop_index = 0
      /\ q.storage = <<>> => q.push_index = 0
  BY DEF Sound, Blocks_hold
<1>1. /\ storage_size \in Nat /\ q.push_index \in 0 .. storage_size
      /\ q.storage \in Seq(Event) /\ q.file \in Seq(Seq(Event))
      /\ Size[e.type] \in 1 .. storage_size
      /\ q.n_pushed_element \in Int
  BY <1>0, SizeType, SizeAssumption DEF Buffers
<1> DEFINE z == Size[e.type]
<1>2. CASE Fits(q, e)
  <2> DEFINE s == Append(q.storage, e)
             i == q.push_index + z
             n == q.n_pushed_element + 1
  <2>1. i \in 0 .. storage_size /\ n \in Int
    BY <1>1, <1>2 DEF Fits
  <2>2. s \in Seq(Event)
    BY <1>1, AppendProperties
  <2>3. push(q, e) = [q EXCEPT !.storage = s, !.push_index = i, !.n_pushed_element = n]
    BY <1>2 DEF push
  <2> HIDE DEF s, i, n
  <2>4. /\ push(q, e) \in Buffers /\ push(q, e).storage = s
        /\ push(q, e).file = q.file
        /\ push(q, e).read_only = q.read_only
        /\ push(q, e).pop_index = q.pop_index /\ push(q, e).n_pushed_element = n
    BY <1>0, <2>1, <2>2, <2>3 DEF Buffers
  <2> QED BY <1>0, <1>2, <2>4 DEF s, n
<1>3. CASE ~Fits(q, e)
  <2> DEFINE s == Append(<<>>, e)
             b == Append(q.file, q.storage)
             i == 0 + z
             n == q.n_pushed_element + 1
             w == [q EXCEPT !.file = b, !.storage = <<>>, !.push_index = 0]
  <2>1. i \in 0 .. storage_size /\ n \in Int
    BY <1>1
  <2>2. s \in Seq(Event) /\ b \in Seq(Seq(Event))
    BY <1>1, AppendProperties, EmptySeq
  <2>3. q.storage # <<>>
    BY <1>0, <1>1, <1>3 DEF Fits
  <2>4. push(q, e) = [w EXCEPT !.storage = Append(@, e), !.push_index = @ + z,
                               !.n_pushed_element = @ + 1]
    BY <1>3 DEF push, write_block
  <2> HIDE DEF b
  <2>5. /\ w.storage = <<>> /\ w.push_index = 0
        /\ w.n_pushed_element = q.n_pushed_element
    BY <1>0 DEF Buffers
  <2>6. push(q, e) = [w EXCEPT !.storage = s, !.push_index = i, !.n_pushed_element = n]
    BY <2>4, <2>5
  <2>7. push(q, e) = [q EXCEPT !.file = b, !.storage = s, !.push_index = i,
                               !.n_pushed_element = n]
    BY <2>6, <1>0 DEF Buffers
  <2> HIDE DEF s, i, n, w
  <2>8. /\ push(q, e) \in Buffers /\ push(q, e).storage = s
        /\ push(q, e).file = b
        /\ push(q, e).read_only = q.read_only
        /\ push(q, e).pop_index = q.pop_index /\ push(q, e).n_pushed_element = n
    BY <1>0, <2>1, <2>2, <2>7 DEF Buffers
  <2> QED BY <1>0, <1>3, <2>3, <2>8 DEF s, b, n
<1> QED BY <1>2, <1>3

\* push puts the element at the end.
LEMMA Pushes ==
    ASSUME NEW q, Sound(q), ~q.read_only, NEW e \in Event
    PROVE  /\ Sound(push(q, e)) /\ ~push(q, e).read_only
           /\ push(q, e).n_pushed_element = q.n_pushed_element + 1
           /\ Contents(push(q, e)) = Append(Contents(q), e)
<1> DEFINE r == push(q, e)
           c == FlattenSeq(q.file)
           s == q.storage
<1>1. /\ r \in Buffers /\ ~r.read_only /\ r.pop_index = 0
      /\ r.n_pushed_element = q.n_pushed_element + 1
  BY PushFields
<1>2. IF Fits(q, e)
      THEN r.file = q.file /\ r.storage = Append(s, e)
      ELSE /\ s # <<>>
           /\ r.file = Append(q.file, s) /\ r.storage = Append(<<>>, e)
  BY PushFields
<1>3. /\ s \in Seq(Event) /\ q.file \in Seq(Seq(Event)) /\ c \in Seq(Event)
      /\ \A k \in DOMAIN q.file : q.file[k] # <<>>
  BY FlattenType DEF Sound, Blocks_hold, Buffers
<1>4. Contents(q) = c \o s /\ Contents(r) = FlattenSeq(r.file) \o r.storage
  BY <1>1 DEF Contents
<1> HIDE DEF r
<1>5. Append(c \o s, e) = c \o Append(s, e)
  <2> DEFINE d == c \o s
             f == <<e>>
  <2>1. d \in Seq(Event) /\ f \in Seq(Event)
    BY <1>3, ConcatProperties
  <2>2. Append(d, e) = d \o f /\ Append(s, e) = s \o f
    BY <1>3, <2>1, AppendIsConcat
  <2>3. d \o f = c \o (s \o f)
    <3> HIDE DEF c, s, f
    <3> QED BY <1>3, <2>1, ConcatAssociative DEF d
  <2> QED BY <2>2, <2>3
<1>6. CASE Fits(q, e)
  <2>1. Contents(r) = Append(Contents(q), e)
    BY <1>2, <1>4, <1>5, <1>6
  <2>2. r.storage # <<>>
    BY <1>2, <1>3, <1>6, AppendProperties
  <2>3. \A k \in DOMAIN r.file : r.file[k] # <<>>
    BY <1>2, <1>3, <1>6
  <2> QED BY <1>1, <2>1, <2>2, <2>3 DEF Sound, Blocks_hold, r
<1>7. CASE ~Fits(q, e)
  <2>1. FlattenSeq(r.file) = c \o s
    BY <1>2, <1>3, <1>7, FlattenAppend
  <2>2. Contents(r) = (c \o s) \o Append(<<>>, e)
    BY <1>2, <1>4, <1>7, <2>1
  <2>3. (c \o s) \o Append(<<>>, e) = Append(c \o s, e)
    <3> DEFINE d == c \o s
    <3>1. d \in Seq(Event)
      BY <1>3, ConcatProperties
    <3> HIDE DEF d
    <3>2. Append(<<>>, e) = <<e>> /\ Append(d, e) = d \o <<e>>
      BY <3>1, AppendIsConcat
    <3> QED BY <3>2 DEF d
  <2>4. r.storage # <<>>
    <3>1. <<>> \in Seq(Event)
      BY EmptySeq
    <3>2. Append(<<>>, e) # <<>>
      BY <3>1, AppendProperties
    <3> QED BY <3>2, <1>2, <1>7
  <2>5. \A k \in DOMAIN r.file : r.file[k] # <<>>
    <3>1. /\ DOMAIN r.file = 1 .. Len(q.file) + 1 /\ Len(q.file) \in Nat
          /\ DOMAIN q.file = 1 .. Len(q.file)
          /\ \A k \in 1 .. Len(q.file) : r.file[k] = q.file[k]
          /\ r.file[Len(q.file) + 1] = s
      <4> DEFINE f == q.file
      <4>1. f \in Seq(Seq(Event)) /\ r.file = Append(f, s)
        BY <1>2, <1>3, <1>7
      <4> HIDE DEF f, s
      <4>2. s \in Seq(Event)
        BY <1>3 DEF s
      <4> QED BY <4>1, <4>2, AppendProperties, LenProperties DEF f
    <3> QED BY <3>1, <1>2, <1>3, <1>7
  <2> QED BY <1>1, <1>4, <2>2, <2>3, <2>4, <2>5 DEF Sound, Blocks_hold, r
<1> QED BY <1>6, <1>7

\* A sequence that begins with an element.
LEMMA OneAndRest ==
    ASSUME NEW x \in Event, NEW u \in Seq(Event)
    PROVE  /\ Head(<<x>> \o u) = x /\ Tail(<<x>> \o u) = u
           /\ Len(<<x>> \o u) = Len(u) + 1
<1> DEFINE s == <<x>> \o u
<1>1. <<x>> \in Seq(Event) /\ Len(<<x>>) = 1 /\ <<x>>[1] = x
  OBVIOUS
<1>2. /\ s \in Seq(Event) /\ Len(s) = 1 + Len(u)
      /\ \A i \in 1 .. 1 + Len(u) : s[i] = IF i <= 1 THEN <<x>>[i] ELSE u[i - 1]
  BY <1>1, ConcatProperties
<1>3. Len(u) \in Nat
  BY LenProperties
<1> HIDE DEF s
<1>4. s # <<>>
  BY <1>2, <1>3
<1>5. Head(s) = x
  BY <1>1, <1>2, <1>3, <1>4
<1>6. /\ Tail(s) \in Seq(Event) /\ Len(Tail(s)) = Len(u)
      /\ \A i \in 1 .. Len(u) : Tail(s)[i] = s[i + 1]
  BY <1>2, <1>3, <1>4, HeadTailProperties
<1>7. \A i \in 1 .. Len(u) : Tail(s)[i] = u[i]
  BY <1>2, <1>3, <1>6
<1>8. Tail(s) = u
  BY <1>6, <1>7, SeqEqual
<1> QED BY <1>2, <1>3, <1>5, <1>8 DEF s

\* Reading begins with the block written first; the contents stay.
LEMMA TurnsRound ==
    ASSUME NEW q, Sound(q), Contents(q) # <<>>
    PROVE  /\ Sound(Turned_round(q)) /\ Turned_round(q).read_only
           /\ Turned_round(q).n_pushed_element = q.n_pushed_element
           /\ Contents(Turned_round(q)) = Contents(q)
<1>1. CASE q.read_only
  BY <1>1 DEF Turned_round
<1>2. CASE ~q.read_only
  <2> DEFINE s == q.storage
             b == Append(q.file, s)
             h == Head(b)
             r == [q EXCEPT !.file = b, !.storage = h, !.push_index = 0,
                            !.pop_index = 0, !.read_only = TRUE]
  <2>0. /\ q \in Buffers /\ 0 \in 0 .. storage_size
        /\ s \in Seq(Event) /\ q.file \in Seq(Seq(Event))
        /\ \A k \in DOMAIN q.file : q.file[k] # <<>>
    BY SizeAssumption DEF Sound, Blocks_hold, Buffers
  <2>1. s # <<>>
    <3>1. SUFFICES ASSUME s = <<>> PROVE FALSE
      OBVIOUS
    <3>2. q.file = <<>>
      BY <1>2, <3>1 DEF Sound, Blocks_hold
    <3>3. Contents(q) = FlattenSeq(<<>>) \o <<>>
      BY <1>2, <3>1, <3>2 DEF Contents
    <3>4. FlattenSeq(<<>>) = <<>> /\ <<>> \o <<>> = <<>>
      BY FlattenFew, ConcatEmptySeq
    <3> QED BY <3>3, <3>4
  <2>2. /\ b \in Seq(Seq(Event)) /\ b # <<>> /\ h \in Seq(Event)
        /\ h = b[1]
    <3>1. b \in Seq(Seq(Event)) /\ b # <<>>
      BY <2>0, AppendProperties
    <3> HIDE DEF b
    <3>2. h \in Seq(Event)
      BY <3>1, HeadTailProperties
    <3> QED BY <3>1, <3>2
  <2>3. \A k \in DOMAIN b : b[k] # <<>>
    <3> DEFINE f == q.file
    <3> HIDE DEF f, s
    <3>1. /\ DOMAIN b = 1 .. Len(f) + 1 /\ Len(f) \in Nat
          /\ DOMAIN f = 1 .. Len(f)
          /\ \A k \in 1 .. Len(f) : b[k] = f[k]
          /\ b[Len(f) + 1] = s
      BY <2>0, AppendProperties, LenProperties DEF f
    <3> QED BY <3>1, <2>0, <2>1 DEF f
  <2>4. h # <<>> /\ 0 < Len(h)
    <3>1. 1 \in DOMAIN b
      BY <2>2, LenProperties, EmptySeq
    <3>2. h # <<>>
      BY <3>1, <2>2, <2>3
    <3> HIDE DEF h
    <3>3. Len(h) \in Nat \ {0}
      BY <3>2, <2>2, EmptySeq
    <3> QED BY <3>2, <3>3
  <2>5. Turned_round(q) = r
    <3> HIDE DEF s
    <3>1. write_block(q) = [q EXCEPT !.file = b, !.storage = <<>>, !.push_index = 0]
      BY DEF write_block, s
    <3> HIDE DEF b
    <3>2. write_block(q) \in Buffers /\ write_block(q).file = b
      BY <3>1, <2>0, <2>2, EmptySeq, ZenonT(30) DEF Buffers
    <3>3. read_block(write_block(q)) = [write_block(q) EXCEPT !.storage = h, !.pop_index = 0]
      BY <3>2 DEF read_block
    <3> HIDE DEF h
    <3>4. Turned_round(q) = [read_block(write_block(q)) EXCEPT !.read_only = TRUE]
      BY <1>2 DEF Turned_round
    <3> QED BY <3>1, <3>3, <3>4, <2>0, ZenonT(30) DEF Buffers
  <2> HIDE DEF s, b, h
  <2>6. /\ r \in Buffers /\ r.file = b /\ r.storage = h /\ r.push_index = 0
        /\ r.pop_index = 0 /\ r.read_only = TRUE
        /\ r.n_pushed_element = q.n_pushed_element
    BY <2>0, <2>2 DEF Buffers
  <2> HIDE DEF r
  <2>7. Blocks_hold(r)
    BY <2>6, <2>2, <2>3, <2>4 DEF Blocks_hold, h
  <2>8. Contents(r) = Contents(q)
    <3>1. Contents(r) = SubSeq(h, 1, Len(h)) \o FlattenSeq(Tail(b))
      BY <2>6 DEF Contents
    <3>2. SubSeq(h, 1, Len(h)) = h
      BY <2>2, SubSeqFull
    <3>3. FlattenSeq(b) = h \o FlattenSeq(Tail(b))
      BY <2>2, FlattenHead DEF h
    <3>4. FlattenSeq(b) = FlattenSeq(q.file) \o s
      BY <2>0, FlattenAppend DEF b
    <3>5. Contents(q) = FlattenSeq(q.file) \o s
      BY <1>2 DEF Contents, s
    <3> QED BY <3>1, <3>2, <3>3, <3>4, <3>5
  <2> QED BY <2>5, <2>6, <2>7, <2>8 DEF Sound
<1> QED BY <1>1, <1>2

\* What is popped, and the queue after it, while blocks come back.
LEMMA PopsOfBlock ==
    ASSUME NEW r, Sound(r), r.read_only
    PROVE  LET t == IF r.pop_index + 1 < Len(r.storage)
                    THEN [r EXCEPT !.pop_index = @ + 1, !.n_pushed_element = @ - 1]
                    ELSE IF Tail(r.file) # <<>>
                    THEN [r EXCEPT !.file = Tail(r.file), !.storage = Head(Tail(r.file)),
                                   !.pop_index = 0, !.n_pushed_element = @ - 1]
                    ELSE [New_queue EXCEPT !.n_pushed_element = r.n_pushed_element - 1]
           IN  /\ Sound(t) /\ t.n_pushed_element = r.n_pushed_element - 1
               /\ Contents(r) # <<>>
               /\ r.storage[r.pop_index + 1] = Head(Contents(r))
               /\ Contents(t) = Tail(Contents(r))
               /\ t.read_only = (Tail(Contents(r)) # <<>>)
<1> DEFINE s == r.storage
           p == r.pop_index
           n == Len(s)
           f == Tail(r.file)
           c == FlattenSeq(f)
           m == r.n_pushed_element - 1
           u == SubSeq(s, p + 2, n)
<1>1. /\ r \in Buffers /\ s \in Seq(Event) /\ p \in Nat /\ n \in Nat /\ p < n
      /\ r.file \in Seq(Seq(Event)) /\ r.file # <<>> /\ m \in Int
      /\ r.push_index = 0 /\ s = Head(r.file)
      /\ \A k \in DOMAIN r.file : r.file[k] # <<>>
  BY LenProperties DEF Sound, Blocks_hold, Buffers
<1>2. /\ f \in Seq(Seq(Event)) /\ c \in Seq(Event)
      /\ \A k \in DOMAIN f : f[k] # <<>>
  <2> DEFINE g == r.file
  <2>0. g \in Seq(Seq(Event)) /\ g # <<>> /\ \A k \in DOMAIN g : g[k] # <<>>
    BY <1>1
  <2> HIDE DEF g
  <2>1. /\ Tail(g) \in Seq(Seq(Event)) /\ Len(Tail(g)) = Len(g) - 1
        /\ \A i \in 1 .. Len(Tail(g)) : Tail(g)[i] = g[i + 1]
    BY <2>0, HeadTailProperties
  <2>2. DOMAIN g = 1 .. Len(g) /\ Len(g) \in Nat /\ DOMAIN Tail(g) = 1 .. Len(Tail(g))
    BY <2>0, <2>1, LenProperties
  <2>3. \A k \in DOMAIN Tail(g) : Tail(g)[k] # <<>>
    BY <2>0, <2>1, <2>2
  <2>4. FlattenSeq(Tail(g)) \in Seq(Event)
    BY <2>1, FlattenType
  <2> QED BY <2>1, <2>3, <2>4 DEF g
<1>3. Contents(r) = SubSeq(s, p + 1, n) \o c
  BY DEF Contents
<1> HIDE DEF s, p, n, f, c, m
<1>4. s[p + 1] \in Event /\ u \in Seq(Event)
  <2>1. p + 1 \in 1 .. Len(s) /\ \A i \in p + 2 .. n : i \in 1 .. Len(s)
    BY <1>1, SMTT(30) DEF n
  <2>2. s[p + 1] \in Event /\ \A i \in p + 2 .. n : s[i] \in Event
    BY <2>1, <1>1, ElementOfSeq
  <2>3. p + 2 \in Int /\ n \in Int
    BY <1>1
  <2> QED BY <2>2, <2>3, SubSeqProperties
<1>5. SubSeq(s, p + 1, n) = <<s[p + 1]>> \o u
  <2>1. p + 1 \in 1 .. Len(s) /\ n \in p + 1 .. Len(s) /\ (p + 1) + 1 = p + 2
    BY <1>1 DEF n
  <2> DEFINE a == p + 1
  <2>2. a \in 1 .. Len(s) /\ n \in a .. Len(s)
    BY <2>1
  <2> HIDE DEF a
  <2>3. SubSeq(s, a, n) = <<s[a]>> \o SubSeq(s, a + 1, n)
    BY <1>1, <2>2, SubSeqRecursiveFirst
  <2> QED BY <2>1, <2>3 DEF a
<1> DEFINE x == s[p + 1]
<1> HIDE DEF x, u
<1>6. /\ Contents(r) = <<x>> \o (u \o c)
      /\ u \o c \in Seq(Event) /\ x \in Event /\ u \in Seq(Event)
  <2>1. <<x>> \in Seq(Event) /\ x \in Event
    BY <1>4 DEF x
  <2>2. (<<x>> \o u) \o c = <<x>> \o (u \o c)
    BY <2>1, <1>4, <1>2, ConcatAssociative
  <2>3. u \o c \in Seq(Event)
    BY <1>4, <1>2, ConcatProperties
  <2> QED BY <2>1, <2>2, <2>3, <1>3, <1>4, <1>5 DEF x
<1>7. /\ Head(Contents(r)) = x /\ Tail(Contents(r)) = u \o c
      /\ Contents(r) # <<>>
  <2>1. /\ Head(Contents(r)) = x /\ Tail(Contents(r)) = u \o c
        /\ Len(Contents(r)) = Len(u \o c) + 1
    BY <1>6, OneAndRest
  <2>2. Len(u \o c) \in Nat
    BY <1>6, LenProperties
  <2>3. Len(Contents(r)) # 0
    BY <2>1, <2>2
  <2> QED BY <2>1, <2>3
<1>8. CASE p + 1 < n
  <2> DEFINE t == [r EXCEPT !.pop_index = p + 1, !.n_pushed_element = m]
  <2>0. p + 1 \in Nat
    BY <1>1
  <2>1. /\ t \in Buffers /\ t.file = r.file /\ t.storage = s
        /\ t.push_index = 0 /\ t.pop_index = p + 1 /\ t.read_only
        /\ t.n_pushed_element = m
    BY <1>1, <2>0 DEF Buffers, s
  <2> HIDE DEF t
  <2>2. Blocks_hold(t)
    BY <2>1, <1>1, <1>8 DEF Blocks_hold, n
  <2>3. Contents(t) = SubSeq(s, (p + 1) + 1, n) \o c
    BY <2>1 DEF Contents, c, f, n
  <2>4. (p + 1) + 1 = p + 2
    BY <1>1
  <2>5. Contents(t) = u \o c
    BY <2>3, <2>4 DEF u
  <2>6. u \o c # <<>>
    <3>1. u # <<>>
      <4>1. Len(u) = n - (p + 2) + 1
        <5>1. /\ p + 2 \in Int /\ n \in Int /\ p + 2 <= n
              /\ \A i \in p + 2 .. n : i \in 1 .. Len(s)
          BY <1>1, <1>8 DEF n
        <5>2. \A i \in p + 2 .. n : s[i] \in Event
          BY <5>1, <1>1, ElementOfSeq
        <5> QED BY <5>1, <5>2, SubSeqProperties DEF u
      <4>2. Len(u) # 0
        BY <4>1, <1>1, <1>8
      <4> QED BY <4>2
    <3> QED BY <3>1, <1>2, <1>6, ConcatEqualIffEmpty
  <2> QED BY <1>7, <1>8, <2>1, <2>2, <2>5, <2>6 DEF Sound, t, s, p, n, m, x
<1>9. CASE ~(p + 1 < n)
  <2>1. u = <<>>
    <3>1. n < p + 2 /\ p + 2 \in Int /\ n \in Int
      BY <1>1, <1>9
    <3> QED BY <3>1, SubSeqEmpty DEF u
  <2>2. Tail(Contents(r)) = c
    BY <1>2, <1>7, <2>1, ConcatEmptySeq
  <2>3. CASE f # <<>>
    <3> DEFINE h == Head(f)
               t == [r EXCEPT !.file = f, !.storage = h, !.pop_index = 0,
                              !.n_pushed_element = m]
    <3>0. h \in Seq(Event) /\ Tail(f) \in Seq(Seq(Event)) /\ h = f[1]
      BY <1>2, <2>3, HeadTailProperties
    <3>1. h # <<>> /\ 0 < Len(h)
      <4>1. 1 \in DOMAIN f
        BY <1>2, <2>3, LenProperties, EmptySeq
      <4>2. h # <<>>
        BY <4>1, <3>0, <1>2
      <4> HIDE DEF h
      <4>3. Len(h) \in Nat \ {0}
        BY <4>2, <3>0, EmptySeq
      <4> QED BY <4>2, <4>3
    <3> HIDE DEF h
    <3>2. /\ t \in Buffers /\ t.file = f /\ t.storage = h
          /\ t.push_index = 0 /\ t.pop_index = 0 /\ t.read_only
          /\ t.n_pushed_element = m
      BY <1>1, <1>2, <3>0 DEF Buffers
    <3> HIDE DEF t
    <3>3. Blocks_hold(t)
      BY <3>1, <3>2, <1>2, <2>3 DEF Blocks_hold, h
    <3>4. Contents(t) = SubSeq(h, 1, Len(h)) \o FlattenSeq(Tail(f))
      BY <3>2 DEF Contents
    <3>5. SubSeq(h, 1, Len(h)) = h
      BY <3>0, SubSeqFull
    <3>6. c = h \o FlattenSeq(Tail(f))
      BY <1>2, <2>3, FlattenHead DEF c, h
    <3>7. c # <<>>
      <4>1. FlattenSeq(Tail(f)) \in Seq(Event)
        BY <3>0, FlattenType
      <4> QED BY <4>1, <3>0, <3>1, <3>6, ConcatEqualIffEmpty
    <3>8. Contents(t) = c
      BY <3>4, <3>5, <3>6
    <3> QED BY <1>7, <1>9, <2>2, <2>3, <3>2, <3>3, <3>7, <3>8
            DEF Sound, t, h, f, s, p, n, m, x
  <2>4. CASE f = <<>>
    <3> DEFINE t == [New_queue EXCEPT !.n_pushed_element = m]
    <3>1. /\ New_queue \in Buffers /\ Blocks_hold(New_queue)
          /\ Contents(New_queue) = <<>> /\ ~New_queue.read_only
      BY NewIsSound DEF Sound
    <3>2. /\ t \in Buffers /\ t.n_pushed_element = m
          /\ t.storage = New_queue.storage /\ t.file = New_queue.file
          /\ t.push_index = New_queue.push_index
          /\ t.pop_index = New_queue.pop_index
          /\ t.read_only = New_queue.read_only
      BY <3>1, <1>1 DEF Buffers
    <3> HIDE DEF t
    <3>3. Blocks_hold(t)
      BY <3>1, <3>2 DEF Blocks_hold
    <3>4. Contents(t) = <<>> /\ t.read_only = FALSE
      BY <3>1, <3>2 DEF Contents, New_queue
    <3>5. c = <<>>
      BY <2>4, FlattenFew DEF c
    <3>6. /\ Sound(t) /\ t.n_pushed_element = m
          /\ Contents(t) = Tail(Contents(r))
          /\ t.read_only = (Tail(Contents(r)) # <<>>)
      BY <2>2, <3>2, <3>3, <3>4, <3>5 DEF Sound
    <3>7. ~(r.pop_index + 1 < Len(r.storage)) /\ ~(Tail(r.file) # <<>>)
      BY <1>9, <2>4 DEF f, s, p, n
    <3> QED BY <1>7, <3>6, <3>7 DEF t, s, p, m, x
  <2> QED BY <2>3, <2>4
<1> QED BY <1>8, <1>9

\* pop takes what is at the head; blocks come back until the queue is empty.
LEMMA Pops ==
    ASSUME NEW q, Sound(q), Contents(q) # <<>>
    PROVE  /\ Sound(pop(q))
           /\ pop(q).n_pushed_element = q.n_pushed_element - 1
           /\ Popped(q) = Head(Contents(q))
           /\ Contents(pop(q)) = Tail(Contents(q))
           /\ pop(q).read_only = (Tail(Contents(q)) # <<>>)
<1> DEFINE r == Turned_round(q)
           t == IF r.pop_index + 1 < Len(r.storage)
                THEN [r EXCEPT !.pop_index = @ + 1, !.n_pushed_element = @ - 1]
                ELSE IF Tail(r.file) # <<>>
                THEN [r EXCEPT !.file = Tail(r.file), !.storage = Head(Tail(r.file)),
                               !.pop_index = 0, !.n_pushed_element = @ - 1]
                ELSE [New_queue EXCEPT !.n_pushed_element = r.n_pushed_element - 1]
<1>1. /\ Sound(r) /\ r.read_only /\ r.n_pushed_element = q.n_pushed_element
      /\ Contents(r) = Contents(q)
  BY TurnsRound
<1>2. Popped(q) = r.storage[r.pop_index + 1]
  BY DEF Popped
<1>3. pop(q) = t
  <2>1. r \in Buffers
    BY <1>1 DEF Sound
  <2> DEFINE v == [r EXCEPT !.pop_index = @ + 1, !.n_pushed_element = @ - 1]
             w == [v EXCEPT !.file = Tail(@)]
  <2>2. pop(q) = IF v.pop_index < Len(v.storage) THEN v
                 ELSE IF w.file # <<>> THEN read_block(w)
                 ELSE [New_queue EXCEPT !.n_pushed_element = v.n_pushed_element]
    BY DEF pop
  <2> HIDE DEF r
  <2>3. /\ v.pop_index = r.pop_index + 1 /\ v.storage = r.storage
        /\ v.n_pushed_element = r.n_pushed_element - 1 /\ w.file = Tail(r.file)
    BY <2>1 DEF Buffers
  <2>4. read_block(w) = [r EXCEPT !.file = Tail(r.file), !.storage = Head(Tail(r.file)),
                                  !.pop_index = 0, !.n_pushed_element = @ - 1]
    BY <2>1 DEF read_block, Buffers
  <2> HIDE DEF w
  <2> QED BY <2>2, <2>3, <2>4
<1> HIDE DEF r
<1>4. /\ Sound(t) /\ t.n_pushed_element = r.n_pushed_element - 1
      /\ r.storage[r.pop_index + 1] = Head(Contents(r))
      /\ Contents(t) = Tail(Contents(r))
      /\ t.read_only = (Tail(Contents(r)) # <<>>)
  BY <1>1, PopsOfBlock
<1> HIDE DEF t
<1> QED BY <1>1, <1>2, <1>3, <1>4

----------------------------------------------------------------------------
(* The invariant.                                                           *)

Queue == Contents(event_buffer)

\* The buffer counts what it holds.
Buffered ==
    Sound(event_buffer) /\ event_buffer.n_pushed_element = Len(Queue)

\* What is neither a sequence nor the buffer.
Plain ==
    /\ pc \in {"idle", "drain", "flush", "deleted"} /\ crop \in BOOLEAN
    /\ file \in 1 .. MaxFiles
    /\ unknown_time_fix \subseteq {"HRT", "ABS"}
    /\ unknown_last_hrt \in BOOLEAN /\ unknown_last_rtc \in BOOLEAN
    /\ rtc_file \in 0 .. file /\ delta_file \in 0 .. rtc_file
    /\ preTriggerTime \in PreTrigger \cup {-1}
    /\ preTriggerEdge \in 0 .. MaxEvents
    /\ keepEvent \in BOOLEAN /\ interrupted \in BOOLEAN
    /\ tmp \in Event \cup {NoEvent}

Record == [event : Event, frame_counter : Nat, delta_file : Nat]

\* The input and the output.
Lists ==
    /\ read \in Seq(Event) /\ written \in Seq(Record)
    /\ written_frameno \in Nat /\ lost \subseteq Range(read)

\* Events are numbered as they are read; what waits and what is written was read.
Reading ==
    /\ \A i \in DOMAIN read : read[i].n = i /\ read[i].file <= file
    /\ Range(Queue) \subseteq Range(read)
    /\ \A i \in DOMAIN written : written[i].event \in Range(read)
    /\ written_frameno + Len(Queue) <= Len(read)

\* What waits comes in order, and after what is written.
Ordering ==
    /\ \A j, k \in DOMAIN Queue : j < k => Queue[j].n < Queue[k].n
    /\ ~interrupted =>
           /\ \A i, j \in DOMAIN written : i < j => written[i].event.n < written[j].event.n
           /\ \A i \in DOMAIN written, k \in DOMAIN Queue :
                  written[i].event.n < Queue[k].n

\* The buffer is drained when the times are known, to its end unless a write fails.
Draining ==
    /\ pc = "drain" => ~Unknown
    /\ pc = "idle" /\ event_buffer.read_only => interrupted
    /\ pc = "idle" /\ ~event_buffer.read_only /\ ~Unknown => Queue = <<>>

\* What is unknown has not been read, unless the buffer refused it.
Knowing ==
    ~event_buffer.read_only /\ pc \in {"idle", "drain"} =>
        /\ unknown_last_rtc \/ "ABS" \in unknown_time_fix => Of(file, "RTC") = {}
        /\ unknown_last_hrt \/ "HRT" \in unknown_time_fix => Of(file, "TRIGGER") = {}

\* The times of the file are not known, and nothing more is read of it.
Over(f) == ~Times_known(f) /\ (f < file \/ pc \in {"flush", "deleted"})

\* What was written with the times of another file.
Mistimed ==
    {e \in Event : \E i \in DOMAIN written :
                      written[i].event = e /\ written[i].delta_file # e.file}

\* What is drained has the times of its file, or will never have any.
Timing ==
    /\ ~unknown_last_rtc => rtc_file = file
    /\ ~Unknown => delta_file = file
    /\ ~event_buffer.read_only /\ pc \in {"idle", "flush"} =>
           \A e \in Range(Queue) : ~Times_known(e.file)
    /\ event_buffer.read_only \/ pc = "drain" =>
           \A e \in Range(Queue) : e.file = delta_file \/ Over(e.file)
    /\ \A e \in Mistimed : Over(e.file)

Messages == {i \in DOMAIN written : written[i].event.type = "MESSAGE"}

\* The numbers given are those of the messages.
Numbering ==
    lost = {} =>
        /\ written_frameno = Cardinality(Messages)
        /\ \A i \in Messages :
               written[i].frame_counter = Cardinality({j \in Messages : j <= i})

\* What is cropped from is the pre-trigger of the file's first trigger.
Cropping ==
    pc = "drain" /\ crop /\ preTriggerEdge > 0 =>
        \A f \in {file} : Of(f, "TRIGGER") # {} /\ Begins(f) = preTriggerEdge

\* What was read and is neither written nor waiting nor lost need not be kept.
Keeping ==
    \A e \in Range(read) :
        e.type \in {"MESSAGE", "TRIGGER"} =>
            \/ e \in Output \cup Waiting \cup lost
            \/ Over(e.file)
            \/ Of(e.file, "TRIGGER") # {} /\ e.n < Begins(e.file)

\* The part the others rest on.
Shape == Buffered /\ Plain /\ Lists /\ Reading

IInv ==
    /\ Shape /\ Ordering /\ Draining /\ Knowing /\ Timing /\ Numbering
    /\ Cropping /\ Keeping

----------------------------------------------------------------------------
(* The shape.                                                               *)

\* The shape is the type invariant, and more.
LEMMA ShapeIsTyped == Shape => TypeOK
<1> SUFFICES ASSUME Shape PROVE TypeOK
  OBVIOUS
<1>1. /\ event_buffer.storage \in Seq(Event) /\ event_buffer.file \in Seq(Seq(Event))
      /\ event_buffer.push_index \in 0 .. storage_size
      /\ event_buffer.pop_index \in Nat
      /\ event_buffer.read_only \in BOOLEAN
      /\ event_buffer.n_pushed_element = Len(Contents(event_buffer))
  BY DEF Shape, Buffered, Sound, Buffers, Queue
<1>2. event_buffer.pop_index \in 0 .. Len(event_buffer.storage)
  <2>1. Len(event_buffer.storage) \in Nat
    BY <1>1, LenProperties
  <2>2. \/ event_buffer.pop_index = 0
        \/ event_buffer.pop_index < Len(event_buffer.storage)
    BY DEF Shape, Buffered, Sound, Blocks_hold
  <2> QED BY <1>1, <2>1, <2>2
<1>3. written_frameno \in 0 .. Len(read)
  <2>1. Queue \in Seq(Event) /\ read \in Seq(Event)
    BY ContentsType DEF Shape, Buffered, Queue, Lists
  <2>2. Len(Queue) \in Nat /\ Len(read) \in Nat
    BY <2>1, LenProperties
  <2> QED BY <2>2 DEF Shape, Lists, Reading
<1> QED BY <1>1, <1>2, <1>3 DEF Shape, Plain, Lists, TypeOK

\* What a sequence has, with one more and with one less.
LEMMA RangeMoves ==
    ASSUME NEW S, NEW s \in Seq(S), NEW e \in S
    PROVE  /\ Range(Append(s, e)) = Range(s) \cup {e}
           /\ s # <<>> => Range(s) = Range(Tail(s)) \cup {Head(s)}
<1>1. Range(Append(s, e)) = Range(s) \cup {e}
  <2>1. /\ DOMAIN s = 1 .. Len(s) /\ Len(s) \in Nat
        /\ DOMAIN Append(s, e) = 1 .. Len(s) + 1
        /\ \A i \in 1 .. Len(s) : Append(s, e)[i] = s[i]
        /\ Append(s, e)[Len(s) + 1] = e
    BY AppendProperties, LenProperties
  <2> QED BY <2>1 DEF Range
<1>2. ASSUME s # <<>> PROVE Range(s) = Range(Tail(s)) \cup {Head(s)}
  <2>1. /\ DOMAIN s = 1 .. Len(s) /\ Len(s) \in Nat /\ Len(s) > 0
        /\ DOMAIN Tail(s) = 1 .. Len(s) - 1
        /\ \A i \in 1 .. Len(s) - 1 : Tail(s)[i] = s[i + 1]
        /\ Head(s) = s[1]
    BY <1>2, HeadTailProperties, LenProperties, EmptySeq
  <2>2. ASSUME NEW x \in Range(s) PROVE x \in Range(Tail(s)) \cup {Head(s)}
    <3>1. PICK i \in 1 .. Len(s) : x = s[i]
      BY <2>1 DEF Range
    <3>2. CASE i = 1
      BY <3>1, <3>2, <2>1
    <3>3. CASE i # 1
      <4>1. i - 1 \in 1 .. Len(s) - 1 /\ (i - 1) + 1 = i
        BY <2>1, <3>3
      <4>2. Tail(s)[i - 1] = x
        BY <4>1, <3>1, <2>1
      <4> QED BY <4>1, <4>2, <2>1 DEF Range
    <3> QED BY <3>2, <3>3
  <2>3. ASSUME NEW x \in Range(Tail(s)) \cup {Head(s)} PROVE x \in Range(s)
    BY <2>1 DEF Range
  <2> QED BY <2>2, <2>3
<1> QED BY <1>1, <1>2

\* The initial states.
LEMMA InitInvariant == Init => IInv
<1> SUFFICES ASSUME Init PROVE IInv
  OBVIOUS
<1>1. Buffered /\ Queue = <<>> /\ event_buffer.read_only = FALSE
  BY NewIsSound DEF Init, Buffered, Queue, New_queue
<1>2. Plain
  <2>1. /\ file \in 1 .. MaxFiles /\ rtc_file \in 0 .. file
        /\ delta_file \in 0 .. rtc_file /\ preTriggerEdge \in 0 .. MaxEvents
        /\ preTriggerTime = -1
    BY BoundAssumption DEF Init
  <2>2. /\ pc = "idle" /\ crop \in BOOLEAN /\ unknown_time_fix = {"HRT", "ABS"}
        /\ unknown_last_hrt = TRUE /\ unknown_last_rtc = TRUE
        /\ keepEvent = FALSE /\ interrupted = FALSE /\ tmp = NoEvent
    BY DEF Init
  <2> QED BY <2>1, <2>2 DEF Plain
<1>3. /\ read = <<>> /\ written = <<>> /\ lost = {} /\ written_frameno = 0
      /\ pc = "idle" /\ unknown_last_rtc /\ unknown_last_hrt /\ ~(preTriggerEdge > 0)
  BY DEF Init
<1>4. Lists /\ Reading /\ Ordering
  BY <1>1, <1>3, EmptySeq DEF Lists, Reading, Ordering, Range
<1>5. Of(file, "RTC") = {} /\ Of(file, "TRIGGER") = {}
  BY <1>3 DEF Of
<1>6. Draining /\ Knowing
  BY <1>1, <1>3, <1>5 DEF Draining, Knowing, Unknown
<1>7. Timing
  BY <1>1, <1>3 DEF Timing, Unknown, Range, Mistimed
<1>8. Numbering
  <2>1. Messages = {}
    BY <1>3 DEF Messages
  <2> QED BY <1>3, <2>1, FS_EmptySet DEF Numbering
<1>9. Cropping /\ Keeping
  BY <1>3 DEF Cropping, Keeping, Range
<1> QED BY <1>1, <1>2, <1>4, <1>6, <1>7, <1>8, <1>9 DEF IInv, Shape

\* What waits are events.
LEMMA QueueType ==
    ASSUME Buffered
    PROVE  /\ Queue \in Seq(Event) /\ Len(Queue) \in Nat
           /\ DOMAIN Queue = 1 .. Len(Queue)
           /\ event_buffer.read_only \in BOOLEAN
           /\ event_buffer.n_pushed_element = 0 <=> Queue = <<>>
<1>1. Queue \in Seq(Event) /\ event_buffer.read_only \in BOOLEAN
  BY ContentsType DEF Buffered, Queue, Sound, Buffers
<1>2. Len(Queue) \in Nat /\ DOMAIN Queue = 1 .. Len(Queue)
  BY <1>1, LenProperties
<1>3. Len(Queue) = 0 <=> Queue = <<>>
  BY <1>1, <1>2, EmptySeq
<1> QED BY <1>1, <1>2, <1>3 DEF Buffered

\* An event enters the buffer at its end.
LEMMA Entering ==
    ASSUME Buffered, NEW e \in Event, Buffer_event(e)
    PROVE  /\ Buffered' /\ Queue' = Append(Queue, e)
           /\ ~event_buffer.read_only /\ ~event_buffer'.read_only
<1> DEFINE q == event_buffer
           r == event_buffer'
<1>1. r = push(q, e) /\ ~q.read_only
  BY DEF Buffer_event
<1>2. Sound(q) /\ q.n_pushed_element = Len(Contents(q))
  BY DEF Buffered, Queue
<1>3. Contents(q) \in Seq(Event) /\ Len(Contents(q)) \in Nat
  BY <1>2, ContentsType, LenProperties
<1> HIDE DEF q, r
<1>4. /\ Sound(r) /\ ~r.read_only
      /\ r.n_pushed_element = q.n_pushed_element + 1
      /\ Contents(r) = Append(Contents(q), e)
  BY <1>1, <1>2, Pushes
<1>5. Len(Contents(r)) = Len(Contents(q)) + 1
  BY <1>3, <1>4, AppendProperties
<1>6. r.n_pushed_element = Len(Contents(r))
  BY <1>2, <1>3, <1>4, <1>5
<1> QED BY <1>1, <1>4, <1>6 DEF Buffered, Queue, q, r

\* An event leaves the buffer at its head.
LEMMA Leaving ==
    ASSUME Buffered, NEW e, Pop(e)
    PROVE  /\ Buffered' /\ Queue # <<>> /\ e = Head(Queue) /\ e \in Event
           /\ Queue' = Tail(Queue) /\ tmp' = e
           /\ event_buffer'.read_only = (Tail(Queue) # <<>>)
<1> DEFINE q == event_buffer
           r == event_buffer'
<1>1. /\ r = pop(q) /\ e = Popped(q) /\ q.n_pushed_element # 0 /\ tmp' = e
  BY DEF Pop
<1>2. Sound(q) /\ q.n_pushed_element = Len(Contents(q))
  BY DEF Buffered, Queue
<1>3. Contents(q) \in Seq(Event) /\ Contents(q) # <<>>
  BY <1>1, <1>2, ContentsType
<1> HIDE DEF q, r
<1>4. /\ Sound(r) /\ r.n_pushed_element = q.n_pushed_element - 1
      /\ e = Head(Contents(q)) /\ Contents(r) = Tail(Contents(q))
      /\ r.read_only = (Tail(Contents(q)) # <<>>)
  BY <1>1, <1>2, <1>3, Pops
<1>5. /\ Head(Contents(q)) \in Event
      /\ Len(Contents(r)) = Len(Contents(q)) - 1
  BY <1>3, <1>4, HeadTailProperties
<1>6. r.n_pushed_element = Len(Contents(r))
  BY <1>2, <1>4, <1>5
<1> QED BY <1>1, <1>3, <1>4, <1>5, <1>6 DEF Buffered, Queue, q, r

\* Or the buffer stays as it is.
LEMMA Resting ==
    ASSUME UNCHANGED event_buffer
    PROVE  Queue' = Queue /\ Buffered' = Buffered
  BY DEF Queue, Buffered

\* The types of the plain variables.
LEMMA PlainStep ==
    ASSUME Shape, [Next]_vars
    PROVE  Plain'
<1>0. /\ pc \in {"idle", "drain", "flush", "deleted"} /\ crop \in BOOLEAN
      /\ file \in 1 .. MaxFiles
      /\ unknown_time_fix \subseteq {"HRT", "ABS"}
      /\ unknown_last_hrt \in BOOLEAN /\ unknown_last_rtc \in BOOLEAN
      /\ rtc_file \in 0 .. file /\ delta_file \in 0 .. rtc_file
      /\ preTriggerTime \in PreTrigger \cup {-1}
      /\ preTriggerEdge \in 0 .. MaxEvents
      /\ keepEvent \in BOOLEAN /\ interrupted \in BOOLEAN
      /\ tmp \in Event \cup {NoEvent}
  BY DEF Shape, Plain
<1>1. ASSUME NEW e \in Event, Buffer_event(e) PROVE Plain'
  <2>0. /\ e.n \in 1 .. MaxEvents /\ e.pre \in PreTrigger /\ e.pre \in Nat
    BY PreTriggerAssumption DEF Event
  <2>1. /\ pc = "idle" /\ pc' \in {"idle", "drain"} /\ crop' = crop /\ file' = file
        /\ keepEvent' = keepEvent /\ interrupted' = interrupted /\ tmp' = tmp
    BY <1>1 DEF Buffer_event, Reads, Completes_times, history
  <2>2. /\ unknown_time_fix' \subseteq {"HRT", "ABS"}
        /\ unknown_last_hrt' \in BOOLEAN /\ unknown_last_rtc' \in BOOLEAN
    BY <1>0, <1>1 DEF Buffer_event, Time_fix
  <2>3. rtc_file' \in 0 .. file /\ rtc_file' >= rtc_file
    BY <1>0, <1>1 DEF Buffer_event
  <2>4. delta_file' \in 0 .. rtc_file'
    <3>1. delta_file' = rtc_file' \/ delta_file' = delta_file
      BY <1>1 DEF Buffer_event
    <3> QED BY <3>1, <2>3, <1>0
  <2>5. preTriggerTime' \in PreTrigger \cup {-1}
    BY <2>0, <1>0, <1>1 DEF Buffer_event, Pre_trigger
  <2>6. preTriggerEdge' \in 0 .. MaxEvents
    <3>1. \/ preTriggerEdge' = 0
          \/ ~(e.n < e.pre) /\ preTriggerEdge' = e.n - e.pre
      BY <1>1 DEF Buffer_event, Pre_trigger
    <3> QED BY <3>1, <2>0, BoundAssumption
  <2> QED BY <1>0, <2>1, <2>2, <2>3, <2>4, <2>5, <2>6 DEF Plain
<1>2. ASSUME NEW e \in Event, Buffer_refuses(e) \/ Write_through(e) PROVE Plain'
  <2>1. /\ pc' = pc /\ crop' = crop /\ file' = file /\ tmp' = tmp
        /\ interrupted' = interrupted /\ UNCHANGED times /\ UNCHANGED cropping
    BY <1>2 DEF Buffer_refuses, Write_through
  <2> QED BY <1>0, <2>1 DEF Plain, times, cropping
<1>3. ASSUME NEW e \in Event,
             Crop_event(e) \/ Write_buffered(e) \/ flush_event(e)
      PROVE  Plain'
  <2>1. tmp' = e
    BY <1>3 DEF Crop_event, Write_buffered, flush_event, Pop
  <2>2. /\ crop' = crop /\ file' = file /\ UNCHANGED times
        /\ preTriggerTime' = preTriggerTime /\ preTriggerEdge' = preTriggerEdge
    BY <1>3 DEF Crop_event, Write_buffered, flush_event, cropping
  <2>3. pc' \in {"idle", "drain", "flush", "deleted"}
    BY <1>0, <1>3 DEF Crop_event, Write_buffered, flush_event
  <2>4. keepEvent' \in BOOLEAN
    BY <1>0, <1>3 DEF Crop_event, Write_buffered, flush_event, cropping
  <2>5. interrupted' \in BOOLEAN
    BY <1>0, <1>3 DEF Crop_event, Write_buffered, flush_event, history
  <2> QED BY <1>0, <2>1, <2>2, <2>3, <2>4, <2>5 DEF Plain, times
<1>4. CASE Drained \/ kvlcDeleteConverter \/ Delete
  <2>1. /\ pc' \in {"idle", "flush", "deleted"} /\ crop' = crop /\ file' = file
        /\ tmp' = tmp
        /\ interrupted' = interrupted /\ UNCHANGED times /\ UNCHANGED cropping
    BY <1>4 DEF Drained, kvlcDeleteConverter, Delete, history
  <2> QED BY <1>0, <2>1 DEF Plain, times, cropping
<1>5. CASE next_file
  <2>1. /\ pc' = pc /\ crop' = crop /\ file' = file + 1 /\ file < MaxFiles
        /\ unknown_time_fix' = {"HRT", "ABS"} /\ unknown_last_hrt' = TRUE
        /\ unknown_last_rtc' = TRUE /\ rtc_file' = rtc_file
        /\ delta_file' = delta_file /\ preTriggerTime' = -1
        /\ preTriggerEdge' = preTriggerEdge /\ keepEvent' = FALSE
        /\ interrupted' = interrupted /\ tmp' = tmp
    BY <1>5 DEF next_file, Forget_times, history
  <2>2. file' \in 1 .. MaxFiles /\ rtc_file' \in 0 .. file'
    BY <1>0, <2>1, BoundAssumption
  <2> QED BY <1>0, <2>1, <2>2 DEF Plain
<1>6. CASE UNCHANGED vars
  BY <1>0, <1>6 DEF vars, times, cropping, history, Plain
<1> QED BY <1>1, <1>2, <1>3, <1>4, <1>5, <1>6 DEF Next, convert_event

\* Every step is one of these.
LEMMA Steps ==
    ASSUME Shape, [Next]_vars
    PROVE  \/ \E e \in Event : Buffer_event(e)
           \/ \E e \in Event : Buffer_refuses(e)
           \/ \E e \in Event : Write_through(e)
           \/ \E e \in Event : Crop_event(e)
           \/ \E e \in Event : Write_buffered(e)
           \/ \E e \in Event : flush_event(e)
           \/ Drained \/ next_file \/ kvlcDeleteConverter \/ Delete
           \/ UNCHANGED vars
  BY DEF Next, convert_event

\* The number of a frame.
LEMMA FrameType ==
    ASSUME Shape, NEW e
    PROVE  /\ Frame(e) \in Nat
           /\ Frame(e) = IF e.type = "MESSAGE" THEN written_frameno + 1
                         ELSE written_frameno
  BY DEF Shape, Lists, Frame

\* The buffer is sound.
LEMMA BufferedStep ==
    ASSUME Shape, [Next]_vars
    PROVE  Buffered'
<1>0. Buffered
  BY DEF Shape
<1>1. ASSUME NEW e \in Event, Buffer_event(e) PROVE Buffered'
  BY <1>0, <1>1, Entering
<1>2. ASSUME NEW e \in Event,
             Crop_event(e) \/ Write_buffered(e) \/ flush_event(e)
      PROVE  Buffered'
  <2>1. Pop(e)
    BY <1>2 DEF Crop_event, Write_buffered, flush_event
  <2> QED BY <1>0, <2>1, Leaving
<1>3. ASSUME NEW e \in Event, Buffer_refuses(e) \/ Write_through(e)
      PROVE  Buffered'
  <2>1. UNCHANGED event_buffer
    BY <1>3 DEF Buffer_refuses, Write_through
  <2> QED BY <1>0, <2>1, Resting
<1>4. CASE Drained \/ next_file \/ kvlcDeleteConverter \/ Delete \/ UNCHANGED vars
  <2>1. UNCHANGED event_buffer
    BY <1>4 DEF Drained, next_file, kvlcDeleteConverter, Delete, vars
  <2> QED BY <1>0, <2>1, Resting
<1> QED BY <1>1, <1>2, <1>3, <1>4, Steps

\* Events are appended to the input, by calls that read.
LEMMA ReadStep ==
    ASSUME Shape, [Next]_vars
    PROVE  \/ read' = read /\ file <= file'
           \/ \E e \in Event :
                  /\ Reads(e) /\ file' = file /\ pc' \in {"idle", "drain"}
                  /\ Buffer_event(e) \/ Buffer_refuses(e) \/ Write_through(e)
<1>0. file \in Nat
  BY DEF Shape, Plain
<1>1. ASSUME NEW e \in Event, Buffer_event(e)
      PROVE  Reads(e) /\ file' = file /\ pc' \in {"idle", "drain"}
  BY <1>1 DEF Buffer_event, Reads
<1>2. ASSUME NEW e \in Event, Buffer_refuses(e) \/ Write_through(e)
      PROVE  Reads(e) /\ file' = file /\ pc' \in {"idle", "drain"}
  BY <1>2 DEF Buffer_refuses, Write_through, Reads
<1>3. ASSUME NEW e \in Event, Crop_event(e) \/ Write_buffered(e) \/ flush_event(e)
      PROVE  read' = read /\ file' = file
  BY <1>3 DEF Crop_event, Write_buffered, flush_event
<1>4. CASE Drained \/ next_file \/ kvlcDeleteConverter \/ Delete \/ UNCHANGED vars
  <2>1. read' = read /\ (file' = file \/ file' = file + 1)
    BY <1>4 DEF Drained, next_file, kvlcDeleteConverter, Delete, vars
  <2> QED BY <2>1, <1>0
<1> QED BY <1>0, <1>1, <1>2, <1>3, <1>4, Steps

\* What is known of the input after a step.
LEMMA Input ==
    ASSUME Shape
    PROVE  /\ read \in Seq(Event) /\ Len(read) \in Nat
           /\ DOMAIN read = 1 .. Len(read) /\ file \in Nat
           /\ \A i \in 1 .. Len(read) : /\ read[i] \in Event /\ read[i].n = i
                                        /\ read[i].file \in Nat
                                        /\ read[i].file <= file
<1>1. read \in Seq(Event) /\ file \in Nat
  BY DEF Shape, Lists, Plain
<1>2. Len(read) \in Nat /\ DOMAIN read = 1 .. Len(read)
  BY <1>1, LenProperties
<1>3. \A i \in 1 .. Len(read) : read[i] \in Event
  BY <1>1, ElementOfSeq
<1>4. \A e \in Event : e.file \in Nat
  BY BoundAssumption DEF Event
<1> QED BY <1>1, <1>2, <1>3, <1>4 DEF Shape, Reading

\* What reading an event does.
LEMMA ReadMore ==
    ASSUME Shape, NEW e \in Event, Reads(e)
    PROVE  /\ read' \in Seq(Event) /\ Len(read') = Len(read) + 1
           /\ DOMAIN read' = 1 .. Len(read) + 1
           /\ \A i \in 1 .. Len(read) : read'[i] = read[i]
           /\ read'[Len(read) + 1] = e
           /\ Range(read') = Range(read) \cup {e}
           /\ e.n = Len(read) + 1 /\ e.file = file /\ pc = "idle"
<1>1. read' = Append(read, e) /\ e.n = Len(read) + 1 /\ e.file = file /\ pc = "idle"
  BY DEF Reads
<1>2. read \in Seq(Event) /\ Len(read) \in Nat
  BY Input
<1>3. Range(Append(read, e)) = Range(read) \cup {e}
  BY <1>2, RangeMoves
<1>4. /\ Append(read, e) \in Seq(Event) /\ Len(Append(read, e)) = Len(read) + 1
      /\ \A i \in 1 .. Len(read) : Append(read, e)[i] = read[i]
      /\ Append(read, e)[Len(read) + 1] = e
  BY <1>2, AppendProperties
<1>5. DOMAIN Append(read, e) = 1 .. Len(read) + 1
  BY <1>4, LenProperties
<1> QED BY <1>1, <1>3, <1>4, <1>5

\* The output is appended to.
LEMMA WriteStep ==
    ASSUME Shape, [Next]_vars
    PROVE  \/ written' = written
           \/ \E e \in Event :
                  /\ write_event(e)
                  /\ written_frameno' = Frame(e)
                  /\ lost' = lost /\ interrupted' = interrupted
                  /\ Write_through(e) \/ Write_buffered(e) \/ flush_event(e)
<1>1. ASSUME NEW e \in Event, Write_through(e)
      PROVE  \/ written' = written
             \/ /\ write_event(e) /\ written_frameno' = Frame(e)
                /\ lost' = lost /\ interrupted' = interrupted
  BY <1>1 DEF Write_through
<1>2. ASSUME NEW e \in Event, Write_buffered(e)
      PROVE  \/ written' = written
             \/ /\ write_event(e) /\ written_frameno' = Frame(e)
                /\ lost' = lost /\ interrupted' = interrupted
  BY <1>2 DEF Write_buffered, history
<1>3. ASSUME NEW e \in Event, flush_event(e)
      PROVE  \/ written' = written
             \/ /\ write_event(e) /\ written_frameno' = Frame(e)
                /\ lost' = lost /\ interrupted' = interrupted
  BY <1>3 DEF flush_event
<1>4. ASSUME NEW e \in Event, Buffer_event(e) \/ Buffer_refuses(e) \/ Crop_event(e)
      PROVE  written' = written
  BY <1>4 DEF Buffer_event, Buffer_refuses, Crop_event, output
<1>5. CASE Drained \/ next_file \/ kvlcDeleteConverter \/ Delete \/ UNCHANGED vars
  BY <1>5 DEF Drained, next_file, kvlcDeleteConverter, Delete, vars, output
<1> QED BY <1>1, <1>2, <1>3, <1>4, <1>5, Steps

\* What writing an event does.
LEMMA WriteMore ==
    ASSUME Shape, NEW e \in Event, write_event(e)
    PROVE  /\ written' \in Seq(Record) /\ Len(written) \in Nat
           /\ DOMAIN written = 1 .. Len(written)
           /\ DOMAIN written' = 1 .. Len(written) + 1
           /\ \A i \in 1 .. Len(written) : written'[i] = written[i]
           /\ written'[Len(written) + 1].event = e
           /\ written'[Len(written) + 1].frame_counter = Frame(e)
           /\ written'[Len(written) + 1].delta_file = delta_file
<1> DEFINE r == [event |-> e, frame_counter |-> Frame(e), delta_file |-> delta_file]
<1>1. Frame(e) \in Nat
  BY FrameType
<1>2. delta_file \in Nat /\ written \in Seq(Record)
  BY DEF Shape, Plain, Lists
<1>3. /\ r \in Record /\ r.event = e /\ r.frame_counter = Frame(e)
      /\ r.delta_file = delta_file
  BY <1>1, <1>2 DEF Record
<1>4. written' = Append(written, r)
  BY DEF write_event
<1> HIDE DEF r
<1>5. /\ Append(written, r) \in Seq(Record) /\ Len(Append(written, r)) = Len(written) + 1
      /\ \A i \in 1 .. Len(written) : Append(written, r)[i] = written[i]
      /\ Append(written, r)[Len(written) + 1] = r
  BY <1>2, <1>3, AppendProperties
<1>6. /\ DOMAIN Append(written, r) = 1 .. Len(written) + 1
      /\ Len(written) \in Nat /\ DOMAIN written = 1 .. Len(written)
  BY <1>2, <1>5, LenProperties
<1> QED BY <1>3, <1>4, <1>5, <1>6

\* What is popped was waiting and has been read.
LEMMA LeavingEvent ==
    ASSUME Shape, NEW e, Pop(e)
    PROVE  /\ Queue # <<>> /\ e = Head(Queue) /\ e \in Event
           /\ Queue' = Tail(Queue)
           /\ event_buffer'.read_only = (Queue' # <<>>)
           /\ Queue' \in Seq(Event) /\ Len(Queue') = Len(Queue) - 1
           /\ \A k \in 1 .. Len(Queue) - 1 : Queue'[k] = Queue[k + 1]
           /\ Range(Queue) = Range(Queue') \cup {e}
           /\ e \in Range(read)
           /\ Queue[1] = e
<1>1. Buffered
  BY DEF Shape
<1>2. /\ Queue # <<>> /\ e = Head(Queue) /\ e \in Event /\ Queue' = Tail(Queue)
      /\ event_buffer'.read_only = (Tail(Queue) # <<>>)
  BY <1>1, Leaving
<1>3. Queue \in Seq(Event)
  BY <1>1, QueueType
<1> DEFINE s == Queue
<1> HIDE DEF s
<1>4. s \in Seq(Event) /\ s # <<>>
  BY <1>2, <1>3 DEF s
<1>5. /\ Tail(s) \in Seq(Event) /\ Len(Tail(s)) = Len(s) - 1
      /\ \A i \in 1 .. Len(Tail(s)) : Tail(s)[i] = s[i + 1]
  BY <1>4, HeadTailProperties
<1>6. Range(s) = Range(Tail(s)) \cup {Head(s)}
  <2>1. Head(s) \in Event
    BY <1>4, HeadTailProperties
  <2> QED BY <2>1, <1>4, RangeMoves
<1>7. Range(s) \subseteq Range(read)
  BY DEF Shape, Reading, s
<1>8. Head(s) = s[1]
  BY <1>4
<1> QED BY <1>2, <1>5, <1>6, <1>7, <1>8 DEF s

\* A range that has an element of every sequence it is of.
LEMMA SeqOfRead ==
    ASSUME NEW S, NEW s \in Seq(S), NEW k \in DOMAIN s
    PROVE  s[k] \in Range(s) /\ s[k] \in S
  BY LenProperties, ElementOfSeq DEF Range

\* The types of the lists.
LEMMA ListsStep ==
    ASSUME Shape, [Next]_vars
    PROVE  Lists'
<1>0. /\ read \in Seq(Event) /\ written \in Seq(Record)
      /\ written_frameno \in Nat /\ lost \subseteq Range(read)
      /\ Range(Queue) \subseteq Range(read)
  BY DEF Shape, Lists, Reading
<1>1. read' \in Seq(Event) /\ Range(read) \subseteq Range(read')
  BY <1>0, ReadStep, ReadMore
<1>2. written' \in Seq(Record)
  BY <1>0, WriteStep, WriteMore
<1>3. written_frameno' \in Nat
  <2>1. ASSUME NEW e \in Event,
               Write_through(e) \/ Write_buffered(e) \/ flush_event(e)
        PROVE  written_frameno' \in Nat
    BY <2>1, FrameType DEF Write_through, Write_buffered, flush_event
  <2>2. ASSUME NEW e \in Event, Buffer_event(e) \/ Buffer_refuses(e) \/ Crop_event(e)
        PROVE  written_frameno' = written_frameno
    BY <2>2 DEF Buffer_event, Buffer_refuses, Crop_event, output
  <2>3. CASE Drained \/ next_file \/ kvlcDeleteConverter \/ Delete \/ UNCHANGED vars
    BY <1>0, <2>3 DEF Drained, next_file, kvlcDeleteConverter, Delete, vars, output
  <2> QED BY <1>0, <2>1, <2>2, <2>3, Steps
<1>4. lost' \subseteq Range(read')
  <2>1. ASSUME NEW e \in Event, Buffer_refuses(e) \/ Write_through(e)
        PROVE  lost' \subseteq Range(read')
    <3>1. Reads(e) /\ (lost' = lost \/ lost' = lost \cup {e})
      BY <2>1 DEF Buffer_refuses, Write_through, Fails
    <3>2. Range(read') = Range(read) \cup {e}
      BY <3>1, ReadMore
    <3> QED BY <3>1, <3>2, <1>0
  <2>2. ASSUME NEW e \in Event, Write_buffered(e) \/ flush_event(e)
        PROVE  lost' \subseteq Range(read')
    <3>1. /\ Pop(e) /\ read' = read
          /\ \/ lost' = lost \/ lost' = lost \cup {e}
             \/ lost' = lost \cup Range(Queue)
      BY <2>2 DEF Write_buffered, flush_event, Fails, history, Queue
    <3>2. e \in Range(read)
      BY <3>1, LeavingEvent
    <3> QED BY <3>1, <3>2, <1>0
  <2>3. ASSUME NEW e \in Event, Buffer_event(e) \/ Crop_event(e)
        PROVE  lost' = lost
    BY <2>3 DEF Buffer_event, Crop_event, history
  <2>4. CASE Drained \/ next_file \/ kvlcDeleteConverter \/ Delete \/ UNCHANGED vars
    BY <1>0, <2>4 DEF Drained, next_file, kvlcDeleteConverter, Delete, vars, history
  <2> QED BY <1>0, <1>1, <2>1, <2>2, <2>3, <2>4, Steps
<1> QED BY <1>1, <1>2, <1>3, <1>4 DEF Lists

\* Events are numbered as they are read.
LEMMA ReadingStep ==
    ASSUME Shape, [Next]_vars
    PROVE  Reading'
<1>0. /\ Range(Queue) \subseteq Range(read)
      /\ \A i \in DOMAIN written : written[i].event \in Range(read)
      /\ written_frameno + Len(Queue) <= Len(read)
      /\ written_frameno \in Nat /\ Len(Queue) \in Nat /\ Len(read) \in Nat
      /\ Queue \in Seq(Event) /\ Buffered
  BY QueueType, Input DEF Shape, Lists, Reading
<1>1. \A i \in DOMAIN read' : read'[i].n = i /\ read'[i].file <= file'
  <2>1. CASE read' = read /\ file <= file'
    <3>1. file' \in Nat
      BY PlainStep DEF Plain
    <3>2. ASSUME NEW i \in DOMAIN read' PROVE read'[i].n = i /\ read'[i].file <= file'
      <4>1. i \in 1 .. Len(read) /\ read'[i] = read[i]
        BY <2>1, Input
      <4>2. /\ read[i].n = i /\ read[i].file \in Nat
            /\ read[i].file <= file /\ file \in Nat
        BY <4>1, Input
      <4> QED BY <4>1, <4>2, <3>1, <2>1
    <3> QED BY <3>2
  <2>2. ASSUME NEW e \in Event, Reads(e), file' = file
        PROVE  \A i \in DOMAIN read' : read'[i].n = i /\ read'[i].file <= file'
    <3>1. ASSUME NEW i \in 1 .. Len(read) PROVE read'[i].n = i /\ read'[i].file <= file'
      BY <2>2, ReadMore, Input
    <3>2. LET i == Len(read) + 1 IN read'[i].n = i /\ read'[i].file <= file'
      BY <2>2, ReadMore, Input
    <3>3. DOMAIN read' = 1 .. Len(read) + 1
      BY <2>2, ReadMore
    <3> QED BY <3>1, <3>2, <3>3, <1>0
  <2> QED BY <2>1, <2>2, ReadStep
<1>2. Range(read) \subseteq Range(read')
  BY ReadStep, ReadMore
<1>3. Range(Queue') \subseteq Range(read') /\ written_frameno' + Len(Queue') <= Len(read')
  <2>1. ASSUME NEW e \in Event, Buffer_event(e)
        PROVE  /\ Range(Queue') \subseteq Range(read')
               /\ written_frameno' + Len(Queue') <= Len(read')
    <3>1. Queue' = Append(Queue, e) /\ Reads(e) /\ written_frameno' = written_frameno
      BY <1>0, <2>1, Entering DEF Buffer_event, output
    <3>2. Range(read') = Range(read) \cup {e} /\ Len(read') = Len(read) + 1
      BY <3>1, ReadMore
    <3>3. Range(Queue') = Range(Queue) \cup {e}
      BY <1>0, <3>1, RangeMoves
    <3>4. Len(Queue') = Len(Queue) + 1
      BY <1>0, <3>1, AppendProperties
    <3> QED BY <1>0, <3>1, <3>2, <3>3, <3>4
  <2>2. ASSUME NEW e \in Event, Buffer_refuses(e) \/ Write_through(e)
        PROVE  /\ Range(Queue') \subseteq Range(read')
               /\ written_frameno' + Len(Queue') <= Len(read')
    <3>1. /\ UNCHANGED event_buffer /\ Reads(e)
          /\ written_frameno' = written_frameno \/ written_frameno' = Frame(e)
      BY <2>2 DEF Buffer_refuses, Write_through, output
    <3>2. Range(read') = Range(read) \cup {e} /\ Len(read') = Len(read) + 1
      BY <3>1, ReadMore
    <3>3. Queue' = Queue
      BY <3>1, Resting
    <3>4. written_frameno' <= written_frameno + 1 /\ written_frameno' \in Nat
      BY <1>0, <3>1, FrameType
    <3> QED BY <1>0, <3>1, <3>2, <3>3, <3>4
  <2>3. ASSUME NEW e \in Event, Crop_event(e) \/ Write_buffered(e) \/ flush_event(e)
        PROVE  /\ Range(Queue') \subseteq Range(read')
               /\ written_frameno' + Len(Queue') <= Len(read')
    <3>1. /\ Pop(e) /\ read' = read
          /\ written_frameno' = written_frameno \/ written_frameno' = Frame(e)
      BY <2>3 DEF Crop_event, Write_buffered, flush_event, output
    <3>2. Range(Queue') \subseteq Range(Queue) /\ Len(Queue') = Len(Queue) - 1
      BY <3>1, LeavingEvent
    <3>3. written_frameno' <= written_frameno + 1 /\ written_frameno' \in Nat
      BY <1>0, <3>1, FrameType
    <3> QED BY <1>0, <3>1, <3>2, <3>3
  <2>4. CASE Drained \/ next_file \/ kvlcDeleteConverter \/ Delete \/ UNCHANGED vars
    <3>1. UNCHANGED event_buffer /\ read' = read /\ written_frameno' = written_frameno
      BY <2>4 DEF Drained, next_file, kvlcDeleteConverter, Delete, vars, output
    <3>2. Queue' = Queue
      BY <3>1, Resting
    <3> QED BY <1>0, <3>1, <3>2
  <2> QED BY <2>1, <2>2, <2>3, <2>4, Steps
<1>4. \A i \in DOMAIN written' : written'[i].event \in Range(read')
  <2>1. CASE written' = written
    BY <2>1, <1>0, <1>2
  <2>2. ASSUME NEW e \in Event, write_event(e),
               Write_through(e) \/ Write_buffered(e) \/ flush_event(e)
        PROVE  \A i \in DOMAIN written' : written'[i].event \in Range(read')
    <3>1. e \in Range(read')
      <4>1. CASE Write_through(e)
        BY <4>1, ReadMore DEF Write_through
      <4>2. CASE Write_buffered(e) \/ flush_event(e)
        <5>1. Pop(e)
          BY <4>2 DEF Write_buffered, flush_event
        <5> QED BY <5>1, LeavingEvent, <1>2
      <4> QED BY <2>2, <4>1, <4>2
    <3>2. /\ DOMAIN written = 1 .. Len(written) /\ Len(written) \in Nat
          /\ DOMAIN written' = 1 .. Len(written) + 1
          /\ \A i \in 1 .. Len(written) : written'[i] = written[i]
          /\ written'[Len(written) + 1].event = e
      BY <2>2, WriteMore
    <3>3. ASSUME NEW i \in 1 .. Len(written) PROVE written'[i].event \in Range(read')
      BY <3>2, <1>0, <1>2
    <3> QED BY <3>1, <3>2, <3>3
  <2> QED BY <2>1, <2>2, WriteStep
<1> QED BY <1>1, <1>3, <1>4 DEF Reading

\* The shape stays.
LEMMA ShapeStep ==
    ASSUME Shape, [Next]_vars
    PROVE  Shape'
  BY BufferedStep, PlainStep, ListsStep, ReadingStep DEF Shape

----------------------------------------------------------------------------
(* The order of the events.                                                 *)

\* What waits was read before what is read now.
LEMMA NumbersRead ==
    ASSUME Shape
    PROVE  /\ \A e \in Range(read) : e.n \in 1 .. Len(read)
           /\ \A k \in DOMAIN Queue : Queue[k] \in Range(read)
           /\ \A i \in DOMAIN written : written[i].event \in Range(read)
<1>1. \A e \in Range(read) : e.n \in 1 .. Len(read)
  BY Input DEF Range
<1>2. \A k \in DOMAIN Queue : Queue[k] \in Range(read)
  <2>1. Range(Queue) \subseteq Range(read)
    BY DEF Shape, Reading
  <2> QED BY <2>1 DEF Range
<1> QED BY <1>1, <1>2 DEF Shape, Reading

\* What waits stays in order.
LEMMA QueueOrder ==
    ASSUME Shape, Ordering, [Next]_vars
    PROVE  \A j, k \in DOMAIN Queue' : j < k => Queue'[j].n < Queue'[k].n
<1>0. /\ Queue \in Seq(Event) /\ Len(Queue) \in Nat /\ DOMAIN Queue = 1 .. Len(Queue)
      /\ \A j, k \in 1 .. Len(Queue) : j < k => Queue[j].n < Queue[k].n
  BY QueueType DEF Shape, Ordering
<1>1. ASSUME NEW e \in Event, Buffer_event(e)
      PROVE  \A j, k \in DOMAIN Queue' : j < k => Queue'[j].n < Queue'[k].n
  <2>1. Queue' = Append(Queue, e) /\ Reads(e)
    BY <1>1, Entering DEF Shape, Buffer_event
  <2>2. /\ DOMAIN Queue' = 1 .. Len(Queue) + 1
        /\ \A k \in 1 .. Len(Queue) : Queue'[k] = Queue[k]
        /\ Queue'[Len(Queue) + 1] = e
    BY <1>0, <2>1, AppendProperties, LenProperties
  <2>3. e.n = Len(read) + 1 /\ Len(read) \in Nat
    BY <2>1, ReadMore, Input
  <2>4. \A k \in 1 .. Len(Queue) : Queue[k].n \in 1 .. Len(read)
    BY <1>0, NumbersRead
  <2>5. ASSUME NEW j \in 1 .. Len(Queue) + 1, NEW k \in 1 .. Len(Queue) + 1, j < k
        PROVE  Queue'[j].n < Queue'[k].n
    <3>1. j \in 1 .. Len(Queue)
      BY <1>0, <2>5
    <3>2. CASE k = Len(Queue) + 1
      BY <2>2, <2>3, <2>4, <3>1, <3>2
    <3>3. CASE k # Len(Queue) + 1
      <4>1. k \in 1 .. Len(Queue)
        BY <1>0, <3>3
      <4> QED BY <4>1, <3>1, <2>2, <1>0, <2>5
    <3> QED BY <3>2, <3>3
  <2> QED BY <2>2, <2>5
<1>2. ASSUME NEW e \in Event, Crop_event(e) \/ Write_buffered(e) \/ flush_event(e)
      PROVE  \A j, k \in DOMAIN Queue' : j < k => Queue'[j].n < Queue'[k].n
  <2>1. Pop(e)
    BY <1>2 DEF Crop_event, Write_buffered, flush_event
  <2>2. /\ Queue' \in Seq(Event) /\ Len(Queue') = Len(Queue) - 1
        /\ \A k \in 1 .. Len(Queue) - 1 : Queue'[k] = Queue[k + 1]
    BY <2>1, LeavingEvent
  <2>3. DOMAIN Queue' = 1 .. Len(Queue) - 1
    BY <2>2, LenProperties
  <2>4. ASSUME NEW j \in 1 .. Len(Queue) - 1, NEW k \in 1 .. Len(Queue) - 1, j < k
        PROVE  Queue'[j].n < Queue'[k].n
    <3>1. j + 1 \in 1 .. Len(Queue) /\ k + 1 \in 1 .. Len(Queue) /\ j + 1 < k + 1
      BY <1>0, <2>4
    <3>2. Queue[j + 1].n < Queue[k + 1].n
      BY <3>1, <1>0
    <3> QED BY <3>2, <2>2
  <2> QED BY <2>3, <2>4
<1>3. ASSUME NEW e \in Event, Buffer_refuses(e) \/ Write_through(e)
      PROVE  Queue' = Queue
  BY <1>3, Resting DEF Buffer_refuses, Write_through
<1>4. CASE Drained \/ next_file \/ kvlcDeleteConverter \/ Delete \/ UNCHANGED vars
  <2>1. Queue' = Queue
    BY <1>4, Resting DEF Drained, next_file, kvlcDeleteConverter, Delete, vars
  <2> QED BY <2>1 DEF Ordering
<1> QED BY <1>1, <1>2, <1>3, <1>4, Steps DEF Ordering

\* A failed write stays failed.
LEMMA InterruptedStays ==
    ASSUME Shape, [Next]_vars, interrupted
    PROVE  interrupted'
<1>1. ASSUME NEW e \in Event,
             \/ Buffer_event(e) \/ Buffer_refuses(e) \/ Write_through(e)
             \/ Crop_event(e) \/ flush_event(e)
      PROVE  interrupted' = interrupted
  BY <1>1 DEF Buffer_event, Buffer_refuses, Write_through, Crop_event, flush_event, history
<1>2. ASSUME NEW e \in Event, Write_buffered(e)
      PROVE  interrupted'
  BY <1>2 DEF Write_buffered, history
<1>3. CASE Drained \/ next_file \/ kvlcDeleteConverter \/ Delete \/ UNCHANGED vars
  BY <1>3 DEF Drained, next_file, kvlcDeleteConverter, Delete, vars, history
<1> QED BY <1>1, <1>2, <1>3, Steps

\* The output stays in order, ahead of what waits.
LEMMA OutputOrder ==
    ASSUME Shape, Ordering, Draining, [Next]_vars, ~interrupted'
    PROVE  /\ \A i, j \in DOMAIN written' :
                  i < j => written'[i].event.n < written'[j].event.n
           /\ \A i \in DOMAIN written', k \in DOMAIN Queue' :
                  written'[i].event.n < Queue'[k].n
<1>0. /\ Queue \in Seq(Event) /\ Len(Queue) \in Nat /\ DOMAIN Queue = 1 .. Len(Queue)
      /\ \A j, k \in DOMAIN Queue : j < k => Queue[j].n < Queue[k].n
      /\ \A i, j \in DOMAIN written : i < j => written[i].event.n < written[j].event.n
      /\ \A i \in DOMAIN written, k \in DOMAIN Queue :
             written[i].event.n < Queue[k].n
      /\ ~interrupted /\ Len(read) \in Nat
  BY QueueType, Input, InterruptedStays DEF Shape, Ordering
<1>1. ASSUME NEW e \in Event, Pop(e)
      PROVE  \A i \in DOMAIN written, k \in DOMAIN Queue' :
                 written[i].event.n < Queue'[k].n
  <2>1. /\ Queue' \in Seq(Event) /\ Len(Queue') = Len(Queue) - 1
        /\ \A k \in 1 .. Len(Queue) - 1 : Queue'[k] = Queue[k + 1]
    BY <1>1, LeavingEvent
  <2>2. DOMAIN Queue' = 1 .. Len(Queue) - 1
    BY <2>1, LenProperties
  <2>3. ASSUME NEW i \in DOMAIN written, NEW k \in 1 .. Len(Queue) - 1
        PROVE  written[i].event.n < Queue'[k].n
    <3>1. k + 1 \in DOMAIN Queue
      BY <1>0
    <3> QED BY <3>1, <2>1, <1>0
  <2> QED BY <2>2, <2>3
<1>2. CASE written' = written
  <2>1. ASSUME NEW e \in Event, Buffer_event(e)
        PROVE  \A i \in DOMAIN written, k \in DOMAIN Queue' :
                   written[i].event.n < Queue'[k].n
    <3>1. Queue' = Append(Queue, e) /\ Reads(e)
      BY <2>1, Entering DEF Shape, Buffer_event
    <3>2. /\ DOMAIN Queue' = 1 .. Len(Queue) + 1
          /\ \A k \in 1 .. Len(Queue) : Queue'[k] = Queue[k]
          /\ Queue'[Len(Queue) + 1] = e
      BY <1>0, <3>1, AppendProperties, LenProperties
    <3>3. e.n = Len(read) + 1
      BY <3>1, ReadMore
    <3>4. \A i \in DOMAIN written : written[i].event.n \in 1 .. Len(read)
      BY NumbersRead
    <3>5. ASSUME NEW i \in DOMAIN written, NEW k \in 1 .. Len(Queue) + 1
          PROVE  written[i].event.n < Queue'[k].n
      <4>1. CASE k = Len(Queue) + 1
        BY <3>2, <3>3, <3>4, <4>1, <1>0
      <4>2. CASE k # Len(Queue) + 1
        <5>1. k \in 1 .. Len(Queue)
          BY <1>0, <4>2
        <5> QED BY <5>1, <3>2, <1>0
      <4> QED BY <4>1, <4>2
    <3> QED BY <3>2, <3>5
  <2>2. ASSUME NEW e \in Event, Crop_event(e) \/ Write_buffered(e) \/ flush_event(e)
        PROVE  \A i \in DOMAIN written, k \in DOMAIN Queue' :
                   written[i].event.n < Queue'[k].n
    BY <2>2, <1>1 DEF Crop_event, Write_buffered, flush_event
  <2>3. ASSUME NEW e \in Event, Buffer_refuses(e) \/ Write_through(e)
        PROVE  Queue' = Queue
    BY <2>3, Resting DEF Buffer_refuses, Write_through
  <2>4. ASSUME Drained \/ next_file \/ kvlcDeleteConverter \/ Delete \/ UNCHANGED vars
        PROVE  Queue' = Queue
    BY <2>4, Resting DEF Drained, next_file, kvlcDeleteConverter, Delete, vars
  <2>5. \A i \in DOMAIN written, k \in DOMAIN Queue' : written[i].event.n < Queue'[k].n
    BY <1>0, <2>1, <2>2, <2>3, <2>4, Steps
  <2> QED BY <1>0, <1>2, <2>5
<1>3. ASSUME NEW e \in Event, write_event(e),
             \A i \in DOMAIN written : written[i].event.n < e.n,
             \A k \in DOMAIN Queue' : e.n < Queue'[k].n,
             \A i \in DOMAIN written, k \in DOMAIN Queue' :
                 written[i].event.n < Queue'[k].n
      PROVE  /\ \A i, j \in DOMAIN written' :
                    i < j => written'[i].event.n < written'[j].event.n
             /\ \A i \in DOMAIN written', k \in DOMAIN Queue' :
                    written'[i].event.n < Queue'[k].n
  <2>1. /\ DOMAIN written = 1 .. Len(written) /\ Len(written) \in Nat
        /\ DOMAIN written' = 1 .. Len(written) + 1
        /\ \A i \in 1 .. Len(written) : written'[i] = written[i]
        /\ written'[Len(written) + 1].event = e
    BY <1>3, WriteMore
  <2>2. ASSUME NEW i \in 1 .. Len(written) + 1, NEW j \in 1 .. Len(written) + 1, i < j
        PROVE  written'[i].event.n < written'[j].event.n
    <3>1. i \in 1 .. Len(written)
      BY <2>1, <2>2
    <3>2. CASE j = Len(written) + 1
      BY <2>1, <3>1, <3>2, <1>3
    <3>3. CASE j # Len(written) + 1
      <4>1. j \in 1 .. Len(written)
        BY <2>1, <3>3
      <4> QED BY <4>1, <3>1, <2>1, <2>2, <1>0
    <3> QED BY <3>2, <3>3
  <2>3. ASSUME NEW i \in 1 .. Len(written) + 1, NEW k \in DOMAIN Queue'
        PROVE  written'[i].event.n < Queue'[k].n
    <3>2. CASE i = Len(written) + 1
      BY <2>1, <3>2, <1>3
    <3>3. CASE i # Len(written) + 1
      <4>1. i \in 1 .. Len(written)
        BY <2>1, <3>3
      <4> QED BY <4>1, <2>1, <1>3
    <3> QED BY <3>2, <3>3
  <2> QED BY <2>1, <2>2, <2>3
<1>4. ASSUME NEW e \in Event, write_event(e), Write_buffered(e) \/ flush_event(e)
      PROVE  /\ \A i, j \in DOMAIN written' :
                    i < j => written'[i].event.n < written'[j].event.n
             /\ \A i \in DOMAIN written', k \in DOMAIN Queue' :
                    written'[i].event.n < Queue'[k].n
  <2>1. Pop(e)
    BY <1>4 DEF Write_buffered, flush_event
  <2>2. /\ Queue[1] = e /\ Queue # <<>>
        /\ Queue' \in Seq(Event) /\ Len(Queue') = Len(Queue) - 1
        /\ \A k \in 1 .. Len(Queue) - 1 : Queue'[k] = Queue[k + 1]
    BY <2>1, LeavingEvent
  <2>3. 1 \in DOMAIN Queue
    BY <1>0, <2>2, EmptySeq
  <2>4. \A i \in DOMAIN written : written[i].event.n < e.n
    BY <1>0, <2>2, <2>3
  <2>5. \A k \in DOMAIN Queue' : e.n < Queue'[k].n
    <3>1. DOMAIN Queue' = 1 .. Len(Queue) - 1
      BY <2>2, LenProperties
    <3>2. ASSUME NEW k \in 1 .. Len(Queue) - 1 PROVE e.n < Queue'[k].n
      <4>1. k + 1 \in DOMAIN Queue /\ 1 < k + 1
        BY <1>0
      <4> QED BY <4>1, <2>2, <2>3, <1>0
    <3> QED BY <3>1, <3>2
  <2> QED BY <1>1, <1>3, <1>4, <2>1, <2>4, <2>5
<1>5. ASSUME NEW e \in Event, write_event(e), Write_through(e)
      PROVE  /\ \A i, j \in DOMAIN written' :
                    i < j => written'[i].event.n < written'[j].event.n
             /\ \A i \in DOMAIN written', k \in DOMAIN Queue' :
                    written'[i].event.n < Queue'[k].n
  <2>1. Reads(e) /\ ~Unknown /\ UNCHANGED event_buffer
    BY <1>5 DEF Write_through
  <2>2. e.n = Len(read) + 1 /\ pc = "idle"
    BY <2>1, ReadMore
  <2>3. \A i \in DOMAIN written : written[i].event.n < e.n
    <3>1. \A i \in DOMAIN written : written[i].event.n \in 1 .. Len(read)
      BY NumbersRead
    <3> QED BY <3>1, <2>2, <1>0
  <2>4. Queue = <<>>
    BY <1>0, <2>1, <2>2 DEF Draining
  <2>5. DOMAIN Queue' = {}
    <3>1. Queue' = <<>>
      BY <2>1, <2>4, Resting
    <3> QED BY <3>1
  <2> QED BY <1>3, <1>5, <2>3, <2>5
<1> QED BY <1>2, <1>4, <1>5, WriteStep

\* The order stays.
LEMMA OrderingStep ==
    ASSUME Shape, Ordering, Draining, [Next]_vars
    PROVE  Ordering'
<1>1. \A j, k \in DOMAIN Queue' : j < k => Queue'[j].n < Queue'[k].n
  BY QueueOrder
<1>2. ASSUME ~interrupted'
      PROVE  /\ \A i, j \in DOMAIN written' :
                    i < j => written'[i].event.n < written'[j].event.n
             /\ \A i \in DOMAIN written', k \in DOMAIN Queue' :
                    written'[i].event.n < Queue'[k].n
  BY <1>2, OutputOrder
<1> QED BY <1>1, <1>2, Zenon DEF Ordering

----------------------------------------------------------------------------
(* The buffer and the times.                                                *)

\* While blocks come back the buffer is not empty.
LEMMA ReadOnlyHolds ==
    ASSUME Buffered, event_buffer.read_only
    PROVE  Queue # <<>>
  BY PopsOfBlock DEF Buffered, Queue

\* When the buffer is drained.
LEMMA DrainingStep ==
    ASSUME Shape, Draining, [Next]_vars
    PROVE  Draining'
<1>0. /\ pc = "drain" => ~Unknown
      /\ pc = "idle" /\ event_buffer.read_only => interrupted
      /\ pc = "idle" /\ ~event_buffer.read_only /\ ~Unknown => Queue = <<>>
      /\ Buffered
  BY DEF Shape, Draining
<1>1. ASSUME NEW e \in Event, Buffer_event(e) PROVE Draining'
  <2>1. ~event_buffer'.read_only
    BY <1>0, <1>1, Entering
  <2>2. \/ pc' = "drain" /\ ~Unknown'
        \/ pc' = "idle" /\ Unknown'
    BY <1>1 DEF Buffer_event, Completes_times, Reads
  <2> QED BY <2>1, <2>2 DEF Draining
<1>2. ASSUME NEW e \in Event, Buffer_refuses(e) \/ Write_through(e) PROVE Draining'
  <2>1. /\ UNCHANGED event_buffer /\ pc' = pc /\ UNCHANGED times
        /\ interrupted' = interrupted
    BY <1>2 DEF Buffer_refuses, Write_through
  <2>2. Queue' = Queue /\ Unknown' = Unknown
    BY <2>1, Resting DEF times, Unknown
  <2> QED BY <2>1, <2>2, <1>0 DEF Draining
<1>3. ASSUME NEW e \in Event, Crop_event(e) PROVE Draining'
  <2>1. pc = "drain" /\ pc' = "drain" /\ UNCHANGED times
    BY <1>3 DEF Crop_event
  <2>2. Unknown' = Unknown
    BY <2>1 DEF times, Unknown
  <2> QED BY <2>1, <2>2, <1>0 DEF Draining
<1>4. ASSUME NEW e \in Event, Write_buffered(e) PROVE Draining'
  <2>1. /\ pc = "drain" /\ Pop(e) /\ UNCHANGED times
        /\ \/ pc' = "drain"
           \/ pc' = "idle" /\ interrupted'
    BY <1>4 DEF Write_buffered
  <2>2. Unknown' = Unknown
    BY <2>1 DEF times, Unknown
  <2>3. event_buffer'.read_only = (Queue' # <<>>)
    BY <2>1, LeavingEvent
  <2> QED BY <2>1, <2>2, <2>3, <1>0 DEF Draining
<1>5. ASSUME NEW e \in Event, flush_event(e) PROVE Draining'
  <2>1. pc' \in {"flush", "deleted"}
    BY <1>5 DEF flush_event
  <2> QED BY <2>1 DEF Draining
<1>6. CASE Drained
  <2>1. UNCHANGED event_buffer /\ event_buffer.n_pushed_element = 0 /\ pc' = "idle"
    BY <1>6 DEF Drained
  <2>2. Queue' = <<>> /\ Queue = <<>>
    BY <2>1, <1>0, Resting, QueueType
  <2>3. ~event_buffer'.read_only
    BY <2>1, <2>2, <1>0, ReadOnlyHolds
  <2> QED BY <2>1, <2>2, <2>3 DEF Draining
<1>7. CASE next_file
  <2>1. /\ UNCHANGED event_buffer /\ pc = "idle" /\ pc' = "idle"
        /\ interrupted' = interrupted /\ unknown_last_rtc' = TRUE
    BY <1>7 DEF next_file, Forget_times, history
  <2> QED BY <2>1, <1>0 DEF Draining, Unknown
<1>8. CASE kvlcDeleteConverter \/ Delete
  <2>1. pc' \in {"flush", "deleted"}
    BY <1>8 DEF kvlcDeleteConverter, Delete
  <2> QED BY <2>1 DEF Draining
<1>9. CASE UNCHANGED vars
  <2>1. UNCHANGED event_buffer /\ pc' = pc /\ UNCHANGED times /\ interrupted' = interrupted
    BY <1>9 DEF vars, history
  <2>2. Queue' = Queue /\ Unknown' = Unknown
    BY <2>1, Resting DEF times, Unknown
  <2> QED BY <2>1, <2>2, <1>0 DEF Draining
<1> QED BY <1>1, <1>2, <1>3, <1>4, <1>5, <1>6, <1>7, <1>8, <1>9, Steps

\* What a file has shown are numbers of events.
LEMMA OfType ==
    ASSUME Shape, NEW f, NEW type
    PROVE  /\ Of(f, type) \subseteq 1 .. Len(read)
           /\ \A i \in 1 .. Len(read) :
                  i \in Of(f, type) <=> read[i].file = f /\ read[i].type = type
  BY Input DEF Of

\* Reading an event adds it.
LEMMA OfReads ==
    ASSUME Shape, NEW e \in Event, Reads(e), NEW f, NEW type
    PROVE  Of(f, type)' = IF e.file = f /\ e.type = type
                          THEN Of(f, type) \cup {Len(read) + 1} ELSE Of(f, type)
<1>1. /\ DOMAIN read' = 1 .. Len(read) + 1 /\ Len(read) \in Nat
      /\ \A i \in 1 .. Len(read) : read'[i] = read[i]
      /\ read'[Len(read) + 1] = e
  BY ReadMore, Input
<1>2. Of(f, type)' = {i \in DOMAIN read' : read'[i].file = f /\ read'[i].type = type}
  BY DEF Of
<1> DEFINE A == Of(f, type)
           B == Of(f, type)'
<1>3. ASSUME NEW i \in 1 .. Len(read) PROVE i \in B <=> i \in A
  <2>1. i \in 1 .. Len(read) + 1
    BY <1>1
  <2> QED BY <2>1, <1>1, <1>2, OfType
<1>4. Len(read) + 1 \in B <=> e.file = f /\ e.type = type
  BY <1>1, <1>2
<1>5. A \subseteq 1 .. Len(read) /\ B \subseteq 1 .. Len(read) + 1
  BY <1>1, <1>2, OfType
<1> HIDE DEF A, B
<1>6. ASSUME NEW i \in 1 .. Len(read) + 1, i # Len(read) + 1
      PROVE  i \in 1 .. Len(read)
  BY <1>1, <1>6
<1>7. CASE e.file = f /\ e.type = type
  <2>1. B = A \cup {Len(read) + 1}
    BY <1>3, <1>4, <1>5, <1>6, <1>7
  <2> QED BY <2>1, <1>7 DEF A, B
<1>8. CASE ~(e.file = f /\ e.type = type)
  <2>1. B = A
    <3>1. \A i \in B : i \in A
      BY <1>3, <1>4, <1>5, <1>6, <1>8
    <3>2. \A i \in A : i \in B
      BY <1>3, <1>5
    <3> QED BY <3>1, <3>2
  <2> QED BY <2>1, <1>8 DEF A, B
<1> QED BY <1>7, <1>8

\* Only the file that is read shows more.
LEMMA OfStays ==
    ASSUME Shape, [Next]_vars, NEW f, NEW type
    PROVE  /\ Of(f, type) \subseteq Of(f, type)'
           /\ f # file \/ pc # "idle" \/ read' = read => Of(f, type)' = Of(f, type)
<1>1. CASE read' = read
  BY <1>1 DEF Of
<1>2. ASSUME NEW e \in Event, Reads(e)
      PROVE  /\ Of(f, type) \subseteq Of(f, type)'
             /\ f # file \/ pc # "idle" \/ read' = read => Of(f, type)' = Of(f, type)
  <2>1. e.file = file /\ pc = "idle" /\ read' # read
    <3>1. Len(read') = Len(read) + 1 /\ Len(read) \in Nat
      BY <1>2, ReadMore, Input
    <3>2. read' # read
      BY <3>1
    <3> QED BY <3>2, <1>2, ReadMore
  <2>2. Of(f, type)' = IF e.file = f /\ e.type = type
                       THEN Of(f, type) \cup {Len(read) + 1} ELSE Of(f, type)
    BY <1>2, OfReads
  <2> QED BY <2>1, <2>2
<1> QED BY <1>1, <1>2, ReadStep

\* So do the times of a file, once they are known or will never be.
LEMMA TimesStay ==
    ASSUME Shape, [Next]_vars, NEW f
    PROVE  f # file \/ pc # "idle" \/ read' = read =>
               Times_known(f)' = Times_known(f)
<1> SUFFICES ASSUME f # file \/ pc # "idle" \/ read' = read
             PROVE  Times_known(f)' = Times_known(f)
  OBVIOUS
<1>1. Of(f, "RTC")' = Of(f, "RTC") /\ Of(f, "TRIGGER")' = Of(f, "TRIGGER")
  BY OfStays
<1> QED BY <1>1 DEF Times_known

\* What is over stays over.
LEMMA OverStays ==
    ASSUME Shape, [Next]_vars, NEW f \in Nat, Over(f)
    PROVE  Over(f)'
<1>0. file \in Nat /\ file' \in Nat
  BY PlainStep DEF Shape, Plain
<1>1. file <= file'
  BY ReadStep, <1>0
<1>2. pc \in {"flush", "deleted"} => pc' \in {"flush", "deleted"}
  <2>1. ASSUME NEW e \in Event, Buffer_event(e) \/ Buffer_refuses(e) \/ Write_through(e)
        PROVE  pc = "idle"
    BY <2>1 DEF Buffer_event, Buffer_refuses, Write_through, Reads
  <2>2. ASSUME NEW e \in Event, Crop_event(e) \/ Write_buffered(e)
        PROVE  pc = "drain"
    BY <2>2 DEF Crop_event, Write_buffered
  <2>3. ASSUME NEW e \in Event, flush_event(e)
        PROVE  pc = "flush" /\ pc' \in {"flush", "deleted"}
    BY <2>3 DEF flush_event
  <2>4. ASSUME Drained \/ next_file \/ kvlcDeleteConverter \/ Delete \/ UNCHANGED vars
        PROVE  pc \in {"flush", "deleted"} => pc' \in {"flush", "deleted"}
    BY <2>4 DEF Drained, next_file, kvlcDeleteConverter, Delete, vars
  <2> QED BY <2>1, <2>2, <2>3, <2>4, Steps
<1>3. f # file \/ pc # "idle"
  BY <1>0 DEF Over
<1>4. ~Times_known(f)'
  BY <1>3, TimesStay DEF Over
<1>5. f < file' \/ pc' \in {"flush", "deleted"}
  BY <1>0, <1>1, <1>2 DEF Over
<1> QED BY <1>4, <1>5 DEF Over

\* What a file has not shown is unknown.
LEMMA KnowingStep ==
    ASSUME Shape, Draining, Knowing, [Next]_vars
    PROVE  Knowing'
<1>0. ~event_buffer.read_only /\ pc \in {"idle", "drain"} =>
        /\ unknown_last_rtc \/ "ABS" \in unknown_time_fix => Of(file, "RTC") = {}
        /\ unknown_last_hrt \/ "HRT" \in unknown_time_fix => Of(file, "TRIGGER") = {}
  BY DEF Knowing
<1>1. ASSUME NEW e \in Event, Buffer_event(e) PROVE Knowing'
  <2>1. /\ ~event_buffer.read_only /\ pc = "idle" /\ Reads(e) /\ file' = file
        /\ unknown_time_fix' = Time_fix(e)
        /\ unknown_last_hrt' = (unknown_last_hrt /\ e.type # "TRIGGER")
        /\ unknown_last_rtc' = (unknown_last_rtc /\ e.type # "RTC")
    BY <1>1 DEF Buffer_event, Reads
  <2>2. /\ unknown_last_rtc \/ "ABS" \in unknown_time_fix => Of(file, "RTC") = {}
        /\ unknown_last_hrt \/ "HRT" \in unknown_time_fix => Of(file, "TRIGGER") = {}
    BY <1>0, <2>1
  <2>3. e.type # "RTC" => Of(file, "RTC")' = Of(file, "RTC")
    <3> DEFINE f == file
    <3>1. \A g : e.type # "RTC" => {i \in DOMAIN read' : read'[i].file = g /\ read'[i].type = "RTC"}
                                   = {i \in DOMAIN read : read[i].file = g /\ read[i].type = "RTC"}
      <4> TAKE g
      <4>1. Of(g, "RTC")' = IF e.file = g /\ e.type = "RTC"
                            THEN Of(g, "RTC") \cup {Len(read) + 1} ELSE Of(g, "RTC")
        BY <2>1, OfReads
      <4> QED BY <4>1 DEF Of
    <3> QED BY <3>1, <2>1 DEF Of
  <2>4. e.type # "TRIGGER" => Of(file, "TRIGGER")' = Of(file, "TRIGGER")
    <3>1. \A g : e.type # "TRIGGER" => {i \in DOMAIN read' : read'[i].file = g /\ read'[i].type = "TRIGGER"}
                                   = {i \in DOMAIN read : read[i].file = g /\ read[i].type = "TRIGGER"}
      <4> TAKE g
      <4>1. Of(g, "TRIGGER")' = IF e.file = g /\ e.type = "TRIGGER"
                            THEN Of(g, "TRIGGER") \cup {Len(read) + 1} ELSE Of(g, "TRIGGER")
        BY <2>1, OfReads
      <4> QED BY <4>1 DEF Of
    <3> QED BY <3>1, <2>1 DEF Of
  <2>5. unknown_last_rtc' \/ "ABS" \in unknown_time_fix' => Of(file, "RTC")' = {}
    <3>1. SUFFICES ASSUME unknown_last_rtc' \/ "ABS" \in unknown_time_fix'
                   PROVE  Of(file, "RTC")' = {}
      OBVIOUS
    <3>2. /\ e.type # "RTC"
          /\ unknown_last_rtc \/ "ABS" \in unknown_time_fix
      BY <2>1, <3>1 DEF Time_fix
    <3> QED BY <3>2, <2>2, <2>3
  <2>6. unknown_last_hrt' \/ "HRT" \in unknown_time_fix' => Of(file, "TRIGGER")' = {}
    <3>1. SUFFICES ASSUME unknown_last_hrt' \/ "HRT" \in unknown_time_fix'
                   PROVE  Of(file, "TRIGGER")' = {}
      OBVIOUS
    <3>2. /\ e.type # "TRIGGER"
          /\ unknown_last_hrt \/ "HRT" \in unknown_time_fix
      BY <2>1, <3>1 DEF Time_fix
    <3> QED BY <3>2, <2>2, <2>4
  <2> QED BY <2>5, <2>6 DEF Knowing
<1>2. ASSUME NEW e \in Event, Buffer_refuses(e) PROVE Knowing'
  <2>1. event_buffer.read_only /\ UNCHANGED event_buffer
    BY <1>2 DEF Buffer_refuses
  <2> QED BY <2>1 DEF Knowing
<1>3. ASSUME ~Unknown, UNCHANGED times PROVE Knowing'
  <2>1. ~unknown_last_rtc /\ ~unknown_last_hrt /\ unknown_time_fix = {}
    BY <1>3 DEF Unknown
  <2>2. /\ unknown_last_rtc' = unknown_last_rtc /\ unknown_last_hrt' = unknown_last_hrt
        /\ unknown_time_fix' = unknown_time_fix
    BY <1>3 DEF times
  <2> QED BY <2>1, <2>2 DEF Knowing
<1>4. ASSUME NEW e \in Event, Write_through(e) \/ Crop_event(e) \/ Write_buffered(e)
      PROVE  Knowing'
  <2>1. ~Unknown /\ UNCHANGED times
    BY <1>4 DEF Write_through, Crop_event, Write_buffered, Draining
  <2> QED BY <2>1, <1>3
<1>5. ASSUME NEW e \in Event, flush_event(e) PROVE Knowing'
  <2>1. pc' \in {"flush", "deleted"}
    BY <1>5 DEF flush_event
  <2> QED BY <2>1 DEF Knowing
<1>6. CASE kvlcDeleteConverter \/ Delete
  <2>1. pc' \in {"flush", "deleted"}
    BY <1>6 DEF kvlcDeleteConverter, Delete
  <2> QED BY <2>1 DEF Knowing
<1>7. CASE next_file
  <2>1. read' = read /\ file' = file + 1
    BY <1>7 DEF next_file
  <2>2. \A i \in DOMAIN read : read[i].file # file + 1
    BY Input
  <2>3. Of(file, "RTC")' = {} /\ Of(file, "TRIGGER")' = {}
    BY <2>1, <2>2 DEF Of
  <2> QED BY <2>3 DEF Knowing
<1>8. CASE Drained
  <2>1. pc = "drain" /\ UNCHANGED times
    BY <1>8 DEF Drained
  <2> QED BY <2>1, <1>3 DEF Draining
<1>9. CASE UNCHANGED vars
  <2>1. UNCHANGED <<event_buffer, pc, file, read, unknown_time_fix, unknown_last_rtc,
                    unknown_last_hrt>>
    BY <1>9 DEF vars, times
  <2> QED BY <2>1, <1>0 DEF Knowing, Of
<1> QED BY <1>1, <1>2, <1>4, <1>5, <1>6, <1>7, <1>8, <1>9, Steps

\* The files events come from.
LEMMA Files ==
    ASSUME Shape
    PROVE  /\ \A e \in Range(read) : e.file \in Nat /\ e.file <= file
           /\ \A e \in Range(Queue) : e.file \in Nat /\ e.file <= file
           /\ \A i \in DOMAIN written : written[i].event.file \in Nat
           /\ file \in Nat
<1>1. \A e \in Range(read) : e.file \in Nat /\ e.file <= file
  BY Input DEF Range
<1>2. Range(Queue) \subseteq Range(read)
  BY DEF Shape, Reading
<1> QED BY <1>1, <1>2, NumbersRead, Input

\* What is written from the buffer has the times of its file, or will never.
LEMMA PoppedTimes ==
    ASSUME Shape, Timing, NEW e, Pop(e), pc \in {"drain", "flush"}
    PROVE  \A x \in Range(Queue) : x.file = delta_file \/ Over(x.file)
<1>1. CASE event_buffer.read_only \/ pc = "drain"
  BY <1>1 DEF Timing
<1>2. CASE ~event_buffer.read_only /\ pc = "flush"
  BY <1>2 DEF Timing, Over
<1> QED BY <1>1, <1>2

\* The output has the times of its files.
LEMMA OutputTimes ==
    ASSUME Shape, Draining, Timing, [Next]_vars
    PROVE  \A x \in Mistimed' : Over(x.file)'
<1>0. \A x \in Event : Over(x.file) => Over(x.file)'
  <2> TAKE x \in Event
  <2>1. x.file \in Nat
    BY BoundAssumption DEF Event
  <2> QED BY <2>1, OverStays
<1>1. ASSUME NEW x \in Mistimed PROVE Over(x.file)'
  <2>1. Over(x.file)
    BY DEF Timing
  <2> QED BY <2>1, <1>0 DEF Mistimed
<1>2. CASE written' = written
  <2>1. Mistimed' = Mistimed
    BY <1>2 DEF Mistimed
  <2> QED BY <2>1, <1>1
<1>3. ASSUME NEW e \in Event, write_event(e),
             Write_through(e) \/ Write_buffered(e) \/ flush_event(e)
      PROVE  \A x \in Mistimed' : Over(x.file)'
  <2>1. e.file = delta_file \/ Over(e.file)
    <3>1. CASE Write_through(e)
      <4>1. e.file = file /\ ~Unknown
        BY <3>1 DEF Write_through, Reads
      <4>2. ~Unknown => delta_file = file
        BY DEF Timing
      <4> QED BY <4>1, <4>2
    <3>2. CASE Write_buffered(e) \/ flush_event(e)
      <4>1. Pop(e) /\ pc \in {"drain", "flush"}
        BY <3>2 DEF Write_buffered, flush_event
      <4>2. e \in Range(Queue)
        BY <4>1, LeavingEvent
      <4> QED BY <4>1, <4>2, PoppedTimes
    <3> QED BY <1>3, <3>1, <3>2
  <2>2. /\ DOMAIN written = 1 .. Len(written) /\ Len(written) \in Nat
        /\ DOMAIN written' = 1 .. Len(written) + 1
        /\ \A i \in 1 .. Len(written) : written'[i] = written[i]
        /\ written'[Len(written) + 1].event = e
        /\ written'[Len(written) + 1].delta_file = delta_file
    BY <1>3, WriteMore
  <2>3. ASSUME NEW x \in Mistimed' PROVE x \in Mistimed \/ (x = e /\ e.file # delta_file)
    <3>1. PICK i \in 1 .. Len(written) + 1 :
              written'[i].event = x /\ written'[i].delta_file # x.file
      BY <2>2 DEF Mistimed
    <3>2. x \in Event
      BY DEF Mistimed
    <3>3. CASE i = Len(written) + 1
      BY <3>1, <3>3, <2>2
    <3>4. CASE i # Len(written) + 1
      <4>0. i \in 1 .. Len(written)
        BY <2>2, <3>4
      <4>1. i \in DOMAIN written /\ written'[i] = written[i]
        BY <4>0, <2>2
      <4> QED BY <4>1, <3>1, <3>2 DEF Mistimed
    <3> QED BY <3>3, <3>4
  <2> QED BY <1>0, <1>1, <2>1, <2>3
<1> QED BY <1>2, <1>3, WriteStep

\* An event waits from now on.
LEMMA BufferTimes ==
    ASSUME Shape, Draining, Knowing, Timing, [Next]_vars,
           NEW e \in Event, Buffer_event(e)
    PROVE  Timing'
<1>0. /\ file' = file /\ e.file = file /\ pc = "idle" /\ pc' \in {"idle", "drain"}
      /\ ~event_buffer.read_only /\ ~event_buffer'.read_only
      /\ Queue' = Append(Queue, e) /\ Queue \in Seq(Event) /\ Reads(e)
  BY Entering, QueueType DEF Shape, Buffer_event, Reads
<1>1. Range(Queue') = Range(Queue) \cup {e}
  BY <1>0, RangeMoves
<1>2. ~unknown_last_rtc' => rtc_file' = file'
  BY <1>0 DEF Buffer_event, Timing
<1>3. ~Unknown' => delta_file' = file'
  <2>1. SUFFICES ASSUME ~Unknown' PROVE delta_file' = file'
    OBVIOUS
  <2>2. delta_file' = rtc_file' /\ ~unknown_last_rtc'
    BY <2>1 DEF Buffer_event, Completes_times, Unknown
  <2> QED BY <2>2, <1>2
<1>4. ASSUME NEW x \in Range(Queue)
      PROVE  x.file \in Nat /\ x.file <= file /\ ~Times_known(x.file)
  BY <1>0, Files DEF Timing
<1>5. ASSUME pc' = "idle", NEW x \in Range(Queue') PROVE ~Times_known(x.file)'
  <2>1. Unknown'
    BY <1>5 DEF Buffer_event, Completes_times
  <2>2. \/ unknown_last_rtc' \/ "ABS" \in unknown_time_fix'
        \/ unknown_last_hrt' \/ "HRT" \in unknown_time_fix'
    <3>1. unknown_time_fix' \subseteq {"HRT", "ABS"}
      BY PlainStep DEF Plain
    <3> QED BY <2>1, <3>1 DEF Unknown
  <2>3. Knowing'
    BY KnowingStep
  <2>4. Of(file, "RTC")' = {} \/ Of(file, "TRIGGER")' = {}
    BY <2>2, <2>3, <1>0, <1>5 DEF Knowing
  <2>5. CASE x.file = file
    BY <2>4, <2>5, <1>0 DEF Times_known, Of
  <2>6. CASE x.file # file
    <3>1. x \in Range(Queue)
      BY <2>6, <1>0, <1>1, <1>5
    <3>2. ~Times_known(x.file)
      BY <3>1, <1>4
    <3> QED BY <3>2, <2>6, TimesStay
  <2> QED BY <2>5, <2>6
<1>6. ASSUME pc' = "drain", NEW x \in Range(Queue')
      PROVE  x.file = delta_file' \/ Over(x.file)'
  <2>1. delta_file' = file
    BY <1>6, <1>0, <1>3 DEF Buffer_event, Completes_times
  <2>2. CASE x.file = file
    BY <2>1, <2>2
  <2>3. CASE x.file # file
    <3>1. x \in Range(Queue)
      BY <2>3, <1>0, <1>1, <1>6
    <3>2. x.file \in Nat /\ x.file < file /\ ~Times_known(x.file)
      <4>1. x.file \in Nat /\ x.file <= file /\ ~Times_known(x.file) /\ file \in Nat
        BY <3>1, <1>4, Files
      <4> QED BY <4>1, <2>3
    <3>3. Over(x.file)
      BY <3>2 DEF Over
    <3> QED BY <3>2, <3>3, OverStays
  <2> QED BY <2>2, <2>3
<1>7. \A x \in Mistimed' : Over(x.file)'
  BY OutputTimes
<1> QED BY <1>0, <1>2, <1>3, <1>5, <1>6, <1>7 DEF Timing

\* An event has left the buffer.
LEMMA PoppedStep ==
    ASSUME Shape, Draining, Timing, [Next]_vars, NEW e \in Event,
           Crop_event(e) \/ Write_buffered(e) \/ flush_event(e)
    PROVE  Timing'
<1>0. /\ Pop(e) /\ pc \in {"drain", "flush"} /\ UNCHANGED times
      /\ file' = file /\ read' = read
      /\ pc = "drain" => pc' \in {"drain", "idle"}
      /\ pc = "flush" => pc' \in {"flush", "deleted"}
  BY DEF Crop_event, Write_buffered, flush_event
<1>1. /\ event_buffer'.read_only = (Queue' # <<>>)
      /\ Range(Queue') \subseteq Range(Queue)
  BY <1>0, LeavingEvent
<1>2. /\ ~unknown_last_rtc' => rtc_file' = file'
      /\ ~Unknown' => delta_file' = file'
      /\ delta_file' = delta_file
  BY <1>0 DEF times, Timing, Unknown
<1>3. ~event_buffer'.read_only => Range(Queue') = {}
  <2>1. SUFFICES ASSUME Queue' = <<>> PROVE Range(Queue') = {}
    BY <1>1
  <2> QED BY <2>1 DEF Range
<1>4. ASSUME NEW x \in Range(Queue') PROVE x.file = delta_file' \/ Over(x.file)'
  <2>1. x \in Range(Queue) /\ x.file \in Nat
    BY <1>1, Files
  <2>2. x.file = delta_file \/ Over(x.file)
    BY <2>1, <1>0, PoppedTimes
  <2> QED BY <2>1, <2>2, <1>2, OverStays
<1>5. \A x \in Mistimed' : Over(x.file)'
  BY OutputTimes
<1> QED BY <1>2, <1>3, <1>4, <1>5 DEF Timing

\* What is drained has the times of its file.
LEMMA TimingStep ==
    ASSUME Shape, Draining, Knowing, Timing, [Next]_vars
    PROVE  Timing'
<1>0. \A x \in Mistimed' : Over(x.file)'
  BY OutputTimes
<1>1. ASSUME UNCHANGED event_buffer, delta_file' = delta_file,
             ~unknown_last_rtc' => rtc_file' = file',
             ~Unknown' => delta_file' = file',
             pc' \in {"idle", "flush"} /\ ~event_buffer.read_only =>
                 \/ Queue = <<>>
                 \/ pc \in {"idle", "flush"} /\ read' = read,
             pc' = "drain" => pc = "drain"
      PROVE  Timing'
  <2>1. Queue' = Queue /\ event_buffer'.read_only = event_buffer.read_only
    BY <1>1, Resting
  <2>2. ASSUME NEW x \in Range(Queue), x.file = delta_file \/ Over(x.file)
        PROVE  x.file = delta_file' \/ Over(x.file)'
    BY <1>1, <2>2, Files, OverStays
  <2>3. ASSUME pc' \in {"idle", "flush"}, ~event_buffer.read_only, NEW x \in Range(Queue)
        PROVE  ~Times_known(x.file)'
    <3>1. Queue # <<>>
      BY DEF Range
    <3>2. pc \in {"idle", "flush"} /\ read' = read
      BY <1>1, <2>3, <3>1
    <3>3. ~Times_known(x.file)
      BY <2>3, <3>2 DEF Timing
    <3> QED BY <3>2, <3>3, TimesStay
  <2>4. ASSUME event_buffer.read_only \/ pc' = "drain", NEW x \in Range(Queue)
        PROVE  x.file = delta_file' \/ Over(x.file)'
    <3>1. x.file = delta_file \/ Over(x.file)
      BY <1>1, <2>4 DEF Timing
    <3> QED BY <3>1, <2>2
  <2> QED BY <1>0, <1>1, <2>1, <2>3, <2>4 DEF Timing
<1>2. ASSUME NEW e \in Event, Buffer_refuses(e) PROVE Timing'
  <2>1. /\ UNCHANGED event_buffer /\ UNCHANGED times /\ file' = file /\ pc' = pc
        /\ event_buffer.read_only /\ pc = "idle"
    BY <1>2 DEF Buffer_refuses, Reads
  <2>2. /\ delta_file' = delta_file
        /\ ~unknown_last_rtc' => rtc_file' = file'
        /\ ~Unknown' => delta_file' = file'
    BY <2>1 DEF times, Timing, Unknown
  <2> QED BY <2>1, <2>2, <1>1
<1>3. ASSUME NEW e \in Event, Write_through(e) PROVE Timing'
  <2>1. /\ UNCHANGED event_buffer /\ UNCHANGED times /\ file' = file /\ pc' = pc
        /\ pc = "idle" /\ ~Unknown
    BY <1>3 DEF Write_through, Reads
  <2>2. /\ delta_file' = delta_file
        /\ ~unknown_last_rtc' => rtc_file' = file'
        /\ ~Unknown' => delta_file' = file'
    BY <2>1 DEF times, Timing, Unknown
  <2>3. ~event_buffer.read_only => Queue = <<>>
    BY <2>1 DEF Draining
  <2> QED BY <2>1, <2>2, <2>3, <1>1
<1>4. CASE Drained
  <2>1. /\ UNCHANGED event_buffer /\ UNCHANGED times /\ file' = file
        /\ pc' = "idle" /\ event_buffer.n_pushed_element = 0
    BY <1>4 DEF Drained
  <2>2. /\ delta_file' = delta_file
        /\ ~unknown_last_rtc' => rtc_file' = file'
        /\ ~Unknown' => delta_file' = file'
    BY <2>1 DEF times, Timing, Unknown
  <2>3. Queue = <<>>
    BY <2>1, QueueType DEF Shape
  <2> QED BY <2>1, <2>2, <2>3, <1>1
<1>5. CASE next_file
  <2>1. /\ UNCHANGED event_buffer /\ delta_file' = delta_file /\ unknown_last_rtc' = TRUE
        /\ pc' = "idle" /\ pc = "idle" /\ read' = read
    BY <1>5 DEF next_file, Forget_times
  <2>2. Unknown'
    BY <2>1 DEF Unknown
  <2> QED BY <2>1, <2>2, <1>1
<1>6. CASE kvlcDeleteConverter
  <2>1. /\ UNCHANGED event_buffer /\ UNCHANGED times /\ file' = file /\ read' = read
        /\ pc' = "flush" /\ pc = "idle"
    BY <1>6 DEF kvlcDeleteConverter
  <2>2. /\ delta_file' = delta_file
        /\ ~unknown_last_rtc' => rtc_file' = file'
        /\ ~Unknown' => delta_file' = file'
    BY <2>1 DEF times, Timing, Unknown
  <2> QED BY <2>1, <2>2, <1>1
<1>7. CASE Delete
  <2>1. /\ UNCHANGED event_buffer /\ UNCHANGED times /\ file' = file
        /\ pc' = "deleted"
    BY <1>7 DEF Delete
  <2>2. /\ delta_file' = delta_file
        /\ ~unknown_last_rtc' => rtc_file' = file'
        /\ ~Unknown' => delta_file' = file'
    BY <2>1 DEF times, Timing, Unknown
  <2> QED BY <2>1, <2>2, <1>1
<1>8. CASE UNCHANGED vars
  <2>1. /\ UNCHANGED event_buffer /\ UNCHANGED times /\ file' = file /\ read' = read
        /\ pc' = pc
    BY <1>8 DEF vars
  <2>2. /\ delta_file' = delta_file
        /\ ~unknown_last_rtc' => rtc_file' = file'
        /\ ~Unknown' => delta_file' = file'
    BY <2>1 DEF times, Timing, Unknown
  <2> QED BY <2>1, <2>2, <1>1
<1> QED BY <1>2, <1>3, <1>4, <1>5, <1>6, <1>7, <1>8, BufferTimes, PoppedStep, Steps

----------------------------------------------------------------------------
(* Numbers, and what may be left out.                                       *)

\* Whether a step writes, as far as its output is numbered.
LEMMA NumberCases ==
    ASSUME Shape, [Next]_vars
    PROVE  \/ lost' # {}
           \/ written' = written /\ written_frameno' = written_frameno /\ lost' = lost
           \/ \E e \in Event : write_event(e) /\ written_frameno' = Frame(e) /\ lost' = lost
<1>1. ASSUME NEW e \in Event, Write_through(e) \/ Write_buffered(e)
      PROVE  \/ lost' # {}
             \/ write_event(e) /\ written_frameno' = Frame(e) /\ lost' = lost
  BY <1>1 DEF Write_through, Write_buffered, Fails, history
<1>2. ASSUME NEW e \in Event, flush_event(e)
      PROVE  \/ lost' # {}
             \/ write_event(e) /\ written_frameno' = Frame(e) /\ lost' = lost
  <2>1. /\ Pop(e) /\ written_frameno' = Frame(e)
        /\ \/ write_event(e) /\ lost' = lost
           \/ lost' = lost \cup Range(Queue)
    BY <1>2 DEF flush_event, Fails, Queue
  <2>2. e \in Range(Queue)
    BY <2>1, LeavingEvent
  <2> QED BY <2>1, <2>2
<1>3. ASSUME NEW e \in Event, Buffer_refuses(e)
      PROVE  lost' # {}
  BY <1>3 DEF Buffer_refuses
<1>4. ASSUME NEW e \in Event, Buffer_event(e) \/ Crop_event(e)
      PROVE  written' = written /\ written_frameno' = written_frameno /\ lost' = lost
  BY <1>4 DEF Buffer_event, Crop_event, output, history
<1>5. CASE Drained \/ next_file \/ kvlcDeleteConverter \/ Delete \/ UNCHANGED vars
  BY <1>5 DEF Drained, next_file, kvlcDeleteConverter, Delete, vars, output, history
<1> QED BY <1>1, <1>2, <1>3, <1>4, <1>5, Steps

\* The messages of the output can be counted.
LEMMA MessagesType ==
    ASSUME Shape
    PROVE  /\ Messages \subseteq 1 .. Len(written) /\ Len(written) \in Nat
           /\ IsFiniteSet(Messages) /\ Cardinality(Messages) \in Nat
<1>1. Len(written) \in Nat /\ DOMAIN written = 1 .. Len(written)
  <2>1. written \in Seq(Record)
    BY DEF Shape, Lists
  <2> QED BY <2>1, LenProperties
<1>2. Messages \subseteq 1 .. Len(written)
  BY <1>1 DEF Messages
<1>3. IsFiniteSet(1 .. Len(written))
  BY <1>1, FS_Interval
<1> QED BY <1>1, <1>2, <1>3, FS_Subset, FS_CardinalityType

\* Messages are numbered without a gap.
LEMMA NumberingStep ==
    ASSUME Shape, Numbering, [Next]_vars
    PROVE  Numbering'
<1>1. CASE written' = written /\ written_frameno' = written_frameno /\ lost' = lost
  <2>1. Messages' = Messages
    BY <1>1 DEF Messages
  <2> QED BY <1>1, <2>1 DEF Numbering
<1>2. ASSUME NEW e \in Event, write_event(e), written_frameno' = Frame(e), lost' = lost
      PROVE  Numbering'
  <2> DEFINE n == Len(written)
  <2>0. /\ DOMAIN written = 1 .. n /\ n \in Nat
        /\ DOMAIN written' = 1 .. n + 1
        /\ \A i \in 1 .. n : written'[i] = written[i]
        /\ written'[n + 1].event = e
        /\ written'[n + 1].frame_counter = Frame(e)
    BY <1>2, WriteMore
  <2> HIDE DEF n
  <2>1. SUFFICES ASSUME lost = {}
                 PROVE  /\ written_frameno' = Cardinality(Messages')
                        /\ \A i \in Messages' :
                               written'[i].frame_counter
                                   = Cardinality({j \in Messages' : j <= i})
    BY <1>2 DEF Numbering
  <2>2. /\ written_frameno = Cardinality(Messages)
        /\ \A i \in Messages :
               written[i].frame_counter = Cardinality({j \in Messages : j <= i})
    BY <2>1 DEF Numbering
  <2>3. Messages \subseteq 1 .. n /\ IsFiniteSet(Messages) /\ Cardinality(Messages) \in Nat
    BY MessagesType DEF n
  <2>4. n + 1 \notin Messages
    BY <2>0, <2>3
  <2>5. ASSUME NEW i \in 1 .. n PROVE i \in Messages' <=> i \in Messages
    <3>1. i \in 1 .. n + 1
      BY <2>0
    <3> QED BY <3>1, <2>0 DEF Messages
  <2>6. n + 1 \in Messages' <=> e.type = "MESSAGE"
    <3>1. n + 1 \in 1 .. n + 1
      BY <2>0
    <3> QED BY <3>1, <2>0 DEF Messages
  <2>7. Messages' \subseteq 1 .. n + 1
    BY <2>0 DEF Messages
  <2>8. ASSUME NEW i \in 1 .. n + 1, i # n + 1 PROVE i \in 1 .. n
    BY <2>0, <2>8
  <2>9. Messages' = IF e.type = "MESSAGE" THEN Messages \cup {n + 1} ELSE Messages
    <3> DEFINE M == Messages'
    <3>1. ASSUME NEW i \in M PROVE i \in Messages \/ (e.type = "MESSAGE" /\ i = n + 1)
      BY <2>5, <2>6, <2>7, <2>8
    <3>2. ASSUME NEW i \in Messages PROVE i \in M
      BY <2>3, <2>5
    <3> HIDE DEF M
    <3>3. CASE e.type = "MESSAGE"
      <4>1. M = Messages \cup {n + 1}
        BY <3>1, <3>2, <3>3, <2>6 DEF M
      <4> QED BY <4>1, <3>3 DEF M
    <3>4. CASE e.type # "MESSAGE"
      <4>1. M = Messages
        BY <3>1, <3>2, <3>4
      <4> QED BY <4>1, <3>4 DEF M
    <3> QED BY <3>3, <3>4
  <2>10. written_frameno' = Cardinality(Messages')
    <3>1. Cardinality(Messages \cup {n + 1}) = Cardinality(Messages) + 1
      BY <2>3, <2>4, FS_AddElement
    <3> QED BY <3>1, <2>2, <2>9, <1>2, FrameType
  <2>11. ASSUME NEW i \in Messages'
         PROVE  written'[i].frame_counter = Cardinality({j \in Messages' : j <= i})
    <3>1. CASE i = n + 1
      <4>1. {j \in Messages' : j <= i} = Messages'
        <5>1. \A j \in Messages' : j <= i
          BY <3>1, <2>7, <2>0
        <5> QED BY <5>1
      <4> QED BY <4>1, <3>1, <2>0, <2>10, <1>2
    <3>2. CASE i # n + 1
      <4>1. i \in 1 .. n /\ i \in Messages
        BY <3>2, <2>5, <2>7, <2>8, <2>11
      <4>2. {j \in Messages' : j <= i} = {j \in Messages : j <= i}
        <5>1. ~(n + 1 <= i)
          BY <4>1, <2>0
        <5> QED BY <5>1, <2>9
      <4>3. written'[i].frame_counter = written[i].frame_counter
        BY <4>1, <2>0
      <4> QED BY <4>1, <4>2, <4>3, <2>2
    <3> QED BY <3>1, <3>2
  <2> QED BY <2>10, <2>11
<1>3. CASE lost' # {}
  BY <1>3 DEF Numbering
<1> QED BY <1>1, <1>2, <1>3, NumberCases

\* The least of a set of numbers, and of the set with a larger one.
LEMMA Least ==
    ASSUME NEW A, A \subseteq Nat, A # {}
    PROVE  /\ Min(A) \in A /\ \A k \in A : Min(A) <= k
           /\ \A n \in Nat : (\A k \in A : k < n) => Min(A \cup {n}) = Min(A)
<1>1. \E m \in A : \A k \in A : m <= k
  BY LeastElement
<1>2. Min(A) \in A /\ \A k \in A : Min(A) <= k
  BY <1>1 DEF Min
<1>3. ASSUME NEW n \in Nat, \A k \in A : k < n
      PROVE  Min(A \cup {n}) = Min(A)
  <2> DEFINE B == A \cup {n}
  <2>1. B \subseteq Nat /\ B # {}
    OBVIOUS
  <2> HIDE DEF B
  <2>2. \E m \in B : \A k \in B : m <= k
    BY <2>1, LeastElement
  <2>3. Min(B) \in B /\ \A k \in B : Min(B) <= k
    BY <2>2 DEF Min
  <2> DEFINE a == Min(A)
             b == Min(B)
  <2>4. a \in A /\ b \in B /\ b <= a /\ a \in Nat /\ b \in Nat /\ a < n
    BY <1>2, <1>3, <2>1, <2>3 DEF B
  <2>5. b \in A
    BY <2>4 DEF B
  <2>6. a <= b
    BY <2>5, <1>2
  <2> HIDE DEF a, b
  <2>7. a = b
    BY <2>4, <2>6
  <2> QED BY <2>7 DEF a, b, B
<1> QED BY <1>2, <1>3

\* The property of the writer stays.
LEMMA CropStays == [Next]_vars => crop' = crop
  BY DEF Next, convert_event, Buffer_event, Buffer_refuses, Write_through, Crop_event,
         Write_buffered, flush_event, Drained, next_file, kvlcDeleteConverter, Delete, vars

\* Where the output of a file may begin is known with its first trigger.
LEMMA BeginsStays ==
    ASSUME Shape, [Next]_vars, NEW f, Of(f, "TRIGGER") # {}
    PROVE  Of(f, "TRIGGER")' # {} /\ Begins(f)' = Begins(f) /\ Begins(f) \in Int
<1> DEFINE A == Of(f, "TRIGGER")
           B == Of(f, "TRIGGER")'
<1>0. A \subseteq 1 .. Len(read) /\ Len(read) \in Nat /\ A # {}
  BY OfType, Input
<1>1. Min(A) \in A
  <2> HIDE DEF A
  <2>1. A \subseteq Nat
    BY <1>0
  <2> QED BY <1>0, <2>1, Least
<1>2. crop' = crop
  BY CropStays
<1>3. Begins(f) \in Int
  <2>1. read[Min(A)] \in Event /\ Min(A) \in Nat
    BY <1>0, <1>1, Input
  <2>2. read[Min(A)].pre \in Nat
    BY <2>1, PreTriggerAssumption DEF Event
  <2> HIDE DEF A
  <2> QED BY <2>1, <2>2 DEF Begins, A
<1>4. A \subseteq B
  BY OfStays
<1>5. CASE read' = read
  <2>1. B = A
    BY <1>5, OfStays
  <2>2. Begins(f) = IF crop /\ read[Min(A)].pre > 0 THEN Min(A) - read[Min(A)].pre ELSE 0
    BY DEF Begins
  <2>3. Begins(f)' = IF crop' /\ read'[Min(B)].pre > 0 THEN Min(B) - read'[Min(B)].pre ELSE 0
    BY DEF Begins
  <2>4. Begins(f)' = Begins(f)
    <3> HIDE DEF A, B
    <3> QED BY <2>1, <2>2, <2>3, <1>2, <1>5
  <2> QED BY <1>0, <1>3, <2>1, <2>4
<1>6. ASSUME NEW e \in Event, Reads(e) PROVE Begins(f)' = Begins(f)
  <2>1. B = A \/ B = A \cup {Len(read) + 1}
    BY <1>6, OfReads
  <2>2. Min(B) = Min(A)
    <3> HIDE DEF A, B
    <3>1. A \subseteq Nat /\ Len(read) + 1 \in Nat /\ \A k \in A : k < Len(read) + 1
      BY <1>0
    <3>2. Min(A \cup {Len(read) + 1}) = Min(A)
      BY <1>0, <3>1, Least
    <3> QED BY <2>1, <3>2
  <2>3. read'[Min(A)] = read[Min(A)]
    BY <1>0, <1>1, <1>6, ReadMore
  <2>4. Begins(f) = IF crop /\ read[Min(A)].pre > 0 THEN Min(A) - read[Min(A)].pre ELSE 0
    BY DEF Begins
  <2>5. Begins(f)' = IF crop' /\ read'[Min(B)].pre > 0 THEN Min(B) - read'[Min(B)].pre ELSE 0
    BY DEF Begins
  <2> HIDE DEF A, B
  <2> QED BY <2>2, <2>3, <2>4, <2>5, <1>2
<1> QED BY <1>0, <1>3, <1>4, <1>5, <1>6, ReadStep

\* The number of an event and its pre-trigger are naturals.
LEMMA EventNumbers == \A e \in Event : e.pre \in Nat /\ e.n \in Nat
<1> SUFFICES ASSUME NEW e \in Event
             PROVE  e.pre \in Nat /\ e.n \in Nat
  OBVIOUS
<1>1. e.pre \in PreTrigger
  BY DEF Event
<1>2. e.n \in 1 .. MaxEvents
  BY DEF Event
<1>3. e.pre \in Nat
  BY <1>1, PreTriggerAssumption
<1>4. e.n \in Nat
  BY <1>2, BoundAssumption
<1> QED BY <1>3, <1>4

\* What is cropped from is the pre-trigger of the file.
LEMMA CroppingStep ==
    ASSUME Shape, Knowing, Cropping, [Next]_vars
    PROVE  Cropping'
<1> SUFFICES ASSUME pc' = "drain", crop', preTriggerEdge' > 0, NEW f \in {file'}
             PROVE  Of(f, "TRIGGER")' # {} /\ Begins(f)' = preTriggerEdge'
  BY DEF Cropping
<1>1. ASSUME NEW e \in Event, Buffer_event(e)
      PROVE  Of(f, "TRIGGER")' # {} /\ Begins(f)' = preTriggerEdge'
  <2>0. file' = file
    BY <1>1 DEF Buffer_event
  <2>1. /\ Reads(e) /\ f = file /\ e.file = file /\ pc = "idle"
        /\ ~event_buffer.read_only
    BY <1>1, <2>0 DEF Buffer_event, Reads
  <2>2. e.pre \in Nat /\ e.n \in Nat
    BY EventNumbers
  <2>3. /\ unknown_last_hrt /\ e.type = "TRIGGER" /\ e.pre > 0
        /\ preTriggerEdge' = e.n - e.pre
    <3>1. \/ preTriggerEdge' = 0
          \/ /\ First_trigger(e) /\ e.pre > 0
             /\ preTriggerEdge' = IF e.n < e.pre THEN 0 ELSE e.n - e.pre
      BY <1>1 DEF Buffer_event, Pre_trigger
    <3> QED BY <3>1, <2>2 DEF First_trigger
  <2>4. Of(f, "TRIGGER") = {}
    BY <2>1, <2>3 DEF Knowing
  <2> DEFINE n == Len(read) + 1
  <2>5. e.n = n /\ n \in Nat /\ read'[n] = e
    BY <2>1, ReadMore, Input
  <2>6. Of(f, "TRIGGER")' = {n}
    BY <2>1, <2>3, <2>4, OfReads
  <2>7. Min({n}) = n
    <3> HIDE DEF n
    <3>1. {n} \subseteq Nat /\ {n} # {}
      BY <2>5
    <3> QED BY <3>1, Least
  <2>8. Begins(f)' = IF crop' /\ read'[Min(Of(f, "TRIGGER")')].pre > 0
                     THEN Min(Of(f, "TRIGGER")') - read'[Min(Of(f, "TRIGGER")')].pre
                     ELSE 0
    BY DEF Begins
  <2> HIDE DEF n
  <2> QED BY <2>3, <2>5, <2>6, <2>7, <2>8
<1>2. ASSUME pc = "drain", file' = file, preTriggerEdge' = preTriggerEdge
      PROVE  Of(f, "TRIGGER")' # {} /\ Begins(f)' = preTriggerEdge'
  <2>1. crop
    BY CropStays
  <2>2. Of(f, "TRIGGER") # {} /\ Begins(f) = preTriggerEdge
    BY <1>2, <2>1 DEF Cropping
  <2> QED BY <1>2, <2>2, BeginsStays
<1>3. ASSUME NEW e \in Event, Crop_event(e) \/ Write_buffered(e)
      PROVE  pc = "drain" /\ file' = file /\ preTriggerEdge' = preTriggerEdge
  BY <1>3 DEF Crop_event, Write_buffered, cropping
<1>4. ASSUME NEW e \in Event, Buffer_refuses(e) \/ Write_through(e) \/ flush_event(e)
      PROVE  FALSE
  BY <1>4 DEF Buffer_refuses, Write_through, flush_event, Reads
<1>5. ASSUME Drained \/ next_file \/ kvlcDeleteConverter \/ Delete
      PROVE  FALSE
  BY <1>5 DEF Drained, next_file, kvlcDeleteConverter, Delete
<1>6. ASSUME UNCHANGED vars
      PROVE  pc = "drain" /\ file' = file /\ preTriggerEdge' = preTriggerEdge
  BY <1>6 DEF vars, cropping
<1> QED BY <1>1, <1>2, <1>3, <1>4, <1>5, <1>6, Steps

\* Nothing that is written or lost is taken back.
LEMMA OutputStays ==
    ASSUME Shape, [Next]_vars
    PROVE  /\ Output \subseteq Output' /\ lost \subseteq lost'
           /\ \A e \in Event : write_event(e) => Output' = Output \cup {e}
<1>1. ASSUME NEW e \in Event, write_event(e) PROVE Output' = Output \cup {e}
  <2>1. /\ DOMAIN written = 1 .. Len(written) /\ Len(written) \in Nat
        /\ DOMAIN written' = 1 .. Len(written) + 1
        /\ \A i \in 1 .. Len(written) : written'[i] = written[i]
        /\ written'[Len(written) + 1].event = e
    BY <1>1, WriteMore
  <2>2. \A x \in Output' : x \in Output \cup {e}
    <3>1. ASSUME NEW i \in 1 .. Len(written) + 1
          PROVE  written'[i].event \in Output \cup {e}
      <4>1. CASE i = Len(written) + 1
        BY <4>1, <2>1
      <4>2. CASE i # Len(written) + 1
        <5>1. i \in 1 .. Len(written)
          BY <4>2, <2>1
        <5> QED BY <5>1, <2>1 DEF Output
      <4> QED BY <4>1, <4>2
    <3> QED BY <3>1, <2>1 DEF Output
  <2>3. \A x \in Output : x \in Output'
    <3>1. ASSUME NEW i \in 1 .. Len(written) PROVE written[i].event \in Output'
      <4>1. i \in 1 .. Len(written) + 1 /\ written'[i] = written[i]
        BY <2>1
      <4> QED BY <4>1, <2>1 DEF Output
    <3> QED BY <3>1, <2>1 DEF Output
  <2>4. e \in Output'
    <3>1. Len(written) + 1 \in 1 .. Len(written) + 1
      BY <2>1
    <3> QED BY <3>1, <2>1 DEF Output
  <2> QED BY <2>2, <2>3, <2>4
<1>2. Output \subseteq Output'
  <2>1. CASE written' = written
    BY <2>1 DEF Output
  <2> QED BY <2>1, <1>1, WriteStep
<1>3. lost \subseteq lost'
  <2>1. ASSUME NEW e \in Event, Write_through(e) \/ Write_buffered(e) \/ flush_event(e)
        PROVE  lost \subseteq lost'
    BY <2>1 DEF Write_through, Write_buffered, flush_event, Fails, history
  <2>2. ASSUME NEW e \in Event, Buffer_event(e) \/ Buffer_refuses(e) \/ Crop_event(e)
        PROVE  lost \subseteq lost'
    BY <2>2 DEF Buffer_event, Buffer_refuses, Crop_event, history
  <2>3. CASE Drained \/ next_file \/ kvlcDeleteConverter \/ Delete \/ UNCHANGED vars
    BY <2>3 DEF Drained, next_file, kvlcDeleteConverter, Delete, vars, history
  <2> QED BY <2>1, <2>2, <2>3, Steps
<1> QED BY <1>1, <1>2, <1>3

\* What is cropped is before the window of its file, or of a file without times.
LEMMA CropsBeforeWindow ==
    ASSUME Shape, Draining, Timing, Cropping, NEW e \in Event, Crop_event(e),
           e.type \in {"MESSAGE", "TRIGGER"}
    PROVE  \/ Over(e.file)
           \/ Of(e.file, "TRIGGER") # {} /\ e.n < Begins(e.file)
<1>1. /\ Pop(e) /\ pc = "drain" /\ crop /\ ~(e.n >= preTriggerEdge)
  BY DEF Crop_event, Keeps, In_window
<1>2. e \in Range(Queue) /\ e.n \in Nat
  BY <1>1, LeavingEvent, BoundAssumption DEF Event
<1>3. preTriggerEdge \in Nat
  BY BoundAssumption DEF Shape, Plain
<1>4. e.n < preTriggerEdge /\ preTriggerEdge > 0
  BY <1>1, <1>2, <1>3
<1>5. Of(file, "TRIGGER") # {} /\ Begins(file) = preTriggerEdge
  BY <1>1, <1>4 DEF Cropping
<1>6. delta_file = file
  BY <1>1 DEF Draining, Timing
<1>7. e.file = delta_file \/ Over(e.file)
  BY <1>1, <1>2, PoppedTimes
<1> QED BY <1>4, <1>5, <1>6, <1>7

\* Where an event that waits goes.
LEMMA WaitingGoes ==
    ASSUME Shape, Draining, Timing, Cropping, [Next]_vars, NEW x \in Waiting,
           x.type \in {"MESSAGE", "TRIGGER"}
    PROVE  \/ x \in Output' \cup Waiting' \cup lost'
           \/ Over(x.file)
           \/ Of(x.file, "TRIGGER") # {} /\ x.n < Begins(x.file)
<1>0. x \in Range(Queue) /\ pc # "deleted"
  BY DEF Waiting, Queue
<1>1. ASSUME x \in Range(Queue'), pc' # "deleted" PROVE x \in Waiting'
  BY <1>1 DEF Waiting, Queue
<1>2. ASSUME NEW e \in Event, Buffer_event(e) PROVE x \in Waiting'
  <2>1. Queue' = Append(Queue, e) /\ Queue \in Seq(Event) /\ pc' # "deleted"
    BY <1>2, Entering, QueueType DEF Shape, Buffer_event, Reads
  <2>2. Range(Queue') = Range(Queue) \cup {e}
    BY <2>1, RangeMoves
  <2> QED BY <1>0, <1>1, <2>1, <2>2
<1>3. ASSUME NEW e \in Event, Buffer_refuses(e) \/ Write_through(e) PROVE x \in Waiting'
  <2>1. UNCHANGED event_buffer /\ pc' = pc
    BY <1>3 DEF Buffer_refuses, Write_through
  <2> QED BY <1>0, <1>1, <2>1, Resting
<1>4. ASSUME NEW e, Pop(e) PROVE x = e \/ x \in Range(Queue')
  BY <1>0, <1>4, LeavingEvent
<1>5. ASSUME NEW e \in Event, Crop_event(e)
      PROVE  \/ x \in Waiting' \/ Over(x.file)
             \/ Of(x.file, "TRIGGER") # {} /\ x.n < Begins(x.file)
  <2>1. Pop(e) /\ pc' = pc
    BY <1>5 DEF Crop_event
  <2>2. CASE x = e
    BY <1>5, <2>2, CropsBeforeWindow
  <2>3. CASE x \in Range(Queue')
    BY <1>0, <1>1, <2>1, <2>3
  <2> QED BY <1>4, <2>1, <2>2, <2>3
<1>6. ASSUME NEW e \in Event, Write_buffered(e)
      PROVE  x \in Output' \cup Waiting' \cup lost'
  <2>1. /\ Pop(e) /\ pc' # "deleted"
        /\ write_event(e) \/ e \in lost'
    BY <1>0, <1>6 DEF Write_buffered, Fails
  <2>2. CASE x = e
    BY <2>1, <2>2, OutputStays
  <2>3. CASE x \in Range(Queue')
    BY <1>1, <2>1, <2>3
  <2> QED BY <1>4, <2>1, <2>2, <2>3
<1>7. ASSUME NEW e \in Event, flush_event(e)
      PROVE  x \in Output' \cup Waiting' \cup lost'
  <2>1. /\ Pop(e)
        /\ \/ write_event(e) /\ pc' = pc
           \/ lost' = lost \cup Range(Queue)
    BY <1>7 DEF flush_event, Fails, Queue
  <2>2. CASE x = e /\ write_event(e)
    BY <2>2, OutputStays
  <2>3. CASE x \in Range(Queue') /\ pc' = pc
    BY <1>0, <1>1, <2>3
  <2>4. CASE lost' = lost \cup Range(Queue)
    BY <1>0, <2>4
  <2> QED BY <1>4, <2>1, <2>2, <2>3, <2>4
<1>8. ASSUME Drained \/ Delete PROVE FALSE
  <2>1. event_buffer.n_pushed_element = 0
    BY <1>8 DEF Drained, Delete
  <2>2. Queue = <<>>
    BY <2>1, QueueType DEF Shape
  <2> QED BY <1>0, <2>2 DEF Range
<1>9. ASSUME next_file \/ kvlcDeleteConverter \/ UNCHANGED vars PROVE x \in Waiting'
  <2>1. UNCHANGED event_buffer /\ (pc' = pc \/ pc' = "flush")
    BY <1>9 DEF next_file, kvlcDeleteConverter, vars
  <2> QED BY <1>0, <1>1, <2>1, Resting
<1> QED BY <1>2, <1>3, <1>5, <1>6, <1>7, <1>8, <1>9, Steps

\* Nothing is left out that has to be kept.
LEMMA KeepingStep ==
    ASSUME Shape, Draining, Timing, Cropping, Keeping, [Next]_vars
    PROVE  Keeping'
<1> DEFINE Kept(x) == \/ x \in Output' \cup Waiting' \cup lost'
                      \/ Over(x.file)'
                      \/ Of(x.file, "TRIGGER")' # {} /\ x.n < Begins(x.file)'
<1>1. ASSUME NEW x \in Range(read), x.type \in {"MESSAGE", "TRIGGER"}
      PROVE  Kept(x)
  <2>1. \/ x \in Output' \cup Waiting' \cup lost'
        \/ Over(x.file)
        \/ Of(x.file, "TRIGGER") # {} /\ x.n < Begins(x.file)
    <3>1. \/ x \in Output \cup Waiting \cup lost
          \/ Over(x.file)
          \/ Of(x.file, "TRIGGER") # {} /\ x.n < Begins(x.file)
      BY <1>1 DEF Keeping
    <3>2. Output \subseteq Output' /\ lost \subseteq lost'
      BY OutputStays
    <3> QED BY <3>1, <3>2, <1>1, WaitingGoes
  <2>2. x.file \in Nat
    BY Files
  <2>3. CASE Over(x.file)
    BY <2>2, <2>3, OverStays
  <2>4. CASE Of(x.file, "TRIGGER") # {} /\ x.n < Begins(x.file)
    BY <2>4, BeginsStays
  <2> QED BY <2>1, <2>3, <2>4
<1>2. ASSUME NEW e \in Event, Reads(e),
             Buffer_event(e) \/ Buffer_refuses(e) \/ Write_through(e)
      PROVE  e \in Output' \cup Waiting' \cup lost'
  <2>1. CASE Buffer_event(e)
    <3>1. Queue' = Append(Queue, e) /\ Queue \in Seq(Event) /\ pc' # "deleted"
      BY <2>1, Entering, QueueType DEF Shape, Buffer_event, Reads
    <3>2. e \in Range(Queue')
      BY <3>1, RangeMoves
    <3> QED BY <3>1, <3>2 DEF Waiting, Queue
  <2>2. CASE Buffer_refuses(e)
    BY <2>2 DEF Buffer_refuses
  <2>3. CASE Write_through(e)
    <3>1. write_event(e) \/ e \in lost'
      BY <2>3 DEF Write_through, Fails
    <3> QED BY <3>1, OutputStays
  <2> QED BY <1>2, <2>1, <2>2, <2>3
<1>3. ASSUME NEW x \in Range(read'), x.type \in {"MESSAGE", "TRIGGER"}
      PROVE  Kept(x)
  <2>1. CASE x \in Range(read)
    BY <2>1, <1>1, <1>3
  <2>2. ASSUME NEW e \in Event, Reads(e), x \notin Range(read) PROVE x = e
    BY <1>3, <2>2, ReadMore
  <2>3. CASE x \notin Range(read)
    BY <2>2, <2>3, <1>2, <1>3, ReadStep
  <2> QED BY <2>1, <2>3
<1> QED BY <1>3 DEF Keeping

----------------------------------------------------------------------------
(* The theorems.                                                            *)

\* The invariant is kept by every step.
LEMMA InvariantStep == IInv /\ [Next]_vars => IInv'
  BY ShapeStep, OrderingStep, DrainingStep, KnowingStep, TimingStep, NumberingStep,
     CroppingStep, KeepingStep DEF IInv

\* The invariant holds always.
LEMMA Invariance == Spec => []IInv
  BY InitInvariant, InvariantStep, PTL DEF Spec

\* Every variable has its type, and no block holds more than storage_size bytes.
THEOREM TypeCorrect == Spec => []TypeOK
<1>1. IInv => TypeOK
  BY ShapeIsTyped DEF IInv
<1> QED BY <1>1, Invariance, PTL

\* Unless a write failed while the buffer was drained, the output has the events
\* in the order they were read.
THEOREM OutputIsInOrder == Spec => []InOrder
<1>1. IInv => InOrder
  BY DEF IInv, Ordering, InOrder
<1> QED BY <1>1, Invariance, PTL

\* The events of a file whose times became known get the times of that file.
THEOREM TimesAreOwn == Spec => []TimedByOwnFile
<1>1. ASSUME IInv PROVE TimedByOwnFile
  <2>1. Shape /\ Timing
    BY <1>1 DEF IInv
  <2>2. ASSUME NEW i \in DOMAIN written, Times_known(written[i].event.file)
        PROVE  written[i].delta_file = written[i].event.file
    <3>1. written[i].event \in Range(read)
      BY <2>1, NumbersRead
    <3>2. written[i].event \in Event
      BY <2>1, <3>1, Input DEF Range
    <3>3. SUFFICES ASSUME written[i].delta_file # written[i].event.file PROVE FALSE
      OBVIOUS
    <3>4. written[i].event \in Mistimed
      BY <3>2, <3>3 DEF Mistimed
    <3>5. Over(written[i].event.file)
      BY <2>1, <3>4 DEF Timing
    <3> QED BY <2>2, <3>5 DEF Over
  <2> QED BY <2>2 DEF TimedByOwnFile
<1> QED BY <1>1, Invariance, PTL

\* The messages of the output are numbered from one without a gap.
THEOREM NumbersHaveNoGap == Spec => []Numbered
<1>1. IInv => Numbered
  BY DEF IInv, Numbering, Numbered, Messages
<1> QED BY <1>1, Invariance, PTL

\* The messages and triggers of the window of a file whose times became known are
\* written, or wait, or were lost in a call that failed.
THEOREM WindowIsNotCropped == Spec => []WindowIsKept
<1>1. ASSUME IInv PROVE WindowIsKept
  <2>1. Shape /\ Keeping
    BY <1>1 DEF IInv
  <2>2. ASSUME NEW i \in DOMAIN read, Times_known(read[i].file),
               i >= Begins(read[i].file), read[i].type \in {"MESSAGE", "TRIGGER"}
        PROVE  read[i] \in Output \cup Waiting \cup lost
    <3>1. read[i] \in Range(read) /\ read[i].n = i /\ i \in Nat
      BY <2>1, Input DEF Range
    <3>2. ~Over(read[i].file)
      BY <2>2 DEF Over
    <3>3. Of(read[i].file, "TRIGGER") # {}
      BY <2>2 DEF Times_known
    <3> DEFINE b == Begins(read[i].file)
    <3>4. b \in Int
      <4> DEFINE A == Of(read[i].file, "TRIGGER")
      <4>1. A \subseteq 1 .. Len(read) /\ Len(read) \in Nat
        BY <2>1, OfType, Input
      <4> HIDE DEF A
      <4>2. A \subseteq Nat
        BY <4>1
      <4>3. Min(A) \in A
        BY <3>3, <4>2, Least DEF A
      <4>4. read[Min(A)] \in Event /\ Min(A) \in Nat
        <5>1. Min(A) \in 1 .. Len(read)
          BY <4>1, <4>3
        <5> QED BY <2>1, <4>1, <5>1, Input
      <4>5. read[Min(A)].pre \in Nat
        BY <4>4, PreTriggerAssumption DEF Event
      <4> QED BY <4>4, <4>5 DEF Begins, A
    <3>5. ~(read[i].n < b)
      BY <2>2, <3>1, <3>4
    <3> QED BY <2>1, <2>2, <3>1, <3>2, <3>5 DEF Keeping
  <2> QED BY <2>2 DEF WindowIsKept
<1> QED BY <1>1, Invariance, PTL

----------------------------------------------------------------------------
(* The buffer is the write protected FIFO it should be.                     *)

\* It is empty at first.
LEMMA InitFifo == Init => Fifo!Init
<1> SUFFICES ASSUME Init PROVE Fifo!Init
  OBVIOUS
<1>1. event_buffer = New_queue /\ tmp = NoEvent
  BY DEF Init
<1>2. Contents(New_queue) = <<>> /\ New_queue.read_only = FALSE
  BY NewIsSound DEF New_queue
<1> QED BY <1>1, <1>2 DEF Fifo!Init

\* Every step of the converter pushes, pops or leaves it alone.
LEMMA StepFifo ==
    ASSUME Shape, [Next]_vars
    PROVE  [Fifo!Next]_(Fifo!vars)
<1>1. ASSUME NEW e \in Event, Buffer_event(e) PROVE Fifo!Next
  <2>1. /\ Queue' = Append(Queue, e)
        /\ event_buffer.read_only = FALSE /\ event_buffer'.read_only = FALSE
    <3>1. /\ Queue' = Append(Queue, e) /\ Buffered' /\ Buffered
          /\ ~event_buffer.read_only /\ ~event_buffer'.read_only
      BY <1>1, Entering DEF Shape
    <3>2. event_buffer.read_only \in BOOLEAN /\ event_buffer'.read_only \in BOOLEAN
      BY <3>1 DEF Buffered, Sound, Buffers
    <3> QED BY <3>1, <3>2
  <2>2. tmp' = tmp
    BY <1>1 DEF Buffer_event
  <2>3. Fifo!Push(e)
    BY <2>1, <2>2 DEF Fifo!Push, Queue
  <2> QED BY <2>3 DEF Fifo!Next
<1>2. ASSUME NEW e \in Event, Crop_event(e) \/ Write_buffered(e) \/ flush_event(e)
      PROVE  Fifo!Next
  <2>1. Pop(e)
    BY <1>2 DEF Crop_event, Write_buffered, flush_event
  <2>2. /\ Queue # <<>> /\ tmp' = Head(Queue) /\ Queue' = Tail(Queue)
        /\ event_buffer'.read_only = (Tail(Queue) # <<>>)
    BY <2>1, Leaving DEF Shape
  <2>3. Fifo!Pop
    BY <2>2 DEF Fifo!Pop, Queue
  <2> QED BY <2>3 DEF Fifo!Next
<1>3. ASSUME NEW e \in Event, Buffer_refuses(e) \/ Write_through(e)
      PROVE  UNCHANGED Fifo!vars
  <2>1. UNCHANGED <<event_buffer, tmp>>
    BY <1>3 DEF Buffer_refuses, Write_through
  <2> QED BY <2>1 DEF Fifo!vars
<1>4. ASSUME Drained \/ next_file \/ kvlcDeleteConverter \/ Delete \/ UNCHANGED vars
      PROVE  UNCHANGED Fifo!vars
  <2>1. UNCHANGED <<event_buffer, tmp>>
    BY <1>4 DEF Drained, next_file, kvlcDeleteConverter, Delete, vars
  <2> QED BY <2>1 DEF Fifo!vars
<1> QED BY <1>1, <1>2, <1>3, <1>4, Steps

\* Across memory and file, over files and failed writes, the buffer gives back
\* what was put into it, in order and once.
THEOREM BufferIsFifo == Spec => FifoSpec
<1>1. Spec => [][Next]_vars
  BY PTL DEF Spec
<1>2. Spec => Fifo!Init
  BY InitFifo DEF Spec
<1>3. IInv /\ [Next]_vars => [Fifo!Next]_(Fifo!vars)
  BY StepFifo DEF IInv
<1>4. Spec => [][Fifo!Next]_(Fifo!vars)
  BY <1>1, <1>3, Invariance, PTL
<1> QED BY <1>2, <1>4, PTL DEF FifoSpec, Fifo!Spec

----------------------------------------------------------------------------
(* The queue of the writers, BQueue, which flattens its blocks in the same   *)
(* way.                                                                      *)

CONSTANTS Item, NoItem, size_of_queue, MaxSize, MaxFaults

VARIABLES mem, block_file, current_block, total_size, read_only, taken, faults

BQ == INSTANCE BQueue WITH Element <- Item, NoElement <- NoItem,
                           file <- block_file, popped <- taken

\* What BQueue assumes.
BlockAssumption == BQ!SizeAssumption /\ BQ!BoundAssumption

\* Blocks in memory or on file: what is read of them does not wrap.
Kept ==
    {m \in BQ!Block : /\ m.head + m.current_size <= size_of_queue
                      /\ m.current_size = 0 \/ m.head < size_of_queue}

Items == Item \cup {NoItem}

\* The elements of blocks, one after the other.
All(s) == FlattenSeq([k \in DOMAIN s |-> BQ!Elements(s[k])])

\* What is not past the end does not wrap, and the end wraps to the start.
LEMMA Positions ==
    ASSUME BlockAssumption
    PROVE  /\ size_of_queue \in Nat /\ size_of_queue > 0
           /\ \A p \in 0 .. size_of_queue - 1 : p % size_of_queue = p
           /\ size_of_queue % size_of_queue = 0
  BY DEF BlockAssumption, BQ!SizeAssumption

\* The parts of a block.
LEMMA KeptParts ==
    ASSUME BlockAssumption, NEW m \in Kept
    PROVE  /\ m.storage \in [0 .. size_of_queue - 1 -> Items]
           /\ m.head \in 0 .. size_of_queue - 1
           /\ m.current_size \in 0 .. size_of_queue
           /\ m.head + m.current_size <= size_of_queue
           /\ m = [storage |-> m.storage, head |-> m.head,
                   current_size |-> m.current_size]
           /\ m \in BQ!Block
  BY DEF Kept, BQ!Block, BQ!Position, Items

\* The elements of a block are as many as it counts, from its head on.
LEMMA ElementsOf ==
    ASSUME BlockAssumption, NEW m \in Kept
    PROVE  /\ BQ!Elements(m) \in Seq(Items)
           /\ Len(BQ!Elements(m)) = m.current_size
           /\ \A k \in 1 .. m.current_size :
                  BQ!Elements(m)[k] = m.storage[m.head + k - 1]
<1> DEFINE n == m.current_size
           h == m.head
           s == m.storage
<1>0. /\ s \in [0 .. size_of_queue - 1 -> Items] /\ h \in Nat /\ n \in Nat
      /\ h + n <= size_of_queue /\ size_of_queue \in Nat
  <2>1. size_of_queue \in Nat
    BY Positions
  <2> QED BY <2>1, KeptParts
<1>1. BQ!Elements(m) = [k \in 1 .. n |-> s[(h + k - 1) % size_of_queue]]
  BY DEF BQ!Elements
<1> HIDE DEF n, h, s
<1>2. ASSUME NEW k \in 1 .. n
      PROVE  (h + k - 1) % size_of_queue = h + k - 1 /\ s[h + k - 1] \in Items
  <2>1. h + k - 1 \in 0 .. size_of_queue - 1
    BY <1>0
  <2> QED BY <2>1, <1>0, Positions
<1>3. BQ!Elements(m) = [k \in 1 .. n |-> s[h + k - 1]]
  BY <1>1, <1>2
<1>4. [k \in 1 .. n |-> s[h + k - 1]] \in Seq(Items)
  BY <1>0, <1>2
<1> QED BY <1>0, <1>3, <1>4 DEF n, h, s

\* A block just written out leaves nothing.
LEMMA EmptyBlock ==
    ASSUME BlockAssumption
    PROVE  /\ BQ!Empty_block \in Kept /\ BQ!Empty_block.head = 0
           /\ BQ!Empty_block.current_size = 0
           /\ BQ!Elements(BQ!Empty_block) = <<>>
<1> DEFINE m == BQ!Empty_block
<1>1. m \in Kept /\ m.head = 0 /\ m.current_size = 0
  BY Positions DEF BQ!Empty_block, Kept, BQ!Block, BQ!Position
<1>2. BQ!Elements(m) \in Seq(Items) /\ Len(BQ!Elements(m)) = 0
  <2> HIDE DEF m
  <2> QED BY <1>1, ElementsOf
<1> QED BY <1>1, <1>2, EmptySeq

\* An element put into a block that has room is the last of it.
LEMMA OneElementMore ==
    ASSUME BlockAssumption, NEW m \in Kept, m.head = 0,
           m.current_size < size_of_queue, NEW e \in Item
    PROVE  /\ BQ!With(m, e) \in Kept /\ BQ!With(m, e).head = 0
           /\ BQ!With(m, e).current_size = m.current_size + 1
           /\ BQ!Elements(BQ!With(m, e)) = Append(BQ!Elements(m), e)
<1> DEFINE n == m.current_size
           s == m.storage
           w == BQ!With(m, e)
<1>0. /\ s \in [0 .. size_of_queue - 1 -> Items] /\ n \in Nat
      /\ n \in 0 .. size_of_queue - 1 /\ size_of_queue \in Nat /\ e \in Items
      /\ n % size_of_queue = n
  BY KeptParts, Positions DEF Items
<1>1. m = [storage |-> s, head |-> 0, current_size |-> n]
  BY KeptParts
<1>2. w = [storage |-> [s EXCEPT ![n] = e], head |-> 0, current_size |-> n + 1]
  <2>1. n + 0 = n
    BY <1>0
  <2>2. w = [m EXCEPT !.storage[(n + 0) % size_of_queue] = e,
                      !.current_size = @ + 1]
    BY DEF BQ!With
  <2> HIDE DEF w
  <2>3. w = [m EXCEPT !.storage[n] = e, !.current_size = @ + 1]
    BY <2>1, <2>2, <1>0
  <2> QED BY <2>3, <1>1
<1> HIDE DEF n, s, w
<1>3. w \in Kept /\ w.head = 0 /\ w.current_size = n + 1
  BY <1>0, <1>2 DEF Kept, BQ!Block, BQ!Position, Items
<1>4. /\ BQ!Elements(w) \in Seq(Items) /\ Len(BQ!Elements(w)) = n + 1
      /\ \A k \in 1 .. n + 1 : BQ!Elements(w)[k] = w.storage[k - 1]
  <2>1. \A k \in 1 .. n + 1 : 0 + k - 1 = k - 1
    BY <1>0
  <2> QED BY <1>3, <2>1, ElementsOf
<1>5. /\ BQ!Elements(m) \in Seq(Items) /\ Len(BQ!Elements(m)) = n
      /\ \A k \in 1 .. n : BQ!Elements(m)[k] = s[k - 1]
  <2>1. \A k \in 1 .. n : 0 + k - 1 = k - 1
    BY <1>0
  <2> QED BY <2>1, ElementsOf DEF n, s
<1> DEFINE a == BQ!Elements(m)
           b == BQ!Elements(w)
<1> HIDE DEF a, b
<1>6. /\ Append(a, e) \in Seq(Items) /\ Len(Append(a, e)) = n + 1
      /\ Append(a, e)[n + 1] = e /\ \A k \in 1 .. n : Append(a, e)[k] = a[k]
  BY <1>0, <1>5, AppendProperties DEF a
<1>7. \A k \in 1 .. n + 1 : b[k] = Append(a, e)[k]
  <2>1. ASSUME NEW k \in 1 .. n PROVE b[k] = Append(a, e)[k]
    <3>1. b[k] = w.storage[k - 1]
      BY <2>1, <1>0, <1>4 DEF b
    <3>2. w.storage[k - 1] = s[k - 1]
      BY <2>1, <1>0, <1>2
    <3>3. Append(a, e)[k] = s[k - 1]
      BY <2>1, <1>5, <1>6 DEF a
    <3> QED BY <3>1, <3>2, <3>3
  <2>2. b[n + 1] = Append(a, e)[n + 1]
    <3>1. n + 1 \in 1 .. n + 1 /\ (n + 1) - 1 = n
      BY <1>0
    <3>2. b[n + 1] = w.storage[n]
      BY <3>1, <1>4 DEF b
    <3>3. w.storage[n] = e
      BY <1>0, <1>2
    <3> QED BY <3>2, <3>3, <1>6
  <2>3. \A k \in 1 .. n + 1 : k \in 1 .. n \/ k = n + 1
    BY <1>0
  <2> QED BY <2>1, <2>2, <2>3, Zenon
<1>8. b = Append(a, e)
  BY <1>4, <1>6, <1>7, SeqEqual DEF b
<1> QED BY <1>3, <1>8 DEF n, w, a, b

\* A block without its head has lost its first element.
LEMMA OneElementLess ==
    ASSUME BlockAssumption, NEW m \in Kept, m.current_size > 0
    PROVE  /\ BQ!Without_head(m) \in Kept
           /\ BQ!Without_head(m).current_size = m.current_size - 1
           /\ BQ!Elements(m) = <<m.storage[m.head]>> \o BQ!Elements(BQ!Without_head(m))
<1> DEFINE n == m.current_size
           h == m.head
           s == m.storage
           r == BQ!Without_head(m)
           i == (h + 1) % size_of_queue
<1>0. /\ s \in [0 .. size_of_queue - 1 -> Items] /\ h \in Nat /\ n \in Nat
      /\ h + n <= size_of_queue /\ n > 0 /\ h \in 0 .. size_of_queue - 1
  BY KeptParts
<1>1. size_of_queue \in Nat /\ size_of_queue > 0
  BY Positions
<1>2. m = [storage |-> s, head |-> h, current_size |-> n]
  BY KeptParts
<1>3. r = [storage |-> s, head |-> i, current_size |-> n - 1]
  <2>1. r = [m EXCEPT !.head = i, !.current_size = n - 1]
    BY DEF BQ!Without_head
  <2> HIDE DEF r, i, n, h, s
  <2> QED BY <2>1, <1>2
<1>4. i = IF h + 1 = size_of_queue THEN 0 ELSE h + 1
  <2>1. CASE h + 1 = size_of_queue
    BY <2>1, Positions
  <2>2. CASE h + 1 # size_of_queue
    <3>1. h + 1 \in 0 .. size_of_queue - 1
      BY <2>2, <1>0, <1>1
    <3> QED BY <3>1, <2>2, Positions
  <2> QED BY <2>1, <2>2
<1> HIDE DEF n, h, s, r, i
<1>5. /\ r \in Kept /\ r.current_size = n - 1
      /\ \A k \in 1 .. n - 1 : r.storage[r.head + k - 1] = s[h + k]
  <2>1. /\ i \in 0 .. size_of_queue - 1 /\ i + (n - 1) <= size_of_queue
        /\ n - 1 \in 0 .. size_of_queue /\ i < size_of_queue
    BY <1>0, <1>1, <1>4
  <2>2. r \in Kept /\ r.current_size = n - 1
    BY <1>0, <1>3, <2>1 DEF Kept, BQ!Block, BQ!Position, Items
  <2>3. ASSUME NEW k \in 1 .. n - 1 PROVE r.storage[r.head + k - 1] = s[h + k]
    <3>1. i + k - 1 = h + k
      BY <1>0, <1>1, <1>4
    <3> QED BY <3>1, <1>3
  <2> QED BY <2>2, <2>3
<1> DEFINE a == BQ!Elements(m)
           b == BQ!Elements(r)
           e == s[h]
<1>6. /\ a \in Seq(Items) /\ Len(a) = n /\ \A k \in 1 .. n : a[k] = s[h + k - 1]
      /\ e \in Items
  BY <1>0, ElementsOf DEF n, h, s
<1>7. /\ b \in Seq(Items) /\ Len(b) = n - 1 /\ \A k \in 1 .. n - 1 : b[k] = s[h + k]
  <2>1. /\ b \in Seq(Items) /\ Len(b) = r.current_size
        /\ \A k \in 1 .. r.current_size : b[k] = r.storage[r.head + k - 1]
    BY <1>5, ElementsOf
  <2> HIDE DEF b
  <2> QED BY <2>1, <1>5
<1> HIDE DEF a, b, e
<1> DEFINE t == <<e>> \o b
<1>8. /\ t \in Seq(Items) /\ Len(t) = n /\ t[1] = e
      /\ \A k \in 1 .. n - 1 : t[k + 1] = b[k]
  <2>1. <<e>> \in Seq(Items) /\ Len(<<e>>) = 1 /\ <<e>>[1] = e
    BY <1>6
  <2>2. /\ t \in Seq(Items) /\ Len(t) = 1 + (n - 1)
        /\ \A k \in 1 .. 1 + (n - 1) :
              t[k] = IF k <= 1 THEN <<e>>[k] ELSE b[k - 1]
    BY <2>1, <1>6, <1>7, ConcatProperties
  <2> HIDE DEF t
  <2>3. 1 + (n - 1) = n /\ 1 \in 1 .. n
    BY <1>0
  <2>4. ASSUME NEW k \in 1 .. n - 1 PROVE t[k + 1] = b[k]
    <3>1. k + 1 \in 1 .. n /\ ~(k + 1 <= 1) /\ (k + 1) - 1 = k
      BY <1>0
    <3> QED BY <3>1, <2>2, <2>3
  <2> QED BY <2>1, <2>2, <2>3, <2>4
<1> HIDE DEF t
<1>9. \A k \in 1 .. n : a[k] = t[k]
  <2> SUFFICES ASSUME NEW k \in 1 .. n PROVE a[k] = t[k]
    OBVIOUS
  <2>1. CASE k = 1
    <3>1. a[1] = s[h + 1 - 1] /\ h + 1 - 1 = h
      BY <1>0, <1>6
    <3> QED BY <2>1, <3>1, <1>8 DEF e
  <2>2. CASE k # 1
    <3>1. k - 1 \in 1 .. n - 1 /\ (k - 1) + 1 = k /\ h + (k - 1) = h + k - 1
      BY <1>0, <2>2
    <3>2. t[k] = b[k - 1]
      BY <3>1, <1>8
    <3>3. b[k - 1] = s[h + k - 1]
      BY <3>1, <1>7
    <3> QED BY <3>2, <3>3, <1>6
  <2> QED BY <2>1, <2>2
<1>10. a = t
  BY <1>6, <1>8, <1>9, SeqEqual
<1> QED BY <1>5, <1>10 DEF n, h, s, r, a, b, e, t

\* The elements of each block.
Listed(s) == [k \in DOMAIN s |-> BQ!Elements(s[k])]

\* They are one sequence for each.
LEMMA ListedType ==
    ASSUME BlockAssumption, NEW s \in Seq(Kept)
    PROVE  /\ Listed(s) \in Seq(Seq(Items)) /\ Len(Listed(s)) = Len(s)
           /\ \A k \in 1 .. Len(s) : Listed(s)[k] = BQ!Elements(s[k])
<1>1. DOMAIN s = 1 .. Len(s) /\ Len(s) \in Nat
  BY LenProperties
<1>2. ASSUME NEW k \in 1 .. Len(s) PROVE BQ!Elements(s[k]) \in Seq(Items)
  <2>1. s[k] \in Kept
    BY ElementOfSeq
  <2> QED BY <2>1, ElementsOf
<1>3. Listed(s) = [k \in 1 .. Len(s) |-> BQ!Elements(s[k])]
  BY <1>1 DEF Listed
<1> HIDE DEF Listed
<1> QED BY <1>1, <1>2, <1>3

\* They are elements.
LEMMA AllType ==
    ASSUME BlockAssumption, NEW s \in Seq(Kept)
    PROVE  All(s) \in Seq(Items)
  BY ListedType, FlattenType DEF All, Listed

\* No blocks, no elements.
LEMMA AllNone == All(<<>>) = <<>>
<1>1. [k \in DOMAIN <<>> |-> BQ!Elements(<<>>[k])] = <<>>
  OBVIOUS
<1> QED BY <1>1, FlattenFew DEF All

\* A block at the end.
LEMMA AllAppend ==
    ASSUME BlockAssumption, NEW s \in Seq(Kept), NEW m \in Kept
    PROVE  All(Append(s, m)) = All(s) \o BQ!Elements(m)
<1> DEFINE t == Append(s, m)
           a == Listed(s)
           b == Listed(t)
           e == BQ!Elements(m)
<1>1. /\ t \in Seq(Kept) /\ Len(t) = Len(s) + 1 /\ Len(s) \in Nat
      /\ t[Len(s) + 1] = m /\ \A k \in 1 .. Len(s) : t[k] = s[k]
  BY AppendProperties, LenProperties
<1> HIDE DEF t
<1>2. /\ a \in Seq(Seq(Items)) /\ Len(a) = Len(s)
      /\ \A k \in 1 .. Len(s) : a[k] = BQ!Elements(s[k])
  BY ListedType
<1>3. /\ b \in Seq(Seq(Items)) /\ Len(b) = Len(t)
      /\ \A k \in 1 .. Len(t) : b[k] = BQ!Elements(t[k])
  BY <1>1, ListedType
<1>4. e \in Seq(Items)
  BY ElementsOf
<1> HIDE DEF a, b
<1>5. b = Append(a, e)
  <2> HIDE DEF e
  <2>1. /\ Append(a, e) \in Seq(Seq(Items)) /\ Len(Append(a, e)) = Len(s) + 1
        /\ Append(a, e)[Len(s) + 1] = e
        /\ \A k \in 1 .. Len(s) : Append(a, e)[k] = a[k]
    BY <1>2, <1>4, AppendProperties
  <2>2. ASSUME NEW k \in 1 .. Len(b) PROVE b[k] = Append(a, e)[k]
    <3>1. k \in 1 .. Len(s) \/ k = Len(s) + 1
      BY <1>1, <1>3
    <3>2. CASE k \in 1 .. Len(s)
      BY <3>2, <2>1, <1>1, <1>2, <1>3
    <3>3. CASE k = Len(s) + 1
      BY <3>3, <2>1, <1>1, <1>3 DEF e
    <3> QED BY <3>1, <3>2, <3>3
  <2> QED BY <2>1, <2>2, <1>1, <1>3, SeqEqual
<1>6. FlattenSeq(Append(a, e)) = FlattenSeq(a) \o e
  BY <1>2, <1>4, FlattenAppend
<1>7. All(s) = FlattenSeq(a) /\ All(t) = FlattenSeq(b)
  BY DEF All, a, b, Listed
<1> QED BY <1>5, <1>6, <1>7 DEF t

\* The block at the head.
LEMMA AllHead ==
    ASSUME BlockAssumption, NEW s \in Seq(Kept), s # <<>>
    PROVE  /\ s[1] \in Kept /\ Tail(s) \in Seq(Kept)
           /\ All(s) = BQ!Elements(s[1]) \o All(Tail(s))
<1> DEFINE t == Tail(s)
           a == Listed(s)
           b == Listed(t)
<1>1. /\ t \in Seq(Kept) /\ Len(s) = Len(t) + 1 /\ Len(t) \in Nat /\ s[1] \in Kept
      /\ \A k \in 1 .. Len(t) : t[k] = s[k + 1]
  BY HeadTailProperties, LenProperties, EmptySeq
<1> HIDE DEF t
<1>2. /\ a \in Seq(Seq(Items)) /\ Len(a) = Len(s)
      /\ \A k \in 1 .. Len(s) : a[k] = BQ!Elements(s[k])
  BY ListedType
<1>3. /\ b \in Seq(Seq(Items)) /\ Len(b) = Len(t)
      /\ \A k \in 1 .. Len(t) : b[k] = BQ!Elements(t[k])
  BY <1>1, ListedType
<1> HIDE DEF a, b
<1>4. a # <<>> /\ Head(a) = BQ!Elements(s[1])
  <2>1. 1 \in 1 .. Len(s) /\ Len(a) # 0
    BY <1>1, <1>2
  <2>2. a # <<>>
    BY <2>1
  <2>3. Head(a) = a[1]
    BY <2>2, <1>2, HeadTailProperties
  <2> QED BY <2>1, <2>2, <2>3, <1>2
<1>5. Tail(a) = b
  <2>1. /\ Tail(a) \in Seq(Seq(Items)) /\ Len(Tail(a)) = Len(a) - 1
        /\ \A k \in 1 .. Len(a) - 1 : Tail(a)[k] = a[k + 1]
    BY <1>2, <1>4, HeadTailProperties
  <2>2. ASSUME NEW k \in 1 .. Len(b) PROVE b[k] = Tail(a)[k]
    <3>1. k \in 1 .. Len(t) /\ k \in 1 .. Len(a) - 1 /\ k + 1 \in 1 .. Len(s)
      BY <1>1, <1>2, <1>3
    <3>2. b[k] = BQ!Elements(t[k]) /\ Tail(a)[k] = BQ!Elements(s[k + 1])
      BY <3>1, <2>1, <1>2, <1>3
    <3> QED BY <3>1, <3>2, <1>1
  <2>3. Len(b) = Len(Tail(a))
    BY <2>1, <1>1, <1>2, <1>3
  <2> QED BY <2>1, <2>2, <2>3, <1>3, SeqEqual
<1>6. FlattenSeq(a) = Head(a) \o FlattenSeq(Tail(a))
  BY <1>2, <1>4, FlattenHead
<1>7. All(s) = FlattenSeq(a) /\ All(t) = FlattenSeq(b)
  BY DEF All, a, b, Listed
<1> QED BY <1>1, <1>4, <1>5, <1>6, <1>7 DEF t

\* The rest of a sequence.
LEMMA RestOf ==
    ASSUME NEW S, NEW s \in Seq(S), NEW n \in 1 .. Len(s)
    PROVE  /\ SubSeq(s, n + 1, Len(s)) \in Seq(S)
           /\ Len(SubSeq(s, n + 1, Len(s))) = Len(s) - n
           /\ \A k \in 1 .. Len(s) - n : SubSeq(s, n + 1, Len(s))[k] = s[n + k]
<1>1. Len(s) \in Nat /\ n \in Nat /\ n <= Len(s)
  BY LenProperties
<1>2. \A i \in n + 1 .. Len(s) : s[i] \in S
  <2>1. \A i \in n + 1 .. Len(s) : i \in 1 .. Len(s)
    BY <1>1
  <2> QED BY <2>1, ElementOfSeq
<1> DEFINE m == n + 1
           l == Len(s)
<1>3. /\ SubSeq(s, m, l) \in Seq(S)
      /\ Len(SubSeq(s, m, l)) = IF m <= l THEN l - m + 1 ELSE 0
      /\ \A i \in 1 .. l - m + 1 : SubSeq(s, m, l)[i] = s[m + i - 1]
  <2>1. m \in Int /\ l \in Int
    BY <1>1
  <2> HIDE DEF m, l
  <2> QED BY <2>1, <1>2, SubSeqProperties DEF m, l
<1>4. (IF m <= l THEN l - m + 1 ELSE 0) = l - n /\ l - m + 1 = l - n
  BY <1>1
<1>5. \A i \in 1 .. l - n : m + i - 1 = n + i
  BY <1>1
<1> HIDE DEF m, l
<1>6. /\ SubSeq(s, m, l) \in Seq(S) /\ Len(SubSeq(s, m, l)) = l - n
      /\ \A i \in 1 .. l - n : SubSeq(s, m, l)[i] = s[n + i]
  BY <1>3, <1>4, <1>5
<1> QED BY <1>6 DEF m, l

\* One of them more.
LEMMA RestTail ==
    ASSUME NEW S, NEW s \in Seq(S), NEW n \in 1 .. Len(s), n < Len(s)
    PROVE  /\ SubSeq(s, n + 1, Len(s)) # <<>>
           /\ SubSeq(s, n + 1, Len(s))[1] = s[n + 1]
           /\ Tail(SubSeq(s, n + 1, Len(s))) = SubSeq(s, (n + 1) + 1, Len(s))
<1>0. Len(s) \in Nat /\ n + 1 \in 1 .. Len(s) /\ n \in Nat
  BY LenProperties
<1> DEFINE m == n + 1
           r == SubSeq(s, n + 1, Len(s))
           t == SubSeq(s, m + 1, Len(s))
<1>1. /\ r \in Seq(S) /\ Len(r) = Len(s) - n
      /\ \A k \in 1 .. Len(s) - n : r[k] = s[n + k]
  BY RestOf
<1>2. /\ t \in Seq(S) /\ Len(t) = Len(s) - m
      /\ \A k \in 1 .. Len(s) - m : t[k] = s[m + k]
  <2> HIDE DEF m
  <2>1. m \in 1 .. Len(s)
    BY <1>0 DEF m
  <2> QED BY <2>1, RestOf
<1> HIDE DEF r, t
<1>3. r # <<>> /\ r[1] = s[n + 1]
  <2>1. Len(r) # 0 /\ 1 \in 1 .. Len(s) - n
    BY <1>0, <1>1
  <2> QED BY <2>1, <1>1
<1>4. /\ Tail(r) \in Seq(S) /\ Len(Tail(r)) = Len(r) - 1
      /\ \A k \in 1 .. Len(r) - 1 : Tail(r)[k] = r[k + 1]
  BY <1>1, <1>3, HeadTailProperties
<1>5. ASSUME NEW k \in 1 .. Len(Tail(r)) PROVE Tail(r)[k] = t[k]
  <2>1. /\ k \in 1 .. Len(r) - 1 /\ k + 1 \in 1 .. Len(s) - n
        /\ k \in 1 .. Len(s) - m /\ n + (k + 1) = m + k
    BY <1>0, <1>1, <1>4
  <2>2. Tail(r)[k] = s[n + (k + 1)]
    BY <2>1, <1>1, <1>4
  <2> QED BY <2>1, <2>2, <1>2
<1>6. Len(Tail(r)) = Len(t)
  BY <1>0, <1>1, <1>2, <1>4
<1>7. Tail(r) = t
  BY <1>2, <1>4, <1>5, <1>6, SeqEqual
<1> QED BY <1>3, <1>7 DEF r, t

\* All but the first.
LEMMA RestOfFirst ==
    ASSUME NEW S, NEW s \in Seq(S), s # <<>>
    PROVE  /\ 1 \in 1 .. Len(s)
           /\ Tail(s) = SubSeq(s, 1 + 1, Len(s))
<1>1. Len(s) \in Nat /\ Len(s) # 0
  BY LenProperties, EmptySeq
<1>2. 1 \in 1 .. Len(s)
  BY <1>1
<1> DEFINE r == SubSeq(s, 1 + 1, Len(s))
<1>3. /\ r \in Seq(S) /\ Len(r) = Len(s) - 1
      /\ \A k \in 1 .. Len(s) - 1 : r[k] = s[1 + k]
  BY <1>2, RestOf
<1>4. /\ Tail(s) \in Seq(S) /\ Len(Tail(s)) = Len(s) - 1
      /\ \A k \in 1 .. Len(s) - 1 : Tail(s)[k] = s[k + 1]
  BY HeadTailProperties
<1> HIDE DEF r
<1>5. ASSUME NEW k \in 1 .. Len(r) PROVE r[k] = Tail(s)[k]
  <2>1. k \in 1 .. Len(s) - 1 /\ 1 + k = k + 1
    BY <1>1, <1>3
  <2> QED BY <2>1, <1>3, <1>4
<1>6. r = Tail(s)
  BY <1>3, <1>4, <1>5, SeqEqual
<1> QED BY <1>2, <1>6 DEF r

\* What waits, by where the blocks are.
Waits(reading, m, f, n) ==
    IF reading THEN All(<<m>> \o SubSeq(f, n + 1, Len(f))) ELSE All(Append(f, m))

\* FlattenSeq as BQueue knows it is the same.
LEMMA SameFlatten == ASSUME NEW s PROVE BQ!FlattenSeq(s) = FlattenSeq(s)
<1>1. BQ!FlattenSeq(s) = IF Len(s) = 0 THEN s ELSE Flat(s)[Len(s)]
  BY DEF BQ!FlattenSeq, Flat
<1> QED BY <1>1, FlattenIsFlat

\* It is the queue.
LEMMA QueueWaits ==
    /\ BQ!queue = Waits(read_only, mem, block_file, current_block)
    /\ BQ!queue' = Waits(read_only', mem', block_file', current_block')
<1>1. BQ!queue = Waits(read_only, mem, block_file, current_block)
  <2>1. BQ!queue = All(BQ!Blocks)
    <3>1. BQ!queue = BQ!FlattenSeq([k \in DOMAIN BQ!Blocks |->
                                         BQ!Elements(BQ!Blocks[k])])
      BY DEF BQ!queue
    <3> QED BY <3>1, SameFlatten DEF All
  <2>2. BQ!Blocks = IF read_only
                     THEN <<mem>> \o SubSeq(block_file, current_block + 1,
                                             Len(block_file))
                     ELSE Append(block_file, mem)
    BY DEF BQ!Blocks
  <2>3. CASE read_only
    BY <2>1, <2>2, <2>3 DEF Waits
  <2>4. CASE ~read_only
    BY <2>1, <2>2, <2>4 DEF Waits
  <2> QED BY <2>3, <2>4
<1>2. BQ!queue' = Waits(read_only', mem', block_file', current_block')
  <2>1. BQ!queue' = All(BQ!Blocks')
    <3>1. BQ!queue' = BQ!FlattenSeq([k \in DOMAIN BQ!Blocks' |->
                                         BQ!Elements((BQ!Blocks')[k])])
      BY DEF BQ!queue
    <3> QED BY <3>1, SameFlatten DEF All
  <2>2. BQ!Blocks' = IF read_only'
                     THEN <<mem'>> \o SubSeq(block_file', current_block' + 1,
                                             Len(block_file'))
                     ELSE Append(block_file', mem')
    BY DEF BQ!Blocks
  <2>3. CASE read_only'
    BY <2>1, <2>2, <2>3 DEF Waits
  <2>4. CASE ~read_only'
    BY <2>1, <2>2, <2>4 DEF Waits
  <2> QED BY <2>3, <2>4
<1> QED BY <1>1, <1>2

\* While it is written.
LEMMA Writing ==
    ASSUME BlockAssumption, NEW m \in Kept, NEW f \in Seq(Kept), NEW n
    PROVE  Waits(FALSE, m, f, n) = All(f) \o BQ!Elements(m)
  BY AllAppend DEF Waits

\* While it is read.
LEMMA Reading_back ==
    ASSUME BlockAssumption, NEW m \in Kept, NEW f \in Seq(Kept), NEW n \in 1 .. Len(f)
    PROVE  Waits(TRUE, m, f, n) = BQ!Elements(m) \o All(SubSeq(f, n + 1, Len(f)))
<1> DEFINE r == SubSeq(f, n + 1, Len(f))
           s == <<m>> \o r
<1>1. r \in Seq(Kept)
  BY RestOf
<1> HIDE DEF r
<1>2. /\ <<m>> \in Seq(Kept) /\ Len(<<m>>) = 1 /\ <<m>>[1] = m
      /\ Len(r) \in Nat
  BY <1>1
<1>3. /\ s \in Seq(Kept) /\ Len(s) = 1 + Len(r)
      /\ \A k \in 1 .. 1 + Len(r) : s[k] = IF k <= 1 THEN <<m>>[k] ELSE r[k - 1]
  BY <1>1, <1>2, ConcatProperties
<1> HIDE DEF s
<1>4. s # <<>> /\ s[1] = m
  BY <1>2, <1>3
<1>5. /\ Tail(s) \in Seq(Kept) /\ Len(Tail(s)) = Len(s) - 1
      /\ \A k \in 1 .. Len(s) - 1 : Tail(s)[k] = s[k + 1]
  BY <1>3, <1>4, HeadTailProperties
<1>6. ASSUME NEW k \in 1 .. Len(r) PROVE Tail(s)[k] = r[k]
  <2>1. k + 1 \in 1 .. 1 + Len(r) /\ ~(k + 1 <= 1) /\ (k + 1) - 1 = k
        /\ k \in 1 .. Len(s) - 1
    BY <1>2, <1>3
  <2> QED BY <2>1, <1>3, <1>5
<1>7. Len(Tail(s)) = Len(r)
  BY <1>2, <1>3, <1>5
<1>8. Tail(s) = r
  BY <1>1, <1>5, <1>6, <1>7, SeqEqual
<1>9. All(s) = BQ!Elements(m) \o All(r)
  BY <1>3, <1>4, <1>8, AllHead
<1> QED BY <1>9 DEF Waits, s, r

\* The invariant.  The variables have their types and blocks do not wrap;
Typed ==
    /\ mem \in Kept /\ block_file \in Seq(Kept)
    /\ current_block \in 0 .. Len(block_file)
    /\ total_size \in 0 .. MaxSize /\ read_only \in BOOLEAN
    /\ taken \in Items /\ faults \in 0 .. MaxFaults

\* only the block written last may hold nothing;
Holding ==
    /\ \A k \in 1 .. Len(block_file) :
           block_file[k].current_size > 0 \/ (read_only /\ k = Len(block_file))
    /\ read_only => mem.current_size > 0 /\ current_block \in 1 .. Len(block_file)
    /\ ~read_only => mem.head = 0

\* and the total is the length of the queue.
Counted == total_size = Len(BQ!queue)

BQInv == Typed /\ Holding /\ Counted

\* What waits are elements.
LEMMA WaitsType ==
    ASSUME BlockAssumption, Typed, Holding
    PROVE  BQ!queue \in Seq(Items) /\ Len(BQ!queue) \in Nat
<1>1. BQ!queue \in Seq(Items)
  <2>0. /\ mem \in Kept /\ block_file \in Seq(Kept) /\ read_only \in BOOLEAN
        /\ BQ!Elements(mem) \in Seq(Items)
    BY ElementsOf DEF Typed
  <2>1. CASE read_only
    <3>1. current_block \in 1 .. Len(block_file)
      BY <2>1 DEF Holding
    <3> DEFINE r == SubSeq(block_file, current_block + 1, Len(block_file))
    <3>2. BQ!queue = BQ!Elements(mem) \o All(r)
      BY <2>0, <2>1, <3>1, QueueWaits, Reading_back
    <3>3. r \in Seq(Kept)
      BY <2>0, <3>1, RestOf
    <3> HIDE DEF r
    <3>4. All(r) \in Seq(Items)
      BY <3>3, AllType
    <3> QED BY <2>0, <3>2, <3>4, ConcatProperties
  <2>2. CASE ~read_only
    <3>1. BQ!queue = All(block_file) \o BQ!Elements(mem)
      <4>1. read_only = FALSE
        BY <2>0, <2>2
      <4> QED BY <2>0, <4>1, QueueWaits, Writing
    <3>2. All(block_file) \in Seq(Items)
      BY <2>0, AllType
    <3> QED BY <2>0, <3>1, <3>2, ConcatProperties
  <2> QED BY <2>1, <2>2
<1> QED BY <1>1, LenProperties

\* Behind two parts is behind the second.
LEMMA AppendBehind ==
    ASSUME NEW S, NEW a \in Seq(S), NEW b \in Seq(S), NEW e \in S
    PROVE  /\ a \o Append(b, e) = Append(a \o b, e)
           /\ a \o Append(<<>>, e) = Append(a, e)
<1>1. /\ a \o b \in Seq(S) /\ <<e>> \in Seq(S)
  BY ConcatProperties
<1>2. Append(b, e) = b \o <<e>> /\ Append(a \o b, e) = (a \o b) \o <<e>>
  BY <1>1, AppendIsConcat
<1>3. Append(a, e) = a \o <<e>> /\ Append(<<>>, e) = <<e>>
  BY AppendIsConcat
<1>4. (a \o b) \o <<e>> = a \o (b \o <<e>>)
  <2> DEFINE c == <<e>>
  <2>1. c \in Seq(S)
    BY <1>1
  <2> HIDE DEF c
  <2>2. (a \o b) \o c = a \o (b \o c)
    BY <2>1, ConcatAssociative
  <2> QED BY <2>2 DEF c
<1> QED BY <1>2, <1>3, <1>4

\* A push puts the element at the end.
LEMMA PushOfBlocks ==
    ASSUME BlockAssumption, BQInv, NEW e \in Item, BQ!push(e)
    PROVE  BQInv' /\ BQ!queue' = Append(BQ!queue, e) /\ mem'.current_size > 0
<1>0. /\ mem \in Kept /\ block_file \in Seq(Kept) /\ read_only = FALSE
      /\ mem.head = 0 /\ total_size < MaxSize
  BY DEF BQInv, Typed, Holding, BQ!push
<1>1. /\ UNCHANGED <<current_block, read_only, taken, faults>>
      /\ total_size' = total_size + 1
  BY DEF BQ!push
<1>2. /\ BQ!queue = All(block_file) \o BQ!Elements(mem)
      /\ All(block_file) \in Seq(Items) /\ BQ!Elements(mem) \in Seq(Items)
      /\ BQ!queue \in Seq(Items) /\ Len(BQ!queue) \in Nat
  <2>1. BQ!queue = All(block_file) \o BQ!Elements(mem)
    BY <1>0, QueueWaits, Writing
  <2> QED BY <2>1, <1>0, AllType, ElementsOf, WaitsType DEF BQInv
<1> DEFINE q == BQ!queue
<1>3. /\ mem' \in Kept /\ block_file' \in Seq(Kept) /\ mem'.head = 0
      /\ mem'.current_size > 0 /\ Len(block_file') \in Nat
      /\ Len(block_file) \in Nat /\ Len(block_file') >= Len(block_file)
      /\ \A k \in 1 .. Len(block_file') : block_file'[k].current_size > 0
      /\ BQ!queue' = Append(q, e)
  <2>0. /\ \A k \in 1 .. Len(block_file) : block_file[k].current_size > 0
        /\ Len(block_file) \in Nat
        /\ mem.current_size \in 0 .. size_of_queue /\ size_of_queue \in Nat
        /\ size_of_queue > 0 /\ e \in Items
    <3>1. Len(block_file) \in Nat
      BY <1>0, LenProperties
    <3>2. \A k \in 1 .. Len(block_file) : block_file[k].current_size > 0
      BY <1>0 DEF BQInv, Holding
    <3> QED BY <3>1, <3>2, <1>0, KeptParts, Positions DEF Items
  <2>1. CASE ~BQ!Full(mem)
    <3>1. mem' = BQ!With(mem, e) /\ block_file' = block_file
      BY <2>1 DEF BQ!push
    <3>2. mem.current_size < size_of_queue
      BY <2>0, <2>1 DEF BQ!Full
    <3>3. /\ mem' \in Kept /\ mem'.head = 0
          /\ mem'.current_size = mem.current_size + 1
          /\ BQ!Elements(mem') = Append(BQ!Elements(mem), e)
      BY <3>1, <3>2, <1>0, OneElementMore
    <3>4. BQ!queue' = All(block_file) \o Append(BQ!Elements(mem), e)
      <4>1. Waits(FALSE, mem', block_file, current_block) =
                All(block_file) \o BQ!Elements(mem')
        BY <3>3, <1>0, Writing
      <4>2. BQ!queue' = Waits(FALSE, mem', block_file, current_block)
        BY <3>1, <1>0, <1>1, QueueWaits
      <4> QED BY <4>1, <4>2, <3>3
    <3>5. BQ!queue' = Append(q, e)
      BY <3>4, <1>2, <2>0, AppendBehind
    <3>6. mem'.current_size > 0
      BY <3>3, <2>0
    <3> QED BY <3>1, <3>3, <3>5, <3>6, <1>0, <2>0
  <2>2. CASE BQ!Full(mem)
    <3> DEFINE z == BQ!Empty_block
    <3>1. mem' = BQ!With(z, e) /\ block_file' = Append(block_file, mem)
      BY <2>2 DEF BQ!push
    <3>2. z \in Kept /\ z.head = 0 /\ z.current_size = 0 /\ BQ!Elements(z) = <<>>
      BY EmptyBlock
    <3> HIDE DEF z
    <3>3. /\ mem' \in Kept /\ mem'.head = 0 /\ mem'.current_size = 0 + 1
          /\ BQ!Elements(mem') = Append(<<>>, e)
      <4>1. z.current_size < size_of_queue
        BY <3>2, <2>0
      <4> QED BY <4>1, <3>1, <3>2, OneElementMore
    <3>4. /\ block_file' \in Seq(Kept) /\ Len(block_file') = Len(block_file) + 1
          /\ block_file'[Len(block_file) + 1] = mem
          /\ \A k \in 1 .. Len(block_file) : block_file'[k] = block_file[k]
      BY <3>1, <1>0, AppendProperties
    <3>5. BQ!queue' = q \o Append(<<>>, e)
      <4>1. Waits(FALSE, mem', block_file', current_block) =
                All(block_file') \o BQ!Elements(mem')
        BY <3>3, <3>4, Writing
      <4>2. BQ!queue' = Waits(FALSE, mem', block_file', current_block)
        BY <1>0, <1>1, QueueWaits
      <4>3. All(block_file') = q
        BY <3>1, <1>0, <1>2, AllAppend
      <4> QED BY <4>1, <4>2, <4>3, <3>3
    <3>6. BQ!queue' = Append(q, e)
      BY <3>5, <1>2, <2>0, AppendBehind
    <3>7. ASSUME NEW k \in 1 .. Len(block_file') PROVE block_file'[k].current_size > 0
      <4>1. k \in 1 .. Len(block_file) \/ k = Len(block_file) + 1
        BY <3>4, <2>0
      <4>2. mem.current_size > 0
        BY <2>2, <2>0 DEF BQ!Full
      <4> QED BY <4>1, <4>2, <3>4, <2>0
    <3> QED BY <3>3, <3>4, <3>6, <3>7, <2>0
  <2> QED BY <2>1, <2>2
<1> HIDE DEF q
<1>4. Counted'
  <2>1. Len(Append(q, e)) = Len(q) + 1
    BY <1>2, AppendProperties DEF Items, q
  <2>2. total_size = Len(q)
    BY DEF BQInv, Counted, q
  <2> QED BY <2>1, <2>2, <1>1, <1>3 DEF Counted
<1>5. Typed'
  <2>1. /\ current_block \in 0 .. Len(block_file) /\ total_size \in 0 .. MaxSize
        /\ taken \in Items /\ faults \in 0 .. MaxFaults
    BY DEF BQInv, Typed
  <2>2. total_size' \in 0 .. MaxSize
    BY <1>0, <1>1, <2>1 DEF BlockAssumption, BQ!BoundAssumption
  <2>3. current_block' \in 0 .. Len(block_file')
    BY <1>1, <1>3, <2>1
  <2> QED BY <1>0, <1>1, <1>3, <2>1, <2>2, <2>3 DEF Typed
<1>6. Holding'
  BY <1>0, <1>1, <1>3 DEF Holding
<1> QED BY <1>3, <1>4, <1>5, <1>6 DEF BQInv, q

\* A pop that writes the last block, which holds something, and cannot read the
\* first loses nothing.
LEMMA FaultOfBlocks ==
    ASSUME BlockAssumption, BQInv, BQ!pop_cannot_read, mem.current_size > 0
    PROVE  BQInv' /\ BQ!queue' = BQ!queue
<1> DEFINE z == BQ!Empty_block
<1>0. /\ mem \in Kept /\ block_file \in Seq(Kept) /\ read_only = FALSE
      /\ faults \in 0 .. MaxFaults /\ faults < MaxFaults /\ MaxFaults \in Nat
      /\ Len(block_file) \in Nat
      /\ \A k \in 1 .. Len(block_file) : block_file[k].current_size > 0
  <2>1. faults \in 0 .. MaxFaults /\ faults < MaxFaults /\ MaxFaults \in Nat
    BY DEF BQInv, Typed, BQ!pop_cannot_read, BlockAssumption, BQ!BoundAssumption
  <2>2. block_file \in Seq(Kept)
    BY DEF BQInv, Typed
  <2>3. Len(block_file) \in Nat
    BY <2>2, LenProperties
  <2> QED BY <2>1, <2>2, <2>3 DEF BQInv, Typed, Holding, BQ!pop_cannot_read
<1>1. /\ block_file' = Append(block_file, mem) /\ mem' = z /\ faults' = faults + 1
      /\ UNCHANGED <<current_block, total_size, read_only, taken>>
  BY DEF BQ!pop_cannot_read
<1>2. z \in Kept /\ z.head = 0 /\ BQ!Elements(z) = <<>>
  BY EmptyBlock
<1> HIDE DEF z
<1>3. /\ BQ!queue = All(block_file) \o BQ!Elements(mem)
      /\ BQ!queue \in Seq(Items) /\ Len(BQ!queue) \in Nat
  <2>1. BQ!queue = All(block_file) \o BQ!Elements(mem)
    BY <1>0, QueueWaits, Writing
  <2> QED BY <2>1, WaitsType DEF BQInv
<1>4. /\ block_file' \in Seq(Kept) /\ Len(block_file') = Len(block_file) + 1
      /\ block_file'[Len(block_file) + 1] = mem
      /\ \A k \in 1 .. Len(block_file) : block_file'[k] = block_file[k]
  BY <1>0, <1>1, AppendProperties
<1>5. BQ!queue' = BQ!queue
  <2>1. Waits(FALSE, z, block_file', current_block) = All(block_file') \o BQ!Elements(z)
    BY <1>2, <1>4, Writing
  <2>2. BQ!queue' = Waits(FALSE, z, block_file', current_block)
    BY <1>0, <1>1, QueueWaits
  <2>3. All(block_file') = BQ!queue
    BY <1>0, <1>1, <1>3, AllAppend
  <2>4. BQ!queue \o <<>> = BQ!queue
    BY <1>3, ConcatEmptySeq
  <2> QED BY <2>1, <2>2, <2>3, <2>4, <1>2
<1>6. Typed'
  <2>1. /\ current_block \in 0 .. Len(block_file) /\ total_size \in 0 .. MaxSize
        /\ taken \in Items
    BY DEF BQInv, Typed
  <2>2. current_block' \in 0 .. Len(block_file') /\ faults' \in 0 .. MaxFaults
    BY <2>1, <1>0, <1>1, <1>4
  <2> QED BY <2>1, <2>2, <1>0, <1>1, <1>2, <1>4 DEF Typed
<1>7. Holding'
  <2>1. ASSUME NEW k \in 1 .. Len(block_file') PROVE block_file'[k].current_size > 0
    <3>1. k \in 1 .. Len(block_file) \/ k = Len(block_file) + 1
      BY <1>0, <1>4
    <3> QED BY <3>1, <1>0, <1>4
  <2>2. read_only' = FALSE /\ mem'.head = 0
    BY <1>0, <1>1, <1>2
  <2> QED BY <2>1, <2>2 DEF Holding
<1>8. Counted'
  BY <1>1, <1>5 DEF BQInv, Counted
<1> QED BY <1>5, <1>6, <1>7, <1>8 DEF BQInv

\* What a pop starts from: the blocks, how many were read, and the one it reads.
Begins_with(f, n, m) ==
    /\ f \in Seq(Kept) /\ n \in 1 .. Len(f) /\ m \in Kept /\ m.current_size > 0
    /\ \A k \in 1 .. Len(f) : f[k].current_size > 0 \/ k = Len(f)
    /\ BQ!queue = BQ!Elements(m) \o All(SubSeq(f, n + 1, Len(f)))

\* While the queue is read it is the block in memory.
LEMMA PopGoesOn ==
    ASSUME BlockAssumption, BQInv, read_only
    PROVE  Begins_with(block_file, current_block, mem)
<1>1. /\ block_file \in Seq(Kept) /\ mem \in Kept /\ mem.current_size > 0
      /\ current_block \in 1 .. Len(block_file)
      /\ \A k \in 1 .. Len(block_file) :
             block_file[k].current_size > 0 \/ k = Len(block_file)
  BY DEF BQInv, Typed, Holding
<1>2. BQ!queue = Waits(TRUE, mem, block_file, current_block)
  <2>1. read_only = TRUE
    BY DEF BQInv, Typed
  <2> QED BY <2>1, QueueWaits
<1> QED BY <1>1, <1>2, Reading_back DEF Begins_with

\* The first pop writes the block in memory and reads the first.
LEMMA PopTurnsRound ==
    ASSUME BlockAssumption, BQInv, ~read_only, total_size > 0
    PROVE  Begins_with(Append(block_file, mem), 1, Append(block_file, mem)[1])
<1> DEFINE f == Append(block_file, mem)
<1>0. /\ block_file \in Seq(Kept) /\ mem \in Kept /\ Len(block_file) \in Nat
      /\ \A k \in 1 .. Len(block_file) : block_file[k].current_size > 0
      /\ read_only = FALSE
  <2>1. block_file \in Seq(Kept) /\ mem \in Kept
    BY DEF BQInv, Typed
  <2>2. Len(block_file) \in Nat
    BY <2>1, LenProperties
  <2> QED BY <2>1, <2>2 DEF BQInv, Typed, Holding
<1>1. /\ f \in Seq(Kept) /\ Len(f) = Len(block_file) + 1
      /\ f[Len(block_file) + 1] = mem /\ f # <<>>
      /\ \A k \in 1 .. Len(block_file) : f[k] = block_file[k]
  BY <1>0, AppendProperties
<1>2. BQ!queue = All(f)
  <2>1. BQ!queue = Waits(FALSE, mem, block_file, current_block)
    BY <1>0, QueueWaits
  <2> QED BY <2>1 DEF Waits
<1> HIDE DEF f
<1>3. /\ f[1] \in Kept
      /\ BQ!queue = BQ!Elements(f[1]) \o All(Tail(f))
  BY <1>1, <1>2, AllHead
<1>4. 1 \in 1 .. Len(f) /\ Tail(f) = SubSeq(f, 1 + 1, Len(f))
  BY <1>1, RestOfFirst
<1>5. ASSUME NEW k \in 1 .. Len(f) PROVE f[k].current_size > 0 \/ k = Len(f)
  <2>1. k \in 1 .. Len(block_file) \/ k = Len(f)
    BY <1>0, <1>1
  <2> QED BY <2>1, <1>0, <1>1
<1>6. f[1].current_size > 0
  <2>1. CASE Len(f) = 1
    <3>1. Tail(f) = <<>>
      <4>1. f \in Seq(Kept) /\ f # <<>>
        BY <1>1
      <4>2. Tail(f) \in Seq(Kept) /\ Len(Tail(f)) = Len(f) - 1
        BY <4>1, HeadTailProperties, Zenon
      <4> DEFINE g == Tail(f)
      <4> HIDE DEF g
      <4>3. g \in Seq(Kept) /\ Len(g) = 0
        BY <4>2, <2>1 DEF g
      <4>4. g = <<>>
        BY <4>3, EmptySeq
      <4> QED BY <4>4 DEF g
    <3>2. BQ!Elements(f[1]) \in Seq(Items) /\ Len(BQ!Elements(f[1])) = f[1].current_size
      BY <1>3, ElementsOf
    <3>3. BQ!queue = BQ!Elements(f[1])
      BY <1>3, <3>1, <3>2, AllNone, ConcatEmptySeq
    <3>4. total_size = Len(BQ!queue)
      BY DEF BQInv, Counted
    <3> QED BY <3>2, <3>3, <3>4
  <2>2. CASE Len(f) # 1
    BY <2>2, <1>4, <1>5
  <2> QED BY <2>1, <2>2
<1> QED BY <1>1, <1>3, <1>4, <1>5, <1>6 DEF Begins_with, f

\* A pop takes the first element, and the queue starts over when it was the last.
LEMMA PopOfBlocks ==
    ASSUME BlockAssumption, BQInv, BQ!pop
    PROVE  /\ BQInv' /\ BQ!queue # <<>>
           /\ taken' = Head(BQ!queue) /\ BQ!queue' = Tail(BQ!queue)
           /\ read_only' = (Tail(BQ!queue) # <<>>)
<1> DEFINE f == IF read_only THEN block_file ELSE Append(block_file, mem)
           n == IF read_only THEN current_block ELSE 1
           m == IF read_only THEN mem ELSE f[1]
           t == BQ!Without_head(m)
           r == SubSeq(f, n + 1, Len(f))
           rest == BQ!Elements(t) \o All(r)
           x == m.storage[m.head]
           z == BQ!Empty_block
           q == BQ!queue
<1>0. Begins_with(f, n, m)
  <2>1. total_size > 0
    BY DEF BQ!pop
  <2>2. CASE read_only
    BY <2>2, PopGoesOn
  <2>3. CASE ~read_only
    BY <2>1, <2>3, PopTurnsRound
  <2> QED BY <2>2, <2>3
<1>1. /\ taken' = x /\ faults' = faults /\ total_size > 0
      /\ \/ /\ total_size = 1 /\ mem' = z /\ block_file' = <<>>
            /\ current_block' = 0 /\ total_size' = 0 /\ read_only' = FALSE
         \/ /\ total_size # 1 /\ block_file' = f /\ read_only' = TRUE
            /\ total_size' = total_size - 1
            /\ \/ /\ t.current_size = 0
                  /\ mem' = BQ!Read_block(f, n) /\ current_block' = n + 1
               \/ /\ t.current_size # 0
                  /\ mem' = t /\ current_block' = n
  BY Zenon DEF BQ!pop, BQ!Emptied, BQ!Start_over
<1> HIDE DEF f, n, m
<1>2. /\ f \in Seq(Kept) /\ n \in 1 .. Len(f) /\ m \in Kept /\ m.current_size > 0
      /\ \A k \in 1 .. Len(f) : f[k].current_size > 0 \/ k = Len(f)
      /\ q = BQ!Elements(m) \o All(r) /\ Len(f) \in Nat
  <2>1. f \in Seq(Kept)
    BY <1>0 DEF Begins_with
  <2> QED BY <2>1, <1>0, LenProperties DEF Begins_with
<1>3. /\ t \in Kept /\ t.current_size = m.current_size - 1
      /\ BQ!Elements(m) = <<x>> \o BQ!Elements(t)
  BY <1>2, OneElementLess
<1>4. /\ x \in Items /\ t.current_size \in 0 .. size_of_queue
      /\ BQ!Elements(t) \in Seq(Items) /\ Len(BQ!Elements(t)) = t.current_size
      /\ r \in Seq(Kept) /\ Len(r) = Len(f) - n
  <2>1. x \in Items
    <3>1. /\ m.storage \in [0 .. size_of_queue - 1 -> Items]
          /\ m.head \in 0 .. size_of_queue - 1
      BY <1>2, KeptParts
    <3> QED BY <3>1
  <2>2. r \in Seq(Kept) /\ Len(r) = Len(f) - n
    BY <1>2, RestOf
  <2> HIDE DEF x, t, r
  <2> QED BY <2>1, <2>2, <1>3, KeptParts, ElementsOf
<1>5. All(r) \in Seq(Items)
  <2> HIDE DEF r
  <2> QED BY <1>4, AllType
<1>6. q \in Seq(Items) /\ Len(q) \in Nat /\ total_size = Len(q)
  BY WaitsType DEF BQInv, Counted
<1> HIDE DEF t, r, x, z, q
<1>7. rest \in Seq(Items) /\ q = <<x>> \o rest
  <2> DEFINE a == <<x>>
             b == BQ!Elements(t)
             c == All(r)
  <2>1. a \in Seq(Items) /\ b \in Seq(Items) /\ c \in Seq(Items)
    BY <1>4, <1>5
  <2>2. q = (a \o b) \o c
    BY <1>2, <1>3
  <2> HIDE DEF a, b, c
  <2>3. (a \o b) \o c = a \o (b \o c) /\ b \o c \in Seq(Items)
    BY <2>1, ConcatAssociative, ConcatProperties, SMTT(30)
  <2> QED BY <2>2, <2>3 DEF a, b, c
<1> HIDE DEF rest
<1>8. /\ q # <<>> /\ Head(q) = x /\ Tail(q) = rest
      /\ Len(q) = Len(rest) + 1 /\ Len(rest) \in Nat
  <2>1. /\ Len(<<x>>) = 1 /\ <<x>>[1] = x /\ <<x>> \in Seq(Items)
        /\ Len(rest) \in Nat
    BY <1>4, <1>7, LenProperties
  <2>2. /\ Len(q) = 1 + Len(rest)
        /\ \A k \in 1 .. 1 + Len(rest) : q[k] = IF k <= 1 THEN <<x>>[k] ELSE rest[k - 1]
    BY <2>1, <1>7, ConcatProperties
  <2>3. q # <<>> /\ q[1] = x
    BY <2>1, <2>2
  <2>4. /\ Head(q) = q[1] /\ Tail(q) \in Seq(Items) /\ Len(Tail(q)) = Len(q) - 1
        /\ \A k \in 1 .. Len(q) - 1 : Tail(q)[k] = q[k + 1]
    BY <2>3, <1>6, HeadTailProperties
  <2>5. ASSUME NEW k \in 1 .. Len(rest) PROVE Tail(q)[k] = rest[k]
    <3>1. /\ k \in 1 .. Len(q) - 1 /\ k + 1 \in 1 .. 1 + Len(rest)
          /\ ~(k + 1 <= 1) /\ (k + 1) - 1 = k
      BY <2>1, <2>2
    <3> QED BY <3>1, <2>2, <2>4
  <2>6. Len(Tail(q)) = Len(rest)
    BY <2>1, <2>2, <2>4
  <2>7. Tail(q) = rest
    BY <2>4, <2>5, <2>6, <1>7, SeqEqual
  <2> QED BY <2>1, <2>2, <2>3, <2>4, <2>7
<1>9. /\ faults \in 0 .. MaxFaults /\ total_size \in 0 .. MaxSize
      /\ Len(<<>>) = 0 /\ MaxSize \in Nat
  BY DEF BQInv, Typed, BlockAssumption, BQ!BoundAssumption
<1>10. CASE total_size = 1
  <2>1. rest = <<>>
    BY <1>10, <1>6, <1>7, <1>8, EmptySeq
  <2>2. /\ mem' = z /\ block_file' = <<>> /\ current_block' = 0
        /\ total_size' = 0 /\ read_only' = FALSE
    BY <1>1, <1>10
  <2>3. z \in Kept /\ z.head = 0 /\ BQ!Elements(z) = <<>>
    BY EmptyBlock DEF z
  <2>4. BQ!queue' = <<>>
    <3>1. Waits(FALSE, z, <<>>, 0) = All(<<>>) \o BQ!Elements(z)
      <4>1. <<>> \in Seq(Kept)
        OBVIOUS
      <4> QED BY <4>1, <2>3, Writing
    <3>2. BQ!queue' = Waits(FALSE, z, <<>>, 0)
      BY <2>2, QueueWaits
    <3>3. <<>> \o <<>> = <<>>
      BY ConcatEmptySeq
    <3> QED BY <3>1, <3>2, <3>3, <2>3, AllNone
  <2>5. Typed' /\ Holding'
    <3>1. /\ mem' \in Kept /\ block_file' \in Seq(Kept) /\ Len(block_file') = 0
          /\ mem'.head = 0 /\ taken' \in Items /\ faults' \in 0 .. MaxFaults
      BY <2>2, <2>3, <1>1, <1>4, <1>9
    <3>2. current_block' \in 0 .. Len(block_file') /\ total_size' \in 0 .. MaxSize
      BY <3>1, <2>2, <1>9
    <3>3. \A k \in 1 .. Len(block_file') : FALSE
      BY <3>1
    <3> QED BY <3>1, <3>2, <3>3, <2>2 DEF Typed, Holding
  <2>6. Counted'
    BY <2>2, <2>4, <1>9 DEF Counted
  <2> QED BY <2>1, <2>2, <2>4, <2>5, <2>6, <1>1, <1>8 DEF BQInv, q
<1>11. CASE total_size # 1
  <2>1. Len(rest) > 0 /\ rest # <<>>
    BY <1>11, <1>1, <1>6, <1>8, <1>9
  <2>2. /\ block_file' = f /\ read_only' = TRUE /\ total_size' = total_size - 1
    BY <1>1, <1>11
  <2>3. /\ mem' \in Kept /\ mem'.current_size > 0 /\ current_block' \in 1 .. Len(f)
        /\ BQ!queue' = rest
    <3>1. CASE t.current_size # 0
      <4>1. mem' = t /\ current_block' = n
        BY <3>1, <1>1, <1>11
      <4>2. BQ!queue' = Waits(TRUE, t, f, n)
        BY <4>1, <2>2, QueueWaits
      <4>3. Waits(TRUE, t, f, n) = rest
        BY <1>2, <1>3, Reading_back DEF rest, r
      <4>4. t \in Kept /\ t.current_size > 0
        <5>1. t \in Kept
          BY <1>3
        <5>2. t.current_size \in 0 .. size_of_queue
          BY <5>1, KeptParts
        <5>3. t.current_size > 0
          BY <5>2, <3>1, Positions
        <5> QED BY <5>1, <5>3
      <4> QED BY <4>1, <4>2, <4>3, <4>4, <1>2
    <3>2. CASE t.current_size = 0
      <4>1. rest = All(r)
        <5>1. BQ!Elements(t) = <<>>
          BY <3>2, <1>4, EmptySeq
        <5> QED BY <5>1, <1>5, ConcatEmptySeq DEF rest
      <4>2. n < Len(f)
        <5>1. r # <<>>
          BY <4>1, <2>1, AllNone
        <5>2. Len(r) # 0
          BY <5>1, <1>4, EmptySeq
        <5> QED BY <5>2, <1>2, <1>4
      <4> DEFINE k == n + 1
      <4>3. k \in 1 .. Len(f) /\ mem' = f[k] /\ current_block' = k /\ f[k] \in Kept
        <5>1. k \in 1 .. Len(f)
          BY <4>2, <1>2
        <5>2. f[k] \in Kept
          BY <5>1, <1>2, ElementOfSeq
        <5>3. mem' = f[k] /\ current_block' = k
          BY <4>2, <3>2, <1>1, <1>11 DEF BQ!Read_block
        <5> QED BY <5>1, <5>2, <5>3
      <4>4. r # <<>> /\ r[1] = f[k] /\ Tail(r) = SubSeq(f, k + 1, Len(f))
        BY <4>2, <1>2, RestTail DEF r
      <4>5. All(r) = BQ!Elements(f[k]) \o All(SubSeq(f, k + 1, Len(f)))
        BY <4>4, <1>4, AllHead
      <4> HIDE DEF k
      <4>6. BQ!queue' = rest
        <5>1. BQ!queue' = Waits(TRUE, f[k], f, k)
          BY <4>3, <2>2, QueueWaits
        <5>2. Waits(TRUE, f[k], f, k) =
                  BQ!Elements(f[k]) \o All(SubSeq(f, k + 1, Len(f)))
          BY <4>3, <1>2, Reading_back
        <5> QED BY <5>1, <5>2, <4>1, <4>5
      <4>7. f[k].current_size > 0
        <5>1. CASE k = Len(f)
          <6> DEFINE u == SubSeq(f, k + 1, Len(f))
          <6>1. u \in Seq(Kept) /\ Len(u) = Len(f) - k
            BY <4>3, <1>2, RestOf
          <6> HIDE DEF u
          <6>2. u = <<>>
            BY <6>1, <5>1, <1>2, EmptySeq
          <6>3. /\ BQ!Elements(f[k]) \in Seq(Items)
                /\ Len(BQ!Elements(f[k])) = f[k].current_size
            BY <4>3, ElementsOf
          <6>4. rest = BQ!Elements(f[k])
            BY <4>1, <4>5, <6>2, <6>3, AllNone, ConcatEmptySeq DEF u
          <6> QED BY <6>3, <6>4, <2>1
        <5>2. CASE k # Len(f)
          BY <5>2, <4>3, <1>2
        <5> QED BY <5>1, <5>2
      <4> QED BY <4>3, <4>6, <4>7
    <3> QED BY <3>1, <3>2
  <2>4. Counted'
    BY <2>2, <2>3, <1>6, <1>8 DEF Counted
  <2>5. Typed'
    <3>1. current_block' \in 0 .. Len(block_file') /\ total_size' \in 0 .. MaxSize
      BY <2>2, <2>3, <1>1, <1>2, <1>9
    <3> QED BY <3>1, <2>2, <2>3, <1>1, <1>2, <1>4, <1>9 DEF Typed
  <2>6. Holding'
    <3>1. \A k \in 1 .. Len(block_file') :
              block_file'[k].current_size > 0 \/ k = Len(block_file')
      BY <2>2, <1>2
    <3> QED BY <3>1, <2>2, <2>3 DEF Holding
  <2> QED BY <2>1, <2>2, <2>3, <2>4, <2>5, <2>6, <1>1, <1>8 DEF BQInv, q
<1> QED BY <1>10, <1>11

\* At first there is nothing.
LEMMA NoBlocks ==
    ASSUME BlockAssumption, BQ!Init
    PROVE  BQInv /\ BQ!queue = <<>>
<1> DEFINE z == BQ!Empty_block
<1>1. /\ mem = z /\ block_file = <<>> /\ current_block = 0 /\ total_size = 0
      /\ read_only = FALSE /\ taken = NoItem /\ faults = 0
  BY DEF BQ!Init
<1>2. z \in Kept /\ z.head = 0 /\ BQ!Elements(z) = <<>>
  BY EmptyBlock
<1> HIDE DEF z
<1>3. <<>> \in Seq(Kept) /\ Len(<<>>) = 0
  OBVIOUS
<1>4. BQ!queue = <<>>
  <2>1. Waits(FALSE, z, <<>>, 0) = All(<<>>) \o BQ!Elements(z)
    BY <1>2, <1>3, Writing
  <2>2. BQ!queue = Waits(FALSE, z, <<>>, 0)
    BY <1>1, QueueWaits
  <2>3. <<>> \o <<>> = <<>>
    BY ConcatEmptySeq
  <2> QED BY <2>1, <2>2, <2>3, <1>2, AllNone
<1>5. Typed
  <2>1. MaxSize \in Nat /\ MaxFaults \in Nat
    BY DEF BlockAssumption, BQ!BoundAssumption
  <2>2. 0 \in 0 .. MaxSize /\ 0 \in 0 .. MaxFaults /\ 0 \in 0 .. 0 /\ NoItem \in Items
    BY <2>1 DEF Items
  <2>3. mem \in Kept /\ block_file \in Seq(Kept) /\ Len(block_file) = 0
    BY <1>1, <1>2, <1>3
  <2> QED BY <2>2, <2>3, <1>1 DEF Typed
<1>6. Holding
  BY <1>1, <1>2, <1>3 DEF Holding
<1>7. Counted
  BY <1>1, <1>3, <1>4 DEF Counted
<1> QED BY <1>4, <1>5, <1>6, <1>7 DEF BQInv

\* A step that changes nothing.
LEMMA IdleBlocks ==
    ASSUME BQInv, UNCHANGED BQ!vars
    PROVE  /\ BQInv' /\ BQ!queue' = BQ!queue
           /\ UNCHANGED <<taken, read_only>>
<1>1. UNCHANGED <<mem, block_file, current_block, total_size, read_only, taken, faults>>
  BY DEF BQ!vars
<1>2. BQ!queue' = BQ!queue
  BY <1>1, QueueWaits
<1>3. Typed' /\ Holding'
  BY <1>1 DEF BQInv, Typed, Holding
<1>4. Counted'
  BY <1>1, <1>2 DEF BQInv, Counted
<1> QED BY <1>1, <1>2, <1>3, <1>4 DEF BQInv

\* A first pop that fails wrote a block that holds something.
Worth_writing == BQ!pop_cannot_read => mem.current_size > 0

\* Every such step keeps the invariant, and is one of the queue or none.
LEMMA StepOfBlocks ==
    ASSUME BlockAssumption, BQInv, [BQ!Next]_(BQ!vars), [Worth_writing]_(BQ!vars)
    PROVE  BQInv' /\ [BQ!Fifo!Next]_(BQ!Fifo!vars)
<1>1. ASSUME NEW e \in Item, BQ!push(e)
      PROVE  BQInv' /\ BQ!Fifo!Push(e)
  <2>1. ~read_only /\ UNCHANGED <<taken, read_only>>
    BY <1>1 DEF BQ!push
  <2> QED BY <2>1, <1>1, PushOfBlocks DEF BQ!Fifo!Push
<1>2. CASE BQ!pop
  BY <1>2, PopOfBlocks DEF BQ!Fifo!Next, BQ!Fifo!Pop
<1>3. CASE BQ!pop_cannot_read /\ mem.current_size > 0
  <2>1. UNCHANGED <<taken, read_only>>
    BY <1>3 DEF BQ!pop_cannot_read
  <2> QED BY <2>1, <1>3, FaultOfBlocks DEF BQ!Fifo!vars
<1>4. CASE UNCHANGED BQ!vars
  BY <1>4, IdleBlocks DEF BQ!Fifo!vars
<1> QED BY <1>1, <1>2, <1>3, <1>4 DEF BQ!Next, BQ!Fifo!Next, Worth_writing

\* The invariant of BQueue holds as long as no block is written in vain.
LEMMA BlocksInvariance ==
    ASSUME BlockAssumption
    PROVE  BQ!Spec /\ [][Worth_writing]_(BQ!vars) => []BQInv
<1>1. BQ!Init => BQInv
  BY NoBlocks
<1>2. BQInv /\ [BQ!Next]_(BQ!vars) /\ [Worth_writing]_(BQ!vars) => BQInv'
  BY StepOfBlocks
<1> QED BY <1>1, <1>2, PTL DEF BQ!Spec

\* Until a pop has failed, a queue that has written a block has an element in
\* memory.
In_memory ==
    ~read_only /\ faults = 0 /\ block_file # <<>> => mem.current_size > 0

\* The first pop that fails writes a block that holds something.
LEMMA FirstFault ==
    ASSUME BlockAssumption, BQInv, In_memory, faults = 0, BQ!pop_cannot_read
    PROVE  mem.current_size > 0
<1>1. /\ mem \in Kept /\ block_file \in Seq(Kept) /\ read_only = FALSE
      /\ total_size > 0
  BY DEF BQInv, Typed, BQ!pop_cannot_read
<1>2. CASE block_file = <<>>
  <2>1. BQ!queue = All(block_file) \o BQ!Elements(mem)
    BY <1>1, QueueWaits, Writing
  <2>2. BQ!Elements(mem) \in Seq(Items) /\ Len(BQ!Elements(mem)) = mem.current_size
    BY <1>1, ElementsOf
  <2>3. BQ!queue = BQ!Elements(mem)
    BY <1>2, <2>1, <2>2, AllNone, ConcatEmptySeq
  <2> QED BY <2>2, <2>3, <1>1 DEF BQInv, Counted
<1>3. CASE block_file # <<>>
  BY <1>1, <1>3 DEF In_memory
<1> QED BY <1>2, <1>3

\* A step of a queue whose first pop fails once at most writes no block in vain.
LEMMA StepWithOneFault ==
    ASSUME BlockAssumption, MaxFaults <= 1, BQInv, In_memory, [BQ!Next]_(BQ!vars)
    PROVE  BQInv' /\ In_memory' /\ [Worth_writing]_(BQ!vars)
<1>0. /\ faults \in 0 .. MaxFaults /\ MaxFaults \in Nat /\ read_only \in BOOLEAN
  BY DEF BQInv, Typed, BlockAssumption, BQ!BoundAssumption
<1>1. [Worth_writing]_(BQ!vars)
  <2>1. ASSUME BQ!pop_cannot_read PROVE faults = 0
    BY <2>1, <1>0 DEF BQ!pop_cannot_read
  <2> QED BY <2>1, FirstFault DEF Worth_writing
<1>2. BQInv'
  BY <1>1, StepOfBlocks
<1>3. In_memory'
  <2>1. ASSUME NEW e \in Item, BQ!push(e) PROVE mem'.current_size > 0
    BY <2>1, PushOfBlocks
  <2>2. ASSUME BQ!pop PROVE read_only' = TRUE \/ block_file' = <<>>
    BY <2>2 DEF BQ!pop, BQ!Start_over
  <2>3. ASSUME BQ!pop_cannot_read PROVE faults' # 0
    BY <2>3, <1>0 DEF BQ!pop_cannot_read
  <2>4. CASE UNCHANGED BQ!vars
    BY <2>4 DEF BQ!vars, In_memory
  <2> QED BY <2>1, <2>2, <2>3, <2>4 DEF BQ!Next, In_memory
<1> QED BY <1>1, <1>2, <1>3

\* If a first pop fails once at most, no block is written in vain.
LEMMA OneFault ==
    ASSUME BlockAssumption, MaxFaults <= 1
    PROVE  BQ!Spec => [][Worth_writing]_(BQ!vars)
<1>1. BQ!Init => BQInv /\ In_memory
  BY NoBlocks DEF In_memory, BQ!Init
<1>2. BQInv /\ In_memory /\ [BQ!Next]_(BQ!vars)
          => BQInv' /\ In_memory' /\ [Worth_writing]_(BQ!vars)
  BY StepWithOneFault
<1> QED BY <1>1, <1>2, PTL DEF BQ!Spec

\* Every variable of BQueue has its type: no block in memory or on file holds more
\* than its storage, as push and pop assert, as long as no first pop fails that
\* wrote a block with nothing in it.
THEOREM BlocksTyped ==
    ASSUME BlockAssumption
    PROVE  BQ!Spec /\ [][Worth_writing]_(BQ!vars) => []BQ!TypeOK
<1>1. ASSUME BQInv PROVE BQ!TypeOK
  <2>1. Kept \subseteq BQ!Block
    BY DEF Kept
  <2>2. mem \in BQ!Block /\ block_file \in Seq(BQ!Block)
    BY <1>1, <2>1 DEF BQInv, Typed
  <2> QED BY <1>1, <2>2 DEF BQInv, Typed, Items, BQ!TypeOK
<1> QED BY <1>1, BlocksInvariance, PTL

\* Across memory and file BQueue gives back what was put into it, in order and
\* once, and takes nothing more from the first pop to the last, however often a
\* first pop fails and is repeated, as long as none fails that wrote a block with
\* nothing in it (one that is repeated at once, of a queue not pushed to between).
THEOREM BQueueIsFifoMeanwhile ==
    ASSUME BlockAssumption
    PROVE  BQ!Spec /\ [][Worth_writing]_(BQ!vars) => BQ!FifoSpec
<1>1. BQ!Init => BQ!Fifo!Init
  BY NoBlocks DEF BQ!Init, BQ!Fifo!Init
<1>2. BQInv /\ [BQ!Next]_(BQ!vars) /\ [Worth_writing]_(BQ!vars)
          => [BQ!Fifo!Next]_(BQ!Fifo!vars)
  BY StepOfBlocks
<1> QED BY <1>1, <1>2, BlocksInvariance, PTL DEF BQ!Spec, BQ!FifoSpec, BQ!Fifo!Spec

\* And so it does when a first pop fails once at most, whatever it wrote.
THEOREM BQueueIsFifo ==
    ASSUME BlockAssumption, MaxFaults <= 1
    PROVE  BQ!Spec => BQ!FifoSpec
  BY OneFault, BQueueIsFifoMeanwhile
============================================================================
