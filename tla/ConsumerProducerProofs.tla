----------------------- MODULE ConsumerProducerProofs -----------------------
(* Proofs about a worker, for any number of messages, events, threads,      *)
(* faults and redeliveries, and all sizes of the batches and the queues.    *)
EXTENDS ConsumerProducer, FiniteSetTheorems, FunctionTheorems, SequenceTheorems, TLAPS

-----------------------------------------------------------------------------
(* Sequences, and the orders of the elements of a finite set.               *)

LEMMA Appended ==
    ASSUME NEW S, NEW q \in Seq(S), NEW x \in S
    PROVE  /\ Append(q, x) \in Seq(S)
           /\ Len(Append(q, x)) = Len(q) + 1
           /\ DOMAIN Append(q, x) = DOMAIN q \cup {Len(q) + 1}
           /\ Append(q, x)[Len(q) + 1] = x
           /\ \A i \in DOMAIN q : Append(q, x)[i] = q[i]
           /\ Append(q, x) # <<>>
           /\ ToSet(Append(q, x)) = ToSet(q) \cup {x}
<1>1. /\ Append(q, x) \in Seq(S)
      /\ Len(Append(q, x)) = Len(q) + 1
      /\ DOMAIN Append(q, x) = DOMAIN q \cup {Len(q) + 1}
      /\ Append(q, x)[Len(q) + 1] = x
      /\ \A i \in DOMAIN q : Append(q, x)[i] = q[i]
      /\ Append(q, x) # <<>>
  OBVIOUS
<1> DEFINE r == Append(q, x)
<1> HIDE DEF r
<1>2. ToSet(r) = ToSet(q) \cup {x}
  BY <1>1 DEF ToSet, r
<1> QED  BY <1>1, <1>2 DEF r

LEMMA Tailed ==
    ASSUME NEW S, NEW q \in Seq(S), q # <<>>
    PROVE  /\ Head(q) \in S /\ Head(q) = q[1] /\ Head(q) \in ToSet(q)
           /\ Tail(q) \in Seq(S)
           /\ Len(q) \in Nat \ {0}
           /\ Len(Tail(q)) = Len(q) - 1
           /\ DOMAIN Tail(q) = 1 .. (Len(q) - 1) /\ DOMAIN q = 1 .. Len(q)
           /\ \A i \in DOMAIN Tail(q) : Tail(q)[i] = q[i + 1]
           /\ ToSet(Tail(q)) \subseteq ToSet(q)
           /\ Len(q) = 1 <=> Tail(q) = <<>>
<1>1. /\ Head(q) \in S /\ Head(q) = q[1] /\ 1 \in DOMAIN q
      /\ Tail(q) \in Seq(S)
      /\ Len(q) \in Nat \ {0}
      /\ Len(Tail(q)) = Len(q) - 1
      /\ DOMAIN Tail(q) = 1 .. (Len(q) - 1) /\ DOMAIN q = 1 .. Len(q)
      /\ \A i \in DOMAIN Tail(q) : Tail(q)[i] = q[i + 1]
  OBVIOUS
<1>4. Len(q) = 1 <=> Tail(q) = <<>>
  <2>1. Len(q) = 1 <=> Len(Tail(q)) = 0
    BY <1>1
  <2>2. Len(Tail(q)) = 0 <=> Tail(q) = <<>>
    BY <1>1, EmptySeq
  <2> QED  BY <2>1, <2>2
<1> DEFINE r == Tail(q)
<1> HIDE DEF r
<1>2. ToSet(r) \subseteq ToSet(q)
  <2>1. \A i \in DOMAIN r : i + 1 \in DOMAIN q /\ r[i] = q[i + 1]
    BY <1>1 DEF r
  <2> QED  BY <2>1 DEF ToSet
<1>3. Head(q) \in ToSet(q)
  BY <1>1 DEF ToSet
<1> QED  BY <1>1, <1>2, <1>3, <1>4 DEF r

LEMMA Ordered ==
    ASSUME NEW S, IsFiniteSet(S), NEW f \in SetToAllKPermutations(S)
    PROVE  /\ f \in Seq(S)
           /\ Len(f) <= Cardinality(S)
           /\ \A i, j \in DOMAIN f : f[i] = f[j] => i = j
<1>1. PICK T \in SUBSET S : f \in SetToSeqs(T)
  BY DEF SetToAllKPermutations
<1>2. IsFiniteSet(T) /\ Cardinality(T) <= Cardinality(S) /\ Cardinality(T) \in Nat
  BY <1>1, FS_Subset, FS_CardinalityType
<1>3. f \in [1 .. Cardinality(T) -> T] /\ \A i, j \in 1 .. Cardinality(T) : i # j => f[i] # f[j]
  BY <1>1 DEF SetToSeqs
<1>4. f \in Seq(T) /\ Len(f) = Cardinality(T)
  BY <1>2, <1>3
<1>5. f \in Seq(S)
  BY <1>3, <1>2
<1> QED  BY <1>2, <1>3, <1>4, <1>5

-----------------------------------------------------------------------------
(* The receipt handles in flight: an ordered dictionary.                    *)

LEMMA Removed ==
    ASSUME NEW S, NEW q \in Seq(S), NEW k \in DOMAIN q
    PROVE  /\ RemoveAt(q, k) \in Seq(S)
           /\ Len(RemoveAt(q, k)) = Len(q) - 1
           /\ \A i \in 1 .. (Len(q) - 1) :
                RemoveAt(q, k)[i] = IF i < k THEN q[i] ELSE q[i + 1]
<1> DEFINE a == SubSeq(q, 1, k - 1)
           b == SubSeq(q, k + 1, Len(q))
<1>1. k \in 1 .. Len(q) /\ Len(q) \in Nat
  OBVIOUS
<1>2. a \in Seq(S) /\ Len(a) = k - 1 /\ \A i \in 1 .. (k - 1) : a[i] = q[i]
  BY <1>1, SubSeqProperties
<1>3. b \in Seq(S) /\ Len(b) = Len(q) - k /\ \A i \in 1 .. (Len(q) - k) : b[i] = q[k + i]
  BY <1>1, SubSeqProperties
<1> HIDE DEF a, b
<1>4. /\ a \o b \in Seq(S)
      /\ Len(a \o b) = Len(a) + Len(b)
      /\ \A i \in 1 .. (Len(a) + Len(b)) :
            (a \o b)[i] = IF i <= Len(a) THEN a[i] ELSE b[i - Len(a)]
  BY <1>2, <1>3, ConcatProperties
<1>5. \A i \in 1 .. (Len(q) - 1) : (a \o b)[i] = IF i < k THEN q[i] ELSE q[i + 1]
  <2> TAKE i \in 1 .. (Len(q) - 1)
  <2>1. CASE i < k
    <3>1. i \in 1 .. (k - 1) /\ i \in 1 .. (Len(a) + Len(b)) /\ i <= Len(a)
      BY <2>1, <1>1, <1>2, <1>3
    <3>2. (a \o b)[i] = a[i] /\ a[i] = q[i]
      BY <3>1, <1>2, <1>4
    <3> QED  BY <2>1, <3>2
  <2>2. CASE ~(i < k)
    <3>1. i - (k - 1) \in 1 .. (Len(q) - k) /\ k + (i - (k - 1)) = i + 1
      BY <2>2, <1>1
    <3>2. i \in 1 .. (Len(a) + Len(b)) /\ ~(i <= Len(a)) /\ Len(a) = k - 1
      BY <2>2, <1>1, <1>2, <1>3
    <3>3. (a \o b)[i] = b[i - (k - 1)]
      BY <3>2, <1>4
    <3>4. b[i - (k - 1)] = q[k + (i - (k - 1))]
      BY <3>1, <1>3
    <3> QED  BY <2>2, <3>1, <3>3, <3>4
  <2> QED  BY <2>1, <2>2
<1>6. RemoveAt(q, k) = a \o b
  BY DEF RemoveAt, a, b
<1>7. Len(a \o b) = Len(q) - 1
  BY <1>1, <1>2, <1>3, <1>4
<1> QED  BY <1>4, <1>5, <1>6, <1>7

CountOf(q, g) ==
    IF \E i \in DOMAIN q : q[i].handle = g
    THEN q[CHOOSE i \in DOMAIN q : q[i].handle = g].count
    ELSE 0

LEMMA CountKnown ==
    ASSUME NEW q \in Seq(Entry), Keyed(q), NEW i \in DOMAIN q
    PROVE  CountOf(q, q[i].handle) = q[i].count
BY DEF CountOf, Keyed

LEMMA CountUnknown ==
    ASSUME NEW q, NEW g, \A i \in DOMAIN q : q[i].handle # g
    PROVE  CountOf(q, g) = 0
BY DEF CountOf

LEMMA CountTyped ==
    ASSUME NEW q \in Seq(Entry), Keyed(q), NEW g
    PROVE  CountOf(q, g) \in Nat
<1>1. CASE \E i \in DOMAIN q : q[i].handle = g
  <2>1. PICK i \in DOMAIN q : q[i].handle = g
    BY <1>1
  <2>2. q[i] \in Entry
    OBVIOUS
  <2>3. q[i].count \in Nat
    BY <2>2 DEF Entry
  <2>4. CountOf(q, q[i].handle) = q[i].count
    BY CountKnown
  <2> QED  BY <2>1, <2>3, <2>4
<1>2. CASE ~\E i \in DOMAIN q : q[i].handle = g
  BY <1>2, CountUnknown
<1> QED  BY <1>1, <1>2

\* Two dictionaries with the same entries for a handle have the same count.
LEMMA CountSame ==
    ASSUME NEW q \in Seq(Entry), Keyed(q), NEW r \in Seq(Entry), Keyed(r), NEW g,
           \A i \in DOMAIN r : r[i].handle = g => \E j \in DOMAIN q : q[j] = r[i],
           \A j \in DOMAIN q : q[j].handle = g => \E i \in DOMAIN r : q[j] = r[i]
    PROVE  CountOf(r, g) = CountOf(q, g)
<1>1. CASE \E i \in DOMAIN r : r[i].handle = g
  <2>1. PICK i \in DOMAIN r : r[i].handle = g
    BY <1>1
  <2>2. PICK j \in DOMAIN q : q[j] = r[i]
    BY <2>1
  <2> QED  BY <2>1, <2>2, CountKnown
<1>2. CASE ~\E i \in DOMAIN r : r[i].handle = g
  <2>1. \A j \in DOMAIN q : q[j].handle # g
    BY <1>2
  <2> QED  BY <1>2, <2>1, CountUnknown
<1> QED  BY <1>1, <1>2

LEMMA OldestEvicted ==
    ASSUME NEW q \in Seq(Entry), Keyed(q), q # <<>>
    PROVE  /\ Tail(q) \in Seq(Entry) /\ Keyed(Tail(q))
           /\ Len(Tail(q)) = Len(q) - 1
           /\ \A g : g # Head(q).handle => CountOf(Tail(q), g) = CountOf(q, g)
<1> DEFINE r == Tail(q)
<1>1. /\ r \in Seq(Entry) /\ Len(r) = Len(q) - 1 /\ Len(q) \in Nat \ {0}
      /\ DOMAIN r = 1 .. (Len(q) - 1) /\ DOMAIN q = 1 .. Len(q)
      /\ \A i \in DOMAIN r : r[i] = q[i + 1]
      /\ Head(q) = q[1]
  BY Tailed
<1> HIDE DEF r
<1>2. Keyed(r)
  <2> SUFFICES ASSUME NEW i \in DOMAIN r, NEW j \in DOMAIN r, r[i].handle = r[j].handle
               PROVE  i = j
    BY DEF Keyed
  <2>1. i + 1 \in DOMAIN q /\ j + 1 \in DOMAIN q /\ i \in Nat /\ j \in Nat
    BY <1>1
  <2>2. i + 1 = j + 1
    BY <1>1, <2>1 DEF Keyed
  <2> QED  BY <2>1, <2>2
<1>3. ASSUME NEW g, g # Head(q).handle
      PROVE  CountOf(r, g) = CountOf(q, g)
  <2>1. \A i \in DOMAIN r : r[i].handle = g => \E j \in DOMAIN q : q[j] = r[i]
    BY <1>1
  <2>2. ASSUME NEW j \in DOMAIN q, q[j].handle = g
        PROVE  \E i \in DOMAIN r : q[j] = r[i]
    <3>1. j # 1
      BY <1>1, <1>3, <2>2
    <3>2. j - 1 \in DOMAIN r /\ (j - 1) + 1 = j
      BY <1>1, <3>1
    <3> QED  BY <1>1, <3>2
  <2> QED  BY <1>1, <1>2, <2>1, <2>2, CountSame
<1> QED  BY <1>1, <1>2, <1>3 DEF r

LEMMA OthersKept ==
    ASSUME in_flight \in Seq(Entry), Keyed(in_flight), NEW h
    PROVE  /\ Others(h) \in Seq(Entry) /\ Keyed(Others(h))
           /\ Len(Others(h)) <= Len(in_flight)
           /\ \A i \in DOMAIN Others(h) : Others(h)[i].handle # h
           /\ \A g : g # h => CountOf(Others(h), g) = CountOf(in_flight, g)
<1>1. CASE Known(h)
  <2> DEFINE k == Position(h)
             r == Others(h)
  <2>1. k \in DOMAIN in_flight /\ in_flight[k].handle = h
    BY <1>1 DEF Known, Position
  <2>2. /\ r \in Seq(Entry) /\ Len(r) = Len(in_flight) - 1
        /\ \A i \in 1 .. (Len(in_flight) - 1) :
              r[i] = IF i < k THEN in_flight[i] ELSE in_flight[i + 1]
    BY <1>1, <2>1, Removed DEF Others
  <2>3. /\ Len(in_flight) \in Nat /\ DOMAIN in_flight = 1 .. Len(in_flight)
        /\ DOMAIN r = 1 .. (Len(in_flight) - 1)
    BY <2>2
  <2> HIDE DEF r, k
  <2>4. \A i \in DOMAIN r : \E j \in DOMAIN in_flight :
           r[i] = in_flight[j] /\ j # k /\ j = IF i < k THEN i ELSE i + 1
    <3> TAKE i \in DOMAIN r
    <3>1. CASE i < k
      BY <3>1, <2>1, <2>2, <2>3
    <3>2. CASE ~(i < k)
      <4>1. i + 1 \in DOMAIN in_flight /\ i + 1 # k
        BY <3>2, <2>1, <2>3
      <4> QED  BY <3>2, <4>1, <2>2, <2>3
    <3> QED  BY <3>1, <3>2
  <2>5. Keyed(r)
    <3> SUFFICES ASSUME NEW i \in DOMAIN r, NEW j \in DOMAIN r, r[i].handle = r[j].handle
                 PROVE  i = j
      BY DEF Keyed
    <3>1. PICK x \in DOMAIN in_flight :
             r[i] = in_flight[x] /\ x # k /\ x = IF i < k THEN i ELSE i + 1
      BY <2>4
    <3>2. PICK y \in DOMAIN in_flight :
             r[j] = in_flight[y] /\ y # k /\ y = IF j < k THEN j ELSE j + 1
      BY <2>4
    <3>3. x = y
      BY <3>1, <3>2 DEF Keyed
    <3> QED  BY <3>1, <3>2, <3>3, <2>1, <2>3
  <2>6. \A i \in DOMAIN r : r[i].handle # h
    BY <2>1, <2>4 DEF Keyed
  <2>7. ASSUME NEW g, g # h
        PROVE  CountOf(r, g) = CountOf(in_flight, g)
    <3>1. \A i \in DOMAIN r : r[i].handle = g => \E j \in DOMAIN in_flight : in_flight[j] = r[i]
      BY <2>4
    <3>2. ASSUME NEW j \in DOMAIN in_flight, in_flight[j].handle = g
          PROVE  \E i \in DOMAIN r : in_flight[j] = r[i]
      <4>1. j # k
        BY <2>1, <2>7, <3>2
      <4>2. CASE j < k
        BY <4>2, <2>1, <2>2, <2>3
      <4>3. CASE j > k
        <5>1. j - 1 \in DOMAIN r /\ ~(j - 1 < k) /\ (j - 1) + 1 = j
          BY <4>3, <2>1, <2>3
        <5> QED  BY <5>1, <2>2, <2>3
      <4> QED  BY <4>1, <4>2, <4>3, <2>1, <2>3
    <3> QED  BY <2>2, <2>5, <3>1, <3>2, CountSame
  <2> QED  BY <2>2, <2>3, <2>5, <2>6, <2>7 DEF r
<1>2. CASE ~Known(h)
  BY <1>2 DEF Others, Known
<1> QED  BY <1>1, <1>2

LEMMA MovedLast ==
    ASSUME in_flight \in Seq(Entry), Keyed(in_flight), NEW h \in Handle, NEW c \in Nat \ {0}
    PROVE  /\ MovedToEnd(h, c) \in Seq(Entry) /\ Keyed(MovedToEnd(h, c))
           /\ MovedToEnd(h, c) # <<>>
           /\ Len(MovedToEnd(h, c)) <= Len(in_flight) + 1
           /\ Known(h) => Len(MovedToEnd(h, c)) <= Len(in_flight)
           /\ CountOf(MovedToEnd(h, c), h) = c
           /\ \A g : g # h => CountOf(MovedToEnd(h, c), g) = CountOf(in_flight, g)
<1> DEFINE o == Others(h)
           e == [handle |-> h, count |-> c]
           r == MovedToEnd(h, c)
<1>1. /\ o \in Seq(Entry) /\ Keyed(o) /\ Len(o) <= Len(in_flight)
      /\ \A i \in DOMAIN o : o[i].handle # h
      /\ \A g : g # h => CountOf(o, g) = CountOf(in_flight, g)
  BY OthersKept
<1>2. e \in Entry /\ e.handle = h /\ e.count = c
  BY DEF Entry
<1>3. r = Append(o, e)
  BY DEF MovedToEnd
<1>4. Known(h) => Len(o) = Len(in_flight) - 1
  <2> HAVE Known(h)
  <2>1. Position(h) \in DOMAIN in_flight
    BY DEF Known, Position
  <2> QED  BY <2>1, Removed DEF Others
<1>5. Len(o) \in Nat /\ Len(in_flight) \in Nat /\ DOMAIN o = 1 .. Len(o)
  BY <1>1
<1> HIDE DEF o, e, r
<1>6. /\ r \in Seq(Entry) /\ Len(r) = Len(o) + 1 /\ r # <<>>
      /\ DOMAIN r = DOMAIN o \cup {Len(o) + 1}
      /\ r[Len(o) + 1] = e
      /\ \A i \in DOMAIN o : r[i] = o[i]
  BY <1>1, <1>2, <1>3, Appended
<1>7. Keyed(r)
  BY <1>1, <1>2, <1>6 DEF Keyed
<1>8. CountOf(r, h) = c
  BY <1>2, <1>6, <1>7, CountKnown
<1>9. ASSUME NEW g, g # h
      PROVE  CountOf(r, g) = CountOf(in_flight, g)
  <2>1. \A i \in DOMAIN r : r[i].handle = g => \E j \in DOMAIN o : o[j] = r[i]
    BY <1>2, <1>6, <1>9
  <2>2. \A j \in DOMAIN o : o[j].handle = g => \E i \in DOMAIN r : o[j] = r[i]
    BY <1>6
  <2>3. CountOf(r, g) = CountOf(o, g)
    BY <1>1, <1>6, <1>7, <2>1, <2>2, CountSame
  <2> QED  BY <1>1, <1>9, <2>3
<1> QED  BY <1>1, <1>4, <1>5, <1>6, <1>7, <1>8, <1>9 DEF r

-----------------------------------------------------------------------------
(* What counting an event, and knowing that it is published, do.            *)

LEMMA CountIs ==
    ASSUME NEW h
    PROVE  Count(h) = CountOf(in_flight, h)
BY DEF Count, CountOf, Known, Position

LEMMA Increment ==
    ASSUME InFlightOK(in_flight), NEW h \in Handle
    PROVE  InFlightOK(Incremented(h))
<1> DEFINE r == MovedToEnd(h, Count(h) + 1)
<1>1. Count(h) + 1 \in Nat \ {0}
  BY CountIs, CountTyped DEF InFlightOK
<1>2. r \in Seq(Entry) /\ Keyed(r) /\ r # <<>> /\ Len(r) <= Len(in_flight) + 1
  BY <1>1, MovedLast DEF InFlightOK
<1>3. Tail(r) \in Seq(Entry) /\ Keyed(Tail(r)) /\ Len(Tail(r)) = Len(r) - 1
  BY <1>2, OldestEvicted
<1>4. Incremented(h) = IF Len(r) > MaxInFlight THEN Tail(r) ELSE r
  BY DEF Incremented
<1>5. MaxInFlight \in Nat /\ Len(r) \in Nat /\ Len(in_flight) \in Nat
  BY <1>2, SizeAssumption DEF InFlightOK
<1>6. Len(r) <= MaxInFlight + 1
  BY <1>2, <1>5 DEF InFlightOK
<1> HIDE DEF r
<1>7. CASE Len(r) > MaxInFlight
  <2>1. Len(Tail(r)) <= MaxInFlight
    BY <1>3, <1>5, <1>6
  <2> QED  BY <1>3, <1>4, <1>7, <2>1 DEF InFlightOK
<1>8. CASE ~(Len(r) > MaxInFlight)
  <2>1. Len(r) <= MaxInFlight
    BY <1>5, <1>8
  <2> QED  BY <1>2, <1>4, <1>8, <2>1 DEF InFlightOK
<1> QED  BY <1>7, <1>8

LEMMA Decrement ==
    ASSUME InFlightOK(in_flight), NEW h \in Handle
    PROVE  /\ InFlightOK(Decremented(h))
           /\ \A g : CountOf(Decremented(h), g) =
                       IF g = h /\ Count(h) # 0 THEN Count(h) - 1 ELSE CountOf(in_flight, g)
<1> DEFINE r == Decremented(h)
<1>1. Count(h) \in Nat /\ Count(h) = CountOf(in_flight, h)
  BY CountIs, CountTyped DEF InFlightOK
<1>2. Len(in_flight) \in Nat /\ MaxInFlight \in Nat
  BY SizeAssumption DEF InFlightOK
<1>3. CASE Count(h) <= 1
  <2>1. r = Others(h)
    BY <1>3 DEF Decremented
  <2>2. /\ r \in Seq(Entry) /\ Keyed(r) /\ Len(r) <= Len(in_flight)
        /\ \A i \in DOMAIN r : r[i].handle # h
        /\ \A g : g # h => CountOf(r, g) = CountOf(in_flight, g)
    BY <2>1, OthersKept DEF InFlightOK
  <2> HIDE DEF r
  <2>3. CountOf(r, h) = 0
    BY <2>2, CountUnknown
  <2>4. InFlightOK(r)
    BY <1>2, <2>2 DEF InFlightOK
  <2> QED  BY <1>1, <1>3, <2>2, <2>3, <2>4 DEF r
<1>4. CASE ~(Count(h) <= 1)
  <2>1. PICK c \in Nat \ {0} : c = Count(h) - 1
    BY <1>1, <1>4
  <2>2. r = MovedToEnd(h, c)
    BY <1>4, <2>1 DEF Decremented
  <2>3. Known(h)
    BY <1>4 DEF Count
  <2> HIDE DEF r
  <2>6. /\ MovedToEnd(h, c) \in Seq(Entry) /\ Keyed(MovedToEnd(h, c))
        /\ Len(MovedToEnd(h, c)) <= Len(in_flight)
        /\ CountOf(MovedToEnd(h, c), h) = c
        /\ \A g : g # h => CountOf(MovedToEnd(h, c), g) = CountOf(in_flight, g)
    BY <2>3, MovedLast DEF InFlightOK
  <2>4. /\ r \in Seq(Entry) /\ Keyed(r) /\ Len(r) <= Len(in_flight)
        /\ CountOf(r, h) = Count(h) - 1
        /\ \A g : g # h => CountOf(r, g) = CountOf(in_flight, g)
    BY <2>1, <2>2, <2>6
  <2>5. InFlightOK(r)
    BY <1>2, <2>4 DEF InFlightOK
  <2> QED  BY <1>4, <2>4, <2>5, <1>1 DEF r
<1> QED  BY <1>3, <1>4

-----------------------------------------------------------------------------
(* The variables keep their types.                                          *)

USE DEF outside, receive_thread, run_loop, final_thread, delete_thread, stop_events, bounds

LEMMA NothingToAdd ==
    ASSUME WorkerInv, TypeOK', Unpublished' \subseteq Unpublished,
           receiver' = "queue" => received' # <<>>,
           main' \in {"generate", "publish", "delete"} <=> current' # None,
           current' # None => generated' <= EventCount[current'.message],
           main' = "publish" => generated' # 0,
           main' = "delete" => EventCount[current'.message] = 0,
           final' = "put" <=> counted' # None,
           \A p \in Publishers : publisher'[p].pc = "put" <=> publisher'[p].sent # <<>>
    PROVE  WorkerInv'
BY DEF WorkerInv, ThreadsInv

LEMMA FaultBounds ==
    ASSUME TypeOK, Fault
    PROVE  faults' \in 0 .. MaxFaults /\ timeouts' = timeouts /\ signals' = signals
BY SizeAssumption DEF TypeOK, Fault

LEMMA ReceiveMessagesInv ==
    ASSUME WorkerInv, ReceiveMessages
    PROVE  WorkerInv'
<1> DEFINE V == {m \in Messages : sqs[m] = "visible"}
           H == {[message |-> m, delivery |-> delivery[m] + 1] : m \in V}
           f == [m \in V |-> [message |-> m, delivery |-> delivery[m] + 1]]
<1>1. TypeOK
  BY DEF WorkerInv
<1>2. IsFiniteSet(V)
  BY MessagesAssumption, FS_Subset
<1>3. f \in Surjection(V, H)
  <2>1. f \in [V -> H] /\ \A h \in H : \E m \in V : f[m] = h
    OBVIOUS
  <2> HIDE DEF f, V, H
  <2> QED  BY <2>1, Fun_IsSurj
<1>4. IsFiniteSet(H)
  <2> HIDE DEF f, V, H
  <2> QED  BY <1>2, <1>3, FS_Surjection
<1>5. H \subseteq Handle
  BY <1>1 DEF TypeOK, Handle
<1>6. PICK batch \in SetToAllKPermutations(H) :
         /\ batch # <<>> /\ received' = batch
         /\ sqs' = [m \in Messages |->
                      IF m \in {h.message : h \in ToSet(batch)} THEN "in_flight" ELSE sqs[m]]
         /\ delivery' = [m \in Messages |->
                           IF m \in {h.message : h \in ToSet(batch)}
                           THEN delivery[m] + 1 ELSE delivery[m]]
  BY DEF ReceiveMessages
<1>7. batch \in Seq(H)
  <2> HIDE DEF H
  <2> QED  BY <1>4, <1>6, Ordered
<1>8. batch \in Seq(Handle)
  <2> HIDE DEF H
  <2> QED  BY <1>5, <1>7
<1>9. /\ sqs' \in [Messages -> {"visible", "in_flight", "deleted"}]
      /\ delivery' \in [Messages -> Nat]
  BY <1>1, <1>6 DEF TypeOK
<1> HIDE DEF H
<1>10. /\ receiver' = "queue"
       /\ UNCHANGED <<published, process_q, main, current, generated, in_flight, publish_q,
                      publisher, published_q, final, counted, delete_q, deleter, entries,
                      stop_receiving, stop, faults, timeouts, signals>>
  BY DEF ReceiveMessages
<1>11. TypeOK'
  BY <1>1, <1>6, <1>8, <1>9, <1>10 DEF TypeOK
<1> QED  BY <1>6, <1>10, <1>11, NothingToAdd DEF WorkerInv, ThreadsInv, Unpublished

LEMMA QueueMessageInv ==
    ASSUME WorkerInv, QueueMessage
    PROVE  WorkerInv'
<1>1. TypeOK
  BY DEF WorkerInv
<1>2. received \in Seq(Handle) /\ received # <<>> /\ process_q \in Seq(Handle)
  BY DEF WorkerInv, TypeOK, ThreadsInv, QueueMessage, SeqUpTo
<1>3. /\ Head(received) \in Handle /\ Tail(received) \in Seq(Handle)
      /\ Len(received) = 1 <=> Tail(received) = <<>>
  BY <1>2, Tailed
<1>4. /\ process_q' \in Seq(Handle) /\ Len(process_q') = Len(process_q) + 1
      /\ Len(process_q) \in Nat
  BY <1>2, <1>3, Appended DEF QueueMessage
<1>5. SeqUpTo(Handle, ProcessCap, process_q')
  BY <1>4, SizeAssumption DEF QueueMessage, SeqUpTo
<1>6. /\ received' = Tail(received)
      /\ receiver' = IF Len(received) = 1 THEN "receive" ELSE "queue"
      /\ UNCHANGED <<sqs, delivery, published, main, current, generated, in_flight, publish_q,
                     publisher, published_q, final, counted, delete_q, deleter, entries,
                     stop_receiving, stop, faults, timeouts, signals>>
  BY DEF QueueMessage
<1>7. TypeOK'
  BY <1>1, <1>3, <1>5, <1>6 DEF TypeOK
<1> QED  BY <1>3, <1>6, <1>7, NothingToAdd DEF WorkerInv, ThreadsInv, Unpublished

LEMMA StopReceivingInv ==
    ASSUME WorkerInv, StopReceiving
    PROVE  WorkerInv'
<1>1. TypeOK'
  BY DEF WorkerInv, TypeOK, StopReceiving
<1> QED  BY <1>1, NothingToAdd DEF WorkerInv, ThreadsInv, Unpublished, StopReceiving

LEMMA GetMessageInv ==
    ASSUME WorkerInv, GetMessage
    PROVE  WorkerInv'
<1>1. TypeOK
  BY DEF WorkerInv
<1>2. process_q \in Seq(Handle) /\ process_q # <<>> /\ Len(process_q) <= ProcessCap
  BY <1>1 DEF TypeOK, GetMessage, SeqUpTo
<1>3. /\ Head(process_q) \in Handle /\ Tail(process_q) \in Seq(Handle)
      /\ Len(Tail(process_q)) = Len(process_q) - 1 /\ Len(process_q) \in Nat
  BY <1>2, Tailed
<1>4. SeqUpTo(Handle, ProcessCap, process_q')
  BY <1>2, <1>3, SizeAssumption DEF GetMessage, SeqUpTo
<1>5. current' \in Handle /\ current' # None /\ EventCount[current'.message] \in Nat
  BY <1>3, NoneAssumption, EventCountAssumption DEF GetMessage, Handle
<1>6. /\ generated' = 0 /\ main' = "generate" /\ main # "publish"
      /\ UNCHANGED <<sqs, delivery, published, receiver, received, in_flight, publish_q,
                     publisher, published_q, final, counted, delete_q, deleter, entries,
                     stop_receiving, stop, faults, timeouts, signals>>
  BY DEF GetMessage
<1>7. TypeOK'
  BY <1>1, <1>4, <1>5, <1>6 DEF TypeOK
<1> QED  BY <1>5, <1>6, <1>7, NothingToAdd DEF WorkerInv, ThreadsInv, Unpublished

LEMMA NoMessageInv ==
    ASSUME WorkerInv, NoMessage
    PROVE  WorkerInv'
<1>1. TypeOK'
  BY DEF WorkerInv, TypeOK, NoMessage
<1> QED  BY <1>1, NothingToAdd DEF WorkerInv, ThreadsInv, Unpublished, NoMessage

LEMMA GenerateEventInv ==
    ASSUME WorkerInv, GenerateEvent
    PROVE  WorkerInv'
<1>1. TypeOK /\ ThreadsInv
  BY DEF WorkerInv
<1>2. current \in Handle /\ current # None /\ EventCount[current.message] \in Nat
  BY <1>1, EventCountAssumption, NoneAssumption DEF TypeOK, ThreadsInv, GenerateEvent, Handle
<1>3. InFlightOK(in_flight')
  BY <1>1, <1>2, Increment DEF GenerateEvent, TypeOK
<1>4. generated' \in Nat \ {0} /\ generated' <= EventCount[current.message]
  BY <1>1, <1>2 DEF GenerateEvent, TypeOK
<1>5. /\ main' = "publish" /\ main = "generate"
      /\ UNCHANGED <<sqs, delivery, published, receiver, received, process_q, current, publish_q,
                     publisher, published_q, final, counted, delete_q, deleter, entries,
                     stop_receiving, stop, faults, timeouts, signals>>
  BY DEF GenerateEvent
<1>6. TypeOK'
  BY <1>1, <1>3, <1>4, <1>5 DEF TypeOK
<1> DEFINE x == [handle |-> current, index |-> generated']
<1>7. x.index \in 1 .. EventCount[x.handle.message]
  BY <1>2, <1>4
<1>8. Unpublished' = Unpublished \cup {x}
  BY <1>5 DEF Unpublished
<1> HIDE DEF x
<1>9. \A e \in Unpublished' : e.index \in 1 .. EventCount[e.handle.message]
  BY <1>1, <1>7, <1>8 DEF ThreadsInv
<1> QED  BY <1>1, <1>2, <1>4, <1>5, <1>6, <1>9 DEF WorkerInv, ThreadsInv

LEMMA UnpublishedEvents ==
    /\ \A i \in DOMAIN publish_q : publish_q[i] \in Unpublished
    /\ \A p \in Publishers : \A i \in DOMAIN publisher[p].events :
          publisher[p].events[i] \in Unpublished
    /\ main = "publish" => [handle |-> current, index |-> generated] \in Unpublished
BY DEF Unpublished, ToSet

LEMMA EventsStay ==
    ASSUME \A i \in DOMAIN publish_q' : publish_q'[i] \in Unpublished,
           \A p \in Publishers : \A i \in DOMAIN publisher'[p].events :
              publisher'[p].events[i] \in Unpublished,
           main' = "publish" => [handle |-> current', index |-> generated'] \in Unpublished
    PROVE  Unpublished' \subseteq Unpublished
<1> SUFFICES ASSUME NEW e \in Unpublished'
             PROVE  e \in Unpublished
  OBVIOUS
<1>1. \/ \E i \in DOMAIN publish_q' : e = publish_q'[i]
      \/ \E p \in Publishers : \E i \in DOMAIN publisher'[p].events : e = publisher'[p].events[i]
      \/ main' = "publish" /\ e = [handle |-> current', index |-> generated']
  BY DEF Unpublished, ToSet
<1> QED  BY <1>1

LEMMA QueueEventInv ==
    ASSUME WorkerInv, QueueEvent
    PROVE  WorkerInv'
<1> DEFINE x == [handle |-> current, index |-> generated]
<1>1. TypeOK /\ ThreadsInv
  BY DEF WorkerInv
<1>2. current \in Handle /\ x \in Event
  BY <1>1, NoneAssumption DEF TypeOK, ThreadsInv, QueueEvent, Event
<1>3. publish_q \in Seq(Event) /\ publish_q' = Append(publish_q, x)
  BY <1>1 DEF TypeOK, SeqUpTo, QueueEvent
<1>4. x \in Unpublished
  BY UnpublishedEvents DEF QueueEvent
<1> HIDE DEF x
<1>5. /\ publish_q' \in Seq(Event) /\ Len(publish_q') = Len(publish_q) + 1
      /\ DOMAIN publish_q' = DOMAIN publish_q \cup {Len(publish_q) + 1}
      /\ publish_q'[Len(publish_q) + 1] = x
      /\ \A i \in DOMAIN publish_q : publish_q'[i] = publish_q[i]
      /\ Len(publish_q) \in Nat
  BY <1>2, <1>3, Appended
<1>6. SeqUpTo(Event, PublishCap, publish_q')
  BY <1>5, SizeAssumption DEF QueueEvent, SeqUpTo
<1>7. /\ main' = "generate" /\ main = "publish"
      /\ UNCHANGED <<sqs, delivery, published, receiver, received, process_q, current, generated,
                     in_flight, publisher, published_q, final, counted, delete_q, deleter,
                     entries, stop_receiving, stop, faults, timeouts, signals>>
  BY DEF QueueEvent
<1>8. TypeOK'
  BY <1>1, <1>6, <1>7 DEF TypeOK
<1>9. Unpublished' \subseteq Unpublished
  <2>1. \A i \in DOMAIN publish_q' : publish_q'[i] \in Unpublished
    BY <1>4, <1>5, UnpublishedEvents
  <2>2. \A p \in Publishers : \A i \in DOMAIN publisher'[p].events :
           publisher'[p].events[i] \in Unpublished
    BY <1>7, UnpublishedEvents
  <2> QED  BY <1>7, <2>1, <2>2, EventsStay
<1> QED  BY <1>1, <1>7, <1>8, <1>9, NothingToAdd DEF WorkerInv, ThreadsInv

LEMMA EndOfEventsInv ==
    ASSUME WorkerInv, EndOfEvents
    PROVE  WorkerInv'
<1>1. TypeOK /\ ThreadsInv
  BY DEF WorkerInv
<1>2. /\ main = "generate" /\ current # None
      /\ \/ /\ generated = 0 /\ EventCount[current.message] = 0
            /\ main' = "delete" /\ current' = current /\ generated' = generated
         \/ main' = "get" /\ current' = None /\ generated' = 0
      /\ UNCHANGED <<sqs, delivery, published, receiver, received, process_q, in_flight, publish_q,
                     publisher, published_q, final, counted, delete_q, deleter, entries,
                     stop_receiving, stop, faults, timeouts, signals>>
  BY <1>1 DEF EndOfEvents, ThreadsInv
<1>3. TypeOK'
  BY <1>1, <1>2 DEF TypeOK
<1> QED  BY <1>1, <1>2, <1>3, NothingToAdd DEF WorkerInv, ThreadsInv, Unpublished

LEMMA HandleQueued ==
    ASSUME NEW q, NEW cap \in Nat, SeqUpTo(Handle, cap, q), Len(q) < cap, NEW h \in Handle
    PROVE  SeqUpTo(Handle, cap, Append(q, h)) /\ ToSet(Append(q, h)) = ToSet(q) \cup {h}
<1>1. q \in Seq(Handle) /\ Len(q) \in Nat
  BY DEF SeqUpTo
<1>2. /\ Append(q, h) \in Seq(Handle) /\ Len(Append(q, h)) = Len(q) + 1
      /\ ToSet(Append(q, h)) = ToSet(q) \cup {h}
  BY <1>1, Appended
<1> QED  BY <1>1, <1>2 DEF SeqUpTo

LEMMA HandleTaken ==
    ASSUME NEW q, NEW cap \in Nat, SeqUpTo(Handle, cap, q), q # <<>>
    PROVE  /\ SeqUpTo(Handle, cap, Tail(q)) /\ ToSet(Tail(q)) \subseteq ToSet(q)
           /\ Head(q) \in Handle /\ Head(q) \in ToSet(q)
<1>1. q \in Seq(Handle) /\ Len(q) \in Nat /\ Len(q) <= cap
  BY DEF SeqUpTo
<1>2. /\ Head(q) \in Handle /\ Head(q) \in ToSet(q) /\ Tail(q) \in Seq(Handle)
      /\ Len(Tail(q)) = Len(q) - 1 /\ ToSet(Tail(q)) \subseteq ToSet(q)
  BY <1>1, Tailed
<1> QED  BY <1>1, <1>2 DEF SeqUpTo

LEMMA QueueEmptyMessageInv ==
    ASSUME WorkerInv, QueueEmptyMessage
    PROVE  WorkerInv'
<1>1. TypeOK /\ ThreadsInv
  BY DEF WorkerInv
<1>2. current \in Handle
  BY <1>1 DEF TypeOK, ThreadsInv, QueueEmptyMessage
<1>3. DeleteCap \in Nat /\ SeqUpTo(Handle, DeleteCap, delete_q)
  BY <1>1, SizeAssumption DEF TypeOK
<1>4. SeqUpTo(Handle, DeleteCap, delete_q')
  BY <1>2, <1>3, HandleQueued DEF QueueEmptyMessage
<1>5. /\ main' = "get" /\ current' = None
      /\ UNCHANGED <<sqs, delivery, published, receiver, received, process_q, generated, in_flight,
                     publish_q, publisher, published_q, final, counted, deleter, entries,
                     stop_receiving, stop, faults, timeouts, signals>>
  BY DEF QueueEmptyMessage
<1>6. TypeOK'
  BY <1>1, <1>4, <1>5 DEF TypeOK
<1> QED  BY <1>1, <1>5, <1>6, NothingToAdd DEF WorkerInv, ThreadsInv, Unpublished

LEMMA GeneratorFailsInv ==
    ASSUME WorkerInv, GeneratorFails
    PROVE  WorkerInv'
<1>1. TypeOK /\ ThreadsInv
  BY DEF WorkerInv
<1>2. faults' \in 0 .. MaxFaults /\ timeouts' = timeouts /\ signals' = signals
  BY <1>1, FaultBounds DEF GeneratorFails
<1>3. TypeOK'
  BY <1>1, <1>2 DEF TypeOK, GeneratorFails
<1> QED  BY <1>1, <1>3, NothingToAdd DEF WorkerInv, ThreadsInv, Unpublished, GeneratorFails

LEMMA EndOfRunInv ==
    ASSUME WorkerInv, GracefulStop \/ Join
    PROVE  WorkerInv'
<1>1. TypeOK /\ ThreadsInv
  BY DEF WorkerInv
<1>2. TypeOK'
  BY <1>1 DEF TypeOK, GracefulStop, Join
<1> QED  BY <1>1, <1>2, NothingToAdd DEF WorkerInv, ThreadsInv, Unpublished, GracefulStop, Join

-----------------------------------------------------------------------------
(* The publish threads.                                                     *)

LEMMA PublisherSet ==
    ASSUME TypeOK, NEW p \in Publishers, NEW r \in Publisher,
           publisher' = [publisher EXCEPT ![p] = r],
           Len(r.events) <= BatchSize, Len(r.sent) <= BatchSize
    PROVE  /\ publisher' \in [Publishers -> Publisher]
           /\ publisher'[p] = r
           /\ \A q \in Publishers : q # p => publisher'[q] = publisher[q]
           /\ \A q \in Publishers :
                Len(publisher'[q].events) <= BatchSize /\ Len(publisher'[q].sent) <= BatchSize
BY DEF TypeOK

LEMMA EventsSet ==
    ASSUME NEW t \in Publisher, NEW q
    PROVE  [t EXCEPT !.events = q] =
           [pc |-> t.pc, next |-> t.next, events |-> q, sent |-> t.sent]
BY DEF Publisher

\* What the threads do, as an assignment of the record of the thread.
LEMMA GetEventStep ==
    ASSUME TypeOK, NEW p \in Publishers, GetEvent(p)
    PROVE  LET x == Head(publish_q)
               r == [pc |-> "get", next |-> publisher[p].next,
                     events |-> Append(publisher[p].events, x), sent |-> publisher[p].sent]
           IN  /\ publisher' = [publisher EXCEPT ![p] = r]
               /\ r \in Publisher
               /\ x \in Event
               /\ publisher[p].pc = "get" /\ publish_q # <<>> /\ publish_q \in Seq(Event)
               /\ publisher[p].events \in Seq(Event)
               /\ Len(r.events) <= BatchSize /\ Len(r.events) = Len(publisher[p].events) + 1
<1> DEFINE x == Head(publish_q)
           e == publisher[p].events
           r == [pc |-> "get", next |-> publisher[p].next, events |-> Append(e, x),
                 sent |-> publisher[p].sent]
<1>1. /\ publish_q \in Seq(Event) /\ publish_q # <<>>
      /\ publisher \in [Publishers -> Publisher] /\ publisher[p] \in Publisher
      /\ publisher[p].pc = "get" /\ Len(e) < BatchSize
  BY DEF TypeOK, SeqUpTo, GetEvent
<1>2. x \in Event
  BY <1>1, Tailed
<1>3. e \in Seq(Event)
  BY <1>1 DEF Publisher
<1>4. Append(e, x) \in Seq(Event) /\ Len(Append(e, x)) = Len(e) + 1 /\ Len(e) \in Nat
  BY <1>2, <1>3, Appended
<1>5. r \in Publisher
  BY <1>1, <1>4 DEF Publisher
<1>6. [publisher[p] EXCEPT !.events = Append(@, x)] = r
  <2> DEFINE t == publisher[p]
             q == Append(publisher[p].events, x)
  <2>1. [t EXCEPT !.events = q] =
          [pc |-> t.pc, next |-> t.next, events |-> q, sent |-> t.sent]
    <3> HIDE DEF t, q
    <3> QED  BY <1>1, EventsSet DEF t
  <2> QED  BY <1>1, <2>1
<1>7. publisher' = [publisher EXCEPT ![p] = r]
  BY <1>1, <1>6 DEF GetEvent
<1>8. Len(e) + 1 <= BatchSize
  BY <1>1, <1>4, SizeAssumption
<1> HIDE DEF x, e, r
<1> QED  BY <1>1, <1>2, <1>3, <1>4, <1>5, <1>7, <1>8 DEF x, e, r

LEMMA GetEventInv ==
    ASSUME WorkerInv, NEW p \in Publishers, GetEvent(p)
    PROVE  WorkerInv'
<1> DEFINE x == Head(publish_q)
           e == publisher[p].events
           r == [pc |-> "get", next |-> publisher[p].next, events |-> Append(e, x),
                 sent |-> publisher[p].sent]
<1>1. TypeOK /\ ThreadsInv
  BY DEF WorkerInv
<1>2. /\ publisher' = [publisher EXCEPT ![p] = r]
      /\ r \in Publisher /\ x \in Event
      /\ publisher[p].pc = "get" /\ publish_q # <<>> /\ publish_q \in Seq(Event)
      /\ e \in Seq(Event) /\ Len(r.events) <= BatchSize
  BY <1>1, GetEventStep
<1>3. r.events = Append(e, x) /\ r.sent = publisher[p].sent /\ r.pc = "get"
  OBVIOUS
<1>4. Len(r.sent) <= BatchSize
  BY <1>1 DEF TypeOK
<1> HIDE DEF x, r
<1>5. /\ publisher' \in [Publishers -> Publisher]
      /\ publisher'[p] = r
      /\ \A q \in Publishers : q # p => publisher'[q] = publisher[q]
      /\ \A q \in Publishers :
           Len(publisher'[q].events) <= BatchSize /\ Len(publisher'[q].sent) <= BatchSize
  BY <1>1, <1>2, <1>4, PublisherSet
<1>6. /\ publish_q' = Tail(publish_q)
      /\ UNCHANGED <<sqs, delivery, published, receiver, received, process_q, main, current,
                     generated, in_flight, published_q, final, counted, delete_q, deleter,
                     entries, stop_receiving, stop, faults, timeouts, signals>>
  BY DEF GetEvent
<1>7. /\ publish_q' \in Seq(Event) /\ Len(publish_q') = Len(publish_q) - 1
      /\ Len(publish_q) \in Nat
      /\ \A i \in DOMAIN publish_q' : i + 1 \in DOMAIN publish_q /\ publish_q'[i] = publish_q[i + 1]
      /\ x = publish_q[1] /\ 1 \in DOMAIN publish_q
  BY <1>2, <1>6, Tailed DEF x
<1>8. SeqUpTo(Event, PublishCap, publish_q')
  <2>1. Len(publish_q) <= PublishCap /\ PublishCap \in Nat
    BY <1>1, SizeAssumption DEF TypeOK, SeqUpTo
  <2>2. Len(publish_q') <= PublishCap
    BY <1>7, <2>1
  <2> QED  BY <1>7, <2>2 DEF SeqUpTo
<1>9. TypeOK'
  BY <1>1, <1>5, <1>6, <1>8 DEF TypeOK
<1>10. Unpublished' \subseteq Unpublished
  <2>1. \A i \in DOMAIN publish_q' : publish_q'[i] \in Unpublished
    BY <1>7, UnpublishedEvents
  <2>2. \A i \in DOMAIN r.events : r.events[i] \in Unpublished
    <3>1. /\ DOMAIN r.events = DOMAIN e \cup {Len(e) + 1}
          /\ r.events[Len(e) + 1] = x
          /\ \A i \in DOMAIN e : r.events[i] = e[i]
      <4> HIDE DEF e
      <4> QED  BY <1>2, <1>3, Appended
    <3> QED  BY <3>1, <1>7, UnpublishedEvents
  <2>3. \A q \in Publishers : \A i \in DOMAIN publisher'[q].events :
           publisher'[q].events[i] \in Unpublished
    BY <1>5, <2>2, UnpublishedEvents
  <2>4. main' = "publish" => [handle |-> current', index |-> generated'] \in Unpublished
    BY <1>6, UnpublishedEvents
  <2> QED  BY <2>1, <2>3, <2>4, EventsStay
<1>11. \A q \in Publishers : publisher'[q].pc = "put" <=> publisher'[q].sent # <<>>
  BY <1>1, <1>2, <1>3, <1>5 DEF ThreadsInv
<1> QED  BY <1>1, <1>6, <1>9, <1>10, <1>11, NothingToAdd DEF WorkerInv, ThreadsInv

LEMMA PublishStep ==
    ASSUME WorkerInv, NEW p \in Publishers, Publish(p)
    PROVE  LET e == publisher[p].events
           IN  /\ e \in Seq(Event) /\ Len(e) <= BatchSize /\ publisher[p].sent = <<>>
               /\ \E sent \in Seq(DOMAIN e) :
                    LET r == [pc |-> IF sent = <<>> THEN publisher[p].pc ELSE "put",
                              next |-> publisher[p].pc, events |-> <<>>,
                              sent |-> [i \in DOMAIN sent |-> e[sent[i]].handle]]
                    IN  /\ Len(sent) <= Len(e)
                        /\ \A i, j \in DOMAIN sent : sent[i] = sent[j] => i = j
                        /\ publisher' = [publisher EXCEPT ![p] = r]
                        /\ r \in Publisher /\ Len(r.sent) = Len(sent)
                        /\ r.sent = <<>> <=> sent = <<>>
                        /\ published' = published \cup
                             {[message |-> e[i].handle.message, index |-> e[i].index] :
                                i \in ToSet(sent)}
                        /\ IF Len(sent) = Len(e) THEN UNCHANGED bounds ELSE Fault
<1> DEFINE e == publisher[p].events
<1>1. /\ publisher \in [Publishers -> Publisher] /\ publisher[p] \in Publisher
      /\ publisher[p].pc \in {"get", "empty"} /\ Len(e) <= BatchSize
      /\ publisher[p].sent = <<>>
  <2>1. TypeOK /\ ThreadsInv
    BY DEF WorkerInv
  <2>2. publisher \in [Publishers -> Publisher] /\ Len(e) <= BatchSize
    BY <2>1 DEF TypeOK
  <2>3. publisher[p].pc \in {"get", "empty"}
    BY DEF Publish
  <2>4. publisher[p].sent = <<>>
    BY <2>1, <2>3 DEF ThreadsInv
  <2> QED  BY <2>2, <2>3, <2>4
<1>2. e \in Seq(Event)
  BY <1>1 DEF Publisher
<1>3. DOMAIN e = 1 .. Len(e) /\ Len(e) \in Nat
  BY <1>2
<1>4. IsFiniteSet(DOMAIN e) /\ Cardinality(DOMAIN e) = Len(e)
  BY <1>3, FS_Interval
<1>5. PICK sent \in SetToAllKPermutations(DOMAIN e) :
         /\ IF Len(sent) = Len(e) THEN UNCHANGED bounds ELSE Fault
         /\ published' = published \cup
              {[message |-> e[i].handle.message, index |-> e[i].index] : i \in ToSet(sent)}
         /\ publisher' = [publisher EXCEPT ![p] =
              [pc |-> IF sent = <<>> THEN publisher[p].pc ELSE "put",
               events |-> <<>>,
               sent |-> [i \in DOMAIN sent |-> e[sent[i]].handle],
               next |-> publisher[p].pc]]
  BY DEF Publish
<1> HIDE DEF e
<1>6. /\ sent \in Seq(DOMAIN e) /\ Len(sent) <= Len(e)
      /\ \A i, j \in DOMAIN sent : sent[i] = sent[j] => i = j
  BY <1>4, <1>5, Ordered
<1> DEFINE hs == [i \in DOMAIN sent |-> e[sent[i]].handle]
           none == <<>>
           pc == IF sent = <<>> THEN publisher[p].pc ELSE "put"
           r == [pc |-> pc, next |-> publisher[p].pc, events |-> none, sent |-> hs]
<1>7. /\ hs \in Seq(Handle) /\ Len(hs) = Len(sent)
  <2>1. DOMAIN sent = 1 .. Len(sent) /\ Len(sent) \in Nat
    BY <1>6
  <2>2. \A i \in DOMAIN sent : e[sent[i]] \in Event
    BY <1>2, <1>6
  <2>3. \A i \in DOMAIN sent : e[sent[i]].handle \in Handle
    BY <2>2 DEF Event
  <2> QED  BY <2>1, <2>3
<1>8. hs = <<>> <=> sent = <<>>
  <2>1. (hs = <<>> <=> Len(hs) = 0) /\ (sent = <<>> <=> Len(sent) = 0)
    <3> HIDE DEF hs
    <3> QED  BY <1>6, <1>7, EmptySeq
  <2> QED  BY <1>7, <2>1
<1>9. r \in Publisher
  <2>1. none \in Seq(Event)
    OBVIOUS
  <2>2. pc \in {"get", "empty", "put", "stopped"}
    BY <1>1
  <2> HIDE DEF hs, none, pc
  <2> QED  BY <1>1, <1>7, <2>1, <2>2 DEF Publisher
<1>10. publisher' = [publisher EXCEPT ![p] = r]
  <2>1. [pc |-> IF sent = <<>> THEN publisher[p].pc ELSE "put",
         events |-> <<>>,
         sent |-> [i \in DOMAIN sent |-> e[sent[i]].handle],
         next |-> publisher[p].pc] = r
    OBVIOUS
  <2> QED  BY <1>5, <2>1
<1>11. r.sent = hs
  OBVIOUS
<1> HIDE DEF r, hs
<1>12. /\ sent \in Seq(DOMAIN e) /\ Len(sent) <= Len(e)
       /\ \A i, j \in DOMAIN sent : sent[i] = sent[j] => i = j
       /\ publisher' = [publisher EXCEPT ![p] = r]
       /\ r \in Publisher /\ Len(r.sent) = Len(sent)
       /\ r.sent = <<>> <=> sent = <<>>
       /\ published' = published \cup
            {[message |-> e[i].handle.message, index |-> e[i].index] : i \in ToSet(sent)}
       /\ IF Len(sent) = Len(e) THEN UNCHANGED bounds ELSE Fault
  BY <1>5, <1>6, <1>7, <1>8, <1>9, <1>10, <1>11
<1> QED  BY <1>1, <1>2, <1>12 DEF e, r, hs, none, pc

LEMMA PublishInv ==
    ASSUME WorkerInv, NEW p \in Publishers, Publish(p)
    PROVE  WorkerInv'
<1> DEFINE e == publisher[p].events
           none == <<>>
<1>1. TypeOK /\ ThreadsInv
  BY DEF WorkerInv
<1>2. e \in Seq(Event) /\ Len(e) <= BatchSize /\ publisher[p].sent = <<>>
  BY PublishStep
<1>3. PICK sent \in Seq(DOMAIN e), r \in Publisher :
         /\ r.pc = IF sent = <<>> THEN publisher[p].pc ELSE "put"
         /\ r.events = none
         /\ Len(sent) <= Len(e)
         /\ publisher' = [publisher EXCEPT ![p] = r]
         /\ Len(r.sent) = Len(sent)
         /\ r.sent = <<>> <=> sent = <<>>
         /\ published' = published \cup
              {[message |-> e[i].handle.message, index |-> e[i].index] : i \in ToSet(sent)}
         /\ IF Len(sent) = Len(e) THEN UNCHANGED bounds ELSE Fault
  BY PublishStep
<1>4. Len(none) = 0 /\ DOMAIN none = {}
  OBVIOUS
<1> HIDE DEF none
<1>5. Len(r.events) <= BatchSize /\ Len(r.sent) <= BatchSize
  <2>1. BatchSize \in Nat /\ Len(e) \in Nat /\ Len(sent) \in Nat
    BY <1>2, SizeAssumption
  <2> QED  BY <1>2, <1>3, <1>4, <2>1
<1>6. /\ publisher' \in [Publishers -> Publisher]
      /\ publisher'[p] = r
      /\ \A q \in Publishers : q # p => publisher'[q] = publisher[q]
      /\ \A q \in Publishers :
           Len(publisher'[q].events) <= BatchSize /\ Len(publisher'[q].sent) <= BatchSize
  BY <1>1, <1>3, <1>5, PublisherSet
<1>7. UNCHANGED <<sqs, delivery, receiver, received, process_q, main, current, generated,
                  in_flight, publish_q, published_q, final, counted, delete_q, deleter,
                  entries, stop_receiving, stop>>
  BY DEF Publish
<1>8. faults' \in 0 .. MaxFaults /\ timeouts' = timeouts /\ signals' = signals
  BY <1>1, <1>3, FaultBounds DEF TypeOK
<1>9. \A x \in published' :
         x \in [message : Messages, index : Nat] /\ x.index \in 1 .. EventCount[x.message]
  <2> SUFFICES ASSUME NEW x \in published', x \notin published
               PROVE  x \in [message : Messages, index : Nat] /\ x.index \in 1 .. EventCount[x.message]
    BY <1>1 DEF TypeOK
  <2>1. PICK i \in DOMAIN e : x = [message |-> e[i].handle.message, index |-> e[i].index]
    BY <1>3 DEF ToSet
  <2>2. e[i] \in Event /\ e[i] \in Unpublished
    BY <1>2, UnpublishedEvents
  <2>3. e[i].index \in 1 .. EventCount[e[i].handle.message]
    BY <1>1, <2>2 DEF ThreadsInv
  <2>4. e[i].handle.message \in Messages /\ e[i].index \in Nat
    BY <2>2 DEF Event, Handle
  <2> QED  BY <2>1, <2>3, <2>4
<1>10. TypeOK'
  BY <1>1, <1>6, <1>7, <1>8, <1>9 DEF TypeOK
<1>11. Unpublished' \subseteq Unpublished
  <2>1. \A q \in Publishers : \A i \in DOMAIN publisher'[q].events :
           publisher'[q].events[i] \in Unpublished
    BY <1>3, <1>4, <1>6, UnpublishedEvents
  <2>2. /\ \A i \in DOMAIN publish_q' : publish_q'[i] \in Unpublished
        /\ main' = "publish" => [handle |-> current', index |-> generated'] \in Unpublished
    BY <1>7, UnpublishedEvents
  <2> QED  BY <2>1, <2>2, EventsStay
<1>12. publisher[p].pc \in {"get", "empty"}
  BY DEF Publish
<1>13. \A q \in Publishers : publisher'[q].pc = "put" <=> publisher'[q].sent # <<>>
  BY <1>1, <1>3, <1>6, <1>12 DEF ThreadsInv
<1> QED  BY <1>1, <1>7, <1>10, <1>11, <1>13, NothingToAdd DEF WorkerInv, ThreadsInv

LEMMA PutPublishedStep ==
    ASSUME WorkerInv, NEW p \in Publishers, PutPublished(p)
    PROVE  \E r \in Publisher :
              /\ publisher' = [publisher EXCEPT ![p] = r]
              /\ r.events = publisher[p].events /\ r.sent = Tail(publisher[p].sent)
              /\ r.pc = IF r.sent = <<>> THEN publisher[p].next ELSE "put"
              /\ publisher[p].sent \in Seq(Handle) /\ publisher[p].sent # <<>>
              /\ Len(r.sent) <= BatchSize /\ Len(r.events) <= BatchSize
              /\ publisher[p].next \in {"get", "empty"}
<1> DEFINE t == publisher[p]
           sent == t.sent
           last == Len(sent) = 1
           pc == IF last THEN t.next ELSE "put"
           next == IF last THEN "get" ELSE t.next
           r == [pc |-> pc, next |-> next, events |-> t.events, sent |-> Tail(sent)]
<1>1. TypeOK /\ ThreadsInv
  BY DEF WorkerInv
<1>2. publisher \in [Publishers -> Publisher] /\ t \in Publisher
  BY <1>1 DEF TypeOK
<1>3. /\ sent \in Seq(Handle) /\ t.events \in Seq(Event)
      /\ t.next \in {"get", "empty"}
  BY <1>2 DEF Publisher
<1>4. sent # <<>>
  BY <1>1 DEF ThreadsInv, PutPublished
<1>5. Len(sent) <= BatchSize /\ Len(t.events) <= BatchSize
  BY <1>1 DEF TypeOK
<1>6. publisher' = [publisher EXCEPT ![p] = r]
  BY DEF PutPublished
<1> HIDE DEF sent, t
<1>7. /\ Tail(sent) \in Seq(Handle) /\ Len(Tail(sent)) = Len(sent) - 1
      /\ Len(sent) \in Nat \ {0}
      /\ Len(sent) = 1 <=> Tail(sent) = <<>>
  BY <1>3, <1>4, Tailed
<1>8. pc \in {"get", "empty", "put", "stopped"} /\ next \in {"get", "empty"}
  BY <1>3
<1>9. Len(Tail(sent)) <= BatchSize
  BY <1>5, <1>7, SizeAssumption
<1>10. pc = IF Tail(sent) = <<>> THEN t.next ELSE "put"
  BY <1>7
<1> HIDE DEF pc, next, last
<1>11. r \in Publisher
  BY <1>3, <1>7, <1>8 DEF Publisher
<1>12. r.events = t.events /\ r.sent = Tail(sent) /\ r.pc = pc
  OBVIOUS
<1> HIDE DEF r
<1>13. /\ publisher' = [publisher EXCEPT ![p] = r]
       /\ r.events = t.events /\ r.sent = Tail(sent)
       /\ r.pc = IF r.sent = <<>> THEN t.next ELSE "put"
       /\ Len(r.sent) <= BatchSize /\ Len(r.events) <= BatchSize
  BY <1>5, <1>6, <1>9, <1>10, <1>12
<1> QED  BY <1>3, <1>4, <1>11, <1>13 DEF t, sent

LEMMA PutPublishedInv ==
    ASSUME WorkerInv, NEW p \in Publishers, PutPublished(p)
    PROVE  WorkerInv'
<1>1. TypeOK /\ ThreadsInv
  BY DEF WorkerInv
<1>2. PICK r \in Publisher :
              /\ publisher' = [publisher EXCEPT ![p] = r]
              /\ r.events = publisher[p].events /\ r.sent = Tail(publisher[p].sent)
              /\ r.pc = IF r.sent = <<>> THEN publisher[p].next ELSE "put"
              /\ publisher[p].sent \in Seq(Handle) /\ publisher[p].sent # <<>>
              /\ Len(r.sent) <= BatchSize /\ Len(r.events) <= BatchSize
              /\ publisher[p].next \in {"get", "empty"}
  BY PutPublishedStep
<1>3. /\ publisher' \in [Publishers -> Publisher]
      /\ publisher'[p] = r
      /\ \A q \in Publishers : q # p => publisher'[q] = publisher[q]
      /\ \A q \in Publishers :
           Len(publisher'[q].events) <= BatchSize /\ Len(publisher'[q].sent) <= BatchSize
  BY <1>1, <1>2, PublisherSet
<1>4. Head(publisher[p].sent) \in Handle
  BY <1>2, Tailed
<1>5. PublishedCap \in Nat /\ SeqUpTo(Handle, PublishedCap, published_q)
  BY <1>1, SizeAssumption DEF TypeOK
<1>6. SeqUpTo(Handle, PublishedCap, published_q')
  BY <1>4, <1>5, HandleQueued DEF PutPublished
<1>7. UNCHANGED <<sqs, delivery, published, receiver, received, process_q, main, current,
                  generated, in_flight, publish_q, final, counted, delete_q, deleter,
                  entries, stop_receiving, stop, faults, timeouts, signals>>
  BY DEF PutPublished
<1>8. TypeOK'
  BY <1>1, <1>3, <1>6, <1>7 DEF TypeOK
<1>9. Unpublished' \subseteq Unpublished
  <2>1. \A q \in Publishers : publisher'[q].events = publisher[q].events
    BY <1>2, <1>3
  <2> QED  BY <1>7, <2>1, UnpublishedEvents, EventsStay
<1>10. \A q \in Publishers : publisher'[q].pc = "put" <=> publisher'[q].sent # <<>>
  BY <1>1, <1>2, <1>3 DEF ThreadsInv
<1> QED  BY <1>1, <1>7, <1>8, <1>9, <1>10, NothingToAdd DEF WorkerInv, ThreadsInv

LEMMA PcSet ==
    ASSUME NEW t \in Publisher, NEW x
    PROVE  [t EXCEPT !.pc = x] =
           [pc |-> x, next |-> t.next, events |-> t.events, sent |-> t.sent]
BY DEF Publisher

LEMMA NoEventStep ==
    ASSUME TypeOK, NEW p \in Publishers, NoEvent(p)
    PROVE  \E r \in Publisher :
              /\ publisher' = [publisher EXCEPT ![p] = r]
              /\ r.events = publisher[p].events /\ r.sent = publisher[p].sent
              /\ r.pc # "put" /\ publisher[p].pc # "put"
<1> DEFINE t == publisher[p]
<1>1. publisher \in [Publishers -> Publisher] /\ t \in Publisher
  BY DEF TypeOK
<1>2. PICK x \in {"empty", "stopped", "get"} :
         publisher' = [publisher EXCEPT ![p].pc = x] /\ t.pc # "put"
  BY DEF NoEvent
<1> DEFINE r == [pc |-> x, next |-> t.next, events |-> t.events, sent |-> t.sent]
<1>3. publisher' = [publisher EXCEPT ![p] = [t EXCEPT !.pc = x]]
  BY <1>2
<1>4. [t EXCEPT !.pc = x] = r
  <2> HIDE DEF t
  <2> QED  BY <1>1, PcSet
<1>5. r \in Publisher
  BY <1>1 DEF Publisher
<1>6. publisher' = [publisher EXCEPT ![p] = r]
  BY <1>3, <1>4
<1>7. r.events = t.events /\ r.sent = t.sent /\ r.pc # "put"
  BY <1>2
<1> HIDE DEF r
<1> QED  BY <1>2, <1>5, <1>6, <1>7

LEMMA NoEventInv ==
    ASSUME WorkerInv, NEW p \in Publishers, NoEvent(p)
    PROVE  WorkerInv'
<1>1. TypeOK /\ ThreadsInv
  BY DEF WorkerInv
<1>2. PICK r \in Publisher :
              /\ publisher' = [publisher EXCEPT ![p] = r]
              /\ r.events = publisher[p].events /\ r.sent = publisher[p].sent
              /\ r.pc # "put" /\ publisher[p].pc # "put"
  BY <1>1, NoEventStep
<1>3. Len(r.events) <= BatchSize /\ Len(r.sent) <= BatchSize
  BY <1>1, <1>2 DEF TypeOK
<1>4. /\ publisher' \in [Publishers -> Publisher]
      /\ publisher'[p] = r
      /\ \A q \in Publishers : q # p => publisher'[q] = publisher[q]
      /\ \A q \in Publishers :
           Len(publisher'[q].events) <= BatchSize /\ Len(publisher'[q].sent) <= BatchSize
  BY <1>1, <1>2, <1>3, PublisherSet
<1>5. UNCHANGED <<sqs, delivery, published, receiver, received, process_q, main, current,
                  generated, in_flight, publish_q, published_q, final, counted, delete_q,
                  deleter, entries, stop_receiving, stop, faults, timeouts, signals>>
  BY DEF NoEvent
<1>6. TypeOK'
  BY <1>1, <1>4, <1>5 DEF TypeOK
<1>7. Unpublished' \subseteq Unpublished
  <2>1. \A q \in Publishers : publisher'[q].events = publisher[q].events
    BY <1>2, <1>4
  <2> QED  BY <1>5, <2>1, UnpublishedEvents, EventsStay
<1>8. \A q \in Publishers : publisher'[q].pc = "put" <=> publisher'[q].sent # <<>>
  BY <1>1, <1>2, <1>4 DEF ThreadsInv
<1> QED  BY <1>1, <1>5, <1>6, <1>7, <1>8, NothingToAdd DEF WorkerInv, ThreadsInv

-----------------------------------------------------------------------------
(* The final thread, the delete thread, and the process.                    *)

LEMMA GetPublishedInv ==
    ASSUME WorkerInv, GetPublished
    PROVE  WorkerInv'
<1>1. TypeOK /\ ThreadsInv
  BY DEF WorkerInv
<1>2. PublishedCap \in Nat /\ SeqUpTo(Handle, PublishedCap, published_q) /\ published_q # <<>>
  BY <1>1, SizeAssumption DEF TypeOK, GetPublished
<1> DEFINE h == Head(published_q)
<1>3. h \in Handle /\ SeqUpTo(Handle, PublishedCap, Tail(published_q))
  BY <1>2, HandleTaken
<1>4. h # None
  BY <1>3, NoneAssumption
<1>5. /\ in_flight' = Decremented(h)
      /\ \/ final' = "put" /\ counted' = h
         \/ final' = final /\ counted' = counted
      /\ published_q' = Tail(published_q)
      /\ UNCHANGED <<sqs, delivery, published, receiver, received, process_q, main, current,
                     generated, publish_q, publisher, delete_q, deleter, entries,
                     stop_receiving, stop, faults, timeouts, signals>>
  BY DEF GetPublished
<1> HIDE DEF h
<1>6. InFlightOK(in_flight')
  BY <1>1, <1>3, <1>5, Decrement DEF TypeOK
<1>7. TypeOK'
  BY <1>1, <1>3, <1>5, <1>6 DEF TypeOK
<1>8. Unpublished' \subseteq Unpublished
  BY <1>5 DEF Unpublished
<1> QED  BY <1>1, <1>4, <1>5, <1>7, <1>8, NothingToAdd DEF WorkerInv, ThreadsInv

LEMMA QueuePublishedMessageInv ==
    ASSUME WorkerInv, QueuePublishedMessage
    PROVE  WorkerInv'
<1>1. TypeOK /\ ThreadsInv
  BY DEF WorkerInv
<1>2. counted \in Handle
  BY <1>1 DEF TypeOK, ThreadsInv, QueuePublishedMessage
<1>3. DeleteCap \in Nat /\ SeqUpTo(Handle, DeleteCap, delete_q)
  BY <1>1, SizeAssumption DEF TypeOK
<1>4. SeqUpTo(Handle, DeleteCap, delete_q')
  BY <1>2, <1>3, HandleQueued DEF QueuePublishedMessage
<1>5. /\ final' = "get" /\ counted' = None
      /\ UNCHANGED <<sqs, delivery, published, receiver, received, process_q, main, current,
                     generated, in_flight, publish_q, publisher, published_q, deleter, entries,
                     stop_receiving, stop, faults, timeouts, signals>>
  BY DEF QueuePublishedMessage
<1>6. TypeOK'
  BY <1>1, <1>4, <1>5 DEF TypeOK
<1> QED  BY <1>1, <1>5, <1>6, NothingToAdd DEF WorkerInv, ThreadsInv, Unpublished

LEMMA NoPublishedInv ==
    ASSUME WorkerInv, NoPublished
    PROVE  WorkerInv'
<1>1. TypeOK /\ ThreadsInv
  BY DEF WorkerInv
<1>2. TypeOK'
  BY <1>1 DEF TypeOK, NoPublished
<1> QED  BY <1>1, <1>2, NothingToAdd DEF WorkerInv, ThreadsInv, Unpublished, NoPublished

LEMMA GetHandleInv ==
    ASSUME WorkerInv, GetHandle
    PROVE  WorkerInv'
<1>1. TypeOK /\ ThreadsInv
  BY DEF WorkerInv
<1>2. /\ DeleteCap \in Nat /\ SeqUpTo(Handle, DeleteCap, delete_q) /\ delete_q # <<>>
      /\ DeleteBatchSize \in Nat /\ SeqUpTo(Handle, DeleteBatchSize, entries)
  BY <1>1, SizeAssumption DEF TypeOK, GetHandle
<1>3. Head(delete_q) \in Handle /\ SeqUpTo(Handle, DeleteCap, Tail(delete_q))
  BY <1>2, HandleTaken
<1>4. SeqUpTo(Handle, DeleteBatchSize, Append(entries, Head(delete_q)))
  BY <1>2, <1>3, HandleQueued DEF GetHandle
<1>5. /\ entries' = Append(entries, Head(delete_q)) /\ delete_q' = Tail(delete_q)
      /\ UNCHANGED <<sqs, delivery, published, receiver, received, process_q, main, current,
                     generated, in_flight, publish_q, publisher, published_q, final, counted,
                     deleter, stop_receiving, stop, faults, timeouts, signals>>
  BY DEF GetHandle
<1>6. TypeOK'
  BY <1>1, <1>3, <1>4, <1>5 DEF TypeOK
<1> QED  BY <1>1, <1>5, <1>6, NothingToAdd DEF WorkerInv, ThreadsInv, Unpublished

LEMMA NoEntries ==
    ASSUME entries' = <<>>
    PROVE  SeqUpTo(Handle, DeleteBatchSize, entries') /\ ToSet(entries') = {}
<1>1. DeleteBatchSize \in Nat
  BY SizeAssumption
<1>2. <<>> \in Seq(Handle) /\ Len(<<>>) = 0
  OBVIOUS
<1>3. ToSet(<<>>) = {}
  BY DEF ToSet
<1> QED  BY <1>1, <1>2, <1>3 DEF SeqUpTo

LEMMA DeleteEntriesInv ==
    ASSUME WorkerInv, DeleteEntries \/ CouldNotDelete
    PROVE  WorkerInv'
<1>1. TypeOK /\ ThreadsInv
  BY DEF WorkerInv
<1>2. entries' = <<>>
  BY DEF DeleteEntries, CouldNotDelete
<1>3. SeqUpTo(Handle, DeleteBatchSize, entries')
  BY <1>2, NoEntries
<1>4. sqs' \in [Messages -> {"visible", "in_flight", "deleted"}]
  BY <1>1 DEF DeleteEntries, CouldNotDelete, TypeOK
<1>5. faults' \in 0 .. MaxFaults /\ timeouts' = timeouts /\ signals' = signals
  BY <1>1, FaultBounds DEF DeleteEntries, CouldNotDelete, TypeOK
<1>6. UNCHANGED <<delivery, published, receiver, received, process_q, main, current, generated,
                  in_flight, publish_q, publisher, published_q, final, counted, delete_q,
                  deleter, stop_receiving, stop>>
  BY DEF DeleteEntries, CouldNotDelete
<1>7. TypeOK'
  BY <1>1, <1>3, <1>4, <1>5, <1>6 DEF TypeOK
<1> QED  BY <1>1, <1>6, <1>7, NothingToAdd DEF WorkerInv, ThreadsInv, Unpublished

LEMMA NoHandleInv ==
    ASSUME WorkerInv, NoHandle
    PROVE  WorkerInv'
<1>1. TypeOK /\ ThreadsInv
  BY DEF WorkerInv
<1>2. TypeOK'
  BY <1>1 DEF TypeOK, NoHandle
<1> QED  BY <1>1, <1>2, NothingToAdd DEF WorkerInv, ThreadsInv, Unpublished, NoHandle

LEMMA VisibilityTimeoutInv ==
    ASSUME WorkerInv, NEW m \in Messages, VisibilityTimeout(m)
    PROVE  WorkerInv'
<1>1. TypeOK /\ ThreadsInv
  BY DEF WorkerInv
<1>2. /\ timeouts' \in 0 .. MaxTimeouts /\ UNCHANGED <<faults, signals>>
      /\ sqs' \in [Messages -> {"visible", "in_flight", "deleted"}]
  BY <1>1, SizeAssumption DEF VisibilityTimeout, TypeOK
<1>3. UNCHANGED <<delivery, published, receiver, received, process_q, main, current, generated,
                  in_flight, publish_q, publisher, published_q, final, counted, delete_q,
                  deleter, entries, stop_receiving, stop>>
  BY DEF VisibilityTimeout
<1>4. TypeOK'
  BY <1>1, <1>2, <1>3 DEF TypeOK
<1> QED  BY <1>1, <1>3, <1>4, NothingToAdd DEF WorkerInv, ThreadsInv, Unpublished

LEMMA HandleSignalInv ==
    ASSUME WorkerInv, HandleSignal
    PROVE  WorkerInv'
<1>1. TypeOK /\ ThreadsInv
  BY DEF WorkerInv
<1>2. TypeOK'
  BY <1>1, SizeAssumption DEF TypeOK, HandleSignal
<1> QED  BY <1>1, <1>2, NothingToAdd DEF WorkerInv, ThreadsInv, Unpublished, HandleSignal

\* The state of a new process, for Init and the restarts.
LEMMA EmptyQueues ==
    ASSUME NEW S, NEW cap \in Nat
    PROVE  SeqUpTo(S, cap, <<>>)
<1>1. <<>> \in Seq(S) /\ Len(<<>>) = 0
  OBVIOUS
<1> QED  BY <1>1 DEF SeqUpTo

LEMMA IdleTyped ==
    /\ Idle \in Publisher /\ Idle.pc = "get" /\ Idle.sent = <<>> /\ Idle.events = <<>>
    /\ Len(Idle.events) <= BatchSize /\ Len(Idle.sent) <= BatchSize
    /\ DOMAIN Idle.events = {} /\ DOMAIN Idle.sent = {}
<1> DEFINE none == <<>>
<1>1. /\ none \in Seq(Event) /\ none \in Seq(Handle) /\ Len(none) = 0 /\ DOMAIN none = {}
      /\ BatchSize \in Nat
  BY SizeAssumption
<1>2. Idle = [pc |-> "get", events |-> none, sent |-> none, next |-> "get"]
  BY DEF Idle
<1> HIDE DEF none
<1>3. Idle \in Publisher /\ Idle.pc = "get" /\ Idle.sent = none /\ Idle.events = none
  BY <1>1, <1>2 DEF Publisher
<1> QED  BY <1>1, <1>3 DEF none

LEMMA NoneInFlight == InFlightOK(<<>>)
<1>1. <<>> \in Seq(Entry) /\ Len(<<>>) = 0 /\ MaxInFlight \in Nat
  BY SizeAssumption
<1>2. Keyed(<<>>)
  BY DEF Keyed
<1> QED  BY <1>1, <1>2 DEF InFlightOK

LEMMA NewWorkerInv ==
    ASSUME WorkerInv, NewWorker, UNCHANGED outside,
           faults' \in 0 .. MaxFaults, timeouts' = timeouts, signals' = signals
    PROVE  WorkerInv'
<1> DEFINE none == <<>>
<1>1. TypeOK /\ ThreadsInv
  BY DEF WorkerInv
<1>2. /\ SeqUpTo(Handle, DeleteBatchSize, none) /\ SeqUpTo(Handle, ProcessCap, none)
      /\ SeqUpTo(Event, PublishCap, none) /\ SeqUpTo(Handle, PublishedCap, none)
      /\ SeqUpTo(Handle, DeleteCap, none)
  BY EmptyQueues, SizeAssumption
<1>3. InFlightOK(none) /\ none \in Seq(Handle) /\ DOMAIN none = {}
  BY NoneInFlight
<1>4. /\ publisher' \in [Publishers -> Publisher]
      /\ \A p \in Publishers : publisher'[p] = Idle
  BY IdleTyped DEF NewWorker
<1>5. \A p \in Publishers :
         /\ Len(publisher'[p].events) <= BatchSize /\ Len(publisher'[p].sent) <= BatchSize
         /\ publisher'[p].pc # "put" /\ publisher'[p].sent = none
         /\ DOMAIN publisher'[p].events = {}
  BY <1>4, IdleTyped
<1>6. /\ receiver' = "receive" /\ received' = none /\ process_q' = none
      /\ main' = "get" /\ current' = None /\ generated' = 0
      /\ in_flight' = none /\ publish_q' = none
      /\ published_q' = none /\ final' = "get" /\ counted' = None
      /\ delete_q' = none /\ deleter' = "get" /\ entries' = none
      /\ stop_receiving' = FALSE /\ stop' = FALSE
      /\ UNCHANGED <<sqs, delivery, published>>
  BY DEF NewWorker
<1>7. \A p \in Publishers : publisher'[p].pc = "put" <=> publisher'[p].sent # <<>>
  BY <1>5
<1> HIDE DEF none
<1>8. TypeOK'
  BY <1>1, <1>2, <1>3, <1>4, <1>5, <1>6 DEF TypeOK
<1>9. Unpublished' \subseteq Unpublished
  BY <1>3, <1>5, <1>6, EventsStay
<1> QED  BY <1>6, <1>7, <1>8, <1>9, NothingToAdd

LEMMA InitWorkerInv ==
    ASSUME Init
    PROVE  WorkerInv
<1> DEFINE none == <<>>
<1>1. /\ SeqUpTo(Handle, DeleteBatchSize, none) /\ SeqUpTo(Handle, ProcessCap, none)
      /\ SeqUpTo(Event, PublishCap, none) /\ SeqUpTo(Handle, PublishedCap, none)
      /\ SeqUpTo(Handle, DeleteCap, none)
  BY EmptyQueues, SizeAssumption
<1>2. InFlightOK(none) /\ none \in Seq(Handle) /\ DOMAIN none = {}
  BY NoneInFlight
<1>3. /\ publisher \in [Publishers -> Publisher]
      /\ \A p \in Publishers : publisher[p] = Idle
  BY IdleTyped DEF Init
<1>4. \A p \in Publishers :
         /\ Len(publisher[p].events) <= BatchSize /\ Len(publisher[p].sent) <= BatchSize
         /\ publisher[p].pc # "put" /\ publisher[p].sent = <<>>
         /\ ToSet(publisher[p].events) = {}
  BY <1>3, IdleTyped DEF ToSet
<1>5. /\ receiver = "receive" /\ received = none /\ process_q = none
      /\ main = "get" /\ current = None /\ generated = 0
      /\ in_flight = none /\ publish_q = none
      /\ published_q = none /\ final = "get" /\ counted = None
      /\ delete_q = none /\ deleter = "get" /\ entries = none
      /\ stop_receiving = FALSE /\ stop = FALSE
      /\ faults = 0 /\ timeouts = 0 /\ signals = 0 /\ published = {}
      /\ sqs \in [Messages -> {"visible", "in_flight", "deleted"}]
      /\ delivery \in [Messages -> Nat]
  BY DEF Init
<1>6. 0 \in 0 .. MaxFaults /\ 0 \in 0 .. MaxTimeouts /\ 0 \in 0 .. MaxSignals
  BY SizeAssumption
<1> HIDE DEF none
<1>7. TypeOK
  BY <1>1, <1>2, <1>3, <1>4, <1>5, <1>6 DEF TypeOK
<1>8. ToSet(publish_q) = {}
  BY <1>2, <1>5 DEF ToSet
<1>9. Unpublished = {}
  BY <1>4, <1>5, <1>8 DEF Unpublished
<1> QED  BY <1>4, <1>5, <1>7, <1>9 DEF WorkerInv, ThreadsInv

LEMMA NextWorkerInv ==
    ASSUME WorkerInv, [Next]_vars
    PROVE  WorkerInv'
<1>1. CASE ReceiveThread
  BY <1>1, ReceiveMessagesInv, QueueMessageInv, StopReceivingInv DEF ReceiveThread
<1>2. CASE RunLoop \/ GeneratorFails
  BY <1>2, GetMessageInv, NoMessageInv, GenerateEventInv, QueueEventInv, EndOfEventsInv,
     QueueEmptyMessageInv, GeneratorFailsInv, EndOfRunInv DEF RunLoop
<1>3. CASE \E p \in Publishers : PublishThread(p)
  BY <1>3, GetEventInv, PublishInv, PutPublishedInv, NoEventInv DEF PublishThread
<1>4. CASE FinalThread
  BY <1>4, GetPublishedInv, QueuePublishedMessageInv, NoPublishedInv DEF FinalThread
<1>5. CASE DeleteThread \/ CouldNotDelete
  BY <1>5, GetHandleInv, DeleteEntriesInv, NoHandleInv DEF DeleteThread
<1>6. CASE (\E m \in Messages : VisibilityTimeout(m)) \/ HandleSignal
  BY <1>6, VisibilityTimeoutInv, HandleSignalInv
<1>7. CASE Crash
  <2>1. TypeOK
    BY DEF WorkerInv
  <2> QED  BY <1>7, <2>1, FaultBounds, NewWorkerInv DEF Crash
<1>8. CASE Restart
  <2>1. TypeOK
    BY DEF WorkerInv
  <2> QED  BY <1>8, <2>1, NewWorkerInv DEF Restart, TypeOK
<1>9. CASE UNCHANGED vars
  BY <1>9 DEF vars, WorkerInv, TypeOK, ThreadsInv, Unpublished
<1> QED  BY <1>1, <1>2, <1>3, <1>4, <1>5, <1>6, <1>7, <1>8, <1>9 DEF Next

\* What the threads have in hand: an event has one of the indexes of its message,
\* a thread that puts something has something to put (consumer.py, sqs.py, sns.py).
THEOREM ThreadsInvariant == Spec => []WorkerInv
<1>1. Init => WorkerInv
  BY InitWorkerInv
<1>2. WorkerInv /\ [Next]_vars => WorkerInv'
  BY NextWorkerInv
<1> QED  BY <1>1, <1>2, PTL DEF Spec

\* The variables keep their types: no queue is larger than its maxsize, and no
\* handle has a count of zero (consumer.py, decrement_receipt_handle_unpublished_event_count).
THEOREM WorkerTypes == Spec => []TypeOK
<1>1. WorkerInv => TypeOK
  BY DEF WorkerInv
<1> QED  BY ThreadsInvariant, <1>1, PTL

-----------------------------------------------------------------------------
(* The messages that are deleted, when none of them has several events.     *)

LEMMA ReturnedFrom ==
    ASSUME ReturnedPublished, published \subseteq published',
           \A h \in Returned' : h \in Returned \/ AllPublished(h.message)'
    PROVE  ReturnedPublished'
BY DEF ReturnedPublished, AllPublished

LEMMA ReturnedUnchanged ==
    ASSUME ReturnedPublished,
           UNCHANGED <<published, published_q, delete_q, entries, counted>>,
           \A p \in Publishers : publisher'[p].sent = publisher[p].sent
    PROVE  ReturnedPublished'
<1>1. Returned' = Returned
  BY DEF Returned
<1> QED  BY <1>1, ReturnedFrom

LEMMA QueueEmptyMessageReturned ==
    ASSUME WorkerInv, ReturnedPublished, QueueEmptyMessage
    PROVE  ReturnedPublished'
<1>1. TypeOK /\ ThreadsInv
  BY DEF WorkerInv
<1>2. current \in Handle /\ EventCount[current.message] = 0
  BY <1>1 DEF TypeOK, ThreadsInv, QueueEmptyMessage
<1>3. DeleteCap \in Nat /\ SeqUpTo(Handle, DeleteCap, delete_q)
  BY <1>1, SizeAssumption DEF TypeOK
<1>4. ToSet(delete_q') = ToSet(delete_q) \cup {current}
  BY <1>2, <1>3, HandleQueued DEF QueueEmptyMessage
<1>5. UNCHANGED <<published, published_q, entries, counted, publisher>>
  BY DEF QueueEmptyMessage
<1>6. Returned' = Returned \cup {current}
  BY <1>4, <1>5 DEF Returned
<1>7. AllPublished(current.message)
  BY <1>2 DEF AllPublished
<1> QED  BY <1>5, <1>6, <1>7 DEF ReturnedPublished, AllPublished

LEMMA PublishReturned ==
    ASSUME SingleEvent, WorkerInv, ReturnedPublished, NEW p \in Publishers, Publish(p)
    PROVE  ReturnedPublished'
<1> DEFINE e == publisher[p].events
<1>1. TypeOK /\ ThreadsInv
  BY DEF WorkerInv
<1>2. e \in Seq(Event)
  BY PublishStep
<1>3. PICK sent \in Seq(DOMAIN e), r \in Publisher :
         /\ r.sent = [i \in DOMAIN sent |-> e[sent[i]].handle]
         /\ publisher' = [publisher EXCEPT ![p] = r]
         /\ published' = published \cup
              {[message |-> e[i].handle.message, index |-> e[i].index] : i \in ToSet(sent)}
  BY PublishStep
<1>4. /\ \A q \in Publishers : publisher'[q].sent = IF q = p THEN r.sent ELSE publisher[q].sent
      /\ UNCHANGED <<published_q, delete_q, entries, counted>>
  BY <1>1, <1>3 DEF TypeOK, Publish
<1>5. ASSUME NEW h \in Returned', h \notin Returned
      PROVE  AllPublished(h.message)'
  <2>1. h \in ToSet(r.sent)
    BY <1>4, <1>5 DEF Returned
  <2>2. PICK i \in DOMAIN sent : h = e[sent[i]].handle
    BY <1>3, <2>1 DEF ToSet
  <2>3. sent[i] \in DOMAIN e /\ sent[i] \in ToSet(sent)
    BY DEF ToSet
  <2>4. e[sent[i]] \in Event /\ e[sent[i]] \in Unpublished
    BY <1>2, <2>3, UnpublishedEvents
  <2>5. /\ e[sent[i]].index \in 1 .. EventCount[h.message]
        /\ h.message \in Messages
    BY <1>1, <2>2, <2>4 DEF ThreadsInv, Event, Handle
  <2>6. EventCount[h.message] \in Nat /\ EventCount[h.message] <= 1
    BY <2>5, EventCountAssumption DEF SingleEvent
  <2>7. EventCount[h.message] = 1 /\ e[sent[i]].index = 1
    BY <2>5, <2>6
  <2>8. [message |-> h.message, index |-> 1] \in published'
    BY <1>3, <2>2, <2>3, <2>7
  <2> QED  BY <2>7, <2>8 DEF AllPublished
<1>6. published \subseteq published'
  BY <1>3
<1> QED  BY <1>5, <1>6, ReturnedFrom

LEMMA PutPublishedReturned ==
    ASSUME WorkerInv, ReturnedPublished, NEW p \in Publishers, PutPublished(p)
    PROVE  ReturnedPublished'
<1>1. TypeOK
  BY DEF WorkerInv
<1>2. PICK r \in Publisher :
              /\ publisher' = [publisher EXCEPT ![p] = r]
              /\ r.sent = Tail(publisher[p].sent)
              /\ publisher[p].sent \in Seq(Handle) /\ publisher[p].sent # <<>>
  BY PutPublishedStep
<1>3. /\ Head(publisher[p].sent) \in Handle /\ Head(publisher[p].sent) \in ToSet(publisher[p].sent)
      /\ ToSet(r.sent) \subseteq ToSet(publisher[p].sent)
  BY <1>2, Tailed
<1>4. PublishedCap \in Nat /\ SeqUpTo(Handle, PublishedCap, published_q)
  BY <1>1, SizeAssumption DEF TypeOK
<1>5. ToSet(published_q') = ToSet(published_q) \cup {Head(publisher[p].sent)}
  BY <1>3, <1>4, HandleQueued DEF PutPublished
<1>6. /\ \A q \in Publishers : ToSet(publisher'[q].sent) \subseteq ToSet(publisher[q].sent)
      /\ UNCHANGED <<published, delete_q, entries, counted>>
  BY <1>1, <1>2, <1>3 DEF TypeOK, PutPublished
<1>7. Returned' \subseteq Returned
  BY <1>3, <1>5, <1>6 DEF Returned
<1> QED  BY <1>6, <1>7, ReturnedFrom

LEMMA GetPublishedReturned ==
    ASSUME WorkerInv, ReturnedPublished, GetPublished
    PROVE  ReturnedPublished'
<1>1. TypeOK
  BY DEF WorkerInv
<1>2. PublishedCap \in Nat /\ SeqUpTo(Handle, PublishedCap, published_q) /\ published_q # <<>>
  BY <1>1, SizeAssumption DEF TypeOK, GetPublished
<1>3. /\ ToSet(Tail(published_q)) \subseteq ToSet(published_q)
      /\ Head(published_q) \in ToSet(published_q)
  BY <1>2, HandleTaken
<1>4. /\ counted' \in {counted, Head(published_q)} /\ published_q' = Tail(published_q)
      /\ UNCHANGED <<published, delete_q, entries, publisher>>
  BY DEF GetPublished
<1>5. Returned' \subseteq Returned
  BY <1>3, <1>4 DEF Returned
<1> QED  BY <1>4, <1>5, ReturnedFrom

LEMMA QueuePublishedMessageReturned ==
    ASSUME WorkerInv, ReturnedPublished, QueuePublishedMessage
    PROVE  ReturnedPublished'
<1>1. TypeOK /\ ThreadsInv
  BY DEF WorkerInv
<1>2. counted \in Handle /\ counted # None
  BY <1>1, NoneAssumption DEF TypeOK, ThreadsInv, QueuePublishedMessage
<1>3. DeleteCap \in Nat /\ SeqUpTo(Handle, DeleteCap, delete_q)
  BY <1>1, SizeAssumption DEF TypeOK
<1>4. ToSet(delete_q') = ToSet(delete_q) \cup {counted}
  BY <1>2, <1>3, HandleQueued DEF QueuePublishedMessage
<1>5. counted' = None /\ UNCHANGED <<published, published_q, entries, publisher>>
  BY DEF QueuePublishedMessage
<1>6. Returned' \subseteq Returned
  BY <1>2, <1>4, <1>5 DEF Returned
<1> QED  BY <1>5, <1>6, ReturnedFrom

LEMMA GetHandleReturned ==
    ASSUME WorkerInv, ReturnedPublished, GetHandle
    PROVE  ReturnedPublished'
<1>1. TypeOK
  BY DEF WorkerInv
<1>2. /\ DeleteCap \in Nat /\ SeqUpTo(Handle, DeleteCap, delete_q) /\ delete_q # <<>>
      /\ DeleteBatchSize \in Nat /\ SeqUpTo(Handle, DeleteBatchSize, entries)
  BY <1>1, SizeAssumption DEF TypeOK, GetHandle
<1>3. /\ Head(delete_q) \in Handle /\ Head(delete_q) \in ToSet(delete_q)
      /\ ToSet(Tail(delete_q)) \subseteq ToSet(delete_q)
  BY <1>2, HandleTaken
<1>4. ToSet(entries') = ToSet(entries) \cup {Head(delete_q)}
  BY <1>2, <1>3, HandleQueued DEF GetHandle
<1>5. delete_q' = Tail(delete_q) /\ UNCHANGED <<published, published_q, counted, publisher>>
  BY DEF GetHandle
<1>6. Returned' \subseteq Returned
  BY <1>3, <1>4, <1>5 DEF Returned
<1> QED  BY <1>5, <1>6, ReturnedFrom

LEMMA DeleteEntriesReturned ==
    ASSUME ReturnedPublished, DeleteEntries \/ CouldNotDelete
    PROVE  ReturnedPublished'
<1>1. entries' = <<>> /\ UNCHANGED <<published, published_q, delete_q, counted, publisher>>
  BY DEF DeleteEntries, CouldNotDelete
<1>2. ToSet(entries') = {}
  BY <1>1, NoEntries
<1>3. Returned' \subseteq Returned
  BY <1>1, <1>2 DEF Returned
<1> QED  BY <1>1, <1>3, ReturnedFrom

LEMMA NewWorkerReturned ==
    ASSUME NewWorker
    PROVE  Returned' = {}
<1> DEFINE none == <<>>
<1>1. ToSet(none) = {}
  BY DEF ToSet
<1>2. \A p \in Publishers : publisher'[p].sent = none
  BY IdleTyped DEF NewWorker
<1>3. published_q' = none /\ delete_q' = none /\ entries' = none /\ counted' = None
  BY DEF NewWorker
<1> HIDE DEF none
<1> QED  BY <1>1, <1>2, <1>3 DEF Returned

LEMMA NextReturned ==
    ASSUME SingleEvent, WorkerInv, ReturnedPublished, [Next]_vars
    PROVE  ReturnedPublished'
<1>1. TypeOK
  BY DEF WorkerInv
<1>2. CASE ReceiveThread
  BY <1>2, ReturnedUnchanged DEF ReceiveThread, ReceiveMessages, QueueMessage, StopReceiving
<1>3. CASE RunLoop \/ GeneratorFails
  BY <1>3, ReturnedUnchanged, QueueEmptyMessageReturned
  DEF RunLoop, GetMessage, NoMessage, GenerateEvent, QueueEvent, EndOfEvents,
      GeneratorFails, GracefulStop, Join
<1>4. ASSUME NEW p \in Publishers, PublishThread(p)
      PROVE  ReturnedPublished'
  <2>1. CASE GetEvent(p)
    <3>1. PICK r \in Publisher : publisher' = [publisher EXCEPT ![p] = r] /\ r.sent = publisher[p].sent
      BY <1>1, <2>1, GetEventStep
    <3>2. \A q \in Publishers : publisher'[q].sent = publisher[q].sent
      BY <1>1, <3>1 DEF TypeOK
    <3> QED  BY <2>1, <3>2, ReturnedUnchanged DEF GetEvent
  <2>2. CASE NoEvent(p)
    <3>1. \A q \in Publishers : publisher'[q].sent = publisher[q].sent
      BY <1>1, <2>2, NoEventStep DEF TypeOK
    <3> QED  BY <2>2, <3>1, ReturnedUnchanged DEF NoEvent
  <2> QED  BY <1>4, <2>1, <2>2, PublishReturned, PutPublishedReturned DEF PublishThread
<1>5. CASE FinalThread
  <2>1. CASE NoPublished
    BY <2>1, ReturnedUnchanged DEF NoPublished
  <2> QED  BY <1>5, <2>1, GetPublishedReturned, QueuePublishedMessageReturned DEF FinalThread
<1>6. CASE DeleteThread \/ CouldNotDelete
  <2>1. CASE NoHandle
    BY <2>1, ReturnedUnchanged DEF NoHandle
  <2> QED  BY <1>6, <2>1, GetHandleReturned, DeleteEntriesReturned DEF DeleteThread
<1>7. CASE (\E m \in Messages : VisibilityTimeout(m)) \/ HandleSignal
  BY <1>7, ReturnedUnchanged DEF VisibilityTimeout, HandleSignal
<1>8. CASE Crash \/ Restart
  BY <1>8, NewWorkerReturned DEF Crash, Restart, ReturnedPublished
<1>9. CASE UNCHANGED vars
  BY <1>9, ReturnedUnchanged DEF vars
<1> QED  BY <1>2, <1>3, <1>4, <1>5, <1>6, <1>7, <1>8, <1>9 DEF Next

LEMMA InitReturned ==
    ASSUME Init
    PROVE  ReturnedPublished
<1> DEFINE none == <<>>
<1>1. ToSet(none) = {}
  BY DEF ToSet
<1>2. \A p \in Publishers : publisher[p].sent = none
  BY IdleTyped DEF Init
<1>3. published_q = none /\ delete_q = none /\ entries = none /\ counted = None
  BY DEF Init
<1> HIDE DEF none
<1> QED  BY <1>1, <1>2, <1>3 DEF Returned, ReturnedPublished

\* The handles on their way back to SQS are those of messages whose events are
\* published, when a message has one event at most (sqs.py, sns.py: a handle is
\* put in published_message_queue after its event).
THEOREM ReturnedInvariant == SingleEvent => (Spec => [](WorkerInv /\ ReturnedPublished))
<1> SUFFICES ASSUME SingleEvent
             PROVE  Spec => [](WorkerInv /\ ReturnedPublished)
  OBVIOUS
<1>1. Init => WorkerInv /\ ReturnedPublished
  BY InitWorkerInv, InitReturned
<1>2. WorkerInv /\ ReturnedPublished /\ [Next]_vars => (WorkerInv /\ ReturnedPublished)'
  BY NextWorkerInv, NextReturned
<1> QED  BY <1>1, <1>2, PTL DEF Spec

-----------------------------------------------------------------------------
(* The worker implements EventDelivery, step by step.                       *)

\* The events of the model are those of the abstract specification.
LEMMA DeliveryEvents ==
    ASSUME NEW P, P \subseteq [message : Messages, index : Nat],
           \A e \in P : e.index \in 1 .. EventCount[e.message]
    PROVE  P \subseteq Delivery!AllEvents
<1> SUFFICES ASSUME NEW e \in P
             PROVE  e \in Delivery!AllEvents
  OBVIOUS
<1>1. e \in [message : Messages, index : Nat] /\ e.index \in 1 .. EventCount[e.message]
  OBVIOUS
<1>2. e.message \in Messages /\ e = [message |-> e.message, index |-> e.index]
  BY <1>1
<1>3. e \in Delivery!Events(e.message)
  BY <1>1, <1>2 DEF Delivery!Events
<1> QED  BY <1>2, <1>3 DEF Delivery!AllEvents

LEMMA DeliveryUnchanged ==
    ASSUME UNCHANGED published,
           \A m \in Messages : sqs'[m] = "deleted" <=> sqs[m] = "deleted"
    PROVE  UNCHANGED <<{m \in Messages : sqs[m] = "deleted"}, published>>
OBVIOUS

LEMMA ReceiveMessagesDelivery ==
    ASSUME TypeOK, ReceiveMessages
    PROVE  \A m \in Messages : sqs'[m] = "deleted" <=> sqs[m] = "deleted"
<1> DEFINE H == {[message |-> m, delivery |-> delivery[m] + 1] :
                   m \in {m \in Messages : sqs[m] = "visible"}}
<1>1. PICK batch \in SetToAllKPermutations(H) :
         sqs' = [m \in Messages |->
                   IF m \in {h.message : h \in ToSet(batch)} THEN "in_flight" ELSE sqs[m]]
  BY DEF ReceiveMessages
<1>2. IsFiniteSet(H)
  <2> DEFINE V == {m \in Messages : sqs[m] = "visible"}
             f == [m \in V |-> [message |-> m, delivery |-> delivery[m] + 1]]
  <2>1. IsFiniteSet(V)
    BY MessagesAssumption, FS_Subset
  <2>2. f \in [V -> H] /\ \A h \in H : \E m \in V : f[m] = h
    OBVIOUS
  <2> HIDE DEF f, V, H
  <2>3. f \in Surjection(V, H)
    BY <2>2, Fun_IsSurj
  <2> QED  BY <2>1, <2>3, FS_Surjection
<1>3. batch \in Seq(H)
  <2> HIDE DEF H
  <2> QED  BY <1>2, Ordered
<1>4. ToSet(batch) \subseteq H
  <2> HIDE DEF H
  <2> QED  BY <1>3 DEF ToSet
<1>5. \A h \in ToSet(batch) : sqs[h.message] = "visible"
  BY <1>4
<1> HIDE DEF H
<1> QED  BY <1>1, <1>5

LEMMA DeleteEntriesDelivery ==
    ASSUME WorkerInv, ReturnedPublished, DeleteEntries \/ CouldNotDelete
    PROVE  Delivery!Delete
<1> DEFINE deleted == {m \in Messages : sqs[m] = "deleted"}
<1>1. PICK D \in SUBSET {h.message : h \in ToSet(entries)} :
         sqs' = [m \in Messages |-> IF m \in D THEN "deleted" ELSE sqs[m]]
  BY DEF DeleteEntries, CouldNotDelete
<1>2. /\ {m \in Messages : sqs[m] = "deleted"}' \subseteq Messages
      /\ {m \in Messages : sqs[m] = "deleted"} \subseteq {m \in Messages : sqs[m] = "deleted"}'
  BY <1>1
<1>3. \A m \in {m \in Messages : sqs[m] = "deleted"}' \ {m \in Messages : sqs[m] = "deleted"} :
         Delivery!Events(m) \subseteq published
  <2> SUFFICES ASSUME NEW m \in Messages, sqs'[m] = "deleted", sqs[m] # "deleted"
               PROVE  Delivery!Events(m) \subseteq published
    OBVIOUS
  <2>1. m \in D
    BY <1>1
  <2>2. PICK h \in ToSet(entries) : h.message = m
    BY <2>1
  <2>3. AllPublished(m)
    BY <2>2 DEF ReturnedPublished, Returned
  <2> QED  BY <2>3 DEF AllPublished, Delivery!Events
<1>4. UNCHANGED published
  BY DEF DeleteEntries, CouldNotDelete
<1> QED  BY <1>2, <1>3, <1>4 DEF Delivery!Delete

\* Each step of the worker is one of EventDelivery, or none.
LEMMA NextDelivery ==
    ASSUME WorkerInv, WorkerInv', ReturnedPublished, [Next]_vars
    PROVE  [Delivery!Publish \/ Delivery!Delete]_<<{m \in Messages : sqs[m] = "deleted"}, published>>
<1>1. TypeOK /\ TypeOK'
  BY DEF WorkerInv
<1>2. CASE ReceiveThread
  BY <1>1, <1>2, ReceiveMessagesDelivery, DeliveryUnchanged
  DEF ReceiveThread, ReceiveMessages, QueueMessage, StopReceiving
<1>3. CASE RunLoop \/ GeneratorFails
  BY <1>3, DeliveryUnchanged
  DEF RunLoop, GetMessage, NoMessage, GenerateEvent, QueueEvent, EndOfEvents, QueueEmptyMessage,
      GeneratorFails, GracefulStop, Join
<1>4. ASSUME NEW p \in Publishers, PublishThread(p)
      PROVE  \/ UNCHANGED <<{m \in Messages : sqs[m] = "deleted"}, published>>
             \/ Delivery!Publish
  <2>1. CASE Publish(p)
    <3>1. published \subseteq published' /\ UNCHANGED sqs
      BY <2>1 DEF Publish
    <3>2. published' \subseteq Delivery!AllEvents
      <4>1. /\ published' \subseteq [message : Messages, index : Nat]
            /\ \A e \in published' : e.index \in 1 .. EventCount[e.message]
        BY <1>1 DEF TypeOK
      <4> QED  BY <4>1, DeliveryEvents
    <3> QED  BY <3>1, <3>2 DEF Delivery!Publish
  <2> QED  BY <1>4, <2>1, DeliveryUnchanged DEF PublishThread, GetEvent, PutPublished, NoEvent
<1>5. CASE FinalThread
  BY <1>5, DeliveryUnchanged DEF FinalThread, GetPublished, QueuePublishedMessage, NoPublished
<1>6. CASE DeleteThread \/ CouldNotDelete
  BY <1>6, DeleteEntriesDelivery, DeliveryUnchanged DEF DeleteThread, GetHandle, NoHandle
<1>7. CASE (\E m \in Messages : VisibilityTimeout(m)) \/ HandleSignal
  BY <1>1, <1>7, DeliveryUnchanged DEF VisibilityTimeout, HandleSignal, TypeOK
<1>8. CASE Crash \/ Restart
  BY <1>8, DeliveryUnchanged DEF Crash, Restart
<1>9. CASE UNCHANGED vars
  BY <1>9, DeliveryUnchanged DEF vars
<1> QED  BY <1>2, <1>3, <1>4, <1>5, <1>6, <1>7, <1>8, <1>9 DEF Next

\* The worker implements EventDelivery when a message has one event at most: it
\* deletes a message (sqs.py, delete_message_batch) once its event is published,
\* whatever is received twice, lost, evicted or restarted.
THEOREM WorkerDelivers == SingleEvent => (Spec => EventsDelivered)
<1> SUFFICES ASSUME SingleEvent
             PROVE  Spec => EventsDelivered
  OBVIOUS
<1>1. Init => Delivery!Init
  BY DEF Init, Delivery!Init
<1>2. /\ WorkerInv /\ ReturnedPublished /\ (WorkerInv /\ ReturnedPublished)' /\ [Next]_vars
      => [Delivery!Publish \/ Delivery!Delete]_<<{m \in Messages : sqs[m] = "deleted"}, published>>
  BY NextDelivery
<1>3. Spec => [](WorkerInv /\ ReturnedPublished)
  BY ReturnedInvariant
<1> QED  BY <1>1, <1>2, <1>3, PTL DEF Spec, EventsDelivered, Delivery!Spec

\* A message is deleted only when its event is published.
THEOREM DeletedArePublished == SingleEvent => (Spec => []DeletedPublished)
<1> SUFFICES ASSUME SingleEvent
             PROVE  Spec => []DeletedPublished
  OBVIOUS
<1>1. Init => DeletedPublished
  BY DEF Init, DeletedPublished
<1>2. DeletedPublished /\ [Delivery!Publish \/ Delivery!Delete]_<<{m \in Messages : sqs[m] = "deleted"}, published>>
      => DeletedPublished'
  <2> SUFFICES ASSUME DeletedPublished,
                      [Delivery!Publish \/ Delivery!Delete]_<<{m \in Messages : sqs[m] = "deleted"}, published>>,
                      NEW m \in Messages, sqs'[m] = "deleted"
               PROVE  AllPublished(m)'
    BY DEF DeletedPublished
  <2>1. published \subseteq published'
    BY DEF Delivery!Publish, Delivery!Delete
  <2>2. AllPublished(m)
    <3>1. CASE sqs[m] = "deleted"
      BY <3>1 DEF DeletedPublished
    <3>2. CASE sqs[m] # "deleted"
      <4>1. Delivery!Delete
        BY <3>2 DEF Delivery!Publish
      <4>2. Delivery!Events(m) \subseteq published
        BY <3>2, <4>1 DEF Delivery!Delete
      <4> QED  BY <4>2 DEF AllPublished, Delivery!Events
    <3> QED  BY <3>1, <3>2
  <2> QED  BY <2>1, <2>2 DEF AllPublished
<1>3. Spec => EventsDelivered
  BY WorkerDelivers
<1> QED  BY <1>1, <1>2, <1>3, PTL DEF Spec, EventsDelivered, Delivery!Spec

-----------------------------------------------------------------------------
(* Counting the events under way: a handle, and a part of the worker at a   *)
(* time.                                                                    *)

LEMMA Disjoint ==
    ASSUME NEW A, IsFiniteSet(A), NEW B, IsFiniteSet(B), A \cap B = {}
    PROVE  /\ IsFiniteSet(A \cup B)
           /\ Cardinality(A) \in Nat /\ Cardinality(B) \in Nat
           /\ Cardinality(A \cup B) = Cardinality(A) + Cardinality(B)
<1>1. Cardinality(A) \in Nat /\ Cardinality(B) \in Nat /\ Cardinality(A \cap B) = 0
  BY FS_CardinalityType, FS_EmptySet
<1>2. /\ IsFiniteSet(A \cup B)
      /\ Cardinality(A \cup B) = Cardinality(A) + Cardinality(B) - Cardinality(A \cap B)
  BY FS_Union
<1> QED  BY <1>1, <1>2

\* The places that remain when the first one is taken.
LEMMA Shifted ==
    ASSUME NEW A, IsFiniteSet(A), NEW B, NEW x, NEW f \in [B -> A],
           \A b, c \in B : f[b] = f[c] => b = c,
           \A b \in B : f[b] # x
    PROVE  /\ IsFiniteSet(B) /\ Cardinality(A) \in Nat /\ Cardinality(B) \in Nat
           /\ Cardinality(B) + (IF x \in A THEN 1 ELSE 0) <= Cardinality(A)
<1>1. Cardinality(A) \in Nat
  BY FS_CardinalityType
<1>2. /\ IsFiniteSet(A \ {x})
      /\ Cardinality(A \ {x}) = IF x \in A THEN Cardinality(A) - 1 ELSE Cardinality(A)
  BY FS_RemoveElement
<1>3. f \in Injection(B, A \ {x})
  <2>1. f \in [B -> A \ {x}]
    OBVIOUS
  <2> QED  BY <2>1, Fun_IsInj
<1>4. IsFiniteSet(B) /\ Cardinality(B) <= Cardinality(A \ {x})
  BY <1>2, <1>3, FS_Injection
<1>5. Cardinality(B) \in Nat
  BY <1>4, FS_CardinalityType
<1> QED  BY <1>1, <1>2, <1>4, <1>5

LEMMA OneMore ==
    ASSUME NEW A, IsFiniteSet(A), NEW x, NEW B, B \subseteq A \cup {x}
    PROVE  /\ IsFiniteSet(B) /\ Cardinality(A) \in Nat /\ Cardinality(B) \in Nat
           /\ Cardinality(B) <= Cardinality(A) + 1
<1>1. Cardinality(A) \in Nat
  BY FS_CardinalityType
<1>2. IsFiniteSet(A \cup {x}) /\ Cardinality(A \cup {x}) <= Cardinality(A) + 1
  <2> DEFINE s == Cardinality(A \cup {x})
             n == Cardinality(A)
  <2>1. IsFiniteSet(A \cup {x}) /\ s = IF x \in A THEN n ELSE n + 1
    BY FS_AddElement
  <2>2. n \in Nat
    BY <1>1
  <2> HIDE DEF s, n
  <2>3. s <= n + 1
    BY <2>1, <2>2
  <2> QED  BY <2>1, <2>3 DEF s, n
<1>3. IsFiniteSet(B) /\ Cardinality(B) <= Cardinality(A \cup {x})
  BY <1>2, FS_Subset
<1>4. Cardinality(B) \in Nat /\ Cardinality(A \cup {x}) \in Nat
  BY <1>2, <1>3, FS_CardinalityType
<1> QED  BY <1>1, <1>2, <1>3, <1>4

LEMMA Fewer ==
    ASSUME NEW A, IsFiniteSet(A), NEW B, B \subseteq A
    PROVE  /\ IsFiniteSet(B) /\ Cardinality(A) \in Nat /\ Cardinality(B) \in Nat
           /\ Cardinality(B) <= Cardinality(A)
<1>1. IsFiniteSet(B) /\ Cardinality(B) <= Cardinality(A)
  BY FS_Subset
<1> QED  BY <1>1, FS_CardinalityType

LEMMA FiniteParts ==
    ASSUME TypeOK, NEW h
    PROVE  /\ IsFiniteSet(Queued(h)) /\ IsFiniteSet(InBatch(h))
           /\ IsFiniteSet(Sent(h)) /\ IsFiniteSet(Published(h))
           /\ Cardinality(Queued(h)) \in Nat /\ Cardinality(InBatch(h)) \in Nat
           /\ Cardinality(Sent(h)) \in Nat /\ Cardinality(Published(h)) \in Nat
<1>1. IsFiniteSet(Publishers \X (1 .. BatchSize))
  <2>1. IsFiniteSet(1 .. BatchSize)
    BY SizeAssumption, FS_Interval
  <2> QED  BY <2>1, PublishersAssumption, FS_Product
<1>2. IsFiniteSet(InBatch(h)) /\ IsFiniteSet(Sent(h))
  <2>1. InBatch(h) \subseteq Publishers \X (1 .. BatchSize)
    BY DEF InBatch
  <2>2. Sent(h) \subseteq Publishers \X (1 .. BatchSize)
    BY DEF Sent
  <2> QED  BY <1>1, <2>1, <2>2, FS_Subset
<1>3. IsFiniteSet(Queued(h)) /\ IsFiniteSet(Published(h))
  <2>1. /\ DOMAIN publish_q = 1 .. Len(publish_q) /\ Len(publish_q) \in Nat
        /\ DOMAIN published_q = 1 .. Len(published_q) /\ Len(published_q) \in Nat
    BY DEF TypeOK, SeqUpTo
  <2>2. IsFiniteSet(DOMAIN publish_q) /\ IsFiniteSet(DOMAIN published_q)
    BY <2>1, FS_Interval
  <2>3. Queued(h) \subseteq DOMAIN publish_q /\ Published(h) \subseteq DOMAIN published_q
    BY DEF Queued, Published
  <2> QED  BY <2>2, <2>3, FS_Subset
<1> QED  BY <1>2, <1>3, FS_CardinalityType

CountsInv == WorkerInv /\ \A h \in Handle : UncountedEvents(h) <= Count(h)

LEMMA CountIsNat ==
    ASSUME TypeOK, NEW h
    PROVE  Count(h) \in Nat /\ Count(h) = CountOf(in_flight, h)
BY CountIs, CountTyped DEF TypeOK, InFlightOK

\* The step of a thread that neither moves nor counts an event.
LEMMA CountsUnchanged ==
    ASSUME CountsInv, UNCHANGED <<in_flight, publish_q, published_q>>,
           main # "publish", main' # "publish",
           \A p \in Publishers :
             publisher'[p].events = publisher[p].events /\ publisher'[p].sent = publisher[p].sent
    PROVE  \A h \in Handle : UncountedEvents(h)' <= Count(h)'
<1> SUFFICES ASSUME NEW h \in Handle
             PROVE  UncountedEvents(h)' <= Count(h)'
  OBVIOUS
<1>1. Count(h)' = Count(h)
  BY DEF Count, Known, Position
<1>2. /\ Queued(h)' = Queued(h) /\ Published(h)' = Published(h)
      /\ InBatch(h)' = InBatch(h) /\ Sent(h)' = Sent(h)
  BY DEF Queued, Published, InBatch, Sent
<1>3. UncountedEvents(h)' = UncountedEvents(h)
  BY <1>2 DEF UncountedEvents
<1> QED  BY <1>1, <1>3 DEF CountsInv

LEMMA CountsSame ==
    ASSUME CountsInv, UNCHANGED <<in_flight, publish_q, published_q>>,
           UNCHANGED <<main, current>>,
           \A p \in Publishers :
             publisher'[p].events = publisher[p].events /\ publisher'[p].sent = publisher[p].sent
    PROVE  \A h \in Handle : UncountedEvents(h)' <= Count(h)'
<1> SUFFICES ASSUME NEW h \in Handle
             PROVE  UncountedEvents(h)' <= Count(h)'
  OBVIOUS
<1>1. Count(h)' = Count(h)
  BY DEF Count, Known, Position
<1>2. /\ Queued(h)' = Queued(h) /\ Published(h)' = Published(h)
      /\ InBatch(h)' = InBatch(h) /\ Sent(h)' = Sent(h)
  BY DEF Queued, Published, InBatch, Sent
<1>3. UncountedEvents(h)' = UncountedEvents(h)
  BY <1>2 DEF UncountedEvents
<1> QED  BY <1>1, <1>3 DEF CountsInv

\* Incremented, as the lists of the handles that remain.
LEMMA IncrementCounts ==
    ASSUME InFlightOK(in_flight), current \in Handle
    PROVE  /\ CountOf(Incremented(current), current) = Count(current) + 1
           /\ \A g : g # current /\ g \notin Evicted =>
                CountOf(Incremented(current), g) = Count(g)
<1> DEFINE h == current
           r == MovedToEnd(h, Count(h) + 1)
<1>1. Count(h) + 1 \in Nat \ {0}
  BY CountIs, CountTyped DEF InFlightOK
<1>2. /\ r \in Seq(Entry) /\ Keyed(r) /\ r # <<>>
      /\ CountOf(r, h) = Count(h) + 1
      /\ \A g : g # h => CountOf(r, g) = CountOf(in_flight, g)
  BY <1>1, MovedLast DEF InFlightOK
<1>3. /\ Incremented(h) = IF Len(r) > MaxInFlight THEN Tail(r) ELSE r
      /\ Evicted = IF Len(r) > MaxInFlight THEN {Head(r).handle} ELSE {}
  BY DEF Incremented, Evicted
<1>4. r[Len(r)].handle = h
  <2> DEFINE o == Others(h)
             e == [handle |-> h, count |-> Count(h) + 1]
  <2>1. o \in Seq(Entry) /\ e \in Entry /\ r = Append(o, e)
    BY <1>1, OthersKept DEF MovedToEnd, InFlightOK, Entry
  <2>2. e.handle = h
    OBVIOUS
  <2> HIDE DEF o, e, r
  <2>3. r[Len(r)] = e
    BY <2>1
  <2> QED  BY <2>2, <2>3
<1> HIDE DEF r
<1>5. ASSUME Len(r) > MaxInFlight
      PROVE  Head(r).handle # h
  <2>1. MaxInFlight \in Nat \ {0} /\ Len(r) \in Nat
    BY <1>2, SizeAssumption
  <2>2. Len(r) # 1 /\ 1 \in DOMAIN r /\ Len(r) \in DOMAIN r /\ Head(r) = r[1]
    BY <1>2, <1>5, <2>1
  <2> QED  BY <1>2, <1>4, <2>2 DEF Keyed
<1>6. \A g : g # Head(r).handle => CountOf(Tail(r), g) = CountOf(r, g)
  BY <1>2, OldestEvicted
<1>7. \A g : Count(g) = CountOf(in_flight, g)
  BY CountIs
<1>8. CASE Len(r) > MaxInFlight
  BY <1>2, <1>3, <1>5, <1>6, <1>7, <1>8
<1>9. CASE ~(Len(r) > MaxInFlight)
  BY <1>2, <1>3, <1>7, <1>9
<1> QED  BY <1>8, <1>9

LEMMA CountNext ==
    ASSUME NEW h
    PROVE  Count(h)' = CountOf(in_flight', h)
BY DEF Count, CountOf, Known, Position

LEMMA GenerateEventCounts ==
    ASSUME CountsInv, EvictsUnused, GenerateEvent
    PROVE  \A h \in Handle : UncountedEvents(h)' <= Count(h)'
<1> SUFFICES ASSUME NEW h \in Handle
             PROVE  UncountedEvents(h)' <= Count(h)'
  OBVIOUS
<1>1. TypeOK /\ ThreadsInv
  BY DEF CountsInv, WorkerInv
<1>2. current \in Handle /\ InFlightOK(in_flight)
  BY <1>1, NoneAssumption DEF TypeOK, ThreadsInv, GenerateEvent
<1>3. Count(h) \in Nat /\ UncountedEvents(h) <= Count(h)
  BY <1>1, CountIsNat DEF CountsInv
<1>4. /\ main = "generate" /\ main' = "publish" /\ current' = current
      /\ UNCHANGED <<publish_q, publisher, published_q>>
      /\ in_flight' = Incremented(current)
  BY DEF GenerateEvent
<1>5. /\ Queued(h)' = Queued(h) /\ Published(h)' = Published(h)
      /\ InBatch(h)' = InBatch(h) /\ Sent(h)' = Sent(h)
  BY <1>4 DEF Queued, Published, InBatch, Sent
<1>6. /\ UncountedEvents(h) \in Nat
      /\ UncountedEvents(h)' = UncountedEvents(h) + IF h = current THEN 1 ELSE 0
  BY <1>1, <1>4, <1>5, FiniteParts DEF UncountedEvents
<1>7. CASE h = current
  <2>1. Count(h)' = Count(h) + 1
    BY <1>2, <1>4, <1>7, IncrementCounts, CountNext
  <2> QED  BY <1>3, <1>6, <1>7, <2>1
<1>8. CASE h # current /\ h \notin Evicted
  <2>1. Count(h)' = Count(h)
    BY <1>2, <1>4, <1>8, IncrementCounts, CountNext
  <2> QED  BY <1>3, <1>6, <1>8, <2>1
<1>9. CASE h # current /\ h \in Evicted
  <2>1. UncountedEvents(h) = 0
    BY <1>4, <1>9 DEF EvictsUnused
  <2>2. Count(h)' \in Nat
    <3>1. InFlightOK(in_flight')
      BY <1>2, <1>4, Increment
    <3> QED  BY <3>1, CountNext, CountTyped DEF InFlightOK
  <2> QED  BY <1>6, <1>9, <2>1, <2>2
<1> QED  BY <1>7, <1>8, <1>9

LEMMA QueueEventCounts ==
    ASSUME CountsInv, QueueEvent
    PROVE  \A h \in Handle : UncountedEvents(h)' <= Count(h)'
<1> SUFFICES ASSUME NEW h \in Handle
             PROVE  UncountedEvents(h)' <= Count(h)'
  OBVIOUS
<1> DEFINE x == [handle |-> current, index |-> generated]
<1>1. TypeOK /\ ThreadsInv
  BY DEF CountsInv, WorkerInv
<1>2. x \in Event /\ x.handle = current
  BY <1>1, NoneAssumption DEF TypeOK, ThreadsInv, QueueEvent, Event
<1>3. publish_q \in Seq(Event) /\ publish_q' = Append(publish_q, x)
  BY <1>1 DEF TypeOK, SeqUpTo, QueueEvent
<1>4. /\ main = "publish" /\ main' = "generate"
      /\ UNCHANGED <<in_flight, publisher, published_q>>
  BY DEF QueueEvent
<1> HIDE DEF x
<1>5. /\ DOMAIN publish_q' = DOMAIN publish_q \cup {Len(publish_q) + 1}
      /\ publish_q'[Len(publish_q) + 1] = x
      /\ \A i \in DOMAIN publish_q : publish_q'[i] = publish_q[i]
  BY <1>2, <1>3, Appended
<1>6. /\ Queued(h)' \subseteq Queued(h) \cup {Len(publish_q) + 1}
      /\ h # current => Queued(h)' \subseteq Queued(h)
  BY <1>2, <1>5 DEF Queued
<1>7. /\ Published(h)' = Published(h)
      /\ InBatch(h)' = InBatch(h) /\ Sent(h)' = Sent(h)
  BY <1>4 DEF Published, InBatch, Sent
<1>8. /\ IsFiniteSet(Queued(h))
      /\ Cardinality(Queued(h)) \in Nat /\ Cardinality(InBatch(h)) \in Nat
      /\ Cardinality(Sent(h)) \in Nat /\ Cardinality(Published(h)) \in Nat
  BY <1>1, FiniteParts
<1>9. /\ Cardinality(Queued(h)') \in Nat
      /\ Cardinality(Queued(h)') <= Cardinality(Queued(h)) + 1
      /\ h # current => Cardinality(Queued(h)') <= Cardinality(Queued(h))
  BY <1>6, <1>8, OneMore, Fewer
<1>10. UncountedEvents(h)' =
         Cardinality(Queued(h)') + Cardinality(InBatch(h)) + Cardinality(Sent(h))
         + Cardinality(Published(h))
  BY <1>4, <1>7, <1>8, <1>9 DEF UncountedEvents
<1>11. UncountedEvents(h) =
         (IF h = current THEN 1 ELSE 0)
         + Cardinality(Queued(h)) + Cardinality(InBatch(h)) + Cardinality(Sent(h))
         + Cardinality(Published(h))
  BY <1>4 DEF UncountedEvents
<1>12. Count(h) \in Nat /\ UncountedEvents(h) <= Count(h)
  BY <1>1, CountIsNat DEF CountsInv
<1>13. Count(h)' = Count(h)
  BY <1>4 DEF Count, Known, Position
<1> QED  BY <1>8, <1>9, <1>10, <1>11, <1>12, <1>13

\* The events of a handle, part by part, before a step of a publish thread or
\* of the final thread, that neither generates an event nor puts it in its queue.
LEMMA Moved ==
    ASSUME CountsInv, NEW h \in Handle, UNCHANGED <<main, current>>,
           NEW q \in Nat, NEW b \in Nat, NEW s \in Nat, NEW f \in Nat,
           q = Cardinality(Queued(h)'), b = Cardinality(InBatch(h)'),
           s = Cardinality(Sent(h)'), f = Cardinality(Published(h)'),
           NEW d \in Nat, Count(h)' = Count(h) - d,
           q + b + s + f + d <= Cardinality(Queued(h)) + Cardinality(InBatch(h))
                                + Cardinality(Sent(h)) + Cardinality(Published(h))
    PROVE  UncountedEvents(h)' <= Count(h)'
<1> DEFINE e == IF main = "publish" /\ current = h THEN 1 ELSE 0
<1>1. TypeOK
  BY DEF CountsInv, WorkerInv
<1>2. /\ Cardinality(Queued(h)) \in Nat /\ Cardinality(InBatch(h)) \in Nat
      /\ Cardinality(Sent(h)) \in Nat /\ Cardinality(Published(h)) \in Nat
  BY <1>1, FiniteParts
<1>3. e \in Nat
  OBVIOUS
<1>4. UncountedEvents(h)' = e + q + b + s + f
  BY DEF UncountedEvents
<1>5. UncountedEvents(h) = e + Cardinality(Queued(h)) + Cardinality(InBatch(h))
                           + Cardinality(Sent(h)) + Cardinality(Published(h))
  BY DEF UncountedEvents
<1>6. Count(h) \in Nat /\ UncountedEvents(h) <= Count(h)
  BY <1>1, CountIsNat DEF CountsInv
<1> HIDE DEF e
<1> QED  BY <1>2, <1>3, <1>4, <1>5, <1>6

LEMMA CountStays ==
    ASSUME TypeOK, NEW h, UNCHANGED in_flight
    PROVE  Count(h)' = Count(h) - 0 /\ 0 \in Nat
<1>1. Count(h)' = Count(h)
  BY DEF Count, Known, Position
<1>2. Count(h) \in Nat
  BY CountIsNat
<1> QED  BY <1>1, <1>2

LEMMA GetEventCounts ==
    ASSUME CountsInv, NEW p \in Publishers, GetEvent(p)
    PROVE  \A h \in Handle : UncountedEvents(h)' <= Count(h)'
<1> SUFFICES ASSUME NEW h \in Handle
             PROVE  UncountedEvents(h)' <= Count(h)'
  OBVIOUS
<1>1. TypeOK
  BY DEF CountsInv, WorkerInv
<1> DEFINE x == Head(publish_q)
           e == publisher[p].events
           n == Len(e) + 1
           one == IF x.handle = h THEN 1 ELSE 0
<1>2. PICK r \in Publisher :
         /\ publisher' = [publisher EXCEPT ![p] = r]
         /\ r.events = Append(e, x) /\ r.sent = publisher[p].sent
         /\ x \in Event /\ publish_q # <<>> /\ publish_q \in Seq(Event)
         /\ e \in Seq(Event)
         /\ Len(r.events) <= BatchSize /\ Len(r.events) = Len(e) + 1
  BY <1>1, GetEventStep
<1>3. /\ publish_q' = Tail(publish_q)
      /\ UNCHANGED <<main, current, in_flight, published_q>>
  BY DEF GetEvent
<1>4. /\ x = publish_q[1] /\ 1 \in DOMAIN publish_q
      /\ \A i \in DOMAIN publish_q' :
           i \in Nat \ {0} /\ i + 1 \in DOMAIN publish_q /\ publish_q'[i] = publish_q[i + 1]
  BY <1>2, <1>3, Tailed
<1>5. /\ IsFiniteSet(Queued(h)) /\ IsFiniteSet(InBatch(h))
      /\ Cardinality(Queued(h)) \in Nat /\ Cardinality(InBatch(h)) \in Nat
      /\ Cardinality(Sent(h)) \in Nat /\ Cardinality(Published(h)) \in Nat
  BY <1>1, FiniteParts
<1>6. Cardinality(Queued(h)') \in Nat /\ Cardinality(Queued(h)') + one <= Cardinality(Queued(h))
  <2> DEFINE A == Queued(h)
             B == {i \in DOMAIN publish_q' : publish_q'[i].handle = h}
             f == [i \in B |-> i + 1]
  <2>1. f \in [B -> A]
    BY <1>4 DEF Queued
  <2>2. \A i, j \in B : f[i] = f[j] => i = j
    BY <1>4
  <2>3. \A i \in B : f[i] # 1
    BY <1>4
  <2>4. 1 \in A <=> x.handle = h
    BY <1>4 DEF Queued
  <2>5. Queued(h)' = B
    BY DEF Queued
  <2> HIDE DEF A, B, f, x
  <2>6. Cardinality(B) \in Nat /\ Cardinality(B) + (IF 1 \in A THEN 1 ELSE 0) <= Cardinality(A)
    BY <1>5, <2>1, <2>2, <2>3, Shifted DEF A
  <2> QED  BY <2>4, <2>5, <2>6 DEF A
<1> HIDE DEF x, e
<1>7. /\ DOMAIN r.events = DOMAIN e \cup {n}
      /\ r.events[n] = x
      /\ \A i \in DOMAIN e : r.events[i] = e[i]
  BY <1>2, Appended
<1>8. \A q \in Publishers : publisher'[q] = IF q = p THEN r ELSE publisher[q]
  BY <1>1, <1>2 DEF TypeOK
<1>9. /\ InBatch(h)' \subseteq InBatch(h) \cup {<<p, n>>}
      /\ x.handle # h => InBatch(h)' \subseteq InBatch(h)
  BY <1>7, <1>8 DEF InBatch, e
<1>10. /\ Cardinality(InBatch(h)') \in Nat
       /\ Cardinality(InBatch(h)') <= Cardinality(InBatch(h)) + one
  <2>1. CASE x.handle = h
    BY <1>5, <1>9, <2>1, OneMore
  <2>2. CASE x.handle # h
    BY <1>5, <1>9, <2>2, Fewer
  <2> QED  BY <2>1, <2>2
<1>11. Published(h)' = Published(h) /\ Sent(h)' = Sent(h)
  <2>1. \A q \in Publishers : publisher'[q].sent = publisher[q].sent
    BY <1>2, <1>8
  <2> QED  BY <1>3, <2>1 DEF Published, Sent
<1>12. Count(h)' = Count(h) - 0 /\ 0 \in Nat
  BY <1>1, <1>3, CountStays
<1>13. one \in Nat
  OBVIOUS
<1> HIDE DEF one
<1>14. Cardinality(Queued(h)') + Cardinality(InBatch(h)') + Cardinality(Sent(h)')
       + Cardinality(Published(h)') + 0
       <= Cardinality(Queued(h)) + Cardinality(InBatch(h)) + Cardinality(Sent(h))
          + Cardinality(Published(h))
  BY <1>5, <1>6, <1>10, <1>11, <1>13
<1> QED  BY <1>3, <1>5, <1>6, <1>10, <1>11, <1>12, <1>14, Moved

LEMMA PublishCounts ==
    ASSUME CountsInv, NEW p \in Publishers, Publish(p)
    PROVE  \A h \in Handle : UncountedEvents(h)' <= Count(h)'
<1> SUFFICES ASSUME NEW h \in Handle
             PROVE  UncountedEvents(h)' <= Count(h)'
  OBVIOUS
<1> DEFINE e == publisher[p].events
           none == <<>>
<1>1. TypeOK /\ WorkerInv
  BY DEF CountsInv, WorkerInv
<1>2. e \in Seq(Event) /\ Len(e) <= BatchSize /\ publisher[p].sent = none
  BY <1>1, PublishStep
<1>3. PICK sent \in Seq(DOMAIN e), r \in Publisher :
         /\ r.events = none
         /\ r.sent = [i \in DOMAIN sent |-> e[sent[i]].handle]
         /\ publisher' = [publisher EXCEPT ![p] = r]
         /\ \A i, j \in DOMAIN sent : sent[i] = sent[j] => i = j
  <2>1. PICK sent \in Seq(DOMAIN e) :
           LET r == [pc |-> IF sent = <<>> THEN publisher[p].pc ELSE "put",
                     next |-> publisher[p].pc, events |-> <<>>,
                     sent |-> [i \in DOMAIN sent |-> e[sent[i]].handle]]
           IN  /\ publisher' = [publisher EXCEPT ![p] = r]
               /\ r \in Publisher
               /\ \A i, j \in DOMAIN sent : sent[i] = sent[j] => i = j
    BY <1>1, PublishStep
  <2> DEFINE hs == [i \in DOMAIN sent |-> e[sent[i]].handle]
             pc == IF sent = <<>> THEN publisher[p].pc ELSE "put"
             r == [pc |-> pc, next |-> publisher[p].pc, events |-> none, sent |-> hs]
  <2>2. r.events = none /\ r.sent = hs
    OBVIOUS
  <2>3. /\ publisher' = [publisher EXCEPT ![p] = r] /\ r \in Publisher
        /\ \A i, j \in DOMAIN sent : sent[i] = sent[j] => i = j
    BY <2>1
  <2> HIDE DEF r
  <2> QED  BY <2>2, <2>3
<1>4. UNCHANGED <<main, current, in_flight, publish_q, published_q>>
  BY DEF Publish
<1>5. \A q \in Publishers : publisher'[q] = IF q = p THEN r ELSE publisher[q]
  BY <1>1, <1>3 DEF TypeOK
<1>6. /\ IsFiniteSet(InBatch(h)) /\ IsFiniteSet(Sent(h))
      /\ Cardinality(Queued(h)) \in Nat /\ Cardinality(InBatch(h)) \in Nat
      /\ Cardinality(Sent(h)) \in Nat /\ Cardinality(Published(h)) \in Nat
  BY <1>1, FiniteParts
<1>7. DOMAIN none = {} /\ \A i \in DOMAIN e : i \in 1 .. BatchSize
  <2>1. DOMAIN e = 1 .. Len(e) /\ Len(e) \in Nat /\ BatchSize \in Nat
    BY <1>2, SizeAssumption
  <2> QED  BY <1>2, <2>1
<1> DEFINE B == {b \in InBatch(h) : b[1] = p}
           B0 == {b \in InBatch(h) : b[1] # p}
           S == {b \in Publishers \X (1 .. BatchSize) :
                   b[1] = p /\ b[2] \in DOMAIN sent /\ e[sent[b[2]]].handle = h}
<1>8. InBatch(h)' = B0
  BY <1>3, <1>5, <1>7 DEF InBatch
<1>9. Sent(h)' = Sent(h) \cup S
  <2>1. \A b \in Sent(h) : b[1] # p
    BY <1>2, <1>7 DEF Sent
  <2>2. ASSUME NEW b \in Publishers \X (1 .. BatchSize)
        PROVE  b \in Sent(h)' <=> b \in Sent(h) \cup S
    <3>1. CASE b[1] = p
      <4>1. publisher'[b[1]].sent = [i \in DOMAIN sent |-> e[sent[i]].handle]
        BY <1>3, <1>5, <3>1
      <4>2. b \in Sent(h)' <=> b[2] \in DOMAIN sent /\ e[sent[b[2]]].handle = h
        BY <4>1, <2>2 DEF Sent
      <4> QED  BY <2>1, <3>1, <4>2
    <3>2. CASE b[1] # p
      <4>1. publisher'[b[1]] = publisher[b[1]]
        BY <1>5, <3>2, <2>2
      <4>2. b \in Sent(h)' <=> b \in Sent(h)
        BY <4>1 DEF Sent
      <4> QED  BY <3>2, <4>2
    <3> QED  BY <3>1, <3>2
  <2>3. Sent(h)' \subseteq Publishers \X (1 .. BatchSize)
    BY DEF Sent
  <2>4. Sent(h) \cup S \subseteq Publishers \X (1 .. BatchSize)
    BY DEF Sent
  <2> HIDE DEF S
  <2> QED  BY <2>2, <2>3, <2>4
<1>10. Sent(h) \cap S = {}
  BY <1>2, <1>7 DEF Sent
<1>11. IsFiniteSet(B) /\ IsFiniteSet(B0) /\ B \cap B0 = {} /\ B \cup B0 = InBatch(h)
  BY <1>6, FS_Subset
<1>12. IsFiniteSet(S) /\ Cardinality(S) \in Nat /\ Cardinality(S) <= Cardinality(B)
  <2> DEFINE f == [b \in S |-> <<p, sent[b[2]]>>]
  <2>1. f \in [S -> B]
    <3> SUFFICES ASSUME NEW b \in S
                 PROVE  <<p, sent[b[2]]>> \in B
      OBVIOUS
    <3>1. sent[b[2]] \in DOMAIN e /\ e[sent[b[2]]].handle = h
      OBVIOUS
    <3>2. <<p, sent[b[2]]>> \in Publishers \X (1 .. BatchSize)
      BY <1>7, <3>1
    <3> QED  BY <3>1, <3>2 DEF InBatch
  <2>2. \A b, c \in S : f[b] = f[c] => b = c
    <3> SUFFICES ASSUME NEW b \in S, NEW c \in S, sent[b[2]] = sent[c[2]]
                 PROVE  b = c
      OBVIOUS
    <3>1. b[2] = c[2] /\ b[1] = c[1]
      BY <1>3
    <3> QED  BY <3>1
  <2> HIDE DEF f, S, B
  <2>3. f \in Injection(S, B)
    BY <2>1, <2>2, Fun_IsInj
  <2>4. IsFiniteSet(S) /\ Cardinality(S) <= Cardinality(B)
    BY <1>11, <2>3, FS_Injection
  <2> QED  BY <2>4, FS_CardinalityType
<1> HIDE DEF B, B0, S
<1>13. /\ Cardinality(B) \in Nat /\ Cardinality(B0) \in Nat
       /\ Cardinality(InBatch(h)) = Cardinality(B) + Cardinality(B0)
  BY <1>11, Disjoint
<1>14. /\ Cardinality(Sent(h)') \in Nat
       /\ Cardinality(Sent(h)') = Cardinality(Sent(h)) + Cardinality(S)
  <2>1. Cardinality(Sent(h) \cup S) = Cardinality(Sent(h)) + Cardinality(S)
    BY <1>6, <1>10, <1>12, Disjoint
  <2>2. Cardinality(Sent(h)') = Cardinality(Sent(h)) + Cardinality(S)
    BY <1>9, <2>1
  <2> QED  BY <1>6, <1>12, <2>2
<1>15. Queued(h)' = Queued(h) /\ Published(h)' = Published(h)
  BY <1>4 DEF Queued, Published
<1>16. Count(h)' = Count(h) - 0 /\ 0 \in Nat
  BY <1>1, <1>4, CountStays
<1>17. Cardinality(Queued(h)') + Cardinality(InBatch(h)') + Cardinality(Sent(h)')
       + Cardinality(Published(h)') + 0
       <= Cardinality(Queued(h)) + Cardinality(InBatch(h)) + Cardinality(Sent(h))
          + Cardinality(Published(h))
  BY <1>6, <1>8, <1>12, <1>13, <1>14, <1>15
<1> QED  BY <1>4, <1>6, <1>8, <1>13, <1>14, <1>15, <1>16, <1>17, Moved

LEMMA PutPublishedCounts ==
    ASSUME CountsInv, NEW p \in Publishers, PutPublished(p)
    PROVE  \A h \in Handle : UncountedEvents(h)' <= Count(h)'
<1> SUFFICES ASSUME NEW h \in Handle
             PROVE  UncountedEvents(h)' <= Count(h)'
  OBVIOUS
<1> DEFINE s == publisher[p].sent
           x == Head(s)
           n == Len(published_q) + 1
           one == IF x = h THEN 1 ELSE 0
<1>1. TypeOK /\ WorkerInv
  BY DEF CountsInv, WorkerInv
<1>2. PICK r \in Publisher :
         /\ publisher' = [publisher EXCEPT ![p] = r]
         /\ r.events = publisher[p].events /\ r.sent = Tail(s)
         /\ s \in Seq(Handle) /\ s # <<>>
  BY <1>1, PutPublishedStep
<1>3. /\ published_q' = Append(published_q, x)
      /\ UNCHANGED <<main, current, in_flight, publish_q>>
  BY DEF PutPublished
<1>4. /\ x \in Handle /\ x = s[1] /\ 1 \in DOMAIN s
      /\ \A i \in DOMAIN r.sent : i \in Nat \ {0} /\ i + 1 \in DOMAIN s /\ r.sent[i] = s[i + 1]
  BY <1>2, Tailed
<1>5. /\ IsFiniteSet(Sent(h)) /\ IsFiniteSet(Published(h))
      /\ Cardinality(Queued(h)) \in Nat /\ Cardinality(InBatch(h)) \in Nat
      /\ Cardinality(Sent(h)) \in Nat /\ Cardinality(Published(h)) \in Nat
  BY <1>1, FiniteParts
<1>6. \A q \in Publishers : publisher'[q] = IF q = p THEN r ELSE publisher[q]
  BY <1>1, <1>2 DEF TypeOK
<1>7. \A i \in DOMAIN s : i \in 1 .. BatchSize
  <2>1. DOMAIN s = 1 .. Len(s) /\ Len(s) \in Nat /\ BatchSize \in Nat
    BY <1>2, SizeAssumption
  <2>2. Len(s) <= BatchSize
    BY <1>1 DEF TypeOK
  <2> QED  BY <2>1, <2>2
<1> HIDE DEF x, s
<1>8. Cardinality(Sent(h)') \in Nat /\ Cardinality(Sent(h)') + one <= Cardinality(Sent(h))
  <2> DEFINE A == Sent(h)
             B == {b \in Publishers \X (1 .. BatchSize) :
                     b[2] \in DOMAIN publisher'[b[1]].sent /\ publisher'[b[1]].sent[b[2]] = h}
             f == [b \in B |-> IF b[1] = p THEN <<p, b[2] + 1>> ELSE b]
  <2>1. f \in [B -> A]
    <3> SUFFICES ASSUME NEW b \in B
                 PROVE  (IF b[1] = p THEN <<p, b[2] + 1>> ELSE b) \in A
      OBVIOUS
    <3>1. CASE b[1] = p
      <4>1. b[2] \in DOMAIN r.sent /\ r.sent[b[2]] = h
        BY <1>6, <3>1
      <4>2. b[2] + 1 \in DOMAIN s /\ s[b[2] + 1] = h /\ b[2] + 1 \in 1 .. BatchSize
        BY <1>4, <1>7, <4>1
      <4> QED  BY <3>1, <4>2 DEF Sent, s
    <3>2. CASE b[1] # p
      <4>1. publisher'[b[1]] = publisher[b[1]]
        BY <1>6, <3>2
      <4> QED  BY <3>2, <4>1 DEF Sent
    <3> QED  BY <3>1, <3>2
  <2>2. \A b, c \in B : f[b] = f[c] => b = c
    <3> SUFFICES ASSUME NEW b \in B, NEW c \in B,
                        (IF b[1] = p THEN <<p, b[2] + 1>> ELSE b)
                        = (IF c[1] = p THEN <<p, c[2] + 1>> ELSE c)
                 PROVE  b = c
      OBVIOUS
    <3>1. b = <<b[1], b[2]>> /\ c = <<c[1], c[2]>> /\ b[2] \in Nat /\ c[2] \in Nat
      OBVIOUS
    <3>2. CASE b[1] = p /\ c[1] = p
      <4>1. b[2] + 1 = c[2] + 1
        BY <3>2
      <4> QED  BY <3>1, <3>2, <4>1
    <3>3. CASE b[1] # p /\ c[1] # p
      BY <3>3
    <3>4. CASE b[1] = p /\ c[1] # p
      <4>1. <<p, b[2] + 1>> = c
        BY <3>4
      <4> QED  BY <3>4, <4>1
    <3>5. CASE b[1] # p /\ c[1] = p
      <4>1. b = <<p, c[2] + 1>>
        BY <3>5
      <4> QED  BY <3>5, <4>1
    <3> QED  BY <3>2, <3>3, <3>4, <3>5
  <2>3. \A b \in B : f[b] # <<p, 1>>
    <3> SUFFICES ASSUME NEW b \in B, (IF b[1] = p THEN <<p, b[2] + 1>> ELSE b) = <<p, 1>>
                 PROVE  FALSE
      OBVIOUS
    <3>1. b[1] = p
      OBVIOUS
    <3>2. b[2] + 1 = 1 /\ b[2] \in 1 .. BatchSize
      BY <3>1
    <3>3. BatchSize \in Nat
      BY SizeAssumption
    <3> QED  BY <3>2, <3>3
  <2>4. <<p, 1>> \in A <=> x = h
    BY <1>4, <1>7 DEF Sent, s
  <2>5. Sent(h)' = B
    BY DEF Sent
  <2> HIDE DEF A, B, f
  <2>6. Cardinality(B) \in Nat /\ Cardinality(B) + (IF <<p, 1>> \in A THEN 1 ELSE 0) <= Cardinality(A)
    BY <1>5, <2>1, <2>2, <2>3, Shifted DEF A
  <2> QED  BY <2>4, <2>5, <2>6 DEF A
<1>9. published_q \in Seq(Handle)
  BY <1>1 DEF TypeOK, SeqUpTo
<1>10. /\ DOMAIN published_q' = DOMAIN published_q \cup {n}
       /\ published_q'[n] = x
       /\ \A i \in DOMAIN published_q : published_q'[i] = published_q[i]
  BY <1>3, <1>4, <1>9, Appended
<1>11. /\ Published(h)' \subseteq Published(h) \cup {n}
       /\ x # h => Published(h)' \subseteq Published(h)
  BY <1>10 DEF Published
<1>12. /\ Cardinality(Published(h)') \in Nat
       /\ Cardinality(Published(h)') <= Cardinality(Published(h)) + one
  <2>1. CASE x = h
    BY <1>5, <1>11, <2>1, OneMore
  <2>2. CASE x # h
    BY <1>5, <1>11, <2>2, Fewer
  <2> QED  BY <2>1, <2>2
<1>13. Queued(h)' = Queued(h) /\ InBatch(h)' = InBatch(h)
  <2>1. \A q \in Publishers : publisher'[q].events = publisher[q].events
    BY <1>2, <1>6
  <2> QED  BY <1>3, <2>1 DEF Queued, InBatch
<1>14. Count(h)' = Count(h) - 0 /\ 0 \in Nat
  BY <1>1, <1>3, CountStays
<1>15. one \in Nat
  OBVIOUS
<1> HIDE DEF one
<1>16. Cardinality(Queued(h)') + Cardinality(InBatch(h)') + Cardinality(Sent(h)')
       + Cardinality(Published(h)') + 0
       <= Cardinality(Queued(h)) + Cardinality(InBatch(h)) + Cardinality(Sent(h))
          + Cardinality(Published(h))
  BY <1>5, <1>8, <1>12, <1>13, <1>15
<1> QED  BY <1>3, <1>5, <1>8, <1>12, <1>13, <1>14, <1>16, Moved

LEMMA GetPublishedCounts ==
    ASSUME CountsInv, GetPublished
    PROVE  \A h \in Handle : UncountedEvents(h)' <= Count(h)'
<1> SUFFICES ASSUME NEW h \in Handle
             PROVE  UncountedEvents(h)' <= Count(h)'
  OBVIOUS
<1> DEFINE x == Head(published_q)
           one == IF x = h THEN 1 ELSE 0
<1>1. TypeOK /\ InFlightOK(in_flight)
  BY DEF CountsInv, WorkerInv, TypeOK
<1>2. published_q \in Seq(Handle) /\ published_q # <<>>
  BY <1>1 DEF TypeOK, SeqUpTo, GetPublished
<1>3. /\ published_q' = Tail(published_q) /\ in_flight' = Decremented(x)
      /\ UNCHANGED <<main, current, publish_q, publisher>>
  BY DEF GetPublished
<1>4. /\ x \in Handle /\ x = published_q[1] /\ 1 \in DOMAIN published_q
      /\ \A i \in DOMAIN published_q' :
           i \in Nat \ {0} /\ i + 1 \in DOMAIN published_q /\ published_q'[i] = published_q[i + 1]
  BY <1>2, <1>3, Tailed
<1>5. /\ IsFiniteSet(Published(h))
      /\ Cardinality(Queued(h)) \in Nat /\ Cardinality(InBatch(h)) \in Nat
      /\ Cardinality(Sent(h)) \in Nat /\ Cardinality(Published(h)) \in Nat
  BY <1>1, FiniteParts
<1> HIDE DEF x
<1>6. Cardinality(Published(h)') \in Nat /\ Cardinality(Published(h)') + one <= Cardinality(Published(h))
  <2> DEFINE A == Published(h)
             B == {i \in DOMAIN published_q' : published_q'[i] = h}
             f == [i \in B |-> i + 1]
  <2>1. f \in [B -> A]
    BY <1>4 DEF Published
  <2>2. \A i, j \in B : f[i] = f[j] => i = j
    BY <1>4
  <2>3. \A i \in B : f[i] # 1
    BY <1>4
  <2>4. 1 \in A <=> x = h
    BY <1>4 DEF Published
  <2>5. Published(h)' = B
    BY DEF Published
  <2> HIDE DEF A, B, f
  <2>6. Cardinality(B) \in Nat /\ Cardinality(B) + (IF 1 \in A THEN 1 ELSE 0) <= Cardinality(A)
    BY <1>5, <2>1, <2>2, <2>3, Shifted DEF A
  <2> QED  BY <2>4, <2>5, <2>6 DEF A
<1>7. Queued(h)' = Queued(h) /\ InBatch(h)' = InBatch(h) /\ Sent(h)' = Sent(h)
  BY <1>3 DEF Queued, InBatch, Sent
<1>8. Count(h) \in Nat /\ UncountedEvents(h) <= Count(h) /\ Count(h) = CountOf(in_flight, h)
  BY <1>1, CountIsNat DEF CountsInv
<1>9. x = h => Count(h) # 0
  <2> HAVE x = h
  <2>1. Cardinality(Published(h)) >= 1
    BY <1>5, <1>6
  <2>2. UncountedEvents(h) >= 1
    BY <1>5, <2>1 DEF UncountedEvents
  <2>3. UncountedEvents(h) \in Nat
    BY <1>5 DEF UncountedEvents
  <2> QED  BY <1>8, <2>2, <2>3
<1>10. Count(h)' = Count(h) - one
  <2>1. Count(h)' = CountOf(Decremented(x), h)
    BY <1>3, CountNext
  <2>2. CountOf(Decremented(x), h) =
          IF h = x /\ Count(x) # 0 THEN Count(x) - 1 ELSE CountOf(in_flight, h)
    BY <1>1, <1>4, Decrement
  <2>3. CASE x = h
    BY <1>8, <1>9, <2>1, <2>2, <2>3
  <2>4. CASE x # h
    BY <1>8, <2>1, <2>2, <2>4
  <2> QED  BY <2>3, <2>4
<1>11. one \in Nat
  OBVIOUS
<1> HIDE DEF one
<1>12. Cardinality(Queued(h)') + Cardinality(InBatch(h)') + Cardinality(Sent(h)')
       + Cardinality(Published(h)') + one
       <= Cardinality(Queued(h)) + Cardinality(InBatch(h)) + Cardinality(Sent(h))
          + Cardinality(Published(h))
  BY <1>5, <1>6, <1>7, <1>11
<1> QED  BY <1>3, <1>5, <1>6, <1>7, <1>10, <1>11, <1>12, Moved

\* No event is under way in a new process.
LEMMA NothingUnderWay ==
    ASSUME NEW h, main' # "publish", in_flight' = <<>>, publish_q' = <<>>, published_q' = <<>>,
           \A p \in Publishers : publisher'[p] = Idle
    PROVE  UncountedEvents(h)' <= Count(h)'
<1> DEFINE none == <<>>
<1>1. DOMAIN none = {}
  OBVIOUS
<1>2. \A p \in Publishers : DOMAIN publisher'[p].events = {} /\ DOMAIN publisher'[p].sent = {}
  BY IdleTyped
<1>3. DOMAIN in_flight' = {} /\ DOMAIN publish_q' = {} /\ DOMAIN published_q' = {}
  BY <1>1
<1>4. Queued(h)' = {} /\ InBatch(h)' = {} /\ Sent(h)' = {} /\ Published(h)' = {}
  BY <1>2, <1>3 DEF Queued, InBatch, Sent, Published
<1>5. Count(h)' = 0
  BY <1>3 DEF Count, Known
<1>6. Cardinality({}) = 0
  BY FS_EmptySet
<1>7. UncountedEvents(h)' = 0
  BY <1>4, <1>6 DEF UncountedEvents
<1> QED  BY <1>5, <1>7

LEMMA InitCounts ==
    ASSUME Init
    PROVE  CountsInv
<1> DEFINE none == <<>>
<1>1. DOMAIN none = {}
  OBVIOUS
<1>2. /\ DOMAIN in_flight = {} /\ DOMAIN publish_q = {} /\ DOMAIN published_q = {}
      /\ main # "publish"
  BY <1>1 DEF Init
<1>3. \A p \in Publishers : DOMAIN publisher[p].events = {} /\ DOMAIN publisher[p].sent = {}
  BY IdleTyped DEF Init
<1>4. \A h \in Handle : Queued(h) = {} /\ InBatch(h) = {} /\ Sent(h) = {} /\ Published(h) = {}
  BY <1>2, <1>3 DEF Queued, InBatch, Sent, Published
<1>5. Cardinality({}) = 0
  BY FS_EmptySet
<1>6. \A h \in Handle : UncountedEvents(h) = 0 /\ Count(h) = 0
  BY <1>2, <1>4, <1>5 DEF UncountedEvents, Count, Known
<1> QED  BY <1>6, InitWorkerInv DEF CountsInv

LEMMA NextCounts ==
    ASSUME CountsInv, EvictsUnused, [Next]_vars
    PROVE  CountsInv'
<1>1. WorkerInv /\ TypeOK
  BY DEF CountsInv, WorkerInv
<1>2. WorkerInv'
  BY <1>1, NextWorkerInv
<1> SUFFICES \A h \in Handle : UncountedEvents(h)' <= Count(h)'
  BY <1>2 DEF CountsInv
<1>3. CASE ReceiveThread
  BY <1>3, CountsSame DEF ReceiveThread, ReceiveMessages, QueueMessage, StopReceiving
<1>4. CASE RunLoop \/ GeneratorFails
  <2>1. CASE GetMessage \/ NoMessage \/ EndOfEvents \/ QueueEmptyMessage \/ GracefulStop \/ Join
             \/ GeneratorFails
    BY <2>1, CountsUnchanged
    DEF GetMessage, NoMessage, EndOfEvents, QueueEmptyMessage, GracefulStop, Join, GeneratorFails
  <2> QED  BY <1>4, <2>1, GenerateEventCounts, QueueEventCounts DEF RunLoop
<1>5. ASSUME NEW p \in Publishers, PublishThread(p)
      PROVE  \A h \in Handle : UncountedEvents(h)' <= Count(h)'
  <2>1. CASE NoEvent(p)
    <3>1. PICK r \in Publisher : /\ publisher' = [publisher EXCEPT ![p] = r]
                                 /\ r.events = publisher[p].events /\ r.sent = publisher[p].sent
      BY <1>1, <2>1, NoEventStep
    <3>2. \A q \in Publishers :
             publisher'[q].events = publisher[q].events /\ publisher'[q].sent = publisher[q].sent
      BY <1>1, <3>1 DEF TypeOK
    <3> QED  BY <2>1, <3>2, CountsSame DEF NoEvent
  <2> QED  BY <1>5, <2>1, GetEventCounts, PublishCounts, PutPublishedCounts DEF PublishThread
<1>6. CASE FinalThread
  <2>1. CASE QueuePublishedMessage \/ NoPublished
    BY <2>1, CountsSame DEF QueuePublishedMessage, NoPublished
  <2> QED  BY <1>6, <2>1, GetPublishedCounts DEF FinalThread
<1>7. CASE DeleteThread \/ CouldNotDelete
  BY <1>7, CountsSame DEF DeleteThread, GetHandle, DeleteEntries, NoHandle, CouldNotDelete
<1>8. CASE (\E m \in Messages : VisibilityTimeout(m)) \/ HandleSignal
  BY <1>8, CountsSame DEF VisibilityTimeout, HandleSignal
<1>9. CASE Crash \/ Restart
  BY <1>9, NothingUnderWay DEF Crash, Restart, NewWorker
<1>10. CASE UNCHANGED vars
  BY <1>10, CountsSame DEF vars
<1> QED  BY <1>3, <1>4, <1>5, <1>6, <1>7, <1>8, <1>9, <1>10 DEF Next

\* As long as the handle that a new event evicts has no event under way, the
\* events under way are all counted (consumer.py, in_flight_receipt_handles,
\* increment_receipt_handle_unpublished_event_count): in the run loop, in the
\* queues and the publish threads, whatever SQS answers and in whatever order.
THEOREM CountsInvariant == Spec /\ []EvictsUnused => []CountsInv
<1>1. Init => CountsInv
  BY InitCounts
<1>2. CountsInv /\ EvictsUnused /\ [Next]_vars => CountsInv'
  BY NextCounts
<1> QED  BY <1>1, <1>2, PTL DEF Spec

\* The count of a handle that SQS has delivered is never lower than the number
\* of its events under way.
THEOREM CountedEvents == Spec /\ []EvictsUnused => []EventsCounted
<1>1. CountsInv => EventsCounted
  BY DEF CountsInv, EventsCounted, Handle
<1> QED  BY CountsInvariant, <1>1, PTL

\* Only the final thread has a message deleted after it has counted its events.
LEMMA CountedBy ==
    ASSUME Next
    PROVE  GetPublished \/ counted' \in {None, counted}
<1>1. CASE ReceiveThread
  BY <1>1 DEF ReceiveThread, ReceiveMessages, QueueMessage, StopReceiving
<1>2. CASE RunLoop \/ GeneratorFails
  BY <1>2 DEF RunLoop, GetMessage, NoMessage, GenerateEvent, QueueEvent, EndOfEvents,
     QueueEmptyMessage, GracefulStop, Join, GeneratorFails
<1>3. CASE \E p \in Publishers : PublishThread(p)
  BY <1>3 DEF PublishThread, GetEvent, Publish, PutPublished, NoEvent
<1>4. CASE FinalThread
  BY <1>4 DEF FinalThread, QueuePublishedMessage, NoPublished
<1>5. CASE DeleteThread \/ CouldNotDelete
  BY <1>5 DEF DeleteThread, GetHandle, DeleteEntries, NoHandle, CouldNotDelete
<1>6. CASE (\E m \in Messages : VisibilityTimeout(m)) \/ HandleSignal
  BY <1>6 DEF VisibilityTimeout, HandleSignal
<1>7. CASE Crash \/ Restart
  BY <1>7 DEF Crash, Restart, NewWorker
<1> QED  BY <1>1, <1>2, <1>3, <1>4, <1>5, <1>6, <1>7 DEF Next

\* "no more unpublished events" (consumer.py, in the final thread): the handle
\* that is to be deleted has no event left in the queues and the publish threads.
THEOREM LastEventCounted == Spec /\ []EvictsUnused => NoMoreUnpublishedEvents
<1>1. ASSUME CountsInv, [Next]_vars
      PROVE  [counted' \notin {None, counted} => \A e \in Unpublished : e.handle # counted']_vars
  <2> SUFFICES ASSUME Next, counted' \notin {None, counted}, NEW e \in Unpublished,
                      e.handle = counted'
               PROVE  FALSE
    BY <1>1 DEF vars
  <2>1. TypeOK
    BY <1>1 DEF CountsInv, WorkerInv
  <2>2. GetPublished
    BY CountedBy
  <2> DEFINE h == Head(published_q)
  <2>3. counted' = h /\ Count(h) = 1 /\ published_q # <<>>
    BY <2>2 DEF GetPublished, NoMoreEvents
  <2>4. published_q \in Seq(Handle)
    BY <2>1 DEF TypeOK, SeqUpTo
  <2>5. h \in Handle /\ 1 \in Published(h)
    BY <2>3, <2>4, Tailed DEF Published
  <2> HIDE DEF h
  <2>6. /\ IsFiniteSet(Queued(h)) /\ IsFiniteSet(InBatch(h)) /\ IsFiniteSet(Published(h))
        /\ Cardinality(Queued(h)) \in Nat /\ Cardinality(InBatch(h)) \in Nat
        /\ Cardinality(Sent(h)) \in Nat /\ Cardinality(Published(h)) \in Nat
    BY <2>1, FiniteParts
  <2>7. Cardinality(Published(h)) # 0
    BY <2>5, <2>6, FS_EmptySet
  <2>8. UncountedEvents(h) <= 1
    BY <1>1, <2>3, <2>5 DEF CountsInv
  <2>9. /\ ~(main = "publish" /\ current = h)
        /\ Cardinality(Queued(h)) = 0 /\ Cardinality(InBatch(h)) = 0
    BY <2>6, <2>7, <2>8 DEF UncountedEvents
  <2>10. Queued(h) = {} /\ InBatch(h) = {}
    BY <2>6, <2>9, FS_EmptySet
  <2>11. e.handle = h
    BY <2>3
  <2>12. CASE e \in ToSet(publish_q)
    BY <2>10, <2>11, <2>12 DEF Queued, ToSet
  <2>13. CASE \E p \in Publishers : e \in ToSet(publisher[p].events)
    <3>0. PICK p \in Publishers : e \in ToSet(publisher[p].events)
      BY <2>13
    <3>1. PICK i \in DOMAIN publisher[p].events : e = publisher[p].events[i]
      BY <3>0 DEF ToSet
    <3>2. publisher[p].events \in Seq(Event) /\ Len(publisher[p].events) <= BatchSize
      BY <2>1 DEF TypeOK, Publisher
    <3>3. i \in 1 .. BatchSize
      BY <3>2, SizeAssumption
    <3>4. <<p, i>> \in InBatch(h)
      BY <2>11, <3>1, <3>3 DEF InBatch
    <3> QED  BY <2>10, <3>4
  <2>14. CASE main = "publish" /\ e = [handle |-> current, index |-> generated]
    BY <2>9, <2>11, <2>14
  <2> QED  BY <2>12, <2>13, <2>14 DEF Unpublished
<1> QED  BY CountsInvariant, <1>1, PTL DEF Spec, NoMoreUnpublishedEvents
=============================================================================
