------------------------ MODULE EvSessionQueueProofs ------------------------
(***************************************************************************)
(* The session vector stays sorted and free of overlaps, for every set of  *)
(* ids and instants and every sequence of calls.  The lemmas say what each *)
(* helper makes of a vector that is in order; the theorem adds them up.    *)
(***************************************************************************)
EXTENDS EvSessionQueue, SequenceTheorems, FiniteSetTheorems, NaturalsInduction,
        WellFoundedInduction, TLAPS

\* WindowsInOrder of any vector.
InOrder(q) ==
    \A i, j \in 1 .. Len(q) : i < j =>
        /\ q[i].id # q[j].id
        /\ q[i].departure_time <= q[j].window_start

Session == Calendar!EvSession

\* The bookings a vector holds.
Elements(q) == { q[i] : i \in DOMAIN q }

LEMMA SessionFields ==
    \A s \in Session :
        /\ s.window_start \in Int
        /\ s.departure_time \in Int
        /\ s.window_start < s.departure_time
BY TimesAssumption DEF Session, Calendar!EvSession

\* partition_point finds a place in front of the first session that starts
\* later, if there is one, and at the end otherwise.
LEMMA InsertionPointExists ==
    ASSUME NEW q \in Seq(Session), NEW s \in Session, InOrder(q)
    PROVE  LET at == InsertionPoint(q, s)
           IN  /\ at \in 0 .. Len(q)
               /\ \A i \in 1 .. at : q[i].window_start <= s.window_start
               /\ at < Len(q) => q[at + 1].window_start > s.window_start
<1> DEFINE Later == { n \in 0 .. Len(q) : n < Len(q) => q[n + 1].window_start > s.window_start }
<1>1. Len(q) \in Nat
  BY LenProperties
<1>2. Later \subseteq Nat /\ Len(q) \in Later
  BY <1>1
<1>3. PICK n \in Later : \A m \in Later : ~(<<m, n>> \in OpToRel(<, Nat))
  BY <1>2, WFMin, NatLessThanWellFounded
<1>4. \A m \in Later : ~(m < n)
  BY <1>2, <1>3 DEF OpToRel
<1>5. n \in 0 .. Len(q) /\ (n < Len(q) => q[n + 1].window_start > s.window_start)
  BY <1>3
<1>6. ASSUME NEW i \in 1 .. n
      PROVE  q[i].window_start <= s.window_start
  <2>1. i \in 1 .. Len(q) /\ i - 1 \in 0 .. Len(q) /\ i - 1 < n /\ i - 1 < Len(q)
    BY <1>1, <1>5, <1>6
  <2>2. i - 1 \notin Later
    BY <1>4, <2>1
  <2>3. ~(q[(i - 1) + 1].window_start > s.window_start)
    BY <2>1, <2>2
  <2>4. q[i] \in Session
    BY <2>1, ElementOfSeq
  <2> QED
    BY <2>1, <2>3, <2>4, SessionFields
<1> HIDE DEF Later
<1> QED
  BY <1>6, <1>5 DEF InsertionPoint

\* A session that clashes with none queued, and has an id of its own, goes
\* into its place without disturbing the order.
LEMMA InsertedInOrder ==
    ASSUME NEW q \in Seq(Session), NEW s \in Session, InOrder(q),
           s.id \notin QueuedIds(q), Conflicts(q, s) = {}
    PROVE  /\ Inserted(q, s) \in Seq(Session)
           /\ InOrder(Inserted(q, s))
           /\ Elements(Inserted(q, s)) = Elements(q) \cup {s}
<1> DEFINE at == InsertionPoint(q, s)
           front == SubSeq(q, 1, at)
           back == SubSeq(q, at + 1, Len(q))
           r == Inserted(q, s)
<1>1. Len(q) \in Nat /\ DOMAIN q = 1 .. Len(q)
  BY LenProperties
<1>2. \A i \in 1 .. Len(q) : q[i] \in Session
  BY ElementOfSeq
<1>3. /\ at \in 0 .. Len(q)
      /\ \A i \in 1 .. at : q[i].window_start <= s.window_start
      /\ at < Len(q) => q[at + 1].window_start > s.window_start
  BY InsertionPointExists
<1> HIDE DEF at
<1>4. /\ front \in Seq(Session) /\ Len(front) = at
      /\ \A i \in 1 .. at : front[i] = q[i]
  <2>1. \A i \in 1 .. at : q[i] \in Session
    BY <1>1, <1>2, <1>3
  <2>2. /\ front \in Seq(Session)
        /\ Len(front) = IF 1 <= at THEN at - 1 + 1 ELSE 0
        /\ \A i \in 1 .. at - 1 + 1 : front[i] = q[1 + i - 1]
    BY <1>3, <2>1, SubSeqProperties
  <2> HIDE DEF front
  <2> QED
    BY <1>3, <2>2
<1>5. /\ back \in Seq(Session) /\ Len(back) = Len(q) - at
      /\ \A i \in 1 .. Len(q) - at : back[i] = q[at + i]
  <2>1. \A i \in at + 1 .. Len(q) : q[i] \in Session
    BY <1>1, <1>2, <1>3
  <2>2. /\ back \in Seq(Session)
        /\ Len(back) = IF at + 1 <= Len(q) THEN Len(q) - (at + 1) + 1 ELSE 0
        /\ \A i \in 1 .. Len(q) - (at + 1) + 1 : back[i] = q[(at + 1) + i - 1]
    BY <1>1, <1>3, <2>1, SubSeqProperties
  <2> HIDE DEF back
  <2>3. Len(q) - (at + 1) + 1 = Len(q) - at /\ \A i \in Int : (at + 1) + i - 1 = at + i
    BY <1>1, <1>3
  <2>4. at \in Int /\ Len(q) \in Int /\ at <= Len(q)
    BY <1>1, <1>3
  <2>5. Len(back) = IF at + 1 <= Len(q) THEN Len(q) - (at + 1) + 1 ELSE 0
    BY <2>2
  <2>6. Len(back) = Len(q) - at
    BY <2>4, <2>5
  <2>7. \A i \in 1 .. Len(q) - at : back[i] = q[(at + 1) + i - 1]
    BY <2>2, <2>3, Zenon
  <2>8. \A i \in 1 .. Len(q) - at : back[i] = q[at + i]
    <3> TAKE i \in 1 .. Len(q) - at
    <3>1. i \in Int
      BY <2>4
    <3>2. (at + 1) + i - 1 = at + i
      BY <2>3, <3>1
    <3> QED
      BY <2>7, <3>2, Zenon
  <2> QED
    BY <2>2, <2>6, <2>8, Zenon
<1>6. r = (front \o <<s>>) \o back
  BY DEF Inserted, at
<1> HIDE DEF front, back, r
<1>7. <<s>> \in Seq(Session) /\ Len(<<s>>) = 1 /\ <<s>>[1] = s
  OBVIOUS
<1>8. /\ front \o <<s>> \in Seq(Session) /\ Len(front \o <<s>>) = at + 1
      /\ \A i \in 1 .. at + 1 : (front \o <<s>>)[i] = IF i <= at THEN q[i] ELSE s
  <2>1. /\ front \o <<s>> \in Seq(Session) /\ Len(front \o <<s>>) = at + 1
        /\ \A i \in 1 .. at + 1 :
            (front \o <<s>>)[i] = IF i <= at THEN front[i] ELSE <<s>>[i - at]
    BY <1>4, <1>7, ConcatProperties
  <2> QED
    BY <1>3, <1>4, <1>7, <2>1
<1>9. /\ r \in Seq(Session) /\ Len(r) = Len(q) + 1
      /\ \A i \in 1 .. Len(q) + 1 :
          r[i] = IF i <= at THEN q[i] ELSE IF i = at + 1 THEN s ELSE q[i - 1]
  <2> DEFINE f == front \o <<s>>
  <2>1. f \in Seq(Session) /\ Len(f) = at + 1 /\ r = f \o back
    BY <1>6, <1>8
  <2>2. \A i \in 1 .. at + 1 : f[i] = IF i <= at THEN q[i] ELSE s
    BY <1>8
  <2> HIDE DEF f
  <2>3. /\ r \in Seq(Session) /\ Len(r) = Len(f) + Len(back)
        /\ \A i \in 1 .. Len(f) + Len(back) :
            r[i] = IF i <= Len(f) THEN f[i] ELSE back[i - Len(f)]
    BY <1>5, <2>1, ConcatProperties
  <2>4. Len(f) + Len(back) = Len(q) + 1
    BY <1>1, <1>3, <1>5, <2>1
  <2>5. ASSUME NEW i \in 1 .. Len(q) + 1
        PROVE  r[i] = IF i <= at THEN q[i] ELSE IF i = at + 1 THEN s ELSE q[i - 1]
    <3>1. r[i] = IF i <= at + 1 THEN f[i] ELSE back[i - (at + 1)]
      BY <2>1, <2>3, <2>4
    <3>2. CASE i <= at + 1
      BY <1>1, <1>3, <2>2, <3>1, <3>2
    <3>3. CASE i > at + 1
      <4>1. i - (at + 1) \in 1 .. Len(q) - at /\ at + (i - (at + 1)) = i - 1
        BY <1>1, <1>3, <3>3
      <4> QED
        BY <1>1, <1>3, <1>5, <3>1, <3>3, <4>1
    <3> QED
      BY <1>1, <1>3, <3>2, <3>3
  <2> QED
    BY <2>3, <2>4, <2>5
<1>10. \A i \in 1 .. Len(q) :
        /\ q[i].id # s.id
        /\ s.departure_time <= q[i].window_start \/ q[i].departure_time <= s.window_start
  <2> TAKE i \in 1 .. Len(q)
  <2>1. q[i].id # s.id
    BY <1>1 DEF QueuedIds
  <2>2. ~Overlaps(q[i], s)
    BY <1>1, <2>1 DEF Conflicts
  <2> QED
    BY <1>2, <2>1, <2>2, SessionFields DEF Overlaps, Calendar!Overlaps
<1>11. \A i \in 1 .. at : q[i].departure_time <= s.window_start
  BY <1>1, <1>2, <1>3, <1>10, SessionFields
<1>12. \A i \in at + 1 .. Len(q) : s.departure_time <= q[i].window_start
  <2> TAKE i \in at + 1 .. Len(q)
  <2>1. at + 1 \in 1 .. Len(q) /\ i \in 1 .. Len(q) /\ at < Len(q)
    BY <1>1, <1>3
  <2>2. q[at + 1].window_start > s.window_start
    BY <1>3, <2>1
  <2>3. CASE i = at + 1
    BY <1>2, <1>10, <2>1, <2>2, <2>3, SessionFields
  <2>4. CASE i > at + 1
    <3>1. q[at + 1].departure_time <= q[i].window_start
      BY <2>1, <2>4 DEF InOrder
    <3> QED
      BY <1>2, <1>10, <2>1, <2>2, <3>1, SessionFields
  <2> QED
    BY <1>1, <1>3, <2>1, <2>3, <2>4
<1>13. ASSUME NEW i \in 1 .. Len(r), NEW j \in 1 .. Len(r), i < j
       PROVE  r[i].id # r[j].id /\ r[i].departure_time <= r[j].window_start
  <2>1. CASE j <= at
    BY <1>1, <1>3, <1>9, <1>13, <2>1 DEF InOrder
  <2>2. CASE j = at + 1
    BY <1>1, <1>3, <1>9, <1>10, <1>11, <1>13, <2>2
  <2>3. CASE j > at + 1 /\ i = at + 1
    <3>1. r[i] = s /\ r[j] = q[j - 1] /\ j - 1 \in at + 1 .. Len(q) /\ j - 1 \in 1 .. Len(q)
      BY <1>1, <1>3, <1>9, <1>13, <2>3
    <3> QED
      BY <1>10, <1>12, <3>1
  <2>4. CASE j > at + 1 /\ i # at + 1
    <3>1. PICK k \in 1 .. Len(q) : r[i] = q[k] /\ k < j - 1
      <4>1. CASE i <= at
        BY <1>1, <1>3, <1>9, <1>13, <2>4, <4>1
      <4>2. CASE i > at + 1
        BY <1>1, <1>3, <1>9, <1>13, <2>4, <4>2
      <4> QED
        BY <1>1, <1>3, <1>13, <2>4, <4>1, <4>2
    <3>2. r[j] = q[j - 1] /\ j - 1 \in 1 .. Len(q)
      BY <1>1, <1>3, <1>9, <1>13, <2>4
    <3> QED
      BY <3>1, <3>2 DEF InOrder
  <2> QED
    BY <1>1, <1>3, <1>9, <1>13, <2>1, <2>2, <2>3, <2>4
<1>14. Elements(r) = Elements(q) \cup {s}
  <2>1. DOMAIN r = 1 .. Len(q) + 1
    BY <1>9, LenProperties
  <2>2. ASSUME NEW b \in Elements(r)
        PROVE  b \in Elements(q) \cup {s}
    <3>1. PICK i \in 1 .. Len(q) + 1 : b = r[i]
      BY <2>1, <2>2 DEF Elements
    <3>2. CASE i <= at
      BY <1>1, <1>3, <1>9, <3>1, <3>2 DEF Elements
    <3>3. CASE i = at + 1
      BY <1>1, <1>3, <1>9, <3>1, <3>3 DEF Elements
    <3>4. CASE i > at + 1
      <4>1. i - 1 \in 1 .. Len(q) /\ b = q[i - 1]
        BY <1>1, <1>3, <1>9, <3>1, <3>4
      <4> QED
        BY <1>1, <4>1 DEF Elements
    <3> QED
      BY <1>1, <1>3, <3>2, <3>3, <3>4
  <2>3. s \in Elements(r)
    <3>1. at + 1 \in 1 .. Len(q) + 1 /\ r[at + 1] = s
      BY <1>1, <1>3, <1>9
    <3> QED
      BY <2>1, <3>1 DEF Elements
  <2>4. ASSUME NEW i \in 1 .. Len(q)
        PROVE  q[i] \in Elements(r)
    <3>1. CASE i <= at
      BY <1>1, <1>3, <1>9, <2>1, <3>1 DEF Elements
    <3>2. CASE i > at
      <4>1. i + 1 \in 1 .. Len(q) + 1 /\ r[i + 1] = q[i]
        BY <1>1, <1>3, <1>9, <3>2
      <4> QED
        BY <2>1, <4>1 DEF Elements
    <3> QED
      BY <1>1, <1>3, <3>1, <3>2
  <2> QED
    BY <1>1, <2>2, <2>3, <2>4 DEF Elements
<1> QED
  BY <1>9, <1>13, <1>14 DEF InOrder, r

\* Taking sessions out of a vector in order, without moving the others past
\* each other, leaves it in order.
LEMMA PickedInOrder ==
    ASSUME NEW q \in Seq(Session), InOrder(q), NEW n \in Nat,
           NEW order \in [1 .. n -> 1 .. Len(q)],
           \A i, j \in 1 .. n : i < j => order[i] < order[j],
           NEW r \in Seq(Session), Len(r) = n, \A i \in 1 .. n : r[i] = q[order[i]]
    PROVE  InOrder(r)
<1>1. SUFFICES ASSUME NEW i \in 1 .. n, NEW j \in 1 .. n, i < j
               PROVE  r[i].id # r[j].id /\ r[i].departure_time <= r[j].window_start
  BY DEF InOrder
<1>2. order[i] \in 1 .. Len(q) /\ order[j] \in 1 .. Len(q) /\ order[i] < order[j]
  BY <1>1
<1>3. /\ q[order[i]].id # q[order[j]].id
      /\ q[order[i]].departure_time <= q[order[j]].window_start
  BY <1>2 DEF InOrder
<1> QED
  BY <1>1, <1>3

\* What a filter keeps (expire, and the removals of replace).
LEMMA FilteredInOrder ==
    ASSUME NEW q \in Seq(Session), InOrder(q), NEW keep \in SUBSET DOMAIN q,
           NEW order \in Ascending(keep)
    PROVE  /\ Picked(q, order) \in Seq(Session)
           /\ InOrder(Picked(q, order))
           /\ Elements(Picked(q, order)) = { q[k] : k \in keep }
<1> DEFINE n == Cardinality(keep)
           r == Picked(q, order)
<1>1. Len(q) \in Nat /\ DOMAIN q = 1 .. Len(q)
  BY LenProperties
<1>2. n \in Nat
  <2>1. IsFiniteSet(1 .. Len(q))
    BY <1>1, FS_Interval
  <2>2. IsFiniteSet(keep)
    BY <1>1, <2>1, FS_Subset
  <2> QED
    BY <2>2, FS_CardinalityType
<1> HIDE DEF n
<1>3. /\ order \in [1 .. n -> keep] /\ DOMAIN order = 1 .. n
      /\ \A i, j \in 1 .. n : i < j => order[i] < order[j]
  BY DEF Ascending, n
<1>4. order \in [1 .. n -> 1 .. Len(q)]
  BY <1>1, <1>3
<1>5. r = [i \in 1 .. n |-> q[order[i]]]
  BY <1>3 DEF Picked
<1>6. r \in [1 .. n -> Session]
  BY <1>4, <1>5, ElementOfSeq
<1> HIDE DEF r
<1>7. r \in Seq(Session) /\ Len(r) = n
  <2>1. r \in Seq(Session)
    BY <1>2, <1>6, SeqDef
  <2> QED
    BY <1>2, <1>6, <2>1, LenProperties
<1>8. \A i \in 1 .. n : r[i] = q[order[i]]
  BY <1>5
<1>9. InOrder(r)
  BY <1>2, <1>3, <1>4, <1>7, <1>8, PickedInOrder
<1>10. \A k \in keep : \E i \in 1 .. n : order[i] = k
  BY <1>3 DEF Ascending, n
<1>11. Elements(r) = { q[k] : k \in keep }
  BY <1>3, <1>5, <1>10 DEF Elements
<1> QED
  BY <1>7, <1>9, <1>11 DEF r

\* What remove leaves.
LEMMA RemovedInOrder ==
    ASSUME NEW q \in Seq(Session), InOrder(q), NEW id \in QueuedIds(q)
    PROVE  /\ Removed(q, id) \in Seq(Session)
           /\ InOrder(Removed(q, id))
           /\ \E s \in Elements(q) : Elements(Removed(q, id)) = Elements(q) \ {s}
<1> DEFINE at == Position(q, id)
           front == SubSeq(q, 1, at - 1)
           back == SubSeq(q, at + 1, Len(q))
           r == Removed(q, id)
<1>1. Len(q) \in Nat /\ DOMAIN q = 1 .. Len(q)
  BY LenProperties
<1>2. \A i \in 1 .. Len(q) : q[i] \in Session
  BY ElementOfSeq
<1>3. at \in 1 .. Len(q)
  BY <1>1 DEF Position, QueuedIds
<1>4. r = front \o back
  BY DEF Removed
<1> HIDE DEF at, r
<1>5. /\ front \in Seq(Session) /\ Len(front) = at - 1
      /\ \A i \in 1 .. at - 1 : front[i] = q[i]
  <2>1. \A i \in 1 .. at - 1 : q[i] \in Session
    BY <1>1, <1>2, <1>3
  <2>2. /\ front \in Seq(Session)
        /\ Len(front) = IF 1 <= at - 1 THEN (at - 1) - 1 + 1 ELSE 0
        /\ \A i \in 1 .. (at - 1) - 1 + 1 : front[i] = q[1 + i - 1]
    BY <1>3, <2>1, SubSeqProperties
  <2> HIDE DEF front
  <2> QED
    BY <1>3, <2>2
<1>6. /\ back \in Seq(Session) /\ Len(back) = Len(q) - at
      /\ \A i \in 1 .. Len(q) - at : back[i] = q[at + i]
  <2>1. \A i \in at + 1 .. Len(q) : q[i] \in Session
    BY <1>1, <1>2, <1>3
  <2>2. /\ back \in Seq(Session)
        /\ Len(back) = IF at + 1 <= Len(q) THEN Len(q) - (at + 1) + 1 ELSE 0
        /\ \A i \in 1 .. Len(q) - (at + 1) + 1 : back[i] = q[(at + 1) + i - 1]
    BY <1>1, <1>3, <2>1, SubSeqProperties
  <2> HIDE DEF back
  <2>3. Len(q) - (at + 1) + 1 = Len(q) - at /\ \A i \in Int : (at + 1) + i - 1 = at + i
    BY <1>1, <1>3
  <2>4. at \in Int /\ Len(q) \in Int /\ at <= Len(q)
    BY <1>1, <1>3
  <2>5. Len(back) = IF at + 1 <= Len(q) THEN Len(q) - (at + 1) + 1 ELSE 0
    BY <2>2
  <2>6. Len(back) = Len(q) - at
    BY <2>4, <2>5
  <2>7. \A i \in 1 .. Len(q) - at : back[i] = q[(at + 1) + i - 1]
    BY <2>2, <2>3, Zenon
  <2>8. \A i \in 1 .. Len(q) - at : back[i] = q[at + i]
    <3> TAKE i \in 1 .. Len(q) - at
    <3>1. i \in Int
      BY <2>4
    <3>2. (at + 1) + i - 1 = at + i
      BY <2>3, <3>1
    <3> QED
      BY <2>7, <3>2, Zenon
  <2> QED
    BY <2>2, <2>6, <2>8, Zenon
<1> HIDE DEF front, back
<1> DEFINE n == Len(q) - 1
           order == [i \in 1 .. n |-> IF i < at THEN i ELSE i + 1]
<1>7. n \in Nat /\ order \in [1 .. n -> 1 .. Len(q)]
  BY <1>1, <1>3
<1>8. \A i, j \in 1 .. n : i < j => order[i] < order[j]
  BY <1>1, <1>3
<1>9. /\ r \in Seq(Session) /\ Len(r) = Len(front) + Len(back)
      /\ \A i \in 1 .. Len(front) + Len(back) :
          r[i] = IF i <= Len(front) THEN front[i] ELSE back[i - Len(front)]
  BY <1>4, <1>5, <1>6, ConcatProperties
<1>10. Len(front) + Len(back) = n
  BY <1>1, <1>3, <1>5, <1>6
<1>11. ASSUME NEW i \in 1 .. n
       PROVE  r[i] = q[order[i]]
  <2>1. r[i] = IF i <= at - 1 THEN front[i] ELSE back[i - (at - 1)]
    BY <1>5, <1>9, <1>10
  <2>2. CASE i < at
    BY <1>1, <1>3, <1>5, <2>1, <2>2
  <2>3. CASE i >= at
    <3>1. i - (at - 1) \in 1 .. Len(q) - at /\ at + (i - (at - 1)) = i + 1
      BY <1>1, <1>3, <2>3
    <3> QED
      BY <1>1, <1>3, <1>6, <2>1, <2>3, <3>1
  <2> QED
    BY <1>1, <1>3, <2>2, <2>3
<1>12. \A k \in 1 .. Len(q) : k # at => \E i \in 1 .. n : order[i] = k
  <2> TAKE k \in 1 .. Len(q)
  <2>1. CASE k < at
    <3>1. k \in 1 .. n /\ order[k] = k
      BY <1>1, <1>3, <2>1
    <3> QED
      BY <3>1
  <2>2. CASE k > at
    <3>1. k - 1 \in 1 .. n /\ order[k - 1] = k
      BY <1>1, <1>3, <2>2
    <3> QED
      BY <3>1
  <2> QED
    BY <1>1, <1>3, <2>1, <2>2
<1>13. \A i \in 1 .. n : order[i] # at
  BY <1>1, <1>3
<1> HIDE DEF n, order
<1>14. InOrder(r)
  BY <1>7, <1>8, <1>9, <1>10, <1>11, PickedInOrder
<1>15. Elements(r) = Elements(q) \ {q[at]}
  <2>1. DOMAIN r = 1 .. n
    BY <1>9, <1>10, LenProperties
  <2>2. \A k \in 1 .. Len(q) : k # at => q[k] # q[at]
    BY <1>1, <1>3 DEF InOrder
  <2>3. \A b : b \in Elements(r) <=> \E i \in 1 .. n : b = q[order[i]]
    BY <1>11, <2>1 DEF Elements
  <2>4. \A b : b \in Elements(r) <=> \E k \in 1 .. Len(q) : k # at /\ b = q[k]
    BY <1>7, <1>12, <1>13, <2>3
  <2>5. \A b : b \in Elements(r) <=> b \in Elements(q) \ {q[at]}
    BY <1>1, <1>3, <2>2, <2>4 DEF Elements
  <2> QED
    BY <2>5
<1>16. q[at] \in Elements(q)
  BY <1>1, <1>3 DEF Elements
<1> QED
  BY <1>9, <1>14, <1>15, <1>16 DEF r

-----------------------------------------------------------------------------

\* The vector's type and its order are one inductive invariant.
IInv == queue \in Seq(Session) /\ InOrder(queue)

LEMMA InOrderIsWindowsInOrder ==
    ASSUME queue \in Seq(Session)
    PROVE  InOrder(queue) <=> WindowsInOrder
BY LenProperties DEF InOrder, WindowsInOrder

LEMMA InitInOrder == Init => IInv
BY EmptySeq, LenProperties DEF Init, IInv, InOrder

LEMMA NextInOrder == IInv /\ [Next]_queue => IInv'
<1> SUFFICES ASSUME IInv, [Next]_queue
             PROVE  IInv'
  OBVIOUS
<1> USE DEF IInv
<1>1. ASSUME NEW s \in EvSession, Insert(s)
      PROVE  IInv'
  BY <1>1, InsertedInOrder DEF Insert, EvSession, Session
<1>2. ASSUME NEW s \in EvSession, NEW ids \in SUBSET SessionIds, Replace(ids, s)
      PROVE  IInv'
  <2>1. PICK order \in Ascending(Unnamed(queue, ids)) :
            /\ Conflicts(Picked(queue, order), s) = {}
            /\ queue' = Inserted(Picked(queue, order), s)
    BY <1>2 DEF Replace
  <2> DEFINE rest == Picked(queue, order)
  <2>2. rest \in Seq(Session) /\ InOrder(rest)
    BY <2>1, FilteredInOrder DEF Unnamed
  <2>3. QueuedIds(rest) \subseteq QueuedIds(queue)
    BY <2>1 DEF QueuedIds, Picked, Ascending, Unnamed
  <2>4. s.id \notin QueuedIds(rest)
    BY <1>2, <2>3 DEF Replace
  <2> HIDE DEF rest
  <2>5. Conflicts(rest, s) = {} /\ queue' = Inserted(rest, s)
    BY <2>1 DEF rest
  <2> QED
    BY <2>2, <2>4, <2>5, InsertedInOrder DEF EvSession, Session
<1>3. ASSUME NEW id \in SessionIds, Remove(id)
      PROVE  IInv'
  BY <1>3, RemovedInOrder DEF Remove
<1>4. ASSUME NEW now \in Times, Expire(now)
      PROVE  IInv'
  <2>1. PICK order \in Ascending(Unexpired(queue, now)) : queue' = Picked(queue, order)
    BY <1>4 DEF Expire
  <2> QED
    BY <2>1, FilteredInOrder DEF Unexpired
<1>5. CASE UNCHANGED queue
  BY <1>5
<1> QED
  BY <1>1, <1>2, <1>3, <1>4, <1>5 DEF Next

\* Every queued session is well formed, whichever of the calls made the queue.
THEOREM TypeCorrect == Spec => []TypeOK
<1>1. IInv => TypeOK
  BY DEF IInv, TypeOK, Session
<1> QED
  BY <1>1, InitInOrder, NextInOrder, PTL DEF Spec

\* The queue is sorted by window start, no two windows overlap and no id is
\* queued twice: what the searches by position rely on.
THEOREM QueueInOrder == Spec => []WindowsInOrder
<1>1. IInv => WindowsInOrder
  BY InOrderIsWindowsInOrder DEF IInv
<1> QED
  BY <1>1, InitInOrder, NextInOrder, PTL DEF Spec

-----------------------------------------------------------------------------

\* On a vector in order the searches of `current` and `upcoming` find at most
\* one session each, whose neighbours they need not look at.
Contains(s, now) == s.window_start <= now /\ now < s.departure_time

LEMMA SearchFacts ==
    ASSUME IInv, NEW now \in Times
    PROVE  /\ \A i \in DOMAIN queue : i \in Int /\ queue[i] \in Session
           /\ \A i, j \in DOMAIN queue : i < j =>
                /\ queue[i].departure_time <= queue[j].window_start
                /\ Contains(queue[j], now) => queue[i].departure_time <= now
           /\ \A i, j \in DOMAIN queue :
                Contains(queue[i], now) /\ Contains(queue[j], now) => i = j
<1>1. DOMAIN queue = 1 .. Len(queue) /\ Len(queue) \in Nat
  BY LenProperties DEF IInv
<1>2. \A i \in DOMAIN queue : i \in Int /\ queue[i] \in Session
  BY <1>1, ElementOfSeq DEF IInv
<1>3. now \in Int
  BY TimesAssumption
<1>4. \A i, j \in DOMAIN queue : i < j => queue[i].departure_time <= queue[j].window_start
  BY <1>1 DEF IInv, InOrder
<1>5. \A i, j \in DOMAIN queue : i < j /\ Contains(queue[j], now) => queue[i].departure_time <= now
  BY <1>2, <1>3, <1>4, SessionFields DEF Contains
<1>6. ASSUME NEW i \in DOMAIN queue, NEW j \in DOMAIN queue,
             Contains(queue[i], now), Contains(queue[j], now)
      PROVE  i = j
  <2>1. ~(i < j) /\ ~(j < i)
    BY <1>2, <1>3, <1>5, <1>6, SessionFields DEF Contains
  <2> QED
    BY <1>2, <2>1
<1> QED
  BY <1>2, <1>4, <1>5, <1>6

\* What the two lookups are, without the search.
LEMMA LookupsFirst ==
    ASSUME NEW now
    PROVE  /\ Current(queue, now) =
                { queue[i] : i \in { j \in DOMAIN queue :
                    Contains(queue[j], now) /\ \A k \in 1 .. j - 1 : ~Contains(queue[k], now) } }
           /\ Upcoming(queue, now) =
                { queue[i] : i \in { j \in DOMAIN queue :
                    /\ queue[j].departure_time > now
                    /\ \A k \in 1 .. j - 1 : ~(queue[k].departure_time > now) } }
BY DEF Current, Upcoming, IsFirst, Contains

LEMMA EarlierIsQueued ==
    ASSUME IInv, NEW i \in DOMAIN queue, NEW k \in 1 .. i - 1
    PROVE  k \in DOMAIN queue /\ k < i
BY LenProperties DEF IInv

LEMMA CurrentAlone ==
    ASSUME IInv, NEW now \in Times
    PROVE  Current(queue, now) =
                { queue[i] : i \in { j \in DOMAIN queue : Contains(queue[j], now) } }
<1>1. ASSUME NEW j \in DOMAIN queue, Contains(queue[j], now), NEW k \in 1 .. j - 1
      PROVE  ~Contains(queue[k], now)
  <2>1. k \in DOMAIN queue /\ k < j
    BY EarlierIsQueued
  <2>2. k \in Int /\ j \in Int
    BY <2>1, SearchFacts
  <2> QED
    BY <1>1, <2>1, <2>2, SearchFacts
<1> QED
  BY <1>1, LookupsFirst

LEMMA UpcomingIsFirst ==
    ASSUME IInv, NEW now \in Times
    PROVE  /\ \A u \in Upcoming(queue, now) : \A i \in DOMAIN queue :
                queue[i].departure_time > now => u.departure_time <= queue[i].departure_time
           /\ Current(queue, now) # {} => Upcoming(queue, now) = Current(queue, now)
<1>0. now \in Int /\ Len(queue) \in Nat /\ DOMAIN queue = 1 .. Len(queue)
  BY TimesAssumption, LenProperties DEF IInv
<1>1. ASSUME NEW u \in Upcoming(queue, now), NEW i \in DOMAIN queue,
             queue[i].departure_time > now
      PROVE  u.departure_time <= queue[i].departure_time
  <2>1. PICK j \in DOMAIN queue :
            u = queue[j] /\ \A k \in 1 .. j - 1 : ~(queue[k].departure_time > now)
    BY LookupsFirst
  <2>2. i \in Int /\ j \in Int /\ queue[i] \in Session /\ queue[j] \in Session
    BY SearchFacts
  <2>3. ~(i < j)
    BY <1>0, <1>1, <2>1, <2>2
  <2>4. CASE i = j
    BY <2>1, <2>2, <2>4, SessionFields
  <2>5. CASE j < i
    <3>1. queue[j].departure_time <= queue[i].window_start
      BY <2>5, SearchFacts
    <3> QED
      BY <2>1, <2>2, <3>1, SessionFields
  <2> QED
    BY <2>2, <2>3, <2>4, <2>5
<1>2. ASSUME Current(queue, now) # {}
      PROVE  Upcoming(queue, now) = Current(queue, now)
  <2>1. PICK j \in DOMAIN queue : Contains(queue[j], now)
    BY <1>2, CurrentAlone
  <2>2. Current(queue, now) = {queue[j]}
    BY <2>1, CurrentAlone, SearchFacts
  <2>3. queue[j].departure_time > now
    BY <1>0, <2>1, SearchFacts, SessionFields DEF Contains
  <2>4. \A k \in 1 .. j - 1 : ~(queue[k].departure_time > now)
    <3> TAKE k \in 1 .. j - 1
    <3>1. k \in DOMAIN queue /\ k < j
      BY EarlierIsQueued
    <3>2. queue[k] \in Session /\ queue[k].departure_time <= now
      BY <2>1, <3>1, SearchFacts
    <3> QED
      BY <1>0, <3>2, SessionFields
  <2>5. \A i \in DOMAIN queue :
          /\ queue[i].departure_time > now
          /\ \A k \in 1 .. i - 1 : ~(queue[k].departure_time > now)
          => i = j
    <3> SUFFICES ASSUME NEW i \in DOMAIN queue, queue[i].departure_time > now,
                        \A k \in 1 .. i - 1 : ~(queue[k].departure_time > now)
                 PROVE  i = j
      OBVIOUS
    <3>1. i \in Int /\ j \in Int
      BY SearchFacts
    <3>2. ~(j < i)
      BY <1>0, <2>3, <3>1
    <3>3. ~(i < j)
      BY <1>0, <2>4, <3>1
    <3> QED
      BY <3>1, <3>2, <3>3
  <2> QED
    BY <2>2, <2>3, <2>4, <2>5, LookupsFirst
<1> QED
  BY <1>1, <1>2

\* `current` finds the only session whose window contains the instant, for
\* every queue the calls can make.
THEOREM CurrentSession == Spec => []CurrentIsUnique
<1>1. IInv => CurrentIsUnique
  BY CurrentAlone DEF CurrentIsUnique, Contains
<1> QED
  BY <1>1, InitInOrder, NextInOrder, PTL DEF Spec

\* `upcoming` finds the session that departs first of those ahead, and the
\* current one whenever there is one.
THEOREM UpcomingSession == Spec => []UpcomingDepartsFirst
<1>1. IInv => UpcomingDepartsFirst
  BY UpcomingIsFirst DEF UpcomingDepartsFirst
<1> QED
  BY <1>1, InitInOrder, NextInOrder, PTL DEF Spec

-----------------------------------------------------------------------------

\* The clashes the vector finds are the ones the calendar sees.
LEMMA ConflictsAreClashing ==
    ASSUME IInv, NEW s
    PROVE  { b \in Elements(queue) : b.id \in Conflicts(queue, s) } = Calendar!Clashing(s)
<1>1. DOMAIN queue = 1 .. Len(queue) /\ Len(queue) \in Nat
  BY LenProperties DEF IInv
<1>2. \A i, j \in DOMAIN queue : queue[i].id = queue[j].id => i = j
  BY <1>1 DEF IInv, InOrder
<1>3. \A i \in DOMAIN queue :
        queue[i].id \in Conflicts(queue, s) <=> queue[i].id # s.id /\ Overlaps(queue[i], s)
  BY <1>2 DEF Conflicts
<1> QED
  BY <1>3 DEF Elements, Overlaps, Calendar!Clashing

\* Every call on the vector is a step of the calendar.
LEMMA CalendarStep == IInv /\ [Next]_queue => [Calendar!Next]_(Elements(queue))
<1> SUFFICES ASSUME IInv, [Next]_queue
             PROVE  Calendar!Next \/ Elements(queue)' = Elements(queue)
  OBVIOUS
<1> USE DEF IInv
<1>e. Elements(queue)' = Elements(queue')
  BY DEF Elements
<1>1. ASSUME NEW s \in EvSession, Insert(s)
      PROVE  Calendar!Next
  <2>1. Elements(queue)' = Elements(queue) \cup {s}
    BY <1>1, <1>e, InsertedInOrder DEF Insert, EvSession, Session
  <2>2. Calendar!Clashing(s) = {}
    BY <1>1, ConflictsAreClashing DEF Insert
  <2>3. \A b \in Elements(queue) : b.id # s.id
    BY <1>1 DEF Insert, QueuedIds, Elements
  <2>4. Calendar!Book(s, {})
    BY <2>1, <2>2, <2>3 DEF Calendar!Book, Elements
  <2> QED
    BY <2>4 DEF Calendar!Next, EvSession, Elements
<1>2. ASSUME NEW s \in EvSession, NEW ids \in SUBSET SessionIds, Replace(ids, s)
      PROVE  Calendar!Next
  <2>1. PICK order \in Ascending(Unnamed(queue, ids)) :
            /\ Conflicts(Picked(queue, order), s) = {}
            /\ queue' = Inserted(Picked(queue, order), s)
    BY <1>2 DEF Replace
  <2> DEFINE rest == Picked(queue, order)
             displaced == { b \in Elements(queue) : b.id \in ids }
  <2>2. /\ rest \in Seq(Session) /\ InOrder(rest)
        /\ Elements(rest) = { queue[k] : k \in Unnamed(queue, ids) }
    BY <2>1, FilteredInOrder DEF Unnamed
  <2>3. Elements(rest) = Elements(queue) \ displaced
    BY <2>2 DEF Elements, Unnamed
  <2>4. s.id \notin QueuedIds(rest)
    <3>1. \A b \in Elements(rest) : b.id # s.id
      BY <1>2, <2>3 DEF Replace, QueuedIds, Elements
    <3> QED
      BY <3>1 DEF QueuedIds, Elements
  <2>5. Conflicts(rest, s) = {} /\ queue' = Inserted(rest, s)
    BY <2>1
  <2> HIDE DEF rest
  <2>6. Elements(queue)' = Elements(rest) \cup {s}
    BY <1>e, <2>2, <2>4, <2>5, InsertedInOrder DEF EvSession, Session
  <2>7. displaced = Calendar!Clashing(s)
    BY <1>2, ConflictsAreClashing DEF Replace
  <2>8. \A b \in Elements(queue) : b.id # s.id
    BY <1>2 DEF Replace, QueuedIds, Elements
  <2>9. PICK d \in SUBSET { queue[i] : i \in DOMAIN queue } : d = displaced
    BY DEF Elements
  <2>10. Calendar!Book(s, d)
    BY <2>3, <2>6, <2>7, <2>8, <2>9 DEF Calendar!Book, Elements
  <2> QED
    BY <2>10 DEF Calendar!Next, EvSession
<1>3. ASSUME NEW id \in SessionIds, Remove(id)
      PROVE  Calendar!Next
  <2>1. PICK s \in Elements(queue) : Elements(queue)' = Elements(queue) \ {s}
    BY <1>3, <1>e, RemovedInOrder DEF Remove
  <2> QED
    BY <2>1 DEF Calendar!Next, Calendar!Release, Elements
<1>4. ASSUME NEW now \in Times, Expire(now)
      PROVE  Calendar!Next
  <2>1. PICK order \in Ascending(Unexpired(queue, now)) : queue' = Picked(queue, order)
    BY <1>4 DEF Expire
  <2>2. Elements(Picked(queue, order)) = { queue[k] : k \in Unexpired(queue, now) }
    BY <2>1, FilteredInOrder DEF Unexpired
  <2>3. Elements(queue)' = { b \in Elements(queue) : b.departure_time > now }
    BY <2>1, <2>2 DEF Elements, Unexpired
  <2>4. Calendar!Depart(now)
    BY <2>3 DEF Calendar!Depart, Elements
  <2> QED
    BY <2>4 DEF Calendar!Next
<1>5. CASE UNCHANGED queue
  BY <1>5 DEF Elements
<1> QED
  BY <1>1, <1>2, <1>3, <1>4, <1>5 DEF Next

\* The vector implements the calendar: searching by position and shifting
\* elements about is a way of booking, displacing, releasing and departing.
THEOREM QueueIsCalendar == Spec => ImplementsCalendar
<1>1. Init => Calendar!Init
  BY EmptySeq DEF Init, Calendar!Init
<1>2. IInv /\ [Next]_queue => [Calendar!Next]_({ queue[i] : i \in DOMAIN queue })
  BY CalendarStep DEF Elements
<1> QED
  BY <1>1, <1>2, InitInOrder, NextInOrder, PTL DEF Spec, ImplementsCalendar, Calendar!Spec

-----------------------------------------------------------------------------
(* The calendar on its own: what any implementation of it, the vector here *)
(* and the sessions of UserRequests, inherits.                             *)

VARIABLE bookings

Promise == INSTANCE EvCalendar

\* Bookings are well formed, whichever of the calls made them.
THEOREM CalendarIsTyped == Promise!Spec => []Promise!TypeOK
<1>1. Promise!Init => Promise!TypeOK
  BY DEF Promise!Init, Promise!TypeOK
<1>2. Promise!TypeOK /\ [Promise!Next]_bookings => Promise!TypeOK'
  BY DEF Promise!TypeOK, Promise!Next, Promise!Book, Promise!Release, Promise!Depart
<1> QED
  BY <1>1, <1>2, PTL DEF Promise!Spec

\* No two sessions of an EV ever claim the same instant or the same id.
THEOREM CalendarHasNoOverlap == Promise!Spec => []Promise!NoOverlap
<1>1. Promise!Init => Promise!NoOverlap
  BY DEF Promise!Init, Promise!NoOverlap
<1>2. Promise!TypeOK /\ Promise!NoOverlap /\ [Promise!Next]_bookings => Promise!NoOverlap'
  <2> SUFFICES ASSUME Promise!TypeOK, Promise!NoOverlap, [Promise!Next]_bookings
               PROVE  Promise!NoOverlap'
    OBVIOUS
  <2>1. ASSUME NEW s \in Promise!EvSession, NEW displaced \in SUBSET bookings,
               Promise!Book(s, displaced)
        PROVE  Promise!NoOverlap'
    <3>1. SUFFICES ASSUME NEW a \in bookings', NEW b \in bookings', a # b
                   PROVE  a.id # b.id /\ ~Promise!Overlaps(a, b)
      BY DEF Promise!NoOverlap
    <3>2. CASE a \in bookings /\ b \in bookings
      BY <3>1, <3>2 DEF Promise!NoOverlap
    <3>3. CASE a = s
      BY <2>1, <3>1, <3>3 DEF Promise!Book, Promise!Clashing, Promise!Overlaps
    <3>4. CASE b = s
      BY <2>1, <3>1, <3>4 DEF Promise!Book, Promise!Clashing, Promise!Overlaps
    <3> QED
      BY <2>1, <3>2, <3>3, <3>4 DEF Promise!Book
  <2>2. ASSUME NEW s \in bookings, Promise!Release(s)
        PROVE  Promise!NoOverlap'
    BY <2>2 DEF Promise!Release, Promise!NoOverlap
  <2>3. ASSUME NEW t \in Times, Promise!Depart(t)
        PROVE  Promise!NoOverlap'
    BY <2>3 DEF Promise!Depart, Promise!NoOverlap
  <2>4. CASE UNCHANGED bookings
    BY <2>4 DEF Promise!NoOverlap
  <2> QED
    BY <2>1, <2>2, <2>3, <2>4 DEF Promise!Next
<1> QED
  BY <1>1, <1>2, CalendarIsTyped, PTL DEF Promise!Spec

=============================================================================
