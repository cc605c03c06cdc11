------------------------ MODULE EventScheduleProofs ------------------------
(***************************************************************************)
(* Theorems about EventSchedule, for any events, listings, plans and caps. *)
(***************************************************************************)
EXTENDS EventSchedule, WellFoundedInduction, FiniteSetTheorems, TLAPS

-----------------------------------------------------------------------------
(* Least and greatest elements                                             *)

\* Induction over the naturals, as the existence of a least counterexample.
Lower == {ss \in Nat \X Nat : ss[1] < ss[2]}

LEMMA LowerIsWellFounded == IsWellFoundedOn(Lower, Nat)
BY NatLessThanWellFounded DEF OpToRel, Lower

LEMMA NatHasLeast ==
    ASSUME NEW T, T \subseteq Nat, T # {}
    PROVE  \E x \in T : \A y \in T : x <= y
<1>1. PICK x \in T : \A y \in T : ~ (<<y, x>> \in Lower)
    BY LowerIsWellFounded, WFMin
<1>2. \A y \in T : ~(y < x)
    BY <1>1 DEF Lower
<1> QED BY <1>2

\* A set of integers that is bounded on one side has its least or greatest
\* element there.
LEMMA MinIsLeast ==
    ASSUME NEW S, S \subseteq Int, S # {}, NEW low \in Int, \A x \in S : low <= x
    PROVE  Min(S) \in S /\ \A y \in S : Min(S) <= y
<1> DEFINE T == {n \in Nat : low + n \in S}
<1>1. T \subseteq Nat /\ T # {}
    <2>1. PICK x \in S : TRUE
        OBVIOUS
    <2>2. x - low \in Nat /\ low + (x - low) = x
        BY <2>1
    <2> QED BY <2>2
<1>2. PICK n \in T : \A m \in T : n <= m
    BY <1>1, NatHasLeast
<1>3. low + n \in S /\ \A y \in S : low + n <= y
    <2>1. ASSUME NEW y \in S PROVE low + n <= y
        <3>1. y - low \in Nat /\ low + (y - low) = y
            OBVIOUS
        <3>2. y - low \in T
            BY <3>1
        <3> QED BY <3>1, <3>2, <1>2
    <2> QED BY <2>1, <1>2
<1> QED BY <1>3 DEF Min

LEMMA MaxIsGreatest ==
    ASSUME NEW S, S \subseteq Int, S # {}, NEW high \in Int, \A x \in S : x <= high
    PROVE  Max(S) \in S /\ \A y \in S : Max(S) >= y
<1> DEFINE T == {n \in Nat : high - n \in S}
<1>1. T \subseteq Nat /\ T # {}
    <2>1. PICK x \in S : TRUE
        OBVIOUS
    <2>2. high - x \in Nat /\ high - (high - x) = x
        BY <2>1
    <2> QED BY <2>2
<1>2. PICK n \in T : \A m \in T : n <= m
    BY <1>1, NatHasLeast
<1>3. high - n \in S /\ \A y \in S : high - n >= y
    <2>1. ASSUME NEW y \in S PROVE high - n >= y
        <3>1. high - y \in Nat /\ high - (high - y) = y
            OBVIOUS
        <3>2. high - y \in T
            BY <3>1
        <3>3. n <= high - y /\ y \in Int /\ n \in Nat
            BY <3>2, <1>2
        <3> QED BY <3>3
    <2> QED BY <2>1, <1>2
<1> QED BY <1>3 DEF Max

-----------------------------------------------------------------------------
(* The event this VEN acts on                                              *)

\* What ScheduleAssumption says of one event.
LEMMA DeclaredTyped ==
    ASSUME NEW e \in Events
    PROVE  /\ Declared[e] \in Event
           /\ Declared[e].period \in [start : Instant, dur : Span, window : Nat]
           /\ Declared[e].duration \in Span
           /\ Declared[e].intervals \in Seq(Interval)
           /\ Len(Declared[e].intervals) \in Nat \ {0}
           /\ DOMAIN Declared[e].intervals = 1..Len(Declared[e].intervals)
           /\ \A k \in DOMAIN Declared[e].intervals : Declared[e].intervals[k] \in Interval
BY ScheduleAssumption DEF Event

LEMMA NoneIsNoNumber == None \notin Int /\ OpenEnd \in Nat \ {0} /\ OpenStart = -OpenEnd
BY ScheduleAssumption DEF OpenStart, Horizon

\* A randomized start only delays.
LEMMA OffsetIsNat ==
    ASSUME NEW e \in Events, NEW window \in Nat
    PROVE  StartOffset(e, window) \in Nat
<1>1. Fraction[e] \in Nat
    <2>1. Fraction \in [Events -> 0..99]
        BY ScheduleAssumption
    <2>2. Fraction[e] \in 0..99
        BY <2>1
    <2> QED BY <2>2
<1>2. \A a, b \in Nat : a * b \in Nat
    OBVIOUS
<1>3. window * Fraction[e] \in Nat
    BY <1>1, <1>2
<1>4. \A a \in Nat : a \div 100 \in Nat
    OBVIOUS
<1> QED BY <1>3, <1>4 DEF StartOffset

\* When a period that was written down starts, once this VEN's share of the
\* window is added.
Delayed(e, period) == IF period.start = None THEN None ELSE period.start + StartOffset(e, period.window)

\* The fields of the event this VEN acts on.
LEMMA ActedOn ==
    ASSUME NEW e \in Events
    PROVE  LET event == WithRandomizedStart(e)
           IN  /\ event.duration = Declared[e].duration
               /\ event.period.dur = Declared[e].period.dur
               /\ event.period.start = Delayed(e, Declared[e].period)
               /\ DOMAIN event.intervals = 1..Len(Declared[e].intervals)
               /\ \A k \in DOMAIN event.intervals :
                    /\ event.intervals[k].dur = Declared[e].intervals[k].dur
                    /\ event.intervals[k].payload = Declared[e].intervals[k].payload
                    /\ event.intervals[k].start = Delayed(e, Declared[e].intervals[k])
<1> DEFINE d == Declared[e]
           Moved(period) ==
                IF period.start = None THEN period
                ELSE [period EXCEPT !.start = @ + StartOffset(e, period.window)]
           event == WithRandomizedStart(e)
<1>1. /\ d \in Event /\ d.period \in [start : Instant, dur : Span, window : Nat]
      /\ DOMAIN d.intervals = 1..Len(d.intervals)
      /\ \A k \in DOMAIN d.intervals : d.intervals[k] \in Interval
    BY DeclaredTyped
<1>2. event = [d EXCEPT !.period = Moved(@), !.intervals = [k \in DOMAIN @ |-> Moved(@[k])]]
    BY DEF WithRandomizedStart
<1>3. /\ event.duration = d.duration
      /\ event.period = Moved(d.period)
      /\ event.intervals = [k \in DOMAIN d.intervals |-> Moved(d.intervals[k])]
    BY <1>1, <1>2 DEF Event
<1>4. Moved(d.period).dur = d.period.dur /\ Moved(d.period).start = Delayed(e, d.period)
    BY <1>1 DEF Delayed
<1>5. ASSUME NEW k \in DOMAIN d.intervals
      PROVE  /\ Moved(d.intervals[k]).dur = d.intervals[k].dur
             /\ Moved(d.intervals[k]).payload = d.intervals[k].payload
             /\ Moved(d.intervals[k]).start = Delayed(e, d.intervals[k])
    BY <1>1, <1>5 DEF Delayed, Interval
<1> HIDE DEF Moved, event, d
<1> QED BY <1>1, <1>3, <1>4, <1>5 DEF event, d

\* The intervals of that event, timed.
Base(e) == BaseIntervals(WithRandomizedStart(e))

Count(e) == Len(Declared[e].intervals)

\* The recursion over the intervals has a solution, so it says what it defines.
LEMMA BaseUnrolls ==
    ASSUME NEW e \in Events
    PROVE  LET event == WithRandomizedStart(e)
           IN  /\ DOMAIN Base(e) = 1..Count(e)
               /\ \A k \in 1..Count(e) :
                    Base(e)[k] = BaseInterval(event, k,
                                    IF k = 1 THEN event.period.start ELSE Base(e)[k - 1].end)
<1> DEFINE event == WithRandomizedStart(e)
           n == Count(e)
           Step(f, k) == BaseInterval(event, k, IF k = 1 THEN event.period.start ELSE f[k - 1].end)
           Solves(f, m) == DOMAIN f = 1..m /\ f = [k \in 1..m |-> f[k]] /\ \A k \in 1..m : f[k] = Step(f, k)
           T == {m \in 0..n : \A f : ~Solves(f, m)}
<1>0. n \in Nat /\ DOMAIN event.intervals = 1..n
    BY DeclaredTyped, ActedOn DEF Count
<1>1. Solves([k \in 1..0 |-> k], 0)
    OBVIOUS
<1>2. ASSUME NEW m \in 1..n, NEW f, Solves(f, m - 1)
      PROVE  \E g : Solves(g, m)
    <2> DEFINE g == [k \in 1..m |-> IF k = m THEN Step(f, m) ELSE f[k]]
    <2>1. m \in Nat /\ m >= 1
        BY <1>0
    <2>2. ASSUME NEW k \in 1..m PROVE g[k] = Step(g, k)
        <3>1. k - 1 \in 0..m - 1 /\ (k = 1 \/ g[k - 1] = f[k - 1])
            BY <2>1
        <3>2. Step(g, k) = Step(f, k)
            BY <3>1
        <3>3. CASE k = m
            BY <3>2, <3>3
        <3>4. CASE k # m
            <4>1. k \in 1..m - 1
                BY <2>1, <3>4
            <4>2. f[k] = Step(f, k)
                BY <4>1, <1>2
            <4> QED BY <4>2, <3>2, <3>4
        <3> QED BY <3>3, <3>4
    <2>3. DOMAIN g = 1..m /\ g = [k \in 1..m |-> g[k]]
        OBVIOUS
    <2> HIDE DEF g, Step
    <2> QED BY <2>2, <2>3
<1>3. \E f : Solves(f, n)
    <2> SUFFICES ASSUME \A f : ~Solves(f, n) PROVE FALSE
        OBVIOUS
    <2>1. n \in T /\ T \subseteq Nat
        BY <1>0
    <2>2. PICK m \in T : \A j \in T : m <= j
        <3>1. T \subseteq Nat /\ T # {}
            BY <2>1
        <3> HIDE DEF T
        <3> QED BY <3>1, NatHasLeast
    <2>3. m # 0
        <3>1. 0 \notin T
            BY <1>1
        <3> HIDE DEF T
        <3> QED BY <2>2, <3>1
    <2>4. m - 1 \in 0..n /\ m \in 1..n /\ m - 1 \notin T
        <3>1. m \in 0..n /\ \A j \in T : m <= j
            BY <2>2
        <3> HIDE DEF T
        <3> QED BY <3>1, <2>3, <1>0
    <2>5. PICK f : Solves(f, m - 1)
        BY <2>4
    <2>6. \E g : Solves(g, m)
        BY <2>4, <2>5, <1>2
    <2> QED BY <2>6, <2>2
<1>4. PICK f : Solves(f, n)
    BY <1>3
<1>5. f = [k \in DOMAIN event.intervals |->
                BaseInterval(event, k, IF k = 1 THEN event.period.start ELSE f[k - 1].end)]
    <2>1. \A k \in 1..n : f[k] = Step(f, k)
        BY <1>4
    <2>2. f = [k \in 1..n |-> Step(f, k)]
        BY <1>4, <2>1
    <2> QED BY <2>2, <1>0
<1>6. Base(e) = CHOOSE g : g = [k \in DOMAIN event.intervals |->
                BaseInterval(event, k, IF k = 1 THEN event.period.start ELSE g[k - 1].end)]
    BY DEF Base, BaseIntervals
<1>7. Base(e) = [k \in DOMAIN event.intervals |->
                BaseInterval(event, k, IF k = 1 THEN event.period.start ELSE Base(e)[k - 1].end)]
    BY <1>5, <1>6
<1> HIDE DEF event
<1> QED BY <1>7, <1>0 DEF event

-----------------------------------------------------------------------------
(* The intervals, timed, are the spans the event asks for                  *)

LEMMA DurIsSpan ==
    ASSUME NEW e \in Events, NEW k \in 1..Count(e)
    PROVE  Lasts(e, k) \in Span
<1>1. Declared[e].intervals[k] \in Interval /\ Declared[e].period.dur \in Span
    BY DeclaredTyped DEF Count
<1>2. Declared[e].intervals[k].dur \in Span
    BY <1>1 DEF Interval
<1> QED BY <1>1, <1>2 DEF Lasts, OrElse, Span

\* The sum of the durations, likewise, is what its recursion says.
LEMMA ElapsedUnrolls ==
    ASSUME NEW e \in Events
    PROVE  /\ Elapsed(e) \in [0..Count(e) -> Nat]
           /\ \A k \in 1..Count(e) : Elapsed(e)[k] = Elapsed(e)[k - 1] + OrElse(Lasts(e, k), 0)
<1> DEFINE n == Count(e)
           Step(f, k) == IF k = 0 THEN 0 ELSE f[k - 1] + OrElse(Lasts(e, k), 0)
           Solves(f, m) == f \in [0..m -> Nat] /\ \A k \in 0..m : f[k] = Step(f, k)
           T == {m \in 0..n : \A f : ~Solves(f, m)}
<1>0. n \in Nat
    BY DeclaredTyped DEF Count
<1>a. \A k \in 1..n : OrElse(Lasts(e, k), 0) \in Nat
    BY DurIsSpan DEF OrElse, Span
<1>1. Solves([k \in 0..0 |-> 0], 0)
    OBVIOUS
<1>2. ASSUME NEW m \in 1..n, NEW f, Solves(f, m - 1)
      PROVE  \E g : Solves(g, m)
    <2> DEFINE g == [k \in 0..m |-> IF k = m THEN Step(f, m) ELSE f[k]]
    <2>1. m \in Nat /\ m >= 1
        BY <1>0
    <2>2. ASSUME NEW k \in 0..m PROVE g[k] = Step(g, k) /\ g[k] \in Nat
        <3>1. k = 0 \/ (k - 1 \in 0..m - 1 /\ k \in 1..n /\ g[k - 1] = f[k - 1] /\ f[k - 1] \in Nat)
            BY <2>1, <1>2, <1>0
        <3>2. Step(g, k) = Step(f, k) /\ Step(f, k) \in Nat
            BY <3>1, <1>a
        <3>3. CASE k = m
            BY <3>2, <3>3
        <3>4. CASE k # m
            <4>1. k \in 0..m - 1
                BY <2>1, <3>4
            <4>2. f[k] = Step(f, k)
                BY <4>1, <1>2
            <4> QED BY <4>2, <3>2, <3>4
        <3> QED BY <3>3, <3>4
    <2>3. DOMAIN g = 0..m /\ g = [k \in 0..m |-> g[k]]
        OBVIOUS
    <2> HIDE DEF g, Step
    <2>4. g \in [0..m -> Nat]
        BY <2>2, <2>3
    <2> QED BY <2>2, <2>4
<1>3. \E f : Solves(f, n)
    <2> SUFFICES ASSUME \A f : ~Solves(f, n) PROVE FALSE
        OBVIOUS
    <2>1. n \in T /\ T \subseteq Nat
        BY <1>0
    <2>2. PICK m \in T : \A j \in T : m <= j
        <3>1. T \subseteq Nat /\ T # {}
            BY <2>1
        <3> HIDE DEF T
        <3> QED BY <3>1, NatHasLeast
    <2>3. m # 0
        <3>1. 0 \notin T
            BY <1>1
        <3> HIDE DEF T
        <3> QED BY <2>2, <3>1
    <2>4. m - 1 \in 0..n /\ m \in 1..n /\ m - 1 \notin T
        <3>1. m \in 0..n /\ \A j \in T : m <= j
            BY <2>2
        <3> HIDE DEF T
        <3> QED BY <3>1, <2>3, <1>0
    <2>5. PICK f : Solves(f, m - 1)
        BY <2>4
    <2>6. \E g : Solves(g, m)
        <3> HIDE DEF Solves
        <3>1. m \in 1..n /\ Solves(f, m - 1)
            BY <2>4, <2>5
        <3> QED BY <3>1, <1>2
    <2> QED BY <2>6, <2>2
<1>4. PICK f : Solves(f, n)
    BY <1>3
<1>5. f = [k \in 0..n |-> Step(f, k)]
    BY <1>4
<1>6. Elapsed(e) = CHOOSE g : g = [k \in 0..n |-> Step(g, k)]
    BY DEF Elapsed, Count
<1>7. Elapsed(e) = [k \in 0..n |-> Step(Elapsed(e), k)]
    BY <1>5, <1>6
<1> DEFINE el == Elapsed(e)
           S == {m \in 0..n : el[m] \notin Nat}
<1>8. \A k \in 0..n : el[k] = Step(el, k)
    BY <1>7
<1> HIDE DEF el
<1>9. S = {}
    <2> SUFFICES ASSUME S # {} PROVE FALSE
        OBVIOUS
    <2>1. PICK m \in S : \A j \in S : m <= j
        <3>1. S \subseteq Nat
            BY <1>0
        <3> QED BY <3>1, NatHasLeast
    <2>2. m # 0
        BY <1>8, <2>1
    <2>3. m \in 1..n /\ m - 1 \in 0..n /\ m - 1 \notin S
        BY <2>1, <2>2, <1>0
    <2>4. el[m - 1] \in Nat /\ el[m] = el[m - 1] + OrElse(Lasts(e, m), 0)
        BY <2>3, <1>8
    <2> QED BY <2>3, <2>4, <1>a, <2>1
<1>10. DOMAIN el = 0..n /\ el = [k \in 0..n |-> el[k]]
    BY <1>7 DEF el
<1>11. el \in [0..n -> Nat]
    BY <1>9, <1>10
<1>12. \A k \in 1..n : el[k] = el[k - 1] + OrElse(Lasts(e, k), 0)
    BY <1>8, <1>0
<1> QED BY <1>11, <1>12 DEF el

\* The nearest interval up to k with a start of its own.
Written(e, k) == {0} \cup {j \in 1..k : Declared[e].intervals[j].start # None}
Nearest(e, k) == Max(Written(e, k))

\* The nearest written start is the interval's own, or that of the one before it.
LEMMA NearestIsWritten ==
    ASSUME NEW e \in Events, NEW k \in 1..Count(e)
    PROVE  /\ Nearest(e, k) \in Written(e, k) /\ Nearest(e, k) \in 0..k
           /\ Declared[e].intervals[k].start # None => Nearest(e, k) = k
           /\ Declared[e].intervals[k].start = None /\ k = 1 => Nearest(e, k) = 0
           /\ Declared[e].intervals[k].start = None /\ k > 1 => Nearest(e, k) = Nearest(e, k - 1)
<1>0. Count(e) \in Nat /\ k \in Nat /\ k >= 1
    BY DeclaredTyped DEF Count
<1>1. Written(e, k) \subseteq Int /\ Written(e, k) # {} /\ \A j \in Written(e, k) : j <= k
    BY <1>0 DEF Written
<1>2. Nearest(e, k) \in Written(e, k) /\ \A j \in Written(e, k) : Nearest(e, k) >= j
    BY <1>0, <1>1, MaxIsGreatest DEF Nearest
<1>3. Nearest(e, k) \in 0..k
    BY <1>0, <1>2 DEF Written
<1>4. ASSUME Declared[e].intervals[k].start # None PROVE Nearest(e, k) = k
    <2>1. k \in Written(e, k)
        BY <1>0, <1>4 DEF Written
    <2> QED BY <2>1, <1>2, <1>3, <1>0
<1>5. ASSUME Declared[e].intervals[k].start = None, k = 1 PROVE Nearest(e, k) = 0
    <2>1. Written(e, k) = {0}
        BY <1>5 DEF Written
    <2> QED BY <2>1, <1>2
<1>6. ASSUME Declared[e].intervals[k].start = None, k > 1 PROVE Nearest(e, k) = Nearest(e, k - 1)
    <2>1. \A j \in 1..k : j = k \/ j \in 1..k - 1
        BY <1>0
    <2>2. \A j \in 1..k - 1 : j \in 1..k
        BY <1>0
    <2>3. Written(e, k) = Written(e, k - 1)
        BY <1>6, <2>1, <2>2 DEF Written
    <2> QED BY <2>3 DEF Nearest
<1> QED BY <1>2, <1>3, <1>4, <1>5, <1>6

LEMMA SpanAsked ==
    ASSUME NEW e \in Events, NEW k \in 1..Count(e)
    PROVE  LET start == StartAfter(e, Nearest(e, k), k)
           IN  /\ AskedSpan(e, k).start = start
               /\ AskedSpan(e, k).end =
                    IF start = OpenStart \/ start = OpenEnd \/ Lasts(e, k) = None THEN OpenEnd
                    ELSE start + Lasts(e, k)
BY DEF AskedSpan, SpanFrom, Nearest, Written

\* What the calendar assumes of one event.
LEMMA Calendar ==
    ASSUME NEW e \in Events
    PROVE  /\ Declared[e].period.start # None => Declared[e].period.start > OpenStart
           /\ \A k \in 1..Count(e) :
                /\ AskedSpan(e, k).start <= OpenEnd /\ AskedSpan(e, k).end <= OpenEnd
                /\ Declared[e].intervals[k].start # None =>
                     /\ Declared[e].intervals[k].start > OpenStart
           /\ Declared[e].duration # None =>
                /\ Bounded(AskedSpan(e, 1)) =>
                     AskedSpan(e, 1).start + Declared[e].duration <= OpenEnd
                /\ \A j, k \in 1..Count(e) : j < k => AskedSpan(e, j).start <= AskedSpan(e, k).start
<1>1. DOMAIN Declared[e].intervals = 1..Count(e)
    BY DeclaredTyped DEF Count
<1> QED BY <1>1, CalendarAssumption

\* Where an interval starts: at its own start, or where the one before it ends.
LEMMA SpanFollows ==
    ASSUME NEW e \in Events, NEW k \in 1..Count(e)
    PROVE  LET own == Delayed(e, Declared[e].intervals[k])
               first == Delayed(e, Declared[e].period)
               start == AskedSpan(e, k).start
           IN  /\ own # None => own \in Int /\ own > OpenStart /\ start = own
               /\ own = None /\ k = 1 /\ first = None => start = OpenStart
               /\ own = None /\ k = 1 /\ first # None =>
                    first \in Int /\ first > OpenStart /\ start = first
               /\ own = None /\ k > 1 =>
                    \/ start = AskedSpan(e, k - 1).end
                    \/ /\ AskedSpan(e, k - 1).start = OpenStart
                       /\ k > 2 \/ first # None \/ Delayed(e, Declared[e].intervals[k - 1]) # None
<1> DEFINE d == Declared[e]
           iv == d.intervals[k]
           n == Nearest(e, k)
           offset == StartOffset(e, IF n = 0 THEN d.period.window ELSE d.intervals[n].window)
           el == Elapsed(e)
<1>0. Count(e) \in Nat /\ k \in Nat /\ k >= 1 /\ k - 1 \in 0..Count(e)
    BY DeclaredTyped DEF Count
<1>1. /\ iv \in Interval /\ iv.start \in Instant
      /\ d.period.start \in Instant /\ d.period.window \in Nat
    <2>1. iv \in Interval /\ d.period \in [start : Instant, dur : Span, window : Nat]
        BY DeclaredTyped DEF Count
    <2> QED BY <2>1 DEF Interval
<1>2. offset \in Nat /\ n \in 0..k
    <2>1. n \in 0..k
        BY NearestIsWritten
    <2>2. CASE n = 0
        BY <2>1, <2>2, <1>1, OffsetIsNat
    <2>3. CASE n # 0
        <3>1. n \in 1..Count(e)
            BY <2>1, <2>3, <1>0
        <3>2. d.intervals[n].window \in Nat
            <4>1. d.intervals[n] \in Interval
                BY <3>1, DeclaredTyped DEF Count
            <4> QED BY <4>1 DEF Interval
        <3>3. StartOffset(e, d.intervals[n].window) \in Nat
            BY <3>2, OffsetIsNat
        <3> QED BY <2>1, <3>3, <2>3
    <2> QED BY <2>2, <2>3
<1>3. el \in [0..Count(e) -> Nat]
    BY ElapsedUnrolls
<1>4. None \notin Int /\ OpenEnd \in Nat \ {0} /\ OpenStart = -OpenEnd
    BY NoneIsNoNumber
<1>5. AskedSpan(e, k).start = StartAfter(e, n, k)
    BY SpanAsked
<1>6. StartAfter(e, n, k) =
        LET anchor == IF n = 0 THEN d.period.start ELSE d.intervals[n].start
            first == Max({n, 1})
        IN  IF anchor = None THEN IF k = 1 THEN OpenStart ELSE OpenEnd
            ELSE IF \E j \in first..k - 1 : Lasts(e, j) = None THEN OpenEnd
            ELSE anchor + offset + el[k - 1] - el[first - 1]
    <2>1. CASE n = 0
        BY <2>1 DEF StartAfter
    <2>2. CASE n # 0
        BY <2>2 DEF StartAfter
    <2> QED BY <2>1, <2>2
<1>7. Max({n, 1}) = IF n = 0 THEN 1 ELSE n
    <2>1. n \in 0..k
        BY NearestIsWritten
    <2>2. {n, 1} \subseteq Int /\ {n, 1} # {} /\ \A x \in {n, 1} : x <= k
        BY <2>1, <1>0
    <2> DEFINE m == Max({n, 1})
    <2>3. m \in {n, 1} /\ \A y \in {n, 1} : m >= y
        BY <2>2, <1>0, MaxIsGreatest
    <2> HIDE DEF m, n
    <2> QED BY <2>1, <2>3, <1>0 DEF m
<1>8. CASE iv.start # None
    <2>1. n = k
        BY <1>8, NearestIsWritten
    <2>2. iv.start \in Int /\ iv.start > OpenStart /\ offset = StartOffset(e, iv.window)
        BY <1>8, <1>1, <1>0, <2>1, Calendar DEF Instant
    <2>3. Delayed(e, iv) = iv.start + offset
        BY <1>8, <2>2 DEF Delayed
    <2>4. AskedSpan(e, k).start = iv.start + offset + el[k - 1] - el[k - 1]
        <3>1. ~\E j \in k..k - 1 : Lasts(e, j) = None
            BY <1>0
        <3> HIDE DEF offset, el, n
        <3> QED BY <1>5, <1>6, <1>7, <2>1, <3>1, <1>8, <1>0
    <2>5. el[k - 1] \in Nat
        BY <1>3, <1>0
    <2>6. Delayed(e, iv) \in Int /\ Delayed(e, iv) > OpenStart /\ AskedSpan(e, k).start = Delayed(e, iv)
        <3> HIDE DEF offset, el
        <3> QED BY <2>2, <2>3, <2>4, <2>5, <1>2, <1>4
    <2> QED BY <2>6, <1>4
<1>9. CASE iv.start = None /\ k = 1
    <2>1. n = 0 /\ Delayed(e, iv) = None
        BY <1>9, NearestIsWritten DEF Delayed
    <2>2. CASE d.period.start = None
        <3>1. Delayed(e, d.period) = None /\ AskedSpan(e, k).start = OpenStart
            BY <1>5, <1>6, <2>1, <2>2, <1>9 DEF Delayed
        <3> QED BY <3>1, <2>1, <1>9
    <2>3. CASE d.period.start # None
        <3>1. d.period.start \in Int /\ d.period.start > OpenStart
            BY <2>3, <1>1, Calendar DEF Instant
        <3>2. Delayed(e, d.period) = d.period.start + offset
            BY <2>1, <2>3 DEF Delayed
        <3>3. AskedSpan(e, k).start = d.period.start + offset + el[0] - el[0]
            <4>1. ~\E j \in 1..0 : Lasts(e, j) = None
                OBVIOUS
            <4> HIDE DEF offset, el, n
            <4> QED BY <1>5, <1>6, <1>7, <2>1, <4>1, <2>3, <1>9
        <3>4. el[0] \in Nat
            BY <1>3, <1>0
        <3>5. /\ Delayed(e, d.period) \in Int /\ Delayed(e, d.period) > OpenStart
              /\ AskedSpan(e, k).start = Delayed(e, d.period)
            <4> HIDE DEF offset, el
            <4> QED BY <3>1, <3>2, <3>3, <3>4, <1>2, <1>4
        <3> QED BY <3>5, <2>1, <1>9, <1>4
    <2> QED BY <2>2, <2>3
<1>10. CASE iv.start = None /\ k > 1
    <2> DEFINE anchor == IF n = 0 THEN d.period.start ELSE d.intervals[n].start
               first == IF n = 0 THEN 1 ELSE n
               prev == StartAfter(e, n, k - 1)
               last == Lasts(e, k - 1)
               span == AskedSpan(e, k - 1)
    <2>0. k - 1 \in 1..Count(e) /\ k - 2 \in 0..Count(e) /\ (k - 1) - 1 = k - 2
        BY <1>0, <1>10
    <2>1. n = Nearest(e, k - 1) /\ Delayed(e, iv) = None
        BY <1>10, NearestIsWritten DEF Delayed
    <2>2. n \in 0..k - 1
        BY <2>0, <2>1, NearestIsWritten
    <2>3. /\ span.start = prev
          /\ span.end = IF prev = OpenStart \/ prev = OpenEnd \/ last = None THEN OpenEnd ELSE prev + last
        BY <2>0, <2>1, SpanAsked
    <2>4. prev = IF anchor = None THEN IF k - 1 = 1 THEN OpenStart ELSE OpenEnd
                 ELSE IF \E j \in first..k - 2 : Lasts(e, j) = None THEN OpenEnd
                 ELSE anchor + offset + el[k - 2] - el[first - 1]
        <3>1. CASE n = 0
            BY <3>1, <1>7, <2>0 DEF StartAfter
        <3>2. CASE n # 0
            BY <3>2, <1>7, <2>0 DEF StartAfter
        <3> QED BY <3>1, <3>2
    <2>5. AskedSpan(e, k).start =
                IF anchor = None THEN OpenEnd
                ELSE IF \E j \in first..k - 1 : Lasts(e, j) = None THEN OpenEnd
                ELSE anchor + offset + el[k - 1] - el[first - 1]
        BY <1>5, <1>6, <1>7, <1>10
    <2>6. el[k - 1] = el[k - 2] + OrElse(last, 0) /\ el[k - 2] \in Nat /\ el[first - 1] \in Nat
        <3>1. first - 1 \in 0..Count(e)
            BY <1>0, <2>0, <2>2
        <3> QED BY <2>0, <3>1, <1>3, ElapsedUnrolls
    <2>7. last \in Span
        BY <2>0, DurIsSpan
    <2>8. \A j \in first..k - 1 : j = k - 1 \/ j \in first..k - 2
        BY <1>0, <2>2
    <2>9. k - 1 \in first..k - 1 /\ \A j \in first..k - 2 : j \in first..k - 1
        BY <1>0, <2>2, <2>0
    <2>10. AskedSpan(e, k).start <= OpenEnd
        BY Calendar
    <2>11. anchor = None \/ anchor \in Int
        <3>1. n # 0 => n \in 1..Count(e)
            BY <1>0, <2>2, <2>0
        <3>2. n # 0 => d.intervals[n] \in Interval
            BY <3>1, DeclaredTyped DEF Count
        <3> QED BY <1>1, <3>2 DEF Interval, Instant
    <2> DEFINE follows == AskedSpan(e, k).start = span.end
               odd == /\ span.start = OpenStart
                      /\ k > 2 \/ Delayed(e, d.period) # None \/ Delayed(e, d.intervals[k - 1]) # None
    <2> SUFFICES follows \/ odd
        BY <2>1, <1>10
    <2>a. anchor # None => k > 2 \/ Delayed(e, d.period) # None \/ Delayed(e, d.intervals[k - 1]) # None
        <3>1. CASE n = 0
            <4>1. anchor = d.period.start
                BY <3>1
            <4>2. ASSUME anchor # None PROVE d.period.start \in Int
                BY <4>1, <4>2, <1>1 DEF Instant
            <4>3. ASSUME anchor # None PROVE Delayed(e, d.period) # None
                <5>1. d.period.start \in Int
                    BY <4>2, <4>3
                <5>2. Delayed(e, d.period) = d.period.start + offset
                    BY <5>1, <1>4, <3>1 DEF Delayed
                <5> HIDE DEF offset
                <5> QED BY <5>1, <5>2, <1>2, <1>4
            <4> QED BY <4>3
        <3>2. CASE n # 0 /\ k = 2
            <4>1. n = 1 /\ k - 1 = 1
                BY <2>2, <3>2
            <4>2. anchor = d.intervals[k - 1].start
                BY <4>1
            <4>3. d.intervals[k - 1] \in Interval
                BY <2>0, DeclaredTyped DEF Count
            <4>4. ASSUME anchor # None PROVE Delayed(e, d.intervals[k - 1]) # None
                <5>1. d.intervals[k - 1].start \in Int /\ d.intervals[k - 1].window \in Nat
                    BY <4>2, <4>3, <4>4 DEF Interval, Instant
                <5>2. StartOffset(e, d.intervals[k - 1].window) \in Nat
                    BY <5>1, OffsetIsNat
                <5>3. Delayed(e, d.intervals[k - 1]) = d.intervals[k - 1].start + StartOffset(e, d.intervals[k - 1].window)
                    BY <5>1, <1>4 DEF Delayed
                <5> QED BY <5>1, <5>2, <5>3, <1>4
            <4> QED BY <4>4
        <3>3. CASE k > 2
            BY <3>3
        <3> QED BY <3>1, <3>2, <3>3, <1>10, <1>0
    <2> HIDE DEF anchor, first, prev, last, span, offset, el, n, iv, d
    <2>12. CASE anchor = None
        BY <2>12, <2>3, <2>4, <2>5
    <2>13. CASE anchor # None /\ \E j \in first..k - 1 : Lasts(e, j) = None
        <3>1. AskedSpan(e, k).start = OpenEnd
            BY <2>13, <2>5
        <3>2. last = None \/ prev = OpenEnd
            BY <2>13, <2>8, <2>4 DEF last
        <3> QED BY <3>1, <3>2, <2>3
    <2>14. CASE anchor # None /\ ~\E j \in first..k - 1 : Lasts(e, j) = None
        <3>1. last # None /\ last \in Nat
            BY <2>14, <2>9, <2>7 DEF last, Span
        <3>2. prev = anchor + offset + el[k - 2] - el[first - 1]
            BY <2>14, <2>9, <2>4
        <3>3. AskedSpan(e, k).start = anchor + offset + el[k - 1] - el[first - 1]
            BY <2>14, <2>5
        <3>4. el[k - 1] = el[k - 2] + last
            BY <3>1, <2>6 DEF OrElse
        <3>5. anchor \in Int
            BY <2>11, <2>14
        <3>6. AskedSpan(e, k).start = prev + last /\ prev \in Int
            BY <3>1, <3>2, <3>3, <3>4, <3>5, <2>6, <1>2
        <3>7. CASE prev = OpenStart
            BY <3>7, <2>14, <2>a, <2>3
        <3>8. CASE prev = OpenEnd
            <4>1. last = 0
                BY <3>8, <3>6, <3>1, <2>10, <1>4
            <4> QED BY <4>1, <3>8, <3>6, <2>3, <1>4
        <3>9. CASE prev # OpenStart /\ prev # OpenEnd
            BY <3>9, <3>6, <3>1, <2>3
        <3> QED BY <3>7, <3>8, <3>9
    <2> QED BY <2>12, <2>13, <2>14
<1> QED BY <1>8, <1>9, <1>10, <1>0

Matches(e, k) ==
    /\ Base(e)[k].start = AskedSpan(e, k).start
    /\ Base(e)[k].end = AskedSpan(e, k).end
    /\ AskedSpan(e, k).start \in Int
    /\ AskedSpan(e, k).end \in Int /\ AskedSpan(e, k).end > OpenStart
    /\ AskedSpan(e, k).start <= AskedSpan(e, k).end
    /\ AskedSpan(e, k).start >= OpenStart
    /\ AskedSpan(e, k).start = OpenStart =>
         /\ k = 1 /\ Delayed(e, Declared[e].period) = None
         /\ Delayed(e, Declared[e].intervals[k]) = None

\* What this VEN makes of the intervals is what they ask for.
LEMMA BaseIsAsked ==
    ASSUME NEW e \in Events
    PROVE  \A k \in 1..Count(e) :
                Matches(e, k) /\ Base(e)[k].payload = Declared[e].intervals[k].payload
<1> DEFINE d == Declared[e]
           event == WithRandomizedStart(e)
           own(k) == Delayed(e, d.intervals[k])
           head == Delayed(e, d.period)
           start(k) == AskedSpan(e, k).start
           last(k) == Lasts(e, k)
           T == {k \in 1..Count(e) : ~Matches(e, k)}
<1>0. Count(e) \in Nat /\ Count(e) >= 1
    BY DeclaredTyped DEF Count
<1>1. None \notin Int /\ OpenEnd \in Nat \ {0} /\ OpenStart = -OpenEnd
    BY NoneIsNoNumber
<1>2. ASSUME NEW k \in 1..Count(e)
      PROVE  LET cursor == IF k = 1 THEN head ELSE Base(e)[k - 1].end
                 begin == OrElse(own(k), cursor)
             IN  /\ Base(e)[k].start = OrElse(begin, OpenStart)
                 /\ Base(e)[k].end = IF begin = None \/ last(k) = None \/ begin + last(k) > OpenEnd
                                     THEN OpenEnd ELSE begin + last(k)
                 /\ Base(e)[k].payload = d.intervals[k].payload
    <2>1. /\ event.period.start = head /\ event.period.dur = d.period.dur
          /\ event.intervals[k].start = own(k)
          /\ event.intervals[k].dur = d.intervals[k].dur
          /\ event.intervals[k].payload = d.intervals[k].payload
        BY ActedOn DEF Count
    <2>2. Base(e)[k] = BaseInterval(event, k, IF k = 1 THEN event.period.start ELSE Base(e)[k - 1].end)
        BY BaseUnrolls
    <2> HIDE DEF event, own, head, d
    <2> QED BY <2>1, <2>2 DEF BaseInterval, Lasts, d
<1>3. ASSUME NEW k \in 1..Count(e), k = 1 \/ (k - 1 \in 1..Count(e) /\ Matches(e, k - 1))
      PROVE  Matches(e, k)
    <2> DEFINE cursor == IF k = 1 THEN head ELSE Base(e)[k - 1].end
               begin == OrElse(own(k), cursor)
    <2>1. /\ own(k) # None => own(k) \in Int /\ own(k) > OpenStart /\ start(k) = own(k)
          /\ own(k) = None /\ k = 1 /\ head = None => start(k) = OpenStart
          /\ own(k) = None /\ k = 1 /\ head # None =>
                    head \in Int /\ head > OpenStart /\ start(k) = head
          /\ own(k) = None /\ k > 1 =>
                    \/ start(k) = AskedSpan(e, k - 1).end
                    \/ /\ AskedSpan(e, k - 1).start = OpenStart
                       /\ k > 2 \/ head # None \/ own(k - 1) # None
        BY SpanFollows
    <2>2. AskedSpan(e, k).end =
                IF start(k) = OpenStart \/ start(k) = OpenEnd \/ last(k) = None THEN OpenEnd
                ELSE start(k) + last(k)
        BY SpanAsked
    <2>3. start(k) <= OpenEnd /\ AskedSpan(e, k).end <= OpenEnd
        BY Calendar
    <2>4. last(k) \in Span
        BY DurIsSpan
    <2>5. /\ Base(e)[k].start = OrElse(begin, OpenStart)
          /\ Base(e)[k].end = IF begin = None \/ last(k) = None \/ begin + last(k) > OpenEnd
                                     THEN OpenEnd ELSE begin + last(k)
        BY <1>2
    <2>6. \/ begin = None /\ start(k) = OpenStart /\ k = 1 /\ head = None /\ own(k) = None
          \/ begin \in Int /\ begin > OpenStart /\ start(k) = begin
        <3>1. CASE own(k) # None
            BY <3>1, <2>1 DEF OrElse
        <3>2. CASE own(k) = None /\ k = 1
            BY <3>2, <2>1 DEF OrElse
        <3>3. CASE own(k) = None /\ k # 1
            <4>1. k > 1 /\ Matches(e, k - 1) /\ (k > 2 <=> k - 1 # 1)
                BY <3>3, <1>3, <1>0
            <4>2. start(k) = AskedSpan(e, k - 1).end
                <5> HIDE DEF start, own, head
                <5> QED BY <4>1, <3>3, <2>1 DEF Matches, own, head
            <4>3. begin = Base(e)[k - 1].end
                BY <3>3 DEF OrElse
            <4> QED BY <4>1, <4>2, <4>3 DEF Matches
        <3> QED BY <3>1, <3>2, <3>3
    <2> HIDE DEF start, own, head, begin, last
    <2>7. CASE begin = None
        <3>1. /\ Base(e)[k].start = start(k) /\ Base(e)[k].end = OpenEnd
              /\ AskedSpan(e, k).end = OpenEnd /\ start(k) = OpenStart
            BY <2>7, <2>6, <2>5, <2>2, <1>1 DEF OrElse
        <3> QED BY <3>1, <2>7, <2>6, <1>1 DEF Matches, start, own, head
    <2>8. CASE begin # None
        <3>1. begin \in Int /\ begin > OpenStart /\ start(k) = begin /\ Base(e)[k].start = start(k)
            BY <2>8, <2>6, <2>5 DEF OrElse
        <3>2. Base(e)[k].end = AskedSpan(e, k).end /\ start(k) <= AskedSpan(e, k).end /\ AskedSpan(e, k).end \in Int
            <4>1. CASE last(k) = None
                BY <4>1, <3>1, <2>2, <2>3, <2>5, <1>1
            <4>2. CASE last(k) # None
                <5>1. last(k) \in Nat
                    BY <4>2, <2>4 DEF Span
                <5>2. Base(e)[k].end = IF begin + last(k) > OpenEnd THEN OpenEnd ELSE begin + last(k)
                    BY <4>2, <3>1, <2>5, <2>8
                <5>3. AskedSpan(e, k).end = IF begin = OpenEnd THEN OpenEnd ELSE begin + last(k)
                    BY <4>2, <3>1, <2>2, <1>1
                <5>4. begin <= OpenEnd /\ AskedSpan(e, k).end <= OpenEnd
                    BY <3>1, <2>3
                <5> QED BY <5>1, <5>2, <5>3, <5>4, <3>1, <1>1
            <4> QED BY <4>1, <4>2
        <3> QED BY <3>1, <3>2, <1>1 DEF Matches, start
    <2> QED BY <2>7, <2>8
<1>4. T = {}
    <2> SUFFICES ASSUME T # {} PROVE FALSE
        OBVIOUS
    <2>1. PICK m \in T : \A j \in T : m <= j
        <3>1. T \subseteq Nat
            BY <1>0
        <3> QED BY <3>1, NatHasLeast
    <2>2. m = 1 \/ (m - 1 \in 1..Count(e) /\ m - 1 \notin T)
        BY <2>1, <1>0
    <2>3. Matches(e, m)
        BY <2>1, <2>2, <1>3
    <2> QED BY <2>1, <2>3
<1> QED BY <1>4, <1>2

-----------------------------------------------------------------------------
(* The windows of one event                                                *)

\* Rounds of a positive length do not overlap.
LEMMA Multiples ==
    ASSUME NEW r \in Nat, NEW q \in Nat, NEW length \in Int
    PROVE  /\ r * length \in Int /\ 0 * length = 0
           /\ length > 0 => r <= r * length
           /\ length > 0 /\ r < q => r * length + length <= q * length
<1>1. r * length \in Int /\ 0 * length = 0
    OBVIOUS
<1>2. length > 0 => r <= r * length
    OBVIOUS
<1>3. ASSUME length > 0, r < q PROVE r * length + length <= q * length
    <2>1. q = r + 1 + (q - r - 1) /\ q - r - 1 \in Nat
        BY <1>3
    <2>2. q * length = r * length + length + (q - r - 1) * length
        BY <2>1
    <2>3. (q - r - 1) * length >= 0
        BY <2>1, <1>3
    <2>4. (q - r - 1) * length \in Int /\ q * length \in Int
        BY <2>1
    <2> QED BY <2>2, <2>3, <2>4, <1>1
<1> QED BY <1>1, <1>2, <1>3

\* The base intervals are what is asked for, within the calendar.
LEMMA BaseTyped ==
    ASSUME NEW e \in Events
    PROVE  /\ Count(e) \in Nat \ {0} /\ DOMAIN Base(e) = 1..Count(e) /\ Len(Base(e)) = Count(e)
           /\ \A k \in 1..Count(e) :
                /\ Base(e)[k].start \in Int /\ Base(e)[k].end \in Int
                /\ Base(e)[k].start >= OpenStart /\ Base(e)[k].end > OpenStart
                /\ Base(e)[k].start <= OpenEnd /\ Base(e)[k].end <= OpenEnd
                /\ Base(e)[k].start = AskedSpan(e, k).start /\ Base(e)[k].end = AskedSpan(e, k).end
                /\ Base(e)[k].payload = Declared[e].intervals[k].payload
           /\ RoundLength(Base(e)) = Base(e)[Count(e)].end - Base(e)[1].start
           /\ RoundLength(Base(e)) \in Int
<1>1. Count(e) \in Nat \ {0}
    BY DeclaredTyped DEF Count
<1>2. DOMAIN Base(e) = 1..Count(e)
    BY BaseUnrolls
<1>3. Len(Base(e)) = Count(e)
    BY <1>1, <1>2
<1>4. ASSUME NEW k \in 1..Count(e)
      PROVE  /\ Base(e)[k].start \in Int /\ Base(e)[k].end \in Int
             /\ Base(e)[k].start >= OpenStart /\ Base(e)[k].end > OpenStart
             /\ Base(e)[k].start <= OpenEnd /\ Base(e)[k].end <= OpenEnd
             /\ Base(e)[k].start = AskedSpan(e, k).start /\ Base(e)[k].end = AskedSpan(e, k).end
             /\ Base(e)[k].payload = Declared[e].intervals[k].payload
    <2>1. Matches(e, k) /\ Base(e)[k].payload = Declared[e].intervals[k].payload
        BY BaseIsAsked
    <2>2. AskedSpan(e, k).start <= OpenEnd /\ AskedSpan(e, k).end <= OpenEnd
        BY Calendar
    <2> QED BY <2>1, <2>2 DEF Matches
<1>5. RoundLength(Base(e)) = Base(e)[Count(e)].end - Base(e)[1].start
    BY <1>3 DEF RoundLength
<1>6. 1 \in 1..Count(e) /\ Count(e) \in 1..Count(e)
    BY <1>1
<1>7. RoundLength(Base(e)) \in Int
    BY <1>4, <1>5, <1>6
<1> QED BY <1>1, <1>2, <1>3, <1>4, <1>5, <1>7

\* Where the event's duration ends it.
Ends(e) == EventWindowEnd(WithRandomizedStart(e), Base(e))

\* The code ends an event where its first interval and its duration say.
LEMMA EndsWhereAsked ==
    ASSUME NEW e \in Events
    PROVE  /\ Ends(e) = None <=> ~(Declared[e].duration # None /\ Bounded(AskedSpan(e, 1)))
           /\ Ends(e) # None => /\ Ends(e) \in Int
                                /\ Ends(e) = AskedSpan(e, 1).start + Declared[e].duration
<1> DEFINE duration == Declared[e].duration
           head == Base(e)[1]
<1>1. duration \in Span /\ WithRandomizedStart(e).duration = duration
    BY DeclaredTyped, ActedOn
<1>2. 1 \in 1..Count(e)
    BY BaseTyped
<1>3. head.start = AskedSpan(e, 1).start /\ head.end = AskedSpan(e, 1).end /\ head.start \in Int
    BY <1>2, BaseTyped
<1>4. Bounded(head) <=> Bounded(AskedSpan(e, 1))
    BY <1>3 DEF Bounded
<1>5. Ends(e) = IF duration = None \/ ~Bounded(head) THEN None
                ELSE IF head.start + duration > OpenEnd THEN None ELSE head.start + duration
    BY <1>1 DEF Ends, EventWindowEnd
<1>6. duration # None => duration \in Nat
    BY <1>1 DEF Span
<1>7. duration # None /\ Bounded(head) => head.start + duration <= OpenEnd
    BY <1>3, <1>4, Calendar
<1> HIDE DEF duration, head
<1>8. CASE duration = None \/ ~Bounded(head)
    BY <1>8, <1>5, <1>4 DEF duration
<1>9. CASE duration # None /\ Bounded(head)
    <2>1. head.start + duration \in Int
        BY <1>9, <1>6, <1>3
    <2>2. Ends(e) = head.start + duration
        BY <1>9, <1>5, <1>7, <1>3, <2>1, NoneIsNoNumber
    <2> QED BY <2>1, <2>2, <1>9, <1>4, <1>3, NoneIsNoNumber DEF duration
<1> QED BY <1>8, <1>9

\* The copies this VEN keeps, and the window it makes of one.
KeptCopies(e) ==
    IF Ends(e) = None THEN {0} \X (1..Count(e)) ELSE Kept(Copies(Base(e), Ends(e)))

WindowOf(e, x) ==
    [at |-> x, start |-> CopyStart(Base(e), x),
     end |-> IF Ends(e) = None THEN Base(e)[x[2]].end
             ELSE MinOf(Base(e)[x[2]].end + x[1] * RoundLength(Base(e)), Ends(e)),
     payload |-> Declared[e].intervals[x[2]].payload]

\* There are finitely many copies.
LEMMA CopiesTyped ==
    ASSUME NEW e \in Events
    PROVE  /\ KeptCopies(e) \subseteq (0..MaxLooped) \X (1..Count(e))
           /\ Copies(Base(e), Ends(e)) \subseteq (0..MaxLooped) \X (1..Count(e))
           /\ IsFiniteSet(KeptCopies(e)) /\ IsFiniteSet(Copies(Base(e), Ends(e)))
<1>1. Count(e) \in Nat /\ DOMAIN Base(e) = 1..Count(e) /\ MaxLooped \in Nat
    BY BaseTyped, ScheduleAssumption
<1>2. Copies(Base(e), Ends(e)) \subseteq (0..MaxLooped) \X (1..Count(e))
    BY <1>1 DEF Copies
<1>3. Kept(Copies(Base(e), Ends(e))) \subseteq Copies(Base(e), Ends(e))
    BY DEF Kept
<1>4. {0} \X (1..Count(e)) \subseteq (0..MaxLooped) \X (1..Count(e))
    BY <1>1
<1>5. KeptCopies(e) \subseteq (0..MaxLooped) \X (1..Count(e))
    BY <1>2, <1>3, <1>4 DEF KeptCopies
<1>6. IsFiniteSet(0..MaxLooped) /\ IsFiniteSet(1..Count(e))
    BY <1>1, FS_Interval
<1>7. IsFiniteSet((0..MaxLooped) \X (1..Count(e)))
    BY <1>6, FS_Product
<1> QED BY <1>2, <1>5, <1>7, FS_Subset

\* The windows of an event are those of the copies kept, with or without a duration.
LEMMA TimedIs ==
    ASSUME NEW e \in Events
    PROVE  Timed[e] = {WindowOf(e, x) : x \in KeptCopies(e)}
<1>1. Timed[e] = TimedIntervals(WithRandomizedStart(e))
    BY DEF Timed
<1>2. \A k \in 1..Count(e) : /\ Base(e)[k].payload = Declared[e].intervals[k].payload
                             /\ Base(e)[k].start \in Int
    BY BaseTyped
<1>3. CASE Ends(e) = None
    <2>1. Timed[e] = {[at |-> <<0, k>>, start |-> Base(e)[k].start, end |-> Base(e)[k].end,
                       payload |-> Base(e)[k].payload] : k \in DOMAIN Base(e)}
        BY <1>1, <1>3 DEF TimedIntervals, Base, Ends
    <2>2. DOMAIN Base(e) = 1..Count(e) /\ RoundLength(Base(e)) \in Int
        BY BaseTyped
    <2>3. ASSUME NEW k \in 1..Count(e)
          PROVE  WindowOf(e, <<0, k>>) = [at |-> <<0, k>>, start |-> Base(e)[k].start, end |-> Base(e)[k].end,
                                          payload |-> Base(e)[k].payload]
        <3>1. 0 * RoundLength(Base(e)) = 0
            BY <2>2, Multiples
        <3>2. Base(e)[k].start + 0 = Base(e)[k].start
            BY <1>2
        <3>3. CopyStart(Base(e), <<0, k>>) = Base(e)[k].start
            BY <3>1, <3>2 DEF CopyStart
        <3> QED BY <3>3, <1>2, <1>3 DEF WindowOf
    <2>4. KeptCopies(e) = {0} \X (1..Count(e))
        BY <1>3 DEF KeptCopies
    <2>5. \A x \in KeptCopies(e) : x = <<0, x[2]>> /\ x[2] \in 1..Count(e)
        BY <2>4
    <2>6. \A k \in 1..Count(e) : <<0, k>> \in KeptCopies(e)
        BY <2>4
    <2>7. Timed[e] = {WindowOf(e, <<0, k>>) : k \in 1..Count(e)}
        BY <2>1, <2>2, <2>3
    <2> QED BY <2>5, <2>6, <2>7
<1>4. CASE Ends(e) # None
    <2>1. Timed[e] = Filled(Base(e), Ends(e))
        BY <1>1, <1>4 DEF TimedIntervals, Base, Ends
    <2>2. KeptCopies(e) = Kept(Copies(Base(e), Ends(e)))
        BY <1>4 DEF KeptCopies
    <2>3. \A x \in KeptCopies(e) : x[2] \in 1..Count(e)
        BY CopiesTyped
    <2>4. \A x \in KeptCopies(e) :
            WindowOf(e, x) = [at |-> x, start |-> CopyStart(Base(e), x),
                              end |-> MinOf(Base(e)[x[2]].end + x[1] * RoundLength(Base(e)), Ends(e)),
                              payload |-> Base(e)[x[2]].payload]
        BY <2>3, <1>2, <1>4 DEF WindowOf
    <2> QED BY <2>1, <2>2, <2>4 DEF Filled
<1> QED BY <1>3, <1>4

\* Every window has its place, whole bounds and the payload of its interval,
\* and there are finitely many.
LEMMA TimedTyped ==
    ASSUME NEW e \in Events
    PROVE  /\ IsFiniteSet(Timed[e])
           /\ \A w \in Timed[e] : /\ w = WindowOf(e, w.at) /\ w.at \in KeptCopies(e)
                                  /\ w.at \in Nat \X (1..Count(e))
                                  /\ w.start \in Int /\ w.end \in Int
                                  /\ w.payload = Declared[e].intervals[w.at[2]].payload
                                  /\ w.payload \in Payload
<1> DEFINE f == [x \in KeptCopies(e) |-> WindowOf(e, x)]
<1>1. Timed[e] = {WindowOf(e, x) : x \in KeptCopies(e)}
    BY TimedIs
<1>2. f \in Surjection(KeptCopies(e), Timed[e])
    BY <1>1 DEF Surjection
<1>3. IsFiniteSet(Timed[e])
    BY <1>2, CopiesTyped, FS_Surjection
<1>4. ASSUME NEW x \in KeptCopies(e)
      PROVE  LET w == WindowOf(e, x)
             IN  /\ w.at = x /\ x \in Nat \X (1..Count(e))
                 /\ w.start \in Int /\ w.end \in Int
                 /\ w.payload = Declared[e].intervals[x[2]].payload
                 /\ w.payload \in Payload
    <2> DEFINE b == Base(e)[x[2]]
    <2>1. x[1] \in Nat /\ x[2] \in 1..Count(e) /\ x = <<x[1], x[2]>>
        BY CopiesTyped
    <2>2. b.start \in Int /\ b.end \in Int /\ RoundLength(Base(e)) \in Int
        BY <2>1, BaseTyped
    <2>3. x[1] * RoundLength(Base(e)) \in Int
        BY <2>1, <2>2, Multiples
    <2>4. CopyStart(Base(e), x) \in Int
        BY <2>2, <2>3 DEF CopyStart
    <2>5. Declared[e].intervals[x[2]].payload \in Payload
        <3>1. Declared[e].intervals[x[2]] \in Interval
            BY <2>1, DeclaredTyped DEF Count
        <3> QED BY <3>1 DEF Interval
    <2>6. Ends(e) = None \/ Ends(e) \in Int
        BY EndsWhereAsked
    <2>7. WindowOf(e, x).end \in Int
        BY <2>2, <2>3, <2>6 DEF WindowOf, MinOf
    <2> QED BY <2>1, <2>4, <2>5, <2>7 DEF WindowOf
<1> QED BY <1>1, <1>3, <1>4

-----------------------------------------------------------------------------
(* A window covers an instant exactly where its interval is in force       *)

\* Whether the intervals are repeated.
Repeats(e) == Ends(e) # None /\ Base(e)[Count(e)].end # OpenEnd /\ RoundLength(Base(e)) > 0

\* x is a copy that is in force at t, whatever the cap on repetitions.
IsDue(e, x, t) ==
    /\ x[1] \in Nat /\ x[2] \in 1..Count(e) /\ x = <<x[1], x[2]>>
    /\ x[1] = 0 \/ Repeats(e)
    /\ Ends(e) # None => t < Ends(e)
    /\ CopyStart(Base(e), x) <= t /\ t < Base(e)[x[2]].end + x[1] * RoundLength(Base(e))

\* An event that ends lists its intervals in time, so none starts before the first.
LEMMA FirstIsFirst ==
    ASSUME NEW e \in Events, Ends(e) # None
    PROVE  /\ \A j, k \in 1..Count(e) : j <= k => Base(e)[j].start <= Base(e)[k].start
           /\ \A k \in 1..Count(e) : Base(e)[1].start <= Base(e)[k].start
           /\ Base(e)[1].start > OpenStart
           /\ Ends(e) \in Int
<1>1. Declared[e].duration # None /\ Bounded(AskedSpan(e, 1)) /\ Ends(e) \in Int
    BY EndsWhereAsked
<1>2. ASSUME NEW j \in 1..Count(e), NEW k \in 1..Count(e), j <= k
      PROVE  Base(e)[j].start <= Base(e)[k].start
    <2>1. Base(e)[j].start = AskedSpan(e, j).start /\ Base(e)[k].start = AskedSpan(e, k).start
          /\ Base(e)[j].start \in Int
        BY BaseTyped
    <2>2. j < k => AskedSpan(e, j).start <= AskedSpan(e, k).start
        BY <1>1, Calendar
    <2>3. CASE j < k
        BY <2>1, <2>2, <2>3
    <2>4. CASE j = k
        BY <2>1, <2>4
    <2>5. j \in Nat /\ k \in Nat
        BY BaseTyped
    <2> QED BY <2>3, <2>4, <2>5, <1>2
<1>3. 1 \in 1..Count(e) /\ \A k \in 1..Count(e) : 1 <= k
    BY BaseTyped
<1>4. Base(e)[1].start = AskedSpan(e, 1).start /\ Base(e)[1].start \in Int /\ Base(e)[1].start >= OpenStart
    BY <1>3, BaseTyped
<1>5. Base(e)[1].start > OpenStart
    BY <1>4, <1>1, NoneIsNoNumber DEF Bounded
<1> QED BY <1>1, <1>2, <1>3, <1>5

\* The reference and the code agree on when a copy is in force.
LEMMA AskedIsDue ==
    ASSUME NEW e \in Events, NEW t \in Instants, NEW x
    PROVE  x \in Asked[e][t] <=> IsDue(e, x, t)
<1> DEFINE n == Count(e)
           spans == [k \in DOMAIN Declared[e].intervals |-> AskedSpan(e, k)]
           first == spans[1]
           last == spans[Len(spans)]
           duration == Declared[e].duration
           length == RoundLength(Base(e))
           ends == duration # None /\ Bounded(first)
           rounds == IF ends /\ last.end # OpenEnd /\ length > 0 THEN 0..Max({0, t - first.start}) ELSE {0}
           b(k) == Base(e)[k]
<1>0. t \in Int /\ n \in Nat \ {0} /\ 1 \in 1..n /\ n \in 1..n
    BY BaseTyped, ScheduleAssumption DEF Instants, Horizon
<1>1. DOMAIN spans = 1..n /\ Len(spans) = n
    BY <1>0, DeclaredTyped DEF Count
<1>2. \A k \in 1..n : /\ spans[k] = AskedSpan(e, k) /\ b(k).start = spans[k].start /\ b(k).end = spans[k].end
                      /\ b(k).start \in Int /\ b(k).end \in Int
    BY <1>1, BaseTyped
<1>3. first.start = b(1).start /\ last.end = b(n).end /\ last.end - first.start = length
    BY <1>0, <1>1, <1>2, BaseTyped
<1>4. Asked[e][t] = InForce(spans, duration, t)
    BY DEF Asked
<1>5. Asked[e][t] = {y \in rounds \X DOMAIN spans : /\ ends => t < first.start + duration
                                                   /\ Covers(spans[y[2]], t - y[1] * length)}
    BY <1>3, <1>4 DEF InForce
<1>6. (ends <=> Ends(e) # None) /\ (ends => Ends(e) = first.start + duration)
    BY <1>0, <1>2, EndsWhereAsked
<1>7. (ends /\ last.end # OpenEnd /\ length > 0) <=> Repeats(e)
    BY <1>3, <1>6 DEF Repeats
<1>8. length \in Int
    BY BaseTyped
<1>9. ASSUME NEW y, y[1] \in Nat, y[2] \in 1..n
      PROVE  Covers(spans[y[2]], t - y[1] * length) <=>
                CopyStart(Base(e), y) <= t /\ t < b(y[2]).end + y[1] * length
    <2>1. y[1] * length \in Int
        BY <1>8, <1>9, Multiples
    <2>2. b(y[2]).start = spans[y[2]].start /\ b(y[2]).end = spans[y[2]].end
          /\ b(y[2]).start \in Int /\ b(y[2]).end \in Int
        BY <1>2, <1>9
    <2>3. CopyStart(Base(e), y) = b(y[2]).start + y[1] * length
        BY DEF CopyStart
    <2> DEFINE shift == y[1] * length
    <2> HIDE DEF shift, length, spans, b
    <2> QED BY <2>1, <2>2, <2>3, <1>0 DEF Covers, shift
<1>10. ASSUME NEW y, y[1] \in Nat, y[2] \in 1..n, Repeats(e), CopyStart(Base(e), y) <= t
       PROVE  y[1] \in 0..Max({0, t - first.start})
    <2>1. length > 0 /\ Ends(e) # None
        BY <1>10 DEF Repeats
    <2> DEFINE shift == y[1] * length
               m == Max({0, t - first.start})
    <2>2. shift \in Int /\ y[1] <= shift
        BY <2>1, <1>8, <1>10, Multiples
    <2>3. b(1).start <= b(y[2]).start /\ b(1).start \in Int /\ b(y[2]).start \in Int
        BY <2>1, <1>0, <1>2, <1>10, FirstIsFirst
    <2>4. b(y[2]).start + shift <= t
        BY <1>10 DEF CopyStart
    <2>5. t - first.start \in Int /\ first.start = b(1).start
        BY <2>3, <1>0, <1>3
    <2>6. m >= t - first.start /\ m >= 0 /\ m \in Int
        <3> DEFINE S == {0, t - first.start}
                   high == IF t - first.start > 0 THEN t - first.start ELSE 0
        <3> HIDE DEF first
        <3>1. S \subseteq Int /\ S # {} /\ high \in Int /\ \A z \in S : z <= high
            BY <2>5
        <3>2. Max(S) \in S /\ \A z \in S : Max(S) >= z
            BY <3>1, MaxIsGreatest
        <3>3. 0 \in S /\ t - first.start \in S
            OBVIOUS
        <3>4. m = Max(S)
            OBVIOUS
        <3> HIDE DEF S, m
        <3> QED BY <3>1, <3>2, <3>3, <3>4
    <2> HIDE DEF shift, length, b, m, first
    <2>7. y[1] <= m /\ y[1] \in Nat
        BY <2>2, <2>3, <2>4, <2>5, <2>6, <1>0, <1>10
    <2>8. y[1] \in 0..m
        BY <2>7, <2>6
    <2> QED BY <2>8 DEF m, first
<1>11. ASSUME NEW y \in rounds \X (1..n)
       PROVE  y[1] \in Nat /\ y[2] \in 1..n /\ y = <<y[1], y[2]>> /\ (y[1] = 0 \/ Repeats(e))
    BY <1>7
<1> HIDE DEF ends, length, b, n, spans, first, last
<1>12. ASSUME x \in Asked[e][t] PROVE IsDue(e, x, t)
    <2>1. x \in rounds \X (1..n) /\ (ends => t < first.start + duration)
          /\ Covers(spans[x[2]], t - x[1] * length)
        BY <1>12, <1>5, <1>1
    <2>2. x[1] \in Nat /\ x[2] \in 1..n /\ x = <<x[1], x[2]>> /\ (x[1] = 0 \/ Repeats(e))
        BY <2>1, <1>11
    <2> QED BY <2>1, <2>2, <1>6, <1>9 DEF IsDue, n, length, b
<1>13. ASSUME IsDue(e, x, t) PROVE x \in Asked[e][t]
    <2>1. /\ x[1] \in Nat /\ x[2] \in 1..n /\ x = <<x[1], x[2]>>
          /\ x[1] = 0 \/ Repeats(e)
          /\ Ends(e) # None => t < Ends(e)
          /\ CopyStart(Base(e), x) <= t /\ t < b(x[2]).end + x[1] * length
        BY <1>13 DEF IsDue, n, length, b
    <2>2. Covers(spans[x[2]], t - x[1] * length)
        BY <2>1, <1>9
    <2>3. x[1] \in rounds
        <3>1. CASE Repeats(e)
            BY <3>1, <2>1, <1>7, <1>10
        <3>2. CASE ~Repeats(e)
            BY <3>2, <2>1, <1>7
        <3> QED BY <3>1, <3>2
    <2> HIDE DEF rounds
    <2>4. x \in rounds \X DOMAIN spans
        BY <2>1, <2>3, <1>1
    <2> QED BY <2>1, <2>2, <2>4, <1>5, <1>6
<1> QED BY <1>12, <1>13

\* The code repeats an event exactly if its last interval ends and the round lasts.
LEMMA RepeatsIsRepeats ==
    ASSUME NEW e \in Events, Ends(e) # None
    PROVE  LET base == Base(e)
           IN  Bounded(base[1]) /\ Bounded(base[Len(base)]) /\ RoundLength(base) > 0 <=> Repeats(e)
<1>1. Len(Base(e)) = Count(e) /\ Count(e) \in 1..Count(e) /\ 1 \in 1..Count(e)
    BY BaseTyped
<1>2. /\ Base(e)[1].start > OpenStart /\ Base(e)[1].start <= Base(e)[Count(e)].start
      /\ Base(e)[1].start \in Int /\ Base(e)[Count(e)].start \in Int
    BY <1>1, FirstIsFirst, BaseTyped
<1>3. Base(e)[Count(e)].start # OpenStart
    BY <1>2, NoneIsNoNumber
<1>4. Bounded(Base(e)[1])
    <2>1. Bounded(AskedSpan(e, 1))
        BY EndsWhereAsked
    <2>2. Base(e)[1].start = AskedSpan(e, 1).start /\ Base(e)[1].end = AskedSpan(e, 1).end
        BY <1>1, BaseTyped
    <2> QED BY <2>1, <2>2 DEF Bounded
<1> QED BY <1>1, <1>3, <1>4 DEF Bounded, Repeats

\* No window covers an instant at which its interval is not in force.
LEMMA CoveredIsDue ==
    ASSUME NEW e \in Events, NEW t \in Int, NEW w \in Timed[e], Covers(w, t)
    PROVE  IsDue(e, w.at, t)
<1> DEFINE x == w.at
           b == Base(e)[x[2]]
           shift == x[1] * RoundLength(Base(e))
<1>1. w = WindowOf(e, x) /\ x \in KeptCopies(e) /\ x \in Nat \X (1..Count(e))
    BY TimedTyped
<1>2. x[1] \in Nat /\ x[2] \in 1..Count(e) /\ x = <<x[1], x[2]>>
    BY <1>1
<1>3. CopyStart(Base(e), x) <= t
    BY <1>1 DEF Covers, WindowOf
<1>4. b.end \in Int /\ shift \in Int
    BY <1>2, BaseTyped, Multiples
<1>5. CASE Ends(e) = None
    <2>1. x[1] = 0
        BY <1>1, <1>5 DEF KeptCopies
    <2>2. shift = 0
        BY <2>1, BaseTyped, Multiples
    <2>3. t < b.end
        BY <1>1, <1>5 DEF Covers, WindowOf
    <2>4. t < b.end + shift
        BY <2>2, <2>3, <1>4
    <2> QED BY <1>2, <1>3, <1>5, <2>1, <2>4 DEF IsDue
<1>6. CASE Ends(e) # None
    <2>1. x \in Copies(Base(e), Ends(e))
        BY <1>1, <1>6 DEF KeptCopies, Kept
    <2>2. x[1] = 0 \/ Repeats(e)
        <3>1. ASSUME x[1] # 0 PROVE Repeats(e)
            <4>1. Bounded(Base(e)[1]) /\ Bounded(Base(e)[Len(Base(e))]) /\ RoundLength(Base(e)) > 0
                BY <2>1, <3>1 DEF Copies
            <4> QED BY <4>1, <1>6, RepeatsIsRepeats
        <3> QED BY <3>1
    <2>3. t < MinOf(b.end + shift, Ends(e))
        BY <1>1, <1>6 DEF Covers, WindowOf
    <2>4. Ends(e) \in Int
        BY <1>6, EndsWhereAsked
    <2>5. b.end + shift \in Int
        BY <1>4
    <2> DEFINE wholeEnd == b.end + shift
    <2>6. t < wholeEnd /\ t < Ends(e)
        <3> HIDE DEF wholeEnd
        <3>1. t < MinOf(wholeEnd, Ends(e)) /\ wholeEnd \in Int
            BY <2>3, <2>5 DEF wholeEnd
        <3> QED BY <3>1, <2>4 DEF MinOf
    <2> QED BY <1>2, <1>3, <1>6, <2>2, <2>6 DEF IsDue
<1> QED BY <1>5, <1>6

\* A copy that starts before the end of the event is one of the copies, as far
\* as rounds are counted.
LEMMA DueIsCopy ==
    ASSUME NEW e \in Events, NEW t \in Int, NEW x, IsDue(e, x, t), Ends(e) # None, x[1] <= MaxLooped
    PROVE  x \in Copies(Base(e), Ends(e))
<1> DEFINE base == Base(e)
           shift == x[1] * RoundLength(base)
<1>1. x[1] \in Nat /\ x[2] \in 1..Count(e) /\ x = <<x[1], x[2]>> /\ MaxLooped \in Nat
    BY ScheduleAssumption DEF IsDue
<1>2. x \in (0..MaxLooped) \X DOMAIN base
    BY <1>1, BaseTyped
<1>3. shift \in Int /\ Count(e) \in Nat
    BY <1>1, BaseTyped, Multiples
<1>4. ASSUME NEW j \in 1..x[2] PROVE base[j].start + shift < Ends(e)
    <2>1. j \in 1..Count(e) /\ j <= x[2]
        BY <1>1, <1>3
    <2>2. base[j].start <= base[x[2]].start /\ base[j].start \in Int /\ base[x[2]].start \in Int
        BY <1>1, <2>1, FirstIsFirst, BaseTyped
    <2>3. base[x[2]].start + shift <= t /\ t < Ends(e) /\ Ends(e) \in Int
        BY FirstIsFirst DEF IsDue, CopyStart
    <2> HIDE DEF shift, base
    <2> QED BY <2>2, <2>3, <1>3
<1>5. \A j \in 1..x[2] : CopyStart(base, <<x[1], j>>) < Ends(e)
    BY <1>4 DEF CopyStart
<1>6. CASE x[1] = 0
    <2>1. shift = 0
        BY <1>6, BaseTyped, Multiples
    <2>2. x[2] \in 1..x[2]
        BY <1>1
    <2>3. base[x[2]].start + shift < Ends(e) /\ base[x[2]].start \in Int
        BY <2>2, <1>4, <1>1, BaseTyped
    <2>4. base[x[2]].start < Ends(e)
        BY <2>1, <2>3
    <2> QED BY <1>2, <1>6, <2>4 DEF Copies
<1>7. CASE x[1] # 0
    <2>1. Repeats(e)
        BY <1>7 DEF IsDue
    <2>2. Bounded(base[1]) /\ Bounded(base[Len(base)]) /\ RoundLength(base) > 0
        BY <2>1, RepeatsIsRepeats
    <2>3. x[1] > 0
        BY <1>1, <1>7
    <2> HIDE DEF shift
    <2> QED BY <1>2, <1>5, <2>2, <2>3 DEF Copies
<1> QED BY <1>6, <1>7

\* Every round that counts has a first copy, so those before round MaxLooped
\* fill the cap.
LEMMA RoundsFillTheCap ==
    ASSUME NEW e \in Events, NEW t \in Int, NEW x, IsDue(e, x, t), Ends(e) # None, x[1] >= MaxLooped
    PROVE  LET copies == Copies(Base(e), Ends(e))
               y == <<MaxLooped, 1>>
           IN  y \in copies \ Kept(copies) /\ CopyStart(Base(e), y) <= t
<1> DEFINE base == Base(e)
           copies == Copies(base, Ends(e))
           length == RoundLength(base)
           y == <<MaxLooped, 1>>
           earlier == {z \in copies : Before(z, y)}
           firsts == {<<q, 1>> : q \in 0..MaxLooped - 1}
           f == [q \in 0..MaxLooped - 1 |-> <<q, 1>>]
<1>1. /\ x[1] \in Nat /\ x[2] \in 1..Count(e) /\ MaxLooped \in Nat \ {0}
      /\ Count(e) \in Nat \ {0} /\ length \in Int /\ x[1] >= MaxLooped
    BY ScheduleAssumption, BaseTyped DEF IsDue
<1>2. Repeats(e) /\ length > 0
    BY <1>1 DEF IsDue, Repeats
<1>3. /\ base[1].start <= base[x[2]].start /\ base[1].start \in Int /\ base[1].end \in Int
      /\ base[x[2]].start \in Int /\ Ends(e) \in Int
    BY <1>1, FirstIsFirst, BaseTyped
<1>4. base[x[2]].start + x[1] * length <= t /\ t < Ends(e)
    BY DEF IsDue, CopyStart
<1>5. ASSUME NEW q \in 0..MaxLooped PROVE CopyStart(base, <<q, 1>>) <= t
    <2>1. q * length \in Int /\ x[1] * length \in Int
        BY <1>1, Multiples
    <2>2. q * length <= x[1] * length
        <3>1. CASE q = x[1]
            BY <3>1, <2>1
        <3>2. CASE q < x[1]
            <4>1. q * length + length <= x[1] * length
                BY <3>2, <1>1, <1>2, Multiples
            <4> DEFINE a == q * length
                       b == x[1] * length
            <4>2. a + length <= b /\ a \in Int /\ b \in Int
                BY <4>1, <2>1
            <4> HIDE DEF a, b, length
            <4>3. a <= b
                BY <4>2, <1>1, <1>2
            <4> QED BY <4>3 DEF a, b
        <3> QED BY <3>1, <3>2, <1>1
    <2> DEFINE a == q * length
               b == x[1] * length
    <2>3. a <= b /\ a \in Int /\ b \in Int /\ base[x[2]].start + b <= t
        BY <2>1, <2>2, <1>4
    <2>4. CopyStart(base, <<q, 1>>) = base[1].start + a
        BY DEF CopyStart
    <2> HIDE DEF a, b, length
    <2> QED BY <2>3, <2>4, <1>3
<1>6. Bounded(base[1]) /\ Bounded(base[Len(base)]) /\ RoundLength(base) > 0
    BY <1>2, RepeatsIsRepeats
<1>7. ASSUME NEW q \in 0..MaxLooped PROVE <<q, 1>> \in copies
    <2> DEFINE c == <<q, 1>>
    <2>1. c \in (0..MaxLooped) \X DOMAIN base /\ c[1] = q /\ c[2] = 1
        BY <1>1, BaseTyped
    <2>2. CopyStart(base, c) < Ends(e)
        <3>1. CopyStart(base, c) <= t
            BY <1>5
        <3>2. CopyStart(base, c) \in Int
            <4>1. q * length \in Int
                BY <1>1, Multiples
            <4> QED BY <4>1, <1>3 DEF CopyStart
        <3> QED BY <3>1, <3>2, <1>4, <1>3
    <2>3. CASE q = 0
        <3>1. CopyStart(base, c) = base[1].start
            <4>1. 0 * length = 0
                BY <1>1, Multiples
            <4>2. base[1].start + 0 = base[1].start
                BY <1>3
            <4> QED BY <4>1, <4>2, <2>3 DEF CopyStart
        <3> QED BY <3>1, <2>1, <2>2, <2>3 DEF Copies
    <2>4. CASE q # 0
        <3>1. q > 0
            BY <2>4, <1>1
        <3>2. \A j \in 1..1 : CopyStart(base, <<q, j>>) < Ends(e)
            BY <2>2
        <3> HIDE DEF base, length
        <3> QED BY <3>1, <3>2, <2>1, <1>6 DEF Copies
    <2> QED BY <2>3, <2>4
<1>8. y \in copies /\ CopyStart(base, y) <= t
    BY <1>1, <1>5, <1>7
<1>9. firsts \subseteq earlier
    <2>1. ASSUME NEW q \in 0..MaxLooped - 1 PROVE <<q, 1>> \in copies /\ Before(<<q, 1>>, y)
        BY <1>1, <1>7 DEF Before
    <2> QED BY <2>1
<1>10. IsFiniteSet(copies)
    BY CopiesTyped
<1>11. IsFiniteSet(earlier) /\ Cardinality(firsts) <= Cardinality(earlier)
       /\ IsFiniteSet(firsts) /\ Cardinality(earlier) \in Nat
    <2>1. IsFiniteSet(earlier)
        BY <1>10, FS_Subset
    <2> QED BY <2>1, <1>9, FS_Subset, FS_CardinalityType
<1>12. Cardinality(firsts) = MaxLooped
    <2>1. f \in Bijection(0..MaxLooped - 1, firsts)
        <3>1. f \in [0..MaxLooped - 1 -> firsts]
            OBVIOUS
        <3>2. \A q, r \in 0..MaxLooped - 1 : f[q] = f[r] => q = r
            OBVIOUS
        <3>3. \A z \in firsts : \E q \in 0..MaxLooped - 1 : f[q] = z
            OBVIOUS
        <3> HIDE DEF f, firsts
        <3> QED BY <3>1, <3>2, <3>3 DEF Bijection, Injection, Surjection, IsInjective
    <2>2. IsFiniteSet(0..MaxLooped - 1) /\ Cardinality(0..MaxLooped - 1) = MaxLooped
        <3>1. 0 \in Int /\ MaxLooped - 1 \in Int /\ 0 <= MaxLooped - 1
            BY <1>1
        <3>2. IsFiniteSet(0..MaxLooped - 1)
              /\ Cardinality(0..MaxLooped - 1) = IF 0 > MaxLooped - 1 THEN 0 ELSE (MaxLooped - 1) - 0 + 1
            BY <3>1, FS_Interval
        <3> QED BY <3>1, <3>2, <1>1
    <2>3. ExistsBijection(0..MaxLooped - 1, firsts)
        BY <2>1 DEF ExistsBijection
    <2>4. Cardinality(firsts) = Cardinality(0..MaxLooped - 1)
        BY <2>2, <2>3, FS_Bijection
    <2> QED BY <2>2, <2>4
<1>13. y \notin Kept(copies)
    <2>1. ~(Cardinality(earlier) < MaxLooped)
        BY <1>11, <1>12, <1>1
    <2>2. y[1] # 0
        BY <1>1
    <2> HIDE DEF y
    <2> QED BY <2>1, <2>2 DEF Kept
<1> QED BY <1>8, <1>13

\* An interval that is in force has its window, unless the cap on repetitions
\* had left a copy out by then.
LEMMA DueIsCovered ==
    ASSUME NEW e \in Events, NEW t \in Int, NEW x, IsDue(e, x, t),
           \A start \in LeftOut[e] : t < start
    PROVE  x \in KeptCopies(e) /\ Covers(WindowOf(e, x), t)
<1> DEFINE base == Base(e)
           copies == Copies(base, Ends(e))
           shift == x[1] * RoundLength(base)
<1>1. x[1] \in Nat /\ x[2] \in 1..Count(e) /\ x = <<x[1], x[2]>>
    BY DEF IsDue
<1>2. LeftOut[e] = IF Ends(e) = None THEN {}
                   ELSE {CopyStart(base, y) : y \in copies \ Kept(copies)}
    BY DEF LeftOut, Base, Ends
<1>3. base[x[2]].end \in Int /\ base[x[2]].start \in Int /\ shift \in Int
    BY <1>1, BaseTyped, Multiples
<1>4. CopyStart(base, x) <= t /\ t < base[x[2]].end + shift /\ CopyStart(base, x) \in Int
    BY <1>3 DEF IsDue, CopyStart
<1>5. CASE Ends(e) = None
    <2>1. x[1] = 0 /\ shift = 0
        <3>1. x[1] = 0
            BY <1>5 DEF IsDue, Repeats
        <3> QED BY <3>1, BaseTyped, Multiples
    <2>2. x \in KeptCopies(e)
        BY <2>1, <1>1, <1>5 DEF KeptCopies
    <2>3. t < base[x[2]].end
        BY <1>3, <1>4, <2>1
    <2>4. WindowOf(e, x).start = CopyStart(base, x) /\ WindowOf(e, x).end = base[x[2]].end
        BY <1>5 DEF WindowOf
    <2> QED BY <2>2, <2>3, <2>4, <1>4 DEF Covers
<1>6. CASE Ends(e) # None
    <2>1. \A y \in copies \ Kept(copies) : t < CopyStart(base, y)
        BY <1>2, <1>6
    <2>2. MaxLooped \in Nat
        BY ScheduleAssumption
    <2>3. x[1] < MaxLooped
        <3> SUFFICES ASSUME x[1] >= MaxLooped PROVE FALSE
            BY <1>1, <2>2
        <3> DEFINE y == <<MaxLooped, 1>>
        <3>1. y \in copies \ Kept(copies) /\ CopyStart(base, y) <= t
            BY <1>6, RoundsFillTheCap
        <3>2. t < CopyStart(base, y)
            BY <3>1, <2>1
        <3>3. CopyStart(base, y) \in Int
            <4>1. 1 \in 1..Count(e)
                BY BaseTyped
            <4>2. base[1].start \in Int /\ MaxLooped * RoundLength(base) \in Int
                BY <4>1, <2>2, BaseTyped, Multiples
            <4> QED BY <4>2 DEF CopyStart
        <3> HIDE DEF y, base
        <3> QED BY <3>1, <3>2, <3>3
    <2>4. x \in copies
        BY <2>2, <2>3, <1>1, <1>6, DueIsCopy
    <2>5. x \in Kept(copies)
        <3> SUFFICES ASSUME x \notin Kept(copies) PROVE FALSE
            OBVIOUS
        <3>1. t < CopyStart(base, x)
            BY <2>1, <2>4
        <3> HIDE DEF base
        <3> QED BY <3>1, <1>4
    <2>6. x \in KeptCopies(e)
        BY <2>5, <1>6 DEF KeptCopies
    <2>7. t < Ends(e) /\ Ends(e) \in Int
        BY <1>6, EndsWhereAsked DEF IsDue
    <2>8. WindowOf(e, x).start = CopyStart(base, x) /\ WindowOf(e, x).end = MinOf(base[x[2]].end + shift, Ends(e))
        BY <1>6 DEF WindowOf
    <2> DEFINE wholeEnd == base[x[2]].end + shift
    <2>9. t < MinOf(wholeEnd, Ends(e))
        <3>1. t < wholeEnd /\ wholeEnd \in Int
            BY <1>3, <1>4
        <3> HIDE DEF wholeEnd
        <3> QED BY <3>1, <2>7 DEF MinOf
    <2> HIDE DEF base, shift
    <2> QED BY <2>6, <2>8, <2>9, <1>4 DEF Covers
<1> QED BY <1>5, <1>6

\* The windows of an event that cover an instant stand for the intervals that
\* are in force then.
LEMMA WindowsAreAsked ==
    ASSUME NEW e \in Events, NEW t \in Instants
    PROVE  /\ \A w \in Timed[e] : Covers(w, t) => w.at \in Asked[e][t]
           /\ (\A start \in LeftOut[e] : t < start) =>
                \A x \in Asked[e][t] : \E w \in Timed[e] : w.at = x /\ Covers(w, t)
<1>0. t \in Int
    BY ScheduleAssumption DEF Instants, Horizon
<1>1. ASSUME NEW w \in Timed[e], Covers(w, t) PROVE w.at \in Asked[e][t]
    BY <1>0, <1>1, CoveredIsDue, AskedIsDue
<1>2. ASSUME \A start \in LeftOut[e] : t < start, NEW x \in Asked[e][t]
      PROVE  \E w \in Timed[e] : w.at = x /\ Covers(w, t)
    <2>1. IsDue(e, x, t)
        BY AskedIsDue
    <2>2. x \in KeptCopies(e) /\ Covers(WindowOf(e, x), t)
        BY <2>1, <1>0, <1>2, DueIsCovered
    <2>3. WindowOf(e, x) \in Timed[e]
        BY <2>2, TimedIs
    <2>4. WindowOf(e, x).at = x
        BY DEF WindowOf
    <2> QED BY <2>2, <2>3, <2>4
<1> QED BY <1>1, <1>2

-----------------------------------------------------------------------------
(* The order of the listed events                                          *)

LEMMA SortsTyped ==
    ASSUME NEW list \in Seq(Events), NEW i \in DOMAIN list
    PROVE  /\ Declared[list[i]].priority = None \/ Declared[list[i]].priority \in Nat
           /\ Declared[list[i]].created \in Int /\ i \in Nat
           /\ list[i] \in Events
<1>1. list[i] \in Events /\ i \in Nat
    OBVIOUS
<1>2. Declared[list[i]] \in Event
    BY <1>1, DeclaredTyped
<1> QED BY <1>1, <1>2 DEF Event, Span

\* Priority, age and place in the list order the listed events totally.
LEMMA SortsIsOrder ==
    ASSUME NEW list \in Seq(Events)
    PROVE  /\ \A i \in DOMAIN list : ~SortsBelow(list, i, i)
           /\ \A i, j, k \in DOMAIN list :
                SortsBelow(list, i, j) /\ SortsBelow(list, j, k) => SortsBelow(list, i, k)
           /\ \A i, j \in DOMAIN list : i # j => SortsBelow(list, i, j) \/ SortsBelow(list, j, i)
<1> DEFINE p(i) == Declared[list[i]].priority
           c(i) == Declared[list[i]].created
<1>1. \A i \in DOMAIN list : (p(i) = None \/ p(i) \in Nat) /\ c(i) \in Int /\ i \in Nat
    BY SortsTyped
<1>2. \A i, j \in DOMAIN list : SortsBelow(list, i, j) <=>
            IF p(i) # p(j) THEN p(j) # None /\ (p(i) = None \/ p(j) < p(i))
            ELSE IF c(i) # c(j) THEN c(i) < c(j)
            ELSE i < j
    BY DEF SortsBelow, PriorityBelow
<1>3. None \notin Int
    BY NoneIsNoNumber
<1> HIDE DEF p, c
<1>4. \A i \in DOMAIN list : ~SortsBelow(list, i, i)
    BY <1>1, <1>2
<1>5. ASSUME NEW i \in DOMAIN list, NEW j \in DOMAIN list, NEW k \in DOMAIN list,
             SortsBelow(list, i, j), SortsBelow(list, j, k)
      PROVE  SortsBelow(list, i, k)
    BY <1>1, <1>2, <1>3, <1>5
<1>6. ASSUME NEW i \in DOMAIN list, NEW j \in DOMAIN list, i # j
      PROVE  SortsBelow(list, i, j) \/ SortsBelow(list, j, i)
    BY <1>1, <1>2, <1>3, <1>6
<1> QED BY <1>4, <1>5, <1>6

\* Counting what is sorted below gives the order back.
LEMMA RankIsOrder ==
    ASSUME NEW list \in Seq(Events), NEW i \in DOMAIN list, NEW j \in DOMAIN list
    PROVE  /\ Rank(list, i) \in 0..Len(list)
           /\ Rank(list, i) < Rank(list, j) <=> SortsBelow(list, i, j)
           /\ i = j \/ Rank(list, i) < Rank(list, j) \/ Rank(list, j) < Rank(list, i)
<1> DEFINE below(k) == {m \in DOMAIN list : SortsBelow(list, m, k)}
<1>1. /\ IsFiniteSet(DOMAIN list) /\ Cardinality(DOMAIN list) = Len(list)
    <2>1. Len(list) \in Nat /\ DOMAIN list = 1..Len(list) /\ 1 \in Int /\ Len(list) \in Int
        OBVIOUS
    <2>2. IsFiniteSet(1..Len(list))
          /\ Cardinality(1..Len(list)) = IF 1 > Len(list) THEN 0 ELSE Len(list) - 1 + 1
        BY <2>1, FS_Interval
    <2>3. (IF 1 > Len(list) THEN 0 ELSE Len(list) - 1 + 1) = Len(list)
        BY <2>1
    <2> QED BY <2>1, <2>2, <2>3
<1>2. ASSUME NEW k \in DOMAIN list
      PROVE  /\ IsFiniteSet(below(k)) /\ Rank(list, k) = Cardinality(below(k))
             /\ Rank(list, k) \in 0..Len(list)
    <2>1. IsFiniteSet(below(k)) /\ Cardinality(below(k)) <= Len(list)
        BY <1>1, FS_Subset
    <2>2. Rank(list, k) = Cardinality(below(k))
        BY DEF Rank
    <2>3. Cardinality(below(k)) \in Nat
        BY <2>1, FS_CardinalityType
    <2> QED BY <2>1, <2>2, <2>3
<1>3. ASSUME NEW k \in DOMAIN list, NEW m \in DOMAIN list, SortsBelow(list, k, m)
      PROVE  Rank(list, k) < Rank(list, m)
    <2>1. below(k) \subseteq below(m) /\ k \in below(m) /\ k \notin below(k)
        BY <1>3, SortsIsOrder
    <2>2. below(k) \in SUBSET below(m) /\ below(k) # below(m)
        BY <2>1
    <2>3. Cardinality(below(k)) < Cardinality(below(m))
        <3> HIDE DEF below
        <3>1. Cardinality(below(k)) <= Cardinality(below(m))
              /\ (Cardinality(below(k)) = Cardinality(below(m)) => below(k) = below(m))
            BY <2>2, <1>2, FS_Subset
        <3>2. Cardinality(below(k)) \in Nat /\ Cardinality(below(m)) \in Nat
            BY <1>2, FS_CardinalityType
        <3> QED BY <3>1, <3>2, <2>2
    <2> QED BY <2>3, <1>2
<1>4. Rank(list, i) \in 0..Len(list) /\ Rank(list, j) \in 0..Len(list) /\ Len(list) \in Nat
    <2>1. Len(list) \in Nat
        OBVIOUS
    <2> HIDE DEF below
    <2>2. \A k \in DOMAIN list : Rank(list, k) \in 0..Len(list)
        BY <1>2
    <2> QED BY <2>1, <2>2
<1>5. i = j \/ SortsBelow(list, i, j) \/ SortsBelow(list, j, i)
    BY SortsIsOrder
<1>6. i = j => ~SortsBelow(list, i, j)
    BY SortsIsOrder
<1>7. SortsBelow(list, i, j) => Rank(list, i) < Rank(list, j)
    BY <1>3
<1>8. SortsBelow(list, j, i) => Rank(list, j) < Rank(list, i)
    BY <1>3
<1> DEFINE a == Rank(list, i)
           b == Rank(list, j)
<1>9. a \in Int /\ b \in Int
    BY <1>4
<1>10. SortsBelow(list, j, i) => b < a
    BY <1>8
<1>11. SortsBelow(list, i, j) => a < b
    BY <1>7
<1>12. i = j => a = b
    OBVIOUS
<1> HIDE DEF a, b
<1>13. /\ a < b <=> SortsBelow(list, i, j)
       /\ i = j \/ a < b \/ b < a
    BY <1>5, <1>6, <1>9, <1>10, <1>11, <1>12
<1> QED BY <1>4, <1>13 DEF a, b

-----------------------------------------------------------------------------
(* The window that wins                                                    *)

Above(list, c, d) ==
    \/ Rank(list, d[1]) < Rank(list, c[1])
    \/ d[1] = c[1] /\ Before(d[2].at, c[2].at)

\* What TimedTyped says, of a window of a listed event.
LEMMA AllWindowsTyped ==
    ASSUME NEW list \in Seq(Events), NEW c \in AllWindows(list)
    PROVE  /\ c[1] \in DOMAIN list /\ list[c[1]] \in Events /\ c = <<c[1], c[2]>>
           /\ c[2] \in Timed[list[c[1]]]
           /\ c[2].at \in (0..MaxLooped) \X (1..Count(list[c[1]]))
           /\ c[2].start \in Int /\ c[2].end \in Int
           /\ c[2].payload \in Payload
           /\ c[2].payload = Declared[list[c[1]]].intervals[c[2].at[2]].payload
           /\ c[2] = WindowOf(list[c[1]], c[2].at)
<1>1. PICK i \in DOMAIN list : c \in {i} \X Timed[list[i]]
    BY DEF AllWindows
<1>2. c[1] = i /\ c[2] \in Timed[list[i]] /\ c = <<c[1], c[2]>> /\ list[i] \in Events
    BY <1>1
<1>3. /\ c[2].at \in KeptCopies(list[i]) /\ c[2] = WindowOf(list[i], c[2].at)
      /\ c[2].start \in Int /\ c[2].end \in Int /\ c[2].payload \in Payload
      /\ c[2].payload = Declared[list[i]].intervals[c[2].at[2]].payload
    BY <1>2, TimedTyped
<1>4. c[2].at \in (0..MaxLooped) \X (1..Count(list[i]))
    BY <1>2, <1>3, CopiesTyped
<1> QED BY <1>2, <1>3, <1>4

\* Two windows are one, or one is above the other.
LEMMA AboveIsTotal ==
    ASSUME NEW list \in Seq(Events), NEW c \in AllWindows(list), NEW d \in AllWindows(list)
    PROVE  /\ c = d \/ Above(list, c, d) \/ Above(list, d, c)
           /\ ~(Above(list, c, d) /\ Above(list, d, c))
<1>1. c[1] \in DOMAIN list /\ d[1] \in DOMAIN list
    BY AllWindowsTyped
<1>2. /\ Rank(list, c[1]) \in Int /\ Rank(list, d[1]) \in Int
      /\ c[1] = d[1] \/ Rank(list, c[1]) < Rank(list, d[1]) \/ Rank(list, d[1]) < Rank(list, c[1])
    BY <1>1, RankIsOrder
<1>3. /\ c[2].at[1] \in Int /\ c[2].at[2] \in Int /\ d[2].at[1] \in Int /\ d[2].at[2] \in Int
      /\ c[2].at = <<c[2].at[1], c[2].at[2]>> /\ d[2].at = <<d[2].at[1], d[2].at[2]>>
    <2>1. /\ c[2].at \in (0..MaxLooped) \X (1..Count(list[c[1]]))
          /\ d[2].at \in (0..MaxLooped) \X (1..Count(list[d[1]]))
        BY AllWindowsTyped
    <2> QED BY <2>1
<1>4. c[2].at = d[2].at \/ Before(c[2].at, d[2].at) \/ Before(d[2].at, c[2].at)
    BY <1>3 DEF Before
<1>5. ~(Before(c[2].at, d[2].at) /\ Before(d[2].at, c[2].at))
    BY <1>3 DEF Before
<1>6. c[1] = d[1] /\ c[2].at = d[2].at => c = d
    <2>1. /\ c[2] = WindowOf(list[c[1]], c[2].at) /\ d[2] = WindowOf(list[d[1]], d[2].at)
          /\ c = <<c[1], c[2]>> /\ d = <<d[1], d[2]>>
        BY AllWindowsTyped
    <2> QED BY <2>1
<1> QED BY <1>2, <1>4, <1>5, <1>6 DEF Above

\* Of any windows of the list, one is above all others.
LEMMA TopmostIsAbove ==
    ASSUME NEW list \in Seq(Events), NEW cs \in SUBSET AllWindows(list), cs # {}
    PROVE  Topmost(list, cs) \in cs /\ \A d \in cs \ {Topmost(list, cs)} : Above(list, Topmost(list, cs), d)
<1> DEFINE ranks == {Rank(list, c[1]) : c \in cs}
           r == Max(ranks)
           ofEvent == {c \in cs : Rank(list, c[1]) = r}
           rounds == {c[2].at[1] : c \in ofEvent}
           q == Max(rounds)
           ofRound == {c \in ofEvent : c[2].at[1] = q}
           places == {c[2].at[2] : c \in ofRound}
           k == Max(places)
<1>0. ASSUME NEW c \in cs
      PROVE  /\ c[1] \in DOMAIN list /\ Rank(list, c[1]) \in 0..Len(list)
             /\ c[2].at[1] \in 0..MaxLooped /\ c[2].at[2] \in 1..Count(list[c[1]])
             /\ list[c[1]] \in Events
    <2>1. c[1] \in DOMAIN list /\ c[2].at \in (0..MaxLooped) \X (1..Count(list[c[1]])) /\ list[c[1]] \in Events
        BY AllWindowsTyped
    <2> QED BY <2>1, RankIsOrder
<1>l. MaxLooped \in Int
    BY ScheduleAssumption
<1>1. r \in ranks /\ \A m \in ranks : r >= m
    <2>1. ranks \subseteq Int /\ ranks # {} /\ Len(list) \in Int /\ \A m \in ranks : m <= Len(list)
        BY <1>0
    <2> HIDE DEF ranks
    <2> QED BY <2>1, MaxIsGreatest
<1>2. q \in rounds /\ \A m \in rounds : q >= m
    <2>1. rounds \subseteq Int /\ \A m \in rounds : m <= MaxLooped
        <3> HIDE DEF r
        <3> QED BY <1>0, <1>l
    <2>2. rounds # {}
        BY <1>1
    <2> HIDE DEF rounds
    <2> QED BY <2>1, <2>2, <1>l, MaxIsGreatest
<1>3. PICK first \in ofRound : TRUE
    BY <1>2
<1>4. \A c \in ofRound : c[1] = first[1]
    <2> SUFFICES ASSUME NEW c \in ofRound PROVE c[1] = first[1]
        OBVIOUS
    <2>1. Rank(list, c[1]) = Rank(list, first[1]) /\ c \in cs /\ first \in cs
        BY <1>3
    <2>2. c[1] \in DOMAIN list /\ first[1] \in DOMAIN list /\ Rank(list, first[1]) \in 0..Len(list)
        BY <1>0, <2>1
    <2>3. c[1] = first[1] \/ Rank(list, c[1]) < Rank(list, first[1]) \/ Rank(list, first[1]) < Rank(list, c[1])
        BY <2>2, RankIsOrder
    <2> QED BY <2>1, <2>2, <2>3
<1>5. k \in places /\ \A m \in places : k >= m
    <2>1. list[first[1]] \in Events
        BY <1>0, <1>3
    <2>2. Count(list[first[1]]) \in Int
        BY <2>1, BaseTyped
    <2>3. places \subseteq Int /\ \A m \in places : m <= Count(list[first[1]])
        <3>1. \A c \in ofRound : c \in cs /\ c[1] = first[1]
            BY <1>4
        <3> HIDE DEF ofRound
        <3>2. \A c \in ofRound : c[2].at[2] \in 1..Count(list[first[1]])
            BY <3>1, <1>0
        <3> QED BY <3>2, <2>2
    <2>4. places # {}
        BY <1>3
    <2> HIDE DEF places
    <2> QED BY <2>2, <2>3, <2>4, MaxIsGreatest
<1>6. PICK top \in ofRound : top[2].at[2] = k
    BY <1>5
<1>7. ASSUME NEW d \in cs, d # top PROVE Above(list, top, d)
    <2>1. top \in cs /\ Rank(list, top[1]) = r /\ top[2].at[1] = q
        BY <1>6
    <2>2. d \in AllWindows(list) /\ top \in AllWindows(list)
        BY <2>1
    <2>3. Above(list, top, d) \/ Above(list, d, top)
        BY <2>2, <1>7, AboveIsTotal
    <2> SUFFICES ASSUME Above(list, d, top) PROVE FALSE
        BY <2>3
    <2>4. Rank(list, d[1]) <= r /\ Rank(list, d[1]) \in Int /\ r \in Int
        <3>1. d \in cs /\ \A c \in cs : Rank(list, c[1]) \in Int
            BY <1>0, <1>7
        <3>2. Rank(list, d[1]) \in ranks /\ r \in ranks
            BY <1>1, <3>1
        <3>3. r \in Int
            BY <3>1, <3>2
        <3> HIDE DEF ranks
        <3> QED BY <1>1, <3>1, <3>2, <3>3
    <2>5. d[1] = top[1] /\ Before(top[2].at, d[2].at)
        BY <2>1, <2>4 DEF Above
    <2>6. d \in ofEvent
        BY <2>5, <2>1
    <2>7. d[2].at[1] <= q /\ d[2].at[1] \in Int /\ q \in Int
        <3>1. d[2].at[1] \in rounds /\ d[2].at[1] \in Int /\ q \in Int
            <4> HIDE DEF ofEvent, q
            <4> QED BY <2>6, <1>0, <2>1
        <3>2. q >= d[2].at[1]
            BY <3>1, <1>2
        <3> HIDE DEF q
        <3> QED BY <3>1, <3>2
    <2>8. d[2].at[1] = q /\ top[2].at[2] < d[2].at[2]
        BY <2>5, <2>7, <2>1 DEF Before
    <2>9. d \in ofRound
        BY <2>6, <2>8
    <2>10. d[2].at[2] <= k /\ d[2].at[2] \in Int /\ k \in Int
        <3>1. d[2].at[2] \in places /\ d[2].at[2] \in Int /\ k \in Int
            <4> HIDE DEF ofRound, k
            <4> QED BY <2>9, <1>0, <1>6, <2>1
        <3>2. k >= d[2].at[2]
            BY <3>1, <1>5
        <3> HIDE DEF k
        <3> QED BY <3>1, <3>2
    <2> QED BY <2>8, <2>10, <1>6
<1>8. top \in cs /\ \A d \in cs \ {top} : Above(list, top, d)
    BY <1>6, <1>7
<1> HIDE DEF ofRound
<1> QED BY <1>8 DEF Topmost, Above

-----------------------------------------------------------------------------
(* The segments                                                            *)

Following(bounds, b) == Min({c \in bounds : b < c})

\* The next boundary is the nearest one above.
LEMMA FollowingIsNext ==
    ASSUME NEW bounds \in SUBSET Int, NEW b \in bounds, \E c \in bounds : b < c
    PROVE  /\ Following(bounds, b) \in bounds /\ b < Following(bounds, b)
           /\ \A c \in bounds : b < c => Following(bounds, b) <= c
<1> DEFINE later == {c \in bounds : b < c}
<1>1. later \subseteq Int /\ later # {} /\ b \in Int /\ \A c \in later : b <= c
    <2>1. bounds \subseteq Int /\ b \in Int
        OBVIOUS
    <2>2. \A c \in later : c \in Int /\ b < c
        BY <2>1
    <2>3. later # {}
        OBVIOUS
    <2> HIDE DEF later
    <2> QED BY <2>1, <2>2, <2>3
<1>2. Min(later) \in later /\ \A c \in later : Min(later) <= c
    <2> HIDE DEF later
    <2> QED BY <1>1, MinIsLeast
<1>3. Following(bounds, b) = Min(later)
    BY DEF Following
<1> HIDE DEF later
<1>4. Following(bounds, b) \in later /\ \A c \in later : Following(bounds, b) <= c
    BY <1>2, <1>3
<1> QED BY <1>4 DEF later

BoundsOf(list, types) == Boundaries(Candidates(list, types))

\* Every candidate starts and ends at a boundary.
LEMMA BoundsTyped ==
    ASSUME NEW list \in Seq(Events), NEW types
    PROVE  /\ BoundsOf(list, types) \subseteq Int
           /\ \A c \in Candidates(list, types) :
                /\ c \in AllWindows(list)
                /\ c[2].start \in BoundsOf(list, types) /\ c[2].end \in BoundsOf(list, types)
                /\ c[2].start < c[2].end
<1>1. ASSUME NEW c \in Candidates(list, types)
      PROVE  c \in AllWindows(list) /\ c[2].start \in Int /\ c[2].end \in Int /\ c[2].start < c[2].end
    <2>1. c \in AllWindows(list) /\ c[2].start < c[2].end
        BY DEF Candidates
    <2> QED BY <2>1, AllWindowsTyped
<1>2. BoundsOf(list, types) = UNION {{c[2].start, c[2].end} : c \in Candidates(list, types)}
    BY DEF BoundsOf, Boundaries
<1> QED BY <1>1, <1>2

SegmentAt(list, types, b) ==
    SegmentBetween(list, Candidates(list, types), types, b, Following(BoundsOf(list, types), b))

HasLater(bounds, b) == \E c \in bounds : b < c

LEMMA ResolveIs ==
    ASSUME NEW list, NEW types
    PROVE  LET bounds == BoundsOf(list, types)
           IN  Resolve(list, types) =
                {s \in {SegmentAt(list, types, b) : b \in {b \in bounds : HasLater(bounds, b)}} :
                    \E type \in types : s.winners[type] # None}
BY DEF Resolve, Segments, BoundsOf, SegmentAt, Following, HasLater

\* A segment runs from a boundary to the next.
LEMMA SegmentIs ==
    ASSUME NEW list \in Seq(Events), NEW types, NEW s \in Resolve(list, types)
    PROVE  LET bounds == BoundsOf(list, types)
           IN  /\ s.start \in bounds /\ HasLater(bounds, s.start)
               /\ s = SegmentAt(list, types, s.start)
               /\ s.end = Following(bounds, s.start)
               /\ s.start \in Int /\ s.end \in Int /\ s.start < s.end
               /\ \A c \in bounds : s.start < c => s.end <= c
               /\ DOMAIN s.winners = types
<1> DEFINE bounds == BoundsOf(list, types)
<1>1. PICK b \in bounds : HasLater(bounds, b) /\ s = SegmentAt(list, types, b)
    BY ResolveIs
<1>2. s.start = b /\ s.end = Following(bounds, b) /\ DOMAIN s.winners = types
    BY <1>1 DEF SegmentAt, SegmentBetween
<1>3. bounds \subseteq Int /\ \E c \in bounds : b < c
    BY <1>1, BoundsTyped DEF HasLater
<1>4. /\ Following(bounds, b) \in bounds /\ b < Following(bounds, b)
      /\ \A c \in bounds : b < c => Following(bounds, b) <= c
    BY <1>3, FollowingIsNext
<1> HIDE DEF bounds
<1>5. /\ s.start \in bounds /\ HasLater(bounds, s.start)
      /\ s = SegmentAt(list, types, s.start)
      /\ s.end = Following(bounds, s.start)
      /\ s.start \in Int /\ s.end \in Int /\ s.start < s.end
      /\ \A c \in bounds : s.start < c => s.end <= c
      /\ DOMAIN s.winners = types
    BY <1>1, <1>2, <1>3, <1>4
<1> QED BY <1>5 DEF bounds

\* So two segments share no time.
LEMMA SegmentsAreDisjoint ==
    ASSUME NEW list \in Seq(Events), NEW types, NEW s \in Resolve(list, types), NEW o \in Resolve(list, types)
    PROVE  s = o \/ s.end <= o.start \/ o.end <= s.start
<1>1. /\ s.start \in BoundsOf(list, types) /\ s.start \in Int
      /\ s = SegmentAt(list, types, s.start)
      /\ \A c \in BoundsOf(list, types) : s.start < c => s.end <= c
    BY SegmentIs
<1>2. /\ o.start \in BoundsOf(list, types) /\ o.start \in Int
      /\ o = SegmentAt(list, types, o.start)
      /\ \A c \in BoundsOf(list, types) : o.start < c => o.end <= c
    BY SegmentIs
<1> QED BY <1>1, <1>2

\* The windows of the listed events that cover an instant and carry the type, and
\* the value of the one that wins.
Over(list, type, t) == {c \in AllWindows(list) : Covers(c[2], t) /\ c[2].payload[type] # None}

ValueOver(list, type, t) ==
    IF Over(list, type, t) = {} THEN None ELSE Topmost(list, Over(list, type, t))[2].payload[type]

\* Between neighbouring boundaries the windows that cover an instant are those
\* that span the gap.
LEMMA SpanningIsOver ==
    ASSUME NEW list \in Seq(Events), NEW types, NEW type \in types, NEW t \in Int,
           NEW b \in BoundsOf(list, types), HasLater(BoundsOf(list, types), b),
           b <= t, t < Following(BoundsOf(list, types), b)
    PROVE  Spanning(Candidates(list, types), b, Following(BoundsOf(list, types), b), type) = Over(list, type, t)
<1> DEFINE bounds == BoundsOf(list, types)
           next == Following(bounds, b)
           cs == Candidates(list, types)
<1>0. bounds \subseteq Int
    BY BoundsTyped
<1>1. /\ next \in bounds /\ b < next /\ \A c \in bounds : b < c => next <= c
    BY <1>0, FollowingIsNext DEF HasLater
<1>2. ASSUME NEW c \in Spanning(cs, b, next, type) PROVE c \in Over(list, type, t)
    <2>1. c \in cs /\ c[2].start <= b /\ next <= c[2].end /\ c[2].payload[type] # None
        BY DEF Spanning
    <2>2. c \in AllWindows(list) /\ c[2].start \in bounds /\ c[2].end \in bounds
        BY <2>1, BoundsTyped
    <2> HIDE DEF bounds, next, cs
    <2>3. c[2].start \in Int /\ c[2].end \in Int /\ b \in Int /\ next \in Int
        BY <2>2, <1>0, <1>1 DEF bounds
    <2>4. c[2].start <= t /\ t < c[2].end
        BY <2>1, <2>3 DEF next, bounds
    <2> QED BY <2>1, <2>2, <2>4 DEF Over, Covers
<1>3. ASSUME NEW c \in Over(list, type, t) PROVE c \in Spanning(cs, b, next, type)
    <2>1. c \in AllWindows(list) /\ c[2].start <= t /\ t < c[2].end /\ c[2].payload[type] # None
        BY DEF Over, Covers
    <2>2. c[2].start \in Int /\ c[2].end \in Int
        BY <2>1, AllWindowsTyped
    <2>3. c \in cs
        BY <2>1, <2>2 DEF Candidates
    <2>4. c[2].start \in bounds /\ c[2].end \in bounds
        BY <2>3, BoundsTyped
    <2>5. c[2].start <= b
        <3> SUFFICES ASSUME b < c[2].start PROVE FALSE
            BY <2>2, <1>0
        <3>1. next <= c[2].start
            BY <2>4, <1>1
        <3>2. next \in Int /\ t < next
            BY <1>0, <1>1
        <3> HIDE DEF next
        <3> QED BY <3>1, <3>2, <2>1, <2>2
    <2>6. next <= c[2].end
        <3>1. b < c[2].end
            BY <2>1, <2>2, <1>0
        <3> QED BY <3>1, <2>4, <1>1
    <2> QED BY <2>1, <2>3, <2>5, <2>6 DEF Spanning
<1> QED BY <1>2, <1>3

\* The segment over an instant reads the winner of the windows that cover it.
LEMMA SegmentReads ==
    ASSUME NEW list \in Seq(Events), NEW types, NEW type \in types, NEW t \in Int,
           NEW s \in Resolve(list, types), Covers(s, t)
    PROVE  s.winners[type] = ValueOver(list, type, t)
<1> DEFINE bounds == BoundsOf(list, types)
           over == Spanning(Candidates(list, types), s.start, s.end, type)
<1>1. /\ s.start \in bounds /\ HasLater(bounds, s.start)
      /\ s = SegmentAt(list, types, s.start)
      /\ s.end = Following(bounds, s.start)
    BY SegmentIs
<1>2. s.start <= t /\ t < s.end
    BY DEF Covers
<1>3. over = Over(list, type, t)
    BY <1>1, <1>2, SpanningIsOver
<1>4. s.winners[type] = IF over = {} THEN None ELSE Topmost(list, over)[2].payload[type]
    BY <1>1 DEF SegmentAt, SegmentBetween
<1> QED BY <1>3, <1>4 DEF ValueOver

\* Where a window that carries one of the types covers an instant, a segment does.
LEMMA SegmentExists ==
    ASSUME NEW list \in Seq(Events), NEW types, NEW type \in types, NEW t \in Int,
           Over(list, type, t) # {}
    PROVE  \E s \in Resolve(list, types) : Covers(s, t)
<1> DEFINE bounds == BoundsOf(list, types)
           reached == {b \in bounds : b <= t}
           b == Max(reached)
           next == Following(bounds, b)
           s == SegmentAt(list, types, b)
<1>0. bounds \subseteq Int
    BY BoundsTyped
<1>1. PICK c \in Over(list, type, t) : TRUE
    OBVIOUS
<1>2. c \in AllWindows(list) /\ c[2].start <= t /\ t < c[2].end /\ c[2].payload[type] # None
    BY DEF Over, Covers
<1>3. c[2].start \in Int /\ c[2].end \in Int
    BY <1>2, AllWindowsTyped
<1>4. c \in Candidates(list, types)
    BY <1>2, <1>3 DEF Candidates
<1>5. c[2].start \in bounds /\ c[2].end \in bounds
    BY <1>4, BoundsTyped
<1>6. b \in reached /\ \A a \in reached : b >= a
    <2>1. reached \subseteq Int /\ reached # {} /\ \A a \in reached : a <= t
        BY <1>0, <1>2, <1>5
    <2> HIDE DEF reached
    <2> QED BY <2>1, MaxIsGreatest
<1> HIDE DEF b, bounds
<1>7. b \in bounds /\ b <= t /\ b \in Int /\ HasLater(bounds, b)
    BY <1>0, <1>2, <1>3, <1>5, <1>6 DEF HasLater
<1>8. next \in bounds /\ b < next /\ next \in Int /\ \A a \in bounds : b < a => next <= a
    BY <1>0, <1>7, FollowingIsNext DEF HasLater
<1>9. t < next
    <2> SUFFICES ASSUME next <= t PROVE FALSE
        BY <1>8
    <2>1. next \in reached
        BY <1>8
    <2> HIDE DEF next, reached
    <2> QED BY <2>1, <1>6, <1>8, <1>7
<1>10. Spanning(Candidates(list, types), b, next, type) = Over(list, type, t)
    BY <1>7, <1>9, SpanningIsOver DEF bounds
<1>11. s.start = b /\ s.end = next /\ s.winners[type] = ValueOver(list, type, t)
    BY <1>10 DEF SegmentAt, SegmentBetween, ValueOver, bounds
<1>12. s.winners[type] # None
    <2>1. Over(list, type, t) \in SUBSET AllWindows(list)
        BY DEF Over
    <2>2. Topmost(list, Over(list, type, t)) \in Over(list, type, t)
        BY <2>1, TopmostIsAbove
    <2> QED BY <2>2, <1>11 DEF Over, ValueOver
<1>13. s \in Resolve(list, types)
    <2>1. b \in {a \in BoundsOf(list, types) : HasLater(BoundsOf(list, types), a)}
        BY <1>7 DEF bounds
    <2> HIDE DEF s
    <2>2. s \in {SegmentAt(list, types, a) : a \in {a \in BoundsOf(list, types) : HasLater(BoundsOf(list, types), a)}}
        BY <2>1 DEF s
    <2> QED BY <2>2, <1>12, ResolveIs
<1>14. Covers(s, t)
    BY <1>7, <1>9, <1>11 DEF Covers
<1> QED BY <1>13, <1>14

-----------------------------------------------------------------------------
(* The value read is the ranked one                                        *)

\* The reference's ranking is the order the code sorts by.
LEMMA OutranksIsOrder ==
    ASSUME events \in Seq(Events), NEW i \in DOMAIN events, NEW j \in DOMAIN events
    PROVE  /\ Outranks(i, j) <=> SortsBelow(events, j, i)
           /\ ~(Outranks(i, j) /\ Outranks(j, i))
<1> DEFINE p(k) == Declared[events[k]].priority
           c(k) == Declared[events[k]].created
<1>1. \A k \in DOMAIN events : (p(k) = None \/ p(k) \in Nat) /\ c(k) \in Int /\ k \in Nat
    BY SortsTyped
<1>2. \A k, m \in DOMAIN events : SortsBelow(events, k, m) <=>
            IF p(k) # p(m) THEN p(m) # None /\ (p(k) = None \/ p(m) < p(k))
            ELSE IF c(k) # c(m) THEN c(k) < c(m)
            ELSE k < m
    BY DEF SortsBelow, PriorityBelow
<1>3. \A k, m \in DOMAIN events : Outranks(k, m) <=>
            \/ p(k) # None /\ (p(m) = None \/ p(k) < p(m))
            \/ p(k) = p(m) /\ (c(k) > c(m) \/ (c(k) = c(m) /\ k > m))
    BY DEF Outranks
<1>4. None \notin Int
    BY NoneIsNoNumber
<1> HIDE DEF p, c
<1>5. Outranks(i, j) <=> SortsBelow(events, j, i)
    BY <1>1, <1>2, <1>3, <1>4
<1>6. ~(Outranks(i, j) /\ Outranks(j, i))
    BY <1>1, <1>3, <1>4
<1> QED BY <1>5, <1>6

\* The windows of the listed events over an instant are the intervals in force.
LEMMA OverIsCarrying ==
    ASSUME events \in Seq(Events), NEW t \in Instants, NEW type \in PayloadTypes
    PROVE  /\ \A c \in Over(events, type, t) :
                /\ c[1] \in Asking(t, type)
                /\ c[2].at \in Carrying(events[c[1]], t, type)
           /\ Expanded(t) =>
                \A i \in Asking(t, type) : \A x \in Carrying(events[i], t, type) :
                    \E c \in Over(events, type, t) : c[1] = i /\ c[2].at = x
<1>1. ASSUME NEW c \in Over(events, type, t)
      PROVE  c[1] \in Asking(t, type) /\ c[2].at \in Carrying(events[c[1]], t, type)
    <2>1. c \in AllWindows(events) /\ Covers(c[2], t) /\ c[2].payload[type] # None
        BY DEF Over
    <2>2. /\ c[1] \in DOMAIN events /\ events[c[1]] \in Events /\ c[2] \in Timed[events[c[1]]]
          /\ c[2].payload = Declared[events[c[1]]].intervals[c[2].at[2]].payload
        BY <2>1, AllWindowsTyped
    <2>3. c[2].at \in Asked[events[c[1]]][t]
        BY <2>1, <2>2, WindowsAreAsked
    <2>4. c[2].at \in Carrying(events[c[1]], t, type)
        BY <2>1, <2>2, <2>3 DEF Carrying
    <2> QED BY <2>2, <2>4 DEF Asking
<1>2. ASSUME Expanded(t), NEW i \in Asking(t, type), NEW x \in Carrying(events[i], t, type)
      PROVE  \E c \in Over(events, type, t) : c[1] = i /\ c[2].at = x
    <2>1. i \in DOMAIN events /\ events[i] \in Events
        BY DEF Asking
    <2>2. \A start \in LeftOut[events[i]] : t < start
        BY <1>2, <2>1 DEF Expanded
    <2>3. x \in Asked[events[i]][t] /\ Declared[events[i]].intervals[x[2]].payload[type] # None
        BY DEF Carrying
    <2>4. PICK w \in Timed[events[i]] : w.at = x /\ Covers(w, t)
        BY <2>1, <2>2, <2>3, WindowsAreAsked
    <2>5. w.payload = Declared[events[i]].intervals[x[2]].payload
        BY <2>1, <2>4, TimedTyped
    <2> DEFINE c == <<i, w>>
    <2>6. c \in AllWindows(events)
        BY <2>1 DEF AllWindows
    <2>7. c[1] = i /\ c[2] = w
        OBVIOUS
    <2> HIDE DEF c
    <2>8. c \in Over(events, type, t)
        BY <2>3, <2>4, <2>5, <2>6, <2>7 DEF Over
    <2> QED BY <2>4, <2>7, <2>8
<1> QED BY <1>1, <1>2

\* The window that wins has the value of the event that ranks highest.
LEMMA WinnerIsRanked ==
    ASSUME events \in Seq(Events), NEW t \in Instants, Expanded(t), NEW type \in PayloadTypes
    PROVE  ValueOver(events, type, t) = RankedValue(t, type)
<1> DEFINE over == Over(events, type, t)
           asking == Asking(t, type)
           top == Topmost(events, over)
           i == top[1]
           e == events[i]
           carrying == Carrying(e, t, type)
<1>1. /\ \A c \in over : c[1] \in asking /\ c[2].at \in Carrying(events[c[1]], t, type)
      /\ \A m \in asking : \A x \in Carrying(events[m], t, type) : \E c \in over : c[1] = m /\ c[2].at = x
    BY OverIsCarrying
<1>2. \A m \in asking : m \in DOMAIN events /\ Carrying(events[m], t, type) # {}
    BY DEF Asking
<1>3. CASE over = {}
    <2>1. asking = {}
        BY <1>1, <1>2, <1>3
    <2> QED BY <2>1, <1>3 DEF ValueOver, RankedValue
<1>4. CASE over # {}
    <2>1. over \in SUBSET AllWindows(events)
        BY DEF Over
    <2>2. top \in over /\ \A d \in over \ {top} : Above(events, top, d)
        BY <2>1, <1>4, TopmostIsAbove
    <2>3. i \in asking /\ top[2].at \in carrying /\ i \in DOMAIN events
        BY <1>1, <1>2, <2>2
    <2>4. ASSUME NEW m \in asking, m # i PROVE Outranks(i, m)
        <3>1. PICK x \in Carrying(events[m], t, type) : TRUE
            BY <1>2
        <3>2. PICK c \in over : c[1] = m /\ c[2].at = x
            BY <1>1
        <3>3. c # top
            BY <3>2, <2>4
        <3>4. Rank(events, m) < Rank(events, i)
            BY <3>2, <3>3, <2>2, <2>4 DEF Above
        <3>5. SortsBelow(events, m, i)
            BY <3>4, <1>2, <2>3, RankIsOrder
        <3> QED BY <3>5, <1>2, <2>3, OutranksIsOrder
    <2>5. Highest(asking) = i
        <3> HIDE DEF asking, i
        <3>1. \A m \in asking : (\A j \in asking \ {m} : Outranks(m, j)) => m = i
            <4> SUFFICES ASSUME NEW m \in asking, \A j \in asking \ {m} : Outranks(m, j), m # i PROVE FALSE
                OBVIOUS
            <4>1. Outranks(m, i) /\ Outranks(i, m)
                BY <2>3, <2>4
            <4> QED BY <4>1, <1>2, <2>3, OutranksIsOrder
        <3>2. i \in asking /\ \A j \in asking \ {i} : Outranks(i, j)
            BY <2>3, <2>4
        <3> QED BY <3>1, <3>2 DEF Highest
    <2>6. \A x \in carrying : x[1] \in Int /\ x[2] \in Int /\ x = <<x[1], x[2]>>
        <3>1. e \in Events
            BY <2>3
        <3>2. ASSUME NEW x \in carrying PROVE IsDue(e, x, t)
            BY <3>1, AskedIsDue DEF Carrying
        <3>3. Count(e) \in Nat
            BY <3>1, BaseTyped
        <3> QED BY <3>2, <3>3 DEF IsDue
    <2>7. ASSUME NEW x \in carrying, x # top[2].at PROVE Before(x, top[2].at)
        <3>1. PICK c \in over : c[1] = i /\ c[2].at = x
            BY <1>1, <2>3
        <3>2. c # top
            BY <3>1, <2>7
        <3>3. Above(events, top, c)
            BY <2>2, <3>1, <3>2
        <3>4. ~(Rank(events, c[1]) < Rank(events, top[1]))
            <4>1. Rank(events, i) \in Int
                BY <2>3, RankIsOrder
            <4> QED BY <4>1, <3>1
        <3> QED BY <3>1, <3>3, <3>4 DEF Above
    <2>8. Latest(carrying) = top[2].at
        <3> DEFINE z == top[2].at
        <3>1. z \in carrying /\ \A x \in carrying : x = z \/ Before(x, z)
            BY <2>3, <2>7
        <3> HIDE DEF carrying, z
        <3>2. \A y \in carrying : y[1] < z[1] \/ (y[1] = z[1] /\ y[2] <= z[2])
            BY <3>1, <2>6 DEF Before
        <3>3. \A x \in carrying :
                (\A y \in carrying : y[1] < x[1] \/ (y[1] = x[1] /\ y[2] <= x[2])) => x = z
            <4> SUFFICES ASSUME NEW x \in carrying,
                                \A y \in carrying : y[1] < x[1] \/ (y[1] = x[1] /\ y[2] <= x[2])
                         PROVE  x = z
                OBVIOUS
            <4>1. z[1] < x[1] \/ (z[1] = x[1] /\ z[2] <= x[2])
                BY <3>1
            <4>2. x[1] < z[1] \/ (x[1] = z[1] /\ x[2] <= z[2])
                BY <3>2
            <4>3. /\ x[1] \in Int /\ x[2] \in Int /\ z[1] \in Int /\ z[2] \in Int
                  /\ x = <<x[1], x[2]>> /\ z = <<z[1], z[2]>>
                BY <3>1, <2>6
            <4>4. x[1] = z[1] /\ x[2] = z[2]
                BY <4>1, <4>2, <4>3
            <4> QED BY <4>3, <4>4
        <3>4. Latest(carrying) = z
            BY <3>1, <3>2, <3>3 DEF Latest
        <3> QED BY <3>4 DEF z
    <2>9. top[2].payload[type] = Declared[e].intervals[top[2].at[2]].payload[type]
        <3>1. top \in AllWindows(events)
            BY <2>1, <2>2
        <3> QED BY <3>1, AllWindowsTyped
    <2>10. ValueOver(events, type, t) = top[2].payload[type]
        BY <1>4 DEF ValueOver
    <2>11. RankedValue(t, type) = AskedValue(events[i], t, type)
        BY <2>3, <2>5 DEF RankedValue
    <2>12. AskedValue(events[i], t, type) = Declared[e].intervals[top[2].at[2]].payload[type]
        <3> HIDE DEF top
        <3> QED BY <2>8 DEF AskedValue
    <2> QED BY <2>9, <2>10, <2>11, <2>12
<1> QED BY <1>3, <1>4

-----------------------------------------------------------------------------
(* What a poll lists                                                       *)

\* A listing is a sequence of distinct events within the bound.
LEMMA ListingIs ==
    ASSUME NEW list
    PROVE  list \in Listings <=> /\ list \in Seq(Events) /\ Len(list) <= MaxListed
                                 /\ \A a, b \in DOMAIN list : list[a] = list[b] => a = b
<1>1. MaxListed \in Nat
    BY ScheduleAssumption
<1>2. list \in SeqOf(Events, MaxListed) <=> list \in Seq(Events) /\ Len(list) <= MaxListed
    <2>1. ASSUME list \in SeqOf(Events, MaxListed) PROVE list \in Seq(Events) /\ Len(list) <= MaxListed
        <3>1. PICK m \in 0..MaxListed : list \in [1..m -> Events]
            BY <2>1 DEF SeqOf
        <3>2. m \in Nat /\ m <= MaxListed
            BY <1>1
        <3> QED BY <3>1, <3>2
    <2>2. ASSUME list \in Seq(Events), Len(list) <= MaxListed PROVE list \in SeqOf(Events, MaxListed)
        <3>1. list \in [1..Len(list) -> Events] /\ Len(list) \in 0..MaxListed
            BY <1>1, <2>2
        <3> QED BY <3>1 DEF SeqOf
    <2> QED BY <2>1, <2>2
<1> QED BY <1>2 DEF Listings, IsInjective

\* A poll that finds one event more, or one less, has a listing again.
LEMMA AnnouncedIsListing ==
    ASSUME NEW list \in Listings, Len(list) < MaxListed, NEW e \in Events \ Range(list),
           NEW i \in 1..Len(list) + 1
    PROVE  InsertAt(list, i, e) \in Listings
<1> DEFINE longer == InsertAt(list, i, e)
<1>1. /\ list \in Seq(Events) /\ Len(list) \in Nat /\ MaxListed \in Nat
      /\ \A a, b \in DOMAIN list : list[a] = list[b] => a = b
    BY ListingIs, ScheduleAssumption
<1>2. longer = SubSeq(list, 1, i - 1) \o <<e>> \o SubSeq(list, i, Len(list))
    BY DEF InsertAt
<1>3. /\ SubSeq(list, 1, i - 1) \in Seq(Events) /\ Len(SubSeq(list, 1, i - 1)) = i - 1
      /\ SubSeq(list, i, Len(list)) \in Seq(Events) /\ Len(SubSeq(list, i, Len(list))) = Len(list) - i + 1
      /\ \A a \in 1..i - 1 : SubSeq(list, 1, i - 1)[a] = list[a]
      /\ \A a \in 1..Len(list) - i + 1 : SubSeq(list, i, Len(list))[a] = list[a + i - 1]
    BY <1>1
<1> DEFINE head == SubSeq(list, 1, i - 1)
           tail == SubSeq(list, i, Len(list))
<1>4. /\ longer \in Seq(Events) /\ Len(longer) = Len(list) + 1
      /\ \A a \in 1..Len(list) + 1 :
            longer[a] = IF a < i THEN list[a] ELSE IF a = i THEN e ELSE list[a - 1]
    <2>1. /\ head \in Seq(Events) /\ Len(head) = i - 1 /\ tail \in Seq(Events) /\ Len(tail) = Len(list) - i + 1
          /\ \A a \in 1..i - 1 : head[a] = list[a]
          /\ \A a \in 1..Len(list) - i + 1 : tail[a] = list[a + i - 1]
        BY <1>3
    <2>2. longer = head \o <<e>> \o tail
        BY <1>2
    <2> HIDE DEF head, tail, longer
    <2>3. head \o <<e>> \in Seq(Events) /\ Len(head \o <<e>>) = i
          /\ \A a \in 1..i : (head \o <<e>>)[a] = IF a < i THEN head[a] ELSE e
        BY <2>1
    <2> DEFINE front == head \o <<e>>
    <2>4. front \in Seq(Events) /\ Len(front) = i
          /\ \A a \in 1..i : front[a] = IF a < i THEN head[a] ELSE e
        BY <2>3
    <2>5. longer = front \o tail
        BY <2>2
    <2> HIDE DEF front
    <2>6. longer \in Seq(Events) /\ Len(longer) = Len(list) + 1
        <3>1. longer \in Seq(Events) /\ Len(longer) = Len(front) + Len(tail)
            <4>1. front \in Seq(Events) /\ tail \in Seq(Events)
                BY <2>1, <2>4
            <4>2. front \o tail \in Seq(Events) /\ Len(front \o tail) = Len(front) + Len(tail)
                BY <4>1
            <4> QED BY <4>2, <2>5
        <3>2. Len(front) + Len(tail) = Len(list) + 1
            BY <2>1, <2>4, <1>1
        <3> QED BY <3>1, <3>2
    <2>7. ASSUME NEW a \in 1..Len(list) + 1
          PROVE  longer[a] = IF a < i THEN list[a] ELSE IF a = i THEN e ELSE list[a - 1]
        <3>1. CASE a <= i
            <4>1. longer[a] = front[a] /\ a \in 1..i
                BY <3>1, <2>1, <2>4, <2>5, <1>1
            <4>2. a < i => a \in 1..i - 1
                BY <4>1
            <4> QED BY <4>1, <4>2, <2>1, <2>4
        <3>2. CASE a > i
            <4>1. a - i \in 1..Len(list) - i + 1 /\ (a - i) + i - 1 = a - 1
                BY <3>2, <1>1
            <4>2. longer[a] = tail[a - i]
                BY <3>2, <4>1, <2>1, <2>4, <2>5, <1>1
            <4>3. tail[a - i] = list[a - 1]
                BY <4>1, <2>1
            <4> QED BY <4>2, <4>3, <3>2
        <3> QED BY <3>1, <3>2, <1>1
    <2> QED BY <2>6, <2>7
<1> HIDE DEF longer
<1>5. ASSUME NEW a \in DOMAIN longer, NEW b \in DOMAIN longer, longer[a] = longer[b] PROVE a = b
    <2>1. a \in 1..Len(list) + 1 /\ b \in 1..Len(list) + 1
        BY <1>4
    <2>2. \A k \in DOMAIN list : list[k] # e
        BY DEF Range
    <2>3. DOMAIN list = 1..Len(list)
        BY <1>1
    <2> DEFINE old(k) == IF k < i THEN k ELSE k - 1
    <2>4. \A k \in 1..Len(list) + 1 : k # i => old(k) \in 1..Len(list) /\ longer[k] = list[old(k)]
        BY <1>4, <1>1
    <2>5. longer[i] = e
        BY <1>4
    <2>6. a = i <=> b = i
        BY <2>1, <2>2, <2>3, <2>4, <2>5, <1>5
    <2>7. a # i => old(a) = old(b)
        BY <2>1, <2>3, <2>4, <2>6, <1>1, <1>5
    <2> QED BY <2>1, <2>6, <2>7, <1>1
<1>6. Len(longer) <= MaxListed
    BY <1>1, <1>4
<1> QED BY <1>4, <1>5, <1>6, ListingIs DEF longer

LEMMA WithdrawnIsListing ==
    ASSUME NEW list \in Listings, NEW i \in DOMAIN list
    PROVE  RemoveAt(list, i) \in Listings
<1> DEFINE shorter == RemoveAt(list, i)
           head == SubSeq(list, 1, i - 1)
           tail == SubSeq(list, i + 1, Len(list))
<1>1. /\ list \in Seq(Events) /\ Len(list) \in Nat /\ MaxListed \in Nat /\ i \in 1..Len(list)
      /\ \A a, b \in 1..Len(list) : list[a] = list[b] => a = b
    BY ListingIs, ScheduleAssumption
<1>2. shorter = head \o tail
    BY DEF RemoveAt
<1>3. /\ head \in Seq(Events) /\ Len(head) = i - 1 /\ tail \in Seq(Events) /\ Len(tail) = Len(list) - i
      /\ \A a \in 1..i - 1 : head[a] = list[a]
      /\ \A a \in 1..Len(list) - i : tail[a] = list[a + i]
    BY <1>1
<1> HIDE DEF head, tail, shorter
<1>4. shorter \in Seq(Events) /\ Len(shorter) = Len(list) - 1
    BY <1>1, <1>2, <1>3
<1>5. ASSUME NEW a \in 1..Len(list) - 1
      PROVE  shorter[a] = list[IF a < i THEN a ELSE a + 1]
    <2>1. CASE a < i
        <3>1. a \in 1..i - 1
            BY <1>1, <2>1
        <3>2. shorter[a] = head[a]
            BY <3>1, <1>1, <1>2, <1>3
        <3> QED BY <3>1, <3>2, <1>3, <2>1
    <2>2. CASE a >= i
        <3>1. a - (i - 1) \in 1..Len(list) - i /\ a - (i - 1) + i = a + 1
            BY <1>1, <2>2
        <3>2. shorter[a] = tail[a - (i - 1)]
            <4>1. a \in 1..Len(head) + Len(tail) /\ ~(a <= Len(head)) /\ a - Len(head) = a - (i - 1)
                BY <1>1, <1>3, <2>2
            <4>2. (head \o tail)[a] = tail[a - Len(head)]
                BY <4>1, <1>3
            <4> QED BY <4>1, <4>2, <1>2
        <3>3. tail[a - (i - 1)] = list[a + 1]
            BY <3>1, <1>3
        <3> QED BY <3>2, <3>3, <2>2, <1>1
    <2> QED BY <2>1, <2>2, <1>1
<1>6. ASSUME NEW a \in DOMAIN shorter, NEW b \in DOMAIN shorter, shorter[a] = shorter[b] PROVE a = b
    <2>1. a \in 1..Len(list) - 1 /\ b \in 1..Len(list) - 1
        BY <1>4
    <2> DEFINE old(k) == IF k < i THEN k ELSE k + 1
    <2>2. \A k \in 1..Len(list) - 1 : old(k) \in 1..Len(list)
        BY <1>1
    <2>3. old(a) = old(b)
        BY <2>1, <2>2, <1>1, <1>5, <1>6
    <2> QED BY <2>1, <2>3, <1>1
<1>7. Len(shorter) <= MaxListed
    <2>1. Len(list) <= MaxListed
        BY ListingIs
    <2> QED BY <2>1, <1>1, <1>4
<1> QED BY <1>4, <1>6, <1>7, ListingIs DEF shorter

-----------------------------------------------------------------------------
(* The invariant: what is stored is what the last poll listed, parsed      *)

Stored ==
    /\ now \in 0..MaxTime /\ events \in Listings
    /\ tariffs = Resolve(events, TariffTypes)
    /\ capacity = Resolve(events, CapacityTypes)
    /\ alerts = Windows(events, "ALERT")
    /\ simples = SimpleWindows(events)
    /\ dispatch = Windows(events, "DISPATCH_SETPOINT")

\* A poll parses the whole list again and a tick changes no schedule.
LEMMA StoredHolds == Spec => []Stored
<1>1. Init => Stored
    <2> SUFFICES ASSUME Init PROVE Stored
        OBVIOUS
    <2>1. MaxTime \in Nat /\ MaxListed \in Nat
        BY ScheduleAssumption
    <2>2. events \in Seq(Events) /\ Len(events) = 0 /\ DOMAIN events = {}
        BY DEF Init
    <2>3. events \in Listings
        <3>1. Len(events) <= MaxListed /\ \A a, b \in DOMAIN events : events[a] = events[b] => a = b
            BY <2>1, <2>2
        <3> QED BY <3>1, <2>2, ListingIs
    <2>4. AllWindows(events) = {}
        BY <2>2 DEF AllWindows
    <2>5. \A types : Resolve(events, types) = {}
        <3> SUFFICES ASSUME NEW types, NEW s \in Resolve(events, types) PROVE FALSE
            OBVIOUS
        <3>1. s.start \in BoundsOf(events, types)
            BY <2>2, SegmentIs
        <3>2. Candidates(events, types) = {}
            BY <2>4 DEF Candidates
        <3> QED BY <3>1, <3>2 DEF BoundsOf, Boundaries
    <2>6. \A type : Windows(events, type) = {}
        BY <2>4 DEF Windows
    <2> QED BY <2>1, <2>3, <2>5, <2>6 DEF Init, Stored, SimpleWindows
<1>2. Stored /\ [Next]_vars => Stored'
    <2> SUFFICES ASSUME Stored, [Next]_vars PROVE Stored'
        OBVIOUS
    <2>1. ASSUME NEW list \in Listings, Parsed(list), UNCHANGED now PROVE Stored'
        BY <2>1 DEF Stored, Parsed
    <2>2. CASE PollAnnounced
        <3>1. PICK e \in Events \ Range(events), i \in 1..Len(events) + 1 : Parsed(InsertAt(events, i, e))
            BY <2>2 DEF PollAnnounced
        <3>2. InsertAt(events, i, e) \in Listings
            BY <2>2, AnnouncedIsListing DEF PollAnnounced, Stored
        <3> QED BY <3>1, <3>2, <2>1, <2>2 DEF PollAnnounced
    <2>3. CASE PollWithdrawn
        <3>1. PICK i \in DOMAIN events : Parsed(RemoveAt(events, i))
            BY <2>3 DEF PollWithdrawn
        <3>2. RemoveAt(events, i) \in Listings
            BY WithdrawnIsListing DEF Stored
        <3> QED BY <3>1, <3>2, <2>1, <2>3 DEF PollWithdrawn
    <2>4. CASE Tick
        <3>1. now' \in 0..MaxTime
            BY <2>4, ScheduleAssumption DEF Tick, Stored
        <3> QED BY <3>1, <2>4 DEF Tick, Stored
    <2>5. CASE UNCHANGED vars
        BY <2>5 DEF vars, Stored
    <2> QED BY <2>2, <2>3, <2>4, <2>5 DEF Next
<1> QED BY <1>1, <1>2, PTL DEF Spec

-----------------------------------------------------------------------------
(* The theorems                                                            *)

LEMMA StoredIsTyped == Stored => TypeOK
<1> SUFFICES ASSUME Stored PROVE TypeOK
    OBVIOUS
<1>1. events \in Seq(Events)
    BY ListingIs DEF Stored
<1>2. ASSUME NEW types, NEW s \in Resolve(events, types), NEW o \in Resolve(events, types)
      PROVE  /\ s.start < s.end /\ DOMAIN s.winners = types
             /\ s # o => s.end <= o.start \/ o.end <= s.start
    BY <1>1, SegmentIs, SegmentsAreDisjoint
<1>3. \A w \in simples : w.value \in 1..3
    BY DEF Stored, SimpleWindows
<1> QED BY <1>2, <1>3 DEF Stored, TypeOK

\* The stored schedules are what their consumers take them for, whatever the
\* VTN lists: segments that last and never overlap, each with a value or none
\* for every type of its schedule, and SIMPLE windows of a level between 1 and 3.
THEOREM TypeCorrect == Spec => []TypeOK
BY StoredHolds, StoredIsTyped, PTL

LEMMA PlanIsWithinInstants ==
    ASSUME now \in 0..MaxTime
    PROVE  PlanInstants \subseteq Instants
<1> DEFINE last == SlotEnds[Len(SlotEnds)]
<1>1. SlotEnds \in Seq(Nat \ {0}) /\ SlotEnds # <<>> /\ MaxTime \in Nat
    BY ScheduleAssumption
<1>2. last \in Nat
    BY <1>1
<1> HIDE DEF last
<1>3. \A t \in now..now + last - 1 : t \in 0..MaxTime + last
    BY <1>1, <1>2
<1> QED BY <1>3 DEF PlanInstants, Instants, Horizon, last

\* The segment over an instant has the ranked value of each of its types.
LEMMA SegmentIsRanked ==
    ASSUME Stored, NEW t \in Instants, Expanded(t), NEW types \in SUBSET PayloadTypes, NEW type \in types
    PROVE  /\ \A s \in Resolve(events, types) : Covers(s, t) => s.winners[type] = RankedValue(t, type)
           /\ (\A s \in Resolve(events, types) : ~Covers(s, t)) => RankedValue(t, type) = None
<1>1. events \in Seq(Events) /\ t \in Int
    BY ListingIs, ScheduleAssumption DEF Stored, Instants, Horizon
<1>2. ValueOver(events, type, t) = RankedValue(t, type)
    BY <1>1, WinnerIsRanked
<1>3. ASSUME NEW s \in Resolve(events, types), Covers(s, t)
      PROVE  s.winners[type] = RankedValue(t, type)
    BY <1>1, <1>2, <1>3, SegmentReads
<1>4. ASSUME \A s \in Resolve(events, types) : ~Covers(s, t)
      PROVE  RankedValue(t, type) = None
    <2>1. Over(events, type, t) = {}
        BY <1>1, <1>4, SegmentExists
    <2> QED BY <2>1, <1>2 DEF ValueOver
<1> QED BY <1>3, <1>4

\* A ranked value is a number or none; a ranked capacity value is no less than 0.
LEMMA RankedIsNumber ==
    ASSUME events \in Seq(Events), NEW t \in Instants, Expanded(t), NEW type \in PayloadTypes
    PROVE  /\ RankedValue(t, type) \in Int \cup {None}
           /\ type \in CapacityTypes => RankedValue(t, type) \in Nat \cup {None}
<1> DEFINE over == Over(events, type, t)
           top == Topmost(events, over)
<1>1. RankedValue(t, type) = IF over = {} THEN None ELSE top[2].payload[type]
    BY WinnerIsRanked DEF ValueOver
<1>2. CASE over = {}
    BY <1>1, <1>2
<1>3. CASE over # {}
    <2>1. over \in SUBSET AllWindows(events)
        BY DEF Over
    <2>2. top \in AllWindows(events)
        BY <2>1, <1>3, TopmostIsAbove
    <2> HIDE DEF over, top
    <2>3. /\ top[2].payload \in Payload /\ events[top[1]] \in Events
          /\ top[2].payload = Declared[events[top[1]]].intervals[top[2].at[2]].payload
          /\ top[2].at \in (0..MaxLooped) \X (1..Count(events[top[1]]))
        BY <2>2, AllWindowsTyped
    <2>4. top[2].payload[type] \in Int \cup {None}
        BY <2>3 DEF Payload
    <2>5. ASSUME type \in CapacityTypes PROVE top[2].payload[type] \in Nat \cup {None}
        <3>1. top[2].at[2] \in DOMAIN Declared[events[top[1]]].intervals
            BY <2>3, DeclaredTyped DEF Count
        <3>2. Declared[events[top[1]]].intervals[top[2].at[2]].payload[type] \in Span
            BY <2>3, <2>5, <3>1, ScheduleAssumption
        <3> QED BY <3>2, <2>3 DEF Span
    <2> QED BY <2>4, <2>5, <1>1, <1>3
<1> QED BY <1>2, <1>3

LEMMA StoredIsRanked == Stored => ScheduleIsRanked
<1> SUFFICES ASSUME Stored, NEW t \in PlanInstants, Expanded(t)
             PROVE  /\ \A type \in TariffTypes :
                          /\ TariffAt(t, type) = RankedValue(t, type)
                          /\ RankedValue(t, type) # None =>
                                PlannedTariff(t, type) = RankedValue(t, type)
                    /\ \A type \in CapacityTypes : CapacityAt(t, type) = RankedValue(t, type)
    BY DEF ScheduleIsRanked
<1>1. events \in Seq(Events) /\ t \in Instants /\ t \in Int
    <2>1. t \in Instants
        BY PlanIsWithinInstants DEF Stored
    <2> QED BY <2>1, ListingIs, ScheduleAssumption DEF Stored, Instants, Horizon
<1>2. ASSUME NEW types \in SUBSET PayloadTypes, NEW type \in types
      PROVE  /\ \A s \in Resolve(events, types) : Covers(s, t) => s.winners[type] = RankedValue(t, type)
             /\ (\A s \in Resolve(events, types) : ~Covers(s, t)) => RankedValue(t, type) = None
    BY <1>1, SegmentIsRanked
<1>3. ASSUME NEW type \in TariffTypes PROVE TariffAt(t, type) = RankedValue(t, type)
    <2> DEFINE covering == {s \in tariffs : Covers(s, t)}
    <2>1. tariffs = Resolve(events, TariffTypes) /\ TariffTypes \in SUBSET PayloadTypes
        BY DEF Stored, PayloadTypes
    <2>2. \A s \in covering : s.winners[type] = RankedValue(t, type)
        BY <1>2, <2>1
    <2>3. covering = {} => RankedValue(t, type) = None
        BY <1>2, <2>1
    <2>4. TariffAt(t, type) = IF covering = {} THEN None ELSE (CHOOSE s \in covering : TRUE).winners[type]
        BY DEF TariffAt
    <2> HIDE DEF covering
    <2> QED BY <2>2, <2>3, <2>4
<1>4. ASSUME NEW type \in TariffTypes, RankedValue(t, type) # None
      PROVE  PlannedTariff(t, type) = RankedValue(t, type)
    <2> DEFINE begun == {s \in tariffs : s.winners[type] # None /\ s.start <= t}
               IsLast(s) == \A o \in begun : o.start <= s.start
    <2>1. tariffs = Resolve(events, TariffTypes) /\ TariffTypes \in SUBSET PayloadTypes
        BY DEF Stored, PayloadTypes
    <2>2. PICK s \in tariffs : Covers(s, t) /\ s.winners[type] = RankedValue(t, type)
        BY <1>2, <1>4, <2>1
    <2>3. \A o \in tariffs : /\ o.start \in Int /\ o.end \in Int /\ o.start < o.end
                             /\ o = s \/ s.end <= o.start \/ o.end <= s.start
        BY <1>1, <2>1, SegmentIs, SegmentsAreDisjoint
    <2>4. s \in begun
        BY <1>4, <2>2 DEF Covers
    <2>5. \A o \in begun : o = s \/ o.start < s.start
        BY <1>1, <2>2, <2>3 DEF Covers
    <2>6. IsLast(s)
        BY <2>3, <2>5
    <2>7. \A o \in begun : IsLast(o) => o = s
        BY <2>3, <2>4, <2>5
    <2>8. PlannedTariff(t, type) = IF begun = {} THEN None
                                   ELSE (CHOOSE o \in begun : IsLast(o)).winners[type]
        BY DEF PlannedTariff
    <2> HIDE DEF begun, IsLast
    <2>9. (CHOOSE o \in begun : IsLast(o)) = s
        BY <2>4, <2>6, <2>7
    <2> QED BY <2>2, <2>4, <2>8, <2>9
<1>5. ASSUME NEW type \in CapacityTypes PROVE CapacityAt(t, type) = RankedValue(t, type)
    <2> DEFINE read == {s.winners[type] : s \in SegmentsOver(t, t)}
               v == RankedValue(t, type)
    <2>1. capacity = Resolve(events, CapacityTypes) /\ CapacityTypes \in SUBSET PayloadTypes
        BY DEF Stored, PayloadTypes
    <2>2. SegmentsOver(t, t) = {s \in capacity : Covers(s, t)}
        BY DEF SegmentsOver, Overlaps
    <2>3. read \subseteq {v}
        BY <1>2, <2>1, <2>2
    <2>4. read = {} => v = None
        BY <1>2, <2>1, <2>2
    <2>5. CapacityAt(t, type) = Tightest(read)
        BY DEF CapacityAt
    <2>6. v = None \/ v \in Int
        BY <1>1, <2>1, RankedIsNumber
    <2> HIDE DEF read, v
    <2>7. CASE v = None
        <3>1. read \subseteq {None}
            BY <2>3, <2>7
        <3> QED BY <3>1, <2>5, <2>7 DEF Tightest, v
    <2>8. CASE v # None
        <3>1. read = {v} /\ v \in Int /\ ~(read \subseteq {None}) /\ read \ {None} = {v}
            BY <2>3, <2>4, <2>6, <2>8
        <3>2. Min({v}) = v
            <4> DEFINE S == {v}
            <4>1. S \subseteq Int /\ S # {} /\ \A x \in S : v <= x
                BY <3>1
            <4>2. Min(S) \in S
                <5> HIDE DEF S
                <5> QED BY <4>1, <3>1, MinIsLeast
            <4> QED BY <4>2
        <3> QED BY <3>1, <3>2, <2>5 DEF Tightest, v
    <2> QED BY <2>7, <2>8
<1> QED BY <1>3, <1>4, <1>5

\* The tick's and the history's prices of now, the capacity values of any instant of a
\* plan made now, and the planner's tariff series wherever some event carries the
\* type are what the event ranked highest among those in force asks for, whatever
\* events the VTN lists: however they overlap, repeat, are delayed or cut short
\* (event_priority.rs, event_timing.rs, rate_schedule.rs, tariff_snapshot.rs).
THEOREM ReadersGetTheRanked == Spec => []ScheduleIsRanked
BY StoredHolds, StoredIsRanked, PTL

-----------------------------------------------------------------------------
(* The caps of a plan's slots                                              *)

From(i) == SlotFrom(now, i)
To(i) == SlotTo(now, i)

\* A slot's instants are the whole numbers from its start up to its end.
LEMMA SlotIs ==
    ASSUME now \in 0..MaxTime, NEW i \in DOMAIN SlotEnds
    PROVE  /\ From(i) \in Int /\ To(i) \in Int /\ From(i) < To(i)
           /\ SlotInstants(i) = From(i)..To(i) - 1
           /\ SlotInstants(i) \subseteq Instants /\ SlotInstants(i) \subseteq PlanInstants
<1> DEFINE n == Len(SlotEnds)
<1>1. /\ SlotEnds \in Seq(Nat \ {0}) /\ SlotEnds # <<>> /\ MaxTime \in Nat
      /\ \A j, k \in DOMAIN SlotEnds : j < k => SlotEnds[j] < SlotEnds[k]
    BY ScheduleAssumption
<1>2. n \in Nat /\ n >= 1 /\ DOMAIN SlotEnds = 1..n /\ i \in 1..n
    BY <1>1
<1>3. \A k \in 1..n : SlotEnds[k] \in Nat \ {0}
    BY <1>1, <1>2
<1>4. SlotEnds[i] <= SlotEnds[n]
    <2>1. i = n \/ i < n
        BY <1>2
    <2>2. n \in 1..n
        BY <1>2
    <2> QED BY <2>1, <2>2, <1>1, <1>2, <1>3
<1>5. now \in Int /\ now >= 0 /\ now <= MaxTime
    BY <1>1
<1> DEFINE before == IF i = 1 THEN 0 ELSE SlotEnds[i - 1]
<1>6. before \in Nat /\ before < SlotEnds[i]
    <2>1. CASE i = 1
        BY <2>1, <1>2, <1>3
    <2>2. CASE i # 1
        <3>1. i - 1 \in 1..n /\ i - 1 < i
            BY <2>2, <1>2
        <3> QED BY <3>1, <2>2, <1>1, <1>2, <1>3
    <2> QED BY <2>1, <2>2
<1>7. From(i) = now + before /\ To(i) = now + SlotEnds[i]
    BY DEF From, To, SlotFrom, SlotTo
<1>8. \A t \in Int : (\A j \in 1..i - 1 : t >= now + SlotEnds[j]) /\ t >= now <=> t >= now + before
    <2> SUFFICES ASSUME NEW t \in Int
                 PROVE  (\A j \in 1..i - 1 : t >= now + SlotEnds[j]) /\ t >= now <=> t >= now + before
        OBVIOUS
    <2>1. CASE i = 1
        <3>1. 1..i - 1 = {}
            BY <2>1
        <3> QED BY <3>1, <2>1, <1>5
    <2>2. CASE i # 1
        <3>1. i - 1 \in 1..i - 1 /\ before = SlotEnds[i - 1] /\ before \in Nat
            BY <2>2, <1>2, <1>6
        <3>2. ASSUME NEW j \in 1..i - 1 PROVE SlotEnds[j] <= before /\ SlotEnds[j] \in Nat
            <4>1. j \in 1..n /\ i - 1 \in 1..n /\ (j = i - 1 \/ j < i - 1)
                BY <1>2, <2>2
            <4> QED BY <4>1, <3>1, <1>1, <1>2, <1>3
        <3> HIDE DEF before
        <3>3. ASSUME t >= now + before, NEW j \in 1..i - 1 PROVE t >= now + SlotEnds[j]
            BY <3>1, <3>2, <3>3, <1>5
        <3>4. t >= now + before => t >= now
            BY <3>1, <1>5
        <3> QED BY <3>1, <3>3, <3>4
    <2> QED BY <2>1, <2>2
<1>9. PlanInstants = now..now + SlotEnds[n] - 1 /\ SlotEnds[n] \in Nat /\ SlotEnds[i] \in Nat
    <2>1. n \in 1..n
        BY <1>2
    <2> QED BY <2>1, <1>2, <1>3 DEF PlanInstants
<1>10. PlanInstants \subseteq Instants
    BY PlanIsWithinInstants
<1>11. SlotInstants(i) = {t \in PlanInstants : t < now + SlotEnds[i] /\ \A j \in 1..i - 1 : t >= now + SlotEnds[j]}
    BY DEF SlotInstants
<1> HIDE DEF before, n
<1>12. \A t : t \in SlotInstants(i) <=> t \in now + before..now + SlotEnds[i] - 1
    <2> SUFFICES ASSUME NEW t PROVE t \in SlotInstants(i) <=> t \in now + before..now + SlotEnds[i] - 1
        OBVIOUS
    <2>1. ASSUME t \in SlotInstants(i) PROVE t \in now + before..now + SlotEnds[i] - 1
        <3>1. /\ t \in now..now + SlotEnds[n] - 1 /\ t < now + SlotEnds[i]
              /\ \A j \in 1..i - 1 : t >= now + SlotEnds[j]
            BY <2>1, <1>9, <1>11
        <3>2. t \in Int /\ t >= now
            BY <3>1, <1>5, <1>9
        <3>3. t >= now + before
            BY <3>1, <3>2, <1>8
        <3> QED BY <3>1, <3>2, <3>3, <1>5, <1>6, <1>9
    <2>2. ASSUME t \in now + before..now + SlotEnds[i] - 1 PROVE t \in SlotInstants(i)
        <3>1. t \in Int /\ t >= now + before /\ t < now + SlotEnds[i]
            BY <2>2, <1>5, <1>6, <1>9
        <3>2. t >= now /\ \A j \in 1..i - 1 : t >= now + SlotEnds[j]
            BY <3>1, <1>8
        <3>3. t \in now..now + SlotEnds[n] - 1
            BY <3>1, <3>2, <1>4, <1>5, <1>9
        <3> QED BY <3>1, <3>2, <3>3, <1>9, <1>11
    <2> QED BY <2>1, <2>2
<1>13. SlotInstants(i) = now + before..now + SlotEnds[i] - 1
    BY <1>12
<1>14. SlotInstants(i) \subseteq PlanInstants
    BY <1>11
<1> QED BY <1>5, <1>6, <1>7, <1>9, <1>10, <1>13, <1>14

\* A window that lasts shares time with a span if it covers a whole number in it.
LEMMA OverlapIsInstant ==
    ASSUME NEW w, w.start \in Int, w.end \in Int, w.start < w.end,
           NEW from \in Int, NEW to \in Int, from < to
    PROVE  Overlaps(w, from, to) <=> \E t \in from..to - 1 : Covers(w, t)
<1> DEFINE t == IF w.start < from THEN from ELSE w.start
<1>1. Overlaps(w, from, to) <=> w.start < to /\ from < w.end
    BY DEF Overlaps
<1>2. ASSUME w.start < to, from < w.end PROVE t \in from..to - 1 /\ Covers(w, t)
    BY <1>2 DEF Covers
<1>3. ASSUME NEW u \in from..to - 1, Covers(w, u) PROVE w.start < to /\ from < w.end
    BY <1>3 DEF Covers
<1> QED BY <1>1, <1>2, <1>3

\* The smallest of the readings, if there is one.
LEMMA TightestIsLeast ==
    ASSUME NEW R \in SUBSET (Nat \cup {None})
    PROVE  \/ Tightest(R) = None /\ R \subseteq {None}
           \/ Tightest(R) \in R /\ Tightest(R) \in Nat /\ \A v \in R : v # None => Tightest(R) <= v
<1>1. CASE R \subseteq {None}
    BY <1>1 DEF Tightest
<1>2. CASE ~(R \subseteq {None})
    <2> DEFINE T == R \ {None}
    <2>1. T \subseteq Int /\ T # {} /\ 0 \in Int /\ \A v \in T : 0 <= v
        <3>1. \A v \in T : v \in Nat
            OBVIOUS
        <3>2. T # {}
            BY <1>2
        <3> HIDE DEF T
        <3> QED BY <3>1, <3>2
    <2>2. Min(T) \in T /\ \A v \in T : Min(T) <= v
        <3> HIDE DEF T
        <3> QED BY <2>1, MinIsLeast
    <2>3. Tightest(R) = Min(T)
        BY <1>2 DEF Tightest
    <2>4. Min(T) \in R /\ Min(T) \in Nat
        BY <2>2, NoneIsNoNumber
    <2>5. \A v \in R : v # None => Min(T) <= v
        BY <2>2
    <2> HIDE DEF T
    <2> QED BY <2>3, <2>4, <2>5
<1> QED BY <1>1, <1>2

\* What a slot reads of the capacity schedule is what its instants are ranked to.
LEMMA SlotReadsRanked ==
    ASSUME Stored, NEW i \in DOMAIN SlotEnds, \A t \in SlotInstants(i) : Expanded(t)
    PROVE  /\ \A s \in SegmentsOver(From(i), To(i)) : \E t \in SlotInstants(i) :
                \A type \in CapacityTypes : s.winners[type] = RankedValue(t, type)
           /\ \A t \in SlotInstants(i) :
                \/ \A type \in CapacityTypes : RankedValue(t, type) = None
                \/ \E s \in SegmentsOver(From(i), To(i)) :
                        \A type \in CapacityTypes : s.winners[type] = RankedValue(t, type)
<1>1. /\ From(i) \in Int /\ To(i) \in Int /\ From(i) < To(i)
      /\ SlotInstants(i) = From(i)..To(i) - 1 /\ SlotInstants(i) \subseteq Instants
    BY SlotIs DEF Stored
<1>2. capacity = Resolve(events, CapacityTypes) /\ CapacityTypes \in SUBSET PayloadTypes
    BY DEF Stored, PayloadTypes
<1>3. events \in Seq(Events)
    BY ListingIs DEF Stored
<1>4. \A s \in capacity : s.start \in Int /\ s.end \in Int /\ s.start < s.end
    BY <1>2, <1>3, SegmentIs
<1>5. ASSUME NEW s \in capacity
      PROVE  s \in SegmentsOver(From(i), To(i)) <=> \E t \in SlotInstants(i) : Covers(s, t)
    <2>1. Overlaps(s, From(i), To(i)) <=> \E t \in From(i)..To(i) - 1 : Covers(s, t)
        BY <1>1, <1>4, OverlapIsInstant
    <2> QED BY <2>1, <1>1 DEF SegmentsOver
<1>6. ASSUME NEW t \in SlotInstants(i), NEW s \in capacity, Covers(s, t)
      PROVE  \A type \in CapacityTypes : s.winners[type] = RankedValue(t, type)
    BY <1>1, <1>2, <1>6, SegmentIsRanked
<1>7. ASSUME NEW t \in SlotInstants(i), \A s \in capacity : ~Covers(s, t)
      PROVE  \A type \in CapacityTypes : RankedValue(t, type) = None
    BY <1>1, <1>2, <1>7, SegmentIsRanked
<1>8. SegmentsOver(From(i), To(i)) \subseteq capacity
    BY DEF SegmentsOver
<1> QED BY <1>5, <1>6, <1>7, <1>8

\* A limit or an allowance is a number no less than 0, or none.
LEMMA LimitAndAllowanceTyped ==
    ASSUME Stored, NEW t \in Instants, Expanded(t)
    PROVE  /\ RankedValue(t, "IMPORT_CAPACITY_LIMIT") \in Nat \cup {None}
           /\ RankedAllowance(t) \in Nat \cup {None}
<1>1. \A type \in CapacityTypes : type \in PayloadTypes
    BY DEF PayloadTypes
<1>2. \A type \in CapacityTypes : RankedValue(t, type) \in Nat \cup {None}
    BY <1>1, RankedIsNumber, ListingIs DEF Stored
<1>3. \A x, y \in Nat \cup {None} : SumOf(x, y) \in Nat \cup {None}
    BY NoneIsNoNumber DEF SumOf, OrElse
<1> QED BY <1>2, <1>3 DEF RankedAllowance, CapacityTypes

\* The tightest limit and the tightest allowance of a slot are met at instants
\* of the slot, and no instant has a tighter one.
LEMMA SlotLimit ==
    ASSUME Stored, NEW i \in DOMAIN SlotEnds, \A t \in SlotInstants(i) : Expanded(t)
    PROVE  LET limit(t) == RankedValue(t, "IMPORT_CAPACITY_LIMIT")
               tightest == TightestLimit(From(i), To(i))
           IN  \/ tightest = None /\ \A t \in SlotInstants(i) : limit(t) = None
               \/ /\ tightest \in Nat /\ \E t \in SlotInstants(i) : limit(t) = tightest
                  /\ \A t \in SlotInstants(i) : limit(t) # None => tightest <= limit(t)
<1> DEFINE limit(t) == RankedValue(t, "IMPORT_CAPACITY_LIMIT")
           R == {LimitOf(s) : s \in SegmentsOver(From(i), To(i))}
<1>1. \A t \in SlotInstants(i) : limit(t) \in Nat \cup {None}
    BY LimitAndAllowanceTyped, SlotIs DEF Stored
<1>2. \A v \in R : \E t \in SlotInstants(i) : limit(t) = v
    <2>1. ASSUME NEW s \in SegmentsOver(From(i), To(i)) PROVE \E t \in SlotInstants(i) : limit(t) = LimitOf(s)
        BY SlotReadsRanked DEF LimitOf, CapacityTypes
    <2> QED BY <2>1
<1>3. \A t \in SlotInstants(i) : limit(t) # None => limit(t) \in R
    <2>1. ASSUME NEW t \in SlotInstants(i), limit(t) # None PROVE limit(t) \in R
        <3>1. PICK s \in SegmentsOver(From(i), To(i)) :
                    \A type \in CapacityTypes : s.winners[type] = RankedValue(t, type)
            BY <2>1, SlotReadsRanked DEF CapacityTypes
        <3>2. limit(t) = LimitOf(s)
            BY <3>1 DEF LimitOf, CapacityTypes
        <3> QED BY <3>2
    <2> QED BY <2>1
<1>4. R \in SUBSET (Nat \cup {None})
    BY <1>1, <1>2
<1>5. TightestLimit(From(i), To(i)) = Tightest(R)
    BY DEF TightestLimit
<1> HIDE DEF R, limit
<1>6. \/ Tightest(R) = None /\ R \subseteq {None}
      \/ Tightest(R) \in R /\ Tightest(R) \in Nat /\ \A v \in R : v # None => Tightest(R) <= v
    BY <1>4, TightestIsLeast
<1>7. \/ Tightest(R) = None /\ \A t \in SlotInstants(i) : limit(t) = None
      \/ /\ Tightest(R) \in Nat /\ \E t \in SlotInstants(i) : limit(t) = Tightest(R)
         /\ \A t \in SlotInstants(i) : limit(t) # None => Tightest(R) <= limit(t)
    BY <1>2, <1>3, <1>6
<1> QED BY <1>5, <1>7 DEF limit

LEMMA SlotAllowance ==
    ASSUME Stored, NEW i \in DOMAIN SlotEnds, \A t \in SlotInstants(i) : Expanded(t)
    PROVE  LET tightest == ContractedAllowance(From(i), To(i))
           IN  \/ tightest = None /\ \A t \in SlotInstants(i) : RankedAllowance(t) = None
               \/ /\ tightest \in Nat /\ \E t \in SlotInstants(i) : RankedAllowance(t) = tightest
                  /\ \A t \in SlotInstants(i) : RankedAllowance(t) # None => tightest <= RankedAllowance(t)
<1> DEFINE R == {AllowanceOf(s) : s \in SegmentsOver(From(i), To(i))}
<1>1. \A t \in SlotInstants(i) : RankedAllowance(t) \in Nat \cup {None}
    BY LimitAndAllowanceTyped, SlotIs DEF Stored
<1>2. \A v \in R : \E t \in SlotInstants(i) : RankedAllowance(t) = v
    <2>1. ASSUME NEW s \in SegmentsOver(From(i), To(i))
          PROVE  \E t \in SlotInstants(i) : RankedAllowance(t) = AllowanceOf(s)
        BY SlotReadsRanked DEF AllowanceOf, RankedAllowance, CapacityTypes
    <2> QED BY <2>1
<1>3. \A t \in SlotInstants(i) : RankedAllowance(t) # None => RankedAllowance(t) \in R
    <2>1. ASSUME NEW t \in SlotInstants(i), RankedAllowance(t) # None PROVE RankedAllowance(t) \in R
        <3>1. ~\A type \in CapacityTypes : RankedValue(t, type) = None
            <4>1. SumOf(None, None) = None
                BY DEF SumOf
            <4> QED BY <4>1, <2>1 DEF RankedAllowance, CapacityTypes
        <3>2. PICK s \in SegmentsOver(From(i), To(i)) :
                    \A type \in CapacityTypes : s.winners[type] = RankedValue(t, type)
            BY <3>1, SlotReadsRanked
        <3>3. RankedAllowance(t) = AllowanceOf(s)
            BY <3>2 DEF AllowanceOf, RankedAllowance, CapacityTypes
        <3> QED BY <3>3
    <2> QED BY <2>1
<1>4. R \in SUBSET (Nat \cup {None})
    BY <1>1, <1>2
<1>5. ContractedAllowance(From(i), To(i)) = Tightest(R)
    BY DEF ContractedAllowance
<1> HIDE DEF R
<1>6. \/ Tightest(R) = None /\ R \subseteq {None}
      \/ Tightest(R) \in R /\ Tightest(R) \in Nat /\ \A v \in R : v # None => Tightest(R) <= v
    BY <1>4, TightestIsLeast
<1>7. \/ Tightest(R) = None /\ \A t \in SlotInstants(i) : RankedAllowance(t) = None
      \/ /\ Tightest(R) \in Nat /\ \E t \in SlotInstants(i) : RankedAllowance(t) = Tightest(R)
         /\ \A t \in SlotInstants(i) : RankedAllowance(t) # None => Tightest(R) <= RankedAllowance(t)
    BY <1>2, <1>3, <1>6
<1> QED BY <1>5, <1>7

\* A window of an interval that lasts, lasts.
LEMMA WindowLasts ==
    ASSUME NEW e \in Events, NEW w \in Timed[e],
           AskedSpan(e, w.at[2]).start # AskedSpan(e, w.at[2]).end
    PROVE  w.start < w.end
<1> DEFINE x == w.at
           b == Base(e)[x[2]]
           shift == x[1] * RoundLength(Base(e))
           wholeEnd == b.end + shift
<1>1. w = WindowOf(e, x) /\ x \in KeptCopies(e) /\ x[1] \in Nat /\ x[2] \in 1..Count(e) /\ x = <<x[1], x[2]>>
    BY TimedTyped
<1>2. /\ b.start \in Int /\ b.end \in Int /\ shift \in Int
      /\ b.start = AskedSpan(e, x[2]).start /\ b.end = AskedSpan(e, x[2]).end
    BY <1>1, BaseTyped, Multiples
<1>3. b.start < b.end
    <2>1. Matches(e, x[2])
        BY <1>1, BaseIsAsked
    <2> QED BY <2>1, <1>2 DEF Matches
<1>4. w.start = b.start + shift
    BY <1>1 DEF WindowOf, CopyStart
<1>5. CASE Ends(e) = None
    <2>1. x[1] = 0
        BY <1>1, <1>5 DEF KeptCopies
    <2>2. shift = 0
        BY <2>1, BaseTyped, Multiples
    <2>3. w.end = b.end
        BY <1>1, <1>5 DEF WindowOf
    <2> HIDE DEF b, shift
    <2> QED BY <2>2, <2>3, <1>2, <1>3, <1>4
<1>6. CASE Ends(e) # None
    <2>1. x \in Copies(Base(e), Ends(e))
        BY <1>1, <1>6 DEF KeptCopies, Kept
    <2>2. w.start < Ends(e) /\ Ends(e) \in Int
        <3>1. CASE x[1] = 0
            <4>1. b.start < Ends(e)
                BY <2>1, <3>1 DEF Copies
            <4>2. shift = 0
                BY <3>1, BaseTyped, Multiples
            <4>3. Ends(e) \in Int
                BY <1>6, EndsWhereAsked
            <4> HIDE DEF b, shift
            <4> QED BY <4>1, <4>2, <4>3, <1>2, <1>4
        <3>2. CASE x[1] # 0
            <4>1. \A j \in 1..x[2] : CopyStart(Base(e), <<x[1], j>>) < Ends(e)
                BY <2>1, <3>2 DEF Copies
            <4>2. x[2] \in 1..x[2]
                BY <1>1, BaseTyped
            <4>3. CopyStart(Base(e), <<x[1], x[2]>>) < Ends(e)
                BY <4>1, <4>2
            <4>4. w.start = CopyStart(Base(e), <<x[1], x[2]>>)
                BY <1>4 DEF CopyStart
            <4> QED BY <4>3, <4>4, <1>6, EndsWhereAsked
        <3> QED BY <3>1, <3>2
    <2>3. w.end = MinOf(wholeEnd, Ends(e))
        BY <1>1, <1>6 DEF WindowOf
    <2>4. w.start < wholeEnd /\ wholeEnd \in Int
        <3>1. wholeEnd = b.end + shift
            OBVIOUS
        <3> HIDE DEF b, shift, wholeEnd
        <3> QED BY <3>1, <1>2, <1>3, <1>4
    <2> HIDE DEF wholeEnd
    <2> QED BY <2>2, <2>3, <2>4 DEF MinOf
<1> QED BY <1>5, <1>6

\* A listed window of a signal that lasts shares time with a slot if it covers
\* one of the slot's instants.
LEMMA SignalIsInstant ==
    ASSUME Stored, NEW i \in DOMAIN SlotEnds, Range(events) \cap Fleeting = {},
           NEW c \in AllWindows(events),
           c[2].payload["ALERT"] # None \/ c[2].payload["SIMPLE"] \in 1..3
    PROVE  Overlaps(c[2], From(i), To(i)) <=> \E t \in SlotInstants(i) : Covers(c[2], t)
<1> DEFINE e == events[c[1]]
           k == c[2].at[2]
<1>1. events \in Seq(Events)
    BY ListingIs DEF Stored
<1>2. /\ c[1] \in DOMAIN events /\ e \in Events /\ c[2] \in Timed[e] /\ k \in 1..Count(e)
      /\ c[2].start \in Int /\ c[2].end \in Int
      /\ c[2].payload = Declared[e].intervals[k].payload
    BY <1>1, AllWindowsTyped
<1>3. e \notin Fleeting
    BY <1>2 DEF Range
<1>4. k \in DOMAIN Declared[e].intervals
    BY <1>2, DeclaredTyped DEF Count
<1>5. AskedSpan(e, k).start # AskedSpan(e, k).end
    <2> HIDE DEF e, k
    <2> QED BY <1>2, <1>3, <1>4 DEF Fleeting
<1>6. c[2].start < c[2].end
    BY <1>2, <1>5, WindowLasts
<1>7. /\ From(i) \in Int /\ To(i) \in Int /\ From(i) < To(i) /\ SlotInstants(i) = From(i)..To(i) - 1
    BY SlotIs DEF Stored
<1> QED BY <1>2, <1>6, <1>7, OverlapIsInstant

\* An alert meets a slot exactly if it is in force at an instant of the slot.
LEMMA AlertsAreAsked ==
    ASSUME Stored, NEW i \in DOMAIN SlotEnds, Range(events) \cap Fleeting = {},
           \A t \in SlotInstants(i) : Expanded(t)
    PROVE  (\E w \in alerts : Overlaps(w, From(i), To(i))) <=>
                \E t \in SlotInstants(i) : Asking(t, "ALERT") # {}
<1>1. events \in Seq(Events) /\ "ALERT" \in PayloadTypes /\ SlotInstants(i) \subseteq Instants
    BY ListingIs, SlotIs DEF Stored, PayloadTypes
<1>2. ASSUME NEW w \in alerts, Overlaps(w, From(i), To(i))
      PROVE  \E t \in SlotInstants(i) : Asking(t, "ALERT") # {}
    <2>1. PICK c \in AllWindows(events) : /\ c[2].payload["ALERT"] # None
                                          /\ w.start = c[2].start /\ w.end = c[2].end
        BY DEF Stored, Windows
    <2>2. Overlaps(c[2], From(i), To(i))
        BY <2>1, <1>2 DEF Overlaps, Covers
    <2>3. PICK t \in SlotInstants(i) : Covers(c[2], t)
        BY <2>1, <2>2, SignalIsInstant
    <2>4. c \in Over(events, "ALERT", t)
        BY <2>1, <2>3 DEF Over
    <2>5. c[1] \in Asking(t, "ALERT")
        BY <2>4, <1>1, OverIsCarrying
    <2> QED BY <2>5
<1>3. ASSUME NEW t \in SlotInstants(i), Asking(t, "ALERT") # {}
      PROVE  \E w \in alerts : Overlaps(w, From(i), To(i))
    <2>1. PICK j \in Asking(t, "ALERT") : TRUE
        BY <1>3
    <2>2. PICK x \in Carrying(events[j], t, "ALERT") : TRUE
        BY DEF Asking
    <2>3. PICK c \in Over(events, "ALERT", t) : TRUE
        BY <2>1, <2>2, <1>1, OverIsCarrying
    <2>4. c \in AllWindows(events) /\ Covers(c[2], t) /\ c[2].payload["ALERT"] # None
        BY DEF Over
    <2>5. Overlaps(c[2], From(i), To(i))
        BY <2>4, SignalIsInstant
    <2> DEFINE w == [at |-> <<c[1], c[2].at>>, start |-> c[2].start, end |-> c[2].end,
                     value |-> c[2].payload["ALERT"]]
    <2>6. w \in alerts
        BY <2>4 DEF Stored, Windows
    <2>7. w.start = c[2].start /\ w.end = c[2].end
        OBVIOUS
    <2> HIDE DEF w
    <2>8. Overlaps(w, From(i), To(i))
        BY <2>5, <2>7 DEF Overlaps, Covers
    <2> QED BY <2>6, <2>8
<1> QED BY <1>2, <1>3

\* So does a SIMPLE level.
LEMMA LevelsAreAsked ==
    ASSUME Stored, NEW i \in DOMAIN SlotEnds, Range(events) \cap Fleeting = {},
           \A t \in SlotInstants(i) : Expanded(t)
    PROVE  LET over == {w \in simples : Overlaps(w, From(i), To(i))}
           IN  /\ \A w \in over : w.value \in 1..3 /\ \E t \in SlotInstants(i) : LevelAsked(t, w.value)
               /\ \A t \in SlotInstants(i), level \in 1..3 :
                        LevelAsked(t, level) => \E w \in over : w.value = level
<1> DEFINE over == {w \in simples : Overlaps(w, From(i), To(i))}
<1>1. events \in Seq(Events) /\ "SIMPLE" \in PayloadTypes /\ SlotInstants(i) \subseteq Instants
    BY ListingIs, SlotIs DEF Stored, PayloadTypes
<1>2. ASSUME NEW w \in over
      PROVE  w.value \in 1..3 /\ \E t \in SlotInstants(i) : LevelAsked(t, w.value)
    <2>0. w \in Windows(events, "SIMPLE") /\ w.value \in 1..3 /\ Overlaps(w, From(i), To(i))
        BY DEF Stored, SimpleWindows
    <2>1. PICK c \in AllWindows(events) : /\ c[2].payload["SIMPLE"] # None
                                          /\ w.start = c[2].start /\ w.end = c[2].end
                                          /\ w.value = c[2].payload["SIMPLE"]
        BY <2>0 DEF Windows
    <2>2. Overlaps(c[2], From(i), To(i))
        BY <2>0, <2>1 DEF Overlaps, Covers
    <2>3. PICK t \in SlotInstants(i) : Covers(c[2], t)
        BY <2>0, <2>1, <2>2, SignalIsInstant
    <2>4. c \in Over(events, "SIMPLE", t)
        BY <2>1, <2>3 DEF Over
    <2>5. c[1] \in Asking(t, "SIMPLE") /\ c[2].at \in Carrying(events[c[1]], t, "SIMPLE")
        BY <2>4, <1>1, OverIsCarrying
    <2>6. c[2].payload = Declared[events[c[1]]].intervals[c[2].at[2]].payload
        BY <1>1, AllWindowsTyped
    <2>7. LevelAsked(t, w.value)
        BY <2>1, <2>5, <2>6 DEF LevelAsked
    <2> QED BY <2>0, <2>7
<1>3. ASSUME NEW t \in SlotInstants(i), NEW level \in 1..3, LevelAsked(t, level)
      PROVE  \E w \in over : w.value = level
    <2>1. PICK j \in Asking(t, "SIMPLE") : \E x \in Carrying(events[j], t, "SIMPLE") :
                    Declared[events[j]].intervals[x[2]].payload["SIMPLE"] = level
        BY <1>3 DEF LevelAsked
    <2>2. PICK x \in Carrying(events[j], t, "SIMPLE") :
                    Declared[events[j]].intervals[x[2]].payload["SIMPLE"] = level
        BY <2>1
    <2>3. PICK c \in Over(events, "SIMPLE", t) : c[1] = j /\ c[2].at = x
        BY <2>2, <1>1, OverIsCarrying
    <2>4. c \in AllWindows(events) /\ Covers(c[2], t)
        BY DEF Over
    <2>5. c[2].payload["SIMPLE"] = level /\ level # None
        <3>1. c[2].payload = Declared[events[j]].intervals[x[2]].payload
            BY <2>3, <2>4, <1>1, AllWindowsTyped
        <3> QED BY <3>1, <2>2, NoneIsNoNumber
    <2>6. Overlaps(c[2], From(i), To(i))
        BY <2>4, <2>5, SignalIsInstant
    <2> DEFINE w == [at |-> <<c[1], c[2].at>>, start |-> c[2].start, end |-> c[2].end,
                     value |-> c[2].payload["SIMPLE"]]
    <2>7. w \in Windows(events, "SIMPLE")
        BY <2>4, <2>5 DEF Windows
    <2>8. w.start = c[2].start /\ w.end = c[2].end /\ w.value = level
        BY <2>5
    <2> HIDE DEF w
    <2>9. w \in simples
        BY <2>7, <2>8 DEF Stored, SimpleWindows
    <2>10. Overlaps(w, From(i), To(i))
        BY <2>6, <2>8 DEF Overlaps, Covers
    <2> QED BY <2>8, <2>9, <2>10
<1> QED BY <1>2, <1>3

\* The level a slot goes by is the highest any of its instants asks for.
LEMMA HighestIsAsked ==
    ASSUME Stored, NEW i \in DOMAIN SlotEnds, Range(events) \cap Fleeting = {},
           \A t \in SlotInstants(i) : Expanded(t)
    PROVE  LET highest == HighestLevel(From(i), To(i))
           IN  /\ highest \in 0..3
               /\ highest # 0 => \E t \in SlotInstants(i) : LevelAsked(t, highest)
               /\ \A t \in SlotInstants(i), level \in 1..3 : LevelAsked(t, level) => level <= highest
<1> DEFINE over == {w \in simples : Overlaps(w, From(i), To(i))}
           L == {0} \cup {w.value : w \in over}
<1>1. /\ \A w \in over : w.value \in 1..3 /\ \E t \in SlotInstants(i) : LevelAsked(t, w.value)
      /\ \A t \in SlotInstants(i), level \in 1..3 : LevelAsked(t, level) => \E w \in over : w.value = level
    BY LevelsAreAsked
<1>2. HighestLevel(From(i), To(i)) = Max(L)
    BY DEF HighestLevel
<1>3. L \subseteq 0..3 /\ 0 \in L
    BY <1>1
<1>4. Max(L) \in L /\ \A v \in L : Max(L) >= v
    <2> HIDE DEF L
    <2>1. L \subseteq Int /\ L # {} /\ 3 \in Int /\ \A v \in L : v <= 3
        BY <1>3
    <2> QED BY <2>1, MaxIsGreatest
<1> DEFINE highest == HighestLevel(From(i), To(i))
<1>5. highest \in L /\ \A v \in L : highest >= v
    BY <1>2, <1>4
<1> HIDE DEF highest
<1>6. highest \in 0..3
    BY <1>3, <1>5
<1>7. highest # 0 => \E t \in SlotInstants(i) : LevelAsked(t, highest)
    BY <1>1, <1>5
<1>8. ASSUME NEW t \in SlotInstants(i), NEW level \in 1..3, LevelAsked(t, level) PROVE level <= highest
    <2>1. level \in L
        BY <1>1, <1>8
    <2> HIDE DEF L
    <2> QED BY <2>1, <1>5, <1>6
<1> QED BY <1>6, <1>7, <1>8 DEF highest

\* A share of a bound is a share of any looser one.
LEMMA ShareOfLooser ==
    ASSUME NEW cap \in Int, NEW cont \in Nat, NEW most \in Nat, cont <= most,
           cap <= (cont * Level1Percent) \div 100
    PROVE  cap * 100 <= most * Level1Percent
<1>1. Level1Percent \in Nat
    BY ScheduleAssumption
<1> DEFINE a == cont * Level1Percent
           b == most * Level1Percent
<1>2. a \in Nat /\ b \in Nat
    BY <1>1
<1>3. a <= b
    <2>1. most = cont + (most - cont) /\ most - cont \in Nat
        OBVIOUS
    <2>2. b = a + (most - cont) * Level1Percent
        BY <2>1, <1>1
    <2>3. (most - cont) * Level1Percent \in Nat
        BY <2>1, <1>1
    <2> DEFINE rest == (most - cont) * Level1Percent
    <2>4. b = a + rest /\ rest \in Nat
        BY <2>2, <2>3
    <2> HIDE DEF a, b, rest
    <2> QED BY <2>4, <1>2
<1>4. cap <= a \div 100
    OBVIOUS
<1> HIDE DEF a
<1>5. cap * 100 <= a
    BY <1>2, <1>4
<1> HIDE DEF b
<1>6. cap * 100 <= b
    BY <1>2, <1>3, <1>5
<1> QED BY <1>6 DEF b

\* A slot's contractual cap is the tightest of the limits, the allowance and the
\* connection.
LEMMA ContractIsTightest ==
    ASSUME NEW from, NEW to,
           TightestLimit(from, to) \in Nat \cup {None}, ContractedAllowance(from, to) \in Nat \cup {None}
    PROVE  LET cont == ContractedCap(from, to)
               bound == OrElse(TightestLimit(from, to), PhysImport)
               allowance == ContractedAllowance(from, to)
           IN  /\ cont \in Nat /\ bound \in Nat /\ cont <= bound
               /\ allowance # None => cont <= allowance
               /\ cont = bound \/ (allowance # None /\ cont = allowance)
<1> DEFINE bound == OrElse(TightestLimit(from, to), PhysImport)
           allowance == ContractedAllowance(from, to)
           R == {bound, allowance}
<1>1. bound \in Nat /\ None \notin Nat
    BY ScheduleAssumption, NoneIsNoNumber DEF OrElse
<1>2. R \in SUBSET (Nat \cup {None}) /\ ~(R \subseteq {None})
    BY <1>1
<1>3. Tightest(R) \in R /\ Tightest(R) \in Nat /\ \A v \in R : v # None => Tightest(R) <= v
    <2> HIDE DEF R
    <2>1. \/ Tightest(R) = None /\ R \subseteq {None}
          \/ Tightest(R) \in R /\ Tightest(R) \in Nat /\ \A v \in R : v # None => Tightest(R) <= v
        BY <1>2, TightestIsLeast
    <2> QED BY <1>2, <2>1
<1>4. ContractedCap(from, to) = Tightest(R)
    BY DEF ContractedCap
<1>5. /\ Tightest(R) <= bound
      /\ allowance # None => Tightest(R) <= allowance
      /\ Tightest(R) = bound \/ (allowance # None /\ Tightest(R) = allowance)
    BY <1>1, <1>3
<1> HIDE DEF R
<1> QED BY <1>1, <1>3, <1>4, <1>5

LEMMA SlotCapIs ==
    ASSUME NEW i
    PROVE  LET cont == ContractedCap(From(i), To(i))
           IN  SlotCap(now, i) =
                IF \E w \in alerts : Overlaps(w, From(i), To(i)) THEN 0
                ELSE MinOf(cont, Shed(HighestLevel(From(i), To(i)), cont, BaseLoad[i]))
BY DEF SlotCap, From, To

\* What each level leaves.
LEMMA ShedIs ==
    ASSUME NEW level \in 0..3, NEW cap \in Nat, NEW base \in Int
    PROVE  /\ level = 0 => Shed(level, cap, base) = cap
           /\ level = 1 => Shed(level, cap, base) = (cap * Level1Percent) \div 100
           /\ level = 2 => Shed(level, cap, base) = Max({base, 0})
           /\ level = 3 => Shed(level, cap, base) = 0
           /\ Shed(level, cap, base) \in Int
<1>1. level = 0 \/ level = 1 \/ level = 2 \/ level = 3
    OBVIOUS
<1>2. /\ level = 0 => Shed(level, cap, base) = cap
      /\ level = 1 => Shed(level, cap, base) = (cap * Level1Percent) \div 100
      /\ level = 2 => Shed(level, cap, base) = Max({base, 0})
      /\ level = 3 => Shed(level, cap, base) = 0
    BY <1>1 DEF Shed
<1>3. Max({base, 0}) \in Int
    <2> DEFINE S == {base, 0}
               high == IF base > 0 THEN base ELSE 0
    <2>1. S \subseteq Int /\ S # {} /\ high \in Int /\ \A x \in S : x <= high
        OBVIOUS
    <2>2. Max(S) \in S
        <3> HIDE DEF S, high
        <3> QED BY <2>1, MaxIsGreatest
    <2> QED BY <2>2
<1>4. (cap * Level1Percent) \div 100 \in Int
    <2>1. Level1Percent \in Nat
        BY ScheduleAssumption
    <2>2. cap * Level1Percent \in Nat
        BY <2>1
    <2> QED BY <2>2
<1> QED BY <1>1, <1>2, <1>3, <1>4

\* What level 2 leaves is never negative.
LEMMA BaseIsNonNegative ==
    ASSUME NEW base \in Int
    PROVE  Max({base, 0}) \in Nat
<1> DEFINE S == {base, 0}
           high == IF base > 0 THEN base ELSE 0
<1>1. S \subseteq Int /\ S # {} /\ high \in Int /\ \A x \in S : x <= high
    OBVIOUS
<1>2. Max(S) \in S /\ \A x \in S : Max(S) >= x
    <2> HIDE DEF S, high
    <2> QED BY <1>1, MaxIsGreatest
<1>3. 0 \in S /\ S \subseteq Int
    OBVIOUS
<1>4. Max(S) \in Nat
    <2> HIDE DEF S
    <2>1. Max(S) \in Int
        BY <1>2, <1>3
    <2>2. Max(S) >= 0
        BY <1>2, <1>3
    <2> DEFINE m == Max(S)
    <2>3. m \in Int /\ m >= 0
        BY <2>1, <2>2
    <2> HIDE DEF m
    <2>4. m \in Nat
        BY <2>3
    <2> QED BY <2>4 DEF m
<1> QED BY <1>4

\* What one slot's cap allows, and what it is asked for.
LEMMA CapsAreSafeInSlot ==
    ASSUME Stored, NEW i \in DOMAIN SlotEnds, Range(events) \cap Fleeting = {},
           \A t \in SlotInstants(i) : Expanded(t)
    PROVE  CapsAreSafe(i) /\ CapsAreAskedFor(i)
<1> DEFINE cont == ContractedCap(From(i), To(i))
           tight == TightestLimit(From(i), To(i))
           allowance == ContractedAllowance(From(i), To(i))
           highest == HighestLevel(From(i), To(i))
           alerted == \E w \in alerts : Overlaps(w, From(i), To(i))
           shed == Shed(highest, cont, BaseLoad[i])
           cap == SlotCap(now, i)
           limit(t) == RankedValue(t, "IMPORT_CAPACITY_LIMIT")
           bound == OrElse(tight, PhysImport)
<1>1. \/ tight = None /\ \A t \in SlotInstants(i) : limit(t) = None
      \/ /\ tight \in Nat /\ \E t \in SlotInstants(i) : limit(t) = tight
         /\ \A t \in SlotInstants(i) : limit(t) # None => tight <= limit(t)
    BY SlotLimit
<1>2. \/ allowance = None /\ \A t \in SlotInstants(i) : RankedAllowance(t) = None
      \/ /\ allowance \in Nat /\ \E t \in SlotInstants(i) : RankedAllowance(t) = allowance
         /\ \A t \in SlotInstants(i) : RankedAllowance(t) # None => allowance <= RankedAllowance(t)
    BY SlotAllowance
<1>3. /\ cont \in Nat /\ bound \in Nat /\ cont <= bound
      /\ allowance # None => cont <= allowance
      /\ cont = bound \/ (allowance # None /\ cont = allowance)
    BY <1>1, <1>2, ContractIsTightest
<1>4. alerted <=> \E t \in SlotInstants(i) : Asking(t, "ALERT") # {}
    BY AlertsAreAsked
<1>5. /\ highest \in 0..3
      /\ highest # 0 => \E t \in SlotInstants(i) : LevelAsked(t, highest)
      /\ \A t \in SlotInstants(i), level \in 1..3 : LevelAsked(t, level) => level <= highest
    BY HighestIsAsked
<1>6. cap = IF alerted THEN 0 ELSE MinOf(cont, shed)
    BY SlotCapIs
<1>7. PhysImport \in Nat /\ BaseLoad[i] \in Int /\ None \notin Int
    BY ScheduleAssumption
<1>8. /\ highest = 0 => shed = cont
      /\ highest = 1 => shed = (cont * Level1Percent) \div 100
      /\ highest = 2 => shed = Max({BaseLoad[i], 0})
      /\ highest = 3 => shed = 0
      /\ shed \in Int
    BY <1>3, <1>5, <1>7, ShedIs
<1>9. \A t \in SlotInstants(i) : limit(t) \in Nat \cup {None} /\ RankedAllowance(t) \in Nat \cup {None}
    BY LimitAndAllowanceTyped, SlotIs DEF Stored
<1>10. Max({BaseLoad[i], 0}) \in Nat
    BY <1>7, BaseIsNonNegative
<1> HIDE DEF cont, tight, allowance, highest, alerted, shed, cap, limit
<1>11. /\ cap \in Int /\ cap <= cont /\ (alerted => cap = 0) /\ (~alerted => cap <= shed)
       /\ highest = 3 => cap = 0
       /\ ~alerted /\ highest = 0 => cap = cont
    BY <1>3, <1>6, <1>8 DEF MinOf
<1>12. ASSUME NEW t \in SlotInstants(i)
       PROVE  CapIsSafe(cap, i, t, limit(t), RankedAllowance(t))
    <2>1. limit(t) # None => cap <= limit(t)
        <3> SUFFICES ASSUME limit(t) # None PROVE cap <= limit(t)
            OBVIOUS
        <3>1. tight \in Nat /\ tight <= limit(t) /\ limit(t) \in Nat
            BY <1>1, <1>9
        <3>2. bound = tight
            BY <3>1, <1>7 DEF OrElse
        <3> HIDE DEF bound
        <3> QED BY <3>1, <3>2, <1>3, <1>11
    <2>2. RankedAllowance(t) # None => cap <= RankedAllowance(t)
        <3> SUFFICES ASSUME RankedAllowance(t) # None PROVE cap <= RankedAllowance(t)
            OBVIOUS
        <3>1. allowance \in Nat /\ allowance <= RankedAllowance(t) /\ RankedAllowance(t) \in Nat
            BY <1>2, <1>9
        <3> HIDE DEF bound
        <3> QED BY <3>1, <1>3, <1>7, <1>11
    <2>3. Asking(t, "ALERT") # {} \/ LevelAsked(t, 3) => cap = 0
        <3>1. Asking(t, "ALERT") # {} => cap = 0
            BY <1>4, <1>11
        <3>2. LevelAsked(t, 3) => highest = 3
            BY <1>5
        <3> QED BY <3>1, <3>2, <1>11
    <2>4. LevelAsked(t, 2) => cap <= Max({BaseLoad[i], 0})
        <3> DEFINE base == Max({BaseLoad[i], 0})
        <3> SUFFICES ASSUME LevelAsked(t, 2) PROVE cap <= base
            OBVIOUS
        <3>1. highest = 2 \/ highest = 3
            BY <1>5
        <3>2. base \in Nat /\ (highest = 2 => shed = base)
            BY <1>8, <1>10
        <3> HIDE DEF base
        <3> QED BY <3>1, <3>2, <1>8, <1>11
    <2>5. ASSUME LevelAsked(t, 1), \A u \in SlotInstants(i) : ~LevelAsked(u, 2)
          PROVE  \E most \in IF limit(t) # None THEN {limit(t)} ELSE {PhysImport} \cup LimitsIn(i) :
                    cap * 100 <= most * Level1Percent
        <3> DEFINE most == IF limit(t) # None THEN limit(t) ELSE bound
        <3>1. most \in IF limit(t) # None THEN {limit(t)} ELSE {PhysImport} \cup LimitsIn(i)
            <4>1. CASE limit(t) # None
                BY <4>1
            <4>2. CASE limit(t) = None /\ tight = None
                BY <4>2 DEF OrElse
            <4>3. CASE limit(t) = None /\ tight # None
                <5>1. tight \in LimitsIn(i)
                    BY <4>3, <1>1 DEF LimitsIn, limit
                <5> QED BY <5>1, <4>3 DEF OrElse
            <4> QED BY <4>1, <4>2, <4>3
        <3>2. most \in Nat /\ cont <= most
            <4>1. CASE limit(t) # None
                <5>1. tight \in Nat /\ tight <= limit(t) /\ limit(t) \in Nat
                    BY <4>1, <1>1, <1>9
                <5>2. bound = tight
                    BY <5>1, <1>7 DEF OrElse
                <5> HIDE DEF bound
                <5> QED BY <5>1, <5>2, <4>1, <1>3
            <4>2. CASE limit(t) = None
                BY <4>2, <1>3
            <4> QED BY <4>1, <4>2
        <3>3. highest = 1 \/ highest = 3
            <4>1. 1 <= highest
                BY <2>5, <1>5
            <4>2. highest # 2
                BY <2>5, <1>5
            <4> QED BY <4>1, <4>2, <1>5
        <3> HIDE DEF most
        <3>4. cap * 100 <= most * Level1Percent
            <4>1. CASE cap = 0
                <5>1. Level1Percent \in Nat
                    BY ScheduleAssumption
                <5>2. most * Level1Percent \in Nat
                    BY <5>1, <3>2
                <5> DEFINE share == most * Level1Percent
                <5>3. share \in Nat
                    BY <5>2
                <5> HIDE DEF share
                <5>4. cap * 100 <= share
                    BY <5>3, <4>1
                <5> QED BY <5>4 DEF share
            <4>2. CASE cap # 0
                <5>1. highest = 1 /\ cap <= (cont * Level1Percent) \div 100
                    BY <4>2, <3>3, <1>8, <1>11
                <5> QED BY <5>1, <3>2, <1>3, <1>11, ShareOfLooser
            <4> QED BY <4>1, <4>2
        <3> QED BY <3>1, <3>4
    <2> QED BY <2>1, <2>2, <2>3, <2>4, <2>5 DEF CapIsSafe
<1>13. ASSUME cap < PhysImport
       PROVE  \E t \in SlotInstants(i) :
                \/ Asking(t, "ALERT") # {} \/ \E level \in 1..3 : LevelAsked(t, level)
                \/ OrElse(limit(t), PhysImport) < PhysImport
                \/ OrElse(RankedAllowance(t), PhysImport) < PhysImport
    <2>1. CASE alerted
        BY <2>1, <1>4
    <2>2. CASE highest # 0
        <3>1. highest \in 1..3
            BY <2>2, <1>5
        <3> QED BY <3>1, <2>2, <1>5
    <2>3. CASE ~alerted /\ highest = 0 /\ cont = bound
        <3>1. cap = bound
            BY <2>3, <1>11
        <3>2. tight # None /\ bound = tight
            BY <3>1, <1>13, <1>7 DEF OrElse
        <3>3. PICK t \in SlotInstants(i) : limit(t) = tight
            BY <3>2, <1>1
        <3>4. OrElse(limit(t), PhysImport) < PhysImport
            BY <3>1, <3>2, <3>3, <1>13 DEF OrElse
        <3> QED BY <3>4
    <2>4. CASE ~alerted /\ highest = 0 /\ cont # bound
        <3>1. allowance # None /\ cap = allowance
            BY <2>4, <1>3, <1>11
        <3>2. PICK t \in SlotInstants(i) : RankedAllowance(t) = allowance
            BY <3>1, <1>2
        <3>3. OrElse(RankedAllowance(t), PhysImport) < PhysImport
            BY <3>1, <3>2, <1>13 DEF OrElse
        <3> QED BY <3>3
    <2> QED BY <2>1, <2>2, <2>3, <2>4
<1>14. CapsAreSafe(i)
    BY <1>12 DEF CapsAreSafe, cap, limit
<1>15. CapsAreAskedFor(i)
    BY <1>13 DEF CapsAreAskedFor, cap, limit
<1> QED BY <1>14, <1>15

LEMMA StoredCapsFollow == Stored => SlotCapsFollowSignals
BY CapsAreSafeInSlot DEF SlotCapsFollowSignals

\* A plan's import caps follow the signals in force, whatever the VTN lists and
\* however the plan is cut into slots: no instant of a slot is capped looser
\* than a limit, the allowance, an alert or a SIMPLE level of that instant
\* allows, and no slot is capped below the connection unless something in it
\* asks for less (entities/capacity.rs, milp_planner/input_stages.rs).
THEOREM CapsFollowSignals == Spec => []SlotCapsFollowSignals
BY StoredHolds, StoredCapsFollow, PTL
=============================================================================
