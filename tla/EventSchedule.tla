--------------------------- MODULE EventSchedule ---------------------------
(***************************************************************************)
(* What a VEN makes of the events its VTN lists.  Each event poll parses   *)
(* the whole list again: the intervals get absolute times, delayed by this *)
(* VEN's own share of randomizeStart and repeated to fill event.duration   *)
(* (lab-core/src/event_timing.rs); overlapping prices and capacity values  *)
(* are ranked into disjoint segments (event_priority.rs, rate_schedule.rs);*)
(* alerts, SIMPLE levels and dispatch setpoints become windows             *)
(* (openadr_interface.rs).  The tick looks values up at an instant, the    *)
(* planner turns them into one import cap per slot (entities/capacity.rs,  *)
(* milp_planner/input_stages.rs).                                          *)
(*                                                                         *)
(* When the poll and the planner run, and which trigger follows, is        *)
(* PollPlan; this module has the values.  Times are integers, and every    *)
(* boundary is one, so checking integer instants checks all.  The export   *)
(* direction repeats the import direction under other names.  A payload    *)
(* whose unit the profile refuses is one the event does not carry.         *)
(***************************************************************************)
EXTENDS Integers, Sequences, FiniteSets, FiniteSetsExt, SequencesExt

CONSTANTS
    None,          \* an absent Option
    Events,        \* the events the VTN may list
    Declared,      \* [Events -> the event as the VTN wrote it]
    Fraction,      \* [Events -> 0..99]: this VEN's hash of the event, in percent
    MaxListed,     \* bound: events listed at once
    MaxTime,       \* bound: the last instant of the clock
    OpenEnd,       \* DateTime::MAX_UTC
    MaxLooped,     \* MAX_LOOPED_INTERVALS
    SlotEnds,      \* cum_s: a slot's end, seconds after the plan's start
    BaseLoad,      \* forecast load per slot
    PhysImport,    \* grid_max_import_kw
    Level1Percent  \* simple_level1_import_cap_pct

OpenStart == -OpenEnd

TariffTypes == {"PRICE", "GHG"}
CapacityTypes ==
    {"IMPORT_CAPACITY_LIMIT", "IMPORT_CAPACITY_SUBSCRIPTION", "IMPORT_CAPACITY_RESERVATION"}
PayloadTypes == TariffTypes \cup CapacityTypes \cup {"SIMPLE", "ALERT", "DISPATCH_SETPOINT"}

Listings == {l \in SeqOf(Events, MaxListed) : IsInjective(l)}
Horizon == MaxTime + SlotEnds[Len(SlotEnds)]

\* An event on the wire, its times counted from the same 0 as the clock.
Instant == Int \cup {None}
Span == Nat \cup {None}
Payload == [PayloadTypes -> Int \cup {None}]
Interval == [start : Instant, dur : Span, window : Nat, payload : Payload]
Event == [priority : Span, created : Int, duration : Span, intervals : Seq(Interval),
          period : [start : Instant, dur : Span, window : Nat]]

ASSUME ScheduleAssumption ==
    /\ None \notin Int
    /\ Declared \in [Events -> Event]
    /\ \A e \in Events : /\ Len(Declared[e].intervals) > 0
                        /\ \A k \in DOMAIN Declared[e].intervals, type \in CapacityTypes :
                              Declared[e].intervals[k].payload[type] \in Span
    /\ Fraction \in [Events -> 0..99]
    /\ MaxTime \in Nat /\ MaxLooped \in Nat \ {0} /\ MaxListed \in Nat
    /\ SlotEnds \in Seq(Nat \ {0}) /\ SlotEnds # <<>>
    /\ \A i, j \in DOMAIN SlotEnds : i < j => SlotEnds[i] < SlotEnds[j]
    /\ BaseLoad \in [DOMAIN SlotEnds -> Int]
    /\ OpenEnd \in Nat /\ OpenEnd > Horizon /\ PhysImport \in Nat /\ Level1Percent \in 0..100

VARIABLES
    now,       \* the clock
    events,    \* what the last poll listed, in the VTN's order
    tariffs,   \* planned_tariffs: disjoint segments, a winner per type
    capacity,  \* planned_capacity_limits: the same for the capacity types
    alerts,    \* alert_windows
    simples,   \* simple_windows
    dispatch   \* dispatch_windows

vars == <<now, events, tariffs, capacity, alerts, simples, dispatch>>

-----------------------------------------------------------------------------
(* Windows: half-open spans of time.                                       *)

Covers(w, t) == w.start <= t /\ t < w.end

\* Mutant: windows that only touch overlap.
TouchesOrOverlaps(w, from, to) == w.start <= to /\ from <= w.end

Overlaps(w, from, to) ==
    IF from = to THEN Covers(w, from) ELSE w.start < to /\ from < w.end

-----------------------------------------------------------------------------
(* Timing of one event.                                                    *)

OrElse(x, y) == IF x # None THEN x ELSE y

\* How far this VEN delays the event, out of the window the VTN allowed.
StartOffset(e, window) == (window * Fraction[e]) \div 100

\* The copy of the event this VEN acts on: every period that has a start is
\* moved by the offset its own randomizeStart allows.
WithRandomizedStart(e) ==
    LET Moved(period) ==
            IF period.start = None THEN period
            ELSE [period EXCEPT !.start = @ + StartOffset(e, period.window)]
    IN  [Declared[e] EXCEPT !.period = Moved(@),
                            !.intervals = [k \in DOMAIN @ |-> Moved(@[k])]]

\* Interval k, if the one before it ends at `cursor`: an own start wins over
\* that, and an own duration over the event's.
BaseInterval(event, k, cursor) ==
    LET interval == event.intervals[k]
        start == OrElse(interval.start, cursor)
        dur == OrElse(interval.dur, event.period.dur)
    IN  [start |-> OrElse(start, OpenStart),
         end |-> IF start = None \/ dur = None \/ start + dur > OpenEnd THEN OpenEnd ELSE start + dur,
         payload |-> interval.payload]

\* The intervals as declared.
BaseIntervals(event) ==
    LET base[k \in DOMAIN event.intervals] ==
            BaseInterval(event, k, IF k = 1 THEN event.period.start ELSE base[k - 1].end)
    IN  base

Bounded(w) == w.start # OpenStart /\ w.end # OpenEnd

\* Where event.duration puts the end of the event.
EventWindowEnd(event, base) ==
    IF event.duration = None \/ ~Bounded(base[1]) THEN None
    ELSE IF base[1].start + event.duration > OpenEnd THEN None
    ELSE base[1].start + event.duration

MinOf(x, y) == IF x < y THEN x ELSE y

\* Where copy x, the x[2]-th interval in round x[1], starts.
RoundLength(base) == base[Len(base)].end - base[1].start
CopyStart(base, x) == base[x[2]].start + x[1] * RoundLength(base)

Before(x, y) == x[1] < y[1] \/ (x[1] = y[1] /\ x[2] < y[2])

\* The copies that start before the event's end: the declared intervals are
\* round 0; where they are bounded they are repeated, each round up to its first
\* interval past the end.  No more than MaxLooped rounds matter.
Copies(base, end) ==
    LET repeats == Bounded(base[1]) /\ Bounded(base[Len(base)]) /\ RoundLength(base) > 0
    IN  {x \in (0..MaxLooped) \X DOMAIN base :
            \/ x[1] = 0 /\ base[x[2]].start < end
            \/ x[1] > 0 /\ repeats /\ \A j \in 1..x[2] : CopyStart(base, <<x[1], j>>) < end}

\* The first MaxLooped copies, and the declared intervals in any case.
Kept(copies) ==
    {x \in copies : x[1] = 0 \/ Cardinality({y \in copies : Before(y, x)}) < MaxLooped}

\* The copies kept, cut at the event's end.
Filled(base, end) ==
    {[at |-> x, start |-> CopyStart(base, x),
      end |-> MinOf(base[x[2]].end + x[1] * RoundLength(base), end),
      payload |-> base[x[2]].payload] : x \in Kept(Copies(base, end))}

\* The windows of an event, each with its round and interval.  Without an
\* event.duration they are what the event declares.
TimedIntervals(event) ==
    LET base == BaseIntervals(event)
        end == EventWindowEnd(event, base)
    IN  IF end = None
        THEN {[at |-> <<0, k>>, start |-> base[k].start, end |-> base[k].end,
               payload |-> base[k].payload] : k \in DOMAIN base}
        ELSE Filled(base, end)

\* Every event, as this VEN times it.
Timed == [e \in Events |-> TimedIntervals(WithRandomizedStart(e))]

-----------------------------------------------------------------------------
(* Which event wins where events overlap.                                  *)

\* Priority's own order: absent is lowest, and a smaller number is higher.
PriorityBelow(p, q) == q # None /\ (p = None \/ q < p)

\* Whether the i-th listed event is sorted before the j-th; the sort is stable.
SortsBelow(list, i, j) ==
    LET a == Declared[list[i]]
        b == Declared[list[j]]
    IN  IF a.priority # b.priority THEN PriorityBelow(a.priority, b.priority)
        ELSE IF a.created # b.created THEN a.created < b.created
        ELSE i < j

\* Mutant: the events are taken in the VTN's order.
AsListed(list, i) == i

\* The place the i-th listed event is sorted to.
Rank(list, i) == Cardinality({j \in DOMAIN list : SortsBelow(list, j, i)})

\* The windows of the listed events, each with its event's position.
AllWindows(list) == UNION {{i} \X Timed[list[i]] : i \in DOMAIN list}

\* Those that last and carry one of the types.
Candidates(list, types) ==
    {c \in AllWindows(list) :
        c[2].start < c[2].end /\ \E type \in types : c[2].payload[type] # None}

\* The one that comes last in the sorted events.
Topmost(list, candidates) ==
    CHOOSE c \in candidates : \A d \in candidates \ {c} :
        \/ Rank(list, d[1]) < Rank(list, c[1])
        \/ d[1] = c[1] /\ Before(d[2].at, c[2].at)

Boundaries(candidates) == UNION {{c[2].start, c[2].end} : c \in candidates}

Spanning(candidates, start, end, type) ==
    {c \in candidates : c[2].start <= start /\ end <= c[2].end /\ c[2].payload[type] # None}

SegmentBetween(list, candidates, types, start, end) ==
    [start |-> start, end |-> end,
     winners |-> [type \in types |->
        LET over == Spanning(candidates, start, end, type)
        IN  IF over = {} THEN None ELSE Topmost(list, over)[2].payload[type]]]

\* Between two neighbouring boundaries each type goes to the candidate ranked
\* last among those that span them and carry it; gaps stay gaps.
Segments(list, candidates, types) ==
    LET bounds == Boundaries(candidates)
    IN  {segment \in {SegmentBetween(list, candidates, types, b, Min({c \in bounds : b < c})) :
                         b \in {b \in bounds : \E c \in bounds : b < c}} :
            \E type \in types : segment.winners[type] # None}

Resolve(list, types) == Segments(list, Candidates(list, types), types)

-----------------------------------------------------------------------------
(* Windowed signals: every listed one.                                     *)

Windows(list, type) ==
    {[at |-> <<c[1], c[2].at>>, start |-> c[2].start, end |-> c[2].end,
      value |-> c[2].payload[type]] : c \in {c \in AllWindows(list) : c[2].payload[type] # None}}

\* Mutant: level 0 makes a window too.
EveryLevel(list) == Windows(list, "SIMPLE")

\* Level 0 is normal operation: no window.
SimpleWindows(list) == {w \in Windows(list, "SIMPLE") : w.value \in 1..3}

-----------------------------------------------------------------------------
(* Readers.                                                                *)

\* tariff_at, for the tick's cost and the history: the value of the segment that
\* covers the instant.
TariffAt(t, type) ==
    LET covering == {s \in tariffs : Covers(s, t)}
    IN  IF covering = {} THEN None ELSE (CHOOSE s \in covering : TRUE).winners[type]

\* TariffTimeSeries, for the planner: a step at the start of each segment that
\* carries the type, which holds until the next one.
PlannedTariff(t, type) ==
    LET begun == {s \in tariffs : s.winners[type] # None /\ s.start <= t}
    IN  IF begun = {} THEN None
        ELSE (CHOOSE s \in begun : \A o \in begun : o.start <= s.start).winners[type]

\* The capacity segments that share time with the span.
SegmentsOver(from, to) == {s \in capacity : Overlaps(s, from, to)}

\* The smallest of the values read, if any was.
Tightest(readings) ==
    IF readings \subseteq {None} THEN None ELSE Min(readings \ {None})

LimitOf(segment) == segment.winners["IMPORT_CAPACITY_LIMIT"]

SumOf(subscribed, reserved) ==
    IF subscribed = None /\ reserved = None THEN None
    ELSE OrElse(subscribed, 0) + OrElse(reserved, 0)

\* Subscription plus reservation, either alone counting.
AllowanceOf(segment) ==
    SumOf(segment.winners["IMPORT_CAPACITY_SUBSCRIPTION"],
          segment.winners["IMPORT_CAPACITY_RESERVATION"])

TightestLimit(from, to) == Tightest({LimitOf(s) : s \in SegmentsOver(from, to)})

ContractedAllowance(from, to) == Tightest({AllowanceOf(s) : s \in SegmentsOver(from, to)})

\* The capacity schedule at one instant, as the tick and GET /capacity read it.
CapacityAt(t, type) == Tightest({s.winners[type] : s \in SegmentsOver(t, t)})

\* The setpoint the tick steers to: the first window of the list in force,
\* unless an alert is.
DispatchAt(t) ==
    LET open == {w \in dispatch : Covers(w, t)}
        foremost == CHOOSE w \in open : \A o \in open \ {w} :
            w.at[1] < o.at[1] \/ (w.at[1] = o.at[1] /\ Before(w.at[2], o.at[2]))
    IN  IF open = {} \/ \E w \in alerts : Covers(w, t) THEN None ELSE foremost.value

\* A slot's bounds in a plan that starts at `start`.
SlotFrom(start, i) == start + (IF i = 1 THEN 0 ELSE SlotEnds[i - 1])
SlotTo(start, i) == start + SlotEnds[i]

\* A slot's contractual cap: the tightest limit, else the connection's own
\* bound, and never above the allowance, if there is one.
ContractedCap(from, to) ==
    Tightest({OrElse(TightestLimit(from, to), PhysImport), ContractedAllowance(from, to)})

\* The highest SIMPLE level of a window in the span, 0 if there is none.
HighestLevel(from, to) ==
    Max({0} \cup {w.value : w \in {w \in simples : Overlaps(w, from, to)}})

\* What a level leaves of a cap.
Shed(level, cap, base) ==
    CASE level = 1 -> (cap * Level1Percent) \div 100
      [] level = 2 -> Max({base, 0})
      [] level = 3 -> 0
      [] OTHER -> cap

\* The import cap of a slot: nothing under an alert, else the contractual cap
\* or what the highest SIMPLE level in the slot leaves of it.
SlotCap(start, i) ==
    LET from == SlotFrom(start, i)
        to == SlotTo(start, i)
        cont == ContractedCap(from, to)
    IN  IF \E w \in alerts : Overlaps(w, from, to) THEN 0
        ELSE MinOf(cont, Shed(HighestLevel(from, to), cont, BaseLoad[i]))

-----------------------------------------------------------------------------
(* The state machine.                                                      *)

Parsed(list) ==
    /\ events' = list
    /\ tariffs' = Resolve(list, TariffTypes)
    /\ capacity' = Resolve(list, CapacityTypes)
    /\ alerts' = Windows(list, "ALERT")
    /\ simples' = SimpleWindows(list)
    /\ dispatch' = Windows(list, "DISPATCH_SETPOINT")

Init ==
    /\ now = 0
    /\ events = <<>> /\ tariffs = {} /\ capacity = {}
    /\ alerts = {} /\ simples = {} /\ dispatch = {}

\* A poll that finds an event announced, anywhere in the list, or one withdrawn.
\* Nothing is carried from one poll to the next, so one edit per poll reaches
\* every list that several edits do.
PollAnnounced ==
    /\ Len(events) < MaxListed
    /\ \E e \in Events \ Range(events), i \in 1..Len(events) + 1 : Parsed(InsertAt(events, i, e))
    /\ UNCHANGED now

PollWithdrawn ==
    /\ \E i \in DOMAIN events : Parsed(RemoveAt(events, i))
    /\ UNCHANGED now

Tick ==
    /\ now < MaxTime
    /\ now' = now + 1
    /\ UNCHANGED <<events, tariffs, capacity, alerts, simples, dispatch>>

Next == PollAnnounced \/ PollWithdrawn \/ Tick

Spec == Init /\ [][Next]_vars

-----------------------------------------------------------------------------
(* What the listed events ask for at one instant, said of the declared     *)
(* events and without expanding, cutting or ranking a list.                *)

Instants == 0..Horizon

Lasts(e, k) == OrElse(Declared[e].intervals[k].dur, Declared[e].period.dur)

\* How long the first k intervals of e last together.
Elapsed(e) ==
    LET elapsed[k \in 0..Len(Declared[e].intervals)] ==
            IF k = 0 THEN 0 ELSE elapsed[k - 1] + OrElse(Lasts(e, k), 0)
    IN  elapsed

\* The start of interval k when `from` is the nearest start at or before it that
\* is written down, 0 if none is: that start, its own delay and the durations
\* in between.
StartAfter(e, from, k) ==
    LET anchor == IF from = 0 THEN Declared[e].period ELSE Declared[e].intervals[from]
        first == Max({from, 1})
    IN  IF anchor.start = None THEN IF k = 1 THEN OpenStart ELSE OpenEnd
        ELSE IF \E j \in first..k - 1 : Lasts(e, j) = None THEN OpenEnd
        ELSE anchor.start + StartOffset(e, anchor.window)
                          + Elapsed(e)[k - 1] - Elapsed(e)[first - 1]

\* What starts nowhere, or lasts for no stated time, does not end.
SpanFrom(start, dur) ==
    [start |-> start,
     end |-> IF start \in {OpenStart, OpenEnd} \/ dur = None THEN OpenEnd ELSE start + dur]

AskedSpan(e, k) ==
    LET written == {j \in 1..k : Declared[e].intervals[j].start # None}
    IN  SpanFrom(StartAfter(e, Max({0} \cup written), k), Lasts(e, k))

\* Nothing is asked for at the calendar's ends, where adding to a time fails, and
\* an event with a duration lists its intervals in time.
ASSUME CalendarAssumption == \A e \in Events :
    LET event == Declared[e]
        interval == event.intervals
    IN  /\ event.period.start # None => event.period.start > OpenStart
        /\ \A k \in DOMAIN interval :
              /\ AskedSpan(e, k).start <= OpenEnd /\ AskedSpan(e, k).end <= OpenEnd
              /\ interval[k].start # None => interval[k].start > OpenStart
        /\ event.duration # None =>
              /\ Bounded(AskedSpan(e, 1)) => AskedSpan(e, 1).start + event.duration <= OpenEnd
              /\ AskedSpan(e, Len(interval)).end < OpenEnd =>
                    \A k \in DOMAIN interval : AskedSpan(e, k).end + event.duration <= OpenEnd
              /\ \A j, k \in DOMAIN interval :
                    j < k => AskedSpan(e, j).start <= AskedSpan(e, k).start

\* The intervals in force at t, each with the number of its repetition, of
\* intervals that ask for these spans under this event.duration.
InForce(spans, duration, t) ==
    LET first == spans[1]
        last == spans[Len(spans)]
        ends == duration # None /\ Bounded(first)
        length == last.end - first.start
        rounds == IF ends /\ last.end # OpenEnd /\ length > 0 THEN 0..Max({0, t - first.start}) ELSE {0}
    IN  {x \in rounds \X DOMAIN spans : /\ ends => t < first.start + duration
                                        /\ Covers(spans[x[2]], t - x[1] * length)}

Asked == [e \in Events |-> [t \in Instants |->
    InForce([k \in DOMAIN Declared[e].intervals |-> AskedSpan(e, k)], Declared[e].duration, t)]]

\* The later of two intervals in force is the one that holds.
Latest(carrying) ==
    CHOOSE x \in carrying :
        \A y \in carrying : y[1] < x[1] \/ (y[1] = x[1] /\ y[2] <= x[2])

\* The intervals of e in force at t that carry the type, and the value e asks for.
Carrying(e, t, type) ==
    {x \in Asked[e][t] : Declared[e].intervals[x[2]].payload[type] # None}

AskedValue(e, t, type) ==
    Declared[e].intervals[Latest(Carrying(e, t, type))[2]].payload[type]

\* User Guide 7.1: priority first, then the newer event, then the later listed.
Outranks(i, j) ==
    LET a == Declared[events[i]]
        b == Declared[events[j]]
    IN  \/ a.priority # None /\ (b.priority = None \/ a.priority < b.priority)
        \/ a.priority = b.priority /\ (a.created > b.created \/ (a.created = b.created /\ i > j))

\* The listed events that ask for the type at t, and the highest of them.
Asking(t, type) == {i \in DOMAIN events : Carrying(events[i], t, type) # {}}

Highest(asking) == CHOOSE i \in asking : \A j \in asking \ {i} : Outranks(i, j)

RankedValue(t, type) ==
    IF Asking(t, type) = {} THEN None
    ELSE AskedValue(events[Highest(Asking(t, type))], t, type)

\* Where the copies start that the cap on repetitions leaves out.
LeftOut == [e \in Events |->
    LET event == WithRandomizedStart(e)
        base == BaseIntervals(event)
        end == EventWindowEnd(event, base)
    IN  IF end = None THEN {}
        ELSE {CopyStart(base, x) : x \in Copies(base, end) \ Kept(Copies(base, end))}]

\* No repetition of a listed event that the cap left out is due by t.
Expanded(t) == \A i \in DOMAIN events : \A start \in LeftOut[events[i]] : t < start

\* The instants a plan made now reaches.
PlanInstants == now..now + SlotEnds[Len(SlotEnds)] - 1

-----------------------------------------------------------------------------
(* Properties.                                                             *)

\* The stored schedules are what their consumers take them for: segments that
\* last and do not overlap, each with a value of its own types, and windows
\* with a level between 1 and 3 (rate_schedule.rs:12).
TypeOK ==
    /\ now \in 0..MaxTime /\ events \in Listings
    /\ \A schedule \in {tariffs, capacity} : \A s, o \in schedule :
          /\ s.start < s.end
          /\ s # o => s.end <= o.start \/ o.end <= s.start
    /\ \A s \in tariffs : DOMAIN s.winners = TariffTypes
    /\ \A s \in capacity : DOMAIN s.winners = CapacityTypes
    /\ \A w \in simples : w.value \in 1..3

\* What is read of prices and capacity values is the value of the event that
\* ranks highest among those in force that carry the type, however the events
\* overlap, repeat, are cut short, follow one another or start late
\* (event_priority.rs:60, event_timing.rs:92).  The tick and the history read it
\* of now, and the capacity schedule has it at any instant of a plan made now; there
\* a reader finds nothing where nothing is in force.  The planner's tariff series
\* has it at any instant of the plan where some event carries the type; for what
\* it has elsewhere see PlannerReadsTheRanked.
ScheduleIsRanked ==
    \A t \in {t \in PlanInstants : Expanded(t)} :
        /\ \A type \in TariffTypes :
              LET ranked == RankedValue(t, type)
              IN  /\ t = now => TariffAt(t, type) = ranked
                  /\ ranked # None => PlannedTariff(t, type) = ranked
        /\ \A type \in CapacityTypes : CapacityAt(t, type) = RankedValue(t, type)

\* The allowance in force at t.
RankedAllowance(t) ==
    SumOf(RankedValue(t, "IMPORT_CAPACITY_SUBSCRIPTION"),
          RankedValue(t, "IMPORT_CAPACITY_RESERVATION"))

\* Some listed event asks for the SIMPLE level at t.
LevelAsked(t, level) ==
    \E i \in Asking(t, "SIMPLE") : \E x \in Carrying(events[i], t, "SIMPLE") :
        Declared[events[i]].intervals[x[2]].payload["SIMPLE"] = level

\* The instants of a plan made now before its i-th boundary and after the others.
SlotInstants(i) ==
    {t \in PlanInstants : t < now + SlotEnds[i] /\ \A j \in 1..i - 1 : t >= now + SlotEnds[j]}

LimitsIn(i) == {RankedValue(u, "IMPORT_CAPACITY_LIMIT") : u \in SlotInstants(i)} \ {None}

CapIsSafe(cap, i, t, limit, allowance) ==
    /\ limit # None => cap <= limit
    /\ allowance # None => cap <= allowance
    /\ Asking(t, "ALERT") # {} \/ LevelAsked(t, 3) => cap = 0
    /\ LevelAsked(t, 2) => cap <= Max({BaseLoad[i], 0})
    /\ LevelAsked(t, 1) /\ (\A u \in SlotInstants(i) : ~LevelAsked(u, 2))
          => \E most \in IF limit # None THEN {limit} ELSE {PhysImport} \cup LimitsIn(i) :
                cap * 100 <= most * Level1Percent

\* No slot of a plan made now lets the site import more than is allowed at any
\* instant of the slot: not above a limit or the allowance, nothing under an
\* alert or level 3, the forecast load under level 2, a share of the limit
\* under level 1 (unless level 2 meets it in the slot: the higher level has
\* the slot, input_stages.rs:166; and where no limit holds at the instant, a
\* share of the connection's bound or of a limit the slot meets elsewhere).
CapsAreSafe(i) ==
    \A t \in SlotInstants(i) :
        CapIsSafe(SlotCap(now, i), i, t,
                  RankedValue(t, "IMPORT_CAPACITY_LIMIT"), RankedAllowance(t))

\* A slot is capped below the connection's own bound only if something asks for
\* less at an instant of this slot: a signal that ends where the slot begins,
\* or begins where it ends, takes nothing from it (time_window.rs:14).
CapsAreAskedFor(i) ==
    SlotCap(now, i) < PhysImport =>
        \E t \in SlotInstants(i) :
            \/ Asking(t, "ALERT") # {} \/ \E level \in 1..3 : LevelAsked(t, level)
            \/ OrElse(RankedValue(t, "IMPORT_CAPACITY_LIMIT"), PhysImport) < PhysImport
            \/ OrElse(RankedAllowance(t), PhysImport) < PhysImport

\* The events with an alert or a level that lasts no time: it takes the slot
\* around it (time_window.rs:35), though it holds at no instant.
Fleeting == {e \in Events : \E k \in DOMAIN Declared[e].intervals :
    LET payload == Declared[e].intervals[k].payload
    IN  /\ payload["ALERT"] # None \/ payload["SIMPLE"] \in 1..3
        /\ AskedSpan(e, k).start = AskedSpan(e, k).end}

\* A plan's import caps follow the listed signals, where all of them last: no
\* looser than any instant of a slot allows, and no tighter than something in
\* the slot asks for.
SlotCapsFollowSignals ==
    Range(events) \cap Fleeting = {} => \A i \in DOMAIN SlotEnds :
        (\A t \in SlotInstants(i) : Expanded(t)) => CapsAreSafe(i) /\ CapsAreAskedFor(i)

\* rate_schedule.rs:12 says that tick, history and "planner tariff series" read "the
\* same value for the same instant".  Between two segments that carry a type, the
\* series still has the first one's value (tariff_snapshot.rs:62), where the
\* tick will read none: TLC refutes this.
PlannerReadsTheRanked ==
    \A t \in {t \in PlanInstants : Expanded(t)} : \A type \in TariffTypes :
        (\E s \in tariffs : s.winners[type] # None /\ t < s.end)
            => PlannedTariff(t, type) = RankedValue(t, type)

\* event_timing.rs:86 says the cap on repetitions "covers any horizon this VEN
\* reads".  It counts from the event's first interval, not from now, so a
\* standing tariff ends once the event is old enough: TLC refutes this.
HorizonIsCovered ==
    \A t \in PlanInstants : \A type \in TariffTypes :
        RankedValue(t, type) # None => PlannedTariff(t, type) = RankedValue(t, type)

\* event_priority.rs:1 calls its ranking "the one ranking the VEN acts on and
\* the BFF shows".  Of overlapping dispatch setpoints the tick takes the first
\* the VTN listed, whatever its priority: TLC refutes this.
DispatchIsRanked ==
    LET asked == DispatchAt(now)
    IN  asked # None => asked = RankedValue(now, "DISPATCH_SETPOINT")
=============================================================================
