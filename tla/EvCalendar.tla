----------------------------- MODULE EvCalendar -----------------------------
(***************************************************************************)
(* What an electric vehicle's queue of charging sessions promises          *)
(* (VEN/src/entities/device_session.rs, `EvSessionQueue`): a calendar of   *)
(* bookings whose windows never overlap.  A booking enters only into free  *)
(* time, or by displacing exactly the bookings it clashes with; bookings   *)
(* leave one at a time, or together once their departure has passed.  The  *)
(* order of the queue and the way it is searched are details of the        *)
(* implementation, EvSessionQueue.                                         *)
(***************************************************************************)
EXTENDS Integers

CONSTANTS
    SessionIds,   \* the ids (UUIDs) sessions can carry
    Times         \* the instants windows start and end at

VARIABLE bookings

\* A charging window: available from window_start, gone at departure_time.
\* `create_ev` refuses an empty one.
EvSession ==
    { s \in [id : SessionIds, window_start : Times, departure_time : Times] :
        s.window_start < s.departure_time }

\* Windows are half-open: a departure may equal the next start.
Overlaps(a, b) ==
    /\ a.window_start < b.departure_time
    /\ b.window_start < a.departure_time

Clashing(s) == { b \in bookings : b.id # s.id /\ Overlaps(b, s) }

-----------------------------------------------------------------------------

Init == bookings = {}

\* A session with an id of its own enters; `displaced` leave, and they are
\* exactly the ones it clashes with.
Book(s, displaced) ==
    /\ \A b \in bookings : b.id # s.id
    /\ displaced = Clashing(s)
    /\ bookings' = (bookings \ displaced) \cup {s}

Release(s) ==
    /\ s \in bookings
    /\ bookings' = bookings \ {s}

Depart(t) == bookings' = { b \in bookings : b.departure_time > t }

Next ==
    \/ \E s \in EvSession : \E displaced \in SUBSET bookings : Book(s, displaced)
    \/ \E s \in bookings : Release(s)
    \/ \E t \in Times : Depart(t)

Spec == Init /\ [][Next]_bookings

-----------------------------------------------------------------------------

TypeOK == bookings \subseteq EvSession

\* No two sessions ever claim the same instant: "makes an overlapping queue
\* unrepresentable rather than merely untested" (device_session.rs:262-263).
NoOverlap ==
    \A a, b \in bookings : a # b => a.id # b.id /\ ~Overlaps(a, b)

=============================================================================
