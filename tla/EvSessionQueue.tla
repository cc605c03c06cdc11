--------------------------- MODULE EvSessionQueue ---------------------------
(***************************************************************************)
(* `EvSessionQueue` of VEN/src/entities/device_session.rs: the vector that *)
(* holds one EV's charging sessions in window order.  Each action is one   *)
(* method call, made under the write lock of the hems state; a call that   *)
(* is refused leaves the queue as it was and is therefore no step here.    *)
(*                                                                         *)
(* The methods compute on positions (partition_point, position, partition),*)
(* which is only right while the vector is sorted and free of overlaps:    *)
(* that is the invariant this module states and EvSessionQueueProofs       *)
(* proves.  The calendar the positions stand for is EvCalendar.            *)
(***************************************************************************)
EXTENDS Integers, Sequences, FiniteSets

CONSTANTS
    SessionIds,   \* the ids (UUIDs) sessions can carry
    Times         \* the instants windows start and end at, and the clock shows

ASSUME TimesAssumption == Times \subseteq Int

VARIABLE queue

Calendar == INSTANCE EvCalendar WITH bookings <- { queue[i] : i \in DOMAIN queue }

\* Mutant: create_ev lets a session with an empty window through.
EmptyWindowSession ==
    { s \in [id : SessionIds, window_start : Times, departure_time : Times] :
        s.window_start <= s.departure_time }

EvSession == Calendar!EvSession

\* Mutant: only a candidate that starts inside a queued window is refused.
StartsInside(a, b) == a.window_start <= b.window_start /\ b.window_start < a.departure_time

Overlaps(a, b) == Calendar!Overlaps(a, b)

-----------------------------------------------------------------------------
(* The methods, as functions of the vector they are called on.             *)

QueuedIds(q) == { q[i].id : i \in DOMAIN q }

\* fn conflicts: every queued session the candidate would overlap.  A
\* session never conflicts with the queued one of the same id.
Conflicts(q, s) ==
    { q[i].id : i \in { j \in DOMAIN q : q[j].id # s.id /\ Overlaps(q[j], s) } }

\* Mutant: a new session goes to the back of the vector.
BackOfQueue(q, s) == Len(q)

\* partition_point(|q| q.window_start <= s.window_start): how many sessions
\* stay in front of the candidate.
InsertionPoint(q, s) ==
    CHOOSE n \in 0 .. Len(q) :
        /\ \A i \in 1 .. n : q[i].window_start <= s.window_start
        /\ n < Len(q) => q[n + 1].window_start > s.window_start

Inserted(q, s) ==
    LET at == InsertionPoint(q, s)
    IN  SubSeq(q, 1, at) \o <<s>> \o SubSeq(q, at + 1, Len(q))

\* fn remove: by position; ids are unique, so there is one.
Position(q, id) == CHOOSE i \in DOMAIN q : q[i].id = id

Removed(q, id) ==
    LET at == Position(q, id)
    IN  SubSeq(q, 1, at - 1) \o SubSeq(q, at + 1, Len(q))

\* The positions `keep` in ascending order, and what a filter of q to them
\* leaves: the sessions at those positions in the order q had them.
Ascending(keep) ==
    { order \in [1 .. Cardinality(keep) -> keep] :
        /\ \A i, j \in DOMAIN order : i < j => order[i] < order[j]
        /\ \A k \in keep : \E i \in DOMAIN order : order[i] = k }

Picked(q, order) == [i \in DOMAIN order |-> q[order[i]]]

\* fn replace removes the named sessions one after the other.
Unnamed(q, ids) == { i \in DOMAIN q : q[i].id \notin ids }

\* fn expire keeps the sessions whose departure is still ahead.
Unexpired(q, now) == { i \in DOMAIN q : q[i].departure_time > now }

\* fn current: the first session whose window contains `now`.
IsFirst(q, i, P(_)) == P(q[i]) /\ \A j \in 1 .. i - 1 : ~P(q[j])
Current(q, now) ==
    { q[i] : i \in { j \in DOMAIN q :
        IsFirst(q, j, LAMBDA s : s.window_start <= now /\ now < s.departure_time) } }

\* fn upcoming_ev_session: the first session that has not departed yet.
Upcoming(q, now) ==
    { q[i] : i \in { j \in DOMAIN q : IsFirst(q, j, LAMBDA s : s.departure_time > now) } }

-----------------------------------------------------------------------------

Init == queue = << >>

\* fn insert, accepted: nothing queued overlaps the candidate.
Insert(s) ==
    /\ s.id \notin QueuedIds(queue)
    /\ Conflicts(queue, s) = {}
    /\ queue' = Inserted(queue, s)

\* Mutant: the caller may name more sessions than the candidate clashes with.
ReplaceAnyNamed(ids, s) ==
    /\ s.id \notin QueuedIds(queue)
    /\ ids \subseteq QueuedIds(queue)
    /\ Conflicts(queue, s) \subseteq ids
    /\ \E order \in Ascending(Unnamed(queue, ids)) :
        queue' = Inserted(Picked(queue, order), s)

\* fn replace, accepted: the caller names queued sessions, and exactly the
\* ones the candidate clashes with now; they go, and the checked insert runs.
Replace(ids, s) ==
    /\ s.id \notin QueuedIds(queue)
    /\ ids \subseteq QueuedIds(queue)
    /\ ids = Conflicts(queue, s)
    /\ \E order \in Ascending(Unnamed(queue, ids)) :
        LET rest == Picked(queue, order)
        IN  /\ Conflicts(rest, s) = {}
            /\ queue' = Inserted(rest, s)

Remove(id) ==
    /\ id \in QueuedIds(queue)
    /\ queue' = Removed(queue, id)

Expire(now) ==
    \E order \in Ascending(Unexpired(queue, now)) : queue' = Picked(queue, order)

Next ==
    \/ \E s \in EvSession : Insert(s)
    \/ \E s \in EvSession : \E ids \in SUBSET SessionIds : Replace(ids, s)
    \/ \E id \in SessionIds : Remove(id)
    \/ \E now \in Times : Expire(now)

Spec == Init /\ [][Next]_queue

-----------------------------------------------------------------------------

TypeOK == queue \in Seq(Calendar!EvSession)

\* The queue is sorted by window start, no two windows overlap and no id is
\* queued twice, whatever the sequence of inserts, replacements, removals and
\* expiries: what every method that searches by position relies on.
WindowsInOrder ==
    \A i, j \in DOMAIN queue : i < j =>
        /\ queue[i].id # queue[j].id
        /\ queue[i].departure_time <= queue[j].window_start

\* `current` takes the first session whose window contains the instant; it is
\* the only one, so opportunistic charging pauses for the right session.
CurrentIsUnique ==
    \A now \in Times :
        Current(queue, now) =
            { queue[i] : i \in { j \in DOMAIN queue :
                queue[j].window_start <= now /\ now < queue[j].departure_time } }

\* `upcoming` takes the first session that has not departed; it is the one
\* that departs first among those still ahead, and it is the current session
\* whenever there is one, so planner and live tick serve the same session.
UpcomingDepartsFirst ==
    \A now \in Times :
        /\ \A u \in Upcoming(queue, now) : \A i \in DOMAIN queue :
            queue[i].departure_time > now => u.departure_time <= queue[i].departure_time
        /\ Current(queue, now) # {} => Upcoming(queue, now) = Current(queue, now)

\* The queue implements the calendar: every call is a booking into free time,
\* a booking that displaces exactly what it clashes with, a release or a
\* departure, and a refused call changes nothing.
ImplementsCalendar == Calendar!Spec

=============================================================================
