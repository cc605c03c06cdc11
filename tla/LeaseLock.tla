----------------------------- MODULE LeaseLock -----------------------------
(***************************************************************************)
(* The lease lock of a CI host: ci/locks/lib/lease_lock_core.sh, run by    *)
(* the sessions of lease_lock_cli.sh.  The lock is a directory; the claim  *)
(* in it names an owner and the end of its lease.  Every line of the       *)
(* script that touches the directory is a step of its own, and the clock   *)
(* it compares with was read when the script started.                      *)
(*                                                                         *)
(* In a punctual behaviour no lease runs out: every session releases in    *)
(* time, writes its claim within the grace period, and none dies.          *)
(***************************************************************************)
EXTENDS Integers

CONSTANTS
    Sessions,    \* LOCK_OWNER_ID: one per session, which runs one script at a time
    Lease,       \* LEASE_MIN
    Grace,       \* the 120 s an unwritten claim is waited for
    MaxClock     \* bound: how far the clock runs

ASSUME LeaseAssumption ==
    Lease \in Nat \ {0} /\ Grace \in Nat \ {0} /\ "nobody" \notin Sessions

VARIABLES
    locked,      \* the directory exists
    claim,       \* the owner file in it
    touched,     \* the directory's modification time
    script,      \* per session: the step, operation and start time of its script
    read,        \* per session: cur_owner and cur_expiry
    holds,       \* per session: the end of the lease it was told it has, or 0
    clock,
    punctual     \* whether this behaviour is punctual

leaseVars == <<locked, claim, touched, script, read, holds, clock, punctual>>

NoClaim == [owner |-> "nobody", expiry |-> 0]
Claims == [owner : Sessions, expiry : Nat \ {0}]

Resting == [step |-> "idle", op |-> "none", now |-> 0]
Dead == [step |-> "dead", op |-> "none", now |-> 0]

LeaseInit ==
    /\ locked = FALSE /\ claim = NoClaim /\ touched = 0
    /\ script = [s \in Sessions |-> Resting]
    /\ read = [s \in Sessions |-> NoClaim]
    /\ holds = [s \in Sessions |-> 0]
    /\ clock = 1
    /\ punctual \in BOOLEAN

-----------------------------------------------------------------------------

At(s, step) == script[s].step = step
GoesTo(s, step) == script' = [script EXCEPT ![s].step = step]
Becomes(s, session) ==
    /\ script' = [script EXCEPT ![s] = session]
    /\ read' = [read EXCEPT ![s] = NoClaim]
Ends(s) == Becomes(s, Resting)

\* The script of a session starts; a session that releases has finished.
Starts(s, op) ==
    /\ At(s, "idle")
    /\ script' = [script EXCEPT ![s] = [step |-> IF op = "acquire" THEN "mkdir" ELSE "exists",
                                        op |-> op, now |-> clock]]

Acquire(s) ==
    /\ Starts(s, "acquire")
    /\ UNCHANGED <<locked, claim, touched, read, holds, clock, punctual>>

Release(s) ==
    /\ holds[s] # 0
    /\ Starts(s, "release")
    /\ holds' = [holds EXCEPT ![s] = 0]
    /\ UNCHANGED <<locked, claim, touched, read, clock, punctual>>

Refresh(s) ==
    /\ holds[s] # 0
    /\ Starts(s, "refresh")
    /\ UNCHANGED <<locked, claim, touched, read, holds, clock, punctual>>

\* if mkdir "$lock"
Mkdir(s) ==
    /\ At(s, "mkdir")
    /\ IF locked
       THEN GoesTo(s, "owner") /\ UNCHANGED <<locked, touched>>
       ELSE GoesTo(s, "write") /\ locked' = TRUE /\ touched' = clock
    /\ UNCHANGED <<claim, read, holds, clock, punctual>>

\* [ -d "$lock" ] of release and refresh
Exists(s) ==
    /\ At(s, "exists")
    /\ IF locked THEN GoesTo(s, "owner") /\ UNCHANGED read ELSE Ends(s)
    /\ UNCHANGED <<locked, claim, touched, holds, clock, punctual>>

\* read_owner: the file is opened once per line.
ReadOwner(s) ==
    /\ At(s, "owner")
    /\ read' = [read EXCEPT ![s].owner = claim.owner]
    /\ GoesTo(s, "expiry")
    /\ UNCHANGED <<locked, claim, touched, holds, clock, punctual>>

ReadExpiry(s) ==
    /\ At(s, "expiry")
    /\ read' = [read EXCEPT ![s].expiry = claim.expiry]
    /\ GoesTo(s, "decide")
    /\ UNCHANGED <<locked, claim, touched, holds, clock, punctual>>

Owns(s) == read[s].owner = s

\* Mutant: an expiry that could not be read counts as expired.
UnreadIsExpired(s) == script[s].now >= read[s].expiry

\* valid_expiry, and the lease has ended when the script started.
LeaseIsOver(s) == read[s].expiry # 0 /\ script[s].now >= read[s].expiry

\* The owner could not be read and the lock is older than the grace period.
NeverClaimed(s) ==
    /\ read[s].expiry = 0
    /\ locked /\ script[s].now - touched >= Grace

\* Mutant: a lock whose owner was never written is waited for.
TakesExpiredOnly(s) == Owns(s) \/ LeaseIsOver(s)

Takes(s) == Owns(s) \/ LeaseIsOver(s) \/ NeverClaimed(s)

\* What try_acquire does with what it read: write the claim, or HELD.
DecideAcquire(s) ==
    /\ At(s, "decide") /\ script[s].op = "acquire"
    /\ GoesTo(s, IF Takes(s) THEN "write" ELSE "held")
    /\ UNCHANGED <<locked, claim, touched, read, holds, clock, punctual>>

DecideRelease(s) ==
    /\ At(s, "decide") /\ script[s].op = "release"
    /\ IF Owns(s) THEN GoesTo(s, "empty") /\ UNCHANGED read ELSE Ends(s)
    /\ UNCHANGED <<locked, claim, touched, holds, clock, punctual>>

DecideRefresh(s) ==
    /\ At(s, "decide") /\ script[s].op = "refresh"
    /\ IF Owns(s) THEN GoesTo(s, "write") /\ UNCHANGED read ELSE Ends(s)
    /\ UNCHANGED <<locked, claim, touched, holds, clock, punctual>>

\* write_owner, by rename: fails when the directory is gone, and the script
\* says ACQUIRED or REFRESHED all the same.
WriteOwner(s) ==
    /\ At(s, "write")
    /\ LET expiry == script[s].now + Lease IN
        /\ IF locked
           THEN claim' = [owner |-> s, expiry |-> expiry] /\ touched' = clock
           ELSE UNCHANGED <<claim, touched>>
        /\ holds' = [holds EXCEPT ![s] = expiry]
    /\ Ends(s)
    /\ UNCHANGED <<locked, clock, punctual>>

\* rm -rf: the file first, then the directory, unless a claim was written.
EmptyLock(s) ==
    /\ At(s, "empty")
    /\ claim' = NoClaim
    /\ touched' = IF locked THEN clock ELSE touched
    /\ GoesTo(s, "rmdir")
    /\ UNCHANGED <<locked, read, holds, clock, punctual>>

RemoveLock(s) ==
    /\ At(s, "rmdir")
    /\ locked' = (locked /\ claim # NoClaim)
    /\ touched' = IF locked' THEN touched ELSE 0
    /\ Ends(s)
    /\ UNCHANGED <<claim, holds, clock, punctual>>

\* lease_lock_main: sleep and try again, or give up after MAX_WAIT_SEC.
TryAgain(s) ==
    /\ At(s, "held")
    /\ Becomes(s, [step |-> "mkdir", op |-> "acquire", now |-> clock])
    /\ UNCHANGED <<locked, claim, touched, holds, clock, punctual>>

GiveUp(s) ==
    /\ At(s, "held")
    /\ Ends(s)
    /\ UNCHANGED <<locked, claim, touched, holds, clock, punctual>>

\* The session and its script die, wherever they are; one survives, and the
\* clock reaches the end of what the dead one left.
Dies(s) ==
    /\ ~punctual /\ ~At(s, "dead")
    /\ \E t \in Sessions \ {s} : ~At(t, "dead")
    /\ clock + Lease + Grace <= MaxClock
    /\ Becomes(s, Dead)
    /\ holds' = [holds EXCEPT ![s] = 0]
    /\ UNCHANGED <<locked, claim, touched, clock, punctual>>

Running(s) == script[s].step \notin {"idle", "held", "dead"}

\* What a punctual behaviour does not let the clock reach.
InTime(now) ==
    /\ locked /\ claim # NoClaim => now < claim.expiry
    /\ locked /\ claim = NoClaim => now - touched < Grace
    /\ \A s \in Sessions : Running(s) => now < script[s].now + Lease

Tick ==
    /\ clock < MaxClock
    /\ punctual => InTime(clock + 1)
    /\ clock' = clock + 1
    /\ UNCHANGED <<locked, claim, touched, script, read, holds, punctual>>

ScriptStep(s) ==
    \/ Mkdir(s) \/ Exists(s) \/ ReadOwner(s) \/ ReadExpiry(s)
    \/ DecideAcquire(s) \/ DecideRelease(s) \/ DecideRefresh(s)
    \/ WriteOwner(s) \/ EmptyLock(s) \/ RemoveLock(s)

SessionStep(s) ==
    \/ Acquire(s) \/ Release(s) \/ Refresh(s)
    \/ ScriptStep(s) \/ TryAgain(s) \/ GiveUp(s) \/ Dies(s)

LeaseNext == (\E s \in Sessions : SessionStep(s)) \/ Tick

LeaseSpec == LeaseInit /\ [][LeaseNext]_leaseVars

\* A script that runs ends, one that was told HELD asks again after POLL_SEC
\* unless it gives up, and time passes.
LeaseFairness ==
    /\ \A s \in Sessions : WF_leaseVars(ScriptStep(s)) /\ WF_leaseVars(TryAgain(s))
    /\ WF_leaseVars(Tick)

-----------------------------------------------------------------------------

LeaseTypeOK ==
    /\ locked \in BOOLEAN /\ touched \in Nat /\ clock \in Nat /\ punctual \in BOOLEAN
    /\ claim \in Claims \cup {NoClaim}
    /\ script \in [Sessions -> [step : {"idle", "dead", "mkdir", "exists", "owner", "expiry",
                                        "decide", "held", "write", "empty", "rmdir"},
                                op : {"none", "acquire", "release", "refresh"}, now : Nat]]
    /\ read \in [Sessions -> [owner : Sessions \cup {"nobody"}, expiry : Nat]]
    /\ holds \in [Sessions -> Nat]

\* While every lease is kept and every script is quick, two sessions never
\* both hold the lock, however their scripts interleave: reads of the two
\* lines of the owner file, the removal of the directory and its creation by
\* the next session are all steps of their own.
PunctualHoldersExclude ==
    punctual => \A s, t \in Sessions : holds[s] # 0 /\ holds[t] # 0 => s = t

\* A session left alone with the lock of a dead one gets it or gives up: a
\* lease ends, and a claim that was never written is not waited for forever.
SurvivorIsServed ==
    \A s \in Sessions :
        (script[s].op = "acquire" /\ \A t \in Sessions \ {s} : At(t, "dead"))
            ~> script[s].op # "acquire"

\* lease_lock_core.sh:4-6 says every check-and-act is atomic on the lock's
\* machine: no two sessions hold a lease that has not ended.
OneHolderWithinLease ==
    \A s, t \in Sessions : clock < holds[s] /\ clock < holds[t] => s = t
=============================================================================
