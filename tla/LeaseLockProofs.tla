-------------------------- MODULE LeaseLockProofs --------------------------
(***************************************************************************)
(* The punctual sessions of LeaseLock exclude each other, for any number   *)
(* of sessions and any lease and grace period.                             *)
(***************************************************************************)
EXTENDS LeaseLock, TLAPS

\* The session the lock is with: it was told so, it is about to write its
\* claim, or it is on its way to remove the lock.
Has(s) == holds[s] # 0 \/ script[s].op = "release" \/ At(s, "write")

\* What the scripts keep of each other, whatever the clock does.
WithOne ==
    /\ \A s, t \in Sessions : Has(s) /\ Has(t) => s = t
    /\ \A s \in Sessions : Has(s) => locked
    /\ claim # NoClaim => locked /\ Has(claim.owner)

InOrder(s) ==
    /\ holds[s] # 0 => claim.owner = s
    /\ read[s].owner = s => Has(s)
    /\ script[s].step \in {"empty", "rmdir"} => script[s].op = "release"
    /\ script[s].op = "release" =>
        /\ script[s].step \in {"exists", "owner", "expiry", "decide"} => claim.owner = s
        /\ script[s].step \in {"expiry", "decide"} => read[s].owner = s
        /\ At(s, "rmdir") => claim = NoClaim
        /\ script[s].step \in {"exists", "owner", "expiry", "decide", "empty", "rmdir"}
        /\ holds[s] = 0

\* What the clock keeps of a punctual behaviour.
OnTime(s) ==
    /\ script[s].now <= clock
    /\ script[s].step \in {"idle", "mkdir", "exists"} => read[s] = NoClaim
    /\ Running(s) => clock < script[s].now + Lease
    /\ read[s].expiry # 0 => script[s].now < read[s].expiry
    /\ At(s, "decide") /\ read[s].expiry = 0 /\ locked => script[s].now - touched < Grace

Timely ==
    /\ claim # NoClaim => clock < claim.expiry
    /\ locked /\ claim = NoClaim => clock - touched < Grace

Kept == WithOne /\ Timely /\ \A s \in Sessions : InOrder(s) /\ OnTime(s)

IInv == LeaseTypeOK /\ (punctual => Kept)

-----------------------------------------------------------------------------

\* Every step keeps the types.
LEMMA TypesStay == LeaseTypeOK /\ [LeaseNext]_leaseVars => LeaseTypeOK'
<1> SUFFICES ASSUME LeaseTypeOK, [LeaseNext]_leaseVars PROVE LeaseTypeOK'
    OBVIOUS
<1> USE LeaseAssumption DEF LeaseTypeOK, Claims, NoClaim, Resting, Dead
<1>1. ASSUME NEW s \in Sessions, Acquire(s) PROVE LeaseTypeOK'
    BY <1>1 DEF Acquire, Starts, At, GoesTo, Ends, Becomes
<1>2. ASSUME NEW s \in Sessions, Release(s) PROVE LeaseTypeOK'
    BY <1>2 DEF Release, Starts, At, GoesTo, Ends, Becomes
<1>3. ASSUME NEW s \in Sessions, Refresh(s) PROVE LeaseTypeOK'
    BY <1>3 DEF Refresh, Starts, At, GoesTo, Ends, Becomes
<1>4. ASSUME NEW s \in Sessions, Mkdir(s) PROVE LeaseTypeOK'
    <2>1. CASE locked
        BY <1>4, <2>1 DEF Mkdir, At, GoesTo
    <2>2. CASE ~locked
        <3>1. script' = [script EXCEPT ![s].step = "write"] /\ locked' = TRUE /\ touched' = clock
            BY <1>4, <2>2 DEF Mkdir, GoesTo
        <3>2. UNCHANGED <<claim, read, holds, clock, punctual>>
            BY <1>4 DEF Mkdir
        <3>3. QED
            BY <3>1, <3>2
    <2>3. QED
        BY <2>1, <2>2
<1>5. ASSUME NEW s \in Sessions, Exists(s) PROVE LeaseTypeOK'
    <2>1. CASE locked
        BY <1>5, <2>1 DEF Exists, At, GoesTo
    <2>2. CASE ~locked
        <3>1. /\ script' = [script EXCEPT ![s] = Resting]
              /\ read' = [read EXCEPT ![s] = NoClaim]
              /\ UNCHANGED <<locked, claim, touched, holds, clock, punctual>>
            BY <1>5, <2>2 DEF Exists, Ends, Becomes
        <3>2. QED
            BY <3>1
    <2>3. QED
        BY <2>1, <2>2
<1>6. ASSUME NEW s \in Sessions, ReadOwner(s) PROVE LeaseTypeOK'
    BY <1>6 DEF ReadOwner, Starts, At, GoesTo, Ends, Becomes
<1>7. ASSUME NEW s \in Sessions, ReadExpiry(s) PROVE LeaseTypeOK'
    BY <1>7 DEF ReadExpiry, Starts, At, GoesTo, Ends, Becomes
<1>8. ASSUME NEW s \in Sessions, DecideAcquire(s) PROVE LeaseTypeOK'
    BY <1>8 DEF DecideAcquire, Starts, At, GoesTo, Ends, Becomes
<1>9. ASSUME NEW s \in Sessions, DecideRelease(s) PROVE LeaseTypeOK'
    <2>1. CASE Owns(s)
        BY <1>9, <2>1 DEF DecideRelease, At, GoesTo
    <2>2. CASE ~Owns(s)
        <3>1. /\ script' = [script EXCEPT ![s] = Resting]
              /\ read' = [read EXCEPT ![s] = NoClaim]
              /\ UNCHANGED <<locked, claim, touched, holds, clock, punctual>>
            BY <1>9, <2>2 DEF DecideRelease, Ends, Becomes
        <3>2. QED
            BY <3>1
    <2>3. QED
        BY <2>1, <2>2
<1>10. ASSUME NEW s \in Sessions, DecideRefresh(s) PROVE LeaseTypeOK'
    <2>1. CASE Owns(s)
        BY <1>10, <2>1 DEF DecideRefresh, At, GoesTo
    <2>2. CASE ~Owns(s)
        <3>1. /\ script' = [script EXCEPT ![s] = Resting]
              /\ read' = [read EXCEPT ![s] = NoClaim]
              /\ UNCHANGED <<locked, claim, touched, holds, clock, punctual>>
            BY <1>10, <2>2 DEF DecideRefresh, Ends, Becomes
        <3>2. QED
            BY <3>1
    <2>3. QED
        BY <2>1, <2>2
<1>11. ASSUME NEW s \in Sessions, WriteOwner(s) PROVE LeaseTypeOK'
    BY <1>11 DEF WriteOwner, Starts, At, GoesTo, Ends, Becomes
<1>12. ASSUME NEW s \in Sessions, EmptyLock(s) PROVE LeaseTypeOK'
    BY <1>12 DEF EmptyLock, Starts, At, GoesTo, Ends, Becomes
<1>13. ASSUME NEW s \in Sessions, RemoveLock(s) PROVE LeaseTypeOK'
    BY <1>13 DEF RemoveLock, Starts, At, GoesTo, Ends, Becomes
<1>14. ASSUME NEW s \in Sessions, TryAgain(s) PROVE LeaseTypeOK'
    BY <1>14 DEF TryAgain, Starts, At, GoesTo, Ends, Becomes
<1>15. ASSUME NEW s \in Sessions, GiveUp(s) PROVE LeaseTypeOK'
    BY <1>15 DEF GiveUp, Starts, At, GoesTo, Ends, Becomes
<1>16. ASSUME NEW s \in Sessions, Dies(s) PROVE LeaseTypeOK'
    BY <1>16 DEF Dies, Starts, At, GoesTo, Ends, Becomes
<1>17. CASE Tick
    BY <1>17 DEF Tick
<1>18. CASE UNCHANGED leaseVars
    BY <1>18 DEF leaseVars
<1>19. QED
    BY <1>1, <1>2, <1>3, <1>4, <1>5, <1>6, <1>7, <1>8, <1>9, <1>10, <1>11, <1>12, <1>13, <1>14, <1>15, <1>16, <1>17, <1>18
    DEF LeaseNext, SessionStep, ScriptStep

LEMMA AcquireKeeps ==
    ASSUME LeaseTypeOK, punctual, Kept, NEW s \in Sessions, Acquire(s) PROVE Kept'
<1> USE LeaseAssumption DEF LeaseTypeOK, Claims, NoClaim, Resting, Dead, Kept, Running, At,
        Acquire, Starts, GoesTo, Ends, Becomes, Has, WithOne, Timely, InOrder, OnTime
<1>1. WithOne'
    BY DEF Owns, Takes, LeaseIsOver, NeverClaimed
<1>2. Timely'
    OBVIOUS
<1>3. ASSUME NEW t \in Sessions PROVE InOrder(t)'
    BY DEF Owns, Takes, LeaseIsOver, NeverClaimed
<1>4. ASSUME NEW t \in Sessions PROVE OnTime(t)'
    <2>1. CASE t = s
        BY <2>1
    <2>2. CASE t # s
        BY <2>2
    <2>3. QED
        BY <2>1, <2>2
<1>5. QED
    BY <1>1, <1>2, <1>3, <1>4

LEMMA ReleaseKeeps ==
    ASSUME LeaseTypeOK, punctual, Kept, NEW s \in Sessions, Release(s) PROVE Kept'
<1> USE LeaseAssumption DEF LeaseTypeOK, Claims, NoClaim, Resting, Dead, Kept, Running, At,
        Release, Starts, GoesTo, Ends, Becomes, Has, WithOne, Timely, InOrder, OnTime
<1>1. WithOne'
    BY DEF Owns, Takes, LeaseIsOver, NeverClaimed
<1>2. Timely'
    OBVIOUS
<1>3. ASSUME NEW t \in Sessions PROVE InOrder(t)'
    BY DEF Owns, Takes, LeaseIsOver, NeverClaimed
<1>4. ASSUME NEW t \in Sessions PROVE OnTime(t)'
    OBVIOUS
<1>5. QED
    BY <1>1, <1>2, <1>3, <1>4

LEMMA RefreshKeeps ==
    ASSUME LeaseTypeOK, punctual, Kept, NEW s \in Sessions, Refresh(s) PROVE Kept'
<1> USE LeaseAssumption DEF LeaseTypeOK, Claims, NoClaim, Resting, Dead, Kept, Running, At,
        Refresh, Starts, GoesTo, Ends, Becomes, Has, WithOne, Timely, InOrder, OnTime
<1>1. WithOne'
    BY DEF Owns, Takes, LeaseIsOver, NeverClaimed
<1>2. Timely'
    OBVIOUS
<1>3. ASSUME NEW t \in Sessions PROVE InOrder(t)'
    BY DEF Owns, Takes, LeaseIsOver, NeverClaimed
<1>4. ASSUME NEW t \in Sessions PROVE OnTime(t)'
    OBVIOUS
<1>5. QED
    BY <1>1, <1>2, <1>3, <1>4

LEMMA MkdirKeeps ==
    ASSUME LeaseTypeOK, punctual, Kept, NEW s \in Sessions, Mkdir(s) PROVE Kept'
<1> USE LeaseAssumption DEF LeaseTypeOK, Claims, NoClaim, Resting, Dead, Kept, Running, At,
        Mkdir, Starts, GoesTo, Ends, Becomes, Has, WithOne, Timely, InOrder, OnTime
<1>1. WithOne'
    BY DEF Owns, Takes, LeaseIsOver, NeverClaimed
<1>2. Timely'
    OBVIOUS
<1>3. ASSUME NEW t \in Sessions PROVE InOrder(t)'
    BY DEF Owns, Takes, LeaseIsOver, NeverClaimed
<1>4. ASSUME NEW t \in Sessions PROVE OnTime(t)'
    <2>1. CASE t = s
        <3>1. /\ script'[t].step \in {"owner", "write"} /\ script'[t].now = script[t].now
              /\ read'[t] = read[t] /\ clock' = clock /\ read[t] = NoClaim
              /\ script[t].step = "mkdir"
            BY <2>1
        <3>2. OnTime(t)
            OBVIOUS
        <3>3. QED
            BY ONLY <3>1, <3>2 DEF OnTime, Running, At, NoClaim
    <2>2. CASE t # s
        <3>1. /\ script'[t] = script[t] /\ read'[t] = read[t] /\ clock' = clock
              /\ touched' = touched \/ touched' = clock
              /\ locked' = locked \/ touched' = clock
            BY <2>2
        <3>2. OnTime(t) /\ touched \in Nat /\ clock \in Nat /\ script[t].now \in Nat
            OBVIOUS
        <3>3. QED
            BY ONLY <3>1, <3>2, LeaseAssumption DEF OnTime, Running, At, NoClaim
    <2>3. QED
        BY <2>1, <2>2
<1>5. QED
    BY <1>1, <1>2, <1>3, <1>4

LEMMA ExistsKeeps ==
    ASSUME LeaseTypeOK, punctual, Kept, NEW s \in Sessions, Exists(s) PROVE Kept'
<1> USE LeaseAssumption DEF LeaseTypeOK, Claims, NoClaim, Resting, Dead, Kept, Running, At,
        Exists, Starts, GoesTo, Ends, Becomes, Has, WithOne, Timely, InOrder, OnTime
<1>1. WithOne'
    BY DEF Owns, Takes, LeaseIsOver, NeverClaimed
<1>2. Timely'
    OBVIOUS
<1>3. ASSUME NEW t \in Sessions PROVE InOrder(t)'
    BY DEF Owns, Takes, LeaseIsOver, NeverClaimed
<1>4. ASSUME NEW t \in Sessions PROVE OnTime(t)'
    <2>1. CASE t = s
        BY <2>1
    <2>2. CASE t # s
        BY <2>2
    <2>3. QED
        BY <2>1, <2>2
<1>5. QED
    BY <1>1, <1>2, <1>3, <1>4

LEMMA ReadOwnerKeeps ==
    ASSUME LeaseTypeOK, punctual, Kept, NEW s \in Sessions, ReadOwner(s) PROVE Kept'
<1> USE LeaseAssumption DEF LeaseTypeOK, Claims, NoClaim, Resting, Dead, Kept, Running, At,
        ReadOwner, Starts, GoesTo, Ends, Becomes, Has, WithOne, Timely, InOrder, OnTime
<1>1. WithOne'
    BY DEF Owns, Takes, LeaseIsOver, NeverClaimed
<1>2. Timely'
    OBVIOUS
<1>3. ASSUME NEW t \in Sessions PROVE InOrder(t)'
    BY DEF Owns, Takes, LeaseIsOver, NeverClaimed
<1>4. ASSUME NEW t \in Sessions PROVE OnTime(t)'
    OBVIOUS
<1>5. QED
    BY <1>1, <1>2, <1>3, <1>4

LEMMA ReadExpiryKeeps ==
    ASSUME LeaseTypeOK, punctual, Kept, NEW s \in Sessions, ReadExpiry(s) PROVE Kept'
<1> USE LeaseAssumption DEF LeaseTypeOK, Claims, NoClaim, Resting, Dead, Kept, Running, At,
        ReadExpiry, Starts, GoesTo, Ends, Becomes, Has, WithOne, Timely, InOrder, OnTime
<1>1. WithOne'
    BY DEF Owns, Takes, LeaseIsOver, NeverClaimed
<1>2. Timely'
    OBVIOUS
<1>3. ASSUME NEW t \in Sessions PROVE InOrder(t)'
    BY DEF Owns, Takes, LeaseIsOver, NeverClaimed
<1>4. ASSUME NEW t \in Sessions PROVE OnTime(t)'
    OBVIOUS
<1>5. QED
    BY <1>1, <1>2, <1>3, <1>4

LEMMA DecideAcquireKeeps ==
    ASSUME LeaseTypeOK, punctual, Kept, NEW s \in Sessions, DecideAcquire(s) PROVE Kept'
<1> USE LeaseAssumption DEF LeaseTypeOK, Claims, NoClaim, Resting, Dead, Kept, Running, At,
        DecideAcquire, Starts, GoesTo, Ends, Becomes, Has, WithOne, Timely, InOrder, OnTime
<1>1. WithOne'
    BY DEF Owns, Takes, LeaseIsOver, NeverClaimed
<1>2. Timely'
    OBVIOUS
<1>3. ASSUME NEW t \in Sessions PROVE InOrder(t)'
    BY DEF Owns, Takes, LeaseIsOver, NeverClaimed
<1>4. ASSUME NEW t \in Sessions PROVE OnTime(t)'
    OBVIOUS
<1>5. QED
    BY <1>1, <1>2, <1>3, <1>4

LEMMA DecideReleaseKeeps ==
    ASSUME LeaseTypeOK, punctual, Kept, NEW s \in Sessions, DecideRelease(s) PROVE Kept'
<1> USE LeaseAssumption DEF LeaseTypeOK, Claims, NoClaim, Resting, Dead, Kept, Running, At,
        DecideRelease, Starts, GoesTo, Ends, Becomes, Has, WithOne, Timely, InOrder, OnTime
<1>1. WithOne'
    BY DEF Owns, Takes, LeaseIsOver, NeverClaimed
<1>2. Timely'
    OBVIOUS
<1>3. ASSUME NEW t \in Sessions PROVE InOrder(t)'
    BY DEF Owns, Takes, LeaseIsOver, NeverClaimed
<1>4. ASSUME NEW t \in Sessions PROVE OnTime(t)'
    OBVIOUS
<1>5. QED
    BY <1>1, <1>2, <1>3, <1>4

LEMMA DecideRefreshKeeps ==
    ASSUME LeaseTypeOK, punctual, Kept, NEW s \in Sessions, DecideRefresh(s) PROVE Kept'
<1> USE LeaseAssumption DEF LeaseTypeOK, Claims, NoClaim, Resting, Dead, Kept, Running, At,
        DecideRefresh, Starts, GoesTo, Ends, Becomes, Has, WithOne, Timely, InOrder, OnTime
<1>1. WithOne'
    <2>1. CASE Owns(s)
        BY <2>1 DEF Owns, Takes, LeaseIsOver, NeverClaimed
    <2>2. CASE ~Owns(s)
        <3>1. \A t \in Sessions : Has(t)' <=> Has(t)
            BY <2>2
        <3>2. claim' = claim /\ locked' = locked /\ (claim # NoClaim => claim.owner \in Sessions)
            OBVIOUS
        <3> QED BY <3>1, <3>2
    <2> QED BY <2>1, <2>2
<1>2. Timely'
    OBVIOUS
<1>3. ASSUME NEW t \in Sessions PROVE InOrder(t)'
    BY DEF Owns, Takes, LeaseIsOver, NeverClaimed
<1>4. ASSUME NEW t \in Sessions PROVE OnTime(t)'
    OBVIOUS
<1>5. QED
    BY <1>1, <1>2, <1>3, <1>4

LEMMA WriteOwnerKeeps ==
    ASSUME LeaseTypeOK, punctual, Kept, NEW s \in Sessions, WriteOwner(s) PROVE Kept'
<1> USE LeaseAssumption DEF LeaseTypeOK, Claims, NoClaim, Resting, Dead, Kept, Running, At,
        WriteOwner, Starts, GoesTo, Ends, Becomes, Has, WithOne, Timely, InOrder, OnTime
<1>1. WithOne'
    BY DEF Owns, Takes, LeaseIsOver, NeverClaimed
<1>2. Timely'
    OBVIOUS
<1>3. ASSUME NEW t \in Sessions PROVE InOrder(t)'
    BY DEF Owns, Takes, LeaseIsOver, NeverClaimed
<1>4. ASSUME NEW t \in Sessions PROVE OnTime(t)'
    OBVIOUS
<1>5. QED
    BY <1>1, <1>2, <1>3, <1>4

LEMMA EmptyLockKeeps ==
    ASSUME LeaseTypeOK, punctual, Kept, NEW s \in Sessions, EmptyLock(s) PROVE Kept'
<1> USE LeaseAssumption DEF LeaseTypeOK, Claims, NoClaim, Resting, Dead, Kept, Running, At,
        EmptyLock, Starts, GoesTo, Ends, Becomes, Has, WithOne, Timely, InOrder, OnTime
<1>1. WithOne'
    BY DEF Owns, Takes, LeaseIsOver, NeverClaimed
<1>2. Timely'
    OBVIOUS
<1>3. ASSUME NEW t \in Sessions PROVE InOrder(t)'
    BY DEF Owns, Takes, LeaseIsOver, NeverClaimed
<1>4. ASSUME NEW t \in Sessions PROVE OnTime(t)'
    <2>1. CASE t = s
        BY <2>1
    <2>2. CASE t # s
        <3>1. /\ script'[t] = script[t] /\ read'[t] = read[t] /\ clock' = clock
              /\ touched' = touched \/ touched' = clock
              /\ locked' = locked \/ touched' = clock
            BY <2>2
        <3>2. OnTime(t) /\ touched \in Nat /\ clock \in Nat /\ script[t].now \in Nat
            OBVIOUS
        <3>3. QED
            BY ONLY <3>1, <3>2, LeaseAssumption DEF OnTime, Running, At, NoClaim
    <2>3. QED
        BY <2>1, <2>2
<1>5. QED
    BY <1>1, <1>2, <1>3, <1>4

LEMMA RemoveLockKeeps ==
    ASSUME LeaseTypeOK, punctual, Kept, NEW s \in Sessions, RemoveLock(s) PROVE Kept'
<1> USE LeaseAssumption DEF LeaseTypeOK, Claims, NoClaim, Resting, Dead, Kept, Running, At,
        RemoveLock, Starts, GoesTo, Ends, Becomes, Has, WithOne, Timely, InOrder, OnTime
<1>1. WithOne'
    BY DEF Owns, Takes, LeaseIsOver, NeverClaimed
<1>2. Timely'
    OBVIOUS
<1>3. ASSUME NEW t \in Sessions PROVE InOrder(t)'
    BY DEF Owns, Takes, LeaseIsOver, NeverClaimed
<1>4. ASSUME NEW t \in Sessions PROVE OnTime(t)'
    OBVIOUS
<1>5. QED
    BY <1>1, <1>2, <1>3, <1>4

LEMMA TryAgainKeeps ==
    ASSUME LeaseTypeOK, punctual, Kept, NEW s \in Sessions, TryAgain(s) PROVE Kept'
<1> USE LeaseAssumption DEF LeaseTypeOK, Claims, NoClaim, Resting, Dead, Kept, Running, At,
        TryAgain, Starts, GoesTo, Ends, Becomes, Has, WithOne, Timely, InOrder, OnTime
<1>1. WithOne'
    BY DEF Owns, Takes, LeaseIsOver, NeverClaimed
<1>2. Timely'
    OBVIOUS
<1>3. ASSUME NEW t \in Sessions PROVE InOrder(t)'
    BY DEF Owns, Takes, LeaseIsOver, NeverClaimed
<1>4. ASSUME NEW t \in Sessions PROVE OnTime(t)'
    OBVIOUS
<1>5. QED
    BY <1>1, <1>2, <1>3, <1>4

LEMMA GiveUpKeeps ==
    ASSUME LeaseTypeOK, punctual, Kept, NEW s \in Sessions, GiveUp(s) PROVE Kept'
<1> USE LeaseAssumption DEF LeaseTypeOK, Claims, NoClaim, Resting, Dead, Kept, Running, At,
        GiveUp, Starts, GoesTo, Ends, Becomes, Has, WithOne, Timely, InOrder, OnTime
<1>1. WithOne'
    BY DEF Owns, Takes, LeaseIsOver, NeverClaimed
<1>2. Timely'
    OBVIOUS
<1>3. ASSUME NEW t \in Sessions PROVE InOrder(t)'
    BY DEF Owns, Takes, LeaseIsOver, NeverClaimed
<1>4. ASSUME NEW t \in Sessions PROVE OnTime(t)'
    OBVIOUS
<1>5. QED
    BY <1>1, <1>2, <1>3, <1>4

LEMMA TickKeeps ==
    ASSUME LeaseTypeOK, punctual, Kept, Tick PROVE Kept'
<1> USE LeaseAssumption DEF LeaseTypeOK, Claims, NoClaim, Kept, Tick
<1>1. WithOne'
    BY DEF WithOne, Has, At
<1>2. Timely'
    <2>1. /\ InTime(clock + 1) /\ clock' = clock + 1 /\ UNCHANGED <<locked, claim, touched>>
          /\ claim # NoClaim => locked
        BY DEF WithOne
    <2>2. QED
        BY ONLY <2>1 DEF Timely, InTime, NoClaim
<1>3. ASSUME NEW t \in Sessions PROVE InOrder(t)'
    BY DEF InOrder, Has, At
<1>4. ASSUME NEW t \in Sessions PROVE OnTime(t)'
    BY DEF OnTime, InTime, Running, At
<1>5. QED
    BY <1>1, <1>2, <1>3, <1>4

-----------------------------------------------------------------------------

\* The types and the order of a punctual behaviour are kept for ever.
THEOREM LeaseInvariance == LeaseSpec => []IInv
<1>1. LeaseInit => IInv
    <2> SUFFICES ASSUME LeaseInit PROVE IInv
        OBVIOUS
    <2> USE LeaseAssumption DEF LeaseInit, NoClaim, Resting
    <2>1. LeaseTypeOK
        BY DEF LeaseTypeOK, Claims
    <2>2. WithOne /\ Timely
        BY DEF WithOne, Timely, Has, At
    <2>3. ASSUME NEW s \in Sessions PROVE InOrder(s) /\ OnTime(s)
        BY DEF InOrder, OnTime, At, Running
    <2>4. QED
        BY <2>1, <2>2, <2>3 DEF IInv, Kept
<1>2. IInv /\ [LeaseNext]_leaseVars => IInv'
    <2> SUFFICES ASSUME IInv, [LeaseNext]_leaseVars PROVE IInv'
        OBVIOUS
    <2>1. LeaseTypeOK'
        BY TypesStay DEF IInv
    <2>2. punctual' = punctual
        BY DEF LeaseNext, leaseVars, SessionStep, ScriptStep, Acquire, Release, Refresh, Mkdir,
            Exists, ReadOwner, ReadExpiry, DecideAcquire, DecideRelease, DecideRefresh,
            WriteOwner, EmptyLock, RemoveLock, TryAgain, GiveUp, Dies, Tick
    <2>3. ASSUME punctual PROVE Kept'
        <3>1. LeaseTypeOK /\ punctual /\ Kept
            BY <2>3 DEF IInv
        <3>2. ASSUME NEW s \in Sessions, SessionStep(s) PROVE Kept'
            BY <3>1, <3>2, AcquireKeeps, ReleaseKeeps, RefreshKeeps, MkdirKeeps, ExistsKeeps,
                ReadOwnerKeeps, ReadExpiryKeeps, DecideAcquireKeeps, DecideReleaseKeeps,
                DecideRefreshKeeps, WriteOwnerKeeps, EmptyLockKeeps, RemoveLockKeeps,
                TryAgainKeeps, GiveUpKeeps
            DEF SessionStep, ScriptStep, Dies
        <3>3. CASE Tick
            BY <3>1, <3>3, TickKeeps
        <3>4. CASE UNCHANGED leaseVars
            BY <3>1, <3>4 DEF leaseVars, Kept, WithOne, Timely, InOrder, OnTime, Has, At, Running,
                NoClaim
        <3>5. QED
            BY <3>2, <3>3, <3>4 DEF LeaseNext
    <2>4. QED
        BY <2>1, <2>2, <2>3 DEF IInv
<1>3. QED
    BY <1>1, <1>2, PTL DEF LeaseSpec

\* In a punctual behaviour two sessions never both hold the lock.
THEOREM PunctualExclusion == LeaseSpec => []PunctualHoldersExclude
<1>1. IInv => PunctualHoldersExclude
    BY DEF IInv, Kept, WithOne, Has, PunctualHoldersExclude
<1>2. QED
    BY <1>1, LeaseInvariance, PTL
=============================================================================
