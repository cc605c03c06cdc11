---------------------- MODULE ReportObligationsProofs ----------------------
(***************************************************************************)
(* What the event poll, the obligation check and the tasks of adoptions    *)
(* keep true of the obligation store, for every set of events and slots,   *)
(* every number of adoptions and mishaps, and every interleaving.          *)
(***************************************************************************)
EXTENDS ReportObligations, TLAPS

\* What the poll is about to add is new to the store, and nothing but the poll adds.
NewAreUntracked ==
    /\ poll # "add" => new_obs = {}
    /\ \A n \in new_obs :
            /\ \A o \in obligations : o.slot # n.slot
            /\ \A m \in new_obs : m.slot = n.slot => m = n

StoreTyped ==
    /\ obligations \subseteq Obligations
    /\ new_obs \subseteq Obligations
    /\ created \in [Slots -> Nat]

IInv == StoreTyped /\ OneObligationPerSlot /\ NewAreUntracked /\ OnlyListedAreOwed

\* Whoever is not the poll leaves each obligation, changes whether it is due, or removes it.
StoreShrinks ==
    /\ obligations' \subseteq Obligations
    /\ \A q \in obligations' : \E o \in obligations : o.slot = q.slot
    /\ \A p, q \in obligations' : p.slot = q.slot => p = q

LEMMA RearmedShrinks ==
    ASSUME StoreTyped, OneObligationPerSlot, NEW slot, NEW id, NEW d \in BOOLEAN,
           obligations' = Rearmed(slot, id, d)
    PROVE  StoreShrinks
<1> DEFINE Image(o) == IF o.slot = slot /\ o.id = id THEN [o EXCEPT !.due = d] ELSE o
<1>1. obligations' = { Image(o) : o \in obligations }
  BY DEF Rearmed
<1>2. \A o \in obligations : Image(o) \in Obligations /\ Image(o).slot = o.slot
  BY DEF StoreTyped, Obligations
<1> HIDE DEF Image
<1>3. \A q \in obligations' : \E o \in obligations : q = Image(o)
  BY <1>1
<1>4. \A p, q \in obligations' : p.slot = q.slot => p = q
  BY <1>2, <1>3 DEF OneObligationPerSlot
<1> QED
  BY <1>2, <1>3, <1>4 DEF StoreShrinks

LEMMA ComesDueShrinks ==
    ASSUME StoreTyped, OneObligationPerSlot, NEW s \in Slots, ComesDue(s)
    PROVE  StoreShrinks
<1> DEFINE Image(o) == IF o.slot = s THEN [o EXCEPT !.due = TRUE] ELSE o
<1>1. obligations' = { Image(o) : o \in obligations }
  BY DEF ComesDue
<1>2. \A o \in obligations : Image(o) \in Obligations /\ Image(o).slot = o.slot
  BY DEF StoreTyped, Obligations
<1> HIDE DEF Image
<1>3. \A q \in obligations' : \E o \in obligations : q = Image(o)
  BY <1>1
<1>4. \A p, q \in obligations' : p.slot = q.slot => p = q
  BY <1>2, <1>3 DEF OneObligationPerSlot
<1> QED
  BY <1>2, <1>3, <1>4 DEF StoreShrinks

LEMMA SubsetShrinks ==
    ASSUME StoreTyped, OneObligationPerSlot, obligations' \subseteq obligations
    PROVE  StoreShrinks
BY DEF StoreTyped, OneObligationPerSlot, StoreShrinks

\* The obligation check only re-arms and removes.
LEMMA ReporterShrinks ==
    ASSUME StoreTyped, OneObligationPerSlot, ReporterStep
    PROVE  StoreShrinks /\ UNCHANGED pollVars
<1>1. CASE RearmObligation
  <2>1. obligations' = Rearmed(ob.slot, ob.id, FALSE) /\ UNCHANGED pollVars
    BY <1>1 DEF RearmObligation
  <2> QED
    BY <2>1, RearmedShrinks
<1>2. CASE RemoveObligation
  <2>1. obligations' \subseteq obligations /\ UNCHANGED pollVars
    BY <1>2 DEF RemoveObligation
  <2> QED
    BY <2>1, SubsetShrinks
<1>3. CASE AnyObligationDue \/ DueObligations \/ BuildReport
  <2>1. obligations' \subseteq obligations /\ UNCHANGED pollVars
    BY <1>3 DEF AnyObligationDue, DueObligations, BuildReport
  <2> QED
    BY <2>1, SubsetShrinks
<1>4. CASE PutAccepted \/ PutRejected \/ PutFails
  <2>1. obligations' \subseteq obligations /\ UNCHANGED pollVars
    BY <1>4 DEF PutAccepted, PutRejected, PutFails
  <2> QED
    BY <2>1, SubsetShrinks
<1>5. CASE PostCreated \/ PostConflict \/ PostNotFound \/ SubmissionRefused \/ PostFails
  <2>1. obligations' \subseteq obligations /\ UNCHANGED pollVars
    BY <1>5 DEF PostCreated, PostConflict, PostNotFound, SubmissionRefused, PostFails, vtnVars
  <2> QED
    BY <2>1, SubsetShrinks
<1>6. CASE \/ LookupFinds \/ LookupFindsNone \/ LookupFails
           \/ UpdateAccepted \/ UpdateNotFound \/ UpdateFails
  <2>1. obligations' \subseteq obligations /\ UNCHANGED pollVars
    BY <1>6 DEF LookupFinds, LookupFindsNone, LookupFails, UpdateAccepted, UpdateNotFound,
                UpdateFails
  <2> QED
    BY <2>1, SubsetShrinks
<1> QED
  BY <1>1, <1>2, <1>3, <1>4, <1>5, <1>6 DEF ReporterStep

\* So do the tasks of adoptions, the clock and the VTN.
LEMMA OthersShrink ==
    ASSUME StoreTyped, OneObligationPerSlot,
           AdoptionStep \/ (Environment /\ ~PollPanics)
    PROVE  StoreShrinks /\ UNCHANGED pollVars
<1>1. ASSUME NEW a \in DOMAIN announcing, ReadForecasts(a)
      PROVE  StoreShrinks /\ UNCHANGED pollVars
  <2>1. obligations' \subseteq obligations /\ UNCHANGED pollVars
    BY <1>1 DEF ReadForecasts
  <2> QED
    BY <2>1, SubsetShrinks
<1>2. ASSUME NEW a \in DOMAIN announcing, RearmForecast(a)
      PROVE  StoreShrinks /\ UNCHANGED pollVars
  <2>1. PICK x \in announcing[a].left : obligations' = Rearmed(x[1], x[2], TRUE)
    BY <1>2 DEF RearmForecast
  <2>2. UNCHANGED pollVars
    BY <1>2 DEF RearmForecast
  <2> QED
    BY <2>1, <2>2, RearmedShrinks
<1>3. ASSUME NEW s \in Slots, ComesDue(s)
      PROVE  StoreShrinks /\ UNCHANGED pollVars
  <2>1. UNCHANGED pollVars
    BY <1>3 DEF ComesDue
  <2> QED
    BY <1>3, <2>1, ComesDueShrinks
<1>4. ASSUME \/ \E e \in Events : EventChanges(e)
             \/ \E s \in Slots : ReportDropped(s) \/ VtnRefuses(s) \/ VtnAccepts(s)
             \/ \E o \in Objectives : AdoptPlan(o)
             \/ ReporterPanics
      PROVE  StoreShrinks /\ UNCHANGED pollVars
  <2>1. obligations' \subseteq obligations /\ UNCHANGED pollVars
    BY <1>4 DEF EventChanges, ReportDropped, VtnRefuses, VtnAccepts, AdoptPlan, ReporterPanics
  <2> QED
    BY <2>1, SubsetShrinks
<1> QED
  BY <1>1, <1>2, <1>3, <1>4 DEF AdoptionStep, Environment

\* A step that only shrinks the store keeps the inductive invariant.
LEMMA ShrinkingKeeps ==
    ASSUME IInv, StoreShrinks, UNCHANGED pollVars
    PROVE  IInv'
<1>1. StoreTyped' /\ OneObligationPerSlot'
  BY DEF IInv, StoreTyped, StoreShrinks, OneObligationPerSlot, pollVars
<1>2. NewAreUntracked'
  BY DEF IInv, StoreShrinks, NewAreUntracked, pollVars
<1>3. OnlyListedAreOwed'
  BY DEF IInv, StoreShrinks, OnlyListedAreOwed, pollVars
<1> QED
  BY <1>1, <1>2, <1>3 DEF IInv

LEMMA PollKeeps ==
    ASSUME IInv, PollStep \/ PollPanics
    PROVE  IInv'
<1>1. CASE FetchEvents \/ PollPanics
  BY <1>1 DEF FetchEvents, PollPanics, IInv, StoreTyped, OneObligationPerSlot,
              NewAreUntracked, OnlyListedAreOwed
<1>2. CASE ExtractReportObligations
  <2>1. obligations' = obligations /\ poll' = "add"
    BY <1>2 DEF ExtractReportObligations
  <2>2. created' \in [Slots -> Nat]
    BY <1>2 DEF ExtractReportObligations, IInv, StoreTyped
  <2>3. new_obs' = { NewObligation(s) : s \in Untracked }
    BY <1>2 DEF ExtractReportObligations
  <2>4. \A s \in Untracked : NewObligation(s) \in Obligations /\ NewObligation(s).slot = s
    BY DEF NewObligation, Untracked, Obligations, IInv, StoreTyped
  <2>5. \A n \in new_obs' : \E s \in Untracked : n = NewObligation(s)
    BY <2>3
  <2>6. StoreTyped' /\ OneObligationPerSlot' /\ OnlyListedAreOwed'
    BY <2>1, <2>2, <2>4, <2>5 DEF IInv, StoreTyped, OneObligationPerSlot, OnlyListedAreOwed
  <2>7. \A s \in Untracked : \A o \in obligations : o.slot # s
    BY DEF Untracked
  <2>8. NewAreUntracked'
    BY <2>1, <2>4, <2>5, <2>7 DEF NewAreUntracked
  <2> QED
    BY <2>6, <2>8 DEF IInv
<1>3. CASE AddObligations
  BY <1>3 DEF AddObligations, IInv, StoreTyped, OneObligationPerSlot, NewAreUntracked,
              OnlyListedAreOwed
<1>4. CASE RetireObligations
  BY <1>4 DEF RetireObligations, IInv, StoreTyped, OneObligationPerSlot, NewAreUntracked,
              OnlyListedAreOwed
<1> QED
  BY <1>1, <1>2, <1>3, <1>4 DEF PollStep

LEMMA InvInit == Init => IInv
BY DEF Init, IInv, StoreTyped, OneObligationPerSlot, NewAreUntracked, OnlyListedAreOwed

LEMMA InvStep == IInv /\ [Next]_vars => IInv'
<1> SUFFICES ASSUME IInv, [Next]_vars
             PROVE  IInv'
  OBVIOUS
<1>1. CASE PollStep \/ PollPanics
  BY <1>1, PollKeeps
<1>2. CASE ReporterStep
  BY <1>2, ReporterShrinks, ShrinkingKeeps DEF IInv
<1>3. CASE AdoptionStep \/ (Environment /\ ~PollPanics)
  BY <1>3, OthersShrink, ShrinkingKeeps DEF IInv
<1>4. CASE UNCHANGED vars
  <2>1. obligations' \subseteq obligations /\ UNCHANGED pollVars
    BY <1>4 DEF vars
  <2> QED
    BY <2>1, SubsetShrinks, ShrinkingKeeps DEF IInv
<1> QED
  BY <1>1, <1>2, <1>3, <1>4 DEF Next

LEMMA InvHolds == Spec => []IInv
<1>1. Init => IInv
  BY InvInit
<1>2. IInv /\ [Next]_vars => IInv'
  BY InvStep
<1> QED
  BY <1>1, <1>2, PTL DEF Spec

\* No interleaving of polls, submissions, adoptions and restarts gives a
\* report descriptor two obligations (extract_report_obligations).
THEOREM OneObligationEach == Spec => []OneObligationPerSlot
<1>1. IInv => OneObligationPerSlot
  BY DEF IInv
<1> QED
  BY <1>1, InvHolds, PTL

\* When a poll is done, the VEN owes reports on listed events only: no
\* submission under way brings a retired obligation back
\* (retire_obligations_not_in, rearm_obligation).
THEOREM OnlyListedOwed == Spec => []OnlyListedAreOwed
<1>1. IInv => OnlyListedAreOwed
  BY DEF IInv
<1> QED
  BY <1>1, InvHolds, PTL

-----------------------------------------------------------------------------
(* The types, and what the obligation check submits                        *)

Working == {"put", "post", "lookup", "update", "rearm", "skip", "remove"}

\* The VTN, and the obligation check with an obligation at hand while it works.
SubmissionTyped ==
    /\ event \in [Events -> {"unknown", "active", "over", "deleted"}]
    /\ reports \in [Slots -> [id : Nat, body : Bodies \cup {"none"}]]
    /\ issued \in [Slots -> Nat]
    /\ reporter \in {"wait", "snapshot", "build"} \cup Working
    /\ due \subseteq Obligations
    /\ ob \in Obligations \cup {NoObligation}
    /\ reporter \in Working => ob \in Obligations
    /\ body \in Bodies \cup {"none"}
    /\ found \in Nat /\ report_ids \in [Slots -> Nat]

\* The poll's place, and the adoptions with their tasks.
AdoptionsTyped ==
    /\ poll \in {"fetch", "extract", "add", "retire", "retired"}
    /\ fetched \subseteq Events
    /\ active_plan \in Objectives \cup {"none"}
    /\ adoptions \in 0 .. MaxSurprises
    /\ DOMAIN announcing \subseteq 1 .. adoptions
    /\ \A a \in DOMAIN announcing :
            announcing[a].step \in {"read", "rearm"} /\ announcing[a].left \subseteq Ids

MishapsTyped == mishaps \in 0 .. MaxSurprises /\ refused \subseteq Slots

LEMMA TakenTyped ==
    ASSUME SubmissionTyped, NEW id \in Nat, ob \in Obligations, Taken(id)
    PROVE  /\ reports' \in [Slots -> [id : Nat, body : Bodies \cup {"none"}]]
           /\ ob.slot \in Slots
           /\ reports'[ob.slot].id = id
           /\ reports'[ob.slot].body = body
<1>1. ob.slot \in Slots
  BY DEF Obligations
<1>2. [id |-> id, body |-> body] \in [id : Nat, body : Bodies \cup {"none"}]
  BY DEF SubmissionTyped
<1>3. reports' = [reports EXCEPT ![ob.slot] = [id |-> id, body |-> body]]
  BY DEF Taken
<1> QED
  BY <1>1, <1>2, <1>3 DEF SubmissionTyped

LEMMA RemembersTyped ==
    ASSUME SubmissionTyped, NEW id \in Nat, ob \in Obligations, Remembers(id)
    PROVE  report_ids' \in [Slots -> Nat] /\ report_ids'[ob.slot] = id
BY DEF SubmissionTyped, Remembers, Obligations

\* A submission that ends leaves nothing at hand.
LEMMA EndTyped ==
    ASSUME SubmissionTyped, SubmissionEnds
    PROVE  /\ ob' \in Obligations \cup {NoObligation}
           /\ body' \in Bodies \cup {"none"}
           /\ found' \in Nat
BY DEF SubmissionEnds

\* A report is taken for submitted in three steps only.
LEMMA SubmissionsAreStored ==
    ASSUME SubmissionTyped, PutAccepted \/ PostCreated \/ UpdateAccepted
    PROVE  /\ SubmissionTyped'
           /\ reports'[ob.slot].body = body
           /\ reports'[ob.slot].id = report_ids'[ob.slot]
<1>1. ob \in Obligations /\ ob.slot \in Slots
  BY DEF SubmissionTyped, Working, PutAccepted, PostCreated, UpdateAccepted, Obligations
<1>2. reporter' = "rearm" /\ UNCHANGED <<event, due, ob, body, found>>
  BY DEF PutAccepted, PostCreated, UpdateAccepted
<1>3. CASE PutAccepted
  <2>1. report_ids[ob.slot] \in Nat /\ Taken(report_ids[ob.slot])
    BY <1>1, <1>3 DEF PutAccepted, SubmissionTyped
  <2>2. UNCHANGED <<issued, report_ids>>
    BY <1>3 DEF PutAccepted
  <2>3. /\ reports' \in [Slots -> [id : Nat, body : Bodies \cup {"none"}]]
        /\ reports'[ob.slot].id = report_ids[ob.slot]
        /\ reports'[ob.slot].body = body
    BY <1>1, <2>1, TakenTyped
  <2> QED
    BY <1>1, <1>2, <2>2, <2>3 DEF SubmissionTyped, Working
<1>4. CASE PostCreated
  <2> DEFINE new == issued[ob.slot] + 1
  <2>1. new \in Nat /\ Taken(new) /\ issued' = [issued EXCEPT ![ob.slot] = new]
    BY <1>1, <1>4 DEF PostCreated, Creates, SubmissionTyped
  <2>2. issued' \in [Slots -> Nat] /\ issued'[ob.slot] = new
    BY <1>1, <2>1 DEF SubmissionTyped
  <2>3. Remembers(new)
    BY <1>4, <2>2 DEF PostCreated, Remembers
  <2> HIDE DEF new
  <2>4. /\ reports' \in [Slots -> [id : Nat, body : Bodies \cup {"none"}]]
        /\ reports'[ob.slot].id = new
        /\ reports'[ob.slot].body = body
    BY <1>1, <2>1, TakenTyped
  <2>5. report_ids' \in [Slots -> Nat] /\ report_ids'[ob.slot] = new
    BY <1>1, <2>1, <2>3, RemembersTyped
  <2> QED
    BY <1>1, <1>2, <2>2, <2>4, <2>5 DEF SubmissionTyped, Working
<1>5. CASE UpdateAccepted
  <2>1. found \in Nat /\ Taken(found) /\ Remembers(found) /\ issued' = issued
    BY <1>5 DEF UpdateAccepted, SubmissionTyped
  <2>2. /\ reports' \in [Slots -> [id : Nat, body : Bodies \cup {"none"}]]
        /\ reports'[ob.slot].id = found
        /\ reports'[ob.slot].body = body
    BY <1>1, <2>1, TakenTyped
  <2>3. report_ids' \in [Slots -> Nat] /\ report_ids'[ob.slot] = found
    BY <1>1, <2>1, RemembersTyped
  <2> QED
    BY <1>1, <1>2, <2>1, <2>2, <2>3 DEF SubmissionTyped, Working
<1> QED
  BY <1>3, <1>4, <1>5

\* The other steps of the obligation check.
LEMMA RequestsTyped ==
    ASSUME SubmissionTyped,
           \/ PutRejected \/ PutFails \/ PostConflict \/ PostNotFound \/ PostFails
           \/ LookupFinds \/ LookupFindsNone \/ LookupFails
           \/ UpdateNotFound \/ UpdateFails \/ SubmissionRefused
    PROVE  SubmissionTyped' /\ reporter' # "rearm"
<1>1. ob \in Obligations /\ ob.slot \in Slots
  BY DEF SubmissionTyped, Working, Obligations, PutRejected, PutFails, PostConflict, PostNotFound,
         PostFails, LookupFinds, LookupFindsNone, LookupFails, UpdateNotFound, UpdateFails,
         SubmissionRefused
<1>2. CASE PutRejected \/ PutFails
  <2>1. Remembers(0)
    BY <1>2 DEF PutRejected, PutFails
  <2>2. report_ids' \in [Slots -> Nat]
    BY <1>1, <2>1, RemembersTyped
  <2>3. (reports' = reports) \/ Taken(report_ids[ob.slot])
    BY <1>2 DEF PutRejected, PutFails, vtnVars
  <2>4. reports' \in [Slots -> [id : Nat, body : Bodies \cup {"none"}]]
    BY <1>1, <2>3, TakenTyped DEF SubmissionTyped
  <2>5. reporter' = "post" /\ UNCHANGED <<event, issued, due, ob, body, found>>
    BY <1>2 DEF PutRejected, PutFails, vtnVars
  <2> QED
    BY <1>1, <2>2, <2>4, <2>5 DEF SubmissionTyped, Working
<1>3. CASE PostConflict \/ PostNotFound \/ UpdateNotFound
  BY <1>1, <1>3 DEF PostConflict, PostNotFound, UpdateNotFound, vtnVars, SubmissionTyped, Working
<1>4. CASE LookupFinds
  <2>1. found' \in Nat
    BY <1>1, <1>4 DEF LookupFinds, SubmissionTyped
  <2> QED
    BY <1>1, <1>4, <2>1 DEF LookupFinds, vtnVars, SubmissionTyped, Working
<1>5. CASE PostFails \/ SubmissionRefused \/ LookupFindsNone \/ LookupFails \/ UpdateFails
  <2>1. /\ reporter' = "wait" /\ due' = {} /\ SubmissionEnds
        /\ UNCHANGED <<event, report_ids>>
    BY <1>5 DEF PostFails, SubmissionRefused, LookupFindsNone, LookupFails, UpdateFails, Fails,
                vtnVars
  <2>2. \/ UNCHANGED <<reports, issued>>
        \/ Taken(found) /\ issued' = issued
        \/ Taken(issued[ob.slot] + 1) /\ issued' = [issued EXCEPT ![ob.slot] = @ + 1]
    BY <1>5 DEF PostFails, SubmissionRefused, LookupFindsNone, LookupFails, UpdateFails, Creates,
                vtnVars
  <2>3. found \in Nat /\ issued[ob.slot] + 1 \in Nat
    BY <1>1 DEF SubmissionTyped
  <2>4. issued' \in [Slots -> Nat]
    BY <1>1, <2>2, <2>3 DEF SubmissionTyped
  <2>5. reports' \in [Slots -> [id : Nat, body : Bodies \cup {"none"}]]
    BY <1>1, <2>2, <2>3, TakenTyped DEF SubmissionTyped
  <2>6. /\ ob' \in Obligations \cup {NoObligation}
        /\ body' \in Bodies \cup {"none"}
        /\ found' \in Nat
    BY <2>1, EndTyped
  <2> QED
    BY <2>1, <2>4, <2>5, <2>6 DEF SubmissionTyped, Working
<1> QED
  BY <1>2, <1>3, <1>4, <1>5

LEMMA PassTyped ==
    ASSUME SubmissionTyped, StoreTyped, AdoptionsTyped,
           \/ AnyObligationDue \/ DueObligations \/ BuildReport
           \/ RearmObligation \/ RemoveObligation \/ ReporterPanics
    PROVE  SubmissionTyped' /\ reporter' # "rearm"
<1>1. UNCHANGED <<event, reports, issued, report_ids>>
  BY DEF AnyObligationDue, DueObligations, BuildReport, RearmObligation, RemoveObligation,
         ReporterPanics, vtnVars
<1>2. CASE AnyObligationDue
  BY <1>1, <1>2 DEF AnyObligationDue, SubmissionTyped, Working
<1>3. CASE DueObligations
  <2>1. due' \subseteq Obligations
    BY <1>3 DEF DueObligations, StoreTyped
  <2>2. reporter' \in {"wait", "build"} /\ UNCHANGED <<ob, body, found>>
    BY <1>3 DEF DueObligations
  <2> QED
    BY <1>1, <2>1, <2>2 DEF SubmissionTyped, Working
<1>4. CASE BuildReport
  <2>1. PICK o \in due :
           /\ ob' = o
           /\ due' = due \ {o}
           /\ body' \in IF o.slot \in Forecasts THEN {active_plan} ELSE {"samples", "none"}
           /\ reporter' = IF body' = "none" THEN "skip"
                          ELSE IF report_ids[o.slot] # 0 THEN "put" ELSE "post"
    BY <1>4 DEF BuildReport
  <2>2. ob' \in Obligations /\ due' \subseteq Obligations
    BY <2>1 DEF SubmissionTyped
  <2>3. body' \in Bodies \cup {"none"}
    BY <2>1 DEF AdoptionsTyped, Bodies
  <2>4. reporter' \in {"skip", "put", "post"}
    BY <2>1
  <2>5. found' = found
    BY <1>4 DEF BuildReport
  <2> QED
    BY <1>1, <2>2, <2>3, <2>4, <2>5 DEF SubmissionTyped, Working
<1>5. CASE RearmObligation \/ RemoveObligation \/ ReporterPanics
  <2>1. reporter' \in {"wait", "build"} /\ SubmissionEnds /\ due' \subseteq due
    BY <1>5 DEF RearmObligation, RemoveObligation, ReporterPanics, PassGoesOn, Fails
  <2>2. /\ ob' \in Obligations \cup {NoObligation}
        /\ body' \in Bodies \cup {"none"}
        /\ found' \in Nat
    BY <2>1, EndTyped
  <2> QED
    BY <1>1, <2>1, <2>2 DEF SubmissionTyped, Working
<1> QED
  BY <1>2, <1>3, <1>4, <1>5

\* Nobody but the obligation check moves it.
LEMMA OthersTyped ==
    ASSUME SubmissionTyped,
           \/ PollStep \/ PollPanics \/ AdoptionStep \/ UNCHANGED vars
           \/ \E e \in Events : EventChanges(e)
           \/ \E s \in Slots : ReportDropped(s) \/ ComesDue(s) \/ VtnRefuses(s) \/ VtnAccepts(s)
           \/ \E o \in Objectives : AdoptPlan(o)
    PROVE  SubmissionTyped' /\ reporter' = reporter
<1>1. UNCHANGED <<issued, reporter, due, ob, body, found, report_ids>>
  BY DEF PollStep, FetchEvents, ExtractReportObligations, AddObligations, RetireObligations,
         PollPanics, AdoptionStep, ReadForecasts, RearmForecast, EventChanges,
         ReportDropped, ComesDue, VtnRefuses, VtnAccepts, AdoptPlan, vars, vtnVars, reporterVars
<1>2. ASSUME event' \in [Events -> {"unknown", "active", "over", "deleted"}],
             reports' \in [Slots -> [id : Nat, body : Bodies \cup {"none"}]]
      PROVE  SubmissionTyped'
  BY <1>1, <1>2 DEF SubmissionTyped
<1>3. NoReport \in [id : Nat, body : Bodies \cup {"none"}]
  BY DEF NoReport
<1>4. ASSUME NEW e \in Events, EventChanges(e)
      PROVE  SubmissionTyped'
  <2>1. event' \in [Events -> {"unknown", "active", "over", "deleted"}]
    BY <1>4 DEF EventChanges, SubmissionTyped
  <2>2. \/ reports' = reports
        \/ reports' = [s \in Slots |-> IF EventOf[s] = e THEN NoReport ELSE reports[s]]
    BY <1>4 DEF EventChanges
  <2>3. reports' \in [Slots -> [id : Nat, body : Bodies \cup {"none"}]]
    BY <1>3, <2>2 DEF SubmissionTyped
  <2> QED
    BY <1>2, <2>1, <2>3
<1>5. ASSUME NEW s \in Slots, ReportDropped(s)
      PROVE  SubmissionTyped'
  <2>1. event' = event /\ reports' = [reports EXCEPT ![s] = NoReport]
    BY <1>5 DEF ReportDropped
  <2>2. reports' \in [Slots -> [id : Nat, body : Bodies \cup {"none"}]]
    BY <1>3, <2>1 DEF SubmissionTyped
  <2> QED
    BY <1>2, <2>1, <2>2 DEF SubmissionTyped
<1>6. CASE \/ PollStep \/ PollPanics \/ AdoptionStep \/ UNCHANGED vars
           \/ \E s \in Slots : ComesDue(s) \/ VtnRefuses(s) \/ VtnAccepts(s)
           \/ \E o \in Objectives : AdoptPlan(o)
  <2>1. UNCHANGED <<event, reports>>
    BY <1>6 DEF PollStep, FetchEvents, ExtractReportObligations, AddObligations,
       RetireObligations, PollPanics, AdoptionStep, ReadForecasts, RearmForecast,
       ComesDue, VtnRefuses, VtnAccepts, AdoptPlan, vars, vtnVars
  <2> QED
    BY <1>1, <1>2, <2>1 DEF SubmissionTyped
<1> QED
  BY <1>1, <1>4, <1>5, <1>6

LEMMA SubmissionStep ==
    ASSUME SubmissionTyped, StoreTyped, AdoptionsTyped, [Next]_vars
    PROVE  /\ SubmissionTyped'
           /\ reporter # "rearm" /\ reporter' = "rearm" =>
                   /\ reports'[ob.slot].body = body
                   /\ reports'[ob.slot].id = report_ids'[ob.slot]
<1>1. CASE PutAccepted \/ PostCreated \/ UpdateAccepted
  BY <1>1, SubmissionsAreStored
<1>2. CASE \/ PutRejected \/ PutFails \/ PostConflict \/ PostNotFound \/ PostFails
           \/ LookupFinds \/ LookupFindsNone \/ LookupFails
           \/ UpdateNotFound \/ UpdateFails \/ SubmissionRefused
  BY <1>2, RequestsTyped
<1>3. CASE \/ AnyObligationDue \/ DueObligations \/ BuildReport
           \/ RearmObligation \/ RemoveObligation \/ ReporterPanics
  BY <1>3, PassTyped
<1>4. CASE \/ PollStep \/ PollPanics \/ AdoptionStep \/ UNCHANGED vars
           \/ \E e \in Events : EventChanges(e)
           \/ \E s \in Slots : ReportDropped(s) \/ ComesDue(s) \/ VtnRefuses(s) \/ VtnAccepts(s)
           \/ \E o \in Objectives : AdoptPlan(o)
  BY <1>4, OthersTyped
<1> QED
  BY <1>1, <1>2, <1>3, <1>4 DEF Next, ReporterStep, Environment

\* The tasks of adoptions.
LEMMA GoesTyped ==
    ASSUME AdoptionsTyped, NEW a \in DOMAIN announcing, NEW left \in SUBSET Ids,
           Goes(a, left), UNCHANGED <<poll, fetched, active_plan, adoptions>>
    PROVE  AdoptionsTyped'
<1>1. CASE left = {}
  <2>1. announcing' = [b \in DOMAIN announcing \ {a} |-> announcing[b]]
    BY <1>1 DEF Goes
  <2> QED
    BY <2>1 DEF AdoptionsTyped
<1>2. CASE left # {}
  <2>1. announcing' = [announcing EXCEPT ![a] = [step |-> "rearm", left |-> left]]
    BY <1>2 DEF Goes
  <2>2. DOMAIN announcing' = DOMAIN announcing
    BY <2>1
  <2>3. \A b \in DOMAIN announcing :
           announcing'[b] = IF b = a THEN [step |-> "rearm", left |-> left] ELSE announcing[b]
    BY <2>1
  <2> QED
    BY <2>2, <2>3 DEF AdoptionsTyped
<1> QED
  BY <1>1, <1>2

LEMMA AdoptionsTypedStep ==
    ASSUME AdoptionsTyped, MishapsTyped, StoreTyped, [Next]_vars
    PROVE  AdoptionsTyped'
<1>1. CASE PollStep \/ PollPanics
  <2>1. UNCHANGED <<active_plan, adoptions, announcing>>
    BY <1>1 DEF PollStep, FetchEvents, ExtractReportObligations, AddObligations,
       RetireObligations, PollPanics, planVars
  <2>2. /\ poll' \in {"fetch", "extract", "add", "retire", "retired"}
        /\ fetched' \subseteq Events
    BY <1>1 DEF PollStep, FetchEvents, ExtractReportObligations, AddObligations,
       RetireObligations, PollPanics, AdoptionsTyped, Listed
  <2> QED
    BY <2>1, <2>2 DEF AdoptionsTyped
<1>2. ASSUME NEW o \in Objectives, AdoptPlan(o)
      PROVE  AdoptionsTyped'
  <2>1. adoptions' = adoptions + 1 /\ adoptions \in Nat /\ adoptions' \in 0 .. MaxSurprises
    BY <1>2, BoundAssumption DEF AdoptPlan, AdoptionsTyped, MishapsTyped
  <2>2. active_plan' = o /\ UNCHANGED <<poll, fetched>>
    BY <1>2 DEF AdoptPlan, pollVars
  <2>3. announcing' = [a \in DOMAIN announcing \cup {adoptions + 1} |->
                         IF a \in DOMAIN announcing THEN announcing[a]
                         ELSE [step |-> "read", left |-> {}]]
    BY <1>2 DEF AdoptPlan
  <2>4. DOMAIN announcing' \subseteq 1 .. adoptions'
    BY <2>1, <2>3 DEF AdoptionsTyped
  <2>5. \A a \in DOMAIN announcing' :
           announcing'[a].step \in {"read", "rearm"} /\ announcing'[a].left \subseteq Ids
    BY <2>3 DEF AdoptionsTyped
  <2> QED
    BY <2>1, <2>2, <2>4, <2>5 DEF AdoptionsTyped
<1>3. ASSUME NEW a \in DOMAIN announcing, ReadForecasts(a)
      PROVE  AdoptionsTyped'
  <2> DEFINE left == { <<o.slot, o.id>> : o \in { x \in obligations : x.slot \in Forecasts } }
  <2>1. left \subseteq Ids
    BY DEF StoreTyped, Obligations, Ids
  <2>2. Goes(a, left) /\ UNCHANGED <<poll, fetched, active_plan, adoptions>>
    BY <1>3 DEF ReadForecasts, pollVars
  <2> HIDE DEF left
  <2> QED
    BY <2>1, <2>2, GoesTyped
<1>4. ASSUME NEW a \in DOMAIN announcing, RearmForecast(a)
      PROVE  AdoptionsTyped'
  <2>1. PICK x \in announcing[a].left : Goes(a, announcing[a].left \ {x})
    BY <1>4 DEF RearmForecast
  <2>2. announcing[a].left \ {x} \subseteq Ids
    BY DEF AdoptionsTyped
  <2>3. UNCHANGED <<poll, fetched, active_plan, adoptions>>
    BY <1>4 DEF RearmForecast, pollVars
  <2> QED
    BY <2>1, <2>2, <2>3, GoesTyped
<1>5. CASE ReporterStep
  <2>1. UNCHANGED planVars /\ UNCHANGED pollVars
    BY <1>5 DEF ReporterStep, AnyObligationDue, DueObligations, BuildReport, PutAccepted,
       PutRejected, PutFails, PostCreated, PostConflict, PostNotFound, PostFails, LookupFinds,
       LookupFindsNone, LookupFails, UpdateAccepted, UpdateNotFound, UpdateFails,
       SubmissionRefused, RearmObligation, RemoveObligation
  <2> QED
    BY <2>1 DEF AdoptionsTyped, planVars, pollVars
<1>6. CASE \/ \E e \in Events : EventChanges(e)
           \/ \E s \in Slots : ReportDropped(s) \/ ComesDue(s) \/ VtnRefuses(s) \/ VtnAccepts(s)
           \/ ReporterPanics \/ UNCHANGED vars
  <2>1. UNCHANGED planVars /\ UNCHANGED pollVars
    BY <1>6 DEF EventChanges, ReportDropped, ComesDue, VtnRefuses, VtnAccepts, ReporterPanics, vars
  <2> QED
    BY <2>1 DEF AdoptionsTyped, planVars, pollVars
<1> QED
  BY <1>1, <1>2, <1>3, <1>4, <1>5, <1>6 DEF Next, AdoptionStep, Environment

LEMMA MishapsTypedStep == ASSUME AdoptionsTyped, MishapsTyped, [Next]_vars PROVE MishapsTyped'
<1>1. mishaps' = mishaps \/ Mishap
  BY DEF Next, PollStep, FetchEvents, ExtractReportObligations, AddObligations, RetireObligations,
     ReporterStep, AnyObligationDue, DueObligations, BuildReport, PutAccepted,
     PutRejected, PutFails, PostCreated, PostConflict, PostNotFound, PostFails, LookupFinds,
     LookupFindsNone, LookupFails, UpdateAccepted, UpdateNotFound, UpdateFails, SubmissionRefused,
     RearmObligation,
     RemoveObligation, AdoptionStep, ReadForecasts, RearmForecast, Environment, EventChanges,
     ReportDropped, ComesDue, VtnRefuses, VtnAccepts, AdoptPlan, PollPanics, ReporterPanics, vars
<1>2. refused' \subseteq refused \/ \E s \in Slots : refused' = refused \cup {s}
  BY DEF Next, PollStep, FetchEvents, ExtractReportObligations, AddObligations, RetireObligations,
     ReporterStep, AnyObligationDue, DueObligations, BuildReport, PutAccepted, PutRejected,
     PutFails, PostCreated, PostConflict, PostNotFound, PostFails, LookupFinds, LookupFindsNone,
     LookupFails, UpdateAccepted, UpdateNotFound, UpdateFails, SubmissionRefused,
     RearmObligation, RemoveObligation, AdoptionStep, ReadForecasts, RearmForecast, Environment,
     EventChanges, ReportDropped, ComesDue, VtnRefuses, VtnAccepts, AdoptPlan, PollPanics,
     ReporterPanics, vars, vtnVars
<1> QED
  BY <1>1, <1>2, BoundAssumption DEF Mishap, MishapsTyped, AdoptionsTyped

Typed == SubmissionTyped /\ AdoptionsTyped /\ MishapsTyped

LEMMA TypedHolds == Spec => [](IInv /\ Typed)
<1>1. Init => Typed
  <2> SUFFICES ASSUME Init
               PROVE  Typed
    OBVIOUS
  <2>1. SubmissionTyped
    BY DEF Init, SubmissionTyped, NoReport, Working
  <2>2. AdoptionsTyped
    BY BoundAssumption DEF Init, AdoptionsTyped
  <2>3. MishapsTyped
    BY BoundAssumption DEF Init, MishapsTyped
  <2> QED
    BY <2>1, <2>2, <2>3 DEF Typed
<1>2. IInv /\ Typed /\ [Next]_vars => Typed'
  BY SubmissionStep, AdoptionsTypedStep, MishapsTypedStep DEF IInv, Typed
<1> QED
  BY <1>1, <1>2, InvHolds, PTL DEF Spec

\* The store, the obligation check and the tasks of adoptions are always in a
\* state the code can produce.
THEOREM TypeCorrect == Spec => []TypeOK
<1>1. IInv /\ Typed => TypeOK
  BY DEF IInv, StoreTyped, Typed, SubmissionTyped, AdoptionsTyped, MishapsTyped, TypeOK, Working
<1> QED
  BY <1>1, TypedHolds, PTL

\* Whatever ids went stale and whatever answers were lost, an obligation is
\* re-armed as submitted only if the VTN holds the report as it was built,
\* under the id the client remembers (upsert_report).
THEOREM SubmittedReportsAreStored == Spec => SubmittedIsStored
<1>1. IInv /\ Typed /\ [Next]_vars =>
        [ reporter # "rearm" /\ reporter' = "rearm" =>
              /\ reports'[ob.slot].body = body
              /\ reports'[ob.slot].id = report_ids'[ob.slot] ]_vars
  BY SubmissionStep DEF IInv, Typed
<1> QED
  BY <1>1, TypedHolds, PTL DEF Spec, SubmittedIsStored

=============================================================================
