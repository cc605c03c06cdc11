------------------------- MODULE ReportObligations -------------------------
(***************************************************************************)
(* The reports a VEN owes the VTN: the obligations the event poll reads out *)
(* of the events' report descriptors, the obligation check that submits the *)
(* due ones, and the tasks a plan adoption spawns to make the forecasts due *)
(* at once.  All three run concurrently and share the obligation store; an  *)
(* action is what one of them does between two awaits.                      *)
(*                                                                         *)
(* A slot is what one report descriptor of one event asks for; a report's   *)
(* name is its slot, and the VTN keeps one report per name.  Time is        *)
(* abstract: an obligation is due or is not, and any that is not may come   *)
(* due.  The order of the store's vector is left open.                      *)
(***************************************************************************)
EXTENDS Integers

CONSTANTS
    Events,
    Slots,          \* (event, payload type) pairs
    EventOf,        \* the event of a slot
    Forecasts,      \* the slots that ask for an ad hoc forecast
    Objectives,     \* of the plans the planner adopts
    MaxSurprises    \* bound: adoptions and mishaps together.  A mishap is a report that
                    \* the VTN loses or comes to refuse, a request that fails, a panic

ASSUME SlotsAssumption ==
    /\ EventOf \in [Slots -> Events]
    /\ Forecasts \subseteq Slots
    /\ "none" \notin Objectives /\ "samples" \notin Objectives

ASSUME BoundAssumption == MaxSurprises \in Nat

Obligations == [slot : Slots, id : Nat \ {0}, due : BOOLEAN]
Bodies == Objectives \cup {"samples"}
NoReport == [id |-> 0, body |-> "none"]

VARIABLES
    (* the VTN *)
    event,          \* "unknown", "active", "over" (kept, no longer listed) or "deleted"
    reports,        \* the report each slot's name has
    issued,         \* how many report ids each name was given
    refused,        \* the slots whose report the VTN does not take, whatever is sent
    (* AppState *)
    obligations,    \* the obligation store, a set of records
    active_plan,    \* the objective of the plan in force, or "none"
    (* the event poll *)
    poll,           \* its next step
    fetched,
    new_obs,
    created,        \* how many obligations each slot was given
    (* the obligation check *)
    reporter,       \* its next step
    due,            \* what is left of the due obligations it works through
    ob,             \* the obligation at hand
    body,           \* what its report says
    found,          \* the report id a lookup by name returned
    report_ids,     \* the ids the client remembers; 0: none
    (* the tasks of adoptions *)
    adoptions,
    announcing,     \* adoption |-> "read", or the ids still to make due
    mishaps

vtnVars == <<event, reports, issued, refused>>
pollVars == <<poll, fetched, new_obs, created>>
reporterVars == <<reporter, due, ob, body, found, report_ids>>
planVars == <<active_plan, adoptions, announcing>>
vars == <<vtnVars, obligations, pollVars, reporterVars, planVars, mishaps>>

NoObligation == [slot |-> "none", id |-> 0, due |-> FALSE]
Ids == Slots \X (Nat \ {0})

TypeOK ==
    /\ event \in [Events -> {"unknown", "active", "over", "deleted"}]
    /\ reports \in [Slots -> [id : Nat, body : Bodies \cup {"none"}]]
    /\ issued \in [Slots -> Nat] /\ refused \subseteq Slots
    /\ obligations \subseteq Obligations
    /\ fetched \subseteq Events
    /\ active_plan \in Objectives \cup {"none"}
    /\ poll \in {"fetch", "extract", "add", "retire", "retired"}
    /\ new_obs \subseteq Obligations
    /\ created \in [Slots -> Nat]
    /\ reporter \in {"wait", "snapshot", "build", "put", "post", "lookup", "update", "rearm",
                     "skip", "remove"}
    /\ due \subseteq Obligations /\ ob \in Obligations \cup {NoObligation}
    /\ body \in Bodies \cup {"none"}
    /\ found \in Nat /\ report_ids \in [Slots -> Nat]
    /\ adoptions \in 0 .. MaxSurprises
    /\ DOMAIN announcing \subseteq 1 .. adoptions
    /\ \A a \in DOMAIN announcing :
            announcing[a].step \in {"read", "rearm"} /\ announcing[a].left \subseteq Ids
    /\ mishaps \in 0 .. MaxSurprises

Init ==
    /\ event = [e \in Events |-> "unknown"]
    /\ reports = [s \in Slots |-> NoReport] /\ issued = [s \in Slots |-> 0]
    /\ refused = {}
    /\ obligations = {} /\ active_plan = "none"
    /\ poll = "fetch" /\ fetched = {} /\ new_obs = {} /\ created = [s \in Slots |-> 0]
    /\ reporter = "wait" /\ due = {} /\ ob = NoObligation /\ body = "none" /\ found = 0
    /\ report_ids = [s \in Slots |-> 0]
    /\ adoptions = 0 /\ announcing = [a \in {} |-> {}] /\ mishaps = 0

-----------------------------------------------------------------------------
(* What goes wrong                                                         *)

Mishap == adoptions + mishaps < MaxSurprises /\ mishaps' = mishaps + 1

-----------------------------------------------------------------------------
(* The VTN and the clock                                                   *)

Listed == { e \in Events : event[e] = "active" }

EventChanges(e) ==
    /\ \/ event[e] = "unknown" /\ event' = [event EXCEPT ![e] = "active"] /\ UNCHANGED reports
       \/ event[e] = "active" /\ event' = [event EXCEPT ![e] = "over"] /\ UNCHANGED reports
       \/ /\ event[e] \in {"active", "over"}
          /\ event' = [event EXCEPT ![e] = "deleted"]
          /\ reports' = [s \in Slots |-> IF EventOf[s] = e THEN NoReport ELSE reports[s]]
    /\ UNCHANGED <<issued, refused, obligations, pollVars, reporterVars, planVars, mishaps>>

ReportDropped(s) ==
    /\ Mishap /\ reports[s] # NoReport
    /\ reports' = [reports EXCEPT ![s] = NoReport]
    /\ UNCHANGED <<event, issued, refused, obligations, pollVars, reporterVars, planVars>>

\* The VTN comes to refuse what is reported for a slot, for good or until it takes it again.
VtnRefuses(s) ==
    /\ Mishap /\ s \notin refused
    /\ refused' = refused \cup {s}
    /\ UNCHANGED <<event, reports, issued, obligations, pollVars, reporterVars, planVars>>

VtnAccepts(s) ==
    /\ s \in refused
    /\ refused' = refused \ {s}
    /\ UNCHANGED <<event, reports, issued, obligations, pollVars, reporterVars, planVars, mishaps>>

ComesDue(s) ==
    /\ \E o \in obligations : o.slot = s /\ ~o.due
    /\ obligations' = { IF o.slot = s THEN [o EXCEPT !.due = TRUE] ELSE o : o \in obligations }
    /\ UNCHANGED <<vtnVars, pollVars, reporterVars, planVars, mishaps>>

-----------------------------------------------------------------------------
(* The obligation store                                                    *)

Rearmed(slot, id, is_due) ==
    { IF o.slot = slot /\ o.id = id THEN [o EXCEPT !.due = is_due] ELSE o : o \in obligations }

-----------------------------------------------------------------------------
(* The event poll                                                          *)

FetchEvents ==
    /\ poll \in {"fetch", "retired"}
    /\ fetched' = Listed
    /\ poll' = "extract"
    /\ UNCHANGED <<vtnVars, obligations, new_obs, created, reporterVars, planVars,
                   mishaps>>

\* Mutant: A descriptor is a new one although an obligation tracks it.
EveryDescriptor == { s \in Slots : EventOf[s] \in fetched }

\* The descriptors no obligation tracks.
Untracked == { s \in Slots : EventOf[s] \in fetched /\ \A o \in obligations : o.slot # s }

\* Mutant: Nobody numbers the obligation.
NoFreshId(s) == [slot |-> s, id |-> created[s], due |-> s \in Forecasts]

\* Its id is a fresh one; the first forecast goes out at once.
NewObligation(s) == [slot |-> s, id |-> created[s] + 1, due |-> s \in Forecasts]

ExtractReportObligations ==
    /\ poll = "extract"
    /\ new_obs' = { NewObligation(s) : s \in Untracked }
    /\ created' = [s \in Slots |-> IF s \in Untracked THEN created[s] + 1 ELSE created[s]]
    /\ poll' = "add"
    /\ UNCHANGED <<vtnVars, obligations, fetched, reporterVars, planVars, mishaps>>

AddObligations ==
    /\ poll = "add"
    /\ obligations' = obligations \cup new_obs
    /\ new_obs' = {}
    /\ poll' = "retire"
    /\ UNCHANGED <<vtnVars, fetched, created, reporterVars, planVars, mishaps>>

RetireObligations ==
    /\ poll = "retire"
    /\ obligations' = { o \in obligations : EventOf[o.slot] \in fetched }
    /\ poll' = "retired"
    /\ UNCHANGED <<vtnVars, fetched, new_obs, created, reporterVars, planVars, mishaps>>

-----------------------------------------------------------------------------
(* Plan adoption                                                           *)

\* announce_adoption: the plan is in force before the task that announces it
\* starts.  A plan under the objective in force announces nothing, and a report
\* does not tell it from the one before.
AdoptPlan(o) ==
    /\ adoptions + mishaps < MaxSurprises /\ o # active_plan
    /\ adoptions' = adoptions + 1
    /\ active_plan' = o
    /\ announcing' = [a \in DOMAIN announcing \cup {adoptions + 1} |->
                         IF a \in DOMAIN announcing THEN announcing[a]
                         ELSE [step |-> "read", left |-> {}]]
    /\ UNCHANGED <<vtnVars, obligations, pollVars, reporterVars, mishaps>>

Goes(a, left) ==
    announcing' = IF left = {} THEN [b \in DOMAIN announcing \ {a} |-> announcing[b]]
                  ELSE [announcing EXCEPT ![a] = [step |-> "rearm", left |-> left]]

\* ad_hoc_forecasts_due_on_adoption
ReadForecasts(a) ==
    /\ announcing[a].step = "read"
    /\ Goes(a, { <<o.slot, o.id>> : o \in { x \in obligations : x.slot \in Forecasts } })
    /\ UNCHANGED <<vtnVars, obligations, pollVars, reporterVars, active_plan, adoptions, mishaps>>

RearmForecast(a) ==
    /\ announcing[a].step = "rearm"
    /\ \E x \in announcing[a].left :
            /\ obligations' = Rearmed(x[1], x[2], TRUE)
            /\ Goes(a, announcing[a].left \ {x})
    /\ UNCHANGED <<vtnVars, pollVars, reporterVars, active_plan, adoptions, mishaps>>

-----------------------------------------------------------------------------
(* The obligation check                                                    *)

AnyObligationDue ==
    /\ reporter = "wait" /\ \E o \in obligations : o.due
    /\ reporter' = "snapshot"
    /\ UNCHANGED <<vtnVars, obligations, pollVars, due, ob, body, found, report_ids, planVars,
                   mishaps>>

\* After the assets' histories were copied under the simulator's lock.
DueObligations ==
    /\ reporter = "snapshot"
    /\ due' = { o \in obligations : o.due }
    /\ reporter' = IF due' = {} THEN "wait" ELSE "build"
    /\ UNCHANGED <<vtnVars, obligations, pollVars, ob, body, found, report_ids, planVars, mishaps>>

\* A forecast needs a plan, a measurement needs samples.
BuildReport ==
    /\ reporter = "build"
    /\ \E o \in due :
        /\ ob' = o
        /\ due' = due \ {o}
        /\ body' \in IF o.slot \in Forecasts THEN {active_plan} ELSE {"samples", "none"}
        /\ reporter' = IF body' = "none" THEN "skip"
                       ELSE IF report_ids[o.slot] # 0 THEN "put" ELSE "post"
    /\ UNCHANGED <<vtnVars, obligations, pollVars, found, report_ids, planVars, mishaps>>

\* The VTN takes the report at hand under an id it has for its name.
Taken(id) == reports' = [reports EXCEPT ![ob.slot] = [id |-> id, body |-> body]]
HasReport(id) == id # 0 /\ reports[ob.slot].id = id
Accepts(id) == HasReport(id) /\ ob.slot \notin refused
Remembers(id) == report_ids' = [report_ids EXCEPT ![ob.slot] = id]

SubmissionEnds == ob' = NoObligation /\ body' = "none" /\ found' = 0

\* A submission that failed ends the pass: the obligations after it wait for the next one.
Fails == reporter' = "wait" /\ due' = {} /\ SubmissionEnds

\* Mutant: A rejected id stays remembered, and ends the submission.
RejectedIdIsKept ==
    /\ reporter = "put" /\ ~Accepts(report_ids[ob.slot])
    /\ Fails
    /\ UNCHANGED <<vtnVars, obligations, pollVars, report_ids, planVars, mishaps>>

\* Mutant: Whatever the VTN answers to a PUT to a stale id, the report is taken for submitted.
AnyAnswerWillDo ==
    /\ reporter = "put" /\ ~Accepts(report_ids[ob.slot])
    /\ reporter' = "rearm"
    /\ UNCHANGED <<vtnVars, obligations, pollVars, due, ob, body, found, report_ids, planVars,
                   mishaps>>

\* The PUT to a remembered id.  Any error, a lost answer included, forgets it.
PutAccepted ==
    /\ reporter = "put"
    /\ Accepts(report_ids[ob.slot]) /\ Taken(report_ids[ob.slot])
    /\ reporter' = "rearm"
    /\ UNCHANGED <<event, issued, refused, obligations, pollVars, due, ob, body, found, report_ids,
                   planVars, mishaps>>

PutRejected ==
    /\ reporter = "put" /\ ~Accepts(report_ids[ob.slot])
    /\ Remembers(0)
    /\ reporter' = "post"
    /\ UNCHANGED <<vtnVars, obligations, pollVars, due, ob, body, found, planVars, mishaps>>

PutFails ==
    /\ reporter = "put" /\ Mishap
    /\ (Accepts(report_ids[ob.slot]) /\ Taken(report_ids[ob.slot])) \/ UNCHANGED reports
    /\ Remembers(0)
    /\ reporter' = "post"
    /\ UNCHANGED <<event, issued, refused, obligations, pollVars, due, ob, body, found, planVars>>

Creates ==
    /\ event[EventOf[ob.slot]] \in {"active", "over"} /\ reports[ob.slot] = NoReport
    /\ ob.slot \notin refused
    /\ Taken(issued[ob.slot] + 1)
    /\ issued' = [issued EXCEPT ![ob.slot] = @ + 1]

PostCreated ==
    /\ reporter = "post"
    /\ Creates
    /\ Remembers(issued'[ob.slot])
    /\ reporter' = "rearm"
    /\ UNCHANGED <<event, refused, obligations, pollVars, due, ob, body, found, planVars, mishaps>>

\* 409: the name is taken, or the event of the report is gone.
PostConflict ==
    /\ reporter = "post"
    /\ reports[ob.slot] # NoReport \/ event[EventOf[ob.slot]] = "deleted"
    /\ reporter' = "lookup"
    /\ UNCHANGED <<vtnVars, obligations, pollVars, due, ob, body, found, report_ids, planVars,
                   mishaps>>

\* 404, by which the obligation check takes the source for gone.
PostNotFound ==
    /\ reporter = "post"
    /\ event[EventOf[ob.slot]] = "deleted"
    /\ reporter' = "remove"
    /\ UNCHANGED <<vtnVars, obligations, pollVars, due, ob, body, found, report_ids, planVars,
                   mishaps>>

\* Any other rejection, in answer to the POST or to the PUT after a lookup.
SubmissionRefused ==
    /\ reporter \in {"post", "update"} /\ ob.slot \in refused
    /\ Fails
    /\ UNCHANGED <<vtnVars, obligations, pollVars, report_ids, planVars, mishaps>>

\* An error of the moment, no answer, or an answer that was lost.
PostFails ==
    /\ reporter = "post" /\ Mishap
    /\ Creates \/ UNCHANGED <<reports, issued>>
    /\ Fails
    /\ UNCHANGED <<event, refused, obligations, pollVars, report_ids, planVars>>

LookupFinds ==
    /\ reporter = "lookup"
    /\ reports[ob.slot] # NoReport
    /\ found' = reports[ob.slot].id
    /\ reporter' = "update"
    /\ UNCHANGED <<vtnVars, obligations, pollVars, due, ob, body, report_ids, planVars, mishaps>>

LookupFindsNone ==
    /\ reporter = "lookup"
    /\ reports[ob.slot] = NoReport
    /\ Fails
    /\ UNCHANGED <<vtnVars, obligations, pollVars, report_ids, planVars, mishaps>>

LookupFails ==
    /\ reporter = "lookup" /\ Mishap
    /\ Fails
    /\ UNCHANGED <<vtnVars, obligations, pollVars, report_ids, planVars>>

UpdateAccepted ==
    /\ reporter = "update"
    /\ Accepts(found) /\ Taken(found)
    /\ Remembers(found)
    /\ reporter' = "rearm"
    /\ UNCHANGED <<event, issued, refused, obligations, pollVars, due, ob, body, found, planVars,
                   mishaps>>

UpdateNotFound ==
    /\ reporter = "update"
    /\ ~HasReport(found)
    /\ reporter' = "remove"
    /\ UNCHANGED <<vtnVars, obligations, pollVars, due, ob, body, found, report_ids, planVars,
                   mishaps>>

UpdateFails ==
    /\ reporter = "update" /\ Mishap
    /\ (Accepts(found) /\ Taken(found)) \/ UNCHANGED reports
    /\ Fails
    /\ UNCHANGED <<event, issued, refused, obligations, pollVars, report_ids, planVars>>

PassGoesOn == reporter' = (IF due = {} THEN "wait" ELSE "build") /\ SubmissionEnds

\* Mutant: The check writes back the obligation it has read.
RearmWritesBack ==
    /\ reporter \in {"rearm", "skip"}
    /\ obligations' = { o \in obligations : o.slot # ob.slot } \cup {[ob EXCEPT !.due = FALSE]}
    /\ PassGoesOn
    /\ UNCHANGED <<vtnVars, pollVars, due, report_ids, planVars, mishaps>>

\* Mutant: An obligation without data is left as it is.
NoDataNoRearm ==
    /\ reporter \in {"rearm", "skip"}
    /\ IF reporter = "rearm" THEN obligations' = Rearmed(ob.slot, ob.id, FALSE)
       ELSE UNCHANGED obligations
    /\ PassGoesOn
    /\ UNCHANGED <<vtnVars, pollVars, due, report_ids, planVars, mishaps>>

\* Submitted, or nothing to submit: due again one cadence after the pass began.
RearmObligation ==
    /\ reporter \in {"rearm", "skip"}
    /\ obligations' = Rearmed(ob.slot, ob.id, FALSE)
    /\ PassGoesOn
    /\ UNCHANGED <<vtnVars, pollVars, due, report_ids, planVars, mishaps>>

RemoveObligation ==
    /\ reporter = "remove"
    /\ obligations' = { o \in obligations : ~(o.slot = ob.slot /\ o.id = ob.id) }
    /\ PassGoesOn
    /\ UNCHANGED <<vtnVars, pollVars, due, report_ids, planVars, mishaps>>

-----------------------------------------------------------------------------
(* The supervisor restarts a loop; the store and the client outlive it.    *)

PollPanics ==
    /\ Mishap
    /\ poll' = "fetch" /\ fetched' = {} /\ new_obs' = {}
    /\ UNCHANGED <<vtnVars, obligations, created, reporterVars, planVars>>

ReporterPanics ==
    /\ Mishap
    /\ Fails
    /\ UNCHANGED <<vtnVars, obligations, pollVars, report_ids, planVars>>

-----------------------------------------------------------------------------

PollStep ==
    FetchEvents \/ ExtractReportObligations \/ AddObligations \/ RetireObligations

ReporterStep ==
    \/ AnyObligationDue \/ DueObligations \/ BuildReport
    \/ PutAccepted \/ PutRejected \/ PutFails
    \/ PostCreated \/ PostConflict \/ PostNotFound \/ PostFails
    \/ SubmissionRefused
    \/ LookupFinds \/ LookupFindsNone \/ LookupFails
    \/ UpdateAccepted \/ UpdateNotFound \/ UpdateFails
    \/ RearmObligation \/ RemoveObligation

AdoptionStep == \E a \in DOMAIN announcing : ReadForecasts(a) \/ RearmForecast(a)

Environment ==
    \/ \E e \in Events : EventChanges(e)
    \/ \E s \in Slots : ReportDropped(s) \/ ComesDue(s) \/ VtnRefuses(s) \/ VtnAccepts(s)
    \/ \E o \in Objectives : AdoptPlan(o)
    \/ PollPanics \/ ReporterPanics

Next == PollStep \/ ReporterStep \/ AdoptionStep \/ Environment

Spec == Init /\ [][Next]_vars

\* The supervisor keeps the loops going and time passes.  What goes wrong does
\* so MaxSurprises times at most: the VTN answers again after its last outage.
FairSpec ==
    /\ Spec
    /\ WF_vars(PollStep) /\ WF_vars(ReporterStep) /\ WF_vars(AdoptionStep)
    /\ \A s \in Slots : WF_vars(ComesDue(s))

-----------------------------------------------------------------------------
(* Properties                                                              *)

\* A slot never has two obligations, so no report is submitted twice per cadence, although
\* the poll reads the store, extracts and adds in three steps with removals and restarts
\* between them (extract_report_obligations, add_obligations).
OneObligationPerSlot ==
    \A o, p \in obligations : o.slot = p.slot => o = p

\* When a poll is done the VEN owes reports on listed events only: no
\* submission under way brings a retired obligation back
\* (retire_obligations_not_in, rearm_obligation).
OnlyListedAreOwed ==
    poll = "retired" => \A o \in obligations : EventOf[o.slot] \in fetched

\* A report is taken for submitted only if the VTN holds it as it was built,
\* under the id the client remembers, whatever ids went stale and whatever
\* answers were lost (upsert_report).
SubmittedIsStored ==
    [][ reporter # "rearm" /\ reporter' = "rearm" =>
            /\ reports'[ob.slot].body = body
            /\ reports'[ob.slot].id = report_ids'[ob.slot] ]_vars

IsDue(s) == \E o \in obligations : o.slot = s /\ o.due

\* As long as the VTN refuses no report for good, what is due is dealt with: no
\* due obligation waits forever behind another one that failed, or for data
\* that does not come (check_and_report).
DueIsDealtWith ==
    \A s \in Slots : []<>(refused = {} => ~IsDue(s))

\* The VTN's forecast for the slot is not that of the plan in force.
OutOfDate(s) ==
    /\ active_plan # "none" /\ reports[s].body # active_plan
    /\ event[EventOf[s]] = "active" /\ refused = {}

\* The VTN's ad hoc forecast does not stay that of an older plan, or missing, while its
\* event is active and no report is refused: the announcement of the adoption
\* brings the new one or, where a report built on the older plan swallows it, the next
\* cadence (rearm_ad_hoc_forecasts_on_adoption, check_and_report, upsert_report).
ForecastReachesVtn == \A s \in Forecasts : []<>~OutOfDate(s)

\* "VEN MUST submit reports for any active reportDescriptor obligation"
\* (docs/REQUIREMENTS.md:380).  A report the VTN refuses for another reason than a
\* source that is gone ends every pass (services/obligation.rs:170), and what is due
\* after it in the store is never submitted: TLC refutes this.
RefusedHoldsUpNone ==
    \A s \in Slots : []<>(s \notin refused => ~IsDue(s))

\* Claimed by tasks/planning/cycle.rs: the VTN's ad hoc forecasts are due at
\* once when the objective changed.  With no announcement and no report under
\* way, a forecast of another objective is due.
AdoptionMakesForecastDue ==
    reporter = "wait" /\ announcing = [a \in {} |-> {}] =>
        \A o \in obligations :
            o.slot \in Forecasts /\ reports[o.slot] # NoReport
                /\ reports[o.slot].body # active_plan => o.due

=============================================================================
