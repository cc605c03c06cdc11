--------------------------- MODULE FleetObjective ---------------------------
(***************************************************************************)
(* The objective command of one VEN, from the fleet page to the objective  *)
(* in force and back: the BFF's commands (VTN/bff/src/fleet_command.rs,    *)
(* routes/fleet.rs, fleet.rs), the retained messages on the lab broker,    *)
(* the VEN's MQTT client (fleet_telemetry.rs), its command task            *)
(* (tasks/fleet_command.rs) and the one setter of the objective            *)
(* (services/objective.rs).  VENs share only the order in which a fleet-   *)
(* wide switch visits them, so one VEN stands for all.                     *)
(*                                                                         *)
(* Both MQTT clients hand their requests to a bounded queue that only      *)
(* their own event loop drains, while it is connected.  Sessions are       *)
(* clean: what was queued when the connection broke is gone, and so is the *)
(* subscription.  The broker keeps the last message of a topic, an empty   *)
(* one clears it, and a subscriber is sent what the broker keeps.          *)
(***************************************************************************)
EXTENDS Integers, Sequences, Bags

CONSTANTS
    Objectives,      \* the objectives commanded, and set on the VEN UI
    Profile,         \* the profile's planner.objective
    RequestQueue,    \* capacity of the VEN client's request queue (32)
    CommandQueue,    \* COMMAND_QUEUE: commands waiting for their task (8)
    BffQueue,        \* capacity of the BFF client's request queue (128)
    MaxCommands,     \* bound: commands and releases asked of the BFF
    MaxEvents        \* bound: local changes, telemetry samples that occupy the
                     \* request queue, broken connections, restarts of the VEN

ASSUME FleetAssumption == CommandQueue \in Nat \ {0}

VARIABLES
    command,       \* the broker's retained command/objective
    leaf,          \* the broker's retained objective leaf
    setting,       \* ObjectiveSetting: the objective in force
    latest,        \* LatestLeaves: what is re-sent on a connect
    changing,      \* settings written and not yet handed to the publisher
    publishing,    \* a bag: the detached tasks that will queue a leaf
    requests,      \* the VEN client's request queue
    link,          \* the VEN's connection and its subscription
    commands,      \* the payloads the command task has yet to receive
    task,          \* the command task: its step, payload and target
    lastApplied,   \* requested_at of the last command applied
    missed,        \* history: the last message of command/objective was not queued
    bff,           \* the BFF's connection: down, connected, subscribed
    bffRequests,   \* the BFF client's request queue
    sweep,         \* what fleet-wide switches under way have yet to send here
    view,          \* VenLiveState: whether the VEN has declared its objectives, and
                   \* the command the fleet page shows
    clock,         \* orders requested_at and set_at
    used           \* how much of each bound is used up

venVars == <<setting, latest, changing, publishing, requests, link, commands, task, lastApplied>>
bffVars == <<bff, bffRequests, sweep, view>>
vars == <<command, leaf, venVars, missed, bffVars, clock, used>>

-----------------------------------------------------------------------------

None == [kind |-> "none", objective |-> Profile, at |-> 0]

\* A body of command/objective: an ObjectiveCommand, or the empty payload.
Command(o, at) == [kind |-> "command", objective |-> o, at |-> at]
Release == [kind |-> "release", objective |-> Profile, at |-> 0]

\* ObjectiveSetting: `at` is set_at, 0 at start-up.
Setting(o, source, at) == [kind |-> source, objective |-> o, at |-> at]
FromProfile == Setting(Profile, "profile", 0)

LeafRequest(s) == [what |-> "leaf", body |-> s]
SubscribeRequest == [what |-> "subscribe", body |-> None]
SampleRequest == [what |-> "sample", body |-> None]
CommandRequest(c) == [what |-> "command", body |-> c]

Idle == [step |-> "recv", payload |-> None, source |-> "none", objective |-> Profile]

Spends(bound, max) == used[bound] < max /\ used' = [used EXCEPT ![bound] = @ + 1]

\* spawn_fleet_commands publishes the start-up setting.
Init ==
    /\ command = None /\ leaf = None
    /\ setting = FromProfile /\ latest = FromProfile
    /\ changing = {} /\ publishing = SetToBag({FromProfile})
    /\ requests = << >> /\ commands = << >> /\ link = "down"
    /\ task = Idle /\ lastApplied = 0 /\ missed = TRUE
    /\ bff = "down" /\ bffRequests = << >> /\ sweep = {}
    /\ view = [declared |-> FALSE, command |-> None]
    /\ clock = 0
    /\ used = [bound \in {"commands", "events"} |-> 0]

-----------------------------------------------------------------------------
(* The broker.                                                             *)

\* Mutant: the command queue has no limit.
HearsAll(payload) ==
    IF link = "subscribed"
    THEN commands' = Append(commands, payload) /\ missed' = FALSE
    ELSE UNCHANGED commands /\ missed' = TRUE

\* What the event loop does with a payload: try_send to the command task.
Hears(payload) ==
    IF link = "subscribed" /\ Len(commands) < CommandQueue
    THEN commands' = Append(commands, payload) /\ missed' = FALSE
    ELSE UNCHANGED commands /\ missed' = TRUE

\* apply_message: the fleet page's copy of the two leaves.
Shown(v, c) == [v EXCEPT !.command = IF c.kind = "release" THEN None ELSE c]

\* The BFF's publish reaches the broker, which keeps it and sends it to the
\* VEN and back to the BFF, as far as they are subscribed.
BrokerTakesCommand ==
    /\ bff \in {"subscribing", "subscribed"}
    /\ bffRequests # << >> /\ Head(bffRequests).what = "command"
    /\ LET c == Head(bffRequests).body IN
        /\ command' = IF c.kind = "release" THEN None ELSE c
        /\ Hears(c)
        /\ view' = IF bff = "subscribed" THEN Shown(view, c) ELSE view
    /\ bffRequests' = Tail(bffRequests)
    /\ UNCHANGED <<leaf, setting, latest, changing, publishing, requests, link, task,
                   lastApplied, bff, sweep, clock, used>>

\* A leaf or sample leaves the VEN's queue.
BrokerTakesLeaf ==
    /\ link # "down" /\ requests # << >> /\ Head(requests).what # "subscribe"
    /\ requests' = Tail(requests)
    /\ IF Head(requests).what = "leaf"
       THEN /\ leaf' = Head(requests).body
            /\ view' = [view EXCEPT !.declared = @ \/ bff = "subscribed"]
       ELSE UNCHANGED <<leaf, view>>
    /\ UNCHANGED <<command, setting, latest, changing, publishing, link, commands, task,
                   lastApplied, missed, bff, bffRequests, sweep, clock, used>>

\* The VEN's subscription: the broker sends the command it keeps, and nothing
\* when it keeps none.
BrokerTakesSubscription ==
    /\ link = "connected" /\ requests # << >> /\ Head(requests).what = "subscribe"
    /\ requests' = Tail(requests)
    /\ link' = "subscribed"
    /\ IF command # None /\ Len(commands) < CommandQueue
       THEN commands' = Append(commands, command) /\ missed' = FALSE
       ELSE UNCHANGED <<commands, missed>>
    /\ UNCHANGED <<command, leaf, setting, latest, changing, publishing, task, lastApplied,
                   bffVars, clock, used>>

-----------------------------------------------------------------------------
(* The VEN's client.                                                       *)

Room == Len(requests) < RequestQueue

\* ConnAck: subscribe without waiting, which fails when the queue is full,
\* and re-send the newest objective from a task of its own.
VenConnects ==
    /\ link = "down"
    /\ link' = "connected"
    /\ requests' = IF Room THEN Append(requests, SubscribeRequest) ELSE requests
    /\ publishing' = publishing (+) SetToBag({latest})
    /\ UNCHANGED <<command, leaf, setting, latest, changing, commands, task, lastApplied,
                   missed, bffVars, clock, used>>

\* The connection breaks; the queued requests go with it.
VenLosesConnection ==
    /\ link # "down" /\ Spends("events", MaxEvents)
    /\ link' = "down" /\ requests' = << >>
    /\ UNCHANGED <<command, leaf, setting, latest, changing, publishing, commands, task,
                   lastApplied, missed, bffVars, clock>>

\* publish_telemetry waits for room while the broker is away.
PublishTelemetry ==
    /\ link = "down" /\ Room /\ Spends("events", MaxEvents)
    /\ requests' = Append(requests, SampleRequest)
    /\ UNCHANGED <<command, leaf, setting, latest, changing, publishing, link, commands, task,
                   lastApplied, missed, bffVars, clock>>

\* try_publish_retained, in any order of the detached tasks; a full queue
\* drops the leaf.
PublishLeaf(s) ==
    /\ BagIn(s, publishing)
    /\ publishing' = publishing (-) SetToBag({s})
    /\ requests' = IF Room THEN Append(requests, LeafRequest(s)) ELSE requests
    /\ UNCHANGED <<command, leaf, setting, latest, changing, link, commands, task, lastApplied,
                   missed, bffVars, clock, used>>

-----------------------------------------------------------------------------
(* The objective in force.  set_objective writes it under the lock, then   *)
(* publishes the copy it took, then triggers a replan (PollPlan).          *)

Sets(o, source) ==
    /\ clock' = clock + 1
    /\ setting' = Setting(o, source, clock')
    /\ changing' = changing \cup {setting'}

\* put_plan_objective
SetLocally(o) ==
    /\ Spends("events", MaxEvents)
    /\ Sets(o, "ven_ui")
    /\ UNCHANGED <<command, leaf, latest, publishing, requests, link, commands, task,
                   lastApplied, missed, bffVars>>

\* publish_objective: remember the newest, queue it from a detached task.
PublishObjective(s) ==
    /\ s \in changing
    /\ changing' = changing \ {s}
    /\ latest' = s
    /\ publishing' = publishing (+) SetToBag({s})
    /\ task' = IF task.step = "publish" /\ s.kind # "ven_ui" THEN Idle ELSE task
    /\ UNCHANGED <<command, leaf, setting, requests, link, commands, lastApplied, missed,
                   bffVars, clock, used>>

\* Mutant: every command received is new.
EveryCommand(c) == TRUE

\* Mutant: a command is told from a redelivery by its objective.
NewObjective(c) == c.objective # setting.objective

\* decide_fleet_command tells a redelivery by its requested_at.
New(c) == c.at # lastApplied

\* Mutant: an empty payload is taken for no command at all.
NeverReverts(s) == FALSE

\* ... and carries a withdrawal out while the fleet's objective is in force.
Reverts(s) == s.kind = "fleet"

\* recv, the copy of the setting, the decision, and the memory of it.
ReceiveCommand ==
    /\ task.step = "recv" /\ commands # << >>
    /\ commands' = Tail(commands)
    /\ LET c == Head(commands) IN
        \/ /\ c.kind = "command" /\ New(c)
           /\ lastApplied' = c.at
           /\ task' = [step |-> "set", payload |-> c, source |-> "fleet", objective |-> c.objective]
        \/ /\ c.kind = "release" /\ Reverts(setting)
           /\ task' = [step |-> "set", payload |-> c, source |-> "profile", objective |-> Profile]
           /\ UNCHANGED lastApplied
        \/ /\ \/ c.kind = "command" /\ ~New(c)
              \/ c.kind = "release" /\ ~Reverts(setting)
           /\ UNCHANGED <<task, lastApplied>>
    /\ UNCHANGED <<command, leaf, setting, latest, changing, publishing, requests, link,
                   missed, bffVars, clock, used>>

\* set_objective's write, for the command received.
CarryOut ==
    /\ task.step = "set"
    /\ Sets(task.objective, task.source)
    /\ task' = [task EXCEPT !.step = "publish"]
    /\ UNCHANGED <<command, leaf, latest, publishing, requests, link, commands, lastApplied,
                   missed, bffVars, used>>

\* The process ends and starts again: the setting is the profile's.
VenRestarts ==
    /\ Spends("events", MaxEvents)
    /\ setting' = FromProfile /\ latest' = FromProfile
    /\ changing' = {} /\ publishing' = SetToBag({FromProfile})
    /\ requests' = << >> /\ commands' = << >> /\ link' = "down"
    /\ task' = Idle /\ lastApplied' = 0 /\ missed' = TRUE
    /\ UNCHANGED <<command, leaf, bffVars, clock>>

-----------------------------------------------------------------------------
(* The BFF.                                                                *)

BffRoom == Len(bffRequests) < BffQueue

\* validate: the VEN has published the objectives it accepts; a release is
\* always valid.
Valid(payload) == payload.kind = "release" \/ view.declared

Payloads(at) == { Command(o, at) : o \in Objectives } \cup {Release}

\* put_ven_objective; a full queue is a 503 and no change.
CommandVen(payload) ==
    /\ Valid(payload) /\ BffRoom
    /\ Spends("commands", MaxCommands)
    /\ clock' = clock + 1
    /\ bffRequests' = Append(bffRequests, CommandRequest(payload))
    /\ UNCHANGED <<command, leaf, venVars, missed, bff, sweep, view>>

\* put_fleet_objective: the switch of every VEN has started.
CommandFleet(payload) ==
    /\ Valid(payload)
    /\ Spends("commands", MaxCommands)
    /\ sweep' = sweep \cup {[payload EXCEPT !.at = 0]}
    /\ UNCHANGED <<command, leaf, venVars, missed, bff, bffRequests, view, clock>>

\* command_fleet comes to this VEN and stamps the command now.
SweepArrives(payload) ==
    /\ payload \in sweep
    /\ sweep' = sweep \ {payload}
    /\ clock' = clock + 1
    /\ bffRequests' =
        IF ~BffRoom THEN bffRequests
        ELSE Append(bffRequests, CommandRequest(
                IF payload.kind = "release" THEN payload ELSE [payload EXCEPT !.at = clock']))
    /\ UNCHANGED <<command, leaf, venVars, missed, bff, view, used>>

BffConnects ==
    /\ bff = "down" /\ bff' = "connected"
    /\ UNCHANGED <<command, leaf, venVars, missed, bffRequests, sweep, view, clock, used>>

\* The ConnAck handler waits for room in the queue that only it drains.
BffSubscribes ==
    /\ bff = "connected" /\ BffRoom
    /\ bff' = "subscribing"
    /\ bffRequests' = Append(bffRequests, SubscribeRequest)
    /\ UNCHANGED <<command, leaf, venVars, missed, sweep, view, clock, used>>

\* The subscription takes effect; what the broker keeps arrives.
BrokerTakesBffSubscription ==
    /\ bff = "subscribing" /\ bffRequests # << >> /\ Head(bffRequests).what = "subscribe"
    /\ bff' = "subscribed"
    /\ bffRequests' = Tail(bffRequests)
    /\ view' = [declared |-> view.declared \/ leaf # None,
                command |-> IF command = None THEN view.command ELSE command]
    /\ UNCHANGED <<command, leaf, venVars, missed, sweep, clock, used>>

BffLosesConnection ==
    /\ bff \in {"subscribing", "subscribed"} /\ Spends("events", MaxEvents)
    /\ bff' = "down" /\ bffRequests' = << >>
    /\ UNCHANGED <<command, leaf, venVars, missed, sweep, view, clock>>

-----------------------------------------------------------------------------

VenNext ==
    \/ BrokerTakesLeaf \/ BrokerTakesSubscription
    \/ VenConnects \/ VenLosesConnection \/ PublishTelemetry
    \/ \E s \in BagToSet(publishing) : PublishLeaf(s)
    \/ \E o \in Objectives : SetLocally(o)
    \/ \E s \in changing : PublishObjective(s)
    \/ ReceiveCommand \/ CarryOut \/ VenRestarts

BffNext ==
    \/ BrokerTakesCommand
    \/ \E payload \in Payloads(clock + 1) : CommandVen(payload)
    \/ \E payload \in Payloads(0) : CommandFleet(payload)
    \/ \E payload \in sweep : SweepArrives(payload)
    \/ BffConnects \/ BffSubscribes \/ BrokerTakesBffSubscription \/ BffLosesConnection

Next == VenNext \/ BffNext

Spec == Init /\ [][Next]_vars

\* The tasks and event loops run, both clients reconnect on their own, and
\* the broker answers.  Nobody need command, change or break anything.
Fairness ==
    /\ WF_vars(VenConnects) /\ WF_vars(BrokerTakesLeaf) /\ WF_vars(BrokerTakesSubscription)
    /\ WF_vars(ReceiveCommand) /\ WF_vars(CarryOut)
    /\ WF_vars(\E s \in changing : PublishObjective(s))
    /\ WF_vars(\E s \in BagToSet(publishing) : PublishLeaf(s))
    /\ WF_vars(BffConnects) /\ WF_vars(BffSubscribes) /\ WF_vars(BrokerTakesBffSubscription)
    /\ WF_vars(BrokerTakesCommand)
    /\ WF_vars(\E payload \in sweep : SweepArrives(payload))

FairSpec == Spec /\ Fairness

-----------------------------------------------------------------------------

ObjectiveSetting ==
    [kind : {"profile", "ven_ui", "fleet"}, objective : Objectives \cup {Profile}, at : Nat]

Payload == [kind : {"command", "release"}, objective : Objectives \cup {Profile}, at : Nat]

TypeOK ==
    /\ command = None \/ (command \in Payload /\ command.kind = "command")
    /\ leaf \in ObjectiveSetting \cup {None}
    /\ setting \in ObjectiveSetting /\ latest \in ObjectiveSetting
    /\ changing \subseteq ObjectiveSetting
    /\ link \in {"down", "connected", "subscribed"}
    /\ commands \in Seq(Payload)
    /\ Len(commands) <= CommandQueue
    /\ task.step \in {"recv", "set", "publish"} /\ task.objective \in Objectives \cup {Profile}
    /\ lastApplied \in Nat /\ clock \in Nat /\ missed \in BOOLEAN
    /\ bff \in {"down", "connected", "subscribing", "subscribed"}

\* Once the VEN has been given the broker's last word on its command (no
\* drop, no missed message) and its task has nothing left to do, it has
\* applied exactly that: the retained command, or after a withdrawal
\* anything but a fleet objective.  Whatever was redelivered, restarted,
\* reconnected or changed locally in between.
AtRestFollowsBroker ==
    ~missed /\ commands = << >> /\ task.step # "set" =>
        IF command = None THEN setting.kind # "fleet" ELSE lastApplied = command.at

\* Within one life of the process every command carried out is newer than
\* those before it: a redelivery, or a command that waited in a queue, never
\* puts an older one back and so never undoes a local change made since.
NeverAppliesAnOldCommand ==
    [][task.step = "recv" /\ task'.step = "set" /\ task'.source = "fleet"
        => task'.payload.at > lastApplied]_vars

\* A command that reached the VEN's queue is applied, unless a newer message
\* takes its place or the VEN loses it.
QueuedCommandIsApplied ==
    (~missed /\ command # None) ~>
        (missed \/ command = None \/ lastApplied = command.at)


-----------------------------------------------------------------------------
(* What the texts promise and the code does not keep.                      *)

\* "Subscribe on every (re)connect" (VTN/bff/src/fleet.rs:261): the handler
\* waits for room in a queue that nobody drains while it waits.
BffSubscribesAgain == bff = "connected" ~> bff # "connected"

\* "Release ... withdraws the command and each VEN returns to its profile
\* objective" (docs/use-cases/SYSTEM-USE-CASES.md:401).  A withdrawal the
\* VEN was not connected for is never told to it.
WithdrawnCommandEnds ==
    (command = None /\ setting.kind = "fleet") ~> (command # None \/ setting.kind # "fleet")

\* "A clean session forgets subscriptions, so this too runs on every
\* connect; a retained command arrives right after it" (fleet_telemetry.rs).
\* After an outage that filled the request queue the subscription fails.
SubscribesOnConnect == link = "connected" ~> link # "connected"

\* "A change made on the VEN UI afterwards stays" (SYSTEM-USE-CASES.md:402).
\* A withdrawal decided on a copy of the setting reverts it.
LocalChangeStays ==
    [][setting' # setting /\ setting'.kind = "profile" /\ setting'.at # 0
        => setting.kind # "ven_ui"]_vars

\* "None once released" (VTN/bff/src/fleet.rs:41): a release queued while the
\* BFF was away clears the message before the BFF has subscribed.
CommandShownIsTheBrokers ==
    <>[](bff = "subscribed") => []<>(view.command = command)

\* The objective leaf shows the objective in force "at start-up, on every
\* change, re-sent on every connect" (phase-0-foundation.md:248): detached
\* tasks and concurrent setters publish out of order.
ReportedIsInForce == <>[](link = "subscribed") => []<>(leaf = setting)

=============================================================================
