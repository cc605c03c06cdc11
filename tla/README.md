# OpenADR-Lab in TLA+

OpenADR-Lab runs an OpenADR 3.1 laboratory: a VTN that publishes events, a fleet
of VENs that plan and dispatch batteries, chargers, heaters and loads of a site
under those events, and the services around them. This directory holds
TLA+ modules of the parts whose correctness depends on interleavings, failures
and ordering, TLC configurations that check them on small instances, and proofs
of their main properties for every instance.

    tlc -config MCPollPlanFollow.cfg MCPollPlan      # a run; all are listed below
    tlapm PollPlanProofs.tla                         # the proofs of a module

Contents: 1 inventory; 2 what is hard; 3 the modules; 4 the runs; 5 fairness;
6 proofs; 7 where code and text disagree; 8 what is not modelled; 9 plan.

## 1. Inventory

| component | state | operations | talks to | correct when |
|---|---|---|---|---|
| **VTN** (openleadr-rs, external) | events, reports, programs, VENs | HTTP collections | VEN, BFF | (environment) |
| **VEN event poll** `tasks/poll_events`, `poll_signals` | events, capacity picture and signals of the last poll (task locals) | fetch, detect changes, write rates, limits, alerts, SIMPLE levels, dispatches; send triggers; extract, add and retire obligations | VTN; `AppState`; trigger channel | what it leaves in `AppState` is what it fetched; every change the planner must answer is announced after it is stored |
| **VEN event interpretation** `lab-core` `event_timing`, `event_priority`; `rate_schedule`, `openadr_interface`; `entities/capacity` | none of its own: the schedules and windows `AppState` keeps | time, repeat, delay and rank intervals; look values up; cap a plan's slots | event poll; tick; planner | every reader gets the value of the event that ranks highest at that instant; a plan's caps keep every limit |
| **VEN planning loop** `tasks/planning`, `services/planning` | plan in force, time of last adoption | hold a rate change, read inputs, solve, acceptance gate, adopt | trigger channel; `AppState`; solver; obligations | the plan in force answers the signals and the objective in force; no solved plan is lost to a failed solve |
| **Fleet objective command** BFF `fleet_command`, `routes/fleet`; VEN `fleet_telemetry`, `tasks/fleet_command`, `services/objective` | retained command and leaf on the broker, both MQTT clients' queues, objective in force, last command applied | command or release one VEN or the fleet, set locally, redeliver, reconnect, restart | planner; MQTT broker | a VEN at rest follows the broker's last word; redelivery never undoes a later local change |
| **VEN user requests** `services/request_submission`, `user_request`; `state/user_requests` | listed requests, sessions, targets, accepted loads | submit, displace, cancel, complete, settle, prune | tick, planner, simulator roster | a session and its request begin and end together |
| **VEN EV session queue** `entities/device_session` | one EV's charging sessions, a sorted vector | insert, replace, remove, expire, look up | handlers, tick, planner | windows never overlap; lookups agree |
| **VEN report obligations** `services/obligation`, `tasks/obligation`, `state/obligations` | obligations with due times | extract, re-arm, retire, submit, make due on adoption | event poll; planner; VTN | one obligation per report, all of them eventually submitted, none for events that are gone |
| **VEN VTN client** `vtn.rs`, `vtn_reports.rs`, `lab-core/vtn_auth` | token, report ids by name | authorised request with one retry; upsert a report | VTN | a report counts as sent only if the VTN holds it |
| **VEN report contents** `controller/report_*` | intervals each report carried | accumulate, bound, renumber, drop stale | obligations | no interval twice, the newest kept |
| **VEN simulator tick** `tasks/sim_tick`, `simulator` | asset roster and physics | tick once per second; plan trips ahead; publish, settle | user requests, arbiter, dispatcher | loads run before they are completed |
| **VEN arbiter, dispatcher** `controller/arbiter`, `dispatcher`, `comms_loss` | last commands, levers at the head, lag bridge, generation limit | correct deviations, meet dispatch windows, clamp on comms loss, enforce the import limit | tick, planner | the limit in force is kept or the shortfall reported; a correction ends with its cause |
| **VEN reliability** `tasks/backoff`, `tasks/mod`, `state/connection`, `controller/comms_loss` (debounce) | connection status, back-off | supervise and restart tasks, back off, curtail on comms loss | all tasks | a task that ends comes back; one failed poll curtails nothing |
| **VEN notifications** `services/notify` | ring, broadcast, history | notify with a deduplication window | all | one entry per key and window |
| **VEN persistence, history, heuristics** | state file, SQLite tables, learned baselines | write every 15 s, sample, prune daily | all | a restart restores what was written |
| **VEN feeds and telemetry** `weather`, `measurement`, `forecast_feed`, `fleet_telemetry` | newest message of each | subscribe, publish | MQTT | stale data is not used as fresh |
| **VEN routes, profile, boot, UI** | - | HTTP views and commands | browser | - |
| **BFF** `VTN/bff` | TTL cache, live fleet state, recorder tables | proxy, archive, ingest telemetry, command the fleet | VTN, MQTT, Postgres, VTN UI | what is dropped is counted; a command reaches the VENs that accept it |
| **forecaster** and `lab-forecast` | weather, measurement, snow state, learned load | recompute, publish retained series | MQTT | one producer per site |
| **CI locks** `ci/locks` | a lock directory with a claim | acquire, steal, refresh, release, give up | sessions over ssh | one holder at a time while leases are kept; a dead session's lock is handed on |
| **CI** `lanes`, `runner`, `deploy` | queues | run, deploy | ssh, docker | - |
| **experiments, scripts** | - | batch runs | a running lab | - |

A VEN is one process. Its tasks (`poll_programs`, `poll_events`, `poll_reports`,
`sim_tick`, `obligation_check`, `planning`, `state_persist`, `history_sampler`,
`base_load_window`, `heuristics_job`) are started by `supervised_spawn`, which
waits for the task's end (return or panic), sleeps a cool-down and starts it
anew. HTTP handlers and spawned one-off tasks run beside them. They share
`AppState`, a struct of separate read-write locks; no guard is held across
another acquisition or across a network call, so a handler is a sequence of
short critical sections. The planner is woken through a `tokio` watch channel,
which keeps one value.

## 2. What is hard here

* **Many short critical sections.** A submission takes four, a poll nine, a
  planning cycle seven. Almost every invariant relates state behind two of them.
* **A one-place trigger channel.** Many senders, one receiver; a newer
  trigger replaces an unseen one, and the kind of trigger decides whether
  the gate may turn a plan away and whether a hold applies.
* **Restarts that keep half of the state.** A panic loses a task's locals and
  keeps `AppState`. What the poll remembers having applied is a local; what it
  applied is not.
* **At-least-once reports.** An answer can be lost after the VTN stored the
  report, remembered ids go stale, names conflict.
* **Control loops that feed on themselves.** Each tick judges its correction by a
  measurement the correction changed, with a charger that answers a tick late,
  a heater that answers in steps and three passes that each move what the one
  before commanded.
* **Retained messages and bounded queues.** The broker repeats the last command to
  whoever subscribes, says nothing of one withdrawn, and both clients drop or
  wait when their queue is full.
* **Locks made of files.** A lock directory and the claim in it are made, read and
  removed in separate steps, against a clock read when the script started.
* **Snapshots compared with live lists.** The tick takes a snapshot under the
  simulator lock and draws conclusions under the hems lock.

`PROJECT.json` lists each hazard with its line and the properties aimed at it.

## 3. The modules

| module | models | state and actions |
|---|---|---|
| `EvCalendar` | what one EV's session queue promises | a set of bookings; book (displacing exactly the clashes), release, depart |
| `EvSessionQueue` | `entities/device_session.rs`, `EvSessionQueue` | the vector; `Insert`, `Replace`, `Remove`, `Expire`, each computed on positions as the code does; implements `EvCalendar` |
| `UserRequests` | submission, cancellation, tick, planner reads | one program counter per submission and cancellation, one for the tick, one for the planner; the EV sessions of every EV implement `EvCalendar` (one instance per EV) |
| `PollPlan` | event poll, `AppState` signals, trigger channel, planning loop, gate, restarts | one action per step between awaits on shared state |
| `ReportObligations` | obligation store, obligation check, report upsert, adoption tasks, VTN reports | one action per store access and one per answer of the VTN |
| `FleetObjective` | the fleet's objective command from the BFF to the objective in force and back | the broker's two retained topics, a queue per client, the command task's step; an action per publish, subscription, connect, loss, restart and step of the setter |
| `LeaseLock` | `ci/locks/lib`, run by several sessions | the directory and the claim in it; an action per line of the script that touches them |
| `ArbiterLevers` | what each asset answers to a setpoint; candidates, ranking and the lever loop of every pass | operators and functions of a snapshot, no state |
| `Arbiter` | one VEN's tick as a control loop around `ArbiterLevers` | `Tick` is `tick_once` under the simulator's lock, from the plan's setpoints to the physics; `Change` moves one input of the world between two ticks |
| `EventSchedule` | what the listed events mean: timing, repetition, ranking, lookups, import caps of a plan's slots | what a poll stores, recomputed from the whole list by `PollAnnounced` and `PollWithdrawn`; the clock; functions of these for every reader |
| `EvSessionQueueProofs` (the calendar's theorems too), `UserRequestsProofs`, `PollPlanProofs`, `ReportObligationsProofs`, `FleetObjectiveProofs`, `LeaseLockProofs`, `ArbiterProofs`, `EventScheduleProofs` | theorems | section 6 |
| `MC...` | instances for TLC | section 4 |

Composition: `EvCalendar` is the abstract specification that both `EvSessionQueue`
(the data structure) and `UserRequests` (all its callers) implement.
`UserRequests`, `PollPlan` and `ReportObligations` meet at the planning loop:
`UserRequests` sees it as a reader of sessions woken by the channel, `PollPlan`
models it in full, and `ReportObligations` sees its adoptions. `FleetObjective`
ends where the setter triggers a replan, which is `PollPlan`'s objective change;
`Arbiter` takes the plan, the limits and the windows that `PollPlan` leaves in
`AppState` as inputs that change between ticks. `EventSchedule` has the values of
the signals that `PollPlan` treats as versions.

Conventions. An action is named after the function it models or the step of
it. A definition commented `Mutant:` before the action or operator it perverts
is a plausible bug in that code; it is used by no specification, and every
checked property has one that breaks it.

Abstractions, module by module:

* **EvSessionQueue.** Payload of a session (energy, comfort rates) is left out.
  `partition_point`, `position` and `partition` are modelled by what they return
  on the vector as it is, sorted or not.
* **UserRequests.** A request and the session it owns carry one id; what it asks
  for is a constant function of the id, so all constants together cover all
  request bodies. The EV sessions are a set here, justified by
  `QueueIsCalendar`. Body validation and cost estimates are left out: a refused
  submission changes nothing. The request status `Failed` is left out: nothing in the
  VEN's code sets it (`entities/user_request.rs:29`). Physics may start and finish any
  pending load in any tick. The planner is only what it reads of sessions.
* **PollPlan.** A reading of the event list maps each event to a version (0: not
  listed); the rates, limits or windows parsed from it are the part of it with
  that kind's events. A plan remembers the reading it was built on, its
  objective and whether it solved. The gate's cost comparison is a free choice
  wherever neither a rule that must adopt nor one that must reject decides;
  the adoption decay is a counter of rejected periodic plans. Parsing, the
  solver, the heater anchor and the residual baseline are left out. So are the
  programs: the poll reads payload units through their descriptors
  (`tasks/poll_events/mod.rs:44`), so that an edit of a program can change what an
  unedited event says. To every property that is another change of the event.
* **ReportObligations.** A slot is one report descriptor of one event and names
  one report. An obligation is due or not. What a report says is which plan it
  describes: the objective it was made under ("samples" for measurements). An
  adoption that keeps the objective announces nothing (`services/obligation.rs:34`), and
  the forecasts of two such plans are not told apart, so only adoptions that change
  it are steps. Each request has its outcomes: taken and answered, taken and the
  answer lost, refused, not sent. The VTN may come to refuse the reports of a slot
  (`refused`), until it takes them again or for good. One bound, `MaxSurprises`, holds
  for adoptions and mishaps together.

* **FleetObjective.** One VEN: the VENs share nothing but the order in which a
  fleet-wide switch visits them, so a sweep is a set of commands that arrive at
  this VEN at any time. A command is its objective and `requested_at`;
  telemetry samples are kept only as what fills the request queue.
  Malformed payloads are left out. A command gets its stamp and enters the BFF's
  request queue in one step. In the code nothing orders the two
  (`routes/fleet.rs:438` and `fleet_command.rs:151` read the clock, `fleet_command.rs:29`
  enqueues), so two requests of the same moment may be queued against the order of
  their stamps; `NeverAppliesAnOldCommand` and `AtRestFollowsBroker` are about commands
  that are queued in that order. A VEN whose last command met a full queue has `missed` it;
  `AtRestFollowsBroker` and `QueuedCommandIsApplied` speak of what was queued, so the
  drop itself (`fleet_telemetry.rs`, `try_send`) does not violate them.
* **LeaseLock.** Time is counted in leases' units and owners are sessions. The
  variable `punctual`, chosen once, marks the behaviours in which no lease runs
  out and no session dies; the steps themselves do not read it except to keep
  to it. The wrappers only say where the directory is.
* **ArbiterLevers, Arbiter.** Power is an integer number of 50 W units and prices
  are whole cents, so every constant of the code (0.1 kW dead band, 0.2 kW
  hysteresis, 1.4 kW least charging rate) is exact. One asset of each kind. The
  battery's store and the tank's temperature are classes that decide what the
  asset can answer. The tick's feed-back is exact: the commands carried over,
  the charger's pending command, the inverter's generation limit, the bridge and
  the incumbent levers. Left out: the opportunistic objective's own pass, the
  residual escalation to a replan, injections, V2G, export capacity and manual
  PV limits (`dispatcher.rs:112`), several assets of one kind, the switch that disables
  enforcement (`setpoints.rs:58`), and a tank at its safety ceiling `temp_safety_max_c`, above
  the comfort ceiling, at which the thermostat lets not even an emergency absorb
  (`heater_thermostat.rs:113`): the hottest class of the model can still take the heater's
  rating.
* **EventSchedule.** Times are integers, and so are all boundaries, so that what
  holds at every integer instant holds at every instant. A poll parses the whole
  list and keeps nothing of the one before, so one event announced or withdrawn
  per poll reaches every list. When polls and plans run is `PollPlan`'s matter: the
  slots here are those of a plan made now. The hash that spreads starts is a
  constant fraction per event, and every period that has a start is moved by that
  share of its own window. The windows of an event are a set in which each carries its
  round and its interval, in place of the vector they are pushed onto: the loop that
  pushes becomes the condition for a copy to be in it (`Copies`) and the cap on their
  number a count of the copies before it (`Kept`). The sorted list of events is
  likewise the place each event is sorted to (`Rank`). `Priority`'s order is the
  library's, hence external.
  Left out: the export direction (the import direction under other names), units
  (a refused payload is one the event does not carry), the blending of a price
  over a slot, and what the planner puts where its prices end (stale rates).
  Prices have two readers. `TariffAt` is `tariff_at`, which the tick and the history ask
  for now: nothing where no priced segment covers it. `PlannedTariff` is the planner's
  series (`TariffTimeSeries`), a step at the start of each segment that carries the
  type, held until the next one. `ScheduleIsRanked` speaks of each where the two
  should agree with the signals; where nothing is in force, between two priced
  segments, they do not agree with each other (`PlannerReadsTheRanked`, section 7).

  `ScheduleIsRanked` and `SlotCapsFollowSignals` compare this with `Asked` and
  `RankedValue`, which say what the declared events ask for at one instant without
  a list of expanded intervals, a segment or a sort: an interval starts at the
  nearest start written down before it plus the durations in between, a repetition is
  an instant taken back by whole rounds, and the winner is chosen by comparing two
  events. `CalendarAssumption` keeps the events to the calendar's own range (`chrono`
  stops at `MAX_UTC`) and the intervals of an event with a duration to the order of
  time; section 7 says what the code does with one that lists them otherwise.

## 4. The runs

| run | configuration | shows | states |
|---|---|---|---|
| `ev_session_queue` | `MCEvSessionQueue` | order, uniqueness and lookups of the queue; it implements the calendar | 424 |
| `requests_ev` | `MCUserRequestsEv` | two charging requests of one EV and a planned trip: calendar, joint ends, the planner hears of every change, passed sessions end | 0.34 M |
| `requests_targets` | `MCUserRequestsTargets` | a heater target replaced by a second one with pruning, or a load cancelled while the tick runs: ownership, a cancelled load never runs, passed targets end | 0.28 M |
| `requests_completed` | `MCUserRequestsCompleted` | *violation*: a load completed before it ran | - |
| `poll_plan_follow` | `MCPollPlanFollow` | price, limit, alert and dispatch, three changes, a planner restart: polls leave their whole reading, the resting plan is built on it | 2.1 M |
| `poll_plan_failures` | `MCPollPlanFailures` | failing solves, objective changes, poll restarts: regime, solved plans, what a restart misses, every signal gets through | 0.83 M |
| `report_obligations` | `MCReportObligations` | a forecast and a usage report of one event, plans under two objectives, any two of adoptions and mishaps (a report lost or refused, a failed request, a panic): uniqueness, retirement, honest bookkeeping of submissions; while the VTN refuses nothing for good, everything due gets out and an older plan's forecast is replaced | 0.66 M |
| `fleet_objective` | `MCFleetObjective` | two commands or releases, and two mishaps or local changes: a VEN at rest has applied the broker's last word, never an older command, and applies what it was given | 0.73 M |
| `fleet_release` | `MCFleetObjectiveRelease` | *violation*: a release the VEN was not connected for is never told to it | - |
| `lease_lock` | `MCLeaseLock` | two sessions that acquire, steal, refresh, release and die at any step: exclusion while leases are kept, and the lock of a dead session is handed on | 0.46 M |
| `arbiter` | `MCArbiter` | six plan slots with and without the deviation arbiter, three changes of the world between any two ticks: limit kept or shortfall reported, dispatch met, comms-loss bounds, a correction ends with its cause | 0.29 M |
| `event_schedule` | `MCEventSchedule` | every list of up to three of ten events, in every order, and at every instant a plan reaches: readers get the highest-ranked value in force (the planner's price series where there is one), a plan's caps follow the signals of each slot | 5,747 |

Bounds and why they are enough:

* `EvSessionQueue`: three sessions over six instants give queues with room
  before, between and after, touching windows, and candidates that clash with
  none, one or two sessions. The proofs cover the rest.
* `UserRequests`: kinds only meet in the planner's two reads and the tick's
  common settlement, so each run takes one kind; the EV run has a request that
  displaces another, one that displaces a trip, and windows that touch
  (`e2`, `t1`). `MaxTime = 2` lets each deadline pass while handlers are under
  way. `Retention = 1` with `FinishedKept = 0` or `1` makes pruning happen.
  `Advance` waits while a handler has yet to announce a cancellation whose
  retention has passed: milliseconds against days. Per request one submission
  and, after each refusal, another cancellation.
* `PollPlan`: `MaxChanges` bounds event edits, passing boundaries, objective
  changes and other senders' triggers together; three suffice for the longest
  scenario in the design (a change, an overwriting trigger, a change back).
  One event per kind: only the limits of several events would meet in one
  value, and they are a set. `Decay = 1`: the gate turns one plan away, then
  adopts. One panic of each task.
* `ReportObligations`: two slots of one event have everything that two slots
  can share (the pass, the event's end, a poll). `MaxSurprises = 2` lets two adoptions
  follow each other, so that the VTN holds, or is about to be sent, the forecast of a
  plan that is no longer in force; or one adoption and one mishap; or a lost answer
  followed by a lost report, a failure at each of two steps of one upsert, or a refused
  report and a restart.
* `requests_targets`: heater requests and loads share no state but the planner's
  reads and the settlement, so a constraint (`OneKind`) keeps one kind per
  behaviour. It cuts nothing off a behaviour of one kind, so that the liveness
  checked there holds of those.
* `FleetObjective`: queues of one place (two for the BFF) are full after one
  message. Two commands are what order, redelivery and withdrawal need; two
  events combine a local change with a lost connection, a sample that fills the
  queue, or a restart.
* `LeaseLock`: two sessions are the two sides of every race of the script; the
  clock runs to 5 with leases and grace of 2, long enough for a lease taken at
  the start to run out, be stolen and run out again.
* `Arbiter`: the site is `MCArbiter`'s header. Three changes reach, for instance,
  a limit and an alert over a plan that charges from a battery near its end. The
  classes of store and temperature move by one step at a time, and the plan's slots
  are chosen so that each lever is at some time the cheapest. The sixth slot (`Warm`)
  is met only in the world `Limited`, in which nothing but a hot heater is left to
  absorb with just below the limit. Dispatch windows ask for 0 and for 10 kW, either
  side of what the site draws. `TypeOK` bounds the commands by what the assets are
  rated for, and says how far the battery's may wind up beyond that. The sets `Slots`
  and `Loads` (a slot within its assets' ratings, a load that leaves `Unlimited`
  above all the site can import) are what the proofs assume of the inputs.
* `EventSchedule`: the ten events are a repeating pattern of two intervals, one cut by
  its event's duration, one with a gap, one without an end, one without a start,
  one delayed, one that changes type, level 1 followed by 2 and 0, an alert, and two
  setpoints that overlap. Three of them at once put a third event across the
  boundary of two others. The slots of 1, 4 and 5 units (the second longer than
  most intervals) meet windows that start, end and touch inside. `MaxLooped = 8`
  intervals of one unit outlast one horizon and run out within the clock's reach,
  so both sides of the code's cap are met; `Expanded` names it in the properties.

Deadlock checking is off for `report_obligations`, where the loops have nothing to
do once the event is over and its obligations are removed; for `fleet_*`, where a
VEN and a broker may come to rest; and for `lease_lock`, where the clock is
bounded and sessions may all have died. Elsewhere it is on.

## 5. Fairness

* `UserRequests`: weak fairness of the tick, of the planning loop (both
  supervised and periodic), of the clock, and of the remaining steps of every
  handler that has started. None for starting a submission or a cancellation.
* `PollPlan`, `FairSpec`: weak fairness of the planning loop only, enough
  because the property speaks of what `AppState` already holds. `SolverSpec`
  adds strong fairness of a successful solve: a solver that fails forever gets
  no signal into a plan, by design (`SolvedPlanStays`).
* `ReportObligations`: weak fairness of the three actors and of time (an
  obligation comes due). Nothing is assumed of single requests: what fails for a
  moment is bounded by `MaxSurprises`, so the liveness says "once the VTN has
  recovered". Nothing makes the VTN take a refused report again (`VtnAccepts` is not
  fair): `DueIsDealtWith` and `ForecastReachesVtn` promise nothing while one is refused, and
  `RefusedHoldsUpNone` (section 7) is about those that it holds up.

* `FleetObjective`: weak fairness of what the tasks and event loops do by
  themselves: connect, drain a queue, answer a subscription, receive and carry
  out, publish. None for commands, local changes, samples, lost connections and
  restarts.
* `LeaseLock`: weak fairness of a started script's steps, of trying again, and of
  the clock; none for starting an operation, giving up or dying.
* `Arbiter`: the tick runs on a timer (`spawn_sim_tick`) and awaits nothing that
  can be withheld for ever. It is stated on the tick's counter, weakly: the
  counter moves, and only `Tick` moves it.

All of it assumes that an HTTP request ends. `reqwest::Client::new()`
(`vtn.rs:168`) sets no timeout, so a peer that accepts and never answers stops
the task that asked; the supervisor does not see that.

## 6. Proofs

All theorems hold for every value of the constants that satisfies the named
assumptions of the module: any number of sessions, requests, events, slots,
objectives, and any bounds.

| theorem | statement |
|---|---|
| `EvSessionQueueProofs!CalendarIsTyped`, `CalendarHasNoOverlap` | the abstract calendar never holds two sessions that share an instant or an id |
| `EvSessionQueueProofs!TypeCorrect`, `QueueInOrder` | the vector is well-formed, sorted, free of overlaps and duplicates |
| `EvSessionQueueProofs!QueueIsCalendar` | the vector implements the calendar |
| `EvSessionQueueProofs!CurrentSession`, `UpcomingSession` | the lookups: the current session is the only one, the upcoming one departs first and is the current one if there is one |
| `UserRequestsProofs!TypeCorrect`, `SessionsHaveOwners`, `CancelledLoadsNeverRun`, `SessionsEndWithRequests` | type, ownership, cancelled loads, joint ends |
| `UserRequestsProofs!SessionsAreCalendars` | every EV's sessions implement the calendar, whoever writes them |
| `UserRequestsProofs!PlannerIsTold` | the planner never rests on sessions that changed since it read them |
| `PollPlanProofs!TypeCorrect` | type |
| `PollPlanProofs!FollowsGrid` | if solves succeed (`SolverFails = FALSE`) and the poll never panics (`MaxPollPanics = 0`), a VEN at rest has a plan built on the rates, limits and alerts in force, however often the planner is restarted |
| `PollPlanProofs!RegimeFollowsObjective` | a resting planner that has seen every trigger has a plan for the objective in force |
| `PollPlanProofs!SolvedPlanIsKept` | no solved plan is replaced by an unsolved one under one objective |
| `PollPlanProofs!RestartMissesRemovalsOnly` | a restarted poll misses at most signals whose last event was removed |
| `PollPlanProofs!PollLeavesWhatItFetched` | if the poll never panics (`MaxPollPanics = 0`), it leaves exactly what it fetched |
| `ReportObligationsProofs!TypeCorrect`, `OneObligationEach`, `OnlyListedOwed` | type; one obligation per slot; none of an event a finished poll dropped |
| `ReportObligationsProofs!SubmittedReportsAreStored` | a report taken for submitted is at the VTN as it was built, under the remembered id |
| `FleetObjectiveProofs!TypeCorrect`, `VenFollowsBroker`, `OnlyNewCommands` | types and queue limits; a VEN at rest has applied the broker's last word; in one life of the process only ever newer commands |
| `LeaseLockProofs!PunctualExclusion` | while leases are kept two sessions never both hold the lock |
| `ArbiterProofs!TypeCorrect` | the commands stay within the ratings, the battery's within one charger of it |
| `ArbiterProofs!FailSafeHolds` | while the VTN is lost no command leaves its asset's fail-safe range |
| `ArbiterProofs!LimitIsKept` | a tick that reports nothing unresolved ends at or below the import limit, but for four named cases |
| `ArbiterProofs!DispatchHolds` | a dispatch window is met within the dead band, or the battery is at the end of its range |
| `EventScheduleProofs!TypeCorrect` | stored segments last, do not overlap and carry their own types |
| `EventScheduleProofs!ReadersGetTheRanked` | the tick's price of now, and a capacity value at any instant of a plan, is the highest-ranked event's in force, or none; the planner's price series has that value wherever there is one |
| `EventScheduleProofs!CapsFollowSignals` | a slot's import cap is no looser than any instant of the slot allows, and tight only where something asks for it |

Arguments:

* **Queue.** The positions the methods compute are only right on a sorted vector
  without overlaps, so `IInv` is the type and that order. The work is in the
  lemmas on the vector: the insertion point exists and is unique in effect,
  inserting there, filtering and removing keep the order, and each changes the
  set of elements as the calendar's action does.
* **User requests.** `SessionHasOwner` is not inductive: to see that listing
  a request cannot happen twice, and that a cancellation that reaches
  `cancel_request` is for a load already out of the roster, `IInv` adds
  `ListedIsRecorded` (only a recorded submission's request is listed or being
  cancelled) and `ClearedHasLeft` (a load whose cancellation passed the roster
  is not in it). One lemma per conjunct, one step per action.
  `PlanKnowsSessions` adds two more: `AcceptedIsLoad`, and `UnannouncedIsListed`,
  that a cancellation still to be announced is listed as cancelled, so that the
  session it took away is accounted for until the planner hears of it. The
  latter rests on the handler being quicker than the retention of a finished
  request, which the clock's guard states.
* **Poll and plan.** `CycleServesObjective`: the plan a cycle works on serves
  the objective, or a trigger that the planner has not seen follows. `GridInv`
  relates, per kind of signal, what the poll remembers, what it fetched and what
  `AppState` holds, by how far the poll has come; a restart weakens
  "remembered is applied" to "remembered nothing".
  `FollowInv`, for `FollowsGrid`, is about debts: what a cycle has read so far
  (`CycleIsFresh`) and what the plan in force was built on (`PlanIsFresh`) agree
  with the grid, or a trigger is to come: unseen in the channel, or owed by the
  poll under way (`TriggerToCome`). The poll never writes a followed kind
  without owing one (`PollOwesTrigger`, from `KnownInv`), and a cycle that a
  trigger woke is never turned away by the gate, since every plan it sees is a
  solved one.
* **Obligations.** An obligation the poll has extracted and not yet added is
  untracked (`NewAreUntracked`): nothing but the poll adds, and removals only
  help. Re-arming by id never inserts, so what was retired stays retired.
  `SubmittedIsStored` follows step by step from the types: only three steps take
  a report for submitted, each with an obligation at hand. A slot the VTN refuses concerns none of the three: no step
  takes its report for submitted.

* **Fleet objective.** Both theorems rest on the order of commands along their
  way: the stamps in the BFF's queue, on the broker, in the VEN's queue and in
  its memory never fall (`Ordered`), and what the VEN was last given is what the
  end of its queue, its task or its memory says (`LastWord`).
* **Lease lock.** In a punctual behaviour a claim that some session holds by has a
  live lease, so a decision made on a mixed reading of owner and expiry is still
  right: `Kept` says which readings a session may carry at each step of its
  script and that at most one session is past the point where it was let in.
* **Arbiter, fail-safe.** A pass that sheds inside the fail-safe's bounds keeps them
  lever by lever: storage is clamped to a range that lies within them, the charger lands
  at or below what it is asked, and the heater's paused step is below its
  command, since a step in between would have been the nearer one. The nearest
  step exists because every set of naturals has a least element, which follows
  from the library's well-founded induction without an operator parameter. The
  loop is five turns, each of which keeps what holds before it (`LoopKeeps`); a due
  lever has one turn (`DueOnce`).
* **Arbiter, types.** What a lever answers is not bounded by its asset alone: the
  battery carries the share of a charger that lags. `Passed` says what a pass may have
  done after any of its turns: each command is left alone or within its range, and what
  was bridged and what still lags add up to what the charger owes, so that over five
  turns the bridge telescopes to one charger (`RankedLeversPass`, `Bridges`). The
  stages of a tick pass this on (`StagesAreRated`), and the invariant is `TypeOK` with
  the counter's type.
* **Arbiter, limit.** `Counted` is what the pass believes the site draws: base, sun
  and what each command counts for. One turn lowers it by at least what it takes off
  the budget (`LeverIsKept`: per lever, what is achieved is what the count falls by),
  so after the loop the count is at most the target plus what is left over
  (`RankedLeversShed`). What remains is that the count is what the assets draw:
  `HeaterDraws`, `BatteryDraws` and the charger's pending command, and where it is
  not, the four cases `KeepsTheLimit` excludes. The last stage, which holds the battery
  where commands land, only takes away (`BatteryStaysBelow`).
* **Arbiter, dispatch.** The window's pass admits storage only, so one lever has one turn
  (`StorageIsDueFirst`), in which it closes the deviation or stops at the end of its
  range (`StorageAnswersPass`). Without a limit the limit pass rests (`LimitRests`, for
  which `Loads` keeps every site below `Unlimited`), and the assets draw what was
  counted (`BatteryDelivers`, `HeaterDrawsAsCounted`).
* **Event schedule.** The invariant (`Stored`) is that everything stored is the parse of
  the listed events; the two properties are then facts about the parse, for any list.
  The durations written down and summed (`Elapsed`) and the chain of starts and ends
  (`BaseIntervals`) are recursive functions; that they have the values their recursion
  says follows by the least counterexample (`BaseUnrolls`, `ElapsedUnrolls`), and then
  that both put each interval at the same place (`BaseIsAsked`). Per event: a window of
  the expansion that covers an instant is an interval in force then, and each interval
  in force is one, unless the cap left its copy out (`AskedIsDue`, `DueIsCopy`,
  `DueIsCovered`, with `RoundsFillTheCap`: that the cap's count is reached only by rounds
  it may keep). Per list: the rank is the order of the events (`RankIsOrder`, counting
  what is below), neighbouring boundaries make segments that are disjoint
  (`SegmentsAreDisjoint`) and that meet every instant something covers
  (`SegmentExists`), and the topmost of what spans the segment is the highest of what
  asks at the instant (`WinnerIsRanked`). Per slot: an overlapping segment or window is
  in force at an instant of the slot (`OverlapIsInstant`), since every boundary is an
  integer and what is there lasts, and the cap is built from minima over these.

What the assumptions ask of the constants is what the code's types and its inputs
give: `ScheduleAssumption` has events with at least one interval, capacities that are not
negative and slots that follow one another; `CalendarAssumption` is explained in
section 3; the arbiter's assumptions are ratings, a step 0 among the heater's steps, and
worlds whose plan slots lie within the ratings.

Model-checked only: liveness (`PassedSessionsEnd`, `SignalReachesPlan`,
`DueIsDealtWith`, `ForecastReachesVtn`, `QueuedCommandIsApplied`,
`SurvivorIsServed`, `CorrectionEnds`), which is beyond the prover. Every invariant a
run checks is a theorem.

## 7. Where code and text disagree

With a run that shows it:

1. **A load is completed that has not run** (`requests_completed`). The tick
   compares accepted loads with an older snapshot
   (`tasks/sim_tick/publish.rs:19`); one accepted in between is "missing".
2. **A released VEN may never hear of it** (`fleet_release`). The release clears the
   retained message, and a VEN that was away receives nothing when it subscribes
   again: the fleet's objective stays in force
   (`services/objective.rs`, `decide_fleet_command`;
   `docs/use-cases/SYSTEM-USE-CASES.md:401`).

Stated in the modules without a standing run; TLC refutes each in seconds to a
minute (add it to a configuration of its module):

* `UserRequests!BootAssetsStay`: a load request may carry a boot asset's id; the
  roster refuses it, the request is listed, and its cancellation removes the
  boot asset (`simulator/handle.rs:64`).
* `UserRequests!OpenRequestHasSession` ("a request and the session it owns never
  disagree"): between installing the session and listing its request another
  handler or the clock may end the session
  (`services/request_submission.rs:61`, `:97`, `:147`).
* `UserRequests!FinishedIsFinal` ("nothing will change it again"): a cancellation
  checked before the tick completed the request overwrites the status.
* `UserRequests!RosterTakesAcceptedLoads` ("Unreachable while ..."): a cancelled
  load's asset can still be in the roster, or a boot asset has the id.
* `PollPlan!HoldDelaysNoLimit`: a rate change's hold sleeps without watching the
  channel (`tasks/planning/mod.rs:131`), and a limit waits for it.
* `PollPlan!RemovalCancels`: a restarted poll misses removals: its memory of applied
  signals is a local (`tasks/poll_events/mod.rs:80`). What a restart can miss is the
  checked and proved `OnlyRemovalsAreMissed`.
* `ReportObligations!AdoptionMakesForecastDue`: the re-arming of a report under way
  overwrites an adoption's announcement (`services/obligation.rs:137`); the
  forecast goes out a cadence later.
* `ReportObligations!RefusedHoldsUpNone` ("VEN MUST submit reports for any active
  `reportDescriptor` obligation", `docs/REQUIREMENTS.md:380`): a submission that the VTN
  rejects for another reason than a source that is gone ends the pass
  (`services/obligation.rs:170`). It stays due, and the next pass meets it again, so
  where it comes first in the store the obligations behind it are never submitted.
* `FleetObjective!SubscribesOnConnect`, `BffSubscribesAgain` ("subscribe on every
  (re)connect"): an outage that filled a request queue leaves no room for the
  subscription; the VEN drops it, the BFF waits for room that only it can make
  (`fleet_telemetry.rs`, `VTN/bff/src/fleet.rs:261`).
* `FleetObjective!LocalChangeStays`: a withdrawal decided on a copy of the setting
  reverts a local change made meanwhile (`tasks/fleet_command.rs:27`).
* `FleetObjective!CommandShownIsTheBrokers`, `ReportedIsInForce`: what the fleet page
  shows may outlive a release, and detached publishers may leave an older leaf
  on the broker.
* `LeaseLock!OneHolderWithinLease`: two acquirers read the same expired lease and
  both claim it (`lease_lock_core.sh:34`).
* `Arbiter!Settles`: under an import limit with a cold tank and a plan that charges,
  the two steps of the limit pass answer each other: the battery is moved
  against the charger that lags, the charger against the battery where it lands,
  and the commands alternate every tick (`controller/arbiter/limit.rs:16`;
  `docs/use-cases/HEMS-USE-CASE-OBSERVATION-MANUAL.md:842`).

* `EventSchedule!HorizonIsCovered` ("covers any horizon this VEN reads",
  `event_timing.rs:86`): the cap on repetitions counts from the event's first
  interval, so a standing tariff has no value once the event is old enough.
* `EventSchedule!PlannerReadsTheRanked` ("every consumer - tick-time cost, history
  sampler, planner tariff series ... - reads the same value for the same instant",
  `rate_schedule.rs:12`): in a gap between two priced segments, or in a segment without
  the type, the planner's series holds the value from before
  (`tariff_snapshot.rs:62`), and no stale-rate policy looks there, since the prices go on
  behind; the tick reads no price in it.
* `EventSchedule!DispatchIsRanked` ("the one ranking the VEN acts on and the BFF
  shows", `event_priority.rs:1`): of overlapping setpoints the tick steers to the one
  the VTN listed first, whatever its priority (`arbiter/stages.rs:81`).

Met while stating `ScheduleIsRanked` and `SlotCapsFollowSignals`:

* `with_randomized_start` moves only the periods that declare a window, each by its
  own window's share, though its doc says "The same offset applies to every period of
  one event, which keeps a sequence of intervals contiguous" (`event_timing.rs:212`).
* A slot with level 1 in one part and level 2 in another is planned at level 2 alone;
  where the forecast load exceeds the share level 1 leaves, the slot's cap is above
  what level 1 asks for in its part (`input_stages.rs:166`).

* An alert or SIMPLE level of no length takes the whole slot around it, though it is in
  force at no instant: `overlaps` compares strictly and asks nothing of the window's own
  length (`time_window.rs:35`, `input_stages.rs:173`). `Fleeting` names these events.
* Where no limit is in force in one part of a slot and one above the connection's bound
  is in force in another, level 1 takes its share of that limit
  (`input_stages.rs:157`), which leaves more than its share of the connection's bound.
* A list of intervals that is not in the order of time, in an event with a duration: each
  round ends at the first interval past the event's end, and an interval listed after it
  is not repeated, though it starts before (`event_timing.rs:132`). An interval without
  an end in the middle of a repeated list is moved by the round like any other, past the
  calendar's end, where `chrono`'s addition panics (`event_timing.rs:144`).
  `CalendarAssumption` leaves both aside.

Met while stating `KeepsTheLimit`, `DispatchIsMet` and `CorrectionEnds`, and named in
their antecedents:

* A bridge is subtracted from the battery's command even where a later stage overwrote
  the command it was part of (`lag_bridge.rs`, `arbiter_glue.rs:161`), so that the command
  carried over winds up, by one charger at most (`TypeOK`). The limit pass then counts
  charge nobody would draw as shed (`ShedsUndrawnCharge`).
* A hot heater that the deviation pass lets absorb from this tick on counts as off in
  the limit pass, whose limit is then exceeded with nothing unresolved
  (`AdmitsHotHeater`; the world `Limited` of the run reaches it).

* The limit pass counts the lowering of a charging setpoint that a nearly full
  battery would not have drawn as power shed, takes a heater curtailed in the
  last tick for off although the tick releases it, and reads generation as the
  inverter's last limit left it. In these ticks an excess remains that nobody
  reports (`limit.rs:131` says "Reported, never hidden"): `ShedsUndrawnCharge`,
  `ReleasesColdHeater`, `GenerationDrops`.
* An empty battery that charges is not asked to charge less: `battery_lever` offers
  nothing once there is no energy to discharge, though its doc says "(or charge
  less)". `StorageAnswers` excludes it from `DispatchIsMet`.
* Where the PV lever tightens generation, `tick_once` uses the power to be cut as
  the ceiling (`resolve_pv_generation_limit_kw`), while the projection subtracts
  it (`tighten_generation`); the correction then does not come to rest, which
  `PlanFits` leaves aside.
* Without a plan slot and with the arbiter on, the overlay and a dispatch window
  can move the charger to and fro; `PlanFits` asks for a window's absence.

## 8. What is not modelled and why

* Arithmetic over real numbers: the MILP, physics, tariffs, forecasts. TLC has no
  reals and the questions are numeric. The arbiter's control law is modelled,
  over integers, because its questions are about feedback.
* Of the arbiter: the parts named in section 3.
* Of the interpretation of events: units and currencies, the blending of prices
  over a slot, stale rates, the timeline view and the capacity curves.
* SQL stores, HTTP views, user interfaces, deployment scripts: a write or a read
  each, no protocol.
* Openleadr-rs: modelled as far as the VEN uses it, and marked external in the map.

* Three races known from reading, in parts without a module: a task that is refused
  with an old token throws away the one another task has just fetched
  (`lab-core` `vtn_auth`); two producers of notifications may both miss the entry
  to bump and add it twice (`services/notify`); the forecaster's guard against a
  second producer checks once, at its start.

The repository is large (96,535 lines of implementation), and most of it is
forms, views, numerical models, SQL and their configuration. The modules cover the
parts with state that several actors share, a small share of the lines.

`PROJECT.json` names every component with its files and reason.

## 9. Plan

Done, in this order: the calendar and the queue (data structure, refinement,
proofs); user requests; poll and plan; report obligations; the fleet objective; the
lease lock; the arbiter with its levers; event interpretation; theorems about each of them, with every invariant of the runs proved.

Next:

1. `EvOverlay`: the tick and `PUT ev-settings` as read, change, write.
2. `VtnAuth` with concurrent requests on one token; `ReportWindows` between
   obligation check and accumulator; `NotificationFeed`; `ForecastProducers`.
3. Extensions: descriptors edited in place in `ReportObligations`; the arbiter's
   accumulate, breach and cool-down steps in place of `PollPlan`'s `OtherTrigger`;
   the opportunistic pass in `Arbiter`.
4. Theorems: lemmas that make the longest proofs shorter; the safety half of what the
   liveness properties rest on (what is owed is never lost); new modules' invariants as they
   come.

The number of runs stays small: instances that ask the same question are merged,
and a disagreement once recorded in section 7 needs no standing run.
