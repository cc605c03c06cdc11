------------------------ MODULE FleetObjectiveProofs ------------------------
(***************************************************************************)
(* Theorems about FleetObjective, for any objectives, queues and bounds.   *)
(***************************************************************************)
EXTENDS FleetObjective, TLAPS

\* What the parts of the command's way hold: the well-formedness the other
\* invariants rest on.
CommandTypes ==
    /\ command = None \/ (command \in Payload /\ command.kind = "command")
    /\ commands \in Seq(Payload)
    /\ Len(commands) <= CommandQueue
    /\ bffRequests \in Seq([what : {"command", "subscribe"}, body : Payload \cup {None}])
    /\ \A i \in DOMAIN bffRequests :
        bffRequests[i].what = "command" => bffRequests[i].body \in Payload
    /\ sweep \subseteq Payload
    /\ task.step \in {"recv", "set", "publish"}
    /\ task.step = "set" =>
        /\ task.payload \in Payload
        /\ task.payload.kind = "command" => task.source = "fleet"
        /\ task.payload.kind = "release" => task.source = "profile"
    /\ missed \in BOOLEAN /\ clock \in Nat /\ lastApplied \in Nat

NoneIsNoPayload ==
    /\ None \notin Payload
    /\ None.kind = "none"
    /\ Release \in Payload /\ Release.kind = "release"
    /\ \A o \in Objectives, at \in Nat :
        Command(o, at) \in Payload /\ Command(o, at).kind = "command" /\ Command(o, at).at = at

LEMMA PayloadFacts == NoneIsNoPayload
BY DEF NoneIsNoPayload, None, Payload, Release, Command

LEMMA HeadInSeq ==
    ASSUME NEW S, NEW q \in Seq(S), q # << >>
    PROVE  /\ Head(q) = q[1] /\ Head(q) \in S /\ 1 \in DOMAIN q
           /\ Tail(q) \in Seq(S)
           /\ Len(Tail(q)) = Len(q) - 1
           /\ \A i \in DOMAIN Tail(q) : i + 1 \in DOMAIN q /\ Tail(q)[i] = q[i + 1]
OBVIOUS

LEMMA AppendInSeq ==
    ASSUME NEW S, NEW q \in Seq(S), NEW e \in S
    PROVE  /\ Append(q, e) \in Seq(S)
           /\ Len(Append(q, e)) = Len(q) + 1
           /\ Append(q, e)[Len(q) + 1] = e
           /\ \A i \in DOMAIN Append(q, e) :
                \/ i \in DOMAIN q /\ Append(q, e)[i] = q[i]
                \/ i = Len(q) + 1 /\ Append(q, e)[i] = e
OBVIOUS
-----------------------------------------------------------------------------
(* The last word: what is on its way to the VEN ends in what the broker    *)
(* keeps.                                                                  *)

Says(payload) ==
    IF payload.kind = "release" THEN command = None ELSE command = payload

Settled == IF command = None THEN setting.kind # "fleet" ELSE lastApplied = command.at

LastWord ==
    /\ task.step = "set" /\ task.payload.kind = "command" => lastApplied = task.payload.at
    /\ ~missed =>
        IF commands # << >> THEN Says(commands[Len(commands)])
        ELSE IF task.step = "set" THEN Says(task.payload)
        ELSE Settled

(* The order of the commands: nothing on the VEN's side is newer than what *)
(* the broker keeps, and that is not newer than what the BFF has queued.   *)

IsCommandAt(q, i) == q[i].kind = "command"
Queued(i) == bffRequests[i].what = "command" /\ bffRequests[i].body.kind = "command"

Reaches(n) ==
    /\ lastApplied <= n
    /\ \A i \in DOMAIN commands : commands[i].kind = "command" => commands[i].at <= n

ReachesNext(n) ==
    /\ lastApplied' <= n
    /\ \A i \in DOMAIN commands' : commands'[i].kind = "command" => commands'[i].at <= n

Ordered ==
    /\ Reaches(clock)
    /\ command # None => Reaches(command.at) /\ command.at <= clock
    /\ \A k \in DOMAIN bffRequests : Queued(k) =>
        /\ Reaches(bffRequests[k].body.at)
        /\ bffRequests[k].body.at <= clock
        /\ command # None => command.at <= bffRequests[k].body.at
    /\ \A j, k \in DOMAIN bffRequests : j < k /\ Queued(j) /\ Queued(k) =>
        bffRequests[j].body.at <= bffRequests[k].body.at
    /\ \A i \in DOMAIN commands : commands[i].kind = "command" => lastApplied <= commands[i].at
    /\ \A i, j \in DOMAIN commands :
        i < j /\ commands[i].kind = "command" /\ commands[j].kind = "command" =>
            commands[i].at <= commands[j].at

IInv == CommandTypes /\ LastWord /\ Ordered

-----------------------------------------------------------------------------

LEMMA InitHolds == Init => IInv
<1> SUFFICES ASSUME Init PROVE IInv
  OBVIOUS
<1>1. CommandTypes
  BY FleetAssumption DEF Init, CommandTypes, Idle, None
<1>2. LastWord /\ Ordered
  BY DEF Init, LastWord, Ordered, Reaches, Idle, None
<1> QED
  BY <1>1, <1>2 DEF IInv

Stamps ==
    /\ clock \in Nat /\ lastApplied \in Nat
    /\ \A i \in DOMAIN commands : commands[i].at \in Nat
    /\ \A k \in DOMAIN bffRequests : Queued(k) => bffRequests[k].body.at \in Nat
    /\ command # None => command.at \in Nat

LEMMA StampsAreNumbers == ASSUME CommandTypes PROVE Stamps
<1>1. \A c \in Payload : c.at \in Nat
  BY DEF Payload
<1>2. \A i \in DOMAIN commands : commands[i] \in Payload
  BY DEF CommandTypes
<1> QED
  BY <1>1, <1>2 DEF CommandTypes, Stamps, Queued

\* Steps that touch neither the command's way nor the setting.
Aside ==
    /\ UNCHANGED <<command, commands, bffRequests, sweep, missed, lastApplied, clock, setting>>
    /\ task' = task \/ (task.step # "set" /\ task' = Idle)

LEMMA AsideKeeps == ASSUME IInv, Aside PROVE IInv'
<1>1. CommandTypes'
  BY DEF IInv, Aside, CommandTypes, Idle
<1>2. LastWord'
  BY DEF IInv, Aside, LastWord, Says, Settled, Idle
<1>3. Ordered'
  BY DEF IInv, Aside, Ordered, Reaches, Queued
<1> QED
  BY <1>1, <1>2, <1>3 DEF IInv

LEMMA AsideSteps ==
    ASSUME \/ BrokerTakesLeaf \/ VenConnects \/ VenLosesConnection \/ PublishTelemetry
           \/ \E s \in BagToSet(publishing) : PublishLeaf(s)
           \/ \E s \in changing : PublishObjective(s)
           \/ BffConnects
           \/ UNCHANGED vars
    PROVE  Aside
BY DEF Aside, BrokerTakesLeaf, VenConnects, VenLosesConnection, PublishTelemetry, PublishLeaf,
    PublishObjective, BffConnects, Spends, vars, venVars, bffVars

\* A payload the broker keeps, or a withdrawal it has carried out, is queued
\* for the command task or missed.
LEMMA QueueingKeepsTypes ==
    ASSUME commands \in Seq(Payload), Len(commands) <= CommandQueue, NEW c \in Payload, Hears(c)
    PROVE  /\ commands' \in Seq(Payload) /\ Len(commands') <= CommandQueue
           /\ missed' \in BOOLEAN
           /\ ~missed' => commands' # << >> /\ commands'[Len(commands')] = c
           /\ commands' = commands \/ commands' = Append(commands, c)
<1>1. CASE link = "subscribed" /\ Len(commands) < CommandQueue
  <2>1. commands' = Append(commands, c) /\ missed' = FALSE
    BY <1>1 DEF Hears
  <2>2. Len(commands) \in Nat /\ CommandQueue \in Nat
    BY FleetAssumption
  <2>3. /\ commands' \in Seq(Payload) /\ Len(commands') = Len(commands) + 1
        /\ commands'[Len(commands) + 1] = c
    BY <2>1, AppendInSeq
  <2>4. commands' # << >> /\ Len(commands') <= CommandQueue
    BY <2>2, <2>3, <1>1
  <2> QED
    BY <2>1, <2>3, <2>4
<1>2. CASE ~(link = "subscribed" /\ Len(commands) < CommandQueue)
  BY <1>2 DEF Hears
<1> QED
  BY <1>1, <1>2

\* Appending to what the VEN has queued something the broker's order allows.
LEMMA QueueingKeepsOrder ==
    ASSUME CommandTypes, Ordered, NEW c \in Payload,
           c.kind = "command" => Reaches(c.at),
           commands' = commands \/ commands' = Append(commands, c),
           UNCHANGED lastApplied
    PROVE  /\ \A n \in Nat : Reaches(n) /\ (c.kind = "command" => c.at <= n) => ReachesNext(n)
           /\ \A i \in DOMAIN commands' :
                commands'[i].kind = "command" => lastApplied' <= commands'[i].at
           /\ \A i, j \in DOMAIN commands' :
                i < j /\ commands'[i].kind = "command" /\ commands'[j].kind = "command" =>
                    commands'[i].at <= commands'[j].at
<1>1. CASE commands' = commands
  BY <1>1 DEF Ordered, Reaches, ReachesNext
<1>2. CASE commands' = Append(commands, c)
  <2>1. commands \in Seq(Payload)
    BY DEF CommandTypes
  <2>2. \A i \in DOMAIN commands' :
            \/ i \in DOMAIN commands /\ commands'[i] = commands[i]
            \/ i = Len(commands) + 1 /\ commands'[i] = c
    BY <1>2, <2>1, AppendInSeq
  <2>3. DOMAIN commands = 1 .. Len(commands) /\ Len(commands) \in Nat
    BY <2>1
  <2>4. \A n \in Nat : Reaches(n) /\ (c.kind = "command" => c.at <= n) => ReachesNext(n)
    BY <2>2 DEF Reaches, ReachesNext
  <2>5. \A i \in DOMAIN commands' :
            commands'[i].kind = "command" => lastApplied' <= commands'[i].at
    BY <2>2 DEF Ordered, Reaches
  <2>6. ASSUME NEW i \in DOMAIN commands', NEW j \in DOMAIN commands',
               i < j, commands'[i].kind = "command", commands'[j].kind = "command"
        PROVE  commands'[i].at <= commands'[j].at
    BY <2>2, <2>3, <2>6 DEF Ordered, Reaches
  <2> QED
    BY <2>4, <2>5, <2>6
<1> QED
  BY <1>1, <1>2

LEMMA BrokerTakesCommandKeeps == ASSUME IInv, BrokerTakesCommand PROVE IInv'
<1> DEFINE c == Head(bffRequests).body
           Requests == [what : {"command", "subscribe"}, body : Payload \cup {None}]
<1>1. /\ CommandTypes /\ Ordered /\ LastWord
      /\ bffRequests \in Seq(Requests) /\ bffRequests # << >>
  BY DEF IInv, CommandTypes, BrokerTakesCommand
<1>2. /\ Head(bffRequests) = bffRequests[1] /\ 1 \in DOMAIN bffRequests
      /\ Tail(bffRequests) \in Seq(Requests)
      /\ \A i \in DOMAIN Tail(bffRequests) :
            i + 1 \in DOMAIN bffRequests /\ Tail(bffRequests)[i] = bffRequests[i + 1]
  BY <1>1, HeadInSeq
<1>3. c \in Payload
  BY <1>1, <1>2 DEF BrokerTakesCommand, CommandTypes
<1>4. /\ command' = IF c.kind = "release" THEN None ELSE c
      /\ Hears(c) /\ bffRequests' = Tail(bffRequests)
      /\ UNCHANGED <<sweep, task, lastApplied, clock, setting>>
  BY DEF BrokerTakesCommand
<1>5. /\ commands' \in Seq(Payload) /\ Len(commands') <= CommandQueue
      /\ missed' \in BOOLEAN
      /\ ~missed' => commands' # << >> /\ commands'[Len(commands')] = c
      /\ commands' = commands \/ commands' = Append(commands, c)
  <2>1. commands \in Seq(Payload) /\ Len(commands) <= CommandQueue
    BY <1>1 DEF CommandTypes
  <2> HIDE DEF c
  <2> QED
    BY <1>3, <1>4, <2>1, QueueingKeepsTypes
<1>6. c.kind \in {"command", "release"} /\ c.at \in Nat
  BY <1>3 DEF Payload
<1>7. c.kind = "command" => Queued(1) /\ bffRequests[1].body = c
  BY <1>2 DEF BrokerTakesCommand, Queued
<1>8. c.kind = "command" => Reaches(c.at) /\ c.at <= clock
  BY <1>1, <1>2, <1>7 DEF Ordered
<1>9. \A k \in DOMAIN bffRequests' : Queued(k)' =>
        /\ k + 1 \in DOMAIN bffRequests /\ Queued(k + 1)
        /\ bffRequests'[k].body = bffRequests[k + 1].body
  BY <1>2, <1>4 DEF Queued
<1>10. \A k \in DOMAIN bffRequests' : k \in Nat /\ k >= 1
  BY <1>2, <1>4
<1>11. DOMAIN bffRequests \subseteq Nat
  BY <1>1
<1> HIDE DEF c
<1>12. CommandTypes'
  BY <1>1, <1>2, <1>3, <1>4, <1>5, <1>6 DEF CommandTypes
<1>13. LastWord'
  BY <1>1, <1>4, <1>5, <1>6 DEF LastWord, Says
<1>14. Ordered'
  <2>1. /\ \A n \in Nat : Reaches(n) /\ (c.kind = "command" => c.at <= n) => ReachesNext(n)
        /\ \A i \in DOMAIN commands' :
            commands'[i].kind = "command" => lastApplied' <= commands'[i].at
        /\ \A i, j \in DOMAIN commands' :
            i < j /\ commands'[i].kind = "command" /\ commands'[j].kind = "command" =>
                commands'[i].at <= commands'[j].at
    BY <1>1, <1>3, <1>4, <1>5, <1>8, QueueingKeepsOrder
  <2>2. Reaches(clock)' /\ clock \in Nat
    BY <2>1, <1>1, <1>4, <1>8 DEF Ordered, CommandTypes, Reaches, ReachesNext
  <2>3. command' # None => ReachesNext(command'.at) /\ command'.at <= clock'
    <3>1. ASSUME command' # None PROVE command' = c /\ c.kind = "command"
      BY <1>4, <1>6, <3>1
    <3>2. command' # None => ReachesNext(c.at)
      BY <3>1, <2>1, <1>6, <1>8
    <3> QED
      BY <3>1, <3>2, <1>4, <1>8
  <2>4. ASSUME NEW k \in DOMAIN bffRequests', Queued(k)'
        PROVE  /\ ReachesNext(bffRequests'[k].body.at)
               /\ bffRequests'[k].body.at <= clock'
               /\ command' # None => command'.at <= bffRequests'[k].body.at
    <3>1. /\ k + 1 \in DOMAIN bffRequests /\ Queued(k + 1)
          /\ bffRequests'[k].body = bffRequests[k + 1].body
          /\ 1 < k + 1
      BY <2>4, <1>9, <1>10
    <3>2. bffRequests[k + 1].body.at \in Nat
      BY <3>1, <1>1 DEF CommandTypes, Queued, Payload
    <3>3. c.kind = "command" => c.at <= bffRequests[k + 1].body.at
      BY <3>1, <1>1, <1>2, <1>7 DEF Ordered
    <3>4. Reaches(bffRequests[k + 1].body.at) /\ bffRequests[k + 1].body.at <= clock
      BY <3>1, <1>1 DEF Ordered
    <3>5. ReachesNext(bffRequests[k + 1].body.at)
      BY <3>2, <3>3, <3>4, <2>1
    <3> QED
      BY <3>1, <3>3, <3>4, <3>5, <1>4, <1>6
  <2>5. ASSUME NEW j \in DOMAIN bffRequests', NEW k \in DOMAIN bffRequests',
               j < k, Queued(j)', Queued(k)'
        PROVE  bffRequests'[j].body.at <= bffRequests'[k].body.at
    <3>1. j + 1 < k + 1
      BY <2>5, <1>10
    <3> QED
      BY <3>1, <2>5, <1>1, <1>9 DEF Ordered
  <2> QED
    BY <2>1, <2>2, <2>3, <2>4, <2>5 DEF Ordered, Reaches, ReachesNext
<1> QED
  BY <1>12, <1>13, <1>14 DEF IInv

\* The broker sends the command it keeps to a new subscription.
LEMMA SubscriptionKeeps == ASSUME IInv, BrokerTakesSubscription PROVE IInv'
<1>1. /\ UNCHANGED <<command, bffRequests, sweep, task, lastApplied, clock, setting>>
      /\ \/ /\ command # None /\ Len(commands) < CommandQueue
            /\ commands' = Append(commands, command) /\ missed' = FALSE
         \/ UNCHANGED <<commands, missed>>
  BY DEF BrokerTakesSubscription, bffVars
<1>2. CASE UNCHANGED <<commands, missed>>
  BY <1>1, <1>2, AsideKeeps DEF Aside
<1>3. CASE /\ command # None /\ Len(commands) < CommandQueue
           /\ commands' = Append(commands, command) /\ missed' = FALSE
  <2>1. /\ command \in Payload /\ command.kind = "command" /\ command.at \in Nat
        /\ commands \in Seq(Payload) /\ CommandTypes /\ Ordered /\ LastWord
    BY <1>3 DEF IInv, CommandTypes, Payload
  <2>2. Len(commands) \in Nat /\ CommandQueue \in Nat
    BY <2>1, FleetAssumption
  <2>3. /\ commands' \in Seq(Payload) /\ Len(commands') = Len(commands) + 1
        /\ commands'[Len(commands) + 1] = command
    BY <1>3, <2>1, AppendInSeq
  <2>4. commands' # << >> /\ Len(commands') <= CommandQueue
    BY <1>3, <2>2, <2>3
  <2>5. CommandTypes'
    BY <1>1, <1>3, <2>1, <2>3, <2>4 DEF CommandTypes
  <2>6. LastWord'
    BY <1>1, <2>1, <2>3, <2>4 DEF LastWord, Says
  <2>7. Reaches(command.at) /\ command.at <= clock
    BY <1>3, <2>1 DEF Ordered
  <2>8. /\ \A n \in Nat : Reaches(n) /\ command.at <= n => ReachesNext(n)
        /\ \A k \in DOMAIN commands' :
            commands'[k].kind = "command" => lastApplied' <= commands'[k].at
        /\ \A j, k \in DOMAIN commands' :
            j < k /\ commands'[j].kind = "command" /\ commands'[k].kind = "command" =>
                commands'[j].at <= commands'[k].at
    BY <1>1, <1>3, <2>1, <2>7, QueueingKeepsOrder
  <2>9. ReachesNext(clock') /\ ReachesNext(command'.at) /\ command'.at <= clock'
    BY <1>1, <2>1, <2>7, <2>8 DEF Ordered, CommandTypes
  <2>10. ASSUME NEW k \in DOMAIN bffRequests', Queued(k)'
         PROVE  /\ ReachesNext(bffRequests'[k].body.at)
                /\ bffRequests'[k].body.at <= clock'
                /\ command'.at <= bffRequests'[k].body.at
    <3>1. /\ bffRequests'[k] = bffRequests[k] /\ k \in DOMAIN bffRequests /\ Queued(k)
          /\ bffRequests[k].body.at \in Nat
      BY <1>1, <2>10, <2>1 DEF CommandTypes, Queued, Payload
    <3> QED
      BY <1>1, <1>3, <2>1, <2>8, <3>1 DEF Ordered
  <2>11. Ordered'
    BY <1>1, <2>1, <2>8, <2>9, <2>10 DEF Ordered, Reaches, ReachesNext, Queued
  <2> QED
    BY <2>5, <2>6, <2>11 DEF IInv
<1> QED
  BY <1>1, <1>2, <1>3

LEMMA SetLocallyKeeps == ASSUME IInv, NEW o \in Objectives, SetLocally(o) PROVE IInv'
<1>1. /\ UNCHANGED <<command, commands, bffRequests, sweep, missed, lastApplied, task>>
      /\ clock' = clock + 1 /\ setting'.kind = "ven_ui"
  BY DEF SetLocally, Sets, Setting, bffVars
<1>2. CommandTypes'
  BY <1>1 DEF IInv, CommandTypes
<1>3. LastWord'
  BY <1>1 DEF IInv, LastWord, Says, Settled
<1>4. Ordered'
  BY <1>1, StampsAreNumbers DEF IInv, Stamps, Ordered, Reaches, Queued
<1> QED
  BY <1>2, <1>3, <1>4 DEF IInv

LEMMA CarryOutKeeps == ASSUME IInv, CarryOut PROVE IInv'
<1>1. /\ UNCHANGED <<command, commands, bffRequests, sweep, missed, lastApplied>>
      /\ clock' = clock + 1 /\ setting'.kind = task.source
      /\ task.step = "set" /\ task'.step = "publish"
      /\ clock \in Nat /\ task.payload.kind \in {"command", "release"}
  BY DEF IInv, CommandTypes, CarryOut, Sets, Setting, bffVars, Payload
<1>2. CommandTypes'
  BY <1>1 DEF IInv, CommandTypes
<1>3. LastWord'
  BY <1>1, PayloadFacts DEF IInv, CommandTypes, LastWord, Says, Settled, NoneIsNoPayload
<1>4. Ordered'
  BY <1>1, StampsAreNumbers DEF IInv, Stamps, Ordered, Reaches, Queued
<1> QED
  BY <1>2, <1>3, <1>4 DEF IInv

LEMMA VenRestartsKeeps == ASSUME IInv, VenRestarts PROVE IInv'
<1>1. /\ UNCHANGED <<command, bffRequests, sweep, clock>>
      /\ commands' = << >> /\ task' = Idle /\ lastApplied' = 0 /\ missed' = TRUE
  BY DEF VenRestarts, bffVars
<1>2. CommandTypes'
  BY <1>1, FleetAssumption DEF IInv, CommandTypes, Idle
<1>3. LastWord'
  BY <1>1 DEF LastWord, Idle
<1>4. Ordered'
  BY <1>1, StampsAreNumbers DEF IInv, Stamps, Ordered, Reaches, Queued
<1> QED
  BY <1>2, <1>3, <1>4 DEF IInv

\* The task takes the oldest payload: what it applies is newer than the last
\* one it applied and not newer than what is still queued.
LEMMA ReceiveCommandKeeps ==
    ASSUME IInv, ReceiveCommand
    PROVE  /\ IInv'
           /\ task'.step = "set" /\ task'.source = "fleet" => task'.payload.at > lastApplied
<1> DEFINE c == Head(commands)
<1>1. /\ CommandTypes /\ Ordered /\ LastWord
      /\ commands \in Seq(Payload) /\ commands # << >> /\ task.step = "recv"
      /\ UNCHANGED <<command, bffRequests, sweep, missed, clock, setting>>
      /\ commands' = Tail(commands) /\ lastApplied \in Nat
  BY DEF IInv, CommandTypes, ReceiveCommand, bffVars
<1>2. /\ c = commands[1] /\ c \in Payload /\ 1 \in DOMAIN commands
      /\ commands' \in Seq(Payload) /\ Len(commands') = Len(commands) - 1
      /\ \A i \in DOMAIN commands' : i + 1 \in DOMAIN commands /\ commands'[i] = commands[i + 1]
  BY <1>1, HeadInSeq
<1>3. c.kind \in {"command", "release"} /\ c.at \in Nat
  BY <1>2 DEF Payload
<1>4. \/ /\ c.kind = "command" /\ c.at # lastApplied /\ lastApplied' = c.at
         /\ task' = [step |-> "set", payload |-> c, source |-> "fleet", objective |-> c.objective]
      \/ /\ c.kind = "release" /\ lastApplied' = lastApplied
         /\ task' = [step |-> "set", payload |-> c, source |-> "profile", objective |-> Profile]
      \/ /\ \/ c.kind = "command" /\ c.at = lastApplied
            \/ c.kind = "release" /\ setting.kind # "fleet"
         /\ lastApplied' = lastApplied /\ task' = task
  BY DEF ReceiveCommand, New, Reverts
<1>5. c.kind = "command" => lastApplied <= c.at
  BY <1>1, <1>2 DEF Ordered
<1>6. Len(commands) \in Nat /\ DOMAIN commands = 1 .. Len(commands)
      /\ DOMAIN commands' = 1 .. Len(commands')
  BY <1>1, <1>2
<1>7. Len(commands') # 0 => /\ Len(commands') \in DOMAIN commands'
                           /\ commands'[Len(commands')] = commands[Len(commands)]
  BY <1>2, <1>6
<1>8. Len(commands') = 0 => commands[Len(commands)] = c /\ commands' = << >>
  BY <1>2, <1>6
<1> HIDE DEF c
<1>9. CommandTypes'
  <2>1. Len(commands') <= CommandQueue
    BY <1>1, <1>2, <1>6, FleetAssumption DEF CommandTypes
  <2> QED
    BY <2>1, <1>1, <1>2, <1>3, <1>4 DEF CommandTypes
<1>10. LastWord'
  <2>1. task'.step = "set" /\ task'.payload.kind = "command" => lastApplied' = task'.payload.at
    BY <1>1, <1>3, <1>4
  <2>2. ASSUME ~missed'
        PROVE  IF commands' # << >> THEN Says(commands'[Len(commands')])
               ELSE IF task'.step = "set" THEN Says(task'.payload)
               ELSE IF command = None THEN setting.kind # "fleet" ELSE lastApplied' = command.at
    <3>1. Says(commands[Len(commands)])
      BY <2>2, <1>1 DEF LastWord
    <3>2. CASE Len(commands') # 0
      <4>1. commands' # << >>
        BY <3>2
      <4>2. Says(commands'[Len(commands')])
        BY <3>1, <3>2, <1>7
      <4> QED
        BY <4>1, <4>2
    <3>3. CASE Len(commands') = 0
      <4>1. Says(c) /\ commands' = << >>
        BY <3>1, <3>3, <1>8
      <4>2. command = None \/ command.kind = "command"
        BY <1>1 DEF CommandTypes
      <4> QED
        BY <4>1, <4>2, <1>1, <1>3, <1>4, PayloadFacts DEF Says, NoneIsNoPayload
    <3> QED
      BY <3>2, <3>3
  <2> QED
    BY <2>1, <2>2, <1>1 DEF LastWord, Says, Settled
<1>11. Ordered'
  <2>1. \A n : Reaches(n) => ReachesNext(n)
    BY <1>1, <1>2, <1>3, <1>4 DEF Reaches, ReachesNext
  <2>2. \A i \in DOMAIN commands' :
            commands'[i].kind = "command" => lastApplied' <= commands'[i].at
    <3> SUFFICES ASSUME NEW i \in DOMAIN commands', commands'[i].kind = "command"
                 PROVE  lastApplied' <= commands'[i].at
      OBVIOUS
    <3>1. /\ i + 1 \in DOMAIN commands /\ commands'[i] = commands[i + 1] /\ 1 < i + 1
      BY <1>2, <1>6
    <3>2. lastApplied <= commands[i + 1].at
      BY <3>1, <1>1 DEF Ordered
    <3>3. c.kind = "command" => c.at <= commands[i + 1].at
      BY <3>1, <1>1, <1>2 DEF Ordered
    <3> QED
      BY <3>1, <3>2, <3>3, <1>4
  <2>3. ASSUME NEW i \in DOMAIN commands', NEW j \in DOMAIN commands',
               i < j, commands'[i].kind = "command", commands'[j].kind = "command"
        PROVE  commands'[i].at <= commands'[j].at
    <3>1. /\ i + 1 \in DOMAIN commands /\ commands'[i] = commands[i + 1]
          /\ j + 1 \in DOMAIN commands /\ commands'[j] = commands[j + 1]
          /\ i + 1 < j + 1
      BY <1>2, <1>6, <2>3
    <3> QED
      BY <3>1, <2>3, <1>1 DEF Ordered
  <2> QED
    BY <1>1, <2>1, <2>2, <2>3 DEF Ordered, Reaches, ReachesNext, Queued
<1> QED
  BY <1>3, <1>4, <1>5, <1>9, <1>10, <1>11, <1>1 DEF IInv

\* What the BFF queues is stamped now: nothing on the way is newer.
LEMMA BffQueueKeeps ==
    ASSUME IInv, clock' \in Nat, clock' >= clock, sweep' \subseteq Payload,
           NEW e \in [what : {"command", "subscribe"}, body : Payload \cup {None}],
           e.what = "command" => /\ e.body \in Payload
                                 /\ e.body.kind = "command" => e.body.at = clock',
           bffRequests' = bffRequests \/ bffRequests' = Append(bffRequests, e),
           UNCHANGED <<command, commands, missed, lastApplied, setting, task>>
    PROVE  IInv'
<1> DEFINE Requests == [what : {"command", "subscribe"}, body : Payload \cup {None}]
<1>1. CommandTypes /\ Ordered /\ LastWord /\ bffRequests \in Seq(Requests)
  BY DEF IInv, CommandTypes
<1>2. Stamps
  BY <1>1, StampsAreNumbers
<1>3. /\ bffRequests' \in Seq(Requests)
      /\ \A k \in DOMAIN bffRequests' :
            \/ k \in DOMAIN bffRequests /\ bffRequests'[k] = bffRequests[k]
            \/ k = Len(bffRequests) + 1 /\ bffRequests'[k] = e
  <2>1. CASE bffRequests' = bffRequests
    BY <2>1, <1>1
  <2>2. CASE bffRequests' = Append(bffRequests, e)
    BY <2>2, <1>1, AppendInSeq
  <2> QED
    BY <2>1, <2>2
<1>4. CommandTypes'
  BY <1>1, <1>3 DEF CommandTypes
<1>5. LastWord'
  BY <1>1 DEF LastWord, Says, Settled
<1>6. Ordered'
  <2>1. \A k \in DOMAIN bffRequests' : Queued(k)' =>
            \/ /\ k \in DOMAIN bffRequests /\ Queued(k)
               /\ bffRequests'[k].body = bffRequests[k].body
            \/ k = Len(bffRequests) + 1 /\ bffRequests'[k].body.at = clock'
    BY <1>3 DEF Queued
  <2>2. DOMAIN bffRequests = 1 .. Len(bffRequests) /\ Len(bffRequests) \in Nat
    BY <1>1
  <2>3. \A n \in Nat : Reaches(n) => ReachesNext(n)
    BY DEF Reaches, ReachesNext
  <2>4. Reaches(clock) /\ Reaches(clock')
    BY <1>1, <1>2 DEF Ordered, Reaches, Stamps
  <2>5. command # None => Reaches(command.at) /\ command.at <= clock'
    BY <1>1, <1>2 DEF Ordered, Stamps
  <2>6. ASSUME NEW k \in DOMAIN bffRequests', Queued(k)'
        PROVE  /\ ReachesNext(bffRequests'[k].body.at)
               /\ bffRequests'[k].body.at <= clock'
               /\ command # None => command.at <= bffRequests'[k].body.at
    BY <2>1, <2>3, <2>4, <2>5, <2>6, <1>1, <1>2 DEF Ordered, Stamps
  <2>7. ASSUME NEW j \in DOMAIN bffRequests', NEW k \in DOMAIN bffRequests',
               j < k, Queued(j)', Queued(k)'
        PROVE  bffRequests'[j].body.at <= bffRequests'[k].body.at
    BY <2>1, <2>2, <2>7, <1>1, <1>2 DEF Ordered, Stamps
  <2>8. ReachesNext(clock') /\ (command # None => ReachesNext(command.at))
    BY <2>3, <2>4, <2>5, <1>2 DEF Stamps
  <2> QED
    BY <2>5, <2>6, <2>7, <2>8, <1>1 DEF Ordered, Reaches, ReachesNext
<1> QED
  BY <1>4, <1>5, <1>6 DEF IInv

\* What leaves the BFF's queue without reaching the broker's topic.
LEMMA BffDropKeeps ==
    ASSUME IInv,
           \/ bffRequests' = << >>
           \/ bffRequests # << >> /\ bffRequests' = Tail(bffRequests),
           UNCHANGED <<command, commands, missed, lastApplied, setting, task, sweep, clock>>
    PROVE  IInv'
<1> DEFINE Requests == [what : {"command", "subscribe"}, body : Payload \cup {None}]
<1>1. CommandTypes /\ Ordered /\ LastWord /\ bffRequests \in Seq(Requests)
  BY DEF IInv, CommandTypes
<1>2. /\ bffRequests' \in Seq(Requests)
      /\ \A k \in DOMAIN bffRequests' : k + 1 \in DOMAIN bffRequests /\ bffRequests'[k] = bffRequests[k + 1]
  <2>1. CASE bffRequests' = << >>
    BY <2>1
  <2>2. CASE bffRequests # << >> /\ bffRequests' = Tail(bffRequests)
    BY <2>2, <1>1, HeadInSeq
  <2> QED
    BY <2>1, <2>2
<1>3. \A k \in DOMAIN bffRequests' : k \in Nat
  BY <1>2
<1>4. CommandTypes'
  BY <1>1, <1>2 DEF CommandTypes
<1>5. LastWord'
  BY <1>1 DEF LastWord, Says, Settled
<1>6. \A k \in DOMAIN bffRequests' : Queued(k)' =>
        /\ k + 1 \in DOMAIN bffRequests /\ Queued(k + 1)
        /\ bffRequests'[k].body = bffRequests[k + 1].body
  BY <1>2 DEF Queued
<1>7. Ordered'
  <2>1. \A n : Reaches(n) => ReachesNext(n)
    BY DEF Reaches, ReachesNext
  <2>2. ASSUME NEW j \in DOMAIN bffRequests', NEW k \in DOMAIN bffRequests',
               j < k, Queued(j)', Queued(k)'
        PROVE  bffRequests'[j].body.at <= bffRequests'[k].body.at
    <3>1. j + 1 < k + 1
      BY <2>2, <1>3
    <3> QED
      BY <3>1, <2>2, <1>1, <1>6 DEF Ordered
  <2> QED
    BY <2>1, <2>2, <1>1, <1>6 DEF Ordered, Reaches, ReachesNext
<1> QED
  BY <1>4, <1>5, <1>7 DEF IInv

-----------------------------------------------------------------------------

LEMMA NextKeeps == ASSUME IInv, [Next]_vars PROVE IInv'
<1> USE DEF venVars, bffVars
<1>1. CASE BrokerTakesCommand
  BY <1>1, BrokerTakesCommandKeeps
<1>2. CASE BrokerTakesSubscription
  BY <1>2, SubscriptionKeeps
<1>3. CASE \E o \in Objectives : SetLocally(o)
  BY <1>3, SetLocallyKeeps
<1>4. CASE ReceiveCommand
  BY <1>4, ReceiveCommandKeeps
<1>5. CASE CarryOut
  BY <1>5, CarryOutKeeps
<1>6. CASE VenRestarts
  BY <1>6, VenRestartsKeeps
<1>7. CASE \E payload \in Payloads(clock + 1) : CommandVen(payload)
  <2>1. PICK payload \in Payloads(clock + 1) : CommandVen(payload)
    BY <1>7
  <2>2. clock \in Nat /\ sweep \subseteq Payload
    BY DEF IInv, CommandTypes
  <2>3. payload \in Payload /\ (payload.kind = "command" => payload.at = clock + 1)
    BY <2>1, <2>2, PayloadFacts DEF Payloads, NoneIsNoPayload
  <2>4. CommandRequest(payload) \in [what : {"command", "subscribe"}, body : Payload \cup {None}]
    BY <2>3 DEF CommandRequest
  <2>5. CommandRequest(payload).what = "command" /\ CommandRequest(payload).body = payload
    BY DEF CommandRequest
  <2>6. /\ clock' = clock + 1 /\ bffRequests' = Append(bffRequests, CommandRequest(payload))
        /\ UNCHANGED <<sweep, command, commands, missed, lastApplied, setting, task>>
    BY <2>1 DEF CommandVen
  <2> QED
    BY <2>2, <2>3, <2>4, <2>5, <2>6, BffQueueKeeps
<1>8. CASE \E payload \in Payloads(0) : CommandFleet(payload)
  <2>1. PICK payload \in Payloads(0) : CommandFleet(payload)
    BY <1>8
  <2>2. payload \in Payload
    BY <2>1, PayloadFacts DEF Payloads, NoneIsNoPayload
  <2>3. [payload EXCEPT !.at = 0] \in Payload
    BY <2>2 DEF Payload
  <2>4. /\ sweep' = sweep \cup {[payload EXCEPT !.at = 0]}
        /\ UNCHANGED <<bffRequests, clock, command, commands, missed, lastApplied, setting, task>>
    BY <2>1 DEF CommandFleet
  <2>5. CommandTypes'
    BY <2>3, <2>4 DEF IInv, CommandTypes
  <2>6. LastWord' /\ Ordered'
    BY <2>4 DEF IInv, LastWord, Says, Settled, Ordered, Reaches, Queued
  <2> QED
    BY <2>5, <2>6 DEF IInv
<1>9. CASE \E payload \in sweep : SweepArrives(payload)
  <2>1. PICK payload \in sweep : SweepArrives(payload)
    BY <1>9
  <2> DEFINE stamped == IF payload.kind = "release" THEN payload ELSE [payload EXCEPT !.at = clock']
  <2>2. clock \in Nat /\ clock' = clock + 1 /\ sweep' \subseteq Payload /\ payload \in Payload
    BY <2>1 DEF IInv, CommandTypes, SweepArrives
  <2>3. stamped \in Payload /\ (stamped.kind = "command" => stamped.at = clock')
    BY <2>2 DEF Payload
  <2>4. /\ bffRequests' = bffRequests \/ bffRequests' = Append(bffRequests, CommandRequest(stamped))
        /\ UNCHANGED <<command, commands, missed, lastApplied, setting, task>>
    BY <2>1 DEF SweepArrives
  <2> HIDE DEF stamped
  <2>5. /\ CommandRequest(stamped) \in [what : {"command", "subscribe"}, body : Payload \cup {None}]
        /\ CommandRequest(stamped).what = "command" /\ CommandRequest(stamped).body = stamped
    BY <2>3 DEF CommandRequest
  <2> QED
    BY <2>2, <2>3, <2>4, <2>5, BffQueueKeeps
<1>10. CASE BffSubscribes
  <2>1. /\ bffRequests' = Append(bffRequests, SubscribeRequest)
        /\ UNCHANGED <<sweep, clock, command, commands, missed, lastApplied, setting, task>>
    BY <1>10 DEF BffSubscribes
  <2>2. clock \in Nat /\ sweep \subseteq Payload
    BY DEF IInv, CommandTypes
  <2>3. /\ SubscribeRequest \in [what : {"command", "subscribe"}, body : Payload \cup {None}]
        /\ SubscribeRequest.what = "subscribe"
    BY DEF SubscribeRequest
  <2> QED
    BY <2>1, <2>2, <2>3, BffQueueKeeps
<1>11. CASE BrokerTakesBffSubscription
  BY <1>11, BffDropKeeps DEF BrokerTakesBffSubscription
<1>12. CASE BffLosesConnection
  BY <1>12, BffDropKeeps DEF BffLosesConnection
<1>13. CASE \/ BrokerTakesLeaf \/ VenConnects \/ VenLosesConnection \/ PublishTelemetry
            \/ \E s \in BagToSet(publishing) : PublishLeaf(s)
            \/ \E s \in changing : PublishObjective(s)
            \/ BffConnects
            \/ UNCHANGED vars
  BY <1>13, AsideSteps, AsideKeeps
<1> QED
  BY <1>1, <1>2, <1>3, <1>4, <1>5, <1>6, <1>7, <1>8, <1>9, <1>10, <1>11, <1>12, <1>13
  DEF Next, VenNext, BffNext

THEOREM Invariance == Spec => []IInv
BY InitHolds, NextKeeps, PTL DEF Spec

\* Once the VEN has heard the broker's last word and has nothing left to do,
\* what it has applied is what the broker keeps: for every queue length, any
\* number of commands, changes, breaks and restarts.
THEOREM VenFollowsBroker == Spec => []AtRestFollowsBroker
<1>1. IInv => AtRestFollowsBroker
  BY DEF IInv, CommandTypes, LastWord, Settled, AtRestFollowsBroker
<1> QED
  BY <1>1, Invariance, PTL

\* A process carries out ever newer commands, so no redelivery undoes a local
\* change made after the command.
THEOREM OnlyNewCommands == Spec => NeverAppliesAnOldCommand
<1>1. IInv /\ [Next]_vars =>
        [task.step = "recv" /\ task'.step = "set" /\ task'.source = "fleet"
            => task'.payload.at > lastApplied]_vars
  <2> SUFFICES ASSUME IInv, [Next]_vars, task.step = "recv", task'.step = "set",
                      task'.source = "fleet"
               PROVE  task'.payload.at > lastApplied
    OBVIOUS
  <2>1. CASE ReceiveCommand
    BY <2>1, ReceiveCommandKeeps
  <2>2. CASE Aside
    BY <2>2 DEF Aside, Idle
  <2>3. CASE \/ BrokerTakesCommand \/ BrokerTakesSubscription \/ BffSubscribes
             \/ BrokerTakesBffSubscription \/ BffLosesConnection
             \/ \E o \in Objectives : SetLocally(o)
             \/ \E payload \in Payloads(clock + 1) : CommandVen(payload)
             \/ \E payload \in Payloads(0) : CommandFleet(payload)
             \/ \E payload \in sweep : SweepArrives(payload)
    BY <2>3 DEF BrokerTakesCommand, BrokerTakesSubscription, BffSubscribes, SetLocally, CommandVen,
        BrokerTakesBffSubscription, BffLosesConnection, CommandFleet, SweepArrives, venVars
  <2>4. CASE CarryOut \/ VenRestarts
    BY <2>4 DEF CarryOut, VenRestarts, Idle
  <2> QED
    BY <2>1, <2>2, <2>3, <2>4, AsideSteps DEF Next, VenNext, BffNext
<1> QED
  BY <1>1, Invariance, PTL DEF Spec, NeverAppliesAnOldCommand

-----------------------------------------------------------------------------
(* The setting's way back: what is written, published and kept as the leaf *)

Sayable == Objectives \cup {Profile}

ToBroker == [what : {"leaf", "subscribe", "sample"}, body : ObjectiveSetting \cup {None}]

LeafTypes ==
    /\ leaf \in ObjectiveSetting \cup {None}
    /\ setting \in ObjectiveSetting /\ latest \in ObjectiveSetting
    /\ changing \subseteq ObjectiveSetting
    /\ BagToSet(publishing) \subseteq ObjectiveSetting
    /\ requests \in Seq(ToBroker)
    /\ link \in {"down", "connected", "subscribed"}
    /\ bff \in {"down", "connected", "subscribing", "subscribed"}
    /\ task \in [step : {"recv", "set", "publish"}, payload : Payload \cup {None},
                 source : {"none", "fleet", "profile"}, objective : Sayable]
    /\ task.step = "set" => task.source # "none"

LEMMA Settings ==
    /\ FromProfile \in ObjectiveSetting
    /\ \A o \in Sayable, kind \in {"profile", "ven_ui", "fleet"}, at \in Nat :
        Setting(o, kind, at) \in ObjectiveSetting
    /\ \A s \in ObjectiveSetting : LeafRequest(s) \in ToBroker
    /\ SubscribeRequest \in ToBroker /\ SampleRequest \in ToBroker
BY DEF FromProfile, Setting, ObjectiveSetting, Sayable, LeafRequest, SubscribeRequest,
    SampleRequest, ToBroker

\* A detached task's bag gains what is published and loses what was.
LEMMA BagHolds ==
    ASSUME NEW B, NEW s
    PROVE  /\ BagToSet(SetToBag({s})) = {s}
           /\ BagToSet(B (+) SetToBag({s})) = BagToSet(B) \cup {s}
           /\ BagToSet(B (-) SetToBag({s})) \subseteq BagToSet(B)
BY DEF BagToSet, SetToBag, (+), (-)

LEMMA IdleTyped ==
    /\ Idle \in [step : {"recv", "set", "publish"}, payload : Payload \cup {None},
                 source : {"none", "fleet", "profile"}, objective : Sayable]
    /\ Idle.step = "recv"
BY DEF Idle, Sayable

LEMMA LeafInit == Init => LeafTypes
<1>1. BagToSet(SetToBag({FromProfile})) = {FromProfile}
  BY BagHolds
<1> SUFFICES ASSUME Init PROVE LeafTypes
  OBVIOUS
<1>2. BagToSet(publishing) = {FromProfile} /\ FromProfile \in ObjectiveSetting
  BY <1>1, Settings DEF Init
<1>3. requests \in Seq(ToBroker) /\ task = Idle
  BY DEF Init
<1>4. leaf = None /\ setting = FromProfile /\ latest = FromProfile /\ changing = {}
      /\ link = "down" /\ bff = "down"
  BY DEF Init
<1> HIDE DEF Init
<1> QED BY <1>2, <1>3, <1>4, IdleTyped DEF LeafTypes

\* The steps that write the setting, by hand or for a command.
LEMMA WritesKeep ==
    ASSUME CommandTypes, LeafTypes,
           CarryOut \/ VenRestarts \/ \E o \in Objectives : SetLocally(o)
    PROVE  LeafTypes'
<1>1. CASE CarryOut
  <2>1. task.source \in {"profile", "ven_ui", "fleet"} /\ task.objective \in Sayable
        /\ clock' = clock + 1 /\ clock' \in Nat
    BY <1>1 DEF CarryOut, Sets, CommandTypes, LeafTypes
  <2>2. setting' \in ObjectiveSetting /\ changing' = changing \cup {setting'}
    BY <1>1, <2>1, Settings DEF CarryOut, Sets
  <2> QED
    BY <1>1, <2>1, <2>2 DEF CarryOut, LeafTypes, Sets, bffVars
<1>2. CASE VenRestarts
  <2>1. publishing' = SetToBag({FromProfile})
    BY <1>2 DEF VenRestarts
  <2>2. BagToSet(publishing') = {FromProfile}
    BY <2>1, BagHolds
  <2>3. requests' \in Seq(ToBroker) /\ task' = Idle /\ FromProfile \in ObjectiveSetting
    BY <1>2, Settings DEF VenRestarts
  <2>4. UNCHANGED <<leaf, bff>> /\ setting' = FromProfile /\ latest' = FromProfile
        /\ changing' = {} /\ link' = "down"
    BY <1>2 DEF VenRestarts, bffVars
  <2> QED BY <2>2, <2>3, <2>4, IdleTyped DEF LeafTypes
<1>3. CASE \E o \in Objectives : SetLocally(o)
  <2>1. PICK o \in Objectives : SetLocally(o)
    BY <1>3
  <2>2. setting' \in ObjectiveSetting /\ changing' = changing \cup {setting'}
    BY <2>1, Settings DEF SetLocally, Sets, CommandTypes, Sayable
  <2> QED
    BY <2>1, <2>2 DEF SetLocally, LeafTypes, bffVars
<1> QED BY <1>1, <1>2, <1>3

\* The steps on a setting's way to the leaf.
LEMMA PublishingKeeps ==
    ASSUME LeafTypes,
           \/ VenConnects \/ VenLosesConnection \/ PublishTelemetry
           \/ BrokerTakesLeaf \/ BrokerTakesSubscription
           \/ \E s \in BagToSet(publishing) : PublishLeaf(s)
           \/ \E s \in changing : PublishObjective(s)
    PROVE  LeafTypes'
<1>1. CASE VenConnects
  <2>1. requests' \in Seq(ToBroker)
    BY <1>1, Settings, AppendInSeq DEF VenConnects, LeafTypes
  <2>2. publishing' = publishing (+) SetToBag({latest}) /\ latest \in ObjectiveSetting
        /\ BagToSet(publishing) \subseteq ObjectiveSetting
    BY <1>1 DEF VenConnects, LeafTypes
  <2>3. BagToSet(publishing') = BagToSet(publishing) \cup {latest}
    BY <2>2, BagHolds
  <2> QED BY <1>1, <2>1, <2>2, <2>3 DEF VenConnects, LeafTypes, bffVars
<1>2. CASE VenLosesConnection
  BY <1>2 DEF VenLosesConnection, LeafTypes, bffVars
<1>3. CASE PublishTelemetry
  <2>1. requests' \in Seq(ToBroker)
    BY <1>3, Settings, AppendInSeq DEF PublishTelemetry, LeafTypes
  <2> QED BY <1>3, <2>1 DEF PublishTelemetry, LeafTypes, bffVars
<1>4. CASE BrokerTakesLeaf
  <2>1. Head(requests) \in ToBroker /\ requests' \in Seq(ToBroker)
    BY <1>4, HeadInSeq DEF BrokerTakesLeaf, LeafTypes
  <2>2. leaf' \in ObjectiveSetting \cup {None}
    BY <1>4, <2>1 DEF BrokerTakesLeaf, LeafTypes, ToBroker
  <2> QED BY <1>4, <2>1, <2>2 DEF BrokerTakesLeaf, LeafTypes
<1>5. CASE BrokerTakesSubscription
  <2>1. requests' \in Seq(ToBroker)
    BY <1>5, HeadInSeq DEF BrokerTakesSubscription, LeafTypes
  <2> QED BY <1>5, <2>1 DEF BrokerTakesSubscription, LeafTypes, bffVars
<1>6. CASE \E s \in BagToSet(publishing) : PublishLeaf(s)
  <2>1. PICK s \in BagToSet(publishing) : PublishLeaf(s)
    BY <1>6
  <2>2. LeafRequest(s) \in ToBroker
    BY <2>1, Settings DEF LeafTypes
  <2>3. requests' \in Seq(ToBroker)
    BY <2>1, <2>2, AppendInSeq DEF PublishLeaf, LeafTypes
  <2>4. publishing' = publishing (-) SetToBag({s})
    BY <2>1 DEF PublishLeaf
  <2>5. BagToSet(publishing') \subseteq BagToSet(publishing)
    BY <2>4, BagHolds
  <2> QED BY <2>1, <2>3, <2>5 DEF PublishLeaf, LeafTypes, bffVars
<1>7. CASE \E s \in changing : PublishObjective(s)
  <2>1. PICK s \in changing : PublishObjective(s)
    BY <1>7
  <2>2. publishing' = publishing (+) SetToBag({s})
    BY <2>1 DEF PublishObjective
  <2>3. BagToSet(publishing') = BagToSet(publishing) \cup {s}
    BY <2>2, BagHolds
  <2> QED BY <2>1, <2>2, <2>3, IdleTyped DEF PublishObjective, LeafTypes, bffVars
<1> QED BY <1>1, <1>2, <1>3, <1>4, <1>5, <1>6, <1>7

LEMMA ReceivingKeeps == ASSUME CommandTypes, LeafTypes, ReceiveCommand PROVE LeafTypes'
<1>1. Head(commands) \in Payload
  BY HeadInSeq DEF ReceiveCommand, CommandTypes
<1>2. Head(commands).objective \in Sayable /\ Profile \in Sayable
  BY <1>1 DEF Payload, Sayable
<1>3. /\ task' \in [step : {"recv", "set", "publish"}, payload : Payload \cup {None},
                    source : {"none", "fleet", "profile"}, objective : Sayable]
      /\ task'.step = "set" => task'.source # "none"
  BY <1>1, <1>2 DEF ReceiveCommand, LeafTypes
<1> QED BY <1>3 DEF ReceiveCommand, LeafTypes, bffVars

\* The steps of the BFF, and the broker's on its messages, touch none of it but
\* the BFF's own connection.
LEMMA BffKeepsLeaf ==
    ASSUME LeafTypes, BffNext \/ UNCHANGED vars
    PROVE  LeafTypes'
BY DEF BffNext, LeafTypes, BrokerTakesCommand, CommandVen, CommandFleet, SweepArrives, BffConnects,
    BffSubscribes, BrokerTakesBffSubscription, BffLosesConnection, vars, venVars, bffVars

\* Whatever is set, commanded, lost or restarted, every message, setting and
\* task stays one the code can produce, and the command queue within its limit.
THEOREM TypeCorrect == Spec => []TypeOK
<1>1. Init => LeafTypes
  BY LeafInit
<1>2. IInv /\ LeafTypes /\ [Next]_vars => LeafTypes'
  BY WritesKeep, PublishingKeeps, ReceivingKeeps, BffKeepsLeaf DEF IInv, Next, VenNext
<1>3. IInv /\ LeafTypes => TypeOK
  BY DEF IInv, CommandTypes, LeafTypes, TypeOK, Sayable
<1> QED BY <1>1, <1>2, <1>3, Invariance, PTL DEF Spec
=============================================================================
