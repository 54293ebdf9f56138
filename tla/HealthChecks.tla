---------------------------- MODULE HealthChecks -----------------------------
(***************************************************************************)
(* Health checks and their notifications: health.py, upsert_health_status  *)
(* (database.py), _health_loop (main.py) and the button of the health page *)
(* (routers/api_internal.py).  Every check is a read of the old status and *)
(* a later write; the button runs a whole round beside that of the loop.   *)
(***************************************************************************)
EXTENDS Naturals, Sequences, SequencesExt

CONSTANTS
    Order,      \* what a round looks at, in that order: a camera, its stream,
                \* a storage target, the MQTT broker
    Buttons,    \* requests for a round, beside the loop
    Limit,      \* newest events the loop looks at
    MaxChanges, \* bound: changes of what is checked
    MaxEvents,  \* bound: health_events
    MaxTroubles \* bound: restarts and rounds that fail

VARIABLES
    camera,     \* last_probe_status, and the stream: "none", "ok", "dead"
    disk,       \* the storage target: "free", "full", "broken", "cloud"
    broker,     \* MQTT: "off", "up", "down"
    status,     \* health_status
    events,     \* health_events, by id
    round,      \* where each round stands
    lastId,     \* last_health_event_id
    firstRun,   \* first_run
    told,       \* history: ids of the events notified, in order
    mixed,      \* history: rounds overlapped
    changes,    \* bound
    troubles    \* bound

healthVars == <<camera, disk, broker, status, events, round, lastId, firstRun,
                told, mixed, changes, troubles>>

Loop == 0
Rounds == {Loop} \cup Buttons
Components == Range(Order)
Statuses == {"ok", "warning", "error"}
None == "none"
Resting == [pc |-> "idle", next |-> 1, found |-> None, old |-> None]

\* _latest_health_event_id on an empty table
Init ==
    /\ camera \in [probe : {"failed"}, stream : {"none"}]
    /\ disk \in {"free", "cloud"}
    /\ broker = "off"
    /\ status = [c \in Components |-> None]
    /\ events = <<>>
    /\ round = [r \in Rounds |-> Resting]
    /\ lastId = 0
    /\ firstRun = TRUE
    /\ told = <<>>
    /\ mixed = FALSE
    /\ changes = 0
    /\ troubles = 0

-----------------------------------------------------------------------------
(* What is checked changes by itself.                                      *)

Change ==
    /\ changes < MaxChanges
    /\ changes' = changes + 1
    /\ UNCHANGED <<status, events, round, lastId, firstRun, told, mixed, troubles>>

CameraChanges(probe, stream) ==
    /\ "camera" \in Components
    /\ Change
    /\ camera' = [probe |-> probe, stream |-> stream]
    /\ camera' # camera
    /\ UNCHANGED <<disk, broker>>
DiskChanges(to) ==
    /\ "storage" \in Components /\ disk # "cloud"
    /\ Change
    /\ to # disk
    /\ disk' = to
    /\ UNCHANGED <<camera, broker>>
BrokerChanges(to) ==
    /\ "mqtt" \in Components
    /\ Change
    /\ to # broker
    /\ broker' = to
    /\ UNCHANGED <<camera, disk>>

-----------------------------------------------------------------------------
(* run_health_checks                                                       *)

CameraStatus == IF camera.probe = "ok" THEN "ok" ELSE "error"
\* _probe_stream, when the camera has a stream at all
StreamStatus ==
    IF camera.stream = "none" THEN "warning" ELSE IF camera.stream = "ok" THEN "ok" ELSE "error"
StorageStatus ==
    IF disk = "full" THEN "warning" ELSE IF disk = "broken" THEN "error" ELSE "ok"
MqttStatus ==
    IF broker = "off" THEN "warning" ELSE IF broker = "up" THEN "ok" ELSE "error"
Found(c) ==
    CASE c = "camera"  -> CameraStatus
      [] c = "stream"  -> StreamStatus
      [] c = "storage" -> StorageStatus
      [] c = "mqtt"    -> MqttStatus

Busy == {r \in Rounds : round[r].pc # "idle"}

Begin(r) ==
    /\ round[r].pc = "idle"
    /\ round' = [round EXCEPT ![r] = [Resting EXCEPT !.pc = "check"]]
    /\ mixed' = (mixed \/ Busy # {})
    /\ UNCHANGED <<camera, disk, broker, status, events, lastId, firstRun, told, changes, troubles>>

\* The component is looked at; upsert_health_status reads the old status.
Look(r) ==
    LET c == Order[round[r].next] IN
    /\ round[r].pc = "check"
    /\ round' = [round EXCEPT ![r].pc = "write", ![r].found = Found(c), ![r].old = status[c]]
    /\ UNCHANGED <<camera, disk, broker, status, events, lastId, firstRun, told, mixed, changes, troubles>>

RecordedAlways(old, found) == TRUE \* mutant
\* upsert_health_status: an event for a new component and for a change
Recorded(old, found) == old = None \/ old # found

\* health_refresh_api only shows what its round found.
Ended(r) == IF r = Loop THEN [Resting EXCEPT !.pc = "report"] ELSE Resting

\* upsert_health_status writes the status and the event in one transaction.
Write(r) ==
    LET c == Order[round[r].next] IN
    /\ round[r].pc = "write"
    /\ status' = [status EXCEPT ![c] = round[r].found]
    /\ IF Recorded(round[r].old, round[r].found)
       THEN /\ Len(events) < MaxEvents
            /\ events' = Append(events, [of |-> c, from |-> round[r].old, to |-> round[r].found])
       ELSE UNCHANGED events
    /\ round' = [round EXCEPT ![r] =
                    IF @.next = Len(Order) THEN Ended(r)
                    ELSE [Resting EXCEPT !.pc = "check", !.next = round[r].next + 1]]
    /\ UNCHANGED <<camera, disk, broker, lastId, firstRun, told, mixed, changes, troubles>>

-----------------------------------------------------------------------------
(* The end of a round.                                                     *)

\* list_health_events with a limit, less what the loop knows: the ids after it
\* that are among the newest
Known == IF lastId + Limit >= Len(events) THEN lastId ELSE Len(events) - Limit
NewEvents == [i \in 1..(Len(events) - Known) |-> Known + i]

NotAdvanced == lastId \* mutant
Advanced == IF NewEvents = <<>> THEN lastId ELSE Last(NewEvents)

\* _health_loop after a round; _notify_health_events, oldest first
Report ==
    /\ round[Loop].pc = "report"
    /\ lastId' = Advanced
    /\ told' = IF firstRun THEN told ELSE told \o NewEvents
    /\ firstRun' = FALSE
    /\ round' = [round EXCEPT ![Loop] = Resting]
    /\ UNCHANGED <<camera, disk, broker, status, events, mixed, changes, troubles>>

\* An exception ends the round; the loop starts another.
Fails(r) ==
    /\ round[r].pc = "check"
    /\ troubles < MaxTroubles
    /\ troubles' = troubles + 1
    /\ round' = [round EXCEPT ![r] = Resting]
    /\ UNCHANGED <<camera, disk, broker, status, events, lastId, firstRun, told, mixed, changes>>

\* _health_loop from the start; what happened before is not told any more.
Restart ==
    /\ troubles < MaxTroubles
    /\ troubles' = troubles + 1
    /\ round' = [r \in Rounds |-> Resting]
    /\ lastId' = Len(events)
    /\ firstRun' = TRUE
    /\ UNCHANGED <<camera, disk, broker, status, events, told, mixed, changes>>

Next ==
    \/ \E p \in {"ok", "failed"}, s \in {"none", "ok", "dead"} : CameraChanges(p, s)
    \/ \E d \in {"free", "full", "broken"} : DiskChanges(d)
    \/ \E b \in {"off", "up", "down"} : BrokerChanges(b)
    \/ \E r \in Rounds : Begin(r) \/ Look(r) \/ Write(r) \/ Fails(r)
    \/ Report
    \/ Restart

Spec == Init /\ [][Next]_healthVars

-----------------------------------------------------------------------------
Answers == Statuses \cup {None}
TypeOK ==
    /\ status \in [Components -> Answers]
    /\ events \in Seq([of : Components, from : Answers, to : Statuses])
    /\ round \in [Rounds -> [pc : {"idle", "check", "write", "report"},
                             next : 1..Len(Order), found : Answers, old : Answers]]
    /\ lastId \in 0..Len(events)
    /\ told \in Seq(Nat)
    /\ firstRun \in BOOLEAN /\ mixed \in BOOLEAN

\* An event is told at most once, and events are told in the order they
\* happened, whoever ran the round that found them (main.py, _health_loop).
ToldOnceInOrder == \A m, n \in DOMAIN told : m < n => told[m] < told[n]

\* The history of a component is a chain of changes that ends in its present
\* status, as long as no two rounds overlapped (database.py,
\* upsert_health_status).
NoneSince(n, c) == \A k \in DOMAIN events : k > n => events[k].of # c
Follows(m, n) ==
    /\ m < n /\ events[m].of = events[n].of
    /\ \A k \in DOMAIN events : m < k /\ k < n => events[k].of # events[n].of
HistoryIsAChain == ~mixed =>
    /\ \A n \in DOMAIN events :
           /\ events[n].to # events[n].from
           /\ \A m \in DOMAIN events : Follows(m, n) => events[m].to = events[n].from
           /\ NoneSince(n, events[n].of) => status[events[n].of] = events[n].to
    /\ \A c \in Components : status[c] = None <=> NoneSince(0, c)

\* Why it holds: what was told is not new, and a round that runs alone writes to
\* the status that it read.
Ordered ==
    /\ \A n \in DOMAIN told : told[n] <= lastId
    /\ \A r \in Rounds : round[r].pc = "write" => round[r].found \in Statuses
    /\ ~mixed =>
        /\ \A q, r \in Busy : q = r
        /\ \A r \in Rounds : round[r].pc = "write" =>
               round[r].old = status[Order[round[r].next]]

IInv == TypeOK /\ ToldOnceInOrder /\ HistoryIsAChain /\ Ordered
=============================================================================
