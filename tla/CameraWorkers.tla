---------------------------- MODULE CameraWorkers ----------------------------
(***************************************************************************)
(* The three supervisors that keep one background worker per camera: the   *)
(* event connections (main.py), local video AI (detection/supervisor.py)   *)
(* and local audio AI (detection/audio_supervisor.py).  One camera.  Each  *)
(* supervisor compares a fingerprint of the settings it read with the one  *)
(* its worker was started for; the worker reads the settings for itself,   *)
(* again after every failure.  Both are tasks of one event loop, so only   *)
(* an await lets the other, or an edit, in between.                        *)
(***************************************************************************)
EXTENDS Naturals, FiniteSets

CONSTANTS
    Kinds,      \* which supervisors: "events", "video", "audio"
    Tasks,      \* worker tasks, from 1; an ended one may be used again
    MaxEdits,   \* bound: how often the administrator edits the camera
    MaxTroubles \* bound: how often a worker fails

VARIABLES
    kind,
    settings,   \* the rows a worker depends on
    edits,
    sup,        \* the supervisor: asleep, or waiting for a cancelled worker
    current,    \* workers[camera_id]: the task, and its fingerprint
    task,       \* every task
    troubles

workerVars == <<kind, settings, edits, sup, current, task, troubles>>

NoTask == 0
NoCamera == 0               \* nothing wanted: the fingerprint of no camera

\* main: what the fingerprint covers; port: onvif_port, which it does not;
\* zones: covered, but read by the worker after its backend is built.
Settings == [wanted : BOOLEAN, main : 1 .. MaxEdits + 1,
             port : 1 .. MaxEdits + 1, zones : 1 .. MaxEdits + 1]

EventConnectionFingerprint(s) == <<s.main>>
AudioFingerprint(s) == <<s.main>>
VideoFingerprintNoZones(s) == <<s.main>>      \* mutant: zones left out
VideoFingerprint(s) == <<s.main, s.zones>>
Fingerprint(s) ==
    IF ~s.wanted THEN <<NoCamera>>
    ELSE CASE kind = "events" -> EventConnectionFingerprint(s)
           [] kind = "video"  -> VideoFingerprint(s)
           [] kind = "audio"  -> AudioFingerprint(s)

Ended == [at |-> "ended", main |-> 0, port |-> 0, zones |-> 0]

Init ==
    /\ kind \in Kinds
    /\ settings = [wanted |-> TRUE, main |-> 1, port |-> 1, zones |-> 1]
    /\ edits = 0
    /\ sup = [at |-> "asleep", seen |-> <<NoCamera>>]
    /\ current = [task |-> NoTask, of |-> <<NoCamera>>]
    /\ task = [t \in Tasks |-> Ended]
    /\ troubles = 0

-----------------------------------------------------------------------------
(* The administrator.                                                      *)

Edit(new) ==
    /\ edits < MaxEdits
    /\ edits' = edits + 1
    /\ settings' = new
    /\ UNCHANGED <<kind, sup, current, task, troubles>>

\* A value is never set back to an earlier one (see README).
EditConnection == Edit([settings EXCEPT !.main = @ + 1])
EditPort == kind = "events" /\ Edit([settings EXCEPT !.port = @ + 1])
EditZones == kind = "video" /\ Edit([settings EXCEPT !.zones = @ + 1])
\* Local AI is switched on and off; a camera is only ever deleted.
Switch ==
    /\ kind = "events" => settings.wanted
    /\ Edit([settings EXCEPT !.wanted = ~@])

-----------------------------------------------------------------------------
(* The supervisor.                                                         *)

\* The worker has ended, or was started for other settings.
Outdated(fp) ==
    /\ current.task # NoTask
    /\ task[current.task].at = "ended" \/ current.of # fp

\* A task that has not run yet, or waits, ends when it is cancelled; one that
\* pulls events unsubscribes first.
Cancelled(t) ==
    IF task[t].at = "run" /\ kind = "events" THEN [task[t] EXCEPT !.at = "ending"]
    ELSE Ended

\* The fingerprint is the one read before the old worker was waited for.
Started(fp) ==
    \E t \in Tasks \ {current.task} :
        /\ task[t].at = "ended"
        /\ task' = [task EXCEPT ![t].at = "read"]
        /\ current' = [task |-> t, of |-> fp]

\* One round, up to its first await.
Reconcile ==
    /\ sup.at = "asleep"
    /\ LET fp == Fingerprint(settings) IN
       IF Outdated(fp)
       THEN /\ task' = [task EXCEPT ![current.task] = Cancelled(current.task)]
            /\ sup' = [at |-> "joining", seen |-> fp]
            /\ UNCHANGED current
       ELSE /\ IF settings.wanted /\ current.task = NoTask THEN Started(fp)
               ELSE UNCHANGED <<current, task>>
            /\ UNCHANGED sup
    /\ UNCHANGED <<kind, settings, edits, troubles>>

ReplaceWithoutWaiting ==                      \* mutant: gather forgotten
    /\ sup.at = "joining"
    /\ IF sup.seen # <<NoCamera>> THEN Started(sup.seen)
       ELSE /\ current' = [task |-> NoTask, of |-> <<NoCamera>>]
            /\ UNCHANGED task
    /\ sup' = [at |-> "asleep", seen |-> <<NoCamera>>]
    /\ UNCHANGED <<kind, settings, edits, troubles>>

\* gather returns; the new worker starts in the same turn.
Replace ==
    /\ sup.at = "joining"
    /\ task[current.task].at = "ended"
    /\ IF sup.seen # <<NoCamera>> THEN Started(sup.seen)
       ELSE /\ current' = [task |-> NoTask, of |-> <<NoCamera>>]
            /\ UNCHANGED task
    /\ sup' = [at |-> "asleep", seen |-> <<NoCamera>>]
    /\ UNCHANGED <<kind, settings, edits, troubles>>

\* The three supervisors have the same shape.
SupervisorOf(k) == kind = k /\ (Reconcile \/ Replace)
CameraEventSupervisor == SupervisorOf("events")
DetectionSupervisor == SupervisorOf("video")
AudioDetectionSupervisor == SupervisorOf("audio")
SupervisorRuns == CameraEventSupervisor \/ DetectionSupervisor \/ AudioDetectionSupervisor

-----------------------------------------------------------------------------
(* The worker.                                                             *)

TaskStep(t, from, new) ==
    /\ task[t].at = from
    /\ task' = [task EXCEPT ![t] = new]
    /\ UNCHANGED <<kind, settings, edits, sup, current>>

\* Each round of the worker reads the rows; it ends when it is not wanted.
ReadSettings(t) ==
    /\ TaskStep(t, "read",
           IF settings.wanted
           THEN [at |-> "prepare", main |-> settings.main,
                 port |-> settings.port, zones |-> 0]
           ELSE Ended)
    /\ UNCHANGED troubles

\* The connection, or the backend, is built in a thread; then zones are read.
Prepared(t) ==
    /\ TaskStep(t, "prepare",
           [task[t] EXCEPT !.at = "run",
                           !.zones = IF kind = "video" THEN settings.zones ELSE 0])
    /\ UNCHANGED troubles

\* The camera is away, the stream breaks: fifteen seconds, then again.
Fails(t) ==
    /\ troubles < MaxTroubles
    /\ troubles' = troubles + 1
    /\ task[t].at \in {"prepare", "run"}
    /\ TaskStep(t, task[t].at, [Ended EXCEPT !.at = "backoff"])

Retry(t) ==
    /\ TaskStep(t, "backoff", [Ended EXCEPT !.at = "read"])
    /\ UNCHANGED troubles

\* The finally clause of the event connection.
Unsubscribe(t) ==
    /\ TaskStep(t, "ending", Ended)
    /\ UNCHANGED troubles

WorkerOf(k, t) ==
    /\ kind = k
    /\ \/ ReadSettings(t)
       \/ Prepared(t)
       \/ Retry(t)
       \/ Unsubscribe(t)
MonitorCameraEvents(t) == WorkerOf("events", t)
RunCameraDetectionWorker(t) == WorkerOf("video", t)
RunCameraAudioDetectionWorker(t) == WorkerOf("audio", t)
TaskRuns(t) ==
    \/ MonitorCameraEvents(t)
    \/ RunCameraDetectionWorker(t)
    \/ RunCameraAudioDetectionWorker(t)

Next ==
    \/ EditConnection
    \/ EditPort
    \/ EditZones
    \/ Switch
    \/ SupervisorRuns
    \/ \E t \in Tasks : TaskRuns(t) \/ Fails(t)

\* The loops never end and every thread they wait for answers or times out.
Fairness ==
    /\ WF_workerVars(SupervisorRuns)
    /\ \A t \in Tasks : WF_workerVars(TaskRuns(t))

Spec == Init /\ [][Next]_workerVars
FairSpec == Spec /\ Fairness

-----------------------------------------------------------------------------
(* Properties.                                                             *)

TypeOK ==
    /\ kind \in Kinds
    /\ settings \in Settings
    /\ edits \in 0 .. MaxEdits
    /\ sup.at \in {"asleep", "joining"}
    /\ current.task \in Tasks \cup {NoTask}
    /\ task \in [Tasks -> [at : {"read", "prepare", "run", "backoff", "ending", "ended"},
                           main : Nat, port : Nat, zones : Nat]]
    /\ troubles \in 0 .. MaxTroubles

\* However edits fall between the supervisor's read, its wait for the old
\* worker and the new worker's own read, a camera never has two workers.
OneWorker ==
    Cardinality({t \in Tasks : task[t].at # "ended"}) <= 1

\* Why it holds: the one that has not ended is the one the supervisor knows.
Ordered ==
    /\ {settings.main, settings.port, settings.zones} \subseteq 1 .. edits + 1
    /\ sup.at = "joining" => current.task \in Tasks
    /\ \A t \in Tasks : task[t].at # "ended" => t = current.task

IInv == TypeOK /\ Ordered

Running(t) == task[t].at = "run"

\* After the last edit the worker in the end runs with the settings as they
\* are now, or is gone if it is not wanted: what the fingerprint covers.
Followed ==
    IF settings.wanted
    THEN \E t \in Tasks :
             /\ Running(t)
             /\ task[t].main = settings.main
             /\ kind = "video" => task[t].zones = settings.zones
    ELSE \A t \in Tasks : task[t].at = "ended"
FollowsSettings == <>[]Followed

\* detection/supervisor.py: "config changes restart the affected worker
\* cleanly".  The event connection is made to onvif_port.
FollowsPort ==
    <>[](settings.wanted =>
             \E t \in Tasks : Running(t) /\ task[t].port = settings.port)
=============================================================================
