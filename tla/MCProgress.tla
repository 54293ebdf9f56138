----------------------------- MODULE MCProgress ------------------------------
(***************************************************************************)
(* What must come about in the end, in the parts of the program that keep  *)
(* asking: live streams, the supervisors of camera workers, the refresh of *)
(* cameras, their control, the MQTT listener, preview images, the pre-roll *)
(* of clips, firmware updates, network accounts and plugin packages.  They *)
(* share no state: Init chooses one, `which`, and v1, v2, ... stand for    *)
(* its variables, as in MCServices (LiveManager keeps its own); those it   *)
(* does not need are Off.                                                  *)
(***************************************************************************)
EXTENDS LiveManager

CONSTANTS
    Off,
    Kinds, MaxEdits,            \* workers
    Brokers, MaxSaves,          \* the MQTT listener
    MaxConn, Good, MaxLosses,   \* the refresh of a camera
    Parts, MaxCommands,         \* its control
    MaxStarts,                  \* its firmware
    Uplinks, MaxMoves,          \* network accounts
    MaxVersions,                \* preview images
    MaxStreams, MaxDeaths,      \* the pre-roll
    MaxTroubles                 \* workers, listener, control, network, images

ASSUME WorkersAssumption == MaxEdits \in Nat /\ MaxTroubles \in Nat
ASSUME ListenerAssumption == "none" \notin Brokers /\ MaxSaves \in Nat
ASSUME CameraAssumption ==
    /\ MaxConn \in Nat \ {0}
    /\ {MaxLosses, MaxCommands, MaxStarts, MaxVersions, MaxStreams, MaxDeaths} \subseteq Nat
ASSUME NetworkAssumption == {"unknown", "offline"} \cap Uplinks = {} /\ MaxMoves \in Nat

VARIABLES which, v1, v2, v3, v4, v5, v6, v7, v8, v9, v10, v11, v12, v13, v14

machine == <<v1, v2, v3, v4, v5, v6, v7, v8, v9, v10, v11, v12, v13, v14>>
progressVars == <<which, machine, vars>>

P == INSTANCE PluginPackages WITH
    Kinds <- {"cloud", "network"}, MaxSha <- 2, Defective <- {}, Defect <- "load",
    NeedsPackage <- {}, Syncs <- {1}, MaxTroubles <- 0,
    kind <- v1, target <- v2, backup <- v3, registry <- v4, at <- v5,
    coming <- v6, by <- v7, head <- v8, row <- v9, sync <- v10, check <- v11,
    inUse <- v12, satisfied <- v13, troubles <- v14
W == INSTANCE CameraWorkers WITH
    Tasks <- {1, 2},
    kind <- v1, settings <- v2, edits <- v3, sup <- v4, current <- v5,
    task <- v6, troubles <- v7
R == INSTANCE CameraRefresh WITH
    Keys <- {"catalog", "ai"},
    key <- v1, there <- v2, localOn <- v3, conn <- v4, stream <- v5,
    probing <- v6, seen <- v7, row <- v8, channelOn <- v9, worker <- v10,
    pending <- v11, broker <- v12, losses <- v13
C == INSTANCE CameraControl WITH
    Commands <- {1, 2},
    device <- v1, moving <- v2, command <- v3, given <- v4, probe <- v5,
    cooling <- v6, cache <- v7, broker <- v8, unstopped <- v9, troubles <- v10
F == INSTANCE FirmwareUpdates WITH
    Checks <- {1, 2}, Updates <- {1, 2},
    entry <- v1, checking <- v2, updating <- v3, starts <- v4
N == INSTANCE NetworkAccounts WITH
    Pages <- {"page"},
    account <- v1, mapped <- v2, world <- v3, probe <- v4, inFlight <- v5,
    cooling <- v6, cache <- v7, status <- v8, log <- v9, moves <- v10,
    troubles <- v11
I == INSTANCE Snapshots WITH
    Callers <- {"loop", "mcp"}, MaxEdits <- MaxVersions,
    there <- v1, version <- v2, uri <- v3, editor <- v4, caller <- v5,
    image <- v6, old <- v7, crossed <- v8, troubles <- v9
L == INSTANCE MqttListener WITH
    config <- v1, saves <- v2, up <- v3, listener <- v4, fingerprint <- v5,
    client <- v6, clients <- v7, refused <- v8, troubles <- v9
E == INSTANCE Prebuffer WITH
    MaxEdits <- MaxStreams, MaxTroubles <- MaxDeaths,
    camera <- v1, stream <- v2, edits <- v3, process <- v4, running <- v5,
    ending <- v6, segments <- v7, clip <- v8, beside <- v9, troubles <- v10

NoStream ==
    /\ pc = Off /\ attempt = Off /\ ticket = Off /\ nextAttempt = Off
    /\ process = Off /\ generation = Off /\ cooling = Off
    /\ playlist = Off /\ messages = Off /\ ffmpeg = Off /\ born = Off
    /\ reader = Off /\ overlapped = Off /\ stops = Off
NoMachine ==
    /\ v1 = Off /\ v2 = Off /\ v3 = Off /\ v4 = Off /\ v5 = Off
    /\ v6 = Off /\ v7 = Off /\ v8 = Off /\ v9 = Off /\ v10 = Off
    /\ v11 = Off /\ v12 = Off /\ v13 = Off /\ v14 = Off

ProgressInit ==
    \/ /\ which = "live" /\ Init /\ NoMachine
    \/ /\ which = "packages" /\ P!Init /\ NoStream
    \/ /\ which = "workers" /\ W!Init /\ NoStream
       /\ v8 = Off /\ v9 = Off /\ v10 = Off /\ v11 = Off /\ v12 = Off
       /\ v13 = Off /\ v14 = Off
    \/ /\ which = "refresh" /\ R!Init /\ NoStream
       /\ v14 = Off
    \/ /\ which = "control" /\ C!Init /\ NoStream
       /\ v11 = Off /\ v12 = Off /\ v13 = Off /\ v14 = Off
    \/ /\ which = "firmware" /\ F!Init /\ NoStream
       /\ v5 = Off /\ v6 = Off /\ v7 = Off /\ v8 = Off /\ v9 = Off
       /\ v10 = Off /\ v11 = Off /\ v12 = Off /\ v13 = Off /\ v14 = Off
    \/ /\ which = "network" /\ N!Init /\ NoStream
       /\ v12 = Off /\ v13 = Off /\ v14 = Off
    \/ /\ which = "images" /\ I!Init /\ NoStream
       /\ v10 = Off /\ v11 = Off /\ v12 = Off /\ v13 = Off /\ v14 = Off
    \/ /\ which = "listener" /\ L!Init /\ NoStream
       /\ v10 = Off /\ v11 = Off /\ v12 = Off /\ v13 = Off /\ v14 = Off
    \/ /\ which = "preroll" /\ E!Init /\ NoStream
       /\ v11 = Off /\ v12 = Off /\ v13 = Off /\ v14 = Off

\* A step of one machine leaves what is not its own alone.
InWatch == which = "live" /\ UNCHANGED <<which, machine>>
InInstall == which = "packages" /\ UNCHANGED <<which, vars>>
InWork ==
    /\ which = "workers"
    /\ UNCHANGED <<which, vars, v8, v9, v10, v11, v12, v13, v14>>
InRefresh == which = "refresh" /\ UNCHANGED <<which, vars, v14>>
InControl ==
    /\ which = "control"
    /\ UNCHANGED <<which, vars, v11, v12, v13, v14>>
InUpdate ==
    /\ which = "firmware"
    /\ UNCHANGED <<which, vars, v5, v6, v7, v8, v9, v10, v11, v12, v13, v14>>
InLocate == which = "network" /\ UNCHANGED <<which, vars, v12, v13, v14>>
InImages ==
    /\ which = "images"
    /\ UNCHANGED <<which, vars, v10, v11, v12, v13, v14>>
InListen ==
    /\ which = "listener"
    /\ UNCHANGED <<which, vars, v10, v11, v12, v13, v14>>
InBuffer ==
    /\ which = "preroll"
    /\ UNCHANGED <<which, vars, v11, v12, v13, v14>>

Watch == InWatch /\ Next
Install == InInstall /\ P!Next
Work == InWork /\ W!Next
Refresh == InRefresh /\ R!Next
Control == InControl /\ C!Next
Update == InUpdate /\ F!Next
Locate == InLocate /\ N!Next
TakeImages == InImages /\ I!Next
Listen == InListen /\ L!Next
Buffer == InBuffer /\ E!Next

ProgressNext ==
    \/ Watch
    \/ Install
    \/ Work
    \/ Refresh
    \/ Control
    \/ Update
    \/ Locate
    \/ TakeImages
    \/ Listen
    \/ Buffer

\* The fairness of each module.  A step of one machine is never possible while
\* another was chosen, so one condition serves several of them.
Fairness1 == WF_progressVars(
    \/ InWatch /\ Retry
    \/ InInstall /\ P!InstallStep
    \/ InWork /\ W!SupervisorRuns
    \/ InRefresh /\ R!Poll
    \/ InControl /\ C!KickOff
    \/ InUpdate /\ F!EndCheck(1)
    \/ InLocate /\ N!PollAsks
    \/ InImages /\ I!AskSnapshotLoop
    \/ InListen /\ L!ListenerRuns
    \/ InBuffer /\ E!Poll)
Fairness2 == WF_progressVars(
    \/ InWatch /\ CoolDown
    \/ InInstall /\ P!Answer
    \/ InRefresh /\ R!WorkerReturns
    \/ InControl /\ C!ProbeRuns
    \/ InUpdate /\ F!EndCheck(2)
    \/ InLocate /\ N!Answered("poll")
    \/ InImages /\ I!Delete)
Fairness3 == \A b \in BOOLEAN : WF_progressVars(
    \/ InWatch /\ CallerNext(IF b THEN "loop" ELSE "pool")
    \/ InWork /\ W!TaskRuns(IF b THEN 1 ELSE 2)
    \/ InRefresh /\ R!Publish(b)
    \/ InControl /\ C!CommandRuns(IF b THEN 1 ELSE 2)
    \/ InUpdate /\ F!EndUpdate(IF b THEN 1 ELSE 2)
    \/ InLocate /\ IF b THEN N!Records("poll") ELSE N!Records("page")
    \/ InImages /\ IF b THEN I!Served("loop") ELSE I!Served("mcp"))
Fairness4 == \A c \in {"page", "test", "picker"} : WF_progressVars(
    \/ InLocate /\ N!Answered(c)
    \/ InControl /\ c = "page" /\ C!CoolingEnds
    \/ InRefresh /\ R!ProbeEnds(IF c = "page" THEN c ELSE IF c = "test" THEN "poll" ELSE "edit"))
Fairness5 == \A c \in {"test", "picker"} : WF_progressVars(
    \/ InLocate /\ N!Records(c)
    \/ InImages /\ IF c = "test" THEN I!Ages ELSE I!RefreshCamera)
StrongFairness ==
    /\ SF_progressVars((InInstall /\ P!RecordCheck) \/ (InRefresh /\ R!Frame))
    /\ SF_progressVars(InInstall /\ P!BeginCheck)

ProgressSpec ==
    /\ ProgressInit /\ [][ProgressNext]_progressVars
    /\ Fairness1 /\ Fairness2 /\ Fairness3 /\ Fairness4 /\ Fairness5
    /\ StrongFairness

-----------------------------------------------------------------------------
(* Properties: each says what its machine promises.                        *)

ProgressTypeOK ==
    /\ which = "live" => TypeOK
    /\ which = "packages" => P!TypeOK
    /\ which = "workers" => W!TypeOK
    /\ which = "refresh" => R!TypeOK
    /\ which = "control" => C!TypeOK
    /\ which = "firmware" => F!TypeOK
    /\ which = "network" => N!TypeOK
    /\ which = "images" => I!TypeOK
    /\ which = "listener" => L!TypeOK
    /\ which = "preroll" => E!TypeOK

\* Nothing runs beside its successor: as long as two starts of a stream never
\* overlapped, no ffmpeg but the current one is left running and generations
\* tell attempts apart; and a camera never has two workers, however edits fall
\* between the supervisor's read, its wait for the old worker and the new
\* worker's own read; nor is there a second MQTT client, whose id would part
\* the two for ever (live.py, supervisor.py, mqtt.py).
NothingTwice ==
    /\ which = "live" => NoStray /\ GenerationsDistinct
    /\ which = "workers" => W!OneWorker
    /\ which = "listener" => L!OneClient

\* What ended is brought back: a stream whose ffmpeg died is launched again
\* while a page polls it; after the last edit a camera's worker in the end runs
\* with the settings as they are now, or is gone if it is not wanted; and the
\* pre-roll is kept where it is wanted, without bringing back what an earlier
\* process left (live.py, status; detection/supervisor.py, audio_supervisor.py,
\* main.py; recording.py, _ensure_prebuffer).
WorkReturns ==
    /\ (which = "live" /\ Dead) ~> (which = "live" => Alive)
    /\ <>[](which = "workers" => W!Followed)
    /\ <>[](which = "preroll" => E!Kept)
    /\ [](which = "preroll" => E!PrerollExplained)

\* A commit newer than the installed one is flagged or installed in the end,
\* although checks read the source before they ask and synchronisations write
\* it meanwhile (routers/plugins.py, main.py).
NewCommitNoticed ==
    (which = "packages" /\ P!Behind) ~> (which = "packages" => P!Noticed)

\* However the edit of a camera, its check, the poll and a refresh of the page
\* overlap, the stream address is in the end that of the current settings; a
\* detection that is over is not reported for ever; the broker ends up with
\* the state that no longer changes; and the preview image is in the end one of
\* the present connection (main.py, supervisor.py, snapshots.py).
RefreshSettles ==
    /\ <>[](which = "refresh" => R!Current)
    /\ (which = "refresh" /\ R!Over) ~> (which = "refresh" => R!Ended)
    /\ \A value \in BOOLEAN :
         <>[](which = "refresh" /\ R!Holds(value)) => <>[](v12 = value)
    /\ <>[](which = "images" => I!Preview)

\* Whatever commands overlap or time out while their thread goes on, the page
\* and the broker end up with what the camera is set to, the camera stops
\* moving unless a Stop did not reach it, a page that waits for a firmware
\* check or update is told how it ended, and commands are heard at the broker
\* that is set, unless its first connect failed or a read of the settings
\* ended the listener (main.py, onvif_control.py, mqtt.py).
ControlSettles ==
    /\ <>[](which = "control" => C!Settled /\ C!AtRest)
    /\ <>[](which = "firmware" => F!Told)
    /\ <>[](which = "listener" => L!Follows)

\* A mapped camera's status ends up with what the network is, although probes
\* that saw an older state may come in after newer ones (main.py,
\* _record_network_device_status).
StatusFollows ==
    <>[](which = "network" /\ v2) => <>[](which = "network" => N!Located)
=============================================================================
