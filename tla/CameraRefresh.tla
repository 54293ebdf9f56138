---------------------------- MODULE CameraRefresh ----------------------------
(***************************************************************************)
(* What TBC knows of one camera, and who writes it: the poll loop, a       *)
(* refresh asked for by a page, the check after the connection was edited  *)
(* (main.py, _refresh_camera), the event connection and the local AI       *)
(* worker (both through _process_detection_states), and the retained MQTT  *)
(* topic the states are published to from unordered executor threads.      *)
(* One detection key: one of the plugin's catalog, which every probe sets  *)
(* to inactive, or one of local AI, which only its worker reports.         *)
(***************************************************************************)
EXTENDS Naturals

CONSTANTS
    Keys,       \* which key: "catalog" or "ai"
    MaxConn,    \* bound: connection settings the camera ever has, from 1
    Good,       \* those under which a probe succeeds
    MaxLosses   \* bound: end-of-motion messages the camera never sends

VARIABLES
    key,
    there,      \* the camera's row exists
    localOn,    \* local AI is switched on for the camera
    conn,       \* version of the connection settings
    stream,     \* the version its stream_uri was learned under; 0: none
    probing,    \* each refresh under way: the version it read; 0: none
    seen,       \* the camera sees what the key stands for
    row,        \* camera_detections.active
    channelOn,  \* the detection's channel is enabled
    worker,     \* the event connection, or the local AI worker, runs
    pending,    \* values of publish_detection_states calls not yet carried out
    broker,     \* the value the broker retains
    losses

refreshVars == <<key, there, localOn, conn, stream, probing, seen, row,
                 channelOn, worker, pending, broker, losses>>

Callers == {"poll", "page", "edit"}
NotProbing == 0
NoStream == 0

Init ==
    /\ key \in Keys
    /\ there = TRUE
    /\ localOn = TRUE
    /\ conn = 1
    /\ stream = NoStream
    /\ probing = [c \in Callers |-> NotProbing]
    /\ seen = FALSE
    /\ row = FALSE
    /\ channelOn = TRUE
    /\ worker = TRUE
    /\ pending = {}
    /\ broker = FALSE
    /\ losses = 0

Catalog == key = "catalog"

-----------------------------------------------------------------------------
(* _process_detection_states.                                              *)

\* apply_channel_enabled_filter
Filtered(active) == active /\ channelOn

ReportUnpublished(active) ==                  \* mutant: nothing is published
    /\ row' = Filtered(active)
    /\ UNCHANGED pending
\* replace_detections, and the task that publishes what was written.
Report(active) ==
    /\ row' = Filtered(active)
    /\ pending' = pending \cup {Filtered(active)}

\* An executor thread publishes; publish.multiple returns when it is sent.
Publish(value) ==
    /\ value \in pending
    /\ broker' = value
    /\ pending' = pending \ {value}
    /\ UNCHANGED <<key, there, localOn, conn, stream, probing, seen, row,
                   channelOn, worker, losses>>

-----------------------------------------------------------------------------
(* _refresh_camera: the row is read, the probe awaited, the result written. *)

Begin(c) ==
    /\ probing[c] = NotProbing
    /\ there
    /\ probing' = [probing EXCEPT ![c] = conn]
    /\ UNCHANGED <<key, there, localOn, conn, stream, seen, row, channelOn,
                   worker, pending, broker, losses>>

\* _poll_loop goes from camera to camera.
Poll == Begin("poll")

\* refresh_camera
RefreshButton == Begin("page")

LearnedNever(v) == IF stream = NoStream THEN v ELSE stream   \* mutant: kept
\* update_camera_probe: COALESCE keeps the stream when the probe found none.
Learned(v) == IF v \in Good THEN v ELSE stream

\* Every row of the catalog is written as inactive.  A camera deleted
\* meanwhile has no row to update; inserting its detections raises.
ProbeEnds(c) ==
    /\ probing[c] # NotProbing
    /\ probing' = [probing EXCEPT ![c] = NotProbing]
    /\ IF there
       THEN /\ stream' = Learned(probing[c])
            /\ IF Catalog THEN Report(FALSE) ELSE UNCHANGED <<row, pending>>
       ELSE UNCHANGED <<stream, row, pending>>
    /\ UNCHANGED <<key, there, localOn, conn, seen, channelOn, worker, broker,
                   losses>>

\* update_camera_connection: the stream is forgotten and a probe begins.
EditConnection ==
    /\ there
    /\ conn < MaxConn
    /\ probing["edit"] = NotProbing
    /\ conn' = conn + 1
    /\ stream' = NoStream
    /\ probing' = [probing EXCEPT !["edit"] = conn + 1]
    /\ UNCHANGED <<key, there, localOn, seen, row, channelOn, worker, pending,
                   broker, losses>>

-----------------------------------------------------------------------------
(* What happens at the camera, and who reports it.                         *)

Quiet == UNCHANGED <<key, there, localOn, conn, stream, probing, channelOn, broker>>

\* Something comes into view or leaves it.  The event connection reports the
\* change at once; the local AI worker sees it in its next frame.  The pairs of
\* onvif.monitor_events never reach the page as they are: the plugin that calls
\* it (standard_onvif/service.py _to_rows) makes whole rows of them first and
\* drops keys that its catalog does not know.
Appears ==
    /\ ~seen
    /\ seen' = TRUE
    /\ IF Catalog /\ worker /\ there THEN Report(TRUE)
       ELSE UNCHANGED <<row, pending>>
    /\ UNCHANGED <<worker, losses>>
    /\ Quiet

Leaves ==
    /\ seen
    /\ seen' = FALSE
    /\ IF Catalog /\ worker /\ there THEN Report(FALSE)
       ELSE UNCHANGED <<row, pending>>
    /\ UNCHANGED <<worker, losses>>
    /\ Quiet

\* A camera that forgets to send State=false.
LeavesUnreported ==
    /\ Catalog
    /\ seen
    /\ losses < MaxLosses
    /\ losses' = losses + 1
    /\ seen' = FALSE
    /\ UNCHANGED <<row, pending, worker>>
    /\ Quiet

FrameIfSeen ==                                \* mutant: an empty frame is skipped
    /\ ~Catalog
    /\ worker /\ there
    /\ seen
    /\ Report(TRUE)
    /\ UNCHANGED <<seen, worker, losses>>
    /\ Quiet
\* One frame of the local AI worker: every key is reported, active while it
\* is seen and until it has not been for the tracker's timeout.
Frame ==
    /\ ~Catalog
    /\ worker /\ there
    /\ Report(seen)
    /\ UNCHANGED <<seen, worker, losses>>
    /\ Quiet

FrameLingers ==
    /\ ~Catalog
    /\ worker /\ there
    /\ row /\ ~seen
    /\ Report(TRUE)
    /\ UNCHANGED <<seen, worker, losses>>
    /\ Quiet

\* The worker's stream or connection breaks, and is built up again; the
\* supervisor ends the worker of a deleted camera, or of local AI switched off.
WorkerBreaks ==
    /\ worker
    /\ worker' = FALSE
    /\ UNCHANGED <<seen, row, pending, losses>>
    /\ Quiet

WorkerReturns ==
    /\ ~worker
    /\ there
    /\ Catalog \/ localOn
    /\ worker' = TRUE
    /\ UNCHANGED <<seen, row, pending, losses>>
    /\ Quiet

-----------------------------------------------------------------------------
(* Settings pages.                                                         *)

SwitchChannel ==
    /\ channelOn' = ~channelOn
    /\ UNCHANGED <<key, there, localOn, conn, stream, probing, seen, row, worker,
                   pending, broker, losses>>

\* The camera's detections go with it (ON DELETE CASCADE); the broker keeps
\* what it retains.
DeleteCamera ==
    /\ there
    /\ there' = FALSE
    /\ row' = FALSE
    /\ stream' = NoStream
    /\ UNCHANGED <<key, localOn, conn, probing, seen, channelOn, worker, pending,
                   broker, losses>>

\* update_camera_detection
SwitchOffLocal ==
    /\ ~Catalog
    /\ localOn
    /\ localOn' = FALSE
    /\ UNCHANGED <<key, there, conn, stream, probing, seen, row, channelOn,
                   worker, pending, broker, losses>>

Next ==
    \/ \E value \in BOOLEAN : Publish(value)
    \/ Poll
    \/ RefreshButton
    \/ \E c \in Callers : ProbeEnds(c)
    \/ EditConnection
    \/ Appears
    \/ Leaves
    \/ LeavesUnreported
    \/ Frame
    \/ FrameLingers
    \/ WorkerBreaks
    \/ WorkerReturns
    \/ SwitchChannel
    \/ DeleteCamera
    \/ SwitchOffLocal

\* The poll loop catches every error and probes time out; executor threads
\* get to every task; a supervisor brings a worker back, and a worker that
\* is kept alive sees a frame in the end that is past the timeout.
Fairness ==
    /\ WF_refreshVars(Poll)
    /\ \A c \in Callers : WF_refreshVars(ProbeEnds(c))
    /\ \A value \in BOOLEAN : WF_refreshVars(Publish(value))
    /\ WF_refreshVars(WorkerReturns)
    /\ SF_refreshVars(Frame)

Spec == Init /\ [][Next]_refreshVars
FairSpec == Spec /\ Fairness

-----------------------------------------------------------------------------
(* Properties.                                                             *)

TypeOK ==
    /\ key \in Keys
    /\ {there, localOn, seen, row, channelOn, worker, broker} \subseteq BOOLEAN
    /\ conn \in 1 .. MaxConn
    /\ stream \in 0 .. MaxConn
    /\ probing \in [Callers -> 0 .. MaxConn]
    /\ pending \subseteq BOOLEAN
    /\ losses \in 0 .. MaxLosses

\* A stream address learned under settings that were edited meanwhile does
\* not last, however the edit, its own check, the poll and a refresh of the
\* page overlap: in the end the address is that of the current settings.
Current == there /\ conn \in Good => stream = conn
StreamSettles == <>[]Current

\* A state that is over is not reported for ever: neither when the camera
\* forgets to report its end, nor when the worker breaks down before it, nor
\* when its channel was switched off.
Over == row /\ ~seen
Ended == ~row \/ seen \/ ~localOn
ActiveEnds == Over ~> Ended

\* The retained topic: publications may overtake each other, but when the
\* state no longer changes, the broker ends up with it.
Holds(value) == row = value /\ there /\ localOn
BrokerFollows ==
    \A value \in BOOLEAN : <>[]Holds(value) => <>[](broker = value)
=============================================================================
