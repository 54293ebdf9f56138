------------------------------ MODULE Snapshots ------------------------------
(***************************************************************************)
(* The preview image of one camera: DashboardSnapshotManager               *)
(* (snapshots.py), the loop that renews images (main.py), the requests     *)
(* that do (routers/cameras.py, routers/api_v1.py, mcp_server.py), and the *)
(* edit and the deletion of the camera, which remove the image.            *)
(* Images are taken in threads, at most two at a time for all cameras and  *)
(* one at a time for each.                                                 *)
(***************************************************************************)
EXTENDS Naturals, FiniteSets

CONSTANTS
    Callers,    \* who asks for the image: "loop" and requests
    MaxEdits,   \* bound: how often the connection is edited
    MaxTroubles \* bound: captures that fail, and restarts

VARIABLES
    there,      \* the camera exists
    version,    \* its connection: how often it was edited
    uri,        \* stream_uri: the connection it belongs to, NoUri if none
    editor,     \* the handler of an edit or a deletion: idle, or yet to delete
    caller,     \* every caller, with the address it read
    image,      \* the connection the image was taken with, NoImage if none
    old,        \* the image is older than interval_seconds
    crossed,    \* history: an edit found a caller at work, or was cut short
    troubles

snapshotVars == <<there, version, uri, editor, caller, image, old, crossed, troubles>>

Slots == 2                  \* SNAPSHOT_SEMAPHORE
NoUri == 0
NoImage == 0
Idle == [at |-> "idle", uri |-> NoUri]

Init ==
    /\ there = TRUE
    /\ version = 1
    /\ uri \in {NoUri, 1}
    /\ editor = "idle"
    /\ caller = [c \in Callers |-> Idle]
    /\ image = NoImage
    /\ old = FALSE
    /\ crossed = FALSE
    /\ troubles = 0

Trouble == troubles < MaxTroubles /\ troubles' = troubles + 1
At(place) == {c \in Callers : caller[c].at = place}
Goes(c, place) == caller' = [caller EXCEPT ![c].at = place]
Done(c) == caller' = [caller EXCEPT ![c] = Idle]

-----------------------------------------------------------------------------
(* Asking.  The loop and the requests read the row on the event loop, so   *)
(* not within an edit; the MCP tool reads it in a thread.                  *)

Ask(c) ==
    /\ caller[c].at = "idle"
    /\ uri # NoUri
    /\ c = "mcp" \/ editor = "idle"
    /\ caller' = [caller EXCEPT ![c] = [at |-> "queued", uri |-> uri]]
    /\ UNCHANGED <<there, version, uri, editor, image, old, crossed, troubles>>

AskSnapshotLoop == "loop" \in Callers /\ Ask("loop")
AskDashboardCameraSnapshot == "page" \in Callers /\ Ask("page")
AskApiV1CameraSnapshot == "api" \in Callers /\ Ask("api")
AskGetCameraSnapshot == "mcp" \in Callers /\ Ask("mcp")
AskAny ==
    \/ AskSnapshotLoop
    \/ AskDashboardCameraSnapshot
    \/ AskApiV1CameraSnapshot
    \/ AskGetCameraSnapshot

\* async with SNAPSHOT_SEMAPHORE
Enter(c) ==
    /\ caller[c].at = "queued"
    /\ Cardinality(At("thread") \cup At("capture")) < Slots
    /\ Goes(c, "thread")
    /\ UNCHANGED <<there, version, uri, editor, image, old, crossed, troubles>>

-----------------------------------------------------------------------------
(* DashboardSnapshotManager.                                               *)

IsDue == image = NoImage \/ old

RefreshUnasked(c) ==              \* mutant: due when it began to wait
    /\ caller[c].at = "thread"
    /\ At("capture") = {}
    /\ Goes(c, "capture")
    /\ UNCHANGED <<there, version, uri, editor, image, old, crossed, troubles>>

\* refresh_if_due: with the camera's lock, which a capture keeps.
RefreshIfDue(c) ==
    /\ caller[c].at = "thread"
    /\ At("capture") = {}
    /\ IF IsDue THEN Goes(c, "capture") ELSE Done(c)
    /\ UNCHANGED <<there, version, uri, editor, image, old, crossed, troubles>>

\* _capture: ffmpeg writes a temporary file, which then replaces the image.
Capture(c) ==
    /\ caller[c].at = "capture"
    /\ image' = caller[c].uri
    /\ old' = FALSE
    /\ Done(c)
    /\ UNCHANGED <<there, version, uri, editor, crossed, troubles>>

CaptureHangs(c) ==                \* mutant: no time limit
    /\ caller[c].at = "capture"
    /\ Trouble
    /\ Goes(c, "hanging")
    /\ UNCHANGED <<there, version, uri, editor, image, old, crossed>>

\* ffmpeg failed, gave no image or ran out of time: the old image stays.
CaptureFails(c) ==
    /\ caller[c].at = "capture"
    /\ Trouble
    /\ Done(c)
    /\ UNCHANGED <<there, version, uri, editor, image, old, crossed>>

Ages ==
    /\ image # NoImage /\ ~old
    /\ old' = TRUE
    /\ UNCHANGED <<there, version, uri, editor, caller, image, crossed, troubles>>

-----------------------------------------------------------------------------
(* The administrator.  Nothing is awaited between the write of the row and *)
(* the deletion of the image, but threads go on.                           *)

AtWork == \E c \in Callers : caller[c] # Idle

\* update_camera_connection: the stream address is unknown until a probe.
UpdateCameraConnection ==
    /\ there /\ editor = "idle"
    /\ version <= MaxEdits
    /\ version' = version + 1
    /\ uri' = NoUri
    /\ editor' = "delete"
    /\ crossed' = (crossed \/ AtWork)
    /\ UNCHANGED <<there, caller, image, old, troubles>>

RemoveCamera ==
    /\ there /\ editor = "idle"
    /\ there' = FALSE
    /\ uri' = NoUri
    /\ editor' = "delete"
    /\ crossed' = (crossed \/ AtWork)
    /\ UNCHANGED <<version, caller, image, old, troubles>>

DeleteNothing ==                  \* mutant: the old image stays
    /\ editor = "delete"
    /\ editor' = "idle"
    /\ UNCHANGED <<there, version, uri, caller, image, old, crossed, troubles>>

\* SNAPSHOT_MANAGER.delete
Delete ==
    /\ editor = "delete"
    /\ image' = NoImage
    /\ old' = FALSE
    /\ editor' = "idle"
    /\ UNCHANGED <<there, version, uri, caller, crossed, troubles>>

\* _refresh_camera, of the handler or a later poll, learns the address.
RefreshCamera ==
    /\ there /\ editor = "idle"
    /\ uri = NoUri
    /\ uri' = version
    /\ UNCHANGED <<there, version, editor, caller, image, old, crossed, troubles>>

\* The program starts again; files stay.
Restart ==
    /\ Trouble
    /\ caller' = [c \in Callers |-> Idle]
    /\ editor' = "idle"
    /\ crossed' = (crossed \/ editor # "idle")
    /\ UNCHANGED <<there, version, uri, image, old>>

-----------------------------------------------------------------------------
Served(c) == Enter(c) \/ RefreshIfDue(c) \/ Capture(c)

Next ==
    \/ AskAny
    \/ \E c \in Callers : Served(c) \/ CaptureFails(c)
    \/ Ages
    \/ UpdateCameraConnection
    \/ RemoveCamera
    \/ Delete
    \/ RefreshCamera
    \/ Restart

\* The loop asks every minute, ffmpeg ends or is killed, handlers end, images
\* grow old and polls find the address.
Fairness ==
    /\ WF_snapshotVars(AskSnapshotLoop)
    /\ \A c \in Callers : WF_snapshotVars(Served(c))
    /\ WF_snapshotVars(Delete)
    /\ WF_snapshotVars(Ages)
    /\ WF_snapshotVars(RefreshCamera)

Spec == Init /\ [][Next]_snapshotVars
FairSpec == Spec /\ Fairness

-----------------------------------------------------------------------------
(* Properties.                                                             *)

TypeOK ==
    /\ there \in BOOLEAN
    /\ version \in 1 .. MaxEdits + 1
    /\ uri \in {NoUri, version}
    /\ editor \in {"idle", "delete"}
    /\ caller \in [Callers -> [at : {"idle", "queued", "thread", "capture"},
                               uri : 0 .. MaxEdits + 1]]
    /\ image \in 0 .. MaxEdits + 1
    /\ old \in BOOLEAN /\ crossed \in BOOLEAN
    /\ troubles \in 0 .. MaxTroubles

\* Whoever had to wait for the camera's lock looks again: an image that is
\* young enough is never taken a second time (snapshots.py, refresh_if_due).
TakenWhenDue == At("capture") # {} => IsDue \/ editor = "delete"

\* The image is of the camera as it is connected now, and of no deleted one,
\* unless a caller was at work when the edit began or a restart cut the edit
\* short (routers/cameras.py, update_camera_connection and remove_camera).
OldImageExplained ==
    image # NoImage /\ editor = "idle" /\ ~crossed => there /\ image = version

\* Whatever overlapped, the image in the end is of the present connection.
Preview == there => image = version
PreviewFollows == <>[]Preview

\* Why it holds: only an edit parts the address from the connection, and it
\* finds every caller that still has the old one.
Ordered ==
    /\ uri # NoUri => there /\ editor = "idle"
    /\ \A c, d \in At("capture") : c = d
    /\ ~crossed => \A c \in Callers : caller[c].at # "idle" =>
                       caller[c].uri = version /\ there /\ editor = "idle"

IInv == TypeOK /\ TakenWhenDue /\ OldImageExplained /\ Ordered
=============================================================================
