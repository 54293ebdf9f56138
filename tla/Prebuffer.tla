------------------------------ MODULE Prebuffer ------------------------------
(***************************************************************************)
(* The pre-roll of event clips (recording.py): one ffmpeg per camera keeps *)
(* the last seconds of the stream as short segments.  Every poll of the    *)
(* camera makes sure that it runs, or that it does not; a clip that a poll *)
(* begins copies the fresh segments when its thread comes to it.  One      *)
(* camera, and one of its clips: the copying of another changes nothing.   *)
(***************************************************************************)
EXTENDS Naturals

CONSTANTS
    MaxEdits,   \* bound: how often the stream, or a setting, is changed
    MaxTroubles \* bound: ffmpegs that die or cannot be started, restarts

VARIABLES
    camera,     \* its row: polled, recording_enabled, recording_pre_seconds > 0
    stream,     \* stream_uri: the number of its change
    edits,
    process,    \* _prebuffers[camera_id]: the stream it was started for
    running,    \* that process runs
    ending,     \* the streams of processes terminated that still run
    segments,   \* the streams whose fresh segments lie in the buffer
    clip,       \* a clip: its pre-roll, and of which streams that may be
    beside,     \* history: what was ending when the buffer was last cleared
    troubles

prebufferVars == <<camera, stream, edits, process, running, ending, segments,
                   clip, beside, troubles>>

NoStream == 0
Streams == 1 .. MaxEdits + 1
NoClip == [begun |-> FALSE, pre |-> {}, sources |-> {}]

Init ==
    /\ camera = [polled |-> TRUE, enabled |-> TRUE, pre |-> TRUE]
    /\ stream = 1
    /\ edits = 0
    /\ process = NoStream
    /\ running = FALSE
    /\ ending = {}
    /\ segments = {}
    /\ clip = NoClip
    /\ beside = {}
    /\ troubles = 0

Trouble == troubles < MaxTroubles /\ troubles' = troubles + 1

-----------------------------------------------------------------------------
(* The administrator changes the stream address, or a setting; deleting or *)
(* disabling the camera ends its polls.                                    *)

EditStream ==
    /\ edits < MaxEdits
    /\ edits' = edits + 1
    /\ stream' = stream + 1
    /\ UNCHANGED <<camera, process, running, ending, segments, clip, beside, troubles>>

EditCamera ==
    /\ edits < MaxEdits
    /\ edits' = edits + 1
    /\ \E field \in DOMAIN camera : camera' = [camera EXCEPT ![field] = ~@]
    /\ UNCHANGED <<stream, process, running, ending, segments, clip, beside, troubles>>

-----------------------------------------------------------------------------
(* maybe_start_event_recordings.                                           *)

\* _stop_prebuffer
StopPrebuffer ==
    /\ process' = NoStream
    /\ running' = FALSE
    /\ ending' = IF running THEN ending \cup {process} ELSE ending
    /\ UNCHANGED <<segments, beside>>

StartUncleared ==                          \* mutant: no rmtree
    /\ process' = stream
    /\ running' = TRUE
    /\ beside' = ending
    /\ UNCHANGED <<ending, segments>>

Start ==
    /\ process' = stream
    /\ running' = TRUE
    /\ segments' = {}
    /\ beside' = ending
    /\ UNCHANGED ending

EnsureOnce ==                              \* mutant: a dead one is not replaced
    /\ process = NoStream
    /\ Start

\* _ensure_prebuffer; poll() tells whether the process runs.
EnsurePrebuffer ==
    /\ ~running
    /\ Start

\* Popen raises: the buffer is empty, and a dead process stays noted.
StartFails ==
    /\ ~running
    /\ Trouble
    /\ segments' = {}
    /\ beside' = ending
    /\ UNCHANGED <<process, running, ending>>

Wanted == camera.enabled /\ camera.pre

\* A poll; a clip it begins, if any, is not the one that is followed.
Poll ==
    /\ camera.polled
    /\ IF Wanted THEN EnsurePrebuffer ELSE process # NoStream /\ StopPrebuffer
    /\ clip' = [clip EXCEPT !.sources = @ \cup {process'}]
    /\ UNCHANGED <<camera, stream, edits, troubles>>

PollFails ==
    /\ camera.polled /\ Wanted
    /\ StartFails
    /\ UNCHANGED <<camera, stream, edits, clip>>

\* A poll that finds an event: the clip is begun, its thread runs later.
BeginClip ==
    /\ camera.polled /\ Wanted
    /\ \/ running /\ UNCHANGED <<process, running, ending, segments, beside, troubles>>
       \/ EnsurePrebuffer /\ UNCHANGED troubles
       \/ StartFails
    /\ clip' = [begun |-> TRUE, pre |-> {}, sources |-> {process'} \cup beside']
    /\ UNCHANGED <<camera, stream, edits>>

-----------------------------------------------------------------------------
(* The clip's thread, _record_clip.                                        *)

\* _copy_prebuffer_segments: one file after the other, whatever has become of
\* the camera, the process and the buffer meanwhile.
CopyPrebufferSegments ==
    /\ clip.begun
    /\ \E s \in segments : clip' = [clip EXCEPT !.pre = @ \cup {s}]
    /\ UNCHANGED <<camera, stream, edits, process, running, ending, segments, beside,
                   troubles>>

-----------------------------------------------------------------------------
(* ffmpeg, and time.                                                       *)

Write ==
    /\ \/ running /\ process \notin segments /\ segments' = segments \cup {process}
       \/ \E s \in ending \ segments : segments' = segments \cup {s}
    /\ UNCHANGED <<camera, stream, edits, process, running, ending, clip, beside, troubles>>

Ends ==
    /\ \E s \in ending : ending' = ending \ {s}
    /\ UNCHANGED <<camera, stream, edits, process, running, segments, clip, beside, troubles>>

Dies ==
    /\ running
    /\ Trouble
    /\ running' = FALSE
    /\ UNCHANGED <<camera, stream, edits, process, ending, segments, clip, beside>>

\* What is older than pre_seconds is not copied.
Fade ==
    /\ \E s \in segments :
           /\ ~(running /\ process = s) /\ s \notin ending
           /\ segments' = segments \ {s}
    /\ UNCHANGED <<camera, stream, edits, process, running, ending, clip, beside, troubles>>

\* The program, its threads and its processes are gone; the files stay.
Restart ==
    /\ Trouble
    /\ process' = NoStream
    /\ running' = FALSE
    /\ ending' = {}
    /\ clip' = NoClip
    /\ UNCHANGED <<camera, stream, edits, segments, beside>>

-----------------------------------------------------------------------------
Next ==
    \/ EditStream
    \/ EditCamera
    \/ Poll
    \/ PollFails
    \/ BeginClip
    \/ CopyPrebufferSegments
    \/ Write
    \/ Ends
    \/ Dies
    \/ Fade
    \/ Restart

\* A camera is polled again and again.
Fairness == WF_prebufferVars(Poll)

Spec == Init /\ [][Next]_prebufferVars
FairSpec == Spec /\ Fairness

-----------------------------------------------------------------------------
(* Properties.                                                             *)

TypeOK ==
    /\ camera \in [polled : BOOLEAN, enabled : BOOLEAN, pre : BOOLEAN]
    /\ stream \in Streams
    /\ edits \in 0 .. MaxEdits
    /\ process \in Streams \cup {NoStream}
    /\ running => process # NoStream
    /\ ending \subseteq Streams
    /\ segments \subseteq Streams
    /\ clip \in [begun : BOOLEAN, pre : SUBSET Streams,
                 sources : SUBSET (Streams \cup {NoStream})]
    /\ beside \subseteq Streams
    /\ troubles \in 0 .. MaxTroubles

\* The pre-roll of a clip shows what the process of the buffer read when the
\* clip was begun, and never what an earlier one read; unless a process that
\* was still ending wrote to the buffer after it had been cleared, or another
\* one was started before the clip's thread came to copy: its stream too is
\* then in the clip.  The process goes on reading the stream it was started
\* for after an edit, so this need not be the stream of the rest of the clip.
PrerollExplained == clip.pre \subseteq clip.sources

\* Why it holds: a process that starts finds the buffer empty, and only those
\* that are still ending write to it beside the process.
Ordered ==
    /\ stream <= edits + 1
    /\ process # NoStream => segments \subseteq {process} \cup beside
    /\ process # NoStream => ending \subseteq beside
    /\ clip.begun => segments \cup ending \cup ({process} \ {NoStream}) \subseteq clip.sources

IInv == TypeOK /\ PrerollExplained /\ Ordered

\* A pre-roll that is wanted is in the end kept, whatever died; one that is
\* not is not, as long as the camera is polled.
Kept == camera.polled => running = Wanted
PrerollKept == <>[]Kept
=============================================================================
