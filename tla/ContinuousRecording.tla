------------------------- MODULE ContinuousRecording -------------------------
(***************************************************************************)
(* 24/7 recording of one camera: ContinuousRecordingManager.sync, run in a *)
(* thread every 20 seconds, the ffmpeg segmenter it keeps running, and the *)
(* administrator's changes in between (src/app/tbc/recording.py).  The     *)
(* manager keeps its state per camera id and cameras share nothing, so one *)
(* camera stands for all.                                                  *)
(*                                                                         *)
(* ffmpeg writes segments named by their start time into a work directory; *)
(* sync moves or uploads every segment but the newest and inserts a row.   *)
(* Segments are numbered in name order.  The clock is taken not to step    *)
(* back: two segments never share a name.                                  *)
(***************************************************************************)
EXTENDS Integers

CONSTANTS
    MaxSegment,   \* bound: segments ever opened
    MaxChanges,   \* bound: changes by the administrator
    MaxFailures,  \* bound: uploads, moves and statements that raise
    MaxCrashes,   \* bound: restarts of the process
    MaxExits      \* bound: times ffmpeg exits by itself

ASSUME ParamsAssumption ==
    /\ MaxSegment \in Nat /\ MaxChanges \in Nat /\ MaxFailures \in Nat
    /\ MaxCrashes \in Nat /\ MaxExits \in Nat

Segments == 1 .. MaxSegment
None == "none"
Unloaded == {0}                \* _known_files has no entry for the camera
Streams == {"a", "b"}          \* stream_uri with the segment length
Storages == {"local", "remote", None}

VARIABLES
    camera,     \* the camera's row: "on", "off" or "deleted"
    stream,     \* its stream settings
    storage,    \* the kind of its storage target, None if there is no target
    seen,       \* the row sync was called with: [camera, stream, storage]
    entry,      \* _processes with _fingerprints: a stream, or None
    writing,    \* the stream a running ffmpeg records, or None
    recent,     \* ffmpeg was started less than five seconds ago
    known,      \* _known_files of the camera
    pc,         \* where sync stands
    final,      \* it collects with include_latest
    batch,      \* the finished segments it has still to handle
    into,       \* the storage it looked up for them
    open,       \* the segment ffmpeg has open, or 0
    next,       \* the next segment's number
    work,       \* segments in the work directory
    blank,      \* those of zero size
    stored,     \* segments in storage
    rowsOf,     \* recordings rows per segment
    unsaved,    \* ghost: registration raised, or there was no storage
    changes, failures, crashes, exits

settings == <<camera, stream, storage>>
process == <<entry, writing, recent>>
sync == <<seen, known, pc, final, batch, into>>
disk == <<open, next, work, blank, stored, rowsOf, unsaved>>
bounds == <<changes, failures, crashes, exits>>
vars == <<camera, stream, storage, seen, entry, writing, recent, known, pc,
          final, batch, into, open, next, work, blank, stored, rowsOf, unsaved,
          changes, failures, crashes, exits>>

FirstOf(S) == CHOOSE s \in S : \A t \in S : s <= t
LastOf(S) == CHOOSE s \in S : \A t \in S : t <= s
InHand == FirstOf(batch)
HasRow(s) == rowsOf[s] > 0

Init ==
    /\ camera \in {"on", "off"} /\ stream = "a" /\ storage \in {"local", "remote"}
    /\ seen = [camera |-> "off", stream |-> "a", storage |-> None]
    /\ entry = None /\ writing = None /\ recent = FALSE
    /\ known = Unloaded
    /\ pc = "idle" /\ final = FALSE /\ batch = {} /\ into = None
    /\ open = 0 /\ next = 1
    /\ work = {} /\ blank = {} /\ stored = {}
    /\ rowsOf = [s \in Segments |-> 0]
    /\ unsaved = {}
    /\ changes = 0 /\ failures = 0 /\ crashes = 0 /\ exits = 0

-----------------------------------------------------------------------------
(* sync, for this camera.                                                  *)

\* _continuous_recording_loop reads the cameras, then calls sync in a thread.
BeginSync ==
    /\ pc = "idle"
    /\ seen' = [camera |-> camera, stream |-> stream, storage |-> storage]
    /\ pc' = CASE camera = "on" -> "ensure"
               [] camera # "on" /\ entry # None -> "stop"
               [] OTHER -> "idle"
    /\ UNCHANGED <<settings, process, known, final, batch, into, disk, bounds>>

\* _stop_process: ffmpeg is terminated and waited for.
TerminatedLater ==                                 \* mutant: no terminate
    entry' = None /\ UNCHANGED <<writing, open>>
Terminated == entry' = None /\ writing' = None /\ open' = 0

\* _ensure_process: the right ffmpeg is running already.
KeepProcess ==
    /\ pc = "ensure"
    /\ entry = seen.stream /\ writing # None
    /\ pc' = "scan" /\ final' = FALSE
    /\ UNCHANGED <<settings, process, seen, known, batch, into, disk, bounds>>

\* _ensure_process: none, a dead one or one with other settings.  It is
\* stopped and a new one started, unless the last start was just now or the
\* start fails.
ReplaceProcess ==
    /\ pc = "ensure"
    /\ ~(entry = seen.stream /\ writing # None)
    /\ \/ /\ ~recent
          /\ entry' = seen.stream /\ writing' = seen.stream /\ open' = 0
          /\ recent' = TRUE
       \/ /\ Terminated
          /\ UNCHANGED recent
    /\ pc' = "scan" /\ final' = FALSE
    /\ UNCHANGED <<settings, seen, known, batch, into, next, work, blank, stored,
                   rowsOf, unsaved, bounds>>

\* The camera is off or deleted and has a process.  The row is read again;
\* without one nothing is collected.
StopDisabled ==
    /\ pc = "stop"
    /\ Terminated
    /\ IF camera = "deleted"
       THEN /\ pc' = "idle" /\ known' = Unloaded
            /\ UNCHANGED <<final, seen>>
       ELSE /\ pc' = "scan" /\ final' = TRUE
            /\ seen' = [seen EXCEPT !.storage = storage]
            /\ UNCHANGED known
    /\ UNCHANGED <<settings, recent, batch, into, next, work, blank, stored,
                   rowsOf, unsaved, bounds>>

EndSync ==
    /\ pc' = "idle"
    /\ known' = IF final THEN Unloaded ELSE known

\* _collect_segments: every file but the newest; the target is looked up and
\* the known names are loaded from the rows the first time.
FinishedAll == work                                \* mutant: the newest too
FinishedButNewest == work \ {t \in work : \A u \in work : u <= t}
                                                   \* mutant: also at a stop
FinishedOld == {s \in work : \E t \in work : s + 1 < t}
                                                   \* mutant: two are left
Finished == IF final \/ work = {} THEN work ELSE work \ {LastOf(work)}

LoadedFromDisk == work                             \* mutant: names on disk
LoadedNames == {s \in Segments : HasRow(s)}

ScanNothing ==
    /\ pc = "scan"
    /\ Finished = {}
    /\ EndSync
    /\ UNCHANGED <<settings, process, seen, final, batch, into, disk, bounds>>

Scan ==
    /\ pc = "scan"
    /\ Finished # {}
    /\ known' = IF known = Unloaded THEN LoadedNames ELSE known
    /\ into' = IF storage = None THEN None ELSE seen.storage
    /\ batch' = Finished
    /\ pc' = "segment"
    /\ UNCHANGED <<settings, process, seen, final, disk, bounds>>

\* The segment in hand is done with, and its name is known from now on.
NextSegment ==
    /\ batch' = batch \ {InHand}
    /\ pc' = "segment"
    /\ known' = known \cup {InHand}

EndBatch ==
    /\ pc = "segment" /\ batch = {}
    /\ EndSync
    /\ UNCHANGED <<settings, process, seen, final, batch, into, disk, bounds>>

\* Its name is known: the file is removed.
DropKnown ==
    /\ pc = "segment" /\ batch # {} /\ InHand \in known
    /\ work' = work \ {InHand}
    /\ NextSegment
    /\ UNCHANGED <<settings, process, seen, final, into, open, next, blank,
                   stored, rowsOf, unsaved, bounds>>

\* _register_segment removes an empty file, and any file when there is no
\* storage target.
DropUnusable ==
    /\ pc = "segment" /\ batch # {} /\ InHand \notin known
    /\ into = None \/ InHand \in blank
    /\ work' = work \ {InHand}
    /\ unsaved' = unsaved \cup {InHand}
    /\ NextSegment
    /\ UNCHANGED <<settings, process, seen, final, into, open, next, blank,
                   stored, rowsOf, bounds>>

Registrable ==
    pc = "segment" /\ batch # {} /\ InHand \notin known /\ into # None
        /\ InHand \notin blank

\* A local target: the file is moved.
InsertBeforeFile ==                                \* mutant: row before file
    /\ Registrable
    /\ rowsOf' = [rowsOf EXCEPT ![InHand] = @ + 1]
    /\ NextSegment
    /\ UNCHANGED <<settings, process, seen, final, into, open, next, work, blank,
                   stored, unsaved, bounds>>
MoveWithoutRow ==                                  \* mutant: no row
    /\ Registrable /\ into = "local"
    /\ work' = work \ {InHand}
    /\ stored' = stored \cup {InHand}
    /\ NextSegment
    /\ UNCHANGED <<settings, process, seen, final, into, open, next, blank,
                   rowsOf, unsaved, bounds>>
MoveSegment ==
    /\ Registrable /\ into = "local"
    /\ work' = work \ {InHand}
    /\ stored' = stored \cup {InHand}
    /\ pc' = "insert"
    /\ UNCHANGED <<settings, process, seen, known, final, batch, into, open,
                   next, blank, rowsOf, unsaved, bounds>>

\* A remote target: the file is uploaded, then the local one is removed.
UploadSegment ==
    /\ Registrable /\ into = "remote"
    /\ stored' = stored \cup {InHand}
    /\ pc' = "unlink"
    /\ UNCHANGED <<settings, process, seen, known, final, batch, into, open,
                   next, work, blank, rowsOf, unsaved, bounds>>

RemoveUploaded ==
    /\ pc = "unlink"
    /\ work' = work \ {InHand}
    /\ pc' = "insert"
    /\ UNCHANGED <<settings, process, seen, known, final, batch, into, open,
                   next, blank, stored, rowsOf, unsaved, bounds>>

\* create_continuous_recording; its foreign keys need the camera and a target.
InsertRowAgain ==                                  \* mutant: not advanced
    /\ pc = "insert"
    /\ rowsOf' = [rowsOf EXCEPT ![InHand] = @ + 1]
    /\ UNCHANGED <<settings, process, sync, open, next, work, blank, stored,
                   unsaved, bounds>>
InsertRow ==
    /\ pc = "insert"
    /\ camera # "deleted" /\ storage # None
    /\ rowsOf' = [rowsOf EXCEPT ![InHand] = @ + 1]
    /\ NextSegment
    /\ UNCHANGED <<settings, process, seen, final, into, open, next, work, blank,
                   stored, unsaved, bounds>>

InsertRefused ==
    /\ pc = "insert"
    /\ camera = "deleted" \/ storage = None
    /\ unsaved' = unsaved \cup {InHand}
    /\ NextSegment
    /\ UNCHANGED <<settings, process, seen, final, into, open, next, work, blank,
                   stored, rowsOf, bounds>>

\* Storing the segment or inserting its row raises.  _register_segment logs
\* it, and its caller adds the name all the same.
Raises == failures < MaxFailures /\ failures' = failures + 1

RegisterRaises ==
    /\ Registrable \/ pc \in {"unlink", "insert"}
    /\ Raises
    /\ unsaved' = unsaved \cup {InHand}
    /\ NextSegment
    /\ UNCHANGED <<settings, process, seen, final, into, open, next, work, blank,
                   stored, rowsOf, changes, crashes, exits>>

\* Reading the row of a stopped camera raises, and sync ends: the process is
\* gone, and nothing is collected or forgotten.
StopRaises ==
    /\ pc = "stop"
    /\ Raises
    /\ Terminated
    /\ pc' = "idle"
    /\ UNCHANGED <<settings, recent, seen, known, final, batch, into, next, work,
                   blank, stored, rowsOf, unsaved, changes, crashes, exits>>

\* Reading the known names or the target raises; sync logs it.  Only the
\* stopping path forgets the known names then.
ScanRaises ==
    /\ pc = "scan" /\ Finished # {}
    /\ Raises
    /\ EndSync
    /\ UNCHANGED <<settings, process, seen, final, batch, into, disk, changes,
                   crashes, exits>>

-----------------------------------------------------------------------------
(* ffmpeg, the administrator and the process.                              *)

\* ffmpeg opens a segment; the one before is complete, or stayed empty.
OpenSegment ==
    /\ writing # None
    /\ next \in Segments
    /\ open' = next /\ next' = next + 1
    /\ work' = work \cup {next}
    /\ \E empty \in {{}, {next}} : blank' = blank \cup empty
    /\ UNCHANGED <<settings, process, sync, stored, rowsOf, unsaved, bounds>>

\* ffmpeg exits: the camera is gone or the stream breaks.
ProcessExits ==
    /\ writing # None
    /\ exits < MaxExits
    /\ exits' = exits + 1
    /\ writing' = None /\ open' = 0
    /\ UNCHANGED <<settings, entry, recent, sync, next, work, blank, stored,
                   rowsOf, unsaved, changes, failures, crashes>>

FiveSecondsPass ==
    /\ recent
    /\ recent' = FALSE
    /\ UNCHANGED <<settings, entry, writing, sync, disk, bounds>>

Change ==
    /\ changes < MaxChanges /\ changes' = changes + 1
    /\ UNCHANGED <<process, sync, disk, failures, crashes, exits>>

SetRecording(to) ==
    /\ camera # "deleted" /\ camera # to
    /\ camera' = to
    /\ Change
    /\ UNCHANGED <<stream, storage>>

SetStream(to) ==
    /\ camera # "deleted" /\ stream # to
    /\ stream' = to
    /\ Change
    /\ UNCHANGED <<camera, storage>>

SetStorage(to) ==
    /\ storage # to
    /\ storage' = to
    /\ Change
    /\ UNCHANGED <<camera, stream>>

\* The rows go with the camera; the files stay.
DeleteCamera ==
    /\ camera # "deleted"
    /\ changes < MaxChanges /\ changes' = changes + 1
    /\ camera' = "deleted"
    /\ rowsOf' = [s \in Segments |-> 0]
    /\ UNCHANGED <<stream, storage, process, sync, open, next, work, blank,
                   stored, unsaved, failures, crashes, exits>>

\* The process and the ffmpeg it started end; the files and rows stay.
CrashRestart ==
    /\ crashes < MaxCrashes
    /\ crashes' = crashes + 1
    /\ entry' = None /\ writing' = None /\ recent' = FALSE /\ open' = 0
    /\ known' = Unloaded
    /\ pc' = "idle" /\ final' = FALSE /\ batch' = {} /\ into' = None
    /\ UNCHANGED <<settings, seen, next, work, blank, stored, rowsOf, unsaved,
                   changes, failures, exits>>

-----------------------------------------------------------------------------
SyncNext ==
    \/ KeepProcess \/ ReplaceProcess \/ StopDisabled
    \/ ScanNothing \/ Scan \/ EndBatch
    \/ DropKnown \/ DropUnusable
    \/ MoveSegment \/ UploadSegment \/ RemoveUploaded
    \/ InsertRow \/ InsertRefused

Next ==
    \/ BeginSync
    \/ SyncNext
    \/ RegisterRaises
    \/ StopRaises
    \/ ScanRaises
    \/ OpenSegment
    \/ ProcessExits
    \/ FiveSecondsPass
    \/ \E to \in {"on", "off"} : SetRecording(to)
    \/ \E to \in Streams : SetStream(to)
    \/ \E to \in Storages : SetStorage(to)
    \/ DeleteCamera
    \/ CrashRestart

Spec == Init /\ [][Next]_vars

\* The loop calls sync again and again, sync runs to its end and time passes.
Fairness == WF_vars(BeginSync) /\ WF_vars(SyncNext) /\ WF_vars(FiveSecondsPass)

FairSpec == Spec /\ Fairness

-----------------------------------------------------------------------------
(* Properties.                                                             *)

TypeOK ==
    /\ camera \in {"on", "off", "deleted"}
    /\ stream \in Streams
    /\ storage \in Storages
    /\ seen \in [camera : {"on", "off", "deleted"}, stream : Streams,
                 storage : Storages]
    /\ entry \in Streams \cup {None}
    /\ writing \in Streams \cup {None}
    /\ recent \in BOOLEAN
    /\ known = Unloaded \/ known \subseteq Segments
    /\ pc \in {"idle", "ensure", "stop", "scan", "segment", "unlink", "insert"}
    /\ final \in BOOLEAN
    /\ batch \subseteq Segments
    /\ into \in Storages
    /\ open \in Segments \cup {0}
    /\ next \in 1 .. (MaxSegment + 1)
    /\ work \subseteq Segments /\ blank \subseteq Segments
    /\ stored \subseteq Segments /\ unsaved \subseteq Segments
    /\ rowsOf \in [Segments -> 0 .. 1]
    /\ changes \in Nat /\ failures \in Nat /\ crashes \in Nat /\ exits \in Nat

\* There is never an ffmpeg that the manager no longer knows of, whatever
\* stops, restarts and changes of the settings came in between, and the
\* segment it is writing is in nobody's hands: it is neither stored nor
\* removed, although sync lists the directory while ffmpeg rotates.
NoStrayProcess == writing # None => entry = writing
OpenSegmentUntouched ==
    open # 0 => open \in work /\ open \notin stored /\ open \notin batch
WriterUndisturbed == NoStrayProcess /\ OpenSegmentUntouched

\* A segment's footage disappears only if it was empty, storing it raised or
\* there was no storage target: no restart, stop or repeated sync loses one.
LossExplained ==
    \A s \in 1 .. (next - 1) : s \notin work \cup stored => s \in unsaved

\* Rows and storage agree.  A row names a stored segment that is not in the
\* work directory any more, and a stored segment has its row, unless it is
\* being registered, registering it raised, the process was restarted, or the
\* camera was removed.
RowsNameStored ==
    \A s \in Segments : HasRow(s) => s \in stored /\ s \notin work
StoredHasRow ==
    \A s \in stored :
        \/ HasRow(s)
        \/ pc \in {"unlink", "insert"} /\ s = InHand
        \/ s \in unsaved
        \/ crashes > 0
        \/ camera = "deleted"
RowsMatchStored == RowsNameStored /\ StoredHasRow

\* The work directory is emptied.  Turning the recording off collects
\* everything: when the sync that stopped ffmpeg has ended, at most segments
\* that could not be stored are left.  (Without a process entry sync does not
\* look at the camera.)  And while the camera stays on, every segment older
\* than the newest is taken out.
Backlog(s) == s \in work /\ \E t \in work : s < t
StopCollects ==
    [][final /\ pc \in {"scan", "segment"} /\ pc' = "idle" =>
          work' \subseteq unsaved \/ failures' # failures \/ crashes' # crashes]_vars
BacklogIsCollected ==
    \A s \in Segments : <>[](camera = "on") => []<>~Backlog(s)
AllIsCollected == StopCollects /\ BacklogIsCollected
=============================================================================
