--------------------------- MODULE EventRecording ---------------------------
(***************************************************************************)
(* Event recording: RecordingManager and the job it starts per detection   *)
(* (src/app/tbc/recording.py), with the rows of the recordings table that  *)
(* the jobs, the delete button and a camera removal write.                 *)
(*                                                                         *)
(* maybe_start_event_recordings runs without an await on the event loop,   *)
(* so one iteration of its loop over the active detections is one action.  *)
(* _record_clip runs in a thread of the default executor: each of its      *)
(* phases is an action, and everything else may happen between two of      *)
(* them.  What follows the thread in _run_job runs on the event loop again *)
(* and is one action up to its next await.                                 *)
(*                                                                         *)
(* A clip's content is abstracted to the artefacts that exist for it: the  *)
(* mp4 and the thumbnail in the local directory, and their uploaded        *)
(* copies.  The four names stand for the columns local_path,               *)
(* snapshot_path, remote_key and snapshot_remote_key.  Two clips never     *)
(* share a file name: the name holds the start second, the camera's slug   *)
(* and the key, and two cameras of one slug are not modelled.              *)
(***************************************************************************)
EXTENDS Integers, FiniteSets

CONSTANTS
    Cameras,      \* cameras that may exist
    Detections,   \* detection keys that trigger a recording
    Dur,          \* recording_duration_seconds: a clip's minimum length
    Post,         \* recording_post_seconds: what each detection adds
    Cooldown,     \* recording_cooldown_seconds, counted from a start
    Workers,      \* executor threads the recording jobs can hold
    MaxRows,      \* bound: rows ever inserted
    LastEvent,    \* bound: no detection arrives after this time
    MaxTime,      \* bound: the clock stops here
    MaxCrashes,   \* bound: restarts of the process
    MaxDbErrors   \* bound: statements that raise (locked file, full disk)

ASSUME ParamsAssumption ==
    /\ Dur \in Nat \ {0} /\ Post \in Nat /\ Cooldown \in Nat
    /\ Workers \in Nat \ {0} /\ MaxRows \in Nat
    /\ LastEvent \in Nat /\ MaxTime \in Nat
    /\ MaxCrashes \in Nat /\ MaxDbErrors \in Nat

Keys == Cameras \X Detections
Rows == 1 .. MaxRows
NoRow == 0
NoKey == <<>>
Never == -1
Artefacts == {"local", "snapshot", "remote", "remoteSnapshot"}
Targets == {"local", "remote"}

\* What a stored clip can consist of.
StoredSets == {{"local"}, {"local", "snapshot"}, {"remote"}, {"remote", "remoteSnapshot"}}

\* Where a job stands.  The threads' phases, then those on the event loop.
InThread == {"body", "build", "upload", "uploadSnapshot"}
OnLoop == {"queued", "returned", "error", "post"}
InFlightStages == InThread \cup OnLoop
Stages == InFlightStages \cup {"none", "wedged", "done", "lost"}

VARIABLES
    now,          \* the wall clock
    cameras,      \* cameras in the database
    active,       \* _active: the row whose ActiveRecording a key holds
    lastStarted,  \* _last_started
    nextRow,      \* the next AUTOINCREMENT id
    status,       \* recordings.status; "unborn" and "deleted" have no row
    refs,         \* the artefacts the row names
    keyOf,        \* the job's camera and detection key
    target,       \* the kind of the job's storage target
    startedAt,    \* ActiveRecording.started_at
    until,        \* ActiveRecording.active_until, shared with the thread
    stage,        \* the job's place in _run_job and _record_clip
    files,        \* the artefacts that exist
    crashes, dbErrors

memory == <<active, lastStarted, until>>
jobVars == <<keyOf, target, startedAt>>
vars == <<now, cameras, active, lastStarted, nextRow, status, refs, keyOf,
          target, startedAt, until, stage, files, crashes, dbErrors>>

InFlight(r) == stage[r] \in InFlightStages
HasRow(r) == status[r] \in {"recording", "ready", "failed"}
MaxOf(a, b) == IF a >= b THEN a ELSE b

Init ==
    /\ now = 0
    /\ cameras = Cameras
    /\ active = [k \in Keys |-> NoRow]
    /\ lastStarted = [k \in Keys |-> Never]
    /\ nextRow = 1
    /\ status = [r \in Rows |-> "unborn"]
    /\ refs = [r \in Rows |-> {}]
    /\ keyOf = [r \in Rows |-> NoKey]
    /\ target = [r \in Rows |-> "local"]
    /\ startedAt = [r \in Rows |-> 0]
    /\ until = [r \in Rows |-> 0]
    /\ stage = [r \in Rows |-> "none"]
    /\ files = [r \in Rows |-> {}]
    /\ crashes = 0
    /\ dbErrors = 0

-----------------------------------------------------------------------------
(* The event loop: a detection of a trigger key is active.                 *)

\* No ActiveRecording holds the key.
KeyFreeUnchecked(k) == TRUE                        \* mutant: no check
KeyFree(k) == active[k] = NoRow

\* _event_is_in_cooldown, negated.
CooldownOverEarly(k) ==                            \* mutant: one second early
    lastStarted[k] = Never \/ now + 1 >= lastStarted[k] + Cooldown
CooldownOver(k) ==
    lastStarted[k] = Never \/ now >= lastStarted[k] + Cooldown

\* A database call raises.  Everything that uses it says what stays undone.
DbError ==
    /\ dbErrors < MaxDbErrors
    /\ dbErrors' = dbErrors + 1

\* The iteration inserts the row and marks the key active.  "outcome" is
\* where it gets to: "queued" if the job task was created, "wedged" if a call
\* between the mark and create_task raised.
BeginRecording(k, kind, outcome) ==
    /\ now <= LastEvent
    /\ k[1] \in cameras
    /\ KeyFree(k)
    /\ CooldownOver(k)
    /\ nextRow \in Rows
    /\ nextRow' = nextRow + 1
    /\ status' = [status EXCEPT ![nextRow] = "recording"]
    /\ keyOf' = [keyOf EXCEPT ![nextRow] = k]
    /\ target' = [target EXCEPT ![nextRow] = kind]
    /\ startedAt' = [startedAt EXCEPT ![nextRow] = now]
    /\ until' = [until EXCEPT ![nextRow] = now + Post]
    /\ active' = [active EXCEPT ![k] = nextRow]
    /\ lastStarted' = [lastStarted EXCEPT ![k] = now]
    /\ stage' = [stage EXCEPT ![nextRow] = outcome]
    /\ UNCHANGED <<now, cameras, refs, files, crashes>>

StartRecording(k, kind) ==
    /\ BeginRecording(k, kind, "queued")
    /\ UNCHANGED dbErrors

\* mark_recording_started, record_event or the automation lookup raises after
\* the key was marked active: the caller logs it and no job runs.
StartAborted(k, kind) ==
    /\ BeginRecording(k, kind, "wedged")
    /\ DbError

\* Mutant: the deadline moves backwards.
ShortenRecording(k) ==
    /\ now <= LastEvent
    /\ active[k] # NoRow
    /\ until' = [until EXCEPT ![active[k]] = now - Post]
    /\ UNCHANGED <<now, cameras, active, lastStarted, nextRow, status, refs,
                   jobVars, stage, files, crashes, dbErrors>>

\* The key is active already: only its deadline moves.
ExtendRecording(k) ==
    /\ now <= LastEvent
    /\ k[1] \in cameras
    /\ ~KeyFree(k)
    /\ until' = [until EXCEPT ![active[k]] = now + Post]
    /\ UNCHANGED <<now, cameras, active, lastStarted, nextRow, status, refs,
                   jobVars, stage, files, crashes, dbErrors>>

-----------------------------------------------------------------------------
(* The thread: _record_clip.                                               *)

\* A step of job r that moves only its stage and its files.
ThreadStep(r, from, to, made) ==
    /\ stage[r] = from
    /\ stage' = [stage EXCEPT ![r] = to]
    /\ files' = [files EXCEPT ![r] = made]
    /\ UNCHANGED <<now, cameras, memory, nextRow, status, refs, jobVars,
                   crashes, dbErrors>>

\* The executor has a thread for the job.
ThreadFree == Cardinality({q \in Rows : stage[q] \in InThread}) < Workers

\* ffmpeg is started for the body.
BeginBody(r) ==
    /\ ThreadFree
    /\ ThreadStep(r, "queued", "body", files[r])

\* No ffmpeg, or no working directory.
BeginFails(r) ==
    /\ ThreadFree
    /\ ThreadStep(r, "queued", "error", files[r])

\* _record_body polls until both deadlines have passed, then checks body.ts.
Deadline(r) == MaxOf(startedAt[r] + Dur, until[r])

EndBody(r) ==
    /\ now >= Deadline(r)
    /\ ThreadStep(r, "body", "build", files[r])

BodyEmpty(r) ==
    /\ now >= Deadline(r)
    /\ ThreadStep(r, "body", "error", files[r])

\* _build_mp4 and, when enabled and successful, _create_snapshot.  A snapshot
\* that ffmpeg could not make is taken to leave no file.
BuildClip(r, thumb) ==
    ThreadStep(r, "build", IF target[r] = "local" THEN "returned" ELSE "upload",
               {"local"} \cup thumb)

\* ffmpeg fails; it may leave part of the mp4 behind.
BuildFails(r, left) == ThreadStep(r, "build", "error", left)

\* Mutant: the local copy stays.
UploadClipKeepingCopy(r) ==
    ThreadStep(r, "upload", IF "snapshot" \in files[r] THEN "uploadSnapshot"
                            ELSE "returned", files[r] \cup {"remote"})

\* The mp4 is uploaded.  Without a thumbnail the local copy goes at once.
UploadClip(r) ==
    IF "snapshot" \in files[r]
    THEN ThreadStep(r, "upload", "uploadSnapshot", files[r] \cup {"remote"})
    ELSE ThreadStep(r, "upload", "returned", {"remote"})

\* The thumbnail is uploaded, then both local copies are removed.
UploadSnapshot(r) ==
    ThreadStep(r, "uploadSnapshot", "returned", {"remote", "remoteSnapshot"})

\* The upload is done, but a local copy cannot be removed: it stays, and what
\* was to be removed after it.
UnlinkFails(r) ==
    \/ "snapshot" \notin files[r] /\ ThreadStep(r, "upload", "error", files[r] \cup {"remote"})
    \/ \E gone \in {{}, {"snapshot"}} :
           ThreadStep(r, "uploadSnapshot", "error", (files[r] \cup {"remoteSnapshot"}) \ gone)

\* The storage refuses: what is written stays where it is.
UploadFails(r) ==
    \/ ThreadStep(r, "upload", "error", files[r])
    \/ ThreadStep(r, "uploadSnapshot", "error", files[r])

-----------------------------------------------------------------------------
(* The event loop again: the rest of _run_job.                             *)

\* update_recording_finished is an UPDATE by id: it changes nothing when the
\* row is gone, and COALESCE keeps the paths a call leaves out.
SetStatusUpsert(r, s) == [status EXCEPT ![r] = s]  \* mutant: no row needed
SetStatus(r, s) == [status EXCEPT ![r] = IF HasRow(r) THEN s ELSE @]
SetPaths(r) == [refs EXCEPT ![r] = IF HasRow(r) THEN files[r] ELSE @]

\* The finally clause: whatever happened, the key is free.
NotReleased(r) == active                           \* mutant: no finally
Released(r) == [active EXCEPT ![keyOf[r]] = NoRow]

LoopStep == UNCHANGED <<now, cameras, lastStarted, until, nextRow, jobVars,
                        files, crashes>>

\* The clip is stored.  With a local thumbnail _run_job then awaits the
\* recognition, colour and embedding threads; otherwise it runs to its end.
FinishJob(r) ==
    /\ stage[r] = "returned"
    /\ status' = SetStatus(r, "ready")
    /\ refs' = SetPaths(r)
    /\ IF "snapshot" \in files[r]
       THEN /\ stage' = [stage EXCEPT ![r] = "post"]
            /\ UNCHANGED active
       ELSE /\ stage' = [stage EXCEPT ![r] = "done"]
            /\ active' = Released(r)
    /\ LoopStep
    /\ UNCHANGED dbErrors

\* update_recording_finished raises, or a later call does; the except clause
\* marks the row failed, unless its own update raises too ("s" is then what
\* the row had).
FinishRaises(r, s) ==
    /\ stage[r] = "returned"
    /\ DbError
    /\ \/ refs' = refs /\ s \in {"recording", "failed"}
       \/ refs' = SetPaths(r) /\ s \in {"ready", "failed"}
    /\ status' = SetStatus(r, s)
    /\ stage' = [stage EXCEPT ![r] = "done"]
    /\ active' = Released(r)
    /\ LoopStep

\* Notifications, automations and the event row after the awaits.
CompletePost(r) ==
    /\ stage[r] = "post"
    /\ stage' = [stage EXCEPT ![r] = "done"]
    /\ active' = Released(r)
    /\ LoopStep
    /\ UNCHANGED <<status, refs, dbErrors>>

\* One of them raises: the except clause turns the stored clip into a failed
\* one.
PostRaises(r, s) ==
    /\ stage[r] = "post"
    /\ s \in {"ready", "failed"}
    /\ DbError
    /\ status' = SetStatus(r, s)
    /\ stage' = [stage EXCEPT ![r] = "done"]
    /\ active' = Released(r)
    /\ LoopStep
    /\ UNCHANGED refs

\* Mutants: the except clause names the files, or leaves the row alone.
HandleErrorNamingFiles(r) ==
    /\ stage[r] = "error"
    /\ status' = SetStatus(r, "failed")
    /\ refs' = SetPaths(r)
    /\ stage' = [stage EXCEPT ![r] = "done"]
    /\ active' = Released(r)
    /\ LoopStep
    /\ UNCHANGED dbErrors
HandleErrorSilently(r) ==
    /\ stage[r] = "error"
    /\ stage' = [stage EXCEPT ![r] = "done"]
    /\ active' = Released(r)
    /\ LoopStep
    /\ UNCHANGED <<status, refs, dbErrors>>

\* The thread raised.
HandleError(r) ==
    /\ stage[r] = "error"
    /\ status' = SetStatus(r, "failed")
    /\ stage' = [stage EXCEPT ![r] = "done"]
    /\ active' = Released(r)
    /\ LoopStep
    /\ UNCHANGED <<refs, dbErrors>>

\* ... and the except clause's update raises too.
HandleErrorRaises(r) ==
    /\ stage[r] = "error"
    /\ DbError
    /\ stage' = [stage EXCEPT ![r] = "done"]
    /\ active' = Released(r)
    /\ LoopStep
    /\ UNCHANGED <<status, refs>>

-----------------------------------------------------------------------------
(* The administrator, retention and the process itself.                    *)

\* The delete button, or retention for a ready row: the files the row names,
\* then the row.  Retention.tla takes the two steps apart.
DeleteRecording(r) ==
    /\ HasRow(r)
    /\ files' = [files EXCEPT ![r] = @ \ refs[r]]
    /\ refs' = [refs EXCEPT ![r] = {}]
    /\ status' = [status EXCEPT ![r] = "deleted"]
    /\ UNCHANGED <<now, cameras, memory, nextRow, jobVars, stage, crashes,
                   dbErrors>>

\* DELETE FROM cameras cascades to the rows; no file is removed.
DeleteCamera(c) ==
    /\ c \in cameras
    /\ cameras' = cameras \ {c}
    /\ LET gone == {r \in Rows : HasRow(r) /\ keyOf[r][1] = c} IN
         /\ status' = [r \in Rows |-> IF r \in gone THEN "deleted" ELSE status[r]]
         /\ refs' = [r \in Rows |-> IF r \in gone THEN {} ELSE refs[r]]
    /\ UNCHANGED <<now, memory, nextRow, jobVars, stage, files, crashes,
                   dbErrors>>

\* The process dies and is started again.  Its memory and its jobs are gone;
\* nothing at startup looks at the rows they left.
CrashRestart ==
    /\ crashes < MaxCrashes
    /\ crashes' = crashes + 1
    /\ active' = [k \in Keys |-> NoRow]
    /\ lastStarted' = [k \in Keys |-> Never]
    /\ stage' = [r \in Rows |-> IF InFlight(r) \/ stage[r] = "wedged"
                                THEN "lost" ELSE stage[r]]
    /\ \E partial \in SUBSET {r \in Rows : stage[r] = "build"} :
          files' = [r \in Rows |-> IF r \in partial THEN {"local"} ELSE files[r]]
    /\ UNCHANGED <<now, cameras, until, nextRow, status, refs, jobVars, dbErrors>>

Tick ==
    /\ now < MaxTime
    /\ now' = now + 1
    /\ UNCHANGED <<cameras, memory, nextRow, status, refs, jobVars, stage, files,
                   crashes, dbErrors>>

\* The bounded clock has run out and no job is left: the only rest state.
Quiet ==
    /\ now = MaxTime
    /\ \A r \in Rows : ~InFlight(r)
    /\ UNCHANGED vars

-----------------------------------------------------------------------------
ThreadNext(r) ==
    \/ BeginBody(r)
    \/ BeginFails(r)
    \/ EndBody(r)
    \/ BodyEmpty(r)
    \/ \E thumb \in {{}, {"snapshot"}} : BuildClip(r, thumb)
    \/ \E left \in {{}, {"local"}} : BuildFails(r, left)
    \/ UploadClip(r)
    \/ UploadSnapshot(r)
    \/ UnlinkFails(r)
    \/ UploadFails(r)

LoopNext(r) ==
    \/ FinishJob(r)
    \/ \E s \in {"recording", "ready", "failed"} : FinishRaises(r, s)
    \/ CompletePost(r)
    \/ \E s \in {"ready", "failed"} : PostRaises(r, s)
    \/ HandleError(r)
    \/ HandleErrorRaises(r)

Next ==
    \/ \E k \in Keys, kind \in Targets : StartRecording(k, kind)
    \/ \E k \in Keys, kind \in Targets : StartAborted(k, kind)
    \/ \E k \in Keys : ExtendRecording(k)
    \/ \E r \in Rows : ThreadNext(r)
    \/ \E r \in Rows : LoopNext(r)
    \/ \E r \in Rows : DeleteRecording(r)
    \/ \E c \in Cameras : DeleteCamera(c)
    \/ CrashRestart
    \/ Tick
    \/ Quiet

Spec == Init /\ [][Next]_vars

\* The executor runs its threads, the loop runs its tasks and time passes.
\* Nothing obliges a detection, a deletion or a crash to happen.
Fairness ==
    /\ WF_vars(Tick)
    /\ \A r \in Rows : WF_vars(ThreadNext(r)) /\ WF_vars(LoopNext(r))

FairSpec == Spec /\ Fairness

-----------------------------------------------------------------------------
(* Properties.                                                             *)

TypeOK ==
    /\ now \in Nat
    /\ cameras \subseteq Cameras
    /\ active \in [Keys -> Rows \cup {NoRow}]
    /\ lastStarted \in [Keys -> Nat \cup {Never}]
    /\ nextRow \in 1 .. (MaxRows + 1)
    /\ status \in [Rows -> {"unborn", "recording", "ready", "failed", "deleted"}]
    /\ refs \in [Rows -> SUBSET Artefacts]
    /\ keyOf \in [Rows -> Keys \cup {NoKey}]
    /\ target \in [Rows -> Targets]
    /\ startedAt \in [Rows -> Nat]
    /\ until \in [Rows -> Nat]
    /\ stage \in [Rows -> Stages]
    /\ files \in [Rows -> SUBSET Artefacts]
    /\ crashes \in Nat
    /\ dbErrors \in Nat

\* Two jobs never record the same key of the same camera at once, although
\* the check of _active and the release in _run_job's finally clause are
\* far apart and the release pops by key, not by job.
OneJobPerKey ==
    \A q, r \in Rows :
        InFlight(q) /\ InFlight(r) /\ keyOf[q] = keyOf[r] => q = r

\* A row that says "ready" names exactly what is stored for it: the clip is
\* there, and no local copy or thumbnail stays behind unreferenced after an
\* upload.  Retention counts and frees only what rows name.
ReadyClipExact ==
    \A r \in Rows : status[r] = "ready" =>
        /\ files[r] = refs[r]
        /\ refs[r] \in StoredSets

\* A row tells what became of its clip.  A failed one names no file, so
\* nothing retention skips is on disk under a row, and one still "recording"
\* has a job that will settle it; unless a database call raised, or for the
\* job a restart took it.
FailedRowNamesNothing ==
    dbErrors = 0 => \A r \in Rows : status[r] = "failed" => refs[r] = {}
RecordingRowHasJob ==
    dbErrors = 0 /\ crashes = 0 =>
        \A r \in Rows : status[r] = "recording" => InFlight(r)
RowsTellTheJob == FailedRowNamesNothing /\ RecordingRowHasJob

\* An active key blocks new clips of that key: it is held by a running job,
\* or by an iteration that raised after marking it.
ActiveKeyHeld ==
    \A k \in Keys : active[k] # NoRow =>
        /\ keyOf[active[k]] = k
        /\ InFlight(active[k]) \/ (stage[active[k]] = "wedged" /\ dbErrors > 0)

\* Within one life of the process two clips of a key start at least the
\* cooldown apart, however the first one ended.
ClipsSpaced ==
    crashes = 0 =>
        \A q, r \in 1 .. (nextRow - 1) :
            q < r /\ keyOf[q] = keyOf[r] => startedAt[r] >= startedAt[q] + Cooldown

\* Jobs, threads, deletions, errors and restarts together do what the
\* register of ClipRegister promises: a row says something new only while its
\* job holds its key, first ready or failed, then at most failed instead of
\* ready, and nothing after it was deleted.
Register == INSTANCE ClipRegister WITH Clips <- Rows, Nobody <- NoRow, Whole <- StoredSets,
                                       holder <- active, life <- status, names <- refs
Implements == Register!Spec

\* A row that was deleted stays deleted: a job that outlives its row must not
\* bring it back, nor may a failed clip become ready later.
NoResurrection ==
    [][\A r \in Rows : /\ status[r] = "deleted" => status'[r] = "deleted"
                       /\ status[r] = "failed" => status'[r] # "ready"]_vars

\* notifications.py says notification failures never break the recording
\* flow.  As an action property: no step turns a ready clip into a failed one.
ReadyStaysReady ==
    [][\A r \in Rows : status[r] = "ready" => status'[r] # "failed"]_vars

\* Once detections pause, every job ends and gives its key back, whatever
\* failed on the way, and its row leaves "recording"; only an iteration that
\* raised keeps its key, and only a raised call or a restart keeps a row.
KeyIsFreed ==
    \A k \in Keys : active[k] # NoRow ~> (active[k] = NoRow \/ dbErrors > 0)
RowSettles ==
    \A r \in Rows :
        status[r] = "recording" ~>
            (status[r] # "recording" \/ dbErrors > 0 \/ crashes > 0)
JobsEnd == KeyIsFreed /\ RowSettles
=============================================================================
