------------------------------ MODULE Retention ------------------------------
(***************************************************************************)
(* Deletion of stored clips: the retention pass (maintenance.py,           *)
(* apply_cleanup) that _cleanup_loop runs in a thread every hour and the   *)
(* administrator may start by hand, the delete button of a clip, the trash *)
(* button of the storage explorer (delete_recording_group), locking,       *)
(* removal of the camera and changes of the storage target.                *)
(*                                                                         *)
(* The hourly pass runs beside the event loop; everything else is an       *)
(* async handler that calls these functions without an await, so it keeps  *)
(* the event loop to itself.  A deletion is four steps that the other      *)
(* thread may come between: read the row, remove the clip, remove the      *)
(* thumbnail, delete the row.  Recordings are numbered by started_at,      *)
(* which is also the order of their ids.                                   *)
(*                                                                         *)
(* Which recordings the rules select is RetentionRules.tla; here "due" is  *)
(* that selection before the lock is looked at, and it may change at any   *)
(* time.  There is one camera and one remote storage target.               *)
(***************************************************************************)
EXTENDS Integers

CONSTANTS
    MaxRecording,  \* bound: recordings 1 .. MaxRecording
    Remote,        \* those on the remote storage target
    Stuck,         \* those whose files cannot be removed: every try raises
    MaxFailures,   \* bound: calls that raise once and work the next time
    MaxCrashes,    \* bound: restarts of the process
    MaxChanges     \* bound: changes of "due" and of locks

Recordings == 1 .. MaxRecording

ASSUME ParamsAssumption ==
    /\ MaxRecording \in Nat
    /\ Remote \subseteq Recordings /\ Stuck \subseteq Recordings
    /\ MaxFailures \in Nat /\ MaxCrashes \in Nat /\ MaxChanges \in Nat

Artefacts == {"clip", "thumb"}
Passes == {"thread", "loop"}   \* _cleanup_loop's thread, a request's handler

VARIABLES
    status,     \* "absent", then "ready", then "gone"
    locked,     \* recordings.locked = 1
    due,        \* what the rules select among all ready recordings
    camera,     \* the camera's row exists
    storage,    \* the remote target: "original", "changed" or "removed"
    files,      \* what exists of each recording
    pc,         \* where a pass stands
    job,        \* what it was started for
    todo,       \* what it has still to delete, the recording in hand included
    reach,      \* the target its row in hand was read with
    failures, crashes, changes

rows == <<status, locked, due, camera, storage>>
bounds == <<failures, crashes, changes>>
vars == <<status, locked, due, camera, storage, files, pc, job, todo, reach,
          failures, crashes, changes>>

NewestFirst(S) == CHOOSE r \in S : \A q \in S : q <= r \* mutant: other order
Oldest(S) == CHOOSE r \in S : \A q \in S : r <= q
InHand(p) == Oldest(todo[p])
Ready == {r \in Recordings : status[r] = "ready"}

Init ==
    /\ status = [r \in Recordings |-> "absent"]
    /\ locked = {}
    /\ due = {}
    /\ camera = TRUE
    /\ storage = "original"
    /\ files = [r \in Recordings |-> {}]
    /\ pc = [p \in Passes |-> "idle"]
    /\ job = [p \in Passes |-> "cleanup"]
    /\ todo = [p \in Passes |-> {}]
    /\ reach = [p \in Passes |-> "none"]
    /\ failures = 0 /\ crashes = 0 /\ changes = 0

\* No handler is in the middle of a deletion on the event loop.
LoopShared == TRUE                                 \* mutant: handlers overlap
LoopFree == pc["loop"] = "idle"

-----------------------------------------------------------------------------
(* A pass.                                                                 *)

StartPass(p, kind, selected, stage) ==
    /\ pc[p] = "idle"
    /\ pc' = [pc EXCEPT ![p] = stage]
    /\ job' = [job EXCEPT ![p] = kind]
    /\ todo' = [todo EXCEPT ![p] = selected]
    /\ UNCHANGED <<rows, files, bounds>>

\* cleanup_preview: ready, selected by a rule, not locked.
Doomed == (Ready \cap due) \ locked

StartCleanup(p) ==
    /\ StartPass(p, "cleanup", Doomed, "next")
    /\ UNCHANGED reach

\* One line of the storage explorer: the ready clips of one storage id.  The
\* lock plays no part.
StartGroupDelete(group) ==
    /\ StartPass("loop", "group", Ready \cap group, "next")
    /\ UNCHANGED reach

\* The delete button reads the row, refuses a locked one and goes on.
PressDelete(r) ==
    /\ status[r] = "ready"
    /\ r \notin locked
    /\ StartPass("loop", "button", {r}, "clip")
    /\ reach' = [reach EXCEPT !["loop"] = storage]

AbortKeepingWork(p) ==                             \* mutant: work not dropped
    /\ pc' = [pc EXCEPT ![p] = "idle"]
    /\ UNCHANGED todo
Drop(p) ==
    /\ pc' = [pc EXCEPT ![p] = "idle"]
    /\ todo' = [todo EXCEPT ![p] = {}]

\* The pass has dealt with its recording and turns to the next one.
Advance(p) ==
    /\ pc' = [pc EXCEPT ![p] = "next"]
    /\ todo' = [todo EXCEPT ![p] = @ \ {InHand(p)}]

FinishPass(p) ==
    /\ pc[p] = "next" /\ todo[p] = {}
    /\ Drop(p)
    /\ UNCHANGED <<rows, files, job, reach, bounds>>

\* get_recording finds the row, joined with its storage target.
ReadRow(p) ==
    /\ pc[p] = "next" /\ todo[p] # {}
    /\ status[InHand(p)] = "ready"
    /\ reach' = [reach EXCEPT ![p] = storage]
    /\ pc' = [pc EXCEPT ![p] = "clip"]
    /\ UNCHANGED <<rows, files, job, todo, bounds>>

\* The row is gone.  A retention pass goes on with the row of its preview,
\* which has no storage target; the group deletion skips it.
RowVanished(p) ==
    /\ pc[p] = "next" /\ todo[p] # {}
    /\ status[InHand(p)] = "gone"
    /\ IF job[p] = "cleanup"
       THEN /\ pc' = [pc EXCEPT ![p] = "clip"]
            /\ reach' = [reach EXCEPT ![p] = "none"]
            /\ UNCHANGED todo
       ELSE /\ Advance(p)
            /\ UNCHANGED reach
    /\ UNCHANGED <<rows, files, job, bounds>>

\* delete_recording_files on one artefact.  A local path is unlinked.  A
\* remote key is deleted on the target read with the row; a row without one
\* takes the S3 branch, which returns when there is no bucket.
Reached(p, r) == r \notin Remote \/ reach[p] = "original"
Called(p, r) == r \notin Remote \/ reach[p] \in {"original", "changed"}

RemoveFile(p, stage, artefact, then) ==
    LET r == InHand(p) IN
    /\ pc[p] = stage
    /\ ~(r \in Stuck /\ Called(p, r))
    /\ files' = [files EXCEPT ![r] = IF Reached(p, r) THEN @ \ {artefact} ELSE @]
    /\ pc' = [pc EXCEPT ![p] = then]
    /\ UNCHANGED <<rows, job, todo, reach, bounds>>

RemoveThumbOnly(p) == RemoveFile(p, "clip", "thumb", "thumb") \* mutant: wrong column
RemoveClip(p) == RemoveFile(p, "clip", "clip", "thumb")
RemoveThumb(p) == RemoveFile(p, "thumb", "thumb", "row")

\* delete_recording_metadata, a DELETE by id.
DeleteRowUncommitted(p) ==                         \* mutant: no commit
    /\ pc[p] = "row"
    /\ Advance(p)
    /\ UNCHANGED <<rows, files, job, reach, bounds>>
DeleteRow(p) ==
    LET r == InHand(p) IN
    /\ pc[p] = "row"
    /\ status' = [status EXCEPT ![r] = "gone"]
    /\ locked' = locked \ {r}
    /\ Advance(p)
    /\ UNCHANGED <<due, camera, storage, files, job, reach, bounds>>

\* A removal raises, and with it the whole pass ends.
StuckRaises(p) ==
    /\ pc[p] = "clip" /\ InHand(p) \in Stuck /\ Called(p, InHand(p))
    /\ Drop(p)
    /\ UNCHANGED <<rows, files, job, reach, bounds>>

CallRaises(p) ==
    /\ pc[p] \in {"next", "clip", "thumb", "row"}
    /\ failures < MaxFailures
    /\ failures' = failures + 1
    /\ Drop(p)
    /\ UNCHANGED <<rows, files, job, reach, crashes, changes>>

-----------------------------------------------------------------------------
(* The other handlers and the outside world.                               *)

\* A recording job stores its clip (EventRecording.tla).  It knows the target
\* it was started with, so a clip is never uploaded to a changed one.
StoreClip(r) ==
    /\ LoopFree
    /\ camera
    /\ status[r] = "absent"
    /\ \A q \in 1 .. (r - 1) : status[q] # "absent"
    /\ r \in Remote => storage = "original"
    /\ status' = [status EXCEPT ![r] = "ready"]
    /\ files' = [files EXCEPT ![r] = Artefacts]
    /\ UNCHANGED <<locked, due, camera, storage, pc, job, todo, reach, bounds>>

Change ==
    /\ changes < MaxChanges
    /\ changes' = changes + 1

Lock(r) ==
    /\ LoopFree /\ status[r] = "ready"
    /\ Change
    /\ locked' = locked \cup {r}
    /\ UNCHANGED <<status, due, camera, storage, files, pc, job, todo, reach,
                   failures, crashes>>

Unlock(r) ==
    /\ LoopFree /\ status[r] = "ready"
    /\ Change
    /\ locked' = locked \ {r}
    /\ UNCHANGED <<status, due, camera, storage, files, pc, job, todo, reach,
                   failures, crashes>>

\* Time passes, clips add up, or the rules are edited.
ChangeDue(selection) ==
    /\ Change
    /\ due' = selection
    /\ UNCHANGED <<status, locked, camera, storage, files, pc, job, todo, reach,
                   failures, crashes>>

\* DELETE FROM cameras: the rows go with it, the files stay.
DeleteCamera ==
    /\ LoopFree /\ camera
    /\ camera' = FALSE
    /\ status' = [r \in Recordings |->
                     IF status[r] = "ready" THEN "gone" ELSE status[r]]
    /\ locked' = {}
    /\ UNCHANGED <<due, storage, files, pc, job, todo, reach, bounds>>

\* update_storage_target with another bucket or URL; delete_storage_target.
ChangeStorage(to) ==
    /\ LoopFree /\ storage # "removed"
    /\ storage' = to
    /\ UNCHANGED <<status, locked, due, camera, files, pc, job, todo, reach,
                   bounds>>

CrashRestart ==
    /\ crashes < MaxCrashes
    /\ crashes' = crashes + 1
    /\ pc' = [p \in Passes |-> "idle"]
    /\ todo' = [p \in Passes |-> {}]
    /\ UNCHANGED <<rows, files, job, reach, failures, changes>>

-----------------------------------------------------------------------------
PassNext(p) ==
    \/ FinishPass(p)
    \/ ReadRow(p)
    \/ RowVanished(p)
    \/ RemoveClip(p)
    \/ RemoveThumb(p)
    \/ DeleteRow(p)
    \/ StuckRaises(p)

Next ==
    \/ \E p \in Passes : StartCleanup(p)
    \/ \E group \in {Remote, Recordings \ Remote} : StartGroupDelete(group)
    \/ \E r \in Recordings : PressDelete(r)
    \/ \E p \in Passes : PassNext(p)
    \/ \E p \in Passes : CallRaises(p)
    \/ \E r \in Recordings : StoreClip(r)
    \/ \E r \in Recordings : Lock(r)
    \/ \E r \in Recordings : Unlock(r)
    \/ \E selection \in SUBSET Recordings : ChangeDue(selection)
    \/ DeleteCamera
    \/ \E to \in {"changed", "removed"} : ChangeStorage(to)
    \/ CrashRestart

Spec == Init /\ [][Next]_vars

\* The hourly loop always starts another pass, and a pass that was started
\* runs to its end.
Fairness ==
    /\ WF_vars(StartCleanup("thread"))
    /\ \A p \in Passes : WF_vars(PassNext(p))

FairSpec == Spec /\ Fairness

-----------------------------------------------------------------------------
(* Properties.                                                             *)

TypeOK ==
    /\ status \in [Recordings -> {"absent", "ready", "gone"}]
    /\ locked \subseteq Ready
    /\ due \subseteq Recordings
    /\ camera \in BOOLEAN
    /\ storage \in {"original", "changed", "removed"}
    /\ files \in [Recordings -> SUBSET Artefacts]
    /\ pc \in [Passes -> {"idle", "next", "clip", "thumb", "row"}]
    /\ job \in [Passes -> {"cleanup", "group", "button"}]
    /\ todo \in [Passes -> SUBSET Recordings]
    /\ reach \in [Passes -> {"none", "original", "changed", "removed"}]
    /\ failures \in Nat /\ crashes \in Nat /\ changes \in Nat
    /\ \A p \in Passes : /\ pc[p] = "idle" => todo[p] = {}
                         /\ pc[p] \in {"clip", "thumb", "row"} => todo[p] # {}

\* Nothing is left in storage without a row, unless the camera was removed or
\* the clip was on a target that was changed or removed: two passes over the
\* same recordings, failures halfway and restarts leave no orphan.
OrphansExplained ==
    \A r \in Recordings :
        status[r] = "gone" /\ files[r] # {} =>
            ~camera \/ (r \in Remote /\ storage # "original")

\* A clip the user sees has its files, unless a pass is deleting it at this
\* moment or a deletion was cut short by an error or a restart.
DanglingExplained ==
    \A r \in Ready :
        \/ files[r] = Artefacts
        \/ \E p \in Passes : pc[p] \in {"thumb", "row"} /\ InHand(p) = r
        \/ failures + crashes > 0

\* The delete button never works on a locked recording: the check and the
\* deletion are one turn of the event loop, and locking needs another.
ButtonSparesLocked ==
    pc["loop"] # "idle" /\ job["loop"] = "button" =>
        todo["loop"] \cap locked = {}

\* The manuals say locked clips are excluded from retention, the interface
\* that a locked recording is protected from deletion: neither a retention
\* pass nor the trash button of the storage explorer deletes the row of a
\* recording that is locked at that moment.
LockedSurvives ==
    [][\A p \in Passes :
          pc[p] = "row" /\ camera /\ InHand(p) \in locked =>
              ~(status[InHand(p)] = "ready" /\ status'[InHand(p)] = "gone")]_vars

\* A due recording that is not locked does not stay for ever, whatever fails
\* now and then or is restarted: the next pass tries again.  It may stay if
\* an older recording cannot be deleted, for the pass ends there every time.
DueIsDeleted ==
    \A r \in Recordings : (\A s \in Stuck : r < s) =>
        []<>~(status[r] = "ready" /\ r \in due /\ r \notin locked)
=============================================================================
