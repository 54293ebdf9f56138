------------------------------- MODULE Backups -------------------------------
(***************************************************************************)
(* Backup and restore of the database (backup.py, routers/settings.py) and *)
(* the schedule (main.py, _backup_schedule_loop).  A scheduled backup runs *)
(* in a thread; one asked for by an administrator, and a restore, run on   *)
(* the event loop; the threads of the other parts commit to the database   *)
(* all the while.  A write may fail, and the process may end between any   *)
(* two file operations.                                                    *)
(***************************************************************************)
EXTENDS Naturals, FiniteSets

CONSTANTS
    Retain,     \* retain_count: 1 .. 365
    MaxVersion, \* bound: contents the database ever has, from 1
    MaxStamps,  \* bound: modification times given to archives
    MaxTroubles \* bound: failures and crashes

VARIABLES
    db,         \* content of the database file
    wal,        \* the database its write-ahead log belongs to; 0: none
    latest,     \* newest content: a change is a new one
    bak,        \* <database>.bak
    restore,    \* where restore_backup is, and what it restores
    before,     \* history: what the last restore replaces, or replaced
    files,      \* local archives: modified when, of which content
    stamp,      \* the last modification time given
    writer,     \* each create_backup_file: the archive it is writing
    run,        \* where the thread of the scheduled run is
    spoiled,    \* history: the write of another backup failed since the
                \* scheduled run ended its own
    external,   \* archives on the external target
    due,        \* schedule_is_due
    troubles

backupVars == <<db, wal, latest, bak, restore, before, files, stamp, writer,
                run, spoiled, external, due, troubles>>

Partial == 0                \* a file whose writing was interrupted
Mixed == MaxVersion + 1     \* a database with the log of another replayed
None == 0
Writers == {"page", "schedule"}
Archive(n, content) == [n |-> n, content |-> content]
NoArchive == Archive(0, None)
NoRestore == [at |-> "idle", of |-> None]

Init ==
    /\ db = 1
    /\ wal = 1
    /\ latest = 1
    /\ bak = None
    /\ restore = NoRestore
    /\ before = None
    /\ files = {}
    /\ stamp = 0
    /\ writer = [w \in Writers |-> NoArchive]
    /\ run = "idle"
    /\ spoiled = FALSE
    /\ external = {}
    /\ due = FALSE
    /\ troubles = 0

Trouble == troubles < MaxTroubles /\ troubles' = troubles + 1
LoopFree == restore.at = "idle" /\ writer["page"] = NoArchive

\* What SQLite makes of the file when it is opened: it replays whatever log
\* lies beside it.
Opened == IF wal \in {None, db} THEN db ELSE Mixed

\* What a connection leaves behind; until .bak is written, that is what a
\* restore is to keep.
Leaves(content) ==
    /\ db' = content
    /\ wal' = content
    /\ before' = IF restore.at = "bak" THEN content ELSE before

-----------------------------------------------------------------------------
(* The application changes the database.                                   *)

\* A handler on the loop or one of the threads, which a restore does not hold
\* up; one that opened the database before it was replaced writes to the log
\* that is then dropped.
Change ==
    /\ latest < MaxVersion
    /\ latest' = latest + 1
    /\ \/ Leaves(IF Opened = db THEN latest + 1 ELSE Mixed)
       \/ restore.at = "wal" /\ UNCHANGED <<db, wal, before>>
    /\ UNCHANGED <<bak, restore, files, stamp, writer, run, spoiled, external, due,
                   troubles>>

-----------------------------------------------------------------------------
(* create_backup_file                                                      *)

\* The snapshot; then os.open with O_EXCL: a name of its own, an empty file.
BeginArchive(w) ==
    /\ writer[w] = NoArchive
    /\ stamp < MaxStamps
    /\ stamp' = stamp + 1
    /\ Leaves(Opened)
    /\ files' = files \cup {Archive(stamp + 1, Partial)}
    /\ writer' = [writer EXCEPT ![w] = Archive(stamp + 1, Opened)]
    /\ UNCHANGED <<latest, bak, restore, spoiled, external, due, troubles>>

BackupButton == LoopFree /\ BeginArchive("page") /\ UNCHANGED run

\* The loop finds the schedule due, and its target there; what follows is in a
\* thread.
ScheduleDue ==
    /\ LoopFree
    /\ due /\ run = "idle"
    /\ run' = "snapshot"
    /\ UNCHANGED <<db, wal, latest, bak, restore, before, files, stamp, writer,
                   spoiled, external, due, troubles>>

BeginScheduled ==
    /\ run = "snapshot"
    /\ run' = "write"
    /\ BeginArchive("schedule")

TimePasses ==
    /\ ~due
    /\ due' = TRUE
    /\ UNCHANGED <<db, wal, latest, bak, restore, before, files, stamp, writer,
                   run, spoiled, external, troubles>>

\* The file w writes, under its new time.
Unfinished(w) == Archive(writer[w].n, Partial)
Becomes(w, archive) ==
    /\ writer[w] # NoArchive
    /\ stamp < MaxStamps
    /\ stamp' = stamp + 1
    /\ files' = IF Unfinished(w) \in files
                THEN (files \ {Unfinished(w)}) \cup {archive}
                ELSE files
    /\ UNCHANGED <<db, wal, latest, bak, restore, before, external, due, troubles>>

\* write: some of it has arrived.
WriteSome(w) ==
    /\ Becomes(w, Archive(stamp + 1, Partial))
    /\ writer' = [writer EXCEPT ![w] = Archive(stamp + 1, writer[w].content)]
    /\ UNCHANGED <<run, spoiled>>

\* The rest of it, flush, fsync.
EndArchive(w) ==
    /\ Becomes(w, Archive(stamp + 1, writer[w].content))
    /\ writer' = [writer EXCEPT ![w] = NoArchive]
    /\ IF w = "schedule" THEN run' = "prune" ELSE UNCHANGED run
    /\ UNCHANGED spoiled

\* The scheduled run is over, and recorded: record_backup_schedule_run.
RunOver == run' = "idle" /\ due' = FALSE /\ spoiled' = FALSE

\* OSError: the file stays as far as it was written.
FailArchive(w) ==
    /\ writer[w] # NoArchive
    /\ Trouble
    /\ writer' = [writer EXCEPT ![w] = NoArchive]
    /\ IF w = "schedule"
       THEN RunOver
       ELSE spoiled' = (run = "prune") /\ UNCHANGED <<run, due>>
    /\ UNCHANGED <<db, wal, latest, bak, restore, before, files, stamp, external>>

-----------------------------------------------------------------------------
(* The rest of run_scheduled_backup.                                       *)

Newer(f, set) == {g \in set : g.n > f.n}

\* prune_backup_files: what is beyond the newest retain_count.
KeptOldest(set) ==                           \* mutant: sorted the other way
    {f \in set : Cardinality({g \in set : g.n < f.n}) < Retain}
Kept(set) == {f \in set : Cardinality(Newer(f, set)) < Retain}

Prune ==
    /\ run = "prune"
    /\ files' = Kept(files)
    /\ run' = "copy"
    /\ spoiled' = FALSE
    /\ UNCHANGED <<db, wal, latest, bak, restore, before, stamp, writer,
                   external, due, troubles>>

CopyAndPruneExternal ==
    /\ run = "copy"
    /\ \/ \E f \in files :
              /\ f.content # Partial
              /\ external' = Kept(external \cup {f})
       \/ UNCHANGED external          \* no target is selected
    /\ RunOver
    /\ UNCHANGED <<db, wal, latest, bak, restore, before, files, stamp, writer,
                   troubles>>

\* The snapshot fails, an old archive cannot be deleted, the target is gone or
\* cannot be reached, the disk is full: recorded, so that it is not tried again
\* before it is due again.
RunFails ==
    /\ run \in {"snapshot", "prune", "copy"}
    /\ Trouble
    /\ RunOver
    /\ \/ UNCHANGED files
       \/ run = "prune" /\ \E n \in 0 .. stamp : files' = Kept(files) \cup {f \in files : f.n <= n}
    /\ UNCHANGED <<db, wal, latest, bak, restore, before, stamp, writer, external>>

-----------------------------------------------------------------------------
(* restore_backup                                                          *)

RestoreStep(from, to) ==
    /\ restore.at = from
    /\ restore' = IF to = "idle" THEN NoRestore ELSE [restore EXCEPT !.at = to]
    /\ UNCHANGED <<latest, files, stamp, writer, run, spoiled, external, due>>

\* The archive decrypts and has a manifest this version knows.
BeginRestore ==
    /\ LoopFree
    /\ \E f \in files :
           /\ f.content # Partial
           /\ restore' = [at |-> "bak", of |-> f.content]
    /\ before' = db
    /\ UNCHANGED <<db, wal, latest, bak, files, stamp, writer, run, spoiled, external,
                   due, troubles>>

\* The snapshot of the database as it is.
SaveBakLate ==                               \* mutant: saved when replaced
    /\ RestoreStep("bak", "tmp")
    /\ UNCHANGED <<db, wal, bak, before, troubles>>
SaveBak ==
    /\ RestoreStep("bak", "tmp")
    /\ bak' = db
    /\ UNCHANGED <<db, wal, before, troubles>>

\* The file cannot be written, or holds no database.
RestoreRefused ==
    /\ Trouble
    /\ \/ RestoreStep("bak", "idle") /\ bak' = Partial
       \/ RestoreStep("tmp", "idle") /\ UNCHANGED bak
    /\ before' = None
    /\ UNCHANGED <<db, wal>>

\* os.replace
ReplaceDatabase ==
    /\ RestoreStep("tmp", "wal")
    /\ db' = restore.of
    /\ UNCHANGED <<wal, bak, before, troubles>>

DropLog ==
    /\ RestoreStep("wal", "idle")
    /\ wal' = None
    /\ UNCHANGED <<db, bak, before, troubles>>

\* The process ends and is started again: files are as they were left, and
\* SQLite replays whatever log lies beside the database.
Crash ==
    /\ Trouble
    /\ restore' = NoRestore
    /\ writer' = [w \in Writers |-> NoArchive]
    /\ run' = "idle"
    /\ spoiled' = FALSE
    /\ db' = Opened
    /\ wal' = db'
    /\ IF restore.at = "bak" THEN bak' \in {bak, Partial} ELSE UNCHANGED bak
    /\ before' = IF restore.at \in {"bak", "tmp"} THEN None ELSE before
    /\ UNCHANGED <<latest, files, stamp, external, due>>

Next ==
    \/ Change
    \/ BackupButton
    \/ ScheduleDue
    \/ BeginScheduled
    \/ TimePasses
    \/ \E w \in Writers : WriteSome(w) \/ EndArchive(w) \/ FailArchive(w)
    \/ Prune
    \/ CopyAndPruneExternal
    \/ RunFails
    \/ BeginRestore
    \/ SaveBak
    \/ RestoreRefused
    \/ ReplaceDatabase
    \/ DropLog
    \/ Crash

Spec == Init /\ [][Next]_backupVars

-----------------------------------------------------------------------------
(* Properties.                                                             *)

Contents == 0 .. Mixed

TypeOK ==
    /\ db \in Contents /\ wal \in Contents /\ bak \in Contents /\ before \in Contents
    /\ latest \in 1 .. MaxVersion
    /\ restore \in [at : {"idle", "bak", "tmp", "wal"}, of : Contents]
    /\ files \cup external \subseteq [n : 1 .. MaxStamps, content : Contents]
    /\ stamp \in 0 .. MaxStamps
    /\ writer \in [Writers -> [n : 0 .. MaxStamps, content : Contents]]
    /\ run \in {"idle", "snapshot", "write", "prune", "copy"}
    /\ spoiled \in BOOLEAN /\ due \in BOOLEAN
    /\ troubles \in 0 .. MaxTroubles

\* restore_backup: "so a failed or unwanted restore can be undone by hand".
\* However a restore fails or is cut short, and whatever the threads commit
\* meanwhile, what the database held when .bak was to be written is the .bak
\* file, or still the database.  What is committed after that, before the
\* database is replaced, is lost.
RestoreUndone == before \in {None, db, bak}

\* Pruning, with what crashes, failed backups and a backup in progress have left
\* half-written among the newest files, never takes the last complete archive;
\* unless the write of an administrator's backup fails between the run's own
\* write and its pruning: then this partial file and the one that is written
\* next can be the newest two.  Not so with Retain = 1: the one an
\* administrator's backup is just writing is then the only one kept.
Complete(set) == {f \in set : f.content # Partial}
ArchiveKept == Complete(files) # {} /\ ~spoiled => Complete(files') # {}
ArchiveRemains == [][ArchiveKept]_files

\* Why it holds.  Until the old database is replaced it is there, and from then
\* on the .bak file is.
UndoOrdered ==
    /\ restore.at = "idle" => before \in {None, bak}
    /\ restore.at = "bak" => before = db
    /\ restore.at \in {"tmp", "wal"} => before = bak
    /\ db # Partial
    /\ restore.at # "idle" => restore.of # Partial

\* From the end of its write to its pruning, a scheduled run has a complete
\* archive, its own or a later one, that is only older than the one which an
\* administrator's backup is writing.
Newest(f) == \A g \in files : g.n > f.n => g = Unfinished("page")
RunOrdered ==
    /\ \A f \in files : f.n <= stamp
    /\ \A w \in Writers : writer[w] # NoArchive =>
           writer[w].content # Partial /\ writer[w].n \in 1 .. stamp
    /\ writer["schedule"] # NoArchive <=> run = "write"
    /\ run = "write" => /\ Unfinished("schedule") \in files
                        /\ writer["page"].n # writer["schedule"].n
    /\ run = "prune" /\ ~spoiled => \E f \in Complete(files) : Newest(f)

IInv == TypeOK /\ RestoreUndone /\ UndoOrdered /\ RunOrdered
=============================================================================
