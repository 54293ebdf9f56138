--------------------------- MODULE PluginPackages ---------------------------
(***************************************************************************)
(* One external package: a camera, cloud or network plugin or a design     *)
(* theme (camera_modules/packages.py and its three siblings), the registry *)
(* that loads it, the GitHub source it is updated from and the hourly      *)
(* update check (main.py, routers/plugins.py, plugin_sources.py).          *)
(*                                                                         *)
(* install_*_archive runs on the event loop without an await, so nothing   *)
(* but threads, GitHub and the end of the process comes between its steps; *)
(* they are steps because each touches the disk and may be the last.  A    *)
(* directory's content is its version and how much of it is there: rmtree  *)
(* removes files in any order and may stop half-way.                       *)
(***************************************************************************)
EXTENDS Naturals

CONSTANTS
    Kinds,        \* kinds of package looked at
    MaxSha,       \* bound: commits the repository ever has
    Defective,    \* commits whose archive has the defect
    Defect,       \* what is wrong with it
    NeedsPackage, \* commits that require a Python distribution
    Syncs,        \* synchronisations that may be in flight together
    MaxTroubles   \* bound: calls that fail and restarts

VARIABLES
    kind,
    target,       \* the directory <root>/<key>
    backup,       \* the directory <root>/.<key>.backup
    registry,     \* the lru_cache of the registry: what it loaded for the key
    at,           \* the step the running install is at
    coming,       \* the commit whose archive is being installed
    by,           \* who installs it: a synchronisation, or an upload
    head,         \* the commit the source's branch points to
    row,          \* the plugin_sources row
    sync,         \* each _sync_plugin_source
    check,        \* the update check: the row it read and what GitHub said
    inUse,        \* a camera, an account or the design setting uses the key
    satisfied,    \* the distribution is installed
    troubles      \* how many of them there were

installVars == <<target, backup, registry, at, coming, by>>
sourceVars == <<head, row, sync, check>>
vars == <<kind, installVars, sourceVars, inUse, satisfied, troubles>>

Shas == 1 .. MaxSha
NoSha == 0
Uploaded == MaxSha + 1       \* a ZIP an administrator uploaded
Versions == Shas \cup {Uploaded}
NoSync == 0

\* whole; without its code (theme: stylesheet); without its manifest; absent.
Forms == {"whole", "shell", "rest", "absent"}
Dir(v, form) == [version |-> v, form |-> form]
Absent == Dir(NoSha, "absent")
Exists(d) == d.form # "absent"

\* Ids are not used again: a deleted row is gone for good.
NoRow == [is |-> "none", sha |-> NoSha, update |-> FALSE]
Registered == row.is = "there"
Idle == [at |-> "idle", sha |-> NoSha]
NoCheck == [at |-> "idle", installed |-> NoSha, sha |-> NoSha]
Nothing == NoSha
Unset == MaxSha + 2

Init ==
    /\ kind \in Kinds
    /\ target = Absent
    /\ backup = Absent
    /\ registry = Unset
    /\ at = "idle"
    /\ coming = NoSha
    /\ by = NoSync
    /\ head = 1
    /\ row = NoRow
    /\ sync = [s \in Syncs |-> Idle]
    /\ check = NoCheck
    /\ inUse = FALSE
    /\ satisfied = FALSE
    /\ troubles = 0

LoopFree == at = "idle"
Trouble == troubles < MaxTroubles /\ troubles' = troubles + 1

-----------------------------------------------------------------------------
(* Discovery and loading.                                                  *)

\* discover_*_packages: sorted, so the backup comes before the target, and
\* the first directory with a manifest takes the key.
Visible(d) == d.form \in {"whole", "shell"}

\* A theme without its stylesheet does not take the key.
VisibleTheme(d) == d.form = "whole"

Discovered ==
    LET seen(d) == IF kind = "design" THEN VisibleTheme(d) ELSE Visible(d) IN
    IF seen(backup) THEN backup ELSE IF seen(target) THEN target ELSE Absent

\* load_plugin_module: without its entry point a plugin is logged and left out.
Loaded == IF Discovered.form = "whole" THEN Discovered.version ELSE Nothing

\* list_*_registrations fills the cache.
ListModules ==
    /\ LoopFree
    /\ registry = Unset
    /\ registry' = Loaded
    /\ UNCHANGED <<kind, target, backup, at, coming, by, sourceVars, inUse,
                   satisfied, troubles>>

\* What rmtree can leave when it stops early.
Remnants(d) ==
    {d} \cup IF Exists(d) THEN {Dir(d.version, "shell"), Dir(d.version, "rest")}
             ELSE {}

-----------------------------------------------------------------------------
(* install_*_archive, for an upload or a synchronisation.                  *)

\* What an archive of each kind may be refused for.
MemberDefects == {"count", "path", "symlink", "type", "size", "manifest"}
CameraDefects == {"schema", "key", "label", "entrypoint", "port", "requirements"}
CloudDefects == CameraDefects \cup {"auth", "fields", "verification"}
NetworkDefects == CameraDefects \cup {"fields"}
ThemeDefects == {"schema", "key", "label", "stylesheet"}

\* Plugins are loaded as a test; a theme has no code to load.
Refused ==
    MemberDefects \cup
    (CASE kind = "camera"  -> CameraDefects \cup {"load"}
       [] kind = "cloud"   -> CloudDefects \cup {"load"}
       [] kind = "network" -> NetworkDefects \cup {"load"}
       [] kind = "design"  -> ThemeDefects)

\* A refused archive never leaves the staging directory.
Sound(v) == v \in Defective => Defect \notin Refused
Missing(v) == v \in NeedsPackage /\ ~satisfied /\ kind # "design"
Installable(v) == Sound(v) /\ ~Missing(v)

Enter(v, s) ==
    /\ at' = "clear"
    /\ coming' = v
    /\ by' = s

\* The upload is read, then installed.
Upload(k) ==
    /\ kind = k
    /\ LoopFree
    /\ target.version # Uploaded
    /\ Enter(Uploaded, NoSync)
    /\ UNCHANGED <<kind, target, backup, registry, sourceVars, inUse,
                   satisfied, troubles>>

ImportCameraModule == Upload("camera")
ImportCloudModule == Upload("cloud")
ImportNetworkModule == Upload("network")
ImportDesignTheme == Upload("design")
Import ==
    \/ ImportCameraModule
    \/ ImportCloudModule
    \/ ImportNetworkModule
    \/ ImportDesignTheme

StepTo(next) ==
    /\ at' = next
    /\ UNCHANGED <<kind, registry, coming, by, sourceVars, inUse, satisfied,
                   troubles>>

\* An old backup is removed first.
ClearBackup ==
    /\ at = "clear"
    /\ backup' = Absent
    /\ UNCHANGED target
    /\ StepTo("aside")

\* target.replace(backup)
SetAsideRemoves ==                           \* mutant: removed, not set aside
    /\ at = "aside"
    /\ target' = Absent
    /\ UNCHANGED backup
    /\ StepTo("move")
SetAside ==
    /\ at = "aside"
    /\ backup' = IF Exists(target) THEN target ELSE backup
    /\ target' = Absent
    /\ StepTo("move")

\* staging.replace(target)
MoveIn ==
    /\ at = "move"
    /\ target' = Dir(coming, "whole")
    /\ UNCHANGED backup
    /\ StepTo("cleanup")

\* The new version is in place; the old one goes.
RemoveBackup ==
    /\ at = "cleanup"
    /\ backup' = Absent
    /\ UNCHANGED target
    /\ StepTo("done")

\* update_plugin_source_sync_result and ..._check_result are UPDATEs, which
\* a deleted row outlives; COALESCE keeps what a failure leaves out.
RecordedHead(sha) ==                         \* mutant: the branch, not the fetch
    IF Registered THEN [row EXCEPT !.sha = head, !.update = FALSE] ELSE row
Recorded(sha) ==
    IF Registered THEN [row EXCEPT !.sha = sha, !.update = FALSE] ELSE row

Flagged(available) == IF Registered THEN [row EXCEPT !.update = available] ELSE row

SyncOver(s) == [sync EXCEPT ![s] = Idle]
LeaveInstall ==
    /\ at' = "idle"
    /\ coming' = NoSha
    /\ by' = NoSync

\* reload_*_modules and, for a synchronisation, the row.
FinishInstall ==
    /\ at = "done"
    /\ registry' = Unset
    /\ LeaveInstall
    /\ IF by = NoSync THEN UNCHANGED <<row, sync>>
       ELSE row' = Recorded(coming) /\ sync' = SyncOver(by)
    /\ UNCHANGED <<kind, target, backup, head, check, inUse, satisfied,
                   troubles>>

\* An OSError at any step: the old version is put back if the move failed,
\* the registry is not reloaded and the row keeps its commit.
InstallRaises ==
    /\ at \in {"clear", "aside", "move", "cleanup"}
    /\ Trouble
    /\ CASE at = "clear"   -> backup' \in Remnants(backup) /\ UNCHANGED target
         [] at = "aside"   -> UNCHANGED <<backup, target>>
         [] at = "move"    -> /\ target' = IF Exists(backup) THEN backup ELSE target
                              /\ backup' = Absent
         [] at = "cleanup" -> backup' \in Remnants(backup) /\ UNCHANGED target
    /\ LeaveInstall
    /\ sync' = IF by = NoSync THEN sync ELSE SyncOver(by)
    /\ UNCHANGED <<kind, registry, head, row, check, inUse, satisfied>>

\* The four installers take the same steps.
ArchiveStep(k) ==
    /\ kind = k
    /\ \/ ClearBackup
       \/ SetAside
       \/ MoveIn
       \/ RemoveBackup
InstallCameraArchive == ArchiveStep("camera")
InstallCloudArchive == ArchiveStep("cloud")
InstallNetworkArchive == ArchiveStep("network")
InstallThemeArchive == ArchiveStep("design")
InstallStep ==
    \/ InstallCameraArchive
    \/ InstallCloudArchive
    \/ InstallNetworkArchive
    \/ InstallThemeArchive
    \/ FinishInstall

-----------------------------------------------------------------------------
(* Use and removal.                                                        *)

\* A camera or account is created on a registered module; a theme activated.
StartUse ==
    /\ LoopFree
    /\ ~inUse
    /\ registry \in Versions
    /\ inUse' = TRUE
    /\ UNCHANGED <<kind, installVars, sourceVars, satisfied, troubles>>

StopUse ==
    /\ LoopFree
    /\ inUse
    /\ inUse' = FALSE
    /\ UNCHANGED <<kind, installVars, sourceVars, satisfied, troubles>>

UseUnchecked == FALSE                             \* mutant: no count
\* The use is counted and the directory removed in one turn.
UseBlocks == inUse
Delete(k) ==
    /\ kind = k
    /\ LoopFree
    /\ ~UseBlocks
    /\ Exists(target)
    /\ target' = Absent
    /\ registry' = Unset
    /\ UNCHANGED <<kind, backup, at, coming, by, sourceVars, inUse, satisfied,
                   troubles>>

DeleteCameraModule == Delete("camera")
DeleteCloudModule == Delete("cloud")
DeleteNetworkModule == Delete("network")
DeleteDesignTheme == Delete("design")
DeletePackage ==
    \/ DeleteCameraModule
    \/ DeleteCloudModule
    \/ DeleteNetworkModule
    \/ DeleteDesignTheme

\* rmtree raises half-way; the registry is not reloaded.
DeleteRaises ==
    /\ LoopFree
    /\ ~UseBlocks
    /\ Exists(target)
    /\ Trouble
    /\ target' \in Remnants(target)
    /\ UNCHANGED <<kind, backup, registry, at, coming, by, sourceVars, inUse,
                   satisfied>>

-----------------------------------------------------------------------------
(* Sources.                                                                *)

\* The branch moves on.
Push ==
    /\ head < MaxSha
    /\ head' = head + 1
    /\ UNCHANGED <<kind, installVars, row, sync, check, inUse, satisfied,
                   troubles>>

SourceStep == UNCHANGED <<kind, installVars, inUse, satisfied>>

\* The form, or the install button of a standard source, which takes the
\* registered row if there is one.
CreateSource ==
    /\ LoopFree
    /\ row.is = "none"
    /\ row' = [NoRow EXCEPT !.is = "there"]
    /\ UNCHANGED <<head, sync, check, troubles>>
    /\ SourceStep

InstallStandardSource(s) ==
    /\ LoopFree
    /\ row.is = "none"
    /\ sync[s].at = "idle"
    /\ row' = [NoRow EXCEPT !.is = "there"]
    /\ sync' = [sync EXCEPT ![s] = [at |-> "resolve", sha |-> NoSha]]
    /\ UNCHANGED <<head, check, troubles>>
    /\ SourceStep

DeleteSource ==
    /\ LoopFree
    /\ Registered
    /\ row' = [NoRow EXCEPT !.is = "gone"]
    /\ UNCHANGED <<head, sync, check, troubles>>
    /\ SourceStep

\* _sync_plugin_source reads the row and sends the fetch to a thread.
BeginSync(s) ==
    /\ LoopFree
    /\ Registered
    /\ sync[s].at = "idle"
    /\ sync' = [sync EXCEPT ![s] = [at |-> "resolve", sha |-> NoSha]]
    /\ UNCHANGED <<head, row, check, troubles>>
    /\ SourceStep

\* resolve_and_fetch_plugin: the commit first, then the archive of that commit.
ResolveSha(s) ==
    /\ sync[s].at = "resolve"
    /\ sync' = [sync EXCEPT ![s] = [at |-> "fetch", sha |-> head]]
    /\ UNCHANGED <<head, row, check, troubles>>
    /\ SourceStep

FetchArchive(s) ==
    /\ sync[s].at = "fetch"
    /\ sync' = [sync EXCEPT ![s].at = "fetched"]
    /\ UNCHANGED <<head, row, check, troubles>>
    /\ SourceStep

\* pip or GitHub fails, or the time is up: only the message is recorded.
FetchFails(s) ==
    /\ sync[s].at \in {"pip", "resolve", "fetch"}
    /\ Trouble
    /\ sync' = SyncOver(s)
    /\ UNCHANGED <<head, row, check>>
    /\ SourceStep

\* Back on the event loop the archive is installed in the same turn.
InstallFetched(s) ==
    /\ LoopFree
    /\ sync[s].at = "fetched"
    /\ Installable(sync[s].sha)
    /\ Enter(sync[s].sha, s)
    /\ UNCHANGED <<kind, target, backup, registry, sourceVars, inUse,
                   satisfied, troubles>>

\* A defect, or a distribution that is missing: an error is recorded.
RefuseFetched(s) ==
    /\ LoopFree
    /\ sync[s].at = "fetched"
    /\ ~Installable(sync[s].sha)
    /\ sync' = SyncOver(s)
    /\ UNCHANGED <<head, row, check, troubles>>
    /\ SourceStep

\* install_plugin_requirements_route: pip runs, then the synchronisation again.
\* Its page is where a plugin that misses one sends the administrator.
BeginPip(s) ==
    /\ LoopFree
    /\ kind # "design"
    /\ ~satisfied
    /\ sync[s].at = "idle"
    /\ sync' = [sync EXCEPT ![s].at = "pip"]
    /\ UNCHANGED <<head, row, check, troubles>>
    /\ SourceStep

PipEnds(s) ==
    /\ LoopFree
    /\ sync[s].at = "pip"
    /\ satisfied' = TRUE
    /\ sync' = [sync EXCEPT ![s].at = IF Registered THEN "resolve" ELSE "idle"]
    /\ UNCHANGED <<kind, installVars, head, row, check, inUse, troubles>>

\* _check_plugin_source_for_update: the row was read before the request.
BeginCheck ==
    /\ LoopFree
    /\ Registered
    /\ check.at = "idle"
    /\ check' = [at |-> "ask", installed |-> row.sha, sha |-> NoSha]
    /\ UNCHANGED <<head, row, sync, troubles>>
    /\ SourceStep

Answer ==
    /\ check.at = "ask"
    /\ check' = [check EXCEPT !.at = "answered", !.sha = head]
    /\ UNCHANGED <<head, row, sync, troubles>>
    /\ SourceStep

CheckFails ==
    /\ check.at = "ask"
    /\ Trouble
    /\ check' = NoCheck
    /\ UNCHANGED <<head, row, sync>>
    /\ SourceStep

UpdateAvailableSame ==                   \* mutant: compared the wrong way round
    check.installed # NoSha /\ check.installed = check.sha
UpdateAvailable == check.installed # NoSha /\ check.installed # check.sha
RecordCheck ==
    /\ LoopFree
    /\ check.at = "answered"
    /\ row' = Flagged(UpdateAvailable)
    /\ check' = NoCheck
    /\ UNCHANGED <<head, sync, troubles>>
    /\ SourceStep

-----------------------------------------------------------------------------
\* The process ends at any point, also inside rmtree; what is in memory goes.
CrashRestart ==
    /\ Trouble
    /\ backup' \in IF at \in {"clear", "cleanup"} THEN Remnants(backup) ELSE {backup}
    /\ registry' = Unset
    /\ LeaveInstall
    /\ sync' = [s \in Syncs |-> Idle]
    /\ check' = NoCheck
    /\ UNCHANGED <<kind, target, head, row, inUse, satisfied>>

Next ==
    \/ ListModules
    \/ Import
    \/ InstallStep
    \/ InstallRaises
    \/ StartUse
    \/ StopUse
    \/ DeletePackage
    \/ DeleteRaises
    \/ Push
    \/ CreateSource
    \/ DeleteSource
    \/ \E s \in Syncs : \/ InstallStandardSource(s) \/ BeginSync(s) \/ ResolveSha(s) \/ FetchArchive(s)
                        \/ FetchFails(s) \/ InstallFetched(s)
                        \/ RefuseFetched(s) \/ BeginPip(s) \/ PipEnds(s)
    \/ BeginCheck
    \/ Answer
    \/ CheckFails
    \/ RecordCheck
    \/ CrashRestart

Spec == Init /\ [][Next]_vars

\* The check loop never ends, an install that began runs on, and the event
\* loop gets to every task that is ready, however busy it is.
Fairness ==
    /\ WF_vars(InstallStep)
    /\ WF_vars(Answer)
    /\ SF_vars(RecordCheck)
    /\ SF_vars(BeginCheck)

FairSpec == Spec /\ Fairness

-----------------------------------------------------------------------------
(* Properties.                                                             *)

TypeOK ==
    /\ kind \in Kinds
    /\ {target, backup} \subseteq [version : Versions \cup {NoSha}, form : Forms]
    /\ registry \in Versions \cup {Unset, Nothing}
    /\ at \in {"idle", "clear", "aside", "move", "cleanup", "done"}
    /\ coming \in Versions \cup {NoSha}
    /\ by \in Syncs \cup {NoSync}
    /\ head \in Shas
    /\ row \in [is : {"none", "there", "gone"}, sha : Shas \cup {NoSha}, update : BOOLEAN]
    /\ sync \in [Syncs -> [at : {"idle", "pip", "resolve", "fetch", "fetched"},
                           sha : Shas \cup {NoSha}]]
    /\ check \in [at : {"idle", "ask", "answered"}, installed : Shas \cup {NoSha},
                  sha : Shas \cup {NoSha}]
    /\ inUse \in BOOLEAN /\ satisfied \in BOOLEAN
    /\ troubles \in 0 .. MaxTroubles

Undisturbed == troubles = 0

\* However two synchronisations, an upload and pushes interleave, the source
\* names the commit that is installed, unless an upload took its place (an
\* upload writes no source, which goes on naming the commit before it); no
\* refused archive is installed, a package in use is, and the registry serves
\* the installed version.  Errors and restarts are PackageSurvives' business.
SourceNamesInstalled ==
    Undisturbed /\ LoopFree =>
        /\ target.form = "whole" /\ target.version \in Shas /\ row.sha # NoSha =>
              target.version = row.sha
        /\ target.version \in Shas => Sound(target.version)
        /\ inUse => target.form = "whole"
        /\ registry \in Versions => target = Dir(registry, "whole")

\* One error or restart, wherever it strikes an install, never costs a package
\* that is in use: the registry loads the old version or the new one.  The one
\* exception is named: the removal of the old version stopped after its code
\* and before its manifest; that directory sorts first and takes the key, and
\* the new version lies whole beside it until the next install clears the way.
\* (A deletion that stopped half-way is no install.)
Hidden == kind # "design" /\ backup.form = "shell"
PackageSurvives ==
    troubles <= 1 /\ LoopFree /\ inUse /\ target.form \in {"whole", "absent"} =>
        IF Hidden THEN target.form = "whole" ELSE Discovered.form = "whole"

\* docs/camera-modules.md: the module is loaded as a test and then installed
\* atomically.  After an update of an installed package was cut short, the
\* old version or the new one is what the registry loads.
InstallIsAtomic ==
    LoopFree /\ inUse /\ target.form = "whole" => Loaded # Nothing

\* A commit that is newer than the installed one is flagged or installed in
\* the end, although checks read the row before they ask and synchronisations
\* write it meanwhile.
Behind == row.sha # NoSha /\ row.sha # head
Noticed == row.update \/ row.sha = head \/ ~Registered
NewCommitNoticed == Behind ~> Noticed

\* What an install has in hand is a commit, or the upload.
InHand ==
    /\ \A s \in Syncs : sync[s].at \in {"fetch", "fetched"} => sync[s].sha \in Shas
    /\ at # "idle" => IF by = NoSync THEN coming = Uploaded ELSE coming \in Shas
    /\ at \in {"cleanup", "done"} => target = Dir(coming, "whole")

\* Until the first error the old version is where the step has put it, and the
\* row names it.
Held == inUse \/ registry \in Versions
Ordered == Undisturbed =>
    /\ {target, backup} \subseteq {Dir(v, "whole") : v \in Versions} \cup {Absent}
    /\ at \in {"idle", "clear", "aside"} =>
         /\ backup = Absent
         /\ Held => target # Absent
         /\ registry \in Versions => target = Dir(registry, "whole")
         /\ target.version \in Shas /\ row.sha # NoSha => target.version = row.sha
    /\ at = "move" => target = Absent /\ (Held => backup # Absent)
    /\ at = "done" => backup = Absent
    /\ at # "idle" /\ coming \in Shas => Sound(coming)
    /\ target.version \in Shas => Sound(target.version)
    /\ ~Registered => row.sha = NoSha

\* After it, what is used or loaded is still whole in one of the directories.
InPlace == \E d \in {target, backup} : d.form = "whole"
Kept == troubles <= 1 /\ LoopFree /\ Held /\ target.form \in {"whole", "absent"} => InPlace

IInv == TypeOK /\ InHand /\ Ordered /\ Kept
=============================================================================
