----------------------------- MODULE MCServices ------------------------------
(***************************************************************************)
(* The services beside the recorder, which share no state with it or with  *)
(* each other: plugin packages, network accounts, users and sessions,      *)
(* cloud accounts, backups, the HomeKit bridge, the WebRTC gateway, health *)
(* checks, preview images, the references of the database's tables, and    *)
(* its start and secrets. Init chooses one of them, `which`, and the       *)
(* variables v1, v2, ... stand for its own; those it does not need are     *)
(* Off.                                                                    *)
(***************************************************************************)
EXTENDS Naturals, Sequences, TLC

CONSTANTS
    Off,
    Kinds, MaxSha, Defective, Defect, NeedsPackage, Syncs,     \* packages
    Ids, Browsers, Names, Threshold, MaxWrong,                 \* accounts
    Uplinks, MaxMoves,                                         \* network
    Attempts, EditForms, MaxPassword, MaxAttempts, MaxCameras, \* cloud
    Retain, MaxVersion, MaxStamps,                             \* backups
    KitCameras, MaxExposed, MaxAid,                            \* homekit
    Saves, Offers, MaxUri,                                     \* webrtc
    Limit, MaxChanges, MaxEvents,                              \* health checks
    Migrations, InSchema, Keys, MaxText, MaxStops,             \* startup
    ImageCallers, MaxEdits,                                    \* images
    MaxRows,                                                   \* schema
    MaxTroubles

ASSUME TroublesAssumption == MaxTroubles \in Nat
ASSUME PackagesAssumption == MaxSha \in Nat \ {0} /\ 0 \notin Syncs
ASSUME AccountsAssumption == 1 \in Ids /\ 0 \notin Ids /\ MaxWrong \in Nat
ASSUME NetworkAssumption == Uplinks \cap {"unknown", "offline"} = {} /\ MaxMoves \in Nat
ASSUME HealthAssumption == Limit \in Nat
ASSUME ImagesAssumption == MaxEdits \in Nat
ASSUME CloudAssumption ==
    MaxPassword \in Nat /\ MaxCameras \in Nat /\ \A f, g \in EditForms : f = g
ASSUME StartupAssumption ==
    /\ Migrations \in Seq({Migrations[i] : i \in DOMAIN Migrations})
    /\ InSchema \subseteq {Migrations[i] : i \in DOMAIN Migrations}
    /\ MaxText \in Nat \ {0}
ASSUME BackupsAssumption ==
    MaxVersion \in Nat \ {0} /\ MaxStamps \in Nat /\ Retain \in Nat /\ Retain >= 2
ASSUME SchemaAssumption == MaxRows \in Nat
ASSUME GatewayAssumption == MaxUri \in Nat \ {0}

TwoMigrations == <<"role", "locked">>

\* The synchronisations of a source are alike, and so are browsers and names.
\* The first two are never in one state, so the runs give them the same values.
ActorsAlike == Permutations(Syncs) \cup Permutations(Browsers) \cup Permutations(Names)

VARIABLES which, v1, v2, v3, v4, v5, v6, v7, v8, v9, v10, v11, v12, v13, v14

serviceVars == <<which, v1, v2, v3, v4, v5, v6, v7, v8, v9, v10, v11, v12, v13, v14>>

P == INSTANCE PluginPackages WITH
    kind <- v1, target <- v2, backup <- v3, registry <- v4, at <- v5,
    coming <- v6, by <- v7, head <- v8, row <- v9, sync <- v10, check <- v11,
    inUse <- v12, satisfied <- v13, troubles <- v14
N == INSTANCE NetworkAccounts WITH
    Pages <- {"page", "page2"},
    account <- v1, mapped <- v2, world <- v3, probe <- v4, inFlight <- v5,
    cooling <- v6, cache <- v7, status <- v8, log <- v9, moves <- v10,
    troubles <- v11
A == INSTANCE Accounts WITH
    user <- v1, session <- v2, fails <- v3, locked <- v4, wrong <- v5
C == INSTANCE CloudAccounts WITH
    Forms <- EditForms,
    account <- v1, attempt <- v2, form <- v3, chosen <- v4, passwords <- v5,
    begun <- v6, cameras <- v7
B == INSTANCE Backups WITH
    db <- v1, wal <- v2, latest <- v3, bak <- v4, restore <- v5, before <- v6,
    files <- v7, stamp <- v8, writer <- v9, run <- v10, external <- v11,
    due <- v12, troubles <- v13, spoiled <- v14
K == INSTANCE HomeKitBridge WITH
    Cameras <- KitCameras,
    present <- v1, aid <- v2, enabled <- v3, paired <- v4, bridge <- v5,
    alive <- v6, boot <- v7, page <- v8, overtaken <- v9, highest <- v10,
    reused <- v11, troubles <- v12, streamed <- v13
G == INSTANCE WebRtcGateway WITH
    enabled <- v1, process <- v2, alive <- v3, booting <- v4, save <- v5,
    offer <- v6, uri <- v7, stream <- v8, crossed <- v9, starts <- v10,
    troubles <- v11
H1 == INSTANCE HealthChecks WITH
    Order <- <<"camera", "stream">>, Buttons <- {1},
    camera <- v1, disk <- v2, broker <- v3, status <- v4, events <- v5,
    round <- v6, lastId <- v7, firstRun <- v8, told <- v9, mixed <- v10,
    changes <- v11, troubles <- v12
H2 == INSTANCE HealthChecks WITH
    Order <- <<"storage", "mqtt">>, Buttons <- {1}, MaxEvents <- MaxEvents + 1,
    camera <- v1, disk <- v2, broker <- v3, status <- v4, events <- v5,
    round <- v6, lastId <- v7, firstRun <- v8, told <- v9, mixed <- v10,
    changes <- v11, troubles <- v12
S == INSTANCE Schema WITH slice <- v1, rows <- v2, ever <- v3
D == INSTANCE Startup WITH
    phase <- v1, exists <- v2, columns <- v3, at <- v4, settings <- v5, targets <- v6,
    key <- v7, field <- v8, stored <- v9, form <- v10, typed <- v11, under <- v12,
    mixed <- v13, stops <- v14
I == INSTANCE Snapshots WITH
    Callers <- ImageCallers,
    there <- v1, version <- v2, uri <- v3, editor <- v4, caller <- v5,
    image <- v6, old <- v7, crossed <- v8, troubles <- v9

Init ==
    \/ /\ which = "packages" /\ P!Init
    \/ /\ which = "network" /\ N!Init
       /\ v12 = Off /\ v13 = Off /\ v14 = Off
    \/ /\ which = "accounts" /\ A!Init
       /\ v6 = Off /\ v7 = Off /\ v8 = Off /\ v9 = Off /\ v10 = Off
       /\ v11 = Off /\ v12 = Off /\ v13 = Off /\ v14 = Off
    \/ /\ which = "cloud" /\ C!Init
       /\ v8 = Off /\ v9 = Off /\ v10 = Off /\ v11 = Off /\ v12 = Off
       /\ v13 = Off /\ v14 = Off
    \/ /\ which = "backups" /\ B!Init
    \/ /\ which = "homekit" /\ K!Init
       /\ v14 = Off
    \/ /\ which = "webrtc" /\ G!Init
       /\ v12 = Off /\ v13 = Off /\ v14 = Off
    \/ /\ which = "cameras" /\ H1!Init
       /\ v13 = Off /\ v14 = Off
    \/ /\ which = "storage" /\ H2!Init
       /\ v13 = Off /\ v14 = Off
    \/ /\ which = "schema" /\ S!Init
       /\ v4 = Off /\ v5 = Off /\ v6 = Off /\ v7 = Off /\ v8 = Off /\ v9 = Off
       /\ v10 = Off /\ v11 = Off /\ v12 = Off /\ v13 = Off /\ v14 = Off
    \/ /\ which = "startup" /\ D!Init
    \/ /\ which = "images" /\ I!Init
       /\ v10 = Off /\ v11 = Off /\ v12 = Off /\ v13 = Off /\ v14 = Off

Install == which = "packages" /\ P!Next /\ UNCHANGED which
Locate == which = "network" /\ N!Next /\ UNCHANGED <<which, v12, v13, v14>>
SignIn ==
    /\ which = "accounts"
    /\ A!Next
    /\ UNCHANGED <<which, v6, v7, v8, v9, v10, v11, v12, v13, v14>>
LogIn ==
    /\ which = "cloud"
    /\ C!Next
    /\ UNCHANGED <<which, v8, v9, v10, v11, v12, v13, v14>>
BackUp == which = "backups" /\ B!Next /\ UNCHANGED which
Bridge == which = "homekit" /\ K!Next /\ UNCHANGED <<which, v14>>
Stream == which = "webrtc" /\ G!Next /\ UNCHANGED <<which, v12, v13, v14>>
CheckCameras == which = "cameras" /\ H1!Next /\ UNCHANGED <<which, v13, v14>>
CheckStorage == which = "storage" /\ H2!Next /\ UNCHANGED <<which, v13, v14>>
WriteRows ==
    /\ which = "schema"
    /\ S!Next
    /\ UNCHANGED <<which, v4, v5, v6, v7, v8, v9, v10, v11, v12, v13, v14>>
StartUp == which = "startup" /\ D!Next /\ UNCHANGED which
TakeImages ==
    /\ which = "images"
    /\ I!Next
    /\ UNCHANGED <<which, v10, v11, v12, v13, v14>>

Next ==
    \/ Install
    \/ Locate
    \/ SignIn
    \/ LogIn
    \/ BackUp
    \/ Bridge
    \/ Stream
    \/ CheckCameras
    \/ CheckStorage
    \/ WriteRows
    \/ StartUp
    \/ TakeImages

Spec == Init /\ [][Next]_serviceVars

-----------------------------------------------------------------------------
(* Properties: each says what its machine promises.                        *)

TypeOK ==
    /\ which = "packages" => P!TypeOK
    /\ which = "network" => N!TypeOK
    /\ which = "accounts" => A!TypeOK
    /\ which = "cloud" => C!TypeOK
    /\ which = "backups" => B!TypeOK
    /\ which = "homekit" => K!TypeOK
    /\ which = "webrtc" => G!TypeOK
    /\ which = "cameras" => H1!TypeOK
    /\ which = "storage" => H2!TypeOK
    /\ which = "schema" => S!TypeOK
    /\ which = "startup" => D!TypeOK
    /\ which = "images" => I!TypeOK

\* However two synchronisations, an upload and pushes interleave, the source
\* names the commit that is installed, unless an upload took its place; no
\* refused archive is installed, a package in use is, and the registry serves
\* the installed version; and after one error or restart, wherever it strikes
\* an update, the registry loads the old version or the new one, unless half of
\* the old one's directory hides the new one
\* (plugin_sources.py, routers/plugins.py, camera_modules/packages.py).
PackagesHold == which = "packages" => P!SourceNamesInstalled /\ P!PackageSurvives

\* Nobody deletes the last account: two administrators that delete each other,
\* one from a session whose own row is gone or was demoted, cannot empty the
\* table, which only a start without users fills again (routers/users.py).
SomeoneRemains == which = "accounts" => A!SomeoneRemains

\* The counter that locks an account holds every wrong guess at it, from
\* whichever browser and at whichever of the two steps, since its name last
\* signed in completely, it was renamed, or the counter was dropped, by pruning
\* while it was not locked or by a restart (routers/auth.py, main.py).
GuessesCount == which = "accounts" => A!GuessesCount

\* What an administrator sets is not undone by the end of a login attempt that
\* was waiting for the cloud meanwhile, nor does an attempt bring a deleted
\* account back (routers/cloud_accounts.py); a secret stays readable with the
\* key it was stored with, through starts with other keys, unless a form or an
\* attempt writes it back under one that does not fit (database.py); and the
\* image an edit deletes does not come back, unless a caller was at work then
\* (routers/cameras.py).
EditSurvives ==
    /\ which = "cloud" => C!EditSurvives
    /\ which = "startup" => D!SecretReadable /\ D!NothingPlain
    /\ which = "images" => I!OldImageExplained

\* However a restore fails or is cut short, what the database held when it
\* began is the database or the .bak file; and pruning never takes the last
\* complete archive, whatever else lies beside it (backup.py); and the program
\* only runs on a complete database, whatever version it was and wherever
\* earlier starts were cut short (database.py, initialize).
BackupsHold ==
    /\ [](which = "backups" => B!RestoreUndone)
    /\ [](which = "startup" => D!StartsComplete)
    /\ [][which = "backups" => B!ArchiveKept]_serviceVars

\* A process that runs beside the program is the one the settings ask for: the
\* HomeKit bridge shows what the page saved last, but for cameras that had no
\* stream when it was started, and go2rtc and the stored switch agree, unless a
\* save overlapped another or the boot, or its write failed after go2rtc was
\* started or stopped; and ffmpeg takes an image only while one is due, however
\* many asked for it meanwhile (routers/homekit.py, routers/live.py,
\* snapshots.py).
ProcessesMatch ==
    /\ which = "homekit" => K!ShowsSelection
    /\ which = "webrtc" => G!SettingMatches
    /\ which = "images" => I!TakenWhenDue

\* What others rely on is not lost on the way: a camera that stays selected
\* keeps the id the Home app knows it by; the place of a device that is known
\* is not erased by a probe that does not list it, and every change of it is
\* logged; and a deletion takes what belongs to the row and nothing else, while
\* what names a row never comes to name another (database.py,
\* set_homekit_camera_ids, upsert_network_device_status and SCHEMA).
KeepsIdentity ==
    /\ [](which = "schema" => S!NamesWhatItNamed)
    /\ [][/\ which = "homekit" => K!AidKept
          /\ which = "network" => N!PlaceKept
          /\ which = "schema" => S!DeletionExact]_serviceVars

\* An event is told at most once, and events are told in the order they
\* happened, whoever ran the round that found them; and the history of a
\* component is a chain that ends in its present status, as long as no two
\* rounds overlapped (main.py, _health_loop; database.py,
\* upsert_health_status).
HealthIsTold ==
    /\ which = "cameras" => H1!ToldOnceInOrder /\ H1!HistoryIsAChain
    /\ which = "storage" => H2!ToldOnceInOrder /\ H2!HistoryIsAChain
=============================================================================
