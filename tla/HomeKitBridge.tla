---------------------------- MODULE HomeKitBridge ----------------------------
(***************************************************************************)
(* The HomeKit bridge: HomeKitManager (homekit.py), the settings page      *)
(* (routers/homekit.py), the start at boot (main.py) and the stored        *)
(* accessory ids (database.py).  The handlers of the page run without an   *)
(* await; only the thread that starts the bridge at boot runs beside them. *)
(***************************************************************************)
EXTENDS Naturals, FiniteSets, FiniteSetsExt

CONSTANTS
    Cameras,    \* camera ids
    MaxExposed, \* MAX_HOMEKIT_CAMERAS
    MaxAid,     \* bound: accessory ids given out
    MaxTroubles \* bound: restarts, deaths of the bridge, deleted cameras and
                \* writes or starts that fail

VARIABLES
    present,    \* cameras that exist
    streamed,   \* cameras with the LIVE capability and a stream address
    aid,        \* homekit_cameras: camera -> accessory id
    enabled,    \* homekit_enabled
    paired,     \* accessory.state names a paired client
    bridge,     \* what HomeKitManager._process serves
    alive,      \* that process runs
    boot,       \* the thread of _start_homekit
    page,       \* the handler that runs, and its form
    overtaken,  \* history: a handler ran before the boot thread was done
    highest,    \* history: the highest id ever given
    reused,     \* history: an id was given that had been used before
    troubles    \* bound: troubles so far

homekitVars == <<present, streamed, aid, enabled, paired, bridge, alive, boot, page,
                 overtaken, highest, reused, troubles>>

Unexposed == 0
NoStream == 1   \* id 1 is the bridge's own, no camera's
Nothing == [c \in Cameras |-> Unexposed]
Idle == [pc |-> "idle", on |-> FALSE, chosen |-> {}]
Quiet == [pc |-> "done", config |-> Nothing]

Exposed == {c \in Cameras : aid[c] # Unexposed}

\* A fresh installation
Init ==
    /\ present = Cameras
    /\ streamed \in SUBSET Cameras
    /\ aid = Nothing
    /\ enabled = FALSE
    /\ paired = FALSE
    /\ bridge = Nothing
    /\ alive = FALSE
    /\ boot = Quiet
    /\ page = Idle
    /\ overtaken = FALSE
    /\ highest = 1
    /\ reused = FALSE
    /\ troubles = 0

-----------------------------------------------------------------------------
(* HomeKitManager.                                                         *)

\* start: a bridge that runs is left as it is, and without a usable camera it
\* is not called
Start(config) ==
    IF alive \/ \A c \in Cameras : config[c] \in {Unexposed, NoStream}
    THEN UNCHANGED <<bridge, alive>>
    ELSE bridge' = config /\ alive' = TRUE

\* stop: terminate and wait
Stop ==
    /\ alive' = FALSE
    /\ bridge' = Nothing

\* The bridge ends by itself; nothing starts it again.
Dies ==
    /\ alive
    /\ troubles < MaxTroubles
    /\ troubles' = troubles + 1
    /\ alive' = FALSE
    /\ UNCHANGED <<present, streamed, aid, enabled, paired, bridge, boot, page, overtaken, highest, reused>>

\* The Home app pairs with the bridge.
Pair ==
    /\ alive
    /\ paired' = TRUE
    /\ UNCHANGED <<present, streamed, aid, enabled, bridge, alive, boot, page, overtaken, highest, reused, troubles>>

-----------------------------------------------------------------------------
(* The start at boot.                                                      *)

\* _lifespan: the setting decides whether there is a boot thread.
Restart ==
    /\ troubles < MaxTroubles
    /\ troubles' = troubles + 1
    /\ alive' = FALSE
    /\ bridge' = Nothing
    /\ page' = Idle
    /\ overtaken' = FALSE
    /\ boot' = [Quiet EXCEPT !.pc = IF enabled THEN "read" ELSE "done"]
    /\ UNCHANGED <<present, streamed, aid, enabled, paired, highest, reused>>

\* _homekit_camera_configs: the selected cameras, without those that cannot be
\* streamed; the selection never has more than MAX_HOMEKIT_CAMERAS.
Config == [c \in Cameras |-> IF c \in Exposed \ streamed THEN NoStream ELSE aid[c]]

\* A probe or an edit of the camera finds a stream address, or none any more.
StreamChanges(c) ==
    /\ c \in present
    /\ streamed' = IF c \in streamed THEN streamed \ {c} ELSE streamed \cup {c}
    /\ UNCHANGED <<present, aid, enabled, paired, bridge, alive, boot, page, overtaken,
                   highest, reused, troubles>>

BootRead ==
    /\ boot.pc = "read"
    /\ boot' = [pc |-> "start", config |-> Config]
    /\ UNCHANGED <<present, streamed, aid, enabled, paired, bridge, alive, page, overtaken, highest, reused, troubles>>

BootStart ==
    /\ boot.pc = "start"
    /\ boot' = Quiet
    /\ Start(boot.config)
    /\ UNCHANGED <<present, streamed, aid, enabled, paired, page, overtaken, highest, reused, troubles>>

-----------------------------------------------------------------------------
(* The settings page.                                                      *)

Begin(form) ==
    /\ page.pc = "idle"
    /\ page' = form
    /\ overtaken' = (overtaken \/ boot.pc # "done")

StopOnlyToSwitchOff(on, chosen) == \* mutant
    /\ Cardinality(chosen) <= MaxExposed
    /\ Begin([pc |-> "store", on |-> on, chosen |-> chosen])
    /\ IF on THEN UNCHANGED <<bridge, alive>> ELSE Stop
    /\ UNCHANGED <<present, streamed, aid, enabled, paired, boot, highest, reused, troubles>>

\* update_homekit_settings up to the stop: the form is cut to the first
\* MAX_HOMEKIT_CAMERAS, and may name cameras deleted since it was shown.
SaveBegins(on, chosen) ==
    /\ Cardinality(chosen) <= MaxExposed
    /\ Begin([pc |-> "store", on |-> on, chosen |-> chosen])
    /\ Stop
    /\ UNCHANGED <<present, streamed, aid, enabled, paired, boot, highest, reused, troubles>>

\* next_aid: one above the highest id of the cameras selected so far
NextAid == Max({aid[c] : c \in Exposed} \cup {1}) + 1

RenumberedAids(chosen) == \* mutant
    {f \in [Cameras -> {Unexposed} \cup 2..MaxAid] :
        /\ \A c \in Cameras : f[c] = Unexposed <=> c \notin chosen
        /\ {f[c] : c \in chosen} = 2..(Cardinality(chosen) + 1)}

\* set_homekit_camera_ids: who was selected keeps the id, the others are
\* numbered on in the order of the form
NewAids(chosen) ==
    LET new == chosen \ Exposed IN
    {f \in [Cameras -> {Unexposed} \cup 2..MaxAid] :
        /\ \A c \in Cameras \ new : f[c] = IF c \in chosen THEN aid[c] ELSE Unexposed
        /\ {f[c] : c \in new} = NextAid..(NextAid + Cardinality(new) - 1)}

\* set_homekit_enabled
StoreEnabled ==
    /\ page.pc = "store"
    /\ page' = [page EXCEPT !.pc = "select"]
    /\ enabled' = page.on
    /\ UNCHANGED <<present, streamed, aid, paired, bridge, alive, boot, overtaken,
                   highest, reused, troubles>>

\* set_homekit_camera_ids, a transaction of its own: a camera that is gone
\* fails it (the foreign key), and the switch is stored without the selection.
StoreCameras ==
    /\ page.pc = "select"
    /\ IF page.chosen \subseteq present
       THEN /\ page' = [page EXCEPT !.pc = "start"]
            /\ aid' \in NewAids(page.chosen)
            /\ highest' = Max({aid'[c] : c \in Cameras} \cup {highest})
            /\ reused' = (reused \/ \E c \in Cameras \ Exposed : aid'[c] \in 2..highest)
       ELSE page' = Idle /\ UNCHANGED <<aid, highest, reused>>
    /\ UNCHANGED <<present, streamed, enabled, paired, bridge, alive, boot, overtaken, troubles>>

\* Either write can fail otherwise; the bridge is stopped by then.
StoreFails ==
    /\ page.pc \in {"store", "select"}
    /\ troubles < MaxTroubles
    /\ troubles' = troubles + 1
    /\ page' = Idle
    /\ UNCHANGED <<present, streamed, aid, enabled, paired, bridge, alive, boot, overtaken,
                   highest, reused>>

\* _start_if_enabled; a bridge that cannot be started is reported
StartIfEnabled ==
    /\ page.pc = "start"
    /\ page' = Idle
    /\ IF enabled THEN Start(Config) ELSE UNCHANGED <<bridge, alive>>
    /\ UNCHANGED <<present, streamed, aid, enabled, paired, boot, overtaken, highest, reused, troubles>>

StartFails ==
    /\ page.pc = "start"
    /\ enabled
    /\ troubles < MaxTroubles
    /\ troubles' = troubles + 1
    /\ page' = Idle
    /\ UNCHANGED <<present, streamed, aid, enabled, paired, bridge, alive, boot, overtaken, highest, reused>>

\* reset_homekit_pairing up to the stop, then reset_pairing
ResetBegins ==
    /\ Begin([Idle EXCEPT !.pc = "forget"])
    /\ Stop
    /\ UNCHANGED <<present, streamed, aid, enabled, paired, boot, highest, reused, troubles>>

ResetPairing ==
    /\ page.pc = "forget"
    /\ page' = [page EXCEPT !.pc = "start"]
    /\ paired' = FALSE
    /\ UNCHANGED <<present, streamed, aid, enabled, bridge, alive, boot, overtaken, highest, reused, troubles>>

\* delete_camera: the selection goes with it (ON DELETE CASCADE), the bridge
\* goes on as it is
DeleteCamera(c) ==
    /\ page.pc = "idle"
    /\ c \in present
    /\ troubles < MaxTroubles
    /\ troubles' = troubles + 1
    /\ present' = present \ {c}
    /\ streamed' = streamed \ {c}
    /\ aid' = [aid EXCEPT ![c] = Unexposed]
    /\ UNCHANGED <<enabled, paired, bridge, alive, boot, page, overtaken, highest, reused>>

Next ==
    \/ Dies \/ Pair
    \/ Restart \/ BootRead \/ BootStart
    \/ \E on \in BOOLEAN, chosen \in SUBSET Cameras : SaveBegins(on, chosen)
    \/ StoreEnabled \/ StoreCameras \/ StoreFails \/ StartIfEnabled \/ StartFails
    \/ ResetBegins \/ ResetPairing
    \/ \E c \in Cameras : StreamChanges(c) \/ DeleteCamera(c)

Spec == Init /\ [][Next]_homekitVars

-----------------------------------------------------------------------------
AccessoryIds == {Unexposed} \cup 2..MaxAid
Configs == [Cameras -> AccessoryIds \cup {NoStream}]
TypeOK ==
    /\ present \subseteq Cameras /\ streamed \subseteq present
    /\ aid \in [Cameras -> AccessoryIds] /\ Exposed \subseteq present
    /\ bridge \in Configs
    /\ enabled \in BOOLEAN /\ alive \in BOOLEAN /\ overtaken \in BOOLEAN
    /\ boot \in [pc : {"read", "start", "done"}, config : Configs]
    /\ page \in [pc : {"idle", "store", "select", "start", "forget"}, on : BOOLEAN,
                 chosen : SUBSET Cameras]

\* What is served is the selection and its ids, but for the cameras that could
\* not be streamed when the configuration was read.
Serves(config) == \A c \in present :
    config[c] = aid[c] \/ (config[c] = NoStream /\ c \in Exposed)

\* A bridge that runs shows what the page saved last, but for the cameras that
\* had no stream when it was started, and only while it is switched on: it
\* never goes on with an old selection after a save, one that failed half way,
\* or a reset, unless the thread of the boot comes after the page
\* (routers/homekit.py, _start_if_enabled).
ShowsSelection ==
    page.pc = "idle" /\ ~overtaken /\ alive => enabled /\ Serves(bridge)

\* The Home app keys rooms and automations on the ids: a camera that stays
\* selected keeps its id (database.py, set_homekit_camera_ids).
AidKept == \A c \in Cameras :
    aid[c] # Unexposed /\ aid'[c] # Unexposed => aid'[c] = aid[c]
KeepsAid == [][AidKept]_homekitVars

\* The docstring of set_homekit_camera_ids: a newly added camera gets an id
\* that was never used before.
NeverUsedBefore == ~reused

\* Why it holds: the page stops the bridge before it writes, and until the boot
\* thread is done nothing else starts it.
Ordered ==
    ~overtaken =>
        /\ boot.pc # "done" => page.pc = "idle" /\ ~alive /\ enabled
        /\ boot.pc = "start" => Serves(boot.config)
        /\ page.pc # "idle" => ~alive /\ boot.pc = "done"

IInv == TypeOK /\ ShowsSelection /\ Ordered
=============================================================================
