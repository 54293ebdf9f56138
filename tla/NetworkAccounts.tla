--------------------------- MODULE NetworkAccounts ---------------------------
(***************************************************************************)
(* A network controller's account and one camera mapped to a device of it  *)
(* (routers/network_accounts.py, routers/cameras.py, main.py               *)
(* _publish_network_state): the camera's last known place in the network,  *)
(* and the log of its changes.  The poll loop probes without looking at    *)
(* NETWORK_STATE_PROBES_IN_FLIGHT, so its probe, one a page kicked off,    *)
(* the test button and the device picker may overlap.  Its end drops the   *)
(* mark of a page's probe, so another may be kicked off beside that.       *)
(***************************************************************************)
EXTENDS Naturals, Sequences

CONSTANTS
    Pages,       \* bound: probes that pages kicked off, under way at once
    Uplinks,     \* switches and access points the device connects through
    MaxMoves,    \* bound: changes in the network
    MaxTroubles  \* bound: probes that fail

VARIABLES
    account,     \* the account's row exists
    mapped,      \* the camera is mapped to the account's device
    world,       \* where the device is: an uplink, or offline
    probe,       \* the probes under way: at most one of each caller
    inFlight,    \* NETWORK_STATE_PROBES_IN_FLIGHT has the account
    cooling,     \* NETWORK_STATE_PROBE_RETRY_AFTER lies ahead
    cache,       \* NETWORK_STATE_CACHE of the account
    status,      \* network_device_status of the camera
    log,         \* the newest row of network_device_events
    moves, troubles

networkVars == <<account, mapped, world, probe, inFlight, cooling, cache, status,
                 log, moves, troubles>>

Marking == {"poll"} \cup Pages      \* those of _publish_network_state
Callers == Marking \cup {"test", "picker"}
Offline == "offline"        \* the controller does not list the device
Unknown == "unknown"
None == [online |-> FALSE, uplink |-> Unknown]     \* no row
NoProbe == [at |-> "none", saw |-> Unknown]

Init ==
    /\ account = TRUE
    /\ mapped = FALSE
    /\ world \in Uplinks
    /\ probe = [c \in Callers |-> NoProbe]
    /\ inFlight = FALSE
    /\ cooling = FALSE
    /\ cache = Unknown
    /\ status = None
    /\ log = None
    /\ moves = 0
    /\ troubles = 0

Quiet == UNCHANGED <<account, mapped, world, moves>>

-----------------------------------------------------------------------------
(* Probes.                                                                 *)

Asks(c) ==
    /\ probe[c] = NoProbe
    /\ probe' = [probe EXCEPT ![c].at = "ask"]
    /\ UNCHANGED <<cache, status, log, troubles>>
    /\ Quiet

\* The poll loop goes from account to account.
PollAsks == account /\ Asks("poll") /\ UNCHANGED <<inFlight, cooling>>

\* _kick_off_network_probe: not while one is marked or the last failed less
\* than thirty seconds ago.
MayKick == ~inFlight /\ ~cooling

\* A page that finds nothing in the cache.
PageAsks ==
    /\ account /\ cache = Unknown
    /\ MayKick
    /\ \E c \in Pages : Asks(c)
    /\ inFlight' = TRUE
    /\ UNCHANGED cooling

\* Whoever wants the answer on the page does not look at the mark.
ButtonAsks(c) ==
    /\ account
    /\ Asks(c)
    /\ UNCHANGED <<inFlight, cooling>>

TestAsks == ButtonAsks("test")
PickerAsks == ButtonAsks("picker")

\* discover_devices: what the controller says when it answers.
Answered(c) ==
    /\ probe[c].at = "ask"
    /\ probe' = [probe EXCEPT ![c] = [at |-> "answered", saw |-> world]]
    /\ UNCHANGED <<inFlight, cooling, cache, status, log, troubles>>
    /\ Quiet

\* The finally clause is for every probe of the poll and of pages, also one
\* that never put the mark there.
Done(c) ==
    /\ probe' = [probe EXCEPT ![c] = NoProbe]
    /\ inFlight' = (inFlight /\ c \notin Marking)

\* A timeout, a NetworkConnectionError, or an account that is gone.
ProbeFails(c) ==
    /\ probe[c].at = "ask"
    /\ IF account
       THEN /\ troubles < MaxTroubles
            /\ troubles' = troubles + 1
            /\ cooling' = (cooling \/ c \in Marking)
       ELSE UNCHANGED <<troubles, cooling>>
    /\ Done(c)
    /\ UNCHANGED <<cache, status, log>>
    /\ Quiet

CoolingEnds ==
    /\ cooling
    /\ cooling' = FALSE
    /\ UNCHANGED <<probe, inFlight, cache, status, log, troubles>>
    /\ Quiet

\* A device that is not listed keeps the place it had.
FoundErasing(saw) ==                         \* mutant: the place is erased
    IF saw = Offline THEN None ELSE [online |-> TRUE, uplink |-> saw]
FoundListed(saw) ==                          \* mutant: absence not recorded
    IF saw = Offline THEN status ELSE [online |-> TRUE, uplink |-> saw]
Found(saw) ==
    IF saw = Offline THEN [status EXCEPT !.online = FALSE]
    ELSE [online |-> TRUE, uplink |-> saw]

\* upsert_network_device_status: an event when online or the uplink changes.
LoggedOnline(new) ==                         \* mutant: the uplink not compared
    IF status = None \/ status.online # new.online THEN new ELSE log
Logged(new) == IF status = None \/ status # new THEN new ELSE log

\* _record_network_device_status, for the mapping as it is now.  The picker
\* only fills the cache.
Records(c) ==
    /\ probe[c].at = "answered"
    /\ cache' = probe[c].saw
    /\ IF c # "picker" /\ mapped
       THEN /\ status' = Found(probe[c].saw)
            /\ log' = Logged(Found(probe[c].saw))
       ELSE UNCHANGED <<status, log>>
    /\ cooling' = (cooling /\ c \notin Marking)
    /\ Done(c)
    /\ UNCHANGED troubles
    /\ Quiet

-----------------------------------------------------------------------------
(* Administration, and the network itself.                                 *)

Idle == UNCHANGED <<probe, inFlight, cooling, status, log, troubles>>

\* set_camera_network_mapping_route, for an account that exists.
MapCamera ==
    /\ account /\ ~mapped
    /\ mapped' = TRUE
    /\ IF MayKick
       THEN /\ \E c \in Pages :
                   probe[c] = NoProbe /\ probe' = [probe EXCEPT ![c].at = "ask"]
            /\ inFlight' = TRUE
       ELSE UNCHANGED <<probe, inFlight>>
    /\ UNCHANGED <<account, world, moves, cache, cooling, status, log, troubles>>

\* clear_camera_network_mapping_route: status and log stay.
UnmapCamera ==
    /\ mapped
    /\ mapped' = FALSE
    /\ UNCHANGED <<account, world, moves, cache>>
    /\ Idle

\* delete_network_account, and the mappings with it; a probe under way may
\* still fill the cache again.
DeleteAccount ==
    /\ account
    /\ account' = FALSE
    /\ mapped' = FALSE
    /\ cache' = Unknown
    /\ UNCHANGED <<world, moves>>
    /\ Idle

Moves ==
    /\ moves < MaxMoves
    /\ moves' = moves + 1
    /\ world' \in (Uplinks \cup {Offline}) \ {world}
    /\ UNCHANGED <<account, mapped, cache>>
    /\ Idle

Next ==
    \/ PollAsks
    \/ PageAsks
    \/ TestAsks
    \/ PickerAsks
    \/ \E c \in Callers :
           \/ Answered(c)
           \/ ProbeFails(c)
           \/ Records(c)
    \/ CoolingEnds
    \/ MapCamera
    \/ UnmapCamera
    \/ DeleteAccount
    \/ Moves

\* The poll loop runs for ever, and the controller answers or times out.
Fairness ==
    /\ WF_networkVars(PollAsks)
    /\ \A c \in Callers : WF_networkVars(Answered(c)) /\ WF_networkVars(Records(c))

Spec == Init /\ [][Next]_networkVars
FairSpec == Spec /\ Fairness

-----------------------------------------------------------------------------
(* Properties.                                                             *)

Places == [online : BOOLEAN, uplink : Uplinks \cup {Unknown}]

TypeOK ==
    /\ {account, mapped, inFlight, cooling} \subseteq BOOLEAN
    /\ world \in Uplinks \cup {Offline}
    /\ probe \in [Callers -> [at : {"none", "ask", "answered"},
                              saw : Uplinks \cup {Offline, Unknown}]]
    /\ cache \in Uplinks \cup {Offline, Unknown}
    /\ {status, log} \subseteq Places
    /\ moves \in 0 .. MaxMoves
    /\ troubles \in 0 .. MaxTroubles

\* main.py: a device that is not listed "falls back to whatever location was
\* last known instead of erasing it"; and the log tells every change: its
\* newest entry is the status, however probes overlap.
PlaceKept ==
    /\ status.uplink # Unknown => status'.uplink # Unknown
    /\ status' # status => log' = status'
PlaceIsKept == [][PlaceKept]_networkVars

\* Why it holds: what a probe saw is a place, or that the device is not listed.
Ordered == \A c \in Callers : probe[c].at = "answered" => probe[c].saw # Unknown

IInv == TypeOK /\ Ordered

\* Probes that saw an older state and come in after newer ones do not have
\* the last word: a mapped camera's status ends up with what the network is.
Located ==
    /\ status.online = (world # Offline)
    /\ world # Offline => status.uplink = world
StatusFollows == <>[]mapped => <>[]Located
=============================================================================
