---------------------------- MODULE WebRtcGateway ----------------------------
(***************************************************************************)
(* The optional go2rtc process for WebRTC live view: Go2rtcManager         *)
(* (go2rtc.py), the live settings and the WHEP offers (routers/live.py)    *)
(* and the start at boot (main.py).  The manager is called in threads, so  *)
(* two saves of the settings and the offers of several browsers interleave *)
(* at every await.                                                         *)
(***************************************************************************)
EXTENDS Naturals, FiniteSets

CONSTANTS
    Saves,      \* requests that save the live settings
    Offers,     \* browsers that ask for a stream
    MaxUri,     \* bound: stream addresses the camera has in turn
    MaxTroubles \* bound: restarts, deaths of go2rtc, failed starts and writes

VARIABLES
    enabled,    \* live_webrtc_enabled
    process,    \* the go2rtc process: its number, 0 for none
    alive,      \* it runs
    booting,    \* the thread of _start_go2rtc has still to start it
    save,       \* the handlers of update_live_wall_settings
    offer,      \* the handlers of live_webrtc_offer
    uri,        \* the camera's stream_uri
    stream,     \* the source go2rtc has for the key, 0 for none
    crossed,    \* history: the last save overlapped another or the boot, its
                \* write of the setting failed, or the start at boot failed
    starts,     \* bound: processes started
    troubles    \* bound: troubles so far

gatewayVars == <<enabled, process, alive, booting, save, offer, uri, stream,
                 crossed, starts, troubles>>

MaxStarts == 4
NoProcess == 0
NoSource == 0
Idle == [pc |-> "idle", on |-> FALSE]
NoOffer == [pc |-> "idle", uri |-> NoSource, answer |-> NoSource]

Init ==
    /\ enabled = FALSE
    /\ process = NoProcess
    /\ alive = FALSE
    /\ booting = FALSE
    /\ save = [s \in Saves |-> Idle]
    /\ offer = [o \in Offers |-> NoOffer]
    /\ uri = 1
    /\ stream = NoSource
    /\ crossed = FALSE
    /\ starts = 0
    /\ troubles = 0

Trouble == troubles < MaxTroubles /\ troubles' = troubles + 1

-----------------------------------------------------------------------------
(* Go2rtcManager.                                                          *)

\* start: a process that runs stays; a new one knows no streams.
Start ==
    IF alive
    THEN UNCHANGED <<process, alive, stream, starts>>
    ELSE /\ starts < MaxStarts
         /\ starts' = starts + 1
         /\ process' = starts + 1
         /\ alive' = TRUE
         /\ stream' = NoSource

Stop ==
    /\ process' = NoProcess
    /\ alive' = FALSE
    /\ stream' = NoSource
    /\ UNCHANGED starts

\* go2rtc ends by itself; status() says "failed" from now on.
Dies ==
    /\ alive
    /\ Trouble
    /\ alive' = FALSE
    /\ stream' = NoSource
    /\ UNCHANGED <<enabled, process, booting, save, offer, uri, crossed, starts>>

-----------------------------------------------------------------------------
(* Boot.                                                                   *)

\* _lifespan
Restart ==
    /\ Trouble
    /\ process' = NoProcess
    /\ alive' = FALSE
    /\ stream' = NoSource
    /\ booting' = enabled
    /\ save' = [s \in Saves |-> Idle]
    /\ offer' = [o \in Offers |-> NoOffer]
    /\ crossed' = FALSE
    /\ UNCHANGED <<enabled, uri, starts>>

\* _start_go2rtc; a failure is only logged.
BootStart ==
    /\ booting
    /\ booting' = FALSE
    /\ \/ Start /\ UNCHANGED <<troubles, crossed>>
       \/ Trouble /\ crossed' = TRUE /\ UNCHANGED <<process, alive, stream, starts>>
    /\ UNCHANGED <<enabled, save, offer, uri>>

-----------------------------------------------------------------------------
(* update_live_wall_settings: the process first, the setting afterwards.   *)

Saving == {s \in Saves : save[s].pc # "idle"}

SaveBegins(s, on) ==
    /\ save[s].pc = "idle"
    /\ save' = [save EXCEPT ![s] = [pc |-> "process", on |-> on]]
    /\ crossed' = (Saving # {} \/ booting)
    /\ UNCHANGED <<enabled, process, alive, booting, offer, uri, stream, starts, troubles>>

SwitchOn(s) ==
    /\ save[s] = [pc |-> "process", on |-> TRUE]
    /\ Start
    /\ save' = [save EXCEPT ![s].pc = "store"]
    /\ UNCHANGED <<enabled, booting, offer, uri, crossed, troubles>>

SwitchOnIgnored(s) == \* mutant
    /\ save[s] = [pc |-> "process", on |-> TRUE]
    /\ Trouble
    /\ save' = [save EXCEPT ![s].pc = "store"]
    /\ UNCHANGED <<enabled, process, alive, booting, offer, uri, stream, crossed, starts>>

\* A start that fails turns the box off again.
SwitchOnFails(s) ==
    /\ save[s] = [pc |-> "process", on |-> TRUE]
    /\ ~alive
    /\ Trouble
    /\ save' = [save EXCEPT ![s] = [pc |-> "store", on |-> FALSE]]
    /\ UNCHANGED <<enabled, process, alive, booting, offer, uri, stream, crossed, starts>>

SwitchOff(s) ==
    /\ save[s] = [pc |-> "process", on |-> FALSE]
    /\ Stop
    /\ save' = [save EXCEPT ![s].pc = "store"]
    /\ UNCHANGED <<enabled, booting, offer, uri, crossed, troubles>>

\* set_live_wall_settings
Store(s) ==
    /\ save[s].pc = "store"
    /\ enabled' = save[s].on
    /\ save' = [save EXCEPT ![s] = Idle]
    /\ UNCHANGED <<process, alive, booting, offer, uri, stream, crossed, starts, troubles>>

\* It raises, when go2rtc was started or stopped already.
StoreFails(s) ==
    /\ save[s].pc = "store"
    /\ Trouble
    /\ save' = [save EXCEPT ![s] = Idle]
    /\ crossed' = TRUE
    /\ UNCHANGED <<enabled, process, alive, booting, offer, uri, stream, starts>>

-----------------------------------------------------------------------------
(* live_webrtc_offer                                                       *)

\* The camera's address changes while browsers watch.
NewUri ==
    /\ uri < MaxUri
    /\ uri' = uri + 1
    /\ UNCHANGED <<enabled, process, alive, booting, save, offer, stream, crossed, starts, troubles>>

\* status() is asked and the address read before the body is awaited.
OfferBegins(o) ==
    /\ offer[o].pc \in {"idle", "answered", "refused"}
    /\ alive
    /\ offer' = [offer EXCEPT ![o] = [pc |-> "register", uri |-> uri, answer |-> NoSource]]
    /\ UNCHANGED <<enabled, process, alive, booting, save, uri, stream, crossed, starts, troubles>>

\* register_stream: PUT replaces the source of the key.
Register(o) ==
    /\ offer[o].pc = "register"
    /\ IF alive
       THEN stream' = offer[o].uri /\ offer' = [offer EXCEPT ![o].pc = "exchange"]
       ELSE UNCHANGED stream /\ offer' = [offer EXCEPT ![o].pc = "refused"]
    /\ UNCHANGED <<enabled, process, alive, booting, save, uri, crossed, starts, troubles>>

\* exchange_sdp: go2rtc answers for the source it has, or not at all.
Exchange(o) ==
    /\ offer[o].pc = "exchange"
    /\ offer' = [offer EXCEPT ![o] =
                    IF alive /\ stream # NoSource
                    THEN [@ EXCEPT !.pc = "answered", !.answer = stream]
                    ELSE [@ EXCEPT !.pc = "refused"]]
    /\ UNCHANGED <<enabled, process, alive, booting, save, uri, stream, crossed, starts, troubles>>

Next ==
    \/ Dies \/ Restart \/ BootStart \/ NewUri
    \/ \E s \in Saves : \E on \in BOOLEAN : SaveBegins(s, on)
    \/ \E s \in Saves : SwitchOn(s) \/ SwitchOnFails(s) \/ SwitchOff(s) \/ Store(s) \/ StoreFails(s)
    \/ \E o \in Offers : OfferBegins(o) \/ Register(o) \/ Exchange(o)

Spec == Init /\ [][Next]_gatewayVars

-----------------------------------------------------------------------------
TypeOK ==
    /\ enabled \in BOOLEAN /\ alive \in BOOLEAN /\ booting \in BOOLEAN
    /\ crossed \in BOOLEAN
    /\ uri \in 1..MaxUri
    /\ starts \in 0..MaxStarts
    /\ process \in 0..MaxStarts
    /\ save \in [Saves -> [pc : {"idle", "process", "store"}, on : BOOLEAN]]
    /\ offer \in [Offers -> [pc : {"idle", "register", "exchange", "answered", "refused"},
                             uri : 0..MaxUri, answer : 0..MaxUri]]
    /\ stream \in 0..MaxUri

\* The stored setting and go2rtc agree: when the last save of the page ran
\* alone and wrote the setting, go2rtc runs only if WebRTC is on, and WebRTC is
\* on only if the manager has a process, be it one that died since; also after
\* a start that failed and after a restart (routers/live.py,
\* update_live_wall_settings).
SettingMatches ==
    Saving = {} /\ ~booting /\ ~crossed =>
        (alive => enabled) /\ (enabled => process # NoProcess)

\* Why it holds: a save that runs alone finds the boot over, and between its
\* two steps go2rtc already is what it will store.
Ordered ==
    /\ alive => process # NoProcess
    /\ ~crossed =>
        /\ \A s, t \in Saving : s = t
        /\ booting => Saving = {} /\ enabled /\ ~alive
        /\ \A s \in Saves : save[s].pc = "store" =>
               IF save[s].on THEN process # NoProcess ELSE ~alive

IInv == TypeOK /\ SettingMatches /\ Ordered
=============================================================================
