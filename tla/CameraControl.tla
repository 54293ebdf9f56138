---------------------------- MODULE CameraControl ----------------------------
(***************************************************************************)
(* Commands to one camera and what TBC shows of the camera's own settings: *)
(* the control tab (main.py, _execute_control), the MQTT command topics    *)
(* (mqtt.py, _dispatch_control_command), the ONVIF calls both end up in    *)
(* (onvif_control.py, onvif_privacy_mask.py), run in threads nobody can    *)
(* cancel, and the probes that fill CONTROL_STATE_CACHE and the retained   *)
(* MQTT topics.  SetImagingSettings and SetVideoAnalyticsConfiguration     *)
(* write a whole configuration: a command reads it, changes its own part   *)
(* and writes it back.                                                     *)
(***************************************************************************)
EXTENDS Naturals

CONSTANTS
    Parts,       \* what a command changes: parts of one configuration
    Commands,    \* commands that may be under way together
    MaxCommands, \* bound: commands ever given
    MaxTroubles  \* bound: calls that fail

VARIABLES
    device,      \* the camera's configuration
    moving,      \* the camera pans, tilts or zooms
    command,     \* each command under way, with the configuration it holds
    given,
    probe,       \* _publish_control_state of the camera: at most one
    cooling,     \* CONTROL_STATE_PROBE_RETRY_AFTER lies ahead
    cache,       \* CONTROL_STATE_CACHE
    broker,      \* the retained state topics
    unstopped,   \* history: the call that would have stopped a movement
                 \* failed, or was not made, and none has stopped it since
    troubles

controlVars == <<device, moving, command, given, probe, cooling, cache, broker,
                 unstopped, troubles>>

Configurations == SUBSET Parts   \* the parts that are switched on
Unknown == {"unknown"}
Nothing == [at |-> "none", of |-> "web", part |-> "none", held |-> Unknown]
NoProbe == [at |-> "none", held |-> Unknown]

Init ==
    /\ device = {}
    /\ moving = FALSE
    /\ command = [c \in Commands |-> Nothing]
    /\ given = 0
    /\ probe = NoProbe
    /\ cooling = FALSE
    /\ cache = Unknown
    /\ broker = Unknown
    /\ unstopped = FALSE
    /\ troubles = 0

Trouble == troubles < MaxTroubles /\ troubles' = troubles + 1
Goes(c, to) == command' = [command EXCEPT ![c].at = to]

-----------------------------------------------------------------------------
(* The probe.                                                              *)

\* _kick_off_control_probe: not while one is under way or the last failed
\* less than thirty seconds ago.
Kicked == IF probe = NoProbe /\ ~cooling THEN [NoProbe EXCEPT !.at = "ask"] ELSE probe

\* After every poll, and when a page finds no state.
KickOff ==
    /\ Kicked # probe
    /\ probe' = Kicked
    /\ UNCHANGED <<device, moving, command, given, cooling, cache, broker,
                   unstopped, troubles>>

\* get_ptz_control_state, imaging_capability, motion_zone_capability, ...
CameraAnswers ==
    /\ probe.at = "ask"
    /\ probe' = [at |-> "answered", held |-> device]
    /\ UNCHANGED <<device, moving, command, given, cooling, cache, broker,
                   unstopped, troubles>>

ProbeStuck ==                                \* mutant: in flight for ever
    /\ probe.at = "ask"
    /\ Trouble
    /\ probe' = [NoProbe EXCEPT !.at = "stuck"]
    /\ cooling' = TRUE
    /\ UNCHANGED <<device, moving, command, given, cache, broker, unstopped>>

\* A timeout or an error: the finally clause, and thirty seconds of rest.
ProbeFails ==
    /\ probe.at = "ask"
    /\ Trouble
    /\ probe' = NoProbe
    /\ cooling' = TRUE
    /\ UNCHANGED <<device, moving, command, given, cache, broker, unstopped>>

CoolingEnds ==
    /\ cooling
    /\ cooling' = FALSE
    /\ UNCHANGED <<device, moving, command, given, probe, cache, broker,
                   unstopped, troubles>>

StateCached ==
    /\ probe.at = "answered"
    /\ cache' = probe.held
    /\ cooling' = FALSE
    /\ probe' = [probe EXCEPT !.at = "publish"]
    /\ UNCHANGED <<device, moving, command, given, broker, unstopped, troubles>>

\* publish_control_state, in a thread; only then is the next probe let in.
StatePublished ==
    /\ probe.at = "publish"
    /\ broker' = probe.held
    /\ probe' = NoProbe
    /\ UNCHANGED <<device, moving, command, given, cooling, cache, unstopped,
                   troubles>>

-----------------------------------------------------------------------------
(* A command.                                                              *)

\* _execute_control, and the command topics of Home Assistant.
Give(c, of, part) ==
    /\ command[c] = Nothing
    /\ given < MaxCommands
    /\ given' = given + 1
    /\ command' = [command EXCEPT ![c] = [at |-> IF part = "move" THEN "start" ELSE "fetch",
                                          of |-> of, part |-> part, held |-> Unknown]]
    /\ UNCHANGED <<device, moving, probe, cooling, cache, broker, unstopped,
                   troubles>>

\* wait_for gives up; the thread it waits for goes on, and no probe follows.
TimesOut(c) ==
    /\ command[c].of = "web"
    /\ command[c].at \notin {"none", "answer"}
    /\ command' = [command EXCEPT ![c].of = "nobody"]
    /\ UNCHANGED <<device, moving, given, probe, cooling, cache, broker,
                   unstopped, troubles>>

\* set_image_adjustments, set_daynight_mode, set_hdr_state, set_motion_zone
Fetch(c) ==
    /\ command[c].at = "fetch"
    /\ command' = [command EXCEPT ![c].held = device, ![c].at = "apply"]
    /\ UNCHANGED <<device, moving, given, probe, cooling, cache, broker,
                   unstopped, troubles>>

\* SetImagingSettings, SetVideoAnalyticsConfiguration
Apply(c) ==
    /\ command[c].at = "apply"
    /\ device' \in {command[c].held \cup {command[c].part},
                    command[c].held \ {command[c].part}}
    /\ Goes(c, "answer")
    /\ UNCHANGED <<moving, given, probe, cooling, cache, broker, unstopped, troubles>>

\* ptz_move: ContinuousMove, a pulse, Stop.
StartMove(c) ==
    /\ command[c].at = "start"
    /\ moving' = TRUE
    /\ Goes(c, "pulse")
    /\ UNCHANGED <<device, given, probe, cooling, cache, broker, unstopped, troubles>>

StopForgotten(c) ==                          \* mutant: no Stop after the pulse
    /\ command[c].at = "pulse"
    /\ Goes(c, "answer")
    /\ UNCHANGED <<device, moving, given, probe, cooling, cache, broker, unstopped,
                   troubles>>
StopMove(c) ==
    /\ command[c].at = "pulse"
    /\ moving' = FALSE
    /\ unstopped' = FALSE
    /\ Goes(c, "answer")
    /\ UNCHANGED <<device, given, probe, cooling, cache, broker, troubles>>

StopFails(c) ==
    /\ command[c].at = "pulse"
    /\ Trouble
    /\ unstopped' = TRUE
    /\ Goes(c, "answer")
    /\ UNCHANGED <<device, moving, given, probe, cooling, cache, broker>>

\* A call does not arrive, or its answer is lost: the exception ends the
\* command, with no probe and nothing read again.  Of a ContinuousMove that did
\* arrive no Stop follows.
Raises(c) ==
    /\ Trouble
    /\ command' = [command EXCEPT ![c] = Nothing]
    /\ UNCHANGED <<given, probe, cooling, cache, broker>>

CallFails(c) ==
    /\ \/ command[c].at \in {"fetch", "apply", "start"}
       \/ command[c].at = "answer" /\ command[c].of = "mqtt"
    /\ Raises(c)
    /\ UNCHANGED <<device, moving, unstopped>>

ApplyUnanswered(c) ==
    /\ command[c].at = "apply"
    /\ Raises(c)
    /\ device' \in {command[c].held \cup {command[c].part},
                    command[c].held \ {command[c].part}}
    /\ UNCHANGED <<moving, unstopped>>

MoveUnanswered(c) ==
    /\ command[c].at = "start"
    /\ Raises(c)
    /\ moving' = TRUE
    /\ unstopped' = TRUE
    /\ UNCHANGED device

\* The answer to a request comes with a probe; a request that timed out is
\* only a thread that ends.
Answer(c) ==
    /\ command[c].at = "answer"
    /\ command[c].of # "mqtt"
    /\ command' = [command EXCEPT ![c] = Nothing]
    /\ probe' = IF command[c].of = "web" THEN Kicked ELSE probe
    /\ UNCHANGED <<device, moving, given, cooling, cache, broker, unstopped, troubles>>

\* A command topic reads the state again for itself, and publishes it without
\* a word to the cache; its publication may come after a newer one.
Reread(c) ==
    /\ command[c].at = "answer"
    /\ command[c].of = "mqtt"
    /\ command' = [command EXCEPT ![c].held = device, ![c].at = "publish"]
    /\ UNCHANGED <<device, moving, given, probe, cooling, cache, broker, unstopped,
                   troubles>>

Republish(c) ==
    /\ command[c].at = "publish"
    /\ broker' = command[c].held
    /\ command' = [command EXCEPT ![c] = Nothing]
    /\ UNCHANGED <<device, moving, given, probe, cooling, cache, unstopped, troubles>>

CommandRuns(c) ==
    \/ Fetch(c)
    \/ Apply(c)
    \/ StartMove(c)
    \/ StopMove(c)
    \/ Answer(c)
    \/ Reread(c)
    \/ Republish(c)

ProbeRuns == CameraAnswers \/ StateCached \/ StatePublished

Next ==
    \/ KickOff
    \/ CameraAnswers
    \/ ProbeFails
    \/ CoolingEnds
    \/ StateCached
    \/ StatePublished
    \/ \E c \in Commands :
           \/ \E of \in {"web", "mqtt"}, part \in Parts \cup {"move"} : Give(c, of, part)
           \/ TimesOut(c)
           \/ Fetch(c)
           \/ Apply(c)
           \/ StartMove(c)
           \/ StopMove(c)
           \/ StopFails(c)
           \/ CallFails(c)
           \/ ApplyUnanswered(c)
           \/ MoveUnanswered(c)
           \/ Answer(c)
           \/ Reread(c)
           \/ Republish(c)

\* The poll loop kicks probes off for ever; threads end.
Fairness ==
    /\ WF_controlVars(KickOff)
    /\ WF_controlVars(ProbeRuns)
    /\ WF_controlVars(CoolingEnds)
    /\ \A c \in Commands : WF_controlVars(CommandRuns(c))

Spec == Init /\ [][Next]_controlVars
FairSpec == Spec /\ Fairness

-----------------------------------------------------------------------------
(* Properties.                                                             *)

TypeOK ==
    /\ device \in Configurations
    /\ {moving, cooling, unstopped} \subseteq BOOLEAN
    /\ command \in [Commands ->
           [at : {"none", "fetch", "apply", "start", "pulse", "answer", "publish"},
            of : {"web", "mqtt", "nobody"}, part : Parts \cup {"move", "none"},
            held : Configurations \cup {Unknown}]]
    /\ given \in 0 .. MaxCommands
    /\ probe \in [at : {"none", "ask", "answered", "publish"},
                  held : Configurations \cup {Unknown}]
    /\ {cache, broker} \subseteq Configurations \cup {Unknown}
    /\ troubles \in 0 .. MaxTroubles

\* Whatever commands overlap, time out while their thread goes on, or find a
\* probe under way that read before them: the control page and the retained
\* topics end up with what the camera is set to.
Settled == cache = device /\ broker = device
StateSettles == <>[]Settled

\* Pulses that overlap, and those of requests that timed out, all end: the
\* camera does not go on moving, unless a Stop did not reach it, or the answer
\* to its ContinuousMove was lost, for no Stop is sent then; and unless a later
\* pulse has stopped it after all.
AtRest == ~moving \/ unstopped
ComesToRest == <>[]AtRest
=============================================================================
