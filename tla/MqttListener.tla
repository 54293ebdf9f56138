---------------------------- MODULE MqttListener -----------------------------
(***************************************************************************)
(* The listener for commands over MQTT (mqtt.py, run_control_listener): a  *)
(* task that compares the stored broker settings every fifteen seconds     *)
(* with those its client was started for.  The client reconnects and       *)
(* subscribes again by itself (paho-mqtt); what a command it hears does to *)
(* the camera is CameraControl's subject.                                  *)
(***************************************************************************)
EXTENDS Naturals

CONSTANTS
    Brokers,    \* the brokers the settings may name
    MaxSaves,   \* bound: how often the settings are saved
    MaxTroubles \* bound: brokers that go away, failed reads, restarts

VARIABLES
    config,     \* the row mqtt_config
    saves,
    up,         \* the brokers that can be reached
    listener,   \* where run_control_listener is
    fingerprint,
    client,     \* the broker of the client it holds, NoBroker if none
    clients,    \* clients whose network thread runs
    refused,    \* history: the first connect for this fingerprint failed
    troubles

listenerVars == <<config, saves, up, listener, fingerprint, client, clients,
                  refused, troubles>>

NoBroker == "none"
SwitchedOff == [enabled |-> FALSE, host |-> NoBroker]
Configs == {SwitchedOff} \cup [enabled : BOOLEAN, host : Brokers]

Init ==
    /\ config = SwitchedOff
    /\ saves = 0
    /\ up = Brokers
    /\ listener = "asleep"
    /\ fingerprint = [enabled |-> FALSE, host |-> "unread"]
    /\ client = NoBroker
    /\ clients = 0
    /\ refused = FALSE
    /\ troubles = 0

Trouble == troubles < MaxTroubles /\ troubles' = troubles + 1

-----------------------------------------------------------------------------
(* The settings, and the world.                                            *)

UpdateMqttSettings ==
    /\ saves < MaxSaves
    /\ saves' = saves + 1
    /\ config' \in [enabled : BOOLEAN, host : Brokers]
    /\ UNCHANGED <<up, listener, fingerprint, client, clients, refused, troubles>>

BrokerGoes ==
    /\ Trouble
    /\ \E b \in up : up' = up \ {b}
    /\ UNCHANGED <<config, saves, listener, fingerprint, client, clients, refused>>

BrokerReturns ==
    /\ \E b \in Brokers \ up : up' = up \cup {b}
    /\ UNCHANGED <<config, saves, listener, fingerprint, client, clients, refused,
                   troubles>>

-----------------------------------------------------------------------------
(* run_control_listener.                                                   *)

FingerprintOnOff(c) == [enabled |-> c.enabled, host |-> NoBroker]  \* mutant
FingerprintOf(c) == c

\* The read, and the comparison.
Compare ==
    /\ listener = "asleep"
    /\ FingerprintOf(config) # fingerprint
    /\ fingerprint' = FingerprintOf(config)
    /\ listener' = IF client # NoBroker THEN "stop"
                   ELSE IF config.enabled THEN "start" ELSE "asleep"
    /\ refused' = FALSE
    /\ UNCHANGED <<config, saves, up, client, clients, troubles>>

StopForgotten ==                             \* mutant: its thread goes on
    /\ listener = "stop"
    /\ client' = NoBroker
    /\ listener' = IF fingerprint.enabled THEN "start" ELSE "asleep"
    /\ UNCHANGED <<config, saves, up, fingerprint, clients, refused, troubles>>

\* _stop_client, in a thread
StopClient ==
    /\ listener = "stop"
    /\ client' = NoBroker
    /\ clients' = clients - 1
    /\ listener' = IF fingerprint.enabled THEN "start" ELSE "asleep"
    /\ UNCHANGED <<config, saves, up, fingerprint, refused, troubles>>

\* _start_control_client, with the settings that were read.  A broker that
\* cannot be reached leaves no client, and the fingerprint stands.
StartControlClient ==
    /\ listener = "start"
    /\ IF fingerprint.host \in up
       THEN client' = fingerprint.host /\ clients' = clients + 1 /\ UNCHANGED refused
       ELSE refused' = TRUE /\ UNCHANGED <<client, clients>>
    /\ listener' = "asleep"
    /\ UNCHANGED <<config, saves, up, fingerprint, troubles>>

\* get_mqtt_config raises, as on a locked database: the task is over.
ReadFails ==
    /\ listener = "asleep"
    /\ Trouble
    /\ listener' = "ended"
    /\ client' = NoBroker
    /\ clients' = IF client = NoBroker THEN clients ELSE clients - 1
    /\ UNCHANGED <<config, saves, up, fingerprint, refused>>

Restart ==
    /\ Trouble
    /\ listener' = "asleep"
    /\ fingerprint' = [enabled |-> FALSE, host |-> "unread"]
    /\ client' = NoBroker
    /\ clients' = 0
    /\ UNCHANGED <<config, saves, up, refused>>

-----------------------------------------------------------------------------
ListenerRuns == Compare \/ StopClient \/ StartControlClient

Next ==
    \/ UpdateMqttSettings
    \/ BrokerGoes
    \/ BrokerReturns
    \/ ListenerRuns
    \/ ReadFails
    \/ Restart

\* The task is never starved; threads end.
Fairness == WF_listenerVars(ListenerRuns)

Spec == Init /\ [][Next]_listenerVars
FairSpec == Spec /\ Fairness

-----------------------------------------------------------------------------
(* Properties.                                                             *)

TypeOK ==
    /\ config \in Configs
    /\ saves \in 0 .. MaxSaves
    /\ up \subseteq Brokers
    /\ listener \in {"asleep", "stop", "start", "ended"}
    /\ client \in Brokers \cup {NoBroker}
    /\ refused \in BOOLEAN
    /\ troubles \in 0 .. MaxTroubles

\* The broker knows the listener by one client id, and would part two clients
\* with that id for ever: none starts before its predecessor was stopped.
OneClient == clients = IF client = NoBroker THEN 0 ELSE 1

\* Why it holds: the old client is stopped before the new one is started.
Ordered ==
    /\ listener = "stop" => client # NoBroker
    /\ listener = "start" => client = NoBroker

IInv == TypeOK /\ OneClient /\ Ordered

\* However saves, broken brokers and the task's rounds fall, the client in the
\* end is at the broker that is set, unless the first connect failed, which is
\* not tried again, or a read of the settings ended the task.
Follows ==
    \/ refused \/ listener = "ended"
    \/ client = IF config.enabled THEN config.host ELSE NoBroker
ListenerFollows == <>[]Follows
=============================================================================
