----------------------------- MODULE MCDecisions -----------------------------
(***************************************************************************)
(* The program's decisions about pictures and clips, which share no state: *)
(* the retention rules, the geometry of zones, the trackers of lines,      *)
(* areas and objects, and recognition with its rules.  Init chooses one of *)
(* them, `which`, and the shared variables v1, v2, ... stand for its own;  *)
(* those it does not need are Off.  RetentionRules keeps its variables.    *)
(***************************************************************************)
EXTENDS RetentionRules, FiniteSets

CONSTANTS
    Off,
    Workers, Ids, Looks, Automations, Cooldowns,            \* recognition
    MaxClock, MaxEvents, MaxEdits,
    Side, Line, Area, Period, Grace, MinDwell,              \* zones
    MaxCycles, MaxLost,
    Objects, MaxX, Width, MinHits, MaxMissed                \* objects

ThreeLimits == {-1, 2, 3}

VARIABLES which, v1, v2, v3, v4, v5, v6, v7, v8, v9, v10, v11, v12

shared == <<v1, v2, v3, v4, v5, v6, v7, v8, v9, v10, v11, v12>>
decisionVars == <<which, shared, vars>>

\* A line in the middle of the bottom edge, and a polygon with an oblique side.
DoorLine == <<<<1, 0>>, <<1, 1>>>>
Lawn == <<<<1, 0>>, <<3, 0>>, <<3, 3>>, <<1, 3>>>>

Z == INSTANCE Zones
T == INSTANCE ZoneTracking WITH
    at <- v1, now <- v2, last <- v3, count <- v4, dwell <- v5, cycles <- v6,
    seen <- v7, base <- v8, doubtful <- v9, lost <- v10
O == INSTANCE ObjectTracking WITH
    place <- v1, track <- v2, nextId <- v3, confirmed <- v4, offered <- v5,
    matched <- v6, sightings <- v7, cycle <- v8
R == INSTANCE Recognition WITH
    Rules <- Automations,
    kind <- v1, settings <- v2, known <- v3, rule <- v4, channel <- v5, event <- v6,
    worker <- v7, clock <- v8, calls <- v9, edits <- v10, claims <- v11, sent <- v12

\* The one face that may be known from the start has the first look.
ASSUME RecognitionAssumption ==
    /\ Cooldowns \subseteq Nat /\ Cooldowns # {} /\ MaxClock \in Nat /\ MaxEvents \in Nat /\ MaxEdits \in Nat
    /\ 1 \in Looks
ASSUME TrackingAssumption ==
    /\ Side \in Nat /\ Line \in Z!Points \X Z!Points
    /\ Period \in Nat \ {0} /\ Grace \in Nat /\ MinDwell \in Nat /\ MaxLost \in Nat
ASSUME ObjectsAssumption ==
    /\ IsFiniteSet(Objects) /\ MaxX \in Nat /\ Width \in Nat \ {0}
    /\ MinHits \in Nat /\ MaxMissed \in Nat /\ MaxCycles \in Nat

NoArchive ==
    /\ size = Off /\ cameraOf = Off /\ locked = Off /\ rules = Off
    /\ present = Off /\ passes = Off

DecisionInit ==
    \/ /\ which = "rules" /\ Init
       /\ v1 = Off /\ v2 = Off /\ v3 = Off /\ v4 = Off /\ v5 = Off /\ v6 = Off
       /\ v7 = Off /\ v8 = Off /\ v9 = Off /\ v10 = Off /\ v11 = Off /\ v12 = Off
    \/ /\ which = "zones" /\ NoArchive
       /\ v1 \in Z!Points /\ v2 \in Z!Points /\ v3 \in Z!Points /\ v4 \in Z!Points
       /\ v5 = Off /\ v6 = Off
       /\ v7 = Off /\ v8 = Off /\ v9 = Off /\ v10 = Off /\ v11 = Off /\ v12 = Off
    \/ /\ which = "tracking" /\ NoArchive /\ T!Init
       /\ v11 = Off /\ v12 = Off
    \/ /\ which = "objects" /\ NoArchive /\ O!Init
       /\ v9 = Off /\ v10 = Off /\ v11 = Off /\ v12 = Off
    \/ /\ which = "recognition" /\ NoArchive /\ R!Init

CleanUp == which = "rules" /\ Next /\ UNCHANGED <<which, shared>>
TrackZones == which = "tracking" /\ T!Next /\ UNCHANGED <<which, vars, v11, v12>>
TrackObjects == which = "objects" /\ O!Next /\ UNCHANGED <<which, vars, v9, v10, v11, v12>>
Recognise == which = "recognition" /\ R!Next /\ UNCHANGED <<which, vars>>

DecisionNext == CleanUp \/ TrackZones \/ TrackObjects \/ Recognise

DecisionSpec == DecisionInit /\ [][DecisionNext]_decisionVars

-----------------------------------------------------------------------------
(* Properties: each says what its machine promises.                        *)

DecisionTypeOK ==
    /\ which = "rules" => TypeOK
    /\ which = "tracking" => T!TypeOK
    /\ which = "objects" => O!TypeOK
    /\ which = "recognition" => R!TypeOK

\* One cleanup is enough: afterwards every rule's age and size hold for the
\* recordings it may delete, although the rules overlap and each is evaluated
\* as if the others deleted nothing; a cleanup that follows at once finds
\* nothing; and nothing goes without need: some rule that applies to it is
\* broken (maintenance.py, cleanup_preview).
CleanupSuffices ==
    which = "rules" =>
        RulesHoldAfterwards /\ SecondPassFindsNothing /\ DeletedForAReason

\* A motion crosses a line exactly if the two have a point in common; a point
\* is inside a polygon whichever corner and sense it was drawn with; one more
\* zone has the effect its mode says (line_crossing.py, zones.py).
GeometryExact ==
    which = "zones" => /\ Z!CrossesExactly(v1, v2, v3, v4)
                       /\ Z!InsideExactly(v1, v2, v3, v4)
                       /\ Z!FilterMonotone(v1, v2, v3, v4)

\* Frames that are lost and objects that are out of sight for less than the
\* grace period cost neither a crossing of the line nor the time spent in the
\* area: "in" less "out" is where the object is, and loitering is reported
\* exactly while it has lasted long enough (line_crossing.py, loitering.py).
GraceBridges == which = "tracking" => T!NetCount /\ T!LoiterExact

\* The greedy matching of tracks to detections is stable, and what is surfaced
\* was seen often enough without too long a gap (tracking.py, update).
TracksHold == which = "objects" => O!Stable /\ O!SurfacedPersists

\* However many threads evaluate a rule at once, a claim comes at least the
\* rule's cooldown after the claim before it, unless the rule was saved after
\* the claiming thread had listed it: then at least the cooldown it had listed.
\* And a message, of the built-in notification or of a rule, is only sent of an
\* event the history page shows (database.py, try_fire_automation_rule;
\* automation.py; detection/recognition.py).
RulesFireRightly == which = "recognition" => R!CooldownKept /\ R!ToldIsRecorded
=============================================================================
