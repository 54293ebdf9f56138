---------------------------- MODULE ZoneTracking -----------------------------
(***************************************************************************)
(* What the zones of a camera make of one tracked object as it moves and   *)
(* is missed now and then: LineCrossingTracker (detection/line_crossing.py)*)
(* with its stored counts, and LoiterTracker (detection/loitering.py).     *)
(* Time is counted in seconds; a cycle is one turn of _run_worker_once.    *)
(***************************************************************************)
EXTENDS Zones

CONSTANTS
    Line,       \* the two points of a line zone
    Area,       \* the polygon of a loiter zone
    Period,     \* seconds from one frame to the next: 1 / sample_fps
    Grace,      \* CENTROID_GRACE_SECONDS and LOITER_GRACE_SECONDS
    MinDwell,   \* min_dwell_seconds
    MaxCycles,  \* bound: cycles
    MaxLost     \* bound: frames that could not be read

VARIABLES
    at,         \* where the object is
    now,        \* time.time()
    last,       \* LineCrossingTracker: last centroid, and when
    count,      \* camera_zone_crossing_counts
    dwell,      \* LoiterTracker: start and last_seen
    cycles,     \* history: the times of the cycles so far
    seen,       \* history: when the object was seen, and where
    base,       \* history: where the present count began
    doubtful,   \* history: it stood on the line or went round its end
    lost        \* bound: frames lost

trackingVars == <<at, now, last, count, dwell, cycles, seen, base, doubtful, lost>>

Nowhere == <<-1, -1>>
NoTime == -1
Unknown == [p |-> Nowhere, t |-> NoTime]
NoBase == [p |-> Nowhere, net |-> 0]
NotIn == [start |-> NoTime, t |-> NoTime]

Init ==
    /\ at \in Points
    /\ now = 0
    /\ last = Unknown
    /\ count = [in |-> 0, out |-> 0]
    /\ dwell = NotIn
    /\ cycles = {}
    /\ seen = {}
    /\ base = NoBase
    /\ doubtful = FALSE
    /\ lost = 0

Near(p, q) == {X(p) - X(q), Y(p) - Y(q)} \subseteq {-1, 0, 1}

-----------------------------------------------------------------------------
(* One cycle.                                                              *)

ForgottenAtOnce(t) == t # NoTime /\ now - t > 0 \* mutant
\* The expiry at the end of both update functions
Expired(t) == t # NoTime /\ now - t > Grace

FromWhereItWas(previous, p) == \* mutant
    /\ previous.p # Nowhere
    /\ SegmentsIntersect(previous.p, p, Line[1], Line[2])
    /\ CrossingSide(previous.p, Line[1], Line[2]) > 0

Crosses(previous, p) ==
    /\ previous.p # Nowhere
    /\ SegmentsIntersect(previous.p, p, Line[1], Line[2])
CrossesIn(previous, p) == Crosses(previous, p) /\ CrossingSide(p, Line[1], Line[2]) > 0
CrossesOut(previous, p) == Crosses(previous, p) /\ CrossingSide(p, Line[1], Line[2]) <= 0

\* LineCrossingTracker.update and, for each crossing, one more in the table:
\* increment_zone_crossing_count
Count(visible, p) ==
    IF visible
    THEN /\ count' = [in |-> count.in + (IF CrossesIn(last, p) THEN 1 ELSE 0),
                      out |-> count.out + (IF CrossesOut(last, p) THEN 1 ELSE 0)]
         /\ last' = [p |-> p, t |-> now]
    ELSE /\ last' = IF Expired(last.t) THEN Unknown ELSE last
         /\ UNCHANGED count

\* LoiterTracker.update
Dwell(visible, p) ==
    IF visible /\ PointInPolygon(p, Area)
    THEN dwell' = [start |-> IF dwell.start = NoTime THEN now ELSE dwell.start, t |-> now]
    ELSE dwell' = IF Expired(dwell.t) THEN NotIn ELSE dwell

\* history: the object had not been seen for longer than the grace period at
\* some cycle since it was last seen
LastSeen == IF seen = {} THEN NoTime ELSE Max({s.t : s \in seen})
OutOfSight == seen = {} \/ \E u \in cycles : u > LastSeen /\ u - LastSeen > Grace

Beside(p) == CrossingSide(p, Line[1], Line[2])
GoesRound(p, q) ==
    /\ Sign(Beside(p)) # Sign(Beside(q))
    /\ Apart(p, q, Line[1], Line[2])

Remember(visible, p) ==
    /\ cycles' = cycles \cup {now}
    /\ IF visible
       THEN /\ seen' = seen \cup {[t |-> now, p |-> p]}
            /\ base' = IF OutOfSight THEN [p |-> p, net |-> count'.in - count'.out] ELSE base
            /\ doubtful' = (Beside(p) = 0 \/
                   (~OutOfSight /\ (doubtful \/ GoesRound(last.p, p))))
       ELSE UNCHANGED <<seen, base, doubtful>>

\* Half a turn of the loop: the object moves, a frame is read, inferred and
\* tracked; the object may be missed.
Cycle(visible, p) ==
    /\ Cardinality(cycles) < MaxCycles
    /\ Near(at, p)
    /\ at' = p
    /\ Count(visible, p)
    /\ Dwell(visible, p)
    /\ Remember(visible, p)
    /\ now' = now + Period
    /\ UNCHANGED lost

\* read_frame returned nothing: time passes, the trackers are not called.
NoFrame ==
    /\ lost < MaxLost
    /\ lost' = lost + 1
    /\ now' = now + Period
    /\ UNCHANGED <<at, last, count, dwell, cycles, seen, base, doubtful>>

\* reset_zone_crossing_counts: the page sets the counts to zero.
ResetCounts ==
    /\ count # [in |-> 0, out |-> 0]
    /\ count' = [in |-> 0, out |-> 0]
    /\ base' = IF base = NoBase THEN base ELSE [base EXCEPT !.net = @ - (count.in - count.out)]
    /\ UNCHANGED <<at, now, last, dwell, cycles, seen, doubtful, lost>>

Next ==
    \/ \E visible \in BOOLEAN, p \in Points : Cycle(visible, p)
    \/ NoFrame
    \/ ResetCounts

Spec == Init /\ [][Next]_trackingVars

-----------------------------------------------------------------------------
\* active_loitering_keys, at the end of the cycle that was at time t
Loiters(t) == dwell.start # NoTime /\ t - dwell.start >= MinDwell

TypeOK ==
    /\ at \in Points
    /\ now \in Nat
    /\ last \in {Unknown} \cup [p : Points, t : Nat]
    /\ count \in [in : Nat, out : Nat]
    /\ dwell \in {NotIn} \cup [start : Nat, t : Nat]
    /\ cycles \subseteq Nat
    /\ seen \subseteq [t : Nat, p : Points]
    /\ base \in {NoBase} \cup [p : Points, net : Int]
    /\ doubtful \in BOOLEAN
    /\ lost \in 0..MaxLost

\* The counts of a line say where the object is: as long as it was never out
\* of sight for longer than the grace period, "in" less "out" is one if it
\* changed to the "in" side, minus one if it changed to the other, and zero
\* if it came back, whatever was missed in between.  Objects that stood on
\* the line or went round its end are left out.
SideOf(p) == IF Beside(p) > 0 THEN 1 ELSE 0
NetCount ==
    base # NoBase /\ ~doubtful /\ last.p # Nowhere =>
        count.in - count.out - base.net = SideOf(last.p) - SideOf(base.p)

\* Loitering is reported exactly if the object has been in the area since
\* min_dwell_seconds ago, no cycle finding it gone for longer than the grace
\* period (loitering.py).
Visits == {s.t : s \in {v \in seen : PointInPolygon(v.p, Area)}}
Unbroken(s, t) == \A u \in cycles : s < u /\ u <= t =>
    u - Max({v \in Visits : v <= u}) <= Grace
LoiterExact ==
    cycles # {} =>
        LET t == Max(cycles)
        IN  Loiters(t) <=> \E s \in Visits : t - s >= MinDwell /\ Unbroken(s, t)

\* What the two rest on.  The clock is past every cycle, and objects are seen
\* in cycles.
TimePasses ==
    /\ \A u \in cycles : u < now
    /\ \A s \in seen : s.t \in cycles
    /\ cycles # {} => \E t \in cycles : \A u \in cycles : u <= t

\* The last centroid is where the object was last seen, and is forgotten
\* exactly if it is out of sight; a count begins with the first sighting.
LastIsSeen ==
    /\ last = Unknown <=> OutOfSight
    /\ last # Unknown => last \in seen /\ \A s \in seen : s.t <= last.t
    /\ base = NoBase <=> seen = {}

\* Where it was last seen tells its side.
SideKnown == ~doubtful /\ last # Unknown => Beside(last.p) # 0

\* The dwell time counts from the first visit that no gap separates from now.
DwellsSince ==
    /\ dwell = NotIn => \A s \in Visits : ~Unbroken(s, now)
    /\ dwell # NotIn =>
         /\ {dwell.start, dwell.t} \subseteq Visits
         /\ \A v \in Visits : v <= dwell.t
         /\ Unbroken(dwell.start, now)
         /\ \A s \in Visits : s < dwell.start => ~Unbroken(s, now)

IInv == TypeOK /\ TimePasses /\ LastIsSeen /\ SideKnown /\ DwellsSince /\ NetCount

\* The comments of line_crossing.py and loitering.py: a single missed cycle
\* loses neither the last position nor the dwell time.
OneMissIsNothing ==
    \A u, v \in cycles :
        u < v /\ v = Max(cycles) /\ (\E s \in seen : s.t = u)
              /\ (\A w \in cycles : w <= u \/ w = v)
        => last.p # Nowhere
=============================================================================
