--------------------------- MODULE ObjectTracking ---------------------------
(***************************************************************************)
(* ObjectTracker (detection/tracking.py): greedy matching of the           *)
(* detections of one class to the tracks kept so far.  Other classes are   *)
(* matched apart.  Boxes are intervals of length Width on a line.          *)
(***************************************************************************)
EXTENDS Integers, Sequences, FiniteSets

CONSTANTS
    Objects,    \* what moves before the camera
    MaxX,       \* bound: positions
    Width,      \* length of a box
    MinHits,    \* min_hits
    MaxMissed,  \* max_missed
    MaxCycles   \* bound: cycles

VARIABLES
    place,      \* where each object is
    track,      \* _tracks
    nextId,     \* _next_id
    confirmed,  \* what update returned: [id, object]
    offered,    \* history: the candidates of this cycle
    matched,    \* history: the pairs that were matched
    sightings,  \* history: the cycles in which each track was seen
    cycle       \* cycles so far

trackerVars == <<place, track, nextId, confirmed, offered, matched, sightings, cycle>>

MaxId == MaxCycles * Cardinality(Objects)
NoTrack == [is |-> FALSE, box |-> 0, hits |-> 0, misses |-> 0]
Tracks == {t \in 1..MaxId : track[t].is}

Init ==
    /\ place \in [Objects -> 0..MaxX]
    /\ track = [t \in 1..MaxId |-> NoTrack]
    /\ nextId = 1
    /\ confirmed = {}
    /\ offered = {}
    /\ matched = {}
    /\ sightings = [t \in 1..MaxId |-> {}]
    /\ cycle = 0

\* _iou: grows with the common part; nought without one
Overlap(p, q) == LET apart == IF p < q THEN q - p ELSE p - q
                 IN  IF apart < Width THEN Width - apart ELSE 0
\* iou_threshold 0.3: common / (2 * Width - common)
AboveThreshold(common) == 10 * common >= 3 * (2 * Width - common)

\* The pairs in the order of candidates: best overlap first; sorted() keeps
\* the order of the tracks, then of the detections, among equals.
WorstFirst(p, q) == \* mutant
    IF p.score # q.score THEN p.score < q.score
    ELSE IF p.id # q.id THEN p.id < q.id ELSE p.index < q.index
Before(p, q) ==
    IF p.score # q.score THEN p.score > q.score
    ELSE IF p.id # q.id THEN p.id < q.id ELSE p.index < q.index

Candidates(seq) ==
    {[score |-> Overlap(track[t].box, place[seq[n]]), id |-> t, index |-> n] :
        t \in Tracks, n \in DOMAIN seq}

\* What the loop may still take: it passes over pairs below the threshold and
\* over tracks and detections that have a partner.
Free(seq, pairs) ==
    {p \in Candidates(seq) : AboveThreshold(p.score) /\ \A q \in pairs : q.id # p.id /\ q.index # p.index}
First(pairs) == CHOOSE p \in pairs : \A q \in pairs \ {p} : Before(p, q)

\* One turn of the matching loop takes the best pair that is left.
Take(seq, pairs) ==
    LET free == Free(seq, pairs)
    IN  IF free = {} THEN pairs ELSE pairs \cup {First(free)}

\* The matching loop of update
Matching(seq) ==
    LET after[n \in 0..Len(seq)] == IF n = 0 THEN {} ELSE Take(seq, after[n - 1])
    IN  after[Len(seq)]

\* track.hits += 1; nothing ever takes hits back.
Hits(t) == track[t].hits + 1

\* One matched track, one that was missed, and a new one
Renewed(t, box) == [is |-> TRUE, box |-> box, hits |-> Hits(t), misses |-> 0]
MissedOnceMore(t) == \* mutant
    IF track[t].misses > MaxMissed THEN NoTrack ELSE [track[t] EXCEPT !.misses = @ + 1]
Missed(t) ==
    IF track[t].misses + 1 > MaxMissed THEN NoTrack ELSE [track[t] EXCEPT !.misses = @ + 1]
Fresh(box) == [is |-> TRUE, box |-> box, hits |-> 1, misses |-> 0]

\* The detections without a track, and the ids they get, in that order
Unmatched(seq, pairs) == {n \in DOMAIN seq : \A p \in pairs : p.index # n}
NewId(new, n) == nextId + Cardinality({m \in new : m < n})

\* ObjectTracker.update with the detections in this order
Update(seq) ==
    LET pairs == Matching(seq)
        new == Unmatched(seq, pairs)
    IN  /\ track' = [t \in 1..MaxId |->
                        IF \E p \in pairs : p.id = t
                        THEN Renewed(t, place[seq[(CHOOSE p \in pairs : p.id = t).index]])
                        ELSE IF track[t].is THEN Missed(t)
                        ELSE IF \E n \in new : NewId(new, n) = t
                        THEN Fresh(place[seq[CHOOSE n \in new : NewId(new, n) = t]])
                        ELSE NoTrack]
        /\ nextId' = nextId + Cardinality(new)
        /\ confirmed' =
               {[id |-> p.id, object |-> seq[p.index]] :
                   p \in {q \in pairs : Hits(q.id) >= MinHits}}
               \cup {[id |-> NewId(new, n), object |-> seq[n]] : n \in {m \in new : MinHits <= 1}}
        /\ offered' = Candidates(seq)
        /\ matched' = pairs
        /\ sightings' = [t \in 1..MaxId |->
                            IF (\E p \in pairs : p.id = t) \/ (\E n \in new : NewId(new, n) = t)
                            THEN sightings[t] \cup {cycle + 1} ELSE sightings[t]]

Orders(S) == {seq \in [1..Cardinality(S) -> S] : \A m, n \in DOMAIN seq : seq[m] = seq[n] => m = n}

\* One inference cycle: some objects are seen, then all move by one at most.
Next ==
    /\ cycle < MaxCycles
    /\ cycle' = cycle + 1
    /\ \E visible \in SUBSET Objects : \E seq \in Orders(visible) : Update(seq)
    /\ place' \in {q \in [Objects -> 0..MaxX] :
                      \A o \in Objects : q[o] - place[o] \in {-1, 0, 1}}

Spec == Init /\ [][Next]_trackerVars

-----------------------------------------------------------------------------
TypeOK ==
    /\ place \in [Objects -> 0..MaxX]
    /\ track \in [1..MaxId -> [is : BOOLEAN, box : 0..MaxX, hits : 0..MaxCycles, misses : 0..MaxMissed]]
    /\ nextId \in 1..(MaxId + 1)

\* The greedy matching is stable: of a track and a detection that overlap
\* enough but were not paired, one was paired with a partner that overlaps at
\* least as much, and nothing is paired twice (tracking.py, update).
Stable ==
    /\ \A p, q \in matched : p # q => p.id # q.id /\ p.index # q.index
    /\ \A p \in offered \ matched : AboveThreshold(p.score) =>
           \E q \in matched : (q.id = p.id \/ q.index = p.index) /\ q.score >= p.score

\* What is surfaced was seen in at least min_hits cycles, never missed for
\* more than max_missed cycles in between.
SurfacedPersists == \A s \in confirmed :
    LET at == sightings[s.id] IN
    /\ Cardinality(at) >= MinHits
    /\ \A m \in at : m = cycle \/ \E n \in at : m < n /\ n - m <= MaxMissed + 1

\* What makes TracksHold inductive: a track has been seen as often as it has
\* hits, last as many cycles ago as it was missed; an id is used once.
SeenAsCounted == \A t \in Tracks :
    LET at == sightings[t] IN
    /\ t < nextId
    /\ Cardinality(at) = track[t].hits
    /\ cycle - track[t].misses \in at
    /\ \A m \in at : m = cycle - track[t].misses \/ \E n \in at : m < n /\ n - m <= MaxMissed + 1
IdsAreNew ==
    /\ nextId <= cycle * Cardinality(Objects) + 1
    /\ \A t \in 1..MaxId :
           sightings[t] \subseteq 1..cycle /\ (t >= nextId => sightings[t] = {})
IInv == TypeOK /\ cycle \in 0..MaxCycles /\ SeenAsCounted /\ IdsAreNew /\ Stable /\ SurfacedPersists

\* The docstring of ObjectTracker: a track is only surfaced once it has been
\* matched min_hits times in a row.
SurfacedInARow == \A s \in confirmed :
    \E n \in MinHits..cycle : (n - MinHits + 1)..n \subseteq sightings[s.id]
=============================================================================
