-------------------------------- MODULE Zones --------------------------------
(***************************************************************************)
(* The geometry of the detection zones, on points with integer             *)
(* coordinates: detection/zones.py and detection/line_crossing.py.  The    *)
(* code computes the same expressions on floats between 0 and 1.           *)
(***************************************************************************)
EXTENDS Integers, Sequences, FiniteSets, FiniteSetsExt

CONSTANT Side       \* the points of a zone: a grid of Side by Side

Points == (0..(Side - 1)) \X (0..(Side - 1))
X(p) == p[1]
Y(p) == p[2]

\* Twice the signed area of the triangle p, q, r: _orientation with the sign
\* turned round, which all its comparisons leave alone.
Turn(p, q, r) == (X(q) - X(p)) * (Y(r) - Y(p)) - (Y(q) - Y(p)) * (X(r) - X(p))
Sign(n) == IF n > 0 THEN 1 ELSE IF n < 0 THEN -1 ELSE 0

\* _on_segment: q lies in the box of p and r
OnSegment(p, q, r) ==
    /\ Min({X(p), X(r)}) <= X(q) /\ X(q) <= Max({X(p), X(r)})
    /\ Min({Y(p), Y(r)}) <= Y(q) /\ Y(q) <= Max({Y(p), Y(r)})

StraddlesOnce(p1, p2, p3, p4) == \* mutant
    LET o1 == Sign(Turn(p1, p2, p3))  o2 == Sign(Turn(p1, p2, p4))
        o3 == Sign(Turn(p3, p4, p1))
    IN  \/ o1 # o2
        \/ o1 = 0 /\ OnSegment(p1, p3, p2)
        \/ o3 = 0 /\ OnSegment(p3, p1, p4)

\* segments_intersect
SegmentsIntersect(p1, p2, p3, p4) ==
    LET o1 == Sign(Turn(p1, p2, p3))  o2 == Sign(Turn(p1, p2, p4))
        o3 == Sign(Turn(p3, p4, p1))  o4 == Sign(Turn(p3, p4, p2))
    IN  \/ o1 # o2 /\ o3 # o4
        \/ o1 = 0 /\ OnSegment(p1, p3, p2)
        \/ o2 = 0 /\ OnSegment(p1, p4, p2)
        \/ o3 = 0 /\ OnSegment(p3, p1, p4)
        \/ o4 = 0 /\ OnSegment(p3, p2, p4)

\* crossing_side: above zero is "in"
CrossingSide(point, p1, p2) == Turn(p1, p2, point)

BothEnds(edge, point) == \* mutant
    LET a == edge[1]  b == edge[2]  up == Y(b) - Y(a) IN
    /\ (Y(a) >= Y(point)) # (Y(b) > Y(point))
    /\ (X(point) - X(a)) * up * up < (X(b) - X(a)) * (Y(point) - Y(a)) * up

\* One turn of the loop of point_in_polygon: the edge crosses the height of
\* the point, to the right of it.  Multiplied out, the division cannot occur
\* for a level edge; up * up keeps the sign.
CrossedRightOf(edge, point) ==
    LET a == edge[1]  b == edge[2]  up == Y(b) - Y(a) IN
    /\ (Y(a) > Y(point)) # (Y(b) > Y(point))
    /\ (X(point) - X(a)) * up * up < (X(b) - X(a)) * (Y(point) - Y(a)) * up

\* point_in_polygon: an odd number of crossed edges
PointInPolygon(point, polygon) ==
    /\ Len(polygon) >= 3
    /\ Cardinality({n \in DOMAIN polygon :
           CrossedRightOf(<<polygon[IF n = 1 THEN Len(polygon) ELSE n - 1], polygon[n]>>, point)}) % 2 = 1

\* _zone_matches_class: a zone without classes concerns all of them
MatchesClass(zone, class) == zone.classes = {} \/ class \in zone.classes

PassesAll(class, point, zones) == \* mutant
    LET covers(z) == MatchesClass(z, class) /\ PointInPolygon(point, z.points)
        include == {z \in zones : z.mode = "include" /\ MatchesClass(z, class)}
    IN  /\ ~\E z \in zones : z.mode = "exclude" /\ covers(z)
        /\ \A z \in include : covers(z)

\* filter_detections_by_zones, for one detection of that class at that point
Passes(class, point, zones) ==
    LET covers(z) == MatchesClass(z, class) /\ PointInPolygon(point, z.points)
        include == {z \in zones : z.mode = "include" /\ MatchesClass(z, class)}
    IN  /\ ~\E z \in zones : z.mode = "exclude" /\ covers(z)
        /\ include # {} => \E z \in include : covers(z)

-----------------------------------------------------------------------------
(* What the functions are to compute, stated another way.                  *)

\* Two segments share no point exactly if a line with one of these normals
\* lies strictly between them.
Normals == ((1 - Side)..(Side - 1)) \X ((1 - Side)..(Side - 1))
Along(n, p) == X(n) * X(p) + Y(n) * Y(p)
Apart(p1, p2, p3, p4) == \E n \in Normals :
    \A p \in {p1, p2}, q \in {p3, p4} : Along(n, p) < Along(n, q)

\* A point is strictly inside a triangle if it is on the same side of every
\* edge, and outside if it is strictly on the other side of one.
Sides(point, t) == {Sign(Turn(t[1], t[2], point)), Sign(Turn(t[2], t[3], point)),
                    Sign(Turn(t[3], t[1], point))}
Inside(point, t) == Sides(point, t) \in {{1}, {-1}}
Outside(point, t) == Turn(t[1], t[2], t[3]) # 0 /\ {1, -1} \subseteq Sides(point, t)

\* The motion a-b crosses the line c-d exactly if the two have a point in
\* common (line_crossing.py, segments_intersect).
CrossesExactly(a, b, c, d) == SegmentsIntersect(a, b, c, d) <=> ~Apart(a, b, c, d)

\* A point strictly inside the triangle a, b, c counts as inside whichever
\* corner the polygon starts from and whichever way round it was drawn, a
\* point strictly outside as outside (zones.py, point_in_polygon).
InsideExactly(a, b, c, d) ==
    /\ Inside(d, <<a, b, c>>) => PointInPolygon(d, <<a, b, c>>)
    /\ Outside(d, <<a, b, c>>) => ~PointInPolygon(d, <<a, b, c>>)

\* One more exclude zone never lets a detection through that was held back,
\* and where an include zone concerns its class, one more of them never holds
\* back what passed (zones.py, filter_detections_by_zones).
FilterMonotone(a, b, c, d) ==
    LET zone(mode, classes, points) == [mode |-> mode, classes |-> classes, points |-> points]
        corner == <<<<0, 0>>, <<Side - 1, 0>>, <<0, Side - 1>>>>
    IN  \A one, two \in {{}, {"person"}, {"car"}} :
          LET drawn == {zone("include", one, <<a, b, c>>)}
              passes(zones) == Passes("person", d, zones)
          IN  /\ passes(drawn \cup {zone("exclude", two, corner)}) => passes(drawn)
              /\ one # {"car"} /\ passes(drawn) =>
                    passes(drawn \cup {zone("include", two, corner)})
=============================================================================
