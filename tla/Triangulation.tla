--------------------------- MODULE Triangulation ---------------------------
(***************************************************************************)
(* geometry/mesh.py, triangulate_polygon: the boundary that the parser has *)
(* accepted is normalized, a round of the loop a step, and cut into        *)
(* triangles, an ear a step.                                               *)
(***************************************************************************)
EXTENDS Polygon, SequencesExt

CONSTANTS
  Boundaries,      \* the boundaries that a header may hold
  Probes,          \* the points that may be inlets
  MaxVertices      \* MAX_BOUNDARY_VERTICES

ASSUME TriangulationAssumption ==
  /\ Boundaries \subseteq Seq(Int \X Int) /\ Probes \subseteq Int \X Int
  /\ MaxVertices \in Nat /\ \A b \in Boundaries : Len(b) >= 3

VARIABLES
  boundary,     \* the header's
  polygon,      \* normalized so far
  indices,      \* what is left to cut, as a polygon
  triangles,
  pc            \* "normalizing", "cutting", "done" or "raised"

vars == <<boundary, polygon, indices, triangles, pc>>

oriented(b) == IF area_twice(b) > 0 THEN b ELSE Reverse(b)

\* The parser rejects the others.
Init ==
  /\ boundary \in {b \in Boundaries : validate_polygon(b, MaxVertices)}
  /\ polygon = oriented(boundary)
  /\ indices = <<>> /\ triangles = <<>>
  /\ pc = "normalizing"

Before2(a, b) == a[1] < b[1] \/ (a[1] = b[1] /\ a[2] <= b[2])

\* polygon[start:] + polygon[:start] from its least vertex
from_least(p) ==
  LET start == CHOOSE s \in DOMAIN p : \A i \in DOMAIN p : Before2(p[s], p[i]) IN
  SubSeq(p, start, Len(p)) \o SubSeq(p, 1, start - 1)

\* Mutant: the sign is kept, so that a vertex that turns right counts as straight.
is_corner_signed(p, i) == cross(Before(p, i), p[i], After(p, i)) > 0

is_corner(p, i) == cross(Before(p, i), p[i], After(p, i)) # 0

\* The retained points among the first of p, and among all.
Kept(p) ==
  LET kept[i \in 0 .. Len(p)] ==
        IF i = 0 THEN <<>>
        ELSE IF is_corner(p, i) THEN Append(kept[i - 1], p[i]) ELSE kept[i - 1]
  IN kept

retained(p) == Kept(p)[Len(p)]

changed(p) == Len(p) > 3 /\ retained(p) # p

\* A round of the loop in _normalized_polygon, and its last lines.
Normalize ==
  /\ pc = "normalizing"
  /\ IF changed(polygon)
       THEN polygon' = retained(polygon) /\ UNCHANGED <<indices, pc>>
       ELSE polygon' = from_least(polygon) /\ indices' = from_least(polygon) /\ pc' = "cutting"
  /\ UNCHANGED <<boundary, triangles>>

\* Mutant: vertices on the ear's edges are overlooked.
is_ear_strict(p, i) ==
  /\ cross(Before(p, i), p[i], After(p, i)) > 0
  /\ \A q \in ToSet(p) \ {Before(p, i), p[i], After(p, i)} :
       ~(/\ cross(Before(p, i), p[i], q) > 0 /\ cross(p[i], After(p, i), q) > 0
         /\ cross(After(p, i), Before(p, i), q) > 0)

is_ear(p, i) ==
  /\ cross(Before(p, i), p[i], After(p, i)) > 0
  /\ \A q \in ToSet(p) \ {Before(p, i), p[i], After(p, i)} :
       ~point_in_triangle(q, Before(p, i), p[i], After(p, i))

\* The first ear in the order of indices.
Cut ==
  /\ pc = "cutting"
  /\ UNCHANGED <<boundary, polygon>>
  /\ IF Len(indices) = 3
       THEN triangles' = Append(triangles, indices) /\ pc' = "done" /\ UNCHANGED indices
     ELSE IF \E i \in DOMAIN indices : is_ear(indices, i)
       THEN LET i == CHOOSE i \in DOMAIN indices :
                       is_ear(indices, i) /\ \A j \in 1 .. i - 1 : ~is_ear(indices, j)
            IN /\ triangles' = Append(triangles, <<Before(indices, i), indices[i], After(indices, i)>>)
               /\ indices' = RemoveAt(indices, i)
               /\ UNCHANGED pc
       ELSE pc' = "raised" /\ UNCHANGED <<indices, triangles>>

Next == Normalize \/ Cut

-----------------------------------------------------------------------------
Area(ts) == Total([k \in DOMAIN ts |-> area_twice(ts[k])])

(* A boundary that the parser accepts can be triangulated: the parser's    *)
(* checks are enough for the loop never to run out of ears, whatever       *)
(* straight vertices the boundary has (parser.py:115-134, mesh.py:117-136).*)
NeverRaised == pc # "raised"

(* Nothing of the area is lost or gained: not by dropping straight         *)
(* vertices, which a round drops many of, each by the neighbours it had    *)
(* before the round; not by starting at the least vertex; and not by       *)
(* cutting an ear (mesh.py:85-138).                                        *)
AreaKept ==
  /\ area_twice(polygon) > 0
  /\ area_twice(polygon) \in {area_twice(boundary), -area_twice(boundary)}
  /\ pc = "cutting" => Area(triangles) + area_twice(indices) = area_twice(polygon)
  /\ pc = "done" => Area(triangles) = area_twice(polygon)

(* No triangle is degenerate or turns right, the last one included, which  *)
(* is not tested before it is taken (mesh.py:117-137).                     *)
NoneTurnsRight == \A k \in DOMAIN triangles : area_twice(triangles[k]) > 0

(* The parser and the mesh agree on where the boundary is: a point is      *)
(* inside for the one, by crossings, exactly when a triangle of the other  *)
(* holds it (parser.py:137-150, mesh.py:103-108).                          *)
InsideAgrees ==
  pc = "done" =>
    \A q \in Probes :
      point_in_polygon(q, boundary) <=>
        \E k \in DOMAIN triangles :
          point_in_triangle(q, triangles[k][1], triangles[k][2], triangles[k][3])

(* The boundary that the parser accepts is cut into triangles that are the *)
(* boundary: the other three parts above.                                  *)
Triangulated == NeverRaised /\ NoneTurnsRight /\ InsideAgrees
=============================================================================
