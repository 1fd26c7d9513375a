---------------------------- MODULE SurfaceMesh ----------------------------
(***************************************************************************)
(* geometry/mesh.py, build_scene_geometry: when the boundary is cut into   *)
(* triangles (Triangulation), every triangle of the observed surface is    *)
(* clipped by every one of them, a pair a step, and the sides of the heap  *)
(* are built under the edges that one face only has.                       *)
(*                                                                         *)
(* Places are exact; which points are one vertex is not.  _MeshBuilder     *)
(* gives points one index if their floats agree to 12 digits, and two      *)
(* triangles with a common edge compute its cuts from opposite ends of it  *)
(* or of the boundary's edge, so that the last digit may differ.  A point  *)
(* of the clip is <<x, y, z, cut>>, where cut is 1 if it was computed, and *)
(* a vertex <<x, y, z, away>>, where away is 1 if it was rounded to the    *)
(* neighbour: two vertices at one place.                                   *)
(***************************************************************************)
EXTENDS Triangulation

CONSTANTS
  Surfaces(_),     \* the surfaces that come over a boundary: [xs, ys, heights]
  Floor,           \* floor_z_m, 0 or less
  MaxTriangles,    \* MAX_SURFACE_TRIANGLES
  MaxEdgeTests,    \* MAX_CLIP_EDGE_TESTS
  MaxAway(_)       \* bounds the cuts over a boundary that are rounded to the neighbour

ASSUME SurfaceMeshAssumption ==
  /\ Floor \in Int /\ MaxTriangles \in Nat /\ MaxEdgeTests \in Nat
  /\ \A b \in Boundaries : MaxAway(b) \in Nat
  /\ \A b \in Boundaries : \A s \in Surfaces(b) : s.heights \in [DOMAIN s.ys -> [DOMAIN s.xs -> Int]]

VARIABLES
  surface,            \* the observation's
  source_triangles,
  pair,               \* how many pairs are clipped
  operation_count,
  faces,              \* of the surface's mesh, in order
  rounded,            \* history: how many cuts were rounded to the neighbour
  sides               \* the faces of volume_sides, whose order shows in nothing here

mesh_vars == <<surface, source_triangles, pair, operation_count, faces, rounded, sides>>

MeshInit ==
  /\ Init
  /\ surface \in Surfaces(boundary)
  /\ source_triangles = <<>> /\ pair = 0 /\ operation_count = 0
  /\ faces = <<>> /\ rounded = 0 /\ sides = {}

-----------------------------------------------------------------------------
(* The clip of one triangle of the surface by one of the boundary.          *)

inside(point, edge) == cross(edge[1], edge[2], point) >= 0

\* Exact for the points of the instances, whose coordinates divide; the ratio is then
\* within 0 and 1 by itself.  A line along the edge answers start.
intersection(start, end, edge) ==
  LET denominator == (edge[2][1] - edge[1][1]) * (end[2] - start[2])
                     - (edge[2][2] - edge[1][2]) * (end[1] - start[1])
      numerator == cross(edge[1], edge[2], start)
      along(k) == start[k] - (numerator * (end[k] - start[k])) \div denominator
  IN IF denominator = 0 THEN start ELSE <<along(1), along(2), along(3), 1>>

\* Mutant: the point where the polygon comes back in is forgotten.
passed_one_way(previous, current, edge) ==
  IF inside(current, edge) THEN <<current>>
  ELSE IF inside(previous, edge) THEN <<intersection(previous, current, edge)>> ELSE <<>>

\* What the edge from previous to current adds to the output.
passed(previous, current, edge) ==
  LET crossed == inside(previous, edge) # inside(current, edge) IN
    (IF crossed THEN <<intersection(previous, current, edge)>> ELSE <<>>)
    \o (IF inside(current, edge) THEN <<current>> ELSE <<>>)

clip_edge(source, edge) ==
  FlattenSeq([i \in DOMAIN source |-> passed(Before(source, i), source[i], edge)])

\* The place of a point, or of a vertex.
At(p) == <<p[1], p[2], p[3]>>

\* Neighbours at one place once, the last and the first included.
cleaned(output) ==
  LET apart == SelectSeq([i \in DOMAIN output |-> i],
                         LAMBDA i : i = 1 \/ At(output[i]) # At(output[i - 1]))
      points == [k \in DOMAIN apart |-> output[apart[k]]]
  IN IF Len(points) > 1 /\ At(Last(points)) = At(points[1]) THEN Front(points) ELSE points

Edges(triangle) == [i \in DOMAIN triangle |-> <<triangle[i], After(triangle, i)>>]

\* The polygon as it comes to each edge, and after the last.
Rounds(triangle, by) ==
  LET first == clip_edge(triangle, Edges(by)[1])
      second == clip_edge(first, Edges(by)[2])
  IN <<triangle, first, second, clip_edge(second, Edges(by)[3])>>

\* An edge test for every point of every round.
edge_tests(triangle, by) ==
  LET r == Rounds(triangle, by) IN Len(r[1]) + Len(r[2]) + Len(r[3])

\* _MeshBuilder.triangle, which takes no triangle without area.
Degenerate(a, b, c) ==
  LET u == [k \in 1 .. 3 |-> b[k] - a[k]]
      v == [k \in 1 .. 3 |-> c[k] - a[k]]
  IN /\ u[2] * v[3] = u[3] * v[2]
     /\ u[3] * v[1] = u[1] * v[3]
     /\ u[1] * v[2] = u[2] * v[1]

Solid(triangles3) == SelectSeq(triangles3, LAMBDA t : ~Degenerate(t[1], t[2], t[3]))

Less3(a, b) ==
  \/ a[1] < b[1]
  \/ a[1] = b[1] /\ a[2] < b[2]
  \/ a[1] = b[1] /\ a[2] = b[2] /\ a[3] <= b[3]

\* _add_polygon: a fan from the least vertex
fan(points) ==
  IF Len(points) < 3 THEN <<>>
  ELSE LET turned == IF cross(points[1], points[2], points[3]) < 0 THEN Reverse(points) ELSE points
           start == CHOOSE s \in DOMAIN turned : \A i \in DOMAIN turned : Less3(turned[s], turned[i])
           p == SubSeq(turned, start, Len(turned)) \o SubSeq(turned, 1, start - 1)
       IN Solid([i \in 1 .. Len(p) - 2 |-> <<p[1], p[i + 1], p[i + 2]>>])

computed(points) == {p \in ToSet(points) : p[4] = 1}

\* _index: the vertices of the points, if those of moved are rounded to the neighbour.
indexed(points, moved) ==
  [i \in DOMAIN points |-> Append(At(points[i]), IF points[i] \in moved THEN 1 ELSE 0)]

-----------------------------------------------------------------------------
\* _surface_triangles
surface_triangles(s) ==
  LET corner(i, j) == <<s.xs[i], s.ys[j], s.heights[j][i], 0>>
      cell(i, j) == << <<corner(i, j), corner(i + 1, j), corner(i + 1, j + 1)>>,
                       <<corner(i, j), corner(i + 1, j + 1), corner(i, j + 1)>> >>
      row(j) == FlattenSeq([i \in 1 .. Len(s.xs) - 1 |-> cell(i, j)])
  IN FlattenSeq([j \in 1 .. Len(s.ys) - 1 |-> row(j)])

\* The checks of the limits, once the boundary is cut.
Surface ==
  /\ pc = "done"
  /\ source_triangles' = surface_triangles(surface)
  /\ pc' = IF \/ Len(source_triangles') > MaxTriangles
              \/ Len(source_triangles') * Len(triangles) * 3 > MaxEdgeTests
           THEN "limited" ELSE "clipping"
  /\ UNCHANGED <<boundary, polygon, indices, triangles, surface, pair, operation_count, faces, rounded, sides>>

\* The code counts and looks within the clip, where the exception ends it.
over_budget(count) == count > MaxEdgeTests

Pairs == Len(source_triangles) * Len(triangles)

Clip ==
  /\ pc = "clipping" /\ pair < Pairs
  /\ LET source == source_triangles[(pair \div Len(triangles)) + 1]
         by == triangles[(pair % Len(triangles)) + 1]
         points == cleaned(Rounds(source, by)[4])
     IN /\ operation_count' = operation_count + edge_tests(source, by)
        /\ IF over_budget(operation_count')
             THEN pc' = "limited" /\ UNCHANGED <<pair, faces, rounded>>
             ELSE /\ \E moved \in SUBSET computed(points) :
                       /\ rounded' = rounded + Cardinality(moved)
                       /\ rounded' <= MaxAway(boundary)
                       /\ faces' = faces \o fan(indexed(points, moved))
                  /\ pair' = pair + 1
                  /\ UNCHANGED pc
  /\ UNCHANGED <<boundary, polygon, indices, triangles, surface, source_triangles, sides>>

\* The oriented edges that a face has, and how many faces have the edge.
EdgesOf(fs) == UNION {ToSet(Edges(fs[k])) : k \in DOMAIN fs}
edge_count(fs, e) == Cardinality({k \in DOMAIN fs : {e, <<e[2], e[1]>>} \cap ToSet(Edges(fs[k])) # {}})

\* Mutant: an edge counts as often as it is met in one direction.
once_used_oriented(fs) ==
  {e \in EdgesOf(fs) : Cardinality({k \in DOMAIN fs : e \in ToSet(Edges(fs[k]))}) = 1}

\* The edges to build a side under: edge_counts is 1.
once_used(fs) == {e \in EdgesOf(fs) : edge_count(fs, e) = 1}

On(point) == <<point[1], point[2], Floor, point[4]>>

\* _build_volume_sides
side(e) ==
  Solid(<< <<e[1], On(e[1]), On(e[2])>>, <<e[1], On(e[2]), e[2]>> >>)

Sides ==
  /\ pc = "clipping" /\ pair = Pairs
  /\ sides' = UNION {ToSet(side(e)) : e \in once_used(faces)}
  /\ pc' = "built"
  /\ UNCHANGED <<boundary, polygon, indices, triangles, surface, source_triangles, pair,
                 operation_count, faces, rounded>>

MeshNext == (Next /\ UNCHANGED mesh_vars) \/ Surface \/ Clip \/ Sides

MeshSpec == MeshInit /\ [][MeshNext]_<<vars, mesh_vars>>

-----------------------------------------------------------------------------
Points(fs) == UNION {ToSet(fs[k]) : k \in DOMAIN fs}

InGrid(q) ==
  /\ surface.xs[1] <= q[1] /\ q[1] <= Last(surface.xs)
  /\ surface.ys[1] <= q[2] /\ q[2] <= Last(surface.ys)

Holds(t, q) == point_in_triangle(q, t[1], t[2], t[3])

\* The height of the face's plane at q, times area_twice(t).
Lifted(t, q) ==
  cross(t[2], t[3], q) * t[1][3] + cross(t[3], t[1], q) * t[2][3] + cross(t[1], t[2], q) * t[3][3]

(* The mesh is the observed surface over the boundary, no more and no      *)
(* less: a point inside both the boundary and the grid lies on one face    *)
(* and no other, at the height that the surface has there, and a point     *)
(* outside of either lies on none (mesh.py:166-244, 297-305).  The points  *)
(* asked about lie on no edge.                                             *)
EveryPointOnce ==
  pc = "built" =>
    \A q \in Probes :
      LET over == {k \in DOMAIN faces : Holds(faces[k], q)} IN
      IF InGrid(q) /\ point_in_polygon(q, boundary)
        THEN /\ Cardinality(over) = 1
             /\ LET face == faces[CHOOSE k \in over : TRUE]
                    source == source_triangles[CHOOSE k \in DOMAIN source_triangles :
                                                 Holds(source_triangles[k], q)]
                IN Lifted(face, q) * area_twice(source) = Lifted(source, q) * area_twice(face)
        ELSE over = {}

\* Twice the middle of an edge.
Middle(e) == <<e[1][1] + e[2][1], e[1][2] + e[2][2]>>
Twice(p) == [i \in DOMAIN p |-> <<2 * p[i][1], 2 * p[i][2]>>]

\* The middle of the edge is on the boundary or on the edge of the grid.
OnOutline(e) ==
  \/ \E i \in DOMAIN boundary :
       on_segment(Twice(boundary)[i], After(Twice(boundary), i), Middle(e))
  \/ Middle(e)[1] \in {2 * surface.xs[1], 2 * Last(surface.xs)}
  \/ Middle(e)[2] \in {2 * surface.ys[1], 2 * Last(surface.ys)}

\* The other vertex at the place.
Twins(v, w) == v # w /\ At(v) = At(w)

\* A side that stands inside the heap, and another that stands back to back with it.
BackToBack(e, f) ==
  /\ At(f[1]) = At(e[2]) /\ At(f[2]) = At(e[1])
  /\ Twins(f[1], e[2]) \/ Twins(f[2], e[1])

(* However the cuts are rounded the sides close the heap: the edges that   *)
(* get a side form closed rings, as many leaving a vertex as coming to it; *)
(* one that is not on the outline is a seam where two computations of one  *)
(* point were rounded apart, and has its counterpart on the other face, so *)
(* that nothing gapes; no edge belongs to more than two faces              *)
(* (mesh.py:41-52, 166-220, 247-267).                                      *)
SidesCloseTheHeap ==
  pc = "built" =>
    /\ \A e \in once_used(faces) :
         OnOutline(e) \/ \E f \in once_used(faces) : BackToBack(e, f)
    /\ \A p \in Points(faces) :
         Cardinality({e \in once_used(faces) : e[1] = p})
           = Cardinality({e \in once_used(faces) : e[2] = p})
    /\ \A e \in EdgesOf(faces) : edge_count(faces, e) <= 2
=============================================================================
