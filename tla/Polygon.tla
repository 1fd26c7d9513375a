------------------------------ MODULE Polygon ------------------------------
(***************************************************************************)
(* The plane geometry of contracts/parser.py and geometry/mesh.py, on      *)
(* points with integer coordinates, where it is exact: the tolerances of   *)
(* 1e-9 and 1e-10 m stand for equality.  A polygon is the sequence of its  *)
(* vertices.                                                               *)
(***************************************************************************)
EXTENDS Integers, Sequences, FiniteSets

\* _cross, _cross2: twice the area of the triangle a, b, c, positive when it turns left.
cross(a, b, c) == (b[1] - a[1]) * (c[2] - a[2]) - (b[2] - a[2]) * (c[1] - a[1])

Between(a, b, x) == (a <= x /\ x <= b) \/ (b <= x /\ x <= a)

on_segment(a, b, point) ==
  cross(a, b, point) = 0 /\ Between(a[1], b[1], point[1]) /\ Between(a[2], b[2], point[2])

Apart(s, t) == (s > 0 /\ t < 0) \/ (s < 0 /\ t > 0)

segments_intersect(a, b, c, d) ==
  \/ Apart(cross(a, b, c), cross(a, b, d)) /\ Apart(cross(c, d, a), cross(c, d, b))
  \/ on_segment(a, b, c) \/ on_segment(a, b, d)
  \/ on_segment(c, d, a) \/ on_segment(c, d, b)

\* The vertex after and before the i-th.
After(p, i)  == p[IF i = Len(p) THEN 1 ELSE i + 1]
Before(p, i) == p[IF i = 1 THEN Len(p) ELSE i - 1]

\* The sums of the first numbers of a sequence, and of all.
Sums(t) ==
  LET sum[i \in 0 .. Len(t)] == IF i = 0 THEN 0 ELSE sum[i - 1] + t[i] IN sum

Total(t) == Sums(t)[Len(t)]

wedge(a, b) == a[1] * b[2] - b[1] * a[2]

\* area_twice, and twice _signed_area
area_twice(p) == Total([i \in DOMAIN p |-> wedge(p[i], After(p, i))])

\* _validate_polygon: whether it raises nothing
validate_polygon(p, MaxVertices) ==
  /\ Len(p) <= MaxVertices
  /\ \A i, j \in DOMAIN p : p[i] = p[j] => i = j
  /\ area_twice(p) # 0
  /\ \A i, j \in DOMAIN p :
       i < j /\ j # i + 1 /\ ~(i = 1 /\ j = Len(p)) =>
         ~segments_intersect(p[i], After(p, i), p[j], After(p, j))

\* point[0] < crossing_x for the edge from l to r, which crosses the point's height.
LeftOfCrossing(l, r, point) ==
  LET rise == r[2] - l[2]
      d == (point[1] - l[1]) * rise - (r[1] - l[1]) * (point[2] - l[2])
  IN IF rise > 0 THEN d < 0 ELSE d > 0

\* _point_in_polygon
point_in_polygon(point, p) ==
  \/ \E i \in DOMAIN p : on_segment(p[i], After(p, i), point)
  \/ Cardinality({i \in DOMAIN p :
        /\ (p[i][2] > point[2]) # (After(p, i)[2] > point[2])
        /\ LeftOfCrossing(p[i], After(p, i), point)}) % 2 = 1

\* _point_in_triangle
point_in_triangle(point, a, b, c) ==
  cross(a, b, point) >= 0 /\ cross(b, c, point) >= 0 /\ cross(c, a, point) >= 0
=============================================================================
