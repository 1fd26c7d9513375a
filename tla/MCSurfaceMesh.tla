---------------------------- MODULE MCSurfaceMesh ----------------------------
(* SurfaceMesh on polygons whose vertices are nodes of a grid of 12, so    *)
(* that every cut is at integer points.  Each triangle, each choice of four*)
(* vertices and two concave boundaries come under two surfaces that cover  *)
(* them, two that do not, one away from them and one of too many triangles.*)
(* The second surface has too many edge tests for the concave boundaries.  *)
(* Each choice of five vertices, a comb and a spiral with straight vertices*)
(* are only cut into triangles: their surface has too many.                *)
(* Over each triangle one cut may be rounded to the neighbour, over the    *)
(* concave boundaries and four more two.                                   *)
EXTENDS SurfaceMesh

Nodes == {0, 12, 24} \X {0, 12, 24}

First(b) == \A i \in DOMAIN b : b[1][1] < b[i][1] \/ (b[1][1] = b[i][1] /\ b[1][2] <= b[i][2])

Distinct(n) == {b \in [1 .. n -> Nodes] : First(b) /\ \A i, j \in 1 .. n : b[i] = b[j] => i = j}

Chevron == << <<0,0>>, <<24,0>>, <<12,12>>, <<24,24>>, <<0,24>>, <<0,12>> >>
Arrow == << <<24,12>>, <<12,24>>, <<12,12>>, <<0,12>>, <<12,0>> >>

Comb == << <<0,0>>, <<24,0>>, <<48,0>>, <<72,0>>, <<72,36>>, <<48,36>>, <<48,12>>,
           <<36,12>>, <<24,12>>, <<24,36>>, <<0,36>>, <<0,12>> >>
Spiral == << <<0,0>>, <<60,0>>, <<60,60>>, <<12,60>>, <<12,24>>, <<36,24>>, <<36,36>>,
             <<24,36>>, <<24,48>>, <<48,48>>, <<48,12>>, <<0,12>> >>

Covered == Distinct(3) \cup Distinct(4) \cup {Chevron, Arrow}

MCBoundaries == Covered \cup Distinct(5) \cup {Comb, Spiral, Reverse(Comb), Reverse(Spiral)}

Rolling(i, j) == 12 * ((i * i + 2 * j) % 3)
Grid(xs, ys) ==
  [xs |-> xs, ys |-> ys,
   heights |-> [j \in DOMAIN ys |-> [i \in DOMAIN xs |-> Rolling(i, j)]]]

TooFine == Grid(<<-24, -12, 0, 12, 24, 36>>, <<-24, -12, 0, 12, 24, 36>>)

MCSurfaces(b) ==
  IF b \in Covered
    THEN {Grid(<<-12, 0, 12, 24, 36>>, <<-12, 0, 12, 24, 36>>), TooFine,
          Grid(<<0, 12, 24>>, <<0, 12, 24>>), Grid(<<0, 12>>, <<0, 12, 24>>),
          Grid(<<6, 18>>, <<6, 18>>), Grid(<<48, 60>>, <<0, 12>>)}
    ELSE {TooFine}

Kite == << <<0,12>>, <<12,0>>, <<24,12>>, <<12,24>> >>
Slanted == << <<0,0>>, <<24,0>>, <<24,24>>, <<12,24>> >>

MCMaxAway(b) ==
  IF b \in {Chevron, Arrow, Kite, Slanted, <<Kite[1], Kite[3], Kite[4]>>, SubSeq(Slanted, 1, 3)}
    THEN 2 ELSE IF b \in Distinct(3) THEN 1 ELSE 0

MCProbes == {<<12 * i + 1, 12 * j + 5>> : i \in -2 .. 6, j \in -2 .. 5}
            \cup {<<12 * i + 11, 12 * j + 7>> : i \in -2 .. 6, j \in -2 .. 5}
=============================================================================
