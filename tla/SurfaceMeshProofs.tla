------------------------- MODULE SurfaceMeshProofs -------------------------
(***************************************************************************)
(* For every boundary that the parser accepts, however long: no area is    *)
(* lost or gained between the boundary and its triangles.                  *)
(*                                                                         *)
(* An area is a sum over the vertices (Sums), so the lemmas first compare  *)
(* sums term by term, by induction up to a bound (UpTo).  From these come  *)
(* the area of a polygon turned round, started elsewhere, with a vertex    *)
(* more and with a vertex less.  A round of _normalized_polygon drops any  *)
(* number of vertices at once, each judged by neighbours that may be       *)
(* dropped too: RoundAt says that what lies between two kept vertices is   *)
(* on one line, since two lines with two points in common are the same.    *)
(***************************************************************************)
EXTENDS SurfaceMesh, SequenceTheorems, WellFoundedInduction, TLAPS

-----------------------------------------------------------------------------
(* Sums.                                                                   *)

\* Induction up to a bound.
LEMMA UpTo ==
  ASSUME NEW m \in Nat, NEW S, 0 \in S,
         \A n \in 1 .. m : n - 1 \in S => n \in S
  PROVE  \A n \in 0 .. m : n \in S
<1> DEFINE Bad == {n \in 0 .. m : n \notin S}
           R == OpToRel(<, Nat)
<1> SUFFICES ASSUME Bad # {} PROVE FALSE
  OBVIOUS
<1>1. Bad \in SUBSET Nat
  OBVIOUS
<1>2. PICK n \in Bad : \A y \in Bad : ~(<<y, n>> \in R)
  <2>1. IsWellFoundedOn(R, Nat)
    BY NatLessThanWellFounded
  <2> HIDE DEF Bad, R
  <2> QED BY <1>1, <2>1, WFMin
<1>3. n \in 1 .. m /\ n \notin S
  OBVIOUS
<1>4. n - 1 \in 0 .. m /\ n - 1 \in Nat /\ n \in Nat /\ n - 1 < n
  BY <1>3
<1>5. <<n - 1, n>> \in R
  BY <1>4 DEF OpToRel
<1>6. n - 1 \in S
  BY <1>2, <1>4, <1>5
<1> QED BY <1>3, <1>6

\* The function that Sums defines exists.
LEMMA SumsExist ==
  ASSUME NEW t \in Seq(Int)
  PROVE  Sums(t) = [i \in 0 .. Len(t) |-> IF i = 0 THEN 0 ELSE Sums(t)[i - 1] + t[i]]
<1> DEFINE Step(f, n) == [i \in 0 .. n |-> IF i = 0 THEN 0 ELSE f[i - 1] + t[i]]
           S == {n \in Nat : \E f : f = Step(f, n)}
<1>0. Len(t) \in Nat
  OBVIOUS
<1>1. 0 \in S
  <2> DEFINE f == [i \in 0 .. 0 |-> 0]
  <2>1. f = Step(f, 0)
    OBVIOUS
  <2> QED BY <2>1
<1>2. ASSUME NEW n \in 1 .. Len(t), n - 1 \in S PROVE n \in S
  <2>1. PICK f : f = Step(f, n - 1)
    BY <1>2
  <2> DEFINE g == [i \in 0 .. n |-> IF i = n THEN f[n - 1] + t[n] ELSE f[i]]
  <2>2. n \in Nat /\ n # 0 /\ n - 1 \in Nat /\ n - 1 # n
    BY <1>0
  <2>3. ASSUME NEW i \in 0 .. n PROVE g[i] = IF i = 0 THEN 0 ELSE g[i - 1] + t[i]
    <3>1. CASE i = n
      BY <2>2, <3>1
    <3>2. CASE i # n
      <4>1. i \in 0 .. n - 1 /\ g[i] = f[i]
        BY <2>2, <3>2
      <4>2. f[i] = IF i = 0 THEN 0 ELSE f[i - 1] + t[i]
        BY <2>1, <4>1
      <4>3. i # 0 => g[i - 1] = f[i - 1]
        BY <2>2, <4>1
      <4> QED BY <4>1, <4>2, <4>3
    <3> QED BY <3>1, <3>2
  <2>4. g = Step(g, n)
    BY <2>3
  <2> QED BY <2>2, <2>4
<1>3. Len(t) \in S
  <2> HIDE DEF S
  <2>1. \A n \in 0 .. Len(t) : n \in S
    BY <1>0, <1>1, <1>2, UpTo
  <2> QED BY <1>0, <2>1
<1>4. Sums(t) = CHOOSE f : f = Step(f, Len(t))
  BY DEF Sums
<1> QED BY <1>3, <1>4

\* f is the sums of the first k numbers of s.
SumsUp(f, s, k) ==
  /\ f[0] = 0
  /\ \A i \in 0 .. k : f[i] \in Int
  /\ \A i \in 1 .. k : s[i] \in Int /\ f[i] = f[i - 1] + s[i]

LEMMA SumsOf ==
  ASSUME NEW t \in Seq(Int)
  PROVE  SumsUp(Sums(t), t, Len(t))
<1> DEFINE S == {n \in Nat : Sums(t)[n] \in Int}
<1>0. Len(t) \in Nat /\ \A i \in 1 .. Len(t) : t[i] \in Int
  OBVIOUS
<1>1. \A i \in 0 .. Len(t) : Sums(t)[i] = IF i = 0 THEN 0 ELSE Sums(t)[i - 1] + t[i]
  BY SumsExist
<1>2. Sums(t)[0] = 0
  BY <1>0, <1>1
<1>3. \A i \in 1 .. Len(t) : Sums(t)[i] = Sums(t)[i - 1] + t[i]
  BY <1>0, <1>1
<1>4. \A n \in 1 .. Len(t) : n - 1 \in S => n \in S
  BY <1>0, <1>3
<1>5. \A i \in 0 .. Len(t) : i \in S
  <2> HIDE DEF S
  <2>1. 0 \in S
    BY <1>2 DEF S
  <2> QED BY <1>0, <1>4, <2>1, UpTo
<1> QED BY <1>0, <1>2, <1>3, <1>5 DEF SumsUp

\* The m numbers of s after the first a are those of t after the first b.
SameStretch(s, a, t, b, m) == \A j \in 1 .. m : s[a + j] = t[b + j]

\* Two stretches of equal numbers have equal sums.
LEMMA SumsAgree ==
  ASSUME NEW f, NEW s, NEW k \in Nat, SumsUp(f, s, k),
         NEW g, NEW t, NEW l \in Nat, SumsUp(g, t, l),
         NEW a \in Nat, NEW b \in Nat, NEW m \in Nat, a + m <= k, b + m <= l,
         SameStretch(s, a, t, b, m)
  PROVE  f[a + m] - f[a] = g[b + m] - g[b]
<1> DEFINE S == {n \in Nat : f[a + n] - f[a] = g[b + n] - g[b]}
<1>1. f[a] \in Int /\ g[b] \in Int
  BY DEF SumsUp
<1>2. 0 \in S
  BY <1>1
<1>3. ASSUME NEW n \in 1 .. m, n - 1 \in S PROVE n \in S
  <2>1. PICK x \in 1 .. k : x = a + n
    OBVIOUS
  <2>2. PICK y \in 1 .. l : y = b + n
    OBVIOUS
  <2>3. f[x] = f[x - 1] + s[x] /\ g[y] = g[y - 1] + t[y]
        /\ s[x] \in Int /\ f[x - 1] \in Int /\ g[y - 1] \in Int
    BY DEF SumsUp
  <2>4. s[x] = t[y]
    BY <2>1, <2>2 DEF SameStretch
  <2>5. f[x - 1] - f[a] = g[y - 1] - g[b]
    <3>1. a + (n - 1) = x - 1 /\ b + (n - 1) = y - 1
      BY <2>1, <2>2
    <3> QED BY <1>3, <3>1
  <2>6. f[x] - f[a] = g[y] - g[b]
    BY ONLY <1>1, <2>3, <2>4, <2>5
  <2> QED BY <2>1, <2>2, <2>6
<1>4. m \in S
  <2> HIDE DEF S
  <2>1. \A n \in 0 .. m : n \in S
    BY <1>2, <1>3, UpTo
  <2> QED BY <2>1
<1> QED BY <1>4

LEMMA SumsSame ==
  ASSUME NEW f, NEW s, NEW k \in Nat, SumsUp(f, s, k),
         NEW g, NEW t, NEW l \in Nat, SumsUp(g, t, l),
         NEW m \in Nat, m <= k, m <= l,
         \A j \in 1 .. m : s[j] = t[j]
  PROVE  f[m] = g[m]
<1>1. PICK a \in Nat : a = 0
  OBVIOUS
<1>2. a + m <= k /\ a + m <= l /\ SameStretch(s, a, t, a, m)
  BY <1>1 DEF SameStretch
<1>3. f[a + m] - f[a] = g[a + m] - g[a]
  BY <1>2, SumsAgree
<1>4. a + m = m /\ f[a] = 0 /\ g[a] = 0 /\ f[m] \in Int /\ g[m] \in Int
  BY <1>1 DEF SumsUp
<1> QED BY <1>3, <1>4

\* A stretch of opposite numbers in the opposite order has the opposite sum.
LEMMA SumsReversed ==
  ASSUME NEW f, NEW s, NEW k \in Nat, SumsUp(f, s, k),
         NEW g, NEW t, NEW l \in Nat, SumsUp(g, t, l),
         NEW m \in Nat, m <= k, m <= l,
         \A j \in 1 .. m : s[j] = -t[m + 1 - j]
  PROVE  f[m] = -g[m]
<1> DEFINE S == {n \in Nat : f[n] = g[m - n] - g[m]}
<1>1. g[m] \in Int /\ f[0] = 0 /\ g[0] = 0
  BY DEF SumsUp
<1>2. 0 \in S
  BY <1>1
<1>3. ASSUME NEW n \in 1 .. m, n - 1 \in S PROVE n \in S
  <2>1. PICK y \in 1 .. l : y = m + 1 - n
    OBVIOUS
  <2>2. f[n] = f[n - 1] + s[n] /\ g[y] = g[y - 1] + t[y]
        /\ t[y] \in Int /\ f[n - 1] \in Int /\ g[y - 1] \in Int
    BY DEF SumsUp
  <2>3. s[n] = -t[y]
    BY <2>1
  <2>4. f[n - 1] = g[y] - g[m]
    <3>1. m - (n - 1) = y
      BY <2>1
    <3> QED BY <1>3, <3>1
  <2>5. f[n] = g[y - 1] - g[m]
    BY ONLY <1>1, <2>2, <2>3, <2>4
  <2>6. y - 1 = m - n
    BY <2>1
  <2> QED BY <2>5, <2>6
<1>4. m \in S
  <2> HIDE DEF S
  <2>1. \A n \in 0 .. m : n \in S
    BY <1>2, <1>3, UpTo
  <2> QED BY <2>1
<1> QED BY <1>1, <1>4

-----------------------------------------------------------------------------
(* Points and lines.                                                       *)

Point == Int \X Int

LEMMA Wedges ==
  ASSUME NEW a \in Point, NEW b \in Point
  PROVE  /\ wedge(a, b) \in Int
         /\ wedge(b, a) = -wedge(a, b)
         /\ wedge(a, a) = 0
BY DEF Point, wedge

LEMMA CrossOf ==
  ASSUME NEW a \in Point, NEW b \in Point, NEW c \in Point
  PROVE  /\ cross(a, b, c) \in Int
         /\ cross(a, b, c) = wedge(a, b) + wedge(b, c) + wedge(c, a)
BY DEF Point, wedge, cross

LEMMA Parallel ==
  ASSUME NEW x1 \in Int, NEW x2 \in Int, NEW y1 \in Int, NEW y2 \in Int,
         NEW z1 \in Int, NEW z2 \in Int,
         x1 * y2 = x2 * y1, y1 * z2 = y2 * z1, y1 # 0 \/ y2 # 0
  PROVE  x1 * z2 = x2 * z1
<1>1. CASE y1 # 0
  <2>1. y1 * (x1 * z2) = y1 * (x2 * z1)
    <3>1. y1 * (x1 * z2) = x1 * (y1 * z2)
      OBVIOUS
    <3>2. x1 * (y2 * z1) = (x1 * y2) * z1
      OBVIOUS
    <3>3. (x2 * y1) * z1 = y1 * (x2 * z1)
      OBVIOUS
    <3> QED BY <3>1, <3>2, <3>3
  <2> DEFINE u == x1 * z2  v == x2 * z1
  <2>2. u \in Int /\ v \in Int
    OBVIOUS
  <2> HIDE DEF u, v
  <2>3. u = v
    BY <1>1, <2>1, <2>2 DEF u, v
  <2> QED BY <2>3 DEF u, v
<1>2. CASE y2 # 0
  <2>1. y2 * (x1 * z2) = y2 * (x2 * z1)
    <3>1. y2 * (x1 * z2) = (x1 * y2) * z2
      OBVIOUS
    <3>2. (x2 * y1) * z2 = x2 * (y1 * z2)
      OBVIOUS
    <3>3. x2 * (y2 * z1) = y2 * (x2 * z1)
      OBVIOUS
    <3> QED BY <3>1, <3>2, <3>3
  <2> DEFINE u == x1 * z2  v == x2 * z1
  <2>2. u \in Int /\ v \in Int
    OBVIOUS
  <2> HIDE DEF u, v
  <2>3. u = v
    BY <1>2, <2>1, <2>2 DEF u, v
  <2> QED BY <2>3 DEF u, v
<1> QED BY <1>1, <1>2

\* Three points on the line through two are on a line.
LEMMA OnOneLine ==
  ASSUME NEW u \in Point, NEW v \in Point, u # v,
         NEW a \in Point, NEW b \in Point, NEW c \in Point,
         cross(u, v, a) = 0, cross(u, v, b) = 0, cross(u, v, c) = 0
  PROVE  cross(a, b, c) = 0
<1> DEFINE d1 == v[1] - u[1]  d2 == v[2] - u[2]
           e1 == b[1] - a[1]  e2 == b[2] - a[2]
           f1 == c[1] - a[1]  f2 == c[2] - a[2]
<1>1. /\ d1 \in Int /\ d2 \in Int /\ e1 \in Int /\ e2 \in Int /\ f1 \in Int /\ f2 \in Int
  BY DEF Point
<1>2. d1 # 0 \/ d2 # 0
  BY DEF Point
<1> DEFINE a1 == a[1] - u[1]  a2 == a[2] - u[2]
           b1 == b[1] - u[1]  b2 == b[2] - u[2]
           c1 == c[1] - u[1]  c2 == c[2] - u[2]
<1>a. /\ a1 \in Int /\ a2 \in Int /\ b1 \in Int /\ b2 \in Int /\ c1 \in Int /\ c2 \in Int
      /\ e1 = b1 - a1 /\ e2 = b2 - a2 /\ f1 = c1 - a1 /\ f2 = c2 - a2
  BY DEF Point
<1>b. d1 * a2 - d2 * a1 = 0 /\ d1 * b2 - d2 * b1 = 0 /\ d1 * c2 - d2 * c1 = 0
  BY DEF cross
<1>3. e1 * d2 = e2 * d1
  <2> HIDE DEF d1, d2, e1, e2, f1, f2, a1, a2, b1, b2, c1, c2
  <2>1. d1 * (b2 - a2) = d1 * b2 - d1 * a2 /\ d2 * (b1 - a1) = d2 * b1 - d2 * a1
    BY <1>1, <1>a
  <2> QED BY <1>1, <1>a, <1>b, <2>1
<1>4. d1 * f2 = d2 * f1
  <2> HIDE DEF d1, d2, e1, e2, f1, f2, a1, a2, b1, b2, c1, c2
  <2>1. d1 * (c2 - a2) = d1 * c2 - d1 * a2 /\ d2 * (c1 - a1) = d2 * c1 - d2 * a1
    BY <1>1, <1>a
  <2> QED BY <1>1, <1>a, <1>b, <2>1
<1>5. e1 * f2 = e2 * f1
  <2> HIDE DEF d1, d2, e1, e2, f1, f2
  <2> QED BY <1>1, <1>2, <1>3, <1>4, Parallel
<1> QED BY <1>1, <1>5 DEF cross

LEMMA CrossTurned ==
  ASSUME NEW a \in Point, NEW b \in Point, NEW c \in Point
  PROVE  cross(b, c, a) = cross(a, b, c) /\ cross(a, b, a) = 0 /\ cross(a, b, b) = 0
         /\ cross(a, a, b) = 0
BY DEF Point, cross

\* The line through two points of a line is that line.
LEMMA SameLine ==
  ASSUME NEW u \in Point, NEW v \in Point,
         NEW a \in Point, NEW b \in Point, NEW c \in Point, a # b,
         cross(u, v, a) = 0, cross(u, v, b) = 0, cross(a, b, c) = 0
  PROVE  cross(u, v, c) = 0
<1>1. CASE u = v
  BY <1>1, CrossTurned
<1>2. CASE u # v
  <2>1. cross(u, v, u) = 0 /\ cross(u, v, v) = 0
    BY CrossTurned
  <2>2. cross(a, b, u) = 0 /\ cross(a, b, v) = 0
    BY <1>2, <2>1, OnOneLine
  <2> QED BY <2>2, OnOneLine
<1> QED BY <1>1, <1>2

-----------------------------------------------------------------------------
(* Areas.                                                                  *)

Terms(p) == [i \in DOMAIN p |-> wedge(p[i], After(p, i))]

LEMMA TermsOf ==
  ASSUME NEW p \in Seq(Point)
  PROVE  /\ \A i \in 1 .. Len(p) - 1 : Terms(p)[i] = wedge(p[i], p[i + 1])
         /\ Len(p) > 0 => Terms(p)[Len(p)] = wedge(p[Len(p)], p[1])
         /\ SumsUp(Sums(Terms(p)), Terms(p), Len(p))
         /\ area_twice(p) = Sums(Terms(p))[Len(p)]
         /\ area_twice(p) \in Int
<1>1. \A i \in 1 .. Len(p) : p[i] \in Point /\ After(p, i) \in Point
  BY DEF After
<1>2. \A i \in 1 .. Len(p) : wedge(p[i], After(p, i)) \in Int
  BY <1>1, Wedges
<1>3. Terms(p) \in Seq(Int) /\ Len(Terms(p)) = Len(p)
      /\ \A i \in 1 .. Len(p) : Terms(p)[i] = wedge(p[i], After(p, i))
  BY <1>2 DEF Terms
<1>4. SumsUp(Sums(Terms(p)), Terms(p), Len(p))
  BY <1>3, SumsOf
<1>5. area_twice(p) = Sums(Terms(p))[Len(p)]
  BY <1>3 DEF area_twice, Total, Terms
<1>6. \A i \in 1 .. Len(p) - 1 : After(p, i) = p[i + 1]
  BY DEF After
<1>7. Len(p) > 0 => After(p, Len(p)) = p[1]
  BY DEF After
<1>8. Len(p) \in Nat
  OBVIOUS
<1>9. \A i \in 1 .. Len(p) - 1 : Terms(p)[i] = wedge(p[i], p[i + 1])
  BY <1>3, <1>6, <1>8
<1>10. Len(p) > 0 => Terms(p)[Len(p)] = wedge(p[Len(p)], p[1])
  BY <1>3, <1>7, <1>8
<1>11. area_twice(p) \in Int
  BY <1>4, <1>5, <1>8 DEF SumsUp
<1> QED BY <1>4, <1>5, <1>9, <1>10, <1>11

LEMMA AreaReversed ==
  ASSUME NEW p \in Seq(Point), NEW q \in Seq(Point), NEW n \in Nat,
         Len(p) = n, Len(q) = n, \A i \in 1 .. n : q[i] = p[n - i + 1]
  PROVE  area_twice(q) = -area_twice(p)
<1> DEFINE f == Sums(Terms(q))  g == Sums(Terms(p))
<1>1. \A i \in 1 .. n : q[i] \in Point /\ p[i] \in Point
  OBVIOUS
<1>2. SumsUp(f, Terms(q), n) /\ SumsUp(g, Terms(p), n)
      /\ area_twice(q) = f[n] /\ area_twice(p) = g[n]
  BY TermsOf
<1> HIDE DEF f, g
<1>3. CASE n = 0
  BY <1>2, <1>3 DEF SumsUp
<1>4. CASE n > 0
  <2>1. ASSUME NEW j \in 1 .. n - 1 PROVE Terms(q)[j] = -Terms(p)[n - 1 + 1 - j]
    <3>1. PICK i \in 1 .. n - 1 : i = n - j
      OBVIOUS
    <3>2. Terms(q)[j] = wedge(q[j], q[j + 1]) /\ Terms(p)[i] = wedge(p[i], p[i + 1])
      BY TermsOf
    <3>3. j \in 1 .. n /\ j + 1 \in 1 .. n /\ i \in 1 .. n /\ i + 1 \in 1 .. n
          /\ n - j + 1 = i + 1 /\ n - (j + 1) + 1 = i /\ n - 1 + 1 - j = i
      BY <3>1
    <3>4. q[j] = p[i + 1] /\ q[j + 1] = p[i]
      <4>1. q[j] = p[n - j + 1] /\ q[j + 1] = p[n - (j + 1) + 1]
        BY <3>3
      <4> QED BY <3>3, <4>1
    <3>5. wedge(p[i + 1], p[i]) = -wedge(p[i], p[i + 1])
      <4>1. p[i + 1] \in Point /\ p[i] \in Point
        BY <1>1, <3>3
      <4> QED BY <4>1, Wedges
    <3>6. Terms(q)[j] = -Terms(p)[i]
      BY <3>2, <3>4, <3>5
    <3> QED BY <3>3, <3>6
  <2>2. f[n - 1] = -g[n - 1]
    BY <1>2, <1>4, <2>1, SumsReversed
  <2>3. Terms(q)[n] = -Terms(p)[n]
    <3>1. Terms(q)[n] = wedge(q[n], q[1]) /\ Terms(p)[n] = wedge(p[n], p[1])
      BY <1>4, TermsOf
    <3>2. q[n] = p[1] /\ q[1] = p[n]
      <4>1. n \in 1 .. n /\ 1 \in 1 .. n /\ n - n + 1 = 1 /\ n - 1 + 1 = n
        BY <1>4
      <4>2. q[n] = p[n - n + 1] /\ q[1] = p[n - 1 + 1]
        BY <4>1
      <4> QED BY <4>1, <4>2
    <3> QED BY <1>1, <1>4, <3>1, <3>2, Wedges
  <2>4. f[n] = f[n - 1] + Terms(q)[n] /\ g[n] = g[n - 1] + Terms(p)[n]
        /\ g[n - 1] \in Int /\ Terms(p)[n] \in Int
    BY <1>2, <1>4 DEF SumsUp
  <2> QED BY <1>2, <2>2, <2>3, <2>4
<1> QED BY <1>3, <1>4

\* A point more, at the end.
LEMMA AreaLonger ==
  ASSUME NEW s \in Seq(Point), NEW q \in Seq(Point), NEW n \in Nat, n > 0,
         Len(s) = n, Len(q) = n + 1, \A i \in 1 .. n : q[i] = s[i]
  PROVE  area_twice(q) = area_twice(s) + cross(s[n], q[n + 1], s[1])
<1> DEFINE f == Sums(Terms(q))  g == Sums(Terms(s))
<1>1. (\A i \in 1 .. n : s[i] \in Point) /\ q[n + 1] \in Point
  OBVIOUS
<1>2. /\ SumsUp(f, Terms(q), n + 1) /\ SumsUp(g, Terms(s), n)
      /\ area_twice(q) = f[n + 1] /\ area_twice(s) = g[n]
  BY TermsOf
<1> HIDE DEF f, g
<1>3. ASSUME NEW j \in 1 .. n - 1 PROVE Terms(q)[j] = Terms(s)[j]
  <2>1. Terms(q)[j] = wedge(q[j], q[j + 1])
    <3>1. j \in 1 .. n + 1 - 1
      OBVIOUS
    <3> QED BY <3>1, TermsOf
  <2>2. Terms(s)[j] = wedge(s[j], s[j + 1])
    BY TermsOf
  <2>3. j + 1 \in 1 .. n /\ j \in 1 .. n
    OBVIOUS
  <2> QED BY <2>1, <2>2, <2>3
<1>4. Terms(q)[n] = wedge(s[n], q[n + 1]) /\ Terms(q)[n + 1] = wedge(q[n + 1], s[1])
      /\ Terms(s)[n] = wedge(s[n], s[1])
  <2>1. Terms(q)[n] = wedge(q[n], q[n + 1])
    <3>1. n \in 1 .. Len(q) - 1
      OBVIOUS
    <3> QED BY <3>1, TermsOf
  <2>2. Terms(q)[n + 1] = wedge(q[n + 1], q[1])
    BY TermsOf
  <2>3. Terms(s)[n] = wedge(s[n], s[1])
    BY TermsOf
  <2> QED BY <2>1, <2>2, <2>3
<1>5. f[n - 1] = g[n - 1]
  <2>1. PICK k \in Nat, m \in Nat : k = n + 1 /\ m = n - 1
    OBVIOUS
  <2>2. SumsUp(f, Terms(q), k) /\ SumsUp(g, Terms(s), n) /\ m <= k /\ m <= n
    BY <1>2, <2>1
  <2>3. \A j \in 1 .. m : Terms(q)[j] = Terms(s)[j]
    BY <1>3, <2>1
  <2>4. f[m] = g[m]
    BY <2>2, <2>3, SumsSame
  <2> QED BY <2>1, <2>4
<1>6. /\ f[n] = f[n - 1] + Terms(q)[n] /\ f[n + 1] = f[n] + Terms(q)[n + 1]
      /\ g[n] = g[n - 1] + Terms(s)[n] /\ g[n - 1] \in Int
  <2>1. PICK m \in 1 .. n + 1 : m = n + 1
    OBVIOUS
  <2>2. f[m] = f[m - 1] + Terms(q)[m] /\ f[n] = f[n - 1] + Terms(q)[n]
        /\ g[n] = g[n - 1] + Terms(s)[n] /\ g[n - 1] \in Int
    BY <1>2 DEF SumsUp
  <2> QED BY <2>1, <2>2
<1>7. cross(s[n], q[n + 1], s[1]) = wedge(s[n], q[n + 1]) + wedge(q[n + 1], s[1]) + wedge(s[1], s[n])
      /\ wedge(s[1], s[n]) = -wedge(s[n], s[1])
      /\ wedge(s[n], q[n + 1]) \in Int /\ wedge(q[n + 1], s[1]) \in Int /\ wedge(s[n], s[1]) \in Int
  <2>1. PICK x \in Point, u \in Point, v \in Point : x = q[n + 1] /\ u = s[n] /\ v = s[1]
    BY <1>1
  <2>2. /\ cross(u, x, v) = wedge(u, x) + wedge(x, v) + wedge(v, u)
        /\ wedge(v, u) = -wedge(u, v)
        /\ wedge(u, x) \in Int /\ wedge(x, v) \in Int /\ wedge(u, v) \in Int
    BY CrossOf, Wedges
  <2> QED BY <2>1, <2>2
<1> QED BY ONLY <1>2, <1>4, <1>5, <1>6, <1>7

\* A polygon that starts k vertices later.
LEMMA AreaTurned ==
  ASSUME NEW p \in Seq(Point), NEW q \in Seq(Point), NEW n \in Nat,
         Len(p) = n, Len(q) = n, NEW k \in 1 .. n - 1,
         \A j \in 1 .. n - k : q[j] = p[k + j],
         \A j \in 1 .. k : q[n - k + j] = p[j]
  PROVE  area_twice(q) = area_twice(p)
<1> DEFINE f == Sums(Terms(p))  g == Sums(Terms(q))
<1>1. SumsUp(f, Terms(p), n) /\ SumsUp(g, Terms(q), n)
      /\ area_twice(p) = f[n] /\ area_twice(q) = g[n]
  BY TermsOf
<1> HIDE DEF f, g
<1>t. /\ \A j \in 1 .. n - 1 : Terms(p)[j] = wedge(p[j], p[j + 1]) /\ Terms(q)[j] = wedge(q[j], q[j + 1])
      /\ Terms(p)[n] = wedge(p[n], p[1]) /\ Terms(q)[n] = wedge(q[n], q[1])
  <2>1. Len(p) > 0 /\ Len(q) > 0
    OBVIOUS
  <2> QED BY <2>1, TermsOf
<1>2. PICK l \in 1 .. n - 1 : l = n - k
  OBVIOUS
<1>3. k \in Nat /\ l \in Nat /\ l + k = n /\ k + l = n /\ 0 \in Nat /\ 0 + l = l /\ 0 + k = k
  BY <1>2
<1>4. q[1] = p[k + 1] /\ q[l + 1] = p[1]
  <2>1. 1 \in 1 .. n - k /\ 1 \in 1 .. k
    OBVIOUS
  <2> QED BY <1>2, <2>1
<1>5. ASSUME NEW j \in 1 .. l PROVE Terms(q)[0 + j] = Terms(p)[k + j]
  <2>1. CASE j = l
    <3>1. q[l] = p[k + l]
      <4>1. l \in 1 .. n - k
        BY <1>2
      <4> QED BY <4>1
    <3>2. Terms(q)[l] = wedge(q[l], q[l + 1]) /\ Terms(p)[n] = wedge(p[n], p[1])
      BY <1>t
    <3> QED BY <1>3, <1>4, <2>1, <3>1, <3>2
  <2>2. CASE j # l
    <3>1. PICK i \in 1 .. n - 1 : i = k + j
      BY <1>2, <2>2
    <3>2. Terms(q)[j] = wedge(q[j], q[j + 1]) /\ Terms(p)[i] = wedge(p[i], p[i + 1])
      <4>1. j \in 1 .. n - 1
        BY <1>2
      <4> QED BY <1>t, <4>1
    <3>3. j \in 1 .. n - k /\ j + 1 \in 1 .. n - k /\ k + (j + 1) = i + 1 /\ 0 + j = j
      BY <1>2, <2>2, <3>1
    <3> QED BY <3>1, <3>2, <3>3
  <2> QED BY <2>1, <2>2
<1>6. ASSUME NEW j \in 1 .. k PROVE Terms(q)[l + j] = Terms(p)[0 + j]
  <2>1. CASE j = k
    <3>1. q[n] = p[k]
      <4>1. k \in 1 .. k /\ n - k + k = n
        OBVIOUS
      <4>2. q[n - k + k] = p[k]
        BY <4>1
      <4> QED BY <4>1, <4>2
    <3>2. Terms(q)[n] = wedge(q[n], q[1]) /\ Terms(p)[k] = wedge(p[k], p[k + 1])
      BY <1>t
    <3> QED BY <1>3, <1>4, <2>1, <3>1, <3>2
  <2>2. CASE j # k
    <3>1. PICK i \in 1 .. n - 1 : i = l + j
      BY <1>2, <2>2
    <3>2. Terms(q)[i] = wedge(q[i], q[i + 1]) /\ Terms(p)[j] = wedge(p[j], p[j + 1])
      <4>1. j \in 1 .. n - 1
        OBVIOUS
      <4> QED BY <1>t, <4>1
    <3>3. j + 1 \in 1 .. k /\ n - k + j = i /\ n - k + (j + 1) = i + 1 /\ 0 + j = j
      BY <1>2, <2>2, <3>1
    <3>4. q[n - k + j] = p[j] /\ q[n - k + (j + 1)] = p[j + 1]
      BY <3>3
    <3> QED BY <3>1, <3>2, <3>3, <3>4
  <2> QED BY <2>1, <2>2
<1>7. SameStretch(Terms(q), 0, Terms(p), k, l) /\ SameStretch(Terms(q), l, Terms(p), 0, k)
  BY <1>5, <1>6 DEF SameStretch
<1>8. g[0 + l] - g[0] = f[k + l] - f[k]
  BY <1>1, <1>3, <1>7, SumsAgree
<1>9. g[l + k] - g[l] = f[0 + k] - f[0]
  BY <1>1, <1>3, <1>7, SumsAgree
<1>10. g[0] = 0 /\ f[0] = 0 /\ g[l] \in Int /\ f[k] \in Int /\ g[n] \in Int /\ f[n] \in Int
  BY <1>1 DEF SumsUp
<1>11. g[l] - 0 = f[n] - f[k] /\ g[n] - g[l] = f[k] - 0
  BY <1>3, <1>8, <1>9, <1>10
<1>12. g[n] = f[n]
  <2>1. PICK gn \in Int, gl \in Int, fn \in Int, fk \in Int :
          gn = g[n] /\ gl = g[l] /\ fn = f[n] /\ fk = f[k]
    BY <1>10
  <2>2. /\ gn \in Int /\ gl \in Int /\ fn \in Int /\ fk \in Int
        /\ gl - 0 = fn - fk /\ gn - gl = fk - 0
    BY <1>11, <2>1
  <2>3. gn = fn
    BY ONLY <2>2
  <2> QED BY <2>1, <2>3
<1> QED BY <1>1, <1>12

\* The vertex i less.
LEMMA AreaShorter ==
  ASSUME NEW p \in Seq(Point), NEW q \in Seq(Point), NEW n \in Nat, n > 2,
         Len(p) = n, Len(q) = n - 1, NEW i \in 1 .. n,
         \A j \in 1 .. i - 1 : q[j] = p[j],
         \A j \in i .. n - 1 : q[j] = p[j + 1]
  PROVE  area_twice(q) = area_twice(p) - cross(Before(p, i), p[i], After(p, i))
<1> DEFINE f == Sums(Terms(p))  g == Sums(Terms(q))
<1>1. PICK m \in 1 .. n - 1 : m = n - 1
  OBVIOUS
<1>2. SumsUp(f, Terms(p), n) /\ SumsUp(g, Terms(q), m) /\ m \in Nat /\ n = m + 1
      /\ area_twice(p) = f[n] /\ area_twice(q) = g[m]
  BY <1>1, TermsOf
<1> HIDE DEF f, g
<1>t. /\ \A j \in 1 .. n - 1 : Terms(p)[j] = wedge(p[j], p[j + 1])
      /\ \A j \in 1 .. m - 1 : Terms(q)[j] = wedge(q[j], q[j + 1])
      /\ Terms(p)[n] = wedge(p[n], p[1]) /\ Terms(q)[m] = wedge(q[m], q[1])
  <2>1. Len(q) = m /\ Len(q) > 0 /\ Len(p) > 0
    BY <1>1
  <2> QED BY <2>1, TermsOf
<1>3. PICK x \in Point, u \in Point, v \in Point :
        x = p[i] /\ u = Before(p, i) /\ v = After(p, i)
  BY DEF Before, After
<1>4. /\ cross(u, x, v) = wedge(u, x) + wedge(x, v) + wedge(v, u)
      /\ wedge(v, u) = -wedge(u, v)
      /\ wedge(u, x) \in Int /\ wedge(x, v) \in Int /\ wedge(u, v) \in Int
  BY CrossOf, Wedges
<1>5. CASE i = n
  <2>1. area_twice(p) = area_twice(q) + cross(q[m], p[m + 1], q[1])
    <3>1. \A j \in 1 .. m : p[j] = q[j]
      BY <1>1, <1>5
    <3> QED BY <1>1, <1>2, <3>1, AreaLonger
  <2>2. q[m] = u /\ q[1] = v /\ p[m + 1] = x
    <3>1. u = p[n - 1] /\ v = p[1]
      BY <1>3, <1>5 DEF Before, After
    <3> QED BY <1>1, <1>3, <1>5, <3>1
  <2>3. area_twice(q) \in Int /\ cross(u, x, v) \in Int
    BY TermsOf, CrossOf
  <2> QED BY <1>3, <2>1, <2>2, <2>3
<1>6. CASE i = 1
  <2>1. PICK l \in Nat : l = n - 2
    OBVIOUS
  <2>2. u = p[n] /\ v = p[2] /\ x = p[1] /\ q[m] = p[n] /\ q[1] = p[2]
    <3>1. u = p[n] /\ v = p[2]
      BY <1>3, <1>6 DEF Before, After
    <3>2. m \in i .. n - 1 /\ 1 \in i .. n - 1 /\ m + 1 = n /\ 1 + 1 = 2
      BY <1>1, <1>6
    <3> QED BY <1>3, <1>6, <3>1, <3>2
  <2>3. ASSUME NEW j \in 1 .. l PROVE Terms(q)[0 + j] = Terms(p)[1 + j]
    <3>1. PICK k \in 1 .. n - 1 : k = 1 + j
      BY <2>1
    <3>2. Terms(q)[j] = wedge(q[j], q[j + 1]) /\ Terms(p)[k] = wedge(p[k], p[k + 1])
      <4>1. j \in 1 .. m - 1
        BY <1>1, <2>1
      <4> QED BY <1>t, <4>1
    <3>3. j \in i .. n - 1 /\ k \in i .. n - 1 /\ j + 1 = k /\ 0 + j = j
      BY <1>6, <2>1, <3>1
    <3> QED BY <3>1, <3>2, <3>3
  <2>4. Terms(q)[m] = wedge(u, v) /\ Terms(p)[1] = wedge(x, v) /\ Terms(p)[n] = wedge(u, x)
    <3>1. 1 \in 1 .. n - 1 /\ 1 + 1 = 2
      OBVIOUS
    <3> QED BY <1>t, <2>2, <3>1
  <2>5. g[0 + l] - g[0] = f[1 + l] - f[1]
    <3>1. SameStretch(Terms(q), 0, Terms(p), 1, l)
      BY <2>3 DEF SameStretch
    <3>2. 0 \in Nat /\ 1 \in Nat /\ 0 + l <= m /\ 1 + l <= n
      BY <1>1, <2>1
    <3> QED BY <1>2, <3>1, <3>2, SumsAgree
  <2>6. /\ f[0] = 0 /\ g[0] = 0 /\ f[1] = f[0] + Terms(p)[1]
        /\ f[n] = f[m] + Terms(p)[n] /\ g[m] = g[l] + Terms(q)[m]
        /\ f[m] \in Int /\ g[l] \in Int
    <3>1. 1 \in 1 .. n /\ n \in 1 .. n /\ m \in 1 .. m /\ 1 - 1 = 0 /\ n - 1 = m /\ m - 1 = l
          /\ m \in 0 .. n /\ l \in 0 .. m
      BY <1>1, <2>1
    <3>2. /\ f[0] = 0 /\ g[0] = 0 /\ f[1] = f[1 - 1] + Terms(p)[1]
          /\ f[n] = f[n - 1] + Terms(p)[n] /\ g[m] = g[m - 1] + Terms(q)[m]
          /\ f[m] \in Int /\ g[l] \in Int
      BY <1>2, <3>1 DEF SumsUp
    <3> QED BY <3>1, <3>2
  <2>7. 0 + l = l /\ 1 + l = m
    BY <1>1, <2>1
  <2> QED BY <1>2, <1>3, <1>4, <2>4, <2>5, <2>6, <2>7
<1>7. CASE i # 1 /\ i # n
  <2>1. PICK k \in Nat, l \in Nat, h \in Nat : k = i - 2 /\ l = n - i /\ h = i - 1
    BY <1>7
  <2>2. u = p[h] /\ v = p[i + 1] /\ q[h] = u /\ q[i] = v
    <3>1. u = p[h] /\ v = p[i + 1]
      BY <1>3, <1>7, <2>1 DEF Before, After
    <3>2. h \in 1 .. i - 1 /\ i \in i .. n - 1
      BY <1>7, <2>1
    <3> QED BY <3>1, <3>2
  <2>3. ASSUME NEW j \in 1 .. k PROVE Terms(q)[j] = Terms(p)[j]
    <3>1. Terms(q)[j] = wedge(q[j], q[j + 1]) /\ Terms(p)[j] = wedge(p[j], p[j + 1])
      <4>1. j \in 1 .. m - 1 /\ j \in 1 .. n - 1
        BY <1>1, <2>1
      <4> QED BY <1>t, <4>1
    <3>2. j \in 1 .. i - 1 /\ j + 1 \in 1 .. i - 1
      BY <2>1
    <3> QED BY <3>1, <3>2
  <2>4. ASSUME NEW j \in 1 .. l PROVE Terms(q)[h + j] = Terms(p)[i + j]
    <3>1. PICK a \in Nat, b \in Nat : a = h + j /\ b = i + j
      BY <2>1
    <3>2. a \in i .. n - 1 /\ b = a + 1 /\ b \in 1 .. n
      BY <2>1, <3>1
    <3>3. CASE j = l
      <4>1. a = m /\ b = n /\ 1 \in 1 .. i - 1
        BY <1>1, <1>7, <2>1, <3>1, <3>3
      <4>2. Terms(q)[m] = wedge(q[m], q[1]) /\ Terms(p)[n] = wedge(p[n], p[1])
        BY <1>t
      <4> QED BY <3>1, <3>2, <4>1, <4>2
    <3>4. CASE j # l
      <4>1. a + 1 \in i .. n - 1 /\ a \in 1 .. m - 1 /\ b \in 1 .. n - 1 /\ a + 1 = b
        BY <1>1, <2>1, <3>1, <3>2, <3>4
      <4>2. Terms(q)[a] = wedge(q[a], q[a + 1]) /\ Terms(p)[b] = wedge(p[b], p[b + 1])
        BY <1>t, <4>1
      <4>3. q[a] = p[b] /\ q[a + 1] = p[b + 1]
        BY <3>2, <4>1
      <4> QED BY <3>1, <4>2, <4>3
    <3> QED BY <3>3, <3>4
  <2>5. Terms(q)[h] = wedge(u, v) /\ Terms(p)[h] = wedge(u, x) /\ Terms(p)[i] = wedge(x, v)
    <3>1. h \in 1 .. m - 1 /\ h \in 1 .. n - 1 /\ i \in 1 .. n - 1 /\ h + 1 = i
      BY <1>1, <1>7, <2>1
    <3>2. Terms(q)[h] = wedge(q[h], q[h + 1]) /\ Terms(p)[h] = wedge(p[h], p[h + 1])
          /\ Terms(p)[i] = wedge(p[i], p[i + 1])
      BY <1>t, <3>1
    <3> QED BY <1>3, <2>2, <3>1, <3>2
  <2>6. g[k] = f[k]
    <3>1. k <= m /\ k <= n
      BY <1>1, <2>1
    <3> QED BY <1>2, <2>3, <3>1, SumsSame
  <2>7. g[h + l] - g[h] = f[i + l] - f[i]
    <3>1. SameStretch(Terms(q), h, Terms(p), i, l)
      BY <2>4 DEF SameStretch
    <3>2. h + l <= m /\ i + l <= n /\ i \in Nat
      BY <1>1, <2>1
    <3> QED BY <1>2, <2>1, <3>1, <3>2, SumsAgree
  <2>8. /\ g[h] = g[k] + Terms(q)[h]
        /\ f[h] = f[k] + Terms(p)[h] /\ f[i] = f[h] + Terms(p)[i]
        /\ f[k] \in Int /\ f[n] \in Int /\ g[m] \in Int
    <3>1. h \in 1 .. m /\ h \in 1 .. n /\ i \in 1 .. n /\ h - 1 = k /\ i - 1 = h
          /\ k \in 0 .. n /\ n \in 0 .. n /\ m \in 0 .. m
      BY <1>1, <1>7, <2>1
    <3>2. /\ g[h] = g[h - 1] + Terms(q)[h]
          /\ f[h] = f[h - 1] + Terms(p)[h] /\ f[i] = f[i - 1] + Terms(p)[i]
          /\ f[k] \in Int /\ f[n] \in Int /\ g[m] \in Int
      BY <1>2, <3>1 DEF SumsUp
    <3> QED BY <3>1, <3>2
  <2>9. h + l = m /\ i + l = n
    BY <1>1, <2>1
  <2>12. g[m] - g[h] = f[n] - f[i]
    BY <2>7, <2>9
  <2>10. /\ f[k] \in Int /\ wedge(u, v) \in Int /\ wedge(u, x) \in Int /\ wedge(x, v) \in Int
         /\ f[n] \in Int /\ g[m] \in Int
         /\ g[m] - (f[k] + wedge(u, v)) = f[n] - (f[k] + wedge(u, x) + wedge(x, v))
    BY <1>4, <2>5, <2>6, <2>8, <2>12
  <2>11. g[m] = f[n] - (wedge(u, x) + wedge(x, v) + (-wedge(u, v)))
    <3>1. PICK a \in Int, b \in Int, c \in Int, d \in Int, e \in Int, w \in Int :
            a = g[m] /\ b = f[k] /\ c = wedge(u, v) /\ d = f[n] /\ e = wedge(u, x) /\ w = wedge(x, v)
      BY ONLY <2>10
    <3>2. /\ a \in Int /\ b \in Int /\ c \in Int /\ d \in Int /\ e \in Int /\ w \in Int
          /\ a - (b + c) = d - (b + e + w)
      BY <2>10, <3>1
    <3>3. a = d - (e + w + (-c))
      BY ONLY <3>2
    <3> QED BY <3>1, <3>3
  <2> QED BY <1>2, <1>3, <1>4, <2>11
<1> QED BY <1>5, <1>6, <1>7

LEMMA ReverseKeeps ==
  ASSUME NEW p \in Seq(Point)
  PROVE  Reverse(p) \in Seq(Point) /\ area_twice(Reverse(p)) = -area_twice(p)
<1>1. PICK q : q = Reverse(p)
  OBVIOUS
<1>2. q \in Seq(Point) /\ Len(q) = Len(p) /\ Len(p) \in Nat
      /\ \A i \in 1 .. Len(p) : q[i] = p[Len(p) - i + 1]
  BY <1>1 DEF Reverse
<1> QED BY <1>1, <1>2, AreaReversed

LEMMA Stretch ==
  ASSUME NEW p \in Seq(Point), NEW a \in Nat, NEW b \in Nat, a + b <= Len(p)
  PROVE  /\ SubSeq(p, a + 1, a + b) \in Seq(Point) /\ Len(SubSeq(p, a + 1, a + b)) = b
         /\ \A j \in 1 .. b : SubSeq(p, a + 1, a + b)[j] = p[a + j]
<1>1. PICK m \in Int, n \in Int : m = a + 1 /\ n = a + b
  OBVIOUS
<1>2. \A i \in m .. n : p[i] \in Point
  <2> TAKE i \in m .. n
  <2>1. i \in 1 .. Len(p)
    BY <1>1
  <2> QED BY <2>1
<1>3. /\ SubSeq(p, m, n) \in Seq(Point)
      /\ Len(SubSeq(p, m, n)) = IF m <= n THEN n - m + 1 ELSE 0
      /\ \A i \in 1 .. n - m + 1 : SubSeq(p, m, n)[i] = p[m + i - 1]
  BY <1>2, SubSeqProperties
<1>4. n - m + 1 = b /\ (m <= n <=> b > 0) /\ \A j \in 1 .. b : m + j - 1 = a + j
  BY <1>1
<1>5. Len(SubSeq(p, m, n)) = b
  BY <1>3, <1>4
<1>6. \A j \in 1 .. b : SubSeq(p, m, n)[j] = p[a + j]
  BY <1>3, <1>4
<1> QED BY <1>1, <1>3, <1>5, <1>6

\* q is two stretches of p, one after the other.
Parts(q, p, a, b, c, d) == q = SubSeq(p, a + 1, a + b) \o SubSeq(p, c + 1, c + d)

LEMMA TwoParts ==
  ASSUME NEW p \in Seq(Point), NEW n \in Nat, Len(p) = n,
         NEW a \in Nat, NEW b \in Nat, a + b <= n, NEW c \in Nat, NEW d \in Nat, c + d <= n,
         NEW q, Parts(q, p, a, b, c, d)
  PROVE  /\ q \in Seq(Point) /\ Len(q) = b + d
         /\ \A j \in 1 .. b : q[j] = p[a + j]
         /\ SameStretch(q, b, p, c, d)
<1>1. PICK u, v : u = SubSeq(p, a + 1, a + b) /\ v = SubSeq(p, c + 1, c + d) /\ q = u \o v
  BY DEF Parts
<1>2. /\ u \in Seq(Point) /\ Len(u) = b /\ \A j \in 1 .. b : u[j] = p[a + j]
      /\ v \in Seq(Point) /\ Len(v) = d /\ \A j \in 1 .. d : v[j] = p[c + j]
  <2>1. a + b <= Len(p) /\ c + d <= Len(p)
    OBVIOUS
  <2>2. u \in Seq(Point) /\ Len(u) = b /\ \A j \in 1 .. b : u[j] = p[a + j]
    BY ONLY <1>1, <2>1, Stretch
  <2>3. v \in Seq(Point) /\ Len(v) = d /\ \A j \in 1 .. d : v[j] = p[c + j]
    BY ONLY <1>1, <2>1, Stretch
  <2> QED BY <2>2, <2>3
<1>3. /\ q \in Seq(Point) /\ Len(q) = b + d
      /\ \A i \in 1 .. b + d : q[i] = IF i <= b THEN u[i] ELSE v[i - b]
  <2>1. /\ u \o v \in Seq(Point) /\ Len(u \o v) = Len(u) + Len(v)
        /\ \A i \in 1 .. Len(u) + Len(v) : (u \o v)[i] = IF i <= Len(u) THEN u[i] ELSE v[i - Len(u)]
    BY ONLY <1>2, ConcatProperties
  <2> QED BY <1>1, <1>2, <2>1
<1>4. \A j \in 1 .. b : q[j] = u[j]
  BY <1>3
<1>5. \A j \in 1 .. d : q[b + j] = v[j]
  <2> TAKE j \in 1 .. d
  <2>1. PICK i \in 1 .. b + d : i = b + j
    OBVIOUS
  <2>2. ~(i <= b) /\ i - b = j
    BY <2>1
  <2>3. q[i] = v[i - b]
    BY <1>3, <2>2
  <2> QED BY <2>1, <2>2, <2>3
<1>6. \A j \in 1 .. b : q[j] = p[a + j]
  BY <1>2, <1>4
<1>7. \A j \in 1 .. d : q[b + j] = p[c + j]
  BY <1>2, <1>5
<1> QED BY <1>3, <1>6, <1>7 DEF SameStretch

LEMMA EarTaken ==
  ASSUME NEW p \in Seq(Point), NEW n \in Nat, Len(p) = n, n > 2, NEW i \in 1 .. n
  PROVE  /\ RemoveAt(p, i) \in Seq(Point) /\ Len(RemoveAt(p, i)) = n - 1
         /\ area_twice(RemoveAt(p, i)) = area_twice(p) - cross(Before(p, i), p[i], After(p, i))
<1>1. PICK h \in Nat, l \in Nat, o \in Nat, k \in Nat : h = i - 1 /\ l = n - i /\ o = 0 /\ k = i
  OBVIOUS
<1>2. PICK q : Parts(q, p, o, h, k, l)
  BY DEF Parts
<1>3. q = RemoveAt(p, i)
  <2>1. o + 1 = 1 /\ o + h = i - 1 /\ k + l = n
    BY <1>1
  <2> QED BY <1>1, <1>2, <2>1 DEF RemoveAt, Parts
<1>4. /\ q \in Seq(Point) /\ Len(q) = h + l
      /\ \A j \in 1 .. h : q[j] = p[j]
      /\ \A j \in 1 .. l : q[h + j] = p[i + j]
  <2>1. o + h <= n /\ k + l <= n
    BY <1>1
  <2>2. /\ q \in Seq(Point) /\ Len(q) = h + l
        /\ \A j \in 1 .. h : q[j] = p[o + j]
        /\ SameStretch(q, h, p, k, l)
    BY <1>2, <2>1, TwoParts
  <2> QED BY <1>1, <2>2 DEF SameStretch
<1>5. Len(q) = n - 1
  BY <1>1, <1>4
<1>6. \A j \in 1 .. i - 1 : q[j] = p[j]
  BY <1>1, <1>4
<1>7. \A j \in i .. n - 1 : q[j] = p[j + 1]
  <2> TAKE j \in i .. n - 1
  <2>1. PICK m \in 1 .. l : m = j - h
    BY <1>1
  <2>2. h + m = j /\ i + m = j + 1
    BY <1>1, <2>1
  <2> QED BY <1>4, <2>2
<1> QED BY <1>3, <1>4, <1>5, <1>6, <1>7, AreaShorter

LEMMA LeastVertex ==
  ASSUME NEW p \in Seq(Point), Len(p) > 0
  PROVE  \E s \in DOMAIN p : \A i \in DOMAIN p : Before2(p[s], p[i])
<1> DEFINE S == {m \in Nat : m = 0 \/ \E s \in 1 .. m : \A i \in 1 .. m : Before2(p[s], p[i])}
<1>0. Len(p) \in Nat /\ DOMAIN p = 1 .. Len(p) /\ \A i \in 1 .. Len(p) : p[i] \in Point
  OBVIOUS
<1>1. /\ \A a \in Point : Before2(a, a)
      /\ \A a, b \in Point : Before2(a, b) \/ Before2(b, a)
      /\ \A a, b, c \in Point : Before2(a, b) /\ Before2(b, c) => Before2(a, c)
  BY DEF Point, Before2
<1>2. ASSUME NEW m \in 1 .. Len(p), m - 1 \in S PROVE m \in S
  <2>1. CASE m = 1
    <3>1. 1 \in 1 .. m /\ \A i \in 1 .. m : Before2(p[1], p[i])
      BY <1>0, <1>1, <2>1
    <3> QED BY <3>1
  <2>2. CASE m > 1
    <3>1. PICK s \in 1 .. m - 1 : \A i \in 1 .. m - 1 : Before2(p[s], p[i])
      BY <1>2, <2>2
    <3>2. p[s] \in Point /\ p[m] \in Point /\ \A i \in 1 .. m - 1 : p[i] \in Point
      BY <1>0
    <3>3. CASE Before2(p[s], p[m])
      <4>1. s \in 1 .. m /\ \A i \in 1 .. m : Before2(p[s], p[i])
        BY <3>1, <3>3
      <4> QED BY <4>1
    <3>4. CASE ~Before2(p[s], p[m])
      <4>1. Before2(p[m], p[s]) /\ Before2(p[m], p[m])
        BY <1>1, <3>2, <3>4
      <4>2. \A i \in 1 .. m - 1 : Before2(p[m], p[i])
        BY <1>1, <3>1, <3>2, <4>1
      <4>3. m \in 1 .. m /\ \A i \in 1 .. m : Before2(p[m], p[i])
        <5>1. \A i \in 1 .. m : i = m \/ i \in 1 .. m - 1
          OBVIOUS
        <5> QED BY <4>1, <4>2, <5>1
      <4> QED BY <4>3
    <3> QED BY <3>3, <3>4
  <2> QED BY <2>1, <2>2
<1>3. Len(p) \in S
  <2> HIDE DEF S
  <2>1. 0 \in S
    BY DEF S
  <2>2. \A m \in 0 .. Len(p) : m \in S
    BY <1>0, <1>2, <2>1, UpTo
  <2> QED BY <1>0, <2>2
<1>4. PICK s \in 1 .. Len(p) : \A i \in 1 .. Len(p) : Before2(p[s], p[i])
  BY <1>0, <1>3
<1> QED BY <1>0, <1>4

LEMMA StartKeeps ==
  ASSUME NEW p \in Seq(Point), NEW n \in Nat, Len(p) = n, n > 0
  PROVE  /\ from_least(p) \in Seq(Point) /\ Len(from_least(p)) = n
         /\ area_twice(from_least(p)) = area_twice(p)
<1>1. PICK start \in 1 .. n : from_least(p) = SubSeq(p, start, n) \o SubSeq(p, 1, start - 1)
  <2> DEFINE s0 == CHOOSE s \in DOMAIN p : \A i \in DOMAIN p : Before2(p[s], p[i])
  <2>1. s0 \in DOMAIN p
    BY LeastVertex
  <2>2. from_least(p) = SubSeq(p, s0, n) \o SubSeq(p, 1, s0 - 1)
    BY DEF from_least
  <2> HIDE DEF s0
  <2>3. s0 \in 1 .. n
    BY <2>1
  <2> QED BY <2>2, <2>3
<1>2. PICK k \in Nat, l \in Nat, o \in Nat : k = start - 1 /\ l = n - k /\ o = 0
  OBVIOUS
<1>3. PICK q : Parts(q, p, k, l, o, k)
  BY DEF Parts
<1>4. q = from_least(p)
  <2>1. k + 1 = start /\ k + l = n /\ o + 1 = 1 /\ o + k = start - 1
    BY <1>2
  <2> QED BY <1>1, <1>3, <2>1 DEF Parts
<1>5. /\ q \in Seq(Point) /\ Len(q) = l + k
      /\ \A j \in 1 .. l : q[j] = p[k + j]
      /\ \A j \in 1 .. k : q[l + j] = p[j]
  <2>1. k + l <= n /\ o + k <= n
    BY <1>2
  <2>2. /\ q \in Seq(Point) /\ Len(q) = l + k
        /\ \A j \in 1 .. l : q[j] = p[k + j]
        /\ SameStretch(q, l, p, o, k)
    BY <1>3, <2>1, TwoParts
  <2> QED BY <1>2, <2>2 DEF SameStretch
<1>6. Len(q) = n /\ (\A j \in 1 .. n - k : q[j] = p[k + j]) /\ (\A j \in 1 .. k : q[n - k + j] = p[j])
  BY <1>2, <1>5
<1>7. CASE k = 0
  <2>1. \A j \in 1 .. n : q[j] = p[j]
    BY <1>6, <1>7
  <2>2. q = p
    BY <1>5, <1>6, <2>1
  <2> QED BY <1>4, <2>2
<1>8. CASE k # 0
  <2>1. k \in 1 .. n - 1
    BY <1>2, <1>8
  <2> QED BY <1>4, <1>5, <1>6, <2>1, AreaTurned
<1> QED BY <1>7, <1>8

-----------------------------------------------------------------------------
(* A round of _normalized_polygon.                                         *)

\* The function that Kept defines exists.
LEMMA KeptExists ==
  ASSUME NEW p \in Seq(Point)
  PROVE  Kept(p) = [i \in 0 .. Len(p) |->
                      IF i = 0 THEN <<>>
                      ELSE IF is_corner(p, i) THEN Append(Kept(p)[i - 1], p[i]) ELSE Kept(p)[i - 1]]
<1> DEFINE Next1(k, i) == IF is_corner(p, i) THEN Append(k, p[i]) ELSE k
           Step(f, n) == [i \in 0 .. n |->
                            IF i = 0 THEN <<>>
                            ELSE IF is_corner(p, i) THEN Append(f[i - 1], p[i]) ELSE f[i - 1]]
           S == {n \in Nat : \E f : f = Step(f, n)}
<1>0. Len(p) \in Nat
  OBVIOUS
<1>1. 0 \in S
  <2> DEFINE f == [i \in 0 .. 0 |-> <<>>]
  <2>1. f = Step(f, 0)
    OBVIOUS
  <2> QED BY <2>1
<1>2. ASSUME NEW n \in 1 .. Len(p), n - 1 \in S PROVE n \in S
  <2>1. PICK f : f = Step(f, n - 1)
    BY <1>2
  <2>2. n \in Nat /\ n # 0 /\ n - 1 \in Nat /\ n - 1 # n
    BY <1>0
  <2> DEFINE g == [i \in 0 .. n |-> IF i = n THEN Next1(f[n - 1], n) ELSE f[i]]
  <2>3. ASSUME NEW i \in 0 .. n PROVE g[i] = IF i = 0 THEN <<>> ELSE Next1(g[i - 1], i)
    <3>1. CASE i = n
      <4> HIDE DEF Next1
      <4> QED BY <2>2, <3>1
    <3>2. CASE i # n
      <4>1. i \in 0 .. n - 1 /\ g[i] = f[i]
        BY <2>2, <3>2
      <4>2. f[i] = IF i = 0 THEN <<>> ELSE Next1(f[i - 1], i)
        BY <2>1, <4>1
      <4>3. i # 0 => g[i - 1] = f[i - 1]
        BY <2>2, <4>1
      <4> HIDE DEF Next1, g
      <4> QED BY <4>1, <4>2, <4>3
    <3> QED BY <3>1, <3>2
  <2>4. g = Step(g, n)
    <3>1. g = [i \in 0 .. n |-> g[i]]
      OBVIOUS
    <3> HIDE DEF g
    <3> QED BY <2>3, <3>1
  <2> QED BY <2>2, <2>4
<1>3. Len(p) \in S
  <2> HIDE DEF S
  <2>1. \A n \in 0 .. Len(p) : n \in S
    BY <1>0, <1>1, <1>2, UpTo
  <2> QED BY <1>0, <2>1
<1>4. Kept(p) = CHOOSE f : f = Step(f, Len(p))
  BY DEF Kept
<1> QED BY <1>3, <1>4

Injective(p) == \A i, j \in 1 .. Len(p) : p[i] = p[j] => i = j

\* k is some of the first i points of p, each once.
SomeOf(k, p, i) ==
  /\ k \in Seq(Point)
  /\ \A a \in 1 .. Len(k) : \E j \in 1 .. i : k[a] = p[j]
  /\ Injective(k)

LEMMA KeptOf ==
  ASSUME NEW p \in Seq(Point), NEW n \in Nat, Len(p) = n, Injective(p)
  PROVE  /\ Kept(p)[0] = <<>>
         /\ \A i \in 1 .. n :
              Kept(p)[i] = IF is_corner(p, i) THEN Append(Kept(p)[i - 1], p[i]) ELSE Kept(p)[i - 1]
         /\ \A i \in 0 .. n : SomeOf(Kept(p)[i], p, i)
<1> DEFINE S == {i \in Nat : SomeOf(Kept(p)[i], p, i)}
<1>1. \A i \in 0 .. n :
        Kept(p)[i] = IF i = 0 THEN <<>>
                     ELSE IF is_corner(p, i) THEN Append(Kept(p)[i - 1], p[i]) ELSE Kept(p)[i - 1]
  BY KeptExists
<1>2. Kept(p)[0] = <<>>
  <2>1. 0 \in 0 .. n
    OBVIOUS
  <2> QED BY <1>1, <2>1
<1>3. \A i \in 1 .. n :
        Kept(p)[i] = IF is_corner(p, i) THEN Append(Kept(p)[i - 1], p[i]) ELSE Kept(p)[i - 1]
  <2>1. \A i \in 1 .. n : i \in 0 .. n /\ i # 0
    OBVIOUS
  <2> QED BY <1>1, <2>1
<1>4. 0 \in S
  <2>1. PICK k : k = <<>>
    OBVIOUS
  <2>3. k \in Seq(Point) /\ Len(k) = 0
    BY <2>1
  <2>2. SomeOf(k, p, 0)
    BY <2>3 DEF SomeOf, Injective
  <2> QED BY <1>2, <2>1, <2>2
<1>5. ASSUME NEW i \in 1 .. n, i - 1 \in S PROVE i \in S
  <2>1. PICK k, l : k = Kept(p)[i - 1] /\ l = Kept(p)[i]
    OBVIOUS
  <2>2. SomeOf(k, p, i - 1)
    BY <1>5, <2>1
  <2>3. \A a \in 1 .. Len(k) : \E j \in 1 .. i : k[a] = p[j]
    BY <2>2 DEF SomeOf
  <2>4. CASE ~is_corner(p, i)
    <3>1. l = k
      BY <1>3, <2>1, <2>4
    <3>2. SomeOf(l, p, i)
      BY <2>2, <2>3, <3>1 DEF SomeOf
    <3> QED BY <2>1, <3>2
  <2>5. CASE is_corner(p, i)
    <3>1. l = Append(k, p[i]) /\ p[i] \in Point /\ k \in Seq(Point) /\ Len(k) \in Nat
      <4>1. l = Append(k, p[i])
        BY <1>3, <2>1, <2>5
      <4>2. k \in Seq(Point)
        BY <2>2 DEF SomeOf
      <4> QED BY <4>1, <4>2
    <3>2. /\ l \in Seq(Point) /\ Len(l) = Len(k) + 1 /\ l[Len(k) + 1] = p[i]
          /\ \A a \in 1 .. Len(k) : l[a] = k[a]
      BY <3>1, AppendProperties
    <3>3. \A a \in 1 .. Len(l) : a = Len(k) + 1 \/ a \in 1 .. Len(k)
      BY <3>1, <3>2
    <3>4. \A a \in 1 .. Len(l) : \E j \in 1 .. i : l[a] = p[j]
      BY <2>3, <3>2, <3>3
    <3>5. \A a \in 1 .. Len(k) : k[a] # p[i]
      <4> SUFFICES ASSUME NEW a \in 1 .. Len(k), k[a] = p[i] PROVE FALSE
        OBVIOUS
      <4>1. PICK j \in 1 .. i - 1 : k[a] = p[j]
        BY <2>2 DEF SomeOf
      <4>2. j \in 1 .. n /\ j # i
        OBVIOUS
      <4> QED BY <4>1, <4>2 DEF Injective
    <3>6. ASSUME NEW a \in 1 .. Len(l), NEW b \in 1 .. Len(l), l[a] = l[b] PROVE a = b
      <4>1. CASE a \in 1 .. Len(k) /\ b \in 1 .. Len(k)
        BY <2>2, <3>2, <3>6, <4>1 DEF SomeOf, Injective
      <4>2. CASE a = Len(k) + 1 /\ b \in 1 .. Len(k)
        BY <3>2, <3>5, <3>6, <4>2
      <4>3. CASE b = Len(k) + 1 /\ a \in 1 .. Len(k)
        BY <3>2, <3>5, <3>6, <4>3
      <4> QED BY <3>3, <4>1, <4>2, <4>3
    <3>7. SomeOf(l, p, i)
      BY <3>2, <3>4, <3>6 DEF SomeOf, Injective
    <3> QED BY <2>1, <3>7
  <2> QED BY <2>4, <2>5
<1>6. \A i \in 0 .. n : i \in S
  <2> HIDE DEF S
  <2> QED BY <1>4, <1>5, UpTo
<1> QED BY <1>2, <1>3, <1>6

\* f is the sum of wedge along the vertices from a to x, e is twice the area of
\* those that are left, and F and L are the ends of these.
Walk(f, e, a, F, L, x) == f = e + wedge(a, F) + wedge(F, L) + wedge(L, x)

LEMMA CornerKept ==
  ASSUME NEW a \in Point, NEW F \in Point, NEW L \in Point, NEW x \in Point, NEW y \in Point,
         NEW f \in Int, NEW e \in Int,
         Walk(f, e, a, F, L, x), cross(L, x, y) = 0
  PROVE  /\ Walk(f + wedge(x, y), e, a, F, L, y)
         /\ Walk(f + wedge(x, y), e + cross(L, y, F), a, F, y, y)
<1>1. /\ wedge(a, F) \in Int /\ wedge(F, L) \in Int /\ wedge(L, x) \in Int /\ wedge(x, y) \in Int
      /\ wedge(L, y) \in Int /\ wedge(F, y) \in Int
      /\ wedge(y, L) = -wedge(L, y) /\ wedge(y, F) = -wedge(F, y) /\ wedge(y, y) = 0
  BY Wedges
<1>2. cross(L, x, y) = wedge(L, x) + wedge(x, y) + wedge(y, L)
  BY CrossOf
<1>3. cross(L, y, F) = wedge(L, y) + wedge(y, F) + wedge(F, L)
  BY CrossOf
<1> QED BY <1>1, <1>2, <1>3 DEF Walk

LEMMA RoundEnds ==
  ASSUME NEW a \in Point, NEW F \in Point, NEW L \in Point, NEW x \in Point, a # x,
         NEW f \in Int, NEW e \in Int,
         Walk(f, e, a, F, L, x), cross(L, x, a) = 0,
         F = a \/ cross(x, a, F) = 0
  PROVE  f + wedge(x, a) = e
<1>1. /\ wedge(a, F) \in Int /\ wedge(F, L) \in Int /\ wedge(L, x) \in Int /\ wedge(x, a) \in Int
      /\ wedge(F, x) \in Int /\ wedge(x, F) = -wedge(F, x)
  BY Wedges
<1>2. cross(a, F, x) = wedge(a, F) + wedge(F, x) + wedge(x, a)
  BY CrossOf
<1>3. cross(F, L, x) = wedge(F, L) + wedge(L, x) + wedge(x, F)
  BY CrossOf
<1>4. cross(x, a, L) = 0 /\ cross(x, a, x) = 0
  BY CrossTurned
<1>5. cross(a, F, x) = 0 /\ cross(F, L, x) = 0
  <2>1. CASE F = a
    BY <2>1, CrossTurned
  <2>2. CASE cross(x, a, F) = 0
    <3>1. cross(a, F, x) = 0
      BY <2>2, CrossTurned
    <3> QED BY <1>4, <2>2, <3>1, OnOneLine
  <2> QED BY <2>1, <2>2
<1> QED BY <1>1, <1>2, <1>3, <1>5 DEF Walk

LEMMA AreaOfFew ==
  /\ \A k \in Seq(Point) : Len(k) = 0 => area_twice(k) = 0
  /\ \A k \in Seq(Point) : Len(k) = 1 => area_twice(k) = 0
<1>1. ASSUME NEW k \in Seq(Point), Len(k) = 0 PROVE area_twice(k) = 0
  <2>1. SumsUp(Sums(Terms(k)), Terms(k), 0) /\ area_twice(k) = Sums(Terms(k))[0]
    BY <1>1, TermsOf
  <2> QED BY <2>1 DEF SumsUp
<1>2. ASSUME NEW k \in Seq(Point), Len(k) = 1 PROVE area_twice(k) = 0
  <2>1. PICK g : g = Sums(Terms(k))
    OBVIOUS
  <2>2. SumsUp(g, Terms(k), 1) /\ area_twice(k) = g[1] /\ Terms(k)[1] = wedge(k[1], k[1])
    <3>1. SumsUp(g, Terms(k), Len(k)) /\ area_twice(k) = g[Len(k)]
      BY <2>1, TermsOf
    <3>2. Len(k) > 0 => Terms(k)[Len(k)] = wedge(k[Len(k)], k[1])
      BY TermsOf
    <3> QED BY <1>2, <3>1, <3>2
  <2>3. k[1] \in Point
    BY <1>2
  <2>4. Terms(k)[1] = 0
    BY <2>2, <2>3, Wedges
  <2>5. g[0] = 0 /\ g[1] = g[0] + Terms(k)[1]
    <3>1. 1 \in 1 .. 1 /\ 1 - 1 = 0
      OBVIOUS
    <3> QED BY <2>2, <3>1 DEF SumsUp
  <2> QED BY <2>2, <2>4, <2>5
<1> QED BY <1>1, <1>2

\* F and L are the ends of k, p's first vertex as long as k is empty.
Ends(p, k, F, L) ==
  /\ F \in Point /\ L \in Point
  /\ k = <<>> => F = p[1] /\ L = p[1]
  /\ k # <<>> => F = k[1] /\ L = k[Len(k)]

\* Where the round is after the vertex i: what it has dropped lies on lines.
RoundAt(p, f, i, k, F, L) ==
  /\ Walk(f[i - 1], area_twice(k), p[1], F, L, p[i])
  /\ cross(L, p[i], After(p, i)) = 0
  /\ k = <<>> => cross(p[Len(p)], p[1], p[i]) = 0 /\ cross(p[Len(p)], p[1], After(p, i)) = 0
  /\ F = p[1] \/ cross(p[Len(p)], p[1], F) = 0

LEMMA RoundStarts ==
  ASSUME NEW p \in Seq(Point), NEW n \in Nat, Len(p) = n, n > 1, Injective(p), NEW f, f[0] = 0
  PROVE  \E F, L : Ends(p, Kept(p)[1], F, L) /\ RoundAt(p, f, 1, Kept(p)[1], F, L)
<1>1. PICK a \in Point, b \in Point, z \in Point : a = p[1] /\ b = p[2] /\ z = p[n]
  OBVIOUS
<1>2. After(p, 1) = b /\ Before(p, 1) = z
  BY <1>1 DEF After, Before
<1>3. is_corner(p, 1) <=> cross(z, a, b) # 0
  BY <1>1, <1>2 DEF is_corner
<1>4. wedge(a, a) = 0 /\ cross(a, a, b) = 0 /\ cross(z, a, a) = 0
  BY Wedges, CrossTurned
<1>5. PICK k : k = Kept(p)[1]
  OBVIOUS
<1>6. k \in Seq(Point) /\ k = IF is_corner(p, 1) THEN Append(<<>>, a) ELSE <<>>
  <2>1. 1 \in 1 .. n /\ 1 \in 0 .. n /\ 1 - 1 = 0
    OBVIOUS
  <2>2. Kept(p)[0] = <<>> /\ SomeOf(Kept(p)[1], p, 1)
    BY <2>1, KeptOf
  <2>3. Kept(p)[1] = IF is_corner(p, 1) THEN Append(Kept(p)[1 - 1], p[1]) ELSE Kept(p)[1 - 1]
    BY <2>1, KeptOf
  <2> QED BY <1>1, <1>5, <2>1, <2>2, <2>3 DEF SomeOf
<1>7. area_twice(k) = 0 /\ Ends(p, k, a, a)
  <2>1. CASE is_corner(p, 1)
    <3>1. k = <<a>>
      BY <1>6, <2>1
    <3>2. Len(k) = 1 /\ k # <<>> /\ k[1] = a
      BY <3>1
    <3> QED BY <1>1, <1>6, <3>2, AreaOfFew DEF Ends
  <2>2. CASE ~is_corner(p, 1)
    <3>1. k = <<>> /\ Len(k) = 0
      BY <1>6, <2>2
    <3> QED BY <1>1, <1>6, <3>1, AreaOfFew DEF Ends
  <2> QED BY <2>1, <2>2
<1>8. k = <<>> => cross(z, a, b) = 0
  BY <1>3, <1>6
<1>9. RoundAt(p, f, 1, k, a, a)
  <2>1. Walk(f[1 - 1], area_twice(k), a, a, a, a)
    BY <1>4, <1>7 DEF Walk
  <2> QED BY <1>1, <1>2, <1>4, <1>8, <2>1 DEF RoundAt
<1> QED BY <1>5, <1>7, <1>9

LEMMA RoundGoesOn ==
  ASSUME NEW p \in Seq(Point), NEW n \in Nat, Len(p) = n, n > 1, Injective(p),
         NEW i \in 1 .. n - 1, NEW f, f[i - 1] \in Int, f[i] = f[i - 1] + wedge(p[i], p[i + 1]),
         NEW F, NEW L, Ends(p, Kept(p)[i], F, L), RoundAt(p, f, i, Kept(p)[i], F, L)
  PROVE  \E G, M : Ends(p, Kept(p)[i + 1], G, M) /\ RoundAt(p, f, i + 1, Kept(p)[i + 1], G, M)
<1>1. PICK h \in 1 .. n : h = i + 1
  OBVIOUS
<1>2. PICK a \in Point, o \in Point, x \in Point, y \in Point, z \in Point :
        a = p[1] /\ o = p[n] /\ x = p[i] /\ y = p[h] /\ z = After(p, h)
  BY DEF After
<1>3. After(p, i) = y /\ Before(p, h) = x
  BY <1>1, <1>2 DEF After, Before
<1>4. x # y /\ o # a
  <2>1. i # h /\ i \in 1 .. n /\ n # 1 /\ 1 \in 1 .. n /\ n \in 1 .. n
    BY <1>1
  <2> QED BY <1>2, <2>1 DEF Injective
<1>5. PICK k, l : k = Kept(p)[i] /\ l = Kept(p)[h]
  OBVIOUS
<1>6. /\ k \in Seq(Point) /\ l = IF is_corner(p, h) THEN Append(k, y) ELSE k
  <2>1. i \in 0 .. n /\ h - 1 = i
    BY <1>1
  <2>2. SomeOf(Kept(p)[i], p, i)
    BY <2>1, KeptOf
  <2>3. Kept(p)[h] = IF is_corner(p, h) THEN Append(Kept(p)[h - 1], p[h]) ELSE Kept(p)[h - 1]
    BY KeptOf
  <2> QED BY <1>2, <1>5, <2>1, <2>2, <2>3 DEF SomeOf
<1>7. PICK e \in Int, g \in Int : e = area_twice(k) /\ g = f[i - 1]
  BY <1>6, TermsOf
<1>8. /\ F \in Point /\ L \in Point
      /\ k = <<>> => F = a /\ L = a
      /\ k # <<>> => F = k[1] /\ L = k[Len(k)]
  BY <1>2, <1>5 DEF Ends
<1>9. /\ Walk(g, e, a, F, L, x)
      /\ cross(L, x, y) = 0
      /\ k = <<>> => cross(o, a, x) = 0 /\ cross(o, a, y) = 0
      /\ F = a \/ cross(o, a, F) = 0
  BY <1>2, <1>3, <1>5, <1>7 DEF RoundAt
<1>10. f[h - 1] = g + wedge(x, y) /\ g + wedge(x, y) \in Int
  <2>1. h - 1 = i /\ wedge(x, y) \in Int
    BY <1>1, Wedges
  <2> QED BY <1>1, <1>2, <1>7, <2>1
<1>11. CASE ~is_corner(p, h)
  <2>1. cross(x, y, z) = 0 /\ l = k
    BY <1>2, <1>3, <1>6, <1>11 DEF is_corner
  <2>2. cross(L, y, z) = 0
    <3>1. cross(x, y, L) = 0 /\ cross(x, y, y) = 0
      BY <1>8, <1>9, CrossTurned
    <3> QED BY <1>4, <1>8, <2>1, <3>1, OnOneLine
  <2>3. k = <<>> => cross(o, a, y) = 0 /\ cross(o, a, z) = 0
    BY <1>4, <1>9, <2>1, SameLine
  <2>4. Walk(g + wedge(x, y), e, a, F, L, y)
    BY <1>8, <1>9, CornerKept
  <2>5. RoundAt(p, f, h, l, F, L)
    BY <1>2, <1>7, <1>9, <1>10, <2>1, <2>2, <2>3, <2>4 DEF RoundAt
  <2>6. Ends(p, l, F, L)
    BY <1>2, <1>8, <2>1 DEF Ends
  <2> QED BY <1>1, <1>5, <2>5, <2>6
<1>12. CASE is_corner(p, h)
  <2>1. /\ l = Append(k, y) /\ l \in Seq(Point) /\ Len(l) = Len(k) + 1 /\ Len(k) \in Nat
        /\ \A j \in 1 .. Len(k) : l[j] = k[j]
        /\ l[Len(l)] = y /\ l # <<>>
    <3>1. l = Append(k, y)
      BY <1>6, <1>12
    <3> QED BY <1>6, <3>1, AppendProperties
  <2>2. cross(y, y, z) = 0 /\ wedge(y, y) = 0
    BY CrossTurned, Wedges
  <2>3. CASE k = <<>>
    <3>1. Len(k) = 0 /\ Len(l) = 1 /\ l[1] = y
      BY <2>1, <2>3
    <3>2. area_twice(k) = 0 /\ area_twice(l) = 0
      BY <1>6, <2>1, <3>1, AreaOfFew
    <3>3. Walk(g + wedge(x, y), e, a, F, L, y)
      BY <1>8, <1>9, CornerKept
    <3>4. Walk(f[h - 1], area_twice(l), a, y, y, y)
      <4>1. wedge(a, a) = 0 /\ wedge(a, y) \in Int
        BY Wedges
      <4> QED BY <1>7, <1>8, <1>10, <2>2, <2>3, <3>2, <3>3, <4>1 DEF Walk
    <3>5. RoundAt(p, f, h, l, y, y)
      BY <1>2, <1>9, <2>1, <2>2, <2>3, <3>4 DEF RoundAt
    <3>6. Ends(p, l, y, y)
      BY <2>1, <3>1 DEF Ends
    <3> QED BY <1>1, <1>5, <3>5, <3>6
  <2>4. CASE k # <<>>
    <3>1. Len(k) > 0 /\ l[1] = F /\ L = k[Len(k)] /\ F = k[1]
      <4>1. Len(k) > 0
        BY <1>6, <2>4
      <4>2. 1 \in 1 .. Len(k)
        BY <2>1, <4>1
      <4> QED BY <1>8, <2>1, <2>4, <4>1, <4>2
    <3>2. area_twice(l) = e + cross(L, y, F)
      <4>1. area_twice(l) = area_twice(k) + cross(k[Len(k)], l[Len(k) + 1], k[1])
        BY <1>6, <2>1, <3>1, AreaLonger
      <4> QED BY <1>7, <2>1, <3>1, <4>1
    <3>3. Walk(f[h - 1], area_twice(l), a, F, y, y)
      <4>1. Walk(g + wedge(x, y), e + cross(L, y, F), a, F, y, y)
        BY <1>8, <1>9, CornerKept
      <4> QED BY <1>10, <3>2, <4>1
    <3>4. RoundAt(p, f, h, l, F, y)
      BY <1>2, <1>9, <2>1, <2>2, <3>3 DEF RoundAt
    <3>5. Ends(p, l, F, y)
      BY <1>8, <2>1, <3>1 DEF Ends
    <3> QED BY <1>1, <1>5, <3>4, <3>5
  <2> QED BY <2>3, <2>4
<1> QED BY <1>11, <1>12

\* A round drops vertices of an area that is nought.
LEMMA RoundKeeps ==
  ASSUME NEW p \in Seq(Point), NEW n \in Nat, Len(p) = n, n > 1, Injective(p)
  PROVE  retained(p) \in Seq(Point) /\ Injective(retained(p)) /\ area_twice(retained(p)) = area_twice(p)
<1>1. PICK f : f = Sums(Terms(p))
  OBVIOUS
<1>2. /\ f[0] = 0 /\ area_twice(p) = f[n]
      /\ \A i \in 0 .. n : f[i] \in Int
      /\ \A i \in 1 .. n - 1 : f[i] = f[i - 1] + wedge(p[i], p[i + 1])
      /\ f[n] = f[n - 1] + wedge(p[n], p[1])
  <2>1. SumsUp(f, Terms(p), n) /\ area_twice(p) = f[n]
        /\ (\A i \in 1 .. n - 1 : Terms(p)[i] = wedge(p[i], p[i + 1]))
        /\ Terms(p)[n] = wedge(p[n], p[1])
    BY <1>1, TermsOf
  <2>2. f[0] = 0 /\ (\A i \in 0 .. n : f[i] \in Int) /\ \A i \in 1 .. n : f[i] = f[i - 1] + Terms(p)[i]
    BY <2>1 DEF SumsUp
  <2>3. \A i \in 1 .. n - 1 : i \in 1 .. n
    OBVIOUS
  <2>4. n \in 1 .. n
    OBVIOUS
  <2> QED BY <2>1, <2>2, <2>3, <2>4
<1> DEFINE S == {i \in Nat : i = 0 \/ \E F, L : Ends(p, Kept(p)[i], F, L) /\ RoundAt(p, f, i, Kept(p)[i], F, L)}
<1>3. ASSUME NEW i \in 1 .. n, i - 1 \in S PROVE i \in S
  <2>1. CASE i = 1
    <3>1. \E F, L : Ends(p, Kept(p)[1], F, L) /\ RoundAt(p, f, 1, Kept(p)[1], F, L)
      BY <1>2, RoundStarts
    <3> QED BY <2>1, <3>1
  <2>2. CASE i # 1
    <3>1. PICK h \in 1 .. n - 1 : h = i - 1
      BY <2>2
    <3>2. PICK F, L : Ends(p, Kept(p)[h], F, L) /\ RoundAt(p, f, h, Kept(p)[h], F, L)
      BY <1>3, <3>1
    <3>3. f[h - 1] \in Int /\ f[h] = f[h - 1] + wedge(p[h], p[h + 1])
      <4>1. h - 1 \in 0 .. n
        OBVIOUS
      <4> QED BY <1>2, <4>1
    <3>4. \E G, M : Ends(p, Kept(p)[h + 1], G, M) /\ RoundAt(p, f, h + 1, Kept(p)[h + 1], G, M)
      BY <3>2, <3>3, RoundGoesOn
    <3>5. h + 1 = i
      BY <3>1
    <3>6. \E G, M : Ends(p, Kept(p)[i], G, M) /\ RoundAt(p, f, i, Kept(p)[i], G, M)
      BY <3>4, <3>5
    <3> QED BY <3>6
  <2> QED BY <2>1, <2>2
<1>4. n \in S
  <2> HIDE DEF S
  <2>1. 0 \in S
    BY DEF S
  <2>2. \A i \in 0 .. n : i \in S
    BY <1>3, <2>1, UpTo
  <2> QED BY <2>2
<1>5. PICK F, L : Ends(p, Kept(p)[n], F, L) /\ RoundAt(p, f, n, Kept(p)[n], F, L)
  BY <1>4
<1>6. PICK k : k = retained(p) /\ k = Kept(p)[n]
  BY DEF retained
<1>7. k \in Seq(Point) /\ Injective(k)
  <2>1. n \in 0 .. n
    OBVIOUS
  <2>2. SomeOf(Kept(p)[n], p, n)
    BY <2>1, KeptOf
  <2> QED BY <1>6, <2>2 DEF SomeOf
<1>8. PICK a \in Point, x \in Point : a = p[1] /\ x = p[n] /\ a # x /\ After(p, n) = a
  <2>1. p[1] \in Point /\ p[n] \in Point /\ After(p, n) = p[1]
    BY DEF After
  <2>2. p[1] # p[n]
    BY DEF Injective
  <2> QED BY <2>1, <2>2
<1>9. PICK e \in Int, g \in Int : e = area_twice(k) /\ g = f[n - 1]
  <2>1. n - 1 \in 0 .. n
    OBVIOUS
  <2> QED BY <1>2, <1>7, <2>1, TermsOf
<1>10. /\ F \in Point /\ L \in Point
       /\ Walk(g, e, a, F, L, x)
       /\ cross(L, x, a) = 0 /\ (F = a \/ cross(x, a, F) = 0)
  BY <1>5, <1>6, <1>8, <1>9 DEF Ends, RoundAt
<1>11. g + wedge(x, a) = e
  BY <1>8, <1>10, RoundEnds
<1> QED BY <1>2, <1>6, <1>7, <1>8, <1>9, <1>11

-----------------------------------------------------------------------------
(* The triangles.                                                          *)

LEMMA AreaMore ==
  /\ Area(<<>>) = 0
  /\ \A ts \in Seq(Seq(Point)), t \in Seq(Point) :
       /\ Append(ts, t) \in Seq(Seq(Point)) /\ Area(ts) \in Int
       /\ Area(Append(ts, t)) = Area(ts) + area_twice(t)
<1> DEFINE Areas(ts) == [k \in DOMAIN ts |-> area_twice(ts[k])]
<1>1. ASSUME NEW ts \in Seq(Seq(Point))
      PROVE  /\ SumsUp(Sums(Areas(ts)), Areas(ts), Len(ts)) /\ Area(ts) = Sums(Areas(ts))[Len(ts)]
             /\ \A k \in 1 .. Len(ts) : Areas(ts)[k] = area_twice(ts[k])
  <2>1. \A k \in 1 .. Len(ts) : area_twice(ts[k]) \in Int
    <3>1. \A k \in 1 .. Len(ts) : ts[k] \in Seq(Point)
      OBVIOUS
    <3> QED BY <3>1, TermsOf
  <2>5. Len(ts) \in Nat /\ DOMAIN ts = 1 .. Len(ts)
    BY LenProperties
  <2>2. Areas(ts) \in Seq(Int) /\ Len(Areas(ts)) = Len(ts)
        /\ \A k \in 1 .. Len(ts) : Areas(ts)[k] = area_twice(ts[k])
    <3>1. Areas(ts) \in [1 .. Len(ts) -> Int]
      BY <2>1, <2>5
    <3>2. Areas(ts) \in Seq(Int)
      BY <2>5, <3>1, SeqDef
    <3>3. Len(Areas(ts)) = Len(ts)
      BY <2>5, <3>1, <3>2, LenProperties
    <3> QED BY <2>5, <3>2, <3>3
  <2>3. Area(ts) = Total(Areas(ts))
    BY DEF Area
  <2> HIDE DEF Areas
  <2>4. SumsUp(Sums(Areas(ts)), Areas(ts), Len(ts))
    BY <2>2, SumsOf
  <2> QED BY <2>2, <2>3, <2>4 DEF Total
<1> HIDE DEF Areas
<1>2. Area(<<>>) = 0
  <2>1. <<>> \in Seq(Seq(Point)) /\ Len(<<>>) = 0
    OBVIOUS
  <2>2. SumsUp(Sums(Areas(<<>>)), Areas(<<>>), 0) /\ Area(<<>>) = Sums(Areas(<<>>))[0]
    BY <1>1, <2>1
  <2> QED BY <2>2 DEF SumsUp
<1>3. ASSUME NEW ts \in Seq(Seq(Point)), NEW t \in Seq(Point)
      PROVE  /\ Append(ts, t) \in Seq(Seq(Point)) /\ Area(ts) \in Int
             /\ Area(Append(ts, t)) = Area(ts) + area_twice(t)
  <2>1. PICK us, n, m : us = Append(ts, t) /\ n = Len(ts) /\ m = n + 1 /\ n \in Nat /\ m \in Nat
    <3>1. Len(ts) \in Nat /\ Len(ts) + 1 \in Nat
      BY LenProperties
    <3> QED BY <3>1
  <2>2. /\ us \in Seq(Seq(Point)) /\ Len(us) = m /\ us[m] = t
        /\ \A k \in 1 .. n : us[k] = ts[k]
    BY <2>1, AppendProperties
  <2>3. PICK f, g : f = Sums(Areas(us)) /\ g = Sums(Areas(ts))
    OBVIOUS
  <2>4. /\ SumsUp(f, Areas(us), m) /\ Area(us) = f[m]
        /\ \A k \in 1 .. m : Areas(us)[k] = area_twice(us[k])
    BY <1>1, <2>2, <2>3
  <2>5. /\ SumsUp(g, Areas(ts), n) /\ Area(ts) = g[n]
        /\ \A k \in 1 .. n : Areas(ts)[k] = area_twice(ts[k])
    BY <1>1, <2>1, <2>3
  <2>6. \A k \in 1 .. n : Areas(us)[k] = Areas(ts)[k]
    <3>1. \A k \in 1 .. n : k \in 1 .. m
      BY <2>1
    <3> QED BY <2>2, <2>4, <2>5, <3>1
  <2>7. f[n] = g[n]
    <3>1. n <= m /\ n <= n
      BY <2>1
    <3> QED BY <2>1, <2>4, <2>5, <2>6, <3>1, SumsSame
  <2>8. g[n] \in Int /\ f[m] = f[n] + Areas(us)[m]
    <3>1. m \in 1 .. m /\ n \in 0 .. n /\ m - 1 = n
      BY <2>1
    <3> QED BY <2>4, <2>5, <3>1 DEF SumsUp
  <2>9. Areas(us)[m] = area_twice(t)
    <3>1. m \in 1 .. m
      BY <2>1
    <3> QED BY <2>2, <2>4, <3>1
  <2> QED BY <2>1, <2>2, <2>4, <2>5, <2>7, <2>8, <2>9
<1> QED BY <1>2, <1>3

-----------------------------------------------------------------------------
(* The invariant.                                                          *)

AreaInv ==
  /\ polygon \in Seq(Point) /\ area_twice(polygon) > 0
  /\ area_twice(polygon) \in {area_twice(boundary), -area_twice(boundary)}
  /\ pc = "normalizing" => Injective(polygon) /\ triangles = <<>>
  /\ pc = "cutting" => /\ indices \in Seq(Point) /\ triangles \in Seq(Seq(Point))
                       /\ Area(triangles) + area_twice(indices) = area_twice(polygon)
  /\ pc = "done" => Area(triangles) = area_twice(polygon)

LEMMA Starts == MeshInit => AreaInv
<1> SUFFICES ASSUME MeshInit PROVE AreaInv
  OBVIOUS
<1>1. boundary \in Seq(Point) /\ validate_polygon(boundary, MaxVertices)
  BY TriangulationAssumption DEF MeshInit, Init, Point
<1>2. Injective(boundary) /\ area_twice(boundary) # 0 /\ area_twice(boundary) \in Int
  BY <1>1, TermsOf DEF validate_polygon, Injective
<1>3. polygon = oriented(boundary) /\ triangles = <<>> /\ pc = "normalizing"
  BY DEF MeshInit, Init
<1>4. CASE area_twice(boundary) > 0
  BY <1>1, <1>2, <1>3, <1>4 DEF AreaInv, oriented
<1>5. CASE ~(area_twice(boundary) > 0)
  <2>1. polygon = Reverse(boundary)
    BY <1>3, <1>5 DEF oriented
  <2>2. polygon \in Seq(Point) /\ area_twice(polygon) = -area_twice(boundary)
    BY <1>1, <2>1, ReverseKeeps
  <2>3. Injective(polygon)
    <3>1. Len(polygon) = Len(boundary) /\ Len(boundary) \in Nat
          /\ \A i \in 1 .. Len(boundary) : polygon[i] = boundary[Len(boundary) - i + 1]
      BY <1>1, <2>1 DEF Reverse
    <3>2. ASSUME NEW i \in 1 .. Len(boundary), NEW j \in 1 .. Len(boundary), polygon[i] = polygon[j]
          PROVE  i = j
      <4>1. PICK a, b : /\ a = Len(boundary) - i + 1 /\ b = Len(boundary) - j + 1
                        /\ a \in 1 .. Len(boundary) /\ b \in 1 .. Len(boundary)
        <5>1. /\ Len(boundary) - i + 1 \in 1 .. Len(boundary)
              /\ Len(boundary) - j + 1 \in 1 .. Len(boundary)
          BY <3>1
        <5> QED BY <5>1
      <4>2. boundary[a] = boundary[b]
        BY <3>1, <3>2, <4>1
      <4>3. a = b
        BY <1>2, <4>1, <4>2 DEF Injective
      <4> QED BY <3>1, <4>1, <4>3
    <3> QED BY <3>1, <3>2 DEF Injective
  <2> QED BY <1>2, <1>3, <1>5, <2>2, <2>3 DEF AreaInv
<1> QED BY <1>4, <1>5

LEMMA Normalizes == AreaInv /\ Normalize => AreaInv'
<1> SUFFICES ASSUME AreaInv, Normalize PROVE AreaInv'
  OBVIOUS
<1>1. /\ polygon \in Seq(Point) /\ area_twice(polygon) > 0 /\ Injective(polygon) /\ triangles = <<>>
      /\ area_twice(polygon) \in {area_twice(boundary), -area_twice(boundary)}
      /\ pc = "normalizing" /\ boundary' = boundary /\ triangles' = triangles
  BY DEF AreaInv, Normalize
<1>2. PICK n \in Nat : n = Len(polygon)
  BY <1>1
<1>3. CASE changed(polygon)
  <2>1. polygon' = retained(polygon) /\ pc' = pc /\ n > 1
    BY <1>2, <1>3 DEF Normalize, changed
  <2>2. retained(polygon) \in Seq(Point) /\ Injective(retained(polygon))
        /\ area_twice(retained(polygon)) = area_twice(polygon)
    BY <1>1, <1>2, <2>1, RoundKeeps
  <2>3. area_twice(polygon') = area_twice(polygon) /\ area_twice(boundary') = area_twice(boundary)
    BY <1>1, <2>1, <2>2
  <2> QED BY <1>1, <2>1, <2>2, <2>3 DEF AreaInv
<1>4. CASE ~changed(polygon)
  <2>1. polygon' = from_least(polygon) /\ indices' = from_least(polygon) /\ pc' = "cutting"
    BY <1>1, <1>4 DEF Normalize
  <2>2. n > 0
    <3>1. Len(polygon) = 0 => area_twice(polygon) = 0
      BY <1>1, AreaOfFew
    <3> QED BY <1>1, <1>2, <3>1
  <2>3. /\ from_least(polygon) \in Seq(Point)
        /\ area_twice(from_least(polygon)) = area_twice(polygon)
    BY <1>1, <1>2, <2>2, StartKeeps
  <2>4. area_twice(polygon') = area_twice(polygon) /\ area_twice(indices') = area_twice(polygon)
        /\ area_twice(boundary') = area_twice(boundary) /\ Area(triangles') = 0
        /\ area_twice(polygon) \in Int /\ triangles' \in Seq(Seq(Point))
    BY <1>1, <2>1, <2>3, AreaMore, TermsOf
  <2> QED BY <1>1, <2>1, <2>3, <2>4 DEF AreaInv
<1> QED BY <1>3, <1>4

\* What is true of a number up to n is true of a first one.
LEMMA FirstOf ==
  ASSUME NEW n \in Nat, NEW E, NEW e \in 1 .. n, e \in E
  PROVE  \E i \in 1 .. n : i \in E /\ \A j \in 1 .. i - 1 : j \notin E
<1> SUFFICES ASSUME \A i \in 1 .. n : i \in E => \E j \in 1 .. i - 1 : j \in E PROVE FALSE
  OBVIOUS
<1> DEFINE S == {m \in Nat : \A j \in 1 .. m : j \notin E}
<1>1. 0 \in S
  OBVIOUS
<1>2. ASSUME NEW m \in 1 .. n, m - 1 \in S PROVE m \in S
  <2>1. \A j \in 1 .. m - 1 : j \notin E
    BY <1>2
  <2>2. m \notin E
    BY <2>1
  <2>3. \A j \in 1 .. m : j = m \/ j \in 1 .. m - 1
    OBVIOUS
  <2> QED BY <2>1, <2>2, <2>3
<1>3. n \in S
  <2> HIDE DEF S
  <2>1. \A m \in 0 .. n : m \in S
    BY <1>1, <1>2, UpTo
  <2> QED BY <2>1
<1> QED BY <1>3

LEMMA AreaOfTriangle ==
  ASSUME NEW a \in Point, NEW b \in Point, NEW c \in Point
  PROVE  <<a, b, c>> \in Seq(Point) /\ area_twice(<<a, b, c>>) = cross(a, b, c)
<1>1. PICK t : t = <<a, b, c>>
  OBVIOUS
<1>2. t \in Seq(Point) /\ Len(t) = 3 /\ t[1] = a /\ t[2] = b /\ t[3] = c
  BY <1>1
<1>3. PICK f : f = Sums(Terms(t))
  OBVIOUS
<1>4. /\ SumsUp(f, Terms(t), 3) /\ area_twice(t) = f[3]
      /\ \A i \in 1 .. 3 - 1 : Terms(t)[i] = wedge(t[i], t[i + 1])
      /\ Terms(t)[3] = wedge(t[3], t[1])
  BY <1>2, <1>3, TermsOf
<1>5. Terms(t)[1] = wedge(a, b) /\ Terms(t)[2] = wedge(b, c) /\ Terms(t)[3] = wedge(c, a)
  <2>1. 1 \in 1 .. 3 - 1 /\ 2 \in 1 .. 3 - 1 /\ 1 + 1 = 2 /\ 2 + 1 = 3
    OBVIOUS
  <2>2. Terms(t)[1] = wedge(t[1], t[1 + 1]) /\ Terms(t)[2] = wedge(t[2], t[2 + 1])
    BY <1>4, <2>1
  <2> QED BY <1>2, <1>4, <2>1, <2>2
<1>6. f[0] = 0 /\ f[1] = f[0] + wedge(a, b) /\ f[2] = f[1] + wedge(b, c) /\ f[3] = f[2] + wedge(c, a)
  <2>1. /\ 1 \in 1 .. 3 /\ 2 \in 1 .. 3 /\ 3 \in 1 .. 3
        /\ 1 - 1 = 0 /\ 2 - 1 = 1 /\ 3 - 1 = 2
    OBVIOUS
  <2>2. /\ f[0] = 0 /\ f[1] = f[1 - 1] + Terms(t)[1]
        /\ f[2] = f[2 - 1] + Terms(t)[2] /\ f[3] = f[3 - 1] + Terms(t)[3]
    BY <1>4, <2>1 DEF SumsUp
  <2> QED BY <1>5, <2>1, <2>2
<1>7. /\ wedge(a, b) \in Int /\ wedge(b, c) \in Int /\ wedge(c, a) \in Int
      /\ cross(a, b, c) = wedge(a, b) + wedge(b, c) + wedge(c, a)
  BY Wedges, CrossOf
<1>8. f[3] = cross(a, b, c)
  BY <1>6, <1>7
<1> QED BY <1>1, <1>2, <1>4, <1>8

LEMMA Cuts == AreaInv /\ Cut => AreaInv'
<1> SUFFICES ASSUME AreaInv, Cut PROVE AreaInv'
  OBVIOUS
<1>1. /\ polygon \in Seq(Point) /\ area_twice(polygon) > 0
      /\ area_twice(polygon) \in {area_twice(boundary), -area_twice(boundary)}
      /\ indices \in Seq(Point) /\ triangles \in Seq(Seq(Point))
      /\ Area(triangles) + area_twice(indices) = area_twice(polygon)
      /\ pc = "cutting" /\ boundary' = boundary /\ polygon' = polygon
  BY DEF AreaInv, Cut
<1>2. /\ area_twice(polygon') = area_twice(polygon) /\ area_twice(boundary') = area_twice(boundary)
      /\ area_twice(indices) \in Int /\ Area(triangles) \in Int
  BY <1>1, AreaMore, TermsOf
<1>3. CASE Len(indices) = 3
  <2>1. triangles' = Append(triangles, indices) /\ pc' = "done"
    BY <1>1, <1>3 DEF Cut
  <2>2. Area(triangles') = Area(triangles) + area_twice(indices)
    BY <1>1, <2>1, AreaMore
  <2> QED BY <1>1, <1>2, <2>1, <2>2 DEF AreaInv
<1>4. CASE Len(indices) # 3 /\ \E i \in DOMAIN indices : is_ear(indices, i)
  <2>1. PICK i \in DOMAIN indices :
          /\ is_ear(indices, i)
          /\ triangles' = Append(triangles, <<Before(indices, i), indices[i], After(indices, i)>>)
          /\ indices' = RemoveAt(indices, i) /\ pc' = pc
    <3> DEFINE e == CHOOSE i \in DOMAIN indices :
                      is_ear(indices, i) /\ \A j \in 1 .. i - 1 : ~is_ear(indices, j)
    <3>1. e \in DOMAIN indices /\ is_ear(indices, e)
      <4>1. DOMAIN indices = 1 .. Len(indices) /\ Len(indices) \in Nat
        BY <1>1
      <4>2. PICK i0 \in 1 .. Len(indices) : is_ear(indices, i0)
        BY <1>4, <4>1
      <4> DEFINE E == {i \in 1 .. Len(indices) : is_ear(indices, i)}
      <4>3. i0 \in E
        BY <4>2
      <4>4. \E i \in 1 .. Len(indices) : i \in E /\ \A j \in 1 .. i - 1 : j \notin E
        <5> HIDE DEF E
        <5> QED BY <4>1, <4>3, FirstOf
      <4>5. \E i \in DOMAIN indices : is_ear(indices, i) /\ \A j \in 1 .. i - 1 : ~is_ear(indices, j)
        <5>1. PICK i \in 1 .. Len(indices) : i \in E /\ \A j \in 1 .. i - 1 : j \notin E
          BY <4>4
        <5>2. \A j \in 1 .. i - 1 : j \in 1 .. Len(indices)
          BY <4>1
        <5> QED BY <4>1, <5>1, <5>2
      <4> QED BY <4>5
    <3>2. /\ triangles' = Append(triangles, <<Before(indices, e), indices[e], After(indices, e)>>)
          /\ indices' = RemoveAt(indices, e) /\ pc' = pc
      BY <1>1, <1>4 DEF Cut
    <3> HIDE DEF e
    <3> QED BY <3>1, <3>2
  <2>2. PICK n : n = Len(indices) /\ n \in Nat /\ i \in 1 .. n
    <3>1. Len(indices) \in Nat /\ DOMAIN indices = 1 .. Len(indices)
      BY <1>1
    <3> QED BY <2>1, <3>1
  <2>3. PICK a \in Point, b \in Point, c \in Point :
          a = Before(indices, i) /\ b = indices[i] /\ c = After(indices, i)
    BY <1>1, <2>2 DEF Before, After
  <2>4. cross(a, b, c) > 0 /\ cross(a, b, c) \in Int
    BY <2>1, <2>3, CrossOf DEF is_ear
  <2>5. n > 2
    <3>1. n = 1 => a = b /\ c = b
      BY <2>2, <2>3 DEF Before, After
    <3>2. n = 2 => a = c
      BY <2>2, <2>3 DEF Before, After
    <3>3. cross(b, b, b) = 0 /\ cross(a, b, a) = 0
      BY CrossTurned
    <3> QED BY <2>2, <2>4, <3>1, <3>2, <3>3
  <2>6. indices' \in Seq(Point) /\ area_twice(indices') = area_twice(indices) - cross(a, b, c)
    BY <1>1, <2>1, <2>2, <2>3, <2>5, EarTaken
  <2>7. /\ triangles' \in Seq(Seq(Point))
        /\ Area(triangles') = Area(triangles) + cross(a, b, c)
    <3>1. <<a, b, c>> \in Seq(Point) /\ area_twice(<<a, b, c>>) = cross(a, b, c)
      BY AreaOfTriangle
    <3>2. triangles' = Append(triangles, <<a, b, c>>)
      BY <2>1, <2>3
    <3> QED BY <1>1, <3>1, <3>2, AreaMore
  <2>8. Area(triangles') + area_twice(indices') = area_twice(polygon')
    BY <1>1, <1>2, <2>4, <2>6, <2>7
  <2> QED BY <1>1, <1>2, <2>1, <2>6, <2>7, <2>8 DEF AreaInv
<1>5. CASE Len(indices) # 3 /\ ~\E i \in DOMAIN indices : is_ear(indices, i)
  <2>1. pc' = "raised"
    BY <1>1, <1>5 DEF Cut
  <2> QED BY <1>1, <1>2, <2>1 DEF AreaInv
<1> QED BY <1>3, <1>4, <1>5

(* However many vertices the boundary has, straight or not, and in whatever *)
(* order it comes: the area that the triangles of triangulate_polygon have *)
(* together is the boundary's (mesh.py:85-138).                            *)
THEOREM AreaIsKept == MeshSpec => []AreaKept
<1>1. MeshInit => AreaInv
  BY Starts
<1>2. AreaInv /\ [MeshNext]_<<vars, mesh_vars>> => AreaInv'
  <2> SUFFICES ASSUME AreaInv, [MeshNext]_<<vars, mesh_vars>> PROVE AreaInv'
    OBVIOUS
  <2>1. CASE Normalize
    BY <2>1, Normalizes
  <2>2. CASE Cut
    BY <2>2, Cuts
  <2>3. ASSUME /\ boundary' = boundary /\ polygon' = polygon /\ triangles' = triangles
               /\ pc' \in {"limited", "clipping", "built"}
        PROVE  AreaInv'
    <3>1. area_twice(polygon') = area_twice(polygon) /\ area_twice(boundary') = area_twice(boundary)
      BY <2>3
    <3> QED BY <2>3, <3>1 DEF AreaInv
  <2>4. ASSUME UNCHANGED <<boundary, polygon, indices, triangles, pc>> PROVE AreaInv'
    <3>1. /\ area_twice(polygon') = area_twice(polygon) /\ area_twice(boundary') = area_twice(boundary)
          /\ area_twice(indices') = area_twice(indices) /\ Area(triangles') = Area(triangles)
          /\ (Injective(polygon))' = Injective(polygon)
      BY <2>4 DEF Injective
    <3> QED BY <2>4, <3>1 DEF AreaInv
  <2>5. CASE Surface
    BY <2>3, <2>5 DEF Surface
  <2>6. CASE Clip
    <3>1. UNCHANGED <<boundary, polygon, indices, triangles>> /\ (pc' = "limited" \/ pc' = pc)
      BY <2>6 DEF Clip
    <3> QED BY <2>3, <2>4, <3>1
  <2>7. CASE Sides
    BY <2>3, <2>7 DEF Sides
  <2>8. CASE UNCHANGED <<vars, mesh_vars>>
    BY <2>4, <2>8 DEF vars
  <2> QED BY <2>1, <2>2, <2>5, <2>6, <2>7, <2>8 DEF MeshNext, Next
<1>3. AreaInv => AreaKept
  BY DEF AreaInv, AreaKept
<1> QED BY <1>1, <1>2, <1>3, PTL DEF MeshSpec

=============================================================================
