----------------------------- MODULE HPMCLemmas -----------------------------
(***************************************************************************)
(* Lemmas about HPMC, for every decomposition: the geometry of domains,    *)
(* ghost layers and active regions, and what a rank finds in its tree; then*)
(* the steps of IntegratorHPMCMono::update, which keep the inductive       *)
(* invariant and make no overlap.                                          *)
(***************************************************************************)
EXTENDS HPMC, TLAPS

-----------------------------------------------------------------------------
(***************************************************************************)
(* Arithmetic: a length in the box is a fraction times the box length.     *)
(***************************************************************************)

\* Scaling by a box length keeps the order of two fractions.
LEMMA ScaleMonotone ==
    ASSUME NEW x \in Int, NEW y \in Int, NEW l \in Nat, x <= y
    PROVE  x * l <= y * l
  OBVIOUS

\* A fraction whose scaled value is below that of the whole is below it.
LEMMA ScaleCancel ==
    ASSUME NEW x \in Int, NEW f \in Nat, NEW d \in Nat, NEW l \in Nat,
           d < l, 0 < f, x * l < d * f
    PROVE  x < f
  <1>1. SUFFICES ASSUME f <= x PROVE FALSE
    OBVIOUS
  <1>2. f * l <= x * l
    BY <1>1, ScaleMonotone
  <1>3. d * f <= l * f
    BY ScaleMonotone
  <1> QED
    BY <1>2, <1>3

-----------------------------------------------------------------------------
(***************************************************************************)
(* The decomposition.                                                      *)
(***************************************************************************)

\* What the boundaries of the domains satisfy along each axis.
LEMMA Domains ==
    ASSUME WellCut(cuts), NEW a \in Axes
    PROVE  /\ Extent(a) \in Nat /\ Extent(a) >= 1
           /\ F(a) \in Nat /\ 0 < F(a)
           /\ \A r \in Ranks : /\ r[a] \in 0 .. Extent(a) - 1
                               /\ Lo(r, a) \in Nat /\ Hi(r, a) \in Nat
                               /\ Lo(r, a) < Hi(r, a) /\ Hi(r, a) <= F(a)
           /\ \A r, s \in Ranks : r[a] < s[a] => Hi(r, a) <= Lo(s, a)
  <1> DEFINE c == cuts[a]
             n == Len(c)
  <1>1. c \in Seq(Nat) /\ n \in Nat /\ n >= 2 /\ c[1] = 0
    BY DEF WellCut, Axes
  <1>2. \A i \in 1 .. n : c[i] \in Nat
    BY <1>1
  <1>3. \A i, j \in 1 .. n : i < j => c[i] < c[j]
    BY Zenon DEF WellCut, Axes
  <1> HIDE DEF c, n
  <1>4. Extent(a) = n - 1 /\ F(a) = c[n]
    BY Zenon DEF Extent, F, c, n
  <1>5. ASSUME NEW r \in Ranks
        PROVE  /\ r[a] \in 0 .. n - 2 /\ Lo(r, a) = c[r[a] + 1] /\ Hi(r, a) = c[r[a] + 2]
    BY <1>1 DEF Ranks, Extent, Axes, Lo, Hi, c, n
  <1>6. F(a) \in Nat /\ 0 < F(a)
    BY <1>1, <1>2, <1>3, <1>4
  <1>7. ASSUME NEW r \in Ranks
        PROVE  /\ Lo(r, a) \in Nat /\ Hi(r, a) \in Nat
               /\ Lo(r, a) < Hi(r, a) /\ Hi(r, a) <= F(a)
    <2>1. r[a] + 1 \in 1 .. n /\ r[a] + 2 \in 1 .. n /\ r[a] + 1 < r[a] + 2
      BY <1>1, <1>5
    <2>2. c[r[a] + 2] <= c[n]
      <3>1. CASE r[a] + 2 = n
        BY <3>1, <1>1, <1>2
      <3>2. CASE r[a] + 2 < n
        BY <3>2, <2>1, <1>1, <1>2, <1>3
      <3> QED
        BY <3>1, <3>2, <2>1, <1>1
    <2> QED
      BY Zenon, <2>1, <2>2, <1>2, <1>3, <1>4, <1>5
  <1>8. ASSUME NEW r \in Ranks, NEW s \in Ranks, r[a] < s[a]
        PROVE  Hi(r, a) <= Lo(s, a)
    <2>0. r[a] \in 0 .. n - 2 /\ s[a] \in 0 .. n - 2
      BY Zenon, <1>5
    <2>1. r[a] + 2 \in 1 .. n /\ s[a] + 1 \in 1 .. n /\ r[a] + 2 <= s[a] + 1
      BY SMTT(30), <2>0, <1>1, <1>8
    <2>2. CASE r[a] + 2 = s[a] + 1
      BY <2>1, <2>2, <1>2, <1>5
    <2>3. CASE r[a] + 2 < s[a] + 1
      BY <2>1, <2>3, <1>2, <1>3, <1>5
    <2> QED
      BY <2>1, <2>2, <2>3, <1>1, <1>5
  <1> QED
    BY <1>1, <1>4, <1>5, <1>6, <1>7, <1>8

\* Two different ranks are apart along some axis, which is decomposed.
LEMMA RanksDiffer ==
    ASSUME WellCut(cuts), NEW r \in Ranks, NEW s \in Ranks, r # s
    PROVE  \E a \in Axes : Extent(a) > 1 /\ (r[a] < s[a] \/ s[a] < r[a])
  <1>1. /\ Extent(1) \in Nat /\ Extent(2) \in Nat
    BY Zenon, Domains DEF Axes
  <1>2. r[1] \in Int /\ s[1] \in Int /\ r[2] \in Int /\ s[2] \in Int
    BY <1>1 DEF Ranks
  <1>3. r[1] # s[1] \/ r[2] # s[2]
    BY DEF Ranks
  <1>4. \A a \in Axes : r[a] # s[a] => Extent(a) > 1
    BY <1>1 DEF Ranks, Axes
  <1> QED
    BY <1>2, <1>3, <1>4 DEF Axes

\* Every point of the box lies in the domain of a rank.
LEMMA HolderExists ==
    ASSUME WellCut(cuts), NEW p \in Points
    PROVE  Holder(p) \in Ranks /\ InDomain(Holder(p), p)
  <1>1. ASSUME NEW a \in Axes, NEW x \in 0 .. F(a) - 1
        PROVE  \E i \in 0 .. Extent(a) - 1 : cuts[a][i + 1] <= x /\ x < cuts[a][i + 2]
    <2>1. PICK j \in 1 .. Len(cuts[a]) - 1 : cuts[a][j] <= x /\ x < cuts[a][j + 1]
      BY Zenon DEF WellCut, F
    <2>2. Len(cuts[a]) \in Nat
      BY DEF WellCut, Axes
    <2>3. j - 1 \in 0 .. Extent(a) - 1 /\ (j - 1) + 1 = j /\ (j - 1) + 2 = j + 1
      BY <2>2 DEF Extent
    <2> QED
      BY <2>1, <2>3
  <1>2. p[1] \in 0 .. F(1) - 1 /\ p[2] \in 0 .. F(2) - 1
    BY DEF Points
  <1>3. PICK i \in 0 .. Extent(1) - 1 : cuts[1][i + 1] <= p[1] /\ p[1] < cuts[1][i + 2]
    BY Zenon, <1>1, <1>2 DEF Axes
  <1>4. PICK j \in 0 .. Extent(2) - 1 : cuts[2][j + 1] <= p[2] /\ p[2] < cuts[2][j + 2]
    BY <1>1, <1>2 DEF Axes
  <1>5. <<i, j>> \in Ranks /\ InDomain(<<i, j>>, p)
    BY <1>3, <1>4 DEF Ranks, InDomain, Lo, Hi, Axes
  <1> QED
    BY <1>5 DEF Holder

-----------------------------------------------------------------------------
(***************************************************************************)
(* Geometry.                                                               *)
(***************************************************************************)

\* Along one axis: x lies more than a diameter below the upper face hx of its
\* domain, y likewise below hy, and y lies above hx.  Then neither the two nor
\* their periodic images are within a diameter.
LEMMA Gap ==
    ASSUME NEW x \in Int, NEW y \in Int, NEW hx \in Int, NEW hy \in Int,
           NEW f \in Nat, NEW l \in Nat, NEW d \in Nat, NEW k \in {-1, 0, 1},
           0 <= x, 0 <= y, hx <= y, hy <= f, hx <= f,
           (hx - x) * l > d * f, (hy - y) * l > d * f
    PROVE  ~(Abs(x - y + k * f) * l < d * f) /\ ~(Abs(y - x + k * f) * l < d * f)
  <1> DEFINE m == Abs(x - y + k * f)
             n == Abs(y - x + k * f)
  <1>1. m \in Int /\ n \in Int /\ hx - x \in Int /\ hy - y \in Int
    BY DEF Abs
  <1>2. x < hx /\ y < hy
    <2>1. ASSUME NEW z \in Int, z * l > d * f PROVE z > 0
      <3>1. d * f >= 0
        OBVIOUS
      <3>2. z <= 0 => z * l <= 0 * l
        BY ScaleMonotone
      <3> QED
        BY <2>1, <3>1, <3>2
    <2> QED
      BY <2>1, <1>1
  <1>3. /\ m >= hx - x \/ m >= hy - y
        /\ n >= hx - x \/ n >= hy - y
    <2>1. CASE k = 0
      BY <2>1, <1>2 DEF Abs
    <2>2. CASE k = 1
      BY <2>2, <1>2 DEF Abs
    <2>3. CASE k = -1
      BY <2>3, <1>2 DEF Abs
    <2> QED
      BY Zenon, <2>1, <2>2, <2>3
  <1> HIDE DEF m, n
  <1>4. /\ m * l >= (hx - x) * l \/ m * l >= (hy - y) * l
        /\ n * l >= (hx - x) * l \/ n * l >= (hy - y) * l
    BY Zenon, <1>1, <1>3, ScaleMonotone
  <1>5. ~(m * l < d * f) /\ ~(n * l < d * f)
    BY <1>1, <1>4
  <1> QED
    BY <1>5 DEF m, n

\* Particles in the active regions of two ranks do not overlap: what lets the
\* ranks move them at the same time.
LEMMA ActiveApart ==
    ASSUME WellCut(cuts), L \in Nat \X Nat, D \in Nat,
           NEW r \in Ranks, NEW s \in Ranks, r # s,
           NEW p \in Points, NEW q \in Points,
           InDomain(r, p), isActive(r, p), InDomain(s, q), isActive(s, q)
    PROVE  ~Overlap(p, q, L, D)
  <1>1. PICK a \in Axes : Extent(a) > 1 /\ (r[a] < s[a] \/ s[a] < r[a])
    BY RanksDiffer
  <1>2. /\ F(a) \in Nat
        /\ Lo(r, a) \in Nat /\ Hi(r, a) \in Nat /\ Hi(r, a) <= F(a)
        /\ Lo(s, a) \in Nat /\ Hi(s, a) \in Nat /\ Hi(s, a) <= F(a)
        /\ r[a] < s[a] => Hi(r, a) <= Lo(s, a)
        /\ s[a] < r[a] => Hi(s, a) <= Lo(r, a)
    BY Zenon, Domains
  <1>3. p[a] \in Int /\ q[a] \in Int /\ 0 <= p[a] /\ 0 <= q[a]
    BY <1>2, Domains DEF Points, Axes
  <1>4. L[a] \in Nat /\ Hi(r, a) \in Int /\ Hi(s, a) \in Int
    BY <1>2 DEF Axes
  <1>5. /\ Lo(r, a) <= p[a] /\ Lo(s, a) <= q[a]
        /\ (Hi(r, a) - p[a]) * L[a] > D * F(a)
        /\ (Hi(s, a) - q[a]) * L[a] > D * F(a)
    BY <1>1 DEF InDomain, isActive
  <1>6. ASSUME NEW k \in {-1, 0, 1} PROVE ~(Abs(p[a] - q[a] + k * F(a)) * L[a] < D * F(a))
    <2>1. CASE r[a] < s[a]
      <3>1. Hi(r, a) <= q[a]
        BY <2>1, <1>2, <1>3, <1>5
      <3> QED
        BY <3>1, <1>2, <1>3, <1>4, <1>5, Gap, Zenon
    <2>2. CASE s[a] < r[a]
      <3>1. Hi(s, a) <= p[a]
        BY <2>2, <1>2, <1>3, <1>5
      <3> QED
        BY <3>1, <1>2, <1>3, <1>4, <1>5, Gap, Zenon
    <2> QED
      BY <2>1, <2>2, <1>1
  <1> QED
    BY <1>6 DEF Overlap

\* The coordinates of a point.
LEMMA PointCoordinates ==
    ASSUME WellCut(cuts), NEW p \in Points, NEW a \in Axes
    PROVE  p[a] \in Int /\ 0 <= p[a] /\ p[a] < F(a)
  BY Domains DEF Points, Axes

\* Absolute values and scaling.
LEMMA AbsScale ==
    ASSUME NEW x \in Int, NEW y \in Int, NEW l \in Nat
    PROVE  Abs(x * l - y * l) = Abs(x - y) * l /\ Abs(x - y) \in Nat
  <1>1. x * l - y * l = (x - y) * l
    OBVIOUS
  <1>2. CASE x < y
    <2>1. x * l <= y * l
      BY <1>2, ScaleMonotone
    <2>2. (-(x - y)) * l = -((x - y) * l)
      OBVIOUS
    <2>3. CASE (x - y) * l < 0
      BY <1>1, <1>2, <2>2, <2>3 DEF Abs
    <2>4. CASE (x - y) * l = 0
      BY <1>1, <1>2, <2>2, <2>4 DEF Abs
    <2> QED
      BY <1>1, <2>1, <2>3, <2>4
  <1>3. CASE y <= x
    <2>1. y * l <= x * l
      BY <1>3, ScaleMonotone
    <2> QED
      BY <1>1, <1>3, <2>1 DEF Abs
  <1> QED
    BY <1>2, <1>3

\* The distance of two points does not depend on their order.
LEMMA AbsSwap ==
    ASSUME NEW x \in Int, NEW y \in Int, NEW z \in Int
    PROVE  Abs(y - (x + z)) = Abs(x - y + z)
  BY DEF Abs

\* The images of a box next to it, and itself.
Around == {-1, 0, 1} \X {-1, 0, 1}

\* How a rank sees the meeting of its particle, shifted by the image m, with
\* another one at q: along a decomposed axis the other one is shifted instead.
Searched(m, a) == IF Extent(a) > 1 THEN 0 ELSE m[a]

SearchedImage(m) == <<Searched(m, 1), Searched(m, 2)>>

FoundAt(q, m) ==
    <<q[1] + (Searched(m, 1) - m[1]) * F(1), q[2] + (Searched(m, 2) - m[2]) * F(2)>>

\* The coordinates of an image.
LEMMA ImageAt ==
    ASSUME WellCut(cuts), NEW p \in Int \X Int, NEW k \in Int \X Int
    PROVE  /\ Image(p, k) \in Int \X Int
           /\ \A a \in Axes : Image(p, k)[a] = p[a] + k[a] * F(a)
  <1>1. F(1) \in Int /\ F(2) \in Int
    BY Domains DEF Axes
  <1> QED
    BY <1>1 DEF Image, Axes

\* A box of the tree that was computed with the present box and shape
\* overlaps the query when the shapes do.
LEMMA CurrentAABB ==
    ASSUME WellCut(cuts), NEW l \in Nat \X Nat, NEW d \in Nat, NEW t,
           NEW i \in Int \X Int, NEW p \in Int \X Int, test_overlap(i, p, l, d)
    PROVE  overlaps(AABB(t, i, l, d), p, l, d)
  <1>1. SUFFICES ASSUME NEW a \in Axes
                 PROVE  2 * Abs(i[a] * l[a] - p[a] * l[a]) <= (d + d) * F(a)
    BY DEF overlaps, AABB
  <1>2. Abs(i[a] - p[a]) * l[a] < d * F(a)
    BY DEF test_overlap
  <1>3. i[a] \in Int /\ p[a] \in Int /\ l[a] \in Nat /\ F(a) \in Nat
    BY Domains DEF Axes
  <1>4. /\ Abs(i[a] * l[a] - p[a] * l[a]) = Abs(i[a] - p[a]) * l[a]
        /\ Abs(i[a] - p[a]) \in Nat
    BY <1>3, AbsScale
  <1>5. ASSUME NEW m \in Nat, NEW f \in Nat, m < d * f PROVE 2 * m <= (d + d) * f
    BY <1>5
  <1>6. 2 * (Abs(i[a] - p[a]) * l[a]) <= (d + d) * F(a)
    BY <1>2, <1>3, <1>4, <1>5
  <1> QED
    BY <1>4, <1>6

\* Along one axis: when an image of the first point is within a diameter of
\* the second, the rank of the first has the second within its layer, and
\* sees the same distance.
LEMMA FoundAlong ==
    ASSUME WellCut(cuts), NEW r \in Ranks, NEW p \in Points, NEW q \in Points,
           NEW l \in Nat \X Nat, NEW d \in Nat, InDomain(r, p), NEW m \in Around,
           NEW a \in Axes, Abs(q[a] - (p[a] + m[a] * F(a))) * l[a] < d * F(a)
    PROVE  LET k == Searched(m, a)
               i == q[a] + (k - m[a]) * F(a)
           IN  /\ k - m[a] \in Turns(a) /\ k \in updateImageList(a)
               /\ Extent(a) > 1 => /\ (Lo(r, a) - i) * l[a] <= d * F(a)
                                   /\ (i - Hi(r, a)) * l[a] < d * F(a)
               /\ Abs(i - (p[a] + k * F(a))) * l[a] < d * F(a)
  <1>1. /\ Extent(a) \in Nat /\ F(a) \in Nat /\ Lo(r, a) \in Int /\ Hi(r, a) \in Int
        /\ p[a] \in Int /\ q[a] \in Int /\ l[a] \in Nat
        /\ Lo(r, a) <= p[a] /\ p[a] < Hi(r, a)
    BY Domains, PointCoordinates DEF InDomain, Axes
  <1>2. m[a] \in {-1, 0, 1}
    BY DEF Around, Axes
  <1>3. PICK f \in Int : f = m[a] * F(a)
    BY <1>1, <1>2
  <1>4. (0 - m[a]) * F(a) = -f /\ (m[a] - m[a]) * F(a) = 0 /\ 0 * F(a) = 0
    BY <1>1, <1>2, <1>3
  <1>5. CASE Extent(a) > 1
    <2> DEFINE n == Abs(q[a] - (p[a] + f))
               i == q[a] + (0 - m[a]) * F(a)
    <2>1. Searched(m, a) = 0 /\ 0 - m[a] \in Turns(a) /\ 0 \in updateImageList(a)
      BY <1>2, <1>5 DEF Searched, Turns, updateImageList
    <2>2. /\ i \in Int /\ n \in Nat
          /\ Lo(r, a) - i <= n /\ i - Hi(r, a) <= n /\ Abs(i - (p[a] + 0 * F(a))) = n
      BY <1>1, <1>4 DEF Abs
    <2>3. n * l[a] < d * F(a)
      BY <1>3
    <2> HIDE DEF n, i
    <2>4. (Lo(r, a) - i) * l[a] <= n * l[a] /\ (i - Hi(r, a)) * l[a] <= n * l[a]
      BY <2>2, <1>1, ScaleMonotone
    <2>5. (Lo(r, a) - i) * l[a] <= d * F(a) /\ (i - Hi(r, a)) * l[a] < d * F(a)
      BY <2>2, <2>3, <2>4, <1>1
    <2> QED
      BY Zenon, <2>1, <2>2, <2>3, <2>5 DEF i
  <1>6. CASE ~(Extent(a) > 1)
    <2>1. Searched(m, a) = m[a] /\ m[a] - m[a] \in Turns(a) /\ m[a] \in updateImageList(a)
      BY <1>2, <1>6 DEF Searched, Turns, updateImageList
    <2>2. q[a] + (m[a] - m[a]) * F(a) = q[a]
      BY <1>1, <1>4
    <2> QED
      BY Zenon, <2>1, <2>2, <1>6
  <1> QED
    BY Zenon, <1>5, <1>6

\* A rank sees what overlaps an image of a particle of its domain, as an image
\* within the ghost layer.
LEMMA FoundGhost ==
    ASSUME WellCut(cuts), NEW r \in Ranks, NEW p \in Points, NEW q \in Points,
           NEW l \in Nat \X Nat, NEW d \in Nat, InDomain(r, p), NEW m \in Around,
           test_overlap(q, Image(p, m), l, d)
    PROVE  /\ FoundAt(q, m) \in Images(q) /\ FoundAt(q, m) \in Int \X Int
           /\ InLayer(r, FoundAt(q, m), l, d)
           /\ SearchedImage(m) \in m_image_list /\ SearchedImage(m) \in Int \X Int
           /\ test_overlap(FoundAt(q, m), Image(p, SearchedImage(m)), l, d)
  <1> DEFINE i == FoundAt(q, m)
             k == SearchedImage(m)
  <1>1. /\ F(1) \in Int /\ F(2) \in Int /\ p \in Int \X Int /\ q[1] \in Int /\ q[2] \in Int
        /\ m \in Int \X Int
    BY Domains, PointCoordinates DEF Axes, Points, Around
  <1>2. \A a \in Axes : Abs(q[a] - (p[a] + m[a] * F(a))) * l[a] < d * F(a)
    <2>1. \A a \in Axes : Image(p, m)[a] = p[a] + m[a] * F(a)
      BY Zenon, <1>1, ImageAt
    <2> QED
      BY Zenon, <2>1 DEF test_overlap
  <1>3. ASSUME NEW a \in Axes
        PROVE  /\ Searched(m, a) - m[a] \in Turns(a) /\ Searched(m, a) \in updateImageList(a)
               /\ Extent(a) > 1 =>
                    /\ (Lo(r, a) - (q[a] + (Searched(m, a) - m[a]) * F(a))) * l[a] <= d * F(a)
                    /\ ((q[a] + (Searched(m, a) - m[a]) * F(a)) - Hi(r, a)) * l[a] < d * F(a)
               /\ Abs((q[a] + (Searched(m, a) - m[a]) * F(a)) - (p[a] + Searched(m, a) * F(a)))
                    * l[a] < d * F(a)
    BY Zenon, <1>2, FoundAlong
  <1>4. k[1] = Searched(m, 1) /\ k[2] = Searched(m, 2) /\ k \in m_image_list
    BY <1>3 DEF SearchedImage, m_image_list, Axes
  <1>5. k \in Int \X Int
    BY <1>3 DEF SearchedImage, updateImageList, Axes
  <1>6. /\ i[1] = q[1] + (Searched(m, 1) - m[1]) * F(1)
        /\ i[2] = q[2] + (Searched(m, 2) - m[2]) * F(2)
    BY DEF FoundAt
  <1>7. i \in Images(q)
    BY <1>3 DEF FoundAt, Images, Axes
  <1>8. i \in Int \X Int
    <2>1. Searched(m, 1) \in Int /\ Searched(m, 2) \in Int
      BY <1>4, <1>5
    <2> QED
      BY <2>1, <1>1 DEF FoundAt
  <1> HIDE DEF i, k
  <1>9. InLayer(r, i, l, d)
    BY Zenon, <1>3, <1>6 DEF InLayer, Axes
  <1>10. \A a \in Axes : Image(p, k)[a] = p[a] + k[a] * F(a)
    BY Zenon, <1>1, <1>5, ImageAt
  <1>11. \A a \in Axes : k[a] = Searched(m, a) /\ i[a] = q[a] + (Searched(m, a) - m[a]) * F(a)
    BY Zenon, <1>4, <1>6 DEF Axes
  <1>12. test_overlap(i, Image(p, k), l, d)
    BY Zenon, <1>3, <1>10, <1>11 DEF test_overlap
  <1> QED
    BY Zenon, <1>4, <1>5, <1>7, <1>8, <1>9, <1>12 DEF i, k

\* Along a decomposed axis every domain has another one beside it.
LEMMA OtherDomain ==
    ASSUME WellCut(cuts), NEW a \in Axes, Extent(a) > 1, NEW r \in Ranks
    PROVE  \E s \in Ranks : r[a] < s[a] \/ s[a] < r[a]
  <1>1. Extent(1) \in Nat /\ Extent(2) \in Nat
    BY Domains DEF Axes
  <1>2. r = <<r[1], r[2]>> /\ r[1] \in 0 .. Extent(1) - 1 /\ r[2] \in 0 .. Extent(2) - 1
    BY DEF Ranks
  <1> DEFINE o == IF r[a] = 0 THEN 1 ELSE 0
  <1>3. CASE a = 1
    <2>1. <<o, r[2]>> \in Ranks /\ (r[1] < o \/ o < r[1])
      BY <1>1, <1>2, <1>3 DEF Ranks
    <2> QED
      BY <2>1, <1>3
  <1>4. CASE a = 2
    <2>1. <<r[1], o>> \in Ranks /\ (r[2] < o \/ o < r[2])
      BY <1>1, <1>2, <1>4 DEF Ranks
    <2> QED
      BY <2>1, <1>4
  <1> QED
    BY <1>3, <1>4 DEF Axes

\* Two particles of one domain meet inside it and not around the box, as the
\* other domains are wider than the ghost layer.
LEMMA FoundLocal ==
    ASSUME WellCut(cuts), NEW r \in Ranks, NEW p \in Points, NEW q \in Points,
           NEW l \in Nat \X Nat, NEW d \in Nat, InDomain(r, p), InDomain(r, q),
           checkBoxSize(l, d), NEW m \in Around, test_overlap(q, Image(p, m), l, d)
    PROVE  FoundAt(q, m) = q
  <1>1. ASSUME NEW a \in Axes
        PROVE  q[a] + (Searched(m, a) - m[a]) * F(a) = q[a]
    <2>1. /\ Extent(a) \in Nat /\ F(a) \in Nat /\ Lo(r, a) \in Nat /\ Hi(r, a) \in Nat
          /\ Hi(r, a) <= F(a)
          /\ p[a] \in Int /\ q[a] \in Int /\ l[a] \in Nat
          /\ Lo(r, a) <= p[a] /\ p[a] < Hi(r, a) /\ Lo(r, a) <= q[a] /\ q[a] < Hi(r, a)
      BY Zenon, Domains, PointCoordinates DEF InDomain, Axes
    <2>2. m[a] \in {-1, 0, 1}
      BY DEF Around, Axes
    <2>3. Abs(q[a] - (p[a] + m[a] * F(a))) * l[a] < d * F(a)
      <3>1. p \in Int \X Int /\ m \in Int \X Int
        BY Domains, PointCoordinates DEF Axes, Points, Around
      <3>2. Image(p, m)[a] = p[a] + m[a] * F(a)
        BY Zenon, <3>1, ImageAt
      <3> QED
        BY Zenon, <3>2 DEF test_overlap
    <2>4. CASE ~(Extent(a) > 1)
      BY <2>1, <2>2, <2>4 DEF Searched
    <2>5. CASE Extent(a) > 1
      <3>1. PICK s \in Ranks : r[a] < s[a] \/ s[a] < r[a]
        BY <2>5, OtherDomain
      <3>2. /\ Lo(s, a) \in Nat /\ Hi(s, a) \in Nat /\ Hi(s, a) <= F(a)
            /\ Hi(r, a) <= Lo(s, a) \/ Hi(s, a) <= Lo(r, a)
        BY <3>1, Domains
      <3>3. 2 * d * F(a) < (Hi(s, a) - Lo(s, a)) * l[a]
        BY Zenon, <2>5 DEF checkBoxSize
      <3>4. ASSUME m[a] # 0 PROVE FALSE
        <4> DEFINE n == Abs(q[a] - (p[a] + m[a] * F(a)))
        <4>1. m[a] * F(a) = F(a) \/ m[a] * F(a) = -F(a)
          BY <2>1, <2>2, <3>4
        <4>2. n \in Int /\ Hi(s, a) - Lo(s, a) \in Int /\ Hi(s, a) - Lo(s, a) <= n
          BY <4>1, <2>1, <3>2 DEF Abs
        <4>3. n * l[a] < d * F(a)
          BY Zenon, <2>3
        <4> HIDE DEF n
        <4>4. (Hi(s, a) - Lo(s, a)) * l[a] <= n * l[a]
          BY Zenon, <4>2, <2>1, ScaleMonotone
        <4>5. ASSUME NEW x \in Int, NEW y \in Int, NEW f \in Nat,
                     2 * d * f < x, x <= y, y < d * f
              PROVE  FALSE
          <5>1. d * f >= 0 /\ 2 * d * f = 2 * (d * f)
            OBVIOUS
          <5> QED
            BY <4>5, <5>1
        <4>6. (Hi(s, a) - Lo(s, a)) * l[a] \in Int /\ n * l[a] \in Int
          BY <4>2, <2>1
        <4> QED
          BY Zenon, <4>3, <4>4, <4>5, <4>6, <3>3, <2>1
      <3> QED
        BY <3>4, <2>1, <2>2, <2>5 DEF Searched
    <2> QED
      BY Zenon, <2>4, <2>5
  <1>2. q = <<q[1], q[2]>>
    BY DEF Points
  <1> QED
    BY Zenon, <1>1, <1>2 DEF FoundAt, Axes

\* Two particles overlap when an image of one meets the other.
LEMMA OverlapMeets ==
    ASSUME WellCut(cuts), NEW p \in Points, NEW q \in Points, NEW l, NEW d
    PROVE  /\ Overlap(p, q, l, d) => \E m \in Around : test_overlap(q, Image(p, m), l, d)
           /\ \A m \in Around : test_overlap(q, Image(p, m), l, d) => Overlap(p, q, l, d)
  <1>1. /\ p \in Int \X Int /\ \A a \in Axes : F(a) \in Nat /\ p[a] \in Int /\ q[a] \in Int
    BY Domains, PointCoordinates DEF Axes, Points
  <1>2. ASSUME NEW m \in Around
        PROVE  \A a \in Axes : /\ m[a] \in {-1, 0, 1}
                               /\ Image(p, m)[a] = p[a] + m[a] * F(a)
    <2>1. m \in Int \X Int /\ \A a \in Axes : m[a] \in {-1, 0, 1}
      BY DEF Around, Axes
    <2> QED
      BY Zenon, <2>1, <1>1, ImageAt
  <1>3. ASSUME NEW a \in Axes, NEW k \in {-1, 0, 1}
        PROVE  Abs(q[a] - (p[a] + k * F(a))) = Abs(p[a] - q[a] + k * F(a))
    <2>1. k * F(a) \in Int
      BY <1>1
    <2> QED
      BY Zenon, <2>1, <1>1, AbsSwap
  <1>4. ASSUME Overlap(p, q, l, d) PROVE \E m \in Around : test_overlap(q, Image(p, m), l, d)
    <2>1. PICK j \in {-1, 0, 1} : Abs(p[1] - q[1] + j * F(1)) * l[1] < d * F(1)
      BY Zenon, <1>4 DEF Overlap, Axes
    <2>2. PICK k \in {-1, 0, 1} : Abs(p[2] - q[2] + k * F(2)) * l[2] < d * F(2)
      BY Zenon, <1>4 DEF Overlap, Axes
    <2> DEFINE m == <<j, k>>
    <2>3. m \in Around /\ m[1] = j /\ m[2] = k
      BY DEF Around
    <2> HIDE DEF m
    <2>4. test_overlap(q, Image(p, m), l, d)
      BY Zenon, <2>1, <2>2, <2>3, <1>2, <1>3 DEF test_overlap, Axes
    <2> QED
      BY Zenon, <2>3, <2>4
  <1>5. ASSUME NEW m \in Around, test_overlap(q, Image(p, m), l, d) PROVE Overlap(p, q, l, d)
    BY Zenon, <1>2, <1>3, <1>5 DEF test_overlap, Overlap
  <1> QED
    BY Zenon, <1>4, <1>5

\* A displacement by no more than the box leads back into the box.
LEMMA MovedPoint ==
    ASSUME WellCut(cuts), NEW p \in Points, NEW v \in Int \X Int,
           \A a \in Axes : Abs(v[a]) <= F(a)
    PROVE  /\ Moved(p, v) \in Points
           /\ \A a \in Axes : Moved(p, v)[a] = wrap(p[a] + v[a], a)
  <1>1. ASSUME NEW a \in Axes PROVE wrap(p[a] + v[a], a) \in 0 .. F(a) - 1
    <2>1. F(a) \in Nat /\ p[a] \in Int /\ 0 <= p[a] /\ p[a] < F(a) /\ v[a] \in Int
      BY Domains, PointCoordinates DEF Axes
    <2>2. Abs(v[a]) <= F(a)
      OBVIOUS
    <2> QED
      BY <2>1, <2>2 DEF wrap, Abs
  <1>2. 1 \in Axes /\ 2 \in Axes
    BY Zenon DEF Axes
  <1>3. Moved(p, v) = <<wrap(p[1] + v[1], 1), wrap(p[2] + v[2], 2)>>
    BY Zenon DEF Moved
  <1> QED
    BY <1>1, <1>2, <1>3 DEF Points, Axes

\* The grid shift, the same for all particles, makes no overlap.
LEMMA ShiftKeepsOverlaps ==
    ASSUME WellCut(cuts), NEW p \in Points, NEW q \in Points, NEW v \in Int \X Int,
           \A a \in Axes : Abs(v[a]) <= F(a),
           NEW l \in Nat \X Nat, NEW d \in Nat, \A a \in Axes : d < l[a],
           Overlap(Moved(p, v), Moved(q, v), l, d)
    PROVE  Overlap(p, q, l, d)
  <1>1. SUFFICES ASSUME NEW a \in Axes
                 PROVE  \E k \in {-1, 0, 1} : Abs(p[a] - q[a] + k * F(a)) * l[a] < d * F(a)
    BY Zenon DEF Overlap
  <1> DEFINE x == wrap(p[a] + v[a], a)
             y == wrap(q[a] + v[a], a)
  <1>2. PICK k \in {-1, 0, 1} : Abs(x - y + k * F(a)) * l[a] < d * F(a)
    BY Zenon, MovedPoint DEF Overlap
  <1>3. /\ F(a) \in Nat /\ 0 < F(a) /\ p[a] \in Int /\ 0 <= p[a] /\ p[a] < F(a)
        /\ q[a] \in Int /\ 0 <= q[a] /\ q[a] < F(a) /\ v[a] \in Int /\ l[a] \in Nat
    BY Zenon, Domains, PointCoordinates DEF Axes
  <1>4. x \in Int /\ y \in Int
    BY <1>3 DEF wrap
  <1>5. k * F(a) = F(a) \/ k * F(a) = -F(a) \/ k * F(a) = 0
    BY <1>3
  <1>6. Abs(x - y + k * F(a)) \in Int
    BY <1>3, <1>4, <1>5 DEF Abs
  <1>7. Abs(x - y + k * F(a)) < F(a)
    BY Zenon, <1>2, <1>3, <1>6, ScaleCancel
  <1>8. /\ x = p[a] + v[a] \/ x = p[a] + v[a] + F(a) \/ x = p[a] + v[a] - F(a)
        /\ y = q[a] + v[a] \/ y = q[a] + v[a] + F(a) \/ y = q[a] + v[a] - F(a)
    BY <1>3 DEF wrap
  <1> HIDE DEF x, y
  <1>9. ASSUME NEW z \in Int, z = F(a) \/ z = -F(a) \/ z = 0, Abs(x - y + z) < F(a)
        PROVE  \/ Abs(x - y + z) = Abs(p[a] - q[a] + F(a))
               \/ Abs(x - y + z) = Abs(p[a] - q[a] - F(a))
               \/ Abs(x - y + z) = Abs(p[a] - q[a])
    BY <1>3, <1>4, <1>8, <1>9 DEF Abs
  <1>10. \/ Abs(x - y + k * F(a)) = Abs(p[a] - q[a] + F(a))
         \/ Abs(x - y + k * F(a)) = Abs(p[a] - q[a] - F(a))
         \/ Abs(x - y + k * F(a)) = Abs(p[a] - q[a])
    BY <1>3, <1>5, <1>7, <1>9
  <1>11. /\ p[a] - q[a] + F(a) = p[a] - q[a] + 1 * F(a)
         /\ p[a] - q[a] - F(a) = p[a] - q[a] + (-1) * F(a)
         /\ p[a] - q[a] = p[a] - q[a] + 0 * F(a)
    BY <1>3
  <1> QED
    BY Zenon, <1>2, <1>10, <1>11

\* Overlap is symmetric.
LEMMA OverlapSymmetric ==
    ASSUME WellCut(cuts), NEW p \in Points, NEW q \in Points, NEW l, NEW d, Overlap(p, q, l, d)
    PROVE  Overlap(q, p, l, d)
  <1>1. SUFFICES ASSUME NEW a \in Axes
                 PROVE  \E k \in {-1, 0, 1} : Abs(q[a] - p[a] + k * F(a)) * l[a] < d * F(a)
    BY Zenon DEF Overlap
  <1>2. PICK k \in {-1, 0, 1} : Abs(p[a] - q[a] + k * F(a)) * l[a] < d * F(a)
    BY Zenon DEF Overlap
  <1>3. F(a) \in Nat /\ p[a] \in Int /\ q[a] \in Int
    BY Zenon, Domains, PointCoordinates DEF Axes
  <1>4. Abs(q[a] - p[a] + (-k) * F(a)) = Abs(p[a] - q[a] + k * F(a))
    <2>1. CASE k = 0
      BY <2>1, <1>3 DEF Abs
    <2>2. CASE k = 1
      BY <2>2, <1>3 DEF Abs
    <2>3. CASE k = -1
      BY <2>3, <1>3 DEF Abs
    <2> QED
      BY Zenon, <2>1, <2>2, <2>3
  <1>5. -k \in {-1, 0, 1}
    OBVIOUS
  <1> QED
    BY Zenon, <1>2, <1>4, <1>5

-----------------------------------------------------------------------------
(***************************************************************************)
(* What a rank finds.                                                      *)
(***************************************************************************)

\* The particles are typed and each lies in the domain of its owner.
Placed ==
    /\ WellCut(cuts)
    /\ pos \in [Particles -> Points]
    /\ owner \in [Particles -> Ranks]
    /\ \A t \in Particles : InDomain(owner[t], pos[t])

\* A rank whose tree holds its own particles and the images of the others
\* within its layer finds whatever overlaps an image of a particle t placed at p.
LEMMA RankFinds ==
    ASSUME Placed, NEW r \in Ranks, NEW p \in Points, InDomain(r, p),
           NEW l \in Nat \X Nat, NEW d \in Nat, checkBoxSize(l, d),
           NEW t, NEW u \in Particles, u # t,
           NEW m \in Around, test_overlap(pos[u], Image(p, m), l, d),
           NEW T,
           owner[u] = r => AABB(u, pos[u], l, d) \in T,
           owner[u] # r => \A i \in Images(pos[u]) :
                              InLayer(r, i, l, d) => AABB(u, i, l, d) \in T
    PROVE  /\ AABB(u, FoundAt(pos[u], m), l, d) \in T
           /\ SearchedImage(m) \in m_image_list
           /\ Collides(r, t, p, AABB(u, FoundAt(pos[u], m), l, d), SearchedImage(m), l, d)
  <1> DEFINE i == FoundAt(pos[u], m)
             k == SearchedImage(m)
             e == AABB(u, i, l, d)
  <1>1. WellCut(cuts) /\ pos[u] \in Points
    BY Zenon DEF Placed
  <1>2. /\ i \in Images(pos[u]) /\ i \in Int \X Int /\ InLayer(r, i, l, d)
        /\ k \in m_image_list /\ k \in Int \X Int /\ test_overlap(i, Image(p, k), l, d)
    BY Zenon, <1>1, FoundGhost
  <1>3. ASSUME owner[u] = r PROVE i = pos[u]
    <2>1. InDomain(r, pos[u])
      BY Zenon, <1>3 DEF Placed
    <2> QED
      BY <2>1, <1>1, FoundLocal
  <1> HIDE DEF i, k
  <1>4. e.tag = u /\ e.at = i
    BY Zenon DEF AABB
  <1>5. e \in T
    BY Zenon, <1>2, <1>3
  <1>6. overlaps(e, Image(p, k), l, d)
    <2>1. p \in Int \X Int
      BY <1>1, Domains DEF Points, Axes
    <2>2. Image(p, k) \in Int \X Int
      BY Zenon, <2>1, <1>1, <1>2, ImageAt
    <2> QED
      BY Zenon, <2>2, <1>1, <1>2, CurrentAABB
  <1> HIDE DEF e
  <1>7. postype(r, t, p, e) = i
    BY Zenon, <1>3, <1>4 DEF postype
  <1>8. Collides(r, t, p, e, k, l, d)
    BY Zenon, <1>2, <1>4, <1>6, <1>7 DEF Collides
  <1> QED
    BY Zenon, <1>2, <1>5, <1>8 DEF i, k, e

\* Right after an exchange a tree holds what RankFinds asks for.
LEMMA ExchangedTree ==
    ASSUME Placed, NEW l, NEW d, NEW r \in Ranks, NEW u \in Particles
    PROVE  LET T == AABBs(r, exchangeGhosts(pos, owner, l, d), l, d)
           IN  /\ owner[u] = r => AABB(u, pos[u], l, d) \in T
               /\ owner[u] # r => \A i \in Images(pos[u]) :
                                    InLayer(r, i, l, d) => AABB(u, i, l, d) \in T
  <1> DEFINE gh == exchangeGhosts(pos, owner, l, d)
  <1>1. owner[u] = r => AABB(u, pos[u], l, d) \in AABBs(r, gh, l, d)
    BY DEF AABBs
  <1>2. ASSUME owner[u] # r, NEW i \in Images(pos[u]), InLayer(r, i, l, d)
        PROVE  AABB(u, i, l, d) \in AABBs(r, gh, l, d)
    <2>1. Ghost(u, i) \in gh[r]
      BY <1>2 DEF exchangeGhosts
    <2>2. Ghost(u, i).tag = u /\ Ghost(u, i).pos = i
      BY Zenon DEF Ghost
    <2> HIDE DEF gh
    <2> QED
      BY Zenon, <2>1, <2>2 DEF AABBs
  <1> QED
    BY Zenon, <1>1, <1>2

\* What the ranks count: a particle of each rank, a box of its tree and an image.
LEMMA CountMember ==
    ASSUME Placed, NEW tr, NEW l, NEW d
    PROVE  /\ \A c \in countOverlaps(tr, l, d) :
                \E t \in Particles : \E e \in tr[owner[t]], k \in m_image_list :
                  /\ c = <<owner[t], t, e, k>> /\ t <= e.tag
                  /\ Collides(owner[t], t, pos[t], e, k, l, d)
           /\ \A t \in Particles : \A e \in tr[owner[t]], k \in m_image_list :
                t <= e.tag /\ Collides(owner[t], t, pos[t], e, k, l, d) =>
                  <<owner[t], t, e, k>> \in countOverlaps(tr, l, d)
  <1>1. \A t \in Particles : owner[t] \in Ranks
    BY DEF Placed
  <1>2. ASSUME NEW c \in countOverlaps(tr, l, d)
        PROVE  \E t \in Particles : \E e \in tr[owner[t]], k \in m_image_list :
                  /\ c = <<owner[t], t, e, k>> /\ t <= e.tag
                  /\ Collides(owner[t], t, pos[t], e, k, l, d)
    <2>1. PICK r \in Ranks :
            c \in {<<r, t, e, k>> : t \in Particles, e \in tr[r], k \in m_image_list}
      BY DEF countOverlaps
    <2>2. PICK t \in Particles, e \in tr[r], k \in m_image_list : c = <<r, t, e, k>>
      BY <2>1
    <2>3. c[1] = r /\ c[2] = t /\ c[3] = e /\ c[4] = k
      BY <2>2
    <2>4. owner[t] = r /\ t <= e.tag /\ Collides(r, t, pos[t], e, k, l, d)
      BY <2>3 DEF countOverlaps
    <2> QED
      BY Zenon, <2>2, <2>4
  <1>3. ASSUME NEW t \in Particles, NEW e \in tr[owner[t]], NEW k \in m_image_list,
               t <= e.tag, Collides(owner[t], t, pos[t], e, k, l, d)
        PROVE  <<owner[t], t, e, k>> \in countOverlaps(tr, l, d)
    <2> DEFINE c == <<owner[t], t, e, k>>
    <2>1. c[1] = owner[t] /\ c[2] = t /\ c[3] = e /\ c[4] = k
      OBVIOUS
    <2>2. c \in {<<owner[t], x, y, z>> : x \in Particles, y \in tr[owner[t]], z \in m_image_list}
      OBVIOUS
    <2> HIDE DEF c
    <2>3. c \in UNION {{<<r, x, y, z>> : x \in Particles, y \in tr[r], z \in m_image_list} :
                          r \in Ranks}
      BY <2>2, <1>1
    <2>4. c \in countOverlaps(tr, l, d)
      BY <2>1, <2>3, <1>3 DEF countOverlaps
    <2> QED
      BY Zenon, <2>4 DEF c
  <1> QED
    BY Zenon, <1>2, <1>3

\* Every meeting is counted, by the owner of the particle with the lower tag.
LEMMA MeetingCounted ==
    ASSUME Placed, Particles \subseteq Nat,
           NEW l \in Nat \X Nat, NEW d \in Nat, checkBoxSize(l, d), NEW tr,
           \A r \in Ranks : tr[r] = AABBs(r, exchangeGhosts(pos, owner, l, d), l, d),
           NEW t \in Particles, NEW u \in Particles, t < u, NEW m \in Around,
           test_overlap(pos[u], Image(pos[t], m), l, d)
    PROVE  <<owner[t], t, AABB(u, FoundAt(pos[u], m), l, d), SearchedImage(m)>>
              \in countOverlaps(tr, l, d)
  <1>1. owner[t] \in Ranks /\ pos[t] \in Points /\ InDomain(owner[t], pos[t])
    BY DEF Placed
  <1>2. t \in Nat /\ u \in Nat
    BY Zenon
  <1>3. u # t /\ t <= u
    BY <1>2
  <1> DEFINE r == owner[t]
             p == pos[t]
             T == tr[r]
             e == AABB(u, FoundAt(pos[u], m), l, d)
  <1>4. /\ owner[u] = r => AABB(u, pos[u], l, d) \in T
        /\ owner[u] # r => \A i \in Images(pos[u]) :
                              InLayer(r, i, l, d) => AABB(u, i, l, d) \in T
    BY SMTT(30), <1>1, ExchangedTree
  <1>5. e.tag = u
    BY Zenon DEF AABB
  <1>6. e \in T /\ SearchedImage(m) \in m_image_list /\ Collides(r, t, p, e, SearchedImage(m), l, d)
    <2>1. r \in Ranks /\ p \in Points /\ InDomain(r, p) /\ test_overlap(pos[u], Image(p, m), l, d)
      BY Zenon, <1>1
    <2>2. /\ Placed /\ l \in Nat \X Nat /\ d \in Nat /\ checkBoxSize(l, d)
          /\ u \in Particles /\ m \in Around
      BY Zenon
    <2> HIDE DEF r, p, T, e
    <2>3. AABB(u, FoundAt(pos[u], m), l, d) \in T
      BY ONLY SMTT(60), <2>1, <2>2, <1>3, <1>4, RankFinds
    <2>4. /\ SearchedImage(m) \in m_image_list
          /\ Collides(r, t, p, AABB(u, FoundAt(pos[u], m), l, d), SearchedImage(m), l, d)
      BY ONLY SMTT(60), <2>1, <2>2, <1>3, <1>4, RankFinds
    <2> QED
      BY Zenon, <2>3, <2>4 DEF e
  <1> HIDE DEF e
  <1>7. <<owner[t], t, e, SearchedImage(m)>> \in countOverlaps(tr, l, d)
    BY Zenon, <1>3, <1>5, <1>6, CountMember
  <1> QED
    BY Zenon, <1>7 DEF e

\* countOverlaps finds an overlap when there is one.
LEMMA CountSound ==
    ASSUME Placed, Particles \subseteq Nat,
           NEW l \in Nat \X Nat, NEW d \in Nat, checkBoxSize(l, d), NEW tr,
           \A r \in Ranks : tr[r] = AABBs(r, exchangeGhosts(pos, owner, l, d), l, d),
           countOverlaps(tr, l, d) = {}
    PROVE  Overlapping(pos, l, d) = {}
  <1>1. SUFFICES ASSUME NEW t \in Particles, NEW u \in Particles, t < u,
                        Overlap(pos[t], pos[u], l, d)
                 PROVE  FALSE
    BY Zenon DEF Overlapping
  <1>2. WellCut(cuts) /\ pos[t] \in Points /\ pos[u] \in Points
    BY DEF Placed
  <1>3. PICK m \in Around : test_overlap(pos[u], Image(pos[t], m), l, d)
    BY Zenon, <1>1, <1>2, OverlapMeets
  <1> QED
    BY Zenon, <1>1, <1>3, MeetingCounted

\* An image differs from its particle by box lengths along decomposed axes.
LEMMA ImageCoordinates ==
    ASSUME NEW q, NEW i \in Images(q)
    PROVE  /\ i = <<i[1], i[2]>>
           /\ \A a \in Axes : \E j \in Turns(a) : i[a] = q[a] + j * F(a)
  <1>1. PICK j \in Turns(1), k \in Turns(2) : i = <<q[1] + j * F(1), q[2] + k * F(2)>>
    BY DEF Images
  <1> QED
    BY <1>1 DEF Axes

\* A particle does not meet its own images: it is smaller than the box.
LEMMA OwnImageApart ==
    ASSUME WellCut(cuts), NEW p \in Points, NEW k \in Around, k # <<0, 0>>,
           NEW l \in Nat \X Nat, NEW d \in Nat, \A a \in Axes : d < l[a]
    PROVE  ~test_overlap(p, Image(p, k), l, d)
  <1>1. PICK a \in Axes : k[a] # 0
    BY DEF Around, Axes
  <1>2. /\ F(a) \in Nat /\ 0 < F(a) /\ p[a] \in Int /\ l[a] \in Nat /\ k[a] \in {-1, 1}
        /\ p \in Int \X Int /\ k \in Int \X Int
    BY <1>1, Domains, PointCoordinates DEF Axes, Around, Points
  <1>3. Image(p, k)[a] = p[a] + k[a] * F(a)
    BY Zenon, <1>2, ImageAt
  <1>4. k[a] * F(a) = F(a) \/ k[a] * F(a) = -F(a)
    BY <1>2
  <1>5. Abs(p[a] - (p[a] + k[a] * F(a))) = F(a)
    BY <1>2, <1>4 DEF Abs
  <1>6. ~(F(a) * l[a] < d * F(a))
    BY <1>2, ScaleCancel
  <1> QED
    BY Zenon, <1>3, <1>5, <1>6 DEF test_overlap

\* Two scaled distances that add up to a whole are not both small.
LEMMA NotBothNear ==
    ASSUME NEW x \in Nat, NEW y \in Nat, NEW f \in Nat, NEW l \in Nat, NEW d \in Nat,
           f <= x + y, x * l < d * f, y * l < d * f, 2 * d <= l
    PROVE  FALSE
  <1>1. f * l <= (x + y) * l
    BY ScaleMonotone
  <1>2. (x + y) * l = x * l + y * l
    OBVIOUS
  <1>3. (2 * d) * f <= l * f
    BY ScaleMonotone
  <1>4. /\ (2 * d) * f = d * f + d * f /\ l * f = f * l
        /\ d * f \in Int /\ f * l \in Int /\ x * l \in Int /\ y * l \in Int
    OBVIOUS
  <1> QED
    BY <1>1, <1>2, <1>3, <1>4

\* In a box at least two particles wide a pair meets through one image only.
LEMMA OneMeeting ==
    ASSUME WellCut(cuts), NEW p \in Points, NEW q \in Points,
           NEW l \in Nat \X Nat, NEW d \in Nat, \A a \in Axes : 2 * d <= l[a],
           NEW m \in Around, NEW n \in Around,
           test_overlap(q, Image(p, m), l, d), test_overlap(q, Image(p, n), l, d)
    PROVE  m = n
  <1>1. ASSUME NEW a \in Axes PROVE m[a] = n[a]
    <2>1. /\ F(a) \in Nat /\ 0 < F(a) /\ p[a] \in Int /\ q[a] \in Int /\ l[a] \in Nat
          /\ m[a] \in {-1, 0, 1} /\ n[a] \in {-1, 0, 1}
          /\ p \in Int \X Int /\ m \in Int \X Int /\ n \in Int \X Int
      BY Domains, PointCoordinates DEF Axes, Around, Points
    <2>2. Image(p, m)[a] = p[a] + m[a] * F(a) /\ Image(p, n)[a] = p[a] + n[a] * F(a)
      BY Zenon, <2>1, ImageAt
    <2> DEFINE x == Abs(q[a] - (p[a] + m[a] * F(a)))
               y == Abs(q[a] - (p[a] + n[a] * F(a)))
    <2>3. x * l[a] < d * F(a) /\ y * l[a] < d * F(a)
      BY Zenon, <2>2 DEF test_overlap
    <2>4. 0 * F(a) = 0 /\ 1 * F(a) = F(a) /\ (-1) * F(a) = -F(a)
      BY <2>1
    <2>5. x \in Nat /\ y \in Nat /\ (m[a] # n[a] => F(a) <= x + y)
      <3>1. ASSUME NEW v \in Int, NEW w \in Int
            PROVE  /\ Abs(q[a] - (p[a] + v)) \in Nat
                   /\ v - w <= Abs(q[a] - (p[a] + v)) + Abs(q[a] - (p[a] + w))
        BY <2>1 DEF Abs
      <3>2. m[a] * F(a) \in Int /\ n[a] * F(a) \in Int
        BY <2>1
      <3>3. m[a] # n[a] => \/ m[a] * F(a) - n[a] * F(a) >= F(a)
                           \/ n[a] * F(a) - m[a] * F(a) >= F(a)
        BY <2>1, <2>4
      <3>4. /\ x \in Nat /\ y \in Nat
            /\ m[a] * F(a) - n[a] * F(a) <= x + y
            /\ n[a] * F(a) - m[a] * F(a) <= y + x
        BY Zenon, <3>1, <3>2
      <3> HIDE DEF x, y
      <3> QED
        BY <2>1, <3>2, <3>3, <3>4
    <2> HIDE DEF x, y
    <2> QED
      BY Zenon, <2>1, <2>3, <2>5, NotBothNear
  <1> QED
    BY <1>1 DEF Around, Axes

\* Right after an exchange a tree holds nothing else.
LEMMA TreeEntries ==
    ASSUME Placed, NEW l, NEW d, NEW r \in Ranks,
           NEW e \in AABBs(r, exchangeGhosts(pos, owner, l, d), l, d)
    PROVE  /\ e.tag \in Particles /\ e = AABB(e.tag, e.at, l, d)
           /\ \A t, p : e.tag # t => postype(r, t, p, e) = e.at
           /\ owner[e.tag] = r => e.at = pos[e.tag]
           /\ owner[e.tag] # r => e.at \in Images(pos[e.tag])
  <1> DEFINE gh == exchangeGhosts(pos, owner, l, d)
  <1>1. CASE \E t \in Particles : owner[t] = r /\ e = AABB(t, pos[t], l, d)
    BY <1>1 DEF AABB, postype
  <1>2. CASE \E g \in gh[r] : e = AABB(g.tag, g.pos, l, d)
    <2>1. PICK g \in gh[r] : e = AABB(g.tag, g.pos, l, d)
      BY Zenon, <1>2
    <2>2. PICK t \in Particles : owner[t] # r /\ \E i \in Images(pos[t]) : g = Ghost(t, i)
      BY <2>1 DEF exchangeGhosts
    <2>3. PICK i \in Images(pos[t]) : g = Ghost(t, i)
      BY Zenon, <2>2
    <2>4. e = AABB(t, i, l, d)
      BY Zenon, <2>1, <2>3 DEF Ghost
    <2> QED
      BY Zenon, <2>2, <2>4 DEF AABB, postype
  <1> HIDE DEF gh
  <1> QED
    BY Zenon, <1>1, <1>2 DEF AABBs, gh


-----------------------------------------------------------------------------
(***************************************************************************)
(* The initial states and the steps of IntegratorHPMCMono::update keep the *)
(* inductive invariant, and neither a trial move nor a grid shift makes an *)
(* overlap.                                                                *)
(***************************************************************************)
\* UpdaterShape is used on one rank only: on several ranks it counts overlaps
\* with a ghost layer of the old width, and a larger shape may overlap unseen.
SerialShapes == \A s \in Setups : s.updater = "Shape" => Len(s.cuts[1]) = 2 /\ Len(s.cuts[2]) = 2

\* The facts about the constants that a typed state gives.
LEMMA Typed ==
    ASSUME TypeOK
    PROVE  /\ WellCut(cuts)
           /\ Particles \subseteq Nat
           /\ L \in Nat \X Nat /\ D \in Nat
           /\ \A a \in Axes : L[a] \in Nat /\ D < L[a]
           /\ \A l \in Boxes : l \in Nat \X Nat /\ \A a \in Axes : D < l[a]
           /\ \A d \in Diameters : d \in Nat /\ \A a \in Axes : d < L[a]
           /\ \A v \in Moves \cup Shifts : v \in Int \X Int /\ \A a \in Axes : Abs(v[a]) <= F(a)
           /\ SerialShapes /\ updater = "Shape" => Extent(1) = 1 /\ Extent(2) = 1
  <1> DEFINE s == [cuts |-> cuts, updater |-> updater, max_overlaps |-> max_overlaps,
                   targets |-> targets]
  <1>1. s \in Setups /\ s.cuts = cuts /\ s.updater = updater
    BY Zenon DEF TypeOK
  <1>2. L \in Boxes /\ D \in Diameters
    BY Zenon DEF TypeOK
  <1> HIDE DEF s
  <1>3. WellCut(cuts)
    BY Zenon, <1>1, SetupsAssumption
  <1>4. \A v \in Moves \cup Shifts : v \in Int \X Int /\ \A a \in Axes : Abs(v[a]) <= F(a)
    BY Zenon, <1>1, MovesAssumption DEF F
  <1>5. SerialShapes /\ updater = "Shape" => Extent(1) = 1 /\ Extent(2) = 1
    BY <1>1 DEF SerialShapes, Extent
  <1>6. /\ Particles \subseteq Nat
        /\ L \in Nat \X Nat /\ D \in Nat
        /\ \A a \in Axes : L[a] \in Nat /\ D < L[a]
        /\ \A l \in Boxes : l \in Nat \X Nat /\ \A a \in Axes : D < l[a]
        /\ \A d \in Diameters : d \in Nat /\ \A a \in Axes : d < L[a]
    BY Zenon, <1>2, SizesAssumption DEF Axes
  <1> QED
    BY Zenon, <1>3, <1>4, <1>5, <1>6

\* Along an axis that is not decomposed the only domain is the whole box.
LEMMA WholeAxis ==
    ASSUME WellCut(cuts), NEW a \in Axes, Extent(a) = 1, NEW r \in Ranks
    PROVE  Lo(r, a) = 0 /\ Hi(r, a) = F(a)
  <1>1. r[a] \in 0 .. Extent(a) - 1
    BY Zenon, Domains
  <1>2. r[a] = 0
    BY <1>1
  <1>3. Len(cuts[a]) = 2 /\ cuts[a][1] = 0
    BY DEF WellCut, Extent, Axes
  <1> QED
    BY <1>2, <1>3 DEF Lo, Hi, F

\* The active region is a part of the domain.
LEMMA ActiveInDomain ==
    ASSUME WellCut(cuts), L \in Nat \X Nat, D \in Nat,
           NEW r \in Ranks, NEW p \in Points, isActive(r, p)
    PROVE  InDomain(r, p)
  <1>1. SUFFICES ASSUME NEW a \in Axes PROVE Lo(r, a) <= p[a] /\ p[a] < Hi(r, a)
    BY Zenon DEF InDomain
  <1>2. /\ p[a] \in Int /\ 0 <= p[a] /\ p[a] < F(a) /\ F(a) \in Nat /\ L[a] \in Nat
        /\ Extent(a) \in Nat /\ Extent(a) >= 1 /\ Lo(r, a) \in Nat /\ Hi(r, a) \in Nat
    BY Zenon, PointCoordinates, Domains DEF Axes
  <1>3. CASE Extent(a) = 1
    BY Zenon, <1>2, <1>3, WholeAxis
  <1>4. CASE Extent(a) > 1
    <2>1. Lo(r, a) <= p[a] /\ (Hi(r, a) - p[a]) * L[a] > D * F(a)
      BY Zenon, <1>4 DEF isActive
    <2>2. D * F(a) >= 0
      BY <1>2
    <2>3. Hi(r, a) - p[a] <= 0 => (Hi(r, a) - p[a]) * L[a] <= 0 * L[a]
      BY <1>2, ScaleMonotone
    <2> QED
      BY <2>1, <2>2, <2>3, <1>2
  <1> QED
    BY <1>2, <1>3, <1>4

\* The decomposition never changes, and so the operators keep their meaning.
LEMMA SameGrid ==
    ASSUME cuts' = cuts
    PROVE  /\ Ranks' = Ranks /\ Points' = Points
           /\ AllValid' = AllValid /\ AllInvalid' = AllInvalid /\ NoTrees' = NoTrees
           /\ (Overlapping(pos, L, D))' = Overlapping(pos', L', D')
           /\ (checkBoxSize(L, D))' = checkBoxSize(L', D')
           /\ (exchangeGhosts(pos, owner, L, D))' = exchangeGhosts(pos', owner', L', D')
           /\ \A t \in Particles : InDomain(owner[t], pos[t])' = InDomain(owner'[t], pos'[t])
  <1>1. Ranks' = Ranks /\ Points' = Points
    BY Zenon DEF Ranks, Points, Extent, F
  <1>2. AllValid' = AllValid /\ AllInvalid' = AllInvalid /\ NoTrees' = NoTrees
    BY Zenon, <1>1 DEF AllValid, AllInvalid, NoTrees
  <1>3. (Overlapping(pos, L, D))' = Overlapping(pos', L', D')
    BY Zenon DEF Overlapping, Overlap, F
  <1>4. (checkBoxSize(L, D))' = checkBoxSize(L', D')
    BY Zenon, <1>1 DEF checkBoxSize, Extent, F, Lo, Hi
  <1>5. (exchangeGhosts(pos, owner, L, D))' = exchangeGhosts(pos', owner', L', D')
    BY <1>1 DEF exchangeGhosts, Images, Turns, InLayer, Extent, F, Lo, Hi
  <1>6. ASSUME NEW t \in Particles PROVE InDomain(owner[t], pos[t])' = InDomain(owner'[t], pos'[t])
    BY DEF InDomain, Lo, Hi
  <1> QED
    BY ZenonT(30), <1>1, <1>2, <1>3, <1>4, <1>5, <1>6

\* The ghosts of an exchange are images of particles of other ranks.
LEMMA ExchangeTyped ==
    ASSUME WellCut(cuts), NEW p \in [Particles -> Points], NEW o, NEW l, NEW w
    PROVE  LET gh == exchangeGhosts(p, o, l, w)
           IN  /\ DOMAIN gh = Ranks
               /\ \A r \in Ranks : gh[r] \subseteq [tag : Particles, pos : Int \X Int]
               /\ \A r \in Ranks : \A g \in gh[r] : o[g.tag] # r
  <1> DEFINE gh == exchangeGhosts(p, o, l, w)
  <1>1. DOMAIN gh = Ranks
    BY DEF exchangeGhosts
  <1>2. ASSUME NEW r \in Ranks, NEW g \in gh[r]
        PROVE  g \in [tag : Particles, pos : Int \X Int] /\ o[g.tag] # r
    <2>0. PICK t \in {u \in Particles : o[u] # r} :
            g \in {Ghost(t, i) : i \in {j \in Images(p[t]) : InLayer(r, j, l, w)}}
      BY Zenon, <1>2 DEF exchangeGhosts
    <2>1. PICK q \in Images(p[t]) : g = Ghost(t, q)
      BY <2>0
    <2>2. q \in Int \X Int
      <3>1. p[t] \in Points
        BY Zenon, <2>0
      <3>2. p[t][1] \in Int /\ p[t][2] \in Int /\ F(1) \in Int /\ F(2) \in Int
        BY <3>1, PointCoordinates, Domains DEF Axes
      <3> QED
        BY <2>1, <3>2 DEF Images, Turns
    <2> QED
      BY ZenonT(30), <2>0, <2>1, <2>2 DEF Ghost
  <1> QED
    BY Zenon, <1>1, <1>2

\* The boxes of a tree are typed when the particles and ghosts are.
LEMMA TreeTyped ==
    ASSUME WellCut(cuts), pos \in [Particles -> Points], NEW r, NEW gh,
           gh[r] \subseteq [tag : Particles, pos : Int \X Int],
           NEW l \in Boxes, NEW d \in Diameters
    PROVE  AABBs(r, gh, l, d) \subseteq
             [tag : Particles, at : Int \X Int, L : Boxes, D : Diameters]
  <1>1. \A t \in Particles : pos[t] \in Int \X Int
    BY Domains DEF Points, Axes
  <1> QED
    BY <1>1 DEF AABBs, AABB

\* The initial states satisfy the invariant.
LEMMA InitStep ==
    ASSUME Init
    PROVE  IInv
  <1>1. PICK s \in Setups :
          /\ cuts = s.cuts /\ updater = s.updater /\ max_overlaps = s.max_overlaps
          /\ targets = s.targets
    BY Zenon DEF Init
  <1>2. s = [cuts |-> cuts, updater |-> updater, max_overlaps |-> max_overlaps,
             targets |-> targets]
    BY Zenon, <1>1, SetupsAssumption
  <1>3. WellCut(cuts)
    BY Zenon, <1>1, SetupsAssumption
  <1>4. pos \in [Particles -> Points] /\ owner = [t \in Particles |-> Holder(pos[t])]
    BY DEF Init
  <1>5. \A t \in Particles : owner[t] \in Ranks /\ InDomain(owner[t], pos[t])
    BY Zenon, <1>3, <1>4, HolderExists
  <1>6. TypeOK
    BY <1>1, <1>2, <1>4, <1>5, Zenon DEF Init, TypeOK, NoTrees, AllInvalid
  <1> QED
    BY Zenon, <1>5, <1>6 DEF Init, IInv, TreeCurrent, AllInvalid, CompleteMeansDone, NoOverlap

\* The end of a run's preparation or of an update: communicate(true) with
\* positions that overlap no more than before.
LEMMA Migrated ==
    ASSUME IInv, UNCHANGED <<conf, judged, L, D, is_complete>>, target' \in targets,
           phase # "error",
           pos' \in [Particles -> Points], migrate(pos'),
           Overlapping(pos', L, D) \subseteq Overlapping(pos, L, D),
           tree_invalid' = AllInvalid, tree' = NoTrees
    PROVE  IInv'
  <1>1. TypeOK /\ WellCut(cuts) /\ L \in Boxes /\ D \in Diameters
    BY Zenon, Typed DEF IInv, TypeOK
  <1>2. /\ cuts' = cuts /\ updater' = updater /\ max_overlaps' = max_overlaps
        /\ targets' = targets
    BY DEF conf
  <1>3. /\ Ranks' = Ranks /\ Points' = Points
        /\ AllInvalid' = AllInvalid /\ NoTrees' = NoTrees
        /\ (Overlapping(pos, L, D))' = Overlapping(pos', L, D)
        /\ (checkBoxSize(L, D))' = checkBoxSize(L, D)
        /\ (exchangeGhosts(pos, owner, L, D))' = exchangeGhosts(pos', owner', L, D)
        /\ \A t \in Particles : InDomain(owner[t], pos[t])' = InDomain(owner'[t], pos'[t])
    BY Zenon, <1>2, SameGrid
  <1>4. TreeCurrent'
    BY Zenon, <1>3 DEF TreeCurrent, AllInvalid
  <1>5. CompleteMeansDone' /\ (is_complete => updater = "QuickCompress")'
    BY Zenon, <1>2, <1>3 DEF IInv, CompleteMeansDone
  <1>6. NoOverlap'
    BY Zenon, <1>2, <1>3 DEF IInv, NoOverlap
  <1>7. /\ [cuts |-> cuts, updater |-> updater, max_overlaps |-> max_overlaps,
            targets |-> targets]' \in Setups
        /\ {target', judged'} \subseteq targets'
        /\ L' \in Boxes /\ D' \in Diameters /\ is_complete' \in BOOLEAN
    BY Zenon, <1>1, <1>2 DEF TypeOK
  <1>8. /\ DOMAIN tree' = Ranks /\ tree_invalid' \in [Ranks -> BOOLEAN]
        /\ \A r \in Ranks : tree'[r] = {}
    BY Zenon DEF NoTrees, AllInvalid
  <1>9. CASE checkBoxSize(L, D)
    <2>1. /\ phase' = "updaters"
          /\ owner' = [t \in Particles |-> Holder(pos'[t])]
          /\ ghosts' = exchangeGhosts(pos', owner', L, D)
      BY Zenon, <1>9 DEF migrate
    <2>2. \A t \in Particles : owner'[t] \in Ranks /\ InDomain(owner'[t], pos'[t])
      BY ZenonT(30), <2>1, <1>1, HolderExists
    <2>3. owner' \in [Particles -> Ranks]
      BY Zenon, <2>1, <2>2
    <2>4. /\ DOMAIN ghosts' = Ranks
          /\ \A r \in Ranks : ghosts'[r] \subseteq [tag : Particles, pos : Int \X Int]
          /\ \A r \in Ranks : \A g \in ghosts'[r] : owner'[g.tag] # r
      BY <2>1, <1>1, ExchangeTyped
    <2>5. TypeOK'
      BY ZenonT(30), <2>1, <2>3, <2>4, <1>3, <1>7, <1>8 DEF TypeOK
    <2> QED
      BY <2>1, <2>2, <2>4, <2>5, <1>3, <1>4, <1>5, <1>6, <1>9 DEF IInv
  <1>10. CASE ~checkBoxSize(L, D)
    <2>1. phase' = "error" /\ owner' = owner /\ ghosts' = ghosts
      BY Zenon, <1>10 DEF migrate
    <2>2. TypeOK'
      BY ZenonT(30), <2>1, <1>1, <1>3, <1>7, <1>8 DEF TypeOK
    <2>3. \A r \in Ranks : \A g \in ghosts[r] : owner[g.tag] # r
      BY Zenon DEF IInv
    <2> QED
      BY ZenonT(30), <2>1, <2>2, <2>3, <1>3, <1>4, <1>5, <1>6 DEF IInv
  <1> QED
    BY Zenon, <1>9, <1>10

\* The preparation of a run.
LEMMA PrepRunStep ==
    ASSUME IInv, prepRun
    PROVE  IInv'
  <1>1. pos' = pos /\ pos \in [Particles -> Points]
    BY Zenon DEF prepRun, IInv, TypeOK
  <1>2. /\ UNCHANGED <<conf, judged, L, D, is_complete>> /\ target' \in targets
        /\ phase # "error" /\ migrate(pos')
        /\ tree_invalid' = AllInvalid /\ tree' = NoTrees
    BY <1>1 DEF prepRun, IInv, TypeOK
  <1> QED
    BY <1>1, <1>2, Migrated

\* A tree that buildAABBTree returns is current.
LEMMA BuiltTree ==
    ASSUME IInv, phase # "error", NEW r \in Ranks
    PROVE  buildAABBTree(ghosts, L, D, tree_invalid)[r] = AABBs(r, ghosts, L, D)
  BY Zenon DEF IInv, TreeCurrent, buildAABBTree

\* What InactiveKnown says after a step that moves particles only.
LEMMA KnownNext ==
    ASSUME cuts' = cuts, L' = L, D' = D, owner' = owner, ghosts' = ghosts,
           \A r \in Ranks, t \in Particles :
             owner[t] # r /\ ~isActive(owner[t], pos'[t]) =>
               \A q \in Images(pos'[t]) : InLayer(r, q, L, D) => Ghost(t, q) \in ghosts[r]
    PROVE  InactiveKnown'
  <1>1. Ranks' = Ranks
    BY Zenon, SameGrid
  <1>2. \A t \in Particles : isActive(owner[t], pos[t])' = isActive(owner[t], pos'[t])
    BY SMTT(30) DEF isActive, Extent, F, Lo, Hi
  <1>3. \A t \in Particles : Images(pos[t])' = Images(pos'[t])
    BY DEF Images, Turns, Extent, F
  <1>4. \A r \in Ranks : \A q : InLayer(r, q, L, D)' = InLayer(r, q, L, D)
    BY Zenon DEF InLayer, Extent, F, Lo, Hi
  <1>5. \A t \in Particles : \A q : Ghost(t, q)' = Ghost(t, q)
    BY DEF Ghost
  <1> QED
    BY ZenonT(30), <1>1, <1>2, <1>3, <1>4, <1>5 DEF InactiveKnown

\* A step that changes nothing.
LEMMA StutterStep ==
    ASSUME IInv, UNCHANGED vars
    PROVE  IInv'
  <1>1. /\ cuts' = cuts /\ updater' = updater /\ max_overlaps' = max_overlaps
        /\ targets' = targets /\ target' = target /\ judged' = judged
        /\ L' = L /\ D' = D /\ pos' = pos /\ owner' = owner /\ ghosts' = ghosts
        /\ tree' = tree /\ tree_invalid' = tree_invalid
        /\ is_complete' = is_complete /\ phase' = phase
    BY Zenon DEF vars, conf
  <1>2. /\ Ranks' = Ranks /\ Points' = Points /\ AllValid' = AllValid
        /\ (Overlapping(pos, L, D))' = Overlapping(pos, L, D)
        /\ (checkBoxSize(L, D))' = checkBoxSize(L, D)
        /\ (exchangeGhosts(pos, owner, L, D))' = exchangeGhosts(pos, owner, L, D)
        /\ \A t \in Particles : InDomain(owner[t], pos[t])' = InDomain(owner[t], pos[t])
    BY Zenon, <1>1, SameGrid
  <1>3. TypeOK'
    BY Zenon, <1>1, <1>2 DEF IInv, TypeOK
  <1>4. TreeCurrent'
    <2>1. \A r \in Ranks : AABBs(r, ghosts, L, D)' = AABBs(r, ghosts, L, D)
      BY <1>1 DEF AABBs
    <2> QED
      BY Zenon, <2>1, <1>1, <1>2 DEF IInv, TreeCurrent
  <1>5. InactiveKnown => InactiveKnown'
    BY Zenon, <1>1, KnownNext DEF InactiveKnown
  <1>6. CompleteMeansDone' /\ NoOverlap'
    BY <1>1, <1>2, Zenon DEF IInv, CompleteMeansDone, NoOverlap
  <1> QED
    BY ZenonT(30), <1>1, <1>2, <1>3, <1>4, <1>5, <1>6 DEF IInv

\* The start of a sweep.
LEMMA StartUpdateStep ==
    ASSUME IInv, startUpdate
    PROVE  IInv'
  <1>1. TypeOK /\ WellCut(cuts) /\ L \in Boxes /\ D \in Diameters /\ phase # "error"
    BY Zenon, Typed DEF IInv, TypeOK, startUpdate
  <1>2. /\ cuts' = cuts /\ updater' = updater /\ max_overlaps' = max_overlaps
        /\ targets' = targets /\ target' = target /\ judged' = judged
        /\ L' = L /\ D' = D /\ pos' = pos /\ owner' = owner /\ ghosts' = ghosts
        /\ is_complete' = is_complete /\ phase' = "sweep" /\ tree_invalid' = AllValid
        /\ tree' = buildAABBTree(ghosts, L, D, tree_invalid)
    BY Zenon DEF startUpdate, conf
  <1>3. /\ Ranks' = Ranks /\ Points' = Points /\ AllValid' = AllValid
        /\ (Overlapping(pos, L, D))' = Overlapping(pos, L, D)
        /\ (checkBoxSize(L, D))' = checkBoxSize(L, D)
        /\ \A t \in Particles : InDomain(owner[t], pos[t])' = InDomain(owner[t], pos[t])
    BY <1>2, SameGrid
  <1>4. \A r \in Ranks : tree'[r] = AABBs(r, ghosts, L, D)
    BY Zenon, <1>1, <1>2, BuiltTree
  <1>5. \A r \in Ranks : AABBs(r, ghosts, L, D)' = AABBs(r, ghosts, L, D)
    BY <1>2 DEF AABBs
  <1>6. TreeCurrent'
    BY <1>3, <1>4, <1>5, Zenon DEF TreeCurrent
  <1>7. TypeOK'
    <2>1. DOMAIN tree' = Ranks /\ tree_invalid' \in [Ranks -> BOOLEAN]
      BY Zenon, <1>2 DEF buildAABBTree, AllValid
    <2>2. \A r \in Ranks : tree'[r] \subseteq
                            [tag : Particles, at : Int \X Int, L : Boxes, D : Diameters]
      <3>1. /\ pos \in [Particles -> Points]
            /\ \A r \in Ranks : ghosts[r] \subseteq [tag : Particles, pos : Int \X Int]
        BY <1>1 DEF TypeOK
      <3>2. ASSUME NEW r \in Ranks
            PROVE  AABBs(r, ghosts, L, D) \subseteq
                     [tag : Particles, at : Int \X Int, L : Boxes, D : Diameters]
        BY Zenon, <3>1, <1>1, TreeTyped
      <3> QED
        BY Zenon, <3>2, <1>4
    <2> QED
      BY ZenonT(30), <2>1, <2>2, <1>1, <1>2, <1>3 DEF TypeOK
  <1>8. InactiveKnown'
    <2>1. ghosts = exchangeGhosts(pos, owner, L, D)
      BY Zenon DEF IInv, startUpdate
    <2>2. ASSUME NEW r \in Ranks, NEW t \in Particles, owner[t] # r,
                 NEW q \in Images(pos[t]), InLayer(r, q, L, D)
          PROVE  Ghost(t, q) \in ghosts[r]
      BY <2>1, <2>2 DEF exchangeGhosts
    <2> QED
      BY Zenon, <2>2, <1>2, KnownNext
  <1>9. CompleteMeansDone' /\ (is_complete => updater = "QuickCompress")'
    BY Zenon, <1>1, <1>2, <1>3 DEF IInv, CompleteMeansDone
  <1>10. NoOverlap'
    BY Zenon, <1>1, <1>2, <1>3 DEF IInv, NoOverlap
  <1>11. /\ checkBoxSize(L, D)
         /\ \A t \in Particles : InDomain(owner[t], pos[t])
         /\ \A r \in Ranks : \A g \in ghosts[r] : owner[g.tag] # r
    BY Zenon, <1>1 DEF IInv, startUpdate
  <1> QED
    BY <1>2, <1>3, <1>6, <1>7, <1>8, <1>9, <1>10, <1>11, ZenonT(30) DEF IInv

\* A trial move leads to no overlap, wherever the other particle is: a local
\* one or a current ghost is found, and one that may have moved since the
\* exchange is in another active region.
LEMMA TrialApart ==
    ASSUME IInv, NEW t \in Particles, NEW v \in Moves, trial(t, v),
           NEW u \in Particles, u # t
    PROVE  ~Overlap(Moved(pos[t], v), pos[u], L, D)
  <1> DEFINE r == owner[t]
             p == Moved(pos[t], v)
  <1>1. TypeOK /\ WellCut(cuts) /\ L \in Nat \X Nat /\ D \in Nat
    BY Zenon, Typed DEF IInv
  <1>2. /\ phase = "sweep" /\ isActive(r, p)
        /\ \A e \in tree[r], k \in m_image_list : ~Collides(r, t, p, e, k, L, D)
    BY Zenon DEF trial
  <1>3. r \in Ranks /\ pos[t] \in Points /\ pos[u] \in Points /\ owner[u] \in Ranks
    BY <1>1 DEF TypeOK
  <1>4. p \in Points
    BY <1>1, <1>3, MovedPoint, Typed, ZenonT(30)
  <1>5. Placed /\ checkBoxSize(L, D) /\ InactiveKnown
    BY <1>1, <1>2, ZenonT(30) DEF IInv, Placed, TypeOK
  <1>6. tree[r] = AABBs(r, ghosts, L, D)
    BY Zenon, <1>2, <1>3 DEF IInv, TreeCurrent, AllValid
  <1> HIDE DEF r, p
  <1>7. InDomain(r, p)
    BY Zenon, <1>1, <1>2, <1>3, <1>4, ActiveInDomain
  <1>8. CASE owner[u] # r /\ isActive(owner[u], pos[u])
    <2>1. InDomain(owner[u], pos[u])
      BY Zenon, <1>5 DEF Placed
    <2> QED
      BY ZenonT(30), <2>1, <1>1, <1>2, <1>3, <1>4, <1>7, <1>8, ActiveApart DEF p
  <1>9. CASE owner[u] = r \/ ~isActive(owner[u], pos[u])
    <2>1. owner[u] = r => AABB(u, pos[u], L, D) \in tree[r]
      BY Zenon, <1>6 DEF AABBs
    <2>2. ASSUME owner[u] # r, NEW i \in Images(pos[u]), InLayer(r, i, L, D)
          PROVE  AABB(u, i, L, D) \in tree[r]
      <3>1. Ghost(u, i) \in ghosts[r]
        BY ZenonT(30), <2>2, <1>3, <1>5, <1>9 DEF InactiveKnown
      <3>2. Ghost(u, i).tag = u /\ Ghost(u, i).pos = i
        BY DEF Ghost
      <3> QED
        BY Zenon, <3>1, <3>2, <1>6 DEF AABBs
    <2>3. ASSUME Overlap(p, pos[u], L, D)
          PROVE  FALSE
      <3> DEFINE T == tree[r]
      <3>1. owner[u] = r => AABB(u, pos[u], L, D) \in T
        BY Zenon, <2>1
      <3>2. owner[u] # r => \A i \in Images(pos[u]) :
                               InLayer(r, i, L, D) => AABB(u, i, L, D) \in T
        BY <2>2
      <3>3. u # t /\ Placed /\ checkBoxSize(L, D) /\ InDomain(r, p)
        BY Zenon, <1>5, <1>7
      <3>4. r \in Ranks /\ p \in Points /\ L \in Nat \X Nat /\ D \in Nat
        BY <1>1, <1>3, <1>4, Zenon
      <3>5. PICK m \in Around : test_overlap(pos[u], Image(p, m), L, D)
        BY ZenonT(30), <2>3, <1>1, <1>3, <3>4, OverlapMeets
      <3> HIDE DEF T
      <3>6. \E e \in T, k \in m_image_list : Collides(r, t, p, e, k, L, D)
        BY ONLY ZenonT(30), <3>1, <3>2, <3>3, <3>4, <3>5, u \in Particles, RankFinds
      <3> QED
        BY Zenon, <3>6, <1>2 DEF T
    <2> QED
      BY <2>3 DEF p
  <1> QED
    BY Zenon, <1>8, <1>9

\* A trial move makes no overlap.
LEMMA TrialVanish ==
    ASSUME IInv, NEW t \in Particles, NEW v \in Moves, trial(t, v)
    PROVE  Overlapping(pos', L, D) \subseteq Overlapping(pos, L, D)
  <1> DEFINE p == Moved(pos[t], v)
  <1>1. TypeOK /\ WellCut(cuts) /\ Particles \subseteq Nat
    BY Typed, Zenon DEF IInv
  <1>2. /\ \A u \in Particles : u # t => pos'[u] = pos[u]
        /\ pos'[t] = p
    BY Zenon, <1>1 DEF trial, TypeOK
  <1>3. p \in Points /\ \A u \in Particles : pos[u] \in Points
    BY Zenon, <1>1, MovedPoint, Typed DEF TypeOK
  <1>4. ASSUME NEW u \in Particles, u # t
        PROVE  ~Overlap(p, pos[u], L, D) /\ ~Overlap(pos[u], p, L, D)
    BY ZenonT(30), <1>1, <1>3, <1>4, TrialApart, OverlapSymmetric
  <1> HIDE DEF p
  <1>5. ASSUME NEW x \in Particles, NEW y \in Particles, x < y, Overlap(pos'[x], pos'[y], L, D)
        PROVE  Overlap(pos[x], pos[y], L, D)
    <2>1. x # y
      BY <1>1, <1>5
    <2>2. CASE x = t
      BY ZenonT(30), <2>1, <2>2, <1>2, <1>4, <1>5
    <2>3. CASE y = t
      BY ZenonT(30), <2>1, <2>3, <1>2, <1>4, <1>5
    <2>4. CASE x # t /\ y # t
      BY Zenon, <2>4, <1>2, <1>5
    <2> QED
      BY Zenon, <2>2, <2>3, <2>4
  <1> QED
    BY Zenon, <1>5 DEF Overlapping

\* A trial move keeps the invariant.
LEMMA TrialStep ==
    ASSUME IInv, NEW t \in Particles, NEW v \in Moves, trial(t, v)
    PROVE  IInv'
  <1> DEFINE r == owner[t]
             p == Moved(pos[t], v)
  <1>1. /\ TypeOK /\ WellCut(cuts) /\ L \in Boxes /\ D \in Diameters
        /\ L \in Nat \X Nat /\ D \in Nat /\ r \in Ranks /\ pos \in [Particles -> Points]
    BY Zenon, Typed DEF IInv, TypeOK
  <1>2. /\ cuts' = cuts /\ updater' = updater /\ max_overlaps' = max_overlaps
        /\ targets' = targets /\ target' = target /\ judged' = judged
        /\ L' = L /\ D' = D /\ owner' = owner /\ ghosts' = ghosts
        /\ tree_invalid' = tree_invalid /\ is_complete' = is_complete
        /\ phase = "sweep" /\ phase' = "sweep"
        /\ pos' = [pos EXCEPT ![t] = p]
        /\ tree' = [tree EXCEPT ![r] = Updated(r, t, p)]
        /\ isActive(r, pos[t]) /\ isActive(r, p)
    BY Zenon DEF trial, conf
  <1>3. p \in Points
    BY Zenon, <1>1, MovedPoint, Typed DEF TypeOK
  <1>4. /\ pos' \in [Particles -> Points] /\ pos'[t] = p
        /\ \A u \in Particles : u # t => pos'[u] = pos[u]
    BY <1>1, <1>2, <1>3, Zenon
  <1> HIDE DEF p
  <1>5. /\ Ranks' = Ranks /\ Points' = Points /\ AllValid' = AllValid
        /\ (Overlapping(pos, L, D))' = Overlapping(pos', L, D)
        /\ (checkBoxSize(L, D))' = checkBoxSize(L, D)
        /\ \A u \in Particles : InDomain(owner[u], pos[u])' = InDomain(owner[u], pos'[u])
    BY <1>2, SameGrid, Zenon
  <1>6. Overlapping(pos', L, D) \subseteq Overlapping(pos, L, D)
    BY Zenon, TrialVanish
  <1>7. /\ tree_invalid = AllValid /\ InactiveKnown /\ checkBoxSize(L, D)
        /\ \A u \in Particles : InDomain(owner[u], pos[u])
        /\ \A s \in Ranks : \A g \in ghosts[s] : owner[g.tag] # s
        /\ \A s \in Ranks : tree[s] = AABBs(s, ghosts, L, D)
    BY Zenon, <1>2 DEF IInv, TreeCurrent, AllValid
  <1>8. /\ DOMAIN tree = Ranks
        /\ \A s \in Ranks : ghosts[s] \subseteq [tag : Particles, pos : Int \X Int]
    BY Zenon, <1>1 DEF TypeOK
  <1>9. ASSUME NEW s \in Ranks PROVE tree'[s] = AABBs(s, ghosts, L, D)'
    <2>1. AABBs(s, ghosts, L, D)' =
            {AABB(u, pos'[u], L, D) : u \in {w \in Particles : owner[w] = s}}
              \cup {AABB(g.tag, g.pos, L, D) : g \in ghosts[s]}
      BY <1>2 DEF AABBs, AABB
    <2>2. AABBs(s, ghosts, L, D) =
            {AABB(u, pos[u], L, D) : u \in {w \in Particles : owner[w] = s}}
              \cup {AABB(g.tag, g.pos, L, D) : g \in ghosts[s]}
      BY Zenon DEF AABBs
    <2>3. CASE s # r
      <3>1. tree'[s] = tree[s]
        BY Zenon, <2>3, <1>2, <1>8
      <3>2. \A u \in {w \in Particles : owner[w] = s} : pos'[u] = pos[u]
        BY <2>3, <1>4
      <3>3. {AABB(u, pos'[u], L, D) : u \in {w \in Particles : owner[w] = s}}
              = {AABB(u, pos[u], L, D) : u \in {w \in Particles : owner[w] = s}}
        BY ONLY <3>2, Zenon
      <3> QED
        BY Zenon, <3>1, <3>3, <2>1, <2>2, <1>7
    <2>4. CASE s = r
      <3>1. tree'[s] = {e \in tree[s] : e.tag # t} \cup {AABB(t, p, L, D)}
        BY ZenonT(30), <2>4, <1>1, <1>2, <1>8 DEF Updated
      <3>2. \A u, q : AABB(u, q, L, D).tag = u
        BY Zenon DEF AABB
      <3>3. \A g \in ghosts[s] : g.tag # t
        BY Zenon, <2>4, <1>7
      <3>4. t \in {w \in Particles : owner[w] = s}
        BY Zenon, <2>4
      <3>5. ASSUME NEW e PROVE e \in tree'[s] <=> e \in AABBs(s, ghosts, L, D)'
        <4>1. ASSUME e \in tree'[s] PROVE e \in AABBs(s, ghosts, L, D)'
          <5>1. CASE e = AABB(t, p, L, D)
            BY <5>1, <3>4, <2>1, <1>4, SMTT(30)
          <5>2. CASE e \in tree[s] /\ e.tag # t
            <6>1. CASE e \in {AABB(g.tag, g.pos, L, D) : g \in ghosts[s]}
              BY ZenonT(30), <6>1, <2>1
            <6>2. CASE e \in {AABB(u, pos[u], L, D) : u \in {w \in Particles : owner[w] = s}}
              <7>1. PICK u \in {w \in Particles : owner[w] = s} : e = AABB(u, pos[u], L, D)
                BY Zenon, <6>2
              <7>2. u # t /\ e = AABB(u, pos'[u], L, D)
                BY ZenonT(30), <7>1, <5>2, <3>2, <1>4
              <7> QED
                BY ZenonT(30), <7>1, <7>2, <2>1
            <6> QED
              BY ZenonT(30), <6>1, <6>2, <5>2, <2>2, <1>7
          <5> QED
            BY Zenon, <5>1, <5>2, <4>1, <3>1
        <4>2. ASSUME e \in AABBs(s, ghosts, L, D)' PROVE e \in tree'[s]
          <5>1. CASE e \in {AABB(g.tag, g.pos, L, D) : g \in ghosts[s]}
            <6>1. PICK g \in ghosts[s] : e = AABB(g.tag, g.pos, L, D)
              BY Zenon, <5>1
            <6>2. e.tag # t
              BY Zenon, <6>1, <3>2, <3>3
            <6>3. e \in AABBs(s, ghosts, L, D) /\ tree[s] = AABBs(s, ghosts, L, D)
              BY Zenon, <5>1, <2>2, <1>7
            <6> QED
              BY Zenon, <6>2, <6>3, <3>1
          <5>2. CASE e \in {AABB(u, pos'[u], L, D) : u \in {w \in Particles : owner[w] = s}}
            <6>1. PICK u \in {w \in Particles : owner[w] = s} : e = AABB(u, pos'[u], L, D)
              BY Zenon, <5>2
            <6>2. CASE u = t
              BY <6>1, <6>2, <3>1, <1>4, ZenonT(30)
            <6>3. CASE u # t
              <7>1. e = AABB(u, pos[u], L, D) /\ e.tag # t
                BY Zenon, <6>1, <6>3, <3>2, <1>4
              <7>2. e \in {AABB(x, pos[x], L, D) : x \in {w \in Particles : owner[w] = s}}
                BY Zenon, <6>1, <7>1
              <7>3. e \in AABBs(s, ghosts, L, D) /\ tree[s] = AABBs(s, ghosts, L, D)
                BY Zenon, <7>2, <2>2, <1>7
              <7> QED
                BY Zenon, <7>1, <7>3, <3>1
            <6> QED
              BY ZenonT(30), <6>2, <6>3
          <5> QED
            BY Zenon, <5>1, <5>2, <4>2, <2>1
        <4> QED
          BY Zenon, <4>1, <4>2
      <3> QED
        BY <3>5, Zenon
    <2> QED
      BY Zenon, <2>3, <2>4
  <1>10. TreeCurrent'
    BY <1>5, <1>9, Zenon DEF TreeCurrent
  <1>11. TypeOK'
    <2>1. DOMAIN tree' = Ranks
      BY <1>2, <1>8
    <2>2. AABB(t, p, L, D) \in [tag : Particles, at : Int \X Int, L : Boxes, D : Diameters]
      <3>1. p \in Int \X Int
        BY SMTT(30), <1>1, <1>3, Domains DEF Points, Axes
      <3> QED
        BY SMTT(30), <3>1, <1>1 DEF AABB
    <2>3. \A s \in Ranks : tree'[s] \subseteq
                            [tag : Particles, at : Int \X Int, L : Boxes, D : Diameters]
      BY <2>2, <1>1, <1>2, <1>8, ZenonT(30) DEF TypeOK, Updated
    <2> QED
      BY ZenonT(30), <2>1, <2>3, <1>1, <1>2, <1>4, <1>5 DEF TypeOK
  <1>12. InactiveKnown'
    <2>1. ASSUME NEW s \in Ranks, NEW u \in Particles, owner[u] # s,
                 ~isActive(owner[u], pos'[u]), NEW q \in Images(pos'[u]), InLayer(s, q, L, D)
          PROVE  Ghost(u, q) \in ghosts[s]
      <3>1. u # t
        BY ZenonT(30), <2>1, <1>2, <1>4
      <3>2. pos'[u] = pos[u]
        BY Zenon, <3>1, <1>4
      <3> QED
        BY Zenon, <2>1, <3>2, <1>7 DEF InactiveKnown
    <2>2. \A s \in Ranks, u \in Particles :
            owner[u] # s /\ ~isActive(owner[u], pos'[u]) =>
              \A q \in Images(pos'[u]) : InLayer(s, q, L, D) => Ghost(u, q) \in ghosts[s]
      BY Zenon, <2>1
    <2>3. cuts' = cuts /\ L' = L /\ D' = D /\ owner' = owner /\ ghosts' = ghosts
      BY <1>2, Zenon
    <2> QED
      BY ONLY <2>2, <2>3, KnownNext, ZenonT(60)
  <1>13. \A u \in Particles : InDomain(owner[u], pos'[u])
    BY ZenonT(30), <1>1, <1>2, <1>3, <1>4, <1>7, ActiveInDomain
  <1>14. CompleteMeansDone' /\ (is_complete => updater = "QuickCompress")'
    BY <1>2, <1>5, <1>6, Zenon DEF IInv, CompleteMeansDone
  <1>15. NoOverlap'
    BY <1>2, <1>5, <1>6, Zenon DEF IInv, NoOverlap
  <1> QED
    BY <1>2, <1>5, <1>7, <1>10, <1>11, <1>12, <1>13, <1>14, <1>15, ZenonT(30) DEF IInv

\* The grid shift at the end of an update makes no overlap.
LEMMA ShiftVanish ==
    ASSUME IInv, NEW v \in Shifts, endUpdate(v)
    PROVE  /\ pos' \in [Particles -> Points]
           /\ Overlapping(pos', L, D) \subseteq Overlapping(pos, L, D)
  <1>1. /\ TypeOK /\ WellCut(cuts) /\ L \in Nat \X Nat /\ D \in Nat
        /\ \A a \in Axes : D < L[a]
        /\ v \in Int \X Int /\ \A a \in Axes : Abs(v[a]) <= F(a)
    BY Typed, Zenon DEF IInv
  <1>2. pos' = [t \in Particles |-> Moved(pos[t], v)]
    BY Zenon DEF endUpdate
  <1>3. \A t \in Particles : pos[t] \in Points /\ Moved(pos[t], v) \in Points
    BY <1>1, MovedPoint DEF TypeOK
  <1>4. ASSUME NEW x \in Particles, NEW y \in Particles, Overlap(pos'[x], pos'[y], L, D)
        PROVE  Overlap(pos[x], pos[y], L, D)
    <2>1. Overlap(Moved(pos[x], v), Moved(pos[y], v), L, D)
      BY Zenon, <1>2, <1>4
    <2> QED
      BY ZenonT(30), <2>1, <1>1, <1>3, ShiftKeepsOverlaps
  <1> QED
    BY <1>2, <1>3, <1>4, ZenonT(30) DEF Overlapping

\* The end of an update.
LEMMA EndUpdateStep ==
    ASSUME IInv, NEW v \in Shifts, endUpdate(v)
    PROVE  IInv'
  <1>1. /\ UNCHANGED <<conf, judged, L, D, is_complete>> /\ target' \in targets
        /\ phase # "error" /\ migrate(pos')
        /\ tree_invalid' = AllInvalid /\ tree' = NoTrees
    BY Zenon DEF endUpdate
  <1> QED
    BY Zenon, <1>1, ShiftVanish, Migrated

=============================================================================
