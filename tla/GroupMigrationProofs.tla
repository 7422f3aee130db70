------------------------ MODULE GroupMigrationProofs ------------------------
(***************************************************************************)
(* The theorems about GroupMigration, for every grid of domains, every     *)
(* order of the ranks in it and every set of groups: as long as no         *)
(* particle crosses a lower face of the global box, groups follow their    *)
(* members through the six directions, and the ranks stored with them are  *)
(* those of their members.                                                 *)
(***************************************************************************)
EXTENDS GroupMigration, FiniteSetTheorems, WellFoundedInduction, TLAPS

-----------------------------------------------------------------------------
(***************************************************************************)
(* The inductive invariant.                                                *)
(***************************************************************************)

\* Where a particle is once the current direction is over.
NewOwner(p) == IF leaves(p) THEN getNeighborRank[owner[p]][dir] ELSE owner[p]

\* What is stored in each phase of a direction.
Stored ==
  /\ phase \in {"ranks", "groups"} =>
       \A r \in Ranks : held[r] = {g \in added : HasLocalMember(r, g)}
  /\ phase = "ranks" /\ ~m_bonds_changed =>
       \A r \in Ranks : \A g \in held[r] : \A i \in Idx(g) :
         m_group_ranks[r][g][i] = owner[Members[g][i]]
  /\ phase # "ranks" =>
       \A r \in Ranks : \A g \in held[r] : \A i \in Idx(g) :
         m_group_ranks[r][g][i] = NewOwner(Members[g][i])
  /\ phase = "particles" =>
       /\ ~m_bonds_changed
       /\ \A r \in Ranks :
            held[r] = {g \in added : \E i \in Idx(g) : NewOwner(Members[g][i]) = r}

\* Directions come in order: nothing is left to move in those passed.
Passed == \A p \in Particles : \A d \in 0..Done-1 :
  d < dir => offset[p][Axis(d)] # Sign(d)

\* No particle is about to leave the global box through a lower face.
Inside == \A p \in Particles : \A a \in Axes :
  offset[p][a] = -1 => GridPos[owner[p]][a] # 0

\* During a migration, the members of a group are and will be in neighboring
\* domains.
Together(p, q) == \A a \in Axes :
  \/ Extent[a] <= 3
  \/ /\ Separation(owner[p], owner[q], a) \in -1..1
     /\ Separation(owner[p], owner[q], a) + offset[q][a] - offset[p][a] \in -1..1

Close == \A g \in added : \A i, j \in Idx(g) : Together(Members[g][i], Members[g][j])

Shape ==
  /\ added \subseteq Groups
  /\ DOMAIN m_group_ranks = Ranks
  /\ \A r \in Ranks : DOMAIN m_group_ranks[r] = Groups

IInv ==
  /\ TypeOK
  /\ Shape
  /\ dir = Done => phase = "ranks"
  /\ dir # Done => isCommunicating(dir) /\ Close
  /\ Passed
  /\ Inside
  /\ Stored

-----------------------------------------------------------------------------
(***************************************************************************)
(* The grid of domains.                                                    *)
(***************************************************************************)

\* c is the position of a domain.
InGrid(c) == \A a \in Axes : c[a] \in 0..Extent[a]-1

LEMMA Extents ==
  /\ Extent[1] = W /\ Extent[2] = H /\ Extent[3] = D
  /\ W \in Nat \ {0} /\ H \in Nat \ {0} /\ D \in Nat \ {0}
  /\ \A a \in Axes : Extent[a] \in Nat \ {0}
<1>1. W \in Nat \ {0} /\ H \in Nat \ {0} /\ D \in Nat \ {0}
  BY GroupMigrationAssumption
<1> QED
  BY <1>1 DEF Extent, Axes

\* The quotient of a number below a product is below the other factor.
LEMMA QuotientBound ==
  ASSUME NEW m \in Nat \ {0}, NEW k \in Nat \ {0}, NEW n \in 0..m*k-1
  PROVE  n \div m \in 0..k-1
<1> DEFINE q == n \div m
<1>1. q \in Int /\ n % m \in 0..m-1 /\ n = q * m + (n % m)
  OBVIOUS
<1> HIDE DEF q
<1>2. CASE q < 0
  <2>1. q * m <= -m
    BY <1>1, <1>2
  <2> QED
    BY <2>1, <1>1
<1>3. CASE q >= k
  <2>1. q * m >= k * m
    BY <1>1, <1>3
  <2> QED
    BY <2>1, <1>1
<1> QED
  BY <1>1, <1>2, <1>3 DEF q

\* Dividing twice is dividing by the product.
LEMMA DivideTwice ==
  ASSUME NEW m \in Nat \ {0}, NEW k \in Nat \ {0}, NEW n \in Nat
  PROVE  (n \div m) \div k = n \div (m * k)
<1> DEFINE q == n \div m
           u == n % m
           t == q \div k
           v == q % k
<1>1. q \in Nat /\ u \in 0..m-1 /\ n = q * m + u
  OBVIOUS
<1> HIDE DEF q, u
<1>2. t \in Nat /\ v \in 0..k-1 /\ q = t * k + v
  BY <1>1
<1> HIDE DEF t, v
<1>3. n = t * (m * k) + (v * m + u)
  <2>1. q * m = (t * k) * m + v * m
    BY <1>1, <1>2
  <2>2. (t * k) * m = t * (m * k)
    BY <1>2
  <2> QED
    BY <1>1, <1>2, <2>1, <2>2
<1>4. v * m + u \in 0 .. m * k - 1
  <2>1. v * m <= (k - 1) * m /\ v * m >= 0
    BY <1>2
  <2>2. (k - 1) * m = m * k - m
    OBVIOUS
  <2> QED
    BY <2>1, <2>2, <1>1, <1>2
<1> DEFINE e == m * k
           x == v * m + u
<1>5. e \in Nat \ {0} /\ x \in 0 .. e - 1 /\ n = t * e + x
  BY <1>3, <1>4
<1> HIDE DEF e, x
<1>6. n \div e = t
  BY <1>2, <1>5
<1> QED
  BY <1>6 DEF e, t, q

\* The position of the domain with index n, and its index.
LEMMA TripleInGrid ==
  ASSUME NEW n \in Ranks
  PROVE  InGrid(Triple(n)) /\ Index(Triple(n)) = n
<1> USE Extents
<1> DEFINE q == n \div W
           x == n % W
           y == q % H
           z == n \div (W * H)
<1>1. n \in Nat /\ n < W * H * D
  BY DEF Ranks
<1>2. q \in Nat /\ x \in 0..W-1 /\ n = q * W + x
  BY <1>1
<1>3. z = q \div H
  BY <1>1, DivideTwice
<1>4. y \in 0..H-1 /\ z \in Int /\ q = z * H + y
  <2> HIDE DEF q, z
  <2>1. y \in 0..H-1 /\ q \div H \in Int /\ q = (q \div H) * H + y
    BY <1>2
  <2> QED
    BY <2>1, <1>3
<1>5. z \in 0..D-1
  <2>1. W * H \in Nat \ {0}
    OBVIOUS
  <2>2. n \in 0 .. (W * H) * D - 1
    BY <1>1
  <2> QED
    BY ZenonT(30), <2>1, <2>2, QuotientBound
<1> HIDE DEF q, x, y, z
<1>6. Triple(n) = <<x, y, z>>
  BY DEF Triple, x, y, z, q
<1>7. InGrid(Triple(n))
  BY <1>2, <1>4, <1>5, <1>6 DEF InGrid, Axes
<1>8. Index(Triple(n)) = n % UIntSize
  BY <1>2, <1>4, <1>5, <1>6 DEF Index
<1>9. n % UIntSize = n
  BY <1>1, GroupMigrationAssumption
<1> QED
  BY <1>7, <1>8, <1>9

\* The index of the domain at a position, and its position.
LEMMA IndexInGrid ==
  ASSUME NEW c, InGrid(c)
  PROVE  Index(c) \in Ranks /\ \A a \in Axes : Triple(Index(c))[a] = c[a]
<1> USE Extents
<1> DEFINE x == c[1]
           y == c[2]
           z == c[3]
           q == z * H + y
           n == q * W + x
<1>1. x \in 0..W-1 /\ y \in 0..H-1 /\ z \in 0..D-1
  BY DEF InGrid, Axes
<1> HIDE DEF x, y, z
<1>2. q \in 0 .. H * D - 1
  <2>1. z * H <= (D - 1) * H /\ z * H >= 0
    BY <1>1
  <2>2. (D - 1) * H = H * D - H
    OBVIOUS
  <2> QED
    BY <1>1, <2>1, <2>2
<1>3. q % H = y /\ q \div H = z
  BY <1>1
<1> HIDE DEF q
<1>4. n \in 0 .. W * H * D - 1
  <2>1. q * W <= (H * D - 1) * W /\ q * W >= 0
    BY <1>2
  <2>2. (H * D - 1) * W = W * H * D - W
    OBVIOUS
  <2> QED
    BY <1>1, <1>2, <2>1, <2>2
<1>5. n % W = x /\ n \div W = q
  BY <1>1, <1>2
<1> HIDE DEF n
<1>6. n \div (W * H) = z
  BY <1>3, <1>4, <1>5, DivideTwice
<1>7. Index(c) = n
  <2>1. Index(c) = n % UIntSize
    BY DEF Index, n, q, x, y, z
  <2>2. n % UIntSize = n
    BY <1>4, GroupMigrationAssumption
  <2> QED
    BY <2>1, <2>2
<1>8. Triple(n) = <<x, y, z>>
  BY <1>3, <1>5, <1>6 DEF Triple
<1>9. \A a \in Axes : Triple(n)[a] = c[a]
  BY <1>8 DEF Axes, x, y, z
<1> QED
  BY <1>4, <1>7, <1>9 DEF Ranks

\* Every rank has a domain.
LEMMA RankHasIndex ==
  ASSUME NEW r \in Ranks
  PROVE  \E n \in Ranks : cart_ranks[n] = r
<1>1. SUFFICES ASSUME \A n \in Ranks : cart_ranks[n] # r PROVE FALSE
  OBVIOUS
<1> DEFINE T == Ranks \ {r}
<1>2. W * H * D \in Nat
  BY Extents
<1>3. IsFiniteSet(Ranks)
  BY <1>2, FS_Interval DEF Ranks
<1>4. IsFiniteSet(T) /\ Cardinality(T) < Cardinality(Ranks)
  <2>1. IsFiniteSet(T) /\ Cardinality(T) = Cardinality(Ranks) - 1
    BY <1>3, FS_RemoveElement
  <2>2. Cardinality(Ranks) \in Nat
    BY <1>3, FS_CardinalityType
  <2> QED
    BY <2>1, <2>2
<1>5. cart_ranks \in [Ranks -> T]
  BY <1>1, GroupMigrationAssumption
<1>6. \E n, m \in Ranks : n # m /\ cart_ranks[n] = cart_ranks[m]
  BY <1>3, <1>4, <1>5, FS_PigeonHole
<1> QED
  BY <1>6, GroupMigrationAssumption

\* The position of a rank's domain, and the rank at it.
LEMMA GridPosition ==
  ASSUME NEW r \in Ranks
  PROVE  InGrid(GridPos[r]) /\ cart_ranks[Index(GridPos[r])] = r
<1> DEFINE n == CHOOSE n \in Ranks : cart_ranks[n] = r
<1>1. n \in Ranks /\ cart_ranks[n] = r
  BY RankHasIndex
<1>2. GridPos[r] = Triple(n)
  BY DEF GridPos
<1> HIDE DEF n
<1> QED
  BY <1>1, <1>2, TripleInGrid

\* The rank at a position, and its position.
LEMMA RankAt ==
  ASSUME NEW c, InGrid(c)
  PROVE  /\ cart_ranks[Index(c)] \in Ranks
         /\ \A a \in Axes : GridPos[cart_ranks[Index(c)]][a] = c[a]
<1> DEFINE n == Index(c)
           r == cart_ranks[n]
           m == CHOOSE k \in Ranks : cart_ranks[k] = r
<1>1. n \in Ranks /\ \A a \in Axes : Triple(n)[a] = c[a]
  BY IndexInGrid
<1> HIDE DEF n
<1>2. r \in Ranks
  BY <1>1, GroupMigrationAssumption
<1>3. m \in Ranks /\ cart_ranks[m] = r
  BY <1>1
<1>4. m = n
  BY <1>1, <1>3, GroupMigrationAssumption
<1>5. GridPos[r] = Triple(m)
  BY <1>2 DEF GridPos
<1> QED
  BY ZenonT(30), <1>1, <1>2, <1>4, <1>5 DEF n

\* Positions with the same coordinates have the same index.
LEMMA SameIndex ==
  ASSUME NEW c, NEW e, \A a \in Axes : c[a] = e[a]
  PROVE  Index(c) = Index(e)
BY DEF Index, Axes

LEMMA Positions ==
  ASSUME NEW r \in Ranks, NEW a \in Axes
  PROVE  GridPos[r][a] \in 0..Extent[a]-1
BY GridPosition DEF InGrid

\* A remainder is in range.
LEMMA Remainder ==
  ASSUME NEW e \in Nat \ {0}, NEW x \in Int
  PROVE  x % e \in 0..e-1
OBVIOUS

\* A shifted position is one of the grid.
LEMMA ShiftedInGrid ==
  ASSUME NEW r \in Ranks, NEW s \in [Axes -> -1..1]
  PROVE  InGrid(Shifted(r, s))
<1>1. SUFFICES ASSUME NEW a \in Axes PROVE Shifted(r, s)[a] \in 0..Extent[a]-1
  BY DEF InGrid
<1>2. Extent[a] \in Nat \ {0}
  BY Extents
<1>3. GridPos[r][a] + s[a] \in Int
  BY <1>2, Positions
<1> QED
  BY ZenonT(30), <1>2, <1>3, Remainder DEF Shifted

Ahead(d) == [a \in Axes |-> IF a = Axis(d) THEN Sign(d) ELSE 0]

LEMMA Directions ==
  ASSUME NEW d \in 0..Done-1
  PROVE  /\ Axis(d) \in Axes /\ Sign(d) \in {1, -1}
         /\ Ahead(d) \in [Axes -> -1..1]
<1>1. d \in {0, 1, 2, 3, 4, 5}
  BY DEF Done
<1>2. Axis(d) \in Axes /\ Sign(d) \in {1, -1}
  BY <1>1 DEF Axis, Axes, Sign
<1> QED
  BY <1>2 DEF Ahead

\* The neighbor in a direction: one domain on, around the box.
LEMMA Neighbor ==
  ASSUME NEW r \in Ranks, NEW d \in 0..Done-1
  PROVE  /\ getNeighborRank[r][d] = cart_ranks[Index(Shifted(r, Ahead(d)))]
         /\ getNeighborRank[r][d] \in Ranks
         /\ \A a \in Axes : GridPos[getNeighborRank[r][d]][a] =
              IF a = Axis(d) THEN (GridPos[r][a] + Sign(d)) % Extent[a] ELSE GridPos[r][a]
<1>1. getNeighborRank[r][d] = cart_ranks[Index(Shifted(r, Ahead(d)))]
  BY DEF getNeighborRank, Ahead
<1>2. InGrid(Shifted(r, Ahead(d)))
  BY Directions, ShiftedInGrid
<1>3. getNeighborRank[r][d] \in Ranks
  BY <1>1, <1>2, RankAt
<1>4. \A a \in Axes : GridPos[getNeighborRank[r][d]][a] = Shifted(r, Ahead(d))[a]
  BY <1>1, <1>2, RankAt
<1>5. ASSUME NEW a \in Axes
      PROVE  Shifted(r, Ahead(d))[a] =
               IF a = Axis(d) THEN (GridPos[r][a] + Sign(d)) % Extent[a] ELSE GridPos[r][a]
  <2>1. GridPos[r][a] \in 0..Extent[a]-1 /\ Extent[a] \in Nat \ {0}
    BY Positions, Extents
  <2>2. GridPos[r][a] % Extent[a] = GridPos[r][a] /\ GridPos[r][a] + 0 = GridPos[r][a]
    BY <2>1
  <2> QED
    BY <2>2 DEF Shifted, Ahead
<1> QED
  BY <1>1, <1>3, <1>4, <1>5

LEMMA NeighborIsUnique ==
  ASSUME NEW r \in Ranks, NEW d \in 0..Done-1, isCommunicating(d)
  PROVE  getNeighborRank[r][d] \in UniqueNeighbors[r]
<1>1. Axis(d) \in Axes /\ Sign(d) \in {1, -1} /\ Ahead(d) \in [Axes -> -1..1]
  BY Directions
<1>2. Ahead(d) \in Steps
  BY <1>1 DEF Steps, Ahead, isCommunicating
<1>3. Ahead(d)[Axis(d)] # 0
  BY <1>1 DEF Ahead
<1> QED
  BY <1>1, <1>2, <1>3, Neighbor DEF UniqueNeighbors

\* No extent of the grid comes near the end of the unsigned integers.
LEMMA ExtentBound ==
  ASSUME NEW a \in Axes
  PROVE  Extent[a] < UIntSize
<1>1. W * H * D >= W /\ W * H * D >= H /\ W * H * D >= D
  <2> USE Extents
  <2>1. W * H >= W /\ W * H >= H /\ W * H \in Nat \ {0}
    OBVIOUS
  <2> DEFINE m == W * H
  <2>2. m * D >= m /\ m * D >= D
    <3> HIDE DEF m
    <3> QED
      BY <2>1 DEF m
  <2> QED
    BY <2>1, <2>2
<1>2. UIntSize \in Nat /\ UIntSize > 2 * (W * H * D)
  BY GroupMigrationAssumption, Extents
<1> QED
  BY <1>1, <1>2, Extents DEF Axes

\* Unless the particle leaves through a lower face of the global box, phase 1
\* computes the neighbor it is sent to.
LEMMA DestinationIsNeighbor ==
  ASSUME dir \in 0..Done-1, NEW r \in Ranks,
         Sign(dir) = -1 => GridPos[r][Axis(dir)] # 0
  PROVE  /\ Index(Destination(r)) \in Ranks
         /\ cart_ranks[Index(Destination(r))] = getNeighborRank[r][dir]
<1>1. ASSUME NEW a \in Axes
      PROVE  Destination(r)[a] = Shifted(r, Ahead(dir))[a]
  <2> DEFINE x == GridPos[r][a]
             e == Extent[a]
             s == Ahead(dir)[a]
             n == (x + s) % UIntSize
  <2>1. x \in 0..e-1 /\ e \in Nat \ {0} /\ e < UIntSize /\ UIntSize \in Nat
    BY Positions, Extents, ExtentBound, GroupMigrationAssumption
  <2>2. Ahead(dir) \in [Axes -> -1..1] /\ Axis(dir) \in Axes
    BY Directions
  <2>3. s \in -1..1 /\ (s = -1 => x # 0)
    BY <2>2 DEF Ahead
  <2>4. Destination(r)[a] = IF n = e THEN 0 ELSE n
    BY DEF Destination, Ahead
  <2>5. Shifted(r, Ahead(dir))[a] = (x + s) % e
    BY DEF Shifted
  <2> HIDE DEF x, e, s
  <2>6. x + s \in 0..e
    BY <2>1, <2>3
  <2>7. n = x + s
    BY <2>1, <2>6
  <2>8. (x + s) % e = IF x + s = e THEN 0 ELSE x + s
    BY <2>1, <2>6
  <2> QED
    BY <2>4, <2>5, <2>7, <2>8
<1>2. Index(Destination(r)) = Index(Shifted(r, Ahead(dir)))
  BY <1>1, SameIndex
<1>3. InGrid(Shifted(r, Ahead(dir)))
  BY Directions, ShiftedInGrid
<1>4. Index(Shifted(r, Ahead(dir))) \in Ranks
  BY <1>3, IndexInGrid
<1> QED
  BY <1>2, <1>4, Neighbor

\* The separation of two positions along a ring of e domains.
Ring(x, y, e) == IF 2 * ((y - x) % e) > e THEN ((y - x) % e) - e ELSE (y - x) % e

LEMMA SeparationRing ==
  ASSUME NEW r, NEW s, NEW a
  PROVE  Separation(r, s, a) = Ring(GridPos[r][a], GridPos[s][a], Extent[a])
BY DEF Separation, Ring

LEMMA RingTyped ==
  ASSUME NEW x \in Int, NEW y \in Int, NEW e \in Nat \ {0}
  PROVE  Ring(x, y, e) \in Int
<1>1. (y - x) % e \in 0..e-1
  OBVIOUS
<1> QED
  BY <1>1 DEF Ring

\* Domains at most one apart along a ring are reached by a step.
LEMMA RingStep ==
  ASSUME NEW e \in Nat \ {0}, NEW x \in 0..e-1, NEW y \in 0..e-1,
         e <= 3 \/ Ring(x, y, e) \in -1..1
  PROVE  \E t \in -1..1 : (e = 1 => t = 0) /\ (x + t) % e = y
<1> DEFINE d == (y - x) % e
<1>1. d \in 0..e-1 /\ (d = y - x \/ d = (y - x) + e)
  <2> DEFINE z == y - x
  <2>1. z \in Int /\ -e <= z /\ z < e
    OBVIOUS
  <2>2. z % e \in 0..e-1 /\ (z % e = z \/ z % e = z + e)
    <3> HIDE DEF z
    <3>1. CASE z >= 0
      BY <2>1, <3>1
    <3>2. CASE z < 0
      BY <2>1, <3>2
    <3> QED
      BY <2>1, <3>1, <3>2
  <2> QED
    BY <2>2
<1> HIDE DEF d
<1>2. Ring(x, y, e) = IF 2 * d > e THEN d - e ELSE d
  BY DEF Ring, d
<1>3. \E t \in -1..1 : (e = 1 => t = 0) /\ (x + t = y \/ x + t = y + e \/ x + t = y - e)
  <2>1. CASE d = 0
    BY <1>1, <2>1
  <2>2. CASE d = 1
    <3>1. e # 1 /\ 1 \in -1..1 /\ (x + 1 = y \/ x + 1 = y + e)
      BY <1>1, <2>2
    <3> QED
      BY <3>1
  <2>3. CASE d = e - 1 /\ d # 0
    <3>1. e # 1 /\ -1 \in -1..1 /\ (x + (-1) = y \/ x + (-1) = y - e)
      BY <1>1, <2>3
    <3> QED
      BY <3>1
  <2> QED
    BY <1>1, <1>2, <2>1, <2>2, <2>3
<1>4. PICK t \in -1..1 : (e = 1 => t = 0) /\ (x + t = y \/ x + t = y + e \/ x + t = y - e)
  BY <1>3
<1>5. y % e = y /\ (y + e) % e = y /\ (y - e) % e = y
  OBVIOUS
<1> QED
  BY <1>4, <1>5

\* Ranks that are not further apart than a domain are neighbors.
LEMMA Adjacent ==
  ASSUME NEW r \in Ranks, NEW s \in Ranks, r # s,
         \A a \in Axes : Extent[a] <= 3 \/ Separation(r, s, a) \in -1..1
  PROVE  s \in UniqueNeighbors[r]
<1> DEFINE Along(a, t) == /\ Extent[a] = 1 => t = 0
                          /\ (GridPos[r][a] + t) % Extent[a] = GridPos[s][a]
           step == [a \in Axes |-> CHOOSE t \in -1..1 : Along(a, t)]
<1>1. ASSUME NEW a \in Axes
      PROVE  \E t \in -1..1 : Along(a, t)
  <2>1. /\ Extent[a] \in Nat \ {0}
        /\ GridPos[r][a] \in 0..Extent[a]-1 /\ GridPos[s][a] \in 0..Extent[a]-1
    BY Extents, Positions
  <2>2. Extent[a] <= 3 \/ Ring(GridPos[r][a], GridPos[s][a], Extent[a]) \in -1..1
    BY SeparationRing
  <2> QED
    BY ZenonT(30), <2>1, <2>2, RingStep
<1>2. \A a \in Axes : step[a] \in -1..1 /\ Along(a, step[a])
  BY <1>1
<1>3. step \in Steps
  BY ZenonT(30), <1>2 DEF Steps
<1>4. \A a \in Axes : Shifted(r, step)[a] = GridPos[s][a]
  BY <1>2 DEF Shifted
<1>5. s = cart_ranks[Index(Shifted(r, step))]
  BY <1>4, SameIndex, GridPosition
<1>6. \E a \in Axes : step[a] # 0
  <2>1. SUFFICES ASSUME \A a \in Axes : step[a] = 0 PROVE FALSE
    OBVIOUS
  <2>2. ASSUME NEW a \in Axes PROVE GridPos[r][a] = GridPos[s][a]
    <3>1. Extent[a] \in Nat \ {0} /\ GridPos[r][a] \in 0..Extent[a]-1
      BY Extents, Positions
    <3>2. (GridPos[r][a] + 0) % Extent[a] = GridPos[r][a]
      BY <3>1
    <3> QED
      BY <3>2, <2>1, <1>2
  <2>3. Index(GridPos[r]) = Index(GridPos[s])
    BY <2>2, SameIndex
  <2> QED
    BY <2>3, GridPosition
<1> HIDE DEF step
<1> QED
  BY <1>3, <1>5, <1>6 DEF UniqueNeighbors

\* Along a ring of more than three domains: one apart, in either direction.
LEMMA RingNear ==
  ASSUME NEW e \in Nat, e > 3, NEW x \in 0..e-1, NEW y \in 0..e-1, NEW k \in -1..1
  PROVE  Ring(x, y, e) = k <=> (y - x = k \/ y - x = k + e \/ y - x = k - e)
<1> DEFINE z == y - x
           d == z % e
<1>1. z \in Int /\ -e < z /\ z < e
  OBVIOUS
<1>2. d \in 0..e-1 /\ (z >= 0 => d = z) /\ (z < 0 => d = z + e)
  <2> HIDE DEF z
  <2>1. CASE z >= 0
    BY <1>1, <2>1
  <2>2. CASE z < 0
    BY <1>1, <2>2
  <2> QED
    BY <1>1, <2>1, <2>2
<1>3. Ring(x, y, e) = IF 2 * d > e THEN d - e ELSE d
  BY DEF Ring
<1> HIDE DEF d
<1>4. CASE z >= 0
  BY <1>1, <1>2, <1>3, <1>4
<1>5. CASE z < 0
  BY <1>1, <1>2, <1>3, <1>5
<1> QED
  BY <1>1, <1>4, <1>5

\* Where a step of s, around the ring, ends.
Onward(x, o, s, e) == IF o = s THEN (x + s) % e ELSE x

\* What is left of an offset after it.
Rest(o, s) == IF o = s THEN 0 ELSE o

\* Members of a group stay together while those that move in a direction do.
LEMMA RingMoves ==
  ASSUME NEW e \in Nat, e > 3, NEW x \in 0..e-1, NEW y \in 0..e-1,
         NEW s \in {1, -1}, NEW o \in -1..1, NEW u \in -1..1,
         Ring(x, y, e) \in -1..1, Ring(x, y, e) + u - o \in -1..1
  PROVE  LET k == Ring(Onward(x, o, s, e), Onward(y, u, s, e), e)
         IN  k \in -1..1 /\ k + Rest(u, s) - Rest(o, s) \in -1..1
<1> DEFINE k == Ring(x, y, e)
           m == Onward(x, o, s, e)
           n == Onward(y, u, s, e)
           i == o - Rest(o, s)
           j == u - Rest(u, s)
           Around(v, w) == v = w \/ v = w + e \/ v = w - e
<1>1. \/ y - x = k \/ y - x = k + e \/ y - x = k - e
  BY RingNear
<1>2. ASSUME NEW z \in 0..e-1, NEW v \in -1..1
      PROVE  /\ Onward(z, v, s, e) \in 0..e-1
             /\ Around(Onward(z, v, s, e), z + (v - Rest(v, s)))
  <2>1. CASE v # s
    BY <2>1 DEF Onward, Rest
  <2>2. CASE v = s
    <3>1. Onward(z, v, s, e) = (z + s) % e /\ v - Rest(v, s) = s
      BY <2>2 DEF Onward, Rest
    <3> DEFINE w == z + s
    <3>2. w \in Int /\ -1 <= w /\ w <= e
      OBVIOUS
    <3>3. w % e \in 0..e-1 /\ (w % e = w \/ w % e = w + e \/ w % e = w - e)
      <4> HIDE DEF w
      <4>1. CASE w = -1
        BY <4>1
      <4>2. CASE w = e
        BY <4>2
      <4>3. CASE w \in 0..e-1
        BY <4>3
      <4> QED
        BY <3>2, <4>1, <4>2, <4>3
    <3> QED
      BY <3>1, <3>3
  <2> QED
    BY <2>1, <2>2
<1> HIDE DEF Around
<1>3. m \in 0..e-1 /\ Around(m, x + i)
  BY Zenon, <1>2
<1>4. n \in 0..e-1 /\ Around(n, y + j)
  BY Zenon, <1>2
<1>5. /\ i \in -1..1 /\ j \in -1..1 /\ k \in -1..1
      /\ Rest(o, s) = o - i /\ Rest(u, s) = u - j
      /\ (k + j) - i \in -1..1
  BY DEF Rest
<1> HIDE DEF k, m, n, i, j
<1>6. \E l \in -1..1 : l = (k + j) - i /\ (n - m = l \/ n - m = l + e \/ n - m = l - e)
  BY <1>1, <1>3, <1>4, <1>5 DEF Around
<1>7. Ring(m, n, e) = (k + j) - i
  BY <1>3, <1>4, <1>6, RingNear
<1>8. ((k + j) - i) + Rest(u, s) - Rest(o, s) \in -1..1
  BY <1>5 DEF k
<1> QED
  BY <1>5, <1>7, <1>8 DEF m, n

\* Every set of ranks has a lowest one.
LEMMA Lowest ==
  ASSUME NEW T, T \subseteq Nat, T # {}
  PROVE  \E x \in T : \A y \in T : x <= y
<1> DEFINE R == OpToRel(<, Nat)
<1>1. IsWellFoundedOn(R, Nat)
  BY NatLessThanWellFounded
<1> HIDE DEF R
<1>2. PICK x \in T : \A y \in T : ~ (<<y, x>> \in R)
  BY <1>1, WFMin, Zenon
<1>3. \A v, w \in Nat : v < w => <<v, w>> \in R
  BY DEF R, OpToRel
<1>4. ASSUME NEW y \in T PROVE x <= y
  <2>1. x \in Nat /\ y \in Nat
    OBVIOUS
  <2>2. ~ (y < x)
    BY ZenonT(30), <1>2, <1>3, <2>1
  <2> QED
    BY <2>1, <2>2
<1> QED
  BY <1>4

\* The directions skipped are those in which there is one domain only.
LEMMA NextDirection ==
  ASSUME NEW d \in 0..Done
  PROVE  /\ NextDir(d) \in d..Done
         /\ NextDir(d) # Done => isCommunicating(NextDir(d))
         /\ \A f \in d..Done-1 : f < NextDir(d) => ~isCommunicating(f)
<1> DEFINE later == {e \in d..Done-1 : isCommunicating(e)}
<1>1. CASE later = {}
  <2>1. NextDir(d) = Done
    BY <1>1 DEF NextDir
  <2> QED
    BY <1>1, <2>1 DEF Done
<1>2. CASE later # {}
  <2>1. later \subseteq Nat
    BY DEF Done
  <2>2. \E e \in later : \A f \in later : e <= f
    BY ZenonT(30), <1>2, <2>1, Lowest
  <2>3. NextDir(d) \in later /\ \A f \in later : NextDir(d) <= f
    BY <1>2, <2>2 DEF NextDir
  <2>4. NextDir(d) \in d..Done-1 /\ isCommunicating(NextDir(d))
    BY <2>3
  <2>5. ASSUME NEW f \in d..Done-1, f < NextDir(d) PROVE ~isCommunicating(f)
    BY <2>3, <2>4, <2>5
  <2> QED
    BY <2>4, <2>5 DEF Done
<1> QED
  BY <1>1, <1>2

-----------------------------------------------------------------------------
(***************************************************************************)
(* Phase 1: the ranks of the members.                                      *)
(***************************************************************************)

LEMMA MemberParticles ==
  ASSUME NEW g \in Groups, NEW i \in Idx(g)
  PROVE  Members[g][i] \in Particles
<1>1. Members[g] \in Seq(Particles)
  BY Zenon, GroupMigrationAssumption
<1> QED
  BY <1>1 DEF Idx

LEMMA ZerosTyped ==
  ASSUME NEW g \in Groups
  PROVE  Zeros(g) \in [Idx(g) -> Ranks \cup {NoRank}]
<1>1. W * H * D \in Nat \ {0}
  BY Extents
<1>2. 0 \in Ranks
  BY <1>1 DEF Ranks
<1> QED
  BY <1>2 DEF Zeros

\* A leaving member goes to a neighbor, which is what its rank computes.
LEMMA LeavingMember ==
  ASSUME IInv, dir # Done, NEW r \in Ranks, NEW g \in held[r], NEW i \in Leaving(r, g)
  PROVE  /\ NewOwner(Members[g][i]) = getNeighborRank[r][dir]
         /\ r \notin ReadsOutside
         /\ cart_ranks[Index(Destination(r))] = getNeighborRank[r][dir]
<1> DEFINE p == Members[g][i]
<1>1. dir \in 0..Done-1
  BY DEF IInv, TypeOK, Done
<1>2. g \in Groups /\ i \in Idx(g)
  BY DEF IInv, TypeOK, Shape, Leaving
<1>3. p \in Particles /\ owner[p] = r /\ leaves(p)
  BY Zenon, <1>2, MemberParticles DEF Leaving, isLocal
<1> HIDE DEF p
<1>4. Axis(dir) \in Axes
  BY <1>1, Directions
<1>5. Sign(dir) = -1 => GridPos[r][Axis(dir)] # 0
  BY Zenon, <1>3, <1>4 DEF IInv, Inside, leaves
<1>6. /\ Index(Destination(r)) \in Ranks
      /\ cart_ranks[Index(Destination(r))] = getNeighborRank[r][dir]
  BY <1>1, <1>5, DestinationIsNeighbor
<1>7. r \notin ReadsOutside
  BY Zenon, <1>6 DEF ReadsOutside
<1>8. NewOwner(p) = getNeighborRank[r][dir]
  BY Zenon, <1>3 DEF NewOwner
<1> QED
  BY <1>6, <1>7, <1>8 DEF p

LEMMA NewOwnerTyped ==
  ASSUME TypeOK, dir # Done, NEW p \in Particles
  PROVE  NewOwner(p) \in Ranks
<1>1. dir \in 0..Done-1 /\ owner[p] \in Ranks
  BY DEF TypeOK, Done
<1> QED
  BY <1>1, Neighbor DEF NewOwner

\* In phase 1, a rank stores the groups that have a member on it.
LEMMA HeldBy ==
  ASSUME IInv, phase \in {"ranks", "groups"}, NEW r \in Ranks, NEW g
  PROVE  g \in held[r] <=> g \in added /\ HasLocalMember(r, g)
BY Zenon DEF IInv, Stored

\* A rank knows where its own members will be.
LEMMA OwnMembers ==
  ASSUME IInv, dir # Done, phase = "ranks", NEW outside,
         NEW r \in Ranks, NEW g \in held[r], NEW i \in Idx(g), isLocal(r, g, i)
  PROVE  UpdatedRanks(r, g, outside)[i] = NewOwner(Members[g][i])
<1>1. CASE i \in Leaving(r, g)
  BY <1>1, LeavingMember DEF UpdatedRanks
<1>2. CASE i \notin Leaving(r, g)
  <2>1. NewOwner(Members[g][i]) = r /\ owner[Members[g][i]] = r
    BY Zenon, <1>2 DEF NewOwner, Leaving, isLocal
  <2>2. ~m_bonds_changed => m_group_ranks[r][g][i] = owner[Members[g][i]]
    BY DEF IInv, Stored
  <2> QED
    BY <1>2, <2>1, <2>2 DEF UpdatedRanks
<1> QED
  BY <1>1, <1>2

\* Ranks with members of the same group are neighbors.
LEMMA OwnersAdjacent ==
  ASSUME IInv, dir # Done, NEW g \in added, NEW i \in Idx(g), NEW j \in Idx(g),
         owner[Members[g][i]] # owner[Members[g][j]]
  PROVE  owner[Members[g][j]] \in UniqueNeighbors[owner[Members[g][i]]]
<1> DEFINE p == Members[g][i]
           q == Members[g][j]
<1>1. g \in Groups
  BY DEF IInv, Shape
<1>2. p \in Particles /\ q \in Particles
  BY Zenon, <1>1, MemberParticles
<1>3. owner[p] \in Ranks /\ owner[q] \in Ranks
  BY <1>2 DEF IInv, TypeOK
<1>4. Together(p, q)
  BY Zenon DEF IInv, Close
<1>5. \A a \in Axes : Extent[a] <= 3 \/ Separation(owner[p], owner[q], a) \in -1..1
  BY Zenon, <1>4 DEF Together
<1> QED
  BY Zenon, <1>3, <1>5, Adjacent

\* The ranks that announce member i of g to r, and what r has afterwards.
Tellers(r, g, i, outside) ==
  {s \in Ranks : g \in held[s] /\ i \in Mask(s, g) /\ r \in ToldBy(s, g, outside)}

Told(r, g, i, outside) ==
  IF Tellers(r, g, i, outside) = {} THEN UpdatedRanks(r, g, outside)[i]
  ELSE UpdatedRanks(CHOOSE s \in Tellers(r, g, i, outside) : TRUE, g, outside)[i]

\* Only the owner of a member announces it.
LEMMA TellersOwn ==
  ASSUME NEW outside, NEW r, NEW g, NEW i, NEW s \in Tellers(r, g, i, outside)
  PROVE  s \in Ranks /\ g \in held[s] /\ isLocal(s, g, i)
<1>1. s \in Ranks /\ g \in held[s] /\ i \in Mask(s, g)
  BY Zenon DEF Tellers
<1> QED
  BY <1>1 DEF Mask, Leaving

\* What a rank does not hear of, it has already.
LEMMA Untold ==
  ASSUME IInv, dir # Done, phase = "ranks", NEW outside,
         NEW r \in Ranks, NEW g \in held[r], NEW i \in Idx(g), ~isLocal(r, g, i),
         Tellers(r, g, i, outside) = {}
  PROVE  UpdatedRanks(r, g, outside)[i] = NewOwner(Members[g][i])
<1> DEFINE p == Members[g][i]
           s == owner[p]
<1>1. g \in added /\ HasLocalMember(r, g) /\ g \in Groups
  BY HeldBy DEF IInv, Shape
<1>2. PICK j \in Idx(g) : isLocal(r, g, j)
  BY Zenon, <1>1 DEF HasLocalMember
<1>3. p \in Particles
  BY Zenon, <1>1, MemberParticles
<1>4. s \in Ranks /\ isLocal(s, g, i) /\ s # r
  BY <1>3 DEF IInv, TypeOK, isLocal
<1>5. g \in held[s]
  BY Zenon, <1>1, <1>4, HeldBy DEF HasLocalMember
<1>6. r \in UniqueNeighbors[s]
  BY Zenon, <1>1, <1>2, <1>4, OwnersAdjacent DEF isLocal
<1>7. ~isLocal(s, g, j)
  BY Zenon, <1>2, <1>4 DEF isLocal
<1>8. r \notin ToldBy(s, g, outside) \/ i \notin Mask(s, g)
  BY Zenon, <1>4, <1>5 DEF Tellers
<1>9. Mask(s, g) = Leaving(s, g) \cup {k \in Idx(g) : m_bonds_changed /\ isLocal(s, g, k)}
  BY Zenon, <1>7 DEF Mask
<1>10. ~m_bonds_changed
  <2>1. SUFFICES ASSUME m_bonds_changed PROVE FALSE
    OBVIOUS
  <2>2. i \in Mask(s, g)
    BY Zenon, <1>4, <1>9, <2>1
  <2>3. r \in ToldBy(s, g, outside)
    BY <1>6, <2>1, <2>2 DEF ToldBy
  <2> QED
    BY Zenon, <1>8, <2>2, <2>3
<1>11. /\ m_group_ranks[r][g][i] = owner[p]
       /\ m_group_ranks[s][g][j] = r
  <2>1. owner[Members[g][j]] = r
    BY Zenon, <1>2 DEF isLocal
  <2> QED
    BY <1>4, <1>5, <1>10, <2>1 DEF IInv, Stored
<1>12. ~leaves(p)
  <2>1. SUFFICES ASSUME leaves(p) PROVE FALSE
    OBVIOUS
  <2>2. i \in Leaving(s, g)
    BY Zenon, <1>4, <2>1 DEF Leaving
  <2>3. i \in Mask(s, g) /\ j \notin Mask(s, g) /\ j \notin Leaving(s, g)
    BY ZenonT(60), <1>7, <1>9, <1>10, <2>2 DEF Leaving
  <2>4. UpdatedRanks(s, g, outside)[j] = r
    BY SMTT(30), <1>10, <1>11, <2>3 DEF UpdatedRanks
  <2>5. r \in ToldBy(s, g, outside)
    BY <1>4, <1>6, <1>10, <2>3, <2>4 DEF ToldBy
  <2> QED
    BY Zenon, <1>8, <2>3, <2>5
<1>13. i \notin Leaving(r, g)
  BY Zenon DEF Leaving
<1>14. UpdatedRanks(r, g, outside)[i] = owner[p]
  BY <1>10, <1>11, <1>13 DEF UpdatedRanks
<1> QED
  BY Zenon, <1>12, <1>14 DEF NewOwner

\* After phase 1 every rank knows where the members of its groups will be.
LEMMA RanksTold ==
  ASSUME IInv, dir # Done, phase = "ranks", NEW outside,
         NEW r \in Ranks, NEW g \in held[r], NEW i \in Idx(g)
  PROVE  Told(r, g, i, outside) = NewOwner(Members[g][i])
<1>1. CASE Tellers(r, g, i, outside) # {}
  <2> DEFINE s == CHOOSE s \in Tellers(r, g, i, outside) : TRUE
  <2>1. s \in Tellers(r, g, i, outside)
    BY Zenon, <1>1
  <2> HIDE DEF s
  <2>2. s \in Ranks /\ g \in held[s] /\ isLocal(s, g, i)
    BY Zenon, <2>1, TellersOwn
  <2>3. UpdatedRanks(s, g, outside)[i] = NewOwner(Members[g][i])
    BY Zenon, <2>2, OwnMembers
  <2> QED
    BY Zenon, <1>1, <2>3 DEF Told, s
<1>2. CASE Tellers(r, g, i, outside) = {}
  <2>1. UpdatedRanks(r, g, outside)[i] = NewOwner(Members[g][i])
    BY Zenon, <1>2, Untold, OwnMembers
  <2> QED
    BY Zenon, <1>2, <2>1 DEF Told
<1> QED
  BY <1>1, <1>2

\* Phases 1 and 2 leave the particles where they are.
LEMMA ParticlesStay ==
  ASSUME owner' = owner, offset' = offset, dir' = dir, added' = added,
         IInv, dir # Done
  PROVE  Passed' /\ Inside' /\ isCommunicating(dir') /\ Close'
<1>1. Passed /\ Inside /\ isCommunicating(dir) /\ Close
  BY Zenon DEF IInv
<1>2. Passed'
  BY Zenon, <1>1 DEF Passed
<1>3. Inside'
  BY Zenon, <1>1 DEF Inside
<1>4. \A p, q : Together(p, q)' <=> Together(p, q)
  BY Zenon DEF Together
<1>5. Close'
  BY Zenon, <1>1, <1>4 DEF Close
<1>6. isCommunicating(dir')
  BY Zenon, <1>1
<1> QED
  BY Zenon, <1>2, <1>3, <1>5, <1>6

\* Phase 1 keeps the invariant.
LEMMA RanksStep ==
  ASSUME IInv, dir # Done, NEW outside, migrateGroups_ranks(outside)
  PROVE  IInv'
<1>1. /\ phase = "ranks" /\ phase' = "groups"
      /\ owner' = owner /\ offset' = offset /\ dir' = dir /\ added' = added
      /\ held' = held /\ m_bonds_changed' = m_bonds_changed
  BY Zenon DEF migrateGroups_ranks
<1>2. m_group_ranks' = [r \in Ranks |-> [g \in Groups |->
        IF g \notin held[r] THEN m_group_ranks[r][g]
        ELSE [i \in Idx(g) |-> Told(r, g, i, outside)]]]
  BY Zenon DEF migrateGroups_ranks, Told, Tellers
<1>3. TypeOK /\ Shape
  BY DEF IInv
<1>4. \A r \in Ranks : held[r] \subseteq Groups
  BY <1>3 DEF TypeOK, Shape
<1>5. ASSUME NEW r \in Ranks, NEW g \in held[r], NEW i \in Idx(g)
      PROVE  m_group_ranks'[r][g][i] = NewOwner(Members[g][i])
  <2>1. g \in Groups
    BY <1>4
  <2>2. m_group_ranks'[r][g][i] = Told(r, g, i, outside)
    BY <1>2, <2>1
  <2> QED
    BY Zenon, <1>1, <2>2, RanksTold
<1>6. ASSUME NEW r \in Ranks, NEW g \in Groups
      PROVE  m_group_ranks'[r][g] \in [Idx(g) -> Ranks \cup {NoRank}]
  <2>1. CASE g \notin held[r]
    BY <1>2, <1>3, <2>1 DEF TypeOK
  <2>2. CASE g \in held[r]
    <3>1. m_group_ranks'[r][g] = [i \in Idx(g) |-> Told(r, g, i, outside)]
      BY <1>2, <2>2
    <3>2. \A i \in Idx(g) : Told(r, g, i, outside) \in Ranks
      BY Zenon, <1>1, <1>3, <2>2, RanksTold, NewOwnerTyped, MemberParticles
    <3> QED
      BY <3>1, <3>2
  <2> QED
    BY <2>1, <2>2
<1>7. TypeOK'
  BY <1>1, <1>3, <1>6 DEF TypeOK
<1>8. Shape'
  BY <1>1, <1>2, <1>3 DEF Shape
<1>9. Passed' /\ Inside' /\ isCommunicating(dir') /\ Close'
  BY Zenon, <1>1, ParticlesStay
<1>10. \A p : NewOwner(p)' = NewOwner(p)
  BY Zenon, <1>1 DEF NewOwner, leaves
<1>11. \A r, g : HasLocalMember(r, g)' <=> HasLocalMember(r, g)
  BY Zenon, <1>1 DEF HasLocalMember, isLocal
<1>12. Stored'
  <2>1. \A r \in Ranks : held[r] = {g \in added : HasLocalMember(r, g)}
    BY <1>1 DEF IInv, Stored
  <2>2. \A r \in Ranks : held'[r] = {g \in added' : HasLocalMember(r, g)'}
    BY Zenon, <1>1, <1>11, <2>1
  <2>3. \A r \in Ranks : \A g \in held'[r] : \A i \in Idx(g) :
          m_group_ranks'[r][g][i] = NewOwner(Members[g][i])'
    BY Zenon, <1>1, <1>5, <1>10
  <2> QED
    BY <1>1, <2>2, <2>3 DEF Stored
<1> QED
  BY <1>1, <1>7, <1>8, <1>9, <1>12 DEF IInv

-----------------------------------------------------------------------------
(***************************************************************************)
(* Phase 2: the groups.                                                    *)
(***************************************************************************)
Kept(r) == held[r] \ Dropped(r)

Received(r) == {g \in Groups \ Kept(r) : Senders(r, g) # {}}

First(r, g) == CHOOSE s \in Senders(r, g) : \A t \in Senders(r, g) : s <= t

\* A rank keeps the groups with a member that stays on it.
LEMMA KeptStay ==
  ASSUME IInv, phase = "groups", NEW r \in Ranks, NEW g \in Kept(r)
  PROVE  g \in added /\ \E i \in Idx(g) : NewOwner(Members[g][i]) = r
<1>1. g \in held[r] /\ g \notin Dropped(r)
  BY Zenon DEF Kept
<1>2. g \in added /\ HasLocalMember(r, g)
  BY <1>1, HeldBy
<1>3. PICK i \in Idx(g) : isLocal(r, g, i) /\ i \notin Leaving(r, g)
  BY Zenon, <1>1, <1>2 DEF Dropped, HasLocalMember
<1>4. NewOwner(Members[g][i]) = r
  BY Zenon, <1>3 DEF Leaving, isLocal, NewOwner
<1> QED
  BY Zenon, <1>2, <1>4

\* A sender has a member that leaves for the receiver.
LEMMA SendersLose ==
  ASSUME IInv, phase = "groups", NEW r \in Ranks, NEW g, NEW s \in Senders(r, g)
  PROVE  /\ s \in Ranks /\ g \in held[s] /\ g \in added
         /\ \E i \in Idx(g) : NewOwner(Members[g][i]) = r
<1>1. s \in Ranks /\ g \in held[s]
  BY Zenon DEF Senders
<1>2. PICK i \in Leaving(s, g) : m_group_ranks[s][g][i] = r
  BY Zenon DEF Senders
<1>3. i \in Idx(g)
  BY Zenon DEF Leaving
<1>4. m_group_ranks[s][g][i] = NewOwner(Members[g][i])
  BY <1>1, <1>3 DEF IInv, Stored
<1>5. g \in added
  BY <1>1, HeldBy
<1> QED
  BY Zenon, <1>1, <1>2, <1>3, <1>4, <1>5

\* The lowest sender is one.
LEMMA FirstSends ==
  ASSUME NEW r, NEW g, Senders(r, g) # {}
  PROVE  First(r, g) \in Senders(r, g)
<1>1. Ranks \subseteq Nat
  BY Extents DEF Ranks
<1>2. Senders(r, g) \subseteq Nat
  BY ZenonT(30), <1>1 DEF Senders
<1>3. \E s \in Senders(r, g) : \A t \in Senders(r, g) : s <= t
  BY Zenon, <1>2, Lowest
<1> QED
  BY Zenon, <1>3 DEF First

\* Each rank ends up with the groups that will have a member on it.
LEMMA GroupsArrive ==
  ASSUME IInv, dir # Done, phase = "groups", NEW r \in Ranks
  PROVE  Kept(r) \cup Received(r)
           = {g \in added : \E i \in Idx(g) : NewOwner(Members[g][i]) = r}
<1>1. ASSUME NEW g \in Kept(r) \cup Received(r)
      PROVE  g \in added /\ \E i \in Idx(g) : NewOwner(Members[g][i]) = r
  <2>1. CASE g \in Kept(r)
    BY Zenon, <2>1, KeptStay
  <2>2. CASE g \in Received(r)
    <3>1. PICK s : s \in Senders(r, g)
      BY Zenon, <2>2 DEF Received
    <3> QED
      BY Zenon, <3>1, SendersLose
  <2> QED
    BY <2>1, <2>2
<1>2. ASSUME NEW g \in added, NEW i \in Idx(g), NewOwner(Members[g][i]) = r
      PROVE  g \in Kept(r) \cup Received(r)
  <2> DEFINE p == Members[g][i]
             s == owner[p]
  <2>1. g \in Groups
    BY DEF IInv, Shape
  <2>2. p \in Particles
    BY Zenon, <2>1, MemberParticles
  <2>3. s \in Ranks /\ isLocal(s, g, i)
    BY <2>2 DEF IInv, TypeOK, isLocal
  <2>4. g \in held[s]
    BY Zenon, <2>3, HeldBy DEF HasLocalMember
  <2>5. CASE ~leaves(p)
    <3>1. s = r
      BY Zenon, <1>2, <2>5 DEF NewOwner
    <3>2. i \notin Leaving(r, g)
      BY Zenon, <2>5 DEF Leaving
    <3>3. g \notin Dropped(r)
      BY Zenon, <2>3, <3>1, <3>2 DEF Dropped
    <3> QED
      BY Zenon, <2>4, <3>1, <3>3 DEF Kept
  <2>6. CASE leaves(p)
    <3>1. i \in Leaving(s, g)
      BY ZenonT(60), <2>3, <2>6 DEF Leaving
    <3>2. m_group_ranks[s][g][i] = r
      BY <1>2, <2>3, <2>4 DEF IInv, Stored
    <3>3. dir \in 0..Done-1 /\ isCommunicating(dir)
      BY DEF IInv, TypeOK, Done
    <3>4. r = getNeighborRank[s][dir]
      BY Zenon, <1>2, <2>6 DEF NewOwner
    <3>5. r \in UniqueNeighbors[s]
      BY Zenon, <2>3, <3>3, <3>4, NeighborIsUnique
    <3>6. s \in Senders(r, g)
      BY Zenon, <2>3, <2>4, <3>1, <3>2, <3>5 DEF Senders
    <3> QED
      BY Zenon, <2>1, <3>6 DEF Received
  <2> QED
    BY <2>5, <2>6
<1> QED
  BY Zenon, <1>1, <1>2

\* The groups are kept with the ranks their members will be on.
LEMMA RanksArrive ==
  ASSUME IInv, phase = "groups", NEW r \in Ranks, NEW g \in Received(r), NEW i \in Idx(g)
  PROVE  m_group_ranks[First(r, g)][g][i] = NewOwner(Members[g][i])
<1>1. First(r, g) \in Ranks /\ g \in held[First(r, g)]
  BY Zenon, FirstSends, SendersLose DEF Received
<1> QED
  BY <1>1 DEF IInv, Stored

\* Phase 2 keeps the invariant.
LEMMA GroupsStep ==
  ASSUME IInv, migrateGroups_groups
  PROVE  IInv'
<1>1. /\ dir # Done /\ phase = "groups" /\ phase' = "particles"
      /\ owner' = owner /\ offset' = offset /\ dir' = dir /\ added' = added
      /\ m_bonds_changed' = FALSE
  BY Zenon DEF migrateGroups_groups
<1>2. held' = [r \in Ranks |-> Kept(r) \cup Received(r)]
  BY Zenon DEF migrateGroups_groups, Kept, Received
<1>3. m_group_ranks' = [r \in Ranks |-> [g \in Groups |->
        IF g \in Received(r) THEN m_group_ranks[First(r, g)][g]
        ELSE IF g \in Kept(r) THEN m_group_ranks[r][g] ELSE Zeros(g)]]
  BY Zenon DEF migrateGroups_groups, Kept, Received, First
<1>4. TypeOK /\ Shape
  BY DEF IInv
<1>5. \A p : NewOwner(p)' = NewOwner(p)
  BY Zenon, <1>1 DEF NewOwner, leaves
<1>6. \A r \in Ranks :
        held'[r] = {g \in added : \E i \in Idx(g) : NewOwner(Members[g][i]) = r}
  BY <1>1, <1>2, GroupsArrive
<1>7. ASSUME NEW r \in Ranks, NEW g \in held'[r], NEW i \in Idx(g)
      PROVE  m_group_ranks'[r][g][i] = NewOwner(Members[g][i])
  <2>1. g \in Groups /\ g \in Kept(r) \cup Received(r)
    BY <1>2, <1>4, <1>6 DEF Shape
  <2>2. CASE g \in Received(r)
    <3>1. m_group_ranks'[r][g] = m_group_ranks[First(r, g)][g]
      BY <1>3, <2>1, <2>2
    <3> QED
      BY Zenon, <1>1, <2>2, <3>1, RanksArrive
  <2>3. CASE g \notin Received(r)
    <3>1. g \in Kept(r)
      BY Zenon, <2>1, <2>3
    <3>2. m_group_ranks'[r][g] = m_group_ranks[r][g]
      BY <1>3, <2>1, <2>3, <3>1
    <3>3. g \in held[r]
      BY Zenon, <3>1 DEF Kept
    <3>4. m_group_ranks[r][g][i] = NewOwner(Members[g][i])
      BY <1>1, <3>3 DEF IInv, Stored
    <3> QED
      BY Zenon, <3>2, <3>4
  <2> QED
    BY <2>2, <2>3
<1>8. ASSUME NEW r \in Ranks, NEW g \in Groups
      PROVE  m_group_ranks'[r][g] \in [Idx(g) -> Ranks \cup {NoRank}]
  <2>1. \A s \in Ranks : m_group_ranks[s][g] \in [Idx(g) -> Ranks \cup {NoRank}]
    BY Zenon, <1>4 DEF TypeOK
  <2>2. g \in Received(r) => First(r, g) \in Ranks
    BY Zenon, <1>1, FirstSends, SendersLose DEF Received
  <2>4. Zeros(g) \in [Idx(g) -> Ranks \cup {NoRank}]
    BY Zenon, ZerosTyped
  <2>5. \/ m_group_ranks'[r][g] = m_group_ranks[First(r, g)][g] /\ g \in Received(r)
        \/ m_group_ranks'[r][g] = m_group_ranks[r][g]
        \/ m_group_ranks'[r][g] = Zeros(g)
    BY <1>3
  <2> QED
    BY Zenon, <2>1, <2>2, <2>4, <2>5
<1>9. held' \in [Ranks -> SUBSET added']
  <2>1. \A r \in Ranks : held'[r] \subseteq added'
    BY Zenon, <1>1, <1>6
  <2> QED
    BY <1>2, <2>1
<1>10. TypeOK'
  BY ZenonT(30), <1>1, <1>4, <1>8, <1>9 DEF TypeOK
<1>11. Shape'
  BY <1>1, <1>3, <1>4 DEF Shape
<1>12. Passed' /\ Inside' /\ isCommunicating(dir') /\ Close'
  BY Zenon, <1>1, ParticlesStay
<1>13. Stored'
  <2>1. \A r \in Ranks :
          held'[r] = {g \in added' : \E i \in Idx(g) : NewOwner(Members[g][i])' = r}
    BY Zenon, <1>1, <1>5, <1>6
  <2>2. \A r \in Ranks : \A g \in held'[r] : \A i \in Idx(g) :
          m_group_ranks'[r][g][i] = NewOwner(Members[g][i])'
    BY ZenonT(60), <1>5, <1>7
  <2> QED
    BY <1>1, <2>1, <2>2 DEF Stored
<1> QED
  BY <1>1, <1>10, <1>11, <1>12, <1>13 DEF IInv

-----------------------------------------------------------------------------
(***************************************************************************)
(* The particles.                                                          *)
(***************************************************************************)

\* What a direction does to a particle, axis by axis.
LEMMA ParticleMoves ==
  ASSUME IInv, migrateParticles, NEW p \in Particles, NEW a \in Axes
  PROVE  /\ owner[p] \in Ranks /\ offset[p][a] \in -1..1
         /\ GridPos[owner[p]][a] \in 0..Extent[a]-1
         /\ a # Axis(dir) => /\ GridPos[owner'[p]][a] = GridPos[owner[p]][a]
                             /\ offset'[p][a] = offset[p][a]
         /\ a = Axis(dir) =>
              /\ GridPos[owner'[p]][a]
                   = Onward(GridPos[owner[p]][a], offset[p][a], Sign(dir), Extent[a])
              /\ offset'[p][a] = Rest(offset[p][a], Sign(dir))
<1>1. dir \in 0..Done-1
  BY DEF IInv, TypeOK, Done, migrateParticles
<1>2. owner[p] \in Ranks /\ offset[p] \in [Axes -> -1..1]
  BY DEF IInv, TypeOK, Steps
<1>3. /\ owner'[p] = IF leaves(p) THEN getNeighborRank[owner[p]][dir] ELSE owner[p]
      /\ offset'[p] = IF leaves(p) THEN [offset[p] EXCEPT ![Axis(dir)] = 0] ELSE offset[p]
  BY DEF migrateParticles
<1>4. GridPos[owner[p]][a] \in 0..Extent[a]-1
  BY SMTT(30), <1>2, Positions
<1>5. CASE leaves(p)
  <2>1. offset[p][Axis(dir)] = Sign(dir)
    BY Zenon, <1>5 DEF leaves
  <2>2. /\ offset'[p][a] = IF a = Axis(dir) THEN 0 ELSE offset[p][a]
        /\ owner'[p] = getNeighborRank[owner[p]][dir]
    BY <1>2, <1>3, <1>5
  <2>3. GridPos[owner'[p]][a] =
          IF a = Axis(dir) THEN (GridPos[owner[p]][a] + Sign(dir)) % Extent[a]
          ELSE GridPos[owner[p]][a]
    <3>1. \A b \in Axes : GridPos[getNeighborRank[owner[p]][dir]][b] =
            IF b = Axis(dir) THEN (GridPos[owner[p]][b] + Sign(dir)) % Extent[b]
            ELSE GridPos[owner[p]][b]
      BY SMTT(30), <1>1, <1>2, Neighbor
    <3> QED
      BY Zenon, <2>2, <3>1
  <2> QED
    BY <1>2, <1>4, <2>1, <2>2, <2>3 DEF Onward, Rest
<1>6. CASE ~leaves(p)
  <2>1. offset[p][Axis(dir)] # Sign(dir)
    BY Zenon, <1>6 DEF leaves
  <2> QED
    BY <1>2, <1>3, <1>4, <1>6, <2>1 DEF Onward, Rest
<1> QED
  BY ZenonT(60), <1>5, <1>6

\* An offset without its part along an axis is one.
LEMMA RestOfStep ==
  ASSUME NEW f \in Steps, NEW b \in Axes
  PROVE  [f EXCEPT ![b] = 0] \in Steps
<1> DEFINE h == [f EXCEPT ![b] = 0]
<1>1. f \in [Axes -> -1..1] /\ \A a \in Axes : Extent[a] = 1 => f[a] = 0
  BY DEF Steps
<1>2. h \in [Axes -> -1..1]
  BY <1>1
<1>3. \A a \in Axes : h[a] = IF a = b THEN 0 ELSE f[a]
  BY <1>1
<1> HIDE DEF h
<1>4. \A a \in Axes : Extent[a] = 1 => h[a] = 0
  BY <1>1, <1>3
<1>5. h \in Steps
  BY Zenon, <1>2, <1>4 DEF Steps
<1> QED
  BY <1>5 DEF h

LEMMA MovedTyped ==
  ASSUME IInv, migrateParticles
  PROVE  TypeOK' /\ Shape'
<1>1. TypeOK /\ Shape /\ dir \in 0..Done-1
  BY DEF IInv, TypeOK, Done, migrateParticles
<1>2. /\ owner' = [p \in Particles |-> NewOwner(p)]
      /\ added' = added /\ held' = held /\ m_group_ranks' = m_group_ranks
      /\ m_bonds_changed' = m_bonds_changed /\ phase' = "ranks" /\ dir' = NextDir(dir + 1)
      /\ dir # Done
  BY Zenon DEF migrateParticles, NewOwner
<1>3. owner' \in [Particles -> Ranks]
  BY <1>1, <1>2, NewOwnerTyped
<1>4. offset' \in [Particles -> Steps]
  <2>1. ASSUME NEW p \in Particles PROVE offset'[p] \in Steps
    <3>1. offset[p] \in Steps
      BY <1>1 DEF TypeOK
    <3>2. CASE leaves(p)
      <4>1. offset'[p] = [offset[p] EXCEPT ![Axis(dir)] = 0]
        BY <3>2 DEF migrateParticles
      <4> QED
        BY <1>1, <3>1, <4>1, Directions, RestOfStep
    <3>3. CASE ~leaves(p)
      <4>1. offset'[p] = offset[p]
        BY <3>3 DEF migrateParticles
      <4> QED
        BY <3>1, <4>1
    <3> QED
      BY <3>2, <3>3
  <2> QED
    BY <2>1 DEF migrateParticles
<1>5. dir' \in 0..Done
  <2>1. dir + 1 \in 0..Done
    BY <1>1 DEF Done
  <2>2. NextDir(dir + 1) \in (dir + 1)..Done
    BY <2>1, NextDirection
  <2> QED
    BY <1>1, <1>2, <2>1, <2>2 DEF Done
<1>6. TypeOK'
  BY <1>1, <1>2, <1>3, <1>4, <1>5 DEF TypeOK
<1>7. Shape'
  BY <1>1, <1>2 DEF Shape
<1> QED
  BY <1>6, <1>7

\* Nothing is left to move in the direction that is over, nor in those
\* skipped after it.
LEMMA MovedPassed ==
  ASSUME IInv, migrateParticles
  PROVE  /\ Passed'
         /\ dir' # Done => isCommunicating(dir')
<1>1. dir \in 0..Done-1 /\ dir + 1 \in 0..Done /\ dir' = NextDir(dir + 1)
  BY DEF IInv, TypeOK, Done, migrateParticles
<1>2. /\ dir' \in (dir + 1)..Done
      /\ dir' # Done => isCommunicating(dir')
      /\ \A f \in (dir + 1)..Done-1 : f < dir' => ~isCommunicating(f)
  BY Zenon, <1>1, NextDirection
<1>3. ASSUME NEW p \in Particles, NEW d \in 0..Done-1, d < dir'
      PROVE  offset'[p][Axis(d)] # Sign(d)
  <2>1. Axis(d) \in Axes /\ Axis(dir) \in Axes /\ Sign(d) \in {1, -1} /\ Sign(dir) \in {1, -1}
    BY <1>1, Directions
  <2>2. \/ offset'[p][Axis(d)] = offset[p][Axis(d)]
        \/ Axis(d) = Axis(dir) /\ offset'[p][Axis(d)] = Rest(offset[p][Axis(d)], Sign(dir))
    BY Zenon, <2>1, ParticleMoves
  <2>3. CASE d < dir
    <3>1. offset[p][Axis(d)] # Sign(d)
      BY <2>3 DEF IInv, Passed
    <3> QED
      BY <2>1, <2>2, <3>1 DEF Rest
  <2>4. CASE d = dir
    <3>1. offset'[p][Axis(d)] = Rest(offset[p][Axis(d)], Sign(d))
      BY Zenon, <2>1, <2>4, ParticleMoves
    <3> QED
      BY <2>1, <3>1 DEF Rest
  <2>5. CASE dir < d
    <3>1. d \in (dir + 1)..Done-1
      BY <1>1, <2>5 DEF Done
    <3>2. Extent[Axis(d)] = 1
      BY Zenon, <1>2, <1>3, <3>1 DEF isCommunicating
    <3>3. offset'[p] \in Steps
      BY MovedTyped DEF TypeOK
    <3> QED
      BY <2>1, <3>2, <3>3 DEF Steps
  <2> QED
    BY <1>1, <2>3, <2>4, <2>5
<1>4. Passed'
  BY Zenon, <1>3 DEF Passed
<1> QED
  BY <1>2, <1>4

\* A particle still to move down keeps its distance from the lower face.
LEMMA MovedInside ==
  ASSUME IInv, migrateParticles
  PROVE  Inside'
<1>1. SUFFICES ASSUME NEW p \in Particles, NEW a \in Axes, offset'[p][a] = -1
               PROVE  GridPos[owner'[p]][a] # 0
  BY Zenon DEF Inside
<1>2. dir \in 0..Done-1
  BY DEF IInv, TypeOK, Done, migrateParticles
<1>3. Inside
  BY DEF IInv
<1>4. CASE a # Axis(dir)
  <2>1. GridPos[owner'[p]][a] = GridPos[owner[p]][a] /\ offset'[p][a] = offset[p][a]
    BY Zenon, <1>4, ParticleMoves
  <2> QED
    BY Zenon, <1>1, <1>3, <2>1 DEF Inside
<1>5. CASE a = Axis(dir)
  <2>1. /\ GridPos[owner'[p]][a]
             = Onward(GridPos[owner[p]][a], offset[p][a], Sign(dir), Extent[a])
        /\ offset'[p][a] = Rest(offset[p][a], Sign(dir))
    BY Zenon, <1>5, ParticleMoves
  <2>2. offset[p][a] = -1 /\ offset[p][a] # Sign(dir)
    BY <1>1, <2>1 DEF Rest
  <2>3. GridPos[owner[p]][a] # 0
    BY Zenon, <1>3, <2>2 DEF Inside
  <2> QED
    BY Zenon, <2>1, <2>2, <2>3 DEF Onward
<1> QED
  BY <1>4, <1>5

\* Members of a group stay together in every direction.
LEMMA MovedClose ==
  ASSUME IInv, migrateParticles
  PROVE  Close'
<1>1. dir \in 0..Done-1 /\ dir # Done /\ added' = added
  BY DEF IInv, TypeOK, Done, migrateParticles
<1>2. Close /\ added \subseteq Groups
  BY <1>1 DEF IInv, Shape
<1>3. ASSUME NEW p \in Particles, NEW q \in Particles, Together(p, q), NEW a \in Axes,
             ~(Extent[a] <= 3)
      PROVE  /\ Separation(owner'[p], owner'[q], a) \in -1..1
             /\ Separation(owner'[p], owner'[q], a) + offset'[q][a] - offset'[p][a] \in -1..1
  <2> DEFINE x == GridPos[owner[p]][a]
             y == GridPos[owner[q]][a]
             o == offset[p][a]
             u == offset[q][a]
             e == Extent[a]
             s == Sign(dir)
  <2>1. x \in 0..e-1 /\ y \in 0..e-1 /\ o \in -1..1 /\ u \in -1..1
    BY Zenon, ParticleMoves
  <2>2. e \in Nat /\ e > 3 /\ s \in {1, -1}
    BY <1>1, <1>3, Extents, Directions
  <2>3. /\ Separation(owner[p], owner[q], a) \in -1..1
        /\ Separation(owner[p], owner[q], a) + offset[q][a] - offset[p][a] \in -1..1
    BY Zenon, <1>3 DEF Together
  <2>4. Ring(x, y, e) \in -1..1 /\ Ring(x, y, e) + u - o \in -1..1
    BY Zenon, <2>3, SeparationRing
  <2>5. Separation(owner'[p], owner'[q], a)
          = Ring(GridPos[owner'[p]][a], GridPos[owner'[q]][a], Extent[a])
    BY Zenon, SeparationRing
  <2>6. CASE a # Axis(dir)
    <3>1. /\ GridPos[owner'[p]][a] = x /\ GridPos[owner'[q]][a] = y
          /\ offset'[p][a] = o /\ offset'[q][a] = u
      BY Zenon, <2>6, ParticleMoves
    <3> QED
      BY Zenon, <2>4, <2>5, <3>1
  <2>7. CASE a = Axis(dir)
    <3>1. /\ GridPos[owner'[p]][a] = Onward(x, o, s, e)
          /\ GridPos[owner'[q]][a] = Onward(y, u, s, e)
          /\ offset'[p][a] = Rest(o, s) /\ offset'[q][a] = Rest(u, s)
      BY Zenon, <2>7, ParticleMoves
    <3> HIDE DEF x, y, o, u, e, s
    <3>2. LET k == Ring(Onward(x, o, s, e), Onward(y, u, s, e), e)
          IN  k \in -1..1 /\ k + Rest(u, s) - Rest(o, s) \in -1..1
      BY <2>1, <2>2, <2>4, RingMoves
    <3> QED
      BY Zenon, <2>5, <3>1, <3>2 DEF e
  <2> QED
    BY <2>6, <2>7
<1>4. ASSUME NEW p \in Particles, NEW q \in Particles, Together(p, q)
      PROVE  Together(p, q)'
  BY Zenon, <1>3, <1>4 DEF Together
<1>5. \A g \in added : \A i \in Idx(g) : Members[g][i] \in Particles
  BY Zenon, <1>2, MemberParticles
<1> QED
  BY ZenonT(60), <1>1, <1>2, <1>4, <1>5 DEF Close

\* The particles arrive where the groups already are.
LEMMA ParticlesStep ==
  ASSUME IInv, migrateParticles
  PROVE  IInv'
<1>1. /\ dir # Done /\ phase = "particles" /\ phase' = "ranks"
      /\ owner' = [p \in Particles |-> NewOwner(p)]
      /\ added' = added /\ held' = held /\ m_group_ranks' = m_group_ranks
  BY Zenon DEF migrateParticles, NewOwner
<1>2. \A g \in added : \A i \in Idx(g) : owner'[Members[g][i]] = NewOwner(Members[g][i])
  <2>1. \A g \in added : \A i \in Idx(g) : Members[g][i] \in Particles
    BY Zenon, MemberParticles DEF IInv, Shape
  <2> QED
    BY <1>1, <2>1
<1>3. /\ \A r \in Ranks :
           held[r] = {g \in added : \E i \in Idx(g) : NewOwner(Members[g][i]) = r}
      /\ \A r \in Ranks : \A g \in held[r] : \A i \in Idx(g) :
           m_group_ranks[r][g][i] = NewOwner(Members[g][i])
  BY <1>1 DEF IInv, Stored
<1>4. \A r \in Ranks : held'[r] = {g \in added' : HasLocalMember(r, g)'}
  <2>1. ASSUME NEW r \in Ranks, NEW g \in added
        PROVE  HasLocalMember(r, g)' <=> \E i \in Idx(g) : NewOwner(Members[g][i]) = r
    BY Zenon, <1>2 DEF HasLocalMember, isLocal
  <2> QED
    BY Zenon, <1>1, <1>3, <2>1
<1>5. \A r \in Ranks : \A g \in held'[r] : \A i \in Idx(g) :
        m_group_ranks'[r][g][i] = owner'[Members[g][i]]
  <2>1. ASSUME NEW r \in Ranks, NEW g \in held[r], NEW i \in Idx(g)
        PROVE  m_group_ranks[r][g][i] = owner'[Members[g][i]]
    <3>1. g \in added
      BY Zenon, <1>3
    <3>2. m_group_ranks[r][g][i] = NewOwner(Members[g][i])
      BY Zenon, <1>3
    <3> QED
      BY Zenon, <1>2, <3>1, <3>2
  <2> QED
    BY Zenon, <1>1, <2>1
<1>6. Stored'
  BY <1>1, <1>4, <1>5 DEF Stored
<1> QED
  BY <1>1, <1>6, MovedTyped, MovedPassed, MovedInside, MovedClose DEF IInv

-----------------------------------------------------------------------------
(***************************************************************************)
(* Between migrations.                                                     *)
(***************************************************************************)

\* Every particle is in the domain of its owner.
LEMMA AtHome ==
  ASSUME IInv, dir = Done, NEW p \in Particles, NEW a \in Axes
  PROVE  offset[p][a] = 0
<1>1. offset[p][a] \in -1..1
  BY DEF IInv, TypeOK, Steps
<1>2. \A d \in 0..Done-1 : offset[p][Axis(d)] # Sign(d)
  BY DEF IInv, Passed, Done
<1>3. ASSUME NEW s \in {1, -1} PROVE offset[p][a] # s
  <2>1. \E d \in 0..Done-1 : Axis(d) = a /\ Sign(d) = s
    <3>1. /\ Axis(0) = 1 /\ Axis(1) = 1 /\ Axis(2) = 2 /\ Axis(3) = 2 /\ Axis(4) = 3 /\ Axis(5) = 3
          /\ Sign(0) = 1 /\ Sign(1) = -1 /\ Sign(2) = 1 /\ Sign(3) = -1 /\ Sign(4) = 1 /\ Sign(5) = -1
      BY DEF Axis, Sign
    <3> QED
      BY <3>1 DEF Axes, Done
  <2> QED
    BY Zenon, <1>2, <2>1
<1> QED
  BY <1>1, <1>3

\* A migration begins with every particle at most a domain away and the
\* members of each group together.
LEMMA StartStep ==
  ASSUME IInv, ~CrossLow, NEW off \in Drifts, startMigration(off)
  PROVE  IInv'
<1>1. /\ dir = Done /\ phase = "ranks" /\ offset' = off /\ dir' = NextDir(0)
      /\ owner' = owner /\ phase' = phase /\ added' = added /\ held' = held
      /\ m_group_ranks' = m_group_ranks /\ m_bonds_changed' = m_bonds_changed
  BY Zenon DEF startMigration, IInv
<1>2. /\ off \in [Particles -> Steps] /\ Compact(offset) /\ Compact(off)
      /\ \A p \in Particles, a \in Axes : off[p][a] = -1 => GridPos[owner[p]][a] # 0
  BY Zenon DEF Drifts
<1>3. TypeOK /\ Shape
  BY DEF IInv
<1>4. /\ dir' \in 0..Done
      /\ dir' # Done => isCommunicating(dir')
      /\ \A f \in 0..Done-1 : f < dir' => ~isCommunicating(f)
  <2>1. 0 \in 0..Done
    BY SMTT(30) DEF Done
  <2> QED
    BY Zenon, <1>1, <2>1, NextDirection
<1>5. TypeOK' /\ Shape'
  BY <1>1, <1>2, <1>3, <1>4 DEF TypeOK, Shape
<1>6. Passed'
  <2>1. SUFFICES ASSUME NEW p \in Particles, NEW d \in 0..Done-1, d < dir'
                 PROVE  off[p][Axis(d)] # Sign(d)
    BY Zenon, <1>1 DEF Passed
  <2>2. Axis(d) \in Axes /\ Sign(d) \in {1, -1}
    BY Directions
  <2>3. Extent[Axis(d)] = 1
    BY Zenon, <1>4, <2>1 DEF isCommunicating
  <2>4. off[p] \in Steps
    BY <1>2
  <2> QED
    BY <2>2, <2>3, <2>4 DEF Steps
<1>7. Inside'
  BY Zenon, <1>1, <1>2 DEF Inside
<1>8. Close'
  <2>1. SUFFICES ASSUME NEW g \in added, NEW i \in Idx(g), NEW j \in Idx(g), NEW a \in Axes,
                        ~(Extent[a] <= 3)
                 PROVE  LET p == Members[g][i]
                            q == Members[g][j]
                            k == Separation(owner[p], owner[q], a)
                        IN  k \in -1..1 /\ k + off[q][a] - off[p][a] \in -1..1
    BY ZenonT(60), <1>1 DEF Close, Together
  <2> DEFINE p == Members[g][i]
             q == Members[g][j]
             k == Separation(owner[p], owner[q], a)
  <2>2. /\ k + offset[q][a] - offset[p][a] \in -1..1
        /\ k + off[q][a] - off[p][a] \in -1..1
    BY Zenon, <1>2, <2>1 DEF Compact
  <2>3. p \in Particles /\ q \in Particles
    BY Zenon, <1>3, MemberParticles DEF Shape
  <2>4. offset[p][a] = 0 /\ offset[q][a] = 0
    BY Zenon, <1>1, <2>3, AtHome
  <2>5. k \in Int
    <3>1. owner[p] \in Ranks /\ owner[q] \in Ranks
      BY <1>3, <2>3 DEF TypeOK
    <3>2. GridPos[owner[p]][a] \in Int /\ GridPos[owner[q]][a] \in Int /\ Extent[a] \in Nat \ {0}
      BY <3>1, Positions, Extents
    <3> QED
      BY ZenonT(60), <3>2, SeparationRing, RingTyped
  <2> HIDE DEF k
  <2>6. k \in -1..1
    BY <2>2, <2>4, <2>5
  <2> QED
    BY Zenon, <2>2, <2>6 DEF k
<1>9. Stored'
  <2>1. Stored /\ \A r, g : HasLocalMember(r, g)' <=> HasLocalMember(r, g)
    BY Zenon, <1>1 DEF IInv, HasLocalMember, isLocal
  <2>2. \A r \in Ranks : held[r] = {g \in added : HasLocalMember(r, g)}
    BY <1>1, <2>1 DEF Stored
  <2>3. \A r \in Ranks : held'[r] = {g \in added' : HasLocalMember(r, g)'}
    BY Zenon, <1>1, <2>1, <2>2
  <2> QED
    BY <1>1, <2>1, <2>3 DEF Stored
<1> QED
  BY <1>1, <1>4, <1>5, <1>6, <1>7, <1>8, <1>9 DEF IInv

\* A new group is stored by the ranks of its members, to be told about later.
LEMMA AddStep ==
  ASSUME IInv, NEW g \in Groups, addBondedGroup(g)
  PROVE  IInv'
<1>1. /\ dir = Done /\ phase = "ranks" /\ added' = added \cup {g} /\ m_bonds_changed' = TRUE
      /\ owner' = owner /\ offset' = offset /\ dir' = dir /\ phase' = phase
  BY Zenon DEF addBondedGroup, IInv
<1>2. /\ held' = [r \in Ranks |-> IF HasLocalMember(r, g) THEN held[r] \cup {g} ELSE held[r]]
      /\ m_group_ranks' = [r \in Ranks |-> [m_group_ranks[r] EXCEPT ![g] = Zeros(g)]]
  BY Zenon DEF addBondedGroup
<1>3. TypeOK /\ Shape /\ Passed /\ Inside
  BY SMTT(30) DEF IInv
<1>4. \A r \in Ranks : held[r] = {h \in added : HasLocalMember(r, h)}
  BY <1>1 DEF IInv, Stored
<1>5. \A r, h : HasLocalMember(r, h)' <=> HasLocalMember(r, h)
  BY Zenon, <1>1 DEF HasLocalMember, isLocal
<1>6. \A r \in Ranks : held'[r] = {h \in added' : HasLocalMember(r, h)'}
  <2>1. ASSUME NEW r \in Ranks
        PROVE  held'[r] = {h \in added' : HasLocalMember(r, h)'}
    <3>1. CASE HasLocalMember(r, g)
      <4>1. held'[r] = held[r] \cup {g}
        BY <1>2, <3>1
      <4> QED
        BY Zenon, <1>1, <1>4, <1>5, <3>1, <4>1
    <3>2. CASE ~HasLocalMember(r, g)
      <4>1. held'[r] = held[r]
        BY <1>2, <3>2
      <4> QED
        BY Zenon, <1>1, <1>4, <1>5, <3>2, <4>1
    <3> QED
      BY <3>1, <3>2
  <2> QED
    BY <2>1
<1>7. ASSUME NEW r \in Ranks, NEW h \in Groups
      PROVE  m_group_ranks'[r][h] = IF h = g THEN Zeros(g) ELSE m_group_ranks[r][h]
  BY <1>2, <1>3 DEF Shape
<1>8. ASSUME NEW r \in Ranks, NEW h \in Groups
      PROVE  m_group_ranks'[r][h] \in [Idx(h) -> Ranks \cup {NoRank}]
  BY ZenonT(60), <1>3, <1>7, ZerosTyped DEF TypeOK
<1>9. held' \in [Ranks -> SUBSET added']
  <2>1. \A r \in Ranks : held'[r] \subseteq added'
    BY Zenon, <1>6
  <2> QED
    BY <1>2, <2>1
<1>10. TypeOK'
  BY <1>1, <1>3, <1>8, <1>9 DEF TypeOK
<1>11. Shape'
  BY <1>1, <1>2, <1>3 DEF Shape
<1>12. Passed' /\ Inside'
  BY ZenonT(60), <1>1, <1>3 DEF Passed, Inside
<1>13. Stored'
  BY <1>1, <1>6 DEF Stored
<1> QED
  BY <1>1, <1>10, <1>11, <1>12, <1>13 DEF IInv

\* A particle set on another rank takes its groups along.
LEMMA MoveStep ==
  ASSUME IInv, NEW p \in Particles, NEW new_rank \in Ranks, moveParticleGroups(p, new_rank)
  PROVE  IInv'
<1> DEFINE old_rank == owner[p]
           With(g) == \E i \in Idx(g) : Members[g][i] = p
           of_p == {g \in held[old_rank] : With(g)}
           stays(g) == \E i \in Idx(g) : Members[g][i] # p /\ isLocal(old_rank, g, i)
           gone == {g \in of_p : ~stays(g)}
           new == of_p \ held[new_rank]
<1>1. /\ dir = Done /\ phase = "ranks" /\ new_rank # old_rank /\ m_bonds_changed' = TRUE
      /\ owner' = [owner EXCEPT ![p] = new_rank]
      /\ offset' = offset /\ dir' = dir /\ phase' = phase /\ added' = added
  BY Zenon DEF moveParticleGroups, IInv
<1>2. /\ held' = [held EXCEPT ![old_rank] = @ \ gone, ![new_rank] = @ \cup new]
      /\ m_group_ranks' = [m_group_ranks EXCEPT
           ![old_rank] = [g \in Groups |-> IF g \in gone THEN Zeros(g) ELSE @[g]],
           ![new_rank] = [g \in Groups |-> IF g \in new THEN Zeros(g) ELSE @[g]]]
  BY Zenon DEF moveParticleGroups
<1>3. TypeOK /\ Shape /\ Passed
  BY DEF IInv
<1>4. old_rank \in Ranks /\ owner \in [Particles -> Ranks]
  BY SMTT(30), <1>3 DEF TypeOK
<1>5. \A r \in Ranks : held[r] = {g \in added : HasLocalMember(r, g)}
  BY <1>1 DEF IInv, Stored
<1>6. \A q : q # p => owner'[q] = owner[q]
  BY <1>1, <1>4
<1>7. owner'[p] = new_rank
  BY <1>1, <1>4
<1>8. /\ held'[old_rank] = held[old_rank] \ gone
      /\ held'[new_rank] = held[new_rank] \cup new
      /\ \A r \in Ranks : r # old_rank /\ r # new_rank => held'[r] = held[r]
      /\ DOMAIN held' = Ranks
  <2> HIDE DEF gone, new, old_rank
  <2>1. DOMAIN held = Ranks
    BY <1>3 DEF TypeOK
  <2> QED
    BY <1>1, <1>2, <1>4, <2>1
<1>9. \A g : (\E i \in Idx(g) : owner'[Members[g][i]] = old_rank) <=> stays(g)
  BY Zenon, <1>1, <1>6, <1>7 DEF isLocal
<1>10. \A g : (\E i \in Idx(g) : owner'[Members[g][i]] = new_rank)
                <=> HasLocalMember(new_rank, g) \/ With(g)
  BY Zenon, <1>1, <1>6, <1>7 DEF HasLocalMember, isLocal
<1>11. ASSUME NEW r, r # old_rank, r # new_rank
       PROVE  \A g : (\E i \in Idx(g) : owner'[Members[g][i]] = r) <=> HasLocalMember(r, g)
  BY Zenon, <1>1, <1>6, <1>7, <1>11 DEF HasLocalMember, isLocal
<1>12. \A g : With(g) \/ stays(g) <=> HasLocalMember(old_rank, g)
  BY Zenon DEF HasLocalMember, isLocal
<1> DEFINE Right(r) == held'[r] = {g \in added : \E i \in Idx(g) : owner'[Members[g][i]] = r}
<1>13. Right(old_rank)
  <2>1. \A g : g \in gone <=> g \in held[old_rank] /\ With(g) /\ ~stays(g)
    BY Zenon
  <2>2. \A g : g \in held[old_rank] <=> g \in added /\ (With(g) \/ stays(g))
    BY Zenon, <1>4, <1>5, <1>12
  <2> HIDE DEF gone, stays, With
  <2>3. \A g : g \in held[old_rank] \ gone <=> g \in added /\ stays(g)
    BY Zenon, <2>1, <2>2
  <2> QED
    BY ZenonT(60), <1>8, <1>9, <2>3
<1>14. Right(new_rank)
  <2>1. \A g : g \in new <=> g \in held[old_rank] /\ With(g) /\ g \notin held[new_rank]
    BY Zenon
  <2>2. \A g : With(g) => (g \in held[old_rank] <=> g \in added)
    BY Zenon, <1>4, <1>5, <1>12
  <2>3. \A g : g \in held[new_rank] <=> g \in added /\ HasLocalMember(new_rank, g)
    BY Zenon, <1>5
  <2> HIDE DEF new, With
  <2>4. \A g : g \in held[new_rank] \cup new
                 <=> g \in added /\ (HasLocalMember(new_rank, g) \/ With(g))
    BY Zenon, <2>1, <2>2, <2>3
  <2> QED
    BY Zenon, <1>8, <1>10, <2>4
<1>15. ASSUME NEW r \in Ranks PROVE Right(r)
  <2>1. CASE r # old_rank /\ r # new_rank
    <3>1. held'[r] = {g \in added : HasLocalMember(r, g)}
      BY Zenon, <1>5, <1>8, <2>1
    <3>2. \A g : (\E i \in Idx(g) : owner'[Members[g][i]] = r) <=> HasLocalMember(r, g)
      BY Zenon, <1>11, <2>1
    <3> QED
      BY Zenon, <3>1, <3>2
  <2> QED
    BY Zenon, <1>13, <1>14, <2>1
<1>16. \A r \in Ranks : held'[r] = {g \in added' : HasLocalMember(r, g)'}
  BY Zenon, <1>1, <1>15 DEF HasLocalMember, isLocal
<1>17. held' \in [Ranks -> SUBSET added']
  <2>1. \A r \in Ranks : held'[r] \subseteq added'
    BY Zenon, <1>16
  <2>2. held' = [r \in Ranks |-> held'[r]]
    <3> HIDE DEF gone, new, old_rank
    <3> QED
      BY ZenonT(30), <1>2, <1>3 DEF TypeOK
  <2> QED
    BY <2>1, <2>2
<1>18. /\ DOMAIN m_group_ranks' = Ranks
       /\ \A r \in Ranks : /\ DOMAIN m_group_ranks'[r] = Groups
                           /\ \A g \in Groups : \/ m_group_ranks'[r][g] = m_group_ranks[r][g]
                                                \/ m_group_ranks'[r][g] = Zeros(g)
  <2> HIDE DEF gone, new, old_rank
  <2>1. DOMAIN m_group_ranks = Ranks /\ \A r \in Ranks : DOMAIN m_group_ranks[r] = Groups
    BY <1>3 DEF Shape
  <2>2. /\ DOMAIN m_group_ranks' = Ranks
        /\ m_group_ranks'[old_rank]
             = [g \in Groups |-> IF g \in gone THEN Zeros(g) ELSE m_group_ranks[old_rank][g]]
        /\ m_group_ranks'[new_rank]
             = [g \in Groups |-> IF g \in new THEN Zeros(g) ELSE m_group_ranks[new_rank][g]]
        /\ \A r \in Ranks : r # old_rank /\ r # new_rank => m_group_ranks'[r] = m_group_ranks[r]
    BY <1>1, <1>2, <1>4, <2>1
  <2> QED
    BY <2>1, <2>2
<1>19. ASSUME NEW r \in Ranks, NEW g \in Groups
       PROVE  m_group_ranks'[r][g] \in [Idx(g) -> Ranks \cup {NoRank}]
  BY Zenon, <1>3, <1>18, ZerosTyped DEF TypeOK
<1>20. owner' \in [Particles -> Ranks]
  BY SMTT(30), <1>1, <1>4
<1>21. TypeOK'
  BY SMTT(30), <1>1, <1>3, <1>17, <1>19, <1>20 DEF TypeOK
<1>22. Shape'
  BY <1>1, <1>3, <1>18 DEF Shape
<1>23. Passed'
  BY Zenon, <1>1, <1>3 DEF Passed
<1>24. Inside'
  <2>1. \A q \in Particles : \A a \in Axes : offset[q][a] # -1
    <3>1. \A q \in Particles : \A a \in Axes : offset[q][a] = 0
      BY ZenonT(60), <1>1, AtHome
    <3> QED
      BY <3>1
  <2> QED
    BY Zenon, <1>1, <2>1 DEF Inside
<1>25. Stored'
  BY <1>1, <1>16 DEF Stored
<1> QED
  BY <1>1, <1>21, <1>22, <1>23, <1>24, <1>25 DEF IInv

-----------------------------------------------------------------------------
(***************************************************************************)
(* The theorems.                                                           *)
(***************************************************************************)
LEMMA InitIInv ==
  ASSUME Init
  PROVE  IInv
<1>1. /\ owner \in [Particles -> Ranks]
      /\ offset = [p \in Particles |-> [a \in Axes |-> 0]]
      /\ dir = Done /\ phase = "ranks" /\ added = {} /\ held = [r \in Ranks |-> {}]
      /\ m_group_ranks = [r \in Ranks |-> [g \in Groups |-> Zeros(g)]]
      /\ m_bonds_changed = TRUE
  BY Zenon DEF Init
<1>2. [a \in Axes |-> 0] \in Steps
  BY DEF Steps
<1>3. offset \in [Particles -> Steps]
  BY <1>1, <1>2
<1>4. \A p \in Particles : \A a \in Axes : offset[p][a] = 0
  BY <1>1
<1>5. \A r \in Ranks, g \in Groups : m_group_ranks[r][g] \in [Idx(g) -> Ranks \cup {NoRank}]
  BY <1>1, ZerosTyped
<1>6. TypeOK
  BY <1>1, <1>3, <1>5 DEF TypeOK, Done
<1>7. Shape
  BY <1>1 DEF Shape
<1>8. Passed
  BY <1>4, Directions DEF Passed
<1>9. Inside
  BY <1>4 DEF Inside
<1>10. Stored
  BY <1>1 DEF Stored
<1> QED
  BY <1>1, <1>6, <1>7, <1>8, <1>9, <1>10 DEF IInv

LEMMA NextIInv ==
  ASSUME IInv, ~CrossLow, [Next]_vars
  PROVE  IInv'
<1>1. CASE \E g \in Groups : addBondedGroup(g)
  BY Zenon, <1>1, AddStep
<1>2. CASE \E p \in Particles, r \in Ranks : moveParticleGroups(p, r)
  BY Zenon, <1>2, MoveStep
<1>3. CASE \E off \in Drifts : startMigration(off)
  BY Zenon, <1>3, StartStep
<1>4. CASE dir # Done /\ \E outside \in [ReadsOutside -> Ranks \cup {NoRank}] :
             migrateGroups_ranks(outside)
  BY Zenon, <1>4, RanksStep
<1>5. CASE migrateGroups_groups
  BY Zenon, <1>5, GroupsStep
<1>6. CASE migrateParticles
  BY Zenon, <1>6, ParticlesStep
<1>7. CASE UNCHANGED vars
  <2>1. /\ owner' = owner /\ offset' = offset /\ dir' = dir /\ phase' = phase
        /\ added' = added /\ held' = held /\ m_group_ranks' = m_group_ranks
        /\ m_bonds_changed' = m_bonds_changed
    BY Zenon, <1>7 DEF vars
  <2>2. /\ \A p : NewOwner(p)' = NewOwner(p)
        /\ \A r, g : HasLocalMember(r, g)' <=> HasLocalMember(r, g)
        /\ \A p, q : Together(p, q)' <=> Together(p, q)
    BY ZenonT(60), <2>1 DEF NewOwner, leaves, HasLocalMember, isLocal, Together
  <2>3. TypeOK' /\ Shape'
    BY <2>1 DEF IInv, TypeOK, Shape
  <2>4. Passed' /\ Inside'
    BY Zenon, <2>1 DEF IInv, Passed, Inside
  <2>5. Close => Close'
    BY Zenon, <2>1, <2>2 DEF Close
  <2>6. Stored'
    <3>1. Stored
      BY Zenon DEF IInv
    <3>2. phase' \in {"ranks", "groups"} =>
            \A r \in Ranks : held'[r] = {g \in added' : HasLocalMember(r, g)'}
      BY Zenon, <2>1, <2>2, <3>1 DEF Stored
    <3>3. phase' = "ranks" /\ ~m_bonds_changed' =>
            \A r \in Ranks : \A g \in held'[r] : \A i \in Idx(g) :
              m_group_ranks'[r][g][i] = owner'[Members[g][i]]
      BY ZenonT(60), <2>1, <3>1 DEF Stored
    <3>4. phase' # "ranks" =>
            \A r \in Ranks : \A g \in held'[r] : \A i \in Idx(g) :
              m_group_ranks'[r][g][i] = NewOwner(Members[g][i])'
      <4>1. phase # "ranks" =>
              \A r \in Ranks : \A g \in held[r] : \A i \in Idx(g) :
                m_group_ranks[r][g][i] = NewOwner(Members[g][i])
        BY Zenon, <3>1 DEF Stored
      <4> QED
        BY <2>1, <2>2, <4>1
    <3>5. phase' = "particles" =>
            /\ ~m_bonds_changed'
            /\ \A r \in Ranks : held'[r] =
                 {g \in added' : \E i \in Idx(g) : NewOwner(Members[g][i])' = r}
      BY Zenon, <2>1, <2>2, <3>1 DEF Stored
    <3> QED
      BY Zenon, <3>2, <3>3, <3>4, <3>5 DEF Stored
  <2> QED
    BY <2>1, <2>3, <2>4, <2>5, <2>6 DEF IInv
<1> QED
  BY Zenon, <1>1, <1>2, <1>3, <1>4, <1>5, <1>6, <1>7 DEF Next

LEMMA IInvHolds == ~CrossLow => (Spec => []IInv)
<1> SUFFICES ASSUME ~CrossLow PROVE Spec => []IInv
  OBVIOUS
<1>1. Init => IInv
  BY Zenon, InitIInv
<1>2. IInv /\ [Next]_vars => IInv'
  BY Zenon, NextIInv
<1> QED
  BY <1>1, <1>2, PTL DEF Spec

\* Groups follow their members: whenever the exchanges of a direction are
\* complete, the ranks that own a member of a group store it, and no others
\* do (migrateGroups and migrateParticles, for all grids, orders of the ranks
\* and groups), provided that no particle leaves through a lower face of the
\* global box, where the code reads h_cart_ranks beyond its end.
THEOREM GroupsMigrate == ~CrossLow => (Spec => []GroupsFollowMembers)
<1>1. IInv => GroupsFollowMembers
  BY DEF IInv, Stored, GroupsFollowMembers
<1> QED
  BY <1>1, IInvHolds, PTL

\* Under the same condition, the ranks stored with a group are the owners of
\* its members whenever the information is not marked incomplete.
THEOREM OwnersKnown == ~CrossLow => (Spec => []RanksAreOwners)
<1>1. IInv => RanksAreOwners
  BY SMTT(30) DEF IInv, Stored, RanksAreOwners
<1> QED
  BY <1>1, IInvHolds, PTL

\* Under the same condition, phase 1 computes the rank each leaving member is
\* sent to, in unsigned arithmetic, as getNeighborRank does in signed.
THEOREM DestinationsKnown == ~CrossLow => (Spec => []RanksAreDestinations)
<1>1. IInv => RanksAreDestinations
  <2>1. SUFFICES ASSUME IInv, dir # Done, phase = "groups",
                        NEW r \in Ranks, NEW g \in held[r], NEW i \in Leaving(r, g)
                 PROVE  m_group_ranks[r][g][i] = getNeighborRank[r][dir]
    BY Zenon DEF RanksAreDestinations
  <2>2. NewOwner(Members[g][i]) = getNeighborRank[r][dir]
    BY Zenon, <2>1, LeavingMember
  <2>3. i \in Idx(g)
    BY Zenon DEF Leaving
  <2> QED
    BY <2>1, <2>2, <2>3 DEF IInv, Stored
<1> QED
  BY <1>1, IInvHolds, PTL
=============================================================================
