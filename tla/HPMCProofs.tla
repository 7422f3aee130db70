----------------------------- MODULE HPMCProofs -----------------------------
(***************************************************************************)
(* The theorems about HPMC, for every decomposition, number of particles,  *)
(* box, diameter and move: no two particles ever overlap.                  *)
(***************************************************************************)
EXTENDS HPMCLemmas, FiniteSetTheorems

-----------------------------------------------------------------------------
(***************************************************************************)
(* The steps of the updaters between the sweeps keep the inductive         *)
(* invariant: a resize of the box, its undoing, a report of the            *)
(* compression and a shape move on one rank.                               *)
(***************************************************************************)

\* Between the sweeps every particle is where its owner's tree can find it.
LEMMA BetweenSweeps ==
    ASSUME IInv, phase = "updaters"
    PROVE  /\ Placed /\ checkBoxSize(L, D)
           /\ ghosts = exchangeGhosts(pos, owner, L, D)
           /\ TypeOK /\ WellCut(cuts)
  BY ZenonT(30), Typed DEF IInv, Placed, TypeOK

\* A box that is set although it is too small ends the run.
LEMMA TooSmallStep ==
    ASSUME IInv, phase = "updaters", UNCHANGED <<conf, pos, owner>>,
           {target', judged'} \subseteq targets, NEW l \in Boxes, tooSmall(l)
    PROVE  IInv'
  <1>1. /\ cuts' = cuts /\ updater' = updater /\ max_overlaps' = max_overlaps
        /\ targets' = targets
        /\ L' = l /\ D' = D /\ pos' = pos /\ owner' = owner /\ ghosts' = ghosts
        /\ tree_invalid' = AllInvalid /\ tree' = NoTrees
        /\ is_complete' = is_complete /\ phase' = "error"
    BY Zenon DEF tooSmall, conf
  <1>2. Ranks' = Ranks /\ Points' = Points
    BY ZenonT(30), <1>1, SameGrid
  <1>3. TypeOK'
    BY <1>1, <1>2 DEF IInv, TypeOK, NoTrees, AllInvalid
  <1>4. (is_complete => updater = "QuickCompress")'
    BY Zenon, <1>1 DEF IInv
  <1>5. \A r \in Ranks : \A g \in ghosts[r] : owner[g.tag] # r
    BY Zenon DEF IInv
  <1> QED
    BY <1>1, <1>2, <1>3, <1>4, <1>5 DEF IInv, TreeCurrent, CompleteMeansDone, NoOverlap

\* What Resized and Rebuilt yield for a box that is large enough.
LEMMA ResizedTyped ==
    ASSUME IInv, phase = "updaters", NEW l \in Boxes
    PROVE  /\ DOMAIN Resized(l) = Ranks
           /\ \A r \in Ranks : Resized(l)[r] \subseteq [tag : Particles, pos : Int \X Int]
           /\ \A r \in Ranks : \A g \in Resized(l)[r] : owner[g.tag] # r
           /\ DOMAIN Rebuilt(l) = Ranks
           /\ \A r \in Ranks : Rebuilt(l)[r] = AABBs(r, Resized(l), l, D)
           /\ \A r \in Ranks : Rebuilt(l)[r] \subseteq
                                [tag : Particles, at : Int \X Int, L : Boxes, D : Diameters]
  <1>1. TypeOK /\ WellCut(cuts) /\ pos \in [Particles -> Points] /\ D \in Diameters
    BY ZenonT(30), Typed DEF IInv, TypeOK
  <1>2. /\ DOMAIN Resized(l) = Ranks
        /\ \A r \in Ranks : Resized(l)[r] \subseteq [tag : Particles, pos : Int \X Int]
        /\ \A r \in Ranks : \A g \in Resized(l)[r] : owner[g.tag] # r
    BY ZenonT(30), <1>1, ExchangeTyped DEF Resized
  <1>3. /\ DOMAIN Rebuilt(l) = Ranks
        /\ \A r \in Ranks : Rebuilt(l)[r] = AABBs(r, Resized(l), l, D)
    BY DEF Rebuilt, buildAABBTree, AllInvalid
  <1> QED
    BY <1>1, <1>2, <1>3, TreeTyped

\* A new box that stays keeps the invariant, when it is large enough and has no
\* overlaps or is that of a compression.
LEMMA KeepStep ==
    ASSUME IInv, phase = "updaters", UNCHANGED <<conf, pos, owner, D>>, phase' = "update",
           {target', judged'} \subseteq targets, NEW l \in Boxes, checkBoxSize(l, D), keep(l),
           is_complete' = FALSE,
           max_overlaps = 0 => countOverlaps(Rebuilt(l), l, D) = {}
    PROVE  IInv'
  <1>1. /\ cuts' = cuts /\ updater' = updater /\ max_overlaps' = max_overlaps
        /\ targets' = targets
        /\ L' = l /\ D' = D /\ pos' = pos /\ owner' = owner /\ ghosts' = Resized(l)
        /\ tree_invalid' = AllValid /\ tree' = Rebuilt(l)
    BY Zenon DEF keep, conf
  <1>2. /\ Ranks' = Ranks /\ Points' = Points
        /\ (Overlapping(pos, L, D))' = Overlapping(pos, l, D)
        /\ (checkBoxSize(L, D))' = checkBoxSize(l, D)
        /\ (exchangeGhosts(pos, owner, L, D))' = Resized(l)
        /\ \A t \in Particles : InDomain(owner[t], pos[t])' = InDomain(owner[t], pos[t])
    BY ZenonT(30), <1>1, SameGrid DEF Resized
  <1>3. TypeOK'
    BY <1>1, <1>2, ResizedTyped, Zenon DEF IInv, TypeOK, AllValid
  <1>4. TreeCurrent'
    <2>1. \A r \in Ranks : AABBs(r, ghosts, L, D)' = AABBs(r, Resized(l), l, D)
      BY ZenonT(30), <1>1 DEF AABBs
    <2> QED
      BY <2>1, <1>1, <1>2, ResizedTyped DEF TreeCurrent
  <1>5. NoOverlap'
    <2>1. ASSUME max_overlaps = 0 PROVE Overlapping(pos, l, D) = {}
      <3>1. countOverlaps(Rebuilt(l), l, D) = {}
        BY ZenonT(30), <2>1
      <3>2. \A r \in Ranks : Rebuilt(l)[r] = AABBs(r, exchangeGhosts(pos, owner, l, D), l, D)
        BY ZenonT(30), ResizedTyped DEF Resized
      <3>3. Placed /\ l \in Nat \X Nat /\ D \in Nat /\ Particles \subseteq Nat
        BY ZenonT(30), BetweenSweeps, Typed
      <3> QED
        BY <3>1, <3>2, <3>3, CountSound
    <2> QED
      BY ZenonT(30), <2>1, <1>1, <1>2 DEF NoOverlap
  <1>6. /\ \A t \in Particles : InDomain(owner[t], pos[t])
        /\ \A r \in Ranks : \A g \in Resized(l)[r] : owner[g.tag] # r
    BY ZenonT(30), ResizedTyped DEF IInv
  <1> QED
    BY <1>1, <1>2, <1>3, <1>4, <1>5, <1>6 DEF IInv, CompleteMeansDone

\* Restoring the old box keeps the invariant.
LEMMA UndoStep ==
    ASSUME IInv, phase = "updaters", UNCHANGED <<conf, pos, owner, D>>, phase' = "update",
           {target', judged'} \subseteq targets, NEW l \in Boxes, undo(l), is_complete' = FALSE
    PROVE  IInv'
  <1>1. /\ cuts' = cuts /\ updater' = updater /\ max_overlaps' = max_overlaps
        /\ targets' = targets
        /\ L' = L /\ D' = D /\ pos' = pos /\ owner' = owner /\ ghosts' = Resized(L)
        /\ tree_invalid' = AllInvalid /\ tree' = NoTrees
    BY DEF undo, conf
  <1>2. /\ Ranks' = Ranks /\ Points' = Points
        /\ (Overlapping(pos, L, D))' = Overlapping(pos, L, D)
        /\ (checkBoxSize(L, D))' = checkBoxSize(L, D)
        /\ (exchangeGhosts(pos, owner, L, D))' = Resized(L)
        /\ \A t \in Particles : InDomain(owner[t], pos[t])' = InDomain(owner[t], pos[t])
    BY ZenonT(30), <1>1, SameGrid DEF Resized
  <1>3. L \in Boxes
    BY Zenon DEF IInv, TypeOK
  <1>4. TypeOK'
    BY <1>1, <1>2, <1>3, ResizedTyped, Zenon DEF IInv, TypeOK, AllInvalid, NoTrees
  <1>5. TreeCurrent'
    BY ZenonT(30), <1>1, <1>2 DEF TreeCurrent, AllInvalid
  <1>6. /\ \A t \in Particles : InDomain(owner[t], pos[t])
        /\ \A r \in Ranks : \A g \in Resized(L)[r] : owner[g.tag] # r
        /\ checkBoxSize(L, D)
    BY ZenonT(30), <1>3, ResizedTyped DEF IInv
  <1>7. NoOverlap'
    BY <1>1, <1>2 DEF IInv, NoOverlap
  <1>8. CompleteMeansDone' /\ (is_complete => updater = "QuickCompress")'
    BY Zenon DEF CompleteMeansDone
  <1> QED
    BY SMTT(30), <1>1, <1>2, <1>4, <1>5, <1>6, <1>7, <1>8 DEF IInv

\* A trial resize of UpdaterBoxMC.
LEMMA BoxStep ==
    ASSUME IInv, NEW l \in Boxes, box_resize_trial(l)
    PROVE  IInv'
  <1>1. /\ updater = "BoxMC" /\ phase = "updaters" /\ UNCHANGED <<conf, pos, owner>>
        /\ is_complete = FALSE /\ {target', judged'} \subseteq targets
    BY ZenonT(30) DEF box_resize_trial, IInv, TypeOK
  <1>2. CASE tooSmall(l)
    BY ZenonT(30), <1>1, <1>2, TooSmallStep
  <1>3. CASE /\ checkBoxSize(l, D) /\ phase' = "update" /\ UNCHANGED <<D, is_complete>>
             /\ countOverlaps(Rebuilt(l), l, D) = {} /\ keep(l)
    <2>1. is_complete' = FALSE /\ UNCHANGED <<conf, pos, owner, D>>
      BY ZenonT(30), <1>1, <1>3
    <2> QED
      BY <2>1, <1>1, <1>3, KeepStep, Zenon
  <1>4. CASE phase' = "update" /\ UNCHANGED <<D, is_complete>> /\ undo(l)
    <2>1. UNCHANGED <<conf, pos, owner, D>> /\ is_complete' = FALSE
      BY ZenonT(30), <1>1, <1>4
    <2> QED
      BY <2>1, <1>1, <1>4, UndoStep
  <1> QED
    BY ZenonT(30), <1>2, <1>3, <1>4 DEF box_resize_trial

\* Counting with the tree that buildAABBTree returns misses no overlap.
LEMMA NoneCounted ==
    ASSUME IInv, phase = "updaters",
           countOverlaps(buildAABBTree(ghosts, L, D, tree_invalid), L, D) = {}
    PROVE  Overlapping(pos, L, D) = {}
  <1> DEFINE tr == buildAABBTree(ghosts, L, D, tree_invalid)
  <1>1. \A r \in Ranks : tr[r] = AABBs(r, exchangeGhosts(pos, owner, L, D), L, D)
    BY ZenonT(30), BuiltTree, BetweenSweeps
  <1>2. Placed /\ checkBoxSize(L, D) /\ L \in Nat \X Nat /\ D \in Nat /\ Particles \subseteq Nat
    BY BetweenSweeps, Typed
  <1>3. countOverlaps(tr, L, D) = {}
    BY Zenon
  <1> HIDE DEF tr
  <1> QED
    BY <1>1, <1>2, <1>3, CountSound

\* A compression that changes nothing but the report and the tree.
LEMMA ReportStep ==
    ASSUME IInv, phase = "updaters", phase' = "update", UNCHANGED <<conf, pos, owner, L, D, ghosts>>,
           updater = "QuickCompress",
           tree' = buildAABBTree(ghosts, L, D, tree_invalid), tree_invalid' = AllValid,
           is_complete' \in BOOLEAN, {target', judged'} \subseteq targets,
           is_complete' => L = judged' /\ Overlapping(pos, L, D) = {}
    PROVE  IInv'
  <1>1. TypeOK /\ WellCut(cuts) /\ L \in Boxes /\ D \in Diameters
    BY ZenonT(30), Typed DEF IInv, TypeOK
  <1>2. /\ cuts' = cuts /\ updater' = updater /\ max_overlaps' = max_overlaps
        /\ targets' = targets
        /\ L' = L /\ D' = D /\ pos' = pos /\ owner' = owner /\ ghosts' = ghosts
    BY Zenon DEF conf
  <1>3. /\ Ranks' = Ranks /\ Points' = Points
        /\ (Overlapping(pos, L, D))' = Overlapping(pos, L, D)
        /\ (checkBoxSize(L, D))' = checkBoxSize(L, D)
        /\ (exchangeGhosts(pos, owner, L, D))' = exchangeGhosts(pos, owner, L, D)
        /\ \A t \in Particles : InDomain(owner[t], pos[t])' = InDomain(owner[t], pos[t])
    BY <1>2, SameGrid
  <1>4. \A r \in Ranks : tree'[r] = AABBs(r, ghosts, L, D)
    BY Zenon, BuiltTree
  <1>5. \A r \in Ranks : AABBs(r, ghosts, L, D)' = AABBs(r, ghosts, L, D)
    BY <1>2 DEF AABBs
  <1>6. TreeCurrent'
    BY SMTT(30), <1>3, <1>4, <1>5 DEF TreeCurrent
  <1>7. TypeOK'
    <2>1. DOMAIN tree' = Ranks /\ tree_invalid' \in [Ranks -> BOOLEAN]
      BY ZenonT(30) DEF buildAABBTree, AllValid
    <2>2. \A r \in Ranks : tree'[r] \subseteq
                            [tag : Particles, at : Int \X Int, L : Boxes, D : Diameters]
      <3>1. /\ pos \in [Particles -> Points]
            /\ \A r \in Ranks : ghosts[r] \subseteq [tag : Particles, pos : Int \X Int]
        BY ZenonT(30), <1>1 DEF TypeOK
      <3>2. ASSUME NEW r \in Ranks
            PROVE  AABBs(r, ghosts, L, D) \subseteq
                     [tag : Particles, at : Int \X Int, L : Boxes, D : Diameters]
        BY <3>1, <1>1, TreeTyped
      <3> QED
        BY ZenonT(30), <3>2, <1>4
    <2> QED
      BY <2>1, <2>2, <1>1, <1>2, <1>3 DEF TypeOK
  <1>8. CompleteMeansDone' /\ NoOverlap'
    BY ZenonT(30), <1>2, <1>3 DEF IInv, CompleteMeansDone, NoOverlap
  <1>9. /\ checkBoxSize(L, D) /\ ghosts = exchangeGhosts(pos, owner, L, D)
        /\ \A t \in Particles : InDomain(owner[t], pos[t])
        /\ \A r \in Ranks : \A g \in ghosts[r] : owner[g.tag] # r
    BY Zenon DEF IInv
  <1> QED
    BY SMTT(30), <1>2, <1>3, <1>6, <1>7, <1>8, <1>9 DEF IInv

\* On one rank there are no ghosts, and every ghost width fits.
LEMMA OneRank ==
    ASSUME TypeOK, Extent(1) = 1, Extent(2) = 1, NEW l, NEW w
    PROVE  /\ exchangeGhosts(pos, owner, l, w) = [r \in Ranks |-> {}]
           /\ checkBoxSize(l, w)
  <1>1. Ranks = {<<0, 0>>}
    BY DEF Ranks
  <1>2. \A r \in Ranks : {u \in Particles : owner[u] # r} = {}
    BY ZenonT(30), <1>1 DEF TypeOK
  <1>3. \A r \in Ranks :
          UNION {{Ghost(t, q) : q \in {i \in Images(pos[t]) : InLayer(r, i, l, w)}} :
                   t \in {u \in Particles : owner[u] # r}} = {}
    BY ZenonT(30), <1>2
  <1>4. checkBoxSize(l, w)
    BY DEF checkBoxSize, Axes
  <1> QED
    BY ZenonT(30), <1>3, <1>4 DEF exchangeGhosts

\* A shape move on one rank.
LEMMA ShapeStep ==
    ASSUME IInv, SerialShapes, NEW d \in Diameters, shapeMove(d)
    PROVE  IInv'
  <1> DEFINE tr == buildAABBTree(ghosts, L, d, AllInvalid)
             none == [r \in Ranks |-> {}]
  <1>1. /\ updater = "Shape" /\ phase = "updaters" /\ phase' = "update"
        /\ cuts' = cuts /\ updater' = updater /\ max_overlaps' = max_overlaps
        /\ targets' = targets
        /\ target' = target /\ judged' = judged
        /\ L' = L /\ pos' = pos /\ owner' = owner /\ ghosts' = ghosts
        /\ is_complete' = is_complete
    BY Zenon DEF shapeMove, conf
  <1>2. /\ TypeOK /\ WellCut(cuts) /\ Extent(1) = 1 /\ Extent(2) = 1 /\ L \in Boxes
        /\ L \in Nat \X Nat /\ d \in Nat /\ D \in Nat /\ Particles \subseteq Nat
    BY <1>1, Typed DEF IInv, TypeOK
  <1>3. \A w : exchangeGhosts(pos, owner, L, w) = none /\ checkBoxSize(L, w)
    BY ZenonT(30), <1>2, OneRank
  <1>4. ghosts = none
    BY <1>1, <1>3 DEF IInv
  <1>5. /\ Ranks' = Ranks /\ Points' = Points /\ AllInvalid' = AllInvalid
        /\ (Overlapping(pos, L, D))' = Overlapping(pos, L, D')
        /\ (checkBoxSize(L, D))' = checkBoxSize(L, D')
        /\ (exchangeGhosts(pos, owner, L, D))' = exchangeGhosts(pos, owner, L, D')
        /\ \A t \in Particles : InDomain(owner[t], pos[t])' = InDomain(owner[t], pos[t])
    BY <1>1, SameGrid
  <1>6. /\ is_complete = FALSE
        /\ \A t \in Particles : InDomain(owner[t], pos[t])
        /\ NoOverlap
    BY ZenonT(30), <1>1 DEF IInv, TypeOK
  <1>7. /\ checkBoxSize(L, D)' /\ (ghosts = exchangeGhosts(pos, owner, L, D))'
        /\ \A r \in Ranks : \A g \in ghosts[r] : owner[g.tag] # r
    BY SMTT(30), <1>1, <1>3, <1>4, <1>5
  <1>8. CASE countOverlaps(tr, L, d) = {} /\ D' = d /\ tree' = tr /\ tree_invalid' = AllValid
    <2>1. DOMAIN tr = Ranks /\ \A r \in Ranks : tr[r] = AABBs(r, ghosts, L, d)
      BY Zenon DEF buildAABBTree, AllInvalid
    <2>2. \A r \in Ranks : tr[r] = AABBs(r, exchangeGhosts(pos, owner, L, d), L, d)
      BY <2>1, <1>3, <1>4, SMTT(30)
    <2>3. Placed /\ checkBoxSize(L, d)
      BY <1>1, <1>3, BetweenSweeps
    <2>4. countOverlaps(tr, L, d) = {}
      BY ZenonT(30), <1>8
    <2>5. tree' = tr
      BY ZenonT(30), <1>8
    <2> HIDE DEF tr
    <2>6. Overlapping(pos, L, d) = {}
      BY <2>2, <2>3, <2>4, <1>2, CountSound
    <2>7. TreeCurrent'
      <3>1. \A r \in Ranks : AABBs(r, ghosts, L, D)' = AABBs(r, ghosts, L, d)
        BY ZenonT(30), <1>1, <1>8 DEF AABBs
      <3> QED
        BY SMTT(30), <3>1, <2>1, <2>5, <1>5 DEF TreeCurrent
    <2>8. TypeOK'
      <3>0. /\ pos \in [Particles -> Points]
            /\ \A r \in Ranks : ghosts[r] \subseteq [tag : Particles, pos : Int \X Int]
        BY ZenonT(30), <1>2 DEF TypeOK
      <3>1. ASSUME NEW r \in Ranks
            PROVE  tr[r] \subseteq [tag : Particles, at : Int \X Int, L : Boxes, D : Diameters]
        <4>1. AABBs(r, ghosts, L, d) \subseteq
                [tag : Particles, at : Int \X Int, L : Boxes, D : Diameters]
          BY <3>0, <1>2, TreeTyped, ZenonT(30)
        <4> QED
          BY <4>1, <2>1
      <3> QED
        BY SMTT(30), <3>1, <2>1, <2>5, <1>1, <1>2, <1>5, <1>8 DEF TypeOK, AllValid
    <2> QED
      BY SMTT(30), <2>6, <2>7, <2>8, <1>1, <1>5, <1>6, <1>7, <1>8
         DEF IInv, CompleteMeansDone, NoOverlap
  <1>9. CASE D' = D /\ tree' = NoTrees /\ tree_invalid' = AllInvalid
    <2>1. TypeOK'
      BY <1>1, <1>2, <1>5, <1>9, SMTT(30) DEF TypeOK, NoTrees, AllInvalid
    <2>2. TreeCurrent'
      BY ZenonT(30), <1>5, <1>9 DEF TreeCurrent, AllInvalid
    <2> QED
      BY <2>1, <2>2, <1>1, <1>5, <1>6, <1>7, <1>9, SMTT(30) DEF IInv, CompleteMeansDone, NoOverlap
  <1> QED
    BY <1>8, <1>9 DEF shapeMove

-----------------------------------------------------------------------------
(***************************************************************************)
(* Counting.  What the ranks count corresponds one to one to the meetings  *)
(* of particles and their images, which are finitely many.                 *)
(***************************************************************************)

\* There are finitely many meetings.
LEMMA MeetingsFinite ==
    ASSUME NEW p, NEW l, NEW d
    PROVE  IsFiniteSet(Meetings(p, l, d))
  <1>1. IsFiniteSet({-1, 0, 1})
    <2>1. -1 \in Int /\ 1 \in Int /\ -1 .. 1 = {-1, 0, 1}
      OBVIOUS
    <2> QED
      BY <2>1, FS_Interval, Zenon
  <1>2. IsFiniteSet({-1, 0, 1} \X {-1, 0, 1})
    BY <1>1, FS_Product, Zenon
  <1> DEFINE A == {-1, 0, 1} \X {-1, 0, 1}
             S == (Particles \X Particles) \X A
             f == [x \in S |-> <<x[1][1], x[1][2], x[2]>>]
             T == Particles \X Particles \X A
  <1> HIDE DEF A
  <1>3. IsFiniteSet(S)
    BY <1>2, SizesAssumption, FS_Product, Zenon DEF A
  <1>4. f \in Surjection(S, T)
    <2>1. ASSUME NEW x \in S PROVE f[x] \in T
      OBVIOUS
    <2>2. ASSUME NEW y \in T PROVE \E x \in S : f[x] = y
      <3>1. <<<<y[1], y[2]>>, y[3]>> \in S /\ y = <<y[1], y[2], y[3]>>
        OBVIOUS
      <3>2. f[<<<<y[1], y[2]>>, y[3]>>] = <<y[1], y[2], y[3]>>
        BY <3>1
      <3> HIDE DEF f, S, T
      <3> QED
        BY Zenon, <3>1, <3>2
    <2>3. f \in [S -> T]
      BY <2>1, Zenon
    <2> HIDE DEF f, S, T
    <2> QED
      BY <2>2, <2>3, Zenon DEF Surjection
  <1>5. IsFiniteSet(T)
    BY ZenonT(30), <1>3, <1>4, FS_Surjection
  <1>6. Meetings(p, l, d) \subseteq T
    BY Zenon DEF Meetings, A
  <1> QED
    BY Zenon, <1>5, <1>6, FS_Subset

\* The coordinates at which a rank finds a particle tell the image that it
\* meets.
LEMMA FoundInjective ==
    ASSUME WellCut(cuts), NEW q \in Points, NEW m \in Around, NEW n \in Around,
           SearchedImage(m) = SearchedImage(n), FoundAt(q, m) = FoundAt(q, n)
    PROVE  m = n
  <1>1. ASSUME NEW a \in Axes PROVE m[a] = n[a]
    <2>1. /\ F(a) \in Nat /\ 0 < F(a) /\ q[a] \in Int
          /\ m[a] \in {-1, 0, 1} /\ n[a] \in {-1, 0, 1}
      BY Domains, PointCoordinates DEF Axes, Around
    <2>2. Searched(m, a) = Searched(n, a)
      BY DEF SearchedImage, Axes
    <2>3. q[a] + (Searched(m, a) - m[a]) * F(a) = q[a] + (Searched(n, a) - n[a]) * F(a)
      BY DEF FoundAt, Axes
    <2>4. CASE Extent(a) > 1
      BY <2>1, <2>3, <2>4 DEF Searched
    <2>5. CASE ~(Extent(a) > 1)
      BY <2>2, <2>5 DEF Searched
    <2> QED
      BY Zenon, <2>4, <2>5
  <1> QED
    BY <1>1 DEF Around, Axes

\* A box that a rank counts against an image of one of its particles stands for
\* a meeting.
LEMMA CountedMeets ==
    ASSUME WellCut(cuts), NEW p \in Points, NEW q \in Points, NEW l, NEW d, NEW i,
           i = q \/ i \in Images(q), NEW k \in m_image_list, test_overlap(i, Image(p, k), l, d)
    PROVE  \E m \in Around : /\ k = SearchedImage(m) /\ i = FoundAt(q, m)
                             /\ test_overlap(q, Image(p, m), l, d)
  <1>1. /\ \A a \in Axes : F(a) \in Nat /\ Extent(a) \in Nat /\ p[a] \in Int /\ q[a] \in Int
        /\ p \in Int \X Int /\ q = <<q[1], q[2]>>
    BY Domains, PointCoordinates DEF Axes, Points
  <1>2. PICK j \in Turns(1) \X Turns(2) :
          i = <<i[1], i[2]>> /\ \A a \in Axes : i[a] = q[a] + j[a] * F(a)
    <2>1. CASE i = q
      <3>1. <<0, 0>> \in Turns(1) \X Turns(2)
        BY DEF Turns
      <3>2. \A a \in Axes : q[a] = q[a] + <<0, 0>>[a] * F(a)
        BY <1>1 DEF Axes
      <3> QED
        BY Zenon, <2>1, <3>1, <3>2, <1>1
    <2>2. CASE i \in Images(q)
      <3>1. PICK x \in Turns(1) : i[1] = q[1] + x * F(1)
        BY Zenon, <2>2, ImageCoordinates DEF Axes
      <3>2. PICK y \in Turns(2) : i[2] = q[2] + y * F(2)
        BY Zenon, <2>2, ImageCoordinates DEF Axes
      <3>3. i = <<i[1], i[2]>>
        BY Zenon, <2>2, ImageCoordinates
      <3>4. <<x, y>> \in Turns(1) \X Turns(2) /\ <<x, y>>[1] = x /\ <<x, y>>[2] = y
        OBVIOUS
      <3> QED
        BY Zenon, <3>1, <3>2, <3>3, <3>4 DEF Axes
    <2> QED
      BY Zenon, <2>1, <2>2
  <1>3. \A a \in Axes : /\ k[a] \in updateImageList(a) /\ k[a] \in Int
                        /\ j[a] \in Turns(a) /\ j[a] \in Int
    BY DEF m_image_list, updateImageList, Turns, Axes
  <1>4. k = <<k[1], k[2]>> /\ k \in Int \X Int
    BY DEF m_image_list, updateImageList
  <1> DEFINE m == <<k[1] - j[1], k[2] - j[2]>>
  <1>5. \A a \in Axes : m[a] = k[a] - j[a]
    BY DEF Axes
  <1>6. \A a \in Axes : /\ m[a] \in {-1, 0, 1}
                        /\ k[a] = Searched(m, a) /\ j[a] = Searched(m, a) - m[a]
    <2> HIDE DEF m
    <2> QED
      BY <1>1, <1>3, <1>5 DEF Searched, Turns, updateImageList
  <1>7. m \in Around /\ m \in Int \X Int
    <2>1. k[1] - j[1] \in {-1, 0, 1} /\ k[2] - j[2] \in {-1, 0, 1}
      BY Zenon, <1>5, <1>6 DEF Axes
    <2> QED
      BY <2>1 DEF Around
  <1> HIDE DEF m
  <1>8. k = SearchedImage(m)
    BY Zenon, <1>4, <1>6 DEF SearchedImage, Axes
  <1>9. i = FoundAt(q, m)
    BY Zenon, <1>2, <1>6 DEF FoundAt, Axes
  <1>10. test_overlap(q, Image(p, m), l, d)
    <2>1. SUFFICES ASSUME NEW a \in Axes
                   PROVE  Abs(q[a] - Image(p, m)[a]) * l[a] < d * F(a)
      BY Zenon DEF test_overlap
    <2>2. Image(p, k)[a] = p[a] + k[a] * F(a) /\ Image(p, m)[a] = p[a] + m[a] * F(a)
      BY Zenon, <1>1, <1>4, <1>7, ImageAt
    <2>3. Abs(i[a] - (p[a] + k[a] * F(a))) * l[a] < d * F(a)
      BY Zenon, <2>2 DEF test_overlap
    <2>4. (q[a] + j[a] * F(a)) - (p[a] + k[a] * F(a)) = q[a] - (p[a] + (k[a] - j[a]) * F(a))
      BY <1>1, <1>3
    <2> QED
      BY Zenon, <2>2, <2>3, <2>4, <1>2, <1>5
  <1> QED
    BY Zenon, <1>7, <1>8, <1>9, <1>10

\* The meeting of particles t and u through the image m, as the rank of t
\* counts it.
Counted(m, l) ==
    <<owner[m[1]], m[1], AABB(m[2], FoundAt(pos[m[2]], m[3]), l, D), SearchedImage(m[3])>>

\* Every meeting is counted by one rank and once, and nothing else is counted.
LEMMA CountMeetings ==
    ASSUME IInv, phase = "updaters", NEW l \in Boxes, checkBoxSize(l, D)
    PROVE  LET M == Meetings(pos, l, D)
               f == [m \in M |-> Counted(m, l)]
           IN  f \in Bijection(M, countOverlaps(Rebuilt(l), l, D))
  <1> DEFINE tr == Rebuilt(l)
             C == countOverlaps(tr, l, D)
             M == Meetings(pos, l, D)
             f == [m \in M |-> Counted(m, l)]
  <1>1. /\ Placed /\ WellCut(cuts) /\ l \in Nat \X Nat /\ D \in Nat /\ Particles \subseteq Nat
        /\ \A a \in Axes : D < l[a]
    BY BetweenSweeps, Typed
  <1>2. \A r \in Ranks : tr[r] = AABBs(r, exchangeGhosts(pos, owner, l, D), l, D)
    BY ZenonT(30), ResizedTyped DEF Resized
  <1>3. \A t \in Particles : owner[t] \in Ranks /\ pos[t] \in Points
    BY <1>1 DEF Placed
  <1> HIDE DEF tr
  <1>4. ASSUME NEW m \in M
        PROVE  /\ m[1] \in Particles /\ m[2] \in Particles /\ m[3] \in Around /\ m[1] < m[2]
               /\ m = <<m[1], m[2], m[3]>>
               /\ test_overlap(pos[m[2]], Image(pos[m[1]], m[3]), l, D)
    BY DEF Meetings, Around
  <1>5. ASSUME NEW m \in M PROVE f[m] \in C
    <2>1. f[m] = Counted(m, l)
      BY Zenon
    <2>2. Counted(m, l) \in C
      BY SMTT(30), <1>1, <1>2, <1>4, MeetingCounted DEF Counted
    <2> QED
      BY Zenon, <2>1, <2>2
  <1>6. ASSUME NEW m \in M, NEW n \in M, f[m] = f[n] PROVE m = n
    <2>1. Counted(m, l) = Counted(n, l)
      BY Zenon, <1>6
    <2>2. /\ m[1] = n[1] /\ SearchedImage(m[3]) = SearchedImage(n[3])
          /\ AABB(m[2], FoundAt(pos[m[2]], m[3]), l, D) = AABB(n[2], FoundAt(pos[n[2]], n[3]), l, D)
      BY <2>1 DEF Counted
    <2>3. \A x, y : AABB(x, y, l, D).tag = x /\ AABB(x, y, l, D).at = y
      BY DEF AABB
    <2>4. m[2] = n[2] /\ FoundAt(pos[m[2]], m[3]) = FoundAt(pos[n[2]], n[3])
      <3> DEFINE x == FoundAt(pos[m[2]], m[3])
                 y == FoundAt(pos[n[2]], n[3])
      <3>1. /\ AABB(m[2], x, l, D).tag = m[2] /\ AABB(m[2], x, l, D).at = x
            /\ AABB(n[2], y, l, D).tag = n[2] /\ AABB(n[2], y, l, D).at = y
        BY Zenon, <2>3
      <3> HIDE DEF x, y
      <3>2. m[2] = n[2] /\ x = y
        BY <3>1, <2>2 DEF x, y
      <3> QED
        BY Zenon, <3>2 DEF x, y
    <2>5. m[3] = n[3]
      BY Zenon, <2>2, <2>4, <1>1, <1>3, <1>4, FoundInjective
    <2> QED
      BY Zenon, <2>2, <2>4, <2>5, <1>4
  <1>7. ASSUME NEW c \in C PROVE \E m \in M : f[m] = c
    <2>1. PICK t \in Particles : \E e \in tr[owner[t]], k \in m_image_list :
             /\ c = <<owner[t], t, e, k>> /\ t <= e.tag
             /\ Collides(owner[t], t, pos[t], e, k, l, D)
      BY Zenon, <1>1, CountMember
    <2>2. PICK e \in tr[owner[t]], k \in m_image_list :
             /\ c = <<owner[t], t, e, k>> /\ t <= e.tag
             /\ Collides(owner[t], t, pos[t], e, k, l, D)
      BY Zenon, <2>1
    <2>3. /\ e.tag \in Particles /\ e = AABB(e.tag, e.at, l, D)
          /\ \A s, p : e.tag # s => postype(owner[t], s, p, e) = e.at
          /\ e.at = pos[e.tag] \/ e.at \in Images(pos[e.tag])
      BY SMTT(30), <1>1, <1>2, <1>3, TreeEntries
    <2>4. e.tag # t
      <3>1. SUFFICES ASSUME e.tag = t PROVE FALSE
        BY Zenon
      <3>2. k # <<0, 0>> /\ test_overlap(pos[t], Image(pos[t], k), l, D)
        BY Zenon, <2>2, <3>1 DEF Collides, postype
      <3>3. k \in Around
        BY DEF m_image_list, updateImageList, Around
      <3> QED
        BY Zenon, <3>2, <3>3, <1>1, <1>3, OwnImageApart
    <2>5. test_overlap(e.at, Image(pos[t], k), l, D)
      BY Zenon, <2>2, <2>3, <2>4 DEF Collides
    <2>6. PICK m \in Around : /\ k = SearchedImage(m) /\ e.at = FoundAt(pos[e.tag], m)
                              /\ test_overlap(pos[e.tag], Image(pos[t], m), l, D)
      <3> DEFINE p == pos[t]
                 q == pos[e.tag]
                 i == e.at
      <3>1. /\ WellCut(cuts) /\ p \in Points /\ q \in Points /\ k \in m_image_list
            /\ i = q \/ i \in Images(q)
            /\ test_overlap(i, Image(p, k), l, D)
        BY Zenon, <2>3, <2>5, <1>1, <1>3
      <3> HIDE DEF p, q, i
      <3>2. \E m \in Around : /\ k = SearchedImage(m) /\ i = FoundAt(q, m)
                               /\ test_overlap(q, Image(p, m), l, D)
        BY ONLY <3>1, CountedMeets, Zenon
      <3> QED
        BY Zenon, <3>2 DEF p, q, i
    <2>7. t < e.tag
      <3> DEFINE u == e.tag
      <3>1. t \in Nat /\ u \in Nat /\ t <= u /\ u # t
        BY Zenon, <1>1, <2>2, <2>3, <2>4
      <3> HIDE DEF u
      <3>2. t < u
        BY ONLY <3>1
      <3> QED
        BY Zenon, <3>2 DEF u
    <2> DEFINE x == <<t, e.tag, m>>
    <2>8. x[1] = t /\ x[2] = e.tag /\ x[3] = m
      OBVIOUS
    <2>9. x \in M
      BY <2>3, <2>6, <2>7 DEF Meetings, Around
    <2> HIDE DEF x
    <2>10. Counted(x, l) = c
      BY Zenon, <2>2, <2>3, <2>6, <2>8 DEF Counted
    <2> QED
      BY Zenon, <2>9, <2>10
  <1> HIDE DEF f, C, M
  <1>8. f \in [M -> C]
    BY Zenon, <1>5 DEF f
  <1>9. f \in Bijection(M, C)
    BY Zenon, <1>6, <1>7, <1>8 DEF Bijection, Injection, Surjection, IsInjective
  <1> QED
    BY ZenonT(30), <1>9 DEF f, C, M, tr

\* In a box at least two particles wide there are as many meetings as
\* overlapping pairs.
LEMMA MeetingsArePairs ==
    ASSUME IInv, phase = "updaters", NEW l \in Boxes, \A a \in Axes : 2 * D <= l[a]
    PROVE  LET M == Meetings(pos, l, D)
               g == [m \in M |-> <<m[1], m[2]>>]
           IN  g \in Bijection(M, Overlapping(pos, l, D))
  <1> DEFINE O == Overlapping(pos, l, D)
             M == Meetings(pos, l, D)
             g == [m \in M |-> <<m[1], m[2]>>]
  <1>1. Placed /\ WellCut(cuts) /\ l \in Nat \X Nat /\ D \in Nat
    BY BetweenSweeps, Typed
  <1>2. \A t \in Particles : pos[t] \in Points
    BY <1>1 DEF Placed
  <1>3. ASSUME NEW m \in M
        PROVE  /\ m[1] \in Particles /\ m[2] \in Particles /\ m[3] \in Around /\ m[1] < m[2]
               /\ m = <<m[1], m[2], m[3]>> /\ g[m] = <<m[1], m[2]>>
               /\ test_overlap(pos[m[2]], Image(pos[m[1]], m[3]), l, D)
    BY DEF Meetings, Around
  <1>4. ASSUME NEW m \in M PROVE g[m] \in O
    <2>1. Overlap(pos[m[1]], pos[m[2]], l, D)
      BY Zenon, <1>1, <1>2, <1>3, OverlapMeets
    <2> QED
      BY <2>1, <1>3 DEF Overlapping
  <1>5. ASSUME NEW m \in M, NEW n \in M, g[m] = g[n] PROVE m = n
    <2>1. m[1] = n[1] /\ m[2] = n[2]
      BY <1>3, <1>5
    <2>2. m[3] = n[3]
      BY Zenon, <2>1, <1>1, <1>2, <1>3, OneMeeting
    <2> QED
      BY Zenon, <2>1, <2>2, <1>3
  <1>6. ASSUME NEW s \in O PROVE \E m \in M : g[m] = s
    <2>1. /\ s[1] \in Particles /\ s[2] \in Particles /\ s[1] < s[2] /\ s = <<s[1], s[2]>>
          /\ Overlap(pos[s[1]], pos[s[2]], l, D)
      BY DEF Overlapping
    <2>2. PICK k \in Around : test_overlap(pos[s[2]], Image(pos[s[1]], k), l, D)
      BY Zenon, <2>1, <1>1, <1>2, OverlapMeets
    <2>3. <<s[1], s[2], k>> \in M
      BY <2>1, <2>2 DEF Meetings, Around
    <2>4. g[<<s[1], s[2], k>>] = s
      BY <2>1, <2>3
    <2> QED
      BY Zenon, <2>3, <2>4
  <1> HIDE DEF g, O, M
  <1>7. g \in [M -> O]
    BY Zenon, <1>4 DEF g
  <1>8. g \in Bijection(M, O)
    BY Zenon, <1>5, <1>6, <1>7 DEF Bijection, Injection, Surjection, IsInjective
  <1> QED
    BY ZenonT(30), <1>8 DEF g, O, M

\* The number that the ranks count, in all.
LEMMA CountNumber ==
    ASSUME IInv, phase = "updaters", NEW l \in Boxes, checkBoxSize(l, D)
    PROVE  LET C == countOverlaps(Rebuilt(l), l, D)
           IN  /\ IsFiniteSet(C)
               /\ Cardinality(C) = Cardinality(Meetings(pos, l, D))
               /\ (\A a \in Axes : 2 * D <= l[a]) =>
                    Cardinality(C) = Cardinality(Overlapping(pos, l, D))
  <1> DEFINE C == countOverlaps(Rebuilt(l), l, D)
             M == Meetings(pos, l, D)
             O == Overlapping(pos, l, D)
  <1>1. IsFiniteSet(M)
    BY Zenon, MeetingsFinite
  <1>2. ExistsBijection(M, C)
    BY Zenon, CountMeetings DEF ExistsBijection
  <1>3. ASSUME \A a \in Axes : 2 * D <= l[a] PROVE ExistsBijection(M, O)
    BY Zenon, <1>3, MeetingsArePairs DEF ExistsBijection
  <1> HIDE DEF C, M, O
  <1>4. \A S : ExistsBijection(M, S) => IsFiniteSet(S) /\ Cardinality(M) = Cardinality(S)
    BY ZenonT(30), <1>1, FS_Bijection
  <1> QED
    BY Zenon, <1>2, <1>3, <1>4 DEF C, M, O

\* UpdaterQuickCompress::update.
LEMMA CompressStep ==
    ASSUME IInv, QuickCompress
    PROVE  IInv'
  <1> DEFINE tr == buildAABBTree(ghosts, L, D, tree_invalid)
             n == countOverlaps(tr, L, D)
  <1>1. /\ updater = "QuickCompress" /\ phase = "updaters" /\ UNCHANGED <<conf, pos, owner>>
        /\ judged' = target /\ {target', judged'} \subseteq targets
    BY DEF QuickCompress, IInv, TypeOK
  <1>2. ASSUME NEW l \in newBoxes, performBoxScale(l)
        PROVE  IInv'
    <2>1. l \in Boxes
      BY ZenonT(30) DEF newBoxes
    <2>3. CASE tooSmall(l)
      BY SMTT(30), <2>1, <2>3, <1>1, TooSmallStep
    <2>4. CASE /\ checkBoxSize(l, D) /\ phase' = "update" /\ is_complete' = FALSE
               /\ ~(Cardinality(countOverlaps(Rebuilt(l), l, D)) > max_overlaps)
               /\ UNCHANGED D /\ keep(l)
      <3>1. UNCHANGED <<conf, pos, owner, D>>
        BY ZenonT(30), <2>4, <1>1
      <3>2. max_overlaps = 0 => countOverlaps(Rebuilt(l), l, D) = {}
        <4>1. IsFiniteSet(countOverlaps(Rebuilt(l), l, D))
          BY ZenonT(30), <2>1, <2>4, <1>1, CountNumber
        <4> QED
          BY SMTT(30), <4>1, <2>4, FS_CardinalityType, FS_EmptySet
      <3> QED
        BY <3>1, <3>2, <2>1, <2>4, <1>1, KeepStep, Zenon
    <2>5. CASE phase' = "update" /\ is_complete' = FALSE /\ UNCHANGED D /\ undo(l)
      <3>1. UNCHANGED <<conf, pos, owner, D>>
        BY <2>5, <1>1
      <3> QED
        BY <3>1, <2>1, <2>5, <1>1, UndoStep, Zenon
    <2> QED
      BY <2>3, <2>4, <2>5, <1>2, Zenon DEF performBoxScale
  <1>3. ASSUME n # {} \/ L = target, is_complete' = (n = {}), phase' = "update",
               tree' = tr, tree_invalid' = AllValid, UNCHANGED <<L, D, ghosts>>
        PROVE  IInv'
    <2>1. is_complete' \in BOOLEAN
      BY ZenonT(30), <1>3
    <2>2. is_complete' => n = {} /\ L = judged'
      BY <1>1, <1>3, Zenon
    <2>3. is_complete' => Overlapping(pos, L, D) = {}
      BY ZenonT(30), <2>2, <1>1, NoneCounted
    <2>4. UNCHANGED <<conf, pos, owner, L, D, ghosts>>
      BY ZenonT(30), <1>1, <1>3
    <2> QED
      BY SMTT(30), <2>1, <2>2, <2>3, <2>4, <1>1, <1>3, ReportStep
  <1> QED
    BY ZenonT(30), <1>2, <1>3 DEF QuickCompress

-----------------------------------------------------------------------------
(***************************************************************************)
(* The theorems.                                                           *)
(***************************************************************************)

\* Every step keeps the inductive invariant of the sweeps and the updaters.
THEOREM Step ==
    ASSUME SerialShapes, IInv, [Next]_vars
    PROVE  IInv'
  <1>1. CASE prepRun
    BY <1>1, PrepRunStep
  <1>2. CASE startUpdate
    BY ZenonT(30), <1>2, StartUpdateStep
  <1>3. CASE \E t \in Particles, v \in Moves : trial(t, v)
    BY <1>3, TrialStep
  <1>4. CASE \E v \in Shifts : endUpdate(v)
    BY ZenonT(30), <1>4, EndUpdateStep
  <1>5. CASE \E l \in Boxes : box_resize_trial(l)
    BY <1>5, BoxStep
  <1>6. CASE QuickCompress
    BY ZenonT(30), <1>6, CompressStep
  <1>7. CASE \E d \in Diameters : shapeMove(d)
    BY ZenonT(30), <1>7, ShapeStep
  <1>8. CASE UNCHANGED vars
    BY ZenonT(30), <1>8, StutterStep
  <1> QED
    BY SMTT(30), <1>1, <1>2, <1>3, <1>4, <1>5, <1>6, <1>7, <1>8 DEF Next

\* IInv is an invariant, whatever the decomposition: the ghosts of particles
\* that cannot move stay current during IntegratorHPMCMono::update.
THEOREM Invariance ==
    ASSUME SerialShapes
    PROVE  Spec => []IInv
  <1>1. Init => IInv
    BY ZenonT(30), InitStep
  <1>2. IInv /\ [Next]_vars => IInv'
    BY ZenonT(30), Step
  <1> QED
    BY <1>1, <1>2, PTL DEF Spec

\* No two particles ever overlap, on whichever ranks and through whichever
\* boundary (IntegratorHPMCMono::update, UpdaterBoxMC, UpdaterQuickCompress
\* without allowed overlaps, UpdaterShape on one rank).
THEOREM NeverOverlap ==
    ASSUME SerialShapes
    PROVE  Spec => []NoOverlap
  <1>1. IInv => NoOverlap
    BY ZenonT(30) DEF IInv
  <1> QED
    BY <1>1, Invariance, PTL

\* A tree that is searched is current (buildAABBTree, m_aabb_tree.update).
THEOREM TreesAlwaysCurrent ==
    ASSUME SerialShapes
    PROVE  Spec => []TreeCurrent
  <1>1. IInv => TreeCurrent
    BY Zenon DEF IInv
  <1> QED
    BY <1>1, Invariance, PTL

\* UpdaterQuickCompress reports completion only when it is done: with the
\* target of the update that made the report, for every target that varies, and
\* no particles overlap while the report stands.
THEOREM CompleteAlwaysDone ==
    ASSUME SerialShapes
    PROVE  Spec => []CompleteMeansDone
  <1>1. IInv => CompleteMeansDone
    BY Zenon DEF IInv
  <1> QED
    BY <1>1, Invariance, PTL

\* No step makes an overlap while box and shape stay: the parallel trial moves
\* and grid shifts of IntegratorHPMCMono::update only remove overlaps.
THEOREM OverlapsVanish ==
    ASSUME SerialShapes
    PROVE  Spec => OverlapsOnlyVanish
  <1>1. ASSUME IInv, [Next]_vars
        PROVE  [L' = L /\ D' = D =>
                  Overlapping(pos', L, D) \subseteq Overlapping(pos, L, D)]_vars
    <2>1. CASE \E t \in Particles, v \in Moves : trial(t, v)
      BY ZenonT(30), <2>1, <1>1, TrialVanish
    <2>2. CASE \E v \in Shifts : endUpdate(v)
      BY <2>2, <1>1, ShiftVanish
    <2>3. CASE pos' = pos
      BY ZenonT(30), <2>3
    <2> QED
      BY SMTT(30), <2>1, <2>2, <2>3, <1>1
        DEF Next, prepRun, startUpdate, box_resize_trial, QuickCompress, shapeMove, vars
  <1> QED
    BY <1>1, Invariance, PTL DEF Spec, OverlapsOnlyVanish

\* countOverlaps, summed over the ranks, is the number of overlaps of particles
\* and images, and of overlapping pairs in a box two particles wide, for every
\* box that an updater may try (UpdaterBoxMC, UpdaterQuickCompress).
THEOREM CountAlwaysExact ==
    ASSUME SerialShapes
    PROVE  Spec => []CountExact
  <1>1. IInv => CountExact
    BY ZenonT(30), CountNumber DEF CountExact
  <1> QED
    BY <1>1, Invariance, PTL

\* The typing of the state: positions stay in the box (Moved wraps them) and
\* particles, ghosts and trees on the ranks of the decomposition.
THEOREM AlwaysTyped ==
    ASSUME SerialShapes
    PROVE  Spec => []TypeOK
  <1>1. IInv => TypeOK
    BY Zenon DEF IInv
  <1> QED
    BY <1>1, Invariance, PTL

=============================================================================
