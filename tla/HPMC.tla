-------------------------------- MODULE HPMC --------------------------------
(***************************************************************************)
(* Hard particle Monte Carlo on a decomposed box: the sweep of            *)
(* IntegratorHPMCMono::update on every rank, the grid shift and the        *)
(* communication that end it, and the three updaters that run between the  *)
(* sweeps (UpdaterBoxMC, UpdaterQuickCompress and UpdaterShape).           *)
(*                                                                         *)
(* The ranks sweep without exchanging a message.  A rank knows its own     *)
(* particles and the ghosts of the last exchange, and moves a particle     *)
(* only inside its active region: the domain without a strip, as wide as   *)
(* the ghost layer, along its upper faces.  The correctness of the whole   *)
(* method is that no two ranks can move particles onto each other.         *)
(*                                                                         *)
(* Positions are fractions of the global box, in units of 1/F(a) along     *)
(* axis a, so that rescaling the box changes L and no position.  The       *)
(* particles are aligned squares of edge D in two dimensions: AABB and     *)
(* shape coincide.  A Metropolis factor is a nondeterministic choice.      *)
(***************************************************************************)
EXTENDS Integers, Sequences, FiniteSets

CONSTANTS
    Setups,         \* simulations: a decomposition, the updater in use, the overlaps a
                    \* compression may leave and the boxes its target may take
    Particles,      \* the tags
    Boxes,          \* box lengths <<Lx, Ly>> an updater may choose
    Diameters,      \* diameters a shape may have
    Moves,          \* displacements of a trial move
    Shifts          \* grid shifts

Axes == {1, 2}

Abs(x) == IF x < 0 THEN -x ELSE x

\* The domain boundaries along each axis rise from 0, and the domains cover
\* the box.
WellCut(c) ==
    /\ c \in Seq(Nat) \X Seq(Nat)
    /\ \A a \in Axes :
         /\ Len(c[a]) >= 2
         /\ c[a][1] = 0
         /\ \A i, j \in 1 .. Len(c[a]) : i < j => c[a][i] < c[a][j]
         /\ \A x \in 0 .. c[a][Len(c[a])] - 1 :
              \E i \in 1 .. Len(c[a]) - 1 : c[a][i] <= x /\ x < c[a][i + 1]

ASSUME SetupsAssumption ==
    /\ Setups \subseteq [cuts : Seq(Nat) \X Seq(Nat), max_overlaps : Nat,
                         updater : {"BoxMC", "QuickCompress", "Shape"},
                         targets : SUBSET (Nat \X Nat)]
    /\ \A s \in Setups : WellCut(s.cuts)

\* A particle is smaller than the box.
ASSUME SizesAssumption ==
    /\ Particles \subseteq Nat /\ IsFiniteSet(Particles)
    /\ Boxes \subseteq Nat \X Nat
    /\ Diameters \subseteq Nat
    /\ \A b \in Boxes, d \in Diameters, a \in Axes : 0 < d /\ d < b[a]

\* limitMoveDistances: no displacement exceeds the box.
ASSUME MovesAssumption ==
    /\ Moves \subseteq Int \X Int
    /\ Shifts \subseteq Int \X Int
    /\ \A s \in Setups, v \in Moves \cup Shifts, a \in Axes :
         Abs(v[a]) <= s.cuts[a][Len(s.cuts[a])]

VARIABLES
    cuts,           \* for each axis the domain boundaries, the last one is F(a)
    updater,        \* the updater in use
    max_overlaps,   \* m_max_overlaps_per_particle * N of UpdaterQuickCompress
    targets,        \* the boxes that m_target_box may give, one for a constant target
    target,         \* (*m_target_box)(timestep): the target box of the present step
    judged,         \* the target box with which the last compression update was made;
                    \* kept only to state what its report means
    L,              \* the lengths of the global box
    D,              \* the diameter of the shape, and so m_nominal_width
    pos,            \* the position of every particle
    owner,          \* the rank that holds it
    ghosts,         \* for each rank the ghosts of the last exchange
    tree,           \* for each rank the boxes in m_aabb_tree
    tree_invalid,   \* for each rank m_aabb_tree_invalid
    is_complete,    \* m_is_complete of UpdaterQuickCompress
    phase           \* what all ranks are doing

conf == <<cuts, updater, max_overlaps, targets>>
vars == <<conf, target, judged, L, D, pos, owner, ghosts, tree, tree_invalid, is_complete,
          phase>>

-----------------------------------------------------------------------------
(***************************************************************************)
(* The decomposition.                                                      *)
(***************************************************************************)
Extent(a) == Len(cuts[a]) - 1

Ranks == (0 .. Extent(1) - 1) \X (0 .. Extent(2) - 1)

F(a) == cuts[a][Len(cuts[a])]

Lo(r, a) == cuts[a][r[a] + 1]

Hi(r, a) == cuts[a][r[a] + 2]

isDomainDecomposed == \E a \in Axes : Extent(a) > 1

\* Slip: the upper face counts as inside.
wrap_UpperFace(x, a) == IF x < 0 THEN x + F(a) ELSE IF x > F(a) THEN x - F(a) ELSE x

wrap(x, a) == IF x < 0 THEN x + F(a) ELSE IF x >= F(a) THEN x - F(a) ELSE x

Moved(p, v) == <<wrap(p[1] + v[1], 1), wrap(p[2] + v[2], 2)>>

InDomain(r, p) == \A a \in Axes : Lo(r, a) <= p[a] /\ p[a] < Hi(r, a)

Holder(p) == CHOOSE r \in Ranks : InDomain(r, p)

-----------------------------------------------------------------------------
(***************************************************************************)
(* The ghost layer.  Along a decomposed axis a particle may also reach a   *)
(* rank through the periodic boundary.  The exchange delivers the images   *)
(* within the layer (module GhostExchange is about how).                   *)
(***************************************************************************)
Turns(a) == IF Extent(a) > 1 THEN {-1, 0, 1} ELSE {0}

Images(p) == {<<p[1] + j * F(1), p[2] + k * F(2)>> : j \in Turns(1), k \in Turns(2)}

InLayer(r, q, l, w) ==
    \A a \in Axes : Extent(a) > 1 => /\ (Lo(r, a) - q[a]) * l[a] <= w * F(a)
                                     /\ (q[a] - Hi(r, a)) * l[a] < w * F(a)

Ghost(t, q) == [tag |-> t, pos |-> q]

exchangeGhosts(p, o, l, w) ==
    [r \in Ranks |-> UNION {{Ghost(t, q) : q \in {i \in Images(p[t]) : InLayer(r, i, l, w)}} :
                              t \in {u \in Particles : o[u] # r}}]

checkBoxSize(l, w) ==
    \A r \in Ranks : \A a \in Axes :
        Extent(a) > 1 => 2 * w * F(a) < (Hi(r, a) - Lo(r, a)) * l[a]

-----------------------------------------------------------------------------
(***************************************************************************)
(* The search for overlaps.  A rank looks up candidates in its tree, whose *)
(* boxes were computed when it was built, and tests them with the present  *)
(* data.  Periodic images are tried along the axes that are not            *)
(* decomposed.                                                             *)
(***************************************************************************)
\* What an invalid tree holds is never read, and the model leaves it empty.
AllInvalid == [r \in Ranks |-> TRUE]

AllValid == [r \in Ranks |-> FALSE]

NoTrees == [r \in Ranks |-> {}]

AABB(t, p, l, d) == [tag |-> t, at |-> p, L |-> l, D |-> d]

AABBs(r, gh, l, d) ==
    {AABB(t, pos[t], l, d) : t \in {u \in Particles : owner[u] = r}}
      \cup {AABB(g.tag, g.pos, l, d) : g \in gh[r]}

buildAABBTree(gh, l, d, invalid) ==
    [r \in Ranks |-> IF invalid[r] THEN AABBs(r, gh, l, d) ELSE tree[r]]

updateImageList(a) == IF Extent(a) > 1 THEN {0} ELSE {-1, 0, 1}

m_image_list == updateImageList(1) \X updateImageList(2)

Image(p, k) == <<p[1] + k[1] * F(1), p[2] + k[2] * F(2)>>

\* The nodes of the tree only grow, which adds candidates that test_overlap
\* dismisses; the model keeps the exact boxes.
overlaps(e, p, l, d) ==
    \A a \in Axes : 2 * Abs(e.at[a] * e.L[a] - p[a] * l[a]) <= (e.D + d) * F(a)

test_overlap(q, p, l, d) == \A a \in Axes : Abs(q[a] - p[a]) * l[a] < d * F(a)

\* What a node stands for when particle t is tried at p: t itself is there, and
\* a ghost stays where it is until the next exchange.
postype(r, t, p, e) ==
    IF e.tag = t THEN p ELSE IF owner[e.tag] = r THEN pos[e.tag] ELSE e.at

\* Particle t, tried at p and shifted to one image, meets a node of the tree.
Collides(r, t, p, e, k, l, d) ==
    /\ e.tag = t => k # <<0, 0>>
    /\ overlaps(e, Image(p, k), l, d)
    /\ test_overlap(postype(r, t, p, e), Image(p, k), l, d)

\* Slip: both ranks count a pair that they share.
countOverlaps_BothSides(tr, l, d) ==
    {c \in UNION {{<<r, t, e, k>> : t \in Particles, e \in tr[r], k \in m_image_list} :
                    r \in Ranks} :
        /\ owner[c[2]] = c[1]
        /\ Collides(c[1], c[2], pos[c[2]], c[3], c[4], l, d)}

\* One element for each time the loop over particles, images and nodes adds
\* to overlap_count.
countOverlaps(tr, l, d) ==
    {c \in UNION {{<<r, t, e, k>> : t \in Particles, e \in tr[r], k \in m_image_list} :
                    r \in Ranks} :
        /\ owner[c[2]] = c[1]
        /\ c[2] <= c[3].tag
        /\ Collides(c[1], c[2], pos[c[2]], c[3], c[4], l, d)}

-----------------------------------------------------------------------------
(***************************************************************************)
(* The true overlaps of the system: what no rank sees as a whole.          *)
(***************************************************************************)
Overlap(p, q, l, d) ==
    \A a \in Axes : \E k \in {-1, 0, 1} : Abs(p[a] - q[a] + k * F(a)) * l[a] < d * F(a)

Overlapping(p, l, d) ==
    {s \in Particles \X Particles : s[1] < s[2] /\ Overlap(p[s[1]], p[s[2]], l, d)}

\* The overlaps of a particle with another one or with an image of it: a pair
\* may meet through several boundaries of a box less than two particles wide.
Meetings(p, l, d) ==
    {m \in Particles \X Particles \X ({-1, 0, 1} \X {-1, 0, 1}) :
        m[1] < m[2] /\ test_overlap(p[m[2]], Image(p[m[1]], m[3]), l, d)}

-----------------------------------------------------------------------------
Points == (0 .. F(1) - 1) \X (0 .. F(2) - 1)

Init ==
    /\ \E s \in Setups : /\ cuts = s.cuts
                         /\ updater = s.updater
                         /\ max_overlaps = s.max_overlaps
                         /\ targets = s.targets
    /\ target \in targets
    /\ judged = target
    /\ L \in Boxes
    /\ D \in Diameters
    /\ pos \in [Particles -> Points]
    /\ Overlapping(pos, L, D) = {}
    /\ owner = [t \in Particles |-> Holder(pos[t])]
    /\ ghosts = [r \in Ranks |-> {}]
    /\ tree = NoTrees
    /\ tree_invalid = AllInvalid
    /\ is_complete = FALSE
    /\ phase = "prepRun"

(***************************************************************************)
(* communicate(true): migrateParticles and exchangeGhosts, with the        *)
(* positions p.  On one rank it does nothing, and so do these equations.   *)
(***************************************************************************)
migrate(p) ==
    IF checkBoxSize(L, D)
      THEN /\ phase' = "updaters"
           /\ owner' = [t \in Particles |-> Holder(p[t])]
           /\ ghosts' = exchangeGhosts(p, owner', L, D)
      ELSE /\ phase' = "error"
           /\ UNCHANGED <<owner, ghosts>>

prepRun ==
    /\ phase = "prepRun"
    /\ migrate(pos)
    /\ tree_invalid' = AllInvalid
    /\ tree' = NoTrees
    /\ UNCHANGED <<conf, target, judged, L, D, pos, is_complete>>

-----------------------------------------------------------------------------
(***************************************************************************)
(* IntegratorHPMCMono::update.                                             *)
(***************************************************************************)
\* Slip: a particle of the strip along the upper faces is moved as well.
isActive_WholeDomain(r, p) ==
    \A a \in Axes : Extent(a) > 1 => Lo(r, a) <= p[a] /\ p[a] < Hi(r, a)

isActive(r, p) ==
    \A a \in Axes : Extent(a) > 1 => /\ Lo(r, a) <= p[a]
                                     /\ (Hi(r, a) - p[a]) * L[a] > D * F(a)

startUpdate ==
    /\ phase \in {"updaters", "update"}
    /\ phase' = "sweep"
    /\ tree' = buildAABBTree(ghosts, L, D, tree_invalid)
    /\ tree_invalid' = AllValid
    /\ UNCHANGED <<conf, target, judged, L, D, pos, owner, ghosts, is_complete>>

\* Slip: the tree keeps the box of the old position.
Updated_NotInTree(r, t, p) == tree[r]

\* m_aabb_tree.update.
Updated(r, t, p) == {e \in tree[r] : e.tag # t} \cup {AABB(t, p, L, D)}

\* A trial move that is accepted; one that is rejected changes nothing.
trial(t, v) ==
    LET r == owner[t]
        p == Moved(pos[t], v)
    IN  /\ phase = "sweep"
        /\ isActive(r, pos[t])
        /\ isActive(r, p)
        /\ \A e \in tree[r], k \in m_image_list : ~Collides(r, t, p, e, k, L, D)
        /\ pos' = [pos EXCEPT ![t] = p]
        /\ tree' = [tree EXCEPT ![r] = Updated(r, t, p)]
        /\ UNCHANGED <<conf, target, judged, L, D, owner, ghosts, tree_invalid, is_complete,
                       phase>>

\* The end of update on all ranks: the grid shift, the same on every rank,
\* and communicate(true).  It ends the time step: a target that varies has
\* its next value, and setTargetBox may have replaced it, before the updaters
\* run again.
endUpdate(s) ==
    /\ phase = "sweep"
    /\ IF isDomainDecomposed THEN \A a \in Axes : 2 * Abs(s[a]) * L[a] <= D * F(a)
                             ELSE s = <<0, 0>>
    /\ pos' = [t \in Particles |-> Moved(pos[t], s)]
    /\ migrate(pos')
    /\ tree_invalid' = AllInvalid
    /\ tree' = NoTrees
    /\ target' \in targets
    /\ UNCHANGED <<conf, judged, L, D, is_complete>>

-----------------------------------------------------------------------------
(***************************************************************************)
(* The updaters.  Both box updaters call attemptBoxResize: it scales the   *)
(* positions, sets the box, which invalidates the tree (slotBoxChanged),   *)
(* exchanges the ghosts anew without migrating (communicate(false)) and    *)
(* counts the overlaps, for which it builds the tree.                      *)
(***************************************************************************)
Resized(l) == exchangeGhosts(pos, owner, l, D)

Rebuilt(l) == buildAABBTree(Resized(l), l, D, AllInvalid)

tooSmall(l) ==
    /\ ~checkBoxSize(l, D)
    /\ L' = l
    /\ phase' = "error"
    /\ tree_invalid' = AllInvalid
    /\ tree' = NoTrees
    /\ UNCHANGED <<D, ghosts, is_complete>>

\* The new box stays.
keep(l) ==
    /\ L' = l
    /\ ghosts' = Resized(l)
    /\ tree' = Rebuilt(l)
    /\ tree_invalid' = AllValid

\* Slip: setting the old box again does not invalidate the tree.
undo_TreeStaysValid(l) ==
    /\ L' = L
    /\ ghosts' = Resized(L)
    /\ tree' = Rebuilt(l)
    /\ tree_invalid' = AllValid

\* The old box and positions are restored and communicated.
undo(l) ==
    /\ L' = L
    /\ ghosts' = Resized(L)
    /\ tree' = NoTrees
    /\ tree_invalid' = AllInvalid

box_resize_trial(l) ==
    /\ updater = "BoxMC"
    /\ phase = "updaters"
    /\ \/ tooSmall(l)
       \/ /\ checkBoxSize(l, D)
          /\ phase' = "update"
          /\ \/ countOverlaps(Rebuilt(l), l, D) = {} /\ keep(l)
             \/ undo(l)
          /\ UNCHANGED <<D, is_complete>>
    /\ UNCHANGED <<conf, target, judged, pos, owner>>

Between(x, y, z) == (x <= y /\ y <= z) \/ (z <= y /\ y <= x)

\* getNewBox: the lengths move towards the target and not past it.
newBoxes == {l \in Boxes : l # L /\ \A a \in Axes : Between(L[a], l[a], target[a])}

performBoxScale(l) ==
    \/ tooSmall(l)
    \/ /\ checkBoxSize(l, D)
       /\ phase' = "update"
       /\ IF Cardinality(countOverlaps(Rebuilt(l), l, D)) > max_overlaps THEN undo(l) ELSE keep(l)
       /\ is_complete' = FALSE
       /\ UNCHANGED D

\* Slip: completeness is judged with the box after the scaling.
QuickCompress_JudgedLate ==
    LET tr == buildAABBTree(ghosts, L, D, tree_invalid)
        n  == countOverlaps(tr, L, D)
    IN  /\ updater = "QuickCompress"
        /\ phase = "updaters"
        /\ \/ /\ n = {} /\ L # target
              /\ \E l \in newBoxes : /\ checkBoxSize(l, D)
                                      /\ keep(l)
                                      /\ is_complete' = (l = target)
              /\ phase' = "update"
              /\ UNCHANGED D
           \/ /\ n # {} \/ L = target
              /\ is_complete' = (n = {})
              /\ phase' = "update"
              /\ tree' = tr
              /\ tree_invalid' = AllValid
              /\ UNCHANGED <<L, D, ghosts>>
        /\ judged' = target
        /\ UNCHANGED <<conf, target, pos, owner>>

\* UpdaterQuickCompress::update.
QuickCompress ==
    LET tr == buildAABBTree(ghosts, L, D, tree_invalid)
        n  == countOverlaps(tr, L, D)
    IN  /\ updater = "QuickCompress"
        /\ phase = "updaters"
        /\ \/ /\ n = {} /\ L # target
              /\ \E l \in newBoxes : performBoxScale(l)
           \/ /\ n # {} \/ L = target
              /\ is_complete' = (n = {})
              /\ phase' = "update"
              /\ tree' = tr
              /\ tree_invalid' = AllValid
              /\ UNCHANGED <<L, D, ghosts>>
        /\ judged' = target
        /\ UNCHANGED <<conf, target, pos, owner>>

\* UpdaterShape::update: setParam changes the nominal width and invalidates
\* the tree, and nothing is communicated before the overlaps are counted.
shapeMove(d) ==
    LET tr == buildAABBTree(ghosts, L, d, AllInvalid)
    IN  /\ updater = "Shape"
        /\ phase = "updaters"
        /\ phase' = "update"
        /\ \/ /\ countOverlaps(tr, L, d) = {}
              /\ D' = d
              /\ tree' = tr
              /\ tree_invalid' = AllValid
           \/ /\ D' = D
              /\ tree' = NoTrees
              /\ tree_invalid' = AllInvalid
        /\ UNCHANGED <<conf, target, judged, L, pos, owner, ghosts, is_complete>>

Next ==
    \/ prepRun
    \/ startUpdate
    \/ \E t \in Particles, v \in Moves : trial(t, v)
    \/ \E s \in Shifts : endUpdate(s)
    \/ \E l \in Boxes : box_resize_trial(l)
    \/ QuickCompress
    \/ \E d \in Diameters : shapeMove(d)

Spec == Init /\ [][Next]_vars

-----------------------------------------------------------------------------
(***************************************************************************)
(* Properties.                                                             *)
(***************************************************************************)
\* The positions lie in the box (box.wrap) and every particle, ghost and
\* node of a tree belongs to a rank of the decomposition.
TypeOK ==
    /\ [cuts |-> cuts, updater |-> updater, max_overlaps |-> max_overlaps,
        targets |-> targets] \in Setups
    /\ {target, judged} \subseteq targets
    /\ L \in Boxes /\ D \in Diameters
    /\ pos \in [Particles -> Points]
    /\ owner \in [Particles -> Ranks]
    /\ DOMAIN ghosts = Ranks
    /\ \A r \in Ranks : ghosts[r] \subseteq [tag : Particles, pos : Int \X Int]
    /\ DOMAIN tree = Ranks
    /\ \A r \in Ranks :
         tree[r] \subseteq [tag : Particles, at : Int \X Int, L : Boxes, D : Diameters]
    /\ tree_invalid \in [Ranks -> BOOLEAN]
    /\ is_complete \in BOOLEAN
    /\ phase \in {"prepRun", "updaters", "update", "sweep", "error"}

\* No two particles overlap, on whichever ranks they are and through whichever
\* boundary, although the ranks move particles at the same time and accept a
\* box by counting what each of them sees (IntegratorHPMCMono::update,
\* UpdaterBoxMC), and a shape on one rank (UpdaterShape; on several ranks the
\* ghost layer of the old shape is too thin to count with).  A compression may
\* be told to leave overlaps.
NoOverlap == phase # "error" /\ max_overlaps = 0 => Overlapping(pos, L, D) = {}

\* While the box and the shape stay, no step makes a new overlap: trial moves
\* of any ranks, grid shift, migration and exchange only remove the overlaps
\* that a compression left (UpdaterQuickCompress relies on it to finish).
OverlapsOnlyVanish ==
    [][L' = L /\ D' = D => Overlapping(pos', L, D) \subseteq Overlapping(pos, L, D)]_vars

\* Summed over the ranks, countOverlaps counts every overlap of a particle with
\* another one, or with an image of it, exactly once, also one that two ranks see
\* or that crosses the boundary, for each box that an updater may try in this
\* state; in a box at least two particles wide that is every overlapping pair
\* once.
CountExact ==
    phase = "updaters" =>
        \A l \in Boxes : checkBoxSize(l, D) =>
            LET n == Cardinality(countOverlaps(Rebuilt(l), l, D))
            IN  /\ n = Cardinality(Meetings(pos, l, D))
                /\ (\A a \in Axes : 2 * D <= l[a]) => n = Cardinality(Overlapping(pos, l, D))

\* A tree that is not marked invalid holds the boxes of the present particles,
\* ghosts, box and shape ("erroneous simulations will result" otherwise, says
\* buildAABBTree).
TreeCurrent ==
    phase # "error" => \A r \in Ranks : ~tree_invalid[r] => tree[r] = AABBs(r, ghosts, L, D)

\* UpdaterQuickCompress reports completion only if its last update found the box
\* at the target of that time step, and while the report stands the box is still
\* that one and no particles overlap, whatever moves, grid shifts and
\* migrations followed.
CompleteMeansDone ==
    phase # "error" /\ is_complete => L = judged /\ Overlapping(pos, L, D) = {}

\* What update.py says of `complete`: the box is the target evaluated at the
\* current time step.  It fails between updates when the target varies, because
\* m_is_complete changes only in UpdaterQuickCompress::update.
CompleteIsCurrent == phase # "error" /\ is_complete => L = target

\* A particle that its rank may not move is known, where it is now, to every
\* rank whose ghost layer reaches it.
InactiveKnown ==
    \A r \in Ranks, t \in Particles :
        owner[t] # r /\ ~isActive(owner[t], pos[t]) =>
            \A q \in Images(pos[t]) : InLayer(r, q, L, D) => Ghost(t, q) \in ghosts[r]

\* The inductive invariant: during a sweep of IntegratorHPMCMono::update the
\* ghosts of particles that cannot move are current, between the sweeps all
\* ghosts are; every particle is in its owner's domain; the tree is current.
IInv ==
    /\ TypeOK
    /\ phase # "error" => \A t \in Particles : InDomain(owner[t], pos[t])
    /\ \A r \in Ranks : \A g \in ghosts[r] : owner[g.tag] # r
    /\ phase \in {"updaters", "update", "sweep"} => checkBoxSize(L, D)
    /\ phase \in {"updaters", "update"} => ghosts = exchangeGhosts(pos, owner, L, D)
    /\ phase = "sweep" => InactiveKnown /\ tree_invalid = AllValid
    /\ TreeCurrent
    /\ is_complete => updater = "QuickCompress"
    /\ CompleteMeansDone
    /\ NoOverlap

=============================================================================
