--------------------------- MODULE GroupMigration ---------------------------
(***************************************************************************)
(* The migration of bonded groups with their particles: the loop over the  *)
(* six directions of Communicator::migrateParticles and, in each of them,  *)
(* GroupCommunicator::migrateGroups (Communicator.cc).  Every rank stores, *)
(* with each of its groups, the rank of every member.  A direction has     *)
(* three exchanges: the new ranks of members that leave (phase 1), the     *)
(* groups themselves (phase 2), and the particles.  A rank waits for all   *)
(* its neighbors in each of them and its messages are consumed by the      *)
(* matching receive, so an exchange is one step here.                      *)
(*                                                                         *)
(* Only which groups a rank stores is kept, not their order in its table,  *)
(* which is in BondedGroupData.  Positions are the offset of a particle,   *)
(* in domains, from the domain of its owner.                               *)
(***************************************************************************)
EXTENDS Integers, Sequences, FiniteSets

CONSTANTS
  W, H, D,     \* the domain grid (m_nx, m_ny, m_nz)
  cart_ranks,  \* m_cart_ranks: the rank of each grid index
  Particles,   \* the particle tags
  Members,     \* Members[g]: the members of group g, in order
  UIntSize,    \* the number of values of an unsigned int
  CrossLow     \* may particles cross the lower faces of the global box?

Groups == DOMAIN Members

Ranks == 0..W*H*D-1

ASSUME GroupMigrationAssumption ==
  /\ W \in Nat \ {0} /\ H \in Nat \ {0} /\ D \in Nat \ {0}
  /\ cart_ranks \in [Ranks -> Ranks]
  /\ \A n, m \in Ranks : cart_ranks[n] = cart_ranks[m] => n = m
  /\ \A g \in Groups : Members[g] \in Seq(Particles)
  /\ UIntSize \in Nat /\ UIntSize > 2 * W * H * D
  /\ CrossLow \in BOOLEAN

VARIABLES
  owner,           \* owner[p]: the rank that owns particle p
  offset,          \* offset[p][a]: where p is along axis a, seen from its owner
  dir,             \* the direction being migrated, Done outside migrateParticles
  phase,           \* the exchange the direction has come to
  added,           \* the groups in the system
  held,            \* held[r]: the groups rank r stores
  m_group_ranks,   \* m_group_ranks[r][g][i]: the rank of member i of g, as r has it
  m_bonds_changed  \* rank information needs to be refreshed (the same on all ranks)

vars == <<owner, offset, dir, phase, added, held, m_group_ranks, m_bonds_changed>>

Done == 6

Axes == 1..3

Extent == <<W, H, D>>

Axis(d) == (d \div 2) + 1

Sign(d) == IF d % 2 = 0 THEN 1 ELSE -1

(* Index3D::operator(), in unsigned arithmetic, and getTriple.             *)
Index(c) == ((c[3] * H + c[2]) * W + c[1]) % UIntSize

Triple(n) == <<n % W, (n \div W) % H, n \div (W * H)>>

GridPos == [r \in Ranks |-> Triple(CHOOSE n \in Ranks : cart_ranks[n] = r)]

(* DomainDecomposition::getNeighborRank.                                   *)
Shifted(r, step) == [a \in Axes |-> (GridPos[r][a] + step[a]) % Extent[a]]

getNeighborRank == [r \in Ranks |-> [d \in 0..Done-1 |->
  cart_ranks[Index(Shifted(r, [a \in Axes |-> IF a = Axis(d) THEN Sign(d) ELSE 0]))]]]

isCommunicating(d) == Extent[Axis(d)] # 1

NextDir(d) ==
  LET later == {e \in d..Done-1 : isCommunicating(e)} IN
  IF later = {} THEN Done ELSE CHOOSE e \in later : \A f \in later : e <= f

(* initializeNeighborArrays: the ranks of the surrounding domains.         *)
Steps == {s \in [Axes -> -1..1] : \A a \in Axes : Extent[a] = 1 => s[a] = 0}

UniqueNeighbors == [r \in Ranks |->
  {cart_ranks[Index(Shifted(r, s))] : s \in {t \in Steps : \E a \in Axes : t[a] # 0}}]

-----------------------------------------------------------------------------
Idx(g) == DOMAIN Members[g]

isLocal(r, g, i) == owner[Members[g][i]] = r

(* The comm flag of a particle in the current direction.                   *)
leaves(p) == offset[p][Axis(dir)] = Sign(dir)

HasLocalMember(r, g) == \E i \in Idx(g) : isLocal(r, g, i)

Zeros(g) == [i \in Idx(g) |-> 0]

Init ==
  /\ owner \in [Particles -> Ranks]
  /\ offset = [p \in Particles |-> [a \in Axes |-> 0]]
  /\ dir = Done
  /\ phase = "ranks"
  /\ added = {}
  /\ held = [r \in Ranks |-> {}]
  /\ m_group_ranks = [r \in Ranks |-> [g \in Groups |-> Zeros(g)]]
  /\ m_bonds_changed = TRUE

(* BondedGroupData::addBondedGroup, with the ranks "initialize[d] with     *)
(* zero", and Communicator::setBondsChanged.                               *)
addBondedGroup(g) ==
  /\ dir = Done
  /\ g \notin added
  /\ added' = added \cup {g}
  /\ held' = [r \in Ranks |-> IF HasLocalMember(r, g) THEN held[r] \cup {g} ELSE held[r]]
  /\ m_group_ranks' = [r \in Ranks |-> [m_group_ranks[r] EXCEPT ![g] = Zeros(g)]]
  /\ m_bonds_changed' = TRUE
  /\ UNCHANGED <<owner, offset, dir, phase>>

(* Slip: observers are not notified.                                       *)
moveParticleGroups_Silent(p, new_rank) ==
  LET old_rank == owner[p]
      of_p == {g \in held[old_rank] : \E i \in Idx(g) : Members[g][i] = p}
      stays(g) == \E i \in Idx(g) : Members[g][i] # p /\ isLocal(old_rank, g, i)
      gone == {g \in of_p : ~stays(g)}
      new == of_p \ held[new_rank]
  IN
  /\ dir = Done
  /\ new_rank # old_rank
  /\ owner' = [owner EXCEPT ![p] = new_rank]
  /\ held' = [held EXCEPT ![old_rank] = @ \ gone, ![new_rank] = @ \cup new]
  /\ m_group_ranks' = [m_group_ranks EXCEPT
       ![old_rank] = [g \in Groups |-> IF g \in gone THEN Zeros(g) ELSE @[g]],
       ![new_rank] = [g \in Groups |-> IF g \in new THEN Zeros(g) ELSE @[g]]]
  /\ UNCHANGED <<offset, dir, phase, added, m_bonds_changed>>

(* ParticleData::setPosition across domains, with moveParticleGroups: the  *)
(* old rank keeps the groups that still have a member there, the new rank  *)
(* takes those it does not have, their ranks zero.                         *)
moveParticleGroups(p, new_rank) ==
  LET old_rank == owner[p]
      of_p == {g \in held[old_rank] : \E i \in Idx(g) : Members[g][i] = p}
      stays(g) == \E i \in Idx(g) : Members[g][i] # p /\ isLocal(old_rank, g, i)
      gone == {g \in of_p : ~stays(g)}
      new == of_p \ held[new_rank]
  IN
  /\ dir = Done
  /\ new_rank # old_rank
  /\ owner' = [owner EXCEPT ![p] = new_rank]
  /\ held' = [held EXCEPT ![old_rank] = @ \ gone, ![new_rank] = @ \cup new]
  /\ m_group_ranks' = [m_group_ranks EXCEPT
       ![old_rank] = [g \in Groups |-> IF g \in gone THEN Zeros(g) ELSE @[g]],
       ![new_rank] = [g \in Groups |-> IF g \in new THEN Zeros(g) ELSE @[g]]]
  /\ m_bonds_changed' = TRUE
  /\ UNCHANGED <<offset, dir, phase, added>>

(* Members of a group are never further apart than a domain: beyond that   *)
(* the run ends with an "incomplete" group.  Up to three domains along an  *)
(* axis all of them are neighbors.                                         *)
Separation(r, s, a) ==
  LET d == (GridPos[s][a] - GridPos[r][a]) % Extent[a] IN
  IF 2 * d > Extent[a] THEN d - Extent[a] ELSE d

Compact(off) ==
  \A g \in added : \A i, j \in Idx(g) : \A a \in Axes :
    LET p == Members[g][i]
        q == Members[g][j]
    IN Extent[a] <= 3 \/ Separation(owner[p], owner[q], a) + off[q][a] - off[p][a] \in -1..1

(* How far particles may have moved between two migrations: up to one      *)
(* domain along each axis.                                                 *)
Drifts == {off \in [Particles -> Steps] :
  /\ Compact(offset) /\ Compact(off)
  /\ CrossLow \/ \A p \in Particles, a \in Axes : off[p][a] = -1 => GridPos[owner[p]][a] # 0}

(* Steps of the integrator, after which communicate() migrates.            *)
startMigration(off) ==
  /\ dir = Done
  /\ offset' = off
  /\ dir' = NextDir(0)
  /\ UNCHANGED <<owner, phase, added, held, m_group_ranks, m_bonds_changed>>

-----------------------------------------------------------------------------
(* Slip: the wrap at the upper end is missing.                             *)
Destination_NoWrap(r) == [a \in Axes |->
  (GridPos[r][a] + IF a = Axis(dir) THEN Sign(dir) ELSE 0) % UIntSize]

(* Phase 1.  The grid position a leaving particle is said to go to: ni, nj *)
(* and nk are unsigned, so that a step down from 0 gives the largest       *)
(* unsigned value and the test ni < 0 is never true.                       *)
Destination(r) == [a \in Axes |->
  LET n == (GridPos[r][a] + IF a = Axis(dir) THEN Sign(dir) ELSE 0) % UIntSize
  IN IF n = Extent[a] THEN 0 ELSE n]

Leaving(r, g) == {i \in Idx(g) : isLocal(r, g, i) /\ leaves(Members[g][i])}

(* Ranks that read h_cart_ranks beyond its end.  What they find there,     *)
(* if they survive it, is any number.                                      *)
ReadsOutside ==
  {r \in Ranks : Index(Destination(r)) \notin Ranks /\ \E g \in held[r] : Leaving(r, g) # {}}

NoRank == -1

(* The ranks array of group g on rank r after its own update, and the mask *)
(* of the entries it announces: none for a group that is entirely local    *)
(* and stays.                                                              *)
UpdatedRanks(r, g, outside) == [i \in Idx(g) |->
  IF i \in Leaving(r, g)
    THEN IF r \in ReadsOutside THEN outside[r] ELSE cart_ranks[Index(Destination(r))]
  ELSE IF m_bonds_changed /\ isLocal(r, g, i) THEN r ELSE m_group_ranks[r][g][i]]

Mask(r, g) ==
  IF Leaving(r, g) = {} /\ \A i \in Idx(g) : isLocal(r, g, i) THEN {}
  ELSE Leaving(r, g) \cup {i \in Idx(g) : m_bonds_changed /\ isLocal(r, g, i)}

(* Where it announces them: to all neighbors when the information is       *)
(* incomplete, else to the neighbors that own the other members.           *)
ToldBy(r, g, outside) ==
  LET upd == UpdatedRanks(r, g, outside) IN
  IF Mask(r, g) = {} THEN {}
  ELSE IF m_bonds_changed THEN UniqueNeighbors[r]
  ELSE {upd[j] : j \in Idx(g) \ Mask(r, g)} \cap (UniqueNeighbors[r] \ {r})

(* A member is local to one rank, so no two announcements overlap.         *)
migrateGroups_ranks(outside) ==
  /\ phase = "ranks"
  /\ m_group_ranks' = [r \in Ranks |-> [g \in Groups |->
       IF g \notin held[r] THEN m_group_ranks[r][g]
       ELSE [i \in Idx(g) |->
         LET tellers == {s \in Ranks : g \in held[s] /\ i \in Mask(s, g) /\ r \in ToldBy(s, g, outside)}
         IN IF tellers = {} THEN UpdatedRanks(r, g, outside)[i]
            ELSE UpdatedRanks(CHOOSE s \in tellers : TRUE, g, outside)[i]]]]
  /\ phase' = "groups"
  /\ UNCHANGED <<owner, offset, dir, added, held, m_bonds_changed>>

(* Slip: a group is kept only with its first member, as if it could not    *)
(* be split across ranks.                                                  *)
Dropped_NotSplit(r) ==
  {g \in held[r] : Leaving(r, g) # {} /\ ~(isLocal(r, g, 1) /\ 1 \notin Leaving(r, g))}

(* Phase 2.  Groups with leaving members that have no other local member.  *)
Dropped(r) ==
  {g \in held[r] : Leaving(r, g) # {} /\ \A i \in Idx(g) : isLocal(r, g, i) => i \in Leaving(r, g)}

(* A rank sends its groups to the ranks it has for the leaving members, if *)
(* they are neighbors.  The receiver keeps, of several copies, the one     *)
(* from the lowest rank, and adds it if it does not store the group.       *)
Senders(r, g) ==
  {s \in Ranks : /\ g \in held[s]
                 /\ r \in UniqueNeighbors[s]
                 /\ \E i \in Leaving(s, g) : m_group_ranks[s][g][i] = r}

migrateGroups_groups ==
  LET kept(r) == held[r] \ Dropped(r)
      received(r) == {g \in Groups \ kept(r) : Senders(r, g) # {}}
      first(r, g) == CHOOSE s \in Senders(r, g) : \A t \in Senders(r, g) : s <= t
  IN
  /\ dir # Done
  /\ phase = "groups"
  /\ held' = [r \in Ranks |-> kept(r) \cup received(r)]
  /\ m_group_ranks' = [r \in Ranks |-> [g \in Groups |->
       IF g \in received(r) THEN m_group_ranks[first(r, g)][g]
       ELSE IF g \in kept(r) THEN m_group_ranks[r][g] ELSE Zeros(g)]]
  /\ m_bonds_changed' = FALSE
  /\ phase' = "particles"
  /\ UNCHANGED <<owner, offset, dir, added>>

(* removeParticles, the exchange with the two neighbors of the direction   *)
(* and addParticles.                                                       *)
migrateParticles ==
  /\ dir # Done
  /\ phase = "particles"
  /\ owner' = [p \in Particles |-> IF leaves(p) THEN getNeighborRank[owner[p]][dir] ELSE owner[p]]
  /\ offset' = [p \in Particles |-> IF leaves(p) THEN [offset[p] EXCEPT ![Axis(dir)] = 0]
                                    ELSE offset[p]]
  /\ dir' = NextDir(dir + 1)
  /\ phase' = "ranks"
  /\ UNCHANGED <<added, held, m_group_ranks, m_bonds_changed>>

Next ==
  \/ \E g \in Groups : addBondedGroup(g)
  \/ \E p \in Particles, r \in Ranks : moveParticleGroups(p, r)
  \/ \E off \in Drifts : startMigration(off)
  \/ dir # Done /\ \E outside \in [ReadsOutside -> Ranks \cup {NoRank}] : migrateGroups_ranks(outside)
  \/ migrateGroups_groups
  \/ migrateParticles

Spec == Init /\ [][Next]_vars

-----------------------------------------------------------------------------
(* The variables have the types the declarations give them.                *)
TypeOK ==
  /\ owner \in [Particles -> Ranks]
  /\ offset \in [Particles -> Steps]
  /\ dir \in 0..Done
  /\ phase \in {"ranks", "groups", "particles"}
  /\ held \in [Ranks -> SUBSET added]
  /\ \A r \in Ranks, g \in Groups : m_group_ranks[r][g] \in [Idx(g) -> Ranks \cup {NoRank}]
  /\ m_bonds_changed \in BOOLEAN

(* Whenever the particles have arrived, every rank that owns a member of a *)
(* group stores the group, and no other rank does: bonds follow their      *)
(* particles, through any sequence of crossings, diagonal ones included.   *)
GroupsFollowMembers ==
  phase = "ranks" => \A r \in Ranks : held[r] = {g \in added : HasLocalMember(r, g)}

(* Then also, the ranks stored with a group are the owners of its members, *)
(* on every rank that stores it: markGhostParticles sends ghosts to them.  *)
(* "migrateGroups ... updat[es] the rank information with the destination  *)
(* ranks (or the local ranks if incomplete=true)", Communicator.h.  The    *)
(* types hold.                                                             *)
RanksAreOwners ==
  TypeOK /\ (phase = "ranks" /\ ~m_bonds_changed =>
    \A r \in Ranks : \A g \in held[r] : \A i \in Idx(g) :
      m_group_ranks[r][g][i] = owner[Members[g][i]])

(* After phase 1 the ranks stored for the members that leave are the ranks *)
(* their particles are about to be sent to.                                *)
RanksAreDestinations ==
  dir # Done /\ phase = "groups" =>
    \A r \in Ranks : \A g \in held[r] : \A i \in Leaving(r, g) :
      m_group_ranks[r][g][i] = getNeighborRank[r][dir]
=============================================================================
