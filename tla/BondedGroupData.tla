--------------------------- MODULE BondedGroupData ---------------------------
(***************************************************************************)
(* hoomd::BondedGroupData (BondedGroupData.cc) under domain decomposition: *)
(* bonds, angles, constraints... connect particles, and every rank that    *)
(* owns a member of a group stores a copy of the group.  Groups have       *)
(* global tags, recycled like particle tags, and each rank has a lookup    *)
(* from group tags to positions in its own table.  Ranks may also hold     *)
(* ghost groups behind their own.  The particles themselves are an owner   *)
(* for each particle tag.  Table positions start at 1 here.                *)
(***************************************************************************)
EXTENDS Integers, Sequences, FiniteSets, Packing

CONSTANTS
  Ranks,      \* the ranks of the communicator
  Particles,  \* the particle tags
  GroupSize,  \* members per group
  MaxGroups   \* bound on the number of distinct group tags

ASSUME BondedGroupAssumption ==
  /\ GroupSize \in Nat \ {0}
  /\ MaxGroups \in Nat

VARIABLES
  owner,           \* owner[p]: the rank that owns particle p
  m_groups,        \* m_groups[r]: the table of rank r, its own groups first
  m_n_ghost,       \* m_n_ghost[r]: how many of them are ghost groups
  m_group_rtag,    \* m_group_rtag[r][t]: position of group t on rank r
  m_tag_set,       \* active group tags (replicated)
  m_recycled_tags, \* stack of removed group tags (replicated)
  m_nglobal,       \* global number of groups (replicated)
  members          \* history: members[t], the particles group t was created with

vars == <<owner, m_groups, m_n_ghost, m_group_rtag, m_tag_set, m_recycled_tags,
          m_nglobal, members>>

GROUP_NOT_LOCAL == -1

GroupTags == 0..MaxGroups-1

MemberSets == {S \in SUBSET Particles : Cardinality(S) = GroupSize}

Group == [tag : GroupTags, members : MemberSets]

(* getN(): the number of groups a rank stores for itself.                  *)
N(r) == Len(m_groups[r]) - m_n_ghost[r]

isParticleLocal(r, p) == owner[p] = r

(* Slip: a group is stored only where all its members are.                 *)
HasLocalMember_All(r, S) == \A p \in S : isParticleLocal(r, p)

HasLocalMember(r, S) == \E p \in S : isParticleLocal(r, p)

(* removeAllGhostGroups(): "does not actually operate on the group data",  *)
(* it shortens the table and resets the counter.                           *)
OwnGroups(r) == SubSeq(m_groups[r], 1, N(r))

NoGhosts == m_n_ghost' = [r \in Ranks |-> 0]

isLocalIndex(r, id) == id # GROUP_NOT_LOCAL /\ id <= N(r)

(* initialize(), then particles anywhere and no groups.                    *)
Init ==
  /\ owner \in [Particles -> Ranks]
  /\ m_groups = [r \in Ranks |-> << >>]
  /\ m_n_ghost = [r \in Ranks |-> 0]
  /\ m_group_rtag = [r \in Ranks |-> [t \in GroupTags |-> GROUP_NOT_LOCAL]]
  /\ m_tag_set = {}
  /\ m_recycled_tags = << >>
  /\ m_nglobal = 0
  /\ members = [t \in GroupTags |-> {}]

-----------------------------------------------------------------------------
(* Slip: the stack of removed tags is not consulted.                       *)
NextTag_NeverRecycled == m_nglobal

NextTag ==
  IF m_recycled_tags # << >> THEN m_recycled_tags[Len(m_recycled_tags)] ELSE m_nglobal

(* addBondedGroup on all ranks: a rank stores the group if it owns one of  *)
(* the members.  A fresh tag extends the lookup table of every rank; a     *)
(* recycled one leaves the entry alone on ranks that do not store it.      *)
addBondedGroup(S) ==
  LET tag == NextTag
      fresh == m_recycled_tags = << >>
  IN
  /\ tag \in GroupTags
  /\ m_recycled_tags' = IF fresh THEN m_recycled_tags
                        ELSE SubSeq(m_recycled_tags, 1, Len(m_recycled_tags) - 1)
  /\ m_group_rtag' = [r \in Ranks |->
       [m_group_rtag[r] EXCEPT ![tag] = IF HasLocalMember(r, S) THEN N(r) + 1
                                        ELSE IF fresh THEN GROUP_NOT_LOCAL ELSE @]]
  /\ m_groups' = [r \in Ranks |->
       IF HasLocalMember(r, S) THEN Append(OwnGroups(r), [tag |-> tag, members |-> S])
       ELSE OwnGroups(r)]
  /\ NoGhosts
  /\ m_tag_set' = m_tag_set \cup {tag}
  /\ m_nglobal' = m_nglobal + 1
  /\ members' = [members EXCEPT ![tag] = S]
  /\ UNCHANGED owner

(* Slip: the last group is dropped instead of moved.                       *)
MoveLastTo_Drops(gs, id) == [k \in 1..Len(gs)-1 |-> gs[k]]

(* removeBondedGroup on all ranks: ranks whose lookup points into their    *)
(* own table put their last group in the place of the removed one.  It     *)
(* throws when no rank has the group.                                      *)
MoveLastTo(gs, id) ==
  [k \in 1..Len(gs)-1 |-> IF k = id THEN gs[Len(gs)] ELSE gs[k]]

removeBondedGroup(tag) ==
  LET holders == {r \in Ranks : isLocalIndex(r, m_group_rtag[r][tag])} IN
  /\ tag < m_nglobal + Len(m_recycled_tags)
  /\ holders # {}
  /\ m_groups' = [r \in Ranks |-> IF r \in holders
                                    THEN MoveLastTo(OwnGroups(r), m_group_rtag[r][tag])
                                    ELSE OwnGroups(r)]
  /\ m_group_rtag' = [r \in Ranks |->
       LET id == m_group_rtag[r][tag]
           gone == [m_group_rtag[r] EXCEPT ![tag] = GROUP_NOT_LOCAL]
       IN IF r \in holders /\ id < N(r) THEN [gone EXCEPT ![m_groups[r][N(r)].tag] = id]
          ELSE gone]
  /\ NoGhosts
  /\ m_tag_set' = m_tag_set \ {tag}
  /\ m_recycled_tags' = Append(m_recycled_tags, tag)
  /\ m_nglobal' = m_nglobal - 1
  /\ UNCHANGED <<owner, members>>

-----------------------------------------------------------------------------
(* The end of moveParticleGroups on the old rank: every group it keeps is  *)
(* looked up at its new place.                                             *)
Reindexed(lookup, gs) ==
  [t \in GroupTags |-> IF \E i \in 1..Len(gs) : gs[i].tag = t
                         THEN CHOOSE i \in 1..Len(gs) : gs[i].tag = t ELSE lookup[t]]

(* moveParticleGroups, called on all ranks when setPosition has moved      *)
(* particle p.  The old rank sends the groups of p and drops those that no *)
(* longer have a member there, reindexing the rest; the new rank appends   *)
(* those whose lookup says it does not have them.                          *)
moveParticleGroups(p, old_rank, new_rank) ==
  LET own == OwnGroups(old_rank)
      send_groups == Packed(own, {i \in 1..Len(own) : p \in own[i].members})
      stays(g) == p \notin g.members \/ \E q \in g.members \ {p} : owner[q] = old_rank
      kept == Packed(own, {i \in 1..Len(own) : stays(own[i])})
      dropped == {t \in GroupTags : \E i \in 1..Len(send_groups) :
                    send_groups[i].tag = t /\ ~stays(send_groups[i])}
      unknown == {i \in 1..Len(send_groups) :
                    m_group_rtag[new_rank][send_groups[i].tag] = GROUP_NOT_LOCAL}
      grown == OwnGroups(new_rank) \o Packed(send_groups, unknown)
      forgotten == [t \in GroupTags |-> IF t \in dropped THEN GROUP_NOT_LOCAL
                                        ELSE m_group_rtag[old_rank][t]]
      appended == [t \in GroupTags |->
                     IF \E i \in N(new_rank)+1..Len(grown) : grown[i].tag = t
                       THEN CHOOSE i \in N(new_rank)+1..Len(grown) : grown[i].tag = t
                       ELSE m_group_rtag[new_rank][t]]
  IN
  /\ old_rank = owner[p]
  /\ new_rank # old_rank
  /\ owner' = [owner EXCEPT ![p] = new_rank]
  /\ m_groups' = [r \in Ranks |-> IF r = old_rank THEN kept
                                  ELSE IF r = new_rank THEN grown ELSE OwnGroups(r)]
  /\ m_group_rtag' = [m_group_rtag EXCEPT
       ![old_rank] = IF dropped = {} THEN @ ELSE Reindexed(forgotten, kept),
       ![new_rank] = appended]
  /\ NoGhosts
  /\ UNCHANGED <<m_tag_set, m_recycled_tags, m_nglobal, members>>

(* What a rejected addBondedGroup or removeBondedGroup (a particle tag out *)
(* of bounds, a group that does not exist) has done before it throws.      *)
removeAllGhostGroups ==
  /\ m_groups' = [r \in Ranks |-> OwnGroups(r)]
  /\ NoGhosts
  /\ UNCHANGED <<owner, m_group_rtag, m_tag_set, m_recycled_tags, m_nglobal, members>>

(* The communication of a time step in which no particle changes rank.     *)
(* GroupCommunicator::migrateGroups clears the lookups of the ghost groups *)
(* and drops them; exchangeGhostGroups then appends, on each rank, the     *)
(* received groups that the lookup does not know.                          *)
Wiped(r) == [t \in GroupTags |->
  IF \E i \in N(r)+1..Len(m_groups[r]) : m_groups[r][i].tag = t
    THEN GROUP_NOT_LOCAL ELSE m_group_rtag[r][t]]

OwnedSomewhere == UNION {{m_groups[r][i] : i \in 1..N(r)} : r \in Ranks}

Received(r, recv) ==
  Packed(recv[r], {i \in 1..Len(recv[r]) : Wiped(r)[recv[r][i].tag] = GROUP_NOT_LOCAL})

exchangeGhostGroups(recv) ==
  /\ m_nglobal # 0
  /\ m_groups' = [r \in Ranks |-> OwnGroups(r) \o Received(r, recv)]
  /\ m_n_ghost' = [r \in Ranks |-> Len(Received(r, recv))]
  /\ m_group_rtag' = [r \in Ranks |-> [t \in GroupTags |->
       IF \E i \in 1..Len(Received(r, recv)) : Received(r, recv)[i].tag = t
         THEN N(r) + CHOOSE i \in 1..Len(Received(r, recv)) : Received(r, recv)[i].tag = t
         ELSE Wiped(r)[t]]]
  /\ UNCHANGED <<owner, m_tag_set, m_recycled_tags, m_nglobal, members>>

(* What may arrive: groups other ranks own, each at most once.             *)
Arrivals == {q \in UNION {[1..n -> OwnedSomewhere] : n \in 0..MaxGroups} :
               \A i, j \in 1..Len(q) : q[i].tag = q[j].tag => i = j}

-----------------------------------------------------------------------------
(* Groups of a type that is never exchanged as ghosts (all but the         *)
(* constraints).                                                           *)
Next ==
  \/ \E S \in MemberSets : addBondedGroup(S)
  \/ \E t \in GroupTags : removeBondedGroup(t)
  \/ \E p \in Particles, r \in Ranks : moveParticleGroups(p, owner[p], r)

(* Constraints, which are exchanged along with the ghost particles.        *)
GhostNext ==
  \/ Next
  \/ removeAllGhostGroups
  \/ \E recv \in [Ranks -> Arrivals] : exchangeGhostGroups(recv)

Spec == Init /\ [][Next]_vars

GhostSpec == Init /\ [][GhostNext]_vars

-----------------------------------------------------------------------------
(* The variables have the types the declarations give them.                *)
TypeOK ==
  /\ owner \in [Particles -> Ranks]
  /\ \A r \in Ranks : \A i \in 1..Len(m_groups[r]) : m_groups[r][i] \in Group
  /\ \A r \in Ranks : m_n_ghost[r] \in 0..Len(m_groups[r])
  /\ m_group_rtag \in [Ranks -> [GroupTags -> {GROUP_NOT_LOCAL} \cup 1..MaxGroups]]
  /\ m_tag_set \subseteq GroupTags
  /\ \A i \in 1..Len(m_recycled_tags) : m_recycled_tags[i] \in GroupTags
  /\ m_nglobal \in 0..MaxGroups

(* However groups are added and removed and particles moved between ranks, *)
(* a rank stores exactly the active groups that have a member on it, each  *)
(* once: no force is lost and none is counted twice.                       *)
MembersOwnersHoldGroup ==
  \A r \in Ranks :
    /\ \A i, j \in 1..N(r) : m_groups[r][i].tag = m_groups[r][j].tag => i = j
    /\ {m_groups[r][i] : i \in 1..N(r)} =
         {[tag |-> t, members |-> members[t]] : t \in {u \in m_tag_set : HasLocalMember(r, members[u])}}

(* The lookup of a rank is the inverse of its table, and says not local    *)
(* for every other tag, removed ones included: the assertions of           *)
(* addBondedGroup (a recycled tag is not local) and of removeBondedGroup   *)
(* (an entry outside the table is GROUP_NOT_LOCAL).  The types hold.       *)
LookupInvertsTable ==
  TypeOK /\ \A r \in Ranks, t \in GroupTags :
    LET at == {i \in 1..Len(m_groups[r]) : m_groups[r][i].tag = t} IN
    IF m_group_rtag[r][t] = GROUP_NOT_LOCAL THEN at = {} ELSE at = {m_group_rtag[r][t]}

RecycledTags == {m_recycled_tags[i] : i \in 1..Len(m_recycled_tags)}

(* Tags are neither lost nor handed out twice: the active tags and the     *)
(* recycled ones are disjoint and are together the tags ever used.         *)
GroupTagsPartition ==
  /\ Cardinality(m_tag_set) = m_nglobal
  /\ Cardinality(RecycledTags) = Len(m_recycled_tags)
  /\ m_tag_set \cap RecycledTags = {}
  /\ m_tag_set \cup RecycledTags = 0..m_nglobal + Len(m_recycled_tags) - 1
=============================================================================
