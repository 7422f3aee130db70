---------------------------- MODULE ParticleData ----------------------------
(***************************************************************************)
(* Tags, indices and ghosts of hoomd::ParticleData (ParticleData.cc) under *)
(* domain decomposition.  Every particle has a global tag.  Each MPI rank  *)
(* stores the particles it owns in an array, ghost copies of others behind *)
(* them, and a reverse lookup from tags to array positions (m_rtag).  The  *)
(* set of active tags, the stack of tags to recycle and the global count   *)
(* are replicated: the operations that change them are called by all ranks *)
(* together, so one copy models them.  Array positions start at 1 here.    *)
(***************************************************************************)
EXTENDS Integers, Sequences, FiniteSets, Functions, Packing

CONSTANTS
  Ranks,     \* the ranks of the communicator
  Root,      \* rank 0, where new particles are created
  MaxTags,   \* bound on the number of distinct tags ever in use
  Values     \* contents of a per-particle property

ASSUME ParticleDataAssumption ==
  /\ IsFiniteSet(Ranks)
  /\ Root \in Ranks
  /\ MaxTags \in Nat
  /\ 0 \in Values

VARIABLES
  particles,             \* particles[r]: the particles rank r owns, in array order
  ghosts,                \* ghosts[r]: the tags of its ghost particles, in array order
  m_rtag,                \* m_rtag[r][t]: array position of tag t on rank r
  m_rtag_size,           \* number of entries of m_rtag in use
  m_tag_set,             \* the active tags
  m_recycled_tags,       \* stack of removed tags (top is the last element)
  m_nglobal,             \* global number of particles
  m_cached_tag_set,      \* the active tags in ascending order, when valid
  m_invalid_cached_tags \* the cache must be rebuilt before use

replicated == <<m_rtag_size, m_tag_set, m_recycled_tags, m_nglobal>>
cache == <<m_cached_tag_set, m_invalid_cached_tags>>
vars == <<particles, ghosts, m_rtag, replicated, cache>>

NOT_LOCAL == -1

Tags == 0..MaxTags-1

(* One particle.  pos stands for the properties that removeParticle moves  *)
(* with the particle, angmom for angular momentum and moment of inertia.   *)
Particle == [tag : Tags, pos : Values, angmom : Values]

N(r) == Len(particles[r])

TagAt(r, i) == IF i <= N(r) THEN particles[r][i].tag ELSE ghosts[r][i - N(r)]

isParticleLocal(r, t) == m_rtag[r][t] # NOT_LOCAL /\ m_rtag[r][t] <= N(r)

(* Slip: the largest tag taken from the number of tags.                    *)
getMaximumTag_FromCount == Cardinality(m_tag_set) - 1

getMaximumTag == CHOOSE t \in m_tag_set : \A s \in m_tag_set : s <= t

-----------------------------------------------------------------------------
(* Building blocks shared by the operations. *)

(* Slip: the lookups of the ghosts are left in place.                      *)
WithoutGhosts_LookupsKept(r) == m_rtag[r]

(* removeAllGhostParticles(): the ghost count is reset and the             *)
(* Communicator, notified, clears the lookups of the ghosts it had added   *)
(* (removeGhostParticleTags).  This is the lookup table that results.      *)
WithoutGhosts(r) ==
  [t \in Tags |-> IF \E k \in 1..Len(ghosts[r]) : ghosts[r][k] = t
                    THEN NOT_LOCAL ELSE m_rtag[r][t]]

(* removeParticles() and addParticles() end by recomputing the lookup of   *)
(* every particle the rank owns.                                           *)
Reindexed(lookup, ps) ==
  [t \in Tags |-> IF \E i \in 1..Len(ps) : ps[i].tag = t
                    THEN CHOOSE i \in 1..Len(ps) : ps[i].tag = t
                    ELSE lookup[t]]

(* Slip: the particles sent are not taken out.                             *)
Kept_All(r, S) == particles[r]

(* removeParticles(): particles with a communication flag leave the array, *)
(* which is compacted in order, and their lookups become NOT_LOCAL.        *)
Kept(r, S) == Packed(particles[r], {i \in 1..N(r) : particles[r][i].tag \notin S})

Sent(r, S) == Packed(particles[r], {i \in 1..N(r) : particles[r][i].tag \in S})

Forget(lookup, S) == [t \in Tags |-> IF t \in S THEN NOT_LOCAL ELSE lookup[t]]

-----------------------------------------------------------------------------
(* initializeFromSnapshot of n particles, the k-th placed on rank place[k] *)
(* by placeParticle.  Root scatters them in tag order.                     *)
Placed(n, place, r) ==
  Packed([k \in 1..n |-> [tag |-> k - 1, pos |-> 0, angmom |-> 0]],
         {k \in 1..n : place[k - 1] = r})

FromSnapshot(n, place) ==
  /\ particles' = [r \in Ranks |-> Placed(n, place, r)]
  /\ ghosts' = [r \in Ranks |-> << >>]
  /\ m_rtag' = [r \in Ranks |->
       Reindexed([t \in Tags |-> IF t < n THEN NOT_LOCAL ELSE WithoutGhosts(r)[t]],
                 Placed(n, place, r))]
  /\ m_rtag_size' = n
  /\ m_tag_set' = 0..n-1
  /\ m_recycled_tags' = << >>
  /\ m_nglobal' = n
  /\ m_invalid_cached_tags' = TRUE
  /\ UNCHANGED m_cached_tag_set

initializeFromSnapshot == \E n \in 0..MaxTags : \E place \in [0..n-1 -> Ranks] : FromSnapshot(n, place)

(* A system starts from an empty particle data.                            *)
Init ==
  /\ particles = [r \in Ranks |-> << >>]
  /\ ghosts = [r \in Ranks |-> << >>]
  /\ m_rtag = [r \in Ranks |-> [t \in Tags |-> NOT_LOCAL]]
  /\ m_rtag_size = 0
  /\ m_tag_set = {}
  /\ m_recycled_tags = << >>
  /\ m_nglobal = 0
  /\ m_cached_tag_set = << >>
  /\ m_invalid_cached_tags = TRUE

(* Slip: the stack of removed tags is not consulted.                       *)
NextTag_NeverRecycled == m_nglobal

(* addParticle: recycles the most recently removed tag, or takes the next  *)
(* one; the particle appears at the end of the root's array.               *)
NextTag ==
  IF m_recycled_tags # << >> THEN m_recycled_tags[Len(m_recycled_tags)] ELSE m_nglobal

addParticle ==
  LET tag == NextTag IN
  /\ tag \in Tags
  /\ m_recycled_tags' = IF m_recycled_tags # << >>
                          THEN SubSeq(m_recycled_tags, 1, Len(m_recycled_tags) - 1)
                          ELSE m_recycled_tags
  /\ m_tag_set' = m_tag_set \cup {tag}
  /\ m_invalid_cached_tags' = TRUE
  /\ m_rtag_size' = getMaximumTag' + 1
  /\ ghosts' = [r \in Ranks |-> << >>]
  /\ m_rtag' = [r \in Ranks |-> [WithoutGhosts(r) EXCEPT
                                   ![tag] = IF r = Root THEN N(Root) + 1 ELSE NOT_LOCAL]]
  /\ particles' = [particles EXCEPT
                     ![Root] = Append(@, [tag |-> tag, pos |-> 0, angmom |-> 0])]
  /\ m_nglobal' = m_nglobal + 1
  /\ UNCHANGED m_cached_tag_set

(* removeParticle on its owner: the last particle takes the freed place.   *)
(* Its angular momentum and moment of inertia stay where they were.        *)
MoveLastTo(ps, i) ==
  LET n == Len(ps) IN
  [k \in 1..n-1 |-> IF k = i THEN [ps[n] EXCEPT !.angmom = ps[i].angmom] ELSE ps[k]]

removeParticle(tag) ==
  LET owners == {r \in Ranks : isParticleLocal(r, tag)} IN
  /\ m_nglobal # 0
  /\ tag < m_rtag_size
  /\ owners # {}
  /\ ghosts' = [r \in Ranks |-> << >>]
  /\ particles' = [r \in Ranks |-> IF r \in owners THEN MoveLastTo(particles[r], m_rtag[r][tag])
                                   ELSE particles[r]]
  /\ m_rtag' = [r \in Ranks |->
       LET idx == m_rtag[r][tag]
           last == particles[r][N(r)].tag
           removed == [WithoutGhosts(r) EXCEPT ![tag] = NOT_LOCAL]
       IN IF r \in owners /\ idx < N(r) THEN [removed EXCEPT ![last] = idx] ELSE removed]
  /\ m_tag_set' = m_tag_set \ {tag}
  /\ m_recycled_tags' = Append(m_recycled_tags, tag)
  /\ m_invalid_cached_tags' = TRUE
  /\ m_nglobal' = m_nglobal - 1
  /\ UNCHANGED <<m_rtag_size, m_cached_tag_set>>

(* removeAllGhostParticles on its own, also what is left of a              *)
(* removeParticle that throws because no rank has the tag.                 *)
removeAllGhostParticles ==
  /\ ghosts' = [r \in Ranks |-> << >>]
  /\ m_rtag' = [r \in Ranks |-> WithoutGhosts(r)]
  /\ UNCHANGED <<particles, replicated, cache>>

-----------------------------------------------------------------------------
(* Operations that change where particles are. *)

(* setPosition of tag to a place in the domain of new_rank.  The owner     *)
(* takes the particle out with removeParticles, the new rank appends it    *)
(* with addParticles, and observers are told of the move.                  *)
setPosition(tag, new_rank, v) ==
  \E owner_rank \in Ranks :
    /\ tag < m_rtag_size
    /\ {r \in Ranks : isParticleLocal(r, tag)} = {owner_rank}
    /\ LET placed == [particles[owner_rank] EXCEPT ![m_rtag[owner_rank][tag]].pos = v]
           p == placed[m_rtag[owner_rank][tag]]
       IN
       IF new_rank = owner_rank
         THEN /\ particles' = [particles EXCEPT ![owner_rank] = placed]
              /\ UNCHANGED <<ghosts, m_rtag>>
         ELSE LET kept == Kept(owner_rank, {tag})
                  grown == Append(particles[new_rank], p)
              IN
              /\ particles' = [particles EXCEPT ![owner_rank] = kept, ![new_rank] = grown]
              /\ ghosts' = [r \in Ranks |-> << >>]
              /\ m_rtag' = [r \in Ranks |->
                   IF r = owner_rank THEN Reindexed(Forget(WithoutGhosts(r), {tag}), kept)
                   ELSE IF r = new_rank THEN Reindexed(WithoutGhosts(r), grown)
                   ELSE WithoutGhosts(r)]
    /\ UNCHANGED <<replicated, cache>>

(* One direction of Communicator::migrateParticles on all ranks: the       *)
(* ghosts are gone, rank r gives up the particles S[r] and receives those  *)
(* of the rank for which it is the neighbour.                              *)
migrate(neighbor, S) ==
  LET recv(r) == CHOOSE s \in Ranks : neighbor[s] = r
      left(r) == Kept(r, S[r])
      now(r) == left(r) \o Sent(recv(r), S[recv(r)])
  IN
  /\ \A r \in Ranks : ghosts[r] = << >>
  /\ \A r \in Ranks : \A t \in S[r] : isParticleLocal(r, t)
  /\ particles' = [r \in Ranks |-> now(r)]
  /\ m_rtag' = [r \in Ranks |->
       Reindexed(Reindexed(Forget(m_rtag[r], S[r]), left(r)), now(r))]
  /\ UNCHANGED <<ghosts, replicated, cache>>

(* The receiving end of Communicator::exchangeGhosts on all ranks: ghosts  *)
(* are appended behind the particles and get a lookup.                     *)
exchangeGhosts(gs) ==
  /\ \A r \in Ranks : ghosts[r] = << >>
  /\ \A r \in Ranks : \A k \in DOMAIN gs[r] :
       gs[r][k] \in m_tag_set /\ ~isParticleLocal(r, gs[r][k])
  /\ ghosts' = gs
  /\ m_rtag' = [r \in Ranks |->
       [t \in Tags |-> IF \E k \in DOMAIN gs[r] : gs[r][k] = t
                         THEN N(r) + CHOOSE k \in DOMAIN gs[r] : gs[r][k] = t
                         ELSE m_rtag[r][t]]]
  /\ UNCHANGED <<particles, replicated, cache>>

(* SFCPackTuner::applySortOrder on rank r, after the ghosts were removed.  *)
applySortOrder(r, order) ==
  LET sorted == [i \in 1..N(r) |-> particles[r][order[i]]] IN
  /\ ghosts[r] = << >>
  /\ particles' = [particles EXCEPT ![r] = sorted]
  /\ m_rtag' = [m_rtag EXCEPT ![r] = Reindexed(@, sorted)]
  /\ UNCHANGED <<ghosts, replicated, cache>>

(* getNthTag rebuilds the cache when it is stale.                          *)
Ascending(S) ==
  CHOOSE s \in [1..Cardinality(S) -> S] : \A i, j \in 1..Cardinality(S) : i < j => s[i] < s[j]

(* Slip: only an empty cache is filled.                                    *)
getNthTag_StaleCache(n) ==
  /\ n < m_nglobal
  /\ m_cached_tag_set' = IF m_cached_tag_set = << >> THEN Ascending(m_tag_set)
                         ELSE m_cached_tag_set
  /\ m_invalid_cached_tags' = FALSE
  /\ UNCHANGED <<particles, ghosts, m_rtag, replicated>>

getNthTag(n) ==
  /\ n < m_nglobal
  /\ m_cached_tag_set' = IF m_invalid_cached_tags THEN Ascending(m_tag_set) ELSE m_cached_tag_set
  /\ m_invalid_cached_tags' = FALSE
  /\ UNCHANGED <<particles, ghosts, m_rtag, replicated>>

(* setAngularMomentum of a particle, on its owner.                         *)
setAngularMomentum(tag, v) ==
  \E r \in Ranks :
    /\ tag < m_rtag_size
    /\ isParticleLocal(r, tag)
    /\ particles' = [particles EXCEPT ![r][m_rtag[r][tag]].angmom = v]
    /\ UNCHANGED <<ghosts, m_rtag, replicated, cache>>
-----------------------------------------------------------------------------
Permuted(n) == {f \in [1..n -> 1..n] : \A i, j \in 1..n : f[i] = f[j] => i = j}

GhostLists ==
  {g \in UNION {[1..n -> m_tag_set] : n \in 0..Cardinality(m_tag_set)} :
     \A j, k \in DOMAIN g : g[j] = g[k] => j = k}

Next ==
  \/ initializeFromSnapshot
  \/ addParticle
  \/ \E t \in Tags : removeParticle(t)
  \/ removeAllGhostParticles
  \/ \E t \in Tags, r \in Ranks, v \in Values : setPosition(t, r, v)
  \/ \E neighbor \in {f \in [Ranks -> Ranks] : \A r, s \in Ranks : f[r] = f[s] => r = s} :
     \E S \in [Ranks -> SUBSET m_tag_set] : migrate(neighbor, S)
  \/ \E gs \in [Ranks -> GhostLists] : exchangeGhosts(gs)
  \/ \E r \in Ranks : \E order \in Permuted(N(r)) : applySortOrder(r, order)
  \/ \E n \in 0..MaxTags-1 : getNthTag(n)
  \/ \E t \in Tags, v \in Values : setAngularMomentum(t, v)

Spec == Init /\ [][Next]_vars
-----------------------------------------------------------------------------
(* The variables have the types the declarations give them.                *)
TypeOK ==
  /\ particles \in [Ranks -> Seq(Particle)]
  /\ ghosts \in [Ranks -> Seq(Tags)]
  /\ m_rtag \in [Ranks -> [Tags -> {NOT_LOCAL} \cup (Nat \ {0})]]
  /\ m_rtag_size \in 0..MaxTags
  /\ m_tag_set \in SUBSET Tags
  /\ m_recycled_tags \in Seq(Tags)
  /\ m_nglobal \in 0..MaxTags
  /\ m_cached_tag_set \in Seq(Tags)
  /\ m_invalid_cached_tags \in BOOLEAN

(* addParticle, removeParticle, setPosition, migration: every active tag   *)
(* names exactly one particle, on exactly one rank, and no particle has an *)
(* inactive tag (what getOwnerRank checks at run time).                    *)
OneOwnerPerTag ==
  /\ \A t \in m_tag_set : \E r \in Ranks : \E i \in 1..N(r) : particles[r][i].tag = t
  /\ \A r \in Ranks : \A i \in 1..N(r) :
       /\ particles[r][i].tag \in m_tag_set
       /\ \A s \in Ranks : \A j \in 1..N(s) :
            particles[s][j].tag = particles[r][i].tag => s = r /\ j = i

(* m_rtag inverts the tag array on every rank: it finds each particle and  *)
(* each ghost at its place, and is NOT_LOCAL for every other tag in use.   *)
(* getRTag, isParticleLocal and the owner test in removeParticle rely on   *)
(* it after any sequence of operations.  The types hold.                   *)
LookupInvertsTags ==
  TypeOK /\ \A r \in Ranks :
    /\ \A i \in 1..N(r) + Len(ghosts[r]) : m_rtag[r][TagAt(r, i)] = i
    /\ \A t \in 0..m_rtag_size-1 :
         m_rtag[r][t] # NOT_LOCAL =>
           m_rtag[r][t] <= N(r) + Len(ghosts[r]) /\ TagAt(r, m_rtag[r][t]) = t

(* addParticle's choice of tag: active and recycled tags never overlap,    *)
(* none is recycled twice, together they are an initial segment of the     *)
(* tags, and m_nglobal counts the active ones.  A fresh tag m_nglobal is   *)
(* therefore never one that is already in use.                             *)
TagsPartition ==
  LET n == m_nglobal + Len(m_recycled_tags) IN
  /\ m_tag_set \cap Range(m_recycled_tags) = {}
  /\ m_tag_set \cup Range(m_recycled_tags) = 0..n-1
  /\ \A i, j \in DOMAIN m_recycled_tags : m_recycled_tags[i] = m_recycled_tags[j] => i = j
  /\ Cardinality(m_tag_set) = m_nglobal

(* The assertion in addParticle: when no tag can be recycled, the lookup   *)
(* table has exactly m_nglobal entries; and it always covers every active  *)
(* tag.                                                                    *)
LookupTableSize ==
  /\ m_recycled_tags = << >> => m_rtag_size = m_nglobal
  /\ \A t \in m_tag_set : t < m_rtag_size

(* getNthTag: whenever the cache is taken to be valid, it lists the active *)
(* tags in ascending order, so that index n gives the n-th active tag.     *)
CacheListsActiveTags ==
  ~m_invalid_cached_tags => m_cached_tag_set = Ascending(m_tag_set)

(* The comment in removeParticle: the last element is moved to the         *)
(* position of the removed one.  As a step property: no operation but the  *)
(* setters and initialization changes the angular momentum of a particle   *)
(* that exists before and after it.                                        *)
angmomOf(t) ==
  {particles[x[1]][x[2]].angmom : x \in {y \in Ranks \X (1..MaxTags) :
     y[2] <= N(y[1]) /\ particles[y[1]][y[2]].tag = t}}

RemovalMovesWholeParticle ==
  [][\A t \in Tags : removeParticle(t) =>
       \A u \in m_tag_set \ {t} : angmomOf(u)' = angmomOf(u)]_vars
=============================================================================
