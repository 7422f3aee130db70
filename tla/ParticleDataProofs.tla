------------------------- MODULE ParticleDataProofs -------------------------
(***************************************************************************)
(* The theorems about ParticleData, for every number of ranks and of tags: *)
(* after any sequence of operations every active tag has one owner, the    *)
(* reverse lookup of every rank inverts its tag array, active and recycled *)
(* tags partition an initial segment of the tags, and a cache taken to be  *)
(* valid lists the active tags.                                            *)
(***************************************************************************)
EXTENDS ParticleData, TagLemmas

-----------------------------------------------------------------------------
(***************************************************************************)
(* One rank: its lookup table l, its particles ps and its ghosts gs.       *)
(***************************************************************************)
LookupTables == [Tags -> {NOT_LOCAL} \cup (Nat \ {0})]

\* The tags of the particles, and that no two have the same.
Owned(ps) == {ps[i].tag : i \in 1..Len(ps)}

Distinct(ps) == \A i, j \in 1..Len(ps) : ps[i].tag = ps[j].tag => i = j

\* l finds particles and ghosts at their places and, of the tags below n,
\* no others.
Inverts(l, ps, gs, n) ==
  /\ \A i \in 1..Len(ps) : l[ps[i].tag] = i
  /\ \A k \in 1..Len(gs) : l[gs[k]] = Len(ps) + k
  /\ \A t \in 0..n-1 :
       \/ l[t] = NOT_LOCAL
       \/ l[t] \in 1..Len(ps) /\ ps[l[t]].tag = t
       \/ l[t] - Len(ps) \in 1..Len(gs) /\ gs[l[t] - Len(ps)] = t

\* The lookups once the ghosts are removed.
Cleared(l, gs) == [t \in Tags |-> IF \E k \in 1..Len(gs) : gs[k] = t THEN NOT_LOCAL ELSE l[t]]

\* Inverts, of a rank without ghosts.
LEMMA InvertsAlone ==
  ASSUME NEW l, NEW ps, NEW n,
         \A i \in 1..Len(ps) : l[ps[i].tag] = i,
         \A t \in 0..n-1 : l[t] = NOT_LOCAL \/ (l[t] \in 1..Len(ps) /\ ps[l[t]].tag = t)
  PROVE  Inverts(l, ps, << >>, n)
<1>1. \A k \in 1..Len(<< >>) : FALSE
  OBVIOUS
<1>2. \A k \in 1..Len(<< >>) : l[<< >>[k]] = Len(ps) + k
  BY <1>1, Zenon
<1> QED
  BY <1>2, Zenon DEF Inverts

\* The tag of a particle of an array is a tag.
LEMMA TagType ==
  ASSUME NEW ps \in Seq(Particle)
  PROVE  \A i \in 1..Len(ps) : ps[i] \in Particle /\ ps[i].tag \in Tags
<1>1. \A i \in 1..Len(ps) : ps[i] \in Particle
  OBVIOUS
<1> QED
  BY <1>1 DEF Particle

\* What a lookup table that inverts the arrays tells of a tag.
LEMMA InvertsMeans ==
  ASSUME NEW ps \in Seq(Particle), NEW gs \in Seq(Tags), NEW l \in LookupTables,
         NEW n \in Nat, n <= MaxTags, Inverts(l, ps, gs, n)
  PROVE  /\ Distinct(ps)
         /\ \A t \in Owned(ps) : l[t] \in 1..Len(ps) /\ ps[l[t]].tag = t
         /\ \A t \in 0..n-1 : l[t] # NOT_LOCAL /\ l[t] <= Len(ps) =>
              t \in Owned(ps) /\ l[t] \in 1..Len(ps) /\ ps[l[t]].tag = t
         /\ gs = << >> => \A t \in 0..n-1 : t \notin Owned(ps) => l[t] = NOT_LOCAL
<1> USE ParticleDataAssumption DEF Inverts, LookupTables, Tags, NOT_LOCAL
<1>1. Distinct(ps)
  BY Zenon DEF Distinct
<1>2. \A t \in Owned(ps) : l[t] \in 1..Len(ps) /\ ps[l[t]].tag = t
  BY Zenon DEF Owned
<1>3. \A t \in 0..n-1 : l[t] # NOT_LOCAL /\ l[t] <= Len(ps) =>
        t \in Owned(ps) /\ l[t] \in 1..Len(ps) /\ ps[l[t]].tag = t
  BY DEF Owned
<1>4. gs = << >> => \A t \in 0..n-1 : t \notin Owned(ps) => l[t] = NOT_LOCAL
  BY DEF Owned
<1> QED
  BY ZenonT(30), <1>1, <1>2, <1>3, <1>4

\* removeAllGhostParticles: what is left inverts the particles alone.
LEMMA ClearedInverts ==
  ASSUME NEW ps \in Seq(Particle), NEW gs \in Seq(Tags), NEW l \in LookupTables,
         NEW n \in Nat, n <= MaxTags, Inverts(l, ps, gs, n)
  PROVE  /\ Cleared(l, gs) \in LookupTables
         /\ Inverts(Cleared(l, gs), ps, << >>, n)
<1> USE ParticleDataAssumption DEF LookupTables, Tags, NOT_LOCAL
<1>1. Cleared(l, gs) \in LookupTables
  BY DEF Cleared
<1>2. \A i \in 1..Len(ps) : ps[i].tag \in Tags
  BY Zenon, TagType DEF Tags
<1>3. \A i \in 1..Len(ps) : Cleared(l, gs)[ps[i].tag] = i
  <2> TAKE i \in 1..Len(ps)
  <2>1. ps[i].tag \in Tags /\ l[ps[i].tag] = i
    BY Zenon, <1>2 DEF Inverts
  <2>2. ~ \E k \in 1..Len(gs) : gs[k] = ps[i].tag
    BY <2>1 DEF Inverts
  <2> QED
    BY ZenonT(30), <2>1, <2>2 DEF Cleared
<1>4. \A t \in 0..n-1 : \/ Cleared(l, gs)[t] = NOT_LOCAL
                        \/ Cleared(l, gs)[t] \in 1..Len(ps) /\ ps[Cleared(l, gs)[t]].tag = t
  <2> TAKE t \in 0..n-1
  <2>1. t \in Tags
    OBVIOUS
  <2>2. CASE \E k \in 1..Len(gs) : gs[k] = t
    BY Zenon, <2>1, <2>2 DEF Cleared
  <2>3. CASE ~ \E k \in 1..Len(gs) : gs[k] = t
    <3>1. Cleared(l, gs)[t] = l[t]
      BY Zenon, <2>1, <2>3 DEF Cleared
    <3>2. ~(l[t] - Len(ps) \in 1..Len(gs) /\ gs[l[t] - Len(ps)] = t)
      BY Zenon, <2>3
    <3> QED
      BY Zenon, <3>1, <3>2 DEF Inverts
  <2> QED
    BY ZenonT(30), <2>2, <2>3
<1>5. Inverts(Cleared(l, gs), ps, << >>, n)
  BY <1>3, <1>4, InvertsAlone, Zenon
<1> QED
  BY ZenonT(30), <1>1, <1>5

\* addParticles and removeParticles end with a lookup table that inverts the
\* particles, provided it was NOT_LOCAL for the tags the rank does not own.
LEMMA ReindexedInverts ==
  ASSUME NEW ps \in Seq(Particle), Distinct(ps), NEW l \in LookupTables,
         NEW n \in Nat, n <= MaxTags,
         \A t \in 0..n-1 : t \notin Owned(ps) => l[t] = NOT_LOCAL
  PROVE  /\ Reindexed(l, ps) \in LookupTables
         /\ Inverts(Reindexed(l, ps), ps, << >>, n)
<1> USE ParticleDataAssumption DEF LookupTables, Tags, NOT_LOCAL
<1> DEFINE m == Reindexed(l, ps)
<1>1. \A i \in 1..Len(ps) : ps[i].tag \in Tags
  BY ZenonT(30), TagType DEF Tags
<1>2. \A i \in 1..Len(ps) : m[ps[i].tag] = i
  BY Zenon, <1>1 DEF Reindexed, Distinct
<1>3. \A t \in Tags : t \notin Owned(ps) => m[t] = l[t]
  BY Zenon DEF Reindexed, Owned
<1>4. m = [t \in Tags |-> m[t]]
  BY Zenon DEF Reindexed
<1> HIDE DEF m
<1>5. m \in LookupTables
  <2> SUFFICES ASSUME NEW t \in Tags
               PROVE  m[t] \in {NOT_LOCAL} \cup (Nat \ {0})
    BY Zenon, <1>4 DEF LookupTables
  <2>1. CASE t \in Owned(ps)
    <3>1. PICK i \in 1..Len(ps) : ps[i].tag = t
      BY Zenon, <2>1 DEF Owned
    <3> QED
      BY <1>2, <3>1
  <2>2. CASE t \notin Owned(ps)
    BY Zenon, <1>3, <2>2
  <2> QED
    BY Zenon, <2>1, <2>2
<1>6. \A t \in 0..n-1 : m[t] = NOT_LOCAL \/ (m[t] \in 1..Len(ps) /\ ps[m[t]].tag = t)
  <2> TAKE t \in 0..n-1
  <2>1. CASE t \in Owned(ps)
    <3>1. PICK i \in 1..Len(ps) : ps[i].tag = t
      BY Zenon, <2>1 DEF Owned
    <3> QED
      BY Zenon, <1>2, <3>1
  <2>2. CASE t \notin Owned(ps)
    BY <1>3, <2>2
  <2> QED
    BY Zenon, <2>1, <2>2
<1>7. Inverts(m, ps, << >>, n)
  BY <1>2, <1>6, InvertsAlone, Zenon
<1> QED
  BY Zenon, <1>5, <1>7 DEF m

\* removeParticles keeps the particles at the places I, in order.
LEMMA PackedOwned ==
  ASSUME NEW ps \in Seq(Particle), Distinct(ps), NEW I \in SUBSET (1..Len(ps))
  PROVE  /\ Packed(ps, I) \in Seq(Particle)
         /\ Distinct(Packed(ps, I))
         /\ Owned(Packed(ps, I)) = {ps[i].tag : i \in I}
<1> DEFINE q == Packed(ps, I)
<1>1. q \in Seq(Particle)
  BY Zenon, PackedProperties
<1>2. PICK at \in [1..Len(q) -> I] :
        /\ \A k \in 1..Len(q) : q[k] = ps[at[k]]
        /\ \A k, l \in 1..Len(q) : at[k] = at[l] => k = l
        /\ \A i \in I : \E k \in 1..Len(q) : at[k] = i
  BY PackedProperties
<1> HIDE DEF q
<1>3. \A k \in 1..Len(q) : at[k] \in I /\ at[k] \in 1..Len(ps) /\ q[k].tag = ps[at[k]].tag
  BY Zenon, <1>2
<1>4. Distinct(q)
  BY <1>2, <1>3 DEF Distinct
<1>5. \A t \in Owned(q) : t \in {ps[i].tag : i \in I}
  BY <1>3 DEF Owned
<1>6. \A t \in {ps[i].tag : i \in I} : t \in Owned(q)
  BY <1>2, <1>3 DEF Owned
<1>7. Owned(q) = {ps[i].tag : i \in I}
  BY Zenon, <1>5, <1>6
<1> QED
  BY Zenon, <1>1, <1>4, <1>7 DEF q
-----------------------------------------------------------------------------
(***************************************************************************)
(* The replicated bookkeeping of tags.                                     *)
(***************************************************************************)

\* The tags that are active or wait to be recycled are those below InUse.
InUse == m_nglobal + Len(m_recycled_tags)

Bookkeeping ==
  /\ m_rtag_size \in Nat
  /\ m_rtag_size <= InUse
  /\ InUse <= MaxTags
  /\ m_tag_set \in SUBSET Tags
  /\ m_recycled_tags \in Seq(Tags)
  /\ m_nglobal \in Nat
  /\ m_cached_tag_set \in Seq(Tags)
  /\ m_invalid_cached_tags \in BOOLEAN
  /\ TagsPartition
  /\ LookupTableSize
  /\ CacheListsActiveTags

\* A finite set of tags has a largest one.
LEMMA LargestTag ==
  ASSUME NEW S, S \subseteq Nat, IsFiniteSet(S), S # {}
  PROVE  \E t \in S : \A s \in S : s <= t
<1>1. /\ Cardinality(S) \in Nat
      /\ \A i \in S : Place(S, i) \in 1..Cardinality(S)
      /\ \A i, j \in S : i < j => Place(S, i) < Place(S, j)
      /\ \A k \in 1..Cardinality(S) : \E i \in S : Place(S, i) = k
  BY Zenon, PlaceProperties
<1>2. Cardinality(S) \in 1..Cardinality(S)
  BY <1>1, FS_EmptySet
<1>3. PICK t \in S : Place(S, t) = Cardinality(S)
  BY <1>1, <1>2
<1>4. \A s \in S : s <= t
  <2> SUFFICES ASSUME NEW s \in S, t < s
               PROVE  FALSE
    OBVIOUS
  <2> QED
    BY <1>1, <1>3
<1> QED
  BY Zenon, <1>4

\* A finite set of tags can be listed in ascending order.
LEMMA AscendingType ==
  ASSUME NEW S \in SUBSET Tags, IsFiniteSet(S)
  PROVE  Ascending(S) \in Seq(Tags)
<1> DEFINE c == Cardinality(S)
           Sorted(s) == \A i, j \in 1..c : i < j => s[i] < s[j]
           at == [k \in 1..c |-> CHOOSE t \in S : Place(S, t) = k]
<1>1. S \subseteq Nat
  BY DEF Tags
<1>2. /\ c \in Nat
      /\ \A i, j \in S : i < j => Place(S, i) < Place(S, j)
      /\ \A k \in 1..c : \E i \in S : Place(S, i) = k
  BY ZenonT(30), <1>1, PlaceProperties
<1> HIDE DEF c
<1>3. \A k \in 1..c : at[k] \in S /\ Place(S, at[k]) = k
  BY Zenon, <1>2
<1>4. at \in [1..c -> S]
  BY Zenon, <1>3
<1> HIDE DEF at
<1>5. \A i, j \in 1..c : i < j => at[i] < at[j]
  <2> SUFFICES ASSUME NEW i \in 1..c, NEW j \in 1..c, i < j, ~(at[i] < at[j])
               PROVE  FALSE
    OBVIOUS
  <2>1. at[i] \in Nat /\ at[j] \in Nat
    BY Zenon, <1>1, <1>3
  <2>2. CASE at[i] = at[j]
    BY <1>3, <2>2
  <2>3. CASE at[j] < at[i]
    BY <1>2, <1>3, <2>3
  <2> QED
    BY <2>1, <2>2, <2>3
<1>6. \E s \in [1..c -> S] : Sorted(s)
  BY Zenon, <1>4, <1>5
<1>7. Ascending(S) = CHOOSE s \in [1..c -> S] : Sorted(s)
  BY Zenon DEF Ascending, c
<1> HIDE DEF Sorted
<1>8. Ascending(S) \in [1..c -> S]
  BY <1>6, <1>7
<1> QED
  BY <1>2, <1>8

\* The active tags are finitely many.
LEMMA TagSetFinite ==
  ASSUME NEW S \in SUBSET Tags
  PROVE  S \subseteq Nat /\ IsFiniteSet(S)
<1>1. IsFiniteSet(Tags)
  BY ParticleDataAssumption, FS_Interval DEF Tags
<1>2. S \subseteq Nat
  BY DEF Tags
<1> QED
  BY Zenon, <1>1, <1>2, FS_Subset

\* The partition of the tags, place by place.
LEMMA BookkeepingMeans ==
  ASSUME Bookkeeping
  PROVE  /\ m_recycled_tags \in Seq(Tags) /\ m_nglobal \in Nat /\ InUse = m_nglobal + Len(m_recycled_tags)
         /\ InUse \in Nat /\ InUse <= MaxTags
         /\ m_tag_set \in SUBSET Tags /\ Cardinality(m_tag_set) = m_nglobal
         /\ \A i, j \in 1..Len(m_recycled_tags) : m_recycled_tags[i] = m_recycled_tags[j] => i = j
         /\ \A i \in 1..Len(m_recycled_tags) : m_recycled_tags[i] \notin m_tag_set
         /\ \A t \in m_tag_set : t \in 0..InUse-1
         /\ \A i \in 1..Len(m_recycled_tags) : m_recycled_tags[i] \in 0..InUse-1
         /\ \A t \in 0..InUse-1 : t \in m_tag_set \/ \E i \in 1..Len(m_recycled_tags) : m_recycled_tags[i] = t
<1> DEFINE R == m_recycled_tags
<1>1. /\ R \in Seq(Tags) /\ m_nglobal \in Nat /\ InUse = m_nglobal + Len(R) /\ InUse <= MaxTags
      /\ m_tag_set \in SUBSET Tags /\ Cardinality(m_tag_set) = m_nglobal
      /\ \A i, j \in DOMAIN R : R[i] = R[j] => i = j
      /\ m_tag_set \cap Range(R) = {}
      /\ m_tag_set \cup Range(R) = 0..InUse-1
  BY Zenon DEF Bookkeeping, TagsPartition, InUse
<1> HIDE DEF R
<1>2. Len(R) \in Nat /\ DOMAIN R = 1..Len(R) /\ InUse \in Nat
  BY <1>1
<1>3. \A t : t \in Range(R) <=> \E i \in 1..Len(R) : R[i] = t
  BY <1>2 DEF Range
<1>4. /\ \A i \in 1..Len(R) : R[i] \notin m_tag_set
      /\ \A i \in 1..Len(R) : R[i] \in 0..InUse-1
      /\ \A t \in m_tag_set : t \in 0..InUse-1
      /\ \A t \in 0..InUse-1 : t \in m_tag_set \/ \E i \in 1..Len(R) : R[i] = t
  BY <1>1, <1>3, Zenon
<1> QED
  BY <1>1, <1>2, <1>4 DEF R

\* addParticle: the tag it takes was not in use.
LEMMA addParticleBookkeeping ==
  ASSUME Bookkeeping, addParticle
  PROVE  /\ Bookkeeping'
         /\ NextTag \in Tags \ m_tag_set
         /\ m_tag_set' = m_tag_set \cup {NextTag}
         /\ InUse' \in Nat
         /\ NextTag < InUse'
         /\ \A t \in 0..InUse'-1 : t = NextTag \/ t \in 0..InUse-1
<1> DEFINE tag == NextTag
           R == m_recycled_tags
           Q == m_recycled_tags'
<1>0. MaxTags \in Nat
  BY Zenon, ParticleDataAssumption
<1>1. /\ R \in Seq(Tags) /\ m_nglobal \in Nat /\ InUse = m_nglobal + Len(R)
      /\ InUse \in Nat /\ InUse <= MaxTags
      /\ m_tag_set \in SUBSET Tags /\ Cardinality(m_tag_set) = m_nglobal
      /\ \A i, j \in 1..Len(R) : R[i] = R[j] => i = j
      /\ \A i \in 1..Len(R) : R[i] \notin m_tag_set
      /\ \A t \in m_tag_set : t \in 0..InUse-1
      /\ \A i \in 1..Len(R) : R[i] \in 0..InUse-1
      /\ \A t \in 0..InUse-1 : t \in m_tag_set \/ \E i \in 1..Len(R) : R[i] = t
  BY BookkeepingMeans
<1>2. /\ tag \in Tags /\ m_tag_set' = m_tag_set \cup {tag} /\ m_nglobal' = m_nglobal + 1
      /\ m_rtag_size' = (CHOOSE t \in m_tag_set' : \A s \in m_tag_set' : s <= t) + 1
      /\ m_invalid_cached_tags' = TRUE /\ m_cached_tag_set' = m_cached_tag_set
  BY DEF addParticle, getMaximumTag
<1>3. /\ Q \in Seq(Tags)
      /\ Len(Q) = IF R # << >> THEN Len(R) - 1 ELSE 0
      /\ \A i \in 1..Len(Q) : Q[i] = R[i]
      /\ R # << >> => tag = R[Len(R)] /\ Len(R) \in 1..Len(R)
      /\ R = << >> => tag = m_nglobal /\ Len(R) = 0
  BY <1>1 DEF addParticle, NextTag
<1>4. /\ InUse' = m_nglobal' + Len(Q)
      /\ InUse' \in Nat
      /\ tag \notin m_tag_set
      /\ tag < InUse'
      /\ R # << >> => InUse' = InUse
      /\ R = << >> => InUse' = InUse + 1 /\ tag = InUse
  <2>1. InUse' = m_nglobal' + Len(Q)
    BY Zenon DEF InUse
  <2> HIDE DEF tag, R, Q
  <2>2. CASE R # << >>
    <3>1. Len(Q) = Len(R) - 1 /\ tag = R[Len(R)] /\ Len(R) \in 1..Len(R)
      BY <1>3, <2>2
    <3>2. InUse' = InUse
      BY <1>1, <1>2, <2>1, <3>1
    <3> QED
      BY <1>1, <2>1, <2>2, <3>1, <3>2
  <2>3. CASE R = << >>
    <3>1. Len(Q) = 0 /\ tag = m_nglobal /\ Len(R) = 0
      BY Zenon, <1>3, <2>3
    <3>2. InUse' = InUse + 1 /\ tag = InUse
      BY <1>1, <1>2, <2>1, <3>1
    <3> QED
      BY <1>1, <2>1, <2>3, <3>2
  <2> QED
    BY Zenon, <2>2, <2>3
<1> HIDE DEF tag, R, Q
<1>5. \A t \in 0..InUse'-1 : t = tag \/ t \in 0..InUse-1
  BY <1>1, <1>4
<1>6. /\ \A i, j \in 1..Len(Q) : Q[i] = Q[j] => i = j
      /\ \A i \in 1..Len(Q) : Q[i] \notin m_tag_set'
      /\ \A t \in m_tag_set' : t \in 0..InUse'-1
      /\ \A i \in 1..Len(Q) : Q[i] \in 0..InUse'-1
      /\ \A t \in 0..InUse'-1 : t \in m_tag_set' \/ \E i \in 1..Len(Q) : Q[i] = t
  <2>1. Len(Q) \in Nat /\ Len(R) \in Nat /\ Len(Q) <= Len(R)
    BY <1>1, <1>3
  <2>2. \A i \in 1..Len(Q) : i \in 1..Len(R) /\ Q[i] = R[i] /\ R[i] # tag
    BY SMTT(30), <1>1, <1>3, <2>1
  <2>3. \A i, j \in 1..Len(Q) : Q[i] = Q[j] => i = j
    BY ZenonT(30), <1>1, <2>2
  <2>4. \A i \in 1..Len(Q) : Q[i] \notin m_tag_set'
    BY ZenonT(30), <1>1, <1>2, <2>2
  <2>5. \A t \in m_tag_set' : t \in 0..InUse'-1
    BY <1>1, <1>2, <1>4 DEF Tags
  <2>6. \A i \in 1..Len(Q) : Q[i] \in 0..InUse'-1
    BY SMTT(30), <1>1, <1>4, <2>2
  <2>7. \A t \in 0..InUse'-1 : t \in m_tag_set' \/ \E i \in 1..Len(Q) : Q[i] = t
    <3> SUFFICES ASSUME NEW t \in 0..InUse'-1, t # tag, t \notin m_tag_set
                 PROVE  \E i \in 1..Len(Q) : Q[i] = t
      BY Zenon, <1>2
    <3>1. t \in 0..InUse-1
      BY Zenon, <1>5
    <3>2. PICK i \in 1..Len(R) : R[i] = t
      BY Zenon, <1>1, <3>1
    <3>3. R # << >>
      BY <1>3, <3>2
    <3>4. i \in 1..Len(Q)
      BY <1>3, <2>1, <3>2, <3>3
    <3> QED
      BY Zenon, <2>2, <3>2, <3>4
  <2> QED
    BY ZenonT(30), <2>3, <2>4, <2>5, <2>6, <2>7
<1>7. Cardinality(m_tag_set') = m_nglobal'
  BY ZenonT(30), <1>1, <1>2, <1>4, TagSetFinite, FS_AddElement
<1>8. TagsPartition'
  <2>1. DOMAIN Q = 1..Len(Q)
    BY <1>3
  <2>2. /\ m_tag_set' \cap Range(Q) = {}
        /\ m_tag_set' \cup Range(Q) = 0..InUse'-1
    BY <1>6, <2>1 DEF Range
  <2> QED
    BY <1>6, <1>7, <2>1, <2>2 DEF TagsPartition, InUse, Q
<1>9. PICK top \in m_tag_set' : m_rtag_size' = top + 1 /\ \A s \in m_tag_set' : s <= top
  <2>1. m_tag_set' \in SUBSET Tags /\ m_tag_set' # {}
    BY Zenon, <1>1, <1>2
  <2>2. \E t \in m_tag_set' : \A s \in m_tag_set' : s <= t
    BY ZenonT(30), <2>1, TagSetFinite, LargestTag
  <2> QED
    BY ZenonT(30), <1>2, <2>2
<1>10. m_tag_set' \in SUBSET Tags
  BY Zenon, <1>1, <1>2
<1>11. top \in Nat /\ \A t \in m_tag_set' : t \in Nat
  BY <1>10 DEF Tags
<1>12. Len(Q) = 0 => top = m_nglobal' - 1
  <2> SUFFICES ASSUME Len(Q) = 0
               PROVE  top = m_nglobal' - 1
    BY Zenon
  <2>1. InUse' = m_nglobal'
    BY <1>1, <1>2, <1>4
  <2>2. m_nglobal' - 1 \in 0..InUse'-1
    BY <1>1, <1>2, <2>1
  <2>3. m_nglobal' - 1 \in m_tag_set'
    BY <1>6, <2>2
  <2> QED
    BY <1>1, <1>2, <1>6, <1>9, <1>11, <2>1, <2>3
<1>13. LookupTableSize'
  <2>1. Q = << >> => m_rtag_size' = m_nglobal'
    BY <1>1, <1>2, <1>9, <1>12
  <2>2. \A t \in m_tag_set' : t < m_rtag_size'
    BY <1>9, <1>11
  <2> QED
    BY ZenonT(30), <2>1, <2>2 DEF LookupTableSize, Q
<1>14. m_rtag_size' \in Nat /\ m_rtag_size' <= InUse'
  BY <1>4, <1>6, <1>9, <1>11
<1>15. InUse' <= MaxTags
  BY <1>0, <1>1, <1>2, <1>4 DEF Tags
<1>16. CacheListsActiveTags' /\ m_cached_tag_set' \in Seq(Tags) /\ m_invalid_cached_tags' \in BOOLEAN
  BY <1>2 DEF Bookkeeping, CacheListsActiveTags
<1>17. m_nglobal' \in Nat
  BY <1>1, <1>2
<1>18. Bookkeeping'
  BY <1>3, <1>8, <1>10, <1>13, <1>14, <1>15, <1>16, <1>17 DEF Bookkeeping, Q
<1> QED
  BY ZenonT(30), <1>2, <1>4, <1>5, <1>18 DEF tag

\* removeParticle of an active tag: the tag goes to the top of the stack.
LEMMA removeParticleBookkeeping ==
  ASSUME Bookkeeping, NEW tag \in m_tag_set, removeParticle(tag)
  PROVE  Bookkeeping' /\ InUse' = InUse
<1> DEFINE R == m_recycled_tags
           Q == m_recycled_tags'
<1>1. /\ R \in Seq(Tags) /\ m_nglobal \in Nat /\ InUse = m_nglobal + Len(R)
      /\ InUse \in Nat /\ InUse <= MaxTags
      /\ m_tag_set \in SUBSET Tags /\ Cardinality(m_tag_set) = m_nglobal
      /\ \A i, j \in 1..Len(R) : R[i] = R[j] => i = j
      /\ \A i \in 1..Len(R) : R[i] \notin m_tag_set
      /\ \A t \in m_tag_set : t \in 0..InUse-1
      /\ \A i \in 1..Len(R) : R[i] \in 0..InUse-1
      /\ \A t \in 0..InUse-1 : t \in m_tag_set \/ \E i \in 1..Len(R) : R[i] = t
  BY BookkeepingMeans
<1>2. /\ m_tag_set' = m_tag_set \ {tag} /\ m_nglobal' = m_nglobal - 1
      /\ m_nglobal # 0 /\ Q = Append(R, tag) /\ m_rtag_size' = m_rtag_size
      /\ m_invalid_cached_tags' = TRUE /\ m_cached_tag_set' = m_cached_tag_set
  BY Zenon DEF removeParticle
<1>3. tag \in Tags
  BY Zenon, <1>1
<1>4. InUse' = m_nglobal' + Len(Q)
  BY Zenon DEF InUse
<1> HIDE DEF R, Q
<1>5. /\ Q \in Seq(Tags) /\ Len(R) \in Nat /\ Len(Q) = Len(R) + 1 /\ Q[Len(R) + 1] = tag
      /\ \A i \in 1..Len(R) : Q[i] = R[i]
      /\ DOMAIN Q = 1..Len(Q)
  BY <1>1, <1>2, <1>3
<1>6. m_nglobal' \in Nat /\ InUse' = InUse
  BY <1>1, <1>2, <1>4, <1>5
<1>7. \A i \in 1..Len(Q) : i \in 1..Len(R) \/ i = Len(R) + 1
  BY <1>5
<1>8. \A i \in 1..Len(Q) : Q[i] \in 0..InUse-1 /\ Q[i] \notin m_tag_set'
  BY ZenonT(30), <1>1, <1>2, <1>5, <1>7
<1>9. \A i, j \in 1..Len(Q) : Q[i] = Q[j] => i = j
  BY ZenonT(30), <1>1, <1>5, <1>7
<1>10. \A t \in 0..InUse-1 : t \in m_tag_set' \/ \E i \in 1..Len(Q) : Q[i] = t
  <2> SUFFICES ASSUME NEW t \in 0..InUse-1, t \notin m_tag_set'
               PROVE  \E i \in 1..Len(Q) : Q[i] = t
    OBVIOUS
  <2>1. CASE t = tag
    BY <1>5, <2>1
  <2>2. CASE t # tag
    <3>1. PICK i \in 1..Len(R) : R[i] = t
      BY ZenonT(30), <1>1, <1>2, <2>2
    <3> QED
      BY <1>5, <3>1
  <2> QED
    BY ZenonT(30), <2>1, <2>2
<1>11. Cardinality(m_tag_set') = m_nglobal'
  BY ZenonT(30), <1>1, <1>2, TagSetFinite, FS_RemoveElement
<1>12. TagsPartition'
  <2>1. m_tag_set' \cap Range(Q) = {} /\ m_tag_set' \cup Range(Q) = 0..InUse'-1
    <3>1. \A t : t \in Range(Q) <=> \E i \in 1..Len(Q) : Q[i] = t
      BY Zenon, <1>5 DEF Range
    <3>2. \A t \in m_tag_set' : t \in 0..InUse-1
      BY Zenon, <1>1, <1>2
    <3> QED
      BY <1>6, <1>8, <1>10, <3>1, <3>2, Zenon
  <2> QED
    BY ZenonT(30), <1>5, <1>9, <1>11, <2>1 DEF TagsPartition, InUse, Q
<1>13. LookupTableSize'
  <2>1. Q # << >>
    BY <1>5
  <2>2. \A t \in m_tag_set' : t < m_rtag_size'
    BY ZenonT(30), <1>2 DEF Bookkeeping, LookupTableSize
  <2> QED
    BY ZenonT(30), <2>1, <2>2 DEF LookupTableSize, Q
<1>14. CacheListsActiveTags' /\ m_cached_tag_set' \in Seq(Tags) /\ m_invalid_cached_tags' \in BOOLEAN
  BY Zenon, <1>2 DEF Bookkeeping, CacheListsActiveTags
<1>15. m_tag_set' \in SUBSET Tags
  BY Zenon, <1>1, <1>2
<1>16. m_rtag_size' \in Nat /\ m_rtag_size' <= InUse' /\ InUse' <= MaxTags
  BY Zenon, <1>2, <1>6 DEF Bookkeeping
<1>17. Bookkeeping'
  BY ZenonT(30), <1>5, <1>6, <1>12, <1>13, <1>14, <1>15, <1>16 DEF Bookkeeping, Q
<1> QED
  BY Zenon, <1>6, <1>17

\* initializeFromSnapshot numbers the particles from 0.
LEMMA FromSnapshotBookkeeping ==
  ASSUME Bookkeeping, NEW n \in 0..MaxTags, NEW place, FromSnapshot(n, place)
  PROVE  Bookkeeping' /\ InUse' = n /\ m_tag_set' = 0..n-1
<1>0. MaxTags \in Nat /\ n \in Nat /\ n <= MaxTags
  BY ParticleDataAssumption
<1>1. /\ m_rtag_size' = n /\ m_tag_set' = 0..n-1 /\ m_recycled_tags' = << >> /\ m_nglobal' = n
      /\ m_invalid_cached_tags' = TRUE /\ m_cached_tag_set' = m_cached_tag_set
  BY Zenon DEF FromSnapshot
<1>2. InUse' = n
  BY <1>0, <1>1 DEF InUse
<1>3. Cardinality(m_tag_set') = n
  BY <1>0, <1>1, FS_Interval
<1>4. Range(m_recycled_tags') = {} /\ DOMAIN m_recycled_tags' = {}
  BY <1>1 DEF Range
<1>5. TagsPartition'
  BY <1>0, <1>1, <1>3, <1>4 DEF TagsPartition
<1>6. LookupTableSize'
  BY <1>0, <1>1 DEF LookupTableSize
<1>7. CacheListsActiveTags' /\ m_cached_tag_set' \in Seq(Tags) /\ m_invalid_cached_tags' \in BOOLEAN
  BY ZenonT(30), <1>1 DEF Bookkeeping, CacheListsActiveTags
<1>8. m_tag_set' \in SUBSET Tags
  BY <1>0, <1>1 DEF Tags
<1> QED
  BY <1>0, <1>1, <1>2, <1>5, <1>6, <1>7, <1>8 DEF Bookkeeping

\* getNthTag leaves a cache that lists the active tags.
LEMMA getNthTagBookkeeping ==
  ASSUME Bookkeeping, NEW n, getNthTag(n)
  PROVE  Bookkeeping' /\ InUse' = InUse /\ m_tag_set' = m_tag_set
<1>1. /\ m_rtag_size' = m_rtag_size /\ m_tag_set' = m_tag_set
      /\ m_recycled_tags' = m_recycled_tags /\ m_nglobal' = m_nglobal
      /\ m_invalid_cached_tags' = FALSE
      /\ m_cached_tag_set' = IF m_invalid_cached_tags THEN Ascending(m_tag_set) ELSE m_cached_tag_set
  BY Zenon DEF getNthTag, replicated
<1>2. m_tag_set \in SUBSET Tags /\ m_cached_tag_set \in Seq(Tags) /\ m_invalid_cached_tags \in BOOLEAN
      /\ (~m_invalid_cached_tags => m_cached_tag_set = Ascending(m_tag_set))
  BY Zenon DEF Bookkeeping, CacheListsActiveTags
<1>3. m_cached_tag_set' = Ascending(m_tag_set)
  BY <1>1, <1>2, Zenon
<1>4. Ascending(m_tag_set) \in Seq(Tags)
  BY ZenonT(30), <1>2, TagSetFinite, AscendingType
<1>5. CacheListsActiveTags'
  BY Zenon, <1>1, <1>3 DEF CacheListsActiveTags, Ascending
<1>6. TagsPartition' /\ LookupTableSize' /\ InUse' = InUse
  BY Zenon, <1>1 DEF Bookkeeping, TagsPartition, LookupTableSize, InUse
<1> QED
  BY ZenonT(30), <1>1, <1>3, <1>4, <1>5, <1>6 DEF Bookkeeping
-----------------------------------------------------------------------------
(***************************************************************************)
(* What an operation does to the arrays of one rank.                       *)
(***************************************************************************)

\* A particle at the end of the array.
LEMMA AppendOwned ==
  ASSUME NEW ps \in Seq(Particle), NEW p \in Particle
  PROVE  /\ Append(ps, p) \in Seq(Particle)
         /\ Owned(Append(ps, p)) = Owned(ps) \cup {p.tag}
         /\ Distinct(ps) /\ p.tag \notin Owned(ps) => Distinct(Append(ps, p))
<1> DEFINE q == Append(ps, p)
<1>1. /\ q \in Seq(Particle) /\ Len(ps) \in Nat /\ Len(q) = Len(ps) + 1 /\ q[Len(ps) + 1] = p
      /\ \A i \in 1..Len(ps) : q[i] = ps[i]
  OBVIOUS
<1> HIDE DEF q
<1>2. \A i \in 1..Len(q) : i \in 1..Len(ps) \/ i = Len(ps) + 1
  BY <1>1
<1>3. \A i \in 1..Len(ps) : i \in 1..Len(q)
  BY <1>1
<1>4. Len(ps) + 1 \in 1..Len(q)
  BY <1>1
<1>5. Owned(q) = Owned(ps) \cup {p.tag}
  BY ZenonT(30), <1>1, <1>2, <1>3, <1>4 DEF Owned
<1>6. ASSUME Distinct(ps), p.tag \notin Owned(ps)
      PROVE  Distinct(q)
  BY <1>1, <1>2, <1>6 DEF Distinct, Owned
<1> QED
  BY ZenonT(30), <1>1, <1>5, <1>6 DEF q

\* A tag the rank does not own is marked NOT_LOCAL.
LEMMA MarkedInverts ==
  ASSUME NEW ps \in Seq(Particle), NEW l \in LookupTables, NEW n, NEW m \in Nat, m <= MaxTags,
         Inverts(l, ps, << >>, n), NEW tag \in Tags \ Owned(ps),
         \A t \in 0..m-1 : t = tag \/ t \in 0..n-1
  PROVE  /\ [l EXCEPT ![tag] = NOT_LOCAL] \in LookupTables
         /\ Inverts([l EXCEPT ![tag] = NOT_LOCAL], ps, << >>, m)
<1> DEFINE k == [l EXCEPT ![tag] = NOT_LOCAL]
<1>1. MaxTags \in Nat
  BY Zenon, ParticleDataAssumption
<1>2. k \in LookupTables /\ k[tag] = NOT_LOCAL /\ \A t \in Tags : t # tag => k[t] = l[t]
  BY DEF LookupTables
<1> HIDE DEF k
<1>3. \A i \in 1..Len(ps) : ps[i].tag \in Tags /\ ps[i].tag # tag
  BY Zenon, TagType DEF Owned
<1>4. \A i \in 1..Len(ps) : k[ps[i].tag] = i
  BY Zenon, <1>2, <1>3 DEF Inverts
<1>5. \A t \in 0..m-1 : k[t] = NOT_LOCAL \/ (k[t] \in 1..Len(ps) /\ ps[k[t]].tag = t)
  BY <1>1, <1>2 DEF Inverts, Tags
<1>6. Inverts(k, ps, << >>, m)
  BY <1>4, <1>5, InvertsAlone, Zenon
<1> QED
  BY Zenon, <1>2, <1>6 DEF k

\* addParticle on the root.
LEMMA AddedInverts ==
  ASSUME NEW ps \in Seq(Particle), NEW l \in LookupTables, NEW n, NEW m \in Nat, m <= MaxTags,
         Inverts(l, ps, << >>, n), NEW p \in Particle, p.tag \notin Owned(ps),
         \A t \in 0..m-1 : t = p.tag \/ t \in 0..n-1
  PROVE  /\ [l EXCEPT ![p.tag] = Len(ps) + 1] \in LookupTables
         /\ Inverts([l EXCEPT ![p.tag] = Len(ps) + 1], Append(ps, p), << >>, m)
<1> DEFINE k == [l EXCEPT ![p.tag] = Len(ps) + 1]
           q == Append(ps, p)
<1>1. MaxTags \in Nat /\ p.tag \in Tags /\ Len(ps) \in Nat
  BY ParticleDataAssumption DEF Particle
<1>2. /\ q \in Seq(Particle) /\ Len(q) = Len(ps) + 1 /\ q[Len(ps) + 1] = p
      /\ \A i \in 1..Len(ps) : q[i] = ps[i]
  OBVIOUS
<1>3. k \in LookupTables /\ k[p.tag] = Len(ps) + 1 /\ \A t \in Tags : t # p.tag => k[t] = l[t]
  BY <1>1 DEF LookupTables
<1> HIDE DEF k, q
<1>4. \A i \in 1..Len(ps) : ps[i].tag \in Tags /\ ps[i].tag # p.tag
  BY Zenon, TagType DEF Owned
<1>5. \A i \in 1..Len(q) : k[q[i].tag] = i
  <2> TAKE i \in 1..Len(q)
  <2>1. CASE i \in 1..Len(ps)
    BY <1>2, <1>3, <1>4, <2>1 DEF Inverts
  <2>2. CASE i = Len(ps) + 1
    BY Zenon, <1>2, <1>3, <2>2
  <2> QED
    BY SMTT(30), <1>1, <1>2, <2>1, <2>2
<1>6. \A t \in 0..m-1 : k[t] = NOT_LOCAL \/ (k[t] \in 1..Len(q) /\ q[k[t]].tag = t)
  <2> TAKE t \in 0..m-1
  <2>1. CASE t = p.tag
    BY <1>1, <1>2, <1>3, <2>1
  <2>2. CASE t # p.tag
    <3>1. t \in Tags /\ t \in 0..n-1 /\ k[t] = l[t]
      BY <1>1, <1>3, <2>2 DEF Tags
    <3>2. l[t] = NOT_LOCAL \/ (l[t] \in 1..Len(ps) /\ ps[l[t]].tag = t)
      BY <3>1 DEF Inverts
    <3> QED
      BY <1>1, <1>2, <3>1, <3>2
  <2> QED
    BY ZenonT(30), <2>1, <2>2
<1>7. Inverts(k, q, << >>, m)
  BY <1>5, <1>6, InvertsAlone, Zenon
<1> QED
  BY ZenonT(30), <1>3, <1>7 DEF k, q

\* removeParticle on the owner: the last particle takes the place of the
\* one removed, and its lookup follows.
LEMMA RemovedInverts ==
  ASSUME NEW ps \in Seq(Particle), NEW l \in LookupTables, NEW n \in Nat, n <= MaxTags,
         Inverts(l, ps, << >>, n), NEW i \in 1..Len(ps)
  PROVE  LET q == MoveLastTo(ps, i)
             removed == [l EXCEPT ![ps[i].tag] = NOT_LOCAL]
             m == IF i < Len(ps) THEN [removed EXCEPT ![ps[Len(ps)].tag] = i] ELSE removed
         IN /\ q \in Seq(Particle)
            /\ Owned(q) = Owned(ps) \ {ps[i].tag}
            /\ m \in LookupTables
            /\ Inverts(m, q, << >>, n)
<1> DEFINE c == Len(ps)
           tag == ps[i].tag
           last == ps[c].tag
           q == MoveLastTo(ps, i)
           removed == [l EXCEPT ![tag] = NOT_LOCAL]
           m == IF i < c THEN [removed EXCEPT ![last] = i] ELSE removed
<1>1. c \in Nat /\ c \in 1..c /\ i \in 1..c /\ MaxTags \in Nat
  BY ParticleDataAssumption
<1>2. \A k \in 1..c : ps[k] \in Particle /\ ps[k].tag \in Tags
  BY TagType
<1>3. Distinct(ps) /\ \A k \in 1..c : l[ps[k].tag] = k
  BY Zenon DEF Distinct, Inverts
<1>4. [ps[c] EXCEPT !.angmom = ps[i].angmom] \in Particle /\ [ps[c] EXCEPT !.angmom = ps[i].angmom].tag = last
  BY ZenonT(30), <1>1, <1>2 DEF Particle
<1>5. q = [k \in 1..c-1 |-> IF k = i THEN [ps[c] EXCEPT !.angmom = ps[i].angmom] ELSE ps[k]]
  BY DEF MoveLastTo
<1> HIDE DEF q
<1>6. q \in Seq(Particle) /\ Len(q) = c - 1
  <2>1. \A k \in 1..c-1 : (IF k = i THEN [ps[c] EXCEPT !.angmom = ps[i].angmom] ELSE ps[k]) \in Particle
    BY <1>1, <1>2, <1>4
  <2> QED
    BY SMTT(30), <1>1, <1>5, <2>1
<1>7. \A k \in 1..c-1 : q[k].tag = IF k = i THEN last ELSE ps[k].tag
  BY Zenon, <1>4, <1>5
<1>8. tag \in Tags /\ last \in Tags /\ (i < c => tag # last) /\ (i = c => tag = last)
  BY <1>1, <1>2, <1>3 DEF Distinct
<1>9. /\ m \in LookupTables /\ m[tag] = NOT_LOCAL
      /\ i < c => m[last] = i
      /\ \A t \in Tags : t # tag /\ t # last => m[t] = l[t]
  BY <1>1, <1>8 DEF LookupTables, NOT_LOCAL
<1> HIDE DEF m, removed
<1>10. \A k \in 1..c-1 : k # i => ps[k].tag # tag /\ ps[k].tag # last
  BY <1>1, <1>3 DEF Distinct
<1>11. \A k \in 1..c-1 : m[q[k].tag] = k
  <2> TAKE k \in 1..c-1
  <2>1. CASE k = i
    BY SMTT(30), <1>1, <1>7, <1>9, <2>1
  <2>2. CASE k # i
    BY SMTT(30), <1>1, <1>2, <1>3, <1>7, <1>9, <1>10, <2>2
  <2> QED
    BY ZenonT(30), <2>1, <2>2
<1>12. \A t \in 0..n-1 : m[t] = NOT_LOCAL \/ (m[t] \in 1..c-1 /\ q[m[t]].tag = t)
  <2> TAKE t \in 0..n-1
  <2>1. t \in Tags /\ (l[t] = NOT_LOCAL \/ (l[t] \in 1..c /\ ps[l[t]].tag = t))
    BY <1>1 DEF Inverts, Tags
  <2>2. CASE t = tag
    BY ZenonT(30), <1>9, <2>2
  <2>3. CASE t # tag /\ t = last
    BY SMTT(30), <1>1, <1>7, <1>8, <1>9, <2>3
  <2>4. CASE t # tag /\ t # last
    <3>1. m[t] = l[t]
      BY Zenon, <1>9, <2>1, <2>4
    <3>2. CASE l[t] \in 1..c /\ ps[l[t]].tag = t
      <4>1. l[t] # i /\ l[t] # c /\ l[t] \in 1..c-1
        BY <1>1, <2>4, <3>2
      <4> QED
        BY ZenonT(30), <1>7, <3>1, <3>2, <4>1
    <3> QED
      BY ZenonT(30), <2>1, <3>1, <3>2
  <2> QED
    BY ZenonT(30), <2>2, <2>3, <2>4
<1>13. Owned(q) = Owned(ps) \ {tag}
  <2>1. \A t \in Owned(q) : t \in Owned(ps) /\ t # tag
    <3> TAKE t \in Owned(q)
    <3>1. PICK k \in 1..c-1 : t = q[k].tag
      BY ZenonT(30), <1>6 DEF Owned
    <3>2. CASE k = i
      <4>1. t = last /\ i < c
        BY <1>1, <1>7, <3>1, <3>2
      <4> QED
        BY ZenonT(30), <1>1, <1>8, <4>1 DEF Owned
    <3>3. CASE k # i
      <4>1. t = ps[k].tag /\ k \in 1..c
        BY <1>1, <1>7, <3>1, <3>3
      <4> QED
        BY ZenonT(30), <1>10, <3>3, <4>1 DEF Owned
    <3> QED
      BY Zenon, <3>2, <3>3
  <2>2. \A t \in Owned(ps) : t # tag => t \in Owned(q)
    <3> SUFFICES ASSUME NEW t \in Owned(ps), t # tag
                 PROVE  \E k \in 1..c-1 : q[k].tag = t
      BY ZenonT(30), <1>6 DEF Owned
    <3>1. PICK k \in 1..c : t = ps[k].tag
      BY Zenon DEF Owned
    <3>2. CASE k = c
      BY <1>1, <1>7, <1>8, <3>1, <3>2
    <3>3. CASE k # c
      BY SMTT(30), <1>1, <1>7, <3>1, <3>3
    <3> QED
      BY Zenon, <3>2, <3>3
  <2> QED
    BY ZenonT(30), <2>1, <2>2
<1>14. Inverts(m, q, << >>, n)
  <2>1. \A k \in 1..Len(q) : m[q[k].tag] = k
    BY ZenonT(30), <1>6, <1>11
  <2>2. \A t \in 0..n-1 : m[t] = NOT_LOCAL \/ (m[t] \in 1..Len(q) /\ q[m[t]].tag = t)
    BY ZenonT(30), <1>6, <1>12
  <2> QED
    BY <2>1, <2>2, InvertsAlone, Zenon
<1> QED
  BY Zenon, <1>6, <1>9, <1>13, <1>14 DEF m, q, removed

-----------------------------------------------------------------------------
(***************************************************************************)
(* All ranks: the active tags A are spread over the particles P of the     *)
(* ranks, one owner each, and the lookups L find the particles and the     *)
(* ghosts G.                                                               *)
(***************************************************************************)
Spread(P, G, L, A, n) ==
  /\ P \in [Ranks -> Seq(Particle)]
  /\ G \in [Ranks -> Seq(Tags)]
  /\ L \in [Ranks -> LookupTables]
  /\ \A r \in Ranks : Inverts(L[r], P[r], G[r], n)
  /\ \A r \in Ranks : \A t \in Owned(P[r]) : t \in A
  /\ \A t \in A : \E r \in Ranks : t \in Owned(P[r])
  /\ \A r, s \in Ranks : \A t \in Owned(P[r]) : t \in Owned(P[s]) => r = s

\* The inductive invariant.
IInv == Bookkeeping /\ Spread(particles, ghosts, m_rtag, m_tag_set, InUse)

\* What the invariant says of one rank.
LEMMA OnRank ==
  ASSUME IInv, NEW r \in Ranks
  PROVE  /\ InUse \in Nat /\ InUse <= MaxTags /\ m_rtag_size <= InUse /\ m_rtag_size \in Nat
         /\ particles[r] \in Seq(Particle) /\ ghosts[r] \in Seq(Tags) /\ m_rtag[r] \in LookupTables
         /\ N(r) = Len(particles[r]) /\ N(r) \in Nat
         /\ Distinct(particles[r])
         /\ Owned(particles[r]) \subseteq m_tag_set
         /\ \A t \in Owned(particles[r]) :
              m_rtag[r][t] \in 1..N(r) /\ particles[r][m_rtag[r][t]].tag = t
         /\ \A t \in 0..InUse-1 : isParticleLocal(r, t) <=> t \in Owned(particles[r])
         /\ ghosts[r] = << >> =>
              \A t \in 0..InUse-1 : t \notin Owned(particles[r]) => m_rtag[r][t] = NOT_LOCAL
         /\ WithoutGhosts(r) = Cleared(m_rtag[r], ghosts[r])
         /\ WithoutGhosts(r) \in LookupTables
         /\ Inverts(WithoutGhosts(r), particles[r], << >>, InUse)
         /\ \A t \in 0..InUse-1 : t \notin Owned(particles[r]) => WithoutGhosts(r)[t] = NOT_LOCAL
<1>1. InUse \in Nat /\ InUse <= MaxTags /\ m_rtag_size <= InUse /\ m_rtag_size \in Nat
  BY Zenon, BookkeepingMeans DEF IInv, Bookkeeping
<1>2. /\ particles[r] \in Seq(Particle) /\ ghosts[r] \in Seq(Tags) /\ m_rtag[r] \in LookupTables
      /\ Inverts(m_rtag[r], particles[r], ghosts[r], InUse)
      /\ Owned(particles[r]) \subseteq m_tag_set
  BY Zenon DEF IInv, Spread
<1>3. N(r) = Len(particles[r]) /\ N(r) \in Nat
  BY <1>2 DEF N
<1>4. /\ Distinct(particles[r])
      /\ \A t \in Owned(particles[r]) :
           m_rtag[r][t] \in 1..Len(particles[r]) /\ particles[r][m_rtag[r][t]].tag = t
      /\ \A t \in 0..InUse-1 : m_rtag[r][t] # NOT_LOCAL /\ m_rtag[r][t] <= Len(particles[r]) =>
           t \in Owned(particles[r])
      /\ ghosts[r] = << >> =>
           \A t \in 0..InUse-1 : t \notin Owned(particles[r]) => m_rtag[r][t] = NOT_LOCAL
  BY <1>1, <1>2, InvertsMeans
<1>5. \A t \in 0..InUse-1 : isParticleLocal(r, t) <=> t \in Owned(particles[r])
  BY <1>3, <1>4 DEF isParticleLocal, NOT_LOCAL
<1>6. WithoutGhosts(r) = Cleared(m_rtag[r], ghosts[r])
  BY DEF WithoutGhosts, Cleared
<1>7. WithoutGhosts(r) \in LookupTables /\ Inverts(WithoutGhosts(r), particles[r], << >>, InUse)
  BY ZenonT(30), <1>1, <1>2, <1>6, ClearedInverts
<1>8. \A t \in 0..InUse-1 : t \notin Owned(particles[r]) => WithoutGhosts(r)[t] = NOT_LOCAL
  <2> DEFINE l == WithoutGhosts(r)
  <2>1. \A t \in 0..InUse-1 : l[t] = NOT_LOCAL \/ (l[t] \in 1..Len(particles[r]) /\ particles[r][l[t]].tag = t)
    BY <1>7 DEF Inverts
  <2> HIDE DEF l
  <2> QED
    BY Zenon, <2>1 DEF Owned, l
<1> QED
  BY ZenonT(30), <1>1, <1>2, <1>3, <1>4, <1>5, <1>6, <1>7, <1>8

-----------------------------------------------------------------------------
(***************************************************************************)
(* Every operation preserves the invariant.                                *)
(***************************************************************************)

\* Operations that leave the replicated data and the cache alone.
LEMMA SameBookkeeping ==
  ASSUME Bookkeeping, UNCHANGED <<replicated, cache>>
  PROVE  Bookkeeping' /\ InUse' = InUse /\ m_tag_set' = m_tag_set
<1>1. /\ m_rtag_size' = m_rtag_size /\ m_tag_set' = m_tag_set
      /\ m_recycled_tags' = m_recycled_tags /\ m_nglobal' = m_nglobal
      /\ m_invalid_cached_tags' = m_invalid_cached_tags /\ m_cached_tag_set' = m_cached_tag_set
  BY Zenon DEF replicated, cache
<1> QED
  BY Zenon, <1>1
     DEF Bookkeeping, TagsPartition, LookupTableSize, CacheListsActiveTags, Ascending, InUse

\* addParticle appends a particle with an unused tag on the root.
LEMMA addParticleIInv ==
  ASSUME IInv, addParticle
  PROVE  IInv'
<1> DEFINE tag == NextTag
           p == [tag |-> tag, pos |-> 0, angmom |-> 0]
           ps(r) == IF r = Root THEN Append(particles[Root], p) ELSE particles[r]
           l(r) == [WithoutGhosts(r) EXCEPT
                      ![tag] = IF r = Root THEN N(Root) + 1 ELSE NOT_LOCAL]
<1>1. /\ Bookkeeping' /\ tag \in Tags \ m_tag_set /\ m_tag_set' = m_tag_set \cup {tag}
      /\ InUse' \in Nat /\ \A t \in 0..InUse'-1 : t = tag \/ t \in 0..InUse-1
  BY Zenon, addParticleBookkeeping DEF IInv
<1>2. InUse' <= MaxTags
  BY Zenon, <1>1 DEF Bookkeeping
<1>3. /\ particles \in [Ranks -> Seq(Particle)] /\ Root \in Ranks
      /\ \A t \in m_tag_set : \E r \in Ranks : t \in Owned(particles[r])
      /\ \A r, s \in Ranks : \A t \in Owned(particles[r]) : t \in Owned(particles[s]) => r = s
  BY ZenonT(30), ParticleDataAssumption DEF IInv, Spread
<1>4. p \in Particle /\ p.tag = tag
  BY Zenon, <1>1, ParticleDataAssumption DEF Particle
<1>5. /\ particles' = [r \in Ranks |-> ps(r)]
      /\ m_rtag' = [r \in Ranks |-> l(r)]
      /\ ghosts' = [r \in Ranks |-> << >>]
  BY Zenon, <1>3 DEF addParticle
<1> HIDE DEF tag, p
<1>6. \A r \in Ranks :
        /\ ps(r) \in Seq(Particle)
        /\ l(r) \in LookupTables
        /\ Inverts(l(r), ps(r), << >>, InUse')
        /\ Owned(ps(r)) = IF r = Root THEN Owned(particles[r]) \cup {tag} ELSE Owned(particles[r])
        /\ Owned(particles[r]) \subseteq m_tag_set
  <2> TAKE r \in Ranks
  <2>1. /\ particles[r] \in Seq(Particle) /\ N(r) = Len(particles[r])
        /\ Owned(particles[r]) \subseteq m_tag_set
        /\ WithoutGhosts(r) \in LookupTables
        /\ Inverts(WithoutGhosts(r), particles[r], << >>, InUse)
    BY Zenon, OnRank
  <2>2. tag \in Tags \ Owned(particles[r])
    BY Zenon, <1>1, <2>1
  <2>3. CASE r = Root
    <3>1. /\ Append(particles[r], p) \in Seq(Particle)
          /\ Owned(Append(particles[r], p)) = Owned(particles[r]) \cup {tag}
      BY ZenonT(30), <1>4, <2>1, AppendOwned
    <3>2. /\ [WithoutGhosts(r) EXCEPT ![tag] = Len(particles[r]) + 1] \in LookupTables
          /\ Inverts([WithoutGhosts(r) EXCEPT ![tag] = Len(particles[r]) + 1],
                     Append(particles[r], p), << >>, InUse')
      BY <1>1, <1>2, <1>4, <2>1, <2>2, AddedInverts
    <3> QED
      BY ZenonT(30), <2>1, <2>3, <3>1, <3>2
  <2>4. CASE r # Root
    <3>1. /\ [WithoutGhosts(r) EXCEPT ![tag] = NOT_LOCAL] \in LookupTables
          /\ Inverts([WithoutGhosts(r) EXCEPT ![tag] = NOT_LOCAL], particles[r], << >>, InUse')
      BY ZenonT(30), <1>1, <1>2, <2>1, <2>2, MarkedInverts
    <3> QED
      BY ZenonT(30), <2>1, <2>4, <3>1
  <2> QED
    BY Zenon, <2>3, <2>4
<1> HIDE DEF ps, l
<1>a. \A r \in Ranks : \A t : t \in Owned(ps(r)) <=> t \in Owned(particles[r]) \/ (r = Root /\ t = tag)
  BY Zenon, <1>6
<1>b. \A r \in Ranks : \A t \in Owned(particles[r]) : t \in m_tag_set /\ t # tag
  BY Zenon, <1>1, <1>6
<1>7. \A t \in m_tag_set' : \E r \in Ranks : t \in Owned(ps(r))
  BY <1>1, <1>3, <1>a, Zenon
<1>8. ASSUME NEW r \in Ranks, NEW s \in Ranks, NEW t \in Owned(ps(r)), t \in Owned(ps(s))
      PROVE  r = s
  <2>1. CASE t = tag
    BY <1>8, <1>a, <1>b, <2>1, Zenon
  <2>2. CASE t # tag
    BY <1>3, <1>8, <1>a, <2>2, Zenon
  <2> QED
    BY <2>1, <2>2
<1>9. \A r \in Ranks : Owned(ps(r)) \subseteq m_tag_set'
  BY <1>1, <1>a, <1>b, Zenon
<1>10. Spread(particles', ghosts', m_rtag', m_tag_set', InUse')
  BY <1>5, <1>6, <1>7, <1>8, <1>9 DEF Spread
<1> QED
  BY ZenonT(30), <1>1, <1>10 DEF IInv

\* removeParticle moves the owner's last particle into the freed place.
LEMMA removeParticleIInv ==
  ASSUME IInv, NEW tag \in Tags, removeParticle(tag)
  PROVE  IInv'
<1> DEFINE owners == {r \in Ranks : isParticleLocal(r, tag)}
           ps(r) == IF r \in owners THEN MoveLastTo(particles[r], m_rtag[r][tag]) ELSE particles[r]
           removed(r) == [WithoutGhosts(r) EXCEPT ![tag] = NOT_LOCAL]
           last(r) == particles[r][N(r)].tag
           l(r) == IF r \in owners /\ m_rtag[r][tag] < N(r)
                     THEN [removed(r) EXCEPT ![last(r)] = m_rtag[r][tag]] ELSE removed(r)
<1>1. /\ tag < m_rtag_size /\ owners # {}
      /\ particles' = [r \in Ranks |-> ps(r)]
      /\ m_rtag' = [r \in Ranks |-> l(r)]
      /\ ghosts' = [r \in Ranks |-> << >>]
      /\ m_tag_set' = m_tag_set \ {tag}
  BY Zenon DEF removeParticle
<1>2. tag \in 0..InUse-1 /\ InUse \in Nat /\ InUse <= MaxTags
  <2>1. PICK r \in Ranks : TRUE
    BY ParticleDataAssumption
  <2>2. InUse \in Nat /\ InUse <= MaxTags /\ m_rtag_size <= InUse /\ m_rtag_size \in Nat
    BY ZenonT(30), <2>1, OnRank
  <2> QED
    BY <1>1, <2>2, ParticleDataAssumption DEF Tags
<1>3. \A r \in Ranks : r \in owners <=> tag \in Owned(particles[r])
  BY ZenonT(30), <1>2, OnRank
<1>4. /\ \A r \in Ranks : Owned(particles[r]) \subseteq m_tag_set
      /\ \A t \in m_tag_set : \E r \in Ranks : t \in Owned(particles[r])
      /\ \A r, s \in Ranks : \A t \in Owned(particles[r]) : t \in Owned(particles[s]) => r = s
  BY Zenon DEF IInv, Spread
<1>5. tag \in m_tag_set
  BY Zenon, <1>1, <1>3, <1>4
<1>6. Bookkeeping' /\ InUse' = InUse
  BY ZenonT(30), <1>5, removeParticleBookkeeping DEF IInv
<1> HIDE DEF owners
<1>7. \A r \in Ranks : /\ ps(r) \in Seq(Particle)
                       /\ l(r) \in LookupTables
                       /\ Inverts(l(r), ps(r), << >>, InUse)
                       /\ Owned(ps(r)) = Owned(particles[r]) \ {tag}
  <2> TAKE r \in Ranks
  <2>1. /\ particles[r] \in Seq(Particle) /\ N(r) = Len(particles[r])
        /\ WithoutGhosts(r) \in LookupTables
        /\ Inverts(WithoutGhosts(r), particles[r], << >>, InUse)
        /\ \A t \in Owned(particles[r]) :
              m_rtag[r][t] \in 1..N(r) /\ particles[r][m_rtag[r][t]].tag = t
    BY Zenon, OnRank
  <2>2. CASE r \in owners
    <3> DEFINE i == m_rtag[r][tag]
    <3>1. i \in 1..Len(particles[r]) /\ particles[r][i].tag = tag
      BY ZenonT(30), <1>3, <2>1, <2>2
    <3> HIDE DEF i
    <3>2. LET q == MoveLastTo(particles[r], i)
              rem == [WithoutGhosts(r) EXCEPT ![particles[r][i].tag] = NOT_LOCAL]
              m == IF i < Len(particles[r])
                     THEN [rem EXCEPT ![particles[r][Len(particles[r])].tag] = i] ELSE rem
          IN /\ q \in Seq(Particle)
             /\ Owned(q) = Owned(particles[r]) \ {particles[r][i].tag}
             /\ m \in LookupTables
             /\ Inverts(m, q, << >>, InUse)
      BY ZenonT(30), <1>2, <2>1, <3>1, RemovedInverts
    <3> QED
      BY ZenonT(30), <2>1, <2>2, <3>1, <3>2 DEF i
  <2>3. CASE r \notin owners
    <3>1. tag \in Tags \ Owned(particles[r])
      BY ZenonT(30), <1>3, <2>3
    <3>2. removed(r) \in LookupTables /\ Inverts(removed(r), particles[r], << >>, InUse)
      BY ZenonT(30), <1>2, <2>1, <3>1, MarkedInverts
    <3> QED
      BY ZenonT(30), <2>1, <2>3, <3>1, <3>2
  <2> QED
    BY ZenonT(30), <2>2, <2>3
<1> HIDE DEF ps, l
<1>8. \A r \in Ranks : Owned(ps(r)) \subseteq m_tag_set'
  BY ZenonT(30), <1>1, <1>4, <1>7
<1>9. \A t \in m_tag_set' : \E r \in Ranks : t \in Owned(ps(r))
  BY ZenonT(30), <1>1, <1>4, <1>7
<1>10. \A r, s \in Ranks : \A t \in Owned(ps(r)) : t \in Owned(ps(s)) => r = s
  BY ZenonT(30), <1>4, <1>7
<1>11. Spread(particles', ghosts', m_rtag', m_tag_set', InUse')
  BY <1>1, <1>6, <1>7, <1>8, <1>9, <1>10 DEF Spread
<1> QED
  BY Zenon, <1>6, <1>11 DEF IInv

\* removeAllGhostParticles clears the lookups of the ghosts.
LEMMA removeAllGhostParticlesIInv ==
  ASSUME IInv, removeAllGhostParticles
  PROVE  IInv'
<1>1. /\ particles' = particles
      /\ m_rtag' = [r \in Ranks |-> WithoutGhosts(r)]
      /\ ghosts' = [r \in Ranks |-> << >>]
      /\ Bookkeeping' /\ InUse' = InUse /\ m_tag_set' = m_tag_set
  BY Zenon, SameBookkeeping DEF removeAllGhostParticles, IInv
<1>2. \A r \in Ranks : /\ WithoutGhosts(r) \in LookupTables
                       /\ Inverts(WithoutGhosts(r), particles[r], << >>, InUse)
  BY Zenon, OnRank
<1>3. Spread(particles', ghosts', m_rtag', m_tag_set', InUse')
  BY <1>1, <1>2 DEF IInv, Spread
<1> QED
  BY Zenon, <1>1, <1>3 DEF IInv

\* Changing another property of a particle changes neither tags nor places.
LEMMA SameTags ==
  ASSUME NEW ps \in Seq(Particle), NEW q \in Seq(Particle), Len(q) = Len(ps),
         \A i \in 1..Len(ps) : q[i].tag = ps[i].tag,
         NEW l, NEW gs, NEW n, Inverts(l, ps, gs, n)
  PROVE  Owned(q) = Owned(ps) /\ Inverts(l, q, gs, n)
<1>1. Owned(q) = Owned(ps)
  BY Zenon DEF Owned
<1>2. Inverts(l, q, gs, n)
  BY Zenon DEF Inverts
<1> QED
  BY Zenon, <1>1, <1>2

\* One rank changes a property of its particles.
LEMMA SameTagsIInv ==
  ASSUME IInv, NEW owner \in Ranks, NEW q \in Seq(Particle), Len(q) = Len(particles[owner]),
         \A i \in 1..Len(q) : q[i].tag = particles[owner][i].tag,
         particles' = [particles EXCEPT ![owner] = q],
         UNCHANGED <<ghosts, m_rtag, replicated, cache>>
  PROVE  IInv'
<1>1. /\ ghosts' = ghosts /\ m_rtag' = m_rtag
      /\ Bookkeeping' /\ InUse' = InUse /\ m_tag_set' = m_tag_set
  BY Zenon, SameBookkeeping DEF IInv
<1>2. Spread(particles, ghosts, m_rtag, m_tag_set, InUse)
  BY DEF IInv
<1>3. /\ particles' \in [Ranks -> Seq(Particle)]
      /\ particles'[owner] = q
      /\ \A r \in Ranks : r # owner => particles'[r] = particles[r]
  BY Zenon, <1>2 DEF Spread
<1>4. \A r \in Ranks : /\ Owned(particles'[r]) = Owned(particles[r])
                       /\ Inverts(m_rtag[r], particles'[r], ghosts[r], InUse)
  <2> TAKE r \in Ranks
  <2>1. CASE r = owner
    BY ZenonT(30), <1>2, <1>3, <2>1, SameTags DEF Spread
  <2>2. CASE r # owner
    BY ZenonT(30), <1>2, <1>3, <2>2 DEF Spread
  <2> QED
    BY ZenonT(30), <2>1, <2>2
<1>5. Spread(particles', ghosts', m_rtag', m_tag_set', InUse')
  BY ZenonT(30), <1>1, <1>2, <1>3, <1>4 DEF Spread
<1> QED
  BY Zenon, <1>1, <1>5 DEF IInv

\* setAngularMomentum changes neither tags nor places.
LEMMA setAngularMomentumIInv ==
  ASSUME IInv, NEW tag \in Tags, NEW v \in Values, setAngularMomentum(tag, v)
  PROVE  IInv'
<1>1. PICK r \in Ranks :
        /\ tag < m_rtag_size
        /\ isParticleLocal(r, tag)
        /\ particles' = [particles EXCEPT ![r][m_rtag[r][tag]].angmom = v]
        /\ UNCHANGED <<ghosts, m_rtag, replicated, cache>>
  BY Zenon DEF setAngularMomentum
<1> DEFINE ps == particles[r]
           i == m_rtag[r][tag]
           q == [ps EXCEPT ![i] = [ps[i] EXCEPT !.angmom = v]]
<1>2. ps \in Seq(Particle) /\ i \in 1..Len(ps)
  <2>1. /\ InUse \in Nat /\ m_rtag_size <= InUse /\ m_rtag_size \in Nat
        /\ ps \in Seq(Particle) /\ N(r) = Len(ps)
        /\ \A t \in Owned(ps) : m_rtag[r][t] \in 1..N(r)
        /\ \A t \in 0..InUse-1 : isParticleLocal(r, t) <=> t \in Owned(ps)
    BY OnRank
  <2>2. tag \in 0..InUse-1
    BY <1>1, <2>1, ParticleDataAssumption DEF Tags
  <2> QED
    BY Zenon, <1>1, <2>1, <2>2
<1>3. particles' = [particles EXCEPT ![r] = q]
  BY Zenon, <1>1
<1> HIDE DEF ps, i
<1>4. ps[i] \in Particle
  BY <1>2
<1>5. [ps[i] EXCEPT !.angmom = v] \in Particle /\ [ps[i] EXCEPT !.angmom = v].tag = ps[i].tag
  BY <1>4 DEF Particle
<1>6. q \in Seq(Particle) /\ Len(q) = Len(ps) /\ \A k \in 1..Len(q) : q[k].tag = ps[k].tag
  BY <1>2, <1>5
<1> QED
  BY Zenon, <1>1, <1>3, <1>6, SameTagsIInv DEF ps

\* getNthTag rebuilds the cache if it is not valid.
LEMMA getNthTagIInv ==
  ASSUME IInv, NEW n, getNthTag(n)
  PROVE  IInv'
<1>1. /\ particles' = particles /\ ghosts' = ghosts /\ m_rtag' = m_rtag
      /\ Bookkeeping' /\ InUse' = InUse /\ m_tag_set' = m_tag_set
  BY Zenon, getNthTagBookkeeping DEF getNthTag, IInv
<1> QED
  BY <1>1 DEF IInv, Spread

\* initializeFromSnapshot: every tag is on the rank it is placed on.
LEMMA FromSnapshotIInv ==
  ASSUME IInv, NEW n \in 0..MaxTags, NEW place \in [0..n-1 -> Ranks], FromSnapshot(n, place)
  PROVE  IInv'
<1> DEFINE all == [k \in 1..n |-> [tag |-> k - 1, pos |-> 0, angmom |-> 0]]
           at(r) == {k \in 1..n : place[k - 1] = r}
           ps(r) == Placed(n, place, r)
           old(r) == [t \in Tags |-> IF t < n THEN NOT_LOCAL ELSE WithoutGhosts(r)[t]]
           l(r) == Reindexed(old(r), ps(r))
<1>1. /\ particles' = [r \in Ranks |-> ps(r)]
      /\ m_rtag' = [r \in Ranks |-> l(r)]
      /\ ghosts' = [r \in Ranks |-> << >>]
      /\ Bookkeeping' /\ InUse' = n /\ m_tag_set' = 0..n-1
  BY Zenon, FromSnapshotBookkeeping DEF FromSnapshot, IInv
<1>2. n \in Nat /\ n <= MaxTags /\ MaxTags \in Nat /\ 0 \in Values
  BY ParticleDataAssumption
<1>3. \A k \in 1..n : [tag |-> k - 1, pos |-> 0, angmom |-> 0] \in Particle
  BY <1>2 DEF Particle, Tags
<1>4. all \in Seq(Particle) /\ Len(all) = n /\ \A k \in 1..n : all[k].tag = k - 1
  BY <1>2, <1>3
<1>5. \A r \in Ranks : ps(r) = Packed(all, at(r))
  BY DEF Placed
<1> HIDE DEF all, ps
<1>6. Distinct(all)
  BY <1>2, <1>4 DEF Distinct
<1>7. \A r \in Ranks : /\ ps(r) \in Seq(Particle)
                       /\ Distinct(ps(r))
                       /\ \A t : t \in Owned(ps(r)) <=> t \in 0..n-1 /\ place[t] = r
  <2> TAKE r \in Ranks
  <2>1. at(r) \in SUBSET (1..Len(all))
    BY <1>4
  <2>2. /\ Packed(all, at(r)) \in Seq(Particle)
        /\ Distinct(Packed(all, at(r)))
        /\ Owned(Packed(all, at(r))) = {all[k].tag : k \in at(r)}
    BY ZenonT(30), <1>4, <1>6, <2>1, PackedOwned
  <2>3. \A t : t \in {all[k].tag : k \in at(r)} <=> t \in 0..n-1 /\ place[t] = r
    <3>1. ASSUME NEW k \in at(r)
          PROVE  all[k].tag \in 0..n-1 /\ place[all[k].tag] = r
      BY <1>2, <1>4
    <3>2. ASSUME NEW t \in 0..n-1, place[t] = r
          PROVE  t \in {all[k].tag : k \in at(r)}
      <4>1. t + 1 \in at(r) /\ all[t + 1].tag = t
        BY <1>2, <1>4, <3>2
      <4> QED
        BY <4>1
    <3> QED
      BY Zenon, <3>1, <3>2
  <2> QED
    BY ZenonT(30), <1>5, <2>2, <2>3
<1>8. \A r \in Ranks : l(r) \in LookupTables /\ Inverts(l(r), ps(r), << >>, n)
  <2> TAKE r \in Ranks
  <2>1. WithoutGhosts(r) \in LookupTables
    BY Zenon, OnRank
  <2>2. old(r) \in LookupTables /\ \A t \in 0..n-1 : old(r)[t] = NOT_LOCAL
    BY <1>2, <2>1 DEF LookupTables, Tags
  <2> HIDE DEF old
  <2> QED
    BY ZenonT(30), <1>2, <1>7, <2>2, ReindexedInverts
<1> HIDE DEF l
<1>9. /\ \A r \in Ranks : \A t \in Owned(ps(r)) : t \in m_tag_set'
      /\ \A r, s \in Ranks : \A t \in Owned(ps(r)) : t \in Owned(ps(s)) => r = s
  BY <1>1, <1>7
<1>10. \A t \in m_tag_set' : \E r \in Ranks : t \in Owned(ps(r))
  <2> TAKE t \in m_tag_set'
  <2>1. place[t] \in Ranks /\ t \in 0..n-1
    BY <1>1
  <2>2. t \in Owned(ps(place[t]))
    BY Zenon, <1>7, <2>1
  <2> QED
    BY <2>1, <2>2, Zenon
<1>11. Spread(particles', ghosts', m_rtag', m_tag_set', InUse')
  BY <1>1, <1>7, <1>8, <1>9, <1>10 DEF Spread
<1> QED
  BY <1>1, <1>11 DEF IInv

\* What a rank keeps and what it sends, when it gives up the tags S.
LEMMA KeptSent ==
  ASSUME IInv, NEW r \in Ranks, NEW S
  PROVE  /\ Kept(r, S) \in Seq(Particle) /\ Distinct(Kept(r, S))
         /\ Owned(Kept(r, S)) = Owned(particles[r]) \ S
         /\ Sent(r, S) \in Seq(Particle) /\ Distinct(Sent(r, S))
         /\ Owned(Sent(r, S)) = Owned(particles[r]) \cap S
<1> DEFINE ps == particles[r]
           I == {i \in 1..Len(ps) : ps[i].tag \notin S}
           J == {i \in 1..Len(ps) : ps[i].tag \in S}
<1>1. ps \in Seq(Particle) /\ Distinct(ps) /\ N(r) = Len(ps)
  BY OnRank
<1>2. Kept(r, S) = Packed(ps, I) /\ Sent(r, S) = Packed(ps, J)
  BY <1>1 DEF Kept, Sent
<1> HIDE DEF ps
<1>3. /\ Packed(ps, I) \in Seq(Particle) /\ Distinct(Packed(ps, I))
      /\ Owned(Packed(ps, I)) = {ps[i].tag : i \in I}
  <2>1. I \in SUBSET (1..Len(ps))
    BY Zenon
  <2> QED
    BY Zenon, <1>1, <2>1, PackedOwned
<1>4. /\ Packed(ps, J) \in Seq(Particle) /\ Distinct(Packed(ps, J))
      /\ Owned(Packed(ps, J)) = {ps[i].tag : i \in J}
  <2>1. J \in SUBSET (1..Len(ps))
    BY Zenon
  <2> QED
    BY Zenon, <1>1, <2>1, PackedOwned
<1>5. {ps[i].tag : i \in I} = Owned(ps) \ S
  BY DEF Owned
<1>6. {ps[i].tag : i \in J} = Owned(ps) \cap S
  BY DEF Owned
<1> QED
  BY ZenonT(30), <1>2, <1>3, <1>4, <1>5, <1>6 DEF ps

\* The lookups of the particles a rank gives up.
LEMMA Forgotten ==
  ASSUME NEW l \in LookupTables, NEW S
  PROVE  /\ Forget(l, S) \in LookupTables
         /\ \A t \in Tags : Forget(l, S)[t] = IF t \in S THEN NOT_LOCAL ELSE l[t]
BY Zenon DEF Forget, LookupTables

\* setPosition within the domain of the owner, or to that of another rank.
LEMMA setPositionIInv ==
  ASSUME IInv, NEW tag \in Tags, NEW new_rank \in Ranks, NEW v \in Values,
         setPosition(tag, new_rank, v)
  PROVE  IInv'
<1> USE DEF N
<1>1. PICK o \in Ranks :
        /\ tag < m_rtag_size
        /\ {r \in Ranks : isParticleLocal(r, tag)} = {o}
        /\ LET placed == [particles[o] EXCEPT ![m_rtag[o][tag]].pos = v]
               p == placed[m_rtag[o][tag]]
           IN
           IF new_rank = o
             THEN /\ particles' = [particles EXCEPT ![o] = placed]
                  /\ UNCHANGED <<ghosts, m_rtag>>
             ELSE LET kept == Kept(o, {tag})
                      grown == Append(particles[new_rank], p)
                  IN
                  /\ particles' = [particles EXCEPT ![o] = kept, ![new_rank] = grown]
                  /\ ghosts' = [r \in Ranks |-> << >>]
                  /\ m_rtag' = [r \in Ranks |->
                       IF r = o THEN Reindexed(Forget(WithoutGhosts(r), {tag}), kept)
                       ELSE IF r = new_rank THEN Reindexed(WithoutGhosts(r), grown)
                       ELSE WithoutGhosts(r)]
        /\ UNCHANGED <<replicated, cache>>
  BY Zenon DEF setPosition
<1> DEFINE ps == particles[o]
           i == m_rtag[o][tag]
           placed == [ps EXCEPT ![i] = [ps[i] EXCEPT !.pos = v]]
           p == placed[i]
<1>2. tag \in 0..InUse-1 /\ InUse \in Nat /\ InUse <= MaxTags
  <2>1. InUse \in Nat /\ InUse <= MaxTags /\ m_rtag_size <= InUse /\ m_rtag_size \in Nat
    BY Zenon, OnRank
  <2> QED
    BY <1>1, <2>1, ParticleDataAssumption DEF Tags
<1>3. tag \in Owned(ps) /\ \A r \in Ranks : r # o => tag \notin Owned(particles[r])
  BY ZenonT(30), <1>1, <1>2, OnRank
<1>4. ps \in Seq(Particle) /\ i \in 1..Len(ps) /\ ps[i].tag = tag
  BY ZenonT(30), <1>3, OnRank
<1> HIDE DEF ps, i
<1>5. ps[i] \in Particle
  BY <1>4
<1>6. [ps[i] EXCEPT !.pos = v] \in Particle /\ [ps[i] EXCEPT !.pos = v].tag = ps[i].tag
  BY ZenonT(30), <1>5 DEF Particle
<1>7. /\ placed \in Seq(Particle) /\ Len(placed) = Len(ps)
      /\ \A k \in 1..Len(placed) : placed[k].tag = ps[k].tag
      /\ p \in Particle /\ p.tag = tag
  BY <1>4, <1>6
<1>8. CASE new_rank = o
  <2>1. particles' = [particles EXCEPT ![o] = placed] /\ UNCHANGED <<ghosts, m_rtag, replicated, cache>>
    BY ZenonT(30), <1>1, <1>8 DEF ps, i
  <2> HIDE DEF placed
  <2> QED
    BY ZenonT(30), <1>7, <2>1, SameTagsIInv DEF ps
<1>9. CASE new_rank # o
  <2> DEFINE kept == Kept(o, {tag})
             grown == Append(particles[new_rank], p)
             qs(r) == IF r = o THEN kept ELSE IF r = new_rank THEN grown ELSE particles[r]
             l(r) == IF r = o THEN Reindexed(Forget(WithoutGhosts(r), {tag}), kept)
                     ELSE IF r = new_rank THEN Reindexed(WithoutGhosts(r), grown)
                     ELSE WithoutGhosts(r)
  <2>1. /\ particles \in [Ranks -> Seq(Particle)]
        /\ \A r \in Ranks : Owned(particles[r]) \subseteq m_tag_set
        /\ \A t \in m_tag_set : \E r \in Ranks : t \in Owned(particles[r])
        /\ \A r, s \in Ranks : \A t \in Owned(particles[r]) : t \in Owned(particles[s]) => r = s
    BY DEF IInv, Spread
  <2>2. /\ particles' = [particles EXCEPT ![o] = kept, ![new_rank] = grown]
        /\ m_rtag' = [r \in Ranks |-> l(r)]
        /\ ghosts' = [r \in Ranks |-> << >>]
        /\ UNCHANGED <<replicated, cache>>
    BY ZenonT(30), <1>1, <1>9 DEF ps, i
  <2>3. Bookkeeping' /\ InUse' = InUse /\ m_tag_set' = m_tag_set
    BY ZenonT(30), <2>2, SameBookkeeping DEF IInv
  <2> HIDE DEF placed, p
  <2>4. kept \in Seq(Particle) /\ Distinct(kept) /\ Owned(kept) = Owned(particles[o]) \ {tag}
    BY Zenon, KeptSent
  <2>5. /\ grown \in Seq(Particle) /\ Distinct(grown)
        /\ Owned(grown) = Owned(particles[new_rank]) \cup {tag}
    <3>1. /\ particles[new_rank] \in Seq(Particle) /\ Distinct(particles[new_rank])
          /\ tag \notin Owned(particles[new_rank])
      BY ZenonT(30), <1>3, <1>9, OnRank
    <3> QED
      BY ZenonT(30), <1>7, <3>1, AppendOwned
  <2> HIDE DEF kept, grown
  <2>6. particles' = [r \in Ranks |-> qs(r)]
    BY <1>9, <2>1, <2>2
  <2>7. \A r \in Ranks : /\ qs(r) \in Seq(Particle)
                         /\ l(r) \in LookupTables
                         /\ Inverts(l(r), qs(r), << >>, InUse)
    <3> TAKE r \in Ranks
    <3>1. /\ particles[r] \in Seq(Particle)
          /\ WithoutGhosts(r) \in LookupTables
          /\ Inverts(WithoutGhosts(r), particles[r], << >>, InUse)
          /\ \A t \in 0..InUse-1 : t \notin Owned(particles[r]) => WithoutGhosts(r)[t] = NOT_LOCAL
      BY Zenon, OnRank
    <3>2. CASE r = o
      <4>1. /\ Forget(WithoutGhosts(r), {tag}) \in LookupTables
            /\ \A t \in 0..InUse-1 : t \notin Owned(kept) => Forget(WithoutGhosts(r), {tag})[t] = NOT_LOCAL
        BY <1>2, <2>4, <3>1, <3>2, Forgotten, ParticleDataAssumption DEF Tags
      <4> QED
        BY <1>2, <2>4, <3>2, <4>1, ReindexedInverts
    <3>3. CASE r # o /\ r = new_rank
      <4>1. \A t \in 0..InUse-1 : t \notin Owned(grown) => WithoutGhosts(r)[t] = NOT_LOCAL
        BY ZenonT(30), <2>5, <3>1, <3>3
      <4> QED
        BY <1>2, <2>5, <3>1, <3>3, <4>1, ReindexedInverts
    <3>4. CASE r # o /\ r # new_rank
      BY ZenonT(30), <3>1, <3>4
    <3> QED
      BY ZenonT(30), <3>2, <3>3, <3>4
  <2>8. \A r \in Ranks : Owned(qs(r)) = IF r = o THEN Owned(particles[o]) \ {tag}
                                        ELSE IF r = new_rank THEN Owned(particles[r]) \cup {tag}
                                        ELSE Owned(particles[r])
    BY ZenonT(30), <2>4, <2>5
  <2> HIDE DEF qs, l
  <2>9. \A r \in Ranks : \A t \in Owned(qs(r)) : t \in m_tag_set
    BY SMTT(30), <1>3, <2>1, <2>8 DEF ps
  <2>10. \A t \in m_tag_set : \E r \in Ranks : t \in Owned(qs(r))
    BY ZenonT(30), <1>9, <2>1, <2>8
  <2>11. \A r, s \in Ranks : \A t \in Owned(qs(r)) : t \in Owned(qs(s)) => r = s
    <3> SUFFICES ASSUME NEW r \in Ranks, NEW s \in Ranks, NEW t,
                        t \in Owned(qs(r)), t \in Owned(qs(s))
                 PROVE  r = s
      BY Zenon
    <3>1. CASE t = tag
      <4>1. \A u \in Ranks : tag \in Owned(qs(u)) => u = new_rank
        BY ZenonT(30), <1>3, <2>8
      <4> QED
        BY ZenonT(30), <3>1, <4>1
    <3>2. CASE t # tag
      <4>1. \A u \in Ranks : t \in Owned(qs(u)) => t \in Owned(particles[u])
        BY ZenonT(30), <2>8, <3>2
      <4> QED
        BY ZenonT(30), <2>1, <4>1
    <3> QED
      BY ZenonT(30), <3>1, <3>2
  <2>12. /\ particles' \in [Ranks -> Seq(Particle)] /\ \A r \in Ranks : particles'[r] = qs(r)
         /\ m_rtag' \in [Ranks -> LookupTables] /\ \A r \in Ranks : m_rtag'[r] = l(r)
         /\ ghosts' \in [Ranks -> Seq(Tags)] /\ \A r \in Ranks : ghosts'[r] = << >>
    <3>1. particles' \in [Ranks -> Seq(Particle)] /\ \A r \in Ranks : particles'[r] = qs(r)
      BY Zenon, <2>6, <2>7
    <3>2. m_rtag' = [r \in Ranks |-> l(r)] /\ ghosts' = [r \in Ranks |-> << >>]
      BY ZenonT(30), <2>2
    <3>3. m_rtag' \in [Ranks -> LookupTables] /\ \A r \in Ranks : m_rtag'[r] = l(r)
      BY ZenonT(30), <2>7, <3>2
    <3>4. ghosts' \in [Ranks -> Seq(Tags)] /\ \A r \in Ranks : ghosts'[r] = << >>
      BY <3>2
    <3> QED
      BY ZenonT(30), <3>1, <3>3, <3>4
  <2>13. Spread(particles', ghosts', m_rtag', m_tag_set', InUse')
    BY <2>3, <2>7, <2>9, <2>10, <2>11, <2>12 DEF Spread
  <2> QED
    BY ZenonT(30), <2>3, <2>13 DEF IInv
<1> QED
  BY ZenonT(30), <1>8, <1>9

\* exchangeGhosts: the ghosts are found behind the particles.
LEMMA exchangeGhostsIInv ==
  ASSUME IInv, NEW gs \in [Ranks -> GhostLists], exchangeGhosts(gs)
  PROVE  IInv'
<1> DEFINE l(r) == [t \in Tags |-> IF \E k \in DOMAIN gs[r] : gs[r][k] = t
                                     THEN N(r) + CHOOSE k \in DOMAIN gs[r] : gs[r][k] = t
                                     ELSE m_rtag[r][t]]
<1>1. /\ \A r \in Ranks : ghosts[r] = << >>
      /\ \A r \in Ranks : \A k \in DOMAIN gs[r] :
           gs[r][k] \in m_tag_set /\ ~isParticleLocal(r, gs[r][k])
      /\ ghosts' = gs /\ particles' = particles
      /\ m_rtag' = [r \in Ranks |-> l(r)]
      /\ UNCHANGED <<replicated, cache>>
  BY Zenon DEF exchangeGhosts
<1>2. Bookkeeping' /\ InUse' = InUse /\ m_tag_set' = m_tag_set
  BY Zenon, <1>1, SameBookkeeping DEF IInv
<1>3. m_tag_set \in SUBSET Tags /\ \A t \in m_tag_set : t \in 0..InUse-1
  BY ZenonT(30), BookkeepingMeans DEF IInv
<1>4. \A r \in Ranks : /\ gs[r] \in Seq(Tags)
                       /\ \A j, k \in 1..Len(gs[r]) : gs[r][j] = gs[r][k] => j = k
  <2> TAKE r \in Ranks
  <2>1. PICK n \in 0..Cardinality(m_tag_set) : gs[r] \in [1..n -> m_tag_set]
    BY DEF GhostLists
  <2>2. n \in Nat
    BY <1>3, TagSetFinite, FS_CardinalityType
  <2>3. gs[r] \in Seq(Tags) /\ DOMAIN gs[r] = 1..Len(gs[r])
    BY <1>3, <2>1, <2>2
  <2>4. \A j, k \in DOMAIN gs[r] : gs[r][j] = gs[r][k] => j = k
    BY Zenon DEF GhostLists
  <2> QED
    BY Zenon, <2>3, <2>4
<1>5. ASSUME NEW r \in Ranks
      PROVE  l(r) \in LookupTables /\ Inverts(l(r), particles[r], gs[r], InUse)
  <2> DEFINE g == gs[r]
             ps == particles[r]
             m == l(r)
  <2>1. /\ ps \in Seq(Particle) /\ m_rtag[r] \in LookupTables /\ N(r) = Len(ps) /\ N(r) \in Nat
        /\ InUse \in Nat /\ InUse <= MaxTags /\ Owned(ps) \subseteq m_tag_set
        /\ \A t \in Owned(ps) : m_rtag[r][t] \in 1..N(r) /\ ps[m_rtag[r][t]].tag = t
        /\ \A t \in 0..InUse-1 : isParticleLocal(r, t) <=> t \in Owned(ps)
        /\ \A t \in 0..InUse-1 : t \notin Owned(ps) => m_rtag[r][t] = NOT_LOCAL
    BY ZenonT(30), <1>1, OnRank
  <2>2. /\ g \in Seq(Tags) /\ DOMAIN g = 1..Len(g) /\ Len(g) \in Nat
        /\ \A j, k \in 1..Len(g) : g[j] = g[k] => j = k
        /\ \A k \in 1..Len(g) : g[k] \in Tags
    BY <1>4
  <2>3. \A k \in 1..Len(g) : g[k] \notin Owned(ps)
    BY ZenonT(30), <1>1, <1>3, <2>1, <2>2
  <2>4. \A k \in 1..Len(g) : m[g[k]] = N(r) + k
    <3> TAKE k \in 1..Len(g)
    <3>1. (CHOOSE j \in DOMAIN g : g[j] = g[k]) = k
      BY ZenonT(30), <2>2
    <3> QED
      BY ZenonT(30), <2>2, <3>1
  <2>5. \A t \in Tags : (\A k \in 1..Len(g) : g[k] # t) => m[t] = m_rtag[r][t]
    BY ZenonT(30), <2>2
  <2>6. m = [t \in Tags |-> m[t]]
    OBVIOUS
  <2>7. Inverts(m_rtag[r], ps, << >>, InUse)
    BY <1>1 DEF IInv, Spread
  <2> HIDE DEF g, ps, m
  <2>8. m \in LookupTables
    <3>1. \A t \in Tags : m[t] \in {NOT_LOCAL} \cup (Nat \ {0})
      BY SMTT(30), <2>1, <2>2, <2>4, <2>5 DEF LookupTables
    <3> QED
      BY ZenonT(30), <2>6, <3>1 DEF LookupTables
  <2>9. ASSUME NEW i \in 1..Len(ps)
        PROVE  m[ps[i].tag] = i
    <3>1. ps[i].tag \in Tags /\ ps[i].tag \in Owned(ps)
      BY ZenonT(30), <2>1, TagType DEF Owned
    <3>2. m[ps[i].tag] = m_rtag[r][ps[i].tag]
      BY ZenonT(30), <2>3, <2>5, <3>1
    <3> QED
      BY Zenon, <2>7, <3>2 DEF Inverts
  <2>10. \A t \in 0..InUse-1 :
           \/ m[t] = NOT_LOCAL
           \/ m[t] \in 1..Len(ps) /\ ps[m[t]].tag = t
           \/ m[t] - Len(ps) \in 1..Len(g) /\ g[m[t] - Len(ps)] = t
    <3> TAKE t \in 0..InUse-1
    <3>1. CASE \E k \in 1..Len(g) : g[k] = t
      BY SMTT(30), <2>1, <2>2, <2>4, <3>1
    <3>2. CASE \A k \in 1..Len(g) : g[k] # t
      <4>1. t \in Tags
        BY <2>1, ParticleDataAssumption DEF Tags
      <4> QED
        BY ZenonT(30), <2>1, <2>5, <3>2, <4>1
    <3> QED
      BY ZenonT(30), <3>1, <3>2
  <2>11. Inverts(m, ps, g, InUse)
    BY ZenonT(30), <2>1, <2>4, <2>9, <2>10 DEF Inverts
  <2> QED
    BY ZenonT(30), <2>8, <2>11 DEF m, ps, g
<1> HIDE DEF l
<1>6. ghosts' \in [Ranks -> Seq(Tags)] /\ m_rtag' \in [Ranks -> LookupTables]
  BY <1>1, <1>4, <1>5
<1>7. \A r \in Ranks : Inverts(m_rtag'[r], particles'[r], ghosts'[r], InUse')
  BY <1>1, <1>2, <1>5
<1>8. Spread(particles', ghosts', m_rtag', m_tag_set', InUse')
  BY <1>1, <1>2, <1>6, <1>7 DEF IInv, Spread
<1> QED
  BY ZenonT(30), <1>2, <1>8 DEF IInv

\* applySortOrder: the particles of a rank change places.
LEMMA applySortOrderIInv ==
  ASSUME IInv, NEW owner \in Ranks, NEW order \in Permuted(N(owner)), applySortOrder(owner, order)
  PROVE  IInv'
<1> DEFINE ps == particles[owner]
           c == Len(ps)
           sorted == [i \in 1..c |-> ps[order[i]]]
           m == Reindexed(m_rtag[owner], sorted)
<1>1. /\ ps \in Seq(Particle) /\ m_rtag[owner] \in LookupTables /\ N(owner) = c /\ c \in Nat
      /\ InUse \in Nat /\ InUse <= MaxTags /\ Distinct(ps)
      /\ ghosts[owner] = << >> =>
           \A t \in 0..InUse-1 : t \notin Owned(ps) => m_rtag[owner][t] = NOT_LOCAL
  BY Zenon, OnRank
<1>2. /\ ghosts[owner] = << >>
      /\ particles' = [particles EXCEPT ![owner] = sorted]
      /\ m_rtag' = [m_rtag EXCEPT ![owner] = m]
      /\ ghosts' = ghosts
      /\ UNCHANGED <<replicated, cache>>
  BY ZenonT(30), <1>1 DEF applySortOrder
<1>3. Bookkeeping' /\ InUse' = InUse /\ m_tag_set' = m_tag_set
  BY ZenonT(30), <1>2, SameBookkeeping DEF IInv
<1>4. order \in [1..c -> 1..c] /\ \A i, j \in 1..c : order[i] = order[j] => i = j
  BY ZenonT(30), <1>1 DEF Permuted
<1> HIDE DEF ps, c
<1>5. \A k \in 1..c : \E i \in 1..c : order[i] = k
  <2>1. order \in Injection(1..c, 1..c)
    BY Zenon, <1>4 DEF Injection, IsInjective
  <2>2. IsFiniteSet(1..c)
    BY <1>1, FS_Interval
  <2>3. order \in Surjection(1..c, 1..c)
    BY ZenonT(30), <2>1, <2>2, FS_Injection
  <2> QED
    BY ZenonT(30), <2>3 DEF Surjection
<1>6. \A i \in 1..c : ps[i] \in Particle
  BY <1>1 DEF c
<1>7. sorted \in Seq(Particle) /\ Len(sorted) = c /\ \A i \in 1..c : sorted[i] = ps[order[i]]
  <2>1. \A i \in 1..c : ps[order[i]] \in Particle
    BY ZenonT(30), <1>4, <1>6
  <2> QED
    BY <1>1, <2>1
<1> HIDE DEF sorted
<1>8. Distinct(sorted)
  <2> SUFFICES ASSUME NEW i \in 1..c, NEW j \in 1..c, sorted[i].tag = sorted[j].tag
               PROVE  i = j
    BY ZenonT(30), <1>7 DEF Distinct
  <2>1. order[i] \in 1..c /\ order[j] \in 1..c /\ ps[order[i]].tag = ps[order[j]].tag
    BY ZenonT(30), <1>4, <1>7
  <2>2. order[i] = order[j]
    BY <1>1, <2>1 DEF Distinct, c
  <2> QED
    BY ZenonT(30), <1>4, <2>2
<1>9. Owned(sorted) = Owned(ps)
  <2>1. \A t \in Owned(sorted) : t \in Owned(ps)
    BY <1>4, <1>7 DEF Owned, c
  <2>2. \A t \in Owned(ps) : t \in Owned(sorted)
    <3> TAKE t \in Owned(ps)
    <3>1. PICK k \in 1..c : t = ps[k].tag
      BY ZenonT(30) DEF Owned, c
    <3>2. PICK i \in 1..c : order[i] = k
      BY Zenon, <1>5
    <3> QED
      BY ZenonT(30), <1>7, <3>1, <3>2 DEF Owned
  <2> QED
    BY ZenonT(30), <2>1, <2>2
<1>10. m \in LookupTables /\ Inverts(m, sorted, << >>, InUse)
  BY <1>1, <1>2, <1>7, <1>8, <1>9, ReindexedInverts
<1> HIDE DEF m
<1>11. Spread(particles, ghosts, m_rtag, m_tag_set, InUse)
  BY Zenon DEF IInv
<1>12. /\ particles' \in [Ranks -> Seq(Particle)] /\ m_rtag' \in [Ranks -> LookupTables]
       /\ particles'[owner] = sorted /\ m_rtag'[owner] = m
       /\ \A r \in Ranks : r # owner => particles'[r] = particles[r] /\ m_rtag'[r] = m_rtag[r]
  BY SMTT(30), <1>2, <1>7, <1>10, <1>11 DEF Spread
<1>13. \A r \in Ranks : /\ Owned(particles'[r]) = Owned(particles[r])
                        /\ Inverts(m_rtag'[r], particles'[r], ghosts[r], InUse)
  <2> TAKE r \in Ranks
  <2>1. CASE r = owner
    BY ZenonT(30), <1>2, <1>9, <1>10, <1>12, <2>1 DEF ps
  <2>2. CASE r # owner
    BY ZenonT(30), <1>11, <1>12, <2>2 DEF Spread
  <2> QED
    BY Zenon, <2>1, <2>2
<1>14. ghosts' = ghosts
  BY Zenon, <1>2
<1>15. Spread(particles', ghosts', m_rtag', m_tag_set', InUse')
  BY SMTT(30), <1>3, <1>11, <1>12, <1>13, <1>14 DEF Spread
<1> QED
  BY Zenon, <1>3, <1>15 DEF IInv

\* Received particles behind the ones kept.
LEMMA ConcatOwned ==
  ASSUME NEW a \in Seq(Particle), NEW b \in Seq(Particle), Distinct(a), Distinct(b),
         Owned(a) \cap Owned(b) = {}
  PROVE  a \o b \in Seq(Particle) /\ Distinct(a \o b) /\ Owned(a \o b) = Owned(a) \cup Owned(b)
<1> DEFINE q == a \o b
<1>1. /\ q \in Seq(Particle) /\ Len(a) \in Nat /\ Len(b) \in Nat /\ Len(q) = Len(a) + Len(b)
      /\ \A i \in 1..Len(a) : q[i] = a[i]
      /\ \A i \in 1..Len(b) : q[Len(a) + i] = b[i]
  OBVIOUS
<1> HIDE DEF q
<1>2. \A i \in 1..Len(q) : \/ i \in 1..Len(a) /\ q[i] = a[i]
                           \/ i - Len(a) \in 1..Len(b) /\ q[i] = b[i - Len(a)]
  <2> TAKE i \in 1..Len(q)
  <2>1. CASE i <= Len(a)
    BY <1>1, <2>1
  <2>2. CASE i > Len(a)
    <3>1. i - Len(a) \in 1..Len(b) /\ Len(a) + (i - Len(a)) = i
      BY <1>1, <2>2
    <3> QED
      BY ZenonT(30), <1>1, <3>1
  <2> QED
    BY <1>1, <2>1, <2>2
<1>3. \A i \in 1..Len(a) : i \in 1..Len(q)
  BY <1>1
<1>4. \A i \in 1..Len(b) : Len(a) + i \in 1..Len(q)
  BY <1>1
<1>5. \A t : t \in Owned(q) <=> t \in Owned(a) \/ t \in Owned(b)
  <2>1. \A t \in Owned(q) : t \in Owned(a) \/ t \in Owned(b)
    BY ZenonT(30), <1>2 DEF Owned
  <2>2. \A t \in Owned(a) : t \in Owned(q)
    BY ZenonT(30), <1>1, <1>3 DEF Owned
  <2>3. \A t \in Owned(b) : t \in Owned(q)
    <3> TAKE t \in Owned(b)
    <3>1. PICK i \in 1..Len(b) : t = b[i].tag
      BY DEF Owned
    <3>2. t = q[Len(a) + i].tag /\ Len(a) + i \in 1..Len(q)
      BY ZenonT(30), <1>1, <1>4, <3>1
    <3> QED
      BY ZenonT(30), <3>2 DEF Owned
  <2> QED
    BY Zenon, <2>1, <2>2, <2>3
<1>6. Distinct(q)
  <2> SUFFICES ASSUME NEW i \in 1..Len(q), NEW j \in 1..Len(q), q[i].tag = q[j].tag
               PROVE  i = j
    BY Zenon DEF Distinct
  <2>1. \A k \in 1..Len(a) : a[k].tag \in Owned(a)
    BY Zenon DEF Owned
  <2>2. \A k \in 1..Len(b) : b[k].tag \in Owned(b)
    BY Zenon DEF Owned
  <2>3. CASE i \in 1..Len(a) /\ q[i] = a[i] /\ j \in 1..Len(a) /\ q[j] = a[j]
    BY ZenonT(30), <2>3 DEF Distinct
  <2>4. CASE i - Len(a) \in 1..Len(b) /\ q[i] = b[i - Len(a)] /\ j - Len(a) \in 1..Len(b) /\ q[j] = b[j - Len(a)]
    BY SMTT(30), <1>1, <2>4 DEF Distinct
  <2> QED
    BY SMTT(30), <1>2, <2>1, <2>2, <2>3, <2>4
<1> QED
  BY SMTT(30), <1>1, <1>5, <1>6 DEF q

\* One direction of migrateParticles: what a rank gives up arrives at its
\* neighbour.
LEMMA migrateIInv ==
  ASSUME IInv, NEW neighbor \in [Ranks -> Ranks],
         \A r, s \in Ranks : neighbor[r] = neighbor[s] => r = s,
         NEW S \in [Ranks -> SUBSET m_tag_set], migrate(neighbor, S)
  PROVE  IInv'
<1> DEFINE recv(r) == CHOOSE s \in Ranks : neighbor[s] = r
           left(r) == Kept(r, S[r])
           sent(r) == Sent(r, S[r])
           now(r) == left(r) \o sent(recv(r))
           old(r) == Forget(m_rtag[r], S[r])
           l(r) == Reindexed(Reindexed(old(r), left(r)), now(r))
<1>1. /\ \A r \in Ranks : ghosts[r] = << >>
      /\ \A r \in Ranks : \A t \in S[r] : isParticleLocal(r, t)
      /\ particles' = [r \in Ranks |-> now(r)]
      /\ m_rtag' = [r \in Ranks |-> l(r)]
      /\ ghosts' = ghosts
      /\ UNCHANGED <<replicated, cache>>
  BY Zenon DEF migrate
<1>2. Bookkeeping' /\ InUse' = InUse /\ m_tag_set' = m_tag_set
  BY ZenonT(30), <1>1, SameBookkeeping DEF IInv
<1>3. /\ \A t \in m_tag_set : t \in 0..InUse-1
      /\ InUse \in Nat /\ InUse <= MaxTags /\ MaxTags \in Nat
  BY ZenonT(30), BookkeepingMeans, ParticleDataAssumption DEF IInv
<1>4. /\ ghosts \in [Ranks -> Seq(Tags)]
      /\ \A r \in Ranks : Owned(particles[r]) \subseteq m_tag_set
      /\ \A t \in m_tag_set : \E r \in Ranks : t \in Owned(particles[r])
      /\ \A r, s \in Ranks : \A t \in Owned(particles[r]) : t \in Owned(particles[s]) => r = s
  BY Zenon DEF IInv, Spread
<1>5. \A r \in Ranks : S[r] \subseteq Owned(particles[r])
  <2> SUFFICES ASSUME NEW r \in Ranks, NEW t \in S[r]
               PROVE  t \in Owned(particles[r])
    BY Zenon
  <2>1. t \in 0..InUse-1 /\ isParticleLocal(r, t)
    BY <1>1, <1>3
  <2> QED
    BY ZenonT(30), <2>1, OnRank
<1>6. \A r \in Ranks : \E s \in Ranks : neighbor[s] = r
  <2>1. neighbor \in Injection(Ranks, Ranks)
    BY Zenon DEF Injection, IsInjective
  <2>2. neighbor \in Surjection(Ranks, Ranks)
    BY ZenonT(30), <2>1, FS_Injection, ParticleDataAssumption
  <2> QED
    BY ZenonT(30), <2>2 DEF Surjection
<1>7. \A r \in Ranks : recv(r) \in Ranks /\ neighbor[recv(r)] = r
  BY Zenon, <1>6
<1>8. \A r \in Ranks : recv(neighbor[r]) = r
  BY Zenon, <1>7
<1> HIDE DEF recv
<1>9. \A r \in Ranks :
        /\ left(r) \in Seq(Particle) /\ Distinct(left(r))
        /\ Owned(left(r)) = Owned(particles[r]) \ S[r]
        /\ sent(r) \in Seq(Particle) /\ Distinct(sent(r)) /\ Owned(sent(r)) = S[r]
  <2> TAKE r \in Ranks
  <2>1. /\ left(r) \in Seq(Particle) /\ Distinct(left(r))
        /\ Owned(left(r)) = Owned(particles[r]) \ S[r]
        /\ sent(r) \in Seq(Particle) /\ Distinct(sent(r))
        /\ Owned(sent(r)) = Owned(particles[r]) \cap S[r]
    BY Zenon, KeptSent
  <2>2. Owned(particles[r]) \cap S[r] = S[r]
    BY Zenon, <1>5
  <2> QED
    BY Zenon, <2>1, <2>2
<1> HIDE DEF left, sent
<1>10. \A r \in Ranks : Owned(left(r)) \cap Owned(sent(recv(r))) = {}
  <2> SUFFICES ASSUME NEW r \in Ranks, NEW t, t \in Owned(left(r)), t \in Owned(sent(recv(r)))
               PROVE  FALSE
    BY Zenon
  <2>1. t \in Owned(particles[r]) /\ t \notin S[r]
    BY <1>9
  <2>2. t \in S[recv(r)] /\ t \in Owned(particles[recv(r)])
    BY ZenonT(30), <1>5, <1>7, <1>9
  <2> QED
    BY ZenonT(30), <1>4, <1>7, <2>1, <2>2
<1>11. \A r \in Ranks : /\ now(r) \in Seq(Particle) /\ Distinct(now(r))
                        /\ Owned(now(r)) = Owned(left(r)) \cup Owned(sent(recv(r)))
  BY ZenonT(30), <1>7, <1>9, <1>10, ConcatOwned
<1>12. \A r \in Ranks : \A t : t \in Owned(now(r)) <=>
         \/ t \in Owned(particles[r]) /\ t \notin S[r]
         \/ t \in S[recv(r)]
  BY <1>7, <1>9, <1>11
<1> HIDE DEF now
<1>13. ASSUME NEW r \in Ranks
       PROVE  l(r) \in LookupTables /\ Inverts(l(r), now(r), << >>, InUse)
  <2>1. /\ m_rtag[r] \in LookupTables
        /\ \A t \in 0..InUse-1 : t \notin Owned(particles[r]) => m_rtag[r][t] = NOT_LOCAL
    BY ZenonT(30), <1>1, OnRank
  <2>2. /\ old(r) \in LookupTables
        /\ \A t \in Tags : old(r)[t] = IF t \in S[r] THEN NOT_LOCAL ELSE m_rtag[r][t]
    BY <2>1, Forgotten
  <2>3. \A t \in 0..InUse-1 : t \notin Owned(left(r)) => old(r)[t] = NOT_LOCAL
    <3> SUFFICES ASSUME NEW t \in 0..InUse-1, t \notin Owned(left(r))
                 PROVE  old(r)[t] = NOT_LOCAL
      BY ZenonT(30)
    <3>1. t \in Tags
      BY <1>3 DEF Tags
    <3>2. t \in S[r] \/ t \notin Owned(particles[r])
      BY Zenon, <1>9
    <3> HIDE DEF old
    <3> QED
      BY ZenonT(30), <2>1, <2>2, <3>1, <3>2
  <2> HIDE DEF old
  <2> DEFINE k == Reindexed(old(r), left(r))
  <2>4. k \in LookupTables /\ Inverts(k, left(r), << >>, InUse)
    BY ZenonT(30), <1>3, <1>9, <2>2, <2>3, ReindexedInverts
  <2> HIDE DEF k
  <2>5. \A t \in 0..InUse-1 : k[t] = NOT_LOCAL \/ (k[t] \in 1..Len(left(r)) /\ left(r)[k[t]].tag = t)
    BY <2>4 DEF Inverts
  <2>6. \A t \in 0..InUse-1 : t \notin Owned(left(r)) => k[t] = NOT_LOCAL
    BY ZenonT(30), <2>5 DEF Owned
  <2>7. \A t \in 0..InUse-1 : t \notin Owned(now(r)) => k[t] = NOT_LOCAL
    BY ZenonT(30), <1>11, <2>6
  <2>8. Reindexed(k, now(r)) \in LookupTables /\ Inverts(Reindexed(k, now(r)), now(r), << >>, InUse)
    BY ZenonT(30), <1>3, <1>11, <2>4, <2>7, ReindexedInverts
  <2> QED
    BY ZenonT(30), <2>8 DEF k
<1> HIDE DEF l
<1>14. \A r \in Ranks : \A t \in Owned(now(r)) : t \in m_tag_set
  BY ZenonT(30), <1>4, <1>7, <1>12
<1>15. \A t \in m_tag_set : \E r \in Ranks : t \in Owned(now(r))
  <2> TAKE t \in m_tag_set
  <2>1. PICK r \in Ranks : t \in Owned(particles[r])
    BY Zenon, <1>4
  <2>2. CASE t \notin S[r]
    BY ZenonT(30), <1>12, <2>1, <2>2
  <2>3. CASE t \in S[r]
    <3>1. neighbor[r] \in Ranks /\ t \in S[recv(neighbor[r])]
      BY ZenonT(30), <1>8, <2>3
    <3> QED
      BY ZenonT(30), <1>12, <3>1
  <2> QED
    BY Zenon, <2>2, <2>3
<1>16. \A r, s \in Ranks : \A t \in Owned(now(r)) : t \in Owned(now(s)) => r = s
  <2> SUFFICES ASSUME NEW r \in Ranks, NEW s \in Ranks, NEW t,
                      t \in Owned(now(r)), t \in Owned(now(s))
               PROVE  r = s
    BY Zenon
  <2>1. PICK o \in Ranks : t \in Owned(particles[o])
    BY ZenonT(30), <1>4, <1>14
  <2>2. \A u \in Ranks : t \in Owned(particles[u]) => u = o
    BY Zenon, <1>4, <2>1
  <2>3. \A u \in Ranks : t \in S[u] => u = o
    BY Zenon, <1>5, <2>2
  <2>4. \A u \in Ranks : t \in Owned(now(u)) => u = IF t \in S[o] THEN neighbor[o] ELSE o
    <3> SUFFICES ASSUME NEW u \in Ranks, t \in Owned(now(u))
                 PROVE  u = IF t \in S[o] THEN neighbor[o] ELSE o
      BY Zenon
    <3>1. CASE t \in Owned(particles[u]) /\ t \notin S[u]
      BY <2>2, <3>1
    <3>2. CASE t \in S[recv(u)]
      BY ZenonT(30), <1>7, <2>3, <3>2
    <3> QED
      BY <1>12, <3>1, <3>2
  <2> QED
    BY ZenonT(30), <2>4
<1>17. /\ particles' \in [Ranks -> Seq(Particle)] /\ \A r \in Ranks : particles'[r] = now(r)
       /\ m_rtag' \in [Ranks -> LookupTables] /\ \A r \in Ranks : m_rtag'[r] = l(r)
       /\ ghosts' \in [Ranks -> Seq(Tags)] /\ \A r \in Ranks : ghosts'[r] = << >>
  BY <1>1, <1>4, <1>11, <1>13
<1>18. Spread(particles', ghosts', m_rtag', m_tag_set', InUse')
  BY <1>2, <1>13, <1>14, <1>15, <1>16, <1>17 DEF Spread
<1> QED
  BY <1>2, <1>18 DEF IInv

\* The empty particle data satisfies the invariant.
LEMMA InitIInv ==
  ASSUME Init
  PROVE  IInv
<1> USE ParticleDataAssumption
<1>1. InUse = 0
  BY DEF Init, InUse
<1>2. Range(m_recycled_tags) = {} /\ DOMAIN m_recycled_tags = {}
  BY DEF Init, Range
<1>3. TagsPartition
  BY <1>2, FS_EmptySet DEF Init, TagsPartition
<1>4. Bookkeeping
  BY <1>1, <1>3 DEF Init, Bookkeeping, LookupTableSize, CacheListsActiveTags
<1>5. \A r \in Ranks : particles[r] = << >> /\ ghosts[r] = << >> /\ m_rtag[r] = [t \in Tags |-> NOT_LOCAL]
  BY Zenon DEF Init
<1>6. [t \in Tags |-> NOT_LOCAL] \in LookupTables
  BY DEF LookupTables
<1>7. Owned(<< >>) = {}
  BY DEF Owned
<1>8. \A r \in Ranks : Inverts(m_rtag[r], particles[r], ghosts[r], InUse)
  BY <1>1, <1>5 DEF Inverts
<1>9. /\ particles \in [Ranks -> Seq(Particle)] /\ ghosts \in [Ranks -> Seq(Tags)]
      /\ m_rtag \in [Ranks -> LookupTables] /\ m_tag_set = {}
  BY <1>6 DEF Init
<1>10. Spread(particles, ghosts, m_rtag, m_tag_set, InUse)
  BY ZenonT(30), <1>5, <1>7, <1>8, <1>9 DEF Spread
<1> QED
  BY ZenonT(30), <1>4, <1>10 DEF IInv

\* Every step keeps the invariant.
LEMMA NextIInv ==
  ASSUME IInv, [Next]_vars
  PROVE  IInv'
<1>1. CASE initializeFromSnapshot
  BY ZenonT(30), <1>1, FromSnapshotIInv DEF initializeFromSnapshot
<1>2. CASE addParticle
  BY ZenonT(30), <1>2, addParticleIInv
<1>3. ASSUME NEW t \in Tags, removeParticle(t)
      PROVE  IInv'
  BY ZenonT(30), <1>3, removeParticleIInv
<1>4. CASE removeAllGhostParticles
  BY <1>4, removeAllGhostParticlesIInv
<1>5. ASSUME NEW t \in Tags, NEW r \in Ranks, NEW v \in Values, setPosition(t, r, v)
      PROVE  IInv'
  BY Zenon, <1>5, setPositionIInv
<1>6. ASSUME NEW neighbor \in {f \in [Ranks -> Ranks] : \A r, s \in Ranks : f[r] = f[s] => r = s},
             NEW S \in [Ranks -> SUBSET m_tag_set], migrate(neighbor, S)
      PROVE  IInv'
  <2>1. neighbor \in [Ranks -> Ranks] /\ \A r, s \in Ranks : neighbor[r] = neighbor[s] => r = s
    BY Zenon
  <2> QED
    BY ZenonT(30), <1>6, <2>1, migrateIInv
<1>7. ASSUME NEW gs \in [Ranks -> GhostLists], exchangeGhosts(gs)
      PROVE  IInv'
  BY Zenon, <1>7, exchangeGhostsIInv
<1>8. ASSUME NEW r \in Ranks, NEW order \in Permuted(N(r)), applySortOrder(r, order)
      PROVE  IInv'
  BY <1>8, applySortOrderIInv
<1>9. ASSUME NEW n \in 0..MaxTags-1, getNthTag(n)
      PROVE  IInv'
  BY ZenonT(30), <1>9, getNthTagIInv
<1>10. ASSUME NEW t \in Tags, NEW v \in Values, setAngularMomentum(t, v)
       PROVE  IInv'
  BY <1>10, setAngularMomentumIInv
<1>11. CASE UNCHANGED vars
  <2>1. UNCHANGED <<replicated, cache>> /\ particles' = particles /\ ghosts' = ghosts /\ m_rtag' = m_rtag
    BY Zenon, <1>11 DEF vars
  <2>2. Bookkeeping' /\ InUse' = InUse /\ m_tag_set' = m_tag_set
    BY Zenon, <2>1, SameBookkeeping DEF IInv
  <2> QED
    BY Zenon, <2>1, <2>2 DEF IInv, Spread
<1> QED
  BY SMTT(30), <1>1, <1>2, <1>3, <1>4, <1>5, <1>6, <1>7, <1>8, <1>9, <1>10, <1>11 DEF Next

\* What the invariant says in terms of the properties.
LEMMA IInvMeans ==
  ASSUME IInv
  PROVE  OneOwnerPerTag /\ LookupInvertsTags
<1>1. /\ Spread(particles, ghosts, m_rtag, m_tag_set, InUse) /\ MaxTags \in Nat
      /\ InUse \in Nat /\ InUse <= MaxTags
  BY Zenon, BookkeepingMeans, ParticleDataAssumption DEF IInv
<1>2. \A r \in Ranks : N(r) = Len(particles[r]) /\ Distinct(particles[r])
  BY OnRank
<1>3. OneOwnerPerTag
  <2>1. \A t \in m_tag_set : \E r \in Ranks : \E i \in 1..N(r) : particles[r][i].tag = t
    BY Zenon, <1>1, <1>2 DEF Spread, Owned
  <2>2. ASSUME NEW r \in Ranks, NEW i \in 1..N(r)
        PROVE  /\ particles[r][i].tag \in m_tag_set
               /\ \A s \in Ranks : \A j \in 1..N(s) :
                    particles[s][j].tag = particles[r][i].tag => s = r /\ j = i
    <3>1. particles[r][i].tag \in Owned(particles[r])
      BY Zenon, <1>2 DEF Owned
    <3>2. particles[r][i].tag \in m_tag_set
      BY ZenonT(30), <1>1, <3>1 DEF Spread
    <3>3. ASSUME NEW s \in Ranks, NEW j \in 1..N(s), particles[s][j].tag = particles[r][i].tag
          PROVE  s = r /\ j = i
      <4>1. particles[r][i].tag \in Owned(particles[s])
        BY Zenon, <1>2, <3>3 DEF Owned
      <4>2. s = r
        BY ZenonT(30), <1>1, <3>1, <4>1 DEF Spread
      <4> QED
        BY ZenonT(30), <1>2, <3>3, <4>2 DEF Distinct
    <3> QED
      BY Zenon, <3>2, <3>3
  <2> QED
    BY ZenonT(30), <2>1, <2>2 DEF OneOwnerPerTag
<1>4. TypeOK
  <2>1. m_rtag_size \in 0..MaxTags /\ m_nglobal \in 0..MaxTags
    BY <1>1, BookkeepingMeans DEF IInv, Bookkeeping
  <2>2. /\ particles \in [Ranks -> Seq(Particle)] /\ ghosts \in [Ranks -> Seq(Tags)]
        /\ m_rtag \in [Ranks -> [Tags -> {NOT_LOCAL} \cup (Nat \ {0})]]
    BY Zenon, <1>1 DEF Spread, LookupTables
  <2> QED
    BY Zenon, <2>1, <2>2 DEF TypeOK, IInv, Bookkeeping
<1>5. ASSUME NEW r \in Ranks
      PROVE  /\ \A i \in 1..N(r) + Len(ghosts[r]) : m_rtag[r][TagAt(r, i)] = i
             /\ \A t \in 0..m_rtag_size-1 :
                  m_rtag[r][t] # NOT_LOCAL =>
                    m_rtag[r][t] <= N(r) + Len(ghosts[r]) /\ TagAt(r, m_rtag[r][t]) = t
  <2> DEFINE ps == particles[r]
             gs == ghosts[r]
             l == m_rtag[r]
  <2>1. /\ N(r) = Len(ps) /\ N(r) \in Nat /\ ps \in Seq(Particle) /\ gs \in Seq(Tags)
        /\ m_rtag_size \in Nat /\ m_rtag_size <= InUse
    BY Zenon, OnRank
  <2>2. Inverts(l, ps, gs, InUse)
    BY Zenon, <1>1 DEF Spread
  <2>3. \A i : TagAt(r, i) = IF i <= N(r) THEN ps[i].tag ELSE gs[i - N(r)]
    BY Zenon DEF TagAt
  <2> HIDE DEF ps, gs, l
  <2>4. \A i \in 1..N(r) + Len(gs) : l[TagAt(r, i)] = i
    <3> TAKE i \in 1..N(r) + Len(gs)
    <3>1. CASE i <= N(r)
      BY <2>1, <2>2, <2>3, <3>1 DEF Inverts
    <3>2. CASE i > N(r)
      <4>1. i - N(r) \in 1..Len(gs) /\ TagAt(r, i) = gs[i - N(r)]
        BY <2>1, <2>3, <3>2
      <4> QED
        BY <2>1, <2>2, <4>1 DEF Inverts
    <3> QED
      BY <2>1, <3>1, <3>2
  <2>5. \A t \in 0..m_rtag_size-1 :
          l[t] # NOT_LOCAL => l[t] <= N(r) + Len(gs) /\ TagAt(r, l[t]) = t
    <3> SUFFICES ASSUME NEW t \in 0..m_rtag_size-1, l[t] # NOT_LOCAL
                 PROVE  l[t] <= N(r) + Len(gs) /\ TagAt(r, l[t]) = t
      BY Zenon
    <3>1. l[t] \in Int
      BY <1>1, <2>1 DEF Spread, LookupTables, NOT_LOCAL, Tags, l
    <3>2. \/ l[t] \in 1..Len(ps) /\ ps[l[t]].tag = t
          \/ l[t] - Len(ps) \in 1..Len(gs) /\ gs[l[t] - Len(ps)] = t
      BY <1>1, <2>1, <2>2 DEF Inverts
    <3> QED
      BY <2>1, <2>3, <3>1, <3>2
  <2> QED
    BY ZenonT(30), <2>4, <2>5 DEF gs, l
<1> QED
  BY ZenonT(30), <1>3, <1>4, <1>5 DEF LookupInvertsTags

\* The invariant holds in every reachable state.
LEMMA IInvHolds == Spec => []IInv
<1>1. Init => IInv
  BY ZenonT(30), InitIInv
<1>2. IInv /\ [Next]_vars => IInv'
  BY NextIInv
<1> QED
  BY <1>1, <1>2, PTL DEF Spec

\* Every active tag names one particle on one rank, whatever is added,
\* removed, moved or migrated.
THEOREM OneOwner == Spec => []OneOwnerPerTag
<1>1. IInv => OneOwnerPerTag
  BY Zenon, IInvMeans
<1> QED
  BY <1>1, IInvHolds, PTL

\* m_rtag finds every particle and every ghost of a rank and nothing else.
THEOREM LookupIsInverse == Spec => []LookupInvertsTags
<1>1. IInv => LookupInvertsTags
  BY ZenonT(30), IInvMeans
<1> QED
  BY <1>1, IInvHolds, PTL

\* addParticle never takes a tag that is in use, and no tag is lost.
THEOREM TagBookkeeping == Spec => []TagsPartition
<1>1. IInv => TagsPartition
  BY Zenon DEF IInv, Bookkeeping
<1> QED
  BY <1>1, IInvHolds, PTL

\* The assertion of addParticle on the size of the lookup table holds, and the
\* table covers every tag in use.
THEOREM LookupTableCovers == Spec => []LookupTableSize
<1>1. IInv => LookupTableSize
  BY Zenon DEF IInv, Bookkeeping
<1> QED
  BY <1>1, IInvHolds, PTL

\* getNthTag never answers from a stale cache.
THEOREM CacheNeverStale == Spec => []CacheListsActiveTags
<1>1. IInv => CacheListsActiveTags
  BY Zenon DEF IInv, Bookkeeping
<1> QED
  BY <1>1, IInvHolds, PTL
=============================================================================
