-------------------------- MODULE BondedGroupProofs --------------------------
(***************************************************************************)
(* The theorems about BondedGroupData, for any ranks, particles, group     *)
(* size and number of groups: a rank stores exactly the groups that have a *)
(* member on it, and finds each of them.                                   *)
(***************************************************************************)
EXTENDS BondedGroupData, TagLemmas

-----------------------------------------------------------------------------
(***************************************************************************)
(* One rank: gs is its table, l its lookup, H the tags it should store, M  *)
(* the members of each group.                                              *)
(***************************************************************************)
Stores(gs, l, H, M) ==
  /\ gs \in Seq(Group)
  /\ l \in [GroupTags -> Int]
  /\ \A i \in 1..Len(gs) : /\ l[gs[i].tag] = i
                           /\ gs[i].tag \in H
                           /\ gs[i].members = M[gs[i].tag]
  /\ \A t \in GroupTags : l[t] # GROUP_NOT_LOCAL => l[t] \in 1..Len(gs) /\ gs[l[t]].tag = t
  /\ \A t \in H : l[t] # GROUP_NOT_LOCAL

\* A group is a tag and its members.
LEMMA GroupFields ==
  /\ \A g \in Group : g.tag \in GroupTags /\ g.members \in MemberSets
                      /\ g = [tag |-> g.tag, members |-> g.members]
  /\ \A t \in GroupTags, S \in MemberSets :
       /\ [tag |-> t, members |-> S] \in Group
       /\ [tag |-> t, members |-> S].tag = t
       /\ [tag |-> t, members |-> S].members = S
  BY DEF Group

\* No position is the mark of a group that is not local.
LEMMA NotLocal ==
  GROUP_NOT_LOCAL \in Int /\ \A n \in Nat : n # GROUP_NOT_LOCAL
  BY DEF GROUP_NOT_LOCAL

\* The lookup says not local for every tag that is not to be stored.
LEMMA NotHeld ==
  ASSUME NEW gs, NEW l, NEW H, NEW M, Stores(gs, l, H, M), NEW t \in GroupTags, t \notin H
  PROVE  l[t] = GROUP_NOT_LOCAL /\ [l EXCEPT ![t] = GROUP_NOT_LOCAL] = l
<1>1. l[t] = GROUP_NOT_LOCAL
  BY Zenon DEF Stores
<1>2. l \in [GroupTags -> Int]
  BY Zenon DEF Stores
<1> QED
  BY Zenon, <1>1, <1>2

\* No group is in a table twice.
LEMMA StoredOnce ==
  ASSUME NEW gs, NEW l, NEW H, NEW M, Stores(gs, l, H, M)
  PROVE  \A i, j \in 1..Len(gs) : gs[i].tag = gs[j].tag => i = j
<1>1. \A i \in 1..Len(gs) : l[gs[i].tag] = i
  BY Zenon DEF Stores
<1> QED
  BY SMT, <1>1

\* The table of a rank and what it should store are the same groups.
LEMMA StoresExactly ==
  ASSUME NEW gs, NEW l, NEW H \in SUBSET GroupTags, NEW M, Stores(gs, l, H, M)
  PROVE  {gs[i] : i \in 1..Len(gs)} = {[tag |-> t, members |-> M[t]] : t \in H}
<1>1. \A i \in 1..Len(gs) : gs[i] \in Group
  BY DEF Stores
<1>2. \A i \in 1..Len(gs) : gs[i] = [tag |-> gs[i].tag, members |-> M[gs[i].tag]] /\ gs[i].tag \in H
  BY Zenon, <1>1, GroupFields DEF Stores
<1>3. ASSUME NEW t \in H
      PROVE  \E i \in 1..Len(gs) : gs[i] = [tag |-> t, members |-> M[t]]
  <2>1. l[t] \in 1..Len(gs) /\ gs[l[t]].tag = t
    BY Zenon DEF Stores
  <2> QED
    BY Zenon, <2>1, <1>2
<1>4. ASSUME NEW i \in 1..Len(gs) PROVE gs[i] \in {[tag |-> t, members |-> M[t]] : t \in H}
  BY Zenon, <1>2
<1>5. ASSUME NEW t \in H PROVE [tag |-> t, members |-> M[t]] \in {gs[i] : i \in 1..Len(gs)}
  BY Zenon, <1>3
<1> QED
  BY Zenon, <1>4, <1>5

\* The lookup finds a tag where it is, and nowhere else.
FoundAt(gs, l, t) ==
  LET at == {i \in 1..Len(gs) : gs[i].tag = t} IN
  IF l[t] = GROUP_NOT_LOCAL THEN at = {} ELSE at = {l[t]}

LEMMA LookupFinds ==
  ASSUME NEW gs, NEW l, NEW H, NEW M, Stores(gs, l, H, M), NEW t \in GroupTags
  PROVE  FoundAt(gs, l, t)
<1>1. ASSUME NEW i \in 1..Len(gs), gs[i].tag = t PROVE i = l[t] /\ l[t] # GROUP_NOT_LOCAL
  <2>1. i = l[t] /\ i \in Nat
    BY <1>1 DEF Stores
  <2> QED
    BY Zenon, <2>1, NotLocal
<1>2. CASE l[t] = GROUP_NOT_LOCAL
  BY Zenon, <1>1, <1>2 DEF FoundAt
<1>3. CASE l[t] # GROUP_NOT_LOCAL
  <2>1. l[t] \in 1..Len(gs) /\ gs[l[t]].tag = t
    BY Zenon, <1>3 DEF Stores
  <2> QED
    BY Zenon, <1>1, <1>3, <2>1 DEF FoundAt
<1> QED
  BY Zenon, <1>2, <1>3

-----------------------------------------------------------------------------
(***************************************************************************)
(* What the operations do to the table and the lookup of one rank.         *)
(***************************************************************************)

\* moveParticleGroups on the new rank, and addBondedGroup: groups that the
\* rank does not have go to the end of its table.
Appended(gs, l, X) ==
  [t \in GroupTags |->
     IF \E i \in Len(gs)+1..Len(gs \o X) : (gs \o X)[i].tag = t
       THEN CHOOSE i \in Len(gs)+1..Len(gs \o X) : (gs \o X)[i].tag = t
       ELSE l[t]]

LEMMA StoresExtend ==
  ASSUME NEW gs, NEW l, NEW H \in SUBSET GroupTags, NEW M, Stores(gs, l, H, M),
         NEW X \in Seq(Group), NEW K \in SUBSET GroupTags,
         \A i \in 1..Len(X) : /\ X[i].tag \in K /\ X[i].tag \notin H
                              /\ X[i].members = M[X[i].tag],
         \A i, j \in 1..Len(X) : X[i].tag = X[j].tag => i = j,
         \A t \in K : t \in H \/ \E i \in 1..Len(X) : X[i].tag = t
  PROVE  Stores(gs \o X, Appended(gs, l, X), H \cup K, M)
<1> DEFINE n == Len(gs)
           hs == gs \o X
           new == n+1..Len(hs)
           a == Appended(gs, l, X)
<1>1. gs \in Seq(Group) /\ l \in [GroupTags -> Int]
  BY Zenon DEF Stores
<1>2. /\ hs \in Seq(Group) /\ n \in Nat /\ Len(hs) = n + Len(X)
      /\ \A i \in 1..n : i \in 1..Len(hs) /\ hs[i] = gs[i] /\ i \notin new
      /\ \A i \in 1..Len(X) : n + i \in new /\ hs[n + i] = X[i]
      /\ \A i \in new : i \in 1..Len(hs) /\ i \in Int /\ i \in Nat
                        /\ i - n \in 1..Len(X) /\ hs[i] = X[i - n]
      /\ \A i \in 1..Len(hs) : i \in 1..n \/ i \in new
      /\ \A i, j \in new : i - n = j - n => i = j
  BY SMTT(30), <1>1
<1>3. a = [t \in GroupTags |-> IF \E i \in new : hs[i].tag = t
                                 THEN CHOOSE i \in new : hs[i].tag = t ELSE l[t]]
  BY Zenon DEF Appended
<1> HIDE DEF n, hs, new, a
<1>4. /\ \A i \in new : hs[i].tag \in K /\ hs[i].tag \notin H /\ hs[i].members = M[hs[i].tag]
      /\ \A i, j \in new : hs[i].tag = hs[j].tag => i = j
  <2>1. \A i \in new : i - n \in 1..Len(X) /\ hs[i] = X[i - n]
    BY Zenon, <1>2
  <2>2. \A i, j \in new : i - n = j - n => i = j
    BY Zenon, <1>2
  <2>3. ASSUME NEW i \in new, NEW j \in new, hs[i].tag = hs[j].tag PROVE i = j
    <3>1. X[i - n].tag = X[j - n].tag
      BY Zenon, <2>1, <2>3
    <3>2. i - n = j - n
      BY Zenon, <2>1, <3>1
    <3> QED
      BY Zenon, <2>2, <3>2
  <2>4. ASSUME NEW i \in new
        PROVE  hs[i].tag \in K /\ hs[i].tag \notin H /\ hs[i].members = M[hs[i].tag]
    <3>1. i - n \in 1..Len(X) /\ hs[i] = X[i - n]
      BY Zenon, <2>1
    <3> QED
      BY ZenonT(60), <3>1
  <2> QED
    BY Zenon, <2>3, <2>4
<1>5. ASSUME NEW i \in new PROVE a[hs[i].tag] = i
  <2>1. hs[i].tag \in GroupTags
    BY Zenon, <1>4
  <2>2. (CHOOSE j \in new : hs[j].tag = hs[i].tag) = i
    BY Zenon, <1>4
  <2> QED
    BY Zenon, <1>3, <2>1, <2>2
<1>6. ASSUME NEW t \in GroupTags, \A i \in new : hs[i].tag # t PROVE a[t] = l[t]
  BY Zenon, <1>3, <1>6
<1>7. ASSUME NEW t \in H PROVE \A i \in new : hs[i].tag # t
  BY SMT, <1>4
<1>8. \A i \in 1..n : /\ l[gs[i].tag] = i
                      /\ gs[i].tag \in H
                      /\ gs[i].members = M[gs[i].tag]
  BY Zenon DEF Stores, n
<1>9. \A t \in GroupTags : l[t] # GROUP_NOT_LOCAL => l[t] \in 1..n /\ gs[l[t]].tag = t
  BY Zenon DEF Stores, n
<1>10. a \in [GroupTags -> Int]
  <2>1. ASSUME NEW t \in GroupTags PROVE a[t] \in Int
    <3>1. CASE \A i \in new : hs[i].tag # t
      BY Zenon, <1>1, <1>6, <3>1
    <3>2. CASE \E i \in new : hs[i].tag = t
      <4>1. PICK i \in new : hs[i].tag = t
        BY Zenon, <3>2
      <4>2. a[t] = i
        BY Zenon, <4>1, <1>5
      <4> QED
        BY Zenon, <4>2, <1>2
    <3> QED
      BY Zenon, <3>1, <3>2
  <2> QED
    BY Zenon, <1>3, <2>1
<1>11. ASSUME NEW i \in 1..Len(hs)
       PROVE  a[hs[i].tag] = i /\ hs[i].tag \in H \cup K /\ hs[i].members = M[hs[i].tag]
  <2>1. CASE i \in 1..n
    <3>1. hs[i] = gs[i] /\ gs[i].tag \in H /\ gs[i].tag \in GroupTags
      BY Zenon, <2>1, <1>2, <1>8
    <3>2. a[gs[i].tag] = l[gs[i].tag]
      BY Zenon, <3>1, <1>6, <1>7
    <3> QED
      BY Zenon, <2>1, <3>1, <3>2, <1>8
  <2>2. CASE i \in new
    BY Zenon, <2>2, <1>4, <1>5
  <2> QED
    BY Zenon, <2>1, <2>2, <1>2
<1>12. ASSUME NEW t \in GroupTags, a[t] # GROUP_NOT_LOCAL
       PROVE  a[t] \in 1..Len(hs) /\ hs[a[t]].tag = t
  <2>1. CASE \A i \in new : hs[i].tag # t
    <3>1. l[t] \in 1..n /\ gs[l[t]].tag = t /\ a[t] = l[t]
      BY Zenon, <2>1, <1>6, <1>9, <1>12
    <3> QED
      BY ZenonT(60), <3>1, <1>2
  <2>2. CASE \E i \in new : hs[i].tag = t
    <3>1. PICK i \in new : hs[i].tag = t
      BY Zenon, <2>2
    <3>2. a[t] = i
      BY Zenon, <3>1, <1>5
    <3> QED
      BY SMT, <3>1, <3>2, <1>2
  <2> QED
    BY Zenon, <2>1, <2>2
<1>13. ASSUME NEW t \in H \cup K PROVE a[t] # GROUP_NOT_LOCAL
  <2>1. CASE t \in H
    <3>1. a[t] = l[t]
      BY Zenon, <2>1, <1>6, <1>7
    <3> QED
      BY Zenon, <2>1, <3>1 DEF Stores
  <2>2. CASE t \notin H
    <3>1. PICK i \in 1..Len(X) : X[i].tag = t
      BY Zenon, <2>2
    <3>2. n + i \in new /\ hs[n + i].tag = t
      BY Zenon, <3>1, <1>2
    <3> QED
      <4>1. a[t] = n + i
        BY Zenon, <3>2, <1>5
      <4> QED
        BY Zenon, <3>2, <4>1, <1>2, NotLocal
  <2> QED
    BY Zenon, <2>1, <2>2
<1> QED
  BY Zenon, <1>2, <1>10, <1>11, <1>12, <1>13 DEF Stores, hs, a

\* What is stored depends on the members of the stored groups only.
LEMMA StoresMembers ==
  ASSUME NEW gs, NEW l, NEW H, NEW M, NEW M2, Stores(gs, l, H, M),
         \A t \in H : M2[t] = M[t]
  PROVE  Stores(gs, l, H, M2)
<1>1. ASSUME NEW i \in 1..Len(gs)
      PROVE  l[gs[i].tag] = i /\ gs[i].tag \in H /\ gs[i].members = M2[gs[i].tag]
  <2>1. l[gs[i].tag] = i /\ gs[i].tag \in H /\ gs[i].members = M[gs[i].tag]
    BY Zenon DEF Stores
  <2> QED
    BY Zenon, <2>1
<1> QED
  BY Zenon, <1>1 DEF Stores

\* addBondedGroup on a rank that owns a member of the new group.
LEMMA StoresAppend ==
  ASSUME NEW gs, NEW l, NEW H \in SUBSET GroupTags, NEW M, Stores(gs, l, H, M),
         NEW tag \in GroupTags, tag \notin H, NEW S \in MemberSets, M[tag] = S
  PROVE  Stores(Append(gs, [tag |-> tag, members |-> S]), [l EXCEPT ![tag] = Len(gs) + 1],
                H \cup {tag}, M)
<1> DEFINE g == [tag |-> tag, members |-> S]
           X == <<g>>
           n == Len(gs)
<1>1. g \in Group /\ g.tag = tag /\ g.members = S
  BY Zenon, GroupFields
<1>2. gs \in Seq(Group) /\ l \in [GroupTags -> Int]
  BY Zenon DEF Stores
<1> HIDE DEF g
<1>3. X \in Seq(Group) /\ Len(X) = 1 /\ X[1] = g /\ 1..Len(X) = {1}
  BY <1>1
<1>4. /\ gs \o X = Append(gs, g) /\ n \in Nat
      /\ n+1..Len(gs \o X) = {n + 1} /\ (gs \o X)[n + 1] = g
  BY <1>1, <1>2
<1> HIDE DEF X, n
<1>5. Stores(gs \o X, Appended(gs, l, X), H \cup {tag}, M)
  <2>1. \A i \in 1..Len(X) : /\ X[i].tag \in {tag} /\ X[i].tag \notin H
                             /\ X[i].members = M[X[i].tag]
    BY Zenon, <1>1, <1>3
  <2>2. \A i, j \in 1..Len(X) : X[i].tag = X[j].tag => i = j
    BY Zenon, <1>3
  <2>3. \A t \in {tag} : t \in H \/ \E i \in 1..Len(X) : X[i].tag = t
    BY Zenon, <1>1, <1>3
  <2>4. {tag} \in SUBSET GroupTags
    BY Zenon
  <2> QED
    BY Zenon, <1>3, <2>1, <2>2, <2>3, <2>4, StoresExtend
<1>6. Appended(gs, l, X) = [l EXCEPT ![tag] = n + 1]
  <2>1. ASSUME NEW t \in GroupTags
        PROVE  Appended(gs, l, X)[t] = IF t = tag THEN n + 1 ELSE l[t]
    <3>1. Appended(gs, l, X)[t] =
            IF \E i \in {n + 1} : (gs \o X)[i].tag = t
              THEN CHOOSE i \in {n + 1} : (gs \o X)[i].tag = t ELSE l[t]
      BY Zenon, <1>4 DEF Appended, n
    <3>2. CASE t = tag
      <4>1. \E i \in {n + 1} : (gs \o X)[i].tag = t
        BY Zenon, <1>1, <1>4, <3>2
      <4>2. (CHOOSE i \in {n + 1} : (gs \o X)[i].tag = t) = n + 1
        BY Zenon, <4>1
      <4> QED
        BY Zenon, <3>1, <3>2, <4>1, <4>2
    <3>3. CASE t # tag
      <4>1. ~ \E i \in {n + 1} : (gs \o X)[i].tag = t
        BY Zenon, <1>1, <1>4, <3>3
      <4> QED
        BY Zenon, <3>1, <3>3, <4>1
    <3> QED
      BY Zenon, <3>2, <3>3
  <2>2. [l EXCEPT ![tag] = n + 1] = [t \in GroupTags |-> IF t = tag THEN n + 1 ELSE l[t]]
    BY Zenon, <1>2
  <2>3. Appended(gs, l, X) = [t \in GroupTags |-> Appended(gs, l, X)[t]]
    BY Zenon DEF Appended
  <2> QED
    BY Zenon, <2>1, <2>2, <2>3
<1> QED
  BY Zenon, <1>4, <1>5, <1>6 DEF g, n

\* removeBondedGroup on a rank that stores the group.
LEMMA StoresRemove ==
  ASSUME NEW gs, NEW l, NEW H \in SUBSET GroupTags, NEW M, Stores(gs, l, H, M),
         NEW tag \in H
  PROVE  LET id == l[tag]
             gone == [l EXCEPT ![tag] = GROUP_NOT_LOCAL]
         IN  /\ id \in 1..Len(gs)
             /\ Stores(MoveLastTo(gs, id),
                       IF id < Len(gs) THEN [gone EXCEPT ![gs[Len(gs)].tag] = id] ELSE gone,
                       H \ {tag}, M)
<1> DEFINE id == l[tag]
           n == Len(gs)
           last == gs[n].tag
           gone == [l EXCEPT ![tag] = GROUP_NOT_LOCAL]
           k == IF id < n THEN [gone EXCEPT ![last] = id] ELSE gone
           hs == MoveLastTo(gs, id)
<1>1. gs \in Seq(Group) /\ l \in [GroupTags -> Int] /\ GROUP_NOT_LOCAL \in Int
  BY Zenon, NotLocal DEF Stores
<1>2. /\ \A i \in 1..n : l[gs[i].tag] = i /\ gs[i].tag \in H /\ gs[i].members = M[gs[i].tag]
      /\ \A t \in GroupTags : l[t] # GROUP_NOT_LOCAL => l[t] \in 1..n /\ gs[l[t]].tag = t
      /\ \A t \in H : l[t] # GROUP_NOT_LOCAL
  BY Zenon DEF Stores
<1>3. id \in 1..n /\ gs[id].tag = tag /\ tag \in GroupTags
  BY Zenon, <1>2
<1>4. /\ hs \in Seq(Group) /\ Len(hs) = n - 1 /\ n \in Nat /\ n \in 1..n /\ id \in Int
      /\ \A i \in 1..n-1 : i \in 1..n /\ i # n /\ hs[i] = IF i = id THEN gs[n] ELSE gs[i]
      /\ \A i \in 1..n : i # n => i \in 1..n-1
      /\ id # n => id < n /\ id \in 1..n-1
      /\ id = n => ~(id < n)
  <2>1. n \in Nat /\ n \in 1..n /\ \A i \in 1..n : gs[i] \in Group
    BY <1>1, <1>3
  <2>2. hs = [i \in 1..n-1 |-> IF i = id THEN gs[n] ELSE gs[i]]
    BY Zenon DEF MoveLastTo
  <2>3. \A i \in 1..n-1 : i \in 1..n /\ i # n
    BY <2>1
  <2>4. \A i \in 1..n-1 : (IF i = id THEN gs[n] ELSE gs[i]) \in Group
    BY Zenon, <2>1, <2>3
  <2>5. n - 1 \in Nat
    BY <2>1
  <2> HIDE DEF hs, n, id
  <2>6. hs \in Seq(Group) /\ Len(hs) = n - 1
    BY SMT, <2>2, <2>4, <2>5
  <2>7. \A i \in 1..n-1 : hs[i] = IF i = id THEN gs[n] ELSE gs[i]
    BY Zenon, <2>2
  <2>8. /\ \A i \in 1..n : i # n => i \in 1..n-1
        /\ id # n => id < n /\ id \in 1..n-1
        /\ id = n => ~(id < n)
        /\ id \in Int
    BY <2>1, <1>3
  <2> QED
    BY Zenon, <2>1, <2>3, <2>6, <2>7, <2>8
<1>5. last \in GroupTags
  BY Zenon, <1>2, <1>4
<1> HIDE DEF id, n, last, hs
<1>6. gone \in [GroupTags -> Int] /\ gone[tag] = GROUP_NOT_LOCAL
      /\ \A t \in GroupTags : t # tag => gone[t] = l[t]
  BY Zenon, <1>1, <1>3
<1> HIDE DEF gone
<1>7. /\ k \in [GroupTags -> Int]
      /\ id < n => k[last] = id /\ \A t \in GroupTags : t # last => k[t] = gone[t]
      /\ ~(id < n) => k = gone
  BY Zenon, <1>4, <1>5, <1>6
<1> HIDE DEF k
<1>8. l[last] = n /\ l[tag] = id /\ last \in H
  BY Zenon, <1>2, <1>4 DEF last, id
<1>9. id # n <=> last # tag
  BY Zenon, <1>3, <1>8 DEF last
<1>10. /\ id # n => k[last] = id
       /\ \A t \in GroupTags : t # tag /\ t # last => k[t] = l[t]
       /\ k[tag] = GROUP_NOT_LOCAL
  BY ZenonT(30), <1>3, <1>4, <1>6, <1>7, <1>9
<1>11. ASSUME NEW i \in 1..n-1
       PROVE  k[hs[i].tag] = i /\ hs[i].tag \in H \ {tag} /\ hs[i].members = M[hs[i].tag]
  <2>1. i \in 1..n /\ i # n
    BY Zenon, <1>4
  <2>2. CASE i = id
    <3>1. hs[i] = gs[n] /\ hs[i].tag = last /\ id # n
      BY Zenon, <1>4, <2>1, <2>2 DEF last
    <3>2. gs[n].members = M[last] /\ last # tag
      BY Zenon, <1>2, <1>4, <1>9, <3>1 DEF last
    <3> QED
      BY Zenon, <1>8, <1>10, <2>2, <3>1, <3>2
  <2>3. CASE i # id
    <3>1. hs[i] = gs[i]
      BY Zenon, <1>4, <2>3
    <3>2. l[gs[i].tag] = i /\ gs[i].tag \in H /\ gs[i].members = M[gs[i].tag]
      BY Zenon, <1>2, <2>1
    <3>3. gs[i].tag # tag /\ gs[i].tag # last
      BY Zenon, <1>8, <2>1, <2>3, <3>2
    <3>4. k[gs[i].tag] = i
      BY Zenon, <1>10, <3>2, <3>3
    <3> QED
      BY Zenon, <3>1, <3>2, <3>3, <3>4
  <2> QED
    BY Zenon, <2>2, <2>3
<1>12. ASSUME NEW t \in GroupTags, k[t] # GROUP_NOT_LOCAL
       PROVE  k[t] \in 1..n-1 /\ hs[k[t]].tag = t
  <2>1. t # tag
    BY Zenon, <1>10, <1>12
  <2>2. CASE t = last
    <3>1. id # n /\ k[t] = id
      BY Zenon, <1>9, <1>10, <2>1, <2>2
    <3>2. id \in 1..n-1 /\ hs[id] = gs[n]
      BY Zenon, <1>4, <3>1
    <3> QED
      BY Zenon, <2>2, <3>1, <3>2 DEF last
  <2>3. CASE t # last
    <3>1. k[t] = l[t] /\ l[t] \in 1..n /\ gs[l[t]].tag = t
      BY Zenon, <1>2, <1>10, <1>12, <2>1, <2>3
    <3>2. l[t] # n
      BY Zenon, <2>3, <3>1 DEF last
    <3>3. l[t] # id
      BY Zenon, <1>3, <2>1, <3>1
    <3>4. l[t] \in 1..n-1 /\ hs[l[t]] = gs[l[t]]
      BY Zenon, <1>4, <3>1, <3>2, <3>3
    <3> QED
      BY Zenon, <3>1, <3>4
  <2> QED
    BY Zenon, <2>2, <2>3
<1>13. ASSUME NEW t \in H \ {tag} PROVE k[t] # GROUP_NOT_LOCAL
  <2>1. CASE t = last
    <3>1. k[t] = id
      BY Zenon, <1>9, <1>10, <2>1
    <3> QED
      BY Zenon, <1>2, <1>8, <3>1
  <2>2. CASE t # last
    BY Zenon, <1>2, <1>10, <2>2
  <2> QED
    BY Zenon, <2>1, <2>2
<1>14. Stores(hs, k, H \ {tag}, M)
  BY Zenon, <1>4, <1>7, <1>11, <1>12, <1>13 DEF Stores
<1> QED
  BY Zenon, <1>3, <1>14 DEF hs, k, gone, last, n, id

\* The groups a loop selects, in the order of the table.
Selection(gs, I, hs) ==
  /\ hs \in Seq(Group)
  /\ \E at \in [1..Len(hs) -> I] :
       /\ \A j \in 1..Len(hs) : hs[j] = gs[at[j]]
       /\ \A i, j \in 1..Len(hs) : at[i] = at[j] => i = j
       /\ \A i \in I : \E j \in 1..Len(hs) : at[j] = i

LEMMA Selected ==
  ASSUME NEW gs \in Seq(Group), NEW I \in SUBSET (1..Len(gs))
  PROVE  Selection(gs, I, Packed(gs, I))
  BY SMTT(40), PackedProperties DEF Selection

\* moveParticleGroups on the old rank: it keeps the groups K and looks each of
\* them up at its new place.
LEMMA StoresKept ==
  ASSUME NEW gs, NEW l, NEW H \in SUBSET GroupTags, NEW M, Stores(gs, l, H, M),
         NEW K \in SUBSET H, NEW I \in SUBSET (1..Len(gs)),
         \A i \in 1..Len(gs) : i \in I <=> gs[i].tag \in K,
         NEW f, f = [t \in GroupTags |-> IF t \in H \ K THEN GROUP_NOT_LOCAL ELSE l[t]]
  PROVE  Stores(Packed(gs, I), Reindexed(f, Packed(gs, I)), K, M)
<1> DEFINE hs == Packed(gs, I)
           k == Reindexed(f, hs)
<1>1. gs \in Seq(Group) /\ l \in [GroupTags -> Int] /\ GROUP_NOT_LOCAL \in Int
  BY Zenon, NotLocal DEF Stores
<1>2. /\ \A i \in 1..Len(gs) : l[gs[i].tag] = i /\ gs[i].tag \in H /\ gs[i].members = M[gs[i].tag]
      /\ \A t \in GroupTags : l[t] # GROUP_NOT_LOCAL => l[t] \in 1..Len(gs) /\ gs[l[t]].tag = t
      /\ \A t \in H : l[t] # GROUP_NOT_LOCAL
  BY Zenon DEF Stores
<1>3. \A i \in I : gs[i].tag \in K
  BY Zenon
<1>4. Selection(gs, I, hs)
  BY Zenon, <1>1, Selected
<1>6. k = [t \in GroupTags |-> IF \E i \in 1..Len(hs) : hs[i].tag = t
                                 THEN CHOOSE i \in 1..Len(hs) : hs[i].tag = t ELSE f[t]]
  BY Zenon DEF Reindexed
<1> HIDE DEF hs, k
<1>0. hs \in Seq(Group)
  BY Zenon, <1>4 DEF Selection
<1>5. PICK at \in [1..Len(hs) -> I] :
           /\ \A j \in 1..Len(hs) : hs[j] = gs[at[j]]
           /\ \A i, j \in 1..Len(hs) : at[i] = at[j] => i = j
           /\ \A i \in I : \E j \in 1..Len(hs) : at[j] = i
  BY Zenon, <1>4 DEF Selection
<1>7. \A j \in 1..Len(hs) : j \in Nat /\ j \in Int
  BY <1>0
<1>8. ASSUME NEW j \in 1..Len(hs)
      PROVE  hs[j].tag \in K /\ hs[j].tag \in GroupTags /\ hs[j].members = M[hs[j].tag]
             /\ l[hs[j].tag] = at[j]
  <2>1. at[j] \in 1..Len(gs) /\ gs[at[j]].tag \in K /\ hs[j] = gs[at[j]]
    BY Zenon, <1>3, <1>5
  <2>2. l[gs[at[j]].tag] = at[j] /\ gs[at[j]].members = M[gs[at[j]].tag]
    BY Zenon, <1>2, <2>1
  <2> QED
    BY Zenon, <2>1, <2>2
<1>9. ASSUME NEW i \in 1..Len(hs), NEW j \in 1..Len(hs), hs[i].tag = hs[j].tag PROVE i = j
  <2>1. at[i] = at[j]
    BY Zenon, <1>8, <1>9
  <2> QED
    BY Zenon, <1>5, <2>1
<1>10. ASSUME NEW j \in 1..Len(hs) PROVE k[hs[j].tag] = j
  <2>1. hs[j].tag \in GroupTags
    BY Zenon, <1>8
  <2>2. (CHOOSE i \in 1..Len(hs) : hs[i].tag = hs[j].tag) = j
    BY Zenon, <1>9
  <2> QED
    BY Zenon, <1>6, <2>1, <2>2
<1>11. ASSUME NEW t \in K PROVE \E j \in 1..Len(hs) : hs[j].tag = t
  <2>1. l[t] \in 1..Len(gs) /\ gs[l[t]].tag = t
    BY Zenon, <1>2
  <2>2. l[t] \in I
    BY Zenon, <2>1
  <2>3. PICK j \in 1..Len(hs) : at[j] = l[t]
    BY Zenon, <1>5, <2>2
  <2>4. hs[j] = gs[l[t]]
    BY ZenonT(60), <1>5, <2>3
  <2> QED
    BY Zenon, <2>1, <2>4
<1>12. ASSUME NEW t \in GroupTags \ K PROVE k[t] = GROUP_NOT_LOCAL
  <2>1. ~ \E j \in 1..Len(hs) : hs[j].tag = t
    BY Zenon, <1>8
  <2>2. k[t] = f[t]
    BY Zenon, <1>6, <2>1
  <2>3. CASE t \in H
    BY Zenon, <2>2, <2>3
  <2>4. CASE t \notin H
    BY Zenon, <2>2, <2>4, NotHeld
  <2> QED
    BY Zenon, <2>3, <2>4
<1>13. ASSUME NEW t \in K PROVE \E j \in 1..Len(hs) : hs[j].tag = t /\ k[t] = j
  <2>1. PICK j \in 1..Len(hs) : hs[j].tag = t
    BY Zenon, <1>11
  <2> QED
    BY Zenon, <1>10, <2>1
<1>14. ASSUME NEW t \in GroupTags PROVE k[t] \in Int
  <2>1. CASE t \in K
    BY Zenon, <1>7, <1>13, <2>1
  <2>2. CASE t \notin K
    BY Zenon, <1>1, <1>12, <2>2
  <2> QED
    BY Zenon, <2>1, <2>2
<1>15. k \in [GroupTags -> Int]
  BY Zenon, <1>6, <1>14
<1>16. ASSUME NEW t \in GroupTags, k[t] # GROUP_NOT_LOCAL
       PROVE  k[t] \in 1..Len(hs) /\ hs[k[t]].tag = t
  <2>1. t \in K
    BY Zenon, <1>12, <1>16
  <2> QED
    BY Zenon, <1>13, <2>1
<1>17. ASSUME NEW t \in K PROVE k[t] # GROUP_NOT_LOCAL
  BY Zenon, <1>7, <1>13, NotLocal
<1>18. Stores(hs, k, K, M)
  BY Zenon, <1>0, <1>8, <1>10, <1>15, <1>16, <1>17 DEF Stores
<1> QED
  BY Zenon, <1>18 DEF hs, k

-----------------------------------------------------------------------------
(***************************************************************************)
(* The inductive invariant.                                                *)
(***************************************************************************)

\* The groups that rank r should store.
Held(r) == {t \in m_tag_set : HasLocalMember(r, members[t])}

Tags == /\ m_recycled_tags \in Seq(GroupTags)
        /\ m_nglobal \in Nat
        /\ m_tag_set \in SUBSET GroupTags
        /\ m_nglobal + Len(m_recycled_tags) <= MaxGroups
        /\ Tagging(m_tag_set, m_recycled_tags, m_nglobal)

IInv ==
  /\ owner \in [Particles -> Ranks]
  /\ DOMAIN m_groups = Ranks
  /\ m_group_rtag = [r \in Ranks |-> m_group_rtag[r]]
  /\ m_n_ghost = [r \in Ranks |-> 0]
  /\ members \in [GroupTags -> SUBSET Particles]
  /\ Tags
  /\ \A r \in Ranks : Stores(m_groups[r], m_group_rtag[r], Held(r), members)

\* Without ghost groups, the whole table is the rank's own.
LEMMA Plain ==
  ASSUME IInv, NEW r \in Ranks
  PROVE  /\ OwnGroups(r) = m_groups[r] /\ N(r) = Len(m_groups[r])
         /\ m_groups[r] \in Seq(Group) /\ m_group_rtag[r] \in [GroupTags -> Int]
         /\ Held(r) \in SUBSET GroupTags
         /\ Stores(m_groups[r], m_group_rtag[r], Held(r), members)
<1>1. /\ Stores(m_groups[r], m_group_rtag[r], Held(r), members) /\ m_n_ghost[r] = 0
      /\ Held(r) \in SUBSET GroupTags
  BY Zenon DEF IInv, Tags, Held
<1>2. m_groups[r] \in Seq(Group) /\ m_group_rtag[r] \in [GroupTags -> Int]
  BY Zenon, <1>1 DEF Stores
<1>3. N(r) = Len(m_groups[r])
  BY <1>1, <1>2 DEF N
<1>4. SubSeq(m_groups[r], 1, Len(m_groups[r])) = m_groups[r]
  BY <1>2
<1> QED
  BY Zenon, <1>1, <1>2, <1>3, <1>4 DEF OwnGroups

\* Initially there are no groups.
LEMMA InitIInv ==
  Init => IInv
<1> SUFFICES ASSUME Init PROVE IInv
  BY Zenon
<1>1. Tags
  <2>1. /\ m_recycled_tags = << >> /\ m_nglobal = 0 /\ m_tag_set = {}
    BY Zenon DEF Init
  <2>2. m_recycled_tags \in Seq(GroupTags) /\ Len(m_recycled_tags) = 0 /\ m_nglobal \in Nat
        /\ m_nglobal + Len(m_recycled_tags) <= MaxGroups
        /\ 1..Len(m_recycled_tags) = {} /\ 0..(m_nglobal + Len(m_recycled_tags))-1 = {}
    BY <2>1, BondedGroupAssumption
  <2>3. Cardinality(m_tag_set) = m_nglobal
    BY Zenon, <2>1, FS_EmptySet
  <2>4. Splits(m_tag_set, m_recycled_tags, m_nglobal + Len(m_recycled_tags))
    BY Zenon, <2>1, <2>2 DEF Splits
  <2> QED
    BY Zenon, <2>1, <2>2, <2>3, <2>4 DEF Tags, Tagging
<1>2. ASSUME NEW r \in Ranks
      PROVE  Stores(m_groups[r], m_group_rtag[r], Held(r), members)
  <2>1. /\ m_groups[r] = << >> /\ Held(r) = {}
        /\ m_group_rtag[r] = [t \in GroupTags |-> GROUP_NOT_LOCAL]
    BY Zenon DEF Init, Held
  <2>2. << >> \in Seq(Group) /\ 1..Len(<< >>) = {}
    OBVIOUS
  <2>3. GROUP_NOT_LOCAL \in Int
    BY Zenon, NotLocal
  <2> QED
    BY Zenon, <2>1, <2>2, <2>3 DEF Stores
<1>3. members \in [GroupTags -> SUBSET Particles]
  BY Zenon DEF Init
<1> QED
  BY Zenon, <1>1, <1>2, <1>3 DEF Init, IInv

\* A new group.
LEMMA AddStep ==
  ASSUME IInv, NEW S \in MemberSets, addBondedGroup(S)
  PROVE  IInv'
<1> DEFINE tag == Taken(m_recycled_tags, m_nglobal)
           Q == Popped(m_recycled_tags)
           M == [members EXCEPT ![tag] = S]
<1>1. NextTag = tag /\ tag \in GroupTags
  BY Zenon DEF addBondedGroup, NextTag, Taken
<1>2. m_recycled_tags' = Q
  BY Zenon DEF addBondedGroup, Popped
<1>3. /\ owner' = owner /\ m_nglobal' = m_nglobal + 1 /\ m_tag_set' = m_tag_set \cup {tag}
      /\ members' = M /\ m_n_ghost' = [r \in Ranks |-> 0]
  BY Zenon, <1>1 DEF addBondedGroup, NoGhosts
<1>4. /\ tag \notin m_tag_set /\ Q \in Seq(GroupTags)
      /\ Tagging(m_tag_set \cup {tag}, Q, m_nglobal + 1)
      /\ m_recycled_tags # << >> => m_nglobal + 1 + Len(Q) = m_nglobal + Len(m_recycled_tags)
      /\ m_recycled_tags = << >> => m_nglobal + 1 + Len(Q) = m_nglobal + 1 /\ tag = m_nglobal
  <2>1. /\ m_nglobal \in Nat /\ m_recycled_tags \in Seq(GroupTags)
        /\ Tagging(m_tag_set, m_recycled_tags, m_nglobal)
    BY Zenon DEF IInv, Tags
  <2>2. tag \notin m_tag_set /\ Q \in Seq(GroupTags)
    BY Zenon, <2>1, TagTaken
  <2>3. Tagging(m_tag_set \cup {tag}, Q, m_nglobal + 1)
    BY Zenon, <2>1, TagTaken
  <2>4. m_recycled_tags # << >> => m_nglobal + 1 + Len(Q) = m_nglobal + Len(m_recycled_tags)
    BY Zenon, <2>1, TagTaken
  <2>5. m_recycled_tags = << >> => m_nglobal + 1 + Len(Q) = m_nglobal + 1 /\ tag = m_nglobal
    BY Zenon, <2>1, TagTaken
  <2> QED
    BY Zenon, <2>2, <2>3, <2>4, <2>5
<1>5. /\ m_groups' = [r \in Ranks |->
           IF HasLocalMember(r, S) THEN Append(OwnGroups(r), [tag |-> tag, members |-> S])
           ELSE OwnGroups(r)]
      /\ m_group_rtag' = [r \in Ranks |->
           [m_group_rtag[r] EXCEPT ![tag] =
              IF HasLocalMember(r, S) THEN N(r) + 1
              ELSE IF m_recycled_tags = << >> THEN GROUP_NOT_LOCAL ELSE @]]
  BY Zenon, <1>1 DEF addBondedGroup
<1> HIDE DEF tag, Q
<1>6. M \in [GroupTags -> SUBSET Particles] /\ M[tag] = S
      /\ \A t \in GroupTags : t # tag => M[t] = members[t]
  BY Zenon, <1>1 DEF IInv, MemberSets
<1> HIDE DEF M
<1>7. Tags'
  <2>1. m_nglobal \in Nat /\ m_nglobal + Len(m_recycled_tags) <= MaxGroups
        /\ m_tag_set \in SUBSET GroupTags
    BY Zenon DEF IInv, Tags
  <2>2. m_nglobal + 1 \in Nat
    BY <2>1
  <2>3. m_nglobal + 1 + Len(Q) <= MaxGroups
    <3>1. CASE m_recycled_tags # << >>
      BY Zenon, <1>4, <2>1, <3>1
    <3>2. CASE m_recycled_tags = << >>
      <4>1. m_nglobal + 1 <= MaxGroups
        BY <1>1, <1>4, <2>1, <3>2, BondedGroupAssumption DEF GroupTags
      <4> QED
        BY Zenon, <1>4, <3>2, <4>1
    <3> QED
      BY Zenon, <3>1, <3>2
  <2>4. m_tag_set \cup {tag} \in SUBSET GroupTags
    BY Zenon, <1>1, <2>1
  <2> QED
    BY Zenon, <1>2, <1>3, <1>4, <2>2, <2>3, <2>4 DEF Tags
<1>8. ASSUME NEW r \in Ranks
      PROVE  Held(r)' = IF HasLocalMember(r, S) THEN Held(r) \cup {tag} ELSE Held(r)
  <2>1. m_tag_set \in SUBSET GroupTags
    BY Zenon DEF IInv, Tags
  <2>2. Held(r)' = {t \in m_tag_set \cup {tag} : HasLocalMember(r, M[t])}
    BY Zenon, <1>3 DEF Held, HasLocalMember, isParticleLocal
  <2>3. \A t \in m_tag_set : M[t] = members[t]
    BY Zenon, <1>4, <1>6, <2>1
  <2>4. {t \in m_tag_set \cup {tag} : HasLocalMember(r, M[t])} =
          IF HasLocalMember(r, S) THEN {t \in m_tag_set : HasLocalMember(r, members[t])} \cup {tag}
          ELSE {t \in m_tag_set : HasLocalMember(r, members[t])}
    BY Zenon, <1>6, <2>3
  <2> QED
    BY Zenon, <2>2, <2>4 DEF Held
<1>9. ASSUME NEW r \in Ranks
      PROVE  Stores(m_groups'[r], m_group_rtag'[r], Held(r)', M)
  <2> DEFINE gs == m_groups[r]
             l == m_group_rtag[r]
             H == Held(r)
  <2>1. /\ OwnGroups(r) = gs /\ N(r) = Len(gs) /\ H \in SUBSET GroupTags
        /\ Stores(gs, l, H, members) /\ l \in [GroupTags -> Int]
    BY Zenon, Plain
  <2>2. tag \notin H
    BY Zenon, <1>4 DEF Held
  <2>3. /\ m_groups'[r] = IF HasLocalMember(r, S) THEN Append(gs, [tag |-> tag, members |-> S]) ELSE gs
        /\ m_group_rtag'[r] = [l EXCEPT ![tag] =
              IF HasLocalMember(r, S) THEN Len(gs) + 1
              ELSE IF m_recycled_tags = << >> THEN GROUP_NOT_LOCAL ELSE l[tag]]
    BY Zenon, <1>5, <2>1
  <2> HIDE DEF gs, l, H
  <2>4. Stores(gs, l, H, M)
    <3>1. \A t \in H : M[t] = members[t]
      BY Zenon, <1>6, <2>1, <2>2
    <3> QED
      BY Zenon, <2>1, <3>1, StoresMembers
  <2>5. CASE HasLocalMember(r, S)
    <3>1. Stores(Append(gs, [tag |-> tag, members |-> S]), [l EXCEPT ![tag] = Len(gs) + 1],
                 H \cup {tag}, M)
      BY Zenon, <1>1, <1>6, <2>1, <2>2, <2>4, StoresAppend
    <3>2. Held(r)' = H \cup {tag}
      BY Zenon, <1>8, <2>5 DEF H
    <3> QED
      BY Zenon, <2>3, <2>5, <3>1, <3>2
  <2>6. CASE ~HasLocalMember(r, S)
    <3>1. l[tag] = GROUP_NOT_LOCAL /\ [l EXCEPT ![tag] = GROUP_NOT_LOCAL] = l
      BY Zenon, <1>1, <2>1, <2>2, NotHeld
    <3>2. m_group_rtag'[r] = l /\ m_groups'[r] = gs
      BY Zenon, <2>3, <2>6, <3>1
    <3>3. Held(r)' = H
      BY Zenon, <1>8, <2>6 DEF H
    <3> QED
      BY Zenon, <2>4, <3>2, <3>3
  <2> QED
    BY Zenon, <2>5, <2>6
<1>10. DOMAIN m_groups' = Ranks /\ m_group_rtag' = [r \in Ranks |-> m_group_rtag'[r]]
  BY Zenon, <1>5
<1> QED
  BY Zenon, <1>3, <1>6, <1>7, <1>9, <1>10 DEF IInv

\* A removed group.
LEMMA RemoveStep ==
  ASSUME IInv, NEW tag \in GroupTags, removeBondedGroup(tag)
  PROVE  IInv'
<1> DEFINE holders == {r \in Ranks : isLocalIndex(r, m_group_rtag[r][tag])}
<1>1. ASSUME NEW r \in Ranks PROVE r \in holders <=> tag \in Held(r)
  <2> DEFINE gs == m_groups[r]
             l == m_group_rtag[r]
  <2>1. /\ N(r) = Len(gs) /\ Held(r) \in SUBSET GroupTags /\ gs \in Seq(Group)
        /\ Stores(gs, l, Held(r), members)
    BY Zenon, Plain
  <2>2. ASSUME tag \in Held(r) PROVE l[tag] # GROUP_NOT_LOCAL /\ l[tag] \in 1..Len(gs)
    BY Zenon, <2>1, <2>2 DEF Stores
  <2>3. ASSUME tag \in Held(r) PROVE isLocalIndex(r, l[tag])
    BY <2>1, <2>2, <2>3 DEF isLocalIndex
  <2>4. ASSUME tag \notin Held(r) PROVE ~isLocalIndex(r, l[tag])
    BY ZenonT(60), <2>1, <2>4, NotHeld DEF isLocalIndex
  <2> QED
    BY Zenon, <2>3, <2>4
<1>2. /\ owner' = owner /\ members' = members /\ m_nglobal' = m_nglobal - 1
      /\ m_tag_set' = m_tag_set \ {tag} /\ m_recycled_tags' = Append(m_recycled_tags, tag)
      /\ m_n_ghost' = [r \in Ranks |-> 0] /\ holders # {}
  BY Zenon DEF removeBondedGroup, NoGhosts
<1>3. /\ m_groups' = [r \in Ranks |->
           IF r \in holders THEN MoveLastTo(OwnGroups(r), m_group_rtag[r][tag]) ELSE OwnGroups(r)]
      /\ m_group_rtag' = [r \in Ranks |->
           LET id == m_group_rtag[r][tag]
               gone == [m_group_rtag[r] EXCEPT ![tag] = GROUP_NOT_LOCAL]
           IN IF r \in holders /\ id < N(r) THEN [gone EXCEPT ![m_groups[r][N(r)].tag] = id]
              ELSE gone]
  BY Zenon DEF removeBondedGroup
<1> HIDE DEF holders
<1>4. tag \in m_tag_set
  <2>1. holders \subseteq Ranks
    BY Zenon DEF holders
  <2> QED
    BY Zenon, <1>1, <1>2, <2>1 DEF Held
<1>5. Tags'
  <2>1. /\ m_nglobal \in Nat /\ m_recycled_tags \in Seq(GroupTags)
        /\ Tagging(m_tag_set, m_recycled_tags, m_nglobal)
        /\ m_nglobal + Len(m_recycled_tags) <= MaxGroups /\ m_tag_set \in SUBSET GroupTags
    BY Zenon DEF IInv, Tags
  <2>2. /\ m_nglobal # 0 /\ Append(m_recycled_tags, tag) \in Seq(GroupTags)
        /\ Tagging(m_tag_set \ {tag}, Append(m_recycled_tags, tag), m_nglobal - 1)
    BY Zenon, <1>4, <2>1, TagGivenBack
  <2>5. m_nglobal - 1 + Len(Append(m_recycled_tags, tag)) = m_nglobal + Len(m_recycled_tags)
    BY <2>1
  <2>3. m_nglobal - 1 \in Nat
    BY <2>1, <2>2
  <2>4. m_tag_set' \in SUBSET GroupTags
    BY Zenon, <1>2, <2>1
  <2> QED
    BY Zenon, <1>2, <2>1, <2>2, <2>3, <2>4, <2>5 DEF Tags
<1>6. ASSUME NEW r \in Ranks PROVE Held(r)' = Held(r) \ {tag}
  BY Zenon, <1>2 DEF Held, HasLocalMember, isParticleLocal
<1>7. ASSUME NEW r \in Ranks
      PROVE  Stores(m_groups'[r], m_group_rtag'[r], Held(r)', members)
  <2> DEFINE gs == m_groups[r]
             l == m_group_rtag[r]
             H == Held(r)
             gone == [l EXCEPT ![tag] = GROUP_NOT_LOCAL]
  <2>1. /\ OwnGroups(r) = gs /\ N(r) = Len(gs) /\ H \in SUBSET GroupTags
        /\ Stores(gs, l, H, members)
    BY Zenon, Plain
  <2>2. /\ m_groups'[r] = IF r \in holders THEN MoveLastTo(gs, l[tag]) ELSE gs
        /\ m_group_rtag'[r] = IF r \in holders /\ l[tag] < Len(gs)
                                THEN [gone EXCEPT ![gs[Len(gs)].tag] = l[tag]] ELSE gone
    BY Zenon, <1>3, <2>1
  <2>3. Held(r)' = H \ {tag} /\ (r \in holders <=> tag \in H)
    BY Zenon, <1>1, <1>6
  <2> HIDE DEF gs, l, H
  <2>4. CASE tag \in H
    <3>1. Stores(MoveLastTo(gs, l[tag]),
                 IF l[tag] < Len(gs) THEN [gone EXCEPT ![gs[Len(gs)].tag] = l[tag]] ELSE gone,
                 H \ {tag}, members)
      BY Zenon, <2>1, <2>4, StoresRemove
    <3> QED
      BY Zenon, <2>2, <2>3, <2>4, <3>1
  <2>5. CASE tag \notin H
    <3>1. gone = l
      BY Zenon, <2>1, <2>5, NotHeld
    <3>2. H \ {tag} = H
      BY Zenon, <2>5
    <3>3. m_groups'[r] = gs /\ m_group_rtag'[r] = l
      BY Zenon, <2>2, <2>3, <2>5, <3>1
    <3> QED
      BY Zenon, <2>1, <2>3, <3>2, <3>3
  <2> QED
    BY Zenon, <2>4, <2>5
<1>8. DOMAIN m_groups' = Ranks /\ m_group_rtag' = [r \in Ranks |-> m_group_rtag'[r]]
  BY Zenon, <1>3
<1> QED
  BY Zenon, <1>2, <1>5, <1>7, <1>8 DEF IInv

\* A part of what a rank stores, in the order of its table.
LEMMA StoresPart ==
  ASSUME NEW gs, NEW l, NEW H \in SUBSET GroupTags, NEW M, Stores(gs, l, H, M),
         NEW K \in SUBSET H, NEW I \in SUBSET (1..Len(gs)),
         \A i \in 1..Len(gs) : i \in I <=> gs[i].tag \in K
  PROVE  \E k : Stores(Packed(gs, I), k, K, M)
<1> DEFINE f == [t \in GroupTags |-> IF t \in H \ K THEN GROUP_NOT_LOCAL ELSE l[t]]
<1>1. f = [t \in GroupTags |-> IF t \in H \ K THEN GROUP_NOT_LOCAL ELSE l[t]]
  OBVIOUS
<1> HIDE DEF f
<1> QED
  BY Zenon, <1>1, StoresKept

\* Which groups are stored where, when particle p moves to rank s.
LEMMA HeldMoves ==
  ASSUME NEW p \in Particles, NEW o \in Ranks, NEW s \in Ranks, o # s,
         owner \in [Particles -> Ranks], owner[p] = o,
         owner' = [owner EXCEPT ![p] = s], m_tag_set' = m_tag_set, members' = members,
         members \in [GroupTags -> SUBSET Particles], m_tag_set \in SUBSET GroupTags
  PROVE  /\ Held(o)' = {t \in m_tag_set : \E q \in members[t] \ {p} : owner[q] = o}
         /\ Held(s)' = Held(s) \cup {t \in m_tag_set : p \in members[t]}
<1>1. owner'[p] = s /\ \A q \in Particles : q # p => owner'[q] = owner[q]
  BY Zenon
<1>2. \A t \in m_tag_set : members[t] \subseteq Particles
  BY Zenon
<1>3. \A r : /\ Held(r)' = {t \in m_tag_set : \E q \in members[t] : owner'[q] = r}
              /\ Held(r) = {t \in m_tag_set : \E q \in members[t] : owner[q] = r}
  BY Zenon DEF Held, HasLocalMember, isParticleLocal
<1>4. ASSUME NEW t \in m_tag_set
      PROVE  (\E q \in members[t] : owner'[q] = o) <=>
             (\E q \in members[t] \ {p} : owner[q] = o)
  BY Zenon, <1>1, <1>2
<1>5. ASSUME NEW t \in m_tag_set
      PROVE  (\E q \in members[t] : owner'[q] = s) <=>
             (p \in members[t] \/ \E q \in members[t] : owner[q] = s)
  BY Zenon, <1>1, <1>2
<1>7. Held(o)' = {t \in m_tag_set : \E q \in members[t] \ {p} : owner[q] = o}
  BY Zenon, <1>3, <1>4
<1>8. Held(s)' = Held(s) \cup {t \in m_tag_set : p \in members[t]}
  BY Zenon, <1>3, <1>5
<1> QED
  BY Zenon, <1>7, <1>8

\* The other ranks store what they did.
LEMMA HeldElsewhere ==
  ASSUME NEW p \in Particles, NEW s \in Ranks, NEW r \in Ranks, r # owner[p], r # s,
         owner \in [Particles -> Ranks], owner' = [owner EXCEPT ![p] = s],
         m_tag_set' = m_tag_set, members' = members,
         members \in [GroupTags -> SUBSET Particles], m_tag_set \in SUBSET GroupTags
  PROVE  Held(r)' = Held(r)
<1>1. owner'[p] = s /\ \A q \in Particles : q # p => owner'[q] = owner[q]
  BY Zenon
<1>2. \A t \in m_tag_set : members[t] \subseteq Particles
  BY Zenon
<1>3. ASSUME NEW t \in m_tag_set
      PROVE  (\E q \in members[t] : owner'[q] = r) <=> (\E q \in members[t] : owner[q] = r)
  BY Zenon, <1>1, <1>2
<1> QED
  BY Zenon, <1>3 DEF Held, HasLocalMember, isParticleLocal

\* A particle that changes rank.
LEMMA MoveStep ==
  ASSUME IInv, NEW p \in Particles, NEW o \in Ranks, NEW s \in Ranks,
         moveParticleGroups(p, o, s)
  PROVE  IInv'
<1>1. owner[p] = o
  BY Zenon DEF moveParticleGroups
<1> DEFINE gs == m_groups[o]
           l == m_group_rtag[o]
           hs == m_groups[s]
           k == m_group_rtag[s]
           H == Held(o)
           J == Held(s)
           P == {t \in m_tag_set : p \in members[t]}
           K == {t \in m_tag_set : \E q \in members[t] \ {p} : owner[q] = o}
           stays(g) == p \notin g.members \/ \E q \in g.members \ {p} : owner[q] = o
           sent == {i \in 1..Len(gs) : p \in gs[i].members}
           staying == {i \in 1..Len(gs) : stays(gs[i])}
           send_groups == Packed(gs, sent)
           kept == Packed(gs, staying)
           dropped == {t \in GroupTags : \E i \in 1..Len(send_groups) :
                         send_groups[i].tag = t /\ ~stays(send_groups[i])}
           unknown == {i \in 1..Len(send_groups) : k[send_groups[i].tag] = GROUP_NOT_LOCAL}
           X == Packed(send_groups, unknown)
           forgotten == [t \in GroupTags |-> IF t \in dropped THEN GROUP_NOT_LOCAL ELSE l[t]]
<1>2. /\ OwnGroups(o) = gs /\ H \in SUBSET GroupTags /\ Stores(gs, l, H, members)
      /\ OwnGroups(s) = hs /\ N(s) = Len(hs) /\ J \in SUBSET GroupTags
      /\ Stores(hs, k, J, members) /\ gs \in Seq(Group)
  BY Zenon, Plain
<1>3. /\ s # o /\ owner' = [owner EXCEPT ![p] = s] /\ m_n_ghost' = [r \in Ranks |-> 0]
      /\ m_tag_set' = m_tag_set /\ m_recycled_tags' = m_recycled_tags
      /\ m_nglobal' = m_nglobal /\ members' = members
  BY Zenon, <1>1 DEF moveParticleGroups, NoGhosts
<1>4. m_groups' = [r \in Ranks |-> IF r = o THEN kept ELSE IF r = s THEN hs \o X ELSE OwnGroups(r)]
  BY Zenon, <1>1, <1>2 DEF moveParticleGroups
<1>5. m_group_rtag' = [m_group_rtag EXCEPT
        ![o] = IF dropped = {} THEN l ELSE Reindexed(forgotten, kept),
        ![s] = Appended(hs, k, X)]
  <2> DEFINE grown == OwnGroups(s) \o X
             appended == [t \in GroupTags |->
                            IF \E i \in N(s)+1..Len(grown) : grown[i].tag = t
                              THEN CHOOSE i \in N(s)+1..Len(grown) : grown[i].tag = t
                              ELSE k[t]]
  <2>1. m_group_rtag' = [m_group_rtag EXCEPT
          ![o] = IF dropped = {} THEN l ELSE Reindexed(forgotten, kept),
          ![s] = appended]
    <3> DEFINE own == OwnGroups(o)
               sends == Packed(own, {i \in 1..Len(own) : p \in own[i].members})
               keeps == Packed(own, {i \in 1..Len(own) : stays(own[i])})
               drops == {t \in GroupTags : \E i \in 1..Len(sends) :
                           sends[i].tag = t /\ ~stays(sends[i])}
               news == {i \in 1..Len(sends) : k[sends[i].tag] = GROUP_NOT_LOCAL}
               grows == OwnGroups(s) \o Packed(sends, news)
    <3>1. m_group_rtag' = [m_group_rtag EXCEPT
            ![o] = IF drops = {} THEN l
                   ELSE Reindexed([t \in GroupTags |-> IF t \in drops THEN GROUP_NOT_LOCAL ELSE l[t]], keeps),
            ![s] = [t \in GroupTags |->
                      IF \E i \in N(s)+1..Len(grows) : grows[i].tag = t
                        THEN CHOOSE i \in N(s)+1..Len(grows) : grows[i].tag = t
                        ELSE k[t]]]
      BY Zenon DEF moveParticleGroups
    <3>2. sends = send_groups /\ keeps = kept
      BY Zenon, <1>2
    <3> HIDE DEF sends, keeps, send_groups, kept
    <3>3. drops = dropped /\ news = unknown
      BY Zenon, <3>2
    <3> HIDE DEF drops, news, dropped, unknown
    <3>4. grows = grown
      BY Zenon, <3>2, <3>3
    <3> HIDE DEF grows, grown
    <3> QED
      BY Zenon, <3>1, <3>2, <3>3, <3>4
  <2>2. appended = Appended(hs, k, X)
    BY Zenon, <1>2 DEF Appended
  <2> QED
    BY Zenon, <2>1, <2>2
<1>6. /\ owner \in [Particles -> Ranks] /\ members \in [GroupTags -> SUBSET Particles]
      /\ m_tag_set \in SUBSET GroupTags
  BY Zenon DEF IInv, Tags
<1>0. m_group_rtag = [r \in Ranks |-> m_group_rtag[r]]
  BY Zenon DEF IInv
<1>7. Held(o)' = K /\ Held(s)' = J \cup P /\ \A r \in Ranks : r # o /\ r # s => Held(r)' = Held(r)
  <2>1. Held(o)' = K
    BY Zenon, <1>1, <1>3, <1>6, HeldMoves
  <2>2. Held(s)' = J \cup P
    BY Zenon, <1>1, <1>3, <1>6, HeldMoves
  <2>3. ASSUME NEW r \in Ranks, r # o, r # s PROVE Held(r)' = Held(r)
    BY Zenon, <1>1, <1>3, <1>6, <2>3, HeldElsewhere
  <2> QED
    BY Zenon, <2>1, <2>2, <2>3
<1>8. H = {t \in m_tag_set : \E q \in members[t] : owner[q] = o}
  BY Zenon DEF Held, HasLocalMember, isParticleLocal
<1>9. /\ K \in SUBSET H /\ P \in SUBSET H /\ P \in SUBSET GroupTags
      /\ \A t \in H : t \in P \/ t \in K
  BY Zenon, <1>1, <1>6, <1>8
<1>10. ASSUME NEW g, g.tag \in H, g.members = members[g.tag]
       PROVE  (stays(g) <=> g.tag \in K) /\ (p \in g.members <=> g.tag \in P)
  BY Zenon, <1>8, <1>10
<1>11. \A i \in 1..Len(gs) : gs[i].tag \in H /\ gs[i].members = members[gs[i].tag]
  BY Zenon, <1>2 DEF Stores
<1>12. /\ sent \in SUBSET (1..Len(gs)) /\ \A i \in 1..Len(gs) : i \in sent <=> gs[i].tag \in P
       /\ staying \in SUBSET (1..Len(gs)) /\ \A i \in 1..Len(gs) : i \in staying <=> gs[i].tag \in K
  BY Zenon, <1>10, <1>11
<1> HIDE DEF gs, l, hs, k, H, J, P, K, stays, sent, staying
<1>13. PICK l1 : Stores(send_groups, l1, P, members)
  BY Zenon, <1>2, <1>9, <1>12, StoresPart
<1> HIDE DEF send_groups
<1>14. /\ \A i \in 1..Len(send_groups) : /\ send_groups[i].tag \in P
                                          /\ send_groups[i].members = members[send_groups[i].tag]
       /\ \A t \in P : \E i \in 1..Len(send_groups) : send_groups[i].tag = t
  BY Zenon, <1>9, <1>13 DEF Stores
<1>15. dropped = H \ K
  <2>1. ASSUME NEW t \in dropped PROVE t \in H \ K
    <3>1. PICK i \in 1..Len(send_groups) : send_groups[i].tag = t /\ ~stays(send_groups[i])
      BY Zenon
    <3> QED
      BY Zenon, <1>9, <1>10, <1>14, <3>1
  <2>2. ASSUME NEW t \in H \ K PROVE t \in dropped
    <3>1. PICK i \in 1..Len(send_groups) : send_groups[i].tag = t
      BY Zenon, <1>9, <1>14
    <3>2. ~stays(send_groups[i])
      BY Zenon, <1>10, <1>14, <3>1
    <3> QED
      BY Zenon, <1>2, <3>1, <3>2
  <2> QED
    BY Zenon, <2>1, <2>2
<1>16. Stores(hs \o X, Appended(hs, k, X), J \cup P, members)
  <2>1. /\ unknown \in SUBSET (1..Len(send_groups)) /\ P \ J \in SUBSET P
        /\ \A i \in 1..Len(send_groups) : i \in unknown <=> send_groups[i].tag \in P \ J
    <3>1. ASSUME NEW t \in P PROVE k[t] = GROUP_NOT_LOCAL <=> t \notin J
      <4>1. ASSUME t \in J PROVE k[t] # GROUP_NOT_LOCAL
        BY Zenon, <1>2, <4>1 DEF Stores
      <4>2. ASSUME t \notin J PROVE k[t] = GROUP_NOT_LOCAL
        BY Zenon, <1>2, <1>9, <4>2, NotHeld
      <4> QED
        BY Zenon, <4>1, <4>2
    <3> QED
      BY Zenon, <1>14, <3>1
  <2> HIDE DEF unknown
  <2>2. PICK l2 : Stores(X, l2, P \ J, members)
    BY Zenon, <1>9, <1>13, <2>1, StoresPart
  <2> HIDE DEF X
  <2>3. P \ J \in SUBSET GroupTags
    BY Zenon, <1>9
  <2>4. /\ X \in Seq(Group)
        /\ \A i \in 1..Len(X) : X[i].tag \in P \ J /\ X[i].members = members[X[i].tag]
        /\ \A t \in P \ J : \E i \in 1..Len(X) : X[i].tag = t
    BY Zenon, <2>2, <2>3 DEF Stores
  <2>5. \A i, j \in 1..Len(X) : X[i].tag = X[j].tag => i = j
    BY Zenon, <2>2, StoredOnce
  <2>6. /\ \A i \in 1..Len(X) : /\ X[i].tag \in P /\ X[i].tag \notin J
                               /\ X[i].members = members[X[i].tag]
        /\ \A t \in P : t \in J \/ \E i \in 1..Len(X) : X[i].tag = t
    BY Zenon, <2>4
  <2> QED
    BY Zenon, <1>2, <1>9, <2>4, <2>5, <2>6, StoresExtend
<1>17. Stores(kept, IF dropped = {} THEN l ELSE Reindexed(forgotten, kept), K, members)
  <2>1. CASE dropped = {}
    <3>1. K = H
      BY Zenon, <1>9, <1>15, <2>1
    <3>2. staying = 1..Len(gs)
      BY Zenon, <1>11, <1>12, <3>1
    <3>3. kept = gs
      BY Zenon, <1>2, <3>2, PackedAll
    <3> QED
      BY Zenon, <1>2, <2>1, <3>1, <3>3
  <2>2. CASE dropped # {}
    <3>1. forgotten = [t \in GroupTags |-> IF t \in H \ K THEN GROUP_NOT_LOCAL ELSE l[t]]
      BY Zenon, <1>15
    <3> HIDE DEF forgotten
    <3>2. Stores(Packed(gs, staying), Reindexed(forgotten, Packed(gs, staying)), K, members)
      BY Zenon, <1>2, <1>9, <1>12, <3>1, StoresKept
    <3> QED
      BY Zenon, <2>2, <3>2
  <2> QED
    BY Zenon, <2>1, <2>2
<1> HIDE DEF kept, dropped, forgotten, X
<1>18. ASSUME NEW r \in Ranks
       PROVE  Stores(m_groups'[r], m_group_rtag'[r], Held(r)', members)
  <2>1. CASE r = o
    <3>1. /\ m_groups'[o] = kept
          /\ m_group_rtag'[o] = IF dropped = {} THEN l ELSE Reindexed(forgotten, kept)
      BY Zenon, <1>3, <1>4, <1>5, <1>0
    <3> QED
      BY Zenon, <1>7, <1>17, <2>1, <3>1
  <2>2. CASE r = s
    <3>1. m_groups'[s] = hs \o X /\ m_group_rtag'[s] = Appended(hs, k, X)
      BY Zenon, <1>3, <1>4, <1>5, <1>0
    <3> QED
      BY Zenon, <1>7, <1>16, <2>2, <3>1
  <2>3. CASE r # o /\ r # s
    <3>1. m_groups'[r] = m_groups[r] /\ m_group_rtag'[r] = m_group_rtag[r]
      BY Zenon, <1>4, <1>5, <1>0, <2>3, Plain
    <3> QED
      BY Zenon, <1>7, <2>3, <3>1, Plain
  <2> QED
    BY Zenon, <2>1, <2>2, <2>3
<1>19. DOMAIN m_groups' = Ranks /\ m_group_rtag' = [r \in Ranks |-> m_group_rtag'[r]]
  BY Zenon, <1>4, <1>5, <1>0
<1>20. Tags' /\ owner' \in [Particles -> Ranks]
  BY Zenon, <1>3, <1>6 DEF IInv, Tags
<1> QED
  BY Zenon, <1>3, <1>6, <1>18, <1>19, <1>20 DEF IInv

\* Every step keeps the invariant.
LEMMA NextIInv ==
  IInv /\ [Next]_vars => IInv'
<1> SUFFICES ASSUME IInv, [Next]_vars PROVE IInv'
  BY Zenon
<1>1. CASE \E S \in MemberSets : addBondedGroup(S)
  BY Zenon, <1>1, AddStep
<1>2. CASE \E t \in GroupTags : removeBondedGroup(t)
  BY Zenon, <1>2, RemoveStep
<1>3. CASE \E p \in Particles, r \in Ranks : moveParticleGroups(p, owner[p], r)
  <2>1. PICK p \in Particles, r \in Ranks : moveParticleGroups(p, owner[p], r)
    BY Zenon, <1>3
  <2>2. PICK o \in Ranks : o = owner[p]
    BY Zenon DEF IInv
  <2>3. moveParticleGroups(p, o, r)
    BY Zenon, <2>1, <2>2
  <2> QED
    BY Zenon, <2>3, MoveStep
<1>4. CASE UNCHANGED vars
  <2>1. /\ owner' = owner /\ m_groups' = m_groups /\ m_n_ghost' = m_n_ghost
        /\ m_group_rtag' = m_group_rtag /\ m_tag_set' = m_tag_set
        /\ m_recycled_tags' = m_recycled_tags /\ m_nglobal' = m_nglobal /\ members' = members
    BY Zenon, <1>4 DEF vars
  <2>2. ASSUME NEW r \in Ranks PROVE Held(r)' = Held(r)
    BY Zenon, <2>1 DEF Held, HasLocalMember, isParticleLocal
  <2> QED
    BY Zenon, <2>1, <2>2 DEF IInv, Tags
<1> QED
  BY Zenon, <1>1, <1>2, <1>3, <1>4 DEF Next

\* The invariant holds in every state.
LEMMA IInvHolds ==
  Spec => []IInv
  BY InitIInv, NextIInv, PTL DEF Spec

-----------------------------------------------------------------------------
(***************************************************************************)
(* What follows from it.                                                   *)
(***************************************************************************)

\* However groups are added and removed and particles change ranks, a rank
\* stores exactly the active groups that have a member on it, each once: the
\* loops of moveParticleGroups lose no group and store none twice.
THEOREM GroupsStored ==
  Spec => []MembersOwnersHoldGroup
<1>1. IInv => MembersOwnersHoldGroup
  <2> SUFFICES ASSUME IInv, NEW r \in Ranks
               PROVE  /\ \A i, j \in 1..N(r) : m_groups[r][i].tag = m_groups[r][j].tag => i = j
                      /\ {m_groups[r][i] : i \in 1..N(r)} =
                           {[tag |-> t, members |-> members[t]] :
                              t \in {u \in m_tag_set : HasLocalMember(r, members[u])}}
    BY Zenon DEF MembersOwnersHoldGroup
  <2>1. /\ N(r) = Len(m_groups[r]) /\ Held(r) \in SUBSET GroupTags
        /\ Stores(m_groups[r], m_group_rtag[r], Held(r), members)
    BY Zenon, Plain
  <2>2. \A i, j \in 1..Len(m_groups[r]) : m_groups[r][i].tag = m_groups[r][j].tag => i = j
    BY Zenon, <2>1, StoredOnce
  <2>3. {m_groups[r][i] : i \in 1..Len(m_groups[r])} =
          {[tag |-> t, members |-> members[t]] : t \in Held(r)}
    <3> DEFINE gs == m_groups[r]
               l == m_group_rtag[r]
               H == Held(r)
    <3>1. H \in SUBSET GroupTags /\ Stores(gs, l, H, members)
      BY Zenon, <2>1
    <3> HIDE DEF gs, l, H
    <3>2. {gs[i] : i \in 1..Len(gs)} = {[tag |-> t, members |-> members[t]] : t \in H}
      BY SMT, <3>1, StoresExactly
    <3> QED
      BY ONLY <3>2, Zenon DEF gs, H
  <2> QED
    BY Zenon, <2>1, <2>2, <2>3 DEF Held
<1> QED
  BY <1>1, IInvHolds, PTL

\* The recycled tags and the active ones are together the tags ever used, and
\* none is in both: addBondedGroup never hands out a tag that is in use.
THEOREM GroupTagsKept ==
  Spec => []GroupTagsPartition
<1>1. IInv => GroupTagsPartition
  <2> SUFFICES ASSUME IInv PROVE GroupTagsPartition
    BY Zenon
  <2> DEFINE Q == m_recycled_tags
             m == m_nglobal + Len(Q)
  <2>1. /\ Q \in Seq(GroupTags) /\ m_nglobal \in Nat
        /\ Cardinality(m_tag_set) = m_nglobal /\ Splits(m_tag_set, Q, m)
    BY Zenon DEF IInv, Tags, Tagging
  <2> HIDE DEF m
  <2>2. /\ \A t \in m_tag_set : t \in 0..m-1
        /\ \A i \in 1..Len(Q) : Q[i] \in 0..m-1 /\ Q[i] \notin m_tag_set
        /\ \A i, j \in 1..Len(Q) : Q[i] = Q[j] => i = j
        /\ \A t \in 0..m-1 : t \in m_tag_set \/ \E i \in 1..Len(Q) : Q[i] = t
    BY Zenon, <2>1 DEF Splits
  <2>3. Cardinality(RecycledTags) = Len(Q)
    BY Zenon, <2>1, <2>2, StackCardinality DEF RecycledTags
  <2>4. m_tag_set \cap RecycledTags = {}
    BY SMT, <2>2 DEF RecycledTags
  <2>5. m_tag_set \cup RecycledTags = 0..m-1
    <3>1. ASSUME NEW t \in 0..m-1 PROVE t \in m_tag_set \cup RecycledTags
      BY Zenon, <2>2 DEF RecycledTags
    <3>2. ASSUME NEW t \in RecycledTags PROVE t \in 0..m-1
      <4>1. PICK i \in 1..Len(Q) : t = Q[i]
        BY Zenon DEF RecycledTags
      <4> QED
        BY Zenon, <2>2, <4>1
    <3> QED
      BY Zenon, <2>2, <3>1, <3>2
  <2>6. 0..m-1 = 0..m_nglobal + Len(m_recycled_tags) - 1
    BY <2>1 DEF m
  <2> QED
    BY Zenon, <2>1, <2>3, <2>4, <2>5, <2>6 DEF GroupTagsPartition
<1> QED
  BY <1>1, IInvHolds, PTL

\* The lookup of a rank finds exactly its groups, with the entries of removed
\* and moved groups cleared, and stays within the table.
THEOREM LookupInverts ==
  Spec => []LookupInvertsTable
<1>1. IInv => TypeOK
  <2> SUFFICES ASSUME IInv PROVE TypeOK
    BY Zenon
  <2>1. ASSUME NEW r \in Ranks
        PROVE  /\ \A i \in 1..Len(m_groups[r]) : m_groups[r][i] \in Group
               /\ m_n_ghost[r] \in 0..Len(m_groups[r])
               /\ m_group_rtag[r] \in [GroupTags -> {GROUP_NOT_LOCAL} \cup 1..MaxGroups]
    <3> DEFINE gs == m_groups[r]
               l == m_group_rtag[r]
    <3>1. /\ gs \in Seq(Group) /\ l \in [GroupTags -> Int] /\ m_n_ghost[r] = 0
          /\ Stores(gs, l, Held(r), members) /\ Held(r) \in SUBSET GroupTags
      BY Zenon, Plain DEF IInv
    <3> HIDE DEF gs, l
    <3>2. /\ \A i \in 1..Len(gs) : gs[i] \in Group
          /\ m_n_ghost[r] \in 0..Len(gs) /\ Len(gs) \in Nat
      BY <3>1
    <3>3. Len(gs) <= MaxGroups
      <4>1. \A i \in 1..Len(gs) : gs[i].tag \in GroupTags
        BY Zenon, <3>2, GroupFields
      <4>2. \A i, j \in 1..Len(gs) : gs[i].tag = gs[j].tag => i = j
        BY Zenon, <3>1, StoredOnce
      <4>3. [i \in 1..Len(gs) |-> gs[i].tag] \in Injection(1..Len(gs), GroupTags)
        BY Zenon, <4>1, <4>2 DEF Injection, IsInjective
      <4>4. /\ IsFiniteSet(GroupTags) /\ Cardinality(GroupTags) = MaxGroups
            /\ IsFiniteSet(1..Len(gs)) /\ Cardinality(1..Len(gs)) = Len(gs)
        BY Zenon, <3>2, IntervalSize, BondedGroupAssumption DEF GroupTags
      <4>5. Cardinality(1..Len(gs)) <= Cardinality(GroupTags)
        BY Zenon, <4>3, <4>4, FS_Injection
      <4> QED
        BY Zenon, <4>4, <4>5
    <3>4. ASSUME NEW t \in GroupTags PROVE l[t] \in {GROUP_NOT_LOCAL} \cup 1..MaxGroups
      <4>1. l[t] # GROUP_NOT_LOCAL => l[t] \in 1..Len(gs)
        BY Zenon, <3>1 DEF Stores
      <4>2. \A i \in 1..Len(gs) : i \in 1..MaxGroups
        BY <3>2, <3>3, BondedGroupAssumption
      <4> QED
        BY Zenon, <4>1, <4>2
    <3> QED
      BY Zenon, <3>1, <3>2, <3>4 DEF gs, l
  <2>2. m_nglobal \in 0..MaxGroups /\ \A i \in 1..Len(m_recycled_tags) : m_recycled_tags[i] \in GroupTags
    <3>1. /\ m_nglobal \in Nat /\ m_recycled_tags \in Seq(GroupTags)
          /\ m_nglobal + Len(m_recycled_tags) <= MaxGroups
      BY Zenon DEF IInv, Tags
    <3> QED
      BY <3>1, BondedGroupAssumption
  <2>3. m_group_rtag \in [Ranks -> [GroupTags -> {GROUP_NOT_LOCAL} \cup 1..MaxGroups]]
    <3>1. m_group_rtag = [r \in Ranks |-> m_group_rtag[r]]
      BY Zenon DEF IInv
    <3> QED
      BY Zenon, <2>1, <3>1
  <2> QED
    BY Zenon, <2>1, <2>2, <2>3 DEF TypeOK, IInv, Tags
<1>2. IInv => LookupInvertsTable
  <2> SUFFICES ASSUME IInv, NEW r \in Ranks, NEW t \in GroupTags
               PROVE  FoundAt(m_groups[r], m_group_rtag[r], t)
    BY Zenon, <1>1 DEF LookupInvertsTable, FoundAt
  <2>1. /\ Held(r) \in SUBSET GroupTags
        /\ Stores(m_groups[r], m_group_rtag[r], Held(r), members)
    BY Zenon, Plain
  <2> QED
    BY Zenon, <2>1, LookupFinds
<1> QED
  BY <1>2, IInvHolds, PTL
=============================================================================
