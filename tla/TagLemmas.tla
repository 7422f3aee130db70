----------------------------- MODULE TagLemmas -----------------------------
(***************************************************************************)
(* Lemmas for the particle and the group data: packing the selected        *)
(* elements of an array, and the stack of tags to recycle.                 *)
(***************************************************************************)
EXTENDS Packing, FiniteSetTheorems, TLAPS

-----------------------------------------------------------------------------
(***************************************************************************)
(* Packing.  Counting the places up to i numbers the places of I from 1 to *)
(* their number, in order and without a gap.                               *)
(***************************************************************************)

\* Place(I, _) is a strictly increasing numbering of I.
LEMMA PlaceProperties ==
  ASSUME NEW I, I \subseteq Nat, IsFiniteSet(I)
  PROVE  /\ Cardinality(I) \in Nat
         /\ \A i \in I : Place(I, i) \in 1..Cardinality(I)
         /\ \A i, j \in I : i < j => Place(I, i) < Place(I, j)
         /\ \A k \in 1..Cardinality(I) : \E i \in I : Place(I, i) = k
<1>1. Cardinality(I) \in Nat
  BY Zenon, FS_CardinalityType
<1> DEFINE upTo(i) == {j \in I : j <= i}
<1>2. \A i \in I : /\ IsFiniteSet(upTo(i))
                   /\ Cardinality(upTo(i)) \in Nat
                   /\ Cardinality(upTo(i)) <= Cardinality(I)
                   /\ Cardinality(upTo(i)) # 0
  <2> TAKE i \in I
  <2>1. upTo(i) \in SUBSET I
    OBVIOUS
  <2>2. IsFiniteSet(upTo(i)) /\ Cardinality(upTo(i)) <= Cardinality(I)
    BY Zenon, <2>1, FS_Subset
  <2>3. i \in upTo(i)
    OBVIOUS
  <2> QED
    BY Zenon, <2>2, <2>3, FS_CardinalityType, FS_EmptySet
<1>3. \A i, j \in I : i < j => Cardinality(upTo(i)) < Cardinality(upTo(j))
  <2> SUFFICES ASSUME NEW i \in I, NEW j \in I, i < j
               PROVE  Cardinality(upTo(i)) < Cardinality(upTo(j))
    BY Zenon
  <2>1. upTo(i) \in SUBSET upTo(j)
    <3>1. \A x \in upTo(i) : x \in upTo(j)
      OBVIOUS
    <3> QED
      BY <3>1, Zenon
  <2>2. upTo(i) # upTo(j)
    <3>1. j \in upTo(j) /\ j \notin upTo(i)
      OBVIOUS
    <3> QED
      BY <3>1, Zenon
  <2>3. /\ Cardinality(upTo(i)) <= Cardinality(upTo(j))
        /\ Cardinality(upTo(j)) # Cardinality(upTo(i))
    BY Zenon, <1>2, <2>1, <2>2, FS_Subset
  <2> HIDE DEF upTo
  <2> QED
    BY <1>2, <2>3
<1> DEFINE f == [i \in I |-> Cardinality(upTo(i))]
<1>4. f \in Injection(I, 1..Cardinality(I))
  <2> HIDE DEF upTo
  <2>1. f \in [I -> 1..Cardinality(I)]
    BY <1>1, <1>2
  <2>2. \A i, j \in I : f[i] = f[j] => i = j
    BY <1>2, <1>3
  <2> QED
    BY Zenon, <2>1, <2>2 DEF Injection, IsInjective
<1>5. f \in Surjection(I, 1..Cardinality(I))
  <2>1. IsFiniteSet(1..Cardinality(I)) /\ Cardinality(1..Cardinality(I)) = Cardinality(I)
    BY <1>1, FS_Interval
  <2> HIDE DEF f
  <2> QED
    BY Zenon, <1>4, <2>1, FS_Injection
<1>6. \A k \in 1..Cardinality(I) : \E i \in I : Cardinality(upTo(i)) = k
  <2> HIDE DEF upTo
  <2> QED
    BY Zenon, <1>5 DEF Surjection
<1> QED
  BY <1>1, <1>2, <1>3, <1>6 DEF Place

\* Packed(s, I) is s read through a one-to-one map onto I.
LEMMA PackedProperties ==
  ASSUME NEW T, NEW s \in Seq(T), NEW I \in SUBSET (1..Len(s))
  PROVE  /\ Packed(s, I) \in Seq(T)
         /\ \E at \in [1..Len(Packed(s, I)) -> I] :
              /\ \A k \in 1..Len(Packed(s, I)) : Packed(s, I)[k] = s[at[k]]
              /\ \A k, l \in 1..Len(Packed(s, I)) : at[k] = at[l] => k = l
              /\ \A i \in I : \E k \in 1..Len(Packed(s, I)) : at[k] = i
<1> DEFINE c == Cardinality(I)
           at == [k \in 1..c |-> CHOOSE i \in I : Place(I, i) = k]
<1>1. IsFiniteSet(I) /\ I \subseteq Nat
  <2>1. IsFiniteSet(1..Len(s))
    BY FS_Interval
  <2>2. I \subseteq Nat
    OBVIOUS
  <2> QED
    BY Zenon, <2>1, <2>2, FS_Subset
<1>2. /\ c \in Nat
      /\ \A i \in I : Place(I, i) \in 1..c
      /\ \A i, j \in I : i < j => Place(I, i) < Place(I, j)
      /\ \A k \in 1..c : \E i \in I : Place(I, i) = k
  BY Zenon, <1>1, PlaceProperties
<1> HIDE DEF c
<1>3. \A k \in 1..c : at[k] \in I /\ Place(I, at[k]) = k
  BY Zenon, <1>2
<1>4. \A i, j \in I : Place(I, i) = Place(I, j) => i = j
  <2> SUFFICES ASSUME NEW i \in I, NEW j \in I, Place(I, i) = Place(I, j)
               PROVE  i = j
    BY Zenon
  <2>1. i \in Nat /\ j \in Nat /\ Place(I, i) \in Nat
    BY <1>1, <1>2
  <2>2. ~(i < j) /\ ~(j < i)
    BY <1>2, <2>1
  <2> QED
    BY <2>1, <2>2
<1>5. at \in [1..c -> I]
  BY <1>3
<1>6. \A i \in I : at[Place(I, i)] = i
  BY <1>2, <1>3, <1>4
<1>7. \A k, l \in 1..c : at[k] = at[l] => k = l
  BY Zenon, <1>3
<1>8. Packed(s, I) = [k \in 1..c |-> s[at[k]]]
  BY DEF Packed, c
<1> HIDE DEF at
<1>9. Packed(s, I) \in Seq(T) /\ Len(Packed(s, I)) = c
  <2>1. \A k \in 1..c : s[at[k]] \in T
    <3>1. \A i \in 1..Len(s) : s[i] \in T
      OBVIOUS
    <3> QED
      BY Zenon, <1>5, <3>1
  <2> QED
    BY <1>2, <1>8, <2>1
<1>10. \A k \in 1..c : Packed(s, I)[k] = s[at[k]]
  BY Zenon, <1>8
<1>11. \A i \in I : \E k \in 1..c : at[k] = i
  BY Zenon, <1>2, <1>6
<1>12. \E a \in [1..c -> I] :
         /\ \A k \in 1..c : Packed(s, I)[k] = s[a[k]]
         /\ \A k, l \in 1..c : a[k] = a[l] => k = l
         /\ \A i \in I : \E k \in 1..c : a[k] = i
  BY Zenon, <1>5, <1>7, <1>10, <1>11
<1> QED
  BY SMTT(30), <1>9, <1>12


\* Packing all elements changes nothing.
LEMMA PackedAll ==
  ASSUME NEW T, NEW s \in Seq(T)
  PROVE  Packed(s, 1..Len(s)) = s
<1> DEFINE n == Len(s)
<1>1. n \in Nat /\ Cardinality(1..n) = n /\ s = [k \in 1..n |-> s[k]]
  BY FS_Interval
<1>2. \A i \in 1..n : Place(1..n, i) = i
  <2> SUFFICES ASSUME NEW i \in 1..n
               PROVE  Place(1..n, i) = i
    OBVIOUS
  <2>1. {j \in 1..n : j <= i} = 1..i
    BY <1>1
  <2>2. Cardinality(1..i) = i
    BY FS_Interval
  <2> QED
    BY Zenon, <2>1, <2>2 DEF Place
<1> HIDE DEF n
<1>3. \A k \in 1..n : (CHOOSE i \in 1..n : Place(1..n, i) = k) = k
  BY Zenon, <1>2
<1>4. Packed(s, 1..n) = [k \in 1..n |-> s[CHOOSE i \in 1..n : Place(1..n, i) = k]]
  BY Zenon, <1>1 DEF Packed
<1>5. Packed(s, 1..n) = [k \in 1..n |-> s[k]]
  BY Zenon, <1>3, <1>4
<1> QED
  BY Zenon, <1>1, <1>5 DEF n

-----------------------------------------------------------------------------
(***************************************************************************)
(* Tags.  A are the n active tags, Q is the stack of tags to recycle: both *)
(* together are the first tags, none twice.                                *)
(***************************************************************************)
Splits(A, Q, m) ==
  /\ \A t \in A : t \in 0..m-1
  /\ \A i \in 1..Len(Q) : Q[i] \in 0..m-1 /\ Q[i] \notin A
  /\ \A i, j \in 1..Len(Q) : Q[i] = Q[j] => i = j
  /\ \A t \in 0..m-1 : t \in A \/ \E i \in 1..Len(Q) : Q[i] = t

Tagging(A, Q, n) == Cardinality(A) = n /\ Splits(A, Q, n + Len(Q))

\* The active tags are finitely many.
LEMMA ActiveFinite ==
  ASSUME NEW A, NEW n \in Nat, NEW T, NEW Q \in Seq(T), Tagging(A, Q, n)
  PROVE  IsFiniteSet(A)
<1> DEFINE m == n + Len(Q)
<1>1. IsFiniteSet(0..m-1)
  BY FS_Interval
<1>2. Splits(A, Q, m)
  BY Zenon DEF Tagging
<1> HIDE DEF m
<1>3. A \in SUBSET (0..m-1)
  BY Zenon, <1>2 DEF Splits
<1> QED
  BY Zenon, <1>1, <1>3, FS_Subset

\* The tag a new element takes, and the stack it leaves.
Taken(Q, n) == IF Q # << >> THEN Q[Len(Q)] ELSE n

Popped(Q) == IF Q # << >> THEN SubSeq(Q, 1, Len(Q) - 1) ELSE Q

\* A new element: its tag was not in use.
LEMMA TagTaken ==
  ASSUME NEW A, NEW n \in Nat, NEW T, NEW Q \in Seq(T), Tagging(A, Q, n)
  PROVE  /\ Taken(Q, n) \notin A
         /\ Popped(Q) \in Seq(T)
         /\ Tagging(A \cup {Taken(Q, n)}, Popped(Q), n + 1)
         /\ Q # << >> => n + 1 + Len(Popped(Q)) = n + Len(Q)
         /\ Q = << >> => n + 1 + Len(Popped(Q)) = n + 1 /\ Taken(Q, n) = n
<1> DEFINE P == Popped(Q)
           tag == Taken(Q, n)
           m == n + Len(Q)
           k == n + 1 + Len(P)
<1>0. m \in Nat
  OBVIOUS
<1>1. /\ P \in Seq(T) /\ Len(Q) \in Nat /\ Len(P) \in Nat /\ Len(P) <= Len(Q)
      /\ \A i \in 1..Len(P) : i \in 1..Len(Q) /\ P[i] = Q[i] /\ i # Len(Q)
      /\ Q # << >> => Len(Q) \in 1..Len(Q) /\ Len(P) = Len(Q) - 1 /\ tag = Q[Len(Q)]
      /\ Q = << >> => Len(Q) = 0 /\ Len(P) = 0 /\ tag = n
  BY SMTT(30) DEF Popped, Taken
<1>2. /\ \A t \in A : t \in 0..m-1
      /\ \A i \in 1..Len(Q) : Q[i] \in 0..m-1 /\ Q[i] \notin A
      /\ \A i, j \in 1..Len(Q) : Q[i] = Q[j] => i = j
      /\ \A t \in 0..m-1 : t \in A \/ \E i \in 1..Len(Q) : Q[i] = t
  BY Zenon, <1>1 DEF Tagging, Splits
<1> HIDE DEF P, tag
<1>3. /\ k \in Nat /\ k = (IF Q # << >> THEN m ELSE n + 1) /\ m <= k
      /\ tag \in 0..k-1 /\ \A t \in 0..k-1 : t = tag \/ t \in 0..m-1
  <2>1. CASE Q # << >>
    <3>1. k = m
      BY <1>1, <2>1
    <3>2. tag \in 0..m-1
      BY Zenon, <1>1, <1>2, <2>1
    <3> HIDE DEF k, m
    <3> QED
      BY <1>0, <2>1, <3>1, <3>2
  <2>2. CASE Q = << >>
    BY <1>1, <2>2
  <2> QED
    BY Zenon, <2>1, <2>2
<1>4. tag \notin A
  <2>1. CASE Q # << >>
    BY Zenon, <1>1, <1>2, <2>1
  <2>2. CASE Q = << >>
    BY <1>1, <1>2, <2>2
  <2> QED
    BY Zenon, <2>1, <2>2
<1>5. \A i \in 1..Len(P) : P[i] # tag
  <2> SUFFICES ASSUME NEW i \in 1..Len(P)
               PROVE  P[i] # tag
    OBVIOUS
  <2>1. Q # << >>
    BY <1>1
  <2>2. i \in 1..Len(Q) /\ P[i] = Q[i] /\ i # Len(Q)
    BY Zenon, <1>1
  <2>3. Len(Q) \in 1..Len(Q) /\ tag = Q[Len(Q)]
    BY Zenon, <1>1, <2>1
  <2> QED
    BY Zenon, <1>2, <2>2, <2>3
<1>6. \A t \in 0..m-1 : t \in 0..k-1
  BY <1>2, <1>3
<1> HIDE DEF m, k
<1>7. \A t \in A \cup {tag} : t \in 0..k-1
  BY Zenon, <1>2, <1>3, <1>6
<1>8. \A i \in 1..Len(P) : P[i] \in 0..k-1 /\ P[i] \notin A \cup {tag}
  BY Zenon, <1>1, <1>2, <1>5, <1>6
<1>9. \A i, j \in 1..Len(P) : P[i] = P[j] => i = j
  BY Zenon, <1>1, <1>2
<1>10. \A t \in 0..k-1 : t \in A \cup {tag} \/ \E i \in 1..Len(P) : P[i] = t
  <2> SUFFICES ASSUME NEW t \in 0..k-1, t # tag, t \notin A
               PROVE  \E i \in 1..Len(P) : P[i] = t
    BY Zenon
  <2>1. PICK i \in 1..Len(Q) : Q[i] = t
    BY Zenon, <1>2, <1>3
  <2>2. Q # << >> /\ i # Len(Q)
    BY <1>1, <2>1
  <2>3. i \in 1..Len(P)
    BY <1>1, <2>2
  <2> QED
    BY Zenon, <1>1, <2>1, <2>3
<1>11. Cardinality(A \cup {tag}) = n + 1
  BY Zenon, <1>4, ActiveFinite, FS_AddElement DEF Tagging
<1>12. Tagging(A \cup {tag}, P, n + 1)
  <2>1. Splits(A \cup {tag}, P, k)
    BY Zenon, <1>7, <1>8, <1>9, <1>10 DEF Splits
  <2> QED
    BY Zenon, <2>1, <1>11 DEF Tagging, k
<1> QED
  BY <1>1, <1>3, <1>4, <1>12 DEF tag, P, k, m

\* A removed element: its tag goes to the top of the stack.
LEMMA TagGivenBack ==
  ASSUME NEW A, NEW n \in Nat, NEW T, NEW Q \in Seq(T), Tagging(A, Q, n),
         NEW tag \in A, tag \in T
  PROVE  /\ n # 0
         /\ Append(Q, tag) \in Seq(T)
         /\ Tagging(A \ {tag}, Append(Q, tag), n - 1)
         /\ n - 1 + Len(Append(Q, tag)) = n + Len(Q)
<1> DEFINE P == Append(Q, tag)
           m == n + Len(Q)
<1>1. /\ P \in Seq(T) /\ Len(Q) \in Nat /\ Len(P) = Len(Q) + 1 /\ P[Len(Q) + 1] = tag
      /\ \A i \in 1..Len(Q) : P[i] = Q[i] /\ i \in 1..Len(P)
      /\ \A i \in 1..Len(P) : i \in 1..Len(Q) \/ i = Len(Q) + 1
      /\ Len(Q) + 1 \in 1..Len(P)
  OBVIOUS
<1>2. /\ \A t \in A : t \in 0..m-1
      /\ \A i \in 1..Len(Q) : Q[i] \in 0..m-1 /\ Q[i] \notin A
      /\ \A i, j \in 1..Len(Q) : Q[i] = Q[j] => i = j
      /\ \A t \in 0..m-1 : t \in A \/ \E i \in 1..Len(Q) : Q[i] = t
  BY Zenon DEF Tagging, Splits
<1> HIDE DEF P, m
<1>3. \A t \in A \ {tag} : t \in 0..m-1
  BY Zenon, <1>2
<1>4. \A i \in 1..Len(P) : P[i] \in 0..m-1 /\ P[i] \notin A \ {tag}
  BY ZenonT(30), <1>1, <1>2
<1>5. \A i, j \in 1..Len(P) : P[i] = P[j] => i = j
  <2>1. \A i \in 1..Len(Q) : P[i] = Q[i] /\ P[i] # tag
    BY Zenon, <1>1, <1>2
  <2> QED
    BY ZenonT(30), <1>1, <1>2, <2>1
<1>6. \A t \in 0..m-1 : t \in A \ {tag} \/ \E i \in 1..Len(P) : P[i] = t
  BY ZenonT(30), <1>1, <1>2
<1>7. /\ IsFiniteSet(A) /\ Cardinality(A) = n
      /\ Cardinality(A \ {tag}) = Cardinality(A) - 1
  BY Zenon, ActiveFinite, FS_RemoveElement DEF Tagging
<1>8. n # 0
  BY Zenon, <1>7, FS_EmptySet
<1>9. (n - 1) + Len(P) = m
  BY <1>1 DEF m
<1>10. Tagging(A \ {tag}, P, n - 1)
  <2>1. Splits(A \ {tag}, P, m)
    BY Zenon, <1>3, <1>4, <1>5, <1>6 DEF Splits
  <2> QED
    BY Zenon, <2>1, <1>7, <1>9 DEF Tagging
<1> QED
  BY <1>1, <1>8, <1>9, <1>10 DEF P, m

\* The size of an interval.
LEMMA IntervalSize ==
  ASSUME NEW n \in Nat
  PROVE  /\ IsFiniteSet(1..n) /\ Cardinality(1..n) = n
         /\ IsFiniteSet(0..n-1) /\ Cardinality(0..n-1) = n
  BY FS_Interval

\* A stack without repetitions holds as many tags as it is long.
LEMMA StackCardinality ==
  ASSUME NEW T, NEW Q \in Seq(T), \A i, j \in 1..Len(Q) : Q[i] = Q[j] => i = j
  PROVE  Cardinality({Q[i] : i \in 1..Len(Q)}) = Len(Q)
<1> DEFINE n == Len(Q)
           S == {Q[i] : i \in 1..n}
           f == [i \in 1..n |-> Q[i]]
<1>0. n \in Nat
  OBVIOUS
<1>1. IsFiniteSet(1..n) /\ Cardinality(1..n) = n
  BY <1>0, IntervalSize
<1> HIDE DEF n
<1>2. f \in Bijection(1..n, S)
  BY Zenon DEF Bijection, Injection, Surjection, IsInjective, n
<1>3. Cardinality(S) = Cardinality(1..n)
  BY Zenon, <1>1, <1>2, FS_Bijection DEF ExistsBijection
<1> QED
  BY Zenon, <1>1, <1>3 DEF n
=============================================================================
