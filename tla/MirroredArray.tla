---------------------------- MODULE MirroredArray ----------------------------
(***************************************************************************)
(* What hoomd::GPUArray promises its clients: however many copies of the   *)
(* data exist in host and device memory, an array behaves as one sequence  *)
(* of elements.  A handle opened for reading returns the elements last     *)
(* written, wherever they were written; a handle opened for overwriting    *)
(* leaves the elements unspecified until they are written; swap exchanges  *)
(* whole arrays; a resize keeps the common prefix.                         *)
(***************************************************************************)
EXTENDS Integers, Sequences

CONSTANTS
  Arrays,    \* the array objects
  Handles,   \* the handle objects a client may have alive
  Values,    \* contents of one element
  Zero,      \* the cleared element
  MaxN,      \* bound on the number of elements
  None       \* marks a handle that is not alive

VARIABLES
  content,   \* content[a]: the elements of array a
  live,      \* live[h]: the access handle h grants, or None
  lastRead   \* the element most recently read through a handle

vars == <<content, live, lastRead>>

Contents == UNION {[1..n -> Values] : n \in 0..MaxN}

Resized(s, n) == [i \in 1..n |-> IF i <= Len(s) THEN s[i] ELSE Zero]

Init ==
  /\ content \in [Arrays -> Contents]
  /\ live = [h \in Handles |-> None]
  /\ lastRead = Zero

Acquire(h, acc) ==
  /\ live[h] = None
  /\ live' = [live EXCEPT ![h] = acc]
  /\ IF acc.mode = "overwrite"
       THEN \E c \in [1..Len(content[acc.array]) -> Values] :
              content' = [content EXCEPT ![acc.array] = c]
       ELSE UNCHANGED content
  /\ UNCHANGED lastRead

Read(h, i) ==
  /\ live[h] # None
  /\ i \in DOMAIN content[live[h].array]
  /\ lastRead' = content[live[h].array][i]
  /\ UNCHANGED <<content, live>>

Write(h, i, v) ==
  /\ live[h] # None
  /\ live[h].mode # "read"
  /\ i \in DOMAIN content[live[h].array]
  /\ content' = [content EXCEPT ![live[h].array][i] = v]
  /\ UNCHANGED <<live, lastRead>>

Release(h) ==
  /\ live[h] # None
  /\ live' = [live EXCEPT ![h] = None]
  /\ UNCHANGED <<content, lastRead>>

Resize(a, n) ==
  /\ content' = [content EXCEPT ![a] = Resized(@, n)]
  /\ UNCHANGED <<live, lastRead>>

(* The first allocation of an empty array leaves its elements unspecified. *)
Allocate(a, n) ==
  /\ Len(content[a]) = 0
  /\ \E c \in [1..n -> Values] : content' = [content EXCEPT ![a] = c]
  /\ UNCHANGED <<live, lastRead>>

Assign(a, b) ==
  /\ content' = [content EXCEPT ![a] = content[b]]
  /\ UNCHANGED <<live, lastRead>>

Swap(a, b) ==
  /\ content' = [content EXCEPT ![a] = content[b], ![b] = content[a]]
  /\ UNCHANGED <<live, lastRead>>

Access == [array : Arrays, loc : {"host", "device"},
           mode : {"read", "readwrite", "overwrite"}]

Next ==
  \/ \E h \in Handles, acc \in Access : Acquire(h, acc)
  \/ \E h \in Handles, i \in 1..MaxN : Read(h, i)
  \/ \E h \in Handles, i \in 1..MaxN, v \in Values : Write(h, i, v)
  \/ \E h \in Handles : Release(h)
  \/ \E a \in Arrays, n \in 1..MaxN : Resize(a, n) \/ Allocate(a, n)
  \/ \E a, b \in Arrays : Assign(a, b) \/ Swap(a, b)

Spec == Init /\ [][Next]_vars
=============================================================================
