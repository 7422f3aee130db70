---------------------------- MODULE GhostExchange ----------------------------
(***************************************************************************)
(* Ghost particles: the copies of remote particles a rank needs to compute *)
(* the forces on its own.  Both implementations are here.  Communicator    *)
(* sends along one direction after the other; a ghost carries its plan,    *)
(* the set of directions it is still to be sent in, and is forwarded by    *)
(* the rank that received it.  CommunicatorGPU, with its one communication *)
(* stage (m_max_stages(1), which no code of the repository changes), sends *)
(* to every neighbor, corners included, at once.                           *)
(*                                                                         *)
(* Every rank runs the same loop and waits for its messages in every pass, *)
(* so that an exchange over all ranks is one step.  Positions are integers *)
(* of an orthorhombic box whose lower corner is 0; cuts are those of the   *)
(* domains along the three axes, and the rank of a domain is               *)
(* its grid index (GroupMigration has other orders of the ranks).          *)
(***************************************************************************)
EXTENDS Integers, Sequences, FiniteSets, SequencesExt

CONSTANTS
  cuts,            \* the domain decomposition: cuts[a] = <<0, ..., L>> along axis a
  Communicators,   \* a subset of {"Communicator", "CommunicatorGPU"}
  Particles,       \* the particle tags, numbers
  GhostWidths,     \* the values of r_ghost
  Setups,          \* bonded groups, each the sequence of its members, and positions
  MaxBond,         \* how far apart, along an axis, are members next to each other
  CrossLow,        \* may members cross the lower faces of the global box?
  ThreeBody,       \* the values of comm_flag::reverse_net_force
  MaxSteps         \* bound on the steps in which particles move

NOT_LOCAL == -1

Axes == 1..3

(* The largest group: four members.                                        *)
MaxSize == 4

Dirs == 0..5

ASSUME GhostExchangeAssumption ==
  /\ \A a \in Axes :
       /\ cuts[a] \in Seq(Nat) /\ Len(cuts[a]) > 1 /\ cuts[a][1] = 0
       /\ \A i \in 1..Len(cuts[a])-1 :
            /\ cuts[a][i] < cuts[a][i+1]
            \* checkBoxSize throws otherwise
            /\ Len(cuts[a]) > 2 =>
                 \A w \in GhostWidths, t \in Particles : 2 * w[t] < cuts[a][i+1] - cuts[a][i]
  /\ Communicators \subseteq {"Communicator", "CommunicatorGPU"}
  /\ Particles \subseteq Nat
  /\ GhostWidths \subseteq [Particles -> Nat]
  /\ \A s \in Setups : \A g \in ToSet(s.groups) : ToSet(g) \subseteq Particles
  /\ CrossLow \in BOOLEAN
  /\ ThreeBody \subseteq BOOLEAN

VARIABLES
  comm,         \* which communicator runs
  r_ghost,      \* r_ghost[t]: the ghost layer width of the type of t
  three_body,   \* comm_flag::reverse_net_force
  groups,       \* groups[g]: the members of the bonded group (a constraint) g
  constrained,  \* m_constraint_forces was not empty in the last computeNetForce
  table,        \* table[r]: the particles of rank r with their positions, ghosts last
  N,            \* N[r]: how many of them are local
  rtag,         \* rtag[r][t]: where t is in the table of r
  ghosts_added, \* m_ghosts_added
  sent,         \* m_copy_ghosts / m_ghost_idx_adj: what r sent, per direction or rank
  reverse,      \* the lists of the way back: m_copy_ghosts_reverse, m_tag_reverse, ...
  constraints,  \* constraints[r]: the groups of rank r, ghost groups last
  group_ranks,  \* group_ranks[r][g][i]: the rank of member i, as r has it, without ghosts
  net_force,    \* net_force[r][i][q]: contributions of rank q in the force on entry i
  phase, steps

setup == <<comm, r_ghost, three_body, groups>>

vars == <<setup, constrained, table, N, rtag, ghosts_added, sent, reverse, constraints,
          group_ranks, net_force, phase, steps>>

-----------------------------------------------------------------------------
(* The domain grid.                                                        *)

Extent(a) == Len(cuts[a]) - 1

Ranks == 0 .. Extent(1) * Extent(2) * Extent(3) - 1

GridPos(r) == <<r % Extent(1), (r \div Extent(1)) % Extent(2), r \div (Extent(1) * Extent(2))>>

RankAt(p) == p[1] + Extent(1) * (p[2] + Extent(2) * p[3])

Lo(r, a) == cuts[a][GridPos(r)[a] + 1]

Hi(r, a) == cuts[a][GridPos(r)[a] + 2]

L(a) == cuts[a][Len(cuts[a])]

Axis(d) == (d \div 2) + 1

Sign(d) == IF d % 2 = 0 THEN 1 ELSE -1

Opposite(d) == IF d % 2 = 0 THEN d + 1 ELSE d - 1

(* The rank at an offset on the periodic grid.                             *)
NeighborAt(r, o) == RankAt([a \in Axes |-> (GridPos(r)[a] + o[a]) % Extent(a)])

Heading(d) == [a \in Axes |-> IF a = Axis(d) THEN Sign(d) ELSE 0]

Neighbors == [r \in Ranks |-> [d \in Dirs |-> NeighborAt(r, Heading(d))]]

getNeighborRank(r, d) == Neighbors[r][d]

isCommunicating(d) == Extent(Axis(d)) > 1

(* The directions of the main loops, in their order.                       *)
Directions == SelectSeq(<<0, 1, 2, 3, 4, 5>>, isCommunicating)

mask == ToSet(Directions)

(* The width of the domain next to r, in direction d.                      *)
NeighborWidth(r, d) ==
  LET n == getNeighborRank(r, d) IN Hi(n, Axis(d)) - Lo(n, Axis(d))

(* getShiftedBox and BoxDim::wrap along one axis, in doubled coordinates.  *)
(* The global box is shifted by half a domain, and by a little more (tol), *)
(* on the ranks at its boundary.                                           *)
WrapAxis(r, a, x) ==
  LET east == GridPos(r)[a] = Extent(a) - 1
      west == GridPos(r)[a] = 0
      shift == CASE east -> NeighborWidth(r, 2 * a - 2)
                 [] west -> -NeighborWidth(r, 2 * a - 1)
                 [] OTHER -> 0
      above == IF east THEN 2 * x > 2 * L(a) + shift ELSE 2 * x >= 2 * L(a) + shift
      below == IF east THEN 2 * x <= shift ELSE 2 * x < shift
  IN  IF Extent(a) = 1 THEN x
      ELSE IF above THEN x - L(a)
      ELSE IF below THEN x + L(a)
      ELSE x

Wrap(r, p) == [a \in Axes |-> WrapAxis(r, a, p[a])]

(* Received particles, moved to the periodic image next to the domain.     *)
Arriving(r, s) == [k \in 1..Len(s) |-> [s[k] EXCEPT !.pos = Wrap(r, @)]]

(* The reverse lookup after the entries from..Len(tab) were appended.      *)
Indexed(lookup, tab, from) ==
  [t \in Particles |->
     LET at == {i \in from..Len(tab) : tab[i].tag = t}
     IN  IF at = {} THEN lookup[t] ELSE Max(at)]

(* A set of numbers in order, and the elements of s at such positions.     *)
Sorted(S) == [k \in 1..Cardinality(S) |-> CHOOSE i \in S : Cardinality({j \in S : j <= i}) = k]

At(s, S) == LET at == Sorted(S) IN [k \in 1..Cardinality(S) |-> s[at[k]]]

(* v itself.  TLC evaluates a function where it is applied; compared with  *)
(* itself first, it is evaluated once.                                     *)
Value(v) == CHOOSE w \in {v} : w = w

-----------------------------------------------------------------------------
(* Which particles become ghosts, and where.                               *)

(* The ghost layer: a local particle within its ghost width of a face is   *)
(* sent across the face.                                                   *)
LayerPlan(r, e) ==
  {d \in Dirs : IF Sign(d) = 1
                THEN e.pos[Axis(d)] >= Hi(r, Axis(d)) - r_ghost[e.tag]
                ELSE e.pos[Axis(d)] < Lo(r, Axis(d)) + r_ghost[e.tag]}

(* The directions from r towards a neighbor: with two domains along an     *)
(* axis, both directions of the axis.                                      *)
Towards(r, n) ==
  {d \in mask : (GridPos(r)[Axis(d)] + Sign(d)) % Extent(Axis(d)) = GridPos(n)[Axis(d)]}

(* Slip: both directions of an axis stay.                                  *)
Disambiguate_Both(r, flags, p) == flags

(* Slip: the direction of the farther face stays.                          *)
Disambiguate_Farther(r, flags, p) ==
  {d \in flags : \/ Opposite(d) \notin flags
                 \/ (Sign(d) = 1) <=> (2 * p[Axis(d)] <= Lo(r, Axis(d)) + Hi(r, Axis(d)))}

(* One direction of an axis only, the one of the nearer face.              *)
Disambiguate(r, flags, p) ==
  {d \in flags : \/ Opposite(d) \notin flags
                 \/ (Sign(d) = 1) <=> (2 * p[Axis(d)] > Lo(r, Axis(d)) + Hi(r, Axis(d)))}

Owner(lookup, n, t) == CHOOSE r \in Ranks : lookup[r][t] \in 1..n[r]

(* The inner loop of markGhostParticles: all local members of a group go   *)
(* to the rank of one that is not, q.  The flags one of them has narrowed  *)
(* are those of the next.                                                  *)
GhostFlags(r, g, q) ==
  LET flags[j \in 0..Len(g)] ==
        IF j = 0 THEN Towards(r, q)
        ELSE IF rtag[r][g[j]] = NOT_LOCAL THEN flags[j-1]
        ELSE Disambiguate(r, flags[j-1], table[r][rtag[r][g[j]]].pos)
  IN  flags

(* What the groups of r add to the plan of its entry i, by the ranks that  *)
(* r has stored for their members.                                         *)
markGhostParticles(r, i) ==
  UNION {GhostFlags(r, groups[x[1]], x[2])[x[3]] :
           x \in {y \in ToSet(constraints[r]) \X Ranks \X (1..MaxSize) :
                    /\ y[3] \in DOMAIN groups[y[1]]
                    /\ rtag[r][groups[y[1]][y[3]]] = i
                    /\ y[2] # r
                    /\ y[2] \in ToSet(group_ranks[r][y[1]])}}

(* The plans of the local particles.  CommunicatorGPU filters out the      *)
(* directions without communication, Communicator skips them in its loops. *)
Plans(r) ==
  [i \in 1..N[r] |->
     markGhostParticles(r, i) \cup
       IF comm = "Communicator" THEN LayerPlan(r, table[r][i])
       ELSE LayerPlan(r, table[r][i]) \cap mask]

-----------------------------------------------------------------------------
(* The exchange of Communicator.  x collects, per rank, the table, the     *)
(* lookup, the plans of all entries and the lists sent so far.             *)

(* Slip: received ghosts are not passed on.                                *)
Sending_OwnOnly(x, r, d) == {i \in 1..N[r] : d \in x.plan[r][i]}

(* The entries r sends in direction d: its particles and the ghosts it has *)
(* received.                                                               *)
Sending(x, r, d) == {i \in 1..Len(x.table[r]) : d \in x.plan[r][i]}

NoLists == [r \in Ranks |-> [d \in Dirs |-> <<>>]]

SendGhosts(x, d) ==
  LET out == [r \in Ranks |-> Sending(x, r, d)]
      from == [r \in Ranks |-> getNeighborRank(r, Opposite(d))]
      tab == [r \in Ranks |-> x.table[r] \o
                Arriving(r, At(x.table[from[r]], out[from[r]]))]
  IN  [table |-> tab,
       rtag |-> [r \in Ranks |-> Indexed(x.rtag[r], tab[r], Len(x.table[r]) + 1)],
       plan |-> [r \in Ranks |-> x.plan[r] \o At(x.plan[from[r]], out[from[r]])],
       sent |-> [r \in Ranks |-> [x.sent[r] EXCEPT
                   ![d] = [k \in 1..Cardinality(out[r]) |-> At(x.table[r], out[r])[k].tag]]]]

ExchangedCPU ==
  LET x[n \in 0..Len(Directions)] ==
        IF n > 0 THEN Value(SendGhosts(x[n-1], Directions[n]))
        ELSE [table |-> table, rtag |-> rtag, plan |-> Value([r \in Ranks |-> Plans(r)]),
              sent |-> NoLists]
  IN  x[Len(Directions)]

(* The exchange of CommunicatorGPU.  The neighbors of a rank, with the     *)
(* cells of the 3x3x3 neighborhood (m_adj_mask) in which each of them is.  *)
Offsets == {o \in {-1, 0, 1} \X {-1, 0, 1} \X {-1, 0, 1} :
              o # <<0, 0, 0>> /\ \A a \in Axes : o[a] # 0 => Extent(a) > 1}

adj_mask == [r \in Ranks |-> [n \in Ranks |-> {o \in Offsets : NeighborAt(r, o) = n}]]

(* get_direction_mask: the cells a plan reaches.                           *)
DirectionMask(plan) ==
  {o \in Offsets : \A d \in Dirs : o[Axis(d)] = Sign(d) => d \in plan}

(* What r sends to n: the index of the particle and the cells it is sent   *)
(* to, in the order of the table.                                          *)
IndexAdj(r, n, plan) ==
  LET all == [i \in DOMAIN plan |->
                [idx |-> i, adj |-> adj_mask[r][n] \cap DirectionMask(plan[i])]]
  IN  At(all, {i \in DOMAIN plan : all[i].adj # {}})

(* gpu_pack_wrap_kernel: the sender moves a particle by the box length     *)
(* when it goes across the boundary of the global box.                     *)
PackWrap(r, p, adj) ==
  [a \in Axes |->
     IF Extent(a) > 1 /\ GridPos(r)[a] = Extent(a) - 1 /\ (\E o \in adj : o[a] = 1)
     THEN p[a] - L(a)
     ELSE IF Extent(a) > 1 /\ GridPos(r)[a] = 0 /\ (\E o \in adj : o[a] = -1)
     THEN p[a] + L(a)
     ELSE p[a]]

(* The receive buffer of r: what its neighbors sent, in the order of their *)
(* ranks.                                                                  *)
RecvBuf(r, msg) == FlattenSeq([i \in 1..Cardinality(Ranks) |-> msg[i-1][r]])

(* The messages made of lists of indices from the arrays of the ranks.     *)
Packed(lists, data) ==
  [n \in Ranks |-> [r \in Ranks |->
     [k \in 1..Len(lists[n][r]) |-> data[n][lists[n][r][k].idx]]]]

PackedPositions(lists) ==
  [n \in Ranks |-> [r \in Ranks |->
     [k \in 1..Len(lists[n][r]) |->
        LET e == lists[n][r][k]
        IN  [table[n][e.idx] EXCEPT !.pos = PackWrap(n, @, e.adj)]]]]

ExchangedGPU ==
  LET plan == Value([r \in Ranks |-> Plans(r)])
      lists == Value([r \in Ranks |-> [n \in Ranks |-> IndexAdj(r, n, plan[r])]])
      tab == Value([r \in Ranks |-> table[r] \o RecvBuf(r, PackedPositions(lists))])
  IN  [table |-> tab,
       rtag |-> [r \in Ranks |-> Indexed(rtag[r], tab[r], Len(table[r]) + 1)],
       plan |-> plan,
       sent |-> lists]

-----------------------------------------------------------------------------
(* Ghost constraints: exchangeGhostGroups of either communicator.          *)

(* The plan of a local group: that of all its members (Communicator) or of *)
(* its local members (CommunicatorGPU), on the rank of the first one.      *)
GroupPlan(r, g, x) ==
  LET known == {t \in ToSet(g) : x.rtag[r][t] \in 1..Len(x.plan[r])}
  IN  IF x.rtag[r][g[1]] \in 1..N[r] THEN UNION {x.plan[r][x.rtag[r][t]] : t \in known}
      ELSE {}

GroupPlans(x) ==
  [r \in Ranks |-> [i \in 1..Len(constraints[r]) |->
                      GroupPlan(r, groups[constraints[r][i]], x)]]

(* Slip: members that are ghosts count as missing.                         *)
Kept_OwnMembers(r, have, g, x) ==
  g \notin ToSet(have) /\ \A t \in ToSet(groups[g]) : x.rtag[r][t] \in 1..N[r]

(* A received group is kept unless it is there or misses a member.         *)
Kept(r, have, g, x) ==
  g \notin ToSet(have) /\ \A t \in ToSet(groups[g]) : x.rtag[r][t] # NOT_LOCAL

Unpacked(r, have, received, x) ==
  LET acc[k \in 0..Len(received)] ==
        IF k = 0 THEN have
        ELSE IF Kept(r, acc[k-1], received[k], x) THEN Append(acc[k-1], received[k])
        ELSE acc[k-1]
  IN  acc[Len(received)]

(* One direction.  The received plans are stored from start_idx on, one    *)
(* for every received group, the groups without gaps.                      *)
SendGroups(x, y, d) ==
  LET out == [r \in Ranks |-> {i \in 1..Len(y.groups[r]) : d \in y.plan[r][i]}]
      from == [r \in Ranks |-> getNeighborRank(r, Opposite(d))]
  IN  [groups |-> [r \in Ranks |->
         Unpacked(r, y.groups[r], At(y.groups[from[r]], out[from[r]]), x)],
       plan |-> [r \in Ranks |-> SubSeq(y.plan[r], 1, Len(y.groups[r]))
                                 \o At(y.plan[from[r]], out[from[r]])]]

GhostGroupsCPU(x) ==
  LET y[n \in 0..Len(Directions)] ==
        IF n > 0 THEN Value(SendGroups(x, y[n-1], Directions[n]))
        ELSE [groups |-> constraints, plan |-> GroupPlans(x)]
  IN  y[Len(Directions)].groups

GhostGroupsGPU(x) ==
  LET plan == Value(GroupPlans(x))
      lists == Value([r \in Ranks |-> [n \in Ranks |-> IndexAdj(r, n, plan[r])]])
      buf == [r \in Ranks |-> RecvBuf(r, Packed(lists, constraints))]
  IN  [r \in Ranks |-> constraints[r] \o
         At(buf[r], {k \in DOMAIN buf[r] : Kept(r, constraints[r], buf[r][k], x)})]

-----------------------------------------------------------------------------
(* The way back (comm_flag::reverse_net_force): every ghost retraces its   *)
(* plan with the directions inverted, and ranks on the way pass it on.     *)

SendReverse(x, v, d) ==
  LET ghosts == [r \in Ranks |-> Len(x.table[r]) - N[r]]
      tags == [r \in Ranks |-> [i \in 1..ghosts[r] |-> x.table[r][N[r] + i].tag] \o v.tag[r]]
      out == [r \in Ranks |-> {i \in 1..Len(tags[r]) : d \in v.plan[r][i]}]
      from == [r \in Ranks |-> getNeighborRank(r, Opposite(d))]
  IN  [plan |-> [r \in Ranks |-> v.plan[r] \o At(v.plan[from[r]], out[from[r]])],
       tag |-> [r \in Ranks |-> v.tag[r] \o At(tags[from[r]], out[from[r]])],
       copy |-> [r \in Ranks |-> [v.copy[r] EXCEPT
                   ![d] = At(tags[r], out[r] \cap 1..ghosts[r])]],
       forward |-> [r \in Ranks |-> [v.forward[r] EXCEPT
                      ![d] = Sorted({i - ghosts[r] : i \in out[r] \ (1..ghosts[r])})]]]

(* Slip: a ghost goes on in the directions in which it came.               *)
ReversePlans_NotInverted(x) ==
  LET came(r) == [i \in 1..Len(x.table[r]) - N[r] |-> x.plan[r][N[r] + i]]
      v[n \in 0..Len(Directions)] ==
        IF n > 0 THEN Value(SendReverse(x, v[n-1], Directions[n]))
        ELSE [plan |-> [r \in Ranks |-> came(r)], tag |-> [r \in Ranks |-> <<>>],
              copy |-> NoLists, forward |-> NoLists]
  IN  v[Len(Directions)]

ReversePlans(x) ==
  LET inverted(r) == [i \in 1..Len(x.table[r]) - N[r] |->
                        {Opposite(d) : d \in x.plan[r][N[r] + i]}]
      v[n \in 0..Len(Directions)] ==
        IF n > 0 THEN Value(SendReverse(x, v[n-1], Directions[n]))
        ELSE [plan |-> [r \in Ranks |-> inverted(r)], tag |-> [r \in Ranks |-> <<>>],
              copy |-> NoLists, forward |-> NoLists]
  IN  v[Len(Directions)]

NoReverse == [copy |-> <<>>, forward |-> <<>>, tag |-> <<>>]

(* Slip: every direction writes from the first ghost on.                   *)
start_idx_First(r, got) == N[r] + 1

(* Where the ghosts received in the next direction begin.                  *)
start_idx(r, got) == N[r] + got[r] + 1

(* updateNetForce of Communicator, one direction: the forces of the sent   *)
(* particles go out to their ghosts (comm_flag::net_force, which every     *)
(* force requests) and those of the ghosts back to their owner, where they *)
(* are added.  y.buf is m_netforce_reverse_recvbuf, y.got the number of    *)
(* ghosts updated so far.                                                  *)
SendNetForce(y, d) ==
  LET from == [r \in Ranks |-> getNeighborRank(r, Opposite(d))]
      out == [r \in Ranks |-> [k \in 1..Len(sent[r][d]) |->
                y.net[r][rtag[r][sent[r][d][k]]]]]
      back == [r \in Ranks |->
                IF ~three_body THEN <<>>
                ELSE [k \in 1..Len(reverse.copy[r][d]) |->
                        y.net[r][rtag[r][reverse.copy[r][d][k]]]]
                     \o [k \in 1..Len(reverse.forward[r][d]) |->
                           y.buf[r][reverse.forward[r][d][k]]]]
      ghost(r, i) == i - start_idx(r, y.got) + 1
      added(r, i, q) == SumFunction([k \in 1..Len(back[from[r]]) |->
                          IF rtag[r][reverse.tag[r][Len(y.buf[r]) + k]] = i
                          THEN back[from[r]][k][q] ELSE 0])
  IN  [net |-> [r \in Ranks |-> [i \in 1..Len(y.net[r]) |->
                  IF i <= N[r] THEN [q \in Ranks |-> y.net[r][i][q] + added(r, i, q)]
                  ELSE IF ghost(r, i) \in 1..Len(out[from[r]]) THEN out[from[r]][ghost(r, i)]
                  ELSE y.net[r][i]]],
       buf |-> [r \in Ranks |-> y.buf[r] \o back[from[r]]],
       got |-> [r \in Ranks |-> y.got[r] + Len(out[from[r]])]]

updateNetForceCPU(net) ==
  LET y[n \in 0..Len(Directions)] ==
        IF n > 0 THEN Value(SendNetForce(y[n-1], Directions[n]))
        ELSE [net |-> net, buf |-> [r \in Ranks |-> <<>>], got |-> [r \in Ranks |-> 0]]
  IN  y[Len(Directions)].net

updateNetForceGPU(net) ==
  [r \in Ranks |-> SubSeq(net[r], 1, N[r]) \o RecvBuf(r, Packed(sent, net))]

-----------------------------------------------------------------------------
(* beginUpdateGhosts: new positions for the same ghosts.                   *)

SendPositions(y, d) ==
  LET from == [r \in Ranks |-> getNeighborRank(r, Opposite(d))]
      pos == [r \in Ranks |-> [k \in 1..Len(sent[r][d]) |->
                y.table[r][rtag[r][sent[r][d][k]]].pos]]
      ghost(r, i) == i - start_idx(r, y.got) + 1
  IN  [table |-> [r \in Ranks |-> [i \in 1..Len(y.table[r]) |->
                    IF ghost(r, i) \in 1..Len(pos[from[r]])
                    THEN [y.table[r][i] EXCEPT !.pos = Wrap(r, pos[from[r]][ghost(r, i)])]
                    ELSE y.table[r][i]]],
       got |-> [r \in Ranks |-> y.got[r] + Len(pos[from[r]])]]

UpdatedCPU ==
  LET y[n \in 0..Len(Directions)] ==
        IF n > 0 THEN Value(SendPositions(y[n-1], Directions[n]))
        ELSE [table |-> table, got |-> [r \in Ranks |-> 0]]
  IN  y[Len(Directions)].table

UpdatedGPU ==
  [r \in Ranks |-> LET buf == RecvBuf(r, PackedPositions(sent))
                   IN  [i \in 1..Len(table[r]) |->
                          IF i <= N[r] THEN table[r][i]
                          ELSE [table[r][i] EXCEPT !.pos = buf[i - N[r]].pos]]]

(* migrateParticles: particles outside the domain go to the neighbor, in   *)
(* one direction after the other (Communicator) or directly (GPU).         *)
(* x has the particles, the groups and the stored ranks of every rank.     *)
Outside(r, e, d) ==
  IF Sign(d) = 1 THEN e.pos[Axis(d)] >= Hi(r, Axis(d)) ELSE e.pos[Axis(d)] < Lo(r, Axis(d))

NoRank == -1

(* Members below the global box: where Communicator computes their rank,   *)
(* the grid position is unsigned, so that the test for values below 0      *)
(* fails and Index3D gives the cell before, in memory order, or, before    *)
(* the first cell, an index beyond the end of h_cart_ranks.  What is read  *)
(* there is any number.  GroupMigration is about this case.                *)
Unwrapped(tab) ==
  {u \in Particles \X Axes :
     /\ comm = "Communicator"
     /\ \E g \in ToSet(groups) : u[1] \in ToSet(g)
     /\ Extent(u[2]) > 1
     /\ LET q == Owner(rtag, N, u[1]) IN tab[q][rtag[q][u[1]]].pos[u[2]] < 0}

(* Slip: the rank is that of the sender.                                   *)
DestinationRank_Own(r, t, o, outside) == r

(* migrateGroups: the rank r stores for its member t, that it sends in     *)
(* the directions o.                                                       *)
DestinationRank(r, t, o, outside) ==
  LET n == [a \in Axes |-> IF GridPos(r)[a] + o[a] = Extent(a) THEN 0 ELSE GridPos(r)[a] + o[a]]
  IN  IF comm = "CommunicatorGPU" THEN NeighborAt(r, o)
      ELSE IF RankAt(n) >= 0 THEN RankAt(n)
      ELSE outside[<<t, CHOOSE a \in Axes : n[a] < 0>>]

UniqueNeighbors == [r \in Ranks |-> {n \in Ranks : adj_mask[r][n] # {}}]

(* migrateGroups.  to[r][t] are the directions in which r sends t.  Phase  *)
(* 1: the ranks of members that leave are told to the ranks that have the  *)
(* others.  Phase 2: the groups go where their members go, and stay where  *)
(* another member stays.  No group is new (incomplete = false).            *)
migrateGroups(x, to, outside) ==
  LET leaving(r, g) == {i \in DOMAIN groups[g] : groups[g][i] \in DOMAIN to[r]}
      local(r, t) == \E e \in ToSet(x.table[r]) : e.tag = t
      own == Value([r \in Ranks |-> [g \in DOMAIN x.ranks[r] |-> [i \in DOMAIN groups[g] |->
               IF i \in leaving(r, g)
               THEN DestinationRank(r, groups[g][i], to[r][groups[g][i]], outside)
               ELSE x.ranks[r][g][i]]]])
      told(r, g) == UniqueNeighbors[r] \cap
                      {own[r][g][j] : j \in DOMAIN groups[g] \ leaving(r, g)}
      tellers(r, g, i) == {s \in Ranks : /\ g \in DOMAIN x.ranks[s]
                                         /\ i \in leaving(s, g)
                                         /\ r \in told(s, g)}
      new == Value([r \in Ranks |-> [g \in DOMAIN x.ranks[r] |-> [i \in DOMAIN groups[g] |->
               IF tellers(r, g, i) = {} THEN own[r][g][i]
               ELSE own[CHOOSE s \in tellers(r, g, i) : TRUE][g][i]]]])
      kept(r) == {g \in DOMAIN x.ranks[r] :
                    leaving(r, g) = {} \/ \E i \in DOMAIN groups[g] \ leaving(r, g) :
                                            local(r, groups[g][i])}
      senders(r, g) == {s \in Ranks : /\ g \in DOMAIN x.ranks[s]
                                      /\ r \in UniqueNeighbors[s]
                                      /\ \E i \in leaving(s, g) : new[s][g][i] = r}
      received(r) == {g \in DOMAIN groups : senders(r, g) # {}} \ kept(r)
  IN  [x EXCEPT
         !.groups = [r \in Ranks |->
            SelectSeq(@[r], LAMBDA g : g \in kept(r)) \o Sorted(received(r))],
         !.ranks = [r \in Ranks |-> [g \in kept(r) \cup received(r) |->
            IF g \in kept(r) THEN new[r][g] ELSE new[Min(senders(r, g))][g]]]]

MigrateDir(x, d, outside) ==
  LET tab == x.table
      leaving == Value([r \in Ranks |-> {i \in DOMAIN tab[r] : Outside(r, tab[r][i], d)}])
      to == Value([r \in Ranks |-> [t \in {tab[r][i].tag : i \in leaving[r]} |-> Heading(d)]])
      from == [r \in Ranks |-> getNeighborRank(r, Opposite(d))]
  IN  [migrateGroups(x, to, outside) EXCEPT
         !.table = [r \in Ranks |-> At(tab[r], DOMAIN tab[r] \ leaving[r])
                                    \o Arriving(r, At(tab[from[r]], leaving[from[r]]))]]

MigratedCPU(own, outside) ==
  LET x[n \in 0..Len(Directions)] ==
        IF n = 0 THEN own ELSE Value(MigrateDir(x[n-1], Directions[n], outside))
  IN  x[Len(Directions)]

MigratedGPU(own) ==
  LET o(r, e) == [a \in Axes |-> IF Outside(r, e, 2 * a - 2) THEN 1
                                 ELSE IF Outside(r, e, 2 * a - 1) THEN -1 ELSE 0]
      moves(r, e) == \E a \in Axes : o(r, e)[a] # 0
      to == Value([r \in Ranks |->
               LET e(t) == CHOOSE f \in ToSet(own.table[r]) : f.tag = t
               IN  [t \in {f.tag : f \in {h \in ToSet(own.table[r]) : moves(r, h)}} |-> o(r, e(t))]])
      msg == [n \in Ranks |-> [r \in Ranks |->
                At(own.table[n], {i \in DOMAIN own.table[n] :
                                    NeighborAt(n, o(n, own.table[n][i])) = r})]]
  IN  [migrateGroups(own, to, <<>>) EXCEPT
         !.table = [r \in Ranks |->
            msg[r][r] \o Arriving(r, RecvBuf(r, [n \in Ranks |-> [msg[n] EXCEPT ![n] = <<>>]]))]]

-----------------------------------------------------------------------------
(* Members next to each other in a group are no further apart than a bond. *)
Bonded(all, at) ==
  \A g \in ToSet(all) : \A i \in 1..Len(g)-1 : \A a \in Axes :
    LET x == (at[g[i]][a] - at[g[i+1]][a]) % L(a) IN x <= MaxBond \/ L(a) - x <= MaxBond

Box == {<<x, y, z>> : x \in 0..L(1)-1, y \in 0..L(2)-1, z \in 0..L(3)-1}

ASSUME SetupsAssumption ==
  \A s \in Setups : s.at \in [Particles -> Box] /\ Bonded(s.groups, s.at)

(* The groups with a member among the particles of a table.                *)
Stored(tab) ==
  Sorted({g \in DOMAIN groups : \E e \in ToSet(tab) : e.tag \in ToSet(groups[g])})

(* After the first migration, in which the ranks tell each other which     *)
(* members they have.                                                      *)
Init ==
  /\ comm \in Communicators
  /\ r_ghost \in GhostWidths
  /\ three_body \in ThreeBody
  \* CommunicatorGPU::exchangeGhosts throws when it is asked for the way back
  /\ three_body => comm = "Communicator"
  /\ constrained = FALSE
  /\ \E s \in Setups :
       /\ groups = s.groups
       /\ table = [r \in Ranks |->
            LET mine == {t \in Particles : \A a \in Axes : s.at[t][a] \in Lo(r, a)..Hi(r, a)-1}
                tags == Sorted(mine)
            IN  [i \in 1..Len(tags) |-> [tag |-> tags[i], pos |-> s.at[tags[i]]]]]
  /\ N = [r \in Ranks |-> Len(table[r])]
  /\ rtag = [r \in Ranks |-> Indexed([t \in Particles |-> NOT_LOCAL], table[r], 1)]
  /\ constraints = [r \in Ranks |-> Stored(table[r])]
  /\ group_ranks = [r \in Ranks |-> [g \in ToSet(constraints[r]) |->
       [i \in DOMAIN groups[g] |-> Owner(rtag, N, groups[g][i])]]]
  /\ ghosts_added = [r \in Ranks |-> 0]
  /\ sent = NoLists
  /\ reverse = NoReverse
  /\ net_force = <<>>
  /\ phase = "local"
  /\ steps = 0

(* exchangeGhosts.  A group whose first member is local and that misses a  *)
(* member makes Communicator throw.                                        *)
exchangeGhosts ==
  /\ phase = "local"
  /\ LET x == IF comm = "Communicator" THEN ExchangedCPU ELSE ExchangedGPU
         incomplete(r, g) == /\ x.rtag[r][groups[g][1]] \in 1..N[r]
                             /\ \E t \in ToSet(groups[g]) : x.rtag[r][t] = NOT_LOCAL
     IN  /\ table' = x.table
         /\ rtag' = x.rtag
         /\ sent' = x.sent
         /\ ghosts_added' = [r \in Ranks |-> Len(x.table[r]) - N[r]]
         /\ IF comm = "Communicator" /\ \E r \in Ranks, g \in DOMAIN groups :
                 g \in ToSet(constraints[r]) /\ incomplete(r, g)
            THEN phase' = "error" /\ UNCHANGED <<constraints, reverse>>
            ELSE /\ phase' = "ghosts"
                 /\ constraints' = IF comm = "Communicator" THEN GhostGroupsCPU(x)
                                   ELSE GhostGroupsGPU(x)
                 /\ reverse' = IF three_body THEN ReversePlans(x) ELSE NoReverse
  /\ UNCHANGED <<setup, constrained, N, group_ranks, net_force, steps>>

(* The integrator moves a local particle.  Along an axis without           *)
(* communication the box of the rank is periodic.                          *)
integrateStepOne ==
  /\ phase = "forces"
  /\ steps < MaxSteps
  /\ \E r \in Ranks : \E i \in 1..N[r], a \in Axes, s \in {-1, 1} :
       /\ table' = [table EXCEPT ![r][i].pos[a] =
                      IF Extent(a) = 1 THEN (@ + s) % L(a) ELSE @ + s]
       /\ CrossLow \/ Unwrapped(table') = {}
       /\ Bonded(groups, [t \in Particles |->
            LET q == Owner(rtag, N, t) IN [b \in Axes |-> table'[q][rtag[q][t]].pos[b] % L(b)]])
  /\ steps' = steps + 1
  /\ net_force' = <<>>
  /\ constrained' = FALSE
  /\ phase' = "moved"
  /\ UNCHANGED <<setup, N, rtag, ghosts_added, sent, reverse, constraints, group_ranks>>

(* communicate without migration: beginUpdateGhosts, finishUpdateGhosts.   *)
updateGhosts ==
  /\ phase = "moved"
  /\ table' = IF comm = "Communicator" THEN UpdatedCPU ELSE UpdatedGPU
  /\ phase' = "ghosts"
  /\ UNCHANGED <<setup, constrained, N, rtag, ghosts_added, sent, reverse, constraints,
                 group_ranks, net_force, steps>>

(* Slip: nothing is removed.                                               *)
WithoutGhostTags_All(r) == rtag[r]

(* removeGhostParticleTags                                                 *)
WithoutGhostTags(r) ==
  [t \in Particles |->
     IF \E i \in 1..ghosts_added[r] : table[r][N[r] + i].tag = t THEN NOT_LOCAL
     ELSE rtag[r][t]]

(* communicate with migration, up to the exchange: the ghosts are removed  *)
(* and the particles and their groups go to the domains they are in.       *)
migrateParticles ==
  /\ phase = "moved"
  /\ \E outside \in [Unwrapped(table) -> Ranks \cup {NoRank}] :
     LET own == [table |-> [r \in Ranks |-> SubSeq(table[r], 1, N[r])],
                 groups |-> [r \in Ranks |-> SelectSeq(constraints[r],
                                               LAMBDA g : g \in DOMAIN group_ranks[r])],
                 ranks |-> group_ranks]
         x == IF comm = "Communicator" THEN MigratedCPU(own, outside) ELSE MigratedGPU(own)
         gone(r) == {e.tag : e \in ToSet(own.table[r])} \ {e.tag : e \in ToSet(x.table[r])}
     IN  /\ table' = x.table
         /\ N' = [r \in Ranks |-> Len(x.table[r])]
         /\ rtag' = [r \in Ranks |->
              Indexed([t \in Particles |-> IF t \in gone(r) THEN NOT_LOCAL
                                           ELSE WithoutGhostTags(r)[t]], x.table[r], 1)]
         /\ constraints' = x.groups
         /\ group_ranks' = x.ranks
  /\ ghosts_added' = [r \in Ranks |-> 0]
  /\ sent' = NoLists
  /\ reverse' = NoReverse
  /\ phase' = "local"
  /\ UNCHANGED <<setup, constrained, net_force, steps>>

(* Integrator::computeNetForce: every rank computes a force on every       *)
(* particle it has, ghosts included; without constraint forces it returns  *)
(* before updateNetForce.                                                  *)
computeNetForce ==
  /\ phase = "ghosts"
  /\ constrained' \in BOOLEAN
  /\ LET net == [r \in Ranks |-> [i \in 1..Len(table[r]) |->
                   [q \in Ranks |-> IF q = r THEN 1 ELSE 0]]]
     IN  net_force' = IF ~constrained' THEN net
                      ELSE IF comm = "Communicator" THEN updateNetForceCPU(net)
                      ELSE updateNetForceGPU(net)
  /\ phase' = "forces"
  /\ UNCHANGED <<setup, table, N, rtag, ghosts_added, sent, reverse, constraints,
                 group_ranks, steps>>

Next ==
  \/ exchangeGhosts
  \/ integrateStepOne
  \/ updateGhosts
  \/ migrateParticles
  \/ computeNetForce

Spec == Init /\ [][Next]_vars

-----------------------------------------------------------------------------
Entries(r) == ToSet(table[r])

Locals(r) == {table[r][i] : i \in 1..N[r]}

Position(t) == LET r == Owner(rtag, N, t) IN table[r][rtag[r][t]].pos

HaveGhosts == phase \in {"ghosts", "forces"}

(* Everything has its type.                                                *)
TypeOK ==
  /\ comm \in Communicators /\ three_body \in BOOLEAN /\ constrained \in BOOLEAN
  /\ \A r \in Ranks : /\ N[r] \in 0..Len(table[r])
                      /\ \A e \in Entries(r) : e.tag \in Particles
                      /\ \A t \in Particles : rtag[r][t] \in {NOT_LOCAL} \cup 1..Len(table[r])
                      /\ DOMAIN group_ranks[r] \subseteq ToSet(constraints[r])
                      /\ ToSet(constraints[r]) \subseteq DOMAIN groups
  /\ phase \in {"local", "ghosts", "moved", "forces", "error"}
  /\ steps \in 0..MaxSteps

(* The periodic images of a position that a rank could need: along an axis *)
(* with communication its box is not periodic.                             *)
Images(p) == {q \in {[a \in Axes |-> p[a] + k[a] * L(a)] : k \in {-1, 0, 1} \X {-1, 0, 1} \X {-1, 0, 1}} :
                \A a \in Axes : Extent(a) = 1 => q[a] = p[a]}

Near(r, p, w) == \A a \in Axes : Extent(a) = 1 \/ (p[a] >= Lo(r, a) - w /\ p[a] < Hi(r, a) + w)

(* exchangeGhosts leaves on every rank every particle within its ghost     *)
(* width of the domain, in the periodic image that is next to the domain,  *)
(* across edges and corners of domains too.                                *)
GhostLayerComplete ==
  [][phase = "local" /\ phase' = "ghosts" =>
       \A r \in Ranks, t \in Particles :
         (t \notin {e.tag : e \in Locals(r)}) =>
           \A p \in Images(Position(t)) :
             Near(r, p, r_ghost[t]) => [tag |-> t, pos |-> p] \in Entries(r)']_vars

(* A rank holds a particle at most once: it is not sent a particle it      *)
(* owns, or the same ghost twice (exchangeGhosts asserts that the lookup   *)
(* of a received ghost is NOT_LOCAL).                                      *)
GhostsReceivedOnce ==
  \A r \in Ranks : \A i, j \in 1..Len(table[r]) : table[r][i].tag = table[r][j].tag => i = j

(* The lookup finds a particle where it is, and only particles the rank    *)
(* has: no tag survives the removal of its ghost.  The types hold.         *)
LookupFindsParticles ==
  TypeOK /\ \A r \in Ranks, t \in Particles :
    IF t \in {e.tag : e \in Entries(r)}
    THEN rtag[r][t] \in 1..Len(table[r]) /\ table[r][rtag[r][t]].tag = t
    ELSE rtag[r][t] = NOT_LOCAL

(* A rank with a member of a group has all its members, and a force        *)
(* compute that subtracts their coordinates gets the bond: a ghost is in   *)
(* the periodic image next to the local member, after every update.        *)
BondedMembersAdjacent ==
  /\ phase # "error"
  /\ HaveGhosts =>
       \A r \in Ranks : \A g \in ToSet(groups) :
         (\E e \in Locals(r) : e.tag \in ToSet(g)) =>
           \A i \in 1..Len(g)-1 :
             \E e, f \in Entries(r) :
               /\ e.tag = g[i] /\ f.tag = g[i+1]
               /\ \A a \in Axes : Extent(a) = 1 \/ e.pos[a] - f.pos[a] \in -MaxBond..MaxBond

(* A ghost is where its owner has the particle, up to the periods of the   *)
(* box, also after it was forwarded and after particles moved on.          *)
GhostPositionsCurrent ==
  HaveGhosts =>
    \A r \in Ranks : \A e \in Entries(r) : e.pos \in Images(Position(e.tag))

(* "exchange ghost constraints along with ghost particles"                 *)
(* (Communicator.cc): a rank with all members of a constraint has the      *)
(* constraint, when the exchange is that of CommunicatorGPU.  The matrix   *)
(* of ForceDistanceConstraint is built from them.                          *)
ConstraintsFollowParticlesGPU ==
  comm = "CommunicatorGPU" /\ HaveGhosts =>
    \A r \in Ranks : \A g \in DOMAIN groups :
      ToSet(groups[g]) \subseteq {e.tag : e \in Entries(r)} => g \in ToSet(constraints[r])

(* updateNetForce: the constraint forces find, on every ghost, the net     *)
(* force the owner computed.                                               *)
GhostForcesCurrent ==
  phase = "forces" /\ constrained /\ ~three_body =>
    \A r \in Ranks : \A i \in N[r]+1..Len(table[r]) :
      LET q == Owner(rtag, N, table[r][i].tag)
      IN  net_force[r][i] = net_force[q][rtag[q][table[r][i].tag]]

(* The plans of the way back (comm_flag::reverse_net_force): whatever way  *)
(* a ghost came, round a corner or through the periodic boundary, its      *)
(* owner gets an entry for each of its copies, and no more.                *)
ReversePathsReachOwner ==
  HaveGhosts /\ three_body =>
    \A r \in Ranks, t \in Particles : rtag[r][t] \in 1..N[r] =>
      Cardinality({k \in DOMAIN reverse.tag[r] : reverse.tag[r][k] = t})
        = Cardinality({q \in Ranks : \E i \in N[q]+1..Len(table[q]) : table[q][i].tag = t})

=============================================================================
