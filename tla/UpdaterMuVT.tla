---------------------------- MODULE UpdaterMuVT ----------------------------
(***************************************************************************)
(* Gibbs ensemble Monte Carlo: UpdaterMuVT::update with ngibbs > 1         *)
(* (hpmc/UpdaterMuVT.h).  Every partition of the job simulates one box.    *)
(* In each update one random pair of boxes tries to transfer a particle or *)
(* to exchange volume, and the root ranks of the two partitions agree on   *)
(* it by messages; the other partitions skip the update and may run ahead. *)
(*                                                                         *)
(* A partition is one process, its root rank.  Its other ranks follow in   *)
(* collectives: whatever they branch on was broadcast by the root or       *)
(* reduced over all of them before.                                        *)
(*                                                                         *)
(* The Metropolis criterion and the overlap tests are choices.  Volumes    *)
(* are integers.                                                           *)
(***************************************************************************)
EXTENDS Integers, Sequences, FiniteSetsExt

CONSTANTS
    NPartitions,     \* m_exec_conf->getNPartitions()
    m_npartition,    \* boxes in one Gibbs ensemble (ngibbs)
    Names,           \* names of the particle types
    NameOf,          \* NameOf[p][t]: the name of type t in the box of p
    Particles,       \* Particles[p][t]: particles of type t at the start
    Volume,          \* Volume[p]: volume of the box of p at the start
    Rescales,        \* changes of the volume a move may propose
    Depletants,      \* whether a depletant type has a nonzero fugacity
    FirstSteps,      \* steps at which a simulation may start
    MaxUpdates,      \* bound on the number of updates
    UIntSize         \* number of values of an unsigned int

Partitions == 0 .. NPartitions - 1
Types(p) == DOMAIN NameOf[p]

ASSUME GibbsAssumption ==
    /\ m_npartition \in Nat /\ m_npartition > 1
    /\ NPartitions \in Nat /\ NPartitions % m_npartition = 0
    /\ \A p \in Partitions :
         {NameOf[p][t] : t \in Types(p)} = Names /\ DOMAIN Particles[p] = Types(p)

VARIABLES
    eager,       \* whether MPI_Send returns before the message is received
    first,       \* the step of the first update
    rng,         \* rng[i][g]: what ensemble g draws in update i
    timestep,    \* timestep[p]: the step p is in, or enters next
    pc,          \* pc[p]: what p does once it has communicated
    ops,         \* ops[p]: MPI calls before that
    blocked,     \* p's last MPI_Send has not returned
    chan,        \* chan[p][q][tag]: messages from p to q
    got,         \* got[p]: what p received, by the variable it went to
    loc,         \* loc[p]: local variables of update()
    N,           \* N[p][t]: particles of type t in the box of p
    V,           \* V[p]: volume of the global box of p
    scaled,      \* the volume the positions of p's particles are meant for
    overlaps     \* whether particles in the box of p overlap

vars == <<eager, first, rng, timestep, pc, ops, blocked, chan, got, loc,
          N, V, scaled, overlaps>>
box == <<N, V, scaled, overlaps>>
mpi == <<blocked, chan, got>>

-----------------------------------------------------------------------------
(* Messages and MPI calls. *)

Send(tag, kind, val) == [call |-> "send", tag |-> tag, kind |-> kind, val |-> val]
Recv(tag, kind) == [call |-> "recv", tag |-> tag, kind |-> kind]
Exchange(kind, val) == [call |-> "isend", tag |-> 0, kind |-> kind, val |-> val]

Free(p) == ops[p] = <<>> /\ ~blocked[p]

(* MPI_Send may return at once or wait for the receiver.  After MPI_Isend  *)
(* the matching MPI_Irecv is outstanding as well, and MPI_Waitall waits    *)
(* for both.                                                               *)
MPI_Send(p) ==
    /\ ops[p] # <<>> /\ ~blocked[p]
    /\ LET op == Head(ops[p]) IN
       /\ op.call \in {"send", "isend"}
       /\ chan' = [chan EXCEPT ![p][loc[p].other][op.tag] =
                     Append(@, [kind |-> op.kind, val |-> op.val])]
       /\ ops' = [ops EXCEPT ![p] =
                    IF op.call = "isend"
                    THEN <<[Recv(0, op.kind) EXCEPT !.call = "irecv"]>> \o Tail(@)
                    ELSE Tail(@)]
    /\ blocked' = [blocked EXCEPT ![p] = ~eager]
    /\ UNCHANGED <<eager, first, rng, timestep, pc, got, loc, box>>

(* The first message with the tag is taken, whatever it is about.          *)
MPI_Recv(p) ==
    /\ ops[p] # <<>>
    /\ LET op == Head(ops[p])
           q == loc[p].other IN
       /\ \/ op.call = "recv" /\ ~blocked[p]
          \/ op.call = "irecv"
       /\ chan[q][p][op.tag] # <<>>
       /\ got' = [got EXCEPT ![p][op.kind] = Head(chan[q][p][op.tag]).val]
       /\ chan' = [chan EXCEPT ![q][p][op.tag] = Tail(@)]
       /\ ops' = [ops EXCEPT ![p] = Tail(@)]
       /\ blocked' = [blocked EXCEPT ![q] = FALSE]
    /\ UNCHANGED <<eager, first, rng, timestep, pc, loc, box>>

-----------------------------------------------------------------------------
(* The choice of the pair.  All partitions of an ensemble draw the same    *)
(* numbers, as the generator is seeded with the step and the ensemble.     *)

group(p) == p \div m_npartition
Groups == {group(p) : p \in Partitions}

(* dest is drawn from one number less and moved past src. *)
Dest(src, d) == IF src <= d THEN d + 1 ELSE d

Draws == LET Drawn(v, R) ==
               {[src |-> s, dest |-> Dest(s, d), volume |-> v, rescale |-> r] :
                  s \in 0 .. m_npartition - 1, d \in 0 .. m_npartition - 2, r \in R}
         IN Drawn(FALSE, {0}) \union Drawn(TRUE, Rescales)

Index(p) == timestep[p] - first + 1
(* The part p has in the update, with m_gibbs_other. *)
PartOf(p, d) ==
    LET Box(i) == i + group(p) * m_npartition IN
    CASE p = Box(d.src) -> [active |-> TRUE, mod |-> 0, other |-> Box(d.dest)]
      [] p = Box(d.dest) -> [active |-> TRUE, mod |-> 1, other |-> Box(d.src)]
      [] OTHER -> [active |-> FALSE, mod |-> 0, other |-> p]

(* Slip: the last completed step is sent. *)
StepSent_Last(p) == (timestep[p] - 1) % UIntSize

(* An unsigned int is read from, and sent out of, the 64 bits of timestep. *)
StepSent(p) == timestep[p] % UIntSize

Goto(p, label) == pc' = [pc EXCEPT ![p] = label]
Calls(p, s) == ops' = [ops EXCEPT ![p] = s]

(* The variables of update() before they are set. *)
NoLocals == [mod |-> 0, other |-> 0, volume |-> FALSE, rescale |-> 0, type |-> 0,
             nonzero |-> FALSE, room |-> FALSE, accept |-> FALSE, V_old |-> 0,
             backup |-> [scaled |-> 0, overlaps |-> FALSE]]
NothingGot == [other_timestep |-> 0, size |-> 0, type |-> CHOOSE n \in Names : TRUE,
               n_insert |-> 0, remove_lnb |-> 0, nonzero |-> FALSE, result |-> FALSE,
               V_other |-> 0, other_result |-> FALSE, other_lnb |-> 0, other_ndof |-> 0]

EndUpdate(p) ==
    /\ Goto(p, "idle")
    /\ timestep' = [timestep EXCEPT ![p] = @ + 1]
    /\ loc' = [loc EXCEPT ![p] = NoLocals]
    /\ got' = [got EXCEPT ![p] = NothingGot]

(* The start of update(): draw the pair, exchange the steps. *)
update(p) ==
    /\ pc[p] = "idle" /\ Free(p)
    /\ timestep[p] < first + MaxUpdates
    /\ IF Index(p) > Len(rng)
       THEN \E d \in [Groups -> Draws] : rng' = Append(rng, d)
       ELSE UNCHANGED rng
    /\ LET d == rng'[Index(p)][group(p)]
           part == PartOf(p, d)
           send == <<Send(0, "other_timestep", StepSent(p))>>
           recv == <<Recv(0, "other_timestep")>> IN
       IF part.active
       THEN /\ loc' = [loc EXCEPT ![p].mod = part.mod, ![p].other = part.other,
                                  ![p].volume = d.volume, ![p].rescale = d.rescale]
            /\ Calls(p, IF part.mod = 0 THEN recv \o send ELSE send \o recv)
            /\ Goto(p, "compare")
            /\ UNCHANGED <<timestep, got>>
       ELSE EndUpdate(p) /\ UNCHANGED ops
    /\ UNCHANGED <<eager, first, blocked, chan, box>>

(* The steps must agree; then a transfer or a volume move begins. *)
compareSteps(p) ==
    /\ pc[p] = "compare" /\ Free(p)
    /\ Goto(p, IF got[p].other_timestep # timestep[p] THEN "thrown"
               ELSE IF loc[p].volume THEN "volume"
               ELSE IF loc[p].mod = 1 THEN "insert" ELSE "remove")
    /\ UNCHANGED <<eager, first, rng, timestep, ops, mpi, loc, box>>

-----------------------------------------------------------------------------
(* Transfer: the box that gives up a particle. *)

(* The type is drawn from those being transferred, and its name is sent.   *)
(* A box without such a particle goes on with the tag UINT_MAX.            *)
removeParticle(p) ==
    /\ pc[p] = "remove" /\ Free(p)
    /\ \E t \in Types(p) :
         /\ loc' = [loc EXCEPT ![p].type = t, ![p].nonzero = N[p][t] > 0]
         /\ Calls(p, <<Send(0, "size", 0), Send(0, "type", NameOf[p][t])>>)
    /\ Goto(p, "tryRemove")
    /\ UNCHANGED <<eager, first, rng, timestep, mpi, box>>

DepletantExchange(n) == IF Depletants THEN <<Exchange("n_insert", n)>> ELSE <<>>

(* Slip: without a particle to remove there is nothing to be exchanged. *)
tryRemoveParticle_NoParticle(p) ==
    /\ pc[p] = "tryRemove" /\ Free(p)
    /\ Calls(p, IF loc[p].nonzero THEN DepletantExchange(0) ELSE <<>>)
    /\ Goto(p, "weigh")
    /\ UNCHANGED <<eager, first, rng, timestep, mpi, loc, box>>

(* No depletants overlap when a particle vanishes: zero is sent, and the   *)
(* number to be inserted is received, with or without a particle.          *)
tryRemoveParticle(p) ==
    /\ pc[p] = "tryRemove" /\ Free(p)
    /\ Calls(p, DepletantExchange(0))
    /\ Goto(p, "weigh")
    /\ UNCHANGED <<eager, first, rng, timestep, mpi, loc, box>>

(* Whether n depletants fit where the particle was: any answer, unless     *)
(* there is none to be placed.                                             *)
moveDepletantsIntoOldPosition(n) == IF n > 0 THEN BOOLEAN ELSE {TRUE}

(* Depletants that have to go where the particle was may not fit there.    *)
(* The weight is sent and the decision awaited.                            *)
weighRemoval(p) ==
    /\ pc[p] = "weigh" /\ Free(p)
    /\ \E fit \in IF Depletants /\ loc[p].nonzero
                  THEN moveDepletantsIntoOldPosition(got[p].n_insert) ELSE {TRUE} :
         Calls(p, <<Send(0, "remove_lnb", 0), Send(0, "nonzero", loc[p].nonzero /\ fit),
                    Recv(0, "result")>>)
    /\ Goto(p, "removed")
    /\ UNCHANGED <<eager, first, rng, timestep, mpi, loc, box>>

removed(p) ==
    /\ pc[p] = "removed" /\ Free(p)
    /\ N' = [N EXCEPT ![p][loc[p].type] = IF got[p].result THEN @ - 1 ELSE @]
    /\ EndUpdate(p)
    /\ UNCHANGED <<eager, first, rng, ops, blocked, chan, V, scaled, overlaps>>

-----------------------------------------------------------------------------
(* Transfer: the box that receives a particle. *)

insertParticle(p) ==
    /\ pc[p] = "insert" /\ Free(p)
    /\ Calls(p, <<Recv(0, "size"), Recv(0, "type")>>)
    /\ Goto(p, "tryInsert")
    /\ UNCHANGED <<eager, first, rng, timestep, mpi, loc, box>>

(* Slip: types are taken to have the same numbers in all boxes. *)
getTypeByName_FirstBox(p, name) == CHOOSE t \in Types(0) : NameOf[0][t] = name

getTypeByName(p, name) == CHOOSE t \in Types(p) : NameOf[p][t] = name

(* Depletants in the way of the particle, and whether they can be placed   *)
(* around it instead.                                                      *)
countDepletantOverlapsInNewPosition == {0, 1}
moveDepletantsIntoNewPosition(n) == IF n > 0 THEN BOOLEAN ELSE {TRUE}

(* The overlap check.  If there is room, depletants in the way (n) are     *)
(* tried in the place the particle leaves in the other box.                *)
tryInsertParticle(p) ==
    /\ pc[p] = "tryInsert" /\ Free(p)
    /\ \E room \in BOOLEAN :
       \E n \in IF Depletants /\ room THEN countDepletantOverlapsInNewPosition ELSE {0} :
       \E fit \in moveDepletantsIntoNewPosition(n) :
         /\ loc' = [loc EXCEPT ![p].type = getTypeByName(p, got[p].type),
                               ![p].room = room, ![p].nonzero = room /\ fit]
         /\ Calls(p, DepletantExchange(n)
                       \o <<Recv(0, "remove_lnb"), Recv(0, "nonzero")>>)
    /\ Goto(p, "accept")
    /\ UNCHANGED <<eager, first, rng, timestep, mpi, box>>

(* Whether the transfer has a chance at all. *)
NonZero(p) ==
    loc[p].nonzero /\ (Depletants => got[p].n_insert = 0) /\ got[p].nonzero

acceptInsertion(p) ==
    /\ pc[p] = "accept" /\ Free(p)
    /\ \E accept \in IF NonZero(p) THEN BOOLEAN ELSE {FALSE} :
         /\ loc' = [loc EXCEPT ![p].accept = accept]
         /\ Calls(p, <<Send(0, "result", accept)>>)
    /\ Goto(p, "inserted")
    /\ UNCHANGED <<eager, first, rng, timestep, mpi, box>>

inserted(p) ==
    /\ pc[p] = "inserted" /\ Free(p)
    /\ IF loc[p].accept
       THEN /\ N' = [N EXCEPT ![p][loc[p].type] = @ + 1]
            /\ overlaps' = [overlaps EXCEPT ![p] = @ \/ ~loc[p].room]
       ELSE UNCHANGED <<N, overlaps>>
    /\ EndUpdate(p)
    /\ UNCHANGED <<eager, first, rng, ops, blocked, chan, V, scaled>>

-----------------------------------------------------------------------------
(* Volume move. *)

exchangeVolumes(p) ==
    /\ pc[p] = "volume" /\ Free(p)
    /\ LET send == <<Send(0, "V_other", V[p])>>
           recv == <<Recv(0, "V_other")>> IN
       Calls(p, IF loc[p].mod = 0 THEN send \o recv ELSE recv \o send)
    /\ Goto(p, "rescale")
    /\ UNCHANGED <<eager, first, rng, timestep, mpi, loc, box>>

(* The share of the first box after the move, strictly between nothing and *)
(* all (in the code a logistic function of a change of ln(V / V_other)).   *)
Share(v, w, r) == Min({v + w - 1, Max({1, v + r})})

(* Slip: the second box applies the change to itself, too. *)
V_new_BothFirst(p) == Share(V[p], got[p].V_other, loc[p].rescale)

(* Each box computes its own new volume: the second one what the first one *)
(* leaves.                                                                 *)
V_new(p) ==
    LET w == got[p].V_other IN
    IF loc[p].mod = 0 THEN Share(V[p], w, loc[p].rescale)
    ELSE V[p] + w - Share(w, V[p], loc[p].rescale)

(* Whether particles overlap in the new box.  What is found for depletants *)
(* is stored in a variable of an inner scope and does not reach the        *)
(* result, so it plays no role here.                                       *)
boxResizeAndScale(p) == IF V_new(p) = V[p] THEN {overlaps[p]} ELSE BOOLEAN

(* The positions are saved, box and positions scaled, and the result       *)
(* exchanged.                                                              *)
scaleBox(p) ==
    /\ pc[p] = "rescale" /\ Free(p)
    /\ \E o \in boxResizeAndScale(p) :
         /\ overlaps' = [overlaps EXCEPT ![p] = o]
         /\ Calls(p, IF loc[p].mod = 0
                     THEN <<Recv(0, "other_result"), Recv(1, "other_lnb"), Recv(0, "other_ndof")>>
                     ELSE <<Send(0, "other_result", o), Send(1, "other_lnb", 0),
                            Send(0, "other_ndof", 0), Recv(0, "result")>>)
    /\ V' = [V EXCEPT ![p] = V_new(p)]
    /\ scaled' = [scaled EXCEPT ![p] = V_new(p)]
    /\ loc' = [loc EXCEPT ![p].V_old = V[p],
                          ![p].backup = [scaled |-> scaled[p], overlaps |-> overlaps[p]]]
    /\ Goto(p, IF loc[p].mod = 0 THEN "judge" ELSE "apply")
    /\ UNCHANGED <<eager, first, rng, timestep, mpi, N>>

(* Slip: the first box looks at its own overlaps only. *)
AnyOverlap_Own(p) == overlaps[p]

AnyOverlap(p) == overlaps[p] \/ got[p].other_result

(* The first box decides for both. *)
judgeVolume(p) ==
    /\ pc[p] = "judge" /\ Free(p)
    /\ \E accept \in IF AnyOverlap(p) THEN {FALSE} ELSE BOOLEAN :
         /\ loc' = [loc EXCEPT ![p].accept = accept]
         /\ Calls(p, <<Send(0, "result", accept)>>)
    /\ Goto(p, "apply")
    /\ UNCHANGED <<eager, first, rng, timestep, mpi, box>>

(* A rejected move is taken back: positions and box. *)
applyVolume(p) ==
    /\ pc[p] = "apply" /\ Free(p)
    /\ LET accept == IF loc[p].mod = 0 THEN loc[p].accept ELSE got[p].result IN
       IF accept THEN UNCHANGED <<V, scaled, overlaps>>
       ELSE /\ V' = [V EXCEPT ![p] = loc[p].V_old]
            /\ scaled' = [scaled EXCEPT ![p] = loc[p].backup.scaled]
            /\ overlaps' = [overlaps EXCEPT ![p] = loc[p].backup.overlaps]
    /\ EndUpdate(p)
    /\ UNCHANGED <<eager, first, rng, ops, blocked, chan, N>>

-----------------------------------------------------------------------------
Init ==
    /\ eager \in BOOLEAN
    /\ first \in FirstSteps
    /\ rng = <<>>
    /\ timestep = [p \in Partitions |-> first]
    /\ pc = [p \in Partitions |-> "idle"]
    /\ ops = [p \in Partitions |-> <<>>]
    /\ blocked = [p \in Partitions |-> FALSE]
    /\ chan = [p \in Partitions |-> [q \in Partitions |-> [tag \in {0, 1} |-> <<>>]]]
    /\ got = [p \in Partitions |-> NothingGot]
    /\ loc = [p \in Partitions |-> NoLocals]
    /\ N = [p \in Partitions |-> Particles[p]]
    /\ V = [p \in Partitions |-> Volume[p]]
    /\ scaled = V
    /\ overlaps = [p \in Partitions |-> FALSE]

Step(p) ==
    \/ MPI_Send(p) \/ MPI_Recv(p)
    \/ update(p) \/ compareSteps(p)
    \/ removeParticle(p) \/ tryRemoveParticle(p) \/ weighRemoval(p) \/ removed(p)
    \/ insertParticle(p) \/ tryInsertParticle(p) \/ acceptInsertion(p) \/ inserted(p)
    \/ exchangeVolumes(p) \/ scaleBox(p) \/ judgeVolume(p) \/ applyVolume(p)

AllDone == \A p \in Partitions : pc[p] = "idle" /\ timestep[p] = first + MaxUpdates
Thrown == \E p \in Partitions : pc[p] = "thrown"

(* The runs are over, or an exception has ended the job. *)
Terminated == (AllDone \/ Thrown) /\ UNCHANGED vars

Next == (\E p \in Partitions : Step(p)) \/ Terminated

(* A partition that can go on does. *)
Fairness == \A p \in Partitions : WF_vars(Step(p))
Spec == Init /\ [][Next]_vars /\ Fairness

-----------------------------------------------------------------------------
(* Properties. *)

Labels == {"idle", "compare", "thrown", "remove", "tryRemove", "weigh", "removed",
           "insert", "tryInsert", "accept", "inserted",
           "volume", "rescale", "judge", "apply"}

(* Types of what the messages and the boxes hold; in particular no box has *)
(* a negative number of particles (removeParticle with the tag UINT_MAX)   *)
(* and no box is empty of volume.                                          *)
TypeOK ==
    /\ timestep \in [Partitions -> first .. first + MaxUpdates]
    /\ pc \in [Partitions -> Labels]
    /\ blocked \in [Partitions -> BOOLEAN]
    /\ \A p \in Partitions :
         /\ N[p] \in [Types(p) -> Nat]
         /\ V[p] \in Nat \ {0}
    /\ overlaps \in [Partitions -> BOOLEAN]

(* In all pairs and orders of updates, a message is received by the call   *)
(* that was written for it, although nearly all calls use the same tag and *)
(* a partition may be an update ahead of the others; and the types hold.   *)
MessagesMatch ==
    /\ TypeOK
    /\ \A p \in Partitions :
         ops[p] # <<>> /\ Head(ops[p]).call \in {"recv", "irecv"} =>
           LET op == Head(ops[p])
               c == chan[loc[p].other][p][op.tag]
           IN c # <<>> => Head(c).kind = op.kind

(* The number of particles with a name, by the numbers of one box's types. *)
Named(p, numbers, name) == numbers[CHOOSE t \in Types(p) : NameOf[p][t] = name]

(* Whenever all boxes have made the same number of updates, no message is  *)
(* left, the number of particles of each name over all boxes of an         *)
(* ensemble is what it was, and so is their total volume: of two boxes     *)
(* that transfer a particle or exchange volume, both do it or neither.     *)
Conserved ==
    (\A p \in Partitions : pc[p] = "idle" /\ timestep[p] = timestep[0]) =>
      /\ \A p, q \in Partitions : chan[p][q] = [tag \in {0, 1} |-> <<>>]
      /\ \A g \in Groups :
           LET Boxes == {p \in Partitions : group(p) = g}
               Total(f(_)) == MapThenSumSet(f, Boxes) IN
           /\ \A name \in Names :
                Total(LAMBDA p : Named(p, N[p], name))
                  = Total(LAMBDA p : Named(p, Particles[p], name))
           /\ Total(LAMBDA p : V[p]) = Total(LAMBDA p : Volume[p])

(* Between updates no box has overlapping particles, and the positions in  *)
(* it are those of its volume: a move that fails in one box only is taken  *)
(* back completely in both.                                                *)
BoxesSettled ==
    \A p \in Partitions : pc[p] = "idle" => ~overlaps[p] /\ scaled[p] = V[p]

(* The boxes never wait for each other in a circle: all updates are made,  *)
(* as long as the steps fit the unsigned int in which they are sent.       *)
UpdatesFinish == first + MaxUpdates <= UIntSize => <>AllDone

(* All updates are made at later steps too, as CHANGELOG.rst promises      *)
(* ("timestep values in the range [0,2**64-1]").  UpdaterMuVT::update      *)
(* fails it: it compares the step with the half of it that was sent.       *)
LateUpdatesFinish == first + MaxUpdates > UIntSize => <>AllDone
=============================================================================
