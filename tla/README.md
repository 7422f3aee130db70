# A TLA+ verification project for hoomd-blue

HOOMD-blue is a particle simulation engine: C++ (with GPU kernels) below a
Python interface, parallel over MPI by domain decomposition. Most of its lines
are numerical kernels, which model checking says nothing about. What this
project models is the machinery that has to be right for any kernel to see the
right data: which memory holds an array's current contents, which rank owns a
particle or a bond and where it is stored, which ghosts it has, in what order
ranks communicate, rebuild neighbor lists and compute forces, and how the
parallel Monte Carlo moves keep ranks and boxes out of each other's way.

Paths are relative to the repository (`hoomd/...` stands for `src/hoomd/...` in
`PROJECT.json`).

## 1. Inventory

| Part | State | Operations that change it | What makes it hard |
|---|---|---|---|
| `GPUArray`, `ArrayHandle` (`GPUArray.h`) | host and device memory, `m_data_location`, `m_acquired`, `m_pitch` | acquire and release, resize, assignment, swap | copies are skipped on the strength of a flag; handles outlive the mark that protects them |
| `ParticleData` | particles of each rank, ghosts, `m_rtag`, active and recycled tags, tag cache | add, remove, set position, load a snapshot, migrate, exchange ghosts, sort | six kinds of operation maintain one lookup table; state is partly replicated and partly per rank |
| `BondedGroupData` | group table of each rank, ghost groups, `m_group_rtag`, tags | add, remove, move with a particle, ghost exchange | a group is stored on several ranks; ghost groups are dropped lazily |
| `Communicator`, `CommunicatorGPU` | flags `m_force_migrate`, `m_has_ghost_particles`, `m_is_communicating`; plans, ghosts, lists of what was sent | communicate, migrate, exchange and update ghosts, net forces there and back | each rank decides alone to enter a collective; ghosts are forwarded over several hops and updated by position in a list |
| `NeighborList` | `m_force_update`, `m_rcut_changed`, last checked, updated and computed steps | compute, needsUpdating, distance check, setters | the flag is consumed by the first of two callers |
| `System`, `IntegratorTwoStep`, `ForceCompute` | current step, sorted flag | run, update, compute | computations are skipped once done in a step |
| `SFCPackTuner`, `LoadBalancer`, tuners | order of the particles, domain boundaries | update | change indices in the middle of a step |
| `Autotuner`, `CachedAllocator`, `GPUVector` | scan state; free blocks; capacity | | bounded resources, agreement between ranks |
| HPMC integrator, `UpdaterBoxMC`, `UpdaterQuickCompress`, `UpdaterShape` | positions, box, shape, ghosts, AABB tree with its flag | sweep of trial moves, grid shift, box moves, compression, shape moves | ranks move particles at the same time without a message |
| `UpdaterMuVT` (Gibbs ensemble) | particles and volume of several boxes | transfer a particle, exchange volume | two boxes have to take the same decision; nearly all messages have the same tag |
| Writers, readers, Python layer, MPCD, metal, MD forces | | | see section 7 |

`PROJECT.json` lists every component with its status, and every hazard with the
properties that would catch it.

## 2. Modules

| Module | Models | Checked by |
|---|---|---|
| `MirroredArray` | the abstract array that `GPUArray` promises | refinement target |
| `GPUArray` | `GPUArray.h`, one-dimensional arrays | `gpu_array`, `gpu_array_handles` |
| `GPUArrayProofs` | theorems about `GPUArray` | TLAPS |
| `ParticleData` | tags, lookup and ownership of particles on all ranks | `particle_data` |
| `Packing` | the loops that select elements of an array in order, in both of the data modules | with them |
| `TagLemmas` | lemmas about packing and the stack of recycled tags | TLAPS |
| `ParticleDataProofs` | theorems about `ParticleData` | TLAPS |
| `BondedGroupData` | the same for bonded groups | `bonded_groups`, `bonded_ghosts_lost` |
| `BondedGroupProofs` | theorems about `BondedGroupData` | TLAPS |
| `GroupMigration` | `GroupCommunicator::migrateGroups` and the loop of `Communicator::migrateParticles` on a grid of ranks | `group_migration`, `group_migration_wrap` |
| `GroupMigrationProofs` | theorems about `GroupMigration` | TLAPS |
| `TimeStep` | composition of `System::run`, `IntegratorTwoStep`, `Communicator::communicate`, `NeighborList`, `ForceCompute`, tuners | `time_step` |
| `TimeStepProofs` | theorems about `TimeStep` | TLAPS |
| `GhostExchange` | migration of particles, exchange and update of ghosts and ghost groups, net forces; CPU and GPU communicator | `ghost_exchange` |
| `HPMC` | the sweep of `IntegratorHPMCMono` on all ranks, and three updaters | `hpmc` |
| `HPMCLemmas`, `HPMCProofs` | theorems about `HPMC`, the second module extending the first | TLAPS |
| `UpdaterMuVT` | Gibbs ensemble moves between partitions | `gibbs`, `gibbs_steps` |

`MC*` modules add symmetry sets and small instances; the `.cfg` files give the constants. Operators
whose comment starts with "Slip" are plausible mistakes in the operator that
follows them; each property is known to be violated when one of them replaces
it (`mutants` in `PROJECT.json`). `TypeOK` is a conjunct of one invariant of every
run.

### GPUArray

`h_data[a]` and `d_data[a]` are the two memories (the empty sequence is a null
pointer), `m_exec[a]` whether there is no GPU, a GPU, or a GPU that maps the host
memory. `acquire()` is split by outcome: `AcquireNull`, `AcquireHost`,
`AcquireDevice`, `AcquireThrows`. `Read` and `Write` are what clients do with the
pointer. `Next` is the client the code base intends (a handle that may write is
the only one on its array; whole-array operations happen with no handle alive);
`AnyClientSpec` is restrained by nothing but `acquire()` itself.

The acquire functions return `GPUArrayDispatch` objects by value as their base
class. The derived object is destroyed at the return, which clears `m_acquired`:
`Dispatch` says so, and this is why the discipline is an assumption on the
client and not a consequence.

### ParticleData

One copy of what all ranks hold alike (tag set, recycled tags, count), and per
rank the particles, ghosts and lookup. Operations called by all ranks together
are one action. `migrate` is one of the six directions of
`Communicator::migrateParticles` for an arbitrary permutation of neighbours and
arbitrary sets of leaving particles; `exchangeGhosts` is the receiving end for
arbitrary ghosts. Positions start at 1 instead of 0, and `NOT_LOCAL` is -1.
A particle keeps its tag, one value for the properties that `removeParticle`
moves and one for those it does not.

### BondedGroupData

Particles are reduced to their owner. `Next` has the operations of all group
types; `GhostNext` adds the exchange of ghost groups, which the code does for
constraints only. `members` is a history variable.

### GroupMigration

What `BondedGroupData` leaves out: each rank stores, with a group, the rank of
every member, and particles leave for neighbouring domains, one of six
directions at a time. In a direction, ranks first tell each other the new ranks
of members that leave (`migrateGroups_ranks`), then send the groups
(`migrateGroups_groups`), then the particles (`migrateParticles`). Each of these is
an exchange in which every rank posts its messages and waits for those of its
neighbours, with nothing in it that depends on arrival order (what one rank
announces, no other does; of several copies of a group the lowest sender's is
taken), so one step stands for it. The order of a rank's table is left to
`BondedGroupData`, and the fields of a group other than its members are left
out.

`Destination` has the unsigned arithmetic of the code. `UIntSize` stands for
2^32, which TLC's integers do not reach: the index is the true one modulo
`UIntSize`, so any size above twice the number of ranks (the assumption) tells
entries of the array from what lies beyond it in the same way. A read beyond the
array returns any rank or none; that the process may also die there is the
behaviour that stops. `CrossLow` says whether particles cross the lower faces of
the global box, the case in which the arithmetic goes wrong.

Two things are assumed of the simulation: particles move at most one domain
between migrations, and along axes with more than three domains the members of
a group are in the same or adjacent domains when a migration begins (otherwise
the force computation stops with an incomplete group).

### TimeStep

Each rank has a program counter; steps of a rank interleave freely, and a
collective (`distanceCheck`, `updateGhosts`, `migrateParticles`) happens when all
ranks are there. `moved[r]` says that some particle of rank r is further than
half the buffer from where it was when the list was built; `reordered[r]` that
local indices changed since. Both are the truth against which the code's flags
are judged. Simplifications:

- neighbour-to-neighbour exchanges are barriers of all ranks, which is stricter
  than MPI: behaviours in which a rank runs ahead of one that is not its
  neighbour are not explored (with two ranks, all ranks are neighbours);
- the test `m_r_buff < 1e-6`, which makes every step a rebuild, is left out;
- a step has at most one triggered tuner, chosen by the script;
- the branch of `communicate()` without compute callbacks is absent, because
  every `Integrator` registers one (`Integrator.cc:38`);
- the branch of `NeighborList::compute` that communicates when a cut-off has
  changed is replaced by a guard, and the invariant `RCutIsFresh` shows that the
  guard never blocks;
- `ForceCompute::compute` also computes again in the same step when other quantities
  are asked for (`getFlags() != m_computed_flags`, `ForceCompute.cc:567`). This is left
  out: it adds computations, with the same positions, and removes none.

### GhostExchange

`table[r]` is the particle table of rank r with positions, ghosts last, `rtag[r]`
its lookup, `sent[r]` the lists from which ghosts are updated. For the CPU
communicator the six directions follow one another: a particle gets a plan (the
directions it is to be sent in), is copied to the neighbour, and is forwarded by
the receiver in later directions. `markGhostParticles` adds members of groups whose
other members are elsewhere. For the GPU communicator all neighbours are served
in one stage, the only one it is ever built with. `updateNetForce` sends the net
forces of ghosts forward (constraints) and, for three-body forces, back along
inverted plans (`reverse`). Migration is part of the module, so that plans are
made for particles that have just moved. `migrateGroups` moves the groups and the
ranks stored with them (`group_ranks`), in every direction for the CPU communicator
and once for the GPU communicator, and `markGhostParticles` reads these ranks. A
behaviour begins after the first migration, when the ranks have told each other
what they have; no group is added later.

`CrossLow` says, as in `GroupMigration`, whether bonded particles cross the lower faces
of the global box with the CPU communicator, where `migrateGroups` stores a wrong rank
(`DestinationRank`). The run has `CrossLow = FALSE`: what it shows of
`BondedMembersAdjacent` with the CPU communicator is subject to that, and with such
crossings the property does not hold (section 6). The GPU communicator computes the
rank in signed numbers, and there all crossings are in the run; particles without
bonds cross all faces with both communicators.

An exchange of all ranks is one step: every rank posts its messages in every
pass and waits for those of its neighbours. Assumed: members of a group are less
than half a domain apart along axes with two domains (`MaxBond`), the GPU sort is
stable, three-body forces run with the CPU communicator only (as in the code).

### HPMC

The ranks sweep without exchanging a message. `startUpdate` builds the trees that are
marked invalid, `trial` is one trial move of one rank, `endUpdate` the grid shift
with migration and ghost exchange, all of them parts of `update`. A rejected trial is a stuttering step, and a
rank may make any number of them, in any order (`nselect` and the shuffled order
are not counted). Between sweeps an updater resizes the box (`UpdaterBoxMC`, with
backup and undo), compresses it (`UpdaterQuickCompress`) or changes the shape
(`UpdaterShape`).

The target of a compression is a box variant: `targets` are the boxes it takes in the
run, `target` the one of the present step, chosen anew when a step ends (a new
`setTargetBox` is the same to `update`). `judged` is a history variable: the target
that the last compression evaluated. `m_is_complete` is kept between updates, so the
report is about `judged`, and `CompleteMeansDone` says so; that it would be about
`target` is a claim of the documentation, `CompleteIsCurrent`, and false (section 6).

Positions are fractions of the box, so that a resize changes `L` only. Particles
are aligned squares of edge `D` in two dimensions; their AABB is the particle, and
`D` is also the nominal width for the ghost layer (the code takes the diameter of
the circumsphere, which is larger and gives wider layers). Rotations, depletants,
pair energies are left out: whatever they add to the Metropolis criterion is a
choice. Images of particles are looked up at most one box away, along axes with one
domain, and `countOverlaps` counts every image in which two particles overlap, as the
code does: with a box narrower than two particles, a pair may overlap in two of them. The exchange of
ghosts is represented by its result, which `GhostExchange` is about.

### UpdaterMuVT

Each partition is a process; the messages between root ranks are explicit. `ops[p]`
is the list of MPI calls that p makes before its next decision `pc[p]`, and
`chan[p][q][tag]` the messages on their way. `eager` says whether `MPI_Send` waits for
the receiver: MPI leaves that open, so both are checked. `Draws` is what the
partitions of an ensemble draw alike from the common generator. Boxes number
their types differently and send names. The acceptance criterion and the overlap
tests are choices; the volume after a move is an integer `Share` of the sum. The
ranks of a partition are one process, because what they branch on was
broadcast or reduced before.

## 3. Runs and bounds

| Run | Bounds | Distinct states | Result |
|---|---|---|---|
| `gpu_array` | 2 arrays, 2 handles, up to 2 elements, 2 values | 431,255 | all hold |
| `particle_data` | 2 ranks, 3 tags | 9,832 | all hold |
| `bonded_groups` | 3 ranks, 3 particles, pairs, 3 group tags | 795 up to symmetry | all hold |
| `group_migration` | 4 x 2 ranks numbered out of order, 1 bond | 65,602 | all hold |
| `time_step` | 2 ranks, 3 steps in any number of runs, delays 0, 1, 2 | 868,477 | all hold, runs finish, no deadlock |
| `ghost_exchange` | 3 x 2 unequal domains, 2 particles with and without a layer, with and without a bond, both communicators, one migration between exchanges, `CrossLow = FALSE` | 46,004 | all hold |
| `hpmc` | 2 particles; 4 ranks with box moves, 2 ranks with compression to a fixed and to a changing target, 1 rank with shape moves | 255,870 | all hold |
| `gibbs` | 3 boxes, 2 types, 2 updates, steps below and beyond the width of an unsigned int | 445,864 | all hold, updates finish at steps that fit, no deadlock |

Why they are enough: two arrays are the most an array operation involves, two
handles the most a conflict needs, one element distinguishes old from new data
and two show a prefix kept on growing and shrinking. Two ranks have an owner
and a non-owner for every tag; three tags give a stack of recycled tags below a
live one. Three ranks give a group an old, a new and an uninvolved rank. On the
4 x 2 grid particles go round corners, both neighbours along the short axis are
the same rank, and along the long axis there are ranks that are not neighbours.
The code handles each group by itself, so one is enough. Three
steps show a check, a skipped check and a rebuild for every delay up to 2, with
a tuner before or after each. On the 3 x 2 grid a ghost takes two hops to a
corner, one axis has distinct neighbours and the other the same one twice; a
third axis would add a third hop of the same kind. Two particles are what
an overlap needs, and the four domains meet in a corner; that this is no accident
of the instance is what the proofs in section 5 show. Three boxes give a pair and
a box that runs ahead; two updates give two pairs that share a box.

Symmetry is used for interchangeable arrays, handles, ranks and particles, and
never for liveness. Deadlock is checked except where it is meaningless:
`GPUArray`, where an acquire that throws leaves an array unusable for ever,
`GhostExchange` and `HPMC`, whose runs may end at any time (a bound on the steps, an
exception).

## 4. Fairness

`TimeStep!Fairness` is weak fairness of each rank's steps (an MPI process keeps
executing; no step of a rank waits for anything but a collective) and of the
collectives (MPI completes a collective that all ranks have entered). The script
has no fairness: nobody has to start a run.

`UpdaterMuVT!Fairness` is weak fairness of each partition's steps: a process keeps
executing, and MPI delivers a message that a matching receive waits for.

## 5. Proofs

### GPUArray

`GPUArrayProofs` proves, for any sets of arrays, handles and values and any
bound on the size:

- `Invariance`: `IInv`, the inductive invariant;
- `TypeCorrect`, `CopiesAlwaysAgree`, `HandlesAlwaysCurrent`: types and two
  properties of the run `gpu_array`;
- `Refinement`: `GPUArray` implements `MirroredArray`.

Assumptions: `GPUArrayAssumption` (the cleared element is a value, the bound is a
natural number, the mark for a dead handle is no access).

`CopiesAgree` is not inductive: a write through a handle changes one memory, and
only the fact that a handle which may write points to the single valid memory
(`HandleLocation`) keeps the flag honest. That fact needs `WritersAlone` to
survive other acquires. `DeviceSide` ties the device memory to the kind of
execution (mapped memory is one memory under two names), and `NullOnHost` is
needed for `resize` of a null array, whose two memories are uninitialised and
differ. There is one lemma per action, one for `Init`, and the same again for the
refinement, where the abstract content is the memory `m_data_location` names.

### HPMC

`HPMCProofs` proves, for any decomposition, any finite set of particles, any sets
of boxes, diameters, displacements and shifts:

- `Invariance`: `IInv`, the inductive invariant, checked with TLC before;
- `NeverOverlap`: `[]NoOverlap`, no two particles ever overlap unless a compression
  was allowed to leave overlaps;
- `TreesAlwaysCurrent`, `CompleteAlwaysDone`: a tree that is not marked invalid is
  that of the present configuration; while a compression reports completion, the
  box is the target its last update evaluated, and nothing overlaps;
- `OverlapsVanish`: the action property `OverlapsOnlyVanish`;
- `CountAlwaysExact`: `[]CountExact`, the ranks' counts of overlaps add up to the
  number of ways in which particles meet, images included, and to the number of
  overlapping pairs when no box length is below two diameters;
- `AlwaysTyped`: the variables keep their types.

Assumptions: `SetupsAssumption` (domains are cut in rising order and cover the
box), `SizesAssumption` (particles are smaller than the box), `MovesAssumption` (a
displacement does not exceed the box), and `SerialShapes` in the statement of the
theorems: shape moves run on one rank. Without the last one `NoOverlap` does not
hold (section 6).

The argument: when all ranks sweep at once, a rank sees its neighbours' particles
where they were at the last exchange. `NoOverlap` alone is not preserved, as a rank
could move next to a ghost that is no longer there. The strengthening
`InactiveKnown` says that particles outside their owner's active region, which
nobody moves, are known where they are; `ActiveApart` (in `HPMCLemmas`) that two
particles inside the active regions of different ranks are further apart than a
diameter, whatever the grid and across the periodic boundary. So a trial move is
checked against everything it could meet. Between sweeps all ghosts are current,
which a box move restores by an exchange or an undo. `HPMCLemmas` has the
geometry and one lemma per step of the sweep, `HPMCProofs` one per updater, the
compression and the theorems.

`CountExact` needs that no meeting of two particles (a pair and an image) is counted
twice or missed. What meets a particle is found by its owner among its particles and
ghosts, in one image of its list (`MeetingCounted`, from `FoundLocal` and `FoundGhost`);
what an owner finds is a meeting (`CountSound`); a domain is wider than two ghost
layers (`checkBoxSize`), so that two entries that an owner finds are two meetings
(`FoundInjective`); and of the two owners of a pair the tag comparison leaves one.
`CountMeetings` puts this together as a bijection between what the ranks count and the
meetings, which replaces an induction over the ranks. `OneMeeting` shows that a pair
meets once when the box is at least two diameters wide.

### ParticleData

`ParticleDataProofs` proves, for any finite set of ranks and any number of tags:

- `OneOwner`: `[]OneOwnerPerTag`;
- `LookupIsInverse`: `[]LookupInvertsTags`, which includes the types;
- `TagBookkeeping`, `LookupTableCovers`, `CacheNeverStale`: `[]TagsPartition`,
  `[]LookupTableSize` and `[]CacheListsActiveTags`.

Assumptions: `ParticleDataAssumption` (the ranks are finitely many, the root is one
of them, the bound on the tags is a natural number, 0 is a value).

The invariant `IInv` has two halves. `Bookkeeping` is about what all ranks hold alike:
active and recycled tags partition `0..InUse-1`, the stack of recycled tags has no
duplicates, the lookup table is no longer than `InUse`. `Spread` is about the ranks: each
active tag has one owner, and each rank's lookup inverts its particles and ghosts for
*every* tag below `InUse`. `LookupInvertsTags` itself speaks only of the tags below
`m_rtag_size` and is not inductive: removing the largest tag shortens the table, adding
makes it longer again, and only the stronger form says that the entries which come
back are `NOT_LOCAL`. `OneOwnerPerTag` and the lookup depend on each other, as
`removeParticle` finds the owner by its lookup.

`Inverts` and `Spread` take arrays as parameters, so that an operation's effect on one
rank is a lemma about sequences: appending (`addParticle`), moving the last one
into a gap (`removeParticle`), packing (`removeParticles`, snapshots), permuting (the
sort), clearing ghosts. `Packed` gives each element the counter of the loop; that it
is a numbering without gaps is `PlaceProperties`, by counting, not by induction.

### BondedGroupData

`BondedGroupProofs` proves, for any ranks, particles, group size and number of
group tags, and for the operations without ghost groups (`Spec`; with them,
`MembersOwnersHoldGroup` does not hold, see section 6):

- `GroupsStored`: `[]MembersOwnersHoldGroup`;
- `LookupInverts`: `[]LookupInvertsTable`;
- `GroupTagsKept`: `[]GroupTagsPartition`.

Assumptions: `BondedGroupAssumption` (a group has at least one member, the bound on
the tags is a natural number).

The invariant says of every rank that its table and its lookup are inverse to each
other and hold *exactly* the active groups with a member on the rank (`Stores`), and
of the tags that active and recycled ones partition those given out, without
duplicates on the stack (`Tagging`). None of the three properties is inductive alone:
`moveParticleGroups` decides by the lookup which groups a new rank already has, so
the lookup must be right for groups that are not stored, too; and
`removeBondedGroup` moves the last group into the gap, which keeps the lookup right
only when no group is stored twice. The lemmas on packing and on the stack are shared
with `ParticleData` (`TagLemmas`).

### GroupMigration

`GroupMigrationProofs` proves, for every grid of domains, every order of the ranks in
it (`cart_ranks`), any particles and groups and any width of unsigned numbers above
twice the number of ranks:

- `GroupsMigrate`: `[]GroupsFollowMembers`;
- `OwnersKnown`: `[]RanksAreOwners`;
- `DestinationsKnown`: `[]RanksAreDestinations`.

All three have the hypothesis `~CrossLow`, no particle crosses a lower face of the
global box. It is satisfied by every simulation whose particles do not reach these
faces, and it cannot be left out: with such crossings `RanksAreDestinations` is
violated, which is the run `group_migration_wrap`. The other assumptions are
`GroupMigrationAssumption` and the two on the simulation named in section 2, which
are conjuncts of `Drifts`.

The argument: `GroupsFollowMembers` speaks of the moment between two directions, and
the three phases of a direction pass through states where it is false.
`Stored` says what holds in each phase: before the ranks are exchanged, a rank
stores the groups it owns a member of; after that, the ranks stored with a group are
those its members *will* have (`NewOwner`); after the groups are sent, a rank stores
the groups it *will* own a member of. The first step is the hard one: a rank tells
the new rank of a leaving member only to those of its neighbours that the stored ranks
name. `Close` and the lemmas on rings (`RingNear`, `RingMoves`) show that the owners of a
group's members are always neighbours, before and after every direction, across the
periodic boundary and on axes with two or three domains; `Passed` that nothing is left
to move in a direction that is over; `Inside` that the unsigned index of the destination is that of a rank. The grid lemmas
(`GridPosition`, `RankAt`, `Neighbor`, `DestinationIsNeighbor`) relate the arithmetic of
phase 1 to `getNeighborRank`, which the particles follow, with quotients and
remainders by variable extents. The invariant was checked with TLC on 4 x 2, 2 x 2
and 5 x 1 grids before.

### TimeStep

`TimeStepProofs` proves, for any number of ranks, steps and tuner schedules and
any set of delays:

- `CollectivesAgree`: `[]CollectivesMatch`, the ranks never wait in different
  collectives or for different steps;
- `ListsAreInOrder`, `ChecksCompareSameParticles`, `CutOffsAreFresh`,
  `ForcesAreCurrent`, `ListsAreValidBeyondDelay`: the other five safety invariants of
  the run `time_step`.

Assumption: `TimeStepAssumption` (there is a rank; steps and delays are natural
numbers).

The argument: `CollectivesMatch` says nothing about ranks that are between two
collectives, where one may be many steps of the code ahead of another. `Bound`
follows a rank from any label to the collective where it will wait next, and
gives that label with the flags, the step and the caller the rank will have there:
a function of the rank's own state, since nothing a rank does alone depends on
another one or on how far its particles moved. `Lockstep` says that all ranks are bound
for the same. A step of one rank leaves its `Bound` alone, a collective is entered by
all ranks in the same state and leaves them in the same one, and only a collective
(the reduction in the distance check) mixes in what the ranks do not have in common.
That the label and the state coincide for ranks that wait is then immediate.

The other half, `Sound`, relates the flags of one rank to what they stand for. For
each thing that may be out of date (ghosts, order of the particles, cut-off,
distances moved, forces) it names the flags or the place in the code that will
see to it: particles out of order imply a pending `m_force_update` or a rank that
has already been told to rebuild; a list that misses a pair implies that the next
check is due or that the list is younger than the delay. The flags are cleared by the
first of two callers, and the answer travels to the second in `m_last_check_result`
and the step of the check, which is why `Sound` also bounds these steps by the clock
(`Clocks`). `InvalidListOnlyWithinDelay` compares two ranks and needs both halves.

There is one lemma per action; `OneRank` reduces the step of one rank to that rank's
types, `Bound` and `Sound`, and `AllRanks` does the same for steps of all ranks.

### Only model-checked

- Liveness, `RunsFinish` and `UpdatesFinish`: fairness and ENABLED are out of the
  prover's reach.
- `UpdaterMuVT` (`MessagesMatch`, `Conserved`, `BoxesSettled`): no theorem yet.
- `GhostExchange`, all invariants: tables and lists of what was sent grow along hops,
  and what they hold after the six directions is an induction over these sequences,
  which the installed provers cannot instantiate.
- The run `bonded_ghosts_lost` and the other runs that end in a violation.

## 6. Findings

| Run | What the code does |
|---|---|
| `gpu_array_handles` | a second handle on an array is granted while the first is alive, although the documentation promises an error |
| `bonded_ghosts_lost` | dropped ghost groups keep their lookups (against an assertion in `removeBondedGroup`), and then `moveParticleGroups` does not store a constraint on the new rank of its member |
| `group_migration_wrap` | a bonded particle that crosses the lower face of the global box goes to one rank and its groups to another, or the rank is read beyond the end of an array: an unsigned coordinate is tested for `< 0` |
| `gibbs_steps` | boxes of a Gibbs ensemble that are at the same step stop with "Boxes are at different time steps" from step 2^32 on, because the step is sent as an unsigned int (`hpmc/UpdaterMuVT.h:927`); `CHANGELOG.rst:1406`: "Support timestep values in the range [0,2**64-1]." |

Met while modelling. All but the last one were counterexamples of TLC for the
module named, in a configuration that is not one of the runs; the last one is by
reading.

- `HPMC`, property `NoOverlap`, shape moves on two ranks: `UpdaterShape::update`
  (`hpmc/UpdaterShape.h:319`) counts overlaps with the ghosts of the old shape's
  layer. A particle of another rank that the grown shape reaches may be no ghost,
  no rank counts the pair, and the move is accepted, although the next lines are to
  "automatically reject if there are overlaps". (`tlc -config
  MCHPMCShape.cfg MCHPMC` shows it.)
- `HPMC`, property `CompleteIsCurrent`: the documentation of `QuickCompress.complete`
  (`hpmc/update.py:851`) says that it "returns `True` if the current simulation box is
  equal to the box corresponding to `target_box` evaluated at the current timestep",
  but `m_is_complete` keeps its value until the next triggered update, while the target of
  a box variant goes on and `setTargetBox` (`hpmc/UpdaterQuickCompress.h:111`) may replace
  it. (`tlc -config MCHPMCRamp.cfg MCHPMC` shows it.)
- `ParticleData`, property `RemovalMovesWholeParticle`: `removeParticle`
  (`ParticleData.cc:2633`) does not move angular momentum and moment of inertia with the
  last particle. (`tlc -config MCParticleDataRemove.cfg MCParticleData` shows it.)
- `GhostExchange`, property `BondedMembersAdjacent`, with `CrossLow = TRUE`: the finding of
  `group_migration_wrap` goes on into the exchange of ghosts. The rank stored for the
  member is wrong, its partner is not sent to where it is, and the exchange stops
  with an incomplete group. (`tlc -config MCGhostExchangeWrap.cfg MCGhostExchange`
  shows it.)
- `GhostExchange`: `markGhostParticles` sends a member of a group of three in both
  directions of an axis with two domains, against the assertion at
  `Communicator.cc:2360`.
- `GhostExchange`: with the CPU communicator a rank at a corner can hold all members
  of a constraint without the constraint (`Communicator.cc:1084` keeps plans for
  groups that were skipped), against the comment at `Communicator.cc:2368`. The GPU
  communicator is right, which is what `ConstraintsFollowParticlesGPU` checks.
- `GhostExchange`: forces that three-body potentials leave on ghosts do not reach
  the owner. `Integrator::computeNetForce` returns before `updateNetForce` when there
  are no constraint forces; when there are, the ghosts' forces are overwritten by the
  forward exchange before they are sent back (`Communicator.cc:2373` describes the
  way back as the purpose of the reverse plans).
- `GPUArray`: `resize` of a null array leaves `getPitch()` at 0 (`GPUArray.h:1597`).
- `TimeStep`: `check_dist = False` with the default delay of 1 still checks distances
  (`md/NeighborList.cc:1387`).
- `UpdaterMuVT::boxResizeAndScale` stores the result of the depletant check in a
  variable that hides the one it returns: a volume move is not rejected for
  depletants.

## 7. Not modelled, and the plan

The models stand for a few per cent of the lines. Much of the rest is out of reach
of this method: the overlap tests of shapes, the force kernels, the GPU kernels
that repeat them, file formats and bindings have neither states nor orders to get
wrong, and a model of them would repeat their arithmetic.

Next, in this order:

1. Proofs for `UpdaterMuVT` (`MessagesMatch`, `BoxesSettled`).
2. The GPU integrator of HPMC, whose rounds of parallel trial moves depend on each
   other; grand canonical moves and the per-type tag lists of `UpdaterMuVT`;
   `UpdaterShape` with several partitions (its gathers at `hpmc/UpdaterShape.h:339` are
   not reached by a partition that rejects).
3. Several communication stages of `CommunicatorGPU`; three-dimensional corners.
4. `Autotuner`, `CachedAllocator`, `GPUVector`, `System::determineFlags` with
   triggers, `LoadBalancer`.
5. The GSD deque writer, attach and detach in the Python layer, FIRE, the MPCD
   communicator.

Left out for good: floating-point geometry and force kernels, file formats,
start-up and messaging, generated bindings.
