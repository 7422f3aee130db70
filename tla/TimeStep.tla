------------------------------ MODULE TimeStep ------------------------------
(***************************************************************************)
(* An MD run under domain decomposition, rank by rank: System::run, the    *)
(* IntegratorTwoStep, Communicator::communicate, the neighbor list's       *)
(* decision to rebuild and the force computation that uses the list.       *)
(* Ranks run asynchronously and meet in collective communication; where    *)
(* their decisions differ they wait for each other forever.                *)
(*                                                                         *)
(* Positions are abstracted to moved[r], whether some particle of rank r   *)
(* has gone further than half the buffer since the list was built, and to  *)
(* reordered[r], whether the local indices changed since then.  The script *)
(* that drives a simulation is the same on all ranks.                      *)
(***************************************************************************)
EXTENDS Integers

CONSTANTS
  Ranks,    \* the ranks of the communicator
  Delays,   \* values of the neighbor list's rebuild_check_delay
  MaxStep   \* bound on the time step

ASSUME TimeStepAssumption ==
  /\ Ranks # {}
  /\ Delays \subseteq Nat /\ Delays # {}
  /\ MaxStep \in Nat

VARIABLES
  pc,         \* pc[r]: where rank r is
  ret,        \* ret[r]: where it goes after communicate()
  checker,    \* checker[r]: who called needsUpdating()
  now,        \* now[r]: the time step rank r works on
  end,        \* m_end_tstep of the current run
  tuner,      \* tuner[t]: what the triggered tuner of step t is
  delay,      \* m_rebuild_check_delay
  dist_check, \* m_dist_check
  comm,       \* comm[r]: the Communicator's flags
  nlist,      \* nlist[r]: the NeighborList's state
  force,      \* force[r]: the ForceCompute's state
  moved, reordered,  \* what happened since the list was built
  ghosts_current,    \* ghost positions are those of step now[r]
  forces_current     \* forces are those of the positions of step now[r]

script == <<end, tuner, delay, dist_check>>

world == <<moved, reordered, ghosts_current, forces_current>>

vars == <<pc, ret, checker, now, script, comm, nlist, force, world>>

Tuners == {"none", "SFCPackTuner", "NeighborListBuffer"}

Init ==
  /\ pc = [r \in Ranks |-> "idle"]
  /\ ret = [r \in Ranks |-> "prepRun"]
  /\ checker = [r \in Ranks |-> "migrateRequests"]
  /\ now = [r \in Ranks |-> 0]
  /\ end = 0
  /\ tuner \in [0..MaxStep-1 -> Tuners]
  /\ delay \in Delays
  /\ dist_check \in BOOLEAN
  /\ comm = [r \in Ranks |-> [is_communicating |-> FALSE, force_migrate |-> FALSE,
                              has_ghosts |-> FALSE, migrate_request |-> FALSE]]
  /\ nlist = [r \in Ranks |-> [force_update |-> TRUE, rcut_changed |-> TRUE,
                               last_checked |-> 0, last_result |-> FALSE,
                               last_updated |-> 0, last_computed |-> 0, first |-> TRUE]]
  /\ force = [r \in Ranks |-> [sorted |-> FALSE, last_computed |-> 0, first |-> TRUE]]
  /\ moved = [r \in Ranks |-> FALSE]
  /\ reordered = [r \in Ranks |-> TRUE]
  /\ ghosts_current = [r \in Ranks |-> FALSE]
  /\ forces_current = [r \in Ranks |-> FALSE]

-----------------------------------------------------------------------------
(* Compute::shouldCompute and what it leaves behind.                       *)
shouldCompute(c, t) == c.first \/ c.last_computed # t

Computed(c, t) == [c EXCEPT !.first = FALSE, !.last_computed = t]

(* Communicator::forceMigrate.                                             *)
forceMigrate(c) == [c EXCEPT !.force_migrate = @ \/ ~c.is_communicating]

(* Slip: the force is not connected to the signal.                         *)
setParticlesSorted_Unconnected(f) == f

(* ParticleData::notifyParticleSort also reaches the neighbor list         *)
(* (forceUpdate) and the force (setParticlesSorted).                       *)
forceUpdate(n) == [n EXCEPT !.force_update = TRUE]

setParticlesSorted(f) == [f EXCEPT !.sorted = TRUE]

Goto(r, label) == pc' = [pc EXCEPT ![r] = label]

(* A call of communicate(now[r]) after which rank r continues at label.    *)
CallCommunicate(r, label) ==
  /\ Goto(r, "communicate")
  /\ ret' = [ret EXCEPT ![r] = label]

AllAt(label) == \A r \in Ranks : pc[r] = label

AllGoto(label) == pc' = [r \in Ranks |-> label]

-----------------------------------------------------------------------------
(* NeighborList::needsUpdating: "yes", "no", or "check" when it depends on *)
(* the collective distance check; and the state it leaves before that.     *)
ExactlyDue(n, t) == delay = 0 \/ (delay > 1 /\ t = n.last_updated + delay)

(* Slips: the answer of a step is final even if a sort follows; checks     *)
(* start one step late.                                                    *)
needsUpdating_OncePerStep(n, t) ==
  IF n.last_checked = t THEN IF n.last_result THEN "yes" ELSE "no"
  ELSE IF n.force_update THEN "yes"
       ELSE IF t < n.last_updated + delay THEN "no"
       ELSE IF ~dist_check /\ ExactlyDue(n, t) THEN "yes" ELSE "check"

needsUpdating_OneStepLate(n, t) ==
  IF n.last_checked = t
    THEN IF n.force_update \/ n.last_result THEN "yes" ELSE "no"
    ELSE IF n.force_update THEN "yes"
         ELSE IF t <= n.last_updated + delay THEN "no"
         ELSE IF ~dist_check /\ ExactlyDue(n, t) THEN "yes" ELSE "check"

needsUpdating(n, t) ==
  IF n.last_checked = t
    THEN IF n.force_update \/ n.last_result THEN "yes" ELSE "no"
    ELSE IF n.force_update THEN "yes"
         ELSE IF t < n.last_updated + delay THEN "no"
         ELSE IF ~dist_check /\ ExactlyDue(n, t) THEN "yes" ELSE "check"

Checked(n, t) ==
  IF n.last_checked = t THEN [n EXCEPT !.force_update = FALSE]
  ELSE LET yes == needsUpdating(n, t) = "yes"
       IN [n EXCEPT !.last_checked = t, !.force_update = FALSE, !.last_result = yes,
                    !.last_updated = IF yes THEN t ELSE @]

(* After needsUpdating has answered yes or no to its caller.               *)
Answered(caller, yes) ==
  IF caller = "migrateRequests" THEN "decide" ELSE IF yes THEN "buildNlist" ELSE "computeForces"

(* Slip: each rank keeps its own result.                                   *)
distanceCheck_NoReduction ==
  /\ AllAt("distanceCheck")
  /\ pc' = [r \in Ranks |-> Answered(checker[r], moved[r])]
  /\ nlist' = [r \in Ranks |-> [nlist[r] EXCEPT !.last_result = moved[r],
                                  !.last_updated = IF moved[r] THEN now[r] ELSE @]]
  /\ comm' = [r \in Ranks |-> [comm[r] EXCEPT !.migrate_request = moved[r]]]
  /\ UNCHANGED <<ret, checker, now, script, force, world>>

(* NeighborList::distanceCheck: all ranks learn whether a particle moved   *)
(* too far on any of them.  migrate_request is a local of communicate()    *)
(* and has no meaning when the list itself asked.                          *)
distanceCheck ==
  LET any == \E r \in Ranks : moved[r] IN
  /\ AllAt("distanceCheck")
  /\ pc' = [r \in Ranks |-> Answered(checker[r], any)]
  /\ nlist' = [r \in Ranks |-> [nlist[r] EXCEPT !.last_result = any,
                                  !.last_updated = IF any THEN now[r] ELSE @]]
  /\ comm' = [r \in Ranks |-> [comm[r] EXCEPT !.migrate_request = any]]
  /\ UNCHANGED <<ret, checker, now, script, force, world>>

AskNeedsUpdating(r, caller) ==
  LET answer == needsUpdating(nlist[r], now[r]) IN
  /\ Goto(r, IF answer = "check" THEN "distanceCheck" ELSE Answered(caller, answer = "yes"))
  /\ checker' = [checker EXCEPT ![r] = caller]

-----------------------------------------------------------------------------
(* Communicator::communicate, up to the obligatory update of the ghosts.   *)
(* An integrator always registers a compute callback.                      *)
communicate(r) ==
  /\ pc[r] = "communicate"
  /\ comm' = [comm EXCEPT ![r].is_communicating = TRUE, ![r].migrate_request = FALSE]
  /\ Goto(r, IF ~comm[r].force_migrate /\ comm[r].has_ghosts THEN "updateGhosts"
             ELSE "migrateRequests")
  /\ UNCHANGED <<ret, checker, now, script, nlist, force, world>>

(* beginUpdateGhosts and finishUpdateGhosts: positions of the ghosts.      *)
updateGhosts ==
  /\ AllAt("updateGhosts")
  /\ AllGoto("migrateRequests")
  /\ ghosts_current' = [r \in Ranks |-> TRUE]
  /\ UNCHANGED <<ret, checker, now, script, comm, nlist, force, moved, reordered,
                 forces_current>>

(* The migrate requests: NeighborList::peekUpdate.                         *)
peekUpdate(r) ==
  /\ pc[r] = "migrateRequests"
  /\ IF comm[r].force_migrate
       THEN /\ Goto(r, "decide")
            /\ UNCHANGED <<checker, comm, nlist>>
       ELSE /\ AskNeedsUpdating(r, "migrateRequests")
            /\ nlist' = [nlist EXCEPT ![r] = Checked(@, now[r])]
            /\ comm' = [comm EXCEPT ![r].migrate_request = needsUpdating(nlist[r], now[r]) = "yes"]
  /\ UNCHANGED <<ret, now, script, force, world>>

(* Slip: migrate requests are collected and not used.                      *)
Migrating_RequestIgnored(r) == comm[r].force_migrate \/ ~comm[r].has_ghosts

Migrating(r) ==
  comm[r].migrate_request \/ comm[r].force_migrate \/ ~comm[r].has_ghosts

decide(r) ==
  /\ pc[r] = "decide"
  /\ Goto(r, IF Migrating(r) THEN "migrateParticles" ELSE "return")
  /\ UNCHANGED <<ret, checker, now, script, comm, nlist, force, world>>

(* Slip: the neighbor list is not told that the particles were reordered.  *)
migrateParticles_NotSignalled ==
  /\ AllAt("migrateParticles")
  /\ AllGoto("return")
  /\ comm' = [r \in Ranks |->
       [forceMigrate([comm[r] EXCEPT !.force_migrate = FALSE]) EXCEPT !.has_ghosts = TRUE]]
  /\ nlist' = [r \in Ranks |-> [nlist[r] EXCEPT !.rcut_changed = FALSE]]
  /\ force' = [r \in Ranks |-> setParticlesSorted(force[r])]
  /\ reordered' = [r \in Ranks |-> TRUE]
  /\ forces_current' = [r \in Ranks |-> FALSE]
  /\ ghosts_current' = [r \in Ranks |-> TRUE]
  /\ UNCHANGED <<ret, checker, now, script, moved>>

(* Slip: the requests are polled again after a migration, whose own signal *)
(* makes the neighbor list ask for another one.                            *)
migrateParticles_PolledAgain ==
  /\ AllAt("migrateParticles")
  /\ AllGoto("migrateRequests")
  /\ comm' = [r \in Ranks |->
       [forceMigrate([comm[r] EXCEPT !.force_migrate = FALSE]) EXCEPT !.has_ghosts = TRUE]]
  /\ nlist' = [r \in Ranks |-> [forceUpdate(nlist[r]) EXCEPT !.rcut_changed = FALSE]]
  /\ force' = [r \in Ranks |-> setParticlesSorted(force[r])]
  /\ reordered' = [r \in Ranks |-> TRUE]
  /\ forces_current' = [r \in Ranks |-> FALSE]
  /\ ghosts_current' = [r \in Ranks |-> TRUE]
  /\ UNCHANGED <<ret, checker, now, script, moved>>

(* migrateParticles and exchangeGhosts: new ghost layer widths (which      *)
(* refresh the cut-off lists), particles moved between ranks, new ghosts.  *)
migrateParticles ==
  /\ AllAt("migrateParticles")
  /\ AllGoto("return")
  /\ comm' = [r \in Ranks |->
       [forceMigrate([comm[r] EXCEPT !.force_migrate = FALSE]) EXCEPT !.has_ghosts = TRUE]]
  /\ nlist' = [r \in Ranks |-> [forceUpdate(nlist[r]) EXCEPT !.rcut_changed = FALSE]]
  /\ force' = [r \in Ranks |-> setParticlesSorted(force[r])]
  /\ reordered' = [r \in Ranks |-> TRUE]
  /\ forces_current' = [r \in Ranks |-> FALSE]
  /\ ghosts_current' = [r \in Ranks |-> TRUE]
  /\ UNCHANGED <<ret, checker, now, script, moved>>

communicated(r) ==
  /\ pc[r] = "return"
  /\ comm' = [comm EXCEPT ![r].is_communicating = FALSE]
  /\ Goto(r, ret[r])
  /\ UNCHANGED <<ret, checker, now, script, nlist, force, world>>

-----------------------------------------------------------------------------
(* ForceCompute::compute, called by computeNetForce.                       *)
computeNetForce(r) ==
  /\ pc[r] = "computeNetForce"
  /\ Goto(r, IF force[r].sorted \/ shouldCompute(force[r], now[r]) THEN "nlist" ELSE "loop")
  /\ force' = [force EXCEPT ![r] = [(IF @.sorted THEN @ ELSE Computed(@, now[r]))
                                      EXCEPT !.sorted = FALSE]]
  /\ UNCHANGED <<ret, checker, now, script, comm, nlist, world>>

(* NeighborList::compute.  The branch for a cut-off changed since the last *)
(* migration would communicate from here; RCutIsFresh says it is not taken.*)
nlistCompute(r) ==
  /\ pc[r] = "nlist"
  /\ ~nlist[r].rcut_changed
  /\ IF shouldCompute(nlist[r], now[r]) \/ nlist[r].force_update
       THEN /\ AskNeedsUpdating(r, "nlist")
            /\ nlist' = [nlist EXCEPT ![r] = Checked(Computed(@, now[r]), now[r])]
       ELSE /\ Goto(r, "computeForces")
            /\ UNCHANGED <<checker, nlist>>
  /\ UNCHANGED <<ret, now, script, comm, force, world>>

(* buildNlist until it fits, filterNlist, setLastUpdatedPos.               *)
buildNlist(r) ==
  /\ pc[r] = "buildNlist"
  /\ Goto(r, "computeForces")
  /\ moved' = [moved EXCEPT ![r] = FALSE]
  /\ reordered' = [reordered EXCEPT ![r] = FALSE]
  /\ UNCHANGED <<ret, checker, now, script, comm, nlist, force, ghosts_current, forces_current>>

computeForces(r) ==
  /\ pc[r] = "computeForces"
  /\ Goto(r, "loop")
  /\ forces_current' = [forces_current EXCEPT ![r] = TRUE]
  /\ UNCHANGED <<ret, checker, now, script, comm, nlist, force, moved, reordered,
                 ghosts_current>>

-----------------------------------------------------------------------------
(* System::run and IntegratorTwoStep::prepRun start with a forced migration.*)
startRun(r) ==
  /\ pc[r] \in {"run", "prepRun"}
  /\ comm' = [comm EXCEPT ![r] = forceMigrate(@)]
  /\ CallCommunicate(r, IF pc[r] = "run" THEN "prepRun" ELSE "computeNetForce")
  /\ UNCHANGED <<checker, now, script, nlist, force, world>>

(* The head of the loop over the steps: leave, or run the step's tuner.    *)
(* SFCPackTuner::update migrates first.  The NeighborListBuffer tuner sets *)
(* a new buffer (setRBuff).                                                *)
runStep(r) ==
  /\ pc[r] = "loop"
  /\ \/ now[r] = end /\ Goto(r, "idle") /\ UNCHANGED <<ret, comm, nlist>>
     \/ now[r] < end /\ tuner[now[r]] = "none"
        /\ Goto(r, "integrate") /\ UNCHANGED <<ret, comm, nlist>>
     \/ /\ now[r] < end /\ tuner[now[r]] = "NeighborListBuffer"
        /\ nlist' = [nlist EXCEPT ![r] = [forceUpdate(@) EXCEPT !.rcut_changed = TRUE]]
        /\ Goto(r, "integrate")
        /\ UNCHANGED <<ret, comm>>
     \/ /\ now[r] < end /\ tuner[now[r]] = "SFCPackTuner"
        /\ comm' = [comm EXCEPT ![r] = forceMigrate(@)]
        /\ CallCommunicate(r, "applySortOrder")
        /\ UNCHANGED nlist
  /\ UNCHANGED <<checker, now, script, force, world>>

(* SFCPackTuner::update after its first communicate: remove the ghosts,    *)
(* sort, signal the sort, communicate again to restore the ghosts.         *)
applySortOrder(r) ==
  /\ pc[r] = "applySortOrder"
  /\ nlist' = [nlist EXCEPT ![r] = forceUpdate(@)]
  /\ force' = [force EXCEPT ![r] = setParticlesSorted(@)]
  /\ comm' = [comm EXCEPT ![r] = [forceMigrate(@) EXCEPT !.has_ghosts = FALSE]]
  /\ reordered' = [reordered EXCEPT ![r] = TRUE]
  /\ forces_current' = [forces_current EXCEPT ![r] = FALSE]
  /\ ghosts_current' = [ghosts_current EXCEPT ![r] = FALSE]
  /\ CallCommunicate(r, "integrate")
  /\ UNCHANGED <<checker, now, script, moved>>

(* IntegratorTwoStep::update: the first half step moves the particles to   *)
(* the next time step; communicate; then the net force.                    *)
integrate(r) ==
  /\ pc[r] = "integrate"
  /\ now' = [now EXCEPT ![r] = @ + 1]
  /\ \E far \in BOOLEAN : moved' = [moved EXCEPT ![r] = far]
  /\ ghosts_current' = [ghosts_current EXCEPT ![r] = FALSE]
  /\ forces_current' = [forces_current EXCEPT ![r] = FALSE]
  /\ CallCommunicate(r, "computeNetForce")
  /\ UNCHANGED <<checker, script, comm, nlist, force, reordered>>

-----------------------------------------------------------------------------
(* The script, between runs: run(nsteps), setRebuildCheckDelay,            *)
(* setDistCheck.                                                           *)
run(nsteps) ==
  /\ AllAt("idle")
  /\ end + nsteps <= MaxStep
  /\ end' = end + nsteps
  /\ AllGoto("run")
  /\ UNCHANGED <<ret, checker, now, tuner, delay, dist_check, comm, nlist, force, world>>

setRebuildCheckDelay(every) ==
  /\ AllAt("idle")
  /\ delay' = every
  /\ nlist' = [r \in Ranks |-> forceUpdate(nlist[r])]
  /\ UNCHANGED <<pc, ret, checker, now, end, tuner, dist_check, comm, force, world>>

setDistCheck(check) ==
  /\ AllAt("idle")
  /\ dist_check' = check
  /\ UNCHANGED <<pc, ret, checker, now, end, tuner, delay, comm, nlist, force, world>>

Script ==
  \/ \E n \in 0..MaxStep : run(n)
  \/ \E d \in Delays : setRebuildCheckDelay(d)
  \/ \E b \in BOOLEAN : setDistCheck(b)

RankStep(r) ==
  \/ startRun(r) \/ runStep(r) \/ applySortOrder(r) \/ integrate(r)
  \/ communicate(r) \/ peekUpdate(r) \/ decide(r) \/ communicated(r)
  \/ computeNetForce(r) \/ nlistCompute(r) \/ buildNlist(r) \/ computeForces(r)

Collective == distanceCheck \/ updateGhosts \/ migrateParticles

Next == Script \/ Collective \/ \E r \in Ranks : RankStep(r)

(* Every rank keeps executing, and MPI completes a matched collective.     *)
Fairness == WF_vars(Collective) /\ \A r \in Ranks : WF_vars(RankStep(r))

Spec == Init /\ [][Next]_vars /\ Fairness

-----------------------------------------------------------------------------
Collectives == {"distanceCheck", "updateGhosts", "migrateParticles"}

Labels == Collectives \cup {"idle", "run", "prepRun", "loop", "applySortOrder", "integrate",
  "communicate", "migrateRequests", "decide", "return", "computeNetForce", "nlist",
  "buildNlist", "computeForces"}

(* The variables have the types the declarations give them.                *)
TypeOK ==
  /\ pc \in [Ranks -> Labels]
  /\ ret \in [Ranks -> {"prepRun", "computeNetForce", "applySortOrder", "integrate"}]
  /\ checker \in [Ranks -> {"migrateRequests", "nlist"}]
  /\ now \in [Ranks -> 0..MaxStep]
  /\ end \in 0..MaxStep
  /\ tuner \in [0..MaxStep-1 -> Tuners]
  /\ delay \in Delays
  /\ dist_check \in BOOLEAN
  /\ comm \in [Ranks -> [is_communicating : BOOLEAN, force_migrate : BOOLEAN,
                         has_ghosts : BOOLEAN, migrate_request : BOOLEAN]]
  /\ nlist \in [Ranks -> [force_update : BOOLEAN, rcut_changed : BOOLEAN,
                          last_checked : 0..MaxStep, last_result : BOOLEAN,
                          last_updated : 0..MaxStep, last_computed : 0..MaxStep,
                          first : BOOLEAN]]
  /\ force \in [Ranks -> [sorted : BOOLEAN, last_computed : 0..MaxStep, first : BOOLEAN]]
  /\ moved \in [Ranks -> BOOLEAN] /\ reordered \in [Ranks -> BOOLEAN]
  /\ ghosts_current \in [Ranks -> BOOLEAN] /\ forces_current \in [Ranks -> BOOLEAN]

(* Two ranks that wait for each other, in a collective or at the end of a  *)
(* run, wait at the same place, for the same time step and on behalf of    *)
(* the same caller: each rank takes the decisions of communicate() and     *)
(* needsUpdating() alone, from its own flags, and they must agree or the   *)
(* run hangs.                                                              *)
CollectivesMatch ==
  TypeOK /\ \A r, s \in Ranks : {pc[r], pc[s]} \subseteq Collectives \cup {"idle"} =>
    pc[r] = pc[s] /\ now[r] = now[s] /\ ret[r] = ret[s]
      /\ (pc[r] = "distanceCheck" => checker[r] = checker[s])

(* Forces are computed from a list built for the current particle order    *)
(* and with ghosts at their current positions, although the rebuild flag   *)
(* is set by signals and cleared by whoever asks first, the communicator   *)
(* or the list itself.                                                     *)
ForcesUseCurrentIndices ==
  \A r \in Ranks : pc[r] = "computeForces" => ~reordered[r] /\ ghosts_current[r]

(* A list that misses a pair (some particle moved more than half the       *)
(* buffer) is only ever used before rebuild_check_delay steps have passed  *)
(* since the list was last updated: with the default delay of 1, never.    *)
InvalidListOnlyWithinDelay ==
  \A r, s \in Ranks : pc[r] = "computeForces" /\ pc[s] = "computeForces" /\ moved[s] =>
    now[r] < nlist[r].last_updated + delay

(* The distance check compares each particle with its own position at the  *)
(* last build: it never runs on indices that have been reordered.          *)
DistanceCheckComparesSameParticles ==
  \A r \in Ranks : pc[r] = "distanceCheck" => ~reordered[r]

(* NeighborList::compute never finds a changed cut-off, so it never        *)
(* communicates in the middle of the force computation.                    *)
RCutIsFresh == \A r \in Ranks : pc[r] = "nlist" => ~nlist[r].rcut_changed

(* When a step is over its forces are those of the new positions: the      *)
(* once-per-step test of Compute never skips a computation that a sort or  *)
(* a migration in the same step made necessary.                            *)
StepsEndWithCurrentForces ==
  \A r \in Ranks : pc[r] = "loop" => forces_current[r]

(* Every run comes to its end on all ranks.                                *)
RunsFinish == AllAt("run") ~> AllAt("idle")
=============================================================================
