--------------------------- MODULE TimeStepProofs ---------------------------
(***************************************************************************)
(* The invariants of TimeStep, for any number of ranks and steps.          *)
(*                                                                         *)
(* Between two collectives a rank acts alone, and what it does depends     *)
(* only on its own flags.  The operators below follow a rank from where it *)
(* is to the next place where it waits for the others.  All ranks are      *)
(* bound for the same place in the same state: that is what the ranks have *)
(* in common at any moment, however far one is ahead of another.           *)
(***************************************************************************)
EXTENDS TimeStep, TLAPS

Plan == [end |-> end, tuner |-> tuner, delay |-> delay, dist_check |-> dist_check]

\* needsUpdating and Checked for the script S.
Asks(S, n, t) ==
  IF n.last_checked = t
    THEN IF n.force_update \/ n.last_result THEN "yes" ELSE "no"
    ELSE IF n.force_update THEN "yes"
         ELSE IF t < n.last_updated + S.delay THEN "no"
         ELSE IF ~S.dist_check /\ (S.delay = 0 \/ (S.delay > 1 /\ t = n.last_updated + S.delay))
         THEN "yes" ELSE "check"

Asked(S, n, t) ==
  IF n.last_checked = t THEN [n EXCEPT !.force_update = FALSE]
  ELSE LET yes == Asks(S, n, t) = "yes"
       IN [n EXCEPT !.last_checked = t, !.force_update = FALSE, !.last_result = yes,
                    !.last_updated = IF yes THEN t ELSE @]

\* What a rank does to the flags of its Communicator, list and force.
Begun(m) == [m EXCEPT !.is_communicating = TRUE, !.migrate_request = FALSE]

Ended(m) == [m EXCEPT !.is_communicating = FALSE]

Requesting(m, yes) == [m EXCEPT !.migrate_request = yes]

Ghostless(m) == [forceMigrate(m) EXCEPT !.has_ghosts = FALSE]

Widened(n) == [forceUpdate(n) EXCEPT !.rcut_changed = TRUE]

Migrates(m) == m.migrate_request \/ m.force_migrate \/ ~m.has_ghosts

Sorted(f, t) == [(IF f.sorted THEN f ELSE Computed(f, t)) EXCEPT !.sorted = FALSE]

\* The place where a rank meets the others next, with its state there: from
\* the call of communicate, from the first half step, from the sort, from
\* the head of the loop, ..., with the values rt of ret, c of checker, t of
\* now, m of comm, n of nlist and f of force.
Communicates(rt, c, t, m, n, f) ==
  IF m.force_migrate THEN <<"migrateParticles", rt, c, t, Begun(m), n, f>>
  ELSE <<"updateGhosts", rt, c, t, Begun(m), n, f>>

Integrates(c, t, m, n, f) == Communicates("computeNetForce", c, t + 1, m, n, f)

Sorts(c, t, m, n, f) ==
  Communicates("integrate", c, t, Ghostless(m), forceUpdate(n), setParticlesSorted(f))

Starts(rt, c, t, m, n, f) == Communicates(rt, c, t, forceMigrate(m), n, f)

Loops(S, rt, c, t, m, n, f) ==
  IF t = S.end THEN <<"idle", rt, c, t, m, n, f>>
  ELSE IF S.tuner[t] = "none" THEN Integrates(c, t, m, n, f)
  ELSE IF S.tuner[t] = "NeighborListBuffer"
    THEN Integrates(c, t, m, Widened(n), f)
  ELSE Communicates("applySortOrder", c, t, forceMigrate(m), n, f)

ListComputes(S, rt, c, t, m, n, f) ==
  IF shouldCompute(n, t) \/ n.force_update
    THEN IF Asks(S, n, t) = "check"
           THEN <<"distanceCheck", rt, "nlist", t, m, Asked(S, Computed(n, t), t), f>>
           ELSE Loops(S, rt, "nlist", t, m, Asked(S, Computed(n, t), t), f)
    ELSE Loops(S, rt, c, t, m, n, f)

ForceComputes(S, rt, c, t, m, n, f) ==
  IF f.sorted \/ shouldCompute(f, t) THEN ListComputes(S, rt, c, t, m, n, Sorted(f, t))
  ELSE Loops(S, rt, c, t, m, n, Sorted(f, t))

Continues(S, rt, c, t, m, n, f) ==
  CASE rt = "prepRun"         -> Starts("computeNetForce", c, t, m, n, f)
    [] rt = "computeNetForce" -> ForceComputes(S, rt, c, t, m, n, f)
    [] rt = "applySortOrder"  -> Sorts(c, t, m, n, f)
    [] rt = "integrate"       -> Integrates(c, t, m, n, f)

Returns(S, rt, c, t, m, n, f) ==
  Continues(S, rt, c, t, Ended(m), n, f)

Decides(S, rt, c, t, m, n, f) ==
  IF Migrates(m) THEN <<"migrateParticles", rt, c, t, m, n, f>>
  ELSE Returns(S, rt, c, t, m, n, f)

Peeks(S, rt, c, t, m, n, f) ==
  IF m.force_migrate THEN Decides(S, rt, c, t, m, n, f)
  ELSE LET k == Requesting(m, Asks(S, n, t) = "yes")
       IN IF Asks(S, n, t) = "check"
            THEN <<"distanceCheck", rt, "migrateRequests", t, k, Asked(S, n, t), f>>
            ELSE Decides(S, rt, "migrateRequests", t, k, Asked(S, n, t), f)

Bound(S, p, rt, c, t, m, n, f) ==
  CASE p = "run"             -> Starts("prepRun", c, t, m, n, f)
    [] p = "prepRun"         -> Starts("computeNetForce", c, t, m, n, f)
    [] p = "communicate"     -> Communicates(rt, c, t, m, n, f)
    [] p = "migrateRequests" -> Peeks(S, rt, c, t, m, n, f)
    [] p = "decide"          -> Decides(S, rt, c, t, m, n, f)
    [] p = "return"          -> Returns(S, rt, c, t, m, n, f)
    [] p = "computeNetForce" -> ForceComputes(S, rt, c, t, m, n, f)
    [] p = "nlist"           -> ListComputes(S, rt, c, t, m, n, f)
    [] p \in {"buildNlist", "computeForces", "loop"} -> Loops(S, rt, c, t, m, n, f)
    [] p = "applySortOrder"  -> Sorts(c, t, m, n, f)
    [] p = "integrate"       -> Integrates(c, t, m, n, f)
    [] OTHER                 -> <<p, rt, c, t, m, n, f>>

BoundFor(r) == Bound(Plan, pc[r], ret[r], checker[r], now[r], comm[r], nlist[r], force[r])

\* All ranks are bound for the same place in the same state.
Lockstep == \A r, s \in Ranks : BoundFor(r) = BoundFor(s)

-----------------------------------------------------------------------------
(***************************************************************************)
(* What the flags of one rank say about its list, its ghosts and forces.   *)
(***************************************************************************)
\* The clocks of the computes do not run ahead, and a tuner or a half step
\* belongs to a step that is still to be made.
Clocks(S, p, rt, t, n, f) ==
  /\ t <= S.end
  /\ n.last_checked <= t /\ n.last_updated <= t /\ n.last_computed <= t
  /\ f.last_computed <= t
  /\ rt \in {"applySortOrder", "integrate"} \/ p \in {"applySortOrder", "integrate"} => t < S.end

\* The communicator has ghosts or is about to migrate.
Flags(p, c, m) ==
  /\ m.is_communicating <=>
       \/ p \in {"updateGhosts", "migrateRequests", "decide", "migrateParticles", "return"}
       \/ p = "distanceCheck" /\ c = "migrateRequests"
  /\ p \notin {"idle", "run"} => m.force_migrate \/ m.has_ghosts

\* Ghosts that are not current are updated or exchanged before they are used.
GhostsFollow(p, m, gc) ==
  /\ p \in {"return", "computeNetForce", "nlist", "buildNlist", "computeForces",
            "distanceCheck"} => gc
  /\ p = "migrateRequests" => gc \/ m.force_migrate
  /\ p = "decide" => gc \/ Migrates(m)

\* A migrate request is on its way to the migration.
Requested(p, m) == p \in {"decide", "migrateParticles"} /\ m.migrate_request

\* A new cut-off makes the communicator migrate, which refreshes it.
CutOffFollows(p, m, n) ==
  n.rcut_changed =>
    /\ n.force_update \/ p \in {"decide", "migrateParticles"}
    /\ p = "decide" => Migrates(m)
    /\ p \notin {"return", "computeNetForce", "nlist", "buildNlist", "computeForces",
                 "distanceCheck", "loop"}

\* A reordering makes the list ask for its rebuild, and the request that the
\* communicator takes from it is passed on by the migration.
OrderFollows(p, m, n, ro) ==
  ro => /\ n.force_update \/ p = "buildNlist" \/ Requested(p, m)
        /\ p \notin {"computeForces", "distanceCheck"}

\* A list that misses a pair, beyond the delay, has not been asked in this
\* step or its rebuild is on the way.
MovesFollow(S, p, t, m, n, mv) ==
  /\ p = "distanceCheck" => n.last_checked = t
  /\ mv /\ ~(t < n.last_updated + S.delay) =>
       /\ \/ n.force_update \/ p \in {"buildNlist", "distanceCheck"} \/ Requested(p, m)
          \/ (n.last_checked # t \/ n.last_result) /\ (n.first \/ n.last_computed # t)
       /\ p # "computeForces"

\* Forces that are not current are computed, in this step or on this path.
ForcesFollow(p, c, t, f, fc) ==
  ~fc => /\ \/ f.sorted \/ f.first \/ f.last_computed # t
            \/ p \in {"nlist", "buildNlist", "computeForces"}
            \/ p = "distanceCheck" /\ c = "nlist"
         /\ p # "loop"

\* The flags of a rank account for everything that is not current.
Sound(S, p, rt, c, t, m, n, f, mv, ro, gc, fc) ==
  /\ Clocks(S, p, rt, t, n, f)
  /\ Flags(p, c, m)
  /\ GhostsFollow(p, m, gc)
  /\ CutOffFollows(p, m, n)
  /\ OrderFollows(p, m, n, ro)
  /\ MovesFollow(S, p, t, m, n, mv)
  /\ ForcesFollow(p, c, t, f, fc)

SoundOn(r) == Sound(Plan, pc[r], ret[r], checker[r], now[r], comm[r], nlist[r], force[r],
                    moved[r], reordered[r], ghosts_current[r], forces_current[r])

\* The inductive invariant: the ranks are in lockstep, and each is sound
\* (communicate, needsUpdating, ForceCompute::compute).
IInv == TypeOK /\ Lockstep /\ \A r \in Ranks : SoundOn(r)

-----------------------------------------------------------------------------
\* Bound, label by label.
LEMMA AtRun ==
  ASSUME NEW S, NEW rt, NEW c, NEW t, NEW m, NEW n, NEW f
  PROVE  Bound(S, "run", rt, c, t, m, n, f) = Starts("prepRun", c, t, m, n, f)
  BY Zenon DEF Bound

\* A rank in prepRun starts the force computation.
LEMMA AtPrepRun ==
  ASSUME NEW S, NEW rt, NEW c, NEW t, NEW m, NEW n, NEW f
  PROVE  Bound(S, "prepRun", rt, c, t, m, n, f) = Starts("computeNetForce", c, t, m, n, f)
  BY Zenon DEF Bound

\* A rank that calls communicate is bound for its first collective.
LEMMA AtCommunicate ==
  ASSUME NEW S, NEW rt, NEW c, NEW t, NEW m, NEW n, NEW f
  PROVE  Bound(S, "communicate", rt, c, t, m, n, f) = Communicates(rt, c, t, m, n, f)
  BY Zenon DEF Bound

\* A rank with current ghosts asks who requests a migration.
LEMMA AtMigrateRequests ==
  ASSUME NEW S, NEW rt, NEW c, NEW t, NEW m, NEW n, NEW f
  PROVE  Bound(S, "migrateRequests", rt, c, t, m, n, f) = Peeks(S, rt, c, t, m, n, f)
  BY Zenon DEF Bound

\* A rank that has its answers decides whether to migrate.
LEMMA AtDecide ==
  ASSUME NEW S, NEW rt, NEW c, NEW t, NEW m, NEW n, NEW f
  PROVE  Bound(S, "decide", rt, c, t, m, n, f) = Decides(S, rt, c, t, m, n, f)
  BY Zenon DEF Bound

\* A rank that is done in communicate goes on with its caller.
LEMMA AtReturn ==
  ASSUME NEW S, NEW rt, NEW c, NEW t, NEW m, NEW n, NEW f
  PROVE  Bound(S, "return", rt, c, t, m, n, f) = Returns(S, rt, c, t, m, n, f)
  BY Zenon DEF Bound

\* A rank in computeNetForce computes its forces.
LEMMA AtComputeNetForce ==
  ASSUME NEW S, NEW rt, NEW c, NEW t, NEW m, NEW n, NEW f
  PROVE  Bound(S, "computeNetForce", rt, c, t, m, n, f) = ForceComputes(S, rt, c, t, m, n, f)
  BY Zenon DEF Bound

\* A rank whose forces are due computes its list.
LEMMA AtNlist ==
  ASSUME NEW S, NEW rt, NEW c, NEW t, NEW m, NEW n, NEW f
  PROVE  Bound(S, "nlist", rt, c, t, m, n, f) = ListComputes(S, rt, c, t, m, n, f)
  BY Zenon DEF Bound

\* With its list settled a rank is bound for the head of the loop.
LEMMA AtLoop ==
  ASSUME NEW S, NEW p \in {"buildNlist", "computeForces", "loop"},
         NEW rt, NEW c, NEW t, NEW m, NEW n, NEW f
  PROVE  Bound(S, p, rt, c, t, m, n, f) = Loops(S, rt, c, t, m, n, f)
  BY Zenon DEF Bound

\* A rank that sorts communicates next.
LEMMA AtApplySortOrder ==
  ASSUME NEW S, NEW rt, NEW c, NEW t, NEW m, NEW n, NEW f
  PROVE  Bound(S, "applySortOrder", rt, c, t, m, n, f) = Sorts(c, t, m, n, f)
  BY Zenon DEF Bound

\* A rank that integrates communicates in the next step.
LEMMA AtIntegrate ==
  ASSUME NEW S, NEW rt, NEW c, NEW t, NEW m, NEW n, NEW f
  PROVE  Bound(S, "integrate", rt, c, t, m, n, f) = Integrates(c, t, m, n, f)
  BY Zenon DEF Bound

\* A rank that waits is bound for the place where it is, in its state.
LEMMA AtCollective ==
  ASSUME NEW S, NEW p \in Collectives \cup {"idle"},
         NEW rt, NEW c, NEW t, NEW m, NEW n, NEW f
  PROVE  Bound(S, p, rt, c, t, m, n, f) = <<p, rt, c, t, m, n, f>>
  BY Zenon DEF Bound, Collectives

\* The values of the variables of one rank.
Callers == {"prepRun", "computeNetForce", "applySortOrder", "integrate"}

Checkers == {"migrateRequests", "nlist"}

Comms == [is_communicating : BOOLEAN, force_migrate : BOOLEAN,
          has_ghosts : BOOLEAN, migrate_request : BOOLEAN]

Nlists == [force_update : BOOLEAN, rcut_changed : BOOLEAN, last_checked : 0..MaxStep,
           last_result : BOOLEAN, last_updated : 0..MaxStep, last_computed : 0..MaxStep,
           first : BOOLEAN]

Forces == [sorted : BOOLEAN, last_computed : 0..MaxStep, first : BOOLEAN]

\* The types, with these sets.
LEMMA Types ==
  TypeOK <=>
    /\ pc \in [Ranks -> Labels] /\ ret \in [Ranks -> Callers]
    /\ checker \in [Ranks -> Checkers] /\ now \in [Ranks -> 0..MaxStep]
    /\ comm \in [Ranks -> Comms] /\ nlist \in [Ranks -> Nlists] /\ force \in [Ranks -> Forces]
    /\ moved \in [Ranks -> BOOLEAN] /\ reordered \in [Ranks -> BOOLEAN]
    /\ ghosts_current \in [Ranks -> BOOLEAN] /\ forces_current \in [Ranks -> BOOLEAN]
    /\ end \in 0..MaxStep /\ tuner \in [0..MaxStep-1 -> Tuners]
    /\ delay \in Delays /\ dist_check \in BOOLEAN
  BY ZenonT(30) DEF TypeOK, Callers, Checkers, Comms, Nlists, Forces

TypesOn(r) ==
  /\ pc[r] \in Labels /\ ret[r] \in Callers /\ checker[r] \in Checkers /\ now[r] \in 0..MaxStep
  /\ comm[r] \in Comms /\ nlist[r] \in Nlists /\ force[r] \in Forces
  /\ moved[r] \in BOOLEAN /\ reordered[r] \in BOOLEAN
  /\ ghosts_current[r] \in BOOLEAN /\ forces_current[r] \in BOOLEAN

\* A rank keeps its types when the world stays and its own variables keep theirs.
LEMMA TypesKept ==
  ASSUME NEW r, TypesOn(r), UNCHANGED world,
         pc'[r] \in Labels, ret'[r] \in Callers, checker'[r] \in Checkers,
         now'[r] \in 0..MaxStep, comm'[r] \in Comms, nlist'[r] \in Nlists, force'[r] \in Forces
  PROVE  TypesOn(r)'
  BY ZenonT(30) DEF TypesOn, world

\* A step changes the variables of rank r only.
OnlyRank(r) ==
  /\ UNCHANGED script
  /\ pc' = [pc EXCEPT ![r] = pc'[r]] /\ ret' = [ret EXCEPT ![r] = ret'[r]]
  /\ checker' = [checker EXCEPT ![r] = checker'[r]] /\ now' = [now EXCEPT ![r] = now'[r]]
  /\ comm' = [comm EXCEPT ![r] = comm'[r]] /\ nlist' = [nlist EXCEPT ![r] = nlist'[r]]
  /\ force' = [force EXCEPT ![r] = force'[r]] /\ moved' = [moved EXCEPT ![r] = moved'[r]]
  /\ reordered' = [reordered EXCEPT ![r] = reordered'[r]]
  /\ ghosts_current' = [ghosts_current EXCEPT ![r] = ghosts_current'[r]]
  /\ forces_current' = [forces_current EXCEPT ![r] = forces_current'[r]]

\* A step in which only rank r acts keeps the invariant, if the rank stays
\* bound for the same place and sound.
LEMMA OneRank ==
  ASSUME IInv, NEW r \in Ranks, OnlyRank(r), TypesOn(r)',
         BoundFor(r)' = BoundFor(r), SoundOn(r)'
  PROVE  IInv'
<1>1. Plan' = Plan
  BY Zenon DEF OnlyRank, script, Plan
<1>2. /\ pc \in [Ranks -> Labels] /\ ret \in [Ranks -> Callers]
      /\ checker \in [Ranks -> Checkers] /\ now \in [Ranks -> 0..MaxStep]
      /\ comm \in [Ranks -> Comms] /\ nlist \in [Ranks -> Nlists] /\ force \in [Ranks -> Forces]
      /\ moved \in [Ranks -> BOOLEAN] /\ reordered \in [Ranks -> BOOLEAN]
      /\ ghosts_current \in [Ranks -> BOOLEAN] /\ forces_current \in [Ranks -> BOOLEAN]
      /\ end \in 0..MaxStep /\ tuner \in [0..MaxStep-1 -> Tuners]
      /\ delay \in Delays /\ dist_check \in BOOLEAN
  BY Zenon, Types DEF IInv
<1>3. /\ pc' \in [Ranks -> Labels] /\ ret' \in [Ranks -> Callers]
      /\ checker' \in [Ranks -> Checkers] /\ now' \in [Ranks -> 0..MaxStep]
      /\ comm' \in [Ranks -> Comms] /\ nlist' \in [Ranks -> Nlists] /\ force' \in [Ranks -> Forces]
      /\ moved' \in [Ranks -> BOOLEAN] /\ reordered' \in [Ranks -> BOOLEAN]
      /\ ghosts_current' \in [Ranks -> BOOLEAN] /\ forces_current' \in [Ranks -> BOOLEAN]
  BY ZenonT(30), <1>2 DEF OnlyRank, TypesOn
<1>4. TypeOK'
  BY ZenonT(30), <1>2, <1>3 DEF OnlyRank, TypeOK, script, Callers, Checkers, Comms, Nlists, Forces
<1>5. ASSUME NEW q \in Ranks, q # r
      PROVE  /\ pc'[q] = pc[q] /\ ret'[q] = ret[q] /\ checker'[q] = checker[q]
             /\ now'[q] = now[q] /\ comm'[q] = comm[q] /\ nlist'[q] = nlist[q]
             /\ force'[q] = force[q] /\ moved'[q] = moved[q] /\ reordered'[q] = reordered[q]
             /\ ghosts_current'[q] = ghosts_current[q]
             /\ forces_current'[q] = forces_current[q]
  BY <1>2, <1>5 DEF OnlyRank
<1>6. ASSUME NEW q \in Ranks PROVE BoundFor(q)' = BoundFor(q)
  <2>1. CASE q = r
    BY Zenon, <2>1
  <2>2. CASE q # r
    BY ZenonT(30), <1>1, <1>5, <2>2 DEF BoundFor
  <2> QED
    BY <2>1, <2>2
<1>7. ASSUME NEW q \in Ranks PROVE SoundOn(q)'
  <2>1. CASE q = r
    BY Zenon, <2>1
  <2>2. CASE q # r
    BY Zenon, <1>1, <1>5, <2>2 DEF IInv, SoundOn
  <2> QED
    BY Zenon, <2>1, <2>2
<1>8. Lockstep'
  BY Zenon, <1>6 DEF IInv, Lockstep
<1> QED
  BY Zenon, <1>4, <1>7, <1>8 DEF IInv

\* What the invariant says about one rank.
LEMMA OnRank ==
  ASSUME IInv, NEW r \in Ranks
  PROVE  /\ pc \in [Ranks -> Labels] /\ ret \in [Ranks -> Callers]
         /\ checker \in [Ranks -> Checkers] /\ now \in [Ranks -> 0..MaxStep]
         /\ comm \in [Ranks -> Comms] /\ nlist \in [Ranks -> Nlists]
         /\ force \in [Ranks -> Forces]
         /\ moved \in [Ranks -> BOOLEAN] /\ reordered \in [Ranks -> BOOLEAN]
         /\ ghosts_current \in [Ranks -> BOOLEAN] /\ forces_current \in [Ranks -> BOOLEAN]
         /\ TypesOn(r) /\ SoundOn(r)
<1>1. /\ pc \in [Ranks -> Labels] /\ ret \in [Ranks -> Callers]
      /\ checker \in [Ranks -> Checkers] /\ now \in [Ranks -> 0..MaxStep]
      /\ comm \in [Ranks -> Comms] /\ nlist \in [Ranks -> Nlists] /\ force \in [Ranks -> Forces]
      /\ moved \in [Ranks -> BOOLEAN] /\ reordered \in [Ranks -> BOOLEAN]
      /\ ghosts_current \in [Ranks -> BOOLEAN] /\ forces_current \in [Ranks -> BOOLEAN]
  BY Types DEF IInv
<1> QED
  BY Zenon, <1>1 DEF IInv, TypesOn

\* The fields of the Communicator's records.
LEMMA CommFields ==
  ASSUME NEW m \in Comms
  PROVE  /\ m.is_communicating \in BOOLEAN /\ m.force_migrate \in BOOLEAN
         /\ m.has_ghosts \in BOOLEAN /\ m.migrate_request \in BOOLEAN
         /\ Begun(m) \in Comms
         /\ Begun(m).is_communicating = TRUE /\ Begun(m).migrate_request = FALSE
         /\ Begun(m).force_migrate = m.force_migrate /\ Begun(m).has_ghosts = m.has_ghosts
         /\ Ended(m) \in Comms
         /\ Ended(m).is_communicating = FALSE /\ Ended(m).migrate_request = m.migrate_request
         /\ Ended(m).force_migrate = m.force_migrate /\ Ended(m).has_ghosts = m.has_ghosts
         /\ forceMigrate(m) \in Comms
         /\ forceMigrate(m).is_communicating = m.is_communicating
         /\ forceMigrate(m).migrate_request = m.migrate_request
         /\ forceMigrate(m).has_ghosts = m.has_ghosts
         /\ forceMigrate(m).force_migrate = (m.force_migrate \/ ~m.is_communicating)
         /\ Ghostless(m) \in Comms
         /\ Ghostless(m).is_communicating = m.is_communicating
         /\ Ghostless(m).migrate_request = m.migrate_request
         /\ Ghostless(m).has_ghosts = FALSE
         /\ Ghostless(m).force_migrate = (m.force_migrate \/ ~m.is_communicating)
  BY ZenonT(30) DEF Comms, Begun, Ended, Ghostless, forceMigrate

\* The flags of a communicator that has its answer.
LEMMA RequestFields ==
  ASSUME NEW m \in Comms, NEW yes \in BOOLEAN
  PROVE  /\ Requesting(m, yes) \in Comms
         /\ Requesting(m, yes).is_communicating = m.is_communicating
         /\ Requesting(m, yes).migrate_request = yes
         /\ Requesting(m, yes).force_migrate = m.force_migrate
         /\ Requesting(m, yes).has_ghosts = m.has_ghosts
  BY DEF Comms, Requesting

\* The fields of the NeighborList's records that a signal changes.
LEMMA NlistFields ==
  ASSUME NEW n \in Nlists
  PROVE  /\ n.force_update \in BOOLEAN /\ n.rcut_changed \in BOOLEAN
         /\ n.last_result \in BOOLEAN /\ n.first \in BOOLEAN
         /\ n.last_checked \in 0..MaxStep /\ n.last_updated \in 0..MaxStep
         /\ n.last_computed \in 0..MaxStep
         /\ forceUpdate(n) \in Nlists
         /\ forceUpdate(n).force_update = TRUE
         /\ forceUpdate(n).rcut_changed = n.rcut_changed
         /\ forceUpdate(n).last_result = n.last_result /\ forceUpdate(n).first = n.first
         /\ forceUpdate(n).last_checked = n.last_checked
         /\ forceUpdate(n).last_updated = n.last_updated
         /\ forceUpdate(n).last_computed = n.last_computed
         /\ Widened(n) \in Nlists
         /\ Widened(n).force_update = TRUE /\ Widened(n).rcut_changed = TRUE
         /\ Widened(n).last_result = n.last_result /\ Widened(n).first = n.first
         /\ Widened(n).last_checked = n.last_checked
         /\ Widened(n).last_updated = n.last_updated
         /\ Widened(n).last_computed = n.last_computed
  BY ZenonT(30) DEF Nlists, forceUpdate, Widened

\* The fields of the ForceCompute's records that the signal of a sort changes.
LEMMA ForceFields ==
  ASSUME NEW f \in Forces
  PROVE  /\ f.sorted \in BOOLEAN /\ f.first \in BOOLEAN /\ f.last_computed \in 0..MaxStep
         /\ setParticlesSorted(f) \in Forces
         /\ setParticlesSorted(f).sorted = TRUE /\ setParticlesSorted(f).first = f.first
         /\ setParticlesSorted(f).last_computed = f.last_computed
  BY ZenonT(30) DEF Forces, setParticlesSorted

\* What ForceCompute::compute in step t makes of f: g.
Marked(f, t, g) ==
  /\ g \in Forces /\ g.sorted = FALSE
  /\ f.sorted => g.first = f.first /\ g.last_computed = f.last_computed
  /\ ~f.sorted => g.first = FALSE /\ g.last_computed = t

\* ForceCompute::compute makes that of f.
LEMMA SortedFields ==
  ASSUME NEW f \in Forces, NEW t \in 0..MaxStep
  PROVE  Marked(f, t, Sorted(f, t))
<1>1. f.sorted \in BOOLEAN
  BY DEF Forces
<1>2. CASE f.sorted
  <2>1. Sorted(f, t) = [f EXCEPT !.sorted = FALSE]
    BY <1>2 DEF Sorted
  <2> QED
    BY ZenonT(30), <1>1, <1>2, <2>1 DEF Forces, Marked
<1>3. CASE ~f.sorted
  <2>1. Sorted(f, t) = [f EXCEPT !.first = FALSE, !.last_computed = t, !.sorted = FALSE]
    BY <1>3 DEF Sorted, Computed, Forces
  <2> QED
    BY ZenonT(30), <1>1, <1>3, <2>1 DEF Forces, Marked
<1> QED
  BY Zenon, <1>1, <1>2, <1>3

-----------------------------------------------------------------------------
(***************************************************************************)
(* The steps of one rank inside communicate.                               *)
(***************************************************************************)

\* communicate: with ghosts and no forced migration to the update of the
\* ghosts, else to the migration.
LEMMA communicateStep ==
  ASSUME IInv, NEW r \in Ranks, communicate(r)
  PROVE  IInv'
<1> DEFINE rt == ret[r]
           c == checker[r]
           t == now[r]
           m == comm[r]
           n == nlist[r]
           f == force[r]
           p == IF ~m.force_migrate /\ m.has_ghosts THEN "updateGhosts" ELSE "migrateRequests"
<1>1. TypesOn(r) /\ SoundOn(r) /\ m \in Comms /\ pc[r] = "communicate"
  BY Zenon, OnRank DEF communicate, TypesOn
<1>2. /\ pc' = [pc EXCEPT ![r] = p] /\ comm' = [comm EXCEPT ![r] = Begun(m)]
      /\ UNCHANGED <<ret, checker, now, script, nlist, force, world>>
  BY ZenonT(30), <1>1, OnRank DEF communicate, Goto, Begun, Comms
<1>3. /\ OnlyRank(r) /\ Plan' = Plan /\ pc'[r] = p /\ comm'[r] = Begun(m)
      /\ ret'[r] = rt /\ checker'[r] = c /\ now'[r] = t /\ nlist'[r] = n /\ force'[r] = f
  BY ZenonT(30), <1>2, OnRank DEF OnlyRank, script, world, Plan
<1>4. /\ Begun(m) \in Comms /\ m.is_communicating \in BOOLEAN /\ m.force_migrate \in BOOLEAN
      /\ Begun(m).is_communicating = TRUE /\ Begun(m).migrate_request = FALSE
      /\ Begun(m).force_migrate = m.force_migrate /\ Begun(m).has_ghosts = m.has_ghosts
  BY ZenonT(30), <1>1, CommFields
<1>5. TypesOn(r)'
  BY ZenonT(30), <1>1, <1>2, <1>3, <1>4 DEF TypesOn, Labels, Collectives, world
<1>6. m.force_migrate \/ m.has_ghosts
  BY Zenon, <1>1 DEF SoundOn, Sound, Flags
<1>7. Bound(Plan, p, rt, c, t, Begun(m), n, f) = Communicates(rt, c, t, m, n, f)
  <2> HIDE DEF rt, c, t, m, n, f
  <2>1. CASE m.force_migrate
    <3>1. Bound(Plan, p, rt, c, t, Begun(m), n, f) = Peeks(Plan, rt, c, t, Begun(m), n, f)
      BY Zenon, <2>1, AtMigrateRequests
    <3> QED
      BY Zenon, <1>4, <2>1, <3>1 DEF Communicates, Peeks, Decides, Migrates
  <2>2. CASE ~m.force_migrate
    <3>1. Bound(Plan, p, rt, c, t, Begun(m), n, f)
            = <<"updateGhosts", rt, c, t, Begun(m), n, f>>
      BY <1>6, <2>2, AtCollective DEF Collectives
    <3> QED
      BY Zenon, <2>2, <3>1 DEF Communicates
  <2> QED
    BY Zenon, <2>1, <2>2
<1>8. BoundFor(r)' = BoundFor(r)
  BY <1>1, <1>3, <1>7, AtCommunicate DEF BoundFor
<1>9. SoundOn(r)'
  <2> DEFINE mv == moved[r]
             ro == reordered[r]
             gc == ghosts_current[r]
             fc == forces_current[r]
  <2>1. Sound(Plan, "communicate", rt, c, t, m, n, f, mv, ro, gc, fc)
    BY Zenon, <1>1 DEF SoundOn
  <2> HIDE DEF rt, c, t, m, n, f, mv, ro, gc, fc
  <2>2. Sound(Plan, p, rt, c, t, Begun(m), n, f, mv, ro, gc, fc)
    BY <1>4, <1>6, <2>1
    DEF Sound, Clocks, Flags, GhostsFollow, CutOffFollows, OrderFollows, MovesFollow,
        ForcesFollow, Requested, Migrates
  <2> HIDE DEF p
  <2> QED
    BY Zenon, <1>2, <1>3, <2>2 DEF SoundOn, world, rt, c, t, m, n, f, mv, ro, gc, fc
<1> QED
  BY Zenon, <1>3, <1>5, <1>8, <1>9, OneRank

\* The decision to migrate.
LEMMA decideStep ==
  ASSUME IInv, NEW r \in Ranks, decide(r)
  PROVE  IInv'
<1> DEFINE rt == ret[r]
           c == checker[r]
           t == now[r]
           m == comm[r]
           n == nlist[r]
           f == force[r]
           p == IF Migrates(m) THEN "migrateParticles" ELSE "return"
<1>1. TypesOn(r) /\ SoundOn(r) /\ m \in Comms /\ pc[r] = "decide"
  BY Zenon, OnRank DEF decide, TypesOn
<1>2. /\ pc' = [pc EXCEPT ![r] = p]
      /\ UNCHANGED <<ret, checker, now, script, comm, nlist, force, world>>
  BY Zenon, <1>1, OnRank DEF decide, Goto, Migrating, Migrates
<1>3. /\ OnlyRank(r) /\ Plan' = Plan /\ pc'[r] = p /\ comm'[r] = m
      /\ ret'[r] = rt /\ checker'[r] = c /\ now'[r] = t /\ nlist'[r] = n /\ force'[r] = f
  BY ZenonT(30), <1>2, OnRank DEF OnlyRank, script, world, Plan
<1>4. TypesOn(r)'
  BY Zenon, <1>1, <1>2, <1>3 DEF TypesOn, Labels, Collectives, world
<1>5. Bound(Plan, p, rt, c, t, m, n, f) = Decides(Plan, rt, c, t, m, n, f)
  <2> HIDE DEF rt, c, t, m, n, f
  <2>1. CASE Migrates(m)
    BY <2>1, AtCollective DEF Decides, Collectives
  <2>2. CASE ~Migrates(m)
    BY Zenon, <2>2, AtReturn DEF Decides
  <2> QED
    BY Zenon, <2>1, <2>2
<1>6. BoundFor(r)' = BoundFor(r)
  BY <1>1, <1>3, <1>5, AtDecide DEF BoundFor
<1>7. SoundOn(r)'
  <2> DEFINE mv == moved[r]
             ro == reordered[r]
             gc == ghosts_current[r]
             fc == forces_current[r]
  <2>1. Sound(Plan, "decide", rt, c, t, m, n, f, mv, ro, gc, fc)
    BY Zenon, <1>1 DEF SoundOn
  <2> HIDE DEF rt, c, t, m, n, f, mv, ro, gc, fc
  <2>2. Sound(Plan, p, rt, c, t, m, n, f, mv, ro, gc, fc)
    BY <2>1
    DEF Sound, Clocks, Flags, GhostsFollow, CutOffFollows, OrderFollows, MovesFollow,
        ForcesFollow, Requested, Migrates
  <2> HIDE DEF p
  <2> QED
    BY Zenon, <1>2, <1>3, <2>2 DEF SoundOn, world, rt, c, t, m, n, f, mv, ro, gc, fc
<1> QED
  BY Zenon, <1>3, <1>4, <1>6, <1>7, OneRank

\* The return from communicate to its caller.
LEMMA communicatedStep ==
  ASSUME IInv, NEW r \in Ranks, communicated(r)
  PROVE  IInv'
<1> DEFINE rt == ret[r]
           c == checker[r]
           t == now[r]
           m == comm[r]
           n == nlist[r]
           f == force[r]
<1>1. TypesOn(r) /\ SoundOn(r) /\ m \in Comms /\ rt \in Callers /\ pc[r] = "return"
  BY OnRank DEF communicated, TypesOn
<1>2. /\ pc' = [pc EXCEPT ![r] = rt] /\ comm' = [comm EXCEPT ![r] = Ended(m)]
      /\ UNCHANGED <<ret, checker, now, script, nlist, force, world>>
  BY Zenon, <1>1, OnRank DEF communicated, Goto, Ended, Comms
<1>3. /\ OnlyRank(r) /\ Plan' = Plan /\ pc'[r] = rt /\ comm'[r] = Ended(m)
      /\ ret'[r] = rt /\ checker'[r] = c /\ now'[r] = t /\ nlist'[r] = n /\ force'[r] = f
  BY ZenonT(30), <1>2, OnRank DEF OnlyRank, script, world, Plan
<1>4. /\ Ended(m) \in Comms
      /\ Ended(m).is_communicating = FALSE /\ Ended(m).migrate_request = m.migrate_request
      /\ Ended(m).force_migrate = m.force_migrate /\ Ended(m).has_ghosts = m.has_ghosts
  BY ZenonT(30), <1>1, CommFields
<1>5. TypesOn(r)'
  BY <1>1, <1>2, <1>3, <1>4 DEF TypesOn, Labels, Callers, Collectives, world
<1>6. Bound(Plan, rt, rt, c, t, Ended(m), n, f) = Returns(Plan, rt, c, t, m, n, f)
  <2> HIDE DEF rt, c, t, m, n, f
  <2>1. rt \in {"prepRun", "computeNetForce", "applySortOrder", "integrate"}
    BY Zenon, <1>1 DEF Callers
  <2>2. Bound(Plan, rt, rt, c, t, Ended(m), n, f) = Continues(Plan, rt, c, t, Ended(m), n, f)
    BY <2>1, AtPrepRun, AtComputeNetForce, AtApplySortOrder, AtIntegrate DEF Continues
  <2> QED
    BY Zenon, <2>2 DEF Returns
<1>7. BoundFor(r)' = BoundFor(r)
  BY <1>1, <1>3, <1>6, AtReturn DEF BoundFor
<1>8. SoundOn(r)'
  <2> DEFINE mv == moved[r]
             ro == reordered[r]
             gc == ghosts_current[r]
             fc == forces_current[r]
  <2>1. Sound(Plan, "return", rt, c, t, m, n, f, mv, ro, gc, fc)
    BY Zenon, <1>1 DEF SoundOn
  <2> HIDE DEF rt, c, t, m, n, f, mv, ro, gc, fc
  <2>2. Sound(Plan, rt, rt, c, t, Ended(m), n, f, mv, ro, gc, fc)
    BY <1>1, <1>4, <2>1
    DEF Sound, Clocks, Flags, GhostsFollow, CutOffFollows, OrderFollows, MovesFollow,
        ForcesFollow, Requested, Migrates, Callers
  <2> QED
    BY Zenon, <1>2, <1>3, <2>2 DEF SoundOn, world, rt, c, t, m, n, f, mv, ro, gc, fc
<1> QED
  BY Zenon, <1>3, <1>5, <1>7, <1>8, OneRank

-----------------------------------------------------------------------------
(***************************************************************************)
(* The steps of one rank in the force computation.                         *)
(***************************************************************************)

\* A rebuild of the list (buildNlist) makes it current.
LEMMA buildNlistStep ==
  ASSUME IInv, NEW r \in Ranks, buildNlist(r)
  PROVE  IInv'
<1>1. TypesOn(r) /\ SoundOn(r) /\ pc[r] = "buildNlist"
  BY OnRank DEF buildNlist
<1>2. /\ OnlyRank(r) /\ Plan' = Plan /\ pc'[r] = "computeForces"
      /\ UNCHANGED <<ret, checker, now, comm, nlist, force, ghosts_current, forces_current>>
      /\ moved'[r] = FALSE /\ reordered'[r] = FALSE
  BY ZenonT(30), OnRank DEF buildNlist, Goto, OnlyRank, script, Plan
<1>3. TypesOn(r)'
  BY ZenonT(30), <1>1, <1>2 DEF TypesOn, Labels
<1>4. BoundFor(r)' = BoundFor(r)
  BY <1>1, <1>2, AtLoop DEF BoundFor
<1>5. SoundOn(r)'
  <2> DEFINE rt == ret[r]
             c == checker[r]
             t == now[r]
             m == comm[r]
             n == nlist[r]
             f == force[r]
             mv == moved[r]
             ro == reordered[r]
             gc == ghosts_current[r]
             fc == forces_current[r]
  <2>1. Sound(Plan, "buildNlist", rt, c, t, m, n, f, mv, ro, gc, fc)
    BY <1>1 DEF SoundOn
  <2> HIDE DEF rt, c, t, m, n, f, mv, ro, gc, fc
  <2>2. Sound(Plan, "computeForces", rt, c, t, m, n, f, FALSE, FALSE, gc, fc)
    BY <2>1
    DEF Sound, Clocks, Flags, GhostsFollow, CutOffFollows, OrderFollows, MovesFollow,
        ForcesFollow, Requested
  <2> QED
    BY ZenonT(30), <1>2, <2>2 DEF SoundOn, rt, c, t, m, n, f, mv, ro, gc, fc
<1> QED
  BY Zenon, <1>2, <1>3, <1>4, <1>5, OneRank

\* The force computation makes the forces current.
LEMMA computeForcesStep ==
  ASSUME IInv, NEW r \in Ranks, computeForces(r)
  PROVE  IInv'
<1>1. TypesOn(r) /\ SoundOn(r) /\ pc[r] = "computeForces"
  BY OnRank DEF computeForces
<1>2. /\ OnlyRank(r) /\ Plan' = Plan /\ pc'[r] = "loop"
      /\ UNCHANGED <<ret, checker, now, comm, nlist, force, moved, reordered, ghosts_current>>
      /\ forces_current'[r] = TRUE
  BY ZenonT(30), OnRank DEF computeForces, Goto, OnlyRank, script, Plan
<1>3. TypesOn(r)'
  BY ZenonT(30), <1>1, <1>2 DEF TypesOn, Labels
<1>4. BoundFor(r)' = BoundFor(r)
  BY <1>1, <1>2, AtLoop DEF BoundFor
<1>5. SoundOn(r)'
  <2> DEFINE rt == ret[r]
             c == checker[r]
             t == now[r]
             m == comm[r]
             n == nlist[r]
             f == force[r]
             mv == moved[r]
             ro == reordered[r]
             gc == ghosts_current[r]
             fc == forces_current[r]
  <2>1. Sound(Plan, "computeForces", rt, c, t, m, n, f, mv, ro, gc, fc)
    BY Zenon, <1>1 DEF SoundOn
  <2> HIDE DEF rt, c, t, m, n, f, mv, ro, gc, fc
  <2>2. Sound(Plan, "loop", rt, c, t, m, n, f, mv, ro, gc, TRUE)
    BY Zenon, <2>1
    DEF Sound, Clocks, Flags, GhostsFollow, CutOffFollows, OrderFollows, MovesFollow,
        ForcesFollow, Requested
  <2> QED
    BY ZenonT(30), <1>2, <2>2 DEF SoundOn, rt, c, t, m, n, f, mv, ro, gc, fc
<1> QED
  BY Zenon, <1>2, <1>3, <1>4, <1>5, OneRank

\* The question and its effect do not depend on the state of the script but
\* through the plan.
LEMMA AsksThePlan ==
  ASSUME NEW n, NEW t
  PROVE  needsUpdating(n, t) = Asks(Plan, n, t) /\ Checked(n, t) = Asked(Plan, n, t)
<1>1. Plan.delay = delay /\ Plan.dist_check = dist_check
  BY DEF Plan
<1>2. needsUpdating(n, t) = Asks(Plan, n, t)
  BY Zenon, <1>1 DEF needsUpdating, Asks, ExactlyDue
<1> QED
  BY <1>2 DEF Checked, Asked

\* What a question to the list n in step t, answered by a, leaves: l.
Left(n, t, a, l) ==
  /\ l \in Nlists /\ l.force_update = FALSE /\ l.last_checked = t
  /\ l.rcut_changed = n.rcut_changed /\ l.first = n.first /\ l.last_computed = n.last_computed
  /\ n.last_checked = t => l.last_result = n.last_result /\ l.last_updated = n.last_updated
  /\ n.last_checked # t => /\ l.last_result = (a = "yes")
                           /\ l.last_updated = IF a = "yes" THEN t ELSE n.last_updated

\* needsUpdating leaves that.
LEMMA AskedFields ==
  ASSUME NEW S, NEW n \in Nlists, NEW t \in 0..MaxStep
  PROVE  Left(n, t, Asks(S, n, t), Asked(S, n, t))
<1> DEFINE a == Asks(S, n, t)
           yes == a = "yes"
<1>1. CASE n.last_checked = t
  <2>1. Asked(S, n, t) = [n EXCEPT !.force_update = FALSE]
    BY Zenon, <1>1 DEF Asked
  <2> HIDE DEF a
  <2>2. Left(n, t, a, Asked(S, n, t))
    BY ZenonT(30), <1>1, <2>1 DEF Nlists, Left
  <2> QED
    BY Zenon, <2>2 DEF a
<1>2. CASE n.last_checked # t
  <2>1. Asked(S, n, t) = [n EXCEPT !.last_checked = t, !.force_update = FALSE,
                                   !.last_result = yes,
                                   !.last_updated = IF yes THEN t ELSE n.last_updated]
    BY Zenon, <1>2 DEF Asked, Nlists
  <2>2. yes \in BOOLEAN
    OBVIOUS
  <2> HIDE DEF yes
  <2>3. /\ Asked(S, n, t) \in Nlists
        /\ Asked(S, n, t).force_update = FALSE /\ Asked(S, n, t).last_checked = t
        /\ Asked(S, n, t).rcut_changed = n.rcut_changed /\ Asked(S, n, t).first = n.first
        /\ Asked(S, n, t).last_computed = n.last_computed
        /\ Asked(S, n, t).last_result = yes
        /\ Asked(S, n, t).last_updated = IF yes THEN t ELSE n.last_updated
    BY ZenonT(30), <2>1, <2>2 DEF Nlists
  <2> QED
    BY Zenon, <1>2, <2>3 DEF Left, yes
<1> QED
  BY Zenon, <1>1, <1>2

\* What the answers mean.
LEMMA Answers ==
  ASSUME NEW S, NEW n \in Nlists, NEW t
  PROVE  /\ Asks(S, n, t) \in {"yes", "no", "check"}
         /\ n.force_update => Asks(S, n, t) = "yes"
         /\ n.last_checked = t =>
              Asks(S, n, t) = IF n.force_update \/ n.last_result THEN "yes" ELSE "no"
         /\ Asks(S, n, t) = "no" /\ n.last_checked # t => t < n.last_updated + S.delay
  BY Zenon DEF Asks

\* The mark of Compute::shouldCompute does not change the answer of the list.
LEMMA ComputedFields ==
  ASSUME NEW S, NEW n \in Nlists, NEW t \in 0..MaxStep
  PROVE  /\ Computed(n, t) \in Nlists
         /\ Computed(n, t).first = FALSE /\ Computed(n, t).last_computed = t
         /\ Computed(n, t).force_update = n.force_update
         /\ Computed(n, t).rcut_changed = n.rcut_changed
         /\ Computed(n, t).last_result = n.last_result
         /\ Computed(n, t).last_checked = n.last_checked
         /\ Computed(n, t).last_updated = n.last_updated
         /\ Asks(S, Computed(n, t), t) = Asks(S, n, t)
<1>1. /\ Computed(n, t) \in Nlists
      /\ Computed(n, t).first = FALSE /\ Computed(n, t).last_computed = t
      /\ Computed(n, t).force_update = n.force_update
      /\ Computed(n, t).rcut_changed = n.rcut_changed
      /\ Computed(n, t).last_result = n.last_result
      /\ Computed(n, t).last_checked = n.last_checked
      /\ Computed(n, t).last_updated = n.last_updated
  BY ZenonT(30) DEF Computed, Nlists
<1> QED
  BY Zenon, <1>1 DEF Asks

\* The peek of the communicator at the list (peekUpdate).
LEMMA peekUpdateStep ==
  ASSUME IInv, NEW r \in Ranks, peekUpdate(r)
  PROVE  IInv'
<1> DEFINE rt == ret[r]
           c == checker[r]
           t == now[r]
           m == comm[r]
           n == nlist[r]
           f == force[r]
           a == Asks(Plan, n, t)
           k == Requesting(m, a = "yes")
           l == Asked(Plan, n, t)
           p == IF a = "check" THEN "distanceCheck" ELSE "decide"
<1>1. /\ TypesOn(r) /\ SoundOn(r) /\ m \in Comms /\ n \in Nlists /\ t \in 0..MaxStep
      /\ pc[r] = "migrateRequests"
  BY Zenon, OnRank DEF peekUpdate, TypesOn
<1>2. /\ pc' = [pc EXCEPT ![r] = IF m.force_migrate THEN "decide" ELSE p]
      /\ UNCHANGED <<ret, now, script, force, world>>
      /\ m.force_migrate => UNCHANGED <<checker, comm, nlist>>
      /\ ~m.force_migrate =>
           /\ checker' = [checker EXCEPT ![r] = "migrateRequests"]
           /\ comm' = [comm EXCEPT ![r] = k] /\ nlist' = [nlist EXCEPT ![r] = l]
  <2>1. needsUpdating(n, t) = a /\ Checked(n, t) = l
    BY AsksThePlan
  <2>2. m.force_migrate \in BOOLEAN
    BY ZenonT(30), <1>1, CommFields
  <2>3. comm \in [Ranks -> Comms] /\ nlist \in [Ranks -> Nlists]
    BY Zenon, OnRank
  <2> HIDE DEF a, l
  <2>4. CASE m.force_migrate
    BY Zenon, <2>4 DEF peekUpdate, Goto
  <2>5. CASE ~m.force_migrate
    <3>1. pc' = [pc EXCEPT ![r] = p] /\ checker' = [checker EXCEPT ![r] = "migrateRequests"]
      BY Zenon, <2>1, <2>5 DEF peekUpdate, AskNeedsUpdating, Goto, Answered
    <3>2. nlist' = [nlist EXCEPT ![r] = l]
      BY <2>1, <2>3, <2>5 DEF peekUpdate
    <3>3. comm' = [comm EXCEPT ![r] = k]
      BY Zenon, <2>1, <2>3, <2>5 DEF peekUpdate, Requesting, Comms
    <3> QED
      BY Zenon, <2>5, <3>1, <3>2, <3>3 DEF peekUpdate
  <2> QED
    BY Zenon, <2>2, <2>4, <2>5
<1>3. CASE m.force_migrate
  <2>1. /\ OnlyRank(r) /\ Plan' = Plan /\ pc'[r] = "decide" /\ comm'[r] = m
        /\ ret'[r] = rt /\ checker'[r] = c /\ now'[r] = t /\ nlist'[r] = n /\ force'[r] = f
    BY ZenonT(30), <1>2, <1>3, OnRank DEF OnlyRank, script, world, Plan
  <2>2. TypesOn(r)'
    <3>1. "decide" \in Labels
      BY Zenon DEF Labels
    <3>2. /\ rt \in Callers /\ c \in Checkers /\ t \in 0..MaxStep
          /\ m \in Comms /\ n \in Nlists /\ f \in Forces
      BY Zenon, <1>1 DEF TypesOn
    <3> HIDE DEF rt, c, t, m, n, f
    <3> QED
      BY ZenonT(30), <1>1, <1>2, <2>1, <3>1, <3>2, TypesKept
  <2>3. BoundFor(r)' = BoundFor(r)
    <3>1. BoundFor(r) = Bound(Plan, "migrateRequests", rt, c, t, m, n, f)
      BY Zenon, <1>1 DEF BoundFor
    <3>2. BoundFor(r)' = Bound(Plan, "decide", rt, c, t, m, n, f)
      BY Zenon, <2>1 DEF BoundFor
    <3> HIDE DEF rt, c, t, m, n, f
    <3>3. Bound(Plan, "migrateRequests", rt, c, t, m, n, f) = Peeks(Plan, rt, c, t, m, n, f)
      BY Zenon, AtMigrateRequests
    <3>4. Bound(Plan, "decide", rt, c, t, m, n, f) = Decides(Plan, rt, c, t, m, n, f)
      BY AtDecide
    <3>5. Peeks(Plan, rt, c, t, m, n, f) = Decides(Plan, rt, c, t, m, n, f)
      BY ZenonT(30), <1>3 DEF Peeks
    <3> QED
      BY ZenonT(30), <3>1, <3>2, <3>3, <3>4, <3>5
  <2>4. SoundOn(r)'
    <3> DEFINE mv == moved[r]
               ro == reordered[r]
               gc == ghosts_current[r]
               fc == forces_current[r]
    <3>1. Sound(Plan, "migrateRequests", rt, c, t, m, n, f, mv, ro, gc, fc)
      BY Zenon, <1>1 DEF SoundOn
    <3> HIDE DEF rt, c, t, m, n, f, mv, ro, gc, fc
    <3>2. Sound(Plan, "decide", rt, c, t, m, n, f, mv, ro, gc, fc)
      BY Zenon, <1>3, <3>1
      DEF Sound, Clocks, Flags, GhostsFollow, CutOffFollows, OrderFollows, MovesFollow,
          ForcesFollow, Requested, Migrates
    <3> QED
      BY ZenonT(30), <1>2, <2>1, <3>2 DEF SoundOn, world, rt, c, t, m, n, f, mv, ro, gc, fc
  <2> QED
    BY Zenon, <2>1, <2>2, <2>3, <2>4, OneRank
<1>4. CASE ~m.force_migrate
  <2>1. /\ OnlyRank(r) /\ Plan' = Plan /\ pc'[r] = p /\ comm'[r] = k
        /\ ret'[r] = rt /\ checker'[r] = "migrateRequests" /\ now'[r] = t /\ nlist'[r] = l
        /\ force'[r] = f
    <3> HIDE DEF a, k, l, p
    <3> QED
      BY ZenonT(30), <1>2, <1>4, OnRank DEF OnlyRank, script, world, Plan
  <2>2. /\ (a = "yes") \in BOOLEAN /\ k \in Comms
        /\ k.is_communicating = m.is_communicating /\ k.migrate_request = (a = "yes")
        /\ k.force_migrate = m.force_migrate /\ k.has_ghosts = m.has_ghosts
        /\ m.force_migrate \in BOOLEAN /\ m.has_ghosts \in BOOLEAN
    <3>1. (a = "yes") \in BOOLEAN
      BY Zenon
    <3> HIDE DEF a
    <3> QED
      BY ZenonT(30), <1>1, <3>1, CommFields, RequestFields
  <2>3. Left(n, t, a, l)
    <3> HIDE DEF n, t
    <3> QED
      BY Zenon, <1>1, AskedFields
  <2>4. TypesOn(r)'
    <3>1. p \in Labels /\ "migrateRequests" \in Checkers
      BY DEF Labels, Collectives, Checkers
    <3>2. rt \in Callers /\ t \in 0..MaxStep /\ f \in Forces
      BY Zenon, <1>1 DEF TypesOn
    <3>3. l \in Nlists
      <4> HIDE DEF n, t, a, l
      <4> QED
        BY <2>3 DEF Left
    <3> HIDE DEF a, k, l, p, rt, t, f
    <3> QED
      BY ZenonT(30), <1>1, <1>2, <2>1, <2>2, <3>1, <3>2, <3>3, TypesKept
  <2>5. Bound(Plan, p, rt, "migrateRequests", t, k, l, f) = Peeks(Plan, rt, c, t, m, n, f)
    <3>1. Peeks(Plan, rt, c, t, m, n, f)
            = IF a = "check" THEN <<"distanceCheck", rt, "migrateRequests", t, k, l, f>>
              ELSE Decides(Plan, rt, "migrateRequests", t, k, l, f)
      BY Zenon, <1>4 DEF Peeks
    <3> HIDE DEF a, k, l, rt, c, t, m, n, f
    <3>2. CASE a = "check"
      BY <3>1, <3>2, AtCollective DEF Collectives
    <3>3. CASE a # "check"
      BY ZenonT(30), <3>1, <3>3, AtDecide
    <3> QED
      BY ZenonT(30), <3>2, <3>3
  <2>6. BoundFor(r)' = BoundFor(r)
    <3> HIDE DEF a, k, l, p
    <3> QED
      BY SMTT(30), <1>1, <2>1, <2>5, AtMigrateRequests DEF BoundFor
  <2>7. SoundOn(r)'
    <3>1. /\ n.force_update => a = "yes"
          /\ n.last_checked = t => a = IF n.force_update \/ n.last_result THEN "yes" ELSE "no"
          /\ a = "no" /\ n.last_checked # t => t < n.last_updated + Plan.delay
          /\ a \in {"yes", "no", "check"}
      BY SMTT(30), <1>1, Answers
    <3>2. Sound(Plan, "migrateRequests", rt, c, t, m, n, f, moved[r], reordered[r],
                ghosts_current[r], forces_current[r])
      BY Zenon, <1>1 DEF SoundOn
    <3>3. /\ n.force_update \in BOOLEAN /\ n.last_result \in BOOLEAN
          /\ n.last_updated \in 0..MaxStep
      BY ZenonT(30), <1>1, NlistFields
    <3> HIDE DEF a, k, l, rt, c, t, m, n, f
    <3>4. Clocks(Plan, p, rt, t, l, f)
      BY SMTT(30), <1>1, <2>3, <3>1, <3>2, <3>3 DEF Sound, Clocks, Left
    <3>5. Flags(p, "migrateRequests", k) /\ GhostsFollow(p, k, ghosts_current[r])
      BY <1>1, <1>4, <2>2, <3>1, <3>2 DEF Sound, Flags, GhostsFollow
    <3>6. CutOffFollows(p, k, l) /\ OrderFollows(p, k, l, reordered[r])
      BY ZenonT(30), <1>1, <1>4, <2>2, <2>3, <3>1, <3>2
      DEF Sound, CutOffFollows, OrderFollows, Requested, Migrates, Left
    <3>7. MovesFollow(Plan, p, t, k, l, moved[r])
      BY ZenonT(30), <1>1, <1>4, <2>2, <2>3, <3>1, <3>2, <3>3
      DEF Sound, MovesFollow, Requested, Left
    <3>8. ForcesFollow(p, "migrateRequests", t, f, forces_current[r])
      BY ZenonT(30), <3>2 DEF Sound, ForcesFollow
    <3>9. Sound(Plan, p, rt, "migrateRequests", t, k, l, f, moved[r], reordered[r],
                ghosts_current[r], forces_current[r])
      BY Zenon, <3>4, <3>5, <3>6, <3>7, <3>8 DEF Sound
    <3> HIDE DEF p
    <3> QED
      BY <1>2, <2>1, <3>9 DEF SoundOn, world
  <2> QED
    BY Zenon, <2>1, <2>4, <2>6, <2>7, OneRank
<1> QED
  BY <1>3, <1>4

\* NeighborList::compute, which asks once more.
LEMMA nlistComputeStep ==
  ASSUME IInv, NEW r \in Ranks, nlistCompute(r)
  PROVE  IInv'
<1> DEFINE rt == ret[r]
           c == checker[r]
           t == now[r]
           m == comm[r]
           n == nlist[r]
           f == force[r]
           h == Computed(n, t)
           a == Asks(Plan, n, t)
           l == Asked(Plan, h, t)
           p == IF a = "check" THEN "distanceCheck"
                ELSE IF a = "yes" THEN "buildNlist" ELSE "computeForces"
           due == shouldCompute(n, t) \/ n.force_update
<1>1. /\ TypesOn(r) /\ SoundOn(r) /\ n \in Nlists /\ t \in 0..MaxStep
      /\ pc[r] = "nlist" /\ ~n.rcut_changed
  BY Zenon, OnRank DEF nlistCompute, TypesOn
<1>2. Sound(Plan, "nlist", rt, c, t, m, n, f, moved[r], reordered[r], ghosts_current[r],
            forces_current[r])
  BY Zenon, <1>1 DEF SoundOn
<1>3. /\ n.force_update \in BOOLEAN /\ n.last_result \in BOOLEAN /\ n.first \in BOOLEAN
      /\ n.last_updated \in 0..MaxStep /\ n.last_computed \in 0..MaxStep
  BY ZenonT(30), <1>1, NlistFields
<1>4. CASE ~due
  <2>1. /\ OnlyRank(r) /\ Plan' = Plan /\ pc'[r] = "computeForces"
        /\ UNCHANGED <<ret, checker, now, comm, nlist, force, world>>
    BY ZenonT(30), <1>4, OnRank DEF nlistCompute, Goto, OnlyRank, script, world, Plan
  <2>2. TypesOn(r)'
    BY ZenonT(30), <1>1, <2>1 DEF TypesOn, Labels, world
  <2>3. BoundFor(r)' = BoundFor(r)
    <3> HIDE DEF rt, c, t, m, n, f
    <3>1. ListComputes(Plan, rt, c, t, m, n, f) = Loops(Plan, rt, c, t, m, n, f)
      BY ZenonT(30), <1>4 DEF ListComputes
    <3> QED
      BY <1>1, <2>1, <3>1, AtNlist, AtLoop DEF BoundFor, rt, c, t, m, n, f
  <2>4. SoundOn(r)'
    <3> DEFINE mv == moved[r]
               ro == reordered[r]
               gc == ghosts_current[r]
               fc == forces_current[r]
    <3>1. Sound(Plan, "nlist", rt, c, t, m, n, f, mv, ro, gc, fc)
      BY Zenon, <1>1 DEF SoundOn
    <3> HIDE DEF rt, c, t, m, n, f, mv, ro, gc, fc
    <3>2. Sound(Plan, "computeForces", rt, c, t, m, n, f, mv, ro, gc, fc)
      BY Zenon, <1>3, <1>4, <3>1
      DEF Sound, Clocks, Flags, GhostsFollow, CutOffFollows, OrderFollows, MovesFollow,
          ForcesFollow, Requested, shouldCompute
    <3> QED
      BY ZenonT(30), <2>1, <3>2 DEF SoundOn, world, rt, c, t, m, n, f, mv, ro, gc, fc
  <2> QED
    BY Zenon, <2>1, <2>2, <2>3, <2>4, OneRank
<1>5. CASE due
  <2>1. /\ OnlyRank(r) /\ Plan' = Plan /\ pc'[r] = p /\ checker'[r] = "nlist" /\ nlist'[r] = l
        /\ UNCHANGED <<ret, now, comm, force, world>>
    <3>1. needsUpdating(n, t) = a /\ Checked(h, t) = l
      BY Zenon, AsksThePlan
    <3> HIDE DEF a, l
    <3>2. /\ pc' = [pc EXCEPT ![r] = p] /\ checker' = [checker EXCEPT ![r] = "nlist"]
          /\ nlist' = [nlist EXCEPT ![r] = l]
          /\ UNCHANGED <<ret, now, script, comm, force, world>>
      BY Zenon, <1>5, <3>1, OnRank DEF nlistCompute, AskNeedsUpdating, Goto, Answered
    <3> HIDE DEF p
    <3> QED
      BY ZenonT(30), <3>2, OnRank DEF OnlyRank, script, world, Plan
  <2>2. /\ h \in Nlists /\ h.first = FALSE /\ h.last_computed = t
        /\ h.force_update = n.force_update /\ h.rcut_changed = n.rcut_changed
        /\ h.last_result = n.last_result /\ h.last_checked = n.last_checked
        /\ h.last_updated = n.last_updated /\ Asks(Plan, h, t) = a
    <3> HIDE DEF n, t
    <3> QED
      BY ZenonT(30), <1>1, ComputedFields
  <2>3. Left(h, t, a, l)
    <3> HIDE DEF n, t, h, a
    <3> QED
      BY Zenon, <1>1, <2>2, AskedFields
  <2>4. /\ n.force_update => a = "yes"
        /\ n.last_checked = t => a = IF n.force_update \/ n.last_result THEN "yes" ELSE "no"
        /\ a = "no" /\ n.last_checked # t => t < n.last_updated + Plan.delay
        /\ a \in {"yes", "no", "check"}
    BY SMTT(30), <1>1, Answers
  <2>5. TypesOn(r)'
    <3>1. p \in Labels /\ "nlist" \in Checkers
      BY ZenonT(30) DEF Labels, Collectives, Checkers
    <3>2. /\ ret'[r] \in Callers /\ now'[r] \in 0..MaxStep
          /\ comm'[r] \in Comms /\ force'[r] \in Forces
      BY Zenon, <1>1, <2>1 DEF TypesOn
    <3>3. l \in Nlists
      <4> HIDE DEF n, t, a, l
      <4> QED
        BY Zenon, <2>3 DEF Left
    <3> HIDE DEF a, l, p, rt, t, m, f
    <3> QED
      BY ZenonT(30), <1>1, <2>1, <3>1, <3>2, <3>3, TypesKept
  <2>6. Bound(Plan, p, rt, "nlist", t, m, l, f) = ListComputes(Plan, rt, c, t, m, n, f)
    <3>1. ListComputes(Plan, rt, c, t, m, n, f)
            = IF a = "check" THEN <<"distanceCheck", rt, "nlist", t, m, l, f>>
              ELSE Loops(Plan, rt, "nlist", t, m, l, f)
      BY <1>5 DEF ListComputes
    <3> HIDE DEF a, l, rt, c, t, m, n, f
    <3>2. CASE a = "check"
      BY <3>1, <3>2, AtCollective DEF Collectives
    <3>3. CASE a # "check"
      BY SMTT(30), <3>1, <3>3, AtLoop
    <3> QED
      BY ZenonT(30), <3>2, <3>3
  <2>7. BoundFor(r)' = BoundFor(r)
    <3> HIDE DEF a, l, p
    <3> QED
      BY <1>1, <2>1, <2>6, AtNlist DEF BoundFor
  <2>8. SoundOn(r)'
    <3> HIDE DEF a, l, h, rt, c, t, m, n, f
    <3>1. Clocks(Plan, p, rt, t, l, f)
      <4>1. Clocks(Plan, "nlist", rt, t, n, f)
        BY <1>2 DEF Sound
      <4>2. l.last_checked = t /\ l.last_computed = t /\ l.last_updated \in {t, n.last_updated}
        BY <2>2, <2>3 DEF Left
      <4>3. p \notin {"applySortOrder", "integrate"}
        BY Zenon
      <4> HIDE DEF p
      <4> QED
        BY SMTT(30), <1>1, <4>1, <4>2, <4>3 DEF Clocks
    <3>2. /\ Flags(p, "nlist", m) /\ GhostsFollow(p, m, ghosts_current[r])
          /\ CutOffFollows(p, m, l)
      <4>1. /\ Flags("nlist", c, m) /\ GhostsFollow("nlist", m, ghosts_current[r])
            /\ CutOffFollows("nlist", m, n)
        BY <1>2 DEF Sound
      <4>2. Flags(p, "nlist", m)
        BY Zenon, <4>1 DEF Flags
      <4>3. GhostsFollow(p, m, ghosts_current[r])
        BY <4>1 DEF GhostsFollow
      <4>4. CutOffFollows(p, m, l)
        BY ZenonT(30), <1>1, <2>2, <2>3, <4>1 DEF CutOffFollows, Left
      <4> QED
        BY ZenonT(30), <4>2, <4>3, <4>4
    <3>3. OrderFollows(p, m, l, reordered[r])
      BY ZenonT(30), <1>2, <2>4 DEF Sound, OrderFollows, Requested
    <3>4. MovesFollow(Plan, p, t, m, l, moved[r])
      BY <1>1, <1>2, <1>3, <2>2, <2>3, <2>4 DEF Sound, MovesFollow, Requested, Left
    <3>5. ForcesFollow(p, "nlist", t, f, forces_current[r])
      BY ZenonT(30), <1>2 DEF Sound, ForcesFollow
    <3>6. Sound(Plan, p, rt, "nlist", t, m, l, f, moved[r], reordered[r],
                ghosts_current[r], forces_current[r])
      BY Zenon, <3>1, <3>2, <3>3, <3>4, <3>5 DEF Sound
    <3> HIDE DEF p
    <3> QED
      BY Zenon, <2>1, <3>6 DEF SoundOn, world, rt, t, m, f
  <2> QED
    BY <2>1, <2>5, <2>7, <2>8, OneRank
<1> QED
  BY ZenonT(30), <1>4, <1>5

\* ForceCompute::compute, once per step or after a sort.
LEMMA computeNetForceStep ==
  ASSUME IInv, NEW r \in Ranks, computeNetForce(r)
  PROVE  IInv'
<1> DEFINE rt == ret[r]
           c == checker[r]
           t == now[r]
           m == comm[r]
           n == nlist[r]
           f == force[r]
           g == Sorted(f, t)
           due == f.sorted \/ shouldCompute(f, t)
           p == IF due THEN "nlist" ELSE "loop"
<1>1. /\ TypesOn(r) /\ SoundOn(r) /\ f \in Forces /\ t \in 0..MaxStep
      /\ pc[r] = "computeNetForce"
  BY Zenon, OnRank DEF computeNetForce, TypesOn
<1>2. /\ pc' = [pc EXCEPT ![r] = p] /\ force' = [force EXCEPT ![r] = g]
      /\ UNCHANGED <<ret, checker, now, script, comm, nlist, world>>
  BY Zenon, OnRank DEF computeNetForce, Goto, Sorted
<1>3. /\ OnlyRank(r) /\ Plan' = Plan /\ pc'[r] = p /\ force'[r] = g
      /\ UNCHANGED <<ret, checker, now, comm, nlist, world>>
  <2> HIDE DEF p, g
  <2> QED
    BY ZenonT(30), <1>2, OnRank DEF OnlyRank, script, world, Plan
<1>4. /\ f.sorted \in BOOLEAN /\ f.first \in BOOLEAN /\ f.last_computed \in 0..MaxStep
      /\ Marked(f, t, g)
  <2> HIDE DEF f, t
  <2> QED
    BY ZenonT(30), <1>1, ForceFields, SortedFields
<1>5. TypesOn(r)'
  <2> HIDE DEF g, due
  <2> QED
    BY Zenon, <1>1, <1>3, <1>4 DEF Marked, TypesOn, Labels, world
<1>6. Bound(Plan, p, rt, c, t, m, n, g) = ForceComputes(Plan, rt, c, t, m, n, f)
  <2> HIDE DEF rt, c, t, m, n, f
  <2>1. CASE due
    BY Zenon, <2>1, AtNlist DEF ForceComputes
  <2>2. CASE ~due
    BY SMTT(30), <2>2, AtLoop DEF ForceComputes
  <2> QED
    BY Zenon, <2>1, <2>2
<1>7. BoundFor(r)' = BoundFor(r)
  <2> HIDE DEF p, g
  <2> QED
    BY SMTT(30), <1>1, <1>3, <1>6, AtComputeNetForce DEF BoundFor
<1>8. SoundOn(r)'
  <2> DEFINE mv == moved[r]
             ro == reordered[r]
             gc == ghosts_current[r]
             fc == forces_current[r]
  <2>1. Sound(Plan, "computeNetForce", rt, c, t, m, n, f, mv, ro, gc, fc)
    BY ZenonT(30), <1>1 DEF SoundOn
  <2> HIDE DEF g, rt, c, t, m, n, f, mv, ro, gc, fc
  <2>2. Sound(Plan, p, rt, c, t, m, n, g, mv, ro, gc, fc)
    BY <1>1, <1>4, <2>1
    DEF Sound, Clocks, Flags, GhostsFollow, CutOffFollows, OrderFollows, MovesFollow,
        ForcesFollow, Requested, shouldCompute, Marked
  <2> HIDE DEF p
  <2> QED
    BY ZenonT(30), <1>3, <2>2 DEF SoundOn, world, g, rt, c, t, m, n, f, mv, ro, gc, fc
<1> QED
  BY ZenonT(30), <1>3, <1>5, <1>7, <1>8, OneRank


-----------------------------------------------------------------------------
(***************************************************************************)
(* The steps of one rank in the run.                                       *)
(***************************************************************************)

\* The start of a run forces a migration.
LEMMA startRunStep ==
  ASSUME IInv, NEW r \in Ranks, startRun(r)
  PROVE  IInv'
<1> DEFINE c == checker[r]
           t == now[r]
           m == comm[r]
           n == nlist[r]
           f == force[r]
           k == forceMigrate(m)
           rt == IF pc[r] = "run" THEN "prepRun" ELSE "computeNetForce"
<1>1. TypesOn(r) /\ SoundOn(r) /\ m \in Comms /\ pc[r] \in {"run", "prepRun"}
  BY Zenon, OnRank DEF startRun, TypesOn
<1>2. /\ OnlyRank(r) /\ Plan' = Plan /\ pc'[r] = "communicate" /\ ret'[r] = rt /\ comm'[r] = k
      /\ UNCHANGED <<checker, now, nlist, force, world>>
  <2>1. /\ pc' = [pc EXCEPT ![r] = "communicate"] /\ ret' = [ret EXCEPT ![r] = rt]
        /\ comm' = [comm EXCEPT ![r] = k]
        /\ UNCHANGED <<checker, now, script, nlist, force, world>>
    BY Zenon, OnRank DEF startRun, CallCommunicate, Goto
  <2> HIDE DEF rt, k
  <2> QED
    BY ZenonT(30), <2>1, OnRank DEF OnlyRank, script, world, Plan
<1>3. /\ k \in Comms /\ k.is_communicating = m.is_communicating /\ k.has_ghosts = m.has_ghosts
      /\ k.force_migrate = (m.force_migrate \/ ~m.is_communicating)
      /\ m.is_communicating \in BOOLEAN
  <2> HIDE DEF m
  <2> QED
    BY ZenonT(30), <1>1, CommFields
<1>4. TypesOn(r)'
  <2> HIDE DEF k
  <2> QED
    BY Zenon, <1>1, <1>2, <1>3 DEF TypesOn, Labels, Callers, world
<1>5. BoundFor(r)' = BoundFor(r)
  <2>1. BoundFor(r)' = Communicates(rt, c, t, k, n, f)
    <3> HIDE DEF rt, k
    <3> QED
      BY <1>2, AtCommunicate DEF BoundFor
  <2>2. BoundFor(r) = Starts(rt, c, t, m, n, f)
    BY <1>1, AtRun, AtPrepRun DEF BoundFor
  <2> QED
    BY <2>1, <2>2 DEF Starts
<1>6. SoundOn(r)'
  <2> HIDE DEF k
  <2> QED
    BY ZenonT(30), <1>1, <1>2, <1>3
    DEF SoundOn, Sound, Clocks, Flags, GhostsFollow, CutOffFollows, OrderFollows, MovesFollow,
        ForcesFollow, Requested, world
<1> QED
  BY Zenon, <1>2, <1>4, <1>5, <1>6, OneRank

\* The sort of the particles signals it and forces a migration.
LEMMA applySortOrderStep ==
  ASSUME IInv, NEW r \in Ranks, applySortOrder(r)
  PROVE  IInv'
<1> DEFINE c == checker[r]
           t == now[r]
           m == comm[r]
           n == nlist[r]
           f == force[r]
           k == Ghostless(m)
           l == forceUpdate(n)
           g == setParticlesSorted(f)
<1>1. /\ TypesOn(r) /\ SoundOn(r) /\ m \in Comms /\ n \in Nlists /\ f \in Forces
      /\ pc[r] = "applySortOrder"
  BY Zenon, OnRank DEF applySortOrder, TypesOn
<1>2. /\ OnlyRank(r) /\ Plan' = Plan /\ pc'[r] = "communicate" /\ ret'[r] = "integrate"
      /\ comm'[r] = k /\ nlist'[r] = l /\ force'[r] = g /\ reordered'[r] = TRUE
      /\ forces_current'[r] = FALSE /\ ghosts_current'[r] = FALSE
      /\ UNCHANGED <<checker, now, moved>>
  <2>1. /\ pc' = [pc EXCEPT ![r] = "communicate"] /\ ret' = [ret EXCEPT ![r] = "integrate"]
        /\ comm' = [comm EXCEPT ![r] = k] /\ nlist' = [nlist EXCEPT ![r] = l]
        /\ force' = [force EXCEPT ![r] = g] /\ reordered' = [reordered EXCEPT ![r] = TRUE]
        /\ forces_current' = [forces_current EXCEPT ![r] = FALSE]
        /\ ghosts_current' = [ghosts_current EXCEPT ![r] = FALSE]
        /\ UNCHANGED <<checker, now, script, moved>>
    BY Zenon, OnRank DEF applySortOrder, CallCommunicate, Goto, Ghostless
  <2> HIDE DEF k, l, g
  <2> QED
    BY ZenonT(30), <2>1, OnRank DEF OnlyRank, script, Plan
<1>3. /\ k \in Comms /\ k.is_communicating = m.is_communicating /\ k.has_ghosts = FALSE
      /\ k.force_migrate = (m.force_migrate \/ ~m.is_communicating)
      /\ m.is_communicating \in BOOLEAN
  <2> HIDE DEF m
  <2> QED
    BY ZenonT(30), <1>1, CommFields
<1>4. /\ l \in Nlists /\ l.force_update = TRUE
      /\ l.rcut_changed = n.rcut_changed /\ l.last_checked = n.last_checked
      /\ l.last_updated = n.last_updated /\ l.last_computed = n.last_computed
  <2> HIDE DEF n
  <2> QED
    BY ZenonT(30), <1>1, NlistFields
<1>5. g \in Forces /\ g.sorted = TRUE /\ g.first = f.first /\ g.last_computed = f.last_computed
  <2> HIDE DEF f
  <2> QED
    BY ZenonT(30), <1>1, ForceFields
<1>6. TypesOn(r)'
  <2> HIDE DEF k, l, g
  <2> QED
    BY ZenonT(30), <1>1, <1>2, <1>3, <1>4, <1>5 DEF TypesOn, Labels, Callers
<1>7. BoundFor(r)' = BoundFor(r)
  <2>1. BoundFor(r)' = Communicates("integrate", c, t, k, l, g)
    <3> HIDE DEF k, l, g
    <3> QED
      BY <1>2, AtCommunicate DEF BoundFor
  <2>2. BoundFor(r) = Sorts(c, t, m, n, f)
    BY <1>1, AtApplySortOrder DEF BoundFor
  <2> QED
    BY <2>1, <2>2 DEF Sorts
<1>8. SoundOn(r)'
  <2> HIDE DEF k, l, g
  <2> QED
    BY ZenonT(30), <1>1, <1>2, <1>3, <1>4, <1>5
    DEF SoundOn, Sound, Clocks, Flags, GhostsFollow, CutOffFollows, OrderFollows, MovesFollow,
        ForcesFollow, Requested
<1> QED
  BY Zenon, <1>2, <1>6, <1>7, <1>8, OneRank

\* The first half step moves the particles to the next time step.
LEMMA integrateStep ==
  ASSUME IInv, NEW r \in Ranks, integrate(r)
  PROVE  IInv'
<1> DEFINE t == now[r]
           m == comm[r]
           n == nlist[r]
           f == force[r]
<1>1. /\ TypesOn(r) /\ SoundOn(r) /\ n \in Nlists /\ f \in Forces /\ t \in 0..MaxStep
      /\ pc[r] = "integrate" /\ t < end /\ end \in 0..MaxStep /\ Plan.end = end
  <2>1. TypesOn(r) /\ SoundOn(r) /\ pc[r] = "integrate"
    BY Zenon, OnRank DEF integrate
  <2>2. end \in 0..MaxStep /\ Plan.end = end
    BY Types DEF IInv, Plan
  <2>3. t < end
    BY Zenon, <2>1, <2>2 DEF SoundOn, Sound, Clocks
  <2> QED
    BY Zenon, <2>1, <2>2, <2>3 DEF TypesOn
<1>2. /\ OnlyRank(r) /\ Plan' = Plan /\ pc'[r] = "communicate" /\ ret'[r] = "computeNetForce"
      /\ now'[r] = t + 1 /\ moved'[r] \in BOOLEAN
      /\ forces_current'[r] = FALSE /\ ghosts_current'[r] = FALSE
      /\ UNCHANGED <<checker, comm, nlist, force, reordered>>
  BY ZenonT(30), OnRank DEF integrate, CallCommunicate, Goto, OnlyRank, script, Plan
<1>3. TypesOn(r)'
  <2>1. t + 1 \in 0..MaxStep
    BY <1>1, TimeStepAssumption
  <2> HIDE DEF t
  <2> QED
    BY ZenonT(30), <1>1, <1>2, <2>1 DEF TypesOn, Labels, Callers
<1>4. BoundFor(r)' = BoundFor(r)
  <2>1. BoundFor(r)' = Communicates("computeNetForce", checker[r], t + 1, m, n, f)
    BY <1>2, AtCommunicate DEF BoundFor
  <2>2. BoundFor(r) = Integrates(checker[r], t, m, n, f)
    BY <1>1, AtIntegrate DEF BoundFor
  <2> QED
    BY Zenon, <2>1, <2>2 DEF Integrates
<1>5. SoundOn(r)'
  <2> DEFINE rt == ret[r]
             c == checker[r]
             mv == moved[r]
             ro == reordered[r]
             gc == ghosts_current[r]
             fc == forces_current[r]
             mw == moved'[r]
  <2>1. Sound(Plan, "integrate", rt, c, t, m, n, f, mv, ro, gc, fc)
    BY Zenon, <1>1 DEF SoundOn
  <2>2. /\ n.last_checked \in 0..MaxStep /\ n.last_updated \in 0..MaxStep
        /\ n.last_computed \in 0..MaxStep /\ f.last_computed \in 0..MaxStep
    BY ZenonT(30), <1>1, NlistFields, ForceFields
  <2> HIDE DEF rt, c, t, m, n, f, mv, ro, gc, fc, mw
  <2>3. Sound(Plan, "communicate", "computeNetForce", c, t + 1, m, n, f, mw, ro, FALSE, FALSE)
    BY <1>1, <2>1, <2>2
    DEF Sound, Clocks, Flags, GhostsFollow, CutOffFollows, OrderFollows, MovesFollow,
        ForcesFollow, Requested
  <2> QED
    BY ZenonT(30), <1>2, <2>3 DEF SoundOn, c, t, m, n, f, ro, mw
<1> QED
  BY Zenon, <1>2, <1>3, <1>4, <1>5, OneRank

\* The head of the loop: the end of the run, or the tuner of the step.
LEMMA runStepStep ==
  ASSUME IInv, NEW r \in Ranks, runStep(r)
  PROVE  IInv'
<1> DEFINE rt == ret[r]
           c == checker[r]
           t == now[r]
           m == comm[r]
           n == nlist[r]
           f == force[r]
<1>1. /\ TypesOn(r) /\ SoundOn(r) /\ m \in Comms /\ n \in Nlists
      /\ pc[r] = "loop" /\ t \in 0..MaxStep /\ end \in 0..MaxStep
      /\ Plan.end = end /\ Plan.tuner = tuner
  BY Zenon, OnRank, Types DEF runStep, TypesOn, Plan, IInv
<1>2. UNCHANGED <<checker, now, script, force, world>>
  BY DEF runStep
<1>3. BoundFor(r) = Loops(Plan, rt, c, t, m, n, f)
  BY <1>1, AtLoop DEF BoundFor
<1>4. CASE now[r] = end /\ Goto(r, "idle") /\ UNCHANGED <<ret, comm, nlist>>
  <2>1. /\ OnlyRank(r) /\ Plan' = Plan /\ pc'[r] = "idle"
        /\ UNCHANGED <<ret, checker, now, comm, nlist, force, world>>
    BY ZenonT(30), <1>2, <1>4, OnRank DEF Goto, OnlyRank, script, world, Plan
  <2>2. TypesOn(r)'
    BY Zenon, <1>1, <2>1 DEF TypesOn, Labels, world
  <2>3. BoundFor(r)' = BoundFor(r)
    <3>1. BoundFor(r)' = Bound(Plan, "idle", rt, c, t, m, n, f)
      BY <2>1 DEF BoundFor
    <3>2. Bound(Plan, "idle", rt, c, t, m, n, f) = <<"idle", rt, c, t, m, n, f>>
      BY AtCollective DEF Collectives
    <3> QED
      BY ZenonT(30), <1>1, <1>3, <1>4, <3>1, <3>2 DEF Loops
  <2>4. SoundOn(r)'
    <3> DEFINE mv == moved[r]
               ro == reordered[r]
               gc == ghosts_current[r]
               fc == forces_current[r]
    <3>1. Sound(Plan, "loop", rt, c, t, m, n, f, mv, ro, gc, fc)
      BY Zenon, <1>1 DEF SoundOn
    <3> HIDE DEF rt, c, t, m, n, f, mv, ro, gc, fc
    <3>2. Sound(Plan, "idle", rt, c, t, m, n, f, mv, ro, gc, fc)
      BY Zenon, <1>1, <3>1
      DEF Sound, Clocks, Flags, GhostsFollow, CutOffFollows, OrderFollows, MovesFollow,
          ForcesFollow, Requested
    <3> QED
      BY <2>1, <3>2 DEF SoundOn, world, rt, c, t, m, n, f, mv, ro, gc, fc
  <2> QED
    BY Zenon, <2>1, <2>2, <2>3, <2>4, OneRank
<1>5. CASE /\ now[r] < end /\ tuner[now[r]] = "none"
           /\ Goto(r, "integrate") /\ UNCHANGED <<ret, comm, nlist>>
  <2>1. /\ OnlyRank(r) /\ Plan' = Plan /\ pc'[r] = "integrate"
        /\ UNCHANGED <<ret, checker, now, comm, nlist, force, world>>
    BY ZenonT(30), <1>2, <1>5, OnRank DEF Goto, OnlyRank, script, world, Plan
  <2>2. TypesOn(r)'
    BY Zenon, <1>1, <2>1 DEF TypesOn, Labels, world
  <2>3. BoundFor(r)' = BoundFor(r)
    <3>1. BoundFor(r)' = Integrates(c, t, m, n, f)
      BY <2>1, AtIntegrate DEF BoundFor
    <3> QED
      BY <1>1, <1>3, <1>5, <3>1 DEF Loops
  <2>4. SoundOn(r)'
    <3> DEFINE mv == moved[r]
               ro == reordered[r]
               gc == ghosts_current[r]
               fc == forces_current[r]
    <3>1. Sound(Plan, "loop", rt, c, t, m, n, f, mv, ro, gc, fc)
      BY <1>1 DEF SoundOn
    <3> HIDE DEF rt, c, t, m, n, f, mv, ro, gc, fc
    <3>2. Sound(Plan, "integrate", rt, c, t, m, n, f, mv, ro, gc, fc)
      BY Zenon, <1>1, <1>5, <3>1
      DEF Sound, Clocks, Flags, GhostsFollow, CutOffFollows, OrderFollows, MovesFollow,
          ForcesFollow, Requested, t
    <3> QED
      BY Zenon, <2>1, <3>2 DEF SoundOn, world, rt, c, t, m, n, f, mv, ro, gc, fc
  <2> QED
    BY Zenon, <2>1, <2>2, <2>3, <2>4, OneRank
<1>6. CASE /\ now[r] < end /\ tuner[now[r]] = "NeighborListBuffer"
           /\ nlist' = [nlist EXCEPT ![r] = [forceUpdate(@) EXCEPT !.rcut_changed = TRUE]]
           /\ Goto(r, "integrate")
           /\ UNCHANGED <<ret, comm>>
  <2> DEFINE l == Widened(n)
  <2>1. /\ OnlyRank(r) /\ Plan' = Plan /\ pc'[r] = "integrate" /\ nlist'[r] = l
        /\ UNCHANGED <<ret, checker, now, comm, force, world>>
    <3>1. nlist' = [nlist EXCEPT ![r] = l]
      BY Zenon, <1>6, OnRank DEF Widened
    <3> HIDE DEF l
    <3> QED
      BY ZenonT(30), <1>2, <1>6, <3>1, OnRank DEF Goto, OnlyRank, script, world, Plan
  <2>2. /\ l \in Nlists /\ l.force_update = TRUE
        /\ l.last_checked = n.last_checked /\ l.last_updated = n.last_updated
        /\ l.last_computed = n.last_computed
    <3> HIDE DEF n
    <3> QED
      BY ZenonT(30), <1>1, NlistFields
  <2>3. TypesOn(r)'
    <3> HIDE DEF l
    <3> QED
      BY Zenon, <1>1, <2>1, <2>2 DEF TypesOn, Labels, world
  <2>4. BoundFor(r)' = BoundFor(r)
    <3>1. BoundFor(r)' = Integrates(c, t, m, l, f)
      <4> HIDE DEF l
      <4> QED
        BY <2>1, AtIntegrate DEF BoundFor
    <3> QED
      BY <1>1, <1>3, <1>6, <3>1 DEF Loops
  <2>5. SoundOn(r)'
    <3> DEFINE mv == moved[r]
               ro == reordered[r]
               gc == ghosts_current[r]
               fc == forces_current[r]
    <3>1. Sound(Plan, "loop", rt, c, t, m, n, f, mv, ro, gc, fc)
      BY Zenon, <1>1 DEF SoundOn
    <3> HIDE DEF l, rt, c, t, m, n, f, mv, ro, gc, fc
    <3>2. Sound(Plan, "integrate", rt, c, t, m, l, f, mv, ro, gc, fc)
      BY Zenon, <1>1, <1>6, <2>2, <3>1
      DEF Sound, Clocks, Flags, GhostsFollow, CutOffFollows, OrderFollows, MovesFollow,
          ForcesFollow, Requested, t
    <3> QED
      BY Zenon, <2>1, <3>2 DEF SoundOn, world, l, rt, c, t, m, n, f, mv, ro, gc, fc
  <2> QED
    BY Zenon, <2>1, <2>3, <2>4, <2>5, OneRank
<1>7. CASE /\ now[r] < end /\ tuner[now[r]] = "SFCPackTuner"
           /\ comm' = [comm EXCEPT ![r] = forceMigrate(@)]
           /\ CallCommunicate(r, "applySortOrder")
           /\ UNCHANGED nlist
  <2> DEFINE k == forceMigrate(m)
  <2>1. /\ OnlyRank(r) /\ Plan' = Plan /\ pc'[r] = "communicate" /\ comm'[r] = k
        /\ ret'[r] = "applySortOrder"
        /\ UNCHANGED <<checker, now, nlist, force, world>>
    <3>1. comm' = [comm EXCEPT ![r] = k]
      BY Zenon, <1>7, OnRank
    <3> HIDE DEF k
    <3> QED
      BY ZenonT(30), <1>2, <1>7, <3>1, OnRank
      DEF CallCommunicate, Goto, OnlyRank, script, world, Plan
  <2>2. /\ k \in Comms /\ k.is_communicating = m.is_communicating
        /\ k.has_ghosts = m.has_ghosts
        /\ k.force_migrate = (m.force_migrate \/ ~m.is_communicating)
    <3> HIDE DEF m
    <3> QED
      BY ZenonT(30), <1>1, CommFields
  <2>3. TypesOn(r)'
    <3> HIDE DEF k
    <3> QED
      BY Zenon, <1>1, <2>1, <2>2 DEF TypesOn, Labels, Callers, world
  <2>4. BoundFor(r)' = BoundFor(r)
    <3>1. BoundFor(r)' = Communicates("applySortOrder", c, t, k, n, f)
      <4> HIDE DEF k
      <4> QED
        BY <2>1, AtCommunicate DEF BoundFor
    <3> QED
      BY <1>1, <1>3, <1>7, <3>1 DEF Loops
  <2>5. SoundOn(r)'
    <3> DEFINE mv == moved[r]
               ro == reordered[r]
               gc == ghosts_current[r]
               fc == forces_current[r]
    <3>1. Sound(Plan, "loop", rt, c, t, m, n, f, mv, ro, gc, fc)
      BY Zenon, <1>1 DEF SoundOn
    <3> HIDE DEF k, rt, c, t, m, n, f, mv, ro, gc, fc
    <3>2. Sound(Plan, "communicate", "applySortOrder", c, t, k, n, f, mv, ro, gc, fc)
      BY ZenonT(30), <1>1, <1>7, <2>2, <3>1
      DEF Sound, Clocks, Flags, GhostsFollow, CutOffFollows, OrderFollows, MovesFollow,
          ForcesFollow, Requested, t
    <3> QED
      BY <2>1, <3>2 DEF SoundOn, world, k, rt, c, t, m, n, f, mv, ro, gc, fc
  <2> QED
    BY Zenon, <2>1, <2>3, <2>4, <2>5, OneRank
<1> QED
  BY Zenon, <1>4, <1>5, <1>6, <1>7 DEF runStep

-----------------------------------------------------------------------------
(***************************************************************************)
(* The collectives and the script: steps of all ranks.                     *)
(***************************************************************************)

\* The components of equal states are equal.
LEMMA EqualStates ==
  ASSUME NEW p, NEW rt, NEW c, NEW t, NEW m, NEW n, NEW f,
         NEW p1, NEW rt1, NEW c1, NEW t1, NEW m1, NEW n1, NEW f1,
         <<p, rt, c, t, m, n, f>> = <<p1, rt1, c1, t1, m1, n1, f1>>
  PROVE  p = p1 /\ rt = rt1 /\ c = c1 /\ t = t1 /\ m = m1 /\ n = n1 /\ f = f1
  OBVIOUS

\* Ranks that wait at the same place are in the same state, whatever they
\* did to get there.
LEMMA Together ==
  ASSUME IInv, NEW r \in Ranks, NEW s \in Ranks,
         pc[r] \in Collectives \cup {"idle"}, pc[s] \in Collectives \cup {"idle"}
  PROVE  /\ pc[r] = pc[s] /\ ret[r] = ret[s] /\ checker[r] = checker[s] /\ now[r] = now[s]
         /\ comm[r] = comm[s] /\ nlist[r] = nlist[s] /\ force[r] = force[s]
<1>1. BoundFor(r) = BoundFor(s)
  BY Zenon DEF IInv, Lockstep
<1>2. BoundFor(r) = <<pc[r], ret[r], checker[r], now[r], comm[r], nlist[r], force[r]>>
  BY AtCollective DEF BoundFor
<1>3. BoundFor(s) = <<pc[s], ret[s], checker[s], now[s], comm[s], nlist[s], force[s]>>
  BY AtCollective DEF BoundFor
<1>4. <<pc[r], ret[r], checker[r], now[r], comm[r], nlist[r], force[r]>>
        = <<pc[s], ret[s], checker[s], now[s], comm[s], nlist[s], force[s]>>
  BY ZenonT(30), <1>1, <1>2, <1>3
<1> QED
  BY ONLY Zenon, <1>4, EqualStates

\* The variables map the ranks.
Maps ==
  /\ pc = [r \in Ranks |-> pc[r]] /\ ret = [r \in Ranks |-> ret[r]]
  /\ checker = [r \in Ranks |-> checker[r]] /\ now = [r \in Ranks |-> now[r]]
  /\ comm = [r \in Ranks |-> comm[r]] /\ nlist = [r \in Ranks |-> nlist[r]]
  /\ force = [r \in Ranks |-> force[r]] /\ moved = [r \in Ranks |-> moved[r]]
  /\ reordered = [r \in Ranks |-> reordered[r]]
  /\ ghosts_current = [r \in Ranks |-> ghosts_current[r]]
  /\ forces_current = [r \in Ranks |-> forces_current[r]]

\* A state in which all ranks are sound and in the same state satisfies the
\* invariant.
LEMMA AllRanks ==
  ASSUME end' \in 0..MaxStep, tuner' \in [0..MaxStep-1 -> Tuners], delay' \in Delays,
         dist_check' \in BOOLEAN, Maps',
         \A r \in Ranks : TypesOn(r)' /\ SoundOn(r)',
         \A r, s \in Ranks :
           /\ pc'[r] = pc'[s] /\ ret'[r] = ret'[s] /\ checker'[r] = checker'[s]
           /\ now'[r] = now'[s] /\ comm'[r] = comm'[s] /\ nlist'[r] = nlist'[s]
           /\ force'[r] = force'[s]
  PROVE  IInv'
<1>1. /\ pc' \in [Ranks -> Labels] /\ ret' \in [Ranks -> Callers]
      /\ checker' \in [Ranks -> Checkers] /\ now' \in [Ranks -> 0..MaxStep]
      /\ comm' \in [Ranks -> Comms] /\ nlist' \in [Ranks -> Nlists] /\ force' \in [Ranks -> Forces]
      /\ moved' \in [Ranks -> BOOLEAN] /\ reordered' \in [Ranks -> BOOLEAN]
      /\ ghosts_current' \in [Ranks -> BOOLEAN] /\ forces_current' \in [Ranks -> BOOLEAN]
  BY Zenon DEF Maps, TypesOn
<1>2. TypeOK'
  BY Zenon, <1>1 DEF TypeOK, Callers, Checkers, Comms, Nlists, Forces
<1>3. ASSUME NEW r \in Ranks, NEW s \in Ranks PROVE BoundFor(r)' = BoundFor(s)'
  BY DEF BoundFor
<1> QED
  BY Zenon, <1>2, <1>3 DEF IInv, Lockstep

\* The types of the script.
LEMMA ScriptTypes ==
  ASSUME IInv
  PROVE  /\ end \in 0..MaxStep /\ tuner \in [0..MaxStep-1 -> Tuners]
         /\ delay \in Delays /\ dist_check \in BOOLEAN
         /\ Plan.end = end /\ Plan.delay = delay
  BY Zenon DEF IInv, TypeOK, Plan

\* The update of the ghost positions, in which all ranks take part.
LEMMA updateGhostsStep ==
  ASSUME IInv, updateGhosts
  PROVE  IInv'
<1>1. ASSUME NEW r \in Ranks
      PROVE  TypesOn(r) /\ SoundOn(r) /\ pc[r] = "updateGhosts"
  BY Zenon, OnRank DEF updateGhosts, AllAt
<1>2. /\ pc' = [r \in Ranks |-> "migrateRequests"] /\ ghosts_current' = [r \in Ranks |-> TRUE]
      /\ UNCHANGED <<ret, checker, now, script, comm, nlist, force, moved, reordered,
                     forces_current>>
      /\ Plan' = Plan
  BY Zenon DEF updateGhosts, AllGoto, script, Plan
<1>3. ASSUME NEW r \in Ranks PROVE TypesOn(r)'
  BY Zenon, <1>1, <1>2 DEF TypesOn, Labels
<1>4. ASSUME NEW r \in Ranks PROVE SoundOn(r)'
  <2> DEFINE rt == ret[r]
             c == checker[r]
             t == now[r]
             m == comm[r]
             n == nlist[r]
             f == force[r]
             mv == moved[r]
             ro == reordered[r]
             gc == ghosts_current[r]
             fc == forces_current[r]
  <2>1. Sound(Plan, "updateGhosts", rt, c, t, m, n, f, mv, ro, gc, fc)
    BY Zenon, <1>1 DEF SoundOn
  <2> HIDE DEF rt, c, t, m, n, f, mv, ro, gc, fc
  <2>2. Sound(Plan, "migrateRequests", rt, c, t, m, n, f, mv, ro, TRUE, fc)
    BY Zenon, <2>1
    DEF Sound, Clocks, Flags, GhostsFollow, CutOffFollows, OrderFollows, MovesFollow,
        ForcesFollow, Requested
  <2> QED
    BY Zenon, <1>2, <2>2 DEF SoundOn, rt, c, t, m, n, f, mv, ro, gc, fc
<1>5. ASSUME NEW r \in Ranks, NEW s \in Ranks
      PROVE  /\ pc'[r] = pc'[s] /\ ret'[r] = ret'[s] /\ checker'[r] = checker'[s]
             /\ now'[r] = now'[s] /\ comm'[r] = comm'[s] /\ nlist'[r] = nlist'[s]
             /\ force'[r] = force'[s]
  BY Zenon, <1>1, <1>2, Together DEF Collectives
<1>6. Maps'
  <2>1. PICK r \in Ranks : TRUE
    BY Zenon, TimeStepAssumption
  <2> QED
    BY Zenon, <1>2, <2>1, OnRank DEF Maps
<1> QED
  BY ZenonT(30), <1>2, <1>3, <1>4, <1>5, <1>6, AllRanks, ScriptTypes DEF script

\* What the distance check and the migration leave in the flags.
Settled(n, any, t) ==
  [n EXCEPT !.last_result = any, !.last_updated = IF any THEN t ELSE n.last_updated]

Migrated(m) == [forceMigrate([m EXCEPT !.force_migrate = FALSE]) EXCEPT !.has_ghosts = TRUE]

Refreshed(n) == [forceUpdate(n) EXCEPT !.rcut_changed = FALSE]

\* The fields of these records.
LEMMA CollectiveFields ==
  ASSUME NEW m \in Comms, NEW n \in Nlists
  PROVE  /\ Migrated(m) \in Comms
         /\ Migrated(m).is_communicating = m.is_communicating
         /\ Migrated(m).has_ghosts = TRUE
         /\ Refreshed(n) \in Nlists
         /\ Refreshed(n).force_update = TRUE /\ Refreshed(n).rcut_changed = FALSE
         /\ Refreshed(n).last_checked = n.last_checked
         /\ Refreshed(n).last_updated = n.last_updated
         /\ Refreshed(n).last_computed = n.last_computed
  BY ZenonT(30) DEF Comms, Nlists, Migrated, Refreshed, forceMigrate, forceUpdate

\* The fields of a list that has the answer of the distance check.
LEMMA SettledFields ==
  ASSUME NEW n \in Nlists, NEW any \in BOOLEAN, NEW t \in 0..MaxStep
  PROVE  /\ Settled(n, any, t) \in Nlists
         /\ Settled(n, any, t).force_update = n.force_update
         /\ Settled(n, any, t).rcut_changed = n.rcut_changed
         /\ Settled(n, any, t).last_checked = n.last_checked
         /\ Settled(n, any, t).last_computed = n.last_computed
         /\ Settled(n, any, t).last_updated = IF any THEN t ELSE n.last_updated
  BY ZenonT(30) DEF Nlists, Settled

\* The distance check: all ranks get the same answer.
LEMMA distanceCheckStep ==
  ASSUME IInv, distanceCheck
  PROVE  IInv'
<1> DEFINE any == \E r \in Ranks : moved[r]
           k(r) == Requesting(comm[r], any)
           l(r) == Settled(nlist[r], any, now[r])
<1>0. any \in BOOLEAN
  BY Zenon
<1>1. ASSUME NEW r \in Ranks
      PROVE  /\ TypesOn(r) /\ SoundOn(r) /\ pc[r] = "distanceCheck"
             /\ comm[r] \in Comms /\ nlist[r] \in Nlists /\ now[r] \in 0..MaxStep
             /\ moved[r] => any
  BY ZenonT(30), OnRank DEF distanceCheck, AllAt, TypesOn
<1>2. /\ pc' = [r \in Ranks |-> Answered(checker[r], any)]
      /\ nlist' = [r \in Ranks |-> l(r)] /\ comm' = [r \in Ranks |-> k(r)]
      /\ UNCHANGED <<ret, checker, now, script, force, world>>
      /\ Plan' = Plan
  BY ZenonT(30) DEF distanceCheck, Settled, Requesting, script, Plan
<1> HIDE DEF any
<1>3. ASSUME NEW r \in Ranks
      PROVE  /\ k(r) \in Comms /\ k(r).is_communicating = comm[r].is_communicating
             /\ k(r).migrate_request = any
             /\ k(r).force_migrate = comm[r].force_migrate /\ k(r).has_ghosts = comm[r].has_ghosts
  BY Zenon, <1>0, <1>1, RequestFields
<1>4. ASSUME NEW r \in Ranks
      PROVE  /\ l(r) \in Nlists /\ l(r).force_update = nlist[r].force_update
             /\ l(r).rcut_changed = nlist[r].rcut_changed
             /\ l(r).last_checked = nlist[r].last_checked
             /\ l(r).last_computed = nlist[r].last_computed
             /\ l(r).last_updated = IF any THEN now[r] ELSE nlist[r].last_updated
  BY SMTT(30), <1>0, <1>1, SettledFields
<1> HIDE DEF k, l
<1>5. ASSUME NEW r \in Ranks PROVE TypesOn(r)'
  BY ZenonT(30), <1>1, <1>2, <1>3, <1>4 DEF TypesOn, Labels, Answered, Checkers, world
<1>6. ASSUME NEW r \in Ranks PROVE SoundOn(r)'
  <2> DEFINE p == Answered(checker[r], any)
  <2>1. Sound(Plan, "distanceCheck", ret[r], checker[r], now[r], comm[r], nlist[r], force[r],
              moved[r], reordered[r], ghosts_current[r], forces_current[r])
    BY Zenon, <1>1 DEF SoundOn
  <2>2. /\ nlist[r].last_updated \in 0..MaxStep /\ checker[r] \in Checkers
        /\ ~nlist[r].rcut_changed /\ ~reordered[r] /\ ghosts_current[r]
        /\ nlist[r].rcut_changed \in BOOLEAN
    BY ZenonT(30), <1>1, <2>1, NlistFields
    DEF Sound, CutOffFollows, OrderFollows, GhostsFollow, TypesOn
  <2>3. Clocks(Plan, p, ret[r], now[r], l(r), force[r])
    BY SMTT(30), <1>0, <1>1, <1>4, <2>1, <2>2 DEF Sound, Clocks, Answered
  <2>4. Flags(p, checker[r], k(r)) /\ GhostsFollow(p, k(r), ghosts_current[r])
    BY Zenon, <1>3, <2>1, <2>2 DEF Sound, Flags, GhostsFollow, Answered, Checkers
  <2>5. CutOffFollows(p, k(r), l(r)) /\ OrderFollows(p, k(r), l(r), reordered[r])
    BY <1>4, <2>2 DEF CutOffFollows, OrderFollows
  <2>6. MovesFollow(Plan, p, now[r], k(r), l(r), moved[r])
    BY Zenon, <1>0, <1>1, <1>3, <2>2 DEF MovesFollow, Requested, Answered, Checkers
  <2>7. ForcesFollow(p, checker[r], now[r], force[r], forces_current[r])
    BY Zenon, <2>1, <2>2 DEF Sound, ForcesFollow, Answered, Checkers
  <2>8. Sound(Plan, p, ret[r], checker[r], now[r], k(r), l(r), force[r],
              moved[r], reordered[r], ghosts_current[r], forces_current[r])
    BY ZenonT(30), <2>3, <2>4, <2>5, <2>6, <2>7 DEF Sound
  <2> QED
    BY ZenonT(30), <1>2, <2>8 DEF SoundOn, world
<1>7. ASSUME NEW r \in Ranks, NEW s \in Ranks
      PROVE  /\ pc'[r] = pc'[s] /\ ret'[r] = ret'[s] /\ checker'[r] = checker'[s]
             /\ now'[r] = now'[s] /\ comm'[r] = comm'[s] /\ nlist'[r] = nlist'[s]
             /\ force'[r] = force'[s]
  <2>1. /\ ret[r] = ret[s] /\ checker[r] = checker[s] /\ now[r] = now[s]
        /\ comm[r] = comm[s] /\ nlist[r] = nlist[s] /\ force[r] = force[s]
    BY Zenon, <1>1, Together DEF Collectives
  <2>2. k(r) = k(s) /\ l(r) = l(s)
    BY Zenon, <2>1 DEF k, l
  <2> QED
    BY Zenon, <1>2, <2>1, <2>2
<1>8. Maps'
  <2>1. PICK r \in Ranks : TRUE
    BY Zenon, TimeStepAssumption
  <2> QED
    BY Zenon, <1>2, <2>1, OnRank DEF Maps, world
<1> QED
  BY ZenonT(30), <1>2, <1>5, <1>6, <1>7, <1>8, AllRanks, ScriptTypes DEF script

\* The migration and the new ghosts: the signals reach the list and the force.
LEMMA migrateParticlesStep ==
  ASSUME IInv, migrateParticles
  PROVE  IInv'
<1> DEFINE k(r) == Migrated(comm[r])
           l(r) == Refreshed(nlist[r])
           g(r) == setParticlesSorted(force[r])
<1>1. ASSUME NEW r \in Ranks
      PROVE  /\ TypesOn(r) /\ SoundOn(r) /\ pc[r] = "migrateParticles"
             /\ comm[r] \in Comms /\ nlist[r] \in Nlists /\ force[r] \in Forces
  BY Zenon, OnRank DEF migrateParticles, AllAt, TypesOn
<1>2. /\ pc' = [r \in Ranks |-> "return"]
      /\ nlist' = [r \in Ranks |-> l(r)] /\ comm' = [r \in Ranks |-> k(r)]
      /\ force' = [r \in Ranks |-> g(r)] /\ reordered' = [r \in Ranks |-> TRUE]
      /\ forces_current' = [r \in Ranks |-> FALSE] /\ ghosts_current' = [r \in Ranks |-> TRUE]
      /\ UNCHANGED <<ret, checker, now, script, moved>>
      /\ Plan' = Plan
  BY Zenon DEF migrateParticles, AllGoto, Migrated, Refreshed, script, Plan
<1>3. ASSUME NEW r \in Ranks
      PROVE  /\ k(r) \in Comms /\ k(r).is_communicating = comm[r].is_communicating
             /\ k(r).has_ghosts = TRUE
             /\ l(r) \in Nlists /\ l(r).force_update = TRUE /\ l(r).rcut_changed = FALSE
             /\ l(r).last_checked = nlist[r].last_checked
             /\ l(r).last_updated = nlist[r].last_updated
             /\ l(r).last_computed = nlist[r].last_computed
  BY ZenonT(30), <1>1, CollectiveFields
<1>4. ASSUME NEW r \in Ranks
      PROVE  /\ g(r) \in Forces /\ g(r).sorted = TRUE
             /\ g(r).last_computed = force[r].last_computed
  BY ZenonT(30), <1>1, ForceFields
<1> HIDE DEF k, l, g
<1>5. ASSUME NEW r \in Ranks PROVE TypesOn(r)'
  BY ZenonT(30), <1>1, <1>2, <1>3, <1>4 DEF TypesOn, Labels
<1>6. ASSUME NEW r \in Ranks PROVE SoundOn(r)'
  BY ZenonT(30), <1>1, <1>2, <1>3, <1>4
  DEF SoundOn, Sound, Clocks, Flags, GhostsFollow, CutOffFollows, OrderFollows, MovesFollow,
      ForcesFollow, Requested
<1>7. ASSUME NEW r \in Ranks, NEW s \in Ranks
      PROVE  /\ pc'[r] = pc'[s] /\ ret'[r] = ret'[s] /\ checker'[r] = checker'[s]
             /\ now'[r] = now'[s] /\ comm'[r] = comm'[s] /\ nlist'[r] = nlist'[s]
             /\ force'[r] = force'[s]
  <2>1. /\ ret[r] = ret[s] /\ checker[r] = checker[s] /\ now[r] = now[s]
        /\ comm[r] = comm[s] /\ nlist[r] = nlist[s] /\ force[r] = force[s]
    BY <1>1, Together DEF Collectives
  <2>2. k(r) = k(s) /\ l(r) = l(s) /\ g(r) = g(s)
    BY <2>1 DEF k, l, g
  <2> QED
    BY Zenon, <1>2, <2>1, <2>2
<1>8. Maps'
  <2>1. PICK r \in Ranks : TRUE
    BY TimeStepAssumption
  <2> QED
    BY Zenon, <1>2, <2>1, OnRank DEF Maps
<1> QED
  BY ZenonT(30), <1>2, <1>5, <1>6, <1>7, <1>8, AllRanks, ScriptTypes DEF script

\* The script calls run(nsteps) between runs.
LEMMA runBegins ==
  ASSUME IInv, NEW nsteps \in 0..MaxStep, run(nsteps)
  PROVE  IInv'
<1>1. ASSUME NEW r \in Ranks
      PROVE  TypesOn(r) /\ SoundOn(r) /\ pc[r] = "idle" /\ now[r] \in 0..MaxStep
  BY Zenon, OnRank DEF run, AllAt, TypesOn
<1>2. /\ pc' = [r \in Ranks |-> "run"] /\ end' = end + nsteps /\ end + nsteps <= MaxStep
      /\ UNCHANGED <<ret, checker, now, tuner, delay, dist_check, comm, nlist, force, world>>
  BY Zenon DEF run, AllGoto
<1>3. /\ end \in 0..MaxStep /\ end' \in 0..MaxStep
      /\ Plan.end = end /\ Plan.delay = delay /\ Plan'.end = end' /\ Plan'.delay = delay
  BY <1>2, ScriptTypes, TimeStepAssumption DEF Plan
<1>4. ASSUME NEW r \in Ranks PROVE TypesOn(r)'
  BY ZenonT(30), <1>1, <1>2 DEF TypesOn, Labels, world
<1>5. ASSUME NEW r \in Ranks PROVE SoundOn(r)'
  <2> DEFINE rt == ret[r]
             c == checker[r]
             t == now[r]
             m == comm[r]
             n == nlist[r]
             f == force[r]
             mv == moved[r]
             ro == reordered[r]
             gc == ghosts_current[r]
             fc == forces_current[r]
             S == Plan'
  <2>1. Sound(Plan, "idle", rt, c, t, m, n, f, mv, ro, gc, fc)
    BY Zenon, <1>1 DEF SoundOn
  <2>2. S.end \in 0..MaxStep /\ Plan.end <= S.end /\ S.delay = Plan.delay
    BY <1>2, <1>3
  <2> HIDE DEF rt, c, t, m, n, f, mv, ro, gc, fc, S
  <2>3. Sound(S, "run", rt, c, t, m, n, f, mv, ro, gc, fc)
    BY <1>1, <1>3, <2>1, <2>2
    DEF Sound, Clocks, Flags, GhostsFollow, CutOffFollows, OrderFollows, MovesFollow,
        ForcesFollow, Requested, t
  <2> QED
    BY ZenonT(30), <1>2, <2>3 DEF SoundOn, world, rt, c, t, m, n, f, mv, ro, gc, fc, S
<1>6. ASSUME NEW r \in Ranks, NEW s \in Ranks
      PROVE  /\ pc'[r] = pc'[s] /\ ret'[r] = ret'[s] /\ checker'[r] = checker'[s]
             /\ now'[r] = now'[s] /\ comm'[r] = comm'[s] /\ nlist'[r] = nlist'[s]
             /\ force'[r] = force'[s]
  BY ZenonT(30), <1>1, <1>2, Together
<1>7. Maps'
  <2>1. PICK r \in Ranks : TRUE
    BY Zenon, TimeStepAssumption
  <2> QED
    BY ZenonT(30), <1>2, <2>1, OnRank DEF Maps, world
<1> QED
  BY ZenonT(30), <1>2, <1>3, <1>4, <1>5, <1>6, <1>7, AllRanks, ScriptTypes

\* The script sets the delay between runs, which makes the list rebuild.
LEMMA setRebuildCheckDelayStep ==
  ASSUME IInv, NEW every \in Delays, setRebuildCheckDelay(every)
  PROVE  IInv'
<1> DEFINE l(r) == forceUpdate(nlist[r])
<1>1. ASSUME NEW r \in Ranks
      PROVE  TypesOn(r) /\ SoundOn(r) /\ pc[r] = "idle" /\ nlist[r] \in Nlists
  BY OnRank DEF setRebuildCheckDelay, AllAt, TypesOn
<1>2. /\ nlist' = [r \in Ranks |-> l(r)] /\ delay' = every
      /\ UNCHANGED <<pc, ret, checker, now, end, tuner, dist_check, comm, force, world>>
  BY DEF setRebuildCheckDelay
<1>3. Plan.end = end /\ Plan'.end = end
  BY Zenon, <1>2 DEF Plan
<1>4. ASSUME NEW r \in Ranks
      PROVE  /\ l(r) \in Nlists /\ l(r).force_update = TRUE
             /\ l(r).rcut_changed = nlist[r].rcut_changed
             /\ l(r).last_checked = nlist[r].last_checked
             /\ l(r).last_updated = nlist[r].last_updated
             /\ l(r).last_computed = nlist[r].last_computed
  BY ZenonT(30), <1>1, NlistFields
<1> HIDE DEF l
<1>5. ASSUME NEW r \in Ranks PROVE TypesOn(r)'
  BY ZenonT(30), <1>1, <1>2, <1>4 DEF TypesOn, world
<1>6. ASSUME NEW r \in Ranks PROVE SoundOn(r)'
  BY ZenonT(30), <1>1, <1>2, <1>3, <1>4
  DEF SoundOn, Sound, Clocks, Flags, GhostsFollow, CutOffFollows, OrderFollows, MovesFollow,
      ForcesFollow, Requested, world
<1>7. ASSUME NEW r \in Ranks, NEW s \in Ranks
      PROVE  /\ pc'[r] = pc'[s] /\ ret'[r] = ret'[s] /\ checker'[r] = checker'[s]
             /\ now'[r] = now'[s] /\ comm'[r] = comm'[s] /\ nlist'[r] = nlist'[s]
             /\ force'[r] = force'[s]
  <2>1. /\ pc[r] = pc[s] /\ ret[r] = ret[s] /\ checker[r] = checker[s] /\ now[r] = now[s]
        /\ comm[r] = comm[s] /\ nlist[r] = nlist[s] /\ force[r] = force[s]
    BY Zenon, <1>1, Together
  <2>2. l(r) = l(s)
    BY <2>1 DEF l
  <2> QED
    BY Zenon, <1>2, <2>1, <2>2
<1>8. Maps'
  <2>1. PICK r \in Ranks : TRUE
    BY SMTT(30), TimeStepAssumption
  <2> QED
    BY Zenon, <1>2, <2>1, OnRank DEF Maps, world
<1> QED
  BY ZenonT(30), <1>2, <1>5, <1>6, <1>7, <1>8, AllRanks, ScriptTypes

\* The script switches the distance check between runs.
LEMMA setDistCheckStep ==
  ASSUME IInv, NEW check \in BOOLEAN, setDistCheck(check)
  PROVE  IInv'
<1>1. ASSUME NEW r \in Ranks PROVE TypesOn(r) /\ SoundOn(r) /\ pc[r] = "idle"
  BY Zenon, OnRank DEF setDistCheck, AllAt
<1>2. /\ dist_check' = check
      /\ UNCHANGED <<pc, ret, checker, now, end, tuner, delay, comm, nlist, force, world>>
  BY DEF setDistCheck
<1>3. Plan.end = end /\ Plan'.end = end /\ Plan.delay = delay /\ Plan'.delay = delay
  BY <1>2 DEF Plan
<1>4. ASSUME NEW r \in Ranks PROVE TypesOn(r)'
  BY Zenon, <1>1, <1>2 DEF TypesOn, world
<1>5. ASSUME NEW r \in Ranks PROVE SoundOn(r)'
  BY ZenonT(30), <1>1, <1>2, <1>3
  DEF SoundOn, Sound, Clocks, Flags, GhostsFollow, CutOffFollows, OrderFollows, MovesFollow,
      ForcesFollow, Requested, world
<1>6. ASSUME NEW r \in Ranks, NEW s \in Ranks
      PROVE  /\ pc'[r] = pc'[s] /\ ret'[r] = ret'[s] /\ checker'[r] = checker'[s]
             /\ now'[r] = now'[s] /\ comm'[r] = comm'[s] /\ nlist'[r] = nlist'[s]
             /\ force'[r] = force'[s]
  BY ZenonT(30), <1>1, <1>2, Together
<1>7. Maps'
  <2>1. PICK r \in Ranks : TRUE
    BY TimeStepAssumption
  <2> QED
    BY <1>2, <2>1, OnRank DEF Maps, world
<1> QED
  BY ZenonT(30), <1>2, <1>4, <1>5, <1>6, <1>7, AllRanks, ScriptTypes

-----------------------------------------------------------------------------
(***************************************************************************)
(* The invariant holds, and what follows from it.                          *)
(***************************************************************************)

\* Before the first run.
LEMMA InitIInv ==
  Init => IInv
<1> SUFFICES ASSUME Init PROVE IInv
  BY Zenon
<1>1. TypeOK
  BY TimeStepAssumption DEF Init, TypeOK, Labels
<1>2. ASSUME NEW r \in Ranks, NEW s \in Ranks PROVE BoundFor(r) = BoundFor(s)
  BY Zenon DEF Init, BoundFor
<1>3. ASSUME NEW r \in Ranks PROVE SoundOn(r)
  <2>1. Plan.end = 0
    BY DEF Init, Plan
  <2> QED
    BY <2>1
    DEF Init, SoundOn, Sound, Clocks, Flags, GhostsFollow, CutOffFollows, OrderFollows,
        MovesFollow, ForcesFollow, Requested
<1> QED
  BY <1>1, <1>2, <1>3 DEF IInv, Lockstep

\* A step of any rank, a collective or the script keeps the invariant.
LEMMA NextIInv ==
  IInv /\ [Next]_vars => IInv'
<1> SUFFICES ASSUME IInv, [Next]_vars PROVE IInv'
  BY Zenon
<1>1. ASSUME NEW r \in Ranks, RankStep(r) PROVE IInv'
  BY ZenonT(30), <1>1, startRunStep, runStepStep, applySortOrderStep, integrateStep,
     communicateStep,
     peekUpdateStep, decideStep, communicatedStep, computeNetForceStep, nlistComputeStep,
     buildNlistStep, computeForcesStep DEF RankStep
<1>2. ASSUME Collective PROVE IInv'
  BY ZenonT(30), <1>2, distanceCheckStep, updateGhostsStep, migrateParticlesStep DEF Collective
<1>3. ASSUME Script PROVE IInv'
  BY ZenonT(30), <1>3, runBegins, setRebuildCheckDelayStep, setDistCheckStep DEF Script
<1>4. ASSUME UNCHANGED vars PROVE IInv'
  <2>1. /\ pc' = pc /\ ret' = ret /\ checker' = checker /\ now' = now /\ comm' = comm
        /\ nlist' = nlist /\ force' = force /\ UNCHANGED script /\ UNCHANGED world
    BY Zenon, <1>4 DEF vars
  <2>2. end' = end /\ tuner' = tuner /\ delay' = delay /\ dist_check' = dist_check /\ Plan' = Plan
    BY Zenon, <2>1 DEF script, Plan
  <2>3. TypeOK'
    BY Zenon, <2>1, <2>2 DEF IInv, TypeOK, world
  <2>4. Lockstep'
    <3>1. ASSUME NEW r \in Ranks PROVE BoundFor(r)' = BoundFor(r)
      BY Zenon, <2>1, <2>2 DEF BoundFor
    <3> QED
      BY Zenon, <3>1 DEF IInv, Lockstep
  <2>5. ASSUME NEW r \in Ranks PROVE SoundOn(r)'
    BY ZenonT(30), <2>1, <2>2 DEF IInv, SoundOn, world
  <2> QED
    BY ZenonT(30), <2>3, <2>4, <2>5 DEF IInv
<1> QED
  BY Zenon, <1>1, <1>2, <1>3, <1>4 DEF Next

\* The invariant holds in every state.
LEMMA IInvHolds ==
  Spec => []IInv
  BY InitIInv, NextIInv, PTL DEF Spec

\* Ranks that wait for each other wait at the same place, in the same step and
\* for the same caller: the decisions of communicate() and needsUpdating(),
\* which each rank takes alone, agree on any number of ranks.
THEOREM CollectivesAgree ==
  Spec => []CollectivesMatch
<1>1. IInv => CollectivesMatch
  <2> SUFFICES ASSUME IInv PROVE CollectivesMatch
    BY Zenon
  <2>1. TypeOK
    BY Zenon DEF IInv
  <2>2. ASSUME NEW r \in Ranks, NEW s \in Ranks,
               {pc[r], pc[s]} \subseteq Collectives \cup {"idle"}
        PROVE  pc[r] = pc[s] /\ now[r] = now[s] /\ ret[r] = ret[s] /\ checker[r] = checker[s]
    <3>1. pc[r] \in Collectives \cup {"idle"} /\ pc[s] \in Collectives \cup {"idle"}
      BY Zenon, <2>2
    <3> QED
      BY Zenon, <3>1, Together
  <2> QED
    BY <2>1, <2>2 DEF CollectivesMatch
<1> QED
  BY <1>1, IInvHolds, PTL

\* Forces are computed from a list of the current particle order, with ghosts
\* at their current positions, whoever clears the rebuild flag first
\* (Communicator::communicate or NeighborList::compute).
THEOREM ListsAreInOrder ==
  Spec => []ForcesUseCurrentIndices
<1>1. IInv => ForcesUseCurrentIndices
  <2>1. ASSUME IInv, NEW r \in Ranks, pc[r] = "computeForces"
        PROVE  ~reordered[r] /\ ghosts_current[r]
    BY ZenonT(30), <2>1 DEF IInv, SoundOn, Sound, OrderFollows, GhostsFollow
  <2> QED
    BY SMTT(30), <2>1 DEF ForcesUseCurrentIndices
<1> QED
  BY <1>1, IInvHolds, PTL

\* The distance check never runs on indices that have been reordered
\* (NeighborList::distanceCheck).
THEOREM ChecksCompareSameParticles ==
  Spec => []DistanceCheckComparesSameParticles
<1>1. IInv => DistanceCheckComparesSameParticles
  <2>1. ASSUME IInv, NEW r \in Ranks, pc[r] = "distanceCheck" PROVE ~reordered[r]
    BY Zenon, <2>1 DEF IInv, SoundOn, Sound, OrderFollows
  <2> QED
    BY SMTT(30), <2>1 DEF DistanceCheckComparesSameParticles
<1> QED
  BY <1>1, IInvHolds, PTL

\* NeighborList::compute never finds a changed cut-off.
THEOREM CutOffsAreFresh ==
  Spec => []RCutIsFresh
<1>1. IInv => RCutIsFresh
  <2>1. ASSUME IInv, NEW r \in Ranks, pc[r] = "nlist" PROVE ~nlist[r].rcut_changed
    BY Zenon, <2>1 DEF IInv, SoundOn, Sound, CutOffFollows
  <2> QED
    BY SMTT(30), <2>1 DEF RCutIsFresh
<1> QED
  BY <1>1, IInvHolds, PTL

\* A step ends with the forces of its positions: the once-per-step test of
\* Compute::shouldCompute skips no computation that is needed.
THEOREM ForcesAreCurrent ==
  Spec => []StepsEndWithCurrentForces
<1>1. IInv => StepsEndWithCurrentForces
  <2>1. ASSUME IInv, NEW r \in Ranks, pc[r] = "loop" PROVE forces_current[r]
    BY Zenon, <2>1 DEF IInv, SoundOn, Sound, ForcesFollow
  <2> QED
    BY SMTT(30), <2>1 DEF StepsEndWithCurrentForces
<1> QED
  BY <1>1, IInvHolds, PTL

\* Where a call of communicate leads.
LEMMA CommunicatesParts ==
  ASSUME NEW rt, NEW c, NEW t, NEW m, NEW n, NEW f
  PROVE  /\ Communicates(rt, c, t, m, n, f)[1] # "idle"
         /\ Communicates(rt, c, t, m, n, f)[2] = rt
         /\ Communicates(rt, c, t, m, n, f)[4] = t
         /\ Communicates(rt, c, t, m, n, f)[6] = n
  BY Zenon DEF Communicates

\* Where the head of the loop leads, with the step and the list of the
\* collective L that a rank at step t with the list n is bound for.
Heads(S, t, n, L) ==
  \/ t = S.end /\ L[1] = "idle" /\ L[4] = t /\ L[6] = n
  \/ /\ t # S.end /\ S.tuner[t] = "none"
     /\ L[1] # "idle" /\ L[2] = "computeNetForce" /\ L[4] = t + 1 /\ L[6] = n
  \/ /\ t # S.end /\ S.tuner[t] = "NeighborListBuffer"
     /\ L[1] # "idle" /\ L[2] = "computeNetForce" /\ L[4] = t + 1 /\ L[6] = Widened(n)
  \/ t # S.end /\ L[1] # "idle" /\ L[2] = "applySortOrder" /\ L[4] = t /\ L[6] = n

\* The head of the loop leads to the end of the run, to the next step or to the
\* sort of the particles.
LEMMA LoopsParts ==
  ASSUME NEW S, NEW rt, NEW c, NEW t, NEW m, NEW n, NEW f
  PROVE  Heads(S, t, n, Loops(S, rt, c, t, m, n, f))
<1> DEFINE L == Loops(S, rt, c, t, m, n, f)
<1>1. CASE t = S.end
  <2>1. L = <<"idle", rt, c, t, m, n, f>>
    BY Zenon, <1>1 DEF Loops
  <2> QED
    BY SMTT(30), <1>1, <2>1 DEF Heads
<1>2. CASE t # S.end /\ S.tuner[t] = "none"
  <2>1. L = Communicates("computeNetForce", c, t + 1, m, n, f)
    BY Zenon, <1>2 DEF Loops, Integrates
  <2> HIDE DEF L
  <2>2. L[1] # "idle" /\ L[2] = "computeNetForce" /\ L[4] = t + 1 /\ L[6] = n
    BY ONLY SMTT(30), <2>1, CommunicatesParts
  <2> QED
    BY ZenonT(30), <1>2, <2>2 DEF Heads, L
<1>3. CASE t # S.end /\ S.tuner[t] = "NeighborListBuffer"
  <2>1. L = Communicates("computeNetForce", c, t + 1, m, Widened(n), f)
    BY Zenon, <1>3 DEF Loops, Integrates
  <2> HIDE DEF L
  <2>2. L[1] # "idle" /\ L[2] = "computeNetForce" /\ L[4] = t + 1 /\ L[6] = Widened(n)
    BY ONLY SMTT(30), <2>1, CommunicatesParts
  <2> QED
    BY ZenonT(30), <1>3, <2>2 DEF Heads, L
<1>4. CASE t # S.end /\ S.tuner[t] # "none" /\ S.tuner[t] # "NeighborListBuffer"
  <2>1. L = Communicates("applySortOrder", c, t, forceMigrate(m), n, f)
    BY <1>4 DEF Loops
  <2> HIDE DEF L
  <2>2. L[1] # "idle" /\ L[2] = "applySortOrder" /\ L[4] = t /\ L[6] = n
    BY ONLY SMTT(30), <2>1, CommunicatesParts
  <2> QED
    BY ZenonT(30), <1>4, <2>2 DEF Heads, L
<1> QED
  BY ZenonT(30), <1>1, <1>2, <1>3, <1>4

\* Ranks that are about to compute forces have the same step and the same last
\* update of the list.
LEMMA SameList ==
  ASSUME IInv, NEW r \in Ranks, NEW s \in Ranks,
         pc[r] = "computeForces", pc[s] = "computeForces"
  PROVE  now[r] = now[s] /\ nlist[r].last_updated = nlist[s].last_updated
<1> DEFINE L(q) == Loops(Plan, ret[q], checker[q], now[q], comm[q], nlist[q], force[q])
<1>1. L(r) = L(s)
  <2>1. BoundFor(r) = BoundFor(s)
    BY Zenon DEF IInv, Lockstep
  <2>2. BoundFor(r) = L(r)
    BY SMTT(30), AtLoop DEF BoundFor
  <2>3. BoundFor(s) = L(s)
    BY AtLoop DEF BoundFor
  <2> QED
    BY ZenonT(30), <2>1, <2>2, <2>3
<1>2. /\ now[r] \in 0..MaxStep /\ now[s] \in 0..MaxStep
      /\ nlist[r] \in Nlists /\ nlist[s] \in Nlists
  BY Zenon, OnRank DEF TypesOn
<1>3. /\ Widened(nlist[r]).last_updated = nlist[r].last_updated
      /\ Widened(nlist[s]).last_updated = nlist[s].last_updated
  BY ZenonT(30), <1>2, NlistFields
<1>4. Heads(Plan, now[r], nlist[r], L(r)) /\ Heads(Plan, now[s], nlist[s], L(r))
  BY ZenonT(30), <1>1, LoopsParts
<1> HIDE DEF L
<1> QED
  BY <1>2, <1>3, <1>4 DEF Heads

\* A list that misses a pair is used only within rebuild_check_delay steps of
\* its last update, on all ranks (NeighborList::needsUpdating).
THEOREM ListsAreValidBeyondDelay ==
  Spec => []InvalidListOnlyWithinDelay
<1>1. IInv => InvalidListOnlyWithinDelay
  <2>1. ASSUME IInv, NEW r \in Ranks, NEW s \in Ranks,
               pc[r] = "computeForces", pc[s] = "computeForces", moved[s]
        PROVE  now[r] < nlist[r].last_updated + delay
    <3>1. now[r] = now[s] /\ nlist[r].last_updated = nlist[s].last_updated
      BY SMTT(30), <2>1, SameList
    <3>2. now[s] < nlist[s].last_updated + delay
      BY ZenonT(30), <2>1, ScriptTypes DEF IInv, SoundOn, Sound, MovesFollow
    <3> QED
      BY Zenon, <3>1, <3>2
  <2> QED
    BY <2>1 DEF InvalidListOnlyWithinDelay
<1> QED
  BY <1>1, IInvHolds, PTL

=============================================================================
