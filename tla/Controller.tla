----------------------------- MODULE Controller -----------------------------
(***************************************************************************)
(* The state-owning goroutine of internal/controller: its state and what   *)
(* each inbox message does to it (loop.go).  One operator per handler; a   *)
(* handler fixes the next value of every variable of this module that it   *)
(* changes, and says which it leaves alone.  Where the messages come from  *)
(* is the business of Fleet, which composes the loop with its goroutines,  *)
(* the machine agents, the machines and GitHub.                            *)
(*                                                                         *)
(* The model has one scale set in mode "none" (machine.New refuses         *)
(* "sidecar"): a unit has one part, its runner container.  A unit id also  *)
(* stands for the runner name derived from it and for the runner id GitHub *)
(* gives to that name; both are unique per unit.  Instants are not         *)
(* modelled: what the code decides by comparing clocks is a parameter of   *)
(* the handler (age past a limit) or a set (what had been reported when a  *)
(* snapshot was taken).                                                    *)
(***************************************************************************)
EXTENDS Plan, Functions

CONSTANTS Units,       \* the ids NewUnitID may issue, and those of leftovers
          Machines,    \* the machines of the scale set
          MinRunners,  \* scaleSets[].minRunners
          MaxRunners   \* scaleSets[].maxRunners

ASSUME ControllerAssumption ==
  /\ IsFiniteSet(Units)
  /\ IsFiniteSet(Machines) /\ Machines # {}
  /\ MinRunners \in Nat
  /\ MaxRunners \in Nat

VARIABLES
  \* Controller.units
  state,         \* state[u]: Unit.State, or Absent when u is not in the map
  mach,          \* mach[u]: Unit.Machine, which is where its container is
  parts,         \* parts[u]: Unit.Parts has the runner container
  busy,          \* the units with Unit.Busy
  completed,     \* the units with Unit.Completed
  fresh,         \* the ids NewUnitID has not issued yet
  \* what is kept per unit id or runner name beside it
  runnerIDs,     \* the units whose runner id is known
  startedAt,     \* the units whose start was reported (dom of startedAt)
  cleaning,      \* a cleanupUnit goroutine is under way
  checking,      \* the unit is part of the registration check under way
  checkPass,     \* a registration check pass is under way
  pending,       \* pendingCompletion: the runner names in it
  pendingIDs,    \* those of them whose entry holds the runner id
  completedIDs,  \* runner ids of completions that matched nothing yet
  \* machines and scale set
  health,        \* health[m]: Machine.Health
  effMax,        \* effMax[m]: Machine.EffectiveMax
  capacity,      \* scaleSetState.capacity
  waiting,       \* awaitInitialSync: the machines still waited for
  \* the goroutines the loop spawns, and the result each sends back
  starter,       \* starter[u]: where startUnit is
  cleaner,       \* cleaner[u]: where cleanupUnit is
  checkQ         \* the units checkRegistrations has yet to ask about

unitVars == <<state, mach, parts, busy, completed, fresh>>
jobVars == <<runnerIDs, pending, pendingIDs, completedIDs>>
checkVars == <<checking, checkPass, checkQ>>
cleanVars == <<cleaning, cleaner>>
machineVars == <<health, effMax, capacity, waiting>>
loopVars == <<unitVars, jobVars, checkVars, cleanVars, machineVars,
              startedAt, starter>>

\* GenerateJIT, Create, CopyIn and Start, the two steps of a rollback, and the
\* results; GetRunner and RemoveRunner, rm, and the results.
Launching == {"jit", "create", "start"}
StarterPlaces ==
  Launching \cup {"idle", "undoReg", "undoRm", "ok", "err", "errNoID"}
CleanerPlaces == {"idle", "reg", "rm", "ok", "err"}

\* The types.  capacity has none here: CapacityCurrent says what it is.
LoopTypeOK ==
  /\ state \in [Units -> UnitStates]
  /\ mach \in [Units -> Machines]
  /\ parts \in [Units -> BOOLEAN]
  /\ busy \subseteq Units /\ completed \subseteq Units /\ fresh \subseteq Units
  /\ runnerIDs \subseteq Units /\ startedAt \subseteq Units
  /\ cleaning \subseteq Units /\ checking \subseteq Units
  /\ checkPass \in BOOLEAN
  /\ pending \subseteq Units /\ pendingIDs \subseteq pending
  /\ completedIDs \subseteq Units
  /\ health \in [Machines -> Healths]
  /\ effMax \in [Machines -> Nat]
  /\ waiting \subseteq Machines
  /\ starter \in [Units -> StarterPlaces]
  /\ cleaner \in [Units -> CleanerPlaces]
  /\ checkQ \subseteq Units

Known(u) == state[u] # "Absent"

\* syncing: no unit is created before every reached machine has reported.
syncing == waiting # {}

(***************************************************************************)
(* What a resynchronisation message carries.  Empty is "no message".       *)
(***************************************************************************)
RunnerSights == {"none", "dead", "alive"}
NoSync == [on |-> FALSE, runner |-> [u \in Units |-> "none"],
           started |-> {}, info |-> 0]

---------------------------------------------------------------------------
(***************************************************************************)
(* Steps shared by the handlers.                                           *)
(***************************************************************************)

\* Wrong: only a unit whose registration was seen is counted.
NewlyPending_RunningOnly(S, done) ==
  {u \in S : state[u] = "Running" /\ u \in busy /\ u \notin done}

\* markDying counts a busy unit whose completion has not been seen: its job
\* is still in the statistics.  done is Unit.Completed at that moment.
NewlyPending(S, done) ==
  {u \in S : state[u] \in LiveStates /\ u \in busy /\ u \notin done}

\* The pendingCompletion entries p (those with an id: pIDs), with the units of
\* dead put in under the runner ids known as ids; an older entry is replaced.
AddPending(p, pIDs, dead, ids) ==
  /\ pending' = p \cup dead
  /\ pendingIDs' = (pIDs \ dead) \cup (dead \cap ids)

\* Wrong: the container is removed before the registration.
StartCleanup_ContainerFirst(S, hl) ==
  LET go == {u \in S \ cleaning : hl[mach[u]] = "Healthy"}
  IN  /\ cleaning' = cleaning \cup go
      /\ cleaner' = [u \in Units |-> IF u \in go THEN "rm" ELSE cleaner[u]]

\* startCleanup for the units of S, hl being the health in force: skipped
\* while a cleanup is under way and while the machine is not healthy.
StartCleanup(S, hl) ==
  LET go == {u \in S \ cleaning : hl[mach[u]] = "Healthy"}
  IN  /\ cleaning' = cleaning \cup go
      /\ cleaner' = [u \in Units |-> IF u \in go THEN "reg" ELSE cleaner[u]]

\* The order in which createUnits picked the machines of the units in new is
\* one that Spread allows: each choice sees the units placed before it.
PlacedBySpread(new, at, occ) ==
  \E q \in [1..Cardinality(new) -> new] :
    /\ IsInjective(q)
    /\ \A i \in DOMAIN q :
         at[q[i]] \in
           Spread(health, effMax,
                  [m \in Machines |->
                     occ[m] + Cardinality({j \in 1..(i-1) : at[q[j]] = m})])

\* Wrong: units are created while machines have yet to report.
Creatable_WhileSyncing(n, occ) ==
  AtLeastZero(Lesser(n, Lesser(FreeSlots(health, effMax, occ),
                               Cardinality(fresh))))

\* How many of n wanted units createUnits makes: as many as there are free
\* slots (and fresh ids: the bound of the model), and none while syncing.
Creatable(n, occ) ==
  IF syncing THEN 0
  ELSE AtLeastZero(Lesser(n, Lesser(FreeSlots(health, effMax, occ),
                                    Cardinality(fresh))))

\* The units of new are there, on the machines that at gives, and startUnit
\* is spawned for each of them.
Created(new, at, st, pt) ==
  /\ state' = [u \in Units |-> IF u \in new THEN "Creating" ELSE st[u]]
  /\ parts' = [u \in Units |-> IF u \in new THEN FALSE ELSE pt[u]]
  /\ mach' = [u \in Units |-> IF u \in new THEN at[u] ELSE mach[u]]
  /\ starter' = [u \in Units |-> IF u \in new THEN "jit" ELSE starter[u]]
  /\ fresh' = fresh \ new

\* createUnits(n), from unit states st and parts pt.  Each new unit gets a
\* startUnit goroutine.
CreateUnits(n, st, pt) ==
  LET occ == [m \in Machines |-> Occupied(st, mach, pt, m)]
  IN  \E new \in SUBSET fresh : \E at \in [new -> Machines] :
        /\ Cardinality(new) = Creatable(n, occ)
        /\ PlacedBySpread(new, at, occ)
        /\ Created(new, at, st, pt)

\* Wrong: the units being launched are not counted.
Missing_StartedOnly(n, st) ==
  n - Cardinality({u \in Units : st[u] \in {"Starting", "Running"}})

\* How many units are missing from n, the units being launched counted in.
Missing(n, st) == n - Cardinality(Running(st))

\* recomputeCapacity / recomputeAll, for the health and limits in force.
RecomputeCapacity(hl, em) == capacity' = Capacity(MaxRunners, hl, em)

\* Wrong: nothing is learned of a unit that is no longer there.
Learned_KnownOnly(u) ==
  IF ~Known(u)
  THEN [ids |-> runnerIDs, pend |-> pending, pendIDs |-> pendingIDs,
        done |-> completed]
  ELSE [ids |-> runnerIDs \cup {u},
        pend |-> IF u \in completedIDs THEN pending \ {u} ELSE pending,
        pendIDs |-> IF u \in completedIDs THEN pendingIDs \ {u}
                    ELSE pendingIDs \cup (pending \cap {u}),
        done |-> IF u \in completedIDs /\ state[u] \in LiveStates
                 THEN completed \cup {u} ELSE completed]

\* learnRunnerID: the unit if it is still there, the pending entry and a
\* completion that came before the id was known.
Learned(u) ==
  [ids |-> IF Known(u) THEN runnerIDs \cup {u} ELSE runnerIDs,
   pend |-> IF u \in completedIDs THEN pending \ {u} ELSE pending,
   pendIDs |-> IF u \in completedIDs THEN pendingIDs \ {u}
               ELSE pendingIDs \cup (pending \cap {u}),
   done |-> IF u \in completedIDs /\ state[u] \in LiveStates
            THEN completed \cup {u} ELSE completed]

---------------------------------------------------------------------------
(***************************************************************************)
(* The handlers.                                                           *)
(***************************************************************************)

\* msgDesired: the only place that creates units for assigned jobs.
HandleDesired(totalAssigned) ==
  LET assigned == AtLeastZero(totalAssigned - Cardinality(pending))
      desired == Desired(Capacity(MaxRunners, health, effMax),
                         MinRunners, assigned)
  IN  /\ RecomputeCapacity(health, effMax)
      /\ CreateUnits(Missing(desired, state), state, parts)
      /\ UNCHANGED <<busy, completed, jobVars, checkVars, cleanVars,
                     startedAt, health, effMax, waiting>>

\* What handleEvent refills to: minRunners, cut at capacity.
Refill == Desired(Capacity(MaxRunners, health, effMax), MinRunners, 0)

\* msgEvent, the die of u's runner container: dying, cleanup, and the
\* minRunners refill.  Ignored for an unknown or already dying unit.
HandleEvent(u) ==
  \/ /\ state[u] \notin LiveStates
     /\ UNCHANGED loopVars
  \/ /\ state[u] \in LiveStates
     /\ LET st == [state EXCEPT ![u] = "Dying"]
            pt == [parts EXCEPT ![u] = TRUE]
        IN  CreateUnits(Missing(Refill, st), st, pt)
     /\ AddPending(pending, pendingIDs, NewlyPending({u}, completed), runnerIDs)
     /\ StartCleanup({u}, health)
     /\ UNCHANGED <<busy, completed, runnerIDs, completedIDs, checkVars,
                    startedAt, machineVars>>

\* Wrong: the capacity stays as it was.
HandleHealth_NoRecompute(m, h) ==
  /\ health' = IF health[m] = "Failed" THEN health
               ELSE [health EXCEPT ![m] = h]
  /\ waiting' = waiting \ {m}
  /\ UNCHANGED <<effMax, capacity, unitVars, jobVars, checkVars, cleanVars,
                 startedAt, starter>>

\* msgHealth with Unhealthy or Failed; Failed is final.  awaitInitialSync
\* stops waiting for the machine either way.
HandleHealth(m, h) ==
  /\ health' = IF health[m] = "Failed" THEN health
               ELSE [health EXCEPT ![m] = h]
  /\ IF health[m] = "Failed" THEN capacity' = capacity
     ELSE RecomputeCapacity(health', effMax)
  /\ waiting' = waiting \ {m}
  /\ UNCHANGED <<effMax, unitVars, jobVars, checkVars, cleanVars,
                 startedAt, starter>>

\* A unit whose start is under way, or was reported after snapshot s was
\* taken, is not judged by s.
InFlight(u, s) ==
  \/ state[u] = "Creating"
  \/ Known(u) /\ u \in startedAt /\ u \notin s.started

VerdictOf(u, s) ==
  Verdict(IF InFlight(u, s) THEN "Creating" ELSE state[u], s.runner[u], FALSE)

\* The pendingCompletion entries a resynchronisation of m throws away.
Purged(m) == {u \in pending : mach[u] = m}

\* msgResynced: the snapshot has authority over the parts of the machine's
\* units; the machine is healthy again, with the limit its info gives; dead
\* and vanished units are removed, living unknown ones adopted.
HandleResynced(m, s) ==
  LET here == {u \in Units : mach[u] = m}
      seen == {u \in here : Known(u) /\ ~InFlight(u, s)}
      adopt == {u \in here : VerdictOf(u, s) = "Adopt"}
      remove == {u \in here : VerdictOf(u, s) = "RemoveUnit"}
      kept == pending \ Purged(m)
      dying == NewlyPending(remove, completed)
      hl == IF health[m] = "Failed" THEN health
            ELSE [health EXCEPT ![m] = "Healthy"]
  IN  /\ state' = [u \in Units |-> IF u \in adopt THEN "Starting"
                                   ELSE IF u \in remove THEN "Dying"
                                   ELSE state[u]]
      /\ parts' = [u \in Units |-> IF u \in seen \cup adopt \cup remove
                                   THEN s.runner[u] # "none" ELSE parts[u]]
      /\ AddPending(kept, pendingIDs \cap kept, dying, runnerIDs)
      /\ health' = hl
      /\ effMax' = IF health[m] = "Failed" THEN effMax
                   ELSE [effMax EXCEPT ![m] = s.info]
      /\ RecomputeCapacity(hl, effMax')
      /\ StartCleanup(remove, hl)
      /\ waiting' = waiting \ {m}
      /\ UNCHANGED <<mach, busy, completed, fresh, runnerIDs, completedIDs,
                     checkVars, startedAt, starter>>

\* Wrong: a failed cleanup is not tried again.
Retried_Never(late) == late

\* The units whose cleanup a tick starts: those it times out, and those that
\* are dying already (a retry, if no cleanup is under way).
Retried(late) == late \cup {u \in Units : state[u] = "Dying"}

\* Wrong: entries are kept for ever.
Unexpired_All(entries, old) == entries

\* The entries a tick keeps, of which old are past pendingExpiry.
Unexpired(entries, old) == entries \ old

\* msgTick.  late are the Creating units past startTimeout, oldPending and
\* oldIDs the entries past pendingExpiry.
HandleTick(late, oldPending, oldIDs) ==
  LET toCheck == {u \in Units : state[u] \in {"Starting", "Running"}} \ checking
      dead == NewlyPending(late, completed)
  IN  /\ ~syncing
      /\ state' = [u \in Units |-> IF u \in late THEN "Dying" ELSE state[u]]
      /\ parts' = [u \in Units |-> IF u \in late THEN TRUE ELSE parts[u]]
      /\ StartCleanup(Retried(late), health)
      /\ IF checkPass \/ toCheck = {}
         THEN UNCHANGED checkVars
         ELSE /\ checkPass' = TRUE
              /\ checking' = checking \cup toCheck
              /\ checkQ' = toCheck
      /\ AddPending(Unexpired(pending, oldPending),
                    Unexpired(pendingIDs, oldPending), dead, runnerIDs)
      /\ completedIDs' = Unexpired(completedIDs, oldIDs)
      /\ UNCHANGED <<mach, busy, completed, fresh, runnerIDs, startedAt,
                     machineVars, starter>>

\* Wrong: after an error the unit is never checked again.
CheckedOff_UnlessError(u, res) ==
  IF res = "err" THEN checking ELSE checking \ {u}

\* The check of u is over, whatever it found.
CheckedOff(u, res) == checking \ {u}

\* msgRegistration: found, gone or err; old is "past grace".  The id is
\* learned before anything else, also for a unit that is no longer there.
HandleRegistration(u, res, old) ==
  LET l == IF res = "found" THEN Learned(u)
           ELSE [ids |-> runnerIDs, pend |-> pending, pendIDs |-> pendingIDs,
                 done |-> completed]
      dying == IF \/ state[u] = "Running" /\ res = "gone"
                  \/ state[u] = "Starting" /\ res = "gone" /\ old
               THEN {u} ELSE {}
      dead == NewlyPending(dying, l.done)
  IN  /\ checking' = CheckedOff(u, res)
      /\ runnerIDs' = l.ids
      /\ completed' = l.done
      /\ completedIDs' = IF res = "found" THEN completedIDs \ {u}
                         ELSE completedIDs
      /\ AddPending(l.pend, l.pendIDs, dead, l.ids)
      /\ state' = IF state[u] = "Starting" /\ res = "found"
                  THEN [state EXCEPT ![u] = "Running"]
                  ELSE [v \in Units |->
                          IF v \in dying THEN "Dying" ELSE state[v]]
      /\ StartCleanup(dying, health)
      /\ UNCHANGED <<mach, parts, busy, fresh, checkPass, checkQ, startedAt,
                     machineVars, starter>>

\* msgCheckPassDone.
HandleCheckPassDone ==
  /\ checkPass' = FALSE
  /\ UNCHANGED <<unitVars, jobVars, cleanVars, machineVars, startedAt,
                 starter, checking, checkQ>>

\* Wrong: a failed launch is taken to leave nothing.
LeftByStart_OnlyIfOk(u, res) == res = "ok"

\* Whether a part of u may be on its machine once its launch is over: also
\* when it failed, for the rollback may have failed too.
LeftByStart(u, res) == TRUE

\* msgUnitStarted: ok, err, or errNoID when GenerateJIT itself failed.  A
\* unit that is no longer Creating keeps its state, but its id is learned.
HandleUnitStarted(u, res) ==
  LET l == IF res # "errNoID" THEN Learned(u)
           ELSE [ids |-> runnerIDs, pend |-> pending, pendIDs |-> pendingIDs,
                 done |-> completed]
      dying == IF state[u] = "Creating" /\ res # "ok" THEN {u} ELSE {}
      dead == NewlyPending(dying, l.done)
  IN  /\ starter' = [starter EXCEPT ![u] = "idle"]
      /\ runnerIDs' = l.ids
      /\ completed' = l.done
      /\ completedIDs' = IF res # "errNoID" THEN completedIDs \ {u}
                         ELSE completedIDs
      /\ AddPending(l.pend, l.pendIDs, dead, l.ids)
      /\ IF state[u] = "Creating"
         THEN /\ startedAt' = startedAt \cup {u}
              /\ parts' = [parts EXCEPT ![u] = LeftByStart(u, res)]
              /\ state' = [state EXCEPT ![u] =
                             IF res = "ok" THEN "Starting" ELSE "Dying"]
         ELSE UNCHANGED <<startedAt, parts, state>>
      /\ StartCleanup(dying, health)
      /\ UNCHANGED <<mach, busy, fresh, checkVars, machineVars>>

\* msgJobStarted: busy, also on a unit that is dying already.
HandleJobStarted(u) ==
  /\ busy' = IF Known(u) THEN busy \cup {u} ELSE busy
  /\ UNCHANGED <<state, mach, parts, completed, fresh, jobVars, checkVars,
                 cleanVars, machineVars, startedAt, starter>>

\* Wrong: a completion whose unit is not known yet is dropped.
KeptIDs_Never(u, byName) == completedIDs

\* A completion that matches nothing is kept for the id to be learned.
KeptIDs(u, byName) == IF byName THEN completedIDs ELSE completedIDs \cup {u}

\* msgJobCompleted, by runner name or, when the name is empty, by runner id.
HandleJobCompleted(u, named) ==
  LET found == Known(u) /\ (named \/ u \in runnerIDs)
      byName == named \/ found \/ u \in pendingIDs
  IN  /\ completed' = IF found /\ state[u] \in LiveStates
                      THEN completed \cup {u} ELSE completed
      /\ IF found /\ state[u] \in LiveStates
         THEN UNCHANGED <<pending, pendingIDs>>
         ELSE /\ pending' = IF byName THEN pending \ {u} ELSE pending
              /\ pendingIDs' = IF byName THEN pendingIDs \ {u} ELSE pendingIDs
      /\ completedIDs' = KeptIDs(u, byName)
      /\ UNCHANGED <<state, mach, parts, busy, fresh, runnerIDs, checkVars,
                     cleanVars, machineVars, startedAt, starter>>

\* msgJobCompleted with neither a name nor an id.  It is not kept; but zero is
\* also what an entry has whose runner id is not known, and one such entry is
\* taken for the job's (loop.go:599).
HandleJobCompletedBlank ==
  LET matching == pending \ pendingIDs
  IN  /\ pending' \in IF matching = {} THEN {pending}
                      ELSE {pending \ {u} : u \in matching}
      /\ UNCHANGED <<unitVars, pendingIDs, runnerIDs, completedIDs, checkVars,
                     cleanVars, machineVars, startedAt, starter>>

\* msgSessionStarted: the statistics of the new session are a new baseline.
HandleSessionStarted ==
  /\ pending' = {}
  /\ pendingIDs' = {}
  /\ UNCHANGED <<unitVars, runnerIDs, completedIDs, checkVars, cleanVars,
                 machineVars, startedAt, starter>>

\* The unit is deleted from units, runnerIDs and startedAt.
Forget(u) ==
  /\ state' = [state EXCEPT ![u] = "Absent"]
  /\ parts' = [parts EXCEPT ![u] = FALSE]
  /\ busy' = busy \ {u}
  /\ completed' = completed \ {u}
  /\ runnerIDs' = runnerIDs \ {u}
  /\ startedAt' = startedAt \ {u}

\* Wrong: the unit is forgotten though its cleanup failed.
HandleCleanupDone_IgnoresError(u, res) ==
  /\ cleaning' = cleaning \ {u}
  /\ cleaner' = [cleaner EXCEPT ![u] = "idle"]
  /\ Forget(u)
  /\ UNCHANGED <<mach, fresh, pending, pendingIDs, completedIDs, checkVars,
                 machineVars, starter>>

\* msgCleanupDone: on success the unit is forgotten and its slot is free; on
\* failure it stays Dying, and the next tick tries again.
HandleCleanupDone(u, res) ==
  /\ cleaning' = cleaning \ {u}
  /\ cleaner' = [cleaner EXCEPT ![u] = "idle"]
  /\ \/ res = "ok" /\ Forget(u)
     \/ /\ res # "ok"
        /\ UNCHANGED <<state, parts, busy, completed, runnerIDs, startedAt>>
  /\ UNCHANGED <<mach, fresh, pending, pendingIDs, completedIDs, checkVars,
                 machineVars, starter>>
=============================================================================
