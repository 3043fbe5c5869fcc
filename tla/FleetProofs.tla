----------------------------- MODULE FleetProofs -----------------------------
(***************************************************************************)
(* Proofs about Fleet, for every set of units and machines, every limit    *)
(* and every set of faults.  The types of the handlers are those of        *)
(* ControllerProofs; FleetInvariant goes by way of one predicate,          *)
(* LoopEffect, which holds of every message the loop handles and says all  *)
(* that the rest of the fleet needs to know of it.                         *)
(***************************************************************************)
EXTENDS Fleet, ControllerProofs

(***************************************************************************)
(* What handling a message does to the rest of the fleet.  A cleanup does  *)
(* not get any further by it; no launch begins but that of a unit never    *)
(* heard of, none changes its step, and the unit of one under way stays    *)
(* Creating unless its deadline is over; cleanups are for dying units, and *)
(* what is pending is dead.                                                *)
(***************************************************************************)
LoopEffect ==
  /\ OneCleaner'
  /\ PendingIsDead'
  /\ \A u \in Units :
       /\ cleaner'[u] \in {"rm", "ok"} => cleaner'[u] = cleaner[u]
       /\ starter'[u] = "undoRm" => starter[u] = "undoRm"
       /\ starter'[u] \in Launching =>
            \/ u \in fresh /\ state'[u] = "Creating"
            \/ /\ starter'[u] = starter[u]
               /\ state[u] = "Creating" => state'[u] = "Creating" \/ u \in overdue
  /\ fresh' \subseteq fresh
  /\ \A u \in fresh' :
       state'[u] = "Absent" /\ starter'[u] = "idle" /\ u \notin pending'

\* A cleanup started for dying units keeps OneCleaner and removes nothing yet.
LEMMA StartCleanupEffect ==
  ASSUME LoopTypeOK, OneCleaner, NEW S \in SUBSET Units, NEW hl,
         StartCleanup(S, hl),
         \A u \in S : state'[u] = "Dying",
         \A u \in Units : state[u] = "Dying" => state'[u] = "Dying"
  PROVE  /\ OneCleaner'
         /\ \A u \in Units : cleaner'[u] \in {"rm", "ok"} => cleaner'[u] = cleaner[u]
BY DEF LoopTypeOK, OneCleaner, StartCleanup

\* A handler that leaves units, cleanups and launches alone and adds nothing
\* to pending has no effect in this sense.
LEMMA QuietEffect ==
  ASSUME FleetInvariant, UNCHANGED <<state, starter, cleaner, cleaning, fresh>>,
         pending' \subseteq pending
  PROVE  LoopEffect
BY DEF FleetInvariant, LoopEffect, OneCleaner, PendingIsDead, FreshUnknown

LEMMA DesiredEffect ==
  ASSUME FleetInvariant, NEW n, HandleDesired(n)
  PROVE  LoopEffect
<1>1. PICK new \in SUBSET fresh :
        \E at \in [new -> Machines] : Created(new, at, state, parts)
  BY CreatedUnits DEF HandleDesired
<1>2. PICK at \in [new -> Machines] : Created(new, at, state, parts)
  BY <1>1
<1>3. UNCHANGED <<cleaner, cleaning, pending>>
  BY DEF HandleDesired, cleanVars, jobVars
<1>4. /\ OneCleaner /\ FreshUnknown /\ PendingIsDead
      /\ fresh \subseteq Units /\ pending \subseteq Units /\ cleaning \subseteq Units
  BY DEF FleetInvariant, TypeOK, LoopTypeOK
<1>5. OneCleaner'
  BY <1>2, <1>3, <1>4 DEF Created, OneCleaner, FreshUnknown
<1>6. PendingIsDead'
  BY <1>2, <1>3, <1>4 DEF Created, PendingIsDead, FreshUnknown
<1> QED
  BY <1>2, <1>3, <1>4, <1>5, <1>6 DEF LoopEffect, Created, FreshUnknown, Launching

LEMMA EventEffect ==
  ASSUME FleetInvariant, NEW u \in Units, starter[u] \notin Launching,
         HandleEvent(u)
  PROVE  LoopEffect
<1>1. CASE UNCHANGED loopVars
  BY <1>1, QuietEffect DEF loopVars, unitVars, jobVars, cleanVars
<1>2. CASE ~ UNCHANGED loopVars
  <2> DEFINE st == [state EXCEPT ![u] = "Dying"]
             pt == [parts EXCEPT ![u] = TRUE]
  <2>1. PICK new \in SUBSET fresh :
          \E at \in [new -> Machines] : Created(new, at, st, pt)
    BY <1>2, CreatedUnits DEF HandleEvent
  <2>2. PICK at \in [new -> Machines] : Created(new, at, st, pt)
    BY <2>1
  <2>3. /\ LoopTypeOK /\ OneCleaner /\ FreshUnknown /\ PendingIsDead
        /\ fresh \subseteq Units /\ pending \subseteq Units
    BY DEF FleetInvariant, TypeOK, LoopTypeOK
  <2>4. state[u] \in LiveStates /\ u \notin fresh
    BY <1>2, <2>3 DEF HandleEvent, FreshUnknown, LiveStates
  <2>5. \A v \in Units :
          state'[v] = IF v \in new THEN "Creating"
                      ELSE IF v = u THEN "Dying" ELSE state[v]
    BY <2>2, <2>3 DEF Created, LoopTypeOK
  <2>6. /\ OneCleaner'
        /\ \A v \in Units : cleaner'[v] \in {"rm", "ok"} => cleaner'[v] = cleaner[v]
    <3>1. StartCleanup({u}, health)
      BY <1>2 DEF HandleEvent
    <3>2. state'[u] = "Dying"
      BY <2>4, <2>5
    <3>3. \A v \in Units : state[v] = "Dying" => state'[v] = "Dying"
      BY <2>3, <2>5 DEF FreshUnknown
    <3> QED  BY <2>3, <3>1, <3>2, <3>3, StartCleanupEffect
  <2>7. pending' \subseteq pending \cup {u}
    BY <1>2 DEF HandleEvent, AddPending, NewlyPending
  <2>8. PendingIsDead'
    BY <2>3, <2>4, <2>5, <2>7 DEF PendingIsDead, FreshUnknown, LiveStates
  <2> QED
    BY <2>2, <2>3, <2>4, <2>5, <2>6, <2>7, <2>8
    DEF LoopEffect, Created, FreshUnknown, Launching
<1> QED  BY <1>1, <1>2

LEMMA ResyncedEffect ==
  ASSUME FleetInvariant, NEW m \in Machines, NEW s,
         s.runner \in [Units -> RunnerSights],
         \A u \in fresh : s.runner[u] = "none",
         HandleResynced(m, s)
  PROVE  LoopEffect
<1> DEFINE here == {u \in Units : mach[u] = m}
           adopt == {u \in here : VerdictOf(u, s) = "Adopt"}
           remove == {u \in here : VerdictOf(u, s) = "RemoveUnit"}
           hl == IF health[m] = "Failed" THEN health
                 ELSE [health EXCEPT ![m] = "Healthy"]
<1>1. /\ LoopTypeOK /\ OneCleaner /\ FreshUnknown /\ PendingIsDead
      /\ fresh \subseteq Units /\ pending \subseteq Units
  BY DEF FleetInvariant, TypeOK, LoopTypeOK
<1>2. \A u \in Units : state'[u] = IF u \in adopt THEN "Starting"
                                 ELSE IF u \in remove THEN "Dying"
                                 ELSE state[u]
  BY DEF HandleResynced
<1>3. /\ \A u \in adopt : state[u] = "Absent"
      /\ \A u \in remove : state[u] # "Creating"
  BY <1>1, VerdictFacts
  DEF VerdictOf, InFlight, LoopTypeOK, UnitStates, KnownStates, LiveStates
<1>4. \A u \in fresh : u \notin adopt /\ u \notin remove
  BY <1>1, VerdictFacts
  DEF VerdictOf, InFlight, Known, FreshUnknown, UnitStates
<1>5. /\ OneCleaner'
      /\ \A u \in Units : cleaner'[u] \in {"rm", "ok"} => cleaner'[u] = cleaner[u]
  <2>1. StartCleanup(remove, hl)
    BY DEF HandleResynced
  <2>2. \A u \in remove : state'[u] = "Dying"
    BY <1>2
  <2>3. \A u \in Units : state[u] = "Dying" => state'[u] = "Dying"
    BY <1>2, <1>3
  <2> QED  BY <1>1, <2>1, <2>2, <2>3, StartCleanupEffect
<1>6. pending' = (pending \ here) \cup NewlyPending(remove, completed)
  BY <1>1 DEF HandleResynced, AddPending, Purged
<1>7. PendingIsDead'
  BY <1>1, <1>2, <1>3, <1>6 DEF PendingIsDead, NewlyPending, LiveStates
<1>8. UNCHANGED <<starter, fresh>>
  BY DEF HandleResynced
<1> QED
  BY <1>1, <1>2, <1>3, <1>4, <1>5, <1>6, <1>7, <1>8
  DEF LoopEffect, FreshUnknown, NewlyPending, LiveStates

LEMMA TickEffect ==
  ASSUME FleetInvariant, NEW late \in SUBSET overdue,
         \A u \in late : state[u] = "Creating",
         NEW oldPending, NEW oldIDs, HandleTick(late, oldPending, oldIDs)
  PROVE  LoopEffect
<1>1. /\ LoopTypeOK /\ OneCleaner /\ FreshUnknown /\ PendingIsDead
      /\ fresh \subseteq Units /\ pending \subseteq Units /\ overdue \subseteq Units
  BY DEF FleetInvariant, TypeOK, LoopTypeOK
<1>2. \A u \in Units : state'[u] = IF u \in late THEN "Dying" ELSE state[u]
  BY DEF HandleTick
<1>3. /\ OneCleaner'
      /\ \A u \in Units : cleaner'[u] \in {"rm", "ok"} => cleaner'[u] = cleaner[u]
  <2>1. StartCleanup(Retried(late), health) /\ Retried(late) \in SUBSET Units
    BY <1>1 DEF HandleTick, Retried
  <2>2. \A u \in Retried(late) : state'[u] = "Dying"
    BY <1>1, <1>2 DEF Retried
  <2>3. \A u \in Units : state[u] = "Dying" => state'[u] = "Dying"
    BY <1>2
  <2> QED  BY <1>1, <2>1, <2>2, <2>3, StartCleanupEffect
<1>4. pending' \subseteq pending \cup late
  BY DEF HandleTick, Unexpired, AddPending, NewlyPending
<1>5. PendingIsDead'
  BY <1>1, <1>2, <1>4 DEF PendingIsDead, LiveStates
<1>6. UNCHANGED <<starter, fresh>>
  BY DEF HandleTick
<1> QED
  BY <1>1, <1>2, <1>3, <1>4, <1>5, <1>6 DEF LoopEffect, FreshUnknown

LEMMA RegistrationEffect ==
  ASSUME FleetInvariant, NEW u \in Units, NEW res, NEW old \in BOOLEAN,
         HandleRegistration(u, res, old)
  PROVE  LoopEffect
<1> DEFINE dying == IF \/ state[u] = "Running" /\ res = "gone"
                       \/ state[u] = "Starting" /\ res = "gone" /\ old
                    THEN {u} ELSE {}
<1>1. /\ LoopTypeOK /\ OneCleaner /\ FreshUnknown /\ PendingIsDead
      /\ fresh \subseteq Units /\ pending \subseteq Units
  BY DEF FleetInvariant, TypeOK, LoopTypeOK
<1>2. \A v \in Units :
        state'[v] = IF v \in dying THEN "Dying"
                    ELSE IF v = u /\ state[u] = "Starting" /\ res = "found"
                         THEN "Running" ELSE state[v]
  BY <1>1 DEF HandleRegistration, LoopTypeOK
<1>3. \A v \in dying : v = u /\ state[v] \in {"Starting", "Running"}
  OBVIOUS
<1>4. /\ OneCleaner'
      /\ \A v \in Units : cleaner'[v] \in {"rm", "ok"} => cleaner'[v] = cleaner[v]
  <2>1. StartCleanup(dying, health) /\ dying \in SUBSET Units
    BY DEF HandleRegistration
  <2>2. \A v \in dying : state'[v] = "Dying"
    BY <1>2
  <2>3. \A v \in Units : state[v] = "Dying" => state'[v] = "Dying"
    BY <1>2
  <2> QED  BY <1>1, <2>1, <2>2, <2>3, StartCleanupEffect
<1>5. pending' \subseteq pending \cup dying
  BY DEF HandleRegistration, AddPending, NewlyPending, Learned
<1>6. PendingIsDead'
  BY <1>1, <1>2, <1>3, <1>5 DEF PendingIsDead, LiveStates
<1>7. UNCHANGED <<starter, fresh>>
  BY DEF HandleRegistration
<1> QED
  BY <1>1, <1>2, <1>3, <1>4, <1>5, <1>6, <1>7 DEF LoopEffect, FreshUnknown

LEMMA UnitStartedEffect ==
  ASSUME FleetInvariant, NEW u \in Units, NEW res, HandleUnitStarted(u, res)
  PROVE  LoopEffect
<1> DEFINE dying == IF state[u] = "Creating" /\ res # "ok" THEN {u} ELSE {}
<1>1. /\ LoopTypeOK /\ OneCleaner /\ FreshUnknown /\ PendingIsDead
      /\ fresh \subseteq Units /\ pending \subseteq Units
  BY DEF FleetInvariant, TypeOK, LoopTypeOK
<1>2. \A v \in Units :
        state'[v] = IF v \in dying THEN "Dying"
                    ELSE IF v = u /\ state[u] = "Creating" THEN "Starting"
                    ELSE state[v]
  BY <1>1 DEF HandleUnitStarted, LoopTypeOK
<1>3. \A v \in dying : v = u /\ state[v] = "Creating"
  OBVIOUS
<1>4. /\ OneCleaner'
      /\ \A v \in Units : cleaner'[v] \in {"rm", "ok"} => cleaner'[v] = cleaner[v]
  <2>1. StartCleanup(dying, health) /\ dying \in SUBSET Units
    BY DEF HandleUnitStarted
  <2>2. \A v \in dying : state'[v] = "Dying"
    BY <1>2
  <2>3. \A v \in Units : state[v] = "Dying" => state'[v] = "Dying"
    BY <1>2, <1>3
  <2> QED  BY <1>1, <2>1, <2>2, <2>3, StartCleanupEffect
<1>5. pending' \subseteq pending \cup dying
  BY DEF HandleUnitStarted, AddPending, NewlyPending, Learned
<1>6. PendingIsDead'
  BY <1>1, <1>2, <1>3, <1>5 DEF PendingIsDead, LiveStates
<1>7. /\ \A v \in Units : starter'[v] = IF v = u THEN "idle" ELSE starter[v]
      /\ fresh' = fresh
  BY <1>1 DEF HandleUnitStarted, LoopTypeOK
<1> QED
  BY <1>1, <1>2, <1>3, <1>4, <1>5, <1>6, <1>7
  DEF LoopEffect, FreshUnknown, Launching

LEMMA CleanupDoneEffect ==
  ASSUME FleetInvariant, NEW u \in Units, NEW res, cleaner[u] # "idle",
         HandleCleanupDone(u, res)
  PROVE  LoopEffect
<1>1. /\ LoopTypeOK /\ OneCleaner /\ FreshUnknown /\ PendingIsDead
      /\ fresh \subseteq Units /\ pending \subseteq Units
  BY DEF FleetInvariant, TypeOK, LoopTypeOK
<1>2. /\ state[u] = "Dying"
      /\ \A v \in Units : state'[v] = IF v = u /\ res = "ok" THEN "Absent" ELSE state[v]
  <2>1. state[u] = "Dying"
    BY <1>1 DEF OneCleaner
  <2>2. state' = IF res = "ok" THEN [state EXCEPT ![u] = "Absent"] ELSE state
    BY DEF HandleCleanupDone, Forget
  <2> QED  BY <1>1, <2>1, <2>2 DEF LoopTypeOK
<1>3. /\ cleaning' = cleaning \ {u}
      /\ \A v \in Units : cleaner'[v] = IF v = u THEN "idle" ELSE cleaner[v]
      /\ UNCHANGED <<starter, fresh, pending>>
  BY <1>1 DEF HandleCleanupDone, LoopTypeOK
<1>4. OneCleaner'
  BY <1>1, <1>2, <1>3 DEF OneCleaner, LoopTypeOK
<1>5. PendingIsDead'
  BY <1>1, <1>2, <1>3 DEF PendingIsDead, LiveStates
<1> QED
  BY <1>1, <1>2, <1>3, <1>4, <1>5 DEF LoopEffect, FreshUnknown

(***************************************************************************)
(* From the effect of a message to the invariant: the world stands still,  *)
(* die events are only taken away, and a deadline is forgotten only with   *)
(* the launch it was for.                                                  *)
(***************************************************************************)
LEMMA LoopKeepsInvariant ==
  ASSUME FleetInvariant, LoopEffect, TypeOK', UNCHANGED worldVars,
         \A m \in Machines :
           /\ dies'[m] \subseteq dies[m]
           /\ sync'[m] = sync[m] \/ sync'[m] = NoSync,
         \A u \in overdue : u \in overdue' \/ starter'[u] \notin Launching
  PROVE  FleetInvariant'
<1> USE DEF FleetInvariant
<1>1. /\ OneCleaner /\ FreshUnknown /\ LaunchOwned /\ NoRunnerLeft /\ JobHeld
      /\ fresh \subseteq Units /\ overdue \subseteq Units
      /\ UNCHANGED <<ctr, reg, job, ghost>>
  BY DEF TypeOK, LoopTypeOK, worldVars
<1>2. OneCleaner' /\ PendingIsDead'
  BY DEF LoopEffect
<1>3. FreshUnknown'
  BY <1>1 DEF FreshUnknown, LoopEffect, NoSync
<1>4. LaunchOwned'
  BY <1>1 DEF LaunchOwned, FreshUnknown, LoopEffect, Launching
<1>5. NoRunnerLeft'
  <2>1. SUFFICES ASSUME NEW u \in Units
                 PROVE  /\ u \in ghost' => ctr'[u] = "none"
                        /\ starter'[u] = "undoRm" => u \notin reg'
                        /\ cleaner'[u] = "rm" /\ u \in reg' =>
                             /\ ctr'[u] = "none" /\ u \notin ghost'
                             /\ starter'[u] \notin Launching
    BY DEF NoRunnerLeft
  <2>2. cleaner[u] = "rm" => u \notin fresh
    BY <1>1, TypeOK DEF OneCleaner, FreshUnknown, TypeOK, LoopTypeOK
  <2> QED
    BY <1>1, <2>2 DEF NoRunnerLeft, LoopEffect
<1>6. JobHeld'
  BY <1>1 DEF JobHeld
<1> QED  BY <1>2, <1>3, <1>4, <1>5, <1>6

(***************************************************************************)
(* Types, action by action.                                                *)
(***************************************************************************)
LEMMA WorldTyped ==
  ASSUME TypeOK, NEW u \in Units,
         \/ JobStart(u) \/ JobEnd(u) \/ RunnerExit(u)
         \/ RegistrationExpires(u) \/ LateCreate(u) \/ StartTimeout(u)
  PROVE  TypeOK'
<1>1. LoopTypeOK'
  BY DEF TypeOK, LoopTypeOK, JobStart, JobEnd, RunnerExit, RegistrationExpires,
         LateCreate, StartTimeout, loopVars, unitVars, jobVars, checkVars,
         cleanVars, machineVars
<1>2. CASE JobStart(u) \/ JobEnd(u)
  BY <1>1, <1>2 DEF TypeOK, JobStart, JobEnd, agentVars
<1>3. CASE RunnerExit(u)
  <2>1. dies' \in [Machines -> SUBSET Units]
    BY <1>3 DEF RunnerExit, EmitDie, TypeOK, LoopTypeOK
  <2> QED  BY <1>1, <1>3, <2>1 DEF TypeOK, RunnerExit
<1>4. CASE RegistrationExpires(u) \/ LateCreate(u)
  BY <1>1, <1>4 DEF TypeOK, RegistrationExpires, LateCreate, agentVars
<1>5. CASE StartTimeout(u)
  BY <1>1, <1>5 DEF TypeOK, StartTimeout, agentVars, worldVars
<1> QED  BY <1>2, <1>3, <1>4, <1>5

\* The two steps of cleanupParts, in a rollback as in a cleanup.
LEMMA ContainerTyped ==
  ASSUME TypeOK, NEW u \in Units, ContainerRemoved(u) \/ ContainerKept(u)
  PROVE  /\ dies' \in [Machines -> SUBSET Units]
         /\ ctr' \in [Units -> {"none", "created", "running", "exited"}]
<1>1. \/ ctr' = [ctr EXCEPT ![u] = "none"] /\ EmitDie(u)
      \/ UNCHANGED <<ctr, dies>>
  BY DEF ContainerRemoved, ContainerKept
<1>2. dies \in [Machines -> SUBSET Units]
  BY DEF TypeOK
<1>3. \/ dies' = [dies EXCEPT ![mach[u]] = @ \cup {u}]
      \/ dies' = dies
  BY <1>1 DEF EmitDie
<1>4. dies' \in [Machines -> SUBSET Units]
  BY <1>2, <1>3
<1> QED  BY <1>1, <1>4 DEF TypeOK

LEMMA RegisteredTyped ==
  ASSUME TypeOK, NEW u \in Units, RegistrationRemoved(u) \/ RegistrationKept(u)
  PROVE  reg' \subseteq Units
<1>1. reg' = reg \ {u} \/ reg' = reg
  BY DEF RegistrationRemoved, RegistrationKept
<1> QED  BY <1>1 DEF TypeOK

LEMMA StarterTyped ==
  ASSUME TypeOK, NEW u \in Units,
         GenerateJIT(u) \/ Create(u) \/ Start(u) \/ Undo(u)
  PROVE  TypeOK'
<1>1. PICK place \in StarterPlaces : StarterAt(u, place)
  BY DEF GenerateJIT, Create, Start, Undo, StarterPlaces, Launching
<1>2. LoopTypeOK'
  BY <1>1 DEF StarterAt, TypeOK, LoopTypeOK, unitVars, jobVars, checkVars,
              cleanVars, machineVars
<1>3. /\ dies' \in [Machines -> SUBSET Units]
      /\ ctr' \in [Units -> {"none", "created", "running", "exited"}]
      /\ reg' \subseteq Units /\ ghost' \subseteq Units
  <2>1. CASE GenerateJIT(u)
    BY <2>1 DEF GenerateJIT, TypeOK
  <2>2. CASE Create(u)
    BY <2>2 DEF Create, TypeOK
  <2>3. CASE Start(u)
    BY <2>3 DEF Start, TypeOK
  <2>4. CASE Undo(u)
    BY <2>4, ContainerTyped, RegisteredTyped DEF Undo, TypeOK
  <2> QED  BY <2>1, <2>2, <2>3, <2>4
<1> QED  BY <1>1, <1>2, <1>3 DEF StarterAt, TypeOK

LEMMA CleanerTyped ==
  ASSUME TypeOK, NEW u \in Units, CleanRegistration(u) \/ CleanContainer(u)
  PROVE  TypeOK'
<1>1. PICK place \in CleanerPlaces : CleanerAt(u, place)
  BY DEF CleanRegistration, CleanContainer, CleanerPlaces
<1>2. LoopTypeOK'
  BY <1>1 DEF CleanerAt, TypeOK, LoopTypeOK, unitVars, jobVars, checkVars,
              machineVars
<1>3. /\ dies' \in [Machines -> SUBSET Units]
      /\ ctr' \in [Units -> {"none", "created", "running", "exited"}]
      /\ reg' \subseteq Units
  <2>1. CASE CleanRegistration(u)
    BY <2>1, ContainerTyped, RegisteredTyped DEF CleanRegistration, TypeOK
  <2>2. CASE CleanContainer(u)
    BY <2>2, ContainerTyped, RegisteredTyped DEF CleanContainer, TypeOK
  <2> QED  BY <2>1, <2>2
<1> QED  BY <1>1, <1>2, <1>3 DEF CleanerAt, TypeOK

LEMMA CheckTyped ==
  ASSUME TypeOK, NEW u \in Units, CheckRegistration(u)
  PROVE  TypeOK'
<1>1. LoopTypeOK'
  <2>1. checkQ' \subseteq Units
    BY DEF CheckRegistration, TypeOK, LoopTypeOK
  <2>2. UNCHANGED <<unitVars, jobVars, checking, checkPass, cleanVars,
                    machineVars, startedAt, starter>>
    BY DEF CheckRegistration
  <2> QED  BY <2>1, <2>2 DEF TypeOK, LoopTypeOK, unitVars, jobVars, cleanVars,
                            machineVars
<1>2. answer' \in [Units -> {"none", "found", "gone", "err"}]
  BY DEF CheckRegistration, TypeOK
<1> QED  BY <1>1, <1>2 DEF CheckRegistration, TypeOK, agentVars, worldVars

LEMMA AgentTyped ==
  ASSUME TypeOK, NEW m \in Machines,
         \/ AgentOpen(m) \/ AgentResync(m) \/ AgentRoundFails(m)
         \/ AgentDrop(m) \/ AgentFatal(m)
  PROVE  TypeOK'
<1>1. LoopTypeOK'
  BY DEF TypeOK, LoopTypeOK, AgentOpen, AgentResync, AgentRoundFails,
         AgentDrop, AgentFatal, loopVars, unitVars, jobVars, checkVars,
         cleanVars, machineVars
<1>2. UNCHANGED <<overdue, answer, worldVars>>
  BY DEF AgentOpen, AgentResync, AgentRoundFails, AgentDrop, AgentFatal
<1>3. /\ agent' \in [Machines -> {"down", "open", "served", "failed"}]
      /\ told' \subseteq Machines
      /\ dies' \in [Machines -> SUBSET Units]
      /\ notice' \in [Machines -> {"no", "Unhealthy", "Failed"}]
  <2>1. CASE AgentOpen(m) \/ AgentResync(m)
    BY <2>1 DEF TypeOK, AgentOpen, AgentResync
  <2>2. CASE AgentRoundFails(m)
    BY <2>2 DEF TypeOK, AgentRoundFails
  <2>3. CASE AgentDrop(m)
    BY <2>3 DEF TypeOK, AgentDrop
  <2>4. CASE AgentFatal(m)
    BY <2>4 DEF TypeOK, AgentFatal
  <2> QED  BY <2>1, <2>2, <2>3, <2>4
<1>4. sync' \in [Machines -> [on : BOOLEAN, runner : [Units -> RunnerSights],
                             started : SUBSET Units, info : Nat]]
  <2>1. CASE AgentResync(m)
    <3>1. [u \in Units |-> IF mach[u] = m THEN Sight(u) ELSE "none"]
            \in [Units -> RunnerSights]
      BY DEF TypeOK, Sight, RunnerSights
    <3>2. Budgets \subseteq Nat /\ startedAt \in SUBSET Units
      BY FleetAssumption DEF TypeOK, LoopTypeOK
    <3> QED  BY <2>1, <3>1, <3>2 DEF AgentResync, TypeOK
  <2>2. CASE ~ AgentResync(m)
    BY <2>2 DEF TypeOK, AgentOpen, AgentRoundFails, AgentDrop, AgentFatal
  <2> QED  BY <2>1, <2>2
<1> QED  BY <1>1, <1>2, <1>3, <1>4 DEF TypeOK, worldVars

LEMMA NoSyncTyped ==
  NoSync \in [on : BOOLEAN, runner : [Units -> RunnerSights],
              started : SUBSET Units, info : Nat]
BY DEF NoSync, RunnerSights

LEMMA LoopUnitTyped ==
  ASSUME TypeOK, NEW u \in Units,
         \/ LoopUnitStarted(u) \/ LoopCleanupDone(u)
         \/ \E old \in BOOLEAN : LoopRegistration(u, old)
         \/ LoopJobStarted(u)
         \/ \E named \in BOOLEAN : LoopJobCompleted(u, named)
  PROVE  TypeOK'
<1>1. LoopTypeOK
  BY DEF TypeOK
<1>2. CASE LoopUnitStarted(u)
  BY <1>1, <1>2, UnitStartedTyped
  DEF LoopUnitStarted, TypeOK, agentVars, worldVars
<1>3. CASE LoopCleanupDone(u)
  BY <1>1, <1>3, CleanupDoneTyped
  DEF LoopCleanupDone, TypeOK, agentVars, worldVars
<1>4. CASE \E old \in BOOLEAN : LoopRegistration(u, old)
  BY <1>1, <1>4, RegistrationTyped
  DEF LoopRegistration, TypeOK, agentVars, worldVars
<1>5. CASE LoopJobStarted(u)
  BY <1>1, <1>5, JobsTyped DEF LoopJobStarted, TypeOK, agentVars, worldVars
<1>6. CASE \E named \in BOOLEAN : LoopJobCompleted(u, named)
  BY <1>1, <1>6, JobsTyped DEF LoopJobCompleted, TypeOK, agentVars, worldVars
<1> QED  BY <1>2, <1>3, <1>4, <1>5, <1>6

LEMMA LoopMachineTyped ==
  ASSUME TypeOK, NEW m \in Machines,
         \/ LoopResynced(m) \/ LoopHealth(m)
         \/ \E u \in Units : LoopEvent(m, u)
  PROVE  TypeOK'
<1>1. LoopTypeOK
  BY DEF TypeOK
<1>2. CASE LoopResynced(m)
  <2>1. LoopTypeOK'
    BY <1>1, <1>2, ResyncedTyped DEF LoopResynced, TypeOK
  <2>2. sync' \in [Machines -> [on : BOOLEAN, runner : [Units -> RunnerSights],
                               started : SUBSET Units, info : Nat]]
    BY <1>2, NoSyncTyped DEF LoopResynced, TypeOK
  <2> QED  BY <1>2, <2>1, <2>2 DEF LoopResynced, TypeOK, worldVars
<1>3. CASE LoopHealth(m)
  <2>1. notice[m] \in Healths
    BY <1>3 DEF LoopHealth, TypeOK, Healths
  <2>2. LoopTypeOK'
    BY <1>1, <1>3, <2>1, HealthTyped DEF LoopHealth
  <2>3. notice' \in [Machines -> {"no", "Unhealthy", "Failed"}]
    BY <1>3 DEF LoopHealth, TypeOK
  <2> QED  BY <1>3, <2>2, <2>3 DEF LoopHealth, TypeOK, worldVars
<1>4. CASE \E u \in Units : LoopEvent(m, u)
  <2>1. PICK u \in Units : LoopEvent(m, u)
    BY <1>4
  <2>2. LoopTypeOK'
    BY <1>1, <2>1, EventTyped DEF LoopEvent
  <2>3. dies' \in [Machines -> SUBSET Units]
    BY <2>1 DEF LoopEvent, TypeOK
  <2> QED  BY <2>1, <2>2, <2>3 DEF LoopEvent, TypeOK, worldVars
<1> QED  BY <1>2, <1>3, <1>4

LEMMA LoopOtherTyped ==
  ASSUME TypeOK,
         \/ LoopDesired \/ LoopTick \/ LoopCheckPassDone \/ LoopSessionStarted
         \/ LoopJobCompletedBlank
  PROVE  TypeOK'
<1>1. LoopTypeOK /\ TooLate \in SUBSET Units
  BY DEF TypeOK, TooLate
<1>2. LoopTypeOK'
  <2>1. CASE LoopDesired
    BY <1>1, <2>1, DesiredTyped DEF LoopDesired
  <2>2. CASE LoopTick
    BY <1>1, <2>2, TickTyped DEF LoopTick
  <2>3. CASE LoopCheckPassDone
    BY <1>1, <2>3, CheckPassDoneTyped DEF LoopCheckPassDone
  <2>4. CASE LoopSessionStarted
    <3>1. HandleSessionStarted
      BY <2>4 DEF LoopSessionStarted
    <3> QED
      BY <1>1, <3>1 DEF HandleSessionStarted, LoopTypeOK, unitVars, checkVars,
                        cleanVars, machineVars
  <2>5. CASE LoopJobCompletedBlank
    BY <1>1, <2>5, BlankTyped DEF LoopJobCompletedBlank
  <2> QED  BY <2>1, <2>2, <2>3, <2>4, <2>5
<1>3. UNCHANGED <<overdue, answer, agentVars, worldVars>>
  BY DEF LoopDesired, LoopTick, LoopCheckPassDone, LoopSessionStarted,
         LoopJobCompletedBlank
<1> QED  BY <1>2, <1>3 DEF TypeOK, agentVars, worldVars

LEMMA NextTyped ==
  ASSUME TypeOK, [Next]_vars
  PROVE  TypeOK'
<1>1. CASE \E u \in Units : UnitStep(u)
  BY <1>1, WorldTyped, StarterTyped, CleanerTyped, CheckTyped, LoopUnitTyped
  DEF UnitStep
<1>2. CASE \E m \in Machines : MachineStep(m)
  BY <1>2, AgentTyped, LoopMachineTyped DEF MachineStep
<1>3. CASE \/ LoopDesired \/ LoopTick \/ LoopCheckPassDone \/ LoopSessionStarted
           \/ LoopJobCompletedBlank
  BY <1>3, LoopOtherTyped
<1>4. CASE UNCHANGED vars
  BY <1>4 DEF TypeOK, LoopTypeOK, vars, loopVars, unitVars, jobVars, checkVars,
              cleanVars, machineVars, agentVars, worldVars
<1> QED  BY <1>1, <1>2, <1>3, <1>4 DEF Next

(***************************************************************************)
(* FleetInvariant, action by action: first what is not the loop's.         *)
(***************************************************************************)

\* As long as the loop stands still, two parts of the invariant do.
LEMMA LoopStill ==
  ASSUME FleetInvariant, UNCHANGED <<state, pending, cleaning>>, TypeOK',
         \A v \in Units : cleaner'[v] = "idle" <=> cleaner[v] = "idle"
  PROVE  OneCleaner' /\ PendingIsDead'
BY DEF FleetInvariant, OneCleaner, PendingIsDead

LEMMA JobKeeps ==
  ASSUME FleetInvariant, NEW u \in Units,
         JobStart(u) \/ JobEnd(u) \/ RegistrationExpires(u)
  PROVE  FleetInvariant'
<1>1. TypeOK'
  BY WorldTyped DEF FleetInvariant
<1>2. /\ OneCleaner /\ FreshUnknown /\ LaunchOwned /\ NoRunnerLeft /\ JobHeld
      /\ TypeOK /\ UNCHANGED <<loopVars, overdue, agentVars, ctr, ghost>>
  BY DEF FleetInvariant, JobStart, JobEnd, RegistrationExpires
<1>3. OneCleaner' /\ PendingIsDead'
  BY <1>1, <1>2, LoopStill DEF loopVars, unitVars, jobVars, cleanVars
<1>4. FreshUnknown' /\ LaunchOwned'
  BY <1>2 DEF FreshUnknown, LaunchOwned, loopVars, unitVars, jobVars, agentVars
<1>5. /\ reg' \subseteq reg
      /\ \A v \in Units : job'[v] = "running" => v \in reg' /\ ctr[v] = "running"
  <2>1. CASE JobStart(u)
    BY <1>2, <2>1 DEF JobStart, JobHeld, TypeOK
  <2>2. CASE JobEnd(u)
    BY <1>2, <2>2 DEF JobEnd, JobHeld, TypeOK
  <2>3. CASE RegistrationExpires(u)
    BY <1>2, <2>3 DEF RegistrationExpires, JobHeld
  <2> QED  BY <2>1, <2>2, <2>3
<1>6. NoRunnerLeft' /\ JobHeld'
  BY <1>2, <1>5 DEF NoRunnerLeft, JobHeld, loopVars, cleanVars
<1> QED  BY <1>1, <1>3, <1>4, <1>6 DEF FleetInvariant

LEMMA RunnerExitKeeps ==
  ASSUME FleetInvariant, NEW u \in Units, RunnerExit(u)
  PROVE  FleetInvariant'
<1>1. TypeOK'
  BY WorldTyped DEF FleetInvariant
<1>2. /\ OneCleaner /\ FreshUnknown /\ LaunchOwned /\ NoRunnerLeft /\ JobHeld
      /\ TypeOK /\ UNCHANGED <<loopVars, overdue, sync, reg, ghost>>
      /\ ctr[u] = "running"
  BY DEF FleetInvariant, RunnerExit
<1>3. OneCleaner' /\ PendingIsDead'
  BY <1>1, <1>2, LoopStill DEF loopVars, unitVars, jobVars, cleanVars
<1>4. /\ \A v \in Units : ctr'[v] = IF v = u THEN "exited" ELSE ctr[v]
      /\ \A v \in Units : v # u => job'[v] = job[v]
      /\ job'[u] # "running"
  BY <1>2 DEF RunnerExit, TypeOK
<1>5. \A m \in Machines : dies'[m] \subseteq dies[m] \cup {u}
  BY <1>2 DEF RunnerExit, EmitDie, TypeOK
<1>6. u \notin fresh /\ starter[u] \notin Launching
  BY <1>2 DEF FreshUnknown, LaunchOwned, Launching
<1>7. FreshUnknown' /\ LaunchOwned'
  BY <1>2, <1>4, <1>5, <1>6
  DEF FreshUnknown, LaunchOwned, loopVars, unitVars, jobVars, Launching, TypeOK, LoopTypeOK
<1>8. NoRunnerLeft' /\ JobHeld'
  BY <1>2, <1>4 DEF NoRunnerLeft, JobHeld, loopVars, cleanVars
<1> QED  BY <1>1, <1>3, <1>7, <1>8 DEF FleetInvariant

LEMMA LateKeeps ==
  ASSUME FleetInvariant, NEW u \in Units, LateCreate(u) \/ StartTimeout(u)
  PROVE  FleetInvariant'
<1>1. TypeOK'
  BY WorldTyped DEF FleetInvariant
<1>2. /\ OneCleaner /\ FreshUnknown /\ LaunchOwned /\ NoRunnerLeft /\ JobHeld
      /\ TypeOK /\ UNCHANGED <<loopVars, agentVars, reg, job>>
  BY DEF FleetInvariant, LateCreate, StartTimeout, worldVars
<1>3. OneCleaner' /\ PendingIsDead'
  BY <1>1, <1>2, LoopStill DEF loopVars, unitVars, jobVars, cleanVars
<1>4. CASE LateCreate(u)
  <2>1. /\ u \in ghost /\ ghost' = ghost \ {u} /\ overdue' = overdue
        /\ \A v \in Units : ctr'[v] = IF v = u THEN "created" ELSE ctr[v]
    BY <1>2, <1>4 DEF LateCreate, TypeOK
  <2>2. /\ u \notin fresh /\ starter[u] \notin Launching
        /\ ~(cleaner[u] = "rm" /\ u \in reg) /\ job[u] # "running"
    BY <1>2, <2>1 DEF FreshUnknown, LaunchOwned, NoRunnerLeft, JobHeld
  <2>3. FreshUnknown' /\ LaunchOwned'
    BY <1>2, <2>1, <2>2
    DEF FreshUnknown, LaunchOwned, loopVars, unitVars, jobVars, agentVars, Launching, TypeOK, LoopTypeOK
  <2>4. NoRunnerLeft' /\ JobHeld'
    BY <1>2, <2>1, <2>2 DEF NoRunnerLeft, JobHeld, loopVars, cleanVars
  <2> QED  BY <1>1, <1>3, <2>3, <2>4 DEF FleetInvariant
<1>5. CASE StartTimeout(u)
  <2>1. UNCHANGED <<ctr, ghost>> /\ overdue \subseteq overdue'
    BY <1>5 DEF StartTimeout, worldVars
  <2>2. FreshUnknown' /\ LaunchOwned' /\ NoRunnerLeft' /\ JobHeld'
    BY <1>2, <2>1
    DEF FreshUnknown, LaunchOwned, NoRunnerLeft, JobHeld, loopVars, unitVars,
        jobVars, cleanVars, agentVars
  <2> QED  BY <1>1, <1>3, <2>2 DEF FleetInvariant
<1> QED  BY <1>4, <1>5

\* The steps of a launch.  A successful one finds its unit Creating, so that
\* no cleanup is under way; a failed one adds nothing that a cleanup about to
\* remove the container would miss.
LEMMA LaunchKeeps ==
  ASSUME FleetInvariant, NEW u \in Units, GenerateJIT(u) \/ Create(u) \/ Start(u)
  PROVE  FleetInvariant'
<1>1. PICK place \in StarterPlaces : StarterAt(u, place)
  BY DEF GenerateJIT, Create, Start, StarterPlaces, Launching
<1>2. /\ OneCleaner /\ FreshUnknown /\ LaunchOwned /\ NoRunnerLeft /\ JobHeld
      /\ TypeOK /\ TypeOK'
  BY StarterTyped DEF FleetInvariant
<1>3. /\ UNCHANGED <<state, pending, cleaning, cleaner, fresh, overdue, sync,
                     job, dies>>
      /\ \A v \in Units : starter'[v] = IF v = u THEN place ELSE starter[v]
  <2>1. dies' = dies
    BY DEF GenerateJIT, Create, Start
  <2> QED  BY <1>1, <1>2, <2>1 DEF StarterAt, unitVars, jobVars, cleanVars, TypeOK, LoopTypeOK
<1>4. OneCleaner' /\ PendingIsDead'
  BY <1>2, <1>3, LoopStill
<1>5. /\ fresh \subseteq Units
      /\ starter[u] \in Launching /\ u \notin fresh /\ u \notin ghost
      /\ ~(cleaner[u] = "rm" /\ u \in reg)
      /\ u \in overdue \/ cleaner[u] = "idle"
  <2>1. starter[u] \in Launching
    BY DEF GenerateJIT, Create, Start, Launching
  <2>2. state[u] = "Creating" => cleaner[u] = "idle"
    BY <1>2 DEF OneCleaner
  <2>3. fresh \subseteq Units
    BY <1>2 DEF TypeOK, LoopTypeOK
  <2> QED
    BY <1>2, <2>1, <2>2, <2>3 DEF FreshUnknown, LaunchOwned, NoRunnerLeft, Launching
<1>6. CASE GenerateJIT(u)
  <2>1. /\ ctr[u] = "none" /\ UNCHANGED <<ctr, ghost>>
        /\ reg \subseteq reg' /\ reg' \subseteq reg \cup {u}
        /\ \/ starter'[u] = "create" /\ u \notin overdue
           \/ starter'[u] = "errNoID"
    BY <1>2, <1>6 DEF GenerateJIT, LaunchOwned, StarterAt, TypeOK, LoopTypeOK
  <2>2. FreshUnknown' /\ LaunchOwned'
    BY <1>2, <1>3, <1>5, <2>1 DEF FreshUnknown, LaunchOwned, Launching
  <2>3. NoRunnerLeft' /\ JobHeld'
    BY <1>2, <1>3, <1>5, <2>1 DEF NoRunnerLeft, JobHeld, Launching
  <2> QED  BY <1>2, <1>4, <2>2, <2>3 DEF FleetInvariant
<1>7. CASE Create(u)
  <2>1. /\ ctr[u] = "none" /\ reg' = reg
        /\ \A v \in Units : v # u => ctr'[v] = ctr[v]
        /\ ctr'[u] \in {"none", "created"}
        /\ ghost' \subseteq ghost \cup {u} /\ ghost \subseteq ghost'
        /\ \/ starter'[u] = "start" /\ u \notin overdue /\ ghost' = ghost
           \/ starter'[u] = "undoReg" /\ (u \in ghost' => ctr'[u] = "none")
    BY <1>2, <1>5, <1>7 DEF Create, LaunchOwned, StarterAt, TypeOK, LoopTypeOK
  <2>2. FreshUnknown' /\ LaunchOwned'
    BY <1>2, <1>3, <1>5, <2>1 DEF FreshUnknown, LaunchOwned, Launching
  <2>3. NoRunnerLeft' /\ JobHeld'
    BY <1>2, <1>3, <1>5, <2>1 DEF NoRunnerLeft, JobHeld, Launching
  <2> QED  BY <1>2, <1>4, <2>2, <2>3 DEF FleetInvariant
<1>8. CASE Start(u)
  <2>1. /\ ctr[u] \in {"none", "created"} /\ reg' = reg /\ ghost' = ghost
        /\ \A v \in Units : v # u => ctr'[v] = ctr[v]
        /\ starter'[u] \in {"ok", "undoReg"}
    BY <1>2, <1>8 DEF Start, LaunchOwned, StarterAt, TypeOK, LoopTypeOK
  <2>2. FreshUnknown' /\ LaunchOwned'
    BY <1>2, <1>3, <1>5, <2>1 DEF FreshUnknown, LaunchOwned, Launching
  <2>3. NoRunnerLeft' /\ JobHeld'
    BY <1>2, <1>3, <1>5, <2>1 DEF NoRunnerLeft, JobHeld, Launching
  <2> QED  BY <1>2, <1>4, <2>2, <2>3 DEF FleetInvariant
<1> QED  BY <1>6, <1>7, <1>8

\* Taking a registration away never touches that of a running job.
LEMMA RegistrationActs ==
  ASSUME FleetInvariant, NEW u \in Units
  PROVE  /\ RegistrationRemoved(u) =>
              reg' = reg \ {u} /\ job[u] # "running"
         /\ RegistrationKept(u) =>
              reg' = reg \/ (reg' = reg \ {u} /\ job[u] # "running")
BY DEF FleetInvariant, RegistrationRemoved, RegistrationKept, JobHeld

\* Taking a container away, or failing to.
LEMMA ContainerActs ==
  ASSUME FleetInvariant, NEW u \in Units, ContainerRemoved(u) \/ ContainerKept(u)
  PROVE  /\ \A v \in Units : ctr'[v] = ctr[v] \/ (v = u /\ ctr'[v] = "none")
         /\ \A m \in Machines :
              \/ dies'[m] = dies[m]
              \/ dies'[m] \subseteq dies[m] \cup {u} /\ ctr[u] = "running"
<1>1. TypeOK
  BY DEF FleetInvariant
<1>2. \/ ctr' = [ctr EXCEPT ![u] = "none"] /\ EmitDie(u)
      \/ UNCHANGED <<ctr, dies>>
  BY DEF ContainerRemoved, ContainerKept
<1> QED  BY <1>1, <1>2 DEF TypeOK, EmitDie

LEMMA UndoKeeps ==
  ASSUME FleetInvariant, NEW u \in Units, Undo(u)
  PROVE  FleetInvariant'
<1>1. PICK place \in {"undoRm", "err"} : StarterAt(u, place)
  BY DEF Undo
<1>2. /\ OneCleaner /\ FreshUnknown /\ LaunchOwned /\ NoRunnerLeft /\ JobHeld
      /\ TypeOK /\ TypeOK'
  BY StarterTyped DEF FleetInvariant
<1>3. /\ UNCHANGED <<state, pending, cleaning, cleaner, fresh, overdue, sync,
                     job, ghost>>
      /\ \A v \in Units : starter'[v] = IF v = u THEN place ELSE starter[v]
  <2>1. ghost' = ghost
    BY DEF Undo
  <2> QED  BY <1>1, <1>2, <2>1 DEF StarterAt, unitVars, jobVars, cleanVars, TypeOK, LoopTypeOK
<1>4. OneCleaner' /\ PendingIsDead'
  BY <1>2, <1>3, LoopStill
<1>5. u \notin fresh /\ fresh \subseteq Units
  BY <1>2 DEF Undo, FreshUnknown, TypeOK, LoopTypeOK
<1>6. CASE starter[u] = "undoReg"
  <2>1. /\ UNCHANGED <<ctr, dies>> /\ reg' \subseteq reg
        /\ \A v \in Units : job[v] = "running" => (v \in reg' <=> v \in reg)
        /\ starter'[u] = "undoRm" => u \notin reg'
    <3>1. \/ RegistrationRemoved(u)
          \/ RegistrationKept(u) /\ StarterAt(u, "err")
      BY <1>6 DEF Undo
    <3>2. StarterAt(u, "err") => starter'[u] = "err"
      BY <1>2 DEF StarterAt, TypeOK, LoopTypeOK
    <3>3. UNCHANGED <<ctr, dies>>
      BY <1>6 DEF Undo
    <3> QED  BY <3>1, <3>2, <3>3, RegistrationActs
  <2>2. FreshUnknown' /\ LaunchOwned'
    BY <1>2, <1>3, <1>5, <2>1 DEF FreshUnknown, LaunchOwned, Launching
  <2>3. NoRunnerLeft' /\ JobHeld'
    BY <1>2, <1>3, <2>1 DEF NoRunnerLeft, JobHeld, Launching
  <2> QED  BY <1>2, <1>4, <2>2, <2>3 DEF FleetInvariant
<1>7. CASE starter[u] = "undoRm"
  <2>1. /\ reg' = reg /\ starter'[u] = "err" /\ u \notin reg /\ job[u] # "running"
        /\ ContainerRemoved(u) \/ ContainerKept(u)
    BY <1>2, <1>7 DEF Undo, StarterAt, NoRunnerLeft, JobHeld, TypeOK, LoopTypeOK
  <2>2. /\ \A v \in Units : ctr'[v] = ctr[v] \/ (v = u /\ ctr'[v] = "none")
        /\ \A m \in Machines :
             \/ dies'[m] = dies[m]
             \/ dies'[m] \subseteq dies[m] \cup {u} /\ ctr[u] = "running"
    BY <2>1, ContainerActs
  <2>3. FreshUnknown' /\ LaunchOwned'
    BY <1>2, <1>3, <1>5, <2>1, <2>2 DEF FreshUnknown, LaunchOwned, Launching
  <2>4. NoRunnerLeft' /\ JobHeld'
    BY <1>2, <1>3, <2>1, <2>2 DEF NoRunnerLeft, JobHeld, Launching
  <2> QED  BY <1>2, <1>4, <2>3, <2>4 DEF FleetInvariant
<1> QED  BY <1>6, <1>7 DEF Undo

LEMMA CleanKeeps ==
  ASSUME FleetInvariant, NEW u \in Units, CleanRegistration(u) \/ CleanContainer(u)
  PROVE  FleetInvariant'
<1>1. PICK place \in {"rm", "ok", "err"} : CleanerAt(u, place)
  BY DEF CleanRegistration, CleanContainer
<1>2. /\ OneCleaner /\ FreshUnknown /\ LaunchOwned /\ NoRunnerLeft /\ JobHeld
      /\ TypeOK /\ TypeOK' /\ fresh \subseteq Units
  BY CleanerTyped DEF FleetInvariant, TypeOK, LoopTypeOK
<1>3. /\ UNCHANGED <<state, pending, cleaning, starter, fresh, overdue, sync,
                     job, ghost>>
      /\ \A v \in Units : cleaner'[v] = IF v = u THEN place ELSE cleaner[v]
  BY <1>1, <1>2 DEF CleanerAt, unitVars, jobVars, TypeOK, LoopTypeOK
<1>4. cleaner[u] \in {"reg", "rm"}
  BY DEF CleanRegistration, CleanContainer
<1>5. OneCleaner' /\ PendingIsDead'
  BY <1>2, <1>3, <1>4, LoopStill
<1>6. u \notin fresh
  BY <1>2, <1>4 DEF OneCleaner, FreshUnknown
<1>7. CASE CleanRegistration(u)
  <2>1. /\ UNCHANGED <<ctr, dies>> /\ reg' \subseteq reg
        /\ \A v \in Units : job[v] = "running" => (v \in reg' <=> v \in reg)
        /\ cleaner'[u] = "rm" => u \notin reg'
    <3>1. \/ RegistrationRemoved(u)
          \/ RegistrationKept(u) /\ CleanerAt(u, "err")
      BY <1>7 DEF CleanRegistration
    <3>2. CleanerAt(u, "err") => cleaner'[u] = "err"
      BY <1>2 DEF CleanerAt, TypeOK, LoopTypeOK
    <3>3. UNCHANGED <<ctr, dies>>
      BY <1>7 DEF CleanRegistration
    <3> QED  BY <3>1, <3>2, <3>3, RegistrationActs
  <2>2. FreshUnknown' /\ LaunchOwned'
    BY <1>2, <1>3, <2>1 DEF FreshUnknown, LaunchOwned
  <2>3. NoRunnerLeft' /\ JobHeld'
    BY <1>2, <1>3, <2>1 DEF NoRunnerLeft, JobHeld
  <2> QED  BY <1>2, <1>5, <2>2, <2>3 DEF FleetInvariant
<1>8. CASE CleanContainer(u)
  <2>1. /\ reg' = reg /\ cleaner[u] = "rm" /\ cleaner'[u] # "rm"
        /\ ContainerRemoved(u) \/ ContainerKept(u)
    BY <1>2, <1>8 DEF CleanContainer, CleanerAt, TypeOK, LoopTypeOK
  <2>2. job[u] # "running"
    BY <1>2, <2>1 DEF NoRunnerLeft, JobHeld
  <2>3. /\ \A v \in Units : ctr'[v] = ctr[v] \/ (v = u /\ ctr'[v] = "none")
        /\ \A m \in Machines :
             \/ dies'[m] = dies[m]
             \/ dies'[m] \subseteq dies[m] \cup {u} /\ ctr[u] = "running"
    BY <2>1, ContainerActs
  <2>4. FreshUnknown' /\ LaunchOwned'
    BY <1>2, <1>3, <1>6, <2>1, <2>3 DEF FreshUnknown, LaunchOwned, Launching
  <2>5. NoRunnerLeft' /\ JobHeld'
    BY <1>2, <1>3, <2>1, <2>2, <2>3 DEF NoRunnerLeft, JobHeld
  <2> QED  BY <1>2, <1>5, <2>4, <2>5 DEF FleetInvariant
<1> QED  BY <1>7, <1>8

LEMMA CheckKeeps ==
  ASSUME FleetInvariant, NEW u \in Units, CheckRegistration(u)
  PROVE  FleetInvariant'
<1>1. TypeOK'
  BY CheckTyped DEF FleetInvariant
<1>2. UNCHANGED <<state, pending, cleaning, cleaner, fresh, starter, overdue,
                  sync, dies, ctr, reg, job, ghost>>
  BY DEF CheckRegistration, unitVars, jobVars, cleanVars, agentVars, worldVars
<1>3. OneCleaner' /\ PendingIsDead'
  BY <1>1, <1>2, LoopStill
<1> QED
  BY <1>1, <1>2, <1>3
  DEF FleetInvariant, FreshUnknown, LaunchOwned, NoRunnerLeft, JobHeld

\* An agent only looks: it takes a snapshot, in which nothing of a fresh id
\* is to be seen, and loses events.
LEMMA AgentKeeps ==
  ASSUME FleetInvariant, NEW m \in Machines,
         \/ AgentOpen(m) \/ AgentResync(m) \/ AgentRoundFails(m)
         \/ AgentDrop(m) \/ AgentFatal(m)
  PROVE  FleetInvariant'
<1>1. TypeOK /\ TypeOK' /\ fresh \subseteq Units
  BY AgentTyped DEF FleetInvariant, TypeOK, LoopTypeOK
<1>2. UNCHANGED <<loopVars, overdue, worldVars>>
  BY DEF AgentOpen, AgentResync, AgentRoundFails, AgentDrop, AgentFatal
<1>3. UNCHANGED <<state, pending, cleaning, cleaner, fresh, starter, overdue,
                  ctr, reg, job, ghost>>
  BY <1>2 DEF loopVars, unitVars, jobVars, cleanVars, worldVars
<1>4. OneCleaner' /\ PendingIsDead'
  BY <1>1, <1>3, LoopStill
<1>5. \A k \in Machines : dies'[k] \subseteq dies[k]
  <2>1. CASE AgentOpen(m) \/ AgentResync(m)
    BY <2>1 DEF AgentOpen, AgentResync
  <2>2. CASE AgentRoundFails(m)
    BY <1>1, <2>2 DEF AgentRoundFails, TypeOK
  <2>3. CASE AgentDrop(m)
    BY <1>1, <2>3 DEF AgentDrop, TypeOK
  <2>4. CASE AgentFatal(m)
    BY <1>1, <2>4 DEF AgentFatal, TypeOK
  <2> QED  BY <2>1, <2>2, <2>3, <2>4
<1>6. \A k \in Machines, u \in fresh : sync'[k].runner[u] = "none"
  <2>1. \A u \in fresh : ctr[u] = "none" /\ \A k \in Machines : sync[k].runner[u] = "none"
    BY DEF FleetInvariant, FreshUnknown
  <2>2. CASE AgentResync(m)
    BY <1>1, <2>1, <2>2 DEF AgentResync, TypeOK, Sight
  <2>3. CASE ~ AgentResync(m)
    <3>1. sync' = sync
      BY <2>3 DEF AgentOpen, AgentRoundFails, AgentDrop, AgentFatal
    <3> QED  BY <2>1, <3>1
  <2> QED  BY <2>2, <2>3
<1>7. FreshUnknown' /\ LaunchOwned'
  BY <1>1, <1>3, <1>5, <1>6 DEF FleetInvariant, FreshUnknown, LaunchOwned
<1>8. NoRunnerLeft' /\ JobHeld'
  BY <1>3 DEF FleetInvariant, NoRunnerLeft, JobHeld
<1> QED  BY <1>1, <1>4, <1>7, <1>8 DEF FleetInvariant

(***************************************************************************)
(* Then the loop's, each by its effect.                                    *)
(***************************************************************************)
LEMMA LoopUnitEffect ==
  ASSUME FleetInvariant, NEW u \in Units,
         \/ LoopUnitStarted(u) \/ LoopCleanupDone(u)
         \/ \E old \in BOOLEAN : LoopRegistration(u, old)
         \/ LoopJobStarted(u)
         \/ \E named \in BOOLEAN : LoopJobCompleted(u, named)
  PROVE  LoopEffect
<1>1. CASE LoopUnitStarted(u)
  BY <1>1, UnitStartedEffect DEF LoopUnitStarted
<1>2. CASE LoopCleanupDone(u)
  BY <1>2, CleanupDoneEffect DEF LoopCleanupDone
<1>3. CASE \E old \in BOOLEAN : LoopRegistration(u, old)
  BY <1>3, RegistrationEffect DEF LoopRegistration
<1>4. CASE LoopJobStarted(u)
  <2>1. UNCHANGED <<state, starter, cleaner, cleaning, fresh, pending>>
    BY <1>4 DEF LoopJobStarted, HandleJobStarted, jobVars, cleanVars
  <2> QED  BY <2>1, QuietEffect
<1>5. CASE \E named \in BOOLEAN : LoopJobCompleted(u, named)
  <2>1. /\ UNCHANGED <<state, starter, cleaner, cleaning, fresh>>
        /\ pending' \subseteq pending
    BY <1>5 DEF LoopJobCompleted, HandleJobCompleted, cleanVars
  <2> QED  BY <2>1, QuietEffect
<1> QED  BY <1>1, <1>2, <1>3, <1>4, <1>5

LEMMA LoopUnitKeeps ==
  ASSUME FleetInvariant, NEW u \in Units,
         \/ LoopUnitStarted(u) \/ LoopCleanupDone(u)
         \/ \E old \in BOOLEAN : LoopRegistration(u, old)
         \/ LoopJobStarted(u)
         \/ \E named \in BOOLEAN : LoopJobCompleted(u, named)
  PROVE  FleetInvariant'
<1>1. TypeOK /\ TypeOK'
  BY LoopUnitTyped DEF FleetInvariant
<1>2. UNCHANGED <<dies, sync>> /\ UNCHANGED worldVars
  BY DEF LoopUnitStarted, LoopCleanupDone, LoopRegistration, LoopJobStarted,
         LoopJobCompleted, agentVars
<1>3. LoopEffect
  BY LoopUnitEffect
<1>4. \A v \in overdue : v \in overdue' \/ starter'[v] \notin Launching
  <2>1. CASE LoopUnitStarted(u)
    BY <1>1, <2>1
    DEF LoopUnitStarted, HandleUnitStarted, Launching, TypeOK, LoopTypeOK
  <2>2. CASE ~ LoopUnitStarted(u)
    BY <2>2 DEF LoopCleanupDone, LoopRegistration, LoopJobStarted, LoopJobCompleted
  <2> QED  BY <2>1, <2>2
<1> QED  BY <1>1, <1>2, <1>3, <1>4, LoopKeepsInvariant

LEMMA LoopMachineEffect ==
  ASSUME FleetInvariant, NEW m \in Machines,
         \/ LoopResynced(m) \/ LoopHealth(m)
         \/ \E u \in Units : LoopEvent(m, u)
  PROVE  LoopEffect
<1>1. CASE LoopResynced(m)
  <2>1. /\ sync[m].runner \in [Units -> RunnerSights]
        /\ \A u \in fresh : sync[m].runner[u] = "none"
    BY DEF TypeOK, FleetInvariant, FreshUnknown
  <2> QED  BY <1>1, <2>1, ResyncedEffect DEF LoopResynced
<1>2. CASE LoopHealth(m)
  <2>1. UNCHANGED <<state, starter, cleaner, cleaning, fresh, pending>>
    BY <1>2 DEF LoopHealth, HandleHealth, unitVars, jobVars, cleanVars
  <2> QED  BY <2>1, QuietEffect
<1>3. CASE \E u \in Units : LoopEvent(m, u)
  <2>1. PICK u \in Units : LoopEvent(m, u)
    BY <1>3
  <2>2. starter[u] \notin Launching
    BY <2>1 DEF LoopEvent, FleetInvariant, LaunchOwned
  <2> QED  BY <2>1, <2>2, EventEffect DEF LoopEvent
<1> QED  BY <1>1, <1>2, <1>3

LEMMA LoopMachineKeeps ==
  ASSUME FleetInvariant, NEW m \in Machines,
         \/ LoopResynced(m) \/ LoopHealth(m)
         \/ \E u \in Units : LoopEvent(m, u)
  PROVE  FleetInvariant'
<1>1. TypeOK /\ TypeOK'
  BY LoopMachineTyped DEF FleetInvariant
<1>2. UNCHANGED overdue /\ UNCHANGED worldVars
  BY DEF LoopResynced, LoopHealth, LoopEvent
<1>3. \A k \in Machines :
        /\ dies'[k] \subseteq dies[k]
        /\ sync'[k] = sync[k] \/ sync'[k] = NoSync
  BY <1>1 DEF LoopResynced, LoopHealth, LoopEvent, TypeOK
<1>4. LoopEffect
  BY LoopMachineEffect
<1> QED  BY <1>1, <1>2, <1>3, <1>4, LoopKeepsInvariant

LEMMA LoopOtherEffect ==
  ASSUME FleetInvariant,
         \/ LoopDesired \/ LoopTick \/ LoopCheckPassDone \/ LoopSessionStarted
         \/ LoopJobCompletedBlank
  PROVE  LoopEffect
<1>1. CASE LoopDesired
  BY <1>1, DesiredEffect DEF LoopDesired
<1>2. CASE LoopTick
  <2>1. TooLate \in SUBSET overdue /\ \A u \in TooLate : state[u] = "Creating"
    BY DEF TooLate
  <2> QED  BY <1>2, <2>1, TickEffect DEF LoopTick
<1>3. CASE LoopCheckPassDone
  <2>1. UNCHANGED <<state, starter, cleaner, cleaning, fresh, pending>>
    BY <1>3 DEF LoopCheckPassDone, HandleCheckPassDone, unitVars, jobVars, cleanVars
  <2> QED  BY <2>1, QuietEffect
<1>4. CASE LoopSessionStarted
  <2>1. UNCHANGED <<state, starter, cleaner, cleaning, fresh>> /\ pending' = {}
    BY <1>4 DEF LoopSessionStarted, HandleSessionStarted, unitVars, cleanVars
  <2> QED  BY <2>1, QuietEffect
<1>5. CASE LoopJobCompletedBlank
  <2>1. UNCHANGED <<state, starter, cleaner, cleaning, fresh>>
    BY <1>5 DEF LoopJobCompletedBlank, HandleJobCompletedBlank, unitVars, cleanVars
  <2>2. pending' \subseteq pending
    BY <1>5 DEF LoopJobCompletedBlank, HandleJobCompletedBlank
  <2> QED  BY <2>1, <2>2, QuietEffect
<1> QED  BY <1>1, <1>2, <1>3, <1>4, <1>5

LEMMA LoopOtherKeeps ==
  ASSUME FleetInvariant,
         \/ LoopDesired \/ LoopTick \/ LoopCheckPassDone \/ LoopSessionStarted
         \/ LoopJobCompletedBlank
  PROVE  FleetInvariant'
<1>1. TypeOK /\ TypeOK'
  BY LoopOtherTyped DEF FleetInvariant
<1>2. UNCHANGED <<dies, sync, overdue>> /\ UNCHANGED worldVars
  BY DEF LoopDesired, LoopTick, LoopCheckPassDone, LoopSessionStarted,
         LoopJobCompletedBlank, agentVars
<1>3. LoopEffect
  BY LoopOtherEffect
<1> QED  BY <1>1, <1>2, <1>3, LoopKeepsInvariant

\* Every step keeps the invariant.
LEMMA NextKeepsInvariant ==
  ASSUME FleetInvariant, [Next]_vars
  PROVE  FleetInvariant'
<1>1. CASE \E u \in Units : UnitStep(u)
  BY <1>1, JobKeeps, RunnerExitKeeps, LateKeeps, LaunchKeeps, UndoKeeps,
     CleanKeeps, CheckKeeps, LoopUnitKeeps
  DEF UnitStep
<1>2. CASE \E m \in Machines : MachineStep(m)
  BY <1>2, AgentKeeps, LoopMachineKeeps DEF MachineStep
<1>3. CASE \/ LoopDesired \/ LoopTick \/ LoopCheckPassDone \/ LoopSessionStarted
           \/ LoopJobCompletedBlank
  BY <1>3, LoopOtherKeeps
<1>4. CASE UNCHANGED vars
  <2>1. TypeOK'
    BY <1>4, NextTyped DEF FleetInvariant
  <2>2. UNCHANGED <<state, pending, cleaning, cleaner, fresh, starter, overdue,
                    sync, dies, ctr, reg, job, ghost>>
    BY <1>4 DEF vars, loopVars, unitVars, jobVars, cleanVars, agentVars, worldVars
  <2> QED
    BY <2>1, <2>2
    DEF FleetInvariant, OneCleaner, PendingIsDead, FreshUnknown, LaunchOwned,
        NoRunnerLeft, JobHeld
<1> QED  BY <1>1, <1>2, <1>3, <1>4 DEF Next

(***************************************************************************)
(* The start.                                                              *)
(***************************************************************************)
LEMMA InitInvariant ==
  ASSUME Init PROVE FleetInvariant
<1>1. PICK reached \in SUBSET Machines, left \in SUBSET Units :
        InitWith(reached, left)
  BY DEF Init
<1>2. Budgets \cup {0} \subseteq Nat
  BY FleetAssumption
<1>3. LoopTypeOK
  <2>1. effMax \in [Machines -> Nat]
    BY <1>1, <1>2 DEF InitWith
  <2>2. health \in [Machines -> Healths]
    BY <1>1 DEF InitWith, Healths
  <2> QED
    BY <1>1, <2>1, <2>2
    DEF InitWith, LoopTypeOK, UnitStates, StarterPlaces, CleanerPlaces
<1>4. TypeOK
  BY <1>1, <1>3, NoSyncTyped DEF InitWith, TypeOK
<1>5. OneCleaner /\ PendingIsDead
  BY <1>1 DEF InitWith, OneCleaner, PendingIsDead
<1>6. FreshUnknown
  BY <1>1 DEF InitWith, FreshUnknown, NoSync
<1>7. LaunchOwned /\ NoRunnerLeft /\ JobHeld
  BY <1>1 DEF InitWith, LaunchOwned, Launching, NoRunnerLeft, JobHeld
<1> QED  BY <1>4, <1>5, <1>6, <1>7 DEF FleetInvariant

(***************************************************************************)
(* The theorems.                                                           *)
(***************************************************************************)

\* Every variable keeps its type: no handler of loop.go leaves an entry of a
\* unit, a cleanup or a pending completion outside of what the others expect.
THEOREM TypeCorrect == Spec => []TypeOK
<1>1. Init => TypeOK
  BY InitInvariant DEF FleetInvariant
<1>2. TypeOK /\ [Next]_vars => TypeOK'
  BY NextTyped
<1> QED  BY <1>1, <1>2, PTL DEF Spec

\* The inductive invariant holds in every reachable state.
THEOREM InvariantHolds == Spec => []FleetInvariant
<1>1. Init => FleetInvariant
  BY InitInvariant
<1>2. FleetInvariant /\ [Next]_vars => FleetInvariant'
  BY NextKeepsInvariant
<1> QED  BY <1>1, <1>2, PTL DEF Spec

\* Cleaning up (cleanupParts, unit.go:107) never takes the container of a
\* runner that has a job, in however many ways the unit came to be dying and
\* whatever launch, rollback or late command runs beside it.
THEOREM NoJobIsKilled == Spec => []NoJobKilled
<1>1. FleetInvariant => NoJobKilled
  BY DEF FleetInvariant, JobHeld, NoJobKilled
<1> QED  BY <1>1, InvariantHolds, PTL

\* A completion is waited for only of a runner that is dead (markDying,
\* loop.go:209), so no runner is counted both as running and as done.
THEOREM PendingAreDead == Spec => []PendingIsDead
<1>1. FleetInvariant => PendingIsDead
  BY DEF FleetInvariant
<1> QED  BY <1>1, InvariantHolds, PTL

\* No step takes away the container of a registered runner.
LEMMA RemovalOrder ==
  ASSUME FleetInvariant, [Next]_vars, NEW u \in Units,
         ctr[u] # "none", ctr'[u] = "none", u \in reg
  PROVE  FALSE
<1>1. ctr' # ctr
  OBVIOUS
<1>2. TypeOK /\ NoRunnerLeft
  BY DEF FleetInvariant
<1>3. CASE \E v \in Units : UnitStep(v)
  <2>1. PICK v \in Units : UnitStep(v)
    BY <1>3
  <2>2. \/ RunnerExit(v) \/ LateCreate(v) \/ Create(v) \/ Start(v)
        \/ Undo(v) \/ CleanContainer(v)
    BY <1>1, <2>1
    DEF UnitStep, JobStart, JobEnd, RegistrationExpires, StartTimeout,
        GenerateJIT, CleanRegistration, CheckRegistration, LoopUnitStarted,
        LoopCleanupDone, LoopRegistration, LoopJobStarted, LoopJobCompleted,
        worldVars
  <2>3. CASE RunnerExit(v) \/ LateCreate(v) \/ Create(v) \/ Start(v)
    BY <1>2, <2>3 DEF RunnerExit, LateCreate, Create, Start, TypeOK
  <2>4. CASE Undo(v) \/ CleanContainer(v)
    <3>1. /\ ContainerRemoved(v) \/ ContainerKept(v)
          /\ starter[v] = "undoRm" \/ cleaner[v] = "rm"
      BY <1>1, <2>4 DEF Undo, CleanContainer
    <3>2. v = u
      BY <3>1, ContainerActs
    <3> QED  BY <1>2, <3>1, <3>2 DEF NoRunnerLeft
  <2> QED  BY <2>2, <2>3, <2>4
<1>4. CASE \E m \in Machines : MachineStep(m)
  BY <1>1, <1>4
  DEF MachineStep, AgentOpen, AgentResync, AgentRoundFails, AgentDrop,
      AgentFatal, LoopResynced, LoopHealth, LoopEvent, worldVars
<1>5. CASE \/ LoopDesired \/ LoopTick \/ LoopCheckPassDone \/ LoopSessionStarted
           \/ LoopJobCompletedBlank
  BY <1>1, <1>5
  DEF LoopDesired, LoopTick, LoopCheckPassDone, LoopSessionStarted,
      LoopJobCompletedBlank, worldVars
<1>6. CASE UNCHANGED vars
  BY <1>1, <1>6 DEF vars, worldVars
<1> QED  BY <1>3, <1>4, <1>5, <1>6 DEF Next

\* Containers are taken away by a rollback and by a cleanup only, by either
\* after the registration (cleanupParts, unit.go:107-126).
THEOREM RegistrationGoesFirst == Spec => RegistrationFirst
<1>1. FleetInvariant /\ [Next]_vars =>
        [\A u \in Units : ctr[u] # "none" /\ ctr'[u] = "none" => u \notin reg]_vars
  BY RemovalOrder
<1> QED  BY <1>1, InvariantHolds, PTL DEF RegistrationFirst, Spec

\* No step leaves the capacity behind the machines.
LEMMA CapacityKept ==
  ASSUME CapacityCurrent, [Next]_vars
  PROVE  CapacityCurrent'
<1>1. CASE UNCHANGED machineVars
  BY <1>1 DEF machineVars, CapacityCurrent
<1>2. CASE \E m \in Machines : LoopResynced(m) \/ LoopHealth(m)
  BY <1>2
  DEF LoopResynced, LoopHealth, HandleResynced, HandleHealth,
      RecomputeCapacity, CapacityCurrent
<1>3. CASE LoopDesired
  BY <1>3 DEF LoopDesired, HandleDesired, RecomputeCapacity, CapacityCurrent
<1>4. \/ UNCHANGED machineVars \/ LoopDesired
      \/ \E m \in Machines : LoopResynced(m) \/ LoopHealth(m)
  <2>1. CASE \E u \in Units : UnitStep(u)
    <3>1. PICK u \in Units : UnitStep(u)
      BY <2>1
    <3> QED
      BY <3>1
      DEF UnitStep, JobStart, JobEnd, RunnerExit, RegistrationExpires,
          LateCreate, StartTimeout, GenerateJIT, Create, Start, Undo, StarterAt,
          CleanRegistration, CleanContainer, CleanerAt, CheckRegistration,
          LoopUnitStarted, LoopCleanupDone, LoopRegistration,
          LoopJobStarted, LoopJobCompleted, HandleUnitStarted,
          HandleCleanupDone, HandleRegistration, HandleJobStarted,
          HandleJobCompleted, loopVars
  <2>2. CASE \E m \in Machines : MachineStep(m)
    BY <2>2
    DEF MachineStep, AgentOpen, AgentResync, AgentRoundFails, AgentDrop,
        AgentFatal, LoopEvent, HandleEvent, loopVars
  <2>3. CASE \/ LoopTick \/ LoopCheckPassDone \/ LoopSessionStarted
             \/ LoopJobCompletedBlank
    BY <2>3
    DEF LoopTick, HandleTick, LoopCheckPassDone, HandleCheckPassDone,
        LoopSessionStarted, HandleSessionStarted, LoopJobCompletedBlank,
        HandleJobCompletedBlank
  <2>4. CASE UNCHANGED vars
    BY <2>4 DEF vars, loopVars
  <2> QED  BY <2>1, <2>2, <2>3, <2>4 DEF Next
<1> QED  BY <1>1, <1>2, <1>3, <1>4

\* Whatever the loop handles, the advertised capacity is that of the machines
\* as they then are: HandleHealth and HandleResynced recompute it, and no
\* other handler touches a health or a limit.
THEOREM CapacityIsCurrent == Spec => []CapacityCurrent
<1>1. Init => CapacityCurrent
  BY DEF Init, InitWith, CapacityCurrent
<1>2. CapacityCurrent /\ [Next]_vars => CapacityCurrent'
  BY CapacityKept
<1> QED  BY <1>1, <1>2, PTL DEF Spec
=============================================================================
