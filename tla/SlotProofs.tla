----------------------------- MODULE SlotProofs -----------------------------
(***************************************************************************)
(* Proofs about what a unit leaves on its machine, on top of               *)
(* FleetInvariant: that every container of a launch that is not abandoned  *)
(* is counted in a slot, what follows for the placement of new units, and  *)
(* that Fleet implements Unit.                                             *)
(***************************************************************************)
EXTENDS FleetProofs, FiniteSetTheorems

(***************************************************************************)
(* SlotInvariant, for one unit at a time.  First the steps that are not    *)
(* the loop's.                                                             *)
(***************************************************************************)

\* The loop's view of the units stands still, a container appears only for a
\* unit that is being created, and no snapshot is taken.
LEMMA OutsideStep ==
  ASSUME TypeOK, NEW u \in Units, SlotInvariant(u),
         UNCHANGED <<unitVars, machineVars, startedAt, sync>>,
         starter'[u] \in Launching => starter[u] \in Launching,
         \A m \in Machines : u \in dies'[m] => u \in dies[m] \/ m = mach[u],
         ctr'[u] # "none" => ctr[u] # "none" \/ state[u] = "Creating",
         StaysCleaned(u)'
  PROVE  SlotInvariant(u)'
<1> USE DEF unitVars, machineVars
<1>1. LaunchInTime(u)'
  BY DEF SlotInvariant, LaunchInTime
<1>2. StartUnreported(u)' /\ DiesAtHome(u)'
  BY DEF SlotInvariant, StartUnreported, DiesAtHome
<1>3. Counted(u)' /\ ShownBySync(u)'
  BY DEF SlotInvariant, Counted, ShownBySync, InFlight, Known
<1> QED  BY <1>1, <1>2, <1>3 DEF SlotInvariant

LEMMA WorldSlots ==
  ASSUME TypeOK, NEW u \in Units, u \notin Abandoned, SlotInvariant(u),
         NEW v \in Units,
         \/ JobStart(v) \/ JobEnd(v) \/ RunnerExit(v)
         \/ RegistrationExpires(v) \/ LateCreate(v) \/ StartTimeout(v)
         \/ CheckRegistration(v)
  PROVE  SlotInvariant(u)'
<1>1. UNCHANGED <<unitVars, machineVars, startedAt, sync, starter, cleaner>>
  BY DEF JobStart, JobEnd, RunnerExit, RegistrationExpires, LateCreate,
         StartTimeout, CheckRegistration, loopVars, cleanVars, agentVars
<1>2. u \notin ghost
  BY DEF Abandoned
<1>3. u \in reg' => u \in reg
  BY DEF JobStart, JobEnd, RunnerExit, RegistrationExpires, LateCreate,
         StartTimeout, CheckRegistration, worldVars
<1>4. ctr'[u] # "none" => ctr[u] # "none"
  BY <1>2 DEF JobStart, JobEnd, RunnerExit, RegistrationExpires, LateCreate,
              StartTimeout, CheckRegistration, worldVars, TypeOK
<1>5. \A m \in Machines : u \in dies'[m] => u \in dies[m] \/ m = mach[u]
  <2>1. CASE RunnerExit(v)
    BY <2>1 DEF RunnerExit, EmitDie, TypeOK, LoopTypeOK
  <2>2. CASE ~ RunnerExit(v)
    BY <2>2 DEF JobStart, JobEnd, RegistrationExpires, LateCreate,
                StartTimeout, CheckRegistration, agentVars
  <2> QED  BY <2>1, <2>2
<1>6. StaysCleaned(u)'
  BY <1>1, <1>3, <1>4 DEF SlotInvariant, StaysCleaned
<1> QED  BY <1>1, <1>3, <1>4, <1>5, <1>6, OutsideStep

\* The two steps of cleanupParts add no registration and no container.
LEMMA CleanedActs ==
  ASSUME TypeOK, NEW v \in Units,
         \/ (RegistrationRemoved(v) \/ RegistrationKept(v)) /\ UNCHANGED <<ctr, dies>>
         \/ (ContainerRemoved(v) \/ ContainerKept(v)) /\ UNCHANGED reg
  PROVE  /\ reg' \subseteq reg
         /\ \A u \in Units : ctr'[u] # "none" => ctr[u] # "none"
         /\ \A u \in Units, m \in Machines :
              u \in dies'[m] => u \in dies[m] \/ m = mach[u]
<1>1. CASE (RegistrationRemoved(v) \/ RegistrationKept(v)) /\ UNCHANGED <<ctr, dies>>
  BY <1>1 DEF RegistrationRemoved, RegistrationKept
<1>2. CASE (ContainerRemoved(v) \/ ContainerKept(v)) /\ UNCHANGED reg
  <2>1. \/ UNCHANGED <<ctr, dies>>
        \/ ctr' = [ctr EXCEPT ![v] = "none"] /\ EmitDie(v)
    BY <1>2 DEF ContainerRemoved, ContainerKept
  <2>2. dies' = dies \/ dies' = [dies EXCEPT ![mach[v]] = @ \cup {v}]
    BY <2>1 DEF EmitDie
  <2>3. dies \in [Machines -> SUBSET Units] /\ mach[v] \in Machines
    BY DEF TypeOK, LoopTypeOK
  <2>4. \A u \in Units, m \in Machines :
          u \in dies'[m] => u \in dies[m] \/ m = mach[u]
    BY <2>2, <2>3
  <2>5. \A u \in Units : ctr'[u] # "none" => ctr[u] # "none"
    BY <2>1 DEF TypeOK
  <2> QED  BY <1>2, <2>4, <2>5
<1> QED  BY <1>1, <1>2

\* Only a unit that is being created has a launch that makes something, and
\* none such is being cleaned up.
LEMMA LaunchSlots ==
  ASSUME FleetInvariant, NEW u \in Units, SlotInvariant(u), NEW v \in Units,
         GenerateJIT(v) \/ Create(v) \/ Start(v) \/ Undo(v)
  PROVE  SlotInvariant(u)'
<1>1. PICK place \in StarterPlaces : StarterAt(v, place)
  BY DEF GenerateJIT, Create, Start, Undo, StarterPlaces, Launching
<1>2. /\ TypeOK
      /\ UNCHANGED <<unitVars, machineVars, startedAt, sync, cleaner>>
      /\ \A w \in Units \ {v} : starter'[w] = starter[w]
  BY <1>1 DEF StarterAt, cleanVars, FleetInvariant, TypeOK, LoopTypeOK
<1>3. starter'[v] \in Launching => starter[v] \in Launching
  <2>1. CASE GenerateJIT(v) \/ Create(v) \/ Start(v)
    BY <1>2, <2>1 DEF GenerateJIT, Create, Start, Launching
  <2>2. CASE Undo(v)
    BY <1>2, <2>2 DEF Undo, StarterAt, Launching, TypeOK, LoopTypeOK
  <2> QED  BY <2>1, <2>2
<1>4. /\ u \in reg' => u \in reg \/ state[u] = "Creating"
      /\ ctr'[u] # "none" => ctr[u] # "none" \/ state[u] = "Creating"
      /\ \A m \in Machines : u \in dies'[m] => u \in dies[m] \/ m = mach[u]
  <2>1. CASE GenerateJIT(v) \/ Create(v) \/ Start(v)
    <3>1. starter[u] \in Launching => state[u] = "Creating"
      BY DEF SlotInvariant, LaunchInTime
    <3> QED
      BY <1>2, <2>1, <3>1 DEF GenerateJIT, Create, Start, Launching, TypeOK
  <2>2. CASE Undo(v)
    BY <1>2, <2>2, CleanedActs DEF Undo
  <2> QED  BY <2>1, <2>2
<1>5. cleaner[u] # "idle" => state[u] # "Creating"
  BY DEF FleetInvariant, OneCleaner
<1>6. StaysCleaned(u)'
  BY <1>2, <1>4, <1>5 DEF SlotInvariant, StaysCleaned
<1> QED  BY <1>2, <1>3, <1>4, <1>6, OutsideStep

LEMMA CleanSlots ==
  ASSUME TypeOK, NEW u \in Units, SlotInvariant(u), NEW v \in Units,
         CleanRegistration(v) \/ CleanContainer(v)
  PROVE  SlotInvariant(u)'
<1>1. PICK place \in CleanerPlaces : CleanerAt(v, place)
  BY DEF CleanRegistration, CleanContainer, CleanerPlaces
<1>2. /\ UNCHANGED <<unitVars, machineVars, startedAt, sync, starter>>
      /\ \A w \in Units : cleaner'[w] = IF w = v THEN place ELSE cleaner[w]
  BY <1>1 DEF CleanerAt, TypeOK, LoopTypeOK
<1>3. /\ reg' \subseteq reg
      /\ ctr'[u] # "none" => ctr[u] # "none"
      /\ \A m \in Machines : u \in dies'[m] => u \in dies[m] \/ m = mach[u]
  BY CleanedActs DEF CleanRegistration, CleanContainer
<1>4. StaysCleaned(u)'
  <2>1. CASE u # v
    BY <1>2, <1>3, <2>1 DEF SlotInvariant, StaysCleaned
  <2>2. CASE u = v /\ CleanRegistration(v)
    BY <1>2, <2>2
    DEF CleanRegistration, CleanerAt, RegistrationRemoved, StaysCleaned, TypeOK, LoopTypeOK
  <2>3. CASE u = v /\ CleanContainer(v)
    <3>1. u \notin reg'
      BY <1>3, <2>3 DEF CleanContainer, SlotInvariant, StaysCleaned
    <3>2. cleaner'[u] = "ok" => ctr'[u] = "none"
      BY <1>2, <2>3
      DEF CleanContainer, CleanerAt, ContainerRemoved, TypeOK, LoopTypeOK
    <3> QED  BY <3>1, <3>2 DEF StaysCleaned
  <2> QED  BY <2>1, <2>2, <2>3
<1> QED  BY <1>2, <1>3, <1>4, OutsideStep

\* A snapshot taken now shows every container there is.
LEMMA AgentSlots ==
  ASSUME TypeOK, NEW u \in Units, SlotInvariant(u), NEW m \in Machines,
         \/ AgentOpen(m) \/ AgentResync(m) \/ AgentRoundFails(m)
         \/ AgentDrop(m) \/ AgentFatal(m)
  PROVE  SlotInvariant(u)'
<1>1. UNCHANGED <<unitVars, machineVars, startedAt, starter, cleaner, ctr, reg>>
  BY DEF AgentOpen, AgentResync, AgentRoundFails, AgentDrop, AgentFatal,
         loopVars, cleanVars, worldVars
<1>2. \A k \in Machines : u \in dies'[k] => u \in dies[k]
  <2>1. CASE AgentOpen(m) \/ AgentResync(m)
    BY <2>1 DEF AgentOpen, AgentResync
  <2>2. CASE AgentRoundFails(m) \/ AgentFatal(m)
    BY <2>2 DEF AgentRoundFails, AgentFatal, TypeOK
  <2>3. CASE AgentDrop(m)
    BY <2>3 DEF AgentDrop, TypeOK
  <2> QED  BY <2>1, <2>2, <2>3
<1>3. StaysCleaned(u)'
  BY <1>1 DEF SlotInvariant, StaysCleaned
<1>4. CASE AgentResync(m)
  <2>1. \A k \in Machines :
          \/ sync'[k] = sync[k]
          \/ /\ sync'[k].started = startedAt
             /\ mach[u] = k /\ ctr[u] # "none" => sync'[k].runner[u] # "none"
    BY <1>4 DEF AgentResync, TypeOK, LoopTypeOK, Sight
  <2>2. StartUnreported(u)'
    BY <1>1, <2>1 DEF SlotInvariant, StartUnreported, unitVars
  <2>3. ShownBySync(u)'
    BY <1>1, <2>1
    DEF SlotInvariant, ShownBySync, InFlight, Known, unitVars, TypeOK, LoopTypeOK
  <2>4. LaunchInTime(u)' /\ DiesAtHome(u)' /\ Counted(u)'
    BY <1>1, <1>2
    DEF SlotInvariant, LaunchInTime, DiesAtHome, Counted, Known, unitVars, machineVars
  <2> QED  BY <1>3, <2>2, <2>3, <2>4 DEF SlotInvariant
<1>5. CASE ~ AgentResync(m)
  <2>1. sync' = sync
    BY <1>5 DEF AgentOpen, AgentRoundFails, AgentDrop, AgentFatal
  <2> QED  BY <1>1, <1>2, <1>3, <2>1, OutsideStep
<1> QED  BY <1>4, <1>5

(***************************************************************************)
(* Then the loop's.  What a message does to one unit, on top of            *)
(* LoopEffect, for its slot to be held: its launch ends at most once, it   *)
(* is not moved, its container stays counted, and it does not become one   *)
(* that a pending snapshot judges without having shown it.                 *)
(***************************************************************************)
SlotEffect(u) ==
  /\ u \in fresh' \/ state'[u] = "Creating" =>
       /\ u \in fresh \/ state[u] = "Creating"
       /\ u \in startedAt' => u \in startedAt
  /\ u \notin fresh => mach'[u] = mach[u]
  /\ ctr[u] # "none" =>
       \/ state'[u] = "Creating"
       \/ state'[u] # "Absent" /\ parts'[u]
       \/ /\ state'[u] = "Absent"
          /\ health'[mach[u]] # "Healthy" \/ mach[u] \in waiting'
  /\ LET s == sync[mach[u]]
     IN  ctr[u] # "none" /\ sync'[mach[u]].on /\ InFlight(u, s) =>
           \/ state'[u] = "Creating"
           \/ state'[u] # "Absent" /\ u \in startedAt' /\ u \notin s.started

LEMMA LoopStepSlots ==
  ASSUME FleetInvariant, LoopEffect, NEW u \in Units, u \notin Abandoned,
         SlotInvariant(u), SlotEffect(u), UNCHANGED worldVars,
         \A m \in Machines :
           /\ dies'[m] \subseteq dies[m]
           /\ sync'[m] = sync[m] \/ sync'[m] = NoSync
  PROVE  SlotInvariant(u)'
<1>1. /\ UNCHANGED <<ctr, reg>>
      /\ TypeOK /\ mach[u] \in Machines
      /\ u \in fresh => ctr[u] = "none" /\ \A m \in Machines : u \notin dies[m]
  BY DEF worldVars, FleetInvariant, FreshUnknown, TypeOK, LoopTypeOK
<1>2. LaunchInTime(u)'
  BY <1>1 DEF LoopEffect, SlotInvariant, LaunchInTime, Abandoned
<1>3. StartUnreported(u)'
  BY DEF SlotEffect, SlotInvariant, StartUnreported, NoSync
<1>4. DiesAtHome(u)'
  BY <1>1 DEF SlotEffect, SlotInvariant, DiesAtHome
<1>5. StaysCleaned(u)'
  BY <1>1 DEF LoopEffect, SlotInvariant, StaysCleaned
<1>6. Counted(u)'
  BY <1>1 DEF SlotEffect, Counted, Known
<1>7. ShownBySync(u)'
  <2>1. SUFFICES ASSUME sync'[mach'[u]].on, ctr[u] # "none"
                 PROVE  \/ sync'[mach'[u]].runner[u] # "none"
                        \/ InFlight(u, sync[mach[u]])'
    BY <1>1 DEF ShownBySync
  <2>2. mach'[u] = mach[u] /\ sync'[mach[u]] = sync[mach[u]]
    BY <1>1, <2>1 DEF SlotEffect, NoSync
  <2> QED
    BY <1>1, <2>1, <2>2 DEF SlotEffect, SlotInvariant, ShownBySync, InFlight, Known
<1> QED  BY <1>2, <1>3, <1>4, <1>5, <1>6, <1>7 DEF SlotInvariant

\* A handler that leaves units, machines and launches alone.
LEMMA QuietSlots ==
  ASSUME NEW u \in Units, SlotInvariant(u),
         UNCHANGED <<state, mach, parts, fresh, startedAt, health, waiting>>
  PROVE  SlotEffect(u)
BY DEF SlotInvariant, SlotEffect, Counted, InFlight, Known

\* createUnits makes units of ids never used, from states st and parts pt in
\* which u has at most begun to die with its parts counted.
LEMMA CreateSlots ==
  ASSUME FleetInvariant, NEW u \in Units, SlotInvariant(u), NEW n, NEW st, NEW pt,
         CreateUnits(n, st, pt), UNCHANGED <<startedAt, health, waiting>>,
         \/ st[u] = state[u] /\ pt[u] = parts[u]
         \/ st[u] = "Dying" /\ pt[u] = TRUE /\ ~sync'[mach[u]].on
  PROVE  SlotEffect(u)
<1>1. PICK new \in SUBSET fresh : \E at \in [new -> Machines] : Created(new, at, st, pt)
  BY CreatedUnits
<1>2. PICK at \in [new -> Machines] : Created(new, at, st, pt)
  BY <1>1
<1>3. /\ state'[u] = IF u \in new THEN "Creating" ELSE st[u]
      /\ parts'[u] = IF u \in new THEN FALSE ELSE pt[u]
      /\ mach'[u] = IF u \in new THEN at[u] ELSE mach[u]
      /\ fresh' = fresh \ new
  BY <1>2 DEF Created
<1>4. u \in fresh => ctr[u] = "none" /\ state[u] = "Absent"
  BY DEF FleetInvariant, FreshUnknown
<1> QED
  BY <1>3, <1>4 DEF SlotInvariant, SlotEffect, Counted, InFlight, Known

LEMMA LoopUnitSlots ==
  ASSUME FleetInvariant, NEW u \in Units, SlotInvariant(u), NEW v \in Units,
         \/ LoopUnitStarted(v) \/ LoopCleanupDone(v)
         \/ \E old \in BOOLEAN : LoopRegistration(v, old)
         \/ LoopJobStarted(v)
         \/ \E named \in BOOLEAN : LoopJobCompleted(v, named)
  PROVE  SlotEffect(u)
<1>1. TypeOK /\ LoopTypeOK
  BY DEF FleetInvariant, TypeOK
<1>2. CASE LoopUnitStarted(v)
  <2>1. UNCHANGED <<mach, fresh, health, waiting, sync>>
    BY <1>2 DEF LoopUnitStarted, HandleUnitStarted, machineVars, agentVars
  <2>2. CASE v = u /\ state[v] = "Creating"
    <3>1. /\ startedAt' = startedAt \cup {u} /\ parts'[u]
          /\ state'[u] \in {"Starting", "Dying"}
      BY <1>1, <1>2, <2>2
      DEF LoopUnitStarted, HandleUnitStarted, LeftByStart, LoopTypeOK
    <3>2. u \notin fresh
      BY <2>2 DEF FleetInvariant, FreshUnknown
    <3>3. mach[u] \in Machines /\ u \notin sync[mach[u]].started
      BY <1>1, <2>2 DEF LoopTypeOK, SlotInvariant, StartUnreported
    <3> QED  BY <2>1, <3>1, <3>2, <3>3 DEF SlotEffect
  <2>3. CASE ~(v = u /\ state[v] = "Creating")
    <3>1. /\ state'[u] = state[u] /\ parts'[u] = parts[u]
          /\ u \in startedAt' <=> u \in startedAt
      BY <1>1, <1>2, <2>3 DEF LoopUnitStarted, HandleUnitStarted, LoopTypeOK
    <3> QED
      BY <2>1, <3>1 DEF SlotEffect, SlotInvariant, Counted, InFlight, Known
  <2> QED  BY <2>2, <2>3
<1>3. CASE LoopCleanupDone(v)
  <2>1. UNCHANGED <<mach, fresh, health, waiting, sync>>
    BY <1>3 DEF LoopCleanupDone, HandleCleanupDone, machineVars, agentVars
  <2>2. CASE v = u /\ cleaner[u] = "ok"
    <3>1. ctr[u] = "none"
      BY <2>2 DEF SlotInvariant, StaysCleaned
    <3>2. state'[u] = "Absent"
      BY <1>1, <1>3, <2>2
      DEF LoopCleanupDone, HandleCleanupDone, Forget, LoopTypeOK
    <3>3. u \notin fresh
      BY <1>1, <2>2 DEF FleetInvariant, OneCleaner, FreshUnknown
    <3> QED  BY <2>1, <3>1, <3>2, <3>3 DEF SlotEffect
  <2>3. CASE ~(v = u /\ cleaner[u] = "ok")
    <3>1. /\ state'[u] = state[u] /\ parts'[u] = parts[u]
          /\ u \in startedAt' <=> u \in startedAt
      BY <1>1, <1>3, <2>3
      DEF LoopCleanupDone, HandleCleanupDone, Forget, LoopTypeOK
    <3> QED
      BY <2>1, <3>1 DEF SlotEffect, SlotInvariant, Counted, InFlight, Known
  <2> QED  BY <2>2, <2>3
<1>4. CASE \E old \in BOOLEAN : LoopRegistration(v, old)
  <2>1. UNCHANGED <<mach, parts, fresh, startedAt, health, waiting, sync>>
    BY <1>4 DEF LoopRegistration, HandleRegistration, machineVars, agentVars
  <2>2. \/ state'[u] = state[u]
        \/ state[u] \in {"Starting", "Running"} /\ state'[u] \in {"Running", "Dying"}
    BY <1>1, <1>4 DEF LoopRegistration, HandleRegistration, LoopTypeOK
  <2> QED
    BY <2>1, <2>2 DEF SlotEffect, SlotInvariant, Counted, InFlight, Known
<1>5. CASE LoopJobStarted(v) \/ \E named \in BOOLEAN : LoopJobCompleted(v, named)
  <2>1. UNCHANGED <<state, mach, parts, fresh, startedAt, health, waiting>>
    BY <1>5 DEF LoopJobStarted, HandleJobStarted, LoopJobCompleted,
                HandleJobCompleted, machineVars
  <2> QED  BY <2>1, QuietSlots
<1> QED  BY <1>2, <1>3, <1>4, <1>5

\* The snapshot judges the unit: dead or vanished it is removed, unknown and
\* alive adopted, and whatever is left of it is counted from then on.
LEMMA ResyncedSlots ==
  ASSUME FleetInvariant, NEW u \in Units, SlotInvariant(u), NEW m \in Machines,
         LoopResynced(m)
  PROVE  SlotEffect(u)
<1> DEFINE s == sync[m]
           here == {w \in Units : mach[w] = m}
           seen == {w \in here : Known(w) /\ ~InFlight(w, s)}
           adopt == {w \in here : VerdictOf(w, s) = "Adopt"}
           remove == {w \in here : VerdictOf(w, s) = "RemoveUnit"}
<1>1. /\ TypeOK /\ LoopTypeOK /\ s.on
      /\ sync' = [sync EXCEPT ![m] = NoSync] /\ HandleResynced(m, s)
  BY DEF FleetInvariant, TypeOK, LoopResynced
<1>2. /\ state'[u] = IF u \in adopt THEN "Starting"
                     ELSE IF u \in remove THEN "Dying" ELSE state[u]
      /\ parts'[u] = IF u \in seen \cup adopt \cup remove
                     THEN s.runner[u] # "none" ELSE parts[u]
      /\ UNCHANGED <<mach, fresh, startedAt>>
  BY <1>1 DEF HandleResynced
<1>3. \A k \in Machines \ {m} : health'[k] = health[k] /\ (k \in waiting' <=> k \in waiting)
  BY <1>1 DEF HandleResynced, LoopTypeOK
<1>4. s.runner[u] \in RunnerSights
  BY <1>1 DEF TypeOK
<1>5. CASE mach[u] # m
  <2>1. /\ state'[u] = state[u] /\ parts'[u] = parts[u]
        /\ sync'[mach[u]] = sync[mach[u]]
        /\ health'[mach[u]] = health[mach[u]]
        /\ mach[u] \in waiting' <=> mach[u] \in waiting
    BY <1>1, <1>2, <1>3, <1>5 DEF TypeOK, LoopTypeOK
  <2> QED
    BY <1>2, <2>1 DEF SlotEffect, SlotInvariant, Counted, InFlight, Known
<1>6. CASE mach[u] = m
  <2>1. ~sync'[mach[u]].on
    BY <1>1, <1>6 DEF NoSync, TypeOK
  <2>2. ctr[u] # "none" => s.runner[u] # "none" \/ InFlight(u, s)
    BY <1>1, <1>6 DEF SlotInvariant, ShownBySync
  <2>3. state'[u] = "Creating" => state[u] = "Creating"
    BY <1>2
  <2>4. state[u] \in UnitStates
    BY <1>1 DEF LoopTypeOK
  <2>5. ASSUME ctr[u] # "none"
        PROVE  state'[u] = "Creating" \/ (state'[u] # "Absent" /\ parts'[u])
    <3>1. CASE InFlight(u, s)
      <4>1. VerdictOf(u, s) = "None"
        BY <3>1 DEF VerdictOf, Verdict
      <4>2. state'[u] = state[u] /\ parts'[u] = parts[u]
        BY <1>2, <3>1, <4>1
      <4> QED
        BY <2>5, <3>1, <4>2 DEF SlotInvariant, Counted, InFlight, Known
    <3>2. CASE ~InFlight(u, s)
      <4>1. s.runner[u] \in {"dead", "alive"}
        BY <1>4, <2>2, <2>5, <3>2 DEF RunnerSights
      <4>2. state[u] = "Absent" => u \in adopt \cup remove
        BY <1>6, <3>2, <4>1 DEF VerdictOf, Verdict
      <4>3. u \in seen \cup adopt \cup remove
        BY <1>6, <3>2, <4>2 DEF Known
      <4> QED  BY <1>2, <4>1, <4>2, <4>3
    <3> QED  BY <3>1, <3>2
  <2> QED
    BY <1>2, <2>1, <2>3, <2>5 DEF SlotEffect
<1> QED  BY <1>5, <1>6

LEMMA HealthSlots ==
  ASSUME FleetInvariant, NEW u \in Units, SlotInvariant(u), NEW m \in Machines,
         LoopHealth(m)
  PROVE  SlotEffect(u)
<1>1. /\ TypeOK /\ LoopTypeOK
      /\ notice[m] \in {"Unhealthy", "Failed"} /\ HandleHealth(m, notice[m])
  BY DEF FleetInvariant, TypeOK, LoopHealth
<1>2. UNCHANGED <<state, mach, parts, fresh, startedAt, sync>>
  BY <1>1 DEF LoopHealth, HandleHealth, unitVars
<1>3. /\ health'[m] # "Healthy"
      /\ \A k \in Machines \ {m} :
           health'[k] = health[k] /\ (k \in waiting' <=> k \in waiting)
  BY <1>1 DEF HandleHealth, LoopTypeOK
<1>4. mach[u] \in Machines
  BY <1>1 DEF LoopTypeOK
<1> QED
  BY <1>2, <1>3, <1>4 DEF SlotEffect, SlotInvariant, Counted, InFlight, Known

LEMMA EventSlots ==
  ASSUME FleetInvariant, NEW u \in Units, SlotInvariant(u),
         NEW m \in Machines, NEW v \in Units, LoopEvent(m, v)
  PROVE  SlotEffect(u)
<1>1. TypeOK /\ LoopTypeOK /\ HandleEvent(v)
  BY DEF FleetInvariant, TypeOK, LoopEvent
<1>2. CASE UNCHANGED loopVars
  BY <1>2, QuietSlots DEF loopVars, unitVars, machineVars
<1>3. CASE ~ UNCHANGED loopVars
  <2> DEFINE st == [state EXCEPT ![v] = "Dying"]
             pt == [parts EXCEPT ![v] = TRUE]
  <2>1. /\ \E n : CreateUnits(n, st, pt)
        /\ UNCHANGED <<startedAt, health, waiting>>
    BY <1>1, <1>3 DEF HandleEvent, machineVars
  <2>2. \/ st[u] = state[u] /\ pt[u] = parts[u]
        \/ st[u] = "Dying" /\ pt[u] = TRUE /\ u = v
    BY <1>1 DEF LoopTypeOK
  <2>3. u = v => ~sync'[mach[u]].on
    BY DEF LoopEvent, SlotInvariant, DiesAtHome
  <2> HIDE DEF st, pt
  <2> QED  BY <2>1, <2>2, <2>3, CreateSlots
<1> QED  BY <1>2, <1>3

LEMMA LoopOtherSlots ==
  ASSUME FleetInvariant, NEW u \in Units, u \notin Abandoned, SlotInvariant(u),
         \/ LoopDesired \/ LoopTick \/ LoopCheckPassDone \/ LoopSessionStarted
         \/ LoopJobCompletedBlank
  PROVE  SlotEffect(u)
<1>1. CASE LoopDesired
  <2>1. /\ \E n : CreateUnits(n, state, parts)
        /\ UNCHANGED <<startedAt, health, waiting>>
    BY <1>1 DEF LoopDesired, HandleDesired
  <2> QED  BY <2>1, CreateSlots
<1>2. CASE LoopTick
  <2>1. state'[u] = state[u] /\ parts'[u] = parts[u]
    <3>1. u \notin TooLate
      BY DEF TooLate, Abandoned
    <3> QED
      BY <1>2, <3>1 DEF LoopTick, HandleTick, FleetInvariant, TypeOK, LoopTypeOK
  <2>2. UNCHANGED <<mach, fresh, startedAt, health, waiting, sync>>
    BY <1>2 DEF LoopTick, HandleTick, machineVars, agentVars
  <2> QED
    BY <2>1, <2>2 DEF SlotEffect, SlotInvariant, Counted, InFlight, Known
<1>3. CASE LoopCheckPassDone \/ LoopSessionStarted \/ LoopJobCompletedBlank
  <2>1. UNCHANGED <<state, mach, parts, fresh, startedAt, health, waiting>>
    BY <1>3 DEF LoopCheckPassDone, HandleCheckPassDone, LoopSessionStarted,
                HandleSessionStarted, LoopJobCompletedBlank,
                HandleJobCompletedBlank, unitVars, machineVars
  <2> QED  BY <2>1, QuietSlots
<1> QED  BY <1>1, <1>2, <1>3

(***************************************************************************)
(* Every step, and the start.                                              *)
(***************************************************************************)
LEMMA NextKeepsSlots ==
  ASSUME FleetInvariant, [Next]_vars, NEW u \in Units, u \notin Abandoned,
         SlotInvariant(u)
  PROVE  SlotInvariant(u)'
<1>1. TypeOK
  BY DEF FleetInvariant
<1>2. CASE \E v \in Units : UnitStep(v)
  <2>1. PICK v \in Units : UnitStep(v)
    BY <1>2
  <2>2. CASE \/ LoopUnitStarted(v) \/ LoopCleanupDone(v)
             \/ \E old \in BOOLEAN : LoopRegistration(v, old)
             \/ LoopJobStarted(v)
             \/ \E named \in BOOLEAN : LoopJobCompleted(v, named)
    <3>1. LoopEffect /\ SlotEffect(u)
      BY <2>2, LoopUnitEffect, LoopUnitSlots
    <3>2. UNCHANGED <<dies, sync>> /\ UNCHANGED worldVars
      BY <2>2 DEF LoopUnitStarted, LoopCleanupDone, LoopRegistration,
                  LoopJobStarted, LoopJobCompleted, agentVars
    <3> QED  BY <3>1, <3>2, LoopStepSlots
  <2> QED
    BY <1>1, <2>1, <2>2, WorldSlots, LaunchSlots, CleanSlots DEF UnitStep
<1>3. CASE \E m \in Machines : MachineStep(m)
  <2>1. PICK m \in Machines : MachineStep(m)
    BY <1>3
  <2>2. CASE \/ LoopResynced(m) \/ LoopHealth(m)
             \/ \E v \in Units : LoopEvent(m, v)
    <3>1. LoopEffect /\ SlotEffect(u)
      BY <2>2, LoopMachineEffect, ResyncedSlots, HealthSlots, EventSlots
    <3>2. UNCHANGED worldVars
      BY <2>2 DEF LoopResynced, LoopHealth, LoopEvent
    <3>3. \A k \in Machines :
            /\ dies'[k] \subseteq dies[k]
            /\ sync'[k] = sync[k] \/ sync'[k] = NoSync
      BY <1>1, <2>2 DEF LoopResynced, LoopHealth, LoopEvent, TypeOK
    <3> QED  BY <3>1, <3>2, <3>3, LoopStepSlots
  <2> QED  BY <1>1, <2>1, <2>2, AgentSlots DEF MachineStep
<1>4. CASE \/ LoopDesired \/ LoopTick \/ LoopCheckPassDone \/ LoopSessionStarted
           \/ LoopJobCompletedBlank
  <2>1. LoopEffect /\ SlotEffect(u)
    BY <1>4, LoopOtherEffect, LoopOtherSlots
  <2>2. UNCHANGED <<dies, sync>> /\ UNCHANGED worldVars
    BY <1>4 DEF LoopDesired, LoopTick, LoopCheckPassDone, LoopSessionStarted,
                LoopJobCompletedBlank, agentVars
  <2> QED  BY <2>1, <2>2, LoopStepSlots
<1>5. CASE UNCHANGED vars
  BY <1>1, <1>5, OutsideStep
  DEF vars, loopVars, cleanVars, agentVars, worldVars, SlotInvariant, StaysCleaned
<1> QED  BY <1>2, <1>3, <1>4, <1>5 DEF Next

LEMMA InitSlots ==
  ASSUME Init, NEW u \in Units
  PROVE  SlotInvariant(u)
<1>1. PICK reached \in SUBSET Machines, left \in SUBSET Units :
        InitWith(reached, left)
  BY DEF Init
<1>2. LaunchInTime(u) /\ StartUnreported(u) /\ DiesAtHome(u) /\ StaysCleaned(u)
  BY <1>1 DEF InitWith, LaunchInTime, Launching, StartUnreported, DiesAtHome,
              StaysCleaned, NoSync
<1>3. Counted(u)
  BY <1>1 DEF InitWith, Counted, Known
<1>4. ShownBySync(u)
  BY <1>1 DEF InitWith, ShownBySync, NoSync
<1> QED  BY <1>2, <1>3, <1>4 DEF SlotInvariant

(***************************************************************************)
(* The theorems on slots.                                                  *)
(***************************************************************************)

\* Where no launch is ever late and no connection is cut under one, all are in
\* time: the theorems below then hold of Spec as it is.
LEMMA InTimeWithoutLate ==
  ASSUME "late" \notin Faults, "cut" \notin Faults
  PROVE  Spec => []InTime
<1>1. Init => InTime
  BY DEF Init, InitWith, InTime, Abandoned
<1>2. InTime /\ [Next]_vars => InTime'
  <2>1. SUFFICES ASSUME InTime, [Next]_vars
                 PROVE  overdue' \subseteq overdue /\ ghost' \subseteq ghost
    BY DEF InTime, Abandoned
  <2>2. CASE \E u \in Units : UnitStep(u)
    BY <2>1, <2>2
    DEF UnitStep, JobStart, JobEnd, RunnerExit, RegistrationExpires, LateCreate,
        StartTimeout, GenerateJIT, Create, Start, Undo, StarterAt,
        CleanRegistration, CleanContainer, CleanerAt, CheckRegistration,
        LoopUnitStarted, LoopCleanupDone, LoopRegistration, LoopJobStarted,
        LoopJobCompleted, InTime, Abandoned, worldVars
  <2>3. CASE \E m \in Machines : MachineStep(m)
    BY <2>3
    DEF MachineStep, AgentOpen, AgentResync, AgentRoundFails, AgentDrop,
        AgentFatal, LoopResynced, LoopHealth, LoopEvent, worldVars
  <2>4. CASE \/ LoopDesired \/ LoopTick \/ LoopCheckPassDone
             \/ LoopSessionStarted \/ LoopJobCompletedBlank \/ UNCHANGED vars
    BY <2>4 DEF LoopDesired, LoopTick, LoopCheckPassDone, LoopSessionStarted,
                LoopJobCompletedBlank, worldVars, vars
  <2> QED  BY <2>1, <2>2, <2>3, <2>4 DEF Next
<1> QED  BY <1>1, <1>2, PTL DEF Spec

\* A unit that is never abandoned keeps SlotInvariant, however late the launches
\* of the others are and whichever of their creates are cut off.
THEOREM SlotInvariantHolds ==
  ASSUME NEW u \in Units
  PROVE  Spec /\ [](u \notin Abandoned) => []SlotInvariant(u)
<1>1. Init => SlotInvariant(u)
  BY InitSlots
<1>2. /\ FleetInvariant /\ u \notin Abandoned /\ SlotInvariant(u)
      /\ [Next]_vars
      => SlotInvariant(u)'
  BY NextKeepsSlots
<1> QED  BY <1>1, <1>2, InvariantHolds, PTL DEF Spec

\* The same for all units at once.
LEMMA AllSlotsHold == Spec /\ []InTime => []AllSlots
<1>1. Init => AllSlots
  BY InitSlots DEF AllSlots
<1>2. FleetInvariant /\ InTime /\ AllSlots /\ [Next]_vars => AllSlots'
  BY NextKeepsSlots DEF InTime, AllSlots
<1> QED  BY <1>1, <1>2, InvariantHolds, PTL DEF Spec

\* As long as no launch is abandoned every container on a healthy,
\* synchronised machine is counted in one of its slots (Occupied,
\* plan/spread.go:38), through lost die events, failed cleanups, machines that
\* come and go and leftovers of earlier incarnations.
THEOREM SlotsAreHeld == Spec /\ []InTime => []SlotHeld
<1>1. FleetInvariant /\ AllSlots => SlotHeld
  <2>1. FleetInvariant => \A u \in Units : state[u] \in UnitStates
    BY DEF FleetInvariant, TypeOK, LoopTypeOK
  <2> QED
    BY <2>1 DEF AllSlots, SlotInvariant, Counted, Known, SlotHeld, Occupies,
                UnitStates, KnownStates, LiveStates
<1> QED  BY <1>1, AllSlotsHold, InvariantHolds, PTL

(***************************************************************************)
(* Placing new units.                                                      *)
(***************************************************************************)

\* The step that creates u is a run of createUnits, for a number of runners
\* that Desired gives; a unit whose die event asks for it begins to die first.
LEMMA CreationStep ==
  ASSUME FleetInvariant, [Next]_vars, NEW u \in Units,
         state[u] = "Absent", state'[u] = "Creating"
  PROVE  \E assigned \in Nat, st \in [Units -> UnitStates], pt \in [Units -> BOOLEAN] :
           /\ CreateUnits(Missing(Desired(Capacity(MaxRunners, health, effMax),
                                          MinRunners, assigned), st), st, pt)
           /\ \A w \in Units :
                \/ st[w] = state[w] /\ pt[w] = parts[w]
                \/ state[w] \in LiveStates /\ st[w] = "Dying" /\ pt[w] = TRUE
<1> DEFINE cap == Capacity(MaxRunners, health, effMax)
           Goal == \E assigned \in Nat, st \in [Units -> UnitStates],
                      pt \in [Units -> BOOLEAN] :
                     /\ CreateUnits(Missing(Desired(cap, MinRunners, assigned), st), st, pt)
                     /\ \A w \in Units :
                          \/ st[w] = state[w] /\ pt[w] = parts[w]
                          \/ state[w] \in LiveStates /\ st[w] = "Dying" /\ pt[w] = TRUE
<1>1. TypeOK /\ LoopTypeOK /\ state' # state
  BY DEF FleetInvariant, TypeOK
<1>2. CASE \E v \in Units : UnitStep(v)
  <2>1. PICK v \in Units : UnitStep(v)
    BY <1>2
  <2>2. \/ LoopUnitStarted(v) \/ LoopCleanupDone(v)
        \/ \E old \in BOOLEAN : LoopRegistration(v, old)
    BY <1>1, <2>1
    DEF UnitStep, JobStart, JobEnd, RunnerExit, RegistrationExpires, LateCreate,
        StartTimeout, GenerateJIT, Create, Start, Undo, StarterAt,
        CleanRegistration, CleanContainer, CleanerAt, CheckRegistration,
        LoopJobStarted, HandleJobStarted, LoopJobCompleted, HandleJobCompleted,
        loopVars, unitVars
  <2>3. state'[u] # "Creating"
    BY <1>1, <2>2
    DEF LoopUnitStarted, HandleUnitStarted, LoopCleanupDone, HandleCleanupDone,
        Forget, LoopRegistration, HandleRegistration, LoopTypeOK
  <2> QED  BY <2>3
<1>3. CASE \E m \in Machines : MachineStep(m)
  <2>1. PICK m \in Machines : MachineStep(m)
    BY <1>3
  <2>2. LoopResynced(m) \/ \E v \in Units : LoopEvent(m, v)
    BY <1>1, <2>1
    DEF MachineStep, AgentOpen, AgentResync, AgentRoundFails, AgentDrop,
        AgentFatal, LoopHealth, HandleHealth, loopVars, unitVars
  <2>3. CASE LoopResynced(m)
    BY <2>3 DEF LoopResynced, HandleResynced
  <2>4. CASE \E v \in Units : LoopEvent(m, v)
    <3>1. PICK v \in Units : LoopEvent(m, v)
      BY <2>4
    <3> DEFINE st == [state EXCEPT ![v] = "Dying"]
               pt == [parts EXCEPT ![v] = TRUE]
    <3>2. /\ CreateUnits(Missing(Desired(cap, MinRunners, 0), st), st, pt)
          /\ state[v] \in LiveStates
      BY <1>1, <3>1 DEF LoopEvent, HandleEvent, Refill, loopVars, unitVars
    <3>3. st \in [Units -> UnitStates] /\ pt \in [Units -> BOOLEAN]
      BY <1>1 DEF LoopTypeOK, UnitStates, KnownStates
    <3>4. \A w \in Units :
            \/ st[w] = state[w] /\ pt[w] = parts[w]
            \/ state[w] \in LiveStates /\ st[w] = "Dying" /\ pt[w] = TRUE
      BY <1>1, <3>2 DEF LoopTypeOK
    <3> HIDE DEF st, pt, cap
    <3>5. Goal
      BY <3>2, <3>3, <3>4
    <3> QED  BY <3>5 DEF cap
  <2> QED  BY <2>2, <2>3, <2>4
<1>4. CASE \/ LoopDesired \/ LoopTick \/ LoopCheckPassDone \/ LoopSessionStarted
           \/ LoopJobCompletedBlank
  <2>1. CASE LoopDesired
    <3>1. PICK n \in 0..MaxAssigned : HandleDesired(n)
      BY <2>1 DEF LoopDesired
    <3> DEFINE assigned == AtLeastZero(n - Cardinality(pending))
    <3>2. CreateUnits(Missing(Desired(cap, MinRunners, assigned), state), state, parts)
      BY <3>1 DEF HandleDesired
    <3>3. assigned \in Nat
      <4>1. Cardinality(pending) \in Nat
        BY <1>1, ControllerAssumption, FS_Subset, FS_CardinalityType DEF LoopTypeOK
      <4> QED  BY <3>1, <4>1, FleetAssumption DEF AtLeastZero
    <3>4. state \in [Units -> UnitStates] /\ parts \in [Units -> BOOLEAN]
      BY <1>1 DEF LoopTypeOK
    <3> HIDE DEF assigned, cap
    <3>5. Goal
      BY <3>2, <3>3, <3>4
    <3> QED  BY <3>5 DEF cap
  <2>2. CASE LoopTick
    BY <2>2 DEF LoopTick, HandleTick
  <2>3. CASE LoopCheckPassDone \/ LoopSessionStarted \/ LoopJobCompletedBlank
    BY <1>1, <2>3 DEF LoopCheckPassDone, HandleCheckPassDone,
                      LoopSessionStarted, HandleSessionStarted,
                      LoopJobCompletedBlank, HandleJobCompletedBlank, unitVars
  <2> QED  BY <1>4, <2>1, <2>2, <2>3
<1>5. CASE UNCHANGED vars
  BY <1>1, <1>5 DEF vars, loopVars, unitVars
<1> QED  BY <1>2, <1>3, <1>4, <1>5 DEF Next

\* The number of slots taken on a machine is a number.
LEMMA OccupiedNat ==
  ASSUME NEW st \in [Units -> UnitStates], NEW pt, NEW m
  PROVE  Occupied(st, mach, pt, m) \in Nat
<1> DEFINE T == {w \in Units : mach[w] = m /\ Occupies(st[w], pt[w])}
<1>1. IsFiniteSet(T) /\ Cardinality(T) \in Nat
  BY ControllerAssumption, FS_Subset, FS_CardinalityType
<1>2. DOMAIN st = Units
  OBVIOUS
<1> QED  BY <1>1, <1>2 DEF Occupied

\* While a machine has yet to report, no unit is created.
LEMMA CreatedWhenSynced ==
  ASSUME NEW n, NEW occ, NEW new \in SUBSET Units,
         Cardinality(new) = Creatable(n, occ), new # {}
  PROVE  ~syncing
<1>1. Cardinality(new) # 0
  BY ControllerAssumption, FS_Subset, FS_EmptySet
<1> QED  BY <1>1 DEF Creatable

\* A new unit is placed where the containers are fewer than the limit.
LEMMA PlacementStep ==
  ASSUME FleetInvariant, SlotHeld, [Next]_vars, NEW u \in Units,
         state[u] = "Absent", state'[u] = "Creating"
  PROVE  Cardinality(OnMachine(mach'[u])) < effMax[mach'[u]]
<1>1. TypeOK /\ LoopTypeOK /\ fresh \subseteq Units
  BY DEF FleetInvariant, TypeOK, LoopTypeOK
<1>2. PICK assigned \in Nat, st \in [Units -> UnitStates], pt \in [Units -> BOOLEAN] :
        /\ CreateUnits(Missing(Desired(Capacity(MaxRunners, health, effMax),
                                       MinRunners, assigned), st), st, pt)
        /\ \A w \in Units :
             \/ st[w] = state[w] /\ pt[w] = parts[w]
             \/ state[w] \in LiveStates /\ st[w] = "Dying" /\ pt[w] = TRUE
  BY CreationStep
<1> DEFINE n == Missing(Desired(Capacity(MaxRunners, health, effMax),
                               MinRunners, assigned), st)
           occ == [m \in Machines |-> Occupied(st, mach, pt, m)]
           Chosen(new, at) ==
             /\ Cardinality(new) = Creatable(n, occ)
             /\ PlacedBySpread(new, at, occ)
             /\ Created(new, at, st, pt)
<1>3. PICK new \in SUBSET fresh : \E at \in [new -> Machines] : Chosen(new, at)
  BY <1>2 DEF CreateUnits
<1>4. PICK at \in [new -> Machines] : Chosen(new, at)
  BY <1>3
<1>5. u \in new /\ mach'[u] = at[u]
  BY <1>2, <1>4 DEF Created, LiveStates
<1>6. occ \in [Machines -> Nat]
  BY OccupiedNat
<1>7. health[at[u]] = "Healthy" /\ occ[at[u]] < effMax[at[u]]
  BY <1>1, <1>4, <1>5, <1>6, PlacedFree
<1>8. waiting = {}
  BY <1>1, <1>4, <1>5, CreatedWhenSynced DEF syncing
<1> DEFINE T == {w \in Units : mach[w] = at[u] /\ Occupies(st[w], pt[w])}
<1>9. OnMachine(at[u]) \subseteq T
  BY <1>2, <1>7, <1>8 DEF OnMachine, SlotHeld, Occupies, LiveStates
<1>10. /\ Cardinality(OnMachine(at[u])) <= Cardinality(T)
       /\ Cardinality(OnMachine(at[u])) \in Nat
  <2> T \in SUBSET Units
    OBVIOUS
  <2> HIDE DEF T
  <2>1. IsFiniteSet(T)
    BY ControllerAssumption, FS_Subset
  <2>2. OnMachine(at[u]) \in SUBSET T
    BY <1>9
  <2> QED  BY <2>1, <2>2, FS_Subset, FS_CardinalityType
<1>11. occ[at[u]] = Cardinality(T) /\ Cardinality(T) \in Nat /\ effMax[at[u]] \in Nat
  BY <1>1, <1>5, <1>6, OccupiedNat DEF Occupied, LoopTypeOK
<1> HIDE DEF T, occ
<1> QED  BY <1>5, <1>7, <1>10, <1>11

\* As long as no launch is abandoned a new unit goes to a healthy
\* machine with fewer containers on it than its limit: what createUnits counts
\* as taken (loop.go:149) is never less than what is there.
THEOREM NeverOverPlaced == Spec /\ []InTime => NoOverPlacement
<1>1. FleetInvariant /\ SlotHeld /\ [Next]_vars =>
        [\A u \in Units :
           state[u] = "Absent" /\ state'[u] = "Creating"
             => Cardinality(OnMachine(mach'[u])) < effMax[mach'[u]]]_vars
  BY PlacementStep
<1> QED  BY <1>1, SlotsAreHeld, InvariantHolds, PTL DEF Spec, NoOverPlacement

\* PlacedBySpread names each new unit once, in the order of the placement.
LEMMA InTurn ==
  ASSUME NEW new \in SUBSET Units, NEW at \in [new -> Machines],
         NEW occ, PlacedBySpread(new, at, occ)
  PROVE  \E q \in [1..Cardinality(new) -> new] :
           /\ \A x \in new : \E i \in 1..Cardinality(new) : q[i] = x
           /\ PlacedInTurn([i \in 1..Cardinality(new) |-> at[q[i]]],
                           Cardinality(new), occ)
<1> DEFINE n == Cardinality(new)
<1>1. IsFiniteSet(new) /\ n \in Nat
  BY ControllerAssumption, FS_Subset, FS_CardinalityType
<1>2. PICK q \in [1..n -> new] :
        /\ IsInjective(q)
        /\ \A i \in DOMAIN q :
             at[q[i]] \in
               Spread(health, effMax,
                      [m \in Machines |->
                         occ[m] + Cardinality({j \in 1..(i-1) : at[q[j]] = m})])
  BY DEF PlacedBySpread
<1>3. \A x \in new : \E i \in 1..n : q[i] = x
  BY <1>1, <1>2, ChosenAll
<1> DEFINE p == [i \in 1..n |-> at[q[i]]]
<1> HIDE DEF n
<1>4. ASSUME NEW i \in 1..n
      PROVE  p[i] \in Spread(health, effMax, TakenBefore(occ, p, i))
  <2>1. \A j \in 1..(i-1) : p[j] = at[q[j]]
    BY <1>1
  <2>2. \A m : {j \in 1..(i-1) : at[q[j]] = m} = Named(1..(i-1), p, m)
    BY <2>1 DEF Named
  <2>3. [m \in Machines |-> occ[m] + Cardinality({j \in 1..(i-1) : at[q[j]] = m})]
          = TakenBefore(occ, p, i)
    BY <2>2 DEF TakenBefore
  <2> QED  BY <1>2, <2>3
<1>5. PlacedInTurn(p, n, occ)
  BY <1>4 DEF PlacedInTurn
<1> QED  BY <1>2, <1>3, <1>5 DEF n

\* After a creation the slots taken on the machine of a new unit, all the units
\* created with it counted in, are within its limit.
LEMMA BookedStep ==
  ASSUME FleetInvariant, [Next]_vars, NEW u \in Units,
         state[u] = "Absent", state'[u] = "Creating"
  PROVE  Occupied(state', mach', parts', mach'[u]) <= effMax[mach'[u]]
<1>1. TypeOK /\ LoopTypeOK /\ fresh \subseteq Units
  BY DEF FleetInvariant, TypeOK, LoopTypeOK
<1>2. PICK assigned \in Nat, st \in [Units -> UnitStates], pt \in [Units -> BOOLEAN] :
        /\ CreateUnits(Missing(Desired(Capacity(MaxRunners, health, effMax),
                                       MinRunners, assigned), st), st, pt)
        /\ \A w \in Units :
             \/ st[w] = state[w] /\ pt[w] = parts[w]
             \/ state[w] \in LiveStates /\ st[w] = "Dying" /\ pt[w] = TRUE
  BY CreationStep
<1> DEFINE occ == [m \in Machines |-> Occupied(st, mach, pt, m)]
           Chosen(new, at) == PlacedBySpread(new, at, occ) /\ Created(new, at, st, pt)
<1>3. PICK new \in SUBSET fresh : \E at \in [new -> Machines] : Chosen(new, at)
  BY <1>2 DEF CreateUnits
<1>4. PICK at \in [new -> Machines] : Chosen(new, at)
  BY <1>3
<1>5. u \in new /\ new \in SUBSET Units /\ mach'[u] = at[u]
  BY <1>1, <1>2, <1>4 DEF Created, LiveStates
<1>6. occ \in [Machines -> Nat]
  BY OccupiedNat
<1> DEFINE n == Cardinality(new)
           m == at[u]
           T == {w \in Units : mach[w] = m /\ Occupies(st[w], pt[w])}
           Here == {w \in new : at[w] = m}
           Now == {w \in Units : mach'[w] = m /\ Occupies(state'[w], parts'[w])}
<1>7. Now \subseteq T \cup Here
  BY <1>4, <1>5 DEF Created
<1>8. Occupied(state', mach', parts', m) = Cardinality(Now) /\ occ[m] = Cardinality(T)
  BY <1>4, <1>5 DEF Created, Occupied
<1>9. n \in Nat
  BY <1>5, ControllerAssumption, FS_Subset, FS_CardinalityType
<1> HIDE DEF occ
<1>10. PICK q \in [1..n -> new] :
         /\ \A x \in new : \E i \in 1..n : q[i] = x
         /\ PlacedInTurn([i \in 1..n |-> at[q[i]]], n, occ)
  BY <1>4, <1>5, InTurn
<1> DEFINE p == [i \in 1..n |-> at[q[i]]]
           K == Named(1..n, p, m)
<1> HIDE DEF n
<1>11. PICK i \in 1..n : q[i] = u
  BY <1>5, <1>10
<1>12. K # {}
  BY <1>11 DEF Named
<1>13. occ[m] + Cardinality(K) <= effMax[m] /\ m \in Machines
  <2> HIDE DEF p
  <2> QED  BY <1>1, <1>6, <1>9, <1>10, <1>12, PlacedWithinLimit DEF p
<1>14. IsFiniteSet(K)
  <2>1. IsFiniteSet(1..n) /\ K \in SUBSET (1..n)
    BY <1>9, FS_Interval DEF Named
  <2> QED  BY <2>1, FS_Subset
<1>15. IsFiniteSet(Here) /\ Cardinality(Here) <= Cardinality(K)
  <2> DEFINE g == [j \in K |-> q[j]]
  <2>1. g \in [K -> Here] /\ \A x \in Here : \E j \in K : g[j] = x
    BY <1>10 DEF Named
  <2> HIDE DEF g, K, Here
  <2>2. g \in Surjection(K, Here)
    BY <2>1 DEF Surjection
  <2> QED  BY <2>2, <1>14, FS_Surjection
<1>16. IsFiniteSet(T)
  <2>1. T \in SUBSET Units
    OBVIOUS
  <2> HIDE DEF T
  <2> QED  BY <2>1, ControllerAssumption, FS_Subset
<1> HIDE DEF T, Here, Now, K, m
<1>17. /\ IsFiniteSet(T \cup Here)
       /\ Cardinality(T \cup Here)
            = Cardinality(T) + Cardinality(Here) - Cardinality(T \cap Here)
  BY <1>15, <1>16, FS_Union
<1>18. Cardinality(Now) <= Cardinality(T \cup Here) /\ Cardinality(Now) \in Nat
  BY <1>7, <1>17, FS_Subset, FS_CardinalityType
<1>19. /\ Cardinality(T) \in Nat /\ Cardinality(Here) \in Nat
       /\ Cardinality(K) \in Nat /\ Cardinality(T \cap Here) \in Nat
  BY <1>14, <1>15, <1>16, FS_Intersection, FS_CardinalityType
<1>20. effMax[m] \in Nat
  BY <1>1, <1>13 DEF LoopTypeOK
<1>21. Occupied(state', mach', parts', m) <= effMax[m]
  BY <1>8, <1>13, <1>15, <1>17, <1>18, <1>19, <1>20
<1> QED  BY <1>5, <1>21 DEF m

\* createUnits (loop.go:139) never books more units on a machine than its limit,
\* however many it creates at once, and whatever launches, cleanups and limits
\* there were before.  Unlike NeverOverPlaced this is about the loop's own books
\* and needs no launch to be in time.
THEOREM NeverOverbooked ==
  Spec => [][\A u \in Units :
               state[u] = "Absent" /\ state'[u] = "Creating"
                 => Occupied(state', mach', parts', mach'[u]) <= effMax[mach'[u]]]_vars
<1>1. FleetInvariant /\ [Next]_vars =>
        [\A u \in Units :
           state[u] = "Absent" /\ state'[u] = "Creating"
             => Occupied(state', mach', parts', mach'[u]) <= effMax[mach'[u]]]_vars
  BY BookedStep
<1> QED  BY <1>1, InvariantHolds, PTL DEF Spec

\* A creation ends with no more running units than there is capacity.
LEMMA CapacityStep ==
  ASSUME FleetInvariant, [Next]_vars, NEW u \in Units,
         state[u] = "Absent", state'[u] = "Creating"
  PROVE  Cardinality(Running(state')) <= Capacity(MaxRunners, health, effMax)
<1> DEFINE cap == Capacity(MaxRunners, health, effMax)
<1>1. LoopTypeOK /\ fresh \subseteq Units
  BY DEF FleetInvariant, TypeOK, LoopTypeOK
<1>2. PICK assigned \in Nat, st \in [Units -> UnitStates], pt \in [Units -> BOOLEAN] :
        /\ CreateUnits(Missing(Desired(cap, MinRunners, assigned), st), st, pt)
        /\ \A w \in Units :
             \/ st[w] = state[w] /\ pt[w] = parts[w]
             \/ state[w] \in LiveStates /\ st[w] = "Dying" /\ pt[w] = TRUE
  BY CreationStep
<1> DEFINE desired == Desired(cap, MinRunners, assigned)
           n == Missing(desired, st)
           occ == [m \in Machines |-> Occupied(st, mach, pt, m)]
           Chosen(new, at) ==
             /\ Cardinality(new) = Creatable(n, occ)
             /\ PlacedBySpread(new, at, occ)
             /\ Created(new, at, st, pt)
<1>3. PICK new \in SUBSET fresh : \E at \in [new -> Machines] : Chosen(new, at)
  BY <1>2 DEF CreateUnits
<1>4. PICK at \in [new -> Machines] : Chosen(new, at)
  BY <1>3
<1>5. u \in new /\ new \in SUBSET Units
  BY <1>1, <1>2, <1>4 DEF Created, LiveStates
<1>6. /\ IsFiniteSet(new) /\ Cardinality(new) \in Nat /\ Cardinality(new) # 0
  BY <1>5, ControllerAssumption, FS_Subset, FS_CardinalityType, FS_EmptySet
<1>7. /\ IsFiniteSet(DOMAIN health) /\ DOMAIN health = Machines
      /\ \A m \in DOMAIN health : effMax[m] \in Int
  BY <1>1, ControllerAssumption DEF LoopTypeOK
<1>8. cap \in Nat
  BY <1>7, ControllerAssumption, CapacityIsNat
<1>9. FreeSlots(health, effMax, occ) \in Nat
  <2>1. occ \in [Machines -> Nat]
    BY OccupiedNat
  <2> HIDE DEF occ
  <2>2. \A m \in DOMAIN health : effMax[m] \in Int /\ occ[m] \in Int
    BY <1>7, <2>1
  <2> QED  BY <1>7, <2>2, FreeSlotsIsNat
<1>10. Cardinality(fresh) \in Nat
  BY <1>1, ControllerAssumption, FS_Subset, FS_CardinalityType
<1> DEFINE R == Running(st)
<1>11. R \in SUBSET Units /\ IsFiniteSet(R) /\ Cardinality(R) \in Nat
  <2>1. R \in SUBSET Units
    BY DEF Running
  <2> HIDE DEF R
  <2> QED  BY <2>1, ControllerAssumption, FS_Subset, FS_CardinalityType
<1>12. desired \in Nat /\ desired <= cap
  <2> HIDE DEF cap
  <2> QED  BY <1>2, <1>8, ControllerAssumption DEF Desired, AtLeastZero, Lesser, Greater
<1>13. n = desired - Cardinality(R)
  BY DEF Missing
<1> HIDE DEF n, occ, desired, cap, R
<1>14. Cardinality(new) <= n
  BY <1>4, <1>6, <1>9, <1>10, <1>11, <1>12, <1>13 DEF Creatable, AtLeastZero, Lesser
<1>15. Running(state') \subseteq R \cup new
  BY <1>4 DEF Created, Running, R
<1>16. /\ IsFiniteSet(R \cup new)
       /\ Cardinality(R \cup new) <= Cardinality(R) + Cardinality(new)
  <2>1. /\ IsFiniteSet(R \cup new)
        /\ Cardinality(R \cup new)
             = Cardinality(R) + Cardinality(new) - Cardinality(R \cap new)
    BY <1>6, <1>11, FS_Union
  <2>2. Cardinality(R \cap new) \in Nat
    BY <1>6, FS_Intersection, FS_CardinalityType
  <2> QED  BY <1>6, <1>11, <2>1, <2>2
<1>17. /\ Cardinality(Running(state')) <= Cardinality(R \cup new)
       /\ Cardinality(Running(state')) \in Nat
       /\ Cardinality(R \cup new) \in Nat
  BY <1>15, <1>16, FS_Subset, FS_CardinalityType
<1>18. Cardinality(Running(state')) <= cap
  BY <1>6, <1>8, <1>11, <1>12, <1>13, <1>14, <1>16, <1>17
<1> QED  BY <1>18 DEF cap

\* No creation takes the running count above capacity, whatever order the
\* desired counts, the refills of die events and the launches under way come
\* in (createUnits, loop.go:139): the launches are counted with the running units.
THEOREM CreationsFitCapacity == Spec => CreatedWithinCapacity
<1>1. FleetInvariant /\ [Next]_vars =>
        [(\E u \in Units : state[u] = "Absent" /\ state'[u] = "Creating")
           => Cardinality(Running(state'))
                <= Capacity(MaxRunners, health, effMax)]_vars
  BY CapacityStep
<1> QED  BY <1>1, InvariantHolds, PTL DEF Spec, CreatedWithinCapacity

(***************************************************************************)
(* The life of each unit.  First the steps that are not the loop's, which  *)
(* leave every unit in its phase.                                          *)
(***************************************************************************)

\* A unit whose launch is not abandoned, with all that is known of it.
Timely(u) ==
  /\ FleetInvariant /\ u \notin Abandoned
  /\ SlotInvariant(u) /\ LaunchInOrder(u)

\* A step of the fleet is one of the unit's life or leaves it as it is, and
\* leaves its launch in order.
LivesOn(u) == [Life(u)!Next]_(Life(u)!vars) /\ LaunchInOrder(u)'

LEMMA PhaseIs ==
  ASSUME FleetInvariant, NEW u \in Units
  PROVE  /\ Phase(u) = "ahead" <=> u \in fresh
         /\ Phase(u) = "launching" <=> state[u] = "Creating"
         /\ Phase(u) = "up" <=> state[u] \in {"Starting", "Running"}
         /\ Phase(u) = "dying" <=> state[u] = "Dying"
         /\ Phase(u) = "gone" <=> u \notin fresh /\ state[u] = "Absent"
<1>1. state[u] \in UnitStates /\ (u \in fresh => state[u] = "Absent")
  BY DEF FleetInvariant, TypeOK, LoopTypeOK, FreshUnknown
<1> QED  BY <1>1 DEF Phase, UnitStates, KnownStates, LiveStates

LEMMA PhaseStays ==
  ASSUME NEW u \in Units, UNCHANGED <<state, fresh>>
  PROVE  Phase(u)' = Phase(u)
BY DEF Phase

\* Of all the rest of the fleet only these matter to the life of a unit.
LEMMA NothingHappens ==
  ASSUME NEW u \in Units, LaunchInOrder(u), UNCHANGED <<state, fresh>>,
         starter'[u] = starter[u], ctr'[u] = ctr[u], u \in reg' <=> u \in reg,
         job'[u] = job[u]
  PROVE  LivesOn(u)
<1>1. Phase(u)' = Phase(u)
  BY PhaseStays
<1>2. LaunchInOrder(u)'
  BY DEF LaunchInOrder
<1> QED  BY <1>1, <1>2 DEF LivesOn, Life!vars

LEMMA WorldLives ==
  ASSUME NEW u \in Units, Timely(u), NEW v \in Units,
         \/ JobStart(v) \/ JobEnd(v) \/ RunnerExit(v)
         \/ RegistrationExpires(v) \/ LateCreate(v) \/ StartTimeout(v)
         \/ CheckRegistration(v)
  PROVE  LivesOn(u)
<1>1. /\ UNCHANGED <<state, fresh, starter>>
      /\ TypeOK /\ LaunchInOrder(u)
  BY DEF Timely, FleetInvariant, JobStart, JobEnd, RunnerExit,
         RegistrationExpires, LateCreate, StartTimeout, CheckRegistration,
         loopVars, unitVars
<1>2. Phase(u)' = Phase(u)
  BY <1>1, PhaseStays
<1>3. CASE u # v \/ StartTimeout(v) \/ CheckRegistration(v) \/ LateCreate(v)
  <2>1. ~(u = v /\ LateCreate(v))
    BY DEF LateCreate, Timely, Abandoned
  <2>2. ctr'[u] = ctr[u] /\ job'[u] = job[u] /\ (u \in reg' <=> u \in reg)
    BY <1>1, <1>3, <2>1
    DEF TypeOK, JobStart, JobEnd, RunnerExit, RegistrationExpires, LateCreate,
        StartTimeout, CheckRegistration, worldVars
  <2> QED  BY <1>1, <2>2, NothingHappens
<1>4. CASE JobStart(u)
  <2>1. Life(u)!JobStarts
    BY <1>1, <1>2, <1>4 DEF JobStart, Life!JobStarts, TypeOK
  <2>2. LaunchInOrder(u)'
    BY <1>1, <1>4 DEF JobStart, LaunchInOrder
  <2> QED  BY <2>1, <2>2 DEF LivesOn, Life!Next
<1>5. CASE JobEnd(u)
  <2>1. Life(u)!JobEnds
    BY <1>1, <1>2, <1>5 DEF JobEnd, Life!JobEnds, TypeOK
  <2>2. starter[u] \notin {"create", "start"}
    BY <1>5 DEF JobEnd, Timely, FleetInvariant, LaunchOwned, JobHeld
  <2>3. LaunchInOrder(u)'
    BY <1>1, <1>5, <2>2 DEF JobEnd, LaunchInOrder
  <2> QED  BY <2>1, <2>3 DEF LivesOn, Life!Next
<1>6. CASE RunnerExit(u)
  <2>1. Life(u)!Exits
    BY <1>1, <1>2, <1>6 DEF RunnerExit, Life!Exits, TypeOK
  <2>2. LaunchInOrder(u)'
    BY <1>1, <1>6 DEF RunnerExit, LaunchInOrder, TypeOK
  <2> QED  BY <2>1, <2>2 DEF LivesOn, Life!Next
<1>7. CASE RegistrationExpires(u)
  <2>1. Life(u)!Expires
    BY <1>1, <1>2, <1>7 DEF RegistrationExpires, Life!Expires
  <2>2. LaunchInOrder(u)'
    BY <1>1, <1>7 DEF RegistrationExpires, LaunchInOrder
  <2> QED  BY <2>1, <2>2 DEF LivesOn, Life!Next
<1> QED  BY <1>3, <1>4, <1>5, <1>6, <1>7

\* What a rollback or a cleanup takes away, in the terms of the unit's life.
LEMMA TakenAway ==
  ASSUME NEW u \in Units, Timely(u), Phase(u)' = Phase(u), UNCHANGED job,
         \/ state[u] \in {"Creating", "Dying"}
         \/ ctr[u] = "none" /\ u \notin reg,
         \/ (RegistrationRemoved(u) \/ RegistrationKept(u)) /\ UNCHANGED ctr
         \/ (ContainerRemoved(u) \/ ContainerKept(u)) /\ UNCHANGED reg /\ u \notin reg
  PROVE  [Life(u)!Next]_(Life(u)!vars)
<1>1. TypeOK
  BY DEF Timely, FleetInvariant
<1>2. state[u] \in {"Creating", "Dying"} => Phase(u) \in {"launching", "dying"}
  BY PhaseIs DEF Timely
<1>3. \/ u \in reg' <=> u \in reg
      \/ job[u] # "running" /\ u \notin reg'
  BY DEF RegistrationRemoved, RegistrationKept
<1>4. \/ ctr'[u] = ctr[u]
      \/ ctr'[u] = "none" /\ u \notin reg /\ UNCHANGED reg
  BY <1>1 DEF ContainerRemoved, ContainerKept, TypeOK
<1>5. \/ ctr'[u] = ctr[u] /\ (u \in reg' <=> u \in reg)
      \/ Life(u)!Deregister \/ Life(u)!Remove
  BY <1>1, <1>2, <1>3, <1>4 DEF Life!Deregister, Life!Remove, TypeOK
<1> QED  BY <1>5 DEF Life!Next, Life!vars

LEMMA LaunchLives ==
  ASSUME NEW u \in Units, Timely(u), NEW v \in Units,
         GenerateJIT(v) \/ Create(v) \/ Start(v) \/ Undo(v)
  PROVE  LivesOn(u)
<1>1. PICK place \in StarterPlaces : StarterAt(v, place)
  BY DEF GenerateJIT, Create, Start, Undo, StarterPlaces, Launching
<1>2. /\ TypeOK /\ LaunchInOrder(u)
      /\ UNCHANGED <<state, fresh, job>>
      /\ starter'[u] = IF u = v THEN place ELSE starter[u]
  BY <1>1 DEF StarterAt, unitVars, Timely, FleetInvariant, TypeOK, LoopTypeOK
<1>3. Phase(u)' = Phase(u)
  BY <1>2, PhaseStays
<1>4. CASE u # v
  <2>1. ctr'[u] = ctr[u] /\ (u \in reg' <=> u \in reg)
    BY <1>2, <1>4 DEF GenerateJIT, Create, Start, Undo, RegistrationRemoved,
                      RegistrationKept, ContainerRemoved, ContainerKept, TypeOK
  <2> QED  BY <1>2, <1>4, <2>1, NothingHappens
<1>5. CASE u = v /\ ~Undo(v)
  <2>1. starter[u] \in Launching
    BY <1>5 DEF GenerateJIT, Create, Start, Launching
  <2>2. state[u] = "Creating" /\ Phase(u) = "launching"
    BY <2>1, PhaseIs DEF Timely, SlotInvariant, LaunchInTime
  <2>3. CASE GenerateJIT(u)
    <3>1. /\ ctr' = ctr
          /\ u \in reg' \/ (reg' = reg /\ starter'[u] = "errNoID")
      BY <1>2, <2>3 DEF GenerateJIT, StarterAt, TypeOK, LoopTypeOK
    <3>2. [Life(u)!Next]_(Life(u)!vars)
      BY <1>2, <1>3, <2>2, <3>1 DEF Life!Register, Life!Next, Life!vars
    <3>3. starter'[u] # "ok"
      BY <1>2, <2>3 DEF GenerateJIT, StarterAt, TypeOK, LoopTypeOK
    <3>4. starter'[u] \in {"create", "start"} => u \in reg'
      BY <3>1
    <3> QED  BY <1>2, <2>2, <3>2, <3>3, <3>4 DEF LivesOn, LaunchInOrder
  <2>4. CASE Create(u)
    <3>1. u \in reg /\ reg' = reg /\ ctr[u] = "none"
      BY <1>2, <2>4 DEF Create, LaunchInOrder, Timely, FleetInvariant, LaunchOwned
    <3>2. /\ ctr'[u] \in {ctr[u], "created"}
          /\ starter'[u] \in {"start", "undoReg"}
      BY <1>2, <2>4 DEF Create, StarterAt, TypeOK, LoopTypeOK
    <3>3. [Life(u)!Next]_(Life(u)!vars)
      BY <1>2, <1>3, <2>2, <3>1, <3>2 DEF Life!Create, Life!Next, Life!vars
    <3> QED  BY <1>2, <2>2, <3>1, <3>2, <3>3 DEF LivesOn, LaunchInOrder
  <2>5. CASE Start(u)
    <3>1. u \in reg /\ reg' = reg
      BY <1>2, <2>5 DEF Start, LaunchInOrder
    <3>2. /\ ctr'[u] = ctr[u] \/ (ctr[u] = "created" /\ ctr'[u] = "running")
          /\ starter'[u] \in {"ok", "undoReg"}
          /\ starter'[u] = "ok" => ctr'[u] = "running"
      BY <1>2, <2>5 DEF Start, StarterAt, TypeOK, LoopTypeOK
    <3>3. [Life(u)!Next]_(Life(u)!vars)
      BY <1>2, <1>3, <2>2, <3>1, <3>2 DEF Life!Start, Life!Next, Life!vars
    <3> QED  BY <1>2, <2>2, <3>1, <3>2, <3>3 DEF LivesOn, LaunchInOrder
  <2> QED  BY <1>5, <2>3, <2>4, <2>5
<1>6. CASE u = v /\ Undo(v)
  <2>1. starter[u] \in {"undoReg", "undoRm"} /\ starter'[u] \in {"undoRm", "err"}
    BY <1>2, <1>6 DEF Undo, StarterAt, TypeOK, LoopTypeOK
  <2>2. \/ state[u] \in {"Creating", "Dying"}
        \/ ctr[u] = "none" /\ u \notin reg
    BY <1>2, <2>1 DEF LaunchInOrder
  <2>3. starter[u] = "undoRm" => u \notin reg
    BY DEF Timely, FleetInvariant, NoRunnerLeft
  <2>4. \/ (RegistrationRemoved(u) \/ RegistrationKept(u)) /\ UNCHANGED ctr
        \/ (ContainerRemoved(u) \/ ContainerKept(u)) /\ UNCHANGED reg /\ u \notin reg
    BY <1>6, <2>3 DEF Undo
  <2>5. [Life(u)!Next]_(Life(u)!vars)
    BY <1>2, <1>3, <2>2, <2>4, TakenAway
  <2>6. LaunchInOrder(u)'
    <3>1. reg' \subseteq reg /\ (ctr'[u] # "none" => ctr[u] # "none")
      BY <1>2, <2>4 DEF RegistrationRemoved, RegistrationKept,
                        ContainerRemoved, ContainerKept, TypeOK
    <3> QED  BY <1>2, <2>1, <2>2, <3>1 DEF LaunchInOrder
  <2> QED  BY <2>5, <2>6 DEF LivesOn
<1> QED  BY <1>4, <1>5, <1>6

LEMMA CleanLives ==
  ASSUME NEW u \in Units, Timely(u), NEW v \in Units,
         CleanRegistration(v) \/ CleanContainer(v)
  PROVE  LivesOn(u)
<1>1. PICK place \in CleanerPlaces : CleanerAt(v, place)
  BY DEF CleanRegistration, CleanContainer, CleanerPlaces
<1>2. /\ TypeOK /\ LaunchInOrder(u)
      /\ UNCHANGED <<state, fresh, starter, job>>
  BY <1>1 DEF CleanerAt, unitVars, Timely, FleetInvariant
<1>3. Phase(u)' = Phase(u)
  BY <1>2, PhaseStays
<1>4. CASE u # v
  <2>1. ctr'[u] = ctr[u] /\ (u \in reg' <=> u \in reg)
    BY <1>2, <1>4
    DEF CleanRegistration, CleanContainer, RegistrationRemoved, RegistrationKept,
        ContainerRemoved, ContainerKept, TypeOK
  <2> QED  BY <1>2, <1>4, <2>1, NothingHappens
<1>5. CASE u = v
  <2>1. state[u] = "Dying" /\ starter[u] \notin {"create", "start"}
    BY <1>5 DEF CleanRegistration, CleanContainer, Timely, FleetInvariant,
                OneCleaner, SlotInvariant, LaunchInTime, Launching
  <2>2. cleaner[u] = "rm" => u \notin reg
    BY DEF Timely, SlotInvariant, StaysCleaned
  <2>3. \/ (RegistrationRemoved(u) \/ RegistrationKept(u)) /\ UNCHANGED ctr
        \/ (ContainerRemoved(u) \/ ContainerKept(u)) /\ UNCHANGED reg /\ u \notin reg
    BY <1>5, <2>2 DEF CleanRegistration, CleanContainer
  <2>4. [Life(u)!Next]_(Life(u)!vars)
    BY <1>2, <1>3, <2>1, <2>3, TakenAway
  <2>5. LaunchInOrder(u)'
    BY <1>2, <2>1 DEF LaunchInOrder
  <2> QED  BY <2>4, <2>5 DEF LivesOn
<1> QED  BY <1>4, <1>5

LEMMA AgentLives ==
  ASSUME NEW u \in Units, Timely(u), NEW m \in Machines,
         \/ AgentOpen(m) \/ AgentResync(m) \/ AgentRoundFails(m)
         \/ AgentDrop(m) \/ AgentFatal(m)
  PROVE  LivesOn(u)
<1>1. UNCHANGED <<state, fresh, starter, ctr, reg, job>> /\ LaunchInOrder(u)
  BY DEF AgentOpen, AgentResync, AgentRoundFails, AgentDrop, AgentFatal,
         loopVars, unitVars, worldVars, Timely
<1> QED  BY <1>1, NothingHappens

(***************************************************************************)
(* Then the loop's, which move units on and touch nothing of them.         *)
(***************************************************************************)

\* What a message may make of a unit; a launch is begun with it or ended.
Moves(u) ==
  /\ \/ state'[u] = state[u] /\ (u \in fresh' <=> u \in fresh)
     \/ u \in fresh /\ u \notin fresh' /\ state'[u] = "Creating"
     \/ /\ state[u] = "Creating" /\ state'[u] = "Starting" /\ u \notin fresh'
        /\ starter[u] = "ok" /\ starter'[u] = "idle"
     \/ state[u] \in LiveStates /\ state'[u] = "Dying" /\ u \notin fresh'
     \/ state[u] = "Starting" /\ state'[u] = "Running" /\ u \notin fresh'
     \/ /\ u \notin fresh /\ u \notin fresh' /\ state[u] = "Absent"
        /\ state'[u] \in {"Starting", "Dying"}
     \/ /\ state[u] = "Dying" /\ state'[u] = "Absent" /\ u \notin fresh'
        /\ cleaner[u] = "ok"
  /\ \/ starter'[u] = starter[u] \/ starter'[u] = "idle"
     \/ u \in fresh /\ state'[u] = "Creating" /\ starter'[u] = "jit"

LEMMA MoveLives ==
  ASSUME NEW u \in Units, Timely(u), Moves(u), UNCHANGED worldVars
  PROVE  LivesOn(u)
<1>1. UNCHANGED <<ctr, reg, job>> /\ LaunchInOrder(u)
  BY DEF worldVars, Timely
<1>2. u \in fresh => state[u] = "Absent" /\ starter[u] = "idle"
  BY DEF Timely, FleetInvariant, FreshUnknown
<1>3. state[u] \in {"Absent", "Creating", "Starting", "Running", "Dying"}
  BY DEF Timely, FleetInvariant, TypeOK, LoopTypeOK, UnitStates, KnownStates, LiveStates
<1>4. starter[u] = "ok" /\ state[u] = "Creating" => ctr[u] \in {"running", "exited"}
  BY <1>1 DEF LaunchInOrder
<1>5. cleaner[u] = "ok" => ctr[u] = "none" /\ u \notin reg
  BY DEF Timely, SlotInvariant, StaysCleaned
<1>6. LaunchInOrder(u)'
  BY <1>1, <1>2, <1>5 DEF Moves, LaunchInOrder, LiveStates
<1>7. /\ Phase(u) = "ahead" <=> u \in fresh
      /\ Phase(u) = "launching" <=> state[u] = "Creating"
      /\ Phase(u) = "up" <=> state[u] \in {"Starting", "Running"}
      /\ Phase(u) = "dying" <=> state[u] = "Dying"
      /\ Phase(u) = "gone" <=> u \notin fresh /\ state[u] = "Absent"
  BY PhaseIs DEF Timely
<1>8. /\ u \notin fresh' /\ state'[u] = "Creating" => Phase(u)' = "launching"
      /\ u \notin fresh' /\ state'[u] \in {"Starting", "Running"} => Phase(u)' = "up"
      /\ u \notin fresh' /\ state'[u] = "Dying" => Phase(u)' = "dying"
      /\ u \notin fresh' /\ state'[u] = "Absent" => Phase(u)' = "gone"
  BY DEF Phase
<1>9. u \in fresh' /\ state'[u] = "Absent" => Phase(u)' = "ahead"
  BY DEF Phase
<1> HIDE DEF Moves
<1>10. CASE state'[u] = state[u] /\ (u \in fresh' <=> u \in fresh)
  <2>1. Phase(u)' = Phase(u)
    BY <1>2, <1>7, <1>8, <1>9, <1>10, <1>3
  <2> QED  BY <1>1, <1>6, <1>10, <2>1 DEF LivesOn, Life!vars
<1>11. CASE ~(state'[u] = state[u] /\ (u \in fresh' <=> u \in fresh))
  <2>1. \/ Life(u)!Launch \/ Life(u)!ComesUp \/ Life(u)!Dies
        \/ Life(u)!Found \/ Life(u)!Forget \/ Phase(u)' = Phase(u)
    BY <1>1, <1>4, <1>5, <1>7, <1>8, <1>11
    DEF Moves, LiveStates, Life!Launch, Life!ComesUp, Life!Dies, Life!Found,
        Life!Forget, Life!MovesTo
  <2> QED  BY <1>1, <1>6, <2>1 DEF LivesOn, Life!Next, Life!vars
<1> QED  BY <1>10, <1>11

\* createUnits launches ids never used, from states st in which u has at most
\* begun to die.
LEMMA CreateMoves ==
  ASSUME NEW u \in Units, Timely(u), NEW n, NEW st, NEW pt, CreateUnits(n, st, pt),
         \/ st[u] = state[u]
         \/ st[u] = "Dying" /\ state[u] \in LiveStates
  PROVE  Moves(u)
<1>1. PICK new \in SUBSET fresh : \E at \in [new -> Machines] : Created(new, at, st, pt)
  BY CreatedUnits
<1>2. PICK at \in [new -> Machines] : Created(new, at, st, pt)
  BY <1>1
<1>3. /\ state'[u] = IF u \in new THEN "Creating" ELSE st[u]
      /\ starter'[u] = IF u \in new THEN "jit" ELSE starter[u]
      /\ fresh' = fresh \ new
  BY <1>2 DEF Created
<1>4. u \in fresh => state[u] = "Absent"
  BY DEF Timely, FleetInvariant, FreshUnknown
<1> QED  BY <1>3, <1>4 DEF Moves, LiveStates

LEMMA LoopUnitMoves ==
  ASSUME NEW u \in Units, Timely(u), NEW v \in Units,
         \/ LoopUnitStarted(v) \/ LoopCleanupDone(v)
         \/ \E old \in BOOLEAN : LoopRegistration(v, old)
         \/ LoopJobStarted(v)
         \/ \E named \in BOOLEAN : LoopJobCompleted(v, named)
  PROVE  Moves(u)
<1>1. /\ TypeOK /\ LoopTypeOK
      /\ u \in fresh => state[u] = "Absent" /\ starter[u] = "idle"
  BY DEF Timely, FleetInvariant, FreshUnknown, TypeOK
<1>2. CASE LoopUnitStarted(v)
  <2>1. /\ fresh' = fresh
        /\ starter'[u] = IF u = v THEN "idle" ELSE starter[u]
        /\ state'[u] = IF u # v \/ state[v] # "Creating" THEN state[u]
                       ELSE IF starter[v] = "ok" THEN "Starting" ELSE "Dying"
    BY <1>1, <1>2 DEF LoopUnitStarted, HandleUnitStarted, LoopTypeOK
  <2> QED  BY <1>1, <2>1 DEF Moves, LiveStates
<1>3. CASE LoopCleanupDone(v)
  <2>1. /\ UNCHANGED <<fresh, starter>>
        /\ state'[u] = IF u = v /\ cleaner[v] = "ok" THEN "Absent" ELSE state[u]
    BY <1>1, <1>3 DEF LoopCleanupDone, HandleCleanupDone, Forget, LoopTypeOK
  <2>2. cleaner[u] = "ok" => state[u] = "Dying"
    BY DEF Timely, FleetInvariant, OneCleaner
  <2> QED  BY <1>1, <2>1, <2>2 DEF Moves
<1>4. CASE \E old \in BOOLEAN : LoopRegistration(v, old)
  <2>1. UNCHANGED <<fresh, starter>>
    BY <1>4 DEF LoopRegistration, HandleRegistration
  <2>2. \/ state'[u] = state[u]
        \/ state[u] = "Starting" /\ state'[u] = "Running"
        \/ state[u] \in {"Starting", "Running"} /\ state'[u] = "Dying"
    BY <1>1, <1>4 DEF LoopRegistration, HandleRegistration, LoopTypeOK
  <2> QED  BY <1>1, <2>1, <2>2 DEF Moves, LiveStates
<1>5. CASE LoopJobStarted(v) \/ \E named \in BOOLEAN : LoopJobCompleted(v, named)
  BY <1>5 DEF LoopJobStarted, HandleJobStarted, LoopJobCompleted,
              HandleJobCompleted, Moves
<1> QED  BY <1>2, <1>3, <1>4, <1>5

LEMMA LoopMachineMoves ==
  ASSUME NEW u \in Units, Timely(u), NEW m \in Machines,
         \/ LoopResynced(m) \/ LoopHealth(m)
         \/ \E v \in Units : LoopEvent(m, v)
  PROVE  Moves(u)
<1>1. /\ TypeOK /\ LoopTypeOK
      /\ u \in fresh => /\ state[u] = "Absent"
                        /\ \A k \in Machines : sync[k].runner[u] = "none"
  BY DEF Timely, FleetInvariant, FreshUnknown, TypeOK
<1>2. CASE LoopResynced(m)
  <2> DEFINE s == sync[m]
             here == {w \in Units : mach[w] = m}
             adopt == {w \in here : VerdictOf(w, s) = "Adopt"}
             remove == {w \in here : VerdictOf(w, s) = "RemoveUnit"}
  <2>1. /\ UNCHANGED <<fresh, starter>>
        /\ state'[u] = IF u \in adopt THEN "Starting"
                       ELSE IF u \in remove THEN "Dying" ELSE state[u]
    BY <1>2 DEF LoopResynced, HandleResynced
  <2>2. state[u] \in UnitStates /\ s.runner[u] \in RunnerSights
    BY <1>1 DEF TypeOK, LoopTypeOK
  <2>3. u \in adopt => state[u] = "Absent"
    BY <2>2, VerdictFacts DEF VerdictOf, UnitStates, KnownStates, LiveStates, InFlight, Verdict
  <2>4. u \in fresh => u \notin adopt \cup remove
    BY <1>1 DEF VerdictOf, Verdict, InFlight, Known
  <2> QED
    BY <2>1, <2>2, <2>3, <2>4 DEF Moves, UnitStates, KnownStates, LiveStates
<1>3. CASE LoopHealth(m)
  BY <1>3 DEF LoopHealth, HandleHealth, unitVars, Moves
<1>4. CASE \E v \in Units : LoopEvent(m, v)
  <2>1. PICK v \in Units : LoopEvent(m, v)
    BY <1>4
  <2>2. CASE UNCHANGED loopVars
    BY <2>2 DEF loopVars, unitVars, Moves
  <2>3. CASE ~UNCHANGED loopVars
    <3> DEFINE st == [state EXCEPT ![v] = "Dying"]
               pt == [parts EXCEPT ![v] = TRUE]
    <3>1. state[v] \in LiveStates /\ \E n : CreateUnits(n, st, pt)
      BY <2>1, <2>3 DEF LoopEvent, HandleEvent
    <3>2. st[u] = IF u = v THEN "Dying" ELSE state[u]
      BY <1>1 DEF LoopTypeOK
    <3> HIDE DEF st, pt
    <3> QED  BY <3>1, <3>2, CreateMoves
  <2> QED  BY <2>2, <2>3
<1> QED  BY <1>2, <1>3, <1>4

LEMMA LoopOtherMoves ==
  ASSUME NEW u \in Units, Timely(u),
         \/ LoopDesired \/ LoopTick \/ LoopCheckPassDone \/ LoopSessionStarted
         \/ LoopJobCompletedBlank
  PROVE  Moves(u)
<1>1. CASE LoopDesired
  <2>1. \E n : CreateUnits(n, state, parts)
    BY <1>1 DEF LoopDesired, HandleDesired
  <2> QED  BY <2>1, CreateMoves
<1>2. CASE LoopTick
  <2>1. u \notin TooLate
    BY DEF TooLate, Timely, Abandoned
  <2>2. state'[u] = state[u] /\ UNCHANGED <<fresh, starter>>
    BY <1>2, <2>1 DEF LoopTick, HandleTick
  <2> QED  BY <2>2 DEF Moves
<1>3. CASE LoopCheckPassDone \/ LoopSessionStarted \/ LoopJobCompletedBlank
  BY <1>3 DEF LoopCheckPassDone, HandleCheckPassDone, LoopSessionStarted,
              HandleSessionStarted, LoopJobCompletedBlank,
              HandleJobCompletedBlank, unitVars, Moves
<1> QED  BY <1>1, <1>2, <1>3

(***************************************************************************)
(* Every step, and the start.                                              *)
(***************************************************************************)
LEMMA NextLives ==
  ASSUME NEW u \in Units, Timely(u), [Next]_vars
  PROVE  LivesOn(u)
<1>1. CASE \E v \in Units : UnitStep(v)
  <2>1. PICK v \in Units : UnitStep(v)
    BY <1>1
  <2>2. CASE \/ LoopUnitStarted(v) \/ LoopCleanupDone(v)
             \/ \E old \in BOOLEAN : LoopRegistration(v, old)
             \/ LoopJobStarted(v)
             \/ \E named \in BOOLEAN : LoopJobCompleted(v, named)
    <3>1. UNCHANGED worldVars
      BY <2>2 DEF LoopUnitStarted, LoopCleanupDone, LoopRegistration,
                  LoopJobStarted, LoopJobCompleted
    <3> QED  BY <2>2, <3>1, LoopUnitMoves, MoveLives
  <2> QED  BY <2>1, <2>2, WorldLives, LaunchLives, CleanLives DEF UnitStep
<1>2. CASE \E m \in Machines : MachineStep(m)
  <2>1. PICK m \in Machines : MachineStep(m)
    BY <1>2
  <2>2. CASE \/ LoopResynced(m) \/ LoopHealth(m)
             \/ \E v \in Units : LoopEvent(m, v)
    <3>1. UNCHANGED worldVars
      BY <2>2 DEF LoopResynced, LoopHealth, LoopEvent
    <3> QED  BY <2>2, <3>1, LoopMachineMoves, MoveLives
  <2> QED  BY <2>1, <2>2, AgentLives DEF MachineStep
<1>3. CASE \/ LoopDesired \/ LoopTick \/ LoopCheckPassDone \/ LoopSessionStarted
           \/ LoopJobCompletedBlank
  <2>1. UNCHANGED worldVars
    BY <1>3 DEF LoopDesired, LoopTick, LoopCheckPassDone, LoopSessionStarted,
                LoopJobCompletedBlank
  <2> QED  BY <1>3, <2>1, LoopOtherMoves, MoveLives
<1>4. CASE UNCHANGED vars
  BY <1>4, NothingHappens DEF Timely, vars, loopVars, unitVars, worldVars
<1> QED  BY <1>1, <1>2, <1>3, <1>4 DEF Next

LEMMA InitLives ==
  ASSUME Init, NEW u \in Units
  PROVE  Life(u)!Init /\ LaunchInOrder(u)
<1>1. PICK reached \in SUBSET Machines, left \in SUBSET Units :
        InitWith(reached, left)
  BY DEF Init
<1>2. /\ state[u] = "Absent" /\ fresh = Units \ left
      /\ starter[u] = "idle"
      /\ ctr[u] \in {"none", "created", "running", "exited"}
      /\ reg \in SUBSET left
      /\ job[u] \in {"no", "running", "done"}
      /\ u \in left <=> ctr[u] # "none"
      /\ job[u] = "running" => ctr[u] = "running" /\ u \in reg
      /\ job[u] = "done" => ctr[u] \in {"running", "exited"}
  BY <1>1 DEF InitWith
<1>3. LaunchInOrder(u)
  BY <1>2 DEF LaunchInOrder
<1>4. Phase(u) = IF u \in left THEN "gone" ELSE "ahead"
  BY <1>2 DEF Phase
<1>5. Life(u)!Init
  BY <1>2, <1>4 DEF Life!Init
<1> QED  BY <1>3, <1>5

\* A unit that is never abandoned lives as Unit promises, however late the
\* launches of the others are.
THEOREM UnitKeepsPromise ==
  ASSUME NEW u \in Units
  PROVE  Spec /\ [](u \notin Abandoned) => Life(u)!Spec
<1>1. Init => Life(u)!Init /\ LaunchInOrder(u)
  BY InitLives
<1>2. /\ FleetInvariant /\ u \notin Abandoned /\ SlotInvariant(u)
      /\ LaunchInOrder(u) /\ [Next]_vars
      => LaunchInOrder(u)' /\ [Life(u)!Next]_(Life(u)!vars)
  BY NextLives DEF Timely, LivesOn
<1> QED
  BY <1>1, <1>2, InvariantHolds, SlotInvariantHolds, PTL DEF Spec, Life!Spec

\* As long as no launch is abandoned all units live as Unit promises.
THEOREM UnitsKeepPromise == Spec /\ []InTime => UnitsImplemented
<1> DEFINE AllOrder == \A u \in Units : LaunchInOrder(u)
           Lives == \A u \in Units : [Life(u)!Next]_(Life(u)!vars)
<1>1. Init => AllOrder /\ \A u \in Units : Life(u)!Init
  BY InitLives
<1>2. FleetInvariant /\ InTime /\ AllSlots /\ AllOrder /\ [Next]_vars
      => AllOrder' /\ Lives
  BY NextLives DEF Timely, LivesOn, InTime, AllSlots
<1> QED
  BY <1>1, <1>2, InvariantHolds, AllSlotsHold, PTL DEF Spec, UnitsImplemented

\* A unit goes from known to unknown by Forget alone.
LEMMA ForgetInLife ==
  ASSUME FleetInvariant, NEW u \in Units, [Life(u)!Next]_(Life(u)!vars),
         Known(u), state'[u] = "Absent"
  PROVE  ctr[u] = "none" /\ u \notin reg
<1>1. Phase(u) \in {"launching", "up", "dying"}
  <2>1. state[u] \in KnownStates
    BY DEF FleetInvariant, TypeOK, LoopTypeOK, UnitStates, Known
  <2> QED  BY <2>1, PhaseIs DEF KnownStates, LiveStates
<1>2. Phase(u)' \in {"ahead", "gone"}
  BY DEF Phase
<1>3. Life(u)!Forget
  BY <1>1, <1>2
  DEF Life!Next, Life!vars, Life!Launch, Life!ComesUp, Life!Dies, Life!Found,
      Life!MovesTo, Life!Register, Life!Create, Life!Start, Life!Deregister,
      Life!Remove, Life!JobStarts, Life!JobEnds, Life!Exits, Life!Expires
<1> QED  BY <1>3 DEF Life!Forget

\* As long as no launch is abandoned, nothing is left of a unit that is
\* forgotten (handleCleanupDone, loop.go:615): neither its container nor its
\* registration, whatever failed and was tried again in between.
THEOREM ForgottenAreGone == Spec /\ []InTime => ForgottenIsGone
<1>1. FleetInvariant /\ (\A u \in Units : [Life(u)!Next]_(Life(u)!vars)) =>
        \A u \in Units : Known(u) /\ state'[u] = "Absent"
                           => ctr[u] = "none" /\ u \notin reg
  BY ForgetInLife
<1> QED
  BY <1>1, UnitsKeepPromise, InvariantHolds, PTL DEF UnitsImplemented, ForgottenIsGone
=============================================================================
