----------------------------- MODULE DemandProofs -----------------------------
(***************************************************************************)
(* Proofs about Demand, for every number of units, machines, jobs and      *)
(* faults: FinishedCounted and CompletionApplied, by way of                *)
(* DemandInvariant.  What the messages do that are no job's end and no     *)
(* cleanup's is one predicate, Effect, as in FleetProofs.                  *)
(***************************************************************************)
EXTENDS Demand, ControllerProofs, FiniteSetTheorems

\* What the properties are about, without the types and the count of jobs.
Sound ==
  DeadOnly /\ FreshIdle /\ DoneIsTrue /\ Accounted /\ Told /\ CompletionApplied

(***************************************************************************)
(* The handling of a message, by which the entries and completions of      *)
(* thrown may be thrown away.  Live units are new, were live, or have a    *)
(* runner that runs; a unit that dies has its entry, is known to be        *)
(* completed, or dies unseen; an entry is kept, thrown away, or matched by *)
(* a completion kept for later; a new one is a unit's that was live and    *)
(* not known to be completed, and has an id only if the unit's was known.  *)
(***************************************************************************)
Effect(thrown) ==
  /\ DeadOnly'
  /\ fresh' \subseteq fresh
  /\ \A u \in fresh' :
       state'[u] = "Absent" /\ starter'[u] = "idle" /\ u \notin pending'
  /\ \A u \in fresh \ fresh' : state'[u] \in LiveStates
  /\ \A u \in Units : starter'[u] = "jit" => starter[u] = "jit" \/ u \in fresh
  /\ completed' \subseteq completed \cup completedIDs
  /\ completedIDs' \subseteq completedIDs
  /\ \A u \in Units \ fresh :
       /\ state'[u] \in LiveStates =>
            state[u] \in LiveStates \/ ctr[u] = "running"
       /\ state[u] \in LiveStates =>
            \/ state'[u] \in LiveStates \/ u \in pending' \/ u \in completed'
            \/ u \in DiesUnseen
       /\ u \in pending => u \in pending' \cup thrown \cup completedIDs
       /\ u \in pending' =>
            /\ u \in completedIDs => u \in completedIDs' \cup thrown
            /\ \/ /\ u \in pending
                  /\ u \in pendingIDs' => u \in pendingIDs \/ u \notin completedIDs
               \/ /\ state[u] \in LiveStates /\ u \notin completed
                  /\ u \in pendingIDs' => u \in runnerIDs
       /\ state[u] \in LiveStates /\ u \in completed => u \in completed'
       /\ state[u] \in LiveStates /\ u \in completedIDs \ runnerIDs =>
            u \in completed' \cup (completedIDs' \ runnerIDs') \cup thrown

\* Such a message keeps Sound, if what dies unseen and what is thrown away is
\* put down as such.
LEMMA EffectKeeps ==
  ASSUME TypeOK, Sound, NEW thrown, Effect(thrown),
         unknowing \cup DiesUnseen \cup thrown \subseteq unknowing',
         UNCHANGED <<ctr, job, news, since, reported>>, msg'.done = msg.done
  PROVE  Sound'
<1>1. /\ fresh \subseteq Units /\ pending \subseteq Units
      /\ pendingIDs \subseteq pending /\ reported \subseteq Units
  BY DEF TypeOK, LoopTypeOK
<1>2. DeadOnly'
  BY DEF Effect
<1>3. FreshIdle'
  BY <1>1 DEF Sound, Effect, FreshIdle
<1>4. DoneIsTrue'
  BY DEF Sound, Effect, DoneIsTrue
<1>5. Accounted'
  BY DEF Sound, Effect, Accounted, DoneIsTrue
<1>6. \A u \in reported : u \in Units \ fresh /\ ctr[u] # "running"
  BY <1>1 DEF Sound, DoneIsTrue, FreshIdle
<1>7. Told'
  BY <1>6 DEF Sound, Effect, Told
<1>8. CompletionApplied'
  BY <1>6 DEF Sound, Effect, Told, CompletionApplied
<1> QED  BY <1>2, <1>3, <1>4, <1>5, <1>7, <1>8 DEF Sound

---------------------------------------------------------------------------
(***************************************************************************)
(* Effect, handler by handler.                                             *)
(***************************************************************************)
LEMMA CleanupsAreForDead ==
  ASSUME LoopTypeOK, DeadOnly, NEW S \in SUBSET Units, NEW hl,
         StartCleanup(S, hl),
         \A u \in S : state'[u] = "Dying",
         \A u \in Units : state[u] = "Dying" => state'[u] = "Dying"
  PROVE  /\ \A u \in cleaning' : state'[u] = "Dying"
         /\ \A u \in Units : cleaner'[u] # "idle" => u \in cleaning'
BY DEF LoopTypeOK, DeadOnly, StartCleanup

\* A handler that leaves units, launches and cleanups alone, and does no more
\* to entries and completions than to throw some away.
LEMMA QuietEffect ==
  ASSUME TypeOK, Sound, NEW thrown,
         UNCHANGED <<state, starter, cleaner, cleaning, fresh, completed,
                     runnerIDs, completedIDs>>,
         pending' \subseteq pending, pendingIDs' \subseteq pendingIDs,
         pending \subseteq pending' \cup thrown
  PROVE  Effect(thrown)
BY DEF TypeOK, LoopTypeOK, Sound, Effect, DeadOnly, FreshIdle

LEMMA DesiredEffect ==
  ASSUME TypeOK, Sound, NEW n, HandleDesired(n)
  PROVE  Effect({})
<1>1. PICK new \in SUBSET fresh :
        \E at \in [new -> Machines] : Created(new, at, state, parts)
  BY CreatedUnits DEF HandleDesired
<1>2. PICK at \in [new -> Machines] : Created(new, at, state, parts)
  BY <1>1
<1>3. UNCHANGED <<cleaner, cleaning, completed, runnerIDs, pending, pendingIDs,
                  completedIDs>>
  BY DEF HandleDesired, cleanVars, jobVars
<1>4. /\ LoopTypeOK /\ DeadOnly /\ FreshIdle /\ fresh \subseteq Units
      /\ cleaning \subseteq Units /\ pending \subseteq Units
  BY DEF TypeOK, LoopTypeOK, Sound
<1>5. DeadOnly'
  BY <1>2, <1>3, <1>4 DEF Created, DeadOnly, FreshIdle
<1> QED
  BY <1>2, <1>3, <1>4, <1>5 DEF Effect, Created, FreshIdle, LiveStates

LEMMA EventEffect ==
  ASSUME TypeOK, Sound, NEW u \in Units, HandleEvent(u)
  PROVE  Effect({})
<1>1. CASE UNCHANGED loopVars
  BY <1>1, QuietEffect DEF loopVars, unitVars, jobVars, cleanVars
<1>2. CASE ~ UNCHANGED loopVars
  <2> DEFINE st == [state EXCEPT ![u] = "Dying"]
             pt == [parts EXCEPT ![u] = TRUE]
  <2>1. PICK new \in SUBSET fresh :
          \E at \in [new -> Machines] : Created(new, at, st, pt)
    BY <1>2, CreatedUnits DEF HandleEvent
  <2>2. PICK at \in [new -> Machines] : Created(new, at, st, pt)
    BY <2>1
  <2>3. /\ LoopTypeOK /\ DeadOnly /\ FreshIdle /\ fresh \subseteq Units
        /\ pending \subseteq Units /\ pendingIDs \subseteq pending
    BY DEF TypeOK, LoopTypeOK, Sound
  <2>4. state[u] \in LiveStates /\ u \notin fresh
    BY <1>2, <2>3 DEF HandleEvent, FreshIdle, LiveStates
  <2>5. \A v \in Units :
          state'[v] = IF v \in new THEN "Creating"
                      ELSE IF v = u THEN "Dying" ELSE state[v]
    BY <2>2, <2>3 DEF Created, LoopTypeOK
  <2>6. /\ \A v \in cleaning' : state'[v] = "Dying"
        /\ \A v \in Units : cleaner'[v] # "idle" => v \in cleaning'
    <3>1. StartCleanup({u}, health)
      BY <1>2 DEF HandleEvent
    <3>2. state'[u] = "Dying"
      BY <2>4, <2>5
    <3>3. \A v \in Units : state[v] = "Dying" => state'[v] = "Dying"
      BY <2>3, <2>5 DEF FreshIdle
    <3> QED  BY <2>3, <3>1, <3>2, <3>3, CleanupsAreForDead
  <2>7. /\ pending' = pending \cup NewlyPending({u}, completed)
        /\ pendingIDs' \subseteq
             pendingIDs \cup (NewlyPending({u}, completed) \cap runnerIDs)
    BY <1>2 DEF HandleEvent, AddPending
  <2>8. UNCHANGED <<busy, completed, runnerIDs, completedIDs>>
    BY <1>2 DEF HandleEvent
  <2>9. DeadOnly'
    BY <2>3, <2>4, <2>5, <2>6, <2>7
    DEF DeadOnly, FreshIdle, NewlyPending, LiveStates
  <2>10. \A v \in Units \ fresh : state'[v] = IF v = u THEN "Dying" ELSE state[v]
    BY <2>5
  <2>11. NewlyPending({u}, completed) =
           IF u \in busy /\ u \notin completed THEN {u} ELSE {}
    BY <2>4 DEF NewlyPending
  <2>12. u \in busy \/ u \in DiesUnseen
    BY <2>4, <2>10 DEF DiesUnseen
  <2>13. \A v \in Units \ fresh :
           /\ v \in pending' =>
                \/ v \in pending
                \/ v = u /\ u \notin completed
           /\ v = u => v \in pending' \/ v \in completed \/ v \in DiesUnseen
    BY <2>7, <2>11, <2>12
  <2> QED
    BY <2>2, <2>3, <2>4, <2>5, <2>7, <2>8, <2>9, <2>10, <2>13
    DEF Effect, Created, FreshIdle, LiveStates, NewlyPending
<1> QED  BY <1>1, <1>2

LEMMA ResyncedEffect ==
  ASSUME TypeOK, Sound, NEW m \in Machines, NEW s,
         s.runner = [u \in Units |-> Sight(u)],
         HandleResynced(m, s)
  PROVE  Effect(pending)
<1> DEFINE here == {u \in Units : mach[u] = m}
           adopt == {u \in here : VerdictOf(u, s) = "Adopt"}
           remove == {u \in here : VerdictOf(u, s) = "RemoveUnit"}
           new == NewlyPending(remove, completed)
           hl == IF health[m] = "Failed" THEN health
                 ELSE [health EXCEPT ![m] = "Healthy"]
<1>1. /\ LoopTypeOK /\ DeadOnly /\ FreshIdle
      /\ fresh \subseteq Units /\ pending \subseteq Units
      /\ pendingIDs \subseteq pending
  BY DEF TypeOK, LoopTypeOK, Sound
<1>2. \A u \in Units : state'[u] = IF u \in adopt THEN "Starting"
                                 ELSE IF u \in remove THEN "Dying"
                                 ELSE state[u]
  BY DEF HandleResynced
<1>3. \A u \in Units : s.runner[u] \in RunnerSights
  BY DEF Sight, RunnerSights
<1>4. /\ \A u \in adopt : state[u] = "Absent"
      /\ \A u \in remove : state[u] # "Creating"
  BY <1>1, <1>3, VerdictFacts
  DEF VerdictOf, InFlight, LoopTypeOK, UnitStates, KnownStates, LiveStates
<1>5. \A u \in adopt : ctr[u] = "running"
  BY DEF VerdictOf, Verdict, Sight
<1>6. \A u \in fresh : u \notin adopt /\ u \notin remove
  BY <1>1 DEF VerdictOf, Verdict, InFlight, Known, FreshIdle, Sight
<1>7. /\ pending' = (pending \ here) \cup new
      /\ pendingIDs' \subseteq pendingIDs \cup (new \cap runnerIDs)
  BY <1>1 DEF HandleResynced, AddPending, Purged
<1>8. UNCHANGED <<starter, fresh, busy, completed, runnerIDs, completedIDs>>
  BY DEF HandleResynced
<1>9. /\ \A u \in cleaning' : state'[u] = "Dying"
      /\ \A u \in Units : cleaner'[u] # "idle" => u \in cleaning'
  <2>1. StartCleanup(remove, hl)
    BY DEF HandleResynced
  <2>2. \A u \in remove : state'[u] = "Dying"
    BY <1>2, <1>4 DEF VerdictOf
  <2>3. \A u \in Units : state[u] = "Dying" => state'[u] = "Dying"
    BY <1>2, <1>4
  <2> QED  BY <1>1, <2>1, <2>2, <2>3, CleanupsAreForDead
<1>10. \A u \in new : /\ u \in remove /\ state[u] \in LiveStates
                      /\ u \notin completed /\ state'[u] = "Dying"
  BY <1>2, <1>4 DEF NewlyPending
<1>11. DeadOnly'
  BY <1>1, <1>2, <1>4, <1>7, <1>9, <1>10 DEF DeadOnly, LiveStates
<1>12. \A u \in Units : state[u] \in LiveStates =>
         \/ state'[u] \in LiveStates \/ u \in new \/ u \in completed
         \/ u \in DiesUnseen
  BY <1>2, <1>4 DEF NewlyPending, DiesUnseen, LiveStates
<1> HIDE DEF new, here, adopt, remove
<1>13. \A u \in Units \ fresh :
         /\ state'[u] \in LiveStates =>
              state[u] \in LiveStates \/ ctr[u] = "running"
         /\ u \in pending' =>
              \/ u \in pending /\ (u \in pendingIDs' => u \in pendingIDs)
              \/ /\ state[u] \in LiveStates /\ u \notin completed
                 /\ u \in pendingIDs' => u \in runnerIDs
  BY <1>1, <1>2, <1>5, <1>7, <1>10 DEF LiveStates, DeadOnly
<1>14. \A u \in fresh : state'[u] = "Absent" /\ starter'[u] = "idle"
                        /\ u \notin pending'
  BY <1>1, <1>2, <1>6, <1>7, <1>8, <1>10 DEF FreshIdle
<1> QED
  BY <1>1, <1>7, <1>8, <1>11, <1>12, <1>13, <1>14 DEF Effect

LEMMA TickEffect ==
  ASSUME TypeOK, Sound, NEW oldPending, NEW oldIDs,
         HandleTick({}, oldPending, oldIDs)
  PROVE  Effect(oldPending \cup oldIDs)
<1>1. /\ LoopTypeOK /\ DeadOnly /\ FreshIdle
      /\ fresh \subseteq Units /\ pending \subseteq Units
  BY DEF TypeOK, LoopTypeOK, Sound
<1>2. \A u \in Units : state'[u] = state[u]
  BY DEF HandleTick
<1>3. /\ \A u \in cleaning' : state'[u] = "Dying"
      /\ \A u \in Units : cleaner'[u] # "idle" => u \in cleaning'
  <2>1. StartCleanup(Retried({}), health) /\ Retried({}) \in SUBSET Units
    BY DEF HandleTick, Retried
  <2>2. \A u \in Retried({}) : state'[u] = "Dying"
    BY <1>2 DEF Retried
  <2> QED  BY <1>1, <1>2, <2>1, <2>2, CleanupsAreForDead
<1>4. /\ pending' = pending \ oldPending
      /\ pendingIDs' = pendingIDs \ oldPending
  BY DEF HandleTick, Unexpired, AddPending, NewlyPending
<1>5. UNCHANGED <<starter, fresh, completed, runnerIDs>>
  BY DEF HandleTick
<1>6. completedIDs' = completedIDs \ oldIDs
  BY DEF HandleTick, Unexpired
<1>7. DeadOnly'
  BY <1>1, <1>2, <1>3, <1>4 DEF DeadOnly
<1> QED
  BY <1>1, <1>2, <1>4, <1>5, <1>6, <1>7 DEF Effect, FreshIdle, DeadOnly

\* What is learned with a runner id, by the clauses of Effect.
LEMMA LearnedFacts ==
  ASSUME TypeOK, Sound, NEW u \in Units
  PROVE  /\ Learned(u).pend \subseteq pending
         /\ pending \subseteq Learned(u).pend \cup (completedIDs \cap {u})
         /\ u \in completedIDs => u \notin Learned(u).pend
         /\ \A v \in Learned(u).pendIDs :
              v \in pendingIDs \/ (v = u /\ u \notin completedIDs)
         /\ completed \subseteq Learned(u).done
         /\ Learned(u).done \subseteq completed \cup (completedIDs \cap {u})
         /\ state[u] \in LiveStates /\ u \in completedIDs =>
              u \in Learned(u).done
         /\ Learned(u).ids \subseteq runnerIDs \cup {u}
<1>1. /\ Learned(u).pend = IF u \in completedIDs THEN pending \ {u} ELSE pending
      /\ Learned(u).pendIDs = IF u \in completedIDs THEN pendingIDs \ {u}
                              ELSE pendingIDs \cup (pending \cap {u})
      /\ Learned(u).done = IF u \in completedIDs /\ state[u] \in LiveStates
                           THEN completed \cup {u} ELSE completed
      /\ Learned(u).ids = IF Known(u) THEN runnerIDs \cup {u} ELSE runnerIDs
  BY DEF Learned
<1> QED  BY <1>1

LEMMA RegistrationEffect ==
  ASSUME TypeOK, Sound, NEW u \in Units, NEW res, NEW old \in BOOLEAN,
         HandleRegistration(u, res, old)
  PROVE  Effect({})
<1>1. /\ LoopTypeOK /\ DeadOnly /\ FreshIdle
      /\ fresh \subseteq Units /\ pending \subseteq Units
      /\ pendingIDs \subseteq pending
  BY DEF TypeOK, LoopTypeOK, Sound
<1>2. UNCHANGED <<starter, fresh, busy>>
  BY DEF HandleRegistration
<1>3. CASE res = "found"
  <2>1. /\ runnerIDs' = Learned(u).ids /\ completed' = Learned(u).done
        /\ completedIDs' = completedIDs \ {u}
        /\ pending' = Learned(u).pend /\ pendingIDs' = Learned(u).pendIDs
        /\ UNCHANGED <<cleaning, cleaner>>
    BY <1>1, <1>3 DEF HandleRegistration, AddPending, NewlyPending, StartCleanup,
                    LoopTypeOK
  <2>2. \A v \in Units :
          \/ state'[v] = state[v]
          \/ state[v] = "Starting" /\ state'[v] = "Running"
    BY <1>1, <1>3 DEF HandleRegistration, LoopTypeOK
  <2>3. DeadOnly'
    BY <1>1, <2>1, <2>2, LearnedFacts DEF DeadOnly, LiveStates, LoopTypeOK
  <2> QED
    BY <1>1, <1>2, <2>1, <2>2, <2>3, LearnedFacts
    DEF Effect, FreshIdle, LiveStates, DeadOnly
<1>4. CASE res # "found"
  <2> DEFINE dying == IF \/ state[u] = "Running" /\ res = "gone"
                         \/ state[u] = "Starting" /\ res = "gone" /\ old
                      THEN {u} ELSE {}
             new == NewlyPending(dying, completed)
  <2>1. /\ UNCHANGED <<runnerIDs, completed, completedIDs>>
        /\ pending' = pending \cup new
        /\ pendingIDs' \subseteq pendingIDs \cup (new \cap runnerIDs)
        /\ StartCleanup(dying, health)
    BY <1>4 DEF HandleRegistration, AddPending
  <2>2. \A v \in Units : state'[v] = IF v \in dying THEN "Dying" ELSE state[v]
    BY <1>4 DEF HandleRegistration
  <2>3. \A v \in dying : v \in Units /\ state[v] \in LiveStates
    BY DEF LiveStates
  <2>4. /\ \A v \in cleaning' : state'[v] = "Dying"
        /\ \A v \in Units : cleaner'[v] # "idle" => v \in cleaning'
    <3> HIDE DEF dying
    <3> QED  BY <1>1, <2>1, <2>2, <2>3, CleanupsAreForDead
  <2>5. \A v \in new : v \in dying /\ v \notin completed
    BY DEF NewlyPending
  <2>6. \A v \in dying : v \in new \/ v \in completed \/ v \in DiesUnseen
    BY <2>2, <2>3 DEF NewlyPending, DiesUnseen
  <2> HIDE DEF dying, new
  <2>7. DeadOnly'
    BY <1>1, <2>1, <2>2, <2>3, <2>4, <2>5 DEF DeadOnly, LiveStates
  <2> QED
    BY <1>1, <1>2, <2>1, <2>2, <2>3, <2>5, <2>6, <2>7
    DEF Effect, FreshIdle, LiveStates
<1> QED  BY <1>3, <1>4

LEMMA UnitStartedEffect ==
  ASSUME TypeOK, Sound, NEW u \in Units,
         HandleUnitStarted(u, "ok")
  PROVE  Effect({})
<1>1. /\ LoopTypeOK /\ DeadOnly /\ FreshIdle
      /\ fresh \subseteq Units /\ pending \subseteq Units
      /\ pendingIDs \subseteq pending
  BY DEF TypeOK, LoopTypeOK, Sound
<1>2. /\ runnerIDs' = Learned(u).ids /\ completed' = Learned(u).done
      /\ completedIDs' = completedIDs \ {u}
      /\ pending' = Learned(u).pend /\ pendingIDs' = Learned(u).pendIDs
      /\ UNCHANGED <<cleaning, cleaner, fresh>>
  BY <1>1 DEF HandleUnitStarted, AddPending, NewlyPending, StartCleanup,
              LoopTypeOK
<1>3. /\ \A v \in Units :
           \/ state'[v] = state[v]
           \/ state[v] = "Creating" /\ state'[v] = "Starting"
      /\ \A v \in Units : starter'[v] = IF v = u THEN "idle" ELSE starter[v]
  BY <1>1 DEF HandleUnitStarted, LoopTypeOK
<1>4. DeadOnly'
  BY <1>1, <1>2, <1>3, LearnedFacts DEF DeadOnly, LiveStates, LoopTypeOK
<1> QED
  BY <1>1, <1>2, <1>3, <1>4, LearnedFacts
  DEF Effect, FreshIdle, LiveStates, DeadOnly

LEMMA JobStartedEffect ==
  ASSUME TypeOK, Sound, NEW u \in Units, HandleJobStarted(u)
  PROVE  Effect({})
BY QuietEffect DEF HandleJobStarted, jobVars, cleanVars

LEMMA SessionStartedEffect ==
  ASSUME TypeOK, Sound, HandleSessionStarted
  PROVE  Effect(pending)
BY QuietEffect DEF HandleSessionStarted, unitVars, cleanVars

LEMMA HealthEffect ==
  ASSUME TypeOK, Sound, NEW m, NEW h, HandleHealth(m, h)
  PROVE  Effect({})
BY QuietEffect DEF HandleHealth, unitVars, jobVars, cleanVars

LEMMA CheckPassDoneEffect ==
  ASSUME TypeOK, Sound, HandleCheckPassDone
  PROVE  Effect({})
BY QuietEffect DEF HandleCheckPassDone, unitVars, jobVars, cleanVars

---------------------------------------------------------------------------
(***************************************************************************)
(* Sound, step by step.  First the steps that are the handling of a        *)
(* message of that kind.                                                   *)
(***************************************************************************)
LEMMA HandlingSound ==
  ASSUME TypeOK, Sound,
         \/ \E u \in Units : \/ LoopUnitStarted(u) \/ LoopEvent(u)
                             \/ LoopJobStarted(u)
         \/ \E u \in Units, old \in BOOLEAN : LoopRegistration(u, old)
         \/ LoopCheckPassDone \/ Expires \/ LoopDesired
         \/ LoopSessionStarted \/ LoopResynced \/ LoopDrop
  PROVE  Sound'
<1>1. ASSUME NEW u \in Units, LoopUnitStarted(u)
      PROVE  Sound'
  <2>1. Effect({})
    BY <1>1, UnitStartedEffect DEF LoopUnitStarted
  <2>2. DiesUnseen = {}
    BY <1>1 DEF LoopUnitStarted, HandleUnitStarted, DiesUnseen, LiveStates,
                TypeOK, LoopTypeOK
  <2> QED
    BY <1>1, <2>1, <2>2, EffectKeeps
    DEF LoopUnitStarted, hubVars, machVars, listenVars, bookVars
<1>2. ASSUME NEW u \in Units, LoopEvent(u)
      PROVE  Sound'
  BY <1>2, EventEffect, EffectKeeps DEF LoopEvent, Forgot, hubVars, listenVars
<1>3. ASSUME NEW u \in Units, LoopJobStarted(u)
      PROVE  Sound'
  <2>1. Effect({})
    BY <1>3, JobStartedEffect DEF LoopJobStarted
  <2>2. DiesUnseen = {}
    BY <1>3 DEF LoopJobStarted, HandleJobStarted, DiesUnseen, LiveStates
  <2>3. msg'.done = msg.done
    BY <1>3 DEF LoopJobStarted, TypeOK, Events
  <2> QED
    BY <1>3, <2>1, <2>2, <2>3, EffectKeeps
    DEF LoopJobStarted, hubVars, machVars, bookVars
<1>4. ASSUME NEW u \in Units, NEW old \in BOOLEAN, LoopRegistration(u, old)
      PROVE  Sound'
  BY <1>4, RegistrationEffect, EffectKeeps
  DEF LoopRegistration, Forgot, hubVars, machVars, listenVars
<1>5. CASE LoopCheckPassDone
  <2>1. DiesUnseen = {}
    BY <1>5 DEF LoopCheckPassDone, HandleCheckPassDone, unitVars, DiesUnseen,
                LiveStates
  <2> QED
    BY <1>5, <2>1, CheckPassDoneEffect, EffectKeeps
    DEF LoopCheckPassDone, hubVars, machVars, listenVars, bookVars
<1>6. CASE Expires
  BY <1>6, TickEffect, EffectKeeps
  DEF Expires, LoopTick, Forgot, hubVars, machVars, listenVars
<1>7. CASE LoopDesired
  <2>1. Effect({})
    BY <1>7, DesiredEffect DEF LoopDesired
  <2>2. DiesUnseen = {}
    <3>1. PICK new \in SUBSET fresh :
            \E at \in [new -> Machines] : Created(new, at, state, parts)
      BY <1>7, CreatedUnits DEF LoopDesired, HandleDesired
    <3>2. \A u \in Units : state'[u] = IF u \in new THEN "Creating" ELSE state[u]
      BY <3>1 DEF Created
    <3> QED  BY <3>2 DEF DiesUnseen, LiveStates
  <2> QED
    BY <1>7, <2>1, <2>2, EffectKeeps
    DEF LoopDesired, hubVars, machVars, bookVars
<1>8. CASE LoopSessionStarted
  BY <1>8, SessionStartedEffect, EffectKeeps
  DEF LoopSessionStarted, Forgot, hubVars, machVars
<1>9. CASE LoopResynced
  <2> DEFINE s == [on |-> TRUE, runner |-> [u \in Units |-> Sight(u)],
                   started |-> startedAt, info |-> Slots]
  <2>1. HandleResynced(TheMachine, s) /\ TheMachine \in Machines
    BY <1>9, ControllerAssumption DEF LoopResynced, TheMachine
  <2>2. Effect(pending)
    BY <2>1, ResyncedEffect
  <2> QED
    BY <1>9, <2>2, EffectKeeps DEF LoopResynced, Forgot, hubVars, listenVars
<1>10. CASE LoopDrop
  <2>1. DiesUnseen = {}
    BY <1>10 DEF LoopDrop, HandleHealth, unitVars, DiesUnseen, LiveStates
  <2> QED
    BY <1>10, <2>1, HealthEffect, EffectKeeps
    DEF LoopDrop, hubVars, listenVars, bookVars
<1> QED
  BY <1>1, <1>2, <1>3, <1>4, <1>5, <1>6, <1>7, <1>8, <1>9, <1>10

\* Steps of GitHub, the runners, a launch and the listener leave the loop be.
LEMMA WorldSound ==
  ASSUME TypeOK, Sound,
         \/ JobComes \/ Receive \/ NewSession
         \/ \E u \in Units : JobStart(u) \/ JobEnd(u) \/ Launch(u)
  PROVE  Sound'
<1>1. UNCHANGED <<state, pending, pendingIDs, completedIDs, completed,
                  runnerIDs, cleaning, cleaner, fresh, reported, unknowing>>
  BY DEF JobComes, Receive, NewSession, JobStart, JobEnd, Launch, loopVars,
         unitVars, jobVars, cleanVars, bookVars
<1>2. DeadOnly' /\ Accounted' /\ Told' /\ CompletionApplied'
  BY <1>1 DEF Sound, DeadOnly, Accounted, Told, CompletionApplied
<1>3. FreshIdle' /\ DoneIsTrue'
  <2>1. /\ FreshIdle /\ DoneIsTrue /\ fresh \subseteq Units
        /\ news.done \cup msg.done \cup reported \cup since \subseteq Units
    BY DEF Sound, TypeOK, LoopTypeOK, Events
  <2>2. CASE JobComes
    BY <1>1, <2>1, <2>2
    DEF JobComes, loopVars, machVars, listenVars, bookVars, FreshIdle, DoneIsTrue
  <2>3. CASE Receive \/ NewSession
    <3>1. /\ UNCHANGED <<ctr, job, starter>> /\ since' = {}
          /\ msg'.done \cup news'.done \subseteq news.done
      BY <2>3 DEF Receive, NewSession, TakesStat, NoEvents, loopVars, machVars
    <3> QED  BY <1>1, <2>1, <3>1 DEF FreshIdle, DoneIsTrue
  <2>4. ASSUME NEW u \in Units, JobStart(u)
        PROVE  FreshIdle' /\ DoneIsTrue'
    <3>1. /\ UNCHANGED <<ctr, starter, since, msg>> /\ news'.done = news.done
          /\ \A v \in Units : job'[v] = IF v = u THEN "running" ELSE job[v]
          /\ ctr[u] = "running" /\ job[u] = "no"
      BY <2>4 DEF JobStart, loopVars, machVars, listenVars, bookVars, TypeOK,
                  Events
    <3> QED
      BY <1>1, <2>1, <3>1 DEF FreshIdle, DoneIsTrue
  <2>5. ASSUME NEW u \in Units, JobEnd(u)
        PROVE  FreshIdle' /\ DoneIsTrue'
    <3>1. /\ UNCHANGED <<starter, msg>> /\ since' = since \cup {u}
          /\ news'.done = news.done \cup {u}
          /\ \A v \in Units : job'[v] = IF v = u THEN "done" ELSE job[v]
          /\ \A v \in Units : ctr'[v] = IF v = u THEN "exited" ELSE ctr[v]
          /\ job[u] = "running"
      BY <2>5 DEF JobEnd, loopVars, listenVars, TypeOK, Events
    <3>2. u \notin msg.done \cup reported
      BY <2>1, <3>1 DEF DoneIsTrue
    <3> QED
      BY <1>1, <2>1, <3>1, <3>2 DEF FreshIdle, DoneIsTrue
  <2>6. ASSUME NEW u \in Units, Launch(u)
        PROVE  FreshIdle' /\ DoneIsTrue'
    <3>1. /\ UNCHANGED <<job, since, msg, news>> /\ starter[u] = "jit"
          /\ \A v \in Units : starter'[v] = IF v = u THEN "ok" ELSE starter[v]
          /\ \A v \in Units : ctr'[v] = IF v = u THEN "running" ELSE ctr[v]
      BY <2>6 DEF Launch, hubVars, listenVars, bookVars, TypeOK, LoopTypeOK
    <3> QED
      BY <1>1, <2>1, <3>1 DEF FreshIdle, DoneIsTrue
  <2> QED  BY <2>2, <2>3, <2>4, <2>5, <2>6
<1> QED  BY <1>2, <1>3 DEF Sound

LEMMA CleanupDoneSound ==
  ASSUME TypeOK, Sound, NEW u \in Units, LoopCleanupDone(u)
  PROVE  Sound'
<1>1. /\ cleaning' = cleaning \ {u}
      /\ \A v \in Units : cleaner'[v] = IF v = u THEN "idle" ELSE cleaner[v]
      /\ \A v \in Units : state'[v] = IF v = u THEN "Absent" ELSE state[v]
      /\ \A v \in Units : ctr'[v] = IF v = u THEN "none" ELSE ctr[v]
      /\ completed' = completed \ {u} /\ runnerIDs' = runnerIDs \ {u}
      /\ UNCHANGED <<fresh, pending, pendingIDs, completedIDs, starter, job, news,
                     msg, since, reported, unknowing>>
  BY DEF LoopCleanupDone, HandleCleanupDone, Forget, hubVars, listenVars,
         bookVars, TypeOK, LoopTypeOK
<1>2. state[u] = "Dying"
  BY DEF LoopCleanupDone, Sound, DeadOnly
<1>3. /\ cleaning \subseteq Units /\ pending \subseteq Units
      /\ fresh \subseteq Units /\ reported \subseteq Units
  BY DEF TypeOK, LoopTypeOK
<1>4. DeadOnly'
  BY <1>1, <1>3 DEF Sound, DeadOnly, LiveStates
<1>5. FreshIdle' /\ DoneIsTrue'
  BY <1>1, <1>2, <1>3 DEF Sound, FreshIdle, DoneIsTrue
<1>6. Accounted' /\ Told' /\ CompletionApplied'
  BY <1>1, <1>2, <1>3 DEF Sound, Accounted, Told, CompletionApplied, LiveStates
<1> QED  BY <1>4, <1>5, <1>6 DEF Sound

LEMMA JobCompletedSound ==
  ASSUME TypeOK, Sound, NEW u \in Units, NEW named \in BOOLEAN,
         LoopJobCompleted(u, named)
  PROVE  Sound'
<1>1. /\ UNCHANGED <<state, cleaning, cleaner, fresh, runnerIDs, starter, ctr,
                     job, news, since, unknowing>>
      /\ u \in msg.done /\ msg'.done = msg.done \ {u}
      /\ reported' = reported \cup {u}
  BY DEF LoopJobCompleted, HandleJobCompleted, cleanVars, hubVars, machVars,
         TypeOK, Events
<1>2. /\ pending \subseteq Units /\ pendingIDs \subseteq pending
      /\ msg.done \subseteq Units
  BY DEF TypeOK, LoopTypeOK, Events
<1>3. /\ DeadOnly /\ FreshIdle /\ DoneIsTrue /\ Accounted /\ Told
      /\ CompletionApplied
  BY DEF Sound
<1>4. job[u] = "done" /\ u \notin since
  BY <1>1, <1>2, <1>3 DEF DoneIsTrue
<1> DEFINE found == Known(u) /\ (named \/ u \in runnerIDs)
           byName == named \/ found \/ u \in pendingIDs
<1>5. /\ completed' = IF found /\ state[u] \in LiveStates
                      THEN completed \cup {u} ELSE completed
      /\ pending \ {u} \subseteq pending' /\ pending' \subseteq pending
      /\ pendingIDs' \subseteq pendingIDs
      /\ completedIDs' = IF byName THEN completedIDs ELSE completedIDs \cup {u}
      /\ byName /\ state[u] \notin LiveStates => u \notin pending'
  BY DEF LoopJobCompleted, HandleJobCompleted, KeptIDs
<1>6. state[u] \in LiveStates => u \notin pending /\ u \notin pendingIDs /\ Known(u)
  BY <1>2, <1>3 DEF DeadOnly, LiveStates, Known
<1>7. DeadOnly' /\ FreshIdle'
  BY <1>1, <1>3, <1>5 DEF DeadOnly, FreshIdle
<1>8. DoneIsTrue'
  BY <1>1, <1>3, <1>4, <1>5 DEF DoneIsTrue
<1>9. Accounted'
  BY <1>1, <1>3, <1>5 DEF Accounted
<1>10. Told'
  BY <1>1, <1>3, <1>5, <1>6 DEF Told
<1>11. CompletionApplied'
  BY <1>1, <1>2, <1>3, <1>5, <1>6 DEF CompletionApplied
<1> QED  BY <1>7, <1>8, <1>9, <1>10, <1>11 DEF Sound

LEMMA NextSound ==
  ASSUME TypeOK, Sound, [Next]_vars
  PROVE  Sound'
<1>1. CASE UNCHANGED vars
  BY <1>1
  DEF vars, loopVars, unitVars, jobVars, cleanVars, hubVars, machVars,
      listenVars, bookVars, Sound, DeadOnly, FreshIdle, DoneIsTrue, Accounted,
      Told, CompletionApplied
<1>2. CASE Next
  BY <1>2, HandlingSound, WorldSound, CleanupDoneSound, JobCompletedSound
  DEF Next, UnitStep, Answers
<1> QED  BY <1>1, <1>2

---------------------------------------------------------------------------
(***************************************************************************)
(* The types, and the count of jobs that bounds the statistic.             *)
(***************************************************************************)
Taken == {u \in Units : job[u] # "no"}

LEMMA AssignedTyped ==
  ASSUME TypeOK, JobsCounted
  PROVE  Assigned \in 0..MaxJobs
<1> DEFINE running == {u \in Units : job[u] = "running"}
<1>1. running \subseteq Taken /\ Taken \subseteq Units
  BY DEF Taken
<1>2. IsFiniteSet(Taken)
  BY <1>1, ControllerAssumption, FS_Subset
<1>3. /\ Cardinality(running) \in Nat /\ Cardinality(Taken) \in Nat
      /\ Cardinality(running) <= Cardinality(Taken)
  BY <1>1, <1>2, FS_Subset, FS_CardinalityType
<1>4. jobs = queue + Cardinality(Taken) /\ jobs \in 0..MaxJobs /\ queue \in 0..jobs
  BY DEF TypeOK, JobsCounted, Taken
<1>5. Assigned = queue + Cardinality(running)
  BY DEF Assigned
<1> QED  BY <1>3, <1>4, <1>5, DemandAssumption

\* Only a JobStart makes a job taken.
LEMMA TakenOtherwise ==
  ASSUME TypeOK, JobsCounted, [Next]_vars,
         ~JobComes, \A u \in Units : ~JobStart(u)
  PROVE  JobsCounted' /\ jobs' = jobs /\ queue' = queue
<1>1. /\ jobs' = jobs /\ queue' = queue
      /\ \/ job' = job
         \/ \E u \in Units : job[u] = "running" /\ job' = [job EXCEPT ![u] = "done"]
  BY DEF Next, UnitStep, JobEnd, Launch, LoopUnitStarted, LoopCleanupDone,
         LoopEvent, LoopJobStarted, LoopJobCompleted, LoopRegistration,
         LoopCheckPassDone, Expires, LoopTick, LoopDesired, Answers, Receive,
         LoopSessionStarted, LoopResynced, LoopDrop, NewSession, hubVars, vars
<1>2. Taken' = Taken
  BY <1>1 DEF Taken, TypeOK
<1> QED  BY <1>1, <1>2 DEF JobsCounted, Taken

LEMMA JobsTaken ==
  ASSUME TypeOK, JobsCounted, [Next]_vars
  PROVE  JobsCounted' /\ jobs' \in 0..MaxJobs /\ queue' \in 0..jobs'
<1>1. jobs \in 0..MaxJobs /\ queue \in 0..jobs /\ MaxJobs \in Nat
  BY DemandAssumption DEF TypeOK
<1>2. IsFiniteSet(Taken) /\ Cardinality(Taken) \in Nat
  BY ControllerAssumption, FS_Subset, FS_CardinalityType DEF Taken
<1>3. CASE JobComes
  <2>1. Taken' = Taken
    BY <1>3 DEF JobComes, Taken
  <2> QED  BY <1>1, <1>2, <1>3, <2>1 DEF JobComes, JobsCounted, Taken
<1>4. ASSUME NEW u \in Units, JobStart(u)
      PROVE  JobsCounted' /\ jobs' \in 0..MaxJobs /\ queue' \in 0..jobs'
  <2>1. Taken' = Taken \cup {u} /\ u \notin Taken
    BY <1>4 DEF JobStart, Taken, TypeOK
  <2>2. Cardinality(Taken') = Cardinality(Taken) + 1
    BY <1>2, <2>1, FS_AddElement
  <2>3. jobs = queue + Cardinality(Taken)
    BY DEF JobsCounted, Taken
  <2>4. queue > 0 /\ queue' = queue - 1 /\ jobs' = jobs
    BY <1>4 DEF JobStart
  <2>5. jobs' = queue' + Cardinality(Taken')
    BY <1>1, <1>2, <2>2, <2>3, <2>4
  <2> QED  BY <1>1, <2>4, <2>5 DEF JobsCounted, Taken
<1> QED  BY <1>1, <1>3, <1>4, TakenOtherwise

\* The steps that handle a message, by the types of the handlers.
LEMMA LoopTyped ==
  ASSUME TypeOK, [Next]_vars
  PROVE  LoopTypeOK'
<1>1. LoopTypeOK
  BY DEF TypeOK
<1>2. CASE UNCHANGED loopVars
  BY <1>1, <1>2 DEF LoopTypeOK, loopVars, unitVars, jobVars, checkVars, cleanVars,
                    machineVars
<1>3. CASE \E u \in Units : UnitStep(u)
  <2>1. PICK u \in Units : UnitStep(u)
    BY <1>3
  <2>2. CASE JobStart(u) \/ JobEnd(u)
    BY <1>2, <2>2 DEF JobStart, JobEnd
  <2>3. CASE Launch(u)
    BY <1>1, <2>3 DEF Launch, LoopTypeOK, StarterPlaces, Launching, unitVars,
                      jobVars, checkVars, cleanVars, machineVars
  <2>4. CASE LoopUnitStarted(u)
    BY <1>1, <2>4, UnitStartedTyped DEF LoopUnitStarted
  <2>5. CASE LoopCleanupDone(u)
    BY <1>1, <2>5, CleanupDoneTyped DEF LoopCleanupDone
  <2>6. CASE LoopEvent(u)
    BY <1>1, <2>6, EventTyped DEF LoopEvent
  <2>7. CASE \/ LoopJobStarted(u)
             \/ \E named \in BOOLEAN : LoopJobCompleted(u, named)
    BY <1>1, <2>7, JobsTyped DEF LoopJobStarted, LoopJobCompleted
  <2> QED  BY <2>1, <2>2, <2>3, <2>4, <2>5, <2>6, <2>7 DEF UnitStep
<1>4. CASE \E u \in Units, old \in BOOLEAN : LoopRegistration(u, old)
  BY <1>1, <1>4, RegistrationTyped DEF LoopRegistration
<1>5. CASE LoopCheckPassDone
  BY <1>1, <1>5, CheckPassDoneTyped DEF LoopCheckPassDone
<1>6. CASE Expires
  BY <1>1, <1>6, TickTyped DEF Expires, LoopTick
<1>7. CASE LoopDesired
  BY <1>1, <1>7, DesiredTyped DEF LoopDesired
<1>8. CASE LoopSessionStarted
  <2>1. HandleSessionStarted
    BY <1>8 DEF LoopSessionStarted
  <2> QED
    BY <1>1, <2>1 DEF HandleSessionStarted, LoopTypeOK, unitVars, checkVars,
                      cleanVars, machineVars
<1>9. TheMachine \in Machines /\ Slots \in Nat
  BY ControllerAssumption, FS_CardinalityType DEF TheMachine, Slots
<1>10. CASE LoopResynced
  BY <1>1, <1>9, <1>10, ResyncedTyped DEF LoopResynced
<1>11. CASE LoopDrop
  BY <1>1, <1>9, <1>11, HealthTyped DEF LoopDrop, Healths
<1>12. CASE JobComes \/ Receive \/ NewSession
  BY <1>2, <1>12 DEF JobComes, Receive, NewSession
<1>13. CASE UNCHANGED vars
  BY <1>2, <1>13 DEF vars
<1> QED
  BY <1>3, <1>4, <1>5, <1>6, <1>7, <1>8, <1>10, <1>11, <1>12, <1>13
  DEF Next, Answers

\* Everything but the loop and the jobs.
Around ==
  /\ job \in [Units -> {"no", "running", "done"}]
  /\ news \in Events /\ msg \in Events
  /\ ctr \in [Units -> {"none", "running", "exited"}]
  /\ stream \in BOOLEAN /\ dies \subseteq Units
  /\ serving \in {"session", "poll", "message"}
  /\ stat \in 0..MaxJobs /\ faults \in 0..MaxFaults
  /\ since \subseteq Units /\ reported \subseteq Units
  /\ unknowing \subseteq Units

LEMMA ForgotTyped ==
  ASSUME unknowing \subseteq Units, NEW thrown \in SUBSET Units, Forgot(thrown)
  PROVE  unknowing' \subseteq Units
BY DEF Forgot, DiesUnseen

LEMMA AroundKept ==
  ASSUME TypeOK, JobsCounted, [Next]_vars
  PROVE  Around'
<1>1. Around /\ pending \subseteq Units /\ completedIDs \subseteq Units
  BY DEF TypeOK, Around, LoopTypeOK
<1>2. ASSUME NEW u \in Units, UnitStep(u)
      PROVE  Around'
  <2>1. CASE JobStart(u)
    BY <1>1, <2>1 DEF JobStart, Around, Events, machVars, listenVars, bookVars
  <2>2. CASE JobEnd(u)
    BY <1>1, <2>2 DEF JobEnd, Around, Events, listenVars
  <2>3. CASE Launch(u)
    BY <1>1, <2>3 DEF Launch, Around, hubVars, listenVars, bookVars
  <2>4. CASE LoopUnitStarted(u)
    BY <1>1, <2>4 DEF LoopUnitStarted, Around, hubVars, machVars, listenVars,
                      bookVars
  <2>5. CASE LoopCleanupDone(u)
    BY <1>1, <2>5 DEF LoopCleanupDone, Around, hubVars, listenVars, bookVars
  <2>6. CASE LoopEvent(u)
    BY <1>1, <2>6, ForgotTyped DEF LoopEvent, Around, hubVars, listenVars
  <2>7. CASE LoopJobStarted(u)
    BY <1>1, <2>7 DEF LoopJobStarted, Around, Events, hubVars, machVars, bookVars
  <2>8. CASE \E named \in BOOLEAN : LoopJobCompleted(u, named)
    BY <1>1, <2>8 DEF LoopJobCompleted, Around, Events, hubVars, machVars
  <2> QED
    BY <1>2, <2>1, <2>2, <2>3, <2>4, <2>5, <2>6, <2>7, <2>8 DEF UnitStep
<1>3. CASE JobComes
  BY <1>1, <1>3 DEF JobComes, Around, machVars, listenVars, bookVars
<1>4. ASSUME NEW u \in Units, NEW old \in BOOLEAN, LoopRegistration(u, old)
      PROVE  Around'
  BY <1>1, <1>4, ForgotTyped
  DEF LoopRegistration, Around, hubVars, machVars, listenVars
<1>5. CASE LoopCheckPassDone
  BY <1>1, <1>5 DEF LoopCheckPassDone, Around, hubVars, machVars, listenVars,
                    bookVars
<1>6. CASE Expires
  <2>1. PICK oldPending \in SUBSET pending, oldIDs \in SUBSET completedIDs :
          LoopTick(oldPending, oldIDs)
    BY <1>6 DEF Expires
  <2>2. oldPending \cup oldIDs \in SUBSET Units
    BY <1>1
  <2> QED
    BY <1>1, <2>1, <2>2, ForgotTyped
    DEF LoopTick, Around, hubVars, machVars, listenVars
<1>7. CASE LoopDesired
  BY <1>1, <1>7 DEF LoopDesired, Around, hubVars, machVars, bookVars
<1>8. CASE Receive
  BY <1>1, <1>8, AssignedTyped
  DEF Receive, TakesStat, Around, NoEvents, Events, machVars
<1>9. CASE LoopSessionStarted
  BY <1>1, <1>9, ForgotTyped DEF LoopSessionStarted, Around, hubVars, machVars
<1>10. CASE LoopResynced
  BY <1>1, <1>10, ForgotTyped DEF LoopResynced, Around, hubVars, listenVars
<1>11. CASE LoopDrop
  <2>1. faults' \in 0..MaxFaults
    BY <1>1, <1>11, DemandAssumption DEF LoopDrop, Around
  <2> QED
    BY <1>1, <1>11, <2>1 DEF LoopDrop, Around, hubVars, listenVars, bookVars
<1>12. CASE NewSession
  BY <1>1, <1>12, AssignedTyped, DemandAssumption
  DEF NewSession, TakesStat, Around, NoEvents, Events, machVars
<1>13. CASE UNCHANGED vars
  BY <1>1, <1>13 DEF vars, Around, hubVars, machVars, listenVars, bookVars
<1> QED
  BY <1>2, <1>3, <1>4, <1>5, <1>6, <1>7, <1>8, <1>9, <1>10, <1>11, <1>12, <1>13
  DEF Next, Answers

---------------------------------------------------------------------------
(***************************************************************************)
(* The theorems.                                                           *)
(***************************************************************************)
LEMMA InitSound ==
  ASSUME Init
  PROVE  DemandInvariant
<1>1. TheMachine \in Machines /\ Slots \in Nat
  BY ControllerAssumption, FS_CardinalityType DEF TheMachine, Slots
<1>2. LoopTypeOK
  BY <1>1 DEF Init, LoopTypeOK, UnitStates, KnownStates, Healths, StarterPlaces,
              Launching, CleanerPlaces
<1>3. TypeOK
  BY <1>2, DemandAssumption DEF Init, TypeOK, Events, NoEvents
<1>4. JobsCounted
  <2>1. {u \in Units : job[u] # "no"} = {}
    BY DEF Init
  <2> QED  BY <2>1, FS_EmptySet DEF Init, JobsCounted
<1>5. DeadOnly /\ FreshIdle /\ DoneIsTrue /\ Accounted /\ Told /\ CompletionApplied
  BY DEF Init, DeadOnly, FreshIdle, DoneIsTrue, Accounted, Told,
         CompletionApplied, NoEvents
<1> QED  BY <1>3, <1>4, <1>5 DEF DemandInvariant

\* The inductive invariant: what GitHub, the listener and the loop hold of the
\* end of a job fits together, whatever is lost, late or thrown away.
THEOREM DemandIsSound == Spec => []DemandInvariant
<1>1. DemandInvariant /\ [Next]_vars => DemandInvariant'
  <2> SUFFICES ASSUME DemandInvariant, [Next]_vars
               PROVE  DemandInvariant'
    OBVIOUS
  <2>1. TypeOK /\ JobsCounted /\ Sound
    BY DEF DemandInvariant, Sound
  <2>2. TypeOK' /\ JobsCounted'
    BY <2>1, LoopTyped, JobsTaken, AroundKept DEF TypeOK, Around
  <2>3. Sound'
    BY <2>1, NextSound
  <2> QED  BY <2>2, <2>3 DEF DemandInvariant, Sound
<1> QED  BY <1>1, InitSound, PTL DEF Spec

\* A finished job that the statistic in force still counts is subtracted by
\* handleDesired, unless its unit is still live (markDying, SPEC R11).
THEOREM FinishedAreCounted == Spec => []FinishedCounted
<1>1. DemandInvariant => FinishedCounted
  BY DEF DemandInvariant, FinishedCounted, Accounted, DoneIsTrue, FreshIdle, TypeOK
<1> QED  BY <1>1, DemandIsSound, PTL

\* No entry of pendingCompletion outlives the JobCompleted it waits for.
THEOREM CompletionsAreApplied == Spec => []CompletionApplied
<1>1. DemandInvariant => CompletionApplied
  BY DEF DemandInvariant
<1> QED  BY <1>1, DemandIsSound, PTL
=============================================================================
