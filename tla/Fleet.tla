-------------------------------- MODULE Fleet --------------------------------
(***************************************************************************)
(* The controller loop together with everything that runs beside it: the   *)
(* startUnit, cleanupUnit and checkRegistrations goroutines (unit.go), the *)
(* machine agents (machine/agent.go), and, outside the program, the        *)
(* containers on the machines, the runner registrations at GitHub and the  *)
(* jobs GitHub hands to runners.                                           *)
(*                                                                         *)
(* A message to the loop is the state its sender is in until the loop      *)
(* takes it: a goroutine that sends once and ends stays in its last place, *)
(* an agent has one slot for each kind of notice, taken in the order the   *)
(* agent sends them.  The listener is left open: it may ask for any number *)
(* of runners at any time, and report a job's start and end late, twice or *)
(* never.                                                                  *)
(***************************************************************************)
EXTENDS Controller

CONSTANTS Budgets,     \* the EffectiveMax values a machine's info may give
          MaxAssigned, \* bound on TotalAssignedJobs in a statistic
          Faults       \* which of AllFaults this instance lets happen

\* late: a launch may outlast startTimeout.  cut: the connection may be lost
\* with a create command under way.  drop: an events stream may end.
\* fatal: a reconnect may find a contradiction (R16, R21).  command: a
\* machine command may fail, with or without its effect.  github: a GitHub
\* call may fail.  crash: a runner may exit though nobody removed it.
\* callback: the listener reports job starts and ends.  leftover: a machine
\* may hold containers of an earlier incarnation.  unreached: preflight may not
\* have reached a machine.
AllFaults == {"late", "cut", "drop", "fatal", "command", "github", "crash",
              "callback", "leftover", "unreached"}

ASSUME FleetAssumption ==
  /\ Budgets \subseteq Nat /\ Budgets # {}
  /\ MaxAssigned \in Nat
  /\ Faults \subseteq AllFaults

VARIABLES
  overdue,  \* the units being launched that are past startTimeout
  answer,   \* answer[u]: what checkRegistrations found, not yet handled
  agent,    \* agent[m]: where the agent's round is
  told,     \* the machines whose agent has reported its first round
  sync,     \* sync[m]: the Resynced message not yet handled, or NoSync
  dies,     \* dies[m]: die events in the stream, not yet handled
  notice,   \* notice[m]: an Unhealthy or Failed message not yet handled
  ctr,      \* ctr[u]: the runner container of u on mach[u]
  reg,      \* the runners registered at GitHub
  job,      \* job[u]: whether the runner got a job, and where that is
  ghost     \* abandoned create commands that may still take effect

worldVars == <<ctr, reg, job, ghost>>
agentVars == <<agent, told, sync, dies, notice>>
vars == <<loopVars, overdue, answer, agentVars, worldVars>>

TypeOK ==
  /\ LoopTypeOK
  /\ overdue \subseteq Units
  /\ answer \in [Units -> {"none", "found", "gone", "err"}]
  /\ agent \in [Machines -> {"down", "open", "served", "failed"}]
  /\ told \subseteq Machines
  /\ sync \in [Machines -> [on : BOOLEAN, runner : [Units -> RunnerSights],
                            started : SUBSET Units, info : Nat]]
  /\ dies \in [Machines -> SUBSET Units]
  /\ notice \in [Machines -> {"no", "Unhealthy", "Failed"}]
  /\ ctr \in [Units -> {"none", "created", "running", "exited"}]
  /\ reg \subseteq Units
  /\ job \in [Units -> {"no", "running", "done"}]
  /\ ghost \subseteq Units

---------------------------------------------------------------------------
(***************************************************************************)
(* Start: preflight reached some of the machines (Run, controller.go), and *)
(* an earlier incarnation may have left containers and registrations.      *)
(***************************************************************************)
\* reached are the machines preflight reached, left the units that earlier
\* incarnations have left parts of.
InitWith(reached, left) ==
  /\ "leftover" \in Faults \/ left = {}
  /\ "unreached" \in Faults \/ reached = Machines
  /\ state = [u \in Units |-> "Absent"]
  /\ mach \in [Units -> Machines]
  /\ \A u \in Units \ left : mach[u] = CHOOSE m \in Machines : TRUE
  /\ parts = [u \in Units |-> FALSE]
  /\ busy = {} /\ completed = {} /\ fresh = Units \ left
  /\ runnerIDs = {} /\ startedAt = {}
  /\ cleaning = {} /\ cleaner = [u \in Units |-> "idle"]
  /\ checking = {} /\ checkPass = FALSE /\ checkQ = {}
  /\ pending = {} /\ pendingIDs = {} /\ completedIDs = {}
  /\ health = [m \in Machines |->
                 IF m \in reached THEN "Healthy" ELSE "Unhealthy"]
  /\ effMax \in [Machines -> Budgets \cup {0}]
  /\ \A m \in Machines : m \in reached <=> effMax[m] # 0
  /\ capacity = Capacity(MaxRunners, health, effMax)
  /\ waiting = reached
  /\ starter = [u \in Units |-> "idle"]
  /\ overdue = {}
  /\ answer = [u \in Units |-> "none"]
  /\ agent = [m \in Machines |-> "down"] /\ told = {}
  /\ sync = [m \in Machines |-> NoSync]
  /\ dies = [m \in Machines |-> {}]
  /\ notice = [m \in Machines |-> "no"]
  /\ ctr \in [Units -> {"none", "created", "running", "exited"}]
  /\ reg \in SUBSET left
  /\ ghost = {}
  /\ job \in [Units -> {"no", "running", "done"}]
  /\ \A u \in Units :
       /\ u \in left <=> ctr[u] # "none"
       /\ job[u] = "running" => ctr[u] = "running" /\ u \in reg
       /\ job[u] = "done" => ctr[u] \in {"running", "exited"}

Init == \E reached \in SUBSET Machines, left \in SUBSET Units :
          InitWith(reached, left)

---------------------------------------------------------------------------
(***************************************************************************)
(* The world: commands that reach a machine or GitHub, and what runners do *)
(* by themselves.                                                          *)
(***************************************************************************)

\* A running container that stops is seen by the agent only while it has the
\* events stream of that machine open.
EmitDie(u) ==
  dies' = IF ctr[u] = "running" /\ agent[mach[u]] \in {"open", "served"}
          THEN [dies EXCEPT ![mach[u]] = @ \cup {u}]
          ELSE dies

\* GetRunner, then RemoveRunner if it found the runner.  GitHub refuses to
\* remove a runner with a job (JobStillRunningError).  A failed call may
\* have had its effect.
RegistrationRemoved(u) ==
  /\ ~(u \in reg /\ job[u] = "running")
  /\ reg' = reg \ {u}

RegistrationKept(u) ==
  \/ u \in reg /\ job[u] = "running" /\ UNCHANGED reg
  \/ "github" \in Faults /\ UNCHANGED reg
  \/ "github" \in Faults /\ RegistrationRemoved(u)

\* runtime.Remove with force: idempotent, and it kills a running container.
ContainerRemoved(u) ==
  /\ ctr' = [ctr EXCEPT ![u] = "none"]
  /\ EmitDie(u)

ContainerKept(u) ==
  /\ "command" \in Faults
  /\ ContainerRemoved(u) \/ UNCHANGED <<ctr, dies>>

\* GitHub assigns a job to a registered, running runner, once.
JobStart(u) ==
  /\ job[u] = "no" /\ ctr[u] = "running" /\ u \in reg
  /\ job' = [job EXCEPT ![u] = "running"]
  /\ UNCHANGED <<loopVars, overdue, answer, agentVars, ctr, reg, ghost>>

\* The job ends; the ephemeral runner takes its registration away itself.
JobEnd(u) ==
  /\ job[u] = "running"
  /\ job' = [job EXCEPT ![u] = "done"]
  /\ reg' = reg \ {u}
  /\ UNCHANGED <<loopVars, overdue, answer, agentVars, ctr, ghost>>

\* The runner process ends: after its job, when it is no longer registered,
\* or by a crash, which leaves the registration behind.
RunnerExit(u) ==
  /\ ctr[u] = "running"
  /\ (job[u] # "running" /\ u \notin reg) \/ "crash" \in Faults
  /\ ctr' = [ctr EXCEPT ![u] = "exited"]
  /\ job' = [job EXCEPT ![u] = IF @ = "running" THEN "done" ELSE @]
  /\ EmitDie(u)
  /\ UNCHANGED <<loopVars, overdue, answer, agent, told, sync, notice, reg,
                 ghost>>

\* GitHub drops the registration of a runner that stays away.
RegistrationExpires(u) ==
  /\ u \in reg /\ ctr[u] # "running" /\ starter[u] = "idle"
  /\ reg' = reg \ {u}
  /\ UNCHANGED <<loopVars, overdue, answer, agentVars, ctr, job, ghost>>

\* A create command given up at its deadline, or cut off with its connection,
\* goes on at the machine: that the SSH channel is closed does not stop it
\* (ssh.go), nor does it the daemon.
LateCreate(u) ==
  /\ u \in ghost
  /\ ghost' = ghost \ {u}
  /\ ctr' = [ctr EXCEPT ![u] = "created"]
  /\ UNCHANGED <<loopVars, overdue, answer, agentVars, reg, job>>

---------------------------------------------------------------------------
(***************************************************************************)
(* startUnit.  Past startTimeout its context is dead: the command under    *)
(* way fails, but may have had its effect.                                 *)
(***************************************************************************)
StarterAt(u, place) ==
  /\ starter' = [starter EXCEPT ![u] = place]
  /\ UNCHANGED <<unitVars, jobVars, checkVars, cleanVars, machineVars,
                 startedAt, overdue, answer, agent, told, sync, notice, job>>

\* startTimeout passes for a unit that is being created.
StartTimeout(u) ==
  /\ "late" \in Faults
  /\ state[u] = "Creating" /\ u \notin overdue
  /\ overdue' = overdue \cup {u}
  /\ UNCHANGED <<loopVars, answer, agentVars, worldVars>>

\* GenerateJIT registers the runner at GitHub.
GenerateJIT(u) ==
  /\ starter[u] = "jit"
  /\ \/ /\ u \notin overdue
        /\ reg' = reg \cup {u}
        /\ StarterAt(u, "create")
     \/ /\ u \in overdue \/ "github" \in Faults
        /\ reg' = reg \/ reg' = reg \cup {u}
        /\ StarterAt(u, "errNoID")
  /\ UNCHANGED <<ctr, dies, ghost>>

Create(u) ==
  /\ starter[u] = "create"
  /\ \/ /\ u \notin overdue
        /\ ctr' = [ctr EXCEPT ![u] = "created"] /\ UNCHANGED ghost
        /\ StarterAt(u, "start")
     \/ /\ u \in overdue \/ "command" \in Faults
        /\ ctr' = ctr \/ ctr' = [ctr EXCEPT ![u] = "created"]
        /\ StarterAt(u, "undoReg") /\ UNCHANGED ghost
     \/ /\ u \in overdue \/ "cut" \in Faults
        /\ ghost' = ghost \cup {u} /\ UNCHANGED ctr
        /\ StarterAt(u, "undoReg")
  /\ UNCHANGED <<reg, dies>>

\* CopyIn and Start.
Start(u) ==
  /\ starter[u] = "start"
  /\ \/ /\ u \notin overdue /\ ctr[u] = "created"
        /\ ctr' = [ctr EXCEPT ![u] = "running"]
        /\ StarterAt(u, "ok")
     \/ /\ u \in overdue \/ "command" \in Faults
        /\ \/ ctr' = ctr
           \/ ctr[u] = "created" /\ ctr' = [ctr EXCEPT ![u] = "running"]
        /\ StarterAt(u, "undoReg")
  /\ UNCHANGED <<reg, dies, ghost>>

\* The rollback of a failed launch is cleanupParts; it reports the launch's
\* error whether or not it succeeds.
Undo(u) ==
  \/ /\ starter[u] = "undoReg"
     /\ \/ RegistrationRemoved(u) /\ StarterAt(u, "undoRm")
        \/ RegistrationKept(u) /\ StarterAt(u, "err")
     /\ UNCHANGED <<ctr, dies, ghost>>
  \/ /\ starter[u] = "undoRm"
     /\ ContainerRemoved(u) \/ ContainerKept(u)
     /\ StarterAt(u, "err")
     /\ UNCHANGED <<reg, ghost>>

LoopUnitStarted(u) ==
  /\ starter[u] \in {"ok", "err", "errNoID"}
  /\ HandleUnitStarted(u, starter[u])
  /\ overdue' = overdue \ {u}
  /\ UNCHANGED <<answer, agentVars, worldVars>>

---------------------------------------------------------------------------
(***************************************************************************)
(* cleanupUnit (cleanupParts) and checkRegistrations.                      *)
(***************************************************************************)
CleanerAt(u, place) ==
  /\ cleaner' = [cleaner EXCEPT ![u] = place]
  /\ UNCHANGED <<unitVars, jobVars, checkVars, cleaning, machineVars,
                 startedAt, starter, overdue, answer, agent, told, sync,
                 notice, job, ghost>>

\* Wrong: the container goes though the registration stayed.
CleanRegistration_IgnoresRefusal(u) ==
  /\ cleaner[u] = "reg"
  /\ RegistrationRemoved(u) \/ RegistrationKept(u)
  /\ CleanerAt(u, "rm")
  /\ UNCHANGED <<ctr, dies>>

CleanRegistration(u) ==
  /\ cleaner[u] = "reg"
  /\ \/ RegistrationRemoved(u) /\ CleanerAt(u, "rm")
     \/ RegistrationKept(u) /\ CleanerAt(u, "err")
  /\ UNCHANGED <<ctr, dies>>

CleanContainer(u) ==
  /\ cleaner[u] = "rm"
  /\ \/ ContainerRemoved(u) /\ CleanerAt(u, "ok")
     \/ ContainerKept(u) /\ CleanerAt(u, "err")
  /\ UNCHANGED reg

LoopCleanupDone(u) ==
  /\ cleaner[u] \in {"ok", "err"}
  /\ HandleCleanupDone(u, cleaner[u])
  /\ UNCHANGED <<overdue, answer, agentVars, worldVars>>

\* One GetRunner of the pass under way; the order of the pass is that of a
\* map iteration.
CheckRegistration(u) ==
  /\ u \in checkQ
  /\ checkQ' = checkQ \ {u}
  /\ \/ answer' = [answer EXCEPT ![u] = IF u \in reg THEN "found" ELSE "gone"]
     \/ "github" \in Faults /\ answer' = [answer EXCEPT ![u] = "err"]
  /\ UNCHANGED <<unitVars, jobVars, checking, checkPass, cleanVars,
                 machineVars, startedAt, starter, overdue, agentVars,
                 worldVars>>

\* old: the unit is past grace.
LoopRegistration(u, old) ==
  /\ answer[u] # "none"
  /\ HandleRegistration(u, answer[u], old)
  /\ answer' = [answer EXCEPT ![u] = "none"]
  /\ UNCHANGED <<overdue, agentVars, worldVars>>

LoopCheckPassDone ==
  /\ checkPass /\ checkQ = {} /\ \A u \in Units : answer[u] = "none"
  /\ HandleCheckPassDone
  /\ UNCHANGED <<overdue, answer, agentVars, worldVars>>

\* Wrong: every launch under way is timed out.
TooLate_AnyAge == {u \in Units : state[u] = "Creating"}

\* The units a tick finds older than startTimeout and still Creating.
TooLate == {u \in overdue : state[u] = "Creating"}

LoopTick ==
  /\ \E oldPending \in SUBSET pending, oldIDs \in SUBSET completedIDs :
       HandleTick(TooLate, oldPending, oldIDs)
  /\ UNCHANGED <<overdue, answer, agentVars, worldVars>>

---------------------------------------------------------------------------
(***************************************************************************)
(* The machine agent (Agent.Run, serve).  A round opens the events stream, *)
(* then observes, then reports Resynced, then passes die events on until   *)
(* the stream ends.  Backoff keeps the next round from starting before the *)
(* loop has taken the notices of the last one.                             *)
(***************************************************************************)
AgentOpen(m) ==
  /\ agent[m] = "down" /\ notice[m] = "no" /\ dies[m] = {} /\ ~sync[m].on
  /\ agent' = [agent EXCEPT ![m] = "open"]
  /\ UNCHANGED <<loopVars, overdue, answer, told, sync, dies, notice,
                 worldVars>>

Sight(u) == CASE ctr[u] = "none" -> "none"
              [] ctr[u] = "running" -> "alive"
              [] OTHER -> "dead"

AgentResync(m) ==
  /\ agent[m] = "open"
  /\ agent' = [agent EXCEPT ![m] = "served"]
  /\ told' = told \cup {m}
  /\ \E e \in Budgets :
       sync' = [sync EXCEPT ![m] =
                  [on |-> TRUE,
                   runner |-> [u \in Units |-> IF mach[u] = m THEN Sight(u)
                                                ELSE "none"],
                   started |-> startedAt,
                   info |-> e]]
  /\ UNCHANGED <<loopVars, overdue, answer, dies, notice, worldVars>>

\* A round that fails before it reports is announced only if it is the first.
AgentRoundFails(m) ==
  /\ "drop" \in Faults
  /\ \/ agent[m] = "open"
     \/ agent[m] = "down" /\ m \notin told
  /\ agent' = [agent EXCEPT ![m] = "down"]
  /\ dies' = [dies EXCEPT ![m] = {}]
  /\ notice' = IF m \in told THEN notice
               ELSE [notice EXCEPT ![m] = "Unhealthy"]
  /\ told' = told \cup {m}
  /\ UNCHANGED <<loopVars, overdue, answer, sync, worldVars>>

\* The stream of a served round ends; events still in it may be lost.
AgentDrop(m) ==
  /\ "drop" \in Faults
  /\ agent[m] = "served"
  /\ agent' = [agent EXCEPT ![m] = "down"]
  /\ \E read \in SUBSET dies[m] : dies' = [dies EXCEPT ![m] = read]
  /\ notice' = [notice EXCEPT ![m] = "Unhealthy"]
  /\ UNCHANGED <<loopVars, overdue, answer, told, sync, worldVars>>

\* ErrFatal: the agent's goroutine ends and the machine never returns.
AgentFatal(m) ==
  /\ "fatal" \in Faults
  /\ \/ agent[m] = "open"
     \/ agent[m] = "down" /\ notice[m] = "no" /\ dies[m] = {} /\ ~sync[m].on
  /\ agent' = [agent EXCEPT ![m] = "failed"]
  /\ dies' = [dies EXCEPT ![m] = {}]
  /\ notice' = [notice EXCEPT ![m] = "Failed"]
  /\ told' = told \cup {m}
  /\ UNCHANGED <<loopVars, overdue, answer, sync, worldVars>>

LoopResynced(m) ==
  /\ sync[m].on
  /\ HandleResynced(m, sync[m])
  /\ sync' = [sync EXCEPT ![m] = NoSync]
  /\ UNCHANGED <<overdue, answer, agent, told, dies, notice, worldVars>>

LoopEvent(m, u) ==
  /\ u \in dies[m] /\ agent[m] # "open" /\ ~sync[m].on
  /\ HandleEvent(u)
  /\ dies' = [dies EXCEPT ![m] = @ \ {u}]
  /\ UNCHANGED <<overdue, answer, agent, told, sync, notice, worldVars>>

LoopHealth(m) ==
  /\ notice[m] # "no" /\ dies[m] = {} /\ ~sync[m].on
  /\ HandleHealth(m, notice[m])
  /\ notice' = [notice EXCEPT ![m] = "no"]
  /\ UNCHANGED <<overdue, answer, agent, told, sync, dies, worldVars>>

---------------------------------------------------------------------------
(***************************************************************************)
(* The listener: any statistic at any time once its session is open, and   *)
(* job callbacks for what did happen.                                      *)
(***************************************************************************)
LoopDesired ==
  /\ ~syncing
  /\ \E n \in 0..MaxAssigned : HandleDesired(n)
  /\ UNCHANGED <<overdue, answer, agentVars, worldVars>>

LoopJobStarted(u) ==
  /\ ~syncing /\ "callback" \in Faults /\ job[u] # "no"
  /\ HandleJobStarted(u)
  /\ UNCHANGED <<overdue, answer, agentVars, worldVars>>

LoopJobCompleted(u, named) ==
  /\ ~syncing /\ "callback" \in Faults /\ job[u] = "done"
  /\ HandleJobCompleted(u, named)
  /\ UNCHANGED <<overdue, answer, agentVars, worldVars>>

\* A job that never had a runner is over, for example cancelled.
LoopJobCompletedBlank ==
  /\ ~syncing /\ "callback" \in Faults
  /\ HandleJobCompletedBlank
  /\ UNCHANGED <<overdue, answer, agentVars, worldVars>>

LoopSessionStarted ==
  /\ ~syncing /\ "callback" \in Faults
  /\ HandleSessionStarted
  /\ UNCHANGED <<overdue, answer, agentVars, worldVars>>

---------------------------------------------------------------------------
UnitStep(u) ==
  \/ JobStart(u) \/ JobEnd(u) \/ RunnerExit(u)
  \/ RegistrationExpires(u) \/ LateCreate(u)
  \/ StartTimeout(u) \/ GenerateJIT(u) \/ Create(u) \/ Start(u) \/ Undo(u)
  \/ CleanRegistration(u) \/ CleanContainer(u) \/ CheckRegistration(u)
  \/ LoopUnitStarted(u) \/ LoopCleanupDone(u)
  \/ \E old \in BOOLEAN : LoopRegistration(u, old)
  \/ LoopJobStarted(u)
  \/ \E named \in BOOLEAN : LoopJobCompleted(u, named)

MachineStep(m) ==
  \/ AgentOpen(m) \/ AgentResync(m) \/ AgentRoundFails(m) \/ AgentDrop(m)
  \/ AgentFatal(m)
  \/ LoopResynced(m) \/ LoopHealth(m)
  \/ \E u \in Units : LoopEvent(m, u)

Next ==
  \/ \E u \in Units : UnitStep(u)
  \/ \E m \in Machines : MachineStep(m)
  \/ LoopDesired \/ LoopTick \/ LoopCheckPassDone \/ LoopSessionStarted
  \/ LoopJobCompletedBlank

Spec == Init /\ [][Next]_vars

---------------------------------------------------------------------------
(***************************************************************************)
(* Safety.                                                                 *)
(***************************************************************************)

\* Cleaning up a unit never kills a runner in the middle of its job: nothing
\* the controller does takes away the container of a running job, whichever
\* way the unit came to be dying (cleanupParts, unit.go:107).
NoJobKilled == \A u \in Units : job[u] = "running" => ctr[u] = "running"

\* A container is removed only after its registration: GitHub has no list of
\* runners to find a forgotten registration by (the comment at unit.go:107).
RegistrationFirst ==
  [][\A u \in Units : ctr[u] # "none" /\ ctr'[u] = "none" => u \notin reg]_vars

\* The units that do not keep their place: their launch is past startTimeout,
\* or its create command was given up while it was under way at the machine.
Abandoned == overdue \cup ghost

InTime == Abandoned = {}

\* A container that exists on a healthy, synchronised machine is counted in
\* one of its slots, so that nothing is placed on top of it (SPEC 8.3: a dying
\* unit keeps its slot while a part of it is left).
SlotHeld ==
  \A u \in Units :
    ctr[u] # "none" /\ health[mach[u]] = "Healthy" /\ mach[u] \notin waiting
      => Occupies(state[u], parts[u])

\* The containers that are on machine m.
OnMachine(m) == {u \in Units : mach[u] = m /\ ctr[u] # "none"}

\* A new unit goes to a machine with fewer containers on it than its limit:
\* what createUnits believes about the slots of m is never too optimistic.
NoOverPlacement ==
  [][\A u \in Units :
       state[u] = "Absent" /\ state'[u] = "Creating"
         => Cardinality(OnMachine(mach'[u])) < effMax[mach'[u]]]_vars

\* Creating units never takes the running count above capacity, however the
\* desired counts, the refills of die events and the launches still under way
\* follow on one another.
CreatedWithinCapacity ==
  [][(\E u \in Units : state[u] = "Absent" /\ state'[u] = "Creating")
       => Cardinality(Running(state'))
            <= Capacity(MaxRunners, health, effMax)]_vars

\* The capacity the listener advertises is that of the machines as they are
\* now: every handler that changes a health or a limit recomputes it.
CapacityCurrent == capacity = Capacity(MaxRunners, health, effMax)

\* A runner is not counted twice, once as running and once as a completion
\* the statistics still have to report: handleDesired would then subtract its
\* job from the demand while it takes up room for another.
PendingIsDead == \A u \in pending : state[u] \notin LiveStates

\* When a unit is forgotten nothing of it is left, neither its container nor
\* its registration: nobody would come back for it before the next resync.
\* UnitsImplemented, below, implies it.
ForgottenIsGone ==
  [][\A u \in Units :
       Known(u) /\ state'[u] = "Absent" => ctr[u] = "none" /\ u \notin reg]_vars

---------------------------------------------------------------------------
(***************************************************************************)
(* The inductive invariant behind the safety properties, in named parts.   *)
(***************************************************************************)

\* A cleanup runs for dying units only, one at a time for each.
OneCleaner ==
  /\ cleaning = {u \in Units : cleaner[u] # "idle"}
  /\ \A u \in cleaning : state[u] = "Dying"

\* Nothing is known of an id that has not been issued.
FreshUnknown ==
  \A u \in fresh :
    /\ state[u] = "Absent" /\ starter[u] = "idle"
    /\ ctr[u] = "none" /\ u \notin ghost /\ u \notin pending
    /\ \A m \in Machines : u \notin dies[m] /\ sync[m].runner[u] = "none"

\* While a launch is under way the runner has not run, and the unit is being
\* created; only a launch past its deadline may find itself disowned.
LaunchOwned ==
  \A u \in Units :
    /\ starter[u] \in {"jit", "create"} => ctr[u] = "none"
    /\ starter[u] = "start" => ctr[u] \in {"none", "created"}
    /\ starter[u] \in Launching =>
         /\ u \notin ghost
         /\ \A m \in Machines : u \notin dies[m]
         /\ state[u] = "Creating" \/ u \in overdue

\* Once a cleanup or a rollback is about to remove the container, the runner
\* cannot be registered any more, or never comes to be.
NoRunnerLeft ==
  \A u \in Units :
    /\ u \in ghost => ctr[u] = "none"
    /\ starter[u] = "undoRm" => u \notin reg
    /\ cleaner[u] = "rm" /\ u \in reg =>
         ctr[u] = "none" /\ starter[u] \notin Launching /\ u \notin ghost

\* A job is given to a registered, running runner, and keeps it so.
JobHeld ==
  \A u \in Units : job[u] = "running" => ctr[u] = "running" /\ u \in reg

\* Type and named parts together are preserved by every step; NoJobKilled and
\* RegistrationFirst follow from it.
FleetInvariant ==
  /\ TypeOK
  /\ OneCleaner /\ FreshUnknown /\ LaunchOwned /\ NoRunnerLeft /\ JobHeld
  /\ PendingIsDead

---------------------------------------------------------------------------
(***************************************************************************)
(* The inductive invariant behind SlotHeld and NoOverPlacement.  It holds, *)
(* together with FleetInvariant, of every unit that is never abandoned:    *)
(* the container of a create that was given up while under way may appear  *)
(* when its unit has been cleaned up and forgotten (run                    *)
(* Fleet_slot_released).                                                   *)
(***************************************************************************)

\* The launch is not disowned while it can still make a container.
LaunchInTime(u) == starter[u] \in Launching => state[u] = "Creating"

\* Before the launch is over no snapshot holds a report of its end.
StartUnreported(u) ==
  u \in fresh \/ state[u] = "Creating" =>
    u \notin startedAt /\ \A m \in Machines : u \notin sync[m].started

\* Die events of the unit come from its own machine.
DiesAtHome(u) == \A m \in Machines : u \in dies[m] => m = mach[u]

\* What the cleanup has taken away does not come back.
StaysCleaned(u) ==
  /\ cleaner[u] \in {"rm", "ok"} => u \notin reg
  /\ cleaner[u] = "ok" => ctr[u] = "none"

\* A container that is there is known to the loop, unless it is a leftover on
\* a machine that has yet to be synchronised, again or for the first time.
Counted(u) ==
  ctr[u] # "none" =>
    \/ state[u] = "Creating"
    \/ Known(u) /\ parts[u]
    \/ ~Known(u) /\ (health[mach[u]] # "Healthy" \/ mach[u] \in waiting)

\* A snapshot that is about to be believed shows the container, or the unit is
\* one that the snapshot does not judge.
ShownBySync(u) ==
  LET s == sync[mach[u]]
  IN  s.on /\ ctr[u] # "none" => s.runner[u] # "none" \/ InFlight(u, s)

SlotInvariant(u) ==
  /\ LaunchInTime(u) /\ StartUnreported(u) /\ DiesAtHome(u)
  /\ StaysCleaned(u) /\ Counted(u) /\ ShownBySync(u)

AllSlots == \A u \in Units : SlotInvariant(u)

---------------------------------------------------------------------------
(***************************************************************************)
(* The life of each unit, as Unit has it.                                  *)
(***************************************************************************)
Phase(u) ==
  CASE u \in fresh                                             -> "ahead"
    [] u \notin fresh /\ state[u] = "Absent"                   -> "gone"
    [] u \notin fresh /\ state[u] = "Creating"                 -> "launching"
    [] u \notin fresh /\ state[u] \in {"Starting", "Running"}  -> "up"
    [] u \notin fresh /\ state[u] = "Dying"                    -> "dying"

Life(u) == INSTANCE Unit WITH
  phase <- Phase(u), container <- ctr[u], registered <- u \in reg, job <- job[u]

\* Every unit lives as Unit promises: what there is of it appears while it is
\* launched and at no other time, its registration goes before its container,
\* neither goes from a job or from a unit that is up, and nothing is left when
\* it is forgotten, through failed and repeated cleanups, rollbacks that race
\* them, stale snapshots and units adopted from them (loop.go, unit.go).
\* (This is \A u \in Units : Life(u)!Spec in a form TLC takes.)
UnitsImplemented ==
  /\ \A u \in Units : Life(u)!Init
  /\ [][\A u \in Units : [Life(u)!Next]_(Life(u)!vars)]_vars

\* What that needs beside SlotInvariant.  A rollback may go on when its unit was
\* seen dying, cleaned up and forgotten, but then it finds nothing to take away;
\* and the report of a success is true of a unit that is still being created.
LaunchInOrder(u) ==
  /\ starter[u] # "idle" =>
       \/ state[u] \in {"Creating", "Dying"}
       \/ ctr[u] = "none" /\ u \notin reg
  /\ starter[u] \in {"create", "start"} => u \in reg
  /\ starter[u] = "ok" /\ state[u] = "Creating" =>
       ctr[u] \in {"running", "exited"}

---------------------------------------------------------------------------
(***************************************************************************)
(* Liveness.  The goroutines of the program go on: every command and call  *)
(* they make has a deadline (startTimeout, cleanupTimeout, probeTimeout,   *)
(* tickInterval), the ticker ticks and the loop takes every message sent.  *)
(* Of the world it is assumed that a call tried again and again succeeds   *)
(* in the end, that jobs end, and that a unit grows older than grace.      *)
(***************************************************************************)
UnitFairness(u) ==
  /\ WF_vars(GenerateJIT(u)) /\ WF_vars(Create(u)) /\ WF_vars(Start(u))
  /\ WF_vars(Undo(u)) /\ WF_vars(LoopUnitStarted(u))
  /\ WF_vars(CleanRegistration(u)) /\ WF_vars(CleanContainer(u))
  /\ SF_vars(CleanRegistration(u) /\ cleaner'[u] = "rm")
  /\ SF_vars(CleanContainer(u) /\ cleaner'[u] = "ok")
  /\ WF_vars(LoopCleanupDone(u))
  /\ WF_vars(CheckRegistration(u))
  /\ SF_vars(CheckRegistration(u) /\ answer'[u] # "err")
  /\ WF_vars(\E old \in BOOLEAN : LoopRegistration(u, old))
  /\ SF_vars(LoopRegistration(u, TRUE) /\ answer[u] = "gone")
  /\ WF_vars(JobEnd(u)) /\ WF_vars(RegistrationExpires(u))

RoundFairness(m) ==
  /\ WF_vars(AgentOpen(m)) /\ WF_vars(AgentResync(m) \/ AgentRoundFails(m))
  /\ WF_vars(LoopResynced(m)) /\ WF_vars(LoopHealth(m))
  /\ WF_vars(\E u \in Units : LoopEvent(m, u))

FairSpec ==
  /\ Spec
  /\ \A u \in Units : UnitFairness(u)
  /\ \A m \in Machines : RoundFairness(m) /\ SF_vars(AgentResync(m))
  /\ WF_vars(LoopTick) /\ WF_vars(LoopCheckPassDone)

\* A dying unit is removed in the end: its cleanup is tried again after every
\* failure, on the next tick or when the machine is back.
DyingRemoved == \A u \in Units : state[u] = "Dying" ~> state[u] = "Absent"

\* A unit whose runner is not running, whatever became of its die event, is
\* not taken for a live one for ever: a lost event is made up for by the
\* resynchronisation, a unit adopted from a stale snapshot by the tick.
DeadNoticed ==
  \A u \in Units :
    (state[u] \in LiveStates /\ starter[u] = "idle" /\ ctr[u] # "running")
      ~> state[u] \notin LiveStates
=============================================================================
