-------------------------------- MODULE Demand --------------------------------
(***************************************************************************)
(* The demand side of the loop: GitHub's statistics, the listener that     *)
(* hands on the events of a message and then its statistic, also one that  *)
(* is out of date (scaler.go, DESIGN 4.5), and the units that die beside   *)
(* it.  handleDesired subtracts from the statistic the jobs it believes    *)
(* done: a job counted though it is done makes a runner nobody needs, one  *)
(* subtracted though the statistic has it no longer withholds one.         *)
(*                                                                         *)
(* The handlers are those of Controller, on one machine.  What Fleet has   *)
(* of launches, cleanups and checks is short here: launches and cleanups   *)
(* succeed, runners do not crash, a snapshot and the answer of a check     *)
(* are handled as they are taken.                                          *)
(***************************************************************************)
EXTENDS Controller

CONSTANTS MaxJobs,  \* bound: the jobs that come in a behaviour
          MaxFaults \* bound: how often a stream ends or a listener fails

ASSUME DemandAssumption == MaxJobs \in Nat /\ MaxFaults \in Nat

VARIABLES
  \* GitHub
  jobs,     \* the jobs that have come
  queue,    \* those of them that no runner has taken
  job,      \* job[u]: whether the runner of u has taken a job
  news,     \* events no message has carried: jobs started and jobs done
  \* the machine and its agent
  ctr,      \* ctr[u]: the runner container
  stream,   \* the events stream is open
  dies,     \* die events not yet handled
  \* the listener
  serving,  \* "session": msgSessionStarted is to be handled; "poll"; "message"
  msg,      \* what is left of the message: jobs started, jobs done
  stat,     \* the statistic of the last message, or of the session
  faults,   \* the failures there have been
  \* bookkeeping of the properties
  since,    \* the jobs done since stat was taken
  reported, \* the units whose JobCompleted has been handled
  unknowing \* the units whose end was or is unknown on purpose: see Forgot

hubVars == <<jobs, queue, job, news>>
machVars == <<ctr, stream, dies>>
listenVars == <<serving, msg, stat>>
bookVars == <<since, reported, unknowing>>
vars == <<loopVars, hubVars, machVars, listenVars, bookVars, faults>>

Events == [started : SUBSET Units, done : SUBSET Units]
NoEvents == [started |-> {}, done |-> {}]

TypeOK ==
  /\ LoopTypeOK
  /\ jobs \in 0..MaxJobs /\ queue \in 0..jobs
  /\ job \in [Units -> {"no", "running", "done"}]
  /\ news \in Events /\ msg \in Events
  /\ ctr \in [Units -> {"none", "running", "exited"}]
  /\ stream \in BOOLEAN /\ dies \subseteq Units
  /\ serving \in {"session", "poll", "message"}
  /\ stat \in 0..MaxJobs /\ faults \in 0..MaxFaults
  /\ since \subseteq Units /\ reported \subseteq Units
  /\ unknowing \subseteq Units

TheMachine == CHOOSE m \in Machines : TRUE

\* The machine has room for all of them: what limits is maxRunners.
Slots == Cardinality(Units)

Init ==
  /\ state = [u \in Units |-> "Absent"]
  /\ mach = [u \in Units |-> TheMachine]
  /\ parts = [u \in Units |-> FALSE]
  /\ busy = {} /\ completed = {} /\ fresh = Units
  /\ runnerIDs = {} /\ startedAt = {}
  /\ cleaning = {} /\ cleaner = [u \in Units |-> "idle"]
  /\ checking = {} /\ checkPass = FALSE /\ checkQ = {}
  /\ pending = {} /\ pendingIDs = {} /\ completedIDs = {}
  /\ health = [m \in Machines |-> "Healthy"]
  /\ effMax = [m \in Machines |-> Slots]
  /\ capacity = Capacity(MaxRunners, health, effMax)
  /\ waiting = {}
  /\ starter = [u \in Units |-> "idle"]
  /\ jobs = 0 /\ queue = 0 /\ job = [u \in Units |-> "no"]
  /\ news = NoEvents
  /\ ctr = [u \in Units |-> "none"] /\ stream = TRUE /\ dies = {}
  /\ serving = "session" /\ msg = NoEvents /\ stat = 0
  /\ faults = 0
  /\ since = {} /\ reported = {} /\ unknowing = {}

---------------------------------------------------------------------------
(***************************************************************************)
(* GitHub, the runners and the goroutines of the loop.                     *)
(***************************************************************************)
JobComes ==
  /\ jobs < MaxJobs /\ jobs' = jobs + 1 /\ queue' = queue + 1
  /\ UNCHANGED <<loopVars, job, news, machVars, listenVars, bookVars, faults>>

JobStart(u) ==
  /\ queue > 0 /\ ctr[u] = "running" /\ job[u] = "no"
  /\ queue' = queue - 1
  /\ job' = [job EXCEPT ![u] = "running"]
  /\ news' = [news EXCEPT !.started = @ \cup {u}]
  /\ UNCHANGED <<loopVars, jobs, machVars, listenVars, bookVars, faults>>

\* The runner is ephemeral: it exits with its job.
JobEnd(u) ==
  /\ job[u] = "running"
  /\ job' = [job EXCEPT ![u] = "done"]
  /\ news' = [news EXCEPT !.done = @ \cup {u}]
  /\ since' = since \cup {u}
  /\ ctr' = [ctr EXCEPT ![u] = "exited"]
  /\ dies' = IF stream THEN dies \cup {u} ELSE dies
  /\ UNCHANGED <<loopVars, jobs, queue, stream, listenVars, reported,
                 unknowing, faults>>

\* startUnit, up to its report.
Launch(u) ==
  /\ starter[u] = "jit"
  /\ starter' = [starter EXCEPT ![u] = "ok"]
  /\ ctr' = [ctr EXCEPT ![u] = "running"]
  /\ UNCHANGED <<unitVars, jobVars, checkVars, cleanVars, machineVars,
                 startedAt, hubVars, stream, dies, listenVars,
                 bookVars, faults>>

---------------------------------------------------------------------------
(***************************************************************************)
(* The loop, but for the listener's messages.  A unit that dies before its *)
(* JobStarted has been handled, and an entry that is thrown away, are what *)
(* the correction is not made for.                                         *)
(***************************************************************************)
DiesUnseen ==
  {u \in Units : state[u] \in LiveStates /\ state'[u] = "Dying"} \ busy

Forgot(thrown) == unknowing' = unknowing \cup DiesUnseen \cup thrown

LoopUnitStarted(u) ==
  /\ starter[u] = "ok"
  /\ HandleUnitStarted(u, "ok")
  /\ UNCHANGED <<hubVars, machVars, listenVars, bookVars, faults>>

\* cleanupUnit as well, which RemoveRunner refuses while a job runs.
LoopCleanupDone(u) ==
  /\ cleaner[u] = "reg" /\ job[u] # "running"
  /\ HandleCleanupDone(u, "ok")
  /\ ctr' = [ctr EXCEPT ![u] = "none"]
  /\ UNCHANGED <<hubVars, stream, dies, listenVars, bookVars, faults>>

LoopEvent(u) ==
  /\ u \in dies
  /\ HandleEvent(u)
  /\ dies' = dies \ {u}
  /\ Forgot({})
  /\ UNCHANGED <<hubVars, ctr, stream, listenVars, since, reported, faults>>

\* What a GetRunner of checkRegistrations finds: a runner is registered until
\* its job is done.
Registered(u) == ctr[u] = "running"

\* old: the unit is past registrationGrace.
LoopRegistration(u, old) ==
  /\ u \in checkQ \cap checking
  /\ HandleRegistration(u, IF Registered(u) THEN "found" ELSE "gone", old)
  /\ Forgot({})
  /\ UNCHANGED <<hubVars, machVars, listenVars, since, reported, faults>>

LoopCheckPassDone ==
  /\ checkPass /\ checkQ \cap checking = {}
  /\ HandleCheckPassDone
  /\ UNCHANGED <<hubVars, machVars, listenVars, bookVars, faults>>

\* Of what has aged, entries and completions kept for later.
LoopTick(oldPending, oldIDs) ==
  /\ HandleTick({}, oldPending, oldIDs)
  /\ Forgot(oldPending \cup oldIDs)
  /\ UNCHANGED <<hubVars, machVars, listenVars, since, reported, faults>>

LoopDrop ==
  /\ faults < MaxFaults /\ faults' = faults + 1
  /\ stream
  /\ stream' = FALSE /\ dies' = {}
  /\ HandleHealth(TheMachine, "Unhealthy")
  /\ UNCHANGED <<hubVars, ctr, listenVars, bookVars>>

Sight(u) == CASE ctr[u] = "none" -> "none"
              [] ctr[u] = "running" -> "alive"
              [] OTHER -> "dead"

LoopResynced ==
  /\ ~stream /\ stream' = TRUE
  /\ HandleResynced(TheMachine,
                    [on |-> TRUE, runner |-> [u \in Units |-> Sight(u)],
                     started |-> startedAt, info |-> Slots])
  /\ Forgot(pending)
  /\ UNCHANGED <<hubVars, ctr, dies, listenVars, since, reported, faults>>

---------------------------------------------------------------------------
(***************************************************************************)
(* The listener (runListener, serveListener, scaleSetScaler) and the       *)
(* library's loop in it: events in their order, then the statistic.        *)
(***************************************************************************)
Assigned == queue + Cardinality({u \in Units : job[u] = "running"})

\* A statistic is taken, by a message or a new session.
TakesStat == stat' = Assigned /\ since' = {}

Receive ==
  /\ serving = "poll" /\ (news # NoEvents \/ stat # Assigned)
  /\ serving' = "message" /\ msg' = news /\ news' = NoEvents
  /\ TakesStat
  /\ UNCHANGED <<loopVars, jobs, queue, job, machVars, reported, unknowing,
                 faults>>

LoopJobStarted(u) ==
  /\ serving = "message" /\ u \in msg.started
  /\ HandleJobStarted(u)
  /\ msg' = [msg EXCEPT !.started = @ \ {u}]
  /\ UNCHANGED <<hubVars, machVars, serving, stat, bookVars, faults>>

LoopJobCompleted(u, named) ==
  /\ serving = "message" /\ u \in msg.done
  /\ msg.started = {}
  /\ HandleJobCompleted(u, named)
  /\ msg' = [msg EXCEPT !.done = @ \ {u}]
  /\ reported' = reported \cup {u}
  /\ UNCHANGED <<hubVars, machVars, serving, stat, since, unknowing, faults>>

\* HandleDesiredRunnerCount: after the events of a message, and with the
\* statistic of the last one when a poll brings nothing.
LoopDesired ==
  /\ serving \in {"poll", "message"} /\ msg = NoEvents
  /\ HandleDesired(stat)
  /\ serving' = "poll"
  /\ UNCHANGED <<hubVars, machVars, msg, stat, bookVars, faults>>

\* The listener fails, in the middle of a message also, and a new session
\* begins with a statistic of its own; its events may be lost.
NewSession ==
  /\ faults < MaxFaults /\ faults' = faults + 1
  /\ serving # "session"
  /\ serving' = "session" /\ msg' = NoEvents
  /\ news' \in {news, NoEvents}
  /\ TakesStat
  /\ UNCHANGED <<loopVars, jobs, queue, job, machVars, reported, unknowing>>

LoopSessionStarted ==
  /\ serving = "session" /\ serving' = "poll"
  /\ HandleSessionStarted
  /\ Forgot(pending)
  /\ UNCHANGED <<hubVars, machVars, msg, stat, since, reported, faults>>

---------------------------------------------------------------------------
\* What happens to a job or a unit a bounded number of times.
UnitStep(u) ==
  \/ JobStart(u) \/ JobEnd(u)
  \/ Launch(u) \/ LoopUnitStarted(u) \/ LoopCleanupDone(u) \/ LoopEvent(u)
  \/ LoopJobStarted(u)
  \/ \E named \in BOOLEAN : LoopJobCompleted(u, named)

Answers == Receive \/ LoopSessionStarted \/ LoopResynced

Expires ==
  \E oldPending \in SUBSET pending, oldIDs \in SUBSET completedIDs :
    LoopTick(oldPending, oldIDs)

Next ==
  \/ JobComes
  \/ \E u \in Units : UnitStep(u)
  \/ \E u \in Units, old \in BOOLEAN : LoopRegistration(u, old)
  \/ LoopCheckPassDone \/ Expires \/ LoopDesired
  \/ Answers \/ LoopDrop \/ NewSession

Spec == Init /\ [][Next]_vars

(***************************************************************************)
(* Fairness.  As long as something is under way for a job or a unit, some  *)
(* of it happens: goroutines run, the loop handles what it has been sent,  *)
(* the listener polls.  An empty poll repeats the statistic, ticks come    *)
(* and checks end; units reach the grace and entries pendingExpiry.  That  *)
(* a job ends and a waiting runner is given one is GitHub's promise.       *)
(***************************************************************************)
Progress == Answers \/ \E u \in Units : UnitStep(u)

FairSpec ==
  /\ Spec
  /\ WF_vars(Progress) /\ WF_vars(LoopDesired)
  /\ WF_vars(LoopTick(pending, completedIDs)) /\ WF_vars(LoopCheckPassDone)
  /\ \A u \in Units : SF_vars(LoopRegistration(u, TRUE))

---------------------------------------------------------------------------
(***************************************************************************)
(* Properties.                                                             *)
(***************************************************************************)
\* A job that is done and still counted by the statistic in force is
\* subtracted, however its runner's end was noticed and whatever came before
\* or after it: the runner is still a live unit, or has its entry in
\* pendingCompletion (markDying, SPEC R11).  The units in unknowing are those
\* of which the loop was not told in time or has thrown the entry away.
FinishedCounted ==
  \A u \in since :
    state[u] \in LiveStates \/ u \in pending \/ u \in unknowing

\* No entry outlives the completion it waits for: an entry of a unit whose
\* JobCompleted was handled is there only because that one carried the id
\* alone and the id is not known yet, and then it is remembered
\* (completedIDs, learnRunnerID).
CompletionApplied ==
  \A u \in pending \cap reported :
    u \in completedIDs \ pendingIDs \/ u \in unknowing

\* The statistic counts what has come and is not done.
JobsCounted ==
  jobs = queue + Cardinality({u \in Units : job[u] # "no"})

\* Cleanups are for dying units, and an entry is a dead unit's.
DeadOnly ==
  /\ \A u \in cleaning : state[u] = "Dying"
  /\ \A u \in Units : cleaner[u] # "idle" => u \in cleaning
  /\ \A u \in pending : state[u] \notin LiveStates

\* Nothing is known of an id not issued; a launch comes before a job.
FreshIdle ==
  /\ \A u \in fresh :
       /\ state[u] = "Absent" /\ starter[u] = "idle"
       /\ ctr[u] = "none" /\ job[u] = "no" /\ u \notin pending
  /\ \A u \in Units : starter[u] = "jit" => ctr[u] = "none" /\ job[u] = "no"
  /\ \A u \in Units : job[u] = "done" => ctr[u] # "running"

\* What is told of a job's end is so, and later than the statistic that still
\* counts it.
DoneIsTrue ==
  /\ \A u \in news.done \cup msg.done \cup reported \cup since : job[u] = "done"
  /\ since \cap (msg.done \cup reported) = {}
  /\ completed \cup completedIDs \subseteq reported

\* A unit there was is live or has its entry until its completion comes.
Accounted ==
  \A u \in Units \ (reported \cup unknowing \cup fresh) :
    state[u] \in LiveStates \/ u \in pending

\* A live unit whose completion was handled knows of it, or will when its
\* runner id is known.
Told ==
  \A u \in reported \ unknowing :
    state[u] \in LiveStates =>
      u \in completed \/ u \in completedIDs \ runnerIDs

\* The inductive invariant behind the two properties above.
DemandInvariant ==
  /\ TypeOK /\ JobsCounted
  /\ DeadOnly /\ FreshIdle /\ DoneIsTrue
  /\ Accounted /\ Told /\ CompletionApplied

\* A job is never left without a runner: what handleDesired subtracts wrongly
\* is put right, by an event, a new session or pendingExpiry.
JobsServed == queue > 0 ~> queue = 0
=============================================================================
