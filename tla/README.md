# gh-ars in TLA+

A verification project for gh-ars, a controller that runs ephemeral GitHub
Actions runners in containers on machines reached over SSH or on the local
host.  It models the parts of the program whose correctness depends on the order
in which things happen: the controller loop and the goroutines around it, the
demand it computes from what GitHub reports, the start and the stop of the process,
the agent of a machine from the inside, and the commands and streams it runs, over a
shared SSH connection or on the own machine.

    tlc -workers 2 -config Fleet_faults.cfg MCFleet.tla    # a run
    tlapm FleetProofs.tla                                  # the proofs about Fleet

## 1. The system

| Component | Source | State it keeps | Operations |
|---|---|---|---|
| Controller loop | `internal/controller/loop.go`, `controller.go` | units, machine health and limits, capacity, pending completions, what is being cleaned or checked | one handler for each message of the inbox: desired count, job started/completed, session started, event, health, resynced, unit started, cleanup done, registration, check pass done; the tick |
| Goroutines of the loop | `controller/unit.go` | none (a copy of a unit) | `startUnit` with its rollback, `cleanupUnit`, `checkRegistrations`; each reports by one message (the check by one for each unit) |
| Start and stop | `controller.go` (`Run`, `awaitInitialSync`, `closeAgents`, `send`) | inbox, `done`, wait group | authentication, preflight, scale set, agents, first synchronisation, sessions, loop, drain |
| Listener | `controller/scaler.go` | session, the listener object, its maxRunners | open a session, serve it, retry; callbacks into the loop |
| Planning | `plan/` | none | capacity, desired, spread, reconcile: pure functions |
| Machine agent | `machine/` | current connection, whether images were pulled, budget | preflight; rounds of connecting, pulling, opening the events stream, observing, serving, backing off |
| SSH executor | `executor/ssh.go` | a connection, its keepalive | `Run`, `Stream`, `Close` |
| Local executor | `executor/local.go` | child processes | the same contract |
| Container runtime | `runtime/` | none | create, copy, start, remove, list, events |
| GitHub client | `github/` | none | JIT configuration, find and remove a runner, sessions, busy errors |
| Domain | `domain/` | none | units, machines, states, names |
| Configuration, resources, logging, command line | `config/`, `resource/`, `logging/`, `cmd/gh-ars` | none | read once at the start |

**How they interact.**  Everything that changes the fleet's state goes through one
inbox to one goroutine, the loop.  The loop never calls out: it spawns goroutines
that do, and these report by a message.  Agents send `Resynced`, events and health
notices; the listener's callbacks send what GitHub reports, and wait for the answer
to a desired count.  Outside are the machines' containers, GitHub's registrations
and the jobs GitHub hands out.  The only state shared without a message is the
listener object and the capacity (two atomics), and the SSH connection of a machine,
which commands and the events stream share.

**What is hard.**  A message is about a past state: a snapshot may be older than a
launch or a cleanup, an answer about a unit that has gone.  A remote command that
fails or is given up may have had its effect, at once or later.  A cleanup and a job
may meet.  Streams drop, and what happens meanwhile is in no event.  A stop may come at
any point of the start, with every goroutine wanting to report.  A link may be
silent without being down.  `hazards` in PROJECT.json lists each
such place with its line and the properties that cover it.

**What makes each component correct.**

- Loop and goroutines: no running job is killed; a registration goes before its
  container; a container holds a slot until it is gone; nothing is placed on a
  machine without room; launches in progress count; a unit that should go, goes; a
  dead runner is noticed.
- Start and stop: no session before the first snapshots; a start and a stop both
  come to an end; nothing is left open.
- Listener: what is advertised is the capacity; a job that is done and still in the
  statistic is subtracted, one that waits gets a runner.
- Agent: what it tells the controller is so and comes in time; no exit of a runner falls
  between the stream and the snapshot; a machine that was healthy is not given up.
- Executors: a command returns in time and returns no wrong value; the reader of a
  stream hears of its end.  Over SSH, a dead connection is found in time and a live one
  kept, and no command disturbs another; locally, nothing is left running.
- Planning: the limits are respected, and the verdicts on a snapshot leave
  launches and live runners alone.

## 2. The modules

| Module | Models | Form |
|---|---|---|
| `Plan` | `plan/`: capacity, desired, running, occupied, spread, the verdicts of a resynchronisation | operators, no state |
| `Controller` | the loop: its state and one operator for each handler, with every call the handler makes that changes state | EXTENDS `Plan` |
| `Fleet` | the loop composed with its goroutines, the agents, the machines and GitHub | EXTENDS `Controller` |
| `Demand` | the loop composed with GitHub's statistics and the listener that hands on messages | EXTENDS `Controller` |
| `Lifecycle` | one run of the process: `Run`, agents, listener, spawned goroutines, the inbox | on its own |
| `Agent` | the agent of one machine, inside its rounds | on its own |
| `Unit` | what the controller promises of the life of one unit: an abstract specification, implemented by `Fleet` for each unit | on its own |
| `Executor` | what a caller of `Run` and `Stream` relies on: an abstract specification | on its own |
| `Ssh` | one SSH connection: keepalive, `Run`, `Stream` | implements `Executor` |
| `Local` | one command on the own machine, with what os/exec runs beside it | implements `Executor` |
| `MCFleet`, `MCLifecycle`, `MCSsh` | symmetry for TLC | one for each component |
| `ControllerProofs` | about the handlers alone: lemmas, and the theorems on where `createUnits` places | EXTENDS `Controller` |
| `SlotProofs` | theorems on slots, placement and the life of a unit | EXTENDS `FleetProofs` |
| `FleetProofs`, `DemandProofs`, `LifecycleProofs`, `AgentProofs`, `SshProofs`, `LocalProofs` | theorems and proofs | EXTEND the module they are named for; the first two `ControllerProofs` too |

`Fleet`, `Demand` and `Lifecycle` look at the same program from three sides.  In `Fleet`
the handlers do all they do to units, the inbox is replaced by the last state of
each sender, and GitHub may say anything.  In `Demand` the handlers are the same, GitHub
says what is so, late, and the rest of the fleet is short.  In `Lifecycle` the inbox is
a bounded FIFO and who blocks on whom is the question; a handler only takes its
message, may change the capacity and may spawn.  `Agent` is what stands behind the three
steps an agent's round has in `Fleet`; `Ssh` and `Local` are what `Fleet` and `Agent`
take for granted about commands and streams: a command comes to an end with a true
answer, a stream's end is heard of, neither breaks the other.

### Plan, Controller

One scale set, in mode `none`: `machine.New` (agent.go:153) refuses mode sidecar, so
a unit's parts are its runner container.  A unit id stands for its runner name and
its runner id.  `state[u] = "Absent"` is an id that is not in `c.units`; `mach[u]` is
where a container of `u` is or would be.  The states Removed and Draining are
never assigned in the code.  Time is abstracted: whether a unit is past `grace`
(`old`), whether a pending entry is past `pendingExpiry` and whether a launch is past
`startTimeout` (`overdue`) are choices; `startTimeout` alone is bound to a launch,
because what a launch does depends on it.  The time `Spread` breaks ties by is left out:
of equally good machines any may be taken.

### Fleet

A sender that sends once and ends (`starter[u]`, `cleaner[u]`, `answer[u]`) stays in its
last place until the loop takes its message.  An agent's round has one slot each for
its snapshot, its die events and its last notice, taken in that order, which is the
order in which one goroutine puts them into a FIFO; `Backoff.Wait` (0.8 s at least) is
taken to be long enough for the loop to take what the last round has sent.  Messages
of different senders merge in any order, as they may before they are in the inbox.
Merged into one step are the snapshot's time and its listing, with the reports of
launches it predates remembered as `started`; GetRunner and RemoveRunner; CopyIn and
Start.  The listener may ask for any number of runners at any time once sessions are
open, and reports job starts and ends late, twice or never: an over-approximation.

`Faults` selects what may go wrong in an instance, so that a property that
depends on the absence of one fault can say so by its run.  A create given up at its
deadline ("late"), or cut off when its connection is lost ("cut"), goes on at the machine and
takes effect later (`ghost`): closing an SSH channel does not end the process there.
`Abandoned` has the units past their deadline and those with such a create.  The other
two calls of a launch have no such late effect: a registration that comes late is of a
runner that never starts and that GitHub drops, and a late start finds its container
gone or is the same as one in time.  A JobCompleted without name and id (a job cancelled
before it had a runner) is the listener's too (`LoopJobCompletedBlank`).  GitHub refuses
to remove a busy runner, and drops registrations of runners that stay away
(docs/SPEC.md:357); both are external to the repository.
A stop of the process is not in `Fleet`; it is in `Lifecycle`.

### Unit

One unit, alone: its phase (to come, launching, up, dying, gone), its container, its
registration, its job.  What there is of a unit appears while it is launching and at no
other time, the registration before the container; the launch succeeds only if the
runner was started; a registration without a running job may be taken away while the unit is launching (the
rollback) or dying, the container only after it; a unit is forgotten when nothing is
left of it; one that is unknown may be found by a snapshot.  Jobs, exits and expired
registrations come as they like.  `Life(u)` in `Fleet` maps the states of `Controller`
to phases: Starting and Running are up, Absent is to come or gone.  There is nothing in
`Unit` of messages, goroutines, snapshots, health or other units, which is why it is
worth having: whatever these do, each step of `Fleet` must be one of these few or leave
the unit as it is.  It holds of units whose launch is never abandoned;
section 6 says what becomes of the others.

### Demand

Jobs are counted; which of them a runner takes is of no consequence.  A message carries
the jobs started and done since the last one, in that order, and a statistic, and the
listener hands them on one by one and then the statistic (`LoopDesired`); a poll that
brings nothing hands on the last one again, which is the cached one the code must correct.
A failure ends the session, in the middle of a message also, or the events stream; the
events of a session that ended may be lost.  A completion may name the
runner or carry its id alone, and the id may be learned after it.  `unknowing` is a
history variable: the units that died before their JobStarted was handled, for which the
code makes no correction, and those whose entry was thrown away by design
(`pendingExpiry`, a new session, a resynchronisation); no action depends on it.  Short against `Fleet`: no job is
cancelled before it has a runner, so that no completion comes without name and id
(section 6), one machine with room for all, runners end with
their job, launches and cleanups succeed, snapshots and check answers are handled as
taken.

### Lifecycle

`agent[m]` is the place of an agent's goroutine from preflight on, `current` and `open`
its connections.  `Run` leaves on errors and on the cancelled context; `Stop` may come at
any time.  `send` waits for room or for `done`, not for the context, and that is what
the shutdown hangs on.  `setCapacity` is two steps, `serveListener` four, of which the
making of the listener may fail.  That the
listener library asks for the desired count before its first poll is taken from
docs/DESIGN.md 4.5 and the test that relies on it (controller_test.go:560-581); the
library is outside the repository.

### Agent

`at` is the place of the agent's goroutine, `streamer` that of the goroutine of
`runtime.Events`, `pull` that of the deferred pre-pull.  A command with a deadline is one
step that succeeds or fails; the opening of the stream, the stream and the deferred pull
have none and are steps of their own, ended by the watchdog or by `ectx`.  The budget
and the image of the machine may turn `MaxTurns` times.  `Backoff` counts its sequence
(1, 2, 4, ... up to the maximum) by steps; whether a round has lived long enough is a
choice (`aged`).  `lookedBy`, `proven` and `shorts` are history.  Notices are handled
as they are sent.  The code takes the stream to be open once the events command was started
(cli.go:333), and so does the model: that the container tool has subscribed by the time it
answers the snapshot that follows is an assumption about it and the daemon, on which
`ExitsCovered` rests.

### Executor

For each call, the answer it was given, and of its command whether it has left an exit
status, whether its output has come to an end, whether the end may have been lost on
the way, and whether its caller has given up.  A call may be answered with a value
only after an exit status, and with all of the output or a lost end; an answer is
final.  `RunsReturn` is its liveness.

`Ssh` implements it with `lost` the calls that were under way when the connection went
down, `Local` with `lost` the call whose command has left a status other than zero:
in both cases the code does return output that may be cut (section 6).  `given` leaves
out local children of root, which gh-ars may not kill.

### Ssh

Timers may fire at any time; time is counted in the keepalive's ticks.  The link is
up, silent (packets vanish, it may come back) or down.  What an SSH library does when
the link is down is external: it ends all that waits on it, and reads end with an error
or like an end of output.  stdout and stderr, copied alike, are one copier; stdin
and the request to close the channel are one writer.  A goroutine that is given up
stays in `live` until something ends it.

### Local

Nothing is shared by two calls, so the module makes one, of `Run` or of `Stream`.  os/exec
is external, modelled by its documented contract: `Wait` waits for the child and then,
up to `WaitDelay`, for the copiers of the output; the child is killed when ctx is done;
of several errors the exit status goes first.  A grandchild (`holder`) may keep the
pipes for ever.  The child of `sudo` runs as root and cannot be killed.

## 3. The runs

| Run | Instance | States | What it shows |
|---|---|---|---|
| `fleet_faults` | 1 unit, 1 machine, all ten faults | 85 k | the inductive invariant; no job killed; registration first; the capacity is current |
| `fleet_placement` | 3 units, 2 machines of one slot; leftovers | 815 k | nothing is placed on a full machine, also when a placement comes during the first synchronisation; launches count |
| `fleet_liveness` | 1 unit, 1 machine; drops, crashes, GitHub and commands fail, leftovers; fair | 10 k | a slot is held while its container is there; a unit lives as `Unit` promises; dying units go; dead runners are noticed |
| `demand_jobs` | 2 units, 1 machine, 2 jobs, 1 failure; fair | 219 k | the inductive invariant; a job done and still counted is subtracted, an entry does not outlive its completion, no job waits for ever |
| `lifecycle_starts` | 2 machines, inbox of 1, all failures | 2.0 M | the inductive invariant; what `Run` leaves, sessions after synchronisation, polls advertise the capacity |
| `lifecycle_stops` | 1 machine, 1 spawned goroutine, inbox of 1; fair | 37 k | a stop ends in a return, the first rounds end the wait, no goroutine is left |
| `agent_rounds` | 1 container, 2 steps of backoff, 1 turn of budget or image; local or not, docker or podman; fair | 188 k | what is told is true and in time, nothing outlives a round, no exit is lost, a proven machine is kept, flapping is slowed |
| `ssh_isolation` | a command and the stream, 1 miss | 3.7 M | the stream is undisturbed, `Executor` is implemented |
| `ssh_alone` | a command or the stream, 3 misses (the code's); fair | 54 k | silence is found, live links kept, commands return, the stream's reader hears of the end |
| `local_calls` | a command or a stream, under sudo or not; fair | 2 k | `Executor` is implemented, calls return, the reader hears of the end, no goroutine is left |

Two more runs end in a counterexample; section 6.

**Why the bounds are enough.**  What a unit goes through does not depend on other
units except by way of slots, capacity and the one check pass at a time; three units
for two machines of one slot make these tight.
Fresh ids are what bounds a behaviour: when all have been used nothing more is
created.  The one-unit instances are for properties of a single unit; the theorems
have them for all numbers.  In `Demand` two ids and two jobs are what it takes for one
job to be done and still counted while another waits for the runner that is withheld, and one
failure for the entry never to be taken back by an event; `MaxJobs` and `MaxFaults` bound
the behaviours, so that the instance comes to a rest, where GitHub polls on.
The inbox holds one message where the code's holds 64:
a full inbox is the interesting case, and it is reached at once.  Two machines are what
it takes for one to be synchronised and not the other.  One container is enough for
`Agent`: exits do not meet but in the stream's order, which nothing depends on; two steps
of backoff tell a sequence that goes on from one that starts afresh; every number of
both is in the proofs.  One miss allowed in
`ssh_isolation`, where the keepalive is only one of the ways a connection ends; three
in `ssh_alone`, and every number in the proofs.  Commands are independent of each
other but by way of the connection, which each can only close, which it does not.

**Symmetry** is used for units and machines in the runs without liveness; nothing
in the modules orders them.  The one `CHOOSE` over machines gives a place to ids
not yet issued, which is replaced when they are.

## 4. Fairness

- Every goroutine goes on (`WF`): every call has a deadline (`startTimeout`,
  `cleanupTimeout`, `probeTimeout`, `tickInterval` for the calls of a check), the loop
  takes every message, the ticker ticks.
- Of the world, in `Fleet`: a call tried again and again succeeds in the end (`SF` on
  the successful outcome), jobs end, GitHub drops registrations of absent runners, a
  unit grows older than `grace`.  Nothing is assumed about crashes, drops or the listener.
- In `Lifecycle`: a sender waiting for room in the inbox gets it if there is room
  again and again (`SF`; blocked senders of a Go channel are served in order), and a
  case of a `select` that is ready again and again is taken (`SF`; the choice is
  uniform).  Nothing makes the process stop or the loop tick.
- In `Demand`: as long as something is under way for a job or a unit, some of it happens
  (`WF` on `Progress`, which can go on for a bounded time only): goroutines and the loop go on,
  the listener polls, jobs end and go to waiting runners.  A poll repeats the statistic, the
  ticker ticks and entries grow past `pendingExpiry`, checks end; a unit that is checked
  again and again is past its grace in the end (`SF`).
- In `Agent`: every goroutine goes on, every command with a deadline ends, one way or the
  other, what is cancelled ends, `drain` receives until the stream is closed.  Nothing makes a command succeed, a machine stay up, a stream
  end, or a stop come.
- In `Local`: timers, goroutines and os/exec go on.  Neither the child nor a
  grandchild ever has to end.  The copier of an output that has ended gets to its end though its
  reader stops at times (`SF`): what is left of it is finite.
- In `Ssh`: the program's goroutines and timers (`WF`), and what the library does on a
  link that is down.  The machine and the link owe nothing: silence may last, and a
  command may hold its output for ever.

## 5. What is proved

All theorems hold for every value of the constants that satisfies the named
assumptions `ControllerAssumption`, `FleetAssumption`, `DemandAssumption`,
`LifecycleAssumption`, `AgentAssumption`, `SshAssumption` and `LocalAssumption` (finite sets, limits that are
numbers, an inbox with room for one message, a stream that is no command), and are
checked by TLAPS.

`FleetProofs`:

- `TypeCorrect`, `InvariantHolds`: `Spec => []FleetInvariant`.  `NoJobKilled` is not
  inductive: it needs that a running job's runner is registered (`JobHeld`), that at the
  point of removing a container its runner is no longer registered and cannot become
  so (`NoRunnerLeft`), which needs that a launch is owned by a unit being created or
  is past its deadline (`LaunchOwned`), that cleanups are for dying units only, one at a time
  (`OneCleaner`), and that nothing is known of an id not issued (`FreshUnknown`).
  The proof goes handler by handler for the types; for the rest by one predicate,
  `LoopEffect`, that every handler satisfies and that says all the rest of the
  fleet needs to know of it.
- `NoJobIsKilled`, `RegistrationGoesFirst`, `PendingAreDead`: from the invariant.
- `CapacityIsCurrent`: each handler that touches a health or a limit recomputes.

`SlotProofs`, on slots, placement and the life of a unit:

- `SlotInvariantHolds`: for each unit, `Spec /\ [](u \notin Abandoned) => []SlotInvariant(u)`.
  The condition is not for the proof's sake: a launch that is abandoned, past `startTimeout` or
  with its create cut off, does put a container where no slot counts it
  (`fleet_slot_released`).  It is asked of the unit's own launch only; those of others may be
  as late as they like.  Where none is abandoned (`InTime`; `InTimeWithoutLate` has it for
  instances with neither "late" nor "cut") it holds of all units
  (`AllSlots`).
- `SlotsAreHeld`: `SlotHeld` is not inductive.  That a container is counted (`Counted`)
  needs, for a snapshot about to be believed, that it shows the container or exempts the
  unit (`ShownBySync`), which needs that no report of the launch is in a snapshot before
  the launch is over (`StartUnreported`); for a die, that it comes from the unit's own
  machine, whose snapshot is handled before it (`DiesAtHome`); for a cleanup that has
  succeeded, that what it took away has not come back (`StaysCleaned`, `LaunchInTime`).
  The leftovers that nobody counts yet are on machines that are not healthy or still
  waited for.
- `NeverOverPlaced`: from `SlotsAreHeld`, as what is on a machine is then at most what
  `Occupied` counts.  It is a statement about the machines.
- `NeverOverbooked` and `CreationsFitCapacity` are about the loop's own books and hold under every
  fault.  The first: after `createUnits` no machine it has placed on is over its limit, by
  going through the placement unit by unit (`InTurn`).  The second: however desired counts,
  refills and launches follow on one another, a creation ends with no more running than the
  capacity.  It holds with any `minRunners`, also above the capacity.
- `UnitKeepsPromise`, `UnitsKeepPromise`: `Fleet` implements `Unit`.  The initial states map to
  initial states; every step maps to a step of the unit's life or leaves it as it is.  It needs
  `FleetInvariant`, `SlotInvariant` and `LaunchInOrder`: a rollback may still be under way
  when its unit was seen dying, cleaned up and forgotten, so that it takes away
  in phase "gone", and then there is nothing to take; and the report of a success
  is true of a unit that is still being created.  One predicate, `Moves`, says what a
  message may make of a unit.
- `ForgottenAreGone` follows from `UnitsKeepPromise` alone.

`ControllerProofs`, on where `createUnits` places (loop.go:139):

- The sums over machines are recursive functions.  What is needed of them (that they exist, are
  numbers, grow with their terms and count where each term is one) is had without
  induction over data: by the least size of a set at which it would fail (`LeastNat`).
- `SpreadFindsRoom`, `SpreadIsATie`: `Better` is transitive, so there is a best machine when one
  has room, and the best are equally good: what `Spread` leaves open is only the tie that the code
  breaks by time.
- `PlacementEndsFull`, `CreatableArePlaced`: the model creates all units of one call in one
  step, as many as `Creatable` says; the code goes on until there is no machine left.  The
  loop of the code ends exactly when the free slots are used up, and so many units can always
  be placed: the closed form is what the loop computes, and no handler is without a next step.

`DemandProofs`:

- `DemandIsSound`: `Spec => []DemandInvariant`.  `FinishedCounted` is not inductive: it needs
  that every unit there was is live or has its entry until its JobCompleted is handled
  (`Accounted`), and that no completion was handled for a job that the statistic
  in force still counts (`DoneIsTrue`).  `CompletionApplied` needs that a live unit whose completion was
  handled knows of it, or will when its runner id is known (`Told`).  Here too
  one predicate, `Effect`, holds of every message but a completion and a cleanup's
  end, and says what becomes of live units, entries and kept completions.
- `FinishedAreCounted`, `CompletionsAreApplied`: from the invariant.  The first is said of all
  units but `unknowing` (section 2), for which the code makes no correction.

`LifecycleProofs`:

- `LifecycleIsSound`: `Spec => []LifecycleInvariant`, with the Boolean flags, the rest of
  the state, the agents and the loop's side each taken through every action.
- `RunLeavesNothing`: a connection is owned by the agents' table or by a pre-pull that is
  still running (`ConnectionsOwned`), and the stage says where an agent may be
  (`AgentInStage`), so that at the return there is none of either.
- `SessionsFollowSync`: no listener before the loop has been told the first round of every
  machine reached at the start (`LoopInStage`).
- `PollsAreCurrent`: what the listener advertises is behind the capacity only while
  a `setCapacity` is half done, or a desired count is still to be handled (`MaxFollows`).

`AgentProofs`:

- `AgentIsSound`: `Spec => []AgentInvariant`, action by action.  `HealthIsTrue` needs that
  between Unhealthy and the next Resynced both sides know the machine to be down
  (`DownIsTold`); `ExitsCovered` needs the same of the places before the stream is
  served (`RoundSound`); `ProvenNeverFails` that nothing fatal is found once judged
  (`LiveIsJudged`).
- From it `HealthIsToldTrue`, `RoundsLeaveNothing`, `NoExitFallsBetween`, `PathIsKept`,
  `ProvenIsKept`, `FlappingIsSlowed`.

`SshProofs`:

- `SshIsSound`: `Spec => []SshInvariant`, in two halves, the link with its keepalive
  and the calls with the pipe.
- `SilenceIsFound` and `AnswersAreKept` for every number of misses: the ticks of a
  silence are the misses and one more, and on a link that is not down the misses are
  ticks without an answer.
- `StreamIsUndisturbed` for every number of commands.
- `SshKeepsContract`: `Spec => SshImplements`.  The initial states map to initial states of
  `Executor`; every step maps to a step or a stutter, for which the invariant says that
  a value follows an exit and a whole output unless the connection was lost.

`LocalProofs`:

- `LocalIsSound`, `LocalKeepsContract`: the same for `Local`; the invariant says who may have
  killed the child and why an output that was closed before its end was either given up
  or held past `WaitDelay`.

Every safety property of the passing runs is stated by a theorem.  Only model-checked is
liveness, which is out of the prover's reach: `DyingRemoved`, `DeadNoticed`, `JobsServed`,
`ShutdownCompletes`, `SyncEnds`, `FirstNotice`, `EndReported`, `DieTold`, `StopEnds`, `SshReturns`,
`ReaderHears`, `LocalReturns`, `LocalReaderHears`, `LocalLeavesNothing`.  `SlotInvariant` and
`LaunchInOrder` are no properties of a run of their own; their consequences `SlotHeld` and
`UnitsImplemented` are.  Neither are `NeverOverbooked` and the theorems on `Spread`, which are
proved alone.

## 6. Where code and documents disagree

By a run:

- `fleet_slot_released` (unit.go:48).  A launch that outlasts `startTimeout` is cleaned
  up and forgotten, and the create command, still under way on the machine, makes
  its container afterwards.  No slot counts it until the next resynchronisation;
  docs/SPEC.md:348 has the slot occupied while parts are left.  The same comes of a create
  whose connection is lost before that, as its command also goes on.  `SlotHeld` holds as
  long as no create is given up while it is under way (`fleet_liveness`, `SlotsAreHeld`).
- `ssh_cut_output` (ssh.go:605).  A connection lost between the exit status and the
  end of the output may end the read like an end of output: `Run` then returns a value
  with part of it, which ssh.go:603 wants reported as an error.

Met on the way, and modelled as the code has it:

- A local command that exits with a status other than zero while a grandchild holds its
  output: os/exec reports the status and not `ErrWaitDelay`, so `Run` returns a value
  with what was read so far, which local.go:28-30 wants reported as an error.  `Local`
  counts the end of such an output as lost (`lost <- If(child = "bad")`).
- loop.go:262-263 leaves a unit whose start was reported after the snapshot to "the next
  synchronisation".  A runner that exits while the stream is down and before its start is
  handled is in that snapshot, exempt from it, and no die event follows; the next
  synchronisation may be long in coming.  `DeadNoticed` and `JobsServed` show that it
  heals, by the registration check.
- A JobCompleted with neither name nor runner id matches no unit; but loop.go:597-601 looks for
  its id, zero, among the pending entries, and zero is also what an entry has whose unit died
  before its id was known.  One such entry, of another job, is deleted.  docs/SPEC.md:281 and
  docs/DESIGN.md:375 speak of the entry of the completed job only.  What it costs is a job
  that is no longer subtracted until the next statistic, so at most an idle runner; no job
  goes without one.  `Fleet` has the step and its invariants hold with it; `Demand`
  leaves it out, so `FinishedCounted` says nothing of such messages.
- A silent connection is closed after interval x (misses + 1), as ssh.go:48 and
  SPEC.md:374 say, not interval x misses, as ssh.go:158 says; `FoundInTime` is the former.

## 7. What is not modelled

Configuration, resource parsing, logging: read or written once, no interaction.
Floating point in `floorDiv`.  Sidecar mode, slices and volumes: refused by
`machine.New`.  The negotiation of host keys, the quoting of arguments, the parsing of
the container tools' output: conversions without state, which no property here is about.
More than one scale set: they share the machines' slots and otherwise nothing; the
sums over scale sets in `recomputeCapacity` are not looked at.  The refill of `minRunners`
above capacity is in no run, as it needs four units on two machines; `CreationsFitCapacity` has it.
Scale-down (`plan.ScaleDown`) is called by nothing yet.

## 8. Plan

In order of importance.

| Step | Modules | Content |
|---|---|---|
| 1 (done) | `Plan`, `Controller`, `Fleet`, `FleetProofs` | the core and its invariant |
| 2 (done) | `Lifecycle`, `LifecycleProofs` | start, stop, inbox, capacity hand-over |
| 3 (done) | `Ssh`, `SshProofs` | a shared connection |
| 4 (done) | `Demand`, `DemandProofs` | the listener's messages, statistics that lag, pending and completed ids |
| 5 (done) | `Agent`, `AgentProofs` | the goroutines inside a round |
| 6 (done) | `Local`, `Executor`, `LocalProofs` | child processes and held pipes; the contract both executors implement |
| 7 (done) | `SlotProofs`, `ControllerProofs` | slots, placement, what is forgotten; the sums and the loop of `createUnits` |
| 8 (done) | `Unit` | an abstract life of a unit, implemented by `Fleet` under a refinement mapping |
| 9 | `PlanSpread` | `Spread`, `PhysicalMax`, `EffectiveMax` against a reference over bounded inputs |
