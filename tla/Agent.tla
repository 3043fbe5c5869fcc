-------------------------------- MODULE Agent --------------------------------
(***************************************************************************)
(* The agent of one machine from the inside (machine/agent.go): what one   *)
(* round of Run is made of, the goroutine of runtime.Events that reads the *)
(* events stream beside it, the pre-pull that a reconnection leaves for    *)
(* after the synchronisation, and the backoff between rounds.  Fleet takes *)
(* a round for three steps; this module is what stands behind them.        *)
(*                                                                         *)
(* Every command to the machine may fail, and hang until its deadline: one *)
(* step stands for either.  What has no deadline, the stream itself and    *)
(* the opening of it, has steps of its own.  Notices reach the controller  *)
(* in the step that sends them; who waits for whom on the inbox is the     *)
(* business of Lifecycle.  The mode is none (machine.New refuses sidecar), *)
(* so that the budget (R21) is all that may be fatal.                      *)
(***************************************************************************)
EXTENDS Integers, FiniteSets

CONSTANTS Ctrs,       \* the runner containers of the machine
          Locals,     \* the values of Spec.Local looked at
          Podmans,    \* whether Spec.Runtime is podman, the values looked at
          BackoffMax, \* BackoffMax in steps of the sequence 1, 2, 4, ... (5)
          MaxTurns    \* bound: how often the budget or the image may turn

ASSUME AgentAssumption ==
  /\ IsFiniteSet(Ctrs)
  /\ Locals \subseteq BOOLEAN /\ Podmans \subseteq BOOLEAN
  /\ BackoffMax \in Nat \ {0} /\ MaxTurns \in Nat

VARIABLES
  \* the machine
  local,     \* Spec.Local; never changes
  podman,    \* Spec.Runtime is podman; never changes
  budget,    \* its resources suffice for one unit (what Spec.Verify says)
  image,     \* the runner image is on it
  turns,     \* how often budget or image have turned
  exited,    \* the containers whose runner has exited
  \* the Agent
  live,      \* Agent.live
  verified,  \* Agent.verified
  prePulled, \* Agent.prePulled
  path,      \* the runtime path: Agent.podmanSudo, or "unset"
  \* its Run goroutine
  at,        \* where it is
  first,     \* this is the first round
  served,    \* round.served
  fatal,     \* round.err is ErrFatal
  aged,      \* round.life has reached BackoffMax
  deferred,  \* the pre-pull of this round comes after Resynced
  ectx,      \* the ctx of the round has been cancelled
  seen,      \* the exits in the snapshot of this round
  next,      \* Backoff.next, as a step of the sequence
  \* the goroutines of a round
  streamer,  \* the goroutine of runtime.Events
  stream,    \* die events on their way to it
  offered,   \* the one it offers on evCh
  pull,      \* the goroutine of the deferred pre-pull, and its result
  \* the controller's side, and the end of the process
  believed,  \* the health of the machine as the controller was told
  told,      \* the containers it was told have exited
  notified,  \* Run has sent its first notice
  stop,      \* ctx is cancelled
  \* history
  lookedBy,  \* the paths by which reported snapshots were taken
  proven,    \* the machine has been healthy
  shorts     \* rounds since the last long one, up to BackoffMax

machineVars == <<local, podman, budget, image, turns, exited>>
knownVars == <<live, verified, prePulled, path>>
roundVars == <<first, served, fatal, aged, deferred, ectx, seen>>
streamVars == <<streamer, stream, offered>>
toldVars == <<believed, told, notified, lookedBy, proven>>
backoffVars == <<next, shorts>>
vars == <<machineVars, knownVars, at, roundVars, streamVars, pull, toldVars,
          backoffVars, stop>>

Places == {"boot", "bootPull", "round", "connect", "pull", "opening", "info",
           "observe", "check", "serving", "draining", "over", "waiting", "ended"}

TypeOK ==
  /\ local \in Locals /\ podman \in Podmans
  /\ budget \in BOOLEAN /\ image \in BOOLEAN
  /\ turns \in 0..MaxTurns /\ exited \subseteq Ctrs
  /\ live \in BOOLEAN /\ verified \in BOOLEAN /\ prePulled \in BOOLEAN
  /\ path \in {"unset", "plain", "sudo"}
  /\ at \in Places
  /\ first \in BOOLEAN /\ served \in BOOLEAN /\ fatal \in BOOLEAN
  /\ aged \in BOOLEAN /\ deferred \in BOOLEAN /\ ectx \in BOOLEAN
  /\ seen \subseteq Ctrs
  /\ streamer \in {"none", "reading", "offering", "closing", "ended"}
  /\ stream \subseteq Ctrs /\ offered \subseteq Ctrs
  /\ pull \in {"none", "pulling", "ok", "err"}
  /\ believed \in {"unknown", "Healthy", "Unhealthy", "Failed"}
  /\ told \subseteq Ctrs /\ notified \in BOOLEAN /\ stop \in BOOLEAN
  /\ lookedBy \subseteq {"plain", "sudo"} /\ proven \in BOOLEAN
  /\ next \in 0..BackoffMax /\ shorts \in 0..BackoffMax

Init ==
  /\ local \in Locals /\ podman \in Podmans
  /\ budget \in BOOLEAN /\ image \in BOOLEAN
  /\ turns = 0 /\ exited = {}
  /\ live = FALSE /\ verified = FALSE /\ prePulled = FALSE
  /\ path = "unset" /\ at = "boot"
  /\ first = TRUE /\ served = FALSE /\ fatal = FALSE /\ aged = FALSE
  /\ deferred = FALSE /\ ectx = FALSE /\ seen = {}
  /\ streamer = "none" /\ stream = {} /\ offered = {} /\ pull = "none"
  /\ believed = "unknown" /\ told = {} /\ notified = FALSE /\ stop = FALSE
  /\ lookedBy = {} /\ proven = FALSE /\ next = 0 /\ shorts = 0

---------------------------------------------------------------------------
(***************************************************************************)
(* The machine.                                                            *)
(***************************************************************************)
\* Its resources shrink or grow, or its image is pruned or loaded.
Turn ==
  /\ turns < MaxTurns /\ turns' = turns + 1
  /\ \/ budget' = ~budget /\ UNCHANGED image
     \/ image' = ~image /\ UNCHANGED budget
  /\ UNCHANGED <<local, podman, exited, knownVars, at, roundVars, streamVars,
                 pull, toldVars, backoffVars, stop>>

\* A runner exits; whoever has the stream open then will be sent the event.
Exit(c) ==
  /\ c \notin exited
  /\ exited' = exited \cup {c}
  /\ stream' = IF streamer \in {"reading", "offering"}
               THEN stream \cup {c} ELSE stream
  /\ UNCHANGED <<local, podman, budget, image, turns, knownVars, at, roundVars,
                 streamer, offered, pull, toldVars, backoffVars, stop>>

\* The stream has been open for as long as the longest backoff.
Age ==
  /\ at \in {"info", "observe", "check", "serving"} /\ ~aged
  /\ aged' = TRUE
  /\ UNCHANGED <<machineVars, knownVars, at, first, served, fatal, deferred,
                 ectx, seen, streamVars, pull, toldVars, backoffVars, stop>>

\* The process is told to stop.
Stop ==
  /\ ~stop /\ stop' = TRUE
  /\ UNCHANGED <<machineVars, knownVars, at, roundVars, streamVars, pull,
                 toldVars, backoffVars>>

\* Wrong: the ctx of a round does not descend from that of the process.
Cancelled_ByRoundOnly == ectx

\* The ctx of the round, and with it everything that was started under it.
Cancelled == ectx \/ stop

---------------------------------------------------------------------------
(***************************************************************************)
(* connect and prePull (preflight.go), for Preflight at the start of the   *)
(* process and for a round that has no live connection.                    *)
(***************************************************************************)
\* Wrong: the path is negotiated afresh at every connection.
PathsTried_Afresh == IF podman THEN {"plain", "sudo"} ELSE {"plain"}

\* fixRuntimePath: podman keeps the path of its first success.
PathsTried ==
  IF ~podman THEN {"plain"}
  ELSE IF path = "unset" THEN {"plain", "sudo"} ELSE {path}

\* Wrong: too small a budget is fatal whenever it is found.
Contradicts_Always == ~budget

\* judgeBudget: fatal for a machine that has never passed.
Contradicts == ~budget /\ ~verified

JudgeBudget == verified' = (verified \/ budget)

\* After boot the controller runs the agent, reached or not, unless what
\* Preflight found is fatal: then the process does not start.
BootOver(health, place) ==
  /\ at' = place
  /\ believed' = health /\ proven' = (health = "Healthy")
  /\ UNCHANGED <<told, notified, lookedBy>>

RoundFails(isFatal) ==
  /\ at' = "over" /\ fatal' = isFatal
  /\ UNCHANGED <<first, served, aged, deferred, ectx, seen>>

Unreached(isFatal) ==
  \/ /\ at \in {"boot", "bootPull"}
     /\ BootOver(IF isFatal THEN "unknown" ELSE "Unhealthy",
                 IF isFatal THEN "ended" ELSE "round")
     /\ UNCHANGED roundVars
  \/ /\ at \in {"connect", "pull"} /\ RoundFails(isFatal)
     /\ UNCHANGED toldVars

\* serve defers the pull for a machine that has pulled once.
Defers == prePulled

\* No connection, or id -u or info fails: on whatever path.
ConnectFails ==
  /\ at \in {"boot", "connect"}
  /\ Unreached(FALSE)
  /\ UNCHANGED <<machineVars, knownVars, streamVars, pull, backoffVars, stop>>

\* The machine answers, and its budget is judged.
Connect ==
  /\ at \in {"boot", "connect"} /\ ~stop
  /\ path' \in PathsTried
  /\ JudgeBudget
  /\ \/ Contradicts /\ Unreached(TRUE) /\ UNCHANGED live
     \/ /\ ~Contradicts
        /\ \/ /\ at = "boot" /\ at' = "bootPull"
              /\ UNCHANGED <<deferred, live>>
           \/ /\ at = "connect" /\ ~Defers /\ at' = "pull"
              /\ UNCHANGED <<deferred, live>>
           \/ /\ at = "connect" /\ Defers /\ at' = "opening"
              /\ deferred' = TRUE /\ live' = TRUE
        /\ UNCHANGED <<first, served, fatal, aged, ectx, seen, toldVars>>
  /\ UNCHANGED <<machineVars, prePulled, streamVars, pull, backoffVars, stop>>

\* Pull succeeds; or it fails, and the image is there already.
PullOk == image' = TRUE \/ (image /\ UNCHANGED image)

PrePull ==
  /\ at \in {"bootPull", "pull"} /\ ~stop
  /\ PullOk
  /\ prePulled' = TRUE /\ live' = TRUE
  /\ \/ at = "bootPull" /\ BootOver("Healthy", "round")
     \/ at = "pull" /\ at' = "opening" /\ UNCHANGED toldVars
  /\ UNCHANGED <<local, podman, budget, turns, exited, verified, path,
                 roundVars, streamVars, pull, backoffVars, stop>>

\* Pull fails or takes longer than pullTimeout, and the image is not there or
\* cannot be asked for.
PrePullFails ==
  /\ at \in {"bootPull", "pull"}
  /\ Unreached(FALSE)
  /\ UNCHANGED <<machineVars, knownVars, streamVars, pull, backoffVars, stop>>

---------------------------------------------------------------------------
(***************************************************************************)
(* serve, up to Resynced.                                                  *)
(***************************************************************************)
RoundBegins ==
  /\ at = "round"
  /\ at' = IF live THEN "opening" ELSE "connect"
  /\ served' = FALSE /\ fatal' = FALSE /\ aged' = FALSE
  /\ deferred' = FALSE /\ ectx' = FALSE /\ seen' = {}
  /\ streamer' = "none" /\ stream' = {} /\ offered' = {}
  /\ UNCHANGED <<machineVars, knownVars, first, pull, toldVars, backoffVars,
                 stop>>

\* Wrong: nothing bounds the opening.
Watchdog_None == FALSE

\* watchdog: the opening has taken probeTimeout.
Watchdog == at = "opening"

OpenTimesOut ==
  /\ Watchdog /\ ~ectx
  /\ ectx' = TRUE
  /\ UNCHANGED <<machineVars, knownVars, at, first, served, fatal, aged,
                 deferred, seen, streamVars, pull, toldVars, backoffVars, stop>>

\* The stream is open, which may be found after the watchdog has cancelled.  The
\* code goes on when the events command has been started (cli.go:333); that the
\* machine hands on every exit from then on is taken of the container tool.
Opened ==
  /\ at = "opening"
  /\ at' = "info" /\ streamer' = "reading"
  /\ UNCHANGED <<machineVars, knownVars, roundVars, stream, offered, pull,
                 toldVars, backoffVars, stop>>

\* It cannot be opened: the channels are closed, the reason is in errCh.
OpenFails ==
  /\ at = "opening"
  /\ at' = "info" /\ streamer' = "ended"
  /\ UNCHANGED <<machineVars, knownVars, roundVars, stream, offered, pull,
                 toldVars, backoffVars, stop>>

\* Wrong: the round is left with its stream and its pull running.
GiveUp_NoDrain(isFatal) ==
  /\ at' = "over" /\ ectx' = TRUE /\ fatal' = isFatal
  /\ UNCHANGED <<first, served, aged, deferred, seen>>

\* cancel(nil), then drain and wait.
GiveUp(isFatal) ==
  /\ at' = "draining" /\ ectx' = TRUE /\ fatal' = isFatal
  /\ UNCHANGED <<first, served, aged, deferred, seen>>

\* Info or the observation fails, or takes longer than probeTimeout.
ProbeFails ==
  /\ at \in {"info", "observe"}
  /\ GiveUp(FALSE)
  /\ UNCHANGED <<machineVars, knownVars, streamVars, pull, toldVars,
                 backoffVars, stop>>

\* Info answers; the budget is judged again, also on a connection kept.
Info ==
  /\ at = "info" /\ ~Cancelled
  /\ JudgeBudget
  /\ \/ Contradicts /\ GiveUp(TRUE)
     \/ ~Contradicts /\ at' = "observe" /\ UNCHANGED roundVars
  /\ UNCHANGED <<machineVars, live, prePulled, path, streamVars, pull,
                 toldVars, backoffVars, stop>>

Observe ==
  /\ at = "observe" /\ ~Cancelled
  /\ at' = "check" /\ seen' = exited
  /\ UNCHANGED <<machineVars, knownVars, first, served, fatal, aged, deferred,
                 ectx, streamVars, pull, toldVars, backoffVars, stop>>

\* errCh holds the reason of an end that has come already.
ErrChFilled == streamer \in {"closing", "ended"}

EndedEarly ==
  /\ at = "check" /\ ErrChFilled
  /\ GiveUp(FALSE)
  /\ UNCHANGED <<machineVars, knownVars, streamVars, pull, toldVars,
                 backoffVars, stop>>

\* Wrong: what came before the snapshot's report is thrown away.
EventsKept_SinceReport == offered' = {} /\ stream' = {} /\ streamer' = "reading"

\* The events since the stream was opened stay to be read.
EventsKept == UNCHANGED streamVars

\* Resynced is sent, and the deferred pre-pull starts beside what follows.
Resynced ==
  /\ at = "check" /\ ~ErrChFilled
  /\ at' = "serving" /\ served' = TRUE
  /\ pull' = IF deferred THEN "pulling" ELSE "none"
  /\ believed' = "Healthy" /\ told' = told \cup seen /\ notified' = TRUE
  /\ lookedBy' = lookedBy \cup {path} /\ proven' = TRUE
  /\ EventsKept
  /\ UNCHANGED <<machineVars, knownVars, first, fatal, aged, deferred, ectx,
                 seen, backoffVars, stop>>

---------------------------------------------------------------------------
(***************************************************************************)
(* The goroutine of runtime.Events, and that of the deferred pre-pull.     *)
(***************************************************************************)
StreamerGoes(place) ==
  /\ streamer' = place
  /\ UNCHANGED <<machineVars, knownVars, at, roundVars, pull, toldVars,
                 backoffVars, stop>>

StreamerReads ==
  /\ streamer = "reading"
  /\ \E c \in stream : offered' = {c} /\ stream' = stream \ {c}
  /\ StreamerGoes("offering")

\* The stream ends, whatever was on its way; always so when the ctx does.
StreamerEnds ==
  /\ streamer = "reading"
  /\ stream' = {} /\ UNCHANGED offered
  /\ StreamerGoes("closing")

\* The select on evCh and ctx.Done.
OfferGivenUp == streamer = "offering" /\ Cancelled

StreamerCancelled ==
  /\ OfferGivenUp
  /\ stream' = {} /\ offered' = {}
  /\ StreamerGoes("closing")

\* rc.Close has returned, and evCh is closed.
StreamerCloses ==
  /\ streamer = "closing"
  /\ UNCHANGED <<stream, offered>>
  /\ StreamerGoes("ended")

\* Wrong: the pull of a round outlives its ctx.
PullCancelled_ByStop == pull = "pulling" /\ stop

PullCancelled == pull = "pulling" /\ Cancelled

PullGoes(result) ==
  /\ pull' = result
  /\ UNCHANGED <<local, podman, budget, turns, exited, knownVars, at, roundVars,
                 streamVars, toldVars, backoffVars, stop>>

PullSucceeds == pull = "pulling" /\ PullOk /\ PullGoes("ok")

PullFails == pull = "pulling" /\ UNCHANGED image /\ PullGoes("err")

---------------------------------------------------------------------------
(***************************************************************************)
(* serve, from Resynced on.                                                *)
(***************************************************************************)
\* Wrong: events wait for the pull.
MayReceive_AfterPull == pull = "none"

\* The loop takes an event whether or not the pull is over.
MayReceive == TRUE

Event ==
  /\ at = "serving" /\ streamer = "offering" /\ MayReceive
  /\ told' = told \cup offered /\ offered' = {} /\ streamer' = "reading"
  /\ UNCHANGED <<machineVars, knownVars, at, roundVars, stream, pull, believed,
                 notified, lookedBy, proven, backoffVars, stop>>

PullOver ==
  /\ at = "serving" /\ pull \in {"ok", "err"} /\ pull' = "none"
  /\ \/ pull = "ok" /\ prePulled' = TRUE /\ UNCHANGED <<at, roundVars>>
     \/ pull = "err" /\ GiveUp(FALSE) /\ UNCHANGED prePulled
  /\ UNCHANGED <<machineVars, live, verified, path, streamVars, toldVars,
                 backoffVars, stop>>

\* evCh is closed: the pull that is left is folded up with the ctx.
StreamOver ==
  /\ at = "serving" /\ streamer = "ended"
  /\ GiveUp(FALSE)
  /\ UNCHANGED <<machineVars, knownVars, streamVars, pull, toldVars,
                 backoffVars, stop>>

\* drain: what is still offered is thrown away.
Discard ==
  /\ at = "draining" /\ streamer = "offering"
  /\ offered' = {} /\ streamer' = "reading"
  /\ UNCHANGED <<machineVars, knownVars, at, roundVars, stream, pull, toldVars,
                 backoffVars, stop>>

\* drain and <-pullCh are over.
Drained ==
  /\ at = "draining" /\ streamer = "ended" /\ pull # "pulling"
  /\ at' = "over" /\ pull' = "none"
  /\ UNCHANGED <<machineVars, knownVars, roundVars, streamVars, toldVars,
                 backoffVars, stop>>

---------------------------------------------------------------------------
(***************************************************************************)
(* Run, between two rounds.                                                *)
(***************************************************************************)
Ended ==
  /\ at' = "ended"
  /\ UNCHANGED <<machineVars, verified, prePulled, path, roundVars, streamVars,
                 pull, stop>>

\* ctx is cancelled, after a round or in Backoff.Wait.
RunStops ==
  /\ at \in {"over", "waiting"} /\ stop
  /\ Ended /\ UNCHANGED <<live, toldVars, backoffVars>>

\* dropConn: a connection is kept only by a local machine that was served.
Dropped == live' = (live /\ served /\ local)

RunFails ==
  /\ at = "over" /\ ~stop /\ fatal
  /\ Dropped
  /\ believed' = "Failed" /\ notified' = TRUE
  /\ Ended /\ UNCHANGED <<told, lookedBy, proven, backoffVars>>

\* Wrong: only the end of a round that was served is reported.
Reported_IfServed == served

Reported == served \/ first

\* Wrong: every round that was served starts the sequence afresh.
ResetsBackoff_IfServed == served

ResetsBackoff == served /\ aged

Lesser(a, b) == IF a < b THEN a ELSE b

\* Backoff.Next, after a Reset if the round has earned it.
NextStep == IF ResetsBackoff THEN 1 ELSE Lesser(next + 1, BackoffMax)

\* Unhealthy, and the next wait.
RunRetries ==
  /\ at = "over" /\ ~stop /\ ~fatal
  /\ Dropped
  /\ believed' = IF Reported THEN "Unhealthy" ELSE believed
  /\ notified' = (notified \/ Reported)
  /\ next' = NextStep
  /\ shorts' = IF aged THEN 0 ELSE Lesser(shorts + 1, BackoffMax)
  /\ first' = FALSE /\ at' = "waiting"
  /\ UNCHANGED <<machineVars, verified, prePulled, path, served, fatal, aged,
                 deferred, ectx, seen, streamVars, pull, told, lookedBy, proven,
                 stop>>

RunWaited ==
  /\ at = "waiting" /\ ~stop
  /\ at' = "round"
  /\ UNCHANGED <<machineVars, knownVars, roundVars, streamVars, pull, toldVars,
                 backoffVars, stop>>

---------------------------------------------------------------------------
Environment == Turn \/ Stop \/ Age \/ \E c \in Ctrs : Exit(c)

Reaching ==
  \/ ConnectFails \/ Connect \/ PrePull \/ PrePullFails
  \/ RoundBegins \/ OpenTimesOut \/ Opened \/ OpenFails
  \/ ProbeFails \/ Info \/ Observe \/ EndedEarly \/ Resynced

Streaming ==
  \/ StreamerReads \/ StreamerEnds \/ StreamerCancelled \/ StreamerCloses
  \/ PullSucceeds \/ PullFails

Serving == Event \/ PullOver \/ StreamOver \/ Discard \/ Drained

Running == RunStops \/ RunFails \/ RunRetries \/ RunWaited

Next == Environment \/ Reaching \/ Streaming \/ Serving \/ Running

Spec == Init /\ [][Next]_vars

(***************************************************************************)
(* The goroutines go on, every command ends by its deadline at the latest, *)
(* and what waits for a cancelled ctx is let go.  Nothing is assumed of    *)
(* the machine: a stream may never open, one that is open may be silent    *)
(* for ever, and the deferred pull may take as long as it likes.           *)
(***************************************************************************)
Fairness ==
  /\ WF_vars(ConnectFails \/ Connect) /\ WF_vars(PrePull \/ PrePullFails)
  /\ WF_vars(RoundBegins) /\ WF_vars(OpenTimesOut) /\ WF_vars(ectx /\ OpenFails)
  /\ WF_vars(stop /\ OpenFails)
  /\ WF_vars(ProbeFails \/ Info \/ Observe) /\ WF_vars(EndedEarly \/ Resynced)
  /\ WF_vars(StreamerReads) /\ WF_vars(Cancelled /\ StreamerEnds)
  /\ WF_vars(StreamerCancelled) /\ WF_vars(StreamerCloses)
  /\ WF_vars(PullCancelled /\ PullFails)
  /\ WF_vars(Event) /\ WF_vars(PullOver) /\ WF_vars(StreamOver)
  /\ WF_vars(Discard) /\ WF_vars(Drained) /\ WF_vars(Running)

FairSpec == Spec /\ Fairness

---------------------------------------------------------------------------
(***************************************************************************)
(* Properties.                                                             *)
(***************************************************************************)
\* While an agent waits for its next round the controller does not take the
\* machine for healthy, also when Preflight had found it so and only the first
\* round failed (the condition of sink.Unhealthy, agent.go:344); while a
\* stream is served it does.
HealthIsTrue ==
  /\ at = "waiting" => believed # "Healthy"
  /\ at = "serving" => believed = "Healthy"

\* No goroutine of a round outlives it, neither the reader of the stream nor
\* a pre-pull (drain, agent.go:515).
NothingRunsOn ==
  at \in {"round", "connect", "pull", "over", "waiting", "ended"}
    => streamer \in {"none", "ended"} /\ pull = "none"

\* While the stream is served, the exit of every runner has been told or is on
\* its way, whichever moment of the round it fell into (agent.go:317).
ExitsCovered ==
  at = "serving" /\ streamer \in {"reading", "offering"}
    => exited \subseteq told \cup stream \cup offered

\* All snapshots of a machine come from one container storage: by another path
\* all its units would be missing (podmanSudo, agent.go:133).
OnePath == Cardinality(lookedBy) <= 1

\* A machine that has been healthy once is never given up for its budget
\* (judgeBudget, agent.go:240).
ProvenNeverFails == proven => believed # "Failed"

\* However often a machine comes up and falls down again at once, every such
\* round has taken the wait one step further (resetsBackoff, agent.go:371).
FlappingSlowsDown == at = "waiting" => next >= Lesser(shorts, BackoffMax)

InRound == {"opening", "info", "observe", "check", "serving"}

\* A live connection is one that was judged and has its image.
LiveIsJudged ==
  /\ at \in InRound => live
  /\ live => verified /\ prePulled
  /\ at \in {"bootPull", "pull"} \/ proven => verified
  /\ fatal => ~verified /\ at \in {"over", "ended"}
  /\ believed = "Failed" => ~verified /\ at = "ended"

\* The path of the snapshots is the one the agent keeps.
PathKept ==
  /\ lookedBy \subseteq {path}
  /\ ~podman => path # "sudo"
  /\ at \in InRound \cup {"bootPull", "pull"} \/ live => path # "unset"

\* Between Unhealthy and the next Resynced the machine is down to both sides.
DownIsTold ==
  /\ at \in {"boot", "bootPull"} => first
  /\ at = "waiting" => ~first
  /\ at = "serving" => served
  /\ at \in {"connect", "pull"} \cup (InRound \ {"serving"}) => ~served
  /\ ~first /\ (~served \/ at \in {"waiting", "round"})
       => believed # "Healthy"

\* Who runs when, and what the reader holds.
RoundSound ==
  /\ pull # "none" => at \in {"serving", "draining"}
  /\ streamer \in {"reading", "offering", "closing"}
       => at \in {"info", "observe", "check", "serving", "draining"}
  /\ streamer # "offering" => offered = {}
  /\ at = "check" /\ streamer \in {"reading", "offering"}
       => exited \subseteq seen \cup stream \cup offered

\* The inductive invariant: nothing above holds by itself.
AgentInvariant ==
  /\ TypeOK
  /\ LiveIsJudged /\ PathKept /\ DownIsTold /\ RoundSound
  /\ HealthIsTrue /\ ExitsCovered
  /\ next >= shorts

\* Run sends a first notice, whatever hangs: the start of all sessions waits
\* for it (Agent.Run, and the watchdog of the opening, agent.go:407).
FirstNotice == at = "round" ~> (notified \/ stop)

\* The end of a stream that is served is reported, also with a pull under way.
EndReported ==
  (at = "serving" /\ streamer = "ended") ~> (believed = "Unhealthy" \/ stop)

\* A die event that has come is passed on, though the pull beside it hangs
\* (agent.go:438), unless the round is over.
DieTold ==
  \A c \in Ctrs :
    (at = "serving" /\ c \in stream \cup offered)
      ~> (c \in told \/ at # "serving")

\* A stop ends the agent.
StopEnds == stop ~> at = "ended"
=============================================================================
