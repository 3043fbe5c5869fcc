------------------------------ MODULE Lifecycle ------------------------------
(***************************************************************************)
(* One run of the process: Controller.Run from the authentication check to *)
(* its return, the agents, the listener of a scale set and the spawned     *)
(* goroutines, and the inbox between them and the loop.  What the handlers *)
(* do to units is in Controller; here a handler only takes a message, may  *)
(* change the capacity and may spawn a goroutine.  At issue is who waits   *)
(* for whom: at the start, when a stop cuts in anywhere, and where the     *)
(* loop and the listener hand the capacity over without a lock.            *)
(***************************************************************************)
EXTENDS Integers, Sequences, FiniteSets

CONSTANTS Machines,    \* the configured machines
          Jobs,        \* bound: goroutines that spawn starts
          InboxSize,   \* the inbox's buffer (64 in the code)
          MaxCapacity, \* bound on the capacities that come up
          Failures     \* what may fail, see the assumption

ASSUME LifecycleAssumption ==
  /\ IsFiniteSet(Machines) /\ IsFiniteSet(Jobs)
  /\ InboxSize \in Nat \ {0} /\ MaxCapacity \in Nat
  /\ Failures \subseteq {"auth", "setup", "fatal", "round", "session"}

VARIABLES
  stage,     \* where Run is
  stopping,  \* the context of Run is cancelled
  done,      \* the channel done is closed
  inbox,     \* the messages in the inbox, oldest first
  waiting,   \* awaitInitialSync: the machines still waited for
  reached,   \* the machines preflight has reached
  heard,     \* the machines of which a notice has been handled
  agent,     \* agent[m]: where the goroutine of m is (preflight, then Run)
  said,      \* the machines whose agent is past its first round
  pulled,    \* Agent.prePulled
  current,   \* the machines whose cur is an open connection (= Agent.live)
  open,      \* open[m]: how many connections to m are open
  lst,       \* where the listener goroutine is
  session,   \* a message session is open
  job,       \* job[j]: where a spawned goroutine is
  capacity,  \* scaleSetState.capacity
  setting,   \* the loop is between the two steps of setCapacity
  stored,    \* scaleSetState.lst is not nil
  held,      \* the capacity serveListener has loaded
  max        \* what the listener advertises: its MaxRunners

runVars == <<stage, stopping, done>>
machVars == <<reached, heard>>
connVars == <<pulled, current, open>>
capVars == <<capacity, setting, stored, held, max>>
vars == <<runVars, inbox, waiting, machVars, agent, said, connVars, lst,
          session, job, capVars>>

AgentPlaces == {"connect", "prepull", "ready", "unreached", "fatal", "opening",
                "tellSync", "stream", "tellEvent", "tellHealth", "tellFailed",
                "backoff", "ended"}
ListenerPlaces == {"none", "opening", "tellSession", "make", "store", "load",
                   "set", "serving", "tellJob", "asking", "awaiting",
                   "closing", "backoff", "ended"}

Messages ==
  [kind : {"notice", "event"}, from : Machines]
    \cup [kind : {"session", "job", "desired"}, from : Jobs \cup {"listener"}]

TypeOK ==
  /\ stage \in {"auth", "preflight", "setup", "sync", "loop", "drain",
                "close", "returned"}
  /\ stopping \in BOOLEAN /\ done \in BOOLEAN
  /\ inbox \in Seq(Messages) /\ Len(inbox) <= InboxSize
  /\ waiting \subseteq Machines /\ reached \subseteq Machines
  /\ heard \subseteq Machines
  /\ agent \in [Machines -> AgentPlaces]
  /\ said \subseteq Machines /\ pulled \subseteq Machines
  /\ current \subseteq Machines
  /\ open \in [Machines -> 0..2]
  /\ lst \in ListenerPlaces /\ session \in BOOLEAN
  /\ job \in [Jobs -> {"idle", "busy", "tell"}]
  /\ capacity \in 0..MaxCapacity /\ held \in 0..MaxCapacity
  /\ max \in 0..MaxCapacity
  /\ setting \in BOOLEAN /\ stored \in BOOLEAN

Init ==
  /\ stage = "auth" /\ stopping = FALSE /\ done = FALSE
  /\ inbox = <<>> /\ waiting = {} /\ reached = {} /\ heard = {}
  /\ agent = [m \in Machines |-> "connect"]
  /\ said = {} /\ pulled = {} /\ current = {}
  /\ open = [m \in Machines |-> 0]
  /\ lst = "none" /\ session = FALSE
  /\ job = [j \in Jobs |-> "idle"]
  /\ capacity = 0 /\ setting = FALSE /\ stored = FALSE /\ held = 0 /\ max = 0

\* SIGINT or SIGTERM.
Stop ==
  /\ ~stopping
  /\ stopping' = TRUE
  /\ UNCHANGED <<stage, done, inbox, waiting, machVars, agent, said, connVars,
                 lst, session, job, capVars>>

\* Controller.send: waits for room in the inbox or for the end of the loop,
\* not for the context.
Send(msg) ==
  \/ Len(inbox) < InboxSize /\ inbox' = Append(inbox, msg)
  \/ done /\ UNCHANGED inbox

---------------------------------------------------------------------------
(***************************************************************************)
(* Run.                                                                    *)
(***************************************************************************)
StageIs(next) ==
  /\ stage' = next
  /\ UNCHANGED <<stopping, inbox, heard, said, connVars, session, job,
                 setting, stored, held, max>>

\* checkAuth.  An early return goes to the deferred closeAgents.
CheckAuth ==
  /\ stage = "auth"
  /\ \/ StageIs("preflight")
     \/ ("auth" \in Failures \/ stopping) /\ StageIs("close")
  /\ UNCHANGED <<done, waiting, reached, agent, lst, capacity>>

\* The preflights run side by side; their results are looked at when all of
\* them are over, and a machine may still prove unfit (applyInfoAtStart).
PreflightsOver ==
  /\ stage = "preflight"
  /\ \A m \in Machines : agent[m] \in {"ready", "unreached", "fatal"}
  /\ \/ /\ \A m \in Machines : agent[m] # "fatal"
        /\ StageIs("setup")
        /\ reached' = {m \in Machines : agent[m] = "ready"}
     \/ /\ \/ \E m \in Machines : agent[m] = "fatal"
           \/ "fatal" \in Failures /\ \E m \in Machines : agent[m] = "ready"
        /\ StageIs("close")
        /\ UNCHANGED reached
  /\ UNCHANGED <<done, waiting, agent, lst, capacity>>

\* EnsureScaleSet, initialCapacity, then the goroutine of each agent: its
\* first round connects, unless preflight did.
Setup ==
  /\ stage = "setup"
  /\ \/ /\ StageIs("sync")
        /\ capacity' \in 0..MaxCapacity
        /\ waiting' = reached
        /\ agent' = [m \in Machines |-> IF m \in reached THEN "opening"
                                        ELSE "connect"]
     \/ /\ "setup" \in Failures \/ stopping
        /\ StageIs("close")
        /\ UNCHANGED <<capacity, waiting, agent>>
  /\ UNCHANGED <<done, reached, lst>>

\* Wrong: the sync is over with the first machine heard of.
SyncOver_FirstHeard == waiting = {} \/ heard # {}

SyncOver == waiting = {}

\* The sessions are opened when nothing is waited for any more.
EnterLoop ==
  /\ stage = "sync" /\ SyncOver /\ ~setting
  /\ StageIs("loop")
  /\ lst' = "opening"
  /\ UNCHANGED <<done, waiting, reached, agent, capacity>>

\* At the select of awaitInitialSync or of the loop.
InSelect ==
  /\ ~setting
  /\ stage = "loop" \/ (stage = "sync" /\ waiting # {})

\* Wrong: an interrupted start leaves done open.
LeaveLoop_DoneStaysOpen ==
  /\ InSelect /\ stopping
  /\ StageIs("drain")
  /\ done' = (stage = "loop")
  /\ UNCHANGED <<waiting, reached, agent, lst, capacity>>

\* ctx.Done in either select.
LeaveLoop ==
  /\ InSelect /\ stopping
  /\ StageIs("drain")
  /\ done' = TRUE
  /\ UNCHANGED <<waiting, reached, agent, lst, capacity>>

AllEnded ==
  /\ \A m \in Machines : agent[m] = "ended"
  /\ lst \in {"none", "ended"}
  /\ \A j \in Jobs : job[j] = "idle"

WaitAll ==
  /\ stage = "drain" /\ AllEnded
  /\ StageIs("close")
  /\ UNCHANGED <<done, waiting, reached, agent, lst, capacity>>

\* closeAgents, on every way out of Run.
CloseAgents ==
  /\ stage = "close"
  /\ stage' = "returned"
  /\ open' = [m \in Machines |-> IF m \in current THEN open[m] - 1 ELSE open[m]]
  /\ current' = {}
  /\ UNCHANGED <<stopping, done, inbox, waiting, machVars, agent, said, pulled,
                 lst, session, job, capVars>>

---------------------------------------------------------------------------
(***************************************************************************)
(* The loop takes a message.                                               *)
(***************************************************************************)
\* Handlers spawn a goroutine now and then.
MaySpawn ==
  \/ UNCHANGED job
  \/ \E j \in Jobs : job[j] = "idle" /\ job' = [job EXCEPT ![j] = "busy"]

\* Wrong: the listener is told of changes only (as DESIGN 6 puts it).
Recomputed_IfChanged(n) ==
  /\ capacity' = n
  /\ setting' = (n # capacity)

\* setCapacity, first step: it tells the listener also what has not changed.
Recomputed(n) ==
  /\ capacity' = n
  /\ setting' = TRUE

\* A notice of a machine changes its health, and so the capacity; a desired
\* count recomputes it from the same machines; other messages leave it alone.
LoopTakes ==
  /\ InSelect /\ inbox # <<>>
  /\ inbox' = Tail(inbox)
  /\ LET msg == Head(inbox) IN
       /\ IF msg.kind = "notice"
          THEN \E n \in 0..MaxCapacity : Recomputed(n)
          ELSE IF msg.kind = "desired" THEN Recomputed(capacity)
          ELSE UNCHANGED <<capacity, setting>>
       /\ waiting' = IF stage = "sync" /\ msg.kind = "notice"
                     THEN waiting \ {msg.from} ELSE waiting
       /\ heard' = IF msg.kind = "notice" THEN heard \cup {msg.from} ELSE heard
  /\ MaySpawn
  /\ UNCHANGED <<runVars, reached, agent, lst, said, connVars, session, stored,
                 held, max>>

LoopTicks ==
  /\ stage = "loop" /\ ~setting
  /\ \E j \in Jobs : job[j] = "idle" /\ job' = [job EXCEPT ![j] = "busy"]
  /\ UNCHANGED <<runVars, inbox, waiting, machVars, agent, said, connVars, lst,
                 session, capVars>>

\* setCapacity, second step: SetMaxRunners if there is a listener.
LoopSetsMax ==
  /\ setting
  /\ setting' = FALSE
  /\ max' = IF stored THEN capacity ELSE max
  /\ UNCHANGED <<runVars, inbox, waiting, machVars, agent, said, connVars,
                 lst, session, job, capacity, stored, held>>

---------------------------------------------------------------------------
(***************************************************************************)
(* An agent: Preflight, and the rounds of Agent.Run.                       *)
(***************************************************************************)
AgentUnch ==
  UNCHANGED <<runVars, waiting, machVars, lst, session, job, capVars>>

Goes(m, place) == agent' = [agent EXCEPT ![m] = place]

InPreflight == stage = "preflight"
InRun == stage \in {"sync", "loop", "drain"}
Active == InPreflight \/ InRun

\* replaceConn: n connections being open, one of them new, the old one goes.
Replaced(m, n) ==
  /\ open' = [open EXCEPT ![m] = IF m \in current THEN n - 1 ELSE n]
  /\ current' = current \cup {m}

\* Wrong: the dropped connection stays the current one.
Dropped_StaysCurrent(m) ==
  /\ open' = [open EXCEPT ![m] = IF m \in current THEN @ - 1 ELSE @]
  /\ UNCHANGED current

\* dropConn, and the executor that connect or Preflight closes itself.
Dropped(m) ==
  /\ open' = [open EXCEPT ![m] = IF m \in current THEN @ - 1 ELSE @]
  /\ current' = current \ {m}

\* Wrong: only a round that had been served is reported.
AfterFailure_ServedOnly(m, served) ==
  /\ Goes(m, IF InPreflight THEN "unreached"
             ELSE IF served THEN "tellHealth" ELSE "backoff")
  /\ said' = IF InRun THEN said \cup {m} ELSE said

\* What a failed round says: its first failure is news, as is that of a
\* round that had been served.
AfterFailure(m, served) ==
  /\ Goes(m, IF InPreflight THEN "unreached"
             ELSE IF served \/ m \notin said THEN "tellHealth" ELSE "backoff")
  /\ said' = IF InRun THEN said \cup {m} ELSE said

\* connect succeeds: a machine that was pulled to before goes on with the
\* new connection, the others pull first.
AgentConnects(m) ==
  /\ Active /\ agent[m] = "connect"
  /\ IF m \in pulled /\ InRun
     THEN Replaced(m, open[m] + 1) /\ Goes(m, "opening")
     ELSE /\ open' = [open EXCEPT ![m] = @ + 1]
          /\ Goes(m, "prepull") /\ UNCHANGED current
  /\ AgentUnch /\ UNCHANGED <<inbox, said, pulled>>

AgentConnectFails(m) ==
  /\ Active /\ agent[m] = "connect"
  /\ "round" \in Failures \/ stopping
  /\ IF InRun THEN Dropped(m) ELSE UNCHANGED <<open, current>>
  /\ AfterFailure(m, FALSE)
  /\ AgentUnch /\ UNCHANGED <<inbox, pulled>>

AgentPulls(m) ==
  /\ Active /\ agent[m] = "prepull"
  /\ pulled' = pulled \cup {m}
  /\ Replaced(m, open[m])
  /\ Goes(m, IF InPreflight THEN "ready" ELSE "opening")
  /\ AgentUnch /\ UNCHANGED <<inbox, said>>

\* Wrong: a failed pre-pull leaves its connection to nobody.
PullLost_NotClosed(m) == open[m]

\* Preflight closes the connection it could not pull over.
PullLost(m) == open[m] - 1

AgentPullFails(m) ==
  /\ Active /\ agent[m] = "prepull"
  /\ "round" \in Failures \/ stopping
  /\ open' = [open EXCEPT ![m] = PullLost(m)]
  /\ UNCHANGED current
  /\ AfterFailure(m, FALSE)
  /\ AgentUnch /\ UNCHANGED <<inbox, pulled>>

\* ErrFatal: R16 or R21 is violated.
AgentFatal(m) ==
  /\ "fatal" \in Failures
  /\ \/ Active /\ agent[m] = "connect"
     \/ InRun /\ agent[m] = "opening"
  /\ IF InRun THEN Dropped(m) ELSE UNCHANGED <<open, current>>
  /\ Goes(m, IF InPreflight THEN "fatal" ELSE "tellFailed")
  /\ AgentUnch /\ UNCHANGED <<inbox, said, pulled>>

\* The events stream is open and the machine observed.
AgentObserves(m) ==
  /\ InRun /\ agent[m] = "opening"
  /\ Goes(m, "tellSync")
  /\ AgentUnch /\ UNCHANGED <<inbox, said, connVars>>

AgentRoundFails(m) ==
  /\ InRun /\ agent[m] = "opening"
  /\ "round" \in Failures
  /\ Dropped(m)
  /\ AfterFailure(m, FALSE)
  /\ AgentUnch /\ UNCHANGED <<inbox, pulled>>

\* The stream ends; only a local machine keeps its connection then.
AgentStreamEnds(m) ==
  /\ InRun /\ agent[m] = "stream"
  /\ Dropped(m) \/ UNCHANGED <<open, current>>
  /\ AfterFailure(m, TRUE)
  /\ AgentUnch /\ UNCHANGED <<inbox, pulled>>

AgentEvent(m) ==
  /\ InRun /\ agent[m] = "stream"
  /\ Goes(m, "tellEvent")
  /\ AgentUnch /\ UNCHANGED <<inbox, said, connVars>>

\* A call of the sink returns.
AgentTells(m) ==
  /\ \/ agent[m] \in {"tellSync", "tellHealth", "tellFailed"}
        /\ Send([kind |-> "notice", from |-> m])
     \/ agent[m] = "tellEvent" /\ Send([kind |-> "event", from |-> m])
  /\ Goes(m, CASE agent[m] \in {"tellSync", "tellEvent"} -> "stream"
               [] agent[m] = "tellHealth"                -> "backoff"
               [] OTHER                                  -> "ended")
  /\ said' = said \cup {m}
  /\ AgentUnch /\ UNCHANGED connVars

AgentRetries(m) ==
  /\ agent[m] = "backoff"
  /\ Goes(m, IF m \in current THEN "opening" ELSE "connect")
  /\ AgentUnch /\ UNCHANGED <<inbox, said, connVars>>

\* The context is cancelled: a round ends, and with it the agent; the current
\* connection is left to closeAgents.
AgentStops(m) ==
  /\ InRun /\ stopping
  /\ agent[m] \in {"connect", "prepull", "opening", "stream", "backoff"}
  /\ open' = IF agent[m] = "prepull" THEN [open EXCEPT ![m] = PullLost(m)]
             ELSE open
  /\ Goes(m, "ended")
  /\ AgentUnch /\ UNCHANGED <<inbox, said, pulled, current>>

---------------------------------------------------------------------------
(***************************************************************************)
(* The listener: runListener, serveListener and the callbacks.             *)
(***************************************************************************)
ListenerUnch ==
  UNCHANGED <<runVars, waiting, machVars, agent, said, connVars, job, capacity,
              setting>>

NewSession ==
  /\ lst = "opening"
  /\ \/ lst' = "tellSession" /\ session' = TRUE
     \/ /\ "session" \in Failures \/ stopping
        /\ lst' = IF stopping THEN "ended" ELSE "backoff"
        /\ UNCHANGED session
  /\ ListenerUnch /\ UNCHANGED <<inbox, stored, held, max>>

TellSession ==
  /\ lst = "tellSession"
  /\ Send([kind |-> "session", from |-> "listener"])
  /\ lst' = "make"
  /\ ListenerUnch /\ UNCHANGED <<session, stored, held, max>>

\* listener.New, lst.Store, capacity.Load, SetMaxRunners: the loop may run
\* between any two of them; New may fail.  listener.Run begins with the desired
\* count of the session's first statistics, before any poll.
MakeListener ==
  /\ \/ lst = "make" /\ lst' = "store" /\ max' = capacity
        /\ UNCHANGED <<stored, held>>
     \/ lst = "make" /\ "session" \in Failures /\ lst' = "closing"
        /\ UNCHANGED <<stored, held, max>>
     \/ lst = "store" /\ lst' = "load" /\ stored' = TRUE
        /\ UNCHANGED <<held, max>>
     \/ lst = "load" /\ lst' = "set" /\ held' = capacity
        /\ UNCHANGED <<stored, max>>
     \/ lst = "set" /\ lst' = "asking" /\ max' = held
        /\ UNCHANGED <<stored, held>>
  /\ ListenerUnch /\ UNCHANGED <<inbox, session>>

\* A job callback; HandleJobStarted and HandleJobCompleted only send.
JobCallback ==
  /\ \/ lst = "serving" /\ lst' = "tellJob" /\ UNCHANGED inbox
     \/ /\ lst = "tellJob" /\ lst' = "serving"
        /\ Send([kind |-> "job", from |-> "listener"])
  /\ ListenerUnch /\ UNCHANGED <<session, stored, held, max>>

\* HandleDesiredRunnerCount: the send and the wait for the reply, which comes
\* once the loop has taken the count and is done with it.
DesiredCallback ==
  /\ \/ lst = "serving" /\ lst' = "asking" /\ UNCHANGED inbox
     \/ /\ lst = "asking" /\ lst' = "awaiting"
        /\ Len(inbox) < InboxSize
        /\ inbox' = Append(inbox, [kind |-> "desired", from |-> "listener"])
     \/ /\ lst = "awaiting" /\ lst' = "serving"
        /\ ~setting /\ \A i \in DOMAIN inbox : inbox[i].kind # "desired"
        /\ UNCHANGED inbox
     \/ lst \in {"asking", "awaiting"} /\ (done \/ stopping)
        /\ lst' = "closing" /\ UNCHANGED inbox
  /\ ListenerUnch /\ UNCHANGED <<session, stored, held, max>>

\* listener.Run returns, on an error or on the cancelled context.
ListenerEnds ==
  /\ lst = "serving"
  /\ "session" \in Failures \/ stopping
  /\ lst' = "closing"
  /\ ListenerUnch /\ UNCHANGED <<inbox, session, stored, held, max>>

\* The deferred calls of serveListener; the close has a deadline of its own.
CloseSession ==
  /\ lst = "closing"
  /\ stored' = FALSE /\ session' = FALSE
  /\ lst' = IF stopping THEN "ended" ELSE "backoff"
  /\ ListenerUnch /\ UNCHANGED <<inbox, held, max>>

ListenerRetries ==
  /\ lst = "backoff"
  /\ lst' = IF stopping THEN "ended" ELSE "opening"
  /\ ListenerUnch /\ UNCHANGED <<inbox, session, stored, held, max>>

---------------------------------------------------------------------------
(***************************************************************************)
(* A spawned goroutine works, and reports.                                 *)
(***************************************************************************)
JobStep(j) ==
  /\ \/ job[j] = "busy" /\ job' = [job EXCEPT ![j] = "tell"] /\ UNCHANGED inbox
     \/ /\ job[j] = "tell"
        /\ Send([kind |-> "job", from |-> j])
        /\ job' = [job EXCEPT ![j] = "idle"]
  /\ UNCHANGED <<runVars, waiting, machVars, agent, said, connVars, lst, session,
                 capVars>>

RunStep ==
  \/ CheckAuth \/ PreflightsOver \/ Setup \/ EnterLoop \/ LeaveLoop
  \/ WaitAll \/ CloseAgents \/ LoopTakes \/ LoopSetsMax

AgentStep(m) ==
  \/ AgentConnects(m) \/ AgentConnectFails(m) \/ AgentPulls(m)
  \/ AgentPullFails(m) \/ AgentFatal(m) \/ AgentObserves(m)
  \/ AgentRoundFails(m) \/ AgentStreamEnds(m) \/ AgentEvent(m)
  \/ AgentTells(m) \/ AgentRetries(m) \/ AgentStops(m)

ListenerStep ==
  \/ NewSession \/ TellSession \/ MakeListener \/ JobCallback
  \/ DesiredCallback \/ ListenerEnds \/ CloseSession \/ ListenerRetries

Returned == stage = "returned" /\ UNCHANGED vars

Next ==
  \/ RunStep \/ LoopTicks \/ Stop \/ ListenerStep \/ Returned
  \/ \E m \in Machines : AgentStep(m)
  \/ \E j \in Jobs : JobStep(j)

Spec == Init /\ [][Next]_vars

(***************************************************************************)
(* Every call has a deadline, so each goroutine goes on.  What a step      *)
(* waits for may come and go, and is then waited for strongly: room in the *)
(* inbox (blocked senders are served in order), and one ready case of a    *)
(* select (the choice among them is uniform).  Nothing makes the loop tick *)
(* or the process stop.                                                    *)
(***************************************************************************)
Fairness ==
  /\ WF_vars(RunStep) /\ SF_vars(LeaveLoop)
  /\ \A m \in Machines : /\ WF_vars(AgentStep(m))
                         /\ SF_vars(AgentTells(m)) /\ SF_vars(AgentStops(m))
  /\ WF_vars(ListenerStep)
  /\ SF_vars(TellSession) /\ SF_vars(JobCallback) /\ SF_vars(DesiredCallback)
  /\ \A j \in Jobs : SF_vars(JobStep(j))

FairSpec == Spec /\ Fairness

---------------------------------------------------------------------------
\* A stop, whenever it comes, is followed by the return of Run: no goroutine
\* waits for ever for room in an inbox nobody reads (Controller.send, done).
ShutdownCompletes == stopping ~> stage = "returned"

\* The first rounds end the wait of awaitInitialSync: each of them says
\* something, whatever fails in it, so the sessions do get opened.
SyncEnds == stage = "sync" ~> stage # "sync"

\* What Run returns to is a clean process: no connection to a machine, no
\* message session, no goroutine of an agent or a command, whichever way it
\* left (Run's deferred closeAgents, replaceConn, Preflight's early returns).
NothingLeftBehind ==
  stage = "returned" =>
    /\ \A m \in Machines : open[m] = 0
    /\ ~session /\ lst \in {"none", "ended"}
    /\ \A j \in Jobs : job[j] = "idle"
    /\ done => \A m \in Machines : agent[m] = "ended"

\* No session is opened before every machine that preflight reached has been
\* heard of: the die of a unit the first desired count creates finds its
\* stream open (awaitInitialSync).
SessionAfterSync == lst # "none" => reached \subseteq heard

\* Whatever the listener and the loop did to each other while the listener was
\* being made, a poll never advertises an old capacity: the count that comes
\* before the first poll sets it again (serveListener, setCapacity).
PolledIsCurrent == lst = "serving" /\ ~setting => max = capacity

\* A connection is the agent's current one, or the one it is pulling over.
ConnectionsOwned ==
  \A m \in Machines :
    open[m] = (IF m \in current THEN 1 ELSE 0)
            + (IF agent[m] = "prepull" THEN 1 ELSE 0)

\* Where an agent may be at each stage of Run.
AgentInStage ==
  \A m \in Machines :
    /\ stage = "auth" => agent[m] = "connect"
    /\ stage = "preflight" =>
         agent[m] \in {"connect", "prepull", "ready", "unreached", "fatal"}
    /\ stage = "setup" => agent[m] \in {"ready", "unreached"}
    /\ InRun => agent[m] \notin {"ready", "unreached", "fatal"}
    /\ stage \in {"close", "returned"} =>
         agent[m] \in {"connect", "ready", "unreached", "fatal", "ended"}

\* The loop, its goroutines and the listener live between sync and close.
LoopInStage ==
  /\ done => stage \in {"drain", "close", "returned"}
  /\ done /\ stage # "drain" => \A m \in Machines : agent[m] = "ended"
  /\ stage \in {"auth", "preflight", "setup", "close", "returned"} =>
       /\ lst \in {"none", "ended"}
       /\ \A j \in Jobs : job[j] = "idle"
  /\ stage \in {"auth", "preflight", "setup", "sync"} => lst = "none"
  /\ stage = "sync" => reached \subseteq waiting \cup heard
  /\ stage = "returned" => current = {}
  /\ session => lst \notin {"none", "opening", "backoff", "ended"}

\* Once it is stored the listener is told of every capacity, and the reply to
\* a desired count comes after that count's capacity was told.
MaxFollows ==
  /\ lst \in {"load", "set", "asking", "awaiting", "serving", "tellJob"}
       => stored
  /\ ~setting /\ (\/ lst \in {"serving", "tellJob"}
                  \/ /\ lst = "awaiting"
                     /\ \A i \in DOMAIN inbox : inbox[i].kind # "desired")
       => max = capacity

\* The inductive invariant behind the three properties above.
LifecycleInvariant ==
  /\ TypeOK
  /\ ConnectionsOwned /\ AgentInStage /\ LoopInStage /\ MaxFollows
  /\ SessionAfterSync
=============================================================================
