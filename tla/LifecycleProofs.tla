--------------------------- MODULE LifecycleProofs ---------------------------
(***************************************************************************)
(* Proofs about Lifecycle, for every number of machines, of spawned        *)
(* goroutines and of places in the inbox, and whatever may fail.           *)
(* LifecycleInvariant is inductive: connections have owners, everyone is   *)
(* where the stage of Run allows, and what the listener advertises is      *)
(* behind the capacity only while somebody is about to tell it.  The       *)
(* Boolean variables (Flags) are typed apart from the rest (Sound).        *)
(***************************************************************************)
EXTENDS Lifecycle, TLAPS

Flags ==
  /\ stopping \in BOOLEAN /\ done \in BOOLEAN /\ session \in BOOLEAN
  /\ setting \in BOOLEAN /\ stored \in BOOLEAN

Sorted ==
  /\ stage \in {"auth", "preflight", "setup", "sync", "loop", "drain",
                "close", "returned"}
  /\ inbox \in Seq(Messages) /\ Len(inbox) <= InboxSize
  /\ waiting \subseteq Machines /\ reached \subseteq Machines
  /\ heard \subseteq Machines
  /\ said \subseteq Machines /\ pulled \subseteq Machines
  /\ lst \in ListenerPlaces
  /\ job \in [Jobs -> {"idle", "busy", "tell"}]
  /\ capacity \in 0..MaxCapacity /\ held \in 0..MaxCapacity
  /\ max \in 0..MaxCapacity

\* The agents and their connections.
AgentsSound ==
  /\ agent \in [Machines -> AgentPlaces]
  /\ current \subseteq Machines
  /\ open \in [Machines -> 0..2]
  /\ ConnectionsOwned /\ AgentInStage

\* The loop and the listener.
LoopSound == LoopInStage /\ MaxFollows /\ SessionAfterSync

LEMMA Parts ==
  LifecycleInvariant <=> Flags /\ Sorted /\ AgentsSound /\ LoopSound
BY DEF LifecycleInvariant, TypeOK, Flags, Sorted, AgentsSound, LoopSound

NoDesired(box) == \A i \in DOMAIN box : box[i].kind # "desired"

---------------------------------------------------------------------------
(***************************************************************************)
(* The inbox.                                                              *)
(***************************************************************************)
LEMMA AppendKeeps ==
  ASSUME inbox \in Seq(Messages), Len(inbox) < InboxSize,
         NEW msg \in Messages, inbox' = Append(inbox, msg)
  PROVE  /\ inbox' \in Seq(Messages) /\ Len(inbox') <= InboxSize
         /\ NoDesired(inbox') => NoDesired(inbox)
         /\ NoDesired(inbox') => msg.kind # "desired"
<1>1. inbox' \in Seq(Messages) /\ Len(inbox') = Len(inbox) + 1
  OBVIOUS
<1>2. /\ \A i \in DOMAIN inbox : i \in DOMAIN inbox' /\ inbox'[i] = inbox[i]
      /\ Len(inbox') \in DOMAIN inbox' /\ inbox'[Len(inbox')] = msg
  OBVIOUS
<1>3. Len(inbox') <= InboxSize
  BY <1>1, LifecycleAssumption
<1> QED  BY <1>1, <1>2, <1>3 DEF NoDesired

\* A message that is handed over, or given up with the loop, is no desired
\* count taken out of the inbox.
LEMMA SendKeeps ==
  ASSUME Sorted, NEW msg \in Messages, Send(msg)
  PROVE  /\ inbox' \in Seq(Messages) /\ Len(inbox') <= InboxSize
         /\ NoDesired(inbox') => NoDesired(inbox)
<1>1. CASE Len(inbox) < InboxSize /\ inbox' = Append(inbox, msg)
  BY <1>1, AppendKeeps DEF Sorted
<1>2. CASE UNCHANGED inbox
  BY <1>2 DEF Sorted
<1> QED  BY <1>1, <1>2 DEF Send

LEMMA TakeKeeps ==
  ASSUME inbox \in Seq(Messages), Len(inbox) <= InboxSize, inbox # <<>>,
         inbox' = Tail(inbox)
  PROVE  /\ inbox' \in Seq(Messages) /\ Len(inbox') <= InboxSize
         /\ Head(inbox) \in Messages
         /\ NoDesired(inbox') /\ Head(inbox).kind # "desired"
              => NoDesired(inbox)
<1>1. /\ inbox' \in Seq(Messages) /\ Len(inbox') = Len(inbox) - 1
      /\ Head(inbox) \in Messages /\ Head(inbox) = inbox[1]
  OBVIOUS
<1>2. \A i \in DOMAIN inbox :
        i = 1 \/ (i - 1 \in DOMAIN inbox' /\ inbox'[i - 1] = inbox[i])
  OBVIOUS
<1>3. Len(inbox') <= InboxSize
  BY <1>1, LifecycleAssumption
<1> QED  BY <1>1, <1>2, <1>3 DEF NoDesired

---------------------------------------------------------------------------
(***************************************************************************)
(* The agents.  All a step of one does to the rest is to send a notice or  *)
(* an event, and it takes none unless Run waits for the agents.            *)
(***************************************************************************)
LEMMA AgentTouches ==
  ASSUME Sorted, AgentsSound, NEW m \in Machines, AgentStep(m)
  PROVE  /\ AgentUnch
         /\ stage \in {"preflight", "sync", "loop", "drain"}
         /\ agent[m] # "ended"
         /\ said' \subseteq Machines /\ pulled' \subseteq Machines
         /\ inbox' \in Seq(Messages) /\ Len(inbox') <= InboxSize
         /\ NoDesired(inbox') => NoDesired(inbox)
<1> USE DEF connVars
<1>1. CASE AgentTells(m)
  <2>1. /\ [kind |-> "notice", from |-> m] \in Messages
        /\ [kind |-> "event", from |-> m] \in Messages
    BY DEF Messages
  <2>2. /\ inbox' \in Seq(Messages) /\ Len(inbox') <= InboxSize
        /\ NoDesired(inbox') => NoDesired(inbox)
    BY <1>1, <2>1, SendKeeps DEF AgentTells
  <2>3. /\ agent[m] \in {"tellSync", "tellHealth", "tellFailed", "tellEvent"}
        /\ said' = said \cup {m} /\ pulled' = pulled /\ AgentUnch
    BY <1>1 DEF AgentTells
  <2> QED  BY <2>2, <2>3 DEF Sorted, AgentsSound, AgentInStage
<1>2. CASE AgentRetries(m)
  BY <1>2 DEF AgentRetries, Sorted, AgentsSound, AgentInStage
<1>3. ASSUME AgentStep(m), ~AgentTells(m), ~AgentRetries(m)
      PROVE  /\ AgentUnch /\ (InPreflight \/ InRun) /\ UNCHANGED inbox
             /\ agent[m] # "ended"
             /\ said' \in {said, said \cup {m}}
             /\ pulled' \in {pulled, pulled \cup {m}}
  BY <1>3
  DEF AgentStep, AgentConnects, AgentConnectFails, AgentPulls, AgentPullFails,
      AgentFatal, AgentObserves, AgentRoundFails, AgentStreamEnds, AgentEvent,
      AgentStops, AfterFailure, Active
<1> QED  BY <1>1, <1>2, <1>3 DEF Sorted, InPreflight, InRun

LEMMA AgentKeepsRest ==
  ASSUME Flags, Sorted, AgentsSound, LoopSound, NEW m \in Machines, AgentStep(m)
  PROVE  Flags' /\ Sorted' /\ LoopSound'
<1>1. PICK p \in AgentPlaces \cup {agent[m]} : agent' = [agent EXCEPT ![m] = p]
  BY DEF AgentStep, AgentConnects, AgentConnectFails, AgentPulls, AgentTells,
         AgentPullFails, AgentFatal, AgentObserves, AgentRoundFails, AgentEvent,
         AgentStreamEnds, AgentStops, AgentRetries, AfterFailure, Goes,
         AgentPlaces
<1>2. AgentUnch
  BY AgentTouches
<1>3. Flags'
  BY <1>2 DEF Flags, AgentUnch, runVars, capVars
<1>4. Sorted'
  BY <1>2, AgentTouches
  DEF Sorted, AgentUnch, runVars, machVars, capVars
<1>5. LoopInStage'
  <2>1. ~(done /\ stage # "drain")
    BY AgentTouches DEF LoopSound, LoopInStage
  <2> QED
    BY <1>2, <2>1, AgentTouches
    DEF LoopSound, LoopInStage, AgentUnch, runVars, machVars, capVars
<1>6. MaxFollows' /\ SessionAfterSync'
  BY <1>2, AgentTouches
  DEF LoopSound, MaxFollows, SessionAfterSync, AgentUnch, NoDesired, runVars,
      machVars, capVars
<1> QED  BY <1>3, <1>4, <1>5, <1>6 DEF LoopSound

\* What has to be shown of the agent that moves: its place fits the stage, and
\* its connections have their owners.
Fits(m) ==
  /\ agent'[m] \in AgentPlaces
  /\ open'[m] = (IF m \in current' THEN 1 ELSE 0)
              + (IF agent'[m] = "prepull" THEN 1 ELSE 0)
  /\ InPreflight => agent'[m] \in {"connect", "prepull", "ready", "unreached",
                                   "fatal"}
  /\ InRun => agent'[m] \notin {"ready", "unreached", "fatal"}

Alone(m) ==
  /\ \A k \in Machines \ {m} :
       agent'[k] = agent[k] /\ open'[k] = open[k]
       /\ (k \in current' <=> k \in current)
  /\ DOMAIN agent' = Machines /\ DOMAIN open' = Machines
  /\ agent' = [k \in Machines |-> agent'[k]]
  /\ open' = [k \in Machines |-> open'[k]]
  /\ current' \subseteq Machines

LEMMA OneAgentMoves ==
  ASSUME AgentsSound, NEW m \in Machines, UNCHANGED runVars,
         stage \in {"preflight", "sync", "loop", "drain"},
         Fits(m), Alone(m)
  PROVE  AgentsSound'
<1>1. \A k \in Machines : agent'[k] \in AgentPlaces
  BY DEF AgentsSound, Fits, Alone
<1>2. ConnectionsOwned'
  BY DEF AgentsSound, ConnectionsOwned, Fits, Alone
<1>3. \A k \in Machines : open'[k] \in 0..2
  BY <1>2 DEF ConnectionsOwned
<1>4. AgentInStage'
  BY DEF AgentsSound, AgentInStage, Fits, Alone, InPreflight, InRun, runVars
<1> QED  BY <1>1, <1>2, <1>3, <1>4 DEF AgentsSound, Alone

LEMMA MovesAlone ==
  ASSUME AgentsSound, NEW m \in Machines, NEW p,
         agent' = [agent EXCEPT ![m] = p],
         NEW n, open' = [open EXCEPT ![m] = n],
         current' \in {current, current \cup {m}, current \ {m}}
  PROVE  Alone(m) /\ agent'[m] = p /\ open'[m] = n
<1>1. agent'[m] = p /\ open'[m] = n
  BY DEF AgentsSound
<1>3. \A k \in Machines \ {m} :
        agent'[k] = agent[k] /\ open'[k] = open[k]
        /\ (k \in current' <=> k \in current)
  BY DEF AgentsSound
<1>4. /\ DOMAIN agent' = Machines /\ DOMAIN open' = Machines
      /\ agent' = [k \in Machines |-> agent'[k]]
      /\ open' = [k \in Machines |-> open'[k]]
      /\ current' \subseteq Machines
  BY DEF AgentsSound
<1> QED  BY <1>1, <1>3, <1>4 DEF Alone

LEMMA MovesOnly ==
  ASSUME AgentsSound, NEW m \in Machines, NEW p,
         agent' = [agent EXCEPT ![m] = p], UNCHANGED <<open, current>>
  PROVE  Alone(m) /\ agent'[m] = p /\ open'[m] = open[m]
<1>1. open' = [open EXCEPT ![m] = open[m]]
  BY DEF AgentsSound
<1> QED  BY <1>1, MovesAlone

LEMMA AgentFits ==
  ASSUME Sorted, AgentsSound, NEW m \in Machines, AgentStep(m)
  PROVE  Fits(m) /\ Alone(m)
<1> DEFINE here == IF m \in current THEN 1 ELSE 0
<1>1. /\ open[m] \in 0..2 /\ here \in 0..1
      /\ agent[m] # "prepull" => open[m] = here
      /\ agent[m] = "prepull" => open[m] = here + 1
  BY DEF AgentsSound, ConnectionsOwned
<1>2. ~(InPreflight /\ InRun)
  BY DEF InPreflight, InRun
<1>3. /\ InPreflight => agent[m] \in {"connect", "prepull", "ready",
                                      "unreached", "fatal"}
      /\ InRun => agent[m] \notin {"ready", "unreached", "fatal"}
  BY DEF AgentsSound, AgentInStage, InPreflight
\* A machine that has dropped its connection has none.
<1>4. ASSUME Dropped(m), agent[m] # "prepull",
             NEW p \in AgentPlaces \ {"prepull"},
             agent' = [agent EXCEPT ![m] = p]
      PROVE  Alone(m) /\ agent'[m] = p /\ open'[m] = 0 /\ m \notin current'
  <2>1. current' = current \ {m}
    BY <1>4 DEF Dropped
  <2>2. open' = [open EXCEPT ![m] = 0]
    <3>1. CASE m \in current
      BY <1>1, <1>4, <3>1 DEF Dropped, AgentsSound
    <3>2. CASE m \notin current
      BY <1>1, <1>4, <3>2 DEF Dropped, AgentsSound
    <3> QED  BY <3>1, <3>2
  <2> QED  BY <1>4, <2>1, <2>2, MovesAlone
\* Where a failed round goes to.
<1>5. ASSUME NEW served \in BOOLEAN, AfterFailure(m, served), Active
      PROVE  \E p \in {"unreached", "tellHealth", "backoff"} :
               /\ agent' = [agent EXCEPT ![m] = p]
               /\ InPreflight <=> p = "unreached"
  BY <1>5 DEF AfterFailure, Goes
<1>6. CASE AgentConnects(m)
  <2>1. Active /\ agent[m] = "connect"
    BY <1>6 DEF AgentConnects
  <2>2. CASE m \in pulled /\ InRun
    <3>1. /\ agent' = [agent EXCEPT ![m] = "opening"]
          /\ current' = current \cup {m}
      BY <1>6, <2>2 DEF AgentConnects, Replaced, Goes
    <3>2. open' = [open EXCEPT ![m] = 1]
      <4>1. CASE m \in current
        BY <1>1, <1>6, <2>1, <2>2, <4>1 DEF AgentConnects, Replaced
      <4>2. CASE m \notin current
        BY <1>1, <1>6, <2>1, <2>2, <4>2 DEF AgentConnects, Replaced
      <4> QED  BY <4>1, <4>2
    <3>3. Alone(m) /\ agent'[m] = "opening" /\ open'[m] = 1
      BY <3>1, <3>2, MovesAlone
    <3> QED  BY <1>2, <2>2, <3>1, <3>3 DEF Fits, AgentPlaces
  <2>3. CASE ~(m \in pulled /\ InRun)
    <3>1. /\ agent' = [agent EXCEPT ![m] = "prepull"]
          /\ open' = [open EXCEPT ![m] = open[m] + 1]
          /\ current' = current
      BY <1>6, <2>3 DEF AgentConnects, Goes
    <3>2. Alone(m) /\ agent'[m] = "prepull" /\ open'[m] = open[m] + 1
      BY <3>1, MovesAlone
    <3> QED  BY <1>1, <2>1, <3>1, <3>2 DEF Fits, AgentPlaces
  <2> QED  BY <2>2, <2>3
<1>7. CASE AgentConnectFails(m)
  <2>1. Active /\ agent[m] = "connect" /\ AfterFailure(m, FALSE)
    BY <1>7 DEF AgentConnectFails
  <2>2. PICK p \in {"unreached", "tellHealth", "backoff"} :
          /\ agent' = [agent EXCEPT ![m] = p]
          /\ InPreflight <=> p = "unreached"
    BY <1>5, <2>1
  <2>3. CASE InRun
    <3>1. Alone(m) /\ agent'[m] = p /\ open'[m] = 0 /\ m \notin current'
      BY <1>4, <1>7, <2>1, <2>2, <2>3 DEF AgentConnectFails, AgentPlaces
    <3> QED  BY <1>2, <2>2, <2>3, <3>1 DEF Fits, AgentPlaces
  <2>4. CASE ~InRun
    <3>1. UNCHANGED <<open, current>>
      BY <1>7, <2>4 DEF AgentConnectFails
    <3>2. Alone(m) /\ agent'[m] = p /\ open'[m] = open[m]
      BY <2>2, <3>1, MovesOnly
    <3> QED  BY <1>1, <2>1, <2>2, <2>4, <3>1, <3>2 DEF Fits, AgentPlaces, Active
  <2> QED  BY <2>3, <2>4
<1>8. CASE AgentPulls(m)
  <2>1. PICK p \in {"ready", "opening"} :
          /\ agent' = [agent EXCEPT ![m] = p]
          /\ InPreflight <=> p = "ready"
    BY <1>8 DEF AgentPulls, Goes
  <2>2. open' = [open EXCEPT ![m] = 1] /\ current' = current \cup {m}
    <3>1. open[m] = here + 1 /\ Replaced(m, open[m])
      BY <1>1, <1>8 DEF AgentPulls
    <3>2. CASE m \in current
      <4>1. open[m] - 1 = 1
        BY <3>1, <3>2
      <4> QED  BY <3>1, <3>2, <4>1 DEF Replaced
    <3>3. CASE m \notin current
      <4>1. open[m] = 1
        BY <3>1, <3>3
      <4> QED  BY <3>1, <3>3, <4>1 DEF Replaced
    <3> QED  BY <3>2, <3>3
  <2>3. Alone(m) /\ agent'[m] = p /\ open'[m] = 1
    BY <2>1, <2>2, MovesAlone
  <2> QED  BY <1>2, <2>1, <2>2, <2>3 DEF Fits, AgentPlaces
<1>9. CASE AgentPullFails(m)
  <2>1. Active /\ agent[m] = "prepull" /\ AfterFailure(m, FALSE)
    BY <1>9 DEF AgentPullFails
  <2>2. PICK p \in {"unreached", "tellHealth", "backoff"} :
          /\ agent' = [agent EXCEPT ![m] = p]
          /\ InPreflight <=> p = "unreached"
    BY <1>5, <2>1
  <2>3. open' = [open EXCEPT ![m] = open[m] - 1] /\ current' = current
    BY <1>9 DEF AgentPullFails, PullLost
  <2>4. Alone(m) /\ agent'[m] = p /\ open'[m] = open[m] - 1
    BY <2>2, <2>3, MovesAlone
  <2> QED
    BY <1>1, <1>2, <2>1, <2>2, <2>3, <2>4 DEF Fits, AgentPlaces, Active
<1>10. CASE AgentFatal(m)
  <2>1. agent[m] # "prepull" /\ (InPreflight \/ InRun)
    BY <1>10 DEF AgentFatal, Active
  <2>2. CASE InRun
    <3>1. agent' = [agent EXCEPT ![m] = "tellFailed"] /\ Dropped(m)
      BY <1>2, <1>10, <2>2 DEF AgentFatal, Goes
    <3>2. /\ Alone(m) /\ agent'[m] = "tellFailed" /\ open'[m] = 0
          /\ m \notin current'
      BY <1>4, <2>1, <3>1 DEF AgentPlaces
    <3> QED  BY <1>2, <2>2, <3>2 DEF Fits, AgentPlaces
  <2>3. CASE ~InRun
    <3>1. /\ agent' = [agent EXCEPT ![m] = "fatal"]
          /\ UNCHANGED <<open, current>>
      BY <1>10, <2>1, <2>3 DEF AgentFatal, Goes
    <3>2. Alone(m) /\ agent'[m] = "fatal" /\ open'[m] = open[m]
      BY <3>1, MovesOnly
    <3> QED  BY <1>1, <2>1, <2>3, <3>1, <3>2 DEF Fits, AgentPlaces
  <2> QED  BY <2>2, <2>3
<1>11. ASSUME AgentRoundFails(m) \/ AgentStreamEnds(m)
       PROVE  Fits(m) /\ Alone(m)
  <2>1. /\ InRun /\ agent[m] # "prepull"
        /\ \E served \in BOOLEAN : AfterFailure(m, served)
    BY <1>11 DEF AgentRoundFails, AgentStreamEnds
  <2>2. PICK p \in {"unreached", "tellHealth", "backoff"} :
          /\ agent' = [agent EXCEPT ![m] = p]
          /\ InPreflight <=> p = "unreached"
    BY <1>5, <2>1 DEF Active
  <2>3. CASE Dropped(m)
    <3>1. Alone(m) /\ agent'[m] = p /\ open'[m] = 0 /\ m \notin current'
      BY <1>4, <2>1, <2>2, <2>3 DEF AgentPlaces
    <3> QED  BY <1>2, <2>1, <2>2, <3>1 DEF Fits, AgentPlaces
  <2>4. CASE UNCHANGED <<open, current>>
    <3>1. Alone(m) /\ agent'[m] = p /\ open'[m] = open[m]
      BY <2>2, <2>4, MovesOnly
    <3> QED  BY <1>1, <1>2, <2>1, <2>2, <2>4, <3>1 DEF Fits, AgentPlaces
  <2> QED  BY <1>11, <2>3, <2>4 DEF AgentRoundFails, AgentStreamEnds
<1>12. CASE AgentStops(m)
  <2>1. agent' = [agent EXCEPT ![m] = "ended"] /\ current' = current /\ InRun
    BY <1>12 DEF AgentStops, Goes
  <2>2. CASE agent[m] = "prepull"
    <3>1. open' = [open EXCEPT ![m] = open[m] - 1]
      BY <1>12, <2>2 DEF AgentStops, PullLost
    <3>2. Alone(m) /\ agent'[m] = "ended" /\ open'[m] = open[m] - 1
      BY <2>1, <3>1, MovesAlone
    <3> QED  BY <1>1, <1>2, <2>1, <2>2, <3>2 DEF Fits, AgentPlaces
  <2>3. CASE agent[m] # "prepull"
    <3>1. Alone(m) /\ agent'[m] = "ended" /\ open'[m] = open[m]
      BY <1>12, <2>1, <2>3, MovesOnly DEF AgentStops
    <3> QED  BY <1>1, <1>2, <2>1, <2>3, <3>1 DEF Fits, AgentPlaces
  <2> QED  BY <2>2, <2>3
<1>13. ASSUME \/ AgentObserves(m) \/ AgentEvent(m) \/ AgentTells(m)
              \/ AgentRetries(m)
       PROVE  Fits(m) /\ Alone(m)
  <2>1. PICK p \in {"tellSync", "tellEvent", "stream", "backoff", "ended",
                    "opening", "connect"} :
          agent' = [agent EXCEPT ![m] = p]
    BY <1>13 DEF AgentObserves, AgentEvent, AgentTells, AgentRetries, Goes
  <2>2. /\ UNCHANGED <<open, current>> /\ agent[m] # "prepull"
        /\ ~InPreflight
    BY <1>13, <1>2, <1>3
    DEF AgentObserves, AgentEvent, AgentTells, AgentRetries, connVars
  <2>3. Alone(m) /\ agent'[m] = p /\ open'[m] = open[m]
    BY <2>1, <2>2, MovesOnly
  <2> QED  BY <1>1, <2>1, <2>2, <2>3 DEF Fits, AgentPlaces
<1> QED
  BY <1>6, <1>7, <1>8, <1>9, <1>10, <1>11, <1>12, <1>13 DEF AgentStep

---------------------------------------------------------------------------
(***************************************************************************)
(* Run and the loop.                                                       *)
(***************************************************************************)
\* A stage is left when those who may not be in the next have ended.
LEMMA StageSound ==
  ASSUME Flags, Sorted, AgentsSound, LoopSound,
         CheckAuth \/ PreflightsOver \/ EnterLoop \/ LeaveLoop \/ WaitAll
  PROVE  Flags' /\ Sorted' /\ AgentsSound' /\ LoopSound'
<1>1. /\ UNCHANGED <<stopping, inbox, heard, said, connVars, session, job,
                     setting, stored, held, max, waiting, agent, capacity>>
      /\ done' \in {done, TRUE} /\ lst' \in {lst, "opening"}
      /\ reached' \in {reached, {m \in Machines : agent[m] = "ready"}}
      /\ stage' \in {"preflight", "setup", "loop", "drain", "close"}
  BY DEF CheckAuth, PreflightsOver, EnterLoop, LeaveLoop, WaitAll, StageIs
<1>2. Flags'
  BY <1>1 DEF Flags
<1>3. Sorted'
  BY <1>1 DEF Sorted, ListenerPlaces, connVars
<1>4. AgentInStage'
  BY <1>1
  DEF CheckAuth, PreflightsOver, EnterLoop, LeaveLoop, WaitAll, StageIs,
      AgentsSound, AgentInStage, InRun, InSelect, AllEnded
<1>5. AgentsSound'
  BY <1>1, <1>4 DEF AgentsSound, ConnectionsOwned, connVars
<1>6. LoopInStage'
  BY <1>1
  DEF CheckAuth, PreflightsOver, EnterLoop, LeaveLoop, WaitAll, StageIs,
      LoopSound, LoopInStage, InSelect, AllEnded
<1>7. MaxFollows'
  BY <1>1
  DEF CheckAuth, PreflightsOver, EnterLoop, LeaveLoop, WaitAll, StageIs,
      LoopSound, MaxFollows
<1>8. SessionAfterSync'
  BY <1>1
  DEF CheckAuth, PreflightsOver, EnterLoop, LeaveLoop, WaitAll, StageIs,
      SyncOver, LoopSound, LoopInStage, SessionAfterSync
<1> QED  BY <1>2, <1>3, <1>5, <1>6, <1>7, <1>8 DEF LoopSound

LEMMA SetupSound ==
  ASSUME Flags, Sorted, AgentsSound, LoopSound, Setup
  PROVE  Flags' /\ Sorted' /\ AgentsSound' /\ LoopSound'
<1>1. /\ UNCHANGED <<stopping, inbox, heard, said, connVars, session, job,
                     setting, stored, held, max, done, reached, lst>>
      /\ waiting' \in {waiting, reached} /\ stage' \in {"sync", "close"}
      /\ capacity' \in 0..MaxCapacity \/ capacity' = capacity
      /\ stage = "setup"
  BY DEF Setup, StageIs
<1>2. Flags'
  BY <1>1 DEF Flags
<1>3. Sorted'
  BY <1>1 DEF Sorted, connVars
<1>4. /\ agent' \in [Machines -> AgentPlaces]
      /\ \A m \in Machines : agent[m] # "prepull" /\ agent'[m] # "prepull"
      /\ AgentInStage'
  BY DEF Setup, StageIs, AgentsSound, AgentInStage, AgentPlaces, InRun
<1>5. AgentsSound'
  BY <1>1, <1>4 DEF AgentsSound, ConnectionsOwned, connVars
<1>6. LoopInStage'
  BY <1>1 DEF Setup, StageIs, LoopSound, LoopInStage, connVars
<1>7. MaxFollows' /\ SessionAfterSync'
  BY <1>1 DEF LoopSound, LoopInStage, MaxFollows, SessionAfterSync
<1> QED  BY <1>2, <1>3, <1>5, <1>6, <1>7 DEF LoopSound

LEMMA CloseSound ==
  ASSUME Flags, Sorted, AgentsSound, LoopSound, CloseAgents
  PROVE  Flags' /\ Sorted' /\ AgentsSound' /\ LoopSound'
<1>1. /\ UNCHANGED <<stopping, done, inbox, waiting, machVars, agent, said,
                     pulled, lst, session, job, capVars>>
      /\ stage = "close" /\ stage' = "returned" /\ current' = {}
      /\ open' = [m \in Machines |->
                    IF m \in current THEN open[m] - 1 ELSE open[m]]
  BY DEF CloseAgents
<1>2. \A m \in Machines : agent[m] # "prepull"
  BY <1>1 DEF AgentsSound, AgentInStage
<1>3. \A m \in Machines : open[m] = IF m \in current THEN 1 ELSE 0
  BY <1>2 DEF AgentsSound, ConnectionsOwned
<1>4. open' = [m \in Machines |-> 0]
  <2>1. \A m \in Machines :
          (IF m \in current THEN open[m] - 1 ELSE open[m]) = 0
    BY <1>3
  <2> QED  BY <1>1, <2>1
<1>5. Flags' /\ Sorted'
  BY <1>1 DEF Flags, Sorted, machVars, capVars
<1>6. AgentsSound'
  BY <1>1, <1>2, <1>4
  DEF AgentsSound, ConnectionsOwned, AgentInStage, InRun
<1>7. LoopInStage'
  BY <1>1 DEF LoopSound, LoopInStage, machVars, capVars
<1>8. MaxFollows' /\ SessionAfterSync'
  BY <1>1 DEF LoopSound, MaxFollows, SessionAfterSync, machVars, capVars
<1> QED  BY <1>5, <1>6, <1>7, <1>8 DEF LoopSound

LEMMA TakesSound ==
  ASSUME Flags, Sorted, AgentsSound, LoopSound, LoopTakes
  PROVE  Flags' /\ Sorted' /\ AgentsSound' /\ LoopSound'
<1> DEFINE msg == Head(inbox)
<1>1. /\ UNCHANGED <<runVars, reached, agent, lst, said, connVars, session,
                     stored, held, max>>
      /\ stage \in {"sync", "loop"} /\ ~setting
      /\ inbox # <<>> /\ inbox' = Tail(inbox)
  BY DEF LoopTakes, InSelect
<1>2. /\ inbox' \in Seq(Messages) /\ Len(inbox') <= InboxSize
      /\ msg \in Messages
      /\ NoDesired(inbox') /\ msg.kind # "desired" => NoDesired(inbox)
  BY <1>1, TakeKeeps DEF Sorted
<1>3. capacity' \in 0..MaxCapacity /\ setting' \in BOOLEAN
  <2>1. CASE msg.kind \in {"notice", "desired"}
    BY <2>1 DEF LoopTakes, Recomputed, Sorted
  <2>2. CASE msg.kind \notin {"notice", "desired"}
    BY <2>2 DEF LoopTakes, Sorted, Flags
  <2> QED  BY <2>1, <2>2
<1>4. setting' \/ (capacity' = capacity /\ msg.kind # "desired")
  BY DEF LoopTakes, Recomputed
<1>5. /\ waiting' \in {waiting, waiting \ {msg.from}}
      /\ waiting' # waiting => heard' = heard \cup {msg.from}
      /\ heard' \in {heard, heard \cup {msg.from}}
      /\ heard' # heard => msg.kind = "notice"
  BY DEF LoopTakes
<1>6. job' \in [Jobs -> {"idle", "busy", "tell"}]
  BY DEF LoopTakes, MaySpawn, Sorted
<1> HIDE DEF msg
<1>7. heard' \subseteq Machines
  BY <1>2, <1>5 DEF Messages, Sorted
<1>8. Flags' /\ Sorted'
  <2>1. Flags'
    BY <1>1, <1>3 DEF Flags, runVars
  <2>2. UNCHANGED <<stage, reached, said, pulled, lst, held, max>>
    BY <1>1 DEF runVars, connVars
  <2>3. waiting' \subseteq Machines
    BY <1>5 DEF Sorted
  <2>4. Sorted'
    BY <1>2, <1>3, <1>6, <1>7, <2>2, <2>3 DEF Sorted
  <2> QED  BY <2>1, <2>4
<1>9. AgentsSound'
  BY <1>1
  DEF AgentsSound, ConnectionsOwned, AgentInStage, InRun, runVars, connVars
<1>10. LoopInStage'
  BY <1>1, <1>5 DEF LoopSound, LoopInStage, runVars, connVars
<1>11. MaxFollows'
  BY <1>1, <1>2, <1>4 DEF LoopSound, MaxFollows, NoDesired
<1>12. SessionAfterSync'
  BY <1>1, <1>5 DEF LoopSound, SessionAfterSync
<1> QED  BY <1>8, <1>9, <1>10, <1>11, <1>12 DEF LoopSound

LEMMA TicksSound ==
  ASSUME Flags, Sorted, AgentsSound, LoopSound, LoopTicks \/ LoopSetsMax \/ Stop
  PROVE  Flags' /\ Sorted' /\ AgentsSound' /\ LoopSound'
<1> USE DEF runVars, machVars, connVars, capVars
<1>1. CASE LoopTicks
  <2>1. job' \in [Jobs -> {"idle", "busy", "tell"}]
    BY <1>1 DEF LoopTicks, Sorted
  <2>2. Flags' /\ Sorted'
    BY <1>1, <2>1 DEF LoopTicks, Flags, Sorted
  <2>3. AgentsSound'
    BY <1>1 DEF LoopTicks, AgentsSound, ConnectionsOwned, AgentInStage, InRun
  <2>4. LoopSound'
    BY <1>1
    DEF LoopTicks, LoopSound, LoopInStage, MaxFollows, SessionAfterSync
  <2> QED  BY <2>2, <2>3, <2>4
<1>2. CASE LoopSetsMax
  <2>1. Flags' /\ Sorted'
    BY <1>2 DEF LoopSetsMax, Flags, Sorted
  <2>2. AgentsSound'
    BY <1>2 DEF LoopSetsMax, AgentsSound, ConnectionsOwned, AgentInStage, InRun
  <2>3. LoopSound'
    BY <1>2
    DEF LoopSetsMax, LoopSound, LoopInStage, MaxFollows, SessionAfterSync
  <2> QED  BY <2>1, <2>2, <2>3
<1>3. CASE Stop
  <2>1. Flags' /\ Sorted'
    BY <1>3 DEF Stop, Flags, Sorted
  <2>2. AgentsSound'
    BY <1>3 DEF Stop, AgentsSound, ConnectionsOwned, AgentInStage, InRun
  <2>3. LoopSound'
    BY <1>3 DEF Stop, LoopSound, LoopInStage, MaxFollows, SessionAfterSync
  <2> QED  BY <2>1, <2>2, <2>3
<1> QED  BY <1>1, <1>2, <1>3

---------------------------------------------------------------------------
(***************************************************************************)
(* The listener and the spawned goroutines.                                *)
(***************************************************************************)
LEMMA ListenerTouches ==
  ASSUME Flags, Sorted, LoopSound, ListenerStep
  PROVE  /\ ListenerUnch
         /\ stage \in {"loop", "drain"}
         /\ inbox' \in Seq(Messages) /\ Len(inbox') <= InboxSize
         /\ NoDesired(inbox') => NoDesired(inbox)
         /\ lst' \in ListenerPlaces \ {"none"} /\ lst # "none"
         /\ held' \in 0..MaxCapacity /\ max' \in 0..MaxCapacity
<1>1. ListenerUnch /\ lst \notin {"none", "ended"} /\ lst' \in ListenerPlaces
  BY DEF ListenerStep, NewSession, TellSession, MakeListener, JobCallback,
         DesiredCallback, ListenerEnds, CloseSession, ListenerRetries,
         ListenerPlaces
<1>2. stage \in {"loop", "drain"}
  BY <1>1 DEF LoopSound, LoopInStage, Sorted
<1>3. lst' # "none"
  BY DEF ListenerStep, NewSession, TellSession, MakeListener, JobCallback,
         DesiredCallback, ListenerEnds, CloseSession, ListenerRetries
<1>4. held' \in {held, capacity} /\ max' \in {max, capacity, held}
  BY DEF ListenerStep, NewSession, TellSession, MakeListener, JobCallback,
         DesiredCallback, ListenerEnds, CloseSession, ListenerRetries
<1>5. /\ inbox' \in Seq(Messages) /\ Len(inbox') <= InboxSize
      /\ NoDesired(inbox') => NoDesired(inbox)
  <2>1. /\ [kind |-> "session", from |-> "listener"] \in Messages
        /\ [kind |-> "job", from |-> "listener"] \in Messages
        /\ [kind |-> "desired", from |-> "listener"] \in Messages
    BY DEF Messages
  <2>2. CASE UNCHANGED inbox
    BY <2>2 DEF Sorted
  <2>3. ASSUME Send([kind |-> "session", from |-> "listener"])
               \/ Send([kind |-> "job", from |-> "listener"])
        PROVE  /\ inbox' \in Seq(Messages) /\ Len(inbox') <= InboxSize
               /\ NoDesired(inbox') => NoDesired(inbox)
    BY <2>1, <2>3, SendKeeps
  <2>4. CASE /\ Len(inbox) < InboxSize
             /\ inbox' = Append(inbox, [kind |-> "desired",
                                        from |-> "listener"])
    BY <2>1, <2>4, AppendKeeps DEF Sorted
  <2> QED
    BY <2>2, <2>3, <2>4
    DEF ListenerStep, NewSession, TellSession, MakeListener, JobCallback,
        DesiredCallback, ListenerEnds, CloseSession, ListenerRetries
<1> QED  BY <1>1, <1>2, <1>3, <1>4, <1>5 DEF Sorted

\* A count that is on its way is in the inbox.
LEMMA AskedIsThere ==
  ASSUME Flags, Sorted, LoopSound, ListenerStep,
         lst' = "awaiting"
  PROVE  ~NoDesired(inbox')
<1>1. /\ Len(inbox) < InboxSize
      /\ inbox' = Append(inbox, [kind |-> "desired", from |-> "listener"])
  BY DEF ListenerStep, NewSession, TellSession, MakeListener, JobCallback,
         DesiredCallback, ListenerEnds, CloseSession, ListenerRetries
<1>2. [kind |-> "desired", from |-> "listener"] \in Messages
  BY DEF Messages
<1> QED  BY <1>1, <1>2, AppendKeeps DEF Sorted

LEMMA ListenerSound ==
  ASSUME Flags, Sorted, AgentsSound, LoopSound, ListenerStep
  PROVE  Flags' /\ Sorted' /\ AgentsSound' /\ LoopSound'
<1>1. /\ UNCHANGED <<stage, stopping, done, waiting, reached, heard, agent,
                     said, pulled, current, open, job, capacity, setting>>
      /\ stage \in {"loop", "drain"} /\ lst # "none"
  BY ListenerTouches DEF ListenerUnch, runVars, machVars, connVars
<1>2. session' \in {session, TRUE, FALSE} /\ stored' \in {stored, TRUE, FALSE}
  BY DEF ListenerStep, NewSession, TellSession, MakeListener, JobCallback,
         DesiredCallback, ListenerEnds, CloseSession, ListenerRetries
<1>3. Flags'
  BY <1>1, <1>2 DEF Flags
<1>4. Sorted'
  BY <1>1, ListenerTouches DEF Sorted
<1>5. AgentsSound'
  BY <1>1 DEF AgentsSound, ConnectionsOwned, AgentInStage, InRun
<1>6. session' => lst' \notin {"none", "opening", "backoff", "ended"}
  BY DEF LoopSound, LoopInStage, ListenerStep, NewSession, TellSession,
         MakeListener, JobCallback, DesiredCallback, ListenerEnds,
         CloseSession, ListenerRetries
<1>7. LoopInStage'
  BY <1>1, <1>6 DEF LoopSound, LoopInStage
<1>8. lst' \in {"load", "set", "asking", "awaiting", "serving", "tellJob"}
        => stored'
  BY DEF LoopSound, MaxFollows, ListenerStep, NewSession, TellSession,
         MakeListener, JobCallback, DesiredCallback, ListenerEnds,
         CloseSession, ListenerRetries
<1>9. ~setting /\ lst' \in {"serving", "tellJob"} => max' = capacity
  BY DEF LoopSound, MaxFollows, ListenerStep, NewSession, TellSession,
         MakeListener, JobCallback, DesiredCallback, ListenerEnds,
         CloseSession, ListenerRetries
<1>10. MaxFollows'
  BY <1>1, <1>8, <1>9, AskedIsThere DEF MaxFollows, NoDesired
<1>11. SessionAfterSync'
  BY <1>1 DEF LoopSound, SessionAfterSync
<1> QED  BY <1>3, <1>4, <1>5, <1>7, <1>10, <1>11 DEF LoopSound

LEMMA JobSound ==
  ASSUME Flags, Sorted, AgentsSound, LoopSound, NEW j \in Jobs, JobStep(j)
  PROVE  Flags' /\ Sorted' /\ AgentsSound' /\ LoopSound'
<1>1. /\ UNCHANGED <<stage, stopping, done, waiting, reached, heard, agent,
                     said, pulled, current, open, lst, session, capacity,
                     setting, stored, held, max>>
      /\ job[j] # "idle"
  BY DEF JobStep, runVars, machVars, connVars, capVars
<1>2. job' \in [Jobs -> {"idle", "busy", "tell"}]
  BY DEF JobStep, Sorted
<1>3. /\ inbox' \in Seq(Messages) /\ Len(inbox') <= InboxSize
      /\ NoDesired(inbox') => NoDesired(inbox)
  <2>1. [kind |-> "job", from |-> j] \in Messages
    BY DEF Messages
  <2>2. CASE UNCHANGED inbox
    BY <2>2 DEF Sorted
  <2>3. CASE Send([kind |-> "job", from |-> j])
    BY <2>1, <2>3, SendKeeps
  <2> QED  BY <2>2, <2>3 DEF JobStep
<1>4. Flags' /\ Sorted'
  BY <1>1, <1>2, <1>3 DEF Flags, Sorted
<1>5. AgentsSound'
  BY <1>1 DEF AgentsSound, ConnectionsOwned, AgentInStage, InRun
<1>6. LoopInStage'
  BY <1>1 DEF LoopSound, LoopInStage
<1>7. MaxFollows' /\ SessionAfterSync'
  BY <1>1, <1>3 DEF LoopSound, MaxFollows, SessionAfterSync, NoDesired
<1> QED  BY <1>4, <1>5, <1>6, <1>7 DEF LoopSound

---------------------------------------------------------------------------
LEMMA InitSound == Init => LifecycleInvariant
<1> SUFFICES ASSUME Init PROVE Flags /\ Sorted /\ AgentsSound /\ LoopSound
  BY Parts
<1>1. Flags
  BY DEF Init, Flags
<1>2. Sorted
  BY LifecycleAssumption DEF Init, Sorted, ListenerPlaces
<1>3. AgentsSound
  BY DEF Init, AgentsSound, ConnectionsOwned, AgentInStage, AgentPlaces, InRun
<1>4. LoopSound
  BY DEF Init, LoopSound, LoopInStage, MaxFollows, SessionAfterSync
<1> QED  BY <1>1, <1>2, <1>3, <1>4

LEMMA NextSound == LifecycleInvariant /\ [Next]_vars => LifecycleInvariant'
<1> SUFFICES ASSUME Flags, Sorted, AgentsSound, LoopSound, [Next]_vars
             PROVE  Flags' /\ Sorted' /\ AgentsSound' /\ LoopSound'
  BY Parts
  DEF LifecycleInvariant, TypeOK, Flags, Sorted, AgentsSound, LoopSound
<1>1. CASE UNCHANGED vars
  <2> USE <1>1 DEF vars, runVars, machVars, connVars, capVars
  <2>1. Flags' /\ Sorted'
    BY DEF Flags, Sorted
  <2>2. AgentsSound'
    BY DEF AgentsSound, ConnectionsOwned, AgentInStage, InRun
  <2>3. LoopSound'
    BY DEF LoopSound, LoopInStage, MaxFollows, SessionAfterSync
  <2> QED  BY <2>1, <2>2, <2>3
<1>2. ASSUME NEW m \in Machines, AgentStep(m)
      PROVE  Flags' /\ Sorted' /\ AgentsSound' /\ LoopSound'
  <2>1. AgentsSound'
    BY <1>2, AgentFits, AgentTouches, OneAgentMoves DEF AgentUnch
  <2> QED  BY <1>2, <2>1, AgentKeepsRest
<1>3. CASE RunStep \/ LoopTicks \/ Stop
  BY <1>3, StageSound, SetupSound, CloseSound, TakesSound, TicksSound
  DEF RunStep
<1> QED
  BY <1>1, <1>2, <1>3, ListenerSound, JobSound DEF Next, Returned

\* The inductive invariant holds in every reachable state.
THEOREM LifecycleIsSound == Spec => []LifecycleInvariant
BY InitSound, NextSound, PTL DEF Spec

\* Whichever way Run left, it has left nothing behind.
THEOREM RunLeavesNothing == Spec => []NothingLeftBehind
<1>1. ASSUME LifecycleInvariant, stage = "returned" PROVE NothingLeftBehind
  <2>1. /\ \A m \in Machines : open[m] = 0
        /\ done => \A m \in Machines : agent[m] = "ended"
    BY <1>1
    DEF LifecycleInvariant, ConnectionsOwned, AgentInStage, LoopInStage
  <2>2. ~session /\ lst \in {"none", "ended"} /\ \A j \in Jobs : job[j] = "idle"
    BY <1>1 DEF LifecycleInvariant, LoopInStage
  <2> QED  BY <2>1, <2>2 DEF NothingLeftBehind
<1>2. LifecycleInvariant => NothingLeftBehind
  BY <1>1 DEF NothingLeftBehind
<1> QED  BY <1>2, LifecycleIsSound, PTL

\* No session before the first snapshots, for every number of machines
\* (awaitInitialSync).
THEOREM SessionsFollowSync == Spec => []SessionAfterSync
<1>1. LifecycleInvariant => SessionAfterSync
  BY DEF LifecycleInvariant
<1> QED  BY <1>1, LifecycleIsSound, PTL

\* However often loop and listener cross, what a poll advertises is the
\* capacity (serveListener, setCapacity).
THEOREM PollsAreCurrent == Spec => []PolledIsCurrent
<1>1. LifecycleInvariant => PolledIsCurrent
  BY DEF LifecycleInvariant, MaxFollows, PolledIsCurrent
<1> QED  BY <1>1, LifecycleIsSound, PTL
=============================================================================
