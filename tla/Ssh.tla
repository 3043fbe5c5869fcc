--------------------------------- MODULE Ssh ---------------------------------
(***************************************************************************)
(* One SSH connection to a machine (executor/ssh.go): the commands that    *)
(* Run executes over it, the events stream that Stream keeps open on it,   *)
(* and the keepalive that alone may find the connection dead.  Commands    *)
(* give up after a deadline, on a link that may have gone silent, and must *)
(* neither take the stream down with them nor hand out half an output.     *)
(*                                                                         *)
(* A timer is a step that may be taken at any time; the ticks of the       *)
(* keepalive are what time is counted in.  stdout and stderr are copied    *)
(* alike, so one copier stands for both; one writer stands for what is     *)
(* written to a channel, its stdin and the request to close it.            *)
(***************************************************************************)
EXTENDS Integers, FiniteSets

CONSTANTS Cmds,    \* commands (calls of Run)
          Events,  \* the events stream
          Made,    \* bound: the sets of calls of which one is made
          MaxMiss  \* sshKeepaliveMaxMiss (3 in the code)

ASSUME SshAssumption ==
  IsFiniteSet(Cmds) /\ Events \notin Cmds
  /\ Made \subseteq SUBSET (Cmds \cup {Events}) /\ MaxMiss \in Nat \ {0}

VARIABLES
  link,     \* "up", "silent" (packets vanish; may come back) or "down"
  cause,    \* who brought it down
  keeper,   \* the goroutine of keepaliveLoop runs
  probe,    \* the probe in flight: its goroutine, then its result in res
  miss,     \* keepaliveState.miss
  quiet,    \* ticks since the link fell silent
  answered, \* ticks since a probe was answered, up to MaxMiss + 1
  at,       \* at[x]: where Run is, or for Events the goroutine of Stream
  late,     \* late[x]: the ctx of the call is done
  exit,     \* exit[x]: what waitExit has read
  out,      \* out[x]: the output as far as it came: all of it, or cut off
  live,     \* live[x]: the goroutines of the call that have not ended
  pipe,     \* the writing end of the stream's pipe
  reader    \* who reads the stream (the goroutine of cli.Events)

linkVars == <<link, cause>>
keepVars == <<keeper, probe, miss, quiet, answered>>
callVars == <<at, late, exit, out, live>>
pipeVars == <<pipe, reader>>
vars == <<linkVars, keepVars, callVars, pipeVars>>

Calls == Cmds \cup {Events}
Over == {"value", "error", "done"}

TypeOK ==
  /\ link \in {"up", "silent", "down"}
  /\ cause \in {"none", "network", "keepalive", "close", "command"}
  /\ keeper \in BOOLEAN
  /\ probe \in {"none", "out", "ok", "err"}
  /\ miss \in 0..MaxMiss
  /\ quiet \in 0..(MaxMiss + 1) /\ answered \in 0..(MaxMiss + 1)
  /\ at \in [Calls -> {"idle", "opening", "waiting", "draining", "recovering",
                       "unwinding"} \cup Over]
  /\ late \in [Calls -> BOOLEAN]
  /\ exit \in [Calls -> {"none", "status", "failed"}]
  /\ out \in [Calls -> {"open", "whole", "cut"}]
  /\ live \in [Calls -> SUBSET {"opener", "copier", "writer", "waiter",
                               "watcher"}]
  /\ pipe \in {"open", "eof", "err"}
  /\ reader \in {"none", "reading", "stalled", "gone"}

\* NewSSH has connected and started the keepalive.
Init ==
  /\ link = "up" /\ cause = "none"
  /\ keeper = TRUE /\ probe = "none" /\ miss = 0 /\ quiet = 0 /\ answered = 0
  /\ at = [x \in Calls |-> "idle"] /\ late = [x \in Calls |-> FALSE]
  /\ exit = [x \in Calls |-> "none"] /\ out = [x \in Calls |-> "open"]
  /\ live = [x \in Calls |-> {}]
  /\ pipe = "open" /\ reader = "none"

---------------------------------------------------------------------------
(***************************************************************************)
(* The link.  When it is down, the library ends all that waits on it.      *)
(***************************************************************************)
Silence ==
  /\ link = "up" /\ link' = "silent" /\ quiet' = 0
  /\ UNCHANGED <<cause, keeper, probe, miss, answered, callVars, pipeVars>>

Recover ==
  /\ link = "silent" /\ link' = "up" /\ quiet' = 0
  /\ UNCHANGED <<cause, keeper, probe, miss, answered, callVars, pipeVars>>

Down(who) ==
  /\ link' = "down" /\ quiet' = 0
  /\ cause' = IF link = "down" THEN cause ELSE who

Reset ==
  /\ link # "down" /\ Down("network")
  /\ UNCHANGED <<keeper, probe, miss, answered, callVars, pipeVars>>

\* sshExecutor.Close.
Close ==
  /\ cause # "close" /\ Down("close")
  /\ keeper' = FALSE
  /\ UNCHANGED <<probe, miss, answered, callVars, pipeVars>>

---------------------------------------------------------------------------
(***************************************************************************)
(* keepaliveLoop and keepaliveState.                                       *)
(***************************************************************************)
\* The goroutine of the probe: SendRequest returns and fills res.
ProbeReturns ==
  /\ probe = "out"
  /\ \/ link = "up" /\ probe' = "ok" /\ answered' = 0
     \/ link = "down" /\ probe' = "err" /\ UNCHANGED answered
  /\ UNCHANGED <<linkVars, keeper, miss, quiet, callVars, pipeVars>>

\* The misses after a result: an answer starts the count afresh.
Counted == IF probe = "ok" THEN 0 ELSE miss + 1

Dead == keeper' = FALSE /\ Down("keepalive")

Quieter == quiet' = IF link = "silent" THEN quiet + 1 ELSE 0

\* keepaliveState.result.
KeepaliveResult ==
  /\ keeper /\ probe \in {"ok", "err"}
  /\ probe' = "none" /\ miss' = Counted
  /\ IF miss' = MaxMiss THEN Dead ELSE UNCHANGED <<keeper, linkVars, quiet>>
  /\ UNCHANGED <<answered, callVars, pipeVars>>

\* Wrong: a tick takes a probe whose answer is in res for an unanswered one.
Unanswered_ResultLast == probe # "none"

\* Wrong: the loop waits for the probe, and a tick never finds one in flight.
Unanswered_Never == FALSE

Unanswered == probe = "out"

\* A tick: a result that is there is taken first; a probe still in flight is a
\* miss; otherwise a new one is sent.
KeepaliveTick ==
  /\ keeper
  /\ answered' = IF answered > MaxMiss THEN answered ELSE answered + 1
  /\ miss' = IF probe = "none" THEN miss
             ELSE IF Unanswered THEN miss + 1
             ELSE IF probe = "out" THEN miss ELSE Counted
  /\ IF miss' = MaxMiss
     THEN Dead /\ UNCHANGED probe
     ELSE /\ Quieter /\ UNCHANGED <<keeper, linkVars>>
          /\ probe' = IF Unanswered THEN probe ELSE "out"
  /\ UNCHANGED <<callVars, pipeVars>>

---------------------------------------------------------------------------
(***************************************************************************)
(* A call's goroutines, and what comes from the machine.                   *)
(***************************************************************************)
Unch == UNCHANGED <<linkVars, keepVars>>

\* openExec starts.
Call(x) ==
  /\ at[x] = "idle"
  /\ \E calls \in Made : {y \in Calls : at[y] # "idle"} \cup {x} \subseteq calls
  /\ at' = [at EXCEPT ![x] = "opening"]
  /\ live' = [live EXCEPT ![x] = {"opener"}]
  /\ Unch /\ UNCHANGED <<late, exit, out, pipeVars>>

\* The ctx of a call is done: its deadline, or a cancellation.
Expire(x) ==
  /\ at[x] \notin {"idle"} \cup Over /\ ~late[x]
  /\ late' = [late EXCEPT ![x] = TRUE]
  /\ Unch /\ UNCHANGED <<at, exit, out, live, pipeVars>>

\* The channel is open and the command has been started.
Opened(x) ==
  /\ at[x] = "opening" /\ link = "up"
  /\ at' = [at EXCEPT ![x] = "waiting"]
  /\ live' = [live EXCEPT ![x] = {"copier", "writer", "waiter"} \cup
                                 (IF x = Events THEN {"watcher"} ELSE {})]
  /\ reader' = IF x = Events THEN "reading" ELSE reader
  /\ Unch /\ UNCHANGED <<late, exit, out, pipe>>

\* It is refused, or the link is down.
OpenFails(x) ==
  /\ at[x] = "opening" /\ link # "silent"
  /\ at' = [at EXCEPT ![x] = "error"]
  /\ live' = [live EXCEPT ![x] = {}]
  /\ Unch /\ UNCHANGED <<late, exit, out, pipeVars>>

\* The ctx is done first: the opener is left behind.
OpenLate(x) ==
  /\ at[x] = "opening" /\ late[x]
  /\ at' = [at EXCEPT ![x] = "error"]
  /\ Unch /\ UNCHANGED <<late, exit, out, live, pipeVars>>

\* waitExit: an exit status, or anything else that ends the channel.  For the
\* stream a status other than zero counts as a failure.
ExitRead(x) ==
  /\ "waiter" \in live[x]
  /\ \/ link = "up" /\ exit' = [exit EXCEPT ![x] = "status"]
     \/ link # "silent" /\ exit' = [exit EXCEPT ![x] = "failed"]
  /\ live' = [live EXCEPT ![x] = @ \ {"waiter"}]
  /\ Unch /\ UNCHANGED <<at, late, out, pipeVars>>

\* The machine ends the output, or the link cuts it off.
OutputEnds(x) ==
  /\ "copier" \in live[x] /\ out[x] = "open"
  /\ \/ link = "up" /\ out' = [out EXCEPT ![x] = "whole"]
     \/ link = "down" /\ out' = [out EXCEPT ![x] = "cut"]
  /\ Unch /\ UNCHANGED <<at, late, exit, live, pipeVars>>

\* A goroutine ends.  The copier of the stream may be blocked in a pipe that
\* nobody reads; the others wait for the machine, or for the link to go.
Ends(x) ==
  /\ \/ /\ "copier" \in live[x] /\ out[x] # "open"
        /\ x = Events => (reader # "stalled" \/ pipe # "open")
        /\ live' = [live EXCEPT ![x] = @ \ {"copier"}]
     \/ /\ "writer" \in live[x] /\ link # "silent"
        /\ live' = [live EXCEPT ![x] = @ \ {"writer"}]
     \/ /\ link # "silent" /\ at[x] \in Over /\ "opener" \in live[x]
        /\ live' = [live EXCEPT ![x] = (@ \ {"opener"}) \cup
                                       (IF link = "up" THEN {"writer"} ELSE {})]
     \/ /\ "watcher" \in live[x] /\ at[x] = "done"
        /\ live' = [live EXCEPT ![x] = @ \ {"watcher"}]
  /\ Unch /\ UNCHANGED <<at, late, exit, out, pipeVars>>

Goes(x, place) == at' = [at EXCEPT ![x] = place]
ClosesChannel(x) == live' = [live EXCEPT ![x] = @ \cup {"writer"}]

---------------------------------------------------------------------------
(***************************************************************************)
(* Run.                                                                    *)
(***************************************************************************)
\* The select: the exit, or the end of the ctx, whichever is taken.
RunSelects(c) ==
  /\ at[c] = "waiting"
  /\ \/ exit[c] # "none" /\ Goes(c, "draining") /\ UNCHANGED live
     \/ late[c] /\ Goes(c, "unwinding") /\ ClosesChannel(c)
  /\ Unch /\ UNCHANGED <<late, exit, out, pipeVars>>

\* The result is a value if the ctx is not done, a status came, and no read
\* failed; that of a link that went down may have failed or not.
MayReturn(c) == ~late[c] /\ exit[c] = "status"

\* Wrong: what has come within pipeDrainDelay is taken for the output.
Drained_OrTimedOut(c) == TRUE

Drained(c) == "copier" \notin live[c]

RunReturns(c) ==
  /\ at[c] = "draining" /\ Drained(c)
  /\ \/ MayReturn(c) /\ Goes(c, "value")
     \/ (~MayReturn(c) \/ out[c] = "cut") /\ Goes(c, "error")
  /\ ClosesChannel(c)
  /\ Unch /\ UNCHANGED <<late, exit, out, pipeVars>>

\* The output does not end within pipeDrainDelay.
RunDrainTimesOut(c) ==
  /\ at[c] = "draining" /\ "copier" \in live[c]
  /\ Goes(c, "recovering") /\ ClosesChannel(c)
  /\ Unch /\ UNCHANGED <<late, exit, out, pipeVars>>

\* Wrong: Run waits until its goroutines have ended.
Waited_ForAll(c) == live[c] = {}

\* waitAll: for its goroutines, or for pipeDrainDelay.
Waited(c) == TRUE

\* Wrong: what does not end in time is ended with the connection.
GivesUp_ConnectionClosed(c) ==
  IF live[c] = {} THEN UNCHANGED <<linkVars, quiet>> ELSE Down("command")

\* What has not ended is left behind; the connection is not touched.
GivesUp(c) == UNCHANGED <<linkVars, quiet>>

RunGivesUp(c) ==
  /\ at[c] \in {"recovering", "unwinding"} /\ Waited(c)
  /\ Goes(c, "error") /\ GivesUp(c)
  /\ UNCHANGED <<keeper, probe, miss, answered, late, exit, out, live,
                 pipeVars>>

---------------------------------------------------------------------------
(***************************************************************************)
(* Stream: its goroutine, the one that watches the ctx, and the reader.    *)
(***************************************************************************)
\* CloseWithError: the first close of a pipe is the one that counts.
Shut(how) == pipe' = IF pipe = "open" THEN how ELSE pipe

StreamExits ==
  /\ at[Events] = "waiting" /\ exit[Events] # "none"
  /\ Goes(Events, "draining")
  /\ Unch /\ UNCHANGED <<late, exit, out, live, pipeVars>>

StreamFinishes ==
  /\ at[Events] = "draining" /\ "copier" \notin live[Events]
  /\ \/ exit[Events] = "status" /\ Shut("eof")
     \/ (exit[Events] = "failed" \/ out[Events] = "cut") /\ Shut("err")
  /\ Goes(Events, "done")
  /\ Unch /\ UNCHANGED <<late, exit, out, live, reader>>

\* Wrong: the copier is given up without the pipe.
ShutInDrain_LeftOpen == UNCHANGED pipe

ShutInDrain == Shut("err")

StreamDrainTimesOut ==
  /\ at[Events] = "draining" /\ "copier" \in live[Events]
  /\ Goes(Events, "recovering") /\ ClosesChannel(Events) /\ ShutInDrain
  /\ Unch /\ UNCHANGED <<late, exit, out, reader>>

StreamRecovers ==
  /\ at[Events] = "recovering" /\ Goes(Events, "done")
  /\ Unch /\ UNCHANGED <<late, exit, out, live, pipeVars>>

StreamCancelled ==
  /\ late[Events] /\ "watcher" \in live[Events]
  /\ Shut("err")
  /\ live' = [live EXCEPT ![Events] = (@ \ {"watcher"}) \cup {"writer"}]
  /\ Unch /\ UNCHANGED <<at, late, exit, out, reader>>

\* The reader waits for whoever takes its events, and goes on.
ReaderStalls ==
  /\ reader = "reading" /\ pipe = "open" /\ reader' = "stalled"
  /\ Unch /\ UNCHANGED <<callVars, pipe>>

ReaderResumes ==
  /\ reader = "stalled" /\ reader' = "reading"
  /\ Unch /\ UNCHANGED <<callVars, pipe>>

\* It is told of the end, and closes the stream.
ReaderEnds ==
  /\ reader = "reading" /\ pipe # "open"
  /\ reader' = "gone" /\ ClosesChannel(Events)
  /\ Unch /\ UNCHANGED <<at, late, exit, out, pipe>>

---------------------------------------------------------------------------
CallStep(x) ==
  \/ Call(x) \/ Expire(x) \/ Opened(x) \/ OpenFails(x) \/ OpenLate(x)
  \/ ExitRead(x) \/ OutputEnds(x) \/ Ends(x)

StreamStep ==
  \/ StreamExits \/ StreamFinishes \/ StreamDrainTimesOut \/ StreamRecovers
  \/ StreamCancelled

RunStep(c) ==
  \/ RunSelects(c) \/ RunReturns(c) \/ RunDrainTimesOut(c) \/ RunGivesUp(c)

\* Nothing more can happen.
Finished ==
  /\ link = "down" /\ ~keeper /\ probe # "out"
  /\ \A x \in Calls : at[x] \in {"idle"} \cup Over /\ live[x] = {}
  /\ UNCHANGED vars

Next ==
  \/ Silence \/ Recover \/ Reset \/ Close
  \/ ProbeReturns \/ KeepaliveResult \/ KeepaliveTick
  \/ \E x \in Calls : CallStep(x)
  \/ \E c \in Cmds : RunStep(c)
  \/ StreamStep \/ ReaderStalls \/ ReaderResumes \/ ReaderEnds
  \/ Finished

Spec == Init /\ [][Next]_vars

(***************************************************************************)
(* The program's goroutines run, its ticker ticks and its timers fire, and *)
(* every command has a deadline.  Of the machine nothing is assumed: a     *)
(* silent link may stay silent, a command may hold its output for ever.    *)
(* What waits on a link that is down is ended by the library.              *)
(***************************************************************************)
Fairness ==
  /\ WF_vars(ProbeReturns) /\ WF_vars(KeepaliveResult) /\ WF_vars(KeepaliveTick)
  /\ \A c \in Cmds : WF_vars(Expire(c)) /\ WF_vars(RunStep(c))
  /\ \A x \in Calls :
       /\ WF_vars(OpenLate(x)) /\ WF_vars(link = "down" /\ OpenFails(x))
       /\ WF_vars(link = "down" /\ (ExitRead(x) \/ OutputEnds(x)))
       /\ WF_vars((link = "down" \/ at[x] = "done") /\ Ends(x))
       /\ WF_vars(out[x] # "open" /\ Ends(x))
  /\ WF_vars(StreamStep) /\ WF_vars(ReaderResumes) /\ WF_vars(ReaderEnds)

FairSpec == Spec /\ Fairness

---------------------------------------------------------------------------
\* A connection gone silent is closed at the latest by the tick after the last
\* miss allowed, interval times (MaxMiss + 1) after its last sign of life
\* (keepaliveState, SPEC 8.3).
FoundInTime == quiet <= MaxMiss

\* The keepalive never closes a connection that has answered a probe within
\* the last MaxMiss ticks (keepaliveLoop takes a result before it counts).
LiveLinkKept == cause = "keepalive" => answered > MaxMiss

\* The stream outlives the commands: it ends only by its own ctx, by the
\* machine's doing, or with a connection found dead or closed on purpose
\* (sshExecutor's contract), never with a command that gives up.
StreamUndisturbed ==
  pipe # "open" =>
    \/ late[Events]
    \/ exit[Events] # "none" /\ cause # "command"

\* Run returns a value only for a command whose status came, before its ctx
\* was done, and with all of its output unless the connection went meanwhile;
\* the reader of the stream gets EOF under the same terms.
ResultIsTrue ==
  /\ \A c \in Cmds :
       at[c] = "value" => /\ exit[c] = "status"
                          /\ out[c] = "whole" \/ link = "down"
  /\ pipe = "eof" => /\ exit[Events] = "status"
                     /\ out[Events] = "whole" \/ link = "down"

\* Wanted by the comment in Run: no value for an output the link cut off.
OutputIsWhole == \A c \in Cmds : at[c] = "value" => out[c] = "whole"

Answered(x) ==
  IF at[x] \in {"value", "error"} THEN at[x]
  ELSE IF x # Events \/ pipe = "open" THEN "none"
  ELSE IF pipe = "eof" THEN "value" ELSE "error"

\* The contract of an executor.  A connection that is lost may cut off the
\* output of every call on it.
Contract == INSTANCE Executor WITH
  Runs <- Cmds, Streams <- {Events},
  answer <- [x \in Calls |-> Answered(x)],
  exited <- {x \in Calls : exit[x] = "status"},
  whole <- {x \in Calls : out[x] = "whole"},
  lost <- IF link = "down" THEN Calls ELSE {},
  given <- {x \in Calls : late[x]}

\* Run and Stream keep the contract on a connection they share: no value
\* before exit status and end of output, no answer taken back (ssh.go:589-607,
\* 672-684).
SshImplements == Contract!Spec

\* Every call of Run returns once its ctx is done, on a link that is silent for
\* ever and with a machine that keeps the output open.
SshReturns == Contract!RunsReturn

\* Whoever reads the stream hears of a connection that is gone, also after it
\* has kept the stream waiting: or else the machine would stay healthy.
ReaderHears == link = "down" ~> reader \in {"none", "gone"}
---------------------------------------------------------------------------
(***************************************************************************)
(* The inductive invariant behind the safety properties, in named parts.   *)
(***************************************************************************)

\* While the keepalive runs it is below the limit, and it is what a link that
\* is not down has: whoever ends it brings the link down.
Watched ==
  /\ keeper => miss < MaxMiss
  /\ ~keeper => link = "down"

\* The ticks of a silence are the misses, and the one that sent the probe.
SilenceCounted ==
  /\ link # "silent" => quiet = 0
  /\ link = "silent" => IF probe = "out" THEN quiet <= miss + 1 ELSE quiet = 0

\* On a link that is not down the misses are ticks without an answer; one that
\* the keepalive brought down has been without for too long.
MissesUnanswered ==
  /\ probe = "err" => link = "down"
  /\ probe = "ok" => answered = 0
  /\ link # "down" => /\ probe = "none" => miss = 0
                      /\ probe = "out" => miss < answered
  /\ cause = "keepalive" => link = "down" /\ answered > MaxMiss

\* Nothing has come of a call that is not open; a call past its select has
\* seen an exit, one that reads no more has seen the end of its output.
CallSound(x) ==
  /\ at[x] \in {"idle", "opening"} =>
       exit[x] = "none" /\ out[x] = "open" /\ live[x] \subseteq {"opener"}
  /\ "waiter" \in live[x] => exit[x] = "none"
  /\ at[x] \in {"draining", "recovering", "done"} => exit[x] # "none"
  /\ at[x] \in {"waiting", "draining"} /\ "copier" \notin live[x]
       => out[x] # "open"
  /\ out[x] = "cut" => link = "down"
  /\ at[x] = "value" => exit[x] = "status" /\ out[x] # "open"

\* Only an open stream has a reader; its pipe is shut at the end of a stream
\* whose exit came, or by its ctx.
PipeSound ==
  /\ reader # "none" => at[Events] \notin {"idle", "opening"}
  /\ pipe # "open" => late[Events] \/ exit[Events] # "none"
  /\ pipe = "eof" => exit[Events] = "status" /\ out[Events] # "open"

\* FoundInTime, LiveLinkKept, StreamUndisturbed and ResultIsTrue follow.
SshInvariant ==
  /\ TypeOK
  /\ Watched /\ SilenceCounted /\ MissesUnanswered
  /\ \A x \in Calls : CallSound(x)
  /\ PipeSound /\ cause # "command"
=============================================================================
