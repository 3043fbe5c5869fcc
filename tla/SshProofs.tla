------------------------------ MODULE SshProofs ------------------------------
(***************************************************************************)
(* Proofs about Ssh, for every number of commands and every limit of the   *)
(* keepalive.  SshInvariant falls into two halves that hardly meet: the    *)
(* link and its keepalive, which a call never touches, and the calls with  *)
(* the pipe, to which the link matters only as up, silent or down.         *)
(***************************************************************************)
EXTENDS Ssh, TLAPS

LinkTyped ==
  /\ link \in {"up", "silent", "down"}
  /\ cause \in {"none", "network", "keepalive", "close"}
  /\ keeper \in BOOLEAN
  /\ probe \in {"none", "out", "ok", "err"}
  /\ miss \in 0..MaxMiss
  /\ quiet \in 0..(MaxMiss + 1) /\ answered \in 0..(MaxMiss + 1)

LinkSound == LinkTyped /\ Watched /\ SilenceCounted /\ MissesUnanswered

CallTyped ==
  /\ at \in [Calls -> {"idle", "opening", "waiting", "draining", "recovering",
                       "unwinding"} \cup Over]
  /\ late \in [Calls -> BOOLEAN]
  /\ exit \in [Calls -> {"none", "status", "failed"}]
  /\ out \in [Calls -> {"open", "whole", "cut"}]
  /\ live \in [Calls -> SUBSET {"opener", "copier", "writer", "waiter", "watcher"}]
  /\ pipe \in {"open", "eof", "err"}
  /\ reader \in {"none", "reading", "stalled", "gone"}

CallsSound == CallTyped /\ PipeSound /\ \A x \in Calls : CallSound(x)

LEMMA Halves == SshInvariant <=> LinkSound /\ CallsSound
BY DEF SshInvariant, LinkSound, CallsSound, TypeOK, LinkTyped, CallTyped

---------------------------------------------------------------------------
(***************************************************************************)
(* The link and the keepalive.                                             *)
(***************************************************************************)
\* What is no step of the link or of the keepalive leaves both alone.
LEMMA LinkUntouched ==
  ASSUME [Next]_vars
  PROVE  \/ Silence \/ Recover \/ Reset \/ Close
         \/ ProbeReturns \/ KeepaliveResult \/ KeepaliveTick
         \/ UNCHANGED <<linkVars, keepVars>>
<1>1. CASE \E x \in Calls : CallStep(x)
  BY <1>1
  DEF CallStep, Call, Expire, Opened, OpenFails, OpenLate, ExitRead,
      OutputEnds, Ends, Unch
<1>2. CASE \E c \in Cmds : RunStep(c)
  BY <1>2
  DEF RunStep, RunSelects, RunReturns, RunDrainTimesOut, RunGivesUp, GivesUp,
      Unch, linkVars, keepVars
<1>3. CASE StreamStep \/ ReaderStalls \/ ReaderResumes \/ ReaderEnds
  BY <1>3
  DEF StreamStep, StreamExits, StreamFinishes, StreamDrainTimesOut,
      StreamRecovers, StreamCancelled, ReaderStalls, ReaderResumes,
      ReaderEnds, Unch
<1>4. CASE Finished \/ UNCHANGED vars
  BY <1>4 DEF Finished, vars
<1> QED  BY <1>1, <1>2, <1>3, <1>4 DEF Next

\* A tick counts a silence that the misses account for.
LEMMA TickSound ==
  ASSUME LinkSound, KeepaliveTick
  PROVE  LinkSound'
<1> USE SshAssumption
    DEF LinkSound, LinkTyped, Watched, SilenceCounted, MissesUnanswered,
        KeepaliveTick, Unanswered, Counted
<1>1. CASE miss' = MaxMiss
  <2>0. keeper' = FALSE /\ probe' = probe
    BY <1>1, Zenon DEF Dead
  <2>1. probe # "none" /\ probe # "ok"
    BY <1>1
  <2>2. link' = "down" /\ quiet' = 0 /\ cause' \in {cause, "keepalive"}
    BY <1>1 DEF Dead, Down
  <2>3. probe = "out" /\ link # "down" => miss' < answered'
    BY <1>1, <2>1
  <2>4. answered' > MaxMiss \/ link = "down"
    BY <1>1, <2>0, <2>1, <2>3
  <2>5. answered' \in 0..(MaxMiss + 1)
    OBVIOUS
  <2>6. cause' = "keepalive" => answered' > MaxMiss
    BY <1>1, <2>4 DEF Dead, Down
  <2>7. LinkTyped'
    <3>1. keeper' \in BOOLEAN
      BY <2>0, Zenon
    <3>2. miss' \in 0..MaxMiss /\ quiet' \in 0..(MaxMiss + 1)
      BY <1>1, <2>2
    <3>3. probe' \in {"none", "out", "ok", "err"}
      BY <2>0
    <3> QED  BY <2>2, <2>5, <3>1, <3>2, <3>3
  <2>8. Watched' /\ SilenceCounted'
    BY <2>0, <2>2 DEF Watched, SilenceCounted
  <2>9. MissesUnanswered'
    BY <2>0, <2>1, <2>2, <2>6 DEF MissesUnanswered
  <2> QED  BY <2>7, <2>8, <2>9
<1>2. CASE miss' # MaxMiss
  <2>1. miss' \in 0..MaxMiss /\ miss' < MaxMiss /\ keeper'
    BY <1>2
  <2>2. link' = link /\ cause' = cause
    BY <1>2 DEF linkVars
  <2>3. /\ probe' = "out" /\ answered' \in 0..(MaxMiss + 1)
        /\ miss' < answered' \/ link = "down"
    BY <1>2
  <2> QED  BY <1>2, <2>1, <2>2, <2>3 DEF Quieter
<1> QED  BY <1>1, <1>2

LEMMA LinkStep ==
  ASSUME LinkSound, [Next]_vars
  PROVE  LinkSound'
<1> USE SshAssumption
    DEF LinkSound, LinkTyped, Watched, SilenceCounted, MissesUnanswered
<1>1. CASE Silence
  BY <1>1 DEF Silence
<1>2. CASE Recover
  BY <1>2 DEF Recover
<1>3. CASE Reset
  BY <1>3 DEF Reset, Down
<1>4. CASE Close
  <2>1. ~keeper' /\ keeper' \in BOOLEAN /\ link' = "down" /\ quiet' = 0
    BY <1>4 DEF Close, Down
  <2>2. UNCHANGED <<probe, miss, answered>> /\ cause' \in {cause, "close"}
        /\ (cause' = "keepalive" => cause = "keepalive")
    BY <1>4 DEF Close, Down
  <2> QED  BY <2>1, <2>2
<1>5. CASE ProbeReturns
  BY <1>5 DEF ProbeReturns, linkVars
<1>6. CASE KeepaliveResult
  <2>1. /\ probe' = "none" /\ answered' = answered
        /\ miss' = IF probe = "ok" THEN 0 ELSE miss + 1
        /\ probe = "err" => link = "down"
    BY <1>6 DEF KeepaliveResult, Counted
  <2>2. CASE miss' = MaxMiss
    <3>1. ~keeper' /\ keeper' \in BOOLEAN /\ link' = "down" /\ quiet' = 0
      BY <1>6, <2>2 DEF KeepaliveResult, Dead, Down
    <3>2. link = "down" /\ cause' = cause
      BY <1>6, <2>1, <2>2 DEF KeepaliveResult, Dead, Down
    <3> QED  BY <2>1, <2>2, <3>1, <3>2
  <2>3. CASE miss' # MaxMiss
    <3>1. UNCHANGED <<keeper, link, cause, quiet>> /\ keeper
      BY <1>6, <2>3 DEF KeepaliveResult, linkVars
    <3>2. miss' \in 0..MaxMiss /\ miss' < MaxMiss
      BY <2>1, <2>3, <3>1
    <3>3. probe # "out"
      BY <1>6 DEF KeepaliveResult
    <3> QED  BY <1>6, <2>1, <3>1, <3>2, <3>3 DEF KeepaliveResult
  <2> QED  BY <2>2, <2>3
<1>7. CASE KeepaliveTick
  BY <1>7, TickSound
<1>8. CASE UNCHANGED <<linkVars, keepVars>>
  BY <1>8 DEF linkVars, keepVars
<1> QED
  BY <1>1, <1>2, <1>3, <1>4, <1>5, <1>6, <1>7, <1>8, LinkUntouched

---------------------------------------------------------------------------
(***************************************************************************)
(* The calls.                                                              *)
(***************************************************************************)
\* A link that is down stays down.
LEMMA DownForEver ==
  ASSUME LinkTyped, [Next]_vars, link = "down"
  PROVE  link' = "down"
<1>1. CASE Silence \/ Recover \/ Reset \/ Close
  BY <1>1 DEF Silence, Recover, Reset, Close, Down
<1>2. CASE ProbeReturns \/ KeepaliveResult \/ KeepaliveTick
  BY <1>2 DEF ProbeReturns, KeepaliveResult, KeepaliveTick, Dead, Down, linkVars
<1> QED  BY <1>1, <1>2, LinkUntouched DEF linkVars

ReaderMoves ==
  \/ reader # "none" /\ reader' \in {"stalled", "reading"}
  \/ UNCHANGED reader

\* What concerns no call leaves all of them as they are.
LEMMA CallsUntouched ==
  ASSUME [Next]_vars
  PROVE  \/ \E x \in Calls : CallStep(x)
         \/ \E c \in Cmds : RunStep(c)
         \/ StreamStep \/ ReaderEnds
         \/ UNCHANGED <<callVars, pipe>> /\ ReaderMoves
BY DEF Next, Silence, Recover, Reset, Close, ProbeReturns, KeepaliveResult,
       KeepaliveTick, ReaderStalls, ReaderResumes, Finished, vars, callVars,
       pipeVars, Unch, ReaderMoves

LEMMA CallStepTyped ==
  ASSUME CallTyped, NEW x \in Calls, CallStep(x)
  PROVE  CallTyped'
<1> USE DEF CallTyped, Over, pipeVars
<1>1. CASE Call(x) \/ OpenFails(x)
  BY <1>1 DEF Call, OpenFails
<1>5. CASE Expire(x) \/ OpenLate(x)
  BY <1>5 DEF Expire, OpenLate
<1>2. CASE Opened(x)
  BY <1>2 DEF Opened
<1>3. CASE ExitRead(x) \/ OutputEnds(x)
  BY <1>3 DEF ExitRead, OutputEnds
<1>4. CASE Ends(x)
  BY <1>4 DEF Ends
<1> QED  BY <1>1, <1>2, <1>3, <1>4, <1>5 DEF CallStep

\* The calls of a step other than its own are not touched by it.
LEMMA CallStepSound ==
  ASSUME LinkTyped, CallsSound, NEW x \in Calls, CallStep(x)
  PROVE  CallsSound'
<1> USE DEF CallsSound
<1>1. CallTyped /\ CallTyped' /\ link' = link
  BY CallStepTyped
  DEF CallStep, Call, Expire, Opened, OpenFails, OpenLate, ExitRead,
      OutputEnds, Ends, Unch, linkVars
<1>2. ASSUME NEW y \in Calls PROVE CallSound(y)'
  <2> USE <1>1 DEF CallTyped, CallSound
  <2>1. CASE Call(x)
    BY <2>1 DEF Call
  <2>2. CASE Expire(x) \/ OpenLate(x)
    BY <2>2 DEF Expire, OpenLate
  <2>3. CASE Opened(x)
    BY <2>3 DEF Opened
  <2>4. CASE OpenFails(x)
    BY <2>4 DEF OpenFails
  <2>5. CASE ExitRead(x)
    BY <2>5 DEF ExitRead
  <2>6. CASE OutputEnds(x)
    BY <2>6 DEF OutputEnds
  <2>7. CASE Ends(x)
    BY <2>7 DEF Ends, Over
  <2> QED  BY <2>1, <2>2, <2>3, <2>4, <2>5, <2>6, <2>7 DEF CallStep
<1>3. PipeSound'
  BY <1>1
  DEF CallStep, Call, Expire, Opened, OpenFails, OpenLate, ExitRead,
      OutputEnds, Ends, PipeSound, CallTyped, CallSound, pipeVars, Calls
<1> QED  BY <1>1, <1>2, <1>3

LEMMA RunStepSound ==
  ASSUME LinkTyped, CallsSound, NEW c \in Cmds, RunStep(c)
  PROVE  CallsSound'
<1> USE DEF CallsSound
<1>1. c \in Calls /\ UNCHANGED <<late, exit, out, pipeVars>> /\ link' = link
  BY DEF RunStep, RunSelects, RunReturns, RunDrainTimesOut, RunGivesUp, GivesUp,
         Unch, linkVars, Calls
<1>2. CallTyped'
  BY <1>1
  DEF RunStep, RunSelects, RunReturns, RunDrainTimesOut, RunGivesUp, Goes,
      ClosesChannel, CallTyped, Over, pipeVars
<1>3. ASSUME NEW y \in Calls PROVE CallSound(y)'
  <2> USE <1>1, <1>2 DEF CallTyped, CallSound, Goes, ClosesChannel
  <2>1. CASE RunSelects(c)
    BY <2>1 DEF RunSelects
  <2>2. CASE RunReturns(c)
    BY <2>2 DEF RunReturns, MayReturn, Drained
  <2>3. CASE RunDrainTimesOut(c)
    BY <2>3 DEF RunDrainTimesOut
  <2>4. CASE RunGivesUp(c)
    BY <2>4 DEF RunGivesUp
  <2> QED  BY <2>1, <2>2, <2>3, <2>4 DEF RunStep
<1>4. PipeSound'
  <2>1. at'[Events] = at[Events]
    BY SshAssumption
    DEF RunStep, RunSelects, RunReturns, RunDrainTimesOut, RunGivesUp, Goes,
        CallTyped, Calls
  <2> QED  BY <1>1, <2>1 DEF PipeSound, pipeVars
<1> QED  BY <1>2, <1>3, <1>4

LEMMA StreamStepSound ==
  ASSUME LinkTyped, CallsSound, StreamStep \/ ReaderEnds
  PROVE  CallsSound'
<1> USE DEF CallsSound
<1>1. Events \in Calls /\ UNCHANGED <<late, exit, out>> /\ link' = link
  BY DEF StreamStep, StreamExits, StreamFinishes, StreamDrainTimesOut,
         StreamRecovers, StreamCancelled, ReaderEnds, Unch, linkVars, Calls
<1> USE <1>1 DEF CallTyped, CallSound, PipeSound, Goes, ClosesChannel, pipeVars
<1>2. CASE StreamExits
  BY <1>2 DEF StreamExits, Over
<1>3. CASE StreamFinishes
  BY <1>3 DEF StreamFinishes, Shut, Over
<1>4. CASE StreamDrainTimesOut
  BY <1>4 DEF StreamDrainTimesOut, ShutInDrain, Shut, Over
<1>5. CASE StreamRecovers
  BY <1>5 DEF StreamRecovers, Over
<1>6. CASE StreamCancelled
  BY <1>6 DEF StreamCancelled, Shut, Over
<1>7. CASE ReaderEnds
  BY <1>7 DEF ReaderEnds, Over
<1> QED  BY <1>2, <1>3, <1>4, <1>5, <1>6, <1>7 DEF StreamStep

LEMMA CallsStep ==
  ASSUME LinkTyped, CallsSound, [Next]_vars
  PROVE  CallsSound'
<1>1. CASE \E x \in Calls : CallStep(x)
  BY <1>1, CallStepSound
<1>2. CASE \E c \in Cmds : RunStep(c)
  BY <1>2, RunStepSound
<1>3. CASE StreamStep \/ ReaderEnds
  BY <1>3, StreamStepSound
<1>4. CASE UNCHANGED <<callVars, pipe>> /\ ReaderMoves
  BY <1>4, DownForEver
  DEF CallsSound, CallTyped, PipeSound, CallSound, callVars, ReaderMoves
<1> QED  BY <1>1, <1>2, <1>3, <1>4, CallsUntouched

---------------------------------------------------------------------------
(***************************************************************************)
(* The theorems.                                                           *)
(***************************************************************************)
LEMMA InitSound == Init => SshInvariant
<1> SUFFICES ASSUME Init PROVE LinkSound /\ CallsSound
  BY Halves
<1>1. LinkSound
  BY SshAssumption
  DEF Init, LinkSound, LinkTyped, Watched, SilenceCounted, MissesUnanswered
<1>2. CallsSound
  BY DEF Init, CallsSound, CallTyped, PipeSound, CallSound
<1> QED  BY <1>1, <1>2

LEMMA NextSound == SshInvariant /\ [Next]_vars => SshInvariant'
<1> SUFFICES ASSUME SshInvariant, [Next]_vars PROVE SshInvariant'
  OBVIOUS
<1>1. LinkSound /\ CallsSound
  BY Halves
<1>2. LinkSound'
  BY <1>1, LinkStep
<1>3. CallsSound'
  BY <1>1, CallsStep DEF LinkSound
<1>4. SshInvariant' <=> LinkSound' /\ CallsSound'
  BY DEF SshInvariant, LinkSound, CallsSound, TypeOK, LinkTyped, CallTyped
<1> QED  BY <1>2, <1>3, <1>4

\* The inductive invariant holds in every reachable state.
THEOREM SshIsSound == Spec => []SshInvariant
BY InitSound, NextSound, PTL DEF Spec

\* keepaliveState closes a silent connection by the tick after the last miss
\* it allows, whatever the limit is.
THEOREM SilenceIsFound == Spec => []FoundInTime
<1>1. SshInvariant => FoundInTime
  BY SshAssumption
  DEF SshInvariant, TypeOK, Watched, SilenceCounted, FoundInTime
<1> QED  BY <1>1, SshIsSound, PTL

\* keepaliveLoop never closes a connection that has answered lately: it takes
\* a result that is there before it counts a tick.
THEOREM AnswersAreKept == Spec => []LiveLinkKept
<1>1. SshInvariant => LiveLinkKept
  BY DEF SshInvariant, MissesUnanswered, LiveLinkKept
<1> QED  BY <1>1, SshIsSound, PTL

\* A command that gives up ends neither the connection nor the events stream
\* on it, however many commands share it (Run, ssh.go:573-618).
THEOREM StreamIsUndisturbed == Spec => []StreamUndisturbed
<1>1. SshInvariant => StreamUndisturbed
  BY DEF SshInvariant, PipeSound, StreamUndisturbed
<1> QED  BY <1>1, SshIsSound, PTL

\* A result, and the end of the stream, follow an exit status and the end of
\* the output; what a lost connection cut off is the exception.
THEOREM ResultsAreTrue == Spec => []ResultIsTrue
<1>1. SshInvariant => ResultIsTrue
  BY DEF SshInvariant, TypeOK, CallSound, PipeSound, ResultIsTrue, Calls
<1> QED  BY <1>1, SshIsSound, PTL
---------------------------------------------------------------------------
(***************************************************************************)
(* The contract of Executor.  What has come stays; an answer is given once *)
(* and then on a status and an output that are there already.              *)
(***************************************************************************)
\* What has happened to a command, and to the link, is not undone.
LEMMA ContractGrows ==
  ASSUME SshInvariant, [Next]_vars
  PROVE  Contract!Grows
<1> SUFFICES ASSUME NEW x \in Calls
             PROVE  /\ exit[x] = "status" => exit'[x] = "status"
                    /\ out[x] = "whole" => out'[x] = "whole"
                    /\ late[x] => late'[x]
                    /\ link = "down" => link' = "down"
  BY DEF Contract!Grows
<1>1. LinkTyped /\ CallTyped /\ CallSound(x)
  BY Halves DEF LinkSound, CallsSound
<1>2. link = "down" => link' = "down"
  BY <1>1, DownForEver
<1> USE <1>1 DEF CallTyped, CallSound
<1>3. CASE \E y \in Calls : CallStep(y)
  BY <1>2, <1>3
  DEF CallStep, Call, Expire, Opened, OpenFails, OpenLate, ExitRead,
      OutputEnds, Ends
<1>4. CASE \E c \in Cmds : RunStep(c)
  BY <1>2, <1>4
  DEF RunStep, RunSelects, RunReturns, RunDrainTimesOut, RunGivesUp
<1>5. CASE StreamStep \/ ReaderEnds
  BY <1>2, <1>5
  DEF StreamStep, StreamExits, StreamFinishes, StreamDrainTimesOut,
      StreamRecovers, StreamCancelled, ReaderEnds
<1>6. CASE UNCHANGED <<callVars, pipe>> /\ ReaderMoves
  BY <1>2, <1>6 DEF callVars
<1> QED  BY <1>3, <1>4, <1>5, <1>6, CallsUntouched

\* A value is given once the status and the end of the output are there.
MayBeValue(x) ==
  exit[x] = "status" /\ (out[x] = "whole" \/ link = "down")

AnswerKept(x) ==
  \/ Answered(x)' = Answered(x)
  \/ Answered(x) = "none" /\ Answered(x)' = "error"
  \/ Answered(x) = "none" /\ Answered(x)' = "value" /\ MayBeValue(x)

LEMMA CallAnswer ==
  ASSUME CallsSound, NEW x \in Calls, NEW y \in Calls, CallStep(y)
  PROVE  AnswerKept(x)
<1> USE DEF CallsSound, CallTyped, PipeSound, CallSound, AnswerKept, Answered
<1>1. pipe' = pipe
  BY DEF CallStep, Call, Expire, Opened, OpenFails, OpenLate, ExitRead,
         OutputEnds, Ends, pipeVars
<1>2. CASE at' = at
  BY <1>1, <1>2
<1>3. CASE Call(y) \/ Opened(y)
  BY <1>1, <1>3 DEF Call, Opened
<1>4. CASE OpenFails(y) \/ OpenLate(y)
  <2>1. at[y] = "opening" /\ at' = [at EXCEPT ![y] = "error"]
    BY <1>4 DEF OpenFails, OpenLate
  <2>2. CASE x = y
    <3>1. pipe # "eof" \/ x # Events
      BY <2>1, <2>2
    <3> QED  BY <1>1, <2>1, <2>2, <3>1
  <2> QED  BY <1>1, <2>1, <2>2
<1> QED
  BY <1>2, <1>3, <1>4 DEF CallStep, Expire, ExitRead, OutputEnds, Ends

LEMMA RunAnswer ==
  ASSUME CallsSound, NEW x \in Calls, NEW c \in Cmds, RunStep(c)
  PROVE  AnswerKept(x)
<1> USE DEF CallsSound, CallTyped, CallSound, AnswerKept, Answered, Goes
<1>1. pipe' = pipe /\ c \in Calls /\ c # Events
  BY SshAssumption
  DEF RunStep, RunSelects, RunReturns, RunDrainTimesOut, RunGivesUp, pipeVars,
      Calls
<1>2. CASE RunSelects(c) \/ RunDrainTimesOut(c) \/ RunGivesUp(c)
  BY <1>1, <1>2 DEF RunSelects, RunDrainTimesOut, RunGivesUp
<1>3. CASE RunReturns(c)
  BY <1>1, <1>3 DEF RunReturns, MayReturn, Drained, MayBeValue
<1> QED  BY <1>2, <1>3 DEF RunStep

LEMMA StreamAnswer ==
  ASSUME CallsSound, NEW x \in Calls, StreamStep \/ ReaderEnds
  PROVE  AnswerKept(x)
<1> USE DEF CallsSound, CallTyped, CallSound, PipeSound, AnswerKept, Answered,
            Goes, Shut
<1>0. Events \in Calls
  BY DEF Calls
<1>1. CASE StreamExits
  BY <1>0, <1>1 DEF StreamExits, pipeVars
<1>2. CASE StreamFinishes
  BY <1>0, <1>2 DEF StreamFinishes, MayBeValue
<1>3. CASE StreamDrainTimesOut \/ StreamRecovers
  BY <1>0, <1>3
  DEF StreamDrainTimesOut, ShutInDrain, StreamRecovers, pipeVars
<1>4. CASE StreamCancelled \/ ReaderEnds
  BY <1>4 DEF StreamCancelled, ReaderEnds
<1> QED  BY <1>1, <1>2, <1>3, <1>4 DEF StreamStep

LEMMA ContractStep ==
  ASSUME SshInvariant, [Next]_vars
  PROVE  Contract!Next
<1>1. CallsSound
  BY Halves
<1>2. ASSUME NEW x \in Calls PROVE AnswerKept(x)
  <2>1. CASE UNCHANGED <<callVars, pipe>> /\ ReaderMoves
    BY <2>1 DEF AnswerKept, Answered, callVars
  <2> QED
    BY <1>1, <2>1, CallAnswer, RunAnswer, StreamAnswer, CallsUntouched
<1>3. ASSUME NEW x \in Calls
      PROVE  Answered(x)' \in {"none", "value", "error"}
  BY DEF Answered
<1>4. Contract!Calls = Calls
  BY DEF Contract!Calls, Calls
<1>5. ASSUME NEW x \in Calls
      PROVE  \/ Answered(x)' = Answered(x)
             \/ /\ Answered(x) = "none"
                /\ \/ /\ Answered(x)' = "value"
                      /\ x \in {y \in Calls : exit[y] = "status"}
                      /\ x \in {y \in Calls : out[y] = "whole"}
                               \cup (IF link = "down" THEN Calls ELSE {})
                   \/ Answered(x)' = "error"
  BY <1>2 DEF AnswerKept, MayBeValue
<1> QED
  BY <1>3, <1>4, <1>5, ContractGrows DEF Contract!Next, Contract!Answers

\* Run and Stream implement the contract of an executor on the connection they
\* share, whatever the link, the machine and the other calls do.
THEOREM SshKeepsContract == Spec => SshImplements
<1>1. Init => Contract!Init
  BY DEF Init, Contract!Init, Contract!Calls, Calls, Answered
<1>2. SshInvariant /\ [Next]_vars => [Contract!Next]_(Contract!vars)
  BY ContractStep
<1> QED  BY <1>1, <1>2, SshIsSound, PTL DEF Spec, SshImplements, Contract!Spec
=============================================================================
