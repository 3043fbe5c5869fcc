-------------------------------- MODULE Local --------------------------------
(***************************************************************************)
(* Commands on the machine gh-ars itself runs on (executor/local.go): a    *)
(* child process, what os/exec runs beside it, and grandchildren that keep *)
(* the pipes of a child open after it has ended.  Nothing is shared by two *)
(* calls, so this is one call, of Run or of Stream.                        *)
(*                                                                         *)
(* os/exec is external: Wait waits for the child, then for the copier of   *)
(* the output; past WaitDelay it closes the descriptors, which ends the    *)
(* copier unless its own writing is blocked; it kills the child when ctx   *)
(* is done; and of several errors it returns that of the exit status, then *)
(* that of ctx, then ErrWaitDelay or the copier's.  One copier stands for  *)
(* both outputs.                                                           *)
(***************************************************************************)
EXTENDS Naturals

CONSTANTS Runs, Streams, \* the calls of which one is made
          Sudo           \* the values of Cmd.Sudo looked at

ASSUME LocalAssumption == Runs \cap Streams = {} /\ Sudo \subseteq BOOLEAN

VARIABLES
  call,    \* the call that is made; never changes
  rooted,  \* sudo: the child is root's, and the kernel refuses to kill it
  at,      \* where the goroutine is that waits for the command
  child,   \* the process: its exit status, or that it was killed
  holder,  \* a grandchild holds the pipes
  late,    \* the ctx of the call is done
  watched, \* the goroutine of os/exec that watches ctx has acted
  expired, \* WaitDelay is over
  out,     \* the output: it has ended, or its descriptors were closed
  live,    \* the goroutines of the call that have not ended
  pipe,    \* the pipe of a stream: open, or who closed it and how
  reader   \* who reads the stream (the goroutine of cli.Events)

vars == <<call, rooted, at, child, holder, late, watched, expired, out, live,
          pipe, reader>>
childVars == <<call, rooted, child, holder>>
pipeVars == <<pipe, reader>>

Streaming == call \in Streams
Over == {"value", "error"}
Ended == {"ok", "bad", "killed"}

TypeOK ==
  /\ call \in Runs \cup Streams /\ rooted \in Sudo
  /\ at \in {"idle", "waiting", "draining"} \cup Over
  /\ child \in {"none", "running"} \cup Ended
  /\ holder \in BOOLEAN /\ late \in BOOLEAN /\ watched \in BOOLEAN
  /\ expired \in BOOLEAN
  /\ out \in {"open", "whole", "cut"}
  /\ live \subseteq {"copier", "stdin"}
  /\ pipe \in {"open", "eof", "err", "closed"}
  /\ reader \in {"none", "reading", "stalled", "closing", "gone"}

Init ==
  /\ call \in Runs \cup Streams /\ rooted \in Sudo
  /\ at = "idle" /\ child = "none" /\ holder = FALSE
  /\ late = FALSE /\ watched = FALSE /\ expired = FALSE
  /\ out = "open" /\ live = {} /\ pipe = "open" /\ reader = "none"

---------------------------------------------------------------------------
(***************************************************************************)
(* The child and its pipes.                                                *)
(***************************************************************************)
\* Start: the process cannot be made, or it runs and its stdin is copied.
Start ==
  /\ at = "idle"
  /\ \/ /\ at' = "error" /\ UNCHANGED <<child, live, reader>>
     \/ /\ at' = "waiting" /\ child' = "running"
        /\ live' = {"copier", "stdin"}
        /\ reader' = IF Streaming THEN "reading" ELSE "none"
  /\ UNCHANGED <<call, rooted, holder, late, watched, expired, out, pipe>>

\* The child ends, and may leave a grandchild that holds its pipes.
ChildExits ==
  /\ child = "running"
  /\ child' \in {"ok", "bad"} /\ holder' \in BOOLEAN
  /\ UNCHANGED <<call, rooted, at, late, watched, expired, out, live, pipeVars>>

HolderExits ==
  /\ holder /\ holder' = FALSE
  /\ UNCHANGED <<call, rooted, at, child, late, watched, expired, out, live,
                 pipeVars>>

\* The ctx of the call is done: its deadline, or a cancellation.
Expire ==
  /\ at \in {"waiting", "draining"} /\ ~late
  /\ late' = TRUE
  /\ UNCHANGED <<childVars, at, watched, expired, out, live, pipeVars>>

\* watchCtx of os/exec: the child is killed, its grandchildren are not.
Kill ==
  /\ late /\ at = "waiting" /\ child = "running" /\ ~watched
  /\ watched' = TRUE
  /\ \/ ~rooted /\ child' = "killed" /\ holder' \in BOOLEAN
     \/ rooted /\ UNCHANGED <<child, holder>>
  /\ UNCHANGED <<call, rooted, at, late, expired, out, live, pipeVars>>

\* The last holder of the pipe has ended.
OutputEnds ==
  /\ child \in Ended /\ ~holder /\ out = "open"
  /\ out' = "whole"
  /\ UNCHANGED <<childVars, at, late, watched, expired, live, pipeVars>>

\* The copier ends after the output, unless it is blocked in the pipe of a
\* stream that nobody reads; writing to one that is closed it fails.
CopierEnds ==
  /\ "copier" \in live
  /\ \/ out # "open" /\ (reader \in {"none", "reading"} \/ pipe # "open")
        /\ UNCHANGED out
     \/ out = "open" /\ pipe # "open" /\ out' = "cut"
  /\ live' = live \ {"copier"}
  /\ UNCHANGED <<childVars, at, late, watched, expired, pipeVars>>

\* Wrong: only the child's reading ends the copying.
StdinWriterClosed_Never == FALSE

\* closeStdinWriter, once Wait has returned.
StdinWriterClosed == at \in Over

\* The copier of stdin: all is read, or nobody is left to read, or the
\* writing end is closed under it.
StdinEnds ==
  /\ "stdin" \in live
  /\ child = "running" \/ ~holder \/ StdinWriterClosed
  /\ live' = live \ {"stdin"}
  /\ UNCHANGED <<childVars, at, late, watched, expired, out, pipeVars>>

---------------------------------------------------------------------------
(***************************************************************************)
(* cmd.Wait, in Run or in the goroutine of Stream.                         *)
(***************************************************************************)
ChildReaped ==
  /\ at = "waiting" /\ child \in Ended
  /\ at' = "draining"
  /\ UNCHANGED <<childVars, late, watched, expired, out, live, pipeVars>>

\* pipeDrainDelay is over, after the child's end or after the attempt to kill
\* it: the descriptors are closed.
DrainExpires ==
  /\ at = "draining" \/ (at = "waiting" /\ watched)
  /\ "copier" \in live /\ ~expired
  /\ expired' = TRUE
  /\ out' = IF out = "open" THEN "cut" ELSE out
  /\ UNCHANGED <<childVars, at, late, watched, live, pipeVars>>

\* Wrong: os/exec is given stdin as it is, and waits for its copier as well.
Drained_StdinToo == live = {}

\* setStdin hands os/exec a descriptor: it has the outputs to wait for.
Drained == "copier" \notin live

\* The error of Wait.
WaitError ==
  IF child # "ok" THEN "status"
  ELSE IF watched THEN "ctx"
  ELSE IF expired \/ out = "cut" THEN "pipe" ELSE "none"

\* Wrong: the exit status is looked at before ctx.
IsValue_StatusFirst == WaitError \in {"none", "status"}

\* Run: no error at all; or ctx is not done, and there is an exit status.
IsValue == WaitError = "none" \/ (~late /\ WaitError = "status")

RunReturns ==
  /\ ~Streaming /\ at = "draining" /\ Drained
  /\ at' = IF IsValue THEN "value" ELSE "error"
  /\ UNCHANGED <<childVars, late, watched, expired, out, live, pipeVars>>

EndOfStream == IF WaitError = "none" THEN "eof" ELSE "err"

\* Stream: CloseWithError, of which the first on a pipe counts.
StreamFinishes ==
  /\ Streaming /\ at = "draining" /\ Drained
  /\ at' = IF WaitError = "none" THEN "value" ELSE "error"
  /\ pipe' = IF pipe = "open" THEN EndOfStream ELSE pipe
  /\ UNCHANGED <<childVars, late, watched, expired, out, live, reader>>

---------------------------------------------------------------------------
(***************************************************************************)
(* The reader of a stream (cli.Events), and stream.Close.                  *)
(***************************************************************************)
\* It waits for whoever takes its event, and goes on.
ReaderStalls ==
  /\ reader = "reading" /\ pipe = "open" /\ reader' = "stalled"
  /\ UNCHANGED <<childVars, at, late, watched, expired, out, live, pipe>>

ReaderResumes ==
  /\ reader = "stalled" /\ reader' = "reading"
  /\ UNCHANGED <<childVars, at, late, watched, expired, out, live, pipe>>

\* Wrong: Close only cancels and waits.
ClosesPipe_Not == UNCHANGED pipe

ClosesPipe == pipe' = IF pipe = "open" THEN "closed" ELSE pipe

\* It is told of the end, or stops waiting because ctx is done, and closes.
ReaderCloses ==
  /\ \/ reader = "reading" /\ pipe # "open"
     \/ reader = "stalled" /\ late
  /\ reader' = "closing" /\ late' = TRUE /\ ClosesPipe
  /\ UNCHANGED <<childVars, at, watched, expired, out, live>>

\* Close returns when the child has been waited for.
ReaderClosed ==
  /\ reader = "closing" /\ at \in Over
  /\ reader' = "gone"
  /\ UNCHANGED <<childVars, at, late, watched, expired, out, live, pipe>>

---------------------------------------------------------------------------
\* Nothing more can happen.
Finished ==
  /\ at \in Over /\ live = {} /\ ~holder /\ reader \in {"none", "gone"}
  /\ UNCHANGED vars

Next ==
  \/ Start \/ ChildExits \/ HolderExits \/ Expire \/ Kill
  \/ OutputEnds \/ CopierEnds \/ StdinEnds
  \/ ChildReaped \/ DrainExpires \/ RunReturns \/ StreamFinishes
  \/ ReaderStalls \/ ReaderResumes \/ ReaderCloses \/ ReaderClosed
  \/ Finished

Spec == Init /\ [][Next]_vars

(***************************************************************************)
(* The goroutines and timers run.  Neither the child nor a grandchild need *)
(* ever end by itself, and the child need not read its stdin.  An output   *)
(* that has ended is finite, so a reader that goes on every time comes to  *)
(* the end of it: the copier's fairness is strong.                         *)
(***************************************************************************)
Fairness ==
  /\ WF_vars(Kill) /\ WF_vars(OutputEnds)
  /\ SF_vars(out # "open" /\ CopierEnds)
  /\ WF_vars(child # "running" /\ StdinEnds)
  /\ WF_vars(ChildReaped) /\ WF_vars(DrainExpires)
  /\ WF_vars(RunReturns) /\ WF_vars(StreamFinishes)
  /\ WF_vars(ReaderResumes) /\ WF_vars(ReaderCloses) /\ WF_vars(ReaderClosed)

FairSpec == Spec /\ Fairness

---------------------------------------------------------------------------
(***************************************************************************)
(* Properties.                                                             *)
(***************************************************************************)
Calls == Runs \cup Streams
If(P) == IF P THEN {call} ELSE {}

\* The contract of an executor.  A status other than zero hides that the
\* output was cut off (os/exec), so the end of its output may be lost.
Contract == INSTANCE Executor WITH
  answer <- [x \in Calls |-> IF x = call /\ at \in Over THEN at ELSE "none"],
  exited <- If(child \in {"ok", "bad"}),
  whole <- If(out = "whole"),
  lost <- If(child = "bad"),
  given <- If(late /\ ~rooted)

\* Run and Stream keep the contract: a command that was killed has no value,
\* an output cut off is no value with status zero (local.go:67-76).
LocalImplements == Contract!Spec

\* Run returns once its ctx is done, whatever holds its pipes, unless the
\* child is root's (pipeDrainDelay and setStdin, local.go:21-31, 143-158).
LocalReturns == Contract!RunsReturn

\* Whoever reads a stream hears of the end of its child and is let go, though
\* a grandchild holds its output (Stream, local.go:105-109).
LocalReaderHears == child \in Ended ~> reader \in {"none", "gone"}

\* The inductive invariant behind LocalImplements.  A child that was killed was
\* given up, and by someone who may; what reads no more has seen the end of the
\* output; nobody has to wait for an output that was closed under its copier;
\* and a stream ends for its reader when its child has ended, or by its doing.
LocalInvariant ==
  /\ TypeOK
  /\ at = "idle" =>
       child = "none" /\ live = {} /\ out = "open" /\ reader = "none"
  /\ at = "draining" => child \in Ended
  /\ at \in {"waiting", "draining"} /\ "copier" \notin live => out # "open"
  /\ child = "killed" => late /\ watched /\ ~rooted
  /\ expired => out # "open"
  /\ out = "cut" => expired \/ pipe # "open"
  /\ pipe \in {"eof", "err"} => at \in Over /\ child \in Ended
  /\ pipe = "closed" => late
  /\ pipe = "eof" => child = "ok" /\ out = "whole"

\* A call that is over leaves no goroutine behind, also of a command that did
\* not read its stdin (setStdin, local.go:152-155).
LocalLeavesNothing == at \in Over ~> live = {}
=============================================================================
