------------------------------ MODULE Executor ------------------------------
(***************************************************************************)
(* What runtime and machine rely on when they hand a command to an         *)
(* executor (executor/executor.go), over whichever way: Run answers with a *)
(* value only for a command that has left an exit status of its own, and   *)
(* then with all of its output, unless the way to the machine was lost; a  *)
(* stream ends under the same terms; an answer is final; and whoever has   *)
(* given up waiting is answered.  Ssh and Local implement it.              *)
(***************************************************************************)
CONSTANTS Runs, Streams  \* calls of Run and of Stream

VARIABLES
  answer, \* answer[x]: "none", then "value" (end of file) or "error"
  exited, \* the calls whose command has left an exit status
  whole,  \* the calls whose output has come to its end
  lost,   \* the calls that may have lost the end of their output
  given   \* the calls whose ctx is done

vars == <<answer, exited, whole, lost, given>>

Calls == Runs \cup Streams

Init ==
  /\ answer = [x \in Calls |-> "none"]
  /\ exited = {} /\ whole = {} /\ lost = {} /\ given = {}

\* What happens to a command and its way stays so.
Grows ==
  /\ exited \subseteq exited' /\ whole \subseteq whole'
  /\ lost \subseteq lost' /\ given \subseteq given'

\* A value is the status and the output; anything else is an error.
Answers(x) ==
  \/ answer'[x] = "value" /\ x \in exited /\ x \in whole \cup lost
  \/ answer'[x] = "error"

\* Several calls may be answered at once, when what they share is lost.
Next ==
  /\ Grows
  /\ answer' \in [Calls -> {"none", "value", "error"}]
  /\ \A x \in Calls :
       answer'[x] = answer[x] \/ (answer[x] = "none" /\ Answers(x))

Spec == Init /\ [][Next]_vars

\* A call of Run whose ctx is done returns.
RunsReturn == \A x \in Runs : x \in given ~> answer[x] # "none"
=============================================================================
