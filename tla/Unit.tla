-------------------------------- MODULE Unit --------------------------------
(***************************************************************************)
(* What the controller promises of the life of one unit, to the machine    *)
(* that holds its container, to GitHub that holds its registration, and to *)
(* the job the runner may get: what there is of a unit appears while it is *)
(* launched and at no other time, the registration goes before the         *)
(* container, neither goes from a job or from a unit that is up, and       *)
(* nothing is left of a unit that is given up.  Messages, goroutines,      *)
(* snapshots, retries and the other units are not in sight.  Fleet         *)
(* implements it for every unit whose launch meets its deadline.           *)
(***************************************************************************)
VARIABLES
  phase,      \* "ahead", "launching", "up", "dying" or "gone"
  container,  \* its runner container
  registered, \* whether GitHub has its registration
  job         \* whether the runner got a job, and where that is

vars == <<phase, container, registered, job>>

\* The unit is to come, or parts of it are left from an earlier incarnation of
\* the controller: then it may be in the middle of a job.
Init ==
  \/ /\ phase = "ahead"
     /\ container = "none" /\ registered = FALSE /\ job = "no"
  \/ /\ phase = "gone"
     /\ container \in {"created", "running", "exited"}
     /\ registered \in BOOLEAN
     /\ \/ job = "no"
        \/ job = "running" /\ container = "running" /\ registered
        \/ job = "done" /\ container # "created"

(***************************************************************************)
(* What the controller takes the unit for.                                 *)
(***************************************************************************)
MovesTo(p) == phase' = p /\ UNCHANGED <<container, registered, job>>

\* An id is used once.
Launch == phase = "ahead" /\ MovesTo("launching")

\* A launch succeeds only if the runner was started.
ComesUp ==
  phase = "launching" /\ container \in {"running", "exited"} /\ MovesTo("up")

\* A failed launch, an exit, a lost registration.
Dies == phase \in {"launching", "up"} /\ MovesTo("dying")

\* A snapshot shows a unit the controller does not know (any more).
Found == phase = "gone" /\ (MovesTo("up") \/ MovesTo("dying"))

Forget ==
  phase = "dying" /\ container = "none" /\ ~registered /\ MovesTo("gone")

(***************************************************************************)
(* What the controller does at GitHub and on the machine.                  *)
(***************************************************************************)
Register ==
  /\ phase = "launching"
  /\ registered' = TRUE
  /\ UNCHANGED <<phase, container, job>>

Create ==
  /\ phase = "launching" /\ registered /\ container = "none"
  /\ container' = "created"
  /\ UNCHANGED <<phase, registered, job>>

Start ==
  /\ phase = "launching" /\ registered /\ container = "created"
  /\ container' = "running"
  /\ UNCHANGED <<phase, registered, job>>

Deregister ==
  /\ phase \in {"launching", "dying"} /\ job # "running"
  /\ registered' = FALSE
  /\ UNCHANGED <<phase, container, job>>

Remove ==
  /\ phase \in {"launching", "dying"} /\ ~registered
  /\ container' = "none"
  /\ UNCHANGED <<phase, registered, job>>

(***************************************************************************)
(* What happens by itself, whatever the controller takes the unit for.     *)
(***************************************************************************)
JobStarts ==
  /\ job = "no" /\ container = "running" /\ registered
  /\ job' = "running"
  /\ UNCHANGED <<phase, container, registered>>

\* The ephemeral runner takes its registration away.
JobEnds ==
  /\ job = "running"
  /\ job' = "done" /\ registered' = FALSE
  /\ UNCHANGED <<phase, container>>

Exits ==
  /\ container = "running"
  /\ container' = "exited"
  /\ job' = IF job = "running" THEN "done" ELSE job
  /\ UNCHANGED <<phase, registered>>

\* GitHub drops a runner that stays away.
Expires ==
  /\ registered /\ container # "running"
  /\ registered' = FALSE
  /\ UNCHANGED <<phase, container, job>>

Next ==
  \/ Launch \/ ComesUp \/ Dies \/ Found \/ Forget
  \/ Register \/ Create \/ Start \/ Deregister \/ Remove
  \/ JobStarts \/ JobEnds \/ Exits \/ Expires

Spec == Init /\ [][Next]_vars
=============================================================================
