-------------------------------- MODULE Plan --------------------------------
(***************************************************************************)
(* The pure decisions of internal/plan: how many runners a scale set may   *)
(* and should run, which slots of a machine are taken, where the next unit *)
(* goes, and what a resynchronisation does with a unit.  Units and         *)
(* machines are passed in as functions and sets; there is no state here.   *)
(*                                                                         *)
(* Unit states are those of domain.UnitState that the code assigns.        *)
(* "Absent" stands for an id that is not in Controller.units: Removed is   *)
(* never assigned, the entry is deleted instead.  Draining is never        *)
(* assigned either (scale-down is a later phase of the program).           *)
(***************************************************************************)
EXTENDS Integers, FiniteSets, FiniteSetsExt

LiveStates == {"Creating", "Starting", "Running"}
KnownStates == LiveStates \cup {"Dying"}
UnitStates == KnownStates \cup {"Absent"}
Healths == {"Healthy", "Unhealthy", "Failed"}

AtLeastZero(n) == IF n < 0 THEN 0 ELSE n
Lesser(a, b) == IF a < b THEN a ELSE b
Greater(a, b) == IF a > b THEN a ELSE b

\* Capacity: what the healthy machines carry together, cut at MaxRunners.
Capacity(maxRunners, health, effMax) ==
  LET healthy == {m \in DOMAIN health : health[m] = "Healthy"}
      sum == MapThenSumSet(LAMBDA m : AtLeastZero(effMax[m]), healthy)
  IN  AtLeastZero(Lesser(maxRunners, sum))

\* Desired: how many runners there should be now.
Desired(capacity, minRunners, assigned) ==
  AtLeastZero(Lesser(capacity, Greater(minRunners, assigned)))

\* Running: the units that can take a job now or soon.  Dying is left out.
Running(state) == {u \in DOMAIN state : state[u] \in LiveStates}

\* Occupies: a unit holds a slot of its machine while it is live, and while
\* it is dying as long as some part of it is known to be left there.
Occupies(st, hasParts) == st \in LiveStates \/ (st = "Dying" /\ hasParts)

\* Occupied: the slots of machine m that are taken.
Occupied(state, mach, parts, m) ==
  Cardinality({u \in DOMAIN state :
                 mach[u] = m /\ Occupies(state[u], parts[u])})

\* betterCandidate without its last two tie-breaks (oldest LastPlacedAt, then
\* the order of the YAML file): lower use of the machine, compared crosswise,
\* then more free slots.
Better(a, b, occ, effMax) ==
  LET useA == occ[a] * effMax[b]
      useB == occ[b] * effMax[a]
  IN  \/ useA < useB
      \/ useA = useB /\ effMax[a] - occ[a] > effMax[b] - occ[b]

\* Spread: the machines the next unit may go to.  More than one is left when
\* only the time of the last placement, or the file order, tells them apart.
Spread(health, effMax, occ) ==
  LET free == {m \in DOMAIN health :
                 health[m] = "Healthy" /\ effMax[m] > 0 /\ occ[m] < effMax[m]}
  IN  {m \in free : \A k \in free : ~Better(k, m, occ, effMax)}

\* How many more units fit on the healthy machines, occ being taken.
FreeSlots(health, effMax, occ) ==
  MapThenSumSet(LAMBDA m : AtLeastZero(effMax[m] - occ[m]),
                {m \in DOMAIN health : health[m] = "Healthy"})

\* Reconcile, for one unit id: what the resynchronisation of its machine does.
\* st is the state the controller holds ("Creating" also for a unit whose
\* start was reported after the snapshot was taken), runner is what the
\* snapshot shows of the runner container, rest is whether it shows any other
\* part of the unit.
Verdict(st, runner, rest) ==
  CASE st = "Dying"                                         -> "RemoveUnit"
    [] st = "Absent" /\ runner = "alive"                    -> "Adopt"
    [] st = "Absent" /\ runner = "dead"                     -> "RemoveUnit"
    [] st = "Absent" /\ runner = "none" /\ rest             -> "RemoveOrphan"
    [] st \in {"Starting", "Running"} /\ runner # "alive"   -> "RemoveUnit"
    [] OTHER                                                -> "None"
=============================================================================
