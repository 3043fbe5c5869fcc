----------------------------- MODULE AgentProofs -----------------------------
(***************************************************************************)
(* Proofs about Agent, for every set of containers, every length of the    *)
(* backoff and any number of turns of the machine.  AgentInvariant is      *)
(* inductive: what is kept of a machine follows from what it has passed,   *)
(* the health told from where the round is, and what the reader holds      *)
(* covers every exit since the snapshot.  Its Boolean variables (Flags)    *)
(* are typed apart from the rest (Sound).                                  *)
(***************************************************************************)
EXTENDS Agent, TLAPS, FiniteSetTheorems

Flags ==
  /\ budget \in BOOLEAN /\ image \in BOOLEAN
  /\ live \in BOOLEAN /\ verified \in BOOLEAN /\ prePulled \in BOOLEAN
  /\ first \in BOOLEAN /\ served \in BOOLEAN /\ fatal \in BOOLEAN
  /\ aged \in BOOLEAN /\ deferred \in BOOLEAN /\ ectx \in BOOLEAN
  /\ notified \in BOOLEAN /\ stop \in BOOLEAN /\ proven \in BOOLEAN

Sorted ==
  /\ local \in Locals /\ podman \in Podmans
  /\ turns \in 0..MaxTurns /\ exited \subseteq Ctrs
  /\ path \in {"unset", "plain", "sudo"}
  /\ at \in Places /\ seen \subseteq Ctrs
  /\ streamer \in {"none", "reading", "offering", "closing", "ended"}
  /\ stream \subseteq Ctrs /\ offered \subseteq Ctrs
  /\ pull \in {"none", "pulling", "ok", "err"}
  /\ believed \in {"unknown", "Healthy", "Unhealthy", "Failed"}
  /\ told \subseteq Ctrs /\ lookedBy \subseteq {"plain", "sudo"}
  /\ next \in 0..BackoffMax /\ shorts \in 0..BackoffMax

Sound ==
  /\ Sorted
  /\ LiveIsJudged /\ PathKept /\ DownIsTold /\ RoundSound
  /\ HealthIsTrue /\ ExitsCovered
  /\ next >= shorts

LEMMA Parts == AgentInvariant <=> Flags /\ Sound
BY DEF AgentInvariant, TypeOK, Flags, Sound, Sorted

---------------------------------------------------------------------------
(***************************************************************************)
(* The Booleans: each step leaves alone what it does not name, and gives   *)
(* the others a truth value.                                               *)
(***************************************************************************)
LEMMA EnvironmentKeepsFlags ==
  ASSUME Flags, Environment
  PROVE  Flags'
<1> USE DEF backoffVars, knownVars, machineVars, roundVars, streamVars,
            toldVars
<1>1. CASE Turn
  <2>1. UNCHANGED <<live, verified, prePulled, first, served, fatal, aged,
                    deferred, ectx, notified, stop, proven>>
    BY <1>1 DEF Turn
  <2>2. budget' \in BOOLEAN /\ image' \in BOOLEAN
    BY <1>1, Zenon DEF Flags, Turn
  <2> QED  BY <2>1, <2>2 DEF Flags
<1>2. CASE Stop
  <2>1. UNCHANGED <<budget, image, live, verified, prePulled, first, served,
                    fatal, aged, deferred, ectx, notified, proven>>
    BY <1>2 DEF Stop
  <2>2. stop' \in BOOLEAN
    BY <1>2, Zenon DEF Flags, Stop
  <2> QED  BY <2>1, <2>2 DEF Flags
<1>3. CASE Age
  <2>1. UNCHANGED <<budget, image, live, verified, prePulled, first, served,
                    fatal, deferred, ectx, notified, stop, proven>>
    BY <1>3 DEF Age
  <2>2. aged' \in BOOLEAN
    BY <1>3, Zenon DEF Flags, Age
  <2> QED  BY <2>1, <2>2 DEF Flags
<1>4. CASE \E c \in Ctrs : Exit(c)
  BY <1>4 DEF Flags, Exit
<1> QED  BY <1>1, <1>2, <1>3, <1>4 DEF Environment

LEMMA ReachingKeepsFlags ==
  ASSUME Flags, Reaching
  PROVE  Flags'
<1> USE DEF backoffVars, knownVars, machineVars, roundVars, streamVars,
            toldVars
<1>1. CASE ConnectFails
  <2>1. UNCHANGED <<budget, image, live, verified, prePulled, first, served,
                    aged, deferred, ectx, notified, stop>>
    BY <1>1 DEF ConnectFails, Unreached, BootOver, RoundFails
  <2>2. fatal' \in BOOLEAN /\ proven' \in BOOLEAN
    BY <1>1, Zenon DEF Flags, ConnectFails, Unreached, BootOver, RoundFails
  <2> QED  BY <2>1, <2>2 DEF Flags
<1>2. CASE Connect
  <2>1. UNCHANGED <<budget, image, prePulled, first, served, aged, ectx,
                    notified, stop>>
    BY <1>2 DEF Connect, PathsTried, JudgeBudget, Contradicts, Defers,
       Unreached, BootOver, RoundFails
  <2>2. /\ live' \in BOOLEAN /\ verified' \in BOOLEAN /\ fatal' \in BOOLEAN
        /\ deferred' \in BOOLEAN /\ proven' \in BOOLEAN
    BY <1>2, Zenon DEF Flags, Connect, PathsTried, JudgeBudget, Contradicts,
       Defers, Unreached, BootOver, RoundFails
  <2> QED  BY <2>1, <2>2 DEF Flags
<1>3. CASE PrePull
  <2>1. UNCHANGED <<budget, verified, first, served, fatal, aged, deferred,
                    ectx, notified, stop>>
    BY <1>3 DEF PrePull, PullOk, BootOver
  <2>2. /\ image' \in BOOLEAN /\ live' \in BOOLEAN /\ prePulled' \in BOOLEAN
        /\ proven' \in BOOLEAN
    BY <1>3, Zenon DEF Flags, PrePull, PullOk, BootOver
  <2> QED  BY <2>1, <2>2 DEF Flags
<1>4. CASE PrePullFails
  <2>1. UNCHANGED <<budget, image, live, verified, prePulled, first, served,
                    aged, deferred, ectx, notified, stop>>
    BY <1>4 DEF PrePullFails, Unreached, BootOver, RoundFails
  <2>2. fatal' \in BOOLEAN /\ proven' \in BOOLEAN
    BY <1>4, Zenon DEF Flags, PrePullFails, Unreached, BootOver, RoundFails
  <2> QED  BY <2>1, <2>2 DEF Flags
<1>5. CASE RoundBegins
  <2>1. UNCHANGED <<budget, image, live, verified, prePulled, first, notified,
                    stop, proven>>
    BY <1>5 DEF RoundBegins
  <2>2. /\ served' \in BOOLEAN /\ fatal' \in BOOLEAN /\ aged' \in BOOLEAN
        /\ deferred' \in BOOLEAN /\ ectx' \in BOOLEAN
    BY <1>5, Zenon DEF Flags, RoundBegins
  <2> QED  BY <2>1, <2>2 DEF Flags
<1>6. CASE OpenTimesOut
  <2>1. UNCHANGED <<budget, image, live, verified, prePulled, first, served,
                    fatal, aged, deferred, notified, stop, proven>>
    BY <1>6 DEF OpenTimesOut, Watchdog
  <2>2. ectx' \in BOOLEAN
    BY <1>6, Zenon DEF Flags, OpenTimesOut, Watchdog
  <2> QED  BY <2>1, <2>2 DEF Flags
<1>7. CASE Opened
  BY <1>7 DEF Flags, Opened
<1>8. CASE OpenFails
  BY <1>8 DEF Flags, OpenFails
<1>9. CASE ProbeFails
  <2>1. UNCHANGED <<budget, image, live, verified, prePulled, first, served,
                    aged, deferred, notified, stop, proven>>
    BY <1>9 DEF ProbeFails, GiveUp
  <2>2. fatal' \in BOOLEAN /\ ectx' \in BOOLEAN
    BY <1>9, Zenon DEF Flags, ProbeFails, GiveUp
  <2> QED  BY <2>1, <2>2 DEF Flags
<1>10. CASE Info
  <2>1. UNCHANGED <<budget, image, live, prePulled, first, served, aged,
                    deferred, notified, stop, proven>>
    BY <1>10 DEF Info, GiveUp, JudgeBudget, Contradicts
  <2>2. verified' \in BOOLEAN /\ fatal' \in BOOLEAN /\ ectx' \in BOOLEAN
    BY <1>10, Zenon DEF Flags, Info, GiveUp, JudgeBudget, Contradicts
  <2> QED  BY <2>1, <2>2 DEF Flags
<1>11. CASE Observe
  BY <1>11 DEF Flags, Observe
<1>12. CASE EndedEarly
  <2>1. UNCHANGED <<budget, image, live, verified, prePulled, first, served,
                    aged, deferred, notified, stop, proven>>
    BY <1>12 DEF EndedEarly, GiveUp
  <2>2. fatal' \in BOOLEAN /\ ectx' \in BOOLEAN
    BY <1>12, Zenon DEF Flags, EndedEarly, GiveUp
  <2> QED  BY <2>1, <2>2 DEF Flags
<1>13. CASE Resynced
  <2>1. UNCHANGED <<budget, image, live, verified, prePulled, first, fatal,
                    aged, deferred, ectx, stop>>
    BY <1>13 DEF Resynced, EventsKept, ErrChFilled
  <2>2. served' \in BOOLEAN /\ notified' \in BOOLEAN /\ proven' \in BOOLEAN
    BY <1>13, Zenon DEF Flags, Resynced, EventsKept, ErrChFilled
  <2> QED  BY <2>1, <2>2 DEF Flags
<1> QED  BY <1>1, <1>2, <1>3, <1>4, <1>5, <1>6, <1>7, <1>8, <1>9, <1>10,
            <1>11, <1>12, <1>13 DEF Reaching

LEMMA StreamingKeepsFlags ==
  ASSUME Flags, Streaming
  PROVE  Flags'
<1> USE DEF backoffVars, knownVars, machineVars, roundVars, streamVars,
            toldVars
<1>1. CASE StreamerReads
  BY <1>1 DEF Flags, StreamerReads, StreamerGoes
<1>2. CASE StreamerEnds
  BY <1>2 DEF Flags, StreamerEnds, StreamerGoes
<1>3. CASE StreamerCancelled
  BY <1>3 DEF Flags, StreamerCancelled, OfferGivenUp, StreamerGoes
<1>4. CASE StreamerCloses
  BY <1>4 DEF Flags, StreamerCloses, StreamerGoes
<1>5. CASE PullSucceeds
  <2>1. UNCHANGED <<budget, live, verified, prePulled, first, served, fatal,
                    aged, deferred, ectx, notified, stop, proven>>
    BY <1>5 DEF PullSucceeds, PullOk, PullGoes
  <2>2. image' \in BOOLEAN
    BY <1>5, Zenon DEF Flags, PullSucceeds, PullOk, PullGoes
  <2> QED  BY <2>1, <2>2 DEF Flags
<1>6. CASE PullFails
  BY <1>6 DEF Flags, PullFails, PullGoes
<1> QED  BY <1>1, <1>2, <1>3, <1>4, <1>5, <1>6 DEF Streaming

LEMMA ServingKeepsFlags ==
  ASSUME Flags, Serving
  PROVE  Flags'
<1> USE DEF backoffVars, knownVars, machineVars, roundVars, streamVars,
            toldVars
<1>1. CASE Event
  BY <1>1 DEF Flags, Event, MayReceive
<1>2. CASE PullOver
  <2>1. UNCHANGED <<budget, image, live, verified, first, served, aged,
                    deferred, notified, stop, proven>>
    BY <1>2 DEF PullOver, GiveUp
  <2>2. prePulled' \in BOOLEAN /\ fatal' \in BOOLEAN /\ ectx' \in BOOLEAN
    BY <1>2, Zenon DEF Flags, PullOver, GiveUp
  <2> QED  BY <2>1, <2>2 DEF Flags
<1>3. CASE StreamOver
  <2>1. UNCHANGED <<budget, image, live, verified, prePulled, first, served,
                    aged, deferred, notified, stop, proven>>
    BY <1>3 DEF StreamOver, GiveUp
  <2>2. fatal' \in BOOLEAN /\ ectx' \in BOOLEAN
    BY <1>3, Zenon DEF Flags, StreamOver, GiveUp
  <2> QED  BY <2>1, <2>2 DEF Flags
<1>4. CASE Discard
  BY <1>4 DEF Flags, Discard
<1>5. CASE Drained
  BY <1>5 DEF Flags, Drained
<1> QED  BY <1>1, <1>2, <1>3, <1>4, <1>5 DEF Serving

LEMMA RunningKeepsFlags ==
  ASSUME Flags, Running
  PROVE  Flags'
<1> USE DEF backoffVars, knownVars, machineVars, roundVars, streamVars,
            toldVars
<1>1. CASE RunStops
  BY <1>1 DEF Flags, RunStops, Ended
<1>2. CASE RunFails
  <2>1. UNCHANGED <<budget, image, verified, prePulled, first, served, fatal,
                    aged, deferred, ectx, stop, proven>>
    BY <1>2 DEF RunFails, Ended, Dropped
  <2>2. live' \in BOOLEAN /\ notified' \in BOOLEAN
    BY <1>2, Zenon DEF Flags, RunFails, Ended, Dropped
  <2> QED  BY <2>1, <2>2 DEF Flags
<1>3. CASE RunRetries
  <2>1. UNCHANGED <<budget, image, verified, prePulled, served, fatal, aged,
                    deferred, ectx, stop, proven>>
    BY <1>3 DEF RunRetries, Dropped, Reported, NextStep, ResetsBackoff, Lesser
  <2>2. live' \in BOOLEAN /\ notified' \in BOOLEAN /\ first' \in BOOLEAN
    BY <1>3, Zenon DEF Flags, RunRetries, Dropped, Reported, NextStep,
       ResetsBackoff, Lesser
  <2> QED  BY <2>1, <2>2 DEF Flags
<1>4. CASE RunWaited
  BY <1>4 DEF Flags, RunWaited
<1> QED  BY <1>1, <1>2, <1>3, <1>4 DEF Running

---------------------------------------------------------------------------
(***************************************************************************)
(* The rest of the invariant: first the steps with several outcomes.       *)
(***************************************************************************)
\* A connection that fails leaves the machine unhealthy, or the round over.
LEMMA ConnectFailsSound ==
  ASSUME Sound, ConnectFails
  PROVE  Sound'
<1> USE AgentAssumption DEF Sound, Sorted, LiveIsJudged, PathKept, DownIsTold,
        RoundSound, HealthIsTrue, ExitsCovered, InRound, Places, backoffVars,
        knownVars, machineVars, roundVars, streamVars, toldVars
<1>1. CASE at = "boot"
  <2>1. ~proven' /\ believed' = "Unhealthy" /\ at' = "round"
    BY <1>1 DEF ConnectFails, Unreached, BootOver
  <2>2. UNCHANGED <<machineVars, knownVars, streamVars, pull, backoffVars,
                    stop, told, notified, lookedBy, roundVars>>
    BY <1>1 DEF ConnectFails, Unreached, BootOver
  <2> QED  BY <1>1, <2>1, <2>2
<1>2. CASE at # "boot"
  <2>1. at = "connect" /\ ~fatal' /\ at' = "over"
    BY <1>2 DEF ConnectFails, Unreached, RoundFails
  <2>2. UNCHANGED <<machineVars, knownVars, streamVars, pull, backoffVars,
                    stop, toldVars, first, served, seen>>
    BY <1>2 DEF ConnectFails, Unreached, RoundFails
  <2> QED  BY <1>2, <2>1, <2>2
<1> QED  BY <1>1, <1>2

\* A machine answers: its path is kept, its budget judged.
LEMMA ConnectSound ==
  ASSUME Sound, Connect
  PROVE  Sound'
<1> USE AgentAssumption DEF Sound, Sorted, LiveIsJudged, PathKept, DownIsTold,
        RoundSound, HealthIsTrue, ExitsCovered, InRound, Places, backoffVars,
        knownVars, machineVars, roundVars, streamVars, toldVars
<1>0. /\ path' \in {"plain", "sudo"} /\ path' # "unset"
      /\ podman \/ path' = "plain"
      /\ path = "unset" \/ path' = path
  BY DEF Connect, PathsTried
<1>1. UNCHANGED <<machineVars, prePulled, streamVars, pull, backoffVars, told,
                  lookedBy, seen, first, served>>
  BY DEF Connect, Unreached, BootOver, RoundFails
<1>2. CASE Contradicts
  <2>1. ~verified /\ ~verified' /\ live' = live
    BY <1>2 DEF Connect, Contradicts, JudgeBudget
  <2>2. CASE at = "boot"
    <3>1. ~proven' /\ at' = "ended" /\ believed' = "unknown" /\ fatal' = fatal
      BY <1>2, <2>2 DEF Connect, Unreached, BootOver
    <3> QED  BY <1>0, <1>1, <2>1, <2>2, <3>1
  <2>3. CASE at # "boot"
    <3>1. /\ proven' = proven
          /\ at = "connect"
          /\ at' = "over"
          /\ believed' = believed
      BY <1>2, <2>3 DEF Connect, Unreached, RoundFails
    <3> QED  BY <1>0, <1>1, <2>1, <2>3, <3>1
  <2> QED  BY <2>2, <2>3
<1>3. CASE ~Contradicts
  <2>1. verified' /\ UNCHANGED <<fatal, believed, proven>>
    BY <1>3 DEF Connect, Contradicts, JudgeBudget
  <2>2. \/ at = "boot" /\ at' = "bootPull" /\ live' = live
        \/ at = "connect" /\ at' = "pull" /\ live' = live
        \/ at = "connect" /\ prePulled /\ at' = "opening" /\ live'
    BY <1>3 DEF Connect, Defers
  <2>3. ~fatal
    BY <2>2
  <2> QED  BY <1>0, <1>1, <2>1, <2>2, <2>3
<1> QED  BY <1>2, <1>3

\* A pull that fails leaves the machine unhealthy, or the round over.
LEMMA PrePullFailsSound ==
  ASSUME Sound, PrePullFails
  PROVE  Sound'
<1> USE AgentAssumption DEF Sound, Sorted, LiveIsJudged, PathKept, DownIsTold,
        RoundSound, HealthIsTrue, ExitsCovered, InRound, Places, backoffVars,
        knownVars, machineVars, roundVars, streamVars, toldVars
<1>1. CASE at = "bootPull"
  <2>1. ~proven' /\ believed' = "Unhealthy" /\ at' = "round"
    BY <1>1 DEF PrePullFails, Unreached, BootOver
  <2>2. UNCHANGED <<machineVars, knownVars, streamVars, pull, backoffVars,
                    told, lookedBy, roundVars>>
    BY <1>1 DEF PrePullFails, Unreached, BootOver
  <2> QED  BY <1>1, <2>1, <2>2
<1>2. CASE at # "bootPull"
  <2>1. at = "pull" /\ ~fatal' /\ at' = "over"
    BY <1>2 DEF PrePullFails, Unreached, RoundFails
  <2>2. UNCHANGED <<machineVars, knownVars, streamVars, pull, backoffVars,
                    toldVars, first, served, seen>>
    BY <1>2 DEF PrePullFails, Unreached, RoundFails
  <2> QED  BY <1>2, <2>1, <2>2
<1> QED  BY <1>1, <1>2

\* A round past its connection has a verified machine, so no budget is fatal.
LEMMA InfoSound ==
  ASSUME Sound, Info
  PROVE  Sound'
<1> USE AgentAssumption DEF Sound, Sorted, LiveIsJudged, PathKept, DownIsTold,
        RoundSound, HealthIsTrue, ExitsCovered, InRound, Places, backoffVars,
        knownVars, machineVars, roundVars, streamVars, toldVars
<1>1. verified /\ verified'
  BY DEF Info, JudgeBudget
<1>2. at = "info" /\ at' = "observe" /\ UNCHANGED roundVars
  BY <1>1 DEF Info, Contradicts
<1> QED  BY <1>1, <1>2 DEF Info

\* The deferred pull ends: well, or with the round.
LEMMA PullOverSound ==
  ASSUME Sound, PullOver
  PROVE  Sound'
<1> USE AgentAssumption DEF Sound, Sorted, LiveIsJudged, PathKept, DownIsTold,
        RoundSound, HealthIsTrue, ExitsCovered, InRound, Places, backoffVars,
        knownVars, machineVars, roundVars, streamVars, toldVars
<1>1. CASE pull = "ok"
  BY <1>1 DEF PullOver
<1>2. CASE pull # "ok"
  <2>1. ~fatal' /\ at' = "draining" /\ pull' = "none"
    BY <1>2 DEF PullOver, GiveUp
  <2>2. UNCHANGED <<machineVars, knownVars, streamVars, first, served, seen,
                    toldVars, backoffVars>>
    BY <1>2 DEF PullOver, GiveUp
  <2> QED  BY <1>2, <2>1, <2>2 DEF PullOver
<1> QED  BY <1>1, <1>2

\* The end of a round that is tried again.
LEMMA RunRetriesSound ==
  ASSUME Sound, RunRetries
  PROVE  Sound'
<1> USE AgentAssumption DEF Sound, Sorted, LiveIsJudged, PathKept, DownIsTold,
        RoundSound, HealthIsTrue, ExitsCovered, InRound, Places, backoffVars,
        knownVars, machineVars, roundVars, streamVars, toldVars
<1>1. next' \in 0..BackoffMax /\ shorts' \in 0..BackoffMax /\ next' >= shorts'
  BY DEF RunRetries, NextStep, ResetsBackoff, Lesser
<1>2. live' => live
  BY DEF RunRetries, Dropped
<1>3. believed' \in {believed, "Unhealthy"} /\ believed' # "Healthy"
  BY DEF RunRetries, Reported
<1>4. at = "over" /\ at' = "waiting" /\ ~first' /\ ~fatal
  BY DEF RunRetries
<1>5. UNCHANGED <<machineVars, verified, prePulled, path, served, fatal, seen,
                  streamVars, pull, told, lookedBy, proven>>
  BY DEF RunRetries
<1> QED  BY <1>1, <1>2, <1>3, <1>4, <1>5

LEMMA EnvironmentSound ==
  ASSUME Sound, Environment
  PROVE  Sound'
<1> USE AgentAssumption DEF Sound, Sorted, LiveIsJudged, PathKept, DownIsTold,
        RoundSound, HealthIsTrue, ExitsCovered, InRound, Places, backoffVars,
        knownVars, machineVars, roundVars, streamVars, toldVars
<1>1. CASE Turn
  BY <1>1 DEF Turn
<1>2. CASE Stop
  BY <1>2 DEF Stop
<1>3. CASE Age
  BY <1>3 DEF Age
<1>4. CASE \E c \in Ctrs : Exit(c)
  BY <1>4 DEF Exit
<1> QED  BY <1>1, <1>2, <1>3, <1>4 DEF Environment

LEMMA ReachingSound ==
  ASSUME Sound, Reaching
  PROVE  Sound'
<1> USE AgentAssumption DEF Sound, Sorted, LiveIsJudged, PathKept, DownIsTold,
        RoundSound, HealthIsTrue, ExitsCovered, InRound, Places, backoffVars,
        knownVars, machineVars, roundVars, streamVars, toldVars
<1>1. CASE ConnectFails
  BY <1>1, ConnectFailsSound
<1>2. CASE Connect
  BY <1>2, ConnectSound
<1>3. CASE PrePull
  BY <1>3 DEF PrePull, PullOk, BootOver
<1>4. CASE PrePullFails
  BY <1>4, PrePullFailsSound
<1>5. CASE RoundBegins
  BY <1>5 DEF RoundBegins
<1>6. CASE OpenTimesOut
  BY <1>6 DEF OpenTimesOut, Watchdog
<1>7. CASE Opened
  BY <1>7 DEF Opened
<1>8. CASE OpenFails
  BY <1>8 DEF OpenFails
<1>9. CASE ProbeFails
  BY <1>9 DEF ProbeFails, GiveUp
<1>10. CASE Info
  BY <1>10, InfoSound
<1>11. CASE Observe
  BY <1>11 DEF Observe
<1>12. CASE EndedEarly
  BY <1>12 DEF EndedEarly, GiveUp
<1>13. CASE Resynced
  BY <1>13 DEF Resynced, EventsKept, ErrChFilled
<1> QED  BY <1>1, <1>2, <1>3, <1>4, <1>5, <1>6, <1>7, <1>8, <1>9, <1>10,
            <1>11, <1>12, <1>13 DEF Reaching

LEMMA StreamingSound ==
  ASSUME Sound, Streaming
  PROVE  Sound'
<1> USE AgentAssumption DEF Sound, Sorted, LiveIsJudged, PathKept, DownIsTold,
        RoundSound, HealthIsTrue, ExitsCovered, InRound, Places, backoffVars,
        knownVars, machineVars, roundVars, streamVars, toldVars
<1>1. CASE StreamerReads
  BY <1>1 DEF StreamerReads, StreamerGoes
<1>2. CASE StreamerEnds
  BY <1>2 DEF StreamerEnds, StreamerGoes
<1>3. CASE StreamerCancelled
  BY <1>3 DEF StreamerCancelled, OfferGivenUp, StreamerGoes
<1>4. CASE StreamerCloses
  BY <1>4 DEF StreamerCloses, StreamerGoes
<1>5. CASE PullSucceeds
  BY <1>5 DEF PullSucceeds, PullOk, PullGoes
<1>6. CASE PullFails
  BY <1>6 DEF PullFails, PullGoes
<1> QED  BY <1>1, <1>2, <1>3, <1>4, <1>5, <1>6 DEF Streaming

LEMMA ServingSound ==
  ASSUME Sound, Serving
  PROVE  Sound'
<1> USE AgentAssumption DEF Sound, Sorted, LiveIsJudged, PathKept, DownIsTold,
        RoundSound, HealthIsTrue, ExitsCovered, InRound, Places, backoffVars,
        knownVars, machineVars, roundVars, streamVars, toldVars
<1>1. CASE Event
  BY <1>1 DEF Event, MayReceive
<1>2. CASE PullOver
  BY <1>2, PullOverSound
<1>3. CASE StreamOver
  BY <1>3 DEF StreamOver, GiveUp
<1>4. CASE Discard
  BY <1>4 DEF Discard
<1>5. CASE Drained
  BY <1>5 DEF Drained
<1> QED  BY <1>1, <1>2, <1>3, <1>4, <1>5 DEF Serving

LEMMA RunningSound ==
  ASSUME Sound, Running
  PROVE  Sound'
<1> USE AgentAssumption DEF Sound, Sorted, LiveIsJudged, PathKept, DownIsTold,
        RoundSound, HealthIsTrue, ExitsCovered, InRound, Places, backoffVars,
        knownVars, machineVars, roundVars, streamVars, toldVars
<1>1. CASE RunStops
  BY <1>1 DEF RunStops, Ended
<1>2. CASE RunFails
  BY <1>2 DEF RunFails, Ended, Dropped
<1>3. CASE RunRetries
  BY <1>3, RunRetriesSound
<1>4. CASE RunWaited
  BY <1>4 DEF RunWaited
<1> QED  BY <1>1, <1>2, <1>3, <1>4 DEF Running

---------------------------------------------------------------------------
LEMMA InitSound == Init => AgentInvariant
<1> SUFFICES ASSUME Init PROVE AgentInvariant
  OBVIOUS
<1>1. Flags
  BY Zenon DEF Init, Flags
<1>2. Sound
  BY AgentAssumption
  DEF Init, Sound, Sorted, LiveIsJudged, PathKept, DownIsTold, RoundSound,
  HealthIsTrue, ExitsCovered, InRound, Places
<1> QED  BY <1>1, <1>2, Parts

LEMMA NextSound == AgentInvariant /\ [Next]_vars => AgentInvariant'
<1> SUFFICES ASSUME Flags, Sound, [Next]_vars PROVE Flags' /\ Sound'
  BY Parts DEF AgentInvariant, TypeOK, Flags, Sound, Sorted
<1>1. CASE UNCHANGED vars
  <2>1. Flags'
    BY <1>1
    DEF Flags, vars, backoffVars, knownVars, machineVars, roundVars,
    streamVars, toldVars
  <2>2. Sound'
    BY <1>1
    DEF vars, Sound, Sorted, LiveIsJudged, PathKept, DownIsTold, RoundSound,
    HealthIsTrue, ExitsCovered, InRound, Places, backoffVars, knownVars,
    machineVars, roundVars, streamVars, toldVars
  <2> QED  BY <2>1, <2>2
<1>2. CASE Next
  BY <1>2, EnvironmentKeepsFlags, ReachingKeepsFlags, StreamingKeepsFlags,
     ServingKeepsFlags, RunningKeepsFlags, EnvironmentSound, ReachingSound,
     StreamingSound, ServingSound, RunningSound
  DEF Next
<1> QED  BY <1>1, <1>2

\* The inductive invariant holds in every reachable state.
THEOREM AgentIsSound == Spec => []AgentInvariant
BY InitSound, NextSound, PTL DEF Spec

\* The controller takes a machine for healthy while its stream is served and
\* never while its agent waits to try again (Run, agent.go:339-346).
THEOREM HealthIsToldTrue == Spec => []HealthIsTrue
<1>1. AgentInvariant => HealthIsTrue
  BY DEF AgentInvariant
<1> QED  BY <1>1, AgentIsSound, PTL

\* A round that is over has left neither reader nor pull behind (serve drains
\* and waits on every way out).
THEOREM RoundsLeaveNothing == Spec => []NothingRunsOn
<1>1. AgentInvariant => NothingRunsOn
  BY DEF AgentInvariant, TypeOK, RoundSound, NothingRunsOn
<1> QED  BY <1>1, AgentIsSound, PTL

\* No exit falls between snapshot and stream: the stream is opened first
\* (Run, agent.go:317).
THEOREM NoExitFallsBetween == Spec => []ExitsCovered
<1>1. AgentInvariant => ExitsCovered
  BY DEF AgentInvariant
<1> QED  BY <1>1, AgentIsSound, PTL

\* podmanSudo is set once: no snapshot comes from another container storage.
THEOREM PathIsKept == Spec => []OnePath
<1>1. ASSUME AgentInvariant PROVE lookedBy = {} \/ lookedBy = {path}
  BY <1>1 DEF AgentInvariant, PathKept
<1>2. Cardinality({}) = 0 /\ Cardinality({path}) = 1
  BY FS_EmptySet, FS_Singleton
<1>3. AgentInvariant => OnePath
  BY <1>1, <1>2 DEF OnePath
<1> QED  BY <1>3, AgentIsSound, PTL

\* However its resources turn, a machine that was healthy once is never given
\* up (judgeBudget).
THEOREM ProvenIsKept == Spec => []ProvenNeverFails
<1>1. AgentInvariant => ProvenNeverFails
  BY DEF AgentInvariant, LiveIsJudged, ProvenNeverFails
<1> QED  BY <1>1, AgentIsSound, PTL

\* Rounds that end early never shorten the wait (resetsBackoff, Backoff.Next).
THEOREM FlappingIsSlowed == Spec => []FlappingSlowsDown
<1>1. AgentInvariant => FlappingSlowsDown
  BY AgentAssumption DEF AgentInvariant, TypeOK, FlappingSlowsDown, Lesser
<1> QED  BY <1>1, AgentIsSound, PTL
=============================================================================
