----------------------------- MODULE LocalProofs -----------------------------
(***************************************************************************)
(* Proofs about Local, for every set of calls: the inductive invariant, and *)
(* that Run and Stream keep the contract of an executor.                   *)
(***************************************************************************)
EXTENDS Local, TLAPS

LEMMA InitInv == Init => LocalInvariant
BY DEF Init, LocalInvariant, TypeOK, Over, Ended

\* No step changes which call it is, or who may kill its child.
LEMMA CallKept == [Next]_vars => UNCHANGED <<call, rooted>>
BY DEF Next, Start, ChildExits, HolderExits, Expire, Kill, OutputEnds,
       CopierEnds, StdinEnds, ChildReaped, DrainExpires, RunReturns,
       StreamFinishes, ReaderStalls, ReaderResumes, ReaderCloses, ReaderClosed,
       Finished, vars, childVars

Flags ==
  holder \in BOOLEAN /\ late \in BOOLEAN /\ watched \in BOOLEAN
  /\ expired \in BOOLEAN

Typed ==
  /\ call \in Runs \cup Streams /\ rooted \in Sudo
  /\ at \in {"idle", "waiting", "draining"} \cup Over
  /\ child \in {"none", "running"} \cup Ended
  /\ out \in {"open", "whole", "cut"}
  /\ live \subseteq {"copier", "stdin"}
  /\ pipe \in {"open", "eof", "err", "closed"}
  /\ reader \in {"none", "reading", "stalled", "closing", "gone"}

\* The parts of the invariant that relate one variable to another.
Sound ==
  /\ at = "idle" =>
       child = "none" /\ live = {} /\ out = "open" /\ reader = "none"
  /\ at = "draining" => child \in Ended
  /\ at \in {"waiting", "draining"} /\ "copier" \notin live => out # "open"
  /\ pipe \in {"eof", "err"} => at \in Over /\ child \in Ended
  /\ pipe = "eof" => child = "ok" /\ out = "whole"

FlagsSound ==
  /\ child = "killed" => late /\ watched /\ ~rooted
  /\ expired => out # "open"
  /\ out = "cut" => expired \/ pipe # "open"
  /\ pipe = "closed" => late

LEMMA Parts == LocalInvariant <=> Flags /\ Typed /\ Sound /\ FlagsSound
BY Zenon DEF LocalInvariant, TypeOK, Flags, Typed, Sound, FlagsSound

LEMMA FlagsKept == Flags /\ [Next]_vars => Flags'
BY Zenon
DEF Flags, Next, Start, ChildExits, HolderExits, Expire, Kill, OutputEnds,
    CopierEnds, StdinEnds, ChildReaped, DrainExpires, RunReturns,
    StreamFinishes, ReaderStalls, ReaderResumes, ReaderCloses, ReaderClosed,
    Finished, vars, childVars, pipeVars

LEMMA SoundKept ==
  ASSUME Flags, Typed, Sound, [Next]_vars
  PROVE  Typed' /\ Sound'
<1> USE DEF Typed, Sound, Over, Ended, childVars, pipeVars
<1>1. CASE Start
  BY <1>1 DEF Start
<1>2. CASE ChildExits
  BY <1>2 DEF ChildExits
<1>3. CASE HolderExits \/ Expire
  BY <1>3 DEF HolderExits, Expire
<1>4. CASE Kill
  BY <1>4 DEF Kill
<1>5. CASE OutputEnds
  BY <1>5 DEF OutputEnds
<1>6. CASE CopierEnds
  BY <1>6 DEF CopierEnds
<1>7. CASE StdinEnds
  BY <1>7 DEF StdinEnds
<1>8. CASE ChildReaped
  BY <1>8 DEF ChildReaped
<1>9. CASE DrainExpires
  BY <1>9 DEF DrainExpires
<1>10. CASE RunReturns
  BY <1>10 DEF RunReturns
<1>11. CASE StreamFinishes
  BY <1>11 DEF StreamFinishes, EndOfStream, Drained, WaitError
<1>12. CASE ReaderStalls \/ ReaderResumes \/ ReaderClosed
  BY <1>12 DEF ReaderStalls, ReaderResumes, ReaderClosed
<1>13. CASE ReaderCloses
  BY <1>13 DEF ReaderCloses, ClosesPipe
<1>14. CASE Finished \/ UNCHANGED vars
  <2>1. UNCHANGED vars
    BY <1>14 DEF Finished
  <2> QED  BY <2>1 DEF vars
<1> QED
  BY <1>1, <1>2, <1>3, <1>4, <1>5, <1>6, <1>7, <1>8, <1>9, <1>10, <1>11,
     <1>12, <1>13, <1>14 DEF Next

LEMMA FlagsSoundKept ==
  ASSUME Flags, Typed, FlagsSound, [Next]_vars
  PROVE  FlagsSound'
<1> USE DEF FlagsSound, Typed, childVars, pipeVars
<1>1. CASE Start \/ ChildExits \/ HolderExits
  BY <1>1 DEF Start, ChildExits, HolderExits, Ended
<1>2. CASE Expire
  BY <1>2, Zenon DEF Expire
<1>3. CASE Kill
  BY <1>3, Zenon DEF Kill
<1>4. CASE OutputEnds
  BY <1>4 DEF OutputEnds
<1>5. CASE CopierEnds
  BY <1>5 DEF CopierEnds
<1>6. CASE DrainExpires
  BY <1>6, Zenon DEF DrainExpires
<1>7. CASE StreamFinishes
  BY <1>7 DEF StreamFinishes, EndOfStream
<1>8. CASE ReaderCloses
  BY <1>8, Zenon DEF ReaderCloses, ClosesPipe
<1>9. CASE StdinEnds \/ ChildReaped \/ RunReturns \/ ReaderStalls
           \/ ReaderResumes \/ ReaderClosed \/ Finished \/ UNCHANGED vars
  <2>1. UNCHANGED <<rooted, child, late, watched, expired, out, pipe>>
    BY <1>9, Zenon
    DEF StdinEnds, ChildReaped, RunReturns, ReaderStalls, ReaderResumes,
        ReaderClosed, Finished, vars
  <2> QED  BY <2>1, Zenon
<1> QED
  BY <1>1, <1>2, <1>3, <1>4, <1>5, <1>6, <1>7, <1>8, <1>9 DEF Next

LEMMA NextInv == LocalInvariant /\ [Next]_vars => LocalInvariant'
<1> SUFFICES ASSUME LocalInvariant, [Next]_vars PROVE LocalInvariant'
  OBVIOUS
<1>1. Flags' /\ Typed' /\ Sound' /\ FlagsSound'
  BY Parts, FlagsKept, SoundKept, FlagsSoundKept, Zenon
<1>2. LocalInvariant' <=> Flags' /\ Typed' /\ Sound' /\ FlagsSound'
  BY Zenon DEF LocalInvariant, TypeOK, Flags, Typed, Sound, FlagsSound
<1> QED  BY <1>1, <1>2

\* The inductive invariant holds in every reachable state.
THEOREM LocalIsSound == Spec => []LocalInvariant
BY InitInv, NextInv, PTL DEF Spec

---------------------------------------------------------------------------
\* What has happened to the command is not undone.
LEMMA ContractGrows ==
  ASSUME LocalInvariant, [Next]_vars
  PROVE  /\ child \in {"ok", "bad"} => child' = child
         /\ out = "whole" => out' = "whole"
         /\ late => late'
<1> USE DEF LocalInvariant, TypeOK, childVars, Ended
<1>1. CASE Start \/ ChildExits \/ HolderExits \/ Expire \/ Kill
  BY <1>1 DEF Start, ChildExits, HolderExits, Expire, Kill
<1>2. CASE OutputEnds \/ CopierEnds \/ StdinEnds \/ ChildReaped \/ DrainExpires
  BY <1>2 DEF OutputEnds, CopierEnds, StdinEnds, ChildReaped, DrainExpires
<1>3. CASE RunReturns \/ StreamFinishes
  BY <1>3 DEF RunReturns, StreamFinishes
<1>4. CASE ReaderStalls \/ ReaderResumes \/ ReaderCloses \/ ReaderClosed
  BY <1>4 DEF ReaderStalls, ReaderResumes, ReaderCloses, ReaderClosed
<1>5. CASE Finished \/ UNCHANGED vars
  BY <1>5 DEF Finished, vars
<1> QED  BY <1>1, <1>2, <1>3, <1>4, <1>5 DEF Next

\* An answer is given once, a value on a status and on the end of the output.
LEMMA AnswerGiven ==
  ASSUME LocalInvariant, [Next]_vars, at' # at
  PROVE  /\ at \notin Over
         /\ at' = "value" => \/ child = "ok" /\ out = "whole"
                             \/ child = "bad"
<1> USE DEF LocalInvariant, TypeOK, Over, Ended
<1>1. CASE Start \/ ChildReaped
  BY <1>1 DEF Start, ChildReaped
<1>2. CASE RunReturns
  BY <1>2 DEF RunReturns, Drained, IsValue, WaitError
<1>3. CASE StreamFinishes
  BY <1>3 DEF StreamFinishes, Drained, WaitError
<1> QED
  BY <1>1, <1>2, <1>3
  DEF Next, ChildExits, HolderExits, Expire, Kill, OutputEnds, CopierEnds,
      StdinEnds, DrainExpires, ReaderStalls, ReaderResumes, ReaderCloses,
      ReaderClosed, Finished, vars, childVars

LEMMA ContractStep ==
  ASSUME LocalInvariant, [Next]_vars
  PROVE  [Contract!Next]_(Contract!vars)
<1>1. UNCHANGED <<call, rooted>>
  BY CallKept
<1>2. Contract!Grows
  BY <1>1, ContractGrows DEF Contract!Grows, If
<1>3. Contract!Calls = Calls
  BY DEF Contract!Calls, Calls
<1>4. ASSUME NEW x \in Calls
      PROVE  LET a == IF x = call /\ at \in Over THEN at ELSE "none"
             IN  /\ a' \in {"none", "value", "error"}
                 /\ \/ a' = a
                    \/ /\ a = "none"
                       /\ \/ /\ a' = "value" /\ x \in If(child \in {"ok", "bad"})
                             /\ x \in If(out = "whole") \cup If(child = "bad")
                          \/ a' = "error"
  <2>1. CASE at' = at
    BY <1>1, <2>1 DEF Over
  <2>2. CASE at' # at
    BY <1>1, <2>2, AnswerGiven DEF Over, If
  <2> QED  BY <2>1, <2>2
<1> QED
  BY <1>2, <1>3, <1>4 DEF Contract!Next, Contract!Answers

\* Run and Stream of the local executor implement the contract of executor.go,
\* whatever the child, its grandchildren and the caller do.
THEOREM LocalKeepsContract == Spec => LocalImplements
<1>1. Init => Contract!Init
  BY DEF Init, Contract!Init, Contract!Calls, Calls, Over, If
<1>2. LocalInvariant /\ [Next]_vars => [Contract!Next]_(Contract!vars)
  BY ContractStep
<1> QED
  BY <1>1, <1>2, LocalIsSound, PTL DEF Spec, LocalImplements, Contract!Spec
=============================================================================
