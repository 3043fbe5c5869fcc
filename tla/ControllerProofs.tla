-------------------------- MODULE ControllerProofs --------------------------
(***************************************************************************)
(* Lemmas about the handlers of the loop alone, whoever sends them their   *)
(* messages: what they do to the types, what the shared steps do to units, *)
(* and where createUnits places them.  The proofs about Fleet and Demand   *)
(* rest on them.                                                           *)
(***************************************************************************)
EXTENDS Controller, TLAPS, FiniteSetTheorems

(***************************************************************************)
(* What the shared steps of the handlers do to the types.                  *)
(***************************************************************************)

\* An adopted unit was unknown and is seen alive; only a unit that is unknown,
\* or known and not being created, is removed.  Nothing is done about a unit
\* neither known nor seen.
LEMMA VerdictFacts ==
  ASSUME NEW st \in UnitStates, NEW r \in RunnerSights
  PROVE  /\ Verdict(st, r, FALSE) = "Adopt" => st = "Absent"
         /\ Verdict(st, r, FALSE) = "RemoveUnit" => st # "Creating"
         /\ st = "Absent" /\ r = "none" => Verdict(st, r, FALSE) = "None"
BY DEF Verdict, UnitStates, KnownStates, LiveStates, RunnerSights

LEMMA AddPendingTyped ==
  ASSUME NEW p \in SUBSET Units, NEW pIDs \in SUBSET p,
         NEW dead \in SUBSET Units, NEW ids,
         AddPending(p, pIDs, dead, ids)
  PROVE  pending' \subseteq Units /\ pendingIDs' \subseteq pending'
BY DEF AddPending

LEMMA StartCleanupTyped ==
  ASSUME LoopTypeOK, NEW S \in SUBSET Units, NEW hl, StartCleanup(S, hl)
  PROVE  cleaning' \subseteq Units /\ cleaner' \in [Units -> CleanerPlaces]
BY DEF LoopTypeOK, StartCleanup, CleanerPlaces

LEMMA CreatedUnits ==
  ASSUME NEW n, NEW st, NEW pt, CreateUnits(n, st, pt)
  PROVE  \E new \in SUBSET fresh : \E at \in [new -> Machines] :
           Created(new, at, st, pt)
BY DEF CreateUnits, Created

LEMMA CreateUnitsTyped ==
  ASSUME LoopTypeOK, NEW n, NEW st \in [Units -> UnitStates],
         NEW pt \in [Units -> BOOLEAN], CreateUnits(n, st, pt)
  PROVE  /\ state' \in [Units -> UnitStates] /\ parts' \in [Units -> BOOLEAN]
         /\ mach' \in [Units -> Machines]
         /\ starter' \in [Units -> StarterPlaces] /\ fresh' \subseteq Units
<1>1. PICK new \in SUBSET fresh :
        \E at \in [new -> Machines] : Created(new, at, st, pt)
  BY CreatedUnits
<1>2. PICK at \in [new -> Machines] : Created(new, at, st, pt)
  BY <1>1
<1>3. state' \in [Units -> UnitStates] /\ parts' \in [Units -> BOOLEAN]
  BY <1>2 DEF Created, UnitStates, KnownStates, LiveStates
<1>4. mach' \in [Units -> Machines]
  BY <1>2 DEF Created, LoopTypeOK
<1>5. starter' \in [Units -> StarterPlaces] /\ fresh' \subseteq Units
  BY <1>2 DEF Created, LoopTypeOK, StarterPlaces, Launching
<1> QED  BY <1>3, <1>4, <1>5

LEMMA NewlyPendingUnits ==
  ASSUME NEW S \in SUBSET Units, NEW done
  PROVE  NewlyPending(S, done) \in SUBSET Units
BY DEF NewlyPending

LEMMA LearnedTyped ==
  ASSUME LoopTypeOK, NEW u \in Units
  PROVE  /\ Learned(u).ids \in SUBSET Units
         /\ Learned(u).pend \in SUBSET Units
         /\ Learned(u).pendIDs \in SUBSET Learned(u).pend
         /\ Learned(u).done \in SUBSET Units
BY DEF LoopTypeOK, Learned

(***************************************************************************)
(* Types, handler by handler.                                              *)
(***************************************************************************)
LEMMA DesiredTyped ==
  ASSUME LoopTypeOK, NEW n, HandleDesired(n)
  PROVE  LoopTypeOK'
<1>1. /\ state' \in [Units -> UnitStates] /\ parts' \in [Units -> BOOLEAN]
      /\ mach' \in [Units -> Machines]
      /\ starter' \in [Units -> StarterPlaces] /\ fresh' \subseteq Units
  BY CreateUnitsTyped DEF HandleDesired, LoopTypeOK
<1> QED
  BY <1>1 DEF HandleDesired, LoopTypeOK, jobVars, checkVars, cleanVars

LEMMA EventTyped ==
  ASSUME LoopTypeOK, NEW u \in Units, HandleEvent(u)
  PROVE  LoopTypeOK'
<1>1. CASE UNCHANGED loopVars
  BY <1>1 DEF LoopTypeOK, loopVars, unitVars, jobVars, checkVars, cleanVars,
              machineVars
<1>2. CASE ~ UNCHANGED loopVars
  <2> DEFINE st == [state EXCEPT ![u] = "Dying"]
             pt == [parts EXCEPT ![u] = TRUE]
  <2>1. st \in [Units -> UnitStates] /\ pt \in [Units -> BOOLEAN]
    BY DEF LoopTypeOK, UnitStates, KnownStates
  <2>2. /\ state' \in [Units -> UnitStates] /\ parts' \in [Units -> BOOLEAN]
        /\ mach' \in [Units -> Machines]
        /\ starter' \in [Units -> StarterPlaces] /\ fresh' \subseteq Units
    BY <1>2, <2>1, CreateUnitsTyped DEF HandleEvent
  <2>3. pending' \subseteq Units /\ pendingIDs' \subseteq pending'
    BY <1>2, AddPendingTyped, NewlyPendingUnits DEF HandleEvent, LoopTypeOK
  <2>4. cleaning' \subseteq Units /\ cleaner' \in [Units -> CleanerPlaces]
    BY <1>2, StartCleanupTyped DEF HandleEvent
  <2> QED
    BY <1>2, <2>2, <2>3, <2>4
    DEF HandleEvent, LoopTypeOK, checkVars, machineVars
<1> QED  BY <1>1, <1>2

LEMMA HealthTyped ==
  ASSUME LoopTypeOK, NEW m \in Machines, NEW h \in Healths, HandleHealth(m, h)
  PROVE  LoopTypeOK'
BY DEF HandleHealth, LoopTypeOK, unitVars, jobVars, checkVars, cleanVars

LEMMA ResyncedTyped ==
  ASSUME LoopTypeOK, NEW m \in Machines, NEW s, s.info \in Nat,
         HandleResynced(m, s)
  PROVE  LoopTypeOK'
<1> DEFINE here == {u \in Units : mach[u] = m}
           remove == {u \in here : VerdictOf(u, s) = "RemoveUnit"}
           kept == pending \ Purged(m)
           dying == NewlyPending(remove, completed)
           hl == IF health[m] = "Failed" THEN health
                 ELSE [health EXCEPT ![m] = "Healthy"]
<1>1. state' \in [Units -> UnitStates] /\ parts' \in [Units -> BOOLEAN]
  BY DEF HandleResynced, LoopTypeOK, UnitStates, KnownStates, LiveStates
<1>2. pending' \subseteq Units /\ pendingIDs' \subseteq pending'
  <2>1. AddPending(kept, pendingIDs \cap kept, dying, runnerIDs)
    BY DEF HandleResynced
  <2>2. kept \in SUBSET Units /\ dying \in SUBSET Units
    BY NewlyPendingUnits DEF LoopTypeOK
  <2> QED  BY <2>1, <2>2, AddPendingTyped
<1>3. cleaning' \subseteq Units /\ cleaner' \in [Units -> CleanerPlaces]
  <2>1. StartCleanup(remove, hl)
    BY DEF HandleResynced
  <2> QED  BY <2>1, StartCleanupTyped
<1>4. health' \in [Machines -> Healths] /\ effMax' \in [Machines -> Nat]
  BY DEF HandleResynced, LoopTypeOK, Healths
<1> QED
  BY <1>1, <1>2, <1>3, <1>4 DEF HandleResynced, LoopTypeOK, checkVars

LEMMA TickTyped ==
  ASSUME LoopTypeOK, NEW late \in SUBSET Units, NEW oldPending, NEW oldIDs,
         HandleTick(late, oldPending, oldIDs)
  PROVE  LoopTypeOK'
<1>1. state' \in [Units -> UnitStates] /\ parts' \in [Units -> BOOLEAN]
  BY DEF HandleTick, Unexpired, LoopTypeOK, UnitStates, KnownStates
<1>2. cleaning' \subseteq Units /\ cleaner' \in [Units -> CleanerPlaces]
  <2>1. StartCleanup(Retried(late), health) /\ Retried(late) \in SUBSET Units
    BY DEF HandleTick, Retried
  <2> QED  BY <2>1, StartCleanupTyped
<1>3. checking' \subseteq Units /\ checkPass' \in BOOLEAN /\ checkQ' \subseteq Units
  BY DEF HandleTick, LoopTypeOK, checkVars
<1>4. pending' \subseteq Units /\ pendingIDs' \subseteq pending'
  <2>1. AddPending(pending \ oldPending, pendingIDs \ oldPending,
                   NewlyPending(late, completed), runnerIDs)
    BY DEF HandleTick, Unexpired
  <2> QED  BY <2>1, AddPendingTyped, NewlyPendingUnits DEF LoopTypeOK
<1> QED
  BY <1>1, <1>2, <1>3, <1>4 DEF HandleTick, Unexpired, LoopTypeOK, machineVars

LEMMA RegistrationTyped ==
  ASSUME LoopTypeOK, NEW u \in Units, NEW res, NEW old \in BOOLEAN,
         HandleRegistration(u, res, old)
  PROVE  LoopTypeOK'
<1> DEFINE l == IF res = "found" THEN Learned(u)
                ELSE [ids |-> runnerIDs, pend |-> pending,
                      pendIDs |-> pendingIDs, done |-> completed]
           dying == IF \/ state[u] = "Running" /\ res = "gone"
                       \/ state[u] = "Starting" /\ res = "gone" /\ old
                    THEN {u} ELSE {}
<1>1. /\ l.ids \in SUBSET Units /\ l.pend \in SUBSET Units
      /\ l.pendIDs \in SUBSET l.pend /\ l.done \in SUBSET Units
  BY LearnedTyped DEF LoopTypeOK
<1>2. pending' \subseteq Units /\ pendingIDs' \subseteq pending'
  <2>1. AddPending(l.pend, l.pendIDs, NewlyPending(dying, l.done), l.ids)
    BY DEF HandleRegistration
  <2> QED  BY <1>1, <2>1, AddPendingTyped, NewlyPendingUnits
<1>3. cleaning' \subseteq Units /\ cleaner' \in [Units -> CleanerPlaces]
  <2>1. StartCleanup(dying, health)
    BY DEF HandleRegistration
  <2> QED  BY <2>1, StartCleanupTyped
<1>4. state' \in [Units -> UnitStates]
  BY DEF HandleRegistration, LoopTypeOK, UnitStates, KnownStates, LiveStates
<1>5. /\ runnerIDs' \subseteq Units /\ completed' \subseteq Units
      /\ completedIDs' \subseteq Units /\ checking' \subseteq Units
  BY <1>1 DEF HandleRegistration, LoopTypeOK, CheckedOff
<1> QED
  BY <1>2, <1>3, <1>4, <1>5 DEF HandleRegistration, LoopTypeOK, machineVars

LEMMA UnitStartedTyped ==
  ASSUME LoopTypeOK, NEW u \in Units, NEW res, HandleUnitStarted(u, res)
  PROVE  LoopTypeOK'
<1> DEFINE l == IF res # "errNoID" THEN Learned(u)
                ELSE [ids |-> runnerIDs, pend |-> pending,
                      pendIDs |-> pendingIDs, done |-> completed]
           dying == IF state[u] = "Creating" /\ res # "ok" THEN {u} ELSE {}
<1>1. /\ l.ids \in SUBSET Units /\ l.pend \in SUBSET Units
      /\ l.pendIDs \in SUBSET l.pend /\ l.done \in SUBSET Units
  BY LearnedTyped DEF LoopTypeOK
<1>2. pending' \subseteq Units /\ pendingIDs' \subseteq pending'
  <2>1. AddPending(l.pend, l.pendIDs, NewlyPending(dying, l.done), l.ids)
    BY DEF HandleUnitStarted
  <2> QED  BY <1>1, <2>1, AddPendingTyped, NewlyPendingUnits
<1>3. cleaning' \subseteq Units /\ cleaner' \in [Units -> CleanerPlaces]
  <2>1. StartCleanup(dying, health)
    BY DEF HandleUnitStarted
  <2> QED  BY <2>1, StartCleanupTyped
<1>4. /\ state' \in [Units -> UnitStates] /\ parts' \in [Units -> BOOLEAN]
      /\ startedAt' \subseteq Units
  BY DEF HandleUnitStarted, LoopTypeOK, LeftByStart, UnitStates, KnownStates,
         LiveStates
<1>5. /\ runnerIDs' \subseteq Units /\ completed' \subseteq Units
      /\ completedIDs' \subseteq Units
      /\ starter' \in [Units -> StarterPlaces]
  BY <1>1 DEF HandleUnitStarted, LoopTypeOK, StarterPlaces
<1> QED
  BY <1>2, <1>3, <1>4, <1>5
  DEF HandleUnitStarted, LoopTypeOK, checkVars, machineVars

LEMMA BlankTyped ==
  ASSUME LoopTypeOK, HandleJobCompletedBlank
  PROVE  LoopTypeOK'
<1>1. pending' \subseteq pending /\ pendingIDs \subseteq pending'
  BY DEF HandleJobCompletedBlank, LoopTypeOK
<1> QED
  BY <1>1 DEF HandleJobCompletedBlank, LoopTypeOK, unitVars, checkVars,
              cleanVars, machineVars

LEMMA JobsTyped ==
  ASSUME LoopTypeOK, NEW u \in Units,
         \/ HandleJobStarted(u)
         \/ \E named \in BOOLEAN : HandleJobCompleted(u, named)
         \/ HandleJobCompletedBlank
         \/ HandleSessionStarted
  PROVE  LoopTypeOK'
<1>1. CASE HandleJobStarted(u)
  BY <1>1 DEF HandleJobStarted, LoopTypeOK, jobVars, checkVars, cleanVars,
              machineVars
<1>2. CASE \E named \in BOOLEAN : HandleJobCompleted(u, named)
  BY <1>2 DEF HandleJobCompleted, KeptIDs, LoopTypeOK, checkVars, cleanVars, machineVars
<1>3. CASE HandleSessionStarted
  BY <1>3 DEF HandleSessionStarted, LoopTypeOK, unitVars, checkVars, cleanVars,
              machineVars
<1>4. CASE HandleJobCompletedBlank
  BY <1>4, BlankTyped
<1> QED  BY <1>1, <1>2, <1>3, <1>4

LEMMA CleanupDoneTyped ==
  ASSUME LoopTypeOK, NEW u \in Units, NEW res, HandleCleanupDone(u, res)
  PROVE  LoopTypeOK'
BY DEF HandleCleanupDone, Forget, LoopTypeOK, checkVars, machineVars,
       CleanerPlaces, UnitStates

LEMMA CheckPassDoneTyped ==
  ASSUME LoopTypeOK, HandleCheckPassDone
  PROVE  LoopTypeOK'
BY DEF HandleCheckPassDone, LoopTypeOK, unitVars, jobVars, cleanVars,
       machineVars

(***************************************************************************)
(* Sums over finite sets.  What a recursion computes cannot be had by      *)
(* induction here (the theorems that say so take an operator); the sums of *)
(* Plan are typed by a least counterexample instead.                       *)
(***************************************************************************)

\* A set of naturals that is not empty has a least element.
LEMMA LeastNat ==
  ASSUME NEW T, T \subseteq Nat, T # {}
  PROVE  \E n \in T : \A k \in T : n <= k
<1>1. IsWellFoundedOn(OpToRel(<, Nat), Nat)
  BY NatLessThanWellFounded
<1>2. \E n \in T : \A k \in T : ~ (<<k, n>> \in OpToRel(<, Nat))
  BY <1>1, WFMin, Zenon
<1>3. PICK n \in T : \A k \in T : ~ (<<k, n>> \in OpToRel(<, Nat))
  BY <1>2
<1>4. \A k \in T : ~(k < n)
  BY <1>3 DEF OpToRel
<1> QED  BY <1>4

\* The sums of f over the subsets of S, as MapThenFoldSet adds them up: one
\* element is taken out of the set, and its value added to the sum of the rest.
AnyOf(s) == CHOOSE x \in s : TRUE
SumStep(f, g, s) == IF s = {} THEN 0 ELSE f[AnyOf(s)] + g[s \ {AnyOf(s)}]
AddsUp(f, S, g) == \A s \in SUBSET S : g[s] = SumStep(f, g, s)

\* Taking the chosen element out of a finite set leaves one less.
LEMMA SubsetSmaller ==
  ASSUME NEW S, IsFiniteSet(S), NEW s \in SUBSET S, s # {}
  PROVE  /\ AnyOf(s) \in s
         /\ s \ {AnyOf(s)} \in SUBSET S
         /\ Cardinality(s) \in Nat
         /\ Cardinality(s) # 0
         /\ Cardinality(s \ {AnyOf(s)}) = Cardinality(s) - 1
<1>1. AnyOf(s) \in s
  BY DEF AnyOf
<1>2. IsFiniteSet(s) 
  BY FS_Subset
<1>3. Cardinality(s) \in Nat /\ Cardinality(s) # 0
  BY <1>2, FS_CardinalityType, FS_EmptySet
<1>4. Cardinality(s \ {AnyOf(s)}) = Cardinality(s) - 1
  BY <1>1, <1>2, FS_RemoveElement
<1> QED  BY <1>1, <1>3, <1>4

\* Sums of naturals are naturals.
LEMMA SumsAreNat ==
  ASSUME NEW S, IsFiniteSet(S), NEW f, \A x \in S : f[x] \in Nat,
         NEW g, AddsUp(f, S, g)
  PROVE  \A s \in SUBSET S : g[s] \in Nat
<1> DEFINE Bad == {s \in SUBSET S : g[s] \notin Nat}
           Sizes == {Cardinality(s) : s \in Bad}
<1> SUFFICES ASSUME Bad # {} PROVE FALSE
  OBVIOUS
<1>1. Sizes \subseteq Nat /\ Sizes # {}
  BY FS_Subset, FS_CardinalityType
<1>2. PICK n \in Sizes : \A k \in Sizes : n <= k
  <2> HIDE DEF Sizes
  <2> QED  BY <1>1, LeastNat
<1>3. PICK s \in Bad : n = Cardinality(s)
  OBVIOUS
<1>4. s # {}
  <2>1. s \in SUBSET S /\ g[s] \notin Nat /\ g[s] = SumStep(f, g, s)
    BY <1>3 DEF AddsUp
  <2> QED  BY <2>1 DEF SumStep
<1>5. /\ AnyOf(s) \in S /\ s \ {AnyOf(s)} \in SUBSET S
      /\ Cardinality(s) \in Nat /\ Cardinality(s \ {AnyOf(s)}) = Cardinality(s) - 1
  <2>1. s \in SUBSET S
    OBVIOUS
  <2> HIDE DEF Bad
  <2> QED  BY <2>1, <1>4, SubsetSmaller
<1>6. s \ {AnyOf(s)} \notin Bad
  <2> SUFFICES ASSUME s \ {AnyOf(s)} \in Bad PROVE FALSE
    OBVIOUS
  <2>1. Cardinality(s \ {AnyOf(s)}) \in Sizes
    OBVIOUS
  <2> QED  BY <2>1, <1>2, <1>3, <1>5
<1>7. g[s] = f[AnyOf(s)] + g[s \ {AnyOf(s)}]
  BY <1>4 DEF AddsUp, SumStep
<1> QED  BY <1>3, <1>5, <1>6, <1>7

\* g is the function of these sums.
IsSumFunction(f, S, g) == g = [s \in SUBSET S |-> SumStep(f, g, s)]

\* The sums of naturals over the subsets of a finite set exist, as one function:
\* by the size of the subset it is defined up to.
LEMMA SumsExist ==
  ASSUME NEW S, IsFiniteSet(S), NEW f, \A x \in S : f[x] \in Nat
  PROVE  \E g : IsSumFunction(f, S, g)
<1> DEFINE UpTo(n, g) == /\ g \in [SUBSET S -> Nat]
                         /\ \A s \in SUBSET S :
                              Cardinality(s) <= n => g[s] = SumStep(f, g, s)
           Bad == {n \in Nat : ~ \E g : UpTo(n, g)}
<1>1. 0 \notin Bad
  <2> DEFINE z == [s \in SUBSET S |-> 0]
  <2>1. \A s \in SUBSET S : Cardinality(s) <= 0 => s = {}
    BY FS_Subset, FS_EmptySet, FS_CardinalityType
  <2>2. UpTo(0, z)
    BY <2>1 DEF SumStep
  <2> QED  BY <2>2
<1>2. ASSUME NEW n \in Nat, n # 0, n - 1 \notin Bad PROVE n \notin Bad
  <2>1. PICK g : UpTo(n - 1, g)
    <3>1. n - 1 \in Nat
      BY <1>2
    <3> HIDE DEF UpTo
    <3> QED  BY <1>2, <3>1
  <2> DEFINE h == [s \in SUBSET S |-> SumStep(f, g, s)]
  <2>2. h \in [SUBSET S -> Nat]
    <3> SUFFICES ASSUME NEW s \in SUBSET S PROVE SumStep(f, g, s) \in Nat
      OBVIOUS
    <3>1. CASE s # {}
      <4>1. AnyOf(s) \in S /\ s \ {AnyOf(s)} \in SUBSET S
        BY <3>1, SubsetSmaller
      <4>2. f[AnyOf(s)] \in Nat /\ g[s \ {AnyOf(s)}] \in Nat
        BY <4>1, <2>1
      <4> QED  BY <3>1, <4>2 DEF SumStep
    <3> QED  BY <3>1 DEF SumStep
  <2>3. ASSUME NEW s \in SUBSET S, Cardinality(s) <= n PROVE h[s] = SumStep(f, h, s)
    <3>1. CASE s = {}
      BY <3>1 DEF SumStep
    <3>2. CASE s # {}
      <4>1. s \ {AnyOf(s)} \in SUBSET S /\ Cardinality(s \ {AnyOf(s)}) <= n - 1
        BY <2>3, <3>2, SubsetSmaller
      <4>2. h[s \ {AnyOf(s)}] = g[s \ {AnyOf(s)}]
        BY <2>1, <4>1
      <4> QED  BY <3>2, <4>2 DEF SumStep
    <3> QED  BY <3>1, <3>2
  <2>4. UpTo(n, h)
    BY <2>2, <2>3
  <2> QED  BY <2>4
<1>3. Bad = {}
  <2> SUFFICES ASSUME Bad # {} PROVE FALSE
    OBVIOUS
  <2>1. Bad \subseteq Nat
    OBVIOUS
  <2> HIDE DEF Bad
  <2>2. PICK n \in Bad : \A k \in Bad : n <= k
    BY <2>1, LeastNat
  <2>3. n # 0 /\ n - 1 \notin Bad
    BY <1>1, <2>1, <2>2
  <2> QED  BY <1>2, <2>1, <2>2, <2>3
<1>4. Cardinality(S) \in Nat
  BY FS_CardinalityType
<1>5. PICK g : UpTo(Cardinality(S), g)
  BY <1>3, <1>4
<1>6. \A s \in SUBSET S : Cardinality(s) <= Cardinality(S)
  BY FS_Subset
<1>7. IsSumFunction(f, S, g)
  BY <1>5, <1>6 DEF IsSumFunction
<1> QED  BY <1>7

\* A sum of lesser values is not greater.
LEMMA SumMonotone ==
  ASSUME NEW S, IsFiniteSet(S), NEW f, NEW g,
         \A x \in S : f[x] \in Nat /\ g[x] \in Nat /\ f[x] <= g[x],
         NEW F, AddsUp(f, S, F), NEW G, AddsUp(g, S, G)
  PROVE  \A s \in SUBSET S : F[s] <= G[s]
<1> DEFINE Bad == {s \in SUBSET S : ~(F[s] <= G[s])}
           Sizes == {Cardinality(s) : s \in Bad}
<1> SUFFICES ASSUME Bad # {} PROVE FALSE
  OBVIOUS
<1>1. Sizes \subseteq Nat /\ Sizes # {}
  BY FS_Subset, FS_CardinalityType
<1>2. PICK n \in Sizes : \A k \in Sizes : n <= k
  <2> HIDE DEF Sizes
  <2> QED  BY <1>1, LeastNat
<1>3. PICK s \in Bad : n = Cardinality(s)
  OBVIOUS
<1>4. /\ s \in SUBSET S /\ ~(F[s] <= G[s])
      /\ F[s] = SumStep(f, F, s) /\ G[s] = SumStep(g, G, s)
  BY <1>3 DEF AddsUp
<1>5. s # {}
  BY <1>4 DEF SumStep
<1> DEFINE x == AnyOf(s)
           rest == s \ {x}
<1>6. /\ x \in S /\ rest \in SUBSET S
      /\ Cardinality(s) \in Nat /\ Cardinality(rest) = Cardinality(s) - 1
  BY <1>4, <1>5, SubsetSmaller
<1>7. rest \notin Bad
  <2> SUFFICES ASSUME rest \in Bad PROVE FALSE
    OBVIOUS
  <2>1. Cardinality(rest) \in Sizes
    OBVIOUS
  <2> HIDE DEF Sizes, Bad
  <2> QED  BY <2>1, <1>2, <1>3, <1>6
<1>8. F[s] = f[x] + F[rest] /\ G[s] = g[x] + G[rest]
  BY <1>4, <1>5 DEF SumStep
<1>9. F[rest] \in Nat /\ G[rest] \in Nat
  BY <1>6, SumsAreNat
<1>10. F[rest] <= G[rest]
  BY <1>6, <1>7
<1>11. f[x] \in Nat /\ g[x] \in Nat /\ f[x] <= g[x]
  BY <1>6
<1> HIDE DEF x, rest
<1> QED  BY <1>4, <1>8, <1>9, <1>10, <1>11

\* The places of J where p names x, and where it names one of s.
Named(J, p, x) == {j \in J : p[j] = x}
NamedIn(J, p, s) == {j \in J : p[j] \in s}

\* How often each element is named adds up to how often any of them is.
LEMMA SumCounts ==
  ASSUME NEW S, IsFiniteSet(S), NEW J, IsFiniteSet(J), NEW p, NEW f,
         \A x \in S : f[x] = Cardinality(Named(J, p, x)),
         NEW F, AddsUp(f, S, F)
  PROVE  \A s \in SUBSET S : F[s] = Cardinality(NamedIn(J, p, s))
<1> DEFINE In(s) == NamedIn(J, p, s)
           Bad == {s \in SUBSET S : F[s] # Cardinality(In(s))}
           Sizes == {Cardinality(s) : s \in Bad}
<1> SUFFICES ASSUME Bad # {} PROVE FALSE
  OBVIOUS
<1>1. Sizes \subseteq Nat /\ Sizes # {}
  <2> HIDE DEF In
  <2> QED  BY FS_Subset, FS_CardinalityType
<1>2. PICK n \in Sizes : \A k \in Sizes : n <= k
  <2> HIDE DEF Sizes
  <2> QED  BY <1>1, LeastNat
<1>3. PICK s \in Bad : n = Cardinality(s)
  OBVIOUS
<1>4. s \in SUBSET S /\ F[s] # Cardinality(In(s)) /\ F[s] = SumStep(f, F, s)
  BY <1>3 DEF AddsUp
<1>5. s # {}
  <2>1. In({}) = {}
    BY DEF NamedIn
  <2> HIDE DEF In
  <2> QED  BY <1>4, <2>1, FS_EmptySet DEF SumStep
<1> DEFINE x == AnyOf(s)
           rest == s \ {x}
<1>6. /\ x \in s /\ rest \in SUBSET S
      /\ Cardinality(s) \in Nat /\ Cardinality(rest) = Cardinality(s) - 1
  BY <1>4, <1>5, SubsetSmaller
<1>7. rest \notin Bad
  <2> SUFFICES ASSUME rest \in Bad PROVE FALSE
    OBVIOUS
  <2>1. Cardinality(rest) \in Sizes
    OBVIOUS
  <2> HIDE DEF Sizes, Bad
  <2> QED  BY <2>1, <1>2, <1>3, <1>6
<1>8. F[s] = f[x] + F[rest]
  BY <1>4, <1>5 DEF SumStep
<1>9. F[rest] = Cardinality(In(rest))
  BY <1>6, <1>7
<1> DEFINE here == Named(J, p, x)
<1>10. f[x] = Cardinality(here)
  BY <1>4, <1>6
<1>11. In(s) = here \cup In(rest) /\ here \cap In(rest) = {}
  BY <1>6 DEF Named, NamedIn
<1>12. IsFiniteSet(here) /\ IsFiniteSet(In(rest))
  <2>1. here \in SUBSET J /\ In(rest) \in SUBSET J
    BY DEF Named, NamedIn
  <2> HIDE DEF here, In
  <2> QED  BY <2>1, FS_Subset
<1> HIDE DEF here, In, rest
<1>13. Cardinality(In(s)) = Cardinality(here) + Cardinality(In(rest))
  <2>1. Cardinality({}) = 0
    BY FS_EmptySet
  <2>2. Cardinality(here) \in Nat /\ Cardinality(In(rest)) \in Nat
    BY <1>12, FS_CardinalityType
  <2>3. Cardinality(here \cup In(rest))
          = Cardinality(here) + Cardinality(In(rest)) - Cardinality(here \cap In(rest))
    BY <1>12, FS_Union
  <2>4. Cardinality(here \cap In(rest)) = 0
    BY <1>11, <2>1
  <2>5. Cardinality(In(s)) = Cardinality(here \cup In(rest))
    BY <1>11
  <2> QED  BY <2>2, <2>3, <2>4, <2>5
<1> QED  BY <1>4, <1>8, <1>9, <1>10, <1>13

\* So a sum that is compared element by element with how often each is named
\* compares in the same way with how often any is.
LEMMA SumAgainstNames ==
  ASSUME NEW S, IsFiniteSet(S), NEW J, IsFiniteSet(J), NEW p,
         NEW f, \A x \in S : f[x] \in Nat, NEW F, AddsUp(f, S, F)
  PROVE  /\ (\A x \in S : f[x] <= Cardinality(Named(J, p, x)))
              => F[S] <= Cardinality(NamedIn(J, p, S))
         /\ (\A x \in S : Cardinality(Named(J, p, x)) <= f[x])
              => Cardinality(NamedIn(J, p, S)) <= F[S]
<1> DEFINE c == [x \in S |-> Cardinality(Named(J, p, x))]
<1>1. \A x \in S : c[x] = Cardinality(Named(J, p, x))
  OBVIOUS
<1>2. \A x \in S : c[x] \in Nat
  <2>1. \A x : Named(J, p, x) \in SUBSET J
    BY DEF Named
  <2> QED  BY <2>1, <1>1, FS_Subset, FS_CardinalityType
<1> HIDE DEF c
<1>3. PICK C : IsSumFunction(c, S, C)
  BY <1>2, SumsExist
<1>4. AddsUp(c, S, C)
  BY <1>3 DEF IsSumFunction, AddsUp
<1>5. \A s \in SUBSET S : C[s] = Cardinality(NamedIn(J, p, s))
  BY <1>1, <1>4, SumCounts
<1>6. C[S] = Cardinality(NamedIn(J, p, S))
  BY <1>5
<1>7. (\A x \in S : f[x] <= c[x]) => F[S] <= C[S]
  <2> SUFFICES ASSUME \A x \in S : f[x] <= c[x] PROVE F[S] <= C[S]
    OBVIOUS
  <2>1. \A s \in SUBSET S : F[s] <= C[s]
    BY <1>2, <1>4, SumMonotone
  <2> QED  BY <2>1
<1>8. (\A x \in S : c[x] <= f[x]) => C[S] <= F[S]
  <2> SUFFICES ASSUME \A x \in S : c[x] <= f[x] PROVE C[S] <= F[S]
    OBVIOUS
  <2>1. \A s \in SUBSET S : C[s] <= F[s]
    BY <1>2, <1>4, SumMonotone
  <2> QED  BY <2>1
<1> QED  BY <1>1, <1>6, <1>7, <1>8

\* The capacity is a natural, never above MaxRunners (plan/capacity.go): the
\* sum over the healthy machines is one.
LEMMA CapacityIsNat ==
  ASSUME NEW hl, NEW em, NEW max \in Int, IsFiniteSet(DOMAIN hl),
         \A m \in DOMAIN hl : em[m] \in Int
  PROVE  /\ Capacity(max, hl, em) \in Nat
         /\ Capacity(max, hl, em) <= AtLeastZero(max)
<1> DEFINE S == {m \in DOMAIN hl : hl[m] = "Healthy"}
           F == [m \in S |-> AtLeastZero(em[m])]
           R(g, s) == IF s = {} THEN 0
                      ELSE LET x == CHOOSE y \in s : TRUE
                           IN  AtLeastZero(em[x]) + g[s \ {x}]
           Q(g) == g = [s \in SUBSET S |-> R(g, s)]
<1>1. PICK iter : /\ iter = CHOOSE g : Q(g)
                  /\ Capacity(max, hl, em) = AtLeastZero(Lesser(max, iter[S]))
  BY DEF Capacity, MapThenSumSet, MapThenFoldSet
<1>2. \A g : \A s \in SUBSET S : SumStep(F, g, s) = R(g, s)
  BY DEF SumStep, AnyOf
<1>3. \A m \in S : F[m] \in Nat
  BY DEF AtLeastZero
<1>4. IsFiniteSet(S)
  BY FS_Subset
<1> HIDE DEF R, F, S
<1>5. \E g : Q(g)
  <2>1. PICK g : IsSumFunction(F, S, g)
    BY <1>3, <1>4, SumsExist
  <2>2. Q(g)
    BY <2>1, <1>2 DEF IsSumFunction
  <2> QED  BY <2>2
<1>6. Q(iter)
  <2> HIDE DEF Q
  <2> QED  BY <1>1, <1>5
<1>7. AddsUp(F, S, iter)
  BY <1>2, <1>6 DEF AddsUp
<1>8. iter[S] \in Nat
  BY <1>3, <1>4, <1>7, SumsAreNat
<1> QED  BY <1>1, <1>8 DEF AtLeastZero, Lesser

\* The healthy machines, and the free slots of each.
HealthyIn(hl) == {m \in DOMAIN hl : hl[m] = "Healthy"}
RoomOf(hl, em, occ) == [m \in HealthyIn(hl) |-> AtLeastZero(em[m] - occ[m])]

\* The slots that are free (plan/spread.go) are the sum of those of the healthy
\* machines.
LEMMA FreeSlotsAddUp ==
  ASSUME NEW hl, NEW em, NEW occ, IsFiniteSet(DOMAIN hl),
         \A m \in DOMAIN hl : em[m] \in Int /\ occ[m] \in Int
  PROVE  /\ IsFiniteSet(HealthyIn(hl))
         /\ \A m \in HealthyIn(hl) : RoomOf(hl, em, occ)[m] \in Nat
         /\ \E g : /\ AddsUp(RoomOf(hl, em, occ), HealthyIn(hl), g)
                   /\ FreeSlots(hl, em, occ) = g[HealthyIn(hl)]
<1> DEFINE S == HealthyIn(hl)
           F == RoomOf(hl, em, occ)
           R(g, s) == IF s = {} THEN 0
                      ELSE LET x == CHOOSE y \in s : TRUE
                           IN  AtLeastZero(em[x] - occ[x]) + g[s \ {x}]
           Q(g) == g = [s \in SUBSET S |-> R(g, s)]
<1>1. PICK iter : /\ iter = CHOOSE g : Q(g)
                  /\ FreeSlots(hl, em, occ) = iter[S]
  BY DEF FreeSlots, MapThenSumSet, MapThenFoldSet, HealthyIn
<1>2. \A g : \A s \in SUBSET S : SumStep(F, g, s) = R(g, s)
  BY DEF SumStep, AnyOf, RoomOf
<1>3. \A m \in S : F[m] \in Nat
  BY DEF AtLeastZero, RoomOf, HealthyIn
<1>4. IsFiniteSet(S)
  BY FS_Subset DEF HealthyIn
<1> HIDE DEF R, F, S
<1>5. \E g : Q(g)
  <2>1. PICK g : IsSumFunction(F, S, g)
    BY <1>3, <1>4, SumsExist
  <2>2. Q(g)
    BY <2>1, <1>2 DEF IsSumFunction
  <2> QED  BY <2>2
<1>6. Q(iter)
  <2> HIDE DEF Q
  <2> QED  BY <1>1, <1>5
<1>7. AddsUp(F, S, iter)
  BY <1>2, <1>6 DEF AddsUp
<1> QED  BY <1>1, <1>3, <1>4, <1>7 DEF S, F

\* Their number is a natural.
LEMMA FreeSlotsIsNat ==
  ASSUME NEW hl, NEW em, NEW occ, IsFiniteSet(DOMAIN hl),
         \A m \in DOMAIN hl : em[m] \in Int /\ occ[m] \in Int
  PROVE  FreeSlots(hl, em, occ) \in Nat
<1>1. PICK g : /\ AddsUp(RoomOf(hl, em, occ), HealthyIn(hl), g)
               /\ FreeSlots(hl, em, occ) = g[HealthyIn(hl)]
  BY FreeSlotsAddUp
<1>2. g[HealthyIn(hl)] \in Nat
  BY <1>1, FreeSlotsAddUp, SumsAreNat
<1> QED  BY <1>1, <1>2

(***************************************************************************)
(* Where createUnits puts the units.                                       *)
(***************************************************************************)

\* An injective choice of as many units as there are chooses each of them.
LEMMA ChosenAll ==
  ASSUME NEW S, IsFiniteSet(S), NEW q \in [1..Cardinality(S) -> S], IsInjective(q)
  PROVE  \A x \in S : \E i \in 1..Cardinality(S) : q[i] = x
<1>1. Cardinality(S) \in Nat
  BY FS_CardinalityType
<1>2. IsFiniteSet(1..Cardinality(S)) /\ Cardinality(1..Cardinality(S)) = Cardinality(S)
  BY <1>1, FS_Interval
<1>3. q \in Injection(1..Cardinality(S), S)
  BY DEF Injection, IsInjective
<1>4. q \in Surjection(1..Cardinality(S), S)
  BY <1>2, <1>3, FS_Injection
<1> QED  BY <1>4 DEF Surjection

\* Spread never picks a machine whose slots are taken, nor one that the units
\* placed just before have filled (plan/spread.go:52).
LEMMA PlacedFree ==
  ASSUME LoopTypeOK, NEW new \in SUBSET Units, NEW at \in [new -> Machines],
         NEW occ \in [Machines -> Nat], PlacedBySpread(new, at, occ), NEW u \in new
  PROVE  health[at[u]] = "Healthy" /\ occ[at[u]] < effMax[at[u]]
<1>1. IsFiniteSet(new) /\ Cardinality(new) \in Nat
  BY ControllerAssumption, FS_Subset, FS_CardinalityType
<1>2. PICK q \in [1..Cardinality(new) -> new] :
        /\ IsInjective(q)
        /\ \A i \in DOMAIN q :
             at[q[i]] \in
               Spread(health, effMax,
                      [m \in Machines |->
                         occ[m] + Cardinality({j \in 1..(i-1) : at[q[j]] = m})])
  BY DEF PlacedBySpread
<1>3. PICK i \in 1..Cardinality(new) : q[i] = u
  BY <1>1, <1>2, ChosenAll
<1> DEFINE before == {j \in 1..(i-1) : at[q[j]] = at[u]}
<1>4. Cardinality(before) \in Nat
  <2>1. i \in Int /\ IsFiniteSet(1..(i-1))
    BY <1>1, <1>3, FS_Interval
  <2> QED  BY <2>1, FS_Subset, FS_CardinalityType
<1>5. /\ health[at[u]] = "Healthy"
      /\ occ[at[u]] + Cardinality(before) < effMax[at[u]]
  BY <1>2, <1>3 DEF Spread
<1>6. occ[at[u]] \in Nat /\ effMax[at[u]] \in Nat
  BY DEF LoopTypeOK
<1> HIDE DEF before
<1> QED  BY <1>4, <1>5, <1>6

\* betterCandidate (plan/spread.go:80) is transitive: fractions are compared by
\* cross products, and free slots where the fractions are equal.
LEMMA BetterTransitive ==
  ASSUME NEW S, NEW occ \in [S -> Nat], NEW eff \in [S -> Nat],
         NEW a \in S, NEW b \in S, NEW c \in S,
         eff[a] > 0, eff[b] > 0, eff[c] > 0,
         Better(a, b, occ, eff), Better(b, c, occ, eff)
  PROVE  Better(a, c, occ, eff)
<1> DEFINE oa == occ[a]  ob == occ[b]  oc == occ[c]
           ea == eff[a]  eb == eff[b]  ec == eff[c]
<1>1. /\ oa \in Nat /\ ob \in Nat /\ oc \in Nat
      /\ ea \in Nat /\ eb \in Nat /\ ec \in Nat
      /\ ea > 0 /\ eb > 0 /\ ec > 0
  OBVIOUS
<1>2. /\ \/ oa * eb < ob * ea
         \/ oa * eb = ob * ea /\ ea - oa > eb - ob
      /\ \/ ob * ec < oc * eb
         \/ ob * ec = oc * eb /\ eb - ob > ec - oc
  BY DEF Better
<1>3. \/ oa * ec < oc * ea
      \/ oa * ec = oc * ea /\ ea - oa > ec - oc
  <2> HIDE DEF oa, ob, oc, ea, eb, ec
  <2>1. oa * eb < ob * ea /\ ob * ec < oc * eb => oa * ec < oc * ea
    BY <1>1
  <2>2. oa * eb < ob * ea /\ ob * ec = oc * eb => oa * ec < oc * ea
    BY <1>1
  <2>3. oa * eb = ob * ea /\ ob * ec < oc * eb => oa * ec < oc * ea
    BY <1>1
  <2>4. oa * eb = ob * ea /\ ob * ec = oc * eb => oa * ec = oc * ea
    BY <1>1
  <2>5. ea - oa > eb - ob /\ eb - ob > ec - oc => ea - oa > ec - oc
    BY <1>1
  <2> QED  BY <1>2, <2>1, <2>2, <2>3, <2>4, <2>5
<1> QED  BY <1>3 DEF Better

\* Of finitely many machines with slots one is such that none is better.
LEMMA BestExists ==
  ASSUME NEW S, NEW occ \in [S -> Nat], NEW eff \in [S -> Nat],
         NEW free \in SUBSET S, IsFiniteSet(free), free # {},
         \A m \in free : eff[m] > 0
  PROVE  \E m \in free : \A k \in free : ~Better(k, m, occ, eff)
<1> DEFINE Best(s) == \E m \in s : \A k \in s : ~Better(k, m, occ, eff)
           Bad == {s \in SUBSET free : s # {} /\ ~Best(s)}
           Sizes == {Cardinality(s) : s \in Bad}
<1> SUFFICES ASSUME Bad # {} PROVE FALSE
  OBVIOUS
<1>1. Sizes \subseteq Nat /\ Sizes # {}
  <2> HIDE DEF Best
  <2> QED  BY FS_Subset, FS_CardinalityType
<1>2. PICK n \in Sizes : \A k \in Sizes : n <= k
  <2> HIDE DEF Sizes
  <2> QED  BY <1>1, LeastNat
<1>3. PICK s \in Bad : n = Cardinality(s)
  OBVIOUS
<1>4. s \in SUBSET free /\ s # {} /\ ~Best(s)
  BY <1>3
<1> DEFINE x == AnyOf(s)
           rest == s \ {x}
<1>5. /\ x \in s /\ rest \in SUBSET free
      /\ Cardinality(s) \in Nat /\ Cardinality(rest) = Cardinality(s) - 1
  BY <1>4, SubsetSmaller
<1>6. rest \notin Bad
  <2> SUFFICES ASSUME rest \in Bad PROVE FALSE
    OBVIOUS
  <2>1. Cardinality(rest) \in Sizes
    OBVIOUS
  <2> HIDE DEF Sizes, Bad
  <2> QED  BY <2>1, <1>2, <1>3, <1>5
<1>7. ~Better(x, x, occ, eff)
  BY <1>5 DEF Better
<1>8. CASE rest = {}
  BY <1>4, <1>5, <1>7, <1>8
<1>9. CASE rest # {}
  <2>1. PICK y \in rest : \A k \in rest : ~Better(k, y, occ, eff)
    BY <1>5, <1>6, <1>9
  <2>2. CASE ~Better(x, y, occ, eff)
    BY <1>4, <2>1, <2>2
  <2>3. CASE Better(x, y, occ, eff)
    <3>1. ASSUME NEW k \in rest PROVE ~Better(k, x, occ, eff)
      BY <1>5, <2>1, <2>3, <3>1, BetterTransitive
    <3> QED  BY <1>4, <1>5, <1>7, <3>1
  <2> QED  BY <2>2, <2>3
<1> QED  BY <1>8, <1>9

\* Spread (plan/spread.go:55) finds a machine exactly if a healthy one has a
\* slot left: comparing by cross products never leaves it without a best one.
THEOREM SpreadFindsRoom ==
  ASSUME NEW S, IsFiniteSet(S), NEW hl, DOMAIN hl = S,
         NEW eff \in [S -> Nat], NEW occ \in [S -> Nat]
  PROVE  (Spread(hl, eff, occ) # {})
            <=> \E m \in S : hl[m] = "Healthy" /\ occ[m] < eff[m]
<1> DEFINE free == {m \in S : hl[m] = "Healthy" /\ eff[m] > 0 /\ occ[m] < eff[m]}
<1>1. Spread(hl, eff, occ) = {m \in free : \A k \in free : ~Better(k, m, occ, eff)}
  BY DEF Spread
<1>2. free \in SUBSET S /\ IsFiniteSet(free) /\ \A m \in free : eff[m] > 0
  BY FS_Subset
<1>3. free # {} <=> \E m \in S : hl[m] = "Healthy" /\ occ[m] < eff[m]
  OBVIOUS
<1> HIDE DEF free
<1>4. free # {} => \E m \in free : \A k \in free : ~Better(k, m, occ, eff)
  BY <1>2, BestExists
<1> QED  BY <1>1, <1>3, <1>4

\* The machines Spread may take have the same use and the same free slots: only
\* the time of the last placement and the order of the file tell them apart.
THEOREM SpreadIsATie ==
  ASSUME NEW S, NEW hl, DOMAIN hl = S,
         NEW eff \in [S -> Nat], NEW occ \in [S -> Nat],
         NEW a \in Spread(hl, eff, occ), NEW b \in Spread(hl, eff, occ)
  PROVE  /\ occ[a] * eff[b] = occ[b] * eff[a]
         /\ eff[a] - occ[a] = eff[b] - occ[b]
<1>1. a \in S /\ b \in S /\ ~Better(a, b, occ, eff) /\ ~Better(b, a, occ, eff)
  BY DEF Spread
<1>2. /\ occ[a] \in Nat /\ occ[b] \in Nat /\ eff[a] \in Nat /\ eff[b] \in Nat
      /\ occ[a] * eff[b] \in Nat /\ occ[b] * eff[a] \in Nat
  BY <1>1
<1> QED  BY <1>1, <1>2 DEF Better

\* The slots taken when the i-th unit is placed, and the placements p[1], p[2],
\* ... of units made one after the other, each by Spread: the loop of createUnits.
TakenBefore(occ, p, i) ==
  [m \in Machines |-> occ[m] + Cardinality(Named(1..(i-1), p, m))]
PlacedInTurn(p, n, occ) ==
  \A i \in 1..n : p[i] \in Spread(health, effMax, TakenBefore(occ, p, i))

LEMMA TakenTyped ==
  ASSUME NEW occ \in [Machines -> Nat], NEW p, NEW i \in Nat \ {0}
  PROVE  TakenBefore(occ, p, i) \in [Machines -> Nat]
<1>1. i - 1 \in Nat
  OBVIOUS
<1>2. IsFiniteSet(1..(i-1))
  BY <1>1, FS_Interval
<1>3. ASSUME NEW m PROVE Cardinality(Named(1..(i-1), p, m)) \in Nat
  BY <1>2, FS_Subset, FS_CardinalityType DEF Named
<1>4. \A m \in Machines : occ[m] + Cardinality(Named(1..(i-1), p, m)) \in Nat
  BY <1>3
<1> QED  BY <1>4 DEF TakenBefore

\* As long as fewer units are placed than there are free slots, a healthy
\* machine has one left.
LEMMA RoomIsLeft ==
  ASSUME LoopTypeOK, NEW occ \in [Machines -> Nat], NEW n \in Nat, NEW p,
         n < FreeSlots(health, effMax, occ)
  PROVE  \E m \in Machines :
           /\ health[m] = "Healthy"
           /\ occ[m] + Cardinality(Named(1..n, p, m)) < effMax[m]
<1>0. PICK J : J = 1..n
  OBVIOUS
<1> DEFINE S == HealthyIn(health)
           f == RoomOf(health, effMax, occ)
<1> SUFFICES ASSUME \A m \in Machines : health[m] = "Healthy" =>
                      ~(occ[m] + Cardinality(Named(J, p, m)) < effMax[m])
             PROVE  FALSE
  BY <1>0
<1>1. /\ DOMAIN health = Machines /\ S \subseteq Machines
      /\ \A m \in Machines : effMax[m] \in Nat /\ occ[m] \in Nat
      /\ IsFiniteSet(DOMAIN health)
  BY ControllerAssumption DEF LoopTypeOK, HealthyIn
<1>2. IsFiniteSet(S) /\ \A m \in S : f[m] \in Nat
  BY <1>1, FreeSlotsAddUp
<1>3. PICK F : AddsUp(f, S, F) /\ FreeSlots(health, effMax, occ) = F[S]
  BY <1>1, FreeSlotsAddUp
<1>4. IsFiniteSet(J) /\ Cardinality(J) = n
  BY <1>0, FS_Interval
<1>5. \A m : Cardinality(Named(J, p, m)) \in Nat
  <2> QED  BY <1>4, FS_Subset, FS_CardinalityType DEF Named
<1>6. \A m \in S : f[m] <= Cardinality(Named(J, p, m))
  <2> SUFFICES ASSUME NEW m \in S PROVE f[m] <= Cardinality(Named(J, p, m))
    OBVIOUS
  <2>1. /\ f[m] = AtLeastZero(effMax[m] - occ[m])
        /\ m \in Machines /\ health[m] = "Healthy"
    BY <1>1 DEF RoomOf, HealthyIn
  <2> HIDE DEF f, S
  <2> QED  BY <2>1, <1>1, <1>5 DEF AtLeastZero
<1> HIDE DEF S, f
<1>7. F[S] <= Cardinality(NamedIn(J, p, S))
  BY <1>2, <1>3, <1>4, <1>6, SumAgainstNames
<1>8. /\ Cardinality(NamedIn(J, p, S)) <= n
      /\ Cardinality(NamedIn(J, p, S)) \in Nat
  BY <1>4, FS_Subset, FS_CardinalityType DEF NamedIn
<1>9. F[S] \in Nat
  BY <1>2, <1>3, SumsAreNat
<1> QED  BY <1>3, <1>7, <1>8, <1>9

\* However many are placed on a machine, it has a slot for each of them.
LEMMA PlacedWithinLimit ==
  ASSUME LoopTypeOK, NEW occ \in [Machines -> Nat], NEW n \in Nat, NEW p,
         PlacedInTurn(p, n, occ), NEW m, Named(1..n, p, m) # {}
  PROVE  /\ m \in Machines /\ health[m] = "Healthy"
         /\ occ[m] + Cardinality(Named(1..n, p, m)) <= effMax[m]
<1>0. PICK J : J = 1..n
  OBVIOUS
<1> DEFINE at == Named(J, p, m)
<1>1. at # {} /\ IsFiniteSet(at)
  <2>1. IsFiniteSet(J)
    BY <1>0, FS_Interval
  <2>2. at \in SUBSET J
    BY DEF Named
  <2>3. at # {}
    BY <1>0
  <2> QED  BY <2>1, <2>2, <2>3, FS_Subset
<1>2. PICK i \in at : \A j \in at : j <= i
  <2> DEFINE T == {n - j : j \in at}
  <2>1. T \subseteq Nat /\ T # {}
    BY <1>0, <1>1 DEF Named
  <2>2. PICK t \in T : \A k \in T : t <= k
    <3> HIDE DEF T
    <3> QED  BY <2>1, LeastNat
  <2>3. PICK i \in at : t = n - i
    OBVIOUS
  <2>4. ASSUME NEW j \in at PROVE j <= i
    <3>1. n - j \in T
      OBVIOUS
    <3>2. n - i <= n - j
      <4> HIDE DEF T
      <4> QED  BY <2>2, <2>3, <3>1
    <3>3. i \in Int /\ j \in Int
      BY <1>0 DEF Named
    <3> QED  BY <3>2, <3>3
  <2> QED  BY <2>4
<1>3. i \in 1..n /\ p[i] = m
  BY <1>0, <1>2 DEF Named
<1>4. m \in Machines /\ TakenBefore(occ, p, i)[m] < effMax[m] /\ health[m] = "Healthy"
  BY <1>3 DEF PlacedInTurn, Spread, LoopTypeOK
<1> DEFINE before == Named(1..(i-1), p, m)
<1>5. at = before \cup {i} /\ i \notin before
  BY <1>0, <1>2 DEF Named
<1>6. IsFiniteSet(before)
  <2>1. before \subseteq at
    BY <1>5
  <2> QED  BY <2>1, <1>1, FS_Subset
<1>7. Cardinality(at) = Cardinality(before) + 1
  <2> HIDE DEF before, at
  <2> QED  BY <1>5, <1>6, FS_AddElement
<1>8. Cardinality(before) \in Nat
  BY <1>6, FS_CardinalityType
<1>9. occ[m] + Cardinality(before) < effMax[m]
  BY <1>4 DEF TakenBefore
<1>10. occ[m] \in Nat /\ effMax[m] \in Nat
  BY <1>4 DEF LoopTypeOK
<1>11. occ[m] + Cardinality(at) <= effMax[m]
  <2> HIDE DEF at, before
  <2> QED  BY <1>7, <1>8, <1>9, <1>10
<1> QED  BY <1>0, <1>4, <1>11

\* Never more are placed than there are free slots.
LEMMA PlacedWithinRoom ==
  ASSUME LoopTypeOK, NEW occ \in [Machines -> Nat], NEW n \in Nat, NEW p,
         PlacedInTurn(p, n, occ)
  PROVE  n <= FreeSlots(health, effMax, occ)
<1>0. PICK J : J = 1..n
  OBVIOUS
<1> DEFINE S == HealthyIn(health)
           f == RoomOf(health, effMax, occ)
           at(m) == Named(J, p, m)
<1>1. /\ DOMAIN health = Machines /\ S \subseteq Machines
      /\ \A m \in Machines : effMax[m] \in Nat /\ occ[m] \in Nat
      /\ IsFiniteSet(DOMAIN health)
  BY ControllerAssumption DEF LoopTypeOK, HealthyIn
<1>2. IsFiniteSet(S) /\ \A m \in S : f[m] \in Nat
  BY <1>1, FreeSlotsAddUp
<1>3. PICK F : AddsUp(f, S, F) /\ FreeSlots(health, effMax, occ) = F[S]
  BY <1>1, FreeSlotsAddUp
<1>4. IsFiniteSet(J) /\ Cardinality(J) = n
  BY <1>0, FS_Interval
<1>5. \A m : IsFiniteSet(at(m)) /\ Cardinality(at(m)) \in Nat
  <2> QED  BY <1>4, FS_Subset, FS_CardinalityType DEF Named
<1>6. \A m \in S : Cardinality(at(m)) <= f[m]
  <2> SUFFICES ASSUME NEW m \in S, Cardinality(at(m)) # 0
               PROVE  Cardinality(at(m)) <= f[m]
    BY <1>2, <1>5
  <2>1. Named(1..n, p, m) # {}
    BY <1>0, FS_EmptySet
  <2>2. occ[m] + Cardinality(at(m)) <= effMax[m]
    BY <1>0, <2>1, PlacedWithinLimit
  <2>3. f[m] = AtLeastZero(effMax[m] - occ[m])
    BY DEF RoomOf
  <2>4. occ[m] \in Nat /\ effMax[m] \in Nat
    BY <1>1
  <2> HIDE DEF f, at
  <2> QED  BY <1>5, <2>2, <2>3, <2>4 DEF AtLeastZero
<1>7. NamedIn(J, p, S) = J
  BY <1>0 DEF PlacedInTurn, Spread, HealthyIn, NamedIn
<1>8. \A m \in S : Cardinality(Named(J, p, m)) <= f[m]
  BY <1>6
<1> HIDE DEF S, f, at
<1>9. Cardinality(NamedIn(J, p, S)) <= F[S]
  BY <1>2, <1>3, <1>4, <1>8, SumAgainstNames
<1> QED  BY <1>3, <1>4, <1>7, <1>9

\* A machine that Spread offers next takes the placement one further.
LEMMA OneMorePlaced ==
  ASSUME LoopTypeOK, NEW occ \in [Machines -> Nat], NEW n \in Nat,
         NEW p \in [1..n -> Machines], PlacedInTurn(p, n, occ),
         NEW m \in Spread(health, effMax, TakenBefore(occ, p, n + 1))
  PROVE  \E q \in [1..(n + 1) -> Machines] : PlacedInTurn(q, n + 1, occ)
<1> DEFINE q == [i \in 1..(n + 1) |-> IF i = n + 1 THEN m ELSE p[i]]
<1>1. m \in Machines
  BY DEF Spread, LoopTypeOK
<1>2. \A i \in 1..(n + 1) : i = n + 1 \/ i \in 1..n
  OBVIOUS
<1>3. q \in [1..(n + 1) -> Machines]
  BY <1>1, <1>2
<1>4. ASSUME NEW i \in 1..(n + 1)
      PROVE  TakenBefore(occ, q, i) = TakenBefore(occ, p, i)
  <2>1. \A j \in 1..(i - 1) : q[j] = p[j]
    OBVIOUS
  <2>2. \A k : Named(1..(i - 1), q, k) = Named(1..(i - 1), p, k)
    BY <2>1 DEF Named
  <2> HIDE DEF q
  <2> QED  BY <2>2 DEF TakenBefore
<1>5. ASSUME NEW i \in 1..(n + 1)
      PROVE  q[i] \in Spread(health, effMax, TakenBefore(occ, q, i))
  <2>1. CASE i = n + 1
    <3>1. q[i] = m
      BY <2>1
    <3> QED  BY <2>1, <3>1, <1>4
  <2>2. CASE i # n + 1
    <3>1. q[i] = p[i] /\ i \in 1..n
      BY <2>2
    <3>2. p[i] \in Spread(health, effMax, TakenBefore(occ, p, i))
      BY <3>1 DEF PlacedInTurn
    <3> QED  BY <3>1, <3>2, <1>4
  <2> QED  BY <2>1, <2>2
<1>6. PlacedInTurn(q, n + 1, occ)
  BY <1>5 DEF PlacedInTurn
<1> QED  BY <1>3, <1>6

\* As long as fewer are placed than there are free slots, Spread offers a machine.
LEMMA SpreadGoesOn ==
  ASSUME LoopTypeOK, NEW occ \in [Machines -> Nat], NEW n \in Nat, NEW p,
         n < FreeSlots(health, effMax, occ)
  PROVE  Spread(health, effMax, TakenBefore(occ, p, n + 1)) # {}
<1> DEFINE taken == TakenBefore(occ, p, n + 1)
<1>1. PICK m \in Machines :
        /\ health[m] = "Healthy"
        /\ occ[m] + Cardinality(Named(1..n, p, m)) < effMax[m]
  BY RoomIsLeft
<1>2. (n + 1) - 1 = n
  OBVIOUS
<1>3. taken[m] < effMax[m]
  BY <1>1, <1>2 DEF TakenBefore
<1>4. taken \in [Machines -> Nat]
  BY TakenTyped
<1>5. IsFiniteSet(Machines) /\ DOMAIN health = Machines /\ effMax \in [Machines -> Nat]
  BY ControllerAssumption DEF LoopTypeOK
<1> HIDE DEF taken
<1>6. Spread(health, effMax, taken) # {}
  <2>1. Spread(health, effMax, taken) # {}
          <=> \E k \in Machines : health[k] = "Healthy" /\ taken[k] < effMax[k]
    BY <1>4, <1>5, SpreadFindsRoom
  <2> QED  BY <2>1, <1>1, <1>3
<1> QED  BY <1>6 DEF taken

\* As many units as there are free slots can be placed in turn.
LEMMA PlacementExists ==
  ASSUME LoopTypeOK, NEW occ \in [Machines -> Nat], NEW n \in Nat,
         n <= FreeSlots(health, effMax, occ)
  PROVE  \E p \in [1..n -> Machines] : PlacedInTurn(p, n, occ)
<1> DEFINE free == FreeSlots(health, effMax, occ)
           Can(k) == \E p \in [1..k -> Machines] : PlacedInTurn(p, k, occ)
           Bad == {k \in Nat : k <= free /\ ~Can(k)}
<1>1. free \in Nat
  <2>1. /\ IsFiniteSet(DOMAIN health)
        /\ \A m \in DOMAIN health : effMax[m] \in Int /\ occ[m] \in Int
    BY ControllerAssumption DEF LoopTypeOK
  <2> QED  BY <2>1, FreeSlotsIsNat
<1>2. Can(0)
  <2> DEFINE p == [i \in 1..0 |-> CHOOSE m \in Machines : TRUE]
  <2>1. p \in [1..0 -> Machines] /\ PlacedInTurn(p, 0, occ)
    BY DEF PlacedInTurn
  <2> QED  BY <2>1
<1>3. ASSUME NEW k \in Nat, k < free, Can(k) PROVE Can(k + 1)
  <2>1. PICK p \in [1..k -> Machines] : PlacedInTurn(p, k, occ)
    BY <1>3
  <2>2. PICK m : m \in Spread(health, effMax, TakenBefore(occ, p, k + 1))
    BY <1>3, SpreadGoesOn
  <2> QED  BY <2>1, <2>2, OneMorePlaced
<1> HIDE DEF Can
<1>4. Bad = {}
  <2> SUFFICES ASSUME Bad # {} PROVE FALSE
    OBVIOUS
  <2>1. Bad \subseteq Nat
    OBVIOUS
  <2> HIDE DEF Bad
  <2>2. PICK k \in Bad : \A j \in Bad : k <= j
    BY <2>1, LeastNat
  <2>3. k \in Nat /\ k <= free /\ ~Can(k)
    BY DEF Bad
  <2>4. k # 0 /\ k - 1 \in Nat /\ k - 1 < free
    BY <1>1, <1>2, <2>3
  <2>5. k - 1 \notin Bad
    BY <2>2, <2>3
  <2>6. Can(k - 1)
    BY <1>1, <2>3, <2>4, <2>5 DEF Bad
  <2>7. Can((k - 1) + 1)
    BY <1>3, <2>4, <2>6
  <2>8. (k - 1) + 1 = k
    BY <2>3
  <2> QED  BY <2>3, <2>7, <2>8
<1>5. Can(n)
  BY <1>4
<1> QED  BY <1>5 DEF Can

\* The loop of createUnits (loop.go:147-152) finds no machine for its next unit
\* exactly when it has made as many as there were free slots: what Creatable
\* takes for it.
THEOREM PlacementEndsFull ==
  ASSUME LoopTypeOK, NEW occ \in [Machines -> Nat], NEW n \in Nat,
         NEW p \in [1..n -> Machines], PlacedInTurn(p, n, occ)
  PROVE  /\ n <= FreeSlots(health, effMax, occ)
         /\ Spread(health, effMax, TakenBefore(occ, p, n + 1)) = {}
              <=> n = FreeSlots(health, effMax, occ)
<1> DEFINE free == FreeSlots(health, effMax, occ)
           next == Spread(health, effMax, TakenBefore(occ, p, n + 1))
<1>1. n <= free
  BY PlacedWithinRoom
<1>2. free \in Nat
  <2>1. /\ IsFiniteSet(DOMAIN health)
        /\ \A m \in DOMAIN health : effMax[m] \in Int /\ occ[m] \in Int
    BY ControllerAssumption DEF LoopTypeOK
  <2> QED  BY <2>1, FreeSlotsIsNat
<1>3. ASSUME next # {} PROVE n # free
  <2>1. PICK m : m \in next
    BY <1>3
  <2>2. PICK q \in [1..(n + 1) -> Machines] : PlacedInTurn(q, n + 1, occ)
    BY <2>1, OneMorePlaced
  <2>3. n + 1 <= free
    <3>1. n + 1 \in Nat
      OBVIOUS
    <3> QED  BY <2>2, <3>1, PlacedWithinRoom
  <2> QED  BY <1>2, <2>3
<1>4. ASSUME next = {} PROVE n = free
  <2>1. ~(n < free)
    BY <1>4, SpreadGoesOn
  <2> QED  BY <1>1, <1>2, <2>1
<1> QED  BY <1>1, <1>3, <1>4

\* k of a finite set that has as many, in some order.
LEMMA ChosenSome ==
  ASSUME NEW S, IsFiniteSet(S), NEW k \in Nat, k <= Cardinality(S)
  PROVE  \E T \in SUBSET S : \E q \in [1..k -> T] :
           /\ Cardinality(T) = k /\ IsInjective(q)
           /\ \A x \in T : \E i \in 1..k : q[i] = x
<1> DEFINE N == 1..Cardinality(S)
<1>1. /\ Cardinality(S) \in Nat /\ IsFiniteSet(N) /\ Cardinality(N) = Cardinality(S)
      /\ IsFiniteSet(1..k) /\ Cardinality(1..k) = k
  <2>1. Cardinality(S) \in Nat
    BY FS_CardinalityType
  <2>2. \A c \in Nat : IsFiniteSet(1..c) /\ Cardinality(1..c) = c
    BY FS_Interval
  <2> QED  BY <2>1, <2>2
<1>2. PICK b : b \in Bijection(N, S)
  BY <1>1, FS_SameCardinalityBij DEF ExistsBijection
<1>3. /\ b \in [N -> S]
      /\ \A i, j \in N : b[i] = b[j] => i = j
  BY <1>2 DEF Bijection, Injection, IsInjective
<1>4. \A i \in 1..k : i \in N
  BY <1>1
<1> DEFINE T == {b[i] : i \in 1..k}
           q == [i \in 1..k |-> b[i]]
<1> HIDE DEF N
<1>5. T \in SUBSET S /\ q \in [1..k -> T]
  BY <1>3, <1>4
<1>6. IsInjective(q)
  BY <1>3, <1>4 DEF IsInjective
<1>7. \A x \in T : \E i \in 1..k : q[i] = x
  OBVIOUS
<1>8. q \in Bijection(1..k, T)
  BY <1>5, <1>6, <1>7 DEF Bijection, Injection, Surjection, IsInjective
<1>9. Cardinality(T) = k
  <2> HIDE DEF q, T
  <2> QED  BY <1>1, <1>8, FS_Bijection DEF ExistsBijection
<1> HIDE DEF q, T
<1> QED  BY <1>5, <1>6, <1>7, <1>9

\* A handler that creates units is never in want of a placement: for as many as
\* Creatable gives there are ids and machines that the loop of createUnits
\* (loop.go:147) would take.
THEOREM CreatableArePlaced ==
  ASSUME LoopTypeOK, NEW n \in Int, NEW occ \in [Machines -> Nat]
  PROVE  \E new \in SUBSET fresh : \E at \in [new -> Machines] :
           /\ Cardinality(new) = Creatable(n, occ)
           /\ PlacedBySpread(new, at, occ)
<1> DEFINE k == Creatable(n, occ)
           free == FreeSlots(health, effMax, occ)
<1>1. free \in Nat
  <2>1. /\ IsFiniteSet(DOMAIN health)
        /\ \A m \in DOMAIN health : effMax[m] \in Int /\ occ[m] \in Int
    BY ControllerAssumption DEF LoopTypeOK
  <2> QED  BY <2>1, FreeSlotsIsNat
<1>2. IsFiniteSet(fresh) /\ Cardinality(fresh) \in Nat
  BY ControllerAssumption, FS_Subset, FS_CardinalityType DEF LoopTypeOK
<1>3. k \in Nat /\ k <= free /\ k <= Cardinality(fresh)
  <2> HIDE DEF free
  <2> QED  BY <1>1, <1>2 DEF Creatable, AtLeastZero, Lesser, free
<1> HIDE DEF k
<1>4. PICK p \in [1..k -> Machines] : PlacedInTurn(p, k, occ)
  BY <1>3, PlacementExists
<1>5. PICK new \in SUBSET fresh : \E q \in [1..k -> new] :
           /\ Cardinality(new) = k /\ IsInjective(q)
           /\ \A x \in new : \E i \in 1..k : q[i] = x
  BY <1>2, <1>3, ChosenSome
<1>6. PICK q \in [1..k -> new] :
           /\ Cardinality(new) = k /\ IsInjective(q)
           /\ \A x \in new : \E i \in 1..k : q[i] = x
  BY <1>5
<1> DEFINE turn(u) == CHOOSE i \in 1..k : q[i] = u
           at == [u \in new |-> p[turn(u)]]
<1>7. \A i \in 1..k : turn(q[i]) = i
  BY <1>6 DEF IsInjective
<1>8. \A u \in new : turn(u) \in 1..k
  BY <1>6
<1> HIDE DEF turn
<1>9. at \in [new -> Machines]
  BY <1>8
<1>10. \A i \in 1..k : q[i] \in new /\ at[q[i]] = p[i]
  BY <1>6, <1>7
<1> HIDE DEF at
<1>11. ASSUME NEW i \in 1..k
       PROVE  at[q[i]] \in
                Spread(health, effMax,
                       [m \in Machines |->
                          occ[m] + Cardinality({j \in 1..(i-1) : at[q[j]] = m})])
  <2>1. \A j \in 1..(i-1) : at[q[j]] = p[j]
    BY <1>3, <1>10
  <2>2. \A m : {j \in 1..(i-1) : at[q[j]] = m} = Named(1..(i-1), p, m)
    BY <2>1 DEF Named
  <2>3. [m \in Machines |-> occ[m] + Cardinality({j \in 1..(i-1) : at[q[j]] = m})]
          = TakenBefore(occ, p, i)
    BY <2>2 DEF TakenBefore
  <2> QED  BY <1>4, <1>10, <2>3 DEF PlacedInTurn
<1>12. PlacedBySpread(new, at, occ)
  BY <1>6, <1>11 DEF PlacedBySpread
<1> QED  BY <1>6, <1>9, <1>12 DEF k
=============================================================================
