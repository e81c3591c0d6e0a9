------------------------- MODULE RuntimeStoreProofs -------------------------
(***************************************************************************)
(* Theorems about RuntimeStore, for every set of processes, installables   *)
(* and targets.                                                            *)
(***************************************************************************)
EXTENDS RuntimeStore, Naturals, TLAPS

USE DEF Targets

\* Calls of an apply only, and calls made after the smoke test.
Applying == {"pointer", "build", "validate", "smoke", "register", "recordApplied"}
Tested   == {"register", "activate", "savePrevious", "switchCurrent",
             "pruneCurrent", "prunePrevious", "pruneRoots", "recordApplied"}

\* What the locals of a process are known to hold at each call.  TypeOK alone
\* is not inductive: Build needs an installable, the record needs both.
LocalInv(p) ==
  /\ pc[p] \in Rest => inst[p] = None
  /\ pc[p] \in Applying => inst[p] \in Installables
  /\ pc[p] \in Calls \ {"build"} => /\ target[p] \in Targets
                                    /\ inst[p] # None => target[p] \in Realizes[inst[p]]
  /\ pc[p] \in Tested \cup {"pointer"} => target[p] \in Sound
  /\ pc[p] = "register" => target[p] \in StoreTargets
  /\ pc[p] \in {"savePrevious", "switchCurrent"} => old[p] \in Sound \cup {None}

SafeInv == TypeOK /\ PointersSound /\ AppliedTruth /\ \A p \in Procs : LocalInv(p)

-----------------------------------------------------------------------------
(* Type correctness, sound pointers and truthful provenance. *)

\* Before any operation the store is empty and every process rests.
LEMMA SafeInit == Init => SafeInv
BY StoreAssumption, SMTT(60) DEF Init, SafeInv, TypeOK, PointersSound, AppliedTruth, LocalInv,
   Rest, Calls, Applying, Tested

\* No step of any operation, and no crash, breaks it: a pointer or the record
\* is only ever given a target that went through the smoke test.
LEMMA SafeStep == SafeInv /\ [Next]_vars => SafeInv'
<1> SUFFICES ASSUME SafeInv, [Next]_vars PROVE SafeInv'
  OBVIOUS
<1> USE StoreAssumption DEF SafeInv, TypeOK, PointersSound, AppliedTruth, LocalInv,
      Rest, Calls, Applying, Tested, shared, locals
<1>1. ASSUME NEW p \in Procs, NEW i \in Installables, StartApply(p, i) PROVE SafeInv'
  BY <1>1 DEF StartApply, Recorded, Goto, AppliedRecord
<1>2. ASSUME NEW p \in Procs, Rollback(p) PROVE SafeInv'
  BY <1>2 DEF Rollback, Goto, AppliedRecord
<1>3. ASSUME NEW p \in Procs, Abort(p) PROVE SafeInv'
  BY <1>3 DEF Abort, Return, AppliedRecord
<1>4. ASSUME NEW p \in Procs, SkipBuild(p) PROVE SafeInv'
  BY <1>4 DEF SkipBuild, Return, AppliedRecord
<1>5. ASSUME NEW p \in Procs, NotSatisfied(p) PROVE SafeInv'
  BY <1>5 DEF NotSatisfied, Goto, AppliedRecord
<1>6. ASSUME NEW p \in Procs, Build(p) PROVE SafeInv'
  BY <1>6 DEF Build, Goto, AppliedRecord
<1>7. ASSUME NEW p \in Procs, Validate(p) PROVE SafeInv'
  BY <1>7 DEF Validate, Goto, Return, AppliedRecord
<1>8. ASSUME NEW p \in Procs, Smoke(p) PROVE SafeInv'
  BY <1>8 DEF Smoke, SmokePasses, AfterSmoke, Goto, Return, AppliedRecord
<1>9. ASSUME NEW p \in Procs, RegisterGCRoot(p) PROVE SafeInv'
  BY <1>9 DEF RegisterGCRoot, Goto, AppliedRecord
<1>10. ASSUME NEW p \in Procs, ActivateRead(p) PROVE SafeInv'
  BY <1>10 DEF ActivateRead, AfterRead, Goto, Return, AppliedRecord
<1>11. ASSUME NEW p \in Procs, SavePrevious(p) PROVE SafeInv'
  BY <1>11 DEF SavePrevious, Goto, AppliedRecord
<1>12. ASSUME NEW p \in Procs, SwitchCurrent(p) PROVE SafeInv'
  BY <1>12 DEF SwitchCurrent, Goto, AppliedRecord
<1>13. ASSUME NEW p \in Procs, PruneCurrent(p) PROVE SafeInv'
  BY <1>13 DEF PruneCurrent, Goto, AppliedRecord
<1>14. ASSUME NEW p \in Procs, PrunePrevious(p) PROVE SafeInv'
  BY <1>14 DEF PrunePrevious, Retained, Goto, AppliedRecord
<1>15. ASSUME NEW p \in Procs, NEW t \in StoreTargets, PruneRoot(p, t) PROVE SafeInv'
  BY <1>15 DEF PruneRoot, Return, AppliedRecord
<1>16. ASSUME NEW p \in Procs, PruneDone(p) PROVE SafeInv'
  BY <1>16 DEF PruneDone, Goto, Return, AppliedRecord
<1>17. ASSUME NEW p \in Procs, RecordApplied(p) PROVE SafeInv'
  BY <1>17 DEF RecordApplied, Record, Return, AppliedRecord
<1>18. ASSUME NEW t \in Targets, Collect(t) \/ Provide(t) PROVE SafeInv'
  BY <1>18 DEF Collect, Provide
<1>19. CASE UNCHANGED vars
  BY <1>19 DEF vars
<1> QED
  BY <1>1, <1>2, <1>3, <1>4, <1>5, <1>6, <1>7, <1>8, <1>9, <1>10, <1>11, <1>12, <1>13, <1>14, <1>15, <1>16, <1>17, <1>18, <1>19 DEF Next, Step

\* The type invariant.
THEOREM TypeCorrect == Spec => []TypeOK
<1>1. SafeInv => TypeOK
  BY DEF SafeInv
<1> QED
  BY SafeInit, SafeStep, <1>1, PTL DEF Spec

\* A pointer only ever names a runtime that passed its smoke test.
THEOREM OnlySoundRuntimes == Spec => []PointersSound
<1>1. SafeInv => PointersSound
  BY DEF SafeInv
<1> QED
  BY SafeInit, SafeStep, <1>1, PTL DEF Spec

\* The provenance record is true, however operations interleave or stop.
THEOREM TruthfulProvenance == Spec => []AppliedTruth
<1>1. SafeInv => AppliedTruth
  BY DEF SafeInv
<1> QED
  BY SafeInit, SafeStep, <1>1, PTL DEF Spec

\* An apply that reports its installable as already active is right.
THEOREM SkipsAreSound == Spec => SkipSound
<1>1. SafeInv /\ [Next]_vars =>
        [\A p \in Procs : SkipBuild(p) =>
           current \in Realizes[inst[p]] \cap Sound \cap disk]_vars
  <2> SUFFICES ASSUME SafeInv, NEW p \in Procs, SkipBuild(p)
               PROVE  current \in Realizes[inst[p]] \cap Sound \cap disk
    OBVIOUS
  <2>1. LocalInv(p) /\ pc[p] = "pointer" /\ current = target[p] /\ current \in disk
    BY DEF SafeInv, SkipBuild, Satisfied
  <2>2. target[p] \in Realizes[inst[p]] \cap Sound
    BY <2>1, StoreAssumption DEF LocalInv, Applying, Tested, Calls
  <2> QED
    BY <2>1, <2>2
<1> QED
  BY SafeInit, SafeStep, <1>1, PTL DEF Spec, SkipSound

-----------------------------------------------------------------------------
(* Several processes.  Nothing locks the directory, and what follows needs  *)
(* that certain calls of two processes do not overlap.  Each theorem names  *)
(* the overlap it cannot bear; of a single process there is none.           *)

OneAtATime == \A p, q \in Procs : p = q

Moving     == {"savePrevious", "switchCurrent"}
Activating == {"activate"} \cup Moving
Pruning    == {"pruneCurrent", "prunePrevious", "pruneRoots"}
Switched   == Pruning \cup {"recordApplied"}

\* No process prunes while another one activates.
PrunesApart == \A p, q \in Procs : ~(pc[p] \in Activating /\ pc[q] \in Pruning)

\* No process switches while another one's apply is not recorded yet.
SwitchesApart ==
  \A p, q \in Procs : ~(pc[p] = "switchCurrent" /\ pc[q] \in Switched /\ inst[q] # None)

\* No two processes are between Activate's read of current and its switch.
MovesApart == \A p, q \in Procs : pc[p] \in Moving /\ pc[q] \in Moving => p = q

LEMMA AloneIsApart == OneAtATime => PrunesApart /\ SwitchesApart /\ MovesApart
BY DEF OneAtATime, PrunesApart, SwitchesApart, MovesApart, Activating, Moving, Switched, Pruning

-----------------------------------------------------------------------------
(* Retained pointers. *)

\* A target is retained before Activate runs, and so is what it read from
\* current; the prune keeps what both pointers name.
RetainInv(p) ==
  /\ pc[p] \in Activating /\ target[p] \in StoreTargets => target[p] \in roots
  /\ pc[p] \in Moving /\ old[p] \in StoreTargets => old[p] \in roots
  /\ pc[p] = "prunePrevious" => current \in keep[p]
  /\ pc[p] = "pruneRoots" => {current, previous} \subseteq keep[p]

\* A root in place means an output on disk, which lets RegisterGCRoot accept it.
RootsInv == /\ RootsRetain /\ roots \subseteq disk
            /\ \A p \in Procs : RetainInv(p)

\* The empty store needs no roots.
LEMMA RootsInit == Init => RootsInv
BY StoreAssumption DEF Init, RootsInv, RootsRetain, RetainInv, Activating, Moving

\* A root is registered before a pointer names its target and pruned only when
\* neither pointer does and nobody is about to make one.
LEMMA RootsStep == PrunesApart /\ SafeInv /\ RootsInv /\ [Next]_vars => RootsInv'
<1> SUFFICES ASSUME PrunesApart, SafeInv, RootsInv, [Next]_vars PROVE RootsInv'
  OBVIOUS
<1> USE StoreAssumption DEF PrunesApart, SafeInv, TypeOK, LocalInv, RootsInv, RootsRetain, RetainInv,
      Activating, Moving, Pruning, Rest, Calls, Applying, Tested, shared, locals
<1>1. ASSUME NEW p \in Procs, NEW i \in Installables, StartApply(p, i) PROVE RootsInv'
  BY <1>1 DEF StartApply, Recorded, Goto
<1>2. ASSUME NEW p \in Procs, Rollback(p) PROVE RootsInv'
  BY <1>2 DEF Rollback, Goto
<1>3. ASSUME NEW p \in Procs, Abort(p) PROVE RootsInv'
  BY <1>3 DEF Abort, Return
<1>4. ASSUME NEW p \in Procs, SkipBuild(p) PROVE RootsInv'
  BY <1>4 DEF SkipBuild, Return
<1>5. ASSUME NEW p \in Procs, NotSatisfied(p) PROVE RootsInv'
  BY <1>5 DEF NotSatisfied, Goto
<1>6. ASSUME NEW p \in Procs, Build(p) PROVE RootsInv'
  BY <1>6 DEF Build, Goto
<1>7. ASSUME NEW p \in Procs, Validate(p) PROVE RootsInv'
  BY <1>7 DEF Validate, Goto, Return
<1>8. ASSUME NEW p \in Procs, Smoke(p) PROVE RootsInv'
  BY <1>8 DEF Smoke, SmokePasses, AfterSmoke, Goto, Return
<1>9. ASSUME NEW p \in Procs, RegisterGCRoot(p) PROVE RootsInv'
  BY <1>9 DEF RegisterGCRoot, Goto
<1>10. ASSUME NEW p \in Procs, ActivateRead(p) PROVE RootsInv'
  BY <1>10 DEF ActivateRead, AfterRead, Goto, Return
<1>11. ASSUME NEW p \in Procs, SavePrevious(p) PROVE RootsInv'
  BY <1>11 DEF SavePrevious, Goto
<1>12. ASSUME NEW p \in Procs, SwitchCurrent(p) PROVE RootsInv'
  BY <1>12 DEF SwitchCurrent, Goto
<1>13. ASSUME NEW p \in Procs, PruneCurrent(p) PROVE RootsInv'
  BY <1>13 DEF PruneCurrent, Goto
<1>14. ASSUME NEW p \in Procs, PrunePrevious(p) PROVE RootsInv'
  BY <1>14 DEF PrunePrevious, Retained, Goto
<1>15. ASSUME NEW p \in Procs, NEW t \in StoreTargets, PruneRoot(p, t) PROVE RootsInv'
  BY <1>15 DEF PruneRoot, Return
<1>16. ASSUME NEW p \in Procs, PruneDone(p) PROVE RootsInv'
  BY <1>16 DEF PruneDone, Goto, Return
<1>17. ASSUME NEW p \in Procs, RecordApplied(p) PROVE RootsInv'
  BY <1>17 DEF RecordApplied, Return
<1>18. ASSUME NEW t \in Targets, Collect(t) \/ Provide(t) PROVE RootsInv'
  BY <1>18 DEF Collect, Provide
<1>19. CASE UNCHANGED vars
  BY <1>19 DEF vars
<1> QED
  BY <1>1, <1>2, <1>3, <1>4, <1>5, <1>6, <1>7, <1>8, <1>9,
     <1>10, <1>11, <1>12, <1>13, <1>14, <1>15, <1>16, <1>17, <1>18, <1>19
     DEF Next, Step

\* Neither pointer's store output can be collected, at any step of any
\* operation and after a crash at any of them, as long as no process prunes
\* while another one activates: that overlap is all that can take a root away.
THEOREM PointersRetained == Spec /\ []PrunesApart => []RootsRetain
<1>1. RootsInv => RootsRetain
  BY DEF RootsInv
<1> QED
  BY SafeInit, SafeStep, RootsInit, RootsStep, <1>1, PTL DEF Spec

-----------------------------------------------------------------------------
(* Provenance of the active runtime. *)

\* From its switch to its record an apply finds its target active.
ActiveInv == \A p \in Procs : pc[p] \in Switched /\ inst[p] # None => current = target[p]

LEMMA ActiveStep == SwitchesApart /\ SafeInv /\ ActiveInv /\ [Next]_vars => ActiveInv'
<1> SUFFICES ASSUME SwitchesApart, SafeInv, ActiveInv, [Next]_vars PROVE ActiveInv'
  OBVIOUS
<1> USE StoreAssumption DEF SwitchesApart, SafeInv, TypeOK, ActiveInv, Switched, Pruning, Rest, shared, locals
<1>1. ASSUME NEW p \in Procs, NEW i \in Installables, StartApply(p, i) PROVE ActiveInv'
  BY <1>1 DEF StartApply, Recorded, Goto
<1>2. ASSUME NEW p \in Procs, Rollback(p) PROVE ActiveInv'
  BY <1>2 DEF Rollback, Goto
<1>3. ASSUME NEW p \in Procs, Abort(p) PROVE ActiveInv'
  BY <1>3 DEF Abort, Return
<1>4. ASSUME NEW p \in Procs, SkipBuild(p) PROVE ActiveInv'
  BY <1>4 DEF SkipBuild, Return
<1>5. ASSUME NEW p \in Procs, NotSatisfied(p) PROVE ActiveInv'
  BY <1>5 DEF NotSatisfied, Goto
<1>6. ASSUME NEW p \in Procs, Build(p) PROVE ActiveInv'
  BY <1>6 DEF Build, Goto
<1>7. ASSUME NEW p \in Procs, Validate(p) PROVE ActiveInv'
  BY <1>7 DEF Validate, Goto, Return
<1>8. ASSUME NEW p \in Procs, Smoke(p) PROVE ActiveInv'
  BY <1>8 DEF Smoke, SmokePasses, AfterSmoke, Goto, Return
<1>9. ASSUME NEW p \in Procs, RegisterGCRoot(p) PROVE ActiveInv'
  BY <1>9 DEF RegisterGCRoot, Goto
<1>10. ASSUME NEW p \in Procs, ActivateRead(p) PROVE ActiveInv'
  BY <1>10 DEF ActivateRead, AfterRead, Goto, Return
<1>11. ASSUME NEW p \in Procs, SavePrevious(p) PROVE ActiveInv'
  BY <1>11 DEF SavePrevious, Goto
<1>12. ASSUME NEW p \in Procs, SwitchCurrent(p) PROVE ActiveInv'
  BY <1>12 DEF SwitchCurrent, Goto
<1>13. ASSUME NEW p \in Procs, PruneCurrent(p) PROVE ActiveInv'
  BY <1>13 DEF PruneCurrent, Goto
<1>14. ASSUME NEW p \in Procs, PrunePrevious(p) PROVE ActiveInv'
  BY <1>14 DEF PrunePrevious, Retained, Goto
<1>15. ASSUME NEW p \in Procs, NEW t \in StoreTargets, PruneRoot(p, t) PROVE ActiveInv'
  BY <1>15 DEF PruneRoot, Return
<1>16. ASSUME NEW p \in Procs, PruneDone(p) PROVE ActiveInv'
  BY <1>16 DEF PruneDone, Goto, Return
<1>17. ASSUME NEW p \in Procs, RecordApplied(p) PROVE ActiveInv'
  BY <1>17 DEF RecordApplied, Return
<1>18. ASSUME NEW t \in Targets, Collect(t) \/ Provide(t) PROVE ActiveInv'
  BY <1>18 DEF Collect, Provide
<1>19. CASE UNCHANGED vars
  BY <1>19 DEF vars
<1> QED
  BY <1>1, <1>2, <1>3, <1>4, <1>5, <1>6, <1>7, <1>8, <1>9,
     <1>10, <1>11, <1>12, <1>13, <1>14, <1>15, <1>16, <1>17, <1>18, <1>19
     DEF Next, Step

\* The record is only ever written for the runtime that is active, as long as
\* no process switches between the switch and the record of another one.
THEOREM RecordFollowsSwitch == Spec /\ []SwitchesApart => RecordsTheActive
<1>1. Init => ActiveInv
  BY DEF Init, ActiveInv, Switched, Pruning
<1>2. SafeInv /\ ActiveInv /\ [Next]_vars
        => [applied' # applied => applied' # None /\ applied'.target = current]_vars
  <2> SUFFICES ASSUME SafeInv, ActiveInv, Next, applied' # applied
               PROVE  applied' # None /\ applied'.target = current
    OBVIOUS
  <2>1. PICK p \in Procs : RecordApplied(p)
    BY DEF Next, Step, StartApply, Rollback, Abort, SkipBuild, NotSatisfied, Build, Validate,
       Smoke, RegisterGCRoot, ActivateRead, SavePrevious, SwitchCurrent, PruneCurrent,
       PrunePrevious, PruneRoot, PruneDone, Collect, Provide, shared
  <2>2. inst[p] \in Installables /\ target[p] \in Targets
    BY <2>1 DEF RecordApplied, SafeInv, LocalInv, Applying, Calls
  <2>3. target[p] = current
    BY <2>1, <2>2, StoreAssumption DEF RecordApplied, ActiveInv, Switched
  <2>4. applied' = [installable |-> inst[p], target |-> target[p]]
    BY <2>1 DEF RecordApplied, Record
  <2> QED
    BY <2>2, <2>3, <2>4, StoreAssumption DEF AppliedRecord
<1> QED
  BY SafeInit, SafeStep, <1>1, ActiveStep, <1>2, PTL DEF Spec, RecordsTheActive

\* An apply that reports success, by a skip or by its record, leaves a runtime
\* active that its own installable realizes to and that starts
\* (runtimeapply.go:58, runtimeapply.go:79), under the same proviso.
THEOREM SuccessMeansActive ==
  Spec /\ []SwitchesApart =>
    [][\A p \in Procs : pc[p] \notin Rest /\ inst[p] # None /\ pc'[p] = "idle" =>
         current' \in Realizes[inst[p]] \cap Sound]_vars
<1>1. Init => ActiveInv
  BY DEF Init, ActiveInv, Switched, Pruning
<1>2. SafeInv /\ ActiveInv /\ [Next]_vars
        => [\A p \in Procs : pc[p] \notin Rest /\ inst[p] # None /\ pc'[p] = "idle" =>
              current' \in Realizes[inst[p]] \cap Sound]_vars
  <2> SUFFICES ASSUME SafeInv, ActiveInv, Next, NEW p \in Procs,
                      pc[p] \notin Rest, inst[p] # None, pc'[p] = "idle"
               PROVE  current' \in Realizes[inst[p]] \cap Sound
    OBVIOUS
  <2>1. pc[p] \in Calls /\ pc \in [Procs -> Rest \cup Calls]
    BY DEF SafeInv, TypeOK
  <2>2. ASSUME NEW q \in Procs, (\E i \in Installables : StartApply(q, i)) \/ Rollback(q) \/ Abort(q)
        PROVE  FALSE
    BY <2>1, <2>2 DEF StartApply, Rollback, Abort, Goto, Return, Rest
  <2>3. ASSUME NEW t \in Targets, Collect(t) \/ Provide(t) PROVE FALSE
    BY <2>3 DEF Collect, Provide, Rest
  <2>4. PICK q \in Procs : Step(q)
    BY <2>2, <2>3 DEF Next
  <2>5. SkipBuild(p) \/ RecordApplied(p)
    <3>1. CASE NotSatisfied(q) \/ Build(q) \/ Validate(q) \/ Smoke(q) \/ RegisterGCRoot(q)
      BY <2>1, <3>1 DEF NotSatisfied, Build, Validate, Smoke, AfterSmoke, RegisterGCRoot, Goto, Return, Rest
    <3>2. CASE ActivateRead(q) \/ SavePrevious(q) \/ SwitchCurrent(q) \/ PruneCurrent(q) \/ PrunePrevious(q)
      BY <2>1, <3>2 DEF ActivateRead, AfterRead, SavePrevious, SwitchCurrent, PruneCurrent, PrunePrevious,
         Goto, Return, Rest
    <3>3. CASE PruneDone(q) \/ \E t \in StoreTargets : PruneRoot(q, t)
      BY <2>1, <3>3 DEF PruneDone, PruneRoot, Goto, Return, Rest
    <3>4. CASE SkipBuild(q) \/ RecordApplied(q)
      BY <2>1, <3>4 DEF SkipBuild, RecordApplied, Return, Rest
    <3> QED
      BY <2>4, <3>1, <3>2, <3>3, <3>4 DEF Step
  <2>6. target[p] \in Realizes[inst[p]] \cap Sound
    BY <2>5, StoreAssumption DEF SkipBuild, RecordApplied, SafeInv, LocalInv, Applying, Tested, Calls
  <2>7. current' = current /\ current = target[p]
    BY <2>5 DEF SkipBuild, Satisfied, RecordApplied, ActiveInv, Switched, shared
  <2> QED
    BY <2>6, <2>7
<1> QED
  BY SafeInit, SafeStep, <1>1, ActiveStep, <1>2, PTL DEF Spec

-----------------------------------------------------------------------------
(* The store implements RuntimePair. *)

\* What Activate read from current is still there until it switches, and saved
\* by then.
MoveInv(p) ==
  /\ pc[p] \in Moving => old[p] = current /\ current # target[p]
  /\ pc[p] = "savePrevious" => current # None
  /\ pc[p] = "switchCurrent" /\ current # None => previous = current

MovesInv == \A p \in Procs : MoveInv(p)

LEMMA MovesStep == MovesApart /\ SafeInv /\ MovesInv /\ [Next]_vars => MovesInv'
<1> SUFFICES ASSUME MovesApart, SafeInv, MovesInv, [Next]_vars PROVE MovesInv'
  OBVIOUS
<1> USE StoreAssumption DEF MovesApart, SafeInv, TypeOK, LocalInv, MovesInv, MoveInv, Moving, Rest, Calls,
      Tested, Applying, shared, locals
<1>1. ASSUME NEW p \in Procs, NEW i \in Installables, StartApply(p, i) PROVE MovesInv'
  BY <1>1 DEF StartApply, Recorded, Goto
<1>2. ASSUME NEW p \in Procs, Rollback(p) PROVE MovesInv'
  BY <1>2 DEF Rollback, Goto
<1>3. ASSUME NEW p \in Procs, Abort(p) PROVE MovesInv'
  BY <1>3 DEF Abort, Return
<1>4. ASSUME NEW p \in Procs, SkipBuild(p) PROVE MovesInv'
  BY <1>4 DEF SkipBuild, Return
<1>5. ASSUME NEW p \in Procs, NotSatisfied(p) PROVE MovesInv'
  BY <1>5 DEF NotSatisfied, Goto
<1>6. ASSUME NEW p \in Procs, Build(p) PROVE MovesInv'
  BY <1>6 DEF Build, Goto
<1>7. ASSUME NEW p \in Procs, Validate(p) PROVE MovesInv'
  BY <1>7 DEF Validate, Goto, Return
<1>8. ASSUME NEW p \in Procs, Smoke(p) PROVE MovesInv'
  BY <1>8 DEF Smoke, SmokePasses, AfterSmoke, Goto, Return
<1>9. ASSUME NEW p \in Procs, RegisterGCRoot(p) PROVE MovesInv'
  BY <1>9 DEF RegisterGCRoot, Goto
<1>10. ASSUME NEW p \in Procs, ActivateRead(p) PROVE MovesInv'
  BY <1>10 DEF ActivateRead, AfterRead, Goto, Return
<1>11. ASSUME NEW p \in Procs, SavePrevious(p) PROVE MovesInv'
  BY <1>11 DEF SavePrevious, Goto
<1>12. ASSUME NEW p \in Procs, SwitchCurrent(p) PROVE MovesInv'
  BY <1>12 DEF SwitchCurrent, Goto
<1>13. ASSUME NEW p \in Procs, PruneCurrent(p) PROVE MovesInv'
  BY <1>13 DEF PruneCurrent, Goto
<1>14. ASSUME NEW p \in Procs, PrunePrevious(p) PROVE MovesInv'
  BY <1>14 DEF PrunePrevious, Retained, Goto
<1>15. ASSUME NEW p \in Procs, NEW t \in StoreTargets, PruneRoot(p, t) PROVE MovesInv'
  BY <1>15 DEF PruneRoot, Return
<1>16. ASSUME NEW p \in Procs, PruneDone(p) PROVE MovesInv'
  BY <1>16 DEF PruneDone, Goto, Return
<1>17. ASSUME NEW p \in Procs, RecordApplied(p) PROVE MovesInv'
  BY <1>17 DEF RecordApplied, Return
<1>18. ASSUME NEW t \in Targets, Collect(t) \/ Provide(t) PROVE MovesInv'
  BY <1>18 DEF Collect, Provide
<1>19. CASE UNCHANGED vars
  BY <1>19 DEF vars
<1> QED
  BY <1>1, <1>2, <1>3, <1>4, <1>5, <1>6, <1>7, <1>8, <1>9,
     <1>10, <1>11, <1>12, <1>13, <1>14, <1>15, <1>16, <1>17, <1>18, <1>19
     DEF Next, Step

\* A step that touches neither pointer stutters; saving previous is BackUp and
\* moving current is Switch.
LEMMA PairStep == SafeInv /\ MovesInv /\ [Next]_vars => [Pair!Next]_(Pair!vars)
<1> SUFFICES ASSUME SafeInv, MovesInv, [Next]_vars PROVE [Pair!Next]_(Pair!vars)
  OBVIOUS
<1>1. ASSUME NEW p \in Procs, SavePrevious(p) PROVE Pair!BackUp
  BY <1>1 DEF SavePrevious, MovesInv, MoveInv, Moving, Pair!BackUp
<1>2. ASSUME NEW p \in Procs, SwitchCurrent(p) PROVE Pair!Switch(target[p]) /\ target[p] \in Sound
  <2>1. target[p] \in Sound /\ current # target[p] /\ (current # None => previous = current)
    BY <1>2 DEF SwitchCurrent, SafeInv, LocalInv, MovesInv, MoveInv, Moving, Tested
  <2> QED
    BY <1>2, <2>1 DEF SwitchCurrent, Pair!Switch
<1>3. ASSUME \A p \in Procs : ~SavePrevious(p) /\ ~SwitchCurrent(p) PROVE UNCHANGED Pair!vars
  BY <1>3 DEF Next, Step, StartApply, Rollback, Abort, SkipBuild, NotSatisfied, Build, Validate,
     Smoke, RegisterGCRoot, ActivateRead, PruneCurrent, PrunePrevious, PruneRoot, PruneDone,
     RecordApplied, Collect, Provide, shared, vars, Pair!vars
<1> QED
  BY <1>1, <1>2, <1>3 DEF Pair!Next

\* Only a runtime that starts becomes active, and only after the one it
\* replaces has been saved, as long as no two processes move the pointers at
\* once.
THEOREM StoreImplementsPair == Spec /\ []MovesApart => BacksUpBeforeSwitch
<1>1. Init => Pair!Init
  BY DEF Init, Pair!Init
<1>2. Init => MovesInv
  BY DEF Init, MovesInv, MoveInv, Moving
<1> QED
  BY SafeInit, SafeStep, <1>1, <1>2, MovesStep, PairStep, PTL
     DEF Spec, BacksUpBeforeSwitch, Pair!Spec

\* What no step between the two renames may do: fail, or be killed.
NoCrashBetweenRenames ==
  [][\A p \in Procs : ~(pc[p] = "switchCurrent" /\ pc'[p] = "failed")]_vars

\* The pointers differ, or somebody has saved current and not yet switched; what
\* was never active is not saved.
DistinctInv ==
  /\ current = None => previous = None
  /\ current = None \/ current # previous \/ \E p \in Procs : pc[p] = "switchCurrent"

\* A process that crashes between the renames, and two that move the pointers
\* at once, are all that can leave both on one runtime.
THEOREM OnlyACrashUnpairs ==
  Spec /\ []MovesApart /\ NoCrashBetweenRenames => []PairDistinctAtRest
<1>1. Init => MovesInv /\ DistinctInv
  BY DEF Init, MovesInv, MoveInv, Moving, DistinctInv
<1>2. MovesApart /\ SafeInv /\ MovesInv /\ DistinctInv /\ [Next]_vars
      /\ [\A p \in Procs : ~(pc[p] = "switchCurrent" /\ pc'[p] = "failed")]_vars => DistinctInv'
  <2> SUFFICES ASSUME SafeInv, MovesInv, DistinctInv, MovesApart, Next,
                      \A p \in Procs : ~(pc[p] = "switchCurrent" /\ pc'[p] = "failed")
               PROVE  DistinctInv'
    BY DEF DistinctInv, vars
  <2>1. ASSUME NEW p \in Procs, SavePrevious(p) PROVE DistinctInv'
    BY <2>1 DEF SavePrevious, Goto, SafeInv, TypeOK, MovesInv, MoveInv, DistinctInv
  <2>2. ASSUME NEW p \in Procs, SwitchCurrent(p) PROVE DistinctInv'
    <3>1. current' = target[p] /\ previous' = previous /\ target[p] # current /\ previous = current
      BY <2>2 DEF SwitchCurrent, MovesInv, MoveInv, Moving, DistinctInv
    <3>2. target[p] # None
      BY <2>2, StoreAssumption DEF SwitchCurrent, SafeInv, LocalInv, Calls
    <3> QED
      BY <3>1, <3>2 DEF DistinctInv
  <2>3. ASSUME \A p \in Procs : ~SavePrevious(p) /\ ~SwitchCurrent(p) PROVE DistinctInv'
    <3>1. UNCHANGED <<current, previous>>
      BY <2>3 DEF Next, Step, StartApply, Rollback, Abort, SkipBuild, NotSatisfied, Build, Validate,
         Smoke, RegisterGCRoot, ActivateRead, PruneCurrent, PrunePrevious, PruneRoot, PruneDone,
         RecordApplied, Collect, Provide, shared
    <3>2. ASSUME NEW q \in Procs, pc[q] = "switchCurrent" PROVE pc'[q] = "switchCurrent"
      <4>1. ASSUME NEW p \in Procs, p # q, pc'[q] # pc[q] PROVE ~Step(p) /\ ~Abort(p)
        BY <2>3, <4>1 DEF Step, Abort, SkipBuild, NotSatisfied, Build, Validate, Smoke, RegisterGCRoot,
           ActivateRead, PruneCurrent, PrunePrevious, PruneRoot, PruneDone, RecordApplied,
           Goto, Return, SafeInv, TypeOK
      <4>2. ~Step(q)
        BY <2>3, <3>2 DEF Step, SkipBuild, NotSatisfied, Build, Validate, Smoke, RegisterGCRoot,
           ActivateRead, PruneCurrent, PrunePrevious, PruneRoot, PruneDone, RecordApplied
      <4>3. ~Abort(q)
        BY <3>2 DEF Abort, Return, SafeInv, TypeOK
      <4>4. ASSUME NEW p \in Procs, Rollback(p) \/ \E i \in Installables : StartApply(p, i)
            PROVE  pc'[q] = pc[q]
        BY <3>2, <4>4 DEF Rollback, StartApply, Goto, Rest, SafeInv, TypeOK
      <4>5. ASSUME NEW t \in Targets, Collect(t) \/ Provide(t) PROVE pc'[q] = pc[q]
        BY <4>5 DEF Collect, Provide
      <4> QED
        BY <3>2, <4>1, <4>2, <4>3, <4>4, <4>5 DEF Next
    <3> QED
      BY <3>1, <3>2 DEF DistinctInv
  <2> QED
    BY <2>1, <2>2, <2>3
<1>3. DistinctInv => PairDistinctAtRest
  BY DEF DistinctInv, PairDistinctAtRest, Rest
<1> QED
  BY SafeInit, SafeStep, <1>1, MovesStep, <1>2, <1>3, PTL DEF Spec, NoCrashBetweenRenames

-----------------------------------------------------------------------------

\* A node where one process runs at a time has all three, as the runs show.
THEOREM OneProcessSuffices ==
  OneAtATime => (Spec => []RootsRetain /\ RecordsTheActive /\ BacksUpBeforeSwitch)
<1> SUFFICES ASSUME OneAtATime PROVE Spec => []RootsRetain /\ RecordsTheActive /\ BacksUpBeforeSwitch
  OBVIOUS
<1>1. PrunesApart /\ SwitchesApart /\ MovesApart
  BY AloneIsApart
<1> QED
  BY <1>1, PointersRetained, RecordFollowsSwitch, StoreImplementsPair, PTL

-----------------------------------------------------------------------------
(* Liveness.  The provers take ENABLED as it is, so the theorem names the  *)
(* states in which an action that fairness is assumed of can be taken.     *)

\* Every call of an operation can be made; only Build needs an output.
StepCan(p) == pc[p] \in Calls /\ (pc[p] = "build" => Realizes[inst[p]] # {})

StepOpen(p)  == [](StepCan(p) => ENABLED <<Step(p)>>_vars)
StartOpen(p) == [](pc[p] \in Rest => ENABLED <<StartApply(p, Desired)>>_vars)

\* The guards are all that restricts the actions.
GuardsOpen == \A p \in Procs : StepOpen(p) /\ StartOpen(p)

\* The node runs what it is enrolled for.
Good == current \in Realizes[Desired]

\* The calls a true-up has before it until its runtime is active.
Ahead(point) ==
  CASE point = "idle"          -> 9
    [] point = "pointer"       -> 8
    [] point = "build"         -> 7
    [] point = "validate"      -> 6
    [] point = "smoke"         -> 5
    [] point = "register"      -> 4
    [] point = "activate"      -> 3
    [] point = "savePrevious"  -> 2
    [] point = "switchCurrent" -> 1
    [] OTHER                   -> 0

LEMMA AheadType ==
  ASSUME NEW x
  PROVE  /\ Ahead(x) \in 0..9
         /\ Ahead(x) = 9 => x = "idle"
         /\ x \in Calls \cup Rest /\ Ahead(x) = 0 => x \in Switched \cup {"failed"}
<1>1. CASE x \in {"idle", "pointer", "build"}
  BY <1>1 DEF Ahead
<1>2. CASE x \in {"validate", "smoke", "register"}
  BY <1>2 DEF Ahead
<1>3. CASE x \in {"activate", "savePrevious", "switchCurrent"}
  BY <1>3 DEF Ahead
<1>4. CASE x \notin {"idle", "pointer", "build", "validate", "smoke", "register", "activate",
                     "savePrevious", "switchCurrent"}
  <2>1. Ahead(x) = 0
    BY <1>4 DEF Ahead
  <2> QED
    BY <1>4, <2>1 DEF Calls, Rest, Switched, Pruning
<1> QED
  BY <1>1, <1>2, <1>3, <1>4

\* Only a process itself goes on.
LEMMA OwnStep ==
  ASSUME NEW p \in Procs, SafeInv, [Next]_vars
  PROVE  \/ Step(p) \/ (\E i \in Installables : StartApply(p, i)) \/ Rollback(p) \/ Abort(p)
         \/ pc'[p] = pc[p]
<1> USE DEF SafeInv, TypeOK, Goto, Return, locals
<1>1. ASSUME NEW q \in Procs, q # p, Step(q) PROVE pc'[p] = pc[p]
  <2>1. CASE SkipBuild(q) \/ NotSatisfied(q) \/ Build(q) \/ Validate(q) \/ Smoke(q) \/ RegisterGCRoot(q)
    BY <1>1, <2>1 DEF SkipBuild, NotSatisfied, Build, Validate, Smoke, RegisterGCRoot
  <2>2. CASE ActivateRead(q) \/ SavePrevious(q) \/ SwitchCurrent(q) \/ PruneCurrent(q)
             \/ PrunePrevious(q) \/ PruneDone(q) \/ RecordApplied(q)
    BY <1>1, <2>2 DEF ActivateRead, SavePrevious, SwitchCurrent, PruneCurrent, PrunePrevious, PruneDone,
       RecordApplied
  <2>3. CASE \E t \in StoreTargets : PruneRoot(q, t)
    BY <1>1, <2>3 DEF PruneRoot
  <2> QED
    BY <1>1, <2>1, <2>2, <2>3 DEF Step
<1>2. ASSUME NEW q \in Procs, q # p, (\E i \in Installables : StartApply(q, i)) \/ Rollback(q) \/ Abort(q)
      PROVE  pc'[p] = pc[p]
  BY <1>2 DEF StartApply, Rollback, Abort
<1>3. ASSUME (\E t \in Targets : Collect(t) \/ Provide(t)) \/ UNCHANGED vars PROVE pc'[p] = pc[p]
  BY <1>3 DEF Collect, Provide, vars
<1> QED
  BY <1>1, <1>2, <1>3 DEF Next

\* The true-ups of a quiet node agree on what is to be active.
LEMMA GoodStays ==
  ASSUME SafeInv, [Next]_vars, Quiet, Good PROVE Good'
<1> USE DEF shared
<1>1. ASSUME NEW q \in Procs, SwitchCurrent(q) PROVE Good'
  <2>1. pc[q] = "switchCurrent" /\ inst[q] = Desired /\ current' = target[q]
    BY <1>1 DEF SwitchCurrent, Quiet
  <2>2. target[q] \in Realizes[Desired]
    BY <2>1, StoreAssumption DEF SafeInv, LocalInv, Calls
  <2> QED
    BY <2>1, <2>2 DEF Good
<1>2. ASSUME NEW q \in Procs, Step(q), ~SwitchCurrent(q) PROVE current' = current
  BY <1>2 DEF Step, SkipBuild, NotSatisfied, Build, Validate, Smoke, RegisterGCRoot, ActivateRead,
     SavePrevious, PruneCurrent, PrunePrevious, PruneRoot, PruneDone, RecordApplied
<1>3. ASSUME NEW q \in Procs, (\E i \in Installables : StartApply(q, i)) \/ Rollback(q) \/ Abort(q)
      PROVE  current' = current
  BY <1>3 DEF StartApply, Rollback, Abort
<1>4. ASSUME (\E t \in Targets : Collect(t) \/ Provide(t)) \/ UNCHANGED vars PROVE current' = current
  BY <1>4 DEF Collect, Provide, vars
<1> QED
  BY <1>1, <1>2, <1>3, <1>4 DEF Next, Good

\* A process of a quiet node that does not run the enrolled runtime yet only
\* comes closer to it.
LEMMA TrueUpMoves ==
  ASSUME NEW p \in Procs, SafeInv, ActiveInv, [Next]_vars, Quiet, Quiet', ~Good
  PROVE  /\ Step(p) \/ StartApply(p, Desired) => Ahead(pc[p])' < Ahead(pc[p])
         /\ pc'[p] = pc[p] \/ Ahead(pc[p])' < Ahead(pc[p])
<1>1. pc'[p] # "failed" /\ (pc[p] # "idle" => inst[p] = Desired) /\ pc[p] # "failed"
      /\ (pc'[p] # "idle" => inst'[p] = Desired)
  BY DEF Quiet
<1>2. pc[p] \notin Switched
  <2> SUFFICES ASSUME pc[p] \in Switched PROVE FALSE
    OBVIOUS
  <2>1. inst[p] = Desired /\ inst[p] # None
    BY <1>1, StoreAssumption DEF Switched, Pruning
  <2>2. current = target[p]
    BY <2>1 DEF ActiveInv
  <2>3. target[p] \in Realizes[Desired]
    BY <2>1 DEF SafeInv, LocalInv, Switched, Pruning, Calls
  <2> QED
    BY <2>2, <2>3 DEF Good
<1> USE DEF SafeInv, TypeOK, Goto, Return
<1>3. CASE \E i \in Installables : StartApply(p, i)
  <2>1. pc[p] = "idle" /\ pc'[p] \in {"pointer", "build"}
    BY <1>1, <1>3 DEF StartApply, Rest
  <2> QED
    BY <2>1 DEF Ahead
<1>4. CASE NotSatisfied(p) \/ Build(p) \/ Validate(p) \/ Smoke(p)
  <2>1. \/ pc[p] = "pointer" /\ pc'[p] = "build"
        \/ pc[p] = "build" /\ pc'[p] = "validate"
        \/ pc[p] = "validate" /\ pc'[p] = "smoke"
        \/ pc[p] = "smoke" /\ pc'[p] \in {"register", "activate"}
    BY <1>1, <1>4 DEF NotSatisfied, Build, Validate, Smoke, AfterSmoke
  <2> QED
    BY <2>1 DEF Ahead
<1>5. CASE RegisterGCRoot(p) \/ SavePrevious(p) \/ SwitchCurrent(p)
  <2>1. \/ pc[p] = "register" /\ pc'[p] = "activate"
        \/ pc[p] = "savePrevious" /\ pc'[p] = "switchCurrent"
        \/ pc[p] = "switchCurrent" /\ pc'[p] = "pruneCurrent"
    BY <1>5 DEF RegisterGCRoot, SavePrevious, SwitchCurrent
  <2> QED
    BY <2>1 DEF Ahead
<1>6. CASE ActivateRead(p)
  <2>1. pc[p] = "activate" /\ pc'[p] \in {"pruneCurrent", "switchCurrent", "savePrevious"}
    BY <1>1, <1>6 DEF ActivateRead, AfterRead
  <2> QED
    BY <2>1 DEF Ahead
<1>7. ~SkipBuild(p)
  <2> SUFFICES ASSUME SkipBuild(p) PROVE FALSE
    OBVIOUS
  <2>1. pc[p] = "pointer" /\ current = target[p] /\ inst[p] = Desired
    BY <1>1 DEF SkipBuild, Satisfied
  <2>2. target[p] \in Realizes[Desired]
    BY <2>1, StoreAssumption DEF LocalInv, Calls
  <2> QED
    BY <2>1, <2>2 DEF Good
<1>8. ~(PruneCurrent(p) \/ PrunePrevious(p) \/ PruneDone(p) \/ RecordApplied(p)
        \/ \E t \in StoreTargets : PruneRoot(p, t))
  BY <1>2 DEF PruneCurrent, PrunePrevious, PruneDone, RecordApplied, PruneRoot, Switched, Pruning
<1>9. ~Abort(p)
  BY <1>1 DEF Abort
<1>10. ~Rollback(p)
  BY <1>1, StoreAssumption DEF Rollback, LocalInv, Rest
<1>11. CASE pc'[p] = pc[p]
  <2>1. ~Step(p) /\ ~StartApply(p, Desired)
    BY <1>2, <1>7, <1>8, <1>11 DEF Step, StartApply, Rest, NotSatisfied, Build, Validate, Smoke, AfterSmoke,
       RegisterGCRoot, ActivateRead, AfterRead, SavePrevious, SwitchCurrent
  <2> QED
    BY <1>11, <2>1
<1>12. Desired \in Installables
  BY StoreAssumption
<1> QED
  BY <1>3, <1>4, <1>5, <1>6, <1>7, <1>8, <1>9, <1>10, <1>11, <1>12, OwnStep DEF Step

\* Active, not quiet, or at most k calls away.
ActiveIn(p, k) == Good \/ ~Quiet \/ Ahead(pc[p]) <= k

Trued(p) == Spec /\ FairTo(p) /\ StepOpen(p) /\ StartOpen(p) /\ []SwitchesApart

Nearer(p, l, k) == Trued(p) => (ActiveIn(p, l) ~> ActiveIn(p, k))

LEMMA ActiveInit == Init => ActiveInv
BY DEF Init, ActiveInv, Switched, Pruning

LEMMA ActivationComesNearer ==
  ASSUME NEW p \in Procs, NEW k \in Nat, NEW l \in Nat, l = k + 1, Realizes[Desired] # {}
  PROVE  Nearer(p, l, k)
<1> DEFINE Here == Quiet /\ ~Good /\ Ahead(pc[p]) = l
           Inv  == SafeInv /\ ActiveInv
<1>1. ActiveIn(p, l) => Here \/ ActiveIn(p, k)
  BY AheadType DEF ActiveIn
<1>2. Inv /\ Here /\ [Next]_vars => Here' \/ ActiveIn(p, k)'
  <2> SUFFICES ASSUME Inv, Here, [Next]_vars, ~Good', Quiet', Ahead(pc[p])' # l PROVE Ahead(pc[p])' <= k
    BY DEF ActiveIn
  <2>1. Ahead(pc[p])' \in 0..9
    BY AheadType
  <2>2. pc'[p] # pc[p]
    OBVIOUS
  <2>3. Ahead(pc[p])' < l
    BY <2>2, TrueUpMoves
  <2> QED
    BY <2>1, <2>3
<1>3. Inv /\ Here /\ <<Next /\ (Step(p) \/ StartApply(p, Desired))>>_vars => ActiveIn(p, k)'
  <2> SUFFICES ASSUME Inv, Here, [Next]_vars, Step(p) \/ StartApply(p, Desired), Quiet'
               PROVE  Ahead(pc[p])' <= k
    BY DEF ActiveIn
  <2>1. Ahead(pc[p])' \in 0..9
    BY AheadType
  <2>2. Ahead(pc[p])' < l
    BY TrueUpMoves
  <2> QED
    BY <2>1, <2>2
<1>4. (Step(p) => Next) /\ (StartApply(p, Desired) => Next)
  BY StoreAssumption DEF Next
<1>5. CASE l = 9
  <2>1. Here => pc[p] \in Rest
    BY <1>5, AheadType DEF Rest
  <2> HIDE DEF Here, Inv
  <2>2. Init => Inv
    BY SafeInit, ActiveInit DEF Inv
  <2>3. SwitchesApart /\ Inv /\ [Next]_vars => Inv'
    BY SafeStep, ActiveStep DEF Inv
  <2> QED
    BY <1>1, <1>2, <1>3, <1>4, <2>1, <2>2, <2>3, PTL DEF Nearer, Trued, Spec, FairTo, StartOpen
<1>6. CASE l # 9
  <2>1. Inv /\ Here => StepCan(p)
    <3> SUFFICES ASSUME Inv, Here PROVE StepCan(p)
      OBVIOUS
    <3>1. pc[p] # "idle"
      BY <1>6 DEF Ahead
    <3>2. pc[p] # "failed" /\ inst[p] = Desired
      BY <3>1 DEF Quiet
    <3> QED
      BY <3>1, <3>2 DEF StepCan, SafeInv, TypeOK, Rest
  <2> HIDE DEF Here, Inv
  <2>2. Init => Inv
    BY SafeInit, ActiveInit DEF Inv
  <2>3. SwitchesApart /\ Inv /\ [Next]_vars => Inv'
    BY SafeStep, ActiveStep DEF Inv
  <2> QED
    BY <1>1, <1>2, <1>3, <1>4, <2>1, <2>2, <2>3, PTL DEF Nearer, Trued, Spec, FairTo, StepOpen
<1> QED
  BY <1>5, <1>6

\* Once nothing fails and every operation under way is a true-up, a node of any
\* number of processes comes to run the enrolled runtime and stays with it
\* (main.go:190, README.md:132), provided that no process switches between
\* another one's switch and its record.  The enrolled installable realizes to
\* something.
THEOREM QuietNodesConverge ==
  Procs # {} /\ Realizes[Desired] # {} =>
    (LiveSpec /\ GuardsOpen /\ []SwitchesApart => Converges)
<1> SUFFICES ASSUME NEW p \in Procs, Realizes[Desired] # {}
             PROVE  LiveSpec /\ GuardsOpen /\ []SwitchesApart => Converges
  OBVIOUS
<1>1. LiveSpec /\ GuardsOpen /\ []SwitchesApart => Trued(p)
  BY DEF LiveSpec, Fairness, GuardsOpen, Trued
<1>2. Trued(p) => Converges
  <2>1. ActiveIn(p, 9)
    BY AheadType DEF ActiveIn
  <2>2. SafeInv /\ ActiveInv /\ ActiveIn(p, 0) => Good \/ ~Quiet
    <3> SUFFICES ASSUME SafeInv, ActiveInv, Quiet, Ahead(pc[p]) <= 0 PROVE Good
      BY DEF ActiveIn
    <3>1. pc[p] \in Switched \cup {"failed"}
      BY AheadType DEF SafeInv, TypeOK
    <3>2. pc[p] \in Switched /\ inst[p] = Desired /\ inst[p] # None
      BY <3>1, StoreAssumption DEF Quiet, Switched, Pruning
    <3>3. current = target[p] /\ target[p] \in Realizes[Desired]
      BY <3>2 DEF ActiveInv, SafeInv, LocalInv, Switched, Pruning, Calls
    <3> QED
      BY <3>3 DEF Good
  <2>3. /\ Nearer(p, 9, 8) /\ Nearer(p, 8, 7) /\ Nearer(p, 7, 6) /\ Nearer(p, 6, 5) /\ Nearer(p, 5, 4)
        /\ Nearer(p, 4, 3) /\ Nearer(p, 3, 2) /\ Nearer(p, 2, 1) /\ Nearer(p, 1, 0)
    BY ActivationComesNearer
  <2>4. SafeInv /\ Quiet /\ Good /\ [Next]_vars => Good'
    BY GoodStays
  <2>5. Good => current \in Realizes[Desired]
    BY DEF Good
  <2> QED
    BY SafeInit, SafeStep, ActiveInit, ActiveStep, <2>1, <2>2, <2>3, <2>4, <2>5, PTL
       DEF Trued, Spec, Nearer, Converges
<1> QED
  BY <1>1, <1>2
=============================================================================
