---------------------------- MODULE RuntimeStore ----------------------------
(***************************************************************************)
(* The node-local runtime store (internal/runtime/store.go) and the        *)
(* applier that drives it (internal/client/runtimeapply.go).               *)
(*                                                                         *)
(* The shared state is what lives under <state>/runtime: the symlinks      *)
(* `current' and `previous', the provenance record applied.json and the    *)
(* indirect Nix GC roots.  A process runs one operation at a time: an      *)
(* apply (a true-up is the apply of the enrolled installable) or a         *)
(* rollback.  Nothing locks the directory, so every read and every rename  *)
(* is a step of its own and the steps of several processes interleave.     *)
(* At any step a process may return an error or be killed; what it has     *)
(* written stays.  The disk changes under it: Nix collects store outputs   *)
(* that no root retains and operators add or remove directories.           *)
(***************************************************************************)
CONSTANTS
  Procs,          \* processes of the node that may run an operation
  Installables,   \* what an apply can be asked for
  Prebuilt,       \* installables that are absolute directories
  Realizes,       \* the outputs an installable can realize to
  StoreTargets,   \* /nix/store outputs
  PlainTargets,   \* runtime directories outside the store
  Sound,          \* targets whose bin/pi --version exits with 0
  Desired,        \* the installable of the enrolled descriptor
  None

Targets == StoreTargets \cup PlainTargets

\* applied.json: which installable produced the active runtime.
AppliedRecord == [installable : Installables, target : Targets]

\* A flake installable is realized by Nix, so its outputs are store paths; an
\* unpinned one may realize to several.
ASSUME StoreAssumption ==
  /\ Prebuilt \subseteq Installables
  /\ Realizes \in [Installables -> SUBSET Targets]
  /\ \A i \in Installables \ Prebuilt : Realizes[i] \subseteq StoreTargets
  /\ Sound \subseteq Targets
  /\ Desired \in Installables
  /\ None \notin Targets \cup Installables \cup AppliedRecord

VARIABLES
  current, previous,  \* the two pointers, None when the symlink does not exist
  applied,            \* the provenance record, None when missing or unreadable
  roots,              \* targets with an indirect root under gcroots/
  disk,               \* targets that pass Validate: a directory with bin/pi
  pc,                 \* the call a process makes next
  inst,               \* the installable being applied, None in a rollback
  target,             \* the target read from the record, built or rolled back to
  old,                \* what Activate read from current
  keep, entries       \* PruneGCRoots: targets to retain, roots still to inspect

shared == <<current, previous, applied, roots, disk>>
locals == <<inst, target, old, keep, entries>>
vars   == <<current, previous, applied, roots, disk, pc,
            inst, target, old, keep, entries>>

\* A process rests between operations, after a success or after an error.
Rest == {"idle", "failed"}

Calls == {"pointer", "build", "validate", "smoke", "register", "activate",
          "savePrevious", "switchCurrent", "pruneCurrent", "prunePrevious",
          "pruneRoots", "recordApplied"}

TypeOK ==
  /\ current \in Targets \cup {None}
  /\ previous \in Targets \cup {None}
  /\ applied \in AppliedRecord \cup {None}
  /\ roots \subseteq StoreTargets
  /\ disk \subseteq Targets
  /\ pc \in [Procs -> Rest \cup Calls]
  /\ inst \in [Procs -> Installables \cup {None}]
  /\ target \in [Procs -> Targets \cup {None}]
  /\ old \in [Procs -> Targets \cup {None}]
  /\ keep \in [Procs -> SUBSET (Targets \cup {None})]
  /\ entries \in [Procs -> SUBSET StoreTargets]

Init ==
  /\ current = None /\ previous = None /\ applied = None
  /\ roots = {}
  /\ disk \in SUBSET Targets
  /\ pc = [p \in Procs |-> "idle"]
  /\ inst = [p \in Procs |-> None]
  /\ target = [p \in Procs |-> None]
  /\ old = [p \in Procs |-> None]
  /\ keep = [p \in Procs |-> {}]
  /\ entries = [p \in Procs |-> {}]

-----------------------------------------------------------------------------
\* Leaving an operation: its locals die, whatever it wrote stays.
Return(p, outcome) ==
  /\ pc' = [pc EXCEPT ![p] = outcome]
  /\ inst' = [inst EXCEPT ![p] = None]
  /\ target' = [target EXCEPT ![p] = None]
  /\ old' = [old EXCEPT ![p] = None]
  /\ keep' = [keep EXCEPT ![p] = {}]
  /\ entries' = [entries EXCEPT ![p] = {}]

Goto(p, call) == pc' = [pc EXCEPT ![p] = call]

\* An operation stops early at any of its calls: an executable that cannot be
\* found, an I/O error, a cancelled context, a signal or a crash.
Abort(p) ==
  /\ pc[p] \notin Rest
  /\ Return(p, "failed")
  /\ UNCHANGED shared

-----------------------------------------------------------------------------
\* Apply, first half: skip, or build, validate, smoke and retain the target.

\* Only a record of the same installable can lead to a skip.
RecordedAny(i) == applied # None
Recorded(i)    == applied # None /\ applied.installable = i

\* Apply starts by reading the provenance record.
StartApply(p, i) ==
  /\ pc[p] \in Rest
  /\ inst' = [inst EXCEPT ![p] = i]
  /\ \/ /\ Recorded(i)
        /\ target' = [target EXCEPT ![p] = applied.target]
        /\ Goto(p, "pointer")
     \/ /\ ~Recorded(i)
        /\ UNCHANGED target
        /\ Goto(p, "build")
  /\ UNCHANGED <<shared, old, keep, entries>>

\* satisfiedBy: the recorded target is the active one and still usable.
SatisfiedByRecord(p) == target[p] \in disk
Satisfied(p)         == current = target[p] /\ current \in disk

SkipBuild(p) ==
  /\ pc[p] = "pointer"
  /\ Satisfied(p)
  /\ Return(p, "idle")
  /\ UNCHANGED shared

NotSatisfied(p) ==
  /\ pc[p] = "pointer"
  /\ ~Satisfied(p)
  /\ target' = [target EXCEPT ![p] = None]
  /\ Goto(p, "build")
  /\ UNCHANGED <<shared, inst, old, keep, entries>>

\* Build returns an absolute directory as it is and has Nix realize the rest.
Build(p) ==
  /\ pc[p] = "build"
  /\ \E t \in Realizes[inst[p]] :
       /\ target' = [target EXCEPT ![p] = t]
       /\ disk' = IF inst[p] \in Prebuilt THEN disk ELSE disk \cup {t}
  /\ Goto(p, "validate")
  /\ UNCHANGED <<current, previous, applied, roots, inst, old, keep, entries>>

\* Validate: an unusable candidate is an error of the whole operation.
Validate(p) ==
  /\ pc[p] = "validate"
  /\ \/ target[p] \in disk /\ Goto(p, "smoke") /\ UNCHANGED locals
     \/ target[p] \notin disk /\ Return(p, "failed")
  /\ UNCHANGED shared

\* The tool is found and answers --version.
SmokeFinds(p)  == target[p] \in disk
SmokePasses(p) == target[p] \in disk \cap Sound

\* Only a store output is registered with Nix.
AfterSmoke(p) == IF target[p] \in StoreTargets THEN "register" ELSE "activate"

Smoke(p) ==
  /\ pc[p] = "smoke"
  /\ \/ SmokePasses(p) /\ Goto(p, AfterSmoke(p)) /\ UNCHANGED locals
     \/ ~SmokePasses(p) /\ Return(p, "failed")
  /\ UNCHANGED shared

\* RegisterGCRoot: an existing root is accepted as it is; otherwise
\* nix-store --realise, which brings a collected output back if it can.  What is
\* no store output is refused (Abort).
RegisterGCRoot(p) ==
  /\ pc[p] = "register"
  /\ target[p] \in StoreTargets
  /\ \/ target[p] \in roots /\ UNCHANGED <<roots, disk>>
     \/ /\ target[p] \notin roots
        /\ roots' = roots \cup {target[p]}
        /\ disk' = disk \cup {target[p]}
  /\ Goto(p, "activate")
  /\ UNCHANGED <<current, previous, applied, locals>>
-----------------------------------------------------------------------------
\* Activate, shared by apply and rollback.

\* What Activate does on reading current: nothing when it already points at the
\* target, and nothing to save at the first activation.
SwitchUnsaved(p) == IF current = target[p] THEN "pruneCurrent" ELSE "switchCurrent"
HeldByEither(p)  == CASE target[p] \in {current, previous} -> "pruneCurrent"
                      [] current = None -> "switchCurrent"
                      [] OTHER          -> "savePrevious"
AfterRead(p)     == CASE current = target[p] -> "pruneCurrent"
                      [] current = None      -> "switchCurrent"
                      [] OTHER               -> "savePrevious"

\* Activate validates the target again before it reads.
ActivateRead(p) ==
  /\ pc[p] = "activate"
  /\ \/ /\ target[p] \in disk
        /\ old' = [old EXCEPT ![p] = current]
        /\ Goto(p, AfterRead(p))
        /\ UNCHANGED <<inst, target, keep, entries>>
     \/ target[p] \notin disk /\ Return(p, "failed")
  /\ UNCHANGED shared

SavePrevious(p) ==
  /\ pc[p] = "savePrevious"
  /\ previous' = old[p]
  /\ Goto(p, "switchCurrent")
  /\ UNCHANGED <<current, applied, roots, disk, locals>>

SwitchCurrent(p) ==
  /\ pc[p] = "switchCurrent"
  /\ current' = target[p]
  /\ Goto(p, "pruneCurrent")
  /\ UNCHANGED <<previous, applied, roots, disk, locals>>

-----------------------------------------------------------------------------
\* PruneGCRoots: read both pointers, list gcroots/, then remove one by one.

PruneCurrent(p) ==
  /\ pc[p] = "pruneCurrent"
  /\ keep' = [keep EXCEPT ![p] = {current}]
  /\ Goto(p, "prunePrevious")
  /\ UNCHANGED <<shared, inst, target, old, entries>>

\* Exactly the targets of the two pointers are retained.
RetainsCurrent(p) == keep[p]
Retained(p)       == keep[p] \cup {previous}

\* Listing the directory touches no pointer, so it is taken together with the
\* second read.
PrunePrevious(p) ==
  /\ pc[p] = "prunePrevious"
  /\ keep' = [keep EXCEPT ![p] = Retained(p)]
  /\ entries' = [entries EXCEPT ![p] = roots]
  /\ Goto(p, "pruneRoots")
  /\ UNCHANGED <<shared, inst, target, old>>

\* One directory entry.  A root another process removed in the meantime can no
\* longer be read, which fails the operation.
PruneRoot(p, t) ==
  /\ pc[p] = "pruneRoots"
  /\ t \in entries[p]
  /\ \/ /\ t \in roots
        /\ roots' = IF t \in keep[p] THEN roots ELSE roots \ {t}
        /\ entries' = [entries EXCEPT ![p] = @ \ {t}]
        /\ UNCHANGED <<pc, inst, target, old, keep>>
     \/ /\ t \notin roots
        /\ Return(p, "failed")
        /\ UNCHANGED roots
  /\ UNCHANGED <<current, previous, applied, disk>>

\* A rollback ends with the prune; an apply goes on to its record.
PruneThenRecord(p) ==
  /\ pc[p] = "pruneRoots" /\ entries[p] = {}
  /\ Goto(p, "recordApplied")
  /\ UNCHANGED <<shared, locals>>
PruneDone(p) ==
  /\ pc[p] = "pruneRoots"
  /\ entries[p] = {}
  /\ \/ inst[p] = None /\ Return(p, "idle")
     \/ inst[p] # None /\ Goto(p, "recordApplied") /\ UNCHANGED locals
  /\ UNCHANGED shared

\* What the record says: the installable asked for and what it realized to.
RecordOfCurrent(p) == [installable |-> inst[p], target |-> current]
Record(p)          == [installable |-> inst[p], target |-> target[p]]

\* RecordApplied is a single rename.
RecordApplied(p) ==
  /\ pc[p] = "recordApplied"
  /\ applied' = Record(p)
  /\ Return(p, "idle")
  /\ UNCHANGED <<current, previous, roots, disk>>

\* Rollback reads previous, refuses a missing or unusable one, and activates
\* it.  Provenance stays as it is.
Rollback(p) ==
  /\ pc[p] \in Rest
  /\ previous # None
  /\ previous \in disk
  /\ target' = [target EXCEPT ![p] = previous]
  /\ Goto(p, "activate")
  /\ UNCHANGED <<shared, inst, old, keep, entries>>

-----------------------------------------------------------------------------
\* The disk: Nix collects a store output no root retains, an operator removes
\* a directory; another build or an operator provides one.

Collect(t) == /\ t \in disk \ roots
              /\ disk' = disk \ {t}
              /\ UNCHANGED <<current, previous, applied, roots, pc, locals>>

Provide(t) == /\ t \in Targets \ disk
              /\ disk' = disk \cup {t}
              /\ UNCHANGED <<current, previous, applied, roots, pc, locals>>

\* The steps of an operation under way.
Step(p) ==
  \/ SkipBuild(p) \/ NotSatisfied(p)
  \/ Build(p) \/ Validate(p) \/ Smoke(p) \/ RegisterGCRoot(p)
  \/ ActivateRead(p) \/ SavePrevious(p) \/ SwitchCurrent(p)
  \/ PruneCurrent(p) \/ PrunePrevious(p)
  \/ \E t \in StoreTargets : PruneRoot(p, t)
  \/ PruneDone(p) \/ RecordApplied(p)

Next ==
  \/ \E p \in Procs : \/ \E i \in Installables : StartApply(p, i)
                      \/ Rollback(p)
                      \/ Step(p)
                      \/ Abort(p)
  \/ \E t \in Targets : Collect(t) \/ Provide(t)

Spec == Init /\ [][Next]_vars

\* A running operation goes on, and the node is started again and again, each
\* start truing up to the enrolled installable.
FairTo(p) == WF_vars(Step(p)) /\ WF_vars(StartApply(p, Desired))

Fairness == \A p \in Procs : FairTo(p)

LiveSpec == Spec /\ Fairness

-----------------------------------------------------------------------------
\* Safety, whatever the number of processes.

\* A runtime that failed its smoke test, or never ran it, is never reachable
\* through a pointer or the record, also not by a rollback, which runs no
\* smoke test of its own (store.go:138, store.go:280).
PointersSound ==
  /\ current \in Sound \cup {None}
  /\ previous \in Sound \cup {None}
  /\ applied # None => applied.target \in Sound

\* The provenance record names an installable and an output that this very
\* installable realizes to (store.go:51), however operations interleave.
AppliedTruth == applied # None => applied.target \in Realizes[applied.installable]

\* A skip is sound: when an apply reports its installable as already active,
\* the active runtime is usable, starts, and is an output of that installable,
\* although the record and the pointer were read at different times
\* (runtimeapply.go:58).
SkipSound ==
  [][\A p \in Procs : SkipBuild(p) =>
       current \in Realizes[inst[p]] \cap Sound \cap disk]_vars

-----------------------------------------------------------------------------
\* Safety of a node where one operation runs at a time.

\* Both pointers retain their store outputs: Nix can collect neither, at any
\* step of any operation and after a crash at any of them (store.go:324,
\* README.md:126).
RootsRetain == {current, previous} \cap StoreTargets \subseteq roots \cap disk

\* The same where no operation is under way, which is what the README states of
\* a node: "the active and previous outputs are registered as indirect Nix GC
\* roots" (README.md:126).
RootsRetainAtRest == (\A p \in Procs : pc[p] \in Rest) => RootsRetain

\* Provenance is recorded only for the runtime that is active
\* (runtimeapply.go:124): no crash makes a later true-up skip undone work.
RecordsTheActive ==
  [][applied' # applied => applied' # None /\ applied'.target = current]_vars

\* Processes at rest never leave current and previous on the same runtime.
\* Activate only moves to a different target and "a crash at any point leaves
\* both pointers either untouched or fully updated" (store.go:250), so a pair
\* of different runtimes should stay one.
PairDistinctAtRest ==
  (\A p \in Procs : pc[p] \in Rest) => current = None \/ current # previous

\* The two pointers behave as RuntimePair says: nothing but a runtime that
\* starts ever becomes active, and never before the runtime it replaces has
\* been saved (store.go:248).
Pair == INSTANCE RuntimePair WITH active <- current, backup <- previous

BacksUpBeforeSwitch == Pair!Spec

-----------------------------------------------------------------------------
\* Liveness.

\* Nothing fails and every operation under way is a true-up.
Quiet ==
  \A p \in Procs :
    /\ pc[p] # "failed"
    /\ pc[p] # "idle" => inst[p] = Desired

\* Whatever applies, rollbacks, errors, crashes and collections came before:
\* once they stop, the true-up of every start brings the node to the enrolled
\* runtime and keeps it there (main.go:190, README.md:132).
Converges == <>[]Quiet => <>[](current \in Realizes[Desired])
=============================================================================
