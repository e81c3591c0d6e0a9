-------------------------- MODULE HerdrPanesProofs --------------------------
(***************************************************************************)
(* Theorems about HerdrPanes: what the preflights of any number of         *)
(* commands, on any machine, leave on the disk.                            *)
(***************************************************************************)
EXTENDS HerdrPanes, HerdrConfigMergeProofs, TLAPS

-----------------------------------------------------------------------------
(* The inductive invariant. *)

\* Commands run with a shell, and without what they need they stop at the check.
CommandInv ==
  /\ scene \in Scenes
  /\ \A p \in Procs : Active(p) => shell[p] \in Shells
  /\ ~Permitted => \A p \in Procs : pc[p] \in {"idle", "check"}

\* A command that is alone is the only one there is.
AloneInv == \A p \in Procs : alone[p] => Active(p) /\ \A q \in Procs \ {p} : ~Active(q)

\* How far a command has come that nobody else disturbs.
Written == {"profile", "read", "merge", "configCheck", "ready"}

ProgressInv ==
  \A p \in Procs : alone[p] =>
    /\ pc[p] = "remove" => todo[p] = files
    /\ pc[p] \in {"rmdir", "mkdir"} => files = {}
    /\ pc[p] = "write" =>
         /\ todo[p] \subseteq ToWrite(shell[p])
         /\ files = FilesOf(shell[p]) \ todo[p]
         /\ "pane-shell" \notin todo[p] => launcher = shell[p]
    /\ pc[p] \in Written => launcher = shell[p] /\ files = FilesOf(shell[p])
    /\ pc[p] \in Written \ {"profile"} => profile

\* While the files are settled nobody is at work on them, and they belong to
\* the launcher.
SettledInv ==
  settled => /\ launcher \in Shells /\ files = FilesOf(launcher)
             /\ \A p \in Procs : pc[p] \notin {"remove", "rmdir", "mkdir", "write"}

PreflightInv == PreflightTypeOK /\ CommandInv /\ AloneInv /\ ProgressInv /\ SettledInv

\* At first nothing is generated and no command runs.
LEMMA PreflightInitInv == PreflightInit => PreflightInv
<1> SUFFICES ASSUME PreflightInit PROVE PreflightInv
  OBVIOUS
<1>1. scene.preflights \in Nat /\ scene.edits \in Nat
  BY PreflightAssumption DEF PreflightInit
<1>3. begun \in 0..scene.preflights /\ edited \in 0..scene.edits
  BY <1>1 DEF PreflightInit
<1>4. /\ pc \in [Procs -> Points] /\ shell \in [Procs -> Shells \cup {None}]
      /\ todo \in [Procs -> SUBSET (AllFiles \cup {"pane-shell"})] /\ alone \in [Procs -> BOOLEAN]
  BY DEF PreflightInit, Points
<1>2. PreflightTypeOK
  BY <1>3, <1>4 DEF PreflightInit, PreflightTypeOK
<1> QED
  BY <1>2 DEF PreflightInit, PreflightInv, CommandInv, AloneInv, ProgressInv, SettledInv, Active, Permitted

-----------------------------------------------------------------------------
(* Steps. *)

\* A command that ends leaves everything to the others as it is.
LEMMA LeavingKeeps ==
  ASSUME NEW p \in Procs, PreflightInv, Leave(p), server' \in BOOLEAN,
         UNCHANGED <<scene, generated, settled, bounds>>
  PROVE  PreflightInv'
<1>1. PreflightTypeOK'
  BY DEF Leave, GoTo, PreflightInv, PreflightTypeOK, generated, bounds, Points
<1>2. CommandInv'
  BY DEF Leave, GoTo, PreflightInv, PreflightTypeOK, CommandInv, Active, Permitted
<1>3. AloneInv'
  BY DEF Leave, GoTo, PreflightInv, PreflightTypeOK, AloneInv, Active
<1>4. ASSUME NEW q \in Procs, alone'[q]
      PROVE  /\ alone[q] /\ pc'[q] = pc[q] /\ shell'[q] = shell[q] /\ todo'[q] = todo[q]
  BY <1>4 DEF Leave, GoTo, PreflightInv, PreflightTypeOK
<1>5. ProgressInv'
  BY <1>4 DEF PreflightInv, ProgressInv, generated
<1>6. SettledInv'
  BY DEF Leave, GoTo, PreflightInv, PreflightTypeOK, SettledInv, generated
<1> QED
  BY <1>1, <1>2, <1>3, <1>5, <1>6 DEF PreflightInv

\* A command that goes on, with the shell it has, leaves the others where they are.
LEMMA GoingOn ==
  ASSUME NEW p \in Procs, PreflightInv, Active(p), NEW point \in Points, GoTo(p, point),
         point # "idle", point \in {"list"} => Permitted, pc[p] = "check" => point = "list",
         UNCHANGED <<scene, shell, alone>>
  PROVE  /\ CommandInv' /\ AloneInv'
         /\ pc'[p] = point
         /\ \A q \in Procs \ {p} : ~alone'[q] /\ pc'[q] = pc[q]
<1>1. pc' \in [Procs -> Points] /\ pc'[p] = point /\ \A q \in Procs \ {p} : pc'[q] = pc[q]
  BY DEF GoTo, PreflightInv, PreflightTypeOK
<1>2. \A q \in Procs : Active(q)' = Active(q)
  BY <1>1 DEF Active
<1>3. Permitted \/ pc[p] = "check"
  BY DEF PreflightInv, CommandInv, Active
<1>4. CommandInv'
  BY <1>1, <1>2, <1>3 DEF PreflightInv, CommandInv, Permitted
<1> QED
  BY <1>1, <1>2, <1>4 DEF PreflightInv, AloneInv

\* A command that begins takes the others' solitude away.
LEMMA BeginKeeps == ASSUME NEW p \in Procs, PreflightInv, Begin(p) PROVE PreflightInv'
<1>0. scene.shells \subseteq Shells /\ scene.preflights \in Nat
  BY PreflightAssumption DEF PreflightInv, CommandInv
<1>1. /\ pc' = [pc EXCEPT ![p] = "check"] /\ pc[p] = "idle"
      /\ \E k \in Shells : shell' = [shell EXCEPT ![p] = k]
      /\ alone' = [q \in Procs |-> q = p /\ \A r \in Procs \ {p} : ~Active(r)]
      /\ UNCHANGED <<scene, launcher, shellDir, files, profile, config, userConfig, server, todo,
                     source, settled, edited>>
  BY <1>0 DEF Begin, GoTo, Active, generated
<1>5. begun' \in 0..scene.preflights
  BY <1>0 DEF Begin, PreflightInv, PreflightTypeOK
<1>2. PreflightTypeOK'
  BY <1>1, <1>5 DEF PreflightInv, PreflightTypeOK, Points
<1>3. CommandInv' /\ AloneInv'
  BY <1>1 DEF PreflightInv, PreflightTypeOK, CommandInv, AloneInv, Active, Permitted
<1>4. ProgressInv' /\ SettledInv'
  BY <1>1 DEF PreflightInv, PreflightTypeOK, ProgressInv, SettledInv, Written
<1> QED
  BY <1>2, <1>3, <1>4 DEF PreflightInv

\* Removing the old files.
LEMMA RemovalKeeps ==
  ASSUME NEW p \in Procs, PreflightInv, ListShell(p) \/ RemoveFile(p) \/ RemoveDir(p)
  PROVE  PreflightInv'
<1>1. CASE ListShell(p)
  <2>1. \E point \in {"remove", "rmdir"} : GoTo(p, point) /\ (point = "rmdir" <=> files = {})
    BY <1>1 DEF ListShell
  <2>2. CommandInv' /\ AloneInv' /\ pc'[p] \in {"remove", "rmdir"} /\ (pc'[p] = "rmdir" <=> files = {})
        /\ \A q \in Procs \ {p} : ~alone'[q]
    BY <1>1, <2>1, GoingOn DEF ListShell, Active, Points
  <2>3. PreflightTypeOK'
    BY <1>1, <2>1 DEF ListShell, GoTo, PreflightInv, PreflightTypeOK, generated, bounds, Points
  <2>4. ProgressInv' /\ SettledInv'
    BY <1>1, <2>2 DEF ListShell, PreflightInv, PreflightTypeOK, ProgressInv, SettledInv, Written, generated
  <2> QED
    BY <2>2, <2>3, <2>4 DEF PreflightInv
<1>2. CASE RemoveFile(p)
  <2>1. PICK f \in todo[p] : /\ files' = files \ {f} /\ todo' = [todo EXCEPT ![p] = @ \ {f}]
                             /\ GoTo(p, IF todo[p] = {f} THEN "rmdir" ELSE "remove")
    BY <1>2 DEF RemoveFile
  <2>2. /\ CommandInv' /\ AloneInv'
        /\ pc'[p] = IF todo[p] = {f} THEN "rmdir" ELSE "remove"
        /\ \A q \in Procs \ {p} : ~alone'[q]
    BY <1>2, <2>1, GoingOn DEF RemoveFile, Active, Points
  <2>3. PreflightTypeOK'
    BY <1>2, <2>1 DEF RemoveFile, GoTo, PreflightInv, PreflightTypeOK, bounds, Points
  <2>4. ProgressInv'
    BY <1>2, <2>1, <2>2 DEF RemoveFile, PreflightInv, PreflightTypeOK, ProgressInv, Written
  <2>5. ~settled'
    BY <1>2 DEF RemoveFile, PreflightInv, SettledInv
  <2> QED
    BY <2>2, <2>3, <2>4, <2>5 DEF PreflightInv, SettledInv
<1>3. CASE RemoveDir(p) /\ files = {}
  <2>1. CommandInv' /\ AloneInv' /\ pc'[p] = "mkdir" /\ \A q \in Procs \ {p} : ~alone'[q]
    BY <1>3, GoingOn DEF RemoveDir, Active, Points, locals
  <2>2. PreflightTypeOK'
    BY <1>3 DEF RemoveDir, GoTo, PreflightInv, PreflightTypeOK, locals, bounds, Points
  <2>3. ProgressInv' /\ ~settled'
    BY <1>3, <2>1 DEF RemoveDir, PreflightInv, ProgressInv, SettledInv, Written
  <2> QED
    BY <2>1, <2>2, <2>3 DEF PreflightInv, SettledInv
<1>4. CASE RemoveDir(p) /\ files # {}
  <2>1. Leave(p) /\ server' \in BOOLEAN /\ UNCHANGED <<scene, generated, settled, bounds>>
    BY <1>4 DEF RemoveDir, generated, PreflightInv, PreflightTypeOK
  <2> QED
    BY <2>1, LeavingKeeps
<1> QED
  BY <1>1, <1>2, <1>3, <1>4

\* Writing the new ones.
LEMMA WritingKeeps ==
  ASSUME NEW p \in Procs, PreflightInv, MakeDir(p) \/ WriteFile(p)
  PROVE  PreflightInv'
<1>0. \A k \in Shells : FilesOf(k) \subseteq AllFiles
  BY DEF Shells, FilesOf, AllFiles, ZshFiles
<1>1. CASE MakeDir(p)
  <2>1. shell[p] \in Shells /\ ToWrite(shell[p]) # {} /\ GoTo(p, "write")
        /\ todo' = [todo EXCEPT ![p] = ToWrite(shell[p])]
        /\ ToWrite(shell[p]) = FilesOf(shell[p]) \cup {"pane-shell"}
    BY <1>1 DEF MakeDir, PreflightInv, CommandInv, Active, ToWrite
  <2>2. CommandInv' /\ AloneInv' /\ pc'[p] = "write" /\ \A q \in Procs \ {p} : ~alone'[q]
    BY <1>1, <2>1, GoingOn DEF MakeDir, Active, Points
  <2>3. PreflightTypeOK'
    BY <1>0, <1>1, <2>1 DEF MakeDir, GoTo, PreflightInv, PreflightTypeOK, bounds, Points
  <2>4. ProgressInv'
    BY <1>1, <2>1, <2>2 DEF MakeDir, PreflightInv, PreflightTypeOK, ProgressInv, Written
  <2>5. ~settled'
    BY <1>1 DEF MakeDir, PreflightInv, SettledInv
  <2> QED
    BY <2>2, <2>3, <2>4, <2>5 DEF PreflightInv, SettledInv
<1>2. CASE WriteFile(p)
  <2>1. PICK f \in todo[p] :
          \/ /\ CanWrite(f)
             /\ IF f = "pane-shell" THEN launcher' = shell[p] /\ UNCHANGED files
                                    ELSE files' = files \cup {f} /\ UNCHANGED launcher
             /\ todo' = [todo EXCEPT ![p] = @ \ {f}]
             /\ GoTo(p, IF todo[p] = {f} THEN "profile" ELSE "write")
             /\ settled' = (todo[p] = {f} /\ alone[p])
             /\ UNCHANGED <<shell, source, alone>>
          \/ ~CanWrite(f) /\ Leave(p) /\ UNCHANGED <<launcher, files, settled>>
    BY <1>2 DEF WriteFile
  <2>2. /\ pc[p] = "write" /\ shell[p] \in Shells /\ f \in AllFiles \cup {"pane-shell"}
        /\ UNCHANGED <<scene, shellDir, profile, config, userConfig, server, bounds>>
    BY <1>2 DEF WriteFile, PreflightInv, PreflightTypeOK, CommandInv, Active
  <2>3. CASE ~CanWrite(f)
    <3>1. Leave(p) /\ server' \in BOOLEAN /\ UNCHANGED <<scene, generated, settled, bounds>>
      BY <2>1, <2>2, <2>3 DEF generated, PreflightInv, PreflightTypeOK
    <3> QED
      BY <3>1, LeavingKeeps
  <2>4. CASE CanWrite(f)
    <3>1. /\ CommandInv' /\ AloneInv'
          /\ pc'[p] = IF todo[p] = {f} THEN "profile" ELSE "write"
          /\ \A q \in Procs \ {p} : ~alone'[q] /\ pc'[q] = pc[q]
      BY <2>1, <2>2, <2>4, GoingOn DEF Active, Points
    <3>0. /\ IF f = "pane-shell" THEN launcher' = shell[p] /\ UNCHANGED files
                                  ELSE files' = files \cup {f} /\ UNCHANGED launcher
          /\ todo' = [todo EXCEPT ![p] = @ \ {f}]
          /\ GoTo(p, IF todo[p] = {f} THEN "profile" ELSE "write")
          /\ settled' = (todo[p] = {f} /\ alone[p])
          /\ UNCHANGED <<shell, alone>>
      BY <2>1, <2>4
    <3>2. PreflightTypeOK'
      <4>1. /\ launcher' \in Shells \cup {None} /\ files' \subseteq AllFiles
            /\ files' # {} => shellDir
        BY <2>2, <2>4, <3>0 DEF CanWrite, PreflightInv, PreflightTypeOK
      <4>2. /\ pc' \in [Procs -> Points]
            /\ todo' \in [Procs -> SUBSET (AllFiles \cup {"pane-shell"})]
        BY <3>0 DEF GoTo, PreflightInv, PreflightTypeOK, Points
      <4>3. settled' \in BOOLEAN
        BY <3>0
      <4> QED
        BY <2>2, <3>0, <4>1, <4>2, <4>3 DEF PreflightInv, PreflightTypeOK, bounds
    <3>3. alone[p] => /\ files' = FilesOf(shell[p]) \ todo'[p]
                      /\ "pane-shell" \notin todo'[p] => launcher' = shell[p]
      <4>1. "pane-shell" \notin AllFiles
        BY DEF AllFiles, ZshFiles
      <4>2. todo'[p] = todo[p] \ {f} /\ FilesOf(shell[p]) \subseteq AllFiles
        BY <1>0, <2>2, <3>0 DEF PreflightInv, PreflightTypeOK
      <4>3. alone[p] => /\ files = FilesOf(shell[p]) \ todo[p]
                        /\ "pane-shell" \notin todo[p] => launcher = shell[p]
        BY <2>2 DEF PreflightInv, ProgressInv
      <4>4. CASE f = "pane-shell"
        BY <3>0, <4>1, <4>2, <4>3, <4>4
      <4>5. CASE f # "pane-shell" /\ f \in FilesOf(shell[p])
        BY <3>0, <4>1, <4>2, <4>3, <4>5
      <4>6. alone[p] /\ f # "pane-shell" => f \in FilesOf(shell[p])
        BY <2>2 DEF PreflightInv, ProgressInv, ToWrite
      <4> QED
        BY <4>4, <4>5, <4>6
    <3>4. ProgressInv'
      BY <2>1, <2>2, <2>4, <3>1, <3>3 DEF PreflightInv, PreflightTypeOK, ProgressInv, Written
    <3>5. SettledInv'
      <4>1. settled' => alone[p] /\ todo[p] = {f} /\ pc'[p] = "profile"
        BY <3>0, <3>1
      <4>2. settled' => launcher' = shell[p] /\ files' = FilesOf(shell[p])
        BY <3>0, <3>3, <4>1 DEF PreflightInv, PreflightTypeOK
      <4>3. settled' => \A q \in Procs \ {p} : pc'[q] = "idle"
        BY <3>1, <4>1 DEF PreflightInv, AloneInv, Active
      <4> QED
        BY <2>2, <4>1, <4>2, <4>3 DEF SettledInv
    <3> QED
      BY <3>1, <3>2, <3>4, <3>5 DEF PreflightInv
  <2> QED
    BY <2>3, <2>4
<1> QED
  BY <1>1, <1>2

\* The check, the profile and the config.
LEMMA RestKeeps ==
  ASSUME NEW p \in Procs, PreflightInv,
         \/ Check(p) \/ WriteProfile(p) \/ ReadConfig(p) \/ WriteConfig(p) \/ CheckConfig(p)
         \/ Serve(p) \/ Fail(p)
  PROVE  PreflightInv'
<1>1. CASE \/ Check(p) /\ ~Permitted
           \/ WriteProfile(p) /\ "profile" \notin scene.provisioned
           \/ CheckConfig(p) /\ ~Accepts(config)
           \/ Serve(p) \/ Fail(p)
  <2>1. Leave(p) /\ server' \in BOOLEAN /\ UNCHANGED <<scene, generated, settled, bounds>>
    BY <1>1 DEF Check, WriteProfile, CheckConfig, Serve, Fail, generated, PreflightInv, PreflightTypeOK
  <2> QED
    BY <2>1, LeavingKeeps
<1>2. CASE \/ Check(p) /\ Permitted
           \/ WriteProfile(p) /\ "profile" \in scene.provisioned
           \/ ReadConfig(p) \/ WriteConfig(p)
           \/ CheckConfig(p) /\ Accepts(config)
  <2>1. /\ \/ pc[p] = "check" /\ GoTo(p, "list") /\ UNCHANGED profile /\ Permitted
           \/ pc[p] = "profile" /\ GoTo(p, "read") /\ profile' = TRUE
           \/ pc[p] = "read" /\ GoTo(p, "merge") /\ UNCHANGED profile
           \/ pc[p] = "merge" /\ GoTo(p, "configCheck") /\ UNCHANGED profile
           \/ pc[p] = "configCheck" /\ GoTo(p, "ready") /\ UNCHANGED profile
        /\ UNCHANGED <<scene, launcher, shellDir, files, server, shell, todo, alone, settled, begun, edited>>
    BY <1>2 DEF Check, WriteProfile, ReadConfig, WriteConfig, CheckConfig, generated, locals, bounds
  <2>2. PICK point \in {"list", "read", "merge", "configCheck", "ready"} : GoTo(p, point)
    BY <2>1
  <2>3. pc'[p] = point /\ \A q \in Procs \ {p} : pc'[q] = pc[q]
    BY <2>2 DEF GoTo, PreflightInv, PreflightTypeOK
  <2>4. point = "list" <=> pc[p] = "check"
    BY <2>1, <2>3 DEF GoTo, PreflightInv, PreflightTypeOK
  <2>5. CommandInv' /\ AloneInv' /\ \A q \in Procs \ {p} : ~alone'[q]
    BY <2>1, <2>2, <2>4, GoingOn DEF Active, Points
  <2>6. PreflightTypeOK'
    BY <2>1, <2>2 DEF GoTo, PreflightInv, PreflightTypeOK, Points
  <2>7. ProgressInv'
    BY <2>1, <2>3, <2>5 DEF GoTo, PreflightInv, PreflightTypeOK, ProgressInv, Written
  <2>8. SettledInv'
    BY <2>1, <2>2, <2>3 DEF PreflightInv, SettledInv
  <2> QED
    BY <2>5, <2>6, <2>7, <2>8 DEF PreflightInv
<1> QED
  BY <1>1, <1>2

\* Every step of the composition keeps the invariant.
LEMMA PreflightStepInv == PreflightInv /\ [Next]_vars => PreflightInv'
<1> SUFFICES ASSUME PreflightInv, [Next]_vars PROVE PreflightInv'
  OBVIOUS
<1>1. ASSUME NEW p \in Procs, Command(p) PROVE PreflightInv'
  BY <1>1, BeginKeeps, RemovalKeeps, WritingKeeps, RestKeeps DEF Command, PreflightStep
<1>2. CASE Edit
  <2>1. /\ edited' \in 0..scene.edits
        /\ UNCHANGED <<scene, launcher, shellDir, files, profile, server, pc, shell, todo, alone,
                       settled, begun>>
    BY <1>2, PreflightAssumption
       DEF Edit, EditConfig, generated, locals, PreflightInv, PreflightTypeOK, CommandInv
  <2> QED
    BY <2>1 DEF PreflightInv, PreflightTypeOK, CommandInv, AloneInv, ProgressInv, SettledInv, Active, Permitted
<1>3. CASE Open \/ Start \/ UNCHANGED vars
  <2>1. UNCHANGED preflightVars
    BY <1>3 DEF Open, Start, vars
  <2> QED
    BY <2>1 DEF preflightVars, generated, locals, bounds, PreflightInv, PreflightTypeOK, CommandInv,
                AloneInv, ProgressInv, SettledInv, Active, Permitted
<1> QED
  BY <1>1, <1>2, <1>3 DEF Next

\* The invariant holds throughout.
THEOREM PreflightCorrect == Spec => []PreflightInv
<1>1. Init => PreflightInv
  BY PreflightInitInv DEF Init
<1> QED
  BY <1>1, PreflightStepInv, PTL DEF Spec

-----------------------------------------------------------------------------
(* What follows from it. *)

\* A preflight nobody overlapped ends with its own launcher, exactly its startup
\* files and the profile, for any number of commands and whatever came before.
THEOREM ReadyIsComplete == Spec => []ReadyMeansComplete
<1>1. PreflightInv => ReadyMeansComplete
  BY DEF PreflightInv, ProgressInv, ReadyMeansComplete, Written
<1> QED
  BY <1>1, PreflightCorrect, PTL

\* A node that lacks an input is left as it was.
THEOREM FailsWithoutSideEffects == Spec => NoSideEffects
<1>1. PreflightInv /\ [Next]_vars =>
        [~(Required \subseteq scene.provisioned) => UNCHANGED generated]_preflightVars
  <2> SUFFICES ASSUME PreflightInv, [Next]_vars, ~Permitted PROVE UNCHANGED generated
    BY DEF Permitted
  <2>1. ASSUME NEW p \in Procs, Command(p) PROVE UNCHANGED generated
    <3>1. pc[p] \in {"idle", "check"}
      BY DEF PreflightInv, CommandInv
    <3>2. Begin(p) \/ Check(p) \/ Fail(p)
      BY <2>1, <3>1 DEF Command, PreflightStep, ListShell, RemoveFile, RemoveDir, MakeDir, WriteFile,
                        WriteProfile, ReadConfig, WriteConfig, CheckConfig, Serve
    <3> QED
      BY <3>2 DEF Begin, Check, Fail
  <2>2. CASE Edit \/ Open \/ Start \/ UNCHANGED vars
    BY <2>2 DEF Edit, EditConfig, Open, Start, vars, preflightVars
  <2> QED
    BY <2>1, <2>2 DEF Next
<1> QED
  BY <1>1, PreflightCorrect, PTL DEF Spec, NoSideEffects

-----------------------------------------------------------------------------
(* The config. *)

\* Configs are lines, and what is generated is a merged config: merging it again
\* does not change it.  A preflight that is alone checks what it has merged.
MergeInv ==
  /\ userConfig \in Seq(Lines) /\ config \in Seq(Lines)
  /\ source \in [Procs -> Seq(Lines)]
  /\ server => Merge(config) = config
  /\ \A p \in Procs :
       /\ pc[p] \in {"configCheck", "ready"} => Merge(config) = config
       /\ pc[p] = "configCheck" /\ alone[p] => config = Merge(source[p])
       /\ pc[p] = "ready" /\ alone[p] => Valid(config)

\* At first there is no config of Familiar's.
LEMMA MergeInitInv == PreflightInit => MergeInv
<1> SUFFICES ASSUME PreflightInit PROVE MergeInv
  OBVIOUS
<1>1. userConfig \in Seq(Lines)
  BY PreflightAssumption DEF PreflightInit
<1>2. <<>> \in Seq(Lines)
  BY EmptySeq
<1> QED
  BY <1>1, <1>2 DEF PreflightInit, MergeInv

\* Steps that leave the configs alone.
LEMMA MergeInvStays ==
  ASSUME MergeInv, PreflightInv, UNCHANGED <<config, userConfig, server>>,
         source' \in [Procs -> Seq(Lines)],
         \A p \in Procs : /\ pc'[p] \in {"configCheck", "ready"} => pc'[p] = pc[p]
                          /\ alone'[p] /\ pc'[p] \in {"configCheck", "ready"} =>
                               alone[p] /\ source'[p] = source[p]
  PROVE  MergeInv'
BY DEF MergeInv

\* A command that ends has no config any more.
LEMMA LeavingKeepsMerge ==
  ASSUME NEW p \in Procs, MergeInv, PreflightInv, Leave(p), UNCHANGED <<config, userConfig>>,
         server' = server \/ (pc[p] = "ready" /\ server' = TRUE)
  PROVE  MergeInv'
<1>1. /\ pc' = [pc EXCEPT ![p] = "idle"] /\ alone' = [alone EXCEPT ![p] = FALSE]
      /\ source' = [source EXCEPT ![p] = <<>>]
  BY DEF Leave, GoTo
<1>2. <<>> \in Seq(Lines)
  BY EmptySeq
<1>3. source' \in [Procs -> Seq(Lines)]
  BY <1>1, <1>2 DEF MergeInv
<1>4. \A q \in Procs : /\ pc'[q] = IF q = p THEN "idle" ELSE pc[q]
                       /\ alone'[q] = IF q = p THEN FALSE ELSE alone[q]
                       /\ q # p => source'[q] = source[q]
  BY <1>1 DEF MergeInv, PreflightInv, PreflightTypeOK
<1>5. Merge(config) = config \/ ~server'
  <2>1. CASE server' = server
    BY <2>1 DEF MergeInv
  <2>2. CASE pc[p] = "ready"
    BY <2>2 DEF MergeInv
  <2> QED
    BY <2>1, <2>2
<1>6. \A q \in Procs : pc'[q] \in {"configCheck", "ready"} =>
                        q # p /\ pc'[q] = pc[q] /\ alone'[q] = alone[q] /\ source'[q] = source[q]
  BY <1>4
<1> QED
  BY <1>3, <1>5, <1>6 DEF MergeInv

\* Nothing up to the Pi profile touches a config.
LEMMA GenerationKeepsMerge ==
  ASSUME NEW p \in Procs, MergeInv, PreflightInv,
         \/ Begin(p) \/ Check(p) \/ ListShell(p) \/ RemoveFile(p) \/ RemoveDir(p) \/ MakeDir(p)
         \/ WriteFile(p) \/ WriteProfile(p)
  PROVE  MergeInv'
<1>0. UNCHANGED <<config, userConfig, server>>
  BY DEF Begin, Check, ListShell, RemoveFile, RemoveDir, MakeDir, WriteFile, WriteProfile, generated
<1>1. CASE Leave(p)
  BY <1>0, <1>1, LeavingKeepsMerge
<1>2. CASE Begin(p)
  <2>1. /\ pc' = [pc EXCEPT ![p] = "check"] /\ source' = source
        /\ \A q \in Procs : alone'[q] => q = p
    BY <1>2 DEF Begin, GoTo
  <2>2. \A q \in Procs : pc'[q] = IF q = p THEN "check" ELSE pc[q]
    BY <2>1 DEF PreflightInv, PreflightTypeOK
  <2> QED
    BY <1>0, <2>1, <2>2 DEF MergeInv
<1>3. CASE ~Begin(p) /\ ~Leave(p)
  <2>1. /\ source' = source /\ alone' = alone
        /\ \E point \in {"list", "remove", "rmdir", "mkdir", "write", "profile", "read"} : GoTo(p, point)
    <3>1. CASE Check(p)
      BY <1>3, <3>1 DEF Check, locals
    <3>2. CASE ListShell(p) \/ MakeDir(p)
      BY <1>3, <3>2 DEF ListShell, MakeDir
    <3>3. CASE RemoveFile(p)
      BY <1>3, <3>3 DEF RemoveFile
    <3>4. CASE RemoveDir(p)
      BY <1>3, <3>4 DEF RemoveDir, locals
    <3>5. CASE WriteFile(p)
      BY <1>3, <3>5 DEF WriteFile
    <3>6. CASE WriteProfile(p)
      BY <1>3, <3>6 DEF WriteProfile, locals
    <3> QED
      BY <1>3, <3>1, <3>2, <3>3, <3>4, <3>5, <3>6
  <2>2. PICK point \in {"list", "remove", "rmdir", "mkdir", "write", "profile", "read"} :
          pc' = [pc EXCEPT ![p] = point]
    BY <2>1 DEF GoTo
  <2>3. \A q \in Procs : pc'[q] = IF q = p THEN point ELSE pc[q]
    BY <2>2 DEF PreflightInv, PreflightTypeOK
  <2> QED
    BY <1>0, <2>1, <2>3, MergeInvStays DEF MergeInv
<1> QED
  BY <1>1, <1>2, <1>3

\* The config is read, merged, checked and used.
LEMMA ConfigKeepsMerge ==
  ASSUME NEW p \in Procs, MergeInv, PreflightInv,
         ReadConfig(p) \/ WriteConfig(p) \/ CheckConfig(p) \/ Serve(p) \/ Fail(p)
  PROVE  MergeInv'
<1>0. pc \in [Procs -> Points] /\ alone \in [Procs -> BOOLEAN]
  BY DEF PreflightInv, PreflightTypeOK
<1>1. CASE ReadConfig(p)
  <2>1. PICK c \in Seq(Lines) : source' = [source EXCEPT ![p] = c]
    BY <1>1 DEF ReadConfig, MergeInv
  <2>2. /\ UNCHANGED <<config, userConfig, server, alone>>
        /\ pc' = [pc EXCEPT ![p] = "merge"]
    BY <1>1 DEF ReadConfig, GoTo, generated
  <2>3. \A q \in Procs : /\ pc'[q] = IF q = p THEN "merge" ELSE pc[q]
                         /\ q # p => source'[q] = source[q]
    BY <1>0, <2>1, <2>2 DEF MergeInv
  <2>4. source' \in [Procs -> Seq(Lines)]
    BY <2>1 DEF MergeInv
  <2> QED
    BY <2>2, <2>3, <2>4, MergeInvStays
<1>2. CASE WriteConfig(p)
  <2>1. /\ config' = Merge(source[p]) /\ pc' = [pc EXCEPT ![p] = "configCheck"]
        /\ pc[p] = "merge"
        /\ UNCHANGED <<userConfig, server, source, alone>>
    BY <1>2 DEF WriteConfig, GoTo, locals
  <2>2. source[p] \in Seq(Lines)
    BY DEF MergeInv
  <2>3. config' \in Seq(Lines) /\ Merge(config') = config'
    BY <2>1, <2>2, MergedIs, MergeIsStable
  <2>4. \A q \in Procs : pc'[q] = IF q = p THEN "configCheck" ELSE pc[q]
    BY <1>0, <2>1
  <2>5. \A q \in Procs : alone[q] /\ pc'[q] \in {"configCheck", "ready"} => q = p
    BY <2>1, <2>4 DEF PreflightInv, AloneInv, Active
  <2> QED
    BY <2>1, <2>3, <2>4, <2>5 DEF MergeInv
<1>3. CASE CheckConfig(p) /\ Accepts(config)
  <2>1. CASE Leave(p)
    <3>1. UNCHANGED <<config, userConfig, server>>
      BY <1>3 DEF CheckConfig, generated
    <3> QED
      BY <2>1, <3>1, LeavingKeepsMerge
  <2>2. CASE ~Leave(p)
    <3>1. /\ pc[p] = "configCheck" /\ pc' = [pc EXCEPT ![p] = "ready"]
          /\ UNCHANGED <<config, userConfig, server, source, alone>>
      BY <1>3, <2>2 DEF CheckConfig, GoTo, generated, locals
    <3>2. \A q \in Procs : pc'[q] = IF q = p THEN "ready" ELSE pc[q]
      BY <1>0, <3>1
    <3> QED
      BY <1>3, <3>1, <3>2 DEF MergeInv, Accepts
  <2> QED
    BY <2>1, <2>2
<1>4. CASE (CheckConfig(p) /\ ~Accepts(config)) \/ Serve(p) \/ Fail(p)
  <2>1. /\ Leave(p) /\ UNCHANGED <<config, userConfig>>
        /\ server' = server \/ (pc[p] = "ready" /\ server' = TRUE)
    BY <1>4 DEF CheckConfig, Serve, Fail, generated
  <2> QED
    BY <2>1, LeavingKeepsMerge
<1> QED
  BY <1>1, <1>2, <1>3, <1>4

\* Every step of the composition keeps it.
LEMMA MergeStepInv == MergeInv /\ PreflightInv /\ [Next]_vars => MergeInv'
<1> SUFFICES ASSUME MergeInv, PreflightInv, [Next]_vars PROVE MergeInv'
  OBVIOUS
<1>1. ASSUME NEW p \in Procs, Command(p) PROVE MergeInv'
  BY <1>1, GenerationKeepsMerge, ConfigKeepsMerge DEF Command, PreflightStep
<1>2. CASE Edit
  <2>1. scene \in Scenes /\ userConfig' \in scene.configs
        /\ UNCHANGED <<config, server, pc, source, alone>>
    BY <1>2 DEF Edit, EditConfig, generated, locals, PreflightInv, CommandInv
  <2>2. userConfig' \in Seq(Lines)
    BY <2>1, PreflightAssumption
  <2> QED
    BY <2>1, <2>2 DEF MergeInv
<1>3. CASE Open \/ Start \/ UNCHANGED vars
  <2>1. UNCHANGED <<config, userConfig, server, pc, source, alone>>
    BY <1>3 DEF Open, Start, vars, preflightVars, generated, locals
  <2> QED
    BY <2>1 DEF MergeInv
<1> QED
  BY <1>1, <1>2, <1>3 DEF Next

THEOREM MergeCorrect == Spec => []MergeInv
<1>1. Init => MergeInv
  BY MergeInitInv DEF Init
<1> QED
  BY <1>1, MergeStepInv, PreflightCorrect, PTL DEF Spec

\* Whatever config.toml there was, a preflight that nobody overlapped and that
\* lets the server start has a config that makes Herdr use the launcher, unless
\* its only [terminal] is a line inside of a value.
THEOREM LauncherAlwaysGoverns == Spec => []LauncherGoverns
<1>1. MergeInv => LauncherGoverns
  <2> SUFFICES ASSUME MergeInv, NEW p \in Procs, pc[p] = "ready", alone[p], ShowsTerminal(config)
               PROVE  Governs(config)
    BY DEF LauncherGoverns
  <2>1. config \in Seq(Lines) /\ Merge(config) = config /\ Valid(Merge(config))
    BY DEF MergeInv
  <2>2. Governs(Merge(config))
    BY <2>1, ValidMergeGoverns
  <2> QED
    BY <2>1, <2>2
<1> QED
  BY <1>1, MergeCorrect, PTL

\* Nor does it matter which of the preflights that overlapped wrote the config last.
THEOREM ServerAlwaysGoverned == Spec => []ServedConfigGoverns
<1>1. MergeInv => ServedConfigGoverns
  <2> SUFFICES ASSUME MergeInv, server, Valid(config), ShowsTerminal(config)
               PROVE  Governs(config)
    BY DEF ServedConfigGoverns
  <2>1. config \in Seq(Lines) /\ Merge(config) = config /\ Valid(Merge(config))
    BY DEF MergeInv
  <2>2. Governs(Merge(config))
    BY <2>1, ValidMergeGoverns
  <2> QED
    BY <2>1, <2>2
<1> QED
  BY <1>1, MergeCorrect, PTL

\* And of a config.toml that is valid and understood it keeps every other line.
THEOREM MergeAlwaysKeeps == Spec => []MergeKeepsUser
<1>1. MergeInv => MergeKeepsUser
  <2> SUFFICES ASSUME MergeInv, NEW p \in Procs, pc[p] = "configCheck", alone[p],
                      Valid(source[p]), Understood(source[p])
               PROVE  Valid(config) /\ Kept(config) = Kept(source[p]) /\ Governs(config)
    BY DEF MergeKeepsUser
  <2>1. source[p] \in Seq(Lines) /\ config = Merge(source[p])
    BY DEF MergeInv
  <2> QED
    BY <2>1, UnderstoodMergeKeeps
<1> QED
  BY <1>1, MergeCorrect, PTL

\* However many preflights merge the generated config, its tables and settings
\* stay what they are.
THEOREM OwnConfigStays == Spec => OwnConfigStable
<1>1. MergeInv /\ PreflightInv /\ [Next]_vars =>
        [\A p \in Procs : /\ server /\ pc[p] = "merge" /\ source[p] = config
                          /\ pc'[p] = "configCheck"
                          => config' = config]_preflightVars
  <2> SUFFICES ASSUME MergeInv, PreflightInv, [Next]_vars, NEW p \in Procs, server, pc[p] = "merge",
                      source[p] = config, pc'[p] = "configCheck"
               PROVE  config' = config
    OBVIOUS
  <2>1. Merge(config) = config
    BY DEF MergeInv
  <2>2. CASE WriteConfig(p)
    BY <2>1, <2>2 DEF WriteConfig
  <2>3. ASSUME NEW q \in Procs, Command(q) PROVE WriteConfig(p) \/ config' = config
    <3>1. CASE \E r \in Procs : WriteConfig(r)
      <4>1. PICK r \in Procs : WriteConfig(r)
        BY <3>1
      <4>2. r # p => pc'[p] = pc[p]
        BY <4>1 DEF WriteConfig, GoTo, PreflightInv, PreflightTypeOK
      <4> QED
        BY <4>1, <4>2
    <3>2. CASE ~ \E r \in Procs : WriteConfig(r)
      BY <2>3, <3>2 DEF Command, Begin, PreflightStep, Check, ListShell, RemoveFile, RemoveDir, MakeDir,
                        WriteFile, WriteProfile, ReadConfig, CheckConfig, Serve, Fail, generated
    <3> QED
      BY <3>1, <3>2
  <2>4. CASE Edit \/ Open \/ Start \/ UNCHANGED vars
    BY <2>4 DEF Edit, EditConfig, Open, Start, vars, preflightVars, generated
  <2> QED
    BY <2>2, <2>3, <2>4 DEF Next
<1> QED
  BY <1>1, MergeCorrect, PreflightCorrect, PTL DEF Spec, OwnConfigStable
=============================================================================
