------------------------------ MODULE Preflight ------------------------------
(***************************************************************************)
(* PrepareHerdrEnvironment (internal/client/herdrenv.go) with the inputs   *)
(* of internal/client/tiamat.go and WritePaneShell of paneshell.go.        *)
(*                                                                         *)
(* Every start and every reattach runs it: it checks what the operator has *)
(* provided, removes and writes again the files that new panes read, and   *)
(* has Herdr check the merged config.  No lock is taken: two preflights    *)
(* may overlap, and each may end between any two of its steps.  The bounds *)
(* of a behaviour are part of its scene.                                   *)
(***************************************************************************)
EXTENDS HerdrConfigMerge

CONSTANTS
  Procs,   \* commands that may run at the same time
  None,    \* no launcher
  Scenes   \* the machines to look at: users, files, and bounds

\* The shells the launcher tells apart; "unknown" is any other.
Shells == {"bash", "zsh", "fish", "posix", "unknown"}

\* What Ready, ResolveTiamat, ResolveUserShell and writePiProfile have to find.
Required   == {"runtime", "url", "token", "shell"}
Provisions == Required \cup {"profile"}

ASSUME PreflightAssumption ==
  /\ None \notin Shells
  /\ \A s \in Scenes :
       /\ s.provisioned \subseteq Provisions /\ s.shells \subseteq Shells
       /\ s.commands \subseteq Procs
       /\ {s.config} \cup s.configs \subseteq Seq(Lines)
       /\ {s.preflights, s.edits, s.launches} \subseteq Nat

VARIABLES
  scene,       \* the machine; never changes
  launcher,    \* <state>/pane-shell: the shell it was generated for
  shellDir,    \* <state>/shell is there
  files,       \* the startup files in it
  profile,     \* <state>/runtime/pi/settings.json is there
  config,      \* <state>/herdr-config.toml
  userConfig,  \* the user's config.toml
  server,      \* a Herdr server was started: panes know its environment
  pc,          \* what a command does next
  shell,       \* the SHELL it runs with
  todo,        \* files it has still to remove or to write
  source,      \* the user config it has read
  alone,       \* history: no other command has run since it began
  settled,     \* history: one command alone wrote the startup files last
  begun, edited  \* bounds: preflights and edits so far

generated == <<launcher, shellDir, files, profile, config>>
locals    == <<shell, todo, source>>
bounds    == <<begun, edited>>
preflightVars == <<scene, generated, userConfig, server, pc, locals, alone, settled, bounds>>

\* The startup files of a shell; their text does not depend on it.
ZshFiles == {".zshenv", ".zprofile", ".zshrc", ".zlogin"}
FilesOf(k) == CASE k = "bash" -> {"bashrc"} [] k = "zsh" -> ZshFiles
                [] k = "posix" -> {"posix-env"} [] k \in {"fish", "unknown"} -> {}
AllFiles == {"bashrc", "posix-env"} \cup ZshFiles

Points == {"idle", "check", "list", "remove", "rmdir", "mkdir", "write", "profile",
           "read", "merge", "configCheck", "ready"}

PreflightTypeOK ==
  /\ launcher \in Shells \cup {None}
  /\ shellDir \in BOOLEAN /\ profile \in BOOLEAN /\ server \in BOOLEAN /\ settled \in BOOLEAN
  /\ files \subseteq AllFiles
  /\ pc \in [Procs -> Points]
  /\ shell \in [Procs -> Shells \cup {None}]
  /\ todo \in [Procs -> SUBSET (AllFiles \cup {"pane-shell"})]
  /\ alone \in [Procs -> BOOLEAN]
  /\ begun \in 0..scene.preflights /\ edited \in 0..scene.edits
  \* Files live in a directory.
  /\ files # {} => shellDir

PreflightInit ==
  /\ scene \in Scenes
  /\ launcher = None /\ shellDir = FALSE /\ files = {} /\ profile = FALSE /\ config = <<>>
  /\ userConfig = scene.config
  /\ server = FALSE
  /\ pc = [p \in Procs |-> "idle"] /\ shell = [p \in Procs |-> None]
  /\ todo = [p \in Procs |-> {}] /\ source = [p \in Procs |-> <<>>]
  /\ alone = [p \in Procs |-> FALSE] /\ settled = FALSE
  /\ begun = 0 /\ edited = 0

Active(p) == pc[p] # "idle"

GoTo(p, point) == pc' = [pc EXCEPT ![p] = point]

\* The command is over; what it wrote stays.
Leave(p) ==
  /\ GoTo(p, "idle")
  /\ shell' = [shell EXCEPT ![p] = None]
  /\ todo' = [todo EXCEPT ![p] = {}]
  /\ source' = [source EXCEPT ![p] = <<>>]
  /\ alone' = [alone EXCEPT ![p] = FALSE]

-----------------------------------------------------------------------------
\* The checks that come first.

Begin(p) ==
  /\ ~Active(p) /\ p \in scene.commands /\ begun < scene.preflights
  /\ GoTo(p, "check")
  /\ \E k \in scene.shells : shell' = [shell EXCEPT ![p] = k]
  /\ alone' = [q \in Procs |-> q = p /\ \A r \in Procs \ {p} : ~Active(r)]
  /\ begun' = begun + 1
  /\ UNCHANGED <<scene, generated, userConfig, server, todo, source, settled, edited>>

\* Ready, ResolveTiamat and ResolveUserShell come before anything is generated.
RuntimeOnly == "runtime" \in scene.provisioned
Permitted   == Required \subseteq scene.provisioned

Check(p) ==
  /\ pc[p] = "check"
  /\ \/ Permitted /\ GoTo(p, "list") /\ UNCHANGED <<locals, alone>>
     \/ ~Permitted /\ Leave(p)
  /\ UNCHANGED <<scene, generated, userConfig, server, settled, bounds>>

-----------------------------------------------------------------------------
\* WritePaneShell: the directory is removed and written again.

ListShell(p) ==
  /\ pc[p] = "list"
  /\ todo' = [todo EXCEPT ![p] = files]
  /\ GoTo(p, IF files = {} THEN "rmdir" ELSE "remove")
  /\ settled' = FALSE
  /\ UNCHANGED <<scene, generated, userConfig, server, shell, source, alone, bounds>>

RemoveFile(p) ==
  /\ pc[p] = "remove"
  /\ \E f \in todo[p] :
       /\ files' = files \ {f}
       /\ todo' = [todo EXCEPT ![p] = @ \ {f}]
       /\ GoTo(p, IF todo[p] = {f} THEN "rmdir" ELSE "remove")
  /\ UNCHANGED <<scene, launcher, shellDir, profile, config, userConfig, server, shell,
                 source, alone, settled, bounds>>

\* A file that came after the listing keeps the directory, which is an error.
RemoveDir(p) ==
  /\ pc[p] = "rmdir"
  /\ \/ files = {} /\ shellDir' = FALSE /\ GoTo(p, "mkdir") /\ UNCHANGED <<locals, alone>>
     \/ files # {} /\ Leave(p) /\ UNCHANGED shellDir
  /\ UNCHANGED <<scene, launcher, files, profile, config, userConfig, server, settled, bounds>>

\* Every file is replaced whole; they come in no particular order.
OnceWritten(k) == FilesOf(k) \cup IF launcher = None THEN {"pane-shell"} ELSE {}
ToWrite(k)     == FilesOf(k) \cup {"pane-shell"}

MakeDir(p) ==
  /\ pc[p] = "mkdir"
  /\ shellDir' = TRUE
  /\ todo' = [todo EXCEPT ![p] = ToWrite(shell[p])]
  /\ GoTo(p, IF ToWrite(shell[p]) = {} THEN "profile" ELSE "write")
  /\ UNCHANGED <<scene, launcher, files, profile, config, userConfig, server, shell, source,
                 alone, settled, bounds>>

AnyTime(f)  == TRUE
CanWrite(f) == f = "pane-shell" \/ shellDir

WriteFile(p) ==
  /\ pc[p] = "write"
  /\ \E f \in todo[p] :
       \/ /\ CanWrite(f)
          /\ IF f = "pane-shell" THEN launcher' = shell[p] /\ UNCHANGED files
                                 ELSE files' = files \cup {f} /\ UNCHANGED launcher
          /\ todo' = [todo EXCEPT ![p] = @ \ {f}]
          /\ GoTo(p, IF todo[p] = {f} THEN "profile" ELSE "write")
          /\ settled' = (todo[p] = {f} /\ alone[p])
          /\ UNCHANGED <<shell, source, alone>>
       \/ ~CanWrite(f) /\ Leave(p) /\ UNCHANGED <<launcher, files, settled>>
  /\ UNCHANGED <<scene, shellDir, profile, config, userConfig, server, bounds>>

-----------------------------------------------------------------------------
\* The Pi profile and the Herdr config.

WriteProfile(p) ==
  /\ pc[p] = "profile"
  /\ \/ /\ "profile" \in scene.provisioned
        /\ profile' = TRUE /\ GoTo(p, "read") /\ UNCHANGED <<locals, alone>>
     \/ "profile" \notin scene.provisioned /\ Leave(p) /\ UNCHANGED profile
  /\ UNCHANGED <<scene, launcher, shellDir, files, config, userConfig, server, settled, bounds>>

\* A command that runs in a pane finds HERDR_CONFIG_PATH set to the generated
\* config and takes that for the user's.
ReadConfig(p) ==
  /\ pc[p] = "read"
  /\ \E c \in {userConfig} \cup (IF server THEN {config} ELSE {}) :
       source' = [source EXCEPT ![p] = c]
  /\ GoTo(p, "merge")
  /\ UNCHANGED <<scene, generated, userConfig, server, shell, todo, alone, settled, bounds>>

WriteConfig(p) ==
  /\ pc[p] = "merge"
  /\ config' = Merge(source[p])
  /\ GoTo(p, "configCheck")
  /\ UNCHANGED <<scene, launcher, shellDir, files, profile, userConfig, server, locals, alone,
                 settled, bounds>>

\* herdr config check, on what is in the file by now.
AcceptsAll(lines) == TRUE
Accepts(lines)    == Valid(lines)

CheckConfig(p) ==
  /\ pc[p] = "configCheck"
  /\ \/ Accepts(config) /\ GoTo(p, "ready") /\ UNCHANGED <<locals, alone>>
     \/ ~Accepts(config) /\ Leave(p)
  /\ UNCHANGED <<scene, generated, userConfig, server, settled, bounds>>

\* The server is started, or the one that runs is attached to.
Serve(p) ==
  /\ pc[p] = "ready"
  /\ server' = TRUE
  /\ Leave(p)
  /\ UNCHANGED <<scene, generated, userConfig, settled, bounds>>

-----------------------------------------------------------------------------
\* A failing call, a signal or a crash.
Fail(p) ==
  /\ Active(p)
  /\ Leave(p)
  /\ UNCHANGED <<scene, generated, userConfig, server, settled, bounds>>

EditConfig ==
  /\ edited < scene.edits
  /\ userConfig' \in scene.configs
  /\ edited' = edited + 1
  /\ UNCHANGED <<scene, generated, server, pc, locals, alone, settled, begun>>

PreflightStep(p) ==
  \/ Check(p) \/ ListShell(p) \/ RemoveFile(p) \/ RemoveDir(p) \/ MakeDir(p) \/ WriteFile(p)
  \/ WriteProfile(p) \/ ReadConfig(p) \/ WriteConfig(p) \/ CheckConfig(p) \/ Serve(p)

-----------------------------------------------------------------------------
\* Properties.

\* "a misconfigured node fails loudly and without side effects" (herdrenv.go:82,
\* README.md:168): no preflight, whatever else runs, generates anything there.
NoSideEffects ==
  [][~(Required \subseteq scene.provisioned) => UNCHANGED generated]_preflightVars

\* A preflight that nobody overlapped and that lets the server start leaves the
\* launcher and exactly the startup files of its shell ("so generation is exact",
\* paneshell.go:328), and the profile, whatever crashed preflights for other
\* shells left before it.
ReadyMeansComplete ==
  \A p \in Procs : pc[p] = "ready" /\ alone[p] =>
    launcher = shell[p] /\ files = FilesOf(shell[p]) /\ profile

\* And it leaves a config that makes Herdr use the launcher: a bad merge never "falls
\* back to $SHELL without the Familiar PATH assertion" (herdrenv.go:193-195), whatever
\* is in config.toml, unless the only [terminal] there is a line of a multi-line value:
\* the merge puts its keys into that value and adds no table, and the check passes.
LauncherGoverns ==
  \A p \in Procs : pc[p] = "ready" /\ alone[p] /\ ShowsTerminal(config) => Governs(config)

\* However preflights overlap, what they leave for a running server and its panes
\* is a config that makes Herdr use the launcher, or one that Herdr refuses, or one
\* of that exception: the check of one preflight may have read the file of another
\* (herdrenv.go:149).
ServedConfigGoverns == server /\ Valid(config) /\ ShowsTerminal(config) => Governs(config)

\* Of a config.toml that is valid and that the merge understands, the merge
\* makes a valid config that keeps every other setting in its table, with every
\* line of its value (paneshell.go:358), also when it is run again on what it
\* generated.
MergeKeepsUser ==
  \A p \in Procs : pc[p] = "configCheck" /\ alone[p] /\ Valid(source[p]) /\ Understood(source[p]) =>
    /\ Valid(config)
    /\ Kept(config) = Kept(source[p])
    /\ Governs(config)

\* A command run in a pane, which merges the generated config again
\* (herdrenv.go:35), leaves its tables and settings as they are, however often one
\* reattaches from a pane.  (The merge's own comment line, which is not modelled,
\* is added every time.)
OwnConfigStable ==
  [][\A p \in Procs : /\ server /\ pc[p] = "merge" /\ source[p] = config
                      /\ pc'[p] = "configCheck"
                      => config' = config]_preflightVars
=============================================================================
