------------------------------ MODULE PaneShell ------------------------------
(***************************************************************************)
(* A pane from the launcher to its first prompt (GeneratePaneShell in      *)
(* internal/client/paneshell.go).  The launcher rearranges the environment *)
(* and execs the user's shell; the shell then reads its startup files in   *)
(* its own order, and the generated ones among them source the user's.     *)
(* The shells themselves are external.  The generated files are read here  *)
(* and written elsewhere: Preflight may do so between two reads.           *)
(***************************************************************************)
EXTENDS Naturals, Sequences

CONSTANTS None

VARIABLES
  scene,     \* the machine and its user
  launcher,  \* <state>/pane-shell: the shell it was generated for
  files,     \* the generated startup files that are there
  stage,     \* what the shell does next
  kind,      \* the shell the launcher has started
  env,       \* the environment of the pane
  before,    \* the one the launcher was given
  zdot,      \* the zsh variable _familiar_user_zdot
  ran,       \* the user's startup files that have run, with their directory
  launched   \* bound: launches so far

\* Where runtime/current/bin is on PATH; values of ZDOTDIR and of ENV.
Places == {"first", "later", "missing"}
Dirs   == {"unset", "empty", "home", "custom", "moved", "shim"}
Envs   == {"unset", "user", "shim"}

Environments == [path : Places, zdotdir : Dirs, userZdotdir : Dirs,
                 env : Envs, userEnv : Envs, login : BOOLEAN]

Stages == {"none", "prompt", "bashrc", "login", "env", "config", "startup",
           ".zshenv", ".zprofile", ".zshrc", ".zlogin"}

TypeOK ==
  /\ stage \in Stages
  /\ env \in Environments /\ before \in Environments
  /\ zdot \in Dirs
  /\ launched \in 0..scene.launches
  /\ stage # "none" => kind # None

\* What the server inherited; its PATH has runtime/current/bin first.
ServerEnv == [path |-> "first", zdotdir |-> scene.zdotdir, userZdotdir |-> "unset",
              env |-> scene.env, userEnv |-> "unset", login |-> FALSE]

Init ==
  /\ stage = "none" /\ kind = None
  /\ env = ServerEnv /\ before = ServerEnv
  /\ zdot = "unset" /\ ran = <<>> /\ launched = 0

-----------------------------------------------------------------------------
\* The launcher.

\* ZDOTDIR is remembered unless it is the shim's already, or says nothing.
RememberedDir(e) ==
  IF e.zdotdir \notin {"unset", "empty", "shim"} THEN e.zdotdir
  ELSE IF e.zdotdir # "shim" \/ e.userZdotdir = "unset" THEN "home"
  ELSE e.userZdotdir

RememberedEnv(e) == IF e.env \notin {"unset", "shim"} THEN e.env ELSE e.userEnv

Prepared(k, e) ==
  CASE k = "bash"    -> [e EXCEPT !.login = @ \/ scene.login]
    [] k = "zsh"     -> [e EXCEPT !.userZdotdir = RememberedDir(e), !.zdotdir = "shim"]
    [] k = "posix"   -> [e EXCEPT !.userEnv = RememberedEnv(e), !.env = "shim"]
    [] k = "fish"    -> e
    [] k = "unknown" -> [e EXCEPT !.path = "first"]

FirstStage(k) ==
  CASE k = "bash" -> "bashrc" [] k = "zsh" -> ".zshenv" [] k = "fish" -> "config"
    [] k = "posix" -> IF scene.login THEN "login" ELSE "env" [] k = "unknown" -> "startup"

\* The server opens a pane, or one is opened from the prompt of another.
Launch ==
  /\ stage \in {"none", "prompt"} /\ launcher # None /\ launched < scene.launches
  /\ \E e \in {env, ServerEnv} : before' = e /\ env' = Prepared(launcher, e)
  /\ kind' = launcher /\ stage' = FirstStage(launcher)
  /\ zdot' = "unset" /\ ran' = <<>> /\ launched' = launched + 1

-----------------------------------------------------------------------------
\* Startup files.  A file of the user's may put other things first on PATH or
\* lose what was there; the assertion at the end of a generated file does not
\* care.

UserPath(e) == {[e EXCEPT !.path = place] : place \in {e.path, "later", "missing"}}

Asserted(e) == [e EXCEPT !.path = "first"]

Ran(fs) == ran' = ran \o fs

\* bash --rcfile: login emulation, or ~/.bashrc.
BashRc ==
  /\ stage = "bashrc"
  /\ \/ /\ "bashrc" \in files
        /\ env' = Asserted([env EXCEPT !.login = FALSE])
        /\ Ran(IF env.login THEN <<"/etc/profile", "profile">> ELSE <<".bashrc">>)
     \/ "bashrc" \notin files /\ UNCHANGED <<env, ran>>
  /\ stage' = "prompt"
  /\ UNCHANGED <<kind, before, zdot, launched>>

\* fish -C runs after config.fish.
FishConfig ==
  /\ stage = "config"
  /\ env' = Asserted(env) /\ Ran(<<"config.fish">>)
  /\ stage' = "prompt"
  /\ UNCHANGED <<kind, before, zdot, launched>>

\* ~/.profile of a login shell, which may set ENV.
PosixLogin ==
  /\ stage = "login"
  /\ \E e \in UserPath(env) :
       env' = IF scene.profileSetsEnv THEN [e EXCEPT !.env = "user"] ELSE e
  /\ Ran(<<"/etc/profile", "profile">>)
  /\ stage' = "env"
  /\ UNCHANGED <<kind, before, zdot, launched>>

\* The shell reads the file that ENV names by now.
PosixEnv ==
  /\ stage = "env"
  /\ \/ /\ env.env = "shim" /\ "posix-env" \in files
        /\ env' = Asserted([env EXCEPT !.env = env.userEnv, !.userEnv = "unset"])
        /\ Ran(IF env.userEnv # "unset" THEN <<"ENV file">> ELSE <<>>)
     \/ /\ env.env = "user"
        /\ env' \in UserPath(env)
        /\ Ran(<<"ENV file">>)
     \/ /\ env.env = "unset" \/ (env.env = "shim" /\ "posix-env" \notin files)
        /\ UNCHANGED <<env, ran>>
  /\ stage' = "prompt"
  /\ UNCHANGED <<kind, before, zdot, launched>>

\* Another shell runs what it runs.
OtherStartup ==
  /\ stage = "startup"
  /\ env' \in UserPath(env)
  /\ Ran(<<"startup">>)
  /\ stage' = "prompt"
  /\ UNCHANGED <<kind, before, zdot, launched>>

-----------------------------------------------------------------------------
\* zsh reads each file from the ZDOTDIR of the moment.

NextZsh(f) ==
  CASE f = ".zshenv"   -> IF scene.login THEN ".zprofile" ELSE ".zshrc"
    [] f = ".zprofile" -> ".zshrc"
    [] f = ".zshrc"    -> IF scene.login THEN ".zlogin" ELSE "prompt"
    [] f = ".zlogin"   -> "prompt"

\* What the user's files see; $HOME is zsh's own choice without ZDOTDIR.
Shown(dir) == IF dir = "home" THEN "unset" ELSE IF dir = "unset" THEN "empty" ELSE dir

\* The user's file, when the directory is one and not the root.
UserFile(f, dir) == IF dir \in {"unset", "empty"} THEN <<>> ELSE <<<<f, dir>>>>

\* .zshenv finds out where the user's files are, and follows a .zshenv that
\* moves them.
ZshEnv ==
  LET dir == IF env.userZdotdir # "unset" THEN env.userZdotdir ELSE "home"
      after == IF scene.zshenvMoves THEN "moved" ELSE Shown(dir)
  IN /\ \E e \in UserPath(env) :
          env' = [e EXCEPT !.userZdotdir = "unset", !.zdotdir = "shim"]
     /\ zdot' = IF after \notin {"unset", "empty", "shim"} THEN after ELSE dir
     /\ Ran(UserFile(".zshenv", dir))

\* The last generated file gives ZDOTDIR back and asserts.
FinalizesAnyRc(f) == f \in {".zshrc", ".zlogin"}
Finalizes(f) == f = ".zlogin" \/ (f = ".zshrc" /\ ~scene.login)

ZshShim(f) ==
  /\ IF Finalizes(f)
     THEN env' = Asserted([env EXCEPT !.zdotdir = Shown(zdot)]) /\ zdot' = "unset"
     ELSE /\ \E e \in UserPath(env) : env' = [e EXCEPT !.zdotdir = "shim"]
          /\ UNCHANGED zdot
  /\ Ran(UserFile(f, zdot))

\* Without the generated file nothing runs; with ZDOTDIR given back early the
\* user's own file does.
ZshNative(f) ==
  /\ UNCHANGED zdot
  /\ \/ env.zdotdir = "shim" /\ UNCHANGED <<env, ran>>
     \/ /\ env.zdotdir # "shim"
        /\ env' \in UserPath(env)
        /\ Ran(UserFile(f, IF env.zdotdir = "unset" THEN "home" ELSE env.zdotdir))

ZshFile(f) ==
  /\ stage = f
  /\ \/ env.zdotdir = "shim" /\ f \in files /\ (IF f = ".zshenv" THEN ZshEnv ELSE ZshShim(f))
     \/ (env.zdotdir # "shim" \/ f \notin files) /\ ZshNative(f)
  /\ stage' = NextZsh(f)
  /\ UNCHANGED <<kind, before, launched>>

Startup ==
  \/ BashRc \/ FishConfig \/ PosixLogin \/ PosixEnv \/ OtherStartup
  \/ \E f \in {".zshenv", ".zprofile", ".zshrc", ".zlogin"} : ZshFile(f)

Next == Launch \/ Startup

-----------------------------------------------------------------------------
\* What the shell would have done without Familiar, from the environment the
\* launcher was given.

\* zsh: the directory of .zshenv, and that of the later files.
FirstDir == IF before.zdotdir = "unset" THEN "home" ELSE before.zdotdir
LaterDir == IF scene.zshenvMoves THEN "moved" ELSE FirstDir

\* posix: the ENV file of the user after the login files.
UserEnv == IF scene.login /\ scene.profileSetsEnv THEN "user" ELSE before.env

UsualFiles ==
  CASE kind = "bash"  -> IF scene.login THEN <<"/etc/profile", "profile">> ELSE <<".bashrc">>
    [] kind = "zsh"   -> IF scene.login
                         THEN <<<<".zshenv", FirstDir>>, <<".zprofile", LaterDir>>,
                                <<".zshrc", LaterDir>>, <<".zlogin", LaterDir>>>>
                         ELSE <<<<".zshenv", FirstDir>>, <<".zshrc", LaterDir>>>>
    [] kind = "fish"  -> <<"config.fish">>
    [] kind = "posix" -> (IF scene.login THEN <<"/etc/profile", "profile">> ELSE <<>>)
                           \o IF UserEnv = "user" THEN <<"ENV file">> ELSE <<>>
    [] kind = "unknown" -> <<"startup">>

UsualEnv ==
  CASE kind = "zsh" /\ scene.zshenvMoves -> [before EXCEPT !.zdotdir = "moved"]
    [] kind = "posix" -> [before EXCEPT !.env = UserEnv]
    [] OTHER -> before

\* The pane is as without Familiar, PATH apart.
AsUsual ==
  /\ ran = UsualFiles
  /\ [env EXCEPT !.path = "first"] = [UsualEnv EXCEPT !.path = "first"]
=============================================================================
