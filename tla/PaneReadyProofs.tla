--------------------------- MODULE PaneReadyProofs ---------------------------
(***************************************************************************)
(* Theorems about the panes of HerdrPanes: every quiet one comes up as     *)
(* without Familiar, the runtime first on PATH.                            *)
(***************************************************************************)
EXTENDS HerdrPanesProofs, SequenceTheorems

-----------------------------------------------------------------------------
(* Short sequences put together. *)

\* A sequence that goes on with one element is what concatenation gives.
LEMMA OneMore ==
  ASSUME NEW S, NEW s \in Seq(S), NEW t \in Seq(S), NEW e \in S,
         Len(t) = Len(s) + 1, \A i \in 1..Len(s) : t[i] = s[i], t[Len(t)] = e
  PROVE  s \o <<e>> = t
<1>1. <<e>> \in Seq(S) /\ Len(<<e>>) = 1 /\ <<e>>[1] = e
  OBVIOUS
<1>2. /\ s \o <<e>> \in Seq(S) /\ Len(s \o <<e>>) = Len(t)
      /\ \A i \in 1..Len(t) : (s \o <<e>>)[i] = IF i <= Len(s) THEN s[i] ELSE <<e>>[i - Len(s)]
  BY <1>1, ConcatProperties
<1>3. Len(s) \in Nat
  OBVIOUS
<1>4. ASSUME NEW i \in 1..Len(t) PROVE (s \o <<e>>)[i] = t[i]
  <2>1. CASE i <= Len(s)
    BY <1>2, <1>3, <2>1
  <2>2. CASE i = Len(t)
    BY <1>1, <1>2, <1>3, <2>2
  <2> QED
    BY <1>3, <2>1, <2>2
<1> QED
  BY <1>2, <1>4, SeqEqual

\* Adding a few elements, or none, at the end.
LEMMA Joining ==
  ASSUME NEW a, NEW b, NEW c, NEW d
  PROVE  /\ <<>> \o <<a>> = <<a>> /\ <<>> \o <<a, b>> = <<a, b>> /\ <<>> \o <<>> = <<>>
         /\ <<a, b>> \o <<>> = <<a, b>>
         /\ <<a>> \o <<b>> = <<a, b>> /\ <<a, b>> \o <<c>> = <<a, b, c>>
         /\ <<a, b, c>> \o <<d>> = <<a, b, c, d>>
<1>1. <<>> \o <<a>> = <<a>> /\ <<>> \o <<a, b>> = <<a, b>> /\ <<>> \o <<>> = <<>>
      /\ <<a, b>> \o <<>> = <<a, b>>
  OBVIOUS
<1>2. /\ <<a>> \in Seq({a, b, c, d}) /\ Len(<<a>>) = 1
      /\ <<a, b>> \in Seq({a, b, c, d}) /\ Len(<<a, b>>) = 2
      /\ <<a, b, c>> \in Seq({a, b, c, d}) /\ Len(<<a, b, c>>) = 3
      /\ <<a, b, c, d>> \in Seq({a, b, c, d}) /\ Len(<<a, b, c, d>>) = 4
  OBVIOUS
<1>3. <<a>> \o <<b>> = <<a, b>>
  <2> DEFINE S == {a, b, c, d}  s == <<a>>  t == <<a, b>>
  <2>1. s \in Seq(S) /\ t \in Seq(S) /\ b \in S
    BY <1>2
  <2>2. Len(t) = Len(s) + 1
    BY <1>2
  <2>3. (\A i \in 1..Len(s) : t[i] = s[i]) /\ t[Len(t)] = b
    BY <1>2
  <2> HIDE DEF S, s, t
  <2>4. s \o <<b>> = t
    BY <2>1, <2>2, <2>3, OneMore
  <2> QED
    BY <2>4 DEF s, t
<1>4. <<a, b>> \o <<c>> = <<a, b, c>>
  <2> DEFINE S == {a, b, c, d}  s == <<a, b>>  t == <<a, b, c>>
  <2>1. s \in Seq(S) /\ t \in Seq(S) /\ c \in S
    BY <1>2
  <2>2. Len(t) = Len(s) + 1
    BY <1>2
  <2>3. (\A i \in 1..Len(s) : t[i] = s[i]) /\ t[Len(t)] = c
    BY <1>2
  <2> HIDE DEF S, s, t
  <2>4. s \o <<c>> = t
    BY <2>1, <2>2, <2>3, OneMore
  <2> QED
    BY <2>4 DEF s, t
<1>5. <<a, b, c>> \o <<d>> = <<a, b, c, d>>
  <2> DEFINE S == {a, b, c, d}  s == <<a, b, c>>  t == <<a, b, c, d>>
  <2>1. s \in Seq(S) /\ t \in Seq(S) /\ d \in S
    BY <1>2
  <2>2. Len(t) = Len(s) + 1
    BY <1>2
  <2>3. (\A i \in 1..Len(s) : t[i] = s[i]) /\ t[Len(t)] = d
    BY <1>2
  <2> HIDE DEF S, s, t
  <2>4. s \o <<d>> = t
    BY <2>1, <2>2, <2>3, OneMore
  <2> QED
    BY <2>4 DEF s, t
<1> QED
  BY <1>1, <1>3, <1>4, <1>5

-----------------------------------------------------------------------------
(* The inductive invariant. *)

\* Environments differ in a field or not at all.
LEMMA FieldsDecide ==
  ASSUME NEW e \in Pane!Environments, NEW g \in Pane!Environments,
         e.path = g.path, e.zdotdir = g.zdotdir, e.userZdotdir = g.userZdotdir,
         e.env = g.env, e.userEnv = g.userEnv, e.login = g.login
  PROVE  e = g
BY DEF Pane!Environments

MovingScene == scene.login /\ scene.profileSetsEnv

\* Nothing of Familiar's is left in it.
Clean(e) ==
  /\ e.login = FALSE /\ e.userZdotdir = "unset" /\ e.zdotdir \in {"unset", "custom", "moved"}
  /\ e.env \in {"unset", "user"} /\ e.userEnv \in {"unset", "user"}
  /\ ~MovingScene => e.userEnv = "unset"

\* The shell that runs reads files of its own.
StageInv ==
  /\ kind \in Shells \cup {None}
  /\ stage # "none" => kind \in Shells
  /\ stage = "bashrc" => kind = "bash"
  /\ stage = "config" => kind = "fish"
  /\ stage = "startup" => kind = "unknown"
  /\ stage = "login" => kind = "posix" /\ scene.login
  /\ stage = "env" => kind = "posix"
  /\ stage \in ZshFiles => kind = "zsh"
  /\ stage \in {".zprofile", ".zlogin"} => scene.login

\* Where a quiet startup stands, file by file.
FirstStage == Pane!FirstStage(kind)
Login      == IF scene.login THEN <<"/etc/profile", "profile">> ELSE <<>>

EnvStage ==
  /\ ran = Login
  /\ env.zdotdir = before.zdotdir /\ env.userZdotdir = before.userZdotdir /\ env.login = before.login
  /\ env.userEnv = Pane!RememberedEnv(before)
  /\ env.env = IF MovingScene THEN "user" ELSE "shim"

ZshStage ==
  /\ env.zdotdir = "shim" /\ env.userZdotdir = "unset" /\ env.login = before.login
  /\ env.env = before.env /\ env.userEnv = before.userEnv
  /\ zdot = Pane!LaterDir
  /\ ran = CASE stage = ".zprofile" -> <<<<".zshenv", Pane!FirstDir>>>>
             [] stage = ".zshrc" ->
                  IF scene.login THEN <<<<".zshenv", Pane!FirstDir>>, <<".zprofile", Pane!LaterDir>>>>
                                 ELSE <<<<".zshenv", Pane!FirstDir>>>>
             [] stage = ".zlogin" ->
                  <<<<".zshenv", Pane!FirstDir>>, <<".zprofile", Pane!LaterDir>>,
                    <<".zshrc", Pane!LaterDir>>>>

Done ==
  /\ Clean(env)
  /\ ~MovesEnv => (kind # "unknown" => env.path = "first") /\ Pane!AsUsual

QuietInv ==
  quiet =>
    /\ Clean(before)
    /\ stage = "none" => Clean(env)
    /\ stage \notin {"none", "prompt"} => settled /\ launcher = kind
    /\ stage \notin {"none", "prompt"} /\ stage = FirstStage =>
         env = Pane!Prepared(kind, before) /\ ran = <<>>
    /\ stage = "env" => EnvStage
    /\ stage \in {".zprofile", ".zshrc", ".zlogin"} => ZshStage
    /\ stage = "prompt" => Done

PaneInv == PreflightInv /\ Pane!TypeOK /\ StageInv /\ quiet \in BOOLEAN /\ QuietInv

\* What the machine says of its user.
LEMMA SceneFacts ==
  ASSUME PreflightInv
  PROVE  /\ scene.login \in BOOLEAN /\ scene.zshenvMoves \in BOOLEAN
         /\ scene.profileSetsEnv \in BOOLEAN
         /\ scene.zdotdir \in {"unset", "custom"} /\ scene.env \in {"unset", "user"}
         /\ scene.launches \in Nat
         /\ Pane!ServerEnv \in Pane!Environments /\ Clean(Pane!ServerEnv)
<1>1. scene \in Scenes
  BY DEF PreflightInv, CommandInv
<1>2. /\ scene.login \in BOOLEAN /\ scene.zshenvMoves \in BOOLEAN
      /\ scene.profileSetsEnv \in BOOLEAN
      /\ scene.zdotdir \in {"unset", "custom"} /\ scene.env \in {"unset", "user"}
  BY <1>1, SceneAssumption
<1>3. scene.launches \in Nat
  BY <1>1, PreflightAssumption
<1>4. Pane!ServerEnv \in Pane!Environments
  BY <1>2 DEF Pane!ServerEnv, Pane!Environments, Pane!Places, Pane!Dirs, Pane!Envs
<1>5. Clean(Pane!ServerEnv)
  BY <1>2 DEF Pane!ServerEnv, Clean
<1> QED
  BY <1>2, <1>3, <1>4, <1>5

\* At first there is no pane.
LEMMA PaneInitInv == Init => PaneInv
<1> SUFFICES ASSUME Init PROVE PaneInv
  OBVIOUS
<1>1. PreflightInv
  BY PreflightInitInv DEF Init
<1>2. Pane!TypeOK
  <2>1. launched \in 0..scene.launches
    BY <1>1, SceneFacts DEF Init, Pane!Init
  <2> QED
    BY <1>1, <2>1, SceneFacts DEF Init, Pane!Init, Pane!TypeOK, Pane!Stages, Pane!Dirs
<1>3. StageInv
  BY DEF Init, Pane!Init, StageInv, ZshFiles
<1>4. QuietInv
  BY <1>1, SceneFacts DEF Init, Pane!Init, QuietInv
<1> QED
  BY <1>1, <1>2, <1>3, <1>4 DEF PaneInv, Init

\* The commands leave the panes alone, and those that are not at a prompt are
\* no longer quiet.
LEMMA CommandsKeep ==
  ASSUME PaneInv, [Next]_vars, PreflightInv', (\E p \in Procs : Command(p)) \/ Edit \/ UNCHANGED vars
  PROVE  PaneInv'
<1>1. UNCHANGED <<scene, paneVars>>
  <2>1. ASSUME NEW p \in Procs, Command(p) PROVE UNCHANGED <<scene, paneVars>>
    BY <2>1 DEF Command, PreflightStep, Begin, Check, ListShell, RemoveFile, RemoveDir, MakeDir,
                WriteFile, WriteProfile, ReadConfig, WriteConfig, CheckConfig, Serve, Fail
  <2> QED
    BY <2>1 DEF Edit, EditConfig, vars, preflightVars
<1>2. /\ quiet' \in BOOLEAN /\ (quiet' => quiet)
      /\ quiet' => stage \in {"none", "prompt"} \/ UNCHANGED <<settled, launcher>>
  <2>1. ASSUME NEW p \in Procs, Command(p) PROVE quiet' = (quiet /\ stage \in {"none", "prompt"})
    BY <2>1 DEF Command
  <2>2. CASE Edit \/ UNCHANGED vars
    BY <2>2 DEF Edit, EditConfig, generated, vars, preflightVars, PaneInv
  <2> QED
    BY <2>1, <2>2 DEF PaneInv
<1>3. Pane!TypeOK' /\ StageInv'
  BY <1>1 DEF paneVars, PaneInv, Pane!TypeOK, StageInv
<1>4. /\ Pane!FirstDir' = Pane!FirstDir /\ Pane!LaterDir' = Pane!LaterDir /\ Pane!UserEnv' = Pane!UserEnv
      /\ Login' = Login /\ (MovesEnv' <=> MovesEnv) /\ (MovingScene' <=> MovingScene)
      /\ (Clean(before)' <=> Clean(before)) /\ (Clean(env)' <=> Clean(env))
  BY <1>1 DEF paneVars, Pane!FirstDir, Pane!LaterDir, Pane!UserEnv, Login, MovesEnv, MovingScene, Clean
<1>5. /\ FirstStage' = FirstStage /\ Pane!RememberedEnv(before)' = Pane!RememberedEnv(before)
      /\ Pane!Prepared(kind, before)' = Pane!Prepared(kind, before)
  BY <1>1 DEF paneVars, FirstStage, Pane!FirstStage, Pane!RememberedEnv, Pane!RememberedDir, Pane!Prepared
<1>6. (EnvStage' <=> EnvStage) /\ (ZshStage' <=> ZshStage)
  BY <1>1, <1>4, <1>5 DEF paneVars, EnvStage, ZshStage
<1>7. Done' <=> Done
  <2>1. Pane!UsualFiles' = Pane!UsualFiles /\ Pane!UsualEnv' = Pane!UsualEnv
    BY <1>1, <1>4 DEF paneVars, Pane!UsualFiles, Pane!UsualEnv
  <2> QED
    BY <1>1, <1>4, <2>1 DEF paneVars, Done, Pane!AsUsual
<1>8. QuietInv'
  BY <1>1, <1>2, <1>4, <1>5, <1>6, <1>7 DEF paneVars, PaneInv, QuietInv
<1> QED
  BY <1>2, <1>3, <1>8 DEF PaneInv

\* A pane opens quiet on settled files only, and from a clean environment.
LEMMA OpenKeeps == ASSUME PaneInv, PreflightInv', Open PROVE PaneInv'
<1> USE DEF PaneInv
<1>1. PICK e \in {env, Pane!ServerEnv} : before' = e /\ env' = Pane!Prepared(launcher, e)
  BY DEF Open, Pane!Launch
<1>2. /\ stage \in {"none", "prompt"} /\ launcher \in Shells /\ launched < scene.launches
      /\ kind' = launcher /\ stage' = Pane!FirstStage(launcher)
      /\ zdot' = "unset" /\ ran' = <<>> /\ launched' = launched + 1
      /\ quiet' = ((quiet \/ before' = Pane!ServerEnv) /\ settled /\ \A p \in Procs : ~Active(p))
      /\ UNCHANGED <<scene, launcher, settled>>
  BY DEF Open, Pane!Launch, preflightVars, generated, PreflightInv, PreflightTypeOK
<1>3. e \in Pane!Environments
  BY SceneFacts, <1>1 DEF Pane!TypeOK
<1>4. env' \in Pane!Environments
  <2>1. /\ Pane!RememberedDir(e) \in Pane!Dirs /\ Pane!RememberedEnv(e) \in Pane!Envs
        /\ e.login \/ scene.login \in BOOLEAN
        /\ "first" \in Pane!Places /\ "shim" \in Pane!Dirs /\ "shim" \in Pane!Envs
    BY SceneFacts, <1>3
       DEF Pane!RememberedDir, Pane!RememberedEnv, Pane!Environments, Pane!Places, Pane!Dirs, Pane!Envs
  <2>2. CASE launcher = "bash"
    BY SceneFacts, <1>1, <1>3, <2>1, <2>2 DEF Pane!Prepared, Pane!Environments
  <2>3. CASE launcher = "zsh"
    BY <1>1, <1>3, <2>1, <2>3 DEF Pane!Prepared, Pane!Environments
  <2>4. CASE launcher = "posix"
    BY <1>1, <1>3, <2>1, <2>4 DEF Pane!Prepared, Pane!Environments
  <2>5. CASE launcher = "fish"
    BY <1>1, <1>3, <2>5 DEF Pane!Prepared
  <2>6. CASE launcher = "unknown"
    BY <1>1, <1>3, <2>1, <2>6 DEF Pane!Prepared, Pane!Environments
  <2> QED
    BY <1>2, <2>2, <2>3, <2>4, <2>5, <2>6 DEF Shells
<1>5. launched' \in 0..scene.launches
  BY SceneFacts, <1>2 DEF Pane!TypeOK
<1>6. stage' \in {"bashrc", ".zshenv", "config", "login", "env", "startup"}
  BY <1>2 DEF Shells, Pane!FirstStage
<1>7. Pane!TypeOK'
  <2>1. stage' \in Pane!Stages /\ "unset" \in Pane!Dirs
    BY <1>6 DEF Pane!Stages, Pane!Dirs
  <2>2. launcher # None
    BY <1>2, PreflightAssumption
  <2>3. before' \in Pane!Environments /\ kind' # None /\ zdot' = "unset" /\ scene' = scene
    BY <1>1, <1>2, <1>3, <2>2
  <2> QED
    BY <1>4, <1>5, <2>1, <2>3 DEF Pane!TypeOK, Pane!Environments
<1>8. StageInv'
  BY SceneFacts, <1>2 DEF Shells, Pane!FirstStage, StageInv, ZshFiles
<1>9. quiet' \in BOOLEAN
  BY <1>2 DEF PreflightInv, PreflightTypeOK
<1>10. quiet' => Clean(e)
  <2>1. quiet => Clean(env)
    BY <1>2 DEF QuietInv, Done
  <2> QED
    BY SceneFacts, <1>1, <1>2, <2>1
<1>11. Clean(before)' <=> Clean(e)
  BY <1>1, <1>2 DEF Clean, MovingScene
<1>12. env' = Pane!Prepared(kind, before)'
  BY <1>1, <1>2 DEF Pane!Prepared, Pane!RememberedDir, Pane!RememberedEnv
<1>13. stage' = "env" => ~scene.login
  BY SceneFacts, <1>2 DEF Shells, Pane!FirstStage
<1>14. stage' = "env" => EnvStage'
  <2> SUFFICES ASSUME stage' = "env" PROVE EnvStage'
    OBVIOUS
  <2>1. launcher = "posix"
    BY <1>2 DEF Shells, Pane!FirstStage
  <2>2. env' = [e EXCEPT !.userEnv = Pane!RememberedEnv(e), !.env = "shim"]
    BY <1>1, <2>1 DEF Pane!Prepared
  <2>3. Login' = <<>> /\ ~MovingScene'
    BY <1>2, <1>13 DEF Login, MovingScene
  <2>4. Pane!RememberedEnv(before)' = Pane!RememberedEnv(e)
    BY <1>1 DEF Pane!RememberedEnv
  <2> QED
    BY <1>1, <1>2, <1>3, <2>2, <2>3, <2>4 DEF EnvStage, Pane!Environments
<1>15. QuietInv'
  BY <1>2, <1>6, <1>10, <1>11, <1>12, <1>14 DEF QuietInv
<1> QED
  BY <1>7, <1>8, <1>9, <1>15

-----------------------------------------------------------------------------
(* A shell starts. *)

\* What a file of the user's may do to PATH, and what the assertion does.
LEMMA PathFields ==
  ASSUME NEW e \in Pane!Environments
  PROVE  /\ Pane!Asserted(e) \in Pane!Environments
         /\ Pane!Asserted(e).path = "first"
         /\ \A g \in Pane!UserPath(e) \cup {Pane!Asserted(e)} :
              /\ g \in Pane!Environments
              /\ g.zdotdir = e.zdotdir /\ g.userZdotdir = e.userZdotdir
              /\ g.env = e.env /\ g.userEnv = e.userEnv /\ g.login = e.login
BY DEF Pane!Asserted, Pane!UserPath, Pane!Environments, Pane!Places

\* The files a quiet startup reads are there, and its environment was clean.
LEMMA QuietFacts ==
  ASSUME PaneInv, quiet, stage \notin {"none", "prompt"}
  PROVE  kind \in Shells /\ files = FilesOf(kind) /\ Clean(before) /\ before \in Pane!Environments
BY DEF PaneInv, QuietInv, StageInv, Pane!TypeOK, PreflightInv, SettledInv

\* A shell that reaches its prompt in order keeps the invariant.
LEMMA Finishing ==
  ASSUME PaneInv, PreflightInv', stage \notin {"none", "prompt"}, stage' = "prompt",
         env' \in Pane!Environments, zdot' \in Pane!Dirs,
         UNCHANGED <<scene, kind, before, launched, quiet>>, quiet => Done'
  PROVE  PaneInv'
<1>1. Pane!TypeOK'
  BY DEF PaneInv, Pane!TypeOK, Pane!Stages, Pane!Environments
<1>2. StageInv'
  BY DEF PaneInv, StageInv, ZshFiles
<1>3. Clean(before)' <=> Clean(before)
  BY DEF Clean, MovingScene
<1>4. QuietInv'
  BY <1>3 DEF PaneInv, QuietInv
<1> QED
  BY <1>1, <1>2, <1>4 DEF PaneInv

\* Done, for a shell that leaves every field but PATH as it should be.
LEMMA DoneAsUsual ==
  ASSUME NEW u \in Pane!Environments, env' \in Pane!Environments, Clean(u), UNCHANGED <<scene, kind>>,
         env'.zdotdir = u.zdotdir, env'.userZdotdir = u.userZdotdir,
         env'.env = u.env, env'.userEnv = u.userEnv, env'.login = u.login,
         kind # "unknown" => env'.path = "first", ran' = Pane!UsualFiles', Pane!UsualEnv' = u
  PROVE  Done'
<1>1. Clean(env)'
  BY DEF Clean, MovingScene
<1>2. [env' EXCEPT !.path = "first"] = [u EXCEPT !.path = "first"]
  <2>1. /\ [env' EXCEPT !.path = "first"] \in Pane!Environments
        /\ [u EXCEPT !.path = "first"] \in Pane!Environments
    BY DEF Pane!Environments, Pane!Places
  <2> QED
    BY <2>1, FieldsDecide DEF Pane!Environments
<1>3. Pane!AsUsual'
  BY <1>2 DEF Pane!AsUsual
<1> QED
  BY <1>1, <1>3 DEF Done

\* bash
LEMMA BashKeeps == ASSUME PaneInv, PreflightInv', Start, Pane!BashRc PROVE PaneInv'
<1>1. /\ stage = "bashrc" /\ stage' = "prompt" /\ UNCHANGED <<scene, kind, before, launched, quiet, zdot>>
      /\ env \in Pane!Environments /\ kind = "bash" /\ FirstStage = "bashrc"
  BY DEF Start, preflightVars, Pane!BashRc, PaneInv, Pane!TypeOK, StageInv, FirstStage, Pane!FirstStage
<1>2. [env EXCEPT !.login = FALSE] \in Pane!Environments
  BY <1>1 DEF Pane!Environments
<1>3. env' \in Pane!Environments /\ zdot' \in Pane!Dirs
  BY <1>1, <1>2, PathFields DEF Pane!BashRc, PaneInv, Pane!TypeOK
<1>4. ASSUME quiet PROVE Done'
  <2>1. Clean(before) /\ before \in Pane!Environments /\ "bashrc" \in files
    BY <1>1, <1>4, QuietFacts DEF FilesOf
  <2>2. env = [before EXCEPT !.login = @ \/ scene.login] /\ ran = <<>>
    BY <1>1, <1>4 DEF PaneInv, QuietInv, Pane!Prepared
  <2>3. env' = Pane!Asserted([env EXCEPT !.login = FALSE])
        /\ ran' = ran \o (IF env.login THEN <<"/etc/profile", "profile">> ELSE <<".bashrc">>)
    BY <2>1 DEF Pane!BashRc, Pane!Ran
  <2>4. /\ env.login = scene.login
        /\ LET e == [env EXCEPT !.login = FALSE] IN
             /\ e.zdotdir = before.zdotdir /\ e.userZdotdir = before.userZdotdir
             /\ e.env = before.env /\ e.userEnv = before.userEnv /\ e.login = before.login
    BY SceneFacts, <1>1, <2>1, <2>2 DEF PaneInv, Clean, Pane!Environments
  <2>5. ran' = Pane!UsualFiles' /\ Pane!UsualEnv' = before
    BY <1>1, <2>2, <2>3, <2>4, Joining DEF Pane!UsualFiles, Pane!UsualEnv
  <2>6. /\ env'.zdotdir = before.zdotdir /\ env'.userZdotdir = before.userZdotdir
        /\ env'.env = before.env /\ env'.userEnv = before.userEnv /\ env'.login = before.login
        /\ env'.path = "first"
    BY <1>2, <2>3, <2>4, PathFields
  <2> QED
    BY <1>1, <1>3, <2>1, <2>5, <2>6, DoneAsUsual
<1> QED
  BY <1>1, <1>3, <1>4, Finishing

\* fish
LEMMA FishKeeps == ASSUME PaneInv, PreflightInv', Start, Pane!FishConfig PROVE PaneInv'
<1>1. /\ stage = "config" /\ stage' = "prompt" /\ UNCHANGED <<scene, kind, before, launched, quiet, zdot>>
      /\ env \in Pane!Environments /\ kind = "fish" /\ FirstStage = "config"
      /\ env' = Pane!Asserted(env) /\ ran' = ran \o <<"config.fish">>
  BY DEF Start, preflightVars, Pane!FishConfig, PaneInv, Pane!TypeOK, StageInv, FirstStage,
         Pane!FirstStage, Pane!Ran
<1>2. env' \in Pane!Environments /\ zdot' \in Pane!Dirs
  BY <1>1, PathFields DEF PaneInv, Pane!TypeOK
<1>3. ASSUME quiet PROVE Done'
  <2>1. Clean(before) /\ before \in Pane!Environments
    BY <1>1, <1>3, QuietFacts
  <2>2. env = before /\ ran = <<>>
    BY <1>1, <1>3 DEF PaneInv, QuietInv, Pane!Prepared
  <2>3. ran' = Pane!UsualFiles' /\ Pane!UsualEnv' = before
    BY <1>1, <2>2, Joining DEF Pane!UsualFiles, Pane!UsualEnv
  <2>4. /\ env'.zdotdir = before.zdotdir /\ env'.userZdotdir = before.userZdotdir
        /\ env'.env = before.env /\ env'.userEnv = before.userEnv /\ env'.login = before.login
        /\ env'.path = "first"
    BY <1>1, <2>2, PathFields
  <2> QED
    BY <1>1, <1>2, <2>1, <2>3, <2>4, DoneAsUsual
<1> QED
  BY <1>1, <1>2, <1>3, Finishing

\* another shell
LEMMA OtherKeeps == ASSUME PaneInv, PreflightInv', Start, Pane!OtherStartup PROVE PaneInv'
<1>1. /\ stage = "startup" /\ stage' = "prompt" /\ UNCHANGED <<scene, kind, before, launched, quiet, zdot>>
      /\ env \in Pane!Environments /\ kind = "unknown" /\ FirstStage = "startup"
      /\ env' \in Pane!UserPath(env) /\ ran' = ran \o <<"startup">>
  BY DEF Start, preflightVars, Pane!OtherStartup, PaneInv, Pane!TypeOK, StageInv, FirstStage,
         Pane!FirstStage, Pane!Ran
<1>2. env' \in Pane!Environments /\ zdot' \in Pane!Dirs
  BY <1>1, PathFields DEF PaneInv, Pane!TypeOK
<1>3. ASSUME quiet PROVE Done'
  <2>1. Clean(before) /\ before \in Pane!Environments
    BY <1>1, <1>3, QuietFacts
  <2>2. env = [before EXCEPT !.path = "first"] /\ ran = <<>>
    BY <1>1, <1>3 DEF PaneInv, QuietInv, Pane!Prepared
  <2>3. ran' = Pane!UsualFiles' /\ Pane!UsualEnv' = before
    BY <1>1, <2>2, Joining DEF Pane!UsualFiles, Pane!UsualEnv
  <2>4. /\ env.zdotdir = before.zdotdir /\ env.userZdotdir = before.userZdotdir
        /\ env.env = before.env /\ env.userEnv = before.userEnv /\ env.login = before.login
    BY <2>1, <2>2 DEF Pane!Environments
  <2>5. /\ env'.zdotdir = before.zdotdir /\ env'.userZdotdir = before.userZdotdir
        /\ env'.env = before.env /\ env'.userEnv = before.userEnv /\ env'.login = before.login
    BY <1>1, <2>4, PathFields
  <2> QED
    BY <1>1, <1>2, <2>1, <2>3, <2>5, DoneAsUsual
<1> QED
  BY <1>1, <1>2, <1>3, Finishing

\* The login files of the sh family.
LEMMA PosixLoginKeeps == ASSUME PaneInv, PreflightInv', Start, Pane!PosixLogin PROVE PaneInv'
<1>1. /\ stage = "login" /\ stage' = "env" /\ kind = "posix" /\ scene.login /\ FirstStage = "login"
      /\ UNCHANGED <<scene, launcher, settled, kind, before, launched, quiet, zdot>>
      /\ env \in Pane!Environments
      /\ ran' = ran \o <<"/etc/profile", "profile">>
  BY DEF Start, preflightVars, generated, Pane!PosixLogin, PaneInv, Pane!TypeOK, StageInv, FirstStage,
         Pane!FirstStage, Pane!Ran
<1>2. PICK e \in Pane!UserPath(env) :
        env' = IF scene.profileSetsEnv THEN [e EXCEPT !.env = "user"] ELSE e
  BY DEF Pane!PosixLogin
<1>3. e \in Pane!Environments /\ e.zdotdir = env.zdotdir /\ e.userZdotdir = env.userZdotdir
      /\ e.env = env.env /\ e.userEnv = env.userEnv /\ e.login = env.login
  BY <1>1, PathFields
<1>4. /\ env' \in Pane!Environments /\ env'.zdotdir = env.zdotdir /\ env'.userZdotdir = env.userZdotdir
      /\ env'.userEnv = env.userEnv /\ env'.login = env.login
      /\ env'.env = IF scene.profileSetsEnv THEN "user" ELSE env.env
  BY <1>2, <1>3 DEF Pane!Environments, Pane!Envs
<1>5. Pane!TypeOK' /\ StageInv'
  BY <1>1, <1>4 DEF PaneInv, Pane!TypeOK, Pane!Stages, Pane!Environments, StageInv, ZshFiles
<1>6. ASSUME quiet PROVE EnvStage'
  <2>1. Clean(before) /\ before \in Pane!Environments
    BY <1>1, <1>6, QuietFacts
  <2>2. env = [before EXCEPT !.userEnv = Pane!RememberedEnv(before), !.env = "shim"] /\ ran = <<>>
    BY <1>1, <1>6 DEF PaneInv, QuietInv, Pane!Prepared
  <2>3. /\ env.zdotdir = before.zdotdir /\ env.userZdotdir = before.userZdotdir
        /\ env.userEnv = Pane!RememberedEnv(before) /\ env.env = "shim" /\ env.login = before.login
    BY <2>1, <2>2 DEF Pane!Environments
  <2>4. ran' = Login'
    BY <1>1, <2>2, Joining DEF Login
  <2>5. Pane!RememberedEnv(before)' = Pane!RememberedEnv(before) /\ (MovingScene' <=> scene.profileSetsEnv)
    BY <1>1 DEF Pane!RememberedEnv, MovingScene
  <2> QED
    BY <1>1, <1>4, <2>3, <2>4, <2>5 DEF EnvStage
<1>7. Clean(before)' <=> Clean(before)
  BY <1>1 DEF Clean, MovingScene
<1>8. FirstStage' = "login"
  BY <1>1 DEF FirstStage, Pane!FirstStage
<1>9. QuietInv'
  BY <1>1, <1>6, <1>7, <1>8 DEF PaneInv, QuietInv
<1> QED
  BY <1>1, <1>5, <1>9 DEF PaneInv

\* The environment file of the sh family, wherever ENV points by then.
LEMMA PosixEnvKeeps == ASSUME PaneInv, PreflightInv', Start, Pane!PosixEnv PROVE PaneInv'
<1>1. /\ stage = "env" /\ stage' = "prompt" /\ kind = "posix"
      /\ UNCHANGED <<scene, kind, before, launched, quiet, zdot>>
      /\ env \in Pane!Environments
  BY DEF Start, preflightVars, Pane!PosixEnv, PaneInv, Pane!TypeOK, StageInv
<1>2. /\ [env EXCEPT !.env = env.userEnv, !.userEnv = "unset"] \in Pane!Environments
      /\ LET e == [env EXCEPT !.env = env.userEnv, !.userEnv = "unset"] IN
           /\ e.zdotdir = env.zdotdir /\ e.userZdotdir = env.userZdotdir /\ e.login = env.login
           /\ e.env = env.userEnv /\ e.userEnv = "unset"
  BY <1>1 DEF Pane!Environments, Pane!Envs
<1>3. env' \in Pane!Environments /\ zdot' \in Pane!Dirs
  BY <1>1, <1>2, PathFields DEF Pane!PosixEnv, PaneInv, Pane!TypeOK
<1>4. ASSUME quiet PROVE Done'
  <2>1. Clean(before) /\ before \in Pane!Environments /\ "posix-env" \in files
    BY <1>1, <1>4, QuietFacts DEF FilesOf
  <2>2. EnvStage
    BY <1>1, <1>4 DEF PaneInv, QuietInv
  <2>3. CASE MovingScene
    <3>1. env' \in Pane!UserPath(env)
      BY <2>2, <2>3 DEF Pane!PosixEnv, EnvStage
    <3>2. env'.zdotdir = env.zdotdir /\ env'.userZdotdir = env.userZdotdir
          /\ env'.env = env.env /\ env'.userEnv = env.userEnv /\ env'.login = env.login
      BY <1>1, <3>1, PathFields
    <3>3. Clean(env)'
      BY <1>1, <2>1, <2>2, <2>3, <3>2 DEF EnvStage, Clean, MovingScene, Pane!RememberedEnv
    <3>4. MovesEnv'
      BY <1>1, <2>3 DEF MovesEnv, MovingScene
    <3> QED
      BY <3>3, <3>4 DEF Done
  <2>4. CASE ~MovingScene
    <3>1. env.env = "shim" /\ env.userEnv = before.env /\ before.userEnv = "unset"
      BY <2>1, <2>2, <2>4 DEF EnvStage, Clean, Pane!RememberedEnv
    <3>2. /\ env' = Pane!Asserted([env EXCEPT !.env = env.userEnv, !.userEnv = "unset"])
          /\ ran' = ran \o (IF env.userEnv # "unset" THEN <<"ENV file">> ELSE <<>>)
      BY <2>1, <3>1 DEF Pane!PosixEnv, Pane!Ran
    <3>3. /\ env'.zdotdir = before.zdotdir /\ env'.userZdotdir = before.userZdotdir
          /\ env'.env = before.env /\ env'.userEnv = before.userEnv /\ env'.login = before.login
          /\ env'.path = "first"
      BY <1>2, <2>2, <3>1, <3>2, PathFields, ZenonT(60) DEF EnvStage
    <3>4. Pane!UserEnv = before.env /\ before.env \in {"unset", "user"}
      BY <2>1, <2>4 DEF Pane!UserEnv, MovingScene, Clean
    <3>5. ran' = Login \o (IF before.env = "user" THEN <<"ENV file">> ELSE <<>>)
      BY <2>2, <3>1, <3>2, <3>4 DEF EnvStage
    <3>6. Pane!UsualFiles' = ran'
      BY <1>1, <3>4, <3>5 DEF Pane!UsualFiles, Pane!UserEnv, Login
    <3>7. Pane!UsualEnv' = before
      <4>1. Pane!UsualEnv' = [before EXCEPT !.env = before.env]
        BY <1>1, <3>4 DEF Pane!UsualEnv, Pane!UserEnv
      <4> QED
        BY <2>1, <4>1 DEF Pane!Environments
    <3> QED
      BY <1>1, <1>3, <2>1, <3>3, <3>6, <3>7, DoneAsUsual
  <2> QED
    BY <2>3, <2>4
<1> QED
  BY <1>1, <1>3, <1>4, Finishing

\* A zsh that goes on to its next file in order keeps the invariant.
LEMMA ZshGoesOn ==
  ASSUME PaneInv, PreflightInv', stage \in ZshFiles, stage' \in {".zprofile", ".zshrc", ".zlogin"},
         stage' \in {".zprofile", ".zlogin"} => scene.login,
         env' \in Pane!Environments, zdot' \in Pane!Dirs,
         UNCHANGED <<scene, launcher, settled, kind, before, launched, quiet>>, quiet => ZshStage'
  PROVE  PaneInv'
<1>1. kind = "zsh"
  BY DEF PaneInv, StageInv
<1>2. Pane!TypeOK' /\ StageInv'
  BY <1>1 DEF PaneInv, Pane!TypeOK, Pane!Stages, Pane!Environments, StageInv, ZshFiles
<1>3. Clean(before)' <=> Clean(before)
  BY DEF Clean, MovingScene
<1>4. FirstStage' = ".zshenv"
  BY <1>1 DEF FirstStage, Pane!FirstStage
<1>5. QuietInv'
  BY <1>3, <1>4 DEF PaneInv, QuietInv, ZshFiles
<1> QED
  BY <1>2, <1>5 DEF PaneInv

\* The directories of a quiet zsh.
LEMMA QuietDirs ==
  ASSUME PaneInv, Clean(before)
  PROVE  /\ Pane!FirstDir = Pane!RememberedDir(before)
         /\ Pane!FirstDir \in {"home", "custom", "moved"} /\ Pane!LaterDir \in {"home", "custom", "moved"}
         /\ ~scene.zshenvMoves => Pane!Shown(Pane!LaterDir) = before.zdotdir
         /\ scene.zshenvMoves => Pane!Shown(Pane!LaterDir) = "moved"
         /\ \A f, dir : dir \in {"home", "custom", "moved"} => Pane!UserFile(f, dir) = <<<<f, dir>>>>
BY DEF Clean, Pane!FirstDir, Pane!LaterDir, Pane!RememberedDir, Pane!Shown, Pane!UserFile

\* Types and control of any zsh startup file, whatever directory zsh reads it from.
LEMMA ZshShape ==
  ASSUME PaneInv, Start, NEW f \in ZshFiles, Pane!ZshFile(f)
  PROVE  /\ env' \in Pane!Environments /\ zdot' \in Pane!Dirs
         /\ stage = f /\ stage' = Pane!NextZsh(f) /\ kind = "zsh"
         /\ stage' \in {".zprofile", ".zlogin"} => scene.login
         /\ stage' = "prompt" \/ stage' \in {".zprofile", ".zshrc", ".zlogin"}
         /\ UNCHANGED <<scene, launcher, settled, kind, before, launched, quiet>>
<1>1. /\ stage = f /\ stage' = Pane!NextZsh(f) /\ kind = "zsh"
      /\ UNCHANGED <<scene, launcher, settled, kind, before, launched, quiet>>
      /\ env \in Pane!Environments /\ zdot \in Pane!Dirs
  BY DEF Start, preflightVars, generated, Pane!ZshFile, PaneInv, Pane!TypeOK, StageInv
<1>2. /\ stage' = "prompt" \/ stage' \in {".zprofile", ".zshrc", ".zlogin"}
      /\ stage' \in {".zprofile", ".zlogin"} => scene.login
  BY <1>1, SceneFacts DEF Pane!NextZsh, ZshFiles, PaneInv
<1>3. \A e \in Pane!Environments : \A dir \in Pane!Dirs :
        /\ [e EXCEPT !.zdotdir = dir] \in Pane!Environments
        /\ [e EXCEPT !.userZdotdir = "unset", !.zdotdir = "shim"] \in Pane!Environments
        /\ Pane!Shown(dir) \in Pane!Dirs /\ "shim" \in Pane!Dirs
  BY DEF Pane!Environments, Pane!Dirs, Pane!Shown
<1>4. CASE Pane!ZshEnv
  <2>1. env' \in Pane!Environments
    BY <1>1, <1>3, <1>4, PathFields DEF Pane!ZshEnv
  <2>2. zdot' \in Pane!Dirs
    BY <1>1, <1>4 DEF Pane!ZshEnv, Pane!Shown, Pane!Environments, Pane!Dirs
  <2> QED
    BY <1>1, <1>2, <2>1, <2>2
<1>5. CASE Pane!ZshShim(f)
  <2>1. env' \in Pane!Environments
    <3>1. CASE Pane!Finalizes(f)
      <4>1. [env EXCEPT !.zdotdir = Pane!Shown(zdot)] \in Pane!Environments
        BY <1>1, <1>3
      <4> QED
        BY <1>5, <3>1, <4>1, PathFields DEF Pane!ZshShim
    <3>2. CASE ~Pane!Finalizes(f)
      <4>1. PICK e \in Pane!UserPath(env) : env' = [e EXCEPT !.zdotdir = "shim"]
        BY <1>5, <3>2 DEF Pane!ZshShim
      <4>2. e \in Pane!Environments
        BY <1>1, PathFields
      <4> QED
        BY <4>1, <4>2 DEF Pane!Environments, Pane!Dirs
    <3> QED
      BY <3>1, <3>2
  <2>2. zdot' \in Pane!Dirs
    BY <1>1, <1>5 DEF Pane!ZshShim, Pane!Dirs
  <2> QED
    BY <1>1, <1>2, <2>1, <2>2
<1>6. CASE Pane!ZshNative(f)
  <2>1. env' \in Pane!Environments
    BY <1>1, <1>6, PathFields DEF Pane!ZshNative
  <2> QED
    BY <1>1, <1>2, <1>6, <2>1 DEF Pane!ZshNative
<1> QED
  BY <1>4, <1>5, <1>6 DEF Pane!ZshFile

\* .zshenv finds the user's directory.
LEMMA QuietZshEnv ==
  ASSUME PaneInv, Start, Pane!ZshFile(".zshenv"), quiet
  PROVE  ZshStage'
<1>1. /\ stage = ".zshenv" /\ kind = "zsh" /\ FirstStage = ".zshenv"
      /\ stage' = IF scene.login THEN ".zprofile" ELSE ".zshrc"
      /\ UNCHANGED <<scene, kind, before>> /\ env \in Pane!Environments
  BY ZshShape DEF ZshFiles, Pane!NextZsh, FirstStage, Pane!FirstStage, PaneInv, Pane!TypeOK
<1>2. Clean(before) /\ before \in Pane!Environments /\ ".zshenv" \in files
  BY <1>1, QuietFacts DEF FilesOf, ZshFiles
<1>3. env = [before EXCEPT !.userZdotdir = Pane!RememberedDir(before), !.zdotdir = "shim"] /\ ran = <<>>
  BY <1>1 DEF PaneInv, QuietInv, Pane!Prepared
<1>4. /\ env.zdotdir = "shim" /\ env.userZdotdir = Pane!FirstDir /\ env.env = before.env
      /\ env.userEnv = before.userEnv /\ env.login = before.login
      /\ Pane!FirstDir \in {"home", "custom", "moved"}
  BY <1>2, <1>3, QuietDirs DEF Pane!Environments
<1>5. Pane!ZshEnv
  BY <1>2, <1>4 DEF Pane!ZshFile
<1>6. /\ env'.zdotdir = "shim" /\ env'.userZdotdir = "unset" /\ env'.env = env.env
      /\ env'.userEnv = env.userEnv /\ env'.login = env.login
  <2>1. PICK e \in Pane!UserPath(env) : env' = [e EXCEPT !.userZdotdir = "unset", !.zdotdir = "shim"]
    BY <1>5 DEF Pane!ZshEnv
  <2> QED
    BY <1>1, <2>1, PathFields DEF Pane!Environments
<1>7. zdot' = Pane!LaterDir
  BY <1>4, <1>5, SceneFacts DEF Pane!ZshEnv, Pane!LaterDir, Pane!Shown, PaneInv
<1>8. ran' = <<<<".zshenv", Pane!FirstDir>>>>
  BY <1>2, <1>3, <1>4, <1>5, QuietDirs, Joining DEF Pane!ZshEnv, Pane!Ran
<1>9. Pane!FirstDir' = Pane!FirstDir /\ Pane!LaterDir' = Pane!LaterDir
  BY <1>1 DEF Pane!FirstDir, Pane!LaterDir
<1> QED
  BY <1>1, <1>4, <1>6, <1>7, <1>8, <1>9 DEF ZshStage

\* The later files run from there, and the last one gives ZDOTDIR back.
LEMMA QuietZshShim ==
  ASSUME PaneInv, Start, NEW f \in {".zprofile", ".zshrc", ".zlogin"}, Pane!ZshFile(f), quiet
  PROVE  IF stage' = "prompt" THEN Done' ELSE ZshStage'
<1>1. /\ stage = f /\ kind = "zsh" /\ stage' = Pane!NextZsh(f) /\ scene.login \in BOOLEAN
      /\ UNCHANGED <<scene, kind, before>> /\ env \in Pane!Environments
      /\ env' \in Pane!Environments
      /\ f \in {".zprofile", ".zlogin"} => scene.login
  BY ZshShape, SceneFacts DEF ZshFiles, PaneInv, Pane!TypeOK, StageInv
<1>2. Clean(before) /\ before \in Pane!Environments /\ f \in files
  BY <1>1, QuietFacts DEF FilesOf, ZshFiles
<1>3. ZshStage
  BY <1>1 DEF PaneInv, QuietInv
<1>4. Pane!ZshShim(f)
  BY <1>2, <1>3 DEF Pane!ZshFile, ZshStage
<1>5. ran' = ran \o <<<<f, Pane!LaterDir>>>>
  BY <1>2, <1>3, <1>4, QuietDirs, ZenonT(60) DEF Pane!ZshShim, Pane!Ran, ZshStage
<1>6. Pane!FirstDir' = Pane!FirstDir /\ Pane!LaterDir' = Pane!LaterDir
  BY <1>1 DEF Pane!FirstDir, Pane!LaterDir
<1>7. stage' = "prompt" <=> Pane!Finalizes(f)
  BY <1>1 DEF Pane!NextZsh, Pane!Finalizes
<1>8. CASE Pane!Finalizes(f)
  <2>1. env' = Pane!Asserted([env EXCEPT !.zdotdir = Pane!Shown(zdot)])
    BY <1>4, <1>8 DEF Pane!ZshShim
  <2>2. [env EXCEPT !.zdotdir = Pane!Shown(zdot)] \in Pane!Environments
    BY <1>1, <1>2, <1>3, QuietDirs DEF Pane!Environments, Pane!Dirs, Pane!Shown, ZshStage
  <2>3. /\ env'.zdotdir = Pane!Shown(Pane!LaterDir) /\ env'.userZdotdir = "unset"
        /\ env'.env = before.env /\ env'.userEnv = before.userEnv /\ env'.login = before.login
        /\ env'.path = "first"
    BY <1>1, <1>3, <2>1, <2>2, PathFields DEF ZshStage, Pane!Environments
  <2>4. Pane!UsualEnv' = IF scene.zshenvMoves THEN [before EXCEPT !.zdotdir = "moved"] ELSE before
    BY <1>1 DEF Pane!UsualEnv
  <2>5. ran' = Pane!UsualFiles'
    <3>1. Pane!UsualFiles' =
            IF scene.login
            THEN <<<<".zshenv", Pane!FirstDir>>, <<".zprofile", Pane!LaterDir>>,
                   <<".zshrc", Pane!LaterDir>>, <<".zlogin", Pane!LaterDir>>>>
            ELSE <<<<".zshenv", Pane!FirstDir>>, <<".zshrc", Pane!LaterDir>>>>
      BY <1>1, <1>6 DEF Pane!UsualFiles
    <3>2. CASE scene.login
      <4>1. f = ".zlogin"
        BY <1>8, <3>2 DEF Pane!Finalizes
      <4>2. ran = <<<<".zshenv", Pane!FirstDir>>, <<".zprofile", Pane!LaterDir>>,
                    <<".zshrc", Pane!LaterDir>>>>
        BY <1>1, <1>3, <4>1 DEF ZshStage
      <4>0. \A a, b, c, d : <<a, b, c>> \o <<d>> = <<a, b, c, d>>
        BY Joining
      <4>3. ran' = <<<<".zshenv", Pane!FirstDir>>, <<".zprofile", Pane!LaterDir>>,
                    <<".zshrc", Pane!LaterDir>>>> \o <<<<".zlogin", Pane!LaterDir>>>>
        BY <1>5, <4>1, <4>2
      <4>4. ran' = <<<<".zshenv", Pane!FirstDir>>, <<".zprofile", Pane!LaterDir>>,
                    <<".zshrc", Pane!LaterDir>>, <<".zlogin", Pane!LaterDir>>>>
        BY <4>0, <4>3
      <4> QED
        BY <3>1, <3>2, <4>4
    <3>3. CASE ~scene.login
      <4>1. f = ".zshrc"
        BY <1>1, <1>8, <3>3 DEF Pane!Finalizes
      <4>2. ran = <<<<".zshenv", Pane!FirstDir>>>>
        BY <1>1, <1>3, <3>3, <4>1 DEF ZshStage
      <4> QED
        BY <1>5, <3>1, <3>3, <4>1, <4>2, Joining
    <3> QED
      BY <3>2, <3>3
  <2>6. CASE scene.zshenvMoves
    <3> DEFINE u == [before EXCEPT !.zdotdir = "moved"]
    <3>1. /\ u \in Pane!Environments /\ u.zdotdir = "moved" /\ u.userZdotdir = before.userZdotdir
          /\ u.env = before.env /\ u.userEnv = before.userEnv /\ u.login = before.login
      BY <1>2 DEF Pane!Environments, Pane!Dirs
    <3>2. Pane!UsualEnv' = u /\ env'.zdotdir = "moved"
      BY <1>2, <2>3, <2>4, <2>6, QuietDirs
    <3> HIDE DEF u
    <3>3. Clean(u) /\ before.userZdotdir = "unset"
      BY <1>2, <3>1 DEF Clean
    <3>4. Done'
      <4>1. /\ env'.zdotdir = u.zdotdir /\ env'.userZdotdir = u.userZdotdir
            /\ env'.env = u.env /\ env'.userEnv = u.userEnv /\ env'.login = u.login
            /\ kind # "unknown" => env'.path = "first"
        BY <2>3, <3>1, <3>2, <3>3
      <4> QED
        BY <1>1, <2>5, <3>1, <3>2, <3>3, <4>1, DoneAsUsual
    <3> QED
      BY <1>7, <1>8, <3>4
  <2>7. CASE ~scene.zshenvMoves
    <3>1. env'.zdotdir = before.zdotdir /\ before.userZdotdir = "unset" /\ Pane!UsualEnv' = before
      BY <1>2, <2>3, <2>4, <2>7, QuietDirs DEF Clean
    <3>2. Done'
      <4>1. /\ env'.userZdotdir = before.userZdotdir
            /\ env'.env = before.env /\ env'.userEnv = before.userEnv /\ env'.login = before.login
            /\ kind # "unknown" => env'.path = "first"
        BY <2>3, <3>1
      <4> QED
        BY <1>1, <1>2, <2>5, <3>1, <4>1, DoneAsUsual
    <3> QED
      BY <1>7, <1>8, <3>2
  <2> QED
    BY <2>6, <2>7
<1>9. CASE ~Pane!Finalizes(f)
  <2>1. PICK e \in Pane!UserPath(env) : env' = [e EXCEPT !.zdotdir = "shim"]
    BY <1>4, <1>9 DEF Pane!ZshShim
  <2>2. /\ env'.zdotdir = "shim" /\ env'.userZdotdir = env.userZdotdir /\ env'.env = env.env
        /\ env'.userEnv = env.userEnv /\ env'.login = env.login
    BY <1>1, <2>1, PathFields DEF Pane!Environments
  <2>3. zdot' = zdot
    BY <1>4, <1>9 DEF Pane!ZshShim
  <2>4. /\ scene.login
        /\ \/ f = ".zprofile" /\ stage' = ".zshrc"
           \/ f = ".zshrc" /\ stage' = ".zlogin"
    <3>1. f # ".zlogin" /\ (f = ".zshrc" => scene.login)
      BY <1>9 DEF Pane!Finalizes
    <3>2. CASE f = ".zprofile"
      BY <1>1, <3>2 DEF Pane!NextZsh
    <3>3. CASE f = ".zshrc"
      BY <1>1, <3>1, <3>3 DEF Pane!NextZsh
    <3> QED
      BY <3>1, <3>2, <3>3
  <2>5. ran' = IF f = ".zprofile"
               THEN <<<<".zshenv", Pane!FirstDir>>, <<".zprofile", Pane!LaterDir>>>>
               ELSE <<<<".zshenv", Pane!FirstDir>>, <<".zprofile", Pane!LaterDir>>,
                      <<".zshrc", Pane!LaterDir>>>>
    <3>1. CASE f = ".zprofile"
      BY <1>1, <1>3, <1>5, <3>1, Joining DEF ZshStage
    <3>2. CASE f = ".zshrc"
      <4>1. ran = <<<<".zshenv", Pane!FirstDir>>, <<".zprofile", Pane!LaterDir>>>>
        BY <1>1, <1>3, <2>4, <3>2 DEF ZshStage
      <4>2. ran' = <<<<".zshenv", Pane!FirstDir>>, <<".zprofile", Pane!LaterDir>>>>
                     \o <<<<".zshrc", Pane!LaterDir>>>>
        BY <1>5, <3>2, <4>1
      <4>3. ran' = <<<<".zshenv", Pane!FirstDir>>, <<".zprofile", Pane!LaterDir>>,
                    <<".zshrc", Pane!LaterDir>>>>
        BY <4>2, Joining, ZenonT(60)
      <4> QED
        BY <3>2, <4>3
    <3> QED
      BY <2>4, <3>1, <3>2
  <2>6. ZshStage'
    BY <1>1, <1>3, <1>6, <2>2, <2>3, <2>4, <2>5 DEF ZshStage
  <2> QED
    BY <1>7, <1>9, <2>6
<1> QED
  BY <1>8, <1>9

\* zsh
LEMMA ZshKeeps ==
  ASSUME PaneInv, PreflightInv', Start, NEW f \in ZshFiles, Pane!ZshFile(f)
  PROVE  PaneInv'
<1>1. CASE stage' = "prompt"
  <2>1. quiet => Done'
    BY <1>1, ZshShape, QuietZshShim DEF ZshFiles, Pane!NextZsh
  <2>2. stage \notin {"none", "prompt"}
    BY ZshShape DEF ZshFiles
  <2> QED
    BY <1>1, <2>1, <2>2, ZshShape, Finishing
<1>2. CASE stage' # "prompt"
  <2>1. quiet => ZshStage'
    BY <1>2, QuietZshEnv, QuietZshShim DEF ZshFiles
  <2>2. stage \in ZshFiles
    BY ZshShape
  <2> QED
    BY <1>2, <2>1, <2>2, ZshShape, ZshGoesOn
<1> QED
  BY <1>1, <1>2

-----------------------------------------------------------------------------
(* What follows from it. *)

\* Every step keeps the invariant.
LEMMA PaneStepInv == PaneInv /\ [Next]_vars => PaneInv'
<1> SUFFICES ASSUME PaneInv, [Next]_vars PROVE PaneInv'
  OBVIOUS
<1>1. PreflightInv'
  BY PreflightStepInv DEF PaneInv
<1>2. CASE Open
  BY <1>1, <1>2, OpenKeeps
<1>3. CASE Start
  BY <1>1, <1>3, BashKeeps, FishKeeps, OtherKeeps, PosixLoginKeeps, PosixEnvKeeps, ZshKeeps
     DEF Start, Pane!Startup, ZshFiles
<1>4. CASE (\E p \in Procs : Command(p)) \/ Edit \/ UNCHANGED vars
  BY <1>1, <1>4, CommandsKeep
<1> QED
  BY <1>2, <1>3, <1>4 DEF Next

\* The variables of preflights and panes keep their types.
THEOREM PanesTypeCorrect == Spec => []TypeOK
<1>1. Init => PaneInv
  BY PaneInitInv
<1>2. PaneInv => TypeOK
  BY DEF PaneInv, PreflightInv, TypeOK
<1> QED
  BY <1>1, <1>2, PaneStepInv, PTL DEF Spec

\* A pane no preflight disturbed reaches its prompt as without Familiar, with
\* the runtime first on PATH, on every machine, after every history of panes and
\* preflights.
THEOREM QuietPanesAreReady == Spec => []PaneReady
<1>1. Init => PaneInv
  BY PaneInitInv
<1>2. PaneInv => PaneReady
  BY DEF PaneInv, QuietInv, Done, PaneReady, AtPrompt
<1> QED
  BY <1>1, <1>2, PaneStepInv, PTL DEF Spec
=============================================================================
