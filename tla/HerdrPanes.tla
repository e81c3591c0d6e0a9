----------------------------- MODULE HerdrPanes -----------------------------
(***************************************************************************)
(* Panes that start while preflights remove and rewrite the files they     *)
(* read: Preflight and PaneShell on one state directory.                   *)
(*                                                                         *)
(* A launch is quiet when the startup files were settled and no preflight  *)
(* ran before the prompt, and when it was given no environment of a pane   *)
(* that was not.  What other panes do is the same, so one pane at a time,  *)
(* opened again and again, is enough.                                      *)
(***************************************************************************)
EXTENDS Preflight

\* The server inherits a ZDOTDIR and an ENV of the user's, or none.
ASSUME SceneAssumption ==
  \A s \in Scenes : /\ {s.login, s.zshenvMoves, s.profileSetsEnv} \subseteq BOOLEAN
                    /\ s.zdotdir \in {"unset", "custom"} /\ s.env \in {"unset", "user"}

VARIABLES stage, kind, env, before, zdot, ran, launched,  \* PaneShell
          quiet  \* history: the launch was quiet, and those that made its environment

Pane == INSTANCE PaneShell

paneVars == <<stage, kind, env, before, zdot, ran, launched>>
vars == <<preflightVars, paneVars, quiet>>

TypeOK == PreflightTypeOK /\ Pane!TypeOK /\ quiet \in BOOLEAN

Init == PreflightInit /\ Pane!Init /\ quiet = TRUE

Command(p) ==
  /\ Begin(p) \/ PreflightStep(p) \/ Fail(p)
  /\ quiet' = (quiet /\ stage \in {"none", "prompt"})
  /\ UNCHANGED paneVars

Open ==
  /\ Pane!Launch
  /\ quiet' = ((quiet \/ before' = Pane!ServerEnv) /\ settled /\ \A p \in Procs : ~Active(p))
  /\ UNCHANGED preflightVars

Start == Pane!Startup /\ UNCHANGED <<preflightVars, quiet>>

Edit == EditConfig /\ UNCHANGED <<paneVars, quiet>>

Next == (\E p \in Procs : Command(p)) \/ Open \/ Start \/ Edit

Spec == Init /\ [][Next]_vars

-----------------------------------------------------------------------------
AtPrompt == stage = "prompt" /\ quiet

\* A login shell of the sh family whose ~/.profile sets ENV.
MovesEnv == kind = "posix" /\ scene.login /\ scene.profileSetsEnv

\* "Ordering is the whole point: user rc first, Familiar PATH assertion last"
\* (paneshell.go:22).  At the first prompt the runtime comes first on PATH, the
\* user's own startup files have run in the shell's order, and ZDOTDIR and ENV
\* are what they would be, so that a pane opened from this one is the same.
PaneReady ==
  AtPrompt /\ ~MovesEnv =>
    /\ kind # "unknown" => env.path = "first"
    /\ Pane!AsUsual

\* "as the very last step, prepends runtime/current/bin to PATH so a bare pi
\* resolves to the activated runtime no matter what the startup files did"
\* (README.md:216-218), for every shell but an unknown one.
PathAsserted == AtPrompt /\ kind # "unknown" => env.path = "first"
=============================================================================
