# A formal model of familiar-fleet

TLA+ modules of the parts of `familiar-fleet` where interleavings, crashes,
timeouts and lost processes decide whether it works, TLC configurations that check
them on small instances, and proofs for every size of the parts that matter most.
Everything is written from the Go source; line numbers below refer to it.

## 1. The system

`familiar-fleet` is a command line program. Every command is a process of its own;
several may run on one node at the same time, and what they share is the state
directory, the machine (ports, processes) and two servers: Herdr locally and the
rendezvous remotely. There is no daemon and no lock.

| Part | Source | State it keeps | Operations | What is hard |
| --- | --- | --- | --- | --- |
| runtime store | `internal/runtime/store.go` | symlinks `current`, `previous`; `applied.json`; `gcroots/` | `Activate`, `Rollback`, `RegisterGCRoot`, `PruneGCRoots`, `RecordApplied`, `Build`, `Validate`, `Smoke` | crash between renames; two processes; garbage collection |
| runtime applier | `internal/client/runtimeapply.go` | none | `Apply`, `TrueUp` | a skip decided from state that may be stale; errors after the switch |
| Herdr session | `internal/client/herdrsession.go`, `supervise.go` | one named Herdr server; per invocation the child and the belief to own it | ensure, wait, cleanup, attach, supervise, stop | ownership is inferred; a status call that fails looks like "not running" |
| tunnel and callback sshd | `supervise.go`, `config.go` | `sshd_config`, a loopback port, the reverse port at the rendezvous | `startSSHD`, `tunnelLoop`, `backoff`, `RunTunnel`, `child.stop` | port picked and bound at different times; shared file; orphans |
| browser connect | `oauth.go`, `cmd/familiar-fleet/main.go` | channels, flags, the token variable | `Connect`, the `/callback` and `/enroll` handlers | several goroutines, one timeout, one irreversible POST |
| keys and enrollment state | `enroll.go`, `state.go`, `main.go` | two key pairs, `state.json` | `EnsureKey`, `Enroll`, `LoadState`, `SaveState` | crash between files; two processes enrolling |
| Herdr preflight | `herdrenv.go` | generated launcher, profile, `herdr-config.toml` | `PrepareHerdrEnvironment` | order of checks and writes; readers during a rewrite |
| pane launcher | `paneshell.go` | `pane-shell` and the startup files in `shell/` | `WritePaneShell`; each pane runs them | order of startup files; panes in panes; removed and written again |
| config merge | `paneshell.go` | none | `MergeHerdrConfig` | TOML read as raw lines, whatever value they are in |
| Tiamat inputs, runtime descriptor, validation | `tiamat.go`, `runtimedesc.go`, `state.go` | none | predicates | none of them concurrent |

How they interact: an interactive start and `familiar-fleet herdr` first true the
store up to the enrolled installable (`main.go:193`), then run the preflight
(`main.go:200`), then ensure the Herdr server; the interactive command goes on to
the sshd, the tunnel and the TUI. `familiar-fleet tunnel` runs sshd and tunnel
alone. `connect` ends with a true-up. Panes and the Herdr server reach the runtime
only through `current`.

What makes each part correct:

- **store**: an untested runtime is never reachable; what the pointers name is never
  collected; the runtime being replaced can be returned to; provenance is true;
  true-ups converge.
- **session**: an invocation stops what it owns and nothing else; the service never
  outlives its session unnoticed; every invocation can be terminated; a reported
  stop is a stop.
- **tunnel**: a start ends; nothing is left running; a dead sshd is an error; the
  tunnel comes back; delays stay within their bounds.
- **keys and enrollment**: key material is never replaced; everything enrolled, and
  what is saved, is the identity on disk; a saved state is not lost to a second
  command; retries settle.
- **preflight**: a misconfigured node generates nothing; what is generated is
  complete and Herdr uses it; the user's settings survive the merge.
- **panes**: the runtime is first on PATH at the prompt, and everything else is as
  without Familiar.
- **connect**: at most one enrollment; success is shown and returned after the save
  only; the token is forgotten; the flow returns.

## 2. The modules

| Module | Models | Checked by |
| --- | --- | --- |
| `RuntimePair` | the abstract promise of the two pointers | `BacksUpBeforeSwitch` of `RuntimeStore` |
| `RuntimeStore` | store and applier | `MCRuntimeStore`: `store_*.cfg` |
| `RuntimeStoreProofs` | theorems about `RuntimeStore` | tlapm |
| `HerdrSession` | Herdr server and the three commands around it | `MCHerdrSession`: `session*.cfg` |
| `HerdrSessionProofs` | theorems about `HerdrSession` | tlapm |
| `OneShotEnrollment` | the abstract promise of `connect` | `ImplementsOneShot` of `ConnectFlow` |
| `ConnectFlow` | `Connect` and its two handlers | `MCConnectFlow`: `connect.cfg` |
| `ConnectFlowProofs` | theorems about `ConnectFlow` | tlapm |
| `Enrollment` | keys, enrollment and the state file | `MCEnrollment`: `enrollment.cfg` |
| `EnrollmentProofs` | theorems about `Enrollment` | tlapm |
| `Tunnel` | callback sshd, reverse tunnel, backoff | `MCTunnel`: `tunnel.cfg` |
| `TunnelProofs` | theorems about `Tunnel` | tlapm |
| `HerdrConfigMerge` | `MergeHerdrConfig`, and what TOML lines mean | used by `Preflight` |
| `HerdrConfigMergeProofs` | theorems about the merge of configs of any length | tlapm |
| `Preflight` | `PrepareHerdrEnvironment`, `WritePaneShell` | used by `HerdrPanes` |
| `PaneShell` | the launcher and the generated startup files at work | used by `HerdrPanes` |
| `HerdrPanes` | panes that start while preflights run | `MCHerdrPanes`: `panes*.cfg` |
| `HerdrPanesProofs`, `PaneReadyProofs` | theorems about `Preflight` and `HerdrPanes` | tlapm |

Operators named as a defect (`RetainsCurrent`, `NoJoin`, ...) stand just above
the definition they are a faulty variant of. Substituting one for the other must
make a property fail; nothing else uses them.

### RuntimeStore

A process holds the local variables of `Apply` and `Rollback` (`inst`, `target`,
`old`, `keep`, `entries`) and a program counter; `current`, `previous`, `applied`,
`roots` and `disk` are what is on disk. Each read, each rename and each removal of a
root is a step, because other processes run between them: `StartApply` reads the
record, `SkipBuild`/`NotSatisfied` read the pointer, `Build`, `Validate`, `Smoke`
and `RegisterGCRoot` follow `Apply`, `ActivateRead`, `SavePrevious` and
`SwitchCurrent` are `Activate`, `PruneCurrent`, `PrunePrevious`, `PruneRoot` and
`PruneDone` are `PruneGCRoots`. `Abort` is an error return or a crash at any call:
both lose the locals and keep the disk. `Collect` and `Provide` are Nix and the
operator.

What is abstracted: a target either starts (`Sound`) or does not, for ever, since a
store output is immutable; a pointer is absent or a symlink, the other file kinds
being errors that change nothing (`Abort`); temporary files left by a crash are
never read again.

`RuntimePair` says what a reader of the pointers may rely on: `active` moves only to
a runtime that starts, and only when the runtime being left is in `backup`.

### HerdrSession

`server` is the invocation whose child is running (or `Orphan`), `compatible` the
verdict of the CLI. `Answers` is `QueryHerdrServer`: the truth, "down" for a failed
or cancelled call, an error for unparseable output (the comment above the function
says the latter is "not running" too; the code returns an error). `Start` chooses
the command; `EnsureQuery`, `Spawn`, `AwaitReady`, `AwaitFails` are
`ensureHerdrServer`; `StartInfrastructure`, `StartTUI`, `Detach`, `LeaveTUI`,
`Cleanup` are `RunInteractive`; `ServiceEnds`, `AdoptedPoll`, `AdoptedStop` are
`RunHerdr`; `StopQuery`, `StopExec`, `StopObserved`, `StopGivesUp` are
`StopHerdrSession`, run by the stop command under its own context and by the others
under a fresh one. Herdr itself is external: at most one server per session, a
second one exits.

### ConnectFlow

`main` is the statement `Connect` waits at; `cb` and `form` the statement of each
request. Channels have capacity one, so a channel is `Empty` or holds a message.
`Cancel` is the five-minute timeout or a signal. The token is a plain variable
written by two goroutines: a handler that reads it while `Connect` clears it may
see a torn string, which ends in a panic that `net/http` recovers (`FormRead`).
Handlers outlive the return of `Connect` until the process exits.

`OneShotEnrollment` has three variables: how often the service enrolled, whether the
state is saved, what the user has been told. `ConnectFlow` maps onto it with the
first two as they are and `told` computed from its result and the pages shown.

### Enrollment

A command is `Start` (`run` finds no saved state), `LookPrivate` and `LookPublic`
(the two `Lstat` of `EnsureKey`, between which another process may write), `Keygen`,
`WritePrivate`, `OpenPublic`, `ClosePublic` (ssh-keygen, external, which refuses an
existing private file when it cannot ask), `ReadPublic`, twice over for the two
pairs, then `PostAnswered` or `PostFails` (with the machine enrolled or not),
`Finalize` or `HostKeyRefused`, and `TrueUp` for `connect`. `Crash` may come anywhere.
How `connect` gets to the POST is `ConnectFlow`'s matter: here it is one step that
happens at most once per command, which is what `OneShotEnrollment` promises.

A key is known by who generated it. Two ssh-keygen of one pair at once can mix their
files; the history variable `clash` names these pairs, and `OneIdentity` and
`KeyMaterialKept` are about all others. `alone` remembers that no other command has
run since a command began.

What is abstracted: permissions and file kinds are errors (`Crash` covers a failing
call); a removed state may be removed `MaxRemovals` times.

### HerdrConfigMerge, Preflight, PaneShell, HerdrPanes

`Preflight` is `PrepareHerdrEnvironment` step by step: `Check` (runtime, Tiamat URL and
token, shell: all before anything is generated), `ListShell`, `RemoveFile`, `RemoveDir`
(`os.RemoveAll`), `MakeDir`, `WriteFile` in any order (Go's map order), `WriteProfile`,
`ReadConfig`, `WriteConfig` with `HerdrConfigMerge!Merge`, `CheckConfig` on what the
file holds by then, `Serve`. `Fail` may come anywhere, `EditConfig` is the user.
`HerdrConfigMerge` has two views of the same lines. The merge is the loop over their text
that it is: `LooksLikeTerminal` and `LooksManaged` compare what stands between the
brackets or before the equals sign (`tomlTableHeader`, `tomlKey`), on every line and
quotes and all. What the lines mean is the TOML reader's view: a line carries how it
changes what is open (`turns`), a multi-line string or array or nothing, so `OpenAfter`
says which lines stand inside of a value and are no header or key whatever they look
like. `PathOf` says which setting a line gives a value, down to the element of an array
of tables, `Valid` when a reader takes the file, `Kept` which lines are not the merge's,
with those of their values.

`PaneShell` follows a pane from the launcher to its first prompt. The environment is a
record: where `runtime/current/bin` is on PATH, `ZDOTDIR`, `ENV`, and what the launcher
remembers of the latter two. `Prepared` is what the launcher exports for each shell
family; `BashRc`, `FishConfig`, `PosixLogin`, `PosixEnv`, `ZshEnv`, `ZshShim`,
`ZshNative` are the startup files in the order the shells read them, each looked up
when the shell gets there. A file of the user's may do anything to PATH, move `ZDOTDIR`
(`.zshenv`) or set `ENV` (`~/.profile`). A pane may be opened from the prompt of
another. `UsualFiles` and `UsualEnv` say what the shell would have done without
Familiar; `PaneReady` compares.

`HerdrPanes` composes the two over the shared `launcher` and `files`. A launch is
*quiet* when one preflight alone wrote the startup files last and none ran until the
prompt; `PaneReady` is about quiet launches, also of panes opened from quiet panes.
Of others nothing can be promised: the directory is removed under their feet.

A *scene* is one machine with its user and its bounds; `scene` never changes.

### Tunnel

`pc` is the invocation, `loop` its tunnel goroutine; `sshd` and `ssh` are its two
children, `listener` says who listens on a port and `remote` which connection has the
reverse port. `PickPort`, `WriteRuntimeConfig`, `SpawnSSHD`, `SSHDReady`,
`SSHDExits`, `SSHDTimeout`, `StartCancelled` are `startSSHD`; `EndRun`, `StopDaemon`,
`Join` are `RunTunnel` and the infrastructure part of `RunInteractive`, where the end
of the TUI plays the part of the signal; `StartSSH`, `SSHStartFails`, `SSHExits`,
`StopSSH`, `Redial`, `LoopEnds` are `tunnelLoop`. Time appears only as "the timer may
fire" and as the delay bounds of `backoff`, in milliseconds. A tunnel that was up for
two minutes may reset its attempts, so `SSHExits` chooses.

## 3. What the runs show

| Run | Question | Instance |
| --- | --- | --- |
| `store_single` | one operation at a time: roots, provenance, refinement of `RuntimePair`, convergence | 1 process, 4 installables, 4 targets, one that does not start |
| `store_concurrent` | two processes: untested runtimes, provenance, skips | 2 processes, 2 installables, 3 targets |
| `store_crash_pair` | is `Activate` all or nothing? No | 1 process |
| `store_roots_race` | are both pointers retained when nothing is under way? No | 2 processes |
| `session` | teardown, supervision, termination | 2 invocations, failing status calls, 1 kill, 1 stray server |
| `session_ownership` | does cleanup follow ownership? No | 2 invocations |
| `session_killed_call` | is a killed status call taken for a stopped session? Yes | 2 invocations |
| `connect` | one enrollment, durable success, token, return; refinement of `OneShotEnrollment` | 2 callbacks, 3 forms |
| `tunnel` | starts end, errors surface, nothing left behind, termination, reconnection, delays | 1 invocation at a time, 2 ports, 5 attempts, 7 backoff steps, 1 kill |
| `enrollment` | one identity, key material, races on the state, retries | 2 commands, crashes anywhere, 1 removed state |
| `panes` | side effects, completeness, the merge, PATH and the user's startup files | 2 commands, 5 shells, all configs up to 3 lines, 216 with a multi-line value, 2 launches |
| `panes_posix_login` | is PATH asserted whatever the startup files do? Not in a login `sh` | 1 command, 1 launch |

### The disagreements

1. *Activate is not crash-atomic* (`store.go:270`). The comment at `store.go:250`
   promises pointers "either untouched or fully updated". Killed between the two
   renames, both name the same runtime; the last good one is gone and its root is
   pruned next, and `rollback` then succeeds without doing anything. What does hold
   is weaker and proved: `RuntimePair`.
2. *Prune against register* (`store.go:383`). One apply registers a root; another,
   pruning, does not find the target under a pointer and removes the root; the first
   activates. The active runtime is then unprotected, and later true-ups skip.
3. *Ownership by observation* (`supervise.go:176`). Readiness is asked of the
   session, not of the child. Of two simultaneous starts the one that lost takes the
   winner's server for its own, and stops it when its tunnel or TUI fails.
4. *A killed status call is taken for an answer* (`herdrsession.go:44`). The first status
   call of an interrupted `familiar-fleet stop` (`herdrsession.go:61`) reads as "not
   running", and the command reports success for a running session; that is TLC's trace.
   By the same rule the poll of an adopting service dies with the service's context: it
   returns an error and the server stays.
5. *ENV of a login shell* (`paneshell.go:209`). `sh -l` runs `~/.profile` after the
   launcher has pointed `ENV` at the generated file; a profile that sets `ENV` wins, and
   PATH is never asserted. `PaneReady` leaves these panes out (`MovesEnv`).
6. *A `[terminal]` inside of a string* (`paneshell.go:380`). If the only line that looks
   like the header `[terminal]` stands in a multi-line value, the merge puts its keys
   there and, having found its header, appends no table. When the value is a string the
   file is still valid TOML and passes `herdr config check`, and Herdr does not use the
   launcher: the user's `default_shell`, if any, or Herdr's own choice applies. The comment
   at `herdrenv.go:193` says that the check is there because a bad merge would make Herdr
   "fall back to $SHELL without the Familiar PATH assertion", and the one at
   `paneshell.go:357` speaks of keys applied "inside its [terminal] table". There is no
   run of its own for this one: the properties `LauncherGoverns` and `ServedConfigGoverns`
   name the exception (`ShowsTerminal`), and without it TLC refutes both on the `panes`
   instance, with no more than `theme = """`, `[terminal]` and `"""`.

### Bounds

- Of the store, two processes are enough for the races above and give every pair of steps of the
  same or different operations; the properties that hold are proved for any number
  where a proof exists (section 4).
- The installables of `store_single` are one of each kind the code tells apart:
  pinned flake, unpinned flake with a good and a bad output, a prebuilt store path, a
  plain directory. `store_concurrent` keeps the first two, which differ in target.
- `MaxKills` and `MaxStrays` bound process kills and abandoned servers: one of each
  suffices to leave an orphan in every state, a second adds nothing new to what an
  invocation can observe, since at most one server holds the session.
- `ConnectFlow` has no unbounded state. Three forms: one that is refused, two that
  race. Two callbacks: the one that counts and the one that is told it is late.
- `MaxTries` is five as in the code; `MaxAttempt` is six, since `backoff` treats
  attempts after the fifth alike. One invocation at a time: what two do to each other
  through `sshd_config`, ports and the reverse port is met here as programs that take a
  port and connections that hold the reverse port, and `NothingLeftBehind` is proved
  for any number of overlapping invocations. One sshd reading the `sshd_config` of
  another is met by the theorems only.
- Two commands suffice for `Enrollment`: every race there is between two, and a third
  can only repeat a step of one of them. `MaxRemovals` is one: a state that is saved,
  removed and saved again. The safety properties are proved for any number.
- `panes` gives each question its scenes. The merge gets every config of up to three
  lines out of ten, merged and merged again: a header, a managed key and another line
  is what it takes to put a key in the wrong table. Values of several lines are a string,
  an array and a string for a managed key, with one inner line each, which looks like a
  header, a managed key, a string in an array or the end of the value, under no header,
  `[terminal]` or another, and with a header, a managed key or an unended string after it.
  The theorems are about any length. Overlap gets two commands with
  different shells and an edit between them. Each shell family gets two preflights, of
  it and of another one, and two launches, so that a pane is opened from a pane, for
  every combination of login, ZDOTDIR, ENV and startup files that change them. More
  launches add nothing: after the second the environment is that of the first again,
  which is the second half of `PaneReady` and is proved.

### Fairness

- `RuntimeStore`: an operation that runs continues (`WF Step`), and each process
  starts true-ups again and again (`WF StartApply(Desired)`), which is what the
  service manager and the user do. `Converges` assumes that errors, crashes and
  other operations cease at some time; no fairness is put on success.
- `HerdrSession`: invocations continue; a server that is starting comes up or exits.
  Nothing makes the user leave the TUI, a server crash or a signal arrive.
- `ConnectFlow`: `Connect` continues, so does whichever callback took the flag
  (`CallbackSteps`), and the five-minute timer fires (`WF Cancel`). The browser never
  has to do anything, and nothing is asked of the forms: the timer ends the waits for
  them too.
- `Enrollment`: commands continue and the user tries again while there is no saved
  state (`WF`); of unboundedly many POSTs one is answered and of unboundedly many
  finalizes one finds a host key (`SF`). `Settles` assumes that crashes cease. It has
  one exception, which is the code's: a pair that a crash left half written is refused
  for ever.
- `Tunnel`: both goroutines continue, ssh has a connect timeout, and for
  `Reconnects` strong fairness of starting ssh and of being let in: the network and
  the rendezvous work again and again. Dead connections are dropped by the
  rendezvous in the end. An orphaned ssh is not assumed to end; `Reconnects` is
  about the times when none holds the port.

Deadlock is checked in the store, session and tunnel runs. `connect` ends, `enrollment`
has nothing to do once a state is saved that may not be removed again, and the `panes`
scenes end with their bounds.

## 4. What is proved

For every value of the constants that satisfies the assumptions of the module.

`RuntimeStoreProofs`, from `StoreAssumption` (the outputs of an installable are
targets, those of a flake are in the Nix store, the tested ones are targets):

- `TypeCorrect`, `OnlySoundRuntimes`, `TruthfulProvenance`, `SkipsAreSound`, for any
  number of processes. The inductive invariant `SafeInv` adds to the properties what
  the locals hold at each call (`LocalInv`): after the smoke test the target is sound
  and an output of the installable; what `Activate` read from `current` is sound.
  Without it a pointer could be given anything.
- Two processes break the other promises (disagreement 2), and the theorems name for
  each the one overlap that does. They are about behaviours of any number of processes
  in which it does not occur, that is, what a lock in the code would have to exclude:
  - `PointersRetained` needs `PrunesApart`: nobody prunes while another process is in
    `Activate`. `RootsInv`: a target, and what `Activate` read from `current`, is
    retained until the switch, and the prune keeps what both pointers name.
  - `RecordFollowsSwitch` needs `SwitchesApart`: nobody switches while another apply
    has not recorded its own switch yet (`ActiveInv`).
  - `StoreImplementsPair` needs `MovesApart`: one process at a time is between reading
    `current` and switching it. `MovesInv`: `current` has not moved since, and
    `previous` holds it by the time of the switch.
  - `OnlyACrashUnpairs` needs `MovesApart` and that nothing fails between the two
    renames; the pointers then differ whenever all processes rest. That failure is
    disagreement 1.
  - `SuccessMeansActive` needs `SwitchesApart` too: an apply that reports success, by
    a skip or by its record, leaves a tested output of its own installable active.
  - `OneProcessSuffices`: a single process overlaps with nobody.

`TunnelProofs`, from `TunnelAssumption`:

- `BackoffIsBounded` is about every number of failures, `EveryDelayBounded` about
  every reachable one.
- `TunnelTypeCorrect` and `ReturnsCleanly` hold for any number of invocations.
  `TunnelInv` says that a port or the reverse port is held only by a child that is
  up, that ssh runs only while its loop watches it, and where in the program each
  child can exist.

- `EveryInvocationAdvances`: an invocation has at most `4 * MaxTries + 4` steps before
  it is over (`EndLeft`), and nothing its ports, its sshd or its ssh do adds to them.

`HerdrSessionProofs`: `SessionTypeCorrect` and `OwnServersTornDown` for any number of
invocations. `SessionInv` adds `ChildInv`: an invocation has a child only while it awaits
it or later when it believes that it owns the server, and it is that belief which
sends every one of its returns through the stop; and `StopOnly`: a stop command does
nothing else. `OwnershipHolds` delimits disagreement 3: with truthful status calls, and
no other server starting while an interactive invocation starts or owns one
(`StartsApart`), it stops only what it spawned. `OwnershipInv` is what it knows then: it
stops only when it believes to be the owner, and the session has no server but its own.

`ConnectFlowProofs`: all six safety properties and the refinement of
`OneShotEnrollment`, for any number of requests. `FlowInv` says that at most one form
is past the swap and only after the authentication is complete (`FormInv`), at which of
its points the state is saved, also when there is a message in the channel (`SaveInv`),
what the flow returns and why (`ResultInv`), and where the token may be (`TokenInv`).

`EnrollmentProofs`, from `EnrollmentAssumption`: all four safety properties for any
number of commands. `EnrollInv` carries that a command has the tunnel key before it comes to
the host key (`OrderInv`), what the one ssh-keygen of a pair relies on at each of its
steps and that a key held is the key on disk (`KeyInv`), that what the service enrolled
are such keys (`EnrolledInv`), and that a command that is alone would see a state come
(`AloneInv`). `BrokenStays` is about every pair, also one over which two ssh-keygen met:
what a crash left unfinished is neither completed nor replaced by anything that is run
afterwards. `RetryInv` says why: the private file comes first, and no file goes away.

`HerdrConfigMergeProofs`, from `NamesAssumption` and `OpenAssumption` (the managed keys and
`terminal` are names; that nothing is open is not a value that is), about every sequence of lines:

- `ValidMergeGoverns`: whatever the user's config was, if the merged one is valid and
  not every `[terminal]` in it stands inside of a value (`ShowsTerminal`), then the launcher
  is the only `default_shell` in it. Every line that looks like that header has the merge's keys
  under it; where it is one they are settings, and a second value for one of them would
  make the file invalid. Disagreement 6 is what is left out.
- `UnderstoodMergeKeeps`: a valid and `Understood` config becomes a valid one with the
  same other lines, those inside of values too, in order, each with the same table and
  array element, and the launcher governs. `Understood` is spelled out in section 5.
- `MergeIsStable`: `Merge(Merge(c)) = Merge(c)`.

They are inductions over the lines, which the library's theorems cannot be used for
here. `NoneFirst` replaces them: a set of naturals with no least element is empty, by
the well-foundedness of `<`, so a fact about what the loop has after `i` lines is shown
by refuting the first `i` for which it is false. `MergingSteps` gives the loop its
equations in the same way. `FlagsSay` ties the loop's two flags to the headers read so
far, `CopiedAt` says where in the output the line `i` is (`Place`), and `MergedFrom`
that every line there is a copied one or one of the merge's own. `DroppedIsManaged` says
what a dropped line was; with it `OpenAt` shows that after each line of the config the
same value is open as after what the merge made of it, so that `ReadAt` a copied line is
a header, a setting or part of a value as it was, and `PathAt` it keeps its path.

`HerdrPanesProofs`, from `PreflightAssumption`: `PreflightCorrect` is the inductive
invariant itself: at each point of a preflight that runs alone, which files are there
and which are still to come (`ProgressInv`), and that settled files are those of the
launcher (`SettledInv`). `ReadyIsComplete` and `FailsWithoutSideEffects` follow.
`MergeCorrect` is a second inductive invariant, about the configs: once a server can
hand the generated config to its panes it is a merged one, whoever wrote it last, and a
preflight that is alone finds what it merged. With the theorems about the merge it gives
`LauncherAlwaysGoverns` and `MergeAlwaysKeeps`, which are about a preflight that is
alone, and `ServerAlwaysGoverned` and `OwnConfigStays`, which are about all of them.

`PaneReadyProofs`, from `SceneAssumption` as well: `QuietPanesAreReady` for every
scene, shell and number of nested panes. `StageInv` says which shell can be at
which stage; `QuietInv` describes the environment and the user's files run so far at
each stage of a quiet launch, and that the environment it was given, and leaves, is a
clean one (`Clean`): that is what carries over from a pane to the panes opened in it.

### Liveness

All nine liveness properties are theorems as well, for any number of processes,
invocations, requests and commands. A proof counts the steps left to the goal in a
variant (`Ahead`, `StepsLeft`, `EndLeft`, `WaitsLeft`), shows that every step of the
process itself lowers it and that no step of another one raises it, and derives one
leads-to per value from the fairness of the process; the theorem chains them.

| Theorem | Property | Besides fairness and `GuardsOpen` |
| --- | --- | --- |
| `QuietNodesConverge` | `Converges` | `[]SwitchesApart`; the enrolled installable realizes to something; there is a process |
| `TerminatedCommandsEnd`, `ServicesNotice` | `TerminationEnds`, `ServiceNotices` of the session | |
| `TerminatedInvocationsEnd`, `EveryStartEnds` | `TerminationEnds` of the tunnel, `StartEnds` | `MaxTries = 5` |
| `LostSSHDFails`, `AnInvocationThatStaysReconnects` | `SSHDExitFails`, `Reconnects` | |
| `ConnectReturns` | `Returns` | |
| `RetriesSettle` | `Settles` | `RemovalsEnd`, `KeygensEnd`; there is a command |

What these hypotheses are:

- `GuardsOpen`, in each of the five proof modules, says that an action whose named
  guard holds can be taken: `[](guard => ENABLED <<A>>_vars)`. It is true of the
  specification, but `ENABLED` is beyond the provers. TLC evaluates it: a module that
  EXTENDS the proof module and a copy of the run's cfg with `PROPERTY GuardsOpen`
  confirm it on the instances of `store_single`, `store_concurrent`, `session`,
  `tunnel`, `connect` and `enrollment`.
- `MaxTries = 5` is the number in the code (`supervise.go:113`). The bound on an
  invocation's steps is proved for every number; a chain of leads-to of unknown length
  would be an induction over temporal formulas, which the provers do not have.
- `[]SwitchesApart` is the proviso of `RecordFollowsSwitch`. Without it a true-up that
  another process overtook between its switch and its record has first to get through
  its prune before the next one repairs the pointer, and the length of a prune is the
  number of roots: an induction over a finite set, which the provers do not have either.
- `RemovalsEnd` and `KeygensEnd` say that the operator removes finitely many states and
  that, once nothing crashes, no pair has an ssh-keygen at work at all times. The first
  is the bound `MaxRemovals`; the second holds of finitely many commands, as none
  begins an ssh-keygen once the private file is there. Both conclusions would
  be inductions, over a number and over a finite set. TLC confirms both on the `enrollment`
  instance. With them `RetriesSettle` asks nothing of the overlap of commands.
- Two theorems ask that there is a process: with none, nothing would ever be done.

Every property of the passing runs is thus stated by a theorem; what rests on the runs
alone is `GuardsOpen`, `KeygensEnd` and `RemovalsEnd`, and the properties that the
violation runs refute.

## 5. What is not modelled

- Status output and logging; parsing of flags; validation predicates over strings;
  OIDC discovery and the construction of URLs; the runtime descriptor's syntax; the
  choice between the variables and files that provide the Tiamat inputs. They keep no
  state that two actors share, and their unit tests cover them.
- Of the config merge: contents of values, comments and spacing are copied and left out,
  and so are names that go on below a managed key (`default_shell.x`,
  `[terminal.default_shell]`), which Herdr could not use: there a valid file would become
  an invalid one. One comment is not copied but made: `# Managed by familiar-fleet` comes with the managed
  keys, and as the next merge replaces the keys and not the comment, each preflight from
  a pane adds another one. `OwnConfigStable` and `MergeIsStable` are about tables and
  settings.
- `MergeKeepsUser` is about configs that are valid and `Understood`. The others, all of
  them valid TOML, lose or misplace a line or become invalid:
  - lines inside of a multi-line value that look like `[terminal]` or like a managed key
    are dropped, or have the managed keys put after them;
  - a line in a multi-line array that begins with a bracket (`["a", "b"],`) is a header to
    the merge and ends `[terminal]`: a managed key after it is kept, and is then there twice;
  - a header `["terminal"]` or a managed key in quotes is not recognized and defined a
    second time, and of a managed value of several lines only the first line is dropped;
  - a managed key in an array of tables below `[terminal]` is dropped;
    `terminal.default_shell` under another table too; any other dotted `terminal.` key,
    or a plain key `terminal`, at the root, or an array `[[terminal]]`, makes the merged
    config invalid.

  `herdr config check` catches those that become invalid. `LauncherGoverns` covers all of
  them but the `[terminal]` of disagreement 6. TLC finds `MergeKeepsUser` violated when
  any one conjunct of `Understood` is dropped.
- Of the panes: `zsh -c` and other shells that are not interactive; user files other
  than `.zshenv` that move ZDOTDIR, which the generated files do not follow; a
  `.zshenv` that unsets it; a ZDOTDIR that is empty or is `$HOME`, which the launcher
  treats as unset. Directories are made in one step and temporary files left by a
  crash are never read.
- A Herdr server of another version that comes up during `waitHerdrReady`: only the
  first server of the session model may be incompatible.

## 6. Plan

Built, in this order: `RuntimePair`, `RuntimeStore` and its proofs, `HerdrSession`,
`ConnectFlow`, `Tunnel` and its proofs; then `Enrollment`, `OneShotEnrollment`,
`HerdrConfigMerge`, `Preflight`, `PaneShell`, `HerdrPanes`, and proofs for all of them.

What would come next: servers of several versions in `HerdrSession`; overlapping
invocations in the liveness run of `Tunnel`, which needs a coarser model of the
rendezvous to stay small.
