------------------------------- MODULE Tunnel -------------------------------
(***************************************************************************)
(* The callback sshd and the reverse tunnel of `familiar-fleet' and        *)
(* `familiar-fleet tunnel' (internal/client/supervise.go).                 *)
(*                                                                         *)
(* An invocation picks a free port, writes it into the sshd_config that    *)
(* all invocations of the node share, starts sshd and dials the port.      *)
(* Once sshd answers, a goroutine keeps an ssh process with the reverse    *)
(* forward running while the invocation waits for the end.  The port is    *)
(* free when it is picked and may be taken when sshd binds it; the file    *)
(* may be another invocation's when sshd reads it; and the rendezvous      *)
(* gives the enrolled reverse port to one connection at a time.            *)
(*                                                                         *)
(* sshd, ssh, the other programs of the machine and the rendezvous are     *)
(* external.                                                               *)
(***************************************************************************)
EXTENDS Naturals, Sequences

CONSTANTS
  Procs,     \* invocations that may run at the same time
  Ports,     \* loopback ports the kernel may hand out
  None,
  Foreign,   \* a port is held by another program of the machine
  Stale,     \* the reverse port is held by a connection that is dead
  Orphan,    \* it is held by the ssh of an invocation that was killed
  MaxTries,  \* attempts of startSSHD: five in the code
  MaxAttempt, \* bound: failures of the tunnel that are counted; backoff treats
             \* every attempt after the fifth alike
  MaxKills   \* bound: how many invocations are killed outright

ASSUME TunnelAssumption ==
  /\ None \notin Ports
  /\ {None, Foreign, Stale, Orphan} \cap Procs = {}
  /\ None \notin {Foreign, Stale, Orphan}
  /\ Stale # Orphan
  /\ MaxTries \in Nat \ {0} /\ MaxAttempt \in Nat /\ MaxKills \in Nat

VARIABLES
  config,    \* the Port line of sshd_config
  listener,  \* who listens on a port
  remote,    \* which connection holds the reverse port of the node
  kills,
  pc,        \* what an invocation does next
  result,    \* what it will return
  term,      \* it was asked to end: a signal or, once attached, its TUI
  port,      \* the port it picked
  tries,     \* startSSHD: attempts used up
  sshd,      \* its sshd process
  loop,      \* what its tunnelLoop does next
  ssh,       \* its ssh process
  attempt    \* tunnelLoop: failures in a row, as far as backoff tells them apart

machine == <<config, listener>>
daemon  == <<port, tries, sshd>>
tunnel  == <<loop, ssh, attempt>>
vars    == <<config, listener, remote, kills, pc, result, term,
             port, tries, sshd, loop, ssh, attempt>>

\* Not running, or returned nil; returned an error; killed.
Rest     == {"idle", "failed", "killed"}
Starting == {"pick", "write", "spawn", "wait"}
Leaving  == {"stop", "join"}

TypeOK ==
  /\ config \in Ports \cup {None}
  /\ listener \in [Ports -> Procs \cup {None, Foreign}]
  /\ remote \in Procs \cup {None, Stale, Orphan}
  /\ kills \in 0..MaxKills
  /\ pc \in [Procs -> Rest \cup Starting \cup Leaving \cup {"run"}]
  /\ result \in [Procs -> {"idle", "failed"}]
  /\ term \in [Procs -> BOOLEAN]
  /\ port \in [Procs -> Ports \cup {None}]
  /\ tries \in [Procs -> 0..(MaxTries - 1)]
  /\ sshd \in [Procs -> {"none", "starting", "up", "exited"}]
  /\ loop \in [Procs -> {"none", "dial", "watch", "backoff", "done"}]
  /\ ssh \in [Procs -> {"none", "connecting", "up", "exited"}]
  /\ attempt \in [Procs -> 0..MaxAttempt]

Init ==
  /\ config \in Ports \cup {None}
  /\ listener \in [Ports -> {None, Foreign}]
  /\ remote \in {None, Stale}
  /\ kills = 0
  /\ pc = [p \in Procs |-> "idle"]
  /\ result = [p \in Procs |-> "idle"]
  /\ term = [p \in Procs |-> FALSE]
  /\ port = [p \in Procs |-> None]
  /\ tries = [p \in Procs |-> 0]
  /\ sshd = [p \in Procs |-> "none"]
  /\ loop = [p \in Procs |-> "none"]
  /\ ssh = [p \in Procs |-> "none"]
  /\ attempt = [p \in Procs |-> 0]

-----------------------------------------------------------------------------
\* backoff, in milliseconds: the delay is drawn from DelayMin..DelayMax.

Second == 1000
Ceiling == 30 * Second

Least(a, b) == IF a <= b THEN a ELSE b
Base(a)     == Least(<<1, 2, 4, 8, 16, 32>>[Least(a, 5) + 1] * Second, Ceiling)

UncappedJitter(a) == Base(a) \div 5
MaxJitter(a)      == Least(Base(a) \div 5, Ceiling - Base(a))

DelayMin(a) == Base(a)
DelayMax(a) == Base(a) + MaxJitter(a)

-----------------------------------------------------------------------------
\* Going on and leaving.

Goto(p, point) == pc' = [pc EXCEPT ![p] = point]

\* The invocation is gone and its variables with it.
Reset(p, outcome) ==
  /\ Goto(p, outcome)
  /\ result' = [result EXCEPT ![p] = "idle"]
  /\ term' = [term EXCEPT ![p] = FALSE]
  /\ port' = [port EXCEPT ![p] = None]
  /\ tries' = [tries EXCEPT ![p] = 0]
  /\ sshd' = [sshd EXCEPT ![p] = "none"]
  /\ loop' = [loop EXCEPT ![p] = "none"]
  /\ ssh' = [ssh EXCEPT ![p] = "none"]
  /\ attempt' = [attempt EXCEPT ![p] = 0]

\* child.stop on sshd: TERM, a grace period, KILL, and waiting for the exit.
Unlisten(p) == [q \in Ports |-> IF listener[q] = p THEN None ELSE listener[q]]

\* The connection of an ssh that ends is closed, or the rendezvous has yet to
\* notice.
Disconnected(p) == IF remote = p THEN {None, Stale} ELSE {remote}

\* startInfrastructure's context: the invocation's own, cancelled when it leaves.
Cancelled(p) == term[p] \/ pc[p] \in Leaving

-----------------------------------------------------------------------------
\* startSSHD.

Start(p) ==
  /\ pc[p] \in Rest
  /\ Goto(p, "pick")
  /\ UNCHANGED <<machine, remote, kills, result, term, daemon, tunnel>>

\* pickPort: the port is free again as soon as it is picked.
PickPort(p) ==
  /\ pc[p] = "pick"
  /\ \E q \in Ports :
       /\ listener[q] = None
       /\ port' = [port EXCEPT ![p] = q]
  /\ Goto(p, "write")
  /\ UNCHANGED <<machine, remote, kills, result, term, tries, sshd, tunnel>>

WriteRuntimeConfig(p) ==
  /\ pc[p] = "write"
  /\ config' = port[p]
  /\ Goto(p, "spawn")
  /\ UNCHANGED <<listener, remote, kills, result, term, daemon, tunnel>>

SpawnSSHD(p) ==
  /\ pc[p] = "spawn"
  /\ sshd' = [sshd EXCEPT ![p] = "starting"]
  /\ Goto(p, "wait")
  /\ UNCHANGED <<machine, remote, kills, result, term, port, tries, tunnel>>

\* No port, a file that cannot be written or an sshd that cannot be executed
\* is an error at once.
StartFails(p) ==
  /\ pc[p] \in {"pick", "write", "spawn"}
  /\ Reset(p, "failed")
  /\ UNCHANGED <<machine, remote, kills>>

\* Ready once the port answers, whoever answers; the tunnel goroutine starts.
SSHDReady(p) ==
  /\ pc[p] = "wait"
  /\ listener[port[p]] # None
  /\ Goto(p, "run")
  /\ loop' = [loop EXCEPT ![p] = "dial"]
  /\ UNCHANGED <<machine, remote, kills, result, term, daemon, ssh, attempt>>

\* An attempt that fails is followed by another one, MaxTries in all.
RetryForever(p) ==
  /\ Goto(p, "pick")
  /\ port' = [port EXCEPT ![p] = None]
  /\ sshd' = [sshd EXCEPT ![p] = "none"]
  /\ UNCHANGED <<result, term, tries, tunnel>>

OneTooMany(p)   == tries[p] < MaxTries
MoreAttempts(p) == tries[p] < MaxTries - 1

AttemptFails(p) ==
  \/ /\ MoreAttempts(p)
     /\ tries' = [tries EXCEPT ![p] = @ + 1]
     /\ Goto(p, "pick")
     /\ port' = [port EXCEPT ![p] = None]
     /\ sshd' = [sshd EXCEPT ![p] = "none"]
     /\ UNCHANGED <<result, term, tunnel>>
  \/ ~MoreAttempts(p) /\ Reset(p, "failed")

SSHDExits(p) ==
  /\ pc[p] = "wait" /\ sshd[p] = "exited"
  /\ AttemptFails(p)
  /\ UNCHANGED <<machine, remote, kills>>

\* Three seconds are over: sshd is stopped first.
StopSSHD(p) == listener' = Unlisten(p)

SSHDTimeout(p) ==
  /\ pc[p] = "wait"
  /\ StopSSHD(p)
  /\ AttemptFails(p)
  /\ UNCHANGED <<config, remote, kills>>

StartCancelled(p) ==
  /\ pc[p] = "wait" /\ term[p]
  /\ StopSSHD(p)
  /\ Reset(p, "failed")
  /\ UNCHANGED <<config, remote, kills>>

-----------------------------------------------------------------------------
\* RunTunnel, and RunInteractive as far as it concerns its infrastructure.

\* The select: sshd has exited, or the end has come.
EndOnTermOnly(p) == term[p] /\ UNCHANGED result
EndOfRun(p)      == \/ /\ sshd[p] = "exited"
                       /\ result' = [result EXCEPT ![p] = "failed"]
                    \/ term[p] /\ UNCHANGED result

EndRun(p) ==
  /\ pc[p] = "run"
  /\ EndOfRun(p)
  /\ Goto(p, "stop")
  /\ UNCHANGED <<machine, remote, kills, term, daemon, tunnel>>

StopDaemon(p) ==
  /\ pc[p] = "stop"
  /\ StopSSHD(p)
  /\ sshd' = [sshd EXCEPT ![p] = "none"]
  /\ Goto(p, "join")
  /\ UNCHANGED <<config, remote, kills, result, term, port, tries, tunnel>>

\* Only a tunnelLoop that is over lets the invocation return.
NoJoin(p) == TRUE
Joined(p) == loop[p] = "done"

Join(p) ==
  /\ pc[p] = "join"
  /\ Joined(p)
  /\ Reset(p, result[p])
  /\ UNCHANGED <<machine, remote, kills>>

-----------------------------------------------------------------------------
\* tunnelLoop.

Continue(p, point) == loop' = [loop EXCEPT ![p] = point]

LoopEnds(p) ==
  /\ loop[p] \in {"dial", "backoff"}
  /\ Cancelled(p)
  /\ Continue(p, "done")
  /\ UNCHANGED <<machine, remote, kills, pc, result, term, daemon, ssh, attempt>>

\* The next delay is drawn for the current attempt.
BackOff(p, a) ==
  /\ Continue(p, "backoff")
  /\ attempt' = [attempt EXCEPT ![p] = Least(a + 1, MaxAttempt)]

StartSSH(p) ==
  /\ loop[p] = "dial" /\ ~Cancelled(p)
  /\ ssh' = [ssh EXCEPT ![p] = "connecting"]
  /\ Continue(p, "watch")
  /\ UNCHANGED <<machine, remote, kills, pc, result, term, daemon, attempt>>

SSHStartFails(p) ==
  /\ loop[p] = "dial" /\ ~Cancelled(p)
  /\ BackOff(p, attempt[p])
  /\ UNCHANGED <<machine, remote, kills, pc, result, term, daemon, ssh>>

\* A tunnel that has been up for two minutes starts over with the attempts.
SSHExits(p) ==
  /\ loop[p] = "watch" /\ ssh[p] = "exited"
  /\ ssh' = [ssh EXCEPT ![p] = "none"]
  /\ \/ Cancelled(p) /\ Continue(p, "done") /\ UNCHANGED attempt
     \/ ~Cancelled(p) /\ \E a \in {0, attempt[p]} : BackOff(p, a)
  /\ UNCHANGED <<machine, remote, kills, pc, result, term, daemon>>

WatchDeaf(p)      == FALSE
WatchCancelled(p) == loop[p] = "watch" /\ Cancelled(p)

StopSSH(p) ==
  /\ WatchCancelled(p)
  /\ ssh' = [ssh EXCEPT ![p] = "none"]
  /\ remote' \in Disconnected(p)
  /\ Continue(p, "done")
  /\ UNCHANGED <<machine, kills, pc, result, term, daemon, attempt>>

GiveUpRetrying(p) == loop[p] = "backoff" /\ ~Cancelled(p) /\ attempt[p] < MaxAttempt
DelayOver(p)      == loop[p] = "backoff" /\ ~Cancelled(p)

Redial(p) ==
  /\ DelayOver(p)
  /\ Continue(p, "dial")
  /\ UNCHANGED <<machine, remote, kills, pc, result, term, daemon, ssh, attempt>>

-----------------------------------------------------------------------------
\* Signals, sshd, ssh, other programs and the rendezvous.

Terminate(p) ==
  /\ pc[p] \notin Rest /\ ~term[p]
  /\ term' = [term EXCEPT ![p] = TRUE]
  /\ UNCHANGED <<machine, remote, kills, pc, result, daemon, tunnel>>

\* Both children live on: sshd keeps its port and ssh the reverse port, or may
\* still get it.
Orphaned(p) == CASE remote = p                              -> {Orphan}
                 [] remote = None /\ ssh[p] = "connecting" -> {None, Orphan}
                 [] OTHER                                   -> {remote}

Kill(p) ==
  /\ pc[p] \notin Rest /\ kills < MaxKills
  /\ kills' = kills + 1
  /\ Reset(p, "killed")
  /\ listener' = [q \in Ports |-> IF listener[q] = p THEN Foreign ELSE listener[q]]
  /\ remote' \in Orphaned(p)
  /\ UNCHANGED config

\* sshd reads the file and binds the port it finds there, or exits.
SSHDUp(p) ==
  /\ sshd[p] = "starting"
  /\ \/ /\ listener[config] = None
        /\ listener' = [listener EXCEPT ![config] = p]
        /\ sshd' = [sshd EXCEPT ![p] = "up"]
     \/ /\ sshd' = [sshd EXCEPT ![p] = "exited"]
        /\ UNCHANGED listener
  /\ UNCHANGED <<config, remote, kills, pc, result, term, port, tries, tunnel>>

SSHDCrash(p) ==
  /\ sshd[p] = "up"
  /\ sshd' = [sshd EXCEPT ![p] = "exited"]
  /\ listener' = Unlisten(p)
  /\ UNCHANGED <<config, remote, kills, pc, result, term, port, tries, tunnel>>

\* Another program, or an sshd left behind, takes or gives up a port.
OtherProgram(q) ==
  /\ \/ listener[q] = None /\ listener' = [listener EXCEPT ![q] = Foreign]
     \/ listener[q] = Foreign /\ listener' = [listener EXCEPT ![q] = None]
  /\ UNCHANGED <<config, remote, kills, pc, result, term, daemon, tunnel>>

\* ssh gets the reverse port, or exits (ExitOnForwardFailure).
Connect(p) ==
  /\ ssh[p] = "connecting" /\ remote = None
  /\ ssh' = [ssh EXCEPT ![p] = "up"]
  /\ remote' = p
  /\ UNCHANGED <<machine, kills, pc, result, term, daemon, loop, attempt>>

Disconnect(p) ==
  /\ ssh[p] \in {"connecting", "up"}
  /\ ssh' = [ssh EXCEPT ![p] = "exited"]
  /\ remote' \in Disconnected(p)
  /\ UNCHANGED <<machine, kills, pc, result, term, daemon, loop, attempt>>

\* The rendezvous drops a dead connection; an orphaned ssh ends some day.
Release ==
  /\ remote \in {Stale, Orphan}
  /\ remote' = None
  /\ UNCHANGED <<machine, kills, pc, result, term, daemon, tunnel>>

-----------------------------------------------------------------------------
MainStep(p) ==
  \/ PickPort(p) \/ WriteRuntimeConfig(p) \/ SpawnSSHD(p) \/ StartFails(p)
  \/ SSHDReady(p) \/ SSHDExits(p) \/ SSHDTimeout(p) \/ StartCancelled(p)
  \/ EndRun(p) \/ StopDaemon(p) \/ Join(p)

LoopStep(p) == \/ LoopEnds(p) \/ StartSSH(p) \/ SSHStartFails(p) \/ SSHExits(p)
               \/ StopSSH(p) \/ Redial(p)

Next ==
  \/ \E p \in Procs : \/ Start(p) \/ MainStep(p) \/ LoopStep(p)
                      \/ Terminate(p) \/ Kill(p)
                      \/ SSHDUp(p) \/ SSHDCrash(p) \/ Connect(p) \/ Disconnect(p)
  \/ \E q \in Ports : OtherProgram(q)
  \/ Release

Spec == Init /\ [][Next]_vars

\* Both goroutines run on and their timers fire; ssh gives up when it cannot
\* connect (ConnectTimeout), can be executed and is let in sooner or later, and
\* the rendezvous drops dead connections.
FairTo(p) ==
  /\ WF_vars(MainStep(p)) /\ WF_vars(LoopStep(p))
  /\ WF_vars(ssh[p] = "connecting" /\ (Connect(p) \/ Disconnect(p)))
  /\ SF_vars(StartSSH(p)) /\ SF_vars(Connect(p))

FairRendezvous == WF_vars(Release /\ remote = Stale)

Fairness == (\A p \in Procs : FairTo(p)) /\ FairRendezvous

LiveSpec == Spec /\ Fairness

-----------------------------------------------------------------------------
\* Safety.

\* The delay before the next attempt is between one and thirty seconds, and no
\* attempt waits for less than the one before it may have waited: "bounded,
\* jittered backoff" (README.md:362).
BackoffBounded(a) ==
  /\ Second <= DelayMin(a) /\ DelayMin(a) <= DelayMax(a) /\ DelayMax(a) <= Ceiling
  /\ DelayMax(a) <= DelayMin(a + 1)

DelaysBounded == \A p \in Procs : BackoffBounded(attempt[p])

\* An invocation that returns leaves neither its sshd nor its ssh behind, at
\* whatever point of the start, the backoff or the reconnect it was.
NothingLeftBehind ==
  [][\A p \in Procs :
       pc[p] \notin Rest /\ pc'[p] \in {"idle", "failed"} =>
         /\ \A q \in Ports : listener'[q] # p
         /\ ssh[p] \in {"none", "exited"} /\ remote' # p]_vars

-----------------------------------------------------------------------------
\* Liveness.

\* A start comes to an end: startSSHD does not go round for ever, also when
\* another program takes every port that was picked (supervise.go:113).
StartEnds == \A p \in Procs : pc[p] \in Starting ~> pc[p] \notin Starting

\* "An unexpected local sshd exit fails the owning command" (README.md:360),
\* also when sshd was dead before the invocation took the port for ready.
SSHDExitFails ==
  \A p \in Procs :
    pc[p] = "run" /\ sshd[p] = "exited" ~> pc[p] \in {"failed", "killed"} \/ term[p]

\* An invocation asked to end returns: no wait misses the cancelled context.
TerminationEnds == \A p \in Procs : term[p] ~> pc[p] \in Rest

\* The tunnel is retried for as long as it takes: an invocation that stays is
\* connected again and again, once nobody else holds on to the reverse port.
Alone(p) ==
  /\ pc[p] = "run" /\ ~term[p] /\ remote # Orphan
  /\ \A q \in Procs \ {p} : pc[q] \in Rest

Reconnects == \A p \in Procs : <>[]Alone(p) => []<>(remote = p)
=============================================================================
