---------------------------- MODULE HerdrSession ----------------------------
(***************************************************************************)
(* The life of the named Herdr session (internal/client/herdrsession.go    *)
(* and supervise.go): invocations of `familiar-fleet', `familiar-fleet     *)
(* herdr' and `familiar-fleet stop' against one Herdr server.              *)
(*                                                                         *)
(* Invocations never talk to each other.  What one knows of the server is  *)
(* the answer to a status query, and the answer may be old when it is      *)
(* used.  Herdr itself is external: it runs at most one server for the     *)
(* session, a second one exits, and a server outlives the invocation that  *)
(* spawned it because it leads a session of its own.                       *)
(***************************************************************************)
EXTENDS Naturals

CONSTANTS
  Procs,       \* invocations that may run at the same time
  None,        \* no server is running
  Orphan,      \* a server whose spawner has returned or was killed
  Misreports,  \* whether a status call may fail or print rubbish
  MaxKills,    \* bound: how many invocations are killed outright
  MaxStrays    \* bound: how many abandoned servers may be starting at once

ASSUME SessionAssumption ==
  /\ None # Orphan
  /\ {None, Orphan} \cap Procs = {}
  /\ Misreports \in BOOLEAN
  /\ MaxKills \in Nat /\ MaxStrays \in Nat

VARIABLES
  server,      \* who spawned the running server
  compatible,  \* the protocol verdict on the running server
  strays,      \* servers still starting whose spawner is gone
  kills,
  pc, kind,    \* what an invocation does next, and which command it is
  child,       \* the server process an invocation has spawned
  spawned,     \* herdrServer.spawned: the invocation believes it owns the server
  term         \* its context is cancelled (SIGINT or SIGTERM)

herdr == <<server, compatible, strays>>
vars  == <<server, compatible, strays, kills, pc, kind, child, spawned, term>>

Kinds == {"interactive", "herdr", "stop"}

\* Not running; returned nil or not started yet, returned an error, or killed.
Rest     == {"idle", "failed", "killed"}
Stopping == {"stopQuery", "stopExec", "stopPoll"}
Points   == Rest \cup Stopping \cup
            {"ensure", "spawn", "await", "infra", "tui", "attached",
             "service", "adopted", "childStop"}

TypeOK ==
  /\ server \in Procs \cup {None, Orphan}
  /\ compatible \in BOOLEAN
  /\ strays \in 0..MaxStrays
  /\ kills \in 0..MaxKills
  /\ pc \in [Procs -> Points]
  /\ kind \in [Procs -> Kinds]
  /\ child \in [Procs -> {"none", "starting", "running", "exited"}]
  /\ \A p \in Procs : child[p] = "running" <=> server = p
  /\ spawned \in [Procs -> BOOLEAN]
  /\ term \in [Procs -> BOOLEAN]

\* A server of an earlier run, perhaps of another Herdr version, may be there.
Init ==
  /\ server \in {None, Orphan}
  /\ compatible \in BOOLEAN
  /\ strays = 0 /\ kills = 0
  /\ pc = [p \in Procs |-> "idle"]
  /\ kind = [p \in Procs |-> "interactive"]
  /\ child = [p \in Procs |-> "none"]
  /\ spawned = [p \in Procs |-> FALSE]
  /\ term = [p \in Procs |-> FALSE]

-----------------------------------------------------------------------------
\* Going on, leaving, and what a leaving process leaves behind.

Goto(p, point) == pc' = [pc EXCEPT ![p] = point]

Reset(p, outcome) ==
  /\ Goto(p, outcome)
  /\ child' = [child EXCEPT ![p] = "none"]
  /\ spawned' = [spawned EXCEPT ![p] = FALSE]
  /\ term' = [term EXCEPT ![p] = FALSE]
  /\ UNCHANGED kind

\* The process is gone; a server it spawned lives on.
Leave(p, outcome) ==
  /\ Reset(p, outcome)
  /\ server' = IF server = p THEN Orphan ELSE server
  /\ strays' = IF child[p] = "starting" /\ strays < MaxStrays THEN strays + 1 ELSE strays
  /\ UNCHANGED compatible

SignalChildAndLeave(p, outcome) ==
  Reset(p, outcome) /\ UNCHANGED <<server, compatible, strays>>

\* child.stop, then return: TERM, a grace period, KILL, and waiting for the
\* exit.  A child that exited already is left alone.
StopChildAndLeave(p, outcome) ==
  /\ Reset(p, outcome)
  /\ server' = IF server = p THEN None ELSE server
  /\ UNCHANGED <<compatible, strays>>

\* QueryHerdrServer.  A cancelled context kills the status call, and a call
\* that fails counts as "not running"; unparseable output is an error.
Truth == CASE server = None -> "down"
           [] compatible    -> "healthy"
           [] OTHER         -> "incompatible"

Answers(cancelled) ==
  IF cancelled THEN {"down"}
  ELSE {Truth} \cup (IF Misreports THEN {"down", "error"} ELSE {})

-----------------------------------------------------------------------------
\* ensureHerdrServer.

Start(p, k) ==
  /\ pc[p] \in Rest
  /\ kind' = [kind EXCEPT ![p] = k]
  /\ Goto(p, IF k = "stop" THEN "stopQuery" ELSE "ensure")
  /\ UNCHANGED <<herdr, kills, child, spawned, term>>

EnsureQuery(p) ==
  /\ pc[p] = "ensure"
  /\ \E a \in Answers(term[p]) :
       \/ /\ a = "healthy"
          /\ Goto(p, IF kind[p] = "herdr" THEN "adopted" ELSE "infra")
          /\ UNCHANGED <<herdr, kind, child, spawned, term>>
       \/ /\ a = "down"
          /\ Goto(p, "spawn")
          /\ UNCHANGED <<herdr, kind, child, spawned, term>>
       \/ a \in {"incompatible", "error"} /\ Leave(p, "failed")
  /\ UNCHANGED kills

Spawn(p) ==
  /\ pc[p] = "spawn"
  /\ \/ /\ child' = [child EXCEPT ![p] = "starting"]
        /\ Goto(p, "await")
        /\ UNCHANGED <<herdr, kind, spawned, term>>
     \/ Leave(p, "failed")
  /\ UNCHANGED kills

\* waitHerdrReady looks at the session, not at the child: any running server
\* makes it ready, and the invocation takes it for its own.
AwaitReady(p) ==
  /\ pc[p] = "await"
  /\ server # None /\ ~term[p]
  /\ spawned' = [spawned EXCEPT ![p] = TRUE]
  /\ Goto(p, IF kind[p] = "herdr" THEN "service" ELSE "infra")
  /\ UNCHANGED <<herdr, kills, kind, child, term>>

\* The child exited, the ten seconds are over or the context is cancelled.
LeaveAfterAwait(p)     == Leave(p, "failed")
StopChildAfterAwait(p) == StopChildAndLeave(p, "failed")

AwaitFails(p) ==
  /\ pc[p] = "await"
  /\ StopChildAfterAwait(p)
  /\ UNCHANGED kills

-----------------------------------------------------------------------------
\* RunInteractive.

\* cleanup: tear down the server only if this invocation spawned it.
Cleanup(p) ==
  \/ /\ spawned[p]
     /\ Goto(p, "stopQuery")
     /\ UNCHANGED <<herdr, kind, child, spawned, term>>
  \/ ~spawned[p] /\ Leave(p, "failed")

\* The callback sshd and the tunnel, then the TUI; either may fail to start.
StartInfrastructure(p) ==
  /\ pc[p] = "infra"
  /\ \/ Goto(p, "tui") /\ UNCHANGED <<herdr, kind, child, spawned, term>>
     \/ Cleanup(p)
  /\ UNCHANGED kills

StartTUI(p) ==
  /\ pc[p] = "tui"
  /\ \/ Goto(p, "attached") /\ UNCHANGED <<herdr, kind, child, spawned, term>>
     \/ Cleanup(p)
  /\ UNCHANGED kills

\* The user leaves the TUI, or the local sshd exits.
LeaveTUI(p) ==
  /\ pc[p] = "attached"
  /\ \E outcome \in {"idle", "failed"} : Leave(p, outcome)
  /\ UNCHANGED kills

\* Only the exit of a spawned server is noticed: the channel of a reused one
\* is nil.
ChildMissing(p) == child[p] = "none"
ChildExited(p)  == spawned[p] /\ child[p] = "exited"

DetachOnExit(p) == pc[p] = "attached" /\ ChildExited(p) /\ Leave(p, "failed") /\ UNCHANGED kills

Detach(p) ==
  /\ pc[p] = "attached"
  /\ \/ ChildExited(p) /\ Leave(p, "failed")
     \/ term[p] /\ Leave(p, "idle")
  /\ UNCHANGED kills

-----------------------------------------------------------------------------
\* RunHerdr and superviseAdoptedHerdr.

ServiceEnds(p) ==
  /\ pc[p] = "service"
  /\ \/ ChildExited(p) /\ Leave(p, "failed")
     \/ /\ term[p]
        /\ Goto(p, "stopQuery")
        /\ UNCHANGED <<herdr, kind, child, spawned, term>>
  /\ UNCHANGED kills

\* A tick: the session is polled under the service's own context.
AdoptedPoll(p) ==
  /\ pc[p] = "adopted"
  /\ "down" \in Answers(term[p])
  /\ Leave(p, "failed")
  /\ UNCHANGED kills

AdoptedStop(p) ==
  /\ pc[p] = "adopted"
  /\ term[p]
  /\ Goto(p, "stopQuery")
  /\ UNCHANGED <<herdr, kills, kind, child, spawned, term>>

-----------------------------------------------------------------------------
\* StopHerdrSession: the stop command runs it under its own context, a cleanup
\* and a terminated service under a fresh one.

Cancelled(p) == kind[p] = "stop" /\ term[p]

\* The stop command returns the outcome; the others only log it and go on.
AfterStop(p, outcome) ==
  \/ kind[p] = "stop" /\ Leave(p, outcome)
  \/ /\ kind[p] # "stop" /\ spawned[p]
     /\ Goto(p, "childStop")
     /\ UNCHANGED <<herdr, kind, child, spawned, term>>
  \/ kind[p] # "stop" /\ ~spawned[p] /\ Leave(p, "idle")

StopQuery(p) ==
  /\ pc[p] = "stopQuery"
  /\ \E a \in Answers(Cancelled(p)) :
       \/ a = "down" /\ AfterStop(p, "idle")
       \/ a = "error" /\ AfterStop(p, "failed")
       \/ /\ a \in {"healthy", "incompatible"}
          /\ Goto(p, "stopExec")
          /\ UNCHANGED <<herdr, kind, child, spawned, term>>
  /\ UNCHANGED kills

\* herdr server stop: the server may be gone when the call returns, go away
\* later, or never have heard of it.
StopExec(p) ==
  /\ pc[p] = "stopExec"
  /\ Goto(p, "stopPoll")
  /\ \/ UNCHANGED <<server, child>>
     \/ /\ server # None /\ ~Cancelled(p)
        /\ server' = None
        /\ child' = [q \in Procs |-> IF server = q THEN "exited" ELSE child[q]]
  /\ UNCHANGED <<compatible, strays, kills, kind, spawned, term>>

StopObserved(p) ==
  /\ pc[p] = "stopPoll"
  /\ "down" \in Answers(Cancelled(p))
  /\ AfterStop(p, "idle")
  /\ UNCHANGED kills

\* The fifteen seconds are over, or the context is cancelled between polls.
StopGivesUp(p) ==
  /\ pc[p] = "stopPoll"
  /\ AfterStop(p, "failed")
  /\ UNCHANGED kills

ChildStop(p) ==
  /\ pc[p] = "childStop"
  /\ StopChildAndLeave(p, IF kind[p] = "herdr" THEN "idle" ELSE "failed")
  /\ UNCHANGED kills

-----------------------------------------------------------------------------
\* Signals, and Herdr.

Terminate(p) ==
  /\ pc[p] \notin Rest /\ ~term[p]
  /\ term' = [term EXCEPT ![p] = TRUE]
  /\ UNCHANGED <<herdr, kills, pc, kind, child, spawned>>

Kill(p) ==
  /\ pc[p] \notin Rest /\ kills < MaxKills
  /\ kills' = kills + 1
  /\ Leave(p, "killed")

\* A starting server takes the session if it is free and exits otherwise, or
\* fails for reasons of its own.
ServerUp(p) ==
  /\ child[p] = "starting"
  /\ \/ /\ server = None
        /\ server' = p /\ compatible' = TRUE
        /\ child' = [child EXCEPT ![p] = "running"]
     \/ /\ child' = [child EXCEPT ![p] = "exited"]
        /\ UNCHANGED <<server, compatible>>
  /\ UNCHANGED <<strays, kills, pc, kind, spawned, term>>

StrayUp ==
  /\ strays > 0
  /\ strays' = strays - 1
  /\ \/ server = None /\ server' = Orphan /\ compatible' = TRUE
     \/ UNCHANGED <<server, compatible>>
  /\ UNCHANGED <<kills, pc, kind, child, spawned, term>>

\* The server exits: it was asked to, or it crashes.
ServerDown ==
  /\ server # None
  /\ server' = None
  /\ child' = [q \in Procs |-> IF server = q THEN "exited" ELSE child[q]]
  /\ UNCHANGED <<compatible, strays, kills, pc, kind, spawned, term>>

\* What an invocation does by itself; it never waits for the user here.
Step(p) ==
  \/ EnsureQuery(p) \/ Spawn(p) \/ AwaitReady(p) \/ AwaitFails(p)
  \/ StartInfrastructure(p) \/ StartTUI(p) \/ Detach(p)
  \/ ServiceEnds(p) \/ AdoptedPoll(p) \/ AdoptedStop(p)
  \/ StopQuery(p) \/ StopExec(p) \/ StopObserved(p) \/ StopGivesUp(p)
  \/ ChildStop(p)

Next ==
  \/ \E p \in Procs : \/ \E k \in Kinds : Start(p, k)
                      \/ Step(p)
                      \/ LeaveTUI(p)
                      \/ Terminate(p)
                      \/ Kill(p)
                      \/ ServerUp(p)
  \/ StrayUp
  \/ ServerDown

Spec == Init /\ [][Next]_vars

\* Calls return, timers fire and channels are received from; a starting Herdr
\* server comes up or exits.
FairTo(p) == WF_vars(Step(p)) /\ WF_vars(ServerUp(p))

Fairness == \A p \in Procs : FairTo(p)

LiveSpec == Spec /\ Fairness

-----------------------------------------------------------------------------
\* Safety.

\* An invocation that returns without ever having attached its TUI leaves no
\* server behind that it spawned itself, neither running nor still starting,
\* whatever the stop before it reported (supervise.go:261, supervise.go:288).
OwnServerTornDown ==
  [][\A p \in Procs :
       pc[p] \notin Rest \cup {"attached"} /\ pc'[p] \in {"idle", "failed"} =>
         /\ server = p => server' = None
         /\ strays' = strays]_vars

\* An interactive invocation only ever stops a server it spawned: "cleanup
\* follows ownership", "a server it merely reused is never terminated"
\* (README.md:327), "we only tear down a server we created" (supervise.go:217).
StopsOnlyItsOwn ==
  [][\A p \in Procs :
       kind[p] = "interactive" /\ pc[p] = "stopExec" /\ pc'[p] = "stopPoll" =>
         server \in {p, None}]_vars

\* The status call that a cancelled context kills counts as "not running"
\* (herdrsession.go:44), and no invocation takes it for that.  A service that
\* adopted a running server, "still stopped on exit" (supervise.go:340), does not
\* return while the server runs without having gone through the stop; and the
\* stop command, which trusts "observed state over the exit status"
\* (herdrsession.go:75), reports success only for a session that is down.
KilledCallIsNoEvidence ==
  [][\A p \in Procs :
       /\ pc[p] = "adopted" /\ term[p] /\ pc'[p] \in {"idle", "failed"} => server = None
       /\ kind[p] = "stop" /\ pc[p] \in Stopping /\ pc'[p] = "idle" => server = None]_vars

-----------------------------------------------------------------------------
\* Liveness.

\* The managed service does not outlive its session unnoticed: with the server
\* gone it returns, so that the service manager can start it again, or a server
\* is back (supervise.go:335, supervise.go:359).
ServiceNotices ==
  \A p \in Procs :
    pc[p] \in {"service", "adopted"} /\ server = None
      ~> pc[p] \notin {"service", "adopted"} \/ server # None

\* An invocation asked to terminate returns, wherever it stands: no wait of it
\* misses the cancelled context or lacks a deadline.
TerminationEnds == \A p \in Procs : term[p] ~> pc[p] \in Rest
=============================================================================
