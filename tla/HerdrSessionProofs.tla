------------------------- MODULE HerdrSessionProofs -------------------------
(***************************************************************************)
(* Theorems about HerdrSession, for any number of invocations, of killed   *)
(* ones and of abandoned servers.                                          *)
(***************************************************************************)
EXTENDS HerdrSession, TLAPS

-----------------------------------------------------------------------------
(* The inductive invariant. *)

\* A stop command does nothing but stop.
StopOnly == \A p \in Procs : kind[p] = "stop" => pc[p] \in Rest \cup Stopping

\* Where an invocation has a child: while it awaits it, and later only if it
\* believes that it owns the server, which sends it through childStop.
ChildInv ==
  \A p \in Procs : child[p] # "none" =>
    /\ pc[p] \notin Rest \cup {"ensure", "spawn", "adopted"}
    /\ pc[p] = "await" \/ (spawned[p] /\ kind[p] # "stop")

SessionInv == TypeOK /\ StopOnly /\ ChildInv

\* At first nobody has a child.
LEMMA SessionInit == Init => SessionInv
BY SessionAssumption DEF Init, SessionInv, TypeOK, StopOnly, ChildInv, Points, Kinds, Rest, Stopping

\* Leaving with or without stopping the child, and going on without one.
LEMMA LeaveKeeps ==
  ASSUME NEW p \in Procs, NEW outcome \in Rest, SessionInv, kills' \in 0..MaxKills,
         Leave(p, outcome) \/ StopChildAndLeave(p, outcome)
  PROVE  SessionInv'
<1> USE SessionAssumption DEF SessionInv, Leave, StopChildAndLeave, Reset, Goto
<1>1. /\ pc' = [pc EXCEPT ![p] = outcome] /\ child' = [child EXCEPT ![p] = "none"]
      /\ spawned' = [spawned EXCEPT ![p] = FALSE] /\ term' = [term EXCEPT ![p] = FALSE]
      /\ UNCHANGED <<kind, compatible>>
  OBVIOUS
<1>2. /\ server' \in Procs \cup {None, Orphan} /\ strays' \in 0..MaxStrays
      /\ server' = server \/ (server = p /\ server' \in {None, Orphan})
      /\ server' # p
  BY DEF TypeOK
<1>3. TypeOK'
  <2>1. \A q \in Procs : child'[q] = "running" <=> server' = q
    BY <1>1, <1>2 DEF TypeOK
  <2> QED
    BY <1>1, <1>2, <2>1 DEF TypeOK, Points
<1>4. StopOnly'
  BY <1>1 DEF TypeOK, StopOnly
<1>5. ChildInv'
  BY <1>1 DEF TypeOK, ChildInv
<1> QED
  BY <1>3, <1>4, <1>5

LEMMA GoKeeps ==
  ASSUME NEW p \in Procs, NEW point \in Points, SessionInv, Goto(p, point),
         UNCHANGED <<herdr, kills, kind, child, spawned, term>>,
         kind[p] = "stop" => point \in Stopping,
         child[p] # "none" => point \notin Rest \cup {"ensure", "spawn", "adopted"}
                              /\ spawned[p] /\ kind[p] # "stop"
  PROVE  SessionInv'
BY SessionAssumption DEF SessionInv, TypeOK, StopOnly, ChildInv, Goto, herdr

\* Every step keeps it.
LEMMA SessionStep == SessionInv /\ [Next]_vars => SessionInv'
<1> SUFFICES ASSUME SessionInv, [Next]_vars PROVE SessionInv'
  OBVIOUS
<1> USE SessionAssumption DEF Rest, Stopping
<1>0. kills \in 0..MaxKills
  BY DEF SessionInv, TypeOK
<1>1. ASSUME NEW p \in Procs, NEW k \in Kinds, Start(p, k) PROVE SessionInv'
  BY <1>1 DEF Start, Goto, herdr, SessionInv, TypeOK, StopOnly, ChildInv, Points
<1>2. ASSUME NEW p \in Procs, EnsureQuery(p) PROVE SessionInv'
  <2>1. \/ Leave(p, "failed")
        \/ /\ \E point \in {"adopted", "infra", "spawn"} : Goto(p, point)
           /\ UNCHANGED <<herdr, kind, child, spawned, term>>
    BY <1>2 DEF EnsureQuery
  <2>2. child[p] = "none" /\ kind[p] # "stop"
    BY <1>2 DEF EnsureQuery, SessionInv, ChildInv, StopOnly
  <2> QED
    BY <1>0, <1>2, <2>1, <2>2, LeaveKeeps, GoKeeps DEF EnsureQuery, Points
<1>3. ASSUME NEW p \in Procs, Spawn(p) PROVE SessionInv'
  <2>1. CASE Leave(p, "failed")
    BY <1>0, <1>3, <2>1, LeaveKeeps DEF Spawn
  <2>2. CASE /\ child' = [child EXCEPT ![p] = "starting"] /\ Goto(p, "await")
             /\ UNCHANGED <<herdr, kind, spawned, term>>
    <3>1. child[p] = "none" /\ kind[p] # "stop"
      BY <1>3 DEF Spawn, SessionInv, ChildInv, StopOnly
    <3>2. \A q \in Procs : child'[q] = "running" <=> server = q
      BY <2>2, <3>1 DEF SessionInv, TypeOK
    <3> QED
      BY <1>3, <2>2, <3>1, <3>2 DEF Spawn, Goto, herdr, SessionInv, TypeOK, StopOnly, ChildInv, Points
  <2> QED
    BY <1>3, <2>1, <2>2 DEF Spawn
<1>4. ASSUME NEW p \in Procs, AwaitReady(p) PROVE SessionInv'
  <2>1. kind[p] # "stop"
    BY <1>4 DEF AwaitReady, SessionInv, StopOnly
  <2> QED
    BY <1>4, <2>1 DEF AwaitReady, Goto, herdr, SessionInv, TypeOK, StopOnly, ChildInv, Points
<1>5. ASSUME NEW p \in Procs, AwaitFails(p) \/ ChildStop(p) PROVE SessionInv'
  <2>1. \E outcome \in Rest : StopChildAndLeave(p, outcome)
    BY <1>5 DEF AwaitFails, StopChildAfterAwait, ChildStop
  <2> QED
    BY <1>0, <1>5, <2>1, LeaveKeeps DEF AwaitFails, ChildStop
<1>6. ASSUME NEW p \in Procs, StartInfrastructure(p) \/ StartTUI(p) PROVE SessionInv'
  <2>1. \/ Leave(p, "failed")
        \/ /\ \E point \in {"tui", "attached", "stopQuery"} : Goto(p, point)
           /\ UNCHANGED <<herdr, kind, child, spawned, term>>
    BY <1>6 DEF StartInfrastructure, StartTUI, Cleanup
  <2>2. kind[p] # "stop" /\ (child[p] # "none" => spawned[p])
    BY <1>6 DEF StartInfrastructure, StartTUI, SessionInv, ChildInv, StopOnly
  <2> QED
    BY <1>0, <1>6, <2>1, <2>2, LeaveKeeps, GoKeeps DEF StartInfrastructure, StartTUI, Points
<1>7. ASSUME NEW p \in Procs, LeaveTUI(p) \/ Detach(p) \/ AdoptedPoll(p) \/ Kill(p) PROVE SessionInv'
  <2>1. \E outcome \in Rest : Leave(p, outcome)
    BY <1>7 DEF LeaveTUI, Detach, AdoptedPoll, Kill
  <2>2. kills' \in 0..MaxKills
    BY <1>0, <1>7 DEF LeaveTUI, Detach, AdoptedPoll, Kill
  <2> QED
    BY <2>1, <2>2, LeaveKeeps
<1>8. ASSUME NEW p \in Procs, ServiceEnds(p) \/ AdoptedStop(p) PROVE SessionInv'
  <2>1. \/ Leave(p, "failed")
        \/ Goto(p, "stopQuery") /\ UNCHANGED <<herdr, kind, child, spawned, term>>
    BY <1>8 DEF ServiceEnds, AdoptedStop
  <2>2. kind[p] # "stop" /\ (child[p] # "none" => spawned[p])
    BY <1>8 DEF ServiceEnds, AdoptedStop, SessionInv, ChildInv, StopOnly
  <2> QED
    BY <1>0, <1>8, <2>1, <2>2, LeaveKeeps, GoKeeps DEF ServiceEnds, AdoptedStop, Points
<1>9. ASSUME NEW p \in Procs, StopQuery(p) \/ StopObserved(p) \/ StopGivesUp(p) PROVE SessionInv'
  <2>1. \/ \E outcome \in Rest : Leave(p, outcome)
        \/ /\ Goto(p, "childStop") /\ kind[p] # "stop"
           /\ UNCHANGED <<herdr, kind, child, spawned, term>>
        \/ Goto(p, "stopExec") /\ UNCHANGED <<herdr, kind, child, spawned, term>>
    BY <1>9 DEF StopQuery, StopObserved, StopGivesUp, AfterStop
  <2>2. child[p] # "none" => spawned[p] /\ kind[p] # "stop"
    BY <1>9 DEF StopQuery, StopObserved, StopGivesUp, SessionInv, ChildInv
  <2>3. UNCHANGED kills
    BY <1>9 DEF StopQuery, StopObserved, StopGivesUp
  <2> QED
    BY <1>0, <2>1, <2>2, <2>3, LeaveKeeps, GoKeeps DEF Points
<1>10. ASSUME NEW p \in Procs, StopExec(p) PROVE SessionInv'
  <2>1. /\ server' \in {server, None} /\ UNCHANGED <<compatible, strays, kills, kind, spawned, term>>
        /\ pc' = [pc EXCEPT ![p] = "stopPoll"] /\ pc[p] = "stopExec"
    BY <1>10 DEF StopExec, Goto
  <2>2. /\ child' \in [Procs -> {"none", "starting", "running", "exited"}]
        /\ \A q \in Procs : child'[q] = "running" <=> server' = q
        /\ \A q \in Procs : child'[q] # "none" => child[q] # "none"
    BY <1>10 DEF StopExec, SessionInv, TypeOK
  <2>3. TypeOK'
    BY <2>1, <2>2 DEF SessionInv, TypeOK, Points
  <2> QED
    BY <2>1, <2>2, <2>3 DEF SessionInv, TypeOK, StopOnly, ChildInv
<1>11. ASSUME NEW p \in Procs, Terminate(p) PROVE SessionInv'
  BY <1>11 DEF Terminate, herdr, SessionInv, TypeOK, StopOnly, ChildInv
<1>12. ASSUME NEW p \in Procs, ServerUp(p) PROVE SessionInv'
  <2>1. /\ server' \in Procs \cup {None, Orphan} /\ compatible' \in BOOLEAN
        /\ UNCHANGED <<strays, kills, pc, kind, spawned, term>>
    BY <1>12 DEF ServerUp, SessionInv, TypeOK
  <2>2. /\ child' \in [Procs -> {"none", "starting", "running", "exited"}]
        /\ \A q \in Procs : child'[q] = "running" <=> server' = q
        /\ \A q \in Procs : child'[q] # "none" => child[q] # "none"
    BY <1>12 DEF ServerUp, SessionInv, TypeOK
  <2>3. TypeOK'
    BY <2>1, <2>2 DEF SessionInv, TypeOK
  <2> QED
    BY <2>1, <2>2, <2>3 DEF SessionInv, StopOnly, ChildInv
<1>13. CASE StrayUp
  <2>1. /\ server' \in Procs \cup {None, Orphan} /\ compatible' \in BOOLEAN
        /\ UNCHANGED <<kills, pc, kind, child, spawned, term>>
    BY <1>13 DEF StrayUp, SessionInv, TypeOK
  <2>2. strays' \in 0..MaxStrays
    BY <1>13, SessionAssumption DEF StrayUp, SessionInv, TypeOK
  <2>3. ASSUME NEW q \in Procs PROVE child'[q] = "running" <=> server' = q
    BY <1>13, <2>1, SessionAssumption DEF StrayUp, SessionInv, TypeOK
  <2>4. TypeOK'
    BY <2>1, <2>2, <2>3 DEF SessionInv, TypeOK
  <2> QED
    BY <2>1, <2>4 DEF SessionInv, StopOnly, ChildInv
<1>14. CASE ServerDown
  <2>1. /\ child' \in [Procs -> {"none", "starting", "running", "exited"}]
        /\ \A q \in Procs : child'[q] = "running" <=> server' = q
        /\ \A q \in Procs : child'[q] # "none" => child[q] # "none"
    BY <1>14 DEF ServerDown, SessionInv, TypeOK
  <2> QED
    BY <1>14, <2>1 DEF ServerDown, SessionInv, TypeOK, StopOnly, ChildInv
<1>15. CASE UNCHANGED vars
  BY <1>15 DEF vars, herdr, SessionInv, TypeOK, StopOnly, ChildInv
<1> QED
  BY <1>1, <1>2, <1>3, <1>4, <1>5, <1>6, <1>7, <1>8, <1>9, <1>10, <1>11, <1>12, <1>13, <1>14, <1>15
     DEF Next, Step

-----------------------------------------------------------------------------
(* What follows from it. *)

\* The variables keep their types, and a server that runs is its spawner's child.
THEOREM SessionTypeCorrect == Spec => []TypeOK
<1>1. SessionInv => TypeOK
  BY DEF SessionInv
<1> QED
  BY SessionInit, SessionStep, <1>1, PTL DEF Spec

\* Leaving harmlessly: the child is stopped, or there is none that runs or starts.
LEMMA HarmlessLeave ==
  ASSUME NEW p \in Procs, NEW outcome, SessionInv,
         \/ StopChildAndLeave(p, outcome)
         \/ Leave(p, outcome) /\ child[p] \in {"none", "exited"}
  PROVE  (server = p => server' = None) /\ strays' = strays
BY DEF SessionInv, TypeOK, StopChildAndLeave, Leave

\* An invocation that never attached its TUI leaves no server of its own.
THEOREM OwnServersTornDown == Spec => OwnServerTornDown
<1>1. SessionInv /\ [Next]_vars =>
        [\A p \in Procs :
           pc[p] \notin Rest \cup {"attached"} /\ pc'[p] \in {"idle", "failed"} =>
             /\ server = p => server' = None
             /\ strays' = strays]_vars
  <2> SUFFICES ASSUME SessionInv, Next, NEW p \in Procs,
                      pc[p] \notin Rest \cup {"attached"}, pc'[p] \in {"idle", "failed"}
               PROVE  (server = p => server' = None) /\ strays' = strays
    OBVIOUS
  <2>1. pc'[p] # pc[p]
    BY DEF Rest
  <2>2. Step(p) \/ Kill(p) \/ LeaveTUI(p)
    <3>1. ASSUME NEW q \in Procs, q # p, Step(q) \/ Kill(q) \/ LeaveTUI(q) PROVE pc'[p] = pc[p]
      <4>1. \E point : pc' = [pc EXCEPT ![q] = point]
        BY <3>1 DEF Step, Kill, LeaveTUI, EnsureQuery, Spawn, AwaitReady, AwaitFails, StartInfrastructure,
           StartTUI, Detach, ServiceEnds, AdoptedPoll, AdoptedStop, StopQuery, StopExec, StopObserved,
           StopGivesUp, ChildStop, Cleanup, AfterStop, StopChildAfterAwait, StopChildAndLeave, Leave,
           Reset, Goto
      <4> QED
        BY <3>1, <4>1 DEF SessionInv, TypeOK
    <3>2. ASSUME NEW q \in Procs, NEW k \in Kinds, Start(q, k) PROVE pc'[p] = pc[p]
      BY <3>2 DEF Start, Goto, SessionInv, TypeOK, Rest
    <3>3. ASSUME NEW q \in Procs, Terminate(q) \/ ServerUp(q) PROVE pc'[p] = pc[p]
      BY <3>3 DEF Terminate, ServerUp
    <3>4. StrayUp \/ ServerDown => pc'[p] = pc[p]
      BY DEF StrayUp, ServerDown
    <3> QED
      BY <2>1, <3>1, <3>2, <3>3, <3>4 DEF Next
  <2>3. ~Kill(p) /\ ~LeaveTUI(p) /\ ~Detach(p)
    BY DEF Kill, LeaveTUI, Detach, Leave, Reset, Goto, SessionInv, TypeOK, Rest
  <2>4. \/ \E outcome : StopChildAndLeave(p, outcome)
        \/ \E outcome : Leave(p, outcome) /\ child[p] \in {"none", "exited"}
    <3>1. CASE EnsureQuery(p) \/ Spawn(p) \/ AdoptedPoll(p) \/ AdoptedStop(p)
      <4>1. child[p] = "none"
        BY <3>1 DEF EnsureQuery, Spawn, AdoptedPoll, AdoptedStop, SessionInv, ChildInv
      <4> QED
        BY <3>1, <4>1 DEF EnsureQuery, Spawn, AdoptedPoll, AdoptedStop, Goto, SessionInv, TypeOK
    <3>2. CASE AwaitFails(p) \/ ChildStop(p)
      BY <3>2 DEF AwaitFails, ChildStop, StopChildAfterAwait
    <3>3. CASE AwaitReady(p) \/ StopExec(p)
      BY <3>3 DEF AwaitReady, StopExec, Goto, SessionInv, TypeOK
    <3>4. CASE StartInfrastructure(p) \/ StartTUI(p)
      <4>1. ~spawned[p] => child[p] = "none"
        BY <3>4 DEF StartInfrastructure, StartTUI, SessionInv, ChildInv
      <4> QED
        BY <3>4, <4>1 DEF StartInfrastructure, StartTUI, Cleanup, Goto, SessionInv, TypeOK
    <3>5. CASE ServiceEnds(p)
      BY <3>5 DEF ServiceEnds, ChildExited, Goto, SessionInv, TypeOK
    <3>6. CASE StopQuery(p) \/ StopObserved(p) \/ StopGivesUp(p)
      <4>1. kind[p] = "stop" \/ ~spawned[p] => child[p] = "none"
        BY <3>6 DEF StopQuery, StopObserved, StopGivesUp, SessionInv, ChildInv
      <4> QED
        BY <3>6, <4>1 DEF StopQuery, StopObserved, StopGivesUp, AfterStop, Goto, SessionInv, TypeOK
    <3> QED
      BY <2>2, <2>3, <3>1, <3>2, <3>3, <3>4, <3>5, <3>6 DEF Step
  <2> QED
    BY <2>4, HarmlessLeave
<1> QED
  BY SessionInit, SessionStep, <1>1, PTL DEF Spec, OwnServerTornDown

-----------------------------------------------------------------------------
(* Ownership.  An invocation may take the server of another one for its     *)
(* own; what that needs is a server that starts beside its own.             *)

\* p spawns a server, or believes that it owns the one that runs.
Owning(p) == kind[p] = "interactive" /\ (pc[p] \in {"spawn", "await"} \/ spawned[p])

\* Meanwhile no other server is starting.
StartsApart ==
  \A p \in Procs : Owning(p) => strays = 0 /\ \A q \in Procs \ {p} : child[q] # "starting"

\* What p knows of the server: it stops only what it believes to own, and then
\* no other one runs, nor when it has asked and not been cancelled.
OwnInv(p) ==
  /\ pc[p] \in {"service", "adopted"} => kind[p] = "herdr"
  /\ kind[p] = "interactive" /\ pc[p] \in Stopping => spawned[p]
  /\ pc[p] \in Rest => ~spawned[p]
  /\ Owning(p) /\ (~term[p] \/ spawned[p]) => server \in {p, None}

OwnershipInv == \A p \in Procs : OwnInv(p)

LEMMA OwnershipInit == Init => OwnershipInv
BY DEF Init, OwnershipInv, OwnInv, Owning, Rest, Stopping

\* What ends owns nothing; to the others the server is gone or as it was.
LEMMA LeaveOwns ==
  ASSUME NEW p \in Procs, NEW outcome \in Rest, SessionInv, OwnershipInv,
         Leave(p, outcome) \/ StopChildAndLeave(p, outcome)
  PROVE  OwnershipInv'
<1>1. /\ pc' = [pc EXCEPT ![p] = outcome]
      /\ spawned' = [spawned EXCEPT ![p] = FALSE] /\ term' = [term EXCEPT ![p] = FALSE]
      /\ UNCHANGED kind
  BY DEF Leave, StopChildAndLeave, Reset, Goto
<1>2. server' = server \/ server = p
  BY DEF Leave, StopChildAndLeave
<1>3. OwnInv(p)'
  BY <1>1 DEF OwnInv, Owning, SessionInv, TypeOK, Rest, Stopping
<1>4. ASSUME NEW q \in Procs, q # p PROVE OwnInv(q)'
  <2>1. /\ pc'[q] = pc[q] /\ spawned'[q] = spawned[q] /\ term'[q] = term[q] /\ kind'[q] = kind[q]
    BY <1>1, <1>4 DEF SessionInv, TypeOK
  <2>2. server \in {q, None} => server' = server
    BY <1>2, <1>4, SessionAssumption
  <2> QED
    BY <2>1, <2>2 DEF OwnershipInv, OwnInv, Owning
<1> QED
  BY <1>3, <1>4 DEF OwnershipInv

\* Going on, with the same server or none.
LEMMA GoOwns ==
  ASSUME NEW p \in Procs, NEW point \in Points, SessionInv, OwnershipInv, Goto(p, point),
         server' = server \/ server' = None, UNCHANGED <<kind, spawned, term>>,
         point \in {"service", "adopted"} => kind[p] = "herdr",
         point \in Stopping /\ kind[p] = "interactive" => spawned[p],
         point \notin Rest,
         point \in {"spawn", "await"} /\ kind[p] = "interactive" =>
            spawned[p] \/ term[p] \/ server \in {p, None}
  PROVE  OwnershipInv'
<1>1. ASSUME NEW q \in Procs
      PROVE  /\ pc'[q] = IF q = p THEN point ELSE pc[q]
             /\ spawned'[q] = spawned[q] /\ term'[q] = term[q] /\ kind'[q] = kind[q]
  BY DEF Goto, SessionInv, TypeOK
<1>2. ASSUME NEW q \in Procs PROVE OwnInv(q)'
  BY <1>1 DEF OwnershipInv, OwnInv, Owning
<1> QED
  BY <1>2 DEF OwnershipInv

LEMMA OwnershipStep ==
  ~Misreports /\ StartsApart /\ SessionInv /\ OwnershipInv /\ [Next]_vars => OwnershipInv'
<1> SUFFICES ASSUME ~Misreports, StartsApart, SessionInv, OwnershipInv, [Next]_vars
             PROVE  OwnershipInv'
  OBVIOUS
<1> USE DEF Rest, Stopping
<1>1. ASSUME NEW p \in Procs, NEW k \in Kinds, Start(p, k) PROVE OwnershipInv'
  <2>1. ASSUME NEW q \in Procs
        PROVE  /\ pc'[q] = IF q = p THEN IF k = "stop" THEN "stopQuery" ELSE "ensure" ELSE pc[q]
               /\ kind'[q] = IF q = p THEN k ELSE kind[q]
               /\ spawned'[q] = spawned[q] /\ term'[q] = term[q] /\ server' = server
    BY <1>1 DEF Start, Goto, herdr, SessionInv, TypeOK
  <2>2. pc[p] \in Rest /\ ~spawned[p]
    BY <1>1 DEF Start, OwnershipInv, OwnInv
  <2>3. ASSUME NEW q \in Procs PROVE OwnInv(q)'
    BY <2>1, <2>2 DEF OwnershipInv, OwnInv, Owning
  <2> QED
    BY <2>3 DEF OwnershipInv
<1>2. ASSUME NEW p \in Procs, EnsureQuery(p) PROVE OwnershipInv'
  <2>1. CASE Leave(p, "failed")
    BY <2>1, LeaveOwns
  <2>2. CASE ~Leave(p, "failed")
    <3>1. PICK a \in Answers(term[p]) :
            /\ \/ a = "healthy" /\ Goto(p, IF kind[p] = "herdr" THEN "adopted" ELSE "infra")
               \/ a = "down" /\ Goto(p, "spawn")
            /\ UNCHANGED <<herdr, kind, spawned, term>>
      BY <1>2, <2>2 DEF EnsureQuery
    <3>2. CASE a = "healthy"
      BY <3>1, <3>2, GoOwns DEF herdr, Points
    <3>3. CASE a = "down" /\ (term[p] \/ server = None)
      BY <3>1, <3>3, GoOwns DEF herdr, Points
    <3>4. CASE a = "down" /\ ~term[p]
      <4>1. server = None
        BY <3>1, <3>4 DEF Answers, Truth
      <4> QED
        BY <3>3, <3>4, <4>1
    <3> QED
      BY <3>1, <3>2, <3>3, <3>4
  <2> QED
    BY <2>1, <2>2
<1>3. ASSUME NEW p \in Procs, Spawn(p) PROVE OwnershipInv'
  <2>1. CASE Leave(p, "failed")
    BY <2>1, LeaveOwns
  <2>2. CASE Goto(p, "await") /\ UNCHANGED <<herdr, kind, spawned, term>>
    <3>1. kind[p] = "interactive" => spawned[p] \/ term[p] \/ server \in {p, None}
      BY <1>3 DEF Spawn, OwnershipInv, OwnInv, Owning
    <3> QED
      BY <2>2, <3>1, GoOwns DEF herdr, Points
  <2> QED
    BY <1>3, <2>1, <2>2 DEF Spawn
<1>4. ASSUME NEW p \in Procs, AwaitReady(p) PROVE OwnershipInv'
  <2>1. ASSUME NEW q \in Procs
        PROVE  /\ q # p => pc'[q] = pc[q] /\ spawned'[q] = spawned[q]
               /\ pc'[p] = IF kind[p] = "herdr" THEN "service" ELSE "infra"
               /\ kind'[q] = kind[q] /\ term'[q] = term[q] /\ server' = server
    BY <1>4 DEF AwaitReady, Goto, herdr, SessionInv, TypeOK
  <2>2. kind[p] = "interactive" => server \in {p, None}
    BY <1>4 DEF AwaitReady, OwnershipInv, OwnInv, Owning
  <2>3. ASSUME NEW q \in Procs PROVE OwnInv(q)'
    BY <2>1, <2>2 DEF OwnershipInv, OwnInv, Owning
  <2> QED
    BY <2>3 DEF OwnershipInv
<1>5. ASSUME NEW p \in Procs, AwaitFails(p) \/ ChildStop(p) PROVE OwnershipInv'
  <2>1. \E outcome \in Rest : StopChildAndLeave(p, outcome)
    BY <1>5 DEF AwaitFails, StopChildAfterAwait, ChildStop
  <2> QED
    BY <2>1, LeaveOwns
<1>6. ASSUME NEW p \in Procs, StartInfrastructure(p) \/ StartTUI(p) PROVE OwnershipInv'
  <2>1. \/ Leave(p, "failed")
        \/ /\ \/ \E point \in {"tui", "attached"} : Goto(p, point)
              \/ spawned[p] /\ Goto(p, "stopQuery")
           /\ UNCHANGED <<herdr, kind, spawned, term>>
    BY <1>6 DEF StartInfrastructure, StartTUI, Cleanup
  <2> QED
    BY <2>1, LeaveOwns, GoOwns DEF herdr, Points
<1>7. ASSUME NEW p \in Procs, LeaveTUI(p) \/ Detach(p) \/ AdoptedPoll(p) \/ Kill(p) PROVE OwnershipInv'
  <2>1. \E outcome \in Rest : Leave(p, outcome)
    BY <1>7 DEF LeaveTUI, Detach, AdoptedPoll, Kill
  <2> QED
    BY <2>1, LeaveOwns
<1>8. ASSUME NEW p \in Procs, ServiceEnds(p) \/ AdoptedStop(p) PROVE OwnershipInv'
  <2>1. kind[p] = "herdr"
    BY <1>8 DEF ServiceEnds, AdoptedStop, OwnershipInv, OwnInv
  <2>2. \/ Leave(p, "failed")
        \/ Goto(p, "stopQuery") /\ UNCHANGED <<herdr, kind, spawned, term>>
    BY <1>8 DEF ServiceEnds, AdoptedStop
  <2> QED
    BY <2>1, <2>2, LeaveOwns, GoOwns DEF herdr, Points
<1>9. ASSUME NEW p \in Procs, StopQuery(p) \/ StopObserved(p) \/ StopGivesUp(p) PROVE OwnershipInv'
  <2>1. \/ \E outcome \in Rest : Leave(p, outcome)
        \/ /\ \E point \in {"childStop", "stopExec"} : Goto(p, point)
           /\ UNCHANGED <<herdr, kind, spawned, term>>
    BY <1>9 DEF StopQuery, StopObserved, StopGivesUp, AfterStop
  <2>2. kind[p] = "interactive" => spawned[p]
    BY <1>9 DEF StopQuery, StopObserved, StopGivesUp, OwnershipInv, OwnInv
  <2> QED
    BY <2>1, <2>2, LeaveOwns, GoOwns DEF herdr, Points
<1>10. ASSUME NEW p \in Procs, StopExec(p) PROVE OwnershipInv'
  <2>1. /\ Goto(p, "stopPoll") /\ (server' = server \/ server' = None)
        /\ UNCHANGED <<kind, spawned, term>>
    BY <1>10 DEF StopExec
  <2>2. kind[p] = "interactive" => spawned[p]
    BY <1>10 DEF StopExec, OwnershipInv, OwnInv
  <2> QED
    BY <2>1, <2>2, GoOwns DEF Points
<1>11. ASSUME NEW p \in Procs, Terminate(p) PROVE OwnershipInv'
  <2>1. ASSUME NEW q \in Procs PROVE term'[q] = IF q = p THEN TRUE ELSE term[q]
    BY <1>11 DEF Terminate, SessionInv, TypeOK
  <2>2. ASSUME NEW q \in Procs PROVE OwnInv(q)'
    BY <1>11, <2>1 DEF Terminate, herdr, OwnershipInv, OwnInv, Owning
  <2> QED
    BY <2>2 DEF OwnershipInv
<1>12. ASSUME NEW p \in Procs, ServerUp(p) PROVE OwnershipInv'
  <2>1. ASSUME NEW q \in Procs, Owning(q) PROVE server' \in {server, q}
    BY <1>12, <2>1 DEF ServerUp, StartsApart
  <2>2. ASSUME NEW q \in Procs PROVE OwnInv(q)'
    BY <1>12, <2>1 DEF ServerUp, OwnershipInv, OwnInv, Owning
  <2> QED
    BY <2>2 DEF OwnershipInv
<1>13. CASE StrayUp
  <2>1. ASSUME NEW q \in Procs, Owning(q) PROVE FALSE
    BY <1>13, <2>1 DEF StrayUp, StartsApart
  <2>2. ASSUME NEW q \in Procs PROVE OwnInv(q)'
    BY <1>13, <2>1 DEF StrayUp, OwnershipInv, OwnInv, Owning
  <2> QED
    BY <2>2 DEF OwnershipInv
<1>14. CASE ServerDown
  BY <1>14 DEF ServerDown, OwnershipInv, OwnInv, Owning
<1>15. CASE UNCHANGED vars
  BY <1>15 DEF vars, herdr, OwnershipInv, OwnInv, Owning
<1> QED
  BY <1>1, <1>2, <1>3, <1>4, <1>5, <1>6, <1>7, <1>8, <1>9, <1>10, <1>11, <1>12, <1>13, <1>14, <1>15
     DEF Next, Step

\* Cleanup follows ownership: with status calls that tell the truth, and no
\* other server starting while an interactive invocation starts or owns one,
\* it never stops a server that it has not spawned.  A start beside it, of
\* another invocation or left over from a killed one, is all that can break it.
THEOREM OwnershipHolds == ~Misreports => (Spec /\ []StartsApart => StopsOnlyItsOwn)
<1> SUFFICES ASSUME ~Misreports PROVE Spec /\ []StartsApart => StopsOnlyItsOwn
  OBVIOUS
<1>1. StartsApart /\ SessionInv /\ OwnershipInv /\ [Next]_vars => OwnershipInv'
  BY OwnershipStep
<1>2. OwnershipInv =>
        [\A p \in Procs :
           kind[p] = "interactive" /\ pc[p] = "stopExec" /\ pc'[p] = "stopPoll" =>
             server \in {p, None}]_vars
  BY DEF OwnershipInv, OwnInv, Owning, Stopping
<1> QED
  BY SessionInit, SessionStep, OwnershipInit, <1>1, <1>2, PTL DEF Spec, StopsOnlyItsOwn

-----------------------------------------------------------------------------
(* Progress.  An invocation goes through its points in one direction. *)

\* How many steps of its own an invocation at a point has left at most.  A poll
\* that finds the session as it was is none: in a loop it may wait without bound.
StepsLeft(point) ==
  CASE point \in Rest -> 0
    [] point = "childStop" -> 1
    [] point = "stopPoll" -> 2
    [] point = "stopExec" -> 3
    [] point = "stopQuery" -> 4
    [] point \in {"attached", "service", "adopted"} -> 5
    [] point = "tui" -> 6
    [] point = "infra" -> 7
    [] point = "await" -> 8
    [] point = "spawn" -> 9
    [] OTHER -> 10

\* Only an invocation itself moves itself: everybody else leaves its point and
\* its context alone, and can only end a server of its own.
LEMMA OthersKeep ==
  ASSUME NEW p \in Procs, SessionInv, [Next]_vars
  PROVE  \/ Step(p) \/ LeaveTUI(p) \/ Kill(p) \/ \E k \in Kinds : Start(p, k)
         \/ ServerUp(p)
         \/ /\ pc'[p] = pc[p] /\ spawned'[p] = spawned[p]
            /\ child'[p] = child[p] \/ (child[p] = "running" /\ child'[p] = "exited")
            /\ term'[p] \/ ~term[p]
<1> DEFINE Kept == /\ pc'[p] = pc[p] /\ spawned'[p] = spawned[p]
                   /\ child'[p] = child[p] \/ (child[p] = "running" /\ child'[p] = "exited")
                   /\ term'[p] \/ ~term[p]
<1> USE DEF SessionInv, TypeOK, Goto, Leave, StopChildAndLeave, Reset
<1>1. ASSUME NEW q \in Procs, q # p,
             Step(q) \/ LeaveTUI(q) \/ Kill(q) \/ (\E k \in Kinds : Start(q, k)) \/ ServerUp(q)
      PROVE  Kept
  <2>1. CASE EnsureQuery(q)
    BY <1>1, <2>1 DEF EnsureQuery
  <2>2. CASE Spawn(q) \/ AwaitReady(q) \/ AwaitFails(q)
    BY <1>1, <2>2 DEF Spawn, AwaitReady, AwaitFails, StopChildAfterAwait
  <2>3. CASE StartInfrastructure(q) \/ StartTUI(q)
    BY <1>1, <2>3 DEF StartInfrastructure, StartTUI, Cleanup
  <2>4. CASE Detach(q) \/ ServiceEnds(q) \/ AdoptedPoll(q) \/ AdoptedStop(q)
    BY <1>1, <2>4 DEF Detach, ServiceEnds, AdoptedPoll, AdoptedStop
  <2>5. CASE StopQuery(q) \/ StopObserved(q) \/ StopGivesUp(q)
    BY <1>1, <2>5 DEF StopQuery, StopObserved, StopGivesUp, AfterStop
  <2>6. CASE StopExec(q)
    BY <1>1, <2>6 DEF StopExec
  <2>7. CASE ChildStop(q) \/ LeaveTUI(q) \/ Kill(q)
    BY <1>1, <2>7 DEF ChildStop, LeaveTUI, Kill
  <2>8. CASE (\E k \in Kinds : Start(q, k)) \/ ServerUp(q)
    BY <1>1, <2>8 DEF Start, ServerUp
  <2> QED
    BY <1>1, <2>1, <2>2, <2>3, <2>4, <2>5, <2>6, <2>7, <2>8 DEF Step
<1>2. ASSUME NEW q \in Procs, Terminate(q) PROVE Kept
  BY <1>2 DEF Terminate
<1>3. ASSUME StrayUp \/ ServerDown \/ UNCHANGED vars PROVE Kept
  BY <1>3 DEF StrayUp, ServerDown, vars
<1> QED
  BY <1>1, <1>2, <1>3 DEF Next

\* Every step of its own takes an invocation to a later point, whatever it meets.
LEMMA OwnStep ==
  ASSUME NEW p \in Procs, SessionInv, Step(p)
  PROVE  /\ StepsLeft(pc'[p]) < StepsLeft(pc[p])
         /\ pc'[p] \in Rest \/ term'[p] = term[p]
<1> USE DEF SessionInv, TypeOK, Goto, Leave, StopChildAndLeave, Reset, StepsLeft, Rest
<1>1. CASE EnsureQuery(p)
  BY <1>1 DEF EnsureQuery
<1>2. CASE Spawn(p) \/ AwaitReady(p) \/ AwaitFails(p)
  BY <1>2 DEF Spawn, AwaitReady, AwaitFails, StopChildAfterAwait
<1>3. CASE StartInfrastructure(p) \/ StartTUI(p)
  BY <1>3 DEF StartInfrastructure, StartTUI, Cleanup
<1>4. CASE Detach(p) \/ ServiceEnds(p) \/ AdoptedPoll(p) \/ AdoptedStop(p)
  BY <1>4 DEF Detach, ServiceEnds, AdoptedPoll, AdoptedStop
<1>5. CASE StopQuery(p) \/ StopObserved(p) \/ StopGivesUp(p)
  BY <1>5 DEF StopQuery, StopObserved, StopGivesUp, AfterStop
<1>6. CASE StopExec(p) \/ ChildStop(p)
  BY <1>6 DEF StopExec, ChildStop
<1> QED
  BY <1>1, <1>2, <1>3, <1>4, <1>5, <1>6 DEF Step

\* A command under way stays where it is or gets further, and a context that is
\* cancelled stays so until it is over.
LEMMA WayOfACommand ==
  ASSUME NEW p \in Procs, SessionInv, [Next]_vars, pc[p] \notin Rest
  PROVE  /\ pc'[p] = pc[p] \/ (StepsLeft(pc'[p]) \in Nat /\ StepsLeft(pc'[p]) < StepsLeft(pc[p]))
         /\ pc'[p] \in Rest \/ term'[p] \/ ~term[p]
<1>1. pc[p] \in Points /\ pc'[p] \in Points
  BY SessionStep DEF SessionInv, TypeOK
<1>2. StepsLeft(pc'[p]) \in Nat
  BY <1>1 DEF StepsLeft
<1>3. CASE Step(p)
  BY <1>2, <1>3, OwnStep
<1>4. CASE LeaveTUI(p) \/ Kill(p)
  <2>1. pc'[p] \in Rest
    BY <1>4 DEF LeaveTUI, Kill, Leave, Reset, Goto, SessionInv, TypeOK, Rest
  <2>2. StepsLeft(pc'[p]) = 0
    BY <2>1 DEF StepsLeft, Rest
  <2>3. \A x \in Points \ Rest : StepsLeft(x) > 0
    BY DEF StepsLeft, Points, Rest
  <2> QED
    BY <1>1, <1>2, <2>1, <2>2, <2>3
<1>5. CASE (\E k \in Kinds : Start(p, k)) \/ ServerUp(p)
  BY <1>5 DEF Start, ServerUp
<1> QED
  BY <1>3, <1>4, <1>5, OthersKeep

-----------------------------------------------------------------------------
(* Liveness.  The provers take ENABLED as it is, so a theorem that uses a  *)
(* fairness condition names the states in which the action can be taken.   *)

\* Where a step of an invocation is possible: a wait ends with what it waits
\* for or, in every loop, with the cancelled context.
CanStep(p) ==
  \/ pc[p] \in {"ensure", "spawn", "await", "infra", "tui", "childStop"} \cup Stopping
  \/ pc[p] \in {"attached", "service"} /\ (ChildExited(p) \/ term[p])
  \/ pc[p] = "adopted" /\ (term[p] \/ server = None)

StepOpen(p) == [](CanStep(p) => ENABLED <<Step(p)>>_vars)
ServerOpen(p) == [](child[p] = "starting" => ENABLED <<ServerUp(p)>>_vars)

\* The guards of Step and of ServerUp are all that restricts them.
GuardsOpen ==
  \A p \in Procs : StepOpen(p) /\ ServerOpen(p)

\* Asked to terminate and at most k steps away from the end, or there.
EndsIn(p, k) == pc[p] \in Rest \/ (term[p] /\ StepsLeft(pc[p]) <= k)

Terminates(p) == term[p] ~> pc[p] \in Rest

Closer(p, l, k) == Spec /\ FairTo(p) /\ StepOpen(p) => (EndsIn(p, l) ~> EndsIn(p, k))

\* One step of the way.
LEMMA EndComesCloser ==
  ASSUME NEW p \in Procs, NEW k \in Nat, NEW l \in Nat, l = k + 1
  PROVE  Closer(p, l, k)
<1> DEFINE Here == term[p] /\ pc[p] \notin Rest /\ StepsLeft(pc[p]) = l
<1>1. SessionInv /\ EndsIn(p, l) => Here \/ EndsIn(p, k)
  <2>1. \A x \in Points : StepsLeft(x) \in Nat
    BY DEF StepsLeft
  <2> QED
    BY <2>1 DEF EndsIn, SessionInv, TypeOK
<1>2. SessionInv /\ Here => CanStep(p)
  BY DEF SessionInv, TypeOK, CanStep, Points
<1>3. SessionInv /\ Here /\ [Next]_vars => Here' \/ EndsIn(p, k)'
  BY WayOfACommand DEF EndsIn
<1>4. SessionInv /\ Here /\ <<Next /\ Step(p)>>_vars => EndsIn(p, k)'
  BY WayOfACommand, OwnStep DEF EndsIn
<1>5. Step(p) => Next
  BY DEF Next
<1> QED
  BY SessionInit, SessionStep, <1>1, <1>2, <1>3, <1>4, <1>5, PTL DEF Closer, Spec, FairTo, StepOpen

\* Ten steps are enough from anywhere.
LEMMA TerminatedEnds ==
  ASSUME NEW p \in Procs
  PROVE  Spec /\ FairTo(p) /\ StepOpen(p) => Terminates(p)
<1>1. SessionInv /\ term[p] => EndsIn(p, 10)
  <2>1. \A x \in Points : StepsLeft(x) \in 0..10
    BY DEF StepsLeft
  <2> QED
    BY <2>1 DEF EndsIn, SessionInv, TypeOK
<1>2. SessionInv /\ EndsIn(p, 0) => pc[p] \in Rest
  BY DEF EndsIn, SessionInv, TypeOK, StepsLeft, Points
<1>3. /\ Closer(p, 10, 9) /\ Closer(p, 9, 8) /\ Closer(p, 8, 7) /\ Closer(p, 7, 6) /\ Closer(p, 6, 5)
      /\ Closer(p, 5, 4) /\ Closer(p, 4, 3) /\ Closer(p, 3, 2) /\ Closer(p, 2, 1) /\ Closer(p, 1, 0)
  BY EndComesCloser
<1> QED
  BY SessionInit, SessionStep, <1>1, <1>2, <1>3, PTL DEF Spec, Closer, Terminates

\* A command asked to terminate returns, wherever it stands, whatever the
\* server does and however many invocations there are: every wait of it ends
\* with its deadline or the cancelled context, and no retry starts over
\* (supervise.go:176, supervise.go:320, supervise.go:352).
THEOREM TerminatedCommandsEnd == LiveSpec /\ GuardsOpen => TerminationEnds
<1>1. ASSUME NEW p \in Procs
      PROVE  Spec /\ FairTo(p) /\ StepOpen(p) => Terminates(p)
  BY TerminatedEnds
<1>2. LiveSpec /\ GuardsOpen => \A p \in Procs : Terminates(p)
  BY <1>1 DEF LiveSpec, Fairness, GuardsOpen
<1>3. (\A p \in Procs : Terminates(p)) => TerminationEnds
  BY DEF Terminates, TerminationEnds
<1> QED
  BY <1>2, <1>3

\* A service that spawned its server has a child from then on: it stays in
\* await and in service with the one it spawned.
ServiceInv ==
  \A p \in Procs : /\ pc[p] = "await" => child[p] # "none"
                   /\ pc[p] = "service" => child[p] # "none" /\ spawned[p]

LEMMA ServiceStep == SessionInv /\ ServiceInv /\ [Next]_vars => ServiceInv'
<1> SUFFICES ASSUME SessionInv, ServiceInv, [Next]_vars, NEW p \in Procs
             PROVE  /\ pc'[p] = "await" => child'[p] # "none"
                    /\ pc'[p] = "service" => child'[p] # "none" /\ spawned'[p]
  BY DEF ServiceInv
<1> USE DEF SessionInv, TypeOK, ServiceInv, Goto, Leave, StopChildAndLeave, Reset, Rest
<1>1. CASE EnsureQuery(p)
  BY <1>1 DEF EnsureQuery
<1>2. CASE Spawn(p) \/ AwaitReady(p) \/ AwaitFails(p)
  BY <1>2 DEF Spawn, AwaitReady, AwaitFails, StopChildAfterAwait
<1>3. CASE StartInfrastructure(p) \/ StartTUI(p)
  BY <1>3 DEF StartInfrastructure, StartTUI, Cleanup
<1>4. CASE Detach(p) \/ ServiceEnds(p) \/ AdoptedPoll(p) \/ AdoptedStop(p)
  BY <1>4 DEF Detach, ServiceEnds, AdoptedPoll, AdoptedStop
<1>5. CASE StopQuery(p) \/ StopObserved(p) \/ StopGivesUp(p)
  BY <1>5 DEF StopQuery, StopObserved, StopGivesUp, AfterStop
<1>6. CASE StopExec(p) \/ ChildStop(p)
  BY <1>6 DEF StopExec, ChildStop
<1>7. CASE LeaveTUI(p) \/ Kill(p)
  BY <1>7 DEF LeaveTUI, Kill
<1>8. CASE (\E k \in Kinds : Start(p, k)) \/ ServerUp(p)
  BY <1>8 DEF Start, ServerUp
<1> QED
  BY <1>1, <1>2, <1>3, <1>4, <1>5, <1>6, <1>7, <1>8, OthersKeep DEF Step

\* What the service manager waits for, of one service.
Notices(p) ==
  pc[p] \in {"service", "adopted"} /\ server = None
    ~> pc[p] \notin {"service", "adopted"} \/ server # None

\* The step of a service leaves it, and nothing but it or the end does.
LEMMA ServiceMoves ==
  ASSUME NEW p \in Procs, SessionInv, [Next]_vars, pc[p] \in {"service", "adopted"}
  PROVE  /\ Step(p) => pc'[p] \notin {"service", "adopted"}
         /\ \/ pc'[p] \notin {"service", "adopted"}
            \/ pc'[p] = pc[p] /\ (child'[p] = child[p] \/ child'[p] \in {"exited", "running"})
<1>1. pc[p] \notin Rest /\ pc[p] \in Points /\ pc'[p] \in Points
  BY SessionStep DEF SessionInv, TypeOK, Rest
<1>2. ASSUME StepsLeft(pc'[p]) < StepsLeft(pc[p]) PROVE pc'[p] \notin {"service", "adopted"}
  BY <1>2 DEF StepsLeft, Rest
<1>3. Step(p) => pc'[p] \notin {"service", "adopted"}
  BY <1>2, OwnStep
<1>4. pc'[p] \notin {"service", "adopted"} \/ pc'[p] = pc[p]
  BY <1>1, <1>2, WayOfACommand
<1>5. CASE LeaveTUI(p) \/ Kill(p)
  BY <1>3, <1>5 DEF LeaveTUI, Kill, Leave, Reset, Goto, SessionInv, TypeOK, Rest
<1>6. CASE (\E k \in Kinds : Start(p, k)) \/ ServerUp(p)
  BY <1>1, <1>3, <1>4, <1>6 DEF Start, ServerUp, SessionInv, TypeOK
<1> QED
  BY <1>3, <1>4, <1>5, <1>6, OthersKeep

LEMMA ServiceSees ==
  ASSUME NEW p \in Procs
  PROVE  Spec /\ FairTo(p) /\ StepOpen(p) /\ ServerOpen(p) => Notices(p)
<1> DEFINE Unseen   == pc[p] \in {"service", "adopted"} /\ server = None
           Starting == Unseen /\ child[p] = "starting"
           Ready    == Unseen /\ child[p] # "starting"
<1>1. Init => ServiceInv
  BY DEF Init, ServiceInv
<1>2. SessionInv /\ ServiceInv /\ Ready => CanStep(p)
  BY SessionAssumption DEF SessionInv, TypeOK, ServiceInv, CanStep, ChildExited
<1>3. SessionInv /\ Ready /\ [Next]_vars => Ready' \/ ~Unseen'
  BY ServiceMoves
<1>4. SessionInv /\ Ready /\ <<Next /\ Step(p)>>_vars => ~Unseen'
  BY ServiceMoves
<1>5. SessionInv /\ Starting /\ [Next]_vars => Starting' \/ Ready' \/ ~Unseen'
  OBVIOUS
<1>6. SessionInv /\ Starting /\ <<Next /\ ServerUp(p)>>_vars => Ready' \/ ~Unseen'
  BY DEF ServerUp, SessionInv, TypeOK
<1>7. (Step(p) => Next) /\ (ServerUp(p) => Next)
  BY DEF Next
<1>8. /\ Starting => child[p] = "starting"
      /\ ~Unseen <=> (pc[p] \notin {"service", "adopted"} \/ server # None)
      /\ Unseen <=> Starting \/ Ready
  OBVIOUS
<1> HIDE DEF Unseen, Starting, Ready
<1>9. Unseen <=> (pc[p] \in {"service", "adopted"} /\ server = None)
  BY DEF Unseen
<1> QED
  BY SessionInit, SessionStep, ServiceStep, <1>1, <1>2, <1>3, <1>4, <1>5, <1>6, <1>7, <1>8, <1>9, PTL
     DEF Spec, FairTo, StepOpen, ServerOpen, Notices

\* A service, whether it spawned its server or adopted one, does not stay once
\* the server is gone and none comes back: its child's exit is read, or its
\* poll finds nobody (supervise.go:349, supervise.go:366).
THEOREM ServicesNotice == LiveSpec /\ GuardsOpen => ServiceNotices
<1>1. ASSUME NEW p \in Procs
      PROVE  Spec /\ FairTo(p) /\ StepOpen(p) /\ ServerOpen(p) => Notices(p)
  BY ServiceSees
<1>2. LiveSpec /\ GuardsOpen => \A p \in Procs : Notices(p)
  BY <1>1 DEF LiveSpec, Fairness, GuardsOpen
<1>3. (\A p \in Procs : Notices(p)) => ServiceNotices
  BY DEF Notices, ServiceNotices
<1> QED
  BY <1>2, <1>3
=============================================================================
