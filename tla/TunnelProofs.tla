---------------------------- MODULE TunnelProofs ----------------------------
(***************************************************************************)
(* Theorems about Tunnel, for every set of invocations and ports and every *)
(* number of attempts.                                                     *)
(***************************************************************************)
EXTENDS Tunnel, TLAPS

-----------------------------------------------------------------------------
(* The delay before the next attempt. *)

\* Whatever the number of failures in a row, the next delay lies between one
\* and thirty seconds and is no shorter than the one before could be.
THEOREM BackoffIsBounded == \A a \in Nat : BackoffBounded(a)
<1> SUFFICES ASSUME NEW a \in Nat PROVE BackoffBounded(a)
  OBVIOUS
<1>1. a = 0 \/ a = 1 \/ a = 2 \/ a = 3 \/ a = 4 \/ a >= 5
  OBVIOUS
<1>2. ASSUME a = 0 \/ a = 1 \/ a = 2 PROVE BackoffBounded(a)
  BY <1>2 DEF BackoffBounded, DelayMin, DelayMax, MaxJitter, Base, Least, Second, Ceiling
<1>3. ASSUME a = 3 \/ a = 4 \/ a >= 5 PROVE BackoffBounded(a)
  BY <1>3 DEF BackoffBounded, DelayMin, DelayMax, MaxJitter, Base, Least, Second, Ceiling
<1> QED
  BY <1>1, <1>2, <1>3

-----------------------------------------------------------------------------
(* What an invocation holds at each point. *)

\* A port is listened on only by an sshd that is up, the reverse port is held
\* only by an ssh that is up, and ssh runs only while tunnelLoop watches it.
HoldInv(p) ==
  /\ sshd[p] # "up" => \A q \in Ports : listener[q] # p
  /\ ssh[p] # "up" => remote # p
  /\ loop[p] # "watch" => ssh[p] = "none"
  /\ pc[p] \in Rest \cup Starting => loop[p] = "none"
  /\ pc[p] \in Rest \cup {"pick", "write", "spawn", "join"} => sshd[p] = "none"
  /\ pc[p] \in {"write", "spawn", "wait"} => port[p] \in Ports
  /\ pc[p] \in {"spawn", "wait", "run", "stop"} => config \in Ports

TunnelInv == TypeOK /\ \A p \in Procs : HoldInv(p)

\* Nothing runs at first.
LEMMA TunnelInit == Init => TunnelInv
BY TunnelAssumption, SMTT(60) DEF Init, TunnelInv, TypeOK, HoldInv, Rest, Starting, Leaving

\* Every step keeps the children of an invocation and its program counter
\* together, whatever the other invocations and programs do.
LEMMA TunnelStep == TunnelInv /\ [Next]_vars => TunnelInv'
<1> SUFFICES ASSUME TunnelInv, [Next]_vars PROVE TunnelInv'
  OBVIOUS
<1> USE TunnelAssumption DEF TunnelInv, TypeOK, HoldInv, Rest, Starting, Leaving,
      machine, daemon, tunnel, Goto, Reset, Unlisten, Disconnected
<1>1. ASSUME NEW p \in Procs, Start(p) PROVE TunnelInv'
  BY <1>1 DEF Start
<1>2. ASSUME NEW p \in Procs, PickPort(p) PROVE TunnelInv'
  BY <1>2 DEF PickPort
<1>3. ASSUME NEW p \in Procs, WriteRuntimeConfig(p) PROVE TunnelInv'
  BY <1>3 DEF WriteRuntimeConfig
<1>4. ASSUME NEW p \in Procs, SpawnSSHD(p) PROVE TunnelInv'
  BY <1>4 DEF SpawnSSHD
<1>5. ASSUME NEW p \in Procs, StartFails(p) PROVE TunnelInv'
  BY <1>5 DEF StartFails
<1>6. ASSUME NEW p \in Procs, SSHDReady(p) PROVE TunnelInv'
  BY <1>6 DEF SSHDReady
<1>7. ASSUME NEW p \in Procs, SSHDExits(p) PROVE TunnelInv'
  <2>1. CASE MoreAttempts(p)
    BY <1>7, <2>1 DEF SSHDExits, AttemptFails, MoreAttempts
  <2>2. CASE ~MoreAttempts(p)
    <3>1. Reset(p, "failed")
      BY <1>7, <2>2 DEF SSHDExits, AttemptFails, MoreAttempts
    <3> QED
      BY <1>7, <3>1 DEF SSHDExits
  <2> QED
    BY <2>1, <2>2
<1>8. ASSUME NEW p \in Procs, SSHDTimeout(p) PROVE TunnelInv'
  <2>1. CASE MoreAttempts(p)
    BY <1>8, <2>1 DEF SSHDTimeout, AttemptFails, MoreAttempts, StopSSHD
  <2>2. CASE ~MoreAttempts(p)
    <3>1. Reset(p, "failed")
      BY <1>8, <2>2 DEF SSHDTimeout, AttemptFails, MoreAttempts
    <3> QED
      BY <1>8, <3>1 DEF SSHDTimeout, StopSSHD
  <2> QED
    BY <2>1, <2>2
<1>9. ASSUME NEW p \in Procs, StartCancelled(p) PROVE TunnelInv'
  BY <1>9 DEF StartCancelled, StopSSHD
<1>10. ASSUME NEW p \in Procs, EndRun(p) PROVE TunnelInv'
  BY <1>10 DEF EndRun, EndOfRun
<1>11. ASSUME NEW p \in Procs, StopDaemon(p) PROVE TunnelInv'
  BY <1>11 DEF StopDaemon, StopSSHD
<1>12. ASSUME NEW p \in Procs, Join(p) PROVE TunnelInv'
  BY <1>12 DEF Join, Joined
<1>13. ASSUME NEW p \in Procs, LoopEnds(p) PROVE TunnelInv'
  BY <1>13 DEF LoopEnds, Continue, Cancelled
<1>14. ASSUME NEW p \in Procs, StartSSH(p) PROVE TunnelInv'
  BY <1>14 DEF StartSSH, Continue, Cancelled
<1>15. ASSUME NEW p \in Procs, SSHStartFails(p) PROVE TunnelInv'
  BY <1>15 DEF SSHStartFails, BackOff, Continue, Cancelled, Least
<1>16. ASSUME NEW p \in Procs, SSHExits(p) PROVE TunnelInv'
  BY <1>16 DEF SSHExits, BackOff, Continue, Cancelled, Least
<1>17. ASSUME NEW p \in Procs, StopSSH(p) PROVE TunnelInv'
  BY <1>17 DEF StopSSH, WatchCancelled, Continue, Cancelled
<1>18. ASSUME NEW p \in Procs, Redial(p) PROVE TunnelInv'
  BY <1>18 DEF Redial, DelayOver, Continue, Cancelled
<1>19. ASSUME NEW p \in Procs, Terminate(p) PROVE TunnelInv'
  BY <1>19 DEF Terminate
<1>20. ASSUME NEW p \in Procs, Kill(p) PROVE TunnelInv'
  BY <1>20 DEF Kill, Orphaned
<1>21. ASSUME NEW p \in Procs, SSHDUp(p) PROVE TunnelInv'
  BY <1>21 DEF SSHDUp
<1>22. ASSUME NEW p \in Procs, SSHDCrash(p) PROVE TunnelInv'
  BY <1>22 DEF SSHDCrash
<1>23. ASSUME NEW p \in Procs, Connect(p) PROVE TunnelInv'
  BY <1>23 DEF Connect
<1>24. ASSUME NEW p \in Procs, Disconnect(p) PROVE TunnelInv'
  BY <1>24 DEF Disconnect
<1>25. ASSUME NEW q \in Ports, OtherProgram(q) PROVE TunnelInv'
  BY <1>25 DEF OtherProgram
<1>26. CASE Release
  BY <1>26 DEF Release
<1>27. CASE UNCHANGED vars
  BY <1>27 DEF vars
<1> QED
  BY <1>1, <1>2, <1>3, <1>4, <1>5, <1>6, <1>7, <1>8, <1>9, <1>10, <1>11, <1>12,
     <1>13, <1>14, <1>15, <1>16, <1>17, <1>18, <1>19, <1>20, <1>21, <1>22, <1>23,
     <1>24, <1>25, <1>26, <1>27 DEF Next, MainStep, LoopStep

\* Nobody but the invocation, its children and its signals changes what it has.
Same(p) ==
  /\ pc'[p] = pc[p] /\ result'[p] = result[p] /\ term'[p] = term[p]
  /\ port'[p] = port[p] /\ tries'[p] = tries[p] /\ sshd'[p] = sshd[p]
  /\ loop'[p] = loop[p] /\ ssh'[p] = ssh[p] /\ attempt'[p] = attempt[p]

Own(p) == \/ Start(p) \/ MainStep(p) \/ LoopStep(p) \/ Terminate(p) \/ Kill(p)
          \/ SSHDUp(p) \/ SSHDCrash(p) \/ Connect(p) \/ Disconnect(p)

LEMMA OthersKeep ==
  ASSUME NEW p \in Procs, TunnelInv, [Next]_vars
  PROVE  Own(p) \/ Same(p)
<1> USE DEF TunnelInv, TypeOK, Same, Goto, Reset, machine, daemon, tunnel
<1>1. ASSUME NEW q \in Procs, q # p, MainStep(q) PROVE Same(p)
  <2>1. CASE Start(q) \/ PickPort(q) \/ WriteRuntimeConfig(q) \/ SpawnSSHD(q) \/ StartFails(q)
    BY <1>1, <2>1 DEF Start, PickPort, WriteRuntimeConfig, SpawnSSHD, StartFails
  <2>2. CASE SSHDReady(q) \/ StartCancelled(q)
    BY <1>1, <2>2 DEF SSHDReady, StartCancelled
  <2>3. CASE SSHDExits(q) \/ SSHDTimeout(q)
    <3>1. AttemptFails(q) /\ remote' = remote
      BY <2>3 DEF SSHDExits, SSHDTimeout
    <3> QED
      BY <1>1, <3>1 DEF AttemptFails
  <2>4. CASE EndRun(q) \/ StopDaemon(q) \/ Join(q)
    BY <1>1, <2>4 DEF EndRun, EndOfRun, StopDaemon, Join
  <2> QED
    BY <1>1, <2>1, <2>2, <2>3, <2>4 DEF MainStep
<1>2. ASSUME NEW q \in Procs, q # p, LoopStep(q) PROVE Same(p)
  BY <1>2 DEF LoopStep, LoopEnds, StartSSH, SSHStartFails, SSHExits, StopSSH, Redial, BackOff, Continue
<1>3. ASSUME NEW q \in Procs, q # p, Start(q) \/ Terminate(q) \/ Kill(q) PROVE Same(p)
  BY <1>3 DEF Start, Terminate, Kill
<1>4. ASSUME NEW q \in Procs, q # p, SSHDUp(q) \/ SSHDCrash(q) \/ Connect(q) \/ Disconnect(q)
      PROVE  Same(p)
  BY <1>4 DEF SSHDUp, SSHDCrash, Connect, Disconnect
<1>5. ASSUME (\E q \in Ports : OtherProgram(q)) \/ Release \/ UNCHANGED vars PROVE Same(p)
  BY <1>5 DEF OtherProgram, Release, vars
<1> QED
  BY <1>1, <1>2, <1>3, <1>4, <1>5 DEF Next, Own

\* The type invariant.
THEOREM TunnelTypeCorrect == Spec => []TypeOK
<1>1. TunnelInv => TypeOK
  BY DEF TunnelInv
<1> QED
  BY TunnelInit, TunnelStep, <1>1, PTL DEF Spec

\* Every delay of every run is within its bounds.
THEOREM EveryDelayBounded == Spec => []DelaysBounded
<1>1. TunnelInv => DelaysBounded
  <2>1. ASSUME TunnelInv, NEW p \in Procs PROVE attempt[p] \in Nat
    BY <2>1, TunnelAssumption DEF TunnelInv, TypeOK
  <2> QED
    BY <2>1, BackoffIsBounded DEF DelaysBounded
<1> QED
  BY TunnelInit, TunnelStep, <1>1, PTL DEF Spec

\* An invocation that returns leaves no sshd and no ssh behind, however many
\* others run at the same time.
THEOREM ReturnsCleanly == Spec => NothingLeftBehind
<1> DEFINE Clean(p) == /\ \A q \in Ports : listener'[q] # p
                       /\ ssh[p] \in {"none", "exited"} /\ remote' # p
<1>1. ASSUME TunnelInv, [Next]_vars, NEW p \in Procs,
             pc[p] \notin Rest, pc'[p] \in {"idle", "failed"}
      PROVE  Clean(p)
  <2> USE TunnelAssumption DEF TunnelInv, TypeOK, HoldInv, Rest, Starting, Leaving,
        machine, Goto, Reset, Unlisten
  <2>1. CASE StartFails(p)
    BY <1>1, <2>1 DEF StartFails
  <2>2. CASE SSHDExits(p)
    BY <1>1, <2>2 DEF SSHDExits
  <2>3. CASE SSHDTimeout(p)
    BY <1>1, <2>3 DEF SSHDTimeout, StopSSHD
  <2>4. CASE StartCancelled(p)
    BY <1>1, <2>4 DEF StartCancelled, StopSSHD
  <2>5. CASE Join(p)
    BY <1>1, <2>5 DEF Join, Joined
  <2>6. CASE PickPort(p) \/ WriteRuntimeConfig(p) \/ SpawnSSHD(p) \/ SSHDReady(p)
             \/ EndRun(p) \/ StopDaemon(p)
    BY <1>1, <2>6 DEF PickPort, WriteRuntimeConfig, SpawnSSHD, SSHDReady, EndRun, StopDaemon
  <2>7. CASE LoopStep(p) \/ Start(p) \/ Kill(p)
    BY <1>1, <2>7 DEF LoopStep, LoopEnds, StartSSH, SSHStartFails, SSHExits, StopSSH, Redial, Start, Kill
  <2>8. CASE Terminate(p) \/ SSHDUp(p) \/ SSHDCrash(p) \/ Connect(p) \/ Disconnect(p)
    BY <1>1, <2>8 DEF Terminate, SSHDUp, SSHDCrash, Connect, Disconnect
  <2>9. CASE Same(p)
    BY <1>1, <2>9 DEF Same
  <2> QED
    BY <1>1, <2>1, <2>2, <2>3, <2>4, <2>5, <2>6, <2>7, <2>8, <2>9, OthersKeep DEF Own, MainStep
<1>2. TunnelInv /\ [Next]_vars =>
        [\A p \in Procs : pc[p] \notin Rest /\ pc'[p] \in {"idle", "failed"} => Clean(p)]_vars
  BY <1>1
<1> QED
  BY TunnelInit, TunnelStep, <1>2, PTL DEF Spec, NothingLeftBehind

-----------------------------------------------------------------------------
(* Progress.  What one invocation does is its own affair. *)

\* The steps of its own that an invocation has left at most: four for every
\* attempt of startSSHD, and the way out.
Left(point, looping, used) ==
  CASE point \in Rest                         -> 0
    [] point = "join" /\ looping = "done"     -> 1
    [] point = "join" /\ looping # "done"     -> 2
    [] point = "stop"                         -> 3
    [] point = "run"                          -> 4
    [] point = "wait"                         -> 4 * (MaxTries - used) + 1
    [] point = "spawn"                        -> 4 * (MaxTries - used) + 2
    [] point = "write"                        -> 4 * (MaxTries - used) + 3
    [] point = "pick"                         -> 4 * (MaxTries - used) + 4

EndLeft(p) == Left(pc[p], loop[p], tries[p])

\* A goroutine of tunnelLoop exists while the invocation runs or leaves.
LoopInv == \A p \in Procs : pc[p] \in Leaving \cup {"run"} => loop[p] # "none"

LEMMA LeftType ==
  ASSUME NEW x \in Rest \cup Starting \cup Leaving \cup {"run"}, NEW y, NEW n \in 0..(MaxTries - 1)
  PROVE  /\ Left(x, y, n) \in Nat /\ Left(x, y, n) <= 4 * MaxTries + 4
         /\ Left(x, y, n) = 0 <=> x \in Rest
         /\ Left(x, y, n) >= 5 <=> x \in Starting
<1>1. MaxTries \in Nat \ {0}
  BY TunnelAssumption
<1>2. PICK t \in 1..MaxTries : t = MaxTries - n
  BY <1>1
<1>3. CASE x \in Rest
  <2>1. Left(x, y, n) = 0
    BY <1>3 DEF Left, Rest
  <2> QED
    BY <1>1, <1>3, <2>1 DEF Rest, Starting
<1>4. CASE x \in Leaving \cup {"run"}
  <2>1. Left(x, y, n) \in 1..4
    BY <1>4 DEF Left, Rest, Leaving
  <2> QED
    BY <1>1, <1>4, <2>1 DEF Rest, Starting, Leaving
<1>5. CASE x \in Starting
  <2>1. Left(x, y, n) \in {4 * t + 1, 4 * t + 2, 4 * t + 3, 4 * t + 4}
    BY <1>2, <1>5 DEF Left, Rest, Starting
  <2>2. 4 * t >= 4 /\ 4 * t <= 4 * MaxTries /\ 4 * t \in Nat
    BY <1>1, <1>2
  <2> QED
    BY <1>1, <1>5, <2>1, <2>2 DEF Rest, Starting
<1> QED
  BY <1>3, <1>4, <1>5

LEMMA EndLeftType ==
  ASSUME TunnelInv, NEW p \in Procs
  PROVE  /\ EndLeft(p) \in Nat /\ EndLeft(p) <= 4 * MaxTries + 4
         /\ EndLeft(p) = 0 <=> pc[p] \in Rest
         /\ EndLeft(p) >= 5 <=> pc[p] \in Starting
BY LeftType DEF EndLeft, TunnelInv, TypeOK

LEMMA EndLeftNext ==
  ASSUME TunnelInv', NEW p \in Procs
  PROVE  EndLeft(p)' \in Nat /\ (EndLeft(p)' = 0 <=> pc'[p] \in Rest)
BY LeftType DEF EndLeft, TunnelInv, TypeOK

\* Every step of an invocation's main goroutine takes it further.
LEMMA MainAdvances ==
  ASSUME NEW p \in Procs, TunnelInv, TunnelInv', MainStep(p)
  PROVE  EndLeft(p)' < EndLeft(p)
<1>1. /\ tries[p] \in 0..(MaxTries - 1) /\ tries'[p] \in 0..(MaxTries - 1)
      /\ MaxTries \in Nat \ {0} /\ EndLeft(p) \in Nat
  BY TunnelAssumption, EndLeftType DEF TunnelInv, TypeOK
<1>2. PICK t \in 1..MaxTries : t = MaxTries - tries[p]
  BY <1>1
<1>3. 4 * t \in Nat /\ 4 * t >= 4
  BY <1>1, <1>2
<1>4. CASE SSHDExits(p) \/ SSHDTimeout(p)
  <2>1. pc[p] = "wait" /\ AttemptFails(p)
    BY <1>4 DEF SSHDExits, SSHDTimeout
  <2>2. CASE pc'[p] = "pick" /\ tries'[p] = tries[p] + 1
    <3>1. MaxTries - tries'[p] = t - 1 /\ 4 * (t - 1) = 4 * t - 4
      BY <1>1, <1>2, <2>2
    <3>2. EndLeft(p)' = 4 * (t - 1) + 4
      BY <2>2, <3>1 DEF EndLeft, Left, Rest
    <3>3. EndLeft(p) = 4 * t + 1
      BY <1>2, <2>1 DEF EndLeft, Left, Rest
    <3> QED
      BY <3>1, <3>2, <3>3
  <2>3. CASE pc'[p] \in Rest
    <3>1. EndLeft(p)' = 0
      BY <2>3 DEF EndLeft, Left, Rest
    <3> QED
      BY <1>1, <2>1, <3>1, EndLeftType DEF Starting
  <2> QED
    BY <2>1, <2>2, <2>3 DEF AttemptFails, Reset, Goto, Rest, TunnelInv, TypeOK
<1> USE DEF TunnelInv, TypeOK, Goto, daemon
<1>5. CASE PickPort(p)
  <2>1. pc[p] = "pick" /\ pc'[p] = "write" /\ tries'[p] = tries[p]
    BY <1>5 DEF PickPort
  <2> QED
    BY <1>2, <1>3, <2>1 DEF EndLeft, Left, Rest
<1>6. CASE WriteRuntimeConfig(p)
  <2>1. pc[p] = "write" /\ pc'[p] = "spawn" /\ tries'[p] = tries[p]
    BY <1>6 DEF WriteRuntimeConfig
  <2> QED
    BY <1>2, <1>3, <2>1 DEF EndLeft, Left, Rest
<1>7. CASE SpawnSSHD(p)
  <2>1. pc[p] = "spawn" /\ pc'[p] = "wait" /\ tries'[p] = tries[p]
    BY <1>7 DEF SpawnSSHD
  <2> QED
    BY <1>2, <1>3, <2>1 DEF EndLeft, Left, Rest
<1>8. CASE SSHDReady(p)
  <2>1. pc[p] = "wait" /\ pc'[p] = "run"
    BY <1>8 DEF SSHDReady
  <2>2. EndLeft(p)' = 4
    BY <2>1 DEF EndLeft, Left, Rest
  <2> QED
    BY <1>2, <1>3, <2>1, <2>2 DEF EndLeft, Left, Rest
<1>9. CASE EndRun(p) \/ StopDaemon(p)
  <2>1. (pc[p] = "run" /\ pc'[p] = "stop") \/ (pc[p] = "stop" /\ pc'[p] = "join")
    BY <1>9 DEF EndRun, StopDaemon
  <2> QED
    BY <2>1 DEF EndLeft, Left, Rest
<1>10. CASE StartFails(p) \/ StartCancelled(p) \/ Join(p)
  <2>1. pc[p] \notin Rest /\ pc'[p] \in Rest
    BY <1>10 DEF StartFails, StartCancelled, Join, Reset, Rest
  <2>2. EndLeft(p)' = 0
    BY <2>1 DEF EndLeft, Left, Rest
  <2> QED
    BY <1>1, <2>1, <2>2, EndLeftType
<1> QED
  BY <1>4, <1>5, <1>6, <1>7, <1>8, <1>9, <1>10 DEF MainStep

\* What a step of tunnelLoop does for an invocation that waits for it.
LEMMA LoopLeaves ==
  ASSUME NEW p \in Procs, TunnelInv, LoopStep(p)
  PROVE  /\ pc' = pc /\ term' = term /\ tries' = tries /\ loop[p] # "done"
         /\ pc[p] = "join" => loop'[p] = "done"
BY DEF TunnelInv, TypeOK, LoopStep, LoopEnds, StartSSH, SSHStartFails, SSHExits, StopSSH, Redial,
   DelayOver, WatchCancelled, BackOff, Continue, Cancelled, Leaving, daemon

\* Nothing takes an invocation back, and one asked to end is not asked in vain.
LEMMA WayOut ==
  ASSUME NEW p \in Procs, TunnelInv, [Next]_vars, pc[p] \notin Rest
  PROVE  /\ EndLeft(p) \in Nat /\ EndLeft(p)' \in Nat /\ EndLeft(p)' <= EndLeft(p)
         /\ pc'[p] \in Rest \/ term'[p] \/ ~term[p]
<1>1. TunnelInv' /\ EndLeft(p) \in Nat
  BY TunnelStep, EndLeftType
<1>2. EndLeft(p)' \in Nat
  BY <1>1, EndLeftNext
<1>3. ASSUME pc'[p] = pc[p], tries'[p] = tries[p],
             loop'[p] = loop[p] \/ (loop[p] # "done" /\ loop'[p] = "done" /\ pc[p] = "join")
             \/ pc[p] # "join"
      PROVE  EndLeft(p)' <= EndLeft(p)
  <2>1. CASE pc[p] = "join"
    BY <1>3, <2>1 DEF EndLeft, Left, Rest
  <2>2. CASE pc[p] # "join"
    <3>1. CASE pc[p] \in {"stop", "run"}
      BY <1>3, <3>1 DEF EndLeft, Left, Rest
    <3>2. CASE pc[p] = "wait" \/ pc[p] = "spawn"
      BY <1>1, <1>3, <3>2 DEF EndLeft, Left, Rest
    <3>3. CASE pc[p] = "write" \/ pc[p] = "pick"
      BY <1>1, <1>3, <3>3 DEF EndLeft, Left, Rest
    <3> QED
      BY <2>2, <3>1, <3>2, <3>3 DEF TunnelInv, TypeOK, Starting, Leaving
  <2> QED
    BY <2>1, <2>2
<1>4. CASE MainStep(p)
  <2>1. pc'[p] \in Rest \/ term'[p] = term[p]
    BY <1>4 DEF MainStep, PickPort, WriteRuntimeConfig, SpawnSSHD, StartFails, SSHDReady, SSHDExits,
       SSHDTimeout, StartCancelled, AttemptFails, EndRun, StopDaemon, Join, Reset, Goto, Rest,
       TunnelInv, TypeOK
  <2> QED
    BY <1>1, <1>2, <1>4, <2>1, MainAdvances
<1>5. CASE LoopStep(p)
  BY <1>1, <1>2, <1>3, <1>5, LoopLeaves
<1>6. CASE Kill(p)
  <2>1. pc'[p] \in Rest
    BY <1>6 DEF Kill, Reset, Goto, Rest, TunnelInv, TypeOK
  <2>2. EndLeft(p)' = 0
    BY <2>1 DEF EndLeft, Left, Rest
  <2> QED
    BY <1>1, <2>1, <2>2
<1>7. CASE Terminate(p) \/ SSHDUp(p) \/ SSHDCrash(p) \/ Connect(p) \/ Disconnect(p)
  <2>1. pc'[p] = pc[p] /\ tries'[p] = tries[p] /\ loop'[p] = loop[p] /\ (term'[p] \/ ~term[p])
    BY <1>7 DEF Terminate, SSHDUp, SSHDCrash, Connect, Disconnect, daemon, tunnel, TunnelInv, TypeOK
  <2> QED
    BY <1>1, <1>2, <1>3, <2>1
<1>8. CASE Same(p)
  BY <1>1, <1>2, <1>3, <1>8 DEF Same
<1>9. ~Start(p)
  BY DEF Start
<1> QED
  BY <1>4, <1>5, <1>6, <1>7, <1>8, <1>9, OthersKeep DEF Own

\* Whatever happens to its ports, its sshd and its ssh, an invocation has at
\* most 4 * MaxTries + 4 steps before it is over, and nothing gives it more:
\* startSSHD does not go round for ever, and once the end has come only
\* tunnelLoop is waited for (supervise.go:113, supervise.go:393).
THEOREM EveryInvocationAdvances ==
  Spec => [][\A p \in Procs :
               /\ MainStep(p) => EndLeft(p)' < EndLeft(p)
               /\ pc[p] \notin Rest => EndLeft(p)' <= EndLeft(p)]_vars
<1>1. TunnelInv /\ [Next]_vars =>
        [\A p \in Procs :
           /\ MainStep(p) => EndLeft(p)' < EndLeft(p)
           /\ pc[p] \notin Rest => EndLeft(p)' <= EndLeft(p)]_vars
  <2> SUFFICES ASSUME TunnelInv, [Next]_vars, NEW p \in Procs
               PROVE  /\ MainStep(p) => EndLeft(p)' < EndLeft(p)
                      /\ pc[p] \notin Rest => EndLeft(p)' <= EndLeft(p)
    OBVIOUS
  <2> QED
    BY TunnelStep, MainAdvances, WayOut
<1> QED
  BY TunnelInit, TunnelStep, <1>1, PTL DEF Spec

-----------------------------------------------------------------------------
(* Liveness.  The provers take ENABLED as it is, so a theorem that uses a  *)
(* fairness condition names the states in which the action can be taken.   *)

\* Where the two goroutines of an invocation can take a step.
MainCan(p) == \/ pc[p] \in Starting \cup {"stop"}
              \/ pc[p] = "run" /\ (sshd[p] = "exited" \/ term[p])
              \/ pc[p] = "join" /\ loop[p] = "done"
LoopCan(p) == \/ loop[p] \in {"dial", "backoff"}
              \/ loop[p] = "watch" /\ (ssh[p] = "exited" \/ Cancelled(p))

MainOpen(p)    == [](MainCan(p) => ENABLED <<MainStep(p)>>_vars)
LoopOpen(p)    == [](LoopCan(p) => ENABLED <<LoopStep(p)>>_vars)
AnswerOpen(p)  == [](ssh[p] = "connecting" =>
                       ENABLED <<ssh[p] = "connecting" /\ (Connect(p) \/ Disconnect(p))>>_vars)
DialOpen(p)    == [](loop[p] = "dial" /\ ~Cancelled(p) => ENABLED <<StartSSH(p)>>_vars)
ConnectOpen(p) == [](ssh[p] = "connecting" /\ remote = None => ENABLED <<Connect(p)>>_vars)
ReleaseOpen    == [](remote = Stale => ENABLED <<Release /\ remote = Stale>>_vars)

\* The guards are all that restricts the actions.
GuardsOpen ==
  /\ \A p \in Procs : MainOpen(p) /\ LoopOpen(p) /\ AnswerOpen(p) /\ DialOpen(p) /\ ConnectOpen(p)
  /\ ReleaseOpen

LEMMA LoopStays == TunnelInv /\ LoopInv /\ [Next]_vars => LoopInv'
<1> SUFFICES ASSUME TunnelInv, LoopInv, [Next]_vars, NEW p \in Procs,
                    pc'[p] \in Leaving \cup {"run"}
             PROVE  loop'[p] # "none"
  BY DEF LoopInv
<1> USE DEF TunnelInv, TypeOK, LoopInv, Goto, Leaving, Rest
<1>1. CASE MainStep(p)
  BY <1>1 DEF MainStep, PickPort, WriteRuntimeConfig, SpawnSSHD, StartFails, SSHDReady, SSHDExits,
     SSHDTimeout, StartCancelled, AttemptFails, EndRun, StopDaemon, Join, Reset, tunnel
<1>2. CASE LoopStep(p)
  BY <1>2 DEF LoopStep, LoopEnds, StartSSH, SSHStartFails, SSHExits, StopSSH, Redial, BackOff, Continue
<1>3. CASE Start(p) \/ Kill(p)
  BY <1>3 DEF Start, Kill, Reset
<1>4. CASE Terminate(p) \/ SSHDUp(p) \/ SSHDCrash(p) \/ Connect(p) \/ Disconnect(p)
  BY <1>4 DEF Terminate, SSHDUp, SSHDCrash, Connect, Disconnect, tunnel
<1>5. CASE Same(p)
  BY <1>5 DEF Same
<1> QED
  BY <1>1, <1>2, <1>3, <1>4, <1>5, OthersKeep DEF Own

LEMMA LoopInvInit == Init => LoopInv
BY DEF Init, LoopInv, Leaving, Rest

\* Nothing keeps an invocation where it is: it was asked to end, its sshd is
\* gone, or it is on its way out already.
MustEnd(p) == term[p] \/ pc[p] \in Leaving \/ (pc[p] = "run" /\ sshd[p] = "exited")

\* That is so until the invocation is over.
LEMMA MustEndStays ==
  ASSUME NEW p \in Procs, TunnelInv, [Next]_vars, pc[p] \notin Rest, MustEnd(p)
  PROVE  pc'[p] \in Rest \/ MustEnd(p)'
<1>1. CASE term[p]
  BY <1>1, WayOut DEF MustEnd
<1>2. CASE pc[p] \in Leaving \/ (pc[p] = "run" /\ sshd[p] = "exited")
  <2> USE DEF MustEnd, Leaving, Rest, Goto, TunnelInv, TypeOK
  <2>1. CASE MainStep(p)
    <3>1. EndRun(p) \/ StopDaemon(p) \/ Join(p)
      BY <1>2, <2>1 DEF MainStep, PickPort, WriteRuntimeConfig, SpawnSSHD, StartFails, SSHDReady,
         SSHDExits, SSHDTimeout, StartCancelled
    <3> QED
      BY <1>2, <3>1 DEF EndRun, StopDaemon, Join, Reset
  <2>2. CASE LoopStep(p)
    BY <1>2, <2>2 DEF LoopStep, LoopEnds, StartSSH, SSHStartFails, SSHExits, StopSSH, Redial, daemon
  <2>3. CASE Start(p) \/ Kill(p)
    BY <1>2, <2>3 DEF Start, Kill, Reset
  <2>4. CASE Terminate(p) \/ SSHDUp(p) \/ SSHDCrash(p) \/ Connect(p) \/ Disconnect(p)
    BY <1>2, <2>4 DEF Terminate, SSHDUp, SSHDCrash, Connect, Disconnect, daemon
  <2>5. CASE Same(p)
    BY <1>2, <2>5 DEF Same
  <2> QED
    BY <2>1, <2>2, <2>3, <2>4, <2>5, OthersKeep DEF Own
<1> QED
  BY <1>1, <1>2 DEF MustEnd

\* Bound to end and at most k steps away from it, or there.
EndsIn(p, k) == pc[p] \in Rest \/ (MustEnd(p) /\ EndLeft(p) <= k)

Closer(p, l, k) ==
  Spec /\ FairTo(p) /\ MainOpen(p) /\ LoopOpen(p) => (EndsIn(p, l) ~> EndsIn(p, k))

\* One step of the way: of tunnelLoop where its end is waited for, of the main
\* goroutine everywhere else.
LEMMA EndComesCloser ==
  ASSUME NEW p \in Procs, NEW k \in Nat, NEW l \in Nat, l = k + 1
  PROVE  Closer(p, l, k)
<1> DEFINE Here == MustEnd(p) /\ pc[p] \notin Rest /\ EndLeft(p) = l
           Inv  == TunnelInv /\ LoopInv
<1>1. Inv /\ EndsIn(p, l) => Here \/ EndsIn(p, k)
  BY EndLeftType DEF EndsIn
<1>2. Inv /\ Here /\ [Next]_vars => Here' \/ EndsIn(p, k)'
  BY WayOut, MustEndStays DEF EndsIn
<1>3. (MainStep(p) => Next) /\ (LoopStep(p) => Next)
  BY DEF Next
<1>4. CASE l = 2
  <2>1. Inv /\ Here => pc[p] = "join" /\ loop[p] # "done"
    <3> SUFFICES ASSUME Inv, Here, ~(pc[p] = "join" /\ loop[p] # "done") PROVE FALSE
      OBVIOUS
    <3>1. pc[p] \in {"join", "stop", "run"}
      BY <1>4, EndLeftType DEF TunnelInv, TypeOK, Leaving
    <3> QED
      BY <1>4, <3>1 DEF EndLeft, Left, Rest
  <2>2. Inv /\ Here => LoopCan(p)
    BY <2>1 DEF LoopCan, Cancelled, LoopInv, Leaving, TunnelInv, TypeOK
  <2>3. Inv /\ Here /\ <<Next /\ LoopStep(p)>>_vars => EndsIn(p, k)'
    <3> SUFFICES ASSUME Inv, Here, <<Next /\ LoopStep(p)>>_vars PROVE EndsIn(p, k)'
      OBVIOUS
    <3>1. pc'[p] = "join" /\ loop'[p] = "done" 
      BY <2>1, LoopLeaves
    <3>2. EndLeft(p)' = 1
      BY <3>1 DEF EndLeft, Left, Rest
    <3> QED
      BY <1>4, <3>1, <3>2 DEF EndsIn, MustEnd, Leaving
  <2> HIDE DEF Here, Inv
  <2>4. Init => Inv
    BY TunnelInit, LoopInvInit DEF Inv
  <2>5. Inv /\ [Next]_vars => Inv'
    BY TunnelStep, LoopStays DEF Inv
  <2> QED
    BY <1>1, <1>2, <1>3, <2>2, <2>3, <2>4, <2>5, PTL DEF Spec, Closer, FairTo, LoopOpen
<1>5. CASE l # 2
  <2>1. Inv /\ Here => MainCan(p)
    <3> SUFFICES ASSUME Inv, Here PROVE MainCan(p)
      OBVIOUS
    <3>1. ~(pc[p] = "join" /\ loop[p] # "done")
      BY <1>5 DEF EndLeft, Left, Rest
    <3> QED
      BY <3>1 DEF MainCan, MustEnd, Leaving, TunnelInv, TypeOK
  <2>2. Inv /\ Here /\ <<Next /\ MainStep(p)>>_vars => EndsIn(p, k)'
    BY WayOut, MustEndStays, TunnelStep, MainAdvances DEF EndsIn
  <2> HIDE DEF Here, Inv
  <2>3. Init => Inv
    BY TunnelInit, LoopInvInit DEF Inv
  <2>4. Inv /\ [Next]_vars => Inv'
    BY TunnelStep, LoopStays DEF Inv
  <2> QED
    BY <1>1, <1>2, <1>3, <2>1, <2>2, <2>3, <2>4, PTL DEF Spec, Closer, FairTo, MainOpen
<1> QED
  BY <1>4, <1>5

\* Whatever an invocation waits for, one that must end has four steps left
\* once its sshd runs, and twenty-four when it starts.
LEMMA MustEndEnds ==
  ASSUME NEW p \in Procs
  PROVE  /\ Spec /\ FairTo(p) /\ MainOpen(p) /\ LoopOpen(p) => (EndsIn(p, 4) ~> pc[p] \in Rest)
         /\ Spec /\ FairTo(p) /\ MainOpen(p) /\ LoopOpen(p) => (EndsIn(p, 24) ~> pc[p] \in Rest)
<1>1. TunnelInv /\ EndsIn(p, 0) => pc[p] \in Rest
  BY EndLeftType DEF EndsIn
<1>2. /\ Closer(p, 4, 3) /\ Closer(p, 3, 2) /\ Closer(p, 2, 1) /\ Closer(p, 1, 0)
  BY EndComesCloser
<1>3. Spec /\ FairTo(p) /\ MainOpen(p) /\ LoopOpen(p) => (EndsIn(p, 4) ~> pc[p] \in Rest)
  BY TunnelInit, TunnelStep, <1>1, <1>2, PTL DEF Spec, Closer
<1>4. /\ Closer(p, 24, 23) /\ Closer(p, 23, 22) /\ Closer(p, 22, 21) /\ Closer(p, 21, 20)
      /\ Closer(p, 20, 19) /\ Closer(p, 19, 18) /\ Closer(p, 18, 17) /\ Closer(p, 17, 16)
      /\ Closer(p, 16, 15) /\ Closer(p, 15, 14) /\ Closer(p, 14, 13) /\ Closer(p, 13, 12)
      /\ Closer(p, 12, 11) /\ Closer(p, 11, 10) /\ Closer(p, 10, 9) /\ Closer(p, 9, 8)
      /\ Closer(p, 8, 7) /\ Closer(p, 7, 6) /\ Closer(p, 6, 5) /\ Closer(p, 5, 4)
  BY EndComesCloser
<1> QED
  BY <1>3, <1>4, PTL DEF Closer

\* What StartEnds, SSHDExitFails and TerminationEnds say of one invocation.
Starts(p)     == pc[p] \in Starting ~> pc[p] \notin Starting
FailsWith(p)  == pc[p] = "run" /\ sshd[p] = "exited" ~> pc[p] \in {"failed", "killed"} \/ term[p]
Terminates(p) == term[p] ~> pc[p] \in Rest

\* An invocation asked to end returns, wherever it stands: in any of the waits
\* of startSSHD, in the select of RunTunnel, or waiting for a tunnelLoop that
\* backs off or watches its ssh (supervise.go:128, supervise.go:386,
\* supervise.go:405, supervise.go:422).  Five is the number of attempts in the
\* code; for any other number the way is finite too, but has to be spelled out.
THEOREM TerminatedInvocationsEnd ==
  MaxTries = 5 => (LiveSpec /\ GuardsOpen => TerminationEnds)
<1> SUFFICES ASSUME MaxTries = 5 PROVE LiveSpec /\ GuardsOpen => TerminationEnds
  OBVIOUS
<1>1. ASSUME NEW p \in Procs
      PROVE  Spec /\ FairTo(p) /\ MainOpen(p) /\ LoopOpen(p) => Terminates(p)
  <2>1. TunnelInv /\ term[p] => EndsIn(p, 24)
    BY EndLeftType DEF EndsIn, MustEnd
  <2> QED
    BY TunnelInit, TunnelStep, <2>1, MustEndEnds, PTL DEF Spec, Terminates
<1>2. LiveSpec /\ GuardsOpen => \A p \in Procs : Terminates(p)
  BY <1>1 DEF LiveSpec, Fairness, GuardsOpen
<1>3. (\A p \in Procs : Terminates(p)) => TerminationEnds
  BY DEF Terminates, TerminationEnds
<1> QED
  BY <1>2, <1>3

\* The invocation has seen that its sshd is gone, or is about to.
Doomed(p) == (pc[p] = "run" /\ sshd[p] = "exited") \/ (pc[p] \in Leaving /\ result[p] = "failed")

LEMMA DoomedStays ==
  ASSUME NEW p \in Procs, TunnelInv, [Next]_vars, Doomed(p), ~term[p]
  PROVE  Doomed(p)' \/ pc'[p] \in {"failed", "killed"}
<1> USE DEF Doomed, Leaving, Rest, Goto, TunnelInv, TypeOK
<1>1. CASE MainStep(p)
  <2>1. EndRun(p) \/ StopDaemon(p) \/ Join(p)
    BY <1>1 DEF MainStep, PickPort, WriteRuntimeConfig, SpawnSSHD, StartFails, SSHDReady,
       SSHDExits, SSHDTimeout, StartCancelled
  <2> QED
    BY <2>1 DEF EndRun, EndOfRun, StopDaemon, Join, Reset
<1>2. CASE LoopStep(p)
  BY <1>2 DEF LoopStep, LoopEnds, StartSSH, SSHStartFails, SSHExits, StopSSH, Redial, daemon
<1>3. CASE Start(p) \/ Kill(p)
  BY <1>3 DEF Start, Kill, Reset
<1>4. CASE Terminate(p) \/ SSHDUp(p) \/ SSHDCrash(p) \/ Connect(p) \/ Disconnect(p)
  BY <1>4 DEF Terminate, SSHDUp, SSHDCrash, Connect, Disconnect, daemon
<1>5. CASE Same(p)
  BY <1>5 DEF Same
<1> QED
  BY <1>1, <1>2, <1>3, <1>4, <1>5, OthersKeep DEF Own

\* An sshd that exits while the invocation runs makes it fail, unless it is
\* asked to end first, however many attempts the start took (supervise.go:386).
THEOREM LostSSHDFails == LiveSpec /\ GuardsOpen => SSHDExitFails
<1>1. ASSUME NEW p \in Procs
      PROVE  Spec /\ FairTo(p) /\ MainOpen(p) /\ LoopOpen(p) => FailsWith(p)
  <2>1. TunnelInv /\ pc[p] = "run" /\ sshd[p] = "exited" => EndsIn(p, 4) /\ Doomed(p)
    BY DEF EndsIn, MustEnd, Doomed, EndLeft, Left, Rest
  <2>2. ~(Doomed(p) /\ pc[p] \in Rest)
    BY DEF Doomed, Leaving, Rest
  <2>3. TunnelInv /\ Doomed(p) /\ ~term[p] /\ [Next]_vars =>
         Doomed(p)' \/ (pc[p] \in {"failed", "killed"})'
    BY DoomedStays
  <2> QED
    BY TunnelInit, TunnelStep, <2>1, <2>2, <2>3, MustEndEnds, PTL DEF Spec, FailsWith
<1>2. LiveSpec /\ GuardsOpen => \A p \in Procs : FailsWith(p)
  BY <1>1 DEF LiveSpec, Fairness, GuardsOpen
<1>3. (\A p \in Procs : FailsWith(p)) => SSHDExitFails
  BY DEF FailsWith, SSHDExitFails
<1> QED
  BY <1>2, <1>3

\* Still starting and at most k steps away from the end, or started.
StartsIn(p, k) == pc[p] \notin Starting \/ EndLeft(p) <= k

Further(p, l, k) ==
  Spec /\ FairTo(p) /\ MainOpen(p) => (StartsIn(p, l) ~> StartsIn(p, k))

LEMMA StartComesCloser ==
  ASSUME NEW p \in Procs, NEW k \in Nat, NEW l \in Nat, l = k + 1
  PROVE  Further(p, l, k)
<1> DEFINE Here == pc[p] \in Starting /\ EndLeft(p) = l
<1>1. TunnelInv /\ StartsIn(p, l) => Here \/ StartsIn(p, k)
  BY EndLeftType DEF StartsIn
<1>2. TunnelInv /\ Here /\ [Next]_vars => Here' \/ StartsIn(p, k)'
  <2>1. pc[p] \in Starting => pc[p] \notin Rest
    BY DEF Starting, Rest
  <2> QED
    BY <2>1, WayOut DEF StartsIn
<1>3. TunnelInv /\ Here /\ <<Next /\ MainStep(p)>>_vars => StartsIn(p, k)'
  <2>1. pc[p] \in Starting => pc[p] \notin Rest
    BY DEF Starting, Rest
  <2> QED
    BY <2>1, WayOut, TunnelStep, MainAdvances DEF StartsIn
<1>4. Here => MainCan(p)
  BY DEF MainCan
<1>5. MainStep(p) => Next
  BY DEF Next
<1> HIDE DEF Here
<1> QED
  BY TunnelInit, TunnelStep, <1>1, <1>2, <1>3, <1>4, <1>5, PTL DEF Spec, Further, FairTo, MainOpen

\* A start comes to an end within its five attempts, whoever takes the ports
\* that it picks and whenever (supervise.go:113).
THEOREM EveryStartEnds == MaxTries = 5 => (LiveSpec /\ GuardsOpen => StartEnds)
<1> SUFFICES ASSUME MaxTries = 5 PROVE LiveSpec /\ GuardsOpen => StartEnds
  OBVIOUS
<1>1. ASSUME NEW p \in Procs PROVE Spec /\ FairTo(p) /\ MainOpen(p) => Starts(p)
  <2>1. TunnelInv /\ pc[p] \in Starting => StartsIn(p, 24)
    BY EndLeftType DEF StartsIn
  <2>2. TunnelInv /\ StartsIn(p, 4) => pc[p] \notin Starting
    BY EndLeftType DEF StartsIn
  <2>3. /\ Further(p, 24, 23) /\ Further(p, 23, 22) /\ Further(p, 22, 21) /\ Further(p, 21, 20)
      /\ Further(p, 20, 19) /\ Further(p, 19, 18) /\ Further(p, 18, 17) /\ Further(p, 17, 16)
      /\ Further(p, 16, 15) /\ Further(p, 15, 14) /\ Further(p, 14, 13) /\ Further(p, 13, 12)
      /\ Further(p, 12, 11) /\ Further(p, 11, 10) /\ Further(p, 10, 9) /\ Further(p, 9, 8)
      /\ Further(p, 8, 7) /\ Further(p, 7, 6) /\ Further(p, 6, 5) /\ Further(p, 5, 4)
    BY StartComesCloser
  <2> QED
    BY TunnelInit, TunnelStep, <2>1, <2>2, <2>3, PTL DEF Spec, Further, Starts
<1>2. LiveSpec /\ GuardsOpen => \A p \in Procs : Starts(p)
  BY <1>1 DEF LiveSpec, Fairness, GuardsOpen
<1>3. (\A p \in Procs : Starts(p)) => StartEnds
  BY DEF Starts, StartEnds
<1> QED
  BY <1>2, <1>3

-----------------------------------------------------------------------------
(* The tunnel is retried for as long as it takes. *)

\* An ssh that is up holds the reverse port, tunnelLoop watches an ssh, and it
\* is over only when the end has come.
ConnectInv ==
  \A p \in Procs : /\ ssh[p] = "up" => remote = p
                   /\ loop[p] = "watch" => ssh[p] # "none"
                   /\ pc[p] = "run" /\ loop[p] = "done" => term[p]

LEMMA ConnectInvInit == Init => ConnectInv
BY DEF Init, ConnectInv

\* Nobody takes the reverse port from an ssh that is up.
LEMMA RemoteKept ==
  ASSUME NEW p \in Procs, TunnelInv, [Next]_vars, Same(p), ssh[p] = "up", remote = p
  PROVE  remote' = p
<1> USE TunnelAssumption DEF TunnelInv, TypeOK, HoldInv, Same, machine
<1>1. ASSUME NEW q \in Procs, q # p, Start(q) \/ MainStep(q) PROVE remote' = remote
  BY <1>1 DEF Start, MainStep, PickPort, WriteRuntimeConfig, SpawnSSHD, StartFails, SSHDReady, SSHDExits,
     SSHDTimeout, StartCancelled, EndRun, StopDaemon, Join
<1>2. ASSUME NEW q \in Procs, q # p, LoopStep(q) PROVE remote' = p
  BY <1>2 DEF LoopStep, LoopEnds, StartSSH, SSHStartFails, SSHExits, StopSSH, Redial, Disconnected
<1>3. ASSUME NEW q \in Procs, q # p, Terminate(q) \/ Kill(q) \/ SSHDUp(q) \/ SSHDCrash(q)
                                     \/ Connect(q) \/ Disconnect(q)
      PROVE  remote' = p
  BY <1>3 DEF Terminate, Kill, Orphaned, SSHDUp, SSHDCrash, Connect, Disconnect, Disconnected
<1>4. ASSUME (\E q \in Ports : OtherProgram(q)) \/ Release \/ UNCHANGED vars PROVE remote' = p
  BY <1>4 DEF OtherProgram, Release, vars
<1>5. CASE Own(p)
  <2>1. Start(p) \/ MainStep(p) \/ Terminate(p) \/ Kill(p) \/ SSHDUp(p) \/ SSHDCrash(p) => remote' = p
    BY DEF Start, MainStep, PickPort, WriteRuntimeConfig, SpawnSSHD, StartFails, SSHDReady, SSHDExits,
       SSHDTimeout, StartCancelled, EndRun, StopDaemon, Join, Terminate, Kill, Reset, SSHDUp, SSHDCrash
  <2>2. LoopStep(p) => remote' = p
    BY DEF LoopStep, LoopEnds, StartSSH, SSHStartFails, SSHExits, StopSSH, Redial
  <2>3. Connect(p) \/ Disconnect(p) => remote' = p
    BY DEF Connect, Disconnect
  <2> QED
    BY <1>5, <2>1, <2>2, <2>3 DEF Own
<1> QED
  BY <1>1, <1>2, <1>3, <1>4, <1>5 DEF Next, Own

LEMMA ConnectInvStep == TunnelInv /\ ConnectInv /\ [Next]_vars => ConnectInv'
<1> SUFFICES ASSUME TunnelInv, ConnectInv, [Next]_vars, NEW p \in Procs
             PROVE  /\ ssh'[p] = "up" => remote' = p
                    /\ loop'[p] = "watch" => ssh'[p] # "none"
                    /\ pc'[p] = "run" /\ loop'[p] = "done" => term'[p]
  BY DEF ConnectInv
<1>1. CASE Same(p)
  BY <1>1, RemoteKept DEF Same, ConnectInv
<1> USE DEF TunnelInv, TypeOK, HoldInv, ConnectInv, Goto, Rest, Starting, Leaving
<1>2. CASE MainStep(p)
  <2>1. CASE PickPort(p) \/ WriteRuntimeConfig(p) \/ SpawnSSHD(p) \/ StartFails(p) \/ StartCancelled(p)
             \/ SSHDReady(p)
    BY <2>1 DEF PickPort, WriteRuntimeConfig, SpawnSSHD, StartFails, StartCancelled, SSHDReady, Reset, tunnel
  <2>2. CASE SSHDExits(p) \/ SSHDTimeout(p)
    BY <2>2 DEF SSHDExits, SSHDTimeout, AttemptFails, Reset, tunnel
  <2>3. CASE EndRun(p) \/ StopDaemon(p) \/ Join(p)
    BY <2>3 DEF EndRun, StopDaemon, Join, Reset, tunnel
  <2> QED
    BY <1>2, <2>1, <2>2, <2>3 DEF MainStep
<1>3. CASE LoopStep(p)
  <2>1. CASE LoopEnds(p) \/ StopSSH(p)
    BY <1>3, <2>1 DEF LoopEnds, StopSSH, WatchCancelled, Continue, Cancelled
  <2>2. CASE StartSSH(p) \/ SSHStartFails(p) \/ Redial(p)
    BY <1>3, <2>2 DEF StartSSH, SSHStartFails, Redial, DelayOver, BackOff, Continue
  <2>3. CASE SSHExits(p)
    BY <1>3, <2>3 DEF SSHExits, BackOff, Continue, Cancelled
  <2> QED
    BY <1>3, <2>1, <2>2, <2>3 DEF LoopStep
<1>4. CASE Start(p) \/ Kill(p)
  BY <1>4 DEF Start, Kill, Reset, tunnel
<1>5. CASE Terminate(p) \/ SSHDUp(p) \/ SSHDCrash(p)
  BY <1>5 DEF Terminate, SSHDUp, SSHDCrash, tunnel
<1>6. CASE Connect(p) \/ Disconnect(p)
  BY <1>6 DEF Connect, Disconnect
<1> QED
  BY <1>1, <1>2, <1>3, <1>4, <1>5, <1>6, OthersKeep DEF Own

\* An invocation that is alone and not connected.
Apart(p) == Alone(p) /\ remote # p

\* Where its tunnelLoop can be.
Dialling(p)   == loop[p] = "dial"
Retrying(p)   == loop[p] = "backoff"
Connecting(p) == loop[p] = "watch" /\ ssh[p] = "connecting"
Gone(p)       == loop[p] = "watch" /\ ssh[p] = "exited"

ReconnectInv == TunnelInv /\ LoopInv /\ ConnectInv

LEMMA ApartPoint ==
  ASSUME NEW p \in Procs, ReconnectInv, Apart(p)
  PROVE  /\ remote = None \/ remote = Stale
         /\ ~Cancelled(p)
         /\ Dialling(p) \/ Retrying(p) \/ Connecting(p) \/ Gone(p)
<1>1. ~Cancelled(p)
  BY DEF Apart, Alone, Cancelled, Leaving
<1>2. Dialling(p) \/ Retrying(p) \/ Connecting(p) \/ Gone(p)
  BY DEF Apart, Alone, Dialling, Retrying, Connecting, Gone, ReconnectInv, LoopInv, ConnectInv,
     TunnelInv, TypeOK
<1>3. ASSUME NEW q \in Procs, q # p PROVE remote # q
  BY <1>3 DEF Apart, Alone, ReconnectInv, TunnelInv, HoldInv, Rest
<1> QED
  BY <1>1, <1>2, <1>3 DEF Apart, Alone, ReconnectInv, TunnelInv, TypeOK

\* Only tunnelLoop, its ssh and the rendezvous do anything while the
\* invocation stays alone and unconnected, and tunnelLoop goes round.
LEMMA ApartStep ==
  ASSUME NEW p \in Procs, ReconnectInv, Apart(p), Apart(p)', [Next]_vars
  PROVE  /\ remote = None \/ Release => remote' = None
         /\ Dialling(p) => Dialling(p)' \/ Retrying(p)' \/ Connecting(p)'
         /\ Connecting(p) => Connecting(p)' \/ Gone(p)'
         /\ Gone(p) => Gone(p)' \/ Retrying(p)'
         /\ Retrying(p) => Retrying(p)' \/ Dialling(p)'
<1> USE TunnelAssumption DEF ReconnectInv, TunnelInv, TypeOK
<1> DEFINE Round == /\ Dialling(p) => Dialling(p)' \/ Retrying(p)' \/ Connecting(p)'
                    /\ Connecting(p) => Connecting(p)' \/ Gone(p)'
                    /\ Gone(p) => Gone(p)' \/ Retrying(p)'
                    /\ Retrying(p) => Retrying(p)' \/ Dialling(p)'
<1>1. pc[p] = "run" /\ pc'[p] = "run" /\ ~term[p] /\ ~term'[p] /\ ~Cancelled(p) /\ remote' # p
  BY DEF Apart, Alone, Cancelled, Leaving
<1>2. ASSUME NEW q \in Procs, q # p PROVE pc[q] \in Rest /\ ssh[q] = "none" /\ loop[q] = "none"
  BY <1>2 DEF Apart, Alone, HoldInv, Rest
<1>3. ~MainStep(p) /\ ~Start(p) /\ ~Kill(p) /\ ~Terminate(p) /\ ~Connect(p)
  BY <1>1 DEF MainStep, PickPort, WriteRuntimeConfig, SpawnSSHD, StartFails, SSHDReady, SSHDExits,
     SSHDTimeout, StartCancelled, EndRun, StopDaemon, Join, Start, Kill, Terminate, Connect, Goto, Reset, Rest
<1>4. CASE LoopStep(p)
  <2>1. remote' = remote
    BY <1>1, <1>4 DEF LoopStep, LoopEnds, StartSSH, SSHStartFails, SSHExits, StopSSH, WatchCancelled, Redial
  <2>2. CASE StartSSH(p) \/ SSHStartFails(p) \/ Redial(p)
    <3>1. Round
      BY <2>2 DEF StartSSH, SSHStartFails, Redial, DelayOver, BackOff, Continue, Dialling, Retrying,
         Connecting, Gone
    <3> QED
      BY <2>1, <3>1, <2>2 DEF StartSSH, SSHStartFails, Redial, Release
  <2>3. CASE SSHExits(p)
    <3>1. Round
      BY <1>1, <2>3 DEF SSHExits, BackOff, Continue, Dialling, Retrying, Connecting, Gone
    <3> QED
      BY <2>1, <2>3, <3>1 DEF SSHExits, Release
  <2>4. ~LoopEnds(p) /\ ~StopSSH(p)
    BY <1>1 DEF LoopEnds, StopSSH, WatchCancelled
  <2> QED
    BY <1>4, <2>2, <2>3, <2>4 DEF LoopStep
<1>5. CASE SSHDUp(p) \/ SSHDCrash(p)
  BY <1>5 DEF SSHDUp, SSHDCrash, tunnel, Release, Dialling, Retrying, Connecting, Gone
<1>6. CASE Disconnect(p)
  <2>1. remote = None => remote' = None
    BY <1>1, <1>6 DEF Disconnect, Disconnected
  <2>2. Round
    BY <1>6 DEF Disconnect, Dialling, Retrying, Connecting, Gone
  <2>3. ~Release
    BY <1>6 DEF Disconnect, Release, tunnel
  <2> QED
    BY <2>1, <2>2, <2>3
<1>7. CASE Same(p)
  <2>1. Round
    BY <1>7 DEF Same, Dialling, Retrying, Connecting, Gone
  <2>2. ASSUME NEW q \in Procs, q # p, Own(q), remote = None PROVE remote' = None
    <3>1. ~MainStep(q) /\ ~Kill(q) /\ ~Terminate(q) /\ ~Connect(q) /\ ~Disconnect(q)
      BY <1>2, <2>2 DEF MainStep, PickPort, WriteRuntimeConfig, SpawnSSHD, StartFails, SSHDReady, SSHDExits,
         SSHDTimeout, StartCancelled, EndRun, StopDaemon, Join, Kill, Terminate, Connect, Disconnect, Rest
    <3>2. ~LoopStep(q)
      BY <1>2, <2>2 DEF LoopStep, LoopEnds, StartSSH, SSHStartFails, SSHExits, StopSSH, WatchCancelled,
         Redial, DelayOver
    <3> QED
      BY <2>2, <3>1, <3>2 DEF Own, Start, SSHDUp, SSHDCrash
  <2>3. Release => remote' = None
    BY DEF Release
  <2>4. (\E q \in Ports : OtherProgram(q)) \/ UNCHANGED vars => remote' = remote
    BY DEF OtherProgram, vars
  <2>5. Own(p) /\ remote = None => remote' = None
    BY <1>1, <1>3 DEF Own, LoopStep, LoopEnds, StartSSH, SSHStartFails, SSHExits, StopSSH, WatchCancelled,
       Redial, SSHDUp, SSHDCrash, Disconnect, Disconnected
  <2> QED
    BY <2>1, <2>2, <2>3, <2>4, <2>5 DEF Next, Own
<1> QED
  BY <1>3, <1>4, <1>5, <1>6, <1>7, OthersKeep DEF Own

\* The steps that the fairness of the parts brings about.
LEMMA ApartMoves ==
  ASSUME NEW p \in Procs, ReconnectInv, Apart(p)
  PROVE  /\ Gone(p) /\ LoopStep(p) => Retrying(p)'
         /\ Retrying(p) /\ LoopStep(p) => Dialling(p)'
         /\ StartSSH(p) => Connecting(p)'
         /\ Connect(p) => (remote = p)'
         /\ Connecting(p) /\ (Connect(p) \/ Disconnect(p)) => Gone(p)' \/ (remote = p)'
<1> USE DEF ReconnectInv, TunnelInv, TypeOK, Dialling, Retrying, Connecting, Gone
<1>1. ~Cancelled(p)
  BY DEF Apart, Alone, Cancelled, Leaving
<1>2. Gone(p) /\ LoopStep(p) => Retrying(p)'
  BY <1>1 DEF LoopStep, LoopEnds, StartSSH, SSHStartFails, SSHExits, StopSSH, WatchCancelled, Redial,
     DelayOver, BackOff, Continue
<1>3. Retrying(p) /\ LoopStep(p) => Dialling(p)'
  BY <1>1 DEF LoopStep, LoopEnds, StartSSH, SSHStartFails, SSHExits, StopSSH, WatchCancelled, Redial,
     Continue
<1>4. StartSSH(p) => Connecting(p)'
  BY DEF StartSSH, Continue
<1>5. Connect(p) => (remote = p)'
  BY DEF Connect
<1>6. Connecting(p) /\ (Connect(p) \/ Disconnect(p)) => Gone(p)' \/ (remote = p)'
  BY DEF Connect, Disconnect
<1> QED
  BY <1>2, <1>3, <1>4, <1>5, <1>6

\* What Reconnects assumes, and what it says, of one invocation.
Served(p) ==
  /\ Spec /\ FairTo(p) /\ FairRendezvous
  /\ LoopOpen(p) /\ AnswerOpen(p) /\ DialOpen(p) /\ ConnectOpen(p) /\ ReleaseOpen

ReconnectsOne(p) == <>[]Alone(p) => []<>(remote = p)

\* The argument goes by contradiction: an invocation that stayed alone and
\* unconnected would find the reverse port free, would dial and connect again
\* and again, and its ssh would be let in.
LEMMA AloneReconnects ==
  ASSUME NEW p \in Procs
  PROVE  Served(p) => ReconnectsOne(p)
<1>1. Init => ReconnectInv
  BY TunnelInit, LoopInvInit, ConnectInvInit DEF ReconnectInv
<1>2. ReconnectInv /\ [Next]_vars => ReconnectInv'
  BY TunnelStep, LoopStays, ConnectInvStep DEF ReconnectInv
<1>3. ReconnectInv /\ Apart(p) => Dialling(p) \/ Retrying(p) \/ Connecting(p) \/ Gone(p)
  BY ApartPoint
<1>4. (Gone(p) \/ Retrying(p) => LoopCan(p)) /\ (Connecting(p) => ssh[p] = "connecting")
  BY DEF Gone, Retrying, Connecting, LoopCan
<1>5. (LoopStep(p) => Next) /\ (StartSSH(p) => Next) /\ (Connect(p) => Next) /\ (Disconnect(p) => Next)
      /\ (Release => Next)
  BY DEF Next, LoopStep
<1>6. Served(p) => (<>[]Apart(p) => <>[](Apart(p) /\ remote = None))
  <2>1. ReconnectInv /\ Apart(p) => remote = None \/ remote = Stale
    BY ApartPoint
  <2>2. ReconnectInv /\ Apart(p) /\ Apart(p)' /\ [Next]_vars /\ (remote = None \/ Release) => (remote = None)'
    BY ApartStep
  <2> QED
    BY <1>1, <1>2, <1>5, <2>1, <2>2, PTL DEF Served, Spec, FairRendezvous, ReleaseOpen
<1>7. Served(p) => (<>[]Apart(p) => []<>Dialling(p))
  <2>1. ReconnectInv /\ Apart(p) /\ Apart(p)' /\ [Next]_vars =>
          /\ Connecting(p) => Connecting(p)' \/ Gone(p)'
          /\ Gone(p) => Gone(p)' \/ Retrying(p)'
          /\ Retrying(p) => Retrying(p)' \/ Dialling(p)'
    BY ApartStep
  <2>2. ReconnectInv /\ Apart(p) =>
          /\ Gone(p) /\ LoopStep(p) => Retrying(p)'
          /\ Retrying(p) /\ LoopStep(p) => Dialling(p)'
          /\ Connecting(p) /\ (Connect(p) \/ Disconnect(p)) => Gone(p)' \/ (remote = p)'
    BY ApartMoves
  <2>3. Apart(p) => ~(remote = p)
    BY DEF Apart
  <2> QED
    BY <1>1, <1>2, <1>3, <1>4, <1>5, <2>1, <2>2, <2>3, PTL DEF Served, Spec, FairTo, LoopOpen, AnswerOpen
<1>8. Served(p) => (<>[]Apart(p) => []<>Connecting(p))
  <2>1. ReconnectInv /\ Apart(p) /\ Dialling(p) => loop[p] = "dial" /\ ~Cancelled(p)
    BY ApartPoint DEF Dialling
  <2>2. ReconnectInv /\ Apart(p) /\ StartSSH(p) => Connecting(p)'
    BY ApartMoves
  <2> QED
    BY <1>1, <1>2, <1>5, <1>7, <2>1, <2>2, PTL DEF Served, Spec, FairTo, DialOpen
<1>9. Served(p) => ~<>[]Apart(p)
  <2>1. ReconnectInv /\ Apart(p) /\ Connect(p) => (remote = p)'
    BY ApartMoves
  <2>2. Apart(p) => ~(remote = p)
    BY DEF Apart
  <2> QED
    BY <1>1, <1>2, <1>4, <1>5, <1>6, <1>8, <2>1, <2>2, PTL DEF Served, Spec, FairTo, ConnectOpen
<1>10. Alone(p) /\ ~(remote = p) => Apart(p)
  BY DEF Apart
<1> QED
  BY <1>9, <1>10, PTL DEF ReconnectsOne

\* For every set of invocations: one that runs on, without another one and
\* without the ssh of a killed one, gets the reverse port again and again,
\* whatever became of its earlier connections (supervise.go:397).
THEOREM AnInvocationThatStaysReconnects == LiveSpec /\ GuardsOpen => Reconnects
<1>1. ASSUME NEW p \in Procs PROVE Served(p) => ReconnectsOne(p)
  BY AloneReconnects
<1>2. LiveSpec /\ GuardsOpen => \A p \in Procs : ReconnectsOne(p)
  BY <1>1 DEF LiveSpec, Fairness, GuardsOpen, Served
<1>3. (\A p \in Procs : ReconnectsOne(p)) => Reconnects
  BY DEF ReconnectsOne, Reconnects
<1> QED
  BY <1>2, <1>3
=============================================================================
