----------------------------- MODULE Enrollment -----------------------------
(***************************************************************************)
(* Identity keys, enrollment and the state file: the commands              *)
(* `familiar-fleet connect' and `familiar-fleet enroll' on one state       *)
(* directory (cmd/familiar-fleet/main.go, internal/client/enroll.go,       *)
(* internal/client/state.go).                                              *)
(*                                                                         *)
(* Both commands look for a saved state, make sure of two key pairs, have  *)
(* the service enroll their public halves, which it cannot take back, and  *)
(* only then settle on the rendezvous host key and save.  Nothing locks    *)
(* the directory: commands overlap, and each may end between any two of    *)
(* its steps.  How connect reaches the service is ConnectFlow's matter;    *)
(* here it does what OneShotEnrollment promises.  ssh-keygen and the       *)
(* service are external.                                                   *)
(***************************************************************************)
EXTENDS Naturals

CONSTANTS
  Procs,       \* commands that may run at the same time
  None,        \* no file, no key
  MaxRemovals  \* bound: how often the operator removes the state file

Identities == {"tunnel", "host"}

\* A key is known by its pair and by the command whose ssh-keygen made it.
Keys    == [pair : Identities, by : Procs]
Partial == [pair |-> "none", by |-> None]
MadeBy(p, i) == [pair |-> i, by |-> p]

\* An enrollment: the node the service made, and the keys it was given.
Enrollments == [node : Procs, keys : [Identities -> Keys]]

ASSUME EnrollmentAssumption ==
  /\ None \notin Procs \cup Keys \cup {Partial} \cup Enrollments
  /\ MaxRemovals \in Nat

VARIABLES
  private, public,  \* the two files of each key pair
  state,            \* state.json: the enrollment it holds
  remote,           \* the enrollments the service has carried out
  removals,
  pc,               \* what a command does next
  ident,            \* the pair it works on
  sawPrivate,       \* EnsureKey has found the private file
  held,             \* the public keys it has read
  alone,            \* history: no other command has run since this one began
  clash             \* history: pairs for which two ssh-keygen ran at once

keyFiles == <<private, public>>
locals   == <<ident, sawPrivate, held>>
vars     == <<private, public, state, remote, removals, pc, locals, alone, clash>>

Rest     == {"idle", "failed", "crashed"}
Keygens  == {"writePrivate", "openPublic", "closePublic"}

TypeOK ==
  /\ private \in [Identities -> Keys \cup {None}]
  /\ public \in [Identities -> Keys \cup {None, Partial}]
  /\ state \in Enrollments \cup {None}
  /\ remote \subseteq Enrollments
  /\ removals \in 0..MaxRemovals
  /\ pc \in [Procs -> Rest \cup Keygens \cup {"lookPrivate", "lookPublic", "keygen",
                      "readPublic", "post", "finalize", "trueUp"}]
  /\ ident \in [Procs -> Identities]
  /\ sawPrivate \in [Procs -> BOOLEAN]
  /\ held \in [Procs -> [Identities -> Keys \cup {None}]]
  /\ alone \in [Procs -> BOOLEAN]
  /\ clash \subseteq Identities
  \* A command that posts holds the keys of both pairs.
  /\ \A p \in Procs : pc[p] \in {"post", "finalize"} => held[p] \in [Identities -> Keys]

Nothing == [i \in Identities |-> None]

Init ==
  /\ private = Nothing /\ public = Nothing
  /\ state = None /\ remote = {} /\ removals = 0
  /\ pc = [p \in Procs |-> "idle"]
  /\ ident = [p \in Procs |-> "tunnel"]
  /\ sawPrivate = [p \in Procs |-> FALSE]
  /\ held = [p \in Procs |-> Nothing]
  /\ alone = [p \in Procs |-> FALSE]
  /\ clash = {}

Goto(p, point) == pc' = [pc EXCEPT ![p] = point]

\* The command is over and its variables are gone.
Leave(p, outcome) ==
  /\ Goto(p, outcome)
  /\ ident' = [ident EXCEPT ![p] = "tunnel"]
  /\ sawPrivate' = [sawPrivate EXCEPT ![p] = FALSE]
  /\ held' = [held EXCEPT ![p] = Nothing]
  /\ alone' = [alone EXCEPT ![p] = FALSE]

-----------------------------------------------------------------------------
\* run: a saved state ends both commands at once, as an error or as a message.

IgnoreState   == TRUE
NoSavedState  == state = None

Start(p) ==
  /\ pc[p] \in Rest
  /\ NoSavedState
  /\ Goto(p, "lookPrivate")
  /\ alone' = [q \in Procs |-> q = p /\ \A r \in Procs \ {p} : pc[r] \in Rest]
  /\ UNCHANGED <<keyFiles, state, remote, removals, locals, clash>>

-----------------------------------------------------------------------------
\* EnsureKey, once for the tunnel and once for the callback sshd.

LookPrivate(p) ==
  /\ pc[p] = "lookPrivate"
  /\ sawPrivate' = [sawPrivate EXCEPT ![p] = private[ident[p]] # None]
  /\ Goto(p, "lookPublic")
  /\ UNCHANGED <<keyFiles, state, remote, removals, ident, held, alone, clash>>

\* Half a pair is refused: it is neither completed nor replaced.
PairExists(p, sawPublic)  == FALSE
PairThere(p, sawPublic)   == sawPrivate[p] /\ sawPublic
PairAbsent(p, sawPublic)  == ~sawPrivate[p] /\ ~sawPublic

LookPublic(p) ==
  /\ pc[p] = "lookPublic"
  /\ LET sawPublic == public[ident[p]] # None IN
       \/ /\ PairThere(p, sawPublic) /\ Goto(p, "readPublic")
          /\ UNCHANGED <<locals, alone>>
       \/ /\ PairAbsent(p, sawPublic) /\ Goto(p, "keygen")
          /\ UNCHANGED <<locals, alone>>
       \/ /\ ~PairThere(p, sawPublic) /\ ~PairAbsent(p, sawPublic)
          /\ Leave(p, "failed")
  /\ UNCHANGED <<keyFiles, state, remote, removals, clash>>

\* ssh-keygen has no terminal to ask: it gives up when the private file exists.
Overwrites(p)   == TRUE
MayGenerate(p)  == private[ident[p]] = None

KeygenOf(i) == {q \in Procs : pc[q] \in Keygens /\ ident[q] = i}

Keygen(p) ==
  /\ pc[p] = "keygen"
  /\ \/ /\ MayGenerate(p) /\ Goto(p, "writePrivate")
        /\ clash' = IF KeygenOf(ident[p]) = {} THEN clash ELSE clash \cup {ident[p]}
        /\ UNCHANGED <<locals, alone>>
     \/ ~MayGenerate(p) /\ Leave(p, "failed") /\ UNCHANGED clash
  /\ UNCHANGED <<keyFiles, state, remote, removals>>

WritePrivate(p) ==
  /\ pc[p] = "writePrivate"
  /\ private' = [private EXCEPT ![ident[p]] = MadeBy(p, ident[p])]
  /\ Goto(p, "openPublic")
  /\ UNCHANGED <<public, state, remote, removals, locals, alone, clash>>

\* The public file is there before its contents are.
OpenPublic(p) ==
  /\ pc[p] = "openPublic"
  /\ public' = [public EXCEPT ![ident[p]] = Partial]
  /\ Goto(p, "closePublic")
  /\ UNCHANGED <<private, state, remote, removals, locals, alone, clash>>

ClosePublic(p) ==
  /\ pc[p] = "closePublic"
  /\ public' = [public EXCEPT ![ident[p]] = MadeBy(p, ident[p])]
  /\ Goto(p, "readPublic")
  /\ UNCHANGED <<private, state, remote, removals, locals, alone, clash>>

\* NormalizePublicKey accepts a whole key only.
HoldOther(p, key) == held' = [held EXCEPT ![p]["tunnel"] = key]
Hold(p, key)      == held' = [held EXCEPT ![p][ident[p]] = key]

ReadPublic(p) ==
  /\ pc[p] = "readPublic"
  /\ \/ /\ public[ident[p]] \in Keys
        /\ Hold(p, public[ident[p]])
        /\ ident' = [ident EXCEPT ![p] = "host"]
        /\ Goto(p, IF ident[p] = "tunnel" THEN "lookPrivate" ELSE "post")
        /\ UNCHANGED <<sawPrivate, alone>>
     \/ public[ident[p]] \notin Keys /\ Leave(p, "failed")
  /\ UNCHANGED <<keyFiles, state, remote, removals, clash>>

-----------------------------------------------------------------------------
\* Enrolling and saving.

GrantedSwapped(p) ==
  [node |-> p, keys |-> [i \in Identities |-> held[p][IF i = "host" THEN "tunnel" ELSE "host"]]]
Granted(p) == [node |-> p, keys |-> held[p]]

\* The service enrolls the machine; its answer may be lost or invalid.
PostAnswered(p) ==
  /\ pc[p] = "post"
  /\ remote' = remote \cup {Granted(p)}
  /\ Goto(p, "finalize")
  /\ UNCHANGED <<keyFiles, state, removals, locals, alone, clash>>

PostFails(p) ==
  /\ pc[p] = "post"
  /\ remote' \in {remote, remote \cup {Granted(p)}}
  /\ Leave(p, "failed")
  /\ UNCHANGED <<keyFiles, state, removals, clash>>

\* applyHostKey, then SaveState: one rename, whatever was there before.  The
\* enroll command is done; connect trues the runtime up.
Finalize(p) ==
  /\ pc[p] = "finalize"
  /\ state' = Granted(p)
  /\ \/ Goto(p, "trueUp") /\ UNCHANGED <<locals, alone>>
     \/ Leave(p, "idle")
  /\ UNCHANGED <<keyFiles, remote, removals, clash>>

\* No host key, another one than the operator gave, or a failed save.
HostKeyRefused(p) ==
  /\ pc[p] = "finalize"
  /\ Leave(p, "failed")
  /\ UNCHANGED <<keyFiles, state, remote, removals, clash>>

\* connect fails with the enrollment saved when the runtime cannot be applied.
TrueUp(p) ==
  /\ pc[p] = "trueUp"
  /\ \E outcome \in {"idle", "failed"} : Leave(p, outcome)
  /\ UNCHANGED <<keyFiles, state, remote, removals, clash>>

-----------------------------------------------------------------------------
\* A crash, a signal that also ends ssh-keygen, or a failing call.
Crash(p) ==
  /\ pc[p] \notin Rest
  /\ Leave(p, "crashed")
  /\ UNCHANGED <<keyFiles, state, remote, removals, clash>>

\* What the message about an outdated state asks for.  The keys stay.
RemoveState ==
  /\ state # None /\ removals < MaxRemovals
  /\ state' = None
  /\ removals' = removals + 1
  /\ UNCHANGED <<keyFiles, remote, pc, locals, alone, clash>>

Step(p) ==
  \/ LookPrivate(p) \/ LookPublic(p) \/ Keygen(p) \/ WritePrivate(p)
  \/ OpenPublic(p) \/ ClosePublic(p) \/ ReadPublic(p)
  \/ PostAnswered(p) \/ PostFails(p) \/ Finalize(p) \/ HostKeyRefused(p) \/ TrueUp(p)

Next ==
  \/ \E p \in Procs : \/ Start(p)
                      \/ Step(p)
                      \/ Crash(p)
  \/ RemoveState

Spec == Init /\ [][Next]_vars

\* Commands run on, the user tries again as long as there is no saved state,
\* and of many attempts one is answered and settles on a host key.
FairTo(p) ==
  /\ WF_vars(Step(p)) /\ WF_vars(Start(p))
  /\ SF_vars(PostAnswered(p)) /\ SF_vars(Finalize(p))

Fairness == \A p \in Procs : FairTo(p)

LiveSpec == Spec /\ Fairness

-----------------------------------------------------------------------------
\* Safety.

\* "refusing to replace existing key material" (enroll.go:25): a private key
\* stays what it is once it is there and a public one once it is complete, over
\* crashes, retries and removed states, unless two ssh-keygen overlapped.
KeyMaterialKept ==
  [][\A i \in Identities \ clash' :
       /\ private[i] # None => private'[i] = private[i]
       /\ public[i] \in Keys => public'[i] = public[i]]_vars

\* All the service ever enrolled, and what is saved, are the keys on disk: an
\* enrollment whose answer was lost or whose host key was refused is one the
\* next attempt repeats with the same identity, and the saved one works.
OneIdentity ==
  /\ state # None => state \in remote
  /\ \A e \in remote, i \in Identities \ clash :
       e.keys[i] = private[i] /\ e.keys[i] = public[i]

\* "already connected" (main.go:158): a saved state is replaced by a command
\* that overlapped another one, and by no other.
ReplacedInARaceOnly ==
  [][\A p \in Procs : pc[p] = "finalize" /\ state' # state /\ alone[p] => state = None]_vars

-----------------------------------------------------------------------------
\* Liveness.

\* A pair that is not whole and that nobody is writing.
Broken(i) ==
  /\ private[i] # None \/ public[i] # None
  /\ private[i] = None \/ public[i] \notin Keys
  /\ \A p \in Procs : pc[p] \in Keygens => ident[p] # i

\* Once nothing crashes any more the retries lead to a saved enrollment,
\* whatever was lost or refused before; only a key pair that a crash left
\* unfinished can prevent it, and does so for good (enroll.go:24).
Settles ==
  <>[](\A p \in Procs : pc[p] # "crashed")
    => <>[](state # None \/ \E i \in Identities : Broken(i))
=============================================================================
