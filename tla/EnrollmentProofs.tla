-------------------------- MODULE EnrollmentProofs --------------------------
(***************************************************************************)
(* Theorems about Enrollment, for any number of commands on the state      *)
(* directory and of removals of the state file.                            *)
(***************************************************************************)
EXTENDS Enrollment, TLAPS

-----------------------------------------------------------------------------
(* The inductive invariant. *)

\* A command begins with the tunnel key, and goes on to the host key with the
\* tunnel key in its hands.
OrderInv ==
  \A p \in Procs :
    /\ pc[p] \in Rest => ident[p] = "tunnel"
    /\ pc[p] \notin Rest /\ ident[p] = "host" => held[p]["tunnel"] \in Keys

\* What one ssh-keygen of pair i relies on, step by step.
KeygenAt(p, i) ==
  /\ pc[p] = "writePrivate" => private[i] = None
  /\ pc[p] = "openPublic" => private[i] = MadeBy(p, i) /\ public[i] = None
  /\ pc[p] = "closePublic" => private[i] = MadeBy(p, i) /\ public[i] = Partial

\* A pair over which no two of them met: the public half comes after the
\* private one and belongs to it, and whoever holds a key holds that one.
PairInv(i) ==
  /\ public[i] # None => private[i] # None
  /\ public[i] \in Keys => public[i] = private[i]
  /\ \A p, q \in KeygenOf(i) : p = q
  /\ \A p \in Procs : ident[p] = i => KeygenAt(p, i)
  /\ \A p \in Procs : held[p][i] # None => held[p][i] = public[i]

KeyInv == \A i \in Identities \ clash : PairInv(i)

\* The service has the keys that are held, and the state is its answer.
EnrolledInv ==
  /\ state # None => state \in remote
  /\ \A p \in Procs : pc[p] = "finalize" => Granted(p) \in remote
  /\ \A e \in remote, i \in Identities \ clash : e.keys[i] = public[i]

\* A command that is alone found no state and would see one come.
AloneInv ==
  \A p \in Procs : alone[p] =>
    /\ pc[p] \notin Rest
    /\ \A q \in Procs \ {p} : pc[q] \in Rest
    /\ pc[p] # "trueUp" => state = None

EnrollInv == TypeOK /\ OrderInv /\ KeyInv /\ EnrolledInv /\ AloneInv

-----------------------------------------------------------------------------
\* A whole key is neither absent nor half written.
LEMMA KeyFacts ==
  /\ None \notin Keys /\ Partial \notin Keys /\ None # Partial
  /\ \A p \in Procs, i \in Identities : MadeBy(p, i) \in Keys
<1>1. Partial \notin Keys
  <2> SUFFICES ASSUME Partial \in Keys PROVE FALSE
    OBVIOUS
  <2>1. Partial.pair \in Identities
    BY DEF Keys
  <2> QED
    BY <2>1 DEF Partial, Identities
<1>2. \A p \in Procs, i \in Identities : MadeBy(p, i) \in Keys
  BY DEF MadeBy, Keys
<1> QED
  BY <1>1, <1>2, EnrollmentAssumption

\* At first there are no keys and no commands.
LEMMA EnrollInit == Init => EnrollInv
<1> SUFFICES ASSUME Init PROVE EnrollInv
  OBVIOUS
<1> USE EnrollmentAssumption DEF Init, Nothing, Rest, Keygens
<1>1. TypeOK
  BY DEF TypeOK, Identities
<1>2. OrderInv
  BY DEF OrderInv
<1>3. KeyInv
  BY KeyFacts DEF KeyInv, PairInv, KeygenAt, KeygenOf
<1>4. EnrolledInv /\ AloneInv
  BY DEF EnrolledInv, AloneInv
<1> QED
  BY <1>1, <1>2, <1>3, <1>4 DEF EnrollInv

-----------------------------------------------------------------------------
\* Types, and the order of the two keys.
LEMMA TypeStep == TypeOK /\ OrderInv /\ [Next]_vars => TypeOK' /\ OrderInv'
<1> SUFFICES ASSUME TypeOK, OrderInv, [Next]_vars PROVE TypeOK' /\ OrderInv'
  OBVIOUS
<1> USE EnrollmentAssumption DEF keyFiles, locals, Goto, Rest, Keygens
<1>1. ASSUME NEW p \in Procs, NEW outcome \in Rest, Leave(p, outcome),
             UNCHANGED <<private, public, removals, clash>>,
             state' \in Enrollments \cup {None}, remote' \subseteq Enrollments
      PROVE  TypeOK' /\ OrderInv'
  <2>1. held'[p] = Nothing /\ held' \in [Procs -> [Identities -> Keys \cup {None}]]
    BY <1>1 DEF TypeOK, Leave, Nothing
  <2>2. TypeOK'
    BY <1>1, <2>1 DEF TypeOK, Leave, Identities
  <2>3. OrderInv'
    BY <1>1, <2>2 DEF TypeOK, OrderInv, Leave
  <2> QED
    BY <2>2, <2>3
<1>2. ASSUME NEW p \in Procs, Start(p) PROVE TypeOK' /\ OrderInv'
  BY <1>2 DEF Start, TypeOK, OrderInv
<1>3. ASSUME NEW p \in Procs, LookPrivate(p) PROVE TypeOK' /\ OrderInv'
  BY <1>3 DEF LookPrivate, TypeOK, OrderInv
<1>4. ASSUME NEW p \in Procs, LookPublic(p) PROVE TypeOK' /\ OrderInv'
  <2>1. CASE Leave(p, "failed")
    BY <1>1, <1>4, <2>1 DEF LookPublic, TypeOK
  <2>2. CASE Goto(p, "readPublic") \/ Goto(p, "keygen")
    BY <1>4, <2>2, <1>1, ZenonT(60) DEF LookPublic, TypeOK, OrderInv
  <2> QED
    BY <1>4, <2>1, <2>2 DEF LookPublic
<1>5. ASSUME NEW p \in Procs, Keygen(p) PROVE TypeOK' /\ OrderInv'
  <2>1. CASE Leave(p, "failed") /\ UNCHANGED clash
    BY <1>1, <1>5, <2>1 DEF Keygen, TypeOK
  <2>2. CASE Goto(p, "writePrivate") /\ UNCHANGED <<locals, alone>>
             /\ clash' = IF KeygenOf(ident[p]) = {} THEN clash ELSE clash \cup {ident[p]}
    <3>1. clash' \subseteq Identities
      BY <2>2 DEF TypeOK
    <3> QED
      BY <1>5, <2>2, <3>1 DEF Keygen, TypeOK, OrderInv
  <2> QED
    BY <1>5, <2>1, <2>2 DEF Keygen
<1>6. ASSUME NEW p \in Procs, WritePrivate(p) \/ OpenPublic(p) \/ ClosePublic(p)
      PROVE  TypeOK' /\ OrderInv'
  <2>1. private' \in [Identities -> Keys \cup {None}] /\ public' \in [Identities -> Keys \cup {None, Partial}]
    <3>1. MadeBy(p, ident[p]) \in Keys
      BY KeyFacts DEF TypeOK
    <3> QED
      BY <1>6, <3>1 DEF WritePrivate, OpenPublic, ClosePublic, TypeOK
  <2>2. \E point \in {"openPublic", "closePublic", "readPublic"} : pc' = [pc EXCEPT ![p] = point]
    BY <1>6 DEF WritePrivate, OpenPublic, ClosePublic
  <2>3. pc[p] \in Keygens /\ UNCHANGED <<state, remote, removals, ident, sawPrivate, held, alone, clash>>
    BY <1>6 DEF WritePrivate, OpenPublic, ClosePublic
  <2>4. TypeOK'
    BY <2>1, <2>2, <2>3 DEF TypeOK
  <2>5. OrderInv'
    BY <2>2, <2>3 DEF TypeOK, OrderInv
  <2> QED
    BY <2>4, <2>5
<1>7. ASSUME NEW p \in Procs, ReadPublic(p) PROVE TypeOK' /\ OrderInv'
  <2>1. CASE public[ident[p]] \in Keys
    <3>1. /\ ident' = [ident EXCEPT ![p] = "host"] /\ ident[p] \in Identities
          /\ held' = [held EXCEPT ![p][ident[p]] = public[ident[p]]]
          /\ pc' = [pc EXCEPT ![p] = IF ident[p] = "tunnel" THEN "lookPrivate" ELSE "post"]
      BY <1>7, <2>1 DEF ReadPublic, Hold, Leave, TypeOK
    <3>2. held' \in [Procs -> [Identities -> Keys \cup {None}]]
      BY <2>1, <3>1 DEF TypeOK
    <3>3. ident[p] = "host" => held'[p] \in [Identities -> Keys]
      BY <1>7, <2>1, <3>1 DEF ReadPublic, TypeOK, OrderInv, Identities
    <3>4. held'[p]["tunnel"] \in Keys
      BY <1>7, <2>1, <3>1 DEF ReadPublic, TypeOK, OrderInv, Identities
    <3>5. TypeOK'
      BY <1>7, <2>1, <3>1, <3>2, <3>3 DEF ReadPublic, TypeOK, Identities
    <3>6. OrderInv'
      BY <1>7, <3>1, <3>4, <3>2 DEF TypeOK, OrderInv
    <3> QED
      BY <3>5, <3>6
  <2>2. CASE public[ident[p]] \notin Keys
    BY <1>1, <1>7, <2>2 DEF ReadPublic, TypeOK
  <2> QED
    BY <2>1, <2>2
<1>8. ASSUME NEW p \in Procs, pc[p] \in {"post", "finalize"} PROVE Granted(p) \in Enrollments
  BY <1>8 DEF TypeOK, Granted, Enrollments
<1>9. ASSUME NEW p \in Procs, PostAnswered(p) PROVE TypeOK' /\ OrderInv'
  BY <1>8, <1>9 DEF PostAnswered, TypeOK, OrderInv
<1>10. ASSUME NEW p \in Procs, PostFails(p) PROVE TypeOK' /\ OrderInv'
  BY <1>1, <1>8, <1>10 DEF PostFails, TypeOK
<1>11. ASSUME NEW p \in Procs, Finalize(p) PROVE TypeOK' /\ OrderInv'
  <2>1. CASE Leave(p, "idle")
    BY <1>1, <1>8, <1>11, <2>1 DEF Finalize, TypeOK
  <2>2. CASE Goto(p, "trueUp") /\ UNCHANGED <<locals, alone>>
    BY <1>8, <1>11, <2>2 DEF Finalize, TypeOK, OrderInv
  <2> QED
    BY <1>11, <2>1, <2>2 DEF Finalize
<1>12. ASSUME NEW p \in Procs, HostKeyRefused(p) \/ TrueUp(p) \/ Crash(p) PROVE TypeOK' /\ OrderInv'
  BY <1>1, <1>12 DEF HostKeyRefused, TrueUp, Crash, TypeOK
<1>13. CASE RemoveState
  BY <1>13 DEF RemoveState, TypeOK, OrderInv
<1>14. CASE UNCHANGED vars
  BY <1>14 DEF vars, TypeOK, OrderInv
<1> QED
  BY <1>2, <1>3, <1>4, <1>5, <1>6, <1>7, <1>9, <1>10, <1>11, <1>12, <1>13, <1>14 DEF Next, Step

-----------------------------------------------------------------------------
\* The key pairs: a step that does not touch the files keeps a pair if it
\* neither begins nor ends a step of ssh-keygen and reads nothing new.
LEMMA PairKept ==
  ASSUME NEW i \in Identities, PairInv(i), UNCHANGED keyFiles,
         KeygenOf(i)' \subseteq KeygenOf(i),
         \A q \in Procs : pc'[q] \in Keygens => pc'[q] = pc[q] /\ ident'[q] = ident[q],
         \A q \in Procs : held'[q][i] # None => held'[q][i] = public[i]
  PROVE  PairInv(i)'
BY DEF PairInv, KeygenAt, keyFiles, Keygens

\* Every step keeps the pairs over which no two ssh-keygen meet.
LEMMA KeyStep == TypeOK /\ OrderInv /\ KeyInv /\ [Next]_vars => KeyInv'
<1> SUFFICES ASSUME TypeOK, OrderInv, KeyInv, [Next]_vars, NEW i \in Identities, i \notin clash'
             PROVE  PairInv(i)'
  BY DEF KeyInv
<1> USE EnrollmentAssumption DEF keyFiles, locals, Goto, Rest
<1>0. clash \subseteq clash'
  BY DEF Next, vars, Start, Step, LookPrivate, LookPublic, Keygen, WritePrivate, OpenPublic,
     ClosePublic, ReadPublic, PostAnswered, PostFails, Finalize, HostKeyRefused, TrueUp, Crash,
     RemoveState
<1>00. PairInv(i)
  BY <1>0 DEF KeyInv
<1>1. ASSUME NEW p \in Procs, NEW outcome \in Rest, Leave(p, outcome), UNCHANGED keyFiles
      PROVE  PairInv(i)'
  <2>1. KeygenOf(i)' \subseteq KeygenOf(i)
    BY <1>1 DEF TypeOK, Leave, KeygenOf, Keygens
  <2>2. \A q \in Procs : pc'[q] \in Keygens => pc'[q] = pc[q] /\ ident'[q] = ident[q]
    BY <1>1 DEF TypeOK, Leave, Keygens
  <2>3. \A q \in Procs : held'[q][i] # None => held'[q][i] = public[i]
    BY <1>00, <1>1 DEF TypeOK, Leave, Nothing, PairInv
  <2> QED
    BY <1>00, <1>1, <2>1, <2>2, <2>3, PairKept
<1>2. ASSUME NEW p \in Procs, NEW point, pc' = [pc EXCEPT ![p] = point], point \notin Keygens,
             UNCHANGED <<keyFiles, ident, held>>
      PROVE  PairInv(i)'
  <2>1. KeygenOf(i)' \subseteq KeygenOf(i)
    BY <1>2 DEF TypeOK, KeygenOf
  <2>2. \A q \in Procs : pc'[q] \in Keygens => pc'[q] = pc[q] /\ ident'[q] = ident[q]
    BY <1>2 DEF TypeOK
  <2> QED
    BY <1>00, <1>2, <2>1, <2>2, PairKept DEF PairInv
<1>3. ASSUME NEW p \in Procs, Start(p) \/ LookPrivate(p) \/ PostAnswered(p) PROVE PairInv(i)'
  BY <1>2, <1>3 DEF Start, LookPrivate, PostAnswered, Keygens
<1>4. ASSUME NEW p \in Procs, LookPublic(p) PROVE PairInv(i)'
  <2>1. Leave(p, "failed") \/ (UNCHANGED locals /\ (Goto(p, "readPublic") \/ Goto(p, "keygen")))
    BY <1>4 DEF LookPublic
  <2> QED
    BY <1>1, <1>2, <1>4, <2>1 DEF LookPublic, Keygens
<1>5. ASSUME NEW p \in Procs, Finalize(p) PROVE PairInv(i)'
  <2>1. Leave(p, "idle") \/ (UNCHANGED locals /\ Goto(p, "trueUp"))
    BY <1>5 DEF Finalize
  <2> QED
    BY <1>1, <1>2, <1>5, <2>1 DEF Finalize, Keygens
<1>6. ASSUME NEW p \in Procs, PostFails(p) \/ HostKeyRefused(p) \/ TrueUp(p) \/ Crash(p)
      PROVE  PairInv(i)'
  BY <1>1, <1>6 DEF PostFails, HostKeyRefused, TrueUp, Crash
<1>7. ASSUME NEW p \in Procs, Keygen(p) PROVE PairInv(i)'
  <2>1. CASE Leave(p, "failed")
    BY <1>1, <1>7, <2>1 DEF Keygen
  <2>2. CASE /\ MayGenerate(p) /\ Goto(p, "writePrivate") /\ UNCHANGED <<locals, alone>>
             /\ clash' = IF KeygenOf(ident[p]) = {} THEN clash ELSE clash \cup {ident[p]}
    <3>1. CASE ident[p] # i
      <4>1. KeygenOf(i)' = KeygenOf(i)
        BY <1>7, <2>2, <3>1 DEF Keygen, TypeOK, KeygenOf, Keygens
      <4> QED
        BY <1>00, <1>7, <2>2, <3>1, <4>1 DEF Keygen, TypeOK, PairInv, KeygenAt
    <3>2. CASE ident[p] = i
      <4>1. KeygenOf(i) = {} /\ private[i] = None
        BY <2>2, <3>2 DEF MayGenerate
      <4>2. KeygenOf(i)' = {p}
        BY <1>7, <2>2, <3>2, <4>1 DEF Keygen, TypeOK, KeygenOf, Keygens
      <4> QED
        BY <1>00, <1>7, <2>2, <3>2, <4>1, <4>2 DEF Keygen, TypeOK, PairInv, KeygenAt
    <3> QED
      BY <3>1, <3>2
  <2> QED
    BY <1>7, <2>1, <2>2 DEF Keygen
<1>8. ASSUME NEW p \in Procs, WritePrivate(p) \/ OpenPublic(p) \/ ClosePublic(p) PROVE PairInv(i)'
  <2>1. KeygenOf(i)' \subseteq KeygenOf(i)
    BY <1>8 DEF TypeOK, WritePrivate, OpenPublic, ClosePublic, KeygenOf, Keygens
  <2>2. CASE ident[p] # i
    <3>1. private'[i] = private[i] /\ public'[i] = public[i]
      BY <1>8, <2>2 DEF TypeOK, WritePrivate, OpenPublic, ClosePublic
    <3>2. \A q \in Procs : ident[q] = i => pc'[q] = pc[q]
      BY <1>8, <2>2 DEF TypeOK, WritePrivate, OpenPublic, ClosePublic
    <3>3. UNCHANGED <<ident, held>>
      BY <1>8 DEF WritePrivate, OpenPublic, ClosePublic
    <3> QED
      BY <1>00, <2>1, <3>1, <3>2, <3>3 DEF PairInv, KeygenAt
  <2>3. CASE ident[p] = i
    <3>1. p \in KeygenOf(i) /\ \A q \in Procs \ {p} : ident[q] = i => pc[q] \notin Keygens
      BY <1>00, <1>8, <2>3 DEF PairInv, KeygenOf, Keygens, WritePrivate, OpenPublic, ClosePublic
    <3>2. \A q \in Procs : q # p => pc'[q] = pc[q]
      BY <1>8 DEF TypeOK, WritePrivate, OpenPublic, ClosePublic
    <3>3. UNCHANGED <<ident, held>>
      BY <1>8 DEF WritePrivate, OpenPublic, ClosePublic
    <3>4. \A q \in Procs : held[q][i] = None
      BY <1>00, <1>8, <2>3, KeyFacts DEF TypeOK, PairInv, KeygenAt, WritePrivate, OpenPublic, ClosePublic
    <3>5. \A q \in Procs : q # p /\ ident[q] = i => KeygenAt(q, i)'
      BY <3>1, <3>2, <3>3 DEF KeygenAt, Keygens
    <3>6. KeygenAt(p, i)'
      BY <1>00, <1>8, <2>3 DEF TypeOK, PairInv, KeygenAt, WritePrivate, OpenPublic, ClosePublic
    <3>7. (public'[i] # None => private'[i] # None) /\ (public'[i] \in Keys => public'[i] = private'[i])
      BY <1>00, <1>8, <2>3, KeyFacts DEF TypeOK, PairInv, KeygenAt, WritePrivate, OpenPublic, ClosePublic
    <3> QED
      BY <1>00, <2>1, <3>3, <3>4, <3>5, <3>6, <3>7 DEF PairInv
  <2> QED
    BY <2>2, <2>3
<1>9. ASSUME NEW p \in Procs, ReadPublic(p) PROVE PairInv(i)'
  <2>1. CASE public[ident[p]] \in Keys
    <3>1. /\ held' = [held EXCEPT ![p][ident[p]] = public[ident[p]]]
          /\ ident' = [ident EXCEPT ![p] = "host"]
          /\ \E point \in {"lookPrivate", "post"} : pc' = [pc EXCEPT ![p] = point]
          /\ UNCHANGED keyFiles
      BY <1>9, <2>1 DEF ReadPublic, Hold
    <3>2. \A q \in Procs : held'[q][i] # None => held'[q][i] = public[i]
      BY <1>00, <3>1 DEF TypeOK, PairInv
    <3>3. KeygenOf(i)' \subseteq KeygenOf(i)
      BY <3>1 DEF TypeOK, KeygenOf, Keygens
    <3>4. \A q \in Procs : pc'[q] \in Keygens => pc'[q] = pc[q] /\ ident'[q] = ident[q]
      BY <3>1 DEF TypeOK, Keygens
    <3> QED
      BY <1>00, <3>1, <3>2, <3>3, <3>4, PairKept
  <2>2. CASE public[ident[p]] \notin Keys
    BY <1>1, <1>9, <2>2 DEF ReadPublic
  <2> QED
    BY <2>1, <2>2
<1>10. CASE RemoveState \/ UNCHANGED vars
  BY <1>00, <1>10, PairKept DEF RemoveState, vars, KeygenOf, PairInv
<1> QED
  BY <1>3, <1>4, <1>5, <1>6, <1>7, <1>8, <1>9, <1>10 DEF Next, Step

-----------------------------------------------------------------------------
\* A whole public key of a pair without a clash stays as it is.
LEMMA PublicKept ==
  TypeOK /\ KeyInv /\ [Next]_vars =>
    /\ clash \subseteq clash'
    /\ \A i \in Identities \ clash' :
         /\ private[i] # None => private'[i] = private[i]
         /\ public[i] \in Keys => public'[i] = public[i]
<1> SUFFICES ASSUME TypeOK, KeyInv, [Next]_vars
             PROVE  /\ clash \subseteq clash'
                    /\ \A i \in Identities \ clash' :
                         /\ private[i] # None => private'[i] = private[i]
                         /\ public[i] \in Keys => public'[i] = public[i]
  OBVIOUS
<1> USE DEF keyFiles, locals
<1>1. clash \subseteq clash'
  BY DEF Next, vars, Start, Step, LookPrivate, LookPublic, Keygen, WritePrivate, OpenPublic,
     ClosePublic, ReadPublic, PostAnswered, PostFails, Finalize, HostKeyRefused, TrueUp, Crash,
     RemoveState
<1>2. ASSUME NEW p \in Procs, WritePrivate(p) \/ OpenPublic(p) \/ ClosePublic(p),
             NEW i \in Identities \ clash'
      PROVE  /\ private[i] # None => private'[i] = private[i]
             /\ public[i] \in Keys => public'[i] = public[i]
  <2>1. CASE ident[p] = i
    BY <1>1, <1>2, <2>1, KeyFacts
       DEF TypeOK, KeyInv, PairInv, KeygenAt, WritePrivate, OpenPublic, ClosePublic
  <2>2. CASE ident[p] # i
    BY <1>2, <2>2 DEF TypeOK, WritePrivate, OpenPublic, ClosePublic
  <2> QED
    BY <2>1, <2>2
<1>3. (\E p \in Procs : WritePrivate(p) \/ OpenPublic(p) \/ ClosePublic(p)) \/ UNCHANGED keyFiles
  BY DEF Next, vars, Start, Step, LookPrivate, LookPublic, Keygen, ReadPublic, PostAnswered,
     PostFails, Finalize, HostKeyRefused, TrueUp, Crash, RemoveState
<1> QED
  BY <1>1, <1>2, <1>3

\* What the service has and what is saved.
LEMMA EnrolledStep == EnrollInv /\ [Next]_vars => EnrolledInv'
<1> SUFFICES ASSUME EnrollInv, [Next]_vars PROVE EnrolledInv'
  OBVIOUS
<1> USE DEF EnrollInv, keyFiles, locals, Goto, Rest
<1>1. \A i \in Identities \ clash', e \in remote : e.keys[i] = public'[i]
  <2> SUFFICES ASSUME NEW i \in Identities \ clash', NEW e \in remote PROVE e.keys[i] = public'[i]
    OBVIOUS
  <2>1. e.keys[i] \in Keys
    BY DEF TypeOK, Enrollments
  <2> QED
    BY <2>1, PublicKept DEF EnrolledInv
<1>2. ASSUME NEW p \in Procs, pc[p] = "post", NEW i \in Identities \ clash', UNCHANGED public
      PROVE  Granted(p).keys[i] = public'[i]
  <2>1. held[p][i] \in Keys
    BY <1>2 DEF TypeOK
  <2>2. held[p][i] = public[i]
    BY <1>2, <2>1, KeyFacts, PublicKept DEF KeyInv, PairInv
  <2> QED
    BY <1>2, <2>2 DEF Granted
<1>3. ASSUME NEW p \in Procs, NEW outcome \in Rest, Leave(p, outcome), UNCHANGED <<state, remote>>
      PROVE  EnrolledInv'
  BY <1>1, <1>3 DEF TypeOK, EnrolledInv, Leave, Granted
<1>4. ASSUME NEW p \in Procs, NEW point, pc' = [pc EXCEPT ![p] = point], point # "finalize",
             UNCHANGED <<state, remote, held>>
      PROVE  EnrolledInv'
  BY <1>1, <1>4 DEF TypeOK, EnrolledInv, Granted
<1>5. ASSUME NEW p \in Procs, Start(p) \/ LookPrivate(p) \/ WritePrivate(p) \/ OpenPublic(p)
                              \/ ClosePublic(p)
      PROVE  EnrolledInv'
  BY <1>4, <1>5 DEF Start, LookPrivate, WritePrivate, OpenPublic, ClosePublic
<1>6. ASSUME NEW p \in Procs, LookPublic(p) \/ Keygen(p) PROVE EnrolledInv'
  <2>1. \/ Leave(p, "failed")
        \/ UNCHANGED locals /\ \E point \in {"readPublic", "keygen", "writePrivate"} : Goto(p, point)
    BY <1>6 DEF LookPublic, Keygen
  <2> QED
    BY <1>3, <1>4, <1>6, <2>1 DEF LookPublic, Keygen
<1>7. ASSUME NEW p \in Procs, ReadPublic(p) PROVE EnrolledInv'
  <2>1. CASE public[ident[p]] \in Keys
    <3>1. /\ \A q \in Procs \ {p} : held'[q] = held[q] /\ pc'[q] = pc[q]
          /\ pc'[p] # "finalize"
          /\ UNCHANGED <<state, remote>>
      BY <1>7, <2>1 DEF ReadPublic, Hold, TypeOK
    <3> QED
      BY <1>1, <3>1 DEF EnrolledInv, Granted
  <2>2. CASE public[ident[p]] \notin Keys
    BY <1>3, <1>7, <2>2 DEF ReadPublic
  <2> QED
    BY <2>1, <2>2
<1>8. ASSUME NEW p \in Procs, PostAnswered(p) PROVE EnrolledInv'
  <2>1. /\ remote' = remote \cup {Granted(p)}
        /\ \A q \in Procs : q # p => pc'[q] = pc[q]
        /\ UNCHANGED <<state, held, public>>
    BY <1>8 DEF PostAnswered, TypeOK
  <2>2. \A e \in remote', i \in Identities \ clash' : e.keys[i] = public'[i]
    BY <1>1, <1>2, <1>8, <2>1 DEF PostAnswered
  <2> QED
    BY <2>1, <2>2 DEF EnrolledInv, Granted
<1>9. ASSUME NEW p \in Procs, PostFails(p) PROVE EnrolledInv'
  <2>1. /\ remote' \in {remote, remote \cup {Granted(p)}}
        /\ \A q \in Procs : q # p => pc'[q] = pc[q] /\ held'[q] = held[q]
        /\ pc'[p] = "failed"
        /\ UNCHANGED <<state, public>>
    BY <1>9 DEF PostFails, Leave, TypeOK
  <2>2. \A e \in remote', i \in Identities \ clash' : e.keys[i] = public'[i]
    BY <1>1, <1>2, <1>9, <2>1 DEF PostFails
  <2> QED
    BY <2>1, <2>2 DEF EnrolledInv, Granted
<1>10. ASSUME NEW p \in Procs, Finalize(p) PROVE EnrolledInv'
  <2>1. /\ state' = Granted(p) /\ Granted(p) \in remote
        /\ \A q \in Procs : q # p => pc'[q] = pc[q] /\ held'[q] = held[q]
        /\ pc'[p] # "finalize"
        /\ UNCHANGED remote
    BY <1>10 DEF Finalize, Leave, TypeOK, EnrolledInv
  <2> QED
    BY <1>1, <2>1 DEF EnrolledInv, Granted
<1>11. ASSUME NEW p \in Procs, HostKeyRefused(p) \/ TrueUp(p) \/ Crash(p) PROVE EnrolledInv'
  BY <1>3, <1>11 DEF HostKeyRefused, TrueUp, Crash
<1>12. CASE RemoveState \/ UNCHANGED vars
  BY <1>1, <1>12 DEF RemoveState, vars, EnrolledInv, Granted
<1> QED
  BY <1>5, <1>6, <1>7, <1>8, <1>9, <1>10, <1>11, <1>12 DEF Next, Step

\* Who is alone.
LEMMA AloneStep == EnrollInv /\ [Next]_vars => AloneInv'
<1> SUFFICES ASSUME EnrollInv, [Next]_vars PROVE AloneInv'
  OBVIOUS
<1> USE DEF EnrollInv, keyFiles, locals, Goto, Rest
<1>1. ASSUME NEW p \in Procs, NEW outcome \in Rest, Leave(p, outcome), UNCHANGED state
      PROVE  AloneInv'
  BY <1>1 DEF TypeOK, AloneInv, Leave
<1>2. ASSUME NEW p \in Procs, NEW point, pc[p] \notin Rest, pc[p] # "trueUp", point \notin Rest,
             pc' = [pc EXCEPT ![p] = point], UNCHANGED <<state, alone>>
      PROVE  AloneInv'
  BY <1>2 DEF TypeOK, AloneInv
<1>3. ASSUME NEW p \in Procs, Start(p) PROVE AloneInv'
  BY <1>3 DEF Start, NoSavedState, TypeOK, AloneInv
<1>4. ASSUME NEW p \in Procs, LookPrivate(p) \/ WritePrivate(p) \/ OpenPublic(p) \/ ClosePublic(p)
                              \/ PostAnswered(p)
      PROVE  AloneInv'
  BY <1>2, <1>4 DEF LookPrivate, WritePrivate, OpenPublic, ClosePublic, PostAnswered
<1>5. ASSUME NEW p \in Procs, LookPublic(p) \/ Keygen(p) PROVE AloneInv'
  <2>1. \/ Leave(p, "failed")
        \/ UNCHANGED alone /\ \E point \in {"readPublic", "keygen", "writePrivate"} : Goto(p, point)
    BY <1>5 DEF LookPublic, Keygen
  <2> QED
    BY <1>1, <1>2, <1>5, <2>1 DEF LookPublic, Keygen
<1>6. ASSUME NEW p \in Procs, ReadPublic(p) PROVE AloneInv'
  <2>1. \/ Leave(p, "failed")
        \/ UNCHANGED alone /\ \E point \in {"lookPrivate", "post"} : Goto(p, point)
    BY <1>6 DEF ReadPublic
  <2> QED
    BY <1>1, <1>2, <1>6, <2>1 DEF ReadPublic
<1>7. ASSUME NEW p \in Procs, Finalize(p) PROVE AloneInv'
  <2>1. \A q \in Procs \ {p} : ~alone[q]
    BY <1>7 DEF Finalize, AloneInv
  <2>2. CASE Leave(p, "idle")
    BY <2>1, <2>2 DEF Leave, TypeOK, AloneInv
  <2>3. CASE Goto(p, "trueUp") /\ UNCHANGED <<locals, alone>>
    BY <1>7, <2>1, <2>3 DEF Finalize, TypeOK, AloneInv
  <2> QED
    BY <1>7, <2>2, <2>3 DEF Finalize
<1>8. ASSUME NEW p \in Procs, PostFails(p) \/ HostKeyRefused(p) \/ TrueUp(p) \/ Crash(p)
      PROVE  AloneInv'
  BY <1>1, <1>8 DEF PostFails, HostKeyRefused, TrueUp, Crash
<1>9. CASE RemoveState \/ UNCHANGED vars
  BY <1>9 DEF RemoveState, vars, AloneInv
<1> QED
  BY <1>3, <1>4, <1>5, <1>6, <1>7, <1>8, <1>9 DEF Next, Step

\* The whole of it is kept.
LEMMA EnrollStep == EnrollInv /\ [Next]_vars => EnrollInv'
BY TypeStep, KeyStep, EnrolledStep, AloneStep DEF EnrollInv

-----------------------------------------------------------------------------
(* What follows from it. *)

\* The variables keep their types, and a command that posts holds both keys.
THEOREM EnrollTypeCorrect == Spec => []TypeOK
<1>1. EnrollInv => TypeOK
  BY DEF EnrollInv
<1> QED
  BY EnrollInit, EnrollStep, <1>1, PTL DEF Spec

\* Over every crash, retry and removal the service and the state file name the
\* keys that are on disk, unless two ssh-keygen overlapped.
THEOREM EnrollsOneIdentity == Spec => []OneIdentity
<1>1. EnrollInv => OneIdentity
  <2> SUFFICES ASSUME EnrollInv PROVE OneIdentity
    OBVIOUS
  <2>1. ASSUME NEW e \in remote, NEW i \in Identities \ clash
        PROVE  e.keys[i] = private[i] /\ e.keys[i] = public[i]
    <3>1. e.keys[i] \in Keys
      BY DEF EnrollInv, TypeOK, Enrollments
    <3> QED
      BY <3>1 DEF EnrollInv, EnrolledInv, KeyInv, PairInv
  <2> QED
    BY <2>1 DEF EnrollInv, EnrolledInv, OneIdentity
<1> QED
  BY EnrollInit, EnrollStep, <1>1, PTL DEF Spec

\* No command replaces key material that is there.
THEOREM KeepsKeyMaterial == Spec => KeyMaterialKept
<1>1. EnrollInv /\ [Next]_vars =>
        [\A i \in Identities \ clash' :
           /\ private[i] # None => private'[i] = private[i]
           /\ public[i] \in Keys => public'[i] = public[i]]_vars
  BY PublicKept DEF EnrollInv
<1> QED
  BY EnrollInit, EnrollStep, <1>1, PTL DEF Spec, KeyMaterialKept

\* A command that ran alone replaces no saved state.
THEOREM ReplacesInARaceOnly == Spec => ReplacedInARaceOnly
<1>1. EnrollInv /\ [Next]_vars =>
        [\A p \in Procs : pc[p] = "finalize" /\ state' # state /\ alone[p] => state = None]_vars
  BY DEF EnrollInv, AloneInv
<1> QED
  BY EnrollInit, EnrollStep, <1>1, PTL DEF Spec, ReplacedInARaceOnly
-----------------------------------------------------------------------------
(* Retries.  What follows holds of clashing pairs as well. *)

\* The private file comes first and neither file ever goes away.
FileInv ==
  /\ \A i \in Identities : public[i] # None => private[i] # None
  /\ \A p \in Procs : pc[p] \in {"openPublic", "closePublic"} => private[ident[p]] # None
  /\ \A p \in Procs, i \in Identities : held[p][i] # None => public[i] # None

RetryInv == TypeOK /\ OrderInv /\ FileInv

LEMMA RetryInit == Init => RetryInv
<1> SUFFICES ASSUME Init PROVE RetryInv
  OBVIOUS
<1>1. FileInv
  BY DEF Init, FileInv, Nothing
<1> QED
  BY <1>1, EnrollInit DEF RetryInv, EnrollInv

\* Whoever writes a file is an ssh-keygen.
LEMMA FilesStay ==
  ASSUME TypeOK, [Next]_vars, NEW i \in Identities
  PROVE  /\ KeygenOf(i) = {} => private'[i] = private[i] /\ public'[i] = public[i]
         /\ private[i] # None => private'[i] # None
         /\ public[i] # None => public'[i] # None
<1> USE DEF keyFiles, locals
<1>1. CASE \E p \in Procs : WritePrivate(p) \/ OpenPublic(p) \/ ClosePublic(p)
  <2> PICK p \in Procs : WritePrivate(p) \/ OpenPublic(p) \/ ClosePublic(p)
    BY <1>1
  <2>1. CASE ident[p] = i
    <3>1. p \in KeygenOf(i)
      BY <2>1 DEF KeygenOf, Keygens, WritePrivate, OpenPublic, ClosePublic
    <3> QED
      BY <2>1, <3>1, KeyFacts, EnrollmentAssumption DEF WritePrivate, OpenPublic, ClosePublic, TypeOK
  <2>2. CASE ident[p] # i
    BY <2>2 DEF WritePrivate, OpenPublic, ClosePublic, TypeOK
  <2> QED
    BY <2>1, <2>2
<1>2. CASE UNCHANGED keyFiles
  BY <1>2
<1>3. (\E p \in Procs : WritePrivate(p) \/ OpenPublic(p) \/ ClosePublic(p)) \/ UNCHANGED keyFiles
  BY DEF Next, vars, Start, Step, LookPrivate, LookPublic, Keygen, ReadPublic, PostAnswered,
     PostFails, Finalize, HostKeyRefused, TrueUp, Crash, RemoveState
<1> QED
  BY <1>1, <1>2, <1>3

\* Only a command itself goes on.
LEMMA OthersKeep ==
  ASSUME TypeOK, [Next]_vars, NEW p \in Procs
  PROVE  \/ Step(p) \/ Start(p) \/ Crash(p)
         \/ /\ pc'[p] = pc[p] /\ ident'[p] = ident[p]
            /\ sawPrivate'[p] = sawPrivate[p] /\ held'[p] = held[p]
<1> DEFINE Kept == /\ pc'[p] = pc[p] /\ ident'[p] = ident[p]
                   /\ sawPrivate'[p] = sawPrivate[p] /\ held'[p] = held[p]
<1> USE DEF TypeOK, locals, Goto
<1>1. ASSUME NEW q \in Procs, q # p, Start(q) \/ Crash(q) PROVE Kept
  BY <1>1 DEF Start, Crash, Leave
<1>2. ASSUME NEW q \in Procs, q # p, Step(q) PROVE Kept
  <2>1. CASE LookPrivate(q) \/ WritePrivate(q) \/ OpenPublic(q) \/ ClosePublic(q) \/ PostAnswered(q)
    BY <1>2, <2>1 DEF LookPrivate, WritePrivate, OpenPublic, ClosePublic, PostAnswered
  <2>2. CASE LookPublic(q) \/ Keygen(q) \/ Finalize(q)
    BY <1>2, <2>2 DEF LookPublic, Keygen, Finalize, Leave
  <2>3. CASE ReadPublic(q)
    BY <1>2, <2>3 DEF ReadPublic, Hold, Leave
  <2>4. CASE PostFails(q) \/ HostKeyRefused(q) \/ TrueUp(q)
    BY <1>2, <2>4 DEF PostFails, HostKeyRefused, TrueUp, Leave
  <2> QED
    BY <1>2, <2>1, <2>2, <2>3, <2>4 DEF Step
<1>3. CASE RemoveState \/ UNCHANGED vars
  BY <1>3 DEF RemoveState, vars
<1> QED
  BY <1>1, <1>2, <1>3 DEF Next

LEMMA RetryStep == RetryInv /\ [Next]_vars => RetryInv'
<1> SUFFICES ASSUME RetryInv, [Next]_vars PROVE FileInv'
  BY TypeStep DEF RetryInv
<1> USE DEF RetryInv, locals, Goto, keyFiles
<1>1. TypeOK'
  BY TypeStep
<1>2. ASSUME NEW i \in Identities, public'[i] # None PROVE private'[i] # None
  <2>1. CASE public[i] # None
    BY <2>1, FilesStay DEF FileInv
  <2>2. CASE public[i] = None
    <3>1. PICK p \in Procs : OpenPublic(p) \/ ClosePublic(p)
      BY <1>2, <2>2 DEF Next, vars, Start, Step, LookPrivate, LookPublic, Keygen, WritePrivate,
         ReadPublic, PostAnswered, PostFails, Finalize, HostKeyRefused, TrueUp, Crash, RemoveState
    <3>2. ident[p] = i /\ private[ident[p]] # None
      BY <1>2, <2>2, <3>1 DEF OpenPublic, ClosePublic, TypeOK, FileInv
    <3> QED
      BY <3>2, FilesStay
  <2> QED
    BY <2>1, <2>2
<1>3. ASSUME NEW p \in Procs PROVE pc'[p] \in {"openPublic", "closePublic"} => private'[ident'[p]] # None
  <2>1. CASE pc'[p] = pc[p] /\ ident'[p] = ident[p]
    BY <2>1, FilesStay DEF FileInv, TypeOK
  <2>2. CASE WritePrivate(p) \/ OpenPublic(p)
    <3>1. ident'[p] = ident[p] /\ (private'[ident[p]] # None)
      BY <2>2, KeyFacts, FilesStay, EnrollmentAssumption DEF WritePrivate, OpenPublic, FileInv, TypeOK
    <3> QED
      BY <3>1
  <2>3. CASE Start(p) \/ Crash(p) \/ LookPrivate(p) \/ LookPublic(p) \/ Keygen(p) \/ ClosePublic(p)
    BY <2>3 DEF Start, Crash, Leave, LookPrivate, LookPublic, Keygen, ClosePublic, TypeOK
  <2>4. CASE ReadPublic(p) \/ PostAnswered(p) \/ PostFails(p) \/ Finalize(p) \/ HostKeyRefused(p) \/ TrueUp(p)
    BY <2>4 DEF ReadPublic, PostAnswered, PostFails, Finalize, HostKeyRefused, TrueUp, Leave, TypeOK, Rest
  <2> QED
    BY <2>1, <2>2, <2>3, <2>4, OthersKeep DEF Step
<1>4. ASSUME NEW p \in Procs, NEW i \in Identities, held'[p][i] # None PROVE public'[i] # None
  <2>1. CASE held'[p][i] = held[p][i]
    BY <1>4, <2>1, FilesStay DEF FileInv
  <2>2. CASE held'[p][i] # held[p][i]
    <3>1. ~(\E outcome \in Rest : Leave(p, outcome)) /\ held'[p] # held[p]
      BY <1>4, <2>2 DEF Leave, TypeOK, Nothing
    <3>2. Step(p) \/ Start(p) \/ Crash(p)
      BY <3>1, OthersKeep
    <3>3. ReadPublic(p) /\ ~Leave(p, "failed")
      BY <3>1, <3>2 DEF Rest, Step, Start, Crash, LookPrivate, LookPublic, Keygen, WritePrivate, OpenPublic,
         ClosePublic, ReadPublic, PostAnswered, PostFails, Finalize, HostKeyRefused, TrueUp
    <3>4. public[ident[p]] \in Keys /\ held' = [held EXCEPT ![p][ident[p]] = public[ident[p]]]
      BY <3>3 DEF ReadPublic, Hold
    <3>5. ident[p] = i
      BY <2>2, <3>4 DEF TypeOK
    <3> QED
      BY <3>4, <3>5, KeyFacts, FilesStay
  <2> QED
    BY <2>1, <2>2
<1> QED
  BY <1>2, <1>3, <1>4 DEF FileInv

\* A pair whose private file is there and that no ssh-keygen works on is never
\* worked on again.
LEMMA PairFrozen ==
  ASSUME TypeOK, [Next]_vars, NEW i \in Identities, KeygenOf(i) = {}, private[i] # None
  PROVE  KeygenOf(i)' = {} /\ private'[i] = private[i] /\ public'[i] = public[i]
<1> SUFFICES ASSUME NEW p \in Procs, pc'[p] \in Keygens, ident'[p] = i PROVE FALSE
  BY FilesStay DEF KeygenOf
<1>1. ~(pc[p] \in Keygens /\ ident[p] = i)
  BY DEF KeygenOf
<1> USE DEF TypeOK, locals, Goto, Keygens
<1>2. ~(Start(p) \/ Crash(p) \/ LookPrivate(p) \/ LookPublic(p) \/ Keygen(p))
  BY DEF Start, Crash, Leave, LookPrivate, LookPublic, Keygen, MayGenerate, Rest
<1>3. ~(WritePrivate(p) \/ OpenPublic(p) \/ ClosePublic(p))
  BY <1>1 DEF WritePrivate, OpenPublic, ClosePublic
<1>4. ~(ReadPublic(p) \/ PostAnswered(p) \/ PostFails(p) \/ Finalize(p) \/ HostKeyRefused(p) \/ TrueUp(p))
  BY DEF ReadPublic, PostAnswered, PostFails, Finalize, HostKeyRefused, TrueUp, Leave, Rest
<1> QED
  BY <1>1, <1>2, <1>3, <1>4, OthersKeep DEF Step

LEMMA BrokenKept ==
  ASSUME RetryInv, [Next]_vars, NEW i \in Identities, Broken(i) PROVE Broken(i)'
<1>1. KeygenOf(i) = {} /\ private[i] # None
  BY DEF Broken, KeygenOf, RetryInv, FileInv
<1>2. KeygenOf(i)' = {} /\ private'[i] = private[i] /\ public'[i] = public[i]
  BY <1>1, PairFrozen DEF RetryInv
<1> QED
  BY <1>1, <1>2 DEF Broken, KeygenOf

\* A key pair that a crash left unfinished stays so, whatever is run
\* afterwards: nothing completes it and nothing replaces it (enroll.go:24).
THEOREM BrokenStays == Spec => [][\A i \in Identities : Broken(i) => Broken(i)']_vars
<1>1. RetryInv /\ [Next]_vars => [\A i \in Identities : Broken(i) => Broken(i)']_vars
  BY BrokenKept
<1> QED
  BY RetryInit, RetryStep, <1>1, PTL DEF Spec
-----------------------------------------------------------------------------
(* Retries settle. *)

PostOpen(p)     == [](pc[p] = "post" => ENABLED <<PostAnswered(p)>>_vars)
FinalizeOpen(p) == [](pc[p] = "finalize" => ENABLED <<Finalize(p)>>_vars)
StepOpen(p)     == [](pc[p] \notin Rest => ENABLED <<Step(p)>>_vars)
StartOpen(p)    == [](pc[p] \in Rest /\ NoSavedState => ENABLED <<Start(p)>>_vars)

\* The guards are all that restricts the actions.
GuardsOpen ==
  \A p \in Procs : StepOpen(p) /\ StartOpen(p) /\ PostOpen(p) /\ FinalizeOpen(p)

NoCrash == \A p \in Procs : pc[p] # "crashed"

\* Of finitely many commands only so many are ever inside the ssh-keygen of
\* one pair before its private file is there, and none enters after that.
KeygensEnd(i) == <>[]NoCrash => []<>(KeygenOf(i) = {})

\* The operator removes finitely many states.
RemovalsEnd == <>[][~RemoveState]_vars

Settled == state # None \/ \E i \in Identities : Broken(i)

\* What a command that goes round comes to: everything is settled, a key pair
\* is being made, or it asks the service.
Reached(p) == Settled \/ (\E i \in Identities : KeygenOf(i) # {}) \/ pc[p] = "post"

\* A command that has seen a pair differently from what is on disk now ends,
\* as does one whose enrollment is behind it.
Detour(p) ==
  \/ pc[p] \in {"finalize", "trueUp"}
  \/ pc[p] = "lookPublic" /\ sawPrivate[p] # (public[ident[p]] # None)
  \/ pc[p] = "keygen" /\ public[ident[p]] # None
  \/ pc[p] = "readPublic" /\ public[ident[p]] = None

\* Calls left before the command posts, a keygen counted like the reading of a
\* key that is there.
CallsLeft(x, i) ==
  CASE x \in Rest                                   -> 8
    [] x = "lookPrivate" /\ i = "tunnel"             -> 7
    [] x = "lookPublic" /\ i = "tunnel"              -> 6
    [] x \in {"keygen", "readPublic"} /\ i = "tunnel" -> 5
    [] x = "lookPrivate" /\ i = "host"               -> 4
    [] x = "lookPublic" /\ i = "host"                -> 3
    [] x \in {"keygen", "readPublic"} /\ i = "host"   -> 2
    [] OTHER                                         -> 1

Ahead(p) == IF Detour(p) THEN 9 ELSE CallsLeft(pc[p], ident[p])

LEMMA CallsLeftType ==
  ASSUME NEW x, NEW i
  PROVE  /\ CallsLeft(x, i) \in 1..8
         /\ CallsLeft(x, i) = 8 => x \in Rest
         /\ x \in {"lookPrivate", "lookPublic", "keygen", "readPublic"} /\ i \in Identities
              => CallsLeft(x, i) > 1
<1>1. CASE x \in Rest
  BY <1>1 DEF CallsLeft, Rest
<1>2. CASE i = "tunnel" /\ x \in {"lookPrivate", "lookPublic", "keygen", "readPublic"}
  BY <1>2 DEF CallsLeft, Rest
<1>3. CASE i = "host" /\ x \in {"lookPrivate", "lookPublic", "keygen", "readPublic"}
  BY <1>3 DEF CallsLeft, Rest
<1>4. CASE x \notin Rest /\ ~(i \in Identities /\ x \in {"lookPrivate", "lookPublic", "keygen", "readPublic"})
  BY <1>4 DEF CallsLeft, Rest, Identities
<1> QED
  BY <1>1, <1>2, <1>3, <1>4 DEF Identities

LEMMA AheadType ==
  ASSUME NEW p \in Procs
  PROVE  /\ Ahead(p) \in 1..9
         /\ Ahead(p) = 8 => pc[p] \in Rest
         /\ TypeOK /\ Ahead(p) = 1 => Reached(p)
<1>1. Ahead(p) \in 1..9 /\ (Ahead(p) = 8 => pc[p] \in Rest)
  BY CallsLeftType DEF Ahead
<1>2. ASSUME TypeOK, Ahead(p) = 1 PROVE Reached(p)
  <2>1. CallsLeft(pc[p], ident[p]) = 1 /\ ~Detour(p)
    BY <1>2 DEF Ahead
  <2>2. ident[p] \in Identities /\ pc[p] \notin {"lookPrivate", "lookPublic", "keygen", "readPublic"}
    BY <1>2, <2>1, CallsLeftType DEF TypeOK
  <2>3. pc[p] \notin Rest
    BY <2>1 DEF CallsLeft
  <2>4. pc[p] \in Keygens \cup {"post"}
    BY <1>2, <2>1, <2>2, <2>3 DEF TypeOK, Detour
  <2> QED
    BY <2>2, <2>4 DEF Reached, KeygenOf
<1> QED
  BY <1>1, <1>2

\* Before that a pair is whole or not there at all.
LEMMA WholeOrAbsent ==
  ASSUME RetryInv, NEW p \in Procs, ~Reached(p), NEW i \in Identities
  PROVE  /\ private[i] # None <=> public[i] # None
         /\ public[i] # None => public[i] \in Keys
<1>1. ~Broken(i) /\ KeygenOf(i) = {}
  BY DEF Reached, Settled
<1>2. \A q \in Procs : pc[q] \in Keygens => ident[q] # i
  BY <1>1 DEF KeygenOf
<1>3. public[i] # None => private[i] # None
  BY DEF RetryInv, FileInv
<1> QED
  BY <1>1, <1>2, <1>3, KeyFacts DEF Broken

\* The call a command makes brings it closer.
LEMMA RetryMoves ==
  ASSUME NEW p \in Procs, RetryInv, [Next]_vars, NoCrash', ~Reached(p), ~Reached(p)'
  PROVE  /\ Step(p) \/ Start(p) => Ahead(p)' < Ahead(p)
         /\ Ahead(p)' = Ahead(p) \/ Ahead(p)' < Ahead(p)
<1> USE DEF RetryInv, locals, Goto
<1>0. TypeOK' /\ ident[p] \in Identities
  BY TypeStep DEF TypeOK
<1>1. \A i \in Identities : private'[i] = private[i] /\ public'[i] = public[i]
  BY FilesStay DEF Reached
<1>2. \A i \in Identities : /\ private[i] # None <=> public[i] # None
                            /\ public[i] # None => public[i] \in Keys
  BY WholeOrAbsent
<1>3. pc[p] \notin Keygens /\ pc'[p] \notin Keygens /\ pc[p] # "post" /\ pc'[p] # "post"
      /\ state = None /\ state' = None
  BY <1>0 DEF Reached, Settled, KeygenOf, TypeOK
<1>4. ASSUME NEW outcome \in Rest, Leave(p, outcome), pc[p] \notin Rest, Detour(p) PROVE Ahead(p)' < Ahead(p)
  <2>1. pc'[p] = outcome
    BY <1>4 DEF Leave, TypeOK
  <2>2. ~Detour(p)' /\ CallsLeft(pc'[p], ident'[p]) = 8
    BY <2>1 DEF Detour, CallsLeft, Rest
  <2> QED
    BY <1>4, <2>2 DEF Ahead
<1>5. CASE Start(p)
  <2>1. pc[p] \in Rest /\ pc'[p] = "lookPrivate" /\ ident'[p] = "tunnel"
    BY <1>5 DEF Start, TypeOK, OrderInv
  <2>2. Ahead(p) = 8 /\ Ahead(p)' = 7
    BY <2>1 DEF Ahead, Detour, CallsLeft, Rest
  <2> QED
    BY <2>2
<1>6. CASE LookPrivate(p)
  <2>1. /\ pc[p] = "lookPrivate" /\ pc'[p] = "lookPublic" /\ ident'[p] = ident[p]
        /\ sawPrivate'[p] = (private[ident[p]] # None)
    BY <1>6 DEF LookPrivate, TypeOK
  <2>2. ~Detour(p) /\ ~Detour(p)'
    BY <1>0, <1>1, <1>2, <2>1 DEF Detour
  <2>3. CallsLeft(pc'[p], ident'[p]) < CallsLeft(pc[p], ident[p])
    BY <1>0, <2>1 DEF CallsLeft, Identities, Rest
  <2> QED
    BY <2>2, <2>3 DEF Ahead
<1>7. CASE LookPublic(p)
  <2>1. CASE Leave(p, "failed")
    <3>1. Detour(p) /\ pc[p] \notin Rest
      BY <1>0, <1>7, <2>1, <1>3 DEF LookPublic, Detour, PairThere, PairAbsent, TypeOK, Leave, Rest
    <3> QED
      BY <1>4, <2>1, <3>1 DEF Rest
  <2>2. CASE ~Leave(p, "failed")
    <3>1. /\ pc[p] = "lookPublic" /\ ident'[p] = ident[p]
          /\ \/ pc'[p] = "readPublic" /\ public[ident[p]] # None
             \/ pc'[p] = "keygen" /\ public[ident[p]] = None
      BY <1>7, <2>2 DEF LookPublic, PairThere, PairAbsent, TypeOK
    <3>2. ~Detour(p)'
      BY <1>0, <1>1, <3>1 DEF Detour
    <3>3. CallsLeft(pc'[p], ident'[p]) < CallsLeft(pc[p], ident[p])
      BY <1>0, <3>1 DEF CallsLeft, Identities, Rest
    <3> QED
      BY <3>2, <3>3, CallsLeftType DEF Ahead
  <2> QED
    BY <2>1, <2>2
<1>8. CASE Keygen(p)
  <2>1. Leave(p, "failed") /\ private[ident[p]] # None /\ pc[p] = "keygen"
    BY <1>3, <1>8 DEF Keygen, MayGenerate, TypeOK, Keygens
  <2>2. Detour(p)
    BY <1>0, <1>2, <2>1 DEF Detour
  <2> QED
    BY <1>4, <2>1, <2>2 DEF Rest
<1>9. CASE ReadPublic(p)
  <2>1. CASE public[ident[p]] = None
    <3>1. Leave(p, "failed") /\ pc[p] = "readPublic"
      BY <1>9, <2>1, KeyFacts DEF ReadPublic
    <3>2. Detour(p)
      BY <2>1, <3>1 DEF Detour
    <3> QED
      BY <1>4, <3>1, <3>2 DEF Rest
  <2>2. CASE public[ident[p]] # None
    <3>1. /\ pc[p] = "readPublic" /\ ident'[p] = "host"
          /\ pc'[p] = IF ident[p] = "tunnel" THEN "lookPrivate" ELSE "post"
      BY <1>0, <1>2, <1>9, <2>2 DEF ReadPublic, TypeOK
    <3>2. ident[p] = "tunnel" /\ pc'[p] = "lookPrivate"
      BY <1>3, <3>1
    <3>3. ~Detour(p) /\ ~Detour(p)'
      BY <2>2, <3>1, <3>2 DEF Detour
    <3>4. CallsLeft(pc[p], ident[p]) = 5 /\ CallsLeft(pc'[p], ident'[p]) = 4
      BY <3>1, <3>2 DEF CallsLeft, Rest
    <3> QED
      BY <3>3, <3>4 DEF Ahead
  <2> QED
    BY <2>1, <2>2
<1>10. CASE HostKeyRefused(p) \/ TrueUp(p)
  <2>1. Detour(p) /\ pc[p] \notin Rest /\ \E outcome \in Rest : Leave(p, outcome)
    BY <1>10 DEF HostKeyRefused, TrueUp, Detour, Rest
  <2> QED
    BY <1>4, <2>1
<1>11. ~(WritePrivate(p) \/ OpenPublic(p) \/ ClosePublic(p) \/ PostAnswered(p) \/ PostFails(p))
  BY <1>3 DEF WritePrivate, OpenPublic, ClosePublic, PostAnswered, PostFails, Keygens
<1>12. ~Finalize(p)
  <2>1. ASSUME Finalize(p) PROVE FALSE
    <3>1. Granted(p) \in Enrollments
      BY <2>1 DEF Finalize, TypeOK, Granted, Enrollments
    <3> QED
      BY <1>3, <2>1, <3>1, EnrollmentAssumption DEF Finalize
  <2> QED
    BY <2>1
<1>13. ~Crash(p)
  BY <1>0 DEF NoCrash, Crash, Leave, TypeOK
<1>14. CASE /\ pc'[p] = pc[p] /\ ident'[p] = ident[p] /\ sawPrivate'[p] = sawPrivate[p]
            /\ ~Step(p) /\ ~Start(p)
  <2>1. Ahead(p)' = Ahead(p)
    BY <1>0, <1>1, <1>14 DEF Ahead, Detour
  <2> QED
    BY <1>14, <2>1
<1>15. Step(p) \/ Start(p) => Ahead(p)' < Ahead(p)
  <2>1. Step(p) => \/ LookPrivate(p) \/ LookPublic(p) \/ Keygen(p) \/ ReadPublic(p)
                   \/ HostKeyRefused(p) \/ TrueUp(p)
    BY <1>11, <1>12 DEF Step
  <2> QED
    BY <2>1, <1>5, <1>6, <1>7, <1>8, <1>9, <1>10
<1>16. \/ Step(p) \/ Start(p)
       \/ pc'[p] = pc[p] /\ ident'[p] = ident[p] /\ sawPrivate'[p] = sawPrivate[p]
  BY <1>13, OthersKeep
<1> QED
  BY <1>14, <1>15, <1>16

\* Arrived, crashed, or at most k calls away.
Near(p, k) == Reached(p) \/ ~NoCrash \/ Ahead(p) <= k

Trying(p) ==
  Spec /\ FairTo(p) /\ StepOpen(p) /\ StartOpen(p) /\ PostOpen(p) /\ FinalizeOpen(p)

Closer(p, l, k) == Trying(p) => (Near(p, l) ~> Near(p, k))

LEMMA RetryComesCloser ==
  ASSUME NEW p \in Procs, NEW k \in Nat, NEW l \in Nat, l = k + 1
  PROVE  Closer(p, l, k)
<1> DEFINE Here == NoCrash /\ ~Reached(p) /\ Ahead(p) = l
<1>1. Near(p, l) => Here \/ Near(p, k)
  BY AheadType DEF Near
<1>2. RetryInv /\ Here /\ [Next]_vars => Here' \/ Near(p, k)'
  <2> SUFFICES ASSUME RetryInv, Here, [Next]_vars, ~Reached(p)', NoCrash', Ahead(p)' # l PROVE Ahead(p)' <= k
    BY DEF Near
  <2>1. Ahead(p)' \in 1..9
    BY CallsLeftType DEF Ahead
  <2>2. Ahead(p)' < l
    BY RetryMoves
  <2> QED
    BY <2>1, <2>2
<1>3. RetryInv /\ Here /\ <<Next /\ (Step(p) \/ Start(p))>>_vars => Near(p, k)'
  <2> SUFFICES ASSUME RetryInv, Here, [Next]_vars, Step(p) \/ Start(p), NoCrash', ~Reached(p)'
               PROVE  Ahead(p)' <= k
    BY DEF Near
  <2>1. Ahead(p)' \in 1..9
    BY CallsLeftType DEF Ahead
  <2>2. Ahead(p)' < l
    BY RetryMoves
  <2> QED
    BY <2>1, <2>2
<1>4. (Step(p) => Next) /\ (Start(p) => Next)
  BY DEF Next
<1>5. CASE l = 8
  <2>1. Here => pc[p] \in Rest /\ NoSavedState
    BY <1>5, AheadType DEF Reached, Settled, NoSavedState
  <2> HIDE DEF Here
  <2> QED
    BY <1>1, <1>2, <1>3, <1>4, <2>1, RetryInit, RetryStep, PTL DEF Closer, Trying, Spec, FairTo, StartOpen
<1>6. CASE l # 8
  <2>1. Here => pc[p] \notin Rest
    BY <1>6 DEF Ahead, Detour, CallsLeft, Rest
  <2> HIDE DEF Here
  <2> QED
    BY <1>1, <1>2, <1>3, <1>4, <2>1, RetryInit, RetryStep, PTL DEF Closer, Trying, Spec, FairTo, StepOpen
<1> QED
  BY <1>5, <1>6

\* Again and again a command arrives.
LEMMA RetryArrives ==
  ASSUME NEW p \in Procs PROVE Trying(p) => []<>(Reached(p) \/ ~NoCrash)
<1>1. Near(p, 9)
  BY AheadType DEF Near
<1>2. RetryInv /\ Near(p, 1) => Reached(p) \/ ~NoCrash
  <2> SUFFICES ASSUME RetryInv, Ahead(p) <= 1 PROVE Reached(p)
    BY DEF Near
  <2>1. Ahead(p) = 1
    BY AheadType
  <2> QED
    BY <2>1, AheadType DEF RetryInv
<1>3. /\ Closer(p, 9, 8) /\ Closer(p, 8, 7) /\ Closer(p, 7, 6) /\ Closer(p, 6, 5)
      /\ Closer(p, 5, 4) /\ Closer(p, 4, 3) /\ Closer(p, 3, 2) /\ Closer(p, 2, 1)
  BY RetryComesCloser
<1> QED
  BY <1>1, <1>2, <1>3, RetryInit, RetryStep, PTL DEF Closer, Trying, Spec

Cease(i) == Spec /\ []<>(KeygenOf(i) = {}) /\ <>[]NoCrash => <>[](KeygenOf(i) = {})

\* An ssh-keygen that does not crash leaves its pair with a private file, and
\* such a pair is made only once.
LEMMA KeygensCease == ASSUME NEW i \in Identities PROVE Cease(i)
<1> DEFINE Over  == KeygenOf(i) = {}
           Begun == private[i] # None
<1>1. RetryInv /\ ~Over /\ [Next]_vars /\ NoCrash' => ~Over' \/ Begun'
  <2> SUFFICES ASSUME RetryInv, [Next]_vars, NoCrash', NEW p \in KeygenOf(i), Over', ~Begun
               PROVE  FALSE
    BY FilesStay DEF RetryInv
  <2>1. p \in Procs /\ pc[p] = "writePrivate" /\ ident[p] = i
    BY DEF KeygenOf, Keygens, RetryInv, FileInv
  <2>2. ~(pc'[p] \in Keygens /\ ident'[p] = i)
    BY <2>1 DEF KeygenOf
  <2>3. ~Crash(p) /\ ~Start(p)
    BY <2>1, TypeStep DEF NoCrash, Crash, Start, Leave, Goto, TypeOK, Rest, RetryInv
  <2>4. Step(p)
    BY <2>1, <2>2, <2>3, OthersKeep DEF RetryInv, Keygens
  <2>5. WritePrivate(p)
    BY <2>1, <2>4 DEF Step, LookPrivate, LookPublic, Keygen, OpenPublic, ClosePublic, ReadPublic,
       PostAnswered, PostFails, Finalize, HostKeyRefused, TrueUp
  <2> QED
    BY <2>1, <2>2, <2>5 DEF WritePrivate, Goto, locals, RetryInv, TypeOK, Keygens
<1>2. RetryInv /\ Begun /\ [Next]_vars => Begun'
  BY FilesStay DEF RetryInv
<1>3. RetryInv /\ Begun /\ Over /\ [Next]_vars => Over'
  BY PairFrozen DEF RetryInv
<1>4. Cease(i) <=> (Spec /\ []<>Over /\ <>[]NoCrash => <>[]Over)
  BY DEF Cease
<1> HIDE DEF Over, Begun
<1> QED
  BY <1>1, <1>2, <1>3, <1>4, RetryInit, RetryStep, PTL DEF Spec

\* Once nothing crashes any more the retries lead to a saved enrollment or to a
\* pair that an earlier crash left unfinished for good (enroll.go:24), whatever
\* was lost or refused, for any number of commands that overlap in any way.
THEOREM RetriesSettle ==
  Procs # {} =>
    (LiveSpec /\ GuardsOpen /\ RemovalsEnd /\ (\A i \in Identities : KeygensEnd(i)) => Settles)
<1> SUFFICES ASSUME NEW p \in Procs
             PROVE  LiveSpec /\ GuardsOpen /\ RemovalsEnd /\ (\A i \in Identities : KeygensEnd(i)) => Settles
  OBVIOUS
<1>1. LiveSpec /\ GuardsOpen /\ (\A i \in Identities : KeygensEnd(i))
        => Trying(p) /\ KeygensEnd("tunnel") /\ KeygensEnd("host")
  BY DEF LiveSpec, Fairness, GuardsOpen, Trying, Identities
<1>2. Reached(p) => Settled \/ ~(KeygenOf("tunnel") = {}) \/ ~(KeygenOf("host") = {}) \/ pc[p] = "post"
  BY DEF Reached, Identities
<1>3. RetryInv /\ Settled /\ [Next]_vars /\ [~RemoveState]_vars => Settled'
  <2> SUFFICES ASSUME RetryInv, [Next]_vars, state # None, [~RemoveState]_vars PROVE state' # None
    BY BrokenKept DEF Settled
  <2>1. ASSUME NEW q \in Procs, Finalize(q) PROVE state' # None
    <3>1. Granted(q) \in Enrollments
      BY <2>1 DEF Finalize, RetryInv, TypeOK, Granted, Enrollments
    <3> QED
      BY <2>1, <3>1, EnrollmentAssumption DEF Finalize
  <2> QED
    BY <2>1 DEF Next, vars, Start, Step, LookPrivate, LookPublic, Keygen, WritePrivate, OpenPublic,
       ClosePublic, ReadPublic, PostAnswered, PostFails, HostKeyRefused, TrueUp, Crash, RemoveState
<1>4. RetryInv /\ <<PostAnswered(p)>>_vars => (pc[p] = "finalize")'
  BY DEF PostAnswered, Goto, RetryInv, TypeOK
<1>5. RetryInv /\ <<Finalize(p)>>_vars => Settled'
  <2> SUFFICES ASSUME RetryInv, Finalize(p) PROVE state' # None
    BY DEF Settled
  <2>1. Granted(p) \in Enrollments
    BY DEF Finalize, RetryInv, TypeOK, Granted, Enrollments
  <2> QED
    BY <2>1, EnrollmentAssumption DEF Finalize
<1>6. Cease("tunnel") /\ Cease("host")
  BY KeygensCease DEF Identities
<1>7. Trying(p) => []<>(Reached(p) \/ ~NoCrash)
  BY RetryArrives
<1>8. Trying(p) /\ RemovalsEnd /\ KeygensEnd("tunnel") /\ KeygensEnd("host") /\ <>[]NoCrash => <>[]Settled
  BY <1>2, <1>3, <1>4, <1>5, <1>6, <1>7, RetryInit, RetryStep, PTL
     DEF Trying, Spec, FairTo, PostOpen, FinalizeOpen, RemovalsEnd, KeygensEnd, Cease
<1> QED
  BY <1>1, <1>8, PTL DEF Settles, Settled, NoCrash
=============================================================================
