-------------------------- MODULE ConnectFlowProofs --------------------------
(***************************************************************************)
(* Theorems about ConnectFlow, for every number of requests the browser    *)
(* sends to either handler.                                                *)
(***************************************************************************)
EXTENDS ConnectFlow, TLAPS

-----------------------------------------------------------------------------
(* The inductive invariant. *)

\* A form that took the flag.
Admitted(h) == form[h] \notin {"none", "refused"}

\* The flag lets one form in, and only that one ever reaches the service.
FormInv ==
  /\ \A h \in Forms : Admitted(h) => formUsed /\ authComplete
  /\ \A h, k \in Forms : Admitted(h) /\ Admitted(k) => h = k
  /\ enrolled \in {0, 1}
  /\ ~formUsed => enrolled = 0
  /\ \A h \in Forms : form[h] \in {"read", "post"} => enrolled = 0
  /\ \A h \in Forms : form[h] = "finalize" => enrolled = 1

\* The save comes between the enrollment and every word of success.
SaveInv ==
  /\ saved => enrolled = 1
  /\ saved => \E h \in Forms : form[h] \in {"success", "successPage"}
  /\ \A h \in Forms : form[h] \in {"success", "successPage"} => saved
  /\ \A h \in Forms : form[h] \in {"read", "post", "finalize", "failure", "panicked", "errorPage"} => ~saved
  /\ enrollmentCh # Empty => \E h \in Forms : form[h] \in {"successPage", "errorPage"}
  /\ enrollmentCh = "ok" => saved
  /\ enrollmentCh = "error" => ~saved

\* What Connect has returned or is about to, and why it did so.
ResultInv ==
  /\ main \in Waits \ {"respond"} => result = "none"
  /\ main = "respond" => result \in {"ok", "error"}
  /\ result = "ok" => saved
  /\ main \in {"respond", "returned", "exited"} /\ ~cancelled =>
       \/ ~authComplete /\ result = "error"
       \/ /\ result = "ok" <=> saved
          /\ \E h \in Forms : form[h] \in {"successPage", "errorPage"}

\* Where the token can be.
TokenInv ==
  /\ accessToken => main \in {"storeComplete", "sendReady", "form"}
  /\ main = "storeComplete" => accessToken
  /\ authComplete => main \in {"sendReady", "form", "respond"} \cup Over
  /\ ~authComplete => main \notin {"sendReady", "form", "respond"}
  /\ authComplete /\ ~formUsed => accessToken \/ cancelled
  /\ \A h \in Forms : form[h] = "read" => accessToken \/ cancelled

FlowInv == TypeOK /\ FormInv /\ SaveInv /\ ResultInv /\ TokenInv

\* At first no request has come and nothing is known.
LEMMA FlowInit == Init => FlowInv
<1> SUFFICES ASSUME Init PROVE FlowInv
  OBVIOUS
<1> USE ConnectAssumption DEF Init, Waits, Over, Admitted
<1>1. TypeOK
  BY DEF TypeOK, Pages, Messages
<1>2. FormInv
  BY DEF FormInv
<1>3. SaveInv
  BY DEF SaveInv
<1>4. ResultInv
  BY DEF ResultInv
<1>5. TokenInv
  BY DEF TokenInv
<1> QED
  BY <1>1, <1>2, <1>3, <1>4, <1>5 DEF FlowInv

\* Every step keeps it: the one admitted form carries the enrollment, and no
\* handler that runs late changes what Connect has returned.
LEMMA FlowStep == FlowInv /\ [Next]_vars => FlowInv'
<1> SUFFICES ASSUME FlowInv, [Next]_vars PROVE FlowInv'
  OBVIOUS
<1> USE ConnectAssumption DEF FlowInv, flow, flags, channels, handlers, outside
<1>1. CASE OpenBrowser
  <2>1. TypeOK'
    BY <1>1 DEF OpenBrowser, GoOn, ReturnWith, TypeOK, Waits, Over, Pages, Messages
  <2>2. FormInv'
    BY <1>1 DEF OpenBrowser, GoOn, ReturnWith, TypeOK, FormInv, Admitted, TokenInv, SaveInv
  <2>3. SaveInv'
    BY <1>1 DEF OpenBrowser, GoOn, ReturnWith, TypeOK, SaveInv, FormInv, Admitted
  <2>4. ResultInv'
    BY <1>1 DEF OpenBrowser, GoOn, ReturnWith, TypeOK, ResultInv, SaveInv, FormInv, TokenInv, Admitted, Waits, Over
  <2>5. TokenInv'
    BY <1>1 DEF OpenBrowser, GoOn, ReturnWith, TypeOK, TokenInv, FormInv, SaveInv, Admitted, Waits, Over
  <2> QED
    BY <2>1, <2>2, <2>3, <2>4, <2>5
<1>2. CASE WaitCallback
  <2>1. TypeOK'
    BY <1>2 DEF WaitCallback, GoOn, ReturnWith, Done, TypeOK, Waits, Over, Pages, Messages
  <2>2. FormInv'
    BY <1>2 DEF WaitCallback, GoOn, ReturnWith, Done, TypeOK, FormInv, Admitted, TokenInv, SaveInv
  <2>3. SaveInv'
    BY <1>2 DEF WaitCallback, GoOn, ReturnWith, Done, TypeOK, SaveInv, FormInv, Admitted
  <2>4. ResultInv'
    BY <1>2 DEF WaitCallback, GoOn, ReturnWith, Done, TypeOK, ResultInv, SaveInv, FormInv, TokenInv, Admitted, Waits, Over
  <2>5. TokenInv'
    BY <1>2 DEF WaitCallback, GoOn, ReturnWith, Done, TypeOK, TokenInv, FormInv, SaveInv, Admitted, Waits, Over
  <2> QED
    BY <2>1, <2>2, <2>3, <2>4, <2>5
<1>3. CASE ServeFails
  <2>1. TypeOK'
    BY <1>3 DEF ServeFails, ReturnWith, TypeOK, Waits, Over, Pages, Messages
  <2>2. FormInv'
    BY <1>3 DEF ServeFails, ReturnWith, TypeOK, FormInv, Admitted, TokenInv, SaveInv
  <2>3. SaveInv'
    BY <1>3 DEF ServeFails, ReturnWith, TypeOK, SaveInv, FormInv, Admitted
  <2>4. ResultInv'
    BY <1>3 DEF ServeFails, ReturnWith, TypeOK, ResultInv, SaveInv, FormInv, TokenInv, Admitted, Waits, Over
  <2>5. TokenInv'
    BY <1>3 DEF ServeFails, ReturnWith, TypeOK, TokenInv, FormInv, SaveInv, Admitted, Waits, Over
  <2> QED
    BY <2>1, <2>2, <2>3, <2>4, <2>5
<1>4. CASE WaitPage
  <2>1. TypeOK'
    BY <1>4, ZenonT(60) DEF WaitPage, ReturnWith, TypeOK, Waits, Over, Pages, Messages
  <2>2. FormInv'
    BY <1>4 DEF WaitPage, ReturnWith, TypeOK, FormInv, Admitted, TokenInv, SaveInv
  <2>3. SaveInv'
    BY <1>4 DEF WaitPage, ReturnWith, TypeOK, SaveInv, FormInv, Admitted
  <2>4. ResultInv'
    BY <1>4 DEF WaitPage, ReturnWith, TypeOK, ResultInv, SaveInv, FormInv, TokenInv, Admitted, Waits, Over
  <2>5. TokenInv'
    BY <1>4 DEF WaitPage, ReturnWith, TypeOK, TokenInv, FormInv, SaveInv, Admitted, Waits, Over
  <2> QED
    BY <2>1, <2>2, <2>3, <2>4, <2>5
<1>5. CASE Exchange
  <2>1. TypeOK'
    <3>1. main' \in Waits /\ accessToken' \in BOOLEAN /\ authReady' \in Messages
      BY <1>5 DEF Exchange, GoOn, TypeOK, Waits, Messages
    <3> QED
      BY <1>5, <3>1 DEF Exchange, GoOn, TypeOK
  <2>2. FormInv'
    BY <1>5 DEF Exchange, GoOn, Done, TypeOK, FormInv, Admitted, TokenInv, SaveInv
  <2>3. SaveInv'
    BY <1>5 DEF Exchange, GoOn, Done, TypeOK, SaveInv, FormInv, Admitted
  <2>4. ResultInv'
    BY <1>5 DEF Exchange, GoOn, Done, TypeOK, ResultInv, SaveInv, FormInv, TokenInv, Admitted, Waits, Over
  <2>5. TokenInv'
    BY <1>5 DEF Exchange, GoOn, Done, TypeOK, TokenInv, FormInv, SaveInv, Admitted, Waits, Over
  <2> QED
    BY <2>1, <2>2, <2>3, <2>4, <2>5
<1>6. CASE StoreComplete
  <2>1. TypeOK'
    BY <1>6 DEF StoreComplete, GoOn, TypeOK, Waits, Over, Pages, Messages
  <2>2. FormInv'
    BY <1>6 DEF StoreComplete, GoOn, TypeOK, FormInv, Admitted, TokenInv, SaveInv
  <2>3. SaveInv'
    BY <1>6 DEF StoreComplete, GoOn, TypeOK, SaveInv, FormInv, Admitted
  <2>4. ResultInv'
    BY <1>6 DEF StoreComplete, GoOn, TypeOK, ResultInv, SaveInv, FormInv, TokenInv, Admitted, Waits, Over
  <2>5. TokenInv'
    BY <1>6 DEF StoreComplete, GoOn, TypeOK, TokenInv, FormInv, SaveInv, Admitted, Waits, Over
  <2> QED
    BY <2>1, <2>2, <2>3, <2>4, <2>5
<1>7. CASE SendReady
  <2>1. TypeOK'
    BY <1>7 DEF SendReady, GoOn, TypeOK, Waits, Over, Pages, Messages
  <2>2. FormInv'
    BY <1>7 DEF SendReady, GoOn, TypeOK, FormInv, Admitted, TokenInv, SaveInv
  <2>3. SaveInv'
    BY <1>7 DEF SendReady, GoOn, TypeOK, SaveInv, FormInv, Admitted
  <2>4. ResultInv'
    BY <1>7 DEF SendReady, GoOn, TypeOK, ResultInv, SaveInv, FormInv, TokenInv, Admitted, Waits, Over
  <2>5. TokenInv'
    BY <1>7 DEF SendReady, GoOn, TypeOK, TokenInv, FormInv, SaveInv, Admitted, Waits, Over
  <2> QED
    BY <2>1, <2>2, <2>3, <2>4, <2>5
<1>8. CASE TakeResult
  <2>1. TypeOK'
    BY <1>8, ZenonT(60) DEF TakeResult, ResultReady, TypeOK, Waits, Over, Pages, Messages
  <2>2. FormInv'
    BY <1>8 DEF TakeResult, ResultReady, TypeOK, FormInv, Admitted, TokenInv, SaveInv
  <2>3. SaveInv'
    BY <1>8 DEF TakeResult, ResultReady, TypeOK, SaveInv, FormInv, Admitted
  <2>4. ResultInv'
    BY <1>8 DEF TakeResult, ResultReady, TypeOK, Messages, ResultInv, SaveInv, FormInv, TokenInv, Admitted, Waits, Over
  <2>5. TokenInv'
    BY <1>8 DEF TakeResult, ResultReady, TypeOK, TokenInv, FormInv, SaveInv, Admitted, Waits, Over
  <2> QED
    BY <2>1, <2>2, <2>3, <2>4, <2>5
<1>9. CASE FormTimeout
  <2>1. TypeOK'
    BY <1>9, ZenonT(60) DEF FormTimeout, TokenCleared, ReturnWith, Done, TypeOK, Waits, Over, Pages, Messages
  <2>2. FormInv'
    BY <1>9 DEF FormTimeout, TokenCleared, ReturnWith, Done, TypeOK, FormInv, Admitted, TokenInv, SaveInv
  <2>3. SaveInv'
    BY <1>9 DEF FormTimeout, TokenCleared, ReturnWith, Done, TypeOK, SaveInv, FormInv, Admitted
  <2>4. ResultInv'
    BY <1>9 DEF FormTimeout, TokenCleared, ReturnWith, Done, TypeOK, ResultInv, SaveInv, FormInv, TokenInv, Admitted, Waits, Over
  <2>5. TokenInv'
    BY <1>9 DEF FormTimeout, TokenCleared, ReturnWith, Done, TypeOK, TokenInv, FormInv, SaveInv, Admitted, Waits, Over
  <2> QED
    BY <2>1, <2>2, <2>3, <2>4, <2>5
<1>10. CASE Respond
  <2>1. TypeOK'
    BY <1>10 DEF Respond, ReturnWith, TypeOK, Waits, Over, Pages, Messages
  <2>2. FormInv'
    BY <1>10 DEF Respond, ReturnWith, TypeOK, FormInv, Admitted, TokenInv, SaveInv
  <2>3. SaveInv'
    BY <1>10 DEF Respond, ReturnWith, TypeOK, SaveInv, FormInv, Admitted
  <2>4. ResultInv'
    BY <1>10 DEF Respond, ReturnWith, TypeOK, ResultInv, SaveInv, FormInv, TokenInv, Admitted, Waits, Over
  <2>5. TokenInv'
    BY <1>10 DEF Respond, ReturnWith, TypeOK, TokenInv, FormInv, SaveInv, Admitted, Waits, Over
  <2> QED
    BY <2>1, <2>2, <2>3, <2>4, <2>5
<1>11. CASE Cancel
  <2>1. TypeOK'
    BY <1>11 DEF Cancel, TypeOK, Waits, Over, Pages, Messages
  <2>2. FormInv'
    BY <1>11 DEF Cancel, TypeOK, FormInv, Admitted, TokenInv, SaveInv
  <2>3. SaveInv'
    BY <1>11 DEF Cancel, TypeOK, SaveInv, FormInv, Admitted
  <2>4. ResultInv'
    BY <1>11 DEF Cancel, TypeOK, ResultInv, SaveInv, FormInv, TokenInv, Admitted, Waits, Over
  <2>5. TokenInv'
    BY <1>11 DEF Cancel, TypeOK, TokenInv, FormInv, SaveInv, Admitted, Waits, Over
  <2> QED
    BY <2>1, <2>2, <2>3, <2>4, <2>5
<1>12. CASE Exit
  <2>1. TypeOK'
    BY <1>12 DEF Exit, TypeOK, Waits, Over, Pages, Messages
  <2>2. FormInv'
    BY <1>12 DEF Exit, TypeOK, FormInv, Admitted, TokenInv, SaveInv
  <2>3. SaveInv'
    BY <1>12 DEF Exit, TypeOK, SaveInv, FormInv, Admitted
  <2>4. ResultInv'
    BY <1>12 DEF Exit, TypeOK, ResultInv, SaveInv, FormInv, TokenInv, Admitted, Waits, Over
  <2>5. TokenInv'
    BY <1>12 DEF Exit, TypeOK, TokenInv, FormInv, SaveInv, Admitted, Waits, Over
  <2> QED
    BY <2>1, <2>2, <2>3, <2>4, <2>5
<1>13. ASSUME NEW h \in Callbacks, CallbackRequest(h) PROVE FlowInv'
  <2>1. TypeOK'
    BY <1>13 DEF CallbackRequest, Render, TypeOK, Waits, Over, Pages, Messages
  <2>2. FormInv'
    BY <1>13 DEF CallbackRequest, Render, TypeOK, FormInv, Admitted, TokenInv, SaveInv
  <2>3. SaveInv'
    BY <1>13 DEF CallbackRequest, Render, TypeOK, SaveInv, FormInv, Admitted
  <2>4. ResultInv'
    BY <1>13 DEF CallbackRequest, Render, TypeOK, ResultInv, SaveInv, FormInv, TokenInv, Admitted, Waits, Over
  <2>5. TokenInv'
    BY <1>13 DEF CallbackRequest, Render, TypeOK, TokenInv, FormInv, SaveInv, Admitted, Waits, Over
  <2> QED
    BY <2>1, <2>2, <2>3, <2>4, <2>5
<1>14. ASSUME NEW h \in Callbacks, CallbackCheck(h) PROVE FlowInv'
  <2>1. TypeOK'
    <3>1. callbackCh' \in Messages /\ callbackPageSent' \in BOOLEAN
      BY <1>14 DEF CallbackCheck, CallbackError, TypeOK, Messages
    <3>2. cb' = [cb EXCEPT ![h] = "authorize"] \/ cb' = [cb EXCEPT ![h] = "errorPage"]
      BY <1>14 DEF CallbackCheck, CallbackError, Render
    <3> QED
      BY <1>14, <3>1, <3>2 DEF CallbackCheck, TypeOK, Pages
  <2>2. FormInv'
    BY <1>14 DEF CallbackCheck, Render, CallbackError, TypeOK, FormInv, Admitted, TokenInv, SaveInv
  <2>3. SaveInv'
    BY <1>14 DEF CallbackCheck, Render, CallbackError, TypeOK, SaveInv, FormInv, Admitted
  <2>4. ResultInv'
    BY <1>14 DEF CallbackCheck, Render, CallbackError, TypeOK, ResultInv, SaveInv, FormInv, TokenInv, Admitted, Waits, Over
  <2>5. TokenInv'
    BY <1>14 DEF CallbackCheck, Render, CallbackError, TypeOK, TokenInv, FormInv, SaveInv, Admitted, Waits, Over
  <2> QED
    BY <2>1, <2>2, <2>3, <2>4, <2>5
<1>15. ASSUME NEW h \in Callbacks, CallbackAuthorize(h) PROVE FlowInv'
  <2>1. TypeOK'
    BY <1>15 DEF CallbackAuthorize, Render, TypeOK, Waits, Over, Pages, Messages
  <2>2. FormInv'
    BY <1>15 DEF CallbackAuthorize, Render, TypeOK, FormInv, Admitted, TokenInv, SaveInv
  <2>3. SaveInv'
    BY <1>15 DEF CallbackAuthorize, Render, TypeOK, SaveInv, FormInv, Admitted
  <2>4. ResultInv'
    BY <1>15 DEF CallbackAuthorize, Render, TypeOK, ResultInv, SaveInv, FormInv, TokenInv, Admitted, Waits, Over
  <2>5. TokenInv'
    BY <1>15 DEF CallbackAuthorize, Render, TypeOK, TokenInv, FormInv, SaveInv, Admitted, Waits, Over
  <2> QED
    BY <2>1, <2>2, <2>3, <2>4, <2>5
<1>16. ASSUME NEW h \in Forms, FormRefused(h) PROVE FlowInv'
  <2>1. TypeOK'
    BY <1>16 DEF FormRefused, Proceed, Listening, TypeOK, Waits, Over, Pages, Messages
  <2>2. FormInv'
    BY <1>16 DEF FormRefused, Proceed, Listening, TypeOK, FormInv, Admitted, TokenInv, SaveInv
  <2>3. SaveInv'
    BY <1>16 DEF FormRefused, Proceed, Listening, TypeOK, SaveInv, FormInv, Admitted
  <2>4. ResultInv'
    BY <1>16 DEF FormRefused, Proceed, Listening, TypeOK, ResultInv, SaveInv, FormInv, TokenInv, Admitted, Waits, Over
  <2>5. TokenInv'
    BY <1>16 DEF FormRefused, Proceed, Listening, TypeOK, TokenInv, FormInv, SaveInv, Admitted, Waits, Over
  <2> QED
    BY <2>1, <2>2, <2>3, <2>4, <2>5
<1>17. ASSUME NEW h \in Forms, FormRequest(h) PROVE FlowInv'
  <2>1. TypeOK'
    BY <1>17 DEF FormRequest, Proceed, Listening, FormFirst, TypeOK, Waits, Over, Pages, Messages
  <2>2. FormInv'
    BY <1>17 DEF FormRequest, Proceed, Listening, FormFirst, TypeOK, FormInv, Admitted, TokenInv, SaveInv
  <2>3. SaveInv'
    BY <1>17 DEF FormRequest, Proceed, Listening, FormFirst, TypeOK, SaveInv, FormInv, Admitted
  <2>4. ResultInv'
    BY <1>17 DEF FormRequest, Proceed, Listening, FormFirst, TypeOK, ResultInv, SaveInv, FormInv, TokenInv, Admitted, Waits, Over
  <2>5. TokenInv'
    BY <1>17 DEF FormRequest, Proceed, Listening, FormFirst, TypeOK, TokenInv, FormInv, SaveInv, Admitted, Waits, Over
  <2> QED
    BY <2>1, <2>2, <2>3, <2>4, <2>5
<1>18. ASSUME NEW h \in Forms, FormRead(h) PROVE FlowInv'
  <2>1. TypeOK'
    BY <1>18 DEF FormRead, Proceed, TypeOK, Waits, Over, Pages, Messages
  <2>2. FormInv'
    BY <1>18 DEF FormRead, Proceed, TypeOK, FormInv, Admitted, TokenInv, SaveInv
  <2>3. SaveInv'
    BY <1>18 DEF FormRead, Proceed, TypeOK, SaveInv, FormInv, Admitted
  <2>4. ResultInv'
    BY <1>18 DEF FormRead, Proceed, TypeOK, ResultInv, SaveInv, FormInv, TokenInv, Admitted, Waits, Over
  <2>5. TokenInv'
    BY <1>18 DEF FormRead, Proceed, TypeOK, TokenInv, FormInv, SaveInv, Admitted, Waits, Over
  <2> QED
    BY <2>1, <2>2, <2>3, <2>4, <2>5
<1>19. ASSUME NEW h \in Forms, FormPost(h) PROVE FlowInv'
  <2>1. TypeOK'
    <3>1. enrolled' \in Nat
      BY <1>19 DEF FormPost, TypeOK
    <3>2. form' = [form EXCEPT ![h] = "finalize"] \/ form' = [form EXCEPT ![h] = "failure"]
      BY <1>19 DEF FormPost, Proceed
    <3> QED
      BY <1>19, <3>1, <3>2, ZenonT(60) DEF FormPost, TypeOK
  <2>2. FormInv'
    BY <1>19 DEF FormPost, Proceed, TypeOK, FormInv, Admitted, TokenInv, SaveInv
  <2>3. SaveInv'
    BY <1>19 DEF FormPost, Proceed, TypeOK, SaveInv, FormInv, Admitted
  <2>4. ResultInv'
    BY <1>19 DEF FormPost, Proceed, TypeOK, ResultInv, SaveInv, FormInv, TokenInv, Admitted, Waits, Over
  <2>5. TokenInv'
    BY <1>19 DEF FormPost, Proceed, TypeOK, TokenInv, FormInv, SaveInv, Admitted, Waits, Over
  <2> QED
    BY <2>1, <2>2, <2>3, <2>4, <2>5
<1>20. ASSUME NEW h \in Forms, FormFinalize(h) PROVE FlowInv'
  <2>1. TypeOK'
    <3>1. saved' \in BOOLEAN
      BY <1>20 DEF FormFinalize, Finalize, TypeOK
    <3>2. form' = [form EXCEPT ![h] = "success"] \/ form' = [form EXCEPT ![h] = "failure"]
      BY <1>20 DEF FormFinalize, Finalize, Proceed
    <3> QED
      BY <1>20, <3>1, <3>2 DEF FormFinalize, TypeOK
  <2>2. FormInv'
    BY <1>20 DEF FormFinalize, Proceed, Finalize, TypeOK, FormInv, Admitted, TokenInv, SaveInv
  <2>3. SaveInv'
    BY <1>20 DEF FormFinalize, Proceed, Finalize, TypeOK, SaveInv, FormInv, Admitted
  <2>4. ResultInv'
    BY <1>20 DEF FormFinalize, Proceed, Finalize, TypeOK, ResultInv, SaveInv, FormInv, TokenInv, Admitted, Waits, Over
  <2>5. TokenInv'
    BY <1>20 DEF FormFinalize, Proceed, Finalize, TypeOK, TokenInv, FormInv, SaveInv, Admitted, Waits, Over
  <2> QED
    BY <2>1, <2>2, <2>3, <2>4, <2>5
<1>21. ASSUME NEW h \in Forms, FormReport(h) PROVE FlowInv'
  <2>1. TypeOK'
    BY <1>21 DEF FormReport, Proceed, Report, TypeOK, Waits, Over, Pages, Messages
  <2>2. FormInv'
    BY <1>21 DEF FormReport, Proceed, Report, TypeOK, FormInv, Admitted, TokenInv, SaveInv
  <2>3. SaveInv'
    BY <1>21 DEF FormReport, Proceed, Report, TypeOK, SaveInv, FormInv, Admitted
  <2>4. ResultInv'
    BY <1>21 DEF FormReport, Proceed, Report, TypeOK, ResultInv, SaveInv, FormInv, TokenInv, Admitted, Waits, Over
  <2>5. TokenInv'
    BY <1>21 DEF FormReport, Proceed, Report, TypeOK, TokenInv, FormInv, SaveInv, Admitted, Waits, Over
  <2> QED
    BY <2>1, <2>2, <2>3, <2>4, <2>5
<1>22. CASE UNCHANGED vars
  BY <1>22 DEF vars, TypeOK, FormInv, SaveInv, ResultInv, TokenInv, Admitted
<1> QED
  BY <1>1, <1>2, <1>3, <1>4, <1>5, <1>6, <1>7, <1>8, <1>9, <1>10, <1>11, <1>12, <1>13, <1>14, <1>15, <1>16, <1>17, <1>18, <1>19, <1>20, <1>21, <1>22
     DEF Next, ConnectStep, CallbackStep, FormStep

-----------------------------------------------------------------------------
(* What follows from it. *)

\* The flow's variables keep their types.
THEOREM FlowTypeCorrect == Spec => []TypeOK
<1>1. FlowInv => TypeOK
  BY DEF FlowInv
<1> QED
  BY FlowInit, FlowStep, <1>1, PTL DEF Spec

\* However many forms are submitted, and however they interleave, the service
\* enrolls the machine at most once.
THEOREM EnrollsOnce == Spec => []OneEnrollment
<1>1. FlowInv => OneEnrollment
  BY DEF FlowInv, FormInv, OneEnrollment
<1> QED
  BY FlowInit, FlowStep, <1>1, PTL DEF Spec

\* Success is shown and returned after the save only.
THEOREM DurableSuccess == Spec => []SuccessIsDurable
<1>1. FlowInv => SuccessIsDurable
  BY DEF FlowInv, SaveInv, ResultInv, SuccessIsDurable
<1> QED
  BY FlowInit, FlowStep, <1>1, PTL DEF Spec

\* Without a timeout the command returns what is on disk.
THEOREM TruthfulResult == Spec => []ResultMatchesDisk
<1>1. FlowInv => ResultMatchesDisk
  <2> SUFFICES ASSUME FlowInv, main \in Over, ~cancelled
               PROVE result = "ok" <=> saved
    BY DEF ResultMatchesDisk
  <2>1. CASE authComplete
    BY <2>1 DEF FlowInv, ResultInv, Over
  <2>2. CASE ~authComplete
    BY <2>2 DEF FlowInv, TypeOK, FormInv, SaveInv, ResultInv, Over, Admitted
  <2> QED
    BY <2>1, <2>2
<1> QED
  BY FlowInit, FlowStep, <1>1, PTL DEF Spec

\* No flow that has returned holds the token.
THEOREM ForgetsToken == Spec => []TokenForgotten
<1>1. FlowInv => TokenForgotten
  BY DEF FlowInv, TokenInv, TokenForgotten, Over
<1> QED
  BY FlowInit, FlowStep, <1>1, PTL DEF Spec

\* The form that is let in finds the token unless the timeout took it away.
THEOREM FormFindsToken == Spec => TokenBeforeForm
<1>1. FlowInv /\ [Next]_vars => [\A h \in Forms : form[h] = "read" /\ form'[h] = "failure" => cancelled]_vars
  <2> SUFFICES ASSUME FlowInv, Next, NEW h \in Forms, form[h] = "read", form'[h] = "failure"
               PROVE cancelled
    OBVIOUS
  <2>1. accessToken \/ cancelled
    BY DEF FlowInv, TokenInv
  <2>2. form' # form
    OBVIOUS
  <2>3. PICK k \in Forms : FormRefused(k) \/ FormRequest(k) \/ FormStep(k)
    BY <2>2 DEF Next, ConnectStep, CallbackStep, OpenBrowser, WaitCallback, ServeFails, WaitPage,
       Exchange, StoreComplete, SendReady, TakeResult, FormTimeout, Respond, Cancel, Exit,
       CallbackRequest, CallbackCheck, CallbackAuthorize, handlers
  <2>4. \E point : form' = [form EXCEPT ![k] = point]
    BY <2>3 DEF FormRefused, FormRequest, FormStep, FormRead, FormPost, FormFinalize, Finalize,
       FormReport, Report, Proceed
  <2>5. k = h
    BY <2>4 DEF FlowInv, TypeOK
  <2>6. FormRead(h)
    BY <2>3, <2>5 DEF FormRefused, FormRequest, FormStep, FormPost, FormFinalize, FormReport
  <2> QED
    BY <2>1, <2>6 DEF FlowInv, TypeOK, FormRead, Proceed
<1> QED
  BY FlowInit, FlowStep, <1>1, PTL DEF Spec, TokenBeforeForm

-----------------------------------------------------------------------------
(* The flow implements one-shot enrollment. *)

\* A step that tells nobody anything new.
LEMMA SameTold ==
  ASSUME UNCHANGED <<result, form>> PROVE Told' = Told
BY DEF Told

\* Only the report of the admitted form changes what the browser has been told.
LEMMA QuietProceed ==
  ASSUME NEW h \in Forms, NEW point, TypeOK, Proceed(h, point), UNCHANGED result,
         form[h] \notin {"successPage", "errorPage"}, point \notin {"successPage", "errorPage"}
  PROVE  Told' = Told
BY DEF Told, Proceed, TypeOK

\* An error that Connect returns is told; nothing else is.
LEMMA ReturnTells ==
  ASSUME ReturnWith("error"), result = "none", UNCHANGED form
  PROVE  Told' = Told \cup {"error"}
BY DEF Told, ReturnWith

\* Every step of the flow is a step of one-shot enrollment or none at all.
LEMMA FlowStepMaps == FlowInv /\ FlowInv' /\ [Next]_vars => [OneShot!Next]_(OneShot!vars)
<1> SUFFICES ASSUME FlowInv, FlowInv', [Next]_vars PROVE [OneShot!Next]_(OneShot!vars)
  OBVIOUS
<1> USE DEF OneShot!Next, OneShot!vars, OneShot!Enroll, OneShot!Save, OneShot!TellError,
      OneShot!TellConnected, flow, flags, channels, handlers, outside
<1>1. ASSUME UNCHANGED <<result, form, enrolled, saved>> PROVE UNCHANGED OneShot!vars
  BY <1>1, SameTold
<1>2. ASSUME ReturnWith("error"), main \in Waits \ {"respond"}, UNCHANGED <<form, enrolled, saved>>
      PROVE OneShot!TellError
  BY <1>2, ReturnTells DEF FlowInv, ResultInv
<1>3. CASE ServeFails \/ FormTimeout \/ WaitPage
  BY <1>2, <1>3 DEF ServeFails, FormTimeout, WaitPage, Waits
<1>4. CASE OpenBrowser
  BY <1>1, <1>2, <1>4 DEF OpenBrowser, GoOn, Waits
<1>5. CASE WaitCallback
  BY <1>1, <1>2, <1>5 DEF WaitCallback, GoOn, Waits
<1>6. CASE Exchange \/ StoreComplete \/ SendReady
  BY <1>1, <1>6 DEF Exchange, StoreComplete, SendReady, GoOn
<1>7. CASE TakeResult
  <2>1. enrollmentCh \in {"ok", "error"} /\ result = "none" /\ result' = enrollmentCh
    BY <1>7, ConnectAssumption DEF TakeResult, ResultReady, FlowInv, TypeOK, Messages, ResultInv, Waits
  <2>2. CASE enrollmentCh = "ok"
    <3>1. Told' = Told \cup {"connected"}
      BY <1>7, <2>1, <2>2 DEF Told, TakeResult
    <3> QED
      BY <1>7, <2>2, <3>1 DEF TakeResult, FlowInv, SaveInv
  <2>3. CASE enrollmentCh = "error"
    <3>1. Told' = Told \cup {"error"}
      BY <1>7, <2>1, <2>3 DEF Told, TakeResult
    <3> QED
      BY <1>7, <3>1 DEF TakeResult
  <2> QED
    BY <2>1, <2>2, <2>3
<1>8. CASE Respond \/ Cancel \/ Exit
  BY <1>1, <1>8 DEF Respond, Cancel, Exit, ReturnWith
<1>9. ASSUME NEW h \in Callbacks, CallbackRequest(h) \/ CallbackStep(h) PROVE UNCHANGED OneShot!vars
  BY <1>1, <1>9 DEF CallbackRequest, CallbackStep, CallbackCheck, CallbackAuthorize
<1>10. ASSUME NEW h \in Forms, FormRefused(h) \/ FormRequest(h) \/ FormRead(h)
       PROVE UNCHANGED OneShot!vars
  <2>1. Told' = Told
    BY <1>10, QuietProceed DEF FormRefused, FormRequest, FormRead, FlowInv
  <2> QED
    BY <1>10, <2>1 DEF FormRefused, FormRequest, FormRead
<1>11. ASSUME NEW h \in Forms, FormPost(h) PROVE [OneShot!Next]_(OneShot!vars)
  <2>1. Told' = Told /\ UNCHANGED saved /\ enrolled = 0 /\ enrolled' \in {0, 1}
    BY <1>11, QuietProceed DEF FormPost, FlowInv, FormInv
  <2> QED
    BY <2>1
<1>12. ASSUME NEW h \in Forms, FormFinalize(h) PROVE [OneShot!Next]_(OneShot!vars)
  <2>1. Told' = Told /\ UNCHANGED enrolled /\ enrolled = 1
    BY <1>12, QuietProceed DEF FormFinalize, Finalize, FlowInv, FormInv
  <2>2. saved' = TRUE \/ UNCHANGED saved
    BY <1>12 DEF FormFinalize, Finalize
  <2> QED
    BY <2>1, <2>2
<1>13. ASSUME NEW h \in Forms, FormReport(h) PROVE [OneShot!Next]_(OneShot!vars)
  <2>1. UNCHANGED <<enrolled, saved, result>>
    BY <1>13 DEF FormReport
  <2>2. CASE form[h] = "success" /\ Proceed(h, "successPage")
    <3>1. Told' = Told \cup {"connected"}
      BY <2>1, <2>2 DEF Told, Proceed, FlowInv, TypeOK
    <3> QED
      BY <2>1, <2>2, <3>1 DEF FlowInv, SaveInv
  <2>3. CASE form[h] = "failure" /\ Proceed(h, "errorPage")
    <3>1. Told' = Told \cup {"error"}
      BY <2>1, <2>3 DEF Told, Proceed, FlowInv, TypeOK
    <3> QED
      BY <2>1, <3>1
  <2> QED
    BY <1>13, <2>2, <2>3 DEF FormReport, Report
<1>14. CASE UNCHANGED vars
  BY <1>1, <1>14 DEF vars
<1> QED
  BY <1>3, <1>4, <1>5, <1>6, <1>7, <1>8, <1>9, <1>10, <1>11, <1>12, <1>13, <1>14
     DEF Next, ConnectStep, FormStep

\* ConnectFlow implements OneShotEnrollment, for any number of requests.
THEOREM FlowImplementsOneShot == Spec => ImplementsOneShot
<1>1. Init => OneShot!Init
  BY DEF Init, OneShot!Init, Told
<1> QED
  BY FlowInit, FlowStep, FlowStepMaps, <1>1, PTL DEF Spec, ImplementsOneShot, OneShot!Spec

-----------------------------------------------------------------------------
(* Liveness.  The provers take ENABLED as it is, so the theorem names the  *)
(* states in which an action that fairness is assumed of can be taken.     *)

\* A callback that took the flag.
Taken(h) == cb[h] \notin {"none", "refused"}

\* One callback takes the flag, and where the page of a failed flow is waited
\* for it is there, or the handler that will send it has been told.
PageInv ==
  /\ \A h \in Callbacks : Taken(h) => callbackUsed
  /\ \A h, k \in Callbacks : Taken(h) /\ Taken(k) => h = k
  /\ main \in {"browser", "callback"} =>
       /\ callbackCh = "error" => callbackPageSent
       /\ callbackCh = "ok" => callbackPageSent \/ \E h \in Callbacks : cb[h] = "authorize"
  /\ main = "badCallback" => callbackPageSent
  /\ main = "exchange" => callbackPageSent \/ \E h \in Callbacks : cb[h] = "authorize"
  /\ main = "badExchange" =>
       callbackPageSent \/ (authReady # Empty /\ \E h \in Callbacks : cb[h] = "authorize")

LEMMA PageInit == Init => PageInv
BY ConnectAssumption DEF Init, PageInv, Taken

LEMMA PageStep == FlowInv /\ PageInv /\ [Next]_vars => PageInv'
<1> SUFFICES ASSUME FlowInv, PageInv, [Next]_vars PROVE PageInv'
  OBVIOUS
<1> USE ConnectAssumption DEF FlowInv, TypeOK, PageInv, flow, flags, channels, handlers, outside
<1>1. CASE OpenBrowser \/ ServeFails
  BY <1>1 DEF OpenBrowser, ServeFails, GoOn, ReturnWith, Taken
<1>2. CASE WaitCallback
  BY <1>2 DEF WaitCallback, GoOn, ReturnWith, Taken, Messages
<1>3. CASE WaitPage
  BY <1>3 DEF WaitPage, ReturnWith, Taken
<1>4. CASE Exchange
  BY <1>4 DEF Exchange, GoOn, Taken
<1>5. CASE StoreComplete \/ SendReady \/ TakeResult \/ FormTimeout \/ Respond
  BY <1>5 DEF StoreComplete, SendReady, TakeResult, FormTimeout, Respond, GoOn, ReturnWith, Taken
<1>6. CASE Cancel \/ Exit
  BY <1>6 DEF Cancel, Exit, Taken
<1>7. ASSUME NEW h \in Callbacks, CallbackRequest(h) PROVE PageInv'
  BY <1>7 DEF CallbackRequest, Render, Taken
<1>8. ASSUME NEW h \in Callbacks, CallbackCheck(h) PROVE PageInv'
  BY <1>8 DEF CallbackCheck, CallbackError, Render, Taken
<1>9. ASSUME NEW h \in Callbacks, CallbackAuthorize(h) PROVE PageInv'
  BY <1>9 DEF CallbackAuthorize, Render, Taken
<1>10. ASSUME NEW h \in Forms, FormRefused(h) \/ FormRequest(h) \/ FormStep(h) PROVE PageInv'
  BY <1>10 DEF FormRefused, FormRequest, FormStep, FormRead, FormPost, FormFinalize, FormReport, Taken
<1>11. CASE UNCHANGED vars
  BY <1>11 DEF vars, Taken
<1> QED
  BY <1>1, <1>2, <1>3, <1>4, <1>5, <1>6, <1>7, <1>8, <1>9, <1>10, <1>11 DEF Next, ConnectStep, CallbackStep

\* The waits Connect has before it at most.
Ahead(point) ==
  CASE point \in Over           -> 0
    [] point = "badCallback"   -> 1
    [] point = "badExchange"   -> 2
    [] point = "respond"       -> 3
    [] point = "form"          -> 4
    [] point = "sendReady"     -> 5
    [] point = "storeComplete" -> 6
    [] point = "exchange"      -> 7
    [] point = "callback"      -> 8
    [] point = "browser"       -> 9

WaitsLeft == Ahead(main)

\* Where Connect goes on, and where a callback's handler does.
MainCan ==
  \/ main \in {"browser", "exchange", "storeComplete", "sendReady", "respond"}
  \/ main = "callback" /\ (callbackCh # Empty \/ Done)
  \/ main = "form" /\ (enrollmentCh # Empty \/ Done)
  \/ main \in {"badCallback", "badExchange"} /\ callbackPageSent

CallbackCan ==
  Running /\ \E h \in Callbacks : \/ cb[h] = "check"
                                  \/ cb[h] = "authorize" /\ (authReady # Empty \/ Done)

CancelCan == main \in Waits /\ ~cancelled

\* The guards are all that restricts the actions.
GuardsOpen ==
  /\ [](MainCan => ENABLED <<ConnectStep>>_vars)
  /\ [](CancelCan => ENABLED <<Cancel>>_vars)
  /\ [](CallbackCan => ENABLED <<CallbackSteps>>_vars)

\* The one wait without a deadline.
PageAwaited == main = "badExchange" /\ ~callbackPageSent

LEMMA AheadType ==
  ASSUME NEW x \in Waits \cup Over PROVE Ahead(x) \in 0..9 /\ (Ahead(x) = 0 <=> x \in Over)
<1>1. /\ x = "browser" => Ahead(x) = 9
      /\ x = "callback" => Ahead(x) = 8
      /\ x = "exchange" => Ahead(x) = 7
      /\ x = "storeComplete" => Ahead(x) = 6
      /\ x = "sendReady" => Ahead(x) = 5
  BY DEF Ahead, Over
<1>2. /\ x = "form" => Ahead(x) = 4
      /\ x = "respond" => Ahead(x) = 3
      /\ x = "badExchange" => Ahead(x) = 2
      /\ x = "badCallback" => Ahead(x) = 1
      /\ x \in Over => Ahead(x) = 0
  BY DEF Ahead, Over
<1> QED
  BY <1>1, <1>2 DEF Waits, Over

LEMMA WaitsType ==
  ASSUME FlowInv PROVE WaitsLeft \in 0..9 /\ (WaitsLeft = 0 <=> main \in Over)
BY AheadType DEF FlowInv, TypeOK, WaitsLeft

LEMMA WaitsTypeNext ==
  ASSUME FlowInv' PROVE WaitsLeft' \in 0..9 /\ (WaitsLeft' = 0 <=> main' \in Over)
BY AheadType DEF FlowInv, TypeOK, WaitsLeft

\* The requests, the handlers and the timeout leave Connect where it is.
LEMMA OthersLeave ==
  ASSUME FlowInv, [Next]_vars, ~ConnectStep, ~ServeFails, main \notin Over
  PROVE  /\ main' = main
         /\ cancelled => cancelled'
         /\ callbackCh # Empty => callbackCh' # Empty
         /\ enrollmentCh # Empty => enrollmentCh' # Empty
         /\ callbackPageSent => callbackPageSent'
<1> USE ConnectAssumption DEF flow, flags, channels, handlers, outside
<1>1. CASE Cancel
  BY <1>1 DEF Cancel
<1>2. ASSUME NEW h \in Callbacks, CallbackRequest(h) \/ CallbackStep(h)
      PROVE  main' = main /\ cancelled' = cancelled /\ enrollmentCh' = enrollmentCh
             /\ (callbackCh # Empty => callbackCh' # Empty) /\ (callbackPageSent => callbackPageSent')
  BY <1>2 DEF CallbackRequest, CallbackStep, CallbackCheck, CallbackError, CallbackAuthorize
<1>3. ASSUME NEW h \in Forms, FormRefused(h) \/ FormRequest(h) \/ FormRead(h) \/ FormPost(h)
                               \/ FormFinalize(h)
      PROVE  UNCHANGED <<flow, channels>>
  BY <1>3 DEF FormRefused, FormRequest, FormRead, FormPost, FormFinalize
<1>4. ASSUME NEW h \in Forms, FormReport(h)
      PROVE  UNCHANGED <<flow, callbackCh, callbackPageSent>> /\ enrollmentCh' # Empty
  BY <1>4 DEF FormReport, Report
<1>5. CASE UNCHANGED vars
  BY <1>5 DEF vars
<1>6. ~Exit
  BY DEF Exit, Over
<1> QED
  BY <1>1, <1>2, <1>3, <1>4, <1>5, <1>6 DEF Next, FormStep

\* Connect only goes forward, and what it waits for does not go away.
LEMMA ConnectMoves ==
  ASSUME FlowInv, FlowInv', [Next]_vars, main \notin Over
  PROVE  /\ ConnectStep => WaitsLeft' < WaitsLeft
         /\ main' = main \/ WaitsLeft' < WaitsLeft
         /\ main' = main /\ MainCan => MainCan'
         /\ cancelled => cancelled'
<1> USE ConnectAssumption DEF FlowInv, TypeOK, Over, Waits, flow, flags, channels, handlers, outside
<1>0. WaitsLeft \in Nat /\ WaitsLeft' \in Nat
  BY WaitsType, WaitsTypeNext
<1>1. CASE OpenBrowser \/ ServeFails \/ WaitPage
  <2>1. main' # main /\ WaitsLeft' < WaitsLeft /\ (cancelled => cancelled')
    BY <1>1 DEF OpenBrowser, ServeFails, WaitPage, GoOn, ReturnWith, WaitsLeft, Ahead
  <2> QED
    BY <1>0, <2>1
<1>2. CASE WaitCallback \/ Exchange
  <2>1. main' # main /\ WaitsLeft' < WaitsLeft /\ (cancelled => cancelled')
    BY <1>2 DEF WaitCallback, Exchange, GoOn, ReturnWith, WaitsLeft, Ahead
  <2> QED
    BY <1>0, <2>1
<1>3. CASE StoreComplete \/ SendReady
  <2>1. main' # main /\ WaitsLeft' < WaitsLeft /\ (cancelled => cancelled')
    BY <1>3 DEF StoreComplete, SendReady, GoOn, WaitsLeft, Ahead
  <2> QED
    BY <1>0, <2>1
<1>4. CASE TakeResult \/ FormTimeout \/ Respond
  <2>1. main' # main /\ WaitsLeft' < WaitsLeft /\ (cancelled => cancelled')
    BY <1>4 DEF TakeResult, FormTimeout, Respond, ReturnWith, WaitsLeft, Ahead
  <2> QED
    BY <1>0, <2>1
<1>5. CASE ~ConnectStep /\ ~ServeFails
  <2>1. main' = main => WaitsLeft' = WaitsLeft
    BY DEF WaitsLeft
  <2>2. MainCan => MainCan'
    BY <1>5, OthersLeave DEF MainCan, Done
  <2> QED
    BY <1>0, <1>5, <2>1, <2>2, OthersLeave
<1> QED
  BY <1>1, <1>2, <1>3, <1>4, <1>5 DEF ConnectStep

\* At most k waits before the end.
ReturnsIn(k) == WaitsLeft <= k

Sooner(l, k) == LiveSpec /\ GuardsOpen => (ReturnsIn(l) ~> ReturnsIn(k))

LEMMA ReturnComesCloser ==
  ASSUME NEW k \in Nat, NEW l \in Nat, l = k + 1
  PROVE  Sooner(l, k)
<1> DEFINE Here == main \notin Over /\ WaitsLeft = l
           Inv  == FlowInv /\ PageInv
<1>1. Inv /\ ReturnsIn(l) => Here \/ ReturnsIn(k)
  BY WaitsType DEF ReturnsIn
<1>2. Inv /\ Here /\ [Next]_vars => (Here' /\ main' = main) \/ ReturnsIn(k)'
  <2> SUFFICES ASSUME Inv, Here, [Next]_vars PROVE (Here' /\ main' = main) \/ ReturnsIn(k)'
    OBVIOUS
  <2>1. FlowInv'
    BY FlowStep
  <2>2. WaitsLeft \in Nat /\ WaitsLeft' \in Nat
    BY <2>1, WaitsType, WaitsTypeNext
  <2>3. main' = main => WaitsLeft' = WaitsLeft
    BY DEF WaitsLeft
  <2> QED
    BY <2>1, <2>2, <2>3, ConnectMoves DEF ReturnsIn
<1>3. Inv /\ Here /\ <<Next /\ ConnectStep>>_vars => ReturnsIn(k)'
  <2> SUFFICES ASSUME Inv, Here, [Next]_vars, ConnectStep PROVE ReturnsIn(k)'
    OBVIOUS
  <2>1. FlowInv'
    BY FlowStep
  <2>2. WaitsLeft \in Nat /\ WaitsLeft' \in Nat
    BY <2>1, WaitsType, WaitsTypeNext
  <2> QED
    BY <2>1, <2>2, ConnectMoves DEF ReturnsIn
<1>4. Inv /\ Here /\ [Next]_vars /\ Here' => (MainCan => MainCan') /\ (cancelled => cancelled')
  <2> SUFFICES ASSUME Inv, Here, [Next]_vars, Here' PROVE (MainCan => MainCan') /\ (cancelled => cancelled')
    OBVIOUS
  <2>1. main' = main
    BY <1>2 DEF ReturnsIn
  <2> QED
    BY <2>1, FlowStep, ConnectMoves
<1>5. Inv /\ Here => MainCan \/ CancelCan \/ PageAwaited
  BY DEF FlowInv, TypeOK, PageInv, MainCan, CancelCan, PageAwaited, Done, Waits, Over
<1>6. /\ CancelCan => ~cancelled
      /\ Inv /\ Here /\ ~cancelled => CancelCan
  BY DEF FlowInv, TypeOK, CancelCan
<1>7. Cancel => cancelled'
  BY DEF Cancel
<1>8. Inv /\ PageAwaited => CallbackCan
  BY DEF PageInv, PageAwaited, CallbackCan, Running
<1>9. Inv /\ PageAwaited /\ CallbackSteps => MainCan'
  <2> SUFFICES ASSUME Inv, PageAwaited, NEW h \in Callbacks, CallbackStep(h) PROVE MainCan'
    BY DEF CallbackSteps
  <2>1. PICK g \in Callbacks : cb[g] = "authorize"
    BY DEF PageInv, PageAwaited
  <2>2. h = g
    BY <2>1 DEF PageInv, Taken, CallbackStep, CallbackCheck, CallbackAuthorize
  <2>3. CallbackAuthorize(h)
    BY <2>1, <2>2 DEF CallbackStep, CallbackCheck
  <2> QED
    BY <2>3 DEF CallbackAuthorize, MainCan, PageAwaited, flow
<1>10. (ConnectStep => Next) /\ (Cancel => Next) /\ (CallbackSteps => Next)
  BY DEF Next, CallbackSteps
<1> HIDE DEF Here, Inv
<1>11. Init => Inv
  BY FlowInit, PageInit DEF Inv
<1>12. Inv /\ [Next]_vars => Inv'
  BY FlowStep, PageStep DEF Inv
<1>13. Inv /\ Here /\ [Next]_vars => Here' \/ ReturnsIn(k)'
  BY <1>2
<1> QED
  BY <1>1, <1>3, <1>4, <1>5, <1>6, <1>7, <1>8, <1>9, <1>10, <1>11, <1>12, <1>13, PTL
     DEF Sooner, LiveSpec, Spec, Fairness, GuardsOpen

\* Connect returns, however many requests the browser sends and in whatever
\* order the channels become ready: the timeout ends every wait but the one
\* for the page of a failed flow, and there the handler that took the flag is
\* still to send it or has done so (oauth.go:427, oauth.go:437).
THEOREM ConnectReturns == LiveSpec /\ GuardsOpen => Returns
<1>1. FlowInv => ReturnsIn(9)
  BY WaitsType DEF ReturnsIn
<1>2. FlowInv /\ ReturnsIn(0) => main \in Over
  BY WaitsType DEF ReturnsIn
<1>3. /\ Sooner(9, 8) /\ Sooner(8, 7) /\ Sooner(7, 6) /\ Sooner(6, 5) /\ Sooner(5, 4)
      /\ Sooner(4, 3) /\ Sooner(3, 2) /\ Sooner(2, 1) /\ Sooner(1, 0)
  BY ReturnComesCloser
<1> QED
  BY FlowInit, FlowStep, <1>1, <1>2, <1>3, PTL DEF LiveSpec, Spec, Sooner, Returns
=============================================================================
