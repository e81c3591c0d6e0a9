----------------------------- MODULE ConnectFlow -----------------------------
(***************************************************************************)
(* Connector.Connect (internal/client/oauth.go:281) with the finalize      *)
(* callback of the connect command (cmd/familiar-fleet/main.go:370).       *)
(*                                                                         *)
(* The flow is one goroutine that waits, and one goroutine per request the *)
(* browser sends to /callback or /enroll.  They talk over channels of      *)
(* capacity one, compare-and-swap flags, a plain variable that holds the   *)
(* access token and a context that times out; several of these may be      *)
(* ready at once.  The identity provider and the enrollment service are    *)
(* external: a call succeeds, fails, or is carried out and fails on the    *)
(* way back.  The one-second waits that let a page reach the browser       *)
(* before the server closes change no state and are left out.              *)
(***************************************************************************)
EXTENDS Naturals

CONSTANTS
  Callbacks,  \* the requests to /callback a browser may send
  Forms,      \* the requests to /enroll a browser may send
  Empty       \* nothing is in a channel

ASSUME ConnectAssumption == Empty \notin {"ok", "error"}

VARIABLES
  main,          \* the statement Connect waits at
  result,        \* what it returns
  cancelled,     \* the timeout or a signal has struck
  callbackUsed, formUsed, authComplete,
  accessToken,   \* the variable holds the token
  callbackCh, authReady, enrollmentCh, callbackPageSent,
  cb,            \* per callback handler: its next statement or the page it rendered
  form,          \* the same per enroll handler
  enrolled,      \* enrollments the service has carried out
  saved          \* the state file exists

flow     == <<main, result, cancelled>>
flags    == <<callbackUsed, formUsed, authComplete>>
channels == <<callbackCh, authReady, enrollmentCh, callbackPageSent>>
handlers == <<cb, form>>
outside  == <<enrolled, saved>>
vars     == <<flow, flags, accessToken, channels, handlers, outside>>

Waits    == {"browser", "callback", "badCallback", "exchange", "storeComplete",
             "sendReady", "badExchange", "form", "respond"}
Over     == {"returned", "exited"}
Pages    == {"refused", "errorPage", "formPage", "timeoutPage", "successPage"}
Messages == {Empty, "ok", "error"}

TypeOK ==
  /\ main \in Waits \cup Over /\ result \in {"none", "ok", "error"}
  /\ cancelled \in BOOLEAN /\ callbackUsed \in BOOLEAN /\ formUsed \in BOOLEAN
  /\ authComplete \in BOOLEAN /\ accessToken \in BOOLEAN
  /\ callbackPageSent \in BOOLEAN /\ saved \in BOOLEAN
  /\ callbackCh \in Messages /\ authReady \in Messages /\ enrollmentCh \in Messages
  /\ cb \in [Callbacks -> {"none", "check", "authorize"} \cup Pages]
  /\ form \in [Forms -> {"none", "read", "post", "finalize", "success", "failure",
                         "panicked"} \cup Pages]
  /\ enrolled \in Nat

Init ==
  /\ main = "browser" /\ result = "none" /\ cancelled = FALSE
  /\ callbackUsed = FALSE /\ formUsed = FALSE /\ authComplete = FALSE
  /\ accessToken = FALSE
  /\ callbackCh = Empty /\ authReady = Empty /\ enrollmentCh = Empty
  /\ callbackPageSent = FALSE
  /\ cb = [h \in Callbacks |-> "none"]
  /\ form = [h \in Forms |-> "none"]
  /\ enrolled = 0 /\ saved = FALSE

\* Handlers are accepted until Connect returns and run until the process exits;
\* returning cancels the context as the timeout does.
Listening == main \in Waits
Running   == main # "exited"
Done      == cancelled \/ main \in Over

-----------------------------------------------------------------------------
\* The /callback handler.

Render(h, page) == cb' = [cb EXCEPT ![h] = page]

\* The first callback takes the flag; any other is told it is too late.
CallbackRequest(h) ==
  /\ Listening /\ cb[h] = "none"
  /\ callbackUsed' = TRUE
  /\ Render(h, IF callbackUsed THEN "refused" ELSE "check")
  /\ UNCHANGED <<flow, formUsed, authComplete, accessToken, channels, form, outside>>

\* A wrong state, a provider error or a missing code is passed on and ends the
\* handler; a code makes it wait.  Whichever way it ends, it says so.
QuietError(h)    == Render(h, "errorPage") /\ UNCHANGED callbackPageSent
CallbackError(h) == Render(h, "errorPage") /\ callbackPageSent' = TRUE

CallbackCheck(h) ==
  /\ Running /\ cb[h] = "check"
  /\ \/ callbackCh' = "ok" /\ Render(h, "authorize") /\ UNCHANGED callbackPageSent
     \/ callbackCh' = "error" /\ CallbackError(h)
  /\ UNCHANGED <<flow, flags, accessToken, authReady, enrollmentCh, form, outside>>

\* The select on authReady and the context.
CallbackAuthorize(h) ==
  /\ Running /\ cb[h] = "authorize"
  /\ \/ /\ authReady # Empty
        /\ Render(h, IF authReady = "ok" THEN "formPage" ELSE "errorPage")
        /\ authReady' = Empty
     \/ Done /\ Render(h, "timeoutPage") /\ UNCHANGED authReady
  /\ callbackPageSent' = TRUE
  /\ UNCHANGED <<flow, flags, accessToken, callbackCh, enrollmentCh, form, outside>>

-----------------------------------------------------------------------------
\* The /enroll handler.

Proceed(h, next) == form' = [form EXCEPT ![h] = next]

\* A form that cannot be parsed, has a wrong state or a bad name, or comes
\* before the sign-in is over or after another one, changes nothing.
FormRefused(h) ==
  /\ Listening /\ form[h] = "none"
  /\ Proceed(h, "refused")
  /\ UNCHANGED <<flow, flags, accessToken, channels, cb, outside>>

FormLate  == authComplete
FormEarly == ~formUsed
FormFirst == authComplete /\ ~formUsed

FormRequest(h) ==
  /\ Listening /\ form[h] = "none"
  /\ FormFirst
  /\ formUsed' = TRUE
  /\ Proceed(h, "read")
  /\ UNCHANGED <<flow, callbackUsed, authComplete, accessToken, channels, cb, outside>>

\* Enroll refuses to start without a token.  Connect may be clearing the
\* variable at this moment: the two words of the string can then come from
\* different writes and the handler panics, which net/http recovers.
FormRead(h) ==
  /\ Running /\ form[h] = "read"
  /\ \/ Proceed(h, IF accessToken THEN "post" ELSE "failure")
     \/ main = "form" /\ cancelled /\ Proceed(h, "panicked")
  /\ UNCHANGED <<flow, flags, accessToken, channels, cb, outside>>

\* The POST may be carried out and its answer still be lost or invalid.
FormPost(h) ==
  /\ Running /\ form[h] = "post"
  /\ accessToken' = FALSE
  /\ \/ /\ ~Done
        /\ enrolled' = enrolled + 1
        /\ Proceed(h, "finalize") \/ Proceed(h, "failure")
     \/ Proceed(h, "failure") /\ UNCHANGED enrolled
  /\ UNCHANGED <<flow, flags, channels, cb, saved>>

\* finalize: settle on the rendezvous host key, then save the state.
SaveUnchecked(h) == saved' = TRUE /\ (Proceed(h, "success") \/ Proceed(h, "failure"))
Finalize(h)      == \/ saved' = TRUE /\ Proceed(h, "success")
                    \/ UNCHANGED saved /\ Proceed(h, "failure")

FormFinalize(h) ==
  /\ Running /\ form[h] = "finalize"
  /\ Finalize(h)
  /\ UNCHANGED <<flow, flags, accessToken, channels, cb, enrolled>>

AlwaysOk(h) == enrollmentCh' = "ok" /\ Proceed(h, "successPage")
Report(h)   == \/ form[h] = "success" /\ enrollmentCh' = "ok" /\ Proceed(h, "successPage")
               \/ form[h] = "failure" /\ enrollmentCh' = "error" /\ Proceed(h, "errorPage")

FormReport(h) ==
  /\ Running /\ form[h] \in {"success", "failure"}
  /\ Report(h)
  /\ UNCHANGED <<flow, flags, accessToken, callbackCh, authReady, callbackPageSent, cb, outside>>

-----------------------------------------------------------------------------
\* Connect itself.

GoOn(next)     == main' = next /\ UNCHANGED <<result, cancelled>>
ReturnWith(r)  == main' = "returned" /\ result' = r /\ UNCHANGED cancelled

OpenBrowser ==
  /\ main = "browser"
  /\ GoOn("callback") \/ ReturnWith("error")
  /\ UNCHANGED <<flags, accessToken, channels, handlers, outside>>

WaitCallback ==
  /\ main = "callback"
  /\ \/ /\ callbackCh # Empty
        /\ GoOn(IF callbackCh = "ok" THEN "exchange" ELSE "badCallback")
        /\ callbackCh' = Empty
     \/ Done /\ ReturnWith("error") /\ UNCHANGED callbackCh
  /\ UNCHANGED <<flags, accessToken, authReady, enrollmentCh, callbackPageSent, handlers, outside>>

\* The loopback server fails while Connect waits for the callback.
ServeFails ==
  /\ main = "callback"
  /\ ReturnWith("error")
  /\ UNCHANGED <<flags, accessToken, channels, handlers, outside>>

\* A failed flow waits for the handler's page without looking at the context.
WaitPage ==
  /\ main \in {"badCallback", "badExchange"}
  /\ callbackPageSent
  /\ callbackPageSent' = FALSE
  /\ ReturnWith("error")
  /\ UNCHANGED <<flags, accessToken, callbackCh, authReady, enrollmentCh, handlers, outside>>

\* The code exchange and the nonce check.  On success Connect writes the token,
\* stores authComplete and then sends on authReady, handlers running between.
Exchange ==
  /\ main = "exchange"
  /\ \/ ~Done /\ accessToken' = TRUE /\ GoOn("storeComplete") /\ UNCHANGED authReady
     \/ authReady' = "error" /\ GoOn("badExchange") /\ UNCHANGED accessToken
  /\ UNCHANGED <<flags, callbackCh, enrollmentCh, callbackPageSent, handlers, outside>>

StoreComplete ==
  /\ main = "storeComplete"
  /\ authComplete' = TRUE
  /\ GoOn("sendReady")
  /\ UNCHANGED <<callbackUsed, formUsed, accessToken, channels, handlers, outside>>

SendReady ==
  /\ main = "sendReady"
  /\ authReady' = "ok"
  /\ GoOn("form")
  /\ UNCHANGED <<flags, accessToken, callbackCh, enrollmentCh, callbackPageSent, handlers, outside>>

\* The last select: the result and the timeout may both be there.
ReadyWhenDone == enrollmentCh # Empty \/ Done
ResultReady   == enrollmentCh # Empty

TakeResult ==
  /\ main = "form"
  /\ ResultReady
  /\ main' = "respond" /\ result' = enrollmentCh
  /\ enrollmentCh' = Empty
  /\ accessToken' = FALSE
  /\ UNCHANGED <<cancelled, flags, callbackCh, authReady, callbackPageSent, handlers, outside>>

TokenKept    == UNCHANGED accessToken
TokenCleared == accessToken' = FALSE

FormTimeout ==
  /\ main = "form"
  /\ Done
  /\ TokenCleared
  /\ ReturnWith("error")
  /\ UNCHANGED <<flags, channels, handlers, outside>>

Respond ==
  /\ main = "respond"
  /\ ReturnWith(result)
  /\ UNCHANGED <<flags, accessToken, channels, handlers, outside>>

\* The five minutes are over, or the command is interrupted.
Cancel ==
  /\ main \in Waits /\ ~cancelled
  /\ cancelled' = TRUE
  /\ UNCHANGED <<main, result, flags, accessToken, channels, handlers, outside>>

\* The command ends and takes the handlers under way with it.
Exit ==
  /\ main = "returned"
  /\ main' = "exited"
  /\ UNCHANGED <<result, cancelled, flags, accessToken, channels, handlers, outside>>

ConnectStep == \/ OpenBrowser \/ WaitCallback \/ WaitPage \/ Exchange
               \/ StoreComplete \/ SendReady \/ TakeResult \/ FormTimeout \/ Respond

CallbackStep(h) == CallbackCheck(h) \/ CallbackAuthorize(h)

FormStep(h) == FormRead(h) \/ FormPost(h) \/ FormFinalize(h) \/ FormReport(h)

Next ==
  \/ ConnectStep \/ ServeFails \/ Cancel \/ Exit
  \/ \E h \in Callbacks : CallbackRequest(h) \/ CallbackStep(h)
  \/ \E h \in Forms : FormRefused(h) \/ FormRequest(h) \/ FormStep(h)

Spec == Init /\ [][Next]_vars

\* Goroutines run on and the timer fires; the browser owes nothing.  Only the
\* callback that took the flag has steps, so that fairness to it is fairness to
\* all of them; no form owes anything, as the timeout ends that wait as well.
CallbackSteps == \E h \in Callbacks : CallbackStep(h)

Fairness == WF_vars(ConnectStep) /\ WF_vars(Cancel) /\ WF_vars(CallbackSteps)

LiveSpec == Spec /\ Fairness

-----------------------------------------------------------------------------
\* Safety.

\* "Enrollment is one-shot" (README.md:31): whatever the browser repeats or
\* submits twice at once, the service enrolls this machine at most once.
OneEnrollment == enrolled <= 1

\* Durable state exists before success is shown or returned (oauth.go:279),
\* also when a handler outlives the flow it belongs to.
SuccessIsDurable == result = "ok" \/ (\E h \in Forms : form[h] = "successPage") => saved

\* Short of a timeout, what Connect returns is what is on disk: no error for a
\* machine that is connected, no success for one that is not.
ResultMatchesDisk == main \in Over /\ ~cancelled => (result = "ok" <=> saved)

\* What the command returns and what the browser is shown, as one-shot
\* enrollment sees it: a success page counts as much as a returned success.
Told == {x \in {"connected", "error"} :
           \/ x = "connected" /\ (result = "ok" \/ \E h \in Forms : form[h] = "successPage")
           \/ x = "error" /\ (result = "error" \/ \E h \in Forms : form[h] = "errorPage")}

OneShot == INSTANCE OneShotEnrollment WITH told <- Told

\* The flow implements one-shot enrollment: whatever the interleaving, nothing is
\* saved that was not enrolled, nothing saved is lost, no success is told early.
ImplementsOneShot == OneShot!Spec

\* The access token is held "only long enough for one POST" (README.md:34): a
\* flow that has returned holds none, whichever way it returned.
TokenForgotten == main \in Over => ~accessToken

\* A form that is let in finds the token: authComplete is never seen before the
\* token is in place, unless the timeout takes it away again (oauth.go:441).
TokenBeforeForm ==
  [][\A h \in Forms : form[h] = "read" /\ form'[h] = "failure" => cancelled]_vars

-----------------------------------------------------------------------------
\* Liveness.

\* Connect returns: no channel operation blocks it for good, although it waits
\* for the callback page without a deadline (oauth.go:427, oauth.go:437).
Returns == <>(main \in Over)
=============================================================================
