--------------------------- MODULE UserInputResponse ---------------------------
(***************************************************************************)
(* Answering one structured question of a turn: respondToUserInput of the  *)
(* governor and claimUserInputRequest of SessionStore, on top of the lease *)
(* (ClaimLease).  Responders share the event log of the session, the       *)
(* session record and the claim file with the submitted answer; they race  *)
(* with one another, with interruptSession and with the recovery that a    *)
(* starting process runs.                                                  *)
(*                                                                         *)
(* The question belongs to the last turn of the session, which the session *)
(* runs exactly when its status is "running".  "waiting" is                *)
(* waiting_for_user or ask_permission.                                     *)
(***************************************************************************)
EXTENDS ClaimLease, Sequences

CONSTANTS
    Answer,      \* the answers a responder may submit
    Cancel,      \* the submission that cancels the question
    Interrupts,  \* whether the user interrupts the session
    Attaches     \* whether a process may start while a responder is at work

ASSUME UserInputAssumption ==
    /\ Cancel \notin Answer
    /\ None \notin Answer \cup {Cancel} \cup [id : Responder, submission : Answer \cup {Cancel}]
    /\ Interrupts \in BOOLEAN
    /\ Attaches \in BOOLEAN

Submission == Answer \cup {Cancel}

VARIABLES
    step,       \* where an owner of the lease stands
    goal,       \* what it does once assertLease succeeds
    offer,      \* the submission a responder came with; None to recover the committed one
    claim,      \* the committed submission its claim returned, and that one's response id
    missing,    \* which of the answer message and the response it has yet to append
    keep,       \* preservePayload of its release
    payload,    \* the claim file
    messages,   \* answer messages appended under each response id
    responses,  \* user_input_response records of the request
    resume,     \* status of its latest user_input_resume record
    completed,  \* response ids of attempts that reached the end of the turn
    session,    \* status of the session
    interrupt,  \* interruptSession: "idle", then "appended", then "done"
    mode        \* the mode of the request

callVars == <<step, goal, offer, claim, missing, keep>>
logVars == <<messages, responses, resume, completed>>
requestVars == <<callVars, payload, logVars, session, interrupt, mode>>
vars == <<leaseVars, requestVars>>

ClaimStep == {"reload", "payload", "write", "enter", "resuming", "verify"}
Resumption == {"loop", "inner_catch"}
Step == {"none", "reconcile", "assert", "await", "reconciled", "settle_reconciled", "cancel",
         "respond_cancel", "resume_cancel", "record", "message", "response", "resume", "reenter",
         "settle", "resumed", "confirm", "catch", "permission", "resume_failed", "leave",
         "discard", "left"} \cup ClaimStep \cup Resumption

Committed == [id : Responder, submission : Submission]

RequestTypeOK ==
    /\ TypeOK
    /\ step \in [Responder -> Step]
    /\ goal \in [Responder -> Step]
    /\ offer \in [Responder -> Submission \cup {None}]
    /\ claim \in [Responder -> Committed \cup {None}]
    /\ missing \in [Responder -> SUBSET {"message", "response"}]
    /\ keep \in [Responder -> BOOLEAN]
    /\ payload \in Committed \cup {None}
    /\ messages \in [Responder -> Nat]
    /\ responses \in Seq(Committed)
    /\ resume \in {"none", "resuming", "resumed", "resume_failed", "interrupted"}
    /\ completed \subseteq Responder
    /\ session \in {"waiting", "running", "interrupted"}
    /\ interrupt \in {"idle", "appended", "done"}
    /\ mode \in {"blocking", "non_blocking"}

Init ==
    /\ LeaseInit
    /\ step = [r \in Responder |-> "none"]
    /\ goal = [r \in Responder |-> "none"]
    /\ offer = [r \in Responder |-> None]
    /\ claim = [r \in Responder |-> None]
    /\ missing = [r \in Responder |-> {}]
    /\ keep = [r \in Responder |-> TRUE]
    /\ payload = None
    /\ messages = [r \in Responder |-> 0]
    /\ responses = <<>>
    /\ resume = "none"
    /\ completed = {}
    /\ mode \in {"blocking", "non_blocking"}
    /\ session \in IF mode = "blocking" THEN {"waiting"} ELSE {"waiting", "running"}
    /\ interrupt = "idle"

\* loadUserInputRequestState: the status is derived from the log.
RequestStatus ==
    IF responses # <<>> /\ responses[Len(responses)].submission = Cancel THEN "cancelled"
    ELSE IF resume # "none" THEN resume
    ELSE IF responses # <<>> THEN "answered" ELSE "pending"

Unsettled == RequestStatus \in {"pending", "resuming", "resume_failed", "answered"}

At(r, s) == at[r] = "owner" /\ step[r] = s
Go(r, s) == step' = [step EXCEPT ![r] = s]

\* The responder ends: its claim is released, its payload kept or not.
Leave(r, preservePayload) ==
    Go(r, "leave") /\ keep' = [keep EXCEPT ![r] = preservePayload]

Live(r) == at[r] \notin {"idle"} \cup Ended

-----------------------------------------------------------------------------
(* respondToUserInput up to its claim, and the claim once it has the lease. *)

\* A responder comes with an answer, with a cancellation, or to recover what was committed.
Respond(r) ==
    /\ Unsettled
    /\ RequestStatus = "answered" => payload # None
    /\ mode = "blocking" =>
         IF RequestStatus = "pending" THEN session = "waiting" ELSE session # "running"
    /\ \E s \in Submission \cup (IF payload = None THEN {} ELSE {None}) :
          offer' = [offer EXCEPT ![r] = s]
    /\ Start(r)
    /\ UNCHANGED <<step, goal, claim, missing, keep, payload, logVars, session, interrupt, mode>>

TakeLease(r) ==
    /\ Claim(r)
    /\ step' = IF at'[r] = "owner" THEN [step EXCEPT ![r] = "reload"] ELSE step
    /\ UNCHANGED <<goal, offer, claim, missing, keep, payload, logVars, session, interrupt, mode>>

\* Mutant: the state of the request is not loaded again under the lease.
ReloadNever(r) ==
    /\ At(r, "reload")
    /\ Go(r, "payload")
    /\ UNCHANGED <<leaseVars, goal, offer, claim, missing, keep, payload, logVars, session, interrupt, mode>>

\* The request may have been settled since the responder looked.
Reload(r) ==
    /\ At(r, "reload")
    /\ IF Unsettled THEN Go(r, "payload") /\ UNCHANGED keep ELSE Leave(r, TRUE)
    /\ UNCHANGED <<leaseVars, goal, offer, claim, missing, payload, logVars, session, interrupt, mode>>

\* Mutant: a different answer is not refused, and takes the place of the committed one.
LoadPayloadUnchecked(r) ==
    /\ At(r, "payload")
    /\ IF payload = None /\ offer[r] # None THEN Go(r, "write") /\ UNCHANGED claim
       ELSE /\ claim' = [claim EXCEPT ![r] =
                   IF offer[r] = None THEN payload ELSE [id |-> r, submission |-> offer[r]]]
            /\ Go(r, "enter")
    /\ UNCHANGED <<leaseVars, goal, offer, missing, keep, payload, logVars, session, interrupt, mode>>

\* A committed answer is recovered; a different one is refused.
LoadPayload(r) ==
    /\ At(r, "payload")
    /\ \/ /\ payload = None /\ offer[r] # None
          /\ Go(r, "write") /\ UNCHANGED <<claim, keep>>
       \/ /\ IF payload = None THEN offer[r] = None ELSE offer[r] \notin {None, payload.submission}
          /\ Leave(r, TRUE) /\ UNCHANGED claim
       \/ /\ payload # None /\ offer[r] \in {None, payload.submission}
          /\ claim' = [claim EXCEPT ![r] = payload]
          /\ Go(r, "enter") /\ UNCHANGED keep
    /\ UNCHANGED <<leaseVars, goal, offer, missing, payload, logVars, session, interrupt, mode>>

\* writeJsonExclusiveAtomic: a link that fails if there is a claim file by now.
WritePayload(r) ==
    /\ At(r, "write")
    /\ IF payload = None
         THEN /\ payload' = [id |-> r, submission |-> offer[r]]
              /\ claim' = [claim EXCEPT ![r] = payload']
              /\ Go(r, "enter") /\ UNCHANGED keep
         ELSE Leave(r, TRUE) /\ UNCHANGED <<payload, claim>>
    /\ UNCHANGED <<leaseVars, goal, offer, missing, logVars, session, interrupt, mode>>

\* An answer to a blocking question sets the session running, unless it was interrupted.
EnterTurn(r) ==
    /\ At(r, "enter")
    /\ IF mode = "blocking" /\ claim[r].submission # Cancel
         THEN IF session = "interrupted"
                THEN Leave(r, TRUE) /\ UNCHANGED session
                ELSE session' = "running" /\ Go(r, "resuming") /\ UNCHANGED keep
         ELSE Go(r, "resuming") /\ UNCHANGED <<session, keep>>
    /\ UNCHANGED <<leaseVars, goal, offer, claim, missing, payload, logVars, interrupt, mode>>

RecordResuming(r) ==
    /\ At(r, "resuming")
    /\ resume' = "resuming"
    /\ Go(r, "verify")
    /\ UNCHANGED <<leaseVars, goal, offer, claim, missing, keep, payload, messages, responses,
                   completed, session, interrupt, mode>>

VerifyClaim(r) ==
    /\ At(r, "verify")
    /\ IF session = "interrupted" /\ claim[r].submission # Cancel
         THEN resume' = "interrupted" /\ Leave(r, TRUE)
         ELSE Go(r, "reconcile") /\ UNCHANGED <<resume, keep>>
    /\ UNCHANGED <<leaseVars, goal, offer, claim, missing, payload, messages, responses,
                   completed, session, interrupt, mode>>

-----------------------------------------------------------------------------
(* The heartbeat, and assertLease: a renewal the responder waits for.       *)

AssertThen(r, s) == Go(r, "assert") /\ goal' = [goal EXCEPT ![r] = s]

Beat(r) ==
    /\ step[r] \notin ClaimStep \cup {"assert", "await", "leave"}
    /\ RenewCheck(r)
    /\ UNCHANGED requestVars

RenewStep(r) == Renew(r) /\ UNCHANGED requestVars

AssertLease(r) ==
    /\ At(r, "assert")
    /\ RenewCheck(r)
    /\ Go(r, "await")
    /\ UNCHANGED <<goal, offer, claim, missing, keep, payload, logVars, session, interrupt, mode>>

\* Where a lost lease takes the responder.
LostLease(r) ==
    CASE goal[r] \in {"reconciled", "cancel"} -> Leave(r, TRUE)
      [] goal[r] = "record" \/ mode = "non_blocking" -> Go(r, "catch") /\ UNCHANGED keep
      [] OTHER -> Go(r, "inner_catch") /\ UNCHANGED keep

LeaseAsserted(r) ==
    /\ at[r] = "owner"
    /\ \/ step[r] = "await" /\ beat[r] = "idle" /\ Go(r, goal[r]) /\ UNCHANGED keep
       \/ step[r] \in {"assert", "await"} /\ beat[r] = "lost" /\ LostLease(r)
    /\ UNCHANGED <<leaseVars, goal, offer, claim, missing, payload, logVars, session, interrupt, mode>>

-----------------------------------------------------------------------------
(* respondToUserInput after its claim.                                      *)

\* reconcileCompletedAttempt: an earlier attempt with this response got to the end of the turn.
Reconcile(r) ==
    /\ At(r, "reconcile")
    /\ AssertThen(r, IF claim[r].id \in completed THEN "reconciled"
                 ELSE IF claim[r].submission = Cancel THEN "cancel" ELSE "record")
    /\ UNCHANGED <<leaseVars, offer, claim, missing, keep, payload, logVars, session, interrupt, mode>>

Reconciled(r) ==
    /\ \/ At(r, "reconciled") /\ session' = "waiting" /\ Go(r, "settle_reconciled")
          /\ UNCHANGED <<resume, keep>>
       \/ At(r, "settle_reconciled") /\ resume' = "resumed" /\ Leave(r, FALSE)
          /\ UNCHANGED session
    /\ UNCHANGED <<leaseVars, goal, offer, claim, missing, payload, messages, responses,
                   completed, interrupt, mode>>

CancelQuestion(r) ==
    /\ \/ /\ At(r, "cancel") /\ Go(r, "respond_cancel")
          /\ session' = IF mode = "blocking" THEN "interrupted" ELSE session
          /\ UNCHANGED <<responses, resume, keep>>
       \/ /\ At(r, "respond_cancel") /\ Go(r, "resume_cancel")
          /\ responses' = Append(responses, claim[r])
          /\ UNCHANGED <<session, resume, keep>>
       \/ /\ At(r, "resume_cancel") /\ Leave(r, FALSE)
          /\ resume' = "interrupted"
          /\ UNCHANGED <<session, responses>>
    /\ UNCHANGED <<leaseVars, goal, offer, claim, missing, payload, messages, completed, interrupt, mode>>

\* What of the answer is in the log already; the answer continues the turn or settles at once.
AfterRecord(m) ==
    IF "message" \in m THEN "message" ELSE IF "response" \in m THEN "response"
    ELSE IF mode = "blocking" THEN "resume" ELSE "settle"

RecordAnswer(r) ==
    /\ At(r, "record")
    /\ missing' = [missing EXCEPT ![r] =
           (IF messages[claim[r].id] > 0 THEN {} ELSE {"message"}) \cup
           (IF \E i \in DOMAIN responses : responses[i].id = claim[r].id THEN {} ELSE {"response"})]
    /\ Go(r, AfterRecord(missing'[r]))
    /\ UNCHANGED <<leaseVars, goal, offer, claim, keep, payload, logVars, session, interrupt, mode>>

AppendAnswer(r) ==
    /\ \/ At(r, "message") /\ messages' = [messages EXCEPT ![claim[r].id] = @ + 1]
          /\ UNCHANGED responses
       \/ At(r, "response") /\ responses' = Append(responses, claim[r]) /\ UNCHANGED messages
    /\ missing' = [missing EXCEPT ![r] = @ \ {step[r]}]
    /\ Go(r, AfterRecord(missing'[r]))
    /\ UNCHANGED <<leaseVars, goal, offer, claim, keep, payload, resume, completed, session, interrupt, mode>>

\* The turn is taken up again only if it is still running and not interrupted.
ResumeTurn(r) ==
    /\ At(r, "resume")
    /\ Go(r, IF session # "running" \/ RequestStatus = "interrupted" THEN "catch" ELSE "reenter")
    /\ UNCHANGED <<leaseVars, goal, offer, claim, missing, keep, payload, logVars, session, interrupt, mode>>

ReenterTurn(r) ==
    /\ At(r, "reenter")
    /\ session' = "running"
    /\ AssertThen(r, "loop")
    /\ UNCHANGED <<leaseVars, offer, claim, missing, keep, payload, logVars, interrupt, mode>>

\* Mutant: the end of the loop does not finish the turn.
ModelLoopUnfinished(r) ==
    /\ At(r, "loop")
    /\ \/ AssertThen(r, "settle")
       \/ Go(r, "inner_catch") /\ UNCHANGED goal
    /\ UNCHANGED <<leaseVars, offer, claim, missing, keep, payload, logVars, session, interrupt, mode>>

\* runModelLoop ends the turn, asks for a permission, or fails.
ModelLoop(r) ==
    /\ At(r, "loop")
    /\ \/ /\ AssertThen(r, "settle")
          /\ session' = "waiting" /\ completed' = completed \cup {claim[r].id}
       \/ /\ Go(r, "permission") /\ UNCHANGED goal
          /\ IF session = "interrupted" THEN UNCHANGED <<session, completed>>
             ELSE session' = "waiting" /\ completed' = completed \cup {claim[r].id}
       \/ /\ Go(r, "inner_catch") /\ UNCHANGED <<goal, session, completed>>
    /\ UNCHANGED <<leaseVars, offer, claim, missing, keep, payload, messages, responses, resume, interrupt, mode>>

\* The answer took effect, unless the question was interrupted meanwhile.
Settle(r) ==
    /\ \/ /\ At(r, "settle")
          /\ Go(r, IF RequestStatus # "interrupted" THEN "resumed"
                   ELSE IF mode = "blocking" THEN "inner_catch" ELSE "catch")
          /\ UNCHANGED <<resume, keep>>
       \/ At(r, "resumed") /\ resume' = "resumed" /\ Go(r, "confirm") /\ UNCHANGED keep
       \/ /\ At(r, "confirm")
          /\ IF session # "interrupted" THEN Leave(r, FALSE) /\ UNCHANGED resume
             ELSE /\ resume' = "interrupted"
                  /\ Go(r, IF mode = "blocking" THEN "inner_catch" ELSE "catch")
                  /\ UNCHANGED keep
    /\ UNCHANGED <<leaseVars, goal, offer, claim, missing, payload, messages, responses,
                   completed, session, interrupt, mode>>

\* Mutant: a resumed turn that fails is resumed again at once.
InnerCatchResumes(r) ==
    /\ At(r, "inner_catch")
    /\ Go(r, IF RequestStatus = "interrupted" THEN "catch" ELSE "reenter")
    /\ UNCHANGED <<leaseVars, goal, offer, claim, missing, keep, payload, logVars, session, interrupt, mode>>

\* The catch block around the resumed turn sets it waiting again.
InnerCatch(r) ==
    /\ At(r, "inner_catch")
    /\ session' = IF RequestStatus = "interrupted" THEN session ELSE "waiting"
    /\ Go(r, "catch")
    /\ UNCHANGED <<leaseVars, goal, offer, claim, missing, keep, payload, logVars, interrupt, mode>>

\* Mutant: a failed resume discards the claim file.
CatchDiscards(r) ==
    /\ \/ /\ At(r, "catch")
          /\ resume' = IF RequestStatus = "interrupted" THEN resume ELSE "resume_failed"
          /\ Leave(r, FALSE)
       \/ /\ At(r, "permission")
          /\ resume' = IF RequestStatus = "interrupted" THEN resume ELSE "resumed"
          /\ Leave(r, FALSE)
    /\ session' = IF session = "running" THEN "waiting" ELSE session
    /\ UNCHANGED <<leaseVars, goal, offer, claim, missing, payload, messages, responses,
                   completed, interrupt, mode>>

\* The catch block around the whole answer.
Catch(r) ==
    /\ \/ /\ At(r, "catch")
          /\ IF RequestStatus = "interrupted" THEN Leave(r, FALSE) /\ UNCHANGED resume
             ELSE resume' = "resume_failed" /\ Go(r, "resume_failed") /\ UNCHANGED keep
          /\ UNCHANGED session
       \/ /\ At(r, "permission")
          /\ resume' = IF RequestStatus = "interrupted" THEN resume ELSE "resumed"
          /\ Leave(r, FALSE)
          /\ UNCHANGED session
       \/ /\ At(r, "resume_failed")
          /\ session' = IF session = "running" THEN "waiting" ELSE session
          /\ Leave(r, TRUE)
          /\ UNCHANGED resume
    /\ UNCHANGED <<leaseVars, goal, offer, claim, missing, payload, messages, responses,
                   completed, interrupt, mode>>

\* releaseUserInputClaim: the payload goes between the look at the generation and its removal.
ReleaseClaim(r) ==
    /\ \/ step[r] = "leave" /\ BeginRelease(r) /\ Go(r, "left")
       \/ /\ InspectGeneration(r)
          /\ Go(r, IF gens[r] # None /\ ~keep[r] THEN "discard" ELSE "left")
       \/ step[r] = "left" /\ Release(r) /\ UNCHANGED step
    /\ UNCHANGED <<goal, offer, claim, missing, keep, payload, logVars, session, interrupt, mode>>

DiscardPayload(r) ==
    /\ at[r] = "drop_generation" /\ step[r] = "discard"
    /\ payload' = None
    /\ Go(r, "left")
    /\ UNCHANGED <<leaseVars, goal, offer, claim, missing, keep, logVars, session, interrupt, mode>>

-----------------------------------------------------------------------------
(* The rest of the system.                                                 *)

\* interruptSession: the question first, then the session.
InterruptSession ==
    /\ Interrupts
    /\ \/ /\ interrupt = "idle" /\ interrupt' = "appended"
          /\ resume' = IF Unsettled THEN "interrupted" ELSE resume
          /\ UNCHANGED session
       \/ /\ interrupt = "appended" /\ interrupt' = "done"
          /\ session' = "interrupted"
          /\ UNCHANGED resume
    /\ UNCHANGED <<leaseVars, callVars, payload, messages, responses, completed, mode>>

\* recoverActiveSession of a starting process: a running turn is taken for one left behind.
RecoverSession ==
    /\ mode = "blocking" /\ session = "running"
    /\ Attaches \/ \A r \in Responder : ~Live(r)
    /\ session' = IF Unsettled THEN "waiting" ELSE "interrupted"
    /\ UNCHANGED <<leaseVars, callVars, payload, logVars, interrupt, mode>>

ResponderDies(r) == Crash(r) /\ UNCHANGED requestVars
TimePasses == Tick /\ UNCHANGED requestVars

MainStep(r) ==
    \/ TakeLease(r) \/ Reload(r) \/ LoadPayload(r) \/ WritePayload(r) \/ EnterTurn(r)
    \/ RecordResuming(r) \/ VerifyClaim(r) \/ AssertLease(r) \/ LeaseAsserted(r)
    \/ Reconcile(r) \/ Reconciled(r) \/ CancelQuestion(r) \/ RecordAnswer(r) \/ AppendAnswer(r)
    \/ ResumeTurn(r) \/ ReenterTurn(r) \/ ModelLoop(r) \/ Settle(r) \/ InnerCatch(r) \/ Catch(r)
    \/ ReleaseClaim(r) \/ DiscardPayload(r)

Next ==
    \/ \E r \in Responder : Respond(r) \/ MainStep(r) \/ RenewStep(r) \/ Beat(r) \/ ResponderDies(r)
    \/ InterruptSession \/ RecoverSession \/ TimePasses

Spec == Init /\ [][Next]_vars

\* A live responder goes on: every await of respondToUserInput returns, the model loop ends
\* (its cycles and provider retries are bounded), and so does a renewal.  Nothing makes a
\* process start, the user interrupt, the timer fire or a responder come.
FairSpec == Spec /\ \A r \in Responder : WF_vars(MainStep(r)) /\ WF_vars(RenewStep(r))

-----------------------------------------------------------------------------
(* Properties.                                                             *)

\* However responders, retries and crashes interleave, the log never holds two different
\* answers to the question, nor an answer and a cancellation, nor one of them twice.
OneResponse == Len(responses) <= 1

\* The answer enters the conversation once: no retry appends its message again.
OneMessage ==
    /\ \A r \in Responder : messages[r] <= 1
    /\ \A r, q \in Responder : messages[r] > 0 /\ messages[q] > 0 => q = r

\* The turn is resumed by one responder at a time: no two model loops run on it.
OneResumption == Cardinality({r \in Responder : At(r, "loop")}) <= 1

\* The question is answered once, in the log, in the conversation and in the turn, however
\* responders, retries, interruptions and crashes interleave.
AnsweredOnce == OneResponse /\ OneMessage /\ OneResumption

\* While a recorded answer has not taken effect, the claim file still holds it, so that a
\* later call can recover it after a crash or a failed resume.
AnswerRecoverable ==
    responses # <<>> /\ Unsettled => payload = responses[1]

\* A session that says it is running has a responder at work, or one that died in it.
RunningHasRunner ==
    session = "running" /\ mode = "blocking" /\ interrupt = "idle" =>
        \E r \in Responder : Live(r) \/ at[r] \in Dead

\* Whoever dies or fails leaves neither an answer that is lost nor a session that is running
\* without a runner.
NothingStranded == AnswerRecoverable /\ RunningHasRunner

\* A question whose answer took effect is not opened again.
ResumedStays ==
    [][RequestStatus = "resumed" => RequestStatus' \in {"resumed", "interrupted"}]_vars

\* Once the session is interrupted, no answer that was under way sets it running again.
InterruptStands ==
    [][interrupt = "done" /\ session = "interrupted" => session' # "running"]_vars

\* An interrupted question is settled once nobody is answering it any more: it does not
\* block the session as a question that can be neither answered nor cancelled.
InterruptSettles ==
    interrupt = "done" /\ (\A r \in Responder : ~Live(r)) => ~Unsettled

\* Every call of respondToUserInput comes to an end, whatever the other responders do.
EveryCallEnds == \A r \in Responder : at[r] # "idle" ~> at[r] \in Ended

\* The turn of a blocking question does not stay running: it ends, or waits for the user again.
TurnSettles == session = "running" /\ mode = "blocking" ~> session # "running"
=============================================================================
