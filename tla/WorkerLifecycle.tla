---------------------------- MODULE WorkerLifecycle ----------------------------
(***************************************************************************)
(* One specialist worker: the runs that drive it (SpecialistBroker's       *)
(* runCodingWorkerSession and runVisionWorkerSession), the supervisor's    *)
(* reviews, the requests that cancel it, and the worker-session record     *)
(* they share through SessionStore.                                        *)
(*                                                                         *)
(* A run and a request are asynchronous invocations in one process.  The   *)
(* per-worker lock of the store makes a status transition one step.  The   *)
(* continuation of a cancellation runs before any other transition can     *)
(* finish (it waits for no I/O), so the lock is held until the run has     *)
(* been signalled.                                                         *)
(***************************************************************************)
EXTENDS Naturals

CONSTANTS
    Run,          \* invocations of a worker run, each used once
    Initial,      \* the run that invokeCodingWorker / invokeVisionWorker starts
    Request,      \* cancellation requests, each used once
    MaxRetries,   \* config.maxRetries; the vision run has no retry loop
    MaxReviews,   \* maxReviewAttempts of the supervisor
    Crashes,      \* whether the process may die
    None          \* no run, no request

ASSUME WorkerLifecycleAssumption ==
    /\ Initial \in Run
    /\ MaxRetries \in Nat
    /\ MaxReviews \in Nat
    /\ None \notin Run \cup Request
    /\ Crashes \in BOOLEAN

Terminal == {"completed", "failed", "cancelled"}
Status == {"queued", "running"} \cup Terminal

VARIABLES
    overlapping, \* whether reviews are asked for while another run is in progress; never changes
    workerType,  \* the worker-session record: "coding" or "vision",
    status, version, retries, revisions, artifacts,  \* and what changes of it
    lock,      \* the request that has cancelled the worker and not yet signalled it
    pc,        \* where a run stands between two awaits
    kind,      \* the dispatch kind a run was started with
    attempt,   \* the retry loop's counter
    signal,    \* the AbortController of a run's current attempt
    thrown,    \* what ended the attempt; then its WorkerToolError
    again,     \* willRetry
    answer,    \* what a run returned
    live,      \* activeControllers: the run whose controller is registered
    pending,   \* pendingCancellations has the worker
    reqPc, seen,  \* a request: where it stands, and the statusVersion approved for it
    changed,   \* history: the status changed since the request was approved
    told       \* history: a cancellation was answered while the run was attempting

recordVars == <<workerType, status, version, retries, revisions, artifacts>>
runVars == <<pc, kind, attempt, signal, thrown, again, answer>>
requestVars == <<reqPc, seen, told>>
vars == <<overlapping, recordVars, lock, runVars, live, pending, requestVars, changed>>

PC == {"idle", "context", "begin", "prepare", "set_running", "messages", "model", "publish",
       "store", "complete", "caught", "set_failed", "done"}
Thrown == {"none", "retryable", "fatal", "generic", "timeout", "interrupted"}

\* Between "begin" and the finally block a run has an armed timer.
Attempting == {"prepare", "set_running", "messages", "model", "publish", "store",
               "complete", "caught", "set_failed"}

TypeOK ==
    /\ overlapping \in BOOLEAN
    /\ workerType \in {"coding", "vision"}
    /\ status \in Status
    /\ version \in Nat /\ retries \in Nat /\ revisions \in Nat /\ artifacts \in Nat
    /\ lock \in Request \cup {None}
    /\ pc \in [Run -> PC]
    /\ kind \in [Run -> {"initial", "revise", "retry"}]
    /\ attempt \in [Run -> 0..MaxRetries]
    /\ signal \in [Run -> {"none", "timeout", "cancelled"}]
    /\ thrown \in [Run -> Thrown]
    /\ again \in [Run -> BOOLEAN]
    /\ answer \in [Run -> {"none", "artifact"} \cup Thrown]
    /\ live \in Run \cup {None}
    /\ pending \in BOOLEAN
    /\ reqPc \in [Request -> {"idle", "approved", "signal", "done"}]
    /\ seen \in [Request -> Nat]
    /\ changed \in [Request -> BOOLEAN]
    /\ told \in [Run -> BOOLEAN]

\* createWorkerSession has queued the worker.
Init ==
    /\ overlapping \in BOOLEAN
    /\ workerType \in {"coding", "vision"}
    /\ status = "queued"
    /\ version = 0 /\ retries = 0 /\ revisions = 0 /\ artifacts = 0
    /\ lock = None
    /\ pc = [r \in Run |-> "idle"]
    /\ kind = [r \in Run |-> "initial"]
    /\ attempt = [r \in Run |-> 0]
    /\ signal = [r \in Run |-> "none"]
    /\ thrown = [r \in Run |-> "none"]
    /\ again = [r \in Run |-> FALSE]
    /\ answer = [r \in Run |-> "none"]
    /\ live = None
    /\ pending = FALSE
    /\ reqPc = [q \in Request |-> "idle"]
    /\ seen = [q \in Request |-> 0]
    /\ changed = [q \in Request |-> FALSE]
    /\ told = [r \in Run |-> FALSE]

-----------------------------------------------------------------------------
\* The status record

\* Mutant: a cancelled worker can be reopened like a failed one.
ReopensCancelled(to, k) ==
    /\ to = "running"
    /\ \/ status = "completed" /\ k \in {"revise", "retry"}
       \/ status \in {"failed", "cancelled"} /\ k = "retry"

\* explicitReopen of a terminal worker.
Reopens(to, k) ==
    /\ to = "running"
    /\ \/ status = "completed" /\ k \in {"revise", "retry"}
       \/ status = "failed" /\ k = "retry"

Accepts(to, k) == status \notin Terminal \/ Reopens(to, k)

\* Mutant: a transition that does not change the status keeps the version.
BumpOnlyNewStatus(to) == version' = IF to = status THEN version ELSE version + 1

\* The version every accepted transition writes.
Bump(to) == version' = version + 1

\* transitionWorkerSessionStatus: refused transitions leave the record as it is.
SetStatus(to, k) ==
    /\ lock = None
    /\ IF Accepts(to, k)
       THEN /\ status' = to
            /\ Bump(to)
            /\ retries' = IF to = "running" /\ k = "retry" THEN retries + 1 ELSE retries
            /\ revisions' = IF to = "running" /\ k = "revise" THEN revisions + 1 ELSE revisions
            /\ changed' = [q \in Request |-> TRUE]
       ELSE UNCHANGED <<status, version, retries, revisions, changed>>
    /\ UNCHANGED <<workerType, artifacts>>

\* AbortController.abort: the first reason stays.
Abort(r, reason) == IF signal[r] = "none" THEN [signal EXCEPT ![r] = reason] ELSE signal

Goto(r, to) == pc' = [pc EXCEPT ![r] = to]

\* `if (controller.signal.aborted) throw new Error("cancelled")`, else go on.
CheckAborted(r, to) ==
    IF signal[r] = "none"
    THEN Goto(r, to) /\ UNCHANGED thrown
    ELSE Goto(r, "caught") /\ thrown' = [thrown EXCEPT ![r] = "generic"]

-----------------------------------------------------------------------------
\* Runs

InProgress(r) == pc[r] \notin {"idle", "done"}

\* Mutant: the limit is exceeded by one.
WithinBudgetOffByOne == retries + revisions <= MaxReviews

\* assertReviewBudget
WithinBudget == retries + revisions < MaxReviews

\* invokeCodingWorker, or a review of the supervisor that is within its budget.
Dispatch(r, k) ==
    /\ pc[r] = "idle"
    /\ k = "initial" <=> r = Initial
    /\ r # Initial => /\ workerType = "coding"
                      /\ WithinBudget
                      /\ \/ overlapping
                         \/ pc[Initial] # "idle" /\ \A s \in Run : ~InProgress(s)
    /\ kind' = [kind EXCEPT ![r] = k]
    /\ Goto(r, "context")
    /\ UNCHANGED <<recordVars, lock, attempt, signal, thrown, again, answer, live, pending,
                   requestVars, changed>>

\* resolveWorkerContext; a file reference outside the workspace throws out of the run.
ResolveContext(r) ==
    /\ pc[r] = "context"
    /\ \/ Goto(r, "begin")
       \/ workerType = "coding" /\ Goto(r, "done")
    /\ UNCHANGED <<recordVars, lock, kind, attempt, signal, thrown, again, answer, live, pending,
                   requestVars, changed>>

\* The top of the retry loop: a new controller takes the place of whatever is registered,
\* and a cancellation that was waiting for one aborts it.
BeginAttempt(r) ==
    /\ pc[r] = "begin"
    /\ live' = r
    /\ pending' = FALSE
    /\ signal' = [signal EXCEPT ![r] = IF pending THEN "cancelled" ELSE "none"]
    /\ thrown' = [thrown EXCEPT ![r] = IF pending THEN "generic" ELSE "none"]
    /\ Goto(r, IF pending THEN "caught"
               ELSE IF workerType = "vision" THEN "prepare" ELSE "set_running")
    /\ UNCHANGED <<recordVars, lock, kind, attempt, again, answer, requestVars, changed>>

\* The timer of the attempt.
Timeout(r) ==
    /\ pc[r] \in Attempting
    /\ signal[r] = "none"
    /\ signal' = Abort(r, "timeout")
    /\ UNCHANGED <<recordVars, lock, pc, kind, attempt, thrown, again, answer, live, pending,
                   requestVars, changed>>

\* prepareVisionInput, which may refuse the image.
Prepare(r) ==
    /\ pc[r] = "prepare"
    /\ \/ CheckAborted(r, "set_running")
       \/ Goto(r, "caught") /\ thrown' = [thrown EXCEPT ![r] = "fatal"]
    /\ UNCHANGED <<recordVars, lock, kind, attempt, signal, again, answer, live, pending,
                   requestVars, changed>>

DispatchKind(r) == IF attempt[r] = 0 THEN kind[r] ELSE "retry"

\* Mutant: the run goes on although the store refused to set it running.
SetRunningUnchecked(r) ==
    /\ pc[r] = "set_running"
    /\ SetStatus("running", DispatchKind(r))
    /\ Goto(r, "messages")
    /\ UNCHANGED <<lock, kind, attempt, signal, thrown, again, answer, live, pending, requestVars>>

\* The store sets the worker running, or refuses and the run aborts itself.
SetRunning(r) ==
    /\ pc[r] = "set_running"
    /\ SetStatus("running", DispatchKind(r))
    /\ IF status' = "running"
       THEN Goto(r, "messages") /\ UNCHANGED <<signal, thrown>>
       ELSE /\ Goto(r, "caught")
            /\ signal' = Abort(r, "cancelled")
            /\ thrown' = [thrown EXCEPT ![r] = "generic"]
    /\ UNCHANGED <<lock, kind, attempt, again, answer, live, pending, requestVars>>

\* The two messages are appended under the lock; then the model is called.
CallModel(r) ==
    /\ pc[r] = "messages"
    /\ lock = None
    /\ CheckAborted(r, "model")
    /\ UNCHANGED <<recordVars, lock, kind, attempt, signal, again, answer, live, pending,
                   requestVars, changed>>

\* runTask returns or throws.  An aborted call may still return, or throw an error of its own.
ModelReturns(r) ==
    /\ pc[r] = "model"
    /\ \/ CheckAborted(r, "publish")
       \/ \E error \in {"retryable", "fatal", "generic"} :
             Goto(r, "caught") /\ thrown' = [thrown EXCEPT ![r] = error]
    /\ UNCHANGED <<recordVars, lock, kind, attempt, signal, again, answer, live, pending,
                   requestVars, changed>>

\* The response is recorded as a message.
Publish(r) ==
    /\ pc[r] = "publish"
    /\ lock = None
    /\ CheckAborted(r, "store")
    /\ UNCHANGED <<recordVars, lock, kind, attempt, signal, again, answer, live, pending,
                   requestVars, changed>>

\* storeCodeArtifact / storeVisionArtifact, or its validation fails.
StoreArtifact(r) ==
    /\ pc[r] = "store"
    /\ lock = None
    /\ \/ artifacts' = artifacts + 1 /\ CheckAborted(r, "complete")
       \/ /\ UNCHANGED artifacts
          /\ Goto(r, "caught")
          /\ thrown' = [thrown EXCEPT ![r] = "generic"]
    /\ UNCHANGED <<workerType, status, version, retries, revisions, lock, kind, attempt, signal,
                   again, answer, live, pending, requestVars, changed>>

\* What a run that ends leaves behind: its controller, if it is still the registered one.
Release(r) == live' = IF live = r THEN None ELSE live

\* Mutant: the artifact is returned without looking at what the store answered.
CompleteUnchecked(r) ==
    /\ pc[r] = "complete"
    /\ SetStatus("completed", DispatchKind(r))
    /\ answer' = [answer EXCEPT ![r] = "artifact"]
    /\ Goto(r, "done")
    /\ Release(r)
    /\ UNCHANGED <<lock, kind, attempt, signal, thrown, again, pending, requestVars>>

\* The worker is completed and the artifact returned, unless the store says otherwise.
Complete(r) ==
    /\ pc[r] = "complete"
    /\ SetStatus("completed", DispatchKind(r))
    /\ IF status' = "completed"
       THEN /\ answer' = [answer EXCEPT ![r] = "artifact"]
            /\ Goto(r, "done")
            /\ Release(r)
            /\ UNCHANGED thrown
       ELSE /\ thrown' = [thrown EXCEPT ![r] = "generic"]
            /\ Goto(r, "caught")
            /\ UNCHANGED <<answer, live>>
    /\ UNCHANGED <<lock, kind, attempt, signal, again, pending, requestVars>>

\* Mutant: every abort counts as an interruption, the timer's included.
WorkerErrorTypeOfAbort(r) ==
    IF thrown[r] # "generic" THEN thrown[r]
    ELSE IF signal[r] = "none" THEN "fatal" ELSE "interrupted"

\* toWorkerError of what was thrown.
WorkerErrorType(r) ==
    IF thrown[r] # "generic" THEN thrown[r]
    ELSE CASE signal[r] = "timeout" -> "timeout"
           [] signal[r] = "cancelled" -> "interrupted"
           [] OTHER -> "fatal"

\* The catch block up to its status transition: willRetry is decided here.
Catch(r) ==
    /\ pc[r] = "caught"
    /\ thrown' = [thrown EXCEPT ![r] = WorkerErrorType(r)]
    /\ again' = [again EXCEPT ![r] =
                   /\ thrown[r] = "retryable" /\ signal[r] = "none"
                   /\ workerType = "coding" /\ attempt[r] < MaxRetries]
    /\ Goto(r, "set_failed")
    /\ UNCHANGED <<recordVars, lock, kind, attempt, signal, answer, live, pending,
                   requestVars, changed>>

\* Mutant: a run that will not retry forgets to record its failure.
SetFailedOnlyToRetry(r) ==
    /\ pc[r] = "set_failed"
    /\ IF again[r]
       THEN /\ SetStatus("failed", DispatchKind(r))
            /\ Goto(r, "begin")
            /\ attempt' = [attempt EXCEPT ![r] = @ + 1]
            /\ UNCHANGED answer
       ELSE /\ Goto(r, "done")
            /\ answer' = [answer EXCEPT ![r] = thrown[r]]
            /\ UNCHANGED <<recordVars, changed, attempt>>
    /\ Release(r)
    /\ UNCHANGED <<lock, kind, signal, thrown, again, pending, requestVars>>

\* The failure is recorded, and the loop goes on or the error is returned.
SetFailed(r) ==
    /\ pc[r] = "set_failed"
    /\ SetStatus(IF ~again[r] /\ thrown[r] = "interrupted" THEN "cancelled" ELSE "failed",
                 DispatchKind(r))
    /\ IF again[r]
       THEN /\ Goto(r, "begin")
            /\ attempt' = [attempt EXCEPT ![r] = @ + 1]
            /\ UNCHANGED answer
       ELSE /\ Goto(r, "done")
            /\ answer' = [answer EXCEPT ![r] = thrown[r]]
            /\ UNCHANGED attempt
    /\ Release(r)
    /\ UNCHANGED <<lock, kind, signal, thrown, again, pending, requestVars>>

-----------------------------------------------------------------------------
\* Cancellation

\* A run that is between its first attempt and its return.
Active(r) == pc[r] \in Attempting \/ (pc[r] = "begin" /\ attempt[r] > 0)

Tell == told' = [r \in Run |-> told[r] \/ Active(r)]

\* previewWorkerCancellation: the approval is bound to the status version it shows.
Preview(q) ==
    /\ reqPc[q] = "idle"
    /\ seen' = [seen EXCEPT ![q] = version]
    /\ changed' = [changed EXCEPT ![q] = FALSE]
    /\ reqPc' = [reqPc EXCEPT ![q] = "approved"]
    /\ UNCHANGED <<recordVars, lock, runVars, live, pending, told>>

\* The approval names a version, and it is not the current one.
Outdated(q) == reqPc[q] = "approved" /\ seen[q] # version

\* A queued or running worker is cancelled in the store.
CancelWorker(q) ==
    /\ reqPc[q] \in {"idle", "approved"}
    /\ lock = None
    /\ status \notin Terminal
    /\ ~Outdated(q)
    /\ status' = "cancelled"
    /\ version' = version + 1
    /\ changed' = [p \in Request |-> TRUE]
    /\ lock' = q
    /\ reqPc' = [reqPc EXCEPT ![q] = "signal"]
    /\ UNCHANGED <<workerType, retries, revisions, artifacts, runVars, live, pending, seen, told>>

\* The worker has changed since the approval: the request throws ERR_TOOL_CONFLICTED.
CancelConflicts(q) ==
    /\ reqPc[q] = "approved"
    /\ lock = None
    /\ status \notin Terminal
    /\ Outdated(q)
    /\ reqPc' = [reqPc EXCEPT ![q] = "done"]
    /\ UNCHANGED <<recordVars, lock, runVars, live, pending, seen, changed, told>>

\* A terminal worker is left as it is, and the request answers that nothing changed.
CancelTerminal(q) ==
    /\ reqPc[q] \in {"idle", "approved"}
    /\ lock = None
    /\ status \in Terminal
    /\ pending' = FALSE
    /\ reqPc' = [reqPc EXCEPT ![q] = "done"]
    /\ Tell
    /\ UNCHANGED <<recordVars, lock, runVars, live, seen, changed>>

\* The registered controller is aborted, or the cancellation waits for the next one.
SignalRun(q) ==
    /\ reqPc[q] = "signal"
    /\ IF live # None /\ signal[live] = "none"
       THEN signal' = Abort(live, "cancelled") /\ UNCHANGED pending
       ELSE pending' = TRUE /\ UNCHANGED signal
    /\ lock' = None
    /\ reqPc' = [reqPc EXCEPT ![q] = "done"]
    /\ Tell
    /\ UNCHANGED <<recordVars, pc, kind, attempt, thrown, again, answer, live, seen, changed>>

\* The process dies: its runs and requests are gone, and so are both maps.
Crash ==
    /\ Crashes
    /\ \E r \in Run : InProgress(r)
    /\ pc' = [r \in Run |-> IF InProgress(r) THEN "done" ELSE pc[r]]
    /\ reqPc' = [q \in Request |-> IF reqPc[q] = "idle" THEN "idle" ELSE "done"]
    /\ live' = None
    /\ pending' = FALSE
    /\ lock' = None
    /\ UNCHANGED <<recordVars, kind, attempt, signal, thrown, again, answer, seen, changed, told>>

RunStep(r) ==
    \/ ResolveContext(r)
    \/ BeginAttempt(r)
    \/ Prepare(r)
    \/ SetRunning(r)
    \/ CallModel(r)
    \/ ModelReturns(r)
    \/ Publish(r)
    \/ StoreArtifact(r)
    \/ Complete(r)
    \/ Catch(r)
    \/ SetFailed(r)

RequestStep(q) ==
    \/ Preview(q)
    \/ CancelWorker(q)
    \/ CancelConflicts(q)
    \/ CancelTerminal(q)
    \/ SignalRun(q)

WorkerNext ==
    \/ \E r \in Run : \E k \in {"initial", "revise", "retry"} : Dispatch(r, k)
    \/ \E r \in Run : RunStep(r) \/ Timeout(r)
    \/ \E q \in Request : RequestStep(q)
    \/ Crash

Next == WorkerNext /\ UNCHANGED overlapping

Spec == Init /\ [][Next]_vars

\* The event loop serves every run and request; a model call returns once it was aborted,
\* and the timer of an attempt goes off.
ServedStep(r) == (pc[r] = "model" => signal[r] # "none") /\ RunStep(r)

Fairness ==
    /\ \A r \in Run : WF_vars(ServedStep(r) /\ UNCHANGED overlapping)
    /\ \A r \in Run : WF_vars(Timeout(r) /\ UNCHANGED overlapping)
    /\ \A q \in Request : WF_vars(SignalRun(q) /\ UNCHANGED overlapping)

FairSpec == Spec /\ Fairness

-----------------------------------------------------------------------------
\* Properties

CancelsByRequest == status # "cancelled" /\ status' = "cancelled" => lock' \in Request

ModelCalledUncancelled ==
    \A r \in Run : pc[r] = "messages" /\ pc'[r] = "model" => status # "cancelled"

\* No late result, retry or review takes a cancelled worker back out of "cancelled".
CancelledIsFinal == [][status = "cancelled" => status' = "cancelled"]_vars

\* A cancellation that waits for a controller belongs to a worker that is cancelled: it
\* never aborts the run of a live one.
PendingMeansCancelled == pending => status = "cancelled"

\* What a run returns agrees with the record.  It hands out its artifact only for a worker the store
\* has completed: a cancelled worker's result is dropped even when it was already stored.  And
\* whatever it returns, the record is terminal by then.
RecordMatchesAnswer ==
    [][\A r \in Run : answer[r] = "none" /\ answer'[r] # "none" =>
            /\ answer'[r] = "artifact" => status' = "completed"
            /\ status' \in Terminal]_vars

\* A cancellation the user approved hits the worker in the very state the user was shown:
\* not a later attempt that happens to have the same status.
ApprovedCancelIsFresh ==
    [][\A q \in Request : reqPc[q] = "approved" /\ reqPc'[q] = "signal" => ~changed[q]]_vars

\* A worker becomes cancelled by a request only, never by the error path of a run.  It
\* holds while runs follow one another; a refused run can cancel another one that is live.
OnlyRequestsCancel == [][~overlapping => CancelsByRequest]_vars

\* A cancelled worker calls no model.  It holds while runs follow one another: of two that
\* overlap only the one whose controller is registered is aborted.
CancelledInvokesNoModel == [][~overlapping => ModelCalledUncancelled]_vars

\* Reviews cannot restart a worker for ever: what exceeds the supervisor's limit is at most
\* the automatic retries of the last review.  It holds while runs follow one another; the
\* limit is checked before the run counts, so overlapping reviews can all pass the check.
ReviewBudget == ~overlapping => retries + revisions <= MaxReviews + MaxRetries

\* After a cancellation was answered, no run it found at work calls the model again.  The
\* code breaks this between a failed attempt and its retry: the worker is "failed" then,
\* which the request takes for terminal.
CancelStopsRuns ==
    [][\A r \in Run : told[r] => ~(pc[r] = "messages" /\ pc'[r] = "model")]_vars

\* Every run ends, even when the model never answers by itself.
EveryRunEnds == \A r \in Run : pc[r] = "context" ~> pc[r] = "done"

\* A worker that was set running is eventually completed, failed or cancelled, unless the
\* process dies.
WorkerSettles == status = "running" ~> status \in Terminal
=============================================================================
