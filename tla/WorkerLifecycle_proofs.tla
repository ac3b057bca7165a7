--------------------------- MODULE WorkerLifecycle_proofs ---------------------------
(***************************************************************************)
(* Theorems about the worker lifecycle, for any runs, requests, retries    *)
(* and reviews, and about the code index, for any workspace and any calls. *)
(***************************************************************************)
EXTENDS MCWorkerLifecycle, FiniteSetTheorems, SequenceTheorems, WellFoundedInduction, TLAPS

\* willRetry was decided while an attempt was left, so the next one is within the limit.
RetryRoom == \A r \in Run : pc[r] = "set_failed" /\ again[r] => attempt[r] < MaxRetries

LEMMA ErrorTypeIsThrown ==
    ASSUME TypeOK, NEW r \in Run
    PROVE  WorkerErrorType(r) \in Thrown
BY DEF WorkerErrorType, TypeOK, Thrown

\* What a status transition can do to the record.
LEMMA SetStatusTypes ==
    ASSUME TypeOK, NEW to \in Status, NEW k, SetStatus(to, k)
    PROVE  /\ workerType' \in {"coding", "vision"} /\ status' \in Status
           /\ version' \in Nat /\ retries' \in Nat /\ revisions' \in Nat /\ artifacts' \in Nat
           /\ changed' \in [Request -> BOOLEAN]
<1>1. CASE Accepts(to, k)
  <2>1. status' = to /\ version' = version + 1 /\ UNCHANGED <<workerType, artifacts>>
    BY <1>1 DEF SetStatus, Bump
  <2>2. retries' \in {retries, retries + 1} /\ revisions' \in {revisions, revisions + 1}
    BY <1>1 DEF SetStatus
  <2>3. changed' = [q \in Request |-> TRUE]
    BY <1>1 DEF SetStatus
  <2>4. QED
    BY <2>1, <2>2, <2>3 DEF TypeOK
<1>2. CASE ~Accepts(to, k)
  BY <1>2 DEF SetStatus, TypeOK
<1>3. QED
  BY <1>1, <1>2

\* Every variable keeps its type, and no run exceeds its retries.
LEMMA TypesInductive == TypeOK /\ RetryRoom /\ [Next]_vars => (TypeOK /\ RetryRoom)'
<1> SUFFICES ASSUME TypeOK, RetryRoom, [Next]_vars PROVE TypeOK' /\ RetryRoom'
  OBVIOUS
<1>0. overlapping' = overlapping
  BY DEF Next, vars
<1> USE WorkerLifecycleAssumption, <1>0
<1> USE DEF recordVars, runVars, requestVars
<1>1. ASSUME NEW r \in Run, NEW k \in {"initial", "revise", "retry"}, Dispatch(r, k)
      PROVE  TypeOK' /\ RetryRoom'
  BY <1>1 DEF Dispatch, TypeOK, RetryRoom, Goto, PC
<1>2. ASSUME NEW r \in Run, ResolveContext(r) PROVE TypeOK' /\ RetryRoom'
  BY <1>2 DEF ResolveContext, TypeOK, RetryRoom, Goto, PC
<1>3. ASSUME NEW r \in Run, BeginAttempt(r) PROVE TypeOK' /\ RetryRoom'
  BY <1>3 DEF BeginAttempt, TypeOK, RetryRoom, Goto, PC, Thrown
<1>4. ASSUME NEW r \in Run, Timeout(r) PROVE TypeOK' /\ RetryRoom'
  BY <1>4 DEF Timeout, TypeOK, RetryRoom, Abort
<1>5. ASSUME NEW r \in Run, Prepare(r) PROVE TypeOK' /\ RetryRoom'
  BY <1>5 DEF Prepare, TypeOK, RetryRoom, Goto, CheckAborted, PC, Thrown
<1>6. ASSUME NEW r \in Run, SetRunning(r) PROVE TypeOK' /\ RetryRoom'
  <2>1. SetStatus("running", DispatchKind(r))
    BY <1>6 DEF SetRunning
  <2>2. /\ pc' \in [Run -> PC] /\ pc'[r] # "set_failed"
        /\ \A s \in Run \ {r} : pc'[s] = pc[s]
    BY <1>6 DEF SetRunning, Goto, TypeOK, PC
  <2>3. signal' \in [Run -> {"none", "timeout", "cancelled"}] /\ thrown' \in [Run -> Thrown]
    BY <1>6 DEF SetRunning, TypeOK, Abort, Thrown
  <2>4. UNCHANGED <<lock, kind, attempt, again, answer, live, pending, requestVars>>
    BY <1>6 DEF SetRunning
  <2>5. TypeOK'
    BY <2>1, <2>2, <2>3, <2>4, SetStatusTypes DEF TypeOK, Status
  <2>6. RetryRoom'
    BY <2>2, <2>4 DEF RetryRoom
  <2>7. QED
    BY <2>5, <2>6
<1>7. ASSUME NEW r \in Run, CallModel(r) PROVE TypeOK' /\ RetryRoom'
  BY <1>7 DEF CallModel, TypeOK, RetryRoom, Goto, CheckAborted, PC, Thrown
<1>8. ASSUME NEW r \in Run, ModelReturns(r) PROVE TypeOK' /\ RetryRoom'
  BY <1>8 DEF ModelReturns, TypeOK, RetryRoom, Goto, CheckAborted, PC, Thrown
<1>9. ASSUME NEW r \in Run, Publish(r) PROVE TypeOK' /\ RetryRoom'
  BY <1>9 DEF Publish, TypeOK, RetryRoom, Goto, CheckAborted, PC, Thrown
<1>10. ASSUME NEW r \in Run, StoreArtifact(r) PROVE TypeOK' /\ RetryRoom'
  BY <1>10 DEF StoreArtifact, TypeOK, RetryRoom, Goto, CheckAborted, PC, Thrown
<1>11. ASSUME NEW r \in Run, Complete(r) PROVE TypeOK' /\ RetryRoom'
  <2>1. SetStatus("completed", DispatchKind(r))
    BY <1>11 DEF Complete
  <2>2. /\ pc' \in [Run -> PC] /\ pc'[r] # "set_failed"
        /\ \A s \in Run \ {r} : pc'[s] = pc[s]
    BY <1>11 DEF Complete, Goto, TypeOK, PC
  <2>3. /\ answer' \in [Run -> {"none", "artifact"} \cup Thrown]
        /\ thrown' \in [Run -> Thrown]
        /\ live' \in Run \cup {None}
    BY <1>11 DEF Complete, TypeOK, Release, Thrown
  <2>4. UNCHANGED <<lock, kind, attempt, signal, again, pending, requestVars>>
    BY <1>11 DEF Complete
  <2>5. TypeOK'
    BY <2>1, <2>2, <2>3, <2>4, SetStatusTypes DEF TypeOK, Status, Terminal
  <2>6. RetryRoom'
    BY <2>2, <2>4 DEF RetryRoom
  <2>7. QED
    BY <2>5, <2>6
<1>12. ASSUME NEW r \in Run, Catch(r) PROVE TypeOK' /\ RetryRoom'
  <2>1. thrown' \in [Run -> Thrown]
    BY <1>12, ErrorTypeIsThrown DEF Catch, TypeOK
  <2>2. TypeOK'
    BY <1>12, <2>1 DEF Catch, TypeOK, Goto, PC
  <2>3. RetryRoom'
    BY <1>12 DEF Catch, RetryRoom, Goto, TypeOK
  <2>4. QED
    BY <2>2, <2>3
<1>13. ASSUME NEW r \in Run, SetFailed(r) PROVE TypeOK' /\ RetryRoom'
  <2>1. \E to \in Status : SetStatus(to, DispatchKind(r))
    BY <1>13 DEF SetFailed, Status, Terminal
  <2>2. /\ pc' \in [Run -> PC] /\ pc'[r] # "set_failed"
        /\ \A s \in Run \ {r} : pc'[s] = pc[s] /\ attempt'[s] = attempt[s]
    BY <1>13 DEF SetFailed, Goto, TypeOK, PC
  <2>3. attempt' \in [Run -> 0..MaxRetries]
    BY <1>13 DEF SetFailed, RetryRoom, TypeOK
  <2>4. answer' \in [Run -> {"none", "artifact"} \cup Thrown] /\ live' \in Run \cup {None}
    BY <1>13 DEF SetFailed, TypeOK, Release
  <2>5. UNCHANGED <<lock, kind, signal, thrown, again, pending, requestVars>>
    BY <1>13 DEF SetFailed
  <2>6. TypeOK'
    BY <2>1, <2>2, <2>3, <2>4, <2>5, SetStatusTypes DEF TypeOK
  <2>7. RetryRoom'
    BY <2>2, <2>5 DEF RetryRoom
  <2>8. QED
    BY <2>6, <2>7
<1>14. ASSUME NEW q \in Request, RequestStep(q) PROVE TypeOK' /\ RetryRoom'
  <2>1. CASE Preview(q)
    BY <2>1 DEF Preview, TypeOK, RetryRoom
  <2>2. CASE CancelWorker(q)
    BY <2>2 DEF CancelWorker, TypeOK, RetryRoom, Status, Terminal
  <2>3. CASE CancelConflicts(q)
    BY <2>3 DEF CancelConflicts, TypeOK, RetryRoom
  <2>4. CASE CancelTerminal(q)
    BY <2>4 DEF CancelTerminal, TypeOK, RetryRoom, Tell, Active
  <2>5. CASE SignalRun(q)
    BY <2>5 DEF SignalRun, TypeOK, RetryRoom, Tell, Active, Abort
  <2>6. QED
    BY <1>14, <2>1, <2>2, <2>3, <2>4, <2>5 DEF RequestStep
<1>15. ASSUME Crash PROVE TypeOK' /\ RetryRoom'
  <2>1. TypeOK'
    <3>1. pc' \in [Run -> PC] /\ reqPc' \in [Request -> {"idle", "approved", "signal", "done"}]
      BY <1>15 DEF Crash, TypeOK, PC
    <3>2. QED
      BY <1>15, <3>1 DEF Crash, TypeOK
  <2>2. \A r \in Run : pc'[r] = "set_failed" => pc[r] = "set_failed"
    BY <1>15 DEF Crash, TypeOK
  <2>3. RetryRoom'
    BY <1>15, <2>2 DEF Crash, RetryRoom
  <2>4. QED
    BY <2>1, <2>3
<1>16. CASE UNCHANGED vars
  BY <1>16 DEF vars, TypeOK, RetryRoom
<1>17. QED
  BY <1>1, <1>2, <1>3, <1>4, <1>5, <1>6, <1>7, <1>8, <1>9, <1>10, <1>11, <1>12, <1>13, <1>14,
     <1>15, <1>16 DEF Next, WorkerNext, RunStep

LEMMA TypesHold == Spec => [](TypeOK /\ RetryRoom)
<1>1. Init => TypeOK
  <2> SUFFICES ASSUME Init PROVE TypeOK
    OBVIOUS
  <2>1. attempt \in [Run -> 0..MaxRetries]
    BY WorkerLifecycleAssumption DEF Init
  <2>2. thrown \in [Run -> Thrown] /\ answer \in [Run -> {"none", "artifact"} \cup Thrown]
    BY DEF Init, Thrown
  <2>3. pc \in [Run -> PC] /\ status \in Status
    BY DEF Init, PC, Status
  <2>4. QED
    BY <2>1, <2>2, <2>3 DEF Init, TypeOK
<1>2. Init => RetryRoom
  BY DEF Init, RetryRoom
<1>3. QED
  BY <1>1, <1>2, TypesInductive, PTL DEF Spec

\* Every variable keeps its type; no run attempts more often than its configuration allows.
THEOREM TypeCorrect == Spec => []TypeOK
BY TypesHold, PTL

-----------------------------------------------------------------------------
\* The record under any overlap of runs

\* Why a waiting cancellation never meets a live worker, and why an approval that is out of
\* date cannot cancel: the request that has cancelled the worker holds the lock until it
\* has signalled, and every accepted transition moves the version past what was approved.
SignalHeld == \A q \in Request : reqPc[q] = "signal" => lock = q
LockMeansCancelled == lock # None => status = "cancelled"
SeenInPast ==
    \A q \in Request : reqPc[q] = "approved" =>
        seen[q] <= version /\ (changed[q] => seen[q] < version)
RecordInv == SignalHeld /\ LockMeansCancelled /\ PendingMeansCancelled /\ SeenInPast

\* A step that neither touches the record nor makes a cancellation wait.
Quiet ==
    /\ UNCHANGED <<status, version, changed, lock, reqPc, seen>>
    /\ pending' => pending

\* A step of a run that asks the store for a transition.
Transits(to, k) == SetStatus(to, k) /\ UNCHANGED <<lock, pending, reqPc, seen>>

\* A step of a run is one or the other.
LEMMA RunStepCases ==
    ASSUME NEW r \in Run, RunStep(r)
    PROVE  Quiet \/ \E to \in Status : Transits(to, DispatchKind(r))
<1> USE DEF recordVars, requestVars, Quiet
<1>1. CASE ResolveContext(r)
  BY <1>1 DEF ResolveContext
<1>2. CASE BeginAttempt(r)
  BY <1>2 DEF BeginAttempt
<1>3. CASE Prepare(r)
  BY <1>3 DEF Prepare
<1>4. CASE SetRunning(r)
  BY <1>4 DEF SetRunning, Transits, Status
<1>5. CASE CallModel(r)
  BY <1>5 DEF CallModel
<1>6. CASE ModelReturns(r)
  BY <1>6 DEF ModelReturns
<1>7. CASE Publish(r)
  BY <1>7 DEF Publish
<1>8. CASE StoreArtifact(r)
  BY <1>8 DEF StoreArtifact
<1>9. CASE Complete(r)
  BY <1>9 DEF Complete, Transits, Status, Terminal
<1>10. CASE Catch(r)
  BY <1>10 DEF Catch
<1>11. CASE SetFailed(r)
  BY <1>11 DEF SetFailed, Transits, Status, Terminal
<1>12. QED
  BY <1>1, <1>2, <1>3, <1>4, <1>5, <1>6, <1>7, <1>8, <1>9, <1>10, <1>11 DEF RunStep

\* A transition leaves a cancelled worker cancelled, and moves the version if it happens.
LEMMA TransitionEffect ==
    ASSUME TypeOK, NEW to, NEW k, SetStatus(to, k)
    PROVE  /\ lock = None
           /\ status = "cancelled" => status' = "cancelled"
           /\ \/ UNCHANGED <<status, version, changed>>
              \/ version' = version + 1
<1>1. status = "cancelled" => ~Accepts(to, k)
  BY DEF Accepts, Reopens, Terminal
<1>2. QED
  BY <1>1 DEF SetStatus, Bump

LEMMA RecordInductive == TypeOK /\ RecordInv /\ [Next]_vars => RecordInv'
<1> SUFFICES ASSUME TypeOK, RecordInv, [Next]_vars PROVE RecordInv'
  OBVIOUS
<1> USE WorkerLifecycleAssumption
<1>1. ASSUME Quiet PROVE RecordInv'
  BY <1>1 DEF Quiet, RecordInv, SignalHeld, LockMeansCancelled, PendingMeansCancelled, SeenInPast
<1>2. ASSUME NEW to, NEW k, Transits(to, k) PROVE RecordInv'
  <2>1. /\ lock = None
        /\ status = "cancelled" => status' = "cancelled"
        /\ \/ UNCHANGED <<status, version, changed>>
           \/ version' = version + 1
    BY <1>2, TransitionEffect DEF Transits
  <2>2. UNCHANGED <<lock, pending, reqPc, seen>>
    BY <1>2 DEF Transits
  <2>3. SignalHeld' /\ LockMeansCancelled' /\ PendingMeansCancelled'
    BY <2>1, <2>2 DEF RecordInv, SignalHeld, LockMeansCancelled, PendingMeansCancelled
  <2>4. SeenInPast'
    BY <2>1, <2>2 DEF RecordInv, SeenInPast, TypeOK
  <2>5. QED
    BY <2>3, <2>4 DEF RecordInv
<1>3. ASSUME NEW q \in Request, RequestStep(q) PROVE RecordInv'
  <2> USE DEF RecordInv, SignalHeld, LockMeansCancelled, PendingMeansCancelled, SeenInPast,
              TypeOK, recordVars, runVars, requestVars
  <2>1. CASE Preview(q)
    BY <2>1 DEF Preview
  <2>2. CASE CancelWorker(q)
    BY <2>2 DEF CancelWorker
  <2>3. CASE CancelConflicts(q)
    BY <2>3 DEF CancelConflicts
  <2>4. CASE CancelTerminal(q)
    BY <2>4 DEF CancelTerminal
  <2>5. CASE SignalRun(q)
    BY <2>5 DEF SignalRun
  <2>6. QED
    BY <1>3, <2>1, <2>2, <2>3, <2>4, <2>5 DEF RequestStep
<1>4. ASSUME Crash PROVE RecordInv'
  BY <1>4 DEF Crash, RecordInv, SignalHeld, LockMeansCancelled, PendingMeansCancelled,
              SeenInPast, recordVars, TypeOK
<1>5. ASSUME NEW r \in Run, RunStep(r) PROVE RecordInv'
  BY <1>1, <1>2, <1>5, RunStepCases
<1>6. ASSUME NEW r \in Run, NEW k, Dispatch(r, k) \/ Timeout(r) PROVE RecordInv'
  BY <1>1, <1>6 DEF Dispatch, Timeout, Quiet, recordVars, requestVars
<1>7. CASE UNCHANGED vars
  BY <1>1, <1>7 DEF vars, Quiet, recordVars, requestVars
<1>8. QED
  BY <1>3, <1>4, <1>5, <1>6, <1>7 DEF Next, WorkerNext

LEMMA RecordHolds == Spec => [](TypeOK /\ RetryRoom /\ RecordInv)
<1>1. Init => RecordInv
  BY DEF Init, RecordInv, SignalHeld, LockMeansCancelled, PendingMeansCancelled, SeenInPast
<1>2. QED
  BY <1>1, TypesHold, RecordInductive, PTL DEF Spec

\* A cancellation that waits for a controller belongs to a cancelled worker.
THEOREM PendingIsCancelled == Spec => []PendingMeansCancelled
BY RecordHolds, PTL DEF RecordInv

\* A cancelled worker stays cancelled: no late result, retry, review or crash reopens it.
THEOREM CancelledStays == Spec => CancelledIsFinal
<1>1. TypeOK /\ [Next]_vars => [status = "cancelled" => status' = "cancelled"]_vars
  <2> SUFFICES ASSUME TypeOK, Next, status = "cancelled" PROVE status' = "cancelled"
    BY DEF vars
  <2>1. ASSUME NEW r \in Run, RunStep(r) PROVE status' = "cancelled"
    BY <2>1, RunStepCases, TransitionEffect DEF Quiet, Transits
  <2>2. ASSUME NEW r \in Run, NEW k, Dispatch(r, k) \/ Timeout(r) PROVE status' = "cancelled"
    BY <2>2 DEF Dispatch, Timeout, recordVars
  <2>3. ASSUME NEW q \in Request, RequestStep(q) PROVE status' = "cancelled"
    BY <2>3 DEF RequestStep, Preview, CancelWorker, CancelConflicts, CancelTerminal, SignalRun,
                recordVars
  <2>4. ASSUME Crash PROVE status' = "cancelled"
    BY <2>4 DEF Crash, recordVars
  <2>5. QED
    BY <2>1, <2>2, <2>3, <2>4 DEF Next, WorkerNext
<1>2. QED
  BY <1>1, TypesHold, PTL DEF Spec, CancelledIsFinal

\* An approved cancellation takes effect only in the state that was approved.
THEOREM ApprovedIsFresh == Spec => ApprovedCancelIsFresh
<1> DEFINE Fresh ==
      \A q \in Request : reqPc[q] = "approved" /\ reqPc'[q] = "signal" => ~changed[q]
<1>1. TypeOK /\ RecordInv /\ [Next]_vars => [Fresh]_vars
  <2> SUFFICES ASSUME TypeOK, RecordInv, Next, NEW q \in Request,
                      reqPc[q] = "approved", reqPc'[q] = "signal"
               PROVE  ~changed[q]
    BY DEF vars
  <2>1. CancelWorker(q)
    <3>1. ASSUME NEW r \in Run, RunStep(r) PROVE FALSE
      BY <3>1, RunStepCases DEF Quiet, Transits
    <3>2. ASSUME NEW r \in Run, NEW k, Dispatch(r, k) \/ Timeout(r) PROVE FALSE
      BY <3>2 DEF Dispatch, Timeout, requestVars
    <3>3. ASSUME Crash PROVE FALSE
      BY <3>3 DEF Crash
    <3>4. ASSUME NEW p \in Request, RequestStep(p) PROVE CancelWorker(q)
      BY <3>4 DEF RequestStep, Preview, CancelWorker, CancelConflicts, CancelTerminal, SignalRun,
                  TypeOK
    <3>5. QED
      BY <3>1, <3>2, <3>3, <3>4 DEF Next, WorkerNext
  <2>2. seen[q] = version
    BY <2>1 DEF CancelWorker, Outdated
  <2>3. QED
    BY <2>2 DEF RecordInv, SeenInPast, TypeOK
<1>2. QED
  BY <1>1, RecordHolds, PTL DEF Spec, ApprovedCancelIsFresh

-----------------------------------------------------------------------------
\* Runs that follow one another

AfterRunning == {"messages", "model", "publish", "store", "complete"}
Handling == {"caught", "set_failed"}

\* With one run in progress at a time its controller is the registered one, so a
\* cancellation always reaches it.
OneAtATime ==
    /\ \A r, s \in Run : InProgress(r) /\ InProgress(s) => r = s
    /\ pc[Initial] = "idle" => \A r \in Run : pc[r] = "idle"
    /\ \A r \in Run : pc[r] \in Attempting => live = r

\* What a step of run r leaves alone when no other run is in progress.
LEMMA RunStepFrame ==
    ASSUME TypeOK, NEW r \in Run, RunStep(r)
    PROVE  /\ InProgress(r)
           /\ pc'[r] # "idle"
           /\ \A s \in Run \ {r} : pc'[s] = pc[s]
<1> USE DEF TypeOK, InProgress, Goto, CheckAborted
<1>1. CASE ResolveContext(r)
  BY <1>1 DEF ResolveContext
<1>2. CASE BeginAttempt(r)
  BY <1>2 DEF BeginAttempt
<1>3. CASE Prepare(r)
  BY <1>3 DEF Prepare
<1>4. CASE SetRunning(r)
  BY <1>4 DEF SetRunning
<1>5. CASE CallModel(r)
  BY <1>5 DEF CallModel
<1>6. CASE ModelReturns(r)
  BY <1>6 DEF ModelReturns
<1>7. CASE Publish(r)
  BY <1>7 DEF Publish
<1>8. CASE StoreArtifact(r)
  BY <1>8 DEF StoreArtifact
<1>9. CASE Complete(r)
  BY <1>9 DEF Complete
<1>10. CASE Catch(r)
  BY <1>10 DEF Catch
<1>11. CASE SetFailed(r)
  BY <1>11 DEF SetFailed
<1>12. QED
  BY <1>1, <1>2, <1>3, <1>4, <1>5, <1>6, <1>7, <1>8, <1>9, <1>10, <1>11 DEF RunStep

\* A run that is attempting after its step registered its controller, or keeps it.
LEMMA RunStepKeepsController ==
    ASSUME TypeOK, NEW r \in Run, RunStep(r), pc[r] \in Attempting => live = r
    PROVE  pc'[r] \in Attempting => live' = r
<1> USE DEF TypeOK, Attempting, Goto, CheckAborted
<1>1. CASE ResolveContext(r)
  BY <1>1 DEF ResolveContext
<1>2. CASE BeginAttempt(r)
  BY <1>2 DEF BeginAttempt
<1>3. CASE Prepare(r)
  BY <1>3 DEF Prepare
<1>4. CASE SetRunning(r)
  BY <1>4 DEF SetRunning
<1>5. CASE CallModel(r)
  BY <1>5 DEF CallModel
<1>6. CASE ModelReturns(r)
  BY <1>6 DEF ModelReturns
<1>7. CASE Publish(r)
  BY <1>7 DEF Publish
<1>8. CASE StoreArtifact(r)
  BY <1>8 DEF StoreArtifact
<1>9. CASE Complete(r)
  BY <1>9 DEF Complete
<1>10. CASE Catch(r)
  BY <1>10 DEF Catch
<1>11. CASE SetFailed(r)
  BY <1>11 DEF SetFailed
<1>12. QED
  BY <1>1, <1>2, <1>3, <1>4, <1>5, <1>6, <1>7, <1>8, <1>9, <1>10, <1>11 DEF RunStep

LEMMA OneAtATimeInductive ==
    TypeOK /\ ~overlapping /\ OneAtATime /\ [Next]_vars => OneAtATime'
<1> SUFFICES ASSUME TypeOK, ~overlapping, OneAtATime, [Next]_vars PROVE OneAtATime'
  OBVIOUS
<1> USE WorkerLifecycleAssumption
<1>1. ASSUME NEW r \in Run, RunStep(r) PROVE OneAtATime'
  <2>1. /\ InProgress(r)
        /\ pc'[r] # "idle"
        /\ \A s \in Run \ {r} : pc'[s] = pc[s]
    BY <1>1, RunStepFrame
  <2>2. \A s \in Run \ {r} : pc'[s] = pc[s] /\ ~InProgress(s)
    BY <2>1 DEF OneAtATime
  <2>3. pc'[r] \in Attempting => live' = r
    BY <1>1, RunStepKeepsController DEF OneAtATime
  <2>4. pc[Initial] # "idle"
    BY <2>1 DEF OneAtATime, InProgress
  <2>5. pc'[Initial] # "idle"
    BY <2>1, <2>4
  <2>6. \A s \in Run \ {r} : pc'[s] \notin Attempting
    BY <2>2 DEF InProgress, Attempting
  <2>7. QED
    BY <2>2, <2>3, <2>5, <2>6 DEF OneAtATime, InProgress
<1>2. ASSUME NEW r \in Run, NEW k, Dispatch(r, k) PROVE OneAtATime'
  <2>1. \A s \in Run : ~InProgress(s)
    BY <1>2 DEF Dispatch, OneAtATime, InProgress
  <2>2. pc' = [pc EXCEPT ![r] = "context"] /\ live' = live
    BY <1>2 DEF Dispatch, Goto
  <2>3. r # Initial => pc[Initial] # "idle"
    BY <1>2 DEF Dispatch
  <2>4. QED
    BY <2>1, <2>2, <2>3 DEF OneAtATime, InProgress, Attempting, TypeOK
<1>3. ASSUME UNCHANGED <<pc, live>> PROVE OneAtATime'
  BY <1>3 DEF OneAtATime, InProgress
<1>4. ASSUME NEW q \in Request, RequestStep(q) PROVE OneAtATime'
  BY <1>3, <1>4 DEF RequestStep, Preview, CancelWorker, CancelConflicts, CancelTerminal, SignalRun,
                    runVars
<1>5. ASSUME Crash PROVE OneAtATime'
  BY <1>5 DEF Crash, OneAtATime, InProgress, Attempting, TypeOK
<1>6. ASSUME NEW r \in Run, Timeout(r) PROVE OneAtATime'
  BY <1>3, <1>6 DEF Timeout
<1>7. CASE UNCHANGED vars
  BY <1>3, <1>7 DEF vars, runVars
<1>8. QED
  BY <1>1, <1>2, <1>4, <1>5, <1>6, <1>7 DEF Next, WorkerNext

\* What a run has to know of its own signal: it goes on only in a worker that is not
\* cancelled, and reports an interruption only to a record that is already terminal.
ReachedBy(r) ==
    /\ pc[r] \in AfterRunning /\ signal[r] = "none" /\ status = "cancelled" => lock # None
    /\ pc[r] \in Attempting /\ signal[r] = "cancelled" =>
          status = "cancelled" \/ (status \in Terminal /\ pc[r] \in Handling)
    /\ pc[r] = "caught" => thrown[r] \in {"retryable", "fatal", "generic"}
    /\ pc[r] = "set_failed" /\ thrown[r] = "interrupted" => signal[r] = "cancelled"

LEMMA RunStepReached ==
    ASSUME TypeOK, RecordInv, NEW r \in Run, ReachedBy(r), RunStep(r)
    PROVE  ReachedBy(r)'
<1> USE DEF TypeOK, ReachedBy, Goto, CheckAborted, AfterRunning, Handling, Attempting, recordVars
<1>1. CASE ResolveContext(r)
  BY <1>1 DEF ResolveContext
<1>2. CASE BeginAttempt(r)
  BY <1>2 DEF BeginAttempt, RecordInv, PendingMeansCancelled
<1>3. CASE Prepare(r)
  BY <1>3 DEF Prepare
<1>4. CASE SetRunning(r)
  <2>1. /\ lock = None
        /\ status = "cancelled" => status' = "cancelled"
    BY <1>4, TransitionEffect DEF SetRunning
  <2>2. CASE status' = "running"
    BY <1>4, <2>1, <2>2 DEF SetRunning, Terminal
  <2>3. CASE status' # "running"
    <3>1. status' = status /\ status \in Terminal
      BY <1>4, <2>3 DEF SetRunning, SetStatus, Accepts
    <3>2. pc'[r] = "caught" /\ thrown'[r] = "generic"
      BY <1>4, <2>3 DEF SetRunning
    <3>3. QED
      BY <3>1, <3>2
  <2>4. QED
    BY <2>2, <2>3
<1>5. CASE CallModel(r)
  BY <1>5 DEF CallModel
<1>6. CASE ModelReturns(r)
  BY <1>6 DEF ModelReturns
<1>7. CASE Publish(r)
  BY <1>7 DEF Publish
<1>8. CASE StoreArtifact(r)
  BY <1>8 DEF StoreArtifact
<1>9. CASE Complete(r)
  <2>1. /\ lock = None
        /\ status = "cancelled" => status' = "cancelled"
    BY <1>9, TransitionEffect DEF Complete
  <2>2. signal' = signal
    BY <1>9 DEF Complete
  <2>3. CASE status' = "completed"
    BY <1>9, <2>3 DEF Complete
  <2>4. CASE status' # "completed"
    BY <1>9, <2>1, <2>2, <2>4 DEF Complete, Terminal
  <2>5. QED
    BY <2>3, <2>4
<1>10. CASE Catch(r)
  <2>1. thrown'[r] = "interrupted" => signal[r] = "cancelled"
    BY <1>10 DEF Catch, WorkerErrorType
  <2>2. QED
    BY <1>10, <2>1 DEF Catch
<1>11. CASE SetFailed(r)
  BY <1>11 DEF SetFailed
<1>12. QED
  BY <1>1, <1>2, <1>3, <1>4, <1>5, <1>6, <1>7, <1>8, <1>9, <1>10, <1>11 DEF RunStep

\* A run that is not in progress has nothing to know.
LEMMA IdleReached ==
    ASSUME NEW r \in Run, ~InProgress(r)
    PROVE  ReachedBy(r)
BY DEF InProgress, ReachedBy, AfterRunning, Attempting

LEMMA ReachedInductive ==
    /\ TypeOK /\ RecordInv /\ OneAtATime /\ (\A r \in Run : ReachedBy(r)) /\ [Next]_vars
    => (\A r \in Run : ReachedBy(r))'
<1> SUFFICES ASSUME TypeOK, RecordInv, OneAtATime, \A r \in Run : ReachedBy(r), [Next]_vars
             PROVE  (\A r \in Run : ReachedBy(r))'
  OBVIOUS
<1> USE WorkerLifecycleAssumption
<1>1. ASSUME NEW r \in Run, RunStep(r) PROVE (\A s \in Run : ReachedBy(s))'
  <2>1. ReachedBy(r)'
    BY <1>1, RunStepReached
  <2>2. \A s \in Run \ {r} : pc'[s] = pc[s] /\ ~InProgress(s)
    BY <1>1, RunStepFrame DEF OneAtATime
  <2>3. \A s \in Run \ {r} : ReachedBy(s)'
    BY <2>2 DEF InProgress, ReachedBy, AfterRunning, Attempting
  <2>4. QED
    BY <2>1, <2>3
<1>2. ASSUME NEW r \in Run, NEW k, Dispatch(r, k) PROVE (\A s \in Run : ReachedBy(s))'
  <2>1. pc' = [pc EXCEPT ![r] = "context"] /\ UNCHANGED <<signal, status, lock, thrown>>
    BY <1>2 DEF Dispatch, Goto, recordVars
  <2>2. QED
    BY <2>1 DEF ReachedBy, AfterRunning, Attempting, TypeOK
<1>3. ASSUME NEW r \in Run, Timeout(r) PROVE (\A s \in Run : ReachedBy(s))'
  <2>1. signal' = [signal EXCEPT ![r] = "timeout"] /\ UNCHANGED <<pc, status, lock, thrown>>
    BY <1>3 DEF Timeout, Abort, recordVars
  <2>2. signal[r] = "none"
    BY <1>3 DEF Timeout
  <2>3. QED
    BY <2>1, <2>2 DEF ReachedBy, TypeOK
<1>4. ASSUME NEW q \in Request, RequestStep(q) PROVE (\A s \in Run : ReachedBy(s))'
  <2> USE DEF ReachedBy, recordVars, runVars, Terminal
  <2>1. CASE Preview(q)
    BY <2>1 DEF Preview
  <2>2. CASE CancelWorker(q)
    BY <2>2 DEF CancelWorker
  <2>3. CASE CancelConflicts(q)
    BY <2>3 DEF CancelConflicts
  <2>4. CASE CancelTerminal(q)
    BY <2>4 DEF CancelTerminal
  <2>5. CASE SignalRun(q)
    <3>1. status = "cancelled" /\ UNCHANGED <<pc, thrown, status>>
      BY <2>5 DEF SignalRun, RecordInv, SignalHeld, LockMeansCancelled
    <3>2. \A s \in Run : pc[s] \in AfterRunning => live = s
      BY DEF OneAtATime, AfterRunning, Attempting
    <3>3. \A s \in Run : pc[s] \in AfterRunning => signal'[s] # "none"
      BY <2>5, <3>2 DEF SignalRun, Abort, TypeOK
    <3>4. \A s \in Run : pc[s] = "set_failed" /\ signal[s] = "cancelled" => signal'[s] = "cancelled"
      BY <2>5 DEF SignalRun, Abort, TypeOK
    <3>5. QED
      BY <3>1, <3>3, <3>4
  <2>6. QED
    BY <1>4, <2>1, <2>2, <2>3, <2>4, <2>5 DEF RequestStep
<1>5. ASSUME Crash PROVE (\A s \in Run : ReachedBy(s))'
  <2>1. \A s \in Run : pc'[s] \in {"idle", "done"}
    BY <1>5 DEF Crash, InProgress, TypeOK
  <2>2. QED
    BY <2>1 DEF ReachedBy, AfterRunning, Attempting
<1>6. CASE UNCHANGED vars
  BY <1>6 DEF vars, recordVars, runVars, ReachedBy
<1>7. QED
  BY <1>1, <1>2, <1>3, <1>4, <1>5, <1>6 DEF Next, WorkerNext

\* What holds of runs that follow one another.
Sequential == ~overlapping => OneAtATime /\ \A r \in Run : ReachedBy(r)

LEMMA SequentialHolds == Spec => [](TypeOK /\ RecordInv /\ Sequential)
<1>1. Init => Sequential
  BY DEF Init, Sequential, OneAtATime, ReachedBy, InProgress, Attempting, AfterRunning
<1>2. TypeOK /\ RecordInv /\ Sequential /\ [Next]_vars => Sequential'
  <2> SUFFICES ASSUME TypeOK, RecordInv, Sequential, [Next]_vars, ~overlapping'
               PROVE  OneAtATime' /\ (\A r \in Run : ReachedBy(r))'
    BY DEF Sequential
  <2>1. ~overlapping
    BY DEF Next, vars
  <2>2. QED
    BY <2>1, OneAtATimeInductive, ReachedInductive DEF Sequential
<1>3. QED
  BY <1>1, <1>2, RecordHolds, PTL DEF Spec

\* While runs follow one another, a worker becomes cancelled by a request only.
THEOREM RequestsCancel == Spec => OnlyRequestsCancel
<1>1. TypeOK /\ RecordInv /\ Sequential /\ [Next]_vars => [~overlapping => CancelsByRequest]_vars
  <2> SUFFICES ASSUME TypeOK, RecordInv, \A r \in Run : ReachedBy(r), Next,
                      status # "cancelled", status' = "cancelled"
               PROVE  lock' \in Request
    BY DEF CancelsByRequest, Sequential
  <2>1. ASSUME NEW r \in Run, RunStep(r) PROVE FALSE
    <3>1. ASSUME NEW to, NEW k, SetStatus(to, k), to # "cancelled" PROVE FALSE
      BY <3>1 DEF SetStatus
    <3>2. ~SetRunning(r) /\ ~Complete(r)
      BY <3>1 DEF SetRunning, Complete
    <3>3. ~SetFailed(r)
      <4>1. SUFFICES ASSUME SetFailed(r) PROVE FALSE
        OBVIOUS
      <4>2. SetStatus("cancelled", DispatchKind(r)) /\ thrown[r] = "interrupted" /\ pc[r] = "set_failed"
        BY <4>1, <3>1 DEF SetFailed
      <4>3. status \in Terminal
        BY <4>2 DEF ReachedBy, Attempting, Terminal
      <4>4. QED
        BY <4>2, <4>3 DEF SetStatus, Accepts, Reopens
    <3>4. QED
      BY <2>1, <3>2, <3>3 DEF RunStep, ResolveContext, BeginAttempt, Prepare, CallModel,
         ModelReturns, Publish, StoreArtifact, Catch, recordVars
  <2>2. ASSUME NEW r \in Run, NEW k, Dispatch(r, k) \/ Timeout(r) PROVE FALSE
    BY <2>2 DEF Dispatch, Timeout, recordVars
  <2>3. ASSUME Crash PROVE FALSE
    BY <2>3 DEF Crash, recordVars
  <2>4. ASSUME NEW q \in Request, RequestStep(q) PROVE lock' \in Request
    BY <2>4 DEF RequestStep, Preview, CancelWorker, CancelConflicts, CancelTerminal, SignalRun,
                recordVars
  <2>5. QED
    BY <2>1, <2>2, <2>3, <2>4 DEF Next, WorkerNext
<1>2. QED
  BY <1>1, SequentialHolds, PTL DEF Spec, OnlyRequestsCancel

\* While runs follow one another, a cancelled worker calls no model.
THEOREM CancelledIsSilent == Spec => CancelledInvokesNoModel
<1>1. TypeOK /\ Sequential /\ [Next]_vars => [~overlapping => ModelCalledUncancelled]_vars
  <2> SUFFICES ASSUME TypeOK, \A r \in Run : ReachedBy(r), Next, NEW r \in Run,
                      pc[r] = "messages", pc'[r] = "model"
               PROVE  status # "cancelled"
    BY DEF ModelCalledUncancelled, Sequential
  <2>1. CASE \E s \in Run : RunStep(s)
    <3>1. PICK s \in Run : RunStep(s)
      BY <2>1
    <3>2. r = s
      BY <3>1, RunStepFrame
    <3>3. CallModel(r)
      BY <3>1, <3>2 DEF RunStep, ResolveContext, BeginAttempt, Prepare, SetRunning, ModelReturns,
                        Publish, StoreArtifact, Complete, Catch, SetFailed
    <3>4. lock = None /\ signal[r] = "none"
      BY <3>3 DEF CallModel, CheckAborted, Goto, TypeOK
    <3>5. QED
      BY <3>4 DEF ReachedBy, AfterRunning
  <2>2. CASE \E s \in Run : Timeout(s) \/ \E k \in {"initial", "revise", "retry"} : Dispatch(s, k)
    BY <2>2 DEF Timeout, Dispatch, Goto, TypeOK
  <2>3. CASE \E q \in Request : RequestStep(q)
    BY <2>3 DEF RequestStep, Preview, CancelWorker, CancelConflicts, CancelTerminal, SignalRun, runVars
  <2>4. CASE Crash
    BY <2>4 DEF Crash, TypeOK
  <2>5. QED
    BY <2>1, <2>2, <2>3, <2>4 DEF Next, WorkerNext
<1>2. QED
  BY <1>1, SequentialHolds, PTL DEF Spec, CancelledInvokesNoModel

-----------------------------------------------------------------------------
\* What a run returns

\* A run answers where it completes its worker or records the error, and nowhere else.
LEMMA AnswersAtEnd ==
    ASSUME TypeOK, NEW r \in Run, RunStep(r), answer' # answer
    PROVE  Complete(r) \/ SetFailed(r)
BY DEF RunStep, ResolveContext, BeginAttempt, Prepare, SetRunning, CallModel, ModelReturns, Publish,
       StoreArtifact, Catch

\* What a run returns agrees with the record: an artifact only for a completed worker, and
\* anything only once the worker is completed, failed or cancelled.
THEOREM AnswerMatchesRecord == Spec => RecordMatchesAnswer
<1> DEFINE Matches ==
      \A r \in Run : answer[r] = "none" /\ answer'[r] # "none" =>
        /\ answer'[r] = "artifact" => status' = "completed"
        /\ status' \in Terminal
<1>1. TypeOK /\ [Next]_vars => [Matches]_vars
  <2> SUFFICES ASSUME TypeOK, Next, NEW r \in Run, answer[r] = "none", answer'[r] # "none"
               PROVE  /\ answer'[r] = "artifact" => status' = "completed"
                      /\ status' \in Terminal
    BY DEF vars
  <2>1. PICK s \in Run : RunStep(s)
    <3>1. answer' # answer
      OBVIOUS
    <3>2. ASSUME NEW s \in Run, NEW k, Dispatch(s, k) \/ Timeout(s) PROVE FALSE
      BY <3>1, <3>2 DEF Dispatch, Timeout
    <3>3. ASSUME NEW q \in Request, RequestStep(q) PROVE FALSE
      BY <3>1, <3>3 DEF RequestStep, Preview, CancelWorker, CancelConflicts, CancelTerminal,
                        SignalRun, runVars
    <3>4. ~Crash
      BY <3>1 DEF Crash
    <3>5. QED
      BY <3>2, <3>3, <3>4 DEF Next, WorkerNext
  <2>2. CASE Complete(s)
    <3>1. status' = "completed"
      BY <2>2 DEF Complete
    <3>2. QED
      BY <3>1 DEF Terminal
  <2>3. CASE SetFailed(s)
    <3>1. answer'[r] = thrown[s]
      BY <2>3 DEF SetFailed, TypeOK
    <3>2. answer'[r] # "artifact"
      BY <3>1 DEF TypeOK, Thrown
    <3>3. PICK to \in {"cancelled", "failed"} : SetStatus(to, DispatchKind(s))
      BY <2>3 DEF SetFailed
    <3>4. status' \in Terminal
      BY <3>3 DEF SetStatus, Accepts, Terminal
    <3>5. QED
      BY <3>2, <3>4
  <2>4. QED
    BY <2>1, <2>2, <2>3, AnswersAtEnd
<1>2. QED
  BY <1>1, TypesHold, PTL DEF Spec, RecordMatchesAnswer

-----------------------------------------------------------------------------
\* The budget of reviews

Spent == retries + revisions

\* What the attempt run r is about to start adds to the count: the first of the initial run
\* adds nothing.
Cost(r) == IF DispatchKind(r) = "initial" THEN 0 ELSE 1

\* What the count may have come to when r was dispatched; the initial run comes first.
Allowance(r) == IF r = Initial THEN 0 ELSE MaxReviews

\* An attempt counts once the store has set it running.
NotCounted == {"context", "begin", "prepare", "set_running"}

Covered(r) ==
    IF pc[r] \in NotCounted THEN Spent + Cost(r) <= Allowance(r) + attempt[r]
                            ELSE Spent <= Allowance(r) + attempt[r]

\* Why the budget holds although it is looked at only when a review is dispatched: the run in
\* progress was within it then, and has since added one for itself and one for each retry.
BudgetInv ==
    /\ \A r \in Run : InProgress(r) => Covered(r)
    /\ \A r \in Run : pc[r] = "idle" => attempt[r] = 0
    /\ \A r \in Run : InProgress(r) => (kind[r] = "initial" <=> r = Initial)
    /\ pc[Initial] = "idle" => Spent = 0
    /\ Spent <= MaxReviews + MaxRetries

\* What a step of run r does to the count.
Counts(r) ==
    /\ kind' = kind
    /\ \A s \in Run \ {r} : attempt'[s] = attempt[s]
    /\ \/ /\ pc[r] = "set_running" /\ pc'[r] \notin NotCounted
          /\ Spent' <= Spent + Cost(r) /\ attempt'[r] = attempt[r]
       \/ /\ pc[r] = "set_failed" /\ pc'[r] = "begin"
          /\ Spent' = Spent /\ attempt'[r] = attempt[r] + 1
       \/ /\ pc'[r] \in NotCounted => pc[r] \in NotCounted
          /\ Spent' = Spent /\ attempt'[r] = attempt[r]

LEMMA SpentNat ==
    ASSUME TypeOK, TypeOK'
    PROVE  Spent \in Nat /\ Spent' \in Nat
<1>1. \A a, b \in Nat : a + b \in Nat
  OBVIOUS
<1>2. retries \in Nat /\ revisions \in Nat /\ retries' \in Nat /\ revisions' \in Nat
  BY DEF TypeOK
<1>3. Spent = retries + revisions /\ Spent' = retries' + revisions'
  BY DEF Spent
<1>4. QED
  BY <1>1, <1>2, <1>3, Zenon

\* Only a transition to "running" counts.
LEMMA OnlyRunningCounts ==
    ASSUME TypeOK, NEW to, NEW k, SetStatus(to, k)
    PROVE  /\ to # "running" => Spent' = Spent
           /\ k = "initial" => Spent' = Spent
           /\ Spent' \in {Spent, Spent + 1}
<1>1. CASE Accepts(to, k)
  <2>1. /\ retries' = IF to = "running" /\ k = "retry" THEN retries + 1 ELSE retries
        /\ revisions' = IF to = "running" /\ k = "revise" THEN revisions + 1 ELSE revisions
    BY <1>1 DEF SetStatus
  <2>2. QED
    BY <2>1 DEF TypeOK, Spent
<1>2. CASE ~Accepts(to, k)
  BY <1>2 DEF SetStatus, Spent
<1>3. QED
  BY <1>1, <1>2

LEMMA RunStepCounts ==
    ASSUME TypeOK, NEW r \in Run, RunStep(r)
    PROVE  Counts(r)
<1> USE DEF TypeOK, Goto, CheckAborted, Counts, NotCounted, Spent, recordVars
<1>1. CASE ResolveContext(r)
  BY <1>1 DEF ResolveContext
<1>2. CASE BeginAttempt(r)
  BY <1>2 DEF BeginAttempt
<1>3. CASE Prepare(r)
  BY <1>3 DEF Prepare
<1>4. CASE SetRunning(r)
  <2>1. /\ DispatchKind(r) = "initial" => Spent' = Spent
        /\ Spent' \in {Spent, Spent + 1}
    BY <1>4, OnlyRunningCounts DEF SetRunning
  <2>2. Spent' <= Spent + Cost(r)
    BY <2>1 DEF Cost
  <2>3. pc[r] = "set_running" /\ pc'[r] \in {"messages", "caught"} /\ UNCHANGED <<kind, attempt>>
    BY <1>4 DEF SetRunning
  <2>4. QED
    BY <2>2, <2>3
<1>5. CASE CallModel(r)
  BY <1>5 DEF CallModel
<1>6. CASE ModelReturns(r)
  BY <1>6 DEF ModelReturns
<1>7. CASE Publish(r)
  BY <1>7 DEF Publish
<1>8. CASE StoreArtifact(r)
  BY <1>8 DEF StoreArtifact
<1>9. CASE Complete(r)
  <2>1. Spent' = Spent
    BY <1>9, OnlyRunningCounts DEF Complete
  <2>2. pc'[r] \in {"done", "caught"} /\ UNCHANGED <<kind, attempt>>
    BY <1>9 DEF Complete
  <2>3. QED
    BY <2>1, <2>2
<1>10. CASE Catch(r)
  BY <1>10 DEF Catch
<1>11. CASE SetFailed(r)
  <2>1. PICK to \in {"cancelled", "failed"} : SetStatus(to, DispatchKind(r))
    BY <1>11 DEF SetFailed
  <2>2. Spent' = Spent
    BY <2>1, OnlyRunningCounts
  <2>3. kind' = kind /\ pc[r] = "set_failed"
    BY <1>11 DEF SetFailed
  <2>4. CASE again[r]
    <3>1. pc'[r] = "begin" /\ attempt' = [attempt EXCEPT ![r] = @ + 1]
      BY <1>11, <2>4 DEF SetFailed
    <3>2. QED
      BY <2>2, <2>3, <3>1
  <2>5. CASE ~again[r]
    <3>1. pc'[r] = "done" /\ attempt' = attempt
      BY <1>11, <2>5 DEF SetFailed
    <3>2. QED
      BY <2>2, <2>3, <3>1
  <2>6. QED
    BY <2>4, <2>5
<1>12. QED
  BY <1>1, <1>2, <1>3, <1>4, <1>5, <1>6, <1>7, <1>8, <1>9, <1>10, <1>11 DEF RunStep

\* The run that takes a step stays within its allowance.
LEMMA RunStaysCovered ==
    ASSUME TypeOK, NEW r \in Run, Counts(r), Covered(r), TypeOK'
    PROVE  Covered(r)'
<1> USE WorkerLifecycleAssumption
<1>1. /\ Spent \in Nat /\ Spent' \in Nat /\ attempt[r] \in Nat /\ attempt'[r] \in Nat
      /\ Allowance(r) \in Nat /\ Allowance(r)' = Allowance(r)
      /\ Cost(r) \in {0, 1} /\ Cost(r)' \in {0, 1}
  <2>1. Spent \in Nat /\ Spent' \in Nat
    BY SpentNat
  <2>2. attempt[r] \in 0..MaxRetries /\ attempt'[r] \in 0..MaxRetries
    BY DEF TypeOK
  <2>3. Cost(r) \in {0, 1} /\ Cost(r)' \in {0, 1}
    BY DEF Cost
  <2>4. Allowance(r) \in Nat /\ Allowance(r)' = Allowance(r)
    BY DEF Allowance
  <2>5. QED
    BY <2>1, <2>2, <2>3, <2>4
<1>2. kind' = kind
  BY DEF Counts
<1>3. CASE pc[r] = "set_running" /\ pc'[r] \notin NotCounted /\ Spent' <= Spent + Cost(r)
           /\ attempt'[r] = attempt[r]
  BY <1>1, <1>3 DEF Covered, NotCounted
<1>4. CASE pc[r] = "set_failed" /\ pc'[r] = "begin" /\ Spent' = Spent /\ attempt'[r] = attempt[r] + 1
  BY <1>1, <1>4 DEF Covered, NotCounted
<1>5. CASE (pc'[r] \in NotCounted => pc[r] \in NotCounted) /\ Spent' = Spent
           /\ attempt'[r] = attempt[r]
  <2>1. Cost(r)' = Cost(r)
    BY <1>2, <1>5 DEF Cost, DispatchKind
  <2>2. QED
    BY <1>1, <1>5, <2>1 DEF Covered
<1>6. QED
  BY <1>3, <1>4, <1>5 DEF Counts

LEMMA BudgetInductive ==
    TypeOK /\ TypeOK' /\ ~overlapping /\ OneAtATime /\ BudgetInv /\ [Next]_vars => BudgetInv'
<1> SUFFICES ASSUME TypeOK, TypeOK', ~overlapping, OneAtATime, BudgetInv, [Next]_vars
             PROVE  BudgetInv'
  OBVIOUS
<1> USE WorkerLifecycleAssumption
<1>0. Spent \in Nat /\ Spent' \in Nat
  BY SpentNat
<1>1. ASSUME NEW r \in Run, RunStep(r) PROVE BudgetInv'
  <2>1. /\ InProgress(r)
        /\ pc'[r] # "idle"
        /\ \A s \in Run \ {r} : pc'[s] = pc[s] /\ ~InProgress(s)
    BY <1>1, RunStepFrame DEF OneAtATime
  <2>2. Counts(r) /\ Covered(r)
    BY <1>1, <2>1, RunStepCounts DEF BudgetInv
  <2>3. Covered(r)'
    BY <2>2, RunStaysCovered
  <2>4. \A s \in Run : InProgress(s)' => Covered(s)'
    BY <2>1, <2>3 DEF InProgress
  <2>5. \A s \in Run : pc'[s] = "idle" => attempt'[s] = 0
    BY <2>1, <2>2 DEF BudgetInv, Counts
  <2>6. \A s \in Run : InProgress(s)' => (kind'[s] = "initial" <=> s = Initial)
    BY <2>1, <2>2 DEF BudgetInv, Counts, InProgress
  <2>7. pc'[Initial] # "idle"
    BY <2>1 DEF OneAtATime, InProgress
  <2>8. Spent' <= MaxReviews + MaxRetries
    <3>1. Spent' <= Allowance(r) + attempt'[r]
      <4>1. Cost(r)' \in {0, 1}
        BY DEF Cost
      <4>2. Allowance(r)' = Allowance(r) /\ Allowance(r) \in Nat /\ attempt'[r] \in 0..MaxRetries
        BY DEF Allowance, TypeOK
      <4>3. QED
        BY <1>0, <2>3, <4>1, <4>2 DEF Covered
    <3>2. Allowance(r) \in 0..MaxReviews /\ attempt'[r] \in 0..MaxRetries
      BY DEF Allowance, TypeOK
    <3>3. QED
      BY <1>0, <3>1, <3>2
  <2>9. QED
    BY <2>4, <2>5, <2>6, <2>7, <2>8 DEF BudgetInv
<1>2. ASSUME NEW r \in Run, NEW k, Dispatch(r, k) PROVE BudgetInv'
  <2>1. \A s \in Run : ~InProgress(s)
    BY <1>2 DEF Dispatch, OneAtATime, InProgress
  <2>2. /\ pc' = [pc EXCEPT ![r] = "context"] /\ kind' = [kind EXCEPT ![r] = k]
        /\ UNCHANGED <<attempt, retries, revisions>>
        /\ pc[r] = "idle" /\ (k = "initial" <=> r = Initial)
    BY <1>2 DEF Dispatch, Goto, recordVars
  <2>3. Spent' = Spent
    BY <2>2 DEF Spent
  <2>4. pc'[r] = "context" /\ kind'[r] = k /\ attempt'[r] = 0
    BY <2>2 DEF TypeOK, BudgetInv
  <2>5. \A s \in Run \ {r} : pc'[s] = pc[s] /\ kind'[s] = kind[s]
    BY <2>2 DEF TypeOK
  <2>6. Spent + Cost(r)' <= Allowance(r)
    <3>1. CASE r = Initial
      <4>1. Cost(r)' = 0
        BY <2>2, <2>4, <3>1 DEF Cost, DispatchKind
      <4>2. Spent = 0
        BY <2>2, <3>1 DEF BudgetInv
      <4>3. QED
        BY <3>1, <4>1, <4>2 DEF Allowance
    <3>2. CASE r # Initial
      <4>1. Spent < MaxReviews
        BY <1>2, <3>2 DEF Dispatch, WithinBudget, Spent
      <4>2. Cost(r)' \in {0, 1}
        BY DEF Cost
      <4>3. QED
        BY <1>0, <3>2, <4>1, <4>2 DEF Allowance
    <3>3. QED
      BY <3>1, <3>2
  <2>7. Covered(r)'
    <3>1. Cost(r)' \in {0, 1} /\ Allowance(r)' = Allowance(r) /\ Allowance(r) \in Nat
      BY DEF Cost, Allowance
    <3>2. QED
      BY <1>0, <2>3, <2>4, <2>6, <3>1 DEF Covered, NotCounted
  <2>8. \A s \in Run : InProgress(s)' => s = r
    BY <2>1, <2>5 DEF InProgress
  <2>9. \A s \in Run : pc'[s] = "idle" => attempt'[s] = 0
    BY <2>2, <2>4, <2>5 DEF BudgetInv
  <2>10. pc'[Initial] = "idle" => Spent' = 0
    BY <2>3, <2>4, <2>5 DEF BudgetInv
  <2>11. Spent' <= MaxReviews + MaxRetries
    BY <2>3 DEF BudgetInv
  <2>12. QED
    BY <2>2, <2>4, <2>7, <2>8, <2>9, <2>10, <2>11 DEF BudgetInv
<1>3. ASSUME UNCHANGED <<retries, revisions, pc, kind, attempt>> PROVE BudgetInv'
  BY <1>3 DEF BudgetInv, Covered, Spent, Cost, DispatchKind, Allowance, InProgress
<1>4. ASSUME NEW q \in Request, RequestStep(q) PROVE BudgetInv'
  BY <1>3, <1>4 DEF RequestStep, Preview, CancelWorker, CancelConflicts, CancelTerminal, SignalRun,
                    runVars, recordVars
<1>5. ASSUME Crash PROVE BudgetInv'
  <2>1. \A s \in Run : pc'[s] \in {"idle", "done"} /\ (pc'[s] = "idle" => pc[s] = "idle")
    BY <1>5 DEF Crash, InProgress, TypeOK
  <2>2. attempt' = attempt /\ Spent' = Spent
    BY <1>5 DEF Crash, recordVars, Spent
  <2>3. QED
    BY <2>1, <2>2 DEF BudgetInv, InProgress
<1>6. ASSUME NEW r \in Run, Timeout(r) PROVE BudgetInv'
  BY <1>3, <1>6 DEF Timeout, recordVars
<1>7. CASE UNCHANGED vars
  BY <1>3, <1>7 DEF vars, runVars, recordVars
<1>8. QED
  BY <1>1, <1>2, <1>4, <1>5, <1>6, <1>7 DEF Next, WorkerNext

\* While runs follow one another, reviews and their automatic retries stay within both limits.
THEOREM ReviewsAreBounded == Spec => []ReviewBudget
<1> DEFINE Budgeted == ~overlapping => BudgetInv
<1>1. Init => Budgeted
  BY WorkerLifecycleAssumption DEF Init, BudgetInv, InProgress, Spent
<1>2. TypeOK /\ TypeOK' /\ Sequential /\ Budgeted /\ [Next]_vars => Budgeted'
  <2> SUFFICES ASSUME TypeOK, TypeOK', Sequential, Budgeted, [Next]_vars, ~overlapping'
               PROVE  BudgetInv'
    OBVIOUS
  <2>1. ~overlapping
    BY DEF Next, vars
  <2>2. QED
    BY <2>1, BudgetInductive DEF Sequential
<1>3. Budgeted => ReviewBudget
  BY DEF BudgetInv, ReviewBudget, Spent
<1>4. QED
  BY <1>1, <1>2, <1>3, SequentialHolds, PTL DEF Spec

-----------------------------------------------------------------------------
(* The code index.                                                         *)

\* A set of numbers has a least one.
LEMMA LeastIn == ASSUME NEW S, S \subseteq Nat, S # {}
    PROVE  Index!Least(S) \in S /\ \A g \in S : Index!Least(S) <= g
<1>1. PICK x \in S : \A y \in S : ~(<<y, x>> \in OpToRel(<, Nat))
  BY NatLessThanWellFounded, WFMin
<1>2. \A y \in S : x <= y
  <2> SUFFICES ASSUME NEW y \in S, ~(x <= y) PROVE FALSE
    OBVIOUS
  <2>1. x \in Nat /\ y \in Nat /\ y < x
    OBVIOUS
  <2>2. <<y, x>> \in OpToRel(<, Nat)
    BY <2>1 DEF OpToRel
  <2> QED
    BY <1>1, <2>2
<1> QED
  BY <1>2 DEF Index!Least

-----------------------------------------------------------------------------
(* Lists and pages.                                                        *)

IsList(s) == Len(s) \in Nat /\ s = [i \in 1..Len(s) |-> s[i]]

LEMMA SameCardinality == \A S : Index!Cardinality(S) = Cardinality(S)
  BY DEF Index!Cardinality, Cardinality

LEMMA ListedIsList == ASSUME IsFiniteSet(File), NEW items PROVE IsList(Index!Listed(items))
<1> DEFINE there == {f \in File : items[f] # 0}
<1>1. Cardinality(there) \in Nat
  BY FS_Subset, FS_CardinalityType
<1>2. Index!Listed(items) = [n \in 1..Cardinality(there) |-> <<Index!NthFile(there, n), items[Index!NthFile(there, n)]>>]
  BY SameCardinality DEF Index!Listed
<1> HIDE DEF there
<1>3. Len(Index!Listed(items)) = Cardinality(there)
  BY <1>1, <1>2
<1> QED
  BY <1>1, <1>2, <1>3 DEF IsList

\* A part of a list, and the part that follows it.
LEMMA ListGrows ==
    ASSUME NEW s, IsList(s), NEW m \in 0..Len(s), NEW n \in m..Len(s)
    PROVE  /\ SubSeq(s, 1, m) \o SubSeq(s, m + 1, n) = SubSeq(s, 1, n)
           /\ Len(SubSeq(s, 1, n)) = n
           /\ SubSeq(s, 1, Len(s)) = s
<1> DEFINE S == {s[i] : i \in 1..Len(s)}
<1>1. s \in Seq(S) /\ Len(s) \in Nat /\ m \in Nat /\ n \in Nat /\ m <= n /\ n <= Len(s)
  <2>1. Len(s) \in Nat /\ s \in [1..Len(s) -> S]
    BY DEF IsList
  <2> HIDE DEF S
  <2> QED
    BY <2>1, SeqDef
<1> HIDE DEF S
<1>2. /\ SubSeq(s, 1, m) = [i \in 1..m |-> s[i]] /\ Len(SubSeq(s, 1, m)) = m
      /\ SubSeq(s, 1, n) = [i \in 1..n |-> s[i]] /\ Len(SubSeq(s, 1, n)) = n
      /\ SubSeq(s, m + 1, n) = [i \in 1..(n - m) |-> s[m + i]] /\ Len(SubSeq(s, m + 1, n)) = n - m
  BY <1>1
<1>3. SubSeq(s, 1, m) \in Seq(S) /\ SubSeq(s, m + 1, n) \in Seq(S) /\ SubSeq(s, 1, n) \in Seq(S)
  BY <1>1
<1>4. SubSeq(s, 1, m) \o SubSeq(s, m + 1, n) = SubSeq(s, 1, n)
  <2> DEFINE a == SubSeq(s, 1, m)
             b == SubSeq(s, m + 1, n)
             d == SubSeq(s, 1, n)
  <2>1. a \o b \in Seq(S) /\ d \in Seq(S) /\ Len(a \o b) = n /\ Len(d) = n
    BY <1>1, <1>2, <1>3
  <2>2. \A i \in 1..n : (a \o b)[i] = d[i]
    BY <1>1, <1>2, <1>3
  <2> HIDE DEF a, b, d
  <2>5. \A q \in Seq(S) : q = [i \in 1..Len(q) |-> q[i]]
    OBVIOUS
  <2>3. a \o b = [i \in 1..n |-> (a \o b)[i]] /\ d = [i \in 1..n |-> d[i]]
    BY <2>1, <2>5
  <2>4. a \o b = d
    BY <2>2, <2>3
  <2> QED
    BY <2>4 DEF a, b, d
<1>5. SubSeq(s, 1, Len(s)) = s
  <2>1. SubSeq(s, 1, Len(s)) = [i \in 1..Len(s) |-> s[i]]
    BY <1>1
  <2> QED
    BY <2>1 DEF IsList
<1> QED
  BY <1>2, <1>4, <1>5
-----------------------------------------------------------------------------
(* The inductive invariant.                                                *)

Records == [File -> Nat]
IndexRecord == [records : Records, files : Records, repo : Nat, gen : Nat,
                stale : BOOLEAN, truncated : BOOLEAN]

\* What an index holds of a file is a state that the file has had.
Past(records) == \A f \in File : records[f] <= turns
IsIndex(x) == x \in IndexRecord /\ Past(x.records) /\ (~x.stale => x.records = x.files)

\* A later index of the same generation is as complete.
Precedes(x, y) == x.gen <= y.gen /\ (x.gen = y.gen => x.truncated = y.truncated)

\* What records say of files since the call began, or asked the server.
Current(c, records, S) == \A f \in S : records[f] \in {0} \cup lived[c][f]
Covers(c, records, S) == \A f \in S \ Ignored : records[f] \in lived[c][f]

AwaitsIndex == {"first", "second", "third"}
Phases == [idle |-> {"idle", "failed"},
           any |-> {"first", "answered"},
           search |-> {"lexical"},
           external |-> {"sharing", "shared"},
           server |-> {"asking", "second", "third", "verify", "verify, reading"},
           navigate |-> {"lookup", "looking", "origin", "origin, reading", "origin again",
                         "origin again, reading"}]
CallFields == {"phase", "tool", "scope", "snap", "saw", "check", "todo", "approved", "sent",
               "answer", "book", "pages"}

\* A call is at a place of its tool.
CallTyped(c) ==
    /\ DOMAIN query[c] = CallFields
    /\ \/ query[c].phase \in Phases.idle /\ query[c].book = None /\ query[c].sent = None
       \/ /\ query[c].tool \in Index!Tool /\ query[c].scope \in SUBSET File /\ query[c].scope # {}
          /\ \/ query[c].phase \in Phases.any
             \/ query[c].phase \in Phases.search /\ query[c].tool = "search"
             \/ query[c].phase \in Phases.external /\ query[c].tool = "external"
             \/ query[c].phase \in Phases.server /\ query[c].tool \in {"symbols", "navigate"}
             \/ query[c].phase \in Phases.navigate /\ query[c].tool = "navigate"
    /\ query[c].sent # None => query[c].sent = query[c].approved
    /\ query[c].phase \in {"looking", "origin, reading", "origin again, reading", "verify, reading"} =>
         query[c].check.file \in File /\ query[c].check.held \in 0..turns
    /\ query[c].phase \in {"verify", "verify, reading"} => query[c].todo \in SUBSET File

\* What the records say of the files is what the server saw.
Matched(c) ==
    /\ query[c].snap \in IndexRecord /\ query[c].snap.records = query[c].snap.files
    /\ Current(c, query[c].snap.records, Index!RefreshScope(query[c]))
    /\ ~query[c].snap.truncated => Covers(c, query[c].snap.records, Index!RefreshScope(query[c]))
    /\ \A f \in Index!RefreshScope(query[c]) :
         /\ query[c].saw[f] \in lived[c][f]
         /\ query[c].snap.records[f] # 0 => query[c].saw[f] = query[c].snap.records[f]
    /\ query[c].tool = "navigate" =>
         \A f \in query[c].scope : query[c].saw[f] # 0 => query[c].snap.records[f] # 0

\* Since it asked the server, a file that is as the snapshot has it has not been anything else:
\* no state comes back.
Unchanged(c) ==
    \A f \in File : query[c].snap.records[f] # 0 /\ disk[f] = query[c].snap.records[f]
                      => lived[c][f] = {query[c].snap.records[f]}

SnapOK(c) ==
    /\ query[c].phase \in {"sharing", "shared"} =>
         /\ query[c].snap \in IndexRecord /\ Current(c, query[c].snap.records, query[c].scope)
         /\ ~query[c].snap.truncated => Covers(c, query[c].snap.records, query[c].scope)
    /\ query[c].phase \in {"origin", "origin, reading", "asking", "second"} =>
         IsIndex(query[c].snap) /\ Precedes(query[c].snap, index)
    /\ query[c].phase \in {"asking", "second"} => Unchanged(c)
    /\ query[c].phase = "second" => \A f \in File : query[c].saw[f] \in lived[c][f]
    /\ query[c].phase \in {"origin again", "origin again, reading"} =>
         query[c].snap \in IndexRecord /\ Current(c, query[c].snap.records, File)
    /\ query[c].phase \in {"verify", "verify, reading"} => Matched(c)

SeenOK(c) ==
    query[c].phase \notin {"idle", "answered", "failed"} => \A f \in File : disk[f] \in lived[c][f]

\* The list of the answer of a tool, read back from what its cursor is bound to.
InScope(scope, records) == [f \in File |-> IF f \in scope THEN records[f] ELSE 0]
ItemsOf(tool, scope, binding) ==
    IF binding.how = <<"lexical">> THEN binding.version.files
    ELSE IF binding.how = <<"index">> /\ tool = "external" THEN Index!Absent
    ELSE IF binding.how \in {<<"index">>, <<"server">>} THEN InScope(scope, binding.version.files)
    ELSE binding.how[2]

\* The pages so far are the beginning of the list.
BookOf(k) ==
    (k.phase = "answered" \/ k.book # None) /\ k.tool # "navigate" =>
        /\ DOMAIN k.book = {"binding", "all", "given", "more"}
        /\ k.book.all = Index!Listed(ItemsOf(k.tool, k.scope, k.book.binding))
        /\ Len(k.book.given) \in 0..Len(k.book.all)
        /\ k.book.given = SubSeq(k.book.all, 1, Len(k.book.given))
        /\ ~k.book.more => Len(k.book.given) = Len(k.book.all)

\* What is said of an answer, and that its list can be read back.
AnswerOf(c, k, reply) ==
    /\ ~reply.stale => Current(c, reply.items, File)
    /\ reply.total => \A f \in k.scope \ Ignored :
                          \A v \in lived[c][f] : lived[c][f] = {v} => reply.items[f] = v
    /\ reply.exact => \A f \in Index!RefreshScope(k) :
                          k.snap.records[f] # 0 => Index!Text(k.saw[f]) = Index!Text(k.snap.records[f])

AnswerOK(c) == query[c].phase = "answered" => AnswerOf(c, query[c], query[c].answer)

CallOK(c) == CallTyped(c) /\ SnapOK(c) /\ SeenOK(c) /\ BookOf(query[c]) /\ AnswerOK(c)

\* The refresh that runs: what it has read is of its call's time, and complete unless it is cut.
ReadOK(c) ==
    \A f \in build.scope \ build.todo :
        /\ build.working[f] \in {0} \cup lived[c][f]
        /\ ~build.cut /\ f \notin Ignored => build.working[f] \in lived[c][f]
        /\ query[c].phase = "second" /\ build.working[f] # 0
             /\ build.working[f] = query[c].snap.records[f] => query[c].saw[f] = build.working[f]

BuildRecord == [by : Query, full : BOOLEAN, step : {"walk", "read", "commit"}, repo : Nat,
                todo : SUBSET File, scope : SUBSET File, big : SUBSET File, cut : BOOLEAN,
                working : Records]

BuildOK ==
    build # None =>
        /\ build \in BuildRecord /\ query[build.by].phase \in AwaitsIndex
        /\ Index!RefreshScope(query[build.by]) \subseteq build.scope
        /\ build.todo \subseteq build.scope /\ Past(build.working)
        /\ build.step # "walk" => ReadOK(build.by)
        /\ build.step = "commit" =>
             /\ build.todo = {} /\ IsIndex(saved) /\ Precedes(index, saved)
             /\ ~saved.stale /\ saved.records = build.working
             /\ ~saved.truncated => ~build.cut

\* The refreshes that wait, each of another call.
QueueOK ==
    /\ queue \in Seq(Query)
    /\ \A i \in 1..Len(queue) :
         /\ query[queue[i]].phase \in AwaitsIndex
         /\ build # None => queue[i] # build.by
         /\ \A j \in 1..Len(queue) : queue[i] = queue[j] => i = j

StateOK ==
    /\ turns \in Nat /\ repo \in Nat /\ disk \in Records /\ Past(disk)
    /\ DOMAIN query = Query /\ lived \in [Query -> [File -> SUBSET Nat]]
    /\ IsIndex(index)
    /\ saved # None => IsIndex(saved)

IndexInv == StateOK /\ QueueOK /\ BuildOK /\ \A c \in Query : CallOK(c)
Sizes ==
    /\ IsFiniteSet(File) /\ File \subseteq Nat /\ PageSize \in Nat /\ MaxShared \in Nat \ {0}
    /\ \A S \in {File, {1}} : S \subseteq File /\ S # {}

LEMMA RefreshScopeIs ==
    \A k, r : k.tool = r.tool /\ k.scope = r.scope => Index!RefreshScope(k) = Index!RefreshScope(r)
  BY DEF Index!RefreshScope

\* A page that a call is given fits to the pages it was given before, if its list can be read back
\* from what the cursor is bound to.
LEMMA PagedKeeps ==
    ASSUME Sizes, NEW c, NEW k, DOMAIN k = CallFields, BookOf(k), k.phase # "answered",
           NEW reply, AnswerOf(c, k, reply),
           k.tool # "navigate" =>
             reply.items = ItemsOf(k.tool, k.scope, [version |-> reply.version, how |-> reply.how])
    PROVE  \/ Index!Paged(k, reply) = Index!Failed(k)
           \/ /\ DOMAIN Index!Paged(k, reply) = CallFields /\ Index!Paged(k, reply).phase = "answered"
              /\ Index!Paged(k, reply).tool = k.tool /\ Index!Paged(k, reply).scope = k.scope
              /\ Index!Paged(k, reply).sent = None /\ Index!Paged(k, reply).answer = reply
              /\ BookOf(Index!Paged(k, reply)) /\ AnswerOf(c, Index!Paged(k, reply), reply)
<1> DEFINE r == Index!Paged(k, reply)
           all == Index!Listed(reply.items)
           from == IF k.book = None THEN 0 ELSE Len(k.book.given)
           upto == IF from + PageSize < Len(all) THEN from + PageSize ELSE Len(all)
           page == SubSeq(all, from + 1, upto)
           done == [k EXCEPT !.phase = "answered", !.answer = reply, !.check = None, !.sent = None,
                          !.snap = IF reply.exact THEN @ ELSE None,
                          !.saw = IF reply.exact THEN @ ELSE Index!Absent]
           first == [binding |-> Index!Binding(k, reply), all |-> all, given |-> page, more |-> upto < Len(all)]
<1>1. IsList(all) /\ Len(all) \in Nat
  BY ListedIsList DEF Sizes, IsList
<1>2. r = IF k.book = None THEN [done EXCEPT !.book = first]
          ELSE IF k.book.binding # Index!Binding(k, reply) \/ from > Len(all) THEN Index!Failed(k)
          ELSE [done EXCEPT !.book.given = @ \o page, !.book.more = upto < Len(all)]
  BY DEF Index!Paged
<1>3. /\ DOMAIN done = CallFields /\ done.phase = "answered" /\ done.tool = k.tool
      /\ done.scope = k.scope /\ done.sent = None /\ done.answer = reply /\ done.book = k.book
      /\ reply.exact => done.snap = k.snap /\ done.saw = k.saw
  BY DEF CallFields
<1> HIDE DEF all, done
<1>4. CASE r # Index!Failed(k)
  <2> DEFINE book == IF k.book = None THEN first
                     ELSE [k.book EXCEPT !.given = @ \o page, !.more = upto < Len(all)]
  <2>1. r = [done EXCEPT !.book = book]
    <3>1. [done EXCEPT !.book.given = @ \o page, !.book.more = upto < Len(all)]
            = [done EXCEPT !.book = [done.book EXCEPT !.given = @ \o page, !.more = upto < Len(all)]]
      OBVIOUS
    <3> QED
      BY <1>2, <1>3, <1>4, <3>1
  <2>2. /\ DOMAIN r = CallFields /\ r.phase = "answered" /\ r.tool = k.tool /\ r.scope = k.scope
        /\ r.sent = None /\ r.answer = reply /\ r.book = book
        /\ reply.exact => r.snap = k.snap /\ r.saw = k.saw
    <3> HIDE DEF book, r
    <3> QED
      BY <1>3, <2>1 DEF CallFields
  <2>3. AnswerOf(c, r, reply)
    <3>1. Index!RefreshScope(r) = Index!RefreshScope(k)
      BY <2>2, RefreshScopeIs
    <3> HIDE DEF r
    <3> QED
      BY <2>2, <3>1 DEF AnswerOf
  <2>4. ASSUME k.tool # "navigate"
        PROVE  /\ DOMAIN book = {"binding", "all", "given", "more"}
               /\ book.all = Index!Listed(ItemsOf(k.tool, k.scope, book.binding))
               /\ Len(book.given) \in 0..Len(book.all)
               /\ book.given = SubSeq(book.all, 1, Len(book.given))
               /\ ~book.more => Len(book.given) = Len(book.all)
    <3>1. Index!Binding(k, reply) = [version |-> reply.version, how |-> reply.how]
      BY <2>4 DEF Index!Binding
    <3>2. all = Index!Listed(ItemsOf(k.tool, k.scope, Index!Binding(k, reply)))
      BY <2>4, <3>1 DEF all
    <3>3. CASE k.book = None
      <4>1. from = 0 /\ upto \in 0..Len(all) /\ (~(upto < Len(all)) => upto = Len(all))
        BY <1>1, <3>3 DEF Sizes
      <4>2. page = SubSeq(all, 1, upto) /\ Len(page) = upto
        BY <1>1, <4>1, ListGrows
      <4>3. book.all = all /\ book.given = page /\ book.binding = Index!Binding(k, reply)
            /\ book.more = (upto < Len(all)) /\ DOMAIN book = {"binding", "all", "given", "more"}
        BY <3>3
      <4> HIDE DEF page, upto, from, book
      <4> QED
        BY <3>2, <4>1, <4>2, <4>3
    <3>4. CASE k.book # None
      <4>1. k.book.binding = Index!Binding(k, reply) /\ ~(from > Len(all)) /\ from = Len(k.book.given)
        BY <1>2, <1>4, <3>4
      <4>2. /\ k.book.all = all /\ from \in 0..Len(all)
            /\ DOMAIN k.book = {"binding", "all", "given", "more"}
            /\ k.book.given = SubSeq(all, 1, from)
        BY <2>4, <3>2, <3>4, <4>1 DEF BookOf
      <4>3. upto \in from..Len(all) /\ (~(upto < Len(all)) => upto = Len(all))
        BY <1>1, <4>2 DEF Sizes
      <4>6. book = [k.book EXCEPT !.given = @ \o page, !.more = upto < Len(all)]
        BY <3>4
      <4> HIDE DEF upto, from, book
      <4>4. k.book.given \o page = SubSeq(all, 1, upto) /\ Len(SubSeq(all, 1, upto)) = upto
        BY <1>1, <4>2, <4>3, ListGrows
      <4> HIDE DEF page
      <4>5. /\ book.all = all /\ book.binding = Index!Binding(k, reply)
            /\ book.given = k.book.given \o page /\ book.more = (upto < Len(all))
           /\ DOMAIN book = {"binding", "all", "given", "more"}
        BY <4>1, <4>2, <4>6
      <4>8. book.given = SubSeq(all, 1, upto) /\ Len(book.given) = upto
        BY <4>4, <4>5
      <4>9. upto \in 0..Len(all)
        BY <1>1, <4>2, <4>3
      <4>10. book.all = Index!Listed(ItemsOf(k.tool, k.scope, book.binding))
        BY <3>2, <4>5
      <4> QED
        BY <4>3, <4>5, <4>8, <4>9, <4>10
    <3> QED
      BY <3>3, <3>4
  <2>5. BookOf(r)
    BY <2>2, <2>4 DEF BookOf
  <2> QED
    BY <2>2, <2>3, <2>5
<1> QED
  BY <1>4

LEMMA FailedIsOK ==
    ASSUME NEW c \in Query, NEW k, query'[c] = Index!Failed(k) PROVE CallOK(c)'
<1>1. /\ DOMAIN query'[c] = CallFields /\ query'[c].phase = "failed" /\ query'[c].book = None
      /\ query'[c].sent = None
  BY DEF Index!Failed, Index!NoCall, CallFields
<1> QED
  BY <1>1 DEF CallOK, CallTyped, SnapOK, SeenOK, BookOf, AnswerOK, Phases

LEMMA NoCallIsOK ==
    ASSUME NEW c \in Query, query'[c] = Index!NoCall PROVE CallOK(c)'
<1>1. /\ DOMAIN query'[c] = CallFields /\ query'[c].phase = "idle" /\ query'[c].book = None
      /\ query'[c].sent = None
  BY DEF Index!NoCall, CallFields
<1> QED
  BY <1>1 DEF CallOK, CallTyped, SnapOK, SeenOK, BookOf, AnswerOK, Phases

LEMMA PagedIsOK ==
    ASSUME Sizes, NEW c \in Query, CallOK(c),
           query[c].phase \notin {"idle", "answered", "failed"},
           NEW reply, AnswerOf(c, query[c], reply),
           query[c].tool # "navigate" =>
             reply.items = ItemsOf(query[c].tool, query[c].scope,
                                    [version |-> reply.version, how |-> reply.how]),
           query'[c] = Index!Paged(query[c], reply), lived'[c] = lived[c]
    PROVE  CallOK(c)'
<1>1. CASE Index!Paged(query[c], reply) = Index!Failed(query[c])
  BY <1>1, FailedIsOK
<1>2. CASE Index!Paged(query[c], reply) # Index!Failed(query[c])
  <2>0. DOMAIN query[c] = CallFields /\ BookOf(query[c]) /\ query[c].phase # "answered"
    BY DEF CallOK, CallTyped
  <2>1. /\ DOMAIN query'[c] = CallFields /\ query'[c].phase = "answered"
        /\ query'[c].tool = query[c].tool /\ query'[c].scope = query[c].scope
        /\ query'[c].sent = None /\ query'[c].answer = reply
        /\ BookOf(query'[c]) /\ AnswerOf(c, query'[c], reply)
    BY <1>2, <2>0, PagedKeeps
  <2>2. CallTyped(c)'
    BY <2>1 DEF CallOK, CallTyped, Phases
  <2>3. AnswerOK(c)'
    BY <2>1 DEF AnswerOK, AnswerOf, Current
  <2>4. BookOf(query[c])'
    BY <2>1 DEF BookOf
  <2> QED
    BY <2>1, <2>2, <2>3, <2>4 DEF CallOK, SnapOK, SeenOK
<1> QED
  BY <1>1, <1>2

-----------------------------------------------------------------------------
(* Steps of a call.                                                        *)

\* A call that does nothing.
LEMMA OtherCallOK ==
    ASSUME NEW d \in Query, CallOK(d), query'[d] = query[d], lived'[d] = lived[d], disk' = disk,
           turns \in Nat, turns' \in Nat, turns <= turns',
           IsIndex(index), IsIndex(index)', Precedes(index, index')
    PROVE  CallOK(d)'
<1>1. CallTyped(d)'
  <2>1. \A n : n \in 0..turns => n \in 0..turns'
    OBVIOUS
  <2>2. CallTyped(d)
    BY DEF CallOK
  <2>3. query[d].phase \in {"looking", "origin, reading", "origin again, reading", "verify, reading"} =>
          query[d].check.file \in File /\ query[d].check.held \in 0..turns'
    BY <2>1, <2>2 DEF CallTyped
  <2> QED
    BY <2>2, <2>3, Zenon DEF CallTyped
<1>2. \A x : IsIndex(x) => IsIndex(x)'
  BY DEF IsIndex, Past, IndexRecord, Records
<1>3. ASSUME IsIndex(query[d].snap), Precedes(query[d].snap, index) PROVE Precedes(query[d].snap, index')
  <2>1. query[d].snap.gen \in Nat /\ index.gen \in Nat /\ index'.gen \in Nat
    BY <1>3 DEF IsIndex, IndexRecord
  <2> QED
    BY <1>3, <2>1 DEF Precedes
<1>4. SnapOK(d)'
  <2>1. Matched(d) => Matched(d)'
    BY DEF Matched, Current, Covers, IndexRecord, Records
  <2>2. Unchanged(d) => Unchanged(d)'
    BY DEF Unchanged
  <2>3. query[d].phase \in {"origin", "origin, reading", "asking", "second"} =>
          IsIndex(query[d].snap)' /\ Precedes(query[d].snap, index)'
    BY <1>2, <1>3 DEF CallOK, SnapOK
  <2> QED
    BY <2>1, <2>2, <2>3 DEF CallOK, SnapOK, Current, Covers, IndexRecord, Records
<1>5. SeenOK(d)' /\ BookOf(query[d])' /\ AnswerOK(d)'
  BY DEF CallOK, SeenOK, BookOf, AnswerOK, AnswerOf, Current
<1> QED
  BY <1>1, <1>4, <1>5 DEF CallOK

LEMMA QueueGrows ==
    ASSUME QueueOK, NEW c \in Query, queue' = Append(queue, c),
           \A i \in 1..Len(queue) : queue[i] # c,
           \A d \in Query \ {c} : query'[d] = query[d],
           query'[c].phase \in AwaitsIndex, build' = None \/ (build' = build /\ (build # None => build.by # c))
    PROVE  QueueOK'
<1>1. /\ queue' \in Seq(Query) /\ Len(queue') = Len(queue) + 1 /\ Len(queue) \in Nat
      /\ \A i \in 1..Len(queue) : queue'[i] = queue[i] /\ queue[i] \in Query
      /\ queue'[Len(queue) + 1] = c
  BY DEF QueueOK
<1>2. ASSUME NEW i \in 1..Len(queue')
      PROVE  /\ query'[queue'[i]].phase \in AwaitsIndex
             /\ build' # None => queue'[i] # build'.by
             /\ \A j \in 1..Len(queue') : queue'[i] = queue'[j] => i = j
  <2>1. CASE i = Len(queue) + 1
    <3>1. \A j \in 1..Len(queue') : j = Len(queue) + 1 \/ j \in 1..Len(queue)
      BY <1>1
    <3> QED
      BY <1>1, <2>1, <3>1
  <2>2. CASE i \in 1..Len(queue)
    <3>1. \A j \in 1..Len(queue') : j = Len(queue) + 1 \/ j \in 1..Len(queue)
      BY <1>1
    <3>2. queue'[i] = queue[i] /\ queue[i] # c /\ queue[i] \in Query
      BY <1>1, <2>2
    <3>3. query'[queue'[i]] = query[queue[i]]
      BY <3>2
    <3>4. ASSUME NEW j \in 1..Len(queue'), queue'[i] = queue'[j] PROVE i = j
      BY <1>1, <2>2, <3>1, <3>2, <3>4 DEF QueueOK
    <3> QED
      BY <2>2, <3>2, <3>3, <3>4 DEF QueueOK
  <2> QED
    BY <1>1, <2>1, <2>2
<1> QED
  BY <1>1, <1>2 DEF QueueOK

LEMMA QueueStays ==
    ASSUME QueueOK, queue' = queue, build' = None \/ (build # None /\ build'.by = build.by),
           \A i \in 1..Len(queue) : query'[queue[i]] = query[queue[i]]
    PROVE  QueueOK'
  BY DEF QueueOK

\* A call that neither waits for a refresh nor has one, acts.
LEMMA CallStep ==
    ASSUME IndexInv, NEW c \in Query, query[c].phase \notin AwaitsIndex, DOMAIN query' = Query,
           \A d \in Query \ {c} : query'[d] = query[d] /\ lived'[d] = lived[d],
           lived' \in [Query -> [File -> SUBSET Nat]], CallOK(c)',
           UNCHANGED <<disk, repo, build, saved>>, turns' \in Nat, turns <= turns',
           IsIndex(index)', index'.gen = index.gen, index'.truncated = index.truncated,
           \/ queue' = queue
           \/ queue' = Append(queue, c) /\ query'[c].phase \in AwaitsIndex
    PROVE  IndexInv'
<1>1. \A i \in 1..Len(queue) : queue[i] \in Query /\ queue[i] # c
  BY DEF IndexInv, QueueOK
<1>2. build # None => build.by \in Query /\ build.by # c
  BY DEF IndexInv, BuildOK, BuildRecord
<1>3. QueueOK'
  <2>1. QueueOK
    BY DEF IndexInv
  <2>2. CASE queue' = queue
    <3>1. build = None \/ (build # None /\ build'.by = build.by)
      OBVIOUS
    <3> QED
      BY <1>1, <2>1, <2>2, <3>1, QueueStays
  <2>3. CASE queue' = Append(queue, c) /\ query'[c].phase \in AwaitsIndex
    BY <1>1, <1>2, <2>1, <2>3, QueueGrows
  <2> QED
    BY <2>2, <2>3
<1>10. turns \in Nat
  BY DEF IndexInv, StateOK
<1>11. \A r \in Records : Past(r) => Past(r)'
  BY <1>10 DEF Past, Records
<1>4. \A x : IsIndex(x) => IsIndex(x)'
  <2> SUFFICES ASSUME NEW x, IsIndex(x) PROVE IsIndex(x)'
    OBVIOUS
  <2>1. x \in IndexRecord /\ x.records \in Records /\ Past(x.records) /\ (~x.stale => x.records = x.files)
    BY DEF IsIndex, IndexRecord
  <2>2. Past(x.records)'
    BY <1>11, <2>1
  <2> QED
    BY <2>1, <2>2 DEF IsIndex, IndexRecord, Records
<1>5. BuildOK'
  <2> SUFFICES ASSUME build' # None PROVE BuildOK'
    BY DEF BuildOK
  <2>1. build' = build /\ build # None /\ build.by \in Query \ {c}
    BY <1>2
  <2>2. query'[build.by] = query[build.by] /\ lived'[build.by] = lived[build.by]
    BY <2>1
  <2>6. BuildOK
    BY DEF IndexInv
  <2>3. build.step # "walk" => ReadOK(build.by)'
    <3>1. build.step # "walk" => ReadOK(build.by)
      BY <2>1, <2>6 DEF BuildOK
    <3>2. build'.by = build.by
      BY <2>1
    <3> QED
      BY <2>1, <2>2, <3>1, <3>2 DEF ReadOK
  <2>4. Past(build.working)'
    <3>1. build.working \in Records /\ Past(build.working)
      BY <2>1, <2>6 DEF BuildOK, BuildRecord
    <3>2. \A f \in File : build.working[f] <= turns'
      BY <1>10, <3>1 DEF Past, Records
    <3> QED
      BY <2>1, <3>2 DEF Past
  <2>5. build.step = "commit" => IsIndex(saved)' /\ Precedes(index, saved)'
    BY <1>4, <2>1 DEF IndexInv, BuildOK, Precedes
  <2>7. /\ build \in BuildRecord /\ query'[build.by].phase \in AwaitsIndex
        /\ Index!RefreshScope(query'[build.by]) \subseteq build.scope
        /\ build.todo \subseteq build.scope
        /\ build.step = "commit" => /\ build.todo = {} /\ ~saved.stale /\ saved.records = build.working
                                    /\ ~saved.truncated => ~build.cut
    BY <2>1, <2>2, <2>6, Zenon DEF BuildOK
  <2> QED
    BY <2>1, <2>3, <2>4, <2>5, <2>7, Zenon DEF BuildOK, BuildRecord, Records
<1>6. StateOK'
  <2>1. Past(disk)'
    BY DEF IndexInv, StateOK, Past, Records
  <2>2. saved' # None => IsIndex(saved)'
    BY <1>4 DEF IndexInv, StateOK
  <2> QED
    BY <2>1, <2>2 DEF IndexInv, StateOK, Records
<1>7. ASSUME NEW d \in Query PROVE CallOK(d)'
  <2>1. CASE d = c
    BY <2>1
  <2>2. CASE d # c
    <3>1. CallOK(d) /\ IsIndex(index) /\ turns \in Nat
      BY DEF IndexInv, StateOK
    <3>2. Precedes(index, index')
      BY <3>1 DEF Precedes, IsIndex, IndexRecord
    <3> QED
      BY <2>2, <3>1, <3>2, OtherCallOK
  <2> QED
    BY <2>1, <2>2
<1> QED
  BY <1>3, <1>5, <1>6, <1>7 DEF IndexInv

\* What the invariant says of a call that acts, and what Set changes.
LEMMA Acting ==
    ASSUME IndexInv, NEW c \in Query, NEW k, Index!Set(c, k)
    PROVE  /\ query'[c] = k /\ DOMAIN query' = Query /\ \A d \in Query \ {c} : query'[d] = query[d]
           /\ CallTyped(c) /\ SnapOK(c) /\ SeenOK(c) /\ BookOf(query[c]) /\ CallOK(c)
           /\ DOMAIN query[c] = CallFields
           /\ turns \in Nat /\ IsIndex(index) /\ index.records \in Records
           /\ lived \in [Query -> [File -> SUBSET Nat]] /\ disk \in Records
           /\ \A f \in File : index.records[f] \in 0..turns
<1>1. StateOK /\ CallOK(c)
  BY DEF IndexInv
<1>2. query'[c] = k /\ DOMAIN query' = Query /\ \A d \in Query \ {c} : query'[d] = query[d]
  BY <1>1 DEF StateOK, Index!Set
<1>3. CallTyped(c) /\ SnapOK(c) /\ SeenOK(c) /\ BookOf(query[c]) /\ DOMAIN query[c] = CallFields
  BY <1>1 DEF CallOK, CallTyped
<1>4. turns \in Nat /\ IsIndex(index) /\ index.records \in Records
      /\ lived \in [Query -> [File -> SUBSET Nat]] /\ disk \in Records
  BY <1>1 DEF StateOK, IsIndex, IndexRecord
<1>5. \A f \in File : index.records[f] \in 0..turns
  <2>1. \A f \in File : index.records[f] \in Nat /\ index.records[f] <= turns
    BY <1>4 DEF IsIndex, Past, Records
  <2> QED
    BY <1>4, <2>1
<1> QED
  BY <1>1, <1>2, <1>3, <1>4, <1>5

\* A step of a call that leaves the index and the files alone.
LEMMA QuietStep ==
    ASSUME IndexInv, NEW c \in Query, query[c].phase \notin AwaitsIndex, NEW k, Index!Set(c, k), CallOK(c)',
           UNCHANGED <<disk, repo, turns, index, saved, build, lived>>,
           \/ queue' = queue
           \/ queue' = Append(queue, c) /\ query'[c].phase \in AwaitsIndex
    PROVE  IndexInv'
<1>1. DOMAIN query' = Query /\ \A d \in Query \ {c} : query'[d] = query[d] /\ lived'[d] = lived[d]
  BY Acting
<1>2. turns' \in Nat /\ turns <= turns' /\ lived' \in [Query -> [File -> SUBSET Nat]]
  BY Acting
<1>3. IsIndex(index)' /\ index'.gen = index.gen /\ index'.truncated = index.truncated
  BY Acting DEF IsIndex, Past, IndexRecord, Records
<1> QED
  BY <1>1, <1>2, <1>3, CallStep

LEMMA AskStep ==
    ASSUME IndexInv, Sizes, NEW c \in Query, NEW tool \in Index!Tool, NEW scope \in {File, {1}}, Index!Ask(c, tool, scope)
    PROVE  IndexInv'
<1> DEFINE k == [[Index!NoCall EXCEPT !.tool = tool, !.scope = scope, !.pages = 1, !.approved = policy]
                   EXCEPT !.phase = "first"]
<1>1. /\ query[c].phase = "idle" /\ Index!Set(c, k) /\ queue' = Append(queue, c) /\ turns' = turns + 1
      /\ lived' = [lived EXCEPT ![c] = [f \in File |-> {disk[f]}]]
      /\ UNCHANGED <<disk, repo, index, saved, build>>
  BY DEF Index!Ask, Index!Refresh
<1>2. /\ DOMAIN k = CallFields /\ k.phase = "first" /\ k.tool = tool /\ k.scope = scope
      /\ k.book = None /\ k.sent = None
  BY DEF Index!NoCall, CallFields
<1> HIDE DEF k
<1>3. query'[c] = k /\ DOMAIN query' = Query /\ \A d \in Query \ {c} : query'[d] = query[d]
  BY <1>1, Acting
<1>4. disk \in Records /\ lived \in [Query -> [File -> SUBSET Nat]] /\ turns \in Nat /\ IsIndex(index)
  BY <1>1, Acting
<1>5. /\ lived' \in [Query -> [File -> SUBSET Nat]] /\ \A d \in Query \ {c} : lived'[d] = lived[d]
      /\ \A f \in File : lived'[c][f] = {disk[f]}
  <2>1. [f \in File |-> {disk[f]}] \in [File -> SUBSET Nat]
    BY <1>4 DEF Records
  <2> QED
    BY <1>1, <1>4, <2>1
<1>6. scope \in SUBSET File /\ scope # {}
  BY DEF Sizes
<1>7. CallTyped(c)'
  BY <1>2, <1>3, <1>6 DEF CallTyped, Phases
<1>8. SnapOK(c)' /\ BookOf(query[c])' /\ AnswerOK(c)'
  BY <1>2, <1>3 DEF SnapOK, BookOf, AnswerOK
<1>9. SeenOK(c)'
  BY <1>1, <1>5 DEF SeenOK
<1>10. CallOK(c)'
  BY <1>7, <1>8, <1>9 DEF CallOK
<1>11. IsIndex(index)' /\ turns' \in Nat /\ turns <= turns'
  <2>1. \A f \in File : index.records[f] <= turns + 1
    BY <1>4 DEF IsIndex, IndexRecord, Records, Past
  <2> QED
    BY <1>1, <1>4, <2>1 DEF IsIndex, Past
<1>12. query[c].phase \notin AwaitsIndex /\ query'[c].phase \in AwaitsIndex
  BY <1>1, <1>2, <1>3 DEF AwaitsIndex
<1> QED
  BY <1>1, <1>3, <1>5, <1>10, <1>11, <1>12, CallStep

LEMMA NextPageStep == ASSUME IndexInv, NEW c \in Query, Index!NextPage(c) PROVE IndexInv'
<1> DEFINE k == [[Index!NoCall EXCEPT !.tool = query[c].tool, !.scope = query[c].scope,
                                 !.book = query[c].book, !.pages = query[c].pages + 1,
                                 !.approved = policy] EXCEPT !.phase = "first"]
<1>1. /\ query[c].phase = "answered" /\ Index!Set(c, k) /\ queue' = Append(queue, c)
      /\ lived' = [lived EXCEPT ![c] = [f \in File |-> {disk[f]}]]
      /\ UNCHANGED <<disk, repo, turns, index, saved, build>>
  BY DEF Index!NextPage, Index!Refresh
<1>2. /\ DOMAIN k = CallFields /\ k.phase = "first" /\ k.tool = query[c].tool
      /\ k.scope = query[c].scope /\ k.book = query[c].book /\ k.sent = None
  BY DEF Index!NoCall, CallFields
<1> HIDE DEF k
<1>3. query'[c] = k /\ DOMAIN query' = Query /\ \A d \in Query \ {c} : query'[d] = query[d]
  BY <1>1, Acting
<1>4. disk \in Records /\ lived \in [Query -> [File -> SUBSET Nat]] /\ turns \in Nat /\ IsIndex(index)
      /\ CallTyped(c) /\ BookOf(query[c])
  BY <1>1, Acting
<1>5. /\ lived' \in [Query -> [File -> SUBSET Nat]] /\ \A d \in Query \ {c} : lived'[d] = lived[d]
      /\ \A f \in File : lived'[c][f] = {disk[f]}
  <2>1. [f \in File |-> {disk[f]}] \in [File -> SUBSET Nat]
    BY <1>4 DEF Records
  <2> QED
    BY <1>1, <1>4, <2>1
<1>6. query[c].tool \in Index!Tool /\ query[c].scope \in SUBSET File /\ query[c].scope # {}
  BY <1>1, <1>4 DEF CallTyped, Phases
<1>7. CallTyped(c)'
  BY <1>2, <1>3, <1>6 DEF CallTyped, Phases
<1>8. SnapOK(c)' /\ AnswerOK(c)'
  BY <1>2, <1>3 DEF SnapOK, AnswerOK
<1>9. SeenOK(c)' /\ BookOf(query[c])'
  BY <1>1, <1>2, <1>3, <1>4, <1>5 DEF SeenOK, BookOf
<1>10. CallOK(c)'
  BY <1>7, <1>8, <1>9 DEF CallOK
<1>11. IsIndex(index)' /\ turns' \in Nat /\ turns <= turns'
  BY <1>1, <1>4 DEF IsIndex, Past
<1>12. query[c].phase \notin AwaitsIndex /\ query'[c].phase \in AwaitsIndex
  BY <1>1, <1>2, <1>3 DEF AwaitsIndex
<1> QED
  BY <1>1, <1>3, <1>5, <1>10, <1>11, <1>12, CallStep

\* A call that goes on: its list, its scope and the provider it may use stay.
Kept(k, r) ==
    /\ DOMAIN r = CallFields /\ r.tool = k.tool /\ r.scope = k.scope /\ r.book = k.book
    /\ r.approved = k.approved /\ r.sent = k.sent

LEMMA GoesOnOK ==
    ASSUME NEW c \in Query, CallOK(c), query[c].phase \notin {"idle", "answered", "failed"},
           Kept(query[c], query'[c]), query'[c].phase \notin {"idle", "answered", "failed"},
           \/ lived'[c] = lived[c] /\ disk' = disk
           \/ \A f \in File : disk'[f] \in lived'[c][f],
           CallTyped(c)', SnapOK(c)'
    PROVE  CallOK(c)'
<1>1. SeenOK(c)'
  BY DEF CallOK, SeenOK
<1>2. BookOf(query[c])'
  BY DEF CallOK, BookOf, Kept
<1>3. AnswerOK(c)'
  BY DEF AnswerOK
<1> QED
  BY <1>1, <1>2, <1>3 DEF CallOK

LEMMA LexicalStep == ASSUME IndexInv, Sizes, NEW c \in Query, Index!Lexical(c) PROVE IndexInv'
<1>1. PICK got \in [File -> UNION {lived[c][f] : f \in File}] :
        /\ \A f \in File : got[f] \in lived[c][f]
        /\ LET items == [f \in File |-> IF f \in query[c].scope \ Ignored /\ Index!Fits(got[f]) THEN got[f] ELSE 0]
           IN  Index!Set(c, Index!Paged(query[c],
                 [items |-> items, exact |-> FALSE, stale |-> FALSE,
                  total |-> \A f \in query[c].scope \ Ignored : got[f] \notin Bulky,
                  how |-> <<"lexical">>, version |-> [repo |-> None, files |-> items, gen |-> 0]]))
  BY DEF Index!Lexical
<1> DEFINE items == [f \in File |-> IF f \in query[c].scope \ Ignored /\ Index!Fits(got[f]) THEN got[f] ELSE 0]
           reply == [items |-> items, exact |-> FALSE, stale |-> FALSE,
                      total |-> \A f \in query[c].scope \ Ignored : got[f] \notin Bulky,
                      how |-> <<"lexical">>, version |-> [repo |-> None, files |-> items, gen |-> 0]]
<1>2. Index!Set(c, Index!Paged(query[c], reply))
  BY <1>1
<1>3. /\ CallOK(c) /\ CallTyped(c) /\ query'[c] = Index!Paged(query[c], reply)
  BY <1>2, Acting
<1>4. /\ query[c].phase = "lexical" /\ query[c].scope \in SUBSET File
      /\ UNCHANGED <<disk, repo, turns, index, saved, queue, build, lived>>
  BY <1>3 DEF Index!Lexical, CallTyped, Phases
<1>5. \A f \in File : items[f] \in {0} \cup lived[c][f]
  BY <1>1
<1>6. ASSUME reply.total, NEW f \in query[c].scope \ Ignored, NEW v \in lived[c][f], lived[c][f] = {v}
      PROVE  items[f] = v
  BY <1>1, <1>4, <1>6 DEF Index!Fits
<1>7. AnswerOf(c, query[c], reply)
  <2>1. reply.items = items /\ ~reply.exact /\ ~reply.stale
    OBVIOUS
  <2> HIDE DEF reply, items
  <2> QED
    BY <1>5, <1>6, <2>1 DEF AnswerOf, Current
<1>8. reply.items = ItemsOf(query[c].tool, query[c].scope, [version |-> reply.version, how |-> reply.how])
  BY DEF ItemsOf
<1> HIDE DEF reply
<1>9. CallOK(c)'
  BY <1>3, <1>4, <1>7, <1>8, PagedIsOK
<1> QED
  BY <1>2, <1>4, <1>9, QuietStep DEF AwaitsIndex

\* Without a record, or from a stale index, navigation makes no claim.
LEMMA VagueIsOK ==
    ASSUME Sizes, IndexInv, NEW c \in Query, query[c].phase \notin {"idle", "answered", "failed"},
           query[c].tool = "navigate", NEW reply, reply.stale, ~reply.total, ~reply.exact,
           query'[c] = Index!Paged(query[c], reply), lived'[c] = lived[c]
    PROVE  CallOK(c)'
<1>1. CallOK(c)
  BY DEF IndexInv
<1>2. AnswerOf(c, query[c], reply)
  BY DEF AnswerOf
<1> QED
  BY <1>1, <1>2, PagedIsOK

LEMMA LookUpStep == ASSUME IndexInv, Sizes, NEW c \in Query, Index!LookUp(c) PROVE IndexInv'
<1>1. /\ query[c].phase = "lookup"
      /\ UNCHANGED <<disk, repo, turns, index, saved, queue, build, lived>>
  BY DEF Index!LookUp
<1>2. PICK f \in query[c].scope :
         IF index.records[f] = 0 THEN Index!Set(c, Index!Paged(query[c], Index!NoClaim(index)))
         ELSE Index!TakeRecord(c, f, "looking")
  BY DEF Index!LookUp
<1>4. CallTyped(c)
  BY DEF IndexInv, CallOK
<1>5. query[c].tool = "navigate" /\ query[c].scope \subseteq File /\ query[c].scope # {}
  BY <1>1, <1>4 DEF CallTyped, Phases
<1>6. CASE Index!Set(c, Index!Paged(query[c], Index!NoClaim(index)))
  <2>1. query'[c] = Index!Paged(query[c], Index!NoClaim(index))
    BY <1>6, Acting
  <2>2. Index!NoClaim(index).stale /\ ~Index!NoClaim(index).total /\ ~Index!NoClaim(index).exact
    BY DEF Index!NoClaim, Index!Approximate
  <2>3. CallOK(c)'
    BY <1>1, <1>5, <2>1, <2>2, VagueIsOK
  <2> QED
    BY <1>1, <1>6, <2>3, QuietStep DEF AwaitsIndex
<1>7. CASE Index!TakeRecord(c, f, "looking")
  <2> DEFINE k == [Index!Goes(c, "looking") EXCEPT !.check = [file |-> f, held |-> index.records[f]]]
  <2>1. Index!Set(c, k)
    BY <1>7 DEF Index!TakeRecord
  <2>2. /\ query'[c] = k /\ CallOK(c) /\ DOMAIN query[c] = CallFields
        /\ \A g \in File : index.records[g] \in 0..turns
    BY <2>1, Acting
  <2>3. Kept(query[c], k) /\ k.phase = "looking" /\ k.check.file = f /\ k.check.held = index.records[f]
    BY <2>2 DEF Kept, Index!Goes, CallFields
  <2> HIDE DEF k
  <2>4. CallTyped(c)'
    BY <1>1, <1>4, <1>5, <2>2, <2>3 DEF CallTyped, Phases, Kept, Index!Tool
  <2>5. SnapOK(c)'
    BY <2>2, <2>3 DEF SnapOK
  <2>6. CallOK(c)'
    BY <1>1, <2>2, <2>3, <2>4, <2>5, GoesOnOK
  <2> QED
    BY <1>1, <2>1, <2>6, QuietStep DEF AwaitsIndex
<1> QED
  BY <1>2, <1>6, <1>7

\* A record that is put back, marked, makes an index again.
LEMMA MarkedIsIndex ==
    ASSUME IndexInv, NEW f \in File, NEW held \in 0..turns
    PROVE  /\ IsIndex(Index!Marked(f, held)) /\ Index!Marked(f, held).stale
           /\ Index!Marked(f, held).gen = index.gen /\ Index!Marked(f, held).truncated = index.truncated
<1>1. index \in IndexRecord /\ Past(index.records) /\ turns \in Nat
  BY DEF IndexInv, StateOK, IsIndex
<1>2. /\ Index!Marked(f, held) \in IndexRecord /\ Index!Marked(f, held).stale
      /\ Index!Marked(f, held).gen = index.gen /\ Index!Marked(f, held).truncated = index.truncated
      /\ Index!Marked(f, held).records = [index.records EXCEPT ![f] = held]
  <2> DEFINE r == [index.records EXCEPT ![f] = held]
  <2>1. r \in Records
    BY <1>1 DEF IndexRecord, Records
  <2>2. Index!Marked(f, held) = [index EXCEPT !.records = r, !.stale = TRUE]
    BY <1>1 DEF Index!Marked
  <2> HIDE DEF r
  <2>3. /\ Index!Marked(f, held) \in IndexRecord /\ Index!Marked(f, held).stale
        /\ Index!Marked(f, held).gen = index.gen /\ Index!Marked(f, held).truncated = index.truncated
        /\ Index!Marked(f, held).records = r
    BY <1>1, <2>1, <2>2 DEF IndexRecord
  <2> QED
    BY <2>3 DEF r
<1>3. Past(Index!Marked(f, held).records)
  BY <1>1, <1>2 DEF Past, IndexRecord, Records
<1> QED
  BY <1>2, <1>3 DEF IsIndex

\* A step of a call that may mark the index.
LEMMA MarkingStep ==
    ASSUME IndexInv, NEW c \in Query, query[c].phase \notin AwaitsIndex, NEW k, Index!Set(c, k), CallOK(c)',
           UNCHANGED <<disk, repo, turns, saved, build>>,
           lived' \in [Query -> [File -> SUBSET Nat]], \A d \in Query \ {c} : lived'[d] = lived[d],
           \/ index' = index
           \/ \E f \in File, held \in 0..turns : index' = Index!Marked(f, held),
           \/ queue' = queue
           \/ queue' = Append(queue, c) /\ query'[c].phase \in AwaitsIndex
    PROVE  IndexInv'
<1>1. DOMAIN query' = Query /\ \A d \in Query \ {c} : query'[d] = query[d]
  BY Acting
<1>2. turns' \in Nat /\ turns <= turns' /\ IsIndex(index)
  BY Acting
<1>3. IsIndex(index') /\ index'.gen = index.gen /\ index'.truncated = index.truncated
  BY <1>2, MarkedIsIndex
<1>4. IsIndex(index)'
  BY <1>3 DEF IsIndex, Past
<1> QED
  BY <1>1, <1>2, <1>3, <1>4, CallStep

LEMMA LookedUpStep == ASSUME IndexInv, NEW c \in Query, Index!LookedUp(c) PROVE IndexInv'
<1> DEFINE check == query[c].check
           now == IF index.stale \/ Index!Differs(check) THEN Index!Marked(check.file, check.held) ELSE index
           k == [Index!Goes(c, "origin") EXCEPT !.snap = now]
<1>1. /\ query[c].phase = "looking" /\ index' = now /\ Index!Set(c, k)
      /\ UNCHANGED <<disk, repo, policy, turns, saved, queue, build, lived>>
  BY DEF Index!LookedUp
<1>2. CallTyped(c) /\ CallOK(c) /\ query'[c] = k /\ DOMAIN query[c] = CallFields /\ IsIndex(index)
      /\ lived \in [Query -> [File -> SUBSET Nat]]
  BY <1>1, Acting
<1>3. /\ query[c].tool = "navigate" /\ check.file \in File /\ check.held \in 0..turns
      /\ query[c].scope \in SUBSET File /\ query[c].scope # {}
  BY <1>1, <1>2 DEF CallTyped, Phases
<1>4. IsIndex(now)
  BY <1>2, <1>3, MarkedIsIndex
<1>5. Kept(query[c], k) /\ k.phase = "origin" /\ k.snap = now
  BY <1>2 DEF Kept, Index!Goes, CallFields
<1>6. now = index \/ \E f \in File, held \in 0..turns : now = Index!Marked(f, held)
  BY <1>3
<1> HIDE DEF k, now, check
<1>7. CallTyped(c)'
  BY <1>1, <1>2, <1>3, <1>5 DEF CallTyped, Phases, Kept, Index!Tool
<1>8. SnapOK(c)'
  <2>1. IsIndex(query[c].snap)'
    BY <1>1, <1>2, <1>4, <1>5 DEF IsIndex, Past
  <2>2. Precedes(query[c].snap, index)'
    BY <1>1, <1>2, <1>4, <1>5 DEF Precedes, IsIndex, IndexRecord
  <2> QED
    BY <1>2, <1>5, <2>1, <2>2 DEF SnapOK
<1>9. CallOK(c)'
  BY <1>1, <1>2, <1>5, <1>7, <1>8, GoesOnOK
<1> QED
  BY <1>1, <1>2, <1>6, <1>9, MarkingStep DEF AwaitsIndex

\* After a question a call may always go for a fallback.
LEMMA ThirdIsOK ==
    ASSUME IndexInv, NEW c \in Query, query[c].phase \in Phases.server,
           Index!Set(c, [query[c] EXCEPT !.phase = "third"]), lived'[c] = lived[c], disk' = disk
    PROVE  CallOK(c)' /\ query'[c].phase = "third"
<1>1. query'[c] = [query[c] EXCEPT !.phase = "third"] /\ CallOK(c) /\ CallTyped(c) /\ DOMAIN query[c] = CallFields
  BY Acting
<1>2. Kept(query[c], query'[c]) /\ query'[c].phase = "third"
  BY <1>1 DEF Kept, CallFields
<1>3. CallTyped(c)'
  BY <1>1, <1>2 DEF CallTyped, Phases, Kept
<1>4. SnapOK(c)'
  BY <1>2 DEF SnapOK
<1> QED
  BY <1>1, <1>2, <1>3, <1>4, GoesOnOK DEF Phases

LEMMA ValidateStep == ASSUME IndexInv, Sizes, NEW c \in Query, Index!Validate(c) PROVE IndexInv'
<1> DEFINE k == query[c]
           f == IF k.phase = "verify" THEN Index!Least(k.todo) ELSE CHOOSE g \in k.scope : TRUE
<1>1. /\ k.phase \in {"origin", "origin again"} \/ (k.phase = "verify" /\ k.todo # {})
      /\ UNCHANGED <<disk, repo, turns, index, saved, build, lived>>
      /\ \/ Index!TakeRecord(c, f, Index!Reading(k.phase)) /\ queue' = queue
         \/ k.phase = "verify" /\ Index!Refresh(c, k, "third")
         \/ Index!Set(c, Index!Failed(k)) /\ queue' = queue
  BY DEF Index!Validate
<1>2. CallTyped(c) /\ CallOK(c) /\ SnapOK(c) /\ DOMAIN query[c] = CallFields
  BY DEF IndexInv, CallOK, CallTyped
<1>3. /\ k.tool \in Index!Tool /\ k.scope \in SUBSET File /\ k.scope # {}
      /\ k.phase \in {"origin", "origin again"} => k.tool = "navigate"
      /\ k.phase = "verify" => k.tool \in {"symbols", "navigate"} /\ k.todo \in SUBSET File
  BY <1>1, <1>2 DEF CallTyped, Phases
<1>4. f \in File
  <2>1. CASE k.phase = "verify"
    BY <1>1, <1>3, <2>1, LeastIn DEF Sizes
  <2>2. CASE k.phase # "verify"
    BY <1>3, <2>2
  <2> QED
    BY <2>1, <2>2
<1>5. CASE Index!TakeRecord(c, f, Index!Reading(k.phase)) /\ queue' = queue
  <2> DEFINE r == [Index!Goes(c, Index!Reading(k.phase)) EXCEPT !.check = [file |-> f, held |-> index.records[f]]]
  <2>1. Index!Set(c, r)
    BY <1>5 DEF Index!TakeRecord
  <2>2. query'[c] = r /\ \A g \in File : index.records[g] \in 0..turns
    BY <2>1, Acting
  <2>3. /\ Kept(k, r) /\ r.phase = Index!Reading(k.phase) /\ r.check.file = f
        /\ r.check.held = index.records[f] /\ r.snap = k.snap /\ r.saw = k.saw /\ r.todo = k.todo
    BY <1>2 DEF Kept, Index!Goes, CallFields
  <2>4. \/ k.phase = "origin" /\ r.phase = "origin, reading"
        \/ k.phase = "origin again" /\ r.phase = "origin again, reading"
        \/ k.phase = "verify" /\ r.phase = "verify, reading"
    BY <1>1, <2>3 DEF Index!Reading
  <2> HIDE DEF r, f
  <2>5. CallTyped(c)'
    BY <1>1, <1>2, <1>3, <1>4, <2>2, <2>3, <2>4 DEF CallTyped, Phases, Kept, Index!Tool
  <2>6. SnapOK(c)'
    <3>1. CASE k.phase = "origin"
      <4>1. IsIndex(query[c].snap)' /\ Precedes(query[c].snap, index)'
        BY <1>1, <1>2, <2>2, <2>3, <3>1 DEF SnapOK, IsIndex, Past, Precedes
      <4> QED
        BY <2>2, <2>4, <3>1, <4>1 DEF SnapOK
    <3>2. CASE k.phase = "origin again"
      BY <1>1, <1>2, <2>2, <2>3, <2>4, <3>2 DEF SnapOK, Current
    <3>3. CASE k.phase = "verify"
      <4>1. Matched(c)
        BY <1>2, <3>3 DEF SnapOK
      <4>2. Index!RefreshScope(query[c])' = Index!RefreshScope(query[c])
        BY <2>2, <2>3, RefreshScopeIs DEF Kept
      <4>3. Matched(c)'
        BY <1>1, <2>2, <2>3, <4>1, <4>2 DEF Matched, Current, Covers, Kept
      <4> QED
        BY <2>2, <2>4, <3>3, <4>3 DEF SnapOK
    <3> QED
      BY <2>4, <3>1, <3>2, <3>3
  <2>7. CallOK(c)'
    BY <1>1, <1>2, <2>2, <2>3, <2>4, <2>5, <2>6, GoesOnOK
  <2> QED
    BY <1>1, <1>5, <2>1, <2>7, QuietStep DEF AwaitsIndex
<1>6. CASE k.phase = "verify" /\ Index!Refresh(c, k, "third")
  <2>1. Index!Set(c, [k EXCEPT !.phase = "third"]) /\ queue' = Append(queue, c)
    BY <1>6 DEF Index!Refresh
  <2>2. CallOK(c)' /\ query'[c].phase = "third"
    BY <1>1, <1>6, <2>1, ThirdIsOK DEF Phases
  <2> QED
    BY <1>1, <2>1, <2>2, QuietStep DEF AwaitsIndex
<1>7. CASE Index!Set(c, Index!Failed(k)) /\ queue' = queue
  <2>1. CallOK(c)'
    BY <1>7, Acting, FailedIsOK
  <2> QED
    BY <1>1, <1>7, <2>1, QuietStep DEF AwaitsIndex
<1> QED
  BY <1>1, <1>5, <1>6, <1>7

LEMMA OriginValidatedStep == ASSUME IndexInv, Sizes, NEW c \in Query, Index!OriginValidated(c) PROVE IndexInv'
<1> DEFINE check == query[c].check
           k == Index!Goes(c, "asking")
           s == [f \in File |-> {disk[f]}]
<1>1. /\ query[c].phase = "origin, reading"
      /\ UNCHANGED <<disk, repo, turns, saved, queue, build>>
      /\ \/ index' = Index!Marked(check.file, check.held) /\ Index!Set(c, Index!Failed(query[c])) /\ lived' = lived
         \/ /\ index' = index /\ query[c].snap.stale /\ lived' = lived
            /\ Index!Set(c, Index!Paged(query[c], Index!FallbackNavigation(query[c].snap)))
         \/ index' = index /\ Index!Set(c, k) /\ lived' = [lived EXCEPT ![c] = s]
  BY Zenon DEF Index!OriginValidated
<1>2. CallTyped(c) /\ CallOK(c) /\ SnapOK(c) /\ DOMAIN query[c] = CallFields
  BY DEF IndexInv, CallOK, CallTyped
<1>3. /\ query[c].tool = "navigate" /\ check.file \in File /\ check.held \in 0..turns
      /\ query[c].scope \in SUBSET File /\ query[c].scope # {}
  BY <1>1, <1>2 DEF CallTyped, Phases
<1>4. lived \in [Query -> [File -> SUBSET Nat]] /\ disk \in Records
  BY DEF IndexInv, StateOK
<1>5. CASE index' = Index!Marked(check.file, check.held) /\ Index!Set(c, Index!Failed(query[c])) /\ lived' = lived
  <2>1. CallOK(c)'
    BY <1>5, Acting, FailedIsOK
  <2> QED
    BY <1>1, <1>3, <1>4, <1>5, <2>1, MarkingStep DEF AwaitsIndex
<1>6. CASE /\ index' = index /\ query[c].snap.stale /\ lived' = lived
           /\ Index!Set(c, Index!Paged(query[c], Index!FallbackNavigation(query[c].snap)))
  <2>1. CallOK(c)'
    <3> DEFINE reply == Index!FallbackNavigation(query[c].snap)
    <3>1. reply.stale /\ ~reply.total /\ ~reply.exact
      BY <1>6 DEF Index!FallbackNavigation, Index!Approximate
    <3>2. query'[c] = Index!Paged(query[c], reply)
      BY <1>6, Acting
    <3> HIDE DEF reply
    <3> QED
      BY <1>1, <1>3, <1>6, <3>1, <3>2, VagueIsOK
  <2> QED
    BY <1>1, <1>6, <2>1, QuietStep DEF AwaitsIndex
<1>7. CASE index' = index /\ Index!Set(c, k) /\ lived' = [lived EXCEPT ![c] = s]
  <2>1. query'[c] = k
    BY <1>7, Acting
  <2>2. Kept(query[c], k) /\ k.phase = "asking" /\ k.snap = query[c].snap
    BY <1>2 DEF Kept, Index!Goes, CallFields
  <2>3. s \in [File -> SUBSET Nat] /\ \A f \in File : s[f] = {disk[f]}
    BY <1>4 DEF Records
  <2> HIDE DEF k, s
  <2>4. /\ lived'[c] = s /\ lived' \in [Query -> [File -> SUBSET Nat]]
        /\ \A d \in Query \ {c} : lived'[d] = lived[d]
    BY <1>4, <1>7, <2>3
  <2>5. CallTyped(c)'
    BY <1>2, <1>3, <2>1, <2>2 DEF CallTyped, Phases, Kept, Index!Tool
  <2>6. SnapOK(c)'
    <3>1. IsIndex(query[c].snap)' /\ Precedes(query[c].snap, index)'
      BY <1>1, <1>2, <1>7, <2>1, <2>2 DEF SnapOK, IsIndex, Past, Precedes
    <3>2. Unchanged(c)'
      BY <1>1, <2>3, <2>4 DEF Unchanged
    <3> QED
      BY <2>1, <2>2, <3>1, <3>2 DEF SnapOK
  <2>7. CallOK(c)'
    <3>1. \A f \in File : disk'[f] \in lived'[c][f]
      BY <1>1, <2>3, <2>4
    <3> QED
      BY <1>1, <1>2, <2>1, <2>2, <2>5, <2>6, <3>1, GoesOnOK
  <2> QED
    BY <1>1, <1>7, <2>4, <2>7, MarkingStep DEF AwaitsIndex
<1> QED
  BY <1>1, <1>5, <1>6, <1>7

LEMMA OriginValidatedAgainStep ==
    ASSUME IndexInv, Sizes, NEW c \in Query, Index!OriginValidatedAgain(c) PROVE IndexInv'
<1> DEFINE check == query[c].check
           reply == Index!FallbackNavigation(query[c].snap)
<1>1. /\ query[c].phase = "origin again, reading"
      /\ UNCHANGED <<disk, repo, turns, saved, queue, build, lived>>
      /\ \/ index' = Index!Marked(check.file, check.held) /\ Index!Set(c, Index!Failed(query[c]))
         \/ index' = index /\ Index!Set(c, Index!Paged(query[c], reply))
  BY Zenon DEF Index!OriginValidatedAgain
<1>2. CallTyped(c) /\ CallOK(c) /\ SnapOK(c)
  BY DEF IndexInv, CallOK, CallTyped
<1>3. query[c].tool = "navigate" /\ check.file \in File /\ check.held \in 0..turns
  BY <1>1, <1>2 DEF CallTyped, Phases
<1>4. lived \in [Query -> [File -> SUBSET Nat]]
  BY DEF IndexInv, StateOK
<1>5. CASE index' = Index!Marked(check.file, check.held) /\ Index!Set(c, Index!Failed(query[c]))
  <2>1. CallOK(c)'
    BY <1>5, Acting, FailedIsOK
  <2> QED
    BY <1>1, <1>3, <1>4, <1>5, <2>1, MarkingStep DEF AwaitsIndex
<1>6. CASE index' = index /\ Index!Set(c, Index!Paged(query[c], reply))
  <2>1. reply.items = query[c].snap.records /\ ~reply.total /\ ~reply.exact
    BY DEF Index!FallbackNavigation, Index!Approximate
  <2>2. query'[c] = Index!Paged(query[c], reply)
    BY <1>6, Acting
  <2> HIDE DEF reply
  <2>3. AnswerOf(c, query[c], reply)
    BY <1>1, <1>2, <2>1 DEF AnswerOf, SnapOK, Current
  <2>4. CallOK(c)'
    BY <1>1, <1>2, <1>3, <2>2, <2>3, PagedIsOK
  <2> QED
    BY <1>1, <1>6, <2>4, QuietStep DEF AwaitsIndex
<1> QED
  BY <1>1, <1>5, <1>6

LEMMA TargetValidatedStep == ASSUME IndexInv, Sizes, NEW c \in Query, Index!TargetValidated(c) PROVE IndexInv'
<1> DEFINE check == query[c].check
           k == [Index!Goes(c, "verify") EXCEPT !.todo = @ \ {check.file}]
<1>1. /\ query[c].phase = "verify, reading"
      /\ UNCHANGED <<disk, repo, turns, saved, build, lived>>
      /\ \/ index' = Index!Marked(check.file, check.held) /\ Index!Refresh(c, query[c], "third")
         \/ index' = index /\ queue' = queue /\ Index!Set(c, k)
  BY Zenon DEF Index!TargetValidated
<1>2. CallTyped(c) /\ CallOK(c) /\ SnapOK(c) /\ DOMAIN query[c] = CallFields
  BY DEF IndexInv, CallOK, CallTyped
<1>3. /\ query[c].tool \in {"symbols", "navigate"} /\ check.file \in File /\ check.held \in 0..turns
      /\ query[c].scope \in SUBSET File /\ query[c].scope # {} /\ query[c].todo \in SUBSET File
  BY <1>1, <1>2 DEF CallTyped, Phases
<1>4. lived \in [Query -> [File -> SUBSET Nat]]
  BY DEF IndexInv, StateOK
<1>5. CASE index' = Index!Marked(check.file, check.held) /\ Index!Refresh(c, query[c], "third")
  <2>1. Index!Set(c, [query[c] EXCEPT !.phase = "third"]) /\ queue' = Append(queue, c)
    BY <1>5 DEF Index!Refresh
  <2>2. CallOK(c)' /\ query'[c].phase = "third"
    BY <1>1, <2>1, ThirdIsOK DEF Phases
  <2> QED
    BY <1>1, <1>3, <1>4, <1>5, <2>1, <2>2, MarkingStep DEF AwaitsIndex
<1>6. CASE index' = index /\ queue' = queue /\ Index!Set(c, k)
  <2>1. query'[c] = k
    BY <1>6, Acting
  <2>2. /\ Kept(query[c], k) /\ k.phase = "verify" /\ k.snap = query[c].snap /\ k.saw = query[c].saw
        /\ k.todo = query[c].todo \ {check.file}
    BY <1>2 DEF Kept, Index!Goes, CallFields
  <2> HIDE DEF k
  <2>3. CallTyped(c)'
    BY <1>2, <1>3, <2>1, <2>2 DEF CallTyped, Phases, Kept, Index!Tool
  <2>4. Index!RefreshScope(query[c])' = Index!RefreshScope(query[c])
    BY <2>1, <2>2, RefreshScopeIs DEF Kept
  <2>5. Matched(c)'
    BY <1>1, <1>2, <2>1, <2>2, <2>4 DEF SnapOK, Matched, Current, Covers, Kept
  <2>6. SnapOK(c)'
    BY <2>1, <2>2, <2>5 DEF SnapOK
  <2>7. CallOK(c)'
    BY <1>1, <1>2, <2>1, <2>2, <2>3, <2>6, GoesOnOK
  <2> QED
    BY <1>1, <1>6, <2>7, QuietStep DEF AwaitsIndex
<1> QED
  BY <1>1, <1>5, <1>6

LEMMA ServerStep ==
    ASSUME IndexInv, NEW c \in Query, Index!ServerAnswers(c) \/ Index!ServerFails(c) PROVE IndexInv'
<1>1. /\ query[c].phase = "asking"
      /\ UNCHANGED <<disk, repo, turns, index, saved, build, lived>>
  BY DEF Index!ServerAnswers, Index!ServerFails
<1>2. CallTyped(c) /\ CallOK(c) /\ SnapOK(c) /\ DOMAIN query[c] = CallFields
  BY DEF IndexInv, CallOK, CallTyped
<1>3. CASE Index!ServerAnswers(c)
  <2>1. PICK saw \in [File -> UNION {lived[c][f] : f \in File}] :
          /\ \A f \in File : saw[f] \in lived[c][f]
          /\ Index!Refresh(c, [query[c] EXCEPT !.saw = saw], "second")
    BY <1>3 DEF Index!ServerAnswers
  <2> DEFINE k == [[query[c] EXCEPT !.saw = saw] EXCEPT !.phase = "second"]
  <2>2. Index!Set(c, k) /\ queue' = Append(queue, c)
    BY <2>1 DEF Index!Refresh
  <2>3. query'[c] = k
    BY <2>2, Acting
  <2>4. Kept(query[c], k) /\ k.phase = "second" /\ k.snap = query[c].snap /\ k.saw = saw
    BY <1>2 DEF Kept, CallFields
  <2> HIDE DEF k
  <2>5. CallTyped(c)'
    BY <1>1, <1>2, <2>3, <2>4 DEF CallTyped, Phases, Kept, Index!Tool
  <2>6. SnapOK(c)'
    <3>1. IsIndex(query[c].snap)' /\ Precedes(query[c].snap, index)'
      BY <1>1, <1>2, <2>3, <2>4 DEF SnapOK, IsIndex, Past, Precedes
    <3>2. Unchanged(c)'
      BY <1>1, <1>2, <2>3, <2>4 DEF SnapOK, Unchanged
    <3>3. \A f \in File : query'[c].saw[f] \in lived'[c][f]
      BY <1>1, <2>1, <2>3, <2>4
    <3> QED
      BY <2>3, <2>4, <3>1, <3>2, <3>3 DEF SnapOK
  <2>7. CallOK(c)'
    BY <1>1, <1>2, <2>3, <2>4, <2>5, <2>6, GoesOnOK
  <2> QED
    BY <1>1, <2>2, <2>3, <2>4, <2>7, QuietStep DEF AwaitsIndex
<1>4. CASE Index!ServerFails(c)
  <2>1. Index!Set(c, [query[c] EXCEPT !.phase = "third"]) /\ queue' = Append(queue, c)
    BY <1>4 DEF Index!ServerFails, Index!Refresh
  <2>2. CallOK(c)' /\ query'[c].phase = "third"
    BY <1>1, <2>1, ThirdIsOK DEF Phases
  <2> QED
    BY <1>1, <2>1, <2>2, QuietStep DEF AwaitsIndex
<1> QED
  BY <1>3, <1>4

LEMMA ExactStep == ASSUME IndexInv, Sizes, NEW c \in Query, Index!Exact(c) PROVE IndexInv'
<1> DEFINE k == query[c]
           reply == Index!FromServer(k, k.snap)
<1>1. /\ k.phase = "verify" /\ UNCHANGED <<disk, repo, turns, index, saved, build, lived>>
      /\ \/ Index!Refresh(c, k, "third")
         \/ Index!Set(c, Index!Paged(k, reply)) /\ queue' = queue
  BY Zenon DEF Index!Exact
<1>2. CallTyped(c) /\ CallOK(c) /\ Matched(c)
  BY <1>1 DEF IndexInv, CallOK, SnapOK
<1>3. k.tool \in {"symbols", "navigate"} /\ k.scope \in SUBSET File
  BY <1>1, <1>2 DEF CallTyped, Phases
<1>4. CASE Index!Refresh(c, k, "third")
  <2>1. Index!Set(c, [query[c] EXCEPT !.phase = "third"]) /\ queue' = Append(queue, c)
    BY <1>4 DEF Index!Refresh
  <2>2. CallOK(c)' /\ query'[c].phase = "third"
    BY <1>1, <2>1, ThirdIsOK DEF Phases
  <2> QED
    BY <1>1, <2>1, <2>2, QuietStep DEF AwaitsIndex
<1>5. CASE Index!Set(c, Index!Paged(k, reply)) /\ queue' = queue
  <2> DEFINE items == [f \in File |-> IF f \in k.scope /\ k.saw[f] # 0 THEN k.snap.records[f] ELSE 0]
             rs == Index!RefreshScope(k)
  <2>1. /\ reply.items = items /\ reply.exact /\ ~reply.stale
        /\ reply.total = ((k.tool = "navigate") \/ ~k.snap.truncated)
        /\ reply.how = <<"server">> /\ reply.version.files = k.snap.files
    BY DEF Index!FromServer, Index!Version
  <2>2. k.scope \subseteq rs /\ rs \subseteq File
    BY <1>3 DEF Index!RefreshScope
  <2>3. /\ k.snap \in IndexRecord /\ k.snap.records = k.snap.files
        /\ \A f \in rs : /\ k.snap.records[f] \in {0} \cup lived[c][f] /\ k.saw[f] \in lived[c][f]
                         /\ k.snap.records[f] # 0 => k.saw[f] = k.snap.records[f]
        /\ ~k.snap.truncated => \A f \in rs \ Ignored : k.snap.records[f] \in lived[c][f]
        /\ k.tool = "navigate" => \A f \in k.scope : k.saw[f] # 0 => k.snap.records[f] # 0
    BY <1>2, Zenon DEF Matched, Current, Covers
  <2> HIDE DEF rs
  <2>4. \A f \in File : items[f] \in {0} \cup lived[c][f]
    BY <2>2, <2>3
  <2>5. ASSUME reply.total, NEW f \in k.scope \ Ignored, NEW v \in lived[c][f], lived[c][f] = {v}
        PROVE  items[f] = v
    <3>1. f \in File /\ f \in rs /\ k.saw[f] = v /\ k.snap.records[f] \in {0, v}
      BY <2>2, <2>3, <2>5
    <3>2. CASE v = 0
      BY <3>1, <3>2
    <3>3. CASE v # 0 /\ k.tool = "navigate"
      BY <2>3, <3>1, <3>3
    <3>4. CASE v # 0 /\ ~k.snap.truncated
      BY <2>3, <2>5, <3>1, <3>4
    <3> QED
      BY <2>1, <2>5, <3>2, <3>3, <3>4
  <2>6. \A f \in rs : k.snap.records[f] # 0 => Index!Text(k.saw[f]) = Index!Text(k.snap.records[f])
    BY <2>3
  <2>7. k.tool # "navigate" => items = InScope(k.scope, k.snap.files)
    BY <1>3, <2>2, <2>3 DEF InScope
  <2>8. query'[c] = Index!Paged(k, reply)
    BY <1>5, Acting
  <2> HIDE DEF reply, items
  <2>9. AnswerOf(c, query[c], reply)
    BY <2>1, <2>4, <2>5, <2>6 DEF AnswerOf, Current, rs
  <2>10. k.tool # "navigate" =>
            reply.items = ItemsOf(k.tool, k.scope, [version |-> reply.version, how |-> reply.how])
    <3>1. <<"server">> # <<"lexical">> /\ <<"server">> # <<"index">>
      OBVIOUS
    <3> QED
      BY <2>1, <2>7, <3>1 DEF ItemsOf
  <2>11. CallOK(c)'
    BY <1>1, <1>2, <2>8, <2>9, <2>10, PagedIsOK
  <2> QED
    BY <1>1, <1>5, <2>11, QuietStep DEF AwaitsIndex
<1> QED
  BY <1>1, <1>4, <1>5

\* There is a first file where there is any.
LEMMA FirstOne ==
    ASSUME Sizes, NEW S \in SUBSET File, Index!FirstFiles(S, MaxShared) = {} PROVE S = {}
<1> SUFFICES ASSUME S # {} PROVE FALSE
  OBVIOUS
<1> DEFINE f == Index!Least(S)
<1>1. f \in S /\ \A g \in S : f <= g
  BY LeastIn DEF Sizes
<1> HIDE DEF f
<1>2. {g \in S : g < f} = {}
  <2>1. \A g \in S : g \in Nat /\ f \in Nat /\ f <= g
    BY <1>1 DEF Sizes
  <2>2. \A g \in S : ~(g < f)
    BY <2>1
  <2> QED
    BY <2>2
<1>3. Cardinality({g \in S : g < f}) = 0
  BY <1>2, FS_EmptySet
<1> QED
  BY <1>1, <1>3, SameCardinality DEF Index!FirstFiles, Sizes

LEMMA ShareStep == ASSUME IndexInv, Sizes, NEW c \in Query, Index!Share(c) PROVE IndexInv'
<1> DEFINE k == query[c]
           reply == Index!Approximate(Index!Absent, FALSE, ~k.snap.truncated, k.snap)
           r == [Index!Goes(c, "shared") EXCEPT !.sent = policy]
<1>1. /\ k.phase = "sharing"
      /\ UNCHANGED <<disk, repo, turns, index, saved, queue, build, lived>>
      /\ \/ Index!Set(c, Index!Failed(k))
         \/ Index!Candidates(k) = {} /\ Index!Set(c, Index!Paged(k, reply))
         \/ policy = k.approved /\ Index!Set(c, r)
  BY Zenon DEF Index!Share, Index!StillApproved
<1>2. CallTyped(c) /\ CallOK(c) /\ SnapOK(c) /\ DOMAIN k = CallFields
  BY DEF IndexInv, CallOK, CallTyped
<1>3. k.tool = "external" /\ k.scope \in SUBSET File /\ k.scope # {}
  BY <1>1, <1>2 DEF CallTyped, Phases
<1>4. CASE Index!Set(c, Index!Failed(k))
  <2>1. CallOK(c)'
    BY <1>4, Acting, FailedIsOK
  <2> QED
    BY <1>1, <1>4, <2>1, QuietStep DEF AwaitsIndex
<1>5. CASE Index!Candidates(k) = {} /\ Index!Set(c, Index!Paged(k, reply))
  <2>1. /\ reply.items = Index!Absent /\ ~reply.stale /\ ~reply.exact
        /\ reply.total = ~k.snap.truncated /\ reply.how = <<"index">>
    BY DEF Index!Approximate
  <2>2. {f \in k.scope : k.snap.records[f] # 0} = {}
    BY <1>3, <1>5, FirstOne DEF Index!Candidates
  <2>3. query'[c] = Index!Paged(k, reply)
    BY <1>5, Acting
  <2> HIDE DEF reply
  <2>4. ~k.snap.truncated => \A f \in k.scope \ Ignored : 0 \in lived[c][f]
    BY <1>1, <1>2, <2>2 DEF SnapOK, Covers
  <2>5. AnswerOf(c, k, reply)
    BY <1>3, <2>1, <2>4 DEF AnswerOf, Current, Index!Absent
  <2>6. reply.items = ItemsOf(k.tool, k.scope, [version |-> reply.version, how |-> reply.how])
    <3>1. <<"index">> # <<"lexical">>
      OBVIOUS
    <3> QED
      BY <1>3, <2>1, <3>1 DEF ItemsOf
  <2>7. CallOK(c)'
    BY <1>1, <1>2, <2>3, <2>5, <2>6, PagedIsOK
  <2> QED
    BY <1>1, <1>5, <2>7, QuietStep DEF AwaitsIndex
<1>6. CASE policy = k.approved /\ Index!Set(c, r)
  <2>1. query'[c] = r
    BY <1>6, Acting
  <2>2. /\ DOMAIN r = CallFields /\ r.phase = "shared" /\ r.tool = k.tool /\ r.scope = k.scope
        /\ r.book = k.book /\ r.sent = k.approved /\ r.approved = k.approved /\ r.snap = k.snap
    BY <1>2, <1>6 DEF Index!Goes, CallFields
  <2> HIDE DEF r
  <2>3. CallTyped(c)'
    BY <1>2, <1>3, <2>1, <2>2 DEF CallTyped, Phases, Index!Tool
  <2>4. SnapOK(c)'
    BY <1>1, <1>2, <2>1, <2>2 DEF SnapOK, Current, Covers
  <2>5. BookOf(query[c])' /\ SeenOK(c)' /\ AnswerOK(c)'
    BY <1>1, <1>2, <2>1, <2>2 DEF CallOK, BookOf, SeenOK, AnswerOK
  <2>6. CallOK(c)'
    BY <2>3, <2>4, <2>5 DEF CallOK
  <2> QED
    BY <1>1, <1>6, <2>6, QuietStep DEF AwaitsIndex
<1> QED
  BY <1>1, <1>4, <1>5, <1>6

LEMMA RankedStep ==
    ASSUME IndexInv, Sizes, NEW c \in Query, Index!Ranked(c) \/ Index!RankFails(c) PROVE IndexInv'
<1> DEFINE k == query[c]
<1>1. k.phase = "shared" /\ UNCHANGED <<disk, repo, turns, index, saved, queue, build, lived>>
  BY DEF Index!Ranked, Index!RankFails
<1>2. CallTyped(c) /\ CallOK(c) /\ SnapOK(c)
  BY DEF IndexInv, CallOK
<1>3. k.tool = "external" /\ k.scope \in SUBSET File
  BY <1>1, <1>2 DEF CallTyped, Phases
<1>4. CASE Index!RankFails(c)
  <2>1. Index!Set(c, Index!Failed(k))
    BY <1>4 DEF Index!RankFails
  <2>2. CallOK(c)'
    BY <2>1, Acting, FailedIsOK
  <2> QED
    BY <1>1, <2>1, <2>2, QuietStep DEF AwaitsIndex
<1>5. CASE Index!Ranked(c)
  <2>1. PICK ranked \in SUBSET Index!Candidates(k) :
         LET snap == query[c].snap
             items == [f \in File |-> IF f \in ranked THEN snap.records[f] ELSE 0]
         IN  Index!Set(c, Index!Paged(query[c],
               [items |-> items, exact |-> FALSE, stale |-> FALSE,
                total |-> /\ ranked = {f \in query[c].scope : snap.records[f] # 0}
                          /\ ~snap.truncated,
                how |-> <<"external", items>>, version |-> Index!Version(snap)]))
    BY <1>5 DEF Index!Ranked
  <2> DEFINE items == [f \in File |-> IF f \in ranked THEN k.snap.records[f] ELSE 0]
             reply == [items |-> items, exact |-> FALSE, stale |-> FALSE,
                        total |-> /\ ranked = {f \in k.scope : k.snap.records[f] # 0}
                                  /\ ~k.snap.truncated,
                        how |-> <<"external", items>>, version |-> Index!Version(k.snap)]
  <2>2. Index!Set(c, Index!Paged(k, reply))
    BY <2>1
  <2>3. query'[c] = Index!Paged(k, reply)
    BY <2>2, Acting
  <2>4. ranked \subseteq k.scope
    BY DEF Index!Candidates, Index!FirstFiles
  <2>5. \A f \in File : items[f] \in {0} \cup lived[c][f]
    BY <1>1, <1>2, <2>4 DEF SnapOK, Current
  <2>6. ASSUME reply.total, NEW f \in k.scope \ Ignored, NEW v \in lived[c][f], lived[c][f] = {v}
        PROVE  items[f] = v
    <3>1. ranked = {g \in k.scope : k.snap.records[g] # 0} /\ ~k.snap.truncated /\ f \in File
      BY <1>3, <2>6
    <3>2. k.snap.records[f] = v
      BY <1>1, <1>2, <2>6, <3>1 DEF SnapOK, Covers
    <3> QED
      BY <3>1, <3>2
  <2>7. /\ reply.items = items /\ ~reply.exact /\ ~reply.stale /\ reply.how = <<"external", items>>
    OBVIOUS
  <2> HIDE DEF reply, items
  <2>8. AnswerOf(c, k, reply)
    BY <2>5, <2>6, <2>7 DEF AnswerOf, Current
  <2>9. reply.items = ItemsOf(k.tool, k.scope, [version |-> reply.version, how |-> reply.how])
    <3>1. /\ <<"external", items>> # <<"lexical">> /\ <<"external", items>> # <<"index">>
          /\ <<"external", items>> # <<"server">> /\ <<"external", items>>[2] = items
      OBVIOUS
    <3> QED
      BY <2>7, <3>1 DEF ItemsOf
  <2>10. CallOK(c)'
    BY <1>1, <1>2, <2>3, <2>8, <2>9, PagedIsOK
  <2> QED
    BY <1>1, <2>2, <2>10, QuietStep DEF AwaitsIndex
<1> QED
  BY <1>4, <1>5

-----------------------------------------------------------------------------
(* The refresh.                                                            *)

\* A step of the refresh that leaves the calls and the index alone.
LEMMA BuildStep ==
    ASSUME IndexInv, build # None, build'.by = build.by, BuildOK',
           UNCHANGED <<disk, repo, turns, index, queue, query, lived>>,
           saved' # None => IsIndex(saved)'
    PROVE  IndexInv'
<1>1. QueueOK'
  <2>1. QueueOK
    BY DEF IndexInv
  <2> QED
    BY <2>1, QueueStays
<1>2. StateOK'
  BY DEF IndexInv, StateOK, IsIndex, Past
<1>3. ASSUME NEW d \in Query PROVE CallOK(d)'
  <2>1. CallOK(d) /\ IsIndex(index) /\ turns \in Nat
    BY DEF IndexInv, StateOK
  <2>2. IsIndex(index)' /\ Precedes(index, index')
    BY <2>1 DEF IsIndex, IndexRecord, Past, Precedes
  <2> QED
    BY <2>1, <2>2, OtherCallOK
<1> QED
  BY <1>1, <1>2, <1>3 DEF IndexInv

\* What the invariant says of the refresh that runs and of its call.
LEMMA Building ==
    ASSUME IndexInv, build # None
    PROVE  /\ build \in BuildRecord /\ build.by \in Query /\ build.working \in Records
           /\ build.todo \in SUBSET File /\ build.scope \in SUBSET File /\ build.cut \in BOOLEAN
           /\ query[build.by].phase \in AwaitsIndex /\ BuildOK
           /\ CallTyped(build.by) /\ SnapOK(build.by) /\ CallOK(build.by)
           /\ \A f \in File : disk[f] \in lived[build.by][f] /\ disk[f] \in Nat /\ disk[f] <= turns
           /\ turns \in Nat /\ index \in IndexRecord
<1>1. BuildOK /\ build \in BuildRecord /\ build.by \in Query /\ query[build.by].phase \in AwaitsIndex
  BY DEF IndexInv, BuildOK, BuildRecord
<1>2. /\ build.working \in Records
      /\ build.todo \in SUBSET File /\ build.scope \in SUBSET File /\ build.cut \in BOOLEAN
  BY <1>1 DEF BuildRecord
<1>3. CallTyped(build.by) /\ SnapOK(build.by) /\ CallOK(build.by) /\ SeenOK(build.by)
  BY <1>1 DEF IndexInv, CallOK
<1>4. disk \in Records /\ Past(disk) /\ turns \in Nat /\ index \in IndexRecord
  BY DEF IndexInv, StateOK, IsIndex
<1>5. \A f \in File : disk[f] \in lived[build.by][f] /\ disk[f] \in Nat /\ disk[f] <= turns
  BY <1>1, <1>3, <1>4 DEF SeenOK, AwaitsIndex, Past, Records
<1> QED
  BY <1>1, <1>2, <1>3, <1>4, <1>5

LEMMA WalkStep == ASSUME IndexInv, Index!Walk PROVE IndexInv'
<1> DEFINE there == {f \in build.scope \ Ignored : disk[f] # 0}
           found == IF build.scope = File THEN Index!FirstFiles(there, limit) ELSE there
           working == [f \in File |-> IF f \in build.scope \ found THEN 0 ELSE build.working[f]]
           big == {f \in found : disk[f] \in Bulky}
           c == build.by
<1>1. /\ build # None /\ build.step = "walk"
      /\ UNCHANGED <<disk, repo, turns, index, saved, queue, query, lived>>
      /\ build' = [build EXCEPT !.step = "read", !.todo = found, !.big = big,
                                !.cut = found # there, !.working = working]
  BY DEF Index!Walk
<1>2. found \subseteq there /\ there \subseteq build.scope /\ big \subseteq found
  BY DEF Index!FirstFiles
<1>3. /\ build \in BuildRecord /\ build.working \in Records /\ build.scope \in SUBSET File
      /\ query[c].phase \in AwaitsIndex /\ BuildOK
      /\ \A f \in File : disk[f] \in lived[c][f] /\ disk[f] \in Nat /\ disk[f] <= turns
      /\ turns \in Nat
  BY <1>1, Building
<1>4. working \in Records /\ Past(working)
  BY <1>1, <1>3 DEF Records, Past, BuildOK
<1>5. \A f \in build.scope \ found :
         working[f] = 0 /\ (found = there /\ f \notin Ignored => disk[f] = 0)
  BY <1>2, <1>3
<1> HIDE DEF there, found, working, big
<1>6. /\ build' \in BuildRecord /\ build'.by = c /\ build'.scope = build.scope /\ build'.todo = found
      /\ build'.cut = (found # there) /\ build'.working = working /\ build'.step = "read"
  <2>1. big \in SUBSET File /\ found \in SUBSET File
    BY <1>2, <1>3
  <2> QED
    BY <1>1, <1>3, <1>4, <2>1 DEF BuildRecord
<1>7. ReadOK(c)'
  <2> SUFFICES ASSUME NEW f \in build.scope \ found
               PROVE  /\ working[f] \in {0} \cup lived[c][f]
                      /\ found = there /\ f \notin Ignored => working[f] \in lived[c][f]
                      /\ working[f] = 0
    BY <1>1, <1>6 DEF ReadOK
  <2> QED
    BY <1>3, <1>5
<1>8. BuildOK'
  <2>1. Index!RefreshScope(query[c]) \subseteq build.scope
    BY <1>1, <1>3 DEF BuildOK
  <2>2. Past(build.working)'
    BY <1>1, <1>4, <1>6 DEF Past
  <2> QED
    BY <1>1, <1>2, <1>3, <1>4, <1>6, <1>7, <2>1, <2>2 DEF BuildOK, Past
<1>9. saved' # None => IsIndex(saved)'
  BY <1>1 DEF IndexInv, StateOK, IsIndex, Past
<1> QED
  BY <1>1, <1>6, <1>8, <1>9, BuildStep

LEMMA ReadCandidateStep == ASSUME IndexInv, Sizes, Index!ReadCandidate PROVE IndexInv'
<1> DEFINE f == Index!Least(build.todo)
           kept == Index!Admitted(build, f) /\ Index!Fits(disk[f])
           v == IF kept THEN disk[f] ELSE 0
           working == [build.working EXCEPT ![f] = v]
           c == build.by
<1>1. /\ build # None /\ build.step = "read" /\ build.todo # {}
      /\ UNCHANGED <<disk, repo, turns, index, saved, queue, query, lived>>
      /\ build' = [build EXCEPT !.todo = @ \ {f}, !.cut = @ \/ ~kept, !.working[f] = v]
  BY DEF Index!ReadCandidate
<1>3. /\ build \in BuildRecord /\ build.working \in Records /\ build.scope \in SUBSET File
      /\ build.todo \in SUBSET File /\ build.cut \in BOOLEAN
      /\ query[c].phase \in AwaitsIndex /\ BuildOK /\ SnapOK(c)
      /\ \A g \in File : disk[g] \in lived[c][g] /\ disk[g] \in Nat /\ disk[g] <= turns
      /\ turns \in Nat
  BY <1>1, Building
<1>2. f \in build.todo /\ f \in File
  BY <1>1, <1>3, LeastIn DEF Sizes
<1>9. /\ v \in Nat /\ v <= turns /\ v \in {0} \cup lived[c][f] /\ (kept => v \in lived[c][f])
      /\ v # 0 => v = disk[f]
  BY <1>2, <1>3
<1>10. kept \in BOOLEAN
  BY DEF Index!Admitted, Index!Fits
<1> HIDE DEF f, kept, v
<1>4. working \in Records /\ Past(working) /\ working[f] = v
      /\ \A g \in File \ {f} : working[g] = build.working[g]
  BY <1>1, <1>2, <1>3, <1>9 DEF Records, Past, BuildOK
<1>5. build' = [build EXCEPT !.todo = @ \ {f}, !.cut = @ \/ ~kept, !.working = working]
  BY <1>1, <1>3 DEF BuildRecord
<1> HIDE DEF working
<1>6. /\ build' \in BuildRecord /\ build'.by = c /\ build'.scope = build.scope
      /\ build'.todo = build.todo \ {f} /\ build'.cut = (build.cut \/ ~kept)
      /\ build'.working = working /\ build'.step = "read"
  <2> DEFINE todo == build.todo \ {f}
             cut == build.cut \/ ~kept
  <2>1. todo \in SUBSET File /\ cut \in BOOLEAN
    BY <1>3
  <2>2. build' = [build EXCEPT !.todo = todo, !.cut = cut, !.working = working]
    BY <1>3, <1>5 DEF BuildRecord
  <2> HIDE DEF todo, cut
  <2>3. /\ build' \in BuildRecord /\ build'.by = c /\ build'.scope = build.scope
        /\ build'.todo = todo /\ build'.cut = cut
        /\ build'.working = working /\ build'.step = "read"
    BY <1>1, <1>3, <1>4, <2>1, <2>2 DEF BuildRecord
  <2> QED
    BY <2>3 DEF todo, cut
<1>7. ReadOK(c)'
  <2> SUFFICES ASSUME NEW g \in build.scope \ (build.todo \ {f})
               PROVE  /\ working[g] \in {0} \cup lived[c][g]
                      /\ ~(build.cut \/ ~kept) /\ g \notin Ignored => working[g] \in lived[c][g]
                      /\ query[c].phase = "second" /\ working[g] # 0
                           /\ working[g] = query[c].snap.records[g] => query[c].saw[g] = working[g]
    BY <1>1, <1>6 DEF ReadOK
  <2>1. CASE g = f
    <3>1. ASSUME query[c].phase = "second", v # 0, v = query[c].snap.records[f]
          PROVE  query[c].saw[f] = v
      <4>1. Unchanged(c) /\ query[c].saw[f] \in lived[c][f]
        BY <1>2, <1>3, <3>1 DEF SnapOK
      <4>2. lived[c][f] = {v}
        BY <1>2, <1>9, <3>1, <4>1 DEF Unchanged
      <4> QED
        BY <4>1, <4>2
    <3> QED
      BY <1>4, <1>9, <2>1, <3>1
  <2>2. CASE g # f
    <3>1. g \in build.scope \ build.todo /\ working[g] = build.working[g]
      BY <1>3, <1>4, <2>2
    <3>2. ReadOK(c)
      BY <1>1, <1>3 DEF BuildOK
    <3> QED
      BY <3>1, <3>2 DEF ReadOK
  <2> QED
    BY <2>1, <2>2
<1>8. BuildOK'
  <2>1. Index!RefreshScope(query[c]) \subseteq build.scope /\ build.todo \subseteq build.scope
    BY <1>1, <1>3 DEF BuildOK
  <2>2. Past(build.working)'
    BY <1>1, <1>4, <1>6 DEF Past
  <2> QED
    BY <1>1, <1>3, <1>4, <1>6, <1>7, <2>1, <2>2 DEF BuildOK, Past
<1>11. saved' # None => IsIndex(saved)'
  BY <1>1 DEF IndexInv, StateOK, IsIndex, Past
<1> QED
  BY <1>1, <1>6, <1>8, <1>11, BuildStep

LEMMA SaveStep == ASSUME IndexInv, Index!Save PROVE IndexInv'
<1> DEFINE c == build.by
           truncated == (~build.full /\ index.truncated) \/ build.cut
           differs == \/ build.working # index.files
                      \/ build.repo # index.repo
                      \/ truncated # index.truncated
           gen == IF differs THEN index.gen + 1 ELSE index.gen
           next == [records |-> build.working, files |-> build.working, repo |-> build.repo,
                    gen |-> gen, stale |-> FALSE, truncated |-> truncated]
<1>1. /\ build # None /\ build.step = "read" /\ build.todo = {} /\ saved' = next
      /\ UNCHANGED <<disk, repo, turns, index, queue, query, lived>>
      /\ build' = [build EXCEPT !.step = "commit"]
  BY DEF Index!Save, Index!NextIndex
<1>2. /\ build \in BuildRecord /\ build.working \in Records /\ build.cut \in BOOLEAN
      /\ query[c].phase \in AwaitsIndex /\ BuildOK /\ index \in IndexRecord /\ turns \in Nat
  BY <1>1, Building
<1>3. /\ gen \in Nat /\ index.gen \in Nat /\ index.gen <= gen
      /\ index.gen = gen => truncated = index.truncated
  BY <1>2 DEF IndexRecord
<1>4. truncated \in BOOLEAN /\ (~truncated => ~build.cut)
  BY <1>2 DEF IndexRecord, BuildRecord
<1> HIDE DEF truncated, gen
<1>5. /\ saved' \in IndexRecord /\ ~saved'.stale /\ saved'.records = build.working
      /\ saved'.files = build.working /\ saved'.gen = gen /\ saved'.truncated = truncated
  BY <1>1, <1>2, <1>3, <1>4 DEF IndexRecord, BuildRecord
<1> HIDE DEF next
<1>6. IsIndex(saved)'
  BY <1>1, <1>2, <1>5 DEF IsIndex, Past, BuildOK
<1>7. Precedes(index, saved)'
  BY <1>1, <1>3, <1>5 DEF Precedes
<1>8. /\ build' \in BuildRecord /\ build'.by = c /\ build'.scope = build.scope
      /\ build'.todo = {} /\ build'.cut = build.cut /\ build'.working = build.working
  BY <1>1, <1>2 DEF BuildRecord
<1>9. ReadOK(c)'
  <2>1. ReadOK(c)
    BY <1>1, <1>2 DEF BuildOK
  <2> QED
    BY <1>1, <1>8, <2>1 DEF ReadOK
<1>10. BuildOK'
  <2>1. Index!RefreshScope(query[c]) \subseteq build.scope /\ Past(build.working)
    BY <1>1, <1>2 DEF BuildOK
  <2>2. Past(build.working)'
    BY <1>1, <1>8, <2>1 DEF Past
  <2>3. saved'.truncated = truncated /\ build'.cut = build.cut
    BY <1>5, <1>8
  <2> QED
    BY <1>1, <1>2, <1>4, <1>5, <1>6, <1>7, <1>8, <1>9, <2>1, <2>2, <2>3 DEF BuildOK
<1> QED
  BY <1>1, <1>6, <1>8, <1>10, BuildStep

LEMMA BeginRefreshStep == ASSUME IndexInv, Index!BeginRefresh PROVE IndexInv'
<1> DEFINE c == Head(queue)
           full == index.stale \/ Index!RefreshScope(query[c]) = File
           scope == IF full THEN File ELSE Index!RefreshScope(query[c])
           working == IF full THEN Index!Absent ELSE index.records
<1>1. /\ build = None /\ queue # <<>> /\ queue' = Tail(queue)
      /\ UNCHANGED <<disk, repo, turns, index, saved, query, lived>>
      /\ build' = [by |-> c, full |-> full, step |-> "walk", repo |-> repo, todo |-> {},
                   scope |-> scope, big |-> {}, cut |-> FALSE, working |-> working]
  BY DEF Index!BeginRefresh, Index!RepositoryFingerprint
<1>2. QueueOK /\ StateOK /\ turns \in Nat /\ repo \in Nat /\ IsIndex(index)
  BY DEF IndexInv, StateOK
<1>3. /\ c = queue[1] /\ 1 \in 1..Len(queue) /\ Len(queue) \in Nat /\ c \in Query
      /\ queue' \in Seq(Query) /\ Len(queue') = Len(queue) - 1
      /\ \A i \in 1..Len(queue') : queue'[i] = queue[i + 1] /\ i + 1 \in 1..Len(queue) /\ i \in Nat
  BY <1>1, <1>2 DEF QueueOK
<1>4. query[c].phase \in AwaitsIndex /\ CallTyped(c)
  BY <1>2, <1>3 DEF IndexInv, QueueOK, CallOK
<1>5. Index!RefreshScope(query[c]) \in SUBSET File
  BY <1>4 DEF Index!RefreshScope, CallTyped, AwaitsIndex, Phases
<1>6. full \in BOOLEAN /\ scope \in SUBSET File /\ Index!RefreshScope(query[c]) \subseteq scope
      /\ working \in Records /\ Past(working)
  BY <1>2, <1>5 DEF IsIndex, IndexRecord, Index!Absent, Records, Past
<1> HIDE DEF c, full, scope, working
<1>7. /\ build' \in BuildRecord /\ build'.by = c /\ build'.step = "walk" /\ build'.todo = {}
      /\ build'.scope = scope /\ build'.working = working
  BY <1>1, <1>2, <1>3, <1>6 DEF BuildRecord
<1>8. BuildOK'
  <2>1. Past(build.working)'
    BY <1>1, <1>6, <1>7 DEF Past
  <2> QED
    BY <1>1, <1>4, <1>6, <1>7, <2>1 DEF BuildOK, Past
<1>9. QueueOK'
  <2> SUFFICES ASSUME NEW i \in 1..Len(queue')
               PROVE  /\ query[queue'[i]].phase \in AwaitsIndex
                      /\ queue'[i] # c
                      /\ \A j \in 1..Len(queue') : queue'[i] = queue'[j] => i = j
    BY <1>1, <1>3, <1>7 DEF QueueOK
  <2>1. queue'[i] = queue[i + 1] /\ i + 1 \in 1..Len(queue) /\ i \in Nat /\ i + 1 # 1
    BY <1>3
  <2>2. query[queue'[i]].phase \in AwaitsIndex
    BY <1>2, <2>1 DEF QueueOK
  <2>3. queue'[i] # c
    BY <1>2, <1>3, <2>1 DEF QueueOK
  <2>4. ASSUME NEW j \in 1..Len(queue'), queue'[i] = queue'[j] PROVE i = j
    <3>1. queue'[j] = queue[j + 1] /\ j + 1 \in 1..Len(queue) /\ j \in Nat
      BY <1>3
    <3>2. i + 1 = j + 1
      BY <1>2, <2>1, <2>4, <3>1 DEF QueueOK
    <3> QED
      BY <2>1, <3>1, <3>2
  <2> QED
    BY <2>2, <2>3, <2>4
<1>10. StateOK'
  BY <1>1, <1>2 DEF StateOK, IsIndex, Past
<1>11. ASSUME NEW d \in Query PROVE CallOK(d)'
  <2>1. CallOK(d)
    BY DEF IndexInv
  <2>2. IsIndex(index)' /\ Precedes(index, index')
    BY <1>1, <1>2 DEF IsIndex, IndexRecord, Past, Precedes
  <2> QED
    BY <1>1, <1>2, <2>1, <2>2, OtherCallOK
<1> QED
  BY <1>8, <1>9, <1>10, <1>11 DEF IndexInv

\* The refresh ends, and its call goes on.
LEMMA EndStep ==
    ASSUME IndexInv, build # None, NEW c \in Query, c = build.by, NEW k, Index!Set(c, k), CallOK(c)',
           build' = None, UNCHANGED <<disk, repo, turns, saved>>, IsIndex(index)', Precedes(index, index'),
           lived' \in [Query -> [File -> SUBSET Nat]], \A d \in Query \ {c} : lived'[d] = lived[d],
           \/ queue' = queue
           \/ queue' = Append(queue, c) /\ query'[c].phase \in AwaitsIndex
    PROVE  IndexInv'
<1>1. DOMAIN query' = Query /\ \A d \in Query \ {c} : query'[d] = query[d]
  BY Acting
<1>2. QueueOK /\ StateOK
  BY DEF IndexInv
<1>3. \A i \in 1..Len(queue) : queue[i] \in Query /\ queue[i] # c
  BY <1>2 DEF QueueOK
<1>4. QueueOK'
  <2>1. CASE queue' = queue
    BY <1>1, <1>2, <1>3, <2>1, QueueStays
  <2>2. CASE queue' = Append(queue, c) /\ query'[c].phase \in AwaitsIndex
    BY <1>1, <1>2, <1>3, <2>2, QueueGrows
  <2> QED
    BY <2>1, <2>2
<1>5. StateOK'
  BY <1>1, <1>2 DEF StateOK, IsIndex, Past
<1>6. ASSUME NEW d \in Query PROVE CallOK(d)'
  <2>1. CASE d = c
    BY <2>1
  <2>2. CASE d # c
    <3>1. CallOK(d) /\ IsIndex(index) /\ turns \in Nat
      BY <1>2 DEF IndexInv, StateOK
    <3> QED
      BY <1>1, <2>2, <3>1, OtherCallOK
  <2> QED
    BY <2>1, <2>2
<1> QED
  BY <1>4, <1>5, <1>6 DEF IndexInv, BuildOK

LEMMA InterruptedStep == ASSUME IndexInv, Index!Interrupted PROVE IndexInv'
<1>0. PICK c \in Query : c = build.by
  BY Building DEF Index!Interrupted
<1> DEFINE k == IF query[c].tool = "search" THEN Index!Goes(c, "lexical") ELSE Index!Failed(query[c])
<1>1. /\ build # None /\ build' = None
      /\ UNCHANGED <<disk, repo, turns, index, saved, lived>>
      /\ \/ query[c].phase = "second" /\ Index!Refresh(c, query[c], "third")
         \/ Index!Set(c, k) /\ queue' = queue
  BY <1>0, Zenon DEF Index!Interrupted
<1>2. c \in Query /\ query[c].phase \in AwaitsIndex /\ CallTyped(c) /\ CallOK(c)
  BY <1>0, <1>1, Building
<1>3. lived \in [Query -> [File -> SUBSET Nat]] /\ IsIndex(index)
  BY DEF IndexInv, StateOK
<1>4. IsIndex(index)' /\ Precedes(index, index')
  BY <1>1, <1>3 DEF IsIndex, IndexRecord, Past, Precedes
<1>5. CASE query[c].phase = "second" /\ Index!Refresh(c, query[c], "third")
  <2>1. Index!Set(c, [query[c] EXCEPT !.phase = "third"]) /\ queue' = Append(queue, c)
    BY <1>5 DEF Index!Refresh
  <2>2. CallOK(c)' /\ query'[c].phase = "third"
    BY <1>1, <1>2, <1>5, <2>1, ThirdIsOK DEF Phases
  <2> QED
    BY <1>0, <1>1, <1>2, <1>3, <1>4, <2>1, <2>2, EndStep DEF AwaitsIndex
<1>6. CASE Index!Set(c, k) /\ queue' = queue
  <2>1. query'[c] = k
    BY <1>2, <1>6, Acting
  <2>2. CASE query[c].tool # "search"
    <3>1. CallOK(c)'
      BY <1>2, <2>1, <2>2, FailedIsOK
    <3> QED
      BY <1>0, <1>1, <1>2, <1>3, <1>4, <1>6, <3>1, EndStep
  <2>3. CASE query[c].tool = "search"
    <3>1. DOMAIN query[c] = CallFields
      BY <1>2 DEF CallTyped
    <3>2. Kept(query[c], query'[c]) /\ query'[c].phase = "lexical"
      BY <2>1, <2>3, <3>1 DEF Kept, Index!Goes, CallFields
    <3>3. CallTyped(c)'
      BY <1>2, <2>3, <3>2 DEF CallTyped, Phases, Kept, Index!Tool, AwaitsIndex
    <3>4. SnapOK(c)'
      BY <3>2 DEF SnapOK
    <3>5. CallOK(c)'
      BY <1>1, <1>2, <3>2, <3>3, <3>4, GoesOnOK DEF AwaitsIndex
    <3> QED
      BY <1>0, <1>1, <1>2, <1>3, <1>4, <1>6, <3>5, EndStep
  <2> QED
    BY <2>2, <2>3
<1> QED
  BY <1>1, <1>5, <1>6

\* An answer that is made from what the refresh left.
LEMMA LocalIsOK ==
    ASSUME Sizes, IndexInv, NEW c \in Query, query[c].phase \in AwaitsIndex,
           query[c].tool \in {"search", "symbols"}, NEW snap, IsIndex(snap), ~snap.stale,
           Current(c, snap.records, query[c].scope),
           ~snap.truncated => Covers(c, snap.records, query[c].scope),
           query'[c] = Index!Paged(query[c], Index!Approximate(Index!Within(query[c], snap.records), FALSE, ~snap.truncated, snap)),
           lived'[c] = lived[c]
    PROVE  CallOK(c)'
<1> DEFINE k == query[c]
           items == Index!Within(k, snap.records)
           reply == Index!Approximate(items, FALSE, ~snap.truncated, snap)
<1>1. CallOK(c) /\ CallTyped(c)
  BY DEF IndexInv, CallOK
<1>2. k.scope \in SUBSET File
  BY <1>1 DEF CallTyped, Phases, AwaitsIndex
<1>3. /\ reply.items = items /\ ~reply.stale /\ ~reply.exact /\ reply.total = ~snap.truncated
      /\ reply.how = <<"index">> /\ reply.version.files = snap.files
  BY DEF Index!Approximate, Index!Version
<1>4. items = InScope(k.scope, snap.files)
  BY DEF Index!Within, InScope, IsIndex
<1>5. \A f \in File : items[f] = IF f \in k.scope THEN snap.records[f] ELSE 0
  BY DEF Index!Within
<1>6. query'[c] = Index!Paged(k, reply)
  OBVIOUS
<1> HIDE DEF reply, items
<1>7. AnswerOf(c, k, reply)
  BY <1>2, <1>3, <1>5 DEF AnswerOf, Current, Covers
<1>8. reply.items = ItemsOf(k.tool, k.scope, [version |-> reply.version, how |-> reply.how])
  <2>1. <<"index">> # <<"lexical">>
    OBVIOUS
  <2> QED
    BY <1>3, <1>4, <2>1 DEF ItemsOf
<1> QED
  BY <1>1, <1>6, <1>7, <1>8, PagedIsOK DEF AwaitsIndex

LEMMA PagedPhase ==
    ASSUME NEW k, DOMAIN k = CallFields, NEW reply
    PROVE  Index!Paged(k, reply).phase = "answered" \/ Index!Paged(k, reply).phase = "failed"
<1> DEFINE done == [k EXCEPT !.phase = "answered", !.answer = reply, !.check = None, !.sent = None,
                          !.snap = IF reply.exact THEN @ ELSE None,
                          !.saw = IF reply.exact THEN @ ELSE Index!Absent]
<1>1. DOMAIN done = CallFields /\ done.phase = "answered"
  BY DEF CallFields
<1> HIDE DEF done
<1>2. \A book : [done EXCEPT !.book = book].phase = "answered"
  BY <1>1 DEF CallFields
<1>3. \A given, more : [done EXCEPT !.book.given = given, !.book.more = more].phase = "answered"
  BY <1>1 DEF CallFields
<1>4. Index!Failed(k).phase = "failed"
  BY DEF Index!Failed, Index!NoCall
<1> QED
  BY <1>2, <1>3, <1>4 DEF Index!Paged, done

LEMMA CommitStep == ASSUME IndexInv, Sizes, Index!Commit PROVE IndexInv'
<1>0. PICK c \in Query : c = build.by
  BY Building DEF Index!Commit
<1> DEFINE k == query[c]
           r == Index!Continue(k, saved)
           s == [f \in File |-> {disk[f]}]
           rs == Index!RefreshScope(k)
<1>1. /\ build # None /\ build.step = "commit" /\ build' = None /\ index' = saved /\ Index!Set(c, r)
      /\ UNCHANGED <<disk, repo, turns, saved>>
      /\ lived' = IF r.phase = "asking" THEN [lived EXCEPT ![c] = s] ELSE lived
      /\ queue' = IF r.phase = "third" THEN Append(queue, c) ELSE queue
  BY <1>0 DEF Index!Commit
<1>2. /\ k.phase \in AwaitsIndex /\ CallTyped(c) /\ CallOK(c) /\ SnapOK(c) /\ DOMAIN k = CallFields
      /\ k.tool \in Index!Tool /\ k.scope \in SUBSET File /\ k.scope # {}
  BY <1>0, <1>1, Building DEF CallTyped, AwaitsIndex, Phases
<1>3. /\ IsIndex(saved) /\ Precedes(index, saved) /\ ~saved.stale /\ saved.records = build.working
      /\ ~saved.truncated => ~build.cut
      /\ ReadOK(c) /\ rs \subseteq build.scope /\ build.todo = {}
  BY <1>0, <1>1, Building DEF BuildOK
<1>4. /\ lived \in [Query -> [File -> SUBSET Nat]] /\ disk \in Records /\ IsIndex(index) /\ turns \in Nat
      /\ saved \in IndexRecord /\ index \in IndexRecord
  BY <1>3 DEF IndexInv, StateOK, IsIndex
<1>5. query'[c] = r
  BY <1>1, Acting
<1>6. IsIndex(index)' /\ Precedes(index, index')
  BY <1>1, <1>3 DEF IsIndex, Past
<1>7. /\ Current(c, saved.records, rs)
      /\ ~saved.truncated => Covers(c, saved.records, rs)
      /\ k.phase = "second" => \A f \in rs : saved.records[f] # 0 /\ saved.records[f] = k.snap.records[f]
                                               => k.saw[f] = saved.records[f]
  BY <1>0, <1>3 DEF ReadOK, Current, Covers
<1>8. k.scope \subseteq rs /\ rs \subseteq File /\ (k.tool = "navigate" => rs = File)
  BY <1>2 DEF Index!RefreshScope
<1>9. k.phase = "second" => k.tool \in {"symbols", "navigate"}
  BY <1>2 DEF CallTyped, Phases
<1>10. k.phase = "third" => k.tool \in {"symbols", "navigate"}
  BY <1>2 DEF CallTyped, Phases
<1> HIDE DEF r, s, rs
\* What is left to show when the call does not ask a server and does not wait again.
<1>11. ASSUME CallOK(c)', lived' = lived, queue' = queue \/ (queue' = Append(queue, c) /\ r.phase \in AwaitsIndex)
       PROVE  IndexInv'
  BY <1>0, <1>1, <1>4, <1>5, <1>6, <1>11, EndStep
<1>12. ASSUME r.phase = "answered" \/ r.phase = "failed" \/ r.phase \in {"sharing", "lookup", "verify", "origin again"}
       PROVE  lived' = lived /\ queue' = queue
  BY <1>1, <1>12
<1>13. CASE k.phase = "first" /\ k.tool = "search"
  <2>1. r = Index!Paged(k, Index!LocalRank(k, saved))
    BY <1>13 DEF Index!Continue, r
  <2>2. r.phase = "answered" \/ r.phase = "failed"
    BY <1>2, <2>1, PagedPhase
  <2>3. CallOK(c)'
    <3>1. Current(c, saved.records, k.scope) /\ (~saved.truncated => Covers(c, saved.records, k.scope))
      BY <1>7, <1>8 DEF Current, Covers
    <3> QED
      BY <1>1, <1>2, <1>3, <1>5, <1>12, <1>13, <2>1, <2>2, <3>1, LocalIsOK DEF Index!LocalRank
  <2> QED
    BY <1>11, <1>12, <2>2, <2>3
<1>14. CASE k.phase = "first" /\ k.tool = "external"
  <2>1. r = [k EXCEPT !.phase = "sharing", !.snap = saved]
    BY <1>14 DEF Index!Continue, r
  <2>2. Kept(k, r) /\ r.phase = "sharing" /\ r.snap = saved
    BY <1>2, <2>1 DEF Kept, CallFields
  <2>3. lived' = lived /\ queue' = queue
    BY <1>12, <2>2
  <2>4. CallTyped(c)'
    BY <1>2, <1>5, <1>14, <2>2 DEF CallTyped, Phases, Kept
  <2>5. SnapOK(c)'
    BY <1>4, <1>5, <1>7, <1>8, <2>2, <2>3 DEF SnapOK, Current, Covers, Kept
  <2>6. CallOK(c)'
    BY <1>1, <1>2, <1>5, <1>14, <2>2, <2>3, <2>4, <2>5, GoesOnOK
  <2> QED
    BY <1>11, <2>3, <2>6
<1>15. CASE k.phase = "first" /\ k.tool = "symbols"
  <2>1. r = [k EXCEPT !.phase = "asking", !.snap = saved]
    BY <1>15 DEF Index!Continue, r
  <2>2. Kept(k, r) /\ r.phase = "asking" /\ r.snap = saved
    BY <1>2, <2>1 DEF Kept, CallFields
  <2>3. queue' = queue /\ lived' = [lived EXCEPT ![c] = s]
    BY <1>1, <2>2
  <2>4. s \in [File -> SUBSET Nat] /\ \A f \in File : s[f] = {disk[f]}
    BY <1>4 DEF Records, s
  <2>5. /\ lived'[c] = s /\ lived' \in [Query -> [File -> SUBSET Nat]]
        /\ \A d \in Query \ {c} : lived'[d] = lived[d]
    BY <1>4, <2>3, <2>4
  <2>6. CallTyped(c)'
    BY <1>2, <1>5, <1>15, <2>2 DEF CallTyped, Phases, Kept
  <2>7. SnapOK(c)'
    <3>1. IsIndex(query[c].snap)' /\ Precedes(query[c].snap, index)'
      BY <1>1, <1>4, <1>5, <1>6, <2>2 DEF IsIndex, Past, Precedes, IndexRecord
    <3>2. Unchanged(c)'
      BY <1>1, <2>4, <2>5 DEF Unchanged
    <3> QED
      BY <1>5, <2>2, <3>1, <3>2 DEF SnapOK
  <2>8. CallOK(c)'
    <3>1. \A f \in File : disk'[f] \in lived'[c][f]
      BY <1>1, <2>4, <2>5
    <3> QED
      BY <1>2, <1>5, <1>15, <2>2, <2>6, <2>7, <3>1, GoesOnOK
  <2> QED
    BY <1>0, <1>1, <1>4, <1>6, <2>3, <2>5, <2>8, EndStep
<1>16. CASE k.phase = "first" /\ k.tool = "navigate"
  <2>1. r = [k EXCEPT !.phase = "lookup"]
    BY <1>16 DEF Index!Continue, r
  <2>2. Kept(k, r) /\ r.phase = "lookup"
    BY <1>2, <2>1 DEF Kept, CallFields
  <2>3. lived' = lived /\ queue' = queue
    BY <1>12, <2>2
  <2>4. CallTyped(c)'
    BY <1>2, <1>5, <1>16, <2>2 DEF CallTyped, Phases, Kept
  <2>5. SnapOK(c)'
    BY <1>5, <2>2 DEF SnapOK
  <2>6. CallOK(c)'
    BY <1>1, <1>2, <1>5, <1>16, <2>2, <2>3, <2>4, <2>5, GoesOnOK
  <2> QED
    BY <1>11, <2>3, <2>6
<1>17. CASE k.phase = "second" /\ Index!Agrees(k.snap, saved) /\ Index!TargetsMatch(k, saved)
  <2> DEFINE todo == Index!Targets(k, saved) \cup (IF k.tool = "navigate" THEN k.scope ELSE {})
  <2>1. r = [k EXCEPT !.phase = "verify", !.todo = todo]
    BY <1>17 DEF Index!Continue, r
  <2>2. Kept(k, r) /\ r.phase = "verify" /\ r.todo = todo /\ r.snap = k.snap /\ r.saw = k.saw
    BY <1>2, <2>1 DEF Kept, CallFields
  <2>3. lived' = lived /\ queue' = queue
    BY <1>12, <2>2
  <2>4. todo \in SUBSET File
    BY <1>2 DEF Index!Targets
  <2> HIDE DEF todo
  <2>5. CallTyped(c)'
    BY <1>2, <1>5, <1>9, <1>17, <2>2, <2>4 DEF CallTyped, Phases, Kept
  <2>6. Matched(c)'
    <3>1. /\ IsIndex(k.snap) /\ Precedes(k.snap, index)
          /\ \A f \in File : k.saw[f] \in lived[c][f]
      BY <1>2, <1>17 DEF SnapOK
    <3>2. ~k.snap.stale /\ k.snap.files = saved.files /\ k.snap.gen = saved.gen
      BY <1>17 DEF Index!Agrees, Index!Version
    <3>3. k.snap \in IndexRecord /\ k.snap.records = k.snap.files /\ k.snap.records = saved.records
      BY <1>3, <3>1, <3>2 DEF IsIndex
    <3>4. k.snap.truncated = saved.truncated
      <4>1. /\ k.snap.gen <= index.gen /\ index.gen <= saved.gen
            /\ k.snap.gen = index.gen => k.snap.truncated = index.truncated
            /\ index.gen = saved.gen => index.truncated = saved.truncated
        BY <1>3, <3>1 DEF Precedes
      <4>2. k.snap.gen \in Nat /\ index.gen \in Nat /\ saved.gen \in Nat
        BY <1>4, <3>3 DEF IndexRecord
      <4>3. k.snap.gen = index.gen /\ index.gen = saved.gen
        BY ONLY <3>2, <4>1, <4>2
      <4> QED
        BY <4>1, <4>3
    <3>5. /\ Current(c, k.snap.records, rs)
          /\ ~k.snap.truncated => Covers(c, k.snap.records, rs)
          /\ \A f \in rs : k.saw[f] \in lived[c][f] /\ (k.snap.records[f] # 0 => k.saw[f] = k.snap.records[f])
      BY <1>7, <1>8, <1>17, <3>1, <3>3, <3>4
    <3>6. k.tool = "navigate" => \A f \in k.scope : k.saw[f] # 0 => k.snap.records[f] # 0
      BY <1>17, <3>3 DEF Index!TargetsMatch, Index!Targets
    <3>7. Index!RefreshScope(query[c])' = rs
      BY <1>5, <2>2, RefreshScopeIs DEF Kept, rs
    <3> QED
      BY <1>5, <2>2, <2>3, <3>3, <3>5, <3>6, <3>7 DEF Matched, Current, Covers, Kept
  <2>7. SnapOK(c)'
    BY <1>5, <2>2, <2>6 DEF SnapOK
  <2>8. CallOK(c)'
    BY <1>1, <1>2, <1>5, <1>17, <2>2, <2>3, <2>5, <2>7, GoesOnOK
  <2> QED
    BY <1>11, <2>3, <2>8
<1>18. CASE k.phase = "second" /\ ~(Index!Agrees(k.snap, saved) /\ Index!TargetsMatch(k, saved))
  <2>1. r = [k EXCEPT !.phase = "third"]
    BY <1>18 DEF Index!Continue, r
  <2>2. r.phase = "third"
    BY <1>2, <2>1 DEF CallFields
  <2>3. lived' = lived /\ queue' = Append(queue, c)
    BY <1>1, <2>2
  <2>4. CallOK(c)'
    BY <1>1, <1>18, <2>1, <2>3, ThirdIsOK DEF Phases
  <2> QED
    BY <1>11, <2>2, <2>3, <2>4 DEF AwaitsIndex
<1>19. CASE k.phase = "third" /\ k.tool = "navigate" /\ \E f \in k.scope : saved.records[f] # 0
  <2>1. r = [k EXCEPT !.phase = "origin again", !.snap = saved]
    BY <1>19 DEF Index!Continue, r
  <2>2. Kept(k, r) /\ r.phase = "origin again" /\ r.snap = saved
    BY <1>2, <2>1 DEF Kept, CallFields
  <2>3. lived' = lived /\ queue' = queue
    BY <1>12, <2>2
  <2>4. CallTyped(c)'
    BY <1>2, <1>5, <1>19, <2>2 DEF CallTyped, Phases, Kept
  <2>5. SnapOK(c)'
    BY <1>4, <1>5, <1>7, <1>8, <1>19, <2>2, <2>3 DEF SnapOK, Current
  <2>6. CallOK(c)'
    BY <1>1, <1>2, <1>5, <1>19, <2>2, <2>3, <2>4, <2>5, GoesOnOK
  <2> QED
    BY <1>11, <2>3, <2>6
<1>20. CASE k.phase = "third" /\ k.tool = "navigate" /\ ~(\E f \in k.scope : saved.records[f] # 0)
  <2>1. r = Index!Paged(k, Index!NoClaim(saved))
    BY <1>20 DEF Index!Continue, r
  <2>2. lived' = lived /\ queue' = queue
    BY <1>2, <1>12, <2>1, PagedPhase
  <2>3. Index!NoClaim(saved).stale /\ ~Index!NoClaim(saved).total /\ ~Index!NoClaim(saved).exact
    BY DEF Index!NoClaim, Index!Approximate
  <2>4. CallOK(c)'
    BY <1>5, <1>20, <2>1, <2>2, <2>3, VagueIsOK
  <2> QED
    BY <1>11, <2>2, <2>4
<1>21. CASE k.phase = "third" /\ k.tool # "navigate"
  <2>1. r = Index!Paged(k, Index!FallbackSymbols(k, saved))
    BY <1>21 DEF Index!Continue, r
  <2>2. lived' = lived /\ queue' = queue
    BY <1>2, <1>12, <2>1, PagedPhase
  <2>3. CallOK(c)'
    <3>1. Current(c, saved.records, k.scope) /\ (~saved.truncated => Covers(c, saved.records, k.scope))
      BY <1>7, <1>8 DEF Current, Covers
    <3> QED
      BY <1>2, <1>3, <1>5, <1>10, <1>21, <2>1, <2>2, <3>1, LocalIsOK DEF Index!FallbackSymbols
  <2> QED
    BY <1>11, <2>2, <2>3
<1> QED
  BY <1>2, <1>13, <1>14, <1>15, <1>16, <1>17, <1>18, <1>19, <1>20, <1>21 DEF AwaitsIndex, Index!Tool

-----------------------------------------------------------------------------
(* What happens outside.                                                   *)

LEMMA EditStep == ASSUME IndexInv, NEW f \in File, Index!Edit(f) PROVE IndexInv'
<1>1. /\ turns' = turns + 1 /\ UNCHANGED <<repo, index, saved, queue, build, query>>
      /\ \E v \in {0, turns + 1} :
           /\ v # disk[f] /\ disk' = [disk EXCEPT ![f] = v]
           /\ lived' = [c \in Query |-> IF Index!Running(c) THEN [lived[c] EXCEPT ![f] = @ \cup {v}] ELSE lived[c]]
  BY DEF Index!Edit
<1>2. PICK v \in {0, turns + 1} :
           /\ disk' = [disk EXCEPT ![f] = v]
           /\ lived' = [c \in Query |-> IF Index!Running(c) THEN [lived[c] EXCEPT ![f] = @ \cup {v}] ELSE lived[c]]
  BY <1>1
<1>3. /\ StateOK /\ QueueOK /\ BuildOK /\ turns \in Nat /\ disk \in Records /\ Past(disk)
      /\ lived \in [Query -> [File -> SUBSET Nat]] /\ IsIndex(index)
  BY DEF IndexInv, StateOK
<1>4. v \in Nat /\ v <= turns + 1
  BY <1>3
<1>5. disk' \in Records /\ Past(disk)' /\ disk'[f] = v /\ \A g \in File \ {f} : disk'[g] = disk[g]
  BY <1>1, <1>2, <1>3, <1>4 DEF Records, Past
<1>6. lived' \in [Query -> [File -> SUBSET Nat]]
  BY <1>2, <1>3, <1>4
<1>7. ASSUME NEW c \in Query
      PROVE  /\ \A g \in File : lived[c][g] \subseteq lived'[c][g]
             /\ ~Index!Running(c) => lived'[c] = lived[c]
             /\ Index!Running(c) => /\ \A g \in File \ {f} : lived'[c][g] = lived[c][g]
                              /\ v \in lived'[c][f]
  BY <1>2, <1>3
<1>8. \A x : IsIndex(x) => IsIndex(x)'
  <2> SUFFICES ASSUME NEW x, IsIndex(x) PROVE IsIndex(x)'
    OBVIOUS
  <2>1. x \in IndexRecord /\ x.records \in Records /\ Past(x.records) /\ (~x.stale => x.records = x.files)
    BY DEF IsIndex, IndexRecord
  <2>2. Past(x.records)'
    BY <1>1, <1>3, <2>1 DEF Past, Records
  <2> QED
    BY <2>1, <2>2 DEF IsIndex, IndexRecord, Records
<1>9. StateOK'
  BY <1>1, <1>3, <1>5, <1>6, <1>8 DEF StateOK, Records
<1>10. QueueOK'
  BY <1>1, <1>3 DEF QueueOK
<1>11. BuildOK'
  <2> SUFFICES ASSUME build # None PROVE BuildOK'
    BY <1>1 DEF BuildOK
  <2>1. /\ build \in BuildRecord /\ build.by \in Query /\ query[build.by].phase \in AwaitsIndex
        /\ build.working \in Records /\ build.scope \in SUBSET File /\ build' = build
    BY <1>1, Building
  <2>2. Past(build.working)'
    BY <1>1, <1>3, <2>1 DEF BuildOK, Past, Records
  <2>3. build.step # "walk" => ReadOK(build.by)'
    BY <1>1, <1>3, <1>7, <2>1 DEF BuildOK, ReadOK
  <2>4. build.step = "commit" => IsIndex(saved)' /\ Precedes(index, saved)'
    BY <1>1, <1>3, <1>8 DEF BuildOK, Precedes
  <2>5. /\ Index!RefreshScope(query[build.by]) \subseteq build.scope /\ build.todo \subseteq build.scope
        /\ build.step = "commit" => /\ build.todo = {} /\ ~saved.stale /\ saved.records = build.working
                                    /\ ~saved.truncated => ~build.cut
    BY <1>3, Zenon DEF BuildOK
  <2> QED
    BY <1>1, <2>1, <2>2, <2>3, <2>4, <2>5, Zenon DEF BuildOK, BuildRecord, Records
<1>12. ASSUME NEW c \in Query PROVE CallOK(c)'
  <2>0. CallOK(c) /\ CallTyped(c) /\ SnapOK(c) /\ SeenOK(c)
    BY DEF IndexInv, CallOK
  <2>1. CallTyped(c)'
    <3>1. \A n : n \in 0..turns => n \in 0..turns'
      BY <1>1, <1>3
    <3>2. query[c].phase \in {"looking", "origin, reading", "origin again, reading", "verify, reading"} =>
            query[c].check.file \in File /\ query[c].check.held \in 0..turns'
      BY <2>0, <3>1 DEF CallTyped
    <3>3. query' = query
      BY <1>1
    <3> QED
      BY <2>0, <3>2, <3>3, Zenon DEF CallTyped
  <2>2. CASE ~Index!Running(c)
    <3>1. query' = query /\ lived'[c] = lived[c]
      BY <1>1, <1>7, <2>2
    <3>2. query[c].phase \in {"idle", "answered", "failed"}
      BY <2>2 DEF Index!Running
    <3>3. SnapOK(c)'
      BY <3>1, <3>2 DEF SnapOK
    <3>4. SeenOK(c)'
      BY <3>1, <3>2 DEF SeenOK
    <3>5. BookOf(query[c])' /\ AnswerOK(c)'
      BY <2>0, <3>1 DEF CallOK, BookOf, AnswerOK, AnswerOf, Current
    <3> QED
      BY <2>1, <3>3, <3>4, <3>5 DEF CallOK
  <2>3. CASE Index!Running(c)
    <3>1. query' = query /\ query[c].phase \notin {"idle", "answered", "failed"}
      BY <1>1, <2>3 DEF Index!Running
    <3>2. SeenOK(c)'
      BY <1>5, <1>7, <2>0, <2>3, <3>1 DEF SeenOK
    <3>3. Matched(c) => Matched(c)'
      <4>1. Index!RefreshScope(query[c]) \subseteq File
        BY <2>0, <3>1 DEF Index!RefreshScope, CallTyped, Phases
      <4> QED
        BY <1>7, <3>1, <4>1 DEF Matched, Current, Covers
    <3>4. query[c].phase \in {"asking", "second"} => Unchanged(c)'
      <4> SUFFICES ASSUME query[c].phase \in {"asking", "second"} PROVE Unchanged(c)'
        OBVIOUS
      <4>1. IsIndex(query[c].snap) /\ Unchanged(c)
        BY <2>0 DEF SnapOK
      <4>2. ASSUME NEW g \in File, query[c].snap.records[g] # 0, disk'[g] = query[c].snap.records[g]
            PROVE  lived'[c][g] = {query[c].snap.records[g]}
        <5>1. query[c].snap.records[g] \in Nat /\ query[c].snap.records[g] <= turns
          BY <4>1 DEF IsIndex, IndexRecord, Records, Past
        <5>2. g # f
          BY <1>3, <1>5, <4>2, <5>1
        <5> QED
          BY <1>5, <1>7, <2>3, <4>1, <4>2, <5>2 DEF Unchanged
      <4> QED
        BY <3>1, <4>2 DEF Unchanged
    <3>5. query[c].phase \in {"origin", "origin, reading", "asking", "second"} =>
            IsIndex(query[c].snap)' /\ Precedes(query[c].snap, index)'
      BY <1>1, <1>8, <2>0, <3>1 DEF SnapOK, Precedes
    <3>6. query[c].phase \in {"sharing", "shared", "origin again", "origin again, reading"} =>
            /\ query[c].scope \subseteq File
            /\ \A S \in SUBSET File : Current(c, query[c].snap.records, S) => Current(c, query[c].snap.records, S)'
            /\ \A S \in SUBSET File : Covers(c, query[c].snap.records, S) => Covers(c, query[c].snap.records, S)'
      BY <1>7, <2>0, <3>1 DEF CallTyped, Phases, Current, Covers
    <3>7. SnapOK(c)'
      <4>1. query[c].phase = "second" => \A g \in File : query[c].saw[g] \in lived'[c][g]
        BY <1>7, <2>0 DEF SnapOK
      <4>2. query[c].phase \in {"sharing", "shared"} =>
              /\ query[c].snap \in IndexRecord /\ Current(c, query[c].snap.records, query[c].scope)'
              /\ ~query[c].snap.truncated => Covers(c, query[c].snap.records, query[c].scope)'
        BY <2>0, <3>6, <3>1 DEF SnapOK
      <4>3. query[c].phase \in {"origin again", "origin again, reading"} =>
              query[c].snap \in IndexRecord /\ Current(c, query[c].snap.records, File)'
        BY <2>0, <3>6, <3>1 DEF SnapOK
      <4>4. query[c].phase \in {"verify", "verify, reading"} => Matched(c)'
        BY <2>0, <3>3 DEF SnapOK
      <4> QED
        BY <3>1, <3>4, <3>5, <4>1, <4>2, <4>3, <4>4 DEF SnapOK, IndexRecord, Records
    <3>8. BookOf(query[c])' /\ AnswerOK(c)'
      BY <2>0, <3>1 DEF CallOK, BookOf, AnswerOK
    <3> QED
      BY <2>1, <3>2, <3>7, <3>8 DEF CallOK
  <2> QED
    BY <2>2, <2>3
<1> QED
  BY <1>9, <1>10, <1>11, <1>12 DEF IndexInv

LEMMA OutsideStep == ASSUME IndexInv, Index!CommitOrReconfigure PROVE IndexInv'
<1>1. /\ turns' = turns + 1 /\ UNCHANGED <<disk, index, saved, queue, build, query, lived>>
      /\ repo' = repo + 1 \/ repo' = repo
  BY DEF Index!CommitOrReconfigure
<1>2. StateOK /\ QueueOK /\ BuildOK /\ turns \in Nat /\ IsIndex(index) /\ repo \in Nat
  BY DEF IndexInv, StateOK
<1>3. turns' \in Nat /\ turns <= turns' /\ repo' \in Nat
  BY <1>1, <1>2
<1>4. \A x : IsIndex(x) => IsIndex(x)'
  <2> SUFFICES ASSUME NEW x, IsIndex(x) PROVE IsIndex(x)'
    OBVIOUS
  <2>1. x \in IndexRecord /\ x.records \in Records /\ Past(x.records) /\ (~x.stale => x.records = x.files)
    BY DEF IsIndex, IndexRecord
  <2>2. Past(x.records)'
    BY <1>2, <1>3, <2>1 DEF Past, Records
  <2> QED
    BY <2>1, <2>2 DEF IsIndex, IndexRecord, Records
<1>5. StateOK'
  <2>1. Past(disk)'
    BY <1>1, <1>2 DEF StateOK, Past, Records
  <2> QED
    BY <1>1, <1>2, <1>3, <1>4, <2>1 DEF StateOK, Records
<1>6. QueueOK'
  BY <1>1, <1>2 DEF QueueOK
<1>7. BuildOK'
  <2> SUFFICES ASSUME build # None PROVE BuildOK'
    BY <1>1 DEF BuildOK
  <2>1. build.working \in Records
    BY Building
  <2>2. Past(build.working)'
    BY <1>1, <1>2, <2>1 DEF BuildOK, Past, Records
  <2>3. build.step # "walk" => ReadOK(build.by)'
    BY <1>1, <1>2 DEF BuildOK, ReadOK
  <2>4. build.step = "commit" => IsIndex(saved)' /\ Precedes(index, saved)'
    BY <1>1, <1>2, <1>4 DEF BuildOK, Precedes
  <2>5. /\ build \in BuildRecord /\ query[build.by].phase \in AwaitsIndex
        /\ Index!RefreshScope(query[build.by]) \subseteq build.scope /\ build.todo \subseteq build.scope
        /\ build.step = "commit" => /\ build.todo = {} /\ ~saved.stale /\ saved.records = build.working
                                    /\ ~saved.truncated => ~build.cut
    BY <1>2, Zenon DEF BuildOK
  <2> QED
    BY <1>1, <2>2, <2>3, <2>4, <2>5, Zenon DEF BuildOK, BuildRecord, Records
<1>8. ASSUME NEW d \in Query PROVE CallOK(d)'
  <2>1. CallOK(d)
    BY DEF IndexInv
  <2>2. IsIndex(index)' /\ Precedes(index, index')
    BY <1>1, <1>2, <1>4 DEF IsIndex, IndexRecord, Precedes
  <2> QED
    BY <1>1, <1>2, <1>3, <2>1, <2>2, OtherCallOK
<1> QED
  BY <1>5, <1>6, <1>7, <1>8 DEF IndexInv

LEMMA ReopenStep == ASSUME IndexInv, Index!Reopen PROVE IndexInv'
<1>1. /\ turns' = turns + 1 /\ UNCHANGED <<disk, repo, saved, lived>>
      /\ index' = IF saved = None THEN Index!Empty ELSE [saved EXCEPT !.stale = TRUE]
      /\ queue' = <<>> /\ build' = None /\ query' = [c \in Query |-> Index!NoCall]
  BY DEF Index!Reopen
<1>2. StateOK /\ turns \in Nat /\ disk \in Records
  BY DEF IndexInv, StateOK
<1>3. \A x : IsIndex(x) => IsIndex(x)'
  <2> SUFFICES ASSUME NEW x, IsIndex(x) PROVE IsIndex(x)'
    OBVIOUS
  <2>1. x \in IndexRecord /\ x.records \in Records /\ Past(x.records) /\ (~x.stale => x.records = x.files)
    BY DEF IsIndex, IndexRecord
  <2>2. Past(x.records)'
    BY <1>1, <1>2, <2>1 DEF Past, Records
  <2> QED
    BY <2>1, <2>2 DEF IsIndex, IndexRecord, Records
<1>4. IsIndex(index)'
  <2>1. CASE saved = None
    BY <1>1, <1>2, <2>1 DEF IsIndex, IndexRecord, Records, Past, Index!Empty, Index!Absent
  <2>2. CASE saved # None
    <3>1. IsIndex(saved)
      BY <1>2, <2>2 DEF StateOK
    <3>2. /\ index' \in IndexRecord /\ index'.stale /\ index'.records = saved.records
      BY <1>1, <2>2, <3>1 DEF IsIndex, IndexRecord
    <3>3. Past(saved.records)'
      BY <1>1, <1>2, <3>1 DEF IsIndex, IndexRecord, Records, Past
    <3> QED
      BY <1>1, <3>2, <3>3 DEF IsIndex, Past
  <2> QED
    BY <2>1, <2>2
<1>5. StateOK'
  <2>1. Past(disk)'
    BY <1>1, <1>2 DEF StateOK, Past, Records
  <2>2. DOMAIN query' = Query
    BY <1>1
  <2> QED
    BY <1>1, <1>2, <1>3, <1>4, <2>1, <2>2 DEF StateOK, Records
<1>6. QueueOK' /\ BuildOK'
  BY <1>1 DEF QueueOK, BuildOK
<1>7. ASSUME NEW c \in Query PROVE CallOK(c)'
  BY <1>1, NoCallIsOK
<1> QED
  BY <1>5, <1>6, <1>7 DEF IndexInv

-----------------------------------------------------------------------------
LEMMA StartsSound == ASSUME Sizes, Index!IndexInit PROVE IndexInv
<1>1. /\ disk \in [File -> {0, 1}] /\ repo = 0 /\ turns = 1
      /\ index = Index!Empty /\ saved = None /\ queue = <<>> /\ build = None
      /\ query = [c \in Query |-> Index!NoCall] /\ lived = [c \in Query |-> [f \in File |-> {}]]
  BY DEF Index!IndexInit
<1>2. IsIndex(Index!Empty)
  BY <1>1 DEF IsIndex, IndexRecord, Records, Past, Index!Empty, Index!Absent
<1>3. disk \in Records /\ Past(disk)
  BY <1>1 DEF Records, Past
<1>4. DOMAIN query = Query /\ lived \in [Query -> [File -> SUBSET Nat]]
  BY <1>1
<1>5. StateOK
  BY <1>1, <1>2, <1>3, <1>4 DEF StateOK
<1>6. QueueOK /\ BuildOK
  BY <1>1 DEF QueueOK, BuildOK
<1>7. ASSUME NEW c \in Query PROVE CallOK(c)
  <2>1. /\ DOMAIN query[c] = CallFields /\ query[c].phase = "idle" /\ query[c].book = None
        /\ query[c].sent = None
    BY <1>1 DEF Index!NoCall, CallFields
  <2> QED
    BY <2>1 DEF CallOK, CallTyped, SnapOK, SeenOK, BookOf, AnswerOK, Phases
<1> QED
  BY <1>5, <1>6, <1>7 DEF IndexInv

LEMMA StaysSound == ASSUME Sizes, IndexInv, Index!IndexNext PROVE IndexInv'
<1>1. CASE \E c \in Query :
            \/ \E tool \in Index!Tool, scope \in {File, {1}} : Index!Ask(c, tool, scope)
            \/ Index!NextPage(c)
            \/ Index!Lexical(c) \/ Index!LookUp(c) \/ Index!LookedUp(c)
            \/ Index!Validate(c) \/ Index!OriginValidated(c) \/ Index!OriginValidatedAgain(c) \/ Index!TargetValidated(c)
            \/ Index!ServerAnswers(c) \/ Index!ServerFails(c) \/ Index!Exact(c)
            \/ Index!Share(c) \/ Index!Ranked(c) \/ Index!RankFails(c)
  BY <1>1, AskStep, NextPageStep, LexicalStep, LookUpStep, LookedUpStep, ValidateStep,
     OriginValidatedStep, OriginValidatedAgainStep, TargetValidatedStep, ServerStep, ExactStep,
     ShareStep, RankedStep
<1>2. CASE Index!BeginRefresh \/ Index!Walk \/ Index!ReadCandidate \/ Index!Save \/ Index!Commit \/ Index!Interrupted
  BY <1>2, BeginRefreshStep, WalkStep, ReadCandidateStep, SaveStep, CommitStep, InterruptedStep
<1>3. CASE (\E f \in File : Index!Edit(f)) \/ Index!CommitOrReconfigure \/ Index!Reopen
  BY <1>3, EditStep, OutsideStep, ReopenStep
<1> QED
  BY <1>1, <1>2, <1>3 DEF Index!IndexNext

LEMMA IdleSound == ASSUME IndexInv, UNCHANGED Index!indexVars PROVE IndexInv'
<1>1. UNCHANGED <<limit, disk, repo, turns, index, saved, queue, build, query, lived>>
  BY DEF Index!indexVars
<1>2. /\ StateOK => StateOK'
      /\ QueueOK => QueueOK'
  BY <1>1 DEF StateOK, QueueOK, IsIndex, Past
<1>3. BuildOK => BuildOK'
  BY <1>1 DEF BuildOK, BuildRecord, ReadOK, IsIndex, Past, Precedes
<1>4. ASSUME NEW d \in Query PROVE CallOK(d)'
  <2>1. CallOK(d) /\ turns \in Nat /\ IsIndex(index)
    BY DEF IndexInv, StateOK
  <2>2. IsIndex(index)' /\ Precedes(index, index')
    BY <1>1, <2>1 DEF IsIndex, IndexRecord, Past, Precedes
  <2> QED
    BY <1>1, <2>1, <2>2, OtherCallOK
<1> QED
  BY <1>2, <1>3, <1>4 DEF IndexInv

LEMMA InvSound == ASSUME Sizes, IndexInv PROVE Index!IndexSound
<1> SUFFICES ASSUME NEW c \in Query
             PROVE  /\ Index!Answered(c) => AnswerOf(c, query[c], query[c].answer)
                    /\ query[c].sent # None => query[c].sent = query[c].approved
                    /\ Index!Answered(c) /\ query[c].tool # "navigate" =>
                         /\ query[c].book.given = SubSeq(query[c].book.all, 1, Len(query[c].book.given))
                         /\ ~query[c].book.more => query[c].book.given = query[c].book.all
  BY
     DEF Index!IndexSound, Index!AnswersAreCurrent, Index!TotalsAreTotal, Index!ExactIsOneState,
         Index!SharedAsApproved, Index!PagesJoin,
         AnswerOf, Current
<1>1. CallTyped(c) /\ BookOf(query[c]) /\ AnswerOK(c)
  BY DEF IndexInv, CallOK
<1>2. Index!Answered(c) => AnswerOf(c, query[c], query[c].answer)
  BY <1>1 DEF Index!Answered, AnswerOK
<1>3. query[c].sent # None => query[c].sent = query[c].approved
  BY <1>1 DEF CallTyped
<1>4. ASSUME Index!Answered(c), query[c].tool # "navigate"
      PROVE  /\ query[c].book.given = SubSeq(query[c].book.all, 1, Len(query[c].book.given))
             /\ ~query[c].book.more => query[c].book.given = query[c].book.all
  <2>1. /\ query[c].book.all = Index!Listed(ItemsOf(query[c].tool, query[c].scope, query[c].book.binding))
        /\ query[c].book.given = SubSeq(query[c].book.all, 1, Len(query[c].book.given))
        /\ ~query[c].book.more => Len(query[c].book.given) = Len(query[c].book.all)
    BY <1>1, <1>4 DEF BookOf, Index!Answered
  <2>2. IsList(query[c].book.all)
    BY <2>1, ListedIsList DEF Sizes
  <2>3. SubSeq(query[c].book.all, 1, Len(query[c].book.all)) = query[c].book.all
    <3> DEFINE all == query[c].book.all
    <3>1. 0 \in 0..Len(all) /\ 0 \in 0..Len(all)
      BY <2>2 DEF IsList
    <3> HIDE DEF all
    <3> QED
      BY <2>2, <3>1, ListGrows DEF all
  <2> QED
    BY <2>1, <2>3
<1> QED
  BY <1>2, <1>3, <1>4

\* However the calls that answer from the index, its refreshes, the language server, the changes of
\* files, of the repository and of the settings, and restarts interleave: answers are current, complete
\* where they say so and of one state of the index, snippets go to the approved provider, pages join.
THEOREM AnswersFromTheIndexAreSound ==
    ASSUME IsFiniteSet(File), File \subseteq Nat, 1 \in File, PageSize \in Nat, MaxShared \in Nat \ {0}
    PROVE  MCSpec => []IndexSound
<1>0. Sizes
  BY DEF Sizes
<1>1. MCInit => IndexInv
  BY <1>0, StartsSound DEF MCInit
<1>2. IndexInv /\ [MCNext]_<<part, vars, readVars>> => IndexInv'
  <2>1. CASE Index!IndexNext
    BY <1>0, <2>1, StaysSound
  <2>2. CASE UNCHANGED readVars
    BY <2>2, IdleSound DEF readVars, Index!indexVars
  <2> QED
    BY <2>1, <2>2 DEF MCNext
<1>3. IndexInv => IndexSound
  BY <1>0, InvSound DEF IndexSound
<1> QED
  BY <1>1, <1>2, <1>3, PTL DEF MCSpec
==============================================================================
