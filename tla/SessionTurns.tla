------------------------------ MODULE SessionTurns ------------------------------
(***************************************************************************)
(* Turns of sessions: runTurn, continuePendingTurn, the model loop and     *)
(* interruptSession of the governor, recoverActiveSession of SessionStore. *)
(* Two kinds of files are shared.  The sessions index holds the records of *)
(* all sessions; every update loads it, changes one record and writes the  *)
(* whole back, so each update is two steps.  The event log of a session    *)
(* is only appended to, so an append is one.                               *)
(*                                                                         *)
(* A turn is named after the call of runTurn that began it.  Questions     *)
(* (request_user_input) are blocking; how they are answered is in          *)
(* UserInputResponse.                                                      *)
(***************************************************************************)
EXTENDS Naturals, FiniteSets

CONSTANTS
    Process,      \* front ends over one workspace
    Session,
    Task,         \* calls of runTurn and continuePendingTurn
    Interrupter,  \* calls of interruptSession
    Call,         \* tool calls a model may issue
    MaxAtWork,    \* bound: how many calls are at work at a time
    Attaches,     \* whether a process may start while another one is up
    None

ASSUME SessionTurnsAssumption ==
    /\ None \notin Process \cup Session \cup Task \cup Interrupter \cup Call
    /\ Process \cap (Task \cup Interrupter) = {}
    /\ Task \cap Interrupter = {}
    /\ MaxAtWork \in Nat
    /\ Attaches \in BOOLEAN

Actor == Process \cup Task \cup Interrupter

VARIABLES
    index,        \* sessions-index.json
    record,       \* status of the last record of a turn in the log
    prompted,     \* turns whose user message is in the log
    message,      \* the assistant message that issued a call: its turn and all its calls
    results,      \* results of a call in the log
    question,     \* the request a call of request_user_input has recorded
    waits,        \* calls whose result pauses the turn
    pc, home,     \* where an actor stands, and in which process it runs
    session, turn,
    within,       \* how a task executes tool calls
    batch,        \* the calls an actor has yet to give a result
    current,      \* the call a task executes, or whose question a recovery closes
    outcome,      \* the status a turn is to end with
    change,       \* the update of the index an actor is at
    loaded,       \* the index it has loaded for it
    captured,     \* the task whose controller an interrupter took
    controllers,  \* activeTurnControllers of a process
    aborted,      \* tasks whose controller was aborted
    continuing,   \* pendingTurnContinuations of a process
    patient       \* whether front ends wait for a call to return before the next one

fileVars == <<index, record, prompted, message, results, question, waits>>
taskVars == <<session, turn, within, batch, current, outcome>>
memoryVars == <<captured, controllers, aborted, continuing>>
vars == <<fileVars, pc, home, taskVars, change, loaded, memoryVars, patient>>

Status == {"pending", "running", "waiting_for_user", "ask_permission", "interrupted", "failed"}
Record == [status : Status, turn : Task \cup {None}, last : Task \cup {None}]
Index == [active : Session \cup {None}, sessions : [Session -> Record]]
Keep == "keep"
Change == [status : Status \cup {Keep}, turn : Task \cup {None, Keep}, last : Task \cup {Keep}]
Message == [turn : Task, calls : SUBSET Call]

\* Nothing the files hold is taken for a missing one, and no task for a value that is kept.
ASSUME MarkersAssumption ==
    /\ None \notin Change \cup Message \cup {Keep}
    /\ Keep \notin Task

TaskPc == {"idle", "check", "prompt", "register", "route", "pending", "loop", "model", "calls",
           "tool", "ask", "asked", "error", "denied", "finish", "status", "return", "done"}
InterrupterPc == {"idle", "settle", "abort", "done"}
ProcessPc == {"down", "answer", "finish", "up"}

TypeOK ==
    /\ index \in Index
    /\ record \in [Task -> Status \cup {"none"}]
    /\ prompted \subseteq Task
    /\ message \in [Call -> Message \cup {None}]
    /\ results \in [Call -> Nat]
    /\ question \in [Call -> {"none", "pending", "interrupted"}]
    /\ waits \subseteq Call
    /\ pc \in [Actor -> TaskPc \cup InterrupterPc \cup ProcessPc]
    /\ home \in [Actor -> Process \cup {None}]
    /\ session \in [Actor -> Session \cup {None}]
    /\ turn \in [Actor -> Task \cup {None}]
    /\ within \in [Task -> {"route", "batch", "paused", "resume"}]
    /\ batch \in [Actor -> SUBSET Call]
    /\ current \in [Actor -> Call \cup {None}]
    /\ outcome \in [Actor -> Status]
    /\ change \in [Actor -> Change \cup {None}]
    /\ loaded \in [Actor -> Index \cup {None}]
    /\ captured \in [Interrupter -> Task \cup {None}]
    /\ controllers \in [Process -> [Session -> Task \cup {None}]]
    /\ aborted \subseteq Task
    /\ continuing \in [Process -> SUBSET Session]
    /\ patient \in BOOLEAN

Init ==
    /\ index = [active |-> None,
                sessions |-> [s \in Session |-> [status |-> "pending", turn |-> None, last |-> None]]]
    /\ record = [t \in Task |-> "none"]
    /\ prompted = {}
    /\ message = [c \in Call |-> None]
    /\ results = [c \in Call |-> 0]
    /\ question = [c \in Call |-> "none"]
    /\ waits = {}
    /\ pc = [a \in Actor |-> IF a \in Process THEN "down" ELSE "idle"]
    /\ home = [a \in Actor |-> IF a \in Process THEN a ELSE None]
    /\ session = [a \in Actor |-> None]
    /\ turn = [a \in Actor |-> None]
    /\ within = [t \in Task |-> "route"]
    /\ batch = [a \in Actor |-> {}]
    /\ current = [a \in Actor |-> None]
    /\ outcome = [a \in Actor |-> "pending"]
    /\ change = [a \in Actor |-> None]
    /\ loaded = [a \in Actor |-> None]
    /\ captured = [i \in Interrupter |-> None]
    /\ controllers = [p \in Process |-> [s \in Session |-> None]]
    /\ aborted = {}
    /\ continuing = [p \in Process |-> {}]
    /\ patient \in BOOLEAN

\* An actor goes on once its update of the index is written.
At(a, place) == pc[a] = place /\ change[a] = None
Go(a, place) == pc' = [pc EXCEPT ![a] = place]
AtWork(a) == pc[a] \notin {"idle", "done", "down", "up"}

\* The local variables of calls that have ended are gone.
Forget(actors) ==
    /\ turn' = [a \in Actor |-> IF a \in actors THEN None ELSE turn[a]]
    /\ within' = [t \in Task |-> IF t \in actors THEN "route" ELSE within[t]]
    /\ batch' = [a \in Actor |-> IF a \in actors THEN {} ELSE batch[a]]
    /\ current' = [a \in Actor |-> IF a \in actors THEN None ELSE current[a]]
    /\ outcome' = [a \in Actor |-> IF a \in actors THEN "pending" ELSE outcome[a]]

Saw(s) == index.sessions[s]
IssuedBy(t) == {c \in Call : message[c] # None /\ message[c].turn = t}
Open(t) == {c \in IssuedBy(t) : results[c] = 0}
PendingQuestions(s) ==
    {c \in Call : question[c] = "pending" /\ \E t \in Task : session[t] = s /\ c \in IssuedBy(t)}

-----------------------------------------------------------------------------
(* The sessions index.                                                     *)

Touch == [status |-> Keep, turn |-> Keep, last |-> Keep]
ToStatus(status) == [Touch EXCEPT !.status = status]
StartedTurn(t) == [status |-> "running", turn |-> t, last |-> t]
FinishedTurn(t, status) == [status |-> status, turn |-> None, last |-> t]
ClosedTurn(status) == [Touch EXCEPT !.status = status, !.turn = None]

Update(a, c) == change' = [change EXCEPT ![a] = c]

Changed(old, c) ==
    [status |-> IF c.status = Keep THEN old.status ELSE c.status,
     turn |-> IF c.turn = Keep THEN old.turn ELSE c.turn,
     last |-> IF c.last = Keep THEN old.last ELSE c.last]

LoadIndex(a) ==
    /\ change[a] # None /\ loaded[a] = None
    /\ loaded' = [loaded EXCEPT ![a] = index]
    /\ UNCHANGED <<fileVars, pc, home, taskVars, change, memoryVars, patient>>

\* The whole index is written as it was loaded, but for the record of the session.
WriteIndex(a) ==
    /\ loaded[a] # None
    /\ index' = [active |-> session[a],
                 sessions |-> [loaded[a].sessions EXCEPT ![session[a]] = Changed(@, change[a])]]
    /\ change' = [change EXCEPT ![a] = None]
    /\ loaded' = [loaded EXCEPT ![a] = None]
    /\ UNCHANGED <<record, prompted, message, results, question, waits, pc, home, taskVars,
                   memoryVars, patient>>

-----------------------------------------------------------------------------
(* runTurn and continuePendingTurn up to the model loop.                   *)

\* A call comes to a process that is up; a patient front end has no other one at work.
Comes(a, p) ==
    /\ pc[a] = "idle" /\ At(p, "up")
    /\ Cardinality({b \in Task \cup Interrupter : AtWork(b)}) < MaxAtWork
    /\ home' = [home EXCEPT ![a] = p]

Alone(p) == \A t \in Task : home[t] = p => ~AtWork(t)

RunTurn(t) ==
    /\ \E p \in Process, s \in Session :
         /\ Comes(t, p)
         /\ patient => Alone(p)
         /\ Saw(s).status # "running"
         /\ session' = [session EXCEPT ![t] = s]
    /\ turn' = [turn EXCEPT ![t] = t]
    /\ Go(t, "check")
    /\ UNCHANGED <<fileVars, within, batch, current, outcome, change, loaded, memoryVars, patient>>

\* A session that waits for an answer or has a registered turn refuses the prompt.
CheckTurn(t) ==
    /\ At(t, "check")
    /\ IF PendingQuestions(session[t]) # {} \/ controllers[home[t]][session[t]] # None
         THEN Go(t, "done") /\ UNCHANGED <<record, change>>
         ELSE /\ record' = [record EXCEPT ![t] = "running"]
              /\ Update(t, StartedTurn(t))
              /\ Go(t, "prompt")
    /\ UNCHANGED <<index, prompted, message, results, question, waits, home, taskVars, loaded,
                   memoryVars, patient>>

AppendPrompt(t) ==
    /\ At(t, "prompt")
    /\ prompted' = prompted \cup {t}
    /\ Update(t, Touch)
    /\ Go(t, "register")
    /\ UNCHANGED <<index, record, message, results, question, waits, home, taskVars, loaded,
                   memoryVars, patient>>

\* The continuation of the last turn, which waits for an approval.
ContinueTurn(t) ==
    /\ \E p \in Process, s \in Session :
         /\ Comes(t, p)
         /\ patient => Alone(p)
         /\ s \notin continuing[p]
         /\ Saw(s).status = "ask_permission" /\ Saw(s).last # None
         /\ continuing' = [continuing EXCEPT ![p] = @ \cup {s}]
         /\ session' = [session EXCEPT ![t] = s]
         /\ turn' = [turn EXCEPT ![t] = Saw(s).last]
    /\ Go(t, "pending")
    /\ UNCHANGED <<fileVars, within, batch, current, outcome, change, loaded, captured,
                   controllers, aborted, patient>>

\* Mutant: every call of the turn is executed again.
CallsToResumeAll(t) == IssuedBy(t)

CallsToResume(t) == Open(t)

LoadPendingCalls(t) ==
    /\ At(t, "pending")
    /\ IF Open(turn[t]) = {}
         THEN Go(t, "return") /\ UNCHANGED <<within, batch, change>>
         ELSE /\ batch' = [batch EXCEPT ![t] = CallsToResume(turn[t])]
              /\ within' = [within EXCEPT ![t] = "resume"]
              /\ Update(t, StartedTurn(turn[t]))
              /\ Go(t, "register")
    /\ UNCHANGED <<fileVars, home, session, turn, current, outcome, loaded, memoryVars, patient>>

\* registerTurnAbortController: a turn that is registered already is superseded.
Register(t) ==
    /\ At(t, "register")
    /\ aborted' = aborted \cup ({controllers[home[t]][session[t]]} \ {None})
    /\ controllers' = [controllers EXCEPT ![home[t]][session[t]] = t]
    /\ Go(t, IF turn[t] = t THEN "route" ELSE "calls")
    /\ UNCHANGED <<fileVars, home, taskVars, change, loaded, captured, continuing, patient>>

\* The assistant message of turn[t] with these calls, which t sets out to execute.
Issue(t, calls) ==
    /\ \A c \in calls : message[c] = None
    /\ message' = [c \in Call |-> IF c \in calls THEN [turn |-> turn[t], calls |-> calls]
                                  ELSE message[c]]
    /\ batch' = [batch EXCEPT ![t] = calls]
    /\ Go(t, "calls")

\* applyRoutingDecision: to the governor, or to a worker by a call that no abort stops.
Route(t) ==
    /\ At(t, "route")
    /\ \/ Go(t, "loop") /\ UNCHANGED <<message, batch, within, change>>
       \/ /\ \E c \in Call : Issue(t, {c})
          /\ within' = [within EXCEPT ![t] = "route"]
          /\ Update(t, Touch)
    /\ UNCHANGED <<index, record, prompted, results, question, waits, home, session, turn, current,
                   outcome, loaded, memoryVars, patient>>

-----------------------------------------------------------------------------
(* runModelLoop.                                                           *)

\* The updates of the session record before a model request count as one.
RequestModel(t) ==
    /\ At(t, "loop")
    /\ IF t \in aborted THEN Go(t, "error") /\ UNCHANGED change
       ELSE Go(t, "model") /\ Update(t, Touch)
    /\ UNCHANGED <<fileVars, home, taskVars, loaded, memoryVars, patient>>

\* The model asks for tools, ends the turn, is asked again (a provider timeout, a recovery
\* instruction, the end of a tool cycle), or fails, as it does when it is aborted in time.
ModelAnswers(t) ==
    /\ At(t, "model")
    /\ \/ /\ \E calls \in SUBSET Call \ {{}} : Issue(t, calls)
          /\ within' = [within EXCEPT ![t] = "batch"]
          /\ Update(t, Touch)
          /\ UNCHANGED outcome
       \/ /\ outcome' = [outcome EXCEPT ![t] = "waiting_for_user"]
          /\ Update(t, Touch)
          /\ Go(t, "finish")
          /\ UNCHANGED <<message, batch, within>>
       \/ /\ Update(t, Touch)
          /\ Go(t, "loop")
          /\ UNCHANGED <<message, batch, within, outcome>>
       \/ /\ Go(t, "error")
          /\ UNCHANGED <<message, batch, within, outcome, change>>
    /\ UNCHANGED <<index, record, prompted, results, question, waits, home, session, turn, current,
                   loaded, memoryVars, patient>>

\* throwIfAborted before and after each call; a routed worker call is made without it.
Stopped(t) == t \in aborted /\ within[t] # "route"

\* A result of call c is appended to the log, and counted in the session record.
AppendResult(a, c) ==
    /\ results' = [results EXCEPT ![c] = @ + 1]
    /\ batch' = [batch EXCEPT ![a] = @ \ {c}]
    /\ Update(a, Touch)

\* A call is rejected unexecuted: not selected, repeated, or after a pause.
RejectCall(t) ==
    /\ At(t, "calls") /\ ~Stopped(t) /\ within[t] # "route"
    /\ \E c \in batch[t] : AppendResult(t, c)
    /\ UNCHANGED <<index, record, prompted, message, question, waits, pc, home, session, turn,
                   within, current, outcome, loaded, memoryVars, patient>>

BeginCall(t) ==
    /\ At(t, "calls") /\ ~Stopped(t) /\ within[t] # "paused"
    /\ \E c \in batch[t] : current' = [current EXCEPT ![t] = c]
    /\ Go(t, "tool")
    /\ UNCHANGED <<fileVars, home, session, turn, within, batch, outcome, change, loaded,
                   memoryVars, patient>>

\* The tool returns, also when the turn was aborted meanwhile.
FinishCall(t) ==
    /\ At(t, "tool")
    /\ AppendResult(t, current[t])
    /\ Go(t, "calls")
    /\ UNCHANGED <<index, record, prompted, message, question, waits, home, session, turn, within,
                   current, outcome, loaded, memoryVars, patient>>

\* The tool asks for a permission, or throws.
CallThrows(t) ==
    /\ At(t, "tool")
    /\ Go(t, "denied") \/ Go(t, "error")
    /\ UNCHANGED <<fileVars, home, taskVars, change, loaded, memoryVars, patient>>

\* request_user_input: only for the active turn of a running session.
AskUser(t) ==
    /\ At(t, "tool") /\ within[t] # "route"
    /\ Saw(session[t]).status = "running" /\ Saw(session[t]).turn = turn[t]
    /\ Go(t, "ask")
    /\ UNCHANGED <<fileVars, home, taskVars, change, loaded, memoryVars, patient>>

RecordQuestion(t) ==
    /\ At(t, "ask")
    /\ question' = [question EXCEPT ![current[t]] = "pending"]
    /\ Go(t, "asked")
    /\ UNCHANGED <<index, record, prompted, message, results, waits, home, taskVars, change, loaded,
                   memoryVars, patient>>

\* The result pauses the rest of a batch the model asked for just now.  The calls of a
\* continued turn go on.
PauseForUser(t) ==
    /\ At(t, "asked")
    /\ AppendResult(t, current[t])
    /\ waits' = waits \cup {current[t]}
    /\ within' = [within EXCEPT ![t] = IF @ = "batch" THEN "paused" ELSE @]
    /\ Go(t, "calls")
    /\ UNCHANGED <<index, record, prompted, message, question, home, session, turn, current, outcome,
                   loaded, memoryVars, patient>>

CallsEnd(t) ==
    /\ At(t, "calls")
    /\ \/ /\ Stopped(t)
          /\ Go(t, "error") /\ UNCHANGED outcome
       \/ /\ ~Stopped(t) /\ batch[t] = {} /\ within[t] # "paused"
          /\ \/ Go(t, "loop")
             \/ within[t] = "route" /\ Go(t, "error")
          /\ UNCHANGED outcome
       \/ /\ ~Stopped(t) /\ batch[t] = {} /\ within[t] = "paused"
          /\ IF question[current[t]] = "pending"
               THEN /\ outcome' = [outcome EXCEPT ![t] = "waiting_for_user"]
                    /\ Go(t, "finish")
               ELSE Go(t, "error") /\ UNCHANGED outcome
    /\ UNCHANGED <<fileVars, home, session, turn, within, batch, current, change, loaded, memoryVars,
                   patient>>

-----------------------------------------------------------------------------
(* The end of a turn.                                                      *)

\* finishFailedTurn: an interrupted session stays interrupted.
FinishFailedTurn(t) ==
    /\ At(t, "error") \/ At(t, "denied")
    /\ outcome' = [outcome EXCEPT ![t] =
           IF Saw(session[t]).status = "interrupted" THEN "interrupted"
           ELSE IF pc[t] = "denied" THEN "ask_permission" ELSE "failed"]
    /\ Go(t, "finish")
    /\ UNCHANGED <<fileVars, home, session, turn, within, batch, current, change, loaded, memoryVars,
                   patient>>

\* finishTurn and setSessionStatus.
FinishTurn(t) ==
    /\ \/ /\ At(t, "finish")
          /\ record' = [record EXCEPT ![turn[t]] = outcome[t]]
          /\ Update(t, FinishedTurn(turn[t], outcome[t]))
          /\ Go(t, "status")
       \/ /\ At(t, "status")
          /\ Update(t, ToStatus(outcome[t]))
          /\ Go(t, "return")
          /\ UNCHANGED record
    /\ UNCHANGED <<index, prompted, message, results, question, waits, home, taskVars, loaded,
                   memoryVars, patient>>

\* Mutant: whatever turn is registered is released.
ReleaseAny(t) ==
    controllers' = [controllers EXCEPT ![home[t]][session[t]] = None]

Release(t) ==
    controllers' = [controllers EXCEPT ![home[t]][session[t]] = IF @ = t THEN None ELSE @]

Return(t) ==
    /\ At(t, "return")
    /\ Release(t)
    /\ continuing' = IF turn[t] = t THEN continuing
                     ELSE [continuing EXCEPT ![home[t]] = @ \ {session[t]}]
    /\ aborted' = aborted \ {t}
    /\ Forget({t})
    /\ Go(t, "done")
    /\ UNCHANGED <<fileVars, home, session, change, loaded, captured, patient>>

-----------------------------------------------------------------------------
(* interruptSession.                                                       *)

\* The controller is looked up before the session is changed.
Interrupt(i) ==
    /\ \E p \in Process, s \in Session :
         /\ Comes(i, p)
         /\ session' = [session EXCEPT ![i] = s]
         /\ captured' = [captured EXCEPT ![i] = controllers[p][s]]
         /\ turn' = [turn EXCEPT ![i] = Saw(s).turn]
    /\ Go(i, "settle")
    /\ UNCHANGED <<fileVars, within, batch, current, outcome, change, loaded, controllers, aborted,
                   continuing, patient>>

InterruptQuestions(i) ==
    /\ At(i, "settle")
    /\ question' = [c \in Call |-> IF c \in PendingQuestions(session[i]) THEN "interrupted"
                                   ELSE question[c]]
    /\ Update(i, ClosedTurn("interrupted"))
    /\ Go(i, "abort")
    /\ UNCHANGED <<index, record, prompted, message, results, waits, home, taskVars, loaded,
                   memoryVars, patient>>

AbortTurn(i) ==
    /\ At(i, "abort")
    /\ aborted' = aborted \cup {t \in Task : t = captured[i] /\ AtWork(t)}
    /\ record' = IF captured[i] = None /\ turn[i] # None
                 THEN [record EXCEPT ![turn[i]] = "interrupted"] ELSE record
    /\ Go(i, "done")
    /\ UNCHANGED <<index, prompted, message, results, question, waits, home, taskVars, change,
                   loaded, captured, controllers, continuing, patient>>

-----------------------------------------------------------------------------
(* Processes: recoverActiveSession when one starts, and crashes.           *)

PendingOf(t) == {c \in IssuedBy(t) : question[c] = "pending"}

\* The calls of the assistant message that lacks results.
OpenGroup(t) == UNION {message[c].calls : c \in Open(t)}

\* Mutant: calls without a result are left as they are.
CallsToCloseNone(t) == {}

CallsToClose(t) == Open(t)

\* The open question of a turn pauses it, if its call has the result that says so.
LegalWait(t) == \E c \in PendingOf(t) \cap OpenGroup(t) : c \in waits

\* A crashed turn with open calls waits again or is interrupted; the second is a question
\* that is closed with it.
RecoverOpenCalls(t, status, closed) ==
    /\ Open(t) # {}
    /\ status = IF LegalWait(t) \/ (PendingOf(t) # {} /\ PendingOf(t) \cap OpenGroup(t) = {})
                THEN "waiting_for_user" ELSE "interrupted"
    /\ IF LegalWait(t) \/ PendingOf(t) \cap OpenGroup(t) = {} THEN closed = None
       ELSE closed \in PendingOf(t) \cap OpenGroup(t)

\* The same of a turn whose calls all have results: its latest open question counts.
RecoverAnswered(t, status, closed) ==
    /\ Open(t) = {}
    /\ \/ PendingOf(t) = {} /\ status = "interrupted" /\ closed = None
       \/ \E c \in PendingOf(t) :
            IF c \in waits THEN status = "waiting_for_user" /\ closed = None
            ELSE status = "interrupted" /\ closed = c

\* Only the active session is recovered, and only if it says it is running.
StartProcess(p) ==
    /\ pc[p] = "down"
    /\ Attaches \/ \A q \in Process : pc[q] = "down"
    /\ LET s == index.active IN
       IF s # None /\ Saw(s).status = "running"
         THEN /\ session' = [session EXCEPT ![p] = s]
              /\ turn' = [turn EXCEPT ![p] = Saw(s).turn]
              /\ batch' = [batch EXCEPT ![p] = CallsToClose(Saw(s).turn)]
              /\ \E status \in {"waiting_for_user", "interrupted"}, closed \in Call \cup {None} :
                   /\ \/ RecoverOpenCalls(Saw(s).turn, status, closed)
                      \/ RecoverAnswered(Saw(s).turn, status, closed)
                   /\ outcome' = [outcome EXCEPT ![p] = status]
                   /\ current' = [current EXCEPT ![p] = closed]
              /\ Go(p, "answer")
         ELSE Go(p, "up") /\ UNCHANGED <<session, turn, batch, outcome, current>>
    /\ UNCHANGED <<fileVars, home, within, change, loaded, memoryVars, patient>>

RecoverCall(p) ==
    /\ At(p, "answer")
    /\ \E c \in batch[p] : AppendResult(p, c)
    /\ UNCHANGED <<index, record, prompted, message, question, waits, pc, home, session, turn,
                   within, current, outcome, loaded, memoryVars, patient>>

RecoverQuestion(p) ==
    /\ At(p, "answer") /\ batch[p] = {}
    /\ question' = [c \in Call |-> IF c = current[p] THEN "interrupted" ELSE question[c]]
    /\ Go(p, "finish")
    /\ UNCHANGED <<index, record, prompted, message, results, waits, home, taskVars, change, loaded,
                   memoryVars, patient>>

\* Mutant: a turn whose prompt is not in the log is left as it is.
FinishRecoveredTurnOnlyPrompted(p) ==
    /\ At(p, "finish")
    /\ IF turn[p] \in prompted
         THEN /\ record' = [record EXCEPT ![turn[p]] = outcome[p]]
              /\ Update(p, FinishedTurn(turn[p], outcome[p]))
         ELSE UNCHANGED <<record, change>>
    /\ Go(p, "up")
    /\ UNCHANGED <<index, prompted, message, results, question, waits, home, taskVars, loaded,
                   memoryVars, patient>>

FinishRecoveredTurn(p) ==
    /\ At(p, "finish")
    /\ IF turn[p] \in prompted
         THEN /\ record' = [record EXCEPT ![turn[p]] = outcome[p]]
              /\ Update(p, FinishedTurn(turn[p], outcome[p]))
         ELSE Update(p, ClosedTurn(outcome[p])) /\ UNCHANGED record
    /\ Go(p, "up")
    /\ UNCHANGED <<index, prompted, message, results, question, waits, home, taskVars, loaded,
                   memoryVars, patient>>

\* What a process holds in memory is gone with it.
Crash(p) ==
    /\ pc[p] # "down"
    /\ pc' = [a \in Actor |-> IF a = p THEN "down"
                             ELSE IF home[a] = p /\ AtWork(a) THEN "done" ELSE pc[a]]
    /\ change' = [a \in Actor |-> IF home[a] = p THEN None ELSE change[a]]
    /\ loaded' = [a \in Actor |-> IF home[a] = p THEN None ELSE loaded[a]]
    /\ Forget({a \in Actor : home[a] = p})
    /\ controllers' = [controllers EXCEPT ![p] = [s \in Session |-> None]]
    /\ continuing' = [continuing EXCEPT ![p] = {}]
    /\ aborted' = {t \in aborted : home[t] # p}
    /\ UNCHANGED <<fileVars, home, session, captured, patient>>

TaskStep(t) ==
    \/ RunTurn(t) \/ CheckTurn(t) \/ AppendPrompt(t)
    \/ ContinueTurn(t) \/ LoadPendingCalls(t) \/ Register(t) \/ Route(t)
    \/ RequestModel(t) \/ ModelAnswers(t)
    \/ RejectCall(t) \/ BeginCall(t) \/ FinishCall(t) \/ CallThrows(t)
    \/ AskUser(t) \/ RecordQuestion(t) \/ PauseForUser(t)
    \/ CallsEnd(t) \/ FinishFailedTurn(t) \/ FinishTurn(t) \/ Return(t)

InterrupterStep(i) == Interrupt(i) \/ InterruptQuestions(i) \/ AbortTurn(i)

ProcessStep(p) ==
    \/ StartProcess(p) \/ RecoverCall(p) \/ RecoverQuestion(p) \/ FinishRecoveredTurn(p)
    \/ Crash(p)

Next ==
    \/ \E t \in Task : TaskStep(t)
    \/ \E i \in Interrupter : InterrupterStep(i)
    \/ \E p \in Process : ProcessStep(p)
    \/ \E a \in Actor : LoadIndex(a) \/ WriteIndex(a)

Spec == Init /\ [][Next]_vars

-----------------------------------------------------------------------------
(* Properties.                                                             *)

\* The log keeps what Transcript promises, whatever interrupts, approvals, crashes and
\* recoveries do: no call gets two results, and no turn goes on with a call unanswered.
\* It holds for patient front ends: a prompt that overtakes another one takes its place as
\* the last turn, so that an approval can continue a turn that is still at work.
Log == INSTANCE Transcript WITH
    Turn <- Task,
    NoTurn <- None,
    begun <- {t \in Task : record[t] # "none"},
    issuer <- [c \in Call |-> IF message[c] = None THEN None ELSE message[c].turn]

KeepsTranscript == Log!Init /\ [][patient => Log!Next]_(Log!vars)

Quiet ==
    /\ \E p \in Process : At(p, "up")
    /\ \A a \in Actor : ~AtWork(a) /\ change[a] = None

\* A session nobody works on does not say that it is running: it would refuse every prompt.
\* It holds while one session is in use; updates of two sessions overwrite each other, and
\* only the active one is recovered.
QuietSessionIsSettled == Quiet => \A s \in Session : Saw(s).status # "running"

\* Every turn at work that is registered and not aborted is the one an interrupt finds.
InterruptFindsTurn ==
    \A t \in Task :
        pc[t] \in {"route", "loop", "model", "calls", "tool", "ask", "asked"} /\ t \notin aborted =>
            controllers[home[t]][session[t]] = t

\* A recovery leaves no call of the crashed turn without a result, and the turn waits for
\* the user only if there is a question the user was shown, also when an earlier recovery
\* crashed halfway.  The second is for patient front ends: an approval that overtakes the last
\* update of the turn it continues leaves it to be continued again, past a question.
RecoveredTurnIsClosed ==
    [][\A p \in Process : pc[p] = "finish" /\ pc'[p] = "up" =>
          /\ Open(turn[p]) = {}
          /\ patient /\ outcome[p] = "waiting_for_user" => PendingOf(turn[p]) \cap waits # {}]_vars

\* While the user has not answered the question of a turn, the turn asks the model nothing.
\* The continuation after an approval breaks this: it executes the calls that were left, a
\* question among them, and goes on with the model loop.
PauseHolds ==
    [][\A t \in Task : pc[t] = "loop" /\ pc'[t] = "model" => PendingOf(turn[t]) = {}]_vars
=============================================================================
