-------------------------- MODULE SessionTurns_proofs --------------------------
(***************************************************************************)
(* For any processes, sessions, prompts, interrupts and calls: the state   *)
(* of the turns keeps its type, and an interrupt finds the turn that is at *)
(* work.  Where no process starts beside another one: the log implements   *)
(* Transcript, a session nobody works on is settled, and a recovery closes *)
(* the turn it finds.                                                      *)
(***************************************************************************)
EXTENDS MCSessionTurns, FiniteSetTheorems, SequenceTheorems, WellFoundedInduction, TLAPS

-----------------------------------------------------------------------------
(* The inductive invariants.                                               *)

\* A call at work knows its process, its session and, if it runs a turn, its turn and
\* the tool call it executes.
Placed ==
    /\ \A p \in Process : home[p] = p
    /\ \A a \in Task \cup Interrupter : AtWork(a) => home[a] \in Process /\ session[a] \in Session
    /\ \A t \in Task : AtWork(t) => turn[t] \in Task
    /\ \A t \in Task : pc[t] \in {"tool", "ask", "asked"} => current[t] \in Call
    /\ \A a \in Actor : loaded[a] # None => change[a] # None

TypeInv == TypeOK /\ Placed

TurnInv == TypeInv /\ InterruptFindsTurn

-----------------------------------------------------------------------------
(* Types of the updates of the index.                                      *)

\* Every update the code makes is one.
LEMMA Updates ==
    /\ Touch \in Change
    /\ \A status \in Status : ToStatus(status) \in Change /\ ClosedTurn(status) \in Change
    /\ \A t \in Task : StartedTurn(t) \in Change
    /\ \A t \in Task, status \in Status : FinishedTurn(t, status) \in Change
BY DEF Touch, ToStatus, ClosedTurn, StartedTurn, FinishedTurn, Change, Status, Keep

\* A record stays one under an update.
LEMMA ChangedType ==
    ASSUME NEW old \in Record, NEW c \in Change
    PROVE  Changed(old, c) \in Record
BY DEF Changed, Record, Change, Status, Keep

\* What is read of a session in the index.
LEMMA SawType ==
    ASSUME TypeOK, NEW s \in Session
    PROVE  /\ Saw(s) \in Record
           /\ Saw(s).status \in Status
           /\ Saw(s).turn \in Task \cup {None}
           /\ Saw(s).last \in Task \cup {None}
BY DEF TypeOK, Index, Record, Saw

\* Only calls are issued, and only they are open.
LEMMA CallSets ==
    ASSUME NEW t
    PROVE  Open(t) \subseteq Call /\ IssuedBy(t) \subseteq Call /\ PendingOf(t) \subseteq Call
BY DEF Open, IssuedBy, PendingOf

USE DEF At, Go, Update, AtWork, fileVars, taskVars, memoryVars

\* Where an actor goes is a place, and what it writes to the index is an update.
LEMMA PlaceType ==
    ASSUME TypeOK, NEW a \in Actor, NEW place \in TaskPc \cup InterrupterPc \cup ProcessPc,
           Go(a, place)
    PROVE  pc' \in [Actor -> TaskPc \cup InterrupterPc \cup ProcessPc]
BY DEF TypeOK

LEMMA UpdateType ==
    ASSUME TypeOK, NEW a \in Actor, NEW c \in Change, Update(a, c)
    PROVE  change' \in [Actor -> Change \cup {None}]
BY DEF TypeOK

\* A result is one more result, and one call less to answer.
LEMMA ResultType ==
    ASSUME TypeOK, NEW a \in Actor, NEW c, AppendResult(a, c)
    PROVE  /\ results' \in [Call -> Nat]
           /\ batch' \in [Actor -> SUBSET Call]
           /\ change' \in [Actor -> Change \cup {None}]
<1>1. change' \in [Actor -> Change \cup {None}]
  BY Updates, UpdateType DEF AppendResult
<1>2. results' \in [Call -> Nat]
  <2>1. results' = [results EXCEPT ![c] = @ + 1] /\ results \in [Call -> Nat]
    BY DEF AppendResult, TypeOK
  <2>2. CASE c \in Call
    BY <2>1, <2>2
  <2>3. CASE c \notin Call
    BY <2>1, <2>3
  <2> QED
    BY <2>2, <2>3
<1>3. batch' \in [Actor -> SUBSET Call]
  BY DEF AppendResult, TypeOK
<1> QED
  BY <1>1, <1>2, <1>3

\* What is forgotten is as it was at first.
LEMMA ForgetType ==
    ASSUME TypeOK, NEW actors, Forget(actors)
    PROVE  /\ turn' \in [Actor -> Task \cup {None}]
           /\ within' \in [Task -> {"route", "batch", "paused", "resume"}]
           /\ batch' \in [Actor -> SUBSET Call]
           /\ current' \in [Actor -> Call \cup {None}]
           /\ outcome' \in [Actor -> Status]
BY DEF Forget, TypeOK, Status

\* The controllers of a process stay those of tasks.
LEMMA ControllersType ==
    ASSUME TypeOK, NEW p \in Process, NEW s \in Session, NEW t \in Task \cup {None},
           controllers' = [controllers EXCEPT ![p][s] = t]
    PROVE  controllers' \in [Process -> [Session -> Task \cup {None}]]
BY DEF TypeOK

-----------------------------------------------------------------------------
(* One lemma for each part of the specification: how it keeps the types.    *)

LEMMA InitType == Init => TypeInv
BY SessionTurnsAssumption DEF Init, TypeInv, TypeOK, Placed, Index, Record, Status, Actor, TaskPc,
   InterrupterPc, ProcessPc

\* The assistant message of a turn.
LEMMA IssueType ==
    ASSUME TypeOK, NEW t \in Task, turn[t] \in Task, NEW calls \in SUBSET Call, Issue(t, calls)
    PROVE  message' \in [Call -> Message \cup {None}]
<1>1. [turn |-> turn[t], calls |-> calls] \in Message
  BY DEF Message
<1> QED
  BY <1>1 DEF Issue, TypeOK

\* The file is loaded as it is, and written with one record changed.
LEMMA IndexType ==
    ASSUME TypeInv, NEW a \in Actor, LoadIndex(a) \/ WriteIndex(a)
    PROVE  TypeOK'
<1>1. CASE LoadIndex(a)
  BY <1>1 DEF TypeInv, TypeOK, LoadIndex
<1>2. CASE WriteIndex(a)
  <2>1. index' \in Index
    <3>1. loaded[a] \in Index /\ change[a] \in Change
      BY <1>2 DEF WriteIndex, TypeInv, TypeOK, Placed
    <3>2. \A s \in Session : Changed(loaded[a].sessions[s], change[a]) \in Record
      BY <3>1, ChangedType DEF Index
    <3> QED
      BY <1>2, <3>1, <3>2 DEF WriteIndex, Index, TypeInv, TypeOK
  <2> QED
    BY <1>2, <2>1 DEF TypeInv, TypeOK, WriteIndex
<1> QED
  BY <1>1, <1>2

\* From the prompt to the model loop.
LEMMA PromptType ==
    ASSUME TypeInv, NEW t \in Task,
           RunTurn(t) \/ CheckTurn(t) \/ AppendPrompt(t) \/ ContinueTurn(t) \/ LoadPendingCalls(t)
           \/ Register(t) \/ Route(t)
    PROVE  TypeOK'
<1> USE SessionTurnsAssumption, Updates DEF TypeInv, Actor
<1>0. AtWork(t) => turn[t] \in Task /\ session[t] \in Session
  BY DEF Placed
<1>1. CASE RunTurn(t)
  BY <1>1 DEF RunTurn, Comes, TaskPc, TypeOK
<1>2. CASE CheckTurn(t)
  <2>1. \/ UNCHANGED <<record, change>> /\ Go(t, "done")
        \/ record' = [record EXCEPT ![t] = "running"] /\ Update(t, StartedTurn(t)) /\ Go(t, "prompt")
    BY <1>2 DEF CheckTurn
  <2>2. CASE UNCHANGED <<record, change>> /\ Go(t, "done")
    BY <1>2, <2>2 DEF CheckTurn, TaskPc, TypeOK
  <2>3. CASE record' = [record EXCEPT ![t] = "running"] /\ Update(t, StartedTurn(t)) /\ Go(t, "prompt")
    BY <1>2, <2>3 DEF CheckTurn, TaskPc, TypeOK, Status
  <2> QED
    BY <2>1, <2>2, <2>3
<1>3. CASE AppendPrompt(t)
  BY <1>3 DEF AppendPrompt, TaskPc, TypeOK
<1>4. CASE ContinueTurn(t)
  <2>1. PICK s \in Session : Saw(s).last # None /\ turn' = [turn EXCEPT ![t] = Saw(s).last]
    BY <1>4 DEF ContinueTurn
  <2>2. turn' \in [Actor -> Task \cup {None}]
    BY <2>1, SawType DEF TypeOK
  <2> QED
    BY <1>4, <2>2 DEF ContinueTurn, Comes, TaskPc, TypeOK
<1>5. CASE LoadPendingCalls(t)
  <2>1. CASE Open(turn[t]) = {}
    BY <1>5, <2>1 DEF LoadPendingCalls, TaskPc, TypeOK
  <2>2. CASE Open(turn[t]) # {}
    <3>1. Open(turn[t]) \subseteq Call /\ StartedTurn(turn[t]) \in Change
      BY <1>0, <1>5, CallSets DEF LoadPendingCalls
    <3>2. Update(t, StartedTurn(turn[t])) /\ Go(t, "register")
      BY <1>5, <2>2 DEF LoadPendingCalls
    <3>3. change' \in [Actor -> Change \cup {None}]
      BY <3>1, <3>2, UpdateType
    <3>4. pc' \in [Actor -> TaskPc \cup InterrupterPc \cup ProcessPc]
      BY <3>2, PlaceType DEF TaskPc
    <3>5. batch' \in [Actor -> SUBSET Call] /\ within' \in [Task -> {"route", "batch", "paused", "resume"}]
      BY <1>5, <2>2, <3>1 DEF LoadPendingCalls, CallsToResume, TypeOK
    <3> QED
      BY <1>5, <3>3, <3>4, <3>5 DEF LoadPendingCalls, TypeOK
  <2> QED
    BY <2>1, <2>2
<1>6. CASE Register(t)
  <2>1. home[t] \in Process /\ session[t] \in Session
    BY <1>6 DEF Register, Placed
  <2>2. controllers' \in [Process -> [Session -> Task \cup {None}]]
    BY <1>6, <2>1, ControllersType DEF Register
  <2>3. pc' \in [Actor -> TaskPc \cup InterrupterPc \cup ProcessPc]
    BY <1>6 DEF Register, TaskPc, TypeOK
  <2>4. aborted' \subseteq Task
    BY <1>6, <2>1 DEF Register, TypeOK
  <2> QED
    BY <1>6, <2>2, <2>3, <2>4 DEF Register, TypeOK
<1>7. CASE Route(t)
  <2>1. CASE Go(t, "loop") /\ UNCHANGED <<message, batch, within, change>>
    BY <1>7, <2>1 DEF Route, TaskPc, TypeOK
  <2>2. ASSUME NEW c \in Call, Issue(t, {c}), Update(t, Touch),
               within' = [within EXCEPT ![t] = "route"]
        PROVE  TypeOK'
    <3>1. message' \in [Call -> Message \cup {None}]
      BY <1>0, <1>7, <2>2, IssueType DEF Route
    <3>2. change' \in [Actor -> Change \cup {None}]
      BY <2>2, UpdateType
    <3>3. pc' \in [Actor -> TaskPc \cup InterrupterPc \cup ProcessPc]
      BY <2>2, PlaceType DEF Issue, TaskPc
    <3>4. /\ batch' \in [Actor -> SUBSET Call]
          /\ within' \in [Task -> {"route", "batch", "paused", "resume"}]
      BY <2>2 DEF Issue, TypeOK
    <3> QED
      BY <1>7, <2>2, <3>1, <3>2, <3>3, <3>4 DEF Route, TypeOK
  <2> QED
    BY <1>7, <2>1, <2>2 DEF Route
<1> QED
  BY <1>1, <1>2, <1>3, <1>4, <1>5, <1>6, <1>7

\* The model loop and its tool calls.
LEMMA LoopType ==
    ASSUME TypeInv, NEW t \in Task,
           RequestModel(t) \/ ModelAnswers(t) \/ RejectCall(t) \/ BeginCall(t) \/ FinishCall(t)
           \/ CallThrows(t) \/ AskUser(t) \/ RecordQuestion(t) \/ PauseForUser(t) \/ CallsEnd(t)
    PROVE  TypeOK'
<1> USE SessionTurnsAssumption, Updates DEF TypeInv, Actor
<1>0. AtWork(t) => turn[t] \in Task /\ session[t] \in Session
  BY DEF Placed
<1>1. CASE RequestModel(t)
  <2>1. CASE Go(t, "error") /\ UNCHANGED change
    BY <1>1, <2>1 DEF RequestModel, TaskPc, TypeOK
  <2>2. CASE Go(t, "model") /\ Update(t, Touch)
    BY <1>1, <2>2 DEF RequestModel, TaskPc, TypeOK
  <2> QED
    BY <1>1, <2>1, <2>2 DEF RequestModel
<1>2. CASE ModelAnswers(t)
  <2>1. ASSUME NEW calls \in SUBSET Call, Issue(t, calls), Update(t, Touch),
               within' = [within EXCEPT ![t] = "batch"], UNCHANGED outcome
        PROVE  TypeOK'
    <3>1. message' \in [Call -> Message \cup {None}]
      BY <1>0, <1>2, <2>1, IssueType DEF ModelAnswers
    <3>2. change' \in [Actor -> Change \cup {None}]
      BY <2>1, UpdateType
    <3>3. pc' \in [Actor -> TaskPc \cup InterrupterPc \cup ProcessPc]
      BY <2>1, PlaceType DEF Issue, TaskPc
    <3>4. /\ batch' \in [Actor -> SUBSET Call]
          /\ within' \in [Task -> {"route", "batch", "paused", "resume"}]
      BY <2>1 DEF Issue, TypeOK
    <3> QED
      BY <1>2, <2>1, <3>1, <3>2, <3>3, <3>4 DEF ModelAnswers, TypeOK
  <2>2. CASE /\ outcome' = [outcome EXCEPT ![t] = "waiting_for_user"]
             /\ Update(t, Touch)
             /\ Go(t, "finish")
             /\ UNCHANGED <<message, batch, within>>
    BY <1>2, <2>2 DEF ModelAnswers, TaskPc, TypeOK, Status
  <2>3. CASE Update(t, Touch) /\ Go(t, "loop") /\ UNCHANGED <<message, batch, within, outcome>>
    BY <1>2, <2>3 DEF ModelAnswers, TaskPc, TypeOK
  <2>4. CASE Go(t, "error") /\ UNCHANGED <<message, batch, within, outcome, change>>
    BY <1>2, <2>4 DEF ModelAnswers, TaskPc, TypeOK
  <2> QED
    BY <1>2, <2>1, <2>2, <2>3, <2>4 DEF ModelAnswers
<1>3. CASE RejectCall(t)
  BY <1>3 DEF RejectCall, AppendResult, TypeOK
<1>4. CASE BeginCall(t)
  BY <1>4 DEF BeginCall, TaskPc, TypeOK
<1>5. CASE FinishCall(t)
  <2>1. /\ results' \in [Call -> Nat]
        /\ batch' \in [Actor -> SUBSET Call]
        /\ change' \in [Actor -> Change \cup {None}]
    BY <1>5, ResultType DEF FinishCall
  <2>2. pc' \in [Actor -> TaskPc \cup InterrupterPc \cup ProcessPc]
    BY <1>5, PlaceType DEF FinishCall, TaskPc
  <2> QED
    BY <1>5, <2>1, <2>2 DEF FinishCall, TypeOK
<1>6. CASE CallThrows(t)
  BY <1>6 DEF CallThrows, TaskPc, TypeOK
<1>7. CASE AskUser(t)
  BY <1>7 DEF AskUser, TaskPc, TypeOK
<1>8. CASE RecordQuestion(t)
  BY <1>8 DEF RecordQuestion, TaskPc, TypeOK
<1>9. CASE PauseForUser(t)
  <2>1. /\ results' \in [Call -> Nat]
        /\ batch' \in [Actor -> SUBSET Call]
        /\ change' \in [Actor -> Change \cup {None}]
    BY <1>9, ResultType DEF PauseForUser
  <2>2. pc' \in [Actor -> TaskPc \cup InterrupterPc \cup ProcessPc]
    BY <1>9, PlaceType DEF PauseForUser, TaskPc
  <2>3. within' \in [Task -> {"route", "batch", "paused", "resume"}]
    BY <1>9 DEF PauseForUser, TypeOK
  <2>4. current[t] \in Call
    BY <1>9 DEF PauseForUser, Placed
  <2> QED
    BY <1>9, <2>1, <2>2, <2>3, <2>4 DEF PauseForUser, TypeOK
<1>10. CASE CallsEnd(t)
  BY <1>10, SMTT(30) DEF CallsEnd, TaskPc, TypeOK, Status
<1> QED
  BY <1>1, <1>2, <1>3, <1>4, <1>5, <1>6, <1>7, <1>8, <1>9, <1>10

\* The end of a turn, and interrupts.
LEMMA EndType ==
    ASSUME TypeInv,
           \/ \E t \in Task : FinishFailedTurn(t) \/ FinishTurn(t) \/ Return(t)
           \/ \E i \in Interrupter : InterrupterStep(i)
    PROVE  TypeOK'
<1> USE SessionTurnsAssumption, Updates DEF TypeInv, Actor
<1>1. ASSUME NEW t \in Task, FinishFailedTurn(t)
      PROVE  TypeOK'
  BY <1>1 DEF FinishFailedTurn, TaskPc, TypeOK, Status
<1>2. ASSUME NEW t \in Task, FinishTurn(t)
      PROVE  TypeOK'
  <2>1. turn[t] \in Task /\ outcome[t] \in Status
    BY <1>2 DEF FinishTurn, Placed, TypeOK
  <2>2. FinishedTurn(turn[t], outcome[t]) \in Change /\ ToStatus(outcome[t]) \in Change
    BY <2>1
  <2>3. CASE /\ record' = [record EXCEPT ![turn[t]] = outcome[t]]
             /\ Update(t, FinishedTurn(turn[t], outcome[t]))
             /\ Go(t, "status")
    <3>1. change' \in [Actor -> Change \cup {None}]
      BY <2>2, <2>3, UpdateType
    <3>2. record' \in [Task -> Status \cup {"none"}]
      BY <2>1, <2>3 DEF TypeOK
    <3>3. pc' \in [Actor -> TaskPc \cup InterrupterPc \cup ProcessPc]
      BY <2>3, PlaceType DEF TaskPc
    <3> QED
      BY <1>2, <3>1, <3>2, <3>3 DEF FinishTurn, TypeOK
  <2>4. CASE Update(t, ToStatus(outcome[t])) /\ Go(t, "return") /\ UNCHANGED record
    <3>1. change' \in [Actor -> Change \cup {None}]
      BY <2>2, <2>4, UpdateType
    <3>2. pc' \in [Actor -> TaskPc \cup InterrupterPc \cup ProcessPc]
      BY <2>4, PlaceType DEF TaskPc
    <3> QED
      BY <1>2, <2>4, <3>1, <3>2 DEF FinishTurn, TypeOK
  <2> QED
    BY <1>2, <2>3, <2>4 DEF FinishTurn
<1>3. ASSUME NEW t \in Task, Return(t)
      PROVE  TypeOK'
  <2>1. home[t] \in Process /\ session[t] \in Session
    BY <1>3 DEF Return, Placed
  <2>2. controllers' \in [Process -> [Session -> Task \cup {None}]]
    <3> DEFINE next == IF controllers[home[t]][session[t]] = t THEN None
                       ELSE controllers[home[t]][session[t]]
    <3>1. next \in Task \cup {None}
      BY <2>1 DEF TypeOK
    <3>2. controllers' = [controllers EXCEPT ![home[t]][session[t]] = next]
      BY <1>3 DEF Return, Release
    <3> HIDE DEF next
    <3> QED
      BY <2>1, <3>1, <3>2, ControllersType
  <2>3. pc' \in [Actor -> TaskPc \cup InterrupterPc \cup ProcessPc]
    BY <1>3, PlaceType DEF Return, TaskPc
  <2>4. continuing' \in [Process -> SUBSET Session] /\ aborted' \subseteq Task
    BY <1>3, <2>1 DEF Return, TypeOK
  <2>5. Forget({t}) /\ UNCHANGED <<fileVars, home, session, change, loaded, captured, patient>>
    BY <1>3 DEF Return
  <2> QED
    BY <2>2, <2>3, <2>4, <2>5, ForgetType DEF TypeOK
<1>4. ASSUME NEW i \in Interrupter, Interrupt(i)
      PROVE  TypeOK'
  <2>1. PICK p \in Process, s \in Session :
          /\ captured' = [captured EXCEPT ![i] = controllers[p][s]]
          /\ turn' = [turn EXCEPT ![i] = Saw(s).turn]
    BY <1>4 DEF Interrupt
  <2>2. /\ captured' \in [Interrupter -> Task \cup {None}]
        /\ turn' \in [Actor -> Task \cup {None}]
    BY <2>1, SawType DEF TypeOK
  <2> QED
    BY <1>4, <2>2 DEF Interrupt, Comes, InterrupterPc, TypeOK
<1>5. ASSUME NEW i \in Interrupter, InterruptQuestions(i)
      PROVE  TypeOK'
  BY <1>5 DEF InterruptQuestions, InterrupterPc, TypeOK, Status
<1>6. ASSUME NEW i \in Interrupter, AbortTurn(i)
      PROVE  TypeOK'
  BY <1>6 DEF AbortTurn, InterrupterPc, TypeOK, Status
<1> QED
  BY <1>1, <1>2, <1>3, <1>4, <1>5, <1>6 DEF InterrupterStep

\* Processes that start, recover and crash.
LEMMA ProcessType ==
    ASSUME TypeInv, NEW p \in Process, ProcessStep(p)
    PROVE  TypeOK'
<1> USE SessionTurnsAssumption, Updates DEF TypeInv, Actor
<1>1. CASE StartProcess(p)
  <2>1. CASE Go(p, "up") /\ UNCHANGED <<session, turn, batch, outcome, current>>
    BY <1>1, <2>1 DEF StartProcess, ProcessPc, TypeOK
  <2>2. CASE ~(Go(p, "up") /\ UNCHANGED <<session, turn, batch, outcome, current>>)
    <3> DEFINE s == index.active
    <3>1. /\ s # None
          /\ session' = [session EXCEPT ![p] = s]
          /\ turn' = [turn EXCEPT ![p] = Saw(s).turn]
          /\ batch' = [batch EXCEPT ![p] = CallsToClose(Saw(s).turn)]
          /\ \E status \in {"waiting_for_user", "interrupted"}, closed \in Call \cup {None} :
               /\ outcome' = [outcome EXCEPT ![p] = status]
               /\ current' = [current EXCEPT ![p] = closed]
          /\ Go(p, "answer")
      BY <1>1, <2>2 DEF StartProcess
    <3>2. s \in Session
      BY <3>1 DEF TypeOK, Index
    <3>3. turn' \in [Actor -> Task \cup {None}] /\ batch' \in [Actor -> SUBSET Call]
      BY <3>1, <3>2, SawType, CallSets DEF TypeOK, CallsToClose
    <3>4. outcome' \in [Actor -> Status] /\ current' \in [Actor -> Call \cup {None}]
      BY <3>1 DEF TypeOK, Status
    <3> QED
      BY <1>1, <3>1, <3>2, <3>3, <3>4 DEF StartProcess, ProcessPc, TypeOK
  <2> QED
    BY <2>1, <2>2
<1>2. CASE RecoverCall(p)
  BY <1>2 DEF RecoverCall, AppendResult, TypeOK
<1>3. CASE RecoverQuestion(p)
  BY <1>3 DEF RecoverQuestion, ProcessPc, TypeOK
<1>4. CASE FinishRecoveredTurn(p)
  <2>1. outcome[p] \in Status
    BY DEF TypeOK
  <2>2. CASE turn[p] \in prompted
    <3>1. turn[p] \in Task /\ FinishedTurn(turn[p], outcome[p]) \in Change
      BY <2>1, <2>2 DEF TypeOK
    <3>2. /\ record' = [record EXCEPT ![turn[p]] = outcome[p]]
          /\ Update(p, FinishedTurn(turn[p], outcome[p]))
          /\ Go(p, "up")
      BY <1>4, <2>2 DEF FinishRecoveredTurn
    <3>3. change' \in [Actor -> Change \cup {None}]
      BY <3>1, <3>2, UpdateType
    <3>4. record' \in [Task -> Status \cup {"none"}]
      BY <2>1, <3>1, <3>2 DEF TypeOK
    <3>5. pc' \in [Actor -> TaskPc \cup InterrupterPc \cup ProcessPc]
      BY <3>2, PlaceType DEF ProcessPc
    <3> QED
      BY <1>4, <3>3, <3>4, <3>5 DEF FinishRecoveredTurn, TypeOK
  <2>3. CASE turn[p] \notin prompted
    BY <1>4, <2>1, <2>3 DEF FinishRecoveredTurn, ProcessPc, TypeOK
  <2> QED
    BY <2>2, <2>3
<1>5. CASE Crash(p)
  BY <1>5 DEF Crash, Forget, ProcessPc, TaskPc, TypeOK, Status
<1> QED
  BY <1>1, <1>2, <1>3, <1>4, <1>5 DEF ProcessStep

-----------------------------------------------------------------------------
(* The steps keep Placed.                                                  *)

LEMMA PlacedStep ==
    ASSUME TypeInv, Next
    PROVE  Placed'
<1> USE SessionTurnsAssumption DEF TypeInv, Actor
<1>0. /\ DOMAIN pc = Actor /\ DOMAIN home = Actor /\ DOMAIN session = Actor
      /\ pc \in [Actor -> TaskPc \cup InterrupterPc \cup ProcessPc]
      /\ home \in [Actor -> Process \cup {None}]
      /\ session \in [Actor -> Session \cup {None}]
      /\ turn \in [Actor -> Task \cup {None}]
      /\ current \in [Actor -> Call \cup {None}]
      /\ change \in [Actor -> Change \cup {None}]
      /\ loaded \in [Actor -> Index \cup {None}]
  BY DEF TypeOK
<1>1. ASSUME NEW t \in Task, TaskStep(t)
      PROVE  Placed'
  <2>1. CASE RunTurn(t)
    BY <1>0, <2>1 DEF RunTurn, Comes, Placed
  <2>2. CASE CheckTurn(t)
    BY <1>0, <2>2 DEF CheckTurn, Placed
  <2>3. CASE AppendPrompt(t)
    BY <1>0, <2>3 DEF AppendPrompt, Placed
  <2>4. CASE ContinueTurn(t)
    <3>1. PICK s \in Session : Saw(s).last # None /\ turn' = [turn EXCEPT ![t] = Saw(s).last]
      BY <2>4 DEF ContinueTurn
    <3>2. Saw(s).last \in Task
      BY <3>1, SawType
    <3> QED
      BY <1>0, <2>4, <3>1, <3>2 DEF ContinueTurn, Comes, Placed
  <2>5. CASE LoadPendingCalls(t)
    BY <1>0, <2>5 DEF LoadPendingCalls, Placed
  <2>6. CASE Register(t)
    BY <1>0, <2>6 DEF Register, Placed
  <2>7. CASE Route(t)
    BY <1>0, <2>7 DEF Route, Issue, Placed
  <2>8. CASE RequestModel(t)
    BY <1>0, <2>8 DEF RequestModel, Placed
  <2>9. CASE ModelAnswers(t)
    BY <1>0, <2>9 DEF ModelAnswers, Issue, Placed
  <2>10. CASE RejectCall(t)
    BY <1>0, <2>10 DEF RejectCall, AppendResult, Placed
  <2>11. CASE BeginCall(t)
    <3>1. PICK c \in Call : current' = [current EXCEPT ![t] = c]
      BY <2>11 DEF BeginCall, TypeOK
    <3> QED
      BY <1>0, <2>11, <3>1 DEF BeginCall, Placed
  <2>12. CASE FinishCall(t)
    BY <1>0, <2>12 DEF FinishCall, AppendResult, Placed
  <2>13. CASE CallThrows(t)
    BY <1>0, <2>13 DEF CallThrows, Placed
  <2>14. CASE AskUser(t)
    BY <1>0, <2>14 DEF AskUser, Placed
  <2>15. CASE RecordQuestion(t)
    BY <1>0, <2>15 DEF RecordQuestion, Placed
  <2>16. CASE PauseForUser(t)
    BY <1>0, <2>16 DEF PauseForUser, AppendResult, Placed
  <2>17. CASE CallsEnd(t)
    BY <1>0, <2>17 DEF CallsEnd, Placed
  <2>18. CASE FinishFailedTurn(t)
    BY <1>0, <2>18 DEF FinishFailedTurn, Placed
  <2>19. CASE FinishTurn(t)
    BY <1>0, <2>19 DEF FinishTurn, Placed
  <2>20. CASE Return(t)
    BY <1>0, <2>20 DEF Return, Forget, Placed
  <2> QED
    BY <1>1, <2>1, <2>2, <2>3, <2>4, <2>5, <2>6, <2>7, <2>8, <2>9, <2>10, <2>11, <2>12, <2>13,
       <2>14, <2>15, <2>16, <2>17, <2>18, <2>19, <2>20 DEF TaskStep
<1>2. ASSUME NEW i \in Interrupter, InterrupterStep(i)
      PROVE  Placed'
  <2>1. CASE Interrupt(i)
    BY <1>0, <2>1 DEF Interrupt, Comes, Placed
  <2>2. CASE InterruptQuestions(i)
    BY <1>0, <2>2 DEF InterruptQuestions, Placed
  <2>3. CASE AbortTurn(i)
    BY <1>0, <2>3 DEF AbortTurn, Placed
  <2> QED
    BY <1>2, <2>1, <2>2, <2>3 DEF InterrupterStep
<1>3. ASSUME NEW p \in Process, ProcessStep(p)
      PROVE  Placed'
  <2>1. CASE StartProcess(p)
    <3>1. \A a \in Task \cup Interrupter : /\ pc'[a] = pc[a] /\ session'[a] = session[a]
                                           /\ turn'[a] = turn[a] /\ current'[a] = current[a]
      BY <1>0, <2>1 DEF StartProcess
    <3>2. UNCHANGED <<home, change, loaded>>
      BY <2>1 DEF StartProcess
    <3> QED
      BY <1>0, <3>1, <3>2 DEF Placed
  <2>2. CASE RecoverCall(p)
    BY <1>0, <2>2 DEF RecoverCall, AppendResult, Placed
  <2>3. CASE RecoverQuestion(p)
    BY <1>0, <2>3 DEF RecoverQuestion, Placed
  <2>4. CASE FinishRecoveredTurn(p)
    BY <1>0, <2>4 DEF FinishRecoveredTurn, Placed
  <2>5. CASE Crash(p)
    BY <1>0, <2>5 DEF Crash, Forget, Placed
  <2> QED
    BY <1>3, <2>1, <2>2, <2>3, <2>4, <2>5 DEF ProcessStep
<1>4. ASSUME NEW a \in Actor, LoadIndex(a) \/ WriteIndex(a)
      PROVE  Placed'
  BY <1>0, <1>4 DEF LoadIndex, WriteIndex, Placed
<1> QED
  BY <1>1, <1>2, <1>3, <1>4 DEF Next

\* The types and Placed are inductive.
LEMMA TypeStep ==
    ASSUME TypeInv, [Next]_vars
    PROVE  TypeInv'
<1>1. CASE Next
  <2>1. TypeOK'
    BY <1>1, PromptType, LoopType, EndType, ProcessType, IndexType DEF Next, TaskStep
  <2> QED
    BY <1>1, <2>1, PlacedStep DEF TypeInv
<1>2. CASE UNCHANGED vars
  BY <1>2 DEF vars, TypeInv, TypeOK, Placed
<1> QED
  BY <1>1, <1>2

\* The files, the memory of the processes and the places of all calls keep their type.
THEOREM TypeCorrect == Spec => []TypeOK
<1>1. Init => TypeInv
  BY InitType
<1>2. TypeInv /\ [Next]_vars => TypeInv'
  BY TypeStep
<1>3. TypeInv => TypeOK
  BY DEF TypeInv
<1> QED
  BY <1>1, <1>2, <1>3, PTL DEF Spec

-----------------------------------------------------------------------------
(* An interrupt finds the turn at work.                                    *)

Registered(t) ==
    pc[t] \in {"route", "loop", "model", "calls", "tool", "ask", "asked"} /\ t \notin aborted

\* A step that registers nobody, leaves the controllers, and takes no abort back.
LEMMA SameControllers ==
    ASSUME TurnInv,
           UNCHANGED controllers, aborted \subseteq aborted',
           \A t \in Task : Registered(t)' =>
               Registered(t) /\ home'[t] = home[t] /\ session'[t] = session[t]
    PROVE  InterruptFindsTurn'
BY DEF TurnInv, InterruptFindsTurn, Registered

LEMMA FindsStep ==
    ASSUME TurnInv, Next
    PROVE  InterruptFindsTurn'
<1> USE SessionTurnsAssumption DEF TurnInv, TypeInv, Actor
<1>0. /\ pc \in [Actor -> TaskPc \cup InterrupterPc \cup ProcessPc]
      /\ home \in [Actor -> Process \cup {None}]
      /\ session \in [Actor -> Session \cup {None}]
      /\ controllers \in [Process -> [Session -> Task \cup {None}]]
      /\ aborted \subseteq Task
  BY DEF TypeOK
<1>1. ASSUME NEW t \in Task, TaskStep(t)
      PROVE  InterruptFindsTurn'
  <2>1. CASE Register(t)
    <3>1. home[t] \in Process /\ session[t] \in Session
      BY <2>1 DEF Register, Placed
    <3>2. \A u \in Task : Registered(u)' /\ u # t =>
             Registered(u) /\ u # controllers[home[t]][session[t]]
      BY <1>0, <2>1 DEF Register, Registered
    <3>3. \A u \in Task : Registered(u)' => home[u] \in Process /\ session[u] \in Session
      BY <1>0, <2>1, <3>1, <3>2 DEF Registered, Placed
    <3>4. ASSUME NEW u \in Task, Registered(u)'
          PROVE  controllers'[home[u]][session[u]] = u
      <4>1. CASE u = t
        BY <1>0, <2>1, <3>1, <4>1 DEF Register
      <4>2. CASE u # t
        <5>1. controllers[home[u]][session[u]] = u /\ u # controllers[home[t]][session[t]]
          BY <3>2, <3>4, <4>2 DEF InterruptFindsTurn, Registered
        <5>2. home[u] # home[t] \/ session[u] # session[t]
          BY <5>1
        <5> QED
          BY <1>0, <2>1, <3>1, <3>3, <3>4, <5>1, <5>2 DEF Register
      <4> QED
        BY <4>1, <4>2
    <3>5. UNCHANGED <<home, session>>
      BY <2>1 DEF Register
    <3> QED
      BY <3>4, <3>5 DEF InterruptFindsTurn, Registered
  <2>2. CASE Return(t)
    <3>1. home[t] \in Process /\ session[t] \in Session
      BY <2>2 DEF Return, Placed
    <3>2. \A u \in Task : Registered(u)' => u # t /\ Registered(u)
      BY <1>0, <2>2 DEF Return, Registered
    <3>3. ASSUME NEW u \in Task, Registered(u)'
          PROVE  controllers'[home[u]][session[u]] = u
      <4>1. u # t /\ controllers[home[u]][session[u]] = u
        BY <3>2, <3>3 DEF InterruptFindsTurn, Registered
      <4>2. home[u] \in Process /\ session[u] \in Session
        BY <1>0, <3>2, <3>3 DEF Registered, Placed
      <4> QED
        BY <1>0, <2>2, <3>1, <4>1, <4>2 DEF Return, Release
    <3>4. UNCHANGED <<home, session>>
      BY <2>2 DEF Return
    <3> QED
      BY <3>3, <3>4 DEF InterruptFindsTurn, Registered
  <2>3. CASE ~Register(t) /\ ~Return(t)
    <3>1. UNCHANGED <<controllers, aborted>>
      BY <1>1, <2>3 DEF TaskStep, RunTurn, CheckTurn, AppendPrompt, ContinueTurn, LoadPendingCalls,
         Route, RequestModel, ModelAnswers, RejectCall, BeginCall, FinishCall, CallThrows, AskUser,
         RecordQuestion, PauseForUser, CallsEnd, FinishFailedTurn, FinishTurn
    <3>2. CASE RunTurn(t) \/ ContinueTurn(t)
      BY <1>0, <3>1, <3>2, SameControllers, ZenonT(30) DEF RunTurn, ContinueTurn, Comes, Registered
    <3>3. CASE CheckTurn(t) \/ AppendPrompt(t) \/ LoadPendingCalls(t)
      BY <1>0, <3>1, <3>3, SameControllers DEF CheckTurn, AppendPrompt, LoadPendingCalls, Registered
    <3>4. CASE ~(RunTurn(t) \/ ContinueTurn(t) \/ CheckTurn(t) \/ AppendPrompt(t) \/ LoadPendingCalls(t))
      <4>1. /\ UNCHANGED <<home, session>>
            /\ \A u \in Task : Registered(u)' => Registered(u)
        BY <1>0, <1>1, <2>3, <3>1, <3>4 DEF TaskStep, Registered,
           Route, Issue, RequestModel, ModelAnswers, RejectCall, BeginCall, FinishCall, CallThrows,
           AskUser, RecordQuestion, PauseForUser, CallsEnd, FinishFailedTurn, FinishTurn
      <4> QED
        BY <3>1, <4>1, SameControllers
    <3> QED
      BY <3>2, <3>3, <3>4
  <2> QED
    BY <2>1, <2>2, <2>3
<1>2. ASSUME NEW i \in Interrupter, InterrupterStep(i)
      PROVE  InterruptFindsTurn'
  <2>1. UNCHANGED controllers /\ aborted \subseteq aborted'
    BY <1>2 DEF InterrupterStep, Interrupt, InterruptQuestions, AbortTurn
  <2>2. \A t \in Task : pc'[t] = pc[t] /\ home'[t] = home[t] /\ session'[t] = session[t]
    <3>1. CASE Interrupt(i)
      BY <1>0, <3>1 DEF Interrupt, Comes
    <3>2. CASE InterruptQuestions(i)
      BY <1>0, <3>2 DEF InterruptQuestions
    <3>3. CASE AbortTurn(i)
      BY <1>0, <3>3 DEF AbortTurn
    <3> QED
      BY <1>2, <3>1, <3>2, <3>3 DEF InterrupterStep
  <2> QED
    BY <2>1, <2>2, SameControllers DEF Registered
<1>3. ASSUME NEW p \in Process, ProcessStep(p)
      PROVE  InterruptFindsTurn'
  <2>1. CASE Crash(p)
    <3>1. \A u \in Task : Registered(u)' => Registered(u) /\ home[u] # p
      BY <1>0, <2>1 DEF Crash, Registered
    <3>2. \A u \in Task : Registered(u)' =>
             controllers'[home[u]] = controllers[home[u]]
      BY <1>0, <2>1, <3>1 DEF Crash, Registered, Placed
    <3>3. UNCHANGED <<home, session>>
      BY <2>1 DEF Crash
    <3> QED
      BY <3>1, <3>2, <3>3 DEF InterruptFindsTurn, Registered
  <2>2. CASE ~Crash(p)
    <3>1. UNCHANGED <<controllers, aborted>>
      BY <1>3, <2>2 DEF ProcessStep, StartProcess, RecoverCall, RecoverQuestion, FinishRecoveredTurn
    <3>2. \A t \in Task : pc'[t] = pc[t] /\ home'[t] = home[t] /\ session'[t] = session[t]
      BY <1>0, <1>3, <2>2 DEF ProcessStep, StartProcess, RecoverCall, RecoverQuestion,
         FinishRecoveredTurn
    <3> QED
      BY <3>1, <3>2, SameControllers DEF Registered
  <2> QED
    BY <2>1, <2>2
<1>4. ASSUME NEW a \in Actor, LoadIndex(a) \/ WriteIndex(a)
      PROVE  InterruptFindsTurn'
  BY <1>4 DEF LoadIndex, WriteIndex, InterruptFindsTurn
<1> QED
  BY <1>1, <1>2, <1>3, <1>4 DEF Next

\* Whatever prompts, approvals, interrupts and crashes do, the controller an interrupt looks
\* up for a session is that of the turn at work on it, unless that turn is aborted already.
THEOREM InterruptFindsTurnAlways == Spec => []InterruptFindsTurn
<1>1. Init => TurnInv
  <2>1. Init => InterruptFindsTurn
    BY SessionTurnsAssumption DEF Init, InterruptFindsTurn, Actor
  <2> QED
    BY <2>1, InitType DEF TurnInv
<1>2. TurnInv /\ [Next]_vars => TurnInv'
  <2> SUFFICES ASSUME TurnInv, [Next]_vars
               PROVE  TurnInv'
    OBVIOUS
  <2>1. TypeInv'
    BY TypeStep DEF TurnInv
  <2>2. InterruptFindsTurn'
    <3>1. CASE Next
      BY <3>1, FindsStep
    <3>2. CASE UNCHANGED vars
      BY <3>2 DEF vars, TurnInv, InterruptFindsTurn
    <3> QED
      BY <3>1, <3>2
  <2> QED
    BY <2>1, <2>2 DEF TurnInv
<1>3. TurnInv => InterruptFindsTurn
  BY DEF TurnInv
<1> QED
  BY <1>1, <1>2, <1>3, PTL DEF Spec

-----------------------------------------------------------------------------
(* What a step leaves alone.                                               *)

\* What an actor knows by itself.
SameActor(a) ==
    /\ pc'[a] = pc[a] /\ home'[a] = home[a] /\ session'[a] = session[a]
    /\ turn'[a] = turn[a] /\ batch'[a] = batch[a] /\ current'[a] = current[a]
    /\ outcome'[a] = outcome[a] /\ change'[a] = change[a]

\* A call comes to a process that is up.
Arrives(a) ==
    /\ pc[a] = "idle"
    /\ pc[home'[a]] = "up" /\ home'[a] \in Process

\* The ranges of what actors know, without the rest of the types.
LEMMA ActorTypes ==
    ASSUME TypeOK
    PROVE  /\ pc \in [Actor -> TaskPc \cup InterrupterPc \cup ProcessPc]
           /\ home \in [Actor -> Process \cup {None}]
           /\ session \in [Actor -> Session \cup {None}]
           /\ turn \in [Actor -> Task \cup {None}]
           /\ batch \in [Actor -> SUBSET Call]
           /\ current \in [Actor -> Call \cup {None}]
           /\ outcome \in [Actor -> Status]
           /\ change \in [Actor -> Change \cup {None}]
           /\ loaded \in [Actor -> Index \cup {None}]
BY DEF TypeOK

LEMMA TaskFrame ==
    ASSUME TypeInv, NEW t \in Task, TaskStep(t)
    PROVE  /\ \A a \in Actor \ {t} : SameActor(a)
           /\ UNCHANGED <<index, loaded, patient>>
           /\ \/ AtWork(t) /\ home'[t] = home[t] /\ session'[t] = session[t]
              \/ Arrives(t) /\ pc'[t] \in {"check", "pending"} /\ (patient => Alone(home'[t]))
<1> USE ActorTypes DEF TypeInv, Actor, SameActor
<1>1. CASE RunTurn(t)
  BY <1>1 DEF RunTurn, Comes, Arrives
<1>2. CASE CheckTurn(t)
  BY <1>2 DEF CheckTurn
<1>3. CASE AppendPrompt(t)
  BY <1>3 DEF AppendPrompt
<1>4. CASE ContinueTurn(t)
  BY <1>4 DEF ContinueTurn, Comes, Arrives
<1>5. CASE LoadPendingCalls(t)
  BY <1>5 DEF LoadPendingCalls
<1>6. CASE Register(t)
  BY <1>6 DEF Register
<1>7. CASE Route(t)
  BY <1>7 DEF Route, Issue
<1>8. CASE RequestModel(t)
  BY <1>8 DEF RequestModel
<1>9. CASE ModelAnswers(t)
  BY <1>9 DEF ModelAnswers, Issue
<1>10. CASE RejectCall(t)
  BY <1>10 DEF RejectCall, AppendResult
<1>11. CASE BeginCall(t)
  BY <1>11 DEF BeginCall
<1>12. CASE FinishCall(t)
  BY <1>12 DEF FinishCall, AppendResult
<1>13. CASE CallThrows(t)
  BY <1>13 DEF CallThrows
<1>14. CASE AskUser(t)
  BY <1>14 DEF AskUser
<1>15. CASE RecordQuestion(t)
  BY <1>15 DEF RecordQuestion
<1>16. CASE PauseForUser(t)
  BY <1>16 DEF PauseForUser, AppendResult
<1>17. CASE CallsEnd(t)
  BY <1>17 DEF CallsEnd
<1>18. CASE FinishFailedTurn(t)
  BY <1>18 DEF FinishFailedTurn
<1>19. CASE FinishTurn(t)
  BY <1>19 DEF FinishTurn
<1>20. CASE Return(t)
  BY <1>20 DEF Return, Forget
<1> QED
  BY <1>1, <1>2, <1>3, <1>4, <1>5, <1>6, <1>7, <1>8, <1>9, <1>10, <1>11, <1>12, <1>13, <1>14,
     <1>15, <1>16, <1>17, <1>18, <1>19, <1>20 DEF TaskStep

LEMMA InterrupterFrame ==
    ASSUME TypeInv, NEW i \in Interrupter, InterrupterStep(i)
    PROVE  /\ \A a \in Actor \ {i} : SameActor(a)
           /\ UNCHANGED <<index, loaded, patient, message, results>>
           /\ pc'[i] \in {"settle", "abort", "done"}
           /\ \/ AtWork(i) /\ home'[i] = home[i] /\ session'[i] = session[i]
              \/ Arrives(i) /\ pc'[i] = "settle"
<1> USE ActorTypes DEF TypeInv, Actor, SameActor
<1>1. CASE Interrupt(i)
  BY <1>1 DEF Interrupt, Comes, Arrives
<1>2. CASE InterruptQuestions(i)
  BY <1>2 DEF InterruptQuestions
<1>3. CASE AbortTurn(i)
  BY <1>3 DEF AbortTurn
<1> QED
  BY <1>1, <1>2, <1>3 DEF InterrupterStep

\* A step of a recovery; the process is up when it ends.
LEMMA RecoveryFrame ==
    ASSUME TypeInv, NEW p \in Process, ProcessStep(p), ~Crash(p)
    PROVE  /\ \A a \in Actor \ {p} : SameActor(a)
           /\ UNCHANGED <<index, loaded, patient, message, home>>
           /\ pc'[p] \in {"answer", "finish", "up"}
           /\ \/ pc[p] = "down" /\ StartProcess(p)
              \/ pc[p] \in {"answer", "finish"} /\ session'[p] = session[p]
<1> USE ActorTypes DEF TypeInv, Actor, SameActor
<1>1. CASE StartProcess(p)
  BY <1>1 DEF StartProcess
<1>2. CASE RecoverCall(p)
  BY <1>2 DEF RecoverCall, AppendResult
<1>3. CASE RecoverQuestion(p)
  BY <1>3 DEF RecoverQuestion
<1>4. CASE FinishRecoveredTurn(p)
  BY <1>4 DEF FinishRecoveredTurn
<1> QED
  BY <1>1, <1>2, <1>3, <1>4 DEF ProcessStep

LEMMA IndexFrame ==
    ASSUME NEW a \in Actor, LoadIndex(a) \/ WriteIndex(a)
    PROVE  UNCHANGED <<record, message, results, question, waits, pc, home, taskVars, patient>>
BY DEF LoadIndex, WriteIndex

-----------------------------------------------------------------------------
(* One process at a time.                                                  *)

\* Where no process starts beside another, the calls at work are those of the one that is up.
OneUp ==
    /\ \A p, q \in Process : pc[p] # "down" /\ pc[q] # "down" => p = q
    /\ \A a \in Task \cup Interrupter : AtWork(a) => pc[home[a]] = "up"

LEMMA OneUpStep ==
    ASSUME TypeInv, ~Attaches, OneUp, [Next]_vars
    PROVE  OneUp'
<1> USE SessionTurnsAssumption DEF Actor
<1>0. /\ \A a \in Task \cup Interrupter : AtWork(a) => home[a] \in Process
      /\ pc \in [Actor -> TaskPc \cup InterrupterPc \cup ProcessPc]
  BY ActorTypes DEF TypeInv, Placed
<1>1. ASSUME NEW a \in Task \cup Interrupter,
             \A b \in Actor \ {a} : SameActor(b),
             (AtWork(a) /\ home'[a] = home[a]) \/ Arrives(a)
      PROVE  OneUp'
  <2>1. \A p \in Process : pc'[p] = pc[p]
    BY <1>1 DEF SameActor
  <2>2. \A b \in Task \cup Interrupter : AtWork(b)' => pc[home'[b]] = "up" /\ home'[b] \in Process
    BY <1>0, <1>1 DEF OneUp, SameActor, Arrives
  <2> QED
    BY <2>1, <2>2 DEF OneUp
<1>2. ASSUME NEW t \in Task, TaskStep(t) PROVE OneUp'
  BY <1>1, <1>2, TaskFrame
<1>3. ASSUME NEW i \in Interrupter, InterrupterStep(i) PROVE OneUp'
  BY <1>1, <1>3, InterrupterFrame
<1>4. ASSUME NEW p \in Process, ProcessStep(p) PROVE OneUp'
  <2>1. CASE Crash(p)
    <3>1. pc[p] # "down"
      BY <2>1 DEF Crash
    <3>2. \A a \in Task \cup Interrupter : AtWork(a) => home[a] = p
      BY <1>0, <3>1 DEF OneUp
    <3>3. \A q \in Process : pc'[q] = "down"
      BY <2>1, <3>1 DEF Crash, OneUp, TypeInv, Placed
    <3>4. \A a \in Task \cup Interrupter : ~AtWork(a)'
      BY <2>1, <3>2 DEF Crash
    <3> QED
      BY <3>3, <3>4 DEF OneUp
  <2>2. CASE pc[p] = "down" /\ StartProcess(p)
    <3>1. \A q \in Process : pc[q] = "down"
      BY <2>2 DEF StartProcess
    <3>2. \A q \in Process \ {p} : pc'[q] = "down"
      BY <2>2, <3>1, <1>0 DEF StartProcess
    <3>3. \A a \in Task \cup Interrupter : ~AtWork(a)
      BY <1>0, <3>1 DEF OneUp
    <3>4. \A a \in Task \cup Interrupter : pc'[a] = pc[a]
      BY <2>2, <1>0 DEF StartProcess
    <3> QED
      BY <3>2, <3>3, <3>4 DEF OneUp
  <2>3. CASE ~Crash(p) /\ pc[p] # "down"
    <3>1. \A a \in Actor \ {p} : SameActor(a)
      BY <1>4, <2>3, RecoveryFrame
    <3>2. pc'[p] # "down" /\ pc[p] \in {"answer", "finish"} /\ home' = home
      BY <1>4, <2>3, RecoveryFrame
    <3>3. \A a \in Task \cup Interrupter : ~AtWork(a)
      BY <1>0, <3>2 DEF OneUp
    <3>4. \A a \in Task \cup Interrupter : ~AtWork(a)'
      BY <3>1, <3>3 DEF SameActor
    <3>5. \A q \in Process \ {p} : pc'[q] = pc[q]
      BY <3>1 DEF SameActor
    <3> QED
      BY <2>3, <3>4, <3>5 DEF OneUp
  <2>4. pc[p] = "down" /\ ~Crash(p) => StartProcess(p)
    BY <1>4, RecoveryFrame
  <2> QED
    BY <2>1, <2>2, <2>3, <2>4
<1>5. ASSUME NEW a \in Actor, LoadIndex(a) \/ WriteIndex(a) PROVE OneUp'
  BY <1>5, IndexFrame DEF OneUp
<1>6. CASE UNCHANGED vars
  BY <1>6 DEF vars, OneUp
<1> QED
  BY <1>2, <1>3, <1>4, <1>5, <1>6 DEF Next

-----------------------------------------------------------------------------
(* A session nobody works on is settled.                                   *)

\* From its first update on a turn owes the index a last one, which says how it ended.
Committed == {"prompt", "register", "route", "loop", "model", "calls", "tool", "ask", "asked",
              "error", "denied", "finish", "status"}

\* The actor has yet to write how its turn, or the turn it recovers, ended.
Unsettled(a) ==
    \/ a \in Task /\ (pc[a] \in Committed \/ (pc[a] = "return" /\ change[a] # None))
    \/ a \in Process /\ (AtWork(a) \/ change[a] # None)

Settling == Status \ {"running"}

\* What an actor is about to write: its last update settles the session.
Writes ==
    /\ \A a \in Actor : outcome[a] # "running"
    /\ \A t \in Task : change[t] # None =>
          Unsettled(t) /\ (pc[t] = "return" => change[t].status \in Settling)
    /\ \A i \in Interrupter : change[i] # None => AtWork(i) /\ change[i].status \in Settling
    /\ \A p \in Process : change[p] # None => pc[p] \in {"answer", "finish", "up"}
    /\ \A p \in Process : change[p] # None /\ pc[p] = "up" => change[p].status \in Settling
    /\ \A p \in Process : change[p] # None \/ pc[p] \in {"answer", "finish"} => session[p] \in Session

\* A session that is running is the active one, and someone has yet to settle it.
Settled ==
    \A s \in Session : Saw(s).status = "running" =>
        /\ index.active = s
        /\ (\E p \in Process : pc[p] # "down") => \E a \in Actor : Unsettled(a)

LEMMA ChangeStatuses ==
    /\ \A status : ToStatus(status).status = status /\ ClosedTurn(status).status = status
    /\ \A t, status : FinishedTurn(t, status).status = status
BY DEF Touch, ToStatus, ClosedTurn, FinishedTurn

LEMMA TaskWrites ==
    ASSUME TypeInv, Writes, NEW t \in Task, TaskStep(t)
    PROVE  /\ outcome'[t] # "running"
           /\ change'[t] # None =>
                 pc'[t] \in Committed \/ (pc'[t] = "return" /\ change'[t].status \in Settling)
           /\ Unsettled(t) => Unsettled(t)'
<1> USE SessionTurnsAssumption, ActorTypes DEF TypeInv, Actor, Committed, Unsettled
<1>0. /\ outcome[t] # "running"
      /\ change[t] # None => pc[t] \in Committed \cup {"return"}
      /\ change[t] # None /\ pc[t] = "return" => change[t].status \in Settling
  BY SessionTurnsAssumption DEF Writes
<1>1. CASE RunTurn(t)
  BY <1>0, <1>1 DEF RunTurn, Comes
<1>2. CASE CheckTurn(t)
  BY <1>0, <1>2 DEF CheckTurn
<1>3. CASE AppendPrompt(t)
  BY <1>0, <1>3 DEF AppendPrompt
<1>4. CASE ContinueTurn(t)
  BY <1>0, <1>4 DEF ContinueTurn, Comes
<1>5. CASE LoadPendingCalls(t)
  BY <1>0, <1>5 DEF LoadPendingCalls
<1>6. CASE Register(t)
  BY <1>0, <1>6 DEF Register
<1>7. CASE Route(t)
  BY <1>0, <1>7 DEF Route, Issue
<1>8. CASE RequestModel(t)
  BY <1>0, <1>8 DEF RequestModel
<1>9. CASE ModelAnswers(t)
  BY <1>0, <1>9 DEF ModelAnswers, Issue
<1>10. CASE RejectCall(t)
  BY <1>0, <1>10 DEF RejectCall, AppendResult
<1>11. CASE BeginCall(t)
  BY <1>0, <1>11 DEF BeginCall
<1>12. CASE FinishCall(t)
  BY <1>0, <1>12 DEF FinishCall, AppendResult
<1>13. CASE CallThrows(t)
  BY <1>0, <1>13 DEF CallThrows
<1>14. CASE AskUser(t)
  BY <1>0, <1>14 DEF AskUser
<1>15. CASE RecordQuestion(t)
  BY <1>0, <1>15 DEF RecordQuestion
<1>16. CASE PauseForUser(t)
  BY <1>0, <1>16 DEF PauseForUser, AppendResult
<1>17. CASE CallsEnd(t)
  BY <1>0, <1>17 DEF CallsEnd
<1>18. CASE FinishFailedTurn(t)
  BY <1>0, <1>18 DEF FinishFailedTurn
<1>19. CASE FinishTurn(t)
  <2>1. CASE At(t, "finish")
    BY <1>0, <1>19, <2>1 DEF FinishTurn
  <2>2. CASE At(t, "status")
    <3>1. /\ change' = [change EXCEPT ![t] = ToStatus(outcome[t])]
          /\ pc' = [pc EXCEPT ![t] = "return"] /\ outcome' = outcome
      BY <1>19, <2>2 DEF FinishTurn
    <3>2. ToStatus(outcome[t]) \in Change /\ ToStatus(outcome[t]).status = outcome[t]
      BY Updates, ChangeStatuses
    <3>3. outcome[t] \in Settling
      BY <1>0 DEF Settling
    <3>4. change'[t] = ToStatus(outcome[t]) /\ pc'[t] = "return" /\ change'[t] # None
      BY <3>1, <3>2, MarkersAssumption
    <3> QED
      BY <1>0, <3>1, <3>2, <3>3, <3>4
  <2> QED
    BY <1>19, <2>1, <2>2 DEF FinishTurn
<1>20. CASE Return(t)
  BY <1>0, <1>20 DEF Return, Forget
<1> QED
  BY <1>1, <1>2, <1>3, <1>4, <1>5, <1>6, <1>7, <1>8, <1>9, <1>10, <1>11, <1>12, <1>13, <1>14,
     <1>15, <1>16, <1>17, <1>18, <1>19, <1>20 DEF TaskStep

LEMMA WritesStep ==
    ASSUME TypeInv, Writes, [Next]_vars
    PROVE  Writes'
<1> USE SessionTurnsAssumption DEF Actor
<1>0. /\ pc \in [Actor -> TaskPc \cup InterrupterPc \cup ProcessPc]
      /\ outcome \in [Actor -> Status] /\ change \in [Actor -> Change \cup {None}]
      /\ session \in [Actor -> Session \cup {None}]
      /\ \A p \in Process : home[p] = p
  BY ActorTypes DEF TypeInv, Placed
<1>1. ASSUME NEW t \in Task, TaskStep(t) PROVE Writes'
  <2>1. \A a \in Actor \ {t} : SameActor(a)
    BY <1>1, TaskFrame
  <2>2. /\ outcome'[t] # "running"
        /\ change'[t] # None =>
              pc'[t] \in Committed \/ (pc'[t] = "return" /\ change'[t].status \in Settling)
    BY <1>1, TaskWrites
  <2>3. \A u \in Task : change'[u] # None =>
          Unsettled(u)' /\ (pc'[u] = "return" => change'[u].status \in Settling)
    BY <2>1, <2>2 DEF Writes, Unsettled, SameActor, Committed
  <2> QED
    BY <2>1, <2>2, <2>3 DEF Writes, SameActor
<1>2. ASSUME NEW i \in Interrupter, InterrupterStep(i) PROVE Writes'
  <2>1. \A a \in Actor \ {i} : SameActor(a)
    BY <1>2, InterrupterFrame
  <2>2. outcome'[i] = outcome[i]
    BY <1>2 DEF InterrupterStep, Interrupt, InterruptQuestions, AbortTurn
  <2>3. change'[i] # None => AtWork(i)' /\ change'[i].status \in Settling
    <3>1. CASE Interrupt(i)
      BY <1>0, <3>1 DEF Interrupt, Comes, Writes
    <3>2. CASE InterruptQuestions(i)
      <4>1. change'[i] = ClosedTurn("interrupted") /\ pc'[i] = "abort"
        BY <1>0, <3>2 DEF InterruptQuestions
      <4> QED
        BY <4>1, ChangeStatuses DEF Settling, Status
    <3>3. CASE AbortTurn(i)
      BY <3>3 DEF AbortTurn
    <3> QED
      BY <1>2, <3>1, <3>2, <3>3 DEF InterrupterStep
  <2> QED
    BY <2>1, <2>2, <2>3 DEF Writes, SameActor, Unsettled
<1>3. ASSUME NEW p \in Process, ProcessStep(p), ~Crash(p) PROVE Writes'
  <2>1. \A a \in Actor \ {p} : SameActor(a)
    BY <1>3, RecoveryFrame
  <2>2. /\ outcome'[p] # "running"
        /\ change'[p] # None => pc'[p] \in {"answer", "finish", "up"}
        /\ change'[p] # None /\ pc'[p] = "up" => change'[p].status \in Settling
        /\ change'[p] # None \/ pc'[p] \in {"answer", "finish"} => session'[p] \in Session
    <3>1. CASE StartProcess(p)
      <4>1. change'[p] = None
        BY <3>1 DEF StartProcess, Writes
      <4>2. CASE index.active # None /\ Saw(index.active).status = "running"
        <5>1. /\ outcome'[p] \in {"waiting_for_user", "interrupted"}
              /\ session'[p] = index.active
          BY <1>0, <3>1, <4>2 DEF StartProcess
        <5>2. index.active \in Session
          BY <4>2 DEF TypeInv, TypeOK, Index
        <5> QED
          BY <4>1, <5>1, <5>2
      <4>3. CASE ~(index.active # None /\ Saw(index.active).status = "running")
        <5>1. pc'[p] = "up" /\ outcome' = outcome
          BY <1>0, <3>1, <4>3 DEF StartProcess
        <5> QED
          BY <4>1, <5>1 DEF Writes
      <4> QED
        BY <4>2, <4>3
    <3>2. CASE RecoverCall(p)
      BY <3>2 DEF RecoverCall, Writes
    <3>3. CASE RecoverQuestion(p)
      BY <1>0, <3>3 DEF RecoverQuestion, Writes
    <3>4. CASE FinishRecoveredTurn(p)
      <4>1. \E c \in {FinishedTurn(turn[p], outcome[p]), ClosedTurn(outcome[p])} :
              change' = [change EXCEPT ![p] = c]
        BY <3>4 DEF FinishRecoveredTurn
      <4>2. change'[p].status = outcome[p]
        BY <1>0, <4>1, ChangeStatuses
      <4>3. outcome[p] \in Settling
        BY <1>0 DEF Writes, Settling
      <4>4. pc'[p] = "up" /\ session'[p] \in Session /\ outcome'[p] = outcome[p]
        BY <1>0, <3>4 DEF FinishRecoveredTurn, Writes
      <4> QED
        BY <4>2, <4>3, <4>4 DEF Writes
    <3> QED
      BY <1>3, <3>1, <3>2, <3>3, <3>4 DEF ProcessStep
  <2> QED
    BY <2>1, <2>2 DEF Writes, SameActor, Unsettled
<1>4. ASSUME NEW p \in Process, Crash(p) PROVE Writes'
  <2>1. \A a \in Actor : home[a] # p => change'[a] = change[a] /\ pc'[a] = pc[a]
    BY <1>0, <1>4 DEF Crash
  <2>2. \A a \in Actor : home[a] = p => change'[a] = None
    BY <1>4 DEF Crash
  <2>3. \A a \in Actor : outcome'[a] # "running"
    BY <1>0, <1>4 DEF Crash, Forget, Writes
  <2>4. pc'[p] = "down" /\ session' = session
    BY <1>4 DEF Crash
  <2>5. \A q \in Process : q # p => home[q] # p
    BY <1>0
  <2>6. \A t \in Task : change'[t] # None =>
          Unsettled(t)' /\ (pc'[t] = "return" => change'[t].status \in Settling)
    BY <2>1, <2>2 DEF Writes, Unsettled
  <2>7. \A i \in Interrupter : change'[i] # None => AtWork(i)' /\ change'[i].status \in Settling
    BY <2>1, <2>2 DEF Writes
  <2>8. \A q \in Process : /\ change'[q] # None => pc'[q] \in {"answer", "finish", "up"}
                           /\ change'[q] # None /\ pc'[q] = "up" => change'[q].status \in Settling
                           /\ change'[q] # None \/ pc'[q] \in {"answer", "finish"} => session'[q] \in Session
    BY <1>0, <2>1, <2>2, <2>4, <2>5 DEF Writes
  <2> QED
    BY <2>3, <2>6, <2>7, <2>8 DEF Writes
<1>5. ASSUME NEW a \in Actor, LoadIndex(a) \/ WriteIndex(a) PROVE Writes'
  <2>1. UNCHANGED <<pc, outcome, session>>
    BY <1>5, IndexFrame DEF taskVars
  <2>2. \A b \in Actor : change'[b] # None => change'[b] = change[b]
    BY <1>0, <1>5 DEF LoadIndex, WriteIndex
  <2> QED
    BY <2>1, <2>2 DEF Writes, Unsettled
<1>6. CASE UNCHANGED vars
  BY <1>6 DEF vars, taskVars, Writes, Unsettled
<1> QED
  BY <1>1, <1>2, <1>3, <1>4, <1>5, <1>6 DEF Next

\* An update that leaves the session running is one of an actor that has yet to settle it.
LEMMA RunningIsOwed ==
    ASSUME TypeInv, Writes, NEW a \in Actor, WriteIndex(a), \A r, s \in Session : r = s,
           NEW s \in Session, index'.sessions[s].status = "running"
    PROVE  Unsettled(a)' /\ index'.active = s
<1> USE SessionTurnsAssumption DEF Actor
<1>1. loaded[a] \in Index /\ change[a] \in Change
  BY ActorTypes DEF WriteIndex, TypeInv, Placed
<1>2. session[a] \in Session
  BY <1>1, MarkersAssumption DEF Writes, TypeInv, Placed, Unsettled, Committed
<1>3. session[a] = s
  BY <1>2
<1>4. index' = [active |-> s,
                sessions |-> [loaded[a].sessions EXCEPT ![s] = Changed(@, change[a])]]
  BY <1>3 DEF WriteIndex
<1>5. index'.active = s /\ index'.sessions[s] = Changed(loaded[a].sessions[s], change[a])
  BY <1>1, <1>4 DEF Index
<1>6. change[a].status \notin Settling
  BY <1>5 DEF Changed, Settling, Status, Keep
<1>7. change[a] # None
  BY <1>1, MarkersAssumption
<1>8. CASE a \in Task
  <2>1. pc[a] \in Committed
    BY <1>6, <1>7, <1>8 DEF Writes, Unsettled
  <2> QED
    BY <1>5, <1>8, <2>1, IndexFrame DEF Unsettled
<1>9. CASE a \in Process
  <2>1. pc[a] \in {"answer", "finish"}
    BY <1>6, <1>7, <1>9 DEF Writes
  <2> QED
    BY <1>5, <1>9, <2>1, IndexFrame DEF Unsettled
<1>10. CASE a \in Interrupter
  BY <1>6, <1>7, <1>10 DEF Writes
<1> QED
  BY <1>8, <1>9, <1>10

LEMMA SettledStep ==
    ASSUME TypeInv, OneUp, Writes, Settled, Writes', ~Attaches, \A r, s \in Session : r = s,
           [Next]_vars
    PROVE  Settled'
<1> USE SessionTurnsAssumption DEF Actor
<1>0. /\ pc \in [Actor -> TaskPc \cup InterrupterPc \cup ProcessPc]
      /\ \A a \in Task \cup Interrupter : AtWork(a) => home[a] \in Process
  BY ActorTypes DEF TypeInv, Placed
<1>1. ASSUME UNCHANGED index,
             \A p \in Process : pc'[p] = "down" <=> pc[p] = "down",
             \A a \in Actor : Unsettled(a) => Unsettled(a)'
      PROVE  Settled'
  BY <1>1 DEF Settled, Saw
<1>2. ASSUME NEW t \in Task, TaskStep(t) PROVE Settled'
  <2>1. (\A a \in Actor \ {t} : SameActor(a)) /\ UNCHANGED index
    BY <1>2, TaskFrame
  <2>2. Unsettled(t) => Unsettled(t)'
    BY <1>2, TaskWrites
  <2>3. \A a \in Actor : Unsettled(a) => Unsettled(a)'
    BY <2>1, <2>2 DEF SameActor, Unsettled
  <2>4. \A p \in Process : pc'[p] = pc[p]
    BY <2>1 DEF SameActor
  <2> QED
    BY <1>1, <2>1, <2>3, <2>4
<1>3. ASSUME NEW i \in Interrupter, InterrupterStep(i) PROVE Settled'
  <2>1. (\A a \in Actor \ {i} : SameActor(a)) /\ UNCHANGED index
    BY <1>3, InterrupterFrame
  <2>2. \A a \in Actor : Unsettled(a) => Unsettled(a)'
    BY <2>1 DEF SameActor, Unsettled
  <2>3. \A p \in Process : pc'[p] = pc[p]
    BY <2>1 DEF SameActor
  <2> QED
    BY <1>1, <2>1, <2>2, <2>3
<1>4. ASSUME NEW p \in Process, StartProcess(p) PROVE Settled'
  <2>1. CASE index.active # None /\ Saw(index.active).status = "running"
    <3>1. index' = index /\ pc'[p] = "answer"
      BY <1>0, <1>4, <2>1 DEF StartProcess
    <3>2. Unsettled(p)'
      BY <3>1 DEF Unsettled
    <3>3. \A s \in Session : index'.sessions[s].status = "running" => index'.active = s
      BY <3>1 DEF Settled, Saw
    <3> QED
      BY <3>2, <3>3 DEF Settled, Saw
  <2>2. CASE ~(index.active # None /\ Saw(index.active).status = "running")
    <3>1. index' = index
      BY <1>4 DEF StartProcess
    <3>2. \A s \in Session : Saw(s).status # "running"
      BY <2>2, SessionTurnsAssumption DEF Settled
    <3> QED
      BY <3>1, <3>2 DEF Settled, Saw
  <2> QED
    BY <2>1, <2>2
<1>5. ASSUME NEW p \in Process, ProcessStep(p), ~Crash(p), ~StartProcess(p) PROVE Settled'
  <2>1. /\ (\A a \in Actor \ {p} : SameActor(a)) /\ UNCHANGED index
        /\ pc[p] \in {"answer", "finish"} /\ pc'[p] \in {"answer", "finish", "up"}
    BY <1>5, RecoveryFrame
  <2>2. Unsettled(p)'
    <3>1. CASE FinishRecoveredTurn(p)
      <4>1. PICK c \in {FinishedTurn(turn[p], outcome[p]), ClosedTurn(outcome[p])} :
              change' = [change EXCEPT ![p] = c] /\ c \in Change
        <5>1. outcome[p] \in Status
          BY ActorTypes DEF TypeInv
        <5>2. CASE turn[p] \in prompted
          <6>1. turn[p] \in Task
            BY <5>2 DEF TypeInv, TypeOK
          <6>2. FinishedTurn(turn[p], outcome[p]) \in Change
            BY <5>1, <6>1, Updates
          <6> QED
            BY <3>1, <5>2, <6>2 DEF FinishRecoveredTurn
        <5>3. CASE turn[p] \notin prompted
          BY <3>1, <5>1, <5>3, Updates DEF FinishRecoveredTurn
        <5> QED
          BY <5>2, <5>3
      <4>2. change'[p] # None
        BY <4>1, ActorTypes, MarkersAssumption DEF TypeInv
      <4> QED
        BY <4>2 DEF Unsettled
    <3>2. CASE RecoverCall(p) \/ RecoverQuestion(p)
      BY <1>0, <3>2 DEF RecoverCall, RecoverQuestion, Unsettled
    <3> QED
      BY <1>5, <3>1, <3>2 DEF ProcessStep
  <2>3. \A a \in Actor : Unsettled(a) => Unsettled(a)'
    BY <2>1, <2>2 DEF SameActor, Unsettled
  <2>4. \A q \in Process : pc'[q] = "down" <=> pc[q] = "down"
    BY <2>1 DEF SameActor
  <2> QED
    BY <1>1, <2>1, <2>3, <2>4
<1>6. ASSUME NEW p \in Process, Crash(p) PROVE Settled'
  <2>1. \A q \in Process : pc'[q] = "down"
    BY <1>6 DEF Crash, OneUp, TypeInv, Placed
  <2>2. index' = index
    BY <1>6 DEF Crash, fileVars
  <2> QED
    BY <2>1, <2>2 DEF Settled, Saw
<1>7. ASSUME NEW a \in Actor, WriteIndex(a) PROVE Settled'
  BY <1>7, RunningIsOwed DEF TypeInv, Settled, Saw
<1>8. ASSUME NEW a \in Actor, LoadIndex(a) PROVE Settled'
  BY <1>8, <1>1 DEF LoadIndex, Unsettled
<1>9. CASE UNCHANGED vars
  BY <1>9, <1>1 DEF vars, Unsettled
<1> QED
  BY <1>2, <1>3, <1>4, <1>5, <1>6, <1>7, <1>8, <1>9 DEF Next, ProcessStep

\* Where a workspace has one session and processes follow one another, a session nobody works
\* on never says that it is running, whatever crashes and writes of an outdated index there are:
\* no prompt is refused for a turn that is gone.
THEOREM QuietIsSettled ==
    ASSUME ~Attaches, \A r, s \in Session : r = s
    PROVE  Spec => []QuietSessionIsSettled
<1> DEFINE Inv == TypeInv /\ OneUp /\ Writes /\ Settled
<1>1. Init => Inv
  <2> SUFFICES ASSUME Init PROVE Inv
    OBVIOUS
  <2> USE SessionTurnsAssumption DEF Actor, Init
  <2>1. TypeInv
    BY InitType
  <2>2. OneUp
    BY DEF OneUp
  <2>3. Writes
    BY DEF Writes
  <2>4. Settled
    BY DEF Settled, Saw
  <2> QED
    BY <2>1, <2>2, <2>3, <2>4
<1>2. Inv /\ [Next]_vars => Inv'
  <2> SUFFICES ASSUME Inv, [Next]_vars PROVE Inv'
    OBVIOUS
  <2>1. TypeInv' /\ OneUp' /\ Writes'
    BY TypeStep, OneUpStep, WritesStep
  <2>2. Settled'
    BY <2>1, SettledStep
  <2> QED
    BY <2>1, <2>2
<1>3. Inv => QuietSessionIsSettled
  <2> SUFFICES ASSUME Inv, Quiet, NEW s \in Session, Saw(s).status = "running" PROVE FALSE
    BY DEF QuietSessionIsSettled
  <2>1. PICK a \in Actor : Unsettled(a)
    BY DEF Settled, Quiet, At
  <2> QED
    BY <2>1 DEF Quiet, Unsettled, Committed
<1> QED
  BY <1>1, <1>2, <1>3, PTL DEF Spec

-----------------------------------------------------------------------------
(* Every turn the files and the actors speak of has begun.                 *)

Begun(t) == record[t] # "none"

BegunIndex(file) ==
    \A s \in Session : /\ file.sessions[s].turn # None => Begun(file.sessions[s].turn)
                       /\ file.sessions[s].last # None => Begun(file.sessions[s].last)

BegunChange(c) ==
    /\ c.turn \notin {None, Keep} => Begun(c.turn)
    /\ c.last # Keep => Begun(c.last)

BegunFiles ==
    /\ BegunIndex(index)
    /\ \A a \in Actor : loaded[a] # None => BegunIndex(loaded[a])
    /\ \A a \in Actor : change[a] # None => BegunChange(change[a])
    /\ \A c \in Call : message[c] # None => Begun(message[c].turn)

\* A task that has come for a prompt has not begun its turn before its check succeeds; every
\* other one works on a turn that has begun.
BegunTask(t) ==
    /\ pc[t] \in {"idle", "check"} => ~Begun(t)
    /\ pc[t] = "check" => turn[t] = t
    /\ AtWork(t) /\ pc[t] # "check" => Begun(turn[t])

BegunInv ==
    /\ BegunFiles
    /\ \A t \in Task : BegunTask(t)
    /\ \A a \in Process \cup Interrupter : turn[a] # None => Begun(turn[a])

\* A record is written of a turn that begins, or of one that has begun.
RecordStep ==
    \/ record' = record
    \/ \E t \in Task : CheckTurn(t) /\ record' = [record EXCEPT ![t] = "running"] /\ pc'[t] = "prompt"
    \/ \E t \in Task, status \in Status : Begun(t) /\ record' = [record EXCEPT ![t] = status]

LEMMA RecordSteps ==
    ASSUME TypeInv, BegunInv, Next
    PROVE  RecordStep
<1> USE SessionTurnsAssumption DEF Actor
<1>1. ASSUME NEW t \in Task, TaskStep(t) PROVE RecordStep
  <2>1. CASE CheckTurn(t)
    BY <2>1, ActorTypes DEF CheckTurn, RecordStep, TypeInv
  <2>2. CASE FinishTurn(t) /\ At(t, "finish")
    <3>1. Begun(turn[t]) /\ turn[t] \in Task /\ outcome[t] \in Status
      BY <2>2, ActorTypes DEF BegunInv, BegunTask, TypeInv, Placed
    <3>2. record' = [record EXCEPT ![turn[t]] = outcome[t]]
      BY <2>2 DEF FinishTurn
    <3> QED
      BY <3>1, <3>2 DEF RecordStep
  <2>3. CASE ~CheckTurn(t) /\ ~(FinishTurn(t) /\ At(t, "finish"))
    BY <1>1, <2>3 DEF RecordStep, TaskStep, RunTurn, AppendPrompt, ContinueTurn, LoadPendingCalls,
       Register, Route, RequestModel, ModelAnswers, RejectCall, BeginCall, FinishCall, CallThrows,
       AskUser, RecordQuestion, PauseForUser, CallsEnd, FinishFailedTurn, FinishTurn, Return
  <2> QED
    BY <2>1, <2>2, <2>3
<1>2. ASSUME NEW i \in Interrupter, InterrupterStep(i) PROVE RecordStep
  <2>1. CASE AbortTurn(i) /\ captured[i] = None /\ turn[i] # None
    <3>1. Begun(turn[i]) /\ turn[i] \in Task
      BY <2>1, ActorTypes DEF BegunInv, TypeInv
    <3>2. record' = [record EXCEPT ![turn[i]] = "interrupted"]
      BY <2>1 DEF AbortTurn
    <3> QED
      BY <3>1, <3>2 DEF RecordStep, Status
  <2>2. CASE ~(AbortTurn(i) /\ captured[i] = None /\ turn[i] # None)
    BY <1>2, <2>2 DEF RecordStep, InterrupterStep, Interrupt, InterruptQuestions, AbortTurn
  <2> QED
    BY <2>1, <2>2
<1>3. ASSUME NEW p \in Process, ProcessStep(p) PROVE RecordStep
  <2>1. CASE FinishRecoveredTurn(p) /\ turn[p] \in prompted
    <3>1. turn[p] \in Task
      BY <2>1 DEF TypeInv, TypeOK
    <3>2. Begun(turn[p]) /\ outcome[p] \in Status
      BY <3>1, ActorTypes DEF BegunInv, TypeInv
    <3>3. record' = [record EXCEPT ![turn[p]] = outcome[p]]
      BY <2>1 DEF FinishRecoveredTurn
    <3> QED
      BY <3>1, <3>2, <3>3 DEF RecordStep
  <2>2. CASE ~(FinishRecoveredTurn(p) /\ turn[p] \in prompted)
    BY <1>3, <2>2 DEF RecordStep, ProcessStep, StartProcess, RecoverCall, RecoverQuestion,
       FinishRecoveredTurn, Crash
  <2> QED
    BY <2>1, <2>2
<1>4. ASSUME NEW a \in Actor, LoadIndex(a) \/ WriteIndex(a) PROVE RecordStep
  BY <1>4 DEF LoadIndex, WriteIndex, RecordStep
<1> QED
  BY <1>1, <1>2, <1>3, <1>4 DEF Next

\* A turn that has begun stays so, and only a check that succeeds begins one.
LEMMA BegunStays ==
    ASSUME TypeInv, BegunInv, Next, NEW t \in Task
    PROVE  /\ Begun(t) => Begun(t)'
           /\ Begun(t)' => Begun(t) \/ (CheckTurn(t) /\ pc'[t] = "prompt")
<1>1. record \in [Task -> Status \cup {"none"}] /\ "none" \notin Status
  BY DEF TypeInv, TypeOK, Status
<1>2. RecordStep
  BY RecordSteps
<1>3. CASE record' = record
  BY <1>3 DEF Begun
<1>4. ASSUME NEW u \in Task, CheckTurn(u), record' = [record EXCEPT ![u] = "running"],
             pc'[u] = "prompt"
      PROVE  /\ Begun(t) => Begun(t)'
             /\ Begun(t)' => Begun(t) \/ (CheckTurn(t) /\ pc'[t] = "prompt")
  BY <1>1, <1>4 DEF Begun
<1>5. ASSUME NEW u \in Task, NEW status \in Status, Begun(u), record' = [record EXCEPT ![u] = status]
      PROVE  /\ Begun(t) => Begun(t)'
             /\ Begun(t)' => Begun(t)
  BY <1>1, <1>5 DEF Begun
<1> QED
  BY <1>2, <1>3, <1>4, <1>5 DEF RecordStep

\* What was begun in a file or an update stays begun.
LEMMA BegunFilesStay ==
    ASSUME TypeInv, BegunInv, Next
    PROVE  /\ \A file \in Index : BegunIndex(file) => BegunIndex(file)'
           /\ \A c \in Change : BegunChange(c) => BegunChange(c)'
<1>1. \A t \in Task : Begun(t) => Begun(t)'
  BY BegunStays
<1>2. ASSUME NEW file \in Index, BegunIndex(file) PROVE BegunIndex(file)'
  <2>1. \A s \in Session : /\ file.sessions[s].turn \in Task \cup {None}
                           /\ file.sessions[s].last \in Task \cup {None}
    BY DEF Index, Record
  <2> QED
    BY <1>1, <1>2, <2>1 DEF BegunIndex
<1>3. ASSUME NEW c \in Change, BegunChange(c) PROVE BegunChange(c)'
  <2>1. c.turn \in Task \cup {None, Keep} /\ c.last \in Task \cup {Keep}
    BY DEF Change
  <2> QED
    BY <1>1, <1>3, <2>1 DEF BegunChange
<1> QED
  BY <1>2, <1>3

\* What a task does to its turn, to the messages, and to the update it is at.
LEMMA TaskWork ==
    ASSUME TypeInv, NEW t \in Task, TaskStep(t)
    PROVE  /\ \/ RunTurn(t) \/ ContinueTurn(t) \/ Return(t)
              \/ AtWork(t) /\ turn'[t] = turn[t] /\ pc'[t] \notin {"idle", "check"}
           /\ \/ message' = message
              \/ pc[t] \in {"route", "model"} /\ \E calls \in SUBSET Call : Issue(t, calls)
           /\ \/ change'[t] \in {change[t], Touch, ToStatus(outcome[t])}
              \/ CheckTurn(t) /\ pc'[t] = "prompt" /\ change'[t] = StartedTurn(t)
              \/ /\ AtWork(t) /\ pc[t] # "check"
                 /\ change'[t] \in {StartedTurn(turn[t]), FinishedTurn(turn[t], outcome[t])}
<1> USE ActorTypes DEF TypeInv, Actor
<1>1. CASE RunTurn(t)
  BY <1>1 DEF RunTurn
<1>2. CASE CheckTurn(t)
  BY <1>2 DEF CheckTurn
<1>3. CASE AppendPrompt(t)
  BY <1>3 DEF AppendPrompt
<1>4. CASE ContinueTurn(t)
  BY <1>4 DEF ContinueTurn
<1>5. CASE LoadPendingCalls(t)
  BY <1>5 DEF LoadPendingCalls
<1>6. CASE Register(t)
  BY <1>6 DEF Register
<1>7. CASE Route(t)
  <2>1. AtWork(t) /\ turn' = turn /\ pc[t] = "route"
    BY <1>7 DEF Route
  <2>2. pc'[t] \in {"loop", "calls"} /\ change'[t] \in {change[t], Touch}
    BY <1>7 DEF Route, Issue
  <2>3. message' = message \/ \E calls \in SUBSET Call : Issue(t, calls)
    <3>1. ASSUME NEW c \in Call, Issue(t, {c}) PROVE \E calls \in SUBSET Call : Issue(t, calls)
      BY <3>1
    <3> QED
      BY <1>7, <3>1 DEF Route
  <2> QED
    BY <2>1, <2>2, <2>3
<1>8. CASE RequestModel(t)
  BY <1>8 DEF RequestModel
<1>9. CASE ModelAnswers(t)
  <2>1. AtWork(t) /\ turn' = turn /\ pc[t] = "model"
    BY <1>9 DEF ModelAnswers
  <2>2. pc'[t] \in {"loop", "calls", "finish", "error"} /\ change'[t] \in {change[t], Touch}
    BY <1>9 DEF ModelAnswers, Issue
  <2>3. message' = message \/ \E calls \in SUBSET Call : Issue(t, calls)
    BY <1>9 DEF ModelAnswers
  <2> QED
    BY <2>1, <2>2, <2>3
<1>10. CASE RejectCall(t)
  BY <1>10 DEF RejectCall, AppendResult
<1>11. CASE BeginCall(t)
  BY <1>11 DEF BeginCall
<1>12. CASE FinishCall(t)
  BY <1>12 DEF FinishCall, AppendResult
<1>13. CASE CallThrows(t)
  BY <1>13 DEF CallThrows
<1>14. CASE AskUser(t)
  BY <1>14 DEF AskUser
<1>15. CASE RecordQuestion(t)
  BY <1>15 DEF RecordQuestion
<1>16. CASE PauseForUser(t)
  BY <1>16 DEF PauseForUser, AppendResult
<1>17. CASE CallsEnd(t)
  BY <1>17 DEF CallsEnd
<1>18. CASE FinishFailedTurn(t)
  BY <1>18 DEF FinishFailedTurn
<1>19. CASE FinishTurn(t)
  BY <1>19 DEF FinishTurn
<1>20. CASE Return(t)
  BY <1>20 DEF Return
<1> QED
  BY <1>1, <1>2, <1>3, <1>4, <1>5, <1>6, <1>7, <1>8, <1>9, <1>10, <1>11, <1>12, <1>13, <1>14,
     <1>15, <1>16, <1>17, <1>18, <1>19, <1>20 DEF TaskStep

LEMMA BegunTaskStep ==
    ASSUME TypeInv, BegunInv, NEW t \in Task, TaskStep(t)
    PROVE  BegunTask(t)'
<1> USE SessionTurnsAssumption, ActorTypes DEF TypeInv, Actor
<1>0. BegunTask(t) /\ Next
  BY DEF BegunInv, Next
<1>1. \A u \in Task : /\ Begun(u) => Begun(u)'
                      /\ Begun(u)' => Begun(u) \/ (CheckTurn(u) /\ pc'[u] = "prompt")
  BY <1>0, BegunStays
<1>2. CASE RunTurn(t)
  <2>1. pc[t] = "idle" /\ pc'[t] = "check" /\ turn'[t] = t /\ record' = record
    BY <1>2 DEF RunTurn, Comes, fileVars
  <2> QED
    BY <1>0, <2>1 DEF BegunTask, Begun
<1>3. CASE ContinueTurn(t)
  <2>1. PICK s \in Session : Saw(s).last # None /\ turn' = [turn EXCEPT ![t] = Saw(s).last]
    BY <1>3 DEF ContinueTurn
  <2>2. turn'[t] = Saw(s).last /\ pc'[t] = "pending" /\ record' = record
    BY <1>3, <2>1 DEF ContinueTurn
  <2>3. Begun(Saw(s).last)
    BY <2>1 DEF BegunInv, BegunFiles, BegunIndex, Saw
  <2> QED
    BY <2>2, <2>3 DEF BegunTask, Begun
<1>4. CASE Return(t)
  BY <1>4 DEF Return, BegunTask
<1>5. CASE AtWork(t) /\ turn'[t] = turn[t] /\ pc'[t] \notin {"idle", "check"}
  <2>1. CASE pc[t] # "check"
    <3>1. Begun(turn[t]) /\ turn[t] \in Task
      BY <1>0, <1>5, <2>1 DEF BegunTask, Placed
    <3>2. Begun(turn[t])'
      <4>1. \A u \in Task : u = turn[t] => Begun(u)'
        BY <1>1, <3>1
      <4> QED
        BY <1>5, <3>1, <4>1 DEF Begun
    <3> QED
      BY <1>5, <3>2 DEF BegunTask
  <2>2. CASE pc[t] = "check"
    <3>1. CheckTurn(t) /\ turn[t] = t
      <4>1. turn[t] = t
        BY <1>0, <2>2 DEF BegunTask
      <4>2. CheckTurn(t)
        BY <2>2 DEF TaskStep, RunTurn, Comes, AppendPrompt, ContinueTurn, LoadPendingCalls, Register,
           Route, RequestModel, ModelAnswers, RejectCall, BeginCall, FinishCall, CallThrows, AskUser,
           RecordQuestion, PauseForUser, CallsEnd, FinishFailedTurn, FinishTurn, Return
      <4> QED
        BY <4>1, <4>2
    <3>2. \/ pc'[t] = "done"
          \/ pc'[t] = "prompt" /\ record' = [record EXCEPT ![t] = "running"]
      BY <3>1 DEF CheckTurn
    <3>3. record' = [record EXCEPT ![t] = "running"] => Begun(t)'
      BY DEF Begun, TypeOK
    <3>4. turn'[t] = t
      BY <1>5, <3>1
    <3>5. pc'[t] = "prompt" => Begun(turn[t])'
      BY <3>2, <3>3, <3>4 DEF Begun
    <3> QED
      BY <3>2, <3>5 DEF BegunTask
  <2> QED
    BY <2>1, <2>2
<1> QED
  BY <1>2, <1>3, <1>4, <1>5, TaskWork

LEMMA BegunStep ==
    ASSUME TypeInv, BegunInv, [Next]_vars
    PROVE  BegunInv'
<1> USE SessionTurnsAssumption, ActorTypes DEF TypeInv, Actor
<1>0. CASE UNCHANGED vars
  BY <1>0 DEF vars, fileVars, taskVars, BegunInv, BegunFiles, BegunTask, BegunIndex, BegunChange, Begun
<1>1. CASE Next
  <2>1. \A u \in Task : /\ Begun(u) => Begun(u)'
                        /\ Begun(u)' => Begun(u) \/ (CheckTurn(u) /\ pc'[u] = "prompt")
    BY <1>1, BegunStays
  <2>2. /\ \A file \in Index : BegunIndex(file) => BegunIndex(file)'
        /\ \A c \in Change : BegunChange(c) => BegunChange(c)'
    BY <1>1, BegunFilesStay
  <2>3. ASSUME \A a \in Actor : loaded'[a] \in {None, loaded[a], index} PROVE
        \A a \in Actor : loaded'[a] # None => BegunIndex(loaded[a])'
    <3> SUFFICES ASSUME NEW a \in Actor, loaded'[a] # None PROVE BegunIndex(loaded[a])'
      OBVIOUS
    <3>1. PICK file \in {loaded[a], index} : loaded'[a] = file
      BY <2>3
    <3>2. file \in Index /\ BegunIndex(file)
      BY <3>1 DEF BegunInv, BegunFiles, TypeOK
    <3>3. BegunIndex(file)'
      BY <2>2, <3>2
    <3> QED
      BY <3>1, <3>3 DEF BegunIndex
  <2>4. ASSUME NEW a \in Actor, change'[a] \in {None, change[a]}, change'[a] # None
        PROVE  BegunChange(change[a])'
    <3>1. BegunChange(change[a]) /\ change[a] \in Change
      BY <2>4 DEF BegunInv, BegunFiles
    <3>2. \A c \in Change : c = change[a] => BegunChange(c)'
      BY <2>2, <3>1
    <3> QED
      BY <2>4, <3>1, <3>2 DEF BegunChange
  <2>5. ASSUME NEW u \in Task, SameActor(u), ~CheckTurn(u) \/ pc'[u] # "prompt" PROVE BegunTask(u)'
    <3>1. BegunTask(u)
      BY DEF BegunInv
    <3>2. AtWork(u) => turn[u] \in Task
      BY DEF Placed
    <3>3. Begun(u)' <=> Begun(u)
      BY <2>1, <2>5
    <3>4. \A v \in Task : v = turn[u] /\ Begun(v) => Begun(v)'
      BY <2>1
    <3> QED
      BY <2>5, <3>1, <3>2, <3>3, <3>4 DEF BegunTask, SameActor, Begun
  <2>6. ASSUME NEW a \in Process \cup Interrupter,
               turn'[a] \in {None, turn[a]} \cup {index.sessions[s].turn : s \in Session},
               turn'[a] # None
        PROVE  Begun(turn[a])'
    <3>1. turn'[a] \in Task /\ Begun(turn'[a])
      <4>1. CASE turn'[a] = turn[a]
        BY <2>6, <4>1 DEF BegunInv
      <4>2. ASSUME NEW s \in Session, turn'[a] = index.sessions[s].turn
            PROVE  turn'[a] \in Task /\ Begun(turn'[a])
        BY <2>6, <4>2, SawType DEF BegunInv, BegunFiles, BegunIndex, Saw
      <4> QED
        BY <2>6, <4>1, <4>2
    <3>2. \A u \in Task : u = turn'[a] => Begun(u)'
      BY <2>1, <3>1
    <3> QED
      BY <3>1, <3>2 DEF Begun
  <2>7. ASSUME message' = message PROVE \A c \in Call : message'[c] # None => Begun(message[c].turn)'
    <3>1. \A c \in Call : message[c] # None => message[c].turn \in Task /\ Begun(message[c].turn)
      BY DEF BegunInv, BegunFiles, TypeOK, Message
    <3> QED
      BY <2>1, <2>7, <3>1 DEF Begun
  <2>8. ASSUME UNCHANGED index PROVE BegunIndex(index)'
    BY <2>2, <2>8 DEF BegunInv, BegunFiles, TypeOK, BegunIndex
  <2>9. ASSUME NEW t \in Task, TaskStep(t) PROVE BegunInv'
    <3>1. (\A a \in Actor \ {t} : SameActor(a)) /\ UNCHANGED <<index, loaded>>
      BY <2>9, TaskFrame
    <3>2. \A u \in Task : BegunTask(u)'
      <4>1. \A u \in Task \ {t} : ~CheckTurn(u) \/ pc'[u] # "prompt"
        BY <3>1 DEF SameActor, CheckTurn
      <4>2. BegunTask(t)'
        BY <2>9, BegunTaskStep
      <4>3. \A u \in Task \ {t} : SameActor(u)
        BY <3>1
      <4> QED
        BY <2>5, <4>1, <4>2, <4>3
    <3>3. \A a \in Process \cup Interrupter : turn'[a] # None => Begun(turn[a])'
      BY <2>6, <3>1 DEF SameActor
    <3>4. BegunChange(change[t])' \/ change'[t] = None
      <4>1. BegunTask(t) /\ BegunTask(t)'
        BY <3>2 DEF BegunInv
      <4>2. CASE change'[t] \in {change[t], Touch, ToStatus(outcome[t])}
        <5>1. CASE change'[t] = change[t]
          BY <2>4, <5>1
        <5>2. CASE change'[t] \in {Touch, ToStatus(outcome[t])}
          BY <5>2 DEF BegunChange, Touch, ToStatus
        <5> QED
          BY <4>2, <5>1, <5>2
      <4>3. CASE CheckTurn(t) /\ pc'[t] = "prompt" /\ change'[t] = StartedTurn(t)
        <5>1. Begun(t)'
          <6>1. turn'[t] = turn[t] /\ turn[t] = t
            BY <4>1, <4>3 DEF CheckTurn, BegunTask
          <6> QED
            BY <4>1, <4>3, <6>1 DEF BegunTask, Begun
        <5> QED
          BY <4>3, <5>1 DEF BegunChange, StartedTurn, Begun
      <4>4. CASE /\ AtWork(t) /\ pc[t] # "check"
                 /\ change'[t] \in {StartedTurn(turn[t]), FinishedTurn(turn[t], outcome[t])}
        <5>1. turn[t] \in Task /\ Begun(turn[t])
          BY <4>1, <4>4 DEF BegunTask, Placed
        <5>2. \A u \in Task : u = turn[t] => Begun(u)'
          BY <2>1, <5>1
        <5> QED
          BY <4>4, <5>1, <5>2 DEF BegunChange, StartedTurn, FinishedTurn, Begun
      <4> QED
        BY <2>9, <4>2, <4>3, <4>4, TaskWork
    <3>5. \A a \in Actor : change'[a] # None => BegunChange(change[a])'
      BY <2>4, <3>1, <3>4 DEF SameActor
    <3>6. \A c \in Call : message'[c] # None => Begun(message[c].turn)'
      <4>1. ASSUME NEW calls \in SUBSET Call, Issue(t, calls), pc[t] \in {"route", "model"},
                   NEW c \in Call, message'[c] # None
            PROVE  Begun(message[c].turn)'
        <5>1. message'[c] = message[c] \/ message'[c].turn = turn[t]
          BY <4>1 DEF Issue, TypeOK
        <5>2. turn[t] \in Task /\ Begun(turn[t])
          BY <4>1 DEF BegunInv, BegunTask, Placed
        <5>3. message[c] # None => message[c].turn \in Task /\ Begun(message[c].turn)
          BY DEF BegunInv, BegunFiles, TypeOK, Message
        <5> QED
          BY <2>1, <4>1, <5>1, <5>2, <5>3 DEF Begun
      <4> QED
        BY <2>7, <2>9, <4>1, TaskWork
    <3>7. \A a \in Actor : loaded'[a] # None => BegunIndex(loaded[a])'
      BY <2>3, <3>1
    <3>8. BegunIndex(index)'
      BY <2>8, <3>1
    <3> QED
      BY <3>2, <3>3, <3>5, <3>6, <3>7, <3>8 DEF BegunInv, BegunFiles
  <2>10. ASSUME NEW a \in Process \cup Interrupter, \A b \in Actor \ {a} : SameActor(b),
                UNCHANGED <<index, loaded, message>>,
                turn'[a] \in {None, turn[a]} \cup {index.sessions[s].turn : s \in Session},
                change'[a] \in {None, change[a]} \/ BegunChange(change[a])'
         PROVE  BegunInv'
    <3>1. \A u \in Task : BegunTask(u)'
      BY <2>5, <2>10 DEF SameActor, CheckTurn
    <3>2. \A b \in Process \cup Interrupter : turn'[b] # None => Begun(turn[b])'
      BY <2>6, <2>10 DEF SameActor
    <3>3. \A b \in Actor : change'[b] # None => BegunChange(change[b])'
      BY <2>4, <2>10 DEF SameActor
    <3> QED
      BY <2>3, <2>7, <2>8, <2>10, <3>1, <3>2, <3>3 DEF BegunInv, BegunFiles
  <2>11. ASSUME NEW i \in Interrupter, InterrupterStep(i) PROVE BegunInv'
    <3>1. (\A a \in Actor \ {i} : SameActor(a)) /\ UNCHANGED <<index, loaded, message>>
      BY <2>11, InterrupterFrame
    <3>2. CASE Interrupt(i)
      <4>1. change' = change /\ \E s \in Session : turn'[i] = index.sessions[s].turn
        BY <3>2 DEF Interrupt, Saw
      <4> QED
        BY <2>10, <3>1, <4>1
    <3>3. CASE InterruptQuestions(i)
      <4>1. turn' = turn /\ change'[i] = ClosedTurn("interrupted")
        BY <3>3 DEF InterruptQuestions, taskVars
      <4>2. BegunChange(change[i])'
        BY <4>1 DEF BegunChange, ClosedTurn, Touch
      <4> QED
        BY <2>10, <3>1, <4>1, <4>2
    <3>4. CASE AbortTurn(i)
      <4>1. turn' = turn /\ change' = change
        BY <3>4 DEF AbortTurn, taskVars
      <4> QED
        BY <2>10, <3>1, <4>1
    <3> QED
      BY <2>11, <3>2, <3>3, <3>4 DEF InterrupterStep
  <2>12. ASSUME NEW p \in Process, ProcessStep(p), ~Crash(p) PROVE BegunInv'
    <3>1. (\A a \in Actor \ {p} : SameActor(a)) /\ UNCHANGED <<index, loaded, message>>
      BY <2>12, RecoveryFrame
    <3>2. CASE StartProcess(p)
      <4>1. change' = change
        BY <3>2 DEF StartProcess
      <4>2. turn'[p] \in {None, turn[p]} \cup {index.sessions[s].turn : s \in Session}
        <5>1. CASE index.active # None /\ Saw(index.active).status = "running"
          <6>1. turn'[p] = index.sessions[index.active].turn
            BY <3>2, <5>1 DEF StartProcess, Saw
          <6>2. index.active \in Session
            BY <5>1 DEF TypeOK, Index
          <6> QED
            BY <6>1, <6>2
        <5>2. CASE ~(index.active # None /\ Saw(index.active).status = "running")
          BY <3>2, <5>2 DEF StartProcess
        <5> QED
          BY <5>1, <5>2
      <4> QED
        BY <2>10, <3>1, <4>1, <4>2
    <3>3. CASE RecoverCall(p)
      <4>1. turn' = turn /\ change'[p] = Touch
        BY <3>3 DEF RecoverCall, AppendResult
      <4>2. BegunChange(change[p])'
        BY <4>1 DEF BegunChange, Touch
      <4> QED
        BY <2>10, <3>1, <4>1, <4>2
    <3>4. CASE RecoverQuestion(p)
      <4>1. turn' = turn /\ change' = change
        BY <3>4 DEF RecoverQuestion, taskVars
      <4> QED
        BY <2>10, <3>1, <4>1
    <3>5. CASE FinishRecoveredTurn(p)
      <4>1. turn' = turn
        BY <3>5 DEF FinishRecoveredTurn, taskVars
      <4>2. BegunChange(change[p])'
        <5>1. CASE turn[p] \in prompted
          <6>1. turn[p] \in Task /\ Begun(turn[p])
            BY <5>1 DEF BegunInv, TypeOK
          <6>2. \A u \in Task : u = turn[p] => Begun(u)'
            BY <2>1, <6>1
          <6>3. change'[p] = FinishedTurn(turn[p], outcome[p])
            BY <3>5, <5>1 DEF FinishRecoveredTurn
          <6>4. change'[p].turn = None /\ change'[p].last = turn[p]
            BY <6>3 DEF FinishedTurn
          <6>5. record'[turn[p]] # "none"
            BY <6>1, <6>2 DEF Begun
          <6>6. record'[change'[p].last] # "none"
            BY ONLY <6>4, <6>5
          <6> QED
            BY ONLY <6>4, <6>6 DEF BegunChange, Begun
        <5>2. CASE turn[p] \notin prompted
          <6>1. change'[p] = ClosedTurn(outcome[p])
            BY <3>5, <5>2 DEF FinishRecoveredTurn
          <6> QED
            BY <6>1 DEF BegunChange, ClosedTurn, Touch
        <5> QED
          BY <5>1, <5>2
      <4> QED
        BY <2>10, <3>1, <4>1, <4>2
    <3> QED
      BY <2>12, <3>2, <3>3, <3>4, <3>5 DEF ProcessStep
  <2>13. ASSUME NEW p \in Process, Crash(p) PROVE BegunInv'
    <3>1. UNCHANGED <<index, message, record>>
      BY <2>13 DEF Crash, fileVars
    <3>2. /\ \A a \in Actor : change'[a] \in {None, change[a]} /\ loaded'[a] \in {None, loaded[a], index}
          /\ \A a \in Actor : turn'[a] = IF home[a] = p THEN None ELSE turn[a]
      BY <2>13 DEF Crash, Forget
    <3>3. ASSUME NEW u \in Task PROVE BegunTask(u)'
      <4>1. BegunTask(u)
        BY DEF BegunInv
      <4>2. pc'[u] = pc[u] \/ pc'[u] = "done"
        BY <2>13 DEF Crash
      <4>3. AtWork(u)' => AtWork(u) /\ pc'[u] = pc[u] /\ home[u] # p
        BY <2>13 DEF Crash
      <4>4. AtWork(u)' => turn'[u] = turn[u]
        BY <3>2, <4>3
      <4>5. pc[u] = "check" /\ pc'[u] = "check" => turn'[u] = turn[u]
        BY <4>4
      <4> QED
        BY <3>1, <4>1, <4>2, <4>3, <4>4, <4>5 DEF BegunTask, Begun
    <3>4. \A a \in Process \cup Interrupter : turn'[a] # None => Begun(turn[a])'
      BY <2>6, <3>2
    <3>5. \A a \in Actor : change'[a] # None => BegunChange(change[a])'
      BY <2>4, <3>2
    <3> QED
      BY <2>3, <2>7, <2>8, <3>1, <3>2, <3>3, <3>4, <3>5 DEF BegunInv, BegunFiles
  <2>14. ASSUME NEW a \in Actor, LoadIndex(a) PROVE BegunInv'
    <3>1. UNCHANGED <<index, message, record, turn, pc, change>>
      BY <2>14 DEF LoadIndex, fileVars, taskVars
    <3>2. \A b \in Actor : loaded'[b] \in {None, loaded[b], index}
      BY <2>14 DEF LoadIndex
    <3> QED
      BY <2>3, <3>1, <3>2 DEF BegunInv, BegunFiles, BegunIndex, BegunChange, BegunTask, Begun
  <2>15. ASSUME NEW a \in Actor, WriteIndex(a) PROVE BegunInv'
    <3>1. UNCHANGED <<message, record, turn, pc>>
      BY <2>15 DEF WriteIndex, taskVars
    <3>2. \A b \in Actor : loaded'[b] \in {None, loaded[b], index} /\ change'[b] \in {None, change[b]}
      BY <2>15 DEF WriteIndex
    <3>3. BegunIndex(index)'
      <4>1. loaded[a] \in Index /\ change[a] \in Change /\ loaded[a] # None /\ change[a] # None
        BY <2>15 DEF WriteIndex, Placed
      <4>2. BegunIndex(loaded[a]) /\ BegunChange(change[a])
        BY <4>1 DEF BegunInv, BegunFiles
      <4>3. \A s \in Session : index'.sessions[s] \in
               {loaded[a].sessions[s], Changed(loaded[a].sessions[s], change[a])}
        BY <2>15, <4>1 DEF WriteIndex, Index
      <4>4. \A s \in Session :
               /\ index'.sessions[s].turn # None => Begun(index'.sessions[s].turn)
               /\ index'.sessions[s].last # None => Begun(index'.sessions[s].last)
        BY <4>2, <4>3 DEF BegunIndex, BegunChange, Changed
      <4> QED
        BY <3>1, <4>4 DEF BegunIndex, Begun
    <3>4. \A b \in Actor : change'[b] # None => BegunChange(change[b])'
      BY <2>4, <3>2
    <3>5. \A u \in Task : BegunTask(u)'
      BY <3>1 DEF BegunInv, BegunTask, Begun
    <3>6. \A b \in Process \cup Interrupter : turn'[b] # None => Begun(turn[b])'
      BY <3>1 DEF BegunInv, Begun
    <3>7. \A b \in Actor : loaded'[b] # None => BegunIndex(loaded[b])'
      BY <2>3, <3>2
    <3> QED
      BY <2>7, <3>1, <3>3, <3>4, <3>5, <3>6, <3>7 DEF BegunInv, BegunFiles
  <2> QED
    BY <1>1, <2>9, <2>11, <2>12, <2>13, <2>14, <2>15 DEF Next
<1> QED
  BY <1>0, <1>1

-----------------------------------------------------------------------------
(* The log while one call after the other is at work.                      *)

OneTask == patient => \A t, u \in Task : AtWork(t) /\ AtWork(u) => t = u

LEMMA OneTaskStep ==
    ASSUME TypeInv, OneUp, OneTask, [Next]_vars
    PROVE  OneTask'
<1> USE SessionTurnsAssumption, ActorTypes DEF TypeInv, Actor
<1>1. CASE UNCHANGED vars
  BY <1>1 DEF vars, OneTask
<1>2. ASSUME NEW t \in Task, TaskStep(t) PROVE OneTask'
  <2>1. (\A u \in Task \ {t} : AtWork(u)' <=> AtWork(u)) /\ patient' = patient
    BY <1>2, TaskFrame DEF SameActor
  <2>2. CASE AtWork(t)
    BY <2>1, <2>2 DEF OneTask
  <2>3. CASE Arrives(t) /\ (patient => Alone(home'[t]))
    <3>1. ASSUME NEW u \in Task, AtWork(u) PROVE home[u] = home'[t]
      BY <2>3, <3>1 DEF OneUp, Arrives, Placed
    <3>2. patient => \A u \in Task : ~AtWork(u)
      BY <2>3, <3>1 DEF Alone
    <3> QED
      BY <2>1, <3>2 DEF OneTask
  <2> QED
    BY <1>2, <2>2, <2>3, TaskFrame
<1>3. ASSUME patient' = patient, \A t \in Task : AtWork(t)' => AtWork(t) PROVE OneTask'
  BY <1>3 DEF OneTask
<1>4. ASSUME NEW i \in Interrupter, InterrupterStep(i) PROVE OneTask'
  BY <1>3, <1>4, InterrupterFrame DEF SameActor
<1>5. ASSUME NEW p \in Process, ProcessStep(p) PROVE OneTask'
  <2>1. CASE Crash(p)
    BY <1>3, <2>1 DEF Crash
  <2>2. CASE ~Crash(p)
    BY <1>3, <1>5, <2>2, RecoveryFrame DEF SameActor
  <2> QED
    BY <2>1, <2>2
<1>6. ASSUME NEW a \in Actor, LoadIndex(a) \/ WriteIndex(a) PROVE OneTask'
  BY <1>3, <1>6, IndexFrame
<1> QED
  BY <1>1, <1>2, <1>4, <1>5, <1>6 DEF Next

\* No call has two results, and none has one before it is issued.
Single == \A c \in Call : results[c] \in {0, 1} /\ (message[c] = None => results[c] = 0)

\* What a task knows of the log: a prompt has issued no call when it comes to the model; the
\* calls in hand are those that are open; and the model is asked when none is.
TaskLog(t) ==
    /\ pc[t] \in {"prompt", "route"} => turn[t] = t
    /\ pc[t] = "pending" => turn[t] # t
    /\ pc[t] \in {"prompt", "register", "route"} /\ turn[t] = t => IssuedBy(t) = {}
    /\ pc[t] = "register" /\ turn[t] # t => batch[t] = Open(turn[t])
    /\ pc[t] \in {"calls", "tool", "ask", "asked"} => batch[t] = Open(turn[t])
    /\ pc[t] \in {"tool", "ask", "asked"} => current[t] \in batch[t]
    /\ pc[t] \in {"loop", "model"} => Open(turn[t]) = {}

LogInv == patient => Single /\ \A t \in Task : TaskLog(t)

\* A recovery has the open calls of its turn in hand, and ends when there are none.
Closing ==
    \A p \in Process : /\ pc[p] = "answer" => batch[p] = Open(turn[p])
                       /\ pc[p] = "finish" => Open(turn[p]) = {}

\* What a step does to the calls in the log: nothing, it issues some, or it answers one.
Answered(c) == results' = [results EXCEPT ![c] = @ + 1] /\ UNCHANGED <<message, record>>

LogMove ==
    \/ UNCHANGED <<message, results>>
    \/ \E t \in Task, calls \in SUBSET Call :
          /\ turn[t] \in Task /\ Begun(turn[t]) /\ Open(turn[t]) = {}
          /\ Issue(t, calls) /\ UNCHANGED <<results, record>>
    \/ \E u \in Task \cup {None} : \E c \in Open(u) : Answered(c)

\* Where neither calls nor results change, the same calls are open.
LEMMA OpenSame ==
    ASSUME UNCHANGED <<message, results>>, NEW u
    PROVE  Open(u)' = Open(u) /\ IssuedBy(u)' = IssuedBy(u)
BY DEF Open, IssuedBy

\* The calls a turn issues when it has none open are its open ones.
LEMMA OpenIssued ==
    ASSUME Single, NEW t \in Task, NEW u \in Task, turn[t] = u, NEW calls \in SUBSET Call,
           Issue(t, calls), Open(u) = {}, UNCHANGED results
    PROVE  Open(u)' = calls
<1>1. \A c \in Call : message'[c] = IF c \in calls THEN [turn |-> u, calls |-> calls]
                                    ELSE message[c]
  BY DEF Issue
<1>2. \A c \in Call : c \in calls => message[c] = None /\ results[c] = 0
  BY DEF Issue, Single
<1>3. \A c \in Call : message[c] # None /\ message[c].turn = u => results[c] # 0
  BY DEF Open, IssuedBy
<1>4. [turn |-> u, calls |-> calls] # None
  BY MarkersAssumption DEF Message
<1> QED
  BY <1>1, <1>2, <1>3, <1>4 DEF Open, IssuedBy

\* An open call that is answered is open no more.
LEMMA OpenAnswered ==
    ASSUME TypeOK, NEW u, NEW c \in Open(u), Answered(c)
    PROVE  Open(u)' = Open(u) \ {c}
<1>1. c \in Call /\ results[c] = 0 /\ results \in [Call -> Nat] /\ message' = message
  BY DEF Open, IssuedBy, Answered, TypeOK
<1>2. \A d \in Call : results'[d] = IF d = c THEN 1 ELSE results[d]
  BY <1>1 DEF Answered
<1> QED
  BY <1>1, <1>2 DEF Open, IssuedBy

LEMMA SingleStep ==
    ASSUME TypeOK, Single, LogMove
    PROVE  Single'
<1>1. CASE UNCHANGED <<message, results>>
  BY <1>1 DEF Single
<1>2. ASSUME NEW t \in Task, NEW calls \in SUBSET Call, turn[t] \in Task, Issue(t, calls),
             UNCHANGED results
      PROVE  Single'
  <2>1. \A c \in Call : message'[c] = IF c \in calls THEN [turn |-> turn[t], calls |-> calls]
                                      ELSE message[c]
    BY <1>2 DEF Issue
  <2>2. [turn |-> turn[t], calls |-> calls] # None
    BY <1>2, MarkersAssumption DEF Message
  <2> QED
    BY <1>2, <2>1, <2>2 DEF Single
<1>3. ASSUME NEW u, NEW c \in Open(u), Answered(c) PROVE Single'
  <2>1. c \in Call /\ results[c] = 0 /\ message[c] # None
    BY <1>3 DEF Open, IssuedBy
  <2>2. results \in [Call -> Nat]
    BY DEF TypeOK
  <2> QED
    BY <1>3, <2>1, <2>2 DEF Single, Answered
<1> QED
  BY <1>1, <1>2, <1>3 DEF LogMove

\* A step of a task moves the log as above, and leaves the task knowing what it is to know.
LEMMA TaskLogStep ==
    ASSUME TypeInv, BegunInv, Single, NEW t \in Task, TaskLog(t), TaskStep(t)
    PROVE  LogMove /\ TaskLog(t)'
<1> USE SessionTurnsAssumption, ActorTypes DEF TypeInv, Actor
<1>0. /\ BegunTask(t)
      /\ AtWork(t) => turn[t] \in Task
      /\ AtWork(t) /\ pc[t] # "check" => Begun(turn[t])
  BY DEF BegunInv, BegunTask, Placed
<1>1. ASSUME UNCHANGED <<message, results>>,
             pc'[t] \notin {"prompt", "register", "route", "pending", "calls", "tool", "ask", "asked",
                            "loop", "model"}
      PROVE  LogMove /\ TaskLog(t)'
  BY <1>1 DEF LogMove, TaskLog
<1>2. CASE RunTurn(t)
  BY <1>1, <1>2 DEF RunTurn
<1>3. CASE CheckTurn(t)
  <2>1. UNCHANGED <<message, results, turn>> /\ pc'[t] \in {"done", "prompt"} /\ pc[t] = "check"
    BY <1>3 DEF CheckTurn
  <2>2. turn[t] = t /\ IssuedBy(t) = {}
    BY <1>0, <2>1 DEF BegunTask, BegunInv, BegunFiles, IssuedBy
  <2>3. IssuedBy(t)' = {}
    BY <2>1, <2>2, OpenSame
  <2> QED
    BY <2>1, <2>2, <2>3 DEF LogMove, TaskLog
<1>4. CASE AppendPrompt(t)
  <2>1. UNCHANGED <<message, results, turn>> /\ pc'[t] = "register" /\ pc[t] = "prompt"
    BY <1>4 DEF AppendPrompt
  <2>2. turn[t] = t /\ IssuedBy(t) = {}
    BY <2>1 DEF TaskLog
  <2>3. IssuedBy(t)' = {}
    BY <2>1, <2>2, OpenSame
  <2> QED
    BY <2>1, <2>2, <2>3 DEF LogMove, TaskLog
<1>5. CASE ContinueTurn(t)
  <2>1. PICK s \in Session : Saw(s).last # None /\ turn' = [turn EXCEPT ![t] = Saw(s).last]
    BY <1>5 DEF ContinueTurn
  <2>2. Begun(Saw(s).last) /\ ~Begun(t)
    BY <1>0, <1>5, <2>1 DEF ContinueTurn, Comes, BegunTask, BegunInv, BegunFiles, BegunIndex, Saw
  <2>3. turn'[t] # t
    BY <2>1, <2>2
  <2>4. UNCHANGED <<message, results>> /\ pc'[t] = "pending"
    BY <1>5 DEF ContinueTurn
  <2> QED
    BY <2>3, <2>4 DEF LogMove, TaskLog
<1>6. CASE LoadPendingCalls(t)
  <2>1. UNCHANGED <<message, results, turn>> /\ pc[t] = "pending"
    BY <1>6 DEF LoadPendingCalls
  <2>2. \/ pc'[t] = "return"
        \/ pc'[t] = "register" /\ batch'[t] = Open(turn[t])
    BY <1>6 DEF LoadPendingCalls, CallsToResume
  <2>3. turn[t] # t
    BY <2>1 DEF TaskLog
  <2>4. \A u \in Task : Open(u)' = Open(u)
    BY <2>1, OpenSame
  <2>5. turn[t] \in Task
    BY <1>0, <2>1
  <2>6. Open(turn[t])' = Open(turn[t])
    BY <2>1, <2>4, <2>5
  <2> QED
    BY <2>1, <2>2, <2>3, <2>6 DEF LogMove, TaskLog
<1>7. ASSUME UNCHANGED <<message, results, turn, batch, current>>, AtWork(t), pc[t] # "check",
             \/ pc'[t] = pc[t]
             \/ pc[t] = "register" /\ turn[t] = t /\ pc'[t] = "route"
             \/ pc[t] = "register" /\ turn[t] # t /\ pc'[t] = "calls"
             \/ pc[t] = "route" /\ pc'[t] = "loop"
             \/ pc[t] \in {"loop", "model"} /\ pc'[t] \in {"loop", "model"}
             \/ pc[t] = "tool" /\ pc'[t] = "ask"
             \/ pc[t] = "ask" /\ pc'[t] = "asked"
             \/ pc[t] = "calls" /\ batch[t] = {} /\ pc'[t] = "loop"
      PROVE  LogMove /\ TaskLog(t)'
  <2>1. \A u \in Task : Open(u)' = Open(u) /\ IssuedBy(u)' = IssuedBy(u)
    BY <1>7, OpenSame
  <2>2. turn[t] \in Task
    BY <1>0, <1>7
  <2>3. Open(turn[t])' = Open(turn[t]) /\ IssuedBy(t)' = IssuedBy(t)
    BY <1>7, <2>1, <2>2
  <2>4. Open(turn[t]) \subseteq IssuedBy(turn[t])
    BY DEF Open
  <2> QED
    BY <1>7, <2>3, <2>4 DEF LogMove, TaskLog
<1>8. ASSUME NEW calls \in SUBSET Call, Issue(t, calls), pc[t] \in {"route", "model"},
             UNCHANGED <<results, record, turn>>
      PROVE  LogMove /\ TaskLog(t)'
  <2>1. turn[t] \in Task /\ Begun(turn[t])
    BY <1>0, <1>8
  <2>2. Open(turn[t]) = {}
    BY <1>8 DEF TaskLog, Open
  <2>3. \A u \in Task : turn[t] = u => Open(u)' = calls
    BY <1>8, <2>2, OpenIssued
  <2>4. Open(turn[t])' = calls
    BY <1>8, <2>1, <2>3
  <2>5. pc'[t] = "calls" /\ batch'[t] = calls
    BY <1>8 DEF Issue
  <2> QED
    BY <1>8, <2>1, <2>2, <2>4, <2>5 DEF LogMove, TaskLog
<1>9. ASSUME NEW c \in batch[t], pc[t] \in {"calls", "tool", "asked"}, AppendResult(t, c),
             pc'[t] = "calls", UNCHANGED <<message, record, turn>>
      PROVE  LogMove /\ TaskLog(t)'
  <2>1. turn[t] \in Task /\ batch[t] = Open(turn[t])
    BY <1>0, <1>9 DEF TaskLog
  <2>2. Answered(c)
    BY <1>9 DEF AppendResult, Answered
  <2>3. \A u \in Task : c \in Open(u) => Open(u)' = Open(u) \ {c}
    BY <2>2, OpenAnswered
  <2>4. Open(turn[t])' = Open(turn[t]) \ {c}
    BY <1>9, <2>1, <2>3
  <2>5. batch'[t] = batch[t] \ {c}
    BY <1>9 DEF AppendResult
  <2> QED
    BY <1>9, <2>1, <2>2, <2>4, <2>5 DEF LogMove, TaskLog
<1>10. CASE Register(t)
  BY <1>7, <1>10 DEF Register
<1>11. CASE Route(t)
  <2>1. CASE Go(t, "loop") /\ UNCHANGED <<message, batch>>
    BY <1>7, <1>11, <2>1 DEF Route
  <2>2. ASSUME NEW c \in Call, Issue(t, {c}) PROVE LogMove /\ TaskLog(t)'
    BY <1>8, <1>11, <2>2 DEF Route
  <2> QED
    BY <1>11, <2>1, <2>2 DEF Route
<1>12. CASE RequestModel(t)
  BY <1>1, <1>7, <1>12 DEF RequestModel
<1>13. CASE ModelAnswers(t)
  <2>1. ASSUME NEW calls \in SUBSET Call, Issue(t, calls) PROVE LogMove /\ TaskLog(t)'
    BY <1>8, <1>13, <2>1 DEF ModelAnswers
  <2>2. CASE message' = message /\ batch' = batch /\ pc'[t] \in {"finish", "loop", "error"}
    BY <1>1, <1>7, <1>13, <2>2 DEF ModelAnswers
  <2> QED
    BY <1>13, <2>1, <2>2 DEF ModelAnswers
<1>14. CASE RejectCall(t)
  BY <1>9, <1>14 DEF RejectCall
<1>15. CASE BeginCall(t)
  <2>1. UNCHANGED <<message, results, turn, batch>> /\ pc[t] = "calls" /\ pc'[t] = "tool"
    BY <1>15 DEF BeginCall
  <2>2. current'[t] \in batch[t]
    BY <1>15 DEF BeginCall
  <2>3. turn[t] \in Task /\ batch[t] = Open(turn[t])
    BY <1>0, <2>1 DEF TaskLog
  <2>4. \A u \in Task : Open(u)' = Open(u)
    BY <2>1, OpenSame
  <2>5. Open(turn[t])' = Open(turn[t])
    BY <2>1, <2>3, <2>4
  <2> QED
    BY <2>1, <2>2, <2>3, <2>5 DEF LogMove, TaskLog
<1>16. CASE FinishCall(t)
  <2>1. current[t] \in batch[t]
    BY <1>16 DEF FinishCall, TaskLog
  <2> QED
    BY <1>9, <1>16, <2>1 DEF FinishCall
<1>17. CASE CallThrows(t)
  BY <1>1, <1>17 DEF CallThrows
<1>18. CASE AskUser(t)
  BY <1>7, <1>18 DEF AskUser
<1>19. CASE RecordQuestion(t)
  BY <1>7, <1>19 DEF RecordQuestion
<1>20. CASE PauseForUser(t)
  <2>1. current[t] \in batch[t]
    BY <1>20 DEF PauseForUser, TaskLog
  <2> QED
    BY <1>9, <1>20, <2>1 DEF PauseForUser
<1>21. CASE CallsEnd(t)
  BY <1>1, <1>7, <1>21 DEF CallsEnd
<1>22. CASE FinishFailedTurn(t)
  BY <1>1, <1>22 DEF FinishFailedTurn
<1>23. CASE FinishTurn(t)
  BY <1>1, <1>23 DEF FinishTurn
<1>24. CASE Return(t)
  BY <1>1, <1>24 DEF Return
<1> QED
  BY <1>2, <1>3, <1>4, <1>5, <1>6, <1>10, <1>11, <1>12, <1>13, <1>14, <1>15, <1>16, <1>17, <1>18,
     <1>19, <1>20, <1>21, <1>22, <1>23, <1>24 DEF TaskStep

\* While a process recovers a turn, no call is at work.
LEMMA RecoversAlone ==
    ASSUME TypeInv, OneUp, NEW p \in Process, pc[p] \in {"answer", "finish"}
    PROVE  \A a \in Task \cup Interrupter : ~AtWork(a) /\ ~Arrives(a)
<1> SUFFICES ASSUME NEW a \in Task \cup Interrupter, AtWork(a) \/ Arrives(a)
             PROVE  FALSE
  OBVIOUS
<1>1. PICK q \in Process : pc[q] = "up"
  BY DEF OneUp, TypeInv, Placed, Arrives
<1> QED
  BY <1>1 DEF OneUp

\* Nor is another recovery.
LEMMA OthersDown ==
    ASSUME ~Attaches, TypeInv, OneUp, NEW p \in Process, ProcessStep(p), NEW q \in Process \ {p}
    PROVE  pc'[q] \notin {"answer", "finish"}
<1> USE SessionTurnsAssumption, ActorTypes DEF TypeInv, Actor
<1>1. pc'[q] = pc[q]
  <2>1. CASE Crash(p)
    BY <2>1 DEF Crash, Placed
  <2>2. CASE ~Crash(p)
    BY <2>2, RecoveryFrame DEF SameActor
  <2> QED
    BY <2>1, <2>2
<1>2. pc[q] \in {"answer", "finish"} => pc[p] = "down"
  BY DEF OneUp
<1>3. pc[p] = "down" => StartProcess(p)
  BY DEF ProcessStep, RecoverCall, RecoverQuestion, FinishRecoveredTurn, Crash
<1> QED
  BY <1>1, <1>2, <1>3 DEF StartProcess

\* The steps of a recovery move the log, and keep the calls that are left in hand.
LEMMA RecoveryLogStep ==
    ASSUME TypeInv, Closing, NEW p \in Process, ProcessStep(p)
    PROVE  /\ LogMove
           /\ pc'[p] = "answer" => batch'[p] = Open(turn[p])'
           /\ pc'[p] = "finish" => Open(turn[p])' = {}
<1> USE SessionTurnsAssumption, ActorTypes DEF TypeInv, Actor
<1>0. turn[p] \in Task \cup {None}
  OBVIOUS
<1>1. CASE StartProcess(p)
  <2>1. UNCHANGED <<message, results>> /\ pc'[p] \in {"answer", "up"}
    BY <1>1 DEF StartProcess, fileVars
  <2>2. ASSUME pc'[p] = "answer" PROVE batch'[p] = Open(turn'[p])
    BY <1>1, <2>2 DEF StartProcess, CallsToClose
  <2>3. \A u : Open(u)' = Open(u)
    BY <2>1, OpenSame
  <2>4. Open(turn[p])' = Open(turn'[p])
    BY <2>1 DEF Open, IssuedBy
  <2> QED
    BY <2>1, <2>2, <2>4 DEF LogMove
<1>2. CASE RecoverCall(p)
  <2>1. PICK c \in batch[p] : AppendResult(p, c)
    BY <1>2 DEF RecoverCall
  <2>2. pc' = pc /\ pc[p] = "answer" /\ turn' = turn /\ Answered(c)
    BY <1>2, <2>1 DEF RecoverCall, AppendResult, Answered
  <2>3. c \in Open(turn[p])
    BY <2>1, <2>2 DEF Closing
  <2>4. \A u \in Task \cup {None} : c \in Open(u) => Open(u)' = Open(u) \ {c}
    BY <2>2, OpenAnswered
  <2>5. Open(turn[p])' = Open(turn[p]) \ {c}
    BY <1>0, <2>2, <2>3, <2>4
  <2>6. batch'[p] = batch[p] \ {c}
    BY <2>1 DEF AppendResult
  <2>7. LogMove
    BY <1>0, <2>2, <2>3 DEF LogMove
  <2> QED
    BY <2>2, <2>5, <2>6, <2>7 DEF Closing
<1>3. CASE RecoverQuestion(p)
  <2>1. UNCHANGED <<message, results, turn>> /\ pc'[p] = "finish" /\ pc[p] = "answer" /\ batch[p] = {}
    BY <1>3 DEF RecoverQuestion
  <2>2. Open(turn[p]) = {}
    BY <2>1 DEF Closing
  <2>3. Open(turn[p])' = Open(turn[p])
    BY <2>1 DEF Open, IssuedBy
  <2> QED
    BY <2>1, <2>2, <2>3 DEF LogMove
<1>4. CASE FinishRecoveredTurn(p)
  <2>1. UNCHANGED <<message, results>> /\ pc'[p] = "up"
    BY <1>4 DEF FinishRecoveredTurn
  <2> QED
    BY <2>1 DEF LogMove
<1>5. CASE Crash(p)
  <2>1. UNCHANGED <<message, results>> /\ pc'[p] = "down"
    BY <1>5 DEF Crash
  <2> QED
    BY <2>1 DEF LogMove
<1> QED
  BY <1>1, <1>2, <1>3, <1>4, <1>5 DEF ProcessStep

\* Whoever moves the log, the other tasks are not at work, and no recovery is.
LEMMA LogStep ==
    ASSUME ~Attaches, TypeInv, OneUp, BegunInv, OneTask, LogInv, Closing, [Next]_vars
    PROVE  LogInv' /\ Closing' /\ (patient => LogMove)
<1> USE SessionTurnsAssumption, ActorTypes DEF TypeInv, Actor
<1>1. ASSUME UNCHANGED <<message, results, patient>>,
             \A a \in Task \cup Process :
                 /\ pc'[a] = pc[a] /\ turn'[a] = turn[a] /\ batch'[a] = batch[a]
                 /\ current'[a] = current[a]
      PROVE  LogInv' /\ Closing' /\ (patient => LogMove)
  <2>1. \A a \in Task \cup Process : Open(turn[a])' = Open(turn[a])
    BY <1>1 DEF Open, IssuedBy
  <2>2. \A t \in Task : IssuedBy(t)' = IssuedBy(t)
    BY <1>1 DEF IssuedBy
  <2>3. \A t \in Task : TaskLog(t) => TaskLog(t)'
    BY <1>1, <2>1, <2>2 DEF TaskLog
  <2> QED
    BY <1>1, <2>1, <2>3 DEF LogInv, Single, Closing, LogMove
<1>2. CASE UNCHANGED vars
  BY <1>1, <1>2 DEF vars
<1>3. ASSUME NEW t \in Task, TaskStep(t)
      PROVE  LogInv' /\ Closing' /\ (patient => LogMove)
  <2>1. /\ \A a \in Actor \ {t} : SameActor(a)
        /\ AtWork(t) \/ Arrives(t)
        /\ patient' = patient
    BY <1>3, TaskFrame
  <2>2. \A p \in Process : pc[p] \notin {"answer", "finish"}
    BY <2>1, RecoversAlone
  <2>3. Closing'
    BY <2>1, <2>2 DEF Closing, SameActor
  <2>4. patient => LogMove /\ TaskLog(t)' /\ Single'
    BY <1>3, TaskLogStep, SingleStep DEF LogInv
  <2>5. ASSUME patient, NEW u \in Task \ {t} PROVE TaskLog(u)'
    <3>1. ~AtWork(u)
      <4>1. CASE AtWork(t)
        BY <2>5, <4>1 DEF OneTask
      <4>2. CASE ~AtWork(t)
        <5>1. Arrives(t) /\ Alone(home'[t])
          BY <1>3, <2>5, <4>2, TaskFrame
        <5>2. AtWork(u) => home[u] = home'[t]
          BY <5>1 DEF OneUp, Arrives, Placed
        <5> QED
          BY <5>1, <5>2 DEF Alone
      <4> QED
        BY <4>1, <4>2
    <3>2. pc'[u] = pc[u]
      BY <2>1 DEF SameActor
    <3> QED
      BY <3>1, <3>2 DEF TaskLog
  <2> QED
    BY <2>1, <2>3, <2>4, <2>5 DEF LogInv
<1>4. ASSUME NEW i \in Interrupter, InterrupterStep(i)
      PROVE  LogInv' /\ Closing' /\ (patient => LogMove)
  BY <1>1, <1>4, InterrupterFrame DEF SameActor
<1>5. ASSUME NEW p \in Process, ProcessStep(p)
      PROVE  LogInv' /\ Closing' /\ (patient => LogMove)
  <2>1. LogMove /\ patient' = patient
    BY <1>5, RecoveryLogStep, RecoveryFrame DEF Crash
  <2>2. Single => Single'
    BY <2>1, SingleStep
  <2>3. \A q \in Process \ {p} : pc'[q] \notin {"answer", "finish"}
    BY <1>5, OthersDown
  <2>4. Closing'
    BY <1>5, <2>3, RecoveryLogStep DEF Closing
  <2>5. ASSUME patient PROVE \A t \in Task : TaskLog(t)'
    <3>1. CASE pc[p] \in {"answer", "finish"}
      <4>1. \A t \in Task : ~AtWork(t)
        BY <3>1, RecoversAlone
      <4>2. \A t \in Task : pc'[t] = pc[t] \/ pc'[t] = "done"
        <5>1. CASE Crash(p)
          BY <5>1 DEF Crash
        <5>2. CASE ~Crash(p)
          BY <1>5, <5>2, RecoveryFrame DEF SameActor
        <5> QED
          BY <5>1, <5>2
      <4> QED
        BY <4>1, <4>2 DEF TaskLog
    <3>2. CASE StartProcess(p)
      <4>1. UNCHANGED <<message, results>>
        BY <3>2 DEF StartProcess
      <4>2. \A t \in Task : SameActor(t)
        <5>1. ~Crash(p)
          BY <3>2 DEF StartProcess, Crash
        <5> QED
          BY <1>5, <5>1, RecoveryFrame
      <4>3. \A t \in Task : Open(turn[t])' = Open(turn[t]) /\ IssuedBy(t)' = IssuedBy(t)
        BY <4>1, <4>2 DEF Open, IssuedBy, SameActor
      <4> QED
        BY <2>5, <4>2, <4>3 DEF LogInv, TaskLog, SameActor
    <3>3. CASE Crash(p)
      <4>1. UNCHANGED <<message, results>>
        BY <3>3 DEF Crash
      <4>2. \A t \in Task : \/ pc'[t] = "done"
                            \/ ~AtWork(t) /\ pc'[t] = pc[t]
                            \/ SameActor(t)
        BY <3>3 DEF Crash, Forget, SameActor
      <4>3. \A t \in Task : SameActor(t) =>
               Open(turn[t])' = Open(turn[t]) /\ IssuedBy(t)' = IssuedBy(t)
        BY <4>1 DEF Open, IssuedBy, SameActor
      <4> QED
        BY <2>5, <4>2, <4>3 DEF LogInv, TaskLog, SameActor
    <3>4. \/ pc[p] \in {"answer", "finish"} \/ StartProcess(p) \/ Crash(p)
      BY <1>5 DEF ProcessStep, RecoverCall, RecoverQuestion, FinishRecoveredTurn
    <3> QED
      BY <3>1, <3>2, <3>3, <3>4
  <2> QED
    BY <2>1, <2>2, <2>4, <2>5 DEF LogInv
<1>6. ASSUME NEW a \in Actor, LoadIndex(a) \/ WriteIndex(a)
      PROVE  LogInv' /\ Closing' /\ (patient => LogMove)
  BY <1>1, <1>6, IndexFrame
<1> QED
  BY <1>2, <1>3, <1>4, <1>5, <1>6 DEF Next

\* What the log shows of a step: a turn begins, issues calls it may issue, has one answered
\* that had no result, or nothing happens.
LEMMA TranscriptStep ==
    ASSUME TypeInv, BegunInv, Single, LogMove, Next
    PROVE  Log!Next \/ UNCHANGED Log!vars
<1> DEFINE turns == {t \in Task : record[t] # "none"}
           issuer == [c \in Call |-> IF message[c] = None THEN None ELSE message[c].turn]
<1>0. /\ record \in [Task -> Status \cup {"none"}] /\ "none" \notin Status
      /\ \A c \in Call : message[c] # None => message[c].turn \in Task
      /\ None \notin Task
  BY SessionTurnsAssumption DEF TypeInv, TypeOK, Status, Message
<1>1. CASE UNCHANGED <<message, results>>
  <2>1. issuer' = issuer
    BY <1>1
  <2>2. CASE turns' = turns
    BY <1>1, <2>1, <2>2 DEF Log!vars
  <2>3. ASSUME NEW t \in Task, CheckTurn(t), record' = [record EXCEPT ![t] = "running"]
        PROVE  Log!Begin(t)
    <3>1. t \notin turns
      BY <2>3 DEF CheckTurn, BegunInv, BegunTask, Begun
    <3>2. turns' = turns \cup {t}
      BY <1>0, <2>3
    <3> QED
      BY <1>1, <2>1, <3>1, <3>2 DEF Log!Begin
  <2>4. ASSUME NEW t \in Task, NEW status \in Status, Begun(t), record' = [record EXCEPT ![t] = status]
        PROVE  turns' = turns
    BY <1>0, <2>4 DEF Begun
  <2> QED
    BY <2>2, <2>3, <2>4, RecordSteps DEF RecordStep, Log!Next
<1>2. ASSUME NEW t \in Task, NEW calls \in SUBSET Call, turn[t] \in Task, Begun(turn[t]),
             Open(turn[t]) = {}, Issue(t, calls), UNCHANGED <<results, record>>
      PROVE  Log!Issue(turn[t], calls)
  <2>1. turn[t] \in turns /\ turns' = turns
    BY <1>2 DEF Begun
  <2>2. \A c \in Call : issuer[c] = turn[t] => results[c] = 1
    BY <1>0, <1>2 DEF Single, Open, IssuedBy
  <2>3. \A c \in calls : issuer[c] = None
    BY <1>2 DEF Issue
  <2>4. issuer' = [c \in Call |-> IF c \in calls THEN turn[t] ELSE issuer[c]]
    <3>1. [turn |-> turn[t], calls |-> calls] # None
      BY <1>2, MarkersAssumption DEF Message
    <3>2. \A c \in Call : message'[c] = IF c \in calls THEN [turn |-> turn[t], calls |-> calls]
                                        ELSE message[c]
      BY <1>2 DEF Issue
    <3> QED
      BY <3>1, <3>2
  <2> QED
    BY <1>2, <2>1, <2>2, <2>3, <2>4 DEF Log!Issue
<1>3. ASSUME NEW u, NEW c \in Open(u), Answered(c)
      PROVE  c \in Call /\ Log!Answer(c)
  <2>1. c \in Call /\ results[c] = 0 /\ issuer[c] # None
    BY <1>0, <1>3 DEF Open, IssuedBy
  <2>2. results' = [results EXCEPT ![c] = 1]
    BY <1>3, <2>1 DEF Answered
  <2>3. turns' = turns /\ issuer' = issuer
    BY <1>3 DEF Answered
  <2> QED
    BY <2>1, <2>2, <2>3 DEF Log!Answer
<1> QED
  BY <1>1, <1>2, <1>3 DEF LogMove, Log!Next

TranscriptInv == TypeInv /\ OneUp /\ BegunInv /\ OneTask /\ LogInv /\ Closing

LEMMA TranscriptInit ==
    ASSUME Init
    PROVE  TranscriptInv
<1> USE SessionTurnsAssumption DEF Actor, Init
<1>1. TypeInv
  BY InitType
<1>2. OneUp /\ OneTask /\ Closing
  BY DEF OneUp, OneTask, Closing
<1>3. BegunInv
  BY DEF BegunInv, BegunFiles, BegunTask, BegunIndex, BegunChange, Begun
<1>4. LogInv
  BY DEF LogInv, Single, TaskLog
<1> QED
  BY <1>1, <1>2, <1>3, <1>4 DEF TranscriptInv

LEMMA TranscriptInvHolds ==
    ASSUME ~Attaches
    PROVE  Spec => []TranscriptInv
<1>1. Init => TranscriptInv
  BY TranscriptInit
<1>2. TranscriptInv /\ [Next]_vars => TranscriptInv'
  BY TypeStep, OneUpStep, BegunStep, OneTaskStep, LogStep DEF TranscriptInv
<1> QED
  BY <1>1, <1>2, PTL DEF Spec

\* The log keeps what Transcript promises: where no process starts beside another one and front
\* ends wait for a call to return, no call has two results, whether the turn, its continuation
\* after an approval or a recovery gives them, and no turn issues calls with one unanswered.
THEOREM TranscriptKept ==
    ASSUME ~Attaches
    PROVE  Spec => KeepsTranscript
<1>1. Init => Log!Init
  BY SessionTurnsAssumption DEF Init, Log!Init
<1>2. TranscriptInv /\ [Next]_vars => [patient => Log!Next]_(Log!vars)
  <2> SUFFICES ASSUME TranscriptInv, [Next]_vars, patient
               PROVE  Log!Next \/ UNCHANGED Log!vars
    OBVIOUS
  <2>1. CASE UNCHANGED vars
    BY <2>1 DEF vars, fileVars, Log!vars
  <2>2. CASE Next
    BY <2>2, LogStep, TranscriptStep DEF TranscriptInv, LogInv
  <2> QED
    BY <2>1, <2>2
<1>3. Spec => []TranscriptInv
  BY TranscriptInvHolds
<1> QED
  BY <1>1, <1>2, <1>3, PTL DEF Spec, KeepsTranscript

-----------------------------------------------------------------------------
(* A recovered turn waits only for a question its user was shown.          *)

\* The user has not been shown the question: the result that says so is not in the log.
Unshown(c) == question[c] = "pending" /\ c \notin waits

\* The open calls of a turn are of one message.
Grouped == \A t \in Task : \A c, d \in Open(t) : c \in message[d].calls

\* A question that is not shown is of the message whose calls are open, if any are, and only
\* the task that asks it is at work.
UnshownAlone ==
    \A c \in Call : Unshown(c) =>
        /\ message[c] # None
        /\ \A d \in Open(message[c].turn) : c \in message[d].calls
        /\ \A t \in Task : AtWork(t) => pc[t] = "check" \/ (pc[t] = "asked" /\ current[t] = c)

\* No approval is awaited, so that no turn can be continued, nor will an update bring one back.
NoApproval ==
    /\ \A s \in Session : Saw(s).status # "ask_permission"
    /\ \A a \in Actor : change[a] # None =>
          /\ change[a].status # "ask_permission"
          /\ loaded[a] # None /\ change[a].status = Keep =>
                \A s \in Session : loaded[a].sessions[s].status # "ask_permission"

Asking == (\E c \in Call : Unshown(c)) \/ (\E t \in Task : pc[t] = "ask")

\* Only turns ask for approval.
TurnsAsk ==
    /\ \A p \in Process : outcome[p] # "ask_permission"
    /\ \A a \in Process \cup Interrupter : change[a] # None => change[a].status # "ask_permission"

BegunPlaced == \A t \in Task : Begun(t) => session[t] \in Session

\* What a recovery that leaves the turn waiting has found.
FoundQuestion ==
    \A p \in Process :
        pc[p] \in {"answer", "finish"} /\ outcome[p] = "waiting_for_user" =>
            current[p] = None /\ PendingOf(turn[p]) \cap waits # {}

LEMMA BegunPlacedStep ==
    ASSUME TypeInv, BegunInv, BegunPlaced, [Next]_vars
    PROVE  BegunPlaced'
<1> USE SessionTurnsAssumption, ActorTypes DEF TypeInv, Actor
<1>1. CASE UNCHANGED vars
  BY <1>1 DEF vars, fileVars, taskVars, BegunPlaced, Begun
<1>2. CASE Next
  <2> SUFFICES ASSUME NEW t \in Task, Begun(t)' PROVE session'[t] \in Session
    BY DEF BegunPlaced
  <2>1. Begun(t) \/ CheckTurn(t)
    BY <1>2, BegunStays
  <2>2. session[t] \in Session
    <3>1. CASE Begun(t)
      BY <3>1 DEF BegunPlaced
    <3>2. CASE CheckTurn(t)
      BY <3>2 DEF CheckTurn, Placed
    <3> QED
      BY <2>1, <3>1, <3>2
  <2>3. ASSUME NEW u \in Task, TaskStep(u) PROVE session'[t] \in Session
    <3>1. CASE RunTurn(t) \/ ContinueTurn(t)
      BY <3>1 DEF RunTurn, ContinueTurn
    <3>2. CASE u # t
      BY <2>2, <2>3, <3>2, TaskFrame DEF SameActor
    <3>3. CASE AtWork(u)
      BY <2>2, <2>3, <3>2, <3>3, TaskFrame DEF Arrives
    <3>4. CASE u = t /\ ~AtWork(t)
      <4>1. pc[t] = "idle"
        BY <2>3, <3>4, TaskFrame DEF Arrives
      <4>2. RunTurn(t) \/ ContinueTurn(t)
        BY <2>3, <3>4, <4>1 DEF TaskStep, CheckTurn, AppendPrompt, LoadPendingCalls, Register, Route,
           RequestModel, ModelAnswers, RejectCall, BeginCall, FinishCall, CallThrows, AskUser,
           RecordQuestion, PauseForUser, CallsEnd, FinishFailedTurn, FinishTurn, Return
      <4> QED
        BY <3>1, <4>2
    <3> QED
      BY <3>2, <3>3, <3>4
  <2>4. ASSUME NEW i \in Interrupter, InterrupterStep(i) PROVE session'[t] \in Session
    BY <2>2, <2>4, InterrupterFrame DEF SameActor
  <2>5. ASSUME NEW p \in Process, ProcessStep(p) PROVE session'[t] \in Session
    <3>1. CASE Crash(p)
      BY <2>2, <3>1 DEF Crash
    <3>2. CASE ~Crash(p)
      BY <2>2, <2>5, <3>2, RecoveryFrame DEF SameActor
    <3> QED
      BY <3>1, <3>2
  <2>6. ASSUME NEW a \in Actor, LoadIndex(a) \/ WriteIndex(a) PROVE session'[t] \in Session
    BY <2>2, <2>6, IndexFrame DEF taskVars
  <2> QED
    BY <1>2, <2>3, <2>4, <2>5, <2>6 DEF Next
<1> QED
  BY <1>1, <1>2

LEMMA TurnsAskStep ==
    ASSUME TypeInv, TurnsAsk, [Next]_vars
    PROVE  TurnsAsk'
<1> USE SessionTurnsAssumption, ActorTypes DEF TypeInv, Actor
<1>1. CASE UNCHANGED vars
  BY <1>1 DEF vars, taskVars, TurnsAsk
<1>2. ASSUME NEW t \in Task, TaskStep(t) PROVE TurnsAsk'
  BY <1>2, TaskFrame DEF SameActor, TurnsAsk
<1>3. ASSUME NEW i \in Interrupter, InterrupterStep(i) PROVE TurnsAsk'
  <2>1. change'[i] = change[i] \/ change'[i] = ClosedTurn("interrupted")
    BY <1>3 DEF InterrupterStep, Interrupt, InterruptQuestions, AbortTurn
  <2>2. change'[i] # None => change'[i].status # "ask_permission"
    BY <2>1, ChangeStatuses DEF TurnsAsk
  <2> QED
    BY <1>3, <2>2, InterrupterFrame DEF SameActor, TurnsAsk
<1>4. ASSUME NEW p \in Process, ProcessStep(p) PROVE TurnsAsk'
  <2>1. CASE Crash(p)
    BY <2>1 DEF Crash, Forget, TurnsAsk
  <2>2. CASE ~Crash(p)
    <3>1. outcome'[p] # "ask_permission"
      BY <1>4, <2>2 DEF TurnsAsk, ProcessStep, StartProcess, RecoverCall, RecoverQuestion,
         FinishRecoveredTurn
    <3>2. \/ change'[p] = change[p] \/ change'[p] = Touch \/ change'[p] = ClosedTurn(outcome[p])
          \/ change'[p] = FinishedTurn(turn[p], outcome[p])
      BY <1>4, <2>2 DEF ProcessStep, StartProcess, RecoverCall, AppendResult, RecoverQuestion,
         FinishRecoveredTurn
    <3>3. change'[p] # None => change'[p].status # "ask_permission"
      BY <3>2, ChangeStatuses DEF TurnsAsk, Touch, Keep
    <3> QED
      BY <1>4, <2>2, <3>1, <3>3, RecoveryFrame DEF SameActor, TurnsAsk
  <2> QED
    BY <2>1, <2>2
<1>5. ASSUME NEW a \in Actor, LoadIndex(a) \/ WriteIndex(a) PROVE TurnsAsk'
  <2>1. outcome' = outcome
    BY <1>5, IndexFrame DEF taskVars
  <2>2. \A b \in Actor : change'[b] \in {None, change[b]}
    BY <1>5 DEF LoadIndex, WriteIndex
  <2> QED
    BY <2>1, <2>2 DEF TurnsAsk
<1> QED
  BY <1>1, <1>2, <1>3, <1>4, <1>5 DEF Next

\* Nothing brings an approval back while no task writes the end of a turn.
LEMMA NoApprovalStep ==
    ASSUME \A r, s \in Session : r = s,
           TypeInv, Writes, TurnsAsk, NoApproval, Next,
           \A t \in Task : TaskStep(t) => change'[t] = change[t] \/ (change[t] = None /\ change'[t] = Touch)
    PROVE  NoApproval'
<1> USE SessionTurnsAssumption, ActorTypes DEF TypeInv, Actor
<1>0. TurnsAsk'
  BY TurnsAskStep
<1>1. ASSUME index' = index, loaded' = loaded, NEW a \in Actor, \A b \in Actor \ {a} : SameActor(b),
             change'[a] = change[a] \/ (change[a] = None /\ change'[a].status # "ask_permission")
      PROVE  NoApproval'
  <2>1. change[a] = None => loaded[a] = None
    BY DEF Placed
  <2> QED
    BY <1>1, <2>1 DEF NoApproval, SameActor, Saw
<1>2. ASSUME NEW t \in Task, TaskStep(t) PROVE NoApproval'
  <2>1. change'[t] = change[t] \/ (change[t] = None /\ change'[t].status # "ask_permission")
    BY <1>2 DEF Touch, Keep
  <2> QED
    BY <1>1, <1>2, <2>1, TaskFrame
<1>3. ASSUME NEW i \in Interrupter, InterrupterStep(i) PROVE NoApproval'
  <2>1. change'[i] = change[i] \/ (change[i] = None /\ change'[i] = ClosedTurn("interrupted"))
    BY <1>3 DEF InterrupterStep, Interrupt, InterruptQuestions, AbortTurn
  <2> QED
    BY <1>1, <1>3, <2>1, InterrupterFrame, ChangeStatuses
<1>4. ASSUME NEW p \in Process, ProcessStep(p), ~Crash(p) PROVE NoApproval'
  <2>1. change'[p] = change[p] \/ (change[p] = None /\ change'[p] # None)
    <3>1. CASE StartProcess(p)
      BY <3>1 DEF StartProcess
    <3>2. CASE RecoverCall(p)
      BY <3>2, Updates, MarkersAssumption DEF RecoverCall, AppendResult
    <3>3. CASE RecoverQuestion(p)
      BY <3>3 DEF RecoverQuestion
    <3>4. CASE FinishRecoveredTurn(p)
      <4>1. change[p] = None
        BY <3>4 DEF FinishRecoveredTurn
      <4> QED
        BY <4>1
    <3> QED
      BY <1>4, <3>1, <3>2, <3>3, <3>4 DEF ProcessStep
  <2>2. change'[p] # None => change'[p].status # "ask_permission"
    BY <1>0 DEF TurnsAsk
  <2> QED
    BY <1>1, <1>4, <2>1, <2>2, RecoveryFrame
<1>5. ASSUME NEW p \in Process, Crash(p) PROVE NoApproval'
  <2>1. index' = index
    BY <1>5 DEF Crash, fileVars
  <2>2. \A a \in Actor : \/ change'[a] = None /\ loaded'[a] = None
                         \/ change'[a] = change[a] /\ loaded'[a] = loaded[a]
    BY <1>5 DEF Crash
  <2> QED
    BY <2>1, <2>2 DEF NoApproval, Saw
<1>6. ASSUME NEW a \in Actor, LoadIndex(a) PROVE NoApproval'
  <2>1. index' = index /\ change' = change
    BY <1>6 DEF LoadIndex, fileVars
  <2>2. \A b \in Actor : loaded'[b] \in {loaded[b], index}
    BY <1>6 DEF LoadIndex
  <2> QED
    BY <2>1, <2>2 DEF NoApproval, Saw
<1>7. ASSUME NEW a \in Actor, WriteIndex(a) PROVE NoApproval'
  <2>1. \A b \in Actor : \/ change'[b] = None /\ loaded'[b] = None
                         \/ change'[b] = change[b] /\ loaded'[b] = loaded[b]
    BY <1>7 DEF WriteIndex
  <2>2. loaded[a] \in Index /\ loaded[a] # None /\ change[a] # None
    BY <1>7 DEF WriteIndex, Placed
  <2>3. session[a] \in Session
    BY <2>2 DEF Writes, Unsettled, Committed, Placed
  <2>4. \A s \in Session : index'.sessions[s] = Changed(loaded[a].sessions[s], change[a])
    BY <1>7, <2>2, <2>3 DEF WriteIndex, Index
  <2>5. ASSUME NEW s \in Session PROVE index'.sessions[s].status # "ask_permission"
    <3>1. index'.sessions[s].status = IF change[a].status = Keep THEN loaded[a].sessions[s].status
                                      ELSE change[a].status
      <4>1. \A old : Changed(old, change[a]).status =
                        IF change[a].status = Keep THEN old.status ELSE change[a].status
        BY DEF Changed
      <4>2. index'.sessions[s] = Changed(loaded[a].sessions[s], change[a])
        BY <2>4
      <4> QED
        BY ONLY <4>1, <4>2
    <3> QED
      BY <2>2, <3>1 DEF NoApproval
  <2> QED
    BY <2>1, <2>5 DEF NoApproval, Saw
<1> QED
  BY <1>2, <1>3, <1>4, <1>5, <1>6, <1>7 DEF Next

\* The calls of a message are open together.
LEMMA GroupedStep ==
    ASSUME TypeOK, Single, Grouped, LogMove
    PROVE  Grouped'
<1>1. CASE UNCHANGED <<message, results>>
  BY <1>1 DEF Grouped, Open, IssuedBy
<1>2. ASSUME NEW t \in Task, NEW calls \in SUBSET Call, turn[t] \in Task, Open(turn[t]) = {},
             Issue(t, calls), UNCHANGED <<results, record>>
      PROVE  Grouped'
  <2>1. \A c \in Call : message'[c] = IF c \in calls THEN [turn |-> turn[t], calls |-> calls]
                                      ELSE message[c]
    BY <1>2 DEF Issue
  <2>2. \A u \in Task : turn[t] = u => Open(u)' = calls
    BY <1>2, OpenIssued
  <2>3. \A u \in Task : turn[t] = u => \A c, d \in Open(u)' : c \in message'[d].calls
    BY <1>2, <2>1, <2>2
  <2>4. \A u \in Task \ {turn[t]} : \A c \in Open(u)' : c \in Open(u) /\ message'[c] = message[c]
    BY <1>2, <2>1 DEF Open, IssuedBy
  <2>5. \A u \in Task \ {turn[t]} : \A c, d \in Open(u)' : c \in message'[d].calls
    BY <2>4 DEF Grouped
  <2>6. \A u \in Task : \A c, d \in Open(u)' : c \in message'[d].calls
    BY <2>3, <2>5
  <2> QED
    BY <2>6 DEF Grouped
<1>3. ASSUME NEW c, Answered(c) PROVE Grouped'
  <2>1. message' = message /\ \A d \in Call : results'[d] = 0 => results[d] = 0
    BY <1>3 DEF Answered, TypeOK
  <2>2. \A u \in Task : Open(u)' \subseteq Open(u)
    BY <2>1 DEF Open, IssuedBy
  <2> QED
    BY <2>1, <2>2 DEF Grouped
<1> QED
  BY <1>1, <1>2, <1>3 DEF LogMove

ShownInv ==
    /\ Grouped /\ UnshownAlone /\ TurnsAsk /\ BegunPlaced /\ FoundQuestion
    /\ Asking => NoApproval

\* What a task may do while a question is not shown: come for a prompt and be refused, or show it.
LEMMA UnshownTaskSteps ==
    ASSUME \A r, s \in Session : r = s,
           TypeInv, BegunInv, ShownInv, NEW c \in Call, Unshown(c), NEW t \in Task, TaskStep(t)
    PROVE  \/ RunTurn(t)
           \/ CheckTurn(t) /\ pc'[t] = "done" /\ change' = change
           \/ PauseForUser(t) /\ current[t] = c
<1> USE SessionTurnsAssumption, ActorTypes DEF TypeInv, Actor
<1>1. NoApproval
  BY DEF ShownInv, Asking
<1>2. AtWork(t) => pc[t] = "check" \/ (pc[t] = "asked" /\ current[t] = c)
  BY DEF ShownInv, UnshownAlone
<1>3. CASE ~AtWork(t)
  <2>1. pc[t] = "idle"
    BY <1>3, TaskFrame DEF Arrives
  <2>2. RunTurn(t) \/ ContinueTurn(t)
    BY <2>1 DEF TaskStep, CheckTurn, AppendPrompt, LoadPendingCalls, Register, Route, RequestModel,
       ModelAnswers, RejectCall, BeginCall, FinishCall, CallThrows, AskUser, RecordQuestion,
       PauseForUser, CallsEnd, FinishFailedTurn, FinishTurn, Return
  <2>3. ~ContinueTurn(t)
    BY <1>1 DEF ContinueTurn, NoApproval
  <2> QED
    BY <2>2, <2>3
<1>4. CASE pc[t] = "check"
  <2>1. CheckTurn(t)
    BY <1>4 DEF TaskStep, RunTurn, ContinueTurn, Comes, AppendPrompt, LoadPendingCalls, Register, Route,
       RequestModel, ModelAnswers, RejectCall, BeginCall, FinishCall, CallThrows, AskUser,
       RecordQuestion, PauseForUser, CallsEnd, FinishFailedTurn, FinishTurn, Return
  <2>2. session[t] \in Session
    BY <1>4 DEF Placed
  <2>3. message[c] # None /\ message[c].turn \in Task /\ Begun(message[c].turn)
    BY DEF ShownInv, UnshownAlone, BegunInv, BegunFiles, TypeOK, Message
  <2>4. session[message[c].turn] = session[t]
    BY <2>2, <2>3 DEF ShownInv, BegunPlaced
  <2>5. c \in PendingQuestions(session[t])
    BY <2>3, <2>4 DEF PendingQuestions, IssuedBy, Unshown
  <2> QED
    BY <2>1, <2>5 DEF CheckTurn
<1>5. CASE pc[t] = "asked" /\ current[t] = c
  BY <1>5 DEF TaskStep, RunTurn, ContinueTurn, Comes, CheckTurn, AppendPrompt, LoadPendingCalls,
     Register, Route, RequestModel, ModelAnswers, RejectCall, BeginCall, FinishCall, CallThrows,
     AskUser, RecordQuestion, PauseForUser, CallsEnd, FinishFailedTurn, FinishTurn, Return
<1> QED
  BY <1>2, <1>3, <1>4, <1>5

LEMMA UnshownStep ==
    ASSUME \A r, s \in Session : r = s,
           patient, TypeInv, BegunInv, OneTask, OneTask', LogInv, ShownInv, patient', Next
    PROVE  UnshownAlone'
<1> USE SessionTurnsAssumption, ActorTypes DEF TypeInv, Actor
<1> SUFFICES ASSUME NEW c \in Call, Unshown(c)'
             PROVE  /\ message'[c] # None
                    /\ \A d \in Open(message[c].turn)' : c \in message'[d].calls
                    /\ \A t \in Task : AtWork(t)' => \/ pc'[t] = "check"
                                                     \/ pc'[t] = "asked" /\ current'[t] = c
  BY DEF UnshownAlone, Unshown
<1>1. ASSUME Unshown(c), message' = message, \A d \in Call : results'[d] = 0 => results[d] = 0,
             \A t \in Task : AtWork(t)' => \/ pc'[t] = "check"
                                           \/ AtWork(t) /\ pc'[t] = pc[t] /\ current'[t] = current[t]
      PROVE  /\ message'[c] # None
             /\ \A d \in Open(message[c].turn)' : c \in message'[d].calls
             /\ \A t \in Task : AtWork(t)' => \/ pc'[t] = "check"
                                              \/ pc'[t] = "asked" /\ current'[t] = c
  <2>1. \A d : d \in Open(message[c].turn)' => d \in Open(message[c].turn)
    BY <1>1 DEF Open, IssuedBy
  <2> QED
    BY <1>1, <2>1 DEF ShownInv, UnshownAlone
<1>2. ASSUME NEW t \in Task, TaskStep(t), Unshown(c)
      PROVE  /\ message'[c] # None
             /\ \A d \in Open(message[c].turn)' : c \in message'[d].calls
             /\ \A u \in Task : AtWork(u)' => \/ pc'[u] = "check"
                                              \/ pc'[u] = "asked" /\ current'[u] = c
  <2>1. \A u \in Task \ {t} : SameActor(u)
    BY <1>2, TaskFrame
  <2>2. RunTurn(t) \/ (CheckTurn(t) /\ pc'[t] = "done")
    <3>1. ~(PauseForUser(t) /\ current[t] = c)
      BY DEF PauseForUser, Unshown
    <3> QED
      BY <1>2, <3>1, UnshownTaskSteps
  <2>3. UNCHANGED <<message, results>> /\ pc'[t] \in {"check", "done"}
    BY <2>2 DEF RunTurn, CheckTurn
  <2> QED
    BY <1>1, <1>2, <2>1, <2>3 DEF SameActor
<1>3. ASSUME NEW t \in Task, TaskStep(t), ~Unshown(c)
      PROVE  /\ message'[c] # None
             /\ \A d \in Open(message[c].turn)' : c \in message'[d].calls
             /\ \A u \in Task : AtWork(u)' => \/ pc'[u] = "check"
                                              \/ pc'[u] = "asked" /\ current'[u] = c
  <2>1. RecordQuestion(t) /\ current[t] = c
    <3>1. waits \subseteq waits'
      BY <1>3 DEF TaskStep, RunTurn, CheckTurn, ContinueTurn, AppendPrompt, LoadPendingCalls, Register,
         Route, RequestModel, ModelAnswers, RejectCall, BeginCall, FinishCall, CallThrows, AskUser,
         RecordQuestion, PauseForUser, CallsEnd, FinishFailedTurn, FinishTurn, Return, Issue
    <3>2. RecordQuestion(t) \/ question' = question
      BY <1>3 DEF TaskStep, RunTurn, CheckTurn, ContinueTurn, AppendPrompt, LoadPendingCalls, Register,
         Route, RequestModel, ModelAnswers, RejectCall, BeginCall, FinishCall, CallThrows, AskUser,
         PauseForUser, CallsEnd, FinishFailedTurn, FinishTurn, Return, Issue
    <3> QED
      BY <1>3, <3>1, <3>2 DEF Unshown, RecordQuestion, TypeOK
  <2>2. /\ UNCHANGED <<message, results, current>> /\ pc[t] = "ask" /\ pc'[t] = "asked"
    BY <2>1 DEF RecordQuestion
  <2>3. c \in Open(turn[t]) /\ turn[t] \in Task
    BY <2>1, <2>2 DEF LogInv, TaskLog, Placed
  <2>4. message[c] # None /\ message[c].turn = turn[t]
    BY <2>3 DEF Open, IssuedBy
  <2>5. \A d \in Open(message[c].turn) : c \in message[d].calls
    BY <2>3, <2>4 DEF ShownInv, Grouped
  <2>6. Open(message[c].turn)' = Open(message[c].turn)
    BY <2>2 DEF Open, IssuedBy
  <2>7. \A u \in Task : AtWork(u)' => u = t
    BY <2>2 DEF OneTask
  <2> QED
    BY <2>1, <2>2, <2>4, <2>5, <2>6, <2>7
<1>4. ASSUME NEW i \in Interrupter, InterrupterStep(i) PROVE Unshown(c)
  BY <1>4 DEF Unshown, InterrupterStep, Interrupt, InterruptQuestions, AbortTurn
<1>5. ASSUME NEW p \in Process, ProcessStep(p) PROVE Unshown(c)
  BY <1>5 DEF Unshown, ProcessStep, StartProcess, RecoverCall, RecoverQuestion, FinishRecoveredTurn, Crash
<1>6. ASSUME NEW a \in Actor, LoadIndex(a) \/ WriteIndex(a) PROVE Unshown(c)
  BY <1>6, IndexFrame DEF Unshown
<1>7. ASSUME NEW i \in Interrupter, InterrupterStep(i)
      PROVE  UNCHANGED <<message, results>> /\ \A t \in Task : SameActor(t)
  BY <1>7, InterrupterFrame
<1>8. ASSUME NEW p \in Process, ProcessStep(p)
      PROVE  /\ message' = message /\ \A d \in Call : results'[d] = 0 => results[d] = 0
             /\ \A t \in Task : AtWork(t)' => AtWork(t) /\ pc'[t] = pc[t] /\ current'[t] = current[t]
  <2>1. CASE Crash(p)
    BY <2>1 DEF Crash, Forget, fileVars
  <2>2. CASE ~Crash(p)
    <3>1. \A d \in Call : results'[d] = 0 => results[d] = 0
      BY <1>8, <2>2 DEF ProcessStep, StartProcess, RecoverCall, AppendResult, RecoverQuestion,
         FinishRecoveredTurn, TypeOK
    <3> QED
      BY <1>8, <2>2, <3>1, RecoveryFrame DEF SameActor
  <2> QED
    BY <2>1, <2>2
<1>9. ASSUME NEW a \in Actor, LoadIndex(a) \/ WriteIndex(a) PROVE UNCHANGED <<message, results, pc, current>>
  BY <1>9, IndexFrame DEF taskVars
<1> QED
  BY <1>1, <1>2, <1>3, <1>4, <1>5, <1>6, <1>7, <1>8, <1>9 DEF Next, SameActor

LEMMA AskingStep ==
    ASSUME \A r, s \in Session : r = s,
           patient, TypeInv, OneUp, Writes, BegunInv, OneTask, OneTask', ShownInv, patient', Next, Asking'
    PROVE  NoApproval'
<1> USE SessionTurnsAssumption, ActorTypes DEF TypeInv, Actor
<1>1. CASE Asking
  <2>1. NoApproval
    BY <1>1 DEF ShownInv
  <2>2. ASSUME NEW t \in Task, TaskStep(t)
        PROVE  change'[t] = change[t] \/ (change[t] = None /\ change'[t] = Touch)
    <3>1. ASSUME NEW c \in Call, Unshown(c)
          PROVE  change'[t] = change[t] \/ (change[t] = None /\ change'[t] = Touch)
      BY <2>2, <3>1, UnshownTaskSteps DEF RunTurn, PauseForUser, AppendResult
    <3>2. ASSUME NEW u \in Task, pc[u] = "ask"
          PROVE  change'[t] = change[t]
      <4>1. CASE t = u
        BY <2>2, <3>2, <4>1 DEF TaskStep, RunTurn, ContinueTurn, Comes, CheckTurn, AppendPrompt,
           LoadPendingCalls, Register, Route, RequestModel, ModelAnswers, RejectCall, BeginCall,
           FinishCall, CallThrows, AskUser, RecordQuestion, PauseForUser, CallsEnd, FinishFailedTurn,
           FinishTurn, Return
      <4>2. CASE t # u
        <5>1. ~AtWork(t)
          BY <3>2, <4>2 DEF OneTask
        <5>2. pc'[u] = pc[u] /\ pc'[t] \in {"check", "pending"}
          BY <2>2, <4>2, <5>1, TaskFrame DEF SameActor
        <5> QED
          BY <3>2, <4>2, <5>2 DEF OneTask
      <4> QED
        BY <4>1, <4>2
    <3> QED
      BY <1>1, <3>1, <3>2 DEF Asking
  <2> QED
    BY <2>1, <2>2, NoApprovalStep DEF ShownInv
<1>2. CASE ~Asking
  <2>1. PICK t \in Task : AskUser(t)
    <3>1. ASSUME NEW t \in Task, TaskStep(t) PROVE AskUser(t)
      <4>1. ASSUME NEW c \in Call, Unshown(c)' PROVE Unshown(c)
        <5>1. waits \subseteq waits'
          BY <3>1 DEF TaskStep, RunTurn, CheckTurn, ContinueTurn, AppendPrompt, LoadPendingCalls,
             Register, Route, RequestModel, ModelAnswers, RejectCall, BeginCall, FinishCall,
             CallThrows, AskUser, RecordQuestion, PauseForUser, CallsEnd, FinishFailedTurn, FinishTurn,
             Return, Issue
        <5>2. question' = question
          <6>1. ~RecordQuestion(t)
            BY <1>2 DEF RecordQuestion, Asking
          <6> QED
            BY <3>1, <6>1 DEF TaskStep, RunTurn, CheckTurn, ContinueTurn, AppendPrompt,
               LoadPendingCalls, Register, Route, RequestModel, ModelAnswers, RejectCall, BeginCall,
               FinishCall, CallThrows, AskUser, PauseForUser, CallsEnd, FinishFailedTurn, FinishTurn,
               Return, Issue
        <5> QED
          BY <4>1, <5>1, <5>2 DEF Unshown
      <4>2. PICK u \in Task : pc'[u] = "ask"
        BY <1>2, <4>1 DEF Asking
      <4>3. pc[u] # "ask"
        BY <1>2 DEF Asking
      <4>4. u = t
        BY <3>1, <4>2, <4>3, TaskFrame DEF SameActor
      <4> QED
        BY <3>1, <4>2, <4>3, <4>4 DEF TaskStep, RunTurn, CheckTurn, ContinueTurn, AppendPrompt,
           LoadPendingCalls, Register, Route, RequestModel, ModelAnswers, RejectCall, BeginCall,
           FinishCall, CallThrows, RecordQuestion, PauseForUser, CallsEnd, FinishFailedTurn,
           FinishTurn, Return, Issue
    <3>2. ASSUME NEW i \in Interrupter, InterrupterStep(i) PROVE FALSE
      <4>1. \A c \in Call : Unshown(c)' => Unshown(c)
        BY <3>2 DEF Unshown, InterrupterStep, Interrupt, InterruptQuestions, AbortTurn
      <4>2. \A t \in Task : pc'[t] = pc[t]
        BY <3>2, InterrupterFrame DEF SameActor
      <4> QED
        BY <1>2, <4>1, <4>2 DEF Asking
    <3>3. ASSUME NEW p \in Process, ProcessStep(p) PROVE FALSE
      <4>1. \A c \in Call : Unshown(c)' => Unshown(c)
        BY <3>3 DEF Unshown, ProcessStep, StartProcess, RecoverCall, RecoverQuestion,
           FinishRecoveredTurn, Crash
      <4>2. \A t \in Task : pc'[t] = pc[t] \/ pc'[t] = "done"
        <5>1. CASE Crash(p)
          BY <5>1 DEF Crash
        <5>2. CASE ~Crash(p)
          BY <3>3, <5>2, RecoveryFrame DEF SameActor
        <5> QED
          BY <5>1, <5>2
      <4> QED
        BY <1>2, <4>1, <4>2 DEF Asking
    <3>4. ASSUME NEW a \in Actor, LoadIndex(a) \/ WriteIndex(a) PROVE FALSE
      BY <1>2, <3>4, IndexFrame DEF Asking, Unshown
    <3> QED
      BY <3>1, <3>2, <3>3, <3>4 DEF Next
  <2>2. /\ UNCHANGED <<index, change, loaded>> /\ pc[t] = "tool" /\ change[t] = None
        /\ session[t] \in Session /\ Saw(session[t]).status = "running"
    BY <2>1 DEF AskUser, fileVars, Placed
  <2>3. \A s \in Session : Saw(s).status # "ask_permission"
    BY <2>2
  <2>4. \A u \in Task : change[u] = None
    BY <2>2 DEF OneTask, Writes, Unsettled, Committed
  <2>5. \A p \in Process : change[p] # None => change[p].status \notin {Keep, "ask_permission"}
    <3>1. \A p \in Process : pc[p] \notin {"answer", "finish"}
      BY <2>2, RecoversAlone
    <3> QED
      BY <3>1 DEF Writes, Settling, ShownInv, TurnsAsk, Status, Keep
  <2>6. \A i \in Interrupter : change[i] # None => change[i].status \notin {Keep, "ask_permission"}
    BY DEF Writes, Settling, ShownInv, TurnsAsk, Status, Keep
  <2>7. NoApproval
    BY <2>3, <2>4, <2>5, <2>6 DEF NoApproval
  <2> QED
    BY <2>2, <2>7 DEF NoApproval, Saw
<1> QED
  BY <1>1, <1>2

LEMMA FoundStep ==
    ASSUME ~Attaches, TypeInv, OneUp, BegunInv, ShownInv, Next
    PROVE  FoundQuestion'
<1> USE SessionTurnsAssumption, ActorTypes DEF TypeInv, Actor
<1> SUFFICES ASSUME NEW p \in Process, pc'[p] \in {"answer", "finish"}, outcome'[p] = "waiting_for_user"
             PROVE  current'[p] = None /\ (PendingOf(turn[p]) \cap waits)' # {}
  BY DEF FoundQuestion
<1>1. ASSUME UNCHANGED <<message, question, waits>>,
             pc[p] \in {"answer", "finish"}, outcome'[p] = outcome[p],
             turn'[p] = turn[p], current'[p] = current[p]
      PROVE  current'[p] = None /\ (PendingOf(turn[p]) \cap waits)' # {}
  <2>1. PendingOf(turn[p])' = PendingOf(turn[p])
    BY <1>1 DEF PendingOf, IssuedBy
  <2> QED
    BY <1>1, <2>1 DEF ShownInv, FoundQuestion
<1>2. ASSUME NEW t \in Task, TaskStep(t) PROVE FALSE
  <2>1. pc[p] \in {"answer", "finish"}
    BY <1>2, TaskFrame DEF SameActor
  <2> QED
    BY <1>2, <2>1, TaskFrame, RecoversAlone
<1>3. ASSUME NEW i \in Interrupter, InterrupterStep(i) PROVE FALSE
  <2>1. pc[p] \in {"answer", "finish"}
    BY <1>3, InterrupterFrame DEF SameActor
  <2> QED
    BY <1>3, <2>1, InterrupterFrame, RecoversAlone
<1>4. ASSUME NEW q \in Process, ProcessStep(q)
      PROVE  current'[p] = None /\ (PendingOf(turn[p]) \cap waits)' # {}
  <2>1. q = p
    BY <1>4, OthersDown
  <2>2. CASE StartProcess(p)
    <3> DEFINE u == Saw(index.active).turn
    <3>1. PICK closed \in Call \cup {None} :
            /\ RecoverOpenCalls(u, "waiting_for_user", closed) \/ RecoverAnswered(u, "waiting_for_user", closed)
            /\ current' = [current EXCEPT ![p] = closed]
            /\ turn' = [turn EXCEPT ![p] = u]
      BY <2>2 DEF StartProcess
    <3>2. ASSUME RecoverOpenCalls(u, "waiting_for_user", closed)
          PROVE  closed = None /\ PendingOf(u) \cap waits # {}
      <4>1. CASE LegalWait(u)
        BY <3>2, <4>1 DEF RecoverOpenCalls, LegalWait
      <4>2. CASE ~LegalWait(u)
        <5>1. Open(u) # {} /\ PendingOf(u) # {} /\ PendingOf(u) \cap OpenGroup(u) = {} /\ closed = None
          BY <3>2, <4>2 DEF RecoverOpenCalls
        <5>2. PICK c \in PendingOf(u), d \in Open(u) : TRUE
          BY <5>1
        <5>3. c \in Call /\ question[c] = "pending" /\ message[c] # None /\ message[c].turn = u
          BY DEF PendingOf, IssuedBy
        <5>4. d \in Call
          BY DEF Open, IssuedBy
        <5>5. c \notin message[d].calls
          BY <5>1, <5>2 DEF OpenGroup
        <5>6. c \in waits
          BY <5>2, <5>3, <5>5 DEF ShownInv, UnshownAlone, Unshown
        <5> QED
          BY <5>1, <5>2, <5>6
      <4> QED
        BY <4>1, <4>2
    <3>3. ASSUME RecoverAnswered(u, "waiting_for_user", closed)
          PROVE  closed = None /\ PendingOf(u) \cap waits # {}
      BY <3>3 DEF RecoverAnswered
    <3>4. UNCHANGED <<message, question, waits>> /\ turn'[p] = u /\ current'[p] = closed
      BY <2>2, <3>1 DEF StartProcess, fileVars
    <3>5. PendingOf(turn[p])' = PendingOf(u)
      BY <3>4 DEF PendingOf, IssuedBy
    <3> QED
      BY <3>1, <3>2, <3>3, <3>4, <3>5
  <2>3. CASE RecoverCall(p)
    BY <1>1, <2>3 DEF RecoverCall
  <2>4. CASE RecoverQuestion(p)
    <3>1. /\ pc[p] = "answer" /\ UNCHANGED <<message, waits, outcome, turn, current>>
          /\ question' = [c \in Call |-> IF c = current[p] THEN "interrupted" ELSE question[c]]
      BY <2>4 DEF RecoverQuestion, taskVars
    <3>2. current[p] = None
      BY <3>1 DEF ShownInv, FoundQuestion
    <3>3. question' = question
      BY <3>1, <3>2 DEF TypeOK
    <3> QED
      BY <1>1, <3>1, <3>3
  <2>5. ~FinishRecoveredTurn(p) /\ ~Crash(p)
    BY DEF FinishRecoveredTurn, Crash
  <2> QED
    BY <1>4, <2>1, <2>2, <2>3, <2>4, <2>5 DEF ProcessStep
<1>5. ASSUME NEW a \in Actor, LoadIndex(a) \/ WriteIndex(a)
      PROVE  current'[p] = None /\ (PendingOf(turn[p]) \cap waits)' # {}
  BY <1>1, <1>5, IndexFrame DEF taskVars
<1> QED
  BY <1>2, <1>3, <1>4, <1>5 DEF Next

RecoveryInv == TranscriptInv /\ Writes /\ (patient => ShownInv)

\* A recovery leaves no call of the turn it closes without a result, and leaves the turn waiting
\* for its user only with a question the user was shown, also when an earlier recovery crashed
\* halfway: where no process starts beside another one, one session is in use, and, for the
\* second, front ends wait for a call to return.
THEOREM RecoveredTurnsAreClosed ==
    ASSUME ~Attaches, \A r, s \in Session : r = s
    PROVE  Spec => RecoveredTurnIsClosed
<1>1. Init => RecoveryInv
  <2> SUFFICES ASSUME Init PROVE RecoveryInv
    OBVIOUS
  <2>1. TranscriptInv
    BY TranscriptInit
  <2> USE SessionTurnsAssumption DEF Actor, Init
  <2>2. Writes
    BY DEF Writes
  <2>3. ShownInv
    BY DEF ShownInv, Grouped, UnshownAlone, Unshown, TurnsAsk, BegunPlaced, Begun, FoundQuestion,
       Asking, Open, IssuedBy
  <2> QED
    BY <2>1, <2>2, <2>3 DEF RecoveryInv
<1>2. RecoveryInv /\ [Next]_vars => RecoveryInv'
  <2> SUFFICES ASSUME RecoveryInv, [Next]_vars PROVE RecoveryInv'
    OBVIOUS
  <2>1. TypeInv /\ OneUp /\ BegunInv /\ OneTask /\ LogInv
    BY DEF RecoveryInv, TranscriptInv
  <2>2. TranscriptInv' /\ Writes'
    BY TypeStep, OneUpStep, BegunStep, OneTaskStep, LogStep, WritesStep DEF RecoveryInv, TranscriptInv
  <2>3. CASE UNCHANGED vars
    BY <2>2, <2>3 DEF vars, fileVars, taskVars, RecoveryInv, ShownInv, Grouped, UnshownAlone, Unshown,
       TurnsAsk, BegunPlaced, Begun, FoundQuestion, Asking, Open, IssuedBy, NoApproval, Saw, PendingOf
  <2>4. CASE Next /\ patient'
    <3>1. patient
      <4>1. ASSUME NEW p \in Process, ProcessStep(p) PROVE patient' = patient
        BY <2>1, <4>1, RecoveryFrame DEF Crash
      <4> QED
        BY <2>1, <2>4, <4>1, TaskFrame, InterrupterFrame, IndexFrame DEF Next
    <3>2. ShownInv
      BY <3>1 DEF RecoveryInv
    <3>3. Grouped'
      BY <2>1, <3>1, <3>2, GroupedStep, LogStep DEF RecoveryInv, TranscriptInv, ShownInv, LogInv, TypeInv
    <3>4. UnshownAlone' /\ (Asking' => NoApproval')
      BY <2>1, <2>2, <2>4, <3>1, <3>2, UnshownStep, AskingStep DEF RecoveryInv, TranscriptInv
    <3>5. TurnsAsk' /\ BegunPlaced' /\ FoundQuestion'
      BY <2>1, <2>4, <3>2, TurnsAskStep, BegunPlacedStep, FoundStep DEF ShownInv
    <3> QED
      BY <2>2, <3>3, <3>4, <3>5 DEF RecoveryInv, ShownInv
  <2>5. CASE ~patient'
    BY <2>2, <2>5 DEF RecoveryInv
  <2> QED
    BY <2>3, <2>4, <2>5
<1>3. RecoveryInv /\ [Next]_vars =>
         \A p \in Process : pc[p] = "finish" /\ pc'[p] = "up" =>
            /\ Open(turn[p]) = {}
            /\ patient /\ outcome[p] = "waiting_for_user" => PendingOf(turn[p]) \cap waits # {}
  BY DEF RecoveryInv, TranscriptInv, Closing, ShownInv, FoundQuestion
<1> QED
  BY <1>1, <1>2, <1>3, PTL DEF Spec, RecoveredTurnIsClosed

-----------------------------------------------------------------------------
(* What a model is shown: /compact of HistoryIntegrity.                     *)

\* A set of numbers that is not empty has a least one.
LEMMA MinIsLeast ==
    ASSUME NEW S \in SUBSET Nat, S # {}
    PROVE  History!Min(S) \in S /\ \A y \in S : History!Min(S) <= y
<1>1. PICK x \in S : \A y \in S : <<y, x>> \notin OpToRel(<, Nat)
  BY WFMin, NatLessThanWellFounded
<1>2. ASSUME NEW y \in S PROVE x <= y
  <2>1. ~(y < x) /\ x \in Nat /\ y \in Nat
    BY <1>1 DEF OpToRel
  <2> QED
    BY <2>1
<1>3. \E z \in S : \A y \in S : z <= y
  BY <1>2
<1> QED
  BY <1>3, Zenon DEF History!Min

\* One with a bound has a greatest one.
LEMMA MaxIsGreatest ==
    ASSUME NEW n \in Nat, NEW S \in SUBSET 0..n, S # {}
    PROVE  History!Max(S) \in S /\ \A y \in S : History!Max(S) >= y
<1> DEFINE T == {n - r : r \in S}
<1>1. T \in SUBSET Nat /\ T # {}
  <2>1. \A r \in S : n - r \in Nat
    <3> TAKE r \in S
    <3>1. r \in 0..n
      OBVIOUS
    <3> QED
      BY <3>1
  <2> QED
    BY <2>1
<1>2. PICK x \in T : \A y \in T : <<y, x>> \notin OpToRel(<, Nat)
  BY <1>1, WFMin, NatLessThanWellFounded
<1>3. PICK r \in S : x = n - r
  BY <1>2
<1>4. ASSUME NEW q \in S PROVE r >= q
  <2>1. n - q \in T /\ n - q \in Nat /\ x \in Nat
    BY <1>1, <1>2
  <2>2. ~(n - q < x)
    BY <1>2, <2>1 DEF OpToRel
  <2> QED
    BY <1>3, <2>1, <2>2
<1>5. \E z \in S : \A y \in S : z >= y
  BY <1>4
<1> QED
  BY <1>5, Zenon DEF History!Max

-----------------------------------------------------------------------------
(* Histories.                                                              *)

IsHistory(h) ==
    /\ Len(h) \in Nat /\ h = [i \in 1..Len(h) |-> h[i]]
    /\ \A i \in 1..Len(h) : h[i].turn \in Nat /\ h[i].calls \in Seq(Nat)

Items(h) == {h[i] : i \in 1..Len(h)}

LEMMA HistoryIsSeq ==
    ASSUME NEW h, IsHistory(h)
    PROVE  h \in Seq(Items(h)) /\ DOMAIN h = 1..Len(h)
<1>1. DOMAIN h = 1..Len(h) /\ Len(h) \in Nat
  BY DEF IsHistory
<1>2. h \in [1..Len(h) -> Items(h)]
  BY DEF IsHistory, Items
<1> QED
  BY <1>1, <1>2, SeqDef

LEMMA EmptyIsHistory == IsHistory(<<>>)
  BY DEF IsHistory

LEMMA OneIsHistory ==
    ASSUME NEW m, m.turn \in Nat, m.calls \in Seq(Nat)
    PROVE  IsHistory(<<m>>) /\ Len(<<m>>) = 1
  BY DEF IsHistory

LEMMA AppendedIsHistory ==
    ASSUME NEW g, NEW h, IsHistory(g), IsHistory(h)
    PROVE  /\ IsHistory(g \o h) /\ Len(g \o h) = Len(g) + Len(h)
           /\ \A i \in 1..Len(g) : (g \o h)[i] = g[i]
<1> DEFINE S == Items(g) \cup Items(h)
<1>1. g \in Seq(S) /\ h \in Seq(S)
  <2>1. g \in Seq(Items(g)) /\ h \in Seq(Items(h))
    BY HistoryIsSeq
  <2> QED
    BY <2>1, SeqMonotonic
<1>2. /\ g \o h \in Seq(S) /\ Len(g \o h) = Len(g) + Len(h)
      /\ \A i \in 1..(Len(g) + Len(h)) : (g \o h)[i] = IF i <= Len(g) THEN g[i] ELSE h[i - Len(g)]
  BY <1>1, ConcatProperties
<1>3. g \o h = [i \in 1..Len(g \o h) |-> (g \o h)[i]]
  <2>1. g \o h \in [1..Len(g \o h) -> S]
    BY <1>2, LenProperties
  <2> QED
    BY <2>1
<1>4. Len(g) \in Nat /\ Len(h) \in Nat
  BY DEF IsHistory
<1>5. ASSUME NEW i \in 1..Len(g \o h)
      PROVE  (g \o h)[i].turn \in Nat /\ (g \o h)[i].calls \in Seq(Nat)
  <2>1. CASE i <= Len(g)
    <3>1. (g \o h)[i] = g[i] /\ i \in 1..Len(g)
      BY <1>2, <1>4, <1>5, <2>1
    <3> QED
      BY <3>1 DEF IsHistory
  <2>2. CASE i > Len(g)
    <3>1. (g \o h)[i] = h[i - Len(g)] /\ i - Len(g) \in 1..Len(h)
      BY <1>2, <1>4, <1>5, <2>2
    <3> QED
      BY <3>1 DEF IsHistory
  <2> QED
    BY <1>2, <1>4, <1>5, <2>1, <2>2
<1>6. \A i \in 1..Len(g) : (g \o h)[i] = g[i]
  BY <1>2, <1>4
<1> HIDE DEF S
<1> QED
  BY <1>2, <1>3, <1>4, <1>5, <1>6 DEF IsHistory

LEMMA PartIsHistory ==
    ASSUME NEW h, IsHistory(h), NEW m \in 1..(Len(h) + 1), NEW n \in 0..Len(h), m <= n + 1
    PROVE  /\ IsHistory(SubSeq(h, m, n)) /\ Len(SubSeq(h, m, n)) = n - m + 1
           /\ DOMAIN SubSeq(h, m, n) = 1..(n - m + 1)
           /\ \A i \in 1..(n - m + 1) : SubSeq(h, m, n)[i] = h[m + i - 1]
<1>1. h \in Seq(Items(h)) /\ Len(h) \in Nat
  BY HistoryIsSeq DEF IsHistory
<1>2. /\ SubSeq(h, m, n) = [i \in 1..(n - m + 1) |-> h[m + i - 1]]
      /\ Len(SubSeq(h, m, n)) = n - m + 1
  BY <1>1, SMTT(30)
<1>3. \A i \in 1..(n - m + 1) : m + i - 1 \in 1..Len(h)
  BY <1>1
<1>4. n - m + 1 \in Nat
  BY <1>1
<1> QED
  BY <1>2, <1>3, <1>4 DEF IsHistory

-----------------------------------------------------------------------------
(* Compaction.                                                             *)

SavedInv ==
    saved # None =>
        /\ saved.length \in Nat /\ saved.boundary \in Nat
        /\ saved.boundary <= saved.length /\ saved.boundary <= boundary

HistoryInv ==
    /\ IsHistory(history) /\ boundary \in 0..Len(history)
    /\ last \in Nat /\ asked \in Nat
    /\ SavedInv

LEMMA VisibleFacts ==
    ASSUME HistoryInv
    PROVE  /\ IsHistory(History!Visible) /\ Len(History!Visible) = Len(history) - boundary
           /\ DOMAIN History!Visible = 1..(Len(history) - boundary)
           /\ \A i \in DOMAIN History!Visible : History!Visible[i] = history[i + boundary]
<1>1. IsHistory(history) /\ boundary \in 0..Len(history) /\ Len(history) \in Nat
  BY DEF HistoryInv, IsHistory
<1>2. boundary + 1 \in 1..(Len(history) + 1) /\ Len(history) \in 0..Len(history)
  BY <1>1
<1>3. /\ IsHistory(History!Visible) /\ Len(History!Visible) = Len(history) - (boundary + 1) + 1
      /\ DOMAIN History!Visible = 1..(Len(history) - (boundary + 1) + 1)
      /\ \A i \in 1..(Len(history) - (boundary + 1) + 1) : History!Visible[i] = history[boundary + 1 + i - 1]
  BY <1>1, <1>2, PartIsHistory DEF History!Visible
<1> QED
  BY <1>1, <1>3

\* The start of a turn is the first of its messages.
LEMMA StartFacts ==
    ASSUME NEW h, IsHistory(h), NEW t \in History!TurnsOf(h)
    PROVE  History!StartOf(h, t) \in DOMAIN h /\ h[History!StartOf(h, t)].turn = t
           /\ \A i \in DOMAIN h : h[i].turn = t => History!StartOf(h, t) <= i
<1> DEFINE S == {i \in DOMAIN h : h[i].turn = t}
<1>1. S \in SUBSET Nat /\ S # {}
  BY HistoryIsSeq DEF IsHistory, History!TurnsOf
<1>2. History!Min(S) \in S /\ \A y \in S : History!Min(S) <= y
  BY <1>1, MinIsLeast
<1>3. History!StartOf(h, t) = History!Min(S)
  BY DEF History!StartOf
<1> QED
  BY <1>2, <1>3

\* The Cardinality that HistoryIntegrity counts with is the one of the library.
LEMMA HistoryCardinality == \A S : History!Cardinality(S) = Cardinality(S)
  BY DEF History!Cardinality, Cardinality

\* What is hidden ends before every turn that is kept.
LEMMA CompactHides ==
    ASSUME HistoryInv, History!Compact, History!InOrder, NEW i \in (boundary + 1)..boundary'
    PROVE  /\ History!Cardinality({history[j].turn : j \in (i + 1)..Len(history)} \ {history[i].turn}) >= 2
           /\ ~History!Unread(i)
<1> DEFINE h == History!Visible
           hidden == {k \in DOMAIN h : h[k].turn \notin History!Retained(h)}
           m == History!Max(hidden)
           t == h[m].turn
           k == i - boundary
           n == Len(history) - boundary
<1>0. /\ hidden # {} /\ boundary' = boundary + m
      /\ IsHistory(history) /\ Len(history) \in Nat /\ boundary \in 0..Len(history)
  BY DEF History!Compact, HistoryInv, IsHistory
<1>1. /\ IsHistory(h) /\ DOMAIN h = 1..n /\ n \in Nat /\ Len(h) = n
      /\ \A x \in 1..n : h[x] = history[x + boundary]
  BY <1>0, VisibleFacts
<1>2. m \in hidden
  <2>1. hidden \in SUBSET 0..n
    BY <1>1
  <2> HIDE DEF hidden, h, n
  <2> QED
    BY <1>0, <1>1, <2>1, MaxIsGreatest
<1>3. m \in 1..n /\ t \notin History!Retained(h) /\ t \in History!TurnsOf(h)
  BY <1>1, <1>2 DEF History!TurnsOf
<1> HIDE DEF m, hidden, h, n
<1>4. k \in 1..n /\ k <= m /\ i = k + boundary /\ i \in 1..Len(history)
  BY <1>0, <1>1, <1>3 DEF n
<1>5. \A x, y \in 1..n : x < y => h[x].turn <= h[y].turn
  <2> TAKE x, y \in 1..n
  <2>1. x + boundary \in DOMAIN history /\ y + boundary \in DOMAIN history
    BY <1>0, <1>1, HistoryIsSeq DEF n
  <2> QED
    BY <1>0, <1>1, <2>1 DEF History!InOrder
<1>6. \A x \in 1..n : h[x].turn \in Nat
  BY <1>1 DEF IsHistory
<1>7. h[k].turn <= t /\ h[k] = history[i]
  BY <1>1, <1>3, <1>4, <1>5, <1>6
<1> DEFINE later == {u \in History!TurnsOf(h) : History!StartOf(h, u) > History!StartOf(h, t)}
           goal == {history[j].turn : j \in (i + 1)..Len(history)} \ {history[i].turn}
<1>8. \A u \in History!TurnsOf(h) : History!StartOf(h, u) \in 1..n /\ h[History!StartOf(h, u)].turn = u
                            /\ \A x \in 1..n : h[x].turn = u => History!StartOf(h, u) <= x
  BY <1>1, StartFacts
<1>9. later \subseteq goal
  <2> SUFFICES ASSUME NEW u \in later PROVE u \in goal
    OBVIOUS
  <2> DEFINE s == History!StartOf(h, u)
  <2>1. s \in 1..n /\ h[s].turn = u /\ s > History!StartOf(h, t) /\ History!StartOf(h, t) \in 1..n /\ h[History!StartOf(h, t)].turn = t
    BY <1>3, <1>8
  <2>2. u # t
    BY <2>1
  <2>3. u >= t
    BY <1>5, <2>1
  <2>4. u \in Nat /\ t \in Nat /\ h[k].turn \in Nat
    BY <1>3, <1>4, <1>6, <2>1
  <2>5. s > m
    <3>1. s # m
      BY <2>1, <2>2
    <3>2. ~(s < m)
      BY <1>3, <1>5, <2>1, <2>2, <2>3, <2>4
    <3> QED
      BY <1>3, <2>1, <3>1, <3>2
  <2>6. s + boundary \in (i + 1)..Len(history) /\ history[s + boundary].turn = u
    <3>1. h[s] = history[s + boundary]
      BY ONLY <1>1, <2>1, Zenon
    <3>2. n = Len(history) - boundary
      BY DEF n
    <3> HIDE DEF s
    <3>3. s + boundary \in (i + 1)..Len(history)
      BY ONLY <1>0, <1>1, <1>3, <1>4, <2>1, <2>5, <3>2
    <3> QED
      BY ONLY <2>1, <3>1, <3>3, Zenon
  <2>7. u # history[i].turn
    BY <1>7, <2>2, <2>3, <2>4
  <2> QED
    BY <2>6, <2>7
<1>10. IsFiniteSet(goal) /\ IsFiniteSet(later)
  <2>1. IsFiniteSet((i + 1)..Len(history))
    BY <1>0, <1>4, FS_Interval
  <2>2. IsFiniteSet({history[j].turn : j \in (i + 1)..Len(history)})
    <3> DEFINE D == (i + 1)..Len(history)
               T == {history[j].turn : j \in D}
               turns == [j \in D |-> history[j].turn]
    <3>1. turns \in Surjection(D, T)
      BY DEF Surjection
    <3> QED
      BY <2>1, <3>1, FS_Surjection
  <2>3. goal \subseteq {history[j].turn : j \in (i + 1)..Len(history)}
    OBVIOUS
  <2>4. IsFiniteSet(goal)
    BY <2>2, <2>3, FS_Subset
  <2> QED
    BY <1>9, <2>4, FS_Subset
<1>11. History!Cardinality(later) >= 2
  <2>1. t \notin History!LastTwo(h)
    BY <1>3 DEF History!Retained
  <2>2. ~(History!Cardinality(later) < 2)
    BY <1>3, <2>1 DEF History!LastTwo
  <2>3. History!Cardinality(later) \in Nat
    BY <1>10, FS_CardinalityType, HistoryCardinality
  <2> QED
    BY <2>2, <2>3
<1>12. History!Cardinality(goal) >= 2
  <2>1. History!Cardinality(later) <= History!Cardinality(goal) /\ History!Cardinality(later) \in Nat /\ History!Cardinality(goal) \in Nat
    BY <1>9, <1>10, FS_Subset, FS_CardinalityType, HistoryCardinality
  <2> QED
    BY <1>11, <2>1
<1>13. ASSUME History!Unread(i) PROVE FALSE
  <2> DEFINE unread == {x \in DOMAIN h : History!Unread(x + boundary)}
             w == h[History!Min(unread)].turn
  <2>1. k \in unread /\ unread \in SUBSET Nat
    BY <1>1, <1>4, <1>13
  <2>2. History!Min(unread) \in unread /\ History!Min(unread) <= k
    BY <2>1, MinIsLeast
  <2>3. History!Min(unread) \in 1..n /\ w \in History!TurnsOf(h)
    BY <1>1, <2>2 DEF History!TurnsOf
  <2>4. w <= t /\ w \in Nat /\ t \in Nat
    BY <1>3, <1>4, <1>5, <1>6, <2>2, <2>3
  <2>5. History!StartOf(h, w) <= History!StartOf(h, t)
    <3>1. CASE w = t
      BY <1>3, <1>8, <3>1
    <3>2. CASE w # t
      <4>1. ~(History!StartOf(h, t) < History!StartOf(h, w))
        BY <1>3, <1>5, <1>8, <2>3, <2>4, <3>2
      <4> QED
        BY <1>3, <1>8, <2>3, <4>1
    <3> QED
      BY <3>1, <3>2
  <2>6. History!StartOf(h, t) >= History!StartOf(h, w)
    BY <1>3, <1>8, <2>3, <2>5
  <2>7. t \in History!Retained(h)
    BY <1>3, <2>1, <2>6 DEF History!Retained
  <2> QED
    BY <1>3, <2>7
<1> QED
  BY <1>12, <1>13

-----------------------------------------------------------------------------
(* The invariant.                                                          *)

\* The messages of a turn.
LEMMA MessagesAreHistory ==
    ASSUME HistoryInv, NEW t \in Nat
    PROVE  /\ \A role : IsHistory(<<History!Plain(t, role)>>) /\ Len(<<History!Plain(t, role)>>) = 1
           /\ \A calls \in Seq(Nat) : IsHistory(<<History!Calls(t, calls)>>)
           /\ \A call, text : IsHistory(<<History!Result(t, call, text)>>)
<1>1. \A role : History!Plain(t, role).turn = t /\ History!Plain(t, role).calls = <<>>
  BY DEF History!Plain
<1>2. \A calls \in Seq(Nat) : History!Calls(t, calls).turn = t /\ History!Calls(t, calls).calls = calls
  BY DEF History!Plain, History!Calls
<1>3. \A call, text : History!Result(t, call, text).turn = t /\ History!Result(t, call, text).calls = <<>>
  BY DEF History!Result
<1>4. <<>> \in Seq(Nat)
  OBVIOUS
<1> QED
  BY <1>1, <1>2, <1>3, <1>4, OneIsHistory

LEMMA RecoveredIsHistory == HistoryInv => IsHistory(History!Recovered)
<1> SUFFICES ASSUME HistoryInv PROVE IsHistory(History!Recovered)
  OBVIOUS
<1> DEFINE groups == {i \in DOMAIN history : history[i].turn = last /\ History!Unanswered(i) # {}}
           final == History!Max(groups)
           open == History!Unanswered(final)
<1>0. IsHistory(history) /\ Len(history) \in Nat /\ DOMAIN history = 1..Len(history) /\ last \in Nat
  BY HistoryIsSeq DEF HistoryInv, IsHistory
<1>1. CASE ~named \/ groups = {}
  <2>1. History!Recovered = <<>>
    BY <1>1 DEF History!Recovered
  <2> QED
    BY <2>1, EmptyIsHistory
<1>2. CASE named /\ groups # {}
  <2>1. groups \in SUBSET 0..Len(history)
    BY <1>0
  <2>2. final \in groups
    <3> HIDE DEF groups
    <3> QED
      BY <1>0, <1>2, <2>1, MaxIsGreatest
  <2>3. final \in 1..Len(history) /\ history[final].calls \in Seq(Nat)
    BY <1>0, <2>2 DEF IsHistory
  <2>4. IsFiniteSet(open)
    <3>1. open \subseteq 1..Len(history[final].calls) /\ Len(history[final].calls) \in Nat
      BY <2>3, LenProperties DEF History!Unanswered
    <3> DEFINE places == 1..Len(history[final].calls)
    <3>2. IsFiniteSet(places)
      BY <3>1, FS_Interval
    <3> HIDE DEF places, open
    <3> QED
      BY <3>1, <3>2, FS_Subset DEF places
  <2> DEFINE n == History!Cardinality(open)
             made(j) == History!Result(last, history[final].calls[History!Nth(open, j)], History!Small)
  <2>5. n \in Nat
    BY <2>4, FS_CardinalityType, HistoryCardinality
  <2>6. History!Recovered = [j \in 1..n |-> made(j)]
    BY <1>2 DEF History!Recovered
  <2>7. \A j : made(j).turn = last /\ made(j).calls = <<>>
    BY DEF History!Result
  <2> HIDE DEF n, made
  <2>8. Len(History!Recovered) = n
    BY <2>5, <2>6
  <2>9. History!Recovered = [j \in 1..Len(History!Recovered) |-> History!Recovered[j]]
    BY <2>6, <2>8
  <2>10. \A j \in 1..Len(History!Recovered) : History!Recovered[j] = made(j)
    BY <2>6, <2>8
  <2>11. <<>> \in Seq(Nat)
    OBVIOUS
  <2> QED
    BY <1>0, <2>5, <2>7, <2>8, <2>9, <2>10, <2>11, Zenon DEF IsHistory
<1> QED
  BY <1>1, <1>2

\* What appends messages and leaves the rest alone keeps the invariant.
LEMMA AppendingKeeps ==
    ASSUME HistoryInv, NEW messages, IsHistory(messages), History!Appended(messages),
           boundary' = boundary, last' \in Nat, asked' \in Nat, saved' = saved
    PROVE  HistoryInv'
<1>1. IsHistory(history) /\ Len(history) \in Nat /\ Len(messages) \in Nat
  BY DEF HistoryInv, IsHistory
<1>2. IsHistory(history') /\ Len(history') = Len(history) + Len(messages)
  BY <1>1, AppendedIsHistory DEF History!Appended
<1>3. IsHistory(history)'
  BY <1>2 DEF IsHistory
<1>4. boundary' \in 0..Len(history')
  BY <1>1, <1>2 DEF HistoryInv
<1> QED
  BY <1>3, <1>4 DEF HistoryInv, SavedInv

LEMMA HistoryKeeps ==
    ASSUME HistoryInv, History!HistoryNext
    PROVE  HistoryInv'
<1>0. /\ IsHistory(history) /\ Len(history) \in Nat /\ boundary \in 0..Len(history)
      /\ last \in Nat /\ asked \in Nat /\ SavedInv
  BY DEF HistoryInv, IsHistory
<1>1. CASE History!Ask
  BY <1>0, <1>1, MessagesAreHistory, AppendingKeeps DEF History!Ask
<1>2. CASE History!Compile
  <2>1. \/ History!Appended(<<>>)
        \/ History!Appended(<<History!Plain(last, "context")>>)
    BY <1>2, Zenon DEF History!Compile
  <2>2. UNCHANGED <<boundary, last, asked, saved>>
    BY <1>2 DEF History!Compile
  <2> QED
    BY <1>0, <2>1, <2>2, EmptyIsHistory, MessagesAreHistory, AppendingKeeps
<1>3. CASE History!Reply
  BY <1>0, <1>3, MessagesAreHistory, AppendingKeeps DEF History!Reply
<1>4. CASE History!CallTools
  <2>1. PICK n \in {1, 2} : History!Appended(<<History!Calls(last, [j \in 1..n |-> 2 * Len(history) + j])>>)
    BY <1>4 DEF History!CallTools
  <2>2. [j \in 1..n |-> 2 * Len(history) + j] \in Seq(Nat)
    BY <1>0, IsASeq
  <2> QED
    BY <1>0, <1>4, <2>1, <2>2, MessagesAreHistory, AppendingKeeps DEF History!CallTools
<1>5. CASE History!EndCall
  <2>1. PICK text \in ToolText : History!Appended(<<History!Result(last, Head(todo), text)>>)
    BY <1>5 DEF History!EndCall
  <2>2. IsHistory(<<History!Result(last, Head(todo), text)>>)
    BY <1>0, MessagesAreHistory
  <2>3. /\ IsHistory(history)' /\ boundary' = boundary /\ last' = last
        /\ Len(history') = Len(history) + Len(<<History!Result(last, Head(todo), text)>>)
        /\ Len(<<History!Result(last, Head(todo), text)>>) = 1
    BY <1>0, <1>5, <2>1, <2>2, AppendedIsHistory DEF History!EndCall, History!Appended, IsHistory
  <2>4. boundary' \in 0..Len(history')
    BY <1>0, <2>3
  <2>5. asked' \in Nat
    BY <1>0, <1>5 DEF History!EndCall
  <2>6. SavedInv'
    <3>1. CASE saved' = saved
      BY <1>0, <2>3, <3>1 DEF SavedInv
    <3>2. CASE saved' = [length |-> Len(history), boundary |-> boundary, promoted |-> promoted]
      BY <1>0, <2>3, <3>2 DEF SavedInv
    <3> QED
      BY <1>5, <3>1, <3>2 DEF History!EndCall
  <2> QED
    BY <1>0, <2>3, <2>4, <2>5, <2>6 DEF HistoryInv
<1>6. CASE History!UndoCall
  <2> DEFINE kept == SubSeq(history, 1, saved.length)
             result == History!Result(last, Head(todo), History!Small)
  <2>1. /\ saved # None /\ saved.length <= Len(history) /\ history' = Append(kept, result)
        /\ boundary' = saved.boundary /\ UNCHANGED <<last, asked, saved>>
    BY <1>6 DEF History!UndoCall
  <2>2. saved.length \in 0..Len(history) /\ saved.boundary \in 0..saved.length
    BY <1>0, <2>1 DEF SavedInv
  <2>3. IsHistory(kept) /\ Len(kept) = saved.length
    BY <1>0, <2>2, PartIsHistory
  <2>4. IsHistory(<<result>>) /\ Len(<<result>>) = 1
    BY <1>0, MessagesAreHistory
  <2>5. Append(kept, result) = kept \o <<result>>
    <3>1. kept \in Seq(Items(kept) \cup {result}) /\ result \in Items(kept) \cup {result}
      <4>1. kept \in Seq(Items(kept))
        BY <2>3, HistoryIsSeq
      <4> QED
        BY <4>1, SeqMonotonic
    <3> QED
      BY <3>1, AppendIsConcat
  <2> HIDE DEF kept, result
  <2>6. IsHistory(history') /\ Len(history') = saved.length + 1
    BY <2>1, <2>3, <2>4, <2>5, AppendedIsHistory
  <2>7. boundary' \in 0..Len(history')
    BY <2>1, <2>2, <2>6
  <2>8. SavedInv'
    BY <1>0, <2>1, <2>2 DEF SavedInv
  <2> QED
    BY <1>0, <2>1, <2>6, <2>7, <2>8 DEF HistoryInv, IsHistory
<1>7. CASE History!CallsEnd \/ History!NeedsApproval \/ History!Continue
  BY <1>0, <1>7
     DEF History!CallsEnd, History!NeedsApproval, History!Continue, History!logVars, HistoryInv,
         SavedInv, IsHistory
<1>8. CASE History!Stop
  BY <1>0, <1>8 DEF History!Stop, History!logVars, HistoryInv, SavedInv, IsHistory
<1>9. CASE History!Crash
  BY <1>0, <1>9, RecoveredIsHistory, AppendingKeeps DEF History!Crash
<1>10. CASE History!Answer
  BY <1>0, <1>10, MessagesAreHistory, AppendingKeeps DEF History!Answer
<1>11. CASE History!Compact
  <2> DEFINE hidden == {k \in DOMAIN History!Visible : History!Visible[k].turn \notin History!Retained(History!Visible)}
             m == History!Max(hidden)
             n == Len(history) - boundary
  <2>1. hidden # {} /\ boundary' = boundary + m /\ UNCHANGED <<history, last, asked, saved>>
    BY <1>11 DEF History!Compact
  <2>2. hidden \in SUBSET 0..n /\ n \in Nat /\ DOMAIN History!Visible = 1..n
    BY <1>0, VisibleFacts
  <2>3. m \in hidden
    <3> HIDE DEF hidden, n
    <3> QED
      BY <2>1, <2>2, MaxIsGreatest
  <2>4. m \in 1..n
    BY <2>2, <2>3
  <2> HIDE DEF m, hidden
  <2>5. boundary' \in 0..Len(history') /\ boundary' >= boundary
    BY <1>0, <2>1, <2>4
  <2>6. SavedInv'
    BY <1>0, <2>1, <2>5 DEF SavedInv
  <2>7. IsHistory(history)'
    BY <1>0, <2>1 DEF IsHistory
  <2> QED
    BY <1>0, <2>1, <2>5, <2>6, <2>7 DEF HistoryInv
<1> QED
  BY <1>1, <1>2, <1>3, <1>4, <1>5, <1>6, <1>7, <1>8, <1>9, <1>10, <1>11 DEF History!HistoryNext

\* No other step hides messages: an undo shows what its checkpoint showed.
LEMMA OnlyCompactHides ==
    ASSUME HistoryInv, History!HistoryNext, boundary' > boundary
    PROVE  History!Compact
<1>0. boundary \in Nat /\ SavedInv
  BY DEF HistoryInv, IsHistory
<1>1. CASE UNCHANGED boundary
  BY <1>0, <1>1
<1>2. CASE History!UndoCall
  BY <1>0, <1>2 DEF History!UndoCall, SavedInv
<1> QED
  BY <1>1, <1>2, Zenon
     DEF History!HistoryNext, History!Ask, History!Compile, History!Reply, History!CallTools,
         History!EndCall, History!CallsEnd, History!NeedsApproval,
     History!Continue, History!Stop, History!Crash, History!Answer, History!logVars

\* /compact hides no message of the last two turns and no result that the model has not read, and
\* nothing else hides messages: for any budget, any number of turns and messages, crashes,
\* checkpoints and undone calls in between.
THEOREM CompactionKeepsWhatCounts == MCSpec => CompactionKeeps
<1>1. MCInit => HistoryInv
  <2> SUFFICES ASSUME History!Init PROVE HistoryInv
    BY DEF MCInit
  <2> QED
    BY EmptyIsHistory DEF History!Init, HistoryInv, SavedInv
<1>2. HistoryInv /\ [MCNext]_<<vars, part, historyVars>> => HistoryInv'
  <2>1. ASSUME HistoryInv, History!HistoryNext PROVE HistoryInv'
    BY <2>1, HistoryKeeps
  <2>2. ASSUME HistoryInv, UNCHANGED historyVars PROVE HistoryInv'
    BY <2>2 DEF historyVars, HistoryInv, SavedInv, IsHistory
  <2> QED
    BY <2>1, <2>2 DEF MCNext
<1>3. HistoryInv /\ [MCNext]_<<vars, part, historyVars>> =>
        [boundary' > boundary /\ History!InOrder
           => \A i \in (boundary + 1)..boundary' :
                /\ History!Cardinality({history[j].turn : j \in (i + 1)..Len(history)} \ {history[i].turn}) >= 2
                /\ ~History!Unread(i)]_History!historyVars
  <2>1. ASSUME HistoryInv, History!HistoryNext, boundary' > boundary, History!InOrder, NEW i \in (boundary + 1)..boundary'
        PROVE  /\ History!Cardinality({history[j].turn : j \in (i + 1)..Len(history)} \ {history[i].turn}) >= 2
               /\ ~History!Unread(i)
    BY <2>1, OnlyCompactHides, CompactHides
  <2>2. UNCHANGED historyVars => UNCHANGED History!historyVars
    BY DEF historyVars, History!historyVars, History!logVars
  <2> QED
    BY <2>1, <2>2 DEF MCNext
<1> QED
  BY <1>1, <1>2, <1>3, PTL DEF MCSpec, CompactionKeeps, History!CompactionKeeps

-----------------------------------------------------------------------------
(* What a request selects are messages of the history.                     *)

\* The least number with a property.
LEMMA LeastOf ==
    ASSUME NEW Bad, Bad \subseteq Nat, Bad # {}
    PROVE  \E n \in Bad : \A m \in Nat : m < n => m \notin Bad
<1>1. PICK n \in Bad : \A m \in Bad : ~(<<m, n>> \in OpToRel(<, Nat))
  BY NatLessThanWellFounded, WFMin
<1> QED
  BY <1>1 DEF OpToRel

\* Every group of h is whole among n messages.
GroupsWithin(h, n) == \A i \in 1..Len(h) : History!IsGroup(h[i]) => i + Len(h[i].calls) <= n

PinOf(h, texts, budget) ==
    [texts |-> [i \in {History!Pinned(h)} \ {0} |-> History!Truncated(h[i], texts[i], budget)],
     ended |-> FALSE]

\* f says what is chosen after each of the first n steps of Select.
IsChosen(h, texts, budget, n, f) ==
    f = [k \in 0..n |-> IF k = 0 THEN PinOf(h, texts, budget)
                        ELSE History!Take(h, texts, budget, Len(h) + 1 - k, f[k - 1])]

LEMMA ChosenGrows ==
    ASSUME NEW h, NEW texts, NEW budget, NEW n \in Nat, NEW g, IsChosen(h, texts, budget, n, g)
    PROVE  \E f : IsChosen(h, texts, budget, n + 1, f)
<1> DEFINE step(k, c) == History!Take(h, texts, budget, Len(h) + 1 - k, c)
           f == [k \in 0..(n + 1) |-> IF k = 0 THEN PinOf(h, texts, budget) ELSE step(k, g[k - 1])]
<1> HIDE DEF step
<1>1. g = [k \in 0..n |-> IF k = 0 THEN PinOf(h, texts, budget) ELSE step(k, g[k - 1])]
  BY DEF IsChosen, step
<1>2. \A k \in 0..n : f[k] = g[k]
  <2> TAKE k \in 0..n
  <2>1. k \in 0..(n + 1)
    OBVIOUS
  <2>2. g[k] = IF k = 0 THEN PinOf(h, texts, budget) ELSE step(k, g[k - 1])
    BY <1>1
  <2> QED
    BY <2>1, <2>2
<1>3. f = [k \in 0..(n + 1) |-> IF k = 0 THEN PinOf(h, texts, budget) ELSE step(k, f[k - 1])]
  <2>1. \A k \in 0..(n + 1) : k # 0 => f[k - 1] = g[k - 1]
    <3> TAKE k \in 0..(n + 1)
    <3> HAVE k # 0
    <3>1. k - 1 \in 0..n
      OBVIOUS
    <3> HIDE DEF f
    <3> QED
      BY <1>2, <3>1
  <2>2. f = [k \in 0..(n + 1) |-> IF k = 0 THEN PinOf(h, texts, budget) ELSE step(k, g[k - 1])]
    OBVIOUS
  <2> HIDE DEF f
  <2> QED
    BY <2>1, <2>2
<1>4. IsChosen(h, texts, budget, n + 1, f)
  <2> HIDE DEF f
  <2> QED
    BY <1>3 DEF IsChosen, step
<1> HIDE DEF f
<1> QED
  BY <1>4

LEMMA ChosenExists ==
    ASSUME NEW h, NEW texts, NEW budget
    PROVE  \A n \in Nat : \E f : IsChosen(h, texts, budget, n, f)
<1> DEFINE Bad == {n \in Nat : ~ \E f : IsChosen(h, texts, budget, n, f)}
<1> SUFFICES ASSUME Bad # {} PROVE FALSE
  OBVIOUS
<1>1. PICK n \in Bad : \A m \in Nat : m < n => m \notin Bad
  <2>1. Bad \subseteq Nat
    OBVIOUS
  <2> HIDE DEF Bad
  <2> QED
    BY <2>1, LeastOf
<1>2. n # 0
  <2>1. IsChosen(h, texts, budget, 0, [k \in 0..0 |-> PinOf(h, texts, budget)])
    BY DEF IsChosen
  <2> QED
    BY <2>1
<1>3. n - 1 \in Nat /\ n - 1 < n
  BY <1>2
<1>4. PICK g : IsChosen(h, texts, budget, n - 1, g)
  BY <1>1, <1>3
<1>5. \E f : IsChosen(h, texts, budget, n - 1 + 1, f)
  <2> HIDE DEF Bad
  <2> QED
    BY <1>3, <1>4, ChosenGrows
<1>6. n - 1 + 1 = n
  BY <1>3
<1> QED
  BY <1>5, <1>6

LEMMA SelectIsChosen ==
    ASSUME NEW h, NEW texts, NEW budget, Len(h) \in Nat
    PROVE  \E f : /\ IsChosen(h, texts, budget, Len(h), f)
                  /\ History!Select(h, texts, budget) = f[Len(h)].texts
<1> DEFINE F == CHOOSE f : IsChosen(h, texts, budget, Len(h), f)
<1>1. IsChosen(h, texts, budget, Len(h), F)
  <2>1. \E f : IsChosen(h, texts, budget, Len(h), f)
    BY ChosenExists
  <2> QED
    BY <2>1, Zenon
<1>2. History!Select(h, texts, budget) = F[Len(h)].texts
  BY DEF History!Select, IsChosen, PinOf
<1> HIDE DEF F
<1> QED
  BY <1>1, <1>2

LEMMA PinnedPlace ==
    ASSUME NEW h, IsHistory(h)
    PROVE  History!Pinned(h) \in 0..Len(h)
<1> DEFINE contexts == {i \in DOMAIN h : h[i].role = "context"}
<1>1. DOMAIN h = 1..Len(h) /\ Len(h) \in Nat
  BY HistoryIsSeq DEF IsHistory
<1>2. contexts \in SUBSET 0..Len(h)
  BY <1>1
<1>3. contexts # {} => History!Max(contexts) \in 0..Len(h)
  <2> HIDE DEF contexts
  <2> QED
    BY <1>1, <1>2, MaxIsGreatest
<1>4. History!Pinned(h) = IF contexts = {} THEN 0 ELSE History!Max(contexts)
  BY DEF History!Pinned
<1> HIDE DEF contexts
<1> QED
  BY <1>1, <1>3, <1>4

LEMMA TakePlace ==
    ASSUME NEW h, IsHistory(h), NEW n \in Nat, Len(h) <= n, GroupsWithin(h, n), NEW i \in 1..Len(h),
           NEW texts, NEW budget, NEW chosen, DOMAIN chosen.texts \subseteq 1..n
    PROVE  DOMAIN History!Take(h, texts, budget, i, chosen).texts \subseteq 1..n
<1>0. Len(h) \in Nat /\ i \in 1..n
  BY DEF IsHistory
<1>1. \A more : DOMAIN more \subseteq 1..n => DOMAIN History!Joining(more, chosen.texts) \subseteq 1..n
  BY DEF History!Joining
<1>2. \A limit : History!IsGroup(h[i]) => DOMAIN History!Trimmed(h, texts, i, limit) \subseteq 1..n
  <2> TAKE limit
  <2> HAVE History!IsGroup(h[i])
  <2>1. i + Len(h[i].calls) <= n /\ Len(h[i].calls) \in Nat
    BY LenProperties DEF GroupsWithin, IsHistory
  <2>2. i..(i + Len(h[i].calls)) \subseteq 1..n
    BY <1>0, <2>1
  <2>3. DOMAIN History!Trimmed(h, texts, i, limit) = i..(i + Len(h[i].calls))
    BY DEF History!Trimmed, History!Block
  <2> QED
    BY <2>2, <2>3
<1>3. \A text : DOMAIN [j \in {i} |-> text] \subseteq 1..n
  BY <1>0
<1> DEFINE left == budget - History!TotalCost(h, chosen.texts)
           limits == History!Limits(h, texts, i, left)
           text == History!Truncated(h[i], texts[i], left)
<1>4. \/ History!Take(h, texts, budget, i, chosen).texts = chosen.texts
      \/ History!Take(h, texts, budget, i, chosen).texts
           = History!Joining([j \in {i} |-> text], chosen.texts)
      \/ /\ History!IsGroup(h[i])
         /\ History!Take(h, texts, budget, i, chosen).texts
              = History!Joining(History!Trimmed(h, texts, i, History!Max(limits)), chosen.texts)
  BY DEF History!Take
<1> HIDE DEF left, limits, text
<1> QED
  BY <1>1, <1>2, <1>3, <1>4

LEMMA SelectPlace ==
    ASSUME NEW h, IsHistory(h), NEW n \in Nat, Len(h) <= n, GroupsWithin(h, n), NEW texts, NEW budget
    PROVE  DOMAIN History!Select(h, texts, budget) \subseteq 1..n
<1>0. Len(h) \in Nat
  BY DEF IsHistory
<1>1. PICK f : /\ IsChosen(h, texts, budget, Len(h), f)
               /\ History!Select(h, texts, budget) = f[Len(h)].texts
  BY <1>0, SelectIsChosen
<1>2. \A k \in 0..Len(h) : f[k] = IF k = 0 THEN PinOf(h, texts, budget)
                                  ELSE History!Take(h, texts, budget, Len(h) + 1 - k, f[k - 1])
  BY <1>1 DEF IsChosen
<1> DEFINE Bad == {k \in 0..Len(h) : ~(DOMAIN f[k].texts \subseteq 1..n)}
<1>3. Bad = {}
  <2> SUFFICES ASSUME Bad # {} PROVE FALSE
    OBVIOUS
  <2>1. PICK k \in Bad : \A m \in Nat : m < k => m \notin Bad
    <3>1. Bad \subseteq Nat
      BY <1>0
    <3> HIDE DEF Bad
    <3> QED
      BY <3>1, LeastOf
  <2>2. k # 0
    <3>1. DOMAIN PinOf(h, texts, budget).texts \subseteq 1..n
      BY <1>0, PinnedPlace DEF PinOf
    <3>2. f[0] = PinOf(h, texts, budget)
      BY <1>0, <1>2
    <3> QED
      BY <3>1, <3>2
  <2>3. k \in 0..Len(h) /\ k - 1 \in 0..Len(h) /\ k - 1 < k /\ Len(h) + 1 - k \in 1..Len(h) /\ k - 1 \in Nat
    BY <1>0, <2>2
  <2>4. DOMAIN f[k - 1].texts \subseteq 1..n
    BY <2>1, <2>3
  <2>5. DOMAIN f[k].texts \subseteq 1..n
    <3>1. f[k] = History!Take(h, texts, budget, Len(h) + 1 - k, f[k - 1])
      BY <1>2, <2>2, <2>3
    <3> HIDE DEF Bad
    <3> QED
      BY <2>3, <2>4, <3>1, TakePlace
  <2> QED
    BY <2>5
<1> QED
  BY <1>0, <1>1, <1>3

LEMMA EligibleFacts ==
    ASSUME NEW h, IsHistory(h)
    PROVE  /\ History!Eligible(h) \in 0..Len(h)
           /\ \A i \in 1..History!Eligible(h) : h[i].turn \notin History!Affected(h, FALSE)
<1> DEFINE starts == {History!StartOf(h, t) : t \in History!Affected(h, FALSE)}
<1>0. DOMAIN h = 1..Len(h) /\ Len(h) \in Nat
  BY HistoryIsSeq DEF IsHistory
<1>1. History!Affected(h, FALSE) \subseteq History!TurnsOf(h)
  BY DEF History!Affected, History!TurnsOf
<1>2. \A t \in History!Affected(h, FALSE) :
         /\ History!StartOf(h, t) \in 1..Len(h)
         /\ \A i \in DOMAIN h : h[i].turn = t => History!StartOf(h, t) <= i
  BY <1>0, <1>1, StartFacts
<1>6. starts \subseteq 1..Len(h)
  BY <1>2, Zenon
<1>3. starts \in SUBSET Nat
  BY <1>6, 1..Len(h) \subseteq Nat
<1>4. starts # {} => History!Min(starts) \in starts /\ \A s \in starts : History!Min(starts) <= s
  <2> HIDE DEF starts
  <2> QED
    BY <1>3, MinIsLeast
<1>5. History!Eligible(h) = IF starts = {} THEN Len(h) ELSE History!Min(starts) - 1
  BY DEF History!Eligible
<1>7. History!Eligible(h) \in 0..Len(h)
  <2> HIDE DEF starts
  <2>1. CASE starts = {}
    <3>1. History!Eligible(h) = Len(h)
      BY ONLY <1>5, <2>1, Zenon
    <3> QED
      BY ONLY <1>0, <3>1
  <2>2. CASE starts # {}
    <3>1. PICK m \in starts : m = History!Min(starts)
      BY ONLY <1>4, <2>2, Zenon
    <3>2. History!Eligible(h) = m - 1
      BY ONLY <1>5, <2>2, <3>1, Zenon
    <3>3. m \in 1..Len(h)
      BY ONLY <1>6, <3>1, Zenon
    <3> QED
      BY ONLY <1>0, <3>2, <3>3
  <2> QED
    BY <2>1, <2>2
<1>8. ASSUME NEW i \in 1..History!Eligible(h), h[i].turn \in History!Affected(h, FALSE) PROVE FALSE
  <2>1. i \in DOMAIN h /\ i \in Nat
    BY <1>0, <1>7
  <2>2. History!StartOf(h, h[i].turn) <= i /\ History!StartOf(h, h[i].turn) \in starts
    BY <1>2, <1>8, <2>1
  <2> HIDE DEF starts
  <2>3. PICK s : s = History!StartOf(h, h[i].turn)
    OBVIOUS
  <2>4. PICK m : m = History!Min(starts)
    OBVIOUS
  <2>5. s \in starts /\ m \in starts /\ m <= s /\ s <= i
    BY ONLY <1>4, <2>2, <2>3, <2>4, Zenon
  <2>6. History!Eligible(h) = m - 1
    BY ONLY <1>5, <2>4, <2>5, Zenon
  <2>7. s \in Nat /\ m \in Nat
    BY ONLY <1>3, <2>5, Zenon
  <2>8. i <= m - 1
    BY ONLY <2>1, <2>6, <2>7, i \in 1..History!Eligible(h)
  <2> QED
    BY ONLY <2>1, <2>5, <2>7, <2>8
<1> QED
  BY <1>7, <1>8

LEMMA EligibleGroups ==
    ASSUME NEW h, IsHistory(h)
    PROVE  /\ IsHistory(SubSeq(h, 1, History!Eligible(h)))
           /\ Len(SubSeq(h, 1, History!Eligible(h))) = History!Eligible(h)
           /\ GroupsWithin(SubSeq(h, 1, History!Eligible(h)), Len(h))
<1> DEFINE e == History!Eligible(h)
           g == SubSeq(h, 1, e)
<1>0. DOMAIN h = 1..Len(h) /\ Len(h) \in Nat /\ e \in 0..Len(h)
  BY HistoryIsSeq, EligibleFacts DEF IsHistory
<1> HIDE DEF e
<1>1. IsHistory(g) /\ Len(g) = e /\ \A i \in 1..e : g[i] = h[i]
  <2>1. /\ IsHistory(g) /\ Len(g) = e - 1 + 1
        /\ \A i \in 1..(e - 1 + 1) : g[i] = h[1 + i - 1]
    BY <1>0, PartIsHistory
  <2> QED
    BY <1>0, <2>1
<1>2. ASSUME NEW i \in 1..e, History!IsGroup(h[i]) PROVE i + Len(h[i].calls) <= Len(h)
  <2>1. i \in DOMAIN h /\ h[i].turn \notin History!Affected(h, FALSE)
    <3>1. h[i].turn \notin History!Affected(h, FALSE)
      BY EligibleFacts DEF e
    <3>2. i \in DOMAIN h
      BY ONLY <1>0, i \in 1..e
    <3> QED
      BY <3>1, <3>2
  <2>2. History!Whole(h, i)
    BY <1>2, <2>1 DEF History!Affected
  <2>3. h[i].calls \in Seq(Nat) /\ h[i].calls # <<>>
    BY <1>0, <1>2, <2>1 DEF IsHistory, History!IsGroup
  <2>4. Len(h[i].calls) \in Nat \ {0}
    BY <2>3, EmptySeq, LenProperties
  <2> QED
    BY <2>2, <2>4 DEF History!Whole, History!Follow
<1> HIDE DEF g
<1>3. GroupsWithin(g, Len(h))
  BY <1>1, <1>2 DEF GroupsWithin
<1> QED
  BY <1>1, <1>3 DEF e, g

LEMMA PreparedPlace ==
    ASSUME NEW h, IsHistory(h), NEW summarized, NEW budget
    PROVE  DOMAIN History!Prepared(h, summarized, budget) \subseteq 1..Len(h)
<1> DEFINE g == SubSeq(h, 1, History!Eligible(h))
           texts == History!Rewritten(g, summarized)
<1>1. IsHistory(g) /\ Len(g) <= Len(h) /\ GroupsWithin(g, Len(h)) /\ Len(h) \in Nat
  <2>1. Len(h) \in Nat
    BY DEF IsHistory
  <2>2. IsHistory(g) /\ Len(g) = History!Eligible(h) /\ GroupsWithin(g, Len(h))
    BY EligibleGroups
  <2>3. History!Eligible(h) \in 0..Len(h)
    BY EligibleFacts
  <2> HIDE DEF g
  <2>4. Len(g) <= Len(h)
    BY ONLY <2>1, <2>2, <2>3
  <2> QED
    BY <2>1, <2>2, <2>4
<1>2. History!Prepared(h, summarized, budget) = History!Select(g, texts, budget)
  BY DEF History!Prepared
<1> HIDE DEF g, texts
<1> QED
  BY <1>1, <1>2, SelectPlace

\* A summary is of a message that was shown, also the summaries a checkpoint brings back; only a
\* session that is at the model has a request, of messages of its history.
RawInv ==
    /\ promoted \subseteq shown /\ promoted \subseteq 1..Len(history)
    /\ at # "model" => DOMAIN request = {}
    /\ DOMAIN request \subseteq 1..Len(history)
    /\ saved # None => saved.promoted \subseteq shown /\ saved.promoted \subseteq 1..saved.length

\* Appending messages keeps it, as long as the rest is left alone.
LEMMA AppendingLengthens ==
    ASSUME HistoryInv, NEW messages, IsHistory(messages), History!Appended(messages)
    PROVE  /\ Len(history') = Len(history) + Len(messages) /\ Len(messages) \in Nat
           /\ 1..Len(history) \subseteq 1..Len(history')
<1>1. IsHistory(history) /\ Len(history) \in Nat /\ Len(messages) \in Nat
  BY DEF HistoryInv, IsHistory
<1>2. Len(history') = Len(history) + Len(messages)
  BY <1>1, AppendedIsHistory DEF History!Appended
<1>3. 1..Len(history) \subseteq 1..Len(history')
  BY ONLY <1>1, <1>2
<1> QED
  BY <1>1, <1>2, <1>3

LEMMA CompilingKeepsRaw ==
    ASSUME HistoryInv, RawInv, History!Compile
    PROVE  RawInv'
<1>0. /\ IsHistory(history) /\ Len(history) \in Nat /\ boundary \in 0..Len(history) /\ last \in Nat
      /\ IsHistory(History!Visible) /\ Len(History!Visible) = Len(history) - boundary
  BY VisibleFacts DEF HistoryInv, IsHistory
<1>1. PICK budget \in Budgets :
        LET new == IF \E i \in DOMAIN history : history[i] = History!Plain(last, "context") THEN <<>>
                   ELSE <<History!Plain(last, "context")>>
            texts == History!Prepared(History!Visible \o new, History!Shift(promoted), budget)
        IN  /\ History!Appended(new)
            /\ request' = [i \in {j + boundary : j \in DOMAIN texts} |-> texts[i - boundary]]
  BY DEF History!Compile
<1> DEFINE new == IF \E i \in DOMAIN history : history[i] = History!Plain(last, "context") THEN <<>>
                  ELSE <<History!Plain(last, "context")>>
           texts == History!Prepared(History!Visible \o new, History!Shift(promoted), budget)
<1>2. History!Appended(new) /\ DOMAIN request' = {j + boundary : j \in DOMAIN texts}
  BY <1>1
<1>3. IsHistory(new)
  BY <1>0, EmptyIsHistory, MessagesAreHistory
<1> HIDE DEF new
<1>4. /\ Len(history') = Len(history) + Len(new) /\ Len(new) \in Nat
      /\ 1..Len(history) \subseteq 1..Len(history')
  BY <1>2, <1>3, AppendingLengthens
<1>5. IsHistory(History!Visible \o new) /\ Len(History!Visible \o new) = Len(history) - boundary + Len(new)
  BY <1>0, <1>3, AppendedIsHistory
<1>6. DOMAIN texts \subseteq 1..(Len(history) - boundary + Len(new))
  <2>1. DOMAIN texts \subseteq 1..Len(History!Visible \o new)
    BY <1>5, PreparedPlace
  <2> QED
    BY ONLY <1>5, <2>1, Zenon
<1> HIDE DEF texts
<1>7. DOMAIN request' \subseteq 1..Len(history')
  <2>1. \A j \in 1..(Len(history) - boundary + Len(new)) : j + boundary \in 1..Len(history')
    BY ONLY <1>0, <1>4
  <2> QED
    BY ONLY <1>2, <1>6, <2>1, Zenon
<1>8. at' = "model" /\ UNCHANGED <<boundary, promoted, saved, shown>>
  BY DEF History!Compile
<1>9. promoted' \subseteq 1..Len(history')
  BY <1>4, <1>8 DEF RawInv
<1> QED
  BY <1>7, <1>8, <1>9 DEF RawInv

\* What neither answers, compiles, restores nor makes a checkpoint.
LEMMA LengtheningKeepsRaw ==
    ASSUME HistoryInv, RawInv, NEW messages, IsHistory(messages), History!Appended(messages),
           UNCHANGED <<promoted, saved, shown>>,
           \/ request' = <<>>
           \/ UNCHANGED <<at, request>>
    PROVE  RawInv'
<1>1. 1..Len(history) \subseteq 1..Len(history')
  BY AppendingLengthens
<1>2. DOMAIN request' \subseteq 1..Len(history') /\ (at' # "model" => DOMAIN request' = {})
  <2>1. CASE request' = <<>>
    <3>1. DOMAIN request' = {}
      BY <2>1
    <3> QED
      BY <3>1
  <2>2. CASE UNCHANGED <<at, request>>
    BY <1>1, <2>2 DEF RawInv
  <2> QED
    BY <2>1, <2>2
<1> QED
  BY <1>1, <1>2 DEF RawInv

LEMMA AnsweringKeepsRaw ==
    ASSUME HistoryInv, RawInv, NEW messages, IsHistory(messages), History!Appended(messages),
           History!Answered, saved' = saved
    PROVE  RawInv'
<1>1. 1..Len(history) \subseteq 1..Len(history')
  BY AppendingLengthens
<1>2. History!Exposed \subseteq DOMAIN request
  BY DEF History!Exposed
<1>3. promoted' = promoted \cup History!Exposed /\ shown' = shown \cup DOMAIN request /\ request' = <<>>
  BY DEF History!Answered
<1>4. DOMAIN request' = {}
  BY <1>3
<1> QED
  BY <1>1, <1>2, <1>3, <1>4, Zenon DEF RawInv

LEMMA RawKeeps ==
    ASSUME HistoryInv, RawInv, History!HistoryNext
    PROVE  RawInv'
<1>0. /\ IsHistory(history) /\ Len(history) \in Nat /\ last \in Nat /\ asked \in Nat /\ SavedInv
  BY DEF HistoryInv, IsHistory
<1>1. CASE History!Ask
  <2>1. at # "model" /\ at' = "loop" /\ UNCHANGED <<promoted, saved, shown, request>>
    BY <1>1 DEF History!Ask
  <2>2. History!Appended(<<History!Plain(last + 1, "user")>>) /\ IsHistory(<<History!Plain(last + 1, "user")>>)
    BY <1>0, <1>1, MessagesAreHistory DEF History!Ask, History!Plain
  <2>3. 1..Len(history) \subseteq 1..Len(history')
    BY <2>2, AppendingLengthens
  <2> QED
    BY <2>1, <2>3 DEF RawInv
<1>2. CASE History!Compile
  BY <1>2, CompilingKeepsRaw
<1>3. CASE History!Reply
  BY <1>0, <1>3, MessagesAreHistory, AnsweringKeepsRaw DEF History!Reply
<1>4. CASE History!CallTools
  <2>1. PICK n \in {1, 2} : History!Appended(<<History!Calls(last, [j \in 1..n |-> 2 * Len(history) + j])>>)
    BY <1>4 DEF History!CallTools
  <2>2. [j \in 1..n |-> 2 * Len(history) + j] \in Seq(Nat)
    BY <1>0, IsASeq
  <2> QED
    BY <1>0, <1>4, <2>1, <2>2, MessagesAreHistory, AnsweringKeepsRaw DEF History!CallTools
<1>5. CASE History!EndCall
  <2>1. PICK text \in ToolText : History!Appended(<<History!Result(last, Head(todo), text)>>)
    BY <1>5 DEF History!EndCall
  <2>2. IsHistory(<<History!Result(last, Head(todo), text)>>)
    BY <1>0, MessagesAreHistory
  <2>3. 1..Len(history) \subseteq 1..Len(history')
    BY <2>1, <2>2, AppendingLengthens
  <2>4. /\ at # "model" /\ UNCHANGED <<promoted, at, request, shown>>
        /\ \/ UNCHANGED saved
           \/ saved' = [length |-> Len(history), boundary |-> boundary, promoted |-> promoted]
    BY <1>5 DEF History!EndCall
  <2>5. saved' # None => saved'.promoted \subseteq shown' /\ saved'.promoted \subseteq 1..saved'.length
    <3>1. CASE saved' = saved
      BY <2>4, <3>1 DEF RawInv
    <3>2. CASE saved' = [length |-> Len(history), boundary |-> boundary, promoted |-> promoted]
      <4>1. saved'.length = Len(history) /\ saved'.promoted = promoted
        BY ONLY <3>2
      <4>2. promoted \subseteq shown' /\ promoted \subseteq 1..Len(history)
        BY <2>4 DEF RawInv
      <4> QED
        BY ONLY <4>1, <4>2, Zenon
    <3> QED
      BY <2>4, <3>1, <3>2
  <2> QED
    BY <2>3, <2>4, <2>5 DEF RawInv
<1>6. CASE History!UndoCall
  <2> DEFINE kept == SubSeq(history, 1, saved.length)
             result == History!Result(last, Head(todo), History!Small)
  <2>1. /\ saved # None /\ saved.length <= Len(history) /\ history' = Append(kept, result)
        /\ at = "tools" /\ promoted' = saved.promoted /\ shown' = shown \cap 1..saved.length
        /\ UNCHANGED <<at, request, saved>>
    BY <1>6 DEF History!UndoCall
  <2>2. saved.length \in 0..Len(history) /\ saved.length \in Nat
    BY <1>0, <2>1 DEF SavedInv
  <2>3. IsHistory(kept) /\ Len(kept) = saved.length
    BY <1>0, <2>2, PartIsHistory
  <2>4. Len(Append(kept, result)) = saved.length + 1
    <3>1. kept \in Seq(Items(kept) \cup {result}) /\ result \in Items(kept) \cup {result}
      <4>1. kept \in Seq(Items(kept))
        BY <2>3, HistoryIsSeq
      <4> QED
        BY <4>1, SeqMonotonic
    <3> HIDE DEF kept, result
    <3> QED
      BY <2>3, <3>1, AppendProperties
  <2> HIDE DEF kept, result
  <2>5. Len(history') = saved.length + 1
    BY <2>1, <2>4
  <2>6. 1..saved.length \subseteq 1..Len(history')
    BY ONLY <2>2, <2>5
  <2>7. at' # "model" /\ DOMAIN request' = {} /\ saved.promoted \subseteq shown
        /\ saved.promoted \subseteq 1..saved.length
    BY <2>1 DEF RawInv
  <2> QED
    BY <2>1, <2>6, <2>7 DEF RawInv
<1>7. CASE History!CallsEnd \/ History!NeedsApproval \/ History!Continue
  <2>1. at # "model" /\ UNCHANGED <<history, promoted, request, saved, shown>>
    BY <1>7 DEF History!CallsEnd, History!NeedsApproval, History!Continue, History!logVars
  <2> QED
    BY <2>1 DEF RawInv
<1>8. CASE History!Stop
  <2>1. request' = <<>> /\ UNCHANGED <<history, promoted, saved, shown>>
    BY <1>8 DEF History!Stop, History!logVars
  <2>2. DOMAIN request' = {}
    BY <2>1
  <2> QED
    BY <2>1, <2>2 DEF RawInv
<1>9. CASE History!Crash
  BY <1>9, RecoveredIsHistory, LengtheningKeepsRaw DEF History!Crash
<1>10. CASE History!Answer
  BY <1>0, <1>10, MessagesAreHistory, LengtheningKeepsRaw DEF History!Answer
<1>11. CASE History!Compact
  <2>1. UNCHANGED <<history, at, promoted, request, saved, shown>>
    BY <1>11 DEF History!Compact
  <2> QED
    BY <2>1 DEF RawInv
<1> QED
  BY <1>1, <1>2, <1>3, <1>4, <1>5, <1>6, <1>7, <1>8, <1>9, <1>10, <1>11 DEF History!HistoryNext

\* A tool result is replaced by its summary only after it was in a request that the model has
\* answered: for any budget and number of messages, whatever stops a turn or takes its process, and
\* however often a tool restores the conversation of a checkpoint.
THEOREM SummariesFollowTheirResults == MCSpec => []RawFirst
<1>1. MCInit => HistoryInv /\ RawInv
  <2> SUFFICES ASSUME History!Init PROVE HistoryInv /\ RawInv
    BY DEF MCInit
  <2>1. HistoryInv
    BY EmptyIsHistory DEF History!Init, HistoryInv, SavedInv
  <2>2. DOMAIN <<>> = {}
    OBVIOUS
  <2>3. RawInv
    BY <2>2 DEF History!Init, RawInv
  <2> QED
    BY <2>1, <2>3
<1>2. HistoryInv /\ RawInv /\ [MCNext]_<<vars, part, historyVars>> => HistoryInv' /\ RawInv'
  <2>1. ASSUME HistoryInv, RawInv, History!HistoryNext PROVE HistoryInv' /\ RawInv'
    BY <2>1, HistoryKeeps, RawKeeps
  <2>2. ASSUME HistoryInv, RawInv, UNCHANGED historyVars PROVE HistoryInv' /\ RawInv'
    BY <2>2 DEF historyVars, HistoryInv, SavedInv, IsHistory, RawInv
  <2> QED
    BY <2>1, <2>2 DEF MCNext
<1>3. RawInv => RawFirst
  BY DEF RawInv, RawFirst, History!RawFirst
<1> QED
  BY <1>1, <1>2, <1>3, PTL DEF MCSpec
=============================================================================
