------------------------------ MODULE MCProgress ------------------------------
(***************************************************************************)
(* The liveness of WorkerLifecycle and UserInputResponse for TLC.  A        *)
(* behaviour is about one of the two, and each has the fairness of its own  *)
(* module while the behaviour is about it.                                  *)
(***************************************************************************)
EXTENDS WorkerLifecycle

CONSTANTS
    Responder, Stale, Stalls, Answer, Cancel, Interrupts, Attaches

VARIABLES
    part,
    at, lease, gens, takeover, beat, step, goal, offer, claim, missing, keep, payload, messages,
    responses, resume, completed, session, interrupt, mode

Question == INSTANCE UserInputResponse WITH Crashes <- {}

questionVars ==
    <<at, lease, gens, takeover, beat, step, goal, offer, claim, missing, keep, payload, messages,
      responses, resume, completed, session, interrupt, mode>>
allVars == <<part, vars, questionVars>>

MCInit ==
    /\ Init
    /\ Question!Init
    /\ ~overlapping
    /\ \/ part = "worker"  /\ mode = "blocking"
       \/ part = "question" /\ workerType = "coding"

OfWorker(A) == part = "worker" /\ A /\ UNCHANGED <<part, overlapping, questionVars>>
OfQuestion(A) == part = "question" /\ A /\ UNCHANGED <<part, vars>>

MCNext == OfWorker(Next) \/ OfQuestion(Question!Next)

MCFairSpec ==
    /\ MCInit /\ [][MCNext]_allVars
    /\ \A r \in Run : WF_allVars(OfWorker(ServedStep(r))) /\ WF_allVars(OfWorker(Timeout(r)))
    /\ \A q \in Request : WF_allVars(OfWorker(SignalRun(q)))
    /\ \A r \in Responder : /\ WF_allVars(OfQuestion(Question!MainStep(r)))
                            /\ WF_allVars(OfQuestion(Question!RenewStep(r)))

\* WorkerLifecycle!EveryRunEnds and WorkerSettles: a run ends even when its model never answers,
\* and leaves a terminal status.
WorkerProgress == EveryRunEnds /\ WorkerSettles

\* UserInputResponse!EveryCallEnds and TurnSettles: every call of respondToUserInput ends, and
\* the turn it resumes ends or waits for the user again.
QuestionProgress == Question!EveryCallEnds /\ Question!TurnSettles
=============================================================================
