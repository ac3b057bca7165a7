------------------------------- MODULE CliShell -------------------------------
(***************************************************************************)
(* CliSessionShell, the loop of the command line: it reads a prompt, a     *)
(* decision on an approval or the answer to a question, calls the governor *)
(* with it, and learns from what comes back what to ask for next.  Ctrl+C  *)
(* is handled beside the loop, and interruptSession runs beside the turn.  *)
(*                                                                         *)
(* Of the governor a turn of the one session is kept: what it appends to   *)
(* the log, the status it leaves, and its controller; of its questions the *)
(* blocking ones.  The first prompt of a shell that resumed no session     *)
(* starts one, which is the session from then on.  Another front end may   *)
(* decide or answer as well.                                               *)
(***************************************************************************)
EXTENDS Naturals

CONSTANTS
    MaxRequests,    \* bound: approvals and questions of the session
    MaxTurns,       \* bound: calls of the governor that run a turn
    MaxInterrupts,  \* bound: presses of Ctrl+C that interrupt a turn
    None            \* no request; not a number

Request == 1..MaxRequests

VARIABLES
    shell,      \* the shell: where its loop is, and its fields
    turn,       \* the call of the governor that the loop waits for
    log,        \* the latest record of each request of the session
    status,     \* the session record; None before there is a session
    interrupt,  \* interruptSession
    turns, interrupts  \* counters

shellVars == <<shell, turn, log, status, interrupt, turns, interrupts>>

NoTurn == [at |-> "none"]
NoRequest == [kind |-> None, status |-> "none"]

ShellTypeOK ==
    /\ shell \in [at : {"loop", "prompt", "approval", "resolving", "question", "inspect", "turn",
                        "ended", "thrown"},
                  state : {"idle", "running_turn", "awaiting_approval", "awaiting_user_input",
                           "interrupted"},
                  session : BOOLEAN, approval : Request \cup {None}, question : Request \cup {None},
                  interrupted : BOOLEAN, exit : BOOLEAN, command : BOOLEAN]
    /\ turn \in {NoTurn} \cup
         [at : {"check", "start", "register", "work", "ask", "asked", "error", "denied", "finish",
                "returned", "thrown", "permission"},
          kind : {"prompt", "continue", "answer", "cancel"}, request : Request \cup {None},
          raised : Request \cup {None}, aborted : BOOLEAN, outcome : {None, "interrupted", "failed",
          "ask_permission"}]
    /\ log \in [Request -> [kind : {None, "approval", "question"},
                            status : {"none", "pending", "unsettled", "closed"}]]
    /\ status \in {None, "waiting_for_user", "running", "ask_permission", "interrupted",
                   "failed", "pending"}
    /\ interrupt \in [at : {"idle", "load", "list", "record", "update"}, abort : BOOLEAN,
                      turn : Nat, open : SUBSET Request]
    /\ turns \in 0..MaxTurns /\ interrupts \in 0..MaxInterrupts

Raised == {r \in Request : log[r].status # "none"}
LastOf(S) == IF S = {} THEN None ELSE CHOOSE r \in S : \A q \in S : q <= r
Pending(kind) == {r \in Request : log[r].kind = kind /\ log[r].status = "pending"}
Unsettled == {r \in Request : log[r].kind = "question" /\ log[r].status \in {"pending", "unsettled"}}
OrElse(a, b) == IF a # None THEN a ELSE b

\* inspectSession: the pending approval and the open question that the log shows last.
SeenApproval == LastOf(Pending("approval"))
SeenQuestion == LastOf(Unsettled)

\* A shell starts without a session, or with --resume on one that an earlier run left waiting.
Init ==
    /\ \/ log = [r \in Request |-> NoRequest] /\ status = None
       \/ /\ log = [r \in Request |-> IF r = 1 THEN [kind |-> "question", status |-> "pending"]
                                               ELSE NoRequest]
          /\ status = "waiting_for_user"
       \/ /\ log = [r \in Request |-> IF r = 1 THEN [kind |-> "approval", status |-> "pending"]
                                               ELSE NoRequest]
          /\ status = "ask_permission"
    /\ shell = [at |-> IF status = None THEN "loop" ELSE "inspect", state |-> "idle",
                session |-> FALSE, approval |-> None, question |-> None,
                interrupted |-> FALSE, exit |-> FALSE, command |-> FALSE]
    /\ turn = NoTurn
    /\ interrupt = [at |-> "idle", abort |-> FALSE, turn |-> 0, open |-> {}]
    /\ turns = 0 /\ interrupts = 0

-----------------------------------------------------------------------------
(* The loop: what it reads, and what it calls with it.                     *)

ShellAt(place) == shell.at = place
Runtime == <<turn, log, status, turns>>
Interrupting == <<interrupt, interrupts>>

\* An approval is asked for before a question, and either before the next prompt.
Loop ==
    /\ ShellAt("loop")
    /\ IF shell.exit THEN shell' = [shell EXCEPT !.at = "ended"]
       ELSE IF shell.approval # None
         THEN shell' = [shell EXCEPT !.at = "approval", !.command = FALSE]
       ELSE IF shell.question # None
         THEN shell' = [shell EXCEPT !.at = "question", !.command = FALSE,
                                     !.state = "awaiting_user_input"]
       ELSE shell' = [shell EXCEPT !.at = "prompt", !.command = FALSE,
                                   !.state = "awaiting_user_input"]
    /\ UNCHANGED <<Runtime, Interrupting>>

\* The governor is called; the shell, which has taken up what it submits, waits for the turn.
Call(kind, request, submitting) ==
    /\ turns < MaxTurns
    /\ turns' = turns + 1
    /\ turn' = [at |-> "check", kind |-> kind, request |-> request, raised |-> None,
                aborted |-> FALSE, outcome |-> None]
    /\ shell' = [submitting EXCEPT !.at = "turn", !.state = "running_turn", !.interrupted = FALSE]

Prompt ==
    /\ ShellAt("prompt")
    /\ Call("prompt", None, [shell EXCEPT !.approval = None])
    /\ UNCHANGED <<log, status, Interrupting>>

\* /resume and /continue, and /exit.
Command ==
    /\ ShellAt("prompt")
    /\ \/ shell.session /\ shell' = [shell EXCEPT !.at = "inspect", !.command = TRUE]
       \/ shell' = [shell EXCEPT !.at = "loop", !.exit = TRUE]
    /\ UNCHANGED <<Runtime, Interrupting>>

\* resolveResumeTarget may find no session; renderResumedSession shows what waits.  A command
\* calls handleApproval itself.
Inspect ==
    /\ ShellAt("inspect")
    /\ IF SeenApproval # None
         THEN shell' = [shell EXCEPT
                !.at = IF shell.command /\ ~shell.exit THEN "approval" ELSE "loop",
                !.session = TRUE, !.approval = SeenApproval, !.state = "awaiting_approval"]
       ELSE IF SeenQuestion # None
         THEN shell' = [shell EXCEPT !.at = "loop", !.session = TRUE, !.question = SeenQuestion,
                                     !.state = "awaiting_user_input"]
       ELSE shell' = [shell EXCEPT !.at = "loop", !.session = TRUE, !.question = None,
                                   !.state = "idle"]
    /\ UNCHANGED <<Runtime, Interrupting>>

InspectFails ==
    /\ ShellAt("inspect")
    /\ shell' = [shell EXCEPT !.at = "loop"]
    /\ UNCHANGED <<Runtime, Interrupting>>

Decide ==
    /\ ShellAt("approval")
    /\ shell' = [shell EXCEPT !.at = "resolving"]
    /\ UNCHANGED <<Runtime, Interrupting>>

\* resolveApproval refuses what is not pending any more; only a command catches that.
Resolve ==
    /\ ShellAt("resolving")
    /\ IF log[shell.approval].status = "pending"
         THEN /\ log' = [log EXCEPT ![shell.approval].status = "closed"]
              /\ Call("continue", None, [shell EXCEPT !.approval = None])
         ELSE /\ shell' = [shell EXCEPT !.at = IF shell.command THEN "loop" ELSE "thrown"]
              /\ UNCHANGED <<log, turn, turns>>
    /\ UNCHANGED <<status, Interrupting>>

Reply ==
    /\ ShellAt("question")
    /\ \E kind \in {"answer", "cancel"} : Call(kind, shell.question, [shell EXCEPT !.question = None])
    /\ UNCHANGED <<log, status, Interrupting>>

\* The end of the input.
InputEnds ==
    /\ shell.at \in {"prompt", "approval", "question"}
    /\ shell' = [shell EXCEPT !.at = "loop", !.exit = TRUE]
    /\ UNCHANGED <<Runtime, Interrupting>>

-----------------------------------------------------------------------------
(* A turn of the governor.                                                 *)

TurnAt(place) == turn.at = place

\* The controller of the turn is in activeTurnControllers.
Registered == turn.at \in {"work", "ask", "asked", "error", "denied", "finish"}

\* respondToUserInput: a first answer wants a session that waits, a later one none that runs.
Answerable(q) ==
    \/ log[q].status = "pending" /\ status = "waiting_for_user"
    \/ log[q].status = "unsettled" /\ status # "running"

CheckTurn ==
    /\ TurnAt("check")
    /\ \/ /\ turn.kind = "prompt" /\ ~shell.session   \* createSession
          /\ status' = "pending" /\ log' = [r \in Request |-> NoRequest]
          /\ shell' = [shell EXCEPT !.session = TRUE]
          /\ turn' = [turn EXCEPT !.at = "start"]
       \/ /\ turn.kind = "prompt" /\ shell.session
          /\ status # "running" /\ Pending("question") = {}
          /\ turn' = [turn EXCEPT !.at = "start"]
          /\ UNCHANGED <<log, status, shell>>
       \/ /\ turn.kind = "continue" /\ status = "ask_permission"
          /\ turn' = [turn EXCEPT !.at = "start"]
          /\ UNCHANGED <<log, status, shell>>
       \/ /\ turn.kind = "answer" /\ Answerable(turn.request)
          /\ log' = [log EXCEPT ![turn.request].status = "unsettled"]
          /\ status' = "running"
          /\ turn' = [turn EXCEPT !.at = "register"]
          /\ UNCHANGED shell
       \/ /\ turn.kind = "cancel" /\ Answerable(turn.request)
          /\ log' = [log EXCEPT ![turn.request].status = "closed"]
          /\ status' = "interrupted"
          /\ turn' = [turn EXCEPT !.at = "returned"]
          /\ UNCHANGED shell
    /\ UNCHANGED <<turns, Interrupting>>

RefuseTurn ==
    /\ TurnAt("check")
    /\ \/ /\ turn.kind = "prompt" /\ shell.session
          /\ status = "running" \/ Pending("question") # {}
       \/ turn.kind = "continue" /\ status # "ask_permission"
       \/ turn.kind \in {"answer", "cancel"} /\ ~Answerable(turn.request)
    /\ turn' = [turn EXCEPT !.at = "thrown"]
    /\ UNCHANGED <<shell, log, status, turns, Interrupting>>

\* startTurn, or the update of continuePendingTurn.
StartTurn ==
    /\ TurnAt("start")
    /\ status' = "running"
    /\ turn' = [turn EXCEPT !.at = "register"]
    /\ UNCHANGED <<shell, log, turns, Interrupting>>

\* registerTurnAbortController; an answer is looked at again first.
RegisterTurn ==
    /\ TurnAt("register")
    /\ IF turn.kind = "answer" /\ (status # "running" \/ log[turn.request].status = "closed")
         THEN turn' = [turn EXCEPT !.at = "error"]
         ELSE turn' = [turn EXCEPT !.at = "work"]
    /\ UNCHANGED <<shell, log, status, turns, Interrupting>>

\* A new record of the log; the last of the requests is the latest.
Raise(kind, place) ==
    \E r \in Request \ Raised :
        /\ \A q \in Request \ Raised : r <= q
        /\ log' = [log EXCEPT ![r] = [kind |-> kind, status |-> "pending"]]
        /\ turn' = [turn EXCEPT !.at = place, !.raised = r]

\* The model and its tools, until the turn ends, fails, wants a permission or a question answered.
Work ==
    /\ TurnAt("work")
    /\ \/ /\ UNCHANGED log
          /\ \/ turn.aborted /\ turn' = [turn EXCEPT !.at = "error"]
             \/ /\ ~turn.aborted
                /\ \E place \in {"finish", "error"} : turn' = [turn EXCEPT !.at = place]
             \/ ~turn.aborted /\ status = "running" /\ turn' = [turn EXCEPT !.at = "ask"]
       \/ ~turn.aborted /\ Raise("approval", "denied")
    /\ UNCHANGED <<shell, status, turns, Interrupting>>

RecordQuestion ==
    /\ TurnAt("ask")
    /\ Raise("question", "asked")
    /\ UNCHANGED <<shell, status, turns, Interrupting>>

\* The turn pauses, unless it was aborted or the question is settled by an interrupt.
PauseForUser ==
    /\ TurnAt("asked")
    /\ turn' = [turn EXCEPT !.at = IF ~turn.aborted /\ log[turn.raised].status = "pending"
                                    THEN "finish" ELSE "error"]
    /\ UNCHANGED <<shell, log, status, turns, Interrupting>>

\* The turn ends in waiting_for_user; the question it resumed is settled.
FinishTurn ==
    /\ TurnAt("finish")
    /\ status' = "waiting_for_user"
    /\ IF turn.kind # "answer"
         THEN turn' = [turn EXCEPT !.at = "returned"] /\ UNCHANGED log
       ELSE IF log[turn.request].status = "closed"
         THEN turn' = [turn EXCEPT !.at = "thrown"] /\ UNCHANGED log
       ELSE /\ log' = [log EXCEPT ![turn.request].status = "closed"]
            /\ turn' = [turn EXCEPT !.at = "returned"]
    /\ UNCHANGED <<shell, turns, Interrupting>>

\* finishFailedTurn reads the status, then writes it.
FailTurn ==
    /\ turn.at \in {"error", "denied"} /\ turn.outcome = None
    /\ turn' = [turn EXCEPT !.outcome = IF status = "interrupted" THEN "interrupted"
                                         ELSE IF TurnAt("denied") THEN "ask_permission"
                                         ELSE "failed"]
    /\ UNCHANGED <<shell, log, status, turns, Interrupting>>

\* A resumed question stays open when its turn fails, and is settled when that wants a permission.
EndFailedTurn ==
    /\ turn.at \in {"error", "denied"} /\ turn.outcome # None
    /\ turn' = [turn EXCEPT !.at = IF TurnAt("denied") THEN "permission" ELSE "thrown"]
    /\ IF turn.kind = "answer" /\ TurnAt("error")
         THEN /\ status' = IF log[turn.request].status = "closed" THEN status
                           ELSE "waiting_for_user"
              /\ UNCHANGED log
         ELSE /\ status' = turn.outcome
              /\ log' = IF turn.kind = "answer" THEN [log EXCEPT ![turn.request].status = "closed"]
                        ELSE log
    /\ UNCHANGED <<shell, turns, Interrupting>>

-----------------------------------------------------------------------------
(* What the shell makes of the end of a turn.                              *)

TurnQuestion == IF turn.raised # None /\ log[turn.raised].kind = "question" THEN turn.raised ELSE None

\* Mutant: a failed submission leaves no question.
AfterFailureForgotten(kind) == shell.question

\* The question the shell has after a failure: one that it submitted is looked up in the log.
AfterFailure(kind) == IF kind \in {"answer", "cancel"} THEN SeenQuestion ELSE shell.question

Returned ==
    /\ ShellAt("turn") /\ TurnAt("returned")
    /\ IF turn.kind = "prompt" /\ shell.interrupted
         THEN /\ status' = "interrupted"
              /\ shell' = [shell EXCEPT !.at = "loop", !.state = "interrupted",
                                        !.question = OrElse(TurnQuestion, @)]
         ELSE /\ shell' = [shell EXCEPT !.at = "loop", !.state = "idle",
                           !.question = IF turn.kind = "prompt"
                                        THEN OrElse(OrElse(TurnQuestion, @), SeenQuestion)
                                        ELSE OrElse(OrElse(TurnQuestion, SeenQuestion), @)]
              /\ UNCHANGED status
    /\ turn' = NoTurn
    /\ UNCHANGED <<log, turns, Interrupting>>

\* PermissionRequiredError: a prompt's turn falls back on the approval of the error.
PermissionRequired ==
    /\ ShellAt("turn") /\ TurnAt("permission")
    /\ shell' = [shell EXCEPT
         !.at = "loop", !.state = "awaiting_approval",
         !.approval = IF turn.kind = "prompt" THEN OrElse(SeenApproval, turn.raised)
                      ELSE SeenApproval,
         !.question = AfterFailure(turn.kind)]
    /\ turn' = NoTurn
    /\ UNCHANGED <<log, status, turns, Interrupting>>

Failed ==
    /\ ShellAt("turn") /\ TurnAt("thrown")
    /\ IF turn.kind = "prompt" /\ shell.interrupted
         THEN /\ status' = "interrupted"
              /\ shell' = [shell EXCEPT !.at = "loop", !.state = "interrupted"]
         ELSE /\ shell' = [shell EXCEPT !.at = "loop", !.state = "idle",
                                        !.question = AfterFailure(turn.kind)]
              /\ UNCHANGED status
    /\ turn' = NoTurn
    /\ UNCHANGED <<log, turns, Interrupting>>

-----------------------------------------------------------------------------
(* Ctrl+C, and another front end.                                          *)

\* requestInterrupt: the first press interrupts a turn, the second leaves the shell after it;
\* without a turn the shell is left at once.  Before a session is known a press does nothing.
RequestInterrupt ==
    /\ shell.at \notin {"ended", "thrown"}
    /\ IF shell.state = "running_turn"
         THEN /\ shell.session
              /\ IF shell.interrupted
                   THEN shell' = [shell EXCEPT !.exit = TRUE] /\ UNCHANGED Interrupting
                   ELSE /\ shell' = [shell EXCEPT !.interrupted = TRUE]
                        /\ interrupts < MaxInterrupts /\ interrupt.at = "idle"
                        /\ interrupts' = interrupts + 1
                        /\ interrupt' = [interrupt EXCEPT !.at = "load"]
         ELSE /\ shell.state \in {"awaiting_approval", "awaiting_user_input", "idle"}
              /\ shell' = [shell EXCEPT
                   !.exit = TRUE,
                   !.at = IF @ \in {"prompt", "approval", "question"} THEN "loop" ELSE @]
              /\ UNCHANGED Interrupting
    /\ UNCHANGED Runtime

InterruptLoad ==
    /\ interrupt.at = "load"
    /\ interrupt' = [interrupt EXCEPT !.at = "list", !.abort = Registered, !.turn = turns]
    /\ UNCHANGED <<shell, Runtime, interrupts>>

InterruptList ==
    /\ interrupt.at = "list"
    /\ interrupt' = [interrupt EXCEPT !.at = "record", !.open = Unsettled]
    /\ UNCHANGED <<shell, Runtime, interrupts>>

\* The questions that were open are settled as interrupted.
InterruptRecord ==
    /\ interrupt.at = "record"
    /\ log' = [r \in Request |-> IF r \in interrupt.open THEN [log[r] EXCEPT !.status = "closed"]
                                 ELSE log[r]]
    /\ interrupt' = [interrupt EXCEPT !.at = "update", !.open = {}]
    /\ UNCHANGED <<shell, turn, status, turns, interrupts>>

InterruptUpdate ==
    /\ interrupt.at = "update"
    /\ status' = "interrupted"
    /\ IF interrupt.abort /\ interrupt.turn = turns /\ Registered
         THEN turn' = [turn EXCEPT !.aborted = TRUE]
       ELSE UNCHANGED turn
    /\ interrupt' = [at |-> "idle", abort |-> FALSE, turn |-> 0, open |-> {}]
    /\ UNCHANGED <<shell, log, turns, interrupts>>

\* Another front end answers a question or decides an approval, and its turn ends.
OtherFrontEnd ==
    /\ \E r \in Request :
         /\ \/ r \in Pending("question") /\ status = "waiting_for_user"
            \/ r \in Pending("approval") /\ status = "ask_permission"
         /\ log' = [log EXCEPT ![r].status = "closed"]
    /\ status' = "waiting_for_user"
    /\ UNCHANGED <<shell, turn, turns, Interrupting>>

-----------------------------------------------------------------------------

Next ==
    \/ Loop \/ Prompt \/ Command \/ Inspect \/ InspectFails \/ Decide \/ Resolve \/ Reply \/ InputEnds
    \/ CheckTurn \/ RefuseTurn \/ StartTurn \/ RegisterTurn \/ Work \/ RecordQuestion \/ PauseForUser
    \/ FinishTurn \/ FailTurn \/ EndFailedTurn
    \/ Returned \/ PermissionRequired \/ Failed
    \/ RequestInterrupt \/ InterruptLoad \/ InterruptList \/ InterruptRecord \/ InterruptUpdate
    \/ OtherFrontEnd

Spec == Init /\ [][Next]_shellVars

-----------------------------------------------------------------------------
(* Properties.                                                             *)

\* A shell asks for what its session waits for: it is never at the prompt while the session waits
\* for a decision, or for an answer, that the log shows to be open.  Seven ways lead from the end
\* of a turn back to the loop, and each finds out on its own what is open.
AsksWhatWaits ==
    ShellAt("prompt") /\ shell.session =>
        /\ ~(status = "waiting_for_user" /\ Unsettled # {})
        /\ ~(status = "ask_permission" /\ Pending("approval") # {})

\* TLC refutes the next three.  A question that the shell asks can be answered or cancelled: not
\* the one of a turn that paused while it was interrupted, since the shell itself then sets the
\* session to "interrupted".
AskedIsAnswerable ==
    ShellAt("question") /\ interrupt.at = "idle" /\ log[shell.question].status = "pending" =>
        Answerable(shell.question)

\* After an interrupt "you can type a new prompt": not when a question was recorded after the
\* interrupt had listed the open ones; the session refuses every prompt, and the answer too.
PromptAfterInterrupt ==
    ShellAt("prompt") /\ status = "interrupted" => Pending("question") = {}

\* An error of the governor never ends the shell: the one of resolveApproval does, when another
\* front end has decided.
NeverThrown == ~ShellAt("thrown")
=============================================================================
