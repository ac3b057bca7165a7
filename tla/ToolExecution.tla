----------------------------- MODULE ToolExecution -----------------------------
(***************************************************************************)
(* The side-effect plane of one session: ToolRuntime.executeResolvedTool   *)
(* and resolveApproval, PermissionLayer.evaluate, and the two durable      *)
(* stores they share, approval-state.json and the tool-execution journal.  *)
(*                                                                         *)
(* A task is one asynchronous invocation (of executeTool or of             *)
(* resolveApproval) inside an operating-system process.  Tasks of one      *)
(* process interleave at every await; tasks of different processes share   *)
(* only the files.  Every action below is the code between two awaits that *)
(* touch shared state.  The approval-state lock makes each claim, save and *)
(* consume of a grant one step.                                            *)
(***************************************************************************)
EXTENDS Naturals, FiniteSets

CONSTANTS
    Process,        \* runtime processes over one workspace (CLI, Desktop)
    ModeOf,         \* the permission mode each process was started in
    Task,           \* concurrent invocations
    ProcessOf,      \* the process a task runs in
    Call,           \* tool-call identities
    Key,            \* approval request keys (HMAC of tool and arguments)
    KeyOf,          \* the request key of a call; equal for identical requests
    EffectOf,       \* the permission class of a call
    External,       \* calls whose access requests name an external system
    MaxApprovals,   \* bound: pending approvals ever recorded
    MaxConsents     \* bound: user decisions ever saved

Mode == {"plan", "auto", "danger"}
Effect == {"read_only", "verification", "low", "high"}
Decision == {"allow_once", "allow_session", "deny"}
ApprovalId == 1..MaxApprovals
ConsentId == 1..MaxConsents
None == 0
AnyCall == CHOOSE c \in Call : TRUE

ASSUME ToolExecutionAssumption ==
    /\ ModeOf \in [Process -> Mode]
    /\ ProcessOf \in [Task -> Process]
    /\ KeyOf \in [Call -> Key]
    /\ EffectOf \in [Call -> Effect]
    /\ External \subseteq Call
    /\ MaxApprovals \in Nat
    /\ MaxConsents \in Nat
    /\ Call # {}
    /\ Key # {}

VARIABLES
    pc,          \* where a task stands between two awaits
    call,        \* the call a task executes
    claimed,     \* the consent a task claimed when it was evaluated, or None
    owns,        \* ownsExecutionJournal of a task
    target,      \* the approval a task resolves, or None
    journal,     \* tool-execution journal: status per call identity
    stored,      \* approval-state.json: the consent stored per request key
    approvals,   \* the approval records that were once pending
    approvalCount,
    resolving,   \* activeApprovalResolutions of a process
    consents,    \* history: every user decision saved, in order
    consentCount,
    latest,      \* history: the last decision saved for a key
    effects      \* history: times a call's effect was applied (0, 1 or 2+)

localVars == <<pc, call, claimed, owns, target>>
approvalVars == <<approvals, approvalCount, resolving>>
consentVars == <<consents, consentCount, latest>>
vars == <<localVars, journal, stored, approvalVars, consentVars, effects>>

PC == {"idle", "evaluate", "prepare", "execute", "store", "consume",
       "save_grant", "record_resolution"}
Approval == [key: Key, status: {"absent", "pending", "resolved"}, resolutions: 0..2]
Consent == [key: Key, decision: Decision, uses: 0..2]

\* Counting stops at two: one more than any property allows.
AtMostTwo(n) == IF n >= 2 THEN 2 ELSE n + 1

TypeOK ==
    /\ pc \in [Task -> PC]
    /\ call \in [Task -> Call]
    /\ claimed \in [Task -> ConsentId \cup {None}]
    /\ owns \in [Task -> BOOLEAN]
    /\ target \in [Task -> ApprovalId \cup {None}]
    /\ journal \in [Call -> {"none", "started", "completed"}]
    /\ stored \in [Key -> ConsentId \cup {None}]
    /\ approvals \in [ApprovalId -> Approval]
    /\ approvalCount \in 0..MaxApprovals
    /\ resolving \in [Process -> SUBSET ApprovalId]
    /\ consents \in [ConsentId -> Consent]
    /\ consentCount \in 0..MaxConsents
    /\ latest \in [Key -> ConsentId \cup {None}]
    /\ effects \in [Call -> 0..2]
    /\ \A t \in Task : pc[t] \in {"save_grant", "record_resolution"} => target[t] \in ApprovalId

Init ==
    /\ pc = [t \in Task |-> "idle"]
    /\ call = [t \in Task |-> AnyCall]
    /\ claimed = [t \in Task |-> None]
    /\ owns = [t \in Task |-> TRUE]
    /\ target = [t \in Task |-> None]
    /\ journal = [c \in Call |-> "none"]
    /\ stored = [k \in Key |-> None]
    /\ approvals = [a \in ApprovalId |->
                      [key |-> CHOOSE k \in Key : TRUE, status |-> "absent", resolutions |-> 0]]
    /\ approvalCount = 0
    /\ resolving = [p \in Process |-> {}]
    /\ consents = [i \in ConsentId |->
                     [key |-> CHOOSE k \in Key : TRUE, decision |-> "deny", uses |-> 0]]
    /\ consentCount = 0
    /\ latest = [k \in Key |-> None]
    /\ effects = [c \in Call |-> 0]

-----------------------------------------------------------------------------
\* Executing a call

TaskKey(t) == KeyOf[call[t]]
TaskMode(t) == ModeOf[ProcessOf[t]]

\* The state of a task that has returned or thrown.
Return(t) ==
    /\ call' = [call EXCEPT ![t] = AnyCall]
    /\ pc' = [pc EXCEPT ![t] = "idle"]
    /\ claimed' = [claimed EXCEPT ![t] = None]
    /\ owns' = [owns EXCEPT ![t] = TRUE]
    /\ target' = [target EXCEPT ![t] = None]

Advance(t, to) == pc' = [pc EXCEPT ![t] = to]

\* executeTool, up to the journal lookup: only a call with no recorded execution goes on.
Start(t, c) ==
    /\ pc[t] = "idle"
    /\ journal[c] = "none"
    /\ call' = [call EXCEPT ![t] = c]
    /\ Advance(t, "evaluate")
    /\ UNCHANGED <<claimed, owns, target, journal, stored, approvalVars, consentVars, effects>>

\* A completed call is answered from the journal and a started one is refused: neither
\* touches the state again.
AnswerFromJournal(t, c) ==
    /\ pc[t] = "idle"
    /\ journal[c] # "none"
    /\ UNCHANGED vars

\* Arguments, availability, access resolution or an access guard fail: an audited failure.
PreflightFails(t) ==
    /\ pc[t] = "evaluate"
    /\ Return(t)
    /\ UNCHANGED <<journal, stored, approvalVars, consentVars, effects>>

\* Mutant: the claim reads the grant and leaves removing it to the end of the call.
ClaimWithoutRemoval(k) == stored' = stored

\* claimApprovalGrant: an allow_once grant is removed by the read that finds it.
ClaimGrant(k) ==
    stored' = IF stored[k] # None /\ consents[stored[k]].decision = "allow_once"
              THEN [stored EXCEPT ![k] = None]
              ELSE stored

DeniedByPlan(t) == TaskMode(t) = "plan" /\ EffectOf[call[t]] # "read_only"

\* Mutant: auto mode stops asking for high-risk calls.
AllowedByModeTooMuch(t) == TaskMode(t) \in {"danger", "auto"}

AllowedByMode(t) ==
    \/ TaskMode(t) = "danger"
    \/ EffectOf[call[t]] \in {"read_only", "verification"}
    \/ TaskMode(t) = "auto" /\ EffectOf[call[t]] = "low"

\* PermissionLayer.evaluate decides deny: plan mode before any grant is looked at, or a
\* stored denial, which the claim leaves in place.
EvaluateDeny(t) ==
    /\ pc[t] = "evaluate"
    /\ \/ DeniedByPlan(t)
       \/ /\ stored[TaskKey(t)] # None
          /\ consents[stored[TaskKey(t)]].decision = "deny"
    /\ Return(t)
    /\ UNCHANGED <<journal, stored, approvalVars, consentVars, effects>>

\* evaluate decides allow from a stored grant.
EvaluateGranted(t) ==
    /\ pc[t] = "evaluate"
    /\ ~DeniedByPlan(t)
    /\ stored[TaskKey(t)] # None
    /\ consents[stored[TaskKey(t)]].decision # "deny"
    /\ claimed' = [claimed EXCEPT ![t] = stored[TaskKey(t)]]
    /\ ClaimGrant(TaskKey(t))
    /\ Advance(t, "prepare")
    /\ UNCHANGED <<call, owns, target, journal, approvalVars, consentVars, effects>>

\* evaluate finds no grant and the mode allows the call.
EvaluateByMode(t) ==
    /\ pc[t] = "evaluate"
    /\ ~DeniedByPlan(t)
    /\ stored[TaskKey(t)] = None
    /\ AllowedByMode(t)
    /\ Advance(t, "prepare")
    /\ UNCHANGED <<call, claimed, owns, target, journal, stored, approvalVars,
                   consentVars, effects>>

\* evaluate decides ask: a pending approval is recorded and the call throws
\* PermissionRequiredError.
EvaluateAsk(t) ==
    /\ pc[t] = "evaluate"
    /\ ~DeniedByPlan(t)
    /\ stored[TaskKey(t)] = None
    /\ ~AllowedByMode(t)
    /\ approvalCount < MaxApprovals
    /\ approvalCount' = approvalCount + 1
    /\ approvals' = [approvals EXCEPT ![approvalCount + 1] =
                       [key |-> TaskKey(t), status |-> "pending", resolutions |-> 0]]
    /\ Return(t)
    /\ UNCHANGED <<journal, stored, resolving, consentVars, effects>>

\* Mutant: the intent is an ordinary overwriting write.
RecordIntentOverwriting(t) ==
    /\ pc[t] = "prepare"
    /\ call[t] \in External
    /\ journal' = [journal EXCEPT ![call[t]] = "started"]
    /\ Advance(t, "execute")
    /\ UNCHANGED <<call, claimed, owns, target, stored, approvalVars, consentVars, effects>>

\* recordToolExecutionIntent publishes the "started" entry with an exclusive link: the
\* first publisher executes, any other gives up its ownership of the entry.
RecordIntent(t) ==
    /\ pc[t] = "prepare"
    /\ call[t] \in External
    /\ \/ /\ journal[call[t]] = "none"
          /\ journal' = [journal EXCEPT ![call[t]] = "started"]
          /\ Advance(t, "execute")
          /\ UNCHANGED owns
       \/ /\ journal[call[t]] # "none"
          /\ owns' = [owns EXCEPT ![t] = FALSE]
          /\ Advance(t, "store")
          /\ UNCHANGED journal
    /\ UNCHANGED <<call, claimed, target, stored, approvalVars, consentVars, effects>>

\* A call that touches no external system has no intent.
SkipIntent(t) ==
    /\ pc[t] = "prepare"
    /\ call[t] \notin External
    /\ Advance(t, "execute")
    /\ UNCHANGED <<call, claimed, owns, target, journal, stored, approvalVars,
                   consentVars, effects>>

\* The checkpoint, or the write of the intent itself, fails: the exception path stores a
\* failed result although nothing was executed.
PrepareFails(t) ==
    /\ pc[t] = "prepare"
    /\ Advance(t, "store")
    /\ UNCHANGED <<call, claimed, owns, target, journal, stored, approvalVars,
                   consentVars, effects>>

\* tool.execute: the effect happens, or the tool fails or is aborted before it does.
Execute(t) ==
    /\ pc[t] = "execute"
    /\ \/ /\ effects' = [effects EXCEPT ![call[t]] = AtMostTwo(@)]
          /\ consents' = IF claimed[t] = None THEN consents
                         ELSE [consents EXCEPT ![claimed[t]].uses = AtMostTwo(@)]
       \/ UNCHANGED <<effects, consents>>
    /\ Advance(t, "store")
    /\ UNCHANGED <<call, claimed, owns, target, journal, stored, approvalVars,
                   consentCount, latest>>

\* storeCompletedToolResult, by the owner of the journal entry only; a failed write
\* throws out of the call.
StoreResult(t) ==
    /\ pc[t] = "store"
    /\ \/ /\ journal' = IF owns[t] THEN [journal EXCEPT ![call[t]] = "completed"] ELSE journal
          /\ Advance(t, "consume")
          /\ UNCHANGED <<call, claimed, owns, target>>
       \/ /\ owns[t]
          /\ Return(t)
          /\ UNCHANGED journal
    /\ UNCHANGED <<stored, approvalVars, consentVars, effects>>

\* Mutant: the grant now stored is removed whatever its persistence.
ConsumeAnyGrant(t) ==
    /\ pc[t] = "consume"
    /\ stored' = IF claimed[t] # None THEN [stored EXCEPT ![TaskKey(t)] = None] ELSE stored
    /\ Return(t)
    /\ UNCHANGED <<journal, approvalVars, consentVars, effects>>

\* consumeGrantIfNeeded after the call: whatever allow_once grant is now stored under the
\* key is removed.
ConsumeGrant(t) ==
    /\ pc[t] = "consume"
    /\ stored' = IF /\ claimed[t] # None
                    /\ consents[claimed[t]].decision = "allow_once"
                    /\ stored[TaskKey(t)] # None
                    /\ consents[stored[TaskKey(t)]].decision = "allow_once"
                 THEN [stored EXCEPT ![TaskKey(t)] = None]
                 ELSE stored
    /\ Return(t)
    /\ UNCHANGED <<journal, approvalVars, consentVars, effects>>

-----------------------------------------------------------------------------
\* Resolving an approval

\* Mutant: the process does not remember which approvals it is resolving.
BeginResolveUnguarded(t, a) ==
    /\ pc[t] = "idle"
    /\ approvals[a].status = "pending"
    /\ resolving' = [resolving EXCEPT ![ProcessOf[t]] = @ \cup {a}]
    /\ target' = [target EXCEPT ![t] = a]
    /\ Advance(t, "save_grant")
    /\ UNCHANGED <<call, claimed, owns, journal, stored, approvals, approvalCount,
                   consentVars, effects>>

\* resolveApproval: no resolution of the approval is active in this process, and its
\* latest record is pending.
BeginResolve(t, a) ==
    /\ pc[t] = "idle"
    /\ a \notin resolving[ProcessOf[t]]
    /\ approvals[a].status = "pending"
    /\ resolving' = [resolving EXCEPT ![ProcessOf[t]] = @ \cup {a}]
    /\ target' = [target EXCEPT ![t] = a]
    /\ Advance(t, "save_grant")
    /\ UNCHANGED <<call, claimed, owns, journal, stored, approvals, approvalCount,
                   consentVars, effects>>

\* saveApprovalGrant overwrites the grant stored under the request key.
SaveGrant(t, d) ==
    LET k == approvals[target[t]].key
        i == consentCount + 1
    IN
    /\ pc[t] = "save_grant"
    /\ consentCount < MaxConsents
    /\ consents' = [consents EXCEPT ![i] = [key |-> k, decision |-> d, uses |-> 0]]
    /\ consentCount' = i
    /\ latest' = [latest EXCEPT ![k] = i]
    /\ stored' = [stored EXCEPT ![k] = i]
    /\ Advance(t, "record_resolution")
    /\ UNCHANGED <<call, claimed, owns, target, journal, approvalVars, effects>>

\* The "resolved" record is appended after the grant is durable.
RecordResolution(t) ==
    /\ pc[t] = "record_resolution"
    /\ approvals' = [approvals EXCEPT ![target[t]].status = "resolved",
                                      ![target[t]].resolutions = AtMostTwo(@)]
    /\ resolving' = [resolving EXCEPT ![ProcessOf[t]] = @ \ {target[t]}]
    /\ Return(t)
    /\ UNCHANGED <<journal, stored, approvalCount, consentVars, effects>>

\* A process dies and starts again: its tasks and its memory are gone, the files stay.
Crash(p) ==
    /\ \E t \in Task : ProcessOf[t] = p /\ pc[t] # "idle"
    /\ pc' = [t \in Task |-> IF ProcessOf[t] = p THEN "idle" ELSE pc[t]]
    /\ call' = [t \in Task |-> IF ProcessOf[t] = p THEN AnyCall ELSE call[t]]
    /\ claimed' = [t \in Task |-> IF ProcessOf[t] = p THEN None ELSE claimed[t]]
    /\ owns' = [t \in Task |-> IF ProcessOf[t] = p THEN TRUE ELSE owns[t]]
    /\ target' = [t \in Task |-> IF ProcessOf[t] = p THEN None ELSE target[t]]
    /\ resolving' = [resolving EXCEPT ![p] = {}]
    /\ UNCHANGED <<journal, stored, approvals, approvalCount, consentVars, effects>>

ExecuteStep(t) ==
    \/ \E c \in Call : Start(t, c) \/ AnswerFromJournal(t, c)
    \/ PreflightFails(t)
    \/ EvaluateDeny(t)
    \/ EvaluateGranted(t)
    \/ EvaluateByMode(t)
    \/ EvaluateAsk(t)
    \/ RecordIntent(t)
    \/ SkipIntent(t)
    \/ PrepareFails(t)
    \/ Execute(t)
    \/ StoreResult(t)
    \/ ConsumeGrant(t)

ResolveStep(t) ==
    \/ \E a \in ApprovalId : BeginResolve(t, a)
    \/ \E d \in Decision : SaveGrant(t, d)
    \/ RecordResolution(t)

Next ==
    \/ \E t \in Task : ExecuteStep(t) \/ ResolveStep(t)
    \/ \E p \in Process : Crash(p)

Spec == Init /\ [][Next]_vars

-----------------------------------------------------------------------------
\* Properties

\* A call that acts on an external system takes effect at most once, however often and
\* wherever it is executed again: concurrent processes, retries and crashes included.
ExternalAtMostOnce == \A c \in External : effects[c] <= 1

\* An external effect is never unknown to recovery: when it exists, the journal already
\* held an entry for its call.
EffectIsJournaled == \A c \in External : effects[c] > 0 => journal[c] # "none"

\* One allow-once decision of the user authorises at most one execution, even when
\* identical calls are evaluated at the same time in several processes.
OneExecutionPerConsent ==
    \A i \in ConsentId : consents[i].decision = "allow_once" => consents[i].uses <= 1

\* A denial or a session grant stays in force until the user decides again: no call that
\* ends in the meantime takes it away.
DecisionStands ==
    \A k \in Key :
        latest[k] # None /\ consents[latest[k]].decision \in {"deny", "allow_session"}
            => stored[k] = latest[k]

\* Outside danger mode a high-risk effect exists only if the user allowed that request.
EffectsNeedConsent ==
    (\A p \in Process : ModeOf[p] # "danger") =>
        \A c \in Call :
            EffectOf[c] = "high" /\ effects[c] > 0 =>
                \E i \in 1..consentCount : consents[i].key = KeyOf[c] /\ consents[i].decision # "deny"

\* A grant created by a process in auto mode never carries a side effect through a
\* process in plan mode.
PlanNeverActs ==
    \A t \in Task :
        pc[t] \in {"prepare", "execute"} /\ TaskMode(t) = "plan" => EffectOf[call[t]] = "read_only"

\* What an effect needs holds where the effect happens: the user's consent for a high-risk one,
\* and a process that may act at all, whichever process obtained the consent.
ConsentGoverns == EffectsNeedConsent /\ PlanNeverActs

\* An approval is resolved at most once.  It holds when one process resolves approvals,
\* and is lost when two do: activeApprovalResolutions is memory of one process.
ApprovalResolvedOnce == \A a \in ApprovalId : approvals[a].resolutions <= 1

\* A stored grant is removed only by the evaluation that claims it.  The call that ends last
\* breaks this: it consumes once more, and by then a newer grant may be stored.
GrantLeavesByClaim ==
    [][\A k \in Key : stored[k] # None /\ stored'[k] = None =>
          \E t \in Task : claimed[t] # stored[k] /\ claimed'[t] = stored[k]]_vars

\* The journal and the effects of external calls implement the ledger.
LedgerStatus == [none |-> "blank", started |-> "open", completed |-> "closed"]

Ledger == INSTANCE CallLedger WITH
    Call <- External,
    ledger <- [c \in External |-> LedgerStatus[journal[c]]],
    applied <- [c \in External |-> effects[c]]

\* Every behaviour of the tool runtime is, for its external calls, a behaviour of the
\* ledger: recorded before acting, acting at most once, never reopened.
ImplementsLedger == Ledger!Spec
=============================================================================
