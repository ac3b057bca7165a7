--------------------------- MODULE ToolExecution_proofs ---------------------------
(***************************************************************************)
(* Theorems about the side-effect plane, for any processes, tasks, calls,  *)
(* modes and bounds; the last one is about the behaviours of                *)
(* MCToolExecution, whatever its tasks and processes are.                   *)
(***************************************************************************)
EXTENDS MCToolExecution, TLAPS

\* The next-state relation, one disjunct per action.
LEMMA NextCases ==
    ASSUME [Next]_vars,
           NEW P,
           ASSUME NEW t \in Task, ExecuteStep(t) PROVE P,
           ASSUME NEW t \in Task, ResolveStep(t) PROVE P,
           ASSUME NEW p \in Process, Crash(p) PROVE P,
           ASSUME UNCHANGED vars PROVE P
    PROVE  P
BY DEF Next

LEMMA AnyCallIsCall == AnyCall \in Call
BY ToolExecutionAssumption DEF AnyCall

LEMMA BumpStaysSmall == \A n \in 0..2 : AtMostTwo(n) \in 0..2
BY DEF AtMostTwo

\* Counting a use of a consent, or a resolution of an approval, keeps the record's type.
LEMMA BumpUses ==
    ASSUME NEW f \in [ConsentId -> Consent], NEW i \in ConsentId
    PROVE  [f EXCEPT ![i].uses = AtMostTwo(@)] \in [ConsentId -> Consent]
<1>1. f[i] \in Consent
  OBVIOUS
<1>2. AtMostTwo(f[i].uses) \in 0..2
  BY <1>1, BumpStaysSmall DEF Consent
<1>3. [f[i] EXCEPT !.uses = AtMostTwo(@)] \in Consent
  BY <1>1, <1>2 DEF Consent
<1>4. QED
  BY <1>3

LEMMA BumpResolutions ==
    ASSUME NEW f \in [ApprovalId -> Approval], NEW a \in ApprovalId
    PROVE  [f EXCEPT ![a].status = "resolved", ![a].resolutions = AtMostTwo(@)]
               \in [ApprovalId -> Approval]
<1>1. f[a] \in Approval
  OBVIOUS
<1>2. AtMostTwo(f[a].resolutions) \in 0..2
  BY <1>1, BumpStaysSmall DEF Approval
<1>3. [f[a] EXCEPT !.status = "resolved", !.resolutions = AtMostTwo(@)] \in Approval
  BY <1>1, <1>2 DEF Approval
<1>4. QED
  BY <1>3

\* Every variable keeps its type.
THEOREM TypeCorrect == Spec => []TypeOK
<1> USE ToolExecutionAssumption, AnyCallIsCall
<1>1. Init => TypeOK
  BY DEF Init, TypeOK, PC, Approval, Consent, Decision, ApprovalId, ConsentId, None
<1>2. TypeOK /\ [Next]_vars => TypeOK'
  <2> SUFFICES ASSUME TypeOK, [Next]_vars PROVE TypeOK'
    OBVIOUS
  <2> USE DEF TypeOK, PC, ApprovalId, ConsentId, None,
              localVars, approvalVars, consentVars
  <2>1. ASSUME NEW t \in Task, NEW c \in Call, Start(t, c) PROVE TypeOK'
    BY <2>1 DEF Start, Advance
  <2>2. ASSUME NEW t \in Task, PreflightFails(t) PROVE TypeOK'
    BY <2>2 DEF PreflightFails, Return
  <2>3. ASSUME NEW t \in Task, EvaluateDeny(t) PROVE TypeOK'
    BY <2>3 DEF EvaluateDeny, Return
  <2>4. ASSUME NEW t \in Task, EvaluateGranted(t) PROVE TypeOK'
    <3>1. TaskKey(t) \in Key
      BY DEF TaskKey
    <3>2. stored' \in [Key -> ConsentId \cup {None}]
      BY <2>4, <3>1 DEF EvaluateGranted, ClaimGrant
    <3>3. QED
      BY <2>4, <3>1, <3>2 DEF EvaluateGranted, Advance
  <2>5. ASSUME NEW t \in Task, EvaluateByMode(t) PROVE TypeOK'
    BY <2>5 DEF EvaluateByMode, Advance
  <2>6. ASSUME NEW t \in Task, EvaluateAsk(t) PROVE TypeOK'
    <3>1. TaskKey(t) \in Key
      BY DEF TaskKey
    <3>2. approvals' \in [ApprovalId -> Approval] /\ approvalCount' \in 0..MaxApprovals
      BY <2>6, <3>1 DEF EvaluateAsk, Approval
    <3>3. QED
      BY <2>6, <3>2 DEF EvaluateAsk, Return
  <2>7. ASSUME NEW t \in Task, RecordIntent(t) PROVE TypeOK'
    <3>1. journal' \in [Call -> {"none", "started", "completed"}]
      BY <2>7 DEF RecordIntent
    <3>2. owns' \in [Task -> BOOLEAN]
      BY <2>7 DEF RecordIntent
    <3>3. pc' \in [Task -> PC] /\ pc'[t] \in {"execute", "store"}
          /\ \A u \in Task \ {t} : pc'[u] = pc[u]
      BY <2>7 DEF RecordIntent, Advance
    <3>4. UNCHANGED <<call, claimed, target, stored, approvalVars, consentVars, effects>>
      BY <2>7 DEF RecordIntent
    <3>5. QED
      BY <3>1, <3>2, <3>3, <3>4
  <2>8. ASSUME NEW t \in Task, SkipIntent(t) PROVE TypeOK'
    BY <2>8 DEF SkipIntent, Advance
  <2>9. ASSUME NEW t \in Task, PrepareFails(t) PROVE TypeOK'
    BY <2>9 DEF PrepareFails, Advance
  <2>10. ASSUME NEW t \in Task, Execute(t) PROVE TypeOK'
    <3>1. effects' \in [Call -> 0..2]
      <4>1. AtMostTwo(effects[call[t]]) \in 0..2
        BY BumpStaysSmall
      <4>2. QED
        BY <2>10, <4>1 DEF Execute
    <3>2. consents' \in [ConsentId -> Consent]
      <4>1. CASE claimed[t] = None
        BY <2>10, <4>1 DEF Execute
      <4>2. CASE claimed[t] # None
        <5>1. claimed[t] \in ConsentId
          BY <4>2
        <5>2. \/ consents' = consents
              \/ consents' = [consents EXCEPT ![claimed[t]].uses = AtMostTwo(@)]
          BY <2>10, <4>2 DEF Execute
        <5>3. consents \in [ConsentId -> Consent]
          OBVIOUS
        <5>4. [consents EXCEPT ![claimed[t]].uses = AtMostTwo(@)] \in [ConsentId -> Consent]
          BY ONLY <5>1, <5>3, BumpUses
        <5>5. QED
          BY <5>2, <5>3, <5>4
      <4>3. QED
        BY <4>1, <4>2
    <3>3. QED
      BY <2>10, <3>1, <3>2 DEF Execute, Advance
  <2>11. ASSUME NEW t \in Task, StoreResult(t) PROVE TypeOK'
    <3>1. journal' \in [Call -> {"none", "started", "completed"}]
      BY <2>11 DEF StoreResult
    <3>A. Return(t) \/ UNCHANGED <<call, claimed, owns, target>>
      BY <2>11 DEF StoreResult
    <3>2. /\ call' \in [Task -> Call]
          /\ claimed' \in [Task -> ConsentId \cup {None}]
          /\ target' \in [Task -> ApprovalId \cup {None}]
      <4>1. call' \in [Task -> Call]
        BY ONLY <3>A, call \in [Task -> Call], AnyCallIsCall DEF Return
      <4>2. claimed' \in [Task -> ConsentId \cup {None}]
        BY ONLY <3>A, claimed \in [Task -> ConsentId \cup {None}] DEF Return
      <4>3. target' \in [Task -> ApprovalId \cup {None}]
        BY ONLY <3>A, target \in [Task -> ApprovalId \cup {None}] DEF Return
      <4>4. QED
        BY <4>1, <4>2, <4>3
    <3>3. /\ pc' \in [Task -> PC]
          /\ pc'[t] \in {"consume", "idle"}
          /\ \A u \in Task \ {t} : pc'[u] = pc[u] /\ target'[u] = target[u]
      BY <2>11 DEF StoreResult, Advance, Return
    <3>4. UNCHANGED <<stored, approvalVars, consentVars, effects>>
      BY <2>11 DEF StoreResult
    <3>5. owns' = owns \/ owns' = [owns EXCEPT ![t] = TRUE]
      BY <2>11 DEF StoreResult, Return
    <3>6. owns' \in [Task -> BOOLEAN]
      BY <3>5
    <3>7. QED
      BY <3>1, <3>2, <3>3, <3>4, <3>6
  <2>12. ASSUME NEW t \in Task, ConsumeGrant(t) PROVE TypeOK'
    BY <2>12 DEF ConsumeGrant, Return
  <2>13. ASSUME NEW t \in Task, NEW a \in ApprovalId, BeginResolve(t, a) PROVE TypeOK'
    BY <2>13 DEF BeginResolve, Advance
  <2>14. ASSUME NEW t \in Task, NEW d \in Decision, SaveGrant(t, d) PROVE TypeOK'
    <3>1. target[t] \in ApprovalId /\ approvals[target[t]].key \in Key
      BY <2>14 DEF SaveGrant, Approval
    <3>2. consentCount + 1 \in ConsentId
      BY <2>14 DEF SaveGrant
    <3>3. QED
      BY <2>14, <3>1, <3>2 DEF SaveGrant, Advance, Consent
  <2>15. ASSUME NEW t \in Task, RecordResolution(t) PROVE TypeOK'
    <3>1. approvals' \in [ApprovalId -> Approval]
      BY <2>15, BumpResolutions DEF RecordResolution
    <3>2. QED
      BY <2>15, <3>1 DEF RecordResolution, Return
  <2>16. ASSUME NEW p \in Process, Crash(p) PROVE TypeOK'
    BY <2>16 DEF Crash
  <2>17. CASE UNCHANGED vars
    BY <2>17 DEF vars
  <2>18. QED
    BY <2>1, <2>2, <2>3, <2>4, <2>5, <2>6, <2>7, <2>8, <2>9, <2>10, <2>11, <2>12,
       <2>13, <2>14, <2>15, <2>16, <2>17 DEF Next, ExecuteStep, ResolveStep, AnswerFromJournal
<1>3. QED
  BY <1>1, <1>2, PTL DEF Spec

-----------------------------------------------------------------------------
\* External calls

Executing(t, c) == pc[t] = "execute" /\ call[t] = c

\* Why an external call acts once.  The exclusive link lets one task past the intent, so
\* a task that executes the call is alone, follows the journal entry and precedes the effect.
ClaimInv ==
    /\ \A c \in External : \A t \in Task :
          Executing(t, c) => journal[c] # "none" /\ effects[c] = 0
    /\ \A c \in External : \A t, u \in Task : Executing(t, c) /\ Executing(u, c) => t = u
    /\ \A c \in External : effects[c] <= 1 /\ (effects[c] > 0 => journal[c] # "none")

LEMMA ClaimInvInductive == TypeOK /\ ClaimInv /\ [Next]_vars => ClaimInv'
<1> SUFFICES ASSUME TypeOK, ClaimInv, [Next]_vars PROVE ClaimInv'
  OBVIOUS
<1> USE ToolExecutionAssumption, AnyCallIsCall DEF TypeOK, ClaimInv, Executing
<1>1. ASSUME NEW t \in Task,
             \/ PreflightFails(t) \/ EvaluateDeny(t) \/ EvaluateGranted(t) \/ EvaluateByMode(t)
             \/ EvaluateAsk(t) \/ PrepareFails(t) \/ ConsumeGrant(t)
             \/ (\E c \in Call : Start(t, c) \/ AnswerFromJournal(t, c))
             \/ ResolveStep(t)
      PROVE  ClaimInv'
  <2>1. UNCHANGED <<journal, effects>>
    BY <1>1 DEF PreflightFails, EvaluateDeny, EvaluateGranted, EvaluateByMode, EvaluateAsk,
         PrepareFails, ConsumeGrant, Start, AnswerFromJournal, ResolveStep, BeginResolve,
         SaveGrant, RecordResolution, vars
  <2>A. \E to \in PC \ {"execute"} :
           \/ UNCHANGED <<pc, call>>
           \/ Return(t)
           \/ pc' = [pc EXCEPT ![t] = to] /\ \E c \in Call : call' \in {call, [call EXCEPT ![t] = c]}
    BY <1>1 DEF PreflightFails, EvaluateDeny, EvaluateGranted, EvaluateByMode, EvaluateAsk,
         PrepareFails, ConsumeGrant, Start, AnswerFromJournal, ResolveStep, BeginResolve,
         SaveGrant, RecordResolution, vars, localVars, Advance, PC
  <2>2. \/ pc' = pc /\ call' = call
        \/ /\ pc'[t] # "execute"
           /\ \A u \in Task \ {t} : pc'[u] = pc[u] /\ call'[u] = call[u]
    BY <2>A DEF Return
  <2>3. QED
    BY <2>1, <2>2
<1>2. ASSUME NEW t \in Task, RecordIntent(t) PROVE ClaimInv'
  <2>1. CASE journal[call[t]] = "none"
    <3>1. /\ journal' = [journal EXCEPT ![call[t]] = "started"]
          /\ pc' = [pc EXCEPT ![t] = "execute"]
          /\ UNCHANGED <<call, effects>>
      BY <1>2, <2>1 DEF RecordIntent, Advance
    <3>2. effects[call[t]] = 0 /\ \A u \in Task : ~Executing(u, call[t])
      BY <1>2, <2>1 DEF RecordIntent
    <3>3. QED
      BY <3>1, <3>2
  <2>2. CASE journal[call[t]] # "none"
    <3>1. /\ pc' = [pc EXCEPT ![t] = "store"]
          /\ UNCHANGED <<call, journal, effects>>
      BY <1>2, <2>2 DEF RecordIntent, Advance
    <3>2. \A u \in Task : \A c \in External : Executing(u, c)' => Executing(u, c)
      BY <3>1
    <3>3. QED
      BY <3>1, <3>2
  <2>3. QED
    BY <2>1, <2>2
<1>3. ASSUME NEW t \in Task, SkipIntent(t) PROVE ClaimInv'
  BY <1>3 DEF SkipIntent, Advance
<1>4. ASSUME NEW t \in Task, Execute(t) PROVE ClaimInv'
  <2>1. pc' = [pc EXCEPT ![t] = "store"] /\ UNCHANGED <<call, journal>>
    BY <1>4 DEF Execute, Advance
  <2>2. pc[t] = "execute" /\ (effects' = effects \/ effects' = [effects EXCEPT ![call[t]] = AtMostTwo(@)])
    BY <1>4 DEF Execute
  <2>3. QED
    BY <2>1, <2>2 DEF AtMostTwo
<1>5. ASSUME NEW t \in Task, StoreResult(t) PROVE ClaimInv'
  <2>1. /\ pc'[t] # "execute"
        /\ \A u \in Task \ {t} : pc'[u] = pc[u] /\ call'[u] = call[u]
    BY <1>5 DEF StoreResult, Advance, Return
  <2>2. /\ effects' = effects
        /\ \A c \in Call : journal'[c] = journal[c] \/ journal'[c] = "completed"
    BY <1>5 DEF StoreResult
  <2>3. QED
    BY <2>1, <2>2
<1>6. ASSUME NEW p \in Process, Crash(p) PROVE ClaimInv'
  BY <1>6 DEF Crash
<1>7. CASE UNCHANGED vars
  BY <1>7 DEF vars, localVars
<1>8. QED
  BY <1>1, <1>2, <1>3, <1>4, <1>5, <1>6, <1>7 DEF Next, ExecuteStep

LEMMA ClaimInvHolds == Spec => []ClaimInv
<1>1. Init => ClaimInv
  BY ToolExecutionAssumption DEF Init, ClaimInv, Executing
<1>2. QED
  BY <1>1, ClaimInvInductive, TypeCorrect, PTL DEF Spec

\* executeResolvedTool acts on an external system at most once per call identity.
THEOREM AtMostOnce == Spec => []ExternalAtMostOnce
<1>1. ClaimInv => ExternalAtMostOnce
  BY DEF ClaimInv, ExternalAtMostOnce
<1>2. QED
  BY <1>1, ClaimInvHolds, PTL

\* The journal entry precedes the effect.
THEOREM JournaledFirst == Spec => []EffectIsJournaled
<1>1. ClaimInv => EffectIsJournaled
  BY DEF ClaimInv, EffectIsJournaled
<1>2. QED
  BY <1>1, ClaimInvHolds, PTL

-----------------------------------------------------------------------------
\* The ledger

\* Ledger entries and counters of external calls, step by step.
LEMMA LedgerStep == TypeOK /\ ClaimInv /\ [Next]_vars => [Ledger!Next]_Ledger!vars
<1> SUFFICES ASSUME TypeOK, ClaimInv, [Next]_vars PROVE [Ledger!Next]_Ledger!vars
  OBVIOUS
<1> USE ToolExecutionAssumption DEF TypeOK, Ledger!vars
<1>1. ASSUME UNCHANGED <<journal, effects>> PROVE UNCHANGED Ledger!vars
  BY <1>1
<1>2. ASSUME NEW t \in Task, RecordIntent(t) PROVE [Ledger!Next]_Ledger!vars
  <2>1. CASE journal[call[t]] = "none"
    <3>1. call[t] \in External /\ effects' = effects
          /\ journal' = [journal EXCEPT ![call[t]] = "started"]
      BY <1>2, <2>1 DEF RecordIntent
    <3>2. PICK c \in External : c = call[t]
      BY <3>1
    <3>3. /\ LedgerStatus[journal[c]] = "blank"
          /\ \A d \in External : LedgerStatus[journal'[d]] =
                                   IF d = c THEN "open" ELSE LedgerStatus[journal[d]]
      BY <2>1, <3>1, <3>2 DEF LedgerStatus
    <3>A. effects' = effects
      BY <3>1
    <3>4. Ledger!Open(c)
      BY ONLY <3>A, <3>3 DEF Ledger!Open
    <3>5. QED
      BY <3>4 DEF Ledger!Next
  <2>2. CASE journal[call[t]] # "none"
    BY <1>1, <1>2, <2>2 DEF RecordIntent
  <2>3. QED
    BY <2>1, <2>2
<1>3. ASSUME NEW t \in Task, Execute(t) PROVE [Ledger!Next]_Ledger!vars
  <2>1. CASE effects' = effects
    BY <1>1, <1>3, <2>1 DEF Execute
  <2>2. CASE effects' # effects
    <3>1. effects' = [effects EXCEPT ![call[t]] = AtMostTwo(@)] /\ journal' = journal
      BY <1>3, <2>2 DEF Execute
    <3>2. CASE call[t] \notin External
      BY <1>1, <3>1, <3>2
    <3>3. CASE call[t] \in External
      <4>1. effects[call[t]] = 0 /\ journal[call[t]] \in {"started", "completed"}
        BY <1>3, <3>3 DEF Execute, ClaimInv, Executing
      <4>2. effects' = [effects EXCEPT ![call[t]] = 1]
        BY <3>1, <4>1 DEF AtMostTwo
      <4>3. PICK c \in External : c = call[t]
        BY <3>3
      <4>4. LedgerStatus[journal[c]] # "blank"
        BY <4>1, <4>3 DEF LedgerStatus
      <4>5. \A d \in External : effects'[d] = IF d = c THEN 1 ELSE effects[d]
        BY <4>2, <4>3
      <4>A. journal' = journal /\ effects[c] = 0
        BY <3>1, <4>1, <4>3
      <4>6. Ledger!Act(c)
        BY ONLY <4>A, <4>4, <4>5 DEF Ledger!Act
      <4>7. QED
        BY <4>6 DEF Ledger!Next
    <3>4. QED
      BY <3>2, <3>3
  <2>3. QED
    BY <2>1, <2>2
<1>4. ASSUME NEW t \in Task, StoreResult(t) PROVE [Ledger!Next]_Ledger!vars
  <2>1. effects' = effects
        /\ (journal' = journal \/ journal' = [journal EXCEPT ![call[t]] = "completed"])
    BY <1>4 DEF StoreResult
  <2>2. CASE journal' = journal
    BY <1>1, <2>1, <2>2
  <2>3. CASE journal' = [journal EXCEPT ![call[t]] = "completed"]
    <3>1. CASE call[t] \notin External
      BY <2>1, <2>3, <3>1
    <3>2. CASE call[t] \in External
      <4>1. PICK c \in External : c = call[t]
        BY <3>2
      <4>2. Ledger!Close(c)
        BY <2>1, <2>3, <4>1 DEF Ledger!Close, LedgerStatus
      <4>3. QED
        BY <4>2 DEF Ledger!Next
    <3>3. QED
      BY <3>1, <3>2
  <2>4. QED
    BY <2>1, <2>2, <2>3
<1>5. ASSUME NEW t \in Task,
             \/ PreflightFails(t) \/ EvaluateDeny(t) \/ EvaluateGranted(t) \/ EvaluateByMode(t)
             \/ EvaluateAsk(t) \/ PrepareFails(t) \/ SkipIntent(t) \/ ConsumeGrant(t)
             \/ (\E c \in Call : Start(t, c) \/ AnswerFromJournal(t, c))
             \/ ResolveStep(t)
      PROVE  UNCHANGED <<journal, effects>>
  BY <1>5 DEF PreflightFails, EvaluateDeny, EvaluateGranted, EvaluateByMode, EvaluateAsk,
       PrepareFails, SkipIntent, ConsumeGrant, Start, AnswerFromJournal, ResolveStep,
       BeginResolve, SaveGrant, RecordResolution, vars
<1>6. ASSUME NEW p \in Process, Crash(p) PROVE UNCHANGED <<journal, effects>>
  BY <1>6 DEF Crash
<1>7. ASSUME UNCHANGED vars PROVE UNCHANGED <<journal, effects>>
  BY <1>7 DEF vars
<1>8. QED
  BY <1>1, <1>2, <1>3, <1>4, <1>5, <1>6, <1>7 DEF Next, ExecuteStep

\* The tool runtime implements the at-most-once ledger for its external calls.
THEOREM RefinesLedger == Spec => ImplementsLedger
<1>1. Init => Ledger!Init
  BY ToolExecutionAssumption DEF Init, Ledger!Init, LedgerStatus
<1>2. QED
  BY <1>1, LedgerStep, TypeCorrect, ClaimInvHolds, PTL DEF Spec, ImplementsLedger, Ledger!Spec

-----------------------------------------------------------------------------
\* Grants

Once(i) == consents[i].decision = "allow_once"
InUse(t) == pc[t] \in {"prepare", "execute"}

\* Why an allow-once decision is used once: it is in one place, the store or one task, and
\* it is unused as long as it is in the store or its task has not executed.
ConsentInv ==
    /\ \A t \in Task : pc[t] \in {"idle", "evaluate"} => claimed[t] = None
    /\ \A t \in Task : claimed[t] <= consentCount
    /\ \A k \in Key : stored[k] <= consentCount /\ latest[k] <= consentCount
    /\ \A k \in Key : stored[k] # None => consents[stored[k]].key = k
    /\ \A t, u \in Task : claimed[t] # None /\ claimed[t] = claimed[u] /\ Once(claimed[t]) => t = u
    /\ \A t \in Task, k \in Key : stored[k] # None /\ stored[k] = claimed[t] => ~Once(stored[k])
    /\ \A k \in Key : stored[k] # None /\ Once(stored[k]) => consents[stored[k]].uses = 0
    /\ \A t \in Task : InUse(t) /\ claimed[t] # None /\ Once(claimed[t]) => consents[claimed[t]].uses = 0
    /\ \A i \in ConsentId : Once(i) => consents[i].uses <= 1

\* A step that leaves the stores alone, and lets a task keep or drop what it claimed.
Quiet ==
    /\ UNCHANGED <<stored, consentVars>>
    /\ \A t \in Task :
          /\ claimed'[t] = None \/ claimed'[t] = claimed[t]
          /\ pc'[t] \in {"idle", "evaluate"} => claimed'[t] = None
          /\ pc'[t] \in {"prepare", "execute"} /\ claimed'[t] # None => InUse(t)

LEMMA QuietPreserves ==
    ASSUME TypeOK, ConsentInv, DecisionStands, Quiet
    PROVE  ConsentInv' /\ DecisionStands'
<1>1. DecisionStands'
  BY DEF Quiet, consentVars, DecisionStands
<1>2. ConsentInv'
  BY DEF Quiet, consentVars, ConsentInv, TypeOK, None, Once, InUse
<1>3. QED
  BY <1>1, <1>2

LEMMA QuietSteps ==
    ASSUME TypeOK, ConsentInv, NEW t \in Task,
           \/ PreflightFails(t) \/ EvaluateDeny(t) \/ EvaluateByMode(t) \/ EvaluateAsk(t)
           \/ RecordIntent(t) \/ SkipIntent(t) \/ PrepareFails(t) \/ StoreResult(t)
           \/ (\E c \in Call : Start(t, c) \/ AnswerFromJournal(t, c))
           \/ (\E a \in ApprovalId : BeginResolve(t, a))
           \/ RecordResolution(t)
    PROVE  Quiet
<1>1. UNCHANGED <<stored, consentVars>>
  BY DEF PreflightFails, EvaluateDeny, EvaluateByMode, EvaluateAsk, RecordIntent, SkipIntent,
     PrepareFails, StoreResult, Start, AnswerFromJournal, BeginResolve, RecordResolution,
     vars, consentVars
<1>2. \/ Return(t)
      \/ UNCHANGED <<pc, claimed>>
      \/ /\ claimed' = claimed
         /\ \/ claimed[t] = None
            \/ pc[t] = "prepare" /\ pc'[t] \in {"execute", "store"}
            \/ pc'[t] \notin {"idle", "evaluate", "prepare", "execute"}
         /\ \E to \in PC : pc' = [pc EXCEPT ![t] = to]
  BY DEF PreflightFails, EvaluateDeny, EvaluateByMode, EvaluateAsk, RecordIntent, SkipIntent,
     PrepareFails, StoreResult, Start, AnswerFromJournal, BeginResolve, RecordResolution,
     vars, localVars, Advance, PC, TypeOK, ConsentInv
<1>3. QED
  BY <1>1, <1>2 DEF Quiet, Return, TypeOK, PC, InUse, None, ConsentInv

LEMMA ConsentInvInductive ==
    TypeOK /\ ConsentInv /\ DecisionStands /\ [Next]_vars => ConsentInv' /\ DecisionStands'
<1> SUFFICES ASSUME TypeOK, ConsentInv, DecisionStands, [Next]_vars
             PROVE  ConsentInv' /\ DecisionStands'
  OBVIOUS
<1> USE ToolExecutionAssumption
<1>1. ASSUME NEW t \in Task, EvaluateGranted(t) PROVE ConsentInv' /\ DecisionStands'
  <2> DEFINE k == TaskKey(t)
             g == stored[k]
  <2>1. /\ k \in Key /\ g \in ConsentId /\ g # None /\ g <= consentCount
        /\ claimed' = [claimed EXCEPT ![t] = g]
        /\ pc' = [pc EXCEPT ![t] = "prepare"]
        /\ UNCHANGED consentVars
    BY <1>1 DEF EvaluateGranted, Advance, TypeOK, TaskKey, ConsentInv
  <2>2. stored' = IF Once(g) THEN [stored EXCEPT ![k] = None] ELSE stored
    BY <1>1, <2>1 DEF EvaluateGranted, ClaimGrant, Once
  <2>3. DecisionStands'
    BY <2>1, <2>2 DEF DecisionStands, Once, consentVars, TypeOK
  <2>4. ConsentInv'
    <3> HIDE DEF k, g
    <3>1. Once(g) => consents[g].uses = 0 /\ \A u \in Task : claimed[u] # g
      BY <2>1 DEF ConsentInv, g
    <3>2. consents[g].key = k /\ \A j \in Key : stored[j] = g => j = k
      BY <2>1 DEF ConsentInv, g
    <3>3. QED
      BY <2>1, <2>2, <3>1, <3>2 DEF ConsentInv, Once, InUse, consentVars, TypeOK, None
  <2>5. QED
    BY <2>3, <2>4
<1>2. ASSUME NEW t \in Task, Execute(t) PROVE ConsentInv' /\ DecisionStands'
  <2>1. /\ pc[t] = "execute"
        /\ pc' = [pc EXCEPT ![t] = "store"]
        /\ UNCHANGED <<claimed, stored, consentCount, latest>>
    BY <1>2 DEF Execute, Advance
  <2>2. \A i \in ConsentId :
          /\ consents'[i].key = consents[i].key
          /\ consents'[i].decision = consents[i].decision
          /\ \/ consents'[i].uses = consents[i].uses
             \/ i = claimed[t] /\ consents'[i].uses = AtMostTwo(consents[i].uses)
    BY <1>2 DEF Execute, TypeOK, Consent
  <2>3. DecisionStands'
    BY <2>1, <2>2 DEF DecisionStands, TypeOK
  <2>4. ConsentInv'
    <3>1. \A i \in ConsentId : Once(i)' <=> Once(i)
      BY <2>2 DEF Once
    <3>2. \A u \in Task : InUse(u)' => InUse(u) /\ u # t
      BY <2>1 DEF InUse, TypeOK
    <3>3. claimed[t] # None /\ Once(claimed[t]) =>
            /\ consents[claimed[t]].uses = 0
            /\ \A u \in Task : u # t => claimed[u] # claimed[t]
            /\ \A k \in Key : stored[k] # claimed[t]
      BY <2>1 DEF ConsentInv, InUse, None, TypeOK
    <3>4. \A i \in ConsentId : Once(i) /\ i # claimed[t] => consents'[i].uses = consents[i].uses
      BY <2>2
    <3>5. claimed[t] # None /\ Once(claimed[t]) => consents'[claimed[t]].uses <= 1
      <4>1. SUFFICES ASSUME claimed[t] # None, Once(claimed[t])
                     PROVE  consents'[claimed[t]].uses <= 1
        OBVIOUS
      <4>2. claimed[t] \in ConsentId /\ consents[claimed[t]].uses = 0
        BY <3>3, <4>1 DEF TypeOK
      <4>3. AtMostTwo(0) = 1
        BY DEF AtMostTwo
      <4>4. QED
        BY <2>2, <4>2, <4>3
    <3>6. \A k \in Key : stored[k] # None /\ Once(stored[k])' => consents'[stored[k]].uses = 0
      BY <2>1, <2>2, <3>3 DEF ConsentInv, TypeOK, Once
    <3>7. \A u \in Task : InUse(u)' /\ claimed[u] # None /\ Once(claimed[u])' =>
             consents'[claimed[u]].uses = 0
      BY <2>1, <2>2, <3>2, <3>3 DEF ConsentInv, TypeOK, Once
    <3>8. \A i \in ConsentId : Once(i)' => consents'[i].uses <= 1
      BY <3>1, <3>4, <3>5 DEF ConsentInv, ConsentId, None
    <3>9. /\ \A u \in Task : pc'[u] \in {"idle", "evaluate"} => claimed[u] = None
          /\ \A k \in Key : stored[k] # None => consents'[stored[k]].key = k
      BY <2>1, <2>2 DEF ConsentInv, TypeOK
    <3>10. QED
      BY <2>1, <3>1, <3>6, <3>7, <3>8, <3>9 DEF ConsentInv, TypeOK, Once
  <2>5. QED
    BY <2>3, <2>4
<1>3. ASSUME NEW t \in Task, ConsumeGrant(t) PROVE ConsentInv' /\ DecisionStands'
  <2>1. UNCHANGED consentVars /\ Return(t) /\ pc[t] = "consume"
    BY <1>3 DEF ConsumeGrant
  <2>2. \/ stored' = stored
        \/ /\ stored[TaskKey(t)] # None /\ Once(stored[TaskKey(t)])
           /\ stored' = [stored EXCEPT ![TaskKey(t)] = None]
    BY <1>3 DEF ConsumeGrant, Once
  <2>3. DecisionStands'
    BY <2>1, <2>2 DEF DecisionStands, Once, consentVars, TypeOK
  <2>4. ConsentInv'
    <3>1. \A k \in Key : stored'[k] = None \/ stored'[k] = stored[k]
      BY <2>2 DEF TypeOK
    <3>2. \A u \in Task : /\ claimed'[u] = None \/ claimed'[u] = claimed[u]
                          /\ pc'[u] \in {"idle", "evaluate"} => claimed'[u] = None
                          /\ InUse(u)' => InUse(u)
      BY <2>1 DEF Return, TypeOK, InUse, ConsentInv
    <3>3. UNCHANGED <<consents, consentCount, latest>>
      BY <2>1 DEF consentVars
    <3>4. \A k \in Key : stored'[k] # None =>
            /\ stored[k] # None /\ stored'[k] = stored[k]
            /\ consents[stored[k]].key = k
            /\ Once(stored[k]) => consents[stored[k]].uses = 0
            /\ \A u \in Task : stored[k] = claimed[u] => ~Once(stored[k])
      BY <3>1 DEF ConsentInv
    <3>5. \A u \in Task : claimed'[u] # None =>
            /\ claimed[u] # None /\ claimed'[u] = claimed[u]
            /\ InUse(u)' /\ Once(claimed[u]) => consents[claimed[u]].uses = 0
      BY <3>2 DEF ConsentInv
    <3>6. \A u, v \in Task :
            claimed'[u] # None /\ claimed'[u] = claimed'[v] /\ Once(claimed[u]) => u = v
      BY <3>2 DEF ConsentInv
    <3>7. /\ \A u \in Task : claimed'[u] <= consentCount
          /\ \A k \in Key : stored'[k] <= consentCount /\ latest[k] <= consentCount
      <4>1. consentCount \in Nat /\ consentCount >= None
        BY DEF TypeOK, None
      <4>2. QED
        BY <3>1, <3>2, <4>1 DEF ConsentInv
    <3>8. \A i \in ConsentId : Once(i) => consents[i].uses <= 1
      BY DEF ConsentInv
    <3>9. QED
      BY <3>2, <3>3, <3>4, <3>5, <3>6, <3>7, <3>8 DEF ConsentInv, Once
  <2>5. QED
    BY <2>3, <2>4
<1>4. ASSUME NEW t \in Task, NEW d \in Decision, SaveGrant(t, d)
      PROVE  ConsentInv' /\ DecisionStands'
  <2> DEFINE k == approvals[target[t]].key
             i == consentCount + 1
  <2>1. /\ k \in Key /\ i \in ConsentId /\ i # None
        /\ consents' = [consents EXCEPT ![i] = [key |-> k, decision |-> d, uses |-> 0]]
        /\ consentCount' = i
        /\ latest' = [latest EXCEPT ![k] = i]
        /\ stored' = [stored EXCEPT ![k] = i]
        /\ pc' = [pc EXCEPT ![t] = "record_resolution"]
        /\ claimed' = claimed
    BY <1>4 DEF SaveGrant, Advance, TypeOK, ConsentId, ApprovalId, Approval, None
  <2> HIDE DEF k
  <2>2. /\ \A u \in Task : claimed[u] # i
        /\ \A j \in Key : stored[j] # i /\ latest[j] # i
    BY DEF ConsentInv, TypeOK, ConsentId, None
  <2>3. /\ consents'[i] = [key |-> k, decision |-> d, uses |-> 0]
        /\ \A j \in ConsentId : j # i => consents'[j] = consents[j]
    BY <2>1 DEF TypeOK
  <2> HIDE DEF i
  <2>4. DecisionStands'
    BY <2>1, <2>2, <2>3 DEF DecisionStands, TypeOK, None
  <2>5. consentCount <= i
    BY DEF i, TypeOK
  <2>6. ConsentInv'
    BY <2>1, <2>2, <2>3, <2>5, SMTT(30) DEF ConsentInv, Once, InUse, TypeOK, None, ConsentId
  <2>7. QED
    BY <2>4, <2>6
<1>5. ASSUME NEW p \in Process, Crash(p) PROVE ConsentInv' /\ DecisionStands'
  <2>1. Quiet
    BY <1>5 DEF Crash, Quiet, TypeOK, InUse, ConsentInv, None
  <2>2. QED
    BY <2>1, QuietPreserves
<1>6. ASSUME UNCHANGED vars PROVE ConsentInv' /\ DecisionStands'
  <2>1. Quiet
    BY <1>6 DEF vars, localVars, Quiet, TypeOK, InUse, ConsentInv, None
  <2>2. QED
    BY <2>1, QuietPreserves
<1>7. QED
  BY <1>1, <1>2, <1>3, <1>4, <1>5, <1>6, QuietSteps, QuietPreserves
     DEF Next, ExecuteStep, ResolveStep

LEMMA ConsentInvHolds == Spec => [](ConsentInv /\ DecisionStands)
<1>1. Init => ConsentInv /\ DecisionStands
  BY ToolExecutionAssumption DEF Init, ConsentInv, DecisionStands, Once, InUse, None, ConsentId
<1>2. QED
  BY <1>1, ConsentInvInductive, TypeCorrect, PTL DEF Spec

\* PermissionLayer.evaluate lets one allow-once decision authorise one execution.
THEOREM OnceIsOnce == Spec => []OneExecutionPerConsent
<1>1. ConsentInv => OneExecutionPerConsent
  BY DEF ConsentInv, Once, OneExecutionPerConsent
<1>2. QED
  BY <1>1, ConsentInvHolds, PTL

\* A denial or session grant is only ever replaced by a later decision of the user.
THEOREM DecisionsStand == Spec => []DecisionStands
BY ConsentInvHolds, PTL

-----------------------------------------------------------------------------
\* Consent governs effects

\* A request the user has allowed.
Consented(k) == \E i \in 1..consentCount : consents[i].key = k /\ consents[i].decision # "deny"

Danger == \E p \in Process : ModeOf[p] = "danger"

\* Why an effect was allowed: the task that is about to apply it found a consent, or needed none.
GovernInv ==
    /\ \A t \in Task : InUse(t) => ~DeniedByPlan(t)
    /\ ~Danger => \A t \in Task :
          InUse(t) /\ EffectOf[call[t]] = "high" => Consented(TaskKey(t))
    /\ ~Danger => \A c \in Call : EffectOf[c] = "high" /\ effects[c] > 0 => Consented(KeyOf[c])

\* The user's decisions are never taken back.
LEMMA ConsentsStay ==
    ASSUME TypeOK, [Next]_vars, NEW k \in Key, Consented(k)
    PROVE  Consented(k)'
<1>0. 1..consentCount \subseteq ConsentId /\ consentCount \in Nat
  BY ToolExecutionAssumption DEF TypeOK, ConsentId
<1>1. ASSUME NEW t \in Task, NEW d \in Decision, SaveGrant(t, d) PROVE Consented(k)'
  <2>1. consentCount' = consentCount + 1
    BY <1>1 DEF SaveGrant
  <2>2. \A i \in 1..consentCount : consents'[i] = consents[i]
    BY <1>0, <1>1 DEF SaveGrant, TypeOK
  <2> QED
    BY <1>0, <2>1, <2>2 DEF Consented
<1>2. ASSUME NEW t \in Task, Execute(t) PROVE Consented(k)'
  <2>1. /\ consentCount' = consentCount
        /\ \A i \in ConsentId : /\ consents'[i].key = consents[i].key
                                /\ consents'[i].decision = consents[i].decision
    BY <1>2 DEF Execute, Consent, TypeOK
  <2> QED
    BY <1>0, <2>1 DEF Consented
<1>3. CASE UNCHANGED <<consents, consentCount>>
  BY <1>3 DEF Consented
<1>4. ASSUME NEW t \in Task, ExecuteStep(t) PROVE Consented(k)'
  BY <1>2, <1>3, <1>4
  DEF ExecuteStep, Start, AnswerFromJournal, PreflightFails, EvaluateDeny, EvaluateGranted,
      EvaluateByMode, EvaluateAsk, RecordIntent, SkipIntent, PrepareFails, StoreResult, ConsumeGrant,
      vars, consentVars
<1>5. ASSUME NEW t \in Task, ResolveStep(t) PROVE Consented(k)'
  BY <1>1, <1>3, <1>5 DEF ResolveStep, BeginResolve, RecordResolution, consentVars
<1> QED
  BY <1>3, <1>4, <1>5 DEF Next, Crash, vars, consentVars

\* A task in use stays with its call, or it is the one that was just evaluated.
LEMMA InUseStep ==
    ASSUME TypeOK, [Next]_vars, NEW t \in Task, InUse(t)'
    PROVE  /\ call'[t] = call[t]
           /\ InUse(t) \/ EvaluateGranted(t) \/ EvaluateByMode(t)
<1> USE DEF TypeOK, InUse
<1>1. ASSUME NEW u \in Task, ExecuteStep(u)
      PROVE  call'[t] = call[t] /\ (InUse(t) \/ EvaluateGranted(t) \/ EvaluateByMode(t))
  <2>1. CASE Return(u)
    BY <2>1 DEF Return
  <2>2. CASE \E c \in Call : Start(u, c)
    BY <2>2 DEF Start, Advance
  <2>3. CASE UNCHANGED <<pc, call>>
    BY <2>3
  <2>4. CASE call' = call /\ pc[u] \in {"prepare", "execute"}
             /\ \E to \in PC : pc' = [pc EXCEPT ![u] = to]
    BY <2>4
  <2>5. CASE call' = call /\ pc' = [pc EXCEPT ![u] = "consume"]
    BY <2>5
  <2>6. CASE EvaluateGranted(u) \/ EvaluateByMode(u)
    BY <2>6 DEF EvaluateGranted, EvaluateByMode, Advance
  <2>7. CASE RecordIntent(u) \/ SkipIntent(u) \/ PrepareFails(u) \/ Execute(u)
    BY <2>4, <2>7 DEF RecordIntent, SkipIntent, PrepareFails, Execute, Advance, PC
  <2>8. CASE StoreResult(u)
    BY <2>1, <2>5, <2>8 DEF StoreResult, Advance
  <2>9. CASE PreflightFails(u) \/ EvaluateDeny(u) \/ EvaluateAsk(u) \/ ConsumeGrant(u)
    BY <2>1, <2>9 DEF PreflightFails, EvaluateDeny, EvaluateAsk, ConsumeGrant
  <2>10. CASE \E c \in Call : AnswerFromJournal(u, c)
    BY <2>3, <2>10 DEF AnswerFromJournal, vars, localVars
  <2> QED
    BY <1>1, <2>2, <2>6, <2>7, <2>8, <2>9, <2>10 DEF ExecuteStep
<1>2. ASSUME NEW u \in Task, ResolveStep(u) PROVE call'[t] = call[t] /\ InUse(t)
  BY <1>2 DEF ResolveStep, BeginResolve, SaveGrant, RecordResolution, Return, Advance
<1>3. ASSUME NEW p \in Process, Crash(p) PROVE call'[t] = call[t] /\ InUse(t)
  BY <1>3 DEF Crash
<1>4. CASE UNCHANGED vars
  BY <1>4 DEF vars, localVars
<1> QED
  BY <1>1, <1>2, <1>3, <1>4 DEF Next

\* Only the execution of a call applies its effect.
LEMMA EffectStep ==
    ASSUME TypeOK, [Next]_vars, NEW c \in Call, effects'[c] > 0
    PROVE  effects[c] > 0 \/ \E t \in Task : InUse(t) /\ call[t] = c
<1>1. ASSUME NEW t \in Task, Execute(t)
      PROVE  effects'[c] = effects[c] \/ (InUse(t) /\ call[t] = c)
  BY <1>1 DEF Execute, InUse, TypeOK
<1>2. (\E t \in Task : Execute(t)) \/ effects' = effects
  BY DEF Next, ExecuteStep, Start, AnswerFromJournal, PreflightFails, EvaluateDeny, EvaluateGranted,
      EvaluateByMode, EvaluateAsk, RecordIntent, SkipIntent, PrepareFails, StoreResult, ConsumeGrant,
      ResolveStep, BeginResolve, SaveGrant, RecordResolution, Crash, vars
<1> QED
  BY <1>1, <1>2

LEMMA GovernInvInductive ==
    ASSUME TypeOK, ConsentInv, GovernInv, [Next]_vars
    PROVE  GovernInv'
<1> USE ToolExecutionAssumption
<1>1. ASSUME NEW t \in Task, InUse(t)'
      PROVE  ~DeniedByPlan(t)' /\ (~Danger /\ EffectOf[call'[t]] = "high" => Consented(TaskKey(t))')
  <2>1. call'[t] = call[t] /\ TaskKey(t) \in Key
    BY <1>1, InUseStep DEF TaskKey, TypeOK
  <2>2. /\ DeniedByPlan(t)' <=> DeniedByPlan(t)
        /\ Consented(TaskKey(t))' <=> Consented(KeyOf[call[t]])'
    BY <2>1 DEF DeniedByPlan, TaskMode, TaskKey, Consented
  <2>3. Consented(TaskKey(t)) => Consented(TaskKey(t))'
    BY <2>1, <2>2, ConsentsStay DEF TaskKey
  <2>4. CASE InUse(t)
    BY <2>1, <2>2, <2>3, <2>4 DEF GovernInv
  <2>5. CASE EvaluateGranted(t)
    <3>1. /\ ~DeniedByPlan(t)
          /\ stored[TaskKey(t)] # None /\ consents[stored[TaskKey(t)]].decision # "deny"
      BY <2>5 DEF EvaluateGranted
    <3>2. stored[TaskKey(t)] \in 1..consentCount /\ consents[stored[TaskKey(t)]].key = TaskKey(t)
      BY <2>1, <3>1 DEF ConsentInv, TypeOK, ConsentId
    <3> QED
      BY <2>2, <2>3, <3>1, <3>2 DEF Consented
  <2>6. CASE EvaluateByMode(t)
    <3>1. ~DeniedByPlan(t) /\ (~Danger => EffectOf[call[t]] # "high")
      BY <2>6 DEF EvaluateByMode, AllowedByMode, TaskMode, Danger
    <3> QED
      BY <2>1, <2>2, <3>1
  <2> QED
    BY <1>1, <2>4, <2>5, <2>6, InUseStep
<1>2. ASSUME ~Danger, NEW c \in Call, EffectOf[c] = "high", effects'[c] > 0
      PROVE  Consented(KeyOf[c])'
  <2>1. Consented(KeyOf[c])
    BY <1>2, EffectStep DEF GovernInv, TaskKey
  <2> QED
    BY <2>1, ConsentsStay
<1> QED
  BY <1>1, <1>2 DEF GovernInv

\* Outside danger mode no high-risk effect exists without a decision of the user that allowed its
\* request, and no process in plan mode acts, on whoever's consent: through claims, retries,
\* later decisions and crashes of any processes.
THEOREM EffectsAreConsented == Spec => []ConsentGoverns
<1>1. Init => GovernInv
  BY ToolExecutionAssumption DEF Init, GovernInv, InUse
<1>2. TypeOK /\ ConsentInv /\ GovernInv /\ [Next]_vars => GovernInv'
  BY GovernInvInductive
<1>3. GovernInv => ConsentGoverns
  BY DEF GovernInv, ConsentGoverns, EffectsNeedConsent, PlanNeverActs, Danger, Consented, InUse,
         DeniedByPlan
<1> QED
  BY <1>1, <1>2, <1>3, TypeCorrect, ConsentInvHolds, PTL DEF Spec

-----------------------------------------------------------------------------
\* Resolving an approval once

Resolving(t) == pc[t] \in {"save_grant", "record_resolution"}

\* Why one process resolves an approval once: a task that resolves it holds it in
\* activeApprovalResolutions, alone, and it is pending until that task records the resolution.
ResolveInv ==
    /\ \A t \in Task : Resolving(t) => /\ target[t] \in resolving[ProcessOf[t]]
                                       /\ approvals[target[t]].status = "pending"
    /\ \A t, u \in Task : Resolving(t) /\ Resolving(u) /\ target[t] = target[u] => t = u
    /\ \A a \in ApprovalId : /\ approvals[a].status # "resolved" => approvals[a].resolutions = 0
                             /\ approvals[a].resolutions <= 1
                             /\ a > approvalCount => approvals[a].status = "absent"

\* Executing a call resolves nothing; asking for an approval takes a new record.
LEMMA ExecuteResolvesNothing ==
    ASSUME TypeOK, NEW t \in Task, ExecuteStep(t)
    PROVE  /\ resolving' = resolving
           /\ \A u \in Task : Resolving(u)' => Resolving(u) /\ target'[u] = target[u]
           /\ \/ UNCHANGED <<approvals, approvalCount>>
              \/ /\ approvalCount < MaxApprovals /\ approvalCount' = approvalCount + 1
                 /\ approvals' = [approvals EXCEPT ![approvalCount + 1] =
                                    [key |-> TaskKey(t), status |-> "pending", resolutions |-> 0]]
<1>1. CASE EvaluateAsk(t)
  BY <1>1 DEF EvaluateAsk, Return, TypeOK, Resolving
<1>2. CASE ~EvaluateAsk(t)
  <2>1. UNCHANGED approvalVars
    BY <1>2
    DEF ExecuteStep, Start, AnswerFromJournal, PreflightFails, EvaluateDeny, EvaluateGranted,
        EvaluateByMode, RecordIntent, SkipIntent, PrepareFails, Execute, StoreResult,
        ConsumeGrant, vars
  <2>2. CASE Return(t)
    BY <2>1, <2>2 DEF Return, TypeOK, Resolving, approvalVars
  <2>3. CASE /\ target' = target
             /\ \E to \in {"evaluate", "prepare", "execute", "store", "consume"} :
                   pc' = [pc EXCEPT ![t] = to]
    BY <2>1, <2>3 DEF TypeOK, Resolving, approvalVars
  <2>4. CASE UNCHANGED <<pc, target>>
    BY <2>1, <2>4 DEF Resolving, approvalVars
  <2>5. CASE PreflightFails(t) \/ EvaluateDeny(t) \/ ConsumeGrant(t)
    BY <2>2, <2>5 DEF PreflightFails, EvaluateDeny, ConsumeGrant
  <2>6. CASE StoreResult(t)
    BY <2>2, <2>3, <2>6 DEF StoreResult, Advance
  <2>7. CASE EvaluateGranted(t) \/ EvaluateByMode(t) \/ RecordIntent(t) \/ SkipIntent(t)
             \/ PrepareFails(t) \/ Execute(t)
    BY <2>3, <2>7
    DEF EvaluateGranted, EvaluateByMode, RecordIntent, SkipIntent, PrepareFails, Execute, Advance
  <2>8. CASE \E c \in Call : Start(t, c) \/ AnswerFromJournal(t, c)
    BY <2>3, <2>4, <2>8 DEF Start, AnswerFromJournal, Advance, vars, localVars
  <2> QED
    BY <1>2, <2>5, <2>6, <2>7, <2>8 DEF ExecuteStep
<1> QED
  BY <1>1, <1>2

\* A step keeps that when all who resolve approvals after it are of one process.
LEMMA ResolveInvInductive ==
    ASSUME TypeOK, ResolveInv, [Next]_vars,
           \A t, u \in Task : Resolving(t)' /\ Resolving(u)' => ProcessOf[t] = ProcessOf[u]
    PROVE  ResolveInv'
<1> USE ToolExecutionAssumption
<1>1. /\ pc \in [Task -> PC] /\ target \in [Task -> ApprovalId \cup {None}]
      /\ approvals \in [ApprovalId -> Approval] /\ resolving \in [Process -> SUBSET ApprovalId]
      /\ approvalCount \in Nat /\ \A t \in Task : Resolving(t) => target[t] \in ApprovalId
  BY DEF TypeOK, Resolving
<1>2. ASSUME NEW t \in Task, ExecuteStep(t) PROVE ResolveInv'
  <2>1. CASE UNCHANGED <<approvals, approvalCount>>
    BY <1>2, <2>1, ExecuteResolvesNothing DEF ResolveInv
  <2>2. CASE /\ approvalCount < MaxApprovals /\ approvalCount' = approvalCount + 1
             /\ approvals' = [approvals EXCEPT ![approvalCount + 1] =
                                [key |-> TaskKey(t), status |-> "pending", resolutions |-> 0]]
    <3>1. approvalCount + 1 \in ApprovalId /\ approvals[approvalCount + 1].status = "absent"
      BY <1>1, <2>2 DEF ResolveInv, ApprovalId
    <3>2. /\ approvals'[approvalCount + 1].status = "pending"
          /\ approvals'[approvalCount + 1].resolutions = 0
          /\ \A a \in ApprovalId : a # approvalCount + 1 => approvals'[a] = approvals[a]
      BY <1>1, <2>2, <3>1
    <3>3. \A a \in ApprovalId : a > approvalCount + 1 => a > approvalCount
      BY <1>1 DEF ApprovalId
    <3> QED
      BY <1>1, <1>2, <2>2, <3>1, <3>2, <3>3, ExecuteResolvesNothing DEF ResolveInv
  <2> QED
    BY <1>2, <2>1, <2>2, ExecuteResolvesNothing
<1>3. ASSUME NEW t \in Task, NEW a \in ApprovalId, BeginResolve(t, a) PROVE ResolveInv'
  <2>1. /\ a \notin resolving[ProcessOf[t]] /\ approvals[a].status = "pending"
        /\ target'[t] = a /\ Resolving(t)'
        /\ \A u \in Task : u # t => target'[u] = target[u] /\ (Resolving(u)' <=> Resolving(u))
        /\ a \in resolving'[ProcessOf[t]]
        /\ \A u \in Task : resolving[ProcessOf[u]] \subseteq resolving'[ProcessOf[u]]
        /\ UNCHANGED <<approvals, approvalCount>>
    BY <1>1, <1>3 DEF BeginResolve, Advance, Resolving
  <2>2. \A u \in Task : Resolving(u) => target[u] # a
    BY <2>1 DEF ResolveInv
  <2> QED
    BY <2>1, <2>2 DEF ResolveInv
<1>4. ASSUME NEW t \in Task, NEW d \in Decision, SaveGrant(t, d) PROVE ResolveInv'
  <2>1. /\ UNCHANGED <<target, resolving, approvals, approvalCount>>
        /\ \A u \in Task : Resolving(u)' <=> Resolving(u)
    BY <1>1, <1>4 DEF SaveGrant, Advance, Resolving, approvalVars
  <2> QED
    BY <2>1 DEF ResolveInv
<1>5. ASSUME NEW t \in Task, RecordResolution(t) PROVE ResolveInv'
  <2>1. Resolving(t) /\ approvals[target[t]].resolutions = 0 /\ target[t] \in ApprovalId
    BY <1>1, <1>5 DEF RecordResolution, Resolving, ResolveInv
  <2>2. /\ approvals'[target[t]].status = "resolved" /\ approvals'[target[t]].resolutions = 1
        /\ \A a \in ApprovalId : a # target[t] => approvals'[a] = approvals[a]
    <3>1. AtMostTwo(0) = 1
      BY DEF AtMostTwo
    <3>2. approvals' = [approvals EXCEPT ![target[t]].status = "resolved",
                                         ![target[t]].resolutions = AtMostTwo(@)]
      BY <1>5 DEF RecordResolution
    <3> QED
      BY <1>1, <2>1, <3>1, <3>2 DEF Approval
  <2>3. /\ ~Resolving(t)' /\ UNCHANGED approvalCount
        /\ \A u \in Task : u # t => target'[u] = target[u] /\ (Resolving(u)' <=> Resolving(u))
        /\ \A u \in Task : resolving[ProcessOf[u]] \ {target[t]} \subseteq resolving'[ProcessOf[u]]
    BY <1>1, <1>5 DEF RecordResolution, Return, Resolving
  <2>4. \A u \in Task : Resolving(u) /\ u # t => target[u] # target[t] /\ target[u] \in ApprovalId
    BY <1>1, <2>1 DEF ResolveInv
  <2>5. target[t] <= approvalCount
    BY <1>1, <2>1 DEF ResolveInv, ApprovalId
  <2>6. /\ \A u \in Task : Resolving(u)' => /\ target'[u] \in resolving'[ProcessOf[u]]
                                            /\ approvals'[target'[u]].status = "pending"
        /\ \A u, v \in Task : Resolving(u)' /\ Resolving(v)' /\ target'[u] = target'[v] => u = v
    BY <2>2, <2>3, <2>4 DEF ResolveInv
  <2>7. \A a \in ApprovalId : /\ approvals'[a].status # "resolved" => approvals'[a].resolutions = 0
                              /\ approvals'[a].resolutions <= 1
                              /\ a > approvalCount' => approvals'[a].status = "absent"
    BY <1>1, <2>1, <2>2, <2>3, <2>5 DEF ResolveInv, ApprovalId
  <2> QED
    BY <2>6, <2>7 DEF ResolveInv
<1>6. ASSUME NEW p \in Process, Crash(p) PROVE ResolveInv'
  <2>1. /\ \A u \in Task : Resolving(u)' => /\ Resolving(u) /\ target'[u] = target[u]
                                            /\ resolving'[ProcessOf[u]] = resolving[ProcessOf[u]]
        /\ UNCHANGED <<approvals, approvalCount>>
    BY <1>1, <1>6 DEF Crash, Resolving
  <2> QED
    BY <2>1 DEF ResolveInv
<1>7. CASE UNCHANGED vars
  BY <1>7 DEF vars, localVars, approvalVars, ResolveInv, Resolving
<1> QED
  BY <1>2, <1>3, <1>4, <1>5, <1>6, <1>7 DEF Next, ResolveStep

\* When all tasks run in one process, an approval is resolved at most once: through concurrent
\* resolutions, failures and crashes between the grant and the record.  With two processes it is
\* not so: activeApprovalResolutions is memory.
THEOREM ResolvedOnce ==
    ASSUME \A t, u \in Task : ProcessOf[t] = ProcessOf[u]
    PROVE  Spec => []ApprovalResolvedOnce
<1>1. Init => ResolveInv
  BY ToolExecutionAssumption DEF Init, ResolveInv, Resolving, ApprovalId
<1>2. TypeOK /\ ResolveInv /\ [Next]_vars => ResolveInv'
  BY ResolveInvInductive
<1>3. ResolveInv => ApprovalResolvedOnce
  BY DEF ResolveInv, ApprovalResolvedOnce
<1> QED
  BY <1>1, <1>2, <1>3, TypeCorrect, PTL DEF Spec

\* So it is in every behaviour of MCToolExecution of the one process, while the tasks of the others
\* are there and idle.
THEOREM ResolvedOnceByOne ==
    ASSUME Together \cup Apart \subseteq Task, \A t \in Together : ProcessOf[t] = p1
    PROVE  MCSpec => []ResolvedOnceByOneProcess
<1> DEFINE Waits == part = "one_process" => \A t \in Task \ Together : pc[t] = "idle"
           Settled == part = "one_process" => ResolveInv
<1>1. MCInit => Waits /\ Settled /\ Init
  BY ToolExecutionAssumption DEF MCInit, Init, ResolveInv, Resolving, ApprovalId
<1>2. [MCNext]_<<vars, part>> => [Next]_vars
  BY DEF MCNext, Next, Acting, vars
<1>3. MCSpec => []TypeOK
  <2>1. MCSpec => Spec
    BY <1>1, <1>2, PTL DEF MCSpec, Spec
  <2> QED
    BY <2>1, TypeCorrect, PTL
<1>4. TypeOK /\ Waits /\ [MCNext]_<<vars, part>> => Waits'
  <2> SUFFICES ASSUME TypeOK, Waits, [MCNext]_<<vars, part>>, part' = "one_process",
                      NEW t \in Task \ Together
               PROVE  pc'[t] = "idle"
    OBVIOUS
  <2>1. part = "one_process" /\ pc[t] = "idle" /\ pc \in [Task -> PC]
    BY DEF MCNext, TypeOK
  <2>2. CASE \E u \in Together : ExecuteStep(u) \/ ResolveStep(u)
    <3>1. PICK u \in Together : ExecuteStep(u) \/ ResolveStep(u)
      BY <2>2
    <3>2. pc' = pc \/ \E to \in PC : pc' = [pc EXCEPT ![u] = to]
      BY <3>1 DEF PC, ExecuteStep, ResolveStep, Start, AnswerFromJournal, PreflightFails, EvaluateDeny,
          EvaluateGranted, EvaluateByMode, EvaluateAsk, RecordIntent, SkipIntent, PrepareFails, Execute,
          StoreResult, ConsumeGrant, BeginResolve, SaveGrant, RecordResolution, Advance, Return, vars,
          localVars
    <3> QED
      BY <2>1, <3>2
  <2>3. CASE \E p \in Process : Crash(p)
    BY <2>1, <2>3 DEF Crash
  <2> QED
    BY <2>1, <2>2, <2>3 DEF MCNext, Acting, vars, localVars
<1>5. TypeOK /\ TypeOK' /\ Waits /\ Waits' /\ Settled /\ [MCNext]_<<vars, part>> => Settled'
  <2> SUFFICES ASSUME TypeOK, ResolveInv, [MCNext]_<<vars, part>>, Waits', part' = "one_process"
               PROVE  ResolveInv'
    BY DEF MCNext
  <2>1. \A t, u \in Task : Resolving(t)' /\ Resolving(u)' => ProcessOf[t] = ProcessOf[u]
    BY DEF Resolving
  <2> QED
    BY <1>2, <2>1, ResolveInvInductive
<1>6. Settled => ResolvedOnceByOneProcess
  BY DEF ResolveInv, ResolvedOnceByOneProcess, ApprovalResolvedOnce
<1> QED
  BY <1>1, <1>3, <1>4, <1>5, <1>6, PTL DEF MCSpec
==============================================================================
