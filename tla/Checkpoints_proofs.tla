--------------------------- MODULE Checkpoints_proofs ---------------------------
(***************************************************************************)
(* Undoing the candidates, the newest first, brings the workspace back to   *)
(* what the session found, and a failed call that was restored has changed  *)
(* nothing: for any paths, contents, checkpoints and turns, and a crash at  *)
(* every step.  The other parts of MCWorkspace follow: Git commands and     *)
(* publication from GitAndPublication_proofs, and saves of the settings.    *)
(***************************************************************************)
EXTENDS MCWorkspace, TLAPS, WellFoundedInduction

-----------------------------------------------------------------------------
(* The inductive invariant.                                                *)

IsCheckpoint(i) == log[i].type = "checkpoint"
IsRollback(i) == log[i].type = "rollback"

\* Checkpoints are in the log in the order they were made, each where its manifest says; an
\* identifier that is used again was never logged.
LogInv ==
    /\ \A k \in Checkpoint : k > made => manifest[k] = None
    /\ \A i \in DOMAIN log : IsRollback(i) => log[i].id <= made
    /\ \A i \in DOMAIN log : IsCheckpoint(i) =>
         /\ log[i].id <= made
         /\ manifest[log[i].id] \in Manifest
         /\ manifest[log[i].id].count = i - 1
    /\ \A i, j \in DOMAIN log :
         i < j /\ IsCheckpoint(i) /\ IsCheckpoint(j) => log[i].id < log[j].id

\* A checkpoint that is being made is not in the log, and nothing has moved yet.
Opening ==
    op.at \in {"copy", "record"} =>
        /\ op.id = made /\ ~op.undo /\ file = op.before
        /\ op.id \notin LoggedOf("checkpoint") \cup LoggedOf("rollback")

Opened ==
    op.at = "record" =>
        /\ manifest[op.id].count = Len(log)
        /\ \A p \in Tracked(op.id) : manifest[op.id].saved[p] = file[p]

\* A call touches what its checkpoint tracks.
Placed ==
    /\ op.at \notin {"idle", "copy"} =>
         op.id <= made /\ manifest[op.id] \in Manifest /\ op.todo \subseteq Tracked(op.id)
    /\ op.at = "put" => op.entry \in Tracked(op.id)
    /\ op # Idle /\ ~op.undo => op.mode = "code"
    /\ op.at \in {"cut", "session"} => op.mode # "code"
    /\ op # Idle /\ op.undo => op.at # "write"

\* What a restore has yet to put back.
Missing ==
    (IF op.at \in {"remove", "put"} THEN op.todo ELSE {})
        \cup (IF op.at = "put" THEN {op.entry} ELSE {})

Restored ==
    op.at \in {"remove", "put", "cut", "session", "rolled"} /\ op.mode # "conversation" =>
        \A p \in Tracked(op.id) \ Missing : file[p] = manifest[op.id].saved[p]

\* The manifest of a failing call holds what the call found.
Reversible ==
    op.at \in {"write", "remove", "put", "rolled"} /\ ~op.undo =>
        \A p \in Path : IF p \in Tracked(op.id) THEN manifest[op.id].saved[p] = op.before[p]
                                                ELSE file[p] = op.before[p]

OpInv == Opening /\ Opened /\ Placed /\ Restored /\ Reversible

\* Until the rollback is recorded the checkpoint of a call is in the log, if it was not cut.
HasRecord ==
    op.at \in {"write", "remove", "put", "cut"} \/ (op.at = "rolled" /\ op.mode = "code")

\* Candidates are undone like a stack: no rollback of an older checkpoint follows a candidate in
\* the log, and is cut with it.
StackInv ==
    \A i, j \in DOMAIN log :
        i < j /\ IsCheckpoint(i) /\ IsRollback(j) /\ log[i].id \in Candidates => log[i].id < log[j].id

\* As long as only the latest candidate is undone.
InOrder ==
    /\ op # Idle => op.mode # "conversation"
    /\ HasRecord => op.id \in Candidates /\ \A k \in Candidates : k <= op.id
    /\ op.at \in {"session", "rolled"} /\ op.mode = "both" =>
         op.id \notin LoggedOf("checkpoint") /\ \A k \in Candidates : k < op.id
    /\ StackInv

UndoInv == ~strayed => InOrder /\ UndoReachesStart

Inv == TypeOK /\ LogInv /\ OpInv /\ UndoInv

-----------------------------------------------------------------------------
(* Lemmas.                                                                 *)

USE CheckpointsAssumption

\* The length to which a restored conversation is cut.
LEMMA MinOfTwo ==
    ASSUME NEW a \in Nat, NEW b \in Nat
    PROVE  Min({a, b}) = IF a <= b THEN a ELSE b
<1>1. CASE a <= b
  <2>1. a \in {a, b} /\ \A y \in {a, b} : a <= y
    BY <1>1
  <2>2. \A x \in {a, b} : (\A y \in {a, b} : x <= y) => x = a
    BY <1>1
  <2> QED
    BY <1>1, <2>1, <2>2 DEF Min
<1>2. CASE ~(a <= b)
  <2>1. b \in {a, b} /\ \A y \in {a, b} : b <= y
    BY <1>2
  <2>2. \A x \in {a, b} : (\A y \in {a, b} : x <= y) => x = b
    BY <1>2
  <2> QED
    BY <1>2, <2>1, <2>2 DEF Min
<1> QED
  BY <1>1, <1>2

\* A set of checkpoints that is not empty has an oldest one.
LEMMA MinIsLeast ==
    ASSUME NEW S \in SUBSET Nat, S # {}
    PROVE  Min(S) \in S /\ \A y \in S : Min(S) <= y
<1>1. PICK x \in S : \A y \in S : <<y, x>> \notin OpToRel(<, Nat)
  BY WFMin, NatLessThanWellFounded
<1>2. \A y \in S : x <= y
  <2> SUFFICES ASSUME NEW y \in S PROVE x <= y
    OBVIOUS
  <2>1. x \in Nat /\ y \in Nat
    BY <1>1
  <2>2. ~(y < x)
    BY <1>1, <2>1 DEF OpToRel
  <2> QED
    BY <2>1, <2>2
<1>3. \E z \in S : \A y \in S : z <= y
  BY <1>2
<1> QED
  BY ONLY <1>3, Zenon DEF Min

\* The oldest is the only one below all others.
LEMMA LeastIsMin ==
    ASSUME NEW S \in SUBSET Nat, NEW x \in S, \A y \in S : x <= y
    PROVE  Min(S) = x
<1>1. Min(S) \in S /\ \A y \in S : Min(S) <= y
  BY MinIsLeast
<1>2. Min(S) <= x /\ x <= Min(S)
  BY <1>1
<1>3. Min(S) \in Nat /\ x \in Nat
  BY <1>1
<1> QED
  BY <1>2, <1>3

\* Newer candidates do not change what the oldest one gives back.
LEMMA NewerKeepsMin ==
    ASSUME NEW S \in SUBSET Nat, NEW k \in Nat, S # {}, \A y \in S : y < k
    PROVE  Min(S \cup {k}) = Min(S)
<1>1. Min(S) \in S /\ \A y \in S : Min(S) <= y
  BY MinIsLeast
<1>2. \A y \in S \cup {k} : Min(S) <= y
  <2>1. Min(S) \in Nat /\ Min(S) < k
    BY <1>1
  <2> QED
    BY ONLY <1>1, <2>1, k \in Nat
<1>3. S \cup {k} \in SUBSET Nat /\ Min(S) \in S \cup {k}
  BY <1>1
<1> QED
  <2> DEFINE T == S \cup {k}
             x == Min(S)
  <2>1. T \in SUBSET Nat /\ x \in T /\ \A y \in T : x <= y
    BY <1>2, <1>3
  <2>2. Min(T) = x
    <3> HIDE DEF T, x
    <3> QED
      BY <2>1, LeastIsMin
  <2> QED
    BY <2>2

-----------------------------------------------------------------------------
(* Types.                                                                  *)

LEMMA InitTypes == Init => TypeOK
<1> SUFFICES ASSUME Init PROVE TypeOK
  OBVIOUS
<1>1. file \in [Path -> Content] /\ first \in [Path -> Content]
  BY DEF Init, Content
<1>2. manifest \in [Checkpoint -> Manifest \cup {None}] /\ log \in Seq(Records)
  BY DEF Init
<1>3. session \in [status : {"ready", "running"}, active : BOOLEAN]
  BY DEF Init
<1>4. op \in Calls \cup {Idle} /\ made \in 0..MaxCheckpoints /\ written \in Content
      /\ turns \in 0..MaxTurns
  BY DEF Init, Content
<1>5. turn \in BOOLEAN /\ strayed \in BOOLEAN
  BY DEF Init
<1> QED
  BY ONLY <1>1, <1>2, <1>3, <1>4, <1>5 DEF TypeOK

\* What a cut leaves of the log.
LEMMA CutIsPrefix ==
    ASSUME TypeOK, Placed, CutLog
    PROVE  /\ log' \in Seq(Records) /\ Len(log') <= Len(log)
           /\ Len(log') = IF manifest[op.id].count <= Len(log) THEN manifest[op.id].count ELSE Len(log)
           /\ DOMAIN log' = 1..Len(log')
           /\ \A i \in DOMAIN log' : i \in DOMAIN log /\ log'[i] = log[i]
<1>1. op.at = "cut" /\ log \in Seq(Records) /\ Len(log) \in Nat
  BY DEF CutLog, TypeOK
<1>2. manifest[op.id].count \in Nat
  BY <1>1 DEF Placed, Manifest
<1> DEFINE n == IF manifest[op.id].count <= Len(log) THEN manifest[op.id].count ELSE Len(log)
<1>3. Min({manifest[op.id].count, Len(log)}) = n
  BY <1>1, <1>2, MinOfTwo
<1>4. log' = SubSeq(log, 1, n)
  BY <1>3 DEF CutLog
<1>5. n \in Nat /\ n <= Len(log)
  BY <1>1, <1>2
<1> HIDE DEF n
<1>6. /\ log' \in Seq(Records) /\ Len(log') = n /\ DOMAIN log' = 1..n
      /\ \A i \in 1..n : i \in 1..Len(log) /\ log'[i] = log[i]
  BY <1>1, <1>4, <1>5
<1> QED
  BY <1>1, <1>5, <1>6 DEF n

\* A call that has reached an entry is a call.
LEMMA EntryDone ==
    /\ \A c \in Calls, p \in Path : [c EXCEPT !.todo = @ \ {p}] \in Calls
    /\ \A c \in Calls, p \in Path : [c EXCEPT !.at = "put", !.todo = @ \ {p}, !.entry = p] \in Calls
    /\ \A c \in Calls : [c EXCEPT !.at = "remove", !.entry = None] \in Calls
<1>1. \A c \in Calls, p \in Path : c.todo \ {p} \in SUBSET Path
  BY DEF Calls
<1>2. \A c \in Calls, p \in Path : [c EXCEPT !.todo = @ \ {p}] \in Calls
  BY <1>1 DEF Calls
<1>3. \A c \in Calls, p \in Path : [c EXCEPT !.at = "put", !.todo = @ \ {p}, !.entry = p] \in Calls
  BY <1>1 DEF Calls
<1>4. \A c \in Calls : [c EXCEPT !.at = "remove", !.entry = None] \in Calls
  BY DEF Calls
<1> QED
  BY <1>2, <1>3, <1>4

LEMMA TypeStep ==
    ASSUME TypeOK, OpInv, Next
    PROVE  TypeOK'
<1> USE DEF OpInv
<1>1. CASE BeginWrite
  <2>1. made + 1 \in Checkpoint /\ made' \in 0..MaxCheckpoints
    BY <1>1 DEF BeginWrite, TypeOK, Checkpoint
  <2>2. op' \in Calls
    BY <1>1, <2>1 DEF BeginWrite, TypeOK, Calls, Mode
  <2> QED
    BY <1>1, <2>1, <2>2 DEF BeginWrite, TypeOK
<1>2. ASSUME NEW k \in Checkpoint, BeginUndo(k)
      PROVE  TypeOK'
  <2>1. manifest[k] \in Manifest
    BY <1>2 DEF BeginUndo, TypeOK
  <2>2. Tracked(k) \subseteq Path
    BY <2>1 DEF Tracked, Manifest
  <2>3. op' \in Calls
    BY <1>2, <2>2 DEF BeginUndo, TypeOK, Calls, Mode
  <2>4. strayed' \in BOOLEAN
    BY <1>2 DEF BeginUndo
  <2> QED
    BY <1>2, <2>3, <2>4 DEF BeginUndo, TypeOK
<1>3. CASE WriteManifest
  <2>1. op \in Calls /\ op.id \in Checkpoint /\ op.todo \subseteq Path
    BY <1>3 DEF WriteManifest, TypeOK, Idle, Calls
  <2>2. Restrict(file, op.todo) \in [op.todo -> Content]
    BY <2>1 DEF Restrict, TypeOK
  <2>3. [saved |-> Restrict(file, op.todo), count |-> Len(log), session |-> session] \in Manifest
    BY <2>1, <2>2 DEF Manifest, TypeOK
  <2>4. op' \in Calls
    BY <1>3, <2>1 DEF WriteManifest, Calls
  <2> QED
    BY <1>3, <2>1, <2>3, <2>4 DEF WriteManifest, TypeOK
<1>4. CASE CheckpointFails
  <2>1. op \in Calls /\ op.id \in Checkpoint /\ op.id = made
    BY <1>4 DEF CheckpointFails, TypeOK, Idle, Calls, Opening
  <2>2. made - 1 \in 0..MaxCheckpoints
    BY <2>1 DEF Checkpoint, TypeOK
  <2> QED
    BY <1>4, <2>1, <2>2 DEF CheckpointFails, TypeOK
<1>5. CASE RecordCheckpoint
  <2>1. op \in Calls /\ op.id \in Checkpoint /\ manifest[op.id] \in Manifest
    BY <1>5 DEF RecordCheckpoint, TypeOK, Idle, Calls, Placed
  <2>2. Tracked(op.id) \subseteq Path
    BY <2>1 DEF Tracked, Manifest
  <2>3. op' \in Calls
    BY <1>5, <2>1, <2>2 DEF RecordCheckpoint, Calls
  <2>4. [type |-> "checkpoint", id |-> op.id] \in Records
    BY <2>1 DEF Records
  <2> QED
    BY <1>5, <2>3, <2>4 DEF RecordCheckpoint, Logged, TypeOK
<1>6. ASSUME NEW p \in Path, WriteEntry(p)
      PROVE  TypeOK'
  <2>1. op \in Calls /\ op' = [op EXCEPT !.todo = @ \ {p}]
    BY <1>6 DEF WriteEntry, TypeOK, Idle
  <2>2. op' \in Calls
    BY <2>1, EntryDone
  <2>3. written' \in Content
    BY <1>6 DEF WriteEntry, TypeOK, Content
  <2>4. PICK c \in Content : file' = [file EXCEPT ![p] = c]
    <3>1. 0 \in Content
      BY DEF Content
    <3>2. written < MaxWritten => written + 1 \in Content
      BY DEF TypeOK, Content
    <3> QED
      BY <1>6, <3>1, <3>2 DEF WriteEntry
  <2>5. file' \in [Path -> Content]
    BY <2>4 DEF TypeOK
  <2> QED
    BY <1>6, <2>2, <2>3, <2>5 DEF WriteEntry, TypeOK
<1>7. ASSUME op.at = "write", StartRestore
      PROVE  op' \in Calls
  <2>1. op \in Calls /\ op.id \in Checkpoint /\ manifest[op.id] \in Manifest
    BY <1>7 DEF TypeOK, Idle, Calls, Placed
  <2>2. Tracked(op.id) \subseteq Path
    BY <2>1 DEF Tracked, Manifest
  <2> QED
    BY <1>7, <2>1, <2>2 DEF StartRestore, Calls
<1>8. CASE WriteFails \/ Verify
  BY <1>7, <1>8 DEF WriteFails, Verify, TypeOK
<1>9. ASSUME NEW p \in Path, RemoveEntry(p)
      PROVE  TypeOK'
  <2>1. op \in Calls /\ op' = [op EXCEPT !.at = "put", !.todo = @ \ {p}, !.entry = p]
    BY <1>9 DEF RemoveEntry, TypeOK, Idle
  <2>3. op' \in Calls
    BY <2>1, EntryDone
  <2>2. file' \in [Path -> Content]
    BY <1>9 DEF RemoveEntry, TypeOK, Content
  <2> QED
    BY <1>9, <2>2, <2>3 DEF RemoveEntry, TypeOK
<1>10. CASE PutEntry
  <2>1. op \in Calls /\ op' = [op EXCEPT !.at = "remove", !.entry = None]
    BY <1>10 DEF PutEntry, TypeOK, Idle
  <2>4. op' \in Calls
    BY <2>1, EntryDone
  <2>2. manifest[op.id].saved[op.entry] \in Content
    BY <1>10 DEF PutEntry, Placed, Tracked, Manifest
  <2>3. file' \in [Path -> Content]
    BY <1>10, <2>2 DEF PutEntry, TypeOK
  <2> QED
    BY <1>10, <2>3, <2>4 DEF PutEntry, TypeOK
<1>11. CASE FilesRestored
  <2>1. op \in Calls /\ op' \in Calls
    BY <1>11, SMTT(30) DEF FilesRestored, TypeOK, Idle, Calls
  <2> QED
    BY <1>11, <2>1 DEF FilesRestored, TypeOK
<1>12. CASE CutLog
  <2>1. op \in Calls /\ op' \in Calls
    BY <1>12 DEF CutLog, TypeOK, Idle, Calls
  <2>2. log' \in Seq(Records)
    BY <1>12, CutIsPrefix
  <2> QED
    BY <1>12, <2>1, <2>2 DEF CutLog, TypeOK
<1>13. CASE RestoreSession
  <2>1. op \in Calls /\ op' \in Calls
    BY <1>13 DEF RestoreSession, TypeOK, Idle, Calls
  <2>2. manifest[op.id].session.status \in {"ready", "running"}
    BY <1>13 DEF RestoreSession, Placed, Manifest
  <2> QED
    BY <1>13, <2>1, <2>2 DEF RestoreSession, TypeOK
<1>14. CASE RecordRollback
  <2>1. op \in Calls /\ op.id \in Checkpoint
    BY <1>14 DEF RecordRollback, TypeOK, Idle, Calls
  <2>2. [type |-> "rollback", id |-> op.id] \in Records
    BY <2>1 DEF Records
  <2> QED
    BY <1>14, <2>2 DEF RecordRollback, Logged, TypeOK
<1>15. CASE RestoreFails
  BY <1>15 DEF RestoreFails, TypeOK
<1>16. [type |-> "turn"] \in Records /\ [type |-> "end"] \in Records
  BY DEF Records
<1>17. CASE StartTurn
  BY <1>16, <1>17 DEF StartTurn, Logged, TypeOK
<1>18. CASE EndTurn
  <2>1. session' \in [status : {"ready", "running"}, active : BOOLEAN]
    BY <1>18 DEF EndTurn
  <2>2. log' \in Seq(Records)
    BY <1>16, <1>18 DEF EndTurn, Logged, TypeOK
  <2>3. turn' \in BOOLEAN
    BY <1>18, Zenon DEF EndTurn
  <2> QED
    BY <1>18, <2>1, <2>2, <2>3 DEF EndTurn, TypeOK
<1>19. CASE Crash
  <2>1. session' \in [status : {"ready", "running"}, active : BOOLEAN]
    BY <1>19 DEF Crash
  <2>2. log' \in Seq(Records)
    BY <1>16, <1>19 DEF Crash, TypeOK
  <2>4. turn' \in BOOLEAN
    BY <1>19, Zenon DEF Crash
  <2>3. turns' \in 0..MaxTurns
    BY <1>19 DEF Crash, TypeOK
  <2> QED
    BY <1>19, <2>1, <2>2, <2>3, <2>4 DEF Crash, TypeOK
<1> QED
  BY <1>1, <1>2, <1>3, <1>4, <1>5, <1>6, <1>8, <1>9, <1>10, <1>11, <1>12, <1>13, <1>14, <1>15,
     <1>17, <1>18, <1>19 DEF Next, OpStep

-----------------------------------------------------------------------------
(* The log.                                                                *)

LEMMA Appended ==
    \A r \in Records : log \in Seq(Records) /\ log' = Append(log, r) =>
        /\ Len(log) \in Nat /\ DOMAIN log = 1..Len(log) /\ DOMAIN log' = 1..(Len(log) + 1)
        /\ \A i \in DOMAIN log : log'[i] = log[i]
        /\ log'[Len(log) + 1] = r
OBVIOUS

\* The steps of the runs differ in what they append.
Appends(r) == log' = Append(log, r) /\ UNCHANGED <<manifest, made>>

LEMMA LogChanges ==
    ASSUME TypeOK, OpInv, Next
    PROVE  \/ UNCHANGED <<log, manifest, made>>
           \/ BeginWrite \/ WriteManifest \/ CheckpointFails \/ RecordCheckpoint \/ CutLog
           \/ Appends([type |-> "turn"]) \/ Appends([type |-> "end"])
           \/ (RecordRollback /\ Appends([type |-> "rollback", id |-> op.id]))
BY DEF Next, OpStep, BeginUndo, WriteEntry, WriteFails, Verify, StartRestore, RemoveEntry, PutEntry,
       FilesRestored, RestoreSession, RecordRollback, RestoreFails, StartTurn, EndTurn, Crash, Logged,
       Appends

LEMMA LogStep ==
    ASSUME TypeOK, LogInv, OpInv, Next
    PROVE  LogInv'
<1>1. CASE UNCHANGED <<log, manifest, made>>
  BY <1>1 DEF LogInv, IsCheckpoint, IsRollback
<1>2. log \in Seq(Records) /\ Len(log) \in Nat /\ DOMAIN log = 1..Len(log)
  BY DEF TypeOK
<1>3. \A i \in DOMAIN log : IsCheckpoint(i) \/ IsRollback(i) => log[i].id \in Nat
  <2>1. \A i \in DOMAIN log : log[i] \in Records
    BY <1>2
  <2> QED
    BY <2>1 DEF Records, IsCheckpoint, IsRollback, Checkpoint
<1>4. made \in Nat
  BY DEF TypeOK
<1>5. CASE BeginWrite
  BY <1>3, <1>4, <1>5 DEF BeginWrite, LogInv, IsCheckpoint, IsRollback, Checkpoint
<1>6. ASSUME op.at \in {"copy", "record"}
      PROVE  /\ op \in Calls /\ op.id \in Checkpoint /\ op.id = made
             /\ \A i \in DOMAIN log : IsCheckpoint(i) \/ IsRollback(i) => log[i].id # op.id
  BY <1>6 DEF OpInv, Opening, LoggedOf, IsCheckpoint, IsRollback, TypeOK, Idle, Calls
<1>7. CASE WriteManifest
  <2>1. \A k \in Checkpoint : k # op.id => manifest'[k] = manifest[k]
    BY <1>7 DEF WriteManifest, TypeOK
  <2>2. \A i \in DOMAIN log : IsCheckpoint(i) => log[i].id \in Checkpoint
    BY <1>2 DEF Records, IsCheckpoint
  <2> QED
    BY <1>2, <1>4, <1>6, <1>7, <2>1, <2>2 DEF WriteManifest, LogInv, IsCheckpoint, IsRollback
<1>8. CASE CheckpointFails
  <2>1. \A k \in Checkpoint : manifest'[k] = IF k = op.id THEN None ELSE manifest[k]
    BY <1>6, <1>8 DEF CheckpointFails, TypeOK
  <2>2. \A i \in DOMAIN log : IsCheckpoint(i) => log[i].id \in Checkpoint
    BY <1>2 DEF Records, IsCheckpoint
  <2>3. \A k \in Checkpoint : k > made - 1 => manifest'[k] = None
    BY <1>4, <1>6, <1>8, <2>1 DEF CheckpointFails, LogInv, Checkpoint
  <2>4. \A i \in DOMAIN log : IsCheckpoint(i) \/ IsRollback(i) => log[i].id <= made - 1
    BY <1>3, <1>4, <1>6, <1>8 DEF CheckpointFails, LogInv
  <2> QED
    BY <1>2, <1>6, <1>8, <2>1, <2>2, <2>3, <2>4
       DEF CheckpointFails, LogInv, IsCheckpoint, IsRollback
<1>9. CASE RecordCheckpoint
  <2> DEFINE r == [type |-> "checkpoint", id |-> op.id]
  <2>1. r \in Records /\ log' = Append(log, r) /\ UNCHANGED <<manifest, made>>
    BY <1>6, <1>9 DEF RecordCheckpoint, Logged, Records
  <2>2. /\ DOMAIN log' = 1..(Len(log) + 1) /\ \A i \in DOMAIN log : log'[i] = log[i]
        /\ log'[Len(log) + 1] = r
    BY <1>2, <2>1, Appended
  <2>3. /\ manifest[op.id] \in Manifest /\ manifest[op.id].count = Len(log)
        /\ op.id = made
    BY <1>6, <1>9 DEF RecordCheckpoint, OpInv, Opened, Placed
  <2>4. \A i \in DOMAIN log : IsCheckpoint(i) => log[i].id < op.id
    BY <1>3, <1>4, <1>6, <1>9 DEF LogInv, RecordCheckpoint
  <2>5. \A i \in DOMAIN log' : IsRollback(i)' => i \in DOMAIN log /\ IsRollback(i)
    BY <1>2, <2>2 DEF IsRollback
  <2>6. \A i \in DOMAIN log' : IsCheckpoint(i)' =>
            i = Len(log) + 1 \/ (i \in DOMAIN log /\ IsCheckpoint(i))
    BY <1>2, <2>2 DEF IsCheckpoint
  <2>7. LogInv!1' /\ LogInv!2'
    BY <2>1, <2>2, <2>5 DEF LogInv
  <2>8. LogInv!3'
    BY <1>2, <1>4, <2>1, <2>2, <2>3, <2>6 DEF LogInv
  <2>9. LogInv!4'
    BY <1>2, <2>1, <2>2, <2>4, <2>6 DEF LogInv
  <2> QED
    BY <2>7, <2>8, <2>9 DEF LogInv
<1>10. ASSUME NEW i \in DOMAIN log', log' = Append(log, [type |-> "turn"]) \/ log' = Append(log, [type |-> "end"])
       PROVE  (IsCheckpoint(i) \/ IsRollback(i))' => i \in DOMAIN log /\ log'[i] = log[i]
  <2>1. [type |-> "turn"] \in Records /\ [type |-> "end"] \in Records
    BY DEF Records
  <2> QED
    BY <1>2, <1>10, <2>1, Appended DEF IsCheckpoint, IsRollback
<1>11. CASE Appends([type |-> "turn"]) \/ Appends([type |-> "end"])
  BY <1>10, <1>11 DEF Appends, LogInv, IsCheckpoint, IsRollback
<1>12. CASE RecordRollback /\ Appends([type |-> "rollback", id |-> op.id])
  <2> DEFINE r == [type |-> "rollback", id |-> op.id]
  <2>1. op.id \in Checkpoint /\ op.id <= made
    BY <1>12 DEF RecordRollback, OpInv, Placed, TypeOK, Idle, Calls
  <2>2. r \in Records /\ log' = Append(log, r) /\ UNCHANGED <<manifest, made>>
    BY <1>12, <2>1 DEF Appends, Records
  <2>3. /\ DOMAIN log' = 1..(Len(log) + 1) /\ \A i \in DOMAIN log : log'[i] = log[i]
        /\ log'[Len(log) + 1] = r
    BY <1>2, <2>2, Appended
  <2>4. \A i \in DOMAIN log' : IsCheckpoint(i)' => i \in DOMAIN log /\ IsCheckpoint(i)
    BY <1>2, <2>3 DEF IsCheckpoint
  <2>5. \A i \in DOMAIN log' : IsRollback(i)' => log'[i].id <= made
    BY <1>2, <2>1, <2>3 DEF IsRollback, LogInv
  <2> QED
    BY <2>2, <2>3, <2>4, <2>5 DEF LogInv
<1>13. CASE CutLog
  <2>1. \A i \in DOMAIN log' : i \in DOMAIN log /\ log'[i] = log[i]
    BY <1>13, CutIsPrefix DEF OpInv
  <2> QED
    BY <1>13, <2>1, ZenonT(30) DEF CutLog, LogInv, IsCheckpoint, IsRollback
<1> QED
  BY <1>1, <1>5, <1>7, <1>8, <1>9, <1>11, <1>12, <1>13, LogChanges

-----------------------------------------------------------------------------
(* The call.                                                               *)

LEMMA IdleIsSound ==
    ASSUME op' = Idle
    PROVE  OpInv'
BY DEF OpInv, Opening, Opened, Placed, Missing, Restored, Reversible, Idle

LEMMA BeginWriteSound ==
    ASSUME TypeOK, LogInv, BeginWrite
    PROVE  OpInv'
<1>1. /\ op' \in Calls /\ op'.at = "copy" /\ op'.id = made' /\ ~op'.undo /\ op'.mode = "code"
      /\ file' = op'.before /\ log' = log /\ made \in Nat /\ made' = made + 1
  <2>1. made + 1 \in Checkpoint
    BY DEF BeginWrite, TypeOK, Checkpoint
  <2> QED
    BY <2>1 DEF BeginWrite, TypeOK, Calls, Mode
<1>2. \A i \in DOMAIN log : IsCheckpoint(i) \/ IsRollback(i) => log[i].id # made + 1
  <2>1. \A i \in DOMAIN log : IsCheckpoint(i) \/ IsRollback(i) => log[i].id \in Nat
    BY DEF TypeOK, Records, IsCheckpoint, IsRollback, Checkpoint
  <2> QED
    BY <1>1, <2>1 DEF LogInv
<1>3. Opening'
  BY <1>1, <1>2 DEF Opening, LoggedOf, IsCheckpoint, IsRollback
<1> QED
  BY <1>1, <1>3 DEF OpInv, Opened, Placed, Restored, Reversible

LEMMA BeginUndoSound ==
    ASSUME TypeOK, LogInv, NEW k \in Checkpoint, BeginUndo(k)
    PROVE  OpInv'
<1>1. manifest[k] \in Manifest /\ k <= made /\ manifest' = manifest /\ made' = made
  BY DEF BeginUndo, TypeOK, LogInv, Checkpoint
<1>2. PICK mode \in Mode :
        op' = [at |-> IF mode = "conversation" THEN "cut" ELSE "remove", id |-> k,
               todo |-> Tracked(k), entry |-> None, restores |-> "itself", mode |-> mode,
               undo |-> TRUE, before |-> file]
  BY DEF BeginUndo
<1>3. /\ op'.at \in {"cut", "remove"} /\ op'.id = k /\ op'.todo = Tracked(k) /\ op'.undo = TRUE
      /\ op'.mode = mode /\ (op'.at = "cut" <=> op'.mode = "conversation")
  BY <1>2
<1>4. Tracked(k)' = Tracked(k)
  BY <1>1 DEF Tracked
<1>5. Opening' /\ Opened'
  BY <1>3 DEF Opening, Opened
<1>6. Placed'
  BY <1>1, <1>3, <1>4 DEF Placed
<1>7. Restored'
  BY <1>3, <1>4 DEF Restored, Missing
<1>8. Reversible'
  BY <1>3 DEF Reversible
<1> QED
  BY <1>5, <1>6, <1>7, <1>8 DEF OpInv

LEMMA WriteManifestSound ==
    ASSUME TypeOK, LogInv, OpInv, WriteManifest
    PROVE  OpInv'
<1>1. op \in Calls /\ op.id \in Checkpoint /\ op.todo \subseteq Path /\ op.at = "copy" /\ op # Idle
  BY DEF WriteManifest, TypeOK, Idle, Calls
<1>2. /\ op'.at = "record" /\ op'.id = op.id /\ op'.todo = op.todo /\ op'.undo = op.undo
      /\ op'.mode = op.mode /\ op'.before = op.before
  BY <1>1 DEF WriteManifest, Calls
<1>3. manifest'[op.id] = [saved |-> Restrict(file, op.todo), count |-> Len(log), session |-> session]
  BY <1>1 DEF WriteManifest, TypeOK
<1>4. manifest'[op.id] \in Manifest
  <2>1. Restrict(file, op.todo) \in [op.todo -> Content]
    BY <1>1 DEF Restrict, TypeOK
  <2> QED
    BY <1>1, <1>3, <2>1 DEF Manifest, TypeOK
<1>5. Tracked(op.id)' = op.todo /\ \A p \in op.todo : manifest'[op.id].saved[p] = file[p]
  BY <1>2, <1>3 DEF Tracked, Restrict
<1>6. Opening'
  BY <1>1, <1>2 DEF OpInv, Opening, WriteManifest, LoggedOf
<1>7. Opened'
  BY <1>2, <1>3, <1>5 DEF Opened, WriteManifest
<1>8. Placed'
  <2>1. made \in Nat /\ op.id = made /\ made' = made /\ ~op.undo
    BY <1>1 DEF OpInv, Opening, WriteManifest, TypeOK
  <2> QED
    BY <1>1, <1>2, <1>4, <1>5, <2>1 DEF OpInv, Placed
<1> QED
  BY <1>2, <1>6, <1>7, <1>8 DEF OpInv, Restored, Reversible

LEMMA RecordCheckpointSound ==
    ASSUME TypeOK, LogInv, OpInv, RecordCheckpoint
    PROVE  OpInv'
<1>1. op \in Calls /\ op.id \in Checkpoint /\ op.at = "record" /\ op # Idle /\ manifest' = manifest
  BY DEF RecordCheckpoint, TypeOK, Idle, Calls
<1>2. /\ op'.at = "write" /\ op'.id = op.id /\ op'.todo = Tracked(op.id) /\ op'.undo = op.undo
      /\ op'.mode = op.mode /\ op'.before = op.before
  BY <1>1 DEF RecordCheckpoint, Calls
<1>3. Tracked(op.id)' = Tracked(op.id)
  BY <1>1, <1>2 DEF Tracked
<1>4. ~op.undo /\ file = op.before /\ \A p \in Tracked(op.id) : manifest[op.id].saved[p] = file[p]
  BY <1>1 DEF OpInv, Opening, Opened
<1>5. Placed'
  BY <1>1, <1>2, <1>3, <1>4 DEF OpInv, Placed, RecordCheckpoint
<1>6. Reversible'
  BY <1>1, <1>2, <1>3, <1>4 DEF Reversible, RecordCheckpoint
<1> QED
  BY <1>2, <1>5, <1>6 DEF OpInv, Opening, Opened, Restored

LEMMA WriteEntrySound ==
    ASSUME TypeOK, OpInv, NEW p \in Path, WriteEntry(p)
    PROVE  OpInv'
<1>1. op \in Calls /\ op.at = "write" /\ op # Idle /\ manifest' = manifest /\ made' = made
  BY DEF WriteEntry, TypeOK, Idle
<1>2. /\ op'.at = "write" /\ op'.id = op.id /\ op'.todo = op.todo \ {p} /\ op'.undo = op.undo
      /\ op'.mode = op.mode /\ op'.before = op.before
  BY <1>1 DEF WriteEntry, Calls
<1>3. Tracked(op.id)' = Tracked(op.id) /\ p \in Tracked(op.id)
  BY <1>1, <1>2 DEF Tracked, WriteEntry, OpInv, Placed
<1>4. \A q \in Path : q # p => file'[q] = file[q]
  BY DEF WriteEntry, TypeOK
<1>5. Placed'
  BY <1>1, <1>2, <1>3 DEF OpInv, Placed
<1>6. Reversible'
  BY <1>1, <1>2, <1>3, <1>4 DEF OpInv, Reversible
<1> QED
  BY <1>2, <1>5, <1>6 DEF OpInv, Opening, Opened, Restored

LEMMA RestoreStarts ==
    ASSUME TypeOK, OpInv, op.at = "write", StartRestore, UNCHANGED <<file, manifest, made>>
    PROVE  OpInv'
<1>1. op \in Calls /\ op # Idle
  BY DEF TypeOK, Idle
<1>2. /\ op'.at = "remove" /\ op'.id = op.id /\ op'.todo = Tracked(op.id) /\ op'.undo = op.undo
      /\ op'.mode = op.mode /\ op'.before = op.before
  BY <1>1 DEF StartRestore, Calls
<1>3. Tracked(op.id)' = Tracked(op.id)
  BY <1>2 DEF Tracked
<1>4. Placed'
  BY <1>1, <1>2, <1>3 DEF OpInv, Placed
<1>5. Reversible'
  BY <1>1, <1>2, <1>3 DEF OpInv, Reversible
<1>6. Restored'
  BY <1>2, <1>3 DEF Restored, Missing
<1> QED
  BY <1>2, <1>4, <1>5, <1>6 DEF OpInv, Opening, Opened

LEMMA RemoveEntrySound ==
    ASSUME TypeOK, OpInv, NEW p \in Path, RemoveEntry(p)
    PROVE  OpInv'
<1>1. op \in Calls /\ op.at = "remove" /\ op # Idle /\ manifest' = manifest /\ made' = made
  BY DEF RemoveEntry, TypeOK, Idle
<1>2. /\ op'.at = "put" /\ op'.id = op.id /\ op'.todo = op.todo \ {p} /\ op'.undo = op.undo
      /\ op'.mode = op.mode /\ op'.before = op.before /\ op'.entry = p
  BY <1>1 DEF RemoveEntry, Calls
<1>3. Tracked(op.id)' = Tracked(op.id) /\ p \in Tracked(op.id) /\ p \in op.todo
  BY <1>1, <1>2 DEF Tracked, RemoveEntry, OpInv, Placed
<1>4. \A q \in Path : q # p => file'[q] = file[q]
  BY DEF RemoveEntry, TypeOK
<1>5. Placed'
  BY <1>1, <1>2, <1>3 DEF OpInv, Placed
<1>6. Reversible'
  BY <1>1, <1>2, <1>3, <1>4 DEF OpInv, Reversible
<1>7. Missing' = Missing
  BY <1>1, <1>2, <1>3 DEF Missing
<1>8. Tracked(op.id) \subseteq Path
  BY <1>1 DEF OpInv, Placed, Tracked, Manifest
<1>9. Restored'
  BY <1>1, <1>2, <1>3, <1>4, <1>7, <1>8, p \in Missing DEF OpInv, Restored, Missing
<1> QED
  BY <1>2, <1>5, <1>6, <1>9 DEF OpInv, Opening, Opened

LEMMA PutEntrySound ==
    ASSUME TypeOK, OpInv, PutEntry
    PROVE  OpInv'
<1>1. op \in Calls /\ op.at = "put" /\ op # Idle /\ manifest' = manifest /\ made' = made
  BY DEF PutEntry, TypeOK, Idle
<1>2. /\ op'.at = "remove" /\ op'.id = op.id /\ op'.todo = op.todo /\ op'.undo = op.undo
      /\ op'.mode = op.mode /\ op'.before = op.before
  BY <1>1 DEF PutEntry, Calls
<1>3. Tracked(op.id)' = Tracked(op.id) /\ op.entry \in Tracked(op.id) /\ Tracked(op.id) \subseteq Path
  BY <1>1, <1>2 DEF Tracked, OpInv, Placed, Manifest
<1>4. \A q \in Path : file'[q] = IF q = op.entry THEN manifest[op.id].saved[q] ELSE file[q]
  BY <1>3 DEF PutEntry, TypeOK
<1>5. Placed'
  BY <1>1, <1>2, <1>3 DEF OpInv, Placed
<1>6. Reversible'
  BY <1>1, <1>2, <1>3, <1>4 DEF OpInv, Reversible
<1>7. Missing' = op.todo /\ Missing = op.todo \cup {op.entry}
  BY <1>1, <1>2 DEF Missing
<1>8. Restored'
  BY <1>1, <1>2, <1>3, <1>4, <1>7 DEF OpInv, Restored
<1> QED
  BY <1>2, <1>5, <1>6, <1>8 DEF OpInv, Opening, Opened

LEMMA RestoredStays ==
    ASSUME TypeOK, OpInv, FilesRestored \/ CutLog \/ RestoreSession
    PROVE  OpInv'
<1>1. /\ op \in Calls /\ op # Idle /\ UNCHANGED <<file, manifest, made>>
      /\ op.at \in {"remove", "cut", "session"} /\ (op.at = "remove" => op.todo = {})
  BY DEF FilesRestored, CutLog, RestoreSession, TypeOK, Idle
<1>2. /\ op'.at \in {"cut", "session", "rolled"} /\ op'.id = op.id /\ op'.todo = op.todo
      /\ op'.undo = op.undo /\ op'.mode = op.mode /\ op'.before = op.before
      /\ (op'.at # "rolled" => (op.at = "remove" /\ op.mode = "both") \/ op.at = "cut")
  BY <1>1 DEF FilesRestored, CutLog, RestoreSession, Calls
<1>3. Tracked(op.id)' = Tracked(op.id)
  BY <1>1, <1>2 DEF Tracked
<1>4. Placed'
  BY <1>1, <1>2, <1>3 DEF OpInv, Placed
<1>5. Reversible'
  BY <1>1, <1>2, <1>3 DEF OpInv, Reversible, Placed
<1>6. Missing = {} /\ Missing' = {}
  BY <1>1, <1>2 DEF Missing
<1>7. Restored'
  BY <1>1, <1>2, <1>3, <1>6 DEF OpInv, Restored
<1> QED
  BY <1>2, <1>4, <1>5, <1>7 DEF OpInv, Opening, Opened

LEMMA CallStep ==
    ASSUME TypeOK, LogInv, OpInv, Next
    PROVE  OpInv'
<1>1. CASE StartTurn \/ EndTurn
  BY <1>1, IdleIsSound DEF StartTurn, EndTurn, IsIdle
<1>2. CASE CheckpointFails \/ RecordRollback \/ RestoreFails \/ Crash
  BY <1>2, IdleIsSound DEF CheckpointFails, RecordRollback, RestoreFails, Crash
<1>3. CASE WriteFails \/ Verify
  BY <1>3, IdleIsSound, RestoreStarts DEF WriteFails, Verify
<1> QED
  BY <1>1, <1>2, <1>3, BeginWriteSound, BeginUndoSound, WriteManifestSound, RecordCheckpointSound,
     WriteEntrySound, RemoveEntrySound, PutEntrySound, RestoredStays DEF Next, OpStep

-----------------------------------------------------------------------------
(* What undoing every candidate makes of an entry.                         *)

Tracking(p) == {k \in Candidates : p \in Tracked(k)}

LEMMA CandidatesAreNumbers ==
    ASSUME TypeOK
    PROVE  Candidates \subseteq Checkpoint /\ Checkpoint \subseteq Nat
BY DEF TypeOK, Candidates, LoggedOf, Records, Checkpoint

\* The oldest manifest of an entry stays its oldest, and the file counts where there is none.
LEMMA UndoneKept ==
    ASSUME TypeOK, Candidates' = Candidates, \A k \in Candidates : manifest'[k] = manifest[k],
           NEW p \in Path, file'[p] = file[p] \/ Tracking(p) # {}
    PROVE  Undone(p)' = Undone(p)
<1>1. Tracking(p)' = Tracking(p)
  BY DEF Tracking, Tracked
<1>2. CASE Tracking(p) = {}
  BY <1>1, <1>2 DEF Undone, Tracking
<1>3. CASE Tracking(p) # {}
  <2>1. Tracking(p) \in SUBSET Nat
    BY CandidatesAreNumbers DEF Tracking
  <2>2. Min(Tracking(p)) \in Tracking(p)
    BY <1>3, <2>1, MinIsLeast
  <2>3. Min(Tracking(p)') = Min(Tracking(p))
    BY <1>1
  <2>4. manifest'[Min(Tracking(p))] = manifest[Min(Tracking(p))]
    BY <2>2 DEF Tracking
  <2> QED
    BY <1>1, <1>3, <2>3, <2>4 DEF Undone, Tracking
<1> QED
  BY <1>2, <1>3

\* The latest candidate gives way to the files it holds.
LEMMA UndoneWithout ==
    ASSUME TypeOK, NEW k \in Candidates, \A c \in Candidates : c <= k, Candidates' = Candidates \ {k},
           UNCHANGED <<manifest, file>>, \A q \in Tracked(k) : file[q] = manifest[k].saved[q],
           NEW p \in Path
    PROVE  Undone(p)' = Undone(p)
<1> DEFINE S == Tracking(p) \ {k}
<1>1. Tracking(p)' = S
  BY DEF Tracking, Tracked
<1>2. S \in SUBSET Nat /\ k \in Nat
  BY CandidatesAreNumbers DEF Tracking
<1>3. CASE p \notin Tracked(k)
  <2>1. Tracking(p)' = Tracking(p)
    BY <1>1, <1>3 DEF Tracking
  <2> QED
    BY <2>1 DEF Undone, Tracking
<1>4. CASE p \in Tracked(k) /\ S = {}
  <2>1. Tracking(p) = {k}
    BY <1>4 DEF Tracking
  <2>2. Min({k}) = k
    BY <1>2, LeastIsMin, {k} \in SUBSET Nat
  <2>3. Undone(p)' = file[p]
    BY <1>1, <1>4 DEF Undone, Tracking
  <2>4. Undone(p) = manifest[k].saved[p]
    BY <2>1, <2>2 DEF Undone, Tracking
  <2> QED
    BY <1>4, <2>3, <2>4
<1>5. CASE p \in Tracked(k) /\ S # {}
  <2>1. Tracking(p) = S \cup {k}
    BY <1>5 DEF Tracking
  <2>2. \A c \in S : c < k
    <3>1. \A c \in S : c <= k /\ c # k /\ c \in Nat
      BY <1>2 DEF Tracking
    <3> QED
      BY <1>2, <3>1
  <2> HIDE DEF S
  <2>3. Min(S \cup {k}) = Min(S)
    BY <1>2, <1>5, <2>2, NewerKeepsMin
  <2> QED
    BY <1>1, <1>5, <2>1, <2>3 DEF Undone, Tracking
<1> QED
  BY <1>3, <1>4, <1>5

\* A candidate that is made holds the files as they are.
LEMMA UndoneWith ==
    ASSUME TypeOK, NEW k \in Nat, \A c \in Candidates : c < k, Candidates' = Candidates \cup {k},
           UNCHANGED <<manifest, file>>, \A q \in Tracked(k) : file[q] = manifest[k].saved[q],
           NEW p \in Path
    PROVE  Undone(p)' = Undone(p)
<1> DEFINE S == Tracking(p)
<1>1. Tracking(p)' = IF p \in Tracked(k) THEN S \cup {k} ELSE S
  BY DEF Tracking, Tracked
<1>2. S \in SUBSET Nat /\ \A c \in S : c < k
  BY CandidatesAreNumbers DEF Tracking
<1>3. CASE p \notin Tracked(k)
  BY <1>1, <1>3 DEF Undone, Tracking
<1>4. CASE p \in Tracked(k) /\ S = {}
  <2>1. Tracking(p)' = {k}
    BY <1>1, <1>4
  <2>2. Min({k}) = k
    BY LeastIsMin, {k} \in SUBSET Nat
  <2>3. Undone(p)' = manifest[k].saved[p]
    BY <2>1, <2>2 DEF Undone, Tracking
  <2>4. Undone(p) = file[p]
    BY <1>4 DEF Undone, Tracking
  <2> QED
    BY <1>4, <2>3, <2>4
<1>5. CASE p \in Tracked(k) /\ S # {}
  <2> HIDE DEF S
  <2>1. Min(S \cup {k}) = Min(S)
    BY <1>2, <1>5, NewerKeepsMin
  <2>2. Tracking(p)' = S \cup {k} /\ S \cup {k} # {}
    BY <1>1, <1>5
  <2> QED
    BY <1>5, <2>1, <2>2 DEF Undone, Tracking, S
<1> QED
  BY <1>3, <1>4, <1>5

-----------------------------------------------------------------------------
(* Undoing in order.                                                       *)

LEMMA NeutralAppend ==
    ASSUME TypeOK, log' \in {log, Append(log, [type |-> "turn"]), Append(log, [type |-> "end"])}
    PROVE  /\ LoggedOf("checkpoint")' = LoggedOf("checkpoint") /\ Candidates' = Candidates
           /\ StackInv => StackInv'
<1>1. CASE log' = log
  BY <1>1 DEF LoggedOf, Candidates, StackInv, IsCheckpoint, IsRollback
<1>2. CASE log' # log
  <2>1. PICK r \in Records : r.type \in {"turn", "end"} /\ log' = Append(log, r)
    <3>1. [type |-> "turn"] \in Records /\ [type |-> "end"] \in Records
      BY DEF Records
    <3> QED
      BY <1>2, <3>1
  <2>2. /\ DOMAIN log = 1..Len(log) /\ DOMAIN log' = 1..(Len(log) + 1) /\ Len(log) \in Nat
        /\ \A i \in DOMAIN log : log'[i] = log[i]
        /\ log'[Len(log) + 1] = r
    BY <2>1, Appended DEF TypeOK
  <2>3. \A i \in DOMAIN log' : (IsCheckpoint(i) \/ IsRollback(i))' => i \in DOMAIN log /\ log'[i] = log[i]
    <3> SUFFICES ASSUME NEW i \in DOMAIN log', (IsCheckpoint(i) \/ IsRollback(i))'
                 PROVE  i \in DOMAIN log /\ log'[i] = log[i]
      OBVIOUS
    <3>1. log'[i].type \in {"checkpoint", "rollback"}
      BY DEF IsCheckpoint, IsRollback
    <3>2. i # Len(log) + 1
      BY <2>1, <2>2, <3>1
    <3> QED
      BY <2>2, <3>2
  <2>4. \A i \in DOMAIN log : i \in DOMAIN log' /\ log'[i] = log[i]
    BY <2>2
  <2>5. LoggedOf("checkpoint")' = LoggedOf("checkpoint") /\ LoggedOf("rollback")' = LoggedOf("rollback")
    BY <2>3, <2>4 DEF LoggedOf, IsCheckpoint, IsRollback
  <2>6. Candidates' = Candidates
    BY <2>5 DEF Candidates
  <2> QED
    BY <2>3, <2>5, <2>6 DEF StackInv, IsCheckpoint, IsRollback
<1> QED
  BY <1>1, <1>2

\* A step of a call that leaves log and manifests as they are.
LEMMA CallMoves ==
    ASSUME TypeOK, InOrder, UNCHANGED <<log, manifest>>, op' # Idle, op'.id = op.id, op'.mode = op.mode,
           op # Idle, HasRecord, HasRecord', op'.mode = "code" \/ op'.at \notin {"session", "rolled"}
    PROVE  InOrder'
<1>1. Candidates' = Candidates /\ StackInv'
  BY NeutralAppend DEF InOrder
<1> QED
  BY <1>1 DEF InOrder

LEMMA CallEnds ==
    ASSUME TypeOK, StackInv, op' = Idle,
           log' \in {log, Append(log, [type |-> "turn"]), Append(log, [type |-> "end"])}
    PROVE  InOrder'
<1>1. Candidates' = Candidates /\ StackInv'
  BY NeutralAppend
<1>2. op'.at = "idle"
  BY DEF Idle
<1> QED
  BY <1>1, <1>2 DEF InOrder, HasRecord

\* Where the log gets a checkpoint.
LEMMA RecordCheckpointInOrder ==
    ASSUME TypeOK, LogInv, OpInv, InOrder, RecordCheckpoint
    PROVE  /\ InOrder' /\ Candidates' = Candidates \cup {op.id} /\ op.id \in Nat
           /\ \A k \in Candidates : k < op.id
<1> DEFINE r == [type |-> "checkpoint", id |-> op.id]
<1>1. /\ op \in Calls /\ op # Idle /\ op.id \in Checkpoint /\ op.id = made
      /\ op.id \notin LoggedOf("checkpoint") \cup LoggedOf("rollback")
  BY DEF RecordCheckpoint, OpInv, Opening, TypeOK, Idle, Calls
<1>2. op'.at = "write" /\ op'.id = op.id /\ op'.mode = op.mode /\ op' # Idle
  BY <1>1 DEF RecordCheckpoint, Calls, Idle
<1>3. r \in Records /\ log' = Append(log, r)
  BY <1>1 DEF RecordCheckpoint, Logged, Records
<1>4. /\ DOMAIN log = 1..Len(log) /\ DOMAIN log' = 1..(Len(log) + 1) /\ Len(log) \in Nat
      /\ \A i \in DOMAIN log : log'[i] = log[i]
      /\ log'[Len(log) + 1] = r
  BY <1>3, Appended DEF TypeOK
<1>5. \A i \in DOMAIN log' : IsRollback(i)' => i \in DOMAIN log /\ IsRollback(i)
  BY <1>4 DEF IsRollback
<1>6. LoggedOf("rollback")' = LoggedOf("rollback")
  BY <1>4, <1>5 DEF LoggedOf, IsRollback
<1>7. LoggedOf("checkpoint")' = LoggedOf("checkpoint") \cup {op.id}
  <2>1. \A i \in DOMAIN log' : i = Len(log) + 1 \/ (i \in DOMAIN log /\ log'[i] = log[i])
    BY <1>4
  <2>2. \A i \in DOMAIN log : i \in DOMAIN log' /\ log'[i] = log[i]
    BY <1>4
  <2>3. Len(log) + 1 \in DOMAIN log' /\ log'[Len(log) + 1].type = "checkpoint"
        /\ log'[Len(log) + 1].id = op.id
    BY <1>4
  <2> QED
    BY <2>1, <2>2, <2>3 DEF LoggedOf
<1>8. Candidates' = Candidates \cup {op.id}
  BY <1>1, <1>6, <1>7 DEF Candidates
<1>9. op.id \in Nat /\ \A k \in Candidates : k < op.id
  <2>1. \A k \in Candidates : k \in Nat /\ k # op.id /\ k <= made
    BY <1>1, CandidatesAreNumbers DEF Candidates, LoggedOf, LogInv, IsCheckpoint
  <2> QED
    BY <1>1, <2>1 DEF Checkpoint
<1>10. StackInv'
  <2> SUFFICES ASSUME NEW i \in DOMAIN log', NEW j \in DOMAIN log', i < j, IsCheckpoint(i)', IsRollback(j)',
                      log'[i].id \in Candidates'
               PROVE  log'[i].id < log'[j].id
    BY DEF StackInv
  <2>1. j \in DOMAIN log /\ IsRollback(j) /\ log'[j] = log[j]
    BY <1>4, <1>5
  <2>2. i \in DOMAIN log /\ IsCheckpoint(i) /\ log'[i] = log[i]
    BY <1>4, <2>1 DEF IsCheckpoint
  <2>3. log[i].id \in Candidates
    BY <1>1, <1>8, <2>2 DEF LoggedOf, IsCheckpoint
  <2> QED
    BY <2>1, <2>2, <2>3 DEF InOrder, StackInv
<1>11. \A k \in Candidates' : k <= op.id
  BY <1>8, <1>9, CandidatesAreNumbers
<1> QED
  BY <1>1, <1>2, <1>8, <1>9, <1>10, <1>11 DEF InOrder, HasRecord

\* Where a call ends that restored the files: its checkpoint is no candidate any more.
LEMMA RecordRollbackInOrder ==
    ASSUME TypeOK, OpInv, InOrder, RecordRollback
    PROVE  InOrder' /\ Candidates' = Candidates \ {op.id}
<1> DEFINE r == [type |-> "rollback", id |-> op.id]
<1>1. op \in Calls /\ op # Idle /\ op.id \in Checkpoint /\ op.at = "rolled" /\ op' = Idle
  BY DEF RecordRollback, TypeOK, Idle, Calls
<1>2. op'.at = "idle"
  BY <1>1 DEF Idle
<1>3. r \in Records /\ log' = Append(log, r)
  BY <1>1 DEF RecordRollback, Logged, Records
<1>4. /\ DOMAIN log = 1..Len(log) /\ DOMAIN log' = 1..(Len(log) + 1) /\ Len(log) \in Nat
      /\ \A i \in DOMAIN log : log'[i] = log[i]
      /\ log'[Len(log) + 1] = r
  BY <1>3, Appended DEF TypeOK
<1>5. \A i \in DOMAIN log' : IsCheckpoint(i)' => i \in DOMAIN log /\ IsCheckpoint(i) /\ log'[i] = log[i]
  BY <1>4 DEF IsCheckpoint
<1>6. LoggedOf("checkpoint")' = LoggedOf("checkpoint")
  BY <1>4, <1>5 DEF LoggedOf, IsCheckpoint
<1>7. LoggedOf("rollback")' = LoggedOf("rollback") \cup {op.id}
  <2>1. \A i \in DOMAIN log' : i = Len(log) + 1 \/ (i \in DOMAIN log /\ log'[i] = log[i])
    BY <1>4
  <2>2. \A i \in DOMAIN log : i \in DOMAIN log' /\ log'[i] = log[i]
    BY <1>4
  <2>3. Len(log) + 1 \in DOMAIN log' /\ log'[Len(log) + 1].type = "rollback"
        /\ log'[Len(log) + 1].id = op.id
    BY <1>4
  <2> QED
    BY <2>1, <2>2, <2>3 DEF LoggedOf
<1>8. Candidates' = Candidates \ {op.id}
  BY <1>6, <1>7 DEF Candidates
<1>9. \A k \in Candidates' : k \in Candidates /\ k < op.id
  <2>1. \A k \in Candidates : k \in Nat /\ k <= op.id
    <3>1. op.mode \in {"code", "both"}
      BY <1>1 DEF InOrder, Calls, Mode
    <3>2. op.id \in Nat /\ \A k \in Candidates : k \in Nat
      BY <1>1, CandidatesAreNumbers
    <3> QED
      BY <1>1, <3>1, <3>2 DEF InOrder, HasRecord
  <2>2. op.id \in Nat
    BY <1>1, CandidatesAreNumbers
  <2> QED
    BY <1>8, <2>1, <2>2
<1>10. StackInv'
  <2> SUFFICES ASSUME NEW i \in DOMAIN log', NEW j \in DOMAIN log', i < j, IsCheckpoint(i)', IsRollback(j)',
                      log'[i].id \in Candidates'
               PROVE  log'[i].id < log'[j].id
    BY DEF StackInv
  <2>1. i \in DOMAIN log /\ IsCheckpoint(i) /\ log'[i] = log[i]
    BY <1>5
  <2>2. CASE j = Len(log) + 1
    BY <1>4, <1>9, <2>2
  <2>3. CASE j \in DOMAIN log
    <3>1. IsRollback(j) /\ log'[j] = log[j]
      BY <1>4, <2>3 DEF IsRollback
    <3> QED
      BY <1>9, <2>1, <2>3, <3>1 DEF InOrder, StackInv
  <2> QED
    BY <1>4, <2>2, <2>3
<1> QED
  BY <1>1, <1>2, <1>8, <1>10 DEF InOrder, HasRecord

\* Where the log is cut: no other candidate goes, and none comes back.
LEMMA CutLogInOrder ==
    ASSUME TypeOK, LogInv, OpInv, InOrder, CutLog
    PROVE  InOrder' /\ op.id \in Candidates /\ Candidates' = Candidates \ {op.id}
<1>1. op \in Calls /\ op # Idle /\ op.id \in Checkpoint /\ op.at = "cut"
  BY DEF CutLog, TypeOK, Idle, Calls
<1>2. op'.at = "session" /\ op'.id = op.id /\ op'.mode = op.mode /\ op' # Idle
  BY <1>1 DEF CutLog, Calls, Idle
<1>3. op.id \in Candidates /\ op.id \in Nat /\ \A k \in Candidates : k \in Nat /\ k <= op.id
  BY <1>1, CandidatesAreNumbers DEF InOrder, HasRecord
<1>4. PICK at \in DOMAIN log : IsCheckpoint(at) /\ log[at].id = op.id
  BY <1>3 DEF Candidates, LoggedOf, IsCheckpoint
<1>5. DOMAIN log = 1..Len(log) /\ Len(log) \in Nat
  BY DEF TypeOK
<1>6. DOMAIN log' = 1..(at - 1)
  <2>1. manifest[op.id].count = at - 1
    BY <1>4 DEF LogInv
  <2> QED
    <3>1. /\ DOMAIN log' = 1..Len(log')
          /\ Len(log') = IF manifest[op.id].count <= Len(log) THEN manifest[op.id].count ELSE Len(log)
      BY CutIsPrefix DEF OpInv
    <3>2. at - 1 <= Len(log)
      BY <1>4, <1>5
    <3> QED
      BY <2>1, <3>1, <3>2
<1>7. \A i \in DOMAIN log' : i \in DOMAIN log /\ i < at /\ log'[i] = log[i]
  BY <1>4, <1>5, <1>6, CutIsPrefix DEF OpInv
<1>8. \A i \in DOMAIN log' : IsCheckpoint(i)' => IsCheckpoint(i) /\ log[i].id < op.id
  BY <1>4, <1>7 DEF IsCheckpoint, LogInv
<1>9. op.id \notin LoggedOf("checkpoint")'
  BY <1>3, <1>7, <1>8 DEF LoggedOf, IsCheckpoint
<1>10. Candidates' \subseteq Candidates \ {op.id}
  <2> SUFFICES ASSUME NEW k \in Candidates'
               PROVE  k \in Candidates \ {op.id}
    OBVIOUS
  <2>1. PICK i \in DOMAIN log' : IsCheckpoint(i)' /\ log'[i].id = k
    BY DEF Candidates, LoggedOf, IsCheckpoint
  <2>2. i \in DOMAIN log /\ i < at /\ IsCheckpoint(i) /\ log[i].id = k /\ k < op.id
    BY <1>7, <1>8, <2>1
  <2>3. ASSUME NEW j \in DOMAIN log, IsRollback(j)
        PROVE  log[j].id # k
    <3>1. CASE j \in DOMAIN log'
      BY <1>7, <2>3, <3>1 DEF Candidates, LoggedOf, IsRollback
    <3>2. CASE j \notin DOMAIN log'
      <4>1. at < j
        BY <1>4, <1>5, <1>6, <2>3, <3>2 DEF IsCheckpoint, IsRollback
      <4>2. op.id < log[j].id
        BY <1>3, <1>4, <2>3, <4>1 DEF InOrder, StackInv
      <4>3. log[j].id \in Nat /\ k \in Nat
        BY <1>5, <2>1, <2>2, <2>3 DEF TypeOK, Records, IsRollback, IsCheckpoint, Checkpoint
      <4> QED
        BY <1>3, <2>2, <4>2, <4>3
    <3> QED
      BY <3>1, <3>2
  <2>4. k \in LoggedOf("checkpoint") /\ k \notin LoggedOf("rollback")
    BY <2>2, <2>3 DEF LoggedOf, IsCheckpoint, IsRollback
  <2> QED
    BY <1>9, <2>4 DEF Candidates
<1>11. Candidates \ {op.id} \subseteq Candidates'
  <2> SUFFICES ASSUME NEW k \in Candidates, k # op.id
               PROVE  k \in Candidates'
    OBVIOUS
  <2>1. PICK i \in DOMAIN log : IsCheckpoint(i) /\ log[i].id = k
    BY DEF Candidates, LoggedOf, IsCheckpoint
  <2>2. k \in Nat /\ k < op.id
    BY <1>3
  <2>3. i < at
    <3>1. ~(at < i)
      BY <1>3, <1>4, <2>1, <2>2 DEF LogInv
    <3>2. at # i
      BY <1>4, <2>1
    <3> QED
      BY <1>5, <3>1, <3>2
  <2>4. i \in DOMAIN log' /\ log'[i] = log[i]
    BY <1>4, <1>5, <1>6, <1>7, <2>3
  <2>5. k \in LoggedOf("checkpoint")'
    BY <2>1, <2>4 DEF LoggedOf, IsCheckpoint
  <2>6. k \notin LoggedOf("rollback")'
    BY <1>7 DEF Candidates, LoggedOf
  <2> QED
    BY <2>5, <2>6 DEF Candidates
<1>12. Candidates' = Candidates \ {op.id}
  BY <1>10, <1>11
<1>13. StackInv'
  BY <1>7, <1>12 DEF InOrder, StackInv, IsCheckpoint, IsRollback
<1>14. \A k \in Candidates' : k < op.id
  BY <1>3, <1>12
<1> QED
  BY <1>2, <1>3, <1>9, <1>12, <1>13, <1>14, <1>1 DEF InOrder, HasRecord

\* A candidate is never without a manifest of its own: what a checkpoint that is being made does
\* to the manifests is no concern of the candidates.
LEMMA OpeningMoves ==
    ASSUME TypeOK, OpInv, InOrder, WriteManifest \/ CheckpointFails
    PROVE  InOrder' /\ \A p \in Path : Undone(p)' = Undone(p)
<1>1. op \in Calls /\ op # Idle /\ op.at \in {"copy", "record"} /\ op.id \notin Candidates
  BY DEF WriteManifest, CheckpointFails, TypeOK, Idle, OpInv, Opening, Candidates
<1>2. Candidates' = Candidates /\ StackInv'
  BY NeutralAppend DEF WriteManifest, CheckpointFails, InOrder
<1>3. \A k \in Candidates : manifest'[k] = manifest[k]
  BY <1>1, CandidatesAreNumbers DEF WriteManifest, CheckpointFails, TypeOK
<1>4. op' = Idle \/ (op'.at = "record" /\ op'.mode = op.mode)
  BY <1>1 DEF WriteManifest, CheckpointFails, Calls
<1>5. InOrder'
  BY <1>1, <1>2, <1>4 DEF InOrder, HasRecord, Idle
<1> QED
  BY <1>2, <1>3, <1>5, UndoneKept DEF WriteManifest, CheckpointFails

LEMMA UndoStep ==
    ASSUME TypeOK, LogInv, OpInv, UndoInv, Next
    PROVE  UndoInv'
<1> SUFFICES ASSUME ~strayed'
             PROVE  InOrder' /\ UndoReachesStart'
  BY DEF UndoInv
<1>1. ~strayed
  BY Zenon DEF Next, OpStep, BeginWrite, BeginUndo, WriteManifest, CheckpointFails, RecordCheckpoint,
       WriteEntry, WriteFails, Verify, RemoveEntry, PutEntry, FilesRestored, CutLog, RestoreSession,
       RecordRollback, RestoreFails, StartTurn, EndTurn, Crash
<1>2. InOrder /\ \A p \in Path : Undone(p) = first[p]
  BY <1>1 DEF UndoInv, UndoReachesStart
<1>3. first' = first
  BY DEF Next, OpStep, BeginWrite, BeginUndo, WriteManifest, CheckpointFails, RecordCheckpoint,
       WriteEntry, WriteFails, Verify, RemoveEntry, PutEntry, FilesRestored, CutLog, RestoreSession,
       RecordRollback, RestoreFails, StartTurn, EndTurn, Crash
<1> DEFINE Same == \A p \in Path : Undone(p)' = Undone(p)
<1> SUFFICES InOrder' /\ Same
  BY <1>2, <1>3 DEF UndoReachesStart
\* Where neither the log's checkpoints nor a file changes, nothing is undone otherwise.
<1>4. ASSUME UNCHANGED <<file, manifest>>,
             log' \in {log, Append(log, [type |-> "turn"]), Append(log, [type |-> "end"])}
      PROVE  Same /\ Candidates' = Candidates /\ StackInv'
  <2>1. Candidates' = Candidates /\ StackInv'
    BY <1>2, <1>4, NeutralAppend DEF InOrder
  <2> QED
    BY <1>4, <2>1, UndoneKept
<1>5. ASSUME NEW p \in Path, op.id \in Candidates, p \in Tracked(op.id), UNCHANGED <<log, manifest>>,
             \A q \in Path : q # p => file'[q] = file[q]
      PROVE  Same
  <2>1. Candidates' = Candidates
    BY <1>5 DEF Candidates, LoggedOf
  <2>2. Tracking(p) # {}
    BY <1>5 DEF Tracking
  <2> QED
    BY <1>5, <2>1, <2>2, UndoneKept
<1>6. CASE BeginWrite
  <2>1. op'.at = "copy" /\ op'.mode = "code" /\ log' = log /\ UNCHANGED <<file, manifest>>
    BY <1>6 DEF BeginWrite
  <2> QED
    BY <1>4, <2>1 DEF InOrder, HasRecord
<1>7. ASSUME NEW k \in Checkpoint, BeginUndo(k)
      PROVE  InOrder' /\ Same
  <2>1. PICK mode \in Mode :
          /\ op' = [at |-> IF mode = "conversation" THEN "cut" ELSE "remove", id |-> k,
                    todo |-> Tracked(k), entry |-> None, restores |-> "itself", mode |-> mode,
                    undo |-> TRUE, before |-> file]
          /\ strayed' = (strayed \/ mode = "conversation" \/ k \notin Candidates
                            \/ \E newer \in Candidates : newer > k)
    BY <1>7 DEF BeginUndo
  <2>2. mode # "conversation" /\ k \in Candidates /\ ~\E newer \in Candidates : newer > k
    BY <2>1, Zenon
  <2>3. \A newer \in Candidates : newer <= k
    BY <2>2, CandidatesAreNumbers
  <2>4. op'.at = "remove" /\ op'.id = k /\ op'.mode # "conversation"
    BY <2>1, <2>2
  <2>5. Same /\ Candidates' = Candidates /\ StackInv'
    BY <1>4, <1>7 DEF BeginUndo
  <2> QED
    BY <2>2, <2>3, <2>4, <2>5 DEF InOrder
<1>8. CASE WriteManifest \/ CheckpointFails
  BY <1>2, <1>8, OpeningMoves
<1>9. CASE RecordCheckpoint
  <2>1. /\ InOrder' /\ Candidates' = Candidates \cup {op.id} /\ op.id \in Nat
        /\ \A k \in Candidates : k < op.id
    BY <1>2, <1>9, RecordCheckpointInOrder
  <2>2. \A q \in Tracked(op.id) : file[q] = manifest[op.id].saved[q]
    BY <1>9 DEF RecordCheckpoint, OpInv, Opened
  <2>3. UNCHANGED <<manifest, file>>
    BY <1>9 DEF RecordCheckpoint
  <2> QED
    BY <2>1, <2>2, <2>3, UndoneWith
<1>10. ASSUME NEW p \in Path, WriteEntry(p)
       PROVE  InOrder' /\ Same
  <2>1. op \in Calls /\ op # Idle /\ op.at = "write" /\ p \in Tracked(op.id)
    BY <1>10 DEF WriteEntry, TypeOK, Idle, OpInv, Placed
  <2>2. op'.at = "write" /\ op'.id = op.id /\ op'.mode = op.mode /\ op' # Idle
    BY <1>10, <2>1 DEF WriteEntry, Calls, Idle
  <2>3. InOrder'
    BY <1>2, <1>10, <2>1, <2>2, CallMoves DEF WriteEntry, HasRecord
  <2>4. \A q \in Path : q # p => file'[q] = file[q]
    BY <1>10 DEF WriteEntry, TypeOK
  <2>5. Same
    BY <1>2, <1>5, <1>10, <2>1, <2>4 DEF WriteEntry, InOrder, HasRecord
  <2> QED
    BY <2>3, <2>5
<1>11. CASE WriteFails \/ Verify
  <2>1. UNCHANGED <<file, manifest, log>> /\ op.at = "write" /\ (op' = Idle \/ StartRestore)
    BY <1>11 DEF WriteFails, Verify
  <2>2. CASE op' = Idle
    BY <1>2, <1>4, <2>1, <2>2, CallEnds DEF InOrder
  <2>3. CASE StartRestore
    <3>1. op \in Calls /\ op # Idle
      BY <2>1 DEF TypeOK, Idle
    <3>2. op'.at = "remove" /\ op'.id = op.id /\ op'.mode = op.mode /\ op' # Idle
      BY <2>3, <3>1 DEF StartRestore, Calls, Idle
    <3> QED
      BY <1>2, <1>4, <2>1, <3>1, <3>2, CallMoves DEF HasRecord
  <2> QED
    BY <2>1, <2>2, <2>3
<1>12. ASSUME NEW p \in Path, RemoveEntry(p)
       PROVE  InOrder' /\ Same
  <2>1. op \in Calls /\ op # Idle /\ op.at = "remove" /\ p \in Tracked(op.id)
    BY <1>12 DEF RemoveEntry, TypeOK, Idle, OpInv, Placed
  <2>2. op'.at = "put" /\ op'.id = op.id /\ op'.mode = op.mode /\ op' # Idle
    BY <1>12, <2>1 DEF RemoveEntry, Calls, Idle
  <2>3. InOrder'
    BY <1>2, <1>12, <2>1, <2>2, CallMoves DEF RemoveEntry, HasRecord
  <2>4. \A q \in Path : q # p => file'[q] = file[q]
    BY <1>12 DEF RemoveEntry, TypeOK
  <2>5. Same
    BY <1>2, <1>5, <1>12, <2>1, <2>4 DEF RemoveEntry, InOrder, HasRecord
  <2> QED
    BY <2>3, <2>5
<1>13. CASE PutEntry
  <2>1. op \in Calls /\ op # Idle /\ op.at = "put" /\ op.entry \in Tracked(op.id)
    BY <1>13 DEF PutEntry, TypeOK, Idle, OpInv, Placed
  <2>2. op'.at = "remove" /\ op'.id = op.id /\ op'.mode = op.mode /\ op' # Idle
    BY <1>13, <2>1 DEF PutEntry, Calls, Idle
  <2>3. InOrder'
    BY <1>2, <1>13, <2>1, <2>2, CallMoves DEF PutEntry, HasRecord
  <2>4. \A q \in Path : q # op.entry => file'[q] = file[q]
    BY <1>13 DEF PutEntry, TypeOK
  <2>5. op.entry \in Path
    BY <2>1 DEF OpInv, Placed, Tracked, Manifest
  <2>6. Same
    BY <1>2, <1>5, <1>13, <2>1, <2>4, <2>5 DEF PutEntry, InOrder, HasRecord
  <2> QED
    BY <2>3, <2>6
<1>14. CASE FilesRestored
  <2>1. op \in Calls /\ op # Idle /\ op.at = "remove"
    BY <1>14 DEF FilesRestored, TypeOK, Idle
  <2>2. op.mode \in {"code", "both"}
    BY <1>2, <2>1 DEF InOrder, Calls, Mode
  <2>3. /\ op'.at = (IF op.mode = "both" THEN "cut" ELSE "rolled")
        /\ op'.id = op.id /\ op'.mode = op.mode /\ op' # Idle
    BY <1>14, <2>1 DEF FilesRestored, Calls, Idle
  <2> QED
    BY <1>2, <1>4, <1>14, <2>1, <2>2, <2>3, CallMoves DEF FilesRestored, HasRecord
<1>15. CASE CutLog
  <2>1. InOrder' /\ op.id \in Candidates /\ Candidates' = Candidates \ {op.id}
    BY <1>2, <1>15, CutLogInOrder
  <2>2. op # Idle /\ op.at = "cut" /\ UNCHANGED <<manifest, file>>
    BY <1>15 DEF CutLog, Idle
  <2>3. \A q \in Tracked(op.id) : file[q] = manifest[op.id].saved[q]
    BY <1>2, <2>2 DEF InOrder, OpInv, Restored, Missing
  <2>4. \A c \in Candidates : c <= op.id
    BY <1>2, <2>2 DEF InOrder, HasRecord
  <2> QED
    BY <2>1, <2>2, <2>3, <2>4, UndoneWithout
<1>16. CASE RestoreSession
  <2>1. op \in Calls /\ op # Idle /\ op.at = "session"
    BY <1>16 DEF RestoreSession, TypeOK, Idle
  <2>2. op.mode = "both"
    BY <1>2, <2>1 DEF InOrder, OpInv, Placed, Calls, Mode
  <2>3. op'.at = "rolled" /\ op'.id = op.id /\ op'.mode = op.mode /\ op' # Idle
    BY <1>16, <2>1 DEF RestoreSession, Calls, Idle
  <2>4. Same /\ Candidates' = Candidates /\ StackInv' /\ log' = log
    BY <1>4, <1>16 DEF RestoreSession
  <2> QED
    BY <1>2, <2>1, <2>2, <2>3, <2>4 DEF InOrder, HasRecord, LoggedOf
<1>17. CASE RecordRollback
  <2>1. InOrder' /\ Candidates' = Candidates \ {op.id}
    BY <1>2, <1>17, RecordRollbackInOrder
  <2>2. op \in Calls /\ op # Idle /\ op.at = "rolled" /\ UNCHANGED <<manifest, file>>
    BY <1>17 DEF RecordRollback, TypeOK, Idle
  <2>3. op.mode \in {"code", "both"}
    BY <1>2, <2>2 DEF InOrder, Calls, Mode
  <2>4. CASE op.mode = "code"
    <3>1. \A q \in Tracked(op.id) : file[q] = manifest[op.id].saved[q]
      BY <2>2, <2>4 DEF OpInv, Restored, Missing
    <3>2. op.id \in Candidates /\ \A c \in Candidates : c <= op.id
      BY <1>2, <2>2, <2>4 DEF InOrder, HasRecord
    <3> QED
      BY <2>1, <2>2, <3>1, <3>2, UndoneWithout
  <2>5. CASE op.mode = "both"
    <3>1. op.id \notin Candidates
      BY <1>2, <2>2, <2>5 DEF InOrder, Candidates
    <3>2. Candidates' = Candidates
      BY <2>1, <3>1
    <3> QED
      BY <2>1, <2>2, <3>2, UndoneKept
  <2> QED
    BY <2>3, <2>4, <2>5
<1>18. CASE RestoreFails
  BY <1>2, <1>4, <1>18, CallEnds DEF RestoreFails, InOrder
<1>19. CASE StartTurn \/ EndTurn
  <2>1. op = Idle /\ op' = Idle /\ UNCHANGED <<file, manifest>>
        /\ log' \in {Append(log, [type |-> "turn"]), Append(log, [type |-> "end"])}
    BY <1>19 DEF StartTurn, EndTurn, IsIdle, Logged
  <2> QED
    BY <1>2, <1>4, <2>1, CallEnds DEF InOrder
<1>20. CASE Crash
  <2>1. op' = Idle /\ UNCHANGED <<file, manifest>> /\ log' \in {log, Append(log, [type |-> "end"])}
    BY <1>20 DEF Crash
  <2> QED
    BY <1>2, <1>4, <2>1, CallEnds DEF InOrder
<1> QED
  BY <1>6, <1>7, <1>8, <1>9, <1>10, <1>11, <1>12, <1>13, <1>14, <1>15, <1>16, <1>17, <1>18, <1>19,
     <1>20 DEF Next, OpStep

-----------------------------------------------------------------------------
(* Theorems.                                                               *)

LEMMA InitInv == Init => Inv
<1> SUFFICES ASSUME Init PROVE Inv
  OBVIOUS
<1>1. log = <<>> /\ DOMAIN log = {} /\ op = Idle /\ op.at = "idle" /\ file = first
      /\ \A k \in Checkpoint : manifest[k] = None
  BY DEF Init, Idle
<1>2. LogInv
  BY <1>1 DEF LogInv
<1>3. OpInv
  BY <1>1 DEF OpInv, Opening, Opened, Placed, Restored, Reversible
<1>4. Candidates = {}
  BY <1>1 DEF Candidates, LoggedOf
<1>5. InOrder
  BY <1>1 DEF InOrder, HasRecord, StackInv
<1>6. UndoReachesStart
  BY <1>1, <1>4 DEF UndoReachesStart, Undone
<1> QED
  BY <1>2, <1>3, <1>5, <1>6, InitTypes DEF Inv, UndoInv

LEMMA Invariance == Spec => []Inv
<1>1. Inv /\ [Next]_vars => Inv'
  <2> SUFFICES ASSUME Inv, [Next]_vars PROVE Inv'
    OBVIOUS
  <2>1. CASE Next
    BY <2>1, TypeStep, LogStep, CallStep, UndoStep DEF Inv
  <2>2. CASE UNCHANGED vars
    <3>1. TypeOK' /\ LogInv'
      BY <2>2 DEF Inv, vars, TypeOK, LogInv, IsCheckpoint, IsRollback
    <3>2. OpInv'
      BY <2>2 DEF Inv, vars, OpInv, Opening, Opened, Placed, Restored, Reversible, Missing, Tracked,
         LoggedOf
    <3>3. UNCHANGED <<file, first, log, manifest, op, strayed>>
      BY <2>2 DEF vars
    <3>4. Candidates' = Candidates /\ LoggedOf("checkpoint")' = LoggedOf("checkpoint")
      BY <3>3 DEF Candidates, LoggedOf
    <3>5. InOrder => InOrder'
      BY <3>3, <3>4 DEF InOrder, HasRecord, StackInv, IsCheckpoint, IsRollback
    <3>6. \A p \in Path : Undone(p)' = Undone(p)
      BY <3>3, <3>4, UndoneKept DEF Inv
    <3>7. UndoReachesStart => UndoReachesStart'
      BY <3>3, <3>6 DEF UndoReachesStart
    <3>8. UndoInv'
      BY <3>3, <3>5, <3>7 DEF Inv, UndoInv
    <3> QED
      BY <3>1, <3>2, <3>8 DEF Inv
  <2> QED
    BY <2>1, <2>2
<1> QED
  BY <1>1, InitInv, PTL DEF Spec

\* Whatever calls, turns and restores a session runs, and wherever the process dies, its
\* checkpoints, its log and the call at work have their types.
THEOREM CheckpointTypeCorrect == Spec => []TypeOK
BY Invariance, PTL DEF Inv

\* As long as only the latest candidate was undone, with its conversation or without: undoing on
\* and on, at any moment and after a crash at any step, gives the workspace back as the session
\* found it.
THEOREM UndoReachesTheStart == Spec => []UndoReachesStart
<1>1. Inv => UndoReachesStart
  BY DEF Inv, UndoInv, UndoReachesStart
<1> QED
  BY <1>1, Invariance, PTL

\* When the runtime records that a call was rolled back, every entry is as the call found it.
THEOREM FailedCallsAreUndone == Spec => FailedCallUndone
<1> DEFINE Step == ~IsIdle /\ op.at = "rolled" /\ ~op.undo /\ op' = Idle /\ log' # log => file = op.before
<1>1. Inv => Step
  <2> SUFFICES ASSUME Inv, op # Idle, op.at = "rolled", ~op.undo
               PROVE  file = op.before
    BY DEF IsIdle
  <2>1. op \in Calls /\ op.before \in [Path -> Content] /\ file \in [Path -> Content]
    BY DEF Inv, TypeOK, Calls
  <2>2. op.mode = "code" /\ Missing = {}
    BY DEF Inv, OpInv, Placed, Missing
  <2>3. \A p \in Path : file[p] = op.before[p]
    BY <2>2 DEF Inv, OpInv, Restored, Reversible
  <2> QED
    BY <2>1, <2>3
<1> QED
  BY <1>1, Invariance, PTL DEF FailedCallUndone
-----------------------------------------------------------------------------
(* The other parts of MCWorkspace.  What is proved of Git's tools and of    *)
(* publication holds of every behaviour of MCWorkspace, which starts and    *)
(* steps as they do: the same definitions, in two instances.                *)

Files == INSTANCE GitAndPublication_proofs WITH NoJob <- None

LEMMA SameStart == MCInit => Files!Init /\ Files!PubInit
  BY DEF MCInit, Git!Init, Git!CommitId, Git!Clear, Git!NoOp, Files!Init, Files!CommitId, Files!Clear,
         Files!NoOp, Pub!PubInit, Pub!Place, Pub!Old, Pub!Inode, Pub!Back, Files!PubInit,
         Files!Place, Files!Old, Files!Inode, Files!Back

LEMMA SameCommits == /\ Git!Commits = Files!Commits
                     /\ \A c, ancestors : Git!NewCommit(c, ancestors) <=> Files!NewCommit(c, ancestors)
<1>1. Git!Commits = Files!Commits
  BY DEF Git!Commits, Git!CommitId, Files!Commits, Files!CommitId
<1>2. Git!Cardinality(Git!Commits) = Files!Cardinality(Git!Commits)
  BY DEF Git!Cardinality, Files!Cardinality
<1> QED
  BY <1>1, <1>2 DEF Git!NewCommit, Git!CommitId, Files!NewCommit, Files!CommitId

LEMMA SameCommand == \A o : Git!Git(o) <=> Files!Git(o)
<1> TAKE o
<1>1. Git!Possible(o) <=> Files!Possible(o)
  BY DEF Git!Possible, Git!Allowed, Git!Merged, Git!Exists, Git!BranchGuards, Git!AddGuards,
     Git!RemoveGuards, Git!CommitGuards, Git!Integrations, Git!IntegrationGuards, Git!Head,
     Git!Clean, Git!Occupied, Git!Clear, Files!Possible, Files!Allowed, Files!Merged,
     Files!Exists, Files!BranchGuards, Files!AddGuards, Files!RemoveGuards, Files!CommitGuards,
     Files!Integrations, Files!IntegrationGuards, Files!Head, Files!Clean, Files!Occupied,
     Files!Clear
<1>2. Git!RunBranch(o) <=> Files!RunBranch(o)
  BY DEF Git!RunBranch, Git!Target, Git!Merged, Git!Head, Git!Integrations, Files!RunBranch,
     Files!Target, Files!Merged, Files!Head, Files!Integrations
<1>3. Git!AddWorktree(o) <=> Files!AddWorktree(o)
  BY DEF Git!AddWorktree, Git!Target, Git!Head, Git!Integrations, Files!AddWorktree, Files!Target,
     Files!Head, Files!Integrations
<1>4. Git!RemoveWorktree(o) <=> Files!RemoveWorktree(o)
  BY DEF Git!RemoveWorktree, Files!RemoveWorktree
<1>5. Git!StageFiles(o) <=> Files!StageFiles(o)
  BY DEF Git!StageFiles, Files!StageFiles
<1>6. Git!RestoreFiles(o) <=> Files!RestoreFiles(o)
  BY DEF Git!RestoreFiles, Files!RestoreFiles
<1>7. \A w, ancestors : Git!CommitOnto(w, ancestors) <=> Files!CommitOnto(w, ancestors)
  BY SameCommits DEF Git!CommitOnto, Files!CommitOnto, Git!CommitId, Files!CommitId
<1>8. Git!CommitStaged(o) <=> Files!CommitStaged(o)
  BY <1>7 DEF Git!CommitStaged, Files!CommitStaged, Git!Head, Files!Head
<1>9. Git!Integrate(o) <=> Files!Integrate(o)
  <2>1. Git!Bases(o) = Files!Bases(o)
    BY DEF Git!Bases, Files!Bases, Git!Head, Files!Head
  <2> QED
    BY <1>7, <2>1 DEF Git!Integrate, Files!Integrate, Git!Head, Files!Head, Git!Clear, Files!Clear,
       Git!Conflicted, Files!Conflicted, Git!Integrations, Files!Integrations
<1> QED
  BY <1>1, <1>2, <1>3, <1>4, <1>5, <1>6, <1>8, <1>9 DEF Git!Git, Files!Git

LEMMA SameOthers == \A ops : Git!OthersAct(ops) <=> Files!OthersAct(ops)
<1>1. Git!Max(Git!Commits) = Files!Max(Git!Commits)
  BY DEF Git!Max, Files!Max
<1> QED
  BY <1>1, SameCommits, SameCommand DEF Git!OthersAct, Git!Exists, Git!CommitId, Files!OthersAct, Files!Exists, Files!CommitId

LEMMA SameCall ==
    \A t : /\ \A o : Git!Ask(t, o) <=> Files!Ask(t, o)
           /\ Git!Resume(t) <=> Files!Resume(t)
           /\ Git!Decline(t) <=> Files!Decline(t)
           /\ Git!Enter(t) <=> Files!Enter(t)
           /\ Git!Recheck(t) <=> Files!Recheck(t)
           /\ Git!Stale(t) <=> Files!Stale(t)
           /\ Git!Command(t) <=> Files!Command(t)
<1> TAKE t
<1>1. \A o : Git!Ask(t, o) <=> Files!Ask(t, o)
  BY DEF Git!Ask, Git!Showable, Git!Facts, Git!repository, Git!Exists, Git!Allowed, Git!Snapshot,
     Git!Target, Git!BranchGuards, Git!AddGuards, Git!RemoveGuards, Git!CommitGuards,
     Git!Integrations, Git!IntegrationGuards, Git!Head, Git!Clean, Git!Occupied, Git!Clear,
     Files!Ask, Files!Showable, Files!Facts, Files!repository, Files!Exists, Files!Allowed,
     Files!Snapshot, Files!Target, Files!BranchGuards, Files!AddGuards, Files!RemoveGuards,
     Files!CommitGuards, Files!Integrations, Files!IntegrationGuards, Files!Head, Files!Clean,
     Files!Occupied, Files!Clear
<1>2. Git!Resume(t) <=> Files!Resume(t)
  BY DEF Git!Resume, Git!Showable, Git!Key, Git!Facts, Git!repository, Git!Exists, Git!Allowed,
     Git!Snapshot, Git!Target, Git!BranchGuards, Git!AddGuards, Git!RemoveGuards,
     Git!CommitGuards, Git!Integrations, Git!IntegrationGuards, Git!Head, Git!Clean,
     Git!Occupied, Git!Clear, Files!Resume, Files!Showable, Files!Key, Files!Facts,
     Files!repository, Files!Exists, Files!Allowed, Files!Snapshot, Files!Target,
     Files!BranchGuards, Files!AddGuards, Files!RemoveGuards, Files!CommitGuards,
     Files!Integrations, Files!IntegrationGuards, Files!Head, Files!Clean, Files!Occupied,
     Files!Clear
<1>3. Git!Decline(t) <=> Files!Decline(t)
  BY DEF Git!Decline, Git!NoOp, Git!repository, Files!Decline, Files!NoOp, Files!repository
<1>4. Git!Enter(t) <=> Files!Enter(t)
  BY DEF Git!Enter, Git!Allowed, Git!repository, Git!Exists, Git!BranchGuards, Git!AddGuards,
     Git!RemoveGuards, Git!CommitGuards, Git!Integrations, Git!IntegrationGuards, Git!Clean,
     Git!Occupied, Git!Clear, Files!Enter, Files!Allowed, Files!repository, Files!Exists,
     Files!BranchGuards, Files!AddGuards, Files!RemoveGuards, Files!CommitGuards,
     Files!Integrations, Files!IntegrationGuards, Files!Clean, Files!Occupied, Files!Clear
<1>5. Git!Recheck(t) <=> Files!Recheck(t)
  BY DEF Git!Recheck, Git!Rechecked, Git!Key, Git!Facts, Git!repository, Git!Exists, Git!Allowed,
     Git!Merged, Git!Snapshot, Git!Target, Git!BranchGuards, Git!AddGuards, Git!RemoveGuards,
     Git!CommitGuards, Git!Integrations, Git!IntegrationGuards, Git!Head, Git!Clean,
     Git!Occupied, Git!Clear, Files!Recheck, Files!Rechecked, Files!Key, Files!Facts,
     Files!repository, Files!Exists, Files!Allowed, Files!Merged, Files!Snapshot, Files!Target,
     Files!BranchGuards, Files!AddGuards, Files!RemoveGuards, Files!CommitGuards,
     Files!Integrations, Files!IntegrationGuards, Files!Head, Files!Clean, Files!Occupied,
     Files!Clear
<1>6. Git!Stale(t) <=> Files!Stale(t)
  BY DEF Git!Stale, Git!NoOp, Git!Leave, Git!repository, Files!Stale, Files!NoOp, Files!Leave,
     Files!repository
<1>7. Git!Command(t) <=> Files!Command(t)
  BY SameCommand DEF Git!Command, Files!Command, Git!repository, Files!repository, Git!NoOp, Files!NoOp,
     Git!Leave, Files!Leave
<1> QED
  BY <1>1, <1>2, <1>3, <1>4, <1>5, <1>6, <1>7

\* The tools of a part are some of Git's tools.
LEMMA SameGit == Git!GitSteps(Git!Op) <=> Files!GitNext
<1>1. Git!Op = Files!Op
  BY DEF Git!Op, Git!OnBranch, Git!OnWorktree, Git!OnChanges, Git!Integrations, Files!Op,
         Files!OnBranch, Files!OnWorktree, Files!OnChanges, Files!Integrations
<1>2. Git!GitSteps(Git!Op) <=> Files!GitSteps(Git!Op)
  BY SameCall, SameOthers DEF Git!GitSteps, Files!GitSteps
<1> QED
  BY <1>1, <1>2 DEF Files!GitNext

LEMMA FewerTools == ASSUME NEW ops \in SUBSET Git!Op PROVE Git!GitSteps(ops) => Git!GitSteps(Git!Op)
  BY DEF Git!GitSteps, Git!OthersAct

LEMMA SamePublication == Pub!PubNext <=> Files!PubNext
  BY DEF Pub!PubNext, Pub!PlanDownload, Pub!AskExport, Pub!AskPatch, Pub!CallStep, Pub!WriteInPlace,
         Pub!Replace, Pub!ReplaceStaged, Pub!Delete, Pub!Abort, Pub!Crash, Pub!Call,
         Pub!Checkpoint, Pub!Baseline, Pub!Receive, Pub!Finish, Pub!RequestFails,
         Pub!CheckDest, Pub!Move, Pub!CheckMoved, Pub!CheckStage, Pub!Link, Pub!CheckLinked,
         Pub!Verify, Pub!Unlink, Pub!Unlinking, Pub!Restore, Pub!Restoring, Pub!Discard,
         Pub!Cleanup, Pub!CheckApproved, Pub!Prepare, Pub!Stage, Pub!CheckTarget,
         Pub!WriteFails, Pub!Commit, Pub!Published, Pub!RollBack, Pub!PutBack, Pub!Act,
         Pub!Back, Pub!Stray, Pub!AtWork, Pub!Go, Pub!Part, Pub!Fingerprint, Pub!Made,
         Pub!IsAt, Pub!Content, Pub!Overwritten, Pub!Fails, Pub!MayReplace, Pub!Names,
         Pub!Whole, Pub!Wrong, Pub!TooLate, Pub!Reachable, Pub!Others, Files!PubNext,
         Files!PlanDownload, Files!AskExport, Files!AskPatch, Files!CallStep,
         Files!WriteInPlace, Files!Replace, Files!ReplaceStaged, Files!Delete, Files!Abort,
         Files!Crash, Files!Call, Files!Checkpoint, Files!Baseline, Files!Receive,
         Files!Finish, Files!RequestFails, Files!CheckDest, Files!Move, Files!CheckMoved,
         Files!CheckStage, Files!Link, Files!CheckLinked, Files!Verify, Files!Unlink,
         Files!Unlinking, Files!Restore, Files!Restoring, Files!Discard, Files!Cleanup,
         Files!CheckApproved, Files!Prepare, Files!Stage, Files!CheckTarget, Files!WriteFails,
         Files!Commit, Files!Published, Files!RollBack, Files!PutBack, Files!Act, Files!Back,
         Files!Stray, Files!AtWork, Files!Go, Files!Part, Files!Fingerprint, Files!Made,
         Files!IsAt, Files!Content, Files!Overwritten, Files!Fails, Files!MayReplace,
         Files!Names, Files!Whole, Files!Wrong, Files!TooLate, Files!Reachable, Files!Others

LEMMA EveryPart == MCSpec => Files!GitSpec /\ Files!PubSpec
<1>1. [MCNext]_<<part, vars, gitVars, pubVars, saveVars>> => [Files!GitNext]_Files!gitVars
  <2>1. GitNext => Files!GitNext
    BY FewerTools, SameGit DEF GitNext
  <2> QED
    BY <2>1 DEF MCNext, gitVars, Files!gitVars, Files!repository
<1>2. [MCNext]_<<part, vars, gitVars, pubVars, saveVars>> => [Files!PubNext]_Files!pubVars
  BY SamePublication DEF MCNext, pubVars, Files!pubVars
<1> QED
  BY <1>1, <1>2, SameStart, PTL DEF MCSpec, Files!GitSpec, Files!PubSpec

\* Whatever calls, users and other programs do in between, a Git command runs on the repository that
\* was shown, unless somebody acts after the last look; a rebase apart.
THEOREM CommandsActAsApproved ==
    ASSUME None \notin Task
    PROVE  MCSpec => ActsAsApproved
<1> DEFINE Step == \A t \in Task : Git!Runs(t) /\ t \notin disturbed /\ call[t].op.kind # "rebase"
                                  => Git!Facts(call[t].op) = call[t].seen
<1>1. (\A t \in Task : Files!Runs(t) /\ t \notin disturbed /\ call[t].op.kind # "rebase"
                      => Files!Facts(call[t].op) = call[t].seen) => Step
  BY DEF Git!Runs, Git!Facts, Git!repository, Git!Snapshot, Git!Target, Git!Head, Git!Exists,
         Git!Integrations, Files!Runs, Files!Facts, Files!repository, Files!Snapshot,
         Files!Target, Files!Head, Files!Exists, Files!Integrations
<1>2. UNCHANGED Files!gitVars => UNCHANGED Git!gitVars
  BY DEF Files!gitVars, Git!gitVars, Files!repository, Git!repository
<1>3. Files!ActsAsApproved => ActsAsApproved
  BY <1>1, <1>2, PTL DEF ActsAsApproved, Git!ActsAsApproved, Files!ActsAsApproved
<1> QED
  BY <1>3, EveryPart, Files!CommandsAreApproved

\* What MCWorkspace publishes is sound, however many others act on the same file.
THEOREM FilesArePublishedSoundly ==
    ASSUME None \notin Files!Job, MaxActs \in Nat
    PROVE  MCSpec => []PublicationSound
<1>1. Files!PublicationSound <=> PublicationSound
  BY DEF PublicationSound, Pub!PublicationSound, Pub!NeverPartial, Pub!SuccessIsWhole, Pub!FailureKeepsOld,
         Pub!OthersKept, Pub!Content, Pub!Part, Pub!IsAt, Pub!Fingerprint, Pub!Whole,
         Pub!Reachable, Pub!Made, Files!PublicationSound, Files!NeverPartial,
         Files!SuccessIsWhole, Files!FailureKeepsOld, Files!OthersKept, Files!Content,
         Files!Part, Files!IsAt, Files!Fingerprint, Files!Whole, Files!Reachable, Files!Made
<1>2. MCSpec => []Files!PublicationSound
  BY EveryPart, Files!PublishedFilesAreSound
<1> QED
  BY <1>1, <1>2, PTL

-----------------------------------------------------------------------------
(* Saves of the settings.                                                  *)

SlotsOf == Profile \cup {Legacy}
Models == [Slot -> Saves!AnyProfile \cup {None}]
Fits(profile, slot) == profile = Classic \/ (profile \in SlotsOf /\ slot \in library.allowed[profile])

\* A file of version 1 counts no revisions, and what a file binds a slot to is allowed for it.
FileOK(f) ==
    /\ files[f] \in Saves!File \cup {None}
    /\ files[f] # None /\ files[f].version = 1 => files[f].revision = 0
    /\ "library" \notin overlap /\ files[f] # None =>
         \A slot \in Slot : files[f].models[slot] = None \/ Fits(files[f].models[slot], slot)

LibraryOK == DOMAIN library.allowed = SlotsOf

SaveTyped(w) ==
    /\ DOMAIN writer[w] = {"at", "kind", "slot", "profile", "form", "next", "save"}
    /\ writer[w].at # "idle" =>
         writer[w].kind \in Saves!Kind /\ writer[w].slot \in Slot /\ writer[w].profile \in Saves!AnyProfile
    /\ writer[w].at \in Saves!Writing \cup {"form"} /\ writer[w].kind # "command" =>
         writer[w].form.expected \in Nat /\ writer[w].profile \in SlotsOf
    /\ writer[w].at = "library" => DOMAIN writer[w].next.allowed = SlotsOf
    /\ writer[w].at \in {"check", "rename"} =>
         /\ writer[w].save.file \in {"user", "project"} /\ writer[w].save.expected \in Nat
         /\ writer[w].save.models \in Models /\ writer[w].save.mode \in Saves!Mode

\* What a save is about to write is allowed, whatever was saved since it was worked out.
SaveAllowed(w) ==
    /\ writer[w].at = "library" =>
         \A p \in SlotsOf : library.allowed[p] \subseteq writer[w].next.allowed[p]
    /\ writer[w].at \in {"check", "rename"} =>
         \A slot \in Slot : Fits(writer[w].save.models[slot], slot)

\* The revision that a form has stands for the models it showed, and a save that has compared its
\* revision has that of the file.
SaveCurrent(w) ==
    /\ writer[w].at \in Saves!Writing \cup {"form"} /\ writer[w].kind # "command" /\ writer[w].form.own =>
         /\ writer[w].form.expected <= Saves!Revision(files[Saves!Target])
         /\ writer[w].form.expected = Saves!Revision(files[Saves!Target]) => Saves!MergedModels = writer[w].form.shown
    /\ writer[w].at \in {"check", "rename"} =>
         /\ writer[w].save.file = Saves!Target
         /\ writer[w].kind \in {"models", "classic", "profile"} =>
              writer[w].save.expected = writer[w].form.expected
    /\ writer[w].at = "rename" => writer[w].save.expected = Saves!Revision(files[Saves!Target])

SaveOK(w) ==
    /\ SaveTyped(w)
    /\ "library" \notin overlap => SaveAllowed(w)
    /\ overlap = {} => SaveCurrent(w)

\* Saves that do not overlap.
OneAtATime ==
    \A w \in Writer, v \in Writer : v # w =>
        /\ "library" \notin overlap => ~(writer[v].at = "library" /\ writer[w].at = "library")
        /\ "settings" \notin overlap => ~(writer[v].at \in Saves!Writing /\ writer[w].at \in Saves!Writing)

SavesInv ==
    /\ DOMAIN files = {"user", "project"} /\ DOMAIN writer = Writer
    /\ \A f \in {"user", "project"} : FileOK(f)
    /\ LibraryOK
    /\ \A w \in Writer : SaveOK(w)
    /\ OneAtATime

LEMMA SavesInitInv == ASSUME Saves!SettingsInit PROVE SavesInv
<1>1. \A f \in {"user", "project"} : FileOK(f)
  <2> TAKE f \in {"user", "project"}
  <2>1. files[f] \in {None} \cup Saves!Unversioned \cup Saves!Versioned /\ SlotsOf = Profile \cup {Legacy}
        /\ library.allowed = [p \in Profile \cup {Legacy} |-> IF p = Legacy THEN Slot ELSE {}]
    BY DEF Saves!SettingsInit, SlotsOf
  <2>2. CASE files[f] = None
    BY <2>2 DEF FileOK
  <2>3. CASE files[f] \in Saves!Unversioned
    BY <2>1, <2>3 DEF FileOK, Saves!Unversioned, Saves!File, Saves!AnyProfile, Saves!Mode, Fits
  <2>4. CASE files[f] \in Saves!Versioned
    BY <2>1, <2>4 DEF FileOK, Saves!Versioned, Saves!File, Saves!AnyProfile, Saves!Mode, Fits
  <2> QED
    BY <2>1, <2>2, <2>3, <2>4
<1>2. \A w \in Writer : writer[w] = Saves!NotBegun /\ writer[w].at = "idle"
  BY DEF Saves!SettingsInit, Saves!NotBegun
<1>3. \A w \in Writer : SaveOK(w)
  BY <1>2 DEF SaveOK, SaveTyped, SaveAllowed, SaveCurrent, Saves!NotBegun, Saves!Writing
<1>4. OneAtATime
  BY <1>2 DEF OneAtATime, Saves!Writing
<1>5. LibraryOK
  BY DEF LibraryOK, Saves!SettingsInit, SlotsOf
<1> QED
  BY <1>1, <1>3, <1>4, <1>5 DEF SavesInv, Saves!SettingsInit

\* One save goes on and writes nothing.
LEMMA SaveMoves ==
    ASSUME SavesInv, NEW w \in Writer, UNCHANGED <<files, library, overlap>>,
           DOMAIN writer' = Writer, \A v \in Writer : v # w => writer'[v] = writer[v], SaveOK(w)',
           "library" \notin overlap /\ writer'[w].at = "library" =>
             \A v \in Writer : v # w => writer[v].at # "library",
           "settings" \notin overlap /\ writer'[w].at \in Saves!Writing =>
             \A v \in Writer : v # w => writer[v].at \notin Saves!Writing
    PROVE  SavesInv'
<1>1. \A f \in {"user", "project"} : FileOK(f)'
  BY DEF SavesInv, FileOK, Fits
<1>2. \A v \in Writer : SaveOK(v)'
  <2> TAKE v \in Writer
  <2>1. CASE v = w
    BY <2>1
  <2>2. CASE v # w
    <3>1. writer'[v] = writer[v] /\ SaveOK(v)
      BY <2>2 DEF SavesInv
    <3>2. Saves!Target' = Saves!Target /\ Saves!MergedModels' = Saves!MergedModels
      BY DEF Saves!Target, Saves!MergedModels, Saves!EffectiveModels
    <3>3. SaveTyped(v)'
      BY <3>1 DEF SaveOK, SaveTyped
    <3>4. "library" \notin overlap => SaveAllowed(v)'
      BY <3>1 DEF SaveOK, SaveAllowed, Fits
    <3>5. overlap = {} => SaveCurrent(v)'
      BY <3>1, <3>2 DEF SaveOK, SaveCurrent
    <3> QED
      BY <3>3, <3>4, <3>5 DEF SaveOK
  <2> QED
    BY <2>1, <2>2
<1>3. OneAtATime'
  BY DEF SavesInv, OneAtATime
<1>4. LibraryOK'
  BY DEF SavesInv, LibraryOK
<1> QED
  BY <1>1, <1>2, <1>3, <1>4 DEF SavesInv

\* A form that shows the file to be replaced has its revision.
LEMMA FormShows ==
    ASSUME SavesInv, Saves!ShowsTarget
    PROVE  Saves!MergedRevision = Saves!Revision(files[Saves!Target])
<1>1. FileOK("user") /\ FileOK("project")
  BY DEF SavesInv
<1> QED
  BY <1>1
     DEF FileOK, Saves!File, Saves!ShowsTarget, Saves!MergedRevision, Saves!Revision, Saves!Version,
         Saves!Target

LEMMA RevisionIsNat ==
    ASSUME SavesInv
    PROVE  /\ Saves!Target \in {"user", "project"} /\ Saves!MergedRevision \in Nat
           /\ \A f \in {"user", "project"} : Saves!Revision(files[f]) \in Nat
<1>1. \A f \in {"user", "project"} : Saves!Revision(files[f]) \in Nat
  BY DEF SavesInv, FileOK, Saves!Revision, Saves!File
<1> QED
  BY <1>1 DEF Saves!Target, Saves!MergedRevision

LEMMA OpenFormSaves == ASSUME SavesInv, NEW w \in Writer, Saves!OpenForm(w) PROVE SavesInv'
<1>1. PICK kind \in Saves!Kind \ {"command"}, slot \in Slot, profile \in Profile \cup {Legacy} :
         writer' = [writer EXCEPT ![w] =
              [Saves!NotBegun EXCEPT !.at = "form", !.kind = kind, !.slot = slot, !.profile = profile,
                               !.form = [expected |-> Saves!MergedRevision,
                                         expectedLibrary |-> library.revision,
                                         shown |-> Saves!MergedModels, own |-> Saves!ShowsTarget]]]
  BY DEF Saves!OpenForm
<1> DEFINE form == [expected |-> Saves!MergedRevision, expectedLibrary |-> library.revision,
                    shown |-> Saves!MergedModels, own |-> Saves!ShowsTarget]
<1>2. /\ UNCHANGED <<files, library, overlap>> /\ DOMAIN writer' = Writer
      /\ \A v \in Writer : v # w => writer'[v] = writer[v]
      /\ writer'[w] = [Saves!NotBegun EXCEPT !.at = "form", !.kind = kind, !.slot = slot, !.profile = profile,
                                       !.form = form]
  BY <1>1 DEF SavesInv, Saves!OpenForm
<1>3. form.expected = Saves!MergedRevision /\ form.shown = Saves!MergedModels /\ form.own = Saves!ShowsTarget
  OBVIOUS
<1> HIDE DEF form
<1>4. /\ DOMAIN writer'[w] = {"at", "kind", "slot", "profile", "form", "next", "save"}
      /\ writer'[w].at = "form" /\ writer'[w].kind = kind /\ writer'[w].slot = slot
      /\ writer'[w].profile = profile /\ writer'[w].form = form
  BY <1>2 DEF Saves!NotBegun
<1>5. Saves!Target' = Saves!Target /\ Saves!MergedModels' = Saves!MergedModels /\ Saves!Revision(files[Saves!Target])' = Saves!Revision(files[Saves!Target])
  BY <1>2 DEF Saves!Target, Saves!MergedModels, Saves!EffectiveModels
<1>6. SaveTyped(w)'
  BY <1>3, <1>4, RevisionIsNat DEF SaveTyped, Saves!AnyProfile, SlotsOf
<1>7. SaveAllowed(w)'
  BY <1>4 DEF SaveAllowed
<1>8. SaveCurrent(w)'
  <2>1. form.own => Saves!MergedRevision = Saves!Revision(files[Saves!Target])
    BY <1>3, FormShows
  <2>2. Saves!MergedRevision \in Nat
    BY RevisionIsNat
  <2> QED
    BY <1>3, <1>4, <1>5, <2>1, <2>2 DEF SaveCurrent
<1> QED
  BY <1>2, <1>4, <1>6, <1>7, <1>8, SaveMoves DEF SaveOK, Saves!Writing

\* What the invariant says of a save, and what stays when it only goes to another place.
LEMMA SaveGoes ==
    ASSUME SavesInv, NEW w \in Writer, NEW place, Saves!Go(w, place), UNCHANGED <<files, library, overlap>>
    PROVE  /\ DOMAIN writer' = Writer /\ \A v \in Writer : v # w => writer'[v] = writer[v]
           /\ DOMAIN writer'[w] = {"at", "kind", "slot", "profile", "form", "next", "save"}
           /\ writer'[w].at = place /\ writer'[w].kind = writer[w].kind /\ writer'[w].slot = writer[w].slot
           /\ writer'[w].profile = writer[w].profile /\ writer'[w].form = writer[w].form
           /\ writer'[w].next = writer[w].next /\ writer'[w].save = writer[w].save
           /\ Saves!Target' = Saves!Target /\ Saves!MergedModels' = Saves!MergedModels
           /\ Saves!Revision(files[Saves!Target])' = Saves!Revision(files[Saves!Target])
<1>1. Saves!Target' = Saves!Target /\ Saves!MergedModels' = Saves!MergedModels /\ Saves!Revision(files[Saves!Target])' = Saves!Revision(files[Saves!Target])
  BY DEF Saves!Target, Saves!MergedModels, Saves!EffectiveModels
<1>2. DOMAIN writer[w] = {"at", "kind", "slot", "profile", "form", "next", "save"} /\ DOMAIN writer = Writer
  BY DEF SavesInv, SaveOK, SaveTyped
<1> QED
  BY <1>1, <1>2 DEF Saves!Go

LEMMA SaveFails ==
    ASSUME SavesInv, NEW w \in Writer, writer[w].at # "idle", NEW place \in {"failed", "saved"}, Saves!Go(w, place),
           UNCHANGED <<files, library, overlap>>
    PROVE  SavesInv'
<1>1. /\ DOMAIN writer' = Writer /\ \A v \in Writer : v # w => writer'[v] = writer[v]
      /\ DOMAIN writer'[w] = {"at", "kind", "slot", "profile", "form", "next", "save"}
      /\ writer'[w].at = place /\ writer'[w].kind = writer[w].kind /\ writer'[w].slot = writer[w].slot
      /\ writer'[w].profile = writer[w].profile
  BY SaveGoes
<1>2. SaveTyped(w) /\ place \notin Saves!Writing
  BY DEF SavesInv, SaveOK, Saves!Writing
<1>3. SaveTyped(w)'
  BY <1>1, <1>2 DEF SaveTyped, Saves!Writing
<1>4. SaveAllowed(w)' /\ SaveCurrent(w)'
  BY <1>1 DEF SaveAllowed, SaveCurrent, Saves!Writing
<1> QED
  BY <1>1, <1>2, <1>3, <1>4, SaveMoves DEF SaveOK, Saves!Writing

LEMMA SubmitSaves == ASSUME SavesInv, NEW w \in Writer, Saves!Submit(w) PROVE SavesInv'
<1>0. writer[w].at = "form" /\ Saves!IsAlone(w) /\ Saves!Go(w, "read") /\ UNCHANGED <<files, library, overlap>> /\ SaveOK(w)
  BY DEF Saves!Submit, Saves!At, SavesInv
<1>1. /\ DOMAIN writer' = Writer /\ \A v \in Writer : v # w => writer'[v] = writer[v]
      /\ DOMAIN writer'[w] = {"at", "kind", "slot", "profile", "form", "next", "save"}
      /\ writer'[w].at = "read" /\ writer'[w].kind = writer[w].kind /\ writer'[w].slot = writer[w].slot
      /\ writer'[w].profile = writer[w].profile /\ writer'[w].form = writer[w].form
      /\ Saves!MergedModels' = Saves!MergedModels /\ Saves!Revision(files[Saves!Target])' = Saves!Revision(files[Saves!Target])
  BY <1>0, SaveGoes
<1>2. SaveTyped(w)'
  BY <1>0, <1>1 DEF SaveOK, SaveTyped, Saves!Writing
<1>3. SaveAllowed(w)'
  BY <1>1 DEF SaveAllowed
<1>4. overlap = {} => SaveCurrent(w)'
  BY <1>0, <1>1 DEF SaveOK, SaveCurrent, Saves!Writing
<1> QED
  BY <1>0, <1>1, <1>2, <1>3, <1>4, SaveMoves DEF SaveOK, Saves!IsAlone

LEMMA CommandSaves == ASSUME SavesInv, NEW w \in Writer, Saves!Command(w) PROVE SavesInv'
<1>1. PICK slot \in Slot, profile \in Saves!AnyProfile :
         writer' = [writer EXCEPT ![w] =
           [Saves!NotBegun EXCEPT !.at = "read", !.kind = "command", !.slot = slot, !.profile = profile]]
  BY DEF Saves!Command, Saves!AnyProfile
<1>2. /\ UNCHANGED <<files, library, overlap>> /\ DOMAIN writer' = Writer /\ Saves!IsAlone(w)
      /\ \A v \in Writer : v # w => writer'[v] = writer[v]
      /\ writer'[w] = [Saves!NotBegun EXCEPT !.at = "read", !.kind = "command", !.slot = slot, !.profile = profile]
  BY <1>1 DEF SavesInv, Saves!Command
<1>3. /\ DOMAIN writer'[w] = {"at", "kind", "slot", "profile", "form", "next", "save"}
      /\ writer'[w].at = "read" /\ writer'[w].kind = "command" /\ writer'[w].slot = slot
      /\ writer'[w].profile = profile
  BY <1>2 DEF Saves!NotBegun
<1>4. SaveOK(w)'
  BY <1>3 DEF SaveOK, SaveTyped, SaveAllowed, SaveCurrent, Saves!Kind
<1> QED
  BY <1>2, <1>3, <1>4, SaveMoves DEF Saves!IsAlone

LEMMA CheckProfileSaves == ASSUME SavesInv, NEW w \in Writer, Saves!CheckProfile(w) PROVE SavesInv'
<1>0. /\ writer[w].at = "form" /\ writer[w].kind = "profile" /\ Saves!IsAlone(w) /\ UNCHANGED <<files, library, overlap>>
      /\ "library" \notin overlap => \A v \in Writer : writer[v].at # "library"
      /\ SaveOK(w) /\ writer[w].profile \in SlotsOf /\ DOMAIN library.allowed = SlotsOf
  BY DEF Saves!CheckProfile, Saves!At, SavesInv, SaveOK, SaveTyped, LibraryOK
<1>1. CASE Saves!Go(w, "failed")
  BY <1>0, <1>1, SaveFails
<1>2. CASE writer' = [writer EXCEPT ![w].at = "library",
                                    ![w].next = [revision |-> library.revision + 1,
                                                 allowed |-> [library.allowed EXCEPT
                                                   ![writer[w].profile] = Saves!AllowedAfter(w)]]]
  <2> DEFINE next == [revision |-> library.revision + 1,
                      allowed |-> [library.allowed EXCEPT ![writer[w].profile] = Saves!AllowedAfter(w)]]
  <2>0. writer' = [writer EXCEPT ![w].at = "library", ![w].next = next]
    BY <1>2
  <2>1. /\ DOMAIN next.allowed = SlotsOf
        /\ \A p \in SlotsOf : library.allowed[p] \subseteq next.allowed[p]
    <3>1. next.allowed = [library.allowed EXCEPT ![writer[w].profile] = Saves!AllowedAfter(w)]
      OBVIOUS
    <3> HIDE DEF next
    <3> QED
      BY <1>0, <3>1 DEF Saves!AllowedAfter
  <2> HIDE DEF next
  <2>2. /\ DOMAIN writer' = Writer /\ \A v \in Writer : v # w => writer'[v] = writer[v]
        /\ DOMAIN writer'[w] = {"at", "kind", "slot", "profile", "form", "next", "save"}
        /\ writer'[w].at = "library" /\ writer'[w].kind = writer[w].kind /\ writer'[w].slot = writer[w].slot
        /\ writer'[w].profile = writer[w].profile /\ writer'[w].form = writer[w].form
        /\ writer'[w].next = next
    <3>1. DOMAIN writer = Writer /\ DOMAIN writer[w] = {"at", "kind", "slot", "profile", "form", "next", "save"}
      BY DEF SavesInv, SaveOK, SaveTyped
    <3> QED
      BY <2>0, <3>1
  <2>3. Saves!MergedModels' = Saves!MergedModels /\ Saves!Revision(files[Saves!Target])' = Saves!Revision(files[Saves!Target])
    BY <1>0 DEF Saves!Target, Saves!MergedModels, Saves!EffectiveModels
  <2>4. SaveTyped(w)'
    BY <1>0, <2>1, <2>2 DEF SaveOK, SaveTyped, Saves!Writing
  <2>5. SaveAllowed(w)'
    BY <1>0, <2>1, <2>2 DEF SaveAllowed
  <2>6. overlap = {} => SaveCurrent(w)'
    BY <1>0, <2>2, <2>3 DEF SaveOK, SaveCurrent, Saves!Writing
  <2> QED
    BY <1>0, <2>2, <2>4, <2>5, <2>6, SaveMoves DEF SaveOK, Saves!IsAlone
<1> QED
  BY <1>1, <1>2 DEF Saves!CheckProfile

LEMMA ReadSaves == ASSUME SavesInv, NEW w \in Writer, Saves!Read(w) PROVE SavesInv'
<1>0. /\ writer[w].at = "read" /\ UNCHANGED <<files, library, overlap>> /\ SaveOK(w)
      /\ FileOK(Saves!Target) /\ Saves!Target \in {"user", "project"}
      /\ writer[w].kind \in Saves!Kind /\ writer[w].slot \in Slot /\ writer[w].profile \in Saves!AnyProfile
      /\ writer[w].kind # "command" => writer[w].form.expected \in Nat
  BY RevisionIsNat DEF Saves!Read, Saves!At, SavesInv, SaveOK, SaveTyped, Saves!Writing
<1>1. CASE Saves!Go(w, "failed")
  BY <1>0, <1>1, SaveFails
<1>2. CASE Saves!Gate(w) /\ writer' = [writer EXCEPT ![w].at = "check",
                ![w].save = [file |-> Saves!Target, expected |-> Saves!Expected(w),
                             models |-> Saves!Patched(w, files[Saves!Target]),
                             mode |-> IF writer[w].kind = "mode" THEN "auto"
                                      ELSE IF files[Saves!Target] = None THEN "edit"
                                      ELSE files[Saves!Target].mode]]
  <2> DEFINE mode == IF writer[w].kind = "mode" THEN "auto"
                     ELSE IF files[Saves!Target] = None THEN "edit" ELSE files[Saves!Target].mode
             save == [file |-> Saves!Target, expected |-> Saves!Expected(w), models |-> Saves!Patched(w, files[Saves!Target]),
                      mode |-> mode]
  <2>0. writer' = [writer EXCEPT ![w].at = "check", ![w].save = save]
    BY <1>2
  <2>1. /\ save.file = Saves!Target /\ save.expected = Saves!Expected(w) /\ save.models = Saves!Patched(w, files[Saves!Target])
        /\ save.mode = mode
    OBVIOUS
  <2>2. mode \in Saves!Mode
    BY <1>0 DEF FileOK, Saves!File, Saves!Mode
  <2> HIDE DEF mode, save
  <2>3. /\ DOMAIN writer' = Writer /\ \A v \in Writer : v # w => writer'[v] = writer[v]
        /\ DOMAIN writer'[w] = {"at", "kind", "slot", "profile", "form", "next", "save"}
        /\ writer'[w].at = "check" /\ writer'[w].kind = writer[w].kind /\ writer'[w].slot = writer[w].slot
        /\ writer'[w].profile = writer[w].profile /\ writer'[w].form = writer[w].form
        /\ writer'[w].save = save
    <3>1. DOMAIN writer = Writer /\ DOMAIN writer[w] = {"at", "kind", "slot", "profile", "form", "next", "save"}
      BY DEF SavesInv, SaveOK, SaveTyped
    <3> QED
      BY <2>0, <3>1
  <2>4. Saves!Target' = Saves!Target /\ Saves!MergedModels' = Saves!MergedModels /\ Saves!Revision(files[Saves!Target])' = Saves!Revision(files[Saves!Target])
    BY <1>0 DEF Saves!Target, Saves!MergedModels, Saves!EffectiveModels
  <2>5. Saves!Expected(w) \in Nat /\ (writer[w].kind \in {"models", "classic", "profile"} =>
                                  Saves!Expected(w) = writer[w].form.expected)
    BY <1>0, RevisionIsNat DEF Saves!Expected, Saves!Kind
  <2>6. \A slot \in Slot : Saves!EffectiveModels(files[Saves!Target])[slot] \in Saves!AnyProfile \cup {None}
    BY <1>0 DEF Saves!EffectiveModels, Saves!Bound, FileOK, Saves!File, Saves!AnyProfile
  <2>7. Saves!Patched(w, files[Saves!Target]) \in Models
    <3>1. Saves!EffectiveModels(files[Saves!Target]) \in Models
      BY <2>6 DEF Saves!EffectiveModels, Models
    <3> QED
      BY <1>0, <3>1 DEF Saves!Patched, Models, Saves!AnyProfile
  <2>8. SaveTyped(w)'
    BY <1>0, <2>1, <2>2, <2>3, <2>5, <2>7 DEF SaveOK, SaveTyped, Saves!Writing
  <2>9. ASSUME "library" \notin overlap PROVE SaveAllowed(w)'
    <3>1. \A slot \in Slot : Fits(Saves!EffectiveModels(files[Saves!Target])[slot], slot)
      BY <1>0, <2>9 DEF Saves!EffectiveModels, Saves!Bound, FileOK, Fits
    <3>2. \A slot \in Slot : Fits(Saves!Patched(w, files[Saves!Target])[slot], slot)
      <4>0. DOMAIN Saves!EffectiveModels(files[Saves!Target]) = Slot
        BY DEF Saves!EffectiveModels
      <4>1. CASE writer[w].kind = "classic" \/ writer[w].profile = Classic
        BY <4>1 DEF Saves!Patched, Fits
      <4>2. CASE ~(writer[w].kind = "classic" \/ writer[w].profile = Classic) /\ writer[w].kind = "mode"
        BY <3>1, <4>2 DEF Saves!Patched
      <4>3. CASE ~(writer[w].kind = "classic" \/ writer[w].profile = Classic) /\ writer[w].kind # "mode"
        <5>1. Fits(writer[w].profile, writer[w].slot)
          BY <1>0, <1>2, <4>3 DEF Saves!Gate, Fits, Saves!AnyProfile, SlotsOf
        <5>2. Saves!Patched(w, files[Saves!Target]) = [Saves!EffectiveModels(files[Saves!Target]) EXCEPT ![writer[w].slot] = writer[w].profile]
          BY <4>3 DEF Saves!Patched
        <5> QED
          BY <3>1, <4>0, <5>1, <5>2
      <4> QED
        BY <4>1, <4>2, <4>3
    <3> QED
      BY <1>0, <2>1, <2>3, <3>2 DEF SaveAllowed, Fits
  <2>10. overlap = {} => SaveCurrent(w)'
    BY <1>0, <2>1, <2>3, <2>4, <2>5 DEF SaveOK, SaveCurrent, Saves!Writing
  <2>11. "settings" \notin overlap => \A v \in Writer : v # w => writer[v].at \notin Saves!Writing
    BY <1>0 DEF SavesInv, OneAtATime, Saves!Writing
  <2> QED
    BY <1>0, <2>3, <2>8, <2>9, <2>10, <2>11, SaveMoves DEF SaveOK
<1> QED
  BY <1>1, <1>2 DEF Saves!Read

LEMMA CheckSaves == ASSUME SavesInv, NEW w \in Writer, Saves!Check(w) PROVE SavesInv'
<1>0. /\ writer[w].at = "check" /\ UNCHANGED <<files, library, overlap>> /\ SaveOK(w)
  BY DEF Saves!Check, Saves!At, SavesInv
<1>1. CASE Saves!Go(w, "failed")
  BY <1>0, <1>1, SaveFails
<1>2. CASE Saves!Revision(files[writer[w].save.file]) = writer[w].save.expected /\ Saves!Go(w, "rename")
  <2>1. /\ DOMAIN writer' = Writer /\ \A v \in Writer : v # w => writer'[v] = writer[v]
        /\ DOMAIN writer'[w] = {"at", "kind", "slot", "profile", "form", "next", "save"}
        /\ writer'[w].at = "rename" /\ writer'[w].kind = writer[w].kind /\ writer'[w].slot = writer[w].slot
        /\ writer'[w].profile = writer[w].profile /\ writer'[w].form = writer[w].form
        /\ writer'[w].save = writer[w].save
        /\ Saves!Target' = Saves!Target /\ Saves!MergedModels' = Saves!MergedModels
        /\ Saves!Revision(files[Saves!Target])' = Saves!Revision(files[Saves!Target])
    BY <1>0, <1>2, SaveGoes
  <2>2. SaveTyped(w)'
    BY <1>0, <2>1 DEF SaveOK, SaveTyped, Saves!Writing
  <2>3. "library" \notin overlap => SaveAllowed(w)'
    BY <1>0, <2>1 DEF SaveOK, SaveAllowed, Fits
  <2>4. overlap = {} => SaveCurrent(w)'
    BY <1>0, <1>2, <2>1 DEF SaveOK, SaveCurrent, Saves!Writing
  <2>5. "settings" \notin overlap => \A v \in Writer : v # w => writer[v].at \notin Saves!Writing
    BY <1>0 DEF SavesInv, OneAtATime, Saves!Writing
  <2> QED
    BY <1>0, <2>1, <2>2, <2>3, <2>4, <2>5, SaveMoves DEF SaveOK
<1> QED
  BY <1>1, <1>2 DEF Saves!Check

LEMMA WriteFailsSaves == ASSUME SavesInv, NEW w \in Writer, Saves!WriteFails(w) PROVE SavesInv'
  BY SaveFails DEF Saves!WriteFails

\* The library only grows.
LEMMA SaveLibrarySaves == ASSUME SavesInv, NEW w \in Writer, Saves!SaveLibrary(w) PROVE SavesInv'
<1>0. /\ writer[w].at = "library" /\ UNCHANGED <<files, overlap>> /\ SaveOK(w)
      /\ library' = writer[w].next /\ writer' = [writer EXCEPT ![w].at = "read"]
  BY DEF Saves!SaveLibrary, Saves!At, SavesInv, Saves!Go
<1>1. /\ DOMAIN writer' = Writer /\ \A v \in Writer : v # w => writer'[v] = writer[v]
      /\ DOMAIN writer'[w] = {"at", "kind", "slot", "profile", "form", "next", "save"}
      /\ writer'[w].at = "read" /\ writer'[w].kind = writer[w].kind /\ writer'[w].slot = writer[w].slot
      /\ writer'[w].profile = writer[w].profile /\ writer'[w].form = writer[w].form
  <2>1. DOMAIN writer = Writer /\ DOMAIN writer[w] = {"at", "kind", "slot", "profile", "form", "next", "save"}
    BY DEF SavesInv, SaveOK, SaveTyped
  <2> QED
    BY <1>0, <2>1
<1>2. Saves!Target' = Saves!Target /\ Saves!MergedModels' = Saves!MergedModels /\ Saves!Revision(files[Saves!Target])' = Saves!Revision(files[Saves!Target])
  BY <1>0 DEF Saves!Target, Saves!MergedModels, Saves!EffectiveModels
<1>3. ASSUME "library" \notin overlap
      PROVE  /\ \A p \in SlotsOf : library.allowed[p] \subseteq library'.allowed[p]
             /\ \A profile, slot : Fits(profile, slot) => Fits(profile, slot)'
  BY <1>0, <1>3 DEF SaveOK, SaveAllowed, Fits
<1>4. \A f \in {"user", "project"} : FileOK(f)'
  <2> TAKE f \in {"user", "project"}
  <2>1. FileOK(f) /\ files'[f] = files[f]
    BY <1>0 DEF SavesInv
  <2> QED
    BY <1>0, <1>3, <2>1 DEF FileOK
<1>5. "library" \notin overlap => \A v \in Writer : v # w => writer[v].at # "library"
  BY <1>0 DEF SavesInv, OneAtATime
<1>6. \A v \in Writer : SaveOK(v)'
  <2> TAKE v \in Writer
  <2>0. SaveOK(v)
    BY DEF SavesInv
  <2>1. SaveTyped(v)'
    BY <1>0, <1>1, <2>0 DEF SaveOK, SaveTyped, Saves!Writing
  <2>2. ASSUME "library" \notin overlap PROVE SaveAllowed(v)'
    <3>1. CASE v = w
      BY <1>1, <3>1 DEF SaveAllowed
    <3>2. CASE v # w
      <4>1. writer'[v] = writer[v] /\ writer[v].at # "library" /\ SaveAllowed(v)
        BY <1>1, <1>5, <2>0, <2>2, <3>2 DEF SaveOK
      <4> QED
        BY <1>3, <2>2, <4>1 DEF SaveAllowed
    <3> QED
      BY <3>1, <3>2
  <2>3. overlap = {} => SaveCurrent(v)'
    BY <1>0, <1>1, <1>2, <2>0 DEF SaveOK, SaveCurrent, Saves!Writing
  <2> QED
    BY <1>0, <2>1, <2>2, <2>3 DEF SaveOK
<1>7. OneAtATime'
  BY <1>0, <1>1 DEF SavesInv, OneAtATime, Saves!Writing
<1>8. LibraryOK'
  BY <1>0 DEF SaveOK, SaveTyped, LibraryOK
<1> QED
  BY <1>0, <1>1, <1>4, <1>6, <1>7, <1>8 DEF SavesInv

\* A file that is replaced has another revision than any form showed.
LEMMA RenameSaves ==
    ASSUME SavesInv, None \notin Saves!File, NEW w \in Writer, Saves!Rename(w) PROVE SavesInv'
<1> DEFINE save == writer[w].save
           new == [version |-> 2, revision |-> save.expected + 1, models |-> save.models, mode |-> save.mode]
<1>0. /\ writer[w].at = "rename" /\ UNCHANGED <<library, overlap>> /\ SaveOK(w)
      /\ files' = [files EXCEPT ![save.file] = new] /\ writer' = [writer EXCEPT ![w].at = "saved"]
      /\ DOMAIN files = {"user", "project"}
  BY DEF Saves!Rename, Saves!At, SavesInv, Saves!Go
<1>1. /\ DOMAIN writer' = Writer /\ \A v \in Writer : v # w => writer'[v] = writer[v]
      /\ DOMAIN writer'[w] = {"at", "kind", "slot", "profile", "form", "next", "save"}
      /\ writer'[w].at = "saved" /\ writer'[w].kind = writer[w].kind /\ writer'[w].slot = writer[w].slot
      /\ writer'[w].profile = writer[w].profile
  <2>1. DOMAIN writer = Writer /\ DOMAIN writer[w] = {"at", "kind", "slot", "profile", "form", "next", "save"}
    BY DEF SavesInv, SaveOK, SaveTyped
  <2> QED
    BY <1>0, <2>1
<1>2. /\ save.file \in {"user", "project"} /\ save.expected \in Nat /\ save.models \in Models /\ save.mode \in Saves!Mode
      /\ "library" \notin overlap => \A slot \in Slot : Fits(save.models[slot], slot)
      /\ overlap = {} => save.file = Saves!Target /\ save.expected = Saves!Revision(files[Saves!Target])
  BY <1>0 DEF SaveOK, SaveTyped, SaveAllowed, SaveCurrent
<1>3. /\ new.version = 2 /\ new.revision = save.expected + 1 /\ new.models = save.models
      /\ new \in Saves!File
  BY <1>2 DEF Saves!File, Models
<1>4. new # None
  BY <1>3
<1> HIDE DEF new
<1>5. DOMAIN files' = {"user", "project"} /\ \A f \in {"user", "project"} : files'[f] = IF f = save.file THEN new ELSE files[f]
  BY <1>0, <1>2
<1> HIDE DEF save
<1>6. \A f \in {"user", "project"} : FileOK(f)'
  <2> TAKE f \in {"user", "project"}
  <2>0. \A profile, slot : Fits(profile, slot)' = Fits(profile, slot)
    BY <1>0 DEF Fits
  <2>1. CASE f = save.file
    BY <1>0, <1>2, <1>3, <1>5, <2>0, <2>1 DEF FileOK
  <2>2. CASE f # save.file
    <3>1. files'[f] = files[f] /\ FileOK(f)
      BY <1>5, <2>2 DEF SavesInv
    <3> QED
      BY <1>0, <2>0, <3>1 DEF FileOK
  <2> QED
    BY <2>1, <2>2
<1>7. overlap = {} => Saves!Target' = Saves!Target /\ Saves!Revision(files[Saves!Target])' = Saves!Revision(files[Saves!Target]) + 1
  <2> SUFFICES ASSUME overlap = {} PROVE Saves!Target' = Saves!Target /\ Saves!Revision(files[Saves!Target])' = Saves!Revision(files[Saves!Target]) + 1
    OBVIOUS
  <2>1. save.file = Saves!Target /\ save.expected = Saves!Revision(files[Saves!Target])
    BY <1>2
  <2>2. Saves!Target' = Saves!Target
    BY <1>4, <1>5, <2>1 DEF Saves!Target
  <2>3. files'[Saves!Target] = new
    BY <1>2, <1>5, <2>1
  <2> QED
    BY <1>3, <1>4, <2>1, <2>2, <2>3 DEF Saves!Revision
<1>8. \A v \in Writer : SaveOK(v)'
  <2> TAKE v \in Writer
  <2>0. SaveOK(v)
    BY DEF SavesInv
  <2>1. CASE v = w
    <3>1. SaveTyped(v)'
      BY <1>0, <1>1, <2>1 DEF SaveOK, SaveTyped, Saves!Writing
    <3>2. SaveAllowed(v)' /\ SaveCurrent(v)'
      BY <1>1, <2>1 DEF SaveAllowed, SaveCurrent, Saves!Writing
    <3> QED
      BY <3>1, <3>2 DEF SaveOK
  <2>2. CASE v # w
    <3>0. writer'[v] = writer[v]
      BY <1>1, <2>2
    <3>1. SaveTyped(v)'
      BY <2>0, <3>0 DEF SaveOK, SaveTyped
    <3>2. "library" \notin overlap => SaveAllowed(v)'
      BY <1>0, <2>0, <3>0 DEF SaveOK, SaveAllowed, Fits
    <3>3. ASSUME overlap = {} PROVE SaveCurrent(v)'
      <4>1. writer[v].at \notin Saves!Writing
        BY <1>0, <2>2, <3>3 DEF SavesInv, OneAtATime, Saves!Writing
      <4>2. Saves!Revision(files[Saves!Target])' = Saves!Revision(files[Saves!Target]) + 1 /\ Saves!Revision(files[Saves!Target]) \in Nat
        BY <1>7, <3>3, RevisionIsNat
      <4>3. writer[v].at = "form" /\ writer[v].kind # "command" /\ writer[v].form.own =>
              /\ writer[v].form.expected \in Nat
              /\ writer[v].form.expected <= Saves!Revision(files[Saves!Target])
        BY <2>0, <3>3 DEF SaveOK, SaveCurrent, SaveTyped
      <4>4. writer[v].at = "form" /\ writer[v].kind # "command" /\ writer[v].form.own =>
              /\ writer[v].form.expected <= Saves!Revision(files[Saves!Target])'
              /\ writer[v].form.expected # Saves!Revision(files[Saves!Target])'
        BY <4>2, <4>3
      <4> QED
        BY <3>0, <4>1, <4>4 DEF SaveCurrent, Saves!Writing
    <3> QED
      BY <1>0, <3>1, <3>2, <3>3 DEF SaveOK
  <2> QED
    BY <2>1, <2>2
<1>9. OneAtATime'
  BY <1>0, <1>1 DEF SavesInv, OneAtATime, Saves!Writing
<1>10. LibraryOK'
  BY <1>0 DEF SavesInv, LibraryOK
<1> QED
  BY <1>1, <1>5, <1>6, <1>8, <1>9, <1>10 DEF SavesInv

LEMMA SavesNextInv == ASSUME SavesInv, None \notin Saves!File, Saves!SettingsNext PROVE SavesInv'
  BY OpenFormSaves, SubmitSaves, CommandSaves, CheckProfileSaves, SaveLibrarySaves, ReadSaves,
     CheckSaves,
     RenameSaves, WriteFailsSaves DEF Saves!SettingsNext

LEMMA SavesBound == ASSUME SavesInv PROVE Saves!BoundProfileAllowed
<1> SUFFICES ASSUME "library" \notin overlap, NEW slot \in Slot
             PROVE  Fits(Saves!MergedModels[slot], slot)
  BY DEF Saves!BoundProfileAllowed, Fits
<1>1. FileOK("user") /\ FileOK("project")
  BY DEF SavesInv
<1>2. Fits(Saves!EffectiveModels(files["user"])[slot], slot) /\ Fits(Saves!EffectiveModels(files["project"])[slot], slot)
  BY <1>1 DEF Saves!EffectiveModels, Saves!Bound, FileOK, Fits
<1>3. Saves!Bound(files["project"], slot) = None \/ Fits(Saves!Bound(files["project"], slot), slot)
  BY <1>1 DEF Saves!Bound, FileOK
<1> QED
  BY <1>2, <1>3 DEF Saves!MergedModels

LEMMA SavesShown ==
    ASSUME SavesInv, NEW w \in Writer, writer[w].at = "rename", overlap = {}, writer[w].form.own,
           writer[w].kind \in {"models", "classic", "profile"}
    PROVE  Saves!MergedModels = writer[w].form.shown
<1>1. SaveOK(w) /\ writer[w].kind # "command"
  BY DEF SavesInv
<1> QED
  BY <1>1 DEF SaveOK, SaveCurrent, Saves!Writing

LEMMA SavesSame == ASSUME SavesInv, UNCHANGED <<files, library, writer, overlap>> PROVE SavesInv'
<1>1. \A f \in {"user", "project"} : FileOK(f)'
  BY DEF SavesInv, FileOK, Fits
<1>2. Saves!Target' = Saves!Target /\ Saves!MergedModels' = Saves!MergedModels
  BY DEF Saves!Target, Saves!MergedModels, Saves!EffectiveModels
<1>3. \A w \in Writer : SaveOK(w)'
  BY <1>2 DEF SavesInv, SaveOK, SaveTyped, SaveAllowed, SaveCurrent, Fits
<1> QED
  BY <1>1, <1>3 DEF SavesInv, OneAtATime, LibraryOK

\* A form's save replaces what the form showed, and what the slots are bound to is in the library and
\* allowed for them, however many saves there are and wherever they fail.
THEOREM SavesStaySound ==
    ASSUME None \notin Saves!File PROVE MCSpec => SettingsStaySound
<1>1. MCInit => SavesInv
  BY SavesInitInv DEF MCInit
<1>2. SavesInv /\ [MCNext]_<<part, vars, gitVars, pubVars, saveVars>> => SavesInv'
  <2> SUFFICES ASSUME SavesInv, [MCNext]_<<part, vars, gitVars, pubVars, saveVars>> PROVE SavesInv'
    OBVIOUS
  <2>1. CASE Saves!SettingsNext
    BY <2>1, SavesNextInv
  <2>2. CASE UNCHANGED saveVars
    BY <2>2, SavesSame DEF saveVars
  <2> QED
    BY <2>1, <2>2 DEF MCNext, GitNext
<1>3. SavesInv => Saves!BoundProfileAllowed
  BY SavesBound
<1>4. SavesInv /\ [MCNext]_<<part, vars, gitVars, pubVars, saveVars>> =>
        [\A w \in Writer :
           /\ Saves!At(w, "rename") /\ writer'[w].at = "saved"
           /\ writer[w].kind \in {"models", "classic", "profile"} /\ writer[w].form.own
           /\ overlap = {}
           => Saves!MergedModels = writer[w].form.shown]_Saves!settingsVars
  BY SavesShown DEF Saves!At
<1> QED
  BY <1>1, <1>2, <1>3, <1>4, PTL DEF MCSpec, SettingsStaySound, Saves!FormReplacesWhatItShowed
==============================================================================
