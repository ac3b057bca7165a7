------------------------------ MODULE Checkpoints ------------------------------
(***************************************************************************)
(* Checkpoints of the workspace and what they undo: createCheckpoint,       *)
(* restoreCheckpoint and listUndoCandidates of SessionStore, the calls of   *)
(* the tool runtime that write workspace files under a checkpoint, and the  *)
(* undo and rollback_checkpoint tools.                                      *)
(*                                                                          *)
(* State-changing calls of a session run one after another; the process may *)
(* die between any two of their steps.  A restored conversation is the log  *)
(* of the session cut to the length it had when the checkpoint was made,    *)
(* together with the session record of that moment.  A path is a file or a  *)
(* directory tree; what it holds is a number, 0 when nothing is there.      *)
(***************************************************************************)
EXTENDS Naturals, Sequences, FiniteSets, FiniteSetsExt, Functions

CONSTANTS
    Path,            \* workspace entries, none below another (minimizeCheckpointPaths)
    MaxCheckpoints,  \* bound: checkpoints ever made
    MaxWritten,      \* bound: contents ever written
    MaxTurns,        \* bound: turns and crashes
    None             \* no manifest

ASSUME CheckpointsAssumption ==
    MaxCheckpoints \in Nat /\ MaxWritten \in Nat \ {0} /\ MaxTurns \in Nat

Checkpoint == 1..MaxCheckpoints
Content == 0..MaxWritten
Mode == {"code", "conversation", "both"}

VARIABLES
    file,       \* the workspace
    first,      \* history: the workspace as the session found it
    log,        \* the event log of the session
    manifest,   \* checkpoints/<id>: what the entries held, sessionEventCount, sessionSnapshot
    session,    \* status of the session record, and whether it names an active turn
    turn,       \* whether a turn is at work on the session
    op,         \* the call that is executing
    made, written, turns,  \* counters
    strayed     \* history: something else was restored than the files of the latest candidate

vars == <<file, first, log, manifest, session, turn, op, made, written, turns, strayed>>

Records == [type : {"checkpoint", "rollback"}, id : Checkpoint] \cup [type : {"turn", "end"}]
Manifest == [saved : UNION {[S -> Content] : S \in SUBSET Path}, count : Nat,
             session : [status : {"ready", "running"}, active : BOOLEAN]]

Idle == [at |-> "idle"]

\* A call is at one point between two awaits; "todo" holds the entries it has not reached, and
\* "entry" the one it has removed and not yet put back.
Calls == [at : {"copy", "record", "write", "remove", "put", "cut", "session", "rolled"},
          id : Checkpoint, todo : SUBSET Path, entry : Path \cup {None},
          restores : {"itself", "runtime"}, mode : Mode, undo : BOOLEAN,
          before : [Path -> Content]]  \* before is history

TypeOK ==
    /\ file \in [Path -> Content] /\ first \in [Path -> Content]
    /\ log \in Seq(Records)
    /\ manifest \in [Checkpoint -> Manifest \cup {None}]
    /\ session \in [status : {"ready", "running"}, active : BOOLEAN]
    /\ turn \in BOOLEAN /\ strayed \in BOOLEAN
    /\ op \in Calls \cup {Idle}
    /\ made \in 0..MaxCheckpoints /\ written \in Content /\ turns \in 0..MaxTurns

Init ==
    /\ file \in {f \in [Path -> {0, 1}] : 1 \in {f[p] : p \in Path}}
    /\ first = file
    /\ log = <<>>
    /\ manifest = [k \in Checkpoint |-> None]
    /\ session = [status |-> "ready", active |-> FALSE]
    /\ turn = FALSE
    /\ op = Idle
    /\ made = 0 /\ written = 1 /\ turns = 0
    /\ strayed = FALSE

Logged(record) == log' = Append(log, record)
IsIdle == op = Idle
Tracked(k) == DOMAIN manifest[k].saved

-----------------------------------------------------------------------------
(* listUndoCandidates: the checkpoints in the log that no rollback in the   *)
(* log names, the newest first.                                             *)

LoggedOf(type) == {log[i].id : i \in {j \in DOMAIN log : log[j].type = type}}

Candidates == LoggedOf("checkpoint") \ LoggedOf("rollback")

-----------------------------------------------------------------------------
(* A call that writes: checkpoint, then effect.                             *)

\* The runtime opens createCheckpoint for the declared write paths of a tool; a call belongs to
\* the turn, or is the user's own (an accepted worker patch).  apply_patch and
\* apply_artifact_patch restore what they had begun themselves, other tools leave it to the
\* runtime (restoreOnFailure).
BeginWrite ==
    /\ IsIdle /\ made < MaxCheckpoints
    /\ made' = made + 1
    /\ \E paths \in SUBSET Path \ {{}}, who \in {"itself", "runtime"} :
         op' = [at |-> "copy", id |-> made + 1, todo |-> paths, entry |-> None, restores |-> who,
                mode |-> "code", undo |-> FALSE, before |-> file]
    /\ UNCHANGED <<file, first, log, manifest, session, turn, written, turns, strayed>>

\* createCheckpoint reads the session record, copies the entries, counts the events of the log
\* and publishes the manifest.  Nothing else moves meanwhile.
WriteManifest ==
    /\ op.at = "copy"
    /\ manifest' = [manifest EXCEPT ![op.id] =
                      [saved |-> Restrict(file, op.todo), count |-> Len(log), session |-> session]]
    /\ op' = [op EXCEPT !.at = "record"]
    /\ UNCHANGED <<file, first, log, session, turn, made, written, turns, strayed>>

\* An entry that cannot be copied, a limit or an abort: the checkpoint is removed again.
CheckpointFails ==
    /\ op.at \in {"copy", "record"}
    /\ manifest' = [manifest EXCEPT ![op.id] = None]
    /\ made' = made - 1
    /\ op' = Idle
    /\ UNCHANGED <<file, first, log, session, turn, written, turns, strayed>>

RecordCheckpoint ==
    /\ op.at = "record"
    /\ Logged([type |-> "checkpoint", id |-> op.id])
    /\ op' = [op EXCEPT !.at = "write", !.todo = Tracked(op.id)]
    /\ UNCHANGED <<file, first, manifest, session, turn, made, written, turns, strayed>>

\* One entry is published atomically or removed.
WriteEntry(p) ==
    /\ op.at = "write" /\ p \in op.todo
    /\ \/ file' = [file EXCEPT ![p] = 0] /\ UNCHANGED written
       \/ /\ written < MaxWritten
          /\ written' = written + 1
          /\ file' = [file EXCEPT ![p] = written + 1]
    /\ op' = [op EXCEPT !.todo = @ \ {p}]
    /\ UNCHANGED <<first, log, manifest, session, turn, made, turns, strayed>>

\* Mutant: only what was not reached is restored.
StartRestoreRest == op' = [op EXCEPT !.at = "remove"]

StartRestore == op' = [op EXCEPT !.at = "remove", !.todo = Tracked(op.id)]

\* A write fails, or the call is aborted between two of them.
WriteFails ==
    /\ op.at = "write"
    /\ StartRestore
    /\ UNCHANGED <<file, first, log, manifest, session, turn, made, written, turns, strayed>>

\* Everything is written; diagnostics and verification follow.  A tool that restores by itself
\* has no more to restore: a failure from here on leaves its files, and its checkpoint to undo.
Verify ==
    /\ op.at = "write" /\ op.todo = {}
    /\ \/ op' = Idle
       \/ op.restores = "runtime" /\ StartRestore
    /\ UNCHANGED <<file, first, log, manifest, session, turn, made, written, turns, strayed>>

-----------------------------------------------------------------------------
(* restoreCheckpoint, of a failed call or of undo.                          *)

\* The undo and rollback_checkpoint tools: the latest candidate, or any checkpoint that is named.
\* What cannot be restored is refused before anything is changed.
BeginUndo(k) ==
    /\ IsIdle
    /\ manifest[k] # None
    /\ \E mode \in Mode :
         /\ op' = [at |-> IF mode = "conversation" THEN "cut" ELSE "remove", id |-> k,
                   todo |-> Tracked(k), entry |-> None, restores |-> "itself", mode |-> mode,
                   undo |-> TRUE, before |-> file]
         /\ strayed' = (strayed \/ mode = "conversation" \/ k \notin Candidates
                           \/ \E newer \in Candidates : newer > k)
    /\ UNCHANGED <<file, first, log, manifest, session, turn, made, written, turns>>

RemoveEntry(p) ==
    /\ op.at = "remove" /\ p \in op.todo
    /\ file' = [file EXCEPT ![p] = 0]
    /\ op' = [op EXCEPT !.at = "put", !.todo = @ \ {p}, !.entry = p]
    /\ UNCHANGED <<first, log, manifest, session, turn, made, written, turns, strayed>>

PutEntry ==
    /\ op.at = "put"
    /\ file' = [file EXCEPT ![op.entry] = manifest[op.id].saved[op.entry]]
    /\ op' = [op EXCEPT !.at = "remove", !.entry = None]
    /\ UNCHANGED <<first, log, manifest, session, turn, made, written, turns, strayed>>

FilesRestored ==
    /\ op.at = "remove" /\ op.todo = {}
    /\ op' = [op EXCEPT !.at = IF op.mode = "both" THEN "cut" ELSE "rolled"]
    /\ UNCHANGED <<file, first, log, manifest, session, turn, made, written, turns, strayed>>

\* Mutant: one record too many is cut.
CutLogShort ==
    /\ op.at = "cut"
    /\ log' = SubSeq(log, 1, Min({manifest[op.id].count, Len(log)}) - 1)
    /\ op' = [op EXCEPT !.at = "session"]
    /\ UNCHANGED <<file, first, manifest, session, turn, made, written, turns, strayed>>

CutLog ==
    /\ op.at = "cut"
    /\ log' = SubSeq(log, 1, Min({manifest[op.id].count, Len(log)}))
    /\ op' = [op EXCEPT !.at = "session"]
    /\ UNCHANGED <<file, first, manifest, session, turn, made, written, turns, strayed>>

RestoreSession ==
    /\ op.at = "session"
    /\ session' = [status |-> manifest[op.id].session.status, active |-> FALSE]
    /\ op' = [op EXCEPT !.at = "rolled"]
    /\ UNCHANGED <<file, first, log, manifest, turn, made, written, turns, strayed>>

\* recordRollback, the end of the call.
RecordRollback ==
    /\ op.at = "rolled"
    /\ Logged([type |-> "rollback", id |-> op.id])
    /\ op' = Idle
    /\ UNCHANGED <<file, first, manifest, session, turn, made, written, turns, strayed>>

\* An entry cannot be removed or copied: no rollback is recorded.
RestoreFails ==
    /\ op.at \in {"remove", "put"}
    /\ op' = Idle
    /\ UNCHANGED <<file, first, log, manifest, session, turn, made, written, turns, strayed>>

-----------------------------------------------------------------------------
(* The turns of the session, in which most of the calls happen.             *)

StartTurn ==
    /\ IsIdle /\ ~turn /\ turns < MaxTurns
    /\ session.status # "running"
    /\ turn' = TRUE /\ turns' = turns + 1
    /\ Logged([type |-> "turn"])
    /\ session' = [status |-> "running", active |-> TRUE]
    /\ UNCHANGED <<file, first, manifest, op, made, written, strayed>>

EndTurn ==
    /\ IsIdle /\ turn
    /\ turn' = FALSE
    /\ Logged([type |-> "end"])
    /\ session' = [status |-> "ready", active |-> FALSE]
    /\ UNCHANGED <<file, first, manifest, op, made, written, turns, strayed>>

\* The process dies, and the next one recovers the session.
Crash ==
    /\ turns < MaxTurns
    /\ turns' = turns + 1
    /\ turn' = FALSE /\ op' = Idle
    /\ session' = [status |-> "ready", active |-> FALSE]
    /\ log' = IF session.status = "running" /\ session.active
              THEN Append(log, [type |-> "end"]) ELSE log
    /\ UNCHANGED <<file, first, manifest, made, written, strayed>>

OpStep ==
    \/ \E p \in Path : WriteEntry(p) \/ RemoveEntry(p)
    \/ WriteManifest \/ CheckpointFails \/ RecordCheckpoint \/ WriteFails \/ Verify
    \/ PutEntry \/ FilesRestored \/ CutLog \/ RestoreSession \/ RecordRollback \/ RestoreFails

Next ==
    \/ BeginWrite \/ \E k \in Checkpoint : BeginUndo(k)
    \/ ~IsIdle /\ OpStep
    \/ StartTurn \/ EndTurn \/ Crash

Spec == Init /\ [][Next]_vars

-----------------------------------------------------------------------------
(* Properties.                                                             *)

\* What undoing every candidate, the newest first, makes of an entry.
Undone(p) ==
    LET ks == {k \in Candidates : p \in Tracked(k)}
    IN  IF ks = {} THEN file[p] ELSE manifest[Min(ks)].saved[p]

\* At every moment, in the middle of a call and after a crash in it, undoing again and again
\* brings the workspace back to what the session found: no change is left without a checkpoint
\* to undo it, whatever failed, was restored, or was cut from the log before.
UndoReachesStart == ~strayed => \A p \in Path : Undone(p) = first[p]

\* A call that failed and was restored has changed nothing.
FailedCallUndone ==
    [][~IsIdle /\ op.at = "rolled" /\ ~op.undo /\ op' = Idle /\ log' # log
          => file = op.before]_vars

\* A session that says it is running has a turn, or is about to be told otherwise by a call.
\* The code breaks this: a checkpoint is made in a turn, so that the session record it restores
\* says "running", with or without a turn.
RunningHasTurn == session.status = "running" => turn \/ ~IsIdle
=============================================================================
