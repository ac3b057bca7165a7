--------------------------- MODULE ManagedProcesses ---------------------------
(***************************************************************************)
(* ToolProcessManager: child processes that outlive the tool call that     *)
(* started them.                                                           *)
(*                                                                         *)
(* A start waits for the owner's session to be looked up and for the       *)
(* record's first publication; stops (of a tool, of the start's own signal *)
(* or timeout, of stopSession and of dispose) wait for signals and timers; *)
(* the close of a child waits for its process group to be cleaned up.  The *)
(* three meet on one record, between any two of those waits.  The runtime  *)
(* may die at any moment: the children it leaves behind live on, and the   *)
(* next one knows of them by their publications only.                      *)
(*                                                                         *)
(* What a child writes is in ProcessOutput.                                *)
(***************************************************************************)
EXTENDS Naturals, FiniteSets

CONSTANTS
    Session,        \* owners
    Proc,           \* managed processes, each started at most once
    StopCall,       \* calls of stopSession, and the one of dispose
    MaxActive,      \* TOOL_PROCESS_LIMITS.maxActiveProcesses
    MaxPerSession,  \* TOOL_PROCESS_LIMITS.maxActiveProcessesPerSession
    MaxStops,       \* bound: how many callers stop one process
    Restarts,       \* how often the runtime may die
    None            \* no value, and dispose's session

ASSUME ManagedProcessesAssumption ==
    /\ MaxActive \in Nat /\ MaxPerSession \in Nat /\ MaxStops \in Nat /\ Restarts \in Nat
    /\ None \notin Session \cup {"active", "exited", "failed", "stopped", "orphaned"}
    /\ StopCall \cap {"tool", "abort", "startup"} = {}

VARIABLES
    platform,    \* "win32" or "posix": what a kill can confirm
    start,       \* the call of start for each process
    proc,        \* the managed record
    child,       \* the operating system's side: the root process and its descendants
    stop,        \* stopInternal, of every caller on every process
    closing,     \* calls of stopSession and dispose
    epochs,      \* sessionStopEpochs
    closed,      \* closingSessions
    pending,     \* starts that have reserved a place: pendingStartCount, pendingStartsBySession
    disposed,
    disk,        \* the published records: "active", or an outcome
    restarts

pmVars == <<platform, start, proc, child, stop, closing, epochs, closed, pending, disposed,
            disk, restarts>>

Active == {"starting", "running", "stopping"}
Terminal == {"exited", "failed", "stopped", "orphaned"}
Strategy == {"graceful", "graceful_then_force", "force"}
Caller == {"tool", "abort", "startup"} \cup StopCall
Settled == [at |-> "done", strategy |-> "graceful"]
StopPhase == {"idle", "taskkill", "grace", "taskkill_force", "confirm", "done"}
NoRecord == [status |-> "none", kept |-> FALSE, wanted |-> FALSE, treeGone |-> FALSE]
NoStart == [at |-> "idle", owner |-> None, epoch |-> 0, aborted |-> FALSE]
NoChild == [root |-> "none", residue |-> FALSE, cleanup |-> None]
NoStop == [at |-> "idle", strategy |-> "graceful"]
NoClosing == [at |-> "idle", session |-> None, epoch |-> 0, owned |-> {}]

TypeOK ==
    /\ platform \in {"win32", "posix"}
    /\ start \in [Proc -> [at : {"idle", "checking", "publishing", "withdrawing", "watching",
                                 "publishing_ready", "late", "done", "refused"},
                           owner : Session \cup {None}, epoch : Nat, aborted : BOOLEAN]]
    /\ proc \in [Proc -> [status : {"none"} \cup Active \cup Terminal, kept : BOOLEAN,
                          wanted : BOOLEAN, treeGone : BOOLEAN]]
    /\ child \in [Proc -> [root : {"none", "failing", "alive", "exited", "closed"},
                           residue : BOOLEAN, cleanup : {None, "stopped", "exited", "failed"}]]
    /\ stop \in [Proc -> [Caller -> [at : StopPhase, strategy : Strategy]]]
    /\ closing \in [StopCall -> [at : {"idle", "opening", "stopping", "done", "lost"},
                                 session : Session \cup {None}, epoch : Nat,
                                 owned : SUBSET Proc]]
    /\ epochs \in [Session -> Nat]
    /\ closed \subseteq Session
    /\ pending \subseteq Proc
    /\ disposed \in BOOLEAN
    /\ disk \in [Proc -> {None, "active"} \cup Terminal]
    /\ restarts \in 0..Restarts

Init ==
    /\ platform \in {"win32", "posix"}
    /\ start = [p \in Proc |-> NoStart]
    /\ proc = [p \in Proc |-> NoRecord]
    /\ child = [p \in Proc |-> NoChild]
    /\ stop = [p \in Proc |-> [c \in Caller |-> NoStop]]
    /\ closing = [c \in StopCall |-> NoClosing]
    /\ epochs = [s \in Session |-> 0]
    /\ closed = {}
    /\ pending = {}
    /\ disposed = FALSE
    /\ disk = [p \in Proc |-> None]
    /\ restarts = 0

IsActive(p) == proc[p].kept /\ proc[p].status \in Active
IsTerminal(p) == proc[p].status \in Terminal
Living(p) == child[p].root = "alive" \/ child[p].residue
OnDisk(status) == IF status \in Active THEN "active" ELSE status
ActiveProcs == {p \in Proc : IsActive(p)}
Of(s) == {p \in Proc : start[p].owner = s}

-----------------------------------------------------------------------------
(* Ending a record.                                                        *)

\* Mutant: finalize overwrites an outcome that is already there.
FinalizedAgain(p, status) ==
    [proc EXCEPT ![p].status = status]

\* finalize: the first outcome stays; its publication follows.
Finalized(p, status) ==
    IF IsTerminal(p) THEN proc ELSE [proc EXCEPT ![p].status = status]

\* SIGKILL of the group (taskkill /t /f): it may fail, or miss a descendant.
Killed(p) ==
    {child[p], [child[p] EXCEPT !.root = IF @ = "alive" THEN "exited" ELSE @, !.residue = FALSE],
     [child[p] EXCEPT !.root = IF @ = "alive" THEN "exited" ELSE @]}

\* stopInternal up to its first wait.  On POSIX the signal is sent in the same step.
StopBegin(p, c, strategy) ==
    /\ stop[p][c].at = "idle"
    /\ Cardinality({d \in Caller : stop[p][d].at # "idle"}) < MaxStops
    /\ IF IsTerminal(p)
         THEN /\ stop' = [stop EXCEPT ![p][c] = Settled]
              /\ UNCHANGED <<proc, child>>
         ELSE /\ proc' = [proc EXCEPT ![p].status = "stopping", ![p].wanted = TRUE,
                                      ![p].treeGone = @ /\ platform = "win32"]
              /\ stop' = [stop EXCEPT ![p][c] =
                            [at |-> IF platform = "win32"
                                      THEN IF strategy = "force" THEN "taskkill_force" ELSE "taskkill"
                                      ELSE IF strategy = "force" THEN "confirm" ELSE "grace",
                             strategy |-> strategy]]
              /\ IF platform = "posix" /\ strategy = "force"
                   THEN \E os \in Killed(p) : child' = [child EXCEPT ![p] = os]
                   ELSE UNCHANGED child

\* runTaskkill has ended: its exit code says whether the tree is taken for gone.
Taskkilled(p, c) ==
    /\ stop[p][c].at \in {"taskkill", "taskkill_force"}
    /\ \E ok \in BOOLEAN :
         /\ proc' = [proc EXCEPT ![p].treeGone = ok]
         /\ IF stop[p][c].at = "taskkill_force"
              THEN \E os \in Killed(p) :
                     /\ ok => ~os.residue /\ os.root # "alive"
                     /\ child' = [child EXCEPT ![p] = os]
              ELSE UNCHANGED child
    /\ stop' = [stop EXCEPT ![p][c].at = IF @ = "taskkill" THEN "grace" ELSE "confirm"]
    /\ UNCHANGED <<platform, start, closing, epochs, closed, pending, disposed, disk, restarts>>

\* The wait for a graceful end: ended, forced, or given up, which makes the record "running".
GraceEnds(p, c) ==
    /\ stop[p][c].at = "grace"
    /\ \/ /\ IsTerminal(p)
          /\ stop' = [stop EXCEPT ![p][c] = Settled]
          /\ UNCHANGED <<proc, child>>
       \/ /\ ~IsTerminal(p)
          /\ stop[p][c].strategy = "graceful_then_force"
          /\ proc' = [proc EXCEPT ![p].wanted = TRUE, ![p].treeGone = @ /\ platform = "win32"]
          /\ stop' = [stop EXCEPT ![p][c].at =
                        IF platform = "win32" THEN "taskkill_force" ELSE "confirm"]
          /\ IF platform = "posix"
               THEN \E os \in Killed(p) : child' = [child EXCEPT ![p] = os]
               ELSE UNCHANGED child
       \/ /\ ~IsTerminal(p)
          /\ stop[p][c].strategy = "graceful"
          /\ proc' = [proc EXCEPT ![p].status = "running", ![p].wanted = FALSE,
                                  ![p].treeGone = FALSE]
          /\ stop' = [stop EXCEPT ![p][c] = Settled]
          /\ UNCHANGED child
    /\ UNCHANGED <<platform, start, closing, epochs, closed, pending, disposed, disk, restarts>>

\* The wait for the end after a forced kill: without one the process is given up as orphaned.
ConfirmEnds(p, c) ==
    /\ stop[p][c].at = "confirm"
    /\ proc' = Finalized(p, "orphaned")
    /\ stop' = [stop EXCEPT ![p][c] = Settled]
    /\ UNCHANGED <<platform, start, child, closing, epochs, closed, pending, disposed, disk,
                   restarts>>

\* stop, of stop_process; list, readOutput and writeInput change no record.
StopTool(p) ==
    /\ proc[p].kept
    /\ child[p].root # "none"
    /\ \E strategy \in Strategy : StopBegin(p, "tool", strategy)
    /\ UNCHANGED <<platform, start, closing, epochs, closed, pending, disposed, disk, restarts>>

-----------------------------------------------------------------------------
(* Starting.                                                               *)

Fenced(p) ==
    LET s == start[p].owner IN disposed \/ s \in closed \/ epochs[s] # start[p].epoch

StartCall(p, s) ==
    /\ start[p].at = "idle"
    /\ disk[p] = None
    /\ start' = [start EXCEPT ![p] =
                   [at |-> IF disposed \/ s \in closed THEN "refused" ELSE "checking",
                    owner |-> s, epoch |-> epochs[s], aborted |-> FALSE]]
    /\ UNCHANGED <<platform, proc, child, stop, closing, epochs, closed, pending, disposed, disk,
                   restarts>>

\* Mutant: only processes that are in the records count.
RoomIgnoringPending(s) ==
    /\ Cardinality(ActiveProcs) < MaxActive
    /\ Cardinality(ActiveProcs \cap Of(s)) < MaxPerSession

\* Places taken: by active processes, and by starts that wait for their publication.
Room(s) ==
    /\ Cardinality(ActiveProcs) + Cardinality(pending) < MaxActive
    /\ Cardinality(ActiveProcs \cap Of(s)) + Cardinality(pending \cap Of(s)) < MaxPerSession

\* assertSession has answered.
SessionChecked(p) ==
    /\ start[p].at = "checking"
    /\ \E known \in BOOLEAN :
         IF known /\ ~start[p].aborted /\ ~Fenced(p) /\ Room(start[p].owner)
           THEN /\ start' = [start EXCEPT ![p].at = "publishing"]
                /\ pending' = pending \cup {p}
           ELSE /\ start' = [start EXCEPT ![p].at = "refused"]
                /\ UNCHANGED pending
    /\ UNCHANGED <<platform, proc, child, stop, closing, epochs, closed, disposed, disk, restarts>>

\* The record's first publication has ended: the fence is read again, and the rest up to the
\* spawn is one step.
Launch(p, persisted) ==
    LET record == [NoRecord EXCEPT !.kept = TRUE, !.status = "starting"] IN
    /\ pending' = pending \ {p}
    /\ \/ /\ ~persisted \/ start[p].aborted \/ Fenced(p)
          /\ start' = [start EXCEPT ![p].at = "withdrawing"]
          /\ UNCHANGED <<proc, child>>
       \/ /\ persisted /\ ~start[p].aborted /\ ~Fenced(p)
          /\ \/ /\ start' = [start EXCEPT ![p].at = "done"]
                /\ proc' = [proc EXCEPT ![p] = [record EXCEPT !.status = "failed"]]
                /\ UNCHANGED child
             \/ \E root \in {"alive", "failing"} :
                  /\ start' = [start EXCEPT ![p].at = "watching"]
                  /\ proc' = [proc EXCEPT ![p] = record]
                  /\ child' = [child EXCEPT ![p].root = root]

\* Mutant: the fence is not read again after the publication.
PublishedUnfenced(p) ==
    /\ start[p].at = "publishing"
    /\ disk' = [disk EXCEPT ![p] = "active"]
    /\ pending' = pending \ {p}
    /\ start' = [start EXCEPT ![p].at = "watching"]
    /\ proc' = [proc EXCEPT ![p] = [NoRecord EXCEPT !.kept = TRUE, !.status = "starting"]]
    /\ child' = [child EXCEPT ![p].root = "alive"]
    /\ UNCHANGED <<platform, stop, closing, epochs, closed, disposed, restarts>>

Published(p) ==
    /\ start[p].at = "publishing"
    /\ \E persisted \in BOOLEAN :
         /\ disk' = IF persisted THEN [disk EXCEPT ![p] = "active"] ELSE disk
         /\ Launch(p, persisted)
    /\ UNCHANGED <<platform, stop, closing, epochs, closed, disposed, restarts>>

\* removeStatePublication of a start that was fenced off.
Withdrawn(p) ==
    /\ start[p].at = "withdrawing"
    /\ disk' = [disk EXCEPT ![p] = None]
    /\ start' = [start EXCEPT ![p].at = "refused"]
    /\ UNCHANGED <<platform, proc, child, stop, closing, epochs, closed, pending, disposed,
                   restarts>>

\* The signal of the start's request: after the spawn its handler stops the process.
Abort(p) ==
    /\ start[p].at \in {"checking", "publishing", "watching", "publishing_ready", "late"}
    /\ ~start[p].aborted
    /\ start' = [start EXCEPT ![p].aborted = TRUE]
    /\ IF start[p].at \in {"checking", "publishing"}
         THEN UNCHANGED <<proc, child, stop>>
         ELSE StopBegin(p, "abort", "graceful_then_force")
    /\ UNCHANGED <<platform, closing, epochs, closed, pending, disposed, disk, restarts>>

\* The wait for readyAt (set by the spawn event or by a line of output) or an end; when the
\* startup timeout comes first, the process is stopped.
WatchEnds(p) ==
    /\ start[p].at = "watching"
    /\ \/ /\ proc[p].status # "starting"
          /\ start' = [start EXCEPT ![p].at = "publishing_ready"]
          /\ UNCHANGED <<proc, child, stop>>
       \/ /\ IsActive(p)
          /\ start' = [start EXCEPT ![p].at = "late"]
          /\ StopBegin(p, "startup", "force")
    /\ UNCHANGED <<platform, closing, epochs, closed, pending, disposed, disk, restarts>>

\* persistSafely at the end of start: a process that cannot be recorded is stopped.
ReadyPublished(p) ==
    /\ start[p].at = "publishing_ready"
    /\ \/ /\ disk' = [disk EXCEPT ![p] = OnDisk(proc[p].status)]
          /\ start' = [start EXCEPT ![p].at = "done"]
          /\ UNCHANGED <<proc, child, stop>>
       \/ /\ UNCHANGED disk
          /\ IF IsActive(p)
               THEN StopBegin(p, "startup", "force") /\ start' = [start EXCEPT ![p].at = "late"]
               ELSE start' = [start EXCEPT ![p].at = "done"] /\ UNCHANGED <<proc, child, stop>>
    /\ UNCHANGED <<platform, closing, epochs, closed, pending, disposed, restarts>>

StartedLate(p) ==
    /\ start[p].at = "late"
    /\ stop[p]["startup"].at = "done"
    /\ start' = [start EXCEPT ![p].at = "done"]
    /\ UNCHANGED <<platform, proc, child, stop, closing, epochs, closed, pending, disposed, disk,
                   restarts>>

-----------------------------------------------------------------------------
(* The child.                                                              *)

Known(p) == proc[p].status # "none"

\* "spawn".
SpawnEvent(p) ==
    /\ child[p].root \in {"alive", "exited"}
    /\ proc[p].kept /\ proc[p].status = "starting"
    /\ proc' = [proc EXCEPT ![p].status = "running"]
    /\ UNCHANGED <<platform, start, child, stop, closing, epochs, closed, pending, disposed, disk,
                   restarts>>

\* "error" of a spawn that failed.
ErrorEvent(p) ==
    /\ child[p].root = "failing"
    /\ child' = [child EXCEPT ![p].root = "closed"]
    /\ proc' = Finalized(p, "failed")
    /\ UNCHANGED <<platform, start, stop, closing, epochs, closed, pending, disposed, disk, restarts>>

\* The root process ends, with or without descendants that live on.
ChildExits(p) ==
    /\ child[p].root = "alive"
    /\ \E residue \in BOOLEAN : child' = [child EXCEPT ![p].root = "exited", ![p].residue = residue]
    /\ UNCHANGED <<platform, start, proc, stop, closing, epochs, closed, pending, disposed, disk,
                   restarts>>

ResidueExits(p) ==
    /\ child[p].residue
    /\ child' = [child EXCEPT ![p].residue = FALSE]
    /\ UNCHANGED <<platform, start, proc, stop, closing, epochs, closed, pending, disposed, disk,
                   restarts>>

\* "close": the outcome is chosen now, the group is cleaned up first unless a kill vouched for it.
CloseEvent(p) ==
    /\ child[p].root = "exited"
    /\ Known(p) /\ proc[p].status # "starting"
    /\ \E exitCode \in {"exited", "failed"} :
         LET outcome == IF proc[p].status = "stopping" \/ proc[p].wanted THEN "stopped" ELSE exitCode IN
         IF IsTerminal(p) \/ proc[p].treeGone
           THEN /\ child' = [child EXCEPT ![p].root = "closed"]
                /\ proc' = Finalized(p, outcome)
           ELSE /\ child' = [child EXCEPT ![p].root = "closed", ![p].cleanup = outcome]
                /\ UNCHANGED proc
    /\ UNCHANGED <<platform, start, stop, closing, epochs, closed, pending, disposed, disk, restarts>>

\* Mutant: a group that could not be cleaned up is not looked at again.
CleanupUnprobed(p) ==
    /\ child[p].cleanup # None
    /\ proc' = Finalized(p, child[p].cleanup)
    /\ child' = [child EXCEPT ![p].cleanup = None]
    /\ UNCHANGED <<platform, start, stop, closing, epochs, closed, pending, disposed, disk, restarts>>

\* cleanupResidualTree: SIGTERM, SIGKILL and a last probe; what it cannot rule out is orphaned.
\* On Windows the listing of the descendants may fail even when there are none.
CleanedUp(p) ==
    /\ child[p].cleanup # None
    /\ \E residue \in {FALSE, child[p].residue}, listed \in BOOLEAN :
         /\ platform = "posix" => listed
         /\ proc' = Finalized(p, IF residue \/ ~listed THEN "orphaned" ELSE child[p].cleanup)
         /\ child' = [child EXCEPT ![p].cleanup = None, ![p].residue = residue]
    /\ UNCHANGED <<platform, start, stop, closing, epochs, closed, pending, disposed, disk, restarts>>

\* The scheduled publication of a record that changed: it may come late, and a failed one is not
\* tried again.
Flush(p) ==
    /\ proc[p].kept
    /\ disk[p] # OnDisk(proc[p].status)
    /\ disk' = [disk EXCEPT ![p] = OnDisk(proc[p].status)]
    /\ UNCHANGED <<platform, start, proc, child, stop, closing, epochs, closed, pending, disposed, restarts>>

\* releaseRecord, when a terminal record's retention ends or too many are retained.
Release(p) ==
    /\ proc[p].kept /\ IsTerminal(p)
    /\ proc' = [proc EXCEPT ![p].kept = FALSE]
    /\ disk' = [disk EXCEPT ![p] = None]
    /\ UNCHANGED <<platform, start, child, stop, closing, epochs, closed, pending, disposed, restarts>>

-----------------------------------------------------------------------------
(* Ending an owner, ending the runtime.                                    *)

\* stopSession: the epoch and the closed session fence off starts that are under way.
StopSession(c, s) ==
    /\ closing[c].at = "idle"
    /\ epochs' = [epochs EXCEPT ![s] = @ + 1]
    /\ closing' = [closing EXCEPT ![c] =
                     [at |-> "opening", session |-> s, epoch |-> epochs[s] + 1, owned |-> {}]]
    /\ closed' = closed \cup {s}
    /\ UNCHANGED <<platform, start, proc, child, stop, pending, disposed, disk, restarts>>

Dispose(c) ==
    /\ closing[c].at = "idle"
    /\ ~disposed
    /\ disposed' = TRUE
    /\ closing' = [closing EXCEPT ![c] = [NoClosing EXCEPT !.at = "opening"]]
    /\ UNCHANGED <<platform, start, proc, child, stop, epochs, closed, pending, disk, restarts>>

\* initialize has answered: every active process of the owner is to be stopped.
TakeOwned(c) ==
    LET s == closing[c].session IN
    /\ closing[c].at = "opening"
    /\ closing' = [closing EXCEPT ![c].at = "stopping",
                     ![c].owned = IF s = None THEN ActiveProcs ELSE ActiveProcs \cap Of(s)]
    /\ UNCHANGED <<platform, start, proc, child, stop, epochs, closed, pending, disposed, disk,
                   restarts>>

StopOwned(c, p) ==
    /\ closing[c].at = "stopping"
    /\ p \in closing[c].owned
    /\ StopBegin(p, c, "graceful_then_force")
    /\ UNCHANGED <<platform, start, closing, epochs, closed, pending, disposed, disk, restarts>>

\* Every stop has settled.  The session opens again unless a newer stopSession closed it.
Stopped(c) ==
    LET s == closing[c].session IN
    /\ closing[c].at = "stopping"
    /\ \A p \in closing[c].owned : stop[p][c].at = "done"
    /\ closing' = [closing EXCEPT ![c].at = "done"]
    /\ closed' = IF s # None /\ epochs[s] = closing[c].epoch THEN closed \ {s} ELSE closed
    /\ UNCHANGED <<platform, start, proc, child, stop, epochs, pending, disposed, disk, restarts>>

\* The runtime dies and the next one initializes: what was active has no handle any more.
Restart ==
    /\ restarts < Restarts
    /\ restarts' = restarts + 1
    /\ disk' = [p \in Proc |-> IF disk[p] = "active" THEN "orphaned" ELSE disk[p]]
    /\ proc' = [p \in Proc |->
                  IF disk[p] # None
                    THEN [NoRecord EXCEPT !.kept = TRUE, !.status = disk'[p]]
                    ELSE IF proc[p].status = "none" THEN NoRecord
                    ELSE [NoRecord EXCEPT !.status = proc[p].status]]
    /\ start' = [p \in Proc |->
                   IF start[p].at = "idle" THEN start[p]
                   ELSE [start[p] EXCEPT !.at = IF @ = "refused" THEN @ ELSE "done"]]
    /\ child' = [p \in Proc |-> [child[p] EXCEPT !.cleanup = None]]
    /\ stop' = [p \in Proc |-> [c \in Caller |-> IF stop[p][c].at = "idle" THEN NoStop ELSE Settled]]
    /\ closing' = [c \in StopCall |-> IF closing[c].at = "idle" THEN NoClosing ELSE [NoClosing EXCEPT !.at = "lost"]]
    /\ epochs' = [s \in Session |-> 0]
    /\ closed' = {}
    /\ pending' = {}
    /\ disposed' = FALSE
    /\ UNCHANGED platform

-----------------------------------------------------------------------------
StopStep(p) == \E c \in Caller : Taskkilled(p, c) \/ GraceEnds(p, c) \/ ConfirmEnds(p, c)

StartStep(p, s) == StartCall(p, s) \/ SessionChecked(p) \/ Published(p) \/ Withdrawn(p)

ProcessStep(p, s) ==
    \/ StartStep(p, s) \/ Abort(p) \/ WatchEnds(p) \/ ReadyPublished(p) \/ StartedLate(p)
    \/ StopTool(p) \/ StopStep(p)
    \/ SpawnEvent(p) \/ ErrorEvent(p) \/ ChildExits(p) \/ ResidueExits(p) \/ CloseEvent(p)
    \/ CleanedUp(p) \/ Flush(p) \/ Release(p)

ClosingStep(c, s) ==
    \/ StopSession(c, s) \/ Dispose(c)
    \/ TakeOwned(c) \/ Stopped(c) \/ \E p \in Proc : StopOwned(c, p)

Next ==
    \/ \E s \in Session : \/ \E p \in Proc : ProcessStep(p, s)
                         \/ \E c \in StopCall : ClosingStep(c, s)
    \/ Restart

Spec == Init /\ [][Next]_pmVars

-----------------------------------------------------------------------------
(* Properties.                                                             *)

\* Once a stopSession has returned, no process whose start was called before it began is
\* active, or will be: not one whose start was waiting for its session or its publication,
\* nor one that another stop was busy with.
StoppedForGood ==
    \A c \in StopCall : closing[c].at = "done" =>
        \A p \in Proc :
            /\ closing[c].session # None => start[p].owner = closing[c].session
            /\ closing[c].session # None => start[p].epoch < closing[c].epoch
            => ~IsActive(p)

\* The limits hold however many starts wait for a publication at the same time.
WithinLimits ==
    /\ Cardinality(ActiveProcs \cup pending) <= MaxActive
    /\ \A s \in Session : Cardinality((ActiveProcs \cup pending) \cap Of(s)) <= MaxPerSession

\* An outcome is final: no stop that gives up, no late close and no cleanup replaces it.
OutcomeStays ==
    \A p \in Proc : proc[p].kept /\ IsTerminal(p) /\ proc'[p].kept /\ restarts' = restarts =>
        proc'[p].status = proc[p].status

OutcomeIsFinal == [][OutcomeStays]_pmVars

\* POSIX: a process reported as exited, failed or stopped has left nothing running.
GoneMeansGone ==
    platform = "posix" =>
        \A p \in Proc : proc[p].status \in {"exited", "failed", "stopped"} => ~Living(p)

\* A crash forgets no living process: the next runtime has it on record, unless an outcome was
\* already reported for it (which on POSIX can only be that it is out of control).
NoneForgotten == \A p \in Proc : Living(p) => disk[p] # None \/ IsTerminal(p)

\* Both: a living process is one that is not reported as ended, and one that a crash does not
\* make unknown.
LivingIsKnown == GoneMeansGone /\ NoneForgotten
=============================================================================
