------------------------ MODULE ManagedProcesses_proofs ------------------------
(***************************************************************************)
(* For any processes, owners and calls: the limits hold, an outcome stays, *)
(* a session that was stopped stays stopped, and a living process is known.*)
(*                                                                         *)
(* Every step but two lets each record go on (RecordGoesOn): it may end,   *)
(* but it never comes to life.  The two are the launch of a process, which *)
(* needs a place and an open fence, and a restart, after which none is     *)
(* active.  All the safety properties rest on this.                        *)
(***************************************************************************)
EXTENDS ManagedProcesses, FiniteSetTheorems, TLAPS

-----------------------------------------------------------------------------
(* The inductive invariants.                                               *)

\* Where the start of a process has no record yet.
Unlaunched == {"idle", "checking", "publishing", "withdrawing", "refused"}

\* A record, its start, its stops and its child agree on whether the process was launched;
\* a group is cleaned up only after the root has closed.
RecordOK(p) ==
    /\ proc[p].kept => proc[p].status # "none"
    /\ start[p].at \in Unlaunched => proc[p].status = "none"
    /\ start[p].at \in Unlaunched \ {"withdrawing"} => disk[p] = None
    /\ start[p].at \in {"watching", "publishing_ready", "late"} => proc[p].status # "none"
    /\ \A c \in Caller : stop[p][c].at # "idle" => proc[p].status # "none"
    /\ proc[p].status = "none" => child[p].root = "none"
    /\ child[p].cleanup # None => child[p].root = "closed"
    /\ child[p].residue => child[p].root \in {"exited", "closed"}
    /\ p \in pending <=> start[p].at = "publishing"

RecordInv ==
    /\ \A p \in Proc : RecordOK(p)
    /\ \A c \in StopCall : \A p \in closing[c].owned : proc[p].status # "none"

TypeInv == TypeOK /\ RecordInv

Gone == {"exited", "failed", "stopped"}

\* On POSIX no kill vouches for a group, and what is reported or published as gone is gone.
TreeOK(p) ==
    platform = "posix" =>
        /\ ~proc[p].treeGone
        /\ \A c \in Caller : stop[p][c].at \notin {"taskkill", "taskkill_force"}
        /\ proc[p].status \in Gone => ~Living(p)
        /\ disk[p] \in Gone => ~Living(p)

\* On every platform a crash forgets no living process.
Remembered(p) == Living(p) => disk[p] # None \/ IsTerminal(p)

Tree(p) == TreeOK(p) /\ Remembered(p)

\* Places that are taken: there are finitely many of them.
Places == ActiveProcs \cup pending

PlaceInv == IsFiniteSet(Places) /\ WithinLimits

\* A call of stopSession or dispose fences its processes off.
Fences(c) ==
    closing[c].at \in {"opening", "stopping", "done"} =>
        IF closing[c].session = None THEN disposed
        ELSE epochs[closing[c].session] >= closing[c].epoch

\* The processes a call of stopSession or dispose is about.
Meant(c, p) ==
    closing[c].session # None =>
        /\ start[p].owner = closing[c].session
        /\ start[p].epoch < closing[c].epoch

\* While it waits, the active ones among them are those whose stops it waits for; a stop of
\* its own that has settled has left no active process.
Awaits(c, p) ==
    /\ closing[c].at = "stopping" /\ Meant(c, p) /\ IsActive(p) => p \in closing[c].owned
    /\ closing[c].at = "done" /\ Meant(c, p) => ~IsActive(p)
    /\ stop[p][c].at # "idle" => stop[p][c].strategy = "graceful_then_force" \/ stop[p][c].at = "done"
    /\ stop[p][c].at = "done" => ~IsActive(p)

StopInv == \A c \in StopCall : Fences(c) /\ \A p \in Proc : Awaits(c, p)

-----------------------------------------------------------------------------
(* What the operators of the model return.                                 *)

StartRecord == [at : {"idle", "checking", "publishing", "withdrawing", "watching",
                      "publishing_ready", "late", "done", "refused"},
                owner : Session \cup {None}, epoch : Nat, aborted : BOOLEAN]
ProcRecord == [status : {"none"} \cup Active \cup Terminal, kept : BOOLEAN,
               wanted : BOOLEAN, treeGone : BOOLEAN]
ChildRecord == [root : {"none", "failing", "alive", "exited", "closed"},
                residue : BOOLEAN, cleanup : {None, "stopped", "exited", "failed"}]
StopRecord == [at : StopPhase, strategy : Strategy]
ClosingRecord == [at : {"idle", "opening", "stopping", "done", "lost"},
                  session : Session \cup {None}, epoch : Nat, owned : SUBSET Proc]

\* A record that ends keeps its first outcome.
LEMMA FinalizedType ==
    ASSUME proc \in [Proc -> ProcRecord], NEW p \in Proc, NEW status \in Terminal,
           proc' = Finalized(p, status)
    PROVE  /\ proc' \in [Proc -> ProcRecord]
           /\ \A q \in Proc : q # p => proc'[q] = proc[q]
           /\ proc'[p].status = IF IsTerminal(p) THEN proc[p].status ELSE status
           /\ proc'[p].kept = proc[p].kept /\ proc'[p].treeGone = proc[p].treeGone
BY DEF Finalized, ProcRecord, IsTerminal

\* A kill ends the root and the descendants, or neither, or the root only.
LEMMA KilledType ==
    ASSUME child \in [Proc -> ChildRecord], NEW p \in Proc, NEW os \in Killed(p)
    PROVE  /\ os \in ChildRecord
           /\ os.root \in {child[p].root, "exited"}
           /\ os.root # child[p].root => child[p].root = "alive"
           /\ os.residue => child[p].residue
           /\ os.cleanup = child[p].cleanup
BY DEF Killed, ChildRecord

\* What a step does to the record of a process that it neither launches nor loses in a restart:
\* an outcome stays, and what is not active does not become active.
RecordGoesOn(p) ==
    /\ proc'[p].kept => proc[p].kept
    /\ proc'[p].status = "none" <=> proc[p].status = "none"
    /\ IsTerminal(p) => proc'[p].status = proc[p].status
    /\ proc'[p].status \in Active => proc[p].status \in Active \cup {"none"}

\* And to its child: it ends, but for residue of a root that ends.
ChildGoesOn(p) ==
    /\ Living(p)' => Living(p)
    /\ child'[p].root = "none" <=> child[p].root = "none"
    /\ child'[p].cleanup # None => child'[p].root = "closed"
    /\ child'[p].residue => child'[p].root \in {"exited", "closed"}

\* The types, part by part.
LEMMA Types ==
    ASSUME TypeOK
    PROVE  /\ start \in [Proc -> StartRecord] /\ proc \in [Proc -> ProcRecord]
           /\ child \in [Proc -> ChildRecord] /\ stop \in [Proc -> [Caller -> StopRecord]]
           /\ closing \in [StopCall -> ClosingRecord]
BY DEF TypeOK, StartRecord, ProcRecord, ChildRecord, StopRecord, ClosingRecord

\* A child that was killed, or not.
LEMMA ChildKilled ==
    ASSUME TypeInv, NEW p \in Proc,
           UNCHANGED child \/ \E os \in Killed(p) : child' = [child EXCEPT ![p] = os]
    PROVE  /\ child' \in [Proc -> ChildRecord] /\ (\A q \in Proc : q # p => child'[q] = child[q])
           /\ ChildGoesOn(p)
<1>1. RecordOK(p)
  BY DEF TypeInv, RecordInv
<1>2. CASE UNCHANGED child
  BY <1>1, <1>2, Types DEF TypeInv, ChildGoesOn, RecordOK, Living
<1>3. ASSUME NEW os \in Killed(p), child' = [child EXCEPT ![p] = os]
      PROVE  /\ child' \in [Proc -> ChildRecord] /\ (\A q \in Proc : q # p => child'[q] = child[q])
             /\ ChildGoesOn(p)
  BY <1>1, <1>3, Types, KilledType DEF TypeInv, ChildGoesOn, RecordOK, Living
<1> QED
  BY <1>2, <1>3

\* A stop that begins on a process that was launched: the record waits for its end, or has it.
LEMMA StopBegins ==
    ASSUME TypeInv, NEW p \in Proc, NEW c \in Caller, NEW strategy \in Strategy,
           proc[p].status # "none", StopBegin(p, c, strategy)
    PROVE  /\ proc' \in [Proc -> ProcRecord]
           /\ child' \in [Proc -> ChildRecord]
           /\ stop' \in [Proc -> [Caller -> StopRecord]]
           /\ \A q \in Proc : q # p => proc'[q] = proc[q] /\ child'[q] = child[q] /\ stop'[q] = stop[q]
           /\ \A d \in Caller : d # c => stop'[p][d] = stop[p][d]
           /\ stop'[p][c].at = "done" => IsTerminal(p)
           /\ stop'[p][c].at # "done" => stop'[p][c].strategy = strategy
           /\ stop'[p][c].at # "idle"
           /\ platform = "posix" => stop'[p][c].at \notin {"taskkill", "taskkill_force"}
           /\ RecordGoesOn(p) /\ ChildGoesOn(p)
           /\ platform = "posix" /\ ~proc[p].treeGone => ~proc'[p].treeGone
           /\ proc'[p].status \in Terminal => IsTerminal(p)
<1>1. /\ proc \in [Proc -> ProcRecord] /\ child \in [Proc -> ChildRecord]
      /\ stop \in [Proc -> [Caller -> StopRecord]]
      /\ RecordOK(p)
  BY DEF TypeInv, TypeOK, RecordInv, ProcRecord, ChildRecord, StopRecord
<1>2. CASE IsTerminal(p)
  <2>1. stop' = [stop EXCEPT ![p][c] = Settled] /\ UNCHANGED <<proc, child>>
    BY <1>2 DEF StopBegin
  <2>2. Settled \in StopRecord /\ Settled.at = "done"
    BY DEF Settled, StopRecord, StopPhase, Strategy
  <2>3. stop' \in [Proc -> [Caller -> StopRecord]]
    BY <1>1, <2>1, <2>2
  <2>4. stop'[p][c] = Settled
    BY <1>1, <2>1
  <2>5. RecordGoesOn(p) /\ ChildGoesOn(p)
    BY <1>1, <2>1 DEF RecordGoesOn, ChildGoesOn, RecordOK, Living
  <2> QED
    BY <1>1, <1>2, <2>1, <2>2, <2>3, <2>4, <2>5 DEF IsTerminal
<1>3. CASE ~IsTerminal(p)
  <2> DEFINE at == IF platform = "win32"
                     THEN IF strategy = "force" THEN "taskkill_force" ELSE "taskkill"
                     ELSE IF strategy = "force" THEN "confirm" ELSE "grace"
  <2>1. /\ proc' = [proc EXCEPT ![p].status = "stopping", ![p].wanted = TRUE,
                                ![p].treeGone = @ /\ platform = "win32"]
        /\ stop' = [stop EXCEPT ![p][c] = [at |-> at, strategy |-> strategy]]
        /\ \/ \E os \in Killed(p) : child' = [child EXCEPT ![p] = os]
           \/ UNCHANGED child
    BY <1>3 DEF StopBegin
  <2>2. proc' \in [Proc -> ProcRecord]
    <3>1. PICK gone \in BOOLEAN :
            proc' = [proc EXCEPT ![p].status = "stopping", ![p].wanted = TRUE, ![p].treeGone = gone]
      BY <2>1
    <3> QED
      BY <1>1, <3>1, ZenonT(30) DEF ProcRecord, Active
  <2>3. /\ proc'[p].status = "stopping" /\ proc'[p].kept = proc[p].kept
        /\ proc'[p].treeGone => proc[p].treeGone
        /\ \A q \in Proc : q # p => proc'[q] = proc[q]
    BY <1>1, <2>1 DEF ProcRecord
  <2>4. proc[p].status \in Active
    BY <1>1, <1>3 DEF ProcRecord, IsTerminal
  <2>5. RecordGoesOn(p)
    BY <1>3, <2>3, <2>4 DEF RecordGoesOn, IsTerminal
  <2>6. /\ child' \in [Proc -> ChildRecord] /\ (\A q \in Proc : q # p => child'[q] = child[q])
        /\ ChildGoesOn(p)
    BY <2>1, ChildKilled
  <2>8. [at |-> at, strategy |-> strategy] \in StopRecord
    BY DEF StopRecord, StopPhase
  <2>9. stop' \in [Proc -> [Caller -> StopRecord]]
    BY <1>1, <2>1, <2>8
  <2>10. stop'[p][c] = [at |-> at, strategy |-> strategy]
    BY <1>1, <2>1
  <2>11. /\ \A q \in Proc : q # p => stop'[q] = stop[q]
         /\ \A d \in Caller : d # c => stop'[p][d] = stop[p][d]
    BY <1>1, <2>1
  <2> QED
    BY <2>2, <2>3, <2>5, <2>6, <2>9, <2>10, <2>11 DEF Active, Terminal
<1> QED
  BY <1>2, <1>3

-----------------------------------------------------------------------------
(* One lemma for each action: it keeps the types and the records, and no   *)
(* process comes to life in it.                                            *)

\* No process comes to life.
Calm == \A q \in Proc : RecordGoesOn(q) /\ ChildGoesOn(q)

\* A process whose record, child, stops and publication a step leaves alone.
LEMMA Untouched ==
    ASSUME TypeInv, NEW q \in Proc,
           proc'[q] = proc[q], child'[q] = child[q], stop'[q] = stop[q], disk'[q] = disk[q],
           start'[q].at = start[q].at, q \in pending' <=> q \in pending
    PROVE  RecordOK(q)' /\ RecordGoesOn(q) /\ ChildGoesOn(q)
BY Types DEF TypeInv, RecordInv, RecordOK, RecordGoesOn, ChildGoesOn, Living, ProcRecord, Terminal, IsTerminal

\* Processes that calls wait for stay known when no process comes to life.
LEMMA OwnedStay ==
    ASSUME TypeInv, Calm, \A c \in StopCall : closing'[c].owned = closing[c].owned
    PROVE  \A c \in StopCall : \A p \in closing'[c].owned : proc'[p].status # "none"
BY Types DEF TypeInv, RecordInv, Calm, RecordGoesOn, ClosingRecord

LEMMA InitRecords == Init => TypeInv
<1> SUFFICES ASSUME Init PROVE TypeInv
  OBVIOUS
<1>1. TypeOK
  <2>1. /\ NoStart \in StartRecord /\ NoRecord \in ProcRecord /\ NoChild \in ChildRecord
        /\ NoStop \in StopRecord /\ NoClosing \in ClosingRecord
    BY DEF NoStart, NoRecord, NoChild, NoStop, NoClosing, StartRecord, ProcRecord, ChildRecord,
           StopRecord, ClosingRecord, StopPhase, Strategy
  <2>2. /\ start \in [Proc -> StartRecord] /\ proc \in [Proc -> ProcRecord]
        /\ child \in [Proc -> ChildRecord] /\ stop \in [Proc -> [Caller -> StopRecord]]
        /\ closing \in [StopCall -> ClosingRecord]
    BY <2>1 DEF Init
  <2>3. /\ platform \in {"win32", "posix"} /\ epochs \in [Session -> Nat]
        /\ restarts \in 0..Restarts
    BY ManagedProcessesAssumption DEF Init
  <2>4. closed \subseteq Session /\ pending \subseteq Proc /\ disposed \in BOOLEAN
    BY DEF Init
  <2>5. disk \in [Proc -> {None, "active"} \cup Terminal]
    BY DEF Init
  <2> QED
    BY <2>2, <2>3, <2>4, <2>5 DEF TypeOK, StartRecord, ProcRecord, ChildRecord, StopRecord, ClosingRecord
<1>2. RecordInv
  BY DEF Init, RecordInv, RecordOK, Unlaunched, NoStart, NoRecord, NoChild, NoStop, NoClosing
<1> QED
  BY <1>1, <1>2 DEF TypeInv

\* Types after a step of a process, or of a stop.
LEMMA TypesAfter ==
    ASSUME TypeOK,
           start' \in [Proc -> StartRecord], proc' \in [Proc -> ProcRecord],
           child' \in [Proc -> ChildRecord], stop' \in [Proc -> [Caller -> StopRecord]],
           disk' \in [Proc -> {None, "active"} \cup Terminal], pending' \subseteq Proc,
           UNCHANGED <<platform, closing, epochs, closed, disposed, restarts>>
    PROVE  TypeOK'
BY DEF TypeOK, StartRecord, ProcRecord, ChildRecord, StopRecord, ClosingRecord

\* A step of one process, which does not come to life in it, keeps all records.
LEMMA OneProcess ==
    ASSUME TypeInv, TypeOK', NEW p \in Proc, RecordOK(p)', RecordGoesOn(p), ChildGoesOn(p),
           \A q \in Proc : q # p =>
               /\ proc'[q] = proc[q] /\ child'[q] = child[q] /\ stop'[q] = stop[q]
               /\ disk'[q] = disk[q] /\ start'[q].at = start[q].at
               /\ q \in pending' <=> q \in pending,
           UNCHANGED closing
    PROVE  TypeInv' /\ Calm
<1>1. \A q \in Proc : RecordOK(q)' /\ RecordGoesOn(q) /\ ChildGoesOn(q)
  BY Untouched
<1>2. Calm
  BY <1>1 DEF Calm
<1>3. \A c \in StopCall : \A q \in closing'[c].owned : proc'[q].status # "none"
  BY <1>2, OwnedStay
<1> QED
  BY <1>1, <1>2, <1>3 DEF TypeInv, RecordInv

\* A stop that goes on to another wait.
LEMMA StopMoves ==
    ASSUME stop \in [Proc -> [Caller -> StopRecord]], NEW p \in Proc, NEW c \in Caller,
           NEW at \in StopPhase, stop' = [stop EXCEPT ![p][c].at = at]
    PROVE  /\ stop' \in [Proc -> [Caller -> StopRecord]]
           /\ \A q \in Proc : q # p => stop'[q] = stop[q]
           /\ \A d \in Caller : d # c => stop'[p][d] = stop[p][d]
           /\ stop'[p][c].at = at /\ stop'[p][c].strategy = stop[p][c].strategy
<1>1. stop' = [stop EXCEPT ![p] = [stop[p] EXCEPT ![c] = [stop[p][c] EXCEPT !.at = at]]]
  OBVIOUS
<1>2. [stop[p][c] EXCEPT !.at = at] \in StopRecord
  BY SMTT(30) DEF StopRecord
<1> QED
  BY <1>1, <1>2 DEF StopRecord

LEMMA StopSettles ==
    ASSUME stop \in [Proc -> [Caller -> StopRecord]], NEW p \in Proc, NEW c \in Caller,
           stop' = [stop EXCEPT ![p][c] = Settled]
    PROVE  /\ stop' \in [Proc -> [Caller -> StopRecord]]
           /\ \A q \in Proc : q # p => stop'[q] = stop[q]
           /\ \A d \in Caller : d # c => stop'[p][d] = stop[p][d]
           /\ stop'[p][c].at = "done"
BY DEF Settled, StopRecord, StopPhase, Strategy

LEMMA TaskkilledStep ==
    ASSUME TypeInv, NEW p \in Proc, NEW c \in Caller, Taskkilled(p, c)
    PROVE  TypeInv' /\ Calm
<1>1. RecordOK(p) /\ proc[p].status # "none"
  BY DEF TypeInv, RecordInv, RecordOK, Taskkilled
<1>2. /\ proc' \in [Proc -> ProcRecord] /\ (\A q \in Proc : q # p => proc'[q] = proc[q])
      /\ proc'[p].status = proc[p].status /\ proc'[p].kept = proc[p].kept
  <2>1. PICK ok \in BOOLEAN : proc' = [proc EXCEPT ![p].treeGone = ok]
    BY DEF Taskkilled
  <2> QED
    BY <2>1, Types DEF TypeInv, ProcRecord
<1>3. /\ child' \in [Proc -> ChildRecord] /\ (\A q \in Proc : q # p => child'[q] = child[q])
      /\ ChildGoesOn(p)
  BY ChildKilled DEF Taskkilled
<1>4. /\ stop' \in [Proc -> [Caller -> StopRecord]] /\ (\A q \in Proc : q # p => stop'[q] = stop[q])
  <2>1. PICK at \in StopPhase : stop' = [stop EXCEPT ![p][c].at = at]
    BY DEF Taskkilled, StopPhase
  <2> QED
    BY <2>1, Types, StopMoves DEF TypeInv
<1>5. RecordGoesOn(p)
  BY <1>1, <1>2 DEF RecordGoesOn, Active, Terminal, IsTerminal
<1>6. RecordOK(p)'
  BY <1>1, <1>2, <1>3 DEF RecordOK, ChildGoesOn, Taskkilled, Unlaunched
<1>7. TypeOK'
  BY <1>2, <1>3, <1>4, Types, TypesAfter DEF TypeInv, TypeOK, Taskkilled
<1> QED
  BY <1>2, <1>3, <1>4, <1>5, <1>6, <1>7, OneProcess DEF Taskkilled

LEMMA GraceEndsStep ==
    ASSUME TypeInv, NEW p \in Proc, NEW c \in Caller, GraceEnds(p, c)
    PROVE  TypeInv' /\ Calm
<1>1. RecordOK(p) /\ proc[p].status # "none"
  BY DEF TypeInv, RecordInv, RecordOK, GraceEnds
<1>2. /\ proc' \in [Proc -> ProcRecord] /\ (\A q \in Proc : q # p => proc'[q] = proc[q])
      /\ RecordGoesOn(p) /\ proc'[p].status # "none" /\ proc'[p].kept = proc[p].kept
  <2>1. CASE UNCHANGED proc
    BY <1>1, <2>1, Types DEF TypeInv, ProcRecord, RecordGoesOn, Active, Terminal
  <2>2. CASE /\ ~IsTerminal(p)
             /\ proc' = [proc EXCEPT ![p].wanted = TRUE, ![p].treeGone = @ /\ platform = "win32"]
    <3>1. PICK gone \in BOOLEAN :
            proc' = [proc EXCEPT ![p].wanted = TRUE, ![p].treeGone = gone]
      BY <2>2
    <3>2. /\ proc' \in [Proc -> ProcRecord] /\ (\A q \in Proc : q # p => proc'[q] = proc[q])
          /\ proc'[p].status = proc[p].status /\ proc'[p].kept = proc[p].kept
      BY <3>1, Types DEF TypeInv, ProcRecord
    <3> QED
      BY <1>1, <3>2 DEF RecordGoesOn, Active, Terminal
  <2>3. CASE /\ ~IsTerminal(p)
             /\ proc' = [proc EXCEPT ![p].status = "running", ![p].wanted = FALSE,
                                     ![p].treeGone = FALSE]
    <3>1. /\ proc' \in [Proc -> ProcRecord] /\ (\A q \in Proc : q # p => proc'[q] = proc[q])
          /\ proc'[p].status = "running" /\ proc'[p].kept = proc[p].kept
      <4>1. proc' = [proc EXCEPT ![p] = [proc[p] EXCEPT !.status = "running", !.wanted = FALSE,
                                                        !.treeGone = FALSE]]
        BY <2>3
      <4>2. [proc[p] EXCEPT !.status = "running", !.wanted = FALSE, !.treeGone = FALSE]
            \in [status : {"running"}, kept : {proc[p].kept}, wanted : BOOLEAN, treeGone : BOOLEAN]
        BY Types DEF TypeInv, ProcRecord
      <4> QED
        BY <4>1, <4>2, Types DEF TypeInv, ProcRecord, Active
    <3>2. proc[p].status \in Active
      BY <1>1, <2>3, Types DEF TypeInv, ProcRecord, IsTerminal
    <3> QED
      BY <1>1, <2>3, <3>1, <3>2 DEF RecordGoesOn, Active, Terminal, IsTerminal
  <2> QED
    BY <2>1, <2>2, <2>3 DEF GraceEnds
<1>3. /\ child' \in [Proc -> ChildRecord] /\ (\A q \in Proc : q # p => child'[q] = child[q])
      /\ ChildGoesOn(p)
  BY ChildKilled DEF GraceEnds
<1>4. stop' \in [Proc -> [Caller -> StopRecord]] /\ (\A q \in Proc : q # p => stop'[q] = stop[q])
  <2>1. \/ stop' = [stop EXCEPT ![p][c] = Settled]
        \/ \E at \in StopPhase : stop' = [stop EXCEPT ![p][c].at = at]
    BY DEF GraceEnds, StopPhase
  <2> QED
    BY <2>1, Types, StopMoves, StopSettles DEF TypeInv
<1>5. RecordOK(p)'
  BY <1>1, <1>2, <1>3 DEF RecordOK, ChildGoesOn, GraceEnds, Unlaunched
<1>6. TypeOK'
  BY <1>2, <1>3, <1>4, Types, TypesAfter DEF TypeInv, TypeOK, GraceEnds
<1> QED
  BY <1>2, <1>3, <1>4, <1>5, <1>6, OneProcess DEF GraceEnds

LEMMA ConfirmEndsStep ==
    ASSUME TypeInv, NEW p \in Proc, NEW c \in Caller, ConfirmEnds(p, c)
    PROVE  TypeInv' /\ Calm
<1>1. RecordOK(p) /\ proc[p].status # "none"
  BY DEF TypeInv, RecordInv, RecordOK, ConfirmEnds
<1>2. /\ proc' \in [Proc -> ProcRecord] /\ (\A q \in Proc : q # p => proc'[q] = proc[q])
      /\ proc'[p].kept = proc[p].kept
      /\ proc'[p].status = IF IsTerminal(p) THEN proc[p].status ELSE "orphaned"
  BY Types, FinalizedType DEF TypeInv, ConfirmEnds, Terminal
<1>3. stop' \in [Proc -> [Caller -> StopRecord]] /\ (\A q \in Proc : q # p => stop'[q] = stop[q])
  BY Types, StopSettles DEF TypeInv, ConfirmEnds
<1>4. RecordGoesOn(p) /\ ChildGoesOn(p)
  BY <1>1, <1>2 DEF RecordGoesOn, ChildGoesOn, ConfirmEnds, Living, RecordOK, IsTerminal, Terminal, Active
<1>5. RecordOK(p)'
  BY <1>1, <1>2, <1>4 DEF RecordOK, ConfirmEnds, Unlaunched
<1>6. TypeOK'
  BY <1>2, <1>3, Types, TypesAfter DEF TypeInv, TypeOK, ConfirmEnds
<1> QED
  BY <1>2, <1>3, <1>4, <1>5, <1>6, OneProcess DEF ConfirmEnds

\* A step that begins a stop of a launched process, and may move its start on.
LEMMA StopBeginsStep ==
    ASSUME TypeInv, NEW p \in Proc, NEW c \in Caller, NEW strategy \in Strategy,
           proc[p].status # "none", StopBegin(p, c, strategy),
           start' \in [Proc -> StartRecord], \A q \in Proc : q # p => start'[q] = start[q],
           start'[p].at \notin Unlaunched, start[p].at \notin Unlaunched,
           UNCHANGED <<platform, closing, epochs, closed, pending, disposed, disk, restarts>>
    PROVE  TypeInv' /\ Calm
<1>1. RecordOK(p)
  BY DEF TypeInv, RecordInv
<1>2. TypeOK'
  BY StopBegins, Types, TypesAfter DEF TypeInv, TypeOK
<1>3. RecordOK(p)'
  BY <1>1, StopBegins DEF RecordOK, RecordGoesOn, ChildGoesOn, Unlaunched
<1> QED
  BY <1>2, <1>3, StopBegins, OneProcess

LEMMA StopToolStep ==
    ASSUME TypeInv, NEW p \in Proc, StopTool(p)
    PROVE  TypeInv' /\ Calm
<1>1. PICK strategy \in Strategy : StopBegin(p, "tool", strategy)
  BY DEF StopTool
<1>2. proc[p].status # "none" /\ start[p].at \notin Unlaunched
  BY DEF StopTool, TypeInv, RecordInv, RecordOK
<1> QED
  BY <1>1, <1>2, Types, StopBeginsStep DEF StopTool, Caller, TypeInv

LEMMA StopOwnedStep ==
    ASSUME TypeInv, NEW c \in StopCall, NEW p \in Proc, StopOwned(c, p)
    PROVE  TypeInv' /\ Calm
<1>1. proc[p].status # "none" /\ start[p].at \notin Unlaunched
  BY DEF StopOwned, TypeInv, RecordInv, RecordOK
<1> QED
  BY <1>1, Types, StopBeginsStep DEF StopOwned, Caller, Strategy, TypeInv

StartPhase == {"idle", "checking", "publishing", "withdrawing", "watching", "publishing_ready",
               "late", "done", "refused"}

\* A start that goes on.
LEMMA StartMoves ==
    ASSUME start \in [Proc -> StartRecord], NEW p \in Proc, NEW at \in StartPhase,
           start' = [start EXCEPT ![p].at = at]
    PROVE  /\ start' \in [Proc -> StartRecord] /\ (\A q \in Proc : q # p => start'[q] = start[q])
           /\ start'[p].at = at /\ start'[p].owner = start[p].owner
           /\ start'[p].epoch = start[p].epoch
BY DEF StartRecord, StartPhase

LEMMA StartAborts ==
    ASSUME start \in [Proc -> StartRecord], NEW p \in Proc,
           start' = [start EXCEPT ![p].aborted = TRUE]
    PROVE  /\ start' \in [Proc -> StartRecord] /\ (\A q \in Proc : q # p => start'[q] = start[q])
           /\ start'[p].at = start[p].at /\ start'[p].owner = start[p].owner
           /\ start'[p].epoch = start[p].epoch
BY DEF StartRecord

\* A step of the start alone, between phases that say the same of the record.
LEMMA StartStepOnly ==
    ASSUME TypeInv, NEW p \in Proc,
           start' \in [Proc -> StartRecord], \A q \in Proc : q # p => start'[q] = start[q],
           RecordOK(p)', disk' \in [Proc -> {None, "active"} \cup Terminal],
           \A q \in Proc : q # p => disk'[q] = disk[q] /\ (q \in pending' <=> q \in pending),
           pending' \subseteq Proc,
           UNCHANGED <<platform, proc, child, stop, closing, epochs, closed, disposed, restarts>>
    PROVE  TypeInv' /\ Calm
<1>1. TypeOK'
  BY Types, TypesAfter DEF TypeInv, TypeOK
<1>2. RecordGoesOn(p) /\ ChildGoesOn(p)
  BY DEF RecordGoesOn, ChildGoesOn, TypeInv, RecordInv, RecordOK, Living
<1> QED
  BY <1>1, <1>2, OneProcess

LEMMA AbortStep ==
    ASSUME TypeInv, NEW p \in Proc, Abort(p)
    PROVE  TypeInv' /\ Calm
<1>1. /\ start' \in [Proc -> StartRecord] /\ (\A q \in Proc : q # p => start'[q] = start[q])
      /\ start'[p].at = start[p].at
  BY Types, StartAborts DEF TypeInv, Abort
<1>2. RecordOK(p)
  BY DEF TypeInv, RecordInv
<1>3. CASE start[p].at \in {"checking", "publishing"}
  <2>1. RecordOK(p)'
    BY <1>1, <1>2, <1>3 DEF Abort, RecordOK, IsActive, Living
  <2> QED
    BY <1>1, <1>3, <2>1, StartStepOnly DEF Abort, TypeInv, TypeOK
<1>4. CASE start[p].at \notin {"checking", "publishing"}
  <2>1. proc[p].status # "none" /\ start[p].at \notin Unlaunched
    BY <1>2, <1>4 DEF Abort, RecordOK, Unlaunched
  <2> QED
    BY <1>1, <1>4, <2>1, StopBeginsStep DEF Abort, Caller, Strategy
<1> QED
  BY <1>3, <1>4

LEMMA WatchEndsStep ==
    ASSUME TypeInv, NEW p \in Proc, WatchEnds(p)
    PROVE  TypeInv' /\ Calm
<1>1. PICK at \in {"publishing_ready", "late"} : start' = [start EXCEPT ![p].at = at]
  BY DEF WatchEnds
<1>2. /\ start' \in [Proc -> StartRecord] /\ (\A q \in Proc : q # p => start'[q] = start[q])
      /\ start'[p].at = at
  BY <1>1, Types, StartMoves DEF TypeInv, StartPhase
<1>3. RecordOK(p) /\ proc[p].status # "none" /\ start[p].at = "watching"
  BY DEF TypeInv, RecordInv, RecordOK, WatchEnds
<1>4. CASE UNCHANGED <<proc, child, stop>>
  <2>1. RecordOK(p)'
    BY <1>2, <1>3, <1>4 DEF WatchEnds, RecordOK, Unlaunched
  <2> QED
    BY <1>2, <1>4, <2>1, StartStepOnly DEF WatchEnds, TypeInv, TypeOK
<1>5. CASE StopBegin(p, "startup", "force")
  BY <1>2, <1>3, <1>5, StopBeginsStep DEF WatchEnds, Caller, Strategy, Unlaunched
<1> QED
  BY <1>4, <1>5 DEF WatchEnds

LEMMA ReadyPublishedStep ==
    ASSUME TypeInv, NEW p \in Proc, ReadyPublished(p)
    PROVE  TypeInv' /\ Calm
<1>1. PICK at \in {"done", "late"} : start' = [start EXCEPT ![p].at = at]
  BY DEF ReadyPublished
<1>2. /\ start' \in [Proc -> StartRecord] /\ (\A q \in Proc : q # p => start'[q] = start[q])
      /\ start'[p].at = at
  BY <1>1, Types, StartMoves DEF TypeInv, StartPhase
<1>3. RecordOK(p) /\ proc[p].status # "none" /\ start[p].at = "publishing_ready"
  BY DEF TypeInv, RecordInv, RecordOK, ReadyPublished
<1>4. CASE UNCHANGED <<proc, child, stop>>
  <2>1. OnDisk(proc[p].status) \in {"active"} \cup Terminal
    BY <1>3, Types DEF TypeInv, ProcRecord, OnDisk
  <2>2. /\ disk' \in [Proc -> {None, "active"} \cup Terminal]
        /\ \A q \in Proc : q # p => disk'[q] = disk[q]
    <3>1. disk \in [Proc -> {None, "active"} \cup Terminal]
      BY DEF TypeInv, TypeOK
    <3>2. disk' = [disk EXCEPT ![p] = OnDisk(proc[p].status)] \/ disk' = disk
      BY DEF ReadyPublished
    <3> QED
      BY <2>1, <3>1, <3>2
  <2>3. RecordOK(p)'
    BY <1>2, <1>3, <1>4 DEF ReadyPublished, RecordOK, Unlaunched
  <2> QED
    BY <1>2, <1>4, <2>2, <2>3, StartStepOnly DEF ReadyPublished, TypeInv, TypeOK
<1>5. CASE StopBegin(p, "startup", "force") /\ UNCHANGED disk
  BY <1>2, <1>3, <1>5, StopBeginsStep DEF ReadyPublished, Caller, Strategy, Unlaunched
<1> QED
  BY <1>4, <1>5 DEF ReadyPublished

LEMMA StartedLateStep ==
    ASSUME TypeInv, NEW p \in Proc, StartedLate(p)
    PROVE  TypeInv' /\ Calm
<1>1. /\ start' \in [Proc -> StartRecord] /\ (\A q \in Proc : q # p => start'[q] = start[q])
      /\ start'[p].at = "done"
  BY Types, StartMoves DEF TypeInv, StartPhase, StartedLate
<1>2. RecordOK(p)'
  BY <1>1 DEF StartedLate, TypeInv, RecordInv, RecordOK, Unlaunched
<1> QED
  BY <1>1, <1>2, StartStepOnly DEF StartedLate, TypeInv, TypeOK

\* A step of record and child alone.
LEMMA EventStep ==
    ASSUME TypeInv, NEW p \in Proc,
           proc' \in [Proc -> ProcRecord], \A q \in Proc : q # p => proc'[q] = proc[q],
           child' \in [Proc -> ChildRecord], \A q \in Proc : q # p => child'[q] = child[q],
           RecordGoesOn(p), ChildGoesOn(p),
           UNCHANGED <<platform, start, stop, closing, epochs, closed, pending, disposed, disk,
                       restarts>>
    PROVE  TypeInv' /\ Calm
<1>1. TypeOK'
  BY Types, TypesAfter DEF TypeInv, TypeOK
<1>2. RecordOK(p)'
  BY DEF TypeInv, RecordInv, RecordOK, RecordGoesOn, ChildGoesOn
<1> QED
  BY <1>1, <1>2, OneProcess

LEMMA SpawnEventStep ==
    ASSUME TypeInv, NEW p \in Proc, SpawnEvent(p)
    PROVE  TypeInv' /\ Calm
<1>1. /\ proc' \in [Proc -> ProcRecord] /\ (\A q \in Proc : q # p => proc'[q] = proc[q])
      /\ proc'[p].status = "running" /\ proc'[p].kept = proc[p].kept
  BY Types DEF TypeInv, SpawnEvent, ProcRecord, Active
<1>2. RecordGoesOn(p) /\ ChildGoesOn(p)
  BY <1>1 DEF SpawnEvent, RecordGoesOn, ChildGoesOn, Active, Terminal, IsTerminal, TypeInv,
              RecordInv, RecordOK, Living
<1> QED
  BY <1>1, <1>2, Types, EventStep DEF SpawnEvent, TypeInv

LEMMA ErrorEventStep ==
    ASSUME TypeInv, NEW p \in Proc, ErrorEvent(p)
    PROVE  TypeInv' /\ Calm
<1>1. /\ child' \in [Proc -> ChildRecord] /\ (\A q \in Proc : q # p => child'[q] = child[q])
      /\ child'[p].root = "closed" /\ child'[p].residue = child[p].residue
      /\ child'[p].cleanup = child[p].cleanup
  BY Types DEF TypeInv, ErrorEvent, ChildRecord
<1>2. RecordOK(p) /\ proc[p].status # "none"
  BY DEF TypeInv, RecordInv, RecordOK, ErrorEvent
<1>3. /\ proc' \in [Proc -> ProcRecord] /\ (\A q \in Proc : q # p => proc'[q] = proc[q])
      /\ proc'[p].status = (IF IsTerminal(p) THEN proc[p].status ELSE "failed")
      /\ proc'[p].kept = proc[p].kept
  BY Types, FinalizedType DEF TypeInv, ErrorEvent, Terminal
<1>4. RecordGoesOn(p) /\ ChildGoesOn(p)
  BY <1>1, <1>2, <1>3 DEF ErrorEvent, RecordGoesOn, ChildGoesOn, RecordOK, Living, IsTerminal, Active, Terminal
<1> QED
  BY <1>1, <1>3, <1>4, EventStep DEF ErrorEvent

LEMMA ChildExitsStep ==
    ASSUME TypeInv, NEW p \in Proc, ChildExits(p)
    PROVE  TypeInv' /\ Calm
<1>1. PICK residue \in BOOLEAN :
        child' = [child EXCEPT ![p].root = "exited", ![p].residue = residue]
  BY DEF ChildExits
<1>2. /\ child' \in [Proc -> ChildRecord] /\ (\A q \in Proc : q # p => child'[q] = child[q])
      /\ child'[p].root = "exited" /\ child'[p].cleanup = child[p].cleanup
  BY <1>1, Types DEF TypeInv, ChildRecord
<1>3. RecordGoesOn(p) /\ ChildGoesOn(p)
  BY <1>2 DEF ChildExits, RecordGoesOn, ChildGoesOn, TypeInv, RecordInv, RecordOK, Living
<1> QED
  BY <1>2, <1>3, Types, EventStep DEF ChildExits, TypeInv

LEMMA ResidueExitsStep ==
    ASSUME TypeInv, NEW p \in Proc, ResidueExits(p)
    PROVE  TypeInv' /\ Calm
<1>1. /\ child' \in [Proc -> ChildRecord] /\ (\A q \in Proc : q # p => child'[q] = child[q])
      /\ child'[p].root = child[p].root /\ child'[p].cleanup = child[p].cleanup
      /\ child'[p].residue = FALSE
  BY Types DEF TypeInv, ChildRecord, ResidueExits
<1>2. RecordGoesOn(p) /\ ChildGoesOn(p)
  BY <1>1 DEF ResidueExits, RecordGoesOn, ChildGoesOn, TypeInv, RecordInv, RecordOK, Living
<1> QED
  BY <1>1, <1>2, Types, EventStep DEF ResidueExits, TypeInv

LEMMA CloseEventStep ==
    ASSUME TypeInv, NEW p \in Proc, CloseEvent(p)
    PROVE  TypeInv' /\ Calm
<1>1. PICK outcome \in {"stopped", "exited", "failed"} :
        \/ /\ child' = [child EXCEPT ![p].root = "closed"]
           /\ proc' = Finalized(p, outcome)
        \/ /\ child' = [child EXCEPT ![p].root = "closed", ![p].cleanup = outcome]
           /\ UNCHANGED proc
  BY DEF CloseEvent
<1>2. RecordOK(p) /\ proc[p].status # "none" /\ child[p].root = "exited"
  BY DEF TypeInv, RecordInv, RecordOK, CloseEvent, Known
<1>3. /\ child' \in [Proc -> ChildRecord] /\ (\A q \in Proc : q # p => child'[q] = child[q])
      /\ child'[p].root = "closed" /\ child'[p].residue = child[p].residue
  <2>1. child \in [Proc -> ChildRecord]
    BY Types DEF TypeInv
  <2>2. CASE child' = [child EXCEPT ![p].root = "closed"]
    BY <2>1, <2>2 DEF ChildRecord
  <2>3. CASE child' = [child EXCEPT ![p].root = "closed", ![p].cleanup = outcome]
    BY <2>1, <2>3 DEF ChildRecord
  <2> QED
    BY <1>1, <2>2, <2>3
<1>4. /\ proc' \in [Proc -> ProcRecord] /\ (\A q \in Proc : q # p => proc'[q] = proc[q])
      /\ proc'[p].status \in {proc[p].status, outcome} /\ proc'[p].kept = proc[p].kept
      /\ IsTerminal(p) => proc'[p].status = proc[p].status
  <2>1. CASE UNCHANGED proc
    BY <2>1, Types DEF TypeInv
  <2>2. CASE proc' = Finalized(p, outcome)
    <3>1. outcome \in Terminal
      BY DEF Terminal
    <3> QED
      BY <2>2, <3>1, Types, FinalizedType DEF TypeInv
  <2> QED
    BY <1>1, <2>1, <2>2
<1>5. RecordGoesOn(p) /\ ChildGoesOn(p)
  BY <1>2, <1>3, <1>4 DEF RecordGoesOn, ChildGoesOn, RecordOK, Living, Active
<1> QED
  BY <1>3, <1>4, <1>5, EventStep DEF CloseEvent

LEMMA CleanedUpStep ==
    ASSUME TypeInv, NEW p \in Proc, CleanedUp(p)
    PROVE  TypeInv' /\ Calm
<1>1. PICK residue \in {FALSE, child[p].residue} :
        /\ \E outcome \in {"orphaned", child[p].cleanup} : proc' = Finalized(p, outcome)
        /\ child' = [child EXCEPT ![p].cleanup = None, ![p].residue = residue]
  BY DEF CleanedUp
<1>2. PICK outcome \in {"orphaned", child[p].cleanup} : proc' = Finalized(p, outcome)
  BY <1>1
<1>3. RecordOK(p) /\ child[p].root = "closed" /\ proc[p].status # "none"
  BY DEF TypeInv, RecordInv, RecordOK, CleanedUp
<1>4. outcome \in Terminal
  BY Types DEF TypeInv, ChildRecord, CleanedUp, Terminal
<1>5. /\ child' \in [Proc -> ChildRecord] /\ (\A q \in Proc : q # p => child'[q] = child[q])
      /\ child'[p].root = child[p].root /\ child'[p].residue = residue /\ child'[p].cleanup = None
  BY <1>1, Types DEF TypeInv, ChildRecord
<1>6. /\ proc' \in [Proc -> ProcRecord] /\ (\A q \in Proc : q # p => proc'[q] = proc[q])
      /\ proc'[p].status = (IF IsTerminal(p) THEN proc[p].status ELSE outcome)
      /\ proc'[p].kept = proc[p].kept
  BY <1>2, <1>4, Types, FinalizedType DEF TypeInv
<1>7. RecordGoesOn(p) /\ ChildGoesOn(p)
  BY <1>3, <1>4, <1>5, <1>6 DEF RecordGoesOn, ChildGoesOn, RecordOK, Living, IsTerminal, Active, Terminal
<1> QED
  BY <1>5, <1>6, <1>7, EventStep DEF CleanedUp

LEMMA FlushStep ==
    ASSUME TypeInv, NEW p \in Proc, Flush(p)
    PROVE  TypeInv' /\ Calm
<1>1. RecordOK(p) /\ proc[p].status # "none"
  BY DEF TypeInv, RecordInv, RecordOK, Flush
<1>2. OnDisk(proc[p].status) \in {"active"} \cup Terminal
  BY <1>1, Types DEF TypeInv, ProcRecord, OnDisk
<1>3. /\ disk' \in [Proc -> {None, "active"} \cup Terminal]
      /\ \A q \in Proc : q # p => disk'[q] = disk[q]
  BY <1>2 DEF Flush, TypeInv, TypeOK
<1>4. RecordOK(p)'
  BY <1>1 DEF Flush, RecordOK
<1> QED
  BY <1>3, <1>4, Types, StartStepOnly DEF Flush, TypeInv, TypeOK

LEMMA ReleaseStep ==
    ASSUME TypeInv, NEW p \in Proc, Release(p)
    PROVE  TypeInv' /\ Calm
<1>1. RecordOK(p) /\ proc[p].status # "none"
  BY DEF TypeInv, RecordInv, RecordOK, Release
<1>2. /\ disk' \in [Proc -> {None, "active"} \cup Terminal]
      /\ \A q \in Proc : q # p => disk'[q] = disk[q]
  BY DEF Release, TypeInv, TypeOK
<1>3. /\ proc' \in [Proc -> ProcRecord] /\ (\A q \in Proc : q # p => proc'[q] = proc[q])
      /\ proc'[p].status = proc[p].status /\ proc'[p].kept = FALSE
  BY Types DEF TypeInv, Release, ProcRecord
<1>4. RecordGoesOn(p) /\ ChildGoesOn(p)
  BY <1>1, <1>3 DEF Release, RecordGoesOn, ChildGoesOn, RecordOK, Living
<1>5. RecordOK(p)'
  BY <1>1, <1>3 DEF Release, RecordOK, Unlaunched
<1>6. TypeOK'
  BY <1>2, <1>3, Types, TypesAfter DEF TypeInv, TypeOK, Release
<1> QED
  BY <1>2, <1>3, <1>4, <1>5, <1>6, OneProcess DEF Release

LEMMA StartCallStep ==
    ASSUME TypeInv, NEW p \in Proc, NEW s \in Session, StartCall(p, s)
    PROVE  TypeInv' /\ Calm
<1>1. PICK at \in {"refused", "checking"} :
        start' = [start EXCEPT ![p] = [at |-> at, owner |-> s, epoch |-> epochs[s], aborted |-> FALSE]]
  BY DEF StartCall
<1>2. [at |-> at, owner |-> s, epoch |-> epochs[s], aborted |-> FALSE] \in StartRecord
  BY DEF StartRecord, TypeInv, TypeOK
<1>3. /\ start' \in [Proc -> StartRecord] /\ (\A q \in Proc : q # p => start'[q] = start[q])
      /\ start'[p].at = at
  BY <1>1, <1>2, Types DEF TypeInv
<1>4. RecordOK(p)'
  BY <1>3 DEF StartCall, TypeInv, RecordInv, RecordOK, Unlaunched
<1> QED
  BY <1>3, <1>4, StartStepOnly DEF StartCall, TypeInv, TypeOK

LEMMA SessionCheckedStep ==
    ASSUME TypeInv, NEW p \in Proc, SessionChecked(p)
    PROVE  TypeInv' /\ Calm
<1>1. PICK at \in {"publishing", "refused"} :
        /\ start' = [start EXCEPT ![p].at = at]
        /\ pending' = IF at = "publishing" THEN pending \cup {p} ELSE pending
  BY DEF SessionChecked
<1>2. /\ start' \in [Proc -> StartRecord] /\ (\A q \in Proc : q # p => start'[q] = start[q])
      /\ start'[p].at = at
  BY <1>1, Types, StartMoves DEF TypeInv, StartPhase
<1>3. RecordOK(p)'
  BY <1>1, <1>2 DEF SessionChecked, TypeInv, RecordInv, RecordOK, Unlaunched
<1>4. pending' \subseteq Proc /\ \A q \in Proc : q # p => (q \in pending' <=> q \in pending)
  BY <1>1 DEF TypeInv, TypeOK
<1> QED
  BY <1>2, <1>3, <1>4, StartStepOnly DEF SessionChecked, TypeInv, TypeOK

LEMMA WithdrawnStep ==
    ASSUME TypeInv, NEW p \in Proc, Withdrawn(p)
    PROVE  TypeInv' /\ Calm
<1>1. /\ start' \in [Proc -> StartRecord] /\ (\A q \in Proc : q # p => start'[q] = start[q])
      /\ start'[p].at = "refused"
  BY Types, StartMoves DEF TypeInv, StartPhase, Withdrawn
<1>2. /\ disk' \in [Proc -> {None, "active"} \cup Terminal]
      /\ disk'[p] = None /\ \A q \in Proc : q # p => disk'[q] = disk[q]
  BY DEF Withdrawn, TypeInv, TypeOK
<1>3. RecordOK(p)'
  BY <1>1, <1>2 DEF Withdrawn, TypeInv, RecordInv, RecordOK, Unlaunched
<1> QED
  BY <1>1, <1>2, <1>3, StartStepOnly DEF Withdrawn, TypeInv, TypeOK

\* A process that comes to life has been published, with its fence open; its spawn may have
\* failed at once.
Launched(p) ==
    /\ start[p].at = "publishing" /\ ~Fenced(p)
    /\ disk'[p] = "active" /\ proc'[p].kept /\ ~proc'[p].treeGone
    /\ ~child'[p].residue /\ child'[p].cleanup = None
    /\ \/ proc'[p].status = "failed" /\ child'[p].root = "none"
       \/ proc'[p].status = "starting" /\ child'[p].root \in {"alive", "failing"}

\* A publication launches the process, or takes its record back.
LEMMA PublishedStep ==
    ASSUME TypeInv, NEW p \in Proc, Published(p)
    PROVE  /\ TypeInv'
           /\ (Calm /\ UNCHANGED <<proc, child>>) \/ Launched(p)
           /\ \A q \in Proc : q # p => RecordGoesOn(q) /\ ChildGoesOn(q)
<1>1. /\ start[p].at = "publishing" /\ pending' = pending \ {p}
      /\ UNCHANGED <<platform, stop, closing, epochs, closed, disposed, restarts>>
      /\ \A q \in Proc : q \in pending' <=> q # p /\ q \in pending
  BY DEF Published, Launch, TypeInv, TypeOK
<1>2. RecordOK(p) /\ proc[p].status = "none" /\ child[p].root = "none" /\ ~child[p].residue
      /\ child[p].cleanup = None /\ ~proc[p].kept /\ \A c \in Caller : stop[p][c].at = "idle"
  BY <1>1 DEF TypeInv, RecordInv, RecordOK, Unlaunched
<1>3. /\ disk' \in [Proc -> {None, "active"} \cup Terminal]
      /\ \A q \in Proc : q # p => disk'[q] = disk[q]
  BY DEF Published, TypeInv, TypeOK
<1>4. /\ \A q \in Proc : q # p => proc'[q] = proc[q] /\ child'[q] = child[q] /\ start'[q] = start[q]
      /\ start' \in [Proc -> StartRecord] /\ child' \in [Proc -> ChildRecord]
      /\ proc' \in [Proc -> ProcRecord]
      /\ \/ start'[p].at = "withdrawing" /\ UNCHANGED <<proc, child>>
         \/ start'[p].at \in {"done", "watching"} /\ Launched(p)
  <2>1. PICK persisted \in BOOLEAN :
          /\ disk' = IF persisted THEN [disk EXCEPT ![p] = "active"] ELSE disk
          /\ Launch(p, persisted)
    BY DEF Published
  <2>2. CASE start' = [start EXCEPT ![p].at = "withdrawing"] /\ UNCHANGED <<proc, child>>
    BY <2>2, Types, StartMoves DEF TypeInv, StartPhase
  <2>3. CASE persisted /\ ~Fenced(p) /\ start' = [start EXCEPT ![p].at = "done"] /\ UNCHANGED child
             /\ proc' = [proc EXCEPT ![p] = [[NoRecord EXCEPT !.kept = TRUE, !.status = "starting"]
                                             EXCEPT !.status = "failed"]]
    <3>1. start' \in [Proc -> StartRecord] /\ (\A q \in Proc : q # p => start'[q] = start[q])
          /\ start'[p].at = "done"
      BY <2>3, Types, StartMoves DEF TypeInv, StartPhase
    <3>2. /\ proc' \in [Proc -> ProcRecord] /\ (\A q \in Proc : q # p => proc'[q] = proc[q])
          /\ proc'[p].status = "failed" /\ proc'[p].kept /\ ~proc'[p].treeGone
      BY <2>3, Types DEF TypeInv, NoRecord, ProcRecord, Active, Terminal
    <3>3. disk'[p] = "active"
      BY <2>1, <2>3 DEF TypeInv, TypeOK
    <3> QED
      BY <1>1, <1>2, <2>3, <3>1, <3>2, <3>3, Types DEF Launched, TypeInv
  <2>4. ASSUME NEW root \in {"alive", "failing"}, persisted, ~Fenced(p),
               start' = [start EXCEPT ![p].at = "watching"],
               proc' = [proc EXCEPT ![p] = [NoRecord EXCEPT !.kept = TRUE, !.status = "starting"]],
               child' = [child EXCEPT ![p].root = root]
        PROVE  /\ \A q \in Proc : q # p =>
                      proc'[q] = proc[q] /\ child'[q] = child[q] /\ start'[q] = start[q]
               /\ start' \in [Proc -> StartRecord] /\ child' \in [Proc -> ChildRecord]
               /\ proc' \in [Proc -> ProcRecord]
               /\ start'[p].at = "watching" /\ Launched(p)
    <3>1. start' \in [Proc -> StartRecord] /\ (\A q \in Proc : q # p => start'[q] = start[q])
          /\ start'[p].at = "watching"
      BY <2>4, Types, StartMoves DEF TypeInv, StartPhase
    <3>2. /\ proc' \in [Proc -> ProcRecord] /\ (\A q \in Proc : q # p => proc'[q] = proc[q])
          /\ proc'[p].status = "starting" /\ proc'[p].kept /\ ~proc'[p].treeGone
      BY <2>4, Types DEF TypeInv, NoRecord, ProcRecord, Active, Terminal
    <3>3. /\ child' \in [Proc -> ChildRecord] /\ (\A q \in Proc : q # p => child'[q] = child[q])
          /\ child'[p].root = root /\ child'[p].residue = child[p].residue
          /\ child'[p].cleanup = child[p].cleanup
      BY <2>4, Types DEF TypeInv, ChildRecord
    <3>4. disk'[p] = "active"
      BY <2>1, <2>4 DEF TypeInv, TypeOK
    <3> QED
      BY <1>1, <1>2, <2>4, <3>1, <3>2, <3>3, <3>4 DEF Launched
  <2> QED
    BY <2>1, <2>2, <2>3, <2>4 DEF Launch
<1>5. TypeOK'
  BY <1>1, <1>3, <1>4, Types, TypesAfter DEF TypeInv, TypeOK
<1>6. \A q \in Proc : q # p => RecordOK(q)' /\ RecordGoesOn(q) /\ ChildGoesOn(q)
  BY <1>1, <1>3, <1>4, Untouched
<1>7. RecordOK(p)'
  BY <1>1, <1>2, <1>4 DEF RecordOK, Launched, Unlaunched
<1>8. \/ RecordGoesOn(p) /\ ChildGoesOn(p) /\ UNCHANGED <<proc, child>>
     \/ Launched(p)
  BY <1>2, <1>4 DEF RecordGoesOn, ChildGoesOn, Living
<1>9. \A c \in StopCall : \A q \in closing'[c].owned : proc'[q].status # "none"
  BY <1>1, <1>2, <1>4, Types DEF TypeInv, RecordInv, ClosingRecord
<1> QED
  BY <1>5, <1>6, <1>7, <1>8, <1>9 DEF TypeInv, RecordInv, Calm

\* A step of the calls that end owners.
LEMMA ClosingStepKeeps ==
    ASSUME TypeInv, closing' \in [StopCall -> ClosingRecord],
           \A c \in StopCall : \A p \in closing'[c].owned : proc[p].status # "none",
           epochs' \in [Session -> Nat], closed' \subseteq Session, disposed' \in BOOLEAN,
           UNCHANGED <<platform, start, proc, child, stop, pending, disk, restarts>>
    PROVE  TypeInv' /\ Calm
<1>1. TypeOK'
  BY DEF TypeInv, TypeOK, ClosingRecord
<1>2. \A q \in Proc : RecordOK(q)' /\ RecordGoesOn(q) /\ ChildGoesOn(q)
  BY Untouched
<1> QED
  BY <1>1, <1>2 DEF TypeInv, RecordInv, Calm

LEMMA ClosingsStep ==
    ASSUME TypeInv, NEW c \in StopCall, NEW s \in Session,
           StopSession(c, s) \/ Dispose(c) \/ TakeOwned(c) \/ Stopped(c)
    PROVE  TypeInv' /\ Calm
<1>1. /\ closing \in [StopCall -> ClosingRecord] /\ epochs \in [Session -> Nat]
      /\ closed \subseteq Session /\ disposed \in BOOLEAN
      /\ \A d \in StopCall : \A p \in closing[d].owned : proc[p].status # "none"
  BY Types DEF TypeInv, TypeOK, RecordInv
<1>2. \A p \in ActiveProcs : p \in Proc /\ proc[p].status # "none"
  BY DEF ActiveProcs, IsActive, TypeInv, RecordInv, RecordOK
<1>3. CASE StopSession(c, s)
  <2>1. [at |-> "opening", session |-> s, epoch |-> epochs[s] + 1, owned |-> {}] \in ClosingRecord
    BY <1>1 DEF ClosingRecord
  <2>2. /\ closing' \in [StopCall -> ClosingRecord] /\ closing'[c].owned = {}
        /\ \A d \in StopCall : d # c => closing'[d] = closing[d]
    BY <1>1, <1>3, <2>1 DEF StopSession
  <2>3. epochs' \in [Session -> Nat] /\ closed' \subseteq Session /\ disposed' \in BOOLEAN
    BY <1>1, <1>3 DEF StopSession
  <2>4. \A d \in StopCall : \A p \in closing'[d].owned : proc[p].status # "none"
    BY <1>1, <2>2
  <2> QED
    BY <1>3, <2>2, <2>3, <2>4, ClosingStepKeeps DEF StopSession
<1>4. CASE Dispose(c)
  <2>1. [NoClosing EXCEPT !.at = "opening"] \in ClosingRecord
        /\ [NoClosing EXCEPT !.at = "opening"].owned = {}
    BY DEF ClosingRecord, NoClosing
  <2>2. /\ closing' \in [StopCall -> ClosingRecord] /\ closing'[c].owned = {}
        /\ \A d \in StopCall : d # c => closing'[d] = closing[d]
    BY <1>1, <1>4, <2>1 DEF Dispose
  <2>3. \A d \in StopCall : \A p \in closing'[d].owned : proc[p].status # "none"
    BY <1>1, <2>2
  <2> QED
    BY <1>1, <1>4, <2>2, <2>3, ClosingStepKeeps DEF Dispose
<1>5. CASE TakeOwned(c)
  <2>1. PICK owned \in SUBSET ActiveProcs :
          closing' = [closing EXCEPT ![c].at = "stopping", ![c].owned = owned]
    BY <1>5 DEF TakeOwned
  <2>2. /\ closing' \in [StopCall -> ClosingRecord] /\ closing'[c].owned = owned
        /\ \A d \in StopCall : d # c => closing'[d] = closing[d]
    BY <1>1, <1>2, <2>1 DEF ClosingRecord
  <2>3. \A d \in StopCall : \A p \in closing'[d].owned : proc[p].status # "none"
    BY <1>1, <1>2, <2>2
  <2> QED
    BY <1>1, <1>5, <2>2, <2>3, ClosingStepKeeps DEF TakeOwned
<1>6. CASE Stopped(c)
  <2>1. /\ closing' \in [StopCall -> ClosingRecord]
        /\ \A d \in StopCall : closing'[d].owned = closing[d].owned
    BY <1>1, <1>6 DEF Stopped, ClosingRecord
  <2>2. closed' \subseteq Session
    BY <1>1, <1>6 DEF Stopped
  <2> QED
    BY <1>1, <1>6, <2>1, <2>2, ClosingStepKeeps DEF Stopped
<1> QED
  BY <1>3, <1>4, <1>5, <1>6

\* What a restart makes of a record: what was published, which is nothing that is active.
LEMMA RestartRecord ==
    ASSUME TypeInv, Restart, NEW p \in Proc
    PROVE  /\ proc'[p] \in ProcRecord /\ disk'[p] \in {None} \cup Terminal
           /\ ~IsActive(p)' /\ ~proc'[p].treeGone
           /\ IF disk[p] = None
                THEN disk'[p] = None /\ ~proc'[p].kept /\ proc'[p].status = proc[p].status
                ELSE /\ disk'[p] = IF disk[p] = "active" THEN "orphaned" ELSE disk[p]
                     /\ proc'[p].status = disk'[p] /\ proc'[p].status \in Terminal
<1>1. proc[p] \in ProcRecord /\ disk[p] \in {None, "active"} \cup Terminal
  BY Types DEF TypeInv, TypeOK
<1>2. disk'[p] = IF disk[p] = "active" THEN "orphaned" ELSE disk[p]
  BY DEF Restart
<1>3. CASE disk[p] # None
  <2>1. proc'[p] = [NoRecord EXCEPT !.kept = TRUE, !.status = disk'[p]] /\ disk'[p] \in Terminal
    BY <1>1, <1>2, <1>3 DEF Restart, Terminal
  <2> QED
    BY <1>2, <1>3, <2>1 DEF NoRecord, ProcRecord, IsActive, Active, Terminal
<1>4. CASE disk[p] = None
  <2>1. proc'[p] = IF disk[p] # None THEN [NoRecord EXCEPT !.kept = TRUE, !.status = disk'[p]]
                   ELSE IF proc[p].status = "none" THEN NoRecord
                   ELSE [NoRecord EXCEPT !.status = proc[p].status]
    BY DEF Restart
  <2>2. disk'[p] = None
    BY <1>2, <1>4, ManagedProcessesAssumption
  <2>3. CASE proc[p].status = "none"
    <3>1. proc'[p] = NoRecord
      BY <1>4, <2>1, <2>3
    <3> QED
      BY <1>4, <2>2, <2>3, <3>1 DEF NoRecord, ProcRecord, IsActive
  <2>4. CASE proc[p].status # "none"
    <3>1. proc'[p] = [NoRecord EXCEPT !.status = proc[p].status]
      BY <1>4, <2>1, <2>4
    <3>2. proc[p].status \in {"none"} \cup Active \cup Terminal
      BY <1>1 DEF ProcRecord
    <3> QED
      BY <1>4, <2>2, <3>1, <3>2 DEF NoRecord, ProcRecord, IsActive
  <2> QED
    BY <2>3, <2>4
<1> QED
  BY <1>3, <1>4

\* Of starts, children and stops it leaves what can be told of them afterwards.
LEMMA RestartRest ==
    ASSUME TypeInv, Restart, NEW p \in Proc
    PROVE  /\ start'[p] \in StartRecord /\ start'[p].at \in {"idle", "refused", "done"}
           /\ start'[p].at \in {"idle", "refused"} => start[p].at = start'[p].at
           /\ child'[p] \in ChildRecord /\ child'[p].root = child[p].root
           /\ child'[p].residue = child[p].residue /\ child'[p].cleanup = None
           /\ \A c \in Caller : /\ stop'[p][c] \in StopRecord /\ stop'[p][c].at \in {"idle", "done"}
                                /\ stop'[p][c].at # "idle" => stop[p][c].at # "idle"
<1>1. /\ start[p] \in StartRecord /\ child[p] \in ChildRecord
      /\ \A c \in Caller : stop[p][c] \in StopRecord
  BY Types DEF TypeInv
<1>2. start'[p] = IF start[p].at = "idle" THEN start[p]
                  ELSE [start[p] EXCEPT !.at = IF @ = "refused" THEN @ ELSE "done"]
  BY DEF Restart
<1>3. /\ start'[p] \in StartRecord /\ start'[p].at \in {"idle", "refused", "done"}
      /\ start'[p].at \in {"idle", "refused"} => start[p].at = start'[p].at
  BY <1>1, <1>2 DEF StartRecord
<1>4. child'[p] = [child[p] EXCEPT !.cleanup = None]
  BY DEF Restart
<1>5. /\ child'[p] \in ChildRecord /\ child'[p].root = child[p].root
      /\ child'[p].residue = child[p].residue /\ child'[p].cleanup = None
  BY <1>1, <1>4 DEF ChildRecord
<1>6. ASSUME NEW c \in Caller
      PROVE  /\ stop'[p][c] \in StopRecord /\ stop'[p][c].at \in {"idle", "done"}
             /\ stop'[p][c].at # "idle" => stop[p][c].at # "idle"
  BY DEF Restart, NoStop, Settled, StopRecord, StopPhase, Strategy
<1> QED
  BY <1>3, <1>5, <1>6

LEMMA RestartStep ==
    ASSUME TypeInv, Restart
    PROVE  TypeInv' /\ ActiveProcs' = {} /\ pending' = {}
<1>1. \A p \in Proc : RecordOK(p)'
  <2> SUFFICES ASSUME NEW p \in Proc PROVE RecordOK(p)'
    OBVIOUS
  <2>1. RecordOK(p)
    BY DEF TypeInv, RecordInv
  <2>2. proc[p].status # "none" => proc'[p].status # "none"
    BY RestartRecord DEF Terminal
  <2>3. start'[p].at \in Unlaunched => proc'[p].status = "none" /\ disk'[p] = None
    BY <2>1, RestartRecord, RestartRest DEF RecordOK, Unlaunched
  <2>4. proc'[p].status = "none" => proc[p].status = "none" /\ ~proc'[p].kept
    BY <2>1, <2>2, RestartRecord DEF Terminal, RecordOK
  <2>5. pending' = {}
    BY DEF Restart
  <2> QED
    BY <2>1, <2>2, <2>3, <2>4, <2>5, RestartRest DEF RecordOK, Unlaunched
<1>2. \A c \in StopCall : closing'[c] \in ClosingRecord /\ closing'[c].owned = {}
  BY DEF Restart, NoClosing, ClosingRecord
<1>3. TypeOK'
  <2>1. /\ start' \in [Proc -> StartRecord] /\ child' \in [Proc -> ChildRecord]
        /\ stop' \in [Proc -> [Caller -> StopRecord]]
    <3>1. /\ start' = [p \in Proc |-> start'[p]] /\ child' = [p \in Proc |-> child'[p]]
          /\ stop' = [p \in Proc |-> [c \in Caller |-> stop'[p][c]]]
      BY DEF Restart
    <3> QED
      BY <3>1, RestartRest
  <2>2. proc' \in [Proc -> ProcRecord] /\ disk' \in [Proc -> {None, "active"} \cup Terminal]
    <3>1. proc' = [p \in Proc |-> proc'[p]] /\ disk' = [p \in Proc |-> disk'[p]]
      BY DEF Restart
    <3> QED
      BY <3>1, RestartRecord
  <2>3. closing' \in [StopCall -> ClosingRecord]
    <3>1. closing' = [c \in StopCall |-> closing'[c]]
      BY DEF Restart
    <3> QED
      BY <3>1, <1>2
  <2>4. epochs' \in [Session -> Nat] /\ restarts' \in 0..Restarts /\ platform' \in {"win32", "posix"}
    <3>1. /\ restarts \in 0..Restarts /\ restarts < Restarts /\ restarts' = restarts + 1
          /\ Restarts \in Nat
      BY ManagedProcessesAssumption DEF Restart, TypeInv, TypeOK
    <3>2. platform' = platform /\ platform \in {"win32", "posix"} /\ epochs' = [s \in Session |-> 0]
      BY DEF Restart, TypeInv, TypeOK
    <3> QED
      BY <3>1, <3>2
  <2>5. closed' \subseteq Session /\ pending' \subseteq Proc /\ disposed' \in BOOLEAN
    BY DEF Restart
  <2> QED
    BY <2>1, <2>2, <2>3, <2>4, <2>5
    DEF TypeOK, StartRecord, ProcRecord, ChildRecord, StopRecord, ClosingRecord
<1>4. ActiveProcs' = {} /\ pending' = {}
  BY RestartRecord DEF ActiveProcs, Restart
<1> QED
  BY <1>1, <1>2, <1>3, <1>4 DEF TypeInv, RecordInv

-----------------------------------------------------------------------------
(* The step as a whole; the types and records.                             *)

\* In every step but a restart, a process that does not go on as it was is launched.
GoesOnOrLaunched == \A q \in Proc : (RecordGoesOn(q) /\ ChildGoesOn(q)) \/ Launched(q)

LEMMA ProcessStepKeeps ==
    ASSUME TypeInv, NEW p \in Proc, NEW s \in Session, ProcessStep(p, s)
    PROVE  TypeInv' /\ GoesOnOrLaunched
<1>1. Calm => GoesOnOrLaunched
  BY DEF Calm, GoesOnOrLaunched
<1>2. CASE Published(p)
  BY <1>2, PublishedStep DEF Calm, GoesOnOrLaunched
<1>3. CASE StopStep(p)
  BY <1>1, <1>3, TaskkilledStep, GraceEndsStep, ConfirmEndsStep DEF StopStep
<1> QED
  BY <1>1, <1>2, <1>3, StartCallStep, SessionCheckedStep, WithdrawnStep, AbortStep, WatchEndsStep,
     ReadyPublishedStep, StartedLateStep, StopToolStep, SpawnEventStep, ErrorEventStep,
     ChildExitsStep, ResidueExitsStep, CloseEventStep, CleanedUpStep, FlushStep, ReleaseStep
  DEF ProcessStep, StartStep

LEMMA ClosingStepCalm ==
    ASSUME TypeInv, NEW c \in StopCall, NEW s \in Session, ClosingStep(c, s)
    PROVE  TypeInv' /\ Calm
BY ClosingsStep, StopOwnedStep DEF ClosingStep

LEMMA StutterCalm ==
    ASSUME TypeInv, UNCHANGED pmVars
    PROVE  TypeInv' /\ Calm
<1>1. UNCHANGED <<platform, start, proc, child, stop, pending, disk, restarts>>
      /\ UNCHANGED <<closing, epochs, closed, disposed>>
  BY DEF pmVars
<1> QED
  BY <1>1, Types, ClosingStepKeeps DEF TypeInv, TypeOK, RecordInv

LEMMA NextKeepsRecords ==
    ASSUME TypeInv, [Next]_pmVars
    PROVE  TypeInv' /\ (Restart \/ GoesOnOrLaunched)
<1>1. Calm => GoesOnOrLaunched
  BY DEF Calm, GoesOnOrLaunched
<1> QED
  BY <1>1, ProcessStepKeeps, ClosingStepCalm, StutterCalm, RestartStep DEF Next

\* The variables keep their types, and record, start, stops and child agree on whether a process
\* was launched, whatever its timers, signals and events do.
THEOREM TypeCorrect == Spec => []TypeInv
<1>1. Init => TypeInv
  BY InitRecords
<1>2. TypeInv /\ [Next]_pmVars => TypeInv'
  BY NextKeepsRecords
<1> QED
  BY <1>1, <1>2, PTL DEF Spec

-----------------------------------------------------------------------------
(* An outcome is final.                                                    *)

\* No stop that gives up, no late close and no cleanup replaces an outcome that a record has:
\* only the next runtime, which takes it from the publication, may know less.
THEOREM OutcomesStay == Spec => OutcomeIsFinal
<1>1. TypeInv /\ [Next]_pmVars => OutcomeStays
  <2> SUFFICES ASSUME TypeInv, [Next]_pmVars, NEW p \in Proc, IsTerminal(p), restarts' = restarts
               PROVE  proc'[p].status = proc[p].status
    BY DEF OutcomeStays
  <2>1. ~Restart
    <3>1. restarts \in Nat
      BY ManagedProcessesAssumption DEF TypeInv, TypeOK
    <3>2. restarts + 1 # restarts
      BY <3>1
    <3> QED
      BY <3>2 DEF Restart
  <2>2. ~Launched(p)
    BY DEF Launched, TypeInv, RecordInv, RecordOK, Unlaunched, IsTerminal, Terminal
  <2> QED
    BY <2>1, <2>2, NextKeepsRecords DEF GoesOnOrLaunched, RecordGoesOn
<1> QED
  BY <1>1, TypeCorrect, PTL DEF Spec, OutcomeIsFinal

-----------------------------------------------------------------------------
(* The limits.                                                             *)

\* A process that was ever started keeps its owner and its epoch.
SameOwners == \A q \in Proc : start[q].at # "idle" =>
    start'[q].owner = start[q].owner /\ start'[q].epoch = start[q].epoch

LEMMA OwnersStay ==
    ASSUME TypeInv, NEW p \in Proc, NEW s \in Session, ProcessStep(p, s)
    PROVE  /\ SameOwners
           /\ SessionChecked(p) \/ pending' \subseteq pending
<1>1. start \in [Proc -> StartRecord]
  BY Types DEF TypeInv
<1>2. StartCall(p, s) => SameOwners
  BY <1>1 DEF StartCall, SameOwners
<1>3. (\E at \in StartPhase : start' = [start EXCEPT ![p].at = at]) => SameOwners
  BY <1>1, StartMoves DEF SameOwners
<1>4. start' = [start EXCEPT ![p].aborted = TRUE] => SameOwners
  BY <1>1, StartAborts DEF SameOwners
<1>5. UNCHANGED start => SameOwners
  BY DEF SameOwners
<1>6. \/ StartCall(p, s) \/ UNCHANGED start \/ start' = [start EXCEPT ![p].aborted = TRUE]
      \/ \E at \in StartPhase : start' = [start EXCEPT ![p].at = at]
  <2>1. CASE StartStep(p, s)
    BY <2>1 DEF StartStep, SessionChecked, Published, Launch, Withdrawn, StartPhase
  <2>2. CASE Abort(p)
    BY <2>2 DEF Abort
  <2>3. CASE WatchEnds(p) \/ ReadyPublished(p) \/ StartedLate(p)
    BY <2>3 DEF WatchEnds, ReadyPublished, StartedLate, StartPhase
  <2>4. CASE StopTool(p) \/ StopStep(p)
    BY <2>4 DEF StopTool, StopStep, Taskkilled, GraceEnds, ConfirmEnds
  <2>5. CASE SpawnEvent(p) \/ ErrorEvent(p) \/ ChildExits(p) \/ ResidueExits(p) \/ CloseEvent(p)
    BY <2>5 DEF SpawnEvent, ErrorEvent, ChildExits, ResidueExits, CloseEvent
  <2>6. CASE CleanedUp(p) \/ Flush(p) \/ Release(p)
    BY <2>6 DEF CleanedUp, Flush, Release
  <2> QED
    BY <2>1, <2>2, <2>3, <2>4, <2>5, <2>6 DEF ProcessStep
<1>7. SessionChecked(p) \/ pending' \subseteq pending
  <2>1. CASE StartStep(p, s)
    BY <2>1 DEF StartStep, StartCall, Published, Launch, Withdrawn
  <2>2. CASE Abort(p) \/ WatchEnds(p) \/ ReadyPublished(p) \/ StartedLate(p)
    BY <2>2 DEF Abort, WatchEnds, ReadyPublished, StartedLate
  <2>3. CASE StopTool(p) \/ StopStep(p)
    BY <2>3 DEF StopTool, StopStep, Taskkilled, GraceEnds, ConfirmEnds
  <2>4. CASE SpawnEvent(p) \/ ErrorEvent(p) \/ ChildExits(p) \/ ResidueExits(p) \/ CloseEvent(p)
    BY <2>4 DEF SpawnEvent, ErrorEvent, ChildExits, ResidueExits, CloseEvent
  <2>5. CASE CleanedUp(p) \/ Flush(p) \/ Release(p)
    BY <2>5 DEF CleanedUp, Flush, Release
  <2> QED
    BY <2>1, <2>2, <2>3, <2>4, <2>5 DEF ProcessStep
<1> QED
  BY <1>2, <1>3, <1>4, <1>5, <1>6, <1>7

\* Where no place is reserved, none is taken: what is launched had one.
LEMMA PlacesTaken ==
    ASSUME TypeInv, GoesOnOrLaunched, pending' \subseteq pending
    PROVE  Places' \subseteq Places
<1> SUFFICES ASSUME NEW p \in Proc, IsActive(p)' PROVE p \in Places
  BY DEF Places, ActiveProcs
<1>1. RecordOK(p)
  BY DEF TypeInv, RecordInv
<1>2. CASE RecordGoesOn(p)
  BY <1>1, <1>2 DEF RecordGoesOn, RecordOK, IsActive, Places, ActiveProcs
<1>3. CASE Launched(p)
  BY <1>1, <1>3 DEF Launched, RecordOK, Places
<1> QED
  BY <1>2, <1>3 DEF GoesOnOrLaunched

\* A process with a place has been started.
LEMMA PlacesStarted ==
    ASSUME TypeInv, NEW p \in Places
    PROVE  p \in Proc /\ start[p].at # "idle"
BY DEF TypeInv, TypeOK, RecordInv, RecordOK, Places, ActiveProcs, IsActive, Unlaunched, Active

LEMMA FewerPlaces ==
    ASSUME TypeInv, PlaceInv, SameOwners, Places' \subseteq Places, IsFiniteSet(Places)
    PROVE  PlaceInv'
<1>1. IsFiniteSet(Places') /\ Cardinality(Places') <= Cardinality(Places)
  BY FS_Subset
<1>2. Cardinality(Places) \in Nat /\ Cardinality(Places') \in Nat
  BY <1>1, FS_CardinalityType
<1>3. Cardinality(Places) <= MaxActive
      /\ \A s \in Session : Cardinality(Places \cap Of(s)) <= MaxPerSession
  BY DEF PlaceInv, WithinLimits, Places
<1>4. ASSUME NEW s \in Session
      PROVE  Cardinality(Places' \cap Of(s)') <= MaxPerSession
  <2>1. Places' \cap Of(s)' \subseteq Places \cap Of(s)
    BY PlacesStarted DEF SameOwners, Of
  <2>2. IsFiniteSet(Places \cap Of(s))
    BY FS_Subset
  <2>3. /\ IsFiniteSet(Places' \cap Of(s)')
        /\ Cardinality(Places' \cap Of(s)') <= Cardinality(Places \cap Of(s))
    BY <2>1, <2>2, FS_Subset
  <2>4. Cardinality(Places' \cap Of(s)') \in Nat /\ Cardinality(Places \cap Of(s)) \in Nat
    BY <2>2, <2>3, FS_CardinalityType
  <2> QED
    BY <1>3, <2>3, <2>4, ManagedProcessesAssumption
<1> QED
  BY <1>1, <1>2, <1>3, <1>4, ManagedProcessesAssumption DEF PlaceInv, WithinLimits, Places

\* A start that reserves a place found room for it, of the runtime's and of its owner's.
LEMMA PlaceReserved ==
    ASSUME TypeInv, PlaceInv, NEW p \in Proc, SessionChecked(p), p \in pending', SameOwners
    PROVE  PlaceInv'
<1>1. /\ start[p].at = "checking" /\ p \notin Places
      /\ UNCHANGED <<proc, epochs, closed, disposed>>
  BY DEF SessionChecked, TypeInv, RecordInv, RecordOK, Places, ActiveProcs, IsActive, Unlaunched,
         Active
<1>2. pending' = pending \cup {p} /\ Room(start[p].owner)
      /\ start' = [start EXCEPT ![p].at = "publishing"]
  BY <1>1 DEF SessionChecked, Places
<1>3. \A q \in Proc : start'[q].owner = start[q].owner
  BY <1>2, Types, StartMoves DEF TypeInv, StartPhase
<1>4. Places' = Places \cup {p}
  BY <1>1, <1>2 DEF Places, ActiveProcs, IsActive
<1>5. \A s \in Session : Of(s)' = Of(s)
  BY <1>3 DEF Of
<1>6. IsFiniteSet(ActiveProcs) /\ IsFiniteSet(pending)
  BY FS_Subset DEF PlaceInv, Places
<1>7. ASSUME NEW S, NEW limit \in Nat, IsFiniteSet(ActiveProcs \cap S), IsFiniteSet(pending \cap S),
             Cardinality(ActiveProcs \cap S) + Cardinality(pending \cap S) < limit
      PROVE  Cardinality((Places \cap S) \cup {p}) <= limit /\ IsFiniteSet((Places \cap S) \cup {p})
  <2>1. Places \cap S = (ActiveProcs \cap S) \cup (pending \cap S)
    BY DEF Places
  <2>2. IsFiniteSet((ActiveProcs \cap S) \cap (pending \cap S))
    BY <1>7, FS_Subset
  <2>3. /\ IsFiniteSet(Places \cap S)
        /\ Cardinality(Places \cap S) = Cardinality(ActiveProcs \cap S) + Cardinality(pending \cap S)
                                        - Cardinality((ActiveProcs \cap S) \cap (pending \cap S))
    BY <1>7, <2>1, FS_Union
  <2>4. Cardinality(Places \cap S) < limit
    BY <1>7, <2>2, <2>3, FS_CardinalityType
  <2>5. /\ Cardinality((Places \cap S) \cup {p}) = Cardinality(Places \cap S) + 1
        /\ IsFiniteSet((Places \cap S) \cup {p})
    BY <1>1, <2>3, FS_AddElement
  <2> QED
    BY <2>3, <2>4, <2>5, FS_CardinalityType
<1>8. IsFiniteSet(Places') /\ Cardinality(Places') <= MaxActive
  <2>1. ActiveProcs \cap Proc = ActiveProcs /\ pending \cap Proc = pending /\ Places \cap Proc = Places
    BY DEF ActiveProcs, Places, TypeInv, TypeOK
  <2> QED
    BY <1>2, <1>4, <1>6, <1>7, <2>1, ManagedProcessesAssumption DEF Room
<1>9. ASSUME NEW s \in Session PROVE Cardinality(Places' \cap Of(s)') <= MaxPerSession
  <2>1. CASE start[p].owner = s
    <3>1. Places' \cap Of(s)' = (Places \cap Of(s)) \cup {p}
      BY <1>4, <1>5, <2>1 DEF Of
    <3>2. IsFiniteSet(ActiveProcs \cap Of(s)) /\ IsFiniteSet(pending \cap Of(s))
      BY <1>6, FS_Subset
    <3> QED
      BY <1>2, <1>7, <2>1, <3>1, <3>2, ManagedProcessesAssumption DEF Room
  <2>2. CASE start[p].owner # s
    <3>1. Places' \cap Of(s)' = Places \cap Of(s)
      BY <1>4, <1>5, <2>2 DEF Of
    <3> QED
      BY <3>1 DEF PlaceInv, WithinLimits, Places
  <2> QED
    BY <2>1, <2>2
<1> QED
  BY <1>8, <1>9 DEF PlaceInv, WithinLimits, Places

\* A restart frees every place.
LEMMA NoPlaces ==
    ASSUME Places' = {}
    PROVE  PlaceInv'
<1>1. IsFiniteSet(Places') /\ Cardinality(Places') = 0
  BY FS_EmptySet
<1>2. \A s \in Session : Places' \cap Of(s)' = {}
  OBVIOUS
<1> QED
  BY <1>1, <1>2, FS_EmptySet, ManagedProcessesAssumption DEF PlaceInv, WithinLimits, Places

LEMMA NextKeepsPlaces ==
    ASSUME TypeInv, PlaceInv, [Next]_pmVars
    PROVE  PlaceInv'
<1>1. ASSUME GoesOnOrLaunched, SameOwners, pending' \subseteq pending
      PROVE  PlaceInv'
  BY <1>1, PlacesTaken, FewerPlaces DEF PlaceInv
<1>2. ASSUME NEW p \in Proc, NEW s \in Session, ProcessStep(p, s)
      PROVE  PlaceInv'
  <2>1. GoesOnOrLaunched /\ SameOwners
    BY <1>2, ProcessStepKeeps, OwnersStay
  <2>2. CASE SessionChecked(p) /\ p \in pending'
    BY <2>1, <2>2, PlaceReserved
  <2>3. CASE SessionChecked(p) /\ p \notin pending'
    <3>1. pending' \subseteq pending
      BY <2>3 DEF SessionChecked
    <3> QED
      BY <1>1, <2>1, <3>1
  <2>4. CASE ~SessionChecked(p)
    BY <1>1, <1>2, <2>1, <2>4, OwnersStay
  <2> QED
    BY <2>2, <2>3, <2>4
<1>3. ASSUME NEW c \in StopCall, NEW s \in Session, ClosingStep(c, s)
      PROVE  PlaceInv'
  <2>1. UNCHANGED <<start, pending>>
    BY <1>3 DEF ClosingStep, StopSession, Dispose, TakeOwned, Stopped, StopOwned
  <2> QED
    BY <1>1, <1>3, <2>1, ClosingStepCalm DEF Calm, GoesOnOrLaunched, SameOwners
<1>4. CASE UNCHANGED pmVars
  BY <1>1, <1>4, StutterCalm DEF Calm, GoesOnOrLaunched, SameOwners, pmVars
<1>5. CASE Restart
  BY <1>5, RestartStep, NoPlaces DEF Places
<1> QED
  BY <1>2, <1>3, <1>4, <1>5 DEF Next

\* However many starts of however many sessions wait for a publication at the same time, neither
\* the runtime's limit nor a session's is exceeded.
THEOREM LimitsHold == Spec => []WithinLimits
<1>1. Init => PlaceInv
  <2> SUFFICES ASSUME Init PROVE PlaceInv
    OBVIOUS
  <2>1. Places = {}
    BY DEF Init, Places, ActiveProcs, IsActive, NoRecord
  <2>2. \A s \in Session : Places \cap Of(s) = {}
    BY <2>1
  <2> QED
    BY <2>1, <2>2, FS_EmptySet, ManagedProcessesAssumption DEF PlaceInv, WithinLimits, Places
<1>2. TypeInv /\ PlaceInv /\ [Next]_pmVars => PlaceInv'
  BY NextKeepsPlaces
<1>3. PlaceInv => WithinLimits
  BY DEF PlaceInv
<1> QED
  BY <1>1, <1>2, <1>3, TypeCorrect, PTL DEF Spec

-----------------------------------------------------------------------------
(* Stopped for good.                                                       *)

\* A stop of a stopSession or of dispose goes on until the record has an outcome: it is one
\* that ends with force, and force ends every record.
StopGoesOn(p, c) ==
    \/ stop'[p][c] = stop[p][c]
    \/ stop'[p][c].at = "done" /\ IsTerminal(p)'
    \/ stop'[p][c].at # "done" /\ stop'[p][c].strategy = "graceful_then_force"

\* A step that begins another caller's stop.
LEMMA OtherStopBegins ==
    ASSUME TypeInv, NEW p \in Proc, NEW d \in {"tool", "abort", "startup"},
           NEW strategy \in Strategy, StopBegin(p, d, strategy), proc[p].status # "none",
           NEW q \in Proc, NEW c \in StopCall
    PROVE  stop'[q][c] = stop[q][c]
<1>1. d # c /\ d \in Caller /\ c \in Caller
  BY ManagedProcessesAssumption DEF Caller
<1> QED
  BY <1>1, StopBegins

LEMMA ConfirmedEnds ==
    ASSUME TypeInv, NEW p \in Proc, NEW d \in Caller, ConfirmEnds(p, d),
           NEW q \in Proc, NEW c \in StopCall
    PROVE  StopGoesOn(q, c)
<1>1. c \in Caller
  BY DEF Caller
<1>2. /\ \A r \in Proc : r # p => stop'[r] = stop[r]
      /\ \A e \in Caller : e # d => stop'[p][e] = stop[p][e]
      /\ stop'[p][d].at = "done"
  BY Types, StopSettles, ZenonT(30) DEF TypeInv, ConfirmEnds
<1>3. proc'[p].status = IF IsTerminal(p) THEN proc[p].status ELSE "orphaned"
  BY Types, FinalizedType DEF TypeInv, ConfirmEnds, Terminal
<1> QED
  BY <1>1, <1>2, <1>3 DEF StopGoesOn, IsTerminal, Terminal

LEMMA GraceGoesOn ==
    ASSUME TypeInv, NEW p \in Proc, NEW d \in Caller, GraceEnds(p, d),
           NEW q \in Proc, NEW c \in StopCall, Awaits(c, q)
    PROVE  StopGoesOn(q, c)
<1>1. c \in Caller /\ stop \in [Proc -> [Caller -> StopRecord]]
  BY Types DEF Caller, TypeInv
<1>2. CASE q = p /\ c = d
  <2>1. stop[p][c].at = "grace" /\ stop[p][c].strategy = "graceful_then_force"
    BY <1>2 DEF Awaits, GraceEnds
  <2>2. CASE IsTerminal(p)
    <3>1. stop' = [stop EXCEPT ![p][c] = Settled] /\ UNCHANGED proc
      BY <1>2, <2>2 DEF GraceEnds
    <3> QED
      BY <1>1, <1>2, <2>2, <3>1, StopSettles DEF StopGoesOn, IsTerminal
  <2>3. CASE ~IsTerminal(p)
    <3>1. PICK at \in {"taskkill_force", "confirm"} : stop' = [stop EXCEPT ![p][c].at = at]
      BY <1>2, <2>1, <2>3 DEF GraceEnds
    <3>2. stop'[p][c].at = at /\ stop'[p][c].strategy = stop[p][c].strategy
      BY <1>1, <3>1, StopMoves DEF StopPhase
    <3> QED
      BY <1>2, <2>1, <3>2 DEF StopGoesOn
  <2> QED
    BY <2>2, <2>3
<1>3. CASE ~(q = p /\ c = d)
  <2>1. \/ stop' = [stop EXCEPT ![p][d] = Settled]
        \/ \E at \in StopPhase : stop' = [stop EXCEPT ![p][d].at = at]
    BY DEF GraceEnds, StopPhase
  <2> QED
    BY <1>1, <1>3, <2>1, StopSettles, StopMoves DEF StopGoesOn
<1> QED
  BY <1>2, <1>3

LEMMA TaskkillGoesOn ==
    ASSUME TypeInv, NEW p \in Proc, NEW d \in Caller, Taskkilled(p, d),
           NEW q \in Proc, NEW c \in StopCall, Awaits(c, q)
    PROVE  StopGoesOn(q, c)
<1>1. c \in Caller /\ stop \in [Proc -> [Caller -> StopRecord]]
  BY Types DEF Caller, TypeInv
<1>2. PICK at \in {"grace", "confirm"} : stop' = [stop EXCEPT ![p][d].at = at]
  BY DEF Taskkilled
<1>3. /\ \A r \in Proc : r # p => stop'[r] = stop[r]
      /\ \A e \in Caller : e # d => stop'[p][e] = stop[p][e]
      /\ stop'[p][d].at = at /\ stop'[p][d].strategy = stop[p][d].strategy
  BY <1>1, <1>2, StopMoves DEF StopPhase
<1>4. stop[p][d].at \in {"taskkill", "taskkill_force"}
  BY DEF Taskkilled
<1> QED
  BY <1>1, <1>3, <1>4 DEF StopGoesOn, Awaits

LEMMA StopsGoOn ==
    ASSUME TypeInv, NEW p \in Proc, NEW s \in Session, ProcessStep(p, s),
           NEW q \in Proc, NEW c \in StopCall, Awaits(c, q)
    PROVE  StopGoesOn(q, c)
<1>1. CASE UNCHANGED stop
  BY <1>1 DEF StopGoesOn
<1>2. CASE \E d \in {"tool", "abort", "startup"}, strategy \in Strategy :
             StopBegin(p, d, strategy) /\ proc[p].status # "none"
  BY <1>2, OtherStopBegins DEF StopGoesOn
<1>3. CASE StopStep(p)
  BY <1>3, ConfirmedEnds, GraceGoesOn, TaskkillGoesOn DEF StopStep
<1>4. CASE StartStep(p, s)
  BY <1>1, <1>4 DEF StartStep, StartCall, SessionChecked, Published, Launch, Withdrawn
<1>5. CASE Abort(p)
  BY <1>1, <1>2, <1>5 DEF Abort, TypeInv, RecordInv, RecordOK, Strategy
<1>6. CASE WatchEnds(p)
  BY <1>1, <1>2, <1>6 DEF WatchEnds, TypeInv, RecordInv, RecordOK, Strategy
<1>7. CASE ReadyPublished(p)
  BY <1>1, <1>2, <1>7 DEF ReadyPublished, TypeInv, RecordInv, RecordOK, Strategy
<1>8. CASE StopTool(p)
  BY <1>2, <1>8 DEF StopTool, TypeInv, RecordInv, RecordOK
<1>9. CASE StartedLate(p) \/ SpawnEvent(p) \/ ErrorEvent(p) \/ ChildExits(p) \/ ResidueExits(p)
  BY <1>1, <1>9 DEF StartedLate, SpawnEvent, ErrorEvent, ChildExits, ResidueExits
<1>10. CASE CloseEvent(p) \/ CleanedUp(p) \/ Flush(p) \/ Release(p)
  BY <1>1, <1>10 DEF CloseEvent, CleanedUp, Flush, Release
<1> QED
  BY <1>3, <1>4, <1>5, <1>6, <1>7, <1>8, <1>9, <1>10 DEF ProcessStep

\* A process that is active after a step of a process was active before it; or it was launched,
\* and is none that a call which has taken its processes, or is over, is about.
LEMMA ActiveMeant ==
    ASSUME TypeInv, StopInv, NEW p \in Proc, NEW s \in Session, ProcessStep(p, s),
           NEW q \in Proc, NEW c \in StopCall, IsActive(q)',
           closing[c].at \in {"stopping", "done"}, Meant(c, q)'
    PROVE  IsActive(q) /\ Meant(c, q)
<1>1. SameOwners /\ GoesOnOrLaunched
  BY ProcessStepKeeps, OwnersStay
<1>2. RecordOK(q) /\ Fences(c) /\ UNCHANGED closing
  BY DEF TypeInv, RecordInv, StopInv, ProcessStep, StartStep, StartCall, SessionChecked, Published,
         Withdrawn, Abort, WatchEnds, ReadyPublished, StartedLate, StopTool, StopStep, Taskkilled,
         GraceEnds, ConfirmEnds, SpawnEvent, ErrorEvent, ChildExits, ResidueExits, CloseEvent,
         CleanedUp, Flush, Release
<1>3. CASE RecordGoesOn(q)
  <2>1. IsActive(q)
    BY <1>2, <1>3 DEF RecordGoesOn, IsActive, RecordOK
  <2>2. start[q].at # "idle"
    BY <1>2, <2>1 DEF RecordOK, Unlaunched, IsActive, Active
  <2> QED
    BY <1>1, <1>2, <2>1, <2>2 DEF SameOwners, Meant
<1>4. CASE Launched(q)
  <2>1. start[q].at = "publishing" /\ ~disposed /\ epochs[start[q].owner] = start[q].epoch
    BY <1>4 DEF Launched, Fenced
  <2>2. Meant(c, q)
    BY <1>1, <1>2, <2>1 DEF SameOwners, Meant
  <2>3. closing[c].session # None
    BY <1>2, <2>1 DEF Fences
  <2>4. /\ start[q].owner = closing[c].session /\ start[q].epoch < closing[c].epoch
        /\ epochs[closing[c].session] >= closing[c].epoch
    BY <1>2, <2>2, <2>3 DEF Fences, Meant
  <2>5. start[q].epoch \in Nat /\ closing[c].epoch \in Nat
    BY Types DEF TypeInv, StartRecord, ClosingRecord
  <2> QED
    BY <2>1, <2>4, <2>5
<1> QED
  BY <1>1, <1>3, <1>4 DEF GoesOnOrLaunched

\* A stop that has settled has left no active process, and no step makes it active again.
LEMMA SettledStays ==
    ASSUME TypeInv, GoesOnOrLaunched, NEW q \in Proc, NEW c \in StopCall, Awaits(c, q),
           StopGoesOn(q, c)
    PROVE  /\ stop'[q][c].at # "idle" =>
                  stop'[q][c].strategy = "graceful_then_force" \/ stop'[q][c].at = "done"
           /\ stop'[q][c].at = "done" => ~IsActive(q)'
<1>1. stop'[q][c].at # "idle" =>
          stop'[q][c].strategy = "graceful_then_force" \/ stop'[q][c].at = "done"
  BY DEF StopGoesOn, Awaits
<1>2. ASSUME stop'[q][c].at = "done" PROVE ~IsActive(q)'
  <2>1. CASE IsTerminal(q)'
    BY <2>1 DEF IsTerminal, IsActive, Active, Terminal
  <2>2. CASE stop[q][c].at = "done"
    <3>1. RecordOK(q) /\ c \in Caller /\ ~IsActive(q)
      BY <2>2 DEF TypeInv, RecordInv, Caller, Awaits
    <3>2. proc[q].status # "none" /\ start[q].at # "publishing"
      BY <2>2, <3>1 DEF RecordOK, Unlaunched
    <3> QED
      BY <3>1, <3>2 DEF GoesOnOrLaunched, Launched, RecordGoesOn, IsActive
  <2> QED
    BY <1>2, <2>1, <2>2 DEF StopGoesOn
<1> QED
  BY <1>1, <1>2

LEMMA ProcessStepAwaits ==
    ASSUME TypeInv, StopInv, NEW p \in Proc, NEW s \in Session, ProcessStep(p, s)
    PROVE  StopInv'
<1>1. UNCHANGED <<closing, epochs, disposed>>
  BY DEF ProcessStep, StartStep, StartCall, SessionChecked, Published, Withdrawn, Abort, WatchEnds,
         ReadyPublished, StartedLate, StopTool, StopStep, Taskkilled, GraceEnds, ConfirmEnds,
         SpawnEvent, ErrorEvent, ChildExits, ResidueExits, CloseEvent, CleanedUp, Flush, Release
<1>2. ASSUME NEW c \in StopCall, NEW q \in Proc
      PROVE  Awaits(c, q)'
  <2>1. Awaits(c, q) /\ StopGoesOn(q, c) /\ GoesOnOrLaunched
    BY StopsGoOn, ProcessStepKeeps DEF StopInv
  <2>2. closing[c].at \in {"stopping", "done"} /\ IsActive(q)' /\ Meant(c, q)'
        => IsActive(q) /\ Meant(c, q)
    BY ActiveMeant
  <2> QED
    BY <1>1, <2>1, <2>2, SettledStays DEF Awaits
<1>3. \A c \in StopCall : Fences(c)'
  BY <1>1 DEF StopInv, Fences
<1> QED
  BY <1>2, <1>3 DEF StopInv

LEMMA StopOwnedAwaits ==
    ASSUME TypeInv, StopInv, NEW d \in StopCall, NEW p \in Proc, StopOwned(d, p)
    PROVE  StopInv'
<1>1. StopBegin(p, d, "graceful_then_force") /\ UNCHANGED <<closing, epochs, disposed, start>>
      /\ proc[p].status # "none" /\ d \in Caller /\ "graceful_then_force" \in Strategy
  BY DEF StopOwned, TypeInv, RecordInv, Caller, Strategy
<1>2. Calm /\ GoesOnOrLaunched
  BY StopOwnedStep DEF Calm, GoesOnOrLaunched
<1>3. ASSUME NEW c \in StopCall, NEW q \in Proc
      PROVE  Awaits(c, q)'
  <2>1. Awaits(c, q) /\ c \in Caller /\ RecordOK(q)
    BY DEF StopInv, Caller, TypeInv, RecordInv
  <2>2. StopGoesOn(q, c)
    BY <1>1, <2>1, StopBegins DEF StopGoesOn, RecordGoesOn, IsTerminal
  <2>3. IsActive(q)' => IsActive(q)
    BY <1>2, <2>1 DEF Calm, RecordGoesOn, IsActive, RecordOK
  <2> QED
    BY <1>1, <1>2, <2>1, <2>2, <2>3, SettledStays DEF Awaits, Meant
<1>4. \A c \in StopCall : Fences(c)'
  BY <1>1 DEF StopInv, Fences
<1> QED
  BY <1>3, <1>4 DEF StopInv

\* A call begins by fencing its processes off, and the fence lasts.
LEMMA ClosingAwaits ==
    ASSUME TypeInv, StopInv, NEW d \in StopCall, NEW s \in Session,
           StopSession(d, s) \/ Dispose(d) \/ TakeOwned(d) \/ Stopped(d)
    PROVE  StopInv'
<1>1. /\ closing \in [StopCall -> ClosingRecord] /\ epochs \in [Session -> Nat]
      /\ UNCHANGED <<start, proc, stop>> /\ None \notin Session
  BY Types, ManagedProcessesAssumption
  DEF TypeInv, TypeOK, StopSession, Dispose, TakeOwned, Stopped
<1>2. \A c \in StopCall : Fences(c) /\ \A q \in Proc : Awaits(c, q)
  BY DEF StopInv
<1>3. \A c \in StopCall : c # d => closing'[c] = closing[c]
  BY <1>1 DEF StopSession, Dispose, TakeOwned, Stopped
<1>4. /\ disposed => disposed'
      /\ \A t \in Session : epochs'[t] >= epochs[t] /\ epochs'[t] \in Nat
  BY <1>1 DEF StopSession, Dispose, TakeOwned, Stopped
<1>5. ASSUME NEW c \in StopCall, c # d
      PROVE  Fences(c)' /\ \A q \in Proc : Awaits(c, q)'
  <2>1. closing[c].session \in Session \cup {None} /\ closing[c].epoch \in Nat
    BY <1>1 DEF ClosingRecord
  <2>2. Fences(c)'
    BY <1>1, <1>2, <1>3, <1>4, <1>5, <2>1 DEF Fences
  <2> QED
    BY <1>1, <1>2, <1>3, <1>5, <2>2 DEF Awaits, Meant, IsActive
<1>6. CASE StopSession(d, s)
  <2>1. closing'[d] = [at |-> "opening", session |-> s, epoch |-> epochs[s] + 1, owned |-> {}]
        /\ epochs'[s] = epochs[s] + 1
    BY <1>1, <1>6 DEF StopSession
  <2>2. Fences(d)'
    BY <1>1, <2>1 DEF Fences
  <2>3. \A q \in Proc : Awaits(d, q)'
    BY <1>1, <1>2, <2>1 DEF Awaits, IsActive
  <2> QED
    BY <1>5, <2>2, <2>3 DEF StopInv
<1>7. CASE Dispose(d)
  <2>1. closing'[d] = [NoClosing EXCEPT !.at = "opening"] /\ disposed'
    BY <1>1, <1>7 DEF Dispose
  <2>2. Fences(d)'
    BY <2>1 DEF Fences, NoClosing
  <2>3. \A q \in Proc : Awaits(d, q)'
    BY <1>1, <1>2, <2>1 DEF Awaits, IsActive, NoClosing
  <2> QED
    BY <1>5, <2>2, <2>3 DEF StopInv
<1>8. CASE TakeOwned(d)
  <2>1. /\ closing'[d].at = "stopping" /\ closing[d].at = "opening"
        /\ closing'[d].session = closing[d].session /\ closing'[d].epoch = closing[d].epoch
        /\ closing'[d].owned = IF closing[d].session = None THEN ActiveProcs
                               ELSE ActiveProcs \cap Of(closing[d].session)
    BY <1>1, <1>8 DEF TakeOwned, ClosingRecord
  <2>2. Fences(d)'
    BY <1>2, <1>8, <2>1 DEF Fences, TakeOwned
  <2>3. \A q \in Proc : Awaits(d, q)'
    BY <1>1, <1>2, <2>1 DEF Awaits, Meant, IsActive, ActiveProcs, Of
  <2> QED
    BY <1>5, <2>2, <2>3 DEF StopInv
<1>9. CASE Stopped(d)
  <2>1. /\ closing'[d].at = "done" /\ closing[d].at = "stopping"
        /\ closing'[d].session = closing[d].session /\ closing'[d].epoch = closing[d].epoch
        /\ \A q \in closing[d].owned : stop[q][d].at = "done"
    BY <1>1, <1>9 DEF Stopped, ClosingRecord
  <2>2. Fences(d)'
    BY <1>2, <1>9, <2>1 DEF Fences, Stopped
  <2>3. \A q \in Proc : Awaits(d, q)'
    BY <1>1, <1>2, <2>1 DEF Awaits, Meant, IsActive
  <2> QED
    BY <1>5, <2>2, <2>3 DEF StopInv
<1> QED
  BY <1>6, <1>7, <1>8, <1>9

LEMMA NextAwaits ==
    ASSUME TypeInv, StopInv, [Next]_pmVars
    PROVE  StopInv'
<1>1. CASE UNCHANGED pmVars
  BY <1>1 DEF pmVars, StopInv, Fences, Awaits, Meant, IsActive
<1>2. CASE Restart
  <2>1. \A c \in StopCall : closing'[c].at \in {"idle", "lost"}
    BY <1>2 DEF Restart, NoClosing
  <2>2. \A c \in StopCall, q \in Proc : stop'[q][c].at \in {"idle", "done"} /\ ~IsActive(q)'
    BY <1>2, RestartRecord, RestartRest DEF Caller
  <2> QED
    BY <2>1, <2>2 DEF StopInv, Fences, Awaits
<1> QED
  BY <1>1, <1>2, ProcessStepAwaits, StopOwnedAwaits, ClosingAwaits DEF Next, ClosingStep

\* A stopSession or dispose that has returned has left no active process among those started
\* before it, and none of their starts comes to one: not one that waited for its session or its
\* publication meanwhile, nor one whose record another stop was busy with.
THEOREM StoppedStays == Spec => []StoppedForGood
<1>1. Init => StopInv
  BY DEF Init, StopInv, Fences, Awaits, Meant, NoClosing, NoStop, IsActive, NoRecord, Caller
<1>2. TypeInv /\ StopInv /\ [Next]_pmVars => StopInv'
  BY NextAwaits
<1>3. StopInv => StoppedForGood
  BY DEF StopInv, Awaits, Meant, StoppedForGood
<1> QED
  BY <1>1, <1>2, <1>3, TypeCorrect, PTL DEF Spec

-----------------------------------------------------------------------------
(* A living process is known.                                              *)

\* A record that goes on and is published as it is, or was, or not at all.
LEMMA TreeGoesOn ==
    ASSUME NEW p \in Proc, Tree(p), RecordGoesOn(p), ChildGoesOn(p), UNCHANGED platform,
           platform = "posix" => ~proc'[p].treeGone,
           platform = "posix" => \A c \in Caller : stop'[p][c].at \notin {"taskkill", "taskkill_force"},
           platform = "posix" /\ proc'[p].status \in Gone => proc[p].status \in Gone \/ ~Living(p)',
           \/ disk'[p] = disk[p]
           \/ disk'[p] = OnDisk(proc[p].status) /\ proc[p].status \in Active \cup Terminal
           \/ disk'[p] = None /\ (~Living(p) \/ IsTerminal(p))
    PROVE  Tree(p)'
<1>1. Living(p)' => Living(p)
  BY DEF ChildGoesOn
<1>2. IsTerminal(p) => IsTerminal(p)'
  BY DEF RecordGoesOn, IsTerminal
<1>3. Remembered(p)'
  <2>1. CASE disk'[p] = disk[p]
    BY <1>1, <1>2, <2>1 DEF Tree, Remembered
  <2>2. CASE disk'[p] = OnDisk(proc[p].status) /\ proc[p].status \in Active \cup Terminal
    BY <1>1, <1>2, <2>2, ManagedProcessesAssumption DEF OnDisk, Remembered, IsTerminal, Tree
  <2>3. CASE disk'[p] = None /\ (~Living(p) \/ IsTerminal(p))
    BY <1>1, <1>2, <2>3 DEF Remembered
  <2> QED
    BY <2>1, <2>2, <2>3
<1>4. TreeOK(p)'
  <2> SUFFICES ASSUME platform = "posix", Living(p)'
               PROVE  proc'[p].status \notin Gone /\ disk'[p] \notin Gone
    BY DEF TreeOK
  <2>1. proc[p].status \notin Gone /\ disk[p] \notin Gone
    BY <1>1 DEF Tree, TreeOK
  <2>2. OnDisk(proc[p].status) \notin Gone
    BY <2>1 DEF OnDisk, Gone
  <2>3. disk'[p] \notin Gone
    <3>1. CASE disk'[p] = None /\ (~Living(p) \/ IsTerminal(p))
      <4>1. Remembered(p) /\ disk'[p] = None
        BY <3>1 DEF Tree
      <4> QED
        BY <4>1, ManagedProcessesAssumption DEF Gone
    <3> QED
      BY <2>1, <2>2, <3>1
  <2> QED
    BY <2>1, <2>3
<1> QED
  BY <1>3, <1>4 DEF Tree

LEMMA KillsKeepTree ==
    ASSUME TypeInv, NEW p \in Proc, NEW c \in Caller, Tree(p),
           Taskkilled(p, c) \/ GraceEnds(p, c) \/ ConfirmEnds(p, c)
    PROVE  Tree(p)'
<1>1. RecordGoesOn(p) /\ ChildGoesOn(p) /\ UNCHANGED <<platform, disk>>
  BY TaskkilledStep, GraceEndsStep, ConfirmEndsStep DEF Calm, Taskkilled, GraceEnds, ConfirmEnds
<1>2. /\ stop \in [Proc -> [Caller -> StopRecord]] /\ proc \in [Proc -> ProcRecord]
  BY Types DEF TypeInv
<1>3. ASSUME platform = "posix"
      PROVE  /\ ~proc'[p].treeGone
             /\ \A d \in Caller : stop'[p][d].at \notin {"taskkill", "taskkill_force"}
             /\ proc'[p].status \in Gone => proc[p].status \in Gone \/ ~Living(p)'
  <2>1. ~proc[p].treeGone /\ \A d \in Caller : stop[p][d].at \notin {"taskkill", "taskkill_force"}
    BY <1>3 DEF Tree, TreeOK
  <2>2. CASE GraceEnds(p, c)
    <3>1. ~proc'[p].treeGone /\ proc'[p].status \in {proc[p].status, "running"}
      BY <1>2, <1>3, <2>1, <2>2 DEF GraceEnds, ProcRecord
    <3>2. \/ stop' = [stop EXCEPT ![p][c] = Settled]
          \/ stop' = [stop EXCEPT ![p][c].at = "confirm"]
      BY <1>3, <2>2 DEF GraceEnds
    <3>3. stop'[p][c].at \in {"done", "confirm"} /\ \A d \in Caller : d # c => stop'[p][d] = stop[p][d]
      <4>1. CASE stop' = [stop EXCEPT ![p][c] = Settled]
        BY <1>2, <4>1, StopSettles
      <4>2. CASE stop' = [stop EXCEPT ![p][c].at = "confirm"]
        BY <1>2, <4>2, StopMoves DEF StopPhase
      <4> QED
        BY <3>2, <4>1, <4>2
    <3> QED
      BY <2>1, <3>1, <3>3 DEF Gone
  <2>3. CASE ConfirmEnds(p, c)
    <3>1. proc'[p].treeGone = proc[p].treeGone /\ proc'[p].status \in {proc[p].status, "orphaned"}
      BY <1>2, <2>3, FinalizedType DEF ConfirmEnds, Terminal
    <3>2. stop'[p][c].at = "done" /\ \A d \in Caller : d # c => stop'[p][d] = stop[p][d]
      BY <1>2, <2>3, StopSettles DEF ConfirmEnds
    <3> QED
      BY <2>1, <3>1, <3>2 DEF Gone
  <2> QED
    BY <2>1, <2>2, <2>3 DEF Taskkilled
<1> QED
  BY <1>1, <1>3, TreeGoesOn

LEMMA StopsKeepTree ==
    ASSUME TypeInv, NEW p \in Proc, NEW c \in Caller, NEW strategy \in Strategy, Tree(p),
           proc[p].status # "none", StopBegin(p, c, strategy), UNCHANGED <<platform, disk>>
    PROVE  Tree(p)'
<1>1. RecordGoesOn(p) /\ ChildGoesOn(p)
  BY StopBegins
<1>2. ASSUME platform = "posix"
      PROVE  /\ ~proc'[p].treeGone
             /\ \A d \in Caller : stop'[p][d].at \notin {"taskkill", "taskkill_force"}
             /\ proc'[p].status \in Gone => proc[p].status \in Gone
  <2>1. ~proc[p].treeGone /\ \A d \in Caller : stop[p][d].at \notin {"taskkill", "taskkill_force"}
    BY <1>2 DEF Tree, TreeOK
  <2>2. \A d \in Caller : stop'[p][d].at \notin {"taskkill", "taskkill_force"}
    BY <1>2, <2>1, StopBegins
  <2>3. proc'[p].status \in Gone => proc[p].status \in Gone
    BY <1>1, StopBegins DEF RecordGoesOn, Gone, Terminal
  <2> QED
    BY <1>2, <2>1, <2>2, <2>3, StopBegins
<1> QED
  BY <1>1, <1>2, TreeGoesOn

\* A step that changes neither stops nor what is published.
LEMMA EventsKeepTree ==
    ASSUME TypeInv, NEW p \in Proc, Tree(p),
           SpawnEvent(p) \/ ErrorEvent(p) \/ ChildExits(p) \/ ResidueExits(p) \/ CloseEvent(p)
               \/ CleanedUp(p)
    PROVE  Tree(p)'
<1>1. /\ RecordGoesOn(p) /\ ChildGoesOn(p) /\ UNCHANGED <<platform, disk, stop>> /\ RecordOK(p)
      /\ proc \in [Proc -> ProcRecord] /\ child \in [Proc -> ChildRecord]
  BY Types, SpawnEventStep, ErrorEventStep, ChildExitsStep, ResidueExitsStep, CloseEventStep,
     CleanedUpStep
  DEF Calm, TypeInv, RecordInv, SpawnEvent, ErrorEvent, ChildExits, ResidueExits, CloseEvent,
      CleanedUp
<1>2. ASSUME platform = "posix"
      PROVE  ~proc'[p].treeGone /\ (proc'[p].status \in Gone => proc[p].status \in Gone \/ ~Living(p)')
  <2>1. ~proc[p].treeGone
    BY <1>2 DEF Tree, TreeOK
  <2>2. CASE UNCHANGED proc
    BY <2>1, <2>2
  <2>3. CASE SpawnEvent(p)
    BY <1>1, <2>1, <2>3 DEF SpawnEvent, ProcRecord, Gone
  <2>4. CASE ErrorEvent(p)
    <3>1. child'[p].root = "closed" /\ ~child'[p].residue
      BY <1>1, <2>4 DEF ErrorEvent, RecordOK, ChildRecord
    <3>2. proc'[p].treeGone = proc[p].treeGone
      BY <1>1, <2>4, FinalizedType DEF ErrorEvent, Terminal
    <3> QED
      BY <2>1, <3>1, <3>2 DEF Living
  <2>5. CASE CloseEvent(p)
    <3>1. PICK outcome \in {"stopped", "exited", "failed"} :
            (IsTerminal(p) /\ proc' = Finalized(p, outcome)) \/ UNCHANGED proc
      BY <2>1, <2>5 DEF CloseEvent
    <3>2. IsTerminal(p) /\ proc' = Finalized(p, outcome) => UNCHANGED proc
      BY DEF Finalized
    <3> QED
      BY <2>2, <3>1, <3>2
  <2>6. CASE CleanedUp(p)
    <3>1. PICK residue \in {FALSE, child[p].residue} :
            /\ proc' = Finalized(p, IF residue THEN "orphaned" ELSE child[p].cleanup)
            /\ child' = [child EXCEPT ![p].cleanup = None, ![p].residue = residue]
      BY <1>2, <2>6 DEF CleanedUp
    <3>2. child'[p].residue = residue /\ child'[p].root = "closed"
      BY <1>1, <2>6, <3>1 DEF CleanedUp, RecordOK, ChildRecord
    <3>3. CASE residue
      <4>1. proc'[p].treeGone = proc[p].treeGone /\ proc'[p].status \in {proc[p].status, "orphaned"}
        BY <1>1, <3>1, <3>3, FinalizedType DEF Terminal
      <4> QED
        BY <2>1, <4>1 DEF Gone
    <3>4. CASE ~residue
      <4>1. child[p].cleanup \in Terminal
        BY <1>1, <2>6 DEF CleanedUp, ChildRecord, Terminal
      <4>2. proc'[p].treeGone = proc[p].treeGone
        BY <1>1, <3>1, <3>4, <4>1, FinalizedType
      <4> QED
        BY <2>1, <3>2, <3>4, <4>2 DEF Living
    <3> QED
      BY <3>3, <3>4
  <2> QED
    BY <2>2, <2>3, <2>4, <2>5, <2>6 DEF SpawnEvent, ErrorEvent, ChildExits, ResidueExits, CloseEvent, CleanedUp
<1> QED
  BY <1>1, <1>2, TreeGoesOn DEF Tree, TreeOK

\* A step that changes nothing of the process but how far its start is.
LEMMA SameTree ==
    ASSUME NEW p \in Proc, Tree(p), UNCHANGED platform,
           proc'[p] = proc[p], child'[p] = child[p], stop'[p] = stop[p], disk'[p] = disk[p]
    PROVE  Tree(p)'
BY DEF Tree, TreeOK, Remembered, Living, IsTerminal

\* A launch is published before the spawn, and has no child if the spawn fails at once.
LEMMA LaunchKeepsTree ==
    ASSUME TypeInv, NEW p \in Proc, Tree(p), Published(p)
    PROVE  Tree(p)'
<1>1. UNCHANGED <<platform, stop>>
  BY DEF Published
<1>2. CASE Launched(p)
  <2>1. proc'[p].status = "failed" => ~Living(p)'
    BY <1>2 DEF Launched, Living
  <2>2. proc'[p].status \in Gone => proc'[p].status = "failed"
    BY <1>2 DEF Launched, Gone
  <2>3. disk'[p] # None /\ disk'[p] \notin Gone /\ ~proc'[p].treeGone
    BY <1>2, ManagedProcessesAssumption DEF Launched, Gone
  <2> QED
    BY <1>1, <2>1, <2>2, <2>3 DEF Tree, TreeOK, Remembered
<1>3. CASE UNCHANGED <<proc, child>>
  <2>1. disk'[p] \in {disk[p], "active"} /\ RecordOK(p) /\ start[p].at = "publishing"
    BY <1>3 DEF Published, TypeInv, TypeOK, RecordInv
  <2>2. ~Living(p)
    BY <2>1 DEF RecordOK, Living, Unlaunched
  <2> QED
    BY <1>1, <1>3, <2>2 DEF Tree, TreeOK, Remembered, Living
<1> QED
  BY <1>2, <1>3, PublishedStep

LEMMA PublicationsKeepTree ==
    ASSUME TypeInv, NEW p \in Proc, Tree(p),
           Withdrawn(p) \/ ReadyPublished(p) \/ Flush(p) \/ Release(p)
    PROVE  Tree(p)'
<1>1. RecordOK(p) /\ disk \in [Proc -> {None, "active"} \cup Terminal] /\ proc \in [Proc -> ProcRecord]
  BY Types DEF TypeInv, TypeOK, RecordInv
<1>2. RecordGoesOn(p) /\ ChildGoesOn(p) /\ UNCHANGED platform
  BY WithdrawnStep, ReadyPublishedStep, FlushStep, ReleaseStep
  DEF Calm, Withdrawn, ReadyPublished, Flush, Release
<1>3. proc[p].status # "none" => proc[p].status \in Active \cup Terminal
  BY <1>1 DEF ProcRecord
<1>4. CASE Withdrawn(p)
  <2>1. disk'[p] = None /\ UNCHANGED <<proc, stop>> /\ ~Living(p)
    BY <1>1, <1>4 DEF Withdrawn, RecordOK, Living, Unlaunched
  <2> QED
    BY <1>2, <2>1, TreeGoesOn DEF Tree, TreeOK
<1>5. CASE Flush(p)
  <2>1. disk'[p] = OnDisk(proc[p].status) /\ UNCHANGED <<proc, stop>> /\ proc[p].status # "none"
    BY <1>1, <1>5 DEF Flush, RecordOK
  <2> QED
    BY <1>2, <1>3, <2>1, TreeGoesOn DEF Tree, TreeOK
<1>6. CASE Release(p)
  <2>1. disk'[p] = None /\ IsTerminal(p) /\ UNCHANGED stop
        /\ proc'[p].status = proc[p].status /\ proc'[p].treeGone = proc[p].treeGone
    BY <1>1, <1>6 DEF Release, ProcRecord
  <2> QED
    BY <1>2, <2>1, TreeGoesOn DEF Tree, TreeOK
<1>7. CASE ReadyPublished(p)
  <2>1. proc[p].status # "none"
    BY <1>1, <1>7 DEF ReadyPublished, RecordOK
  <2>2. CASE UNCHANGED <<proc, child, stop>>
    <3>1. disk'[p] = OnDisk(proc[p].status) \/ disk'[p] = disk[p]
      BY <1>1, <1>7 DEF ReadyPublished
    <3> QED
      BY <1>2, <1>3, <2>1, <2>2, <3>1, TreeGoesOn DEF Tree, TreeOK
  <2>3. CASE StopBegin(p, "startup", "force") /\ UNCHANGED disk
    BY <1>2, <2>1, <2>3, StopsKeepTree DEF Caller, Strategy
  <2> QED
    BY <1>7, <2>2, <2>3 DEF ReadyPublished
<1> QED
  BY <1>4, <1>5, <1>6, <1>7

LEMMA StartsKeepTree ==
    ASSUME TypeInv, NEW p \in Proc, NEW s \in Session, Tree(p),
           \/ StartCall(p, s) \/ SessionChecked(p) \/ Abort(p) \/ WatchEnds(p) \/ StartedLate(p)
           \/ StopTool(p)
    PROVE  Tree(p)'
<1>1. RecordOK(p) /\ UNCHANGED <<platform, disk>>
  BY DEF TypeInv, RecordInv, StartCall, SessionChecked, Abort, WatchEnds, StartedLate, StopTool
<1>2. CASE UNCHANGED <<proc, child, stop>>
  BY <1>1, <1>2, SameTree
<1>3. CASE \E c \in Caller, strategy \in Strategy :
             StopBegin(p, c, strategy) /\ proc[p].status # "none"
  BY <1>1, <1>3, StopsKeepTree
<1> QED
  BY <1>1, <1>2, <1>3
  DEF StartCall, SessionChecked, Abort, WatchEnds, StartedLate, StopTool, RecordOK, Caller, Strategy

\* A step of one process leaves the others as they were.
LEMMA OthersStay ==
    ASSUME TypeInv, NEW p \in Proc, NEW s \in Session, ProcessStep(p, s),
           NEW q \in Proc, q # p
    PROVE  /\ proc'[q] = proc[q] /\ child'[q] = child[q]
           /\ stop'[q] = stop[q] /\ disk'[q] = disk[q] /\ UNCHANGED platform
<1>1. /\ proc \in [Proc -> ProcRecord] /\ child \in [Proc -> ChildRecord]
      /\ stop \in [Proc -> [Caller -> StopRecord]] /\ disk \in [Proc -> {None, "active"} \cup Terminal]
  BY Types DEF TypeInv, TypeOK
<1>2. ASSUME NEW c \in Caller, NEW strategy \in Strategy, StopBegin(p, c, strategy)
      PROVE  proc'[q] = proc[q] /\ child'[q] = child[q] /\ stop'[q] = stop[q]
  <2>1. stop'[q] = stop[q]
    BY <1>1, <1>2 DEF StopBegin
  <2>2. proc'[q] = proc[q]
    BY <1>1, <1>2 DEF StopBegin
  <2>3. child'[q] = child[q]
    BY <1>1, <1>2 DEF StopBegin
  <2> QED
    BY <2>1, <2>2, <2>3
<1>3. CASE StartStep(p, s)
  BY <1>1, <1>3 DEF StartStep, StartCall, SessionChecked, Published, Launch, Withdrawn
<1>4. CASE Abort(p) \/ WatchEnds(p) \/ ReadyPublished(p) \/ StopTool(p) \/ StartedLate(p)
  BY <1>1, <1>2, <1>4 DEF Abort, WatchEnds, ReadyPublished, StopTool, StartedLate, Caller, Strategy
<1>5. CASE StopStep(p)
  BY <1>1, <1>5 DEF StopStep, Taskkilled, GraceEnds, ConfirmEnds, Finalized
<1>6. CASE SpawnEvent(p) \/ ErrorEvent(p) \/ ChildExits(p) \/ ResidueExits(p)
  BY <1>1, <1>6 DEF SpawnEvent, ErrorEvent, ChildExits, ResidueExits, Finalized
<1>7. CASE CloseEvent(p) \/ CleanedUp(p)
  BY <1>1, <1>7 DEF CloseEvent, CleanedUp, Finalized
<1>8. CASE Flush(p) \/ Release(p)
  BY <1>1, <1>8 DEF Flush, Release
<1> QED
  BY <1>3, <1>4, <1>5, <1>6, <1>7, <1>8 DEF ProcessStep

LEMMA ProcessStepKeepsTrees ==
    ASSUME TypeInv, NEW p \in Proc, NEW s \in Session, ProcessStep(p, s), \A q \in Proc : Tree(q)
    PROVE  \A q \in Proc : Tree(q)'
<1>1. \A q \in Proc : q # p => Tree(q)'
  BY OthersStay, SameTree
<1>2. Tree(p)'
  <2>1. CASE StartStep(p, s)
    BY <2>1, LaunchKeepsTree, PublicationsKeepTree, StartsKeepTree DEF StartStep
  <2>2. CASE StopStep(p)
    BY <2>2, KillsKeepTree DEF StopStep
  <2> QED
    BY <2>1, <2>2, PublicationsKeepTree, StartsKeepTree, EventsKeepTree DEF ProcessStep
<1> QED
  BY <1>1, <1>2

LEMMA RestartKeepsTree ==
    ASSUME TypeInv, Restart, NEW p \in Proc, Tree(p)
    PROVE  Tree(p)'
<1>1. Living(p)' <=> Living(p)
  BY RestartRest DEF Living
<1>2. \A c \in Caller : stop'[p][c].at \notin {"taskkill", "taskkill_force"}
  BY RestartRest
<1>3. UNCHANGED platform /\ ~proc'[p].treeGone
      /\ disk'[p] = IF disk[p] = "active" THEN "orphaned" ELSE disk[p]
  BY RestartRecord DEF Restart
<1>4. CASE disk[p] = None
  <2>1. disk'[p] = None /\ proc'[p].status = proc[p].status
    BY <1>4, RestartRecord
  <2> QED
    BY <1>1, <1>2, <1>3, <1>4, <2>1, ManagedProcessesAssumption
    DEF Tree, TreeOK, Remembered, IsTerminal, Gone
<1>5. CASE disk[p] # None
  <2>1. proc'[p].status = disk'[p] /\ proc'[p].status \in Terminal
    BY <1>5, RestartRecord
  <2>2. disk'[p] \in Gone => disk[p] \in Gone
    BY <1>3 DEF Gone
  <2> QED
    BY <1>1, <1>2, <1>3, <2>1, <2>2 DEF Tree, TreeOK, Remembered, IsTerminal
<1> QED
  BY <1>4, <1>5

LEMMA NextKeepsTrees ==
    ASSUME TypeInv, [Next]_pmVars, \A q \in Proc : Tree(q)
    PROVE  \A q \in Proc : Tree(q)'
<1>1. ASSUME UNCHANGED <<platform, proc, child, stop, disk>>
      PROVE  \A q \in Proc : Tree(q)'
  BY <1>1, SameTree
<1>2. ASSUME NEW c \in StopCall, NEW s \in Session, ClosingStep(c, s)
      PROVE  \A q \in Proc : Tree(q)'
  <2>1. CASE StopSession(c, s) \/ Dispose(c) \/ TakeOwned(c) \/ Stopped(c)
    BY <1>1, <2>1 DEF StopSession, Dispose, TakeOwned, Stopped
  <2>2. ASSUME NEW p \in Proc, StopOwned(c, p)
        PROVE  \A q \in Proc : Tree(q)'
    <3>1. /\ StopBegin(p, c, "graceful_then_force") /\ UNCHANGED <<platform, disk>>
          /\ proc[p].status # "none" /\ c \in Caller /\ "graceful_then_force" \in Strategy
      BY <2>2 DEF StopOwned, TypeInv, RecordInv, Caller, Strategy
    <3>2. Tree(p)'
      BY <3>1, StopsKeepTree
    <3>3. \A q \in Proc : q # p => proc'[q] = proc[q] /\ child'[q] = child[q] /\ stop'[q] = stop[q]
      BY <3>1, StopBegins
    <3> QED
      BY <3>1, <3>2, <3>3, SameTree
  <2> QED
    BY <1>2, <2>1, <2>2 DEF ClosingStep
<1>3. CASE UNCHANGED pmVars
  BY <1>1, <1>3 DEF pmVars
<1>4. CASE Restart
  BY <1>4, RestartKeepsTree
<1> QED
  BY <1>2, <1>3, <1>4, ProcessStepKeepsTrees DEF Next

\* On POSIX, what is reported as exited, failed or stopped has left nothing running, whatever was
\* reported between the root's end and the group's; and on every platform a crash forgets no
\* living process unless its outcome had been reported.
THEOREM LivingStayKnown == Spec => []LivingIsKnown
<1> DEFINE Trees == \A p \in Proc : Tree(p)
<1>1. Init => Trees
  BY DEF Init, Tree, TreeOK, Remembered, Living, NoChild, NoRecord, NoStop, Caller, Gone
<1>2. TypeInv /\ Trees /\ [Next]_pmVars => Trees'
  BY NextKeepsTrees
<1>3. Trees => LivingIsKnown
  BY DEF Tree, TreeOK, Remembered, LivingIsKnown, GoneMeansGone, NoneForgotten, Gone
<1> HIDE DEF Trees
<1> QED
  BY <1>1, <1>2, <1>3, TypeCorrect, PTL DEF Spec
==============================================================================
