------------------------------ MODULE Publication ------------------------------
(***************************************************************************)
(* How a tool call publishes one file of the workspace while the user, an   *)
(* editor or another program changes it too: download_file, which stages    *)
(* what it receives and commits it with an exclusive link; export_artifact, *)
(* whose approval is bound to the target that was shown; and apply_patch    *)
(* and apply_artifact_patch.  The last three use publishFileAtomic.         *)
(*                                                                          *)
(* A name of the file system holds an inode, and an inode its content, so   *)
(* that a write in place and a replacement differ.  A fingerprint is both.  *)
(* A content is named by who made it.  Checkpoints has what a restored      *)
(* checkpoint means for the rest of the workspace.                          *)
(***************************************************************************)
EXTENDS Naturals

CONSTANTS
    MaxActs,  \* bound: acts of others
    NoJob     \* no call

VARIABLES
    dir,    \* the inodes under three names, 0 when there is none: the destination, the staged
            \* or temporary file beside it, and the previous file in the backup directory
    data,   \* the content of each inode
    job,    \* the call
    acts,   \* acts of others so far
    late,   \* history: others acted in an instant in which the call does not look
    lost    \* history: contents of others that are gone because of the call

pubVars == <<dir, data, job, acts, late, lost>>

Place == {"dest", "stage", "backup"}
\* The file that was there, the one the call makes, the one a restored checkpoint puts back, and
\* one for each act of others.
Old == 1
Made == 2
Back == 3
Others == (Back + 1)..(Back + MaxActs)
Inode == 1..(Back + MaxActs)
\* Contents have the numbers of the inodes they were first in; a partial download is a half.
Part == 0
Stray == Back  \* what another file under the name of the staged one holds

Kind == {"download", "export", "patch"}
Phase == {"asked", "opened", "receiving", "received", "check_dest", "move", "moved", "check_stage",
          "link", "linked", "verify", "unlink", "unlinking", "restore", "restoring", "finally",
          "discard", "cleanup", "stage", "check_target", "commit", "published", "rollback",
          "put_back", "done", "dead"}

Fingerprint(place) == IF dir[place] = 0 THEN <<0, 0>> ELSE <<dir[place], data[dir[place]]>>
Whole == <<Made, Made>>
Content(place) == Fingerprint(place)[2]
IsAt(phase) == job # NoJob /\ job.at = phase
Go(phase) == job' = [job EXCEPT !.at = phase]
Fails(phase) == job' = [job EXCEPT !.at = phase, !.ok = FALSE]

\* Contents of others that a name still leads to.
Reachable(names, contents) ==
    {contents[names[p]] : p \in {q \in {"dest", "backup"} : names[q] # 0}}

\* What a step of the call does to the names; contents of others may go with them.
Names(names) ==
    /\ dir' = names
    /\ lost' = lost \cup ((Reachable(dir, data) \ Reachable(names, data)) \cap Others)

PubTypeOK ==
    /\ dir \in [Place -> Inode \cup {0}]
    /\ data \in [Inode -> Inode \cup {Part}]
    /\ \/ job = NoJob
       \/ job \in [kind : Kind, overwrite : BOOLEAN, at : Phase, saved : Inode \cup {Part},
                    seen : (Inode \cup {0}) \X (Inode \cup {0}), own : Inode,
                    moved : BOOLEAN, aborted : BOOLEAN, ok : BOOLEAN]
    /\ acts \in 0..MaxActs /\ late \in BOOLEAN /\ lost \subseteq Others

PubInit ==
    /\ dir \in {[p \in Place |-> IF p = "dest" THEN i ELSE 0] : i \in {0, Old}}
    /\ data = [i \in Inode |-> i]
    /\ job = NoJob
    /\ acts = 0 /\ late = FALSE /\ lost = {}

-----------------------------------------------------------------------------
(* Until the call begins to write.                                         *)

Call(kind, overwrite) ==
    /\ job = NoJob
    /\ job' = [kind |-> kind, overwrite |-> overwrite, at |-> "asked", saved |-> Part,
               seen |-> Fingerprint("dest"), own |-> Made, moved |-> FALSE, aborted |-> FALSE,
               ok |-> TRUE]
    /\ UNCHANGED <<dir, data, acts, late, lost>>

\* The destination must not exist unless it may be replaced.  A download that asks for a unique name
\* has found one that is free.
PlanDownload ==
    \E overwrite \in BOOLEAN :
        /\ overwrite \/ dir["dest"] = 0
        /\ Call("download", overwrite)

\* The approval of an export is bound to the target as it was shown.
AskExport ==
    \E overwrite \in BOOLEAN :
        /\ overwrite \/ dir["dest"] = 0
        /\ Call("export", overwrite)

\* A patch replaces what there is.
AskPatch == Call("patch", TRUE)

\* The user has agreed, and createCheckpoint has copied the destination.
Checkpoint ==
    /\ IsAt("asked")
    /\ job' = [job EXCEPT !.at = "opened", !.saved = Content("dest")]
    /\ UNCHANGED <<dir, data, acts, late, lost>>

Overwritten == job' = [job EXCEPT !.at = "receiving", !.seen = Fingerprint("dest")]

\* executeDownloadFile: the destination still has the content of its checkpoint.
Baseline ==
    /\ IsAt("opened") /\ job.kind = "download"
    /\ IF Content("dest") = job.saved /\ ~job.aborted THEN Overwritten ELSE Fails("cleanup")
    /\ UNCHANGED <<dir, data, acts, late, lost>>

\* DownloadStreamSink opens its file exclusively and writes through the handle; a second route
\* truncates it and starts again.
Receive ==
    /\ IsAt("receiving")
    /\ dir["stage"] = 0
    /\ dir' = [dir EXCEPT !["stage"] = Made]
    /\ data' = [data EXCEPT ![Made] = Part]
    /\ Go("received")
    /\ UNCHANGED <<acts, late, lost>>

\* The response ended; its size and hash are those of the transport.
Finish ==
    /\ IsAt("received")
    /\ data' = [data EXCEPT ![Made] = Made]
    /\ Go("check_dest")
    /\ UNCHANGED <<dir, acts, late, lost>>

\* The request fails, its deadline passes, or what was received is refused.
RequestFails ==
    /\ IsAt("receiving") \/ IsAt("received") \/ IsAt("check_dest")
    /\ Fails("cleanup")
    /\ UNCHANGED <<dir, data, acts, late, lost>>

-----------------------------------------------------------------------------
(* commitWorkspaceDownload.                                                *)

MayReplace == job.overwrite \/ dir["dest"] = 0

CheckDest ==
    /\ IsAt("check_dest")
    /\ IF Fingerprint("dest") # job.seen \/ ~MayReplace \/ job.aborted THEN Fails("cleanup")
       ELSE Go(IF dir["dest"] # 0 THEN "move" ELSE "check_stage")
    /\ UNCHANGED <<dir, data, acts, late, lost>>

\* The destination is renamed into the backup directory.
Move ==
    /\ IsAt("move")
    /\ IF dir["dest"] = 0
       THEN Fails("discard") /\ UNCHANGED <<dir, lost>>
       ELSE /\ Names([dir EXCEPT !["backup"] = dir["dest"], !["dest"] = 0])
            /\ job' = [job EXCEPT !.at = "moved", !.moved = TRUE]
    /\ UNCHANGED <<data, acts, late>>

\* What was moved is what was fingerprinted.
CheckMoved ==
    /\ IsAt("moved")
    /\ IF Fingerprint("backup") = job.seen /\ ~job.aborted THEN Go("check_stage") ELSE Fails("restore")
    /\ UNCHANGED <<dir, data, acts, late, lost>>

\* Where the call goes on when something is wrong.
Wrong == IF job.moved THEN "restore" ELSE "cleanup"

CheckStage ==
    /\ IsAt("check_stage")
    /\ IF Fingerprint("stage") = Whole /\ ~job.aborted THEN Go("link") ELSE Fails(Wrong)
    /\ UNCHANGED <<dir, data, acts, late, lost>>

\* Mutant: the staged file is renamed over whatever is there.
LinkReplacing ==
    /\ IsAt("link")
    /\ IF dir["stage"] = 0
       THEN Fails(Wrong) /\ UNCHANGED <<dir, lost>>
       ELSE Names([dir EXCEPT !["dest"] = dir["stage"]]) /\ Go("linked")
    /\ UNCHANGED <<data, acts, late>>

\* The exclusive link is the commit point: it fails when somebody has made the destination.
Link ==
    /\ IsAt("link")
    /\ IF dir["stage"] = 0 \/ dir["dest"] # 0
       THEN Fails(Wrong) /\ UNCHANGED <<dir, lost>>
       ELSE Names([dir EXCEPT !["dest"] = dir["stage"]]) /\ Go("linked")
    /\ UNCHANGED <<data, acts, late>>

\* The inode that was linked is the staged one; if the staged name was given to another file
\* that one is taken back as well.
CheckLinked ==
    /\ IsAt("linked")
    /\ IF dir["dest"] = 0 THEN Fails("unlink")
       ELSE IF dir["dest"] = Made THEN Go("verify")
       ELSE job' = [job EXCEPT !.at = "unlink", !.ok = FALSE,
                                 !.own = IF dir["stage"] = dir["dest"] THEN dir["dest"] ELSE @]
    /\ UNCHANGED <<dir, data, acts, late, lost>>

\* Mutant: only the published file is looked at.
VerifyPublishedOnly ==
    /\ IsAt("verify")
    /\ IF Fingerprint("dest") = Whole
       THEN job' = [job EXCEPT !.at = IF job.moved THEN "discard" ELSE "cleanup",
                                 !.moved = FALSE]
       ELSE Fails("unlink")
    /\ UNCHANGED <<dir, data, acts, late, lost>>

\* The published file is whole, and nobody has written to the previous one.
Verify ==
    /\ IsAt("verify")
    /\ IF Fingerprint("dest") = Whole /\ (job.moved => Fingerprint("backup") = job.seen)
       THEN job' = [job EXCEPT !.at = IF job.moved THEN "discard" ELSE "cleanup",
                                 !.moved = FALSE]
       ELSE Fails("unlink")
    /\ UNCHANGED <<dir, data, acts, late, lost>>

\* removePublishedPathIfOwned.
Unlink ==
    /\ IsAt("unlink")
    /\ Go(IF dir["dest"] = job.own THEN "unlinking" ELSE Wrong)
    /\ UNCHANGED <<dir, data, acts, late, lost>>

Unlinking ==
    /\ IsAt("unlinking")
    /\ Names([dir EXCEPT !["dest"] = 0])
    /\ Go(Wrong)
    /\ UNCHANGED <<data, acts, late>>

\* Mutant: the backup directory is removed as soon as the call fails.
RestoreNever ==
    /\ IsAt("restore") \/ IsAt("finally")
    /\ Go("discard")
    /\ UNCHANGED <<dir, data, acts, late, lost>>

\* The previous file goes back when its name is free, first by the error's own path and then
\* once more in the finally block.
Restore ==
    /\ IsAt("restore") \/ IsAt("finally")
    /\ Go(IF dir["dest"] = 0 /\ dir["backup"] # 0 THEN "restoring"
          ELSE IF IsAt("restore") THEN "finally" ELSE "discard")
    /\ UNCHANGED <<dir, data, acts, late, lost>>

Restoring ==
    /\ IsAt("restoring")
    /\ Names([dir EXCEPT !["dest"] = dir["backup"], !["backup"] = 0])
    /\ job' = [job EXCEPT !.at = "discard", !.moved = FALSE]
    /\ UNCHANGED <<data, acts, late>>

\* The backup directory is removed with what is in it.
Discard ==
    /\ IsAt("discard")
    /\ Names([dir EXCEPT !["backup"] = 0])
    /\ Go("cleanup")
    /\ UNCHANGED <<data, acts, late>>

\* The staged or temporary file is removed by its name.
Cleanup ==
    /\ IsAt("cleanup")
    /\ dir' = [dir EXCEPT !["stage"] = 0]
    /\ Go(IF ~job.ok /\ job.kind = "export" THEN "rollback" ELSE "done")
    /\ UNCHANGED <<data, acts, late, lost>>

-----------------------------------------------------------------------------
(* publishFileAtomic and the calls that use it.                            *)

\* export_artifact: the target is the one of the approval, before and after the source was read.
CheckApproved ==
    /\ IsAt("opened") /\ job.kind = "export"
    /\ IF Fingerprint("dest") = job.seen /\ ~job.aborted THEN Go("stage") ELSE Fails("rollback")
    /\ UNCHANGED <<dir, data, acts, late, lost>>

\* prepareApplyPatchChanges and applyArtifactPatch read the target; what does not fit is refused
\* before anything is written.
Prepare ==
    /\ IsAt("opened") /\ job.kind = "patch"
    /\ \/ Go("stage")
       \/ Fails("done")
    /\ UNCHANGED <<dir, data, acts, late, lost>>

\* The temporary file is written and synced before it has the name.
Stage ==
    /\ IsAt("stage")
    /\ dir' = [dir EXCEPT !["stage"] = Made]
    /\ data' = [data EXCEPT ![Made] = Part]
    /\ Go("check_target")
    /\ UNCHANGED <<acts, late, lost>>

\* assertExpectedTarget: with the options of an export the target is compared once more.
CheckTarget ==
    /\ IsAt("check_target")
    /\ data' = [data EXCEPT ![Made] = Made]
    /\ IF job.aborted \/ (job.kind = "export" /\ Fingerprint("dest") # job.seen)
       THEN Fails("rollback") ELSE Go("commit")
    /\ UNCHANGED <<dir, acts, late, lost>>

\* Writing or syncing the temporary file fails, or the rename does.
WriteFails ==
    /\ IsAt("check_target") \/ IsAt("commit")
    /\ Fails("rollback")
    /\ UNCHANGED <<dir, data, acts, late, lost>>

\* A rename, or an exclusive link when the target must not exist.
Commit ==
    /\ IsAt("commit")
    /\ IF ~job.overwrite /\ dir["dest"] # 0
       THEN Fails("rollback") /\ UNCHANGED <<dir, lost>>
       ELSE /\ Names([dir EXCEPT !["dest"] = dir["stage"], !["stage"] = 0])
            /\ Go("published")
    /\ UNCHANGED <<data, acts, late>>

\* readPublishedExport; a patch reports what it has published.
Published ==
    /\ IsAt("published")
    /\ IF job.kind = "export" /\ Content("dest") # Made THEN Fails("rollback") ELSE Go("done")
    /\ UNCHANGED <<dir, data, acts, late, lost>>

\* The temporary file is gone.  restoreCheckpoint, called by the patch or by the runtime
\* (restoreOnFailure), removes the entry and puts the copy back.
RollBack ==
    /\ IsAt("rollback")
    /\ Names([dir EXCEPT !["dest"] = 0, !["stage"] = 0])
    /\ Go("put_back")
    /\ UNCHANGED <<data, acts, late>>

PutBack ==
    /\ IsAt("put_back")
    /\ Names([dir EXCEPT !["dest"] = IF job.saved = Part THEN 0 ELSE Back])
    /\ data' = [data EXCEPT ![Back] = job.saved]
    /\ Go("done")
    /\ UNCHANGED <<acts, late>>

-----------------------------------------------------------------------------
(* Others.                                                                 *)

AtWork == job # NoJob /\ job.at \notin {"done", "dead"}

\* The instants at which a download looks no more at what it is about to remove or to rename over:
\* what others do then is late.  So is, once the file is set aside, a second change when either it
\* or its old name has been changed.
TooLate ==
    \/ job.at \in {"linked", "verify", "unlink", "unlinking", "restoring", "discard", "published"}
    \/ job.at = "cleanup" /\ job.ok
    \/ job.moved /\ (Fingerprint("backup") # job.seen \/ dir["dest"] # 0)

Act(names, contents) ==
    /\ AtWork /\ acts < MaxActs
    /\ acts' = acts + 1
    /\ dir' = names /\ data' = contents
    /\ late' = (late \/ TooLate)
    /\ UNCHANGED <<job, lost>>

\* An editor writes in place, also through a handle it opened before the file was moved.
WriteInPlace ==
    \E i \in {dir["dest"], dir["backup"]} \ {0} :
        Act(dir, [data EXCEPT ![i] = Back + acts + 1])

\* A file is replaced or made.
Replace == Act([dir EXCEPT !["dest"] = Back + acts + 1], data)

\* The name of the staged file of a download is given to another file.
ReplaceStaged ==
    /\ dir["stage"] # 0
    /\ Act([dir EXCEPT !["stage"] = Back + acts + 1], [data EXCEPT ![Back + acts + 1] = Stray])

Delete == dir["dest"] # 0 /\ Act([dir EXCEPT !["dest"] = 0], data)

\* The turn is interrupted or the deadline passes.
Abort ==
    /\ AtWork /\ ~job.aborted
    /\ job' = [job EXCEPT !.aborted = TRUE]
    /\ UNCHANGED <<dir, data, acts, late, lost>>

Crash == AtWork /\ Go("dead") /\ UNCHANGED <<dir, data, acts, late, lost>>

CallStep ==
    \/ Checkpoint \/ Baseline \/ Receive \/ Finish \/ RequestFails
    \/ CheckDest \/ Move \/ CheckMoved \/ CheckStage \/ Link \/ CheckLinked \/ Verify
    \/ Unlink \/ Unlinking \/ Restore \/ Restoring \/ Discard \/ Cleanup
    \/ CheckApproved \/ Prepare \/ Stage \/ CheckTarget \/ WriteFails \/ Commit \/ Published
    \/ RollBack \/ PutBack

PubNext ==
    \/ PlanDownload \/ AskExport \/ AskPatch \/ CallStep
    \/ WriteInPlace \/ Replace \/ ReplaceStaged \/ Delete \/ Abort \/ Crash

PubSpec == PubInit /\ [][PubNext]_pubVars

-----------------------------------------------------------------------------
(* Properties.                                                             *)

\* Nobody ever finds half of a file at the destination, also not after a crash.
NeverPartial == dir["dest"] # 0 => Content("dest") # Part

\* A call that reports success has published the whole of its file.  A patch does not look at
\* what it has published: another file under its temporary name would go unnoticed.
SuccessIsWhole ==
    IsAt("done") /\ job.ok /\ ~late /\ (job.kind = "patch" => acts = 0) =>
        Fingerprint("dest") = Whole

\* A call that fails, or dies, leaves the file that was there when nobody else has acted: at its
\* place, or after a crash in the backup directory or in the checkpoint that undo restores.
FailureKeepsOld ==
    acts = 0 /\ job # NoJob =>
        /\ IsAt("done") /\ ~job.ok => /\ Content("dest") = job.saved
                                       /\ dir["stage"] = 0 /\ dir["backup"] = 0
        /\ IsAt("dead") => \/ job.saved \in Reachable(dir, data) \cup {Part}
                           \/ Made \in Reachable(dir, data)
                           \/ job.kind # "download"

\* A download destroys nothing of what others did to its destination: it finds their change and
\* leaves or puts back their file, or its checkpoint has it.  The instants of TooLate are excepted;
\* TLC refutes it without them, and for the other calls, which restore their checkpoint over what
\* they found changed.
OthersKept == job # NoJob /\ job.kind = "download" /\ ~late => lost \subseteq {job.saved}

\* TLC refutes it: what others do while a file is replaced is not always preserved.
OthersAlwaysKept == lost \subseteq {job.saved}

PublicationSound == NeverPartial /\ SuccessIsWhole /\ FailureKeepsOld /\ OthersKept
=============================================================================
