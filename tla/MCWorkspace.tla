------------------------------ MODULE MCWorkspace ------------------------------
(***************************************************************************)
(* Instances of Checkpoints, GitOperations, Publication and Settings for    *)
(* TLC: what changes the files of a workspace.  A behaviour is about one    *)
(* part:                                                                    *)
(*   "checkpoints"  calls that write files, and undo, until something else  *)
(*                  than the files of the latest candidate is restored      *)
(*   "branches"     Git tools for branches and worktrees                    *)
(*   "changes"      Git tools for changes, and a merge                      *)
(*   "publication"  one call that publishes a file others change too        *)
(*   "settings"     saves of settings and model profiles                    *)
(* What one part uses stays as it is at the start in the others.            *)
(***************************************************************************)
EXTENDS Checkpoints, TLC

CONSTANTS
    Task, Worktree, Primary, Branch, Protected, MaxCommits, MaxOthers,
    Topic,  \* the branch that is made and deleted
    MaxActs,
    Writer, Slot, Profile, Legacy, Classic

VARIABLES
    part,
    ref, past, on, work, stuck, others, call, behind, tail, disturbed,  \* of GitOperations
    dir, data, job, acts, late, lost,                                   \* of Publication
    files, library, writer, overlap                                     \* of Settings

Git == INSTANCE GitOperations
Pub == INSTANCE Publication WITH NoJob <- None
Saves == INSTANCE Settings

gitVars == <<ref, past, on, work, stuck, others, call, behind, tail, disturbed>>
pubVars == <<dir, data, job, acts, late, lost>>
saveVars == <<files, library, writer, overlap>>

Symmetry == Permutations(Path) \cup Permutations(Task) \cup Permutations(Writer)

\* The kinds of Git operations of a part.
GitKinds ==
    [branches |-> {"create", "switch", "delete", "add", "add_new", "remove"},
     changes |-> {"stage", "commit", "restore", "merge", "continue", "abort"}]

MCInit ==
    /\ Init /\ Git!Init /\ Pub!PubInit /\ Saves!SettingsInit
    /\ part \in {"checkpoints", "publication", "settings"} \cup DOMAIN GitKinds
    /\ part # "publication" => dir["dest"] = 0
    /\ part # "checkpoints" => \A p \in Path : file[p] = 1
    /\ on[Primary] # Topic
    /\ IF part = "settings" THEN "library" \notin overlap
       ELSE overlap = {} /\ files = [f \in {"user", "project"} |-> None]

GitNext ==
    Git!GitSteps({o \in Git!Op : /\ o.kind \in GitKinds[part]
                                 /\ o.kind \in {"create", "delete", "add", "add_new"}
                                    => o.branch = Topic})

MCNext ==
    /\ UNCHANGED part
    /\ \/ part = "checkpoints" /\ Next /\ ~strayed' /\ UNCHANGED <<gitVars, pubVars, saveVars>>
       \/ part \in DOMAIN GitKinds /\ GitNext /\ UNCHANGED <<vars, pubVars, saveVars>>
       \/ part = "publication" /\ Pub!PubNext /\ UNCHANGED <<vars, gitVars, saveVars>>
       \/ part = "settings" /\ Saves!SettingsNext /\ UNCHANGED <<vars, gitVars, pubVars>>

MCSpec == MCInit /\ [][MCNext]_<<part, vars, gitVars, pubVars, saveVars>>

\* GitOperations!ActsAsApproved: a command runs on the repository that the user was shown.
ActsAsApproved == Git!ActsAsApproved

\* Publication!PublicationSound: no half file, nothing reported that is not there, nothing lost.
PublicationSound == Pub!PublicationSound

\* Settings!FormReplacesWhatItShowed and BoundProfileAllowed: a form's save replaces what the form
\* showed, and what the slots are bound to is there and allowed.
SettingsStaySound == Saves!FormReplacesWhatItShowed /\ []Saves!BoundProfileAllowed
=============================================================================
