---------------------------- MODULE GitOperations ----------------------------
(***************************************************************************)
(* The Git tools that change a repository: git_branch, git_worktree,        *)
(* git_stage, git_commit, git_restore and git_integrate.                    *)
(*                                                                          *)
(* Each captures a snapshot of the repository and shows it to the user, as  *)
(* the context of an approval or as a preview with a confirmation token.    *)
(* When the user has agreed the snapshot is captured again before the       *)
(* execution, and once more under a lock, and Git runs only if it is still  *)
(* the one that was shown.  The lock is a chain of promises in the memory   *)
(* of one process, whose calls are modelled; the user, other programs and   *)
(* other processes change the repository whenever they like.                *)
(*                                                                          *)
(* A commit is a number with its ancestors, uncommitted work a number, 0    *)
(* when there is none.  HEAD is a branch, paths are left out.               *)
(***************************************************************************)
EXTENDS Naturals, FiniteSets, FiniteSetsExt, Functions

CONSTANTS
    Task,         \* calls of Git tools in one process
    Worktree, Primary, Branch,
    Protected,    \* branches that are never deleted
    MaxCommits,   \* bound: commits ever made
    MaxOthers,    \* bound: what others do to the repository
    None

Integrations == {"merge", "rebase", "cherry_pick", "revert"}
CommitId == 1..MaxCommits

\* The arguments of the tools; "at" is the worktree of cwd.
OnBranch == [kind : {"create", "switch", "delete"} \cup Integrations, at : Worktree, branch : Branch]
OnWorktree == [kind : {"add", "add_new"}, at : Worktree, branch : Branch, tree : Worktree]
              \cup [kind : {"remove"}, at : Worktree, tree : Worktree]
OnChanges == [kind : {"stage", "commit", "restore", "continue", "abort"}, at : Worktree]
Op == OnBranch \cup OnWorktree \cup OnChanges

VARIABLES
    ref,        \* refs/heads: the commit of a branch, 0 when there is no such branch
    past,       \* ancestors of a commit, itself included; none when it does not exist
    on,         \* the branch a worktree has checked out, None when there is no such worktree
    work,       \* its uncommitted changes, staged and not
    stuck,      \* the integration that stopped in it with a conflict
    others,     \* how much others have done
    call,       \* the calls
    behind,     \* mutationLocks: the call whose end a call waits for
    tail,       \* mutationLocks: the last call in the chain
    disturbed   \* history: calls whose repository others changed after its last check

repository == <<ref, past, on, work, stuck>>
gitVars == <<repository, others, call, behind, tail, disturbed>>

NoOp == [at |-> "idle"]
Conflicted == MaxOthers + 1  \* contents are numbered by who wrote them
Clear == [staged |-> 0, unstaged |-> 0]
Head(w) == ref[on[w]]
Exists(w) == on[w] # None
Occupied(b) == \E w \in Worktree : on[w] = b
Clean(w) == work[w] = Clear /\ stuck[w] = "no"
Commits == {c \in CommitId : past[c] # {}}

-----------------------------------------------------------------------------
(* What a call looks at.                                                    *)

\* captureGitRepositorySnapshot: the state of a worktree, and what the others have checked out.
Snapshot(w) ==
    [branch |-> on[w], head |-> Head(w), work |-> work[w], stuck |-> stuck[w],
     worktrees |-> [v \in Worktree |-> IF Exists(v) THEN <<on[v], Head(v)>> ELSE <<None, 0>>]]

\* verifyCommit: the commit an operation names.
Target(o) ==
    CASE o.kind \in {"create", "add_new"} -> Head(o.at)
      [] o.kind \in {"switch", "delete", "add"} \cup Integrations -> ref[o.branch]
      [] OTHER -> 0

Facts(o) == [snapshot |-> Snapshot(o.at), target |-> Target(o)]

\* The digest and target of an approval, or the confirmation token.  The token of a merge, a
\* cherry-pick or a revert covers the commits it brings in; that of a rebase lists the commits
\* of HEAD that the target has not, and the names of paths.
Key(o, facts) ==
    IF o.kind = "rebase"
    THEN [snapshot |-> facts.snapshot, target |-> past[facts.snapshot.head] \ past[facts.target]]
    ELSE facts

\* The guards of the executors.
BranchGuards(o) ==
    CASE o.kind = "create" -> stuck[o.at] = "no" /\ ref[o.branch] = 0
      [] o.kind = "switch" -> Clean(o.at) /\ ref[o.branch] # 0 /\ ~Occupied(o.branch)
      [] o.kind = "delete" -> /\ Clean(o.at) /\ ref[o.branch] # 0
                              /\ ~Occupied(o.branch) /\ o.branch \notin Protected

AddGuards(o) ==
    /\ Clean(o.at) /\ ~Exists(o.tree)
    /\ IF o.kind = "add_new" THEN ref[o.branch] = 0
       ELSE ref[o.branch] # 0 /\ ~Occupied(o.branch)

RemoveGuards(o) ==
    Clean(o.at) /\ o.tree \notin {Primary, o.at} /\ Exists(o.tree) /\ Clean(o.tree)

CommitGuards(o) == stuck[o.at] = "no" /\ work[o.at].staged # 0

IntegrationGuards(o) ==
    IF o.kind \in Integrations THEN Clean(o.at) /\ ref[o.branch] # 0 ELSE stuck[o.at] # "no"

Allowed(o) ==
    /\ Exists(o.at)
    /\ o.kind \in {"create", "switch", "delete"} => BranchGuards(o)
    /\ o.kind \in {"add", "add_new"} => AddGuards(o)
    /\ o.kind = "remove" => RemoveGuards(o)
    /\ o.kind = "commit" => CommitGuards(o)
    /\ o.kind \in Integrations \cup {"continue", "abort"} => IntegrationGuards(o)

\* The branch and worktree tools ask for an approval of anything, and look at the guards when it
\* is given.
Showable(o) ==
    /\ Exists(o.at)
    /\ o.kind \in {"create", "switch", "delete", "add", "add_new", "remove"} \/ Allowed(o)

-----------------------------------------------------------------------------
(* Git.  It refuses by itself what would lose commits or uncommitted work.  *)

Merged(b, w) == ref[b] \in past[Head(w)]

NewCommit(c, ancestors) ==
    /\ c = Cardinality(Commits) + 1 /\ c \in CommitId
    /\ past' = [past EXCEPT ![c] = ancestors \cup {c}]

CommitOnto(w, ancestors) ==
    \E c \in CommitId : NewCommit(c, ancestors) /\ ref' = [ref EXCEPT ![on[w]] = c]

Bases(o) ==
    CASE o.kind = "merge" -> past[Head(o.at)] \cup past[ref[o.branch]]
      [] o.kind = "rebase" -> past[ref[o.branch]]
      [] OTHER -> past[Head(o.at)]

RunBranch(o) ==
    /\ \/ o.kind = "create" /\ ref' = [ref EXCEPT ![o.branch] = Target(o)] /\ UNCHANGED on
       \/ o.kind = "switch" /\ on' = [on EXCEPT ![o.at] = o.branch] /\ UNCHANGED ref
       \/ /\ o.kind = "delete" /\ Merged(o.branch, o.at)
          /\ ref' = [ref EXCEPT ![o.branch] = 0] /\ UNCHANGED on
    /\ UNCHANGED <<past, work, stuck>>

AddWorktree(o) ==
    /\ o.kind \in {"add", "add_new"}
    /\ on' = [on EXCEPT ![o.tree] = o.branch]
    /\ ref' = IF o.kind = "add" THEN ref ELSE [ref EXCEPT ![o.branch] = Target(o)]
    /\ UNCHANGED <<past, work, stuck>>

RemoveWorktree(o) ==
    /\ o.kind = "remove"
    /\ on' = [on EXCEPT ![o.tree] = None]
    /\ UNCHANGED <<ref, past, work, stuck>>

StageFiles(o) ==
    /\ o.kind = "stage" /\ work[o.at].unstaged # 0
    /\ work' = [work EXCEPT ![o.at] = [staged |-> @.unstaged, unstaged |-> 0]]
    /\ UNCHANGED <<ref, past, on, stuck>>

RestoreFiles(o) ==
    /\ o.kind = "restore"
    /\ \E area \in {{"unstaged"}, {"staged"}, {"staged", "unstaged"}} :
         work' = [work EXCEPT ![o.at] = [a \in DOMAIN @ |-> IF a \in area THEN 0 ELSE @[a]]]
    /\ UNCHANGED <<ref, past, on, stuck>>

CommitStaged(o) ==
    /\ o.kind = "commit"
    /\ CommitOnto(o.at, past[Head(o.at)])
    /\ work' = [work EXCEPT ![o.at].staged = 0]
    /\ UNCHANGED <<on, stuck>>

\* An integration ends, or stops with a conflict that is kept in place until it is continued, with
\* nothing left unstaged, or aborted.
Integrate(o) ==
    /\ UNCHANGED on
    /\ \/ /\ o.kind \in Integrations
          /\ CommitOnto(o.at, Bases(o))
          /\ UNCHANGED <<work, stuck>>
       \/ /\ o.kind \in Integrations
          /\ work' = [work EXCEPT ![o.at].unstaged = Conflicted]
          /\ stuck' = [stuck EXCEPT ![o.at] = o.kind]
          /\ UNCHANGED <<ref, past>>
       \/ /\ o.kind = "continue" /\ work[o.at].unstaged = 0
          /\ CommitOnto(o.at, past[Head(o.at)])
          /\ work' = [work EXCEPT ![o.at] = Clear] /\ stuck' = [stuck EXCEPT ![o.at] = "no"]
       \/ /\ o.kind = "abort"
          /\ work' = [work EXCEPT ![o.at] = Clear] /\ stuck' = [stuck EXCEPT ![o.at] = "no"]
          /\ UNCHANGED <<ref, past>>

\* What Git itself still finds possible.
Possible(o) ==
    /\ Allowed(o)
    /\ o.kind = "delete" => Merged(o.branch, o.at)

Git(o) ==
    /\ Possible(o)
    /\ \/ RunBranch(o) \/ AddWorktree(o) \/ RemoveWorktree(o)
       \/ StageFiles(o) \/ RestoreFiles(o) \/ CommitStaged(o) \/ Integrate(o)

\* What is looked at again under the lock; a branch to be created is left to Git.
Rechecked(o) ==
    /\ Exists(o.at)
    /\ o.kind # "create" => Allowed(o)
    /\ o.kind = "delete" => Merged(o.branch, o.at)

-----------------------------------------------------------------------------
(* The calls.                                                               *)

Init ==
    /\ \E b \in Branch :
         /\ ref = [x \in Branch |-> IF x = b THEN 1 ELSE 0]
         /\ on = [w \in Worktree |-> IF w = Primary THEN b ELSE None]
    /\ past = [c \in CommitId |-> IF c = 1 THEN {1} ELSE {}]
    /\ work = [w \in Worktree |-> Clear] /\ stuck = [w \in Worktree |-> "no"]
    /\ others = 0
    /\ call = [t \in Task |-> NoOp]
    /\ behind = [t \in Task |-> None]
    /\ tail = None
    /\ disturbed = {}

\* resolvePermission asks for an approval, or the call without a token shows a preview.
Ask(t, o) ==
    /\ call[t].at = "idle"
    /\ Showable(o)
    /\ call' = [call EXCEPT ![t] = [at |-> "shown", op |-> o, seen |-> Facts(o)]]
    /\ UNCHANGED <<repository, others, behind, tail, disturbed>>

\* The user agrees and the call comes back.  Its context is resolved again: if it is another one
\* the consent does not cover it, and it is shown to the user again.
Resume(t) ==
    /\ call[t].at = "shown"
    /\ LET o == call[t].op IN
       /\ Showable(o)
       /\ call' = [call EXCEPT ![t] = IF Key(o, Facts(o)) = Key(o, @.seen)
                                      THEN [@ EXCEPT !.at = "agreed"]
                                      ELSE [@ EXCEPT !.seen = Facts(o)]]
    /\ UNCHANGED <<repository, others, behind, tail, disturbed>>

\* The user declines, or the call meets a guard that does not hold any more.
Decline(t) ==
    /\ call[t].at \in {"shown", "agreed"}
    /\ call' = [call EXCEPT ![t] = NoOp]
    /\ UNCHANGED <<repository, others, behind, tail, disturbed>>

\* The executor looks for itself and joins the chain of its process.
Enter(t) ==
    /\ call[t].at = "agreed"
    /\ Allowed(call[t].op)
    /\ call' = [call EXCEPT ![t].at = "waiting"]
    /\ behind' = [behind EXCEPT ![t] = tail]
    /\ tail' = t
    /\ UNCHANGED <<repository, others, disturbed>>

\* Mutant: whoever leaves forgets the chain, also when others wait in it.
LeaveForgetting(t) ==
    /\ behind' = [u \in Task |-> IF behind[u] = t THEN None ELSE behind[u]]
    /\ tail' = None

Leave(t) ==
    /\ behind' = [u \in Task |-> IF behind[u] = t THEN None ELSE behind[u]]
    /\ tail' = IF tail = t THEN None ELSE tail

\* Its turn has come: the snapshot is captured again.
Recheck(t) ==
    /\ call[t].at = "waiting" /\ behind[t] = None
    /\ Rechecked(call[t].op)
    /\ Key(call[t].op, Facts(call[t].op)) = Key(call[t].op, call[t].seen)
    /\ call' = [call EXCEPT ![t].at = "checked"]
    /\ disturbed' = disturbed \ {t}
    /\ UNCHANGED <<repository, others, behind, tail>>

\* The call was aborted, or the repository is not the one that was approved.
Stale(t) ==
    /\ call[t].at = "waiting" /\ behind[t] = None
    /\ call' = [call EXCEPT ![t] = NoOp]
    /\ Leave(t)
    /\ UNCHANGED <<repository, others, disturbed>>

\* Git runs, and refuses or succeeds.
Command(t) ==
    /\ call[t].at = "checked"
    /\ UNCHANGED repository \/ Git(call[t].op)
    /\ UNCHANGED <<others, disturbed>>
    /\ call' = [call EXCEPT ![t] = NoOp]
    /\ Leave(t)

\* The user edits files or stages them, moves a branch, or runs Git; so does another process.
OthersAct(ops) ==
    /\ others < MaxOthers
    /\ others' = others + 1
    /\ \/ \E w \in Worktree, area \in {"staged", "unstaged"} :
            /\ Exists(w)
            /\ work' = [work EXCEPT ![w][area] = others + 1]
            /\ UNCHANGED <<ref, past, on, stuck>>
       \/ \E b \in Branch, c \in CommitId :
            /\ NewCommit(c, past[Max(Commits)]) /\ ref' = [ref EXCEPT ![b] = c]
            /\ UNCHANGED <<on, work, stuck>>
       \/ \E o \in ops : Git(o)
    /\ disturbed' = disturbed \cup {t \in Task : call[t].at = "checked"}
    /\ UNCHANGED <<call, behind, tail>>

\* Calls of the operations ops.
GitSteps(ops) ==
    \/ \E t \in Task : \/ \E o \in ops : Ask(t, o)
                       \/ Resume(t) \/ Decline(t) \/ Enter(t)
                       \/ Recheck(t) \/ Stale(t) \/ Command(t)
    \/ OthersAct(ops)

GitNext == GitSteps(Op)

GitSpec == Init /\ [][GitNext]_gitVars

-----------------------------------------------------------------------------
(* Properties.                                                              *)

Runs(t) == call[t].at = "checked" /\ call'[t].at = "idle" /\ repository' # repository

\* A command runs on the repository, and with the commit, that the user was shown, unless somebody
\* outside its process has changed it in the moment between the last check and the command.
\* It does not hold of a rebase.
ActsAsApproved ==
    [][\A t \in Task : Runs(t) /\ t \notin disturbed /\ call[t].op.kind # "rebase"
          => Facts(call[t].op) = call[t].seen]_gitVars

\* What the message of a refused confirmation says: a rebase is confirmed for its revision.
RebaseAsConfirmed ==
    [][\A t \in Task : Runs(t) /\ t \notin disturbed /\ call[t].op.kind = "rebase"
          => call[t].seen.target = Target(call[t].op)]_gitVars
=============================================================================
