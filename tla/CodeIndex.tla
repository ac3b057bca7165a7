------------------------------- MODULE CodeIndex -------------------------------
(***************************************************************************)
(* The local code index (tool-runtime, local-code-index.ts) and the tools   *)
(* that answer from it: semantic_search, local or by an external provider,  *)
(* code_symbols, and go_to_definition and find_references.                  *)
(*                                                                         *)
(* All tools of a process share one index.  It is refreshed by one call at  *)
(* a time (a queue of promises), file after file, while files change and    *)
(* other calls look records up, compare them with the file and mark the     *)
(* index stale.  A language server's answer counts as exact only if the     *)
(* index before the question and a refresh after it agree.                  *)
(*                                                                         *)
(* A state of a file is the number of the change that made it (its time of  *)
(* modification), 0 where there is no file; two states can have the same    *)
(* text.  Files are numbered in the order of their paths.                   *)
(***************************************************************************)
EXTENDS Integers, FiniteSets, Sequences

CONSTANTS
    File,        \* the paths of the workspace, numbers
    Ignored,     \* those that .gitignore, a protected name or an excluded folder hides
    Bulky,       \* the states in which a file is larger than maxFileBytes
    MaxFiles,    \* how many files the index may hold: the limits it can be configured with
    MaxShared,   \* how many snippets an external provider is given
    PageSize,    \* how many items fit on a page
    Scopes,      \* the sets of paths that calls ask about
    Call,        \* the tool calls
    MaxTurns,    \* bound on the calls and on what changes from outside
    MaxPages,    \* bound on the pages a call asks for
    None

VARIABLES
    disk,     \* disk[f]: the state of a file
    repo,     \* the state of Git's HEAD, refs and index
    limit,    \* the configured one of MaxFiles
    policy,   \* the external provider of the settings
    turns,    \* what changed from outside so far
    index,    \* the index in memory
    saved,    \* the state file
    queue,    \* the refreshes that wait: the calls
    build,    \* the refresh that runs, or None
    call,     \* call[c]: a tool call
    seen      \* seen[c][f]: the states a file had since the call began, or asked the server

indexVars == <<limit, disk, repo, policy, turns, index, saved, queue, build, call, seen>>

Tool == {"search", "external", "symbols", "navigate"}
Absent == [f \in File |-> 0]

\* The text of a state: changes 1 and 3 leave a file with the same one.
Text(v) == v % 2
\* HEAD, the ref it names, the packed refs, the index and its lock (defaultGitRepositoryFingerprint).
RepositoryFingerprint == repo
\* The strictly decoded content of a file that is small enough (strictUtf8File).
Fits(v) == v # 0 /\ v \notin Bulky

(***************************************************************************)
(* The index.  Its version names the repository's state, the files and the  *)
(* generation; what a lookup does to a record does not change the version.  *)
(***************************************************************************)
Version(x) == [repo |-> x.repo, files |-> x.files, gen |-> x.gen]

Empty == [records |-> Absent, files |-> Absent, repo |-> 0, gen |-> 0,
          stale |-> TRUE, truncated |-> FALSE]

\* markFileLookupStale: the record that was looked up is put back, marked.
Marked(f, held) == [index EXCEPT !.records[f] = held, !.stale = TRUE]

(***************************************************************************)
(* A call.  Its "book" is what it was given of the list that its first page *)
(* began: "all" is that list, "given" the pages so far.                     *)
(***************************************************************************)
NoCall == [phase |-> "idle", tool |-> None, scope |-> {}, snap |-> None, saw |-> Absent,
           check |-> None, todo |-> {}, approved |-> None, sent |-> None,
           answer |-> None, book |-> None, pages |-> 0]

IndexInit ==
    /\ disk \in [File -> {0, 1}] /\ disk[1] = 1
    /\ limit \in MaxFiles
    /\ repo = 0 /\ policy = 0 /\ turns = 1
    /\ index = Empty /\ saved = None /\ queue = <<>> /\ build = None
    /\ call = [c \in Call |-> NoCall]
    /\ seen = [c \in Call |-> [f \in File |-> {}]]

\* What a call refreshes: navigation the whole workspace, the others what they report on.
RefreshScope(k) == IF k.tool = "navigate" THEN File ELSE k.scope

\* The least file of a set: records, candidates and checks are taken in the order of the paths.
Least(S) == CHOOSE f \in S : \A g \in S : f <= g
FirstFiles(S, n) == {f \in S : Cardinality({g \in S : g < f}) < n}

(***************************************************************************)
(* Answers and pages (pagination.ts): a cursor holds the tool, the index    *)
(* version, the digest of the request and the offset.  code_symbols and the *)
(* external search put into it how the list was found, navigation does not. *)
(***************************************************************************)
NthFile(S, n) == CHOOSE f \in S : Cardinality({g \in S : g < f}) = n - 1
Listed(items) ==
    LET there == {f \in File : items[f] # 0}
    IN  [n \in 1..Cardinality(there) |-> <<NthFile(there, n), items[NthFile(there, n)]>>]

\* Mutant: a cursor is bound to the request and not to the version of the index.
BindingOfRequest(k, answer) == [version |-> None, how |-> <<"any">>]

Binding(k, answer) ==
    [version |-> answer.version, how |-> IF k.tool = "navigate" THEN <<"any">> ELSE answer.how]

Failed(k) == [NoCall EXCEPT !.phase = "failed"]

Paged(k, answer) ==
    LET all == Listed(answer.items)
        from == IF k.book = None THEN 0 ELSE Len(k.book.given)
        upto == IF from + PageSize < Len(all) THEN from + PageSize ELSE Len(all)
        page == SubSeq(all, from + 1, upto)
        done == [k EXCEPT !.phase = "answered", !.answer = answer, !.check = None, !.sent = None,
                          !.snap = IF answer.exact THEN @ ELSE None,
                          !.saw = IF answer.exact THEN @ ELSE Absent]
        first == [binding |-> Binding(k, answer), all |-> all, given |-> page, more |-> upto < Len(all)]
    IN  IF k.book = None
        THEN [done EXCEPT !.book = first]
        ELSE IF k.book.binding # Binding(k, answer) \/ from > Len(all)
        THEN Failed(k)                                                  \* invalid_cursor
        ELSE [done EXCEPT !.book.given = @ \o page, !.book.more = upto < Len(all)]

Within(k, records) == [f \in File |-> IF f \in k.scope THEN records[f] ELSE 0]

Approximate(items, stale, total, snap) ==
    [items |-> items, exact |-> FALSE, stale |-> stale, total |-> total,
     how |-> <<"index">>, version |-> Version(snap)]

\* localRank: what matches of the snapshot's files in the scopes; the envelope says "not stale".
LocalRank(k, snap) == Approximate(Within(k, snap.records), FALSE, ~snap.truncated, snap)

\* collectFallbackSymbols: the symbols and the lexical candidates of the files in the scope.
FallbackSymbols(k, snap) == Approximate(Within(k, snap.records), FALSE, ~snap.truncated, snap)

\* fallbackNavigation: all files that have the name; without a record of the file, no claim.
FallbackNavigation(snap) == Approximate(snap.records, snap.stale, FALSE, snap)
NoClaim(snap) == Approximate(Absent, TRUE, FALSE, snap)

\* What the server named, as the snapshot has it: navigation relies on the server for the total.
FromServer(k, snap) ==
    [items |-> [f \in File |-> IF f \in k.scope /\ k.saw[f] # 0 THEN snap.records[f] ELSE 0],
     exact |-> TRUE, stale |-> FALSE, total |-> (k.tool = "navigate") \/ ~snap.truncated,
     how |-> <<"server">>, version |-> Version(snap)]

Set(c, k) == call' = [call EXCEPT ![c] = k]
Goes(c, phase) == [call[c] EXCEPT !.phase = phase]

\* Another refresh of the call, behind those that wait.
Refresh(c, k, phase) ==
    /\ Set(c, [k EXCEPT !.phase = phase])
    /\ queue' = Append(queue, c)

(***************************************************************************)
(* A call begins, or asks for the next page with the cursor it was given.   *)
(***************************************************************************)
Ask(c, tool, scope) ==
    /\ call[c].phase = "idle" /\ turns < MaxTurns
    /\ tool = "navigate" => Cardinality(scope) = 1
    /\ Refresh(c, [NoCall EXCEPT !.tool = tool, !.scope = scope, !.pages = 1,
                                 !.approved = policy], "first")
    /\ turns' = turns + 1
    /\ seen' = [seen EXCEPT ![c] = [f \in File |-> {disk[f]}]]
    /\ UNCHANGED <<disk, repo, policy, index, saved, build>>

NextPage(c) ==
    /\ call[c].phase = "answered" /\ call[c].book.more /\ call[c].pages < MaxPages
    /\ Refresh(c, [NoCall EXCEPT !.tool = call[c].tool, !.scope = call[c].scope,
                                 !.book = call[c].book, !.pages = call[c].pages + 1,
                                 !.approved = policy], "first")
    /\ seen' = [seen EXCEPT ![c] = [f \in File |-> {disk[f]}]]
    /\ UNCHANGED <<disk, repo, policy, turns, index, saved, build>>

(***************************************************************************)
(* refreshInternal.  Whether it is full is decided when its turn comes.     *)
(***************************************************************************)
BeginRefresh ==
    /\ build = None /\ queue # <<>>
    /\ LET c == Head(queue)
           full == index.stale \/ RefreshScope(call[c]) = File
       IN  build' = [by |-> c, full |-> full, step |-> "walk", repo |-> RepositoryFingerprint, todo |-> {},
                     scope |-> IF full THEN File ELSE RefreshScope(call[c]),
                     big |-> {}, cut |-> FALSE,
                     working |-> IF full THEN Absent ELSE index.records]
    /\ queue' = Tail(queue)
    /\ UNCHANGED <<disk, repo, policy, turns, index, saved, call, seen>>

\* Mutant: an incremental refresh keeps the records of files that are gone.
WalkKeepingGone ==
    /\ build # None /\ build.step = "walk"
    /\ LET there == {f \in build.scope \ Ignored : disk[f] # 0}
           found == IF build.scope = File THEN FirstFiles(there, limit) ELSE there
       IN  build' = [build EXCEPT !.step = "read", !.todo = found,
                                  !.big = {f \in found : disk[f] \in Bulky}, !.cut = found # there]
    /\ UNCHANGED <<disk, repo, policy, turns, index, saved, queue, call, seen>>

\* collectCandidates: the files there are, up to the capacity when a folder is walked; in an
\* incremental refresh the records of the scope that are none are dropped.
Walk ==
    /\ build # None /\ build.step = "walk"
    /\ LET there == {f \in build.scope \ Ignored : disk[f] # 0}
           found == IF build.scope = File THEN FirstFiles(there, limit) ELSE there
       IN  build' = [build EXCEPT
             !.step = "read", !.todo = found, !.big = {f \in found : disk[f] \in Bulky},
             !.cut = found # there,
             !.working = [f \in File |-> IF f \in build.scope \ found THEN 0 ELSE @[f]]]
    /\ UNCHANGED <<disk, repo, policy, turns, index, saved, queue, call, seen>>

\* The loop over the candidates: a file is not read when it is too large or the index full.
Admitted(b, f) ==
    f \notin b.big /\ Cardinality({g \in File \ {f} : b.working[g] # 0}) < limit

\* indexCandidate: the file is read as it is now.
ReadCandidate ==
    /\ build # None /\ build.step = "read" /\ build.todo # {}
    /\ LET f == Least(build.todo)
           kept == Admitted(build, f) /\ Fits(disk[f])
       IN  build' = [build EXCEPT !.todo = @ \ {f}, !.cut = @ \/ ~kept,
                                  !.working[f] = IF kept THEN disk[f] ELSE 0]
    /\ UNCHANGED <<disk, repo, policy, turns, index, saved, queue, call, seen>>

\* Mutant: skipped files do not make the index truncated.
NextIndexUncut(b) ==
    [records |-> b.working, files |-> b.working, repo |-> b.repo,
     gen |-> IF b.working # index.files \/ b.repo # index.repo THEN index.gen + 1 ELSE index.gen,
     stale |-> FALSE, truncated |-> FALSE]

\* The next index: a new generation when the files, the repository or the truncation changed.
NextIndex(b) ==
    LET truncated == (~b.full /\ index.truncated) \/ b.cut
        changed == \/ b.working # index.files
                   \/ b.repo # index.repo
                   \/ truncated # index.truncated
    IN  [records |-> b.working, files |-> b.working, repo |-> b.repo,
         gen |-> IF changed THEN index.gen + 1 ELSE index.gen,
         stale |-> FALSE, truncated |-> truncated]

\* The state file is published before the index in memory is replaced.
Save ==
    /\ build # None /\ build.step = "read" /\ build.todo = {}
    /\ saved' = NextIndex(build)
    /\ build' = [build EXCEPT !.step = "commit"]
    /\ UNCHANGED <<disk, repo, policy, turns, index, queue, call, seen>>

\* Mutant: only the index as it was before the question has to be fresh.
AgreesBefore(snap, now) == ~snap.stale

\* The snapshots before and after the server's answer agree.
Agrees(snap, now) ==
    ~snap.stale /\ ~now.stale /\ Version(snap) = Version(now)

\* The targets of the server's answer: code_symbols leaves out what is not indexed.
Targets(k, snap) ==
    {f \in k.scope : k.saw[f] # 0 /\ (k.tool = "symbols" => snap.records[f] # 0)}

\* Their content hashes are those of the snapshot's records.
TargetsMatch(k, snap) ==
    \A f \in Targets(k, snap) : snap.records[f] # 0 /\ Text(k.saw[f]) = Text(snap.records[f])

\* What a call does with the index that its refresh left: "third" means that the server's answer
\* is refused and a fallback is to be made from yet another refresh.
Continue(k, snap) ==
    CASE k.phase = "first" /\ k.tool = "search" -> Paged(k, LocalRank(k, snap))
      [] k.phase = "first" /\ k.tool = "external" -> [k EXCEPT !.phase = "sharing", !.snap = snap]
      [] k.phase = "first" /\ k.tool = "symbols" -> [k EXCEPT !.phase = "asking", !.snap = snap]
      [] k.phase = "first" /\ k.tool = "navigate" -> [k EXCEPT !.phase = "lookup"]
      [] k.phase = "second" ->
           IF Agrees(k.snap, snap) /\ TargetsMatch(k, snap)
           THEN [k EXCEPT !.phase = "verify",
                          !.todo = Targets(k, snap) \cup (IF k.tool = "navigate" THEN k.scope ELSE {})]
           ELSE [k EXCEPT !.phase = "third"]
      [] k.phase = "third" /\ k.tool = "navigate" ->
           IF \E f \in k.scope : snap.records[f] # 0
           THEN [k EXCEPT !.phase = "origin again", !.snap = snap]
           ELSE Paged(k, NoClaim(snap))
      [] k.phase = "third" /\ k.tool # "navigate" -> Paged(k, FallbackSymbols(k, snap))

\* The index is replaced, the promise resolves and its caller takes the snapshot.
Commit ==
    /\ build # None /\ build.step = "commit"
    /\ LET c == build.by
           k == Continue(call[c], saved)
       IN  /\ Set(c, k)
           /\ seen' = IF k.phase = "asking" THEN [seen EXCEPT ![c] = [f \in File |-> {disk[f]}]]
                      ELSE seen
           /\ queue' = IF k.phase = "third" THEN Append(queue, c) ELSE queue
    /\ index' = saved
    /\ build' = None
    /\ UNCHANGED <<disk, repo, policy, turns, saved>>

\* A refresh is aborted or exceeds its time; the state file may be published already.  The
\* semantic search then reads the files itself; after a question a second refresh that fails is
\* followed by a third, and without that the call fails.
Interrupted ==
    /\ build # None
    /\ LET c == build.by IN
       IF call[c].phase = "second"
       THEN Refresh(c, call[c], "third")
       ELSE /\ Set(c, IF call[c].tool = "search" THEN Goes(c, "lexical") ELSE Failed(call[c]))
            /\ UNCHANGED queue
    /\ build' = None
    /\ UNCHANGED <<disk, repo, policy, turns, index, saved, seen>>

\* lexicalFallback: the files of the scope, each as it is when it is read; its version is the
\* digest of what was read.
Lexical(c) ==
    /\ call[c].phase = "lexical"
    /\ \E got \in [File -> UNION {seen[c][f] : f \in File}] :
         /\ \A f \in File : got[f] \in seen[c][f]
         /\ LET items == [f \in File |-> IF f \in call[c].scope \ Ignored /\ Fits(got[f]) THEN got[f] ELSE 0]
            IN  Set(c, Paged(call[c],
                  [items |-> items, exact |-> FALSE, stale |-> FALSE,
                   total |-> \A f \in call[c].scope \ Ignored : got[f] \notin Bulky,
                   how |-> <<"lexical">>, version |-> [repo |-> None, files |-> items, gen |-> 0]]))
    /\ UNCHANGED <<disk, repo, policy, turns, index, saved, queue, build, seen>>

(***************************************************************************)
(* A record is compared with its file: the record is taken, the file read,  *)
(* and only then the index is changed (getFile and validateRanges).         *)
(***************************************************************************)
TakeRecord(c, f, phase) ==
    Set(c, [Goes(c, phase) EXCEPT !.check = [file |-> f, held |-> index.records[f]]])

Differs(check) == disk[check.file] # check.held

\* getFile: without a record navigation makes no claim.
LookUp(c) ==
    /\ call[c].phase = "lookup"
    /\ \E f \in call[c].scope :
         IF index.records[f] = 0 THEN Set(c, Paged(call[c], NoClaim(index)))
         ELSE TakeRecord(c, f, "looking")
    /\ UNCHANGED <<disk, repo, policy, turns, index, saved, queue, build, seen>>

LookedUp(c) ==
    /\ call[c].phase = "looking"
    /\ LET check == call[c].check
           now == IF index.stale \/ Differs(check) THEN Marked(check.file, check.held) ELSE index
       IN  /\ index' = now
           /\ Set(c, [Goes(c, "origin") EXCEPT !.snap = now])
    /\ UNCHANGED <<disk, repo, policy, turns, saved, queue, build, seen>>

\* The record of the file is taken, and the file is being read.
Reading(phase) == CASE phase = "origin" -> "origin, reading"
                    [] phase = "origin again" -> "origin again, reading"
                    [] phase = "verify" -> "verify, reading"

\* validateRanges begins: not without a record, and not on a stale index.
Validate(c) ==
    LET k == call[c]
        f == IF k.phase = "verify" THEN Least(k.todo) ELSE CHOOSE g \in k.scope : TRUE
    IN
    /\ k.phase \in {"origin", "origin again"} \/ (k.phase = "verify" /\ k.todo # {})
    /\ IF index.records[f] # 0 /\ ~index.stale
       THEN TakeRecord(c, f, Reading(k.phase)) /\ UNCHANGED queue
       ELSE IF k.phase = "verify" THEN Refresh(c, k, "third")
       ELSE Set(c, Failed(k)) /\ UNCHANGED queue                           \* invalid_position
    /\ UNCHANGED <<disk, repo, policy, turns, index, saved, build, seen>>

\* It ends: the origin of the question, the origin after the last refresh, or a target.
OriginValidated(c) ==
    /\ call[c].phase = "origin, reading"
    /\ LET check == call[c].check IN
       IF Differs(check)
       THEN index' = Marked(check.file, check.held) /\ Set(c, Failed(call[c])) /\ UNCHANGED seen
       ELSE /\ UNCHANGED index
            /\ IF call[c].snap.stale
               THEN Set(c, Paged(call[c], FallbackNavigation(call[c].snap))) /\ UNCHANGED seen
               ELSE Set(c, Goes(c, "asking")) /\ seen' = [seen EXCEPT ![c] = [f \in File |-> {disk[f]}]]
    /\ UNCHANGED <<disk, repo, policy, turns, saved, queue, build>>

OriginValidatedAgain(c) ==
    /\ call[c].phase = "origin again, reading"
    /\ LET check == call[c].check IN
       IF Differs(check)
       THEN index' = Marked(check.file, check.held) /\ Set(c, Failed(call[c]))
       ELSE UNCHANGED index /\ Set(c, Paged(call[c], FallbackNavigation(call[c].snap)))
    /\ UNCHANGED <<disk, repo, policy, turns, saved, queue, build, seen>>

TargetValidated(c) ==
    /\ call[c].phase = "verify, reading"
    /\ LET check == call[c].check IN
       IF Differs(check)
       THEN index' = Marked(check.file, check.held) /\ Refresh(c, call[c], "third")
       ELSE /\ UNCHANGED <<index, queue>>
            /\ Set(c, [Goes(c, "verify") EXCEPT !.todo = @ \ {check.file}])
    /\ UNCHANGED <<disk, repo, policy, turns, saved, build, seen>>

(***************************************************************************)
(* The language server reads the files itself, after it was asked.          *)
(***************************************************************************)
ServerAnswers(c) ==
    /\ call[c].phase = "asking"
    /\ \E saw \in [File -> UNION {seen[c][f] : f \in File}] :
         /\ \A f \in File : saw[f] \in seen[c][f]
         /\ Refresh(c, [call[c] EXCEPT !.saw = saw], "second")
    /\ UNCHANGED <<disk, repo, policy, turns, index, saved, build, seen>>

\* It is not there, fails, says that it is stale, or answers malformed.
ServerFails(c) ==
    /\ call[c].phase = "asking"
    /\ Refresh(c, call[c], "third")
    /\ UNCHANGED <<disk, repo, policy, turns, index, saved, build, seen>>

\* All ranges are valid; navigation looks at the index once more.
Exact(c) ==
    /\ call[c].phase = "verify" /\ call[c].todo = {}
    /\ IF call[c].tool = "navigate" /\ ~Agrees(call[c].snap, index)
       THEN Refresh(c, call[c], "third")
       ELSE Set(c, Paged(call[c], FromServer(call[c], call[c].snap))) /\ UNCHANGED queue
    /\ UNCHANGED <<disk, repo, policy, turns, index, saved, build, seen>>

(***************************************************************************)
(* The external provider: the settings are resolved again and compared with *)
(* what was approved, and the flag is set before the call goes out.         *)
(***************************************************************************)
Candidates(k) == FirstFiles({f \in k.scope : k.snap.records[f] # 0}, MaxShared)

\* assertExternalApprovalBinding: what the settings resolve to now is what was approved.
StillApproved(c) == policy = call[c].approved

Share(c) ==
    /\ call[c].phase = "sharing"
    /\ IF ~StillApproved(c) THEN Set(c, Failed(call[c]))
       ELSE IF Candidates(call[c]) = {}
       THEN Set(c, Paged(call[c], Approximate(Absent, FALSE, ~call[c].snap.truncated, call[c].snap)))
       ELSE Set(c, [Goes(c, "shared") EXCEPT !.sent = policy])
    /\ UNCHANGED <<disk, repo, policy, turns, index, saved, queue, build, seen>>

\* It ranks some of the candidates, each once; or it fails.
Ranked(c) ==
    /\ call[c].phase = "shared"
    /\ \E ranked \in SUBSET Candidates(call[c]) :
         LET snap == call[c].snap
             items == [f \in File |-> IF f \in ranked THEN snap.records[f] ELSE 0]
         IN  Set(c, Paged(call[c],
               [items |-> items, exact |-> FALSE, stale |-> FALSE,
                total |-> /\ ranked = {f \in call[c].scope : snap.records[f] # 0}
                          /\ ~snap.truncated,
                how |-> <<"external", items>>, version |-> Version(snap)]))
    /\ UNCHANGED <<disk, repo, policy, turns, index, saved, queue, build, seen>>

RankFails(c) ==
    /\ call[c].phase = "shared"
    /\ Set(c, Failed(call[c]))
    /\ UNCHANGED <<disk, repo, policy, turns, index, saved, queue, build, seen>>

(***************************************************************************)
(* What happens outside.                                                    *)
(***************************************************************************)
Running(c) == call[c].phase \notin {"idle", "answered", "failed"}

\* A file is written (with a time of its own) or removed.
Edit(f) ==
    /\ turns < MaxTurns
    /\ turns' = turns + 1
    /\ \E v \in {0, turns + 1} :
         /\ v # disk[f]
         /\ disk' = [disk EXCEPT ![f] = v]
         /\ seen' = [c \in Call |-> IF Running(c) THEN [seen[c] EXCEPT ![f] = @ \cup {v}] ELSE seen[c]]
    /\ UNCHANGED <<repo, policy, index, saved, queue, build, call>>

CommitOrReconfigure ==
    /\ turns < MaxTurns
    /\ turns' = turns + 1
    /\ \/ repo' = repo + 1 /\ UNCHANGED policy
       \/ policy' = policy + 1 /\ UNCHANGED repo
    /\ UNCHANGED <<disk, index, saved, queue, build, call, seen>>

\* The process ends; the next one opens the state file and takes the index for stale.
Reopen ==
    /\ turns < MaxTurns /\ index # Empty
    /\ turns' = turns + 1
    /\ index' = IF saved = None THEN Empty ELSE [saved EXCEPT !.stale = TRUE]
    /\ queue' = <<>> /\ build' = None
    /\ call' = [c \in Call |-> NoCall]
    /\ UNCHANGED <<disk, repo, policy, saved, seen>>

IndexNext ==
    /\ UNCHANGED limit
    /\ \/ \E c \in Call :
            \/ \E tool \in Tool, scope \in Scopes : Ask(c, tool, scope)
            \/ NextPage(c)
            \/ Lexical(c) \/ LookUp(c) \/ LookedUp(c)
            \/ Validate(c) \/ OriginValidated(c) \/ OriginValidatedAgain(c) \/ TargetValidated(c)
            \/ ServerAnswers(c) \/ ServerFails(c) \/ Exact(c)
            \/ Share(c) \/ Ranked(c) \/ RankFails(c)
       \/ BeginRefresh \/ Walk \/ ReadCandidate \/ Save \/ Commit \/ Interrupted
       \/ \E f \in File : Edit(f)
       \/ CommitOrReconfigure \/ Reopen

(***************************************************************************)
(* Properties.                                                              *)
(***************************************************************************)
Answered(c) == call[c].phase = "answered" /\ call[c].answer # None

\* What an answer that is not marked stale shows of a file, the file held while the call ran.
AnswersAreCurrent ==
    \A c \in Call : Answered(c) /\ ~call[c].answer.stale =>
        \A f \in File : call[c].answer.items[f] \in {0} \cup seen[c][f]

\* An answer whose total is said to be exact, and that is not the server's own, leaves no file of
\* its scope out that was there, unchanged, all the time.
TotalsAreTotal ==
    \A c \in Call : Answered(c) /\ call[c].answer.total =>
        \A f \in call[c].scope \ Ignored :
            \A v \in seen[c][f] : seen[c][f] = {v} => call[c].answer.items[f] = v

\* An exact answer is about one state of the index: the server saw the text of every record in
\* the scope of the question, for navigation of every record.
ExactIsOneState ==
    \A c \in Call : Answered(c) /\ call[c].answer.exact =>
        \A f \in RefreshScope(call[c]) :
            call[c].snap.records[f] # 0 => Text(call[c].saw[f]) = Text(call[c].snap.records[f])

\* Snippets go to the provider that was approved.
SharedAsApproved ==
    \A c \in Call : call[c].sent # None => call[c].sent = call[c].approved

\* The pages that a cursor strings together are the list that the first page began, without a
\* gap or a repetition; for navigation only while the lists are found in one way.
PagesJoin ==
    \A c \in Call : Answered(c) /\ call[c].tool # "navigate" =>
        LET book == call[c].book IN
        /\ book.given = SubSeq(book.all, 1, Len(book.given))
        /\ ~book.more => book.given = book.all

IndexSound ==
    AnswersAreCurrent /\ TotalsAreTotal /\ ExactIsOneState /\ SharedAsApproved /\ PagesJoin
=============================================================================
