--------------------------- MODULE HistoryIntegrity ---------------------------
(***************************************************************************)
(* What a model is shown of a session: the message history, its repair and  *)
(* its budget (prepareMessagesForModel, inspectHistoryForResume), the       *)
(* summaries that replace tool results the model has read, and /compact.    *)
(*                                                                          *)
(* A turn appends its messages one at a time.  It may be interrupted, fail, *)
(* wait for an approval that never comes, or die with its process between   *)
(* any two of them; a non-blocking question is answered whenever the user   *)
(* likes; and a tool may cut the log back to a checkpoint.                  *)
(*                                                                          *)
(* A message is named by its position.  Texts are numbers of tokens.        *)
(***************************************************************************)
EXTENDS Integers, Sequences, FiniteSets, FiniteSetsExt, SequencesExt, TLC

CONSTANTS
    Budgets,     \* tokens for the history in a request (messageBudget), more or less
    Slots,       \* legacyMaxMessages
    Overhead,    \* tokens a message costs apart from its fields
    Least,       \* no tool result is trimmed below this (MIN_TOOL_MESSAGE_CHAR_LIMIT)
    ToolText,    \* sizes of tool results
    Short,       \* size of the summary of a tool result
    MaxTurns,    \* bound
    MaxMessages, \* bound
    None

VARIABLES
    history,   \* the messages of the session
    boundary,  \* the last message a history_compaction hides, 0 when there is none
    promoted,  \* tool results with a summary
    at,        \* where the session is
    turn,      \* its last turn
    todo,      \* the calls of the last group that have no result
    request,   \* the texts of the messages in the request the model is at
    question,  \* the turn with an open non-blocking question, 0 when there is none
    saved,     \* the log at the last checkpoint, None when there is none
    named,     \* whether the session record names the turn (activeTurnId)
    shown      \* history: messages that were in a request

logVars == <<history, boundary, promoted>>
historyVars == <<logVars, at, turn, todo, request, question, saved, named, shown>>

\* name, toolCallId and reasoningContent cost a token each, also when they are missing.
Fields == 3
\* A user message and a turn context are short, a call costs as much.
Small == 1

Plain(t, role) == [turn |-> t, role |-> role, calls |-> <<>>, call |-> 0, text |-> Small]
Calls(t, calls) == [Plain(t, "assistant") EXCEPT !.calls = calls]
Result(t, call, text) == [turn |-> t, role |-> "tool", calls |-> <<>>, call |-> call, text |-> text]

IsGroup(m) == m.calls # <<>>

-----------------------------------------------------------------------------
(* sanitizeMessageHistory and validateMessageHistory.                       *)

\* Message i is followed by the results of its first k calls, in order.
Follow(h, i, k) ==
    \A j \in 1..k : i + j <= Len(h) /\ h[i + j].role = "tool" /\ h[i + j].call = h[i].calls[j]

Whole(h, i) == Follow(h, i, Len(h[i].calls))

\* The group is at the end of the history and waits for more results.
Trailing(h, i) == Len(h) - i < Len(h[i].calls) /\ Follow(h, i, Len(h) - i)

Orphan(h, j) ==
    h[j].role = "tool" /\ ~\E i \in 1..(j - 1) : j - i <= Len(h[i].calls) /\ Follow(h, i, j - i)

\* Turns with a message that is dropped: an incomplete tool group, or a result without its group.
Affected(h, allowTrailing) ==
    {h[i].turn : i \in {i \in DOMAIN h : \/ /\ IsGroup(h[i]) /\ ~Whole(h, i)
                                            /\ ~(allowTrailing /\ Trailing(h, i))
                                         \/ Orphan(h, i)}}

Valid(h) == Affected(h, FALSE) = {}

StartOf(h, t) == Min({i \in DOMAIN h : h[i].turn = t})

\* Mutant: everything before the last affected turn is taken for safe.
EligibleBeforeLast(h) ==
    LET starts == {StartOf(h, t) : t \in Affected(h, FALSE)}
    IN  IF starts = {} THEN Len(h) ELSE Max(starts) - 1

\* How many messages are eligible: all, or those before the first affected turn.
Eligible(h) ==
    LET starts == {StartOf(h, t) : t \in Affected(h, FALSE)}
    IN  IF starts = {} THEN Len(h) ELSE Min(starts) - 1

\* inspectHistoryForResume: a turn that is not over cannot fall back.
Resumable(h, allowTrailing) ==
    IF allowTrailing THEN Affected(h, TRUE) = {} ELSE Valid(SubSeq(h, 1, Eligible(h)))

-----------------------------------------------------------------------------
(* prepareMessagesForModel: the budget.  A block is a plain message, or a    *)
(* tool group with its results.                                             *)

\* A call costs a token, like every other field.
Cost(m, text) == Overhead + Fields + Len(m.calls) + text
Block(h, i) == i..(i + Len(h[i].calls))
TotalCost(h, texts) == MapThenSumSet(LAMBDA i : Cost(h[i], texts[i]), DOMAIN texts)

\* rewriteMessagesForModel: a result with a summary is replaced by it when that is shorter.
Rewritten(h, summarized) ==
    [i \in DOMAIN h |-> IF i \in summarized THEN Min({Short, h[i].text}) ELSE h[i].text]

\* truncatePlainMessageToBudget: all of the message, or as much as would fit if it had no fields.
Truncated(m, text, budget) ==
    IF Cost(m, text) <= budget THEN text ELSE Min({text, Max({1, budget - Overhead})})

\* fitToolGroupToBudget: the texts of the group under the largest limit that fits.
Trimmed(h, texts, i, limit) ==
    [j \in Block(h, i) |-> IF h[j].role = "tool" THEN Min({texts[j], limit}) ELSE texts[j]]

Limits(h, texts, i, budget) ==
    {limit \in Least..Max({Least} \cup {texts[j] : j \in Block(h, i)}) :
        TotalCost(h, Trimmed(h, texts, i, limit)) <= budget}

\* Mutant: the first turn context stays.
PinnedFirst(h) ==
    LET contexts == {i \in DOMAIN h : h[i].role = "context"}
    IN  IF contexts = {} THEN 0 ELSE Min(contexts)

\* The newest turn context.
Pinned(h) ==
    LET contexts == {i \in DOMAIN h : h[i].role = "context"}
    IN  IF contexts = {} THEN 0 ELSE Max(contexts)

\* What was chosen stays when the texts of one more block join it.
Joining(more, texts) ==
    [i \in DOMAIN more \cup DOMAIN texts |-> IF i \in DOMAIN more THEN more[i] ELSE texts[i]]

\* One block more, the one that starts with message i; "ended" when no older one is looked at.
Take(h, texts, budget, i, chosen) ==
    LET left == budget - TotalCost(h, chosen.texts)
        slots == Slots - Cardinality(DOMAIN chosen.texts)
        limits == Limits(h, texts, i, left)
        text == Truncated(h[i], texts[i], left)
    IN  IF i = Pinned(h) \/ h[i].role = "tool" \/ chosen.ended THEN chosen
        ELSE IF left <= 0 \/ (slots <= 0 /\ ~IsGroup(h[i])) THEN [texts |-> chosen.texts, ended |-> TRUE]
        ELSE IF ~IsGroup(h[i])
             THEN [texts |-> Joining([j \in {i} |-> text], chosen.texts), ended |-> text < texts[i]]
        ELSE IF \/ slots < Cardinality(Block(h, i)) /\ DOMAIN chosen.texts # {}
                \/ limits = {}
             THEN chosen
        ELSE [texts |-> Joining(Trimmed(h, texts, i, Max(limits)), chosen.texts), ended |-> FALSE]

\* The newest turn context, then the blocks from the newest to the oldest: what is chosen once n
\* messages have been looked at.
Select(h, texts, budget) ==
    LET pin == [i \in {Pinned(h)} \ {0} |-> Truncated(h[i], texts[i], budget)]
        chosen[n \in 0..Len(h)] ==
            IF n = 0 THEN [texts |-> pin, ended |-> FALSE]
            ELSE Take(h, texts, budget, Len(h) + 1 - n, chosen[n - 1])
    IN  chosen[Len(h)].texts

\* The messages after the boundary.
Visible == SubSeq(history, boundary + 1, Len(history))
Shift(S) == {i - boundary : i \in {j \in S : j > boundary}}

Prepared(h, summarized, budget) ==
    LET eligible == SubSeq(h, 1, Eligible(h))
    IN  Select(eligible, Rewritten(eligible, summarized), budget)

-----------------------------------------------------------------------------
(* Turns.                                                                   *)

TypeOK ==
    /\ history \in Seq([turn : 1..MaxTurns, role : {"user", "context", "assistant", "tool"},
                        calls : Seq(Nat), call : Nat, text : Nat])
    /\ boundary \in 0..MaxMessages /\ promoted \subseteq 1..MaxMessages
    /\ at \in {"idle", "loop", "model", "tools", "asking"}
    /\ turn \in 0..MaxTurns /\ question \in 0..MaxTurns
    /\ todo \in Seq(Nat)
    /\ DOMAIN request \subseteq DOMAIN history
    /\ named \in BOOLEAN /\ shown \subseteq 1..MaxMessages

Init ==
    /\ history = <<>> /\ boundary = 0 /\ promoted = {}
    /\ at = "idle" /\ turn = 0 /\ todo = <<>> /\ request = <<>>
    /\ question = 0 /\ saved = None /\ named = FALSE /\ shown = {}

Room(n) == Len(history) + n <= MaxMessages
Appended(messages) == history' = history \o messages
Running == at \in {"loop", "model", "tools"}

\* runTurn; a session that waits for an approval accepts a prompt as well.
Ask ==
    /\ at \in {"idle", "asking"} /\ turn < MaxTurns /\ Room(1)
    /\ Resumable(history, at = "asking")
    /\ turn' = turn + 1
    /\ Appended(<<Plain(turn + 1, "user")>>)
    /\ at' = "loop" /\ todo' = <<>> /\ named' = TRUE
    /\ UNCHANGED <<boundary, promoted, request, question, saved, shown>>

\* The turn captures its context once, then the request is compiled.
Compile ==
    /\ at = "loop"
    /\ \E budget \in Budgets :
       LET new == IF \E i \in DOMAIN history : history[i] = Plain(turn, "context") THEN <<>>
                  ELSE <<Plain(turn, "context")>>
           texts == Prepared(Visible \o new, Shift(promoted), budget)
       IN  /\ Room(Len(new))
           /\ Appended(new)
           /\ request' = [i \in {j + boundary : j \in DOMAIN texts} |-> texts[i - boundary]]
    /\ at' = "model"
    /\ UNCHANGED <<boundary, promoted, turn, todo, question, saved, named, shown>>

\* Mutant: every result gets its summary.
ExposedToo == {i \in DOMAIN history : history[i].role = "tool" /\ Short < history[i].text}

\* promoteExposedToolSummaryCandidates: the results of the request that a summary would shorten.
Exposed == {i \in DOMAIN request : history[i].role = "tool" /\ Short < request[i]}

Answered ==
    /\ promoted' = promoted \cup Exposed
    /\ shown' = shown \cup DOMAIN request
    /\ request' = <<>>

\* The model answers, with a text that ends the turn or with calls.
Reply ==
    /\ at = "model" /\ Room(1)
    /\ Appended(<<Plain(turn, "assistant")>>)
    /\ Answered
    /\ at' = "idle" /\ named' = FALSE
    /\ UNCHANGED <<boundary, turn, todo, question, saved>>

CallTools ==
    /\ at = "model" /\ Room(1)
    /\ \E n \in {1, 2} :
         LET calls == [j \in 1..n |-> 2 * Len(history) + j]
         IN  Appended(<<Calls(turn, calls)>>) /\ todo' = calls
    /\ Answered
    /\ at' = "tools"
    /\ UNCHANGED <<boundary, turn, question, saved, named>>

\* A call ends and its result is recorded; a call may have made a checkpoint, or asked a
\* non-blocking question.
EndCall ==
    /\ at = "tools" /\ todo # <<>> /\ Room(1)
    /\ \E text \in ToolText : Appended(<<Result(turn, Head(todo), text)>>)
    /\ todo' = Tail(todo)
    /\ \/ UNCHANGED <<question, saved>>
       \/ question = 0 /\ question' = turn /\ UNCHANGED saved
       \/ /\ saved' = [length |-> Len(history), boundary |-> boundary, promoted |-> promoted]
          /\ UNCHANGED question
    /\ UNCHANGED <<boundary, promoted, at, turn, request, named, shown>>

\* The call of a tool that restores the conversation of a checkpoint.
UndoCall ==
    /\ at = "tools" /\ todo # <<>> /\ saved # None /\ saved.length <= Len(history)
    /\ history' = Append(SubSeq(history, 1, saved.length), Result(turn, Head(todo), Small))
    /\ boundary' = saved.boundary /\ promoted' = saved.promoted
    /\ shown' = shown \cap 1..saved.length
    /\ todo' = Tail(todo) /\ named' = FALSE
    /\ UNCHANGED <<at, turn, request, question, saved>>

CallsEnd ==
    /\ at = "tools" /\ todo = <<>>
    /\ at' = "loop"
    /\ UNCHANGED <<logVars, turn, todo, request, question, saved, named, shown>>

NeedsApproval ==
    /\ at = "tools" /\ todo # <<>>
    /\ at' = "asking" /\ named' = FALSE
    /\ UNCHANGED <<logVars, turn, todo, request, question, saved, shown>>

\* continuePendingTurn, when the approval was given.
Continue ==
    /\ at = "asking"
    /\ Resumable(history, TRUE)
    /\ at' = "tools" /\ named' = TRUE
    /\ UNCHANGED <<logVars, turn, todo, request, question, saved, shown>>

\* The turn fails, or it is interrupted and its question with it, whatever it is at.
Stop ==
    /\ at # "idle"
    /\ question' \in {question, 0}
    /\ at' = "idle" /\ todo' = <<>> /\ request' = <<>> /\ named' = FALSE
    /\ UNCHANGED <<logVars, turn, saved, shown>>

\* recoverActiveSession: the results of a call are looked for among the messages of the turn, up
\* to its next user or assistant message.
ResultsOf(i) ==
    {history[j].call : j \in {j \in (i + 1)..Len(history) :
        /\ history[j].turn = turn /\ history[j].role = "tool"
        /\ \A k \in (i + 1)..j : history[k].turn = turn => history[k].role \in {"tool", "context"}}}

Unanswered(i) ==
    {j \in DOMAIN history[i].calls : history[i].calls[j] \notin ResultsOf(i)}

\* The n-th of some positions.
Nth(S, n) == CHOOSE j \in S : Cardinality({k \in S : k < j}) = n - 1

\* The calls of the last group that has open ones get a result, in their order.
Recovered ==
    LET groups == {i \in DOMAIN history : history[i].turn = turn /\ Unanswered(i) # {}}
        last == Max(groups)
    IN  IF ~named \/ groups = {} THEN <<>>
        ELSE [n \in 1..Cardinality(Unanswered(last)) |->
                Result(turn, history[last].calls[Nth(Unanswered(last), n)], Small)]

Crash ==
    /\ Running
    /\ Room(Len(Recovered)) /\ Appended(Recovered)
    /\ at' = "idle" /\ todo' = <<>> /\ request' = <<>> /\ named' = FALSE
    /\ UNCHANGED <<boundary, promoted, turn, question, saved, shown>>

\* respondToUserInput, non-blocking: a user message of the turn that asked.
Answer ==
    /\ question # 0 /\ Room(1)
    /\ Appended(<<Plain(question, "user")>>)
    /\ question' = 0
    /\ UNCHANGED <<boundary, promoted, at, turn, todo, request, saved, named, shown>>

-----------------------------------------------------------------------------
(* compactSession.                                                          *)

TurnsOf(h) == {h[i].turn : i \in DOMAIN h}

Unread(i) ==
    /\ history[i].role = "tool" /\ i \notin promoted
    /\ \A j \in (i + 1)..Len(history) : history[j].role # "assistant"

LastTwo(h) == {t \in TurnsOf(h) : Cardinality({u \in TurnsOf(h) : StartOf(h, u) > StartOf(h, t)}) < 2}

\* Mutant: results that no response has followed are not protected.
RetainedLastTwo(h) == LastTwo(h)

\* The last two turns, and every turn from the one with the first unread result on.
Retained(h) ==
    LET unread == {i \in DOMAIN h : Unread(i + boundary)}
    IN  LastTwo(h) \cup
        {t \in TurnsOf(h) : unread # {} /\ StartOf(h, t) >= StartOf(h, h[Min(unread)].turn)}

Compact ==
    /\ at = "idle"
    /\ LET hidden == {i \in DOMAIN Visible : Visible[i].turn \notin Retained(Visible)}
       IN  /\ Cardinality(TurnsOf(Visible)) > 2 /\ hidden # {}
           /\ boundary' = boundary + Max(hidden)
    /\ UNCHANGED <<history, promoted, at, turn, todo, request, question, saved, named, shown>>

HistoryNext ==
    \/ Ask \/ Compile \/ Reply \/ CallTools \/ EndCall \/ UndoCall \/ CallsEnd
    \/ NeedsApproval \/ Continue \/ Stop \/ Crash \/ Answer \/ Compact

HistorySpec == Init /\ [][HistoryNext]_historyVars

-----------------------------------------------------------------------------
(* Properties.                                                             *)

RequestMessages ==
    [n \in 1..Cardinality(DOMAIN request) |-> history[Nth(DOMAIN request, n)]]

\* Whatever happened to the session, there is a request that can be compiled, and in it every call
\* is followed by its results and every result belongs to a call.
RequestUsable ==
    /\ at = "loop" => Valid(SubSeq(Visible, 1, Eligible(Visible)))
    /\ at = "model" => Valid(RequestMessages)

\* A result is replaced by its summary only after it was in a request the model has answered.
RawFirst == promoted \subseteq shown

\* Messages are in the order of their turns: no question was answered after its turn.
InOrder == \A i, j \in DOMAIN history : i < j => history[i].turn <= history[j].turn

\* What /compact hides is older than the last two turns, and its results have been followed by a
\* response, as long as no question was answered after its turn.
CompactionKeeps ==
    [][boundary' > boundary /\ InOrder
         => \A i \in (boundary + 1)..boundary' :
              /\ Cardinality({history[j].turn : j \in (i + 1)..Len(history)} \ {history[i].turn}) >= 2
              /\ ~Unread(i)]_historyVars

RequestCost == MapThenSumSet(LAMBDA i : Cost(history[i], request[i]), DOMAIN request)

\* A request has the newest context of the eligible history, trims no result below the least that
\* is left of one, and exceeds its budget by no more than a message that has only a name.
RequestFits ==
    at = "model" =>
        /\ \A i \in 1..Eligible(Visible) :
             Visible[i] = Plain(turn, "context") => i + boundary \in DOMAIN request
        /\ \A i \in DOMAIN request :
             history[i].role = "tool" => request[i] >= Min({Least, Short, history[i].text})
        /\ RequestCost <= Max(Budgets) + Overhead + Fields

\* The request a model is at has the prompt of its turn.  The code breaks this: the whole turn of
\* a message that is dropped is left out, and every turn after it.
RequestReachesModel ==
    at = "model" => \E i \in DOMAIN request : history[i] = Plain(turn, "user")

\* What waits for an approval can be continued with it.  The code breaks this: an incomplete tool
\* group of an earlier turn blocks the continuation.
ApprovalContinues == at = "asking" => Resumable(history, TRUE)

=============================================================================
