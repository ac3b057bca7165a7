----------------------------- MODULE LiveMessages -----------------------------
(***************************************************************************)
(* What the desktop shows of a running turn: the events of the run (text,   *)
(* tool batches, tool starts and ends), projected into assistant phases     *)
(* (live-message-flow.ts), and every 800 ms a snapshot of what is stored    *)
(* (display-history.ts), merged with the phases that only the renderer has. *)
(*                                                                         *)
(* The run sends events while it goes on; Electron delivers what the main   *)
(* process sends in the order it was sent.  A snapshot is read, then sent,  *)
(* then merged.  A chunk of text is a number, in the order it was said; so  *)
(* no two responses have the same text, unless both have none.              *)
(***************************************************************************)
EXTENDS Integers, FiniteSets, Sequences, FiniteSetsExt, SequencesExt

CONSTANTS
    MaxChunks,     \* bound on the chunks of text
    MaxResponses,  \* bound on the responses of the model
    MaxTools,      \* bound on the tool calls
    MaxPolls,  \* bound on the snapshots that are polled
    MaxAway,       \* bound on leaving the session and returning to it
    MaxWire,       \* bound on what is under way
    None

VARIABLES
    run,       \* the turn in the main process
    store,     \* the records of the session
    wire,      \* what is sent to the renderer and not yet delivered
    snapshot,  \* the snapshot that was read and not yet sent, "asked" before that, or None
    messages,  \* the messages on display, or None while another session is on display
    flow,      \* the renderer's LiveMessageFlowState
    counts,    \* bounds: snapshots, departures
    heard,     \* the chunks delivered since the display was last built from the store
    torn       \* chunks of responses that were abandoned or joined in the middle

liveVars == <<run, store, wire, snapshot, messages, flow, counts, heard, torn>>

UserId == <<"stored", 0>>

(***************************************************************************)
(* The turn as the governor runs it (runModelLoop, executeRecordedToolCall).*)
(***************************************************************************)
LiveInit ==
    /\ run = [phase |-> "stream", n |-> 1, said |-> <<>>, calls |-> <<>>, buffered |-> FALSE,
              broken |-> FALSE, recovered |-> FALSE, chunks |-> 0, tools |-> 0]
    /\ store = [records |-> <<[id |-> UserId, role |-> "user", text |-> <<0>>, calls |-> <<>>]>>,
                done |-> {}]
    /\ wire = <<>> /\ snapshot = None
    /\ messages = <<[id |-> <<"local", 0>>, turn |-> <<"live", 1>>, role |-> "user", text |-> <<0>>,
                     tools |-> <<>>, streaming |-> FALSE]>>
    /\ flow = [run |-> 1, turn |-> <<"live", 1>>, next |-> 1, active |-> None, hasTools |-> FALSE,
               fresh |-> FALSE, batch |-> <<>>, ids |-> {}]
    /\ counts = [snapshots |-> 0, away |-> 0]
    /\ heard = {} /\ torn = {}

shown == <<messages, flow, heard>>

\* Text of the provider's stream; while a recovery is likely it is held back.
Speak ==
    /\ run.phase = "stream" /\ run.chunks < MaxChunks
    /\ LET chunk == run.chunks + 1 IN
       /\ run' = [run EXCEPT !.chunks = chunk, !.said = Append(@, chunk)]
       /\ wire' = IF run.buffered THEN wire
                  ELSE Append(wire, [type |-> "text", chunks |-> <<chunk>>])
       /\ torn' = IF run.broken THEN torn \cup {chunk} ELSE torn
    /\ UNCHANGED <<store, snapshot, shown, counts>>

\* A stream that fell silent, or a response not to go on with, is dropped and asked for again,
\* with an instruction: the text of the next one is held back.
Abandon ==
    /\ run.phase = "stream" /\ ~run.recovered
    /\ torn' = torn \cup ToSet(run.said)
    /\ run' = [run EXCEPT !.said = <<>>, !.buffered = TRUE, !.recovered = TRUE,
                       !.broken = @ \/ (~run.buffered /\ run.said # <<>>)]
    /\ UNCHANGED <<store, wire, snapshot, shown, counts>>

\* The response is complete: held-back text is sent in one piece.
Respond(calls) ==
    /\ run.phase = "stream" /\ run.said \o calls # <<>>
    /\ run' = [run EXCEPT !.phase = "store", !.calls = calls, !.tools = @ + Len(calls)]
    /\ wire' = IF run.buffered /\ run.said # <<>> THEN Append(wire, [type |-> "text", chunks |-> run.said])
               ELSE wire
    /\ UNCHANGED <<store, snapshot, shown, counts, torn>>

StoreResponse ==
    /\ run.phase = "store"
    /\ store' = [store EXCEPT !.records =
         Append(@, [id |-> <<"stored", run.n>>, role |-> "assistant", text |-> run.said, calls |-> run.calls])]
    /\ run' = [run EXCEPT !.phase = "batch"]
    /\ UNCHANGED <<wire, snapshot, shown, counts, torn>>

\* onToolBatchStart; a turn that goes on after an approval announces the calls left once more.
StartBatch ==
    /\ run.phase \in {"batch", "resumed"}
    /\ IF run.calls = <<>> THEN run' = [run EXCEPT !.phase = "over"] /\ UNCHANGED wire
       ELSE /\ run' = [run EXCEPT !.phase = "tool"]
            /\ wire' = Append(wire, [type |-> "batch", id |-> <<"stored", run.n>>, calls |-> run.calls])
    /\ UNCHANGED <<store, snapshot, shown, counts, torn>>

StartTool ==
    /\ run.phase = "tool"
    /\ run' = [run EXCEPT !.phase = "running"]
    /\ wire' = Append(wire, [type |-> "start", call |-> Head(run.calls)])
    /\ UNCHANGED <<store, snapshot, shown, counts, torn>>

\* The call waits for an approval: the event ends the live phases.
Pause ==
    /\ run.phase = "running"
    /\ run' = [run EXCEPT !.phase = "paused"]
    /\ wire' = Append(wire, [type |-> "complete"])
    /\ UNCHANGED <<store, snapshot, shown, counts, torn>>

Resume ==
    /\ run.phase = "paused"
    /\ run' = [run EXCEPT !.phase = "resumed"]
    /\ UNCHANGED <<store, wire, snapshot, shown, counts, torn>>

\* onToolEnd, and only then the tool's record.
EndTool ==
    /\ run.phase = "running"
    /\ run' = [run EXCEPT !.phase = "record"]
    /\ wire' = Append(wire, [type |-> "end", call |-> Head(run.calls)])
    /\ UNCHANGED <<store, snapshot, shown, counts, torn>>

\* A failed tool is followed by a request with a recovery instruction.
RecordTool ==
    /\ run.phase = "record"
    /\ store' = [store EXCEPT !.done = @ \cup {Head(run.calls)}]
    /\ LET left == Tail(run.calls) IN
       IF left # <<>> THEN run' = [run EXCEPT !.phase = "tool", !.calls = left]
       ELSE /\ run.n < MaxResponses
            /\ \E failed \in BOOLEAN :
                 run' = [run EXCEPT !.phase = "stream", !.n = @ + 1, !.said = <<>>, !.calls = <<>>,
                                    !.buffered = failed, !.broken = FALSE]
    /\ UNCHANGED <<wire, snapshot, shown, counts, torn>>

(***************************************************************************)
(* The display.                                                             *)
(***************************************************************************)
NewFlow(turn) ==
    [run |-> flow.run + 1, turn |-> turn, next |-> 1, active |-> None, hasTools |-> FALSE,
     fresh |-> FALSE, batch |-> <<>>, ids |-> {}]

StatusRank(status) == CASE status = "queued" -> 0 [] status = "running" -> 1 [] OTHER -> 2

Tool(call, status) == [id |-> call, status |-> status]
HasTool(m, call) == \E i \in DOMAIN m.tools : m.tools[i].id = call

\* buildDisplayHistory: a record each, the tools' records in the message that called them.
History(kept) ==
    LET Shown(r) ==
          [id |-> r.id, turn |-> <<"turn">>, role |-> r.role, text |-> r.text, streaming |-> FALSE,
           tools |-> [i \in DOMAIN r.calls |->
                        Tool(r.calls[i], IF r.calls[i] \in kept.done THEN "success" ELSE "queued")]]
    IN  [i \in DOMAIN kept.records |-> Shown(kept.records[i])]

Update(ms, id, New(_)) == [i \in DOMAIN ms |-> IF ms[i].id = id THEN New(ms[i]) ELSE ms[i]]
Find(ms, id) == {i \in DOMAIN ms : ms[i].id = id}

\* ensureActiveMessage: the active phase, or a new one; [ms, f].
Ensured(ms, f) ==
    IF f.active # None /\ ~f.fresh THEN [ms |-> ms, f |-> f]
    ELSE LET id == <<"phase", f.run, f.next>> IN
         [ms |-> Append(ms, [id |-> id, turn |-> f.turn, role |-> "assistant", text |-> <<>>,
                             tools |-> <<>>, streaming |-> TRUE]),
          f |-> [f EXCEPT !.next = @ + 1, !.active = id, !.hasTools = FALSE, !.fresh = FALSE,
                          !.ids = @ \cup {id}]]

\* queueBatchTools
Queue(ms, id, calls) ==
    Update(ms, id, LAMBDA m :
      [m EXCEPT !.tools = @ \o SelectSeq([i \in DOMAIN calls |-> Tool(calls[i], "queued")],
                                         LAMBDA t : ~HasTool(m, t.id))])

\* What follows a phase with tools is a phase of its own.
AfterTools(f) == IF f.hasTools THEN [f EXCEPT !.active = None, !.fresh = TRUE] ELSE f

\* Mutant: text that follows the tools is added to their phase.
ShowTextInPlace(ms, f, chunks) ==
    LET e == Ensured(ms, f) IN
    [ms |-> Update(e.ms, e.f.active, LAMBDA m : [m EXCEPT !.text = @ \o chunks]), f |-> e.f]

ShowText(ms, f, chunks) ==
    LET e == Ensured(ms, AfterTools(f)) IN
    [ms |-> Update(e.ms, e.f.active, LAMBDA m : [m EXCEPT !.text = @ \o chunks]), f |-> e.f]

Bound(f, id, owner) == IF <<id, owner>> \in ToSet(f.batch) THEN f.batch ELSE <<<<id, owner>>>> \o f.batch

\* Mutant: a batch that was announced before is bound anew.
BatchOwnerForgotten(ms, f, id) == None

\* The message that a batch was bound to, or that has its id.
BatchOwner(ms, f, id) ==
    LET bound == SelectSeq(f.batch, LAMBDA b : b[1] = id) IN
    IF bound # <<>> THEN bound[1][2] ELSE IF Find(ms, id) # {} THEN id ELSE None

ShowBatch(ms, f, id, calls) ==
    LET owner == BatchOwner(ms, f, id) IN
    IF owner # None
    THEN LET now == Queue(Update(ms, owner, LAMBDA m : [m EXCEPT !.streaming = TRUE]), owner, calls)
             at == Find(now, owner)
         IN  [ms |-> now,
              f |-> [f EXCEPT !.turn = IF at = {} THEN @ ELSE now[Max(at)].turn,
                              !.active = owner, !.fresh = FALSE,
                              !.hasTools = \E i \in at : now[i].tools # <<>>,
                              !.batch = Bound(f, id, owner),
                              !.ids = @ \cup {owner}]]
    ELSE LET e == Ensured(ms, AfterTools(f)) IN
         [ms |-> Queue(e.ms, e.f.active, calls),
          f |-> [e.f EXCEPT !.hasTools = TRUE, !.batch = Bound(e.f, id, e.f.active)]]

\* A tool of a message gets a status, or is added with it.
WithTool(m, call, status) ==
    [m EXCEPT !.tools = IF HasTool(m, call)
                        THEN [i \in DOMAIN @ |-> IF @[i].id = call THEN Tool(call, status) ELSE @[i]]
                        ELSE Append(@, Tool(call, status))]

ShowStart(ms, f, call) ==
    LET e == Ensured(ms, f) IN
    [ms |-> Update(e.ms, e.f.active, LAMBDA m : WithTool(m, call, "running")),
     f |-> [e.f EXCEPT !.hasTools = TRUE]]

\* The last message that has the call, else the active phase.
ShowEnd(ms, f, call) ==
    LET at == {i \in DOMAIN ms : HasTool(ms[i], call)}
        e == IF at # {} THEN [ms |-> ms, f |-> f] ELSE Ensured(ms, f)
        id == IF at # {} THEN ms[Max(at)].id ELSE e.f.active
    IN  [ms |-> Update(e.ms, id, LAMBDA m : WithTool(m, call, "success")),
         f |-> [e.f EXCEPT !.hasTools = TRUE]]

ShowComplete(ms, f) ==
    [ms |-> [i \in DOMAIN ms |-> IF ms[i].id \in f.ids THEN [ms[i] EXCEPT !.streaming = FALSE] ELSE ms[i]],
     f |-> [f EXCEPT !.active = None, !.hasTools = FALSE, !.fresh = FALSE]]

(***************************************************************************)
(* Merging a snapshot (reconcilePersistedLiveMessages).                     *)
(***************************************************************************)
\* reconcileTools
MergeTools(kept, live) ==
    [i \in DOMAIN kept |->
       LET same == {j \in DOMAIN live : live[j].id = kept[i].id} IN
       IF same # {} /\ StatusRank(live[Max(same)].status) >= StatusRank(kept[i].status)
       THEN live[Max(same)] ELSE kept[i]]
    \o SelectSeq(live, LAMBDA t : \A i \in DOMAIN kept : kept[i].id # t.id)

Merged(kept, live) ==
    [live EXCEPT !.text = IF Len(live.text) >= Len(kept.text) THEN @ ELSE kept.text,
                 !.tools = MergeTools(kept.tools, @)]

Equivalent(persisted, m) ==
    \E i \in DOMAIN persisted : persisted[i].role = m.role /\ persisted[i].text = m.text

\* Mutant: the snapshot replaces what is on display.
ReconcileByReplacing(persisted, current, f) == persisted

Reconcile(persisted, current, f) ==
    LET pending(m) == m.role = "user" /\ m.turn = f.turn /\ ~Equivalent(persisted, m)
        phase(m) == m.id \in f.ids /\ Find(persisted, m.id) = {} /\ ~Equivalent(persisted, m)
    IN  [i \in DOMAIN persisted |->
           LET same == Find(current, persisted[i].id) IN
           IF same = {} THEN persisted[i] ELSE Merged(persisted[i], current[Max(same)])]
        \o SelectSeq(current, pending) \o SelectSeq(current, phase)

(***************************************************************************)
(* The renderer takes what the main process sends.                          *)
(***************************************************************************)
Projected(e) ==
    CASE e.type = "text" -> ShowText(messages, flow, e.chunks)
      [] e.type = "batch" -> ShowBatch(messages, flow, e.id, e.calls)
      [] e.type = "start" -> ShowStart(messages, flow, e.call)
      [] e.type = "end" -> ShowEnd(messages, flow, e.call)
      [] e.type = "complete" -> ShowComplete(messages, flow)

\* Another session's events, and a snapshot for a display that changed meanwhile, are dropped.
Deliver ==
    /\ wire # <<>>
    /\ wire' = Tail(wire)
    /\ LET e == Head(wire) IN
       /\ IF messages = None \/ (e.type = "snapshot" /\ e.by # counts.away) THEN UNCHANGED shown
          ELSE IF e.type = "snapshot"
          THEN messages' = Reconcile(History(e.store), messages, flow) /\ UNCHANGED <<flow, heard>>
          ELSE /\ messages' = Projected(e).ms
               /\ flow' = Projected(e).f
               /\ heard' = IF e.type = "text" THEN heard \cup ToSet(e.chunks) ELSE heard
       /\ snapshot' = IF e.type = "snapshot" THEN None ELSE snapshot
    /\ UNCHANGED <<run, store, counts, torn>>

\* One poll at a time, while the run is busy and on display.
ReadSnapshot ==
    /\ messages # None /\ snapshot = None /\ counts.snapshots < MaxPolls
    /\ run.phase \notin {"paused", "over"}
    /\ snapshot' = [type |-> "snapshot", store |-> store, by |-> counts.away]
    /\ counts' = [counts EXCEPT !.snapshots = @ + 1]
    /\ UNCHANGED <<run, store, wire, shown, torn>>

SendSnapshot ==
    /\ snapshot # None /\ snapshot \notin ToSet(wire)
    /\ wire' = Append(wire, snapshot)
    /\ UNCHANGED <<run, store, snapshot, shown, counts, torn>>

\* The user opens another session, and later this one again.
Leave ==
    /\ messages # None /\ counts.away < MaxAway
    /\ messages' = None /\ heard' = {}
    /\ counts' = [counts EXCEPT !.away = @ + 1]
    /\ UNCHANGED <<run, store, wire, snapshot, flow, torn>>

\* The chunks that are sent, or to be sent, of responses that had begun when they were joined.
Return ==
    /\ messages = None
    /\ messages' = History(store)
    /\ flow' = NewFlow(<<"live", flow.run + 1>>)
    /\ torn' = torn \cup 1 .. run.chunks
    /\ run' = [run EXCEPT !.broken = @ \/ run.said # <<>>]
    /\ heard' = {}
    /\ UNCHANGED <<store, wire, snapshot, counts>>

\* The reply of the run: the display is built from the store.
Finish ==
    /\ run.phase = "over" /\ wire = <<>> /\ messages # None
    /\ messages' = History(store)
    /\ flow' = NewFlow(<<"live", flow.run + 1>>)
    /\ heard' = {}
    /\ run' = [run EXCEPT !.phase = "done"]
    /\ UNCHANGED <<store, wire, snapshot, counts, torn>>

LiveStep ==
    \/ Speak \/ Abandon
    \/ \E n \in 0 .. 2 : run.tools + n <= MaxTools /\ Respond([i \in 1 .. n |-> run.tools + i])
    \/ StoreResponse \/ StartBatch \/ StartTool \/ Pause \/ Resume \/ EndTool \/ RecordTool
    \/ Deliver \/ ReadSnapshot \/ SendSnapshot \/ Leave \/ Return \/ Finish

LiveNext == LiveStep /\ Len(wire') <= MaxWire

(***************************************************************************)
(* Properties.                                                              *)
(***************************************************************************)
Display == IF messages = None THEN <<>> ELSE messages
TextOf(ms) == FlattenSeq([i \in DOMAIN ms |-> ms[i].text])
ToolsOf(ms) == FlattenSeq([i \in DOMAIN ms |-> [j \in DOMAIN ms[i].tools |-> ms[i].tools[j].id]])
Whole(chunks) == SelectSeq(chunks, LAMBDA c : c \notin torn)

\* Text that was delivered is on display: a snapshot that is older than it does not take it away.
NothingDisappears == messages # None => heard \subseteq ToSet(TextOf(messages))

\* Nothing is on display twice, and the text is in the order it was said.
NothingTwice ==
    LET text == Whole(TextOf(Display)) IN
    /\ \A i, j \in DOMAIN text : i < j => text[i] < text[j]
    /\ torn = {} /\ counts.away = 0 => IsInjective(ToolsOf(Display))

LiveSound == NothingDisappears /\ NothingTwice
=============================================================================
