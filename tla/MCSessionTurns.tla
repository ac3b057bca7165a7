----------------------------- MODULE MCSessionTurns -----------------------------
(***************************************************************************)
(* Instances of SessionTurns and HistoryIntegrity for TLC.  A behaviour is  *)
(* about one part:                                                          *)
(*   "turns"    the turns of a session, the index and the log               *)
(*   "history"  what the model is shown of them                             *)
(***************************************************************************)
EXTENDS SessionTurns, TLC

CONSTANTS Budgets, Slots, Overhead, Least, ToolText, Short, MaxTurns, MaxMessages

VARIABLES
    part,
    history, boundary, promoted, at, last, todo, request, asked, saved, named, shown

History == INSTANCE HistoryIntegrity WITH turn <- last, question <- asked

historyVars ==
    <<history, boundary, promoted, at, last, todo, request, asked, saved, named, shown>>

Symmetry == Permutations(Task) \cup Permutations(Call)

MCInit ==
    /\ Init /\ History!Init
    /\ part \in {"turns", "history"}
    /\ part = "history" => patient

MCNext ==
    /\ UNCHANGED part
    /\ \/ part = "turns" /\ Next /\ UNCHANGED historyVars
       \/ part = "history" /\ History!HistoryNext /\ UNCHANGED vars

MCSpec == MCInit /\ [][MCNext]_<<vars, part, historyVars>>

\* HistoryIntegrity!RequestUsable and RequestFits: a request can always be compiled, its calls and
\* results match, it has its newest context and keeps to its budget.
RequestSound == History!RequestUsable /\ History!RequestFits

\* HistoryIntegrity!RawFirst: a tool result is replaced by its summary after a model has read it.
RawFirst == History!RawFirst

\* HistoryIntegrity!CompactionKeeps: /compact hides neither the last two turns nor unread results.
CompactionKeeps == History!CompactionKeeps
=============================================================================
