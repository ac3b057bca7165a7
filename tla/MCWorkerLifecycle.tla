--------------------------- MODULE MCWorkerLifecycle ---------------------------
(***************************************************************************)
(* Instances of WorkerLifecycle and CodeIndex for TLC: what a turn consults *)
(* to learn of the workspace.  A behaviour is about one part:               *)
(*   "worker"  a worker whose runs either follow one another, with two      *)
(*             requests to cancel it, or overlap, with one                  *)
(*   "index"   calls that answer from the code index while files change     *)
(* What one part uses stays as it is at the start in the others.            *)
(***************************************************************************)
EXTENDS WorkerLifecycle, FiniteSets, TLC

CONSTANTS
    File, Ignored, Bulky, MaxFiles, MaxShared, PageSize, Query, MaxTurns, MaxPages

VARIABLES
    part,
    limit, disk, repo, policy, turns, index, saved, queue, build, query, lived  \* of CodeIndex

Index == INSTANCE CodeIndex WITH
    Call <- Query, call <- query, seen <- lived, Scopes <- {File, {1}}

readVars == <<limit, disk, repo, policy, turns, index, saved, queue, build, query, lived>>

Symmetry == Permutations(Request) \cup Permutations(Query)

OneRequest == Cardinality({q \in Request : reqPc'[q] # "idle"}) <= 1

\* The settings change only while a call is on that was approved under them.  There is one call
\* where the index cannot hold all files; of two neither asks for a second page, and at most one
\* goes to the external provider.
Relevant ==
    /\ policy' # policy => \E q \in Query : query[q].tool = "external"
    /\ \A p, q \in Query : p # q /\ None \notin {query'[p].tool, query'[q].tool} =>
         /\ limit = Cardinality(File)
         /\ query'[p].pages = 1
         /\ "external" \notin {query'[p].tool} \cap {query'[q].tool}

MCInit ==
    /\ part \in {"worker", "index"}
    /\ Init /\ Index!IndexInit
    /\ part # "worker" => ~overlapping /\ workerType = "coding"
    /\ IF part = "index" THEN limit < Cardinality(File) => \A f \in File : disk[f] = 1
       ELSE limit = 1 /\ \A f \in File : disk[f] = 1

MCNext ==
    /\ UNCHANGED part
    /\ \/ part = "worker" /\ Next /\ (overlapping => OneRequest) /\ UNCHANGED readVars
       \/ part = "index" /\ Index!IndexNext /\ Relevant /\ UNCHANGED vars

MCSpec == MCInit /\ [][MCNext]_<<part, vars, readVars>>

\* CodeIndex!IndexSound: answers are current, complete where they say so, of one state of the
\* index, and their pages join.
IndexSound == Index!IndexSound
=============================================================================
