------------------------ MODULE GitAndPublication_proofs ------------------------
(***************************************************************************)
(* Two components that change the files of a workspace, each for itself.   *)
(*                                                                         *)
(* What Git tools run is what the user was shown, for any calls, worktrees  *)
(* and branches, and whatever others do meanwhile.  The chain of promises   *)
(* is a lock: its calls stand in one line, and only the first of them has   *)
(* looked at the repository for the last time.                              *)
(*                                                                         *)
(* A call that publishes a file keeps its promises for any number of acts  *)
(* of others: nobody finds half of a file, success is whole, failure keeps *)
(* what was there, and a download destroys nothing of what others did.     *)
(***************************************************************************)
EXTENDS GitOperations, Publication, TLAPS, WellFoundedInduction

-----------------------------------------------------------------------------
(* Git: the inductive invariant.                                           *)

\* The calls that have joined the chain and not left it.
InChain == {t \in Task : call[t].at \in {"waiting", "checked"}}

CallShape ==
    /\ call = [t \in Task |-> call[t]]
    /\ \A t \in Task : /\ call[t].at \in {"idle", "shown", "agreed", "waiting", "checked"}
                       /\ call[t].at # "idle" => DOMAIN call[t] = {"at", "op", "seen"}
    /\ behind \in [Task -> Task \cup {None}] /\ tail \in Task \cup {None}

\* rank is the order of the chain: each waits for an earlier one, no two for the same, nobody for
\* the last, and whoever was checked waits for nobody.
Line(rank) ==
    /\ \A t \in InChain : behind[t] # None => behind[t] \in InChain /\ rank[behind[t]] < rank[t]
    /\ \A t, u \in InChain : behind[t] = behind[u] => t = u
    /\ \A t \in InChain : call[t].at = "checked" => behind[t] = None
    /\ tail # None => tail \in InChain /\ \A t \in InChain : behind[t] # tail /\ rank[t] <= rank[tail]
    /\ tail = None => InChain = {}

ChainInv == \E rank \in [Task -> Nat] : Line(rank)

\* What was checked is still so, unless others have acted since.
CheckedInv ==
    \A t \in Task :
        call[t].at = "checked" /\ t \notin disturbed /\ call[t].op.kind # "rebase"
            => Facts(call[t].op) = call[t].seen

GitInv == CallShape /\ ChainInv /\ CheckedInv

-----------------------------------------------------------------------------
(* The chain.                                                              *)

\* The chain has one first call.
LEMMA OneIsFirst ==
    ASSUME NEW rank \in [Task -> Nat], CallShape, Line(rank), InChain # {}
    PROVE  \E t \in InChain : behind[t] = None /\ \A u \in InChain : rank[t] <= rank[u]
<1> DEFINE S == {rank[t] : t \in InChain}
<1>1. S \in SUBSET Nat /\ S # {}
  BY DEF InChain
<1>2. PICK least \in S : \A y \in S : <<y, least>> \notin OpToRel(<, Nat)
  BY <1>1, WFMin, NatLessThanWellFounded
<1>3. \A y \in S : least <= y
  <2> SUFFICES ASSUME NEW y \in S PROVE least <= y
    OBVIOUS
  <2>1. least \in Nat /\ y \in Nat
    BY <1>1, <1>2
  <2>2. ~(y < least)
    BY <1>2, <2>1 DEF OpToRel
  <2> QED
    BY <2>1, <2>2
<1>4. PICK t \in InChain : rank[t] = least
  BY <1>2
<1>5. \A u \in InChain : rank[t] <= rank[u]
  BY <1>3, <1>4
<1>6. behind[t] = None
  <2> SUFFICES ASSUME behind[t] # None PROVE FALSE
    OBVIOUS
  <2>1. behind[t] \in InChain /\ rank[behind[t]] < rank[t]
    BY DEF Line
  <2>2. rank[behind[t]] \in Nat /\ rank[t] \in Nat
    BY <2>1 DEF InChain
  <2> QED
    BY <1>5, <2>1, <2>2
<1> QED
  BY <1>5, <1>6

\* A call that leaves was the first; if it was the last too, the chain is empty.
LEMMA LeaveKeepsLine ==
    ASSUME None \notin Task, NEW rank \in [Task -> Nat], CallShape, Line(rank), NEW t \in InChain,
           behind[t] = None, Leave(t), call' = [call EXCEPT ![t] = NoOp]
    PROVE  Line(rank)'
<1>1. t \in Task /\ InChain' = InChain \ {t}
  BY DEF InChain, CallShape, NoOp
<1>2. \A u \in Task : behind'[u] = IF behind[u] = t THEN None ELSE behind[u]
  BY DEF Leave
<1>3. \A u \in InChain' : u \in InChain /\ u # t /\ behind[u] # None
  BY <1>1 DEF Line
<1>4. \A u \in InChain' : behind'[u] # None => behind'[u] = behind[u] /\ behind[u] # t
  BY <1>1, <1>2 DEF InChain
<1>5. \A u \in InChain' : behind'[u] # None => behind'[u] \in InChain' /\ rank[behind'[u]] < rank[u]
  BY <1>1, <1>3, <1>4 DEF Line
<1>6. \A u, v \in InChain' : behind'[u] = behind'[v] => u = v
  <2> SUFFICES ASSUME NEW u \in InChain', NEW v \in InChain', behind'[u] = behind'[v]
               PROVE  u = v
    OBVIOUS
  <2>1. u \in Task /\ v \in Task
    BY <1>1 DEF InChain
  <2>2. behind[u] = behind[v]
    BY <1>2, <1>3, <2>1
  <2> QED
    BY <1>3, <2>2 DEF Line
<1>7. \A u \in InChain' : call'[u].at = "checked" => behind'[u] = None
  BY <1>1, <1>2, <1>3 DEF Line, InChain, CallShape
<1>8. CASE tail = t
  <2>1. PICK f \in InChain : behind[f] = None /\ \A u \in InChain : rank[f] <= rank[u]
    BY OneIsFirst
  <2>2. f = t
    BY <2>1 DEF Line
  <2>3. InChain' = {}
    <3> SUFFICES ASSUME NEW u \in InChain' PROVE FALSE
      OBVIOUS
    <3>1. u \in InChain /\ behind[u] # None
      BY <1>3
    <3>2. behind[u] \in InChain /\ rank[behind[u]] < rank[u] /\ rank[u] <= rank[t]
      BY <1>8, <1>1, <3>1 DEF Line
    <3>3. rank[t] <= rank[behind[u]]
      BY <2>1, <2>2, <3>2
    <3>4. rank[t] \in Nat /\ rank[u] \in Nat /\ rank[behind[u]] \in Nat
      BY <3>1, <3>2 DEF InChain
    <3> QED
      BY <3>2, <3>3, <3>4
  <2>4. tail' = None
    BY <1>8 DEF Leave
  <2> QED
    BY <2>3, <2>4 DEF Line
<1>9. CASE tail # t
  <2>1. tail' = tail
    BY <1>9 DEF Leave
  <2>2. tail # None /\ tail \in InChain'
    BY <1>1, <1>9 DEF Line
  <2>3. \A u \in InChain' : behind'[u] # tail /\ rank[u] <= rank[tail]
    BY <1>3, <1>4, <2>2 DEF Line
  <2> QED
    BY <1>5, <1>6, <1>7, <2>1, <2>2, <2>3 DEF Line
<1> QED
  BY <1>8, <1>9

\* A call that joins the chain is the last.
LEMMA EnterKeepsChain ==
    ASSUME None \notin Task, CallShape, ChainInv, NEW t \in Task, Enter(t)
    PROVE  ChainInv'
<1>1. PICK rank \in [Task -> Nat] : Line(rank)
  BY DEF ChainInv
<1>2. /\ t \notin InChain /\ call'[t].at = "waiting" /\ InChain' = InChain \cup {t}
      /\ \A u \in Task : u # t => call'[u] = call[u]
  BY DEF Enter, CallShape, InChain
<1>3. /\ tail' = t /\ \A u \in Task : behind'[u] = IF u = t THEN tail ELSE behind[u]
  BY DEF Enter, CallShape
<1>a. PICK last \in Nat : last = IF tail = None THEN 0 ELSE rank[tail] + 1
  BY <1>1 DEF Line, InChain
<1>b. PICK rank2 \in [Task -> Nat] : rank2 = [rank EXCEPT ![t] = last]
  OBVIOUS
<1>4. \A u \in Task : rank2[u] = IF u = t THEN last ELSE rank[u]
  BY <1>b
<1>5. \A u \in InChain : /\ u \in Task /\ u # t /\ behind[u] # t /\ rank[u] < last
                         /\ behind[u] # None => behind[u] \in Task
  <2> SUFFICES ASSUME NEW u \in InChain
               PROVE  u \in Task /\ u # t /\ behind[u] # t /\ rank[u] < last
                      /\ (behind[u] # None => behind[u] \in Task)
    OBVIOUS
  <2>1. u \in Task /\ u # t /\ behind[u] # t /\ (behind[u] # None => behind[u] \in Task)
    BY <1>1, <1>2 DEF Line, InChain
  <2>2. tail # None /\ tail \in Task /\ rank[u] <= rank[tail]
    BY <1>1 DEF Line, InChain
  <2>3. rank[u] \in Nat /\ rank[tail] \in Nat
    BY <2>1, <2>2
  <2> QED
    BY <1>a, <2>1, <2>2, <2>3
<1>6. tail # None => tail \in InChain /\ rank[tail] < last
  BY <1>1, <1>5 DEF Line
<1>7. \A u \in InChain' : behind'[u] # None => behind'[u] \in InChain' /\ rank2[behind'[u]] < rank2[u]
  <2> SUFFICES ASSUME NEW u \in InChain', behind'[u] # None
               PROVE  behind'[u] \in InChain' /\ rank2[behind'[u]] < rank2[u]
    OBVIOUS
  <2>1. CASE u = t
    BY <1>2, <1>3, <1>4, <1>5, <1>6, <2>1
  <2>2. CASE u # t
    <3>1. u \in InChain /\ behind'[u] = behind[u]
      BY <1>2, <1>3, <1>5, <2>2
    <3>2. behind[u] \in InChain /\ rank[behind[u]] < rank[u]
      BY <1>1, <3>1 DEF Line
    <3> QED
      BY <1>2, <1>4, <1>5, <3>1, <3>2
  <2> QED
    BY <2>1, <2>2
<1>8. \A u, v \in InChain' : behind'[u] = behind'[v] => u = v
  <2>1. \A u \in InChain : behind'[u] = behind[u] /\ behind[u] # tail
    BY <1>1, <1>3, <1>5 DEF Line
  <2> QED
    BY <1>1, <1>2, <1>3, <2>1 DEF Line
<1>9. \A u \in InChain' : call'[u].at = "checked" => behind'[u] = None
  BY <1>1, <1>2, <1>3, <1>5 DEF Line
<1>10. t \in InChain' /\ t # None
  BY <1>2
<1>11. \A u \in InChain' : behind'[u] # t /\ rank2[u] <= rank2[t]
  <2> SUFFICES ASSUME NEW u \in InChain'
               PROVE  behind'[u] # t /\ rank2[u] <= rank2[t]
    OBVIOUS
  <2>1. CASE u = t
    BY <1>2, <1>3, <1>4, <1>6, <2>1
  <2>2. CASE u # t
    BY <1>2, <1>3, <1>4, <1>5, <2>2
  <2> QED
    BY <2>1, <2>2
<1>12. Line(rank2)'
  BY <1>3, <1>7, <1>8, <1>9, <1>10, <1>11 DEF Line
<1> QED
  BY <1>12 DEF ChainInv

-----------------------------------------------------------------------------
(* The steps.                                                              *)

LEMMA ShapeStep ==
    ASSUME CallShape, GitNext
    PROVE  CallShape'
<1>1. ASSUME NEW t \in Task, NEW o \in Op, Ask(t, o)
      PROVE  CallShape'
  BY <1>1 DEF Ask, CallShape
<1>2. ASSUME NEW t \in Task, Resume(t)
      PROVE  CallShape'
  <2>1. /\ call[t].at = "shown" /\ UNCHANGED <<behind, tail>>
        /\ \/ call' = [call EXCEPT ![t] = [call[t] EXCEPT !.at = "agreed"]]
           \/ call' = [call EXCEPT ![t] = [call[t] EXCEPT !.seen = Facts(call[t].op)]]
    BY <1>2 DEF Resume
  <2>2. call = [u \in Task |-> call[u]] /\ DOMAIN call[t] = {"at", "op", "seen"}
    BY <2>1 DEF CallShape
  <2>3. call'[t].at \in {"shown", "agreed"} /\ DOMAIN call'[t] = {"at", "op", "seen"}
    BY <2>1, <2>2
  <2>4. call' = [u \in Task |-> call'[u]] /\ \A u \in Task : u # t => call'[u] = call[u]
    BY <2>1, <2>2
  <2> QED
    BY <2>1, <2>3, <2>4 DEF CallShape
<1>3. ASSUME NEW t \in Task, Decline(t)
      PROVE  CallShape'
  BY <1>3 DEF Decline, CallShape, NoOp
<1>4. ASSUME NEW t \in Task, Enter(t)
      PROVE  CallShape'
  BY <1>4 DEF Enter, CallShape
<1>5. ASSUME NEW t \in Task, Recheck(t)
      PROVE  CallShape'
  BY <1>5 DEF Recheck, CallShape
<1>6. ASSUME NEW t \in Task, Stale(t) \/ Command(t)
      PROVE  CallShape'
  BY <1>6 DEF Stale, Command, Leave, CallShape, NoOp
<1>7. CASE OthersAct(Op)
  BY <1>7 DEF OthersAct, CallShape
<1> QED
  BY <1>1, <1>2, <1>3, <1>4, <1>5, <1>6, <1>7 DEF GitNext, GitSteps

\* Steps of calls that are not in the chain, or stay in their place.
LEMMA ChainKept ==
    ASSUME CallShape, ChainInv, UNCHANGED <<behind, tail>>, InChain' = InChain,
           \A t \in InChain : call'[t].at = "checked" => call[t].at = "checked" \/ behind[t] = None
    PROVE  ChainInv'
<1>1. PICK rank \in [Task -> Nat] : Line(rank)
  BY DEF ChainInv
<1>2. Line(rank)'
  BY <1>1 DEF Line
<1> QED
  BY <1>2 DEF ChainInv

LEMMA ChainStep ==
    ASSUME None \notin Task, CallShape, ChainInv, GitNext
    PROVE  ChainInv'
<1>1. ASSUME NEW t \in Task, NEW o \in Op, Ask(t, o)
      PROVE  ChainInv'
  <2>1. \A u \in Task : call'[u].at = IF u = t THEN "shown" ELSE call[u].at
    BY <1>1 DEF Ask, CallShape
  <2>2. InChain' = InChain /\ UNCHANGED <<behind, tail>>
    BY <1>1, <2>1 DEF Ask, InChain
  <2> QED
    BY <2>1, <2>2, ChainKept DEF InChain
<1>2. ASSUME NEW t \in Task, Resume(t)
      PROVE  ChainInv'
  <2>1. /\ call[t].at = "shown" /\ call'[t].at \in {"shown", "agreed"}
        /\ \A u \in Task : u # t => call'[u] = call[u]
    BY <1>2 DEF Resume, CallShape
  <2>2. InChain' = InChain /\ UNCHANGED <<behind, tail>>
    BY <1>2, <2>1 DEF Resume, InChain
  <2> QED
    BY <2>1, <2>2, ChainKept DEF InChain
<1>3. ASSUME NEW t \in Task, Decline(t)
      PROVE  ChainInv'
  <2>1. /\ call[t].at \in {"shown", "agreed"} /\ call'[t].at = "idle"
        /\ \A u \in Task : u # t => call'[u] = call[u]
    BY <1>3 DEF Decline, CallShape, NoOp
  <2>2. InChain' = InChain /\ UNCHANGED <<behind, tail>>
    BY <1>3, <2>1 DEF Decline, InChain
  <2> QED
    BY <2>1, <2>2, ChainKept DEF InChain
<1>4. ASSUME NEW t \in Task, Recheck(t)
      PROVE  ChainInv'
  <2>1. /\ call[t].at = "waiting" /\ call'[t].at = "checked" /\ behind[t] = None
        /\ \A u \in Task : u # t => call'[u] = call[u]
    BY <1>4 DEF Recheck, CallShape
  <2>2. InChain' = InChain /\ UNCHANGED <<behind, tail>>
    BY <1>4, <2>1 DEF Recheck, InChain
  <2> QED
    BY <2>1, <2>2, ChainKept DEF InChain
<1>5. ASSUME NEW t \in Task, Stale(t) \/ Command(t)
      PROVE  ChainInv'
  <2>1. PICK rank \in [Task -> Nat] : Line(rank)
    BY DEF ChainInv
  <2>2. t \in InChain /\ behind[t] = None
    BY <1>5, <2>1 DEF Stale, Command, InChain, Line
  <2>3. Line(rank)'
    BY <1>5, <2>1, <2>2, LeaveKeepsLine DEF Stale, Command
  <2> QED
    BY <2>3 DEF ChainInv
<1>6. CASE OthersAct(Op)
  BY <1>6, ChainKept DEF OthersAct, InChain
<1> QED
  BY <1>1, <1>2, <1>3, <1>4, <1>5, <1>6, EnterKeepsChain DEF GitNext, GitSteps

\* One call at a time has looked for the last time.
LEMMA OneIsChecked ==
    ASSUME ChainInv, NEW t \in Task, NEW u \in Task, call[t].at = "checked", call[u].at = "checked"
    PROVE  t = u
<1>1. PICK rank \in [Task -> Nat] : Line(rank)
  BY DEF ChainInv
<1>2. t \in InChain /\ u \in InChain
  BY DEF InChain
<1> QED
  BY <1>1, <1>2 DEF Line

LEMMA CheckedStep ==
    ASSUME CallShape, ChainInv, CheckedInv, GitNext
    PROVE  CheckedInv'
<1>1. ASSUME UNCHANGED repository, NEW t \in Task, disturbed \ {t} \subseteq disturbed',
             \A u \in Task : u # t => call'[u] = call[u],
             call'[t].at = "checked" /\ t \notin disturbed' /\ call'[t].op.kind # "rebase"
                => Facts(call'[t].op) = call'[t].seen
      PROVE  CheckedInv'
  <2> SUFFICES ASSUME NEW u \in Task, call'[u].at = "checked", u \notin disturbed',
                      call'[u].op.kind # "rebase"
               PROVE  Facts(call[u].op)' = call'[u].seen
    BY DEF CheckedInv
  <2>1. Facts(call[u].op)' = Facts(call'[u].op)
    BY <1>1 DEF repository, Facts, Snapshot, Target, Head, Exists
  <2>2. CASE u = t
    BY <1>1, <2>1, <2>2
  <2>3. CASE u # t
    BY <1>1, <2>1, <2>3 DEF CheckedInv
  <2> QED
    BY <2>2, <2>3
<1>2. ASSUME NEW t \in Task, NEW o \in Op, Ask(t, o)
      PROVE  CheckedInv'
  <2>1. call'[t].at = "shown" /\ \A u \in Task : u # t => call'[u] = call[u]
    BY <1>2 DEF Ask, CallShape
  <2> QED
    BY <1>1, <1>2, <2>1 DEF Ask
<1>3. ASSUME NEW t \in Task, Resume(t)
      PROVE  CheckedInv'
  <2>1. call'[t].at # "checked" /\ \A u \in Task : u # t => call'[u] = call[u]
    BY <1>3 DEF Resume, CallShape
  <2> QED
    BY <1>1, <1>3, <2>1 DEF Resume
<1>4. ASSUME NEW t \in Task, Decline(t)
      PROVE  CheckedInv'
  <2>1. call'[t].at # "checked" /\ \A u \in Task : u # t => call'[u] = call[u]
    BY <1>4 DEF Decline, CallShape, NoOp
  <2> QED
    BY <1>1, <1>4, <2>1 DEF Decline
<1>5. ASSUME NEW t \in Task, Enter(t)
      PROVE  CheckedInv'
  <2>1. call'[t].at # "checked" /\ \A u \in Task : u # t => call'[u] = call[u]
    BY <1>5 DEF Enter, CallShape
  <2> QED
    BY <1>1, <1>5, <2>1 DEF Enter
<1>6. ASSUME NEW t \in Task, Recheck(t)
      PROVE  CheckedInv'
  <2>1. /\ call'[t].op = call[t].op /\ call'[t].seen = call[t].seen
        /\ \A u \in Task : u # t => call'[u] = call[u]
    BY <1>6 DEF Recheck, CallShape
  <2>2. call[t].op.kind # "rebase" => Facts(call[t].op) = call[t].seen
    BY <1>6 DEF Recheck, Key
  <2>3. UNCHANGED repository /\ disturbed' = disturbed \ {t}
    BY <1>6 DEF Recheck
  <2> QED
    BY <1>1, <2>1, <2>2, <2>3
<1>7. ASSUME NEW t \in Task, Stale(t)
      PROVE  CheckedInv'
  <2>1. call'[t].at # "checked" /\ \A u \in Task : u # t => call'[u] = call[u]
    BY <1>7 DEF Stale, CallShape, NoOp
  <2> QED
    BY <1>1, <1>7, <2>1 DEF Stale
<1>8. ASSUME NEW t \in Task, Command(t)
      PROVE  CheckedInv'
  <2>1. call'[t].at # "checked" /\ \A u \in Task : u # t => call'[u] = call[u]
    BY <1>8 DEF Command, CallShape, NoOp
  <2>2. \A u \in Task : call'[u].at # "checked"
    BY <1>8, <2>1, OneIsChecked DEF Command
  <2> QED
    BY <2>2 DEF CheckedInv
<1>9. CASE OthersAct(Op)
  <2>1. call' = call /\ \A u \in Task : call[u].at = "checked" => u \in disturbed'
    BY <1>9 DEF OthersAct
  <2> QED
    BY <2>1 DEF CheckedInv
<1> QED
  BY <1>2, <1>3, <1>4, <1>5, <1>6, <1>7, <1>8, <1>9 DEF GitNext, GitSteps

-----------------------------------------------------------------------------
(* Theorems.                                                               *)

LEMMA GitInvariance ==
    ASSUME None \notin Task
    PROVE  GitSpec => []GitInv
<1>1. Init => GitInv
  <2> SUFFICES ASSUME Init PROVE GitInv
    OBVIOUS
  <2>1. CallShape /\ InChain = {} /\ CheckedInv
    BY DEF Init, CallShape, InChain, NoOp, CheckedInv
  <2>2. PICK rank \in [Task -> Nat] : TRUE
    <3>1. [t \in Task |-> 0] \in [Task -> Nat]
      OBVIOUS
    <3> QED
      BY <3>1
  <2>3. Line(rank)
    BY <2>1 DEF Init, Line
  <2> QED
    BY <2>1, <2>3 DEF GitInv, ChainInv
<1>2. GitInv /\ [GitNext]_gitVars => GitInv'
  <2> SUFFICES ASSUME GitInv, [GitNext]_gitVars PROVE GitInv'
    OBVIOUS
  <2>1. CASE GitNext
    BY <2>1, ShapeStep, ChainStep, CheckedStep DEF GitInv
  <2>2. CASE UNCHANGED gitVars
    <3>1. CallShape' /\ ChainInv'
      BY <2>2, ChainKept DEF GitInv, gitVars, CallShape, InChain
    <3>2. CheckedInv'
      <4>1. UNCHANGED <<repository, call, disturbed>>
        BY <2>2 DEF gitVars
      <4> QED
        BY <4>1 DEF GitInv, CheckedInv, repository, Facts, Snapshot, Target, Head, Exists
    <3> QED
      BY <3>1, <3>2 DEF GitInv
  <2> QED
    BY <2>1, <2>2
<1> QED
  BY <1>1, <1>2, PTL DEF GitSpec

\* However calls overlap, are approved late, shown again or aborted: of the calls in the chain of a
\* process at most one is past its last look at the repository.
THEOREM LastLooksDoNotOverlap ==
    ASSUME None \notin Task
    PROVE  GitSpec => [](\A t, u \in Task : call[t].at = "checked" /\ call[u].at = "checked" => t = u)
<1>1. GitInv => \A t, u \in Task : call[t].at = "checked" /\ call[u].at = "checked" => t = u
  BY OneIsChecked DEF GitInv
<1> QED
  BY <1>1, GitInvariance, PTL

\* A command that changes the repository finds it, and the commit it names, as the user was shown
\* them, unless somebody outside the process acted after the last look; a rebase apart.
THEOREM CommandsAreApproved ==
    ASSUME None \notin Task
    PROVE  GitSpec => ActsAsApproved
<1> DEFINE Approved ==
      \A t \in Task : Runs(t) /\ t \notin disturbed /\ call[t].op.kind # "rebase"
          => Facts(call[t].op) = call[t].seen
<1>1. GitInv => Approved
  BY DEF GitInv, CheckedInv, Runs
<1> QED
  BY <1>1, GitInvariance, PTL DEF ActsAsApproved
-----------------------------------------------------------------------------
(* Publication: the inductive invariant.                                   *)

\* A call under way.
Job == [kind : Kind, overwrite : BOOLEAN, at : Phase, saved : Inode \cup {Part},
        seen : (Inode \cup {0}) \X (Inode \cup {0}), own : Inode,
        moved : BOOLEAN, aborted : BOOLEAN, ok : BOOLEAN]

\* The phases of a download alone, those of the other calls alone, and those in which nothing
\* was published yet.
Fetching == {"receiving", "received", "check_dest", "move", "moved", "check_stage", "link",
             "linked", "verify", "unlink", "unlinking", "restore", "restoring", "finally",
             "discard", "cleanup"}
Writing == {"stage", "check_target", "commit", "published", "rollback", "put_back"}
Early == {"asked", "opened", "receiving", "received", "check_dest", "move", "moved",
          "check_stage", "link", "stage", "check_target", "commit"}
\* The phases in which the previous file may be set aside, and those of a call that has failed.
Aside == {"moved", "check_stage", "link", "linked", "verify", "unlink", "unlinking", "restore",
          "restoring", "finally"}
Failing == {"unlink", "unlinking", "restore", "restoring", "finally", "rollback", "put_back"}

PhaseInv ==
    /\ job.at \in Fetching => job.kind = "download"
    /\ job.at \in Writing => job.kind # "download"
    /\ job.at \in Early \cup {"linked", "verify", "published"} => job.ok
    /\ job.at \in Failing => ~job.ok
    /\ job.at \in Early \cup {"linked", "verify"} => job.own = Made
    /\ job.saved # Made
    /\ job.at = "asked" => job.saved = Part
    /\ job.at \in Fetching \ {"cleanup"} => job.seen[2] = job.saved
    /\ job.seen[1] <= Back + acts /\ job.seen[1] \notin {Made, Back}

\* Names lead to inodes that are there, and the file under the staged name is at no other place
\* until it is published.
NameInv ==
    /\ \A p \in Place : dir[p] <= Back + acts
    /\ dir["backup"] \notin {Made, Back} /\ dir["stage"] \notin {Old, Back}
    /\ dir["stage"] # 0 => dir["backup"] # dir["stage"]
    /\ job.at \in Early => /\ dir["dest"] # Made
                           /\ dir["stage"] # 0 => dir["dest"] # dir["stage"]
                           /\ dir["stage"] \notin {0, Made} => data[dir["stage"]] = Stray
    /\ job.at \in {"asked", "opened", "receiving", "stage", "put_back"} => dir["stage"] = 0
    /\ dir["dest"] = Back =>
         job.at = "done" /\ ~job.ok /\ data[Back] = job.saved /\ job.saved # Part

\* Only what the call makes or puts back is ever half a file, and it is whole before it is
\* published.
DataInv ==
    /\ \A i \in Inode : /\ data[i] = Part => i \in {Made, Back}
                        /\ data[i] = Made => i = Made
    /\ job.at \in {"check_dest", "move", "moved", "check_stage", "link", "commit"} =>
         data[Made] = Made
    /\ dir["dest"] = Made => data[Made] # Part

\* The previous file is in the backup directory from Move to Restoring or Discard.
BackupInv ==
    /\ dir["backup"] # 0 => job.moved \/ job.at \in {"discard", "dead"}
    /\ job.moved => job.at \in Aside \cup {"discard", "cleanup", "done", "dead"}
    /\ job.moved /\ job.at \in Aside => dir["backup"] # 0
    /\ job.at \in {"moved", "restore", "restoring", "finally"} => job.moved

\* What a download knows unless others have acted too late.
LateInv ==
    ~late =>
      /\ job.kind = "download" => lost \subseteq {job.saved}
      /\ job.moved /\ job.at \in Aside \ {"linked", "verify", "unlink", "unlinking"} =>
           Fingerprint("backup") = job.seen \/ dir["dest"] = 0
      /\ job.at = "linked" => /\ dir["dest"] # 0 /\ dir["dest"] = dir["stage"] /\ data[Made] = Made
                              /\ dir["dest"] # Made => data[dir["dest"]] = Stray
      /\ job.at = "verify" => Fingerprint("dest") = Whole
      /\ job.at \in {"unlink", "unlinking"} =>
           dir["dest"] # 0 /\ dir["dest"] = job.own /\ data[dir["dest"]] \in {Made, Stray}
      /\ job.at = "restoring" => dir["dest"] = 0
      /\ job.at = "discard" /\ dir["backup"] # 0 => data[dir["backup"]] = job.saved
      /\ job.at \in {"discard", "cleanup", "done"} /\ job.ok /\ job.kind # "patch" =>
           Fingerprint("dest") = Whole

\* Where the file that was there is when nobody else has acted.
AloneInv ==
    acts = 0 =>
      /\ ~late
      /\ job.at \in {"check_target", "commit"} => dir["stage"] = Made
      /\ job.at = "published" => Fingerprint("dest") = Whole
      /\ job.at \in {"check_stage", "link"} => dir["dest"] = 0
      /\ job.at \in Early \ {"asked"} /\ ~job.moved => Content("dest") = job.saved
      /\ job.at = "move" => dir["dest"] # 0
      /\ job.moved /\ job.at \in Aside => Content("backup") = job.saved
      /\ ~job.moved /\ job.at \in Aside => job.saved = Part
      /\ job.at \in {"moved", "restore", "restoring"} => dir["dest"] = 0
      /\ job.at # "finally"
      /\ job.at \in {"discard", "cleanup"} /\ ~job.ok =>
           Content("dest") = job.saved /\ dir["backup"] = 0
      /\ job.at = "done" /\ ~job.ok =>
           Content("dest") = job.saved /\ dir["stage"] = 0 /\ dir["backup"] = 0
      /\ job.at = "done" /\ job.ok => Fingerprint("dest") = Whole
      /\ job.at = "dead" => \/ job.saved \in Reachable(dir, data) \cup {Part}
                            \/ Made \in Reachable(dir, data)
                            \/ job.kind # "download"

Untouched ==
    /\ dir["dest"] \in {0, Old} /\ dir["stage"] = 0 /\ dir["backup"] = 0
    /\ data = [i \in Inode |-> i]
    /\ acts = 0 /\ late = FALSE /\ lost = {}

Invs == PhaseInv /\ NameInv /\ DataInv /\ BackupInv /\ LateInv /\ AloneInv

PubInv ==
    /\ PubTypeOK
    /\ IF job = NoJob THEN Untouched ELSE Invs

-----------------------------------------------------------------------------
(* Types and records.                                                      *)

\* A call is under way.
Given == /\ NoJob \notin Job /\ MaxActs \in Nat
         /\ job \in Job /\ job # NoJob /\ PubTypeOK /\ Invs

\* A step of the call that changes nothing of it but its phase, beside
\* whether it may succeed.
SameCall == job' \in Job /\ job' # NoJob /\ job'.kind = job.kind /\ job'.overwrite = job.overwrite
Turns(phase) ==
    /\ SameCall
    /\ job'.at = phase
    /\ job'.saved = job.saved /\ job'.seen = job.seen /\ job'.own = job.own
    /\ job'.moved = job.moved /\ job'.aborted = job.aborted

LEMMA Going ==
    ASSUME NoJob \notin Job, job \in Job, NEW phase \in Phase, Go(phase)
    PROVE  Turns(phase) /\ job'.ok = job.ok
<1>1. job' = [job EXCEPT !.at = phase]
  BY DEF Go
<1>2. job' \in Job
  BY <1>1 DEF Job
<1> QED
  BY <1>1, <1>2 DEF SameCall, Turns, Job

LEMMA Failed ==
    ASSUME NoJob \notin Job, job \in Job, NEW phase \in Phase, Fails(phase)
    PROVE  Turns(phase) /\ ~job'.ok
<1>1. job' = [job EXCEPT !.at = phase, !.ok = FALSE]
  BY DEF Fails
<1>2. job' \in Job
  BY <1>1 DEF Job
<1>3. ~job'.ok /\ job'.at = phase
  BY <1>1 DEF Job
<1>4. /\ job'.kind = job.kind /\ job'.overwrite = job.overwrite /\ job'.saved = job.saved
      /\ job'.seen = job.seen /\ job'.own = job.own
      /\ job'.moved = job.moved /\ job'.aborted = job.aborted
  BY <1>1 DEF Job
<1> QED
  BY <1>2, <1>3, <1>4 DEF SameCall, Turns

\* What else of a call its steps change.
LEMMA ChangedSaved ==
    ASSUME job \in Job, NEW phase \in Phase, NEW saved \in Inode \cup {Part}
    PROVE  [job EXCEPT !.at = phase, !.saved = saved] \in Job
  BY DEF Job

LEMMA ChangedSeen ==
    ASSUME job \in Job, NEW phase \in Phase, NEW seen \in (Inode \cup {0}) \X (Inode \cup {0})
    PROVE  [job EXCEPT !.at = phase, !.seen = seen] \in Job
  BY DEF Job

LEMMA ChangedOwn ==
    ASSUME job \in Job, NEW phase \in Phase, NEW own \in Inode
    PROVE  [job EXCEPT !.at = phase, !.ok = FALSE, !.own = own] \in Job
  BY DEF Job

LEMMA ChangedMoved ==
    ASSUME job \in Job, NEW phase \in Phase, NEW moved \in BOOLEAN
    PROVE  [job EXCEPT !.at = phase, !.moved = moved] \in Job
  BY DEF Job

USE DEF Fetching, Writing, Early, Aside, Failing, Phase, Kind, Place, Inode, Old, Made, Back,
        Others, Part, Stray

\* The types of a call and of what it works on.
LEMMA CallFacts ==
    ASSUME Given
    PROVE  /\ job.kind \in Kind /\ job.overwrite \in BOOLEAN /\ job.at \in Phase
           /\ job.saved \in Inode \cup {Part} /\ job.seen \in (Inode \cup {0}) \X (Inode \cup {0})
           /\ job.own \in Inode /\ job.moved \in BOOLEAN /\ job.ok \in BOOLEAN
           /\ dir \in [Place -> Inode \cup {0}] /\ data \in [Inode -> Inode \cup {Part}]
           /\ acts \in 0..MaxActs /\ late \in BOOLEAN /\ lost \subseteq Others
           /\ MaxActs \in Nat /\ Invs
           /\ job.seen[1] \in Nat /\ acts \in Nat /\ \A p \in Place : dir[p] \in Nat
<1>1. /\ job.kind \in Kind /\ job.overwrite \in BOOLEAN /\ job.at \in Phase
      /\ job.saved \in Inode \cup {Part} /\ job.seen \in (Inode \cup {0}) \X (Inode \cup {0})
      /\ job.own \in Inode /\ job.moved \in BOOLEAN /\ job.ok \in BOOLEAN
      /\ dir \in [Place -> Inode \cup {0}] /\ data \in [Inode -> Inode \cup {Part}]
      /\ acts \in 0..MaxActs /\ late \in BOOLEAN /\ lost \subseteq Others
      /\ MaxActs \in Nat /\ Invs
  BY DEF Given, Job, PubTypeOK
<1>2. job.seen[1] \in Nat /\ acts \in Nat /\ \A p \in Place : dir[p] \in Nat
  BY <1>1
<1> QED
  BY <1>1, <1>2

\* A content, and a fingerprint that is compared.
LEMMA ContentOf ==
    ASSUME NEW place
    PROVE  /\ Content(place) = IF dir[place] = 0 THEN 0 ELSE data[dir[place]]
           /\ Fingerprint(place)[2] = Content(place)
           /\ Fingerprint(place)[1] = dir[place]
  BY DEF Content, Fingerprint

\* In a step of the call only its record, the names and contents change.
LEMMA TypeStep ==
    ASSUME Given, SameCall, UNCHANGED <<acts, late>>, lost' \subseteq Others,
           dir' \in [Place -> Inode \cup {0}], data' \in [Inode -> Inode \cup {Part}]
    PROVE  PubTypeOK'
  BY DEF Given, SameCall, PubTypeOK, Job

-----------------------------------------------------------------------------
(* Steps that look.                                                        *)

LEMMA CheckpointKeeps ==
    ASSUME Given, Checkpoint
    PROVE  SameCall /\ PubTypeOK' /\ Invs'
<1>1. job.at = "asked" /\ UNCHANGED <<dir, data, acts, late, lost>>
  BY DEF Checkpoint, IsAt
<1>2. CASE job' = [job EXCEPT !.at = "opened", !.saved = Content("dest")]
  <2>1. /\ SameCall
         /\ job'.at = "opened" /\ job'.saved = Content("dest") /\ job'.seen = job.seen
         /\ job'.own = job.own /\ job'.moved = job.moved /\ job'.ok = job.ok
    <3>1. PICK content \in Inode \cup {Part} : content = Content("dest")
      BY CallFacts, ContentOf, <1>1, <1>2 DEF Fingerprint
    <3>2. job' = [job EXCEPT !.at = "opened", !.saved = content]
      BY <1>2, <3>1
    <3>3. job' \in Job
      BY <3>1, <3>2, CallFacts, ChangedSaved DEF Given
    <3>4. job'.kind = job.kind /\ job'.overwrite = job.overwrite
      BY <3>2 DEF Given, Job
    <3>5. SameCall
      BY <3>3, <3>4 DEF Given, SameCall
    <3> QED
      BY <3>1, <3>2, <3>5, CallFacts DEF Given, Job
  <2>2. PubTypeOK'
    BY <1>1, <2>1, TypeStep, CallFacts DEF Turns
  <2> QED
    BY <1>1, <1>2, <2>1, <2>2, CallFacts, ContentOf, SMTT(30) DEF SameCall, Invs, PhaseInv,
       NameInv, DataInv, BackupInv, LateInv, AloneInv, Fingerprint, Content, Whole, Reachable
<1> QED
  BY <1>1, <1>2 DEF Checkpoint, IsAt

LEMMA BaselineKeeps ==
    ASSUME Given, Baseline
    PROVE  SameCall /\ PubTypeOK' /\ Invs'
<1>1. job.at = "opened" /\ job.kind = "download" /\ UNCHANGED <<dir, data, acts, late, lost>>
  BY DEF Baseline, IsAt
<1>2. CASE Overwritten /\ Content("dest") = job.saved
  <2>1. /\ SameCall
         /\ job'.at = "receiving" /\ job'.saved = job.saved /\ job'.seen = Fingerprint("dest")
         /\ job'.own = job.own /\ job'.moved = job.moved /\ job'.ok = job.ok
    <3>1. PICK shown \in (Inode \cup {0}) \X (Inode \cup {0}) : shown = Fingerprint("dest")
      BY CallFacts, ContentOf, <1>1, <1>2 DEF Fingerprint
    <3>2. job' = [job EXCEPT !.at = "receiving", !.seen = shown]
      BY <1>2, <3>1 DEF Overwritten
    <3>3. job' \in Job
      BY <3>1, <3>2, CallFacts, ChangedSeen DEF Given
    <3>4. job'.kind = job.kind /\ job'.overwrite = job.overwrite
      BY <3>2 DEF Given, Job
    <3>5. SameCall
      BY <3>3, <3>4 DEF Given, SameCall
    <3> QED
      BY <3>1, <3>2, <3>5, CallFacts DEF Given, Job
  <2>2. PubTypeOK'
    BY <1>1, <2>1, TypeStep, CallFacts DEF Turns
  <2> QED
    BY <1>1, <1>2, <2>1, <2>2, CallFacts, ContentOf, SMTT(30) DEF SameCall, Invs, PhaseInv,
       NameInv, DataInv, BackupInv, LateInv, AloneInv, Fingerprint, Content, Whole, Reachable
<1>3. CASE Fails("cleanup")
  <2>1. Turns("cleanup") /\ ~job'.ok
    BY <1>3, Failed DEF Given
  <2>2. PubTypeOK'
    BY <1>1, <2>1, TypeStep, CallFacts DEF Turns
  <2> QED
    BY <1>1, <1>3, <2>1, <2>2, CallFacts, SMTT(30) DEF SameCall, Turns, Invs, PhaseInv, NameInv,
       DataInv, BackupInv, LateInv, AloneInv, Fingerprint, Content, Whole, Reachable
<1> QED
  BY <1>1, <1>2, <1>3 DEF Baseline, IsAt

LEMMA RequestFailsKeeps ==
    ASSUME Given, RequestFails
    PROVE  SameCall /\ PubTypeOK' /\ Invs'
<1>1. /\ job.at \in {"receiving", "received", "check_dest"}
      /\ UNCHANGED <<dir, data, acts, late, lost>>
  BY DEF RequestFails, IsAt
<1>2. CASE Fails("cleanup")
  <2>1. Turns("cleanup") /\ ~job'.ok
    BY <1>2, Failed DEF Given
  <2>2. PubTypeOK'
    BY <1>1, <2>1, TypeStep, CallFacts DEF Turns
  <2> QED
    BY <1>1, <1>2, <2>1, <2>2, CallFacts, SMTT(30) DEF SameCall, Turns, Invs, PhaseInv, NameInv,
       DataInv, BackupInv, LateInv, AloneInv, Fingerprint, Content, Whole, Reachable
<1> QED
  BY <1>1, <1>2 DEF RequestFails, IsAt

LEMMA CheckDestKeeps ==
    ASSUME Given, CheckDest
    PROVE  SameCall /\ PubTypeOK' /\ Invs'
<1>1. job.at = "check_dest" /\ UNCHANGED <<dir, data, acts, late, lost>>
  BY DEF CheckDest, IsAt
<1>2. CASE Fails("cleanup")
  <2>1. Turns("cleanup") /\ ~job'.ok
    BY <1>2, Failed DEF Given
  <2>2. PubTypeOK'
    BY <1>1, <2>1, TypeStep, CallFacts DEF Turns
  <2> QED
    BY <1>1, <1>2, <2>1, <2>2, CallFacts, SMTT(30) DEF SameCall, Turns, Invs, PhaseInv, NameInv,
       DataInv, BackupInv, LateInv, AloneInv, Fingerprint, Content, Whole, Reachable
<1>3. CASE Go("move") /\ dir["dest"] # 0 /\ Fingerprint("dest") = job.seen
  <2>1. Turns("move") /\ job'.ok = job.ok
    BY <1>3, Going DEF Given
  <2>2. PubTypeOK'
    BY <1>1, <2>1, TypeStep, CallFacts DEF Turns
  <2> QED
    BY <1>1, <1>3, <2>1, <2>2, CallFacts, SMTT(30) DEF SameCall, Turns, Invs, PhaseInv, NameInv,
       DataInv, BackupInv, LateInv, AloneInv, Fingerprint, Content, Whole, Reachable
<1>4. CASE Go("check_stage") /\ dir["dest"] = 0 /\ Fingerprint("dest") = job.seen
  <2>1. Turns("check_stage") /\ job'.ok = job.ok
    BY <1>4, Going DEF Given
  <2>2. PubTypeOK'
    BY <1>1, <2>1, TypeStep, CallFacts DEF Turns
  <2> QED
    BY <1>1, <1>4, <2>1, <2>2, CallFacts, SMTT(30) DEF SameCall, Turns, Invs, PhaseInv, NameInv,
       DataInv, BackupInv, LateInv, AloneInv, Fingerprint, Content, Whole, Reachable
<1> QED
  BY <1>1, <1>2, <1>3, <1>4 DEF CheckDest, IsAt, MayReplace

LEMMA CheckMovedKeeps ==
    ASSUME Given, CheckMoved
    PROVE  SameCall /\ PubTypeOK' /\ Invs'
<1>1. job.at = "moved" /\ UNCHANGED <<dir, data, acts, late, lost>>
  BY DEF CheckMoved, IsAt
<1>2. CASE Fails("restore")
  <2>1. Turns("restore") /\ ~job'.ok
    BY <1>2, Failed DEF Given
  <2>2. PubTypeOK'
    BY <1>1, <2>1, TypeStep, CallFacts DEF Turns
  <2> QED
    BY <1>1, <1>2, <2>1, <2>2, CallFacts, SMTT(30) DEF SameCall, Turns, Invs, PhaseInv, NameInv,
       DataInv, BackupInv, LateInv, AloneInv, Fingerprint, Content, Whole, Reachable
<1>3. CASE Go("check_stage") /\ Fingerprint("backup") = job.seen
  <2>1. Turns("check_stage") /\ job'.ok = job.ok
    BY <1>3, Going DEF Given
  <2>2. PubTypeOK'
    BY <1>1, <2>1, TypeStep, CallFacts DEF Turns
  <2> QED
    BY <1>1, <1>3, <2>1, <2>2, CallFacts, SMTT(30) DEF SameCall, Turns, Invs, PhaseInv, NameInv,
       DataInv, BackupInv, LateInv, AloneInv, Fingerprint, Content, Whole, Reachable
<1> QED
  BY <1>1, <1>2, <1>3 DEF CheckMoved, IsAt

LEMMA CheckStageKeeps ==
    ASSUME Given, CheckStage
    PROVE  SameCall /\ PubTypeOK' /\ Invs'
<1>1. job.at = "check_stage" /\ UNCHANGED <<dir, data, acts, late, lost>>
  BY DEF CheckStage, IsAt
<1>2. CASE job.moved /\ Fails("restore")
  <2>1. Turns("restore") /\ ~job'.ok
    BY <1>2, Failed DEF Given
  <2>2. PubTypeOK'
    BY <1>1, <2>1, TypeStep, CallFacts DEF Turns
  <2> QED
    BY <1>1, <1>2, <2>1, <2>2, CallFacts, SMTT(30) DEF SameCall, Turns, Invs, PhaseInv, NameInv,
       DataInv, BackupInv, LateInv, AloneInv, Fingerprint, Content, Whole, Reachable
<1>3. CASE ~job.moved /\ Fails("cleanup")
  <2>1. Turns("cleanup") /\ ~job'.ok
    BY <1>3, Failed DEF Given
  <2>2. PubTypeOK'
    BY <1>1, <2>1, TypeStep, CallFacts DEF Turns
  <2> QED
    BY <1>1, <1>3, <2>1, <2>2, CallFacts, SMTT(30) DEF SameCall, Turns, Invs, PhaseInv, NameInv,
       DataInv, BackupInv, LateInv, AloneInv, Fingerprint, Content, Whole, Reachable
<1>4. CASE Go("link") /\ Fingerprint("stage") = Whole
  <2>1. Turns("link") /\ job'.ok = job.ok
    BY <1>4, Going DEF Given
  <2>2. PubTypeOK'
    BY <1>1, <2>1, TypeStep, CallFacts DEF Turns
  <2> QED
    BY <1>1, <1>4, <2>1, <2>2, CallFacts, SMTT(30) DEF SameCall, Turns, Invs, PhaseInv, NameInv,
       DataInv, BackupInv, LateInv, AloneInv, Fingerprint, Content, Whole, Reachable
<1> QED
  BY <1>1, <1>2, <1>3, <1>4 DEF CheckStage, IsAt, Wrong

LEMMA CheckLinkedKeeps ==
    ASSUME Given, CheckLinked
    PROVE  SameCall /\ PubTypeOK' /\ Invs'
<1>1. job.at = "linked" /\ UNCHANGED <<dir, data, acts, late, lost>>
  BY DEF CheckLinked, IsAt
<1>2. CASE dir["dest"] = 0 /\ Fails("unlink")
  <2>1. Turns("unlink") /\ ~job'.ok
    BY <1>2, Failed DEF Given
  <2>2. PubTypeOK'
    BY <1>1, <2>1, TypeStep, CallFacts DEF Turns
  <2> QED
    BY <1>1, <1>2, <2>1, <2>2, CallFacts, SMTT(30) DEF SameCall, Turns, Invs, PhaseInv, NameInv,
       DataInv, BackupInv, LateInv, AloneInv, Fingerprint, Content, Whole, Reachable
<1>3. CASE dir["dest"] = Made /\ Go("verify")
  <2>1. Turns("verify") /\ job'.ok = job.ok
    BY <1>3, Going DEF Given
  <2>2. PubTypeOK'
    BY <1>1, <2>1, TypeStep, CallFacts DEF Turns
  <2> QED
    BY <1>1, <1>3, <2>1, <2>2, CallFacts, SMTT(30) DEF SameCall, Turns, Invs, PhaseInv, NameInv,
       DataInv, BackupInv, LateInv, AloneInv, Fingerprint, Content, Whole, Reachable
<1>4. CASE /\ dir["dest"] \notin {0, Made}
           /\ job' = [job EXCEPT !.at = "unlink", !.ok = FALSE,
                                    !.own = IF dir["stage"] = dir["dest"] THEN dir["dest"] ELSE @]
  <2>1. /\ SameCall
         /\ job'.at = "unlink" /\ job'.saved = job.saved /\ job'.seen = job.seen
         /\ job'.own = (IF dir["stage"] = dir["dest"] THEN dir["dest"] ELSE job.own)
         /\ job'.moved = job.moved /\ ~job'.ok
    <3>1. PICK own \in Inode :
               own = (IF dir["stage"] = dir["dest"] THEN dir["dest"] ELSE job.own)
      BY CallFacts, ContentOf, <1>1, <1>4 DEF Fingerprint
    <3>2. job' = [job EXCEPT !.at = "unlink", !.ok = FALSE, !.own = own]
      BY <1>4, <3>1
    <3>3. job' \in Job
      BY <3>1, <3>2, CallFacts, ChangedOwn DEF Given
    <3>4. job'.kind = job.kind /\ job'.overwrite = job.overwrite
      BY <3>2 DEF Given, Job
    <3>5. SameCall
      BY <3>3, <3>4 DEF Given, SameCall
    <3> QED
      BY <3>1, <3>2, <3>5, CallFacts DEF Given, Job
  <2>2. PubTypeOK'
    BY <1>1, <2>1, TypeStep, CallFacts DEF Turns
  <2> QED
    BY <1>1, <1>4, <2>1, <2>2, CallFacts, ContentOf, SMTT(30) DEF SameCall, Invs, PhaseInv,
       NameInv, DataInv, BackupInv, LateInv, AloneInv, Fingerprint, Content, Whole, Reachable
<1> QED
  BY <1>1, <1>2, <1>3, <1>4 DEF CheckLinked, IsAt

LEMMA VerifyKeeps ==
    ASSUME Given, Verify
    PROVE  SameCall /\ PubTypeOK' /\ Invs'
<1>1. job.at = "verify" /\ UNCHANGED <<dir, data, acts, late, lost>>
  BY DEF Verify, IsAt
<1>2. CASE Fails("unlink")
  <2>1. Turns("unlink") /\ ~job'.ok
    BY <1>2, Failed DEF Given
  <2>2. PubTypeOK'
    BY <1>1, <2>1, TypeStep, CallFacts DEF Turns
  <2> QED
    BY <1>1, <1>2, <2>1, <2>2, CallFacts, SMTT(30) DEF SameCall, Turns, Invs, PhaseInv, NameInv,
       DataInv, BackupInv, LateInv, AloneInv, Fingerprint, Content, Whole, Reachable
<1>3. CASE /\ Fingerprint("dest") = Whole /\ (job.moved => Fingerprint("backup") = job.seen)
           /\ job' = [job EXCEPT !.at = IF job.moved THEN "discard" ELSE "cleanup",
                                    !.moved = FALSE]
  <2>1. /\ SameCall
         /\ job'.at = (IF job.moved THEN "discard" ELSE "cleanup") /\ job'.saved = job.saved
         /\ job'.seen = job.seen /\ job'.own = job.own /\ ~job'.moved /\ job'.ok = job.ok
    <3>1. PICK next \in {"discard", "cleanup"} :
               next = (IF job.moved THEN "discard" ELSE "cleanup")
      BY CallFacts, ContentOf, <1>1, <1>3 DEF Fingerprint
    <3>2. job' = [job EXCEPT !.at = next, !.moved = FALSE]
      BY <1>3, <3>1
    <3>3. job' \in Job
      BY <3>1, <3>2, CallFacts, ChangedMoved DEF Given
    <3>4. job'.kind = job.kind /\ job'.overwrite = job.overwrite
      BY <3>2 DEF Given, Job
    <3>5. SameCall
      BY <3>3, <3>4 DEF Given, SameCall
    <3> QED
      BY <3>1, <3>2, <3>5, CallFacts DEF Given, Job
  <2>2. PubTypeOK'
    BY <1>1, <2>1, TypeStep, CallFacts DEF Turns
  <2> QED
    BY <1>1, <1>3, <2>1, <2>2, CallFacts, ContentOf, SMTT(30) DEF SameCall, Invs, PhaseInv,
       NameInv, DataInv, BackupInv, LateInv, AloneInv, Fingerprint, Content, Whole, Reachable
<1> QED
  BY <1>1, <1>2, <1>3 DEF Verify, IsAt

LEMMA UnlinkKeeps ==
    ASSUME Given, Unlink
    PROVE  SameCall /\ PubTypeOK' /\ Invs'
<1>1. job.at = "unlink" /\ UNCHANGED <<dir, data, acts, late, lost>>
  BY DEF Unlink, IsAt
<1>2. CASE dir["dest"] = job.own /\ Go("unlinking")
  <2>1. Turns("unlinking") /\ job'.ok = job.ok
    BY <1>2, Going DEF Given
  <2>2. PubTypeOK'
    BY <1>1, <2>1, TypeStep, CallFacts DEF Turns
  <2> QED
    BY <1>1, <1>2, <2>1, <2>2, CallFacts, SMTT(30) DEF SameCall, Turns, Invs, PhaseInv, NameInv,
       DataInv, BackupInv, LateInv, AloneInv, Fingerprint, Content, Whole, Reachable
<1>3. CASE dir["dest"] # job.own /\ job.moved /\ Go("restore")
  <2>1. Turns("restore") /\ job'.ok = job.ok
    BY <1>3, Going DEF Given
  <2>2. PubTypeOK'
    BY <1>1, <2>1, TypeStep, CallFacts DEF Turns
  <2> QED
    BY <1>1, <1>3, <2>1, <2>2, CallFacts, SMTT(30) DEF SameCall, Turns, Invs, PhaseInv, NameInv,
       DataInv, BackupInv, LateInv, AloneInv, Fingerprint, Content, Whole, Reachable
<1>4. CASE dir["dest"] # job.own /\ ~job.moved /\ Go("cleanup")
  <2>1. Turns("cleanup") /\ job'.ok = job.ok
    BY <1>4, Going DEF Given
  <2>2. PubTypeOK'
    BY <1>1, <2>1, TypeStep, CallFacts DEF Turns
  <2> QED
    BY <1>1, <1>4, <2>1, <2>2, CallFacts, SMTT(30) DEF SameCall, Turns, Invs, PhaseInv, NameInv,
       DataInv, BackupInv, LateInv, AloneInv, Fingerprint, Content, Whole, Reachable
<1> QED
  BY <1>1, <1>2, <1>3, <1>4 DEF Unlink, IsAt, Wrong

LEMMA RestoreKeeps ==
    ASSUME Given, Restore
    PROVE  SameCall /\ PubTypeOK' /\ Invs'
<1>1. job.at \in {"restore", "finally"} /\ UNCHANGED <<dir, data, acts, late, lost>>
  BY DEF Restore, IsAt
<1>2. CASE dir["dest"] = 0 /\ dir["backup"] # 0 /\ Go("restoring")
  <2>1. Turns("restoring") /\ job'.ok = job.ok
    BY <1>2, Going DEF Given
  <2>2. PubTypeOK'
    BY <1>1, <2>1, TypeStep, CallFacts DEF Turns
  <2> QED
    BY <1>1, <1>2, <2>1, <2>2, CallFacts, SMTT(30) DEF SameCall, Turns, Invs, PhaseInv, NameInv,
       DataInv, BackupInv, LateInv, AloneInv, Fingerprint, Content, Whole, Reachable
<1>3. CASE job.at = "restore" /\ (dir["dest"] # 0 \/ dir["backup"] = 0) /\ Go("finally")
  <2>1. Turns("finally") /\ job'.ok = job.ok
    BY <1>3, Going DEF Given
  <2>2. PubTypeOK'
    BY <1>1, <2>1, TypeStep, CallFacts DEF Turns
  <2> QED
    BY <1>1, <1>3, <2>1, <2>2, CallFacts, SMTT(30) DEF SameCall, Turns, Invs, PhaseInv, NameInv,
       DataInv, BackupInv, LateInv, AloneInv, Fingerprint, Content, Whole, Reachable
<1>4. CASE job.at = "finally" /\ (dir["dest"] # 0 \/ dir["backup"] = 0) /\ Go("discard")
  <2>1. Turns("discard") /\ job'.ok = job.ok
    BY <1>4, Going DEF Given
  <2>2. PubTypeOK'
    BY <1>1, <2>1, TypeStep, CallFacts DEF Turns
  <2> QED
    BY <1>1, <1>4, <2>1, <2>2, CallFacts, SMTT(30) DEF SameCall, Turns, Invs, PhaseInv, NameInv,
       DataInv, BackupInv, LateInv, AloneInv, Fingerprint, Content, Whole, Reachable
<1> QED
  BY <1>1, <1>2, <1>3, <1>4 DEF Restore, IsAt

LEMMA CheckApprovedKeeps ==
    ASSUME Given, CheckApproved
    PROVE  SameCall /\ PubTypeOK' /\ Invs'
<1>1. job.at = "opened" /\ job.kind = "export" /\ UNCHANGED <<dir, data, acts, late, lost>>
  BY DEF CheckApproved, IsAt
<1>2. CASE Go("stage") /\ Fingerprint("dest") = job.seen
  <2>1. Turns("stage") /\ job'.ok = job.ok
    BY <1>2, Going DEF Given
  <2>2. PubTypeOK'
    BY <1>1, <2>1, TypeStep, CallFacts DEF Turns
  <2> QED
    BY <1>1, <1>2, <2>1, <2>2, CallFacts, SMTT(30) DEF SameCall, Turns, Invs, PhaseInv, NameInv,
       DataInv, BackupInv, LateInv, AloneInv, Fingerprint, Content, Whole, Reachable
<1>3. CASE Fails("rollback")
  <2>1. Turns("rollback") /\ ~job'.ok
    BY <1>3, Failed DEF Given
  <2>2. PubTypeOK'
    BY <1>1, <2>1, TypeStep, CallFacts DEF Turns
  <2> QED
    BY <1>1, <1>3, <2>1, <2>2, CallFacts, SMTT(30) DEF SameCall, Turns, Invs, PhaseInv, NameInv,
       DataInv, BackupInv, LateInv, AloneInv, Fingerprint, Content, Whole, Reachable
<1> QED
  BY <1>1, <1>2, <1>3 DEF CheckApproved, IsAt

LEMMA PrepareKeeps ==
    ASSUME Given, Prepare
    PROVE  SameCall /\ PubTypeOK' /\ Invs'
<1>1. job.at = "opened" /\ job.kind = "patch" /\ UNCHANGED <<dir, data, acts, late, lost>>
  BY DEF Prepare, IsAt
<1>2. CASE Go("stage")
  <2>1. Turns("stage") /\ job'.ok = job.ok
    BY <1>2, Going DEF Given
  <2>2. PubTypeOK'
    BY <1>1, <2>1, TypeStep, CallFacts DEF Turns
  <2> QED
    BY <1>1, <1>2, <2>1, <2>2, CallFacts, SMTT(30) DEF SameCall, Turns, Invs, PhaseInv, NameInv,
       DataInv, BackupInv, LateInv, AloneInv, Fingerprint, Content, Whole, Reachable
<1>3. CASE Fails("done")
  <2>1. Turns("done") /\ ~job'.ok
    BY <1>3, Failed DEF Given
  <2>2. PubTypeOK'
    BY <1>1, <2>1, TypeStep, CallFacts DEF Turns
  <2> QED
    BY <1>1, <1>3, <2>1, <2>2, CallFacts, SMTT(30) DEF SameCall, Turns, Invs, PhaseInv, NameInv,
       DataInv, BackupInv, LateInv, AloneInv, Fingerprint, Content, Whole, Reachable
<1> QED
  BY <1>1, <1>2, <1>3 DEF Prepare, IsAt

LEMMA WriteFailsKeeps ==
    ASSUME Given, WriteFails
    PROVE  SameCall /\ PubTypeOK' /\ Invs'
<1>1. job.at \in {"check_target", "commit"} /\ UNCHANGED <<dir, data, acts, late, lost>>
  BY DEF WriteFails, IsAt
<1>2. CASE Fails("rollback")
  <2>1. Turns("rollback") /\ ~job'.ok
    BY <1>2, Failed DEF Given
  <2>2. PubTypeOK'
    BY <1>1, <2>1, TypeStep, CallFacts DEF Turns
  <2> QED
    BY <1>1, <1>2, <2>1, <2>2, CallFacts, SMTT(30) DEF SameCall, Turns, Invs, PhaseInv, NameInv,
       DataInv, BackupInv, LateInv, AloneInv, Fingerprint, Content, Whole, Reachable
<1> QED
  BY <1>1, <1>2 DEF WriteFails, IsAt

LEMMA PublishedKeeps ==
    ASSUME Given, Published
    PROVE  SameCall /\ PubTypeOK' /\ Invs'
<1>1. job.at = "published" /\ UNCHANGED <<dir, data, acts, late, lost>>
  BY DEF Published, IsAt
<1>2. CASE job.kind = "export" /\ Fails("rollback")
  <2>1. Turns("rollback") /\ ~job'.ok
    BY <1>2, Failed DEF Given
  <2>2. PubTypeOK'
    BY <1>1, <2>1, TypeStep, CallFacts DEF Turns
  <2> QED
    BY <1>1, <1>2, <2>1, <2>2, CallFacts, SMTT(30) DEF SameCall, Turns, Invs, PhaseInv, NameInv,
       DataInv, BackupInv, LateInv, AloneInv, Fingerprint, Content, Whole, Reachable
<1>3. CASE (job.kind = "export" => Content("dest") = Made) /\ Go("done")
  <2>1. Turns("done") /\ job'.ok = job.ok
    BY <1>3, Going DEF Given
  <2>2. PubTypeOK'
    BY <1>1, <2>1, TypeStep, CallFacts DEF Turns
  <2> QED
    BY <1>1, <1>3, <2>1, <2>2, CallFacts, SMTT(30) DEF SameCall, Turns, Invs, PhaseInv, NameInv,
       DataInv, BackupInv, LateInv, AloneInv, Fingerprint, Content, Whole, Reachable
<1> QED
  BY <1>1, <1>2, <1>3 DEF Published, IsAt

-----------------------------------------------------------------------------
(* Steps that write.                                                       *)

LEMMA ReceiveKeeps ==
    ASSUME Given, Receive
    PROVE  SameCall /\ PubTypeOK' /\ Invs'
<1>1. job.at = "receiving" /\ UNCHANGED <<acts, late, lost>>
  BY DEF Receive, IsAt
<1>2. CASE /\ dir["stage"] = 0 /\ dir' = [dir EXCEPT !["stage"] = Made]
           /\ data' = [data EXCEPT ![Made] = Part] /\ Go("received")
  <2>1. Turns("received") /\ job'.ok = job.ok
    BY <1>2, Going DEF Given
  <2>2. /\ dir' \in [Place -> Inode \cup {0}] /\ data' \in [Inode -> Inode \cup {Part}]
        /\ lost' \subseteq Others
    BY <1>1, <1>2, CallFacts
  <2>3. PubTypeOK'
    BY <1>1, <2>1, <2>2, TypeStep DEF Turns
  <2> QED
    BY <1>1, <1>2, <2>1, <2>2, <2>3, CallFacts, ContentOf, SMTT(30) DEF SameCall, Turns, Invs,
       PhaseInv, NameInv, DataInv, BackupInv, LateInv, AloneInv, Fingerprint, Content, Whole,
       Reachable
<1> QED
  BY <1>1, <1>2 DEF Receive, IsAt

LEMMA FinishKeeps ==
    ASSUME Given, Finish
    PROVE  SameCall /\ PubTypeOK' /\ Invs'
<1>1. job.at = "received" /\ UNCHANGED <<dir, acts, late, lost>>
  BY DEF Finish, IsAt
<1>2. CASE data' = [data EXCEPT ![Made] = Made] /\ Go("check_dest")
  <2>1. Turns("check_dest") /\ job'.ok = job.ok
    BY <1>2, Going DEF Given
  <2>2. /\ dir' \in [Place -> Inode \cup {0}] /\ data' \in [Inode -> Inode \cup {Part}]
        /\ lost' \subseteq Others
    BY <1>1, <1>2, CallFacts
  <2>3. PubTypeOK'
    BY <1>1, <2>1, <2>2, TypeStep DEF Turns
  <2> QED
    BY <1>1, <1>2, <2>1, <2>2, <2>3, CallFacts, ContentOf, SMTT(30) DEF SameCall, Turns, Invs,
       PhaseInv, NameInv, DataInv, BackupInv, LateInv, AloneInv, Fingerprint, Content, Whole,
       Reachable
<1> QED
  BY <1>1, <1>2 DEF Finish, IsAt

LEMMA MoveKeeps ==
    ASSUME Given, Move
    PROVE  SameCall /\ PubTypeOK' /\ Invs'
<1>1. job.at = "move" /\ UNCHANGED <<data, acts, late>>
  BY DEF Move, IsAt
<1>2. CASE dir["dest"] = 0 /\ Fails("discard") /\ UNCHANGED <<dir, lost>>
  <2>1. Turns("discard") /\ ~job'.ok
    BY <1>2, Failed DEF Given
  <2>2. /\ dir' \in [Place -> Inode \cup {0}] /\ data' \in [Inode -> Inode \cup {Part}]
        /\ lost' \subseteq Others
    BY <1>1, <1>2, CallFacts
  <2>3. PubTypeOK'
    BY <1>1, <2>1, <2>2, TypeStep DEF Turns
  <2> QED
    BY <1>1, <1>2, <2>1, <2>2, <2>3, CallFacts, ContentOf, SMTT(30) DEF SameCall, Turns, Invs,
       PhaseInv, NameInv, DataInv, BackupInv, LateInv, AloneInv, Fingerprint, Content, Whole,
       Reachable
<1>3. CASE /\ dir["dest"] # 0 /\ Names([dir EXCEPT !["backup"] = dir["dest"], !["dest"] = 0])
           /\ job' = [job EXCEPT !.at = "moved", !.moved = TRUE]
  <2>1. /\ SameCall
         /\ job'.at = "moved" /\ job'.saved = job.saved /\ job'.seen = job.seen
         /\ job'.own = job.own /\ job'.moved /\ job'.ok = job.ok
    <3>1. job' \in Job
      BY <1>3 DEF Given, Job
    <3>2. job'.kind = job.kind /\ job'.overwrite = job.overwrite
      BY <1>3 DEF Given, Job
    <3>3. SameCall
      BY <3>1, <3>2 DEF Given, SameCall
    <3> QED
      BY <1>3, <3>3, CallFacts DEF Given, Job
  <2>2. /\ dir' \in [Place -> Inode \cup {0}] /\ data' \in [Inode -> Inode \cup {Part}]
        /\ lost' \subseteq Others
    BY <1>1, <1>3, CallFacts DEF Names
  <2>3. PubTypeOK'
    BY <1>1, <2>1, <2>2, TypeStep DEF Turns
  <2>4. PhaseInv' /\ BackupInv'
    BY <1>1, <1>3, <2>1, <2>2, CallFacts DEF SameCall, Names, Invs, PhaseInv, NameInv, BackupInv
  <2>5. NameInv' /\ DataInv'
    BY <1>1, <1>3, <2>1, <2>2, CallFacts, SMTT(30) DEF SameCall, Names, Invs, PhaseInv, NameInv,
       DataInv, BackupInv
  <2>6. LateInv'
    BY <1>1, <1>3, <2>1, <2>2, CallFacts, ContentOf, SMTT(30) DEF SameCall, Names, Invs,
       PhaseInv, NameInv, DataInv, BackupInv, LateInv, Fingerprint, Content, Whole, Reachable
  <2>7. AloneInv'
    BY <1>1, <1>3, <2>1, <2>2, CallFacts, ContentOf, SMTT(30) DEF SameCall, Names, Invs,
       PhaseInv, NameInv, DataInv, BackupInv, LateInv, AloneInv, Fingerprint, Content, Whole,
       Reachable
  <2> QED
    BY <2>1, <2>3, <2>4, <2>5, <2>6, <2>7 DEF SameCall, Invs
<1> QED
  BY <1>1, <1>2, <1>3 DEF Move, IsAt

LEMMA LinkKeeps ==
    ASSUME Given, Link
    PROVE  SameCall /\ PubTypeOK' /\ Invs'
<1>1. job.at = "link" /\ UNCHANGED <<data, acts, late>>
  BY DEF Link, IsAt
<1>2. CASE job.moved /\ Fails("restore") /\ UNCHANGED <<dir, lost>>
  <2>1. Turns("restore") /\ ~job'.ok
    BY <1>2, Failed DEF Given
  <2>2. /\ dir' \in [Place -> Inode \cup {0}] /\ data' \in [Inode -> Inode \cup {Part}]
        /\ lost' \subseteq Others
    BY <1>1, <1>2, CallFacts
  <2>3. PubTypeOK'
    BY <1>1, <2>1, <2>2, TypeStep DEF Turns
  <2> QED
    BY <1>1, <1>2, <2>1, <2>2, <2>3, CallFacts, ContentOf, SMTT(30) DEF SameCall, Turns, Invs,
       PhaseInv, NameInv, DataInv, BackupInv, LateInv, AloneInv, Fingerprint, Content, Whole,
       Reachable
<1>3. CASE ~job.moved /\ Fails("cleanup") /\ UNCHANGED <<dir, lost>>
  <2>1. Turns("cleanup") /\ ~job'.ok
    BY <1>3, Failed DEF Given
  <2>2. /\ dir' \in [Place -> Inode \cup {0}] /\ data' \in [Inode -> Inode \cup {Part}]
        /\ lost' \subseteq Others
    BY <1>1, <1>3, CallFacts
  <2>3. PubTypeOK'
    BY <1>1, <2>1, <2>2, TypeStep DEF Turns
  <2> QED
    BY <1>1, <1>3, <2>1, <2>2, <2>3, CallFacts, ContentOf, SMTT(30) DEF SameCall, Turns, Invs,
       PhaseInv, NameInv, DataInv, BackupInv, LateInv, AloneInv, Fingerprint, Content, Whole,
       Reachable
<1>4. CASE /\ dir["stage"] # 0 /\ dir["dest"] = 0
           /\ Names([dir EXCEPT !["dest"] = dir["stage"]]) /\ Go("linked")
  <2>1. Turns("linked") /\ job'.ok = job.ok
    BY <1>4, Going DEF Given
  <2>2. /\ dir' \in [Place -> Inode \cup {0}] /\ data' \in [Inode -> Inode \cup {Part}]
        /\ lost' \subseteq Others
    BY <1>1, <1>4, CallFacts DEF Names
  <2>3. PubTypeOK'
    BY <1>1, <2>1, <2>2, TypeStep DEF Turns
  <2> QED
    BY <1>1, <1>4, <2>1, <2>2, <2>3, CallFacts, ContentOf, SMTT(30) DEF SameCall, Turns, Names,
       Invs, PhaseInv, NameInv, DataInv, BackupInv, LateInv, AloneInv, Fingerprint, Content,
       Whole, Reachable
<1> QED
  BY <1>1, <1>2, <1>3, <1>4 DEF Link, IsAt, Wrong

LEMMA UnlinkingKeeps ==
    ASSUME Given, Unlinking
    PROVE  SameCall /\ PubTypeOK' /\ Invs'
<1>1. job.at = "unlinking" /\ UNCHANGED <<data, acts, late>>
  BY DEF Unlinking, IsAt
<1>2. CASE job.moved /\ Names([dir EXCEPT !["dest"] = 0]) /\ Go("restore")
  <2>1. Turns("restore") /\ job'.ok = job.ok
    BY <1>2, Going DEF Given
  <2>2. /\ dir' \in [Place -> Inode \cup {0}] /\ data' \in [Inode -> Inode \cup {Part}]
        /\ lost' \subseteq Others
    BY <1>1, <1>2, CallFacts DEF Names
  <2>3. PubTypeOK'
    BY <1>1, <2>1, <2>2, TypeStep DEF Turns
  <2> QED
    BY <1>1, <1>2, <2>1, <2>2, <2>3, CallFacts, ContentOf, SMTT(30) DEF SameCall, Turns, Names,
       Invs, PhaseInv, NameInv, DataInv, BackupInv, LateInv, AloneInv, Fingerprint, Content,
       Whole, Reachable
<1>3. CASE ~job.moved /\ Names([dir EXCEPT !["dest"] = 0]) /\ Go("cleanup")
  <2>1. Turns("cleanup") /\ job'.ok = job.ok
    BY <1>3, Going DEF Given
  <2>2. /\ dir' \in [Place -> Inode \cup {0}] /\ data' \in [Inode -> Inode \cup {Part}]
        /\ lost' \subseteq Others
    BY <1>1, <1>3, CallFacts DEF Names
  <2>3. PubTypeOK'
    BY <1>1, <2>1, <2>2, TypeStep DEF Turns
  <2> QED
    BY <1>1, <1>3, <2>1, <2>2, <2>3, CallFacts, ContentOf, SMTT(30) DEF SameCall, Turns, Names,
       Invs, PhaseInv, NameInv, DataInv, BackupInv, LateInv, AloneInv, Fingerprint, Content,
       Whole, Reachable
<1> QED
  BY <1>1, <1>2, <1>3 DEF Unlinking, IsAt, Wrong

LEMMA RestoringKeeps ==
    ASSUME Given, Restoring
    PROVE  SameCall /\ PubTypeOK' /\ Invs'
<1>1. job.at = "restoring" /\ UNCHANGED <<data, acts, late>>
  BY DEF Restoring, IsAt
<1>2. CASE /\ Names([dir EXCEPT !["dest"] = dir["backup"], !["backup"] = 0])
           /\ job' = [job EXCEPT !.at = "discard", !.moved = FALSE]
  <2>1. /\ SameCall
         /\ job'.at = "discard" /\ job'.saved = job.saved /\ job'.seen = job.seen
         /\ job'.own = job.own /\ ~job'.moved /\ job'.ok = job.ok
    <3>1. job' \in Job
      BY <1>2 DEF Given, Job
    <3>2. job'.kind = job.kind /\ job'.overwrite = job.overwrite
      BY <1>2 DEF Given, Job
    <3>3. SameCall
      BY <3>1, <3>2 DEF Given, SameCall
    <3> QED
      BY <1>2, <3>3, CallFacts DEF Given, Job
  <2>2. /\ dir'["dest"] = dir["backup"] /\ dir'["backup"] = 0 /\ dir'["stage"] = dir["stage"]
        /\ dir' \in [Place -> Inode \cup {0}] /\ data' \in [Inode -> Inode \cup {Part}]
        /\ lost' \subseteq Others
    BY <1>1, <1>2, CallFacts DEF Names
  <2>3. PubTypeOK'
    BY <1>1, <2>1, <2>2, TypeStep DEF Turns
  <2> QED
    BY <1>1, <1>2, <2>1, <2>2, <2>3, CallFacts, ContentOf, SMTT(30) DEF SameCall, Names, Invs,
       PhaseInv, NameInv, DataInv, BackupInv, LateInv, AloneInv, Fingerprint, Content, Whole,
       Reachable
<1> QED
  BY <1>1, <1>2 DEF Restoring, IsAt

LEMMA DiscardKeeps ==
    ASSUME Given, Discard
    PROVE  SameCall /\ PubTypeOK' /\ Invs'
<1>1. job.at = "discard" /\ UNCHANGED <<data, acts, late>>
  BY DEF Discard, IsAt
<1>2. CASE Names([dir EXCEPT !["backup"] = 0]) /\ Go("cleanup")
  <2>1. Turns("cleanup") /\ job'.ok = job.ok
    BY <1>2, Going DEF Given
  <2>2. /\ dir' \in [Place -> Inode \cup {0}] /\ data' \in [Inode -> Inode \cup {Part}]
        /\ lost' \subseteq Others
    BY <1>1, <1>2, CallFacts DEF Names
  <2>3. PubTypeOK'
    BY <1>1, <2>1, <2>2, TypeStep DEF Turns
  <2> QED
    BY <1>1, <1>2, <2>1, <2>2, <2>3, CallFacts, ContentOf, SMTT(30) DEF SameCall, Turns, Names,
       Invs, PhaseInv, NameInv, DataInv, BackupInv, LateInv, AloneInv, Fingerprint, Content,
       Whole, Reachable
<1> QED
  BY <1>1, <1>2 DEF Discard, IsAt

LEMMA CleanupKeeps ==
    ASSUME Given, Cleanup
    PROVE  SameCall /\ PubTypeOK' /\ Invs'
<1>1. job.at = "cleanup" /\ UNCHANGED <<data, acts, late, lost>>
  BY DEF Cleanup, IsAt
<1>2. CASE dir' = [dir EXCEPT !["stage"] = 0] /\ Go("done")
  <2>1. Turns("done") /\ job'.ok = job.ok
    BY <1>2, Going DEF Given
  <2>2. /\ dir' \in [Place -> Inode \cup {0}] /\ data' \in [Inode -> Inode \cup {Part}]
        /\ lost' \subseteq Others
    BY <1>1, <1>2, CallFacts
  <2>3. PubTypeOK'
    BY <1>1, <2>1, <2>2, TypeStep DEF Turns
  <2> QED
    BY <1>1, <1>2, <2>1, <2>2, <2>3, CallFacts, ContentOf, SMTT(30) DEF SameCall, Turns, Invs,
       PhaseInv, NameInv, DataInv, BackupInv, LateInv, AloneInv, Fingerprint, Content, Whole,
       Reachable
<1> QED
  BY <1>1, <1>2, CallFacts DEF Cleanup, IsAt, Invs, PhaseInv

LEMMA StageKeeps ==
    ASSUME Given, Stage
    PROVE  SameCall /\ PubTypeOK' /\ Invs'
<1>1. job.at = "stage" /\ UNCHANGED <<acts, late, lost>>
  BY DEF Stage, IsAt
<1>2. CASE /\ dir' = [dir EXCEPT !["stage"] = Made]
           /\ data' = [data EXCEPT ![Made] = Part] /\ Go("check_target")
  <2>1. Turns("check_target") /\ job'.ok = job.ok
    BY <1>2, Going DEF Given
  <2>2. /\ dir' \in [Place -> Inode \cup {0}] /\ data' \in [Inode -> Inode \cup {Part}]
        /\ lost' \subseteq Others
    BY <1>1, <1>2, CallFacts
  <2>3. PubTypeOK'
    BY <1>1, <2>1, <2>2, TypeStep DEF Turns
  <2> QED
    BY <1>1, <1>2, <2>1, <2>2, <2>3, CallFacts, ContentOf, SMTT(30) DEF SameCall, Turns, Invs,
       PhaseInv, NameInv, DataInv, BackupInv, LateInv, AloneInv, Fingerprint, Content, Whole,
       Reachable
<1> QED
  BY <1>1, <1>2 DEF Stage, IsAt

LEMMA CheckTargetKeeps ==
    ASSUME Given, CheckTarget
    PROVE  SameCall /\ PubTypeOK' /\ Invs'
<1>1. job.at = "check_target" /\ UNCHANGED <<dir, acts, late, lost>>
  BY DEF CheckTarget, IsAt
<1>2. CASE data' = [data EXCEPT ![Made] = Made] /\ Fails("rollback")
  <2>1. Turns("rollback") /\ ~job'.ok
    BY <1>2, Failed DEF Given
  <2>2. /\ dir' \in [Place -> Inode \cup {0}] /\ data' \in [Inode -> Inode \cup {Part}]
        /\ lost' \subseteq Others
    BY <1>1, <1>2, CallFacts
  <2>3. PubTypeOK'
    BY <1>1, <2>1, <2>2, TypeStep DEF Turns
  <2> QED
    BY <1>1, <1>2, <2>1, <2>2, <2>3, CallFacts, ContentOf, SMTT(30) DEF SameCall, Turns, Invs,
       PhaseInv, NameInv, DataInv, BackupInv, LateInv, AloneInv, Fingerprint, Content, Whole,
       Reachable
<1>3. CASE data' = [data EXCEPT ![Made] = Made] /\ Go("commit")
  <2>1. Turns("commit") /\ job'.ok = job.ok
    BY <1>3, Going DEF Given
  <2>2. /\ dir' \in [Place -> Inode \cup {0}] /\ data' \in [Inode -> Inode \cup {Part}]
        /\ lost' \subseteq Others
    BY <1>1, <1>3, CallFacts
  <2>3. PubTypeOK'
    BY <1>1, <2>1, <2>2, TypeStep DEF Turns
  <2> QED
    BY <1>1, <1>3, <2>1, <2>2, <2>3, CallFacts, ContentOf, SMTT(30) DEF SameCall, Turns, Invs,
       PhaseInv, NameInv, DataInv, BackupInv, LateInv, AloneInv, Fingerprint, Content, Whole,
       Reachable
<1> QED
  BY <1>1, <1>2, <1>3 DEF CheckTarget, IsAt

LEMMA CommitKeeps ==
    ASSUME Given, Commit
    PROVE  SameCall /\ PubTypeOK' /\ Invs'
<1>1. job.at = "commit" /\ UNCHANGED <<data, acts, late>>
  BY DEF Commit, IsAt
<1>2. CASE Fails("rollback") /\ UNCHANGED <<dir, lost>>
  <2>1. Turns("rollback") /\ ~job'.ok
    BY <1>2, Failed DEF Given
  <2>2. /\ dir' \in [Place -> Inode \cup {0}] /\ data' \in [Inode -> Inode \cup {Part}]
        /\ lost' \subseteq Others
    BY <1>1, <1>2, CallFacts
  <2>3. PubTypeOK'
    BY <1>1, <2>1, <2>2, TypeStep DEF Turns
  <2> QED
    BY <1>1, <1>2, <2>1, <2>2, <2>3, CallFacts, ContentOf, SMTT(30) DEF SameCall, Turns, Invs,
       PhaseInv, NameInv, DataInv, BackupInv, LateInv, AloneInv, Fingerprint, Content, Whole,
       Reachable
<1>3. CASE Names([dir EXCEPT !["dest"] = dir["stage"], !["stage"] = 0]) /\ Go("published")
  <2>1. Turns("published") /\ job'.ok = job.ok
    BY <1>3, Going DEF Given
  <2>2. /\ dir' \in [Place -> Inode \cup {0}] /\ data' \in [Inode -> Inode \cup {Part}]
        /\ lost' \subseteq Others
    BY <1>1, <1>3, CallFacts DEF Names
  <2>3. PubTypeOK'
    BY <1>1, <2>1, <2>2, TypeStep DEF Turns
  <2> QED
    BY <1>1, <1>3, <2>1, <2>2, <2>3, CallFacts, ContentOf, SMTT(30) DEF SameCall, Turns, Names,
       Invs, PhaseInv, NameInv, DataInv, BackupInv, LateInv, AloneInv, Fingerprint, Content,
       Whole, Reachable
<1> QED
  BY <1>1, <1>2, <1>3 DEF Commit, IsAt

LEMMA RollBackKeeps ==
    ASSUME Given, RollBack
    PROVE  SameCall /\ PubTypeOK' /\ Invs'
<1>1. job.at = "rollback" /\ UNCHANGED <<data, acts, late>>
  BY DEF RollBack, IsAt
<1>2. CASE Names([dir EXCEPT !["dest"] = 0, !["stage"] = 0]) /\ Go("put_back")
  <2>1. Turns("put_back") /\ job'.ok = job.ok
    BY <1>2, Going DEF Given
  <2>2. /\ dir' \in [Place -> Inode \cup {0}] /\ data' \in [Inode -> Inode \cup {Part}]
        /\ lost' \subseteq Others
    BY <1>1, <1>2, CallFacts DEF Names
  <2>3. PubTypeOK'
    BY <1>1, <2>1, <2>2, TypeStep DEF Turns
  <2>4. PhaseInv' /\ BackupInv'
    BY <1>1, <1>2, <2>1, <2>2, CallFacts DEF SameCall, Turns, Names, Invs, PhaseInv, NameInv,
       BackupInv
  <2>5. NameInv' /\ DataInv'
    BY <1>1, <1>2, <2>1, <2>2, CallFacts DEF SameCall, Turns, Names, Invs, PhaseInv, NameInv,
       DataInv, BackupInv
  <2>6. LateInv'
    BY <1>1, <1>2, <2>1, <2>2, CallFacts, ContentOf, SMTT(30) DEF SameCall, Turns, Names, Invs,
       PhaseInv, NameInv, DataInv, BackupInv, LateInv, Fingerprint, Content, Whole, Reachable
  <2>7. AloneInv'
    BY <1>1, <1>2, <2>1, <2>2, CallFacts, ContentOf, SMTT(30) DEF SameCall, Turns, Names, Invs,
       PhaseInv, NameInv, DataInv, BackupInv, LateInv, AloneInv, Fingerprint, Content, Whole,
       Reachable
  <2> QED
    BY <2>1, <2>3, <2>4, <2>5, <2>6, <2>7 DEF Turns, Invs
<1> QED
  BY <1>1, <1>2 DEF RollBack, IsAt

LEMMA PutBackKeeps ==
    ASSUME Given, PutBack
    PROVE  SameCall /\ PubTypeOK' /\ Invs'
<1>1. job.at = "put_back" /\ UNCHANGED <<acts, late>>
  BY DEF PutBack, IsAt
<1>2. CASE /\ Names([dir EXCEPT !["dest"] = IF job.saved = Part THEN 0 ELSE Back])
           /\ data' = [data EXCEPT ![Back] = job.saved] /\ Go("done")
  <2>1. Turns("done") /\ job'.ok = job.ok
    BY <1>2, Going DEF Given
  <2>2. /\ dir' \in [Place -> Inode \cup {0}] /\ data' \in [Inode -> Inode \cup {Part}]
        /\ lost' \subseteq Others
    BY <1>1, <1>2, CallFacts DEF Names
  <2>3. PubTypeOK'
    BY <1>1, <2>1, <2>2, TypeStep DEF Turns
  <2> QED
    BY <1>1, <1>2, <2>1, <2>2, <2>3, CallFacts, ContentOf, SMTT(30) DEF SameCall, Turns, Names,
       Invs, PhaseInv, NameInv, DataInv, BackupInv, LateInv, AloneInv, Fingerprint, Content,
       Whole, Reachable
<1> QED
  BY <1>1, <1>2 DEF PutBack, IsAt

-----------------------------------------------------------------------------
(* Others.                                                                 *)

\* What is the same in every act of others: they act while the call is at work.
LEMMA ActFacts ==
    ASSUME Given, NEW names, NEW contents, Act(names, contents)
    PROVE  /\ job.at \notin {"done", "dead"} /\ acts' = acts + 1 /\ acts' \in 0..MaxActs
           /\ dir' = names /\ data' = contents /\ UNCHANGED <<job, lost>>
           /\ late' \in BOOLEAN /\ (~late' => ~late /\ ~TooLate) /\ acts' # 0
           /\ Back + acts + 1 \in Inode /\ Back + acts + 1 > Back
<1>1. /\ job.at \notin {"done", "dead"} /\ acts < MaxActs /\ acts' = acts + 1
      /\ dir' = names /\ data' = contents /\ late' = (late \/ TooLate) /\ UNCHANGED <<job, lost>>
  BY DEF Act, AtWork
<1>2. /\ acts' \in 0..MaxActs /\ acts' # 0
      /\ Back + acts + 1 \in Inode /\ Back + acts + 1 > Back
  BY <1>1, CallFacts, SMTT(30)
<1>3. late' \in BOOLEAN /\ (~late' => ~late /\ ~TooLate)
  BY <1>1
<1> QED
  BY <1>1, <1>2, <1>3

LEMMA WriteInPlaceKeeps ==
    ASSUME Given, WriteInPlace
    PROVE  PubTypeOK' /\ Invs'
<1>1. PICK i \in {dir["dest"], dir["backup"]} \ {0} :
        Act(dir, [data EXCEPT ![i] = Back + acts + 1])
  BY DEF WriteInPlace
<1>2. /\ job.at \notin {"done", "dead"} /\ acts' = acts + 1 /\ acts' \in 0..MaxActs
      /\ UNCHANGED <<dir, job, lost>> /\ data' = [data EXCEPT ![i] = Back + acts + 1]
      /\ late' \in BOOLEAN /\ (~late' => ~late /\ ~TooLate) /\ acts' # 0
      /\ Back + acts + 1 \in Inode /\ Back + acts + 1 > Back /\ i \in Inode
  BY <1>1, ActFacts, CallFacts
<1>3. PubTypeOK'
  BY <1>2, CallFacts DEF Given, Job, PubTypeOK
<1>4. PhaseInv'
  BY <1>1, <1>2, <1>3, CallFacts, SMTT(30) DEF Invs, PhaseInv
<1>5. NameInv'
  BY <1>1, <1>2, <1>3, CallFacts, SMTT(30) DEF Invs, PhaseInv, NameInv
<1>6. DataInv'
  BY <1>1, <1>2, <1>3, CallFacts, SMTT(30) DEF Invs, PhaseInv, NameInv, DataInv
<1>7. BackupInv'
  BY <1>1, <1>2, <1>3, CallFacts DEF Invs, PhaseInv, NameInv, BackupInv
<1>8. LateInv'
  BY <1>1, <1>2, <1>3, CallFacts, ContentOf DEF TooLate, Invs, PhaseInv, NameInv,
     DataInv, BackupInv, LateInv, Fingerprint, Content, Whole
<1>9. AloneInv'
  BY <1>1, <1>2, <1>3 DEF AloneInv
<1> QED
  BY <1>1, <1>2, <1>3, <1>4, <1>5, <1>6, <1>7, <1>8, <1>9 DEF Invs

LEMMA ReplaceKeeps ==
    ASSUME Given, Replace
    PROVE  PubTypeOK' /\ Invs'
<1>1. /\ job.at \notin {"done", "dead"} /\ acts' = acts + 1 /\ acts' \in 0..MaxActs
      /\ UNCHANGED <<data, job, lost>> /\ dir' = [dir EXCEPT !["dest"] = Back + acts + 1]
      /\ late' \in BOOLEAN /\ (~late' => ~late /\ ~TooLate) /\ acts' # 0
      /\ Back + acts + 1 \in Inode /\ Back + acts + 1 > Back
  BY ActFacts DEF Replace
<1>2. PubTypeOK'
  BY <1>1, CallFacts DEF Given, Job, PubTypeOK
<1>3. PhaseInv'
  BY <1>1, <1>2, CallFacts, SMTT(30) DEF Invs, PhaseInv
<1>4. NameInv'
  BY <1>1, <1>2, CallFacts, SMTT(30) DEF Invs, PhaseInv, NameInv
<1>5. DataInv'
  BY <1>1, <1>2, CallFacts, SMTT(30) DEF Invs, PhaseInv, NameInv, DataInv
<1>6. BackupInv'
  BY <1>1, <1>2, CallFacts DEF Invs, PhaseInv, NameInv, BackupInv
<1>7. LateInv'
  BY <1>1, <1>2, CallFacts, ContentOf DEF TooLate, Invs, PhaseInv, NameInv,
     DataInv, BackupInv, LateInv, Fingerprint, Content, Whole
<1>8. AloneInv'
  BY <1>1, <1>2 DEF AloneInv
<1> QED
  BY <1>1, <1>2, <1>3, <1>4, <1>5, <1>6, <1>7, <1>8 DEF Invs

LEMMA ReplaceStagedKeeps ==
    ASSUME Given, ReplaceStaged
    PROVE  PubTypeOK' /\ Invs'
<1>1. /\ job.at \notin {"done", "dead"} /\ acts' = acts + 1 /\ acts' \in 0..MaxActs
      /\ UNCHANGED <<job, lost>> /\ dir' = [dir EXCEPT !["stage"] = Back + acts + 1]
      /\ data' = [data EXCEPT ![Back + acts + 1] = Stray] /\ dir["stage"] # 0
      /\ late' \in BOOLEAN /\ (~late' => ~late /\ ~TooLate) /\ acts' # 0
      /\ Back + acts + 1 \in Inode /\ Back + acts + 1 > Back
  BY ActFacts DEF ReplaceStaged
<1>2. PubTypeOK'
  BY <1>1, CallFacts DEF Given, Job, PubTypeOK
<1>3. PhaseInv'
  BY <1>1, <1>2, CallFacts, SMTT(30) DEF Invs, PhaseInv
<1>4. NameInv'
  BY <1>1, <1>2, CallFacts, SMTT(30) DEF Invs, PhaseInv, NameInv
<1>5. DataInv'
  BY <1>1, <1>2, CallFacts, SMTT(30) DEF Invs, PhaseInv, NameInv, DataInv
<1>6. BackupInv'
  BY <1>1, <1>2, CallFacts DEF Invs, PhaseInv, NameInv, BackupInv
<1>7. LateInv'
  BY <1>1, <1>2, CallFacts, ContentOf DEF TooLate, Invs, PhaseInv, NameInv,
     DataInv, BackupInv, LateInv, Fingerprint, Content, Whole
<1>8. AloneInv'
  BY <1>1, <1>2 DEF AloneInv
<1> QED
  BY <1>1, <1>2, <1>3, <1>4, <1>5, <1>6, <1>7, <1>8 DEF Invs

LEMMA DeleteKeeps ==
    ASSUME Given, Delete
    PROVE  PubTypeOK' /\ Invs'
<1>1. /\ job.at \notin {"done", "dead"} /\ acts' = acts + 1 /\ acts' \in 0..MaxActs
      /\ UNCHANGED <<data, job, lost>> /\ dir' = [dir EXCEPT !["dest"] = 0] /\ dir["dest"] # 0
      /\ late' \in BOOLEAN /\ (~late' => ~late /\ ~TooLate) /\ acts' # 0
  BY ActFacts DEF Delete
<1>2. PubTypeOK'
  BY <1>1, CallFacts DEF Given, Job, PubTypeOK
<1>3. PhaseInv'
  BY <1>1, <1>2, CallFacts, SMTT(30) DEF Invs, PhaseInv
<1>4. NameInv'
  BY <1>1, <1>2, CallFacts, SMTT(30) DEF Invs, PhaseInv, NameInv
<1>5. DataInv'
  BY <1>1, <1>2, CallFacts, SMTT(30) DEF Invs, PhaseInv, NameInv, DataInv
<1>6. BackupInv'
  BY <1>1, <1>2, CallFacts DEF Invs, PhaseInv, NameInv, BackupInv
<1>7. LateInv'
  BY <1>1, <1>2, CallFacts, ContentOf DEF TooLate, Invs, PhaseInv, NameInv,
     DataInv, BackupInv, LateInv, Fingerprint, Content, Whole
<1>8. AloneInv'
  BY <1>1, <1>2 DEF AloneInv
<1> QED
  BY <1>1, <1>2, <1>3, <1>4, <1>5, <1>6, <1>7, <1>8 DEF Invs

LEMMA AbortKeeps ==
    ASSUME Given, Abort
    PROVE  SameCall /\ PubTypeOK' /\ Invs'
<1>1. job' = [job EXCEPT !.aborted = TRUE] /\ UNCHANGED <<dir, data, acts, late, lost>>
  BY DEF Abort
<1>2. job' \in Job
  BY <1>1 DEF Given, Job
<1>3. /\ job'.kind = job.kind /\ job'.overwrite = job.overwrite /\ job'.at = job.at
      /\ job'.saved = job.saved /\ job'.seen = job.seen /\ job'.own = job.own
      /\ job'.moved = job.moved /\ job'.ok = job.ok
  BY <1>1 DEF Given, Job
<1>4. SameCall
  BY <1>2, <1>3 DEF Given, SameCall
<1>5. PubTypeOK'
  BY <1>1, <1>4, TypeStep, CallFacts
<1> QED
  BY <1>1, <1>3, <1>4, <1>5, CallFacts, ContentOf DEF Invs, PhaseInv, NameInv, DataInv, BackupInv,
     LateInv, AloneInv, Fingerprint, Content, Whole, Reachable

LEMMA CrashKeeps ==
    ASSUME Given, Crash
    PROVE  SameCall /\ PubTypeOK' /\ Invs'
<1>1. Go("dead") /\ UNCHANGED <<dir, data, acts, late, lost>> /\ job.at \notin {"done", "dead"}
  BY DEF Crash, AtWork
<1>2. Turns("dead") /\ job'.ok = job.ok
  BY <1>1, Going DEF Given
<1>3. PubTypeOK'
  BY <1>1, <1>2, TypeStep, CallFacts DEF Turns
<1> QED
  BY <1>1, <1>2, <1>3, CallFacts, ContentOf DEF SameCall, Turns, Invs, PhaseInv, NameInv, DataInv,
     BackupInv, LateInv, AloneInv, Fingerprint, Content, Whole, Reachable

\* A call begins in a workspace that nobody has touched.
LEMMA CallKeeps ==
    ASSUME NoJob \notin Job, MaxActs \in Nat, PubTypeOK, Untouched, NEW kind \in Kind,
           NEW overwrite \in BOOLEAN, Call(kind, overwrite)
    PROVE  job' # NoJob /\ PubTypeOK' /\ Invs'
<1>1. /\ dir \in [Place -> Inode \cup {0}] /\ data \in [Inode -> Inode \cup {Part}]
      /\ UNCHANGED <<dir, data, acts, late, lost>>
      /\ acts = 0 /\ late = FALSE /\ lost = {} /\ dir["dest"] \in {0, Old}
      /\ dir["stage"] = 0 /\ dir["backup"] = 0 /\ data = [i \in Inode |-> i]
  BY DEF PubTypeOK, Untouched, Call
<1>0. Old \in Inode /\ data[Old] = Old
  BY <1>1
<1>2. PICK shown \in (Inode \cup {0}) \X (Inode \cup {0}) : shown = Fingerprint("dest")
  <2>1. Fingerprint("dest") \in {<<0, 0>>, <<Old, Old>>}
    BY <1>0, <1>1 DEF Fingerprint
  <2>2. {<<0, 0>>, <<Old, Old>>} \subseteq (Inode \cup {0}) \X (Inode \cup {0})
    BY <1>0
  <2> QED
    BY <2>1, <2>2
<1>3. job' = [kind |-> kind, overwrite |-> overwrite, at |-> "asked", saved |-> Part,
              seen |-> shown, own |-> Made, moved |-> FALSE, aborted |-> FALSE, ok |-> TRUE]
  BY <1>2 DEF Call
<1>4. job' \in Job
  BY <1>3 DEF Job
<1>5. job' # NoJob
  BY <1>4
<1>6. PubTypeOK'
  BY <1>1, <1>4 DEF Job, PubTypeOK
<1>7. /\ job'.kind = kind /\ job'.at = "asked" /\ job'.saved = Part /\ job'.seen = shown
      /\ job'.own = Made /\ ~job'.moved /\ job'.ok
  BY <1>3
<1> QED
  BY <1>1, <1>2, <1>5, <1>6, <1>7, ContentOf DEF Invs, PhaseInv, NameInv, DataInv, BackupInv,
     LateInv, AloneInv, Fingerprint, Content, Whole, Reachable

-----------------------------------------------------------------------------
(* The step as a whole.                                                    *)

LEMMA PubStep ==
    ASSUME NoJob \notin Job, MaxActs \in Nat, PubInv, PubNext
    PROVE  PubInv'
<1>1. CASE job = NoJob
  <2>1. PubTypeOK /\ Untouched
    BY <1>1 DEF PubInv
  <2>2. \E kind \in Kind, overwrite \in BOOLEAN : Call(kind, overwrite)
    BY <1>1 DEF PubNext, CallStep, PlanDownload, AskExport, AskPatch, Checkpoint, Baseline,
       Receive, Finish, RequestFails, CheckDest, Move, CheckMoved, CheckStage, Link, CheckLinked,
       Verify, Unlink, Unlinking, Restore, Restoring, Discard, Cleanup, CheckApproved, Prepare, Stage,
       CheckTarget, WriteFails, Commit, Published, RollBack, PutBack, IsAt, WriteInPlace, Replace,
       ReplaceStaged, Delete, Abort, Crash, Act, AtWork
  <2> QED
    BY <2>1, <2>2, CallKeeps DEF PubInv
<1>2. CASE job # NoJob
  <2>1. Given
    BY <1>2 DEF PubInv, PubTypeOK, Given, Job
  <2>2. ~PlanDownload /\ ~AskExport /\ ~AskPatch
    BY <1>2 DEF PlanDownload, AskExport, AskPatch, Call
  <2>3. CASE CallStep
    <3>1. SameCall /\ PubTypeOK' /\ Invs'
      BY <2>1, <2>3, CheckpointKeeps, BaselineKeeps, ReceiveKeeps, FinishKeeps, RequestFailsKeeps,
         CheckDestKeeps, MoveKeeps, CheckMovedKeeps, CheckStageKeeps, LinkKeeps, CheckLinkedKeeps,
         VerifyKeeps, UnlinkKeeps, UnlinkingKeeps, RestoreKeeps, RestoringKeeps, DiscardKeeps,
         CleanupKeeps, CheckApprovedKeeps, PrepareKeeps, StageKeeps, CheckTargetKeeps,
         WriteFailsKeeps, CommitKeeps, PublishedKeeps, RollBackKeeps, PutBackKeeps DEF CallStep
    <3> QED
      BY <3>1 DEF PubInv, SameCall
  <2>4. CASE WriteInPlace \/ Replace \/ ReplaceStaged \/ Delete
    <3>1. PubTypeOK' /\ Invs'
      BY <2>1, <2>4, WriteInPlaceKeeps, ReplaceKeeps, ReplaceStagedKeeps, DeleteKeeps
    <3>2. job' = job
      BY <2>4 DEF WriteInPlace, Replace, ReplaceStaged, Delete, Act
    <3> QED
      BY <1>2, <3>1, <3>2 DEF PubInv
  <2>5. CASE Abort \/ Crash
    <3>1. SameCall /\ PubTypeOK' /\ Invs'
      BY <2>1, <2>5, AbortKeeps, CrashKeeps
    <3> QED
      BY <3>1 DEF PubInv, SameCall
  <2> QED
    BY <2>2, <2>3, <2>4, <2>5 DEF PubNext
<1> QED
  BY <1>1, <1>2

LEMMA PubInvariance ==
    ASSUME NoJob \notin Job, MaxActs \in Nat
    PROVE  PubSpec => []PubInv
<1>1. PubInit => PubInv
  <2> SUFFICES ASSUME PubInit PROVE PubInv
    OBVIOUS
  <2>1. PICK i \in {0, Old} : dir = [p \in Place |-> IF p = "dest" THEN i ELSE 0]
    BY DEF PubInit
  <2>2. job = NoJob /\ Untouched
    BY <2>1 DEF PubInit, Untouched
  <2>3. PubTypeOK
    <3>1. i \in Inode \cup {0}
      OBVIOUS
    <3>2. dir \in [Place -> Inode \cup {0}] /\ data \in [Inode -> Inode \cup {Part}]
      BY <2>1, <3>1 DEF PubInit
    <3>3. acts = 0 /\ late = FALSE /\ lost = {}
      BY <2>2 DEF Untouched
    <3>4. acts \in 0..MaxActs /\ lost \subseteq Others
      BY <3>3
    <3>5. late \in BOOLEAN
      BY <3>3
    <3> QED
      BY <2>2, <3>2, <3>4, <3>5 DEF PubTypeOK
  <2> QED
    BY <2>2, <2>3 DEF PubInv
<1>2. PubInv /\ [PubNext]_pubVars => PubInv'
  <2>1. CASE UNCHANGED pubVars
    BY <2>1 DEF pubVars, PubInv, PubTypeOK, Untouched, Invs, PhaseInv, NameInv, DataInv, BackupInv,
       LateInv, AloneInv, Fingerprint, Content, Reachable
  <2> QED
    BY <2>1, PubStep
<1> QED
  BY <1>1, <1>2, PTL DEF PubSpec

-----------------------------------------------------------------------------
(* The theorems.                                                           *)

\* What a call works on stays what it is, for any acts of others.
THEOREM PublicationTypeCorrect ==
    ASSUME NoJob \notin Job, MaxActs \in Nat
    PROVE  PubSpec => []PubTypeOK
<1>1. PubInv => PubTypeOK
  BY DEF PubInv
<1> QED
  BY <1>1, PubInvariance, PTL

\* Nobody finds half of a file, success is whole, failure keeps what was there, and a download
\* destroys nothing of what others did unless they act in an instant in which it does not look.
THEOREM PublishedFilesAreSound ==
    ASSUME NoJob \notin Job, MaxActs \in Nat
    PROVE  PubSpec => []PublicationSound
<1>1. PubInv => NeverPartial
  BY DEF PubInv, Untouched, PubTypeOK, Invs, NameInv, DataInv, NeverPartial, Content, Fingerprint
<1>2. PubInv => SuccessIsWhole
  BY DEF PubInv, Invs, LateInv, AloneInv, SuccessIsWhole, IsAt
<1>3. PubInv => FailureKeepsOld
  BY DEF PubInv, Invs, LateInv, AloneInv, FailureKeepsOld, IsAt
<1>4. PubInv => OthersKept
  BY DEF PubInv, Invs, LateInv, OthersKept
<1> QED
  BY <1>1, <1>2, <1>3, <1>4, PubInvariance, PTL DEF PublicationSound
=============================================================================
