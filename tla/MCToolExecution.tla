---------------------------- MODULE MCToolExecution ----------------------------
(***************************************************************************)
(* Instances of ToolExecution for TLC.  c1 and c2 are identical high-risk   *)
(* requests to an external system under two call identities, c3 writes      *)
(* workspace files only.  A behaviour is about one part:                    *)
(*   "one_process"  three tasks of p1 and the two identical calls           *)
(*   "processes"    a task in each of two auto processes and a plan         *)
(*                  process, with an external call and a write              *)
(***************************************************************************)
EXTENDS ToolExecution, TLC

CONSTANTS p1, p2, p3, t1, t2, t3, u1, u2, u3, c1, c2, c3, k1, k2

Keys == (c1 :> k1) @@ (c2 :> k1) @@ (c3 :> k2)
Effects == (c1 :> "high") @@ (c2 :> "high") @@ (c3 :> "low")
Modes == (p1 :> "auto") @@ (p2 :> "auto") @@ (p3 :> "plan")
Together == {t1, t2, t3}
Apart == {u1, u2, u3}
Processes == [t \in Together |-> p1] @@ (u1 :> p1) @@ (u2 :> p2) @@ (u3 :> p3)

\* The tasks of one process are interchangeable.
Symmetry == Permutations(Together)

VARIABLE part

MCInit == Init /\ part \in {"one_process", "processes"}

Acting == IF part = "one_process" THEN Together ELSE Apart

MCNext ==
    /\ UNCHANGED part
    /\ \/ \E t \in Acting : /\ ExecuteStep(t) \/ ResolveStep(t)
                            /\ call'[t] # (IF part = "one_process" THEN c3 ELSE c2)
       \/ \E p \in Process : Crash(p)
    /\ part = "processes" => approvalCount' <= 1 /\ consentCount' <= 1

MCSpec == MCInit /\ [][MCNext]_<<vars, part>>

\* ApprovalResolvedOnce holds of a single process.
ResolvedOnceByOneProcess == part = "one_process" => ApprovalResolvedOnce
=============================================================================
