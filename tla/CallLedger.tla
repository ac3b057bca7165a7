------------------------------- MODULE CallLedger -------------------------------
(***************************************************************************)
(* What the tool runtime promises for a call that acts outside the         *)
(* workspace: the call is entered in a durable ledger before it acts, it   *)
(* acts at most once, and a closed entry is never reopened.                *)
(***************************************************************************)
EXTENDS Naturals

CONSTANT Call

VARIABLES
    ledger,   \* "blank", "open" or "closed" for each call
    applied   \* how often the call has acted

vars == <<ledger, applied>>

TypeOK ==
    /\ ledger \in [Call -> {"blank", "open", "closed"}]
    /\ applied \in [Call -> 0..1]

Init ==
    /\ ledger = [c \in Call |-> "blank"]
    /\ applied = [c \in Call |-> 0]

Open(c) ==
    /\ ledger[c] = "blank"
    /\ ledger' = [ledger EXCEPT ![c] = "open"]
    /\ UNCHANGED applied

Act(c) ==
    /\ ledger[c] # "blank"
    /\ applied[c] = 0
    /\ applied' = [applied EXCEPT ![c] = 1]
    /\ UNCHANGED ledger

\* From "blank" too: a call that fails before it could act is closed without acting.
Close(c) ==
    /\ ledger' = [ledger EXCEPT ![c] = "closed"]
    /\ UNCHANGED applied

Next == \E c \in Call : Open(c) \/ Act(c) \/ Close(c)

Spec == Init /\ [][Next]_vars
=============================================================================
