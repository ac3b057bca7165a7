------------------------------- MODULE Transcript -------------------------------
(***************************************************************************)
(* What the log of a session promises to model providers: a turn issues    *)
(* tool calls only when its earlier calls all have a result, and a call    *)
(* gets one result, from whoever comes to give it: the turn, the           *)
(* continuation of the turn after an approval, or a recovery.              *)
(***************************************************************************)
EXTENDS Naturals

CONSTANTS Turn, Call, NoTurn

VARIABLES
    begun,    \* turns with a record in the log
    issuer,   \* the turn that issued a call, or NoTurn
    results   \* how many results a call has

vars == <<begun, issuer, results>>

Init ==
    /\ begun = {}
    /\ issuer = [c \in Call |-> NoTurn]
    /\ results = [c \in Call |-> 0]

Begin(t) ==
    /\ t \notin begun
    /\ begun' = begun \cup {t}
    /\ UNCHANGED <<issuer, results>>

Issue(t, calls) ==
    /\ t \in begun
    /\ \A c \in Call : issuer[c] = t => results[c] = 1
    /\ \A c \in calls : issuer[c] = NoTurn
    /\ issuer' = [c \in Call |-> IF c \in calls THEN t ELSE issuer[c]]
    /\ UNCHANGED <<begun, results>>

Answer(c) ==
    /\ issuer[c] # NoTurn
    /\ results[c] = 0
    /\ results' = [results EXCEPT ![c] = 1]
    /\ UNCHANGED <<begun, issuer>>

Next ==
    \/ \E t \in Turn : Begin(t) \/ \E calls \in SUBSET Call : Issue(t, calls)
    \/ \E c \in Call : Answer(c)

Spec == Init /\ [][Next]_vars
=============================================================================
