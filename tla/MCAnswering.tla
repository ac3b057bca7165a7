------------------------------ MODULE MCAnswering ------------------------------
(***************************************************************************)
(* Instances of ClaimLease, UserInputResponse and CliShell for TLC.  A      *)
(* behaviour is about one part, told by the responders that act in it:      *)
(*   all of them  the lease alone; they may die at any point                *)
(*   two of them  they answer a question; neither dies in a takeover        *)
(*   none         the shell that asks the questions                         *)
(* In the first a monitor watches: a call is alone when it started after    *)
(* every other one had ended and whatever they left behind had gone stale,  *)
(* and none has moved since.                                                *)
(***************************************************************************)
EXTENDS UserInputResponse, TLC

Symmetry == Permutations(Responder) \cup Permutations(Answer)

CONSTANTS MaxRequests, MaxTurns, MaxInterrupts  \* of CliShell

VARIABLES
    actors, alone,
    shell, turn, log, status, shellInterrupt, turns, interrupts  \* of CliShell

Cli == INSTANCE CliShell WITH interrupt <- shellInterrupt

monitorVars == <<actors, alone>>
shellVars == <<shell, turn, log, status, shellInterrupt, turns, interrupts>>

MCInit ==
    /\ Init
    /\ alone = [r \in Responder |-> FALSE]
    /\ Cli!Init
    /\ \/ actors \in {{}, Responder} /\ session = "waiting" /\ mode = "blocking"
       \/ actors \in {pair \in SUBSET Responder : Cardinality(pair) = 2}
    /\ actors # {} => status = None

IsLease == actors = Responder

Quiet(r) ==
    /\ \A q \in Responder \ {r} : at[q] \in {"idle"} \cup Ended
    /\ ~Fresh(takeover) /\ ~Fresh(lease) /\ \A q \in Responder : ~Fresh(gens[q])

OnLease ==
    /\ IsLease
    /\ \/ \E r \in Responder :
            /\ Start(r) \/ LeaseStep(r) \/ RenewCheck(r) \/ Crash(r)
            /\ alone' = [q \in Responder |->
                           q = r /\ (IF at[r] = "idle" THEN Quiet(r) ELSE alone[r])]
       \/ Tick /\ UNCHANGED alone
    /\ UNCHANGED <<requestVars, actors, shellVars>>

OnQuestion ==
    /\ Cardinality(actors) = 2
    /\ \/ \E r \in actors : Respond(r) \/ MainStep(r) \/ RenewStep(r) \/ Beat(r)
       \/ \E r \in actors : PhaseOf(at[r]) # "takeover" /\ ResponderDies(r)
       \/ InterruptSession \/ RecoverSession \/ TimePasses
    /\ UNCHANGED <<monitorVars, shellVars>>

OnShell == actors = {} /\ Cli!Next /\ UNCHANGED <<vars, monitorVars>>

MCSpec == MCInit /\ [][OnLease \/ OnQuestion \/ OnShell]_<<vars, monitorVars, shellVars>>

\* Wherever earlier calls died, in a claim, a takeover, at work or in a release, what they left
\* behind refuses no later call: one that meets only stale leftovers gets the lease.
LeftoversNeverRefuse == \A r \in Responder : alone[r] => at[r] # "failed"

\* CliShell!AsksWhatWaits: a shell asks for what its session waits for.
ShellAsksWhatWaits == Cli!AsksWhatWaits
=============================================================================
