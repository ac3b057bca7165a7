------------------------------ MODULE ClaimLease ------------------------------
(***************************************************************************)
(* The lease of a user-input request: the directories with which           *)
(* SessionStore's claimUserInputRequest, renewUserInputClaim and           *)
(* releaseUserInputClaim let one responder at a time answer a request.     *)
(*                                                                         *)
(*   <request>.json.lease/             the lease                           *)
(*   <request>.json.lease/<leaseId>/   the generation of its owner; its    *)
(*                                     mtime is the owner's heartbeat      *)
(*   <request>.json.lease.takeover/    held while a stale lease is replaced *)
(*                                                                         *)
(* Responders are calls in any number of processes and meet only in the    *)
(* file system, where a mkdir, rmdir, rename or utimes is one step.  Time  *)
(* is the age of each directory, counted in ticks up to Stale, at which    *)
(* USER_INPUT_CLAIM_STALE_MS have passed.                                  *)
(***************************************************************************)
EXTENDS Naturals, FiniteSets, FiniteSetsExt

CONSTANTS
    Responder,   \* calls of respondToUserInput, each used once; also their lease ids
    Stale,       \* USER_INPUT_CLAIM_STALE_MS, in ticks
    Stalls,      \* phases in which a live responder may be held up for longer than that
    Crashes,     \* phases in which a responder may die
    None         \* no such directory

Phase == {"claim", "takeover", "work", "release"}

ASSUME ClaimLeaseAssumption ==
    /\ Stale \in Nat \ {0}
    /\ Stalls \subseteq Phase
    /\ Crashes \subseteq Phase
    /\ None \notin Nat

VARIABLES
    at,        \* where a responder stands in claimUserInputRequest or releaseUserInputClaim
    lease,     \* age of the lease directory
    gens,      \* age of each responder's generation in it
    takeover,  \* age of the takeover directory
    beat       \* renewUserInputClaim of a responder: a chain of renewals, one at a time

leaseVars == <<at, lease, gens, takeover, beat>>

Age == 0..Stale
Releasing == {"release", "drop_generation", "drop_lease"}
Dead == {"died", "died_replacing"}
Ended == {"done", "failed"} \cup Dead
Location == {"idle", "try", "clear", "make", "generate", "heartbeat", "retry", "lock", "relock",
             "lock_again", "recheck", "rename", "remake", "regenerate", "unlock",
             "unlock_failed", "owner"} \cup Releasing \cup Ended

TypeOK ==
    /\ at \in [Responder -> Location]
    /\ lease \in Age \cup {None}
    /\ gens \in [Responder -> Age \cup {None}]
    /\ takeover \in Age \cup {None}
    /\ beat \in [Responder -> {"idle", "clear", "touch", "lost"}]

LeaseInit ==
    /\ at = [r \in Responder |-> "idle"]
    /\ lease = None
    /\ gens = [r \in Responder |-> None]
    /\ takeover = None
    /\ beat = [r \in Responder |-> "idle"]

Fresh(age) == age # None /\ age < Stale

\* Mutant: the lease directory's own mtime is taken for the heartbeat.
HeartbeatOfLease == lease

\* readLeaseHeartbeatMs: the youngest generation, or the lease itself when it has none.
Generations == {r \in Responder : gens[r] # None}
Heartbeat == IF Generations = {} THEN lease ELSE Min({gens[r] : r \in Generations})

Goto(r, l) == at' = [at EXCEPT ![r] = l]

-----------------------------------------------------------------------------
(* Claiming.                                                               *)

Start(r) ==
    /\ at[r] = "idle"
    /\ Goto(r, "try")
    /\ UNCHANGED <<lease, gens, takeover, beat>>

\* Mutant: a takeover lock that a crash left behind is never removed.
InspectTakeoverOnly(r) ==
    /\ at[r] = "try"
    /\ Goto(r, IF takeover = None THEN "make" ELSE "failed")
    /\ UNCHANGED <<lease, gens, takeover, beat>>

\* The stat of the takeover lock; a stale one is removed in a step of its own.
InspectTakeover(r) ==
    /\ at[r] = "try"
    /\ Goto(r, IF takeover = None THEN "make" ELSE IF Fresh(takeover) THEN "failed" ELSE "clear")
    /\ UNCHANGED <<lease, gens, takeover, beat>>

ClearTakeover(r) ==
    /\ at[r] \in {"clear", "relock"}
    /\ takeover' = None
    /\ Goto(r, IF at[r] = "clear" THEN "make" ELSE "lock_again")
    /\ UNCHANGED <<lease, gens, beat>>

\* mkdir leasePath: first, after a lease that vanished, and after a lease moved away.
MakeLease(r) ==
    /\ at[r] \in {"make", "retry", "remake"}
    /\ lease = None
    /\ lease' = 0
    /\ Goto(r, IF at[r] = "remake" THEN "regenerate" ELSE "generate")
    /\ UNCHANGED <<gens, takeover, beat>>

LeaseExists(r) ==
    /\ lease # None
    /\ \/ at[r] = "make" /\ Goto(r, "heartbeat")
       \/ at[r] = "retry" /\ Goto(r, "failed")
       \/ at[r] = "remake" /\ Goto(r, "unlock_failed")
    /\ UNCHANGED <<lease, gens, takeover, beat>>

\* mkdir leasePath/leaseId, in whichever lease directory is there by now.
MakeGeneration(r) ==
    /\ at[r] \in {"generate", "regenerate"}
    /\ lease # None
    /\ lease' = 0
    /\ gens' = [gens EXCEPT ![r] = 0]
    /\ Goto(r, IF at[r] = "generate" THEN "owner" ELSE "unlock")
    /\ UNCHANGED <<takeover, beat>>

LeaseVanished(r) ==
    /\ lease = None
    /\ \/ at[r] = "generate" /\ Goto(r, "failed")
       \/ at[r] = "heartbeat" /\ Goto(r, "retry")
       \/ at[r] \in {"regenerate", "recheck", "rename"} /\ Goto(r, "unlock_failed")
    /\ UNCHANGED <<lease, gens, takeover, beat>>

\* Mutant: the heartbeat is not read again under the takeover lock.
ReadHeartbeatOnce(r) ==
    /\ lease # None
    /\ \/ at[r] = "heartbeat" /\ Goto(r, IF Fresh(Heartbeat) THEN "failed" ELSE "lock")
       \/ at[r] = "recheck" /\ Goto(r, "rename")
    /\ UNCHANGED <<lease, gens, takeover, beat>>

ReadHeartbeat(r) ==
    /\ lease # None
    /\ \/ at[r] = "heartbeat" /\ Goto(r, IF Fresh(Heartbeat) THEN "failed" ELSE "lock")
       \/ at[r] = "recheck" /\ Goto(r, IF Fresh(Heartbeat) THEN "unlock_failed" ELSE "rename")
    /\ UNCHANGED <<lease, gens, takeover, beat>>

LockTakeover(r) ==
    /\ at[r] \in {"lock", "lock_again"}
    /\ takeover = None
    /\ takeover' = 0
    /\ Goto(r, "recheck")
    /\ UNCHANGED <<lease, gens, beat>>

TakeoverExists(r) ==
    /\ takeover # None
    /\ \/ at[r] = "lock" /\ Goto(r, IF Fresh(takeover) THEN "failed" ELSE "relock")
       \/ at[r] = "lock_again" /\ Goto(r, "failed")
    /\ UNCHANGED <<lease, gens, takeover, beat>>

\* rename leasePath away, with every generation in it.
MoveLease(r) ==
    /\ at[r] = "rename"
    /\ lease # None
    /\ lease' = None
    /\ gens' = [q \in Responder |-> None]
    /\ Goto(r, "remake")
    /\ UNCHANGED <<takeover, beat>>

\* The finally block: the takeover lock is removed, whoever made it.
UnlockTakeover(r) ==
    /\ at[r] \in {"unlock", "unlock_failed"}
    /\ takeover' = None
    /\ Goto(r, IF at[r] = "unlock" THEN "owner" ELSE "failed")
    /\ UNCHANGED <<lease, gens, beat>>

Claim(r) ==
    \/ InspectTakeover(r) \/ ClearTakeover(r) \/ MakeLease(r) \/ LeaseExists(r)
    \/ MakeGeneration(r) \/ LeaseVanished(r) \/ ReadHeartbeat(r) \/ LockTakeover(r)
    \/ TakeoverExists(r) \/ MoveLease(r) \/ UnlockTakeover(r)

-----------------------------------------------------------------------------
(* Renewing: the heartbeat timer and assertLease queue the same renewal.    *)

RenewCheck(r) ==
    /\ at[r] = "owner"
    /\ beat[r] = "idle"
    /\ beat' = [beat EXCEPT ![r] = IF takeover = None THEN "touch"
                                   ELSE IF Fresh(takeover) THEN "lost" ELSE "clear"]
    /\ UNCHANGED <<at, lease, gens, takeover>>

RenewClear(r) ==
    /\ beat[r] = "clear"
    /\ takeover' = None
    /\ beat' = [beat EXCEPT ![r] = "touch"]
    /\ UNCHANGED <<at, lease, gens>>

\* utimes of the generation: a missing one is a lost lease.
RenewTouch(r) ==
    /\ beat[r] = "touch"
    /\ IF gens[r] = None
         THEN beat' = [beat EXCEPT ![r] = "lost"] /\ UNCHANGED gens
         ELSE beat' = [beat EXCEPT ![r] = "idle"] /\ gens' = [gens EXCEPT ![r] = 0]
    /\ UNCHANGED <<at, lease, takeover>>

Renew(r) == RenewClear(r) \/ RenewTouch(r)

-----------------------------------------------------------------------------
(* Releasing.                                                              *)

\* releaseClaim stops the timer and waits for the renewal under way.
BeginRelease(r) ==
    /\ at[r] = "owner"
    /\ beat[r] \in {"idle", "lost"}
    /\ Goto(r, "release")
    /\ UNCHANGED <<lease, gens, takeover, beat>>

\* A responder whose generation is gone leaves everything alone.
InspectGeneration(r) ==
    /\ at[r] = "release"
    /\ Goto(r, IF gens[r] = None THEN "done" ELSE "drop_generation")
    /\ UNCHANGED <<lease, gens, takeover, beat>>

DropGeneration(r) ==
    /\ at[r] = "drop_generation"
    /\ gens' = [gens EXCEPT ![r] = None]
    /\ lease' = IF gens[r] = None THEN lease ELSE 0
    /\ Goto(r, "drop_lease")
    /\ UNCHANGED <<takeover, beat>>

\* rmdir leasePath: whichever lease is there, unless a generation is in it.
DropLease(r) ==
    /\ at[r] = "drop_lease"
    /\ lease' = IF Generations = {} THEN None ELSE lease
    /\ Goto(r, "done")
    /\ UNCHANGED <<gens, takeover, beat>>

Release(r) == DropGeneration(r) \/ DropLease(r)

-----------------------------------------------------------------------------
(* Time and crashes.                                                       *)

PhaseOf(l) ==
    IF l = "generate" THEN "claim"
    ELSE IF l \in {"recheck", "rename", "remake", "regenerate", "unlock", "unlock_failed"} THEN "takeover"
    ELSE IF l \in Releasing THEN "release" ELSE "work"

\* The directories whose age says how long a responder in a phase has been held up.
Kept(r) ==
    IF at[r] \in {"generate", "drop_lease"} THEN {lease}
    ELSE IF PhaseOf(at[r]) = "takeover" THEN {takeover} ELSE {gens[r]}

Older(age) == IF age = None \/ age = Stale THEN age ELSE age + 1

\* A responder that is alive lets none of them get stale, unless its phase may stall.
Tick ==
    /\ \E age \in {lease, takeover} \cup {gens[r] : r \in Responder} : Fresh(age)
    /\ \A r \in Responder :
         at[r] \notin {"idle"} \cup Ended /\ PhaseOf(at[r]) \notin Stalls =>
             \A age \in Kept(r) : age # None => age + 1 < Stale
    /\ lease' = Older(lease)
    /\ takeover' = Older(takeover)
    /\ gens' = [r \in Responder |-> Older(gens[r])]
    /\ UNCHANGED <<at, beat>>

Crash(r) ==
    /\ at[r] \notin {"idle"} \cup Ended
    /\ PhaseOf(at[r]) \in Crashes
    /\ Goto(r, IF PhaseOf(at[r]) = "takeover" THEN "died_replacing" ELSE "died")
    /\ beat' = [beat EXCEPT ![r] = "idle"]
    /\ UNCHANGED <<lease, gens, takeover>>

-----------------------------------------------------------------------------
(* The lease alone: an owner does nothing but renew and, some time, release. *)

LeaseStep(r) ==
    Claim(r) \/ Renew(r) \/ BeginRelease(r) \/ InspectGeneration(r) \/ Release(r)

LeaseNext ==
    \/ \E r \in Responder : Start(r) \/ LeaseStep(r) \/ RenewCheck(r) \/ Crash(r)
    \/ Tick

LeaseSpec == LeaseInit /\ [][LeaseNext]_leaseVars

-----------------------------------------------------------------------------
(* Properties.                                                             *)

\* Whoever dies while it replaces a stale lease leaves the takeover lock behind.  Two later
\* contenders may both find it stale, and the second removes the lock the first has just made.
NobodyDiedReplacing == \A r \in Responder : at[r] # "died_replacing"

\* At most one responder believes that it has the lease, whatever the claims, takeovers,
\* renewals and releases of the others interleave with (claimUserInputRequest).
OneOwner == NobodyDiedReplacing => Cardinality({r \in Responder : at[r] = "owner"}) <= 1

\* A responder that works or begins to release still has its generation in the lease.
OwnersHoldLease ==
    NobodyDiedReplacing =>
        \A r \in Responder : at[r] \in {"owner", "release"} => gens[r] # None

\* The lease has one generation in it: no two responders keep renewing it.
OneGeneration == Cardinality(Generations) <= 1

\* The takeover lock keeps those that replace a stale lease apart.
OneTakeover ==
    NobodyDiedReplacing => Cardinality({r \in Responder : PhaseOf(at[r]) = "takeover"}) <= 1

\* The lease keeps responders apart: one owner, which holds what it believes to hold, and one
\* that replaces a stale lease at a time (claimUserInputRequest and releaseUserInputClaim).
LeaseIsExclusive == OneOwner /\ OwnersHoldLease /\ OneTakeover

\* A generation disappears only by its owner's release or once it has not been renewed in
\* time: a takeover never hits a renewed lease.
KeptWhileRenewed ==
    [][NobodyDiedReplacing => \A r \in Responder :
          gens[r] # None /\ gens'[r] = None => at[r] = "drop_generation" \/ gens[r] = Stale]_leaseVars
=============================================================================
