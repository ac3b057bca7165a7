------------------------ MODULE UserInputResponse_proofs ------------------------
(***************************************************************************)
(* The lease of ClaimLease has one owner, for any number of responders and *)
(* any staleness: as long as no live responder is held up for the          *)
(* staleness and none has died holding the takeover lock.  Without these   *)
(* assumptions TLC finds two owners.                                       *)
(*                                                                         *)
(* Under the lease a structured question is answered once, for any number  *)
(* of responders, answers, retries, interruptions and crashes.             *)
(***************************************************************************)
EXTENDS MCAnswering, FiniteSetTheorems, WellFoundedInduction, TLAPS

\* No responder is held up for the staleness of what it holds.
Prompt == Stalls = {}

-----------------------------------------------------------------------------
(* The lease: its inductive invariant.                                     *)

\* Between its mkdir of the lease and its rmdir of it a responder holds the lease,
\* with its generation in it for most of that time.
Bare == {"generate", "regenerate", "drop_lease"}
Generated == {"unlock", "owner", "release", "drop_generation"}
Holding == Bare \cup Generated
TakingOver == {"recheck", "rename", "remake", "regenerate", "unlock", "unlock_failed"}

OneHolder == \A r, q \in Responder : at[r] \in Holding /\ at[q] \in Holding => r = q

\* What a holder holds is fresh, and nobody else's generation is in it.
HolderInv ==
    \A r \in Responder :
        /\ at[r] \in Generated =>
             lease # None /\ Fresh(gens[r]) /\ \A q \in Responder \ {r} : gens[q] = None
        /\ at[r] \in Bare => Fresh(lease) /\ \A q \in Responder : gens[q] = None

\* Generations of the dead included, the lease has at most one.
GenerationInv ==
    /\ \A r, q \in Responder : gens[r] # None /\ gens[q] # None => r = q
    /\ \A r \in Responder : gens[r] # None => lease # None

\* The takeover lock has one holder, and is fresh while it is there; no step that
\* deals with a stale one is ever reached.
TakeoverInv ==
    /\ \A r, q \in Responder : at[r] \in TakingOver /\ at[q] \in TakingOver => r = q
    /\ \A r \in Responder : at[r] \in TakingOver => Fresh(takeover)
    /\ takeover # None => \E r \in Responder : at[r] \in TakingOver
    /\ \A r \in Responder : at[r] \notin {"clear", "relock", "lock_again"}

\* What a takeover is about to move away is stale, so that nobody holds it.
RenameInv ==
    \A r \in Responder : at[r] = "rename" =>
        /\ lease # None
        /\ \A q \in Responder : gens[q] \in {None, Stale}
        /\ (\A q \in Responder : gens[q] = None) => lease = Stale

BeatInv ==
    \A r \in Responder :
        /\ beat[r] # "clear"
        /\ beat[r] = "touch" => at[r] = "owner"

\* What was made under the takeover lock is no older than the lock.
AgeInv ==
    \A r \in Responder :
        /\ at[r] = "regenerate" => lease <= takeover
        /\ at[r] = "unlock" => gens[r] <= takeover

\* It holds until somebody dies in a takeover.
LeaseInv ==
    /\ TypeOK /\ OneHolder /\ HolderInv /\ GenerationInv /\ TakeoverInv
    /\ RenameInv /\ BeatInv /\ AgeInv

-----------------------------------------------------------------------------
(* Lemmas.                                                                 *)

\* A set without two different elements has at most one.
LEMMA AtMostOne ==
    ASSUME NEW S, \A x, y \in S : x = y
    PROVE  Cardinality(S) <= 1
<1>1. CASE S = {}
  BY <1>1, FS_EmptySet
<1>2. CASE S # {}
  <2>1. PICK x \in S : TRUE
    BY <1>2
  <2>2. S = {x}
    BY <2>1
  <2> QED
    BY <2>2, FS_Singleton
<1> QED
  BY <1>1, <1>2

\* The heartbeat of a lease with at most one generation: that one's age, or the lease's own.
LEMMA HeartbeatOf ==
    ASSUME TypeOK, GenerationInv
    PROVE  /\ (\A r \in Responder : gens[r] = None) => Heartbeat = lease
           /\ \A r \in Responder : gens[r] # None => Heartbeat = gens[r]
<1>1. ASSUME \A r \in Responder : gens[r] = None
      PROVE  Heartbeat = lease
  BY <1>1 DEF Heartbeat, Generations
<1>2. ASSUME NEW r \in Responder, gens[r] # None
      PROVE  Heartbeat = gens[r]
  <2>1. Generations = {r}
    BY <1>2 DEF Generations, GenerationInv
  <2>2. {gens[q] : q \in Generations} = {gens[r]}
    BY <2>1
  <2>3. gens[r] \in Nat
    BY <1>2, ClaimLeaseAssumption DEF TypeOK, Age
  <2>4. Min({gens[r]}) = gens[r]
    BY <2>3 DEF Min
  <2> QED
    BY <2>1, <2>2, <2>4 DEF Heartbeat
<1> QED
  BY <1>1, <1>2

\* An age is fresh or the last one.
LEMMA FreshOrStale ==
    ASSUME NEW age \in Age
    PROVE  Fresh(age) \/ age = Stale
BY ClaimLeaseAssumption DEF Fresh, Age

\* The takeover phase is the locations at which the takeover lock is held.
LEMMA TakeoverPhase ==
    ASSUME NEW l \in Location
    PROVE  PhaseOf(l) = "takeover" <=> l \in TakingOver
BY DEF PhaseOf, TakingOver, Releasing, Location, Ended, Dead


USE DEF Bare, Generated, Holding, TakingOver, Goto, Fresh

\* While somebody holds the lease nobody is about to move it away.
LEMMA NobodyRenames ==
    ASSUME TypeOK, HolderInv, RenameInv, NEW r \in Responder, at[r] \in Holding,
           NEW q \in Responder
    PROVE  at[q] # "rename"
<1>1. CASE at[r] \in Generated
  BY <1>1, ClaimLeaseAssumption DEF HolderInv, RenameInv
<1>2. CASE at[r] \in Bare
  BY <1>2, ClaimLeaseAssumption DEF HolderInv, RenameInv
<1> QED
  BY <1>1, <1>2

\* Every step keeps the types.
LEMMA TypeStep ==
    ASSUME TypeOK, [LeaseNext]_leaseVars
    PROVE  TypeOK'
<1> USE ClaimLeaseAssumption DEF TypeOK, Age, Location, Releasing, Ended, Dead
<1>1. ASSUME NEW r \in Responder, Start(r)
      PROVE  TypeOK'
  BY <1>1 DEF Start
<1>2. ASSUME NEW r \in Responder, Claim(r)
      PROVE  TypeOK'
  <2>1. CASE InspectTakeover(r)
    BY <2>1 DEF InspectTakeover
  <2>2. CASE ClearTakeover(r)
    BY <2>2 DEF ClearTakeover
  <2>3. CASE MakeLease(r)
    BY <2>3 DEF MakeLease
  <2>4. CASE LeaseExists(r)
    BY <2>4 DEF LeaseExists
  <2>5. CASE MakeGeneration(r)
    BY <2>5 DEF MakeGeneration
  <2>6. CASE LeaseVanished(r)
    BY <2>6 DEF LeaseVanished
  <2>7. CASE ReadHeartbeat(r)
    BY <2>7 DEF ReadHeartbeat
  <2>8. CASE LockTakeover(r)
    BY <2>8 DEF LockTakeover
  <2>9. CASE TakeoverExists(r)
    BY <2>9 DEF TakeoverExists
  <2>10. CASE MoveLease(r)
    BY <2>10 DEF MoveLease
  <2>11. CASE UnlockTakeover(r)
    BY <2>11 DEF UnlockTakeover
  <2> QED
    BY <1>2, <2>1, <2>2, <2>3, <2>4, <2>5, <2>6, <2>7, <2>8, <2>9, <2>10, <2>11 DEF Claim
<1>3. ASSUME NEW r \in Responder, RenewCheck(r) \/ Renew(r)
      PROVE  TypeOK'
  BY <1>3 DEF RenewCheck, Renew, RenewClear, RenewTouch
<1>4. ASSUME NEW r \in Responder, BeginRelease(r) \/ InspectGeneration(r) \/ Release(r)
      PROVE  TypeOK'
  BY <1>4 DEF BeginRelease, InspectGeneration, Release, DropGeneration, DropLease
<1>5. CASE Tick
  BY <1>5 DEF Tick, Older
<1>6. ASSUME NEW r \in Responder, Crash(r)
      PROVE  TypeOK'
  BY <1>6 DEF Crash
<1>7. CASE UNCHANGED leaseVars
  BY <1>7 DEF leaseVars
<1> QED
  BY <1>1, <1>2, <1>3, <1>4, <1>5, <1>6, <1>7 DEF LeaseNext, LeaseStep

\* At first nobody claims, and there is no directory.
LEMMA InitInv == LeaseInit => LeaseInv
BY ClaimLeaseAssumption
   DEF LeaseInit, LeaseInv, TypeOK, Age, Location, OneHolder, HolderInv, GenerationInv,
       TakeoverInv, RenameInv, BeatInv, AgeInv

-----------------------------------------------------------------------------
(* One lemma for each step: how it keeps the invariant.                    *)

\* A step that only looks, and refuses or goes on, disturbs nothing.
LEMMA LookKeeps ==
    ASSUME LeaseInv, TypeOK', NEW r \in Responder,
           \/ Start(r) \/ InspectTakeover(r) \/ LeaseExists(r) \/ LeaseVanished(r)
           \/ TakeoverExists(r) \/ BeginRelease(r) \/ InspectGeneration(r)
    PROVE  LeaseInv'
<1> USE DEF LeaseInv, TypeOK, Start, InspectTakeover, LeaseExists, LeaseVanished, TakeoverExists,
            BeginRelease, InspectGeneration
<1>1. OneHolder' /\ HolderInv' /\ GenerationInv'
  BY DEF OneHolder, HolderInv, GenerationInv
<1>2. TakeoverInv'
  BY DEF TakeoverInv
<1>3. RenameInv' /\ BeatInv' /\ AgeInv'
  BY DEF RenameInv, BeatInv, AgeInv
<1> QED
  BY <1>1, <1>2, <1>3

\* A stale takeover lock is never there to be removed.
LEMMA NothingToClear ==
    ASSUME LeaseInv, NEW r \in Responder
    PROVE  ~ClearTakeover(r) /\ ~RenewClear(r)
BY DEF LeaseInv, TakeoverInv, BeatInv, ClearTakeover, RenewClear

\* Where there is no lease nobody holds one, so that its maker is the only holder.
LEMMA MakeLeaseKeeps ==
    ASSUME LeaseInv, TypeOK', NEW r \in Responder, MakeLease(r)
    PROVE  LeaseInv'
<1> USE ClaimLeaseAssumption DEF LeaseInv, TypeOK, Age, MakeLease
<1>1. \A q \in Responder : at[q] \notin Holding
  BY DEF HolderInv, GenerationInv
<1>2. OneHolder' /\ HolderInv' /\ GenerationInv'
  BY <1>1 DEF OneHolder, HolderInv, GenerationInv
<1>3. TakeoverInv' /\ RenameInv' /\ BeatInv' /\ AgeInv'
  BY <1>1 DEF TakeoverInv, RenameInv, BeatInv, AgeInv
<1> QED
  BY <1>2, <1>3

\* The lease a responder puts its generation into is the one it has made itself.
LEMMA MakeGenerationKeeps ==
    ASSUME LeaseInv, TypeOK', NEW r \in Responder, MakeGeneration(r)
    PROVE  LeaseInv'
<1> USE ClaimLeaseAssumption DEF LeaseInv, TypeOK, Age, MakeGeneration
<1>1. OneHolder' /\ HolderInv' /\ GenerationInv'
  BY DEF OneHolder, HolderInv, GenerationInv
<1>2. RenameInv'
  BY NobodyRenames DEF RenameInv
<1>3. TakeoverInv' /\ BeatInv' /\ AgeInv'
  BY DEF OneHolder, TakeoverInv, BeatInv, AgeInv
<1> QED
  BY <1>1, <1>2, <1>3

\* The second look, under the takeover lock, finds a lease that nobody keeps fresh.
LEMMA ReadHeartbeatKeeps ==
    ASSUME LeaseInv, TypeOK', NEW r \in Responder, ReadHeartbeat(r)
    PROVE  LeaseInv'
<1> USE DEF LeaseInv, TypeOK, ReadHeartbeat
<1>1. OneHolder' /\ HolderInv' /\ GenerationInv'
  BY DEF OneHolder, HolderInv, GenerationInv
<1>2. TakeoverInv' /\ BeatInv' /\ AgeInv'
  BY DEF TakeoverInv, BeatInv, AgeInv
<1>3. RenameInv'
  <2>1. ASSUME ~Fresh(Heartbeat)
        PROVE  /\ \A q \in Responder : gens[q] \in {None, Stale}
               /\ (\A q \in Responder : gens[q] = None) => lease = Stale
    BY <2>1, HeartbeatOf, FreshOrStale
  <2>2. CASE at'[r] = "rename"
    BY <2>1, <2>2 DEF RenameInv
  <2>3. CASE at'[r] # "rename"
    BY <2>3 DEF RenameInv
  <2> QED
    BY <2>2, <2>3
<1> QED
  BY <1>1, <1>2, <1>3

\* The takeover lock is made where there is none, that is where nobody takes over.
LEMMA LockTakeoverKeeps ==
    ASSUME LeaseInv, TypeOK', NEW r \in Responder, LockTakeover(r)
    PROVE  LeaseInv'
<1> USE ClaimLeaseAssumption DEF LeaseInv, TypeOK, LockTakeover
<1>1. \A q \in Responder : at[q] \notin TakingOver
  BY DEF TakeoverInv
<1>2. TakeoverInv'
  BY <1>1 DEF TakeoverInv
<1>3. OneHolder' /\ HolderInv' /\ GenerationInv'
  BY DEF OneHolder, HolderInv, GenerationInv
<1>4. RenameInv' /\ BeatInv' /\ AgeInv'
  BY <1>1 DEF RenameInv, BeatInv, AgeInv
<1> QED
  BY <1>2, <1>3, <1>4

\* The lease that is moved away is nobody's.
LEMMA MoveLeaseKeeps ==
    ASSUME LeaseInv, TypeOK', NEW r \in Responder, MoveLease(r)
    PROVE  LeaseInv'
<1> USE DEF LeaseInv, TypeOK, MoveLease
<1>1. \A q \in Responder : at[q] \notin Holding
  BY NobodyRenames
<1>2. OneHolder' /\ HolderInv' /\ GenerationInv'
  BY <1>1 DEF OneHolder, HolderInv, GenerationInv
<1>3. TakeoverInv' /\ RenameInv' /\ BeatInv' /\ AgeInv'
  BY <1>1 DEF TakeoverInv, RenameInv, BeatInv, AgeInv
<1> QED
  BY <1>2, <1>3

\* The lock that is removed is the remover's own.
LEMMA UnlockTakeoverKeeps ==
    ASSUME LeaseInv, TypeOK', NEW r \in Responder, UnlockTakeover(r)
    PROVE  LeaseInv'
<1> USE DEF LeaseInv, TypeOK, UnlockTakeover
<1>1. OneHolder' /\ HolderInv' /\ GenerationInv'
  BY DEF OneHolder, HolderInv, GenerationInv
<1>2. TakeoverInv'
  BY DEF TakeoverInv
<1>3. RenameInv' /\ BeatInv' /\ AgeInv'
  BY <1>2 DEF TakeoverInv, RenameInv, BeatInv, AgeInv
<1> QED
  BY <1>1, <1>2, <1>3

\* A renewal touches the generation of an owner.
LEMMA RenewKeeps ==
    ASSUME LeaseInv, TypeOK', NEW r \in Responder, RenewCheck(r) \/ RenewTouch(r)
    PROVE  LeaseInv'
<1> USE ClaimLeaseAssumption DEF LeaseInv, TypeOK, RenewCheck, RenewTouch
<1>1. OneHolder' /\ HolderInv' /\ GenerationInv'
  BY DEF OneHolder, HolderInv, GenerationInv, BeatInv
<1>2. TakeoverInv' /\ BeatInv'
  BY DEF TakeoverInv, BeatInv
<1>3. RenameInv'
  BY NobodyRenames DEF RenameInv, BeatInv
<1>4. AgeInv'
  BY DEF AgeInv, BeatInv
<1> QED
  BY <1>1, <1>2, <1>3, <1>4

\* Who releases removes its own generation, and the lease it was in.
LEMMA ReleaseKeeps ==
    ASSUME LeaseInv, TypeOK', NEW r \in Responder, Release(r)
    PROVE  LeaseInv'
<1> USE ClaimLeaseAssumption DEF LeaseInv, TypeOK, Age
<1>1. CASE DropGeneration(r)
  <2> USE <1>1 DEF DropGeneration
  <2>1. OneHolder' /\ HolderInv' /\ GenerationInv'
    BY DEF OneHolder, HolderInv, GenerationInv
  <2>2. RenameInv'
    BY NobodyRenames DEF RenameInv
  <2>3. TakeoverInv' /\ BeatInv' /\ AgeInv'
    BY DEF OneHolder, TakeoverInv, BeatInv, AgeInv
  <2> QED
    BY <2>1, <2>2, <2>3
<1>2. CASE DropLease(r)
  <2> USE <1>2 DEF DropLease
  <2>1. OneHolder' /\ HolderInv' /\ GenerationInv'
    BY DEF OneHolder, HolderInv, GenerationInv, Generations
  <2>2. RenameInv'
    BY NobodyRenames DEF RenameInv
  <2>3. TakeoverInv' /\ BeatInv' /\ AgeInv'
    BY DEF OneHolder, TakeoverInv, BeatInv, AgeInv
  <2> QED
    BY <2>1, <2>2, <2>3
<1> QED
  BY <1>1, <1>2 DEF Release

\* No tick makes stale what a live responder has to keep.
LEMMA TickKeeps ==
    ASSUME LeaseInv, TypeOK', Prompt, Tick
    PROVE  LeaseInv'
<1> USE ClaimLeaseAssumption DEF LeaseInv, TypeOK, Age
<1>1. ASSUME NEW r \in Responder, at[r] \notin {"idle"} \cup Ended
      PROVE  \A age \in Kept(r) : age # None => age + 1 < Stale
  BY <1>1 DEF Tick, Prompt
<1>2. \A r \in Responder : at[r] \in {"generate", "drop_lease"} => Kept(r) = {lease}
  BY DEF Kept
<1>3. \A r \in Responder : at[r] \in TakingOver => Kept(r) = {takeover}
  BY DEF Kept, PhaseOf
<1>4. \A r \in Responder : at[r] \in {"owner", "release", "drop_generation"} => Kept(r) = {gens[r]}
  BY DEF Kept, PhaseOf, Releasing
<1> USE DEF Older
<1>5. OneHolder' /\ BeatInv'
  BY DEF Tick, OneHolder, BeatInv
<1>6. GenerationInv'
  BY DEF Tick, GenerationInv
<1>7. TakeoverInv'
  BY <1>1, <1>3 DEF Tick, TakeoverInv, Ended, Dead
<1>8. RenameInv'
  BY DEF Tick, RenameInv
<1>9. AgeInv'
  BY <1>1, <1>3 DEF Tick, AgeInv, TakeoverInv, HolderInv, Ended, Dead
<1>10. HolderInv'
  <2>1. ASSUME NEW r \in Responder, at[r] \in {"generate", "drop_lease", "regenerate"}
        PROVE  Fresh(lease')
    BY <2>1, <1>1, <1>2, <1>3 DEF Tick, HolderInv, TakeoverInv, AgeInv, Ended, Dead
  <2>2. ASSUME NEW r \in Responder, at[r] \in Generated
        PROVE  Fresh(gens'[r])
    BY <2>2, <1>1, <1>3, <1>4 DEF Tick, HolderInv, TakeoverInv, AgeInv, Ended, Dead
  <2> QED
    BY <2>1, <2>2 DEF Tick, HolderInv
<1> QED
  BY <1>5, <1>6, <1>7, <1>8, <1>9, <1>10

\* The dead hold nothing, unless it is the takeover lock.
LEMMA CrashKeeps ==
    ASSUME LeaseInv, TypeOK', NobodyDiedReplacing', NEW r \in Responder, Crash(r)
    PROVE  LeaseInv'
<1> USE DEF LeaseInv, TypeOK, Crash
<1>1. at[r] \notin TakingOver
  BY TakeoverPhase DEF NobodyDiedReplacing
<1>2. OneHolder' /\ HolderInv' /\ GenerationInv'
  BY DEF OneHolder, HolderInv, GenerationInv
<1>3. TakeoverInv'
  BY <1>1 DEF TakeoverInv
<1>4. RenameInv' /\ BeatInv' /\ AgeInv'
  BY DEF RenameInv, BeatInv, AgeInv
<1> QED
  BY <1>2, <1>3, <1>4

\* Every step keeps the invariant.
LEMMA StepKeeps ==
    ASSUME Prompt, LeaseInv, [LeaseNext]_leaseVars, NobodyDiedReplacing'
    PROVE  LeaseInv'
<1>1. TypeOK'
  BY TypeStep DEF LeaseInv
<1>2. ASSUME NEW r \in Responder, Claim(r)
      PROVE  LeaseInv'
  BY ONLY LeaseInv, TypeOK', <1>2, LookKeeps, NothingToClear, MakeLeaseKeeps, MakeGenerationKeeps,
          ReadHeartbeatKeeps, LockTakeoverKeeps, MoveLeaseKeeps, UnlockTakeoverKeeps, <1>1 DEF Claim
<1>3. ASSUME NEW r \in Responder, Start(r) \/ BeginRelease(r) \/ InspectGeneration(r)
      PROVE  LeaseInv'
  BY <1>1, <1>3, LookKeeps
<1>4. ASSUME NEW r \in Responder, RenewCheck(r) \/ Renew(r) \/ Release(r)
      PROVE  LeaseInv'
  BY <1>1, <1>4, RenewKeeps, NothingToClear, ReleaseKeeps DEF Renew
<1>5. ASSUME NEW r \in Responder, Crash(r)
      PROVE  LeaseInv'
  BY <1>1, <1>5, CrashKeeps
<1>6. CASE Tick
  BY <1>1, <1>6, TickKeeps
<1>7. CASE UNCHANGED leaseVars
  BY <1>1, <1>7
     DEF leaseVars, LeaseInv, OneHolder, HolderInv, GenerationInv, TakeoverInv, RenameInv, BeatInv, AgeInv
<1> QED
  BY <1>2, <1>3, <1>4, <1>5, <1>6, <1>7 DEF LeaseNext, LeaseStep

\* The dead stay dead.
LEMMA DeadStay ==
    ASSUME TypeOK, [LeaseNext]_leaseVars, NobodyDiedReplacing'
    PROVE  NobodyDiedReplacing
<1> SUFFICES ASSUME NEW q \in Responder, at[q] = "died_replacing"
             PROVE  at'[q] = "died_replacing"
  BY DEF NobodyDiedReplacing
<1> USE DEF TypeOK
<1>1. ASSUME NEW r \in Responder, Claim(r)
      PROVE  at'[q] = at[q]
  BY <1>1 DEF Claim, InspectTakeover, ClearTakeover, MakeLease, LeaseExists, MakeGeneration,
              LeaseVanished, ReadHeartbeat, LockTakeover, TakeoverExists, MoveLease, UnlockTakeover
<1>2. ASSUME NEW r \in Responder, Start(r) \/ RenewCheck(r) \/ Renew(r) \/ Crash(r)
      PROVE  at'[q] = at[q]
  BY <1>2 DEF Start, RenewCheck, Renew, RenewClear, RenewTouch, Crash, Ended, Dead
<1>3. ASSUME NEW r \in Responder, BeginRelease(r) \/ InspectGeneration(r) \/ Release(r)
      PROVE  at'[q] = at[q]
  BY <1>3 DEF BeginRelease, InspectGeneration, Release, DropGeneration, DropLease
<1>4. CASE Tick \/ UNCHANGED leaseVars
  BY <1>4 DEF Tick, leaseVars
<1> QED
  BY <1>1, <1>2, <1>3, <1>4 DEF LeaseNext, LeaseStep

-----------------------------------------------------------------------------
(* Without deaths there is nothing to take over.                           *)

NobodyDied == \A r \in Responder : at[r] \notin Dead

\* Nobody replaces a lease, nobody finds its own lost, and there is no lease that nobody holds.
CalmInv ==
    /\ takeover = None
    /\ \A r \in Responder : at[r] \notin TakingOver \cup {"lock"} /\ beat[r] # "lost"
    /\ lease # None => \E r \in Responder : at[r] \in Holding

\* The dead stay dead, however they died.
LEMMA DiedStay ==
    ASSUME TypeOK, [LeaseNext]_leaseVars, NobodyDied'
    PROVE  NobodyDied
<1> SUFFICES ASSUME NEW q \in Responder, at[q] \in Dead
             PROVE  at'[q] = at[q]
  BY DEF NobodyDied
<1> USE DEF TypeOK, Dead
<1>1. ASSUME NEW r \in Responder, Claim(r)
      PROVE  at'[q] = at[q]
  BY <1>1 DEF Claim, InspectTakeover, ClearTakeover, MakeLease, LeaseExists, MakeGeneration,
              LeaseVanished, ReadHeartbeat, LockTakeover, TakeoverExists, MoveLease, UnlockTakeover
<1>2. ASSUME NEW r \in Responder, Start(r) \/ RenewCheck(r) \/ Renew(r) \/ Crash(r)
      PROVE  at'[q] = at[q]
  BY <1>2 DEF Start, RenewCheck, Renew, RenewClear, RenewTouch, Crash, Ended
<1>3. ASSUME NEW r \in Responder, BeginRelease(r) \/ InspectGeneration(r) \/ Release(r)
      PROVE  at'[q] = at[q]
  BY <1>3 DEF BeginRelease, InspectGeneration, Release, DropGeneration, DropLease
<1>4. CASE Tick \/ UNCHANGED leaseVars
  BY <1>4 DEF Tick, leaseVars
<1> QED
  BY <1>1, <1>2, <1>3, <1>4 DEF LeaseNext, LeaseStep

\* The heartbeat of a lease that somebody holds is fresh.
LEMMA HeldIsFresh ==
    ASSUME LeaseInv, CalmInv, lease # None
    PROVE  Fresh(Heartbeat)
<1>1. PICK r \in Responder : at[r] \in Holding
  BY DEF CalmInv
<1>2. CASE at[r] \in Generated
  BY <1>2, HeartbeatOf DEF LeaseInv, HolderInv
<1>3. CASE at[r] \in Bare
  BY <1>3, HeartbeatOf DEF LeaseInv, HolderInv
<1> QED
  BY <1>1, <1>2, <1>3

\* A claim finds a fresh lease or none.
LEMMA CalmClaim ==
    ASSUME LeaseInv, CalmInv, NEW r \in Responder, Claim(r)
    PROVE  CalmInv'
<1> USE DEF LeaseInv, CalmInv, TypeOK
<1>1. CASE InspectTakeover(r) \/ LeaseExists(r) \/ LeaseVanished(r) \/ TakeoverExists(r)
  BY <1>1 DEF InspectTakeover, LeaseExists, LeaseVanished, TakeoverExists
<1>2. CASE ReadHeartbeat(r)
  BY <1>2, HeldIsFresh DEF ReadHeartbeat
<1>3. CASE MakeLease(r)
  BY <1>3 DEF MakeLease
<1>4. CASE MakeGeneration(r)
  BY <1>4 DEF MakeGeneration
<1>5. CASE ClearTakeover(r) \/ LockTakeover(r) \/ MoveLease(r) \/ UnlockTakeover(r)
  BY <1>5 DEF ClearTakeover, LockTakeover, MoveLease, UnlockTakeover, TakeoverInv
<1> QED
  BY <1>1, <1>2, <1>3, <1>4, <1>5 DEF Claim

\* Every step of the living keeps it so.
LEMMA CalmStep ==
    ASSUME LeaseInv, CalmInv, NobodyDied', [LeaseNext]_leaseVars
    PROVE  CalmInv'
<1> USE DEF LeaseInv, CalmInv, TypeOK
<1>1. ASSUME NEW r \in Responder, Claim(r)
      PROVE  CalmInv'
  BY <1>1, CalmClaim
<1>2. ASSUME NEW r \in Responder, Start(r) \/ BeginRelease(r)
      PROVE  CalmInv'
  BY <1>2 DEF Start, BeginRelease
<1>3. ASSUME NEW r \in Responder, RenewCheck(r) \/ Renew(r)
      PROVE  CalmInv'
  BY <1>3, ClaimLeaseAssumption DEF RenewCheck, Renew, RenewClear, RenewTouch, BeatInv, HolderInv
<1>4. ASSUME NEW r \in Responder, InspectGeneration(r)
      PROVE  CalmInv'
  BY <1>4 DEF InspectGeneration, HolderInv
<1>5. ASSUME NEW r \in Responder, DropGeneration(r)
      PROVE  CalmInv'
  BY <1>5 DEF DropGeneration, HolderInv
<1>6. ASSUME NEW r \in Responder, DropLease(r)
      PROVE  CalmInv'
  <2>1. Generations = {}
    BY <1>6 DEF DropLease, HolderInv, Generations
  <2> QED
    BY <1>6, <2>1 DEF DropLease
<1>7. ASSUME NEW r \in Responder, Crash(r)
      PROVE  FALSE
  BY <1>7 DEF Crash, NobodyDied, Dead
<1>8. CASE Tick \/ UNCHANGED leaseVars
  BY <1>8 DEF Tick, Older, leaseVars
<1> QED
  BY <1>1, <1>2, <1>3, <1>4, <1>5, <1>6, <1>7, <1>8 DEF LeaseNext, LeaseStep, Release

-----------------------------------------------------------------------------
(* Theorems.                                                               *)

\* The state of the lease has its type, whatever the responders, their delays and crashes.
THEOREM TypeCorrect == LeaseSpec => []TypeOK
<1>1. LeaseInit => TypeOK
  BY ClaimLeaseAssumption DEF LeaseInit, TypeOK, Age, Location
<1>2. TypeOK /\ [LeaseNext]_leaseVars => TypeOK'
  BY TypeStep
<1> QED
  BY <1>1, <1>2, PTL DEF LeaseSpec

\* The inductive invariant, if nobody alive is held up.
LEMMA Invariance ==
    ASSUME Prompt
    PROVE  LeaseSpec => [](NobodyDiedReplacing => LeaseInv)
<1>1. TypeOK /\ (NobodyDiedReplacing => LeaseInv) /\ [LeaseNext]_leaseVars
        => (NobodyDiedReplacing => LeaseInv)'
  BY StepKeeps, DeadStay
<1> QED
  BY InitInv, <1>1, TypeCorrect, PTL DEF LeaseSpec

\* Any number of responders claim, renew, take over and release: one of them is the owner.
THEOREM OwnerIsAlone ==
    ASSUME Prompt
    PROVE  LeaseSpec => []OneOwner
<1>1. (NobodyDiedReplacing => LeaseInv) => OneOwner
  BY AtMostOne DEF LeaseInv, OneHolder, OneOwner
<1> QED
  BY Invariance, <1>1, PTL

\* Nobody takes the lease from a responder that works or begins to release.
THEOREM OwnerHolds ==
    ASSUME Prompt
    PROVE  LeaseSpec => []OwnersHoldLease
<1>1. (NobodyDiedReplacing => LeaseInv) => OwnersHoldLease
  BY DEF LeaseInv, HolderInv, OwnersHoldLease
<1> QED
  BY Invariance, <1>1, PTL

\* Those that replace a stale lease are kept apart by the takeover lock.
THEOREM TakeoverIsAlone ==
    ASSUME Prompt
    PROVE  LeaseSpec => []OneTakeover
<1>1. (NobodyDiedReplacing => LeaseInv) => OneTakeover
  BY AtMostOne, TakeoverPhase DEF LeaseInv, TypeOK, TakeoverInv, OneTakeover
<1> QED
  BY Invariance, <1>1, PTL

\* So the lease keeps responders apart, for any number of them.
THEOREM LeaseKeepsApart ==
    ASSUME Prompt
    PROVE  LeaseSpec => []LeaseIsExclusive
<1>1. OneOwner /\ OwnersHoldLease /\ OneTakeover => LeaseIsExclusive
  BY DEF LeaseIsExclusive
<1> QED
  BY OwnerIsAlone, OwnerHolds, TakeoverIsAlone, <1>1, PTL

\* No step but the owner's release removes a generation that is renewed in time.
THEOREM RenewedIsKept ==
    ASSUME Prompt
    PROVE  LeaseSpec => KeptWhileRenewed
<1> DEFINE Keeps(r) == gens[r] # None /\ gens'[r] = None => at[r] = "drop_generation" \/ gens[r] = Stale
<1>1. ASSUME LeaseInv, NEW q \in Responder, LeaseStep(q) \/ Start(q) \/ RenewCheck(q) \/ Crash(q),
             NEW r \in Responder
      PROVE  Keeps(r)
  <2>1. CASE MoveLease(q)
    BY <1>1, <2>1 DEF MoveLease, LeaseInv, RenameInv
  <2>2. CASE DropGeneration(q)
    BY <1>1, <2>2 DEF DropGeneration, LeaseInv, TypeOK
  <2>3. CASE ~MoveLease(q) /\ ~DropGeneration(q)
    BY <1>1, <2>3, ClaimLeaseAssumption
       DEF LeaseInv, TypeOK, LeaseStep, Claim, Renew, Release, Start, InspectTakeover, ClearTakeover,
           MakeLease, LeaseExists, MakeGeneration, LeaseVanished, ReadHeartbeat, LockTakeover,
           TakeoverExists, UnlockTakeover, RenewCheck, RenewClear, RenewTouch, BeginRelease,
           InspectGeneration, DropLease, Crash
  <2> QED
    BY <2>1, <2>2, <2>3
<1>2. ASSUME LeaseInv, Tick, NEW r \in Responder
      PROVE  Keeps(r)
  BY <1>2, ClaimLeaseAssumption DEF Tick, Older, LeaseInv, TypeOK, Age
<1>3. (NobodyDiedReplacing => LeaseInv) /\ [LeaseNext]_leaseVars
        => [NobodyDiedReplacing => \A r \in Responder : Keeps(r)]_leaseVars
  BY <1>1, <1>2 DEF LeaseNext
<1> QED
  BY Invariance, <1>3, PTL DEF LeaseSpec, KeptWhileRenewed

\* Where nobody has died there is never a takeover, and no owner finds its lease lost: only the
\* dead leave a lease that somebody may replace.
THEOREM OnlyTheDeadLoseTheLease ==
    ASSUME Prompt
    PROVE  LeaseSpec => [](NobodyDied => CalmInv)
<1>1. LeaseInit => CalmInv
  BY DEF LeaseInit, CalmInv
<1>2. TypeOK /\ (NobodyDiedReplacing => LeaseInv) /\ (NobodyDied => CalmInv) /\ [LeaseNext]_leaseVars
        => (NobodyDied => CalmInv)'
  <2>1. NobodyDied => NobodyDiedReplacing
    BY DEF NobodyDied, NobodyDiedReplacing, Dead
  <2> QED
    BY <2>1, DiedStay, CalmStep
<1> QED
  BY <1>1, <1>2, TypeCorrect, Invariance, PTL DEF LeaseSpec

-----------------------------------------------------------------------------
(* The question: the inductive invariant.                                  *)

\* No responder dies while it replaces a stale lease.
TakeoversEnd == "takeover" \notin Crashes

\* An owner works from its look at the request under the lease until it leaves.
Resting == {"none", "reload", "leave", "discard", "left"}
Works(r) == at[r] = "owner" /\ step[r] \notin Resting

\* What it does, or does once its lease is asserted.
Aim(r) == IF step[r] \in {"assert", "await"} THEN goal[r] ELSE step[r]

\* Whoever has yet to own the lease has done nothing; whoever gives the claim file up has
\* seen the question settled.
CallOf(r) ==
    /\ at[r] \notin {"owner"} \cup Releasing \cup Ended => step[r] = "none" /\ keep[r]
    /\ step[r] = "discard" => ~keep[r]
    /\ at[r] \in Holding /\ ~keep[r] => ~Unsettled
    /\ Works(r) => keep[r]

\* An owner works with what the claim file holds.
ClaimOf(r) ==
    Works(r) =>
        /\ step[r] = "write" => offer[r] # None
        /\ step[r] \in {"assert", "await"} => goal[r] \in {"reconciled", "cancel", "record", "loop", "settle"}
        /\ step[r] \notin {"payload", "write"} => payload # None /\ claim[r] = payload
        /\ Aim(r) \in {"cancel", "respond_cancel", "resume_cancel"} => claim[r].submission = Cancel
        /\ Aim(r) \in {"record", "message", "response"} => claim[r].submission # Cancel

\* Nobody works on a question that is cancelled or resumed, but the one that has just done it.
StatusOf(r) ==
    Works(r) =>
        /\ RequestStatus = "cancelled" => step[r] = "resume_cancel"
        /\ RequestStatus = "resumed" => step[r] = "confirm"
        /\ step[r] = "confirm" => resume \in {"resumed", "interrupted"}

\* What an owner has still to append is not in the log.
RecordOf(r) ==
    Works(r) /\ step[r] \in {"message", "response"} =>
        /\ step[r] \in missing[r]
        /\ "message" \in missing[r] => messages[claim[r].id] = 0
        /\ "response" \in missing[r] => responses = <<>>

CallInv == \A r \in Responder : CallOf(r)
ClaimInv == \A r \in Responder : ClaimOf(r)
StatusInv == \A r \in Responder : StatusOf(r)
RecordInv == \A r \in Responder : RecordOf(r)

\* Nothing but a committed submission is in the log.
LogIsOf(c) ==
    /\ responses # <<>> => c = responses[1]
    /\ \A q \in Responder : messages[q] > 0 => c # None /\ c.id = q

\* While the question may still be worked on, that is the one in the claim file.
LogInv == Unsettled \/ (\E r \in Responder : Works(r)) => LogIsOf(payload)

AnswerInv ==
    CallInv /\ ClaimInv /\ StatusInv /\ RecordInv /\ LogInv /\ OneResponse /\ OneMessage

USE DEF Bare, Generated, Holding, Goto, Resting

-----------------------------------------------------------------------------
(* The responders use the lease as ClaimLease says.                        *)

\* The state of an answer has its type at first.
LEMMA InitRequestTypes == Init => RequestTypeOK
BY ClaimLeaseAssumption
   DEF Init, LeaseInit, RequestTypeOK, TypeOK, Age, Location, Step

\* A step of an answer is a step of the lease, or leaves the lease alone.
LEMMA UsesLease ==
    ASSUME [Next]_vars
    PROVE  [LeaseNext]_leaseVars
<1>1. ASSUME NEW r \in Responder, Respond(r) \/ RenewStep(r) \/ Beat(r) \/ ResponderDies(r)
      PROVE  LeaseNext
  BY <1>1 DEF Respond, RenewStep, Beat, ResponderDies, LeaseNext, LeaseStep
<1>2. ASSUME NEW r \in Responder, MainStep(r)
      PROVE  [LeaseNext]_leaseVars
  <2>1. CASE TakeLease(r) \/ AssertLease(r) \/ ReleaseClaim(r)
    BY <2>1 DEF TakeLease, AssertLease, ReleaseClaim, LeaseNext, LeaseStep
  <2>2. CASE Reload(r) \/ LoadPayload(r) \/ WritePayload(r) \/ EnterTurn(r) \/ RecordResuming(r)
    BY <2>2 DEF Reload, LoadPayload, WritePayload, EnterTurn, RecordResuming
  <2>3. CASE VerifyClaim(r) \/ LeaseAsserted(r) \/ Reconcile(r) \/ Reconciled(r) \/ CancelQuestion(r)
    BY <2>3 DEF VerifyClaim, LeaseAsserted, Reconcile, Reconciled, CancelQuestion
  <2>4. CASE RecordAnswer(r) \/ AppendAnswer(r) \/ ResumeTurn(r) \/ ReenterTurn(r) \/ ModelLoop(r)
    BY <2>4 DEF RecordAnswer, AppendAnswer, ResumeTurn, ReenterTurn, ModelLoop
  <2>5. CASE Settle(r) \/ InnerCatch(r) \/ Catch(r) \/ DiscardPayload(r)
    BY <2>5 DEF Settle, InnerCatch, Catch, DiscardPayload
  <2> QED
    BY <1>2, <2>1, <2>2, <2>3, <2>4, <2>5 DEF MainStep
<1>3. CASE InterruptSession \/ RecoverSession
  BY <1>3 DEF InterruptSession, RecoverSession
<1>4. CASE TimePasses
  BY <1>4 DEF TimePasses, LeaseNext
<1>5. CASE UNCHANGED vars
  BY <1>5 DEF vars
<1> QED
  BY <1>1, <1>2, <1>3, <1>4, <1>5 DEF Next

\* Responders use nothing of the lease but the operations that ClaimLease describes, so that
\* what holds of the lease holds of it while questions are answered.
THEOREM AnswersUseTheLease == Spec => LeaseSpec
<1>1. Init => LeaseInit
  BY DEF Init
<1> QED
  BY <1>1, UsesLease, PTL DEF Spec, LeaseSpec

\* Where nobody dies in a takeover, nobody ever has.
LEMMA NobodyDies ==
    ASSUME TakeoversEnd
    PROVE  LeaseSpec => []NobodyDiedReplacing
<1>1. LeaseInit => NobodyDiedReplacing
  BY DEF LeaseInit, NobodyDiedReplacing
<1>2. TypeOK /\ NobodyDiedReplacing /\ [LeaseNext]_leaseVars => NobodyDiedReplacing'
  <2> SUFFICES ASSUME TypeOK, NobodyDiedReplacing, [LeaseNext]_leaseVars, NEW q \in Responder
               PROVE  at'[q] # "died_replacing"
    BY DEF NobodyDiedReplacing
  <2> USE DEF TypeOK, NobodyDiedReplacing
  <2>1. ASSUME NEW r \in Responder, Claim(r)
        PROVE  at'[q] # "died_replacing"
    BY <2>1 DEF Claim, InspectTakeover, ClearTakeover, MakeLease, LeaseExists, MakeGeneration,
                LeaseVanished, ReadHeartbeat, LockTakeover, TakeoverExists, MoveLease, UnlockTakeover
  <2>2. ASSUME NEW r \in Responder, Start(r) \/ RenewCheck(r) \/ Renew(r)
        PROVE  at'[q] # "died_replacing"
    BY <2>2 DEF Start, RenewCheck, Renew, RenewClear, RenewTouch
  <2>3. ASSUME NEW r \in Responder, BeginRelease(r) \/ InspectGeneration(r) \/ Release(r)
        PROVE  at'[q] # "died_replacing"
    BY <2>3 DEF BeginRelease, InspectGeneration, Release, DropGeneration, DropLease
  <2>4. ASSUME NEW r \in Responder, Crash(r)
        PROVE  at'[q] # "died_replacing"
    BY <2>4 DEF Crash, TakeoversEnd
  <2>5. CASE Tick \/ UNCHANGED leaseVars
    BY <2>5 DEF Tick, leaseVars
  <2> QED
    BY <2>1, <2>2, <2>3, <2>4, <2>5 DEF LeaseNext, LeaseStep
<1> QED
  BY <1>1, <1>2, TypeCorrect, PTL DEF LeaseSpec

\* So the lease keeps the responders apart.
LEMMA LeaseHolds ==
    ASSUME Prompt, TakeoversEnd
    PROVE  Spec => []LeaseInv
BY AnswersUseTheLease, NobodyDies, Invariance, PTL

\* The one that holds the lease is the only one that does.
LEMMA OnlyHolder ==
    ASSUME LeaseInv, NEW r \in Responder, at[r] \in Holding, NEW q \in Responder, q # r
    PROVE  at[q] \notin Holding /\ ~Works(q)
BY DEF LeaseInv, OneHolder, Works

-----------------------------------------------------------------------------
(* Types.                                                                  *)

\* Every step keeps the types.
LEMMA RequestTypeStep ==
    ASSUME RequestTypeOK, ClaimInv, [Next]_vars
    PROVE  RequestTypeOK'
<1> USE DEF RequestTypeOK, Step, ClaimStep, Resumption, Submission, Committed
<1>1. TypeOK'
  BY UsesLease, TypeStep
<1> USE <1>1
<1>2. ASSUME NEW r \in Responder, Respond(r) \/ RenewStep(r) \/ Beat(r) \/ ResponderDies(r)
      PROVE  RequestTypeOK'
  <2>1. CASE Respond(r)
    BY <2>1 DEF Respond, logVars
  <2>2. CASE RenewStep(r)
    BY <2>2 DEF RenewStep, requestVars, callVars, logVars
  <2>3. CASE Beat(r)
    BY <2>3 DEF Beat, requestVars, callVars, logVars
  <2>4. CASE ResponderDies(r)
    BY <2>4 DEF ResponderDies, requestVars, callVars, logVars
  <2> QED
    BY <1>2, <2>1, <2>2, <2>3, <2>4
<1>3. ASSUME NEW r \in Responder, TakeLease(r) \/ Reload(r) \/ EnterTurn(r) \/ RecordResuming(r)
      PROVE  RequestTypeOK'
  <2>1. CASE TakeLease(r)
    BY <2>1 DEF TakeLease, logVars
  <2>2. CASE Reload(r)
    BY <2>2, ZenonT(30) DEF Reload, Leave, Go, logVars
  <2>3. CASE EnterTurn(r)
    BY <2>3, ZenonT(30) DEF EnterTurn, Leave, Go, logVars
  <2>4. CASE RecordResuming(r)
    BY <2>4 DEF RecordResuming, Go
  <2> QED
    BY <1>3, <2>1, <2>2, <2>3, <2>4
<1>4. ASSUME NEW r \in Responder, VerifyClaim(r) \/ AssertLease(r) \/ Reconcile(r) \/ Reconciled(r)
      PROVE  RequestTypeOK'
  <2>1. CASE VerifyClaim(r)
    BY <2>1, ZenonT(30) DEF VerifyClaim, Leave, Go
  <2>2. CASE AssertLease(r)
    BY <2>2 DEF AssertLease, Go, logVars
  <2>3. CASE Reconcile(r)
    BY <2>3 DEF Reconcile, AssertThen, Go, logVars
  <2>4. CASE Reconciled(r)
    BY <2>4, ZenonT(30) DEF Reconciled, Leave, Go
  <2> QED
    BY <1>4, <2>1, <2>2, <2>3, <2>4
<1>5. ASSUME NEW r \in Responder, LoadPayload(r)
      PROVE  RequestTypeOK'
  <2>1. step' \in [Responder -> Step] /\ keep' \in [Responder -> BOOLEAN]
    BY <1>5 DEF LoadPayload, Leave, Go
  <2>2. claim' \in [Responder -> Committed \cup {None}]
    BY <1>5 DEF LoadPayload
  <2> QED
    BY <1>5, <2>1, <2>2 DEF LoadPayload, logVars
<1>6. ASSUME NEW r \in Responder, WritePayload(r)
      PROVE  RequestTypeOK'
  <2>1. step' \in [Responder -> Step] /\ keep' \in [Responder -> BOOLEAN]
    BY <1>6 DEF WritePayload, Leave, Go
  <2>2. offer[r] \in Submission
    <3>1. at[r] = "owner" /\ step[r] = "write"
      BY <1>6 DEF WritePayload, At
    <3>2. Works(r)
      BY <3>1 DEF Works
    <3>3. offer[r] # None
      BY <3>1, <3>2 DEF ClaimInv, ClaimOf
    <3> QED
      BY <3>3
  <2>3. payload' \in Committed \cup {None}
    <3>1. payload' = payload \/ payload' = [id |-> r, submission |-> offer[r]]
      BY <1>6 DEF WritePayload
    <3>2. [id |-> r, submission |-> offer[r]] \in Committed
      BY <2>2
    <3> QED
      BY <3>1, <3>2
  <2>4. claim' = claim \/ claim' = [claim EXCEPT ![r] = payload']
    BY <1>6 DEF WritePayload
  <2>5. claim' \in [Responder -> Committed \cup {None}]
    BY <2>3, <2>4
  <2> QED
    BY <1>6, <2>1, <2>3, <2>5 DEF WritePayload, logVars
<1>7. ASSUME NEW r \in Responder, LeaseAsserted(r)
      PROVE  RequestTypeOK'
  <2>1. CASE step[r] = "await" /\ beat[r] = "idle" /\ Go(r, goal[r]) /\ UNCHANGED keep
    BY <1>7, <2>1 DEF LeaseAsserted, Go, logVars
  <2>2. CASE LostLease(r)
    <3>1. step' \in [Responder -> Step] /\ keep' \in [Responder -> BOOLEAN]
      BY <2>2 DEF LostLease, Leave, Go
    <3> QED
      BY <1>7, <3>1 DEF LeaseAsserted, logVars
  <2> QED
    BY <1>7, <2>1, <2>2 DEF LeaseAsserted
<1>8. ASSUME NEW r \in Responder, CancelQuestion(r) \/ AppendAnswer(r) \/ ModelLoop(r)
      PROVE  RequestTypeOK'
  <2>1. claim[r] \in Committed
    BY <1>8 DEF ClaimInv, ClaimOf, Works, At, CancelQuestion, AppendAnswer, ModelLoop
  <2>2. Append(responses, claim[r]) \in Seq(Committed)
    BY <2>1
  <2>3. CASE CancelQuestion(r)
    <3>1. step' \in [Responder -> Step] /\ keep' \in [Responder -> BOOLEAN]
      BY <2>3 DEF CancelQuestion, Leave, Go
    <3> QED
      BY <2>2, <2>3, <3>1, ZenonT(30) DEF CancelQuestion
  <2>4. CASE AppendAnswer(r)
    <3>1. step' \in [Responder -> Step] /\ missing' \in [Responder -> SUBSET {"message", "response"}]
      BY <2>4 DEF AppendAnswer, AfterRecord, Go
    <3>2. messages' \in [Responder -> Nat]
      BY <2>1, <2>4 DEF AppendAnswer
    <3> QED
      BY <2>2, <2>4, <3>1, <3>2, ZenonT(30) DEF AppendAnswer
  <2>5. CASE ModelLoop(r)
    <3>1. step' \in [Responder -> Step] /\ goal' \in [Responder -> Step]
      BY <2>5 DEF ModelLoop, AssertThen, Go
    <3>2. claim[r].id \in Responder
      BY <2>1
    <3>3. completed' \subseteq Responder /\ session' \in {"waiting", "running", "interrupted"}
      BY <2>5, <3>2 DEF ModelLoop
    <3> QED
      BY <2>5, <3>1, <3>3 DEF ModelLoop
  <2> QED
    BY <1>8, <2>3, <2>4, <2>5
<1>9. ASSUME NEW r \in Responder, RecordAnswer(r) \/ ResumeTurn(r) \/ ReenterTurn(r) \/ InnerCatch(r)
      PROVE  RequestTypeOK'
  <2>1. CASE RecordAnswer(r)
    BY <2>1 DEF RecordAnswer, AfterRecord, Go, logVars
  <2>2. CASE ResumeTurn(r)
    BY <2>2 DEF ResumeTurn, Go, logVars
  <2>3. CASE ReenterTurn(r)
    BY <2>3 DEF ReenterTurn, AssertThen, Go, logVars
  <2>4. CASE InnerCatch(r)
    BY <2>4 DEF InnerCatch, Go, logVars
  <2> QED
    BY <1>9, <2>1, <2>2, <2>3, <2>4
<1>10. ASSUME NEW r \in Responder, Settle(r) \/ Catch(r)
       PROVE  RequestTypeOK'
  <2>1. step' \in [Responder -> Step] /\ keep' \in [Responder -> BOOLEAN]
    BY <1>10 DEF Settle, Catch, Leave, Go
  <2>2. /\ resume' \in {"none", "resuming", "resumed", "resume_failed", "interrupted"}
        /\ session' \in {"waiting", "running", "interrupted"}
    BY <1>10 DEF Settle, Catch
  <2> QED
    BY <1>10, <2>1, <2>2 DEF Settle, Catch
<1>11. ASSUME NEW r \in Responder, ReleaseClaim(r) \/ DiscardPayload(r)
       PROVE  RequestTypeOK'
  <2>1. CASE ReleaseClaim(r)
    BY <2>1 DEF ReleaseClaim, Go, logVars
  <2>2. CASE DiscardPayload(r)
    BY <2>2 DEF DiscardPayload, Go, logVars
  <2> QED
    BY <1>11, <2>1, <2>2
<1>12. CASE InterruptSession \/ RecoverSession \/ TimePasses \/ UNCHANGED vars
  <2>1. CASE InterruptSession
    BY <2>1 DEF InterruptSession, callVars
  <2>2. CASE RecoverSession
    BY <2>2 DEF RecoverSession, callVars, logVars
  <2>3. CASE TimePasses
    BY <2>3 DEF TimePasses, requestVars, callVars, logVars
  <2>4. CASE UNCHANGED vars
    BY <2>4 DEF vars, requestVars, callVars, logVars
  <2> QED
    BY <1>12, <2>1, <2>2, <2>3, <2>4
<1> QED
  BY ONLY [Next]_vars, <1>2, <1>3, <1>4, <1>5, <1>6, <1>7, <1>8, <1>9, <1>10, <1>11, <1>12
     DEF Next, MainStep

-----------------------------------------------------------------------------
(* Lemmas.                                                                 *)

Cancelled == responses # <<>> /\ responses[Len(responses)].submission = Cancel

\* The status of the question: cancelled, or what its last resume record says, if it has one.
LEMMA StatusIs ==
    ASSUME RequestTypeOK
    PROVE  /\ RequestStatus = "cancelled" <=> Cancelled
           /\ ~Cancelled /\ resume # "none" => RequestStatus = resume
           /\ ~Cancelled /\ resume = "none" => RequestStatus \in {"answered", "pending"}
BY DEF RequestTypeOK, RequestStatus, Cancelled

\* A step of the owner that leaves the others' calls alone need only be looked at for itself.
LEMMA OwnerKeeps ==
    ASSUME LeaseInv, AnswerInv, NEW r \in Responder, at[r] = "owner", at' = at,
           \A q \in Responder \ {r} : step'[q] = step[q] /\ keep'[q] = keep[q],
           CallOf(r)', ClaimOf(r)', StatusOf(r)', RecordOf(r)'
    PROVE  CallInv' /\ ClaimInv' /\ StatusInv' /\ RecordInv'
<1>1. ASSUME NEW q \in Responder, q # r
      PROVE  CallOf(q)' /\ ClaimOf(q)' /\ StatusOf(q)' /\ RecordOf(q)'
  <2>1. at[q] \notin Holding /\ at'[q] = at[q]
    BY <1>1, OnlyHolder
  <2>2. ~Works(q)'
    BY <2>1 DEF Works
  <2>3. CallOf(q)
    BY DEF AnswerInv, CallInv
  <2>4. CallOf(q)'
    BY <1>1, <2>1, <2>2, <2>3 DEF CallOf
  <2> QED
    BY <2>2, <2>4 DEF ClaimOf, StatusOf, RecordOf
<1> QED
  BY <1>1 DEF CallInv, ClaimInv, StatusInv, RecordInv

\* What an owner that works may rely on.
LEMMA WorkerFacts ==
    ASSUME AnswerInv, NEW r \in Responder, Works(r)
    PROVE  /\ keep[r] /\ at[r] = "owner"
           /\ LogIsOf(payload)
           /\ ClaimOf(r) /\ StatusOf(r) /\ RecordOf(r)
BY DEF AnswerInv, CallInv, ClaimInv, StatusInv, RecordInv, CallOf, LogInv, Works

\* A step of an owner that works, and leaves the log, the claim file and what it has of
\* them alone, keeps the invariant wherever it goes with the status it leaves.
LEMMA WorkKeeps ==
    ASSUME LeaseInv, RequestTypeOK, RequestTypeOK', AnswerInv, NEW r \in Responder, Works(r), at' = at,
           NEW s \in Step, Go(r, s), s \notin {"discard", "message", "response"},
           UNCHANGED <<offer, claim, payload, messages, responses>>,
           \/ s \notin Resting \cup {"write"} /\ UNCHANGED keep
           \/ /\ s = "leave" /\ \A q \in Responder \ {r} : keep'[q] = keep[q]
              /\ keep'[r] \/ ~Unsettled',
           s \notin Resting =>
               /\ step[r] \notin {"payload", "write"}
               /\ s \in {"assert", "await"} => goal'[r] \in {"reconciled", "cancel", "record", "loop", "settle"}
               /\ Aim(r)' \in {"cancel", "respond_cancel", "resume_cancel"} => claim[r].submission = Cancel
               /\ Aim(r)' \in {"record", "message", "response"} => claim[r].submission # Cancel
               /\ RequestStatus' = "cancelled" => s = "resume_cancel"
               /\ RequestStatus' = "resumed" => s = "confirm"
               /\ s = "confirm" => resume' \in {"resumed", "interrupted"}
    PROVE  AnswerInv'
<1> USE WorkerFacts
<1>0. ClaimOf(r)
  OBVIOUS
<1>1. step'[r] = s /\ at'[r] = "owner" /\ \A q \in Responder \ {r} : step'[q] = step[q] /\ keep'[q] = keep[q]
  BY DEF RequestTypeOK, Go
<1>2. CallOf(r)'
  BY <1>1 DEF CallOf, Works, RequestTypeOK
<1>3. ClaimOf(r)'
  <2> SUFFICES ASSUME s \notin Resting
               PROVE  ClaimOf(r)'
    BY <1>1 DEF ClaimOf, Works
  <2>1. claim'[r] = claim[r] /\ claim[r] = payload /\ payload' = payload /\ payload # None
    BY ONLY <1>0, Works(r), s \notin Resting, s \notin Resting => step[r] \notin {"payload", "write"},
            UNCHANGED <<claim, payload>> DEF ClaimOf
  <2> QED
    BY <1>1, <2>1 DEF ClaimOf
<1>4. StatusOf(r)'
  BY <1>1 DEF StatusOf, Works
<1>5. RecordOf(r)'
  BY <1>1 DEF RecordOf, Works
<1>6. LogInv' /\ OneResponse' /\ OneMessage'
  BY DEF LogInv, LogIsOf, AnswerInv, OneResponse, OneMessage
<1> QED
  BY <1>1, <1>2, <1>3, <1>4, <1>5, <1>6, OwnerKeeps DEF AnswerInv, Works

\* So an owner may leave with the claim file kept, and without it once the question is settled.
LEMMA LeavingKeeps ==
    ASSUME LeaseInv, RequestTypeOK, RequestTypeOK', AnswerInv, NEW r \in Responder, Works(r), at' = at,
           Go(r, "leave"),
           \/ keep' = [keep EXCEPT ![r] = TRUE]
           \/ keep' = [keep EXCEPT ![r] = FALSE] /\ ~Unsettled',
           UNCHANGED <<offer, claim, payload, messages, responses>>
    PROVE  AnswerInv'
<1>1. "leave" \in Step
  BY DEF Step
<1>2. \A q \in Responder \ {r} : keep'[q] = keep[q]
  BY DEF RequestTypeOK
<1>3. keep'[r] \/ ~Unsettled'
  BY DEF RequestTypeOK
<1> QED
  BY <1>1, <1>2, <1>3, WorkKeeps

\* And it may go on with the status unchanged.
LEMMA PassingKeeps ==
    ASSUME LeaseInv, RequestTypeOK, RequestTypeOK', AnswerInv, NEW r \in Responder, Works(r), at' = at,
           step[r] \notin {"payload", "write", "confirm", "resume_cancel"},
           NEW s \in Step, Go(r, s), s \notin Resting \cup {"write", "message", "response", "confirm"},
           UNCHANGED <<offer, claim, payload, messages, responses, resume, keep>>,
           s \in {"assert", "await"} => goal'[r] \in {"reconciled", "cancel", "record", "loop", "settle"},
           Aim(r)' \in {"cancel", "respond_cancel", "resume_cancel"} => claim[r].submission = Cancel,
           Aim(r)' \in {"record", "message", "response"} => claim[r].submission # Cancel
    PROVE  AnswerInv'
<1>1. RequestStatus' = RequestStatus
  BY DEF RequestStatus
<1>2. RequestStatus \notin {"cancelled", "resumed"}
  BY WorkerFacts DEF StatusOf
<1> QED
  BY <1>1, <1>2, WorkKeeps

-----------------------------------------------------------------------------
(* One lemma for each step: how it keeps the invariant.                    *)

LEMMA EnterTurnKeeps ==
    ASSUME LeaseInv, RequestTypeOK, RequestTypeOK', AnswerInv, NEW r \in Responder, EnterTurn(r)
    PROVE  AnswerInv'
<1>1. Works(r) /\ at' = at /\ UNCHANGED <<offer, claim, payload, messages, responses, resume>>
  BY DEF EnterTurn, At, Works, leaseVars, logVars
<1>2. CASE Leave(r, TRUE)
  BY <1>1, <1>2, LeavingKeeps DEF Leave
<1>3. CASE Go(r, "resuming") /\ UNCHANGED keep
  <2>1. Aim(r)' = "resuming"
    BY <1>3 DEF Go, Aim, RequestTypeOK
  <2>2. "resuming" \in Step
    BY DEF Step, ClaimStep
  <2> QED
    BY <1>1, <1>3, <2>1, <2>2, PassingKeeps DEF EnterTurn, At
<1> QED
  BY <1>2, <1>3 DEF EnterTurn

LEMMA RecordResumingKeeps ==
    ASSUME LeaseInv, RequestTypeOK, RequestTypeOK', AnswerInv, NEW r \in Responder, RecordResuming(r)
    PROVE  AnswerInv'
<1>1. Works(r) /\ at' = at /\ step[r] = "resuming" /\ UNCHANGED <<offer, claim, payload, messages, responses, keep>>
  BY DEF RecordResuming, At, Works, leaseVars
<1>2. Go(r, "verify") /\ Aim(r)' = "verify"
  BY DEF RecordResuming, Go, Aim, RequestTypeOK
<1>3. "verify" \in Step
  BY DEF Step, ClaimStep
<1>4. RequestStatus' \notin {"cancelled", "resumed"}
  <2>1. ~Cancelled
    BY <1>1, WorkerFacts, StatusIs DEF StatusOf
  <2>2. ~Cancelled' /\ resume' = "resuming"
    BY <2>1, <1>1 DEF Cancelled, RecordResuming
  <2> QED
    BY <2>2 DEF RequestStatus, Cancelled
<1> QED
  BY <1>1, <1>2, <1>3, <1>4, WorkKeeps

LEMMA VerifyClaimKeeps ==
    ASSUME LeaseInv, RequestTypeOK, RequestTypeOK', AnswerInv, NEW r \in Responder, VerifyClaim(r)
    PROVE  AnswerInv'
<1>1. Works(r) /\ at' = at /\ step[r] = "verify" /\ UNCHANGED <<offer, claim, payload, messages, responses>>
  BY DEF VerifyClaim, At, Works, leaseVars
<1>2. CASE Leave(r, TRUE)
  BY <1>1, <1>2, LeavingKeeps DEF Leave
<1>3. CASE Go(r, "reconcile") /\ UNCHANGED <<resume, keep>>
  <2>1. Aim(r)' = "reconcile"
    BY <1>3 DEF Go, Aim, RequestTypeOK
  <2>2. "reconcile" \in Step
    BY DEF Step
  <2> QED
    BY <1>1, <1>3, <2>1, <2>2, PassingKeeps
<1> QED
  BY <1>2, <1>3 DEF VerifyClaim

LEMMA AssertLeaseKeeps ==
    ASSUME LeaseInv, RequestTypeOK, RequestTypeOK', AnswerInv, NEW r \in Responder, AssertLease(r)
    PROVE  AnswerInv'
<1>1. Works(r) /\ at' = at /\ step[r] = "assert"
      /\ UNCHANGED <<offer, goal, claim, payload, messages, responses, resume, keep>>
  BY DEF AssertLease, RenewCheck, At, Works, logVars
<1>2. Go(r, "await") /\ Aim(r)' = Aim(r)
  BY <1>1 DEF AssertLease, Go, Aim, RequestTypeOK
<1>3. "await" \in Step
  BY DEF Step
<1>4. ClaimOf(r)
  BY <1>1, WorkerFacts
<1> QED
  BY <1>1, <1>2, <1>3, <1>4, PassingKeeps DEF ClaimOf

LEMMA LeaseAssertedKeeps ==
    ASSUME LeaseInv, RequestTypeOK, RequestTypeOK', AnswerInv, NEW r \in Responder, LeaseAsserted(r)
    PROVE  AnswerInv'
<1>1. Works(r) /\ at' = at /\ step[r] \in {"assert", "await"}
      /\ UNCHANGED <<offer, goal, claim, payload, messages, responses, resume>>
  BY DEF LeaseAsserted, Works, leaseVars, logVars
<1>2. CASE Leave(r, TRUE)
  BY <1>1, <1>2, LeavingKeeps DEF Leave
<1>3. CASE (Go(r, "catch") \/ Go(r, "inner_catch")) /\ UNCHANGED keep
  <2>1. "catch" \in Step /\ "inner_catch" \in Step
    BY DEF Step, Resumption
  <2>2. Aim(r)' \in {"catch", "inner_catch"}
    BY <1>3 DEF Go, Aim, RequestTypeOK
  <2> QED
    BY <1>1, <1>3, <2>1, <2>2, PassingKeeps
<1>4. CASE step[r] = "await" /\ Go(r, goal[r]) /\ UNCHANGED keep
  <2>1. ClaimOf(r)
    BY <1>1, WorkerFacts
  <2>2. goal[r] \in {"reconciled", "cancel", "record", "loop", "settle"} /\ goal[r] \in Step
    BY <1>1, <2>1 DEF ClaimOf, Step, Resumption
  <2>3. Aim(r)' = goal[r] /\ Aim(r) = goal[r]
    BY <1>1, <1>4, <2>2 DEF Go, Aim, RequestTypeOK
  <2> QED
    BY <1>1, <1>4, <2>1, <2>2, <2>3, PassingKeeps DEF ClaimOf
<1> QED
  BY <1>2, <1>3, <1>4 DEF LeaseAsserted, LostLease

LEMMA ReconcileKeeps ==
    ASSUME LeaseInv, RequestTypeOK, RequestTypeOK', AnswerInv, NEW r \in Responder, Reconcile(r)
    PROVE  AnswerInv'
<1>1. Works(r) /\ at' = at /\ step[r] = "reconcile"
      /\ UNCHANGED <<offer, claim, payload, messages, responses, resume, keep>>
  BY DEF Reconcile, At, Works, leaseVars, logVars
<1>2. Go(r, "assert") /\ "assert" \in Step
  BY DEF Reconcile, AssertThen, Step
<1>3. goal'[r] = IF claim[r].id \in completed THEN "reconciled"
                 ELSE IF claim[r].submission = Cancel THEN "cancel" ELSE "record"
  BY DEF Reconcile, AssertThen, RequestTypeOK
<1>4. Aim(r)' = goal'[r]
  BY <1>2 DEF Aim, Go, RequestTypeOK
<1> QED
  BY <1>1, <1>2, <1>3, <1>4, PassingKeeps

LEMMA ReconciledKeeps ==
    ASSUME LeaseInv, RequestTypeOK, RequestTypeOK', AnswerInv, NEW r \in Responder, Reconciled(r)
    PROVE  AnswerInv'
<1>1. Works(r) /\ at' = at /\ step[r] \in {"reconciled", "settle_reconciled"}
      /\ UNCHANGED <<offer, claim, payload, messages, responses>>
  BY DEF Reconciled, At, Works, leaseVars
<1>2. CASE Go(r, "settle_reconciled") /\ UNCHANGED <<resume, keep>>
  <2>1. Aim(r)' = "settle_reconciled"
    BY <1>2 DEF Go, Aim, RequestTypeOK
  <2>2. "settle_reconciled" \in Step
    BY DEF Step
  <2> QED
    BY <1>1, <1>2, <2>1, <2>2, PassingKeeps
<1>3. CASE resume' = "resumed" /\ Leave(r, FALSE)
  <2>1. ~Unsettled'
    BY <1>3 DEF Unsettled, RequestStatus
  <2> QED
    BY <1>1, <1>3, <2>1, LeavingKeeps DEF Leave
<1> QED
  BY <1>2, <1>3 DEF Reconciled

LEMMA ResumeTurnKeeps ==
    ASSUME LeaseInv, RequestTypeOK, RequestTypeOK', AnswerInv, NEW r \in Responder,
           ResumeTurn(r) \/ ReenterTurn(r) \/ InnerCatch(r)
    PROVE  AnswerInv'
<1>1. Works(r) /\ at' = at /\ step[r] \in {"resume", "reenter", "inner_catch"}
      /\ UNCHANGED <<offer, claim, payload, messages, responses, resume, keep>>
  BY DEF ResumeTurn, ReenterTurn, InnerCatch, At, Works, leaseVars, logVars
<1>2. CASE Go(r, "catch") \/ Go(r, "reenter")
  <2>1. Aim(r)' \in {"catch", "reenter"}
    BY <1>2 DEF Go, Aim, RequestTypeOK
  <2>2. "catch" \in Step /\ "reenter" \in Step
    BY DEF Step
  <2> QED
    BY <1>1, <1>2, <2>1, <2>2, PassingKeeps
<1>3. CASE AssertThen(r, "loop")
  <2>1. Aim(r)' = "loop" /\ goal'[r] = "loop" /\ Go(r, "assert")
    BY <1>3 DEF AssertThen, Go, Aim, RequestTypeOK
  <2>2. "assert" \in Step
    BY DEF Step
  <2> QED
    BY <1>1, <2>1, <2>2, PassingKeeps
<1> QED
  BY <1>2, <1>3 DEF ResumeTurn, ReenterTurn, InnerCatch

LEMMA ModelLoopKeeps ==
    ASSUME LeaseInv, RequestTypeOK, RequestTypeOK', AnswerInv, NEW r \in Responder, ModelLoop(r)
    PROVE  AnswerInv'
<1>1. Works(r) /\ at' = at /\ step[r] = "loop"
      /\ UNCHANGED <<offer, claim, payload, messages, responses, resume, keep>>
  BY DEF ModelLoop, At, Works, leaseVars
<1>2. CASE Go(r, "permission") \/ Go(r, "inner_catch")
  <2>1. Aim(r)' \in {"permission", "inner_catch"}
    BY <1>2 DEF Go, Aim, RequestTypeOK
  <2>2. "permission" \in Step /\ "inner_catch" \in Step
    BY DEF Step, Resumption
  <2> QED
    BY <1>1, <1>2, <2>1, <2>2, PassingKeeps
<1>3. CASE AssertThen(r, "settle")
  <2>1. Aim(r)' = "settle" /\ goal'[r] = "settle" /\ Go(r, "assert")
    BY <1>3 DEF AssertThen, Go, Aim, RequestTypeOK
  <2>2. "assert" \in Step
    BY DEF Step
  <2> QED
    BY <1>1, <2>1, <2>2, PassingKeeps
<1> QED
  BY <1>2, <1>3 DEF ModelLoop

LEMMA SettleKeeps ==
    ASSUME LeaseInv, RequestTypeOK, RequestTypeOK', AnswerInv, NEW r \in Responder, Settle(r)
    PROVE  AnswerInv'
<1>1. Works(r) /\ at' = at /\ step[r] \in {"settle", "resumed", "confirm"}
      /\ UNCHANGED <<offer, claim, payload, messages, responses>>
  BY DEF Settle, At, Works, leaseVars
<1>2. CASE At(r, "settle")
  <2>1. PICK s \in {"resumed", "inner_catch", "catch"} : Go(r, s) /\ UNCHANGED <<resume, keep>>
    BY <1>2 DEF Settle, At
  <2>2. s \in Step /\ Aim(r)' = s
    BY <2>1 DEF Step, Resumption, Go, Aim, RequestTypeOK
  <2> QED
    BY <1>1, <1>2, <2>1, <2>2, PassingKeeps DEF At
<1> USE StatusIs
<1>3. ~Cancelled'
  BY <1>1, WorkerFacts DEF StatusOf, Cancelled
<1>4. CASE At(r, "resumed")
  <2>1. resume' = "resumed" /\ Go(r, "confirm") /\ UNCHANGED keep
    BY <1>4 DEF Settle, At
  <2>2. "confirm" \in Step /\ Aim(r)' = "confirm"
    BY <2>1 DEF Step, Go, Aim, RequestTypeOK
  <2>3. RequestStatus' # "cancelled"
    BY <1>3, <2>1 DEF RequestStatus, Cancelled
  <2> QED
    BY <1>1, <1>4, <2>1, <2>2, <2>3, WorkKeeps DEF At
<1>5. CASE At(r, "confirm") /\ Leave(r, FALSE) /\ UNCHANGED resume
  <2>1. resume' \in {"resumed", "interrupted"}
    BY <1>1, <1>5, WorkerFacts DEF StatusOf, At
  <2>2. ~Unsettled'
    BY <2>1 DEF Unsettled, RequestStatus
  <2> QED
    BY <1>1, <1>5, <2>2, LeavingKeeps DEF Leave
<1>6. CASE At(r, "confirm") /\ resume' = "interrupted" /\ (Go(r, "inner_catch") \/ Go(r, "catch")) /\ UNCHANGED keep
  <2>1. PICK s \in {"inner_catch", "catch"} : Go(r, s)
    BY <1>6
  <2>2. s \in Step /\ Aim(r)' = s
    BY <2>1 DEF Step, Resumption, Go, Aim, RequestTypeOK
  <2>3. RequestStatus' \notin {"cancelled", "resumed"}
    BY <1>3, <1>6 DEF RequestStatus, Cancelled
  <2> QED
    BY <1>1, <1>6, <2>1, <2>2, <2>3, WorkKeeps DEF At
<1> QED
  BY <1>2, <1>4, <1>5, <1>6 DEF Settle

LEMMA CatchKeeps ==
    ASSUME LeaseInv, RequestTypeOK, RequestTypeOK', AnswerInv, NEW r \in Responder, Catch(r)
    PROVE  AnswerInv'
<1>1. Works(r) /\ at' = at /\ step[r] \in {"catch", "permission", "resume_failed"}
      /\ UNCHANGED <<offer, claim, payload, messages, responses>>
  BY DEF Catch, At, Works, leaseVars
<1>2. CASE At(r, "resume_failed")
  BY <1>1, <1>2, LeavingKeeps DEF Catch, At, Leave
<1>3. CASE At(r, "permission")
  <2>1. ~Unsettled'
    BY <1>1, <1>3 DEF Catch, At, Unsettled, RequestStatus
  <2> QED
    BY <1>1, <1>3, <2>1, LeavingKeeps DEF Catch, At, Leave
<1>4. CASE At(r, "catch") /\ RequestStatus = "interrupted"
  <2>1. Leave(r, FALSE) /\ UNCHANGED resume
    BY <1>4 DEF Catch, At
  <2>2. ~Unsettled'
    BY <1>1, <1>4, <2>1 DEF Unsettled, RequestStatus
  <2> QED
    BY <1>1, <2>1, <2>2, LeavingKeeps DEF Leave
<1>5. CASE At(r, "catch") /\ RequestStatus # "interrupted"
  <2>1. resume' = "resume_failed" /\ Go(r, "resume_failed") /\ UNCHANGED keep
    BY <1>5 DEF Catch, At
  <2>2. "resume_failed" \in Step /\ Aim(r)' = "resume_failed"
    BY <2>1 DEF Step, Go, Aim, RequestTypeOK
  <2>3. ~Cancelled'
    BY <1>1, WorkerFacts, StatusIs DEF StatusOf, Cancelled
  <2>4. RequestStatus' \notin {"cancelled", "resumed"}
    BY <2>1, <2>3 DEF RequestStatus, Cancelled
  <2> QED
    BY <1>1, <1>5, <2>1, <2>2, <2>4, WorkKeeps DEF At
<1> QED
  BY <1>2, <1>3, <1>4, <1>5 DEF Catch

\* A cancellation reaches the log only where no answer has.
LEMMA CancelQuestionKeeps ==
    ASSUME LeaseInv, RequestTypeOK, RequestTypeOK', AnswerInv, NEW r \in Responder, CancelQuestion(r)
    PROVE  AnswerInv'
<1>1. Works(r) /\ at' = at /\ step[r] \in {"cancel", "respond_cancel", "resume_cancel"}
      /\ UNCHANGED <<offer, goal, claim, payload, messages>>
  BY DEF CancelQuestion, At, Works, leaseVars
<1>2. claim[r] = payload /\ payload # None /\ claim[r].submission = Cancel
  BY <1>1, WorkerFacts DEF ClaimOf, Aim
<1>3. CASE At(r, "cancel")
  <2>1. Go(r, "respond_cancel") /\ UNCHANGED <<responses, resume, keep>>
    BY <1>3 DEF CancelQuestion, At
  <2>2. "respond_cancel" \in Step /\ Aim(r)' = "respond_cancel"
    BY <2>1 DEF Step, Go, Aim, RequestTypeOK
  <2> QED
    BY <1>1, <1>2, <1>3, <2>1, <2>2, PassingKeeps DEF At
<1>4. CASE At(r, "resume_cancel")
  <2>1. resume' = "interrupted" /\ Leave(r, FALSE) /\ UNCHANGED responses
    BY <1>4 DEF CancelQuestion, At
  <2>2. ~Unsettled'
    BY <2>1 DEF Unsettled, RequestStatus
  <2> QED
    BY <1>1, <2>1, <2>2, LeavingKeeps DEF Leave
<1>5. CASE At(r, "respond_cancel")
  <2>1. Go(r, "resume_cancel") /\ responses' = Append(responses, claim[r]) /\ UNCHANGED <<resume, keep>>
    BY <1>5 DEF CancelQuestion, At
  <2>2. responses = <<>>
    <3>1. ~Cancelled
      BY <1>1, <1>5, WorkerFacts, StatusIs DEF StatusOf, At
    <3>2. Len(responses) <= 1 /\ responses \in Seq(Committed)
      BY DEF AnswerInv, OneResponse, RequestTypeOK
    <3>3. responses # <<>> => responses[1] = payload
      BY <1>1, WorkerFacts DEF LogIsOf
    <3> QED
      BY <1>2, <3>1, <3>2, <3>3 DEF Cancelled
  <2>3. claim[r] \in Committed
    BY <1>2 DEF RequestTypeOK
  <2>4. responses' = <<claim[r]>>
    BY <2>1, <2>2, <2>3
  <2>5. step'[r] = "resume_cancel" /\ \A q \in Responder \ {r} : step'[q] = step[q] /\ keep'[q] = keep[q]
    BY <2>1 DEF Go, RequestTypeOK
  <2>6. RequestStatus' = "cancelled"
    BY <1>2, <1>1, <2>4 DEF RequestStatus
  <2>7. CallOf(r)' /\ ClaimOf(r)' /\ StatusOf(r)' /\ RecordOf(r)'
    BY <1>1, <1>2, <2>1, <2>5, <2>6, WorkerFacts DEF CallOf, ClaimOf, StatusOf, RecordOf, Works, Aim
  <2>8. LogInv' /\ OneResponse' /\ OneMessage'
    BY <1>1, <1>2, <2>4, WorkerFacts DEF LogInv, LogIsOf, AnswerInv, OneResponse, OneMessage
  <2> QED
    BY <1>1, <2>5, <2>7, <2>8, OwnerKeeps DEF AnswerInv, Works
<1> QED
  BY <1>3, <1>4, <1>5 DEF CancelQuestion

\* An owner looks for its answer in the log by the id of the response: what it does not find
\* there, nobody has appended.
LEMMA RecordAnswerKeeps ==
    ASSUME LeaseInv, RequestTypeOK, RequestTypeOK', AnswerInv, NEW r \in Responder, RecordAnswer(r)
    PROVE  AnswerInv'
<1>1. Works(r) /\ at' = at /\ step[r] = "record"
      /\ UNCHANGED <<offer, goal, claim, payload, keep, messages, responses, resume>>
  BY DEF RecordAnswer, At, Works, leaseVars, logVars
<1>2. claim[r] = payload /\ payload # None /\ claim[r].submission # Cancel
  BY <1>1, WorkerFacts DEF ClaimOf, Aim
<1>3. /\ "message" \in missing'[r] => messages[claim[r].id] = 0
      /\ "response" \in missing'[r] => \A i \in DOMAIN responses : responses[i].id # claim[r].id
  <2>1. missing'[r] =
           (IF messages[claim[r].id] > 0 THEN {} ELSE {"message"}) \cup
           (IF \E i \in DOMAIN responses : responses[i].id = claim[r].id THEN {} ELSE {"response"})
    BY DEF RecordAnswer, RequestTypeOK
  <2>2. messages[claim[r].id] \in Nat
    BY <1>2 DEF RequestTypeOK, Committed
  <2> QED
    BY <2>1, <2>2
<1>4. "response" \in missing'[r] => responses = <<>>
  <2>1. responses # <<>> => responses[1] = claim[r] /\ 1 \in DOMAIN responses
    BY <1>1, <1>2, WorkerFacts DEF LogIsOf, RequestTypeOK
  <2> QED
    BY <1>3, <2>1
<1>5. Go(r, AfterRecord(missing'[r])) /\ AfterRecord(missing'[r]) \in {"message", "response", "resume", "settle"}
  BY DEF RecordAnswer, AfterRecord
<1>6. /\ step'[r] = AfterRecord(missing'[r])
      /\ \A q \in Responder \ {r} : step'[q] = step[q] /\ keep'[q] = keep[q]
  BY <1>1, <1>5 DEF Go, RequestTypeOK
<1>7. RequestStatus' = RequestStatus
  BY <1>1 DEF RequestStatus
<1>8. CallOf(r)' /\ ClaimOf(r)' /\ StatusOf(r)'
  BY <1>1, <1>2, <1>5, <1>6, <1>7, WorkerFacts DEF CallOf, ClaimOf, StatusOf, Works, Aim
<1>9. RecordOf(r)'
  <2>1. step'[r] \in {"message", "response"} => step'[r] \in missing'[r]
    BY <1>6 DEF AfterRecord
  <2> QED
    BY <1>1, <1>3, <1>4, <2>1 DEF RecordOf
<1>10. LogInv' /\ OneResponse' /\ OneMessage'
  BY <1>1, WorkerFacts DEF LogInv, LogIsOf, AnswerInv, OneResponse, OneMessage
<1> QED
  BY <1>1, <1>6, <1>8, <1>9, <1>10, OwnerKeeps DEF AnswerInv, Works

\* So it appends nothing twice.
LEMMA AppendAnswerKeeps ==
    ASSUME LeaseInv, RequestTypeOK, RequestTypeOK', AnswerInv, NEW r \in Responder, AppendAnswer(r)
    PROVE  AnswerInv'
<1>1. Works(r) /\ at' = at /\ step[r] \in {"message", "response"}
      /\ UNCHANGED <<offer, goal, claim, payload, keep, resume>>
  BY DEF AppendAnswer, At, Works, leaseVars
<1>2. claim[r] = payload /\ payload # None /\ claim[r].submission # Cancel /\ claim[r] \in Committed
  BY <1>1, WorkerFacts DEF ClaimOf, Aim, RequestTypeOK
<1>3. missing'[r] = missing[r] \ {step[r]} /\ Go(r, AfterRecord(missing'[r]))
      /\ AfterRecord(missing'[r]) \in {"message", "response", "resume", "settle"}
  BY DEF AppendAnswer, AfterRecord, RequestTypeOK
<1>4. /\ step'[r] = AfterRecord(missing'[r])
      /\ \A q \in Responder \ {r} : step'[q] = step[q] /\ keep'[q] = keep[q]
  BY <1>1, <1>3 DEF Go, RequestTypeOK
<1>5. step'[r] \in {"message", "response"} => step'[r] \in missing'[r]
  BY <1>4 DEF AfterRecord
<1>6. RecordOf(r) /\ StatusOf(r) /\ LogIsOf(payload) /\ keep[r]
  BY <1>1, WorkerFacts
<1>7. /\ RequestStatus' \notin {"cancelled", "resumed"}
      /\ RecordOf(r)' /\ LogIsOf(payload)' /\ OneResponse' /\ OneMessage'
  <2>1. ~Cancelled
    BY <1>1, <1>6, StatusIs DEF StatusOf
  <2>2. resume \notin {"resumed", "cancelled"}
    BY <1>1, <1>6, <2>1, StatusIs DEF StatusOf, RequestTypeOK
  <2>3. CASE step[r] = "message"
    <3>1. messages' = [messages EXCEPT ![claim[r].id] = @ + 1] /\ responses' = responses
      BY <2>3 DEF AppendAnswer, At
    <3>2. messages[claim[r].id] = 0 /\ claim[r].id \in Responder
      BY <1>1, <1>2, <1>6, <2>3 DEF RecordOf, Committed
    <3>3. messages'[claim[r].id] = 1 /\ \A q \in Responder \ {claim[r].id} : messages'[q] = messages[q]
      BY <3>1, <3>2 DEF RequestTypeOK
    <3>4. RequestStatus' \notin {"cancelled", "resumed"}
      BY <1>1, <2>1, <2>2, <3>1 DEF RequestStatus, Cancelled
    <3>5. RecordOf(r)'
      BY <1>1, <1>3, <1>5, <1>6, <2>3, <3>1 DEF RecordOf
    <3>6. LogIsOf(payload)' /\ OneResponse'
      BY <1>1, <1>2, <1>6, <3>1, <3>3 DEF LogIsOf, AnswerInv, OneResponse
    <3>7. OneMessage'
      BY <1>2, <1>6, <3>2, <3>3 DEF LogIsOf, AnswerInv, OneMessage
    <3> QED
      BY <3>4, <3>5, <3>6, <3>7
  <2>4. CASE step[r] = "response"
    <3>1. responses' = Append(responses, claim[r]) /\ messages' = messages
      BY <2>4 DEF AppendAnswer, At
    <3>2. responses = <<>>
      BY <1>1, <1>6, <2>4 DEF RecordOf
    <3>3. responses' = <<claim[r]>>
      BY <1>2, <3>1, <3>2
    <3>4. RequestStatus' \notin {"cancelled", "resumed"}
      BY <1>1, <1>2, <2>2, <3>3 DEF RequestStatus
    <3>5. RecordOf(r)'
      BY <1>1, <1>3, <1>5, <1>6, <2>4, <3>1 DEF RecordOf
    <3>6. LogIsOf(payload)' /\ OneResponse' /\ OneMessage'
      BY <1>1, <1>2, <1>6, <3>1, <3>3 DEF LogIsOf, AnswerInv, OneResponse, OneMessage
    <3> QED
      BY <3>4, <3>5, <3>6
  <2> QED
    BY <1>1, <2>3, <2>4
<1>8. CallOf(r)' /\ ClaimOf(r)' /\ StatusOf(r)'
  BY <1>1, <1>2, <1>3, <1>4, <1>6, <1>7 DEF CallOf, ClaimOf, StatusOf, Works, Aim
<1>9. LogInv'
  BY <1>7 DEF LogInv
<1> QED
  BY <1>1, <1>4, <1>7, <1>8, <1>9, OwnerKeeps DEF AnswerInv, Works

\* Under the lease an owner goes on only with a question that is not settled.
LEMMA ReloadKeeps ==
    ASSUME LeaseInv, RequestTypeOK, RequestTypeOK', AnswerInv, NEW r \in Responder, Reload(r)
    PROVE  AnswerInv'
<1>1. at[r] = "owner" /\ at' = at
      /\ UNCHANGED <<offer, goal, claim, payload, messages, responses, resume>>
  BY DEF Reload, At, leaseVars, logVars
<1>2. step'[r] \in {"payload", "leave"}
      /\ \A q \in Responder \ {r} : step'[q] = step[q] /\ keep'[q] = keep[q]
  BY DEF Reload, Leave, Go, RequestTypeOK
<1>3. step'[r] = "payload" => Unsettled /\ keep'[r] = keep[r]
  BY DEF Reload, Leave, Go, RequestTypeOK
<1>4. step'[r] = "leave" => ~Unsettled
  BY DEF Reload, Leave, Go, RequestTypeOK
<1>5. RequestStatus' = RequestStatus /\ Unsettled' = Unsettled
  BY <1>1 DEF RequestStatus, Unsettled
<1>6. CallOf(r)'
  <2>1. keep[r] \/ ~Unsettled
    BY <1>1 DEF AnswerInv, CallInv, CallOf
  <2> QED
    BY <1>1, <1>2, <1>3, <1>4, <1>5, <2>1 DEF CallOf, Works
<1>7. ClaimOf(r)' /\ RecordOf(r)'
  BY <1>1, <1>2 DEF ClaimOf, RecordOf, Works, Aim
<1>8. StatusOf(r)'
  BY <1>1, <1>2, <1>3, <1>5 DEF StatusOf, Works, Unsettled
<1>9. LogInv' /\ OneResponse' /\ OneMessage'
  <2>1. ASSUME NEW q \in Responder, Works(q)'
        PROVE  Unsettled
    BY <1>1, <1>2, <1>3, <2>1, OnlyHolder DEF Works
  <2>2. Unsettled => LogIsOf(payload)
    BY DEF AnswerInv, LogInv
  <2> QED
    BY <1>1, <1>5, <2>1, <2>2 DEF LogInv, LogIsOf, AnswerInv, OneResponse, OneMessage
<1> QED
  BY <1>1, <1>2, <1>6, <1>7, <1>8, <1>9, OwnerKeeps DEF AnswerInv

\* A committed submission is taken over as it is.
LEMMA LoadPayloadKeeps ==
    ASSUME LeaseInv, RequestTypeOK, RequestTypeOK', AnswerInv, NEW r \in Responder, LoadPayload(r)
    PROVE  AnswerInv'
<1>1. Works(r) /\ at' = at /\ step[r] = "payload"
      /\ UNCHANGED <<offer, goal, payload, messages, responses, resume>>
  BY DEF LoadPayload, At, Works, leaseVars, logVars
<1>2. CASE Leave(r, TRUE) /\ UNCHANGED claim
  BY <1>1, <1>2, LeavingKeeps DEF Leave
<1>3. CASE \/ payload = None /\ offer[r] # None /\ Go(r, "write") /\ UNCHANGED <<claim, keep>>
           \/ payload # None /\ claim' = [claim EXCEPT ![r] = payload] /\ Go(r, "enter") /\ UNCHANGED keep
  <2>1. \/ step'[r] = "write" /\ offer[r] # None
        \/ step'[r] = "enter" /\ payload # None /\ claim'[r] = payload
    BY <1>3 DEF Go, RequestTypeOK
  <2>2. \A q \in Responder \ {r} : step'[q] = step[q] /\ keep'[q] = keep[q]
    BY <1>3 DEF Go, RequestTypeOK
  <2>3. RequestStatus' = RequestStatus
    BY <1>1 DEF RequestStatus
  <2>4. StatusOf(r) /\ LogIsOf(payload) /\ keep'[r]
    BY <1>1, <1>3, WorkerFacts
  <2>5. CallOf(r)' /\ ClaimOf(r)' /\ StatusOf(r)' /\ RecordOf(r)'
    BY <1>1, <2>1, <2>3, <2>4 DEF CallOf, ClaimOf, StatusOf, RecordOf, Works, Aim
  <2>6. LogInv' /\ OneResponse' /\ OneMessage'
    BY <1>1, <2>4 DEF LogInv, LogIsOf, AnswerInv, OneResponse, OneMessage
  <2> QED
    BY <1>1, <2>2, <2>5, <2>6, OwnerKeeps DEF AnswerInv, Works
<1> QED
  BY <1>2, <1>3 DEF LoadPayload

\* A submission is committed where none is, that is where nothing of another is in the log.
LEMMA WritePayloadKeeps ==
    ASSUME LeaseInv, RequestTypeOK, RequestTypeOK', AnswerInv, NEW r \in Responder, WritePayload(r)
    PROVE  AnswerInv'
<1>1. Works(r) /\ at' = at /\ step[r] = "write"
      /\ UNCHANGED <<offer, goal, messages, responses, resume>>
  BY DEF WritePayload, At, Works, leaseVars, logVars
<1>2. CASE payload # None
  BY <1>1, <1>2, LeavingKeeps DEF WritePayload, Leave
<1>3. CASE payload = None
  <2>1. Go(r, "enter") /\ UNCHANGED keep
    BY <1>3 DEF WritePayload
  <2>2. payload' = [id |-> r, submission |-> offer[r]]
    BY <1>3 DEF WritePayload
  <2>3. claim'[r] = payload'
    BY <1>3 DEF WritePayload, RequestTypeOK
  <2>4. payload' # None
    <3>1. offer[r] \in Submission
      BY <1>1, WorkerFacts DEF ClaimOf, RequestTypeOK
    <3> QED
      BY <2>2, <3>1, UserInputAssumption DEF Submission
  <2>5. StatusOf(r) /\ LogIsOf(payload) /\ keep[r]
    BY <1>1, WorkerFacts
  <2>6. responses = <<>> /\ \A q \in Responder : ~(messages[q] > 0)
    <3>1. None \notin Committed
      BY UserInputAssumption DEF Committed, Submission
    <3>2. responses # <<>> => responses[1] \in Committed
      BY DEF RequestTypeOK
    <3> QED
      BY <1>3, <2>5, <3>1, <3>2 DEF LogIsOf
  <2>7. step'[r] = "enter" /\ \A q \in Responder \ {r} : step'[q] = step[q] /\ keep'[q] = keep[q]
    BY <2>1 DEF Go, RequestTypeOK
  <2>8. RequestStatus' = RequestStatus
    BY <1>1 DEF RequestStatus
  <2>9. CallOf(r)' /\ ClaimOf(r)' /\ StatusOf(r)' /\ RecordOf(r)'
    BY <1>1, <2>1, <2>3, <2>4, <2>5, <2>7, <2>8 DEF CallOf, ClaimOf, StatusOf, RecordOf, Works, Aim
  <2>10. LogInv' /\ OneResponse' /\ OneMessage'
    BY <1>1, <2>6 DEF LogInv, LogIsOf, AnswerInv, OneResponse, OneMessage
  <2> QED
    BY <1>1, <2>7, <2>9, <2>10, OwnerKeeps DEF AnswerInv, Works
<1> QED
  BY <1>2, <1>3

\* Whoever does not work, before or after, disturbs nothing but its own call.
LEMMA BystanderKeeps ==
    ASSUME AnswerInv, NEW r \in Responder, ~Works(r)', CallOf(r)',
           \A q \in Responder \ {r} : at'[q] = at[q] /\ step'[q] = step[q] /\ offer'[q] = offer[q],
           UNCHANGED <<goal, claim, missing, keep, payload, messages, responses, resume>>
    PROVE  AnswerInv'
<1>1. RequestStatus' = RequestStatus /\ Unsettled' = Unsettled
  BY DEF RequestStatus, Unsettled
<1>2. ASSUME NEW q \in Responder, q # r
      PROVE  /\ Works(q)' = Works(q) /\ Aim(q)' = Aim(q)
             /\ CallOf(q)' /\ ClaimOf(q)' /\ StatusOf(q)' /\ RecordOf(q)'
  <2>1. CallOf(q) /\ ClaimOf(q) /\ StatusOf(q) /\ RecordOf(q)
    BY DEF AnswerInv, CallInv, ClaimInv, StatusInv, RecordInv
  <2>2. Works(q)' = Works(q) /\ Aim(q)' = Aim(q)
    BY <1>2 DEF Works, Aim
  <2>3. CallOf(q)'
    BY <1>1, <1>2, <2>1, <2>2 DEF CallOf
  <2>4. ClaimOf(q)'
    BY <1>2, <2>1, <2>2 DEF ClaimOf
  <2>5. StatusOf(q)' /\ RecordOf(q)'
    BY <1>1, <1>2, <2>1, <2>2 DEF StatusOf, RecordOf
  <2> QED
    BY <2>2, <2>3, <2>4, <2>5
<1>3. CallInv' /\ ClaimInv' /\ StatusInv' /\ RecordInv'
  BY <1>2 DEF CallInv, ClaimInv, StatusInv, RecordInv, ClaimOf, StatusOf, RecordOf
<1>4. LogInv' /\ OneResponse' /\ OneMessage'
  BY <1>1, <1>2 DEF LogInv, LogIsOf, AnswerInv, OneResponse, OneMessage
<1> QED
  BY <1>3, <1>4 DEF AnswerInv

\* A responder that comes, or works towards the lease, does none of the work yet.
LEMMA TakeLeaseKeeps ==
    ASSUME RequestTypeOK, RequestTypeOK', AnswerInv, NEW r \in Responder, Respond(r) \/ TakeLease(r)
    PROVE  AnswerInv'
<1>1. at[r] \notin {"owner"} \cup Releasing \cup Ended
  BY DEF Respond, TakeLease, Start, Claim, InspectTakeover, ClearTakeover, MakeLease, LeaseExists,
         MakeGeneration, LeaseVanished, ReadHeartbeat, LockTakeover, TakeoverExists, MoveLease,
         UnlockTakeover, Releasing, Ended, Dead
<1>2. \A q \in Responder \ {r} : at'[q] = at[q]
  BY DEF Respond, TakeLease, Start, Claim, InspectTakeover, ClearTakeover, MakeLease, LeaseExists,
         MakeGeneration, LeaseVanished, ReadHeartbeat, LockTakeover, TakeoverExists, MoveLease,
         UnlockTakeover, RequestTypeOK, TypeOK
<1>3. step[r] = "none" /\ keep[r]
  BY <1>1 DEF AnswerInv, CallInv, CallOf
<1>4. \A q \in Responder \ {r} : step'[q] = step[q] /\ offer'[q] = offer[q]
  BY DEF Respond, TakeLease, RequestTypeOK
<1>5. UNCHANGED <<goal, claim, missing, keep, payload, messages, responses, resume>>
  BY DEF Respond, TakeLease, logVars
<1>6. step'[r] = IF at'[r] = "owner" THEN "reload" ELSE "none"
  <2>1. CASE Respond(r)
    BY <1>3, <2>1 DEF Respond, Start, RequestTypeOK, TypeOK
  <2>2. CASE TakeLease(r)
    BY <1>3, <2>2 DEF TakeLease, RequestTypeOK
  <2> QED
    BY <2>1, <2>2
<1>7. ~Works(r)' /\ CallOf(r)'
  BY <1>3, <1>5, <1>6 DEF Works, CallOf
<1> QED
  BY <1>2, <1>4, <1>5, <1>7, BystanderKeeps

\* Nor does one that leaves, or has died.
LEMMA ReleaseClaimKeeps ==
    ASSUME RequestTypeOK, RequestTypeOK', AnswerInv, NEW r \in Responder,
           ReleaseClaim(r) \/ ResponderDies(r)
    PROVE  AnswerInv'
<1>1. UNCHANGED <<offer, goal, claim, missing, keep, payload, messages, responses, resume>>
  BY DEF ReleaseClaim, ResponderDies, requestVars, callVars, logVars
<1>2. \A q \in Responder \ {r} : at'[q] = at[q] /\ step'[q] = step[q]
  BY DEF ReleaseClaim, ResponderDies, BeginRelease, InspectGeneration, Release, DropGeneration,
         DropLease, Crash, requestVars, callVars, Go, RequestTypeOK, TypeOK
<1>3. CallOf(r)
  BY DEF AnswerInv, CallInv
<1>4. RequestStatus' = RequestStatus /\ Unsettled' = Unsettled
  BY <1>1 DEF RequestStatus, Unsettled
<1>5. ~Works(r)' /\ CallOf(r)'
  <2>1. CASE step[r] = "leave" /\ BeginRelease(r) /\ Go(r, "left")
    BY <1>1, <1>3, <1>4, <2>1 DEF BeginRelease, Go, RequestTypeOK, TypeOK, CallOf, Works, Releasing
  <2>2. CASE InspectGeneration(r) /\ Go(r, IF gens[r] # None /\ ~keep[r] THEN "discard" ELSE "left")
    BY <1>1, <1>3, <1>4, <2>2
       DEF InspectGeneration, Go, RequestTypeOK, TypeOK, CallOf, Works, Releasing, Ended
  <2>3. CASE step[r] = "left" /\ Release(r) /\ UNCHANGED step
    BY <1>1, <1>3, <1>4, <2>3
       DEF Release, DropGeneration, DropLease, RequestTypeOK, TypeOK, CallOf, Works, Releasing, Ended
  <2>4. CASE ResponderDies(r)
    BY <1>1, <1>3, <1>4, <2>4
       DEF ResponderDies, Crash, requestVars, callVars, RequestTypeOK, TypeOK, CallOf, Works, Ended, Dead
  <2> QED
    BY <2>1, <2>2, <2>3, <2>4 DEF ReleaseClaim
<1> QED
  BY <1>1, <1>2, <1>5, BystanderKeeps

\* The claim file is discarded by the holder of the lease, of a question that is settled.
LEMMA DiscardPayloadKeeps ==
    ASSUME LeaseInv, RequestTypeOK, RequestTypeOK', AnswerInv, NEW r \in Responder, DiscardPayload(r)
    PROVE  AnswerInv'
<1>1. at[r] = "drop_generation" /\ step[r] = "discard" /\ at' = at
      /\ UNCHANGED <<offer, goal, claim, missing, keep, messages, responses, resume>>
  BY DEF DiscardPayload, leaseVars, logVars
<1>2. step'[r] = "left" /\ \A q \in Responder \ {r} : step'[q] = step[q]
  BY DEF DiscardPayload, Go, RequestTypeOK
<1>3. RequestStatus' = RequestStatus /\ Unsettled' = Unsettled
  BY <1>1 DEF RequestStatus, Unsettled
<1>4. CallOf(r) /\ ~Unsettled
  BY <1>1 DEF AnswerInv, CallInv, CallOf
<1>5. \A q \in Responder : ~Works(q)'
  BY <1>1, OnlyHolder DEF Works
<1>6. ASSUME NEW q \in Responder
      PROVE  CallOf(q)'
  <2>1. CallOf(q)
    BY DEF AnswerInv, CallInv
  <2>2. CASE q = r
    BY <1>1, <1>2, <1>3, <1>4, <1>5, <2>2 DEF CallOf, Releasing
  <2>3. CASE q # r
    BY <1>1, <1>2, <1>3, <1>5, <2>1, <2>3 DEF CallOf
  <2> QED
    BY <2>2, <2>3
<1>7. CallInv' /\ ClaimInv' /\ StatusInv' /\ RecordInv'
  BY <1>5, <1>6 DEF CallInv, ClaimInv, StatusInv, RecordInv, ClaimOf, StatusOf, RecordOf
<1>8. LogInv' /\ OneResponse' /\ OneMessage'
  BY <1>1, <1>3, <1>4, <1>5 DEF LogInv, AnswerInv, OneResponse, OneMessage
<1> QED
  BY <1>7, <1>8 DEF AnswerInv

\* An interruption settles the question, and says nothing else of it.
LEMMA InterruptKeeps ==
    ASSUME RequestTypeOK, RequestTypeOK', AnswerInv, InterruptSession
    PROVE  AnswerInv'
<1>1. UNCHANGED <<at, step, offer, goal, claim, missing, keep, payload, messages, responses>>
  BY DEF InterruptSession, leaseVars, callVars
<1>2. \/ resume' = resume
      \/ Unsettled /\ resume' = "interrupted"
  BY DEF InterruptSession
<1>3. /\ RequestStatus' = RequestStatus \/ RequestStatus' = "interrupted"
      /\ Unsettled' => Unsettled
  BY <1>1, <1>2 DEF RequestStatus, Unsettled
<1>4. ASSUME NEW q \in Responder
      PROVE  CallOf(q)' /\ ClaimOf(q)' /\ StatusOf(q)' /\ RecordOf(q)' /\ Works(q)' = Works(q)
  <2>1. CallOf(q) /\ ClaimOf(q) /\ StatusOf(q) /\ RecordOf(q)
    BY DEF AnswerInv, CallInv, ClaimInv, StatusInv, RecordInv
  <2>2. Works(q)' = Works(q) /\ Aim(q)' = Aim(q)
    BY <1>1 DEF Works, Aim
  <2>3. CallOf(q)' /\ ClaimOf(q)'
    BY <1>1, <1>3, <2>1, <2>2 DEF CallOf, ClaimOf
  <2>4. StatusOf(q)' /\ RecordOf(q)'
    BY <1>1, <1>2, <1>3, <2>1, <2>2 DEF StatusOf, RecordOf
  <2> QED
    BY <2>2, <2>3, <2>4
<1>5. CallInv' /\ ClaimInv' /\ StatusInv' /\ RecordInv'
  BY <1>4 DEF CallInv, ClaimInv, StatusInv, RecordInv
<1>6. LogInv' /\ OneResponse' /\ OneMessage'
  BY <1>1, <1>3, <1>4 DEF LogInv, LogIsOf, AnswerInv, OneResponse, OneMessage
<1> QED
  BY <1>5, <1>6 DEF AnswerInv

\* A step that leaves the calls, the claim file and the log alone.
LEMMA AsideKeeps ==
    ASSUME AnswerInv,
           UNCHANGED <<at, step, offer, goal, claim, missing, keep, payload, messages, responses, resume>>
    PROVE  AnswerInv'
<1>1. RequestStatus' = RequestStatus /\ Unsettled' = Unsettled
  BY DEF RequestStatus, Unsettled
<1>2. \A q \in Responder : Works(q)' = Works(q) /\ Aim(q)' = Aim(q)
  BY DEF Works, Aim
<1>3. CallInv' /\ ClaimInv'
  BY <1>1, <1>2 DEF AnswerInv, CallInv, ClaimInv, CallOf, ClaimOf
<1>4. StatusInv' /\ RecordInv'
  BY <1>1, <1>2 DEF AnswerInv, StatusInv, RecordInv, StatusOf, RecordOf
<1>5. LogInv' /\ OneResponse' /\ OneMessage'
  BY <1>1, <1>2 DEF LogInv, LogIsOf, AnswerInv, OneResponse, OneMessage
<1> QED
  BY <1>3, <1>4, <1>5 DEF AnswerInv

-----------------------------------------------------------------------------
(* The invariant holds.                                                    *)

\* At first nobody has come, and nothing is in the log.
LEMMA InitAnswer == Init => AnswerInv
<1> SUFFICES ASSUME Init
             PROVE  AnswerInv
  OBVIOUS
<1>1. responses = <<>> /\ Len(responses) = 0
  BY DEF Init
<1>2. \A r \in Responder : at[r] = "idle" /\ step[r] = "none" /\ keep[r] /\ messages[r] = 0
  BY DEF Init, LeaseInit
<1>3. CallInv /\ ClaimInv /\ StatusInv /\ RecordInv
  BY <1>2 DEF CallInv, ClaimInv, StatusInv, RecordInv, CallOf, ClaimOf, StatusOf, RecordOf, Works
<1>4. LogInv /\ OneResponse /\ OneMessage
  BY <1>1, <1>2 DEF LogInv, LogIsOf, OneResponse, OneMessage
<1> QED
  BY <1>3, <1>4 DEF AnswerInv

\* Every step keeps the invariant, while the lease keeps responders apart.
LEMMA AnswerStep ==
    ASSUME LeaseInv, RequestTypeOK, AnswerInv, [Next]_vars
    PROVE  RequestTypeOK' /\ AnswerInv'
<1>1. RequestTypeOK'
  BY RequestTypeStep DEF AnswerInv
<1>2. ASSUME NEW r \in Responder, Respond(r) \/ ResponderDies(r)
      PROVE  AnswerInv'
  BY ONLY LeaseInv, RequestTypeOK, <1>1, AnswerInv, <1>2, TakeLeaseKeeps, ReleaseClaimKeeps
<1>3. ASSUME NEW r \in Responder, MainStep(r)
      PROVE  AnswerInv'
  BY ONLY LeaseInv, RequestTypeOK, <1>1, AnswerInv, <1>3, TakeLeaseKeeps, ReloadKeeps,
          LoadPayloadKeeps, WritePayloadKeeps, EnterTurnKeeps, RecordResumingKeeps, VerifyClaimKeeps,
          AssertLeaseKeeps, LeaseAssertedKeeps, ReconcileKeeps, ReconciledKeeps, CancelQuestionKeeps,
          RecordAnswerKeeps, AppendAnswerKeeps, ResumeTurnKeeps, ModelLoopKeeps, SettleKeeps,
          CatchKeeps, ReleaseClaimKeeps, DiscardPayloadKeeps
     DEF MainStep
<1>4. ASSUME NEW r \in Responder, RenewStep(r) \/ Beat(r)
      PROVE  AnswerInv'
  BY <1>4, AsideKeeps
     DEF RenewStep, Beat, Renew, RenewClear, RenewTouch, RenewCheck, requestVars, callVars, logVars
<1>5. CASE InterruptSession
  BY <1>1, <1>5, InterruptKeeps
<1>6. CASE RecoverSession \/ TimePasses \/ UNCHANGED vars
  <2>1. UNCHANGED <<at, step, offer, goal, claim, missing, keep, payload, messages, responses, resume>>
    BY <1>6 DEF RecoverSession, TimePasses, Tick, vars, leaseVars, requestVars, callVars, logVars
  <2> QED
    BY <1>1, <2>1, AsideKeeps
<1> QED
  BY ONLY <1>1, <1>2, <1>3, <1>4, <1>5, <1>6, [Next]_vars DEF Next

\* The inductive invariant, where the lease keeps responders apart.
LEMMA AnswerInvariance ==
    ASSUME Prompt, TakeoversEnd
    PROVE  Spec => [](LeaseInv /\ RequestTypeOK /\ AnswerInv)
<1>1. LeaseInv /\ RequestTypeOK /\ AnswerInv /\ [Next]_vars => RequestTypeOK' /\ AnswerInv'
  BY AnswerStep
<1> QED
  BY <1>1, LeaseHolds, InitRequestTypes, InitAnswer, PTL DEF Spec

-----------------------------------------------------------------------------
(* Theorems.                                                               *)

\* The state of an answer has its type, whatever the responders, their submissions and crashes.
THEOREM RequestTypeCorrect ==
    ASSUME Prompt, TakeoversEnd
    PROVE  Spec => []RequestTypeOK
BY AnswerInvariance, PTL

\* Whatever responders submit, retry and recover, and whenever they are interrupted or die, the
\* log gets one response, the conversation one message, and one of them runs the turn at a time.
THEOREM AnsweredOnceOnly ==
    ASSUME Prompt, TakeoversEnd
    PROVE  Spec => []AnsweredOnce
<1>1. LeaseInv /\ AnswerInv => AnsweredOnce
  <2>1. LeaseInv => OneResumption
    BY AtMostOne DEF LeaseInv, OneHolder, OneResumption, At
  <2> QED
    BY <2>1 DEF AnswerInv, AnsweredOnce
<1> QED
  BY AnswerInvariance, <1>1, PTL

\* An answer that is in the log and has not taken effect is the one in the claim file, where the
\* next call finds it, whoever died or failed in between.
THEOREM AnswerIsRecoverable ==
    ASSUME Prompt, TakeoversEnd
    PROVE  Spec => []AnswerRecoverable
<1>1. AnswerInv => AnswerRecoverable
  BY DEF AnswerInv, LogInv, LogIsOf, AnswerRecoverable
<1> QED
  BY AnswerInvariance, <1>1, PTL

\* No call that comes late, is retried or recovers a session opens a question whose answer took
\* effect.
THEOREM ResumedIsFinal ==
    ASSUME Prompt, TakeoversEnd
    PROVE  Spec => ResumedStays
<1> DEFINE Stays == RequestStatus = "resumed" => RequestStatus' \in {"resumed", "interrupted"}
<1>1. ASSUME RequestTypeOK, UNCHANGED <<responses, resume>>
      PROVE  Stays
  BY <1>1 DEF RequestStatus
<1>2. ASSUME RequestTypeOK, UNCHANGED responses, resume' = "interrupted"
      PROVE  Stays
  BY <1>2 DEF RequestStatus
<1>3. ASSUME AnswerInv, NEW r \in Responder, Works(r), step[r] # "confirm"
      PROVE  Stays
  BY <1>3, WorkerFacts DEF StatusOf
<1>4. ASSUME RequestTypeOK, AnswerInv, NEW r \in Responder, MainStep(r)
      PROVE  Stays
  <2>1. CASE TakeLease(r) \/ Reload(r) \/ LoadPayload(r) \/ WritePayload(r) \/ EnterTurn(r)
    BY <2>1, <1>1, <1>4 DEF TakeLease, Reload, LoadPayload, WritePayload, EnterTurn, logVars
  <2>2. CASE AssertLease(r) \/ LeaseAsserted(r) \/ Reconcile(r) \/ RecordAnswer(r) \/ ResumeTurn(r)
    BY <2>2, <1>1, <1>4 DEF AssertLease, LeaseAsserted, Reconcile, RecordAnswer, ResumeTurn, logVars
  <2>3. CASE ReenterTurn(r) \/ InnerCatch(r) \/ ReleaseClaim(r) \/ DiscardPayload(r) \/ ModelLoop(r)
    BY <2>3, <1>1, <1>4 DEF ReenterTurn, InnerCatch, ReleaseClaim, DiscardPayload, ModelLoop, logVars
  <2>4. CASE RecordResuming(r) \/ VerifyClaim(r) \/ Reconciled(r) \/ CancelQuestion(r) \/ AppendAnswer(r)
    BY <2>4, <1>3, <1>4 DEF RecordResuming, VerifyClaim, Reconciled, CancelQuestion, AppendAnswer, At, Works
  <2>5. CASE Catch(r) \/ (Settle(r) /\ ~At(r, "confirm"))
    BY <2>5, <1>3, <1>4 DEF Catch, Settle, At, Works
  <2>6. CASE Settle(r) /\ At(r, "confirm")
    <3>1. UNCHANGED responses /\ (UNCHANGED resume \/ resume' = "interrupted")
      BY <2>6 DEF Settle, At
    <3> QED
      BY <3>1, <1>1, <1>2, <1>4
  <2> QED
    BY ONLY MainStep(r), <2>1, <2>2, <2>3, <2>4, <2>5, <2>6 DEF MainStep
<1>5. ASSUME RequestTypeOK, NEW r \in Responder,
             Respond(r) \/ RenewStep(r) \/ Beat(r) \/ ResponderDies(r)
      PROVE  Stays
  BY <1>5, <1>1 DEF Respond, RenewStep, Beat, ResponderDies, requestVars, logVars
<1>6. ASSUME RequestTypeOK, InterruptSession \/ RecoverSession \/ TimePasses
      PROVE  Stays
  BY <1>6, <1>1, <1>2 DEF InterruptSession, RecoverSession, TimePasses, requestVars, logVars
<1>7. LeaseInv /\ RequestTypeOK /\ AnswerInv /\ [Next]_vars
        => [RequestStatus = "resumed" => RequestStatus' \in {"resumed", "interrupted"}]_vars
  BY <1>4, <1>5, <1>6 DEF Next
<1> QED
  BY AnswerInvariance, <1>7, PTL DEF Spec, ResumedStays

-----------------------------------------------------------------------------
(* Who keeps the session running.                                          *)

\* Nobody has died, and the user has not interrupted the turn that waits for the answer.
Undisturbed == NobodyDied /\ interrupt = "idle" /\ mode = "blocking"

\* An owner gets to the end of its call only with a session that is not running.
RunOf(r) ==
    Works(r) =>
        /\ step[r] \in {"payload", "write", "enter"} => session # "running"
        /\ Aim(r) \in {"settle_reconciled", "respond_cancel", "resume_cancel", "settle", "resumed",
                       "confirm", "permission"} => session # "running"
        /\ resume = "interrupted" => step[r] \in {"inner_catch", "catch"} /\ session # "running"

\* A session that is running is run by an owner.
RunInv ==
    /\ session = "running" => \E r \in Responder : Works(r)
    /\ \A r \in Responder : RunOf(r)

\* What was undisturbed after a step was so before it.
LEMMA DisturbedStays ==
    ASSUME RequestTypeOK, [Next]_vars, Undisturbed'
    PROVE  Undisturbed
<1>1. NobodyDied
  BY UsesLease, DiedStay DEF Undisturbed, RequestTypeOK
<1>2. mode' = mode /\ (interrupt' = interrupt \/ interrupt' \in {"appended", "done"})
  <2>1. ASSUME NEW r \in Responder, MainStep(r)
        PROVE  mode' = mode /\ interrupt' = interrupt
    BY <2>1 DEF MainStep, TakeLease, Reload, LoadPayload, WritePayload, EnterTurn, RecordResuming,
            VerifyClaim, AssertLease, LeaseAsserted, Reconcile, Reconciled, CancelQuestion,
            RecordAnswer, AppendAnswer, ResumeTurn, ReenterTurn, ModelLoop, Settle, InnerCatch, Catch,
            ReleaseClaim, DiscardPayload
  <2>2. ASSUME NEW r \in Responder, Respond(r) \/ RenewStep(r) \/ Beat(r) \/ ResponderDies(r)
        PROVE  mode' = mode /\ interrupt' = interrupt
    BY <2>2 DEF Respond, RenewStep, Beat, ResponderDies, requestVars
  <2>3. CASE InterruptSession \/ RecoverSession \/ TimePasses \/ UNCHANGED vars
    BY <2>3 DEF InterruptSession, RecoverSession, TimePasses, vars, requestVars
  <2> QED
    BY <2>1, <2>2, <2>3 DEF Next
<1> QED
  BY <1>1, <1>2 DEF Undisturbed

\* A step of the owner need only be looked at for itself.
LEMMA RunnerKeeps ==
    ASSUME LeaseInv, NEW r \in Responder, at[r] = "owner", at' = at,
           \A q \in Responder \ {r} : step'[q] = step[q],
           session' = "running" => Works(r)', RunOf(r)'
    PROVE  RunInv'
<1>1. ASSUME NEW q \in Responder, q # r
      PROVE  ~Works(q)'
  BY <1>1, OnlyHolder DEF Works
<1> QED
  BY <1>1 DEF RunInv, RunOf

\* What an owner that works may rely on here.
LEMMA RunnerFacts ==
    ASSUME RunInv, RequestTypeOK, AnswerInv, NEW r \in Responder, Works(r)
    PROVE  /\ RunOf(r)
           /\ RequestStatus = "interrupted" => resume = "interrupted"
           /\ resume = "interrupted" => RequestStatus \in {"interrupted", "cancelled"}
BY WorkerFacts, StatusIs DEF RunInv, RequestTypeOK

\* Before the turn is entered the session is not running, after that the owner runs it.
LEMMA EnteringRuns ==
    ASSUME LeaseInv, RequestTypeOK, RequestTypeOK', AnswerInv, RunInv, Undisturbed, NEW r \in Responder,
           Reload(r) \/ LoadPayload(r) \/ WritePayload(r) \/ EnterTurn(r)
    PROVE  RunInv'
<1>1. at[r] = "owner" /\ at' = at /\ UNCHANGED <<resume, responses>>
  BY DEF Reload, LoadPayload, WritePayload, EnterTurn, At, leaseVars, logVars
<1>2. \A q \in Responder \ {r} : step'[q] = step[q]
  BY DEF Reload, LoadPayload, WritePayload, EnterTurn, Leave, Go, RequestTypeOK
<1>3. CASE Reload(r)
  <2>1. session # "running"
    <3>1. ASSUME NEW q \in Responder, Works(q)
          PROVE  FALSE
      BY <1>1, <1>3, <3>1, OnlyHolder DEF Reload, At, Works
    <3> QED
      BY <3>1 DEF RunInv
  <2>2. step'[r] \in {"payload", "leave"} /\ session' = session
    BY <1>3 DEF Reload, Leave, Go, RequestTypeOK
  <2>3. step'[r] = "payload" => resume # "interrupted"
    BY <1>3, StatusIs DEF Reload, Leave, Go, RequestTypeOK, Unsettled
  <2> QED
    BY <1>1, <1>2, <2>1, <2>2, <2>3, RunnerKeeps DEF RunOf, Works, Aim
<1>4. CASE LoadPayload(r) \/ WritePayload(r)
  <2>1. Works(r) /\ step[r] \in {"payload", "write"} /\ session' = session
    BY <1>4 DEF LoadPayload, WritePayload, At, Works
  <2>2. step'[r] \in {"write", "enter", "leave"}
    BY <1>4 DEF LoadPayload, WritePayload, Leave, Go, RequestTypeOK
  <2>3. session # "running" /\ resume # "interrupted"
    BY <2>1, RunnerFacts DEF RunOf
  <2> QED
    BY <1>1, <1>2, <2>1, <2>2, <2>3, RunnerKeeps DEF RunOf, Works, Aim
<1>5. CASE EnterTurn(r)
  <2>1. Works(r) /\ step[r] = "enter"
    BY <1>5 DEF EnterTurn, At, Works
  <2>2. session # "running" /\ resume # "interrupted"
    BY <2>1, RunnerFacts DEF RunOf
  <2>3. \/ step'[r] = "leave" /\ session' = session
        \/ step'[r] = "resuming"
    BY <1>5 DEF EnterTurn, Leave, Go, RequestTypeOK
  <2> QED
    BY <1>1, <1>2, <2>2, <2>3, RunnerKeeps DEF RunOf, Works, Aim
<1> QED
  BY <1>3, <1>4, <1>5

\* The owner that records and verifies its claim leaves only an interrupted session.
LEMMA VerifyingRuns ==
    ASSUME LeaseInv, RequestTypeOK, RequestTypeOK', AnswerInv, RunInv, Undisturbed, NEW r \in Responder,
           RecordResuming(r) \/ VerifyClaim(r)
    PROVE  RunInv'
<1>1. Works(r) /\ at' = at /\ step[r] \in {"resuming", "verify"} /\ session' = session
  BY DEF RecordResuming, VerifyClaim, At, Works, leaseVars
<1>2. \A q \in Responder \ {r} : step'[q] = step[q]
  BY DEF RecordResuming, VerifyClaim, Leave, Go, RequestTypeOK
<1>3. RunOf(r)
  BY <1>1, RunnerFacts
<1>4. \/ step'[r] = "verify" /\ resume' = "resuming"
      \/ step'[r] = "leave" /\ session = "interrupted"
      \/ step'[r] = "reconcile" /\ resume' = resume
  BY DEF RecordResuming, VerifyClaim, Leave, Go, RequestTypeOK
<1> QED
  BY <1>1, <1>2, <1>3, <1>4, RunnerKeeps DEF RunOf, Works, Aim

\* Nobody loses the lease while nobody dies.
LEMMA AssertingRuns ==
    ASSUME LeaseInv, CalmInv, RequestTypeOK, RequestTypeOK', AnswerInv, RunInv, Undisturbed,
           NEW r \in Responder, AssertLease(r) \/ LeaseAsserted(r) \/ Reconcile(r)
    PROVE  RunInv'
<1>1. Works(r) /\ at' = at /\ step[r] \in {"assert", "await", "reconcile"}
      /\ UNCHANGED <<session, resume>>
  BY DEF AssertLease, LeaseAsserted, Reconcile, RenewCheck, At, Works, leaseVars, logVars
<1>2. \A q \in Responder \ {r} : step'[q] = step[q]
  BY DEF AssertLease, LeaseAsserted, LostLease, Reconcile, AssertThen, Leave, Go, RequestTypeOK
<1>3. RunOf(r) /\ ClaimOf(r)
  BY <1>1, RunnerFacts, WorkerFacts
<1>4. CASE Reconcile(r)
  <2>1. step'[r] = "assert" /\ goal'[r] \in {"reconciled", "cancel", "record"}
    BY <1>4 DEF Reconcile, AssertThen, Go, RequestTypeOK
  <2> QED
    BY <1>1, <1>2, <1>3, <1>4, <2>1, RunnerKeeps DEF RunOf, Works, Aim, Reconcile, At
<1>5. CASE AssertLease(r)
  <2>1. step'[r] = "await" /\ goal'[r] = goal[r] /\ step[r] = "assert"
    BY <1>5 DEF AssertLease, Go, At, RequestTypeOK
  <2> QED
    BY <1>1, <1>2, <1>3, <2>1, RunnerKeeps DEF RunOf, Works, Aim
<1>6. CASE LeaseAsserted(r)
  <2>1. step[r] = "await" /\ step'[r] = goal[r]
    BY <1>6 DEF LeaseAsserted, CalmInv, Go, RequestTypeOK
  <2>2. goal[r] \in {"reconciled", "cancel", "record", "loop", "settle"}
    BY <1>1, <1>3, <2>1 DEF ClaimOf
  <2> QED
    BY <1>1, <1>2, <1>3, <2>1, <2>2, RunnerKeeps DEF RunOf, Works, Aim
<1> QED
  BY <1>4, <1>5, <1>6

\* A turn found completed, and a question cancelled, set the session waiting or interrupted first.
LEMMA FinishingRuns ==
    ASSUME LeaseInv, RequestTypeOK, RequestTypeOK', AnswerInv, RunInv, Undisturbed, NEW r \in Responder,
           Reconciled(r) \/ CancelQuestion(r)
    PROVE  RunInv'
<1>1. Works(r) /\ at' = at
      /\ step[r] \in {"reconciled", "settle_reconciled", "cancel", "respond_cancel", "resume_cancel"}
  BY DEF Reconciled, CancelQuestion, At, Works, leaseVars
<1>2. \A q \in Responder \ {r} : step'[q] = step[q]
  BY DEF Reconciled, CancelQuestion, Leave, Go, RequestTypeOK
<1>3. RunOf(r)
  BY <1>1, RunnerFacts
<1>4. \/ step'[r] = "settle_reconciled" /\ session' = "waiting" /\ resume' = resume
      \/ step[r] = "cancel" /\ step'[r] = "respond_cancel" /\ session' = "interrupted" /\ resume' = resume
      \/ step[r] = "respond_cancel" /\ step'[r] = "resume_cancel" /\ session' = session /\ resume' = resume
      \/ /\ step[r] \in {"settle_reconciled", "resume_cancel"}
         /\ step'[r] = "leave" /\ session' = session
  BY DEF Reconciled, CancelQuestion, Leave, Go, At, RequestTypeOK, Undisturbed
<1> QED
  BY <1>1, <1>2, <1>3, <1>4, RunnerKeeps DEF RunOf, Works, Aim

\* While the answer is recorded and the turn taken up, the owner goes on.
LEMMA RecordingRuns ==
    ASSUME LeaseInv, RequestTypeOK, RequestTypeOK', AnswerInv, RunInv, Undisturbed, NEW r \in Responder,
           RecordAnswer(r) \/ AppendAnswer(r) \/ ResumeTurn(r) \/ ReenterTurn(r)
    PROVE  RunInv'
<1>1. Works(r) /\ at' = at /\ resume' = resume
      /\ step[r] \in {"record", "message", "response", "resume", "reenter"}
  BY DEF RecordAnswer, AppendAnswer, ResumeTurn, ReenterTurn, At, Works, leaseVars, logVars
<1>2. \A q \in Responder \ {r} : step'[q] = step[q]
  BY DEF RecordAnswer, AppendAnswer, ResumeTurn, ReenterTurn, AssertThen, Go, RequestTypeOK
<1>3. resume # "interrupted"
  BY <1>1, RunnerFacts DEF RunOf
<1>4. \/ step'[r] \in {"message", "response", "resume", "reenter", "catch"}
      \/ step'[r] = "assert" /\ goal'[r] = "loop"
  BY DEF RecordAnswer, AppendAnswer, AfterRecord, ResumeTurn, ReenterTurn, AssertThen, Go,
         RequestTypeOK, Undisturbed
<1> QED
  BY <1>1, <1>2, <1>3, <1>4, RunnerKeeps DEF RunOf, Works, Aim

\* The loop ends its turn, or fails it and leaves that to the catch blocks.
LEMMA LoopingRuns ==
    ASSUME LeaseInv, RequestTypeOK, RequestTypeOK', AnswerInv, RunInv, Undisturbed, NEW r \in Responder,
           ModelLoop(r) \/ Settle(r)
    PROVE  RunInv'
<1>1. Works(r) /\ at' = at /\ step[r] \in {"loop", "settle", "resumed", "confirm"}
  BY DEF ModelLoop, Settle, At, Works, leaseVars
<1>2. \A q \in Responder \ {r} : step'[q] = step[q]
  BY DEF ModelLoop, Settle, AssertThen, Leave, Go, RequestTypeOK
<1>3. RunOf(r) /\ (RequestStatus = "interrupted" => resume = "interrupted")
  BY <1>1, RunnerFacts
<1>4. CASE ModelLoop(r)
  <2>1. \/ step'[r] = "assert" /\ goal'[r] = "settle" /\ session' = "waiting"
        \/ step'[r] = "permission" /\ session' # "running"
        \/ step'[r] = "inner_catch" /\ session' = session
    BY <1>4 DEF ModelLoop, AssertThen, Go, RequestTypeOK
  <2>2. resume' = resume /\ resume # "interrupted"
    BY <1>1, <1>3, <1>4 DEF ModelLoop, At, RunOf
  <2> QED
    BY <1>1, <1>2, <2>1, <2>2, RunnerKeeps DEF RunOf, Works, Aim
<1>5. CASE Settle(r)
  <2>1. session # "running" /\ session' = session
    BY <1>1, <1>3, <1>5 DEF Settle, At, RunOf, Aim
  <2>2. \/ step'[r] \in {"resumed", "confirm"} /\ resume' # "interrupted"
        \/ step'[r] \in {"leave", "inner_catch", "catch"}
    BY <1>1, <1>3, <1>5 DEF Settle, At, Leave, Go, RequestTypeOK, RunOf
  <2> QED
    BY <1>1, <1>2, <2>1, <2>2, RunnerKeeps DEF RunOf, Works, Aim
<1> QED
  BY <1>4, <1>5

\* The catch blocks set a running session waiting before the call ends.
LEMMA CatchingRuns ==
    ASSUME LeaseInv, RequestTypeOK, RequestTypeOK', AnswerInv, RunInv, Undisturbed, NEW r \in Responder,
           InnerCatch(r) \/ Catch(r)
    PROVE  RunInv'
<1>1. Works(r) /\ at' = at /\ step[r] \in {"inner_catch", "catch", "permission", "resume_failed"}
  BY DEF InnerCatch, Catch, At, Works, leaseVars
<1>2. \A q \in Responder \ {r} : step'[q] = step[q]
  BY DEF InnerCatch, Catch, Leave, Go, RequestTypeOK
<1>3. RunOf(r) /\ (RequestStatus = "interrupted" => resume = "interrupted")
  BY <1>1, RunnerFacts
<1>4. \/ step'[r] = "catch" /\ session' # "running"
      \/ step'[r] = "resume_failed" /\ resume' = "resume_failed"
      \/ step'[r] = "leave" /\ session' # "running"
  <2>1. CASE InnerCatch(r)
    BY <1>1, <1>3, <2>1 DEF InnerCatch, Go, At, RequestTypeOK, RunOf
  <2>2. CASE Catch(r) /\ At(r, "catch")
    BY <1>1, <1>3, <2>2 DEF Catch, Leave, Go, At, RequestTypeOK, RunOf
  <2>3. CASE Catch(r) /\ At(r, "permission")
    BY <1>1, <1>3, <2>3 DEF Catch, Leave, Go, At, Aim, RequestTypeOK, RunOf
  <2>4. CASE Catch(r) /\ At(r, "resume_failed")
    BY <2>4 DEF Catch, Leave, Go, At, RequestTypeOK
  <2>5. Catch(r) => At(r, "catch") \/ At(r, "permission") \/ At(r, "resume_failed")
    BY DEF Catch
  <2> QED
    BY <2>1, <2>2, <2>3, <2>4, <2>5
<1> QED
  BY <1>1, <1>2, <1>4, RunnerKeeps DEF RunOf, Works, Aim

\* Everybody else leaves the session as it is, or sets it waiting.
LEMMA OthersRun ==
    ASSUME RunInv, NEW r \in Responder, ~Works(r), ~Works(r)',
           \A q \in Responder \ {r} : at'[q] = at[q] /\ step'[q] = step[q],
           UNCHANGED <<goal, resume, session>>
    PROVE  RunInv'
<1>1. ASSUME NEW q \in Responder, q # r
      PROVE  Works(q)' = Works(q) /\ Aim(q)' = Aim(q)
  BY <1>1 DEF Works, Aim
<1>2. ASSUME NEW q \in Responder
      PROVE  RunOf(q)'
  BY <1>1, <1>2 DEF RunInv, RunOf
<1>3. session = "running" => \E q \in Responder : Works(q)'
  BY <1>1 DEF RunInv
<1> QED
  BY <1>2, <1>3 DEF RunInv

LEMMA AsideRuns ==
    ASSUME RunInv, UNCHANGED <<at, step, goal, resume>>, session' = session \/ session' # "running"
    PROVE  RunInv'
<1>1. \A q \in Responder : Works(q)' = Works(q) /\ Aim(q)' = Aim(q)
  BY DEF Works, Aim
<1> QED
  BY <1>1 DEF RunInv, RunOf

\* Every step of the undisturbed keeps it so.
LEMMA RunStep ==
    ASSUME LeaseInv, CalmInv, RequestTypeOK, AnswerInv, RunInv, Undisturbed, [Next]_vars, Undisturbed'
    PROVE  RunInv'
<1>1. RequestTypeOK'
  BY AnswerStep
<1>2. ASSUME NEW r \in Responder, Respond(r) \/ TakeLease(r)
      PROVE  RunInv'
  <2>1. at[r] \notin {"owner"} \cup Releasing \cup Ended
    BY <1>2 DEF Respond, TakeLease, Start, Claim, InspectTakeover, ClearTakeover, MakeLease, LeaseExists,
           MakeGeneration, LeaseVanished, ReadHeartbeat, LockTakeover, TakeoverExists, MoveLease,
           UnlockTakeover, Releasing, Ended, Dead
  <2>2. \A q \in Responder \ {r} : at'[q] = at[q]
    BY <1>2 DEF Respond, TakeLease, Start, Claim, InspectTakeover, ClearTakeover, MakeLease, LeaseExists,
           MakeGeneration, LeaseVanished, ReadHeartbeat, LockTakeover, TakeoverExists, MoveLease,
           UnlockTakeover, RequestTypeOK, TypeOK
  <2>3. step[r] = "none"
    BY <2>1 DEF AnswerInv, CallInv, CallOf
  <2>4. step'[r] \in {"none", "reload"} /\ \A q \in Responder \ {r} : step'[q] = step[q]
    BY <1>2, <2>3 DEF Respond, TakeLease, RequestTypeOK
  <2>5. UNCHANGED <<goal, resume, session>>
    BY <1>2 DEF Respond, TakeLease, logVars
  <2> QED
    BY <2>2, <2>3, <2>4, <2>5, OthersRun DEF Works
<1>3. ASSUME NEW r \in Responder, ReleaseClaim(r) \/ DiscardPayload(r)
      PROVE  RunInv'
  <2>1. UNCHANGED <<goal, resume, session>>
    BY <1>3 DEF ReleaseClaim, DiscardPayload, logVars
  <2>2. \A q \in Responder \ {r} : at'[q] = at[q] /\ step'[q] = step[q]
    BY <1>3 DEF ReleaseClaim, DiscardPayload, BeginRelease, InspectGeneration, Release, DropGeneration,
           DropLease, leaseVars, Go, RequestTypeOK, TypeOK
  <2>3. ~Works(r)
    BY <1>3 DEF ReleaseClaim, DiscardPayload, InspectGeneration, Works
  <2>4. at'[r] # "owner" \/ step'[r] \in Resting
    BY <1>3 DEF ReleaseClaim, DiscardPayload, BeginRelease, InspectGeneration, Release, DropGeneration,
           DropLease, leaseVars, Go, RequestTypeOK, TypeOK
  <2> QED
    BY <2>1, <2>2, <2>3, <2>4, OthersRun DEF Works
<1>4. ASSUME NEW r \in Responder, MainStep(r)
      PROVE  RunInv'
  BY ONLY LeaseInv, CalmInv, RequestTypeOK, <1>1, AnswerInv, RunInv, Undisturbed, <1>2, <1>3, <1>4,
          EnteringRuns, VerifyingRuns, AssertingRuns, FinishingRuns, RecordingRuns, LoopingRuns,
          CatchingRuns
     DEF MainStep
<1>5. ASSUME NEW r \in Responder, RenewStep(r) \/ Beat(r)
      PROVE  RunInv'
  BY <1>5, AsideRuns
     DEF RenewStep, Beat, Renew, RenewClear, RenewTouch, RenewCheck, requestVars, callVars, logVars
<1>6. ASSUME NEW r \in Responder, ResponderDies(r)
      PROVE  FALSE
  BY <1>6 DEF ResponderDies, Crash, Undisturbed, NobodyDied, Dead, RequestTypeOK, TypeOK
<1>7. ~InterruptSession
  BY DEF InterruptSession, Undisturbed
<1>8. CASE RecoverSession \/ TimePasses \/ UNCHANGED vars
  <2>1. UNCHANGED <<at, step, goal, resume>> /\ (session' = session \/ session' # "running")
    BY <1>8 DEF RecoverSession, TimePasses, Tick, vars, leaseVars, requestVars, callVars, logVars
  <2> QED
    BY <2>1, AsideRuns
<1> QED
  BY ONLY <1>2, <1>4, <1>5, <1>6, <1>7, <1>8, [Next]_vars DEF Next

\* At first nobody runs the session of a blocking question.
LEMMA InitRuns == Init /\ Undisturbed => RunInv
BY DEF Init, LeaseInit, Undisturbed, RunInv, RunOf, Works

\* Who keeps an undisturbed session running, where the lease keeps responders apart.
LEMMA RunInvariance ==
    ASSUME Prompt, TakeoversEnd
    PROVE  Spec => [](Undisturbed => RunInv)
<1>1. ASSUME LeaseInv, RequestTypeOK, AnswerInv, NobodyDied => CalmInv, Undisturbed => RunInv,
             [Next]_vars, Undisturbed'
      PROVE  RunInv'
  <2>1. Undisturbed
    BY <1>1, DisturbedStays
  <2>2. CalmInv
    BY <1>1, <2>1 DEF Undisturbed
  <2> QED
    BY <1>1, <2>1, <2>2, RunStep
<1>2. Spec => [](NobodyDied => CalmInv)
  BY AnswersUseTheLease, OnlyTheDeadLoseTheLease, PTL
<1>3. LeaseInv /\ RequestTypeOK /\ AnswerInv /\ (NobodyDied => CalmInv) /\ (Undisturbed => RunInv)
        /\ [Next]_vars => (Undisturbed => RunInv)'
  BY <1>1
<1> QED
  BY <1>2, <1>3, AnswerInvariance, InitRuns, PTL DEF Spec

\* Whoever fails, loses the lease or dies, the session is not left running with nobody at work or
\* dead, and the answer in the log is not lost.
THEOREM NothingIsStranded ==
    ASSUME Prompt, TakeoversEnd
    PROVE  Spec => []NothingStranded
<1>1. RequestTypeOK /\ (Undisturbed => RunInv) => RunningHasRunner
  <2> SUFFICES ASSUME RequestTypeOK, Undisturbed => RunInv, session = "running", mode = "blocking",
                      interrupt = "idle"
               PROVE  \E r \in Responder : Live(r) \/ at[r] \in Dead
    BY DEF RunningHasRunner
  <2>1. CASE NobodyDied
    <3>1. PICK r \in Responder : Works(r)
      BY <2>1 DEF Undisturbed, RunInv
    <3>2. Live(r)
      BY <3>1 DEF Works, Live, Ended, Dead
    <3> QED
      BY <3>2
  <2>2. CASE ~NobodyDied
    BY <2>2 DEF NobodyDied
  <2> QED
    BY <2>1, <2>2
<1> QED
  BY <1>1, AnswerIsRecoverable, AnswerInvariance, RunInvariance, PTL DEF NothingStranded

-----------------------------------------------------------------------------
(* The monitor of MCAnswering: a call that meets only what has gone stale    *)
(* gets the lease.                                                          *)

\* Only an owner renews.
BeatsOwn == \A r \in Responder : beat[r] \in {"clear", "touch"} => at[r] = "owner"

\* Nothing in the lease counts as held.
NothingHeld == ~Fresh(lease) /\ \A q \in Responder : ~Fresh(gens[q])

\* How far a call that is alone has come, and what it has made of what it met.
AloneAt(r) ==
    /\ at[r] \notin {"idle", "retry", "relock", "lock_again", "unlock_failed", "failed"}
    /\ at[r] \in {"try", "clear"} => ~Fresh(takeover)
    /\ at[r] \in {"make", "heartbeat", "lock"} => takeover = None
    /\ at[r] \in {"try", "clear", "make", "heartbeat", "lock", "recheck", "rename"} => NothingHeld
    /\ at[r] \in {"heartbeat", "lock", "recheck", "rename", "generate", "regenerate"} => lease # None
    /\ at[r] = "remake" => lease = None

OthersRest(r) == \A q \in Responder \ {r} : at[q] \in {"idle"} \cup Ended

MonitorInv ==
    /\ IsLease => TypeOK /\ BeatsOwn /\ \A r \in Responder : alone[r] => AloneAt(r) /\ OthersRest(r)
    /\ ~IsLease => \A r \in Responder : ~alone[r]

\* A lease with nothing fresh in it is stale.
LEMMA StaleHeartbeat ==
    ASSUME TypeOK, NothingHeld
    PROVE  ~Fresh(Heartbeat)
<1>1. CASE Generations = {}
  BY <1>1 DEF Heartbeat, NothingHeld
<1>2. CASE Generations # {}
  <2>1. \A r \in Generations : gens[r] = Stale
    BY ClaimLeaseAssumption DEF Generations, TypeOK, NothingHeld, Age, Fresh
  <2>2. {gens[r] : r \in Generations} = {Stale}
    BY <1>2, <2>1
  <2>3. Min({Stale}) = Stale
    BY ClaimLeaseAssumption DEF Min
  <2> QED
    BY <1>2, <2>2, <2>3, ClaimLeaseAssumption DEF Heartbeat, Fresh
<1> QED
  BY <1>1, <1>2

\* A call that is alone never comes to where it is refused.
LEMMA AloneGoesOn ==
    ASSUME TypeOK, NEW r \in Responder, AloneAt(r), OthersRest(r), BeatsOwn,
           LeaseStep(r) \/ RenewCheck(r) \/ Crash(r)
    PROVE  AloneAt(r)'
<1> USE DEF AloneAt, NothingHeld, TypeOK
<1>1. CASE InspectTakeover(r) \/ ClearTakeover(r)
  BY <1>1, ClaimLeaseAssumption DEF InspectTakeover, ClearTakeover
<1>2. CASE MakeLease(r) \/ LeaseExists(r)
  BY <1>2, ClaimLeaseAssumption DEF MakeLease, LeaseExists
<1>3. CASE MakeGeneration(r) \/ LeaseVanished(r)
  BY <1>3 DEF MakeGeneration, LeaseVanished
<1>4. CASE ReadHeartbeat(r)
  <2>1. ~Fresh(Heartbeat)
    BY <1>4, StaleHeartbeat DEF ReadHeartbeat
  <2> QED
    BY <1>4, <2>1 DEF ReadHeartbeat
<1>5. CASE LockTakeover(r) \/ TakeoverExists(r)
  BY <1>5 DEF LockTakeover, TakeoverExists
<1>6. CASE MoveLease(r) \/ UnlockTakeover(r)
  BY <1>6 DEF MoveLease, UnlockTakeover
<1>7. CASE Renew(r) \/ RenewCheck(r)
  BY <1>7 DEF Renew, RenewClear, RenewTouch, RenewCheck, BeatsOwn
<1>8. CASE BeginRelease(r) \/ InspectGeneration(r) \/ Release(r)
  BY <1>8 DEF BeginRelease, InspectGeneration, Release, DropGeneration, DropLease
<1>9. CASE Crash(r)
  BY <1>9 DEF Crash
<1> QED
  BY <1>1, <1>2, <1>3, <1>4, <1>5, <1>6, <1>7, <1>8, <1>9 DEF LeaseStep, Claim

\* A step moves one responder, and its renewals end with its ownership.
LEMMA OneMoves ==
    ASSUME TypeOK, BeatsOwn, NEW r \in Responder,
           Start(r) \/ LeaseStep(r) \/ RenewCheck(r) \/ Crash(r)
    PROVE  BeatsOwn' /\ \A q \in Responder \ {r} : at'[q] = at[q]
<1> USE DEF BeatsOwn, TypeOK
<1>1. CASE Start(r) \/ Crash(r)
  BY <1>1 DEF Start, Crash
<1>2. CASE Claim(r)
  <2>1. \E l \in Location \ {"owner"} : at[r] = l /\ \E k : at' = [at EXCEPT ![r] = k] /\ UNCHANGED beat
    BY <1>2 DEF Claim, InspectTakeover, ClearTakeover, MakeLease, LeaseExists, MakeGeneration,
       LeaseVanished, ReadHeartbeat, LockTakeover, TakeoverExists, MoveLease, UnlockTakeover, Location
  <2> QED
    BY <2>1
<1>3. CASE Renew(r) \/ RenewCheck(r)
  BY <1>3 DEF Renew, RenewClear, RenewTouch, RenewCheck
<1>4. CASE BeginRelease(r) \/ InspectGeneration(r) \/ Release(r)
  BY <1>4 DEF BeginRelease, InspectGeneration, Release, DropGeneration, DropLease
<1> QED
  BY <1>1, <1>2, <1>3, <1>4 DEF LeaseStep

\* The monitor's invariant is kept, where the number of responders tells the lease's part from
\* the question's.
LEMMA MonitorKeeps ==
    ASSUME Cardinality(Responder) # 2, MonitorInv,
           [OnLease \/ OnQuestion \/ OnShell]_<<vars, monitorVars, shellVars>>
    PROVE  MonitorInv'
<1>1. CASE ~IsLease
  <2>1. UNCHANGED monitorVars
    BY <1>1 DEF OnLease, OnQuestion, OnShell, monitorVars
  <2> QED
    BY <1>1, <2>1 DEF MonitorInv, IsLease, monitorVars
<1>2. CASE IsLease /\ ~OnLease
  <2>1. UNCHANGED <<leaseVars, monitorVars>>
    BY <1>2 DEF OnQuestion, OnShell, IsLease, vars
  <2>2. TypeOK' /\ BeatsOwn' /\ IsLease'
    BY <1>2, <2>1 DEF MonitorInv, TypeOK, BeatsOwn, IsLease, leaseVars, monitorVars
  <2>3. \A r \in Responder : alone'[r] => AloneAt(r)' /\ OthersRest(r)'
    BY <1>2, <2>1 DEF MonitorInv, AloneAt, NothingHeld, OthersRest, leaseVars, monitorVars
  <2> QED
    BY <2>2, <2>3 DEF MonitorInv
<1>3. CASE IsLease /\ OnLease
  <2>1. IsLease' /\ TypeOK /\ BeatsOwn
    BY <1>3 DEF OnLease, IsLease, MonitorInv
  <2>2. TypeOK'
    <3>1. LeaseNext
      BY <1>3 DEF OnLease, LeaseNext
    <3> QED
      BY <2>1, <3>1, TypeStep
  <2>3. ASSUME NEW r \in Responder, Start(r) \/ LeaseStep(r) \/ RenewCheck(r) \/ Crash(r),
               alone' = [q \in Responder |-> q = r /\ (IF at[r] = "idle" THEN Quiet(r) ELSE alone[r])]
        PROVE  MonitorInv'
    <3>1. BeatsOwn' /\ \A q \in Responder \ {r} : at'[q] = at[q]
      BY <2>1, <2>3, OneMoves
    <3>2. ASSUME NEW q \in Responder, alone'[q]
          PROVE  q = r /\ (IF at[r] = "idle" THEN Quiet(r) ELSE alone[r])
      BY <2>3, <3>2, Zenon
    <3>3. ASSUME alone'[r], at[r] = "idle"
          PROVE  AloneAt(r)' /\ OthersRest(r)'
      <4>1. Quiet(r)
        BY <3>2, <3>3
      <4>2. Start(r)
        BY <2>1, <2>3, <3>3
           DEF Start, LeaseStep, Claim, InspectTakeover, ClearTakeover, MakeLease, LeaseExists,
               MakeGeneration, LeaseVanished, ReadHeartbeat, LockTakeover, TakeoverExists,
               MoveLease, UnlockTakeover, Renew, RenewClear, RenewTouch, RenewCheck, BeginRelease,
               InspectGeneration, Release, DropGeneration, DropLease, Crash, BeatsOwn
      <4>3. OthersRest(r)'
        BY <3>1, <4>1 DEF Quiet, OthersRest
      <4> QED
        BY <2>1, <4>1, <4>2, <4>3 DEF Start, Quiet, AloneAt, NothingHeld, TypeOK
    <3>4. ASSUME alone'[r], at[r] # "idle"
          PROVE  AloneAt(r)' /\ OthersRest(r)'
      <4>1. AloneAt(r) /\ OthersRest(r)
        BY <1>3, <3>2, <3>4 DEF MonitorInv
      <4>2. OthersRest(r)'
        BY <3>1, <4>1 DEF OthersRest
      <4> QED
        BY <2>1, <2>3, <3>4, <4>1, <4>2, AloneGoesOn DEF Start
    <3> QED
      BY <2>1, <2>2, <3>1, <3>2, <3>3, <3>4 DEF MonitorInv
  <2>4. ASSUME Tick, UNCHANGED alone
        PROVE  MonitorInv'
    <3>1. BeatsOwn' /\ UNCHANGED at
      BY <2>1, <2>4 DEF Tick, BeatsOwn
    <3>2. \A age \in Age \cup {None} : /\ ~Fresh(age) => ~Fresh(Older(age))
                                       /\ Older(age) = None <=> age = None
      BY ClaimLeaseAssumption DEF Older, Age
    <3>3. NothingHeld => NothingHeld'
      BY <2>1, <2>4, <3>2 DEF Tick, TypeOK, NothingHeld
    <3>4. \A r \in Responder : AloneAt(r) => AloneAt(r)'
      BY <2>1, <2>4, <3>1, <3>2, <3>3 DEF Tick, TypeOK, AloneAt
    <3>5. \A r \in Responder : OthersRest(r) => OthersRest(r)'
      BY <3>1 DEF OthersRest
    <3> QED
      BY <1>3, <2>1, <2>2, <2>4, <3>1, <3>4, <3>5 DEF MonitorInv
  <2> QED
    BY <1>3, <2>3, <2>4 DEF OnLease
<1> QED
  BY <1>1, <1>2, <1>3

\* Wherever earlier calls died, a call that meets only stale leftovers, and that nobody disturbs,
\* is not refused: what a crash leaves in a claim, a takeover, at work or in a release can be
\* cleared by one later call of claimUserInputRequest.
THEOREM LeftoversAreCleared ==
    ASSUME Cardinality(Responder) # 2
    PROVE  MCSpec => []LeftoversNeverRefuse
<1>1. MCInit => MonitorInv
  <2>1. MCInit => TypeOK
    BY ClaimLeaseAssumption DEF MCInit, Init, LeaseInit, TypeOK, Age, Location
  <2> QED
    BY <2>1 DEF MCInit, Init, LeaseInit, MonitorInv, BeatsOwn
<1>2. MonitorInv => LeftoversNeverRefuse
  BY DEF MonitorInv, AloneAt, LeftoversNeverRefuse
<1> QED
  BY <1>1, <1>2, MonitorKeeps, PTL DEF MCSpec

-----------------------------------------------------------------------------
(* The shell of CliShell asks for what its session waits for, for any      *)
(* number of requests, turns and interrupts.                               *)

ShellBounds == MaxRequests \in Nat /\ MaxTurns \in Nat /\ MaxInterrupts \in Nat /\ None \notin Nat

\* No question that is open is being answered, or has been.
NoneTaken == \A r \in Cli!Unsettled : log[r].status = "pending"
Waits == status = "waiting_for_user" /\ Cli!Unsettled # {}

\* The approvals that wait are the one the shell has, or the one its turn has raised.
ApprovalInv ==
    shell.session =>
        Cli!Pending("approval") \subseteq
            {IF turn.at \in {"denied", "permission"} THEN turn.raised ELSE shell.approval}

\* A shell that has no session yet may find one decision or one answer that is waited for.
ResumeInv ==
    ~shell.session => /\ shell.approval = None /\ shell.question = None /\ NoneTaken
                      /\ Cli!Unsettled = {} \/ Cli!Pending("approval") = {}
                      /\ \A r, q \in Cli!Pending("approval") : r = q

\* Between two turns.
LoopInv ==
    /\ shell.at = "prompt" \/ (shell.at = "inspect" /\ shell.session) =>
         shell.approval = None /\ shell.question = None
    /\ shell.session /\ shell.at \in {"loop", "prompt", "inspect"} /\ shell.question = None =>
         NoneTaken /\ IF shell.approval = None THEN ~Waits ELSE Cli!Unsettled = {}
    /\ shell.at \in {"approval", "resolving"} =>
         /\ shell.session /\ shell.approval # None
         /\ shell.question = None => Cli!Unsettled = {}
    /\ shell.at = "question" => shell.session /\ shell.question # None /\ shell.approval = None

\* Until a turn raises something, the session has no question that the shell does not know of.
BeforeRaise == {"start", "register", "work", "ask", "denied", "permission"}

TurnInv ==
    /\ shell.at = "turn" <=> turn.at # "none"
    /\ shell.at = "turn" => /\ shell.approval = None
                            /\ turn.kind # "prompt" \/ turn.at # "check" => shell.session
    /\ shell.at = "turn" /\ turn.kind = "prompt" =>
         /\ shell.question = None
         /\ shell.session => NoneTaken
         /\ turn.at \in BeforeRaise => Cli!Unsettled = {}
         /\ turn.at \in {"denied", "permission"} => turn.raised # None
         /\ shell.session /\ turn.at \in {"check", "thrown"} => ~Waits
    /\ shell.at = "turn" /\ turn.kind = "continue" /\ shell.question = None =>
         /\ NoneTaken
         /\ turn.at \in BeforeRaise \cup {"check"} => Cli!Unsettled = {}
         /\ turn.at = "thrown" => ~Waits
    /\ turn.at \in {"register", "work", "ask", "asked", "error", "denied", "finish"} =>
         status \in {"running", "interrupted"}
    /\ turn.at = "returned" => status \in {"waiting_for_user", "interrupted"}

\* The types of the fields, one by one.
Fields == {"at", "state", "session", "approval", "question", "interrupted", "exit", "command"}
Places == {"loop", "prompt", "approval", "resolving", "question", "inspect", "turn", "ended", "thrown"}
ShellTyped ==
    /\ DOMAIN shell = Fields /\ shell.at \in Places
    /\ shell.approval \in Cli!Request \cup {None} /\ shell.question \in Cli!Request \cup {None}
    /\ shell.session \in BOOLEAN

TurnFields == {"at", "kind", "request", "raised", "aborted", "outcome"}
TurnPlaces == {"check", "start", "register", "work", "ask", "asked", "error", "denied", "finish",
               "returned", "thrown", "permission"}
TurnTyped ==
    \/ turn = Cli!NoTurn
    \/ /\ DOMAIN turn = TurnFields /\ turn.at \in TurnPlaces
       /\ turn.kind \in {"prompt", "continue", "answer", "cancel"}
       /\ turn.request \in Cli!Request \cup {None} /\ turn.raised \in Cli!Request \cup {None}
       /\ turn.outcome \in {None, "interrupted", "failed", "ask_permission"}

LogTyped ==
    /\ DOMAIN log = Cli!Request /\ log = [r \in Cli!Request |-> log[r]]
    /\ \A r \in Cli!Request : DOMAIN log[r] = {"kind", "status"}

ShellTypes == ShellTyped /\ TurnTyped /\ LogTyped

ShellInv == ShellTypes /\ ApprovalInv /\ ResumeInv /\ LoopInv /\ TurnInv

\* The last of some requests is one of them.
LEMMA LastIsOne ==
    ASSUME ShellBounds, NEW S \in SUBSET Cli!Request
    PROVE  Cli!LastOf(S) \in Cli!Request \cup {None} /\ (Cli!LastOf(S) = None <=> S = {}) /\ (S # {} => Cli!LastOf(S) \in S)
<1>0. Cli!Request \subseteq Nat /\ None \notin Cli!Request /\ \A r \in Cli!Request : r <= MaxRequests /\ MaxRequests - r \in Nat
  BY DEF Cli!Request, ShellBounds
<1>1. CASE S = {}
  BY <1>1, <1>0 DEF Cli!LastOf
<1>2. CASE S # {}
  <2> DEFINE T == {MaxRequests - r : r \in S}
  <2>1. T \in SUBSET Nat /\ T # {}
    BY <1>2, <1>0
  <2>2. PICK x \in T : \A y \in T : <<y, x>> \notin OpToRel(<, Nat)
    BY <2>1, WFMin, NatLessThanWellFounded
  <2>3. PICK r \in S : x = MaxRequests - r
    BY <2>2
  <2>4. \A q \in S : q <= r
    <3> SUFFICES ASSUME NEW q \in S PROVE q <= r
      OBVIOUS
    <3>1. MaxRequests - q \in T /\ MaxRequests - q \in Nat /\ x \in Nat
      BY <2>1, <2>2
    <3>2. ~(MaxRequests - q < x)
      BY <2>2, <3>1 DEF OpToRel
    <3>3. q \in Nat /\ r \in Nat /\ MaxRequests \in Nat
      BY <1>0, <2>3 DEF ShellBounds
    <3> QED
      BY <2>3, <3>1, <3>2, <3>3
  <2>5. \E z \in S : \A q \in S : q <= z
    BY <2>4
  <2>6. Cli!LastOf(S) \in S
    BY ONLY <1>2, <2>5, Zenon DEF Cli!LastOf
  <2> QED
    BY <1>2, <2>6, <1>0
<1> QED
  BY <1>1, <1>2

\* inspectSession sees something exactly when something waits.
LEMMA SeenFacts ==
    ASSUME ShellBounds
    PROVE  /\ Cli!SeenApproval \in Cli!Request \cup {None} /\ (Cli!SeenApproval = None <=> Cli!Pending("approval") = {})
           /\ Cli!SeenQuestion \in Cli!Request \cup {None} /\ (Cli!SeenQuestion = None <=> Cli!Unsettled = {})
           /\ Cli!SeenApproval # None => Cli!SeenApproval \in Cli!Pending("approval")
           /\ Cli!SeenQuestion # None => Cli!SeenQuestion \in Cli!Unsettled
<1>1. Cli!Pending("approval") \in SUBSET Cli!Request /\ Cli!Unsettled \in SUBSET Cli!Request
  BY DEF Cli!Pending, Cli!Unsettled
<1>2. Cli!SeenApproval = Cli!LastOf(Cli!Pending("approval")) /\ Cli!SeenQuestion = Cli!LastOf(Cli!Unsettled)
  BY DEF Cli!SeenApproval, Cli!SeenQuestion
<1> QED
  BY <1>1, <1>2, LastIsOne

\* What settles requests leaves no more of them open, and none taken.
Settles ==
    /\ Cli!Unsettled' \subseteq Cli!Unsettled /\ Cli!Pending("approval")' \subseteq Cli!Pending("approval")
    /\ NoneTaken => NoneTaken'

\* To close a request settles it.
LEMMA ClosingSettles ==
    ASSUME LogTyped, NEW r \in Cli!Request, log' = [log EXCEPT ![r].status = "closed"]
    PROVE  Settles /\ LogTyped' /\ r \notin Cli!Unsettled' /\ r \notin Cli!Pending("approval")'
  BY SMTT(30) DEF Settles, LogTyped, Cli!Unsettled, Cli!Pending, NoneTaken

LEMMA LoopKeeps ==
    ASSUME ShellBounds, ShellInv, Cli!Loop
    PROVE  ShellInv'
<1>0. shell.at = "loop" /\ UNCHANGED <<turn, log, status>>
  BY DEF Cli!Loop, Cli!Runtime, Cli!Interrupting, Cli!ShellAt
<1>a. Cli!Unsettled' = Cli!Unsettled /\ Cli!Pending("approval")' = Cli!Pending("approval") /\ (NoneTaken' <=> NoneTaken)
      /\ (Cli!Unsettled = {} => NoneTaken) /\ (Cli!Pending("approval")' = {} <=> Cli!Pending("approval") = {})
      /\ ((\A r, q \in Cli!Pending("approval") : r = q) => (\A r, q \in Cli!Pending("approval")' : r = q))
  BY <1>0 DEF Cli!Unsettled, Cli!Pending, NoneTaken
<1>1. CASE shell.exit
  <2>0. shell' = [shell EXCEPT !.at = "ended"]
    BY <1>1, SMTT(20) DEF Cli!Loop, Cli!ShellAt
  <2>1. ShellTypes'
    BY <1>0, <1>a, <1>1, <2>0, SMTT(20)
       DEF ShellInv, ShellTypes, ShellTyped, TurnTyped, LogTyped, Fields, Places, TurnFields,
           TurnPlaces, Cli!NoTurn, Cli!NoRequest, ShellBounds
  <2>2. ApprovalInv' /\ ResumeInv'
    BY <1>0, <1>a, <1>1, <2>0, SMTT(20)
       DEF ShellInv, ShellTypes, ApprovalInv, ResumeInv, LoopInv, TurnInv, Waits, BeforeRaise,
           Cli!Runtime, Cli!Interrupting, ShellTyped, TurnTyped, LogTyped, Fields, Places,
           TurnFields, TurnPlaces, Cli!NoTurn, Cli!NoRequest, ShellBounds
  <2>3. LoopInv'
    BY <1>0, <1>a, <1>1, <2>0, SMTT(20)
       DEF ShellInv, ShellTypes, ApprovalInv, ResumeInv, LoopInv, TurnInv, Waits, BeforeRaise,
           Cli!Runtime, Cli!Interrupting, ShellTyped, TurnTyped, LogTyped, Fields, Places,
           TurnFields, TurnPlaces, Cli!NoTurn, Cli!NoRequest, ShellBounds
  <2>4. TurnInv'
    BY <1>0, <1>a, <1>1, <2>0, SMTT(20)
       DEF ShellInv, ShellTypes, ApprovalInv, ResumeInv, LoopInv, TurnInv, Waits, BeforeRaise,
           Cli!Runtime, Cli!Interrupting, ShellTyped, TurnTyped, LogTyped, Fields, Places,
           TurnFields, TurnPlaces, Cli!NoTurn, Cli!NoRequest, ShellBounds
  <2> QED
    BY <2>1, <2>2, <2>3, <2>4 DEF ShellInv
<1>2. CASE ~shell.exit /\ shell.approval # None
  <2>0. shell' = [shell EXCEPT !.at = "approval", !.command = FALSE]
    BY <1>2, SMTT(20) DEF Cli!Loop, Cli!ShellAt
  <2>1. ShellTypes'
    BY <1>0, <1>a, <1>2, <2>0, SMTT(20)
       DEF ShellInv, ShellTypes, ShellTyped, TurnTyped, LogTyped, Fields, Places, TurnFields,
           TurnPlaces, Cli!NoTurn, Cli!NoRequest, ShellBounds
  <2>2. ApprovalInv' /\ ResumeInv'
    BY <1>0, <1>a, <1>2, <2>0, SMTT(20)
       DEF ShellInv, ShellTypes, ApprovalInv, ResumeInv, LoopInv, TurnInv, Waits, BeforeRaise,
           Cli!Runtime, Cli!Interrupting, ShellTyped, TurnTyped, LogTyped, Fields, Places,
           TurnFields, TurnPlaces, Cli!NoTurn, Cli!NoRequest, ShellBounds
  <2>3. LoopInv'
    BY <1>0, <1>a, <1>2, <2>0, SMTT(20)
       DEF ShellInv, ShellTypes, ApprovalInv, ResumeInv, LoopInv, TurnInv, Waits, BeforeRaise,
           Cli!Runtime, Cli!Interrupting, ShellTyped, TurnTyped, LogTyped, Fields, Places,
           TurnFields, TurnPlaces, Cli!NoTurn, Cli!NoRequest, ShellBounds
  <2>4. TurnInv'
    BY <1>0, <1>a, <1>2, <2>0, SMTT(20)
       DEF ShellInv, ShellTypes, ApprovalInv, ResumeInv, LoopInv, TurnInv, Waits, BeforeRaise,
           Cli!Runtime, Cli!Interrupting, ShellTyped, TurnTyped, LogTyped, Fields, Places,
           TurnFields, TurnPlaces, Cli!NoTurn, Cli!NoRequest, ShellBounds
  <2> QED
    BY <2>1, <2>2, <2>3, <2>4 DEF ShellInv
<1>3. CASE ~shell.exit /\ shell.approval = None /\ shell.question # None
  <2>0. shell' = [shell EXCEPT !.at = "question", !.command = FALSE, !.state = "awaiting_user_input"]
    BY <1>3, SMTT(20) DEF Cli!Loop, Cli!ShellAt
  <2>1. ShellTypes'
    BY <1>0, <1>a, <1>3, <2>0, SMTT(20)
       DEF ShellInv, ShellTypes, ShellTyped, TurnTyped, LogTyped, Fields, Places, TurnFields,
           TurnPlaces, Cli!NoTurn, Cli!NoRequest, ShellBounds
  <2>2. ApprovalInv' /\ ResumeInv'
    BY <1>0, <1>a, <1>3, <2>0, SMTT(20)
       DEF ShellInv, ShellTypes, ApprovalInv, ResumeInv, LoopInv, TurnInv, Waits, BeforeRaise,
           Cli!Runtime, Cli!Interrupting, ShellTyped, TurnTyped, LogTyped, Fields, Places,
           TurnFields, TurnPlaces, Cli!NoTurn, Cli!NoRequest, ShellBounds
  <2>3. LoopInv'
    BY <1>0, <1>a, <1>3, <2>0, SMTT(20)
       DEF ShellInv, ShellTypes, ApprovalInv, ResumeInv, LoopInv, TurnInv, Waits, BeforeRaise,
           Cli!Runtime, Cli!Interrupting, ShellTyped, TurnTyped, LogTyped, Fields, Places,
           TurnFields, TurnPlaces, Cli!NoTurn, Cli!NoRequest, ShellBounds
  <2>4. TurnInv'
    BY <1>0, <1>a, <1>3, <2>0, SMTT(20)
       DEF ShellInv, ShellTypes, ApprovalInv, ResumeInv, LoopInv, TurnInv, Waits, BeforeRaise,
           Cli!Runtime, Cli!Interrupting, ShellTyped, TurnTyped, LogTyped, Fields, Places,
           TurnFields, TurnPlaces, Cli!NoTurn, Cli!NoRequest, ShellBounds
  <2> QED
    BY <2>1, <2>2, <2>3, <2>4 DEF ShellInv
<1>4. CASE ~shell.exit /\ shell.approval = None /\ shell.question = None
  <2>0. shell' = [shell EXCEPT !.at = "prompt", !.command = FALSE, !.state = "awaiting_user_input"]
    BY <1>4, SMTT(20) DEF Cli!Loop, Cli!ShellAt
  <2>1. ShellTypes'
    BY <1>0, <1>a, <1>4, <2>0, SMTT(20)
       DEF ShellInv, ShellTypes, ShellTyped, TurnTyped, LogTyped, Fields, Places, TurnFields,
           TurnPlaces, Cli!NoTurn, Cli!NoRequest, ShellBounds
  <2>2. ApprovalInv' /\ ResumeInv'
    BY <1>0, <1>a, <1>4, <2>0, SMTT(20)
       DEF ShellInv, ShellTypes, ApprovalInv, ResumeInv, LoopInv, TurnInv, Waits, BeforeRaise,
           Cli!Runtime, Cli!Interrupting, ShellTyped, TurnTyped, LogTyped, Fields, Places,
           TurnFields, TurnPlaces, Cli!NoTurn, Cli!NoRequest, ShellBounds
  <2>3. LoopInv'
    BY <1>0, <1>a, <1>4, <2>0, SMTT(20)
       DEF ShellInv, ShellTypes, ApprovalInv, ResumeInv, LoopInv, TurnInv, Waits, BeforeRaise,
           Cli!Runtime, Cli!Interrupting, ShellTyped, TurnTyped, LogTyped, Fields, Places,
           TurnFields, TurnPlaces, Cli!NoTurn, Cli!NoRequest, ShellBounds
  <2>4. TurnInv'
    BY <1>0, <1>a, <1>4, <2>0, SMTT(20)
       DEF ShellInv, ShellTypes, ApprovalInv, ResumeInv, LoopInv, TurnInv, Waits, BeforeRaise,
           Cli!Runtime, Cli!Interrupting, ShellTyped, TurnTyped, LogTyped, Fields, Places,
           TurnFields, TurnPlaces, Cli!NoTurn, Cli!NoRequest, ShellBounds
  <2> QED
    BY <2>1, <2>2, <2>3, <2>4 DEF ShellInv
<1> QED
  BY <1>1, <1>2, <1>3, <1>4 DEF Cli!Loop

LEMMA CommandKeeps ==
    ASSUME ShellBounds, ShellInv, Cli!Command
    PROVE  ShellInv'
<1>0. shell.at = "prompt" /\ UNCHANGED <<turn, log, status>>
  BY DEF Cli!Command, Cli!Runtime, Cli!Interrupting, Cli!ShellAt
<1>a. Cli!Unsettled' = Cli!Unsettled /\ Cli!Pending("approval")' = Cli!Pending("approval") /\ (NoneTaken' <=> NoneTaken)
      /\ (Cli!Unsettled = {} => NoneTaken) /\ (Cli!Pending("approval")' = {} <=> Cli!Pending("approval") = {})
      /\ ((\A r, q \in Cli!Pending("approval") : r = q) => (\A r, q \in Cli!Pending("approval")' : r = q))
  BY <1>0 DEF Cli!Unsettled, Cli!Pending, NoneTaken
<1>1. CASE shell.session /\ shell' = [shell EXCEPT !.at = "inspect", !.command = TRUE]
  <2>0. shell' = [shell EXCEPT !.at = "inspect", !.command = TRUE]
    BY <1>1, SMTT(20) DEF Cli!Command, Cli!ShellAt
  <2>1. ShellTypes'
    <3>0. ShellTyped /\ TurnTyped' /\ LogTyped'
      BY <1>0 DEF ShellInv, ShellTypes, TurnTyped, LogTyped
    <3>1. /\ DOMAIN shell' = DOMAIN shell
          /\ shell'.at = "inspect"
          /\ shell'.approval = shell.approval /\ shell'.question = shell.question
          /\ shell'.session = shell.session
      BY <2>0, <3>0 DEF ShellTyped, Fields
    <3> QED
      BY <3>0, <3>1 DEF ShellTypes, ShellTyped, Fields, Places
  <2>2. ApprovalInv' /\ ResumeInv'
    BY <1>0, <1>a, <1>1, <2>0, SMTT(20)
       DEF ShellInv, ShellTypes, ApprovalInv, ResumeInv, LoopInv, TurnInv, Waits, BeforeRaise,
           Cli!Runtime, Cli!Interrupting, ShellTyped, TurnTyped, LogTyped, Fields, Places,
           TurnFields, TurnPlaces, Cli!NoTurn, Cli!NoRequest, ShellBounds
  <2>3. LoopInv'
    BY <1>0, <1>a, <1>1, <2>0, SMTT(20)
       DEF ShellInv, ShellTypes, ApprovalInv, ResumeInv, LoopInv, TurnInv, Waits, BeforeRaise,
           Cli!Runtime, Cli!Interrupting, ShellTyped, TurnTyped, LogTyped, Fields, Places,
           TurnFields, TurnPlaces, Cli!NoTurn, Cli!NoRequest, ShellBounds
  <2>4. TurnInv'
    BY <1>0, <1>a, <1>1, <2>0, SMTT(20)
       DEF ShellInv, ShellTypes, ApprovalInv, ResumeInv, LoopInv, TurnInv, Waits, BeforeRaise,
           Cli!Runtime, Cli!Interrupting, ShellTyped, TurnTyped, LogTyped, Fields, Places,
           TurnFields, TurnPlaces, Cli!NoTurn, Cli!NoRequest, ShellBounds
  <2> QED
    BY <2>1, <2>2, <2>3, <2>4 DEF ShellInv
<1>2. CASE shell' = [shell EXCEPT !.at = "loop", !.exit = TRUE]
  <2>1. ShellTypes'
    BY <1>0, <1>a, <1>2, SMTT(20)
       DEF ShellInv, ShellTypes, ShellTyped, TurnTyped, LogTyped, Fields, Places, TurnFields,
           TurnPlaces, Cli!NoTurn, Cli!NoRequest, ShellBounds
  <2>2. ApprovalInv' /\ ResumeInv'
    BY <1>0, <1>a, <1>2, SMTT(20)
       DEF ShellInv, ShellTypes, ApprovalInv, ResumeInv, LoopInv, TurnInv, Waits, BeforeRaise,
           Cli!Runtime, Cli!Interrupting, ShellTyped, TurnTyped, LogTyped, Fields, Places,
           TurnFields, TurnPlaces, Cli!NoTurn, Cli!NoRequest, ShellBounds
  <2>3. LoopInv'
    BY <1>0, <1>a, <1>2, SMTT(20)
       DEF ShellInv, ShellTypes, ApprovalInv, ResumeInv, LoopInv, TurnInv, Waits, BeforeRaise,
           Cli!Runtime, Cli!Interrupting, ShellTyped, TurnTyped, LogTyped, Fields, Places,
           TurnFields, TurnPlaces, Cli!NoTurn, Cli!NoRequest, ShellBounds
  <2>4. TurnInv'
    BY <1>0, <1>a, <1>2, SMTT(20)
       DEF ShellInv, ShellTypes, ApprovalInv, ResumeInv, LoopInv, TurnInv, Waits, BeforeRaise,
           Cli!Runtime, Cli!Interrupting, ShellTyped, TurnTyped, LogTyped, Fields, Places,
           TurnFields, TurnPlaces, Cli!NoTurn, Cli!NoRequest, ShellBounds
  <2> QED
    BY <2>1, <2>2, <2>3, <2>4 DEF ShellInv
<1> QED
  BY <1>1, <1>2 DEF Cli!Command

LEMMA InspectKeeps ==
    ASSUME ShellBounds, ShellInv, Cli!Inspect
    PROVE  ShellInv'
<1>0. shell.at = "inspect" /\ UNCHANGED <<turn, log, status>>
  BY DEF Cli!Inspect, Cli!Runtime, Cli!Interrupting, Cli!ShellAt
<1>a. Cli!Unsettled' = Cli!Unsettled /\ Cli!Pending("approval")' = Cli!Pending("approval") /\ (NoneTaken' <=> NoneTaken)
      /\ (Cli!Unsettled = {} => NoneTaken) /\ (Cli!Pending("approval")' = {} <=> Cli!Pending("approval") = {})
      /\ ((\A r, q \in Cli!Pending("approval") : r = q) => (\A r, q \in Cli!Pending("approval")' : r = q))
  BY <1>0 DEF Cli!Unsettled, Cli!Pending, NoneTaken
<1>1. CASE Cli!SeenApproval # None /\ shell.command /\ ~shell.exit
  <2>0. shell' = [shell EXCEPT !.at = "approval", !.session = TRUE, !.approval = Cli!SeenApproval, !.state = "awaiting_approval"]
    BY <1>1, SMTT(20) DEF Cli!Inspect, Cli!ShellAt
  <2>1. ShellTypes'
    BY <1>0, <1>a, <1>1, <2>0, SeenFacts, SMTT(20)
       DEF ShellInv, ShellTypes, ShellTyped, TurnTyped, LogTyped, Fields, Places, TurnFields,
           TurnPlaces, Cli!NoTurn, Cli!NoRequest, ShellBounds
  <2>2. ApprovalInv' /\ ResumeInv'
    BY <1>0, <1>a, <1>1, <2>0, SeenFacts, SMTT(20)
       DEF ShellInv, ShellTypes, ApprovalInv, ResumeInv, LoopInv, TurnInv, Waits, BeforeRaise,
           Cli!Runtime, Cli!Interrupting, ShellTyped, TurnTyped, LogTyped, Fields, Places,
           TurnFields, TurnPlaces, Cli!NoTurn, Cli!NoRequest, ShellBounds
  <2>3. LoopInv'
    BY <1>0, <1>a, <1>1, <2>0, SeenFacts, SMTT(20)
       DEF ShellInv, ShellTypes, ApprovalInv, ResumeInv, LoopInv, TurnInv, Waits, BeforeRaise,
           Cli!Runtime, Cli!Interrupting, ShellTyped, TurnTyped, LogTyped, Fields, Places,
           TurnFields, TurnPlaces, Cli!NoTurn, Cli!NoRequest, ShellBounds
  <2>4. TurnInv'
    BY <1>0, <1>a, <1>1, <2>0, SeenFacts, SMTT(20)
       DEF ShellInv, ShellTypes, ApprovalInv, ResumeInv, LoopInv, TurnInv, Waits, BeforeRaise,
           Cli!Runtime, Cli!Interrupting, ShellTyped, TurnTyped, LogTyped, Fields, Places,
           TurnFields, TurnPlaces, Cli!NoTurn, Cli!NoRequest, ShellBounds
  <2> QED
    BY <2>1, <2>2, <2>3, <2>4 DEF ShellInv
<1>2. CASE Cli!SeenApproval # None /\ (~shell.command \/ shell.exit)
  <2>a. (IF shell.command /\ ~shell.exit THEN "approval" ELSE "loop") = "loop"
    BY <1>2
  <2>b. shell' = [shell EXCEPT !.at = IF shell.command /\ ~shell.exit THEN "approval" ELSE "loop",
                              !.session = TRUE, !.approval = Cli!SeenApproval, !.state = "awaiting_approval"]
    BY <1>2 DEF Cli!Inspect
  <2>0. shell' = [shell EXCEPT !.at = "loop", !.session = TRUE, !.approval = Cli!SeenApproval, !.state = "awaiting_approval"]
    BY <2>a, <2>b
  <2>1. ShellTypes'
    BY <1>0, <1>a, <1>2, <2>0, SeenFacts, SMTT(20)
       DEF ShellInv, ShellTypes, ShellTyped, TurnTyped, LogTyped, Fields, Places, TurnFields,
           TurnPlaces, Cli!NoTurn, Cli!NoRequest, ShellBounds
  <2>2. ApprovalInv' /\ ResumeInv'
    BY <1>0, <1>a, <1>2, <2>0, SeenFacts, SMTT(20)
       DEF ShellInv, ShellTypes, ApprovalInv, ResumeInv, LoopInv, TurnInv, Waits, BeforeRaise,
           Cli!Runtime, Cli!Interrupting, ShellTyped, TurnTyped, LogTyped, Fields, Places,
           TurnFields, TurnPlaces, Cli!NoTurn, Cli!NoRequest, ShellBounds
  <2>3. LoopInv'
    BY <1>0, <1>a, <1>2, <2>0, SeenFacts, SMTT(20)
       DEF ShellInv, ShellTypes, ApprovalInv, ResumeInv, LoopInv, TurnInv, Waits, BeforeRaise,
           Cli!Runtime, Cli!Interrupting, ShellTyped, TurnTyped, LogTyped, Fields, Places,
           TurnFields, TurnPlaces, Cli!NoTurn, Cli!NoRequest, ShellBounds
  <2>4. TurnInv'
    BY <1>0, <1>a, <1>2, <2>0, SeenFacts, SMTT(20)
       DEF ShellInv, ShellTypes, ApprovalInv, ResumeInv, LoopInv, TurnInv, Waits, BeforeRaise,
           Cli!Runtime, Cli!Interrupting, ShellTyped, TurnTyped, LogTyped, Fields, Places,
           TurnFields, TurnPlaces, Cli!NoTurn, Cli!NoRequest, ShellBounds
  <2> QED
    BY <2>1, <2>2, <2>3, <2>4 DEF ShellInv
<1>3. CASE Cli!SeenApproval = None /\ Cli!SeenQuestion # None
  <2>0. shell' = [shell EXCEPT !.at = "loop", !.session = TRUE, !.question = Cli!SeenQuestion, !.state = "awaiting_user_input"]
    BY <1>3, SMTT(20) DEF Cli!Inspect, Cli!ShellAt
  <2>1. ShellTypes'
    BY <1>0, <1>a, <1>3, <2>0, SeenFacts, SMTT(20)
       DEF ShellInv, ShellTypes, ShellTyped, TurnTyped, LogTyped, Fields, Places, TurnFields,
           TurnPlaces, Cli!NoTurn, Cli!NoRequest, ShellBounds
  <2>2. ApprovalInv' /\ ResumeInv'
    BY <1>0, <1>a, <1>3, <2>0, SeenFacts, SMTT(20)
       DEF ShellInv, ShellTypes, ApprovalInv, ResumeInv, LoopInv, TurnInv, Waits, BeforeRaise,
           Cli!Runtime, Cli!Interrupting, ShellTyped, TurnTyped, LogTyped, Fields, Places,
           TurnFields, TurnPlaces, Cli!NoTurn, Cli!NoRequest, ShellBounds
  <2>3. LoopInv'
    BY <1>0, <1>a, <1>3, <2>0, SeenFacts, SMTT(20)
       DEF ShellInv, ShellTypes, ApprovalInv, ResumeInv, LoopInv, TurnInv, Waits, BeforeRaise,
           Cli!Runtime, Cli!Interrupting, ShellTyped, TurnTyped, LogTyped, Fields, Places,
           TurnFields, TurnPlaces, Cli!NoTurn, Cli!NoRequest, ShellBounds
  <2>4. TurnInv'
    BY <1>0, <1>a, <1>3, <2>0, SeenFacts, SMTT(20)
       DEF ShellInv, ShellTypes, ApprovalInv, ResumeInv, LoopInv, TurnInv, Waits, BeforeRaise,
           Cli!Runtime, Cli!Interrupting, ShellTyped, TurnTyped, LogTyped, Fields, Places,
           TurnFields, TurnPlaces, Cli!NoTurn, Cli!NoRequest, ShellBounds
  <2> QED
    BY <2>1, <2>2, <2>3, <2>4 DEF ShellInv
<1>4. CASE Cli!SeenApproval = None /\ Cli!SeenQuestion = None
  <2>0. shell' = [shell EXCEPT !.at = "loop", !.session = TRUE, !.question = None, !.state = "idle"]
    BY <1>4, SMTT(20) DEF Cli!Inspect, Cli!ShellAt
  <2>1. ShellTypes'
    BY <1>0, <1>a, <1>4, <2>0, SeenFacts, SMTT(20)
       DEF ShellInv, ShellTypes, ShellTyped, TurnTyped, LogTyped, Fields, Places, TurnFields,
           TurnPlaces, Cli!NoTurn, Cli!NoRequest, ShellBounds
  <2>2. ApprovalInv' /\ ResumeInv'
    BY <1>0, <1>a, <1>4, <2>0, SeenFacts, SMTT(20)
       DEF ShellInv, ShellTypes, ApprovalInv, ResumeInv, LoopInv, TurnInv, Waits, BeforeRaise,
           Cli!Runtime, Cli!Interrupting, ShellTyped, TurnTyped, LogTyped, Fields, Places,
           TurnFields, TurnPlaces, Cli!NoTurn, Cli!NoRequest, ShellBounds
  <2>3. LoopInv'
    BY <1>0, <1>a, <1>4, <2>0, SeenFacts, SMTT(20)
       DEF ShellInv, ShellTypes, ApprovalInv, ResumeInv, LoopInv, TurnInv, Waits, BeforeRaise,
           Cli!Runtime, Cli!Interrupting, ShellTyped, TurnTyped, LogTyped, Fields, Places,
           TurnFields, TurnPlaces, Cli!NoTurn, Cli!NoRequest, ShellBounds
  <2>4. TurnInv'
    BY <1>0, <1>a, <1>4, <2>0, SeenFacts, SMTT(20)
       DEF ShellInv, ShellTypes, ApprovalInv, ResumeInv, LoopInv, TurnInv, Waits, BeforeRaise,
           Cli!Runtime, Cli!Interrupting, ShellTyped, TurnTyped, LogTyped, Fields, Places,
           TurnFields, TurnPlaces, Cli!NoTurn, Cli!NoRequest, ShellBounds
  <2> QED
    BY <2>1, <2>2, <2>3, <2>4 DEF ShellInv
<1> QED
  BY <1>1, <1>2, <1>3, <1>4 DEF Cli!Inspect

LEMMA ReturnedKeeps ==
    ASSUME ShellBounds, ShellInv, Cli!Returned
    PROVE  ShellInv'
<1>0. shell.at = "turn" /\ turn.at = "returned" /\ turn' = Cli!NoTurn /\ log' = log
  BY DEF Cli!Returned, Cli!Runtime, Cli!Interrupting, Cli!ShellAt, Cli!TurnAt
<1>a. Cli!Unsettled' = Cli!Unsettled /\ Cli!Pending("approval")' = Cli!Pending("approval") /\ (NoneTaken' <=> NoneTaken)
      /\ (Cli!Unsettled = {} => NoneTaken) /\ (Cli!Pending("approval")' = {} <=> Cli!Pending("approval") = {})
      /\ ((\A r, q \in Cli!Pending("approval") : r = q) => (\A r, q \in Cli!Pending("approval")' : r = q))
  BY <1>0 DEF Cli!Unsettled, Cli!Pending, NoneTaken
<1>1. CASE turn.kind = "prompt" /\ shell.interrupted
  <2>0. status' = "interrupted" /\ shell' = [shell EXCEPT !.at = "loop", !.state = "interrupted", !.question = Cli!OrElse(Cli!TurnQuestion, shell.question)]
    BY <1>1, SMTT(20) DEF Cli!Returned, Cli!ShellAt, Cli!TurnAt
  <2>1. ShellTypes'
    BY <1>0, <1>a, <1>1, <2>0, SeenFacts, SMTT(20)
       DEF ShellInv, ShellTypes, ShellTyped, TurnTyped, LogTyped, Fields, Places, TurnFields,
           TurnPlaces, Cli!NoTurn, Cli!NoRequest, Cli!OrElse, Cli!TurnQuestion, ShellBounds
  <2>2. ApprovalInv' /\ ResumeInv'
    BY <1>0, <1>a, <1>1, <2>0, SeenFacts, SMTT(20)
       DEF ShellInv, ShellTypes, ApprovalInv, ResumeInv, LoopInv, TurnInv, Waits, BeforeRaise,
           Cli!Runtime, Cli!Interrupting, ShellTyped, TurnTyped, LogTyped, Fields, Places,
           TurnFields, TurnPlaces, Cli!NoTurn, Cli!NoRequest, Cli!OrElse, Cli!TurnQuestion,
           ShellBounds
  <2>3. LoopInv'
    BY <1>0, <1>a, <1>1, <2>0, SeenFacts, SMTT(20)
       DEF ShellInv, ShellTypes, ApprovalInv, ResumeInv, LoopInv, TurnInv, Waits, BeforeRaise,
           Cli!Runtime, Cli!Interrupting, ShellTyped, TurnTyped, LogTyped, Fields, Places,
           TurnFields, TurnPlaces, Cli!NoTurn, Cli!NoRequest, Cli!OrElse, Cli!TurnQuestion,
           ShellBounds
  <2>4. TurnInv'
    BY <1>0, <1>a, <1>1, <2>0, SeenFacts, SMTT(20)
       DEF ShellInv, ShellTypes, ApprovalInv, ResumeInv, LoopInv, TurnInv, Waits, BeforeRaise,
           Cli!Runtime, Cli!Interrupting, ShellTyped, TurnTyped, LogTyped, Fields, Places,
           TurnFields, TurnPlaces, Cli!NoTurn, Cli!NoRequest, Cli!OrElse, Cli!TurnQuestion,
           ShellBounds
  <2> QED
    BY <2>1, <2>2, <2>3, <2>4 DEF ShellInv
<1>2. CASE turn.kind = "prompt" /\ ~shell.interrupted
  <2>0. status' = status /\ shell' = [shell EXCEPT !.at = "loop", !.state = "idle", !.question = Cli!OrElse(Cli!OrElse(Cli!TurnQuestion, shell.question), Cli!SeenQuestion)]
    BY <1>2, SMTT(20) DEF Cli!Returned, Cli!ShellAt, Cli!TurnAt
  <2>1. ShellTypes'
    BY <1>0, <1>a, <1>2, <2>0, SeenFacts, SMTT(20)
       DEF ShellInv, ShellTypes, ShellTyped, TurnTyped, LogTyped, Fields, Places, TurnFields,
           TurnPlaces, Cli!NoTurn, Cli!NoRequest, Cli!OrElse, Cli!TurnQuestion, ShellBounds
  <2>2. ApprovalInv' /\ ResumeInv'
    BY <1>0, <1>a, <1>2, <2>0, SeenFacts, SMTT(20)
       DEF ShellInv, ShellTypes, ApprovalInv, ResumeInv, LoopInv, TurnInv, Waits, BeforeRaise,
           Cli!Runtime, Cli!Interrupting, ShellTyped, TurnTyped, LogTyped, Fields, Places,
           TurnFields, TurnPlaces, Cli!NoTurn, Cli!NoRequest, Cli!OrElse, Cli!TurnQuestion,
           ShellBounds
  <2>3. LoopInv'
    BY <1>0, <1>a, <1>2, <2>0, SeenFacts, SMTT(20)
       DEF ShellInv, ShellTypes, ApprovalInv, ResumeInv, LoopInv, TurnInv, Waits, BeforeRaise,
           Cli!Runtime, Cli!Interrupting, ShellTyped, TurnTyped, LogTyped, Fields, Places,
           TurnFields, TurnPlaces, Cli!NoTurn, Cli!NoRequest, Cli!OrElse, Cli!TurnQuestion,
           ShellBounds
  <2>4. TurnInv'
    BY <1>0, <1>a, <1>2, <2>0, SeenFacts, SMTT(20)
       DEF ShellInv, ShellTypes, ApprovalInv, ResumeInv, LoopInv, TurnInv, Waits, BeforeRaise,
           Cli!Runtime, Cli!Interrupting, ShellTyped, TurnTyped, LogTyped, Fields, Places,
           TurnFields, TurnPlaces, Cli!NoTurn, Cli!NoRequest, Cli!OrElse, Cli!TurnQuestion,
           ShellBounds
  <2> QED
    BY <2>1, <2>2, <2>3, <2>4 DEF ShellInv
<1>3. CASE turn.kind # "prompt"
  <2>0. status' = status /\ shell' = [shell EXCEPT !.at = "loop", !.state = "idle", !.question = Cli!OrElse(Cli!OrElse(Cli!TurnQuestion, Cli!SeenQuestion), shell.question)]
    BY <1>3, SMTT(20) DEF Cli!Returned, Cli!ShellAt, Cli!TurnAt
  <2>1. ShellTypes'
    BY <1>0, <1>a, <1>3, <2>0, SeenFacts, SMTT(20)
       DEF ShellInv, ShellTypes, ShellTyped, TurnTyped, LogTyped, Fields, Places, TurnFields,
           TurnPlaces, Cli!NoTurn, Cli!NoRequest, Cli!OrElse, Cli!TurnQuestion, ShellBounds
  <2>2. ApprovalInv' /\ ResumeInv'
    BY <1>0, <1>a, <1>3, <2>0, SeenFacts, SMTT(20)
       DEF ShellInv, ShellTypes, ApprovalInv, ResumeInv, LoopInv, TurnInv, Waits, BeforeRaise,
           Cli!Runtime, Cli!Interrupting, ShellTyped, TurnTyped, LogTyped, Fields, Places,
           TurnFields, TurnPlaces, Cli!NoTurn, Cli!NoRequest, Cli!OrElse, Cli!TurnQuestion,
           ShellBounds
  <2>3. LoopInv'
    BY <1>0, <1>a, <1>3, <2>0, SeenFacts, SMTT(20)
       DEF ShellInv, ShellTypes, ApprovalInv, ResumeInv, LoopInv, TurnInv, Waits, BeforeRaise,
           Cli!Runtime, Cli!Interrupting, ShellTyped, TurnTyped, LogTyped, Fields, Places,
           TurnFields, TurnPlaces, Cli!NoTurn, Cli!NoRequest, Cli!OrElse, Cli!TurnQuestion,
           ShellBounds
  <2>4. TurnInv'
    BY <1>0, <1>a, <1>3, <2>0, SeenFacts, SMTT(20)
       DEF ShellInv, ShellTypes, ApprovalInv, ResumeInv, LoopInv, TurnInv, Waits, BeforeRaise,
           Cli!Runtime, Cli!Interrupting, ShellTyped, TurnTyped, LogTyped, Fields, Places,
           TurnFields, TurnPlaces, Cli!NoTurn, Cli!NoRequest, Cli!OrElse, Cli!TurnQuestion,
           ShellBounds
  <2> QED
    BY <2>1, <2>2, <2>3, <2>4 DEF ShellInv
<1> QED
  BY <1>1, <1>2, <1>3 DEF Cli!Returned

LEMMA FailedKeeps ==
    ASSUME ShellBounds, ShellInv, Cli!Failed
    PROVE  ShellInv'
<1>0. shell.at = "turn" /\ turn.at = "thrown" /\ turn' = Cli!NoTurn /\ log' = log
  BY DEF Cli!Failed, Cli!Runtime, Cli!Interrupting, Cli!ShellAt, Cli!TurnAt
<1>a. Cli!Unsettled' = Cli!Unsettled /\ Cli!Pending("approval")' = Cli!Pending("approval") /\ (NoneTaken' <=> NoneTaken)
      /\ (Cli!Unsettled = {} => NoneTaken) /\ (Cli!Pending("approval")' = {} <=> Cli!Pending("approval") = {})
      /\ ((\A r, q \in Cli!Pending("approval") : r = q) => (\A r, q \in Cli!Pending("approval")' : r = q))
  BY <1>0 DEF Cli!Unsettled, Cli!Pending, NoneTaken
<1>1. CASE turn.kind = "prompt" /\ shell.interrupted
  <2>0. status' = "interrupted" /\ shell' = [shell EXCEPT !.at = "loop", !.state = "interrupted"]
    BY <1>1, SMTT(20) DEF Cli!Failed, Cli!ShellAt, Cli!TurnAt
  <2>1. ShellTypes'
    BY <1>0, <1>a, <1>1, <2>0, SeenFacts, SMTT(20)
       DEF ShellInv, ShellTypes, ShellTyped, TurnTyped, LogTyped, Fields, Places, TurnFields,
           TurnPlaces, Cli!NoTurn, Cli!NoRequest, Cli!AfterFailure, ShellBounds
  <2>2. ApprovalInv' /\ ResumeInv'
    BY <1>0, <1>a, <1>1, <2>0, SeenFacts, SMTT(20)
       DEF ShellInv, ShellTypes, ApprovalInv, ResumeInv, LoopInv, TurnInv, Waits, BeforeRaise,
           Cli!Runtime, Cli!Interrupting, ShellTyped, TurnTyped, LogTyped, Fields, Places,
           TurnFields, TurnPlaces, Cli!NoTurn, Cli!NoRequest, Cli!AfterFailure, ShellBounds
  <2>3. LoopInv'
    BY <1>0, <1>a, <1>1, <2>0, SeenFacts, SMTT(20)
       DEF ShellInv, ShellTypes, ApprovalInv, ResumeInv, LoopInv, TurnInv, Waits, BeforeRaise,
           Cli!Runtime, Cli!Interrupting, ShellTyped, TurnTyped, LogTyped, Fields, Places,
           TurnFields, TurnPlaces, Cli!NoTurn, Cli!NoRequest, Cli!AfterFailure, ShellBounds
  <2>4. TurnInv'
    BY <1>0, <1>a, <1>1, <2>0, SeenFacts, SMTT(20)
       DEF ShellInv, ShellTypes, ApprovalInv, ResumeInv, LoopInv, TurnInv, Waits, BeforeRaise,
           Cli!Runtime, Cli!Interrupting, ShellTyped, TurnTyped, LogTyped, Fields, Places,
           TurnFields, TurnPlaces, Cli!NoTurn, Cli!NoRequest, Cli!AfterFailure, ShellBounds
  <2> QED
    BY <2>1, <2>2, <2>3, <2>4 DEF ShellInv
<1>2. CASE ~(turn.kind = "prompt" /\ shell.interrupted)
  <2>0. status' = status /\ shell' = [shell EXCEPT !.at = "loop", !.state = "idle", !.question = Cli!AfterFailure(turn.kind)]
    BY <1>2, SMTT(20) DEF Cli!Failed, Cli!ShellAt, Cli!TurnAt
  <2>1. ShellTypes'
    BY <1>0, <1>a, <1>2, <2>0, SeenFacts, SMTT(20)
       DEF ShellInv, ShellTypes, ShellTyped, TurnTyped, LogTyped, Fields, Places, TurnFields,
           TurnPlaces, Cli!NoTurn, Cli!NoRequest, Cli!AfterFailure, ShellBounds
  <2>2. ApprovalInv' /\ ResumeInv'
    BY <1>0, <1>a, <1>2, <2>0, SeenFacts, SMTT(20)
       DEF ShellInv, ShellTypes, ApprovalInv, ResumeInv, LoopInv, TurnInv, Waits, BeforeRaise,
           Cli!Runtime, Cli!Interrupting, ShellTyped, TurnTyped, LogTyped, Fields, Places,
           TurnFields, TurnPlaces, Cli!NoTurn, Cli!NoRequest, Cli!AfterFailure, ShellBounds
  <2>3. LoopInv'
    BY <1>0, <1>a, <1>2, <2>0, SeenFacts, SMTT(20)
       DEF ShellInv, ShellTypes, ApprovalInv, ResumeInv, LoopInv, TurnInv, Waits, BeforeRaise,
           Cli!Runtime, Cli!Interrupting, ShellTyped, TurnTyped, LogTyped, Fields, Places,
           TurnFields, TurnPlaces, Cli!NoTurn, Cli!NoRequest, Cli!AfterFailure, ShellBounds
  <2>4. TurnInv'
    BY <1>0, <1>a, <1>2, <2>0, SeenFacts, SMTT(20)
       DEF ShellInv, ShellTypes, ApprovalInv, ResumeInv, LoopInv, TurnInv, Waits, BeforeRaise,
           Cli!Runtime, Cli!Interrupting, ShellTyped, TurnTyped, LogTyped, Fields, Places,
           TurnFields, TurnPlaces, Cli!NoTurn, Cli!NoRequest, Cli!AfterFailure, ShellBounds
  <2> QED
    BY <2>1, <2>2, <2>3, <2>4 DEF ShellInv
<1> QED
  BY <1>1, <1>2 DEF Cli!Failed

LEMMA RequestInterruptKeeps ==
    ASSUME ShellBounds, ShellInv, Cli!RequestInterrupt
    PROVE  ShellInv'
<1>0. UNCHANGED <<turn, log, status>>
  BY DEF Cli!RequestInterrupt, Cli!Runtime, Cli!Interrupting
<1>a. Cli!Unsettled' = Cli!Unsettled /\ Cli!Pending("approval")' = Cli!Pending("approval") /\ (NoneTaken' <=> NoneTaken)
      /\ (Cli!Unsettled = {} => NoneTaken) /\ (Cli!Pending("approval")' = {} <=> Cli!Pending("approval") = {})
      /\ ((\A r, q \in Cli!Pending("approval") : r = q) => (\A r, q \in Cli!Pending("approval")' : r = q))
  BY <1>0 DEF Cli!Unsettled, Cli!Pending, NoneTaken
<1>1. CASE shell.state = "running_turn" /\ shell.session /\ shell.interrupted /\ shell' = [shell EXCEPT !.exit = TRUE]
  <2>0. shell' = [shell EXCEPT !.exit = TRUE]
    BY <1>1, SMTT(20) DEF Cli!RequestInterrupt
  <2>1. ShellTypes'
    <3>0. ShellTyped /\ TurnTyped' /\ LogTyped'
      BY <1>0 DEF ShellInv, ShellTypes, TurnTyped, LogTyped
    <3>1. /\ DOMAIN shell' = DOMAIN shell
          /\ shell'.at = shell.at
          /\ shell'.approval = shell.approval /\ shell'.question = shell.question
          /\ shell'.session = shell.session
      BY <2>0, <3>0 DEF ShellTyped, Fields
    <3> QED
      BY <3>0, <3>1 DEF ShellTypes, ShellTyped, Fields, Places
  <2>2. ApprovalInv' /\ ResumeInv'
    BY <1>0, <1>a, <1>1, <2>0, SMTT(20)
       DEF ShellInv, ShellTypes, ApprovalInv, ResumeInv, LoopInv, TurnInv, Waits, BeforeRaise,
           Cli!Runtime, Cli!Interrupting, ShellTyped, TurnTyped, LogTyped, Fields, Places,
           TurnFields, TurnPlaces, Cli!NoTurn, Cli!NoRequest, ShellBounds
  <2>3. LoopInv'
    BY <1>0, <1>a, <1>1, <2>0, SMTT(20)
       DEF ShellInv, ShellTypes, ApprovalInv, ResumeInv, LoopInv, TurnInv, Waits, BeforeRaise,
           Cli!Runtime, Cli!Interrupting, ShellTyped, TurnTyped, LogTyped, Fields, Places,
           TurnFields, TurnPlaces, Cli!NoTurn, Cli!NoRequest, ShellBounds
  <2>4. TurnInv'
    BY <1>0, <1>a, <1>1, <2>0, SMTT(20)
       DEF ShellInv, ShellTypes, ApprovalInv, ResumeInv, LoopInv, TurnInv, Waits, BeforeRaise,
           Cli!Runtime, Cli!Interrupting, ShellTyped, TurnTyped, LogTyped, Fields, Places,
           TurnFields, TurnPlaces, Cli!NoTurn, Cli!NoRequest, ShellBounds
  <2> QED
    BY <2>1, <2>2, <2>3, <2>4 DEF ShellInv
<1>2. CASE shell.state = "running_turn" /\ shell.session /\ ~shell.interrupted /\ shell' = [shell EXCEPT !.interrupted = TRUE]
  <2>0. shell' = [shell EXCEPT !.interrupted = TRUE]
    BY <1>2, SMTT(20) DEF Cli!RequestInterrupt
  <2>1. ShellTypes'
    <3>0. ShellTyped /\ TurnTyped' /\ LogTyped'
      BY <1>0 DEF ShellInv, ShellTypes, TurnTyped, LogTyped
    <3>1. /\ DOMAIN shell' = DOMAIN shell
          /\ shell'.at = shell.at
          /\ shell'.approval = shell.approval /\ shell'.question = shell.question
          /\ shell'.session = shell.session
      BY <2>0, <3>0 DEF ShellTyped, Fields
    <3> QED
      BY <3>0, <3>1 DEF ShellTypes, ShellTyped, Fields, Places
  <2>2. ApprovalInv' /\ ResumeInv'
    BY <1>0, <1>a, <1>2, <2>0, SMTT(20)
       DEF ShellInv, ShellTypes, ApprovalInv, ResumeInv, LoopInv, TurnInv, Waits, BeforeRaise,
           Cli!Runtime, Cli!Interrupting, ShellTyped, TurnTyped, LogTyped, Fields, Places,
           TurnFields, TurnPlaces, Cli!NoTurn, Cli!NoRequest, ShellBounds
  <2>3. LoopInv'
    BY <1>0, <1>a, <1>2, <2>0, SMTT(20)
       DEF ShellInv, ShellTypes, ApprovalInv, ResumeInv, LoopInv, TurnInv, Waits, BeforeRaise,
           Cli!Runtime, Cli!Interrupting, ShellTyped, TurnTyped, LogTyped, Fields, Places,
           TurnFields, TurnPlaces, Cli!NoTurn, Cli!NoRequest, ShellBounds
  <2>4. TurnInv'
    BY <1>0, <1>a, <1>2, <2>0, SMTT(20)
       DEF ShellInv, ShellTypes, ApprovalInv, ResumeInv, LoopInv, TurnInv, Waits, BeforeRaise,
           Cli!Runtime, Cli!Interrupting, ShellTyped, TurnTyped, LogTyped, Fields, Places,
           TurnFields, TurnPlaces, Cli!NoTurn, Cli!NoRequest, ShellBounds
  <2> QED
    BY <2>1, <2>2, <2>3, <2>4 DEF ShellInv
<1>3. CASE shell.state # "running_turn" /\ shell.at \in {"prompt", "approval", "question"}
  <2>0. shell' = [shell EXCEPT !.exit = TRUE, !.at = "loop"]
    BY <1>3, SMTT(20) DEF Cli!RequestInterrupt
  <2>1. ShellTypes'
    BY <1>0, <1>a, <1>3, <2>0, SMTT(20)
       DEF ShellInv, ShellTypes, ShellTyped, TurnTyped, LogTyped, Fields, Places, TurnFields,
           TurnPlaces, Cli!NoTurn, Cli!NoRequest, ShellBounds
  <2>2. ApprovalInv' /\ ResumeInv'
    BY <1>0, <1>a, <1>3, <2>0, SMTT(20)
       DEF ShellInv, ShellTypes, ApprovalInv, ResumeInv, LoopInv, TurnInv, Waits, BeforeRaise,
           Cli!Runtime, Cli!Interrupting, ShellTyped, TurnTyped, LogTyped, Fields, Places,
           TurnFields, TurnPlaces, Cli!NoTurn, Cli!NoRequest, ShellBounds
  <2>3. LoopInv'
    BY <1>0, <1>a, <1>3, <2>0, SMTT(20)
       DEF ShellInv, ShellTypes, ApprovalInv, ResumeInv, LoopInv, TurnInv, Waits, BeforeRaise,
           Cli!Runtime, Cli!Interrupting, ShellTyped, TurnTyped, LogTyped, Fields, Places,
           TurnFields, TurnPlaces, Cli!NoTurn, Cli!NoRequest, ShellBounds
  <2>4. TurnInv'
    BY <1>0, <1>a, <1>3, <2>0, SMTT(20)
       DEF ShellInv, ShellTypes, ApprovalInv, ResumeInv, LoopInv, TurnInv, Waits, BeforeRaise,
           Cli!Runtime, Cli!Interrupting, ShellTyped, TurnTyped, LogTyped, Fields, Places,
           TurnFields, TurnPlaces, Cli!NoTurn, Cli!NoRequest, ShellBounds
  <2> QED
    BY <2>1, <2>2, <2>3, <2>4 DEF ShellInv
<1>4. CASE shell.state # "running_turn" /\ shell.at \notin {"prompt", "approval", "question"}
  <2>0. shell' = [shell EXCEPT !.exit = TRUE, !.at = shell.at]
    BY <1>4, SMTT(20) DEF Cli!RequestInterrupt
  <2>1. ShellTypes'
    BY <1>0, <1>a, <1>4, <2>0, SMTT(20)
       DEF ShellInv, ShellTypes, ShellTyped, TurnTyped, LogTyped, Fields, Places, TurnFields,
           TurnPlaces, Cli!NoTurn, Cli!NoRequest, ShellBounds
  <2>2. ApprovalInv' /\ ResumeInv'
    BY <1>0, <1>a, <1>4, <2>0, SMTT(20)
       DEF ShellInv, ShellTypes, ApprovalInv, ResumeInv, LoopInv, TurnInv, Waits, BeforeRaise,
           Cli!Runtime, Cli!Interrupting, ShellTyped, TurnTyped, LogTyped, Fields, Places,
           TurnFields, TurnPlaces, Cli!NoTurn, Cli!NoRequest, ShellBounds
  <2>3. LoopInv'
    BY <1>0, <1>a, <1>4, <2>0, SMTT(20)
       DEF ShellInv, ShellTypes, ApprovalInv, ResumeInv, LoopInv, TurnInv, Waits, BeforeRaise,
           Cli!Runtime, Cli!Interrupting, ShellTyped, TurnTyped, LogTyped, Fields, Places,
           TurnFields, TurnPlaces, Cli!NoTurn, Cli!NoRequest, ShellBounds
  <2>4. TurnInv'
    BY <1>0, <1>a, <1>4, <2>0, SMTT(20)
       DEF ShellInv, ShellTypes, ApprovalInv, ResumeInv, LoopInv, TurnInv, Waits, BeforeRaise,
           Cli!Runtime, Cli!Interrupting, ShellTyped, TurnTyped, LogTyped, Fields, Places,
           TurnFields, TurnPlaces, Cli!NoTurn, Cli!NoRequest, ShellBounds
  <2> QED
    BY <2>1, <2>2, <2>3, <2>4 DEF ShellInv
<1> QED
  BY <1>1, <1>2, <1>3, <1>4 DEF Cli!RequestInterrupt

LEMMA ResolveKeeps ==
    ASSUME ShellBounds, ShellInv, Cli!Resolve
    PROVE  ShellInv'
<1>0. shell.at = "resolving" /\ status' = status /\ ShellTyped /\ TurnTyped /\ LogTyped
  BY DEF Cli!Resolve, Cli!ShellAt, ShellInv, ShellTypes
<1>1. CASE log[shell.approval].status = "pending"
  <2>1. /\ log' = [log EXCEPT ![shell.approval].status = "closed"]
        /\ turn' = [at |-> "check", kind |-> "continue", request |-> None, raised |-> None,
                    aborted |-> FALSE, outcome |-> None]
        /\ shell' = [[shell EXCEPT !.approval = None] EXCEPT
                        !.at = "turn", !.state = "running_turn", !.interrupted = FALSE]
    BY <1>1 DEF Cli!Resolve, Cli!Call
  <2>2. shell.approval \in Cli!Request /\ shell.session /\ (shell.question = None => Cli!Unsettled = {})
    BY <1>0 DEF ShellInv, LoopInv, ShellTyped
  <2>3. Settles /\ LogTyped' /\ shell.approval \notin Cli!Pending("approval")'
    BY <1>0, <2>1, <2>2, ClosingSettles
  <2>4. Cli!Pending("approval")' = {}
    BY <1>0, <2>2, <2>3 DEF ShellInv, ApprovalInv, Settles, TurnInv
  <2>5. shell.question = None => Cli!Unsettled' = {} /\ NoneTaken'
    BY <2>2, <2>3 DEF Settles, NoneTaken
  <2>6. /\ shell'.at = "turn" /\ shell'.approval = None /\ shell'.question = shell.question
        /\ shell'.session = shell.session
    BY <1>0, <2>1, SMTT(20) DEF ShellTyped, Fields
  <2>7. ShellTyped'
    BY <1>0, <2>1, SMTT(20) DEF ShellTyped, Fields, Places
  <2>8. TurnTyped'
    BY <2>1, SMTT(20) DEF TurnTyped, TurnFields, TurnPlaces
  <2>9. ApprovalInv' /\ ResumeInv' /\ LoopInv'
    BY <2>2, <2>4, <2>6, SMTT(20) DEF ApprovalInv, ResumeInv, LoopInv
  <2>10. TurnInv'
    BY <2>1, <2>2, <2>5, <2>6, SMTT(20) DEF TurnInv, BeforeRaise
  <2> QED
    BY <2>3, <2>7, <2>8, <2>9, <2>10 DEF ShellInv, ShellTypes
<1>2. CASE log[shell.approval].status # "pending"
  <2>1. /\ shell' = [shell EXCEPT !.at = IF shell.command THEN "loop" ELSE "thrown"]
        /\ log' = log /\ turn' = turn
    BY <1>2 DEF Cli!Resolve
  <2> DEFINE place == IF shell.command THEN "loop" ELSE "thrown"
  <2>2. /\ shell'.at = place /\ shell'.approval = shell.approval /\ shell'.question = shell.question
        /\ shell'.session = shell.session /\ place \in {"loop", "thrown"}
    BY <1>0, <2>1, SMTT(20) DEF ShellTyped, Fields
  <2>3. ShellTypes'
    BY <1>0, <2>1, SMTT(20) DEF ShellTypes, ShellTyped, TurnTyped, LogTyped, Fields, Places
  <2>4. Cli!Unsettled' = Cli!Unsettled /\ Cli!Pending("approval")' = Cli!Pending("approval") /\ (NoneTaken' <=> NoneTaken)
        /\ (Cli!Unsettled = {} => NoneTaken)
    BY <2>1 DEF Cli!Unsettled, Cli!Pending, NoneTaken
  <2> HIDE DEF place
  <2>5. ApprovalInv' /\ ResumeInv'
    BY <1>0, <2>1, <2>2, <2>4, SMTT(20) DEF ShellInv, ApprovalInv, ResumeInv, LoopInv, TurnInv
  <2>6. LoopInv' /\ TurnInv'
    BY <1>0, <2>1, <2>2, <2>4, SMTT(20) DEF ShellInv, LoopInv, TurnInv, Waits
  <2> QED
    BY <2>3, <2>5, <2>6 DEF ShellInv
<1> QED
  BY <1>1, <1>2

LEMMA ShellWorkKeeps ==
    ASSUME ShellBounds, ShellInv, Cli!Work
    PROVE  ShellInv'
<1>0. /\ turn.at = "work" /\ UNCHANGED <<shell, status>>
      /\ ShellTyped /\ ShellTyped' /\ TurnTyped /\ LogTyped
      /\ shell.at = "turn" /\ shell.approval = None /\ shell.session
      /\ status \in {"running", "interrupted"}
  BY SMTT(20) DEF Cli!Work, Cli!TurnAt, ShellInv, ShellTypes, ShellTyped, TurnInv
<1>1. CASE \E place \in {"finish", "error", "ask"} : log' = log /\ turn' = [turn EXCEPT !.at = place]
  <2>1. PICK place \in {"finish", "error", "ask"} : log' = log /\ turn' = [turn EXCEPT !.at = place]
    BY <1>1
  <2>2. turn'.at = place /\ turn'.kind = turn.kind /\ turn'.raised = turn.raised
    BY <1>0, <2>1, SMTT(20) DEF TurnTyped, TurnFields, Cli!NoTurn
  <2>3. TurnTyped' /\ LogTyped'
    BY <1>0, <2>1, SMTT(20) DEF TurnTyped, TurnFields, TurnPlaces, Cli!NoTurn, LogTyped
  <2>4. Cli!Unsettled' = Cli!Unsettled /\ Cli!Pending("approval")' = Cli!Pending("approval") /\ (NoneTaken' <=> NoneTaken)
    BY <2>1 DEF Cli!Unsettled, Cli!Pending, NoneTaken
  <2>5. ApprovalInv' /\ ResumeInv' /\ LoopInv'
    BY <1>0, <2>1, <2>2, <2>4, SMTT(20) DEF ShellInv, ApprovalInv, ResumeInv, LoopInv, TurnInv
  <2>6. TurnInv'
    BY <1>0, <2>1, <2>2, <2>4, SMTT(20) DEF ShellInv, TurnInv, BeforeRaise, Waits
  <2> QED
    BY <1>0, <2>3, <2>5, <2>6 DEF ShellInv, ShellTypes
<1>2. CASE Cli!Raise("approval", "denied")
  <2>1. PICK r \in Cli!Request \ Cli!Raised :
                 /\ log' = [log EXCEPT ![r] = [kind |-> "approval", status |-> "pending"]]
                 /\ turn' = [turn EXCEPT !.at = "denied", !.raised = r]
    BY <1>2 DEF Cli!Raise
  <2>2. turn'.at = "denied" /\ turn'.kind = turn.kind /\ turn'.raised = r
    BY <1>0, <2>1, SMTT(20) DEF TurnTyped, TurnFields, Cli!NoTurn
  <2>3. TurnTyped'
    BY <1>0, <2>1, SMTT(20) DEF TurnTyped, TurnFields, TurnPlaces, Cli!NoTurn
  <2>4. LogTyped' /\ log[r].status = "none" /\ log'[r] = [kind |-> "approval", status |-> "pending"]
        /\ \A q \in Cli!Request \ {r} : log'[q] = log[q]
    BY <1>0, <2>1, SMTT(20) DEF LogTyped, Cli!Raised
  <2>5. Cli!Unsettled' = Cli!Unsettled /\ (NoneTaken' <=> NoneTaken)
    BY <2>4, SMTT(20) DEF Cli!Unsettled, NoneTaken
  <2>6. Cli!Pending("approval") = {}
    BY <1>0 DEF ShellInv, ApprovalInv, Cli!Pending, ShellBounds, Cli!Request
  <2>7. Cli!Pending("approval")' \subseteq {r}
    BY <2>4, <2>6, SMTT(20) DEF Cli!Pending
  <2>8. ApprovalInv' /\ ResumeInv' /\ LoopInv'
    BY <1>0, <2>2, <2>7, SMTT(20) DEF ApprovalInv, ResumeInv, LoopInv
  <2>9. TurnInv'
    BY <1>0, <2>1, <2>2, <2>5, SMTT(20)
       DEF ShellInv, TurnInv, BeforeRaise, Waits, ShellBounds, Cli!Request
  <2> QED
    BY <1>0, <2>3, <2>4, <2>8, <2>9 DEF ShellInv, ShellTypes
<1> QED
  BY <1>1, <1>2, Zenon DEF Cli!Work

LEMMA EndFailedTurnKeeps ==
    ASSUME ShellBounds, ShellInv, Cli!EndFailedTurn
    PROVE  ShellInv'
<1>0. /\ turn.at \in {"error", "denied"} /\ turn.outcome # None /\ shell' = shell
      /\ ShellTyped /\ ShellTyped' /\ TurnTyped /\ LogTyped
      /\ shell.at = "turn" /\ shell.approval = None /\ shell.session
      /\ turn' = [turn EXCEPT !.at = IF turn.at = "denied" THEN "permission" ELSE "thrown"]
  BY SMTT(20) DEF Cli!EndFailedTurn, Cli!TurnAt, ShellInv, ShellTypes, ShellTyped, TurnInv
<1>1. /\ turn'.kind = turn.kind /\ turn'.raised = turn.raised /\ TurnTyped'
      /\ turn.at = "denied" => turn'.at = "permission"
      /\ turn.at = "error" => turn'.at = "thrown"
  <2>1. CASE turn.at = "denied"
    BY <1>0, <2>1, SMTT(20) DEF TurnTyped, TurnFields, TurnPlaces, Cli!NoTurn
  <2>2. CASE turn.at = "error"
    BY <1>0, <2>2, SMTT(20) DEF TurnTyped, TurnFields, TurnPlaces, Cli!NoTurn
  <2> QED
    BY <1>0, <2>1, <2>2
<1>2. LogTyped' /\ Settles
  <2>1. log' = log \/ (turn.kind = "answer" /\ log' = [log EXCEPT ![turn.request].status = "closed"])
    BY SMTT(20) DEF Cli!EndFailedTurn
  <2>2. CASE log' = log
    BY <1>0, <2>2 DEF LogTyped, Settles, Cli!Unsettled, Cli!Pending, NoneTaken
  <2>3. CASE log' = [log EXCEPT ![turn.request].status = "closed"] /\ turn.request \in Cli!Request
    BY <1>0, <2>3, ClosingSettles
  <2>4. CASE log' = [log EXCEPT ![turn.request].status = "closed"] /\ turn.request \notin Cli!Request
    <3>1. log' = log
      BY <1>0, <2>4, SMTT(20) DEF LogTyped
    <3> QED
      BY <2>2, <3>1
  <2> QED
    BY <2>1, <2>2, <2>3, <2>4
<1>3. turn.kind # "answer" => log' = log /\ status' \in {"interrupted", "failed", "ask_permission"}
  BY <1>0, SMTT(20) DEF Cli!EndFailedTurn, TurnTyped, Cli!NoTurn
<1>4. ApprovalInv' /\ ResumeInv' /\ LoopInv'
  BY <1>0, <1>1, <1>2, SMTT(20) DEF ShellInv, ApprovalInv, ResumeInv, LoopInv, TurnInv, Settles
<1>5. TurnInv'
  BY <1>0, <1>1, <1>2, <1>3, SMTT(20) DEF ShellInv, TurnInv, BeforeRaise, Waits, Settles
<1> QED
  BY <1>0, <1>1, <1>2, <1>4, <1>5 DEF ShellInv, ShellTypes

LEMMA InterruptRecordKeeps ==
    ASSUME ShellBounds, ShellInv, Cli!InterruptRecord
    PROVE  ShellInv'
<1>0. UNCHANGED <<shell, turn, status>> /\ ShellTypes /\ LogTyped
  BY DEF Cli!InterruptRecord, ShellInv, ShellTypes
<1>1. LogTyped' /\ Settles
  BY <1>0, SMTT(30)
     DEF Cli!InterruptRecord, LogTyped, Settles, Cli!Unsettled, Cli!Pending, NoneTaken
<1>2. ShellTypes'
  BY <1>0, <1>1 DEF ShellTypes, ShellTyped, TurnTyped
<1>3. ApprovalInv' /\ ResumeInv'
  BY <1>0, <1>1, SMTT(20) DEF ShellInv, ApprovalInv, ResumeInv, Settles
<1>4. LoopInv'
  BY <1>0, <1>1, SMTT(20) DEF ShellInv, LoopInv, Settles, Waits
<1>5. TurnInv'
  BY <1>0, <1>1, SMTT(20) DEF ShellInv, TurnInv, Settles, Waits
<1> QED
  BY <1>2, <1>3, <1>4, <1>5 DEF ShellInv

LEMMA OtherFrontEndKeeps ==
    ASSUME ShellBounds, ShellInv, Cli!OtherFrontEnd
    PROVE  ShellInv'
<1>0. UNCHANGED <<shell, turn>> /\ ShellTypes /\ LogTyped /\ status' = "waiting_for_user"
  BY DEF Cli!OtherFrontEnd, ShellInv, ShellTypes
<1>1. PICK r \in Cli!Request :
               /\ \/ r \in Cli!Pending("question") /\ status = "waiting_for_user"
                  \/ r \in Cli!Pending("approval") /\ status = "ask_permission"
               /\ log' = [log EXCEPT ![r].status = "closed"]
  BY DEF Cli!OtherFrontEnd
<1>2. LogTyped' /\ Settles
  BY <1>0, <1>1, ClosingSettles
<1>3. ShellTypes'
  BY <1>0, <1>2 DEF ShellTypes, ShellTyped, TurnTyped
<1>4. Waits \/ (status = "ask_permission" /\ Cli!Pending("approval") # {})
  BY <1>1 DEF Waits, Cli!Pending, Cli!Unsettled
<1>5. shell.session /\ shell.approval = None /\ turn.at \notin {"denied", "permission"} => Cli!Pending("approval") = {}
  BY DEF ShellInv, ApprovalInv, Cli!Pending, ShellBounds, Cli!Request
<1>6. ApprovalInv' /\ ResumeInv'
  BY <1>0, <1>2, SMTT(20) DEF ShellInv, ApprovalInv, ResumeInv, Settles
<1>7. LoopInv'
  BY <1>0, <1>2, <1>4, <1>5, SMTT(20) DEF ShellInv, LoopInv, TurnInv, Settles, Waits
<1>8. TurnInv'
  BY <1>0, <1>2, <1>4, <1>5, SMTT(20) DEF ShellInv, TurnInv, Settles, Waits, BeforeRaise
<1> QED
  BY <1>3, <1>6, <1>7, <1>8 DEF ShellInv

\* Every step of the shell, its turn, its interrupts and the other front end keeps the invariant.
LEMMA ShellKeeps ==
    ASSUME ShellBounds, ShellInv, Cli!Next
    PROVE  ShellInv'
<1> USE DEF ShellBounds, Cli!Runtime, Cli!Interrupting, Cli!ShellAt, Cli!TurnAt
<1>0. ShellTyped /\ TurnTyped /\ LogTyped
  BY DEF ShellInv, ShellTypes
<1>1. CASE Cli!Loop
  BY <1>1, LoopKeeps
<1>2. CASE Cli!Prompt
  <2>1. ShellTyped'
    BY <1>0, <1>2, SMTT(20) DEF Cli!Prompt, Cli!Call, ShellTyped, Fields, Places
  <2>2. TurnTyped'
    BY <1>0, <1>2, SMTT(20) DEF Cli!Prompt, Cli!Call, TurnTyped, TurnFields, TurnPlaces, Cli!NoTurn
  <2>3. LogTyped'
    BY <1>0, <1>2, SMTT(20) DEF Cli!Prompt, Cli!Call, LogTyped, Cli!NoRequest
  <2>4. ShellTypes'
    BY <2>1, <2>2, <2>3 DEF ShellTypes
  <2>5. ApprovalInv'
    BY <1>2, <2>4, SMTT(30)
       DEF Cli!Prompt, Cli!Call, ShellInv, ShellTypes, ApprovalInv, ResumeInv, LoopInv, TurnInv,
           Waits, BeforeRaise, NoneTaken, Cli!Unsettled, Cli!Pending, ShellTyped, TurnTyped,
           LogTyped, Fields, Places, TurnFields, TurnPlaces, Cli!NoTurn, Cli!NoRequest
  <2>6. ResumeInv'
    BY <1>2, <2>4, SMTT(30)
       DEF Cli!Prompt, Cli!Call, ShellInv, ShellTypes, ApprovalInv, ResumeInv, LoopInv, TurnInv,
           Waits, BeforeRaise, NoneTaken, Cli!Unsettled, Cli!Pending, ShellTyped, TurnTyped,
           LogTyped, Fields, Places, TurnFields, TurnPlaces, Cli!NoTurn, Cli!NoRequest
  <2>7. LoopInv'
    BY <1>2, <2>4, SMTT(30)
       DEF Cli!Prompt, Cli!Call, ShellInv, ShellTypes, ApprovalInv, ResumeInv, LoopInv, TurnInv,
           Waits, BeforeRaise, NoneTaken, Cli!Unsettled, Cli!Pending, ShellTyped, TurnTyped,
           LogTyped, Fields, Places, TurnFields, TurnPlaces, Cli!NoTurn, Cli!NoRequest
  <2>8. TurnInv'
    BY <1>2, <2>4, SMTT(30)
       DEF Cli!Prompt, Cli!Call, ShellInv, ShellTypes, ApprovalInv, ResumeInv, LoopInv, TurnInv,
           Waits, BeforeRaise, NoneTaken, Cli!Unsettled, Cli!Pending, ShellTyped, TurnTyped,
           LogTyped, Fields, Places, TurnFields, TurnPlaces, Cli!NoTurn, Cli!NoRequest
  <2> QED
    BY <2>4, <2>5, <2>6, <2>7, <2>8 DEF ShellInv
<1>3. CASE Cli!Command
  BY <1>3, CommandKeeps
<1>4. CASE Cli!Inspect
  BY <1>4, InspectKeeps
<1>5. CASE Cli!InspectFails
  <2>1. ShellTyped'
    BY <1>0, <1>5, SMTT(20) DEF Cli!InspectFails, ShellTyped, Fields, Places
  <2>2. TurnTyped'
    BY <1>0, <1>5, SMTT(20) DEF Cli!InspectFails, TurnTyped, TurnFields, TurnPlaces, Cli!NoTurn
  <2>3. LogTyped'
    BY <1>0, <1>5, SMTT(20) DEF Cli!InspectFails, LogTyped, Cli!NoRequest
  <2>4. ShellTypes'
    BY <2>1, <2>2, <2>3 DEF ShellTypes
  <2>5. ApprovalInv'
    BY <1>5, <2>4, SMTT(30)
       DEF Cli!InspectFails, ShellInv, ShellTypes, ApprovalInv, ResumeInv, LoopInv, TurnInv, Waits,
           BeforeRaise, NoneTaken, Cli!Unsettled, Cli!Pending, ShellTyped, TurnTyped, LogTyped,
           Fields, Places, TurnFields, TurnPlaces, Cli!NoTurn, Cli!NoRequest
  <2>6. ResumeInv'
    BY <1>5, <2>4, SMTT(30)
       DEF Cli!InspectFails, ShellInv, ShellTypes, ApprovalInv, ResumeInv, LoopInv, TurnInv, Waits,
           BeforeRaise, NoneTaken, Cli!Unsettled, Cli!Pending, ShellTyped, TurnTyped, LogTyped,
           Fields, Places, TurnFields, TurnPlaces, Cli!NoTurn, Cli!NoRequest
  <2>7. LoopInv'
    BY <1>5, <2>4, SMTT(30)
       DEF Cli!InspectFails, ShellInv, ShellTypes, ApprovalInv, ResumeInv, LoopInv, TurnInv, Waits,
           BeforeRaise, NoneTaken, Cli!Unsettled, Cli!Pending, ShellTyped, TurnTyped, LogTyped,
           Fields, Places, TurnFields, TurnPlaces, Cli!NoTurn, Cli!NoRequest
  <2>8. TurnInv'
    BY <1>5, <2>4, SMTT(30)
       DEF Cli!InspectFails, ShellInv, ShellTypes, ApprovalInv, ResumeInv, LoopInv, TurnInv, Waits,
           BeforeRaise, NoneTaken, Cli!Unsettled, Cli!Pending, ShellTyped, TurnTyped, LogTyped,
           Fields, Places, TurnFields, TurnPlaces, Cli!NoTurn, Cli!NoRequest
  <2> QED
    BY <2>4, <2>5, <2>6, <2>7, <2>8 DEF ShellInv
<1>6. CASE Cli!Decide
  <2>1. ShellTyped'
    BY <1>0, <1>6, SMTT(20) DEF Cli!Decide, ShellTyped, Fields, Places
  <2>2. TurnTyped'
    BY <1>0, <1>6, SMTT(20) DEF Cli!Decide, TurnTyped, TurnFields, TurnPlaces, Cli!NoTurn
  <2>3. LogTyped'
    BY <1>0, <1>6, SMTT(20) DEF Cli!Decide, LogTyped, Cli!NoRequest
  <2>4. ShellTypes'
    BY <2>1, <2>2, <2>3 DEF ShellTypes
  <2>5. ApprovalInv'
    BY <1>6, <2>4, SMTT(30)
       DEF Cli!Decide, ShellInv, ShellTypes, ApprovalInv, ResumeInv, LoopInv, TurnInv, Waits,
           BeforeRaise, NoneTaken, Cli!Unsettled, Cli!Pending, ShellTyped, TurnTyped, LogTyped,
           Fields, Places, TurnFields, TurnPlaces, Cli!NoTurn, Cli!NoRequest
  <2>6. ResumeInv'
    BY <1>6, <2>4, SMTT(30)
       DEF Cli!Decide, ShellInv, ShellTypes, ApprovalInv, ResumeInv, LoopInv, TurnInv, Waits,
           BeforeRaise, NoneTaken, Cli!Unsettled, Cli!Pending, ShellTyped, TurnTyped, LogTyped,
           Fields, Places, TurnFields, TurnPlaces, Cli!NoTurn, Cli!NoRequest
  <2>7. LoopInv'
    BY <1>6, <2>4, SMTT(30)
       DEF Cli!Decide, ShellInv, ShellTypes, ApprovalInv, ResumeInv, LoopInv, TurnInv, Waits,
           BeforeRaise, NoneTaken, Cli!Unsettled, Cli!Pending, ShellTyped, TurnTyped, LogTyped,
           Fields, Places, TurnFields, TurnPlaces, Cli!NoTurn, Cli!NoRequest
  <2>8. TurnInv'
    BY <1>6, <2>4, SMTT(30)
       DEF Cli!Decide, ShellInv, ShellTypes, ApprovalInv, ResumeInv, LoopInv, TurnInv, Waits,
           BeforeRaise, NoneTaken, Cli!Unsettled, Cli!Pending, ShellTyped, TurnTyped, LogTyped,
           Fields, Places, TurnFields, TurnPlaces, Cli!NoTurn, Cli!NoRequest
  <2> QED
    BY <2>4, <2>5, <2>6, <2>7, <2>8 DEF ShellInv
<1>7. CASE Cli!Resolve
  BY <1>7, ResolveKeeps
<1>8. CASE Cli!Reply
  <2>1. ShellTyped'
    BY <1>0, <1>8, SMTT(20) DEF ShellTyped, Fields, Places, Cli!Reply, Cli!Call
  <2>2. TurnTyped'
    <3>1. PICK kind \in {"answer", "cancel"} : 
                 turn' = [at |-> "check", kind |-> kind, request |-> shell.question, raised |-> None,
                          aborted |-> FALSE, outcome |-> None]
      BY <1>8 DEF Cli!Reply, Cli!Call
    <3> QED
      BY <1>0, <3>1, SMTT(20) DEF ShellTyped, TurnTyped, TurnFields, TurnPlaces
  <2>3. LogTyped'
    BY <1>0, <1>8, SMTT(20) DEF Cli!Reply, Cli!Call, LogTyped, Cli!NoRequest
  <2>4. ShellTypes'
    BY <2>1, <2>2, <2>3 DEF ShellTypes
  <2>5. ApprovalInv'
    BY <1>8, <2>4, SMTT(30)
       DEF Cli!Reply, Cli!Call, ShellInv, ShellTypes, ApprovalInv, ResumeInv, LoopInv, TurnInv,
           Waits, BeforeRaise, NoneTaken, Cli!Unsettled, Cli!Pending, ShellTyped, TurnTyped,
           LogTyped, Fields, Places, TurnFields, TurnPlaces, Cli!NoTurn, Cli!NoRequest
  <2>6. ResumeInv'
    BY <1>8, <2>4, SMTT(30)
       DEF Cli!Reply, Cli!Call, ShellInv, ShellTypes, ApprovalInv, ResumeInv, LoopInv, TurnInv,
           Waits, BeforeRaise, NoneTaken, Cli!Unsettled, Cli!Pending, ShellTyped, TurnTyped,
           LogTyped, Fields, Places, TurnFields, TurnPlaces, Cli!NoTurn, Cli!NoRequest
  <2>7. LoopInv'
    BY <1>8, <2>4, SMTT(30)
       DEF Cli!Reply, Cli!Call, ShellInv, ShellTypes, ApprovalInv, ResumeInv, LoopInv, TurnInv,
           Waits, BeforeRaise, NoneTaken, Cli!Unsettled, Cli!Pending, ShellTyped, TurnTyped,
           LogTyped, Fields, Places, TurnFields, TurnPlaces, Cli!NoTurn, Cli!NoRequest
  <2>8. TurnInv'
    BY <1>8, <2>4, SMTT(30)
       DEF Cli!Reply, Cli!Call, ShellInv, ShellTypes, ApprovalInv, ResumeInv, LoopInv, TurnInv,
           Waits, BeforeRaise, NoneTaken, Cli!Unsettled, Cli!Pending, ShellTyped, TurnTyped,
           LogTyped, Fields, Places, TurnFields, TurnPlaces, Cli!NoTurn, Cli!NoRequest
  <2> QED
    BY <2>4, <2>5, <2>6, <2>7, <2>8 DEF ShellInv
<1>9. CASE Cli!InputEnds
  <2>1. ShellTyped'
    BY <1>0, <1>9, SMTT(20) DEF Cli!InputEnds, ShellTyped, Fields, Places
  <2>2. TurnTyped'
    BY <1>0, <1>9, SMTT(20) DEF Cli!InputEnds, TurnTyped, TurnFields, TurnPlaces, Cli!NoTurn
  <2>3. LogTyped'
    BY <1>0, <1>9, SMTT(20) DEF Cli!InputEnds, LogTyped, Cli!NoRequest
  <2>4. ShellTypes'
    BY <2>1, <2>2, <2>3 DEF ShellTypes
  <2>5. ApprovalInv'
    BY <1>9, <2>4, SMTT(30)
       DEF Cli!InputEnds, ShellInv, ShellTypes, ApprovalInv, ResumeInv, LoopInv, TurnInv, Waits,
           BeforeRaise, NoneTaken, Cli!Unsettled, Cli!Pending, ShellTyped, TurnTyped, LogTyped,
           Fields, Places, TurnFields, TurnPlaces, Cli!NoTurn, Cli!NoRequest
  <2>6. ResumeInv'
    BY <1>9, <2>4, SMTT(30)
       DEF Cli!InputEnds, ShellInv, ShellTypes, ApprovalInv, ResumeInv, LoopInv, TurnInv, Waits,
           BeforeRaise, NoneTaken, Cli!Unsettled, Cli!Pending, ShellTyped, TurnTyped, LogTyped,
           Fields, Places, TurnFields, TurnPlaces, Cli!NoTurn, Cli!NoRequest
  <2>7. LoopInv'
    BY <1>9, <2>4, SMTT(30)
       DEF Cli!InputEnds, ShellInv, ShellTypes, ApprovalInv, ResumeInv, LoopInv, TurnInv, Waits,
           BeforeRaise, NoneTaken, Cli!Unsettled, Cli!Pending, ShellTyped, TurnTyped, LogTyped,
           Fields, Places, TurnFields, TurnPlaces, Cli!NoTurn, Cli!NoRequest
  <2>8. TurnInv'
    BY <1>9, <2>4, SMTT(30)
       DEF Cli!InputEnds, ShellInv, ShellTypes, ApprovalInv, ResumeInv, LoopInv, TurnInv, Waits,
           BeforeRaise, NoneTaken, Cli!Unsettled, Cli!Pending, ShellTyped, TurnTyped, LogTyped,
           Fields, Places, TurnFields, TurnPlaces, Cli!NoTurn, Cli!NoRequest
  <2> QED
    BY <2>4, <2>5, <2>6, <2>7, <2>8 DEF ShellInv
<1>10. CASE Cli!CheckTurn
  <2>1. ShellTyped'
    <3>1. CASE shell' = [shell EXCEPT !.session = TRUE]
      BY <1>0, <3>1, SMTT(20) DEF ShellTyped, Fields, Places
    <3>2. CASE shell' = shell
      BY <1>0, <3>2 DEF ShellTyped
    <3> QED
      BY <1>10, <3>1, <3>2, Zenon DEF Cli!CheckTurn
  <2>2. TurnTyped'
    BY <1>0, <1>10, SMTT(20)
       DEF Cli!CheckTurn, Cli!Answerable, TurnTyped, TurnFields, TurnPlaces, Cli!NoTurn
  <2>3. LogTyped'
    BY <1>0, <1>10, SMTT(20) DEF Cli!CheckTurn, Cli!Answerable, LogTyped, Cli!NoRequest
  <2>4. ShellTypes'
    BY <2>1, <2>2, <2>3 DEF ShellTypes
  <2>5. ApprovalInv'
    BY <1>10, <2>4, SMTT(30)
       DEF Cli!CheckTurn, Cli!Answerable, ShellInv, ShellTypes, ApprovalInv, ResumeInv, LoopInv,
           TurnInv, Waits, BeforeRaise, NoneTaken, Cli!Unsettled, Cli!Pending, ShellTyped,
           TurnTyped, LogTyped, Fields, Places, TurnFields, TurnPlaces, Cli!NoTurn, Cli!NoRequest
  <2>6. ResumeInv'
    BY <1>10, <2>4, SMTT(30)
       DEF Cli!CheckTurn, Cli!Answerable, ShellInv, ShellTypes, ApprovalInv, ResumeInv, LoopInv,
           TurnInv, Waits, BeforeRaise, NoneTaken, Cli!Unsettled, Cli!Pending, ShellTyped,
           TurnTyped, LogTyped, Fields, Places, TurnFields, TurnPlaces, Cli!NoTurn, Cli!NoRequest
  <2>7. LoopInv'
    BY <1>10, <2>4, SMTT(30)
       DEF Cli!CheckTurn, Cli!Answerable, ShellInv, ShellTypes, ApprovalInv, ResumeInv, LoopInv,
           TurnInv, Waits, BeforeRaise, NoneTaken, Cli!Unsettled, Cli!Pending, ShellTyped,
           TurnTyped, LogTyped, Fields, Places, TurnFields, TurnPlaces, Cli!NoTurn, Cli!NoRequest
  <2>8. TurnInv'
    BY <1>10, <2>4, SMTT(30)
       DEF Cli!CheckTurn, Cli!Answerable, ShellInv, ShellTypes, ApprovalInv, ResumeInv, LoopInv,
           TurnInv, Waits, BeforeRaise, NoneTaken, Cli!Unsettled, Cli!Pending, ShellTyped,
           TurnTyped, LogTyped, Fields, Places, TurnFields, TurnPlaces, Cli!NoTurn, Cli!NoRequest
  <2> QED
    BY <2>4, <2>5, <2>6, <2>7, <2>8 DEF ShellInv
<1>11. CASE Cli!RefuseTurn
  <2>1. ShellTyped'
    BY <1>0, <1>11, SMTT(20) DEF Cli!RefuseTurn, Cli!Answerable, ShellTyped, Fields, Places
  <2>2. TurnTyped'
    BY <1>0, <1>11, SMTT(20)
       DEF Cli!RefuseTurn, Cli!Answerable, TurnTyped, TurnFields, TurnPlaces, Cli!NoTurn
  <2>3. LogTyped'
    BY <1>0, <1>11, SMTT(20) DEF Cli!RefuseTurn, Cli!Answerable, LogTyped, Cli!NoRequest
  <2>4. ShellTypes'
    BY <2>1, <2>2, <2>3 DEF ShellTypes
  <2>5. ApprovalInv'
    BY <1>11, <2>4, SMTT(30)
       DEF Cli!RefuseTurn, Cli!Answerable, ShellInv, ShellTypes, ApprovalInv, ResumeInv, LoopInv,
           TurnInv, Waits, BeforeRaise, NoneTaken, Cli!Unsettled, Cli!Pending, ShellTyped,
           TurnTyped, LogTyped, Fields, Places, TurnFields, TurnPlaces, Cli!NoTurn, Cli!NoRequest
  <2>6. ResumeInv'
    BY <1>11, <2>4, SMTT(30)
       DEF Cli!RefuseTurn, Cli!Answerable, ShellInv, ShellTypes, ApprovalInv, ResumeInv, LoopInv,
           TurnInv, Waits, BeforeRaise, NoneTaken, Cli!Unsettled, Cli!Pending, ShellTyped,
           TurnTyped, LogTyped, Fields, Places, TurnFields, TurnPlaces, Cli!NoTurn, Cli!NoRequest
  <2>7. LoopInv'
    BY <1>11, <2>4, SMTT(30)
       DEF Cli!RefuseTurn, Cli!Answerable, ShellInv, ShellTypes, ApprovalInv, ResumeInv, LoopInv,
           TurnInv, Waits, BeforeRaise, NoneTaken, Cli!Unsettled, Cli!Pending, ShellTyped,
           TurnTyped, LogTyped, Fields, Places, TurnFields, TurnPlaces, Cli!NoTurn, Cli!NoRequest
  <2>8. TurnInv'
    BY <1>11, <2>4, SMTT(30)
       DEF Cli!RefuseTurn, Cli!Answerable, ShellInv, ShellTypes, ApprovalInv, ResumeInv, LoopInv,
           TurnInv, Waits, BeforeRaise, NoneTaken, Cli!Unsettled, Cli!Pending, ShellTyped,
           TurnTyped, LogTyped, Fields, Places, TurnFields, TurnPlaces, Cli!NoTurn, Cli!NoRequest
  <2> QED
    BY <2>4, <2>5, <2>6, <2>7, <2>8 DEF ShellInv
<1>12. CASE Cli!StartTurn
  <2>1. ShellTyped'
    BY <1>0, <1>12, SMTT(20) DEF Cli!StartTurn, ShellTyped, Fields, Places
  <2>2. TurnTyped'
    BY <1>0, <1>12, SMTT(20) DEF Cli!StartTurn, TurnTyped, TurnFields, TurnPlaces, Cli!NoTurn
  <2>3. LogTyped'
    BY <1>0, <1>12, SMTT(20) DEF Cli!StartTurn, LogTyped, Cli!NoRequest
  <2>4. ShellTypes'
    BY <2>1, <2>2, <2>3 DEF ShellTypes
  <2>5. ApprovalInv'
    BY <1>12, <2>4, SMTT(30)
       DEF Cli!StartTurn, ShellInv, ShellTypes, ApprovalInv, ResumeInv, LoopInv, TurnInv, Waits,
           BeforeRaise, NoneTaken, Cli!Unsettled, Cli!Pending, ShellTyped, TurnTyped, LogTyped,
           Fields, Places, TurnFields, TurnPlaces, Cli!NoTurn, Cli!NoRequest
  <2>6. ResumeInv'
    BY <1>12, <2>4, SMTT(30)
       DEF Cli!StartTurn, ShellInv, ShellTypes, ApprovalInv, ResumeInv, LoopInv, TurnInv, Waits,
           BeforeRaise, NoneTaken, Cli!Unsettled, Cli!Pending, ShellTyped, TurnTyped, LogTyped,
           Fields, Places, TurnFields, TurnPlaces, Cli!NoTurn, Cli!NoRequest
  <2>7. LoopInv'
    BY <1>12, <2>4, SMTT(30)
       DEF Cli!StartTurn, ShellInv, ShellTypes, ApprovalInv, ResumeInv, LoopInv, TurnInv, Waits,
           BeforeRaise, NoneTaken, Cli!Unsettled, Cli!Pending, ShellTyped, TurnTyped, LogTyped,
           Fields, Places, TurnFields, TurnPlaces, Cli!NoTurn, Cli!NoRequest
  <2>8. TurnInv'
    BY <1>12, <2>4, SMTT(30)
       DEF Cli!StartTurn, ShellInv, ShellTypes, ApprovalInv, ResumeInv, LoopInv, TurnInv, Waits,
           BeforeRaise, NoneTaken, Cli!Unsettled, Cli!Pending, ShellTyped, TurnTyped, LogTyped,
           Fields, Places, TurnFields, TurnPlaces, Cli!NoTurn, Cli!NoRequest
  <2> QED
    BY <2>4, <2>5, <2>6, <2>7, <2>8 DEF ShellInv
<1>13. CASE Cli!RegisterTurn
  <2>1. ShellTyped'
    BY <1>0, <1>13, SMTT(20) DEF Cli!RegisterTurn, ShellTyped, Fields, Places
  <2>2. TurnTyped'
    BY <1>0, <1>13, SMTT(20) DEF Cli!RegisterTurn, TurnTyped, TurnFields, TurnPlaces, Cli!NoTurn
  <2>3. LogTyped'
    BY <1>0, <1>13, SMTT(20) DEF Cli!RegisterTurn, LogTyped, Cli!NoRequest
  <2>4. ShellTypes'
    BY <2>1, <2>2, <2>3 DEF ShellTypes
  <2>5. ApprovalInv'
    BY <1>13, <2>4, SMTT(30)
       DEF Cli!RegisterTurn, ShellInv, ShellTypes, ApprovalInv, ResumeInv, LoopInv, TurnInv, Waits,
           BeforeRaise, NoneTaken, Cli!Unsettled, Cli!Pending, ShellTyped, TurnTyped, LogTyped,
           Fields, Places, TurnFields, TurnPlaces, Cli!NoTurn, Cli!NoRequest
  <2>6. ResumeInv'
    BY <1>13, <2>4, SMTT(30)
       DEF Cli!RegisterTurn, ShellInv, ShellTypes, ApprovalInv, ResumeInv, LoopInv, TurnInv, Waits,
           BeforeRaise, NoneTaken, Cli!Unsettled, Cli!Pending, ShellTyped, TurnTyped, LogTyped,
           Fields, Places, TurnFields, TurnPlaces, Cli!NoTurn, Cli!NoRequest
  <2>7. LoopInv'
    BY <1>13, <2>4, SMTT(30)
       DEF Cli!RegisterTurn, ShellInv, ShellTypes, ApprovalInv, ResumeInv, LoopInv, TurnInv, Waits,
           BeforeRaise, NoneTaken, Cli!Unsettled, Cli!Pending, ShellTyped, TurnTyped, LogTyped,
           Fields, Places, TurnFields, TurnPlaces, Cli!NoTurn, Cli!NoRequest
  <2>8. TurnInv'
    BY <1>13, <2>4, SMTT(30)
       DEF Cli!RegisterTurn, ShellInv, ShellTypes, ApprovalInv, ResumeInv, LoopInv, TurnInv, Waits,
           BeforeRaise, NoneTaken, Cli!Unsettled, Cli!Pending, ShellTyped, TurnTyped, LogTyped,
           Fields, Places, TurnFields, TurnPlaces, Cli!NoTurn, Cli!NoRequest
  <2> QED
    BY <2>4, <2>5, <2>6, <2>7, <2>8 DEF ShellInv
<1>14. CASE Cli!Work
  BY <1>14, ShellWorkKeeps
<1>15. CASE Cli!RecordQuestion
  <2>1. ShellTyped'
    BY <1>0, <1>15, SMTT(20)
       DEF Cli!RecordQuestion, Cli!Raise, Cli!Raised, ShellTyped, Fields, Places
  <2>2. TurnTyped'
    BY <1>0, <1>15, SMTT(20)
       DEF Cli!RecordQuestion, Cli!Raise, Cli!Raised, TurnTyped, TurnFields, TurnPlaces, Cli!NoTurn
  <2>3. LogTyped'
    BY <1>0, <1>15, SMTT(20) DEF Cli!RecordQuestion, Cli!Raise, Cli!Raised, LogTyped, Cli!NoRequest
  <2>4. ShellTypes'
    BY <2>1, <2>2, <2>3 DEF ShellTypes
  <2>5. ApprovalInv'
    BY <1>15, <2>4, SMTT(30)
       DEF Cli!RecordQuestion, Cli!Raise, Cli!Raised, ShellInv, ShellTypes, ApprovalInv, ResumeInv,
           LoopInv, TurnInv, Waits, BeforeRaise, NoneTaken, Cli!Unsettled, Cli!Pending, ShellTyped,
           TurnTyped, LogTyped, Fields, Places, TurnFields, TurnPlaces, Cli!NoTurn, Cli!NoRequest
  <2>6. ResumeInv'
    BY <1>15, <2>4, SMTT(30)
       DEF Cli!RecordQuestion, Cli!Raise, Cli!Raised, ShellInv, ShellTypes, ApprovalInv, ResumeInv,
           LoopInv, TurnInv, Waits, BeforeRaise, NoneTaken, Cli!Unsettled, Cli!Pending, ShellTyped,
           TurnTyped, LogTyped, Fields, Places, TurnFields, TurnPlaces, Cli!NoTurn, Cli!NoRequest
  <2>7. LoopInv'
    BY <1>15, <2>4, SMTT(30)
       DEF Cli!RecordQuestion, Cli!Raise, Cli!Raised, ShellInv, ShellTypes, ApprovalInv, ResumeInv,
           LoopInv, TurnInv, Waits, BeforeRaise, NoneTaken, Cli!Unsettled, Cli!Pending, ShellTyped,
           TurnTyped, LogTyped, Fields, Places, TurnFields, TurnPlaces, Cli!NoTurn, Cli!NoRequest
  <2>8. TurnInv'
    BY <1>15, <2>4, SMTT(30)
       DEF Cli!RecordQuestion, Cli!Raise, Cli!Raised, ShellInv, ShellTypes, ApprovalInv, ResumeInv,
           LoopInv, TurnInv, Waits, BeforeRaise, NoneTaken, Cli!Unsettled, Cli!Pending, ShellTyped,
           TurnTyped, LogTyped, Fields, Places, TurnFields, TurnPlaces, Cli!NoTurn, Cli!NoRequest
  <2> QED
    BY <2>4, <2>5, <2>6, <2>7, <2>8 DEF ShellInv
<1>16. CASE Cli!PauseForUser
  <2>1. ShellTyped'
    BY <1>0, <1>16, SMTT(20) DEF Cli!PauseForUser, ShellTyped, Fields, Places
  <2>2. TurnTyped'
    BY <1>0, <1>16, SMTT(20) DEF Cli!PauseForUser, TurnTyped, TurnFields, TurnPlaces, Cli!NoTurn
  <2>3. LogTyped'
    BY <1>0, <1>16, SMTT(20) DEF Cli!PauseForUser, LogTyped, Cli!NoRequest
  <2>4. ShellTypes'
    BY <2>1, <2>2, <2>3 DEF ShellTypes
  <2>5. ApprovalInv'
    BY <1>16, <2>4, SMTT(30)
       DEF Cli!PauseForUser, ShellInv, ShellTypes, ApprovalInv, ResumeInv, LoopInv, TurnInv, Waits,
           BeforeRaise, NoneTaken, Cli!Unsettled, Cli!Pending, ShellTyped, TurnTyped, LogTyped,
           Fields, Places, TurnFields, TurnPlaces, Cli!NoTurn, Cli!NoRequest
  <2>6. ResumeInv'
    BY <1>16, <2>4, SMTT(30)
       DEF Cli!PauseForUser, ShellInv, ShellTypes, ApprovalInv, ResumeInv, LoopInv, TurnInv, Waits,
           BeforeRaise, NoneTaken, Cli!Unsettled, Cli!Pending, ShellTyped, TurnTyped, LogTyped,
           Fields, Places, TurnFields, TurnPlaces, Cli!NoTurn, Cli!NoRequest
  <2>7. LoopInv'
    BY <1>16, <2>4, SMTT(30)
       DEF Cli!PauseForUser, ShellInv, ShellTypes, ApprovalInv, ResumeInv, LoopInv, TurnInv, Waits,
           BeforeRaise, NoneTaken, Cli!Unsettled, Cli!Pending, ShellTyped, TurnTyped, LogTyped,
           Fields, Places, TurnFields, TurnPlaces, Cli!NoTurn, Cli!NoRequest
  <2>8. TurnInv'
    BY <1>16, <2>4, SMTT(30)
       DEF Cli!PauseForUser, ShellInv, ShellTypes, ApprovalInv, ResumeInv, LoopInv, TurnInv, Waits,
           BeforeRaise, NoneTaken, Cli!Unsettled, Cli!Pending, ShellTyped, TurnTyped, LogTyped,
           Fields, Places, TurnFields, TurnPlaces, Cli!NoTurn, Cli!NoRequest
  <2> QED
    BY <2>4, <2>5, <2>6, <2>7, <2>8 DEF ShellInv
<1>17. CASE Cli!FinishTurn
  <2>1. ShellTyped'
    BY <1>0, <1>17, SMTT(20) DEF Cli!FinishTurn, ShellTyped, Fields, Places
  <2>2. TurnTyped'
    BY <1>0, <1>17, SMTT(20) DEF Cli!FinishTurn, TurnTyped, TurnFields, TurnPlaces, Cli!NoTurn
  <2>3. LogTyped'
    BY <1>0, <1>17, SMTT(20) DEF Cli!FinishTurn, LogTyped, Cli!NoRequest
  <2>4. ShellTypes'
    BY <2>1, <2>2, <2>3 DEF ShellTypes
  <2>5. ApprovalInv'
    BY <1>17, <2>4, SMTT(30)
       DEF Cli!FinishTurn, ShellInv, ShellTypes, ApprovalInv, ResumeInv, LoopInv, TurnInv, Waits,
           BeforeRaise, NoneTaken, Cli!Unsettled, Cli!Pending, ShellTyped, TurnTyped, LogTyped,
           Fields, Places, TurnFields, TurnPlaces, Cli!NoTurn, Cli!NoRequest
  <2>6. ResumeInv'
    BY <1>17, <2>4, SMTT(30)
       DEF Cli!FinishTurn, ShellInv, ShellTypes, ApprovalInv, ResumeInv, LoopInv, TurnInv, Waits,
           BeforeRaise, NoneTaken, Cli!Unsettled, Cli!Pending, ShellTyped, TurnTyped, LogTyped,
           Fields, Places, TurnFields, TurnPlaces, Cli!NoTurn, Cli!NoRequest
  <2>7. LoopInv'
    BY <1>17, <2>4, SMTT(30)
       DEF Cli!FinishTurn, ShellInv, ShellTypes, ApprovalInv, ResumeInv, LoopInv, TurnInv, Waits,
           BeforeRaise, NoneTaken, Cli!Unsettled, Cli!Pending, ShellTyped, TurnTyped, LogTyped,
           Fields, Places, TurnFields, TurnPlaces, Cli!NoTurn, Cli!NoRequest
  <2>8. TurnInv'
    BY <1>17, <2>4, SMTT(30)
       DEF Cli!FinishTurn, ShellInv, ShellTypes, ApprovalInv, ResumeInv, LoopInv, TurnInv, Waits,
           BeforeRaise, NoneTaken, Cli!Unsettled, Cli!Pending, ShellTyped, TurnTyped, LogTyped,
           Fields, Places, TurnFields, TurnPlaces, Cli!NoTurn, Cli!NoRequest
  <2> QED
    BY <2>4, <2>5, <2>6, <2>7, <2>8 DEF ShellInv
<1>18. CASE Cli!FailTurn
  <2>1. ShellTyped'
    BY <1>0, <1>18, SMTT(20) DEF Cli!FailTurn, ShellTyped, Fields, Places
  <2>2. TurnTyped'
    BY <1>0, <1>18, SMTT(20) DEF Cli!FailTurn, TurnTyped, TurnFields, TurnPlaces, Cli!NoTurn
  <2>3. LogTyped'
    BY <1>0, <1>18, SMTT(20) DEF Cli!FailTurn, LogTyped, Cli!NoRequest
  <2>4. ShellTypes'
    BY <2>1, <2>2, <2>3 DEF ShellTypes
  <2>5. ApprovalInv'
    BY <1>18, <2>4, SMTT(30)
       DEF Cli!FailTurn, ShellInv, ShellTypes, ApprovalInv, ResumeInv, LoopInv, TurnInv, Waits,
           BeforeRaise, NoneTaken, Cli!Unsettled, Cli!Pending, ShellTyped, TurnTyped, LogTyped,
           Fields, Places, TurnFields, TurnPlaces, Cli!NoTurn, Cli!NoRequest
  <2>6. ResumeInv'
    BY <1>18, <2>4, SMTT(30)
       DEF Cli!FailTurn, ShellInv, ShellTypes, ApprovalInv, ResumeInv, LoopInv, TurnInv, Waits,
           BeforeRaise, NoneTaken, Cli!Unsettled, Cli!Pending, ShellTyped, TurnTyped, LogTyped,
           Fields, Places, TurnFields, TurnPlaces, Cli!NoTurn, Cli!NoRequest
  <2>7. LoopInv'
    BY <1>18, <2>4, SMTT(30)
       DEF Cli!FailTurn, ShellInv, ShellTypes, ApprovalInv, ResumeInv, LoopInv, TurnInv, Waits,
           BeforeRaise, NoneTaken, Cli!Unsettled, Cli!Pending, ShellTyped, TurnTyped, LogTyped,
           Fields, Places, TurnFields, TurnPlaces, Cli!NoTurn, Cli!NoRequest
  <2>8. TurnInv'
    BY <1>18, <2>4, SMTT(30)
       DEF Cli!FailTurn, ShellInv, ShellTypes, ApprovalInv, ResumeInv, LoopInv, TurnInv, Waits,
           BeforeRaise, NoneTaken, Cli!Unsettled, Cli!Pending, ShellTyped, TurnTyped, LogTyped,
           Fields, Places, TurnFields, TurnPlaces, Cli!NoTurn, Cli!NoRequest
  <2> QED
    BY <2>4, <2>5, <2>6, <2>7, <2>8 DEF ShellInv
<1>19. CASE Cli!EndFailedTurn
  BY <1>19, EndFailedTurnKeeps
<1>20. CASE Cli!Returned
  BY <1>20, ReturnedKeeps
<1>21. CASE Cli!PermissionRequired
  <2>0. shell.approval = None /\ shell.session
    BY <1>21 DEF ShellInv, TurnInv, Cli!PermissionRequired
  <2>1. ShellTyped'
    <3> DEFINE waits == IF turn.kind = "prompt" THEN Cli!OrElse(Cli!SeenApproval, turn.raised) ELSE Cli!SeenApproval
               open == Cli!AfterFailure(turn.kind)
    <3>1. shell' = [shell EXCEPT !.at = "loop", !.state = "awaiting_approval", !.approval = waits, !.question = open]
      BY <1>21 DEF Cli!PermissionRequired
    <3>2. waits \in Cli!Request \cup {None} /\ open \in Cli!Request \cup {None}
      BY <1>0, <1>21, SeenFacts
         DEF Cli!AfterFailure, Cli!OrElse, ShellTyped, TurnTyped, Cli!PermissionRequired, Cli!NoTurn
    <3> HIDE DEF waits, open
    <3> QED
      BY <1>0, <3>1, <3>2, SMTT(20) DEF ShellTyped, Fields, Places
  <2>2. TurnTyped'
    BY <1>0, <1>21, SeenFacts, SMTT(20)
       DEF Cli!PermissionRequired, Cli!AfterFailure, Cli!OrElse, TurnTyped, TurnFields, TurnPlaces,
           Cli!NoTurn
  <2>3. LogTyped'
    BY <1>0, <1>21, SeenFacts, SMTT(20)
       DEF Cli!PermissionRequired, Cli!AfterFailure, Cli!OrElse, LogTyped, Cli!NoRequest
  <2>4. ShellTypes'
    BY <2>1, <2>2, <2>3 DEF ShellTypes
  <2>5. ApprovalInv'
    BY <1>21, <2>4, SeenFacts, SMTT(30)
       DEF Cli!PermissionRequired, Cli!AfterFailure, Cli!OrElse, ShellInv, ShellTypes, ApprovalInv,
           ResumeInv, LoopInv, TurnInv, Waits, BeforeRaise, NoneTaken, Cli!Unsettled, Cli!Pending,
           ShellTyped, TurnTyped, LogTyped, Fields, Places, TurnFields, TurnPlaces, Cli!NoTurn,
           Cli!NoRequest
  <2>6. ResumeInv'
    BY <1>21, <2>4, SeenFacts, SMTT(30)
       DEF Cli!PermissionRequired, Cli!AfterFailure, Cli!OrElse, ShellInv, ShellTypes, ApprovalInv,
           ResumeInv, LoopInv, TurnInv, Waits, BeforeRaise, NoneTaken, Cli!Unsettled, Cli!Pending,
           ShellTyped, TurnTyped, LogTyped, Fields, Places, TurnFields, TurnPlaces, Cli!NoTurn,
           Cli!NoRequest
  <2>7. LoopInv'
    BY <1>21, <2>4, SeenFacts, SMTT(30)
       DEF Cli!PermissionRequired, Cli!AfterFailure, Cli!OrElse, ShellInv, ShellTypes, ApprovalInv,
           ResumeInv, LoopInv, TurnInv, Waits, BeforeRaise, NoneTaken, Cli!Unsettled, Cli!Pending,
           ShellTyped, TurnTyped, LogTyped, Fields, Places, TurnFields, TurnPlaces, Cli!NoTurn,
           Cli!NoRequest
  <2>8. TurnInv'
    BY <1>21, <2>4, SeenFacts, SMTT(30)
       DEF Cli!PermissionRequired, Cli!AfterFailure, Cli!OrElse, ShellInv, ShellTypes, ApprovalInv,
           ResumeInv, LoopInv, TurnInv, Waits, BeforeRaise, NoneTaken, Cli!Unsettled, Cli!Pending,
           ShellTyped, TurnTyped, LogTyped, Fields, Places, TurnFields, TurnPlaces, Cli!NoTurn,
           Cli!NoRequest
  <2> QED
    BY <2>4, <2>5, <2>6, <2>7, <2>8 DEF ShellInv
<1>22. CASE Cli!Failed
  BY <1>22, FailedKeeps
<1>23. CASE Cli!RequestInterrupt
  BY <1>23, RequestInterruptKeeps
<1>24. CASE Cli!InterruptLoad
  <2>1. ShellTyped'
    BY <1>0, <1>24, SMTT(20) DEF Cli!InterruptLoad, Cli!Registered, ShellTyped, Fields, Places
  <2>2. TurnTyped'
    BY <1>0, <1>24, SMTT(20)
       DEF Cli!InterruptLoad, Cli!Registered, TurnTyped, TurnFields, TurnPlaces, Cli!NoTurn
  <2>3. LogTyped'
    BY <1>0, <1>24, SMTT(20) DEF Cli!InterruptLoad, Cli!Registered, LogTyped, Cli!NoRequest
  <2>4. ShellTypes'
    BY <2>1, <2>2, <2>3 DEF ShellTypes
  <2>5. ApprovalInv'
    BY <1>24, <2>4, SMTT(30)
       DEF Cli!InterruptLoad, Cli!Registered, ShellInv, ShellTypes, ApprovalInv, ResumeInv, LoopInv,
           TurnInv, Waits, BeforeRaise, NoneTaken, Cli!Unsettled, Cli!Pending, ShellTyped,
           TurnTyped, LogTyped, Fields, Places, TurnFields, TurnPlaces, Cli!NoTurn, Cli!NoRequest
  <2>6. ResumeInv'
    BY <1>24, <2>4, SMTT(30)
       DEF Cli!InterruptLoad, Cli!Registered, ShellInv, ShellTypes, ApprovalInv, ResumeInv, LoopInv,
           TurnInv, Waits, BeforeRaise, NoneTaken, Cli!Unsettled, Cli!Pending, ShellTyped,
           TurnTyped, LogTyped, Fields, Places, TurnFields, TurnPlaces, Cli!NoTurn, Cli!NoRequest
  <2>7. LoopInv'
    BY <1>24, <2>4, SMTT(30)
       DEF Cli!InterruptLoad, Cli!Registered, ShellInv, ShellTypes, ApprovalInv, ResumeInv, LoopInv,
           TurnInv, Waits, BeforeRaise, NoneTaken, Cli!Unsettled, Cli!Pending, ShellTyped,
           TurnTyped, LogTyped, Fields, Places, TurnFields, TurnPlaces, Cli!NoTurn, Cli!NoRequest
  <2>8. TurnInv'
    BY <1>24, <2>4, SMTT(30)
       DEF Cli!InterruptLoad, Cli!Registered, ShellInv, ShellTypes, ApprovalInv, ResumeInv, LoopInv,
           TurnInv, Waits, BeforeRaise, NoneTaken, Cli!Unsettled, Cli!Pending, ShellTyped,
           TurnTyped, LogTyped, Fields, Places, TurnFields, TurnPlaces, Cli!NoTurn, Cli!NoRequest
  <2> QED
    BY <2>4, <2>5, <2>6, <2>7, <2>8 DEF ShellInv
<1>25. CASE Cli!InterruptList
  <2>1. ShellTyped'
    BY <1>0, <1>25, SMTT(20) DEF Cli!InterruptList, ShellTyped, Fields, Places
  <2>2. TurnTyped'
    BY <1>0, <1>25, SMTT(20) DEF Cli!InterruptList, TurnTyped, TurnFields, TurnPlaces, Cli!NoTurn
  <2>3. LogTyped'
    BY <1>0, <1>25, SMTT(20) DEF Cli!InterruptList, LogTyped, Cli!NoRequest
  <2>4. ShellTypes'
    BY <2>1, <2>2, <2>3 DEF ShellTypes
  <2>5. ApprovalInv'
    BY <1>25, <2>4, SMTT(30)
       DEF Cli!InterruptList, ShellInv, ShellTypes, ApprovalInv, ResumeInv, LoopInv, TurnInv, Waits,
           BeforeRaise, NoneTaken, Cli!Unsettled, Cli!Pending, ShellTyped, TurnTyped, LogTyped,
           Fields, Places, TurnFields, TurnPlaces, Cli!NoTurn, Cli!NoRequest
  <2>6. ResumeInv'
    BY <1>25, <2>4, SMTT(30)
       DEF Cli!InterruptList, ShellInv, ShellTypes, ApprovalInv, ResumeInv, LoopInv, TurnInv, Waits,
           BeforeRaise, NoneTaken, Cli!Unsettled, Cli!Pending, ShellTyped, TurnTyped, LogTyped,
           Fields, Places, TurnFields, TurnPlaces, Cli!NoTurn, Cli!NoRequest
  <2>7. LoopInv'
    BY <1>25, <2>4, SMTT(30)
       DEF Cli!InterruptList, ShellInv, ShellTypes, ApprovalInv, ResumeInv, LoopInv, TurnInv, Waits,
           BeforeRaise, NoneTaken, Cli!Unsettled, Cli!Pending, ShellTyped, TurnTyped, LogTyped,
           Fields, Places, TurnFields, TurnPlaces, Cli!NoTurn, Cli!NoRequest
  <2>8. TurnInv'
    BY <1>25, <2>4, SMTT(30)
       DEF Cli!InterruptList, ShellInv, ShellTypes, ApprovalInv, ResumeInv, LoopInv, TurnInv, Waits,
           BeforeRaise, NoneTaken, Cli!Unsettled, Cli!Pending, ShellTyped, TurnTyped, LogTyped,
           Fields, Places, TurnFields, TurnPlaces, Cli!NoTurn, Cli!NoRequest
  <2> QED
    BY <2>4, <2>5, <2>6, <2>7, <2>8 DEF ShellInv
<1>26. CASE Cli!InterruptRecord
  BY <1>26, InterruptRecordKeeps
<1>27. CASE Cli!InterruptUpdate
  <2>1. ShellTyped'
    BY <1>0, <1>27, SMTT(20) DEF Cli!InterruptUpdate, Cli!Registered, ShellTyped, Fields, Places
  <2>2. TurnTyped'
    BY <1>0, <1>27, SMTT(20)
       DEF Cli!InterruptUpdate, Cli!Registered, TurnTyped, TurnFields, TurnPlaces, Cli!NoTurn
  <2>3. LogTyped'
    BY <1>0, <1>27, SMTT(20) DEF Cli!InterruptUpdate, Cli!Registered, LogTyped, Cli!NoRequest
  <2>4. ShellTypes'
    BY <2>1, <2>2, <2>3 DEF ShellTypes
  <2>5. ApprovalInv'
    BY <1>27, <2>4, SMTT(30)
       DEF Cli!InterruptUpdate, Cli!Registered, ShellInv, ShellTypes, ApprovalInv, ResumeInv,
           LoopInv, TurnInv, Waits, BeforeRaise, NoneTaken, Cli!Unsettled, Cli!Pending, ShellTyped,
           TurnTyped, LogTyped, Fields, Places, TurnFields, TurnPlaces, Cli!NoTurn, Cli!NoRequest
  <2>6. ResumeInv'
    BY <1>27, <2>4, SMTT(30)
       DEF Cli!InterruptUpdate, Cli!Registered, ShellInv, ShellTypes, ApprovalInv, ResumeInv,
           LoopInv, TurnInv, Waits, BeforeRaise, NoneTaken, Cli!Unsettled, Cli!Pending, ShellTyped,
           TurnTyped, LogTyped, Fields, Places, TurnFields, TurnPlaces, Cli!NoTurn, Cli!NoRequest
  <2>7. LoopInv'
    BY <1>27, <2>4, SMTT(30)
       DEF Cli!InterruptUpdate, Cli!Registered, ShellInv, ShellTypes, ApprovalInv, ResumeInv,
           LoopInv, TurnInv, Waits, BeforeRaise, NoneTaken, Cli!Unsettled, Cli!Pending, ShellTyped,
           TurnTyped, LogTyped, Fields, Places, TurnFields, TurnPlaces, Cli!NoTurn, Cli!NoRequest
  <2>8. TurnInv'
    BY <1>27, <2>4, SMTT(30)
       DEF Cli!InterruptUpdate, Cli!Registered, ShellInv, ShellTypes, ApprovalInv, ResumeInv,
           LoopInv, TurnInv, Waits, BeforeRaise, NoneTaken, Cli!Unsettled, Cli!Pending, ShellTyped,
           TurnTyped, LogTyped, Fields, Places, TurnFields, TurnPlaces, Cli!NoTurn, Cli!NoRequest
  <2> QED
    BY <2>4, <2>5, <2>6, <2>7, <2>8 DEF ShellInv
<1>28. CASE Cli!OtherFrontEnd
  BY <1>28, OtherFrontEndKeeps
<1> QED
  BY <1>1, <1>2, <1>3, <1>4, <1>5, <1>6, <1>7, <1>8, <1>9, <1>10, <1>11, <1>12, <1>13, <1>14, <1>15,
     <1>16, <1>17, <1>18, <1>19, <1>20, <1>21, <1>22, <1>23, <1>24, <1>25, <1>26, <1>27, <1>28
     DEF Cli!Next

\* Both kinds of shell start with the invariant.
LEMMA ShellStart == ShellBounds /\ Cli!Init => ShellInv
<1> SUFFICES ASSUME ShellBounds, Cli!Init PROVE ShellInv
  OBVIOUS
<1>1. ShellTypes
  BY SMTT(30)
     DEF ShellBounds, Cli!Init, ShellTypes, ShellTyped, TurnTyped, LogTyped, Fields, Places,
         Cli!NoTurn, Cli!NoRequest
<1>2. ApprovalInv /\ ResumeInv /\ LoopInv /\ TurnInv
  BY SMTT(30)
     DEF ShellBounds, Cli!Init, ApprovalInv, ResumeInv, LoopInv, TurnInv, NoneTaken, Waits,
         Cli!Unsettled, Cli!Pending, Cli!NoTurn, Cli!NoRequest, Cli!Request
<1> QED
  BY <1>1, <1>2 DEF ShellInv

\* The invariant says what the property does.
LEMMA ShellAsks == ShellBounds /\ ShellInv => Cli!AsksWhatWaits
  BY SMTT(30)
     DEF ShellBounds, ShellInv, ShellTypes, ShellTyped, ApprovalInv, LoopInv, TurnInv, Waits,
         Cli!AsksWhatWaits, Cli!ShellAt, Cli!NoTurn, Cli!Pending, Cli!Request

\* A prompt is never read while the session waits for a decision or an answer that the log shows
\* to be open: however a turn ends, and after a command or a resumption, the shell finds it out,
\* whatever Ctrl+C and another front end do meanwhile.
THEOREM ShellAsksForWhatWaits ==
    ASSUME MaxRequests \in Nat, MaxTurns \in Nat, MaxInterrupts \in Nat
    PROVE  MCSpec => []ShellAsksWhatWaits
<1>0. ShellBounds
  BY ClaimLeaseAssumption DEF ShellBounds
<1>1. MCInit => ShellInv
  BY <1>0, ShellStart DEF MCInit
<1>2. ShellInv /\ [OnLease \/ OnQuestion \/ OnShell]_<<vars, monitorVars, shellVars>> => ShellInv'
  <2>1. ASSUME ShellInv, Cli!Next PROVE ShellInv'
    BY <1>0, <2>1, ShellKeeps
  <2>2. ASSUME ShellInv, UNCHANGED shellVars PROVE ShellInv'
    <3>1. ShellTypes'
      BY ONLY <2>2, SMTT(30) DEF shellVars, ShellInv, ShellTypes, ShellTyped, TurnTyped, LogTyped
    <3>2. ApprovalInv' /\ ResumeInv'
      BY ONLY <2>2, SMTT(30)
         DEF shellVars, ShellInv, ApprovalInv, ResumeInv, NoneTaken, Waits, Cli!Unsettled, Cli!Pending
    <3>3. LoopInv' /\ TurnInv'
      BY ONLY <2>2, SMTT(30)
         DEF shellVars, ShellInv, LoopInv, TurnInv, NoneTaken, Waits, Cli!Unsettled, Cli!Pending
    <3> QED
      BY <3>1, <3>2, <3>3 DEF ShellInv
  <2> QED
    BY <2>1, <2>2 DEF OnLease, OnQuestion, OnShell
<1>3. ShellInv => ShellAsksWhatWaits
  BY <1>0, ShellAsks DEF ShellAsksWhatWaits
<1> QED
  BY <1>1, <1>2, <1>3, PTL DEF MCSpec
=============================================================================
