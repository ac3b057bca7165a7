----------------------------- MODULE ProcessOutput -----------------------------
(***************************************************************************)
(* What ToolProcessManager keeps of its processes' output: a bounded       *)
(* buffer for each, a bound on all of them together, readers that follow a *)
(* cursor and wait for more, and log snapshots that are written as         *)
(* artifacts while the output goes on.                                     *)
(*                                                                         *)
(* A character is its cursor.  A chunk is the interval <<from, to>> of the *)
(* characters it holds, with the order in which chunks were made.          *)
(***************************************************************************)
EXTENDS Naturals, Sequences, FiniteSets, FiniteSetsExt, SequencesExt

CONSTANTS
    Proc,            \* managed processes
    Reading,         \* calls of the process_output tool that make a log artifact
    MaxChunk,        \* maxBufferedChunkChars
    MaxBuffer,       \* maxBufferCharsPerProcess
    MaxGlobal,       \* maxGlobalBufferChars
    MaxSnapshots,    \* maxArtifactSnapshotsPerProcess
    MaxAllSnapshots, \* maxGlobalArtifactSnapshots
    Written,         \* bound: characters a process writes
    None             \* no cursor, no process

VARIABLES
    buffer,        \* the retained chunks of each process
    next,          \* nextCursor
    from,          \* retainedStartCursor
    dropped,       \* droppedOutputChars
    phase,         \* "active", "terminal", or "released": no record any more
    total,         \* globalRetainedChars
    made,          \* chunks made so far: the order of their createdAt
    reader,        \* one follower of each process
    snapshots,     \* artifactSnapshots of each process
    reserved,      \* artifactReservations of each process
    allSnapshots,  \* globalArtifactSnapshotCount
    allReserved,   \* globalArtifactReservationCount
    reading        \* the artifact calls

outputVars == <<buffer, next, from, dropped, phase, total, made, reader, snapshots, reserved,
                allSnapshots, allReserved, reading>>

Monus(a, b) == IF a > b THEN a - b ELSE 0
Larger(a, b) == IF a > b THEN a ELSE b
Length(c) == c.to - c.from
TotalOf(count, S) == MapThenSumSet(LAMBDA x : count[x], S)
\* The characters of the chunks at some places of a buffer.
Chars(chunks, places) == TotalOf([i \in places |-> Length(chunks[i])], places)
Retained(chunks) == Chars(chunks, DOMAIN chunks)
Kept == {p \in Proc : phase[p] # "released"}
KeptTotal == TotalOf([p \in Kept |-> Retained(buffer[p])], Kept)

Init ==
    /\ buffer = [p \in Proc |-> <<>>]
    /\ next = [p \in Proc |-> 0]
    /\ from = [p \in Proc |-> 0]
    /\ dropped = [p \in Proc |-> 0]
    /\ phase = [p \in Proc |-> "active"]
    /\ total = 0
    /\ made = 0
    /\ reader = [p \in Proc |-> [waiting |-> FALSE, cursor |-> 0, got |-> 0, missed |-> 0]]
    /\ snapshots = [p \in Proc |-> 0]
    /\ reserved = [p \in Proc |-> {}]
    /\ allSnapshots = 0
    /\ allReserved = 0
    /\ reading = [a \in Reading |-> [at |-> "idle", of |-> None]]

artifactVars == <<snapshots, reserved, allSnapshots, allReserved, reading>>

-----------------------------------------------------------------------------
(* Appending and trimming.                                                 *)

\* The text is split into chunks of at most MaxChunk characters.
Chunks(p, n) ==
    [i \in 1..((n + MaxChunk - 1) \div MaxChunk) |->
        [from |-> next[p] + (i - 1) * MaxChunk,
         to |-> next[p] + (IF i * MaxChunk < n THEN i * MaxChunk ELSE n),
         born |-> made + i]]

\* As many chunks as go are shifted from the front.
Without(chunks, going) == SubSeq(chunks, Cardinality(going) + 1, Len(chunks))

\* trimRecord: whole chunks go from the front, the next one loses its beginning.
TrimRecord(chunks, limit) ==
    LET least == IF chunks = <<>> THEN 0 ELSE Monus(Last(chunks).to, limit)
        kept  == Without(chunks, {i \in DOMAIN chunks : chunks[i].to <= least})
    IN  [i \in DOMAIN kept |-> [kept[i] EXCEPT !.from = Larger(@, least)]]

\* The characters of the kept records that are older than a chunk.
Older(buffers, born) ==
    TotalOf([q \in Kept |-> Chars(buffers[q], {i \in DOMAIN buffers[q] : buffers[q][i].born < born})],
            Kept)

\* trimGlobal: the oldest chunks of all records go, whole, until the total is within its limit.
TrimGlobal(buffers, sum) ==
    [q \in Proc |->
        IF q \in Kept
        THEN Without(buffers[q], {i \in DOMAIN buffers[q] :
                                    Monus(sum, Older(buffers, buffers[q][i].born)) > MaxGlobal})
        ELSE buffers[q]]

\* Where the retained output of a process begins after chunks have gone from its front.
Begins(p, before, after) ==
    IF after # <<>> THEN Head(after).from ELSE IF before # <<>> THEN Last(before).to ELSE from[p]

\* appendRedactedOutput, of a process whose child still writes: also of one that was given up as
\* orphaned, even after its record was released.
AppendOutput(p, n) ==
    LET long  == buffer[p] \o Chunks(p, n)
        short == TrimRecord(long, MaxBuffer)
        sum   == total + n - Monus(Retained(long), Retained(short))
        all   == TrimGlobal([buffer EXCEPT ![p] = short], sum)
        lost  == TotalOf([q \in Proc |->
                            Retained(IF q = p THEN short ELSE buffer[q]) - Retained(all[q])], Proc)
        old   == [buffer EXCEPT ![p] = long]
    IN  /\ next' = [next EXCEPT ![p] = @ + n]
        /\ made' = made + Len(Chunks(p, n))
        /\ buffer' = all
        /\ total' = sum - lost
        /\ from' = [q \in Proc |-> Begins(q, old[q], all[q])]
        /\ dropped' = [q \in Proc |-> dropped[q] + Retained(old[q]) - Retained(all[q])]

Output(p, n) ==
    /\ next[p] + n <= Written
    /\ AppendOutput(p, n)
    /\ UNCHANGED <<phase, reader, artifactVars>>

End(p) ==
    /\ phase[p] = "active"
    /\ phase' = [phase EXCEPT ![p] = "terminal"]
    /\ UNCHANGED <<buffer, next, from, dropped, total, made, reader, artifactVars>>

\* Mutant: a released record takes its reservations along, still counted.
ReleaseKeepingReservations(p) ==
    /\ phase[p] = "terminal"
    /\ phase' = [phase EXCEPT ![p] = "released"]
    /\ total' = Monus(total, Retained(buffer[p]))
    /\ allSnapshots' = Monus(allSnapshots, snapshots[p])
    /\ reserved' = [reserved EXCEPT ![p] = {}]
    /\ UNCHANGED <<buffer, next, from, dropped, made, reader, snapshots, allReserved, reading>>

\* releaseRecord: what the record held is taken off the totals.
Release(p) ==
    /\ phase[p] = "terminal"
    /\ phase' = [phase EXCEPT ![p] = "released"]
    /\ total' = Monus(total, Retained(buffer[p]))
    /\ allSnapshots' = Monus(allSnapshots, snapshots[p])
    /\ allReserved' = Monus(allReserved, Cardinality(reserved[p]))
    /\ reserved' = [reserved EXCEPT ![p] = {}]
    /\ UNCHANGED <<buffer, next, from, dropped, made, reader, snapshots, reading>>

-----------------------------------------------------------------------------
(* Reading.                                                                *)

\* readOutput with nothing to read from an active process waits.
AskAndWait(p) ==
    /\ phase[p] = "active"
    /\ ~reader[p].waiting
    /\ reader[p].cursor >= next[p]
    /\ reader' = [reader EXCEPT ![p].waiting = TRUE]
    /\ UNCHANGED <<buffer, next, from, dropped, phase, total, made, artifactVars>>

\* Mutant: the loop does not stop in a chunk that it took a part of.
TakenPastPart(p, start, max) ==
    LET taken[i \in 0..Len(buffer[p])] ==
          IF i = 0 THEN [left |-> max, got |-> 0, next |-> start]
          ELSE LET c     == buffer[p][i]
                   acc   == taken[i - 1]
                   begin == Larger(start, c.from)
                   n     == IF c.to - begin < acc.left THEN c.to - begin ELSE acc.left
               IN  IF acc.left = 0 \/ c.to <= start THEN acc
                   ELSE [left |-> acc.left - n, got |-> acc.got + n, next |-> c.to]
    IN  taken[Len(buffer[p])]

\* The loop of readOutput over the chunks: what is left to take, what was taken, and the cursor.
Taken(p, start, max) ==
    LET taken[i \in 0..Len(buffer[p])] ==
          IF i = 0 THEN [left |-> max, got |-> 0, next |-> start]
          ELSE LET c     == buffer[p][i]
                   acc   == taken[i - 1]
                   begin == Larger(start, c.from)
                   n     == IF c.to - begin < acc.left THEN c.to - begin ELSE acc.left
               IN  IF acc.left = 0 \/ c.to <= start THEN acc
                   ELSE [left |-> acc.left - n, got |-> acc.got + n, next |-> begin + n]
    IN  taken[Len(buffer[p])]

\* The answer: at once, or after the wait, from what is retained by then.  It tells the reader
\* where it begins, what was dropped before that, and the cursor to go on from.
Answer(p, max) ==
    LET start == Larger(reader[p].cursor, from[p])
        taken == Taken(p, start, max)
    IN  /\ reader[p].waiting \/ (phase[p] # "released" /\ reader[p].cursor <= next[p])
        /\ reader' = [reader EXCEPT ![p] =
                        [waiting |-> FALSE, cursor |-> taken.next, got |-> @.got + taken.got,
                         missed |-> @.missed + Monus(from[p], @.cursor)]]
        /\ UNCHANGED <<buffer, next, from, dropped, phase, total, made, artifactVars>>

-----------------------------------------------------------------------------
(* Log artifacts: a place is reserved, the file is written, the place is   *)
(* taken or given back.                                                    *)

RoomFor(p) ==
    /\ snapshots[p] + Cardinality(reserved[p]) < MaxSnapshots
    /\ allSnapshots + allReserved < MaxAllSnapshots

\* getArtifactSnapshot, of a process that has written something.
Reserve(a, p) ==
    /\ reading[a].at = "idle"
    /\ phase[p] # "released"
    /\ IF RoomFor(p)
         THEN /\ reserved' = [reserved EXCEPT ![p] = @ \cup {a}]
              /\ allReserved' = allReserved + 1
              /\ reading' = [reading EXCEPT ![a] = [at |-> "storing", of |-> p]]
         ELSE /\ reading' = [reading EXCEPT ![a] = [at |-> "no_room", of |-> p]]
              /\ UNCHANGED <<reserved, allReserved>>
    /\ UNCHANGED <<buffer, next, from, dropped, phase, total, made, reader, snapshots, allSnapshots>>

\* The artifact is stored, and attached: a false answer makes it an artifact nobody refers to.
Attach(a) ==
    LET p == reading[a].of IN
    /\ reading[a].at = "storing"
    /\ \/ /\ phase[p] = "released"
          /\ reading' = [reading EXCEPT ![a].at = "gone"]
          /\ UNCHANGED <<snapshots, reserved, allSnapshots, allReserved>>
       \/ /\ phase[p] # "released"
          /\ reserved' = [reserved EXCEPT ![p] = @ \ {a}]
          /\ allReserved' = Monus(allReserved, 1)
          /\ IF snapshots[p] >= MaxSnapshots \/ allSnapshots >= MaxAllSnapshots
               THEN /\ reading' = [reading EXCEPT ![a].at = "unattached"]
                    /\ UNCHANGED <<snapshots, allSnapshots>>
               ELSE /\ reading' = [reading EXCEPT ![a].at = "attached"]
                    /\ snapshots' = [snapshots EXCEPT ![p] = @ + 1]
                    /\ allSnapshots' = allSnapshots + 1
    /\ UNCHANGED <<buffer, next, from, dropped, phase, total, made, reader>>

\* The artifact could not be stored: releaseArtifactReservation.
GiveBack(a) ==
    LET p == reading[a].of IN
    /\ reading[a].at = "storing"
    /\ reading' = [reading EXCEPT ![a].at = "failed"]
    /\ IF phase[p] # "released"
         THEN /\ reserved' = [reserved EXCEPT ![p] = @ \ {a}]
              /\ allReserved' = Monus(allReserved, 1)
         ELSE UNCHANGED <<reserved, allReserved>>
    /\ UNCHANGED <<buffer, next, from, dropped, phase, total, made, reader, snapshots, allSnapshots>>

-----------------------------------------------------------------------------
Writing(p, n) == Output(p, n) \/ End(p) \/ Release(p)
Storing(a) == (\E p \in Proc : Reserve(a, p)) \/ Attach(a) \/ GiveBack(a)

Next ==
    \/ \E p \in Proc, n \in 1..Written : Writing(p, n) \/ Answer(p, n) \/ AskAndWait(p)
    \/ \E a \in Reading : Storing(a)

Spec == Init /\ [][Next]_outputVars

-----------------------------------------------------------------------------
(* Properties.                                                             *)

\* A reader that follows the cursors has been given, or told it has missed, every character up to
\* its cursor, each once: whatever was trimmed while it waited or between its calls.
NothingSilentlyLost ==
    \A p \in Proc : reader[p].got + reader[p].missed = reader[p].cursor

\* What is retained and what was dropped are the output, whether the process's own limit or the
\* other processes' output made it go; and the buffer has no hole.
BufferIsSuffix ==
    \A p \in Proc :
        /\ dropped[p] = from[p]
        /\ from[p] + Retained(buffer[p]) = next[p]
        /\ \A i \in DOMAIN buffer[p] : i > 1 => buffer[p][i].from = buffer[p][i-1].to

\* The records together stay within the limit, and the count of the released ones' children
\* that still write takes away at most one buffer each.
GlobalLimit ==
    /\ KeptTotal <= MaxGlobal
    /\ KeptTotal <= total
    /\ total <= KeptTotal + MaxBuffer * Cardinality(Proc \ Kept)

\* A place that was reserved for a log is there when the log has been stored, however many
\* readers stored one meanwhile and whichever records were released.
ReservationHonoured ==
    /\ \A a \in Reading : reading[a].at # "unattached"
    /\ allReserved = TotalOf([p \in Kept |-> Cardinality(reserved[p])], Kept)
    /\ allSnapshots = TotalOf([p \in Kept |-> snapshots[p]], Kept)
=============================================================================
