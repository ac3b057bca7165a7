----------------------------- MODULE MCProcesses -----------------------------
(***************************************************************************)
(* Instances of ManagedProcesses, ProcessOutput, NetworkRequests and        *)
(* LiveMessages for TLC: what tool calls do outside of the workspace's      *)
(* files, and what the desktop shows of them.  A behaviour is about one     *)
(* part:                                                                    *)
(*   "life"       one process and everything that can happen to it          *)
(*   "starts"     the starts of all processes, with the stops of sessions   *)
(*   "output"     the output of all processes, one of which is read         *)
(*   "artifacts"  the log artifacts of all processes                        *)
(*   "requests"   the HTTP requests of a turn, one of them a download       *)
(*   "live"       a turn on display, whose viewer may leave and return      *)
(***************************************************************************)
EXTENDS ManagedProcesses, TLC

CONSTANTS
    Reading, MaxChunk, MaxBuffer, MaxGlobal, MaxSnapshots, MaxAllSnapshots, Written,
    One,        \* the process of "life", and the one that is read
    OneSession, \* its owner
    OneStop,    \* the call of "life"
    Requester, Host, MaxFetching, MaxRequests, MaxTurnBytes, MaxBytes, MaxHops,
    Downloader, \* the requester that downloads
    Home,       \* the host of the first request
    MaxChunks, MaxResponses, MaxTools, MaxPolls, MaxAway, MaxWire

\* One part's state beside that of ManagedProcesses; which variable of the part is which, the
\* instances say.  What a part does not use is None.
VARIABLES part, v1, v2, v3, v4, v5, v6, v7, v8, v9, v10, v11, v12, v13

Out == INSTANCE ProcessOutput WITH
    buffer <- v1, next <- v2, from <- v3, dropped <- v4, phase <- v5, total <- v6, made <- v7,
    reader <- v8, snapshots <- v9, reserved <- v10, allSnapshots <- v11, allReserved <- v12,
    reading <- v13

Net == INSTANCE NetworkRequests WITH MaxActive <- MaxFetching,
    fetch <- v1, turn <- v2, sink <- v3, writes <- v4

Live == INSTANCE LiveMessages WITH
    run <- v1, store <- v2, wire <- v3, snapshot <- v4, messages <- v5, flow <- v6, counts <- v7,
    heard <- v8, torn <- v9

partVars == <<v1, v2, v3, v4, v5, v6, v7, v8, v9, v10, v11, v12, v13>>
vars == <<part, pmVars, partVars>>

No1to4 == v1 = None /\ v2 = None /\ v3 = None /\ v4 = None
No5to9 == v5 = None /\ v6 = None /\ v7 = None /\ v8 = None /\ v9 = None
No10to13 == v10 = None /\ v11 = None /\ v12 = None /\ v13 = None

MCInit ==
    /\ Init
    /\ \/ part \in {"life", "starts"} /\ No1to4 /\ No5to9 /\ No10to13
       \/ part \in {"output", "artifacts"} /\ Out!Init
       \/ /\ part = "requests" /\ Net!NetInit /\ No5to9 /\ No10to13
          /\ \A c \in Requester : v1[c].first.host = Home /\ (v1[c].kind = "download") = (c = Downloader)
       \/ part = "live" /\ Live!LiveInit /\ No10to13
    /\ platform # "posix" => part = "life"

LifeNext ==
    ProcessStep(One, OneSession) \/ ClosingStep(OneStop, OneSession) \/ Restart

StartsNext ==
    \/ \E p \in Proc : StopStep(p)
    \/ \E s \in Session : \/ \E p \in Proc : StartStep(p, s)
                         \/ \E c \in StopCall : ClosingStep(c, s)

OutputNext ==
    \/ \E p \in Proc, n \in {1, 3} : Out!Writing(p, n)
    \/ Out!AskAndWait(One)
    \/ \E n \in {1, 3} : Out!Answer(One, n)

ArtifactsNext ==
    \/ \E a \in Reading : Out!Storing(a)
    \/ \E p \in Proc : Out!End(p) \/ Out!Release(p)

MCNext ==
    /\ UNCHANGED part
    /\ \/ part = "life" /\ LifeNext /\ UNCHANGED partVars
       \/ part = "starts" /\ StartsNext /\ UNCHANGED partVars
       \/ part = "output" /\ OutputNext /\ UNCHANGED pmVars
       \/ part = "artifacts" /\ ArtifactsNext /\ UNCHANGED pmVars
       \/ part = "requests" /\ Net!NetNext /\ UNCHANGED <<pmVars, v5, v6, v7, v8, v9, v10, v11, v12, v13>>
       \* Who leaves the session and returns to it sees one snapshot fewer.
       \/ /\ part = "live" /\ Live!LiveNext /\ UNCHANGED <<pmVars, v10, v11, v12, v13>>
          /\ v7'.away > 0 => v7'.snapshots < MaxPolls

MCSpec == MCInit /\ [][MCNext]_vars

\* ProcessOutput!NothingSilentlyLost, BufferIsSuffix, GlobalLimit and ReservationHonoured: readers
\* are told of every character they miss, the limits drop from the front only, and a reserved place
\* for a log is there when the log is stored.
OutputAccountedFor == part \in {"output", "artifacts"} =>
    /\ Out!NothingSilentlyLost /\ Out!BufferIsSuffix /\ Out!GlobalLimit
    /\ Out!ReservationHonoured

\* NetworkRequests!RequestsSound: a change goes out once, headers stay with their origin, the budget
\* counts everything, and a download is one answer.
RequestsSound == part = "requests" => Net!RequestsSound

\* LiveMessages!LiveSound: text that was delivered stays on display, each piece once and in order.
LiveSound == part = "live" => Live!LiveSound
=============================================================================
