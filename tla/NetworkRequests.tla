---------------------------- MODULE NetworkRequests ----------------------------
(***************************************************************************)
(* executeSafeHttpRequest and the tools that use it, web_fetch,             *)
(* http_request and download_file: calls of one turn that run at the same   *)
(* time share a budget, try the routes of a plan one after the other,       *)
(* follow redirects, and stream a download into a file.                     *)
(*                                                                          *)
(* A body comes in chunks of one unit.  A route that fails in the middle of *)
(* a chunk leaves the write of that chunk in flight while the next route    *)
(* begins, so a unit of the staged file is named by the attempt that wrote  *)
(* it.  What is compared later on the way into the workspace is in          *)
(* Publication; the rules for addresses and names, the redaction of what is *)
(* reported and the formats of the bodies are left out.                     *)
(***************************************************************************)
EXTENDS Naturals, Sequences, FiniteSets, FiniteSetsExt

CONSTANTS
    Requester,     \* calls of a turn
    Host,
    MaxActive,     \* requests of a turn at the same time
    MaxRequests,   \* requests of a turn
    MaxTurnBytes,  \* bytes of a turn
    MaxBytes,      \* bytes of a call
    MaxHops        \* redirects of a call

VARIABLES
    fetch,  \* the calls
    turn,   \* the budget of the turn
    sink,   \* the staged file of a download and the counters kept beside it
    writes  \* writes of a download to its file that have not returned

netVars == <<fetch, turn, sink, writes>>

Url == [host : Host, tls : BOOLEAN]
NoSink == [file |-> <<>>, pos |-> 0, size |-> 0, hash |-> <<>>]

Waiting == {"authorize", "plan", "send"}
\* A request has gone out and its answer is not complete.
Receiving == {"sent", "truncate", "truncated", "body", "write"}
Storing == {"finish", "store", "present"}

NetTypeOK ==
    /\ fetch \in [Requester ->
          [kind : {"read", "change", "download"},
           at : {"idle", "done"} \cup Waiting \cup Receiving \cup Storing,
           first : Url, url : Url, secret : BOOLEAN, hops : 0..MaxHops, routes : 0..2,
           room : 0..MaxBytes, got : Nat, bytes : Nat, answer : {"ok", "error", "redirect"},
           attempts : Nat, sends : Nat, strayed : BOOLEAN, ok : BOOLEAN, stored : Seq(Nat)]]
    /\ turn \in [active : 0..MaxActive, bytes : Nat, requests : 0..MaxRequests]
    /\ sink \in [Requester -> [file : Seq(Nat), pos : Nat, size : Nat, hash : Seq(Nat)]]
    /\ writes \in [Requester -> SUBSET [by : Nat, pos : Nat, landed : BOOLEAN]]

NetInit ==
    /\ \E kind \in [Requester -> {"read", "change", "download"}], url \in Url :
          fetch = [c \in Requester |->
                [kind |-> kind[c], at |-> "idle", first |-> url, url |-> url, secret |-> TRUE,
                 hops |-> 0, routes |-> 0, room |-> 0, got |-> 0, bytes |-> 0, answer |-> "ok",
                 attempts |-> 0, sends |-> 0, strayed |-> FALSE, ok |-> FALSE, stored |-> <<>>]]
    /\ turn = [active |-> 0, bytes |-> 0, requests |-> 0]
    /\ sink = [c \in Requester |-> NoSink]
    /\ writes = [c \in Requester |-> {}]

Is(c, place) == fetch[c].at = place
Goes(c, place) == fetch' = [fetch EXCEPT ![c].at = place]
OnlyReads(c) == fetch[c].kind # "change"
Stays == UNCHANGED <<turn, sink, writes>>

\* The lease is released in the finally block of the request.
Released == [turn EXCEPT !.active = @ - 1]
End(c, ok) == [fetch EXCEPT ![c].at = "done", ![c].ok = ok]

-----------------------------------------------------------------------------
(* Until a request goes out.                                               *)

\* acquire: every limit is looked at before the lease is given.
Acquire(c) ==
    /\ Is(c, "idle")
    /\ IF /\ turn.active < MaxActive
          /\ turn.bytes < MaxTurnBytes
          /\ turn.requests < MaxRequests
       THEN turn' = [turn EXCEPT !.active = @ + 1] /\ Goes(c, "authorize")
       ELSE fetch' = End(c, FALSE) /\ UNCHANGED turn
    /\ UNCHANGED <<sink, writes>>

\* The method, the limits, the headers or the body are not acceptable.
Refused(c) ==
    /\ Is(c, "idle")
    /\ fetch' = End(c, FALSE)
    /\ Stays

\* authorizeHost and resolvePinnedAddress: the permission policy and the addresses of the host are
\* asked again at every hop.
Authorize(c) == Is(c, "authorize") /\ Goes(c, "plan") /\ Stays

\* planWithFallback: a plan has the direct route, or the system's and the direct one.  Only one is
\* eligible for a request that changes something.
Plan(c) ==
    /\ Is(c, "plan")
    /\ \E n \in 1..(IF OnlyReads(c) THEN 2 ELSE 1) :
          fetch' = [fetch EXCEPT ![c].at = "send", ![c].routes = n]
    /\ Stays

Less(a, b) == IF a < b THEN a ELSE b
Room(c) == Less(MaxBytes - fetch[c].bytes, MaxTurnBytes - turn.bytes)

\* The remaining bytes are read here; other calls of the turn receive theirs meanwhile.
Send(c) ==
    /\ Is(c, "send")
    /\ fetch[c].bytes < MaxBytes /\ turn.bytes < MaxTurnBytes
    /\ turn.requests < MaxRequests
    /\ turn' = [turn EXCEPT !.requests = @ + 1]
    /\ fetch' = [fetch EXCEPT ![c].at = "sent", ![c].room = Room(c), ![c].got = 0,
                   ![c].sends = @ + 1, ![c].strayed =
                       @ \/ (fetch[c].secret /\ fetch[c].url # fetch[c].first)]
    /\ UNCHANGED <<sink, writes>>

\* No bytes or requests are left; only the latter counts as an attempt.
SendRefused(c) ==
    /\ Is(c, "send")
    /\ \/ /\ fetch[c].bytes >= MaxBytes \/ turn.bytes >= MaxTurnBytes
          /\ fetch' = End(c, FALSE)
       \/ /\ turn.requests >= MaxRequests
          /\ fetch' = [End(c, FALSE) EXCEPT ![c].attempts = @ + 1]
    /\ turn' = Released
    /\ UNCHANGED <<sink, writes>>

\* The request ends with an error; one that was going on is an attempt.
Ends(c) ==
    /\ fetch' = [End(c, FALSE) EXCEPT ![c].attempts = IF fetch[c].at \in Receiving THEN @ + 1 ELSE @]
    /\ turn' = Released
    /\ UNCHANGED <<sink, writes>>

\* The name of the host, or one of its addresses, is none that may be reached.
HostRefused(c) == Is(c, "authorize") /\ Ends(c)

\* The turn is interrupted, or the deadline of the call passes.
Aborted(c) == fetch[c].at \in Waiting \cup Receiving /\ Ends(c)

\* There is no plan, or the transport fails in a way that is not worth another route.
Fails(c) == fetch[c].at \in {"plan"} \cup Receiving /\ Ends(c)

\* The body has a type that the call does not expect.
WrongType(c) == Is(c, "sent") /\ Ends(c)

-----------------------------------------------------------------------------
(* The answer.                                                             *)

IsSinked(c) == fetch[c].kind = "download" /\ fetch[c].answer = "ok"

\* The head of the response.  A download opens
\* its file at the first answer that has its body, and truncates it at every later one.
Response(c) ==
    /\ Is(c, "sent")
    /\ \E answer \in {"ok", "error", "redirect"} :
          fetch' = [fetch EXCEPT ![c].answer = answer,
                      ![c].at = IF fetch[c].kind = "download" /\ answer = "ok"
                                THEN "truncate" ELSE "body"]
    /\ Stays

Truncate(c) ==
    /\ Is(c, "truncate")
    /\ sink' = [sink EXCEPT ![c].file = <<>>]
    /\ Goes(c, "truncated")
    /\ UNCHANGED <<turn, writes>>

ResetCounters(c) ==
    /\ Is(c, "truncated")
    /\ sink' = [sink EXCEPT ![c].pos = 0, ![c].size = 0, ![c].hash = <<>>]
    /\ Goes(c, "body")
    /\ UNCHANGED <<turn, writes>>

Attempt(c) == fetch[c].attempts + 1

\* Mutant: a chunk is counted for its call only.
ChunkOfCall(c) ==
    /\ Is(c, "body")
    /\ fetch[c].got < fetch[c].room
    /\ fetch' = [fetch EXCEPT ![c].got = @ + 1, ![c].bytes = @ + 1,
                   ![c].at = IF IsSinked(c) THEN "write" ELSE "body"]
    /\ IF IsSinked(c)
       THEN /\ sink' = [sink EXCEPT ![c].hash = Append(@, Attempt(c))]
            /\ writes' = [writes EXCEPT ![c] =
                  @ \cup {[by |-> Attempt(c), pos |-> sink[c].pos, landed |-> FALSE]}]
       ELSE UNCHANGED <<sink, writes>>
    /\ UNCHANGED turn

\* A chunk is counted before any limit can reject it, for the call and for the turn.
Chunk(c) ==
    /\ Is(c, "body")
    /\ fetch[c].got < fetch[c].room /\ turn.bytes < MaxTurnBytes
    /\ turn' = [turn EXCEPT !.bytes = @ + 1]
    /\ fetch' = [fetch EXCEPT ![c].got = @ + 1, ![c].bytes = @ + 1,
                   ![c].at = IF IsSinked(c) THEN "write" ELSE "body"]
    /\ IF IsSinked(c)
       THEN /\ sink' = [sink EXCEPT ![c].hash = Append(@, Attempt(c))]
            /\ writes' = [writes EXCEPT ![c] =
                  @ \cup {[by |-> Attempt(c), pos |-> sink[c].pos, landed |-> FALSE]}]
       ELSE UNCHANGED <<sink, writes>>

\* The chunk exceeds the call's limit, or what is left of the turn since others used it.
TooLarge(c) ==
    /\ Is(c, "body")
    /\ fetch[c].got >= fetch[c].room \/ turn.bytes >= MaxTurnBytes
    /\ fetch' = [End(c, FALSE) EXCEPT ![c].attempts = @ + 1, ![c].bytes = @ + 1]
    /\ turn' = [Released EXCEPT !.bytes = @ + 1]
    /\ UNCHANGED <<sink, writes>>

\* The operating system carries a write out, and later the call goes on after it.
WriteLands(c) ==
    \E w \in writes[c] :
        /\ ~w.landed
        /\ LET file == sink[c].file
               length == IF Len(file) > w.pos THEN Len(file) ELSE w.pos + 1
           IN sink' = [sink EXCEPT ![c].file = [i \in 1..length |->
                          IF i = w.pos + 1 THEN w.by ELSE IF i <= Len(file) THEN file[i] ELSE 0]]
        /\ writes' = [writes EXCEPT ![c] = (@ \ {w}) \cup {[w EXCEPT !.landed = TRUE]}]
        /\ UNCHANGED <<fetch, turn>>

WriteReturns(c) ==
    \E w \in writes[c] :
        /\ w.landed
        /\ sink' = [sink EXCEPT ![c].pos = @ + 1, ![c].size = @ + 1]
        /\ writes' = [writes EXCEPT ![c] = @ \ {w}]
        /\ IF Is(c, "write") /\ w.by = Attempt(c) THEN Goes(c, "body") ELSE UNCHANGED fetch
        /\ UNCHANGED turn

\* The connection or the proxy fails: a request that only reads is sent again by the next route.
RouteFails(c) ==
    /\ fetch[c].at \in Receiving
    /\ IF OnlyReads(c) /\ fetch[c].routes > 1
       THEN /\ fetch' = [fetch EXCEPT ![c].at = "send", ![c].routes = @ - 1, ![c].attempts = @ + 1]
            /\ UNCHANGED turn
       ELSE /\ fetch' = [End(c, FALSE) EXCEPT ![c].attempts = @ + 1]
            /\ turn' = Released
    /\ UNCHANGED <<sink, writes>>

-----------------------------------------------------------------------------
(* When the answer is complete.                                            *)

SameOrigin(a, b) == a = b

\* Mutant: the headers go along to wherever the redirect points.
FollowWithHeaders(c) ==
    /\ Is(c, "body") /\ fetch[c].answer = "redirect" /\ OnlyReads(c)
    /\ fetch[c].hops < MaxHops
    /\ \E url \in Url :
          /\ fetch[c].url.tls => url.tls
          /\ fetch' = [fetch EXCEPT ![c].at = "authorize", ![c].url = url, ![c].hops = @ + 1,
                         ![c].attempts = @ + 1]
    /\ Stays

\* Mutant: a redirect is followed whatever the request does.
FollowAlways(c) ==
    /\ Is(c, "body") /\ fetch[c].answer = "redirect"
    /\ fetch[c].hops < MaxHops
    /\ \E url \in Url :
          /\ fetch[c].url.tls => url.tls
          /\ fetch' = [fetch EXCEPT ![c].at = "authorize", ![c].url = url, ![c].hops = @ + 1,
                         ![c].attempts = @ + 1,
                         ![c].secret = @ /\ SameOrigin(fetch[c].url, url)]
    /\ Stays

\* A redirect is followed when the request only reads; never from https to http, and with the
\* headers that say nothing about the user when the origin changes.
Follow(c) ==
    /\ Is(c, "body") /\ fetch[c].answer = "redirect" /\ OnlyReads(c)
    /\ fetch[c].hops < MaxHops
    /\ \E url \in Url :
          /\ fetch[c].url.tls => url.tls
          /\ fetch' = [fetch EXCEPT ![c].at = "authorize", ![c].url = url, ![c].hops = @ + 1,
                         ![c].attempts = @ + 1,
                         ![c].secret = @ /\ SameOrigin(fetch[c].url, url)]
    /\ Stays

\* Too many redirects, or one to where the call may not go.
RedirectRefused(c) ==
    /\ Is(c, "body") /\ fetch[c].answer = "redirect" /\ OnlyReads(c)
    /\ fetch' = [End(c, FALSE) EXCEPT ![c].attempts = @ + 1]
    /\ turn' = Released
    /\ UNCHANGED <<sink, writes>>

\* Anything else is the result, also a redirect without a location or of a request that changes
\* something.  A download goes on only with a body.
Complete(c) ==
    /\ Is(c, "body")
    /\ fetch' = [fetch EXCEPT ![c].attempts = @ + 1,
                    ![c].at = IF IsSinked(c) THEN "finish"
                              ELSE IF fetch[c].kind # "download" THEN "present" ELSE "done"]
    /\ turn' = Released
    /\ UNCHANGED <<sink, writes>>

\* The body is made readable; what is too long for the answer, or no text, is stored.
Present(c) == Is(c, "present") /\ fetch' = End(c, TRUE) /\ Stays

\* DownloadStreamSink.finish, and the size and hash of the transport compared with those of the sink.
Finish(c) ==
    /\ Is(c, "finish")
    /\ IF /\ Len(sink[c].file) = sink[c].size
          /\ sink[c].size = fetch[c].got
          /\ sink[c].hash = [i \in 1..fetch[c].got |-> fetch[c].attempts]
       THEN Goes(c, "store") ELSE fetch' = End(c, FALSE)
    /\ Stays

\* Mutant: what is stored is not compared with what was received.
StoreUnchecked(c) ==
    /\ Is(c, "store")
    /\ fetch' = [End(c, TRUE) EXCEPT ![c].stored = sink[c].file]
    /\ Stays

\* storeToolOutputArtifactFromFile copies the file and compares the hash of the copy.
\* commitWorkspaceDownload compares the staged file in the same way before it links it.
Store(c) ==
    /\ Is(c, "store")
    /\ fetch' = IF sink[c].file = sink[c].hash
                THEN [End(c, TRUE) EXCEPT ![c].stored = sink[c].file] ELSE End(c, FALSE)
    /\ Stays

\* An abort counts here too, and the answer of a change that took place is then not reported.
StoreFails(c) ==
    /\ fetch[c].at \in Storing
    /\ fetch' = End(c, FALSE)
    /\ Stays

RequestStep(c) ==
    \/ Refused(c) \/ Acquire(c) \/ Authorize(c) \/ HostRefused(c) \/ Aborted(c) \/ WrongType(c)
    \/ Plan(c) \/ Send(c) \/ SendRefused(c) \/ Fails(c)
    \/ Response(c) \/ Truncate(c) \/ ResetCounters(c) \/ Chunk(c) \/ TooLarge(c)
    \/ WriteLands(c) \/ WriteReturns(c) \/ RouteFails(c)
    \/ Follow(c) \/ RedirectRefused(c) \/ Complete(c) \/ Present(c) \/ Finish(c) \/ Store(c) \/ StoreFails(c)

NetNext == \E c \in Requester : RequestStep(c)

NetSpec == NetInit /\ [][NetNext]_netVars

-----------------------------------------------------------------------------
(* Properties.                                                             *)

\* A request that changes something goes out at most once, whatever fails and wherever the answer
\* points.
ChangesOnce == \A c \in Requester : ~OnlyReads(c) => fetch[c].sends <= 1

\* What the user's headers say goes to the origin that was asked for and to no other, also not
\* after redirects away and back, nor ever in the clear when it was to be encrypted.
HeadersStay ==
    \A c \in Requester :
        ~fetch[c].strayed /\ (fetch[c].first.tls => fetch[c].url.tls)

TotalOf(count, calls) == MapThenSumSet(LAMBDA c : count[c], calls)

\* However the calls of a turn interleave, fail and are aborted: each request that went out is in
\* the audit and in the budget, so is every byte, the bytes of the turn exceed the limit by one chunk of each call at
\* most, and the lease of a call that is over is returned.
BudgetHolds ==
    LET atWork == {c \in Requester : fetch[c].at \in Waiting \cup Receiving}
    IN /\ turn.active = Cardinality(atWork)
       /\ turn.requests = TotalOf([c \in Requester |-> fetch[c].sends], Requester)
       /\ turn.bytes = TotalOf([c \in Requester |-> fetch[c].bytes], Requester)
       /\ turn.bytes <= MaxTurnBytes + Cardinality(Requester)
       /\ \A c \in Requester : Is(c, "done") => fetch[c].attempts >= fetch[c].sends

\* A download that reports success has stored every unit of one answer and nothing of another,
\* also when a write of an earlier route comes late.
DownloadIsOneAnswer ==
    \A c \in Requester :
        fetch[c].kind = "download" /\ Is(c, "done") /\ fetch[c].ok =>
            fetch[c].stored = [i \in 1..fetch[c].got |-> fetch[c].attempts]

RequestsSound == ChangesOnce /\ HeadersStay /\ BudgetHolds /\ DownloadIsOneAnswer
=============================================================================
