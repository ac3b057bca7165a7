SPECIFICATION MCSpec
CONSTANTS
    Session = {s1, s2}
    Proc = {p1, p2}
    StopCall = {c1, c2}
    Reading = {a1, a2, a3}
    None = None
    MaxActive = 1
    MaxPerSession = 1
    MaxStops = 2
    Restarts = 1
    MaxChunk = 2
    MaxBuffer = 3
    MaxGlobal = 4
    MaxSnapshots = 1
    MaxAllSnapshots = 2
    Written = 4
    One = p1
    OneSession = s1
    OneStop = c1
    Requester = {q1, q2}
    Downloader = q1
    Host = {h1, h2}
    Home = h1
    MaxFetching = 2
    MaxRequests = 3
    MaxTurnBytes = 2
    MaxBytes = 2
    MaxHops = 1
    MaxChunks = 3
    MaxResponses = 2
    MaxTools = 2
    MaxPolls = 2
    MaxAway = 1
    MaxWire = 2
INVARIANTS
    StoppedForGood
    WithinLimits
    
    OutputAccountedFor
    RequestsSound
    LiveSound
PROPERTY OutcomeIsFinal
CHECK_DEADLOCK FALSE
