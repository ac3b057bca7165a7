SPECIFICATION MCSpec
CONSTANTS
    p1 = p1  p2 = p2  p3 = p3
    t1 = t1  t2 = t2  t3 = t3
    u1 = u1  u2 = u2  u3 = u3
    c1 = c1  c2 = c2  c3 = c3
    k1 = k1  k2 = k2
    Process = {p1, p2, p3}
    ModeOf <- Modes
    Task = {t1, t2, t3, u1, u2, u3}
    ProcessOf <- Processes
    Call = {c1, c2, c3}
    Key = {k1, k2}
    KeyOf <- Keys
    EffectOf <- Effects
    External = {c1, c2}
    MaxApprovals = 2
    MaxConsents = 2
SYMMETRY Symmetry
INVARIANTS
    OneExecutionPerConsent
    DecisionStands
    ResolvedOnceByOneProcess
    ConsentGoverns
PROPERTIES
    ImplementsLedger
