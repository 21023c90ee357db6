SPECIFICATION Spec
CONSTANTS
    c1 = c1
    c2 = c2
    NoCaller = NoCaller
    Callers = {c1, c2}
    MaxProbes = 2
    OpenDuration = 2
    WindowDuration = 1
    MinSamples = 1
    RateNum = 1
    RateDen = 2
    MaxEntries = 2
    MaxTime = 6
SYMMETRY CallerSymmetry
INVARIANTS TypeOK MirrorMatches ProbesBounded
PROPERTIES RefusedForFreshClaim
