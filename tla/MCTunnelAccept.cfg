SPECIFICATION FairSpec
CONSTANTS
  Tunnels = {t1}
INVARIANT TypeOK
INVARIANT NothingLeaks
INVARIANT StoppedTimerIsHarmless
PROPERTY TunnelDecided
PROPERTY TimedOutEnds
