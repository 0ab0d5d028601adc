SPECIFICATION FairSpecCron
CONSTANTS
  t1 = t1
  t2 = t2
  t3 = t3
  n1 = n1
  n2 = n2
  None = None
  Muxes = {t1, t2, t3}
  Cards = {n1}
INVARIANT TypeOKCron
INVARIANT OneTunnel
INVARIANT TunnelToUse
INVARIANT LastIsRecorded
PROPERTY TunnelRestored
PROPERTY RecordSettles
