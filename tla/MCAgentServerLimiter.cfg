SPECIFICATION Spec
CONSTANTS
  b1 = b1
  c1 = c1
  a1 = a1
  m1 = m1
  None = None
  Brokers = {b1}
  Machines = {m1}
  AgentIDs = {a1}
  Conns = {c1}
  DbFaults = FALSE
  UniqueMachineID = TRUE
  Stoppable = {}
  Throttled = {c1}
INVARIANT ThrottledStaysOffline
SYMMETRY Symmetry
