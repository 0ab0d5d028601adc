SPECIFICATION Spec
CONSTANTS
  b1 = b1
  b2 = b2
  c1 = c1
  c2 = c2
  c3 = c3
  a1 = a1
  m1 = m1
  None = None
  Brokers = {b1, b2}
  Machines = {m1}
  AgentIDs = {a1}
  Conns = {c1, c2, c3}
  DbFaults = FALSE
  UniqueMachineID = TRUE
  Stoppable = {b1}
  Throttled = {}
INVARIANT OneSessionPerMachine
SYMMETRY Symmetry
