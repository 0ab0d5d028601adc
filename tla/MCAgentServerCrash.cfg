SPECIFICATION Spec
CONSTANTS
  b1 = b1
  b2 = b2
  c1 = c1
  c2 = c2
  c3 = c3
  a1 = a1
  a2 = a2
  m1 = m1
  None = None
  Brokers = {b1, b2}
  Machines = {m1}
  AgentIDs = {a1, a2}
  Conns = {c1, c2, c3}
  DbFaults = TRUE
  UniqueMachineID = TRUE
  Stoppable = {}
  Throttled = {}
INVARIANT SessionOwnsRecord
INVARIANT OneSessionPerMachine
PROPERTY LeaseSpec
SYMMETRY Symmetry
