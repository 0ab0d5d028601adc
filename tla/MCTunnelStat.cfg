SPECIFICATION FairSpecStat
CONSTANTS
  Brokers = {b1}
  Machines = {m1, m2}
  AgentIDs = {a1, a2}
  c1 = c1
  c2 = c2
  Conns = {c1, c2}
  None = None
  DbFaults = TRUE
  UniqueMachineID = TRUE
  Stoppable = {}
  Throttled = {}
  Runs = {r1}
  Batches = {1, 2}
  Directions = {"rx"}
  MaxTraffic = 1
INVARIANT TypeOKStat
INVARIANT ClosedStatIsFinal
INVARIANT StatIsOfItsAgent
PROPERTY StatConverges
