SPECIFICATION FairSpecCalls
CONSTANTS
  c1 = c1
  c2 = c2
  None = None
  Center = Center
  Network = Network
  Brokers = {b1, b2}
  Machines = {m1, m2}
  AgentIDs = {a1, a2}
  Conns = {c1, c2}
  Asked <- AskedOfOne
  a1 = a1
  b1 = b1
  Requests = {q1}
  DbFaults = FALSE
  UniqueMachineID = TRUE
  Stoppable = {}
  Throttled = {}
INVARIANT TypeOKCalls
INVARIANT RequestReachesItsAgent
PROPERTY UnreachableIsTrue
 
PROPERTY RequestEndsWithSession
