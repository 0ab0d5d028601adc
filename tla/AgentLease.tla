----------------------------- MODULE AgentLease -----------------------------
(***************************************************************************)
(* What the agent records in MongoDB promise to a fleet of brokers: being  *)
(* online is a lease.  A session may take the lease of an agent only when  *)
(* nobody holds it; leases are given back one by one when sessions end and *)
(* all together when the broker that holds them dies.                      *)
(*                                                                         *)
(* AgentServer implements this specification with its records, as long as  *)
(* no broker is stopped gracefully (AgentServer!LeaseSpec), and with the   *)
(* pool of each broker always (AgentServer!PoolLeaseSpec).                 *)
(***************************************************************************)
CONSTANTS
  AgentIDs,  \* the agent records
  Sessions   \* the sessions that compete for them

VARIABLE holders  \* for each agent record, the sessions that hold its lease

Init == holders = [id \in AgentIDs |-> {}]

Acquire(id, s) ==
  /\ holders[id] = {}
  /\ holders' = [holders EXCEPT ![id] = {s}]

Release(gone) ==
  holders' = [id \in AgentIDs |-> holders[id] \ gone]

Next ==
  \/ \E id \in AgentIDs, s \in Sessions : Acquire(id, s)
  \/ \E gone \in SUBSET Sessions : Release(gone)

Spec == Init /\ [][Next]_holders
=============================================================================
