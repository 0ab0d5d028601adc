------------------------- MODULE AgentRecord_proofs -------------------------
(***************************************************************************)
(* Proofs about the agent records of AgentServer: who owns a record, that  *)
(* coming online is a lease, and when a record tells the truth.            *)
(***************************************************************************)
EXTENDS AgentServer_proofs

USE ConstantsAssumption DEF ConstantsAssumption

-----------------------------------------------------------------------------
(***************************************************************************)
(* What one step does to the record of an agent and to the sessions that   *)
(* hold it.  Each lemma says so for one kind of step, so that the          *)
(* invariants below need not open the actions again.                       *)
(***************************************************************************)
HoldsRecord(c) ==
  LET doc == agents[conn[c].agent]
  IN doc.status /\ doc.broker = conn[c].broker /\ doc.session = c

\* Steps of a handler that write no record and hold or release none.
Quiet(c) ==
  \/ \E b \in Brokers, m \in Machines : Connect(c, b, m)
  \/ AuthFails(c) \/ FindAgent(c) \/ PutPeer(c) \/ RespondAccepted(c)
  \/ AcceptFails(c) \/ EvictPeer(c) \/ LeaveHub(c) \/ SaveHistory(c)

\* None of these steps writes a record or moves a holder.
LEMMA QuietStep ==
  ASSUME TypeOK, NEW c \in Conns, Quiet(c)
  PROVE  /\ UNCHANGED <<agents, phase>>
         /\ pc[c] \notin Holding /\ pc'[c] \notin Holding
         /\ \A d \in Conns : d # c => pc'[d] = pc[d] /\ conn'[d] = conn[d]
  BY DEF Quiet, Connect, AuthFails, FindAgent, PutPeer, RespondAccepted, AcceptFails,
    EvictPeer, LeaveHub, SaveHistory, TypeOK, Holding

\* A document is inserted for a machine that is nobody's record.
LEMMA InsertStep ==
  ASSUME TypeOK, NEW c \in Conns, InsertAgent(c)
  PROVE  /\ UNCHANGED phase
         /\ pc[c] \notin Holding /\ pc'[c] \notin Holding
         /\ \A d \in Conns : d # c => pc'[d] = pc[d] /\ conn'[d] = conn[d]
         /\ \/ UNCHANGED agents
            \/ \E id \in AgentIDs :
                 /\ agents[id].machine = None /\ ~agents'[id].status
                 /\ agents'[id].machine = conn[c].machine
                 /\ ~DuplicateKey(conn[c].machine)
                 /\ \A i \in AgentIDs : i # id => agents'[i] = agents[i]
<1>1. /\ UNCHANGED phase
      /\ pc[c] \notin Holding /\ pc'[c] \notin Holding
      /\ \A d \in Conns : d # c => pc'[d] = pc[d] /\ conn'[d] = conn[d]
  BY DEF InsertAgent, TypeOK, Holding
<1>2. CASE UNCHANGED agents
  BY <1>1, <1>2
<1>3. ASSUME NEW id \in DocsOf(None), ~DuplicateKey(conn[c].machine),
             agents' = [agents EXCEPT ![id] = NewDoc(conn[c].machine)]
      PROVE  /\ id \in AgentIDs
             /\ agents[id].machine = None /\ ~agents'[id].status
             /\ agents'[id].machine = conn[c].machine
             /\ \A i \in AgentIDs : i # id => agents'[i] = agents[i]
  BY <1>3 DEF DocsOf, NewDoc, NoDoc, TypeOK
<1> QED
  BY <1>1, <1>2, <1>3 DEF InsertAgent

\* updateAgentOnline takes a record that is offline, or leaves it alone.
LEMMA OnlineStep ==
  ASSUME TypeOK, NEW c \in Conns, GoOnline(c)
  PROVE  /\ UNCHANGED <<phase, conn>>
         /\ pc[c] \notin Holding /\ conn[c].agent \in AgentIDs
         /\ conn[c].broker \in Brokers
         /\ \A d \in Conns : d # c => pc'[d] = pc[d]
         /\ \/ /\ ~agents[conn[c].agent].status
               /\ agents'[conn[c].agent].status
               /\ agents'[conn[c].agent].machine = agents[conn[c].agent].machine
               /\ agents'[conn[c].agent].broker = conn[c].broker
               /\ agents'[conn[c].agent].session = c
               /\ \A i \in AgentIDs : i # conn[c].agent => agents'[i] = agents[i]
               /\ pc'[c] \in Holding \/ (MayFail(conn[c].broker) /\ pc'[c] \notin Holding)
            \/ UNCHANGED agents /\ pc'[c] \notin Holding
<1>1. /\ UNCHANGED <<phase, conn>>
      /\ pc[c] \notin Holding /\ conn[c].agent \in AgentIDs /\ conn[c].broker \in Brokers
      /\ \A d \in Conns : d # c => pc'[d] = pc[d]
  BY DEF GoOnline, TypeOK, Holding, Running, Pooled
<1>2. CASE UNCHANGED agents /\ pc' = [pc EXCEPT ![c] = "evict"]
  BY <1>1, <1>2 DEF TypeOK, Holding
<1>3. CASE /\ OnlineFilter(conn[c].agent) /\ SetOnline(conn[c].agent, conn[c].broker, c)
           /\ \/ pc' = [pc EXCEPT ![c] = "serve"]
              \/ MayFail(conn[c].broker) /\ pc' = [pc EXCEPT ![c] = "evict"]
  <2> DEFINE id == conn[c].agent
  <2>1. agents' = [agents EXCEPT ![id] = [machine |-> agents[id].machine, status |-> TRUE,
                                           broker |-> conn[c].broker, session |-> c]]
    BY <1>3 DEF SetOnline
  <2>2. /\ agents'[id].status /\ agents'[id].machine = agents[id].machine
        /\ agents'[id].broker = conn[c].broker /\ agents'[id].session = c
        /\ \A i \in AgentIDs : i # id => agents'[i] = agents[i]
    BY <1>1, <2>1 DEF TypeOK
  <2>3. pc'[c] \in Holding \/ (MayFail(conn[c].broker) /\ pc'[c] \notin Holding)
    <3>1. CASE pc' = [pc EXCEPT ![c] = "serve"]
      BY <3>1 DEF TypeOK, Holding
    <3>2. CASE MayFail(conn[c].broker) /\ pc' = [pc EXCEPT ![c] = "evict"]
      BY <3>2 DEF TypeOK, Holding
    <3> QED BY <1>3, <3>1, <3>2
  <2>4. ~agents[id].status
    BY <1>3 DEF OnlineFilter
  <2> QED BY <1>1, <2>2, <2>3, <2>4
<1> QED BY <1>2, <1>3 DEF GoOnline

\* disconnection clears a record that is online, or leaves it alone because it
\* is offline already or because the database failed.
LEMMA OfflineStep ==
  ASSUME TypeOK, NEW c \in Conns, GoOffline(c)
  PROVE  /\ UNCHANGED <<phase, conn>>
         /\ pc[c] \in Holding /\ pc'[c] \notin Holding
         /\ conn[c].agent \in AgentIDs
         /\ \A d \in Conns : d # c => pc'[d] = pc[d]
         /\ \A i \in AgentIDs :
              /\ agents'[i].machine = agents[i].machine
              /\ i # conn[c].agent => agents'[i] = agents[i]
         /\ \/ ~agents'[conn[c].agent].status
            \/ UNCHANGED agents /\ MayFail(conn[c].broker)
<1>1. /\ UNCHANGED <<phase, conn>>
      /\ pc[c] \in Holding /\ pc'[c] \notin Holding /\ conn[c].agent \in AgentIDs
      /\ \A d \in Conns : d # c => pc'[d] = pc[d]
  BY DEF GoOffline, TypeOK, Holding, Pooled
<1>2. CASE UNCHANGED agents /\ (~OfflineFilter(conn[c].agent) \/ MayFail(conn[c].broker))
  BY <1>1, <1>2 DEF OfflineFilter
<1>3. CASE SetOffline({conn[c].agent})
  <2>1. agents[conn[c].agent] \in Doc
    BY <1>1 DEF TypeOK
  <2>2. /\ agents'[conn[c].agent] = [agents[conn[c].agent] EXCEPT !.status = FALSE]
        /\ \A i \in AgentIDs : i # conn[c].agent => agents'[i] = agents[i]
    BY <1>1, <1>3 DEF SetOffline
  <2>3. /\ agents'[conn[c].agent].machine = agents[conn[c].agent].machine
        /\ ~agents'[conn[c].agent].status
    BY <2>1, <2>2, OfflineDoc
  <2> QED BY <1>1, <2>2, <2>3
<1> QED BY <1>2, <1>3 DEF GoOffline

\* A process ends: its holders are gone, the other handlers stay.
LEMMA EndStep ==
  ASSUME TypeOK, NEW b \in Brokers, ProcessEnds(b)
  PROVE  /\ UNCHANGED <<agents, conn>>
         /\ phase' = [phase EXCEPT ![b] = "down"]
         /\ \A c \in Conns : pc'[c] \in Holding <=> pc[c] \in Holding /\ conn[c].broker # b
         /\ \A c \in Conns : pc'[c] \in Holding => pc'[c] = pc[c]
  BY DEF ProcessEnds, TypeOK, Holding, Running, Pooled

-----------------------------------------------------------------------------
(***************************************************************************)
(* Who owns a record.  The Reset of a stopping broker takes the records    *)
(* away from under its handlers, which still run; no other step does.      *)
(***************************************************************************)

\* The Reset at the end of Exec finds no session of its broker.
DrainedStop == \A b \in Brokers : StopReset(b) => Drained(b)

RecordInv == PoolInv /\ SessionOwnsRecord

\* A session that holds its agent holds its record, and is alone in that.
LEMMA OneHolder ==
  ASSUME SessionOwnsRecord, NEW c \in Conns, NEW d \in Conns,
         pc[c] \in Holding, pc[d] \in Holding, conn[c].agent = conn[d].agent
  PROVE  c = d
  BY DEF SessionOwnsRecord

\* At first nobody holds anything.
LEMMA RecordInit == Init => RecordInv
<1> SUFFICES ASSUME Init PROVE RecordInv
  OBVIOUS
<1>1. PoolInv
  BY PoolInit
<1> QED BY <1>1 DEF Init, RecordInv, SessionOwnsRecord, Holding

\* Every step leaves each holder its record.
LEMMA RecordNext ==
  ASSUME RecordInv, [Next]_vars, DrainedStop \/ UNCHANGED vars
  PROVE  RecordInv'
<1>0. TypeOK /\ PoolInv /\ PoolInv' /\ ProcessRuns /\ SessionOwnsRecord
  BY PoolNext DEF RecordInv, PoolInv
<1>t. \A c \in Conns : pc[c] \in Holding =>
        /\ conn[c].broker \in Brokers /\ conn[c].agent \in AgentIDs
        /\ conn[c].machine \in Machines /\ pc[c] \in Running
        /\ agents[conn[c].agent].machine = conn[c].machine
  BY <1>0 DEF TypeOK, Holding, Running, Pooled
<1>1. ASSUME NEW b \in Brokers, Boot(b) \/ StopReset(b), DrainedStop PROVE RecordInv'
  <2>1. UNCHANGED <<pc, conn>> /\ Reset(b)
    BY <1>1 DEF Boot, StopReset
  <2>2. Drained(b)
    <3>1. CASE Boot(b)
      BY <1>0, <1>t, <3>1 DEF Boot, ProcessRuns, Drained
    <3>2. CASE StopReset(b)
      BY <1>1, <3>2 DEF DrainedStop
    <3> QED BY <1>1, <3>1, <3>2
  <2>3. \A id \in AgentIDs :
          /\ agents'[id].broker = agents[id].broker
          /\ agents'[id].session = agents[id].session
          /\ agents[id].status /\ agents[id].broker # b => agents'[id].status
    BY <1>0, <2>1, ResetFacts DEF TypeOK
  <2>4. SessionOwnsRecord'
    BY <1>0, <1>t, <2>1, <2>2, <2>3 DEF SessionOwnsRecord, Drained
  <2> QED BY <1>0, <2>4 DEF RecordInv
<1>2. ASSUME NEW b \in Brokers, Stop(b) PROVE RecordInv'
  BY <1>0, <1>2 DEF Stop, RecordInv, SessionOwnsRecord
<1>3. ASSUME NEW b \in Brokers, ProcessEnds(b) PROVE RecordInv'
  BY <1>0, <1>3, EndStep DEF RecordInv, SessionOwnsRecord
<1>4. ASSUME NEW c \in Conns, Quiet(c) PROVE RecordInv'
  BY <1>0, <1>4, QuietStep DEF RecordInv, SessionOwnsRecord
<1>5. ASSUME NEW c \in Conns, InsertAgent(c) PROVE RecordInv'
  <2>1. \A d \in Conns : pc'[d] \in Holding =>
          /\ pc[d] \in Holding /\ conn'[d] = conn[d]
          /\ agents'[conn[d].agent] = agents[conn[d].agent]
    BY <1>0, <1>t, <1>5, InsertStep
  <2>2. SessionOwnsRecord'
    BY <1>0, <2>1 DEF SessionOwnsRecord
  <2> QED BY <1>0, <2>2 DEF RecordInv
<1>6. ASSUME NEW c \in Conns, GoOnline(c) PROVE RecordInv'
  <2>1. UNCHANGED <<phase, conn>>
    BY <1>0, <1>6, OnlineStep
  <2>2. \A d \in Conns : d # c /\ pc'[d] \in Holding =>
          /\ pc[d] \in Holding
          /\ agents'[conn[d].agent] = agents[conn[d].agent]
    BY <1>0, <1>t, <1>6, OnlineStep DEF SessionOwnsRecord
  <2>3. pc'[c] \in Holding =>
          /\ agents'[conn[c].agent].status
          /\ agents'[conn[c].agent].broker = conn[c].broker
          /\ agents'[conn[c].agent].session = c
    BY <1>0, <1>6, OnlineStep
  <2>4. SessionOwnsRecord'
    BY <1>0, <2>1, <2>2, <2>3 DEF SessionOwnsRecord
  <2> QED BY <1>0, <2>1, <2>4 DEF RecordInv
<1>7. ASSUME NEW c \in Conns, ServeEnds(c) PROVE RecordInv'
  <2>1. /\ UNCHANGED <<agents, conn, phase>>
        /\ \A d \in Conns : pc'[d] \in Holding <=> pc[d] \in Holding
    BY <1>0, <1>7 DEF ServeEnds, TypeOK, Holding
  <2> QED BY <1>0, <2>1 DEF RecordInv, SessionOwnsRecord
<1>8. ASSUME NEW c \in Conns, GoOffline(c) PROVE RecordInv'
  <2>1. /\ UNCHANGED <<phase, conn>> /\ pc[c] \in Holding
        /\ \A d \in Conns : pc'[d] \in Holding => d # c /\ pc[d] \in Holding
        /\ \A i \in AgentIDs : i # conn[c].agent => agents'[i] = agents[i]
    BY <1>0, <1>8, OfflineStep
  <2>2. \A d \in Conns : pc'[d] \in Holding => conn[d].agent # conn[c].agent
    BY <1>0, <2>1, OneHolder
  <2>3. SessionOwnsRecord'
    BY <1>0, <1>t, <2>1, <2>2 DEF SessionOwnsRecord
  <2> QED BY <1>0, <2>1, <2>3 DEF RecordInv
<1>9. CASE UNCHANGED vars
  BY <1>0, <1>9 DEF vars, RecordInv, SessionOwnsRecord
<1> QED
  BY <1>1, <1>2, <1>3, <1>4, <1>5, <1>6, <1>7, <1>8, <1>9
  DEF Next, BrokerStep, HandlerStep, TunnelStep, Quiet

\* Without graceful stops a process is down or up.
NeverStopping == phase \in [Brokers -> {"down", "up"}]

\* Then no broker ever gets to the Reset of a shutdown.
LEMMA NoStopNext ==
  ASSUME Stoppable = {}, NeverStopping, [Next]_vars
  PROVE  NeverStopping' /\ (DrainedStop \/ UNCHANGED vars)
<1>1. DrainedStop
  BY DEF NeverStopping, DrainedStop, StopReset
<1>2. ASSUME NEW b \in Brokers, BrokerStep(b) PROVE NeverStopping'
  BY <1>2 DEF NeverStopping, BrokerStep, Boot, Stop, StopReset, ProcessEnds
<1>3. ASSUME UNCHANGED phase PROVE NeverStopping'
  BY <1>3 DEF NeverStopping
<1>4. ASSUME NEW c \in Conns, HandlerStep(c) \/ TunnelStep(c) PROVE UNCHANGED phase
  BY <1>4 DEF HandlerStep, TunnelStep, Connect, AuthFails, FindAgent, InsertAgent, PutPeer,
    RespondAccepted, AcceptFails, GoOnline, EvictPeer, ServeEnds, GoOffline, LeaveHub, SaveHistory
<1> QED BY <1>1, <1>2, <1>3, <1>4 DEF Next, vars

\* At first no broker is stopping.
LEMMA NoStopInit == Init => NeverStopping
  BY DEF Init, NeverStopping

\* Brokers may crash at any step, and database calls may fail, applied or not: a
\* session that serves an agent owns its record, where brokers are not stopped
\* gracefully.
THEOREM RecordOwned ==
  ASSUME Stoppable = {}
  PROVE  Spec => []SessionOwnsRecord
<1>1. RecordInv /\ NeverStopping /\ [Next]_vars => RecordInv' /\ NeverStopping'
  BY RecordNext, NoStopNext
<1>2. RecordInv => SessionOwnsRecord
  BY DEF RecordInv
<1> QED BY <1>1, <1>2, RecordInit, NoStopInit, PTL DEF Spec

\* With graceful stops too: if every session owned its record so far, the only
\* step after which one does not is the Reset of a broker stopped with sessions.
THEOREM OnlyStopsTakeRecords == Spec => OwnershipLostAtStop
<1> DEFINE Taken == \E b \in Brokers : /\ phase[b] = "stopping" /\ phase'[b] = "exiting"
                                      /\ ~Drained(b)
<1>1. ASSUME PoolInv, SessionOwnsRecord, [Next]_vars, ~Taken PROVE SessionOwnsRecord'
  <2>1. DrainedStop
    <3> SUFFICES ASSUME NEW b \in Brokers, StopReset(b) PROVE Drained(b)
      BY DEF DrainedStop
    <3>1. phase[b] = "stopping" /\ phase'[b] = "exiting"
      BY <1>1 DEF StopReset, PoolInv, TypeOK
    <3> QED BY <1>1, <3>1
  <2> QED BY <1>1, <2>1, RecordNext DEF RecordInv
<1>2. PoolInv /\ [Next]_vars => [SessionOwnsRecord => SessionOwnsRecord' \/ Taken]_vars
  BY <1>1
<1>3. PoolInv /\ [Next]_vars => PoolInv'
  BY PoolNext
<1> QED BY <1>2, <1>3, PoolInit, PTL DEF Spec, OwnershipLostAtStop

-----------------------------------------------------------------------------
(***************************************************************************)
(* Coming online implements the lease of AgentLease.                       *)
(***************************************************************************)
\* At first no lease is held.
LEMMA LeaseInit == Init => Lease!Init
  BY DEF Init, Lease!Init, Holders, Holding

\* A step that moves no handler into or out of the places that hold a record,
\* and changes no holder's agent, is a stuttering step of the lease.
LEMMA LeaseStutter ==
  ASSUME \A c \in Conns : pc'[c] \in Holding <=> pc[c] \in Holding,
         \A c \in Conns : pc[c] \in Holding => conn'[c] = conn[c]
  PROVE  UNCHANGED Holders
  BY DEF Holders

\* A step by which some sessions stop holding their record, and nothing else,
\* is a Release.
LEMMA LeaseRelease ==
  ASSUME NEW gone \in SUBSET Conns, UNCHANGED conn,
         \A c \in Conns : pc'[c] \in Holding <=> pc[c] \in Holding /\ c \notin gone
  PROVE  Lease!Next
<1>1. Holders' = [id \in AgentIDs |-> Holders[id] \ gone]
  BY DEF Holders
<1> QED BY <1>1 DEF Lease!Next, Lease!Release

\* Every step is a step of the lease, or leaves its holders as they are.
LEMMA LeaseNext ==
  ASSUME RecordInv, [Next]_vars
  PROVE  [Lease!Next]_Holders
<1>0. TypeOK /\ SessionOwnsRecord
  BY DEF RecordInv, PoolInv
<1>1. ASSUME NEW b \in Brokers, Boot(b) \/ Stop(b) \/ StopReset(b) PROVE UNCHANGED Holders
  BY <1>1 DEF Boot, Stop, StopReset, Holders
<1>2. ASSUME NEW b \in Brokers, ProcessEnds(b) PROVE Lease!Next
  <2> DEFINE gone == {c \in Conns : conn[c].broker = b}
  <2>1. /\ UNCHANGED conn
        /\ \A c \in Conns : pc'[c] \in Holding <=> pc[c] \in Holding /\ c \notin gone
    BY <1>0, <1>2, EndStep
  <2>2. gone \in SUBSET Conns
    OBVIOUS
  <2> HIDE DEF gone
  <2> QED BY <2>1, <2>2, LeaseRelease
<1>3. ASSUME NEW c \in Conns, Quiet(c) \/ InsertAgent(c) PROVE UNCHANGED Holders
  BY <1>0, <1>3, QuietStep, InsertStep, LeaseStutter
<1>4. ASSUME NEW c \in Conns, ServeEnds(c) PROVE UNCHANGED Holders
  BY <1>0, <1>4, LeaseStutter DEF ServeEnds, TypeOK, Holding
<1>5. ASSUME NEW c \in Conns, GoOnline(c) PROVE [Lease!Next]_Holders
  <2> DEFINE id == conn[c].agent
  <2>1. /\ UNCHANGED conn /\ pc[c] \notin Holding /\ id \in AgentIDs
        /\ \A d \in Conns : d # c => pc'[d] = pc[d]
    BY <1>0, <1>5, OnlineStep
  <2>2. CASE pc'[c] \in Holding
    <3>1. ~agents[id].status
      BY <1>0, <1>5, <2>2, OnlineStep
    <3>2. Holders[id] = {}
      BY <1>0, <2>1, <3>1 DEF Holders, SessionOwnsRecord
    <3>3. Holders' = [Holders EXCEPT ![id] = {c}]
      <4>1. \A i \in AgentIDs :
              {d \in Conns : pc'[d] \in Holding /\ conn[d].agent = i}
                = IF i = id THEN {c} ELSE {d \in Conns : pc[d] \in Holding /\ conn[d].agent = i}
        BY <2>1, <2>2, <3>2 DEF Holders
      <4> QED BY <2>1, <4>1 DEF Holders
    <3> QED BY <2>1, <3>2, <3>3 DEF Lease!Next, Lease!Acquire
  <2>3. CASE pc'[c] \notin Holding
    BY <2>1, <2>3, LeaseStutter
  <2> QED BY <2>2, <2>3
<1>6. ASSUME NEW c \in Conns, GoOffline(c) PROVE Lease!Next
  <2>1. /\ UNCHANGED conn
        /\ \A d \in Conns : pc'[d] \in Holding <=> pc[d] \in Holding /\ d \notin {c}
    BY <1>0, <1>6, OfflineStep
  <2> QED BY <2>1, LeaseRelease
<1>7. CASE UNCHANGED vars
  BY <1>7 DEF vars, Holders
<1> QED
  BY <1>1, <1>2, <1>3, <1>4, <1>5, <1>6, <1>7
  DEF Next, BrokerStep, HandlerStep, TunnelStep, Quiet

\* Without graceful stops AgentServer implements AgentLease: a broker takes an
\* agent only when no session of any broker holds it.
THEOREM LeaseImplemented ==
  ASSUME Stoppable = {}
  PROVE  Spec => LeaseSpec
<1>1. RecordInv /\ NeverStopping /\ [Next]_vars => RecordInv' /\ NeverStopping'
  BY RecordNext, NoStopNext
<1>2. RecordInv /\ [Next]_vars => [Lease!Next]_Holders
  BY LeaseNext
<1> QED
  BY <1>1, <1>2, RecordInit, NoStopInit, LeaseInit, PTL DEF Spec, LeaseSpec, Lease!Spec

-----------------------------------------------------------------------------
(***************************************************************************)
(* One session per machine: the unique index gives a machine one record,   *)
(* and the record has one holder.                                          *)
(***************************************************************************)
OneRecordPerMachine ==
  \A i, j \in AgentIDs :
    agents[i].machine # None /\ agents[i].machine = agents[j].machine => i = j

\* At first no record has a machine.
LEMMA MachineInit == Init => OneRecordPerMachine
  BY DEF Init, OneRecordPerMachine, NoDoc

\* Only InsertAgent gives a record a machine, and the index lets it do so only
\* when the machine has none.
LEMMA MachineNext ==
  ASSUME UniqueMachineID, TypeOK, OneRecordPerMachine, [Next]_vars
  PROVE  OneRecordPerMachine'
<1>1. ASSUME NEW b \in Brokers, BrokerStep(b)
      PROVE  \A i \in AgentIDs : agents'[i].machine = agents[i].machine
  BY <1>1, ResetFacts DEF BrokerStep, Boot, Stop, StopReset, ProcessEnds, TypeOK
<1>2. ASSUME NEW c \in Conns, Quiet(c) \/ ServeEnds(c) \/ GoOnline(c) \/ GoOffline(c)
      PROVE  \A i \in AgentIDs : agents'[i].machine = agents[i].machine
  <2>1. CASE Quiet(c) \/ ServeEnds(c)
    BY <2>1, QuietStep DEF ServeEnds
  <2>2. CASE GoOnline(c)
    BY <2>2, OnlineStep
  <2>3. CASE GoOffline(c)
    BY <2>3, OfflineStep
  <2> QED BY <1>2, <2>1, <2>2, <2>3
<1>3. ASSUME NEW c \in Conns, InsertAgent(c) PROVE OneRecordPerMachine'
  <2>1. CASE UNCHANGED agents
    BY <2>1 DEF OneRecordPerMachine
  <2>2. ASSUME NEW id \in AgentIDs,
               agents'[id].machine = conn[c].machine,
               ~DuplicateKey(conn[c].machine),
               \A i \in AgentIDs : i # id => agents'[i] = agents[i]
        PROVE  OneRecordPerMachine'
    <3>1. \A i \in AgentIDs : agents[i].machine # conn[c].machine
      BY <2>2 DEF DuplicateKey, DocsOf
    <3> QED BY <2>2, <3>1 DEF OneRecordPerMachine
  <2> QED BY <1>3, <2>1, <2>2, InsertStep
<1>4. CASE UNCHANGED vars
  BY <1>4 DEF vars, OneRecordPerMachine
<1> QED
  BY <1>1, <1>2, <1>3, <1>4
  DEF Next, HandlerStep, TunnelStep, Quiet, OneRecordPerMachine

\* Given the unique index, and no graceful stops, a machine is served by one
\* session, however many brokers and connections.
THEOREM MachineServedOnce ==
  ASSUME Stoppable = {}, UniqueMachineID
  PROVE  Spec => []OneSessionPerMachine
<1>1. RecordInv /\ NeverStopping /\ OneRecordPerMachine /\ [Next]_vars
        => RecordInv' /\ NeverStopping' /\ OneRecordPerMachine'
  BY RecordNext, NoStopNext, MachineNext DEF RecordInv, PoolInv
<1>2. RecordInv /\ OneRecordPerMachine => OneSessionPerMachine
  <2> SUFFICES ASSUME RecordInv, OneRecordPerMachine, NEW c \in Conns, NEW d \in Conns,
                      pc[c] = "serve", pc[d] = "serve", conn[c].machine = conn[d].machine
               PROVE  c = d
    BY DEF OneSessionPerMachine
  <2>1. /\ conn[c].agent \in AgentIDs /\ conn[d].agent \in AgentIDs
        /\ conn[c].machine \in Machines
        /\ agents[conn[c].agent].machine = conn[c].machine
        /\ agents[conn[d].agent].machine = conn[d].machine
    BY DEF RecordInv, PoolInv, TypeOK, Pooled, Running
  <2>2. conn[c].agent = conn[d].agent
    BY <2>1 DEF OneRecordPerMachine
  <2> QED BY <2>2, OneHolder DEF RecordInv, Holding
<1> QED BY <1>1, <1>2, RecordInit, NoStopInit, MachineInit, PTL DEF Spec

-----------------------------------------------------------------------------
(***************************************************************************)
(* No lockout: with a database that answers, a record that says online at  *)
(* a running broker has a session behind it.  Graceful stops are allowed.  *)
(***************************************************************************)
HeldBy(id, c) == pc[c] \in Holding /\ conn[c].agent = id /\ conn[c].broker = agents[id].broker

\* What the record of an agent that is online must be.
Truthful(id) ==
  /\ agents[id].broker \in Brokers /\ agents[id].session \in Conns
  /\ phase[agents[id].broker] # "up" \/ HeldBy(id, agents[id].session)

OnlineInv == PoolInv /\ \A id \in AgentIDs : agents[id].status => Truthful(id)

\* At first no record is online.
LEMMA OnlineInit == Init => OnlineInv
<1> SUFFICES ASSUME Init PROVE OnlineInv
  OBVIOUS
<1>1. PoolInv
  BY PoolInit
<1> QED BY <1>1 DEF Init, OnlineInv, NoDoc

\* With a database that answers, a record is written online only together with
\* the step to "serve", left online only by a broker that is going down, and
\* reset before that broker is up again.
LEMMA OnlineNext ==
  ASSUME ~DbFaults, OnlineInv, [Next]_vars
  PROVE  OnlineInv'
<1>0. /\ TypeOK /\ PoolInv' /\ ProcessRuns
      /\ \A id \in AgentIDs : agents[id].status => Truthful(id)
  BY PoolNext DEF OnlineInv, PoolInv
<1>s. SUFFICES ASSUME NEW id \in AgentIDs, agents'[id].status
               PROVE  Truthful(id)'
  BY <1>0 DEF OnlineInv
\* A step that leaves the record, its broker and its holder alone is harmless.
<1>k. ASSUME agents'[id] = agents[id] \/ (/\ agents[id].status
                                         /\ agents'[id].broker = agents[id].broker
                                         /\ agents'[id].session = agents[id].session),
             phase'[agents[id].broker] = "up" => phase[agents[id].broker] = "up",
             HeldBy(id, agents[id].session) =>
               /\ pc'[agents[id].session] \in Holding
               /\ conn'[agents[id].session] = conn[agents[id].session]
      PROVE  Truthful(id)'
  BY <1>0, <1>s, <1>k DEF Truthful, HeldBy
<1>1. ASSUME NEW b \in Brokers, Boot(b) \/ StopReset(b)
      PROVE  /\ agents'[id].broker = agents[id].broker
             /\ agents'[id].session = agents[id].session
             /\ agents[id].status /\ agents[id].broker # b
             /\ UNCHANGED <<pc, conn>>
             /\ \A e \in Brokers : e # b => phase'[e] = phase[e]
  BY <1>0, <1>s, <1>1, ResetFacts DEF Boot, StopReset, TypeOK
<1>2. ASSUME NEW b \in Brokers, Stop(b)
      PROVE  /\ UNCHANGED <<agents, pc, conn>>
             /\ \A e \in Brokers : phase'[e] = "up" => phase[e] = "up"
  BY <1>0, <1>2 DEF Stop, TypeOK
<1>3. ASSUME NEW b \in Brokers, ProcessEnds(b)
      PROVE  /\ UNCHANGED <<agents, conn>>
             /\ \A e \in Brokers : phase'[e] = "up" => phase[e] = "up" /\ e # b
             /\ \A c \in Conns : pc[c] \in Holding /\ conn[c].broker # b => pc'[c] \in Holding
  BY <1>0, <1>3, EndStep DEF TypeOK
<1>4. ASSUME NEW c \in Conns, Quiet(c)
      PROVE  /\ UNCHANGED <<agents, phase>>
             /\ \A d \in Conns : pc[d] \in Holding => pc'[d] \in Holding /\ conn'[d] = conn[d]
  BY <1>0, <1>4, QuietStep
<1>5. ASSUME NEW c \in Conns, InsertAgent(c)
      PROVE  /\ agents'[id] = agents[id] /\ UNCHANGED phase
             /\ \A d \in Conns : pc[d] \in Holding => pc'[d] \in Holding /\ conn'[d] = conn[d]
  BY <1>0, <1>s, <1>5, InsertStep
<1>6. ASSUME NEW c \in Conns, GoOnline(c)
      PROVE  Truthful(id)'
  <2>1. /\ UNCHANGED <<phase, conn>> /\ pc[c] \notin Holding
        /\ conn[c].broker \in Brokers
        /\ \A d \in Conns : d # c => pc'[d] = pc[d]
    BY <1>0, <1>6, OnlineStep
  <2>2. CASE agents'[id] = agents[id]
    BY <1>0, <1>s, <1>k, <2>1, <2>2 DEF Truthful, HeldBy
  <2>3. CASE agents'[id] # agents[id]
    <3>1. /\ id = conn[c].agent /\ agents'[id].broker = conn[c].broker
          /\ agents'[id].session = c
          /\ pc'[c] \in Holding \/ MayFail(conn[c].broker)
      BY <1>0, <1>6, <2>3, OnlineStep
    <3> QED BY <2>1, <3>1 DEF MayFail, Truthful, HeldBy
  <2> QED BY <2>2, <2>3
<1>7. ASSUME NEW c \in Conns, ServeEnds(c)
      PROVE  /\ UNCHANGED <<agents, phase, conn>>
             /\ \A d \in Conns : pc[d] \in Holding => pc'[d] \in Holding
  BY <1>0, <1>7 DEF ServeEnds, TypeOK, Holding
<1>8. ASSUME NEW c \in Conns, GoOffline(c)
      PROVE  Truthful(id)'
  <2>1. /\ UNCHANGED <<phase, conn>>
        /\ \A d \in Conns : d # c => pc'[d] = pc[d]
        /\ id # conn[c].agent => agents'[id] = agents[id]
        /\ id = conn[c].agent => UNCHANGED agents /\ MayFail(conn[c].broker)
    BY <1>0, <1>s, <1>8, OfflineStep
  <2>2. CASE ~HeldBy(id, c)
    BY <1>0, <1>s, <1>k, <2>1, <2>2 DEF Truthful, HeldBy
  <2>3. CASE HeldBy(id, c)
    <3>1. agents'[id] = agents[id] /\ phase[agents[id].broker] # "up"
      BY <2>1, <2>3 DEF HeldBy, MayFail
    <3> QED BY <1>0, <1>s, <2>1, <3>1 DEF Truthful
  <2> QED BY <2>2, <2>3
<1>9. CASE UNCHANGED vars
  BY <1>0, <1>s, <1>9 DEF vars, Truthful, HeldBy
<1> QED
  <2>1. ASSUME NEW b \in Brokers, BrokerStep(b)
        PROVE  Truthful(id)'
    <3>1. CASE Boot(b) \/ StopReset(b)
      BY <1>0, <1>1, <1>k, <3>1 DEF Truthful, HeldBy
    <3>2. CASE Stop(b)
      BY <1>0, <1>s, <1>2, <1>k, <3>2 DEF Truthful, HeldBy
    <3>3. CASE ProcessEnds(b)
      BY <1>0, <1>s, <1>3, <3>3 DEF Truthful, HeldBy
    <3> QED BY <2>1, <3>1, <3>2, <3>3 DEF BrokerStep
  <2>2. ASSUME NEW c \in Conns, Quiet(c) \/ InsertAgent(c) \/ ServeEnds(c)
        PROVE  Truthful(id)'
    <3>1. /\ agents'[id] = agents[id] /\ UNCHANGED phase
          /\ \A d \in Conns : pc[d] \in Holding => pc'[d] \in Holding /\ conn'[d] = conn[d]
      BY <1>4, <1>5, <1>7, <2>2
    <3>2. agents[id].session \in Conns
      BY <1>0, <1>s, <3>1 DEF Truthful
    <3> QED BY <1>k, <3>1, <3>2 DEF HeldBy
  <2> QED
    BY <1>6, <1>8, <1>9, <2>1, <2>2 DEF Next, HandlerStep, TunnelStep, Quiet

\* Across crashes, restarts and graceful stops nobody is locked out by a record
\* that no session holds, as long as the database answers.
THEOREM NobodyLockedOut ==
  ASSUME ~DbFaults
  PROVE  Spec => []OnlineHasHolder
<1>1. OnlineInv /\ [Next]_vars => OnlineInv'
  BY OnlineNext
<1>2. OnlineInv => OnlineHasHolder
  BY DEF OnlineInv, OnlineHasHolder, Truthful, HeldBy
<1> QED BY <1>1, <1>2, OnlineInit, PTL DEF Spec
=============================================================================
