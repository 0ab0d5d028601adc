------------------------- MODULE AgentServer_proofs -------------------------
(***************************************************************************)
(* Proofs about AgentServer, for any brokers, machines, agent records and  *)
(* connections.                                                            *)
(***************************************************************************)
EXTENDS AgentServer, TLAPS

USE ConstantsAssumption DEF ConstantsAssumption

-----------------------------------------------------------------------------
(***************************************************************************)
(* Types.                                                                  *)
(***************************************************************************)

\* Clearing the status of a document keeps the rest of it.
LEMMA OfflineDoc ==
  ASSUME NEW d \in Doc
  PROVE  LET e == [d EXCEPT !.status = FALSE]
         IN /\ e \in Doc /\ e.machine = d.machine /\ e.broker = d.broker
            /\ e.session = d.session /\ e.status = FALSE
  BY DEF Doc

\* A handler that learns the id of its agent keeps what it knew.
LEMMA LoginAgent ==
  ASSUME NEW l \in Login, NEW id \in AgentIDs
  PROVE  LET k == [l EXCEPT !.agent = id]
         IN k \in Login /\ k.broker = l.broker /\ k.machine = l.machine /\ k.agent = id
  BY DEF Login

\* Reset leaves the machine of every document alone, and keeps the type.
LEMMA ResetFacts ==
  ASSUME agents \in [AgentIDs -> Doc], NEW b \in Brokers, Reset(b)
  PROVE  /\ agents' \in [AgentIDs -> Doc]
         /\ \A id \in AgentIDs :
              /\ agents'[id].machine = agents[id].machine
              /\ agents'[id].broker = agents[id].broker
              /\ agents'[id].session = agents[id].session
              /\ agents'[id].status => agents[id].status
              /\ agents[id].status /\ agents[id].broker # b => agents'[id].status
              /\ ~DbFaults /\ agents[id].broker = b => ~agents'[id].status
<1>1. PICK ids \in SUBSET ResetFilter(b) :
        (DbFaults \/ ids = ResetFilter(b)) /\ SetOffline(ids)
  BY DEF Reset
<1>2. agents' = [id \in AgentIDs |->
                   IF id \in ids THEN [agents[id] EXCEPT !.status = FALSE] ELSE agents[id]]
  BY <1>1 DEF SetOffline
<1>3. \A id \in AgentIDs : id \in ids => agents[id].status /\ agents[id].broker = b
  BY <1>1 DEF ResetFilter
<1>4. agents' \in [AgentIDs -> Doc]
  BY <1>2 DEF Doc
<1>5. ASSUME NEW id \in AgentIDs
      PROVE  /\ agents'[id].machine = agents[id].machine
             /\ agents'[id].broker = agents[id].broker
             /\ agents'[id].session = agents[id].session
             /\ agents'[id].status => agents[id].status
             /\ agents[id].status /\ agents[id].broker # b => agents'[id].status
             /\ ~DbFaults /\ agents[id].broker = b => ~agents'[id].status
  <2>1. CASE id \in ids
    BY <1>2, <1>3, <2>1 DEF Doc
  <2>2. CASE id \notin ids
    <3>1. agents'[id] = agents[id]
      BY <1>2, <2>2
    <3>2. ~DbFaults /\ agents[id].broker = b => ~agents[id].status
      BY <1>1, <2>2 DEF ResetFilter
    <3> QED BY <3>1, <3>2
  <2> QED BY <2>1, <2>2
<1> QED BY <1>4, <1>5

\* The initial state has the types.
LEMMA TypeInit == Init => TypeOK
  BY DEF Init, TypeOK, EmptyHub, NoDoc, Doc, Login, Places, Running, Pooled, Ended

\* Every step keeps the types.
LEMMA TypeNext == TypeOK /\ [Next]_vars => TypeOK'
<1> SUFFICES ASSUME TypeOK, [Next]_vars PROVE TypeOK'
  OBVIOUS
<1> USE DEF TypeOK, Places, Running, Pooled, Ended
<1>1. ASSUME NEW b \in Brokers, Boot(b) PROVE TypeOK'
  <2>1. agents' \in [AgentIDs -> Doc]
        /\ \A id \in AgentIDs : agents'[id].machine = agents[id].machine
    BY <1>1, ResetFacts DEF Boot
  <2> QED BY <1>1, <2>1 DEF Boot, EmptyHub
<1>2. ASSUME NEW b \in Brokers, Stop(b) PROVE TypeOK'
  BY <1>2 DEF Stop
<1>3. ASSUME NEW b \in Brokers, StopReset(b) PROVE TypeOK'
  <2>1. agents' \in [AgentIDs -> Doc]
        /\ \A id \in AgentIDs : agents'[id].machine = agents[id].machine
    BY <1>3, ResetFacts DEF StopReset
  <2> QED BY <1>3, <2>1 DEF StopReset
<1>4. ASSUME NEW b \in Brokers, ProcessEnds(b) PROVE TypeOK'
  BY <1>4 DEF ProcessEnds, EmptyHub
<1>5. ASSUME NEW c \in Conns, NEW b \in Brokers, NEW m \in Machines, Connect(c, b, m)
      PROVE TypeOK'
  BY <1>5 DEF Connect, Login
<1>6. ASSUME NEW c \in Conns, AuthFails(c) PROVE TypeOK'
  BY <1>6 DEF AuthFails
<1>7. ASSUME NEW c \in Conns, FindAgent(c) PROVE TypeOK'
  BY <1>7 DEF FindAgent, DocsOf, Login
<1>8. ASSUME NEW c \in Conns, InsertAgent(c) PROVE TypeOK'
  <2> DEFINE m == conn[c].machine
  <2>1. m \in Machines /\ pc[c] = "insert"
    BY <1>8 DEF InsertAgent
  <2>2. ASSUME NEW id \in DocsOf(None), agents' = [agents EXCEPT ![id] = NewDoc(m)],
               \/ /\ pc' = [pc EXCEPT ![c] = "put"]
                  /\ conn' = [conn EXCEPT ![c].agent = InsertedID(id)]
               \/ /\ pc' = [pc EXCEPT ![c] = "rejected"]
                  /\ UNCHANGED conn
        PROVE  TypeOK'
    <3>1. id \in AgentIDs /\ agents[id].machine = None
      BY <2>2 DEF DocsOf
    <3>2. agents' \in [AgentIDs -> Doc]
      BY <2>1, <2>2, <3>1 DEF NewDoc, NoDoc, Doc
    <3>3. agents'[id].machine = m /\ \A i \in AgentIDs : i # id => agents'[i] = agents[i]
      BY <2>2, <3>1 DEF NewDoc, NoDoc
    <3>4. conn' \in [Conns -> Login] /\ pc' \in [Conns -> Places]
      <4>1. conn' = conn \/ conn' = [conn EXCEPT ![c] = [conn[c] EXCEPT !.agent = id]]
        BY <2>2 DEF InsertedID
      <4>2. conn[c] \in Login /\ [conn[c] EXCEPT !.agent = id] \in Login
        BY <3>1, LoginAgent
      <4>3. conn' \in [Conns -> Login]
        BY <4>1, <4>2
      <4>4. pc' \in [Conns -> Places]
        BY <2>2 DEF Places, Running, Ended
      <4> QED BY <4>3, <4>4
    <3>5. \A d \in Conns : d # c => conn'[d] = conn[d] /\ pc'[d] = pc[d]
      BY <2>2
    <3>6. \/ pc'[c] = "rejected"
          \/ conn'[c] = [conn[c] EXCEPT !.agent = id] /\ pc'[c] = "put"
      BY <2>2 DEF InsertedID
    <3>7. conn'[c].machine = m /\ conn'[c].broker = conn[c].broker
      BY <2>2, <3>6 DEF Login
    <3>8. pc'[c] \in Running => conn'[c].agent = id
      BY <3>6 DEF Login
    <3>9. \A d \in Conns : pc'[d] \in Running =>
            conn'[d].broker \in Brokers /\ conn'[d].machine \in Machines
      BY <2>1, <3>5, <3>7
    <3>10. \A d \in Conns : pc'[d] \in Pooled \cup {"put", "history"} =>
             /\ conn'[d].agent \in AgentIDs
             /\ agents'[conn'[d].agent].machine = conn'[d].machine
      <4>1. ASSUME NEW d \in Conns, d # c, pc'[d] \in Pooled \cup {"put", "history"}
            PROVE  /\ conn'[d].agent \in AgentIDs
                   /\ agents'[conn'[d].agent].machine = conn'[d].machine
        <5>1. /\ conn[d].agent \in AgentIDs
              /\ agents[conn[d].agent].machine = conn[d].machine
              /\ conn[d].machine \in Machines
          BY <3>5, <4>1
        <5> QED BY <3>1, <3>3, <3>5, <4>1, <5>1
      <4>2. pc'[c] \in Pooled \cup {"put", "history"} =>
             /\ conn'[c].agent \in AgentIDs
             /\ agents'[conn'[c].agent].machine = conn'[c].machine
        BY <3>1, <3>3, <3>7, <3>8
      <4> QED BY <4>1, <4>2
    <3> QED
      BY <1>8, <3>2, <3>4, <3>9, <3>10 DEF InsertAgent
  <2>3. CASE UNCHANGED agents /\ UNCHANGED conn /\ pc' = [pc EXCEPT ![c] = "rejected"]
    BY <1>8, <2>3 DEF InsertAgent
  <2> QED BY <1>8, <2>2, <2>3 DEF InsertAgent
<1>9. ASSUME NEW c \in Conns, PutPeer(c) PROVE TypeOK'
  <2>1. conn[c].broker \in Brokers /\ conn[c].agent \in AgentIDs /\ pc[c] = "put"
    BY <1>9 DEF PutPeer
  <2>2. hub' \in [Brokers -> [AgentIDs -> Conns \cup {None}]]
    BY <1>9, <2>1 DEF PutPeer, HubPut
  <2>3. pc' = [pc EXCEPT ![c] = "accept"] \/ pc' = [pc EXCEPT ![c] = "rejected"]
    BY <1>9 DEF PutPeer
  <2> QED BY <1>9, <2>1, <2>2, <2>3 DEF PutPeer
<1>10. ASSUME NEW c \in Conns, RespondAccepted(c) PROVE TypeOK'
  BY <1>10 DEF RespondAccepted
<1>11. ASSUME NEW c \in Conns, AcceptFails(c) PROVE TypeOK'
  BY <1>11 DEF AcceptFails, HubDelID
<1>12. ASSUME NEW c \in Conns, GoOnline(c) PROVE TypeOK'
  <2> DEFINE b == conn[c].broker
             id == conn[c].agent
  <2>1. b \in Brokers /\ id \in AgentIDs /\ pc[c] = "update"
    BY <1>12 DEF GoOnline
  <2>2. pc' = [pc EXCEPT ![c] = "serve"] \/ pc' = [pc EXCEPT ![c] = "evict"]
    BY <1>12 DEF GoOnline
  <2>3. CASE SetOnline(id, b, c)
    <3>1. agents[id].machine \in Machines \cup {None}
      BY <2>1 DEF Doc
    <3>2. /\ agents' \in [AgentIDs -> Doc]
          /\ \A i \in AgentIDs : agents'[i].machine = agents[i].machine
      BY <2>1, <2>3, <3>1 DEF SetOnline, Doc
    <3> QED BY <1>12, <2>1, <2>2, <3>2 DEF GoOnline
  <2>4. CASE UNCHANGED agents
    BY <1>12, <2>1, <2>2, <2>4 DEF GoOnline
  <2> QED BY <1>12, <2>3, <2>4 DEF GoOnline
<1>13. ASSUME NEW c \in Conns, EvictPeer(c) PROVE TypeOK'
  BY <1>13 DEF EvictPeer, HubDelID
<1>14. ASSUME NEW c \in Conns, ServeEnds(c) PROVE TypeOK'
  BY <1>14 DEF ServeEnds
<1>15. ASSUME NEW c \in Conns, GoOffline(c) PROVE TypeOK'
  <2>1. /\ agents' \in [AgentIDs -> Doc]
        /\ \A i \in AgentIDs : agents'[i].machine = agents[i].machine
    <3>1. CASE UNCHANGED agents
      BY <3>1
    <3>2. CASE SetOffline({conn[c].agent})
      BY <3>2, OfflineDoc DEF SetOffline
    <3> QED BY <1>15, <3>1, <3>2 DEF GoOffline
  <2> QED BY <1>15, <2>1 DEF GoOffline
<1>16. ASSUME NEW c \in Conns, LeaveHub(c) PROVE TypeOK'
  BY <1>16 DEF LeaveHub, HubDelID
<1>17. ASSUME NEW c \in Conns, SaveHistory(c) PROVE TypeOK'
  BY <1>17 DEF SaveHistory
<1>18. CASE UNCHANGED vars
  BY <1>18 DEF vars
<1> QED
  BY <1>1, <1>2, <1>3, <1>4, <1>5, <1>6, <1>7, <1>8, <1>9, <1>10, <1>11,
     <1>12, <1>13, <1>14, <1>15, <1>16, <1>17, <1>18
  DEF Next, BrokerStep, HandlerStep, TunnelStep

\* TypeOK holds in every reachable state.
THEOREM TypeCorrect == Spec => []TypeOK
  BY TypeInit, TypeNext, PTL DEF Spec

\* A handler past findOrCreateAgent.
Settled(c) == pc[c] \notin {"new", "auth", "insert"}

\* A handler that knows its agent keeps to it.
LEMMA SettledStays ==
  ASSUME TypeOK, [Next]_vars
  PROVE  \A c \in Conns : Settled(c) => conn'[c] = conn[c] /\ Settled(c)'
<1>1. ASSUME NEW b \in Brokers, BrokerStep(b)
      PROVE  \A c \in Conns : Settled(c) => conn'[c] = conn[c] /\ Settled(c)'
  BY <1>1 DEF BrokerStep, Boot, Stop, StopReset, ProcessEnds, TypeOK, Settled
<1>2. ASSUME NEW d \in Conns, HandlerStep(d)
      PROVE  \A c \in Conns : Settled(c) => conn'[c] = conn[c] /\ Settled(c)'
  BY <1>2 DEF HandlerStep, InsertAgent, PutPeer, GoOnline, EvictPeer, GoOffline, LeaveHub,
    SaveHistory, TypeOK, Settled
<1>3. ASSUME NEW d \in Conns, TunnelStep(d)
      PROVE  \A c \in Conns : Settled(c) => conn'[c] = conn[c] /\ Settled(c)'
  BY <1>3 DEF TunnelStep, Connect, AuthFails, FindAgent, RespondAccepted, AcceptFails,
    ServeEnds, TypeOK, Settled
<1>4. CASE UNCHANGED vars
  BY <1>4 DEF vars, Settled
<1> QED BY <1>1, <1>2, <1>3, <1>4 DEF Next

-----------------------------------------------------------------------------
(***************************************************************************)
(* The connection pool.  ServedIsReachable and NoZombiePeer are not        *)
(* inductive: a handler that has put its peer must keep it in the pool at  *)
(* every place until it removes it, or the next place would find it gone;  *)
(* and a handler runs only in a process that runs, or Boot would empty the *)
(* pool under it.                                                          *)
(***************************************************************************)
PooledIsReachable ==
  \A c \in Conns : pc[c] \in Pooled => hub[conn[c].broker][conn[c].agent] = c

ProcessRuns == \A c \in Conns : pc[c] \in Running => phase[conn[c].broker] # "down"

PoolInv == TypeOK /\ PooledIsReachable /\ NoZombiePeer /\ ProcessRuns

\* The pools start empty.
LEMMA PoolInit == Init => PoolInv
<1> SUFFICES ASSUME Init PROVE PoolInv
  OBVIOUS
<1>1. TypeOK
  BY TypeInit
<1> QED
  BY <1>1 DEF PoolInv, Init, PooledIsReachable, NoZombiePeer, ProcessRuns, EmptyHub, Running, Pooled

\* What a step of handler c may do to the rest: the other handlers stay where
\* they are, and the processes are not touched.
Alone(c) ==
  /\ phase' = phase
  /\ \A d \in Conns : d # c => pc'[d] = pc[d] /\ conn'[d] = conn[d]

\* A step of handler c that neither enters nor leaves the pool.
LEMMA PoolSame ==
  ASSUME PoolInv, TypeOK', NEW c \in Conns, Alone(c), UNCHANGED hub,
         pc[c] \in Pooled <=> pc'[c] \in Pooled,
         pc[c] \in Pooled => conn'[c] = conn[c],
         pc'[c] \in Running => phase[conn'[c].broker] # "down"
  PROVE  PoolInv'
<1> USE DEF PoolInv, Alone
<1>1. PooledIsReachable'
  BY DEF PooledIsReachable
<1>2. NoZombiePeer'
  BY DEF NoZombiePeer, TypeOK
<1>3. ProcessRuns'
  BY DEF ProcessRuns
<1> QED BY <1>1, <1>2, <1>3

\* A step of handler c that takes its peer out of the pool.
LEMMA PoolLeave ==
  ASSUME PoolInv, TypeOK', NEW c \in Conns, Alone(c), pc[c] \in Pooled,
         HubDelID(conn[c].broker, conn[c].agent), UNCHANGED conn, pc'[c] \notin Pooled
  PROVE  PoolInv'
<1> USE DEF PoolInv, Alone
<1>0. /\ conn[c].broker \in Brokers /\ conn[c].agent \in AgentIDs
      /\ pc[c] \in Running
  BY DEF TypeOK, Running
<1>1. \A b \in Brokers, id \in AgentIDs :
        hub'[b][id] = IF b = conn[c].broker /\ id = conn[c].agent THEN None ELSE hub[b][id]
  BY <1>0 DEF HubDelID, TypeOK
<1>2. \A d \in Conns : pc[d] \in Pooled /\ conn[d].broker = conn[c].broker
                         /\ conn[d].agent = conn[c].agent => d = c
  BY DEF PooledIsReachable
<1>3. PooledIsReachable'
  BY <1>1, <1>2 DEF PooledIsReachable, TypeOK, Running
<1>4. NoZombiePeer'
  <2> SUFFICES ASSUME NEW b \in Brokers, NEW id \in AgentIDs, hub'[b][id] # None
               PROVE  /\ pc'[hub'[b][id]] \in Pooled
                      /\ conn'[hub'[b][id]].broker = b
                      /\ conn'[hub'[b][id]].agent = id
    BY DEF NoZombiePeer
  <2>1. hub'[b][id] = hub[b][id] /\ ~(b = conn[c].broker /\ id = conn[c].agent)
    BY <1>1
  <2>2. hub[b][id] \in Conns
    BY <2>1 DEF TypeOK
  <2> QED BY <2>1, <2>2 DEF NoZombiePeer
<1>5. ProcessRuns'
  BY <1>0 DEF ProcessRuns
<1> QED BY <1>3, <1>4, <1>5

\* Every step keeps the pools in step with the handlers.
LEMMA PoolNext == PoolInv /\ [Next]_vars => PoolInv'
<1> SUFFICES ASSUME PoolInv, [Next]_vars PROVE PoolInv'
  OBVIOUS
<1>0. TypeOK /\ TypeOK'
  BY TypeNext DEF PoolInv
<1>1. ASSUME NEW b \in Brokers, Boot(b) PROVE PoolInv'
  <2>1. \A c \in Conns : pc[c] \in Running => conn[c].broker # b
    BY <1>1 DEF Boot, PoolInv, ProcessRuns
  <2>2. PooledIsReachable'
    BY <1>0, <1>1, <2>1 DEF Boot, PoolInv, PooledIsReachable, Running, TypeOK
  <2>3. NoZombiePeer'
    BY <1>0, <1>1 DEF Boot, PoolInv, NoZombiePeer, EmptyHub, TypeOK
  <2>4. ProcessRuns'
    BY <1>0, <1>1, <2>1 DEF Boot, PoolInv, ProcessRuns, TypeOK
  <2> QED BY <1>0, <2>2, <2>3, <2>4 DEF PoolInv
<1>2. ASSUME NEW b \in Brokers, Stop(b) \/ StopReset(b) PROVE PoolInv'
  <2>1. UNCHANGED <<hub, pc, conn>>
    BY <1>2 DEF Stop, StopReset
  <2>2. ProcessRuns'
    BY <1>0, <1>2, <2>1 DEF Stop, StopReset, PoolInv, ProcessRuns, TypeOK
  <2> QED BY <1>0, <2>1, <2>2 DEF PoolInv, PooledIsReachable, NoZombiePeer
<1>3. ASSUME NEW b \in Brokers, ProcessEnds(b) PROVE PoolInv'
  <2>1. \A c \in Conns : pc'[c] \in Running => pc'[c] = pc[c] /\ conn[c].broker # b
    BY <1>0, <1>3 DEF ProcessEnds, TypeOK, Running, Pooled
  <2>2. /\ \A c \in Conns : conn[c].broker # b => pc'[c] = pc[c]
        /\ UNCHANGED conn
    BY <1>0, <1>3 DEF ProcessEnds, TypeOK
  <2>3. \A d \in Brokers : d # b => hub'[d] = hub[d] /\ phase'[d] = phase[d]
    BY <1>0, <1>3 DEF ProcessEnds, TypeOK
  <2>4. PooledIsReachable'
    BY <1>0, <2>1, <2>2, <2>3 DEF PoolInv, PooledIsReachable, Running, TypeOK
  <2>5. NoZombiePeer'
    <3> SUFFICES ASSUME NEW d \in Brokers, NEW id \in AgentIDs, hub'[d][id] # None
                 PROVE  /\ pc'[hub'[d][id]] \in Pooled
                        /\ conn'[hub'[d][id]].broker = d
                        /\ conn'[hub'[d][id]].agent = id
      BY DEF NoZombiePeer
    <3>1. d # b /\ hub'[d] = hub[d]
      BY <1>0, <1>3, <2>3 DEF ProcessEnds, EmptyHub, TypeOK
    <3>2. hub[d][id] \in Conns
      BY <1>0, <3>1 DEF TypeOK
    <3> QED BY <2>2, <3>1, <3>2 DEF PoolInv, NoZombiePeer
  <2>6. ProcessRuns'
    BY <1>0, <2>1, <2>2, <2>3 DEF PoolInv, ProcessRuns, TypeOK
  <2> QED BY <1>0, <2>4, <2>5, <2>6 DEF PoolInv
<1>4. ASSUME NEW c \in Conns, NEW b \in Brokers, NEW m \in Machines, Connect(c, b, m)
      PROVE PoolInv'
  <2>1. /\ Alone(c) /\ UNCHANGED hub
        /\ pc[c] = "new" /\ pc'[c] = "auth"
        /\ phase[conn'[c].broker] # "down"
    BY <1>0, <1>4 DEF Connect, Alone, TypeOK
  <2> QED BY <1>0, <2>1, PoolSame DEF Running, Pooled
<1>5. ASSUME NEW c \in Conns,
             \/ AuthFails(c) \/ FindAgent(c) \/ InsertAgent(c)
             \/ RespondAccepted(c) \/ GoOnline(c) \/ ServeEnds(c) \/ GoOffline(c)
             \/ SaveHistory(c)
      PROVE PoolInv'
  <2>1. Alone(c) /\ UNCHANGED hub /\ conn'[c].broker = conn[c].broker
    BY <1>0, <1>5 DEF AuthFails, FindAgent, InsertAgent, RespondAccepted, GoOnline,
      ServeEnds, GoOffline, SaveHistory, Alone, TypeOK, Login
  <2>2. /\ pc[c] \in Running
        /\ pc[c] \in Pooled <=> pc'[c] \in Pooled
        /\ pc[c] \in Pooled => conn'[c] = conn[c]
    BY <1>0, <1>5 DEF AuthFails, FindAgent, InsertAgent, RespondAccepted, GoOnline,
      ServeEnds, GoOffline, SaveHistory, TypeOK, Running, Pooled
  <2>3. phase[conn'[c].broker] # "down"
    BY <2>1, <2>2 DEF PoolInv, ProcessRuns
  <2> QED BY <1>0, <2>1, <2>2, <2>3, PoolSame
<1>6. ASSUME NEW c \in Conns, PutPeer(c) PROVE PoolInv'
  <2> DEFINE b == conn[c].broker
             id == conn[c].agent
  <2>1. /\ b \in Brokers /\ id \in AgentIDs
        /\ pc[c] = "put" /\ Alone(c) /\ UNCHANGED conn
    BY <1>0, <1>6 DEF PutPeer, TypeOK, Running, Alone
  <2>2. phase[b] # "down"
    BY <2>1 DEF PoolInv, ProcessRuns, Running
  <2>3. CASE hub[b][id] = None
    <3>1. pc'[c] = "accept"
      BY <1>0, <1>6, <2>3 DEF PutPeer, HubFree, TypeOK
    <3>2. \A e \in Brokers, i \in AgentIDs :
            hub'[e][i] = IF e = b /\ i = id THEN c ELSE hub[e][i]
      BY <1>0, <1>6, <2>1, <2>3 DEF PutPeer, HubFree, HubPut, TypeOK
    <3>3. \A d \in Conns : pc[d] \in Pooled => ~(conn[d].broker = b /\ conn[d].agent = id)
      <4>1. None \notin Conns
        OBVIOUS
      <4> QED BY <2>3, <4>1 DEF PoolInv, PooledIsReachable
    <3>4. PooledIsReachable'
      BY <1>0, <2>1, <3>1, <3>2, <3>3
        DEF PoolInv, PooledIsReachable, Alone, TypeOK, Running
    <3>5. NoZombiePeer'
      <4> SUFFICES ASSUME NEW e \in Brokers, NEW i \in AgentIDs, hub'[e][i] # None
                   PROVE  /\ pc'[hub'[e][i]] \in Pooled
                          /\ conn'[hub'[e][i]].broker = e
                          /\ conn'[hub'[e][i]].agent = i
        BY DEF NoZombiePeer
      <4>1. CASE e = b /\ i = id
        BY <2>1, <3>1, <3>2, <4>1 DEF Pooled
      <4>2. CASE ~(e = b /\ i = id)
        <5>1. hub'[e][i] = hub[e][i] /\ hub[e][i] \in Conns
          BY <1>0, <3>2, <4>2 DEF TypeOK
        <5>2. pc[c] \notin Pooled
          BY <2>1 DEF Pooled
        <5> QED BY <2>1, <5>1, <5>2 DEF PoolInv, NoZombiePeer, Alone
      <4> QED BY <4>1, <4>2
    <3>6. ProcessRuns'
      BY <2>1, <2>2 DEF PoolInv, ProcessRuns, Alone
    <3> QED BY <1>0, <3>4, <3>5, <3>6 DEF PoolInv
  <2>4. CASE hub[b][id] # None
    <3>1. pc'[c] = "rejected" /\ UNCHANGED hub
      BY <1>0, <1>6, <2>4 DEF PutPeer, HubFree, TypeOK
    <3> QED BY <1>0, <2>1, <2>2, <3>1, PoolSame DEF Running, Pooled
  <2> QED BY <2>3, <2>4
<1>7. ASSUME NEW c \in Conns, AcceptFails(c) \/ EvictPeer(c) \/ LeaveHub(c)
      PROVE PoolInv'
  <2>1. /\ Alone(c) /\ pc[c] \in Pooled /\ pc'[c] \notin Pooled /\ UNCHANGED conn
        /\ HubDelID(conn[c].broker, conn[c].agent)
    BY <1>0, <1>7 DEF AcceptFails, EvictPeer, LeaveHub, Alone, TypeOK, Pooled
  <2> QED BY <1>0, <2>1, PoolLeave
<1>8. CASE UNCHANGED vars
  BY <1>0, <1>8 DEF vars, PoolInv, PooledIsReachable, NoZombiePeer, ProcessRuns
<1> QED
  BY <1>1, <1>2, <1>3, <1>4, <1>5, <1>6, <1>7, <1>8
  DEF Next, BrokerStep, HandlerStep, TunnelStep

\* The pool of every broker agrees with its handlers in every reachable state.
THEOREM PoolCorrect == Spec => []PoolInv
  BY PoolInit, PoolNext, PTL DEF Spec

\* A session that is being served can be reached through its broker's pool,
\* whatever the database answers and whichever brokers stop or die.
THEOREM Reachable == Spec => []ServedIsReachable
<1>1. PoolInv => ServedIsReachable
  BY DEF PoolInv, PooledIsReachable, ServedIsReachable, Pooled
<1> QED BY <1>1, PoolCorrect, PTL

\* No peer outlives the handler that put it into the pool.
THEOREM NoZombies == Spec => []NoZombiePeer
<1>1. PoolInv => NoZombiePeer
  BY DEF PoolInv
<1> QED BY <1>1, PoolCorrect, PTL

\* A step takes a peer out of the pool only if it is a step of the peer's own
\* handler, or ends the process.
LEMMA RemovalStep == PoolInv /\ [Next]_vars => RemovedByItsHandler
<1> SUFFICES ASSUME PoolInv, [Next]_vars, NEW b \in Brokers, NEW id \in AgentIDs,
                    hub[b][id] # None, hub'[b][id] # hub[b][id]
             PROVE  \/ pc[hub[b][id]] # pc'[hub[b][id]] /\ hub'[b][id] = None
                    \/ phase'[b] = "down"
  BY DEF RemovedByItsHandler
<1> DEFINE p == hub[b][id]
<1>0. /\ TypeOK /\ p \in Conns /\ pc[p] \in Pooled
      /\ conn[p].broker = b /\ conn[p].agent = id /\ phase[b] # "down"
  BY DEF PoolInv, TypeOK, NoZombiePeer, ProcessRuns, Running
<1>1. ASSUME NEW e \in Brokers, BrokerStep(e)
      PROVE  phase'[b] = "down"
  BY <1>0, <1>1 DEF BrokerStep, Boot, Stop, StopReset, ProcessEnds, TypeOK
<1>2. ASSUME NEW c \in Conns, PutPeer(c)
      PROVE  FALSE
  BY <1>0, <1>2 DEF PutPeer, HubPut, HubFree, TypeOK, Running
<1>3. ASSUME NEW c \in Conns, AcceptFails(c) \/ EvictPeer(c) \/ LeaveHub(c)
      PROVE  pc[p] # pc'[p] /\ hub'[b][id] = None
  <2>1. /\ pc[c] \in Pooled /\ HubDelID(conn[c].broker, conn[c].agent)
        /\ pc'[c] # pc[c]
    BY <1>0, <1>3 DEF AcceptFails, EvictPeer, LeaveHub, TypeOK, Pooled
  <2>2. conn[c].broker \in Brokers /\ conn[c].agent \in AgentIDs
    BY <1>0, <2>1 DEF TypeOK, Running
  <2>3. conn[c].broker = b /\ conn[c].agent = id
    BY <1>0, <2>1, <2>2 DEF HubDelID, TypeOK
  <2>4. c = p
    BY <2>1, <2>3 DEF PoolInv, PooledIsReachable
  <2> QED BY <1>0, <2>1, <2>3, <2>4 DEF HubDelID, TypeOK
<1>4. ASSUME NEW c \in Conns,
             \/ \E e \in Brokers, m \in Machines : Connect(c, e, m)
             \/ AuthFails(c) \/ FindAgent(c) \/ InsertAgent(c)
             \/ RespondAccepted(c) \/ GoOnline(c) \/ ServeEnds(c) \/ GoOffline(c)
             \/ SaveHistory(c)
      PROVE FALSE
  BY <1>4 DEF Connect, AuthFails, FindAgent, InsertAgent, RespondAccepted, GoOnline,
    ServeEnds, GoOffline, SaveHistory
<1>5. CASE UNCHANGED vars
  BY <1>5 DEF vars
<1> QED
  BY <1>1, <1>2, <1>3, <1>4, <1>5 DEF Next, HandlerStep, TunnelStep

\* DelID names an agent and not a connection, and still removes no peer but
\* that of the handler that calls it.
THEOREM PeersAreRemovedByTheirHandlers == Spec => PeerRemovedByItsHandler
<1>1. PoolInv /\ [Next]_vars => [RemovedByItsHandler]_vars
  BY RemovalStep
<1> QED BY <1>1, PoolCorrect, PTL DEF Spec, PeerRemovedByItsHandler

-----------------------------------------------------------------------------
(***************************************************************************)
(* The place of an agent in the pool of a broker implements AgentLease.    *)
(***************************************************************************)
Slots == Brokers \X AgentIDs

InSlot(c, slot) == pc[c] \in Pooled /\ conn[c].broker = slot[1] /\ conn[c].agent = slot[2]

\* At first no place is taken.
LEMMA PoolLeaseInit == Init => PoolLease!Init
  BY DEF Init, PoolLease!Init, PoolHolders, Pooled

\* A step that moves no handler into or out of a place is a stuttering step.
LEMMA PoolLeaseStutter ==
  ASSUME \A c \in Conns : pc'[c] \in Pooled <=> pc[c] \in Pooled,
         \A c \in Conns : pc[c] \in Pooled => conn'[c] = conn[c]
  PROVE  UNCHANGED PoolHolders
  BY DEF PoolHolders

\* A step by which some handlers leave their places, and nothing else, is a
\* Release.
LEMMA PoolLeaseRelease ==
  ASSUME NEW gone \in SUBSET Conns, UNCHANGED conn,
         \A c \in Conns : pc'[c] \in Pooled <=> pc[c] \in Pooled /\ c \notin gone
  PROVE  PoolLease!Next
<1>1. PoolHolders' = [slot \in Brokers \X AgentIDs |-> PoolHolders[slot] \ gone]
  BY DEF PoolHolders
<1> QED BY <1>1 DEF PoolLease!Next, PoolLease!Release

\* Every step is a step of the lease, or leaves its holders as they are: what
\* putHuber finds free is held by nobody, which is PooledIsReachable.
LEMMA PoolLeaseNext ==
  ASSUME PoolInv, [Next]_vars
  PROVE  [PoolLease!Next]_PoolHolders
<1>0. TypeOK /\ PooledIsReachable
  BY DEF PoolInv
<1>1. ASSUME NEW b \in Brokers, Boot(b) \/ Stop(b) \/ StopReset(b)
      PROVE  UNCHANGED PoolHolders
  BY <1>1 DEF Boot, Stop, StopReset, PoolHolders
<1>2. ASSUME NEW b \in Brokers, ProcessEnds(b) PROVE PoolLease!Next
  <2> DEFINE gone == {c \in Conns : conn[c].broker = b}
  <2>1. /\ UNCHANGED conn
        /\ \A c \in Conns : pc'[c] \in Pooled <=> pc[c] \in Pooled /\ c \notin gone
    BY <1>0, <1>2 DEF ProcessEnds, TypeOK, Running, Pooled
  <2>2. gone \in SUBSET Conns
    OBVIOUS
  <2> HIDE DEF gone
  <2> QED BY <2>1, <2>2, PoolLeaseRelease
<1>3. ASSUME NEW c \in Conns,
             \/ \E b \in Brokers, m \in Machines : Connect(c, b, m)
             \/ AuthFails(c) \/ FindAgent(c) \/ InsertAgent(c)
             \/ RespondAccepted(c) \/ GoOnline(c) \/ ServeEnds(c) \/ GoOffline(c)
             \/ SaveHistory(c)
      PROVE  UNCHANGED PoolHolders
  <2>1. \A d \in Conns : /\ pc'[d] \in Pooled <=> pc[d] \in Pooled
                         /\ pc[d] \in Pooled => conn'[d] = conn[d]
    BY <1>0, <1>3 DEF Connect, AuthFails, FindAgent, InsertAgent, RespondAccepted, GoOnline,
      ServeEnds, GoOffline, SaveHistory, TypeOK, Pooled
  <2> QED BY <2>1, PoolLeaseStutter
<1>4. ASSUME NEW c \in Conns, AcceptFails(c) \/ EvictPeer(c) \/ LeaveHub(c)
      PROVE  PoolLease!Next
  <2>1. /\ UNCHANGED conn
        /\ \A d \in Conns : pc'[d] \in Pooled <=> pc[d] \in Pooled /\ d \notin {c}
    BY <1>0, <1>4 DEF AcceptFails, EvictPeer, LeaveHub, TypeOK, Pooled
  <2> QED BY <2>1, PoolLeaseRelease
<1>5. ASSUME NEW c \in Conns, PutPeer(c) PROVE [PoolLease!Next]_PoolHolders
  <2> DEFINE slot == <<conn[c].broker, conn[c].agent>>
  <2>1. /\ slot \in Slots /\ UNCHANGED conn
        /\ pc[c] \notin Pooled /\ \A d \in Conns : d # c => pc'[d] = pc[d]
    BY <1>0, <1>5 DEF PutPeer, TypeOK, Running, Pooled, Slots
  <2>2. CASE hub[conn[c].broker][conn[c].agent] = None
    <3>1. pc'[c] \in Pooled
      BY <1>0, <1>5, <2>2 DEF PutPeer, HubFree, TypeOK, Pooled
    <3>2. \A d \in Conns : ~InSlot(d, slot)
      <4>1. None \notin Conns
        OBVIOUS
      <4> QED BY <1>0, <2>2, <4>1 DEF PooledIsReachable, InSlot
    <3>3. PoolHolders[slot] = {}
      BY <2>1, <3>2 DEF PoolHolders, InSlot, Slots
    <3>4. PoolHolders' = [PoolHolders EXCEPT ![slot] = {c}]
      <4>1. ASSUME NEW p \in Slots
            PROVE  {d \in Conns : /\ pc'[d] \in Pooled
                                  /\ conn[d].broker = p[1] /\ conn[d].agent = p[2]}
                     = IF p = slot THEN {c}
                       ELSE {d \in Conns : /\ pc[d] \in Pooled
                                           /\ conn[d].broker = p[1] /\ conn[d].agent = p[2]}
        <5>1. conn[c].broker = p[1] /\ conn[c].agent = p[2] <=> p = slot
          BY DEF Slots
        <5> QED BY <2>1, <3>1, <3>2, <5>1 DEF InSlot
      <4> QED BY <2>1, <4>1 DEF PoolHolders, Slots
    <3> QED BY <2>1, <3>3, <3>4 DEF PoolLease!Next, PoolLease!Acquire, Slots
  <2>3. CASE hub[conn[c].broker][conn[c].agent] # None
    <3>1. pc'[c] \notin Pooled
      BY <1>0, <1>5, <2>3 DEF PutPeer, HubFree, TypeOK, Pooled
    <3> QED BY <2>1, <3>1, PoolLeaseStutter
  <2> QED BY <2>2, <2>3
<1>6. CASE UNCHANGED vars
  BY <1>6 DEF vars, PoolHolders
<1> QED
  BY <1>1, <1>2, <1>3, <1>4, <1>5, <1>6 DEF Next, BrokerStep, HandlerStep, TunnelStep

\* With faults, crashes, graceful stops and several records of a machine: a broker
\* lets one handler at a time have an agent.  It is all that is left of ownership
\* when a broker is stopped while it has sessions.
THEOREM PoolLeaseImplemented == Spec => PoolLeaseSpec
<1>1. PoolInv /\ [Next]_vars => [PoolLease!Next]_PoolHolders
  BY PoolLeaseNext
<1> QED BY <1>1, PoolCorrect, PoolLeaseInit, PTL DEF Spec, PoolLeaseSpec, PoolLease!Spec
=============================================================================
