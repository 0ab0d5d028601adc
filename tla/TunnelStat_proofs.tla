------------------------- MODULE TunnelStat_proofs -------------------------
(***************************************************************************)
(* Proofs about TunnelStat: the tunnels and transmit leave AgentServer as  *)
(* it is, and a closed tunnel_stat is final, for any brokers, agents, runs *)
(* of transmit and batch size.                                             *)
(***************************************************************************)
EXTENDS TunnelStat, AgentRecord_proofs

USE ConstantsAssumption DEF ConstantsAssumption

-----------------------------------------------------------------------------
(***************************************************************************)
(* TunnelStat is AgentServer with statistics.                              *)
(***************************************************************************)

\* Each step is a step of AgentServer or leaves its variables alone.
LEMMA StatStep == [NextStat]_allVars => [Next]_vars
<1> SUFFICES ASSUME [NextStat]_allVars PROVE [Next]_vars
  OBVIOUS
<1>1. ASSUME NEW b \in Brokers, BrokerStepStat(b) PROVE Next
  BY <1>1 DEF BrokerStepStat, Next
<1>2. ASSUME NEW c \in Conns,
             GoOnlineStat(c) \/ ServeEndsStat(c) \/ GoOfflineStat(c) \/ OtherStepStat(c)
      PROVE  Next
  <2>1. CASE GoOnlineStat(c)
    BY <2>1 DEF GoOnlineStat, Next, HandlerStep
  <2>2. CASE ServeEndsStat(c)
    BY <2>2 DEF ServeEndsStat, Next, TunnelStep
  <2>3. CASE GoOfflineStat(c)
    BY <2>3 DEF GoOfflineStat, Next, HandlerStep
  <2>4. CASE OtherStepStat(c)
    BY <2>4 DEF OtherStepStat, Next, HandlerStep, TunnelStep
  <2> QED BY <1>2, <2>1, <2>2, <2>3, <2>4
<1>3. ASSUME NEW c \in Conns, Transfer(c) PROVE UNCHANGED vars
  BY <1>3 DEF Transfer
<1>4. ASSUME NEW r \in Runs, TransmitStep(r) PROVE UNCHANGED vars
  BY <1>4 DEF TransmitStep, StartRun, Sample, Write
<1>5. CASE UNCHANGED allVars
  BY <1>5 DEF allVars
<1> QED BY <1>1, <1>2, <1>3, <1>4, <1>5 DEF NextStat

\* What is proved of AgentServer holds with the statistics beside it.
THEOREM StatImplementsServer == SpecStat => Spec
<1>1. InitStat => Init
  BY DEF InitStat
<1> QED BY <1>1, StatStep, PTL DEF SpecStat, Spec

-----------------------------------------------------------------------------
(***************************************************************************)
(* Which session a record names: one that came online with this record,    *)
(* and that has not started over.                                          *)
(***************************************************************************)
NamedSessions ==
  \A id \in AgentIDs : agents[id].session # None =>
    /\ agents[id].machine # None
    /\ conn[agents[id].session].agent = id
    /\ Settled(agents[id].session)

\* disconnection changes no more than a status.
LEMMA OfflineSession ==
  ASSUME TypeOK, NEW c \in Conns, GoOffline(c)
  PROVE  \A id \in AgentIDs : /\ agents'[id].machine = agents[id].machine
                              /\ agents'[id].session = agents[id].session
<1> SUFFICES ASSUME NEW id \in AgentIDs
             PROVE  /\ agents'[id].machine = agents[id].machine
                    /\ agents'[id].session = agents[id].session
  OBVIOUS
<1>1. agents[id] \in Doc
  BY DEF TypeOK
<1>2. \/ agents'[id] = agents[id]
      \/ agents'[id] = [agents[id] EXCEPT !.status = FALSE]
  BY DEF GoOffline, SetOffline
<1> QED BY <1>1, <1>2, OfflineDoc

\* At first no record names a session.
LEMMA NamedInit == Init => NamedSessions
  BY DEF Init, NamedSessions, NoDoc

\* Every step keeps the sessions that are named settled with their agent.
LEMMA NamedNext ==
  ASSUME TypeOK, NamedSessions, [Next]_vars
  PROVE  NamedSessions'
<1>0. /\ \A c \in Conns : Settled(c) => conn'[c] = conn[c] /\ Settled(c)'
      /\ \A id \in AgentIDs : agents[id].session \in Conns \cup {None}
  BY SettledStays DEF TypeOK, Doc
<1> DEFINE Same == \A id \in AgentIDs : /\ agents'[id].machine = agents[id].machine
                                        /\ agents'[id].session = agents[id].session
<1>1. CASE Same
  BY <1>0, <1>1 DEF NamedSessions
<1>2. ASSUME NEW b \in Brokers, BrokerStep(b) PROVE Same
  BY <1>2, ResetFacts DEF BrokerStep, Boot, Stop, StopReset, ProcessEnds, TypeOK
<1>3. ASSUME NEW c \in Conns, Quiet(c) \/ ServeEnds(c) PROVE Same
  BY <1>3, QuietStep DEF ServeEnds
<1>4. ASSUME NEW c \in Conns, InsertAgent(c) PROVE NamedSessions'
  <2>1. CASE UNCHANGED agents
    BY <1>1, <2>1
  <2>2. ASSUME NEW id \in DocsOf(None), agents' = [agents EXCEPT ![id] = NewDoc(conn[c].machine)]
        PROVE  NamedSessions'
    <3>1. /\ agents'[id].session = None
          /\ \A i \in AgentIDs : i # id => agents'[i] = agents[i]
      BY <2>2 DEF DocsOf, NewDoc, NoDoc, TypeOK
    <3> QED BY <1>0, <3>1 DEF NamedSessions
  <2> QED BY <1>4, <2>1, <2>2 DEF InsertAgent
<1>5. ASSUME NEW c \in Conns, GoOnline(c) PROVE NamedSessions'
  <2>1. CASE UNCHANGED agents
    BY <1>1, <2>1
  <2>2. CASE /\ agents'[conn[c].agent].session = c
             /\ agents'[conn[c].agent].machine = agents[conn[c].agent].machine
             /\ \A i \in AgentIDs : i # conn[c].agent => agents'[i] = agents[i]
    <3>1. Settled(c) /\ agents[conn[c].agent].machine # None
      BY <1>5 DEF GoOnline, TypeOK, Pooled, Running, Settled
    <3> QED BY <1>0, <2>2, <3>1 DEF NamedSessions
  <2> QED BY <1>5, <2>1, <2>2, OnlineStep
<1>6. ASSUME NEW c \in Conns, GoOffline(c) PROVE Same
  BY <1>6, OfflineSession
<1>7. ASSUME UNCHANGED vars PROVE Same
  BY <1>7 DEF vars
<1> QED
  BY <1>1, <1>2, <1>3, <1>4, <1>5, <1>6, <1>7 DEF Next, HandlerStep, TunnelStep, Quiet

-----------------------------------------------------------------------------
(***************************************************************************)
(* Types.                                                                  *)
(***************************************************************************)
Transmission == [at : {"idle", "sample", "write"}, broker : Brokers \cup {None},
                 todo : SUBSET Conns, mods : SUBSET [agent : AgentIDs, bytes : Bytes]]

\* The peers a run has still to look at know their agent, gone or not.
PeersKnown ==
  \A r \in Runs : \A c \in run[r].todo : conn[c].agent \in AgentIDs /\ Settled(c)

TypeInv == PoolInv /\ TypeOKStat /\ PeersKnown

\* Traffic turned round, or one byte later, is traffic.
LEMMA BytesFacts ==
  ASSUME NEW t \in Bytes
  PROVE  /\ Swap(t) \in Bytes
         /\ [rx |-> t.rx + 1, tx |-> t.tx] \in Bytes
         /\ [rx |-> t.rx, tx |-> t.tx + 1] \in Bytes
  BY DEF Bytes, Swap

\* At first there are no bytes, and no run.
LEMMA TypeInitStat == InitStat => TypeInv
<1> SUFFICES ASSUME InitStat PROVE TypeInv
  OBVIOUS
<1>1. PoolInv
  BY PoolInit DEF InitStat
<1>2. Zero \in Bytes
  BY DEF Zero, Bytes
<1>3. Idle \in Transmission
  BY DEF Idle, Transmission
<1>4. TypeOKStat
  BY <1>1, <1>2, <1>3 DEF InitStat, TypeOKStat, PoolInv, Transmission
<1>5. PeersKnown
  BY DEF InitStat, PeersKnown, Idle
<1> QED BY <1>1, <1>4, <1>5 DEF TypeInv

\* Every step keeps the types of the statistics.
LEMMA TypeNextStat ==
  ASSUME TypeInv, [NextStat]_allVars
  PROVE  TypeInv'
<1>0. /\ TypeOK /\ PoolInv /\ TypeOKStat /\ PeersKnown /\ PoolInv' /\ TypeOK'
      /\ \A c \in Conns : Settled(c) => conn'[c] = conn[c] /\ Settled(c)'
  BY StatStep, PoolNext, SettledStays DEF TypeInv, PoolInv
<1>t. /\ traffic \in [Conns -> Bytes] /\ final \in [Conns -> Bytes]
      /\ stat \in [AgentIDs -> [bytes : Bytes, closed : BOOLEAN]]
      /\ run \in [Runs -> Transmission]
      /\ batch \in Batches
  BY <1>0 DEF TypeOKStat, Transmission
<1>i. Idle \in Transmission
  BY DEF Idle, Transmission
<1> DEFINE
      Goal == /\ traffic' \in [Conns -> Bytes] /\ final' \in [Conns -> Bytes]
              /\ stat' \in [AgentIDs -> [bytes : Bytes, closed : BOOLEAN]]
              /\ run' \in [Runs -> Transmission] /\ batch' \in Batches
              /\ \A r \in Runs : \A c \in run'[r].todo :
                   conn'[c].agent \in AgentIDs /\ Settled(c)'
<1>k. ASSUME run' \in [Runs -> Transmission],
             \A r \in Runs : run'[r].todo \subseteq run[r].todo
      PROVE  \A r \in Runs : \A c \in run'[r].todo :
               conn'[c].agent \in AgentIDs /\ Settled(c)'
  BY <1>0, <1>t, <1>k DEF PeersKnown, Transmission
<1>1. ASSUME NEW b \in Brokers, BrokerStepStat(b) PROVE Goal
  <2>1. /\ run' \in [Runs -> Transmission]
        /\ \A r \in Runs : run'[r].todo \subseteq run[r].todo
    BY <1>1, <1>t, <1>i DEF BrokerStepStat, Idle
  <2> QED BY <1>1, <1>t, <1>k, <2>1 DEF BrokerStepStat
<1>2. ASSUME NEW c \in Conns, GoOnlineStat(c) \/ GoOfflineStat(c) PROVE Goal
  <2>1. /\ conn[c].agent \in AgentIDs
        /\ Swap(traffic[c]) \in Bytes /\ final[c] \in Bytes
        /\ UNCHANGED <<traffic, final, run, batch>>
    BY <1>0, <1>t, <1>2, BytesFacts, OnlineStep, OfflineStep DEF GoOnlineStat, GoOfflineStat
  <2>2. stat' \in [AgentIDs -> [bytes : Bytes, closed : BOOLEAN]]
    <3>1. CASE GoOnlineStat(c)
      BY <1>t, <2>1, <3>1 DEF GoOnlineStat, OnlineBytes
    <3>2. CASE GoOfflineStat(c)
      BY <1>t, <2>1, <3>2 DEF GoOfflineStat
    <3> QED BY <1>2, <3>1, <3>2
  <2> QED BY <1>t, <1>k, <2>1, <2>2
<1>3. ASSUME NEW c \in Conns, ServeEndsStat(c) PROVE Goal
  <2>1. Swap(traffic[c]) \in Bytes
    BY <1>t, BytesFacts
  <2> QED BY <1>3, <1>t, <1>k, <2>1 DEF ServeEndsStat
<1>4. ASSUME NEW c \in Conns, OtherStepStat(c) PROVE Goal
  BY <1>4, <1>t, <1>k DEF OtherStepStat, statVars
<1>5. ASSUME NEW c \in Conns, Transfer(c) PROVE Goal
  <2>1. traffic' \in [Conns -> Bytes]
    <3>1. PICK dir \in {"rx", "tx"} : traffic' = [traffic EXCEPT ![c][dir] = @ + 1]
      BY <1>5, TransmitAssumption DEF Transfer, TransmitAssumption
    <3>2. CASE dir = "rx"
      BY <1>t, <3>1, <3>2 DEF Bytes
    <3>3. CASE dir = "tx"
      BY <1>t, <3>1, <3>3 DEF Bytes
    <3> QED BY <3>1, <3>2, <3>3
  <2> QED BY <1>5, <1>t, <1>k, <2>1 DEF Transfer
<1>6. ASSUME NEW r \in Runs, NEW b \in Brokers, StartRun(r, b) PROVE Goal
  <2> DEFINE peers == {hub[b][id] : id \in AgentIDs} \ {None}
  <2>1. \A c \in peers : c \in Conns /\ conn[c].agent \in AgentIDs /\ Settled(c)
    BY <1>0 DEF PoolInv, TypeOK, NoZombiePeer, Pooled, Settled
  <2>2. [at |-> "sample", broker |-> b, todo |-> peers, mods |-> {}] \in Transmission
    BY <2>1 DEF Transmission
  <2>3. /\ run' = [run EXCEPT ![r] = [at |-> "sample", broker |-> b, todo |-> peers,
                                      mods |-> {}]]
        /\ UNCHANGED <<vars, traffic, final, stat, batch>>
    BY <1>6 DEF StartRun
  <2> HIDE DEF peers
  <2>4. run' \in [Runs -> Transmission]
    BY <1>t, <2>2, <2>3
  <2>5. \A q \in Runs : \A c \in run'[q].todo : conn'[c].agent \in AgentIDs /\ Settled(c)'
    BY <1>0, <1>t, <2>1, <2>3 DEF PeersKnown, vars, Settled
  <2> QED BY <1>t, <2>3, <2>4, <2>5
<1>7. ASSUME NEW r \in Runs, NEW c \in Conns, Sample(r, c) PROVE Goal
  <2> DEFINE mod == [agent |-> conn[c].agent, bytes |-> SampleOf(c)]
             at == IF BatchReady(run[r].mods \cup {mod}, run[r].todo \ {c})
                   THEN "write" ELSE "sample"
  <2>1. run[r] \in Transmission /\ c \in run[r].todo
    BY <1>7, <1>t DEF Sample
  <2>2. mod \in [agent : AgentIDs, bytes : Bytes]
    BY <1>0, <1>t, <2>1, BytesFacts DEF PeersKnown, SampleOf
  <2>3. /\ run' = [run EXCEPT ![r] = [at |-> at, broker |-> run[r].broker,
                                      todo |-> run[r].todo \ {c},
                                      mods |-> run[r].mods \cup {mod}]]
        /\ UNCHANGED <<traffic, final, stat, batch>>
    BY <1>7 DEF Sample
  <2>4. at \in {"write", "sample"}
    OBVIOUS
  <2> HIDE DEF mod, at
  <2>5. /\ run' \in [Runs -> Transmission]
        /\ \A q \in Runs : run'[q].todo \subseteq run[q].todo
    BY <1>t, <2>1, <2>2, <2>3, <2>4 DEF Transmission
  <2> QED BY <1>t, <1>k, <2>3, <2>5
<1>8. ASSUME NEW r \in Runs, NEW mod \in run[r].mods, NEW failed \in BOOLEAN,
             Write(r, mod, failed)
      PROVE  Goal
  <2>1. run[r] \in Transmission
    BY <1>t
  <2>2. mod \in [agent : AgentIDs, bytes : Bytes]
    BY <2>1 DEF Transmission
  <2>3. stat' \in [AgentIDs -> [bytes : Bytes, closed : BOOLEAN]]
    BY <1>8, <1>t, <2>2 DEF Write
  <2>4. /\ run' \in [Runs -> Transmission]
        /\ \A q \in Runs : run'[q].todo \subseteq run[q].todo
    BY <1>8, <1>t, <1>i, <2>1 DEF Write, Transmission, Idle
  <2> QED BY <1>8, <1>t, <1>k, <2>3, <2>4 DEF Write
<1>9. ASSUME UNCHANGED allVars PROVE Goal
  BY <1>9, <1>t, <1>k DEF allVars
<1>10. Goal
  BY <1>1, <1>2, <1>3, <1>4, <1>5, <1>6, <1>7, <1>8, <1>9 DEF NextStat, TransmitStep
<1> QED BY <1>0, <1>10 DEF TypeInv, TypeOKStat, PeersKnown, Transmission

\* The statistics have their types: a run of transmit names agents only.
THEOREM TypeCorrectStat == SpecStat => []TypeOKStat
<1>1. TypeInv => TypeOKStat
  BY DEF TypeInv
<1> QED BY <1>1, TypeInitStat, TypeNextStat, PTL DEF SpecStat

-----------------------------------------------------------------------------
(***************************************************************************)
(* A closed tunnel_stat is final.                                          *)
(***************************************************************************)
ClosedInv ==
  /\ TypeInv /\ RecordInv /\ NamedSessions
  /\ \A id \in AgentIDs : stat[id].closed =>
       /\ ~agents[id].status
       /\ agents[id].session # None
       /\ stat[id].bytes = final[agents[id].session]

\* At first none is closed.
LEMMA ClosedInit == InitStat => ClosedInv
<1> SUFFICES ASSUME InitStat PROVE ClosedInv
  OBVIOUS
<1>1. TypeInv /\ RecordInv /\ NamedSessions
  BY TypeInitStat, RecordInit, NamedInit DEF InitStat
<1> QED BY <1>1 DEF InitStat, ClosedInv

\* Every step keeps what is closed as it is, or opens it for a new session, as long
\* as the last Reset of a broker finds no session of it.
LEMMA ClosedNext ==
  ASSUME ClosedInv, [NextStat]_allVars, DrainedStop \/ UNCHANGED vars
  PROVE  ClosedInv'
<1>0. /\ TypeInv /\ RecordInv /\ NamedSessions /\ TypeOK /\ SessionOwnsRecord
      /\ TypeInv' /\ RecordInv' /\ NamedSessions'
  BY StatStep, TypeNextStat, RecordNext, NamedNext DEF ClosedInv, RecordInv, PoolInv
<1>t. /\ stat \in [AgentIDs -> [bytes : Bytes, closed : BOOLEAN]]
      /\ final \in [Conns -> Bytes] /\ traffic \in [Conns -> Bytes]
      /\ run \in [Runs -> Transmission]
      /\ \A id \in AgentIDs : agents[id].session \in Conns \cup {None}
  BY <1>0 DEF TypeInv, TypeOKStat, Transmission, TypeOK, Doc
<1>c. \A id \in AgentIDs : stat[id].closed =>
        /\ ~agents[id].status
        /\ agents[id].session # None
        /\ stat[id].bytes = final[agents[id].session]
  BY DEF ClosedInv
<1> DEFINE Closed(id) == stat[id].closed =>
             /\ ~agents[id].status
             /\ agents[id].session # None
             /\ stat[id].bytes = final[agents[id].session]
<1>1. ASSUME NEW b \in Brokers, BrokerStepStat(b), NEW id \in AgentIDs PROVE Closed(id)'
  <2>1. /\ agents'[id].session = agents[id].session
        /\ agents'[id].status => agents[id].status
    BY <1>0, <1>1, ResetFacts
    DEF BrokerStepStat, BrokerStep, Boot, Stop, StopReset, ProcessEnds, TypeOK
  <2> QED BY <1>1, <1>c, <2>1 DEF BrokerStepStat
<1>2. ASSUME NEW c \in Conns, GoOnlineStat(c), NEW id \in AgentIDs PROVE Closed(id)'
  <2>1. CASE UNCHANGED agents
    BY <1>2, <1>c, <2>1 DEF GoOnlineStat
  <2>2. CASE /\ ~agents[conn[c].agent].status /\ agents'[conn[c].agent].status
             /\ \A i \in AgentIDs : i # conn[c].agent => agents'[i] = agents[i]
    <3>1. /\ stat' = [stat EXCEPT ![conn[c].agent] =
                       [bytes |-> Swap(traffic[c]), closed |-> FALSE]]
          /\ UNCHANGED final
      BY <1>2, <2>2 DEF GoOnlineStat, OnlineBytes
    <3> QED BY <1>t, <1>c, <2>2, <3>1
  <2> QED BY <1>0, <1>2, <2>1, <2>2, OnlineStep DEF GoOnlineStat
<1>3. ASSUME NEW c \in Conns, ServeEndsStat(c), NEW id \in AgentIDs PROVE Closed(id)'
  <2>1. /\ pc[c] \in Holding /\ UNCHANGED <<agents, stat>>
        /\ final' = [final EXCEPT ![c] = Swap(traffic[c])]
    BY <1>3 DEF ServeEndsStat, ServeEnds, Holding
  <2>2. agents[id].session = c => agents[id].status
    BY <1>0, <2>1 DEF NamedSessions, SessionOwnsRecord
  <2> QED BY <1>t, <1>c, <2>1, <2>2
<1>4. ASSUME NEW c \in Conns, GoOfflineStat(c), NEW id \in AgentIDs PROVE Closed(id)'
  <2>1. /\ GoOffline(c) /\ conn[c].agent \in AgentIDs /\ pc[c] \in Holding
        /\ agents'[id].session = agents[id].session
        /\ UNCHANGED final
    BY <1>0, <1>4, OfflineStep, OfflineSession DEF GoOfflineStat
  <2>2. CASE UNCHANGED agents
    BY <1>4, <1>c, <2>1, <2>2 DEF GoOfflineStat
  <2>3. CASE agents' # agents
    <3>1. /\ ~agents'[conn[c].agent].status
          /\ \A i \in AgentIDs : i # conn[c].agent => agents'[i] = agents[i]
      BY <1>0, <2>1, <2>3, OfflineStep
    <3>2. stat' = [stat EXCEPT ![conn[c].agent] = [bytes |-> final[c], closed |-> TRUE]]
      BY <1>4, <2>3 DEF GoOfflineStat
    <3>3. agents[conn[c].agent].session = c
      BY <1>0, <2>1 DEF SessionOwnsRecord
    <3> QED BY <1>t, <1>c, <2>1, <3>1, <3>2, <3>3
  <2> QED BY <2>2, <2>3
<1>5. ASSUME NEW c \in Conns, OtherStepStat(c), NEW id \in AgentIDs PROVE Closed(id)'
  <2>1. UNCHANGED <<stat, final>>
    BY <1>5 DEF OtherStepStat, statVars
  <2>2. CASE UNCHANGED agents
    BY <1>c, <2>1, <2>2
  <2>3. CASE InsertAgent(c)
    <3>1. \A i \in AgentIDs : \/ agents'[i] = agents[i]
                              \/ agents[i].machine = None
      BY <1>0, <2>3, InsertStep
    <3>2. agents[id].machine = None => agents[id].session = None
      BY <1>0 DEF NamedSessions
    <3> QED BY <1>c, <2>1, <3>1, <3>2
  <2> QED BY <1>0, <1>5, <2>2, <2>3, QuietStep DEF OtherStepStat, Quiet
<1>6. ASSUME NEW c \in Conns, Transfer(c), NEW id \in AgentIDs PROVE Closed(id)'
  BY <1>6, <1>c DEF Transfer, vars
<1>7. ASSUME NEW r \in Runs, TransmitStep(r), NEW id \in AgentIDs PROVE Closed(id)'
  <2>1. CASE \/ \E b \in Brokers : StartRun(r, b)
             \/ \E c \in Conns : Sample(r, c)
    BY <1>c, <2>1 DEF StartRun, Sample, vars
  <2>2. ASSUME NEW mod \in run[r].mods, NEW failed \in BOOLEAN, Write(r, mod, failed)
        PROVE  Closed(id)'
    <3>1. UNCHANGED <<agents, final>>
      BY <2>2 DEF Write, vars
    <3>2. /\ stat'[id].closed = stat[id].closed
          /\ stat'[id].bytes # stat[id].bytes => agents[id].status
      BY <1>t, <2>2 DEF Write, TransmitFilter
    <3> QED BY <1>c, <3>1, <3>2
  <2> QED BY <1>7, <2>1, <2>2 DEF TransmitStep
<1>8. ASSUME UNCHANGED allVars, NEW id \in AgentIDs PROVE Closed(id)'
  BY <1>8, <1>c DEF allVars, vars
<1>9. \A id \in AgentIDs : Closed(id)'
  BY <1>1, <1>2, <1>3, <1>4, <1>5, <1>6, <1>7, <1>8 DEF NextStat
<1> QED BY <1>0, <1>9 DEF ClosedInv

\* However late the samples of transmit are written, and whatever fails, the
\* statistics of a session that is closed stay those it ended with, where brokers
\* are not stopped gracefully.
THEOREM ClosedIsFinal ==
  ASSUME Stoppable = {}
  PROVE  SpecStat => []ClosedStatIsFinal
<1>1. ClosedInv /\ NeverStopping /\ [NextStat]_allVars => ClosedInv' /\ NeverStopping'
  BY ClosedNext, NoStopNext, StatStep
<1>2. ClosedInv => ClosedStatIsFinal
  BY DEF ClosedInv, ClosedStatIsFinal
<1>3. InitStat => NeverStopping
  BY NoStopInit DEF InitStat
<1> QED BY <1>1, <1>2, <1>3, ClosedInit, PTL DEF SpecStat

-----------------------------------------------------------------------------
(***************************************************************************)
(* The statistics of an agent are its own.  A sample on its way must be so *)
(* as well, and what disconnection has read of its tunnel; all that keeps  *)
(* them so is that traffic only grows and that a tunnel keeps its agent.   *)
(***************************************************************************)
OfAgent(id, bytes) ==
  \/ bytes = Zero
  \/ \E c \in Conns : Settled(c) /\ conn[c].agent = id /\ Carried(c, bytes)

OwnInv ==
  /\ TypeInv
  /\ \A c \in Conns : Carried(c, final[c])
  /\ \A r \in Runs : \A mod \in run[r].mods : OfAgent(mod.agent, mod.bytes)
  /\ \A id \in AgentIDs : OfAgent(id, stat[id].bytes)

\* At first no byte has gone anywhere.
LEMMA OwnInit == InitStat => OwnInv
<1> SUFFICES ASSUME InitStat PROVE OwnInv
  OBVIOUS
<1>1. TypeInv
  BY TypeInitStat
<1>2. \A c \in Conns : Carried(c, final[c])
  BY DEF InitStat, Carried, Zero
<1>3. \A r \in Runs : run[r].mods = {}
  BY DEF InitStat, Idle
<1>4. \A id \in AgentIDs : OfAgent(id, stat[id].bytes)
  BY DEF InitStat, OfAgent
<1> QED BY <1>1, <1>2, <1>3, <1>4 DEF OwnInv

\* What a tunnel carries only grows.
LEMMA TrafficGrows ==
  ASSUME TypeInv, [NextStat]_allVars, NEW c \in Conns
  PROVE  /\ traffic[c] \in Bytes /\ traffic'[c] \in Bytes
         /\ traffic[c].rx <= traffic'[c].rx /\ traffic[c].tx <= traffic'[c].tx
<1>1. traffic \in [Conns -> Bytes] /\ traffic' \in [Conns -> Bytes]
  BY TypeNextStat DEF TypeInv, TypeOKStat
<1>2. CASE UNCHANGED traffic
  BY <1>1, <1>2 DEF Bytes
<1>3. ASSUME NEW d \in Conns, Transfer(d)
      PROVE  traffic[c].rx <= traffic'[c].rx /\ traffic[c].tx <= traffic'[c].tx
  <2>1. PICK dir \in {"rx", "tx"} : traffic' = [traffic EXCEPT ![d][dir] = @ + 1]
    BY <1>3, TransmitAssumption DEF Transfer, TransmitAssumption
  <2>2. CASE dir = "rx"
    BY <1>1, <2>1, <2>2 DEF Bytes
  <2>3. CASE dir = "tx"
    BY <1>1, <2>1, <2>3 DEF Bytes
  <2> QED BY <2>1, <2>2, <2>3
<1>4. ASSUME ~\E d \in Conns : Transfer(d) PROVE UNCHANGED traffic
  BY <1>4 DEF NextStat, BrokerStepStat, GoOnlineStat, ServeEndsStat, GoOfflineStat,
    OtherStepStat, statVars, TransmitStep, StartRun, Sample, Write, allVars
<1> QED BY <1>1, <1>2, <1>3, <1>4

\* What a tunnel has carried turned round is carried by it.
LEMMA SwapCarried ==
  ASSUME NEW c \in Conns, traffic[c] \in Bytes
  PROVE  Carried(c, Swap(traffic[c]))
  BY DEF Carried, Swap, Bytes

\* What is an agent's own stays its own.
LEMMA OwnStays ==
  ASSUME TypeInv, [NextStat]_allVars, NEW bytes \in Bytes
  PROVE  /\ \A c \in Conns : Carried(c, bytes) => Carried(c, bytes)'
         /\ \A id \in AgentIDs : OfAgent(id, bytes) => OfAgent(id, bytes)'
<1>1. ASSUME NEW c \in Conns, Carried(c, bytes) PROVE Carried(c, bytes)'
  BY <1>1, TrafficGrows DEF Carried, Bytes
<1>2. \A c \in Conns : Settled(c) => conn'[c] = conn[c] /\ Settled(c)'
  BY StatStep, SettledStays DEF TypeInv, PoolInv
<1>3. ASSUME NEW id \in AgentIDs, OfAgent(id, bytes) PROVE OfAgent(id, bytes)'
  BY <1>1, <1>2, <1>3 DEF OfAgent
<1> QED BY <1>1, <1>3

\* Every writer writes what was read of a tunnel of the agent it writes to, in
\* the direction of the agent.
LEMMA OwnNext ==
  ASSUME OwnInv, [NextStat]_allVars
  PROVE  OwnInv'
<1>0. TypeInv /\ TypeInv' /\ TypeOK
  BY TypeNextStat DEF OwnInv, TypeInv, PoolInv
<1>t. /\ traffic \in [Conns -> Bytes] /\ final \in [Conns -> Bytes]
      /\ stat \in [AgentIDs -> [bytes : Bytes, closed : BOOLEAN]]
      /\ run \in [Runs -> Transmission]
  BY <1>0 DEF TypeInv, TypeOKStat, Transmission
<1>c. \A c \in Conns : Carried(c, Swap(traffic[c])) /\ Swap(traffic[c]) \in Bytes
  BY <1>t, SwapCarried, BytesFacts
<1>o. /\ \A c \in Conns : Carried(c, final[c])
      /\ \A r \in Runs : \A mod \in run[r].mods :
           mod \in [agent : AgentIDs, bytes : Bytes] /\ OfAgent(mod.agent, mod.bytes)
      /\ \A id \in AgentIDs : OfAgent(id, stat[id].bytes)
  BY <1>t DEF OwnInv, Transmission
\* What the variables hold after the step, said of what was carried before it.
<1> DEFINE
      Finals == \A c \in Conns : \E b \in Bytes : final'[c] = b /\ Carried(c, b)
      Mods   == \A r \in Runs : \A mod \in run'[r].mods :
                  \E b \in Bytes, id \in AgentIDs :
                    mod.bytes = b /\ mod.agent = id /\ OfAgent(id, b)
      Stats  == \A id \in AgentIDs : \E b \in Bytes : stat'[id].bytes = b /\ OfAgent(id, b)
<1>f. UNCHANGED final => Finals
  BY <1>t, <1>o
<1>m. (\A r \in Runs : run'[r].mods \subseteq run[r].mods) => Mods
  BY <1>o
<1>s. UNCHANGED stat => Stats
  BY <1>t, <1>o
<1>a. ASSUME NEW c \in Conns, Settled(c), NEW b \in Bytes, Carried(c, b)
      PROVE  OfAgent(conn[c].agent, b)
  BY <1>a DEF OfAgent
<1>1. ASSUME NEW b \in Brokers, BrokerStepStat(b) PROVE Finals /\ Mods /\ Stats
  <2>1. \A r \in Runs : run'[r].mods \subseteq run[r].mods
    BY <1>1 DEF BrokerStepStat, Idle
  <2> QED BY <1>1, <1>f, <1>m, <1>s, <2>1 DEF BrokerStepStat
<1>2. ASSUME NEW c \in Conns, GoOnlineStat(c) \/ GoOfflineStat(c) PROVE Finals /\ Mods /\ Stats
  <2>1. Settled(c) /\ conn[c].agent \in AgentIDs /\ UNCHANGED <<final, run>>
    BY <1>0, <1>2, OnlineStep, OfflineStep
    DEF GoOnlineStat, GoOfflineStat, GoOnline, GoOffline, Settled
  <2>2. OfAgent(conn[c].agent, Swap(traffic[c])) /\ OfAgent(conn[c].agent, final[c])
    BY <1>t, <1>o, <1>c, <1>a, <2>1
  <2>3. Stats
    <3>1. CASE UNCHANGED stat
      BY <1>s, <3>1
    <3>2. ASSUME NEW b \in Bytes, NEW closed, OfAgent(conn[c].agent, b),
                 stat' = [stat EXCEPT ![conn[c].agent] = [bytes |-> b, closed |-> closed]]
          PROVE  Stats
      BY <1>t, <1>o, <2>1, <3>2
    <3> QED BY <1>t, <1>c, <1>2, <2>2, <3>1, <3>2 DEF GoOnlineStat, GoOfflineStat, OnlineBytes
  <2> QED BY <1>f, <1>m, <2>1, <2>3
<1>3. ASSUME NEW c \in Conns, ServeEndsStat(c) PROVE Finals /\ Mods /\ Stats
  <2>1. Finals
    BY <1>3, <1>t, <1>o, <1>c DEF ServeEndsStat
  <2> QED BY <1>3, <1>m, <1>s, <2>1 DEF ServeEndsStat
<1>4. ASSUME NEW c \in Conns, OtherStepStat(c) \/ Transfer(c) PROVE Finals /\ Mods /\ Stats
  BY <1>4, <1>f, <1>m, <1>s DEF OtherStepStat, statVars, Transfer
<1>5. ASSUME NEW r \in Runs, NEW b \in Brokers, StartRun(r, b) PROVE Finals /\ Mods /\ Stats
  <2>1. \A q \in Runs : run'[q].mods \subseteq run[q].mods
    BY <1>5, <1>t DEF StartRun, Transmission
  <2> QED BY <1>5, <1>f, <1>m, <1>s, <2>1 DEF StartRun
<1>6. ASSUME NEW r \in Runs, NEW c \in Conns, Sample(r, c) PROVE Finals /\ Mods /\ Stats
  <2> DEFINE mod == [agent |-> conn[c].agent, bytes |-> SampleOf(c)]
  <2>1. c \in run[r].todo /\ Settled(c) /\ conn[c].agent \in AgentIDs
    BY <1>6, <1>0 DEF Sample, TypeInv, PeersKnown
  <2>2. OfAgent(conn[c].agent, SampleOf(c)) /\ SampleOf(c) \in Bytes
    BY <1>c, <1>a, <2>1 DEF SampleOf
  <2>3. /\ \A q \in Runs : run'[q].mods \subseteq run[q].mods \cup {mod}
        /\ UNCHANGED <<final, stat>>
    BY <1>6, <1>t DEF Sample, Transmission
  <2>4. mod.agent = conn[c].agent /\ mod.bytes = SampleOf(c)
    OBVIOUS
  <2> HIDE DEF mod
  <2>5. Mods
    BY <1>o, <2>1, <2>2, <2>3, <2>4
  <2> QED BY <1>f, <1>s, <2>3, <2>5
<1>7. ASSUME NEW r \in Runs, NEW mod \in run[r].mods, NEW failed \in BOOLEAN,
             Write(r, mod, failed)
      PROVE  Finals /\ Mods /\ Stats
  <2>1. \A q \in Runs : run'[q].mods \subseteq run[q].mods
    BY <1>7, <1>t DEF Write, Transmission, Idle
  <2>2. mod.agent \in AgentIDs /\ mod.bytes \in Bytes /\ OfAgent(mod.agent, mod.bytes)
    BY <1>o
  <2>3. CASE UNCHANGED stat
    BY <1>7, <1>f, <1>m, <1>s, <2>1, <2>3 DEF Write
  <2>4. CASE stat' = [stat EXCEPT ![mod.agent] =
                        [bytes |-> mod.bytes, closed |-> stat[mod.agent].closed]]
    <3>1. Stats
      BY <1>t, <1>o, <2>2, <2>4
    <3> QED BY <1>7, <1>f, <1>m, <2>1, <3>1 DEF Write
  <2> QED BY <1>7, <2>3, <2>4 DEF Write
<1>8. ASSUME UNCHANGED allVars PROVE Finals /\ Mods /\ Stats
  BY <1>8, <1>f, <1>m, <1>s DEF allVars
<1>9. Finals /\ Mods /\ Stats
  BY <1>1, <1>2, <1>3, <1>4, <1>5, <1>6, <1>7, <1>8 DEF NextStat, TransmitStep
<1>10. ASSUME NEW c \in Conns PROVE Carried(c, final[c])'
  <2>1. PICK b \in Bytes : final'[c] = b /\ Carried(c, b)
    BY <1>9
  <2>2. Carried(c, b)'
    BY <1>0, <2>1, OwnStays
  <2> QED BY <2>1, <2>2 DEF Carried
<1>11. ASSUME NEW r \in Runs, NEW mod \in run'[r].mods PROVE OfAgent(mod.agent, mod.bytes)'
  <2>1. PICK b \in Bytes, id \in AgentIDs : mod.bytes = b /\ mod.agent = id /\ OfAgent(id, b)
    BY <1>9
  <2>2. OfAgent(id, b)'
    BY <1>0, <2>1, OwnStays
  <2> QED BY <2>1, <2>2
<1>12. ASSUME NEW id \in AgentIDs PROVE OfAgent(id, stat[id].bytes)'
  <2>1. PICK b \in Bytes : stat'[id].bytes = b /\ OfAgent(id, b)
    BY <1>9
  <2>2. OfAgent(id, b)'
    BY <1>0, <2>1, OwnStays
  <2> QED BY <2>1, <2>2 DEF OfAgent, Carried
<1> QED BY <1>0, <1>10, <1>11, <1>12 DEF OwnInv

\* However many sessions, runs, crashes, graceful stops and errors there are, the
\* statistics of an agent were carried by a tunnel of this agent.
THEOREM StatNeverInvented == SpecStat => []StatIsOfItsAgent
<1>1. OwnInv => StatIsOfItsAgent
  BY DEF OwnInv, OfAgent, StatIsOfItsAgent
<1> QED BY <1>1, OwnInit, OwnNext, PTL DEF SpecStat
=============================================================================
