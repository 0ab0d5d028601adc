----------------------------- MODULE TunnelStat -----------------------------
(***************************************************************************)
(* The traffic of a tunnel in the record of its agent (tunnel_stat).  Three*)
(* writers share it: updateAgentOnline starts it, disconnection closes it  *)
(* (channel/serverd/server.go), and the cron task transmit refreshes it    *)
(* meanwhile (application/crontab/transmit.go), from samples that may be   *)
(* of an earlier session by the time they are written.                     *)
(*                                                                         *)
(* Every action of AgentServer is taken over; those that read a tunnel's   *)
(* traffic or write tunnel_stat say so here.                               *)
(***************************************************************************)
EXTENDS AgentServer, Naturals, FiniteSets

CONSTANTS
  Runs,        \* the runs of transmit there can be at a time
  Batches,     \* the values of const batch of transmit.agents to consider
  Directions,  \* bound: the directions in which bytes go, rx and tx
  MaxTraffic   \* bound: the bytes a tunnel carries

ASSUME TransmitAssumption ==
  /\ Batches \subseteq Nat \ {0}
  /\ Directions \subseteq {"rx", "tx"}
  /\ MaxTraffic \in Nat

VARIABLES
  traffic,  \* mux.Traffic() of each tunnel, seen from the broker
  final,    \* what disconnection has read of it, seen from the agent
  stat,     \* tunnel_stat of each agent; closed: disconnected_at is set
  run,      \* each run of transmit: its broker, the peers left, mods
  batch     \* const batch of transmit.agents: it never changes

statVars == <<traffic, final, stat, run, batch>>

allVars == <<vars, traffic, final, stat, run, batch>>

Bytes == [rx : Nat, tx : Nat]

Zero == [rx |-> 0, tx |-> 0]

\* What one end receives the other transmits.
Swap(t) == [rx |-> t.tx, tx |-> t.rx]

Idle == [at |-> "idle", broker |-> None, todo |-> {}, mods |-> {}]

InitStat ==
  /\ Init
  /\ traffic = [c \in Conns |-> Zero]
  /\ final = [c \in Conns |-> Zero]
  /\ stat = [id \in AgentIDs |-> [bytes |-> Zero, closed |-> FALSE]]
  /\ run = [r \in Runs |-> Idle]
  /\ batch \in Batches

-----------------------------------------------------------------------------
(***************************************************************************)
(* The actions of AgentServer.                                             *)
(***************************************************************************)

\* The transmit runs of a process end with it.
BrokerStepStat(b) ==
  /\ BrokerStep(b)
  /\ run' = [r \in Runs |->
               IF phase'[b] = "down" /\ run[r].broker = b THEN Idle ELSE run[r]]
  /\ UNCHANGED <<traffic, final, stat, batch>>

\* Mutant: rx, tx := mux.Traffic()
OnlineBytesAsSeen(c) == traffic[c]

\* tx, rx := mux.Traffic() of updateAgentOnline: by then the tunnel has carried
\* the request of the agent, and the answer.
OnlineBytes(c) == Swap(traffic[c])

\* updateAgentOnline sets the whole tunnel_stat.
GoOnlineStat(c) ==
  /\ GoOnline(c)
  /\ stat' = IF agents' = agents THEN stat
             ELSE [stat EXCEPT ![conn[c].agent] =
                     [bytes |-> OnlineBytes(c), closed |-> FALSE]]
  /\ UNCHANGED <<traffic, final, run, batch>>

\* serveHTTP returns, and disconnection reads the traffic.
ServeEndsStat(c) ==
  /\ ServeEnds(c)
  /\ final' = [final EXCEPT ![c] = Swap(traffic[c])]
  /\ UNCHANGED <<traffic, stat, run, batch>>

\* disconnection writes the bytes and disconnected_at with the status.
GoOfflineStat(c) ==
  /\ GoOffline(c)
  /\ stat' = IF agents' = agents THEN stat
             ELSE [stat EXCEPT ![conn[c].agent] = [bytes |-> final[c], closed |-> TRUE]]
  /\ UNCHANGED <<traffic, final, run, batch>>

\* Every other step of a handler.
OtherStepStat(c) ==
  /\ \/ \E b \in Brokers, m \in Machines : Connect(c, b, m)
     \/ AuthFails(c) \/ FindAgent(c) \/ InsertAgent(c) \/ PutPeer(c)
     \/ RespondAccepted(c) \/ AcceptFails(c) \/ EvictPeer(c)
     \/ LeaveHub(c) \/ SaveHistory(c)
  /\ UNCHANGED statVars

-----------------------------------------------------------------------------
(***************************************************************************)
(* The tunnels, and the cron task transmit.                                *)
(***************************************************************************)

\* A byte goes through the tunnel, from the request for authentication on and
\* until AcceptMUX closes it.
Transfer(c) ==
  /\ pc[c] \in Running
  /\ traffic[c].rx + traffic[c].tx < MaxTraffic
  /\ \E dir \in Directions : traffic' = [traffic EXCEPT ![c][dir] = @ + 1]
  /\ UNCHANGED <<vars, final, stat, run, batch>>

\* A run starts with the peers of the pool: hub.Peers().
StartRun(r, b) ==
  LET peers == {hub[b][id] : id \in AgentIDs} \ {None}
  IN /\ run[r].at = "idle"
     /\ phase[b] # "down"
     /\ peers # {}
     /\ run' = [run EXCEPT ![r] =
                  [at |-> "sample", broker |-> b, todo |-> peers, mods |-> {}]]
     /\ UNCHANGED <<vars, traffic, final, stat, batch>>

\* tx, rx := mux.Traffic()
SampleOf(c) == Swap(traffic[c])

\* Mutant: what is left after the loop is not written.
BatchFull(mods, todo) == Cardinality(mods) = batch

\* A full batch is written, and what is left after the loop.
BatchReady(mods, todo) == Cardinality(mods) = batch \/ todo = {}

\* The loop takes the next peer.
Sample(r, c) ==
  LET todo == run[r].todo \ {c}
      mods == run[r].mods \cup {[agent |-> conn[c].agent, bytes |-> SampleOf(c)]}
  IN /\ run[r].at = "sample"
     /\ c \in run[r].todo
     /\ run' = [run EXCEPT ![r] =
                  [at |-> IF BatchReady(mods, todo) THEN "write" ELSE "sample",
                   broker |-> run[r].broker, todo |-> todo, mods |-> mods]]
     /\ UNCHANGED <<vars, traffic, final, stat, batch>>

\* Mutant: the update matches by _id alone.
TransmitFilterByID(id) == TRUE

\* filter {_id: id, status: true} of transmit.agents.
TransmitFilter(id) == agents[id].status

\* bulkWrite is unordered: its updates are applied one by one, in any order, and
\* an error of one does not keep the others or the next batch back.
Write(r, mod, failed) ==
  LET mods == run[r].mods \ {mod}
  IN /\ run[r].at = "write"
     /\ mod \in run[r].mods
     /\ failed => MayFail(run[r].broker)
     /\ stat' = IF failed \/ ~TransmitFilter(mod.agent) THEN stat
                ELSE [stat EXCEPT ![mod.agent] =
                        [bytes |-> mod.bytes, closed |-> stat[mod.agent].closed]]
     /\ run' = [run EXCEPT ![r] =
                  IF mods # {} THEN [at |-> "write", broker |-> run[r].broker,
                                     todo |-> run[r].todo, mods |-> mods]
                  ELSE IF run[r].todo # {} THEN [at |-> "sample", broker |-> run[r].broker,
                                                 todo |-> run[r].todo, mods |-> {}]
                  ELSE Idle]
     /\ UNCHANGED <<vars, traffic, final, batch>>

TransmitStep(r) ==
  \/ \E b \in Brokers : StartRun(r, b)
  \/ \E c \in Conns : Sample(r, c)
  \/ \E mod \in run[r].mods, failed \in BOOLEAN : Write(r, mod, failed)

NextStat ==
  \/ \E b \in Brokers : BrokerStepStat(b)
  \/ \E c \in Conns :
       \/ GoOnlineStat(c) \/ ServeEndsStat(c) \/ GoOfflineStat(c) \/ OtherStepStat(c)
       \/ Transfer(c)
  \/ \E r \in Runs : TransmitStep(r)

SpecStat == InitStat /\ [][NextStat]_allVars

\* cron starts transmit every minute, its runs make progress, and the database
\* does not fail every write of one agent's statistics.
FairStat ==
  \A r \in Runs :
    /\ WF_allVars(TransmitStep(r))
    /\ \A id \in AgentIDs :
         SF_allVars(\E mod \in run[r].mods : mod.agent = id /\ Write(r, mod, FALSE))

FairSpecStat == SpecStat /\ FairStat

-----------------------------------------------------------------------------
(***************************************************************************)
(* Properties.                                                             *)
(***************************************************************************)

\* The variables have their types.
TypeOKStat ==
  /\ TypeOK
  /\ traffic \in [Conns -> Bytes]
  /\ final \in [Conns -> Bytes]
  /\ stat \in [AgentIDs -> [bytes : Bytes, closed : BOOLEAN]]
  /\ run \in [Runs -> [at : {"idle", "sample", "write"}, broker : Brokers \cup {None},
                       todo : SUBSET Conns,
                       mods : SUBSET [agent : AgentIDs, bytes : Bytes]]]
  /\ batch \in Batches

\* A closed tunnel_stat is final: the agent is offline, and the bytes are those
\* its last session had when it ended, although samples of transmit, taken
\* before or after that, may still be on their way (transmit.go, the filter
\* {_id, status: true}; server.go, disconnection).
ClosedStatIsFinal ==
  \A id \in AgentIDs : stat[id].closed =>
    ~agents[id].status /\ stat[id].bytes = final[agents[id].session]

\* The statistics of an agent are its own and none too many: in each direction at
\* most what one tunnel of this very agent has carried by now, whichever session
\* they were read of, whoever wrote them, and whoever has come since (the three
\* writers name the agent only, and each turns rx and tx round).
Carried(c, bytes) == bytes.rx <= traffic[c].tx /\ bytes.tx <= traffic[c].rx

StatIsOfItsAgent ==
  \A id \in AgentIDs :
    \/ stat[id].bytes = Zero
    \/ \E c \in Conns : conn[c].agent = id /\ Carried(c, stat[id].bytes)

\* The statistics of a session that lasts are right in the end: each run covers
\* every peer of the pool, whatever the batches, the errors and the samples of
\* earlier sessions that were written late.
StatConverges ==
  \A c \in Conns :
    <>[](pc[c] = "serve") => <>[](\E id \in AgentIDs :
                                   id = conn[c].agent /\ stat[id].bytes = Swap(traffic[c]))
=============================================================================
