---------------------------- MODULE AgentServer ----------------------------
(***************************************************************************)
(* How an agent comes online at a broker and goes offline again            *)
(* (channel/serverd/server.go), for a fleet of brokers that share one      *)
(* MongoDB, with the life of the broker process around it                  *)
(* (launch/run.go, application/expose/service/agent.go).                   *)
(*                                                                         *)
(* A connection c is one call of AcceptMUX: pc[c] says where the handler   *)
(* is, and every action below is the stretch of the handler up to and      *)
(* including one access to state it shares with the other handlers (the    *)
(* database, the connection pool of its broker).                           *)
(***************************************************************************)
CONSTANTS
  Brokers,          \* the brokers of the fleet
  Machines,         \* the machine ids agents log in with
  AgentIDs,         \* the _id values of agent documents
  Conns,            \* the tunnel connections agents open
  None,             \* no document, no broker, no connection
  DbFaults,         \* TRUE when a database call may return an error
  UniqueMachineID,  \* TRUE when the collection has a unique index on machine_id
  Stoppable,        \* the brokers that may be stopped gracefully
  Throttled         \* the connections Options.Limiter answers false for

ASSUME ConstantsAssumption ==
  /\ None \notin Brokers \cup Machines \cup AgentIDs \cup Conns
  /\ DbFaults \in BOOLEAN
  /\ UniqueMachineID \in BOOLEAN
  /\ Stoppable \subseteq Brokers
  /\ Throttled \subseteq Conns

VARIABLES
  phase,    \* life of each broker process: down, up, stopping, exiting
  agents,   \* the agent collection; machine = None: no such document
  history,  \* connections with a document in the connection history
  hub,      \* the connection pool of each broker: the peer of each agent
  conn,     \* what each handler knows: its broker, the machine id, the agent id
  pc        \* where each handler is

vars == <<phase, agents, history, hub, conn, pc>>

Doc == [machine : Machines \cup {None}, status : BOOLEAN,
        broker : Brokers \cup {None}, session : Conns \cup {None}]

Login == [broker : Brokers \cup {None}, machine : Machines \cup {None},
          agent : AgentIDs \cup {None}]

(***************************************************************************)
(* Places of a handler.  Pooled: its peer is in the connection pool.       *)
(* Holding: it has the agent online and has not yet written that it is     *)
(* gone.  A handler ends rejected (authentication returned an error),      *)
(* panicked (it returned no peer and no error, and AcceptMUX used the      *)
(* peer), done, or dead with its process.                                  *)
(***************************************************************************)
Pooled    == {"accept", "update", "evict", "serve", "offline", "leave"}
Holding   == {"serve", "offline"}
Running   == Pooled \cup {"auth", "insert", "put", "history"}
Ended     == {"rejected", "panicked", "done", "dead"}
Places    == {"new"} \cup Running \cup Ended

EmptyHub == [id \in AgentIDs |-> None]

NoDoc == [machine |-> None, status |-> FALSE, broker |-> None, session |-> None]

Init ==
  /\ phase = [b \in Brokers |-> "down"]
  /\ agents = [id \in AgentIDs |-> NoDoc]
  /\ history = {}
  /\ hub = [b \in Brokers |-> EmptyHub]
  /\ conn = [c \in Conns |-> [broker |-> None, machine |-> None, agent |-> None]]
  /\ pc = [c \in Conns |-> "new"]

-----------------------------------------------------------------------------
(***************************************************************************)
(* The database.  A call returns an error when the database fails, and     *)
(* also when the context of a broker that is going down is cancelled; an   *)
(* error leaves open whether the write was applied.                        *)
(***************************************************************************)
MayFail(b) == DbFaults \/ phase[b] # "up"

DocsOf(m) == {id \in AgentIDs : agents[id].machine = m}

\* Mutant: the collection has no unique index.
DuplicateKeyIgnored(m) == FALSE

DuplicateKey(m) == UniqueMachineID /\ DocsOf(m) # {}

NewDoc(m) == [NoDoc EXCEPT !.machine = m]

\* Mutant: ret.InsertedID is not an ObjectID, and the zero id is kept.
InsertedIDZero(id) == None

\* The id a new document is known by: ret.InsertedID.
InsertedID(id) == id

\* Mutant: the update matches by _id alone.
OnlineFilterByID(id) == TRUE

\* filter {_id: id, status: false} and update of updateAgentOnline.
OnlineFilter(id) == ~agents[id].status

SetOnline(id, b, c) ==
  agents' = [agents EXCEPT ![id] = [machine |-> agents[id].machine, status |-> TRUE,
                                    broker |-> b, session |-> c]]

\* Mutant: the filter of updateAgentOnline, copied.
OfflineFilterCopied(id) == ~agents[id].status

\* filter {_id: id, status: true} and update of disconnection.
OfflineFilter(id) == agents[id].status

SetOffline(ids) ==
  agents' = [id \in AgentIDs |->
               IF id \in ids THEN [agents[id] EXCEPT !.status = FALSE] ELSE agents[id]]

\* Mutant: Reset forgets which broker it runs for.
ResetFilterAllBrokers(b) == {id \in AgentIDs : agents[id].status}

\* filter {broker.id: b, status: true} of Agent.Reset.
ResetFilter(b) == {id \in AgentIDs : agents[id].status /\ agents[id].broker = b}

\* UpdateMany of Agent.Reset.  Its error is dropped by both callers: when it
\* fails, any part of the matching documents may have been written.
Reset(b) ==
  \E ids \in SUBSET ResetFilter(b) :
    /\ DbFaults \/ ids = ResetFilter(b)
    /\ SetOffline(ids)

-----------------------------------------------------------------------------
(***************************************************************************)
(* The connection pool of a broker (linkhub.Huber), as serverd uses it:    *)
(* Put answers nil when the id is taken, DelID removes whatever is there.  *)
(***************************************************************************)
\* Mutant: Put replaces the peer that is there.
HubFreeAlways(b, id) == TRUE

HubFree(b, id) == hub[b][id] = None

HubPut(b, id, c) == hub' = [hub EXCEPT ![b][id] = c]

HubDelID(b, id) == hub' = [hub EXCEPT ![b][id] = None]

-----------------------------------------------------------------------------
(***************************************************************************)
(* The broker process.                                                     *)
(***************************************************************************)

\* Exec up to the listeners: whatever the last run of this broker left online
\* is reset, and the pool is new.
Boot(b) ==
  /\ phase[b] = "down"
  /\ phase' = [phase EXCEPT ![b] = "up"]
  /\ hub' = [hub EXCEPT ![b] = EmptyHub]
  /\ Reset(b)
  /\ UNCHANGED <<history, conn, pc>>

\* A listener failed or the context was cancelled: the listeners are closed.
\* Handlers run on, those on hijacked connections until the process exits.
Stop(b) ==
  /\ b \in Stoppable
  /\ phase[b] = "up"
  /\ phase' = [phase EXCEPT ![b] = "stopping"]
  /\ UNCHANGED <<agents, history, hub, conn, pc>>

\* The Reset at the end of Exec, before the process exits.
StopReset(b) ==
  /\ phase[b] = "stopping"
  /\ phase' = [phase EXCEPT ![b] = "exiting"]
  /\ Reset(b)
  /\ UNCHANGED <<history, hub, conn, pc>>

\* The process ends: at the end of main, by os.Exit in System.Exit, by a signal
\* other than the interrupt, or by a crash.  Handlers and the pool are gone.
ProcessEnds(b) ==
  /\ phase[b] # "down"
  /\ phase' = [phase EXCEPT ![b] = "down"]
  /\ hub' = [hub EXCEPT ![b] = EmptyHub]
  /\ pc' = [c \in Conns |->
              IF pc[c] \in Running /\ conn[c].broker = b THEN "dead" ELSE pc[c]]
  /\ UNCHANGED <<agents, history, conn>>

-----------------------------------------------------------------------------
(***************************************************************************)
(* The handler: AcceptMUX, with authentication and disconnection.          *)
(***************************************************************************)
limitAllowed(c) == c \notin Throttled

\* An agent of machine m opens a tunnel to broker b.  AcceptMUX asks the
\* limiter, writes a log line when it answers false, and goes on.
Connect(c, b, m) ==
  /\ pc[c] = "new"
  /\ phase[b] = "up"
  /\ conn' = [conn EXCEPT ![c] = [broker |-> b, machine |-> m, agent |-> None]]
  /\ pc' = [pc EXCEPT ![c] = "auth"]
  /\ UNCHANGED <<phase, agents, history, hub>>

\* No stream within the timeout, no readable or no valid request, or an error
\* of FindOne: authentication returns an error.
AuthFails(c) ==
  /\ pc[c] = "auth"
  /\ pc' = [pc EXCEPT ![c] = "rejected"]
  /\ UNCHANGED <<phase, agents, history, hub, conn>>

\* FindOne of findOrCreateAgent, and the check of the status it read: when the
\* machine has several documents it returns any of them.
FindAgent(c) ==
  /\ pc[c] = "auth"
  /\ \/ \E id \in DocsOf(conn[c].machine) :
          IF agents[id].status
          THEN /\ pc' = [pc EXCEPT ![c] = "rejected"]
               /\ UNCHANGED conn
          ELSE /\ pc' = [pc EXCEPT ![c] = "put"]
               /\ conn' = [conn EXCEPT ![c].agent = id]
     \/ /\ DocsOf(conn[c].machine) = {}
        /\ pc' = [pc EXCEPT ![c] = "insert"]
        /\ UNCHANGED conn
  /\ UNCHANGED <<phase, agents, history, hub>>

\* InsertOne of findOrCreateAgent.
InsertAgent(c) ==
  LET m == conn[c].machine
  IN /\ pc[c] = "insert"
     /\ \/ \E id \in DocsOf(None) :
             /\ ~DuplicateKey(m)
             /\ agents' = [agents EXCEPT ![id] = NewDoc(m)]
             /\ \/ /\ pc' = [pc EXCEPT ![c] = "put"]
                   /\ conn' = [conn EXCEPT ![c].agent = InsertedID(id)]
                \/ /\ MayFail(conn[c].broker)
                   /\ pc' = [pc EXCEPT ![c] = "rejected"]
                   /\ UNCHANGED conn
        \/ /\ DuplicateKey(m) \/ MayFail(conn[c].broker)
           /\ pc' = [pc EXCEPT ![c] = "rejected"]
           /\ UNCHANGED <<agents, conn>>
     /\ UNCHANGED <<phase, history, hub>>

\* Mutant: the refused duplicate cleans up like the other error paths.
PutPeerThenDelete(c) ==
  LET b == conn[c].broker
      id == conn[c].agent
  IN /\ pc[c] = "put"
     /\ IF HubFree(b, id)
        THEN HubPut(b, id, c) /\ pc' = [pc EXCEPT ![c] = "accept"]
        ELSE HubDelID(b, id) /\ pc' = [pc EXCEPT ![c] = "rejected"]
     /\ UNCHANGED <<phase, agents, history, conn>>

\* putHuber: the peer is in the pool before the agent knows the answer.
PutPeer(c) ==
  LET b == conn[c].broker
      id == conn[c].agent
  IN /\ pc[c] = "put"
     /\ IF HubFree(b, id)
        THEN /\ HubPut(b, id, c)
             /\ pc' = [pc EXCEPT ![c] = "accept"]
        ELSE /\ pc' = [pc EXCEPT ![c] = "rejected"]
             /\ UNCHANGED hub
     /\ UNCHANGED <<phase, agents, history, conn>>

RespondAccepted(c) ==
  /\ pc[c] = "accept"
  /\ pc' = [pc EXCEPT ![c] = "update"]
  /\ UNCHANGED <<phase, agents, history, hub, conn>>

\* Mutant: the error path forgets deleteHuber.
AcceptFailsKeepsPeer(c) ==
  /\ pc[c] = "accept"
  /\ pc' = [pc EXCEPT ![c] = "rejected"]
  /\ UNCHANGED <<phase, agents, history, hub, conn>>

\* The answer cannot be written: the peer leaves the pool.
AcceptFails(c) ==
  /\ pc[c] = "accept"
  /\ HubDelID(conn[c].broker, conn[c].agent)
  /\ pc' = [pc EXCEPT ![c] = "rejected"]
  /\ UNCHANGED <<phase, agents, history, conn>>

\* updateAgentOnline: an error, and a filter that matches nothing, both lead
\* to the removal of the peer.
GoOnline(c) ==
  LET b == conn[c].broker
      id == conn[c].agent
  IN /\ pc[c] = "update"
     /\ \/ /\ OnlineFilter(id)
           /\ SetOnline(id, b, c)
           /\ \/ pc' = [pc EXCEPT ![c] = "serve"]
              \/ MayFail(b) /\ pc' = [pc EXCEPT ![c] = "evict"]
        \/ /\ ~OnlineFilter(id) \/ MayFail(b)
           /\ pc' = [pc EXCEPT ![c] = "evict"]
           /\ UNCHANGED agents
     /\ UNCHANGED <<phase, history, hub, conn>>

\* Mutant: the error path forgets deleteHuber.
EvictPeerKeepsPeer(c) ==
  /\ pc[c] = "evict"
  /\ pc' = [pc EXCEPT ![c] = "panicked"]
  /\ UNCHANGED <<phase, agents, history, hub, conn>>

\* deleteHuber after the failed update; authentication returns the err of
\* responseAccepted, which is nil, and AcceptMUX calls peer.Info() on nil.
EvictPeer(c) ==
  /\ pc[c] = "evict"
  /\ HubDelID(conn[c].broker, conn[c].agent)
  /\ pc' = [pc EXCEPT ![c] = "panicked"]
  /\ UNCHANGED <<phase, agents, history, conn>>

\* serveHTTP returns: the tunnel is gone.
ServeEnds(c) ==
  /\ pc[c] = "serve"
  /\ pc' = [pc EXCEPT ![c] = "offline"]
  /\ UNCHANGED <<phase, agents, history, hub, conn>>

\* UpdateOne of disconnection; an error and a count of 0 are only logged.
GoOffline(c) ==
  LET id == conn[c].agent
  IN /\ pc[c] = "offline"
     /\ \/ OfflineFilter(id) /\ SetOffline({id})
        \/ (~OfflineFilter(id) \/ MayFail(conn[c].broker)) /\ UNCHANGED agents
     /\ pc' = [pc EXCEPT ![c] = "leave"]
     /\ UNCHANGED <<phase, history, hub, conn>>

\* deleteHuber of disconnection.
LeaveHub(c) ==
  /\ pc[c] = "leave"
  /\ HubDelID(conn[c].broker, conn[c].agent)
  /\ pc' = [pc EXCEPT ![c] = "history"]
  /\ UNCHANGED <<phase, agents, history, conn>>

\* InsertOne of disconnection; an error is only logged.
SaveHistory(c) ==
  /\ pc[c] = "history"
  /\ \/ history' = history \cup {c}
     \/ MayFail(conn[c].broker) /\ UNCHANGED history
  /\ pc' = [pc EXCEPT ![c] = "done"]
  /\ UNCHANGED <<phase, agents, hub, conn>>

-----------------------------------------------------------------------------
BrokerStep(b) == Boot(b) \/ Stop(b) \/ StopReset(b) \/ ProcessEnds(b)

\* What a handler does by itself, without waiting for the agent to act.
HandlerStep(c) ==
  \/ InsertAgent(c) \/ PutPeer(c) \/ GoOnline(c) \/ EvictPeer(c)
  \/ GoOffline(c) \/ LeaveHub(c) \/ SaveHistory(c)

\* What depends on the agent or on the network.
TunnelStep(c) ==
  \/ \E b \in Brokers, m \in Machines : Connect(c, b, m)
  \/ AuthFails(c) \/ FindAgent(c)
  \/ RespondAccepted(c) \/ AcceptFails(c)
  \/ ServeEnds(c)

Next ==
  \/ \E b \in Brokers : BrokerStep(b)
  \/ \E c \in Conns : HandlerStep(c) \/ TunnelStep(c)

Spec == Init /\ [][Next]_vars

-----------------------------------------------------------------------------
(***************************************************************************)
(* Properties.                                                             *)
(***************************************************************************)

\* The variables have their types; a handler past findOrCreateAgent knows an
\* existing document of its machine.
TypeOK ==
  /\ phase \in [Brokers -> {"down", "up", "stopping", "exiting"}]
  /\ agents \in [AgentIDs -> Doc]
  /\ history \subseteq Conns
  /\ hub \in [Brokers -> [AgentIDs -> Conns \cup {None}]]
  /\ conn \in [Conns -> Login]
  /\ pc \in [Conns -> Places]
  /\ \A c \in Conns : pc[c] \in Running =>
       conn[c].broker \in Brokers /\ conn[c].machine \in Machines
  /\ \A c \in Conns : pc[c] \in Pooled \cup {"put", "history"} =>
       /\ conn[c].agent \in AgentIDs
       /\ agents[conn[c].agent].machine = conn[c].machine

\* A session that is being served can be reached: its broker's pool has this
\* very connection under the agent's id, whatever other handlers for the same
\* agent do (serverd/server.go: putHuber, the deleteHuber calls by id).
ServedIsReachable ==
  \A c \in Conns : pc[c] = "serve" => hub[conn[c].broker][conn[c].agent] = c

\* The pool holds no peer without a handler that is still going to remove it
\* (else the agent could never come back to this broker).
NoZombiePeer ==
  \A b \in Brokers, id \in AgentIDs : hub[b][id] # None =>
    LET c == hub[b][id]
    IN pc[c] \in Pooled /\ conn[c].broker = b /\ conn[c].agent = id

\* A peer leaves the pool only by a step of its own handler or with the
\* process, although DelID names an agent and not a connection.
RemovedByItsHandler ==
  \A b \in Brokers, id \in AgentIDs :
    hub[b][id] # None /\ hub'[b][id] # hub[b][id] =>
      \/ pc[hub[b][id]] # pc'[hub[b][id]] /\ hub'[b][id] = None
      \/ phase'[b] = "down"

PeerRemovedByItsHandler == [][RemovedByItsHandler]_vars

\* The record of an agent that is being served says so, and names the session
\* and the broker that serve it (filter {_id, status: false}).  It follows that
\* an agent is served by one session of one broker.
SessionOwnsRecord ==
  \A c \in Conns : pc[c] \in Holding =>
    LET doc == agents[conn[c].agent]
    IN doc.status /\ doc.broker = conn[c].broker /\ doc.session = c

\* No handler of this broker has an agent online.
Drained(b) == \A c \in Conns : pc[c] \in Holding => conn[c].broker # b

\* One step alone can take the record of a session away from it, if every session
\* owned its record so far: the Reset of a broker that is stopped with sessions.
\* No login, no crash, no boot and no failed write does (the filters of
\* updateAgentOnline, disconnection and Reset; run.go:314).
OwnershipLostAtStop ==
  [][SessionOwnsRecord =>
       \/ SessionOwnsRecord'
       \/ \E b \in Brokers : /\ phase[b] = "stopping" /\ phase'[b] = "exiting"
                            /\ ~Drained(b)]_vars

\* While its broker is up, an agent is recorded online only when a session
\* holds it: nobody is locked out by the check of agt.Status for nothing.
OnlineHasHolder ==
  \A id \in AgentIDs : agents[id].status =>
    \/ phase[agents[id].broker] # "up"
    \/ LET c == agents[id].session
       IN pc[c] \in Holding /\ conn[c].agent = id /\ conn[c].broker = agents[id].broker

\* The handlers that have an agent in the pool of a broker, and the lease they
\* make of each place in it.
PoolHolders == [slot \in Brokers \X AgentIDs |->
                  {c \in Conns : /\ pc[c] \in Pooled
                                 /\ conn[c].broker = slot[1] /\ conn[c].agent = slot[2]}]

PoolLease == INSTANCE AgentLease
  WITH holders <- PoolHolders, AgentIDs <- Brokers \X AgentIDs, Sessions <- Conns

\* A place in the pool of a broker is a lease: of all handlers one broker runs for
\* an agent one at a time gets past putHuber, and the next only when that one has
\* left, by whichever of the five exits, although each of them deletes by id.
PoolLeaseSpec == PoolLease!Spec

\* The sessions that hold the record of each agent, and the lease they make.
Holders == [id \in AgentIDs |->
              {c \in Conns : pc[c] \in Holding /\ conn[c].agent = id}]

Lease == INSTANCE AgentLease WITH holders <- Holders, Sessions <- Conns

\* Coming online is a lease on the agent record (AgentLease).
LeaseSpec == Lease!Spec

\* Two sessions served at brokers that are up never serve the same machine.
OneSessionPerMachine ==
  \A c, d \in Conns :
    /\ pc[c] = "serve" /\ phase[conn[c].broker] = "up"
    /\ pc[d] = "serve" /\ phase[conn[d].broker] = "up"
    /\ conn[c].machine = conn[d].machine
    => c = d

\* What server.go:136 says of the failed update: "delete from the pool and
\* return the error".  A handler whose authentication returns neither a peer
\* nor an error panics.
FailedLoginReturnsError == \A c \in Conns : pc[c] # "panicked"

\* What server.go:41 logs: a connection the limiter refuses does not come online.
ThrottledStaysOffline ==
  \A c \in Conns : ~limitAllowed(c) => pc[c] # "serve"
=============================================================================
