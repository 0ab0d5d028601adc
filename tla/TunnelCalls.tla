---------------------------- MODULE TunnelCalls ----------------------------
(***************************************************************************)
(* What goes through the tunnels while agents come and go.                 *)
(*                                                                         *)
(* Downwards: a request of the center, or of the broker itself, names a    *)
(* host; the mixed dialer (channel/rpclient/dialer.go) looks the host up in*)
(* the pool of its broker and opens a stream in the tunnel it finds, and   *)
(* the reverse proxy (server/restapi/reverse.go) joins it to the stream of *)
(* the caller.  The lookup and the stream are two steps: the session may   *)
(* end between them, or while the request lasts.                           *)
(*                                                                         *)
(* Upwards: the heartbeat of an agent (agent/service/health.go) is handled *)
(* beside the session, by a goroutine of its own, and may be written after *)
(* the session it came from is gone.                                       *)
(***************************************************************************)
EXTENDS AgentServer

CONSTANTS
  Requests,  \* the requests there can be at a time
  Center,    \* muxproto.ServerHost, and the tunnel to the center
  Network,   \* a host that is neither, and what the system dialer reaches
  Asked      \* bound: the hosts that requests name, with the broker they come to

Hosts == AgentIDs \cup {Center, Network}

ASSUME CallsAssumption ==
  /\ {Center, Network} \cap (AgentIDs \cup Conns \cup {None}) = {}
  /\ Center # Network
  /\ Asked \subseteq [broker : Brokers, host : Hosts]

VARIABLES
  req,      \* each request: where it is, its broker and host, what it reached
  ping,     \* the sessions a heartbeat of which is being handled
  beat      \* tunnel_stat.keepalive_at: the session that wrote it

callVars == <<req, ping, beat>>

allVars == <<vars, req, ping, beat>>

Targets == Conns \cup {Center, Network}

(***************************************************************************)
(* A request is idle, at the dialer, between the dialer and the tunnel it  *)
(* found (found), refused, or joined.  caller and stream: that leg of it   *)
(* is open.                                                                *)
(***************************************************************************)
Idle == [at |-> "idle", broker |-> None, host |-> None, peer |-> None,
         caller |-> FALSE, stream |-> FALSE]

InitCalls ==
  /\ Init
  /\ req = [q \in Requests |-> Idle]
  /\ ping = {}
  /\ beat = [id \in AgentIDs |-> None]

-----------------------------------------------------------------------------
(***************************************************************************)
(* The actions of AgentServer.                                             *)
(***************************************************************************)

\* What a process was doing for others ends with it.
BrokerStepCalls(b) ==
  /\ BrokerStep(b)
  /\ req' = [q \in Requests |->
               IF phase'[b] = "down" /\ req[q].broker = b THEN Idle ELSE req[q]]
  /\ ping' = {c \in ping : ~(phase'[b] = "down" /\ conn[c].broker = b)}
  /\ UNCHANGED beat

\* updateAgentOnline sets keepalive_at with the rest of tunnel_stat.
GoOnlineCalls(c) ==
  /\ GoOnline(c)
  /\ beat' = IF agents' = agents THEN beat ELSE [beat EXCEPT ![conn[c].agent] = c]
  /\ UNCHANGED <<req, ping>>

\* Every other step of a handler.
OtherStepCalls(c) ==
  /\ \/ \E b \in Brokers, m \in Machines : Connect(c, b, m)
     \/ AuthFails(c) \/ FindAgent(c) \/ InsertAgent(c) \/ PutPeer(c)
     \/ RespondAccepted(c) \/ AcceptFails(c) \/ EvictPeer(c)
     \/ ServeEnds(c) \/ GoOffline(c) \/ LeaveHub(c) \/ SaveHistory(c)
  /\ UNCHANGED callVars

-----------------------------------------------------------------------------
(***************************************************************************)
(* Requests.                                                               *)
(***************************************************************************)

\* The reverse proxy takes a request of the center, which names an agent; or
\* somebody in the broker uses the client, for the center or another host.
Begin(q, b, host) ==
  /\ req[q].at = "idle"
  /\ phase[b] = "up"
  /\ req' = [req EXCEPT ![q] = [at |-> "dial", broker |-> b, host |-> host,
                                peer |-> None, caller |-> TRUE, stream |-> FALSE]]
  /\ UNCHANGED <<vars, ping, beat>>

\* Mutant: the session is taken from the record of the agent, which may be of
\* another broker, and not from the pool.
ResolveByRecord(b, host) ==
  IF host \in AgentIDs THEN (IF agents[host].status THEN agents[host].session ELSE None)
  ELSE host

\* The routing of DialContext, None for an agent without a peer: the center by
\* its name, agents by their domain through the pool, the rest by the network.
Resolve(b, host) == IF host \in AgentIDs THEN hub[b][host] ELSE host

\* DialContext up to mux.Open; without a peer it returns agentUnreachable.
Lookup(q) ==
  LET peer == Resolve(req[q].broker, req[q].host)
  IN /\ req[q].at = "dial"
     /\ req' = [req EXCEPT ![q] = [at |-> IF peer = None THEN "refused" ELSE "found",
                                   broker |-> req[q].broker, host |-> req[q].host,
                                   peer |-> peer, caller |-> req[q].caller,
                                   stream |-> FALSE]]
     /\ UNCHANGED <<vars, ping, beat>>

\* Mutant: AcceptMUX closes the tunnel at its end and not by defer.
TunnelClosedAtTheEnd(c) == pc[c] \in {"done", "dead"}

\* The deferred mux.Close of AcceptMUX has run, whatever way it took, or the
\* process is gone.
TunnelClosed(c) == pc[c] \in Ended

\* mux.Open of the tunnel that was found: it is a tunnel that nobody has closed.
OpenStream(q) ==
  /\ req[q].at = "found"
  /\ req[q].peer \in Conns => ~TunnelClosed(req[q].peer)
  /\ req' = [req EXCEPT ![q] = [at |-> "joined", broker |-> req[q].broker,
                                host |-> req[q].host, peer |-> req[q].peer,
                                caller |-> req[q].caller, stream |-> TRUE]]
  /\ UNCHANGED <<vars, ping, beat>>

\* It fails, also because the tunnel is lost or the caller has gone.
OpenFails(q) ==
  /\ req[q].at = "found"
  /\ req' = [req EXCEPT ![q].at = "refused"]
  /\ UNCHANGED <<vars, ping, beat>>

\* The caller goes away, or its own tunnel does; a caller that goes before the
\* streams are joined shows as OpenFails, or at once when they are.
CallerLeaves(q) ==
  /\ req[q].at = "joined"
  /\ req[q].caller
  /\ req' = [req EXCEPT ![q].caller = FALSE]
  /\ UNCHANGED <<vars, ping, beat>>

\* The agent ends the stream, the tunnel is lost, or this end has closed it.
StreamEnds(q) ==
  /\ req[q].stream
  /\ req' = [req EXCEPT ![q].stream = FALSE]
  /\ UNCHANGED <<vars, ping, beat>>

\* Exchange and ReverseProxy return when a leg has ended, and the deferred
\* closes end the other; a request that was refused is answered with the error.
Finish(q) ==
  /\ \/ req[q].at = "refused"
     \/ req[q].at = "joined" /\ ~(req[q].caller /\ req[q].stream)
  /\ req' = [req EXCEPT ![q] = Idle]
  /\ UNCHANGED <<vars, ping, beat>>

RequestStep(q) ==
  \/ \E ask \in Asked : Begin(q, ask.broker, ask.host)
  \/ Lookup(q) \/ OpenStream(q) \/ OpenFails(q)
  \/ CallerLeaves(q) \/ StreamEnds(q) \/ Finish(q)

-----------------------------------------------------------------------------
(***************************************************************************)
(* Heartbeats.                                                             *)
(***************************************************************************)

\* The agent calls while its session is served; the handler takes the time.
PingBegins(c) ==
  /\ pc[c] = "serve"
  /\ c \notin ping
  /\ ping' = ping \cup {c}
  /\ UNCHANGED <<vars, req, beat>>

\* filter {_id: id, status: true} of Health.Ping.
PingFilter(id) == agents[id].status

\* UpdateOne of Health.Ping, which may come after the session, and may fail.
PingWrites(c, failed) ==
  LET id == conn[c].agent
  IN /\ c \in ping
     /\ failed => MayFail(conn[c].broker)
     /\ ping' = ping \ {c}
     /\ beat' = IF failed \/ ~PingFilter(id) THEN beat ELSE [beat EXCEPT ![id] = c]
     /\ UNCHANGED <<vars, req>>

PingStep(c) == PingBegins(c) \/ \E failed \in BOOLEAN : PingWrites(c, failed)

-----------------------------------------------------------------------------
NextCalls ==
  \/ \E b \in Brokers : BrokerStepCalls(b)
  \/ \E c \in Conns : GoOnlineCalls(c) \/ OtherStepCalls(c) \/ PingStep(c)
  \/ \E q \in Requests : RequestStep(q)

SpecCalls == InitCalls /\ [][NextCalls]_allVars

\* Handlers go on by themselves, and so does a request: the dialer answers, a
\* stream of a closed tunnel ends, and the joined streams are closed together.  An
\* agent that is served calls again and again, and the database does not fail
\* every heartbeat of a session.
FairCalls ==
  /\ \A c \in Conns :
       /\ WF_vars(HandlerStep(c))
       /\ WF_allVars(PingBegins(c))
       /\ SF_allVars(PingWrites(c, FALSE))
  /\ \A q \in Requests :
       /\ WF_allVars(Lookup(q) \/ OpenStream(q) \/ OpenFails(q) \/ Finish(q))
       /\ WF_allVars(req[q].peer \in Conns /\ TunnelClosed(req[q].peer) /\ StreamEnds(q))

FairSpecCalls == SpecCalls /\ FairCalls

-----------------------------------------------------------------------------
(***************************************************************************)
(* Properties.                                                             *)
(***************************************************************************)

\* The variables have their types; a heartbeat is of an agent that is known.
TypeOKCalls ==
  /\ TypeOK
  /\ req \in [Requests -> [at : {"idle", "dial", "found", "refused", "joined"},
                           broker : Brokers \cup {None}, host : Hosts \cup {None},
                           peer : Targets \cup {None},
                           caller : BOOLEAN, stream : BOOLEAN]]
  /\ ping \subseteq Conns
  /\ beat \in [AgentIDs -> Conns \cup {None}]
  /\ \A c \in ping : conn[c].agent \in AgentIDs

\* A request is for the agent it names or for nobody: it never goes to the
\* session of another agent or of another broker, to the center or to the
\* network, whatever became of the session meanwhile (dialer.go, DialContext).
RequestReachesItsAgent ==
  \A q \in Requests : req[q].peer # None =>
    IF req[q].host \in AgentIDs
    THEN /\ req[q].peer \in Conns
         /\ conn[req[q].peer].agent = req[q].host
         /\ conn[req[q].peer].broker = req[q].broker
    ELSE req[q].peer = req[q].host

\* What agentUnreachable says is true: when the dialer says that an agent is
\* offline or unknown, no session of it is being served at this broker.
LookupIsTrue ==
  \A q \in Requests :
    req[q].at = "dial" /\ req'[q].at = "refused" =>
      \A c \in Conns : pc[c] = "serve" /\ conn[c].broker = req[q].broker =>
        conn[c].agent # req[q].host

UnreachableIsTrue == [][LookupIsTrue]_allVars


\* A request does not outlive the session it was sent to: once the tunnel is no
\* longer served, by any of the ways out of AcceptMUX, the request ends (the
\* deferred mux.Close, the closes of reverse.go).
Leaving == Ended \cup {"evict", "offline", "leave", "history"}

RequestEndsWithSession ==
  \A q \in Requests, c \in Conns :
    (req[q].peer = c /\ pc[c] \in Leaving) ~> (req[q].peer # c)
=============================================================================
