------------------------ MODULE TunnelCalls_proofs ------------------------
(***************************************************************************)
(* Proofs about TunnelCalls: requests and heartbeats leave AgentServer as  *)
(* it is, and what a request reaches is what it names, for any brokers,    *)
(* agents, sessions and requests, whatever fails.                          *)
(***************************************************************************)
EXTENDS TunnelCalls, AgentServer_proofs

USE ConstantsAssumption, CallsAssumption DEF ConstantsAssumption, CallsAssumption

-----------------------------------------------------------------------------
(***************************************************************************)
(* TunnelCalls is AgentServer with calls.                                  *)
(***************************************************************************)

\* Each step is a step of AgentServer or leaves its variables alone.
LEMMA CallStep == [NextCalls]_allVars => [Next]_vars
<1> SUFFICES ASSUME [NextCalls]_allVars PROVE [Next]_vars
  OBVIOUS
<1>1. ASSUME NEW b \in Brokers, BrokerStepCalls(b) PROVE Next
  BY <1>1 DEF BrokerStepCalls, Next
<1>2. ASSUME NEW c \in Conns, GoOnlineCalls(c) PROVE Next
  BY <1>2 DEF GoOnlineCalls, Next, HandlerStep
<1>3. ASSUME NEW c \in Conns, OtherStepCalls(c) PROVE Next
  BY <1>3 DEF OtherStepCalls, Next, HandlerStep, TunnelStep
<1>4. ASSUME NEW c \in Conns, PingStep(c) PROVE UNCHANGED vars
  BY <1>4 DEF PingStep, PingBegins, PingWrites
<1>5. ASSUME NEW q \in Requests, RequestStep(q) PROVE UNCHANGED vars
  BY <1>5 DEF RequestStep, Begin, Lookup, OpenStream, OpenFails, CallerLeaves, StreamEnds,
    Finish
<1>6. CASE UNCHANGED allVars
  BY <1>6 DEF allVars
<1> QED BY <1>1, <1>2, <1>3, <1>4, <1>5, <1>6 DEF NextCalls

\* What is proved of AgentServer holds with requests and heartbeats beside it.
THEOREM CallsImplementServer == SpecCalls => Spec
<1>1. InitCalls => Init
  BY DEF InitCalls
<1> QED BY <1>1, CallStep, PTL DEF SpecCalls, Spec

-----------------------------------------------------------------------------
(***************************************************************************)
(* A request and what it has reached.                                      *)
(***************************************************************************)
Request == [at : {"idle", "dial", "found", "refused", "joined"},
            broker : Brokers \cup {None}, host : Hosts \cup {None},
            peer : Targets \cup {None}, caller : BOOLEAN, stream : BOOLEAN]

\* A request names a host of its broker from Begin to Finish, and the session
\* it has found has that agent, for good.
Routed(q) ==
  /\ req[q].at # "idle" => req[q].broker \in Brokers /\ req[q].host \in Hosts
  /\ req[q].peer # None =>
       IF req[q].host \in AgentIDs
       THEN /\ req[q].peer \in Conns /\ Settled(req[q].peer)
            /\ conn[req[q].peer].agent = req[q].host
            /\ conn[req[q].peer].broker = req[q].broker
       ELSE req[q].peer = req[q].host

\* A heartbeat is of a session that has an agent.
Beating(c) == conn[c].agent \in AgentIDs /\ Settled(c)

CallInv ==
  /\ PoolInv
  /\ req \in [Requests -> Request]
  /\ \A q \in Requests : Routed(q)
  /\ ping \subseteq Conns
  /\ \A c \in ping : Beating(c)
  /\ beat \in [AgentIDs -> Conns \cup {None}]

\* At first there are no calls.
LEMMA CallInit == InitCalls => CallInv
<1> SUFFICES ASSUME InitCalls PROVE CallInv
  OBVIOUS
<1>1. PoolInv
  BY PoolInit DEF InitCalls
<1>2. Idle \in Request
  BY DEF Idle, Request
<1>3. \A q \in Requests : Routed(q)
  BY DEF InitCalls, Idle, Routed
<1> QED BY <1>1, <1>2, <1>3 DEF InitCalls, CallInv

\* What the sessions do leaves requests routed and heartbeats known.
LEMMA CallsKept ==
  ASSUME CallInv, [Next]_vars
  PROVE  /\ \A q \in Requests : req'[q] \in {req[q], Idle} => Routed(q)'
         /\ \A c \in ping : Beating(c)'
<1>1. \A c \in Conns : Settled(c) => conn'[c] = conn[c] /\ Settled(c)'
  BY SettledStays DEF CallInv, PoolInv
<1>2. ASSUME NEW q \in Requests, req'[q] = req[q] PROVE Routed(q)'
  BY <1>1, <1>2 DEF CallInv, Routed
<1>3. ASSUME NEW q \in Requests, req'[q] = Idle PROVE Routed(q)'
  BY <1>3 DEF Idle, Routed
<1> QED BY <1>1, <1>2, <1>3 DEF CallInv, Beating

\* Every step keeps the requests routed and the heartbeats known.
LEMMA CallNext == CallInv /\ [NextCalls]_allVars => CallInv'
<1> SUFFICES ASSUME CallInv, [NextCalls]_allVars PROVE CallInv'
  OBVIOUS
<1>0. /\ PoolInv /\ PoolInv' /\ TypeOK /\ NoZombiePeer /\ [Next]_vars
      /\ \A c \in Conns : Settled(c) => conn'[c] = conn[c] /\ Settled(c)'
  BY CallStep, PoolNext, SettledStays DEF CallInv, PoolInv
<1>t. /\ req \in [Requests -> Request]
      /\ \A q \in Requests : Routed(q)
      /\ ping \subseteq Conns
      /\ \A c \in ping : Beating(c)
      /\ beat \in [AgentIDs -> Conns \cup {None}]
  BY DEF CallInv
<1>k. /\ \A q \in Requests : req'[q] \in {req[q], Idle} => Routed(q)'
      /\ \A c \in ping : Beating(c)'
  BY <1>0, CallsKept
<1>i. Idle \in Request
  BY DEF Idle, Request
<1> DEFINE Goal == /\ req' \in [Requests -> Request]
                   /\ \A q \in Requests : Routed(q)'
                   /\ ping' \subseteq Conns
                   /\ \A c \in ping' : Beating(c)'
                   /\ beat' \in [AgentIDs -> Conns \cup {None}]
<1>1. ASSUME NEW b \in Brokers, BrokerStepCalls(b) PROVE Goal
  <2>1. /\ \A q \in Requests : req'[q] \in {req[q], Idle}
        /\ req' \in [Requests -> Request]
        /\ ping' \subseteq ping /\ beat' = beat
    BY <1>1, <1>t, <1>i DEF BrokerStepCalls
  <2> QED BY <1>t, <1>k, <2>1
<1>2. ASSUME NEW c \in Conns, GoOnlineCalls(c) PROVE Goal
  BY <1>2, <1>t, <1>k DEF GoOnlineCalls
<1>3. ASSUME NEW c \in Conns, OtherStepCalls(c) PROVE Goal
  BY <1>3, <1>t, <1>k DEF OtherStepCalls, callVars
<1>4. ASSUME NEW c \in Conns, PingStep(c) PROVE Goal
  <2>1. CASE PingBegins(c)
    <3>1. Beating(c)' /\ UNCHANGED <<req, beat>> /\ ping' = ping \cup {c}
      BY <1>0, <2>1 DEF PingBegins, vars, TypeOK, Pooled, Beating, Settled
    <3> QED BY <1>t, <1>k, <3>1
  <2>2. ASSUME NEW failed \in BOOLEAN, PingWrites(c, failed) PROVE Goal
    BY <1>t, <1>k, <2>2 DEF PingWrites
  <2> QED BY <1>4, <2>1, <2>2 DEF PingStep
<1>5. ASSUME NEW q \in Requests, RequestStep(q) PROVE Goal
  <2>0. /\ UNCHANGED <<vars, ping, beat>>
        /\ \A p \in Requests : p # q => req'[p] = req[p]
    BY <1>5, <1>t
    DEF RequestStep, Begin, Lookup, OpenStream, OpenFails, CallerLeaves, StreamEnds, Finish
  <2>r. /\ req[q] \in Request /\ Routed(q)
        /\ \A p \in Requests : p # q => Routed(p)'
    BY <1>t, <1>k, <2>0
  <2>s. ASSUME req' \in [Requests -> Request], Routed(q)' PROVE Goal
    BY <1>t, <1>k, <2>0, <2>r, <2>s
  <2>1. ASSUME NEW b \in Brokers, NEW host \in Hosts, Begin(q, b, host) PROVE Goal
    <3>1. req' \in [Requests -> Request]
      BY <1>t, <2>1 DEF Begin, Request
    <3>2. Routed(q)'
      BY <1>t, <2>1 DEF Begin, Routed
    <3> QED BY <2>s, <3>1, <3>2
  <2>2. CASE Lookup(q)
    <3> DEFINE peer == Resolve(req[q].broker, req[q].host)
    <3>1. req[q].broker \in Brokers /\ req[q].host \in Hosts
      BY <2>2, <2>r DEF Lookup, Routed
    <3>2. CASE req[q].host \in AgentIDs
      <4>1. peer = hub[req[q].broker][req[q].host]
        BY <3>2 DEF Resolve
      <4>2. peer # None => /\ peer \in Conns /\ Settled(peer)
                           /\ conn[peer].agent = req[q].host
                           /\ conn[peer].broker = req[q].broker
        <5>1. hub[req[q].broker][req[q].host] \in Conns \cup {None}
          BY <1>0, <3>1, <3>2 DEF TypeOK
        <5>2. peer # None => /\ pc[peer] \in Pooled
                             /\ conn[peer].agent = req[q].host
                             /\ conn[peer].broker = req[q].broker
          BY <1>0, <3>1, <3>2, <4>1 DEF NoZombiePeer
        <5> HIDE DEF peer
        <5> QED BY <4>1, <5>1, <5>2 DEF Pooled, Settled
      <4>3. req'[q].host = req[q].host /\ req'[q].broker = req[q].broker /\ req'[q].peer = peer
        BY <1>t, <2>2 DEF Lookup
      <4>4. req' \in [Requests -> Request]
        BY <1>t, <2>2, <2>r, <4>2 DEF Lookup, Request, Targets
      <4>5. Routed(q)'
        BY <2>0, <3>1, <3>2, <4>2, <4>3 DEF Routed, vars, Settled
      <4> QED BY <2>s, <4>4, <4>5
    <3>3. CASE req[q].host \notin AgentIDs
      <4>1. peer = req[q].host /\ peer \in {Center, Network}
        BY <3>1, <3>3 DEF Resolve, Hosts
      <4>2. req'[q].host = req[q].host /\ req'[q].broker = req[q].broker /\ req'[q].peer = peer
        BY <1>t, <2>2 DEF Lookup
      <4>3. req' \in [Requests -> Request]
        BY <1>t, <2>2, <2>r, <4>1 DEF Lookup, Request, Targets
      <4>4. Routed(q)'
        BY <2>0, <3>1, <3>3, <4>1, <4>2 DEF Routed
      <4> QED BY <2>s, <4>3, <4>4
    <3> QED BY <3>2, <3>3
  <2>3. CASE OpenStream(q) \/ OpenFails(q) \/ CallerLeaves(q) \/ StreamEnds(q)
    <3>1. req' \in [Requests -> Request]
      <4>1. CASE OpenStream(q)
        BY <1>t, <2>r, <4>1 DEF OpenStream, Request
      <4>2. CASE OpenFails(q)
        BY <1>t, <2>r, <4>2 DEF OpenFails, Request
      <4>3. CASE CallerLeaves(q)
        BY <1>t, <2>r, <4>3 DEF CallerLeaves, Request
      <4>4. CASE StreamEnds(q)
        BY <1>t, <2>r, <4>4 DEF StreamEnds, Request
      <4> QED BY <2>3, <4>1, <4>2, <4>3, <4>4
    <3>2. /\ req'[q].host = req[q].host /\ req'[q].broker = req[q].broker
          /\ req'[q].peer = req[q].peer
          /\ req'[q].at # "idle" => req[q].at # "idle"
      BY <1>t, <2>3, <2>r DEF OpenStream, OpenFails, CallerLeaves, StreamEnds, Request
    <3>3. Routed(q)'
      BY <2>0, <2>r, <3>2 DEF Routed, vars, Settled
    <3> QED BY <2>s, <3>1, <3>3
  <2>4. CASE Finish(q)
    BY <1>t, <1>i, <1>k, <2>s, <2>4 DEF Finish
  <2> QED BY <1>5, <2>1, <2>2, <2>3, <2>4 DEF RequestStep
<1>6. ASSUME UNCHANGED allVars PROVE Goal
  BY <1>6, <1>t, <1>k DEF allVars
<1>7. Goal
  BY <1>1, <1>2, <1>3, <1>4, <1>5, <1>6 DEF NextCalls
<1> QED BY <1>0, <1>7 DEF CallInv

\* Requests and heartbeats have their types.
THEOREM TypeCorrectCalls == SpecCalls => []TypeOKCalls
<1>1. CallInv => TypeOKCalls
  BY DEF CallInv, PoolInv, TypeOKCalls, Request, Beating
<1> QED BY <1>1, CallInit, CallNext, PTL DEF SpecCalls

\* A request reaches the agent it names or nobody, however the sessions of the
\* agent come and go between the lookup and the stream.
THEOREM RequestsAreRouted == SpecCalls => []RequestReachesItsAgent
<1>1. CallInv => RequestReachesItsAgent
  BY DEF CallInv, Routed, RequestReachesItsAgent
<1> QED BY <1>1, CallInit, CallNext, PTL DEF SpecCalls

\* The dialer calls an agent unreachable only when no session of it is served at
\* the broker: ServedIsReachable, read from the other end.
THEOREM UnreachableMeansOffline == SpecCalls => UnreachableIsTrue
<1>1. CallInv /\ [NextCalls]_allVars => LookupIsTrue
  <2> SUFFICES ASSUME CallInv, [NextCalls]_allVars,
                      NEW q \in Requests, req[q].at = "dial", req'[q].at = "refused",
                      NEW c \in Conns, pc[c] = "serve", conn[c].broker = req[q].broker
               PROVE  conn[c].agent # req[q].host
    BY DEF LookupIsTrue
  <2>t. /\ req \in [Requests -> Request] /\ Routed(q) /\ PooledIsReachable /\ TypeOK
    BY DEF CallInv, PoolInv
  <2>1. CASE Lookup(q)
    <3>1. Resolve(req[q].broker, req[q].host) = None
      BY <2>t, <2>1 DEF Lookup
    <3>2. hub[conn[c].broker][conn[c].agent] = c /\ c # None /\ conn[c].agent \in AgentIDs
      BY <2>t DEF PooledIsReachable, Pooled, TypeOK
    <3> QED BY <3>1, <3>2 DEF Resolve
  <2>2. ASSUME NEW p \in Requests, RequestStep(p) PROVE Lookup(q)
    <3>1. p = q /\ req[p].at = "dial"
      BY <2>t, <2>2
      DEF RequestStep, Begin, Lookup, OpenStream, OpenFails, CallerLeaves, StreamEnds, Finish
    <3>2. CASE CallerLeaves(p)
      BY <2>t, <3>1, <3>2 DEF CallerLeaves, Request
    <3>3. CASE StreamEnds(p)
      BY <2>t, <3>1, <3>3 DEF StreamEnds, Request
    <3> QED BY <2>2, <3>1, <3>2, <3>3 DEF RequestStep, Begin, OpenStream, OpenFails, Finish
  <2>3. ASSUME req'[q] = req[q] \/ req'[q] = Idle PROVE FALSE
    BY <2>3 DEF Idle
  <2>4. ASSUME NEW b \in Brokers, BrokerStepCalls(b) PROVE FALSE
    BY <2>3, <2>4 DEF BrokerStepCalls
  <2>5. ASSUME NEW d \in Conns, GoOnlineCalls(d) \/ OtherStepCalls(d) \/ PingStep(d) PROVE FALSE
    BY <2>3, <2>5 DEF GoOnlineCalls, OtherStepCalls, PingStep, PingBegins, PingWrites, callVars
  <2>6. ASSUME UNCHANGED allVars PROVE FALSE
    BY <2>3, <2>6 DEF allVars
  <2> QED BY <2>1, <2>2, <2>4, <2>5, <2>6 DEF NextCalls
<1> QED BY <1>1, CallInit, CallNext, PTL DEF SpecCalls, UnreachableIsTrue
=============================================================================
