--------------------------- MODULE MCTunnelCalls ---------------------------
(***************************************************************************)
(* Model checking of TunnelCalls: two agents and two brokers, and two      *)
(* sessions that may be of one agent, one after the other or racing, or of *)
(* two.  A request comes to one broker, for one agent or for the center:   *)
(* the brokers and the agents are alike, and there is one request.  What   *)
(* the system dialer reaches is found as the center is, without the pool.  *)
(***************************************************************************)
EXTENDS TunnelCalls

CONSTANTS
  c1, c2,  \* the tunnels
  b1, a1   \* the broker requests come to, and the agent they are for

AskedOfOne == [broker : {b1}, host : {a1, Center}]
=============================================================================
