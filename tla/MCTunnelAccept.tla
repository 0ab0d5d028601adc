--------------------------- MODULE MCTunnelAccept ---------------------------
(***************************************************************************)
(* Model checking of TunnelAccept; handlers of two tunnels share nothing,  *)
(* one tunnel shows every order of handler, timer, agent and network.      *)
(***************************************************************************)
EXTENDS TunnelAccept
=============================================================================
