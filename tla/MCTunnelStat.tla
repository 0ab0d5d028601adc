---------------------------- MODULE MCTunnelStat ----------------------------
(***************************************************************************)
(* Model checking of TunnelStat with two agents whose sessions go through  *)
(* one pool: written in one batch that is or is not full, or in two.       *)
(***************************************************************************)
EXTENDS TunnelStat

CONSTANTS c1, c2  \* the tunnels
=============================================================================
