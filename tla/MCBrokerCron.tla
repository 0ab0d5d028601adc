---------------------------- MODULE MCBrokerCron ----------------------------
(***************************************************************************)
(* Model checking of BrokerCron and BrokerClient: one tunnel in use, one   *)
(* the center has not yet noticed is gone, and a new one; cards that come, *)
(* go and come back.                                                       *)
(***************************************************************************)
EXTENDS BrokerCron

CONSTANTS
  t1, t2, t3,  \* the tunnels
  n1, n2       \* the lists of cards
=============================================================================
