--------------------------- MODULE MCAgentServer ---------------------------
(***************************************************************************)
(* Model checking of AgentServer: symmetry for the safety runs, and agents *)
(* that keep trying for the liveness run.                                  *)
(***************************************************************************)
EXTENDS AgentServer, TLC

Symmetry == Permutations(Conns) \cup Permutations(AgentIDs)

\* An agent whose connection ended opens another one in the same slot.
Retry(c) ==
  /\ pc[c] \in Ended
  /\ pc' = [pc EXCEPT ![c] = "new"]
  /\ UNCHANGED <<phase, agents, history, hub, conn>>

RetryNext == Next \/ \E c \in Conns : Retry(c)

\* Handlers run to their next wait, brokers are started again (systemd), agents
\* retry, and the network does not let every attempt fail.
RetryFairness ==
  /\ \A b \in Brokers : WF_vars(Boot(b))
  /\ \A c \in Conns :
       /\ WF_vars(HandlerStep(c))
       /\ WF_vars(\E b \in Brokers, m \in Machines : Connect(c, b, m))
       /\ WF_vars(Retry(c))
       /\ SF_vars(FindAgent(c))
       /\ SF_vars(RespondAccepted(c))

RetrySpec == Init /\ [][RetryNext]_vars /\ RetryFairness

\* An agent that keeps trying is served again and again once the brokers stay
\* up: no sequence of lost connections, lost races, dropped peers and dead
\* brokers leaves its record or a pool in a state that refuses it for good.
ServedAgain ==
  <>[](\A b \in Brokers : phase[b] = "up") => []<>(\E c \in Conns : pc[c] = "serve")
=============================================================================
