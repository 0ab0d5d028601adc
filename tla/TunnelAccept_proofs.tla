------------------------ MODULE TunnelAccept_proofs ------------------------
(***************************************************************************)
(* Proofs about TunnelAccept, for any number of tunnels.                   *)
(***************************************************************************)
EXTENDS TunnelAccept, TLAPS

\* What the places say of one tunnel: before the handler returns, only a timer
\* that has fired sets the flag or closes the connection under it, and from
\* CheckFlag on the timer cannot fire any more.
Guarded(t) ==
  /\ at[t] = "upgrade" => conn[t] = "none"
  /\ at[t] = "ended" => conn[t] # "open"
  /\ at[t] \notin {"upgrade", "ended"} =>
       conn[t] = "open" \/ (conn[t] = "closed" /\ timer[t] = "fired")
  /\ flag[t] => timer[t] = "fired"
  /\ at[t] \in {"upgrade", "build", "start"} => timer[t] = "off"
  /\ at[t] \in {"accept", "accepted", "failed"} => timer[t] \in {"armed", "fired"}
  /\ at[t] \in {"check", "read", "handed"} => timer[t] \in {"stopped", "fired"}
  /\ at[t] = "ended" => timer[t] # "armed"

AcceptInv == TypeOK /\ \A t \in Tunnels : Guarded(t)

\* A tunnel starts before its connection, or with it.
LEMMA AcceptInit == Init => AcceptInv
  BY DEF Init, AcceptInv, TypeOK, Guarded, Places

\* Every step of a handler, of a timer, of an agent or of the network keeps
\* what the places say.
LEMMA AcceptNext == AcceptInv /\ [Next]_vars => AcceptInv'
<1> SUFFICES ASSUME AcceptInv, [Next]_vars PROVE AcceptInv'
  OBVIOUS
<1> USE DEF AcceptInv, TypeOK, Guarded, Places
<1>1. ASSUME NEW t \in Tunnels, Upgrade(t) PROVE AcceptInv'
  BY <1>1 DEF Upgrade, Go
<1>2. ASSUME NEW t \in Tunnels, Build(t) PROVE AcceptInv'
  BY <1>2 DEF Build, Go, Close
<1>3. ASSUME NEW t \in Tunnels, Start(t) PROVE AcceptInv'
  BY <1>3 DEF Start, Go
<1>4. ASSUME NEW t \in Tunnels, Accept(t) PROVE AcceptInv'
  BY <1>4 DEF Accept, Go
<1>5. ASSUME NEW t \in Tunnels, StopTimer(t) PROVE AcceptInv'
  BY <1>5 DEF StopTimer, Go, Return, Close
<1>6. ASSUME NEW t \in Tunnels, CheckFlag(t) PROVE AcceptInv'
  BY <1>6 DEF CheckFlag, Go, Return, Close
<1>7. ASSUME NEW t \in Tunnels, ReadAuth(t) PROVE AcceptInv'
  BY <1>7 DEF ReadAuth, Go, Return, Close
<1>8. ASSUME NEW t \in Tunnels, SessionEnds(t) PROVE AcceptInv'
  BY <1>8 DEF SessionEnds, Return, Close
<1>9. ASSUME NEW t \in Tunnels, TimerFires(t) PROVE AcceptInv'
  BY <1>9 DEF TimerFires
<1>10. ASSUME NEW t \in Tunnels, TimerSetsFlag(t) PROVE AcceptInv'
  BY <1>10 DEF TimerSetsFlag
<1>11. ASSUME NEW t \in Tunnels, TimerCloses(t) PROVE AcceptInv'
  BY <1>11 DEF TimerCloses, Close
<1>12. ASSUME NEW t \in Tunnels, AgentStep(t) PROVE AcceptInv'
  BY <1>12 DEF AgentStep
<1>13. ASSUME NEW t \in Tunnels, Lose(t) PROVE AcceptInv'
  BY <1>13 DEF Lose
<1>14. CASE UNCHANGED vars
  BY <1>14 DEF vars
<1> QED
  BY <1>1, <1>2, <1>3, <1>4, <1>5, <1>6, <1>7, <1>8, <1>9, <1>10, <1>11, <1>12, <1>13,
     <1>14
  DEF Next, HandlerStep, TimerStep, Finished

\* The variables have their types, and Accept never waits without its timer.
THEOREM TypeCorrect == Spec => []TypeOK
<1>1. AcceptInv => TypeOK
  BY DEF AcceptInv
<1> QED BY <1>1, AcceptInit, AcceptNext, PTL DEF Spec

\* Whatever fails, no connection is left open by a handler that has returned.
THEOREM ConnectionsClosed == Spec => []NothingLeaks
<1>1. AcceptInv => NothingLeaks
  BY DEF AcceptInv, Guarded, NothingLeaks
<1> QED BY <1>1, AcceptInit, AcceptNext, PTL DEF Spec

\* The accept timer never cuts a tunnel that was accepted in time.
THEOREM TimerStaysAway == Spec => []StoppedTimerIsHarmless
<1>1. AcceptInv => StoppedTimerIsHarmless
  <2> SUFFICES ASSUME AcceptInv, NEW t \in Tunnels
               PROVE  /\ at[t] \in {"check", "read", "handed"} => timer[t] \in {"stopped", "fired"}
                      /\ timer[t] = "stopped" => ~flag[t] /\ (at[t] # "ended" => conn[t] = "open")
    BY DEF StoppedTimerIsHarmless
  <2>1. Guarded(t)
    BY DEF AcceptInv
  <2> QED BY <2>1 DEF Guarded
<1> QED BY <1>1, AcceptInit, AcceptNext, PTL DEF Spec
=============================================================================
