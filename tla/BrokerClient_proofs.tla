------------------------ MODULE BrokerClient_proofs ------------------------
(***************************************************************************)
(* Proofs about BrokerClient, for any number of tunnels.                   *)
(***************************************************************************)
EXTENDS BrokerClient, TLAPS

USE MuxesAssumption

\* Every tunnel that is not closed is the one openLoop is about to return or,
\* when there is none, the one serveHTTP serves.  OneTunnel follows; by itself
\* it is not inductive, since a dial would add a tunnel to one that lives.
TunnelInv ==
  /\ TypeOK
  /\ client \in {"auth", "store"} => Live \subseteq {mc}
  /\ client = "serve" => Live \subseteq {ptr}
  /\ client \in {"dial", "wait", "ended"} => Live = {}
  /\ exec \in {"running", "stopped"} \/ client = "serve" => ptr # None
  /\ exec \in {"failed", "exited"} => client = "ended"

\* There is no tunnel at first.
LEMMA TunnelInit == Init => TunnelInv
  BY DEF Init, TunnelInv, TypeOK, Live

\* A step that closes tunnels, or loses them, adds none.
LEMMA TunnelNext == TunnelInv /\ [Next]_vars => TunnelInv'
<1> SUFFICES ASSUME TunnelInv, [Next]_vars PROVE TunnelInv'
  OBVIOUS
<1> USE DEF TunnelInv, TypeOK, Live
<1>1. ASSUME NEW m \in Muxes, Dial(m) PROVE TunnelInv'
  BY <1>1 DEF Dial
<1>2. CASE DialFails
  BY <1>2 DEF DialFails
<1>3. CASE AuthFails
  BY <1>3 DEF AuthFails, Close
<1>4. CASE Accepted
  BY <1>4 DEF Accepted
<1>5. CASE SleepEnds
  BY <1>5 DEF SleepEnds
<1>6. CASE SleepCancelled
  BY <1>6 DEF SleepCancelled
<1>7. CASE Store
  BY <1>7 DEF Store
<1>8. CASE Reconnect
  BY <1>8 DEF Reconnect, Close
<1>9. CASE Cancel
  BY <1>9 DEF Cancel
<1>10. CASE StopExec
  BY <1>10 DEF StopExec, Close
<1>11. CASE Exit
  BY <1>11 DEF Exit
<1>12. CASE Start
  BY <1>12 DEF Start
<1>13. ASSUME NEW m \in Muxes, Lose(m) PROVE TunnelInv'
  BY <1>13 DEF Lose
<1>14. ASSUME NEW m \in Muxes, CenterAnswers(m) PROVE TunnelInv'
  BY <1>14 DEF CenterAnswers
<1>15. ASSUME NEW m \in Muxes, CenterNotices(m) PROVE TunnelInv'
  BY <1>15 DEF CenterNotices
<1>16. CASE UNCHANGED vars
  BY <1>16 DEF vars
<1> QED
  BY <1>1, <1>2, <1>3, <1>4, <1>5, <1>6, <1>7, <1>8, <1>9, <1>10, <1>11, <1>12,
     <1>13, <1>14, <1>15, <1>16
  DEF Next, ClientStep, ProcessStep, CenterStep

\* The variables keep their types, and the client holds a tunnel of its own
\* exactly between the dial and the store.
THEOREM TypeCorrect == Spec => []TypeOK
<1>1. TunnelInv => TypeOK
  BY DEF TunnelInv
<1> QED BY <1>1, TunnelInit, TunnelNext, PTL DEF Spec

\* The broker never has two tunnels to the center that it has not closed.
THEOREM NeverTwoTunnels == Spec => []OneTunnel
<1>1. TunnelInv => OneTunnel
  BY DEF TunnelInv, OneTunnel, Live, TypeOK
<1> QED BY <1>1, TunnelInit, TunnelNext, PTL DEF Spec

\* Whoever can use the tunnel finds one behind the pointer.
THEOREM PointerIsSet == Spec => []TunnelToUse
<1>1. TunnelInv => TunnelToUse
  BY DEF TunnelInv, TunnelToUse
<1> QED BY <1>1, TunnelInit, TunnelNext, PTL DEF Spec
=============================================================================
