---------------------------- MODULE TunnelAccept ----------------------------
(***************************************************************************)
(* How a tunnel is opened, up to the first look into the database          *)
(* (expose/restapi/tunnel.go, the start of authentication in               *)
(* serverd/server.go): what AgentServer takes for the one place "auth".    *)
(*                                                                         *)
(* An agent that says nothing must not keep its tunnel.  Accept knows no   *)
(* deadline, so a timer closes the tunnel under it, through a FlagCloser   *)
(* that also leaves a flag; the timer may fire while Accept is returning a *)
(* stream, and its two effects may come at any time after that.            *)
(***************************************************************************)
CONSTANT
  Tunnels  \* the tunnels agents open

VARIABLES
  at,      \* where the handler of each tunnel is
  conn,    \* this end of its connection: none, open, closed
  timer,   \* the accept timer: off, armed, stopped, fired
  flag,    \* the FlagCloser has set its flag
  agent,   \* what the agent has done: silent, opened a stream, sent its request
  lost     \* the network has lost the connection

vars == <<at, conn, timer, flag, agent, lost>>

(***************************************************************************)
(* Places: before the websocket upgrade, before the multiplexer, at the    *)
(* start of AcceptMUX, in Accept, after it with an error or with a stream, *)
(* after timer.Stop, in ReadAuth, handed to the rest of the handler, ended.*)
(***************************************************************************)
Places == {"upgrade", "build", "start", "accept", "failed", "accepted", "check", "read",
           "handed", "ended"}

\* A tunnel comes as a request to upgrade, or from the QUIC listener, which
\* calls AcceptMUX at once.
Init ==
  /\ at \in [Tunnels -> {"upgrade", "start"}]
  /\ conn = [t \in Tunnels |-> IF at[t] = "upgrade" THEN "none" ELSE "open"]
  /\ timer = [t \in Tunnels |-> "off"]
  /\ flag = [t \in Tunnels |-> FALSE]
  /\ agent = [t \in Tunnels |-> "silent"]
  /\ lost = [t \in Tunnels |-> FALSE]

Go(t, from, to) ==
  /\ at[t] = from
  /\ at' = [at EXCEPT ![t] = to]

Close(t) == conn' = [conn EXCEPT ![t] = "closed"]

-----------------------------------------------------------------------------
(***************************************************************************)
(* Tunnel.open.                                                            *)
(***************************************************************************)

\* Upgrade: when it fails, the connection is left to the HTTP server.
Upgrade(t) ==
  /\ \/ Go(t, "upgrade", "build") /\ conn' = [conn EXCEPT ![t] = "open"]
     \/ Go(t, "upgrade", "ended") /\ UNCHANGED conn
  /\ UNCHANGED <<timer, flag, agent, lost>>

\* Mutant: the error path returns without conn.Close().
BuildLeaks(t) ==
  /\ Go(t, "build", "start") \/ Go(t, "build", "ended")
  /\ UNCHANGED <<conn, timer, flag, agent, lost>>

\* NewSMUX or NewYaMUX.
Build(t) ==
  /\ \/ Go(t, "build", "start") /\ UNCHANGED conn
     \/ Go(t, "build", "ended") /\ Close(t)
  /\ UNCHANGED <<timer, flag, agent, lost>>

-----------------------------------------------------------------------------
(***************************************************************************)
(* authentication.                                                         *)
(***************************************************************************)

\* Mutant: the timer is not started.
StartWithoutTimer(t) ==
  /\ Go(t, "start", "accept")
  /\ UNCHANGED <<conn, timer, flag, agent, lost>>

\* time.AfterFunc(timeout, fc.Close)
Start(t) ==
  /\ Go(t, "start", "accept")
  /\ timer' = [timer EXCEPT ![t] = "armed"]
  /\ UNCHANGED <<conn, flag, agent, lost>>

\* mux.Accept: a stream that has come in may be returned even if the tunnel has
\* been closed or lost meanwhile, and so may the error.
Accept(t) ==
  /\ \/ agent[t] # "silent" /\ Go(t, "accept", "accepted")
     \/ (conn[t] = "closed" \/ lost[t]) /\ Go(t, "accept", "failed")
  /\ UNCHANGED <<conn, timer, flag, agent, lost>>

\* The deferred mux.Close of AcceptMUX.
Return(t) ==
  /\ at' = [at EXCEPT ![t] = "ended"]
  /\ Close(t)

\* Mutant: timer.Stop() is skipped when Accept succeeds.
StopTimerOnError(t) ==
  /\ \/ Go(t, "accepted", "check") /\ UNCHANGED <<conn, timer>>
     \/ /\ at[t] = "failed"
        /\ Return(t)
        /\ timer' = [timer EXCEPT ![t] = IF @ = "armed" THEN "stopped" ELSE @]
  /\ UNCHANGED <<flag, agent, lost>>

\* timer.Stop() does not take back a timer that has fired; then the error of
\* Accept is returned.
StopTimer(t) ==
  /\ \/ Go(t, "accepted", "check") /\ UNCHANGED conn
     \/ at[t] = "failed" /\ Return(t)
  /\ timer' = [timer EXCEPT ![t] = IF @ = "armed" THEN "stopped" ELSE @]
  /\ UNCHANGED <<flag, agent, lost>>

\* if fc.Closed() { return nil, net.ErrClosed }
CheckFlag(t) ==
  /\ \/ ~flag[t] /\ Go(t, "check", "read") /\ UNCHANGED conn
     \/ flag[t] /\ at[t] = "check" /\ Return(t)
  /\ UNCHANGED <<timer, flag, agent, lost>>

\* Mutant: no read deadline is set.
ReadAuthWaits(t) ==
  /\ \/ agent[t] = "sent" /\ Go(t, "read", "handed") /\ UNCHANGED conn
     \/ (conn[t] = "closed" \/ lost[t]) /\ at[t] = "read" /\ Return(t)
  /\ UNCHANGED <<timer, flag, agent, lost>>

\* ReadAuth and validAuthRequest: what the agent has sent, or an error, at the
\* latest that of the read deadline.
ReadAuth(t) ==
  /\ \/ agent[t] = "sent" /\ Go(t, "read", "handed") /\ UNCHANGED conn
     \/ at[t] = "read" /\ Return(t)
  /\ UNCHANGED <<timer, flag, agent, lost>>

\* The rest of AcceptMUX, which is AgentServer, comes to an end.
SessionEnds(t) ==
  /\ at[t] = "handed"
  /\ Return(t)
  /\ UNCHANGED <<timer, flag, agent, lost>>

\* What the handler does by itself or is made to do by a closed tunnel.
HandlerStep(t) ==
  \/ Upgrade(t) \/ Build(t) \/ Start(t) \/ Accept(t) \/ StopTimer(t)
  \/ CheckFlag(t) \/ ReadAuth(t)

-----------------------------------------------------------------------------
(***************************************************************************)
(* The timer and the agent.                                                *)
(***************************************************************************)

TimerFires(t) ==
  /\ timer[t] = "armed"
  /\ timer' = [timer EXCEPT ![t] = "fired"]
  /\ UNCHANGED <<at, conn, flag, agent, lost>>

TimerSetsFlag(t) ==
  /\ timer[t] = "fired" /\ ~flag[t]
  /\ flag' = [flag EXCEPT ![t] = TRUE]
  /\ UNCHANGED <<at, conn, timer, agent, lost>>

\* Mutant: the tunnel is closed only if the handler has not seen a stream yet.
TimerClosesWaiting(t) ==
  /\ timer[t] = "fired" /\ conn[t] = "open" /\ at[t] = "accept"
  /\ Close(t)
  /\ UNCHANGED <<at, timer, flag, agent, lost>>

TimerCloses(t) ==
  /\ timer[t] = "fired" /\ conn[t] = "open"
  /\ Close(t)
  /\ UNCHANGED <<at, timer, flag, agent, lost>>

\* The callback of the timer runs on a goroutine of its own, whatever the
\* handler is doing.
TimerStep(t) == TimerFires(t) \/ TimerSetsFlag(t) \/ TimerCloses(t)

AgentStep(t) ==
  /\ conn[t] = "open" /\ ~lost[t]
  /\ \/ agent[t] = "silent" /\ agent' = [agent EXCEPT ![t] = "opened"]
     \/ agent[t] = "opened" /\ agent' = [agent EXCEPT ![t] = "sent"]
  /\ UNCHANGED <<at, conn, timer, flag, lost>>

Lose(t) ==
  /\ conn[t] = "open" /\ ~lost[t]
  /\ lost' = [lost EXCEPT ![t] = TRUE]
  /\ UNCHANGED <<at, conn, timer, flag, agent>>

\* Every tunnel has ended.
Finished ==
  /\ \A t \in Tunnels : at[t] = "ended"
  /\ UNCHANGED vars

Next ==
  \/ \E t \in Tunnels :
       HandlerStep(t) \/ SessionEnds(t) \/ TimerStep(t) \/ AgentStep(t) \/ Lose(t)
  \/ Finished

Spec == Init /\ [][Next]_vars

\* Goroutines run, timers fire, and a session whose tunnel this end has closed
\* comes to its end; nothing is expected of the agent.
Fairness ==
  \A t \in Tunnels :
    /\ WF_vars(HandlerStep(t))
    /\ WF_vars(TimerFires(t))
    /\ WF_vars(TimerSetsFlag(t))
    /\ WF_vars(TimerCloses(t))
    /\ WF_vars(conn[t] = "closed" /\ SessionEnds(t))

FairSpec == Spec /\ Fairness

-----------------------------------------------------------------------------
(***************************************************************************)
(* Properties.                                                             *)
(***************************************************************************)

\* The variables have their types, and Accept waits under a timer that is armed
\* or has fired.
TypeOK ==
  /\ at \in [Tunnels -> Places]
  /\ conn \in [Tunnels -> {"none", "open", "closed"}]
  /\ timer \in [Tunnels -> {"off", "armed", "stopped", "fired"}]
  /\ flag \in [Tunnels -> BOOLEAN]
  /\ agent \in [Tunnels -> {"silent", "opened", "sent"}]
  /\ lost \in [Tunnels -> BOOLEAN]
  /\ \A t \in Tunnels : at[t] \in {"accept", "accepted", "failed"} =>
                          timer[t] \in {"armed", "fired"}

\* No way out of Tunnel.open and AcceptMUX leaves a connection open behind it.
NothingLeaks == \A t \in Tunnels : at[t] = "ended" => conn[t] # "open"

\* A tunnel that was accepted in time is not cut by its accept timer later on:
\* once a stream is being read, this end closes the tunnel only if the timer had
\* fired before timer.Stop.
StoppedTimerIsHarmless ==
  \A t \in Tunnels :
    /\ at[t] \in {"check", "read", "handed"} => timer[t] \in {"stopped", "fired"}
    /\ timer[t] = "stopped" => ~flag[t] /\ (at[t] # "ended" => conn[t] = "open")

\* No agent keeps a tunnel by saying nothing, or by opening a stream and saying
\* nothing: each tunnel gets to the database or is given up.
TunnelDecided ==
  \A t \in Tunnels : (at[t] \in {"upgrade", "start"}) ~> (at[t] \in {"handed", "ended"})

\* A tunnel whose timer has fired ends, even when its stream was accepted and
\* the flag was read before the timer could set it.
TimedOutEnds == \A t \in Tunnels : (timer[t] = "fired") ~> (at[t] = "ended")
=============================================================================
