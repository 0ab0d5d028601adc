---------------------------- MODULE BrokerClient ----------------------------
(***************************************************************************)
(* The broker's own tunnel to the center (channel/clientd): it is opened   *)
(* before anything else (launch/run.go), kept behind an atomic pointer     *)
(* that the rest of the broker dials through, and opened again whenever it *)
(* breaks.                                                                 *)
(*                                                                         *)
(* The center is not part of the repository.  What clientd depends on is   *)
(* modelled: it may refuse a second tunnel of a broker it believes to be   *)
(* online, and it learns that a tunnel is gone only some time after the    *)
(* broker has closed it.                                                   *)
(***************************************************************************)
CONSTANTS
  Muxes,  \* the tunnels there can be at a time
  None    \* no tunnel

ASSUME MuxesAssumption == None \notin Muxes

VARIABLES
  cancelled,  \* TRUE when the context of the process is cancelled
  exec,       \* where launch.Exec is: starting, running, stopped, failed, exited
  client,     \* where brokerClient is: dial, auth, store, serve, wait, ended
  mc,         \* the tunnel openLoop is about to return
  ptr,        \* muxInstance.ptr
  mux,        \* this end of each tunnel: free, open, lost, closed
  answer,     \* the center's answer on each tunnel: none, accepted, refused
  online      \* the tunnels the center believes to be online

vars == <<cancelled, exec, client, mc, ptr, mux, answer, online>>

\* Tunnels this end has not given up.
Live == {m \in Muxes : mux[m] \in {"open", "lost"}}

Init ==
  /\ cancelled = FALSE
  /\ exec = "starting"
  /\ client = "dial"
  /\ mc = None
  /\ ptr = None
  /\ mux = [m \in Muxes |-> "free"]
  /\ answer = [m \in Muxes |-> "none"]
  /\ online = {}

-----------------------------------------------------------------------------
(***************************************************************************)
(* openLoop and open.                                                      *)
(***************************************************************************)

\* muxconn.Open gives a new tunnel, which is not the one ptr still names.
Dial(m) ==
  /\ client = "dial"
  /\ mux[m] = "free" /\ m # ptr
  /\ mux' = [mux EXCEPT ![m] = "open"]
  /\ answer' = [answer EXCEPT ![m] = "none"]
  /\ mc' = m
  /\ client' = "auth"
  /\ UNCHANGED <<cancelled, exec, ptr, online>>

\* muxconn.Open fails at every address.
DialFails ==
  /\ client = "dial"
  /\ client' = "wait"
  /\ UNCHANGED <<cancelled, exec, mc, ptr, mux, answer, online>>

Close(m) == mux' = [mux EXCEPT ![m] = "closed"]

\* Mutant: an error path of open returns without mux.Close().
AuthFailsLeaks ==
  /\ client = "auth"
  /\ client' = "wait"
  /\ UNCHANGED <<cancelled, exec, mc, ptr, mux, answer, online>>

\* No stream, the request not written, no answer in time, or a status outside
\* 2xx: the tunnel is closed and openLoop waits.  The answer may be on its way.
AuthFails ==
  /\ client = "auth"
  /\ Close(mc)
  /\ mc' = None
  /\ client' = "wait"
  /\ UNCHANGED <<cancelled, exec, ptr, answer, online>>

\* resp.checkError finds a status of 2xx: open and openLoop return the tunnel.
Accepted ==
  /\ client = "auth"
  /\ answer[mc] = "accepted"
  /\ client' = "store"
  /\ UNCHANGED <<cancelled, exec, mc, ptr, mux, answer, online>>

\* The timer of sleep, after 3 seconds to a minute.
SleepEnds ==
  /\ client = "wait"
  /\ client' = "dial"
  /\ UNCHANGED <<cancelled, exec, mc, ptr, mux, answer, online>>

\* The context is done while openLoop sleeps: Open returns the error and the
\* process exits, or serveHTTP leaves its loop.
SleepCancelled ==
  /\ client = "wait"
  /\ cancelled
  /\ client' = "ended"
  /\ exec' = IF exec = "starting" THEN "failed" ELSE exec
  /\ UNCHANGED <<cancelled, mc, ptr, mux, answer, online>>

-----------------------------------------------------------------------------
(***************************************************************************)
(* Open after openLoop, and serveHTTP.                                     *)
(***************************************************************************)

\* Mutant: Open returns without mux.store(mc).
StoreForgotten ==
  /\ client = "store"
  /\ ptr' = IF exec = "starting" THEN ptr ELSE mc
  /\ mc' = None
  /\ client' = "serve"
  /\ exec' = IF exec = "starting" THEN "running" ELSE exec
  /\ UNCHANGED <<cancelled, mux, answer, online>>

\* mux.store(mc), in Open and in the loop of serveHTTP; the first time, Open
\* then starts serveHTTP and returns, and Exec goes on with the tunnel.
Store ==
  /\ client = "store"
  /\ ptr' = mc
  /\ mc' = None
  /\ client' = "serve"
  /\ exec' = IF exec = "starting" THEN "running" ELSE exec
  /\ UNCHANGED <<cancelled, mux, answer, online>>

\* Mutant: the loop dials again without closing the last tunnel.
ReconnectOnly ==
  /\ client = "serve"
  /\ mux[ptr] # "open"
  /\ client' = "dial"
  /\ UNCHANGED <<cancelled, exec, mc, ptr, mux, answer, online>>

\* srv.Serve returns because Accept fails on the tunnel ptr names; the tunnel
\* is closed before the next one is opened.
Reconnect ==
  /\ client = "serve"
  /\ mux[ptr] # "open"
  /\ Close(ptr)
  /\ client' = "dial"
  /\ UNCHANGED <<cancelled, exec, mc, ptr, answer, online>>

-----------------------------------------------------------------------------
(***************************************************************************)
(* The process around the client.                                          *)
(***************************************************************************)

\* The interrupt of main cancels the context.
Cancel ==
  /\ exec \in {"starting", "running"}
  /\ cancelled' = TRUE
  /\ UNCHANGED <<exec, client, mc, ptr, mux, answer, online>>

\* A listener failed, or the context is done: Exec closes the tunnel ptr names.
\* serveHTTP is not told; it may be anywhere, and dial again.
StopExec ==
  /\ exec = "running"
  /\ Close(ptr)
  /\ exec' = "stopped"
  /\ UNCHANGED <<cancelled, client, mc, ptr, answer, online>>

\* The process ends: after Exec has returned, on an error between Open and the
\* listeners, by os.Exit, or by a crash.
Exit ==
  /\ exec # "exited"
  /\ exec' = "exited"
  /\ client' = "ended"
  /\ mux' = [m \in Muxes |-> IF m \in Live THEN "closed" ELSE mux[m]]
  /\ mc' = None
  /\ ptr' = None
  /\ UNCHANGED <<cancelled, answer, online>>

\* The broker is started again; the center may still believe an old tunnel.
Start ==
  /\ exec = "exited"
  /\ exec' = "starting"
  /\ client' = "dial"
  /\ cancelled' = FALSE
  /\ UNCHANGED <<mc, ptr, mux, answer, online>>

-----------------------------------------------------------------------------
(***************************************************************************)
(* The network and the center.                                             *)
(***************************************************************************)

\* The transport of a tunnel breaks.
Lose(m) ==
  /\ mux[m] = "open"
  /\ mux' = [mux EXCEPT ![m] = "lost"]
  /\ UNCHANGED <<cancelled, exec, client, mc, ptr, answer, online>>

\* The center reads the request and answers, and refuses a broker it believes to
\* be online on another tunnel.  The broker may not live to see the answer.
CenterAnswers(m) ==
  /\ client = "auth" /\ mc = m
  /\ mux[m] = "open"
  /\ answer[m] = "none"
  /\ \/ /\ online = {}
        /\ answer' = [answer EXCEPT ![m] = "accepted"]
        /\ online' = {m}
     \/ /\ online # {}
        /\ answer' = [answer EXCEPT ![m] = "refused"]
        /\ UNCHANGED online
  /\ UNCHANGED <<cancelled, exec, client, mc, ptr, mux>>

\* The center finds that a tunnel is gone: it does when the broker has closed
\* it, and it may when the transport is broken.
CenterNotices(m) ==
  /\ mux[m] = "closed" \/ (mux[m] = "lost" /\ m \in online)
  /\ mux' = [mux EXCEPT ![m] = IF @ = "closed" THEN "free" ELSE @]
  /\ online' = online \ {m}
  /\ UNCHANGED <<cancelled, exec, client, mc, ptr, answer>>

-----------------------------------------------------------------------------
ClientStep ==
  \/ \E m \in Muxes : Dial(m)
  \/ DialFails \/ AuthFails \/ Accepted \/ SleepEnds \/ SleepCancelled
  \/ Store \/ Reconnect

ProcessStep == Cancel \/ StopExec \/ Exit \/ Start

CenterStep(m) == Lose(m) \/ CenterAnswers(m) \/ CenterNotices(m)

Next == ClientStep \/ ProcessStep \/ \E m \in Muxes : CenterStep(m)

\* The client runs, the center answers and notices; the network does not let
\* every dial and every authentication fail, and does not break every tunnel
\* before it is stored; a broker that exited is started again.
Fairness ==
  /\ WF_vars(ClientStep)
  /\ SF_vars(\E m \in Muxes : Dial(m))
  /\ SF_vars(Accepted /\ mux[mc] = "open")
  /\ SF_vars(Store /\ mux[mc] = "open")
  /\ WF_vars(Start)
  /\ SF_vars(\E m \in Muxes : CenterAnswers(m))
  /\ \A m \in Muxes : WF_vars(mux[m] = "closed" /\ CenterNotices(m))

Spec == Init /\ [][Next]_vars

FairSpec == Spec /\ Fairness

-----------------------------------------------------------------------------
(***************************************************************************)
(* Properties.                                                             *)
(***************************************************************************)

\* The variables have their types, and the client holds a tunnel of its own
\* exactly between the dial and the store.
TypeOK ==
  /\ cancelled \in BOOLEAN
  /\ exec \in {"starting", "running", "stopped", "failed", "exited"}
  /\ client \in {"dial", "auth", "store", "serve", "wait", "ended"}
  /\ mc \in Muxes \cup {None}
  /\ mc # None <=> client \in {"auth", "store"}
  /\ ptr \in Muxes \cup {None}
  /\ mux \in [Muxes -> {"free", "open", "lost", "closed"}]
  /\ answer \in [Muxes -> {"none", "accepted", "refused"}]
  /\ online \subseteq Muxes

\* The broker has at most one tunnel to the center that it has not closed: every
\* error path of open closes what it dialed, and a new tunnel is dialed only
\* when the last one is closed, whoever else closes tunnels at the same time.
OneTunnel == \A m, n \in Live : m = n

\* muxInstance.load dereferences ptr: no dialer, cron task or handler of the
\* broker, all created after Open, and no Accept of serveHTTP finds it nil.
TunnelToUse == exec \in {"running", "stopped"} \/ client = "serve" => ptr # None

\* As long as the process is left running the tunnel is up again and again: no
\* sequence of lost tunnels, lost answers, refusals and restarts leaves the
\* center with a tunnel it waits for and the broker with none.
TunnelRestored ==
  <>[](exec \in {"starting", "running"} /\ ~cancelled)
    => []<>(client = "serve" /\ mux[ptr] = "open")
=============================================================================
