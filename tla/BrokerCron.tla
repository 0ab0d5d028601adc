----------------------------- MODULE BrokerCron -----------------------------
(***************************************************************************)
(* The cron task that reports the network cards of the broker              *)
(* (crontab/network.go) in the process whose life BrokerClient models.     *)
(*                                                                         *)
(* The task remembers the cards it has reported and writes them only when  *)
(* they have changed; what it remembers is gone with the process, what it  *)
(* has written stays in the record of the broker, and when a write fails   *)
(* nobody knows whether it was applied.                                    *)
(***************************************************************************)
EXTENDS BrokerClient

CONSTANT Cards  \* the lists of network cards there can be; None: no card

ASSUME CardsAssumption == None \notin Cards

VARIABLES
  cards,   \* network.Interfaces()
  last,    \* networkCard.last
  record,  \* networks in the record of the broker
  doubt    \* a write of this process that failed was applied after the last
           \* that succeeded

cronVars == <<cards, last, record, doubt>>

allVars == <<vars, cards, last, record, doubt>>

InitCron ==
  /\ Init
  /\ cards \in Cards \cup {None}
  /\ last = None
  /\ record = None
  /\ doubt = FALSE

-----------------------------------------------------------------------------
\* The task, and its memory, end with the process.
ExitCron ==
  /\ Exit
  /\ last' = None
  /\ doubt' = FALSE
  /\ UNCHANGED <<cards, record>>

OtherStepCron ==
  /\ \/ ClientStep \/ Cancel \/ StopExec \/ Start
     \/ \E m \in Muxes : CenterStep(m)
  /\ UNCHANGED cronVars

\* A card comes or goes, an address changes.
CardsChange ==
  /\ cards' \in (Cards \cup {None}) \ {cards}
  /\ UNCHANGED <<vars, last, record, doubt>>

\* cards.Equal(n.last) is false; no card equals no list.
ToReport == cards # last

\* Mutant: the tasks are added before Open.
CronRunsEarly == exec \in {"starting", "running", "stopped"}

\* Tasks are added when Open has returned, and crond is stopped when Exec does.
CronRuns == exec \in {"running", "stopped"}

\* UpdateByID succeeds.
Report ==
  /\ CronRuns /\ ToReport
  /\ record' = cards
  /\ last' = cards
  /\ doubt' = FALSE
  /\ UNCHANGED <<vars, cards>>

\* Mutant: what is remembered does not depend on the error.
ReportFailsRemembered ==
  /\ CronRuns /\ ToReport
  /\ \/ record' = cards /\ doubt' = TRUE
     \/ UNCHANGED <<record, doubt>>
  /\ last' = cards
  /\ UNCHANGED <<vars, cards>>

\* UpdateByID returns an error and was applied all the same: last stays as it
\* was.  (When it was not applied nothing changes.)
ReportFails ==
  /\ CronRuns /\ ToReport
  /\ record' = cards
  /\ doubt' = TRUE
  /\ UNCHANGED <<vars, cards, last>>

NextCron == ExitCron \/ OtherStepCron \/ CardsChange \/ Report \/ ReportFails

SpecCron == InitCron /\ [][NextCron]_allVars

\* What BrokerClient assumes, and a database that does not fail every report the
\* task makes, hour after hour.
FairCron == Fairness /\ SF_allVars(Report)

FairSpecCron == SpecCron /\ FairCron

-----------------------------------------------------------------------------
(***************************************************************************)
(* Properties.                                                             *)
(***************************************************************************)

\* The variables have their types; what is remembered was reported by a process
\* that has had a tunnel to the center (tasks are added after Open).
TypeOKCron ==
  /\ TypeOK
  /\ cards \in Cards \cup {None}
  /\ last \in Cards \cup {None}
  /\ record \in Cards \cup {None}
  /\ doubt \in BOOLEAN
  /\ last # None => ptr # None

\* What the task remembers is in the record, unless a write that failed has
\* replaced it: a list is never taken for reported because it was tried
\* (network.go: last is set after the update, and not on its error).
LastIsRecorded == last # None => record = last \/ doubt

\* Cards that stay as they are while the broker runs are in its record in the
\* end, through failing updates and restarts, unless they are the ones the task
\* remembers and an update applied since has failed.
RecordSettles ==
  \A list \in Cards :
    <>[](exec = "running" /\ cards = list)
      => <>[](record = list \/ (last = list /\ doubt))
=============================================================================
