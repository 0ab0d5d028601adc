------------------------- MODULE BrokerCron_proofs -------------------------
(***************************************************************************)
(* Proofs about BrokerCron, for any number of tunnels and lists of cards:  *)
(* the task does not disturb the client, so what BrokerClient_proofs shows *)
(* holds beside it, and it never remembers what it did not write.          *)
(***************************************************************************)
EXTENDS BrokerCron, BrokerClient_proofs

\* A step of the task is no step of the client.
LEMMA StepOfClient == [NextCron]_allVars => [Next]_vars
<1> SUFFICES ASSUME [NextCron]_allVars PROVE [Next]_vars
  OBVIOUS
<1>1. CASE ExitCron
  BY <1>1 DEF ExitCron, Next, ProcessStep
<1>2. CASE OtherStepCron
  BY <1>2 DEF OtherStepCron, Next, ProcessStep
<1>3. CASE CardsChange \/ Report \/ ReportFails \/ UNCHANGED allVars
  BY <1>3 DEF CardsChange, Report, ReportFails, allVars
<1> QED
  BY <1>1, <1>2, <1>3 DEF NextCron

\* The process with the cron task is a process of BrokerClient: OneTunnel and
\* TunnelToUse hold of it.
THEOREM CronImplementsClient == SpecCron => Spec
<1>1. InitCron => Init
  BY DEF InitCron
<1> QED BY <1>1, StepOfClient, PTL DEF SpecCron, Spec

-----------------------------------------------------------------------------
\* The task starts with nothing remembered.
LEMMA CronInit == InitCron => TypeOKCron /\ LastIsRecorded
<1> SUFFICES ASSUME InitCron PROVE TypeOKCron /\ LastIsRecorded
  OBVIOUS
<1>1. TypeOK
  BY TunnelInit DEF InitCron, TunnelInv
<1> QED
  BY <1>1 DEF InitCron, TypeOKCron, LastIsRecorded

\* Only the end of the process takes the tunnel away from those who use it.
LEMMA PointerStays == TunnelInv /\ OtherStepCron /\ ptr # None => ptr' # None
  BY DEF TunnelInv, TypeOK, OtherStepCron, ClientStep, CenterStep, Dial, DialFails,
    AuthFails, Accepted, SleepEnds, SleepCancelled, Store, Reconnect, Cancel,
    StopExec, Start, Lose, CenterAnswers, CenterNotices

\* A step keeps the types, given what is known of the client.
LEMMA CronTypes == TypeOKCron /\ [NextCron]_allVars /\ TunnelInv /\ TypeOK' => TypeOKCron'
<1> SUFFICES ASSUME TypeOKCron, [NextCron]_allVars, TunnelInv, TypeOK' PROVE TypeOKCron'
  OBVIOUS
<1> USE DEF TypeOKCron
<1>1. CASE ExitCron
  BY <1>1 DEF ExitCron
<1>2. CASE OtherStepCron
  BY <1>2, PointerStays DEF OtherStepCron, cronVars
<1>3. CASE CardsChange
  BY <1>3 DEF CardsChange, vars
<1>4. CASE Report
  BY <1>4 DEF Report, CronRuns, TunnelInv, vars
<1>5. CASE ReportFails
  BY <1>5 DEF ReportFails, vars
<1>6. CASE UNCHANGED allVars
  BY <1>6 DEF allVars, vars
<1> QED
  BY <1>1, <1>2, <1>3, <1>4, <1>5, <1>6 DEF NextCron

\* Only a report that succeeded changes what is remembered, and only one that
\* failed replaces it in the record.
LEMMA RecordKept == LastIsRecorded /\ [NextCron]_allVars => LastIsRecorded'
<1> SUFFICES ASSUME LastIsRecorded, [NextCron]_allVars PROVE LastIsRecorded'
  OBVIOUS
<1> USE DEF LastIsRecorded
<1>1. CASE ExitCron
  BY <1>1 DEF ExitCron
<1>2. CASE OtherStepCron \/ CardsChange
  BY <1>2 DEF OtherStepCron, CardsChange, cronVars
<1>3. CASE Report
  BY <1>3 DEF Report
<1>4. CASE ReportFails
  BY <1>4 DEF ReportFails
<1>5. CASE UNCHANGED allVars
  BY <1>5 DEF allVars
<1> QED
  BY <1>1, <1>2, <1>3, <1>4, <1>5 DEF NextCron

-----------------------------------------------------------------------------
\* The variables keep their types, and nothing is remembered by a process that
\* never had a tunnel.
THEOREM TypeCorrectCron == SpecCron => []TypeOKCron
<1>1. InitCron => TypeOKCron /\ TunnelInv
  BY CronInit, TunnelInit DEF InitCron
<1>2. TypeOKCron /\ TunnelInv /\ [NextCron]_allVars => TypeOKCron' /\ TunnelInv'
  <2> SUFFICES ASSUME TypeOKCron, TunnelInv, [NextCron]_allVars
               PROVE  TypeOKCron' /\ TunnelInv'
    OBVIOUS
  <2>1. TunnelInv'
    BY StepOfClient, TunnelNext
  <2>2. TypeOK'
    BY <2>1 DEF TunnelInv
  <2> QED BY <2>1, <2>2, CronTypes
<1> QED BY <1>1, <1>2, PTL DEF SpecCron

\* A list the task takes for reported is in the record of the broker, unless an
\* update that failed has been applied since.
THEOREM NeverRememberedUnwritten == SpecCron => []LastIsRecorded
<1>1. InitCron => LastIsRecorded
  BY CronInit
<1> QED BY <1>1, RecordKept, PTL DEF SpecCron

\* Two tunnels are never open beside the cron task either.
THEOREM NeverTwoTunnelsCron == SpecCron => [](OneTunnel /\ TunnelToUse)
  BY CronImplementsClient, NeverTwoTunnels, PointerIsSet, PTL
=============================================================================
