-------------------------- MODULE HeartbeatProofs --------------------------
(***************************************************************************)
(* A heartbeat implements StatusReporter, for any three distinct statuses. *)
(***************************************************************************)
EXTENDS Heartbeat, TLAPS

\* No step of run(), of a caller or of the link breaks a type.
LEMMA HeartbeatTypeStep == TypeOK /\ [Next]_vars => TypeOK'
<1> SUFFICES ASSUME TypeOK, [Next]_vars PROVE TypeOK'
  OBVIOUS
<1> USE DEF TypeOK, ping
<1>1. ASSUME NEW s \in {alive, dead}, OnResult(s) PROVE TypeOK'
  BY <1>1 DEF OnResult
<1>2. CASE PingStarted \/ Report \/ OnTimer \/ OnDone
  BY <1>2 DEF PingStarted, Report, OnTimer, OnDone
<1>3. CASE PingResult \/ Close \/ CloseReturns \/ ConsumerChanges \/ LinkChanges
  BY <1>3 DEF PingResult, Close, CloseReturns, ConsumerChanges, LinkChanges
<1>4. CASE UNCHANGED vars
  BY <1>4 DEF vars
<1> QED
  BY <1>1, <1>2, <1>3, <1>4 DEF Next, run

\* Every variable of the heartbeat keeps its type.
THEOREM HeartbeatType == Spec => []TypeOK
<1>1. Init => TypeOK
  BY DEF Init, TypeOK
<1> QED
  BY <1>1, HeartbeatTypeStep, PTL DEF Spec

\* Where the reporter is, by where run() is.
LEMMA PhaseCases ==
  ASSUME TypeOK
  PROVE  /\ pc \in {"pinging", "select"} => phase = "idle"
         /\ pc = "reporting" => phase = "sending"
         /\ pc = "closed" => phase = "closed"
BY DEF phase

\* The same after a step.
LEMMA PhaseCasesPrimed ==
  ASSUME TypeOK'
  PROVE  /\ pc' \in {"pinging", "select"} => phase' = "idle"
         /\ pc' = "reporting" => phase' = "sending"
         /\ pc' = "closed" => phase' = "closed"
BY DEF phase

\* Each step of the heartbeat is a step of the reporter or invisible to it.
LEMMA ReporterStep == TypeOK /\ TypeOK' /\ [Next]_vars => [Reporter!Next]_(Reporter!vars)
<1> SUFFICES ASSUME TypeOK, TypeOK', [Next]_vars
             PROVE  [Reporter!Next]_(Reporter!vars)
  OBVIOUS
<1> USE DEF Reporter!vars, ping
<1>0. ASSUME UNCHANGED <<peerStatus, pc>> PROVE UNCHANGED Reporter!vars
  BY <1>0 DEF phase
<1>1. ASSUME NEW s \in {alive, dead}, OnResult(s) PROVE [Reporter!Next]_(Reporter!vars)
  <2>1. CASE peerStatus # s
    <3>1. phase = "idle" /\ phase' = "sending" /\ peerStatus' = s
      BY <1>1, <2>1, PhaseCases, PhaseCasesPrimed DEF OnResult
    <3> QED
      BY <2>1, <3>1 DEF Reporter!Next, Reporter!Offer
  <2>2. CASE peerStatus = s
    BY <1>0, <1>1, <2>2 DEF OnResult
  <2> QED
    BY <2>1, <2>2
<1>2. CASE Report
  <2>1. phase = "sending" /\ phase' = "idle" /\ peerStatus' = peerStatus
    BY <1>2, PhaseCases, PhaseCasesPrimed DEF Report
  <2> QED
    BY <2>1 DEF Reporter!Next, Reporter!Deliver
<1>3. CASE OnDone
  <2>1. phase = "idle" /\ phase' = "closed" /\ peerStatus' = peerStatus
    BY <1>3, PhaseCases, PhaseCasesPrimed DEF OnDone
  <2> QED
    BY <2>1 DEF Reporter!Next, Reporter!Close
<1>4. CASE PingStarted \/ OnTimer
  <2>1. phase = "idle" /\ phase' = "idle" /\ peerStatus' = peerStatus
    BY <1>4, PhaseCases, PhaseCasesPrimed DEF PingStarted, OnTimer
  <2> QED
    BY <2>1
<1>5. CASE PingResult \/ Close \/ CloseReturns \/ ConsumerChanges \/ LinkChanges
  BY <1>0, <1>5 DEF PingResult, Close, CloseReturns, ConsumerChanges, LinkChanges
<1>6. CASE UNCHANGED vars
  BY <1>0, <1>6 DEF vars
<1> QED
  BY <1>1, <1>2, <1>3, <1>4, <1>5, <1>6 DEF Next, run

\* A heartbeat never repeats a report and is silent once closed: it implements
\* what the services rely on.
THEOREM HeartbeatReports == Spec => ReportsChangesOnly
<1>1. Init => Reporter!Init
  BY DEF Init, Reporter!Init, phase
<1> QED
  BY <1>1, ReporterStep, HeartbeatType, PTL DEF Spec, ReportsChangesOnly, Reporter!Spec
=============================================================================
