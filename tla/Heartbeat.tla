------------------------------ MODULE Heartbeat ------------------------------
(***************************************************************************)
(* protocol/heartbeat/heartbeat.go: one HeartbeatService, that is the      *)
(* goroutine run(), a caller of Close() and the service at the other end   *)
(* of the unbuffered report channel.  Outside are the libp2p ping service  *)
(* and the state of the link to the peer.                                  *)
(***************************************************************************)
CONSTANTS unknown, alive, dead   \* the values of type status

ASSUME StatusesDiffer == unknown # alive /\ alive # dead /\ unknown # dead

VARIABLES
  peerStatus,  \* h.peerStatus
  pc,          \* run(): "pinging" in ping.Ping, at the "select", "reporting"
               \* on h.reportCh, or "closed"
  resCh,       \* the channel run() selects on: the one of a "ping" or "fakeCh"
  result,      \* what waits in the channel of the latest ping
  closer,      \* Close(): "uncalled", "sending" on h.done, "waiting" for it
               \* to be closed, "returned"
  consumer,    \* does the service receive on reportCh now?
  link         \* the peer as pings find it

ping == <<resCh, result>>
vars == <<peerStatus, pc, resCh, result, closer, consumer, link>>

\* NewHeartbeat: run() starts with a ping.
Init == /\ peerStatus = unknown
        /\ pc = "pinging"
        /\ resCh = "ping"
        /\ result = "none"
        /\ closer = "uncalled"
        /\ consumer \in {"ready", "busy"}
        /\ link \in {"up", "down", "silent"}

-----------------------------------------------------------------------------
\* h.ping.Ping returns the channel of results.
PingStarted == /\ pc = "pinging"
               /\ pc' = "select"
               /\ UNCHANGED <<peerStatus, ping, closer, consumer, link>>

\* The peer answers or the stream breaks.  A silent peer does neither.
PingResult == /\ result = "none"
              /\ pc \in {"select", "reporting"}
              /\ \/ link = "up" /\ result' = "ok"
                 \/ link = "down" /\ result' = "error"
              /\ UNCHANGED <<peerStatus, pc, resCh, closer, consumer, link>>

\* Variants with a bug: the result is stored for the status, or each answer is
\* reported.
OnResultRaw(s) ==
  /\ pc = "select" /\ resCh = "ping" /\ result # "none"
  /\ peerStatus' = result /\ pc' = "reporting"
  /\ resCh' = "fakeCh"
  /\ UNCHANGED <<result, closer, consumer, link>>

OnResultAlways(s) ==
  /\ pc = "select" /\ resCh = "ping"
  /\ result = IF s = dead THEN "error" ELSE "ok"
  /\ peerStatus' = s /\ pc' = "reporting"
  /\ resCh' = "fakeCh"
  /\ UNCHANGED <<result, closer, consumer, link>>

\* case res := <-resCh.  Only a change of status is reported; the rest of
\* this ping's results are left unread.
OnResult(s) ==
  /\ pc = "select" /\ resCh = "ping"
  /\ result = IF s = dead THEN "error" ELSE "ok"
  /\ IF peerStatus # s
     THEN peerStatus' = s /\ pc' = "reporting"
     ELSE UNCHANGED <<peerStatus, pc>>
  /\ resCh' = "fakeCh"
  /\ UNCHANGED <<result, closer, consumer, link>>

\* h.reportCh <- PeerStatus{...} completes when the service receives.
Report == /\ pc = "reporting"
          /\ consumer = "ready"
          /\ pc' = "select"
          /\ consumer' \in {"ready", "busy"}
          /\ UNCHANGED <<peerStatus, ping, closer, link>>

\* Variant with a bug: run() keeps selecting on the channel it had.
OnTimerFake == /\ pc = "select"
               /\ result' = "none"
               /\ pc' = "pinging"
               /\ UNCHANGED <<peerStatus, resCh, closer, consumer, link>>

\* case <-timer.C: the old ping is cancelled, answered or not.
OnTimer == /\ pc = "select"
           /\ resCh' = "ping"
           /\ result' = "none"
           /\ pc' = "pinging"
           /\ UNCHANGED <<peerStatus, closer, consumer, link>>

\* Variant with a bug: run() ends without closing h.done.
OnDoneSilent == /\ pc = "select"
                /\ closer = "sending"
                /\ pc' = "closed"
                /\ UNCHANGED <<peerStatus, ping, closer, consumer, link>>

\* case <-h.done, the other end of the first statement of Close().
OnDone == /\ pc = "select"
          /\ closer = "sending"
          /\ pc' = "closed"
          /\ closer' = "waiting"
          /\ UNCHANGED <<peerStatus, ping, consumer, link>>

Close == /\ closer = "uncalled"
         /\ closer' = "sending"
         /\ UNCHANGED <<peerStatus, pc, ping, consumer, link>>

\* <-h.done: run() has closed the channel.
CloseReturns == /\ closer = "waiting"
                /\ closer' = "returned"
                /\ UNCHANGED <<peerStatus, pc, ping, consumer, link>>

\* The service gets back to its select, takes the report of another heartbeat,
\* calls Close() itself, or has stopped.
ConsumerChanges == /\ consumer' \in {"ready", "busy"} \ {consumer}
                   /\ UNCHANGED <<peerStatus, pc, ping, closer, link>>

LinkChanges == /\ link' \in {"up", "down", "silent"} \ {link}
               /\ UNCHANGED <<peerStatus, pc, ping, closer, consumer>>

run == \/ PingStarted
       \/ \E s \in {alive, dead} : OnResult(s)
       \/ Report
       \/ OnTimer
       \/ OnDone

Next == run \/ PingResult \/ Close \/ CloseReturns \/ ConsumerChanges \/ LinkChanges

\* Go's scheduler runs every goroutine that can run, and select chooses among
\* the ready cases at random, so no case is passed over for ever: strong
\* fairness for the cases of the select.  Senders on a channel are served in
\* the order they came: a service that goes on receiving takes this report too.
\* But no service has to receive again, nobody has to call Close, and the link
\* owes nothing.
Fairness == /\ WF_vars(PingStarted)
            /\ SF_vars(Report)
            /\ SF_vars(OnDone)
            /\ WF_vars(OnTimer)
            /\ \A s \in {alive, dead} : SF_vars(OnResult(s))
            /\ WF_vars(CloseReturns)

\* A peer that is up, or whose streams break, gives a ping a result before
\* the next tick every now and then.
FastEnough == SF_vars(PingResult)

Spec == Init /\ [][Next]_vars /\ Fairness /\ FastEnough

-----------------------------------------------------------------------------
TypeOK == /\ peerStatus \in {unknown, alive, dead}
          /\ pc \in {"pinging", "select", "reporting", "closed"}
          /\ resCh \in {"ping", "fakeCh"}
          /\ result \in {"none", "ok", "error"}
          /\ closer \in {"uncalled", "sending", "waiting", "returned"}
          /\ consumer \in {"ready", "busy"}
          /\ link \in {"up", "down", "silent"}

phase == CASE pc \in {"pinging", "select"} -> "idle"
           [] pc = "reporting" -> "sending"
           [] pc = "closed" -> "closed"

Reporter == INSTANCE StatusReporter WITH status <- peerStatus

\* A heartbeat never repeats a report, although every tick pings anew, and
\* never reports after it was closed.
ReportsChangesOnly == Reporter!Spec

\* run() holds a report that the service does not take now.
Unheard == pc = "reporting" /\ consumer = "busy"

\* Close() returns unless run() was caught in the middle of a report that
\* nobody ever takes: it waits for run() to come back to its select.  That
\* case is real, as monitorLoop, GatherService.Close() and JoinService.run()
\* close heartbeats whose reports they alone receive, or after the receiver
\* has stopped ("it waits us to send the status on channel that it does not
\* listen anymore", says heartbeat.go); nothing else keeps Close() waiting.
CloseTerminates ==
  closer = "sending" ~> (closer = "returned" \/ []Unheard)

\* A peer that stays down, or up, is in the end reported so and not otherwise
\* again, unless the heartbeat is being closed or a report is never taken: no
\* change is lost between ticks, and an answer read late is corrected by the
\* next ping.
Noticed(l, s) ==
  <>[](link = l) =>
    \/ <>[](closer # "uncalled" \/ (peerStatus = s /\ pc # "reporting"))
    \/ <>[]Unheard

LastingIsNoticed == Noticed("down", dead) /\ Noticed("up", alive)
=============================================================================
