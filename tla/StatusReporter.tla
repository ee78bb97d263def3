--------------------------- MODULE StatusReporter ---------------------------
(***************************************************************************)
(* What a heartbeat promises to the service that created it: a stream of   *)
(* reports about one peer, each different from the one before, the first   *)
(* of either kind, and silence once the heartbeat is closed.               *)
(***************************************************************************)
CONSTANTS unknown, alive, dead

VARIABLES status,   \* what the service is being, or was last, told
          phase     \* "idle", "sending" a report, or "closed"

vars == <<status, phase>>

Init == status = unknown /\ phase = "idle"

\* A change of status is offered on the report channel...
Offer(s) == /\ phase = "idle"
            /\ s # status
            /\ status' = s
            /\ phase' = "sending"

\* ... and taken from it.
Deliver == /\ phase = "sending"
           /\ phase' = "idle"
           /\ UNCHANGED status

\* A heartbeat closes between two reports, never with one in hand.
Close == /\ phase = "idle"
         /\ phase' = "closed"
         /\ UNCHANGED status

Next == \/ \E s \in {alive, dead} : Offer(s)
        \/ Deliver
        \/ Close

Spec == Init /\ [][Next]_vars
=============================================================================
