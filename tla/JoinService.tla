---------------------------- MODULE JoinService ----------------------------
(***************************************************************************)
(* protocol/gather/join_service.go: the services of one node that seek a   *)
(* party, one for each facilitator it joined.  Each has its loop run(), a  *)
(* goroutine for each connection request, and a heartbeat for each seeker  *)
(* it connected to; they share the map js.conns without a lock, and all    *)
(* services share the game instance.                                       *)
(*                                                                         *)
(* The facilitators are environment (their requests are those of           *)
(* GatherService), and so are the heartbeats, which keep to what           *)
(* StatusReporter promises.  Taking the game and calling Close() is up to  *)
(* the node: module Node completes those two steps.                        *)
(***************************************************************************)
EXTENDS Integers, FiniteSets

CONSTANTS Facilitator, Seeker,
          SeekersOf,     \* the seekers that a facilitator asks to connect to
          unknown, alive, dead,
          MaxRequests,   \* bound: requests for one seeker that are at work, or
                         \* have a heartbeat that pings
          MaxFaults      \* bound: dead heartbeats, failed dials and connects,
                         \* and lost streams, all counted together

ASSUME SeekersAssumption == SeekersOf \in [Facilitator -> SUBSET Seeker]
ASSUME KnownAssumption == unknown # alive /\ alive # dead /\ unknown # dead
ASSUME BoundAssumption == MaxRequests \in Nat /\ MaxFaults \in Nat

\* A connection request: for whom, and a number that tells it from others.
Attempt == Seeker \X (1..MaxRequests)

VARIABLES
  run,      \* run(): where it is, whose heartbeat it works on, and where it
            \* goes after closeHeartbeats
  range,    \* the seekers that the range of closeHeartbeats still has to visit
  reading,  \* does run() wait for the scanner?
  stream,   \* the stream to the facilitator
  conns,    \* js.conns: whose heartbeat it has for a seeker
  dial,     \* the goroutine of a connection request
  hb,       \* its heartbeat, one that js.conns has lost included
  overlaps, \* the seekers that two requests have dialled at once
  told,     \* what the facilitator was last told of a seeker
  game,     \* the peers the services opened a stream of the game instance to
  faults,   \* faults so far, see MaxFaults
  crash     \* why the process died, or "none"

books == <<conns, dial, hb, overlaps>>
ends == <<reading, stream, told>>
joinVars == <<run, range, books, ends, game, faults, crash>>

Nobody == {}

At(pc) == [pc |-> pc, on |-> Nobody, status |-> unknown, next |-> "select"]

\* The seeker that run() works on, and those that js.conns has an entry for
Peers(f) == {a[1] : a \in run[f].on}
Keys(f) == {a[1] : a \in conns[f]}

InitServices ==
  /\ run = [f \in Facilitator |-> At("absent")]
  /\ range = [f \in Facilitator |-> {}]
  /\ reading = [f \in Facilitator |-> FALSE]
  /\ stream = [f \in Facilitator |-> "none"]
  /\ conns = [f \in Facilitator |-> {}]
  /\ dial = [f \in Facilitator |-> [a \in Attempt |-> "idle"]]
  /\ overlaps = [f \in Facilitator |-> {}]
  /\ hb = [f \in Facilitator |-> [a \in Attempt |-> [status |-> unknown, phase |-> "absent"]]]
  /\ told = [f \in Facilitator |-> [p \in Seeker |-> unknown]]
  /\ game = {}
  /\ faults = 0
  /\ crash = "none"

Fault == faults < MaxFaults /\ faults' = faults + 1

Goes(f, to) == run' = [run EXCEPT ![f] = to]

\* NewJoinService
Start(f) == /\ Goes(f, At("select"))
            /\ reading' = [reading EXCEPT ![f] = TRUE]
            /\ stream' = [stream EXCEPT ![f] = "open"]
            /\ UNCHANGED <<range, books, told, game, faults, crash>>

-----------------------------------------------------------------------------
\* status := <-js.connHealthCh

\* A dead seeker leaves the game at once.
Receive(f, a) ==
  LET is == hb[f][a].status
  IN /\ run[f].pc = "select"
     /\ hb[f][a].phase = "sending"
     /\ hb' = [hb EXCEPT ![f][a].phase = "idle"]
     /\ Goes(f, [At(IF is = alive THEN "connect" ELSE "tell")
                   EXCEPT !.on = {a}, !.status = is])
     /\ game' = IF is = dead THEN game \ {a[1]} ELSE game
     /\ UNCHANGED <<range, conns, dial, overlaps, ends, faults, crash>>

\* Variant with a bug: the facilitator is told in any case.
GameConnectAnyway(f) ==
  /\ run[f].pc = "connect"
  /\ Goes(f, [run[f] EXCEPT !.pc = "tell"])
  /\ \/ game' = game \cup Peers(f) /\ UNCHANGED faults
     \/ Fault /\ UNCHANGED game
  /\ UNCHANGED <<range, books, ends, crash>>

\* js.game.Connect.  A failure is logged, and nobody told.
GameConnect(f) ==
  /\ run[f].pc = "connect"
  /\ \/ /\ game' = game \cup Peers(f)
        /\ Goes(f, [run[f] EXCEPT !.pc = "tell"])
        /\ UNCHANGED faults
     \/ /\ Fault
        /\ Goes(f, At("select"))
        /\ UNCHANGED game
  /\ UNCHANGED <<range, books, ends, crash>>

\* sendConnected and sendDisconnected; an error is logged.
Tell(f) ==
  /\ run[f].pc = "tell"
  /\ told' = IF stream[f] # "open" THEN told
             ELSE [told EXCEPT ![f] = [p \in Seeker |->
                     IF p \in Peers(f) THEN run[f].status ELSE @[p]]]
  /\ Goes(f, At("select"))
  /\ UNCHANGED <<range, books, reading, stream, game, faults, crash>>

-----------------------------------------------------------------------------
\* ok := <-readCh

\* A number that no request at work has, and no heartbeat that pings
Free(f, a) == dial[f][a] = "idle" /\ hb[f][a].phase \in {"absent", "closed"}

\* ConnectionRequest: a goroutine, and the next scan
Request(f, a) ==
  /\ run[f].pc = "select" /\ reading[f] /\ stream[f] = "open"
  /\ a[1] \in SeekersOf[f]
  /\ Free(f, a) /\ \A k \in 1..MaxRequests : Free(f, <<a[1], k>>) => a[2] <= k
  /\ dial' = [dial EXCEPT ![f][a] = "check"]
  /\ UNCHANGED <<run, range, conns, hb, overlaps, ends, game, faults, crash>>

\* The requests for a seeker that are past the check
Dialling(f, p) == {a \in Attempt : a[1] = p /\ dial[f][a] \in {"dial", "store"}}

\* js.connect, which does not look at requests that have not stored yet
Check(f, a) ==
  LET exists == a[1] \in Keys(f)
      others == Dialling(f, a[1]) # {}
  IN /\ dial[f][a] = "check"
     /\ dial' = [dial EXCEPT ![f][a] = IF exists THEN "idle" ELSE "dial"]
     /\ overlaps' = [overlaps EXCEPT ![f] =
                       IF ~exists /\ others THEN @ \cup {a[1]} ELSE @]
     /\ UNCHANGED <<run, range, conns, hb, ends, game, faults, crash>>

\* js.h.Connect, and NewHeartbeat, which starts to ping
Dial(f, a) ==
  /\ dial[f][a] = "dial"
  /\ \/ /\ dial' = [dial EXCEPT ![f][a] = "store"]
        /\ hb' = [hb EXCEPT ![f][a] = [status |-> unknown, phase |-> "idle"]]
        /\ UNCHANGED faults
     \/ /\ Fault
        /\ dial' = [dial EXCEPT ![f][a] = "idle"]
        /\ UNCHANGED hb
  /\ UNCHANGED <<run, range, conns, overlaps, ends, game, crash>>

\* js.conns[pi.ID] = hb
Store(f, a) ==
  /\ dial[f][a] = "store"
  /\ dial' = [dial EXCEPT ![f][a] = "idle"]
  /\ conns' = [conns EXCEPT ![f] = {b \in @ : b[1] # a[1]} \cup {a}]
  /\ UNCHANGED <<run, range, hb, overlaps, ends, game, faults, crash>>

\* The start of closeHeartbeats
Closes(f, next) ==
  /\ Goes(f, [At("closing") EXCEPT !.next = next])
  /\ range' = [range EXCEPT ![f] = Keys(f)]
  /\ reading' = [reading EXCEPT ![f] = FALSE]
  /\ stream' = [stream EXCEPT ![f] = "closed"]

\* GatheringFinished, which lists this node or does not
Finished(f, chosen) ==
  /\ run[f].pc = "select" /\ reading[f] /\ stream[f] = "open"
  /\ Closes(f, IF chosen THEN "offer" ELSE "select")
  /\ UNCHANGED <<books, told, game, faults, crash>>

\* The stream has ended.  The heartbeats stay.
Ended(f) ==
  /\ run[f].pc = "select" /\ reading[f] /\ stream[f] = "lost"
  /\ reading' = [reading EXCEPT ![f] = FALSE]
  /\ stream' = [stream EXCEPT ![f] = "closed"]
  /\ UNCHANGED <<run, range, books, told, game, faults, crash>>

-----------------------------------------------------------------------------
\* for id, hb := range js.conns.  A heartbeat stored while the range runs is
\* visited, or not.
Visit(f, a) ==
  /\ run[f].pc = "closing" /\ run[f].on = Nobody
  /\ a \in conns[f]
  /\ Goes(f, [run[f] EXCEPT !.on = {a}])
  /\ UNCHANGED <<range, books, ends, game, faults, crash>>

Deleted(f, p) ==
  /\ Goes(f, [run[f] EXCEPT !.on = Nobody])
  /\ conns' = [conns EXCEPT ![f] = {b \in @ : b[1] # p}]
  /\ range' = [range EXCEPT ![f] = @ \ {p}]
  /\ UNCHANGED <<dial, overlaps, ends, game, faults, crash>>

\* Variant with a bug: the heartbeat is only deleted.
ForgetOne(f, a) ==
  /\ run[f].pc = "closing" /\ run[f].on = {a}
  /\ Deleted(f, a[1])
  /\ UNCHANGED hb

\* Variant with a bug: the heartbeat that was visited first stays.
CloseOneAgain(f, a) ==
  /\ run[f].pc = "closing" /\ run[f].on = {a}
  /\ hb[f][a].phase = "idle"
  /\ hb' = [hb EXCEPT ![f][a].phase = "closed"]
  /\ conns' = [conns EXCEPT ![f] = {b \in @ : b[1] # a[1]}]
  /\ Goes(f, [run[f] EXCEPT !.on = Nobody])
  /\ UNCHANGED <<range, dial, overlaps, ends, game, faults, crash>>

\* hb.Close() waits for the heartbeat to be at its select; then the seeker's
\* entry goes, even if another heartbeat was stored there in the meantime.
CloseOne(f, a) ==
  /\ run[f].pc = "closing" /\ run[f].on = {a}
  /\ hb[f][a].phase = "idle"
  /\ hb' = [hb EXCEPT ![f][a].phase = "closed"]
  /\ Deleted(f, a[1])


AllClosed(f) ==
  /\ run[f].pc = "closing" /\ run[f].on = Nobody
  /\ range[f] = {}
  /\ Goes(f, At(run[f].next))
  /\ UNCHANGED <<range, books, ends, game, faults, crash>>

\* <-js.done: Close() was called.
CloseTaken(f) ==
  /\ run[f].pc = "select"
  /\ Closes(f, "closed")
  /\ UNCHANGED <<books, told, game, faults, crash>>

\* js.gameCh <- ..., taken by the node
GameTaken(f) ==
  /\ run[f].pc = "offer"
  /\ Goes(f, At("select"))
  /\ UNCHANGED <<range, books, ends, game, faults, crash>>

-----------------------------------------------------------------------------
\* A heartbeat offers a report (see StatusReporter).
Offer(f, a, s) ==
  /\ hb[f][a].phase = "idle"
  /\ hb[f][a].status # s
  /\ hb' = [hb EXCEPT ![f][a] = [status |-> s, phase |-> "sending"]]
  /\ IF s = dead THEN Fault ELSE UNCHANGED faults
  /\ UNCHANGED <<run, range, conns, dial, overlaps, ends, game, crash>>

\* The stream to the facilitator ends.
Lose(f) ==
  /\ stream[f] = "open"
  /\ Fault
  /\ stream' = [stream EXCEPT ![f] = "lost"]
  /\ UNCHANGED <<run, range, books, reading, told, game, crash>>

\* Goroutines that write js.conns while another one uses it: the Go runtime
\* may notice, and kill the process.
MapRace(f) ==
  LET stores == {a \in Attempt : dial[f][a] = "store"}
      checks == {a \in Attempt : dial[f][a] = "check"}
      writers == Cardinality(stores) + (IF run[f].pc = "closing" THEN 1 ELSE 0)
  IN /\ writers > 0 /\ writers + Cardinality(checks) > 1
     /\ crash' = "concurrent map access"
     /\ UNCHANGED <<run, range, books, ends, game, faults>>

serve(f) == \/ \E a \in Attempt : Receive(f, a) \/ Visit(f, a) \/ CloseOne(f, a)
            \/ GameConnect(f) \/ Tell(f) \/ Ended(f) \/ AllClosed(f)

connect(f, a) == Check(f, a) \/ Dial(f, a) \/ Store(f, a)

Facilitates(f) == \/ \E a \in Attempt : Request(f, a)
                  \/ \E chosen \in BOOLEAN : Finished(f, chosen)
                  \/ Lose(f)

NextServices ==
  \E f \in Facilitator :
    \/ serve(f) \/ Facilitates(f) \/ MapRace(f)
    \/ \E a \in Attempt : connect(f, a) \/ \E s \in {alive, dead} : Offer(f, a, s)

-----------------------------------------------------------------------------
\* Why the process may die.  The second of these is the node's doing.
Causes == {"none", "concurrent map access", "send on the closed channel monitorDone"}

ServicesOK ==
  /\ run \in [Facilitator ->
                [pc : {"absent", "select", "connect", "tell", "closing", "offer", "closed"},
                 on : {Nobody} \cup {{a} : a \in Attempt},
                 status : {unknown, alive, dead},
                 next : {"select", "offer", "closed"}]]
  /\ reading \in [Facilitator -> BOOLEAN]
  /\ stream \in [Facilitator -> {"none", "open", "lost", "closed"}]
  /\ conns \in [Facilitator -> SUBSET Attempt]
  /\ \A f \in Facilitator : \A a, b \in conns[f] : a[1] = b[1] => a = b
  /\ range \in [Facilitator -> SUBSET Seeker]
  /\ \A f \in Facilitator : \A p \in range[f] : \E a \in conns[f] : a[1] = p
  /\ dial \in [Facilitator -> [Attempt -> {"idle", "check", "dial", "store"}]]
  /\ overlaps \in [Facilitator -> SUBSET Seeker]
  /\ hb \in [Facilitator -> [Attempt ->
               [status : {unknown, alive, dead},
                phase : {"absent", "idle", "sending", "closed"}]]]
  /\ told \in [Facilitator -> [Seeker -> {unknown, alive, dead}]]
  /\ game \subseteq Seeker
  /\ faults \in 0..MaxFaults
  /\ crash \in Causes

\* The seekers that a facilitator counts as connected to this one, because it
\* was told so over a stream that stands, are players of the game; all but the
\* one that run() is at work on.
ClaimsHold ==
  \A f \in Facilitator : \A p \in Seeker :
    told[f][p] = alive /\ stream[f] = "open" /\ p \notin Peers(f) => p \in game

\* However requests, deaths and the two calls of closeHeartbeats fall together,
\* a heartbeat that pings is known to js.conns or about to be; but for seekers
\* that two requests dialled at once, of which the one stored first is lost.
HeartbeatsEnd ==
  \A f \in Facilitator : \A a \in Attempt :
    hb[f][a].phase \in {"idle", "sending"} =>
      a \in conns[f] \/ dial[f][a] = "store" \/ a[1] \in overlaps[f]
=============================================================================
