-------------------------------- MODULE Node --------------------------------
(***************************************************************************)
(* node.go, and the two goroutines of the interface that use a node        *)
(* (engine/console/gui.go): readLoop, which passes on gather points and    *)
(* established games and closes every service when a game comes; the       *)
(* handlers that join and create gather points; and eventLoop, which takes *)
(* what readLoop passes on until a game starts, and then plays.            *)
(*                                                                         *)
(* The join services are those of JoinService.  Of the node's own gather   *)
(* service there is what GatherService shows: it may offer a game, more    *)
(* than once, and Close() returns unless it is offering one.  Node.Close   *)
(* is left out: nothing is ever sent to the channel that leads to it.      *)
(***************************************************************************)
EXTENDS JoinService

VARIABLES
  node,     \* readLoop: where it is, and the services it still has to close
  joined,   \* joinedGatherPoints
  late,     \* services stored after a game was taken
  gather,   \* gatherService
  user,     \* the goroutine of tview: the gather point it joins, and where
  playing   \* has eventLoop taken a game?

vars == <<joinVars, node, joined, late, gather, user, playing>>

NoOne == [pc |-> "idle", at |-> {}]

Init == /\ InitServices
        /\ node = [pc |-> "select", left |-> {}]
        /\ joined = {}
        /\ late = {}
        /\ gather = "none"
        /\ user = NoOne
        /\ playing = FALSE

-----------------------------------------------------------------------------
\* What the user selects.  The interface is suspended while a game is played.

\* JoinGatherPoint.  Bound: a gather point is joined once.
Join(f) == /\ user.pc = "idle" /\ ~playing
           /\ f \notin joined /\ run[f].pc = "absent"
           /\ user' = [pc |-> "create", at |-> {f}]
           /\ UNCHANGED <<joinVars, node, joined, late, gather, playing>>

\* h.Connect and NewJoinService, or an error of either
Create == /\ user.pc = "create"
          /\ \/ /\ \E f \in user.at : Start(f)
                /\ user' = [user EXCEPT !.pc = "store"]
             \/ /\ Fault
                /\ user' = NoOne
                /\ UNCHANGED <<run, range, books, ends, game, crash>>
          /\ UNCHANGED <<node, joined, late, gather, playing>>

\* A game was taken: the services joined then are, or will be, closed.
Taken == playing \/ node.pc # "select"

\* The map is written; a range over it that is under way visits the service,
\* or does not.
StoreJoin == /\ user.pc = "store"
             /\ user' = NoOne
             /\ joined' = joined \cup user.at
             /\ late' = IF Taken THEN late \cup user.at ELSE late
             /\ node' \in (IF node.pc \in {"closeJoins", "waitJoin"}
                           THEN {node, [node EXCEPT !.left = @ \cup user.at]}
                           ELSE {node})
             /\ UNCHANGED <<joinVars, gather, playing>>

\* CreateGatherPoint; the button is gone afterwards.
CreateGather == /\ user.pc = "idle" /\ ~playing
                /\ gather = "none"
                /\ gather' = "running"
                /\ UNCHANGED <<joinVars, node, joined, late, user, playing>>

-----------------------------------------------------------------------------
\* readLoop

\* While a game is played nobody takes the messages of other nodes: when
\* GatherPoints is full readLoop waits for ever.  Until then eventLoop makes
\* room, and a message passes without a trace.
Full == /\ node.pc = "select" /\ playing
        /\ node' = [node EXCEPT !.pc = "full"]
        /\ UNCHANGED <<joinVars, joined, late, gather, user, playing>>

\* info := <-n.gameProxyCh
TakeGame(f) == /\ node.pc = "select"
               /\ GameTaken(f)
               /\ node' = [node EXCEPT !.pc = "closeGather"]
               /\ UNCHANGED <<joined, late, gather, user, playing>>

TakeOwnGame == /\ node.pc = "select"
               /\ gather = "offering"
               /\ gather' = "running"
               /\ node' = [node EXCEPT !.pc = "closeGather"]
               /\ UNCHANGED <<joinVars, joined, late, user, playing>>

\* gatherService.Close(), if there is one.  It is never set to nil: the second
\* time its done channel is closed.
CloseGather ==
  /\ node.pc = "closeGather"
  /\ gather # "offering"
  /\ node' = [pc |-> "closeJoins", left |-> joined]
  /\ IF gather = "closed"
     THEN /\ crash' = "send on the closed channel monitorDone"
          /\ UNCHANGED <<run, range, books, ends, game, faults, gather>>
     ELSE /\ gather' = IF gather = "running" THEN "closed" ELSE gather
          /\ UNCHANGED joinVars
  /\ UNCHANGED <<joined, late, user, playing>>

\* s.Close(): the service takes the request ...
CloseJoin(f) == /\ node.pc = "closeJoins"
                /\ f \in node.left
                /\ CloseTaken(f)
                /\ node' = [node EXCEPT !.pc = "waitJoin", !.left = @ \ {f}]
                /\ UNCHANGED <<joined, late, gather, user, playing>>

\* ... and closes the channel when it is done.
JoinClosed == /\ node.pc = "waitJoin"
              /\ \A f \in Facilitator : run[f].next # "closed"
              /\ node' = [node EXCEPT !.pc = "closeJoins"]
              /\ UNCHANGED <<joinVars, joined, late, gather, user, playing>>

\* Variant with a bug: the map is reset without the services being closed.
KeepMap == /\ node.pc = "closeJoins"
           /\ node' = [pc |-> "deliver", left |-> {}]
           /\ UNCHANGED <<joinVars, joined, late, gather, user, playing>>

ResetMap == /\ node.pc = "closeJoins"
            /\ node.left = {}
            /\ joined' = {}
            /\ node' = [node EXCEPT !.pc = "deliver"]
            /\ UNCHANGED <<joinVars, late, gather, user, playing>>

\* n.EstablishedGames <- info: eventLoop calls Run and RunGame and does not
\* come back.
Deliver == /\ node.pc = "deliver"
           /\ ~playing
           /\ playing' = TRUE
           /\ node' = [node EXCEPT !.pc = "select"]
           /\ UNCHANGED <<joinVars, joined, late, gather, user>>

-----------------------------------------------------------------------------
\* The node's own gather service finds a party.
OwnGame == /\ gather = "running"
           /\ gather' = "offering"
           /\ UNCHANGED <<joinVars, node, joined, late, user, playing>>

\* joinedGatherPoints is written while readLoop ranges over it.
JoinedRace == /\ user.pc = "store" /\ node.pc \in {"closeJoins", "waitJoin"}
              /\ crash' = "concurrent map access"
              /\ UNCHANGED <<run, range, books, ends, game, faults, node, joined,
                             late, gather, user, playing>>

Services == /\ NextServices
            /\ UNCHANGED <<node, joined, late, gather, user, playing>>

readLoop == \/ TakeOwnGame \/ CloseGather \/ JoinClosed \/ ResetMap \/ Deliver
            \/ \E f \in Facilitator : TakeGame(f) \/ CloseJoin(f)

Next == /\ crash = "none"
        /\ \/ Services
           \/ readLoop \/ Full
           \/ \E f \in Facilitator : Join(f)
           \/ Create \/ StoreJoin \/ CreateGather \/ OwnGame \/ JoinedRace

\* Go runs every goroutine that can run.  What can keep it from a channel is
\* bounded: no heartbeat reports more often than it has faults to report.
Fairness ==
  /\ \A f \in Facilitator :
       WF_vars(/\ crash = "none" /\ serve(f)
               /\ UNCHANGED <<node, joined, late, gather, user, playing>>)
  /\ WF_vars(crash = "none" /\ readLoop)

Spec == Init /\ [][Next]_vars /\ Fairness

-----------------------------------------------------------------------------
TypeOK ==
  /\ ServicesOK
  /\ node \in [pc : {"select", "full", "closeGather", "closeJoins", "waitJoin", "deliver"},
               left : SUBSET Facilitator]
  /\ joined \subseteq Facilitator /\ late \subseteq Facilitator
  /\ gather \in {"none", "running", "offering", "closed"}
  /\ user \in [pc : {"idle", "create", "store"}, at : {{}} \cup {{f} : f \in Facilitator}]
  /\ playing \in BOOLEAN

\* The services whose JoinGatherPoint had not returned when a game was taken
Overtaken == late \cup user.at

\* Once a game is played no service seeks another one, and the gather service
\* is not closed a second time, which kills the process; but for what services
\* do whose JoinGatherPoint had not returned when readLoop took the game.
NoneLeft ==
  /\ playing => \A f \in Facilitator \ Overtaken : run[f].pc \in {"absent", "closed"}
  /\ crash = "send on the closed channel monitorDone" => Overtaken # {}

\* A heartbeat whose report nobody takes, because its service waits for it to
\* close.
Jammed(f) == /\ run[f].pc = "closing"
             /\ \E a \in run[f].on : hb[f][a].phase = "sending"

\* readLoop closes a service that offers a game to readLoop.
Crossed == \/ node.pc = "closeGather" /\ gather = "offering"
           \/ node.pc = "closeJoins" /\ \E f \in node.left : run[f].pc = "offer"


\* The first of these two: closeHeartbeats returns, so a service that closes its
\* heartbeats goes on to what comes next.  It does not, if one of them has a
\* report in hand: the service is who receives it.
HeartbeatsClosed ==
  \A f \in Facilitator :
    run[f].pc = "closing" ~> (run[f].pc # "closing" \/ crash # "none")

\* The second: until a game is played readLoop takes every game it is offered,
\* unless the first one stops it.  It does not, if it is closing the very service
\* that offers one.
OffersTaken ==
  \A f \in Facilitator :
    run[f].pc = "offer" ~>
      (run[f].pc # "offer" \/ playing \/ crash # "none" \/ \E g \in Facilitator : Jammed(g))

\* A node that plays has quit the other parties, as README.md (Q4) has it: no
\* service is left, whenever its JoinGatherPoint returned.  One is: a service that
\* is stored after readLoop has closed the others seeks its party on.
OthersQuit == playing => \A f \in Facilitator : run[f].pc \in {"absent", "closed"}
=============================================================================
