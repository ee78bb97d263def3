--------------------------- MODULE GatherService ---------------------------
(***************************************************************************)
(* protocol/gather/gather_service.go: the facilitator of a party.  Its     *)
(* goroutines are one GatherHandler for each stream a seeker opens, one    *)
(* heartbeat for each of these, monitorLoop, meshUpdateLoop, and the       *)
(* node's readLoop, which takes the established game and calls Close().    *)
(* They share the maps gs.streams, gs.conns and gs.mesh and the flag       *)
(* gs.done without a lock, and meet on the unbuffered channels             *)
(* localConnUpdates, meshCh, gameCh and the two done channels: a step that *)
(* sends is joint with the step that receives.                             *)
(*                                                                         *)
(* Outside are the seekers (what they answer on their streams, see         *)
(* join_service.go) and the network.                                       *)
(***************************************************************************)
EXTENDS PeerMesh, Integers

CONSTANTS Self,          \* gs.h.ID()
          None,          \* a missing key of gs.streams or gs.conns
          unknown, alive, dead,
          DesiredCount,  \* gs.desiredCount
          MaxStreams,    \* bound: streams a seeker opens
          MaxFaults      \* bound: dead heartbeats, failed connects and writes,
                         \* withdrawn seekers and early reports, all counted
                         \* together

ASSUME SelfAssumption == Self \in Peer
ASSUME NoneAssumption == None \notin Peer \X Nat
ASSUME StatusAssumption == /\ unknown # alive /\ alive # dead /\ unknown # dead
                           /\ "unasked" \notin {unknown, alive, dead}
ASSUME BoundsAssumption == /\ DesiredCount \in Int
                           /\ MaxStreams \in Nat
                           /\ MaxFaults \in Nat

Seeker == Peer \ {Self}

\* A stream is the seeker that opened it and how many it had opened.
Conn == Seeker \X (1..MaxStreams)

VARIABLES
  done,     \* gs.done
  streams,  \* gs.streams
  conns,    \* gs.conns, the heartbeat of a stream is named by the stream
  mesh,     \* gs.mesh
  game,     \* the peers gs.game's instance holds a stream to
  handler,  \* GatherHandler: where it is, and what it sends on meshCh
  hb,       \* heartbeats, as module StatusReporter describes them
  view,     \* what the seeker at the other end last said of each peer it was
            \* asked to connect to ("unasked" until then)
  monitor,  \* monitorLoop: where it is, and the peer it works on
  loop,     \* meshUpdateLoop: where it is, the modification received, and the
            \* heartbeats closeHeartbeats still has to close
  node,     \* readLoop of the node, likewise
  clique,   \* the clique last found, {} at first
  told,     \* how often GatheringFinished was written to a stream
  early,    \* has a heartbeat reported before the handler's next two
            \* statements had stored the stream and it?
  faults,   \* faults so far, see MaxFaults
  crash     \* why the process died, or "none"

vars == <<done, streams, conns, mesh, game, handler, hb, view, monitor, loop,
          node, clique, told, early, faults, crash>>

NoMod == Mod("removePeer", Self, Self)

Init == /\ done = FALSE
        /\ streams = [p \in Seeker |-> None]
        /\ conns = [p \in Seeker |-> None]
        /\ mesh = EmptyMesh
        /\ game = {}
        /\ handler = [c \in Conn |-> [pc |-> "idle", mod |-> NoMod]]
        /\ hb = [c \in Conn |-> [status |-> unknown, phase |-> "absent"]]
        /\ view = [c \in Conn |-> [p \in Seeker |-> "unasked"]]
        /\ monitor = [pc |-> "select", peer |-> Self]
        /\ loop = [pc |-> "select", mod |-> NoMod, closing |-> {}]
        /\ node = [pc |-> "listening", closing |-> {}]
        /\ clique = {}
        /\ told = [c \in Conn |-> 0]
        /\ early = FALSE
        /\ faults = 0
        /\ crash = "none"

Crash(why) == crash' = why

\* k faults happen, if the bound allows them.
Fault(k) == faults + k <= MaxFaults /\ faults' = faults + k

Registered(map) == {map[p] : p \in Seeker} \ {None}

-----------------------------------------------------------------------------
\* GatherHandler, one per stream.

HandlerAt(c, pc) == handler' = [handler EXCEPT ![c].pc = pc]

\* The seeker's stream arrives, and libp2p runs a handler for it, whatever the
\* handlers of its earlier streams are at; gs.done is read once and never again.
Accept(c) ==
  /\ handler[c].pc = "idle"
  /\ c[2] > 1 => handler[<<c[1], c[2] - 1>>].pc # "idle"
  /\ HandlerAt(c, IF done THEN "ended" ELSE "accepted")
  /\ UNCHANGED <<done, streams, conns, mesh, game, hb, view, monitor, loop, node,
                 clique, told, early, faults, crash>>

\* NewHeartbeat starts to ping at once.
CreateHeartbeat(c) ==
  /\ handler[c].pc = "accepted"
  /\ HandlerAt(c, "created")
  /\ hb' = [hb EXCEPT ![c].phase = "idle"]
  /\ UNCHANGED <<done, streams, conns, mesh, game, view, monitor, loop, node,
                 clique, told, early, faults, crash>>

StoreStream(c) ==
  /\ handler[c].pc = "created"
  /\ HandlerAt(c, "stored")
  /\ streams' = [streams EXCEPT ![c[1]] = c]
  /\ UNCHANGED <<done, conns, mesh, game, hb, view, monitor, loop, node,
                 clique, told, early, faults, crash>>

\* Variant with a bug: the peer is stored for its heartbeat.
StorePeer(c) ==
  /\ handler[c].pc = "stored"
  /\ HandlerAt(c, "reading")
  /\ conns' = [conns EXCEPT ![c[1]] = c[1]]
  /\ UNCHANGED <<done, streams, mesh, game, hb, view, monitor, loop, node,
                 clique, told, early, faults, crash>>

StoreHeartbeat(c) ==
  /\ handler[c].pc = "stored"
  /\ HandlerAt(c, "reading")
  /\ conns' = [conns EXCEPT ![c[1]] = c]
  /\ UNCHANGED <<done, streams, mesh, game, hb, view, monitor, loop, node,
                 clique, told, early, faults, crash>>

\* Connected or Disconnected, which a seeker sends when its own heartbeat of
\* a peer it was asked to connect to changes.
ReadMessage(c, p, s) ==
  /\ handler[c].pc = "reading"
  /\ view[c][p] \notin {"unasked", s}
  /\ s = dead => Fault(1)
  /\ s = alive => UNCHANGED faults
  /\ view' = [view EXCEPT ![c][p] = s]
  /\ handler' = [handler EXCEPT ![c] =
       [pc |-> "sending",
        mod |-> Mod(IF s = alive THEN "addDoubleEdge" ELSE "removeDoubleEdge", c[1], p)]]
  /\ UNCHANGED <<done, streams, conns, mesh, game, hb, monitor, loop, node,
                 clique, told, early, crash>>

\* gs.meshCh <- ...: the loop is at its select.
HandlerSends(c) ==
  /\ handler[c].pc = "sending"
  /\ loop.pc = "select"
  /\ loop' = [loop EXCEPT !.pc = "apply", !.mod = handler[c].mod]
  /\ HandlerAt(c, "reading")
  /\ UNCHANGED <<done, streams, conns, mesh, game, hb, view, monitor, node,
                 clique, told, early, faults, crash>>

\* The stream ends: the handler returns and leaves everything as it is.
Withdrawn(c) ==
  /\ handler[c].pc = "reading"
  /\ Fault(1)
  /\ HandlerAt(c, "ended")
  /\ UNCHANGED <<done, streams, conns, mesh, game, hb, view, monitor, loop, node,
                 clique, told, early, crash>>

-----------------------------------------------------------------------------
\* Heartbeats (module Heartbeat).

\* A ping may be answered, and its result reported, at once.
Early(c) == handler[c].pc \in {"created", "stored"}

\* A change of status is offered on localConnUpdates.
Offer(c, s) ==
  /\ hb[c].phase = "idle"
  /\ hb[c].status # s
  /\ hb' = [hb EXCEPT ![c] = [status |-> s, phase |-> "sending"]]
  /\ early' = (early \/ Early(c))
  /\ Fault((IF s = dead THEN 1 ELSE 0) + (IF Early(c) THEN 1 ELSE 0))
  /\ UNCHANGED <<done, streams, conns, mesh, game, handler, view, monitor, loop,
                 node, clique, told, crash>>

\* hb.Close() by the goroutine that takes the steps `by`: the heartbeat must
\* be at its select, and its done channel still open.
CloseHeartbeat(c, by) ==
  \/ /\ hb[c].phase = "idle"
     /\ hb' = [hb EXCEPT ![c].phase = "closed"]
     /\ by
     /\ UNCHANGED crash
  \/ /\ hb[c].phase = "closed"
     /\ Crash("send on the closed done channel of a heartbeat")
     /\ UNCHANGED <<hb, monitor, loop, node>>

-----------------------------------------------------------------------------
\* monitorLoop

MonitorAt(pc) == monitor' = [monitor EXCEPT !.pc = pc]

\* Variant with a bug: a dead peer stays in the game.
MonitorKeepsDead(c) ==
  /\ monitor.pc = "select"
  /\ hb[c].phase = "sending"
  /\ hb' = [hb EXCEPT ![c].phase = "idle"]
  /\ monitor' = [pc |-> IF hb[c].status = alive THEN "connect" ELSE "sendRemove",
                 peer |-> c[1]]
  /\ UNCHANGED <<done, streams, conns, mesh, game, handler, view, loop, node,
                 clique, told, early, faults, crash>>

\* peerStatus := <-gs.localConnUpdates.  A dead peer leaves the game first.
MonitorReceives(c) ==
  /\ monitor.pc = "select"
  /\ hb[c].phase = "sending"
  /\ hb' = [hb EXCEPT ![c].phase = "idle"]
  /\ IF hb[c].status = alive
     THEN /\ monitor' = [pc |-> "connect", peer |-> c[1]]
          /\ UNCHANGED game
     ELSE /\ monitor' = [pc |-> "sendRemove", peer |-> c[1]]
          /\ game' = game \ {c[1]}
  /\ UNCHANGED <<done, streams, conns, mesh, handler, view, loop, node,
                 clique, told, early, faults, crash>>

\* Variant with a bug: a peer that could not be connected is announced too.
ConnectAnyway ==
  /\ monitor.pc = "connect"
  /\ \/ game' = game \cup {monitor.peer} /\ UNCHANGED faults
     \/ Fault(1) /\ UNCHANGED game
  /\ MonitorAt("sendAdd")
  /\ UNCHANGED <<done, streams, conns, mesh, handler, hb, view, loop, node,
                 clique, told, early, crash>>

\* gs.game.Connect.  A failure is logged and not tried again.
Connect ==
  /\ monitor.pc = "connect"
  /\ \/ /\ game' = game \cup {monitor.peer}
        /\ MonitorAt("sendAdd")
        /\ UNCHANGED faults
     \/ /\ Fault(1)
        /\ MonitorAt("select")
        /\ UNCHANGED game
  /\ UNCHANGED <<done, streams, conns, mesh, handler, hb, view, loop, node,
                 clique, told, early, crash>>

MonitorMod ==
  CASE monitor.pc = "sendAdd"        -> Mod("addDoubleEdge", Self, monitor.peer)
    [] monitor.pc = "sendRemove"     -> Mod("removeDoubleEdge", Self, monitor.peer)
    [] monitor.pc = "sendRemovePeer" -> Mod("removePeer", monitor.peer, monitor.peer)

\* gs.meshCh <- ..., and where the loop goes from there
MonitorSends ==
  /\ monitor.pc \in {"sendAdd", "sendRemove", "sendRemovePeer"}
  /\ loop.pc = "select"
  /\ loop' = [loop EXCEPT !.pc = "apply", !.mod = MonitorMod]
  /\ MonitorAt(CASE monitor.pc = "sendAdd"        -> "ask"
                 [] monitor.pc = "sendRemove"     -> "disconnect"
                 [] monitor.pc = "sendRemovePeer" -> "select")
  /\ UNCHANGED <<done, streams, conns, mesh, game, handler, hb, view, node,
                 clique, told, early, faults, crash>>

\* Variant with a bug: those the new peer is connected to are asked.
Linked == {s \in Seeker \cap Neighbours(mesh, monitor.peer) : streams[s] # None}

Everybody ==
  {s \in Seeker \cap DOMAIN mesh : s # monitor.peer /\ streams[s] # None}

\* askEverybodyToConnectTo.  Its errors are not the *core.PeerError that
\* monitorLoop asserts they are, so one failed write kills the process.
Ask ==
  /\ monitor.pc = "ask"
  /\ \E failed \in SUBSET Everybody :
       /\ Fault(Cardinality(failed))
       /\ view' = [c \in Conn |->
                     IF /\ c[1] \in Everybody \ failed
                        /\ c = streams[c[1]]
                        /\ view[c][monitor.peer] = "unasked"
                     THEN [view[c] EXCEPT ![monitor.peer] = unknown]
                     ELSE view[c]]
       /\ IF failed = {}
          THEN MonitorAt("select") /\ UNCHANGED crash
          ELSE Crash("failed request is not a PeerError") /\ UNCHANGED monitor
  /\ UNCHANGED <<done, streams, conns, mesh, game, handler, hb, loop, node,
                 clique, told, early>>

\* peerDisconnected: nothing to do, or the stream is closed and deleted.
Disconnect ==
  /\ monitor.pc = "disconnect"
  /\ IF streams[monitor.peer] = None
     THEN MonitorAt("select") /\ UNCHANGED streams
     ELSE /\ streams' = [streams EXCEPT ![monitor.peer] = None]
          /\ MonitorAt("closeHb")
  /\ UNCHANGED <<done, conns, mesh, game, handler, hb, view, loop, node,
                 clique, told, early, faults, crash>>

\* gs.conns[p].Close(), on nil if the key is missing
DisconnectHeartbeat ==
  /\ monitor.pc = "closeHb"
  /\ IF conns[monitor.peer] = None
     THEN Crash("nil heartbeat") /\ UNCHANGED <<hb, monitor, loop, node>>
     ELSE CloseHeartbeat(conns[monitor.peer],
                         MonitorAt("deleteConn") /\ UNCHANGED <<loop, node>>)
  /\ UNCHANGED <<done, streams, conns, mesh, game, handler, view,
                 clique, told, early, faults>>

DeleteConn ==
  /\ monitor.pc = "deleteConn"
  /\ conns' = [conns EXCEPT ![monitor.peer] = None]
  /\ MonitorAt("sendRemovePeer")
  /\ UNCHANGED <<done, streams, mesh, game, handler, hb, view, loop, node,
                 clique, told, early, faults, crash>>

-----------------------------------------------------------------------------
\* meshUpdateLoop

LoopAt(pc) == loop' = [loop EXCEPT !.pc = pc]

\* rescan := mod(gs.mesh), and the search for a clique, which panics if the
\* number of players is no capacity of a slice.
SearchPanics == Rescan(loop.mod) /\ ~Allocatable(DesiredCount)

Update ==
  /\ loop.pc = "apply"
  /\ mesh' = Apply(loop.mod, mesh)
  /\ LET cliques == IF Rescan(loop.mod)
                    THEN FindCliqueResults(mesh', DesiredCount, Self)
                    ELSE {}
     IN \/ /\ ~SearchPanics
           /\ clique' \in cliques
           /\ done' = TRUE
           /\ LoopAt("announce")
           /\ UNCHANGED crash
        \/ /\ ~SearchPanics
           /\ cliques = {}
           /\ LoopAt("select")
           /\ UNCHANGED <<done, clique, crash>>
        \/ /\ SearchPanics
           /\ Crash("makeslice: cap out of range")
           /\ LoopAt("select")
           /\ UNCHANGED <<done, clique>>
  /\ UNCHANGED <<streams, conns, game, handler, hb, view, monitor, node,
                 told, early, faults>>

\* Variant with a bug: the clique is taken for those left out.
AnnounceToOthers ==
  /\ loop.pc = "announce"
  /\ told' = [c \in Conn |-> IF c \in Registered(streams) /\ c[1] \notin clique
                             THEN told[c] + 1 ELSE told[c]]
  /\ LoopAt("closeHbs")
  /\ UNCHANGED <<done, streams, conns, mesh, game, handler, hb, view, monitor,
                 node, clique, early, faults, crash>>

\* GatheringFinished is written to every stream, all writes are waited for,
\* and one that fails is only logged.
Announce ==
  /\ loop.pc = "announce"
  /\ told' = [c \in Conn |-> IF c \in Registered(streams) THEN told[c] + 1 ELSE told[c]]
  /\ LoopAt("closeHbs")
  /\ UNCHANGED <<done, streams, conns, mesh, game, handler, hb, view, monitor,
                 node, clique, early, faults, crash>>

\* closeHeartbeats: one goroutine for each heartbeat of gs.conns ...
StartClosing ==
  /\ loop.pc = "closeHbs"
  /\ loop' = [loop EXCEPT !.pc = "closing", !.closing = Registered(conns)]
  /\ UNCHANGED <<done, streams, conns, mesh, game, handler, hb, view, monitor,
                 node, clique, told, early, faults, crash>>

CloseOne(c) ==
  /\ loop.pc = "closing"
  /\ c \in loop.closing
  /\ CloseHeartbeat(c, /\ loop' = [loop EXCEPT !.closing = @ \ {c}]
                       /\ UNCHANGED <<monitor, node>>)
  /\ UNCHANGED <<done, streams, conns, mesh, game, handler, view,
                 clique, told, early, faults>>

\* ... and once all have returned the map is emptied, with whatever is in it.
ForgetHeartbeats ==
  /\ loop.pc = "closing"
  /\ loop.closing = {}
  /\ conns' = [p \in Seeker |-> None]
  /\ LoopAt("clear")
  /\ UNCHANGED <<done, streams, mesh, game, handler, hb, view, monitor, node,
                 clique, told, early, faults, crash>>

\* Variants with a bug: the streams stay, or the game is not sent.
KeepStreams ==
  /\ loop.pc = "clear"
  /\ LoopAt("sendGame")
  /\ UNCHANGED <<done, streams, conns, mesh, game, handler, hb, view, monitor, node,
                 clique, told, early, faults, crash>>

KeepGame ==
  /\ loop.pc = "clear"
  /\ streams' = [p \in Seeker |-> None]
  /\ LoopAt("select")
  /\ UNCHANGED <<done, conns, mesh, game, handler, hb, view, monitor, node,
                 clique, told, early, faults, crash>>

ClearStreams ==
  /\ loop.pc = "clear"
  /\ streams' = [p \in Seeker |-> None]
  /\ LoopAt("sendGame")
  /\ UNCHANGED <<done, conns, mesh, game, handler, hb, view, monitor, node,
                 clique, told, early, faults, crash>>

\* gs.gameCh <- ... to the readLoop of the node, which then calls Close().
SendGame ==
  /\ loop.pc = "sendGame"
  /\ node.pc = "listening"
  /\ LoopAt("select")
  /\ node' = [node EXCEPT !.pc = "stopMonitor"]
  /\ UNCHANGED <<done, streams, conns, mesh, game, handler, hb, view, monitor,
                 clique, told, early, faults, crash>>

-----------------------------------------------------------------------------
\* Close(), run by the node's readLoop

StopMonitor ==
  /\ node.pc = "stopMonitor"
  /\ monitor.pc = "select"
  /\ MonitorAt("stopped")
  /\ node' = [node EXCEPT !.pc = "stopLoop"]
  /\ UNCHANGED <<done, streams, conns, mesh, game, handler, hb, view, loop,
                 clique, told, early, faults, crash>>

StopLoop ==
  /\ node.pc = "stopLoop"
  /\ loop.pc = "select"
  /\ LoopAt("stopped")
  /\ node' = [pc |-> "closing", closing |-> Registered(conns)]
  /\ UNCHANGED <<done, streams, conns, mesh, game, handler, hb, view, monitor,
                 clique, told, early, faults, crash>>

NodeClosesOne(c) ==
  /\ node.pc = "closing"
  /\ c \in node.closing
  /\ CloseHeartbeat(c, /\ node' = [node EXCEPT !.closing = @ \ {c}]
                       /\ UNCHANGED <<monitor, loop>>)
  /\ UNCHANGED <<done, streams, conns, mesh, game, handler, view,
                 clique, told, early, faults>>

\* The heartbeats are forgotten and close(gs.localConnUpdates).
CloseUpdates ==
  /\ node.pc = "closing"
  /\ node.closing = {}
  /\ conns' = [p \in Seeker |-> None]
  /\ node' = [node EXCEPT !.pc = "closeStreams"]
  /\ UNCHANGED <<done, streams, mesh, game, handler, hb, view, monitor, loop,
                 clique, told, early, faults, crash>>

\* The streams that are left in gs.streams are closed and stay there.
CloseReturns ==
  /\ node.pc = "closeStreams"
  /\ node' = [node EXCEPT !.pc = "closed"]
  /\ UNCHANGED <<done, streams, conns, mesh, game, handler, hb, view, monitor,
                 loop, clique, told, early, faults, crash>>

\* A heartbeat that is still there sends on the closed channel.
ReportPanics(c) ==
  /\ node.pc \in {"closeStreams", "closed"}
  /\ hb[c].phase = "sending"
  /\ Crash("send on the closed channel localConnUpdates")
  /\ UNCHANGED <<done, streams, conns, mesh, game, handler, hb, view, monitor,
                 loop, node, clique, told, early, faults>>

-----------------------------------------------------------------------------
\* A goroutine that writes to a map while another one uses it: the Go runtime
\* may notice and kill the process.  If it does not, the accesses happen one
\* after the other, as the actions above do.

Goroutine == Conn \cup ({"monitor", "loop", "node"} \X {0})

At(g, pcs) == CASE g = <<"monitor", 0>> -> monitor.pc \in pcs
                [] g = <<"loop", 0>>    -> loop.pc \in pcs
                [] g = <<"node", 0>>    -> node.pc \in pcs
                [] g \in Conn           -> handler[g].pc \in pcs

\* Where each map is written, and where it is only read.
MapUse == {[write |-> {"created", "disconnect", "clear"},
            read |-> {"ask", "announce", "closeStreams"}],
           [write |-> {"stored", "deleteConn", "closing"}, read |-> {"closeHb", "closeHbs"}],
           [write |-> {"apply"}, read |-> {"ask"}]}

MapRace ==
  /\ \E m \in MapUse : \E g, h \in Goroutine :
       g # h /\ At(g, m.write) /\ At(h, m.write \cup m.read)
  /\ Crash("concurrent map access")
  /\ UNCHANGED <<done, streams, conns, mesh, game, handler, hb, view, monitor,
                 loop, node, clique, told, early, faults>>

-----------------------------------------------------------------------------
GatherHandler(c) ==
  \/ CreateHeartbeat(c) \/ StoreStream(c) \/ StoreHeartbeat(c) \/ HandlerSends(c)

monitorLoop ==
  \/ \E c \in Conn : MonitorReceives(c)
  \/ Connect \/ MonitorSends \/ Ask
  \/ Disconnect \/ DisconnectHeartbeat \/ DeleteConn

meshUpdateLoop ==
  \/ Update \/ Announce \/ StartClosing
  \/ \E c \in Conn : CloseOne(c)
  \/ ForgetHeartbeats \/ ClearStreams \/ SendGame

Close ==
  \/ StopMonitor \/ StopLoop
  \/ \E c \in Conn : NodeClosesOne(c)
  \/ CloseUpdates \/ CloseReturns

Environment ==
  \E c \in Conn : \/ Accept(c)
                  \/ Withdrawn(c)
                  \/ \E s \in {alive, dead} :
                       Offer(c, s) \/ \E p \in Seeker : ReadMessage(c, p, s)

Next == /\ crash = "none"
        /\ \/ \E c \in Conn : GatherHandler(c) \/ ReportPanics(c)
           \/ monitorLoop \/ meshUpdateLoop \/ Close
           \/ Environment
           \/ MapRace

SafetySpec == Init /\ [][Next]_vars

\* Go runs every goroutine that can run: each of them has weak fairness.  No
\* behaviour of this module runs for ever without stopping (streams and faults
\* are bounded), so a goroutine that waits for a channel for ever waits in a
\* state that no longer changes.
Fairness == /\ \A c \in Conn : WF_vars(GatherHandler(c) \/ ReportPanics(c))
            /\ WF_vars(monitorLoop)
            /\ WF_vars(meshUpdateLoop)
            /\ WF_vars(Close)

Spec == SafetySpec /\ Fairness

\* Seekers that come, answer pings, and connect to whom they are asked to.
Cooperation ==
  \A c \in Conn : /\ WF_vars(Accept(c))
                  /\ WF_vars(Offer(c, alive))
                  /\ \A p \in Seeker : WF_vars(ReadMessage(c, p, alive))

CooperativeSpec == Spec /\ Cooperation

-----------------------------------------------------------------------------
Causes == {"none", "failed request is not a PeerError", "nil heartbeat",
           "send on the closed done channel of a heartbeat",
           "send on the closed channel localConnUpdates",
           "makeslice: cap out of range",
           "concurrent map access"}

MapOK == [Seeker -> Conn \cup {None}]

HeartbeatsOK == [Conn -> [status : {unknown, alive, dead},
                          phase : {"absent", "idle", "sending", "closed"}]]

HandlerOK ==
  [Conn -> [pc : {"idle", "accepted", "created", "stored", "reading", "sending", "ended"},
            mod : peerMeshMod]]

MonitorOK ==
  [pc : {"select", "connect", "sendAdd", "ask", "sendRemove", "disconnect",
         "closeHb", "deleteConn", "sendRemovePeer", "stopped"},
   peer : Peer]

LoopOK ==
  [pc : {"select", "apply", "announce", "closeHbs", "closing", "clear",
         "sendGame", "stopped"},
   mod : peerMeshMod, closing : SUBSET Conn]

NodeOK == [pc : {"listening", "stopMonitor", "stopLoop", "closing", "closeStreams", "closed"},
           closing : SUBSET Conn]

TypeOK ==
  /\ done \in BOOLEAN
  /\ streams \in MapOK
  /\ conns \in MapOK
  /\ mesh \in Mesh
  /\ game \subseteq Peer
  /\ handler \in HandlerOK
  /\ hb \in HeartbeatsOK
  /\ view \in [Conn -> [Seeker -> {"unasked", unknown, alive, dead}]]
  /\ monitor \in MonitorOK
  /\ loop \in LoopOK
  /\ node \in NodeOK
  /\ clique \subseteq Peer
  /\ told \in [Conn -> Nat]
  /\ early \in BOOLEAN
  /\ faults \in Nat
  /\ crash \in Causes

\* Whatever handlers and the monitor send to the loop, and in whatever order,
\* the mesh never has an edge in one direction only, nor an edge to a peer
\* that removePeer would not find.
MeshSymmetric == Symmetric(mesh) /\ Closed(mesh)

\* The peers whose edge to the facilitator is being changed: the monitor has
\* changed the game and not yet sent the modification, or the loop has not yet
\* applied it.
Changing(p) == monitor.peer = p /\ monitor.pc \in {"sendAdd", "sendRemove"}

Unsettled ==
  {p \in Seeker : \/ Changing(p)
                  \/ loop.pc = "apply" /\ loop.mod.from = Self /\ loop.mod.to = p}

\* The facilitator keeps two books of its own connections, the streams of its
\* game instance and its row of the mesh, written by different goroutines.
\* They agree on every peer whose change is not under way.
GameMatchesMesh ==
  \A p \in Seeker \ Unsettled : p \in game <=> p \in Neighbours(mesh, Self)

\* Why it does: the monitor knows whether its peer is in the game; only the
\* monitor sends modifications of the facilitator's own edges; and the one the
\* loop has in hand agrees with the game unless the monitor is about to send
\* another one for the same peer.
MonitorKnows ==
  /\ monitor.pc \notin {"select", "stopped"} => monitor.peer \in Seeker
  /\ monitor.pc = "sendAdd" => monitor.peer \in game
  /\ monitor.pc \in {"sendRemove", "disconnect", "closeHb", "deleteConn", "sendRemovePeer"}
       => monitor.peer \notin game

HandlersSendSeekers ==
  \A c \in Conn : handler[c].pc = "sending" =>
    /\ handler[c].mod.op \in {"addDoubleEdge", "removeDoubleEdge"}
    /\ handler[c].mod.from \in Seeker
    /\ handler[c].mod.to \in Seeker

LoopKnows ==
  loop.pc = "apply" =>
    /\ loop.mod.to \in Seeker
    /\ loop.mod.op = "removePeer" => loop.mod.from = loop.mod.to
    /\ ~Changing(loop.mod.to) =>
         /\ loop.mod.from = Self =>
              (loop.mod.to \in game <=> loop.mod.op = "addDoubleEdge")
         /\ loop.mod.op = "removePeer" => loop.mod.to \notin game

\* From the clique found to the game handed over, the monitor may be stuck with
\* the removal of one peer in hand, which has left the game already.
Leaving == IF monitor.pc = "sendRemove" THEN {monitor.peer} ELSE {}

\* So the clique that is announced may count a peer the facilitator no longer
\* plays with, but one at most: the removal of which the monitor waits to send.
\* All the other members are in the game that the node is handed.
CliqueInGame ==
  loop.pc \in {"announce", "closeHbs", "closing", "clear", "sendGame"} =>
    clique \ {Self} \subseteq game \cup Leaving

GameInv == MonitorKnows /\ HandlersSendSeekers /\ LoopKnows /\ GameMatchesMesh

Asked(p, q) == streams[p] # None /\ view[streams[p]][q] # "unasked"

\* For every two seekers the facilitator is connected to, one was told to
\* connect to the other over a stream that still stands: otherwise no clique
\* with both would ever form.  A seeker that is being announced to the others
\* is excused, and one whose heartbeat reported before its stream was stored is
\* not asked to connect to those that come then.
PairsRequested ==
  ~done /\ ~early =>
    \A p, q \in Neighbours(mesh, Self) \ Unsettled :
      \/ p = q
      \/ monitor.pc = "ask" /\ monitor.peer \in {p, q}
      \/ Asked(p, q) \/ Asked(q, p)

\* A removal of the edge between p and q that is still to be applied.
RemovalPending(p, q) ==
  \/ loop.pc = "apply" /\ loop.mod = Mod("removeDoubleEdge", p, q)
  \/ \E c \in Conn : /\ handler[c].pc = "sending"
                     /\ handler[c].mod = Mod("removeDoubleEdge", p, q)

\* An edge between two seekers rests on what one of them last said of the
\* other, unless a Disconnected was read and has not reached the mesh yet: no
\* reordering of the handlers' messages leaves an edge both have taken back.
EdgesReported ==
  \A p, q \in Seeker :
    q \in Neighbours(mesh, p) =>
      \/ \E c \in Conn : (c[1] = p /\ view[c][q] = alive) \/ (c[1] = q /\ view[c][p] = alive)
      \/ RemovalPending(p, q) \/ RemovalPending(q, p)

\* When the loop writes GatheringFinished, every member of the clique it found
\* is written to, although handlers and the monitor change gs.streams beside
\* it: but for a seeker whose heartbeat reported before the handler's next
\* statement had stored its stream (gather_service.go:100-105), which plays and
\* is not told.  That is said of the clique whose game the node takes: if the
\* loop finds another one, the streams of the first party are cleared, and who
\* was in both is not told again.
Announcing == loop.pc = "announce" /\ loop'.pc = "closeHbs" /\ node.pc = "listening"

MembersTold ==
  [][Announcing =>
       \A p \in clique \ {Self} :
         \E c \in Conn : /\ c[1] = p
                         /\ told'[c] > told[c] \/ handler[c].pc = "created"]_vars

\* Every member of the party is told ("those that were, notify that they were",
\* says README.md), also one whose heartbeat was quick: that is not so.
EveryMemberTold ==
  [][Announcing =>
       \A p \in clique \ {Self} : \E c \in Conn : c[1] = p /\ told'[c] > told[c]]_vars

\* No seeker is told twice over one stream that the gathering has finished,
\* even if another clique is found afterwards.
ToldOnce == \A c \in Conn : told[c] <= 1

\* monitorLoop survives the failures it is written to handle.  It does not: the
\* error of a failed request is wrapped, and the type assertion panics.
HandlesDisconnect == crash # "failed request is not a PeerError"

\* If enough seekers come and cooperate and there is no fault, early reports
\* among them, a clique is found, unless the process dies of a map race.
Gathers == <>(done \/ crash # "none")

\* Once a clique is found, the game reaches the node and Close() returns:
\* no two of the goroutines wait for each other.
PartyFinishes == done ~> (node.pc = "closed" \/ crash # "none")

\* Once meshUpdateLoop closes the heartbeats it comes to an end of it.  It does
\* not: one that reports waits for monitorLoop, which may be sending to
\* meshUpdateLoop.
HeartbeatsClosed == loop.pc = "closing" ~> (loop.pc # "closing" \/ crash # "none")
=============================================================================
