------------------------ MODULE GatherServiceProofs ------------------------
(***************************************************************************)
(* The facilitator keeps its types, its mesh stays symmetric, and its game *)
(* agrees with its mesh: for any peers, any number of streams and faults,  *)
(* and however early the heartbeats report.                                *)
(*                                                                         *)
(* Then, what it knows of its seekers and what it tells them: that nobody  *)
(* is told twice, that an edge rests on what a seeker said, that the game  *)
(* handed over holds the announced clique but for one peer that leaves,    *)
(* and, if seekers open one stream each, that every member is told and     *)
(* that every two connected seekers were asked to connect to each other.   *)
(***************************************************************************)
EXTENDS GatherService, PeerMeshProofs

\* Each modification a goroutine builds is one that PeerMesh knows.
LEMMA ModType ==
  ASSUME NEW op \in {"addDoubleEdge", "removeDoubleEdge", "removePeer"},
         NEW p \in Peer, NEW q \in Peer
  PROVE  /\ Mod(op, p, q) \in peerMeshMod
         /\ Mod(op, p, q).op = op /\ Mod(op, p, q).from = p /\ Mod(op, p, q).to = q
BY DEF Mod, peerMeshMod

\* No fault is counted with a number that is not natural.
LEMMA FaultType ==
  ASSUME faults \in Nat, NEW k \in Nat, Fault(k)
  PROVE  faults' \in Nat
BY DEF Fault

\* The streams are the seekers', never the facilitator's own.
LEMMA ConnType == \A c \in Conn : c[1] \in Seeker /\ c[1] \in Peer /\ c[1] # Self
BY DEF Conn, Seeker

\* The facilitator starts with variables of their types.
LEMMA TypeInit == Init => TypeOK
<1> SUFFICES ASSUME Init PROVE TypeOK
  OBVIOUS
<1>1. EmptyMesh \in Mesh
  BY MeshType DEF EmptyMesh
<1>2. NoMod \in peerMeshMod
  BY ModType, SelfAssumption DEF NoMod
<1>3. done \in BOOLEAN /\ early \in BOOLEAN /\ crash \in Causes /\ faults \in Nat
  BY DEF Init, Causes
<1>4. streams \in MapOK /\ conns \in MapOK
  BY DEF Init, MapOK
<1>5. handler \in HandlerOK /\ monitor \in MonitorOK /\ loop \in LoopOK /\ node \in NodeOK
  BY <1>2, SelfAssumption DEF Init, HandlerOK, MonitorOK, LoopOK, NodeOK
<1> QED
  BY <1>1, <1>3, <1>4, <1>5 DEF Init, TypeOK, HeartbeatsOK

\* TypeOK in two parts, for the provers: the Booleans and the reason of death,
\* and everything else.
FlagsOK == done \in BOOLEAN /\ early \in BOOLEAN /\ crash \in Causes

StateOK ==
  /\ streams \in MapOK /\ conns \in MapOK
  /\ mesh \in Mesh /\ game \subseteq Peer
  /\ handler \in HandlerOK
  /\ hb \in HeartbeatsOK
  /\ view \in [Conn -> [Seeker -> {"unasked", unknown, alive, dead}]]
  /\ monitor \in MonitorOK /\ loop \in LoopOK /\ node \in NodeOK
  /\ clique \subseteq Peer
  /\ told \in [Conn -> Nat] /\ faults \in Nat

\* TypeOK is the types of the flags and those of the shared state, which
\* different steps disturb.
LEMMA TypeParts == TypeOK <=> FlagsOK /\ StateOK
BY DEF TypeOK, FlagsOK, StateOK

\* The same of the state after a step.
LEMMA TypePartsPrimed == TypeOK' <=> FlagsOK' /\ StateOK'
BY DEF TypeOK, FlagsOK, StateOK

\* The heartbeats and streams that the maps hold are those of connections.
LEMMA RegisteredType ==
  ASSUME NEW map \in MapOK
  PROVE  Registered(map) \subseteq Conn
BY DEF Registered, MapOK

\* Without symmetry, Apply and FindCliqueResults still have their types.
LEMMA ApplyType ==
  ASSUME NEW m \in Mesh, NEW mod \in peerMeshMod
  PROVE  Apply(mod, m) \in Mesh
<1>1. PICK p \in Peer, q \in Peer : p = mod.from /\ q = mod.to
  BY DEF peerMeshMod
<1>2. removePeer(m, p) \in Mesh
  <2>1. /\ DOMAIN removePeer(m, p) = DOMAIN m \ {p}
        /\ removePeer(m, p) \in [DOMAIN m \ {p} -> SUBSET Peer]
    BY MeshType DEF removePeer
  <2> QED
    BY <2>1, MeshType
<1>3. addDoubleEdge(m, p, q) \in Mesh /\ removeDoubleEdge(m, p, q) \in Mesh
  BY AddDoubleEdge, RemoveDoubleEdge
<1>4. Apply(mod, m) \in {addDoubleEdge(m, p, q), removeDoubleEdge(m, p, q), removePeer(m, p)}
  BY <1>1 DEF Apply, peerMeshMod
<1> QED
  BY <1>2, <1>3, <1>4

\* A clique that FindClique may return is a set of peers.
LEMMA ResultsType ==
  ASSUME NEW m \in Mesh, NEW n, NEW required \in Peer,
         NEW C \in FindCliqueResults(m, n, required)
  PROVE  C \subseteq Peer
BY NeighboursType DEF FindCliqueResults

\* A heartbeat that is closed is still a heartbeat.
LEMMA ClosedHeartbeatType ==
  ASSUME NEW h \in HeartbeatsOK, NEW c
  PROVE  [h EXCEPT ![c].phase = "closed"] \in HeartbeatsOK
BY DEF HeartbeatsOK

\* What monitorLoop sends to meshUpdateLoop is a modification.
LEMMA MonitorModType ==
  ASSUME monitor \in MonitorOK,
         monitor.pc \in {"sendAdd", "sendRemove", "sendRemovePeer"}
  PROVE  MonitorMod \in peerMeshMod
BY SelfAssumption, ModType DEF MonitorMod, MonitorOK

\* No step of any goroutine breaks a type.
LEMMA TypeStep == TypeOK /\ [Next]_vars => TypeOK'
<1> SUFFICES ASSUME FlagsOK, StateOK, [Next]_vars PROVE FlagsOK' /\ StateOK'
  BY TypeParts, TypePartsPrimed
<1>1. ASSUME NEW c \in Conn, Accept(c)
      PROVE  FlagsOK' /\ StateOK'
  <2>1. FlagsOK'
    BY <1>1 DEF Accept, FlagsOK
  <2>2. StateOK'
    BY <1>1, ConnType DEF Accept, HandlerAt, StateOK, HandlerOK
  <2> QED
    BY <2>1, <2>2
<1>2. ASSUME NEW c \in Conn, CreateHeartbeat(c)
      PROVE  FlagsOK' /\ StateOK'
  <2>1. FlagsOK'
    BY <1>2 DEF CreateHeartbeat, FlagsOK
  <2>2. StateOK'
    BY <1>2, ConnType DEF CreateHeartbeat, HandlerAt, StateOK, HandlerOK,
       HeartbeatsOK
  <2> QED
    BY <2>1, <2>2
<1>3. ASSUME NEW c \in Conn, StoreStream(c)
      PROVE  FlagsOK' /\ StateOK'
  <2>1. FlagsOK'
    BY <1>3 DEF StoreStream, FlagsOK
  <2>2. StateOK'
    BY <1>3, ConnType DEF StoreStream, HandlerAt, StateOK, HandlerOK, MapOK
  <2> QED
    BY <2>1, <2>2
<1>4. ASSUME NEW c \in Conn, StoreHeartbeat(c)
      PROVE  FlagsOK' /\ StateOK'
  <2>1. FlagsOK'
    BY <1>4 DEF StoreHeartbeat, FlagsOK
  <2>2. StateOK'
    BY <1>4, ConnType DEF StoreHeartbeat, HandlerAt, StateOK, HandlerOK,
       MapOK
  <2> QED
    BY <2>1, <2>2
<1>5. ASSUME NEW c \in Conn, NEW p \in Seeker, NEW s \in {alive, dead}, ReadMessage(c, p, s)
      PROVE  FlagsOK' /\ StateOK'
  <2>1. FlagsOK'
    BY <1>5 DEF ReadMessage, FlagsOK
  <2> DEFINE op == IF s = alive THEN "addDoubleEdge" ELSE "removeDoubleEdge"
  <2>2. Mod(op, c[1], p) \in peerMeshMod
    BY ConnType, ModType DEF Seeker
  <2>3. handler' \in HandlerOK
    BY <1>5, <2>2 DEF ReadMessage, StateOK, HandlerOK
  <2>4. view' \in [Conn -> [Seeker -> {"unasked", unknown, alive, dead}]]
    BY <1>5 DEF ReadMessage, StateOK
  <2>5. faults' \in Nat
    BY <1>5, FaultType DEF ReadMessage, StateOK
  <2>6. StateOK'
    BY <1>5, <2>3, <2>4, <2>5 DEF ReadMessage, StateOK
  <2> QED
    BY <2>1, <2>6
<1>6. ASSUME NEW c \in Conn, HandlerSends(c)
      PROVE  FlagsOK' /\ StateOK'
  <2>1. FlagsOK'
    BY <1>6 DEF HandlerSends, FlagsOK
  <2>2. StateOK'
    BY <1>6, ConnType DEF HandlerSends, HandlerAt, StateOK, HandlerOK,
       LoopOK, MonitorOK
  <2> QED
    BY <2>1, <2>2
<1>7. ASSUME NEW c \in Conn, Withdrawn(c)
      PROVE  FlagsOK' /\ StateOK'
  <2>1. FlagsOK'
    BY <1>7 DEF Withdrawn, FlagsOK
  <2>2. StateOK'
    BY <1>7, ConnType, FaultType DEF Withdrawn, HandlerAt, Fault, StateOK,
       HandlerOK
  <2> QED
    BY <2>1, <2>2
<1>8. ASSUME NEW c \in Conn, NEW s \in {alive, dead}, Offer(c, s)
      PROVE  FlagsOK' /\ StateOK'
  <2>1. FlagsOK'
    BY <1>8 DEF Offer, FlagsOK
  <2>2. faults' \in Nat
    BY <1>8 DEF Offer, Fault, StateOK
  <2>3. hb' \in HeartbeatsOK
    BY <1>8 DEF Offer, StateOK, HeartbeatsOK
  <2>4. StateOK'
    BY <1>8, <2>2, <2>3 DEF Offer, StateOK
  <2> QED
    BY <2>1, <2>4
<1>9. ASSUME NEW c \in Conn, MonitorReceives(c)
      PROVE  FlagsOK' /\ StateOK'
  <2>1. FlagsOK'
    BY <1>9 DEF MonitorReceives, FlagsOK
  <2>2. StateOK'
    BY <1>9, ConnType DEF MonitorReceives, StateOK, MonitorOK,
       HeartbeatsOK
  <2> QED
    BY <2>1, <2>2
<1>10. CASE Connect
  <2>1. FlagsOK'
    BY <1>10 DEF Connect, FlagsOK
  <2>2. game' \subseteq Peer
    BY <1>10 DEF Connect, StateOK, MonitorOK
  <2>3. monitor' \in MonitorOK
    BY <1>10 DEF Connect, MonitorAt, StateOK, MonitorOK
  <2>4. faults' \in Nat
    BY <1>10, FaultType DEF Connect, StateOK
  <2>5. StateOK'
    BY <1>10, <2>2, <2>3, <2>4 DEF Connect, StateOK
  <2> QED
    BY <2>1, <2>5
<1>11. CASE MonitorSends
  <2>1. FlagsOK'
    BY <1>11 DEF MonitorSends, FlagsOK
  <2>2. StateOK'
    BY <1>11, ModType, MonitorModType DEF MonitorSends, MonitorAt, StateOK,
       MonitorOK, LoopOK
  <2> QED
    BY <2>1, <2>2
<1>12. CASE Ask
  <2>1. FlagsOK'
    BY <1>12 DEF Ask, Crash, FlagsOK, Causes
  <2>2. PICK failed \in SUBSET Everybody :
           /\ Fault(Cardinality(failed))
           /\ view' = [c \in Conn |->
                         IF /\ c[1] \in Everybody \ failed
                            /\ c = streams[c[1]]
                            /\ view[c][monitor.peer] = "unasked"
                         THEN [view[c] EXCEPT ![monitor.peer] = unknown]
                         ELSE view[c]]
           /\ IF failed = {}
              THEN MonitorAt("select") /\ UNCHANGED crash
              ELSE Crash("failed request is not a PeerError") /\ UNCHANGED monitor
    BY <1>12 DEF Ask
  <2>3. failed \subseteq Peer
    BY <2>2 DEF Everybody, Seeker
  <2>4. Cardinality(failed) \in Nat
    BY <2>3, PeerAssumption, FS_Subset, FS_CardinalityType
  <2>5. faults' \in Nat
    BY <2>2, <2>4, FaultType DEF StateOK
  <2>6. view' \in [Conn -> [Seeker -> {"unasked", unknown, alive, dead}]]
    BY <2>2 DEF StateOK
  <2>7. monitor' \in MonitorOK
    BY <2>2 DEF StateOK, MonitorOK, MonitorAt
  <2>8. StateOK'
    BY <1>12, <2>5, <2>6, <2>7 DEF Ask, StateOK
  <2> QED
    BY <2>1, <2>8
<1>13. CASE Disconnect
  <2>1. FlagsOK'
    BY <1>13 DEF Disconnect, FlagsOK
  <2>2. StateOK'
    BY <1>13 DEF Disconnect, MonitorAt, StateOK, MonitorOK, MapOK
  <2> QED
    BY <2>1, <2>2
<1>14. CASE DisconnectHeartbeat
  <2>1. FlagsOK'
    BY <1>14 DEF DisconnectHeartbeat, Crash, CloseHeartbeat, FlagsOK, Causes
  <2>2. PICK x : hb' = [hb EXCEPT ![x].phase = "closed"] \/ hb' = hb
    BY <1>14 DEF DisconnectHeartbeat, CloseHeartbeat
  <2>3. hb' \in HeartbeatsOK
    BY <2>2, ClosedHeartbeatType DEF StateOK
  <2>4. monitor' = [monitor EXCEPT !.pc = "deleteConn"] \/ monitor' = monitor
    BY <1>14 DEF DisconnectHeartbeat, MonitorAt, CloseHeartbeat
  <2>5. monitor' \in MonitorOK
    BY <2>4 DEF StateOK, MonitorOK
  <2>6. UNCHANGED <<loop, node>>
    BY <1>14 DEF DisconnectHeartbeat, CloseHeartbeat
  <2>7. StateOK'
    BY <1>14, <2>3, <2>5, <2>6 DEF DisconnectHeartbeat, StateOK
  <2> QED
    BY <2>1, <2>7
<1>15. CASE DeleteConn
  <2>1. FlagsOK'
    BY <1>15 DEF DeleteConn, FlagsOK
  <2>2. StateOK'
    BY <1>15 DEF DeleteConn, MonitorAt, StateOK, MonitorOK, MapOK
  <2> QED
    BY <2>1, <2>2
<1>16. CASE Update
  <2>1. FlagsOK'
    BY <1>16 DEF Update, Crash, FlagsOK, Causes
  <2>2. Apply(loop.mod, mesh) \in Mesh
    BY ApplyType DEF StateOK, LoopOK
  <2>3. loop' \in LoopOK
    BY <1>16 DEF Update, LoopAt, StateOK, LoopOK
  <2>4. clique' \subseteq Peer
    BY <1>16, <2>2, ResultsType, SelfAssumption DEF Update, StateOK
  <2>5. StateOK'
    BY <1>16, <2>2, <2>3, <2>4 DEF Update, StateOK
  <2> QED
    BY <2>1, <2>5
<1>17. CASE Announce
  <2>1. FlagsOK'
    BY <1>17 DEF Announce, FlagsOK
  <2>2. told' \in [Conn -> Nat]
    BY <1>17 DEF Announce, StateOK
  <2>3. loop' \in LoopOK
    BY <1>17 DEF Announce, LoopAt, StateOK, LoopOK
  <2>4. StateOK'
    BY <1>17, <2>2, <2>3 DEF Announce, StateOK
  <2> QED
    BY <2>1, <2>4
<1>18. CASE StartClosing
  <2>1. FlagsOK'
    BY <1>18 DEF StartClosing, FlagsOK
  <2>2. StateOK'
    BY <1>18, RegisteredType DEF StartClosing, StateOK, LoopOK
  <2> QED
    BY <2>1, <2>2
<1>19. ASSUME NEW c \in Conn, CloseOne(c)
      PROVE  FlagsOK' /\ StateOK'
  <2>1. FlagsOK'
    BY <1>19 DEF CloseOne, CloseHeartbeat, Crash, FlagsOK, Causes
  <2>2. hb' = [hb EXCEPT ![c].phase = "closed"] \/ hb' = hb
    BY <1>19 DEF CloseOne, CloseHeartbeat
  <2>3. hb' \in HeartbeatsOK
    BY <2>2, ClosedHeartbeatType DEF StateOK
  <2>4. loop' = [loop EXCEPT !.closing = @ \ {c}] \/ loop' = loop
    BY <1>19 DEF CloseOne, CloseHeartbeat
  <2>5. loop' \in LoopOK
    BY <2>4 DEF StateOK, LoopOK
  <2>6. UNCHANGED <<monitor, node>>
    BY <1>19 DEF CloseOne, CloseHeartbeat
  <2>7. StateOK'
    BY <1>19, <2>3, <2>5, <2>6 DEF CloseOne, StateOK
  <2> QED
    BY <2>1, <2>7
<1>20. CASE ForgetHeartbeats
  <2>1. FlagsOK'
    BY <1>20 DEF ForgetHeartbeats, FlagsOK
  <2>2. StateOK'
    BY <1>20 DEF ForgetHeartbeats, LoopAt, StateOK, LoopOK, MapOK
  <2> QED
    BY <2>1, <2>2
<1>21. CASE ClearStreams
  <2>1. FlagsOK'
    BY <1>21 DEF ClearStreams, FlagsOK
  <2>2. StateOK'
    BY <1>21 DEF ClearStreams, LoopAt, StateOK, LoopOK, MapOK
  <2> QED
    BY <2>1, <2>2
<1>22. CASE SendGame
  <2>1. FlagsOK'
    BY <1>22 DEF SendGame, FlagsOK
  <2>2. StateOK'
    BY <1>22 DEF SendGame, LoopAt, StateOK, LoopOK, NodeOK
  <2> QED
    BY <2>1, <2>2
<1>23. CASE StopMonitor
  <2>1. FlagsOK'
    BY <1>23 DEF StopMonitor, FlagsOK
  <2>2. StateOK'
    BY <1>23 DEF StopMonitor, MonitorAt, StateOK, MonitorOK, NodeOK
  <2> QED
    BY <2>1, <2>2
<1>24. CASE StopLoop
  <2>1. FlagsOK'
    BY <1>24 DEF StopLoop, FlagsOK
  <2>2. StateOK'
    BY <1>24, RegisteredType DEF StopLoop, LoopAt, StateOK, LoopOK, NodeOK
  <2> QED
    BY <2>1, <2>2
<1>25. ASSUME NEW c \in Conn, NodeClosesOne(c)
      PROVE  FlagsOK' /\ StateOK'
  <2>1. FlagsOK'
    BY <1>25 DEF NodeClosesOne, CloseHeartbeat, Crash, FlagsOK, Causes
  <2>2. hb' = [hb EXCEPT ![c].phase = "closed"] \/ hb' = hb
    BY <1>25 DEF NodeClosesOne, CloseHeartbeat
  <2>3. hb' \in HeartbeatsOK
    BY <2>2, ClosedHeartbeatType DEF StateOK
  <2>4. node' = [node EXCEPT !.closing = @ \ {c}] \/ node' = node
    BY <1>25 DEF NodeClosesOne, CloseHeartbeat
  <2>5. node' \in NodeOK
    BY <2>4 DEF StateOK, NodeOK
  <2>6. UNCHANGED <<monitor, loop>>
    BY <1>25 DEF NodeClosesOne, CloseHeartbeat
  <2>7. StateOK'
    BY <1>25, <2>3, <2>5, <2>6 DEF NodeClosesOne, StateOK
  <2> QED
    BY <2>1, <2>7
<1>26. CASE CloseUpdates \/ CloseReturns
  <2>1. FlagsOK'
    BY <1>26 DEF CloseUpdates, CloseReturns, FlagsOK
  <2>2. StateOK'
    BY <1>26 DEF CloseUpdates, CloseReturns, StateOK, NodeOK, MapOK
  <2> QED
    BY <2>1, <2>2
<1>27. ASSUME NEW c \in Conn, ReportPanics(c)
      PROVE  FlagsOK' /\ StateOK'
  <2>1. FlagsOK'
    BY <1>27 DEF ReportPanics, Crash, FlagsOK, Causes
  <2>2. StateOK'
    BY <1>27, ConnType DEF ReportPanics, Crash, StateOK
  <2> QED
    BY <2>1, <2>2
<1>28. CASE MapRace
  <2>1. FlagsOK'
    BY <1>28 DEF MapRace, Crash, FlagsOK, Causes
  <2>2. StateOK'
    BY <1>28 DEF MapRace, Crash, StateOK
  <2> QED
    BY <2>1, <2>2
<1>29. CASE UNCHANGED vars
  <2>1. FlagsOK'
    BY <1>29 DEF vars, FlagsOK
  <2>2. StateOK'
    BY <1>29 DEF vars, StateOK
  <2> QED
    BY <2>1, <2>2
<1> QED
  BY <1>1, <1>2, <1>3, <1>4, <1>5, <1>6, <1>7, <1>8, <1>9, <1>10, <1>11,
     <1>12, <1>13, <1>14, <1>15, <1>16, <1>17, <1>18, <1>19, <1>20, <1>21,
     <1>22, <1>23, <1>24, <1>25, <1>26, <1>27, <1>28, <1>29 DEF Next,
     GatherHandler, monitorLoop, meshUpdateLoop, Close, Environment

\* Every variable of the facilitator keeps its type.
THEOREM GatherType == SafetySpec => []TypeOK
BY TypeInit, TypeStep, PTL DEF SafetySpec

-----------------------------------------------------------------------------
\* Only Update writes the mesh.
LEMMA MeshWriters == [Next]_vars => UNCHANGED mesh \/ Update
<1> SUFFICES ASSUME [Next]_vars, ~Update PROVE UNCHANGED mesh
  OBVIOUS
<1>1. CASE Environment
  BY <1>1 DEF Environment, Accept, Withdrawn, Offer, ReadMessage
<1>2. CASE \E c \in Conn : GatherHandler(c) \/ ReportPanics(c)
  BY <1>2 DEF GatherHandler, CreateHeartbeat, StoreStream, StoreHeartbeat,
     HandlerSends, ReportPanics
<1>3. CASE monitorLoop
  BY <1>3 DEF monitorLoop, MonitorReceives, Connect, MonitorSends, Ask,
     Disconnect, DisconnectHeartbeat, DeleteConn
<1>4. CASE meshUpdateLoop
  BY <1>4 DEF meshUpdateLoop, Announce, StartClosing, CloseOne,
     ForgetHeartbeats, ClearStreams, SendGame
<1>5. CASE Close
  BY <1>5 DEF Close, StopMonitor, StopLoop, NodeClosesOne, CloseUpdates, CloseReturns
<1>6. CASE MapRace \/ UNCHANGED vars
  BY <1>6 DEF MapRace, vars
<1> QED
  BY <1>1, <1>2, <1>3, <1>4, <1>5, <1>6 DEF Next

\* The mesh changes in Update only, by a modification that keeps it symmetric.
LEMMA SymmetryStep == TypeOK /\ MeshSymmetric /\ [Next]_vars => MeshSymmetric'
<1> SUFFICES ASSUME TypeOK, MeshSymmetric, [Next]_vars PROVE MeshSymmetric'
  OBVIOUS
<1>1. CASE UNCHANGED mesh
  BY <1>1 DEF MeshSymmetric, Symmetric, Closed, Neighbours
<1>2. CASE Update
  <2>1. mesh' = Apply(loop.mod, mesh)
    BY <1>2 DEF Update
  <2>2. loop.mod \in peerMeshMod /\ mesh \in Mesh
    BY DEF TypeOK, LoopOK
  <2>3. Symmetric(Apply(loop.mod, mesh)) /\ Closed(Apply(loop.mod, mesh))
    BY <2>2, ApplyPreserves DEF MeshSymmetric
  <2> QED
    BY <2>1, <2>3 DEF MeshSymmetric, Symmetric, Closed, Neighbours
<1> QED
  BY <1>1, <1>2, MeshWriters

\* The mesh is symmetric whatever handlers and the monitor send, and however
\* their messages interleave.
THEOREM GatherSymmetric == SafetySpec => []MeshSymmetric
<1>1. Init => MeshSymmetric
  BY DEF Init, EmptyMesh, MeshSymmetric, Symmetric, Closed, Neighbours
<1> QED
  BY <1>1, SymmetryStep, GatherType, PTL DEF SafetySpec

-----------------------------------------------------------------------------
\* The steps that leave GameInv alone, by what they write.

\* Heartbeats, the node and the runtime write none of its variables.
LEMMA GameFrame ==
  ASSUME GameInv, UNCHANGED <<mesh, game, handler, monitor, loop>>
  PROVE  GameInv'
BY DEF GameInv, MonitorKnows, HandlersSendSeekers, LoopKnows, GameMatchesMesh,
   Unsettled, Changing, Neighbours

\* A handler moves.
LEMMA HandlerFrame ==
  ASSUME GameInv, UNCHANGED <<mesh, game, monitor, loop>>, HandlersSendSeekers'
  PROVE  GameInv'
BY DEF GameInv, MonitorKnows, LoopKnows, GameMatchesMesh, Unsettled, Changing,
   Neighbours

\* The loop moves with no modification in hand before or after.
LEMMA LoopFrame ==
  ASSUME GameInv, UNCHANGED <<mesh, game, handler, monitor>>,
         loop.pc # "apply", loop'.pc # "apply"
  PROVE  GameInv'
BY DEF GameInv, MonitorKnows, HandlersSendSeekers, LoopKnows, GameMatchesMesh,
   Unsettled, Changing, Neighbours

\* The monitor moves with no modification to send before or after.
LEMMA MonitorFrame ==
  ASSUME GameInv, UNCHANGED <<mesh, game, handler, loop>>,
         monitor.pc \notin {"sendAdd", "sendRemove"},
         monitor'.pc \notin {"sendAdd", "sendRemove"},
         MonitorKnows'
  PROVE  GameInv'
BY DEF GameInv, HandlersSendSeekers, LoopKnows, GameMatchesMesh, Unsettled,
   Changing, Neighbours

\* The steps that do change the game, or send or apply a modification.

\* A dead peer leaves the game in the step that makes its removal pending.
LEMMA ReceiveStep ==
  ASSUME TypeOK, GameInv, NEW c \in Conn, MonitorReceives(c)
  PROVE  GameInv'
<1> DEFINE p == c[1]
<1>1. p \in Seeker
  BY ConnType
<1>2. /\ UNCHANGED <<mesh, handler, loop>>
      /\ monitor.pc = "select"
      /\ monitor'.peer = p
      /\ \/ monitor'.pc = "connect" /\ game' = game
         \/ monitor'.pc = "sendRemove" /\ game' = game \ {p}
  BY DEF MonitorReceives
<1> HIDE DEF p
<1>3. \A q \in Seeker : q # p => (q \in game' <=> q \in game)
  BY <1>2
<1>4. \A q : ~Changing(q)
  BY <1>2 DEF Changing
<1>5. MonitorKnows' /\ HandlersSendSeekers'
  BY <1>1, <1>2 DEF GameInv, MonitorKnows, HandlersSendSeekers
<1>6. CASE monitor'.pc = "connect"
  BY <1>2, <1>5, <1>6 DEF GameInv, LoopKnows, GameMatchesMesh, Unsettled,
     Changing, Neighbours
<1>7. CASE monitor'.pc = "sendRemove"
  <2>1. \A q : Changing(q)' <=> q = p
    BY <1>2, <1>7 DEF Changing
  <2>2. LoopKnows'
    BY <1>2, <1>3, <1>4, <2>1 DEF GameInv, LoopKnows
  <2>3. GameMatchesMesh'
    BY <1>2, <1>3, <1>4, <2>1 DEF GameInv, GameMatchesMesh, Unsettled, Neighbours
  <2> QED
    BY <1>5, <2>2, <2>3 DEF GameInv
<1> QED
  BY <1>2, <1>6, <1>7

\* A peer enters the game in the step that makes its edge pending.
LEMMA ConnectStep ==
  ASSUME TypeOK, GameInv, Connect
  PROVE  GameInv'
<1> DEFINE p == monitor.peer
<1>1. p \in Seeker /\ \A q : ~Changing(q)
  BY DEF Connect, GameInv, MonitorKnows, Changing
<1>2. UNCHANGED <<mesh, handler, loop>> /\ monitor'.peer = p /\ monitor.pc = "connect"
  BY DEF Connect, MonitorAt, TypeOK, MonitorOK
<1>3. \/ monitor'.pc = "sendAdd" /\ game' = game \cup {p}
      \/ monitor'.pc = "select" /\ game' = game
  BY DEF Connect, MonitorAt, TypeOK, MonitorOK
<1>4. CASE monitor'.pc = "select"
  <2>1. game' = game
    BY <1>3, <1>4
  <2>2. MonitorKnows'
    BY <1>4 DEF MonitorKnows
  <2> QED
    BY <1>2, <1>4, <2>1, <2>2, MonitorFrame
<1>5. CASE monitor'.pc = "sendAdd"
  <2>1. \A q : Changing(q)' <=> q = p
    BY <1>2, <1>5 DEF Changing
  <2>2. game' = game \cup {p}
    BY <1>3, <1>5
  <2> HIDE DEF p
  <2>3. LoopKnows'
    BY <1>1, <1>2, <2>1, <2>2 DEF GameInv, LoopKnows
  <2>4. GameMatchesMesh'
    BY <1>1, <1>2, <2>1, <2>2 DEF GameInv, GameMatchesMesh, Unsettled, Neighbours
  <2>5. MonitorKnows' /\ HandlersSendSeekers'
    BY <1>1, <1>2, <1>5, <2>2 DEF GameInv, MonitorKnows, HandlersSendSeekers
  <2> QED
    BY <2>3, <2>4, <2>5 DEF GameInv
<1> QED
  BY <1>3, <1>4, <1>5

\* What a handler sends says nothing of the facilitator's own edges.
LEMMA HandlerSendsStep ==
  ASSUME TypeOK, GameInv, NEW c \in Conn, HandlerSends(c)
  PROVE  GameInv'
<1>1. /\ UNCHANGED <<mesh, game, monitor>>
      /\ loop.pc = "select"
      /\ loop'.pc = "apply"
      /\ loop'.mod = handler[c].mod
  BY DEF HandlerSends, TypeOK, LoopOK
<1>2. /\ loop'.mod.op \in {"addDoubleEdge", "removeDoubleEdge"}
      /\ loop'.mod.from \in Seeker
      /\ loop'.mod.to \in Seeker
  BY <1>1 DEF HandlerSends, GameInv, HandlersSendSeekers
<1>3. HandlersSendSeekers'
  BY DEF HandlerSends, HandlerAt, TypeOK, HandlerOK, GameInv, HandlersSendSeekers
<1>4. LoopKnows'
  BY <1>2 DEF LoopKnows, Seeker
<1>5. GameMatchesMesh'
  BY <1>1, <1>2 DEF GameInv, GameMatchesMesh, Unsettled, Changing, Neighbours, Seeker
<1>6. MonitorKnows'
  BY <1>1 DEF GameInv, MonitorKnows
<1> QED
  BY <1>3, <1>4, <1>5, <1>6 DEF GameInv

\* What the monitor sends says of its peer what the game holds.
LEMMA MonitorSendsStep ==
  ASSUME TypeOK, GameInv, MonitorSends
  PROVE  GameInv'
<1> DEFINE p == monitor.peer
<1>1. /\ UNCHANGED <<mesh, game, handler>>
      /\ monitor.pc \in {"sendAdd", "sendRemove", "sendRemovePeer"}
      /\ loop.pc = "select" /\ loop'.pc = "apply"
      /\ loop'.mod = MonitorMod
      /\ monitor'.peer = p
      /\ p \in Seeker /\ p # Self /\ p \in Peer
  BY DEF MonitorSends, MonitorAt, TypeOK, MonitorOK, LoopOK, GameInv, MonitorKnows, Seeker
<1>2. /\ monitor.pc = "sendAdd" => monitor'.pc = "ask"
      /\ monitor.pc = "sendRemove" => monitor'.pc = "disconnect"
      /\ monitor.pc = "sendRemovePeer" => monitor'.pc = "select"
  BY DEF MonitorSends, MonitorAt, TypeOK, MonitorOK
<1>3. /\ monitor.pc = "sendAdd" => p \in game
      /\ monitor.pc # "sendAdd" => p \notin game
  BY <1>1 DEF GameInv, MonitorKnows
<1>4. /\ monitor.pc = "sendAdd" =>
           loop'.mod.op = "addDoubleEdge" /\ loop'.mod.from = Self /\ loop'.mod.to = p
      /\ monitor.pc = "sendRemove" =>
           loop'.mod.op = "removeDoubleEdge" /\ loop'.mod.from = Self /\ loop'.mod.to = p
      /\ monitor.pc = "sendRemovePeer" =>
           loop'.mod.op = "removePeer" /\ loop'.mod.from = p /\ loop'.mod.to = p
  BY <1>1 DEF MonitorMod, Mod
<1>5. MonitorKnows' /\ HandlersSendSeekers'
  BY <1>1, <1>2, <1>3 DEF GameInv, MonitorKnows, HandlersSendSeekers
<1>6. LoopKnows'
  BY <1>1, <1>2, <1>3, <1>4 DEF LoopKnows
<1>7. GameMatchesMesh'
  <2> SUFFICES ASSUME NEW q \in Seeker, q \notin Unsettled'
               PROVE  q \in game <=> q \in Neighbours(mesh, Self)
    BY <1>1 DEF GameMatchesMesh, Neighbours
  <2>1. q \notin Unsettled
    BY <1>1, <1>2, <1>4 DEF Unsettled, Changing
  <2> QED
    BY <2>1 DEF GameInv, GameMatchesMesh
<1> QED
  BY <1>5, <1>6, <1>7 DEF GameInv

\* Applying a modification that agrees with the game makes the mesh agree.
LEMMA UpdateStep ==
  ASSUME TypeOK, MeshSymmetric, GameInv, Update
  PROVE  GameInv'
<1> DEFINE mod == loop.mod
<1>1. /\ UNCHANGED <<game, handler, monitor>>
      /\ loop.pc = "apply"
      /\ loop'.pc # "apply"
      /\ mesh' = Apply(mod, mesh)
  BY DEF Update, LoopAt, TypeOK, LoopOK
<1>2. /\ mesh \in Mesh /\ Symmetric(mesh)
      /\ mod.from \in Peer /\ mod.to \in Peer
      /\ mod.op \in {"addDoubleEdge", "removeDoubleEdge", "removePeer"}
  BY DEF TypeOK, LoopOK, peerMeshMod, MeshSymmetric
<1>3. /\ mod.to \in Seeker /\ mod.to # Self
      /\ mod.op = "removePeer" => mod.from = mod.to
  BY <1>1 DEF GameInv, LoopKnows, Seeker
<1>4. GameMatchesMesh'
  <2> SUFFICES ASSUME NEW q \in Seeker, q \notin Unsettled'
               PROVE  q \in game <=> q \in Neighbours(mesh', Self)
    BY <1>1 DEF GameMatchesMesh
  <2>1. ~Changing(q) /\ q # Self
    BY <1>1 DEF Unsettled, Changing, Seeker
  <2>2. mod.from = Self /\ mod.to = q => (q \in game <=> mod.op = "addDoubleEdge")
    BY <1>1, <2>1 DEF GameInv, LoopKnows
  <2>3. mod.op = "removePeer" /\ mod.to = q => q \notin game
    BY <1>1, <2>1 DEF GameInv, LoopKnows
  <2>4. ~(mod.from = Self /\ mod.to = q) => (q \in game <=> q \in Neighbours(mesh, Self))
    BY <2>1 DEF GameInv, GameMatchesMesh, Unsettled
  <2> HIDE DEF mod
  <2>5. CASE mod.op = "addDoubleEdge"
    <3>1. mesh' = addDoubleEdge(mesh, mod.from, mod.to)
      BY <1>1, <2>5 DEF Apply
    <3>2. q \in Neighbours(mesh', Self) <=>
            q \in Neighbours(mesh, Self) \/ Ends(Self, q, mod.from, mod.to)
      BY <1>2, <3>1, AddDoubleEdge
    <3> QED
      BY <1>3, <2>2, <2>4, <2>5, <3>2 DEF Ends
  <2>6. CASE mod.op = "removeDoubleEdge"
    <3>1. mesh' = removeDoubleEdge(mesh, mod.from, mod.to)
      BY <1>1, <2>6 DEF Apply
    <3>2. q \in Neighbours(mesh', Self) <=>
            q \in Neighbours(mesh, Self) /\ ~Ends(Self, q, mod.from, mod.to)
      BY <1>2, <3>1, RemoveDoubleEdge
    <3> QED
      BY <1>3, <2>2, <2>4, <2>6, <3>2 DEF Ends
  <2>7. CASE mod.op = "removePeer"
    <3>1. mesh' = removePeer(mesh, mod.to)
      BY <1>1, <1>3, <2>7 DEF Apply
    <3>2. q \in Neighbours(mesh', Self) <=>
            q \in Neighbours(mesh, Self) /\ Self # mod.to /\ q # mod.to
      BY <1>2, <3>1, RemovePeer
    <3> QED
      BY <1>3, <2>3, <2>4, <2>7, <3>2
  <2> QED
    BY <1>2, <2>5, <2>6, <2>7
<1>5. MonitorKnows' /\ HandlersSendSeekers' /\ LoopKnows'
  BY <1>1 DEF GameInv, MonitorKnows, HandlersSendSeekers, LoopKnows
<1> QED
  BY <1>4, <1>5 DEF GameInv

\* Every step preserves GameInv.
LEMMA GameStep == TypeOK /\ MeshSymmetric /\ GameInv /\ [Next]_vars => GameInv'
<1> SUFFICES ASSUME TypeOK, MeshSymmetric, GameInv, [Next]_vars PROVE GameInv'
  OBVIOUS
<1>1. ASSUME NEW c \in Conn, Accept(c) \/ CreateHeartbeat(c) \/ StoreStream(c)
                               \/ StoreHeartbeat(c) \/ Withdrawn(c)
      PROVE  GameInv'
  <2>1. \E pc : pc # "sending" /\ HandlerAt(c, pc)
    BY <1>1 DEF Accept, CreateHeartbeat, StoreStream, StoreHeartbeat, Withdrawn
  <2>2. HandlersSendSeekers'
    BY <2>1 DEF HandlerAt, TypeOK, HandlerOK, GameInv, HandlersSendSeekers
  <2>3. UNCHANGED <<mesh, game, monitor, loop>>
    BY <1>1 DEF Accept, CreateHeartbeat, StoreStream, StoreHeartbeat, Withdrawn
  <2> QED
    BY <2>2, <2>3, HandlerFrame
<1>2. ASSUME NEW c \in Conn, NEW p \in Seeker, NEW s \in {alive, dead},
             ReadMessage(c, p, s)
      PROVE  GameInv'
  <2>1. handler' = [handler EXCEPT ![c] =
          [pc |-> "sending",
           mod |-> Mod(IF s = alive THEN "addDoubleEdge" ELSE "removeDoubleEdge", c[1], p)]]
    BY <1>2 DEF ReadMessage
  <2>2. HandlersSendSeekers'
    BY <2>1, ConnType DEF Mod, TypeOK, HandlerOK, GameInv, HandlersSendSeekers
  <2>3. UNCHANGED <<mesh, game, monitor, loop>>
    BY <1>2 DEF ReadMessage
  <2> QED
    BY <2>2, <2>3, HandlerFrame
<1>3. ASSUME NEW c \in Conn,
             \/ ReportPanics(c) \/ NodeClosesOne(c)
             \/ \E s \in {alive, dead} : Offer(c, s)
      PROVE  GameInv'
  <2>1. UNCHANGED <<mesh, game, handler, monitor, loop>>
    BY <1>3 DEF ReportPanics, NodeClosesOne, CloseHeartbeat, Offer
  <2> QED
    BY <2>1, GameFrame
<1>4. CASE CloseUpdates \/ CloseReturns \/ MapRace \/ UNCHANGED vars
  <2>1. UNCHANGED <<mesh, game, handler, monitor, loop>>
    BY <1>4 DEF CloseUpdates, CloseReturns, MapRace, vars
  <2> QED
    BY <2>1, GameFrame
<1>5. ASSUME NEW c \in Conn, CloseOne(c)
      PROVE  GameInv'
  <2>1. UNCHANGED <<mesh, game, handler, monitor>>
    BY <1>5 DEF CloseOne, CloseHeartbeat
  <2>2. loop.pc # "apply" /\ loop'.pc # "apply"
    <3>1. loop' = [loop EXCEPT !.closing = @ \ {c}] \/ loop' = loop
      BY <1>5 DEF CloseOne, CloseHeartbeat
    <3> QED
      BY <1>5, <3>1 DEF CloseOne, TypeOK, LoopOK
  <2> QED
    BY <2>1, <2>2, LoopFrame
<1>6. CASE \/ Announce \/ StartClosing \/ ForgetHeartbeats \/ ClearStreams
           \/ SendGame
  <2>1. UNCHANGED <<mesh, game, handler, monitor>>
    BY <1>6 DEF Announce, StartClosing, ForgetHeartbeats, ClearStreams, SendGame
  <2>2. loop.pc # "apply" /\ loop'.pc # "apply"
    BY <1>6 DEF Announce, StartClosing, ForgetHeartbeats, ClearStreams, SendGame,
       LoopAt, TypeOK, LoopOK
  <2> QED
    BY <2>1, <2>2, LoopFrame
<1>7. CASE StopLoop
  <2>1. UNCHANGED <<mesh, game, handler, monitor>>
    BY <1>7 DEF StopLoop
  <2>2. loop.pc # "apply" /\ loop'.pc # "apply"
    BY <1>7 DEF StopLoop, LoopAt, TypeOK, LoopOK
  <2> QED
    BY <2>1, <2>2, LoopFrame
<1>8. CASE Ask \/ Disconnect \/ DeleteConn \/ StopMonitor
  <2>1. UNCHANGED <<mesh, game, handler, loop>>
    BY <1>8 DEF Ask, Disconnect, DeleteConn, StopMonitor
  <2>2. \/ monitor.pc = "ask" /\ (MonitorAt("select") \/ UNCHANGED monitor)
        \/ monitor.pc = "disconnect" /\ (MonitorAt("select") \/ MonitorAt("closeHb"))
        \/ monitor.pc = "deleteConn" /\ MonitorAt("sendRemovePeer")
        \/ monitor.pc = "select" /\ MonitorAt("stopped")
    BY <1>8 DEF Ask, Disconnect, DeleteConn, StopMonitor
  <2>3. /\ monitor.pc \notin {"sendAdd", "sendRemove"}
        /\ monitor'.pc \notin {"sendAdd", "sendRemove"}
        /\ MonitorKnows'
    BY <2>1, <2>2 DEF MonitorAt, TypeOK, MonitorOK, GameInv, MonitorKnows
  <2> QED
    BY <2>1, <2>3, MonitorFrame
<1>9. CASE DisconnectHeartbeat
  <2>1. UNCHANGED <<mesh, game, handler, loop>>
    BY <1>9 DEF DisconnectHeartbeat, CloseHeartbeat
  <2>2. /\ monitor.pc = "closeHb"
        /\ MonitorAt("deleteConn") \/ UNCHANGED monitor
    BY <1>9 DEF DisconnectHeartbeat, CloseHeartbeat
  <2>3. /\ monitor.pc \notin {"sendAdd", "sendRemove"}
        /\ monitor'.pc \notin {"sendAdd", "sendRemove"}
        /\ MonitorKnows'
    BY <2>1, <2>2 DEF MonitorAt, TypeOK, MonitorOK, GameInv, MonitorKnows
  <2> QED
    BY <2>1, <2>3, MonitorFrame
<1>10. ASSUME NEW c \in Conn, GatherHandler(c)
       PROVE  GameInv'
  BY <1>1, <1>10, HandlerSendsStep DEF GatherHandler
<1>11. CASE monitorLoop
  BY <1>8, <1>9, <1>11, ReceiveStep, ConnectStep, MonitorSendsStep DEF monitorLoop
<1>12. CASE meshUpdateLoop
  BY <1>5, <1>6, <1>12, UpdateStep DEF meshUpdateLoop
<1>13. CASE Close
  BY <1>3, <1>4, <1>7, <1>8, <1>13 DEF Close
<1>14. CASE Environment
  BY <1>1, <1>2, <1>3, <1>14 DEF Environment
<1> QED
  BY <1>3, <1>4, <1>10, <1>11, <1>12, <1>13, <1>14 DEF Next

\* At first there are no edges and nobody is in the game.
LEMMA GameInit == Init => GameInv
BY DEF Init, EmptyMesh, GameInv, MonitorKnows, HandlersSendSeekers, LoopKnows,
   GameMatchesMesh, Unsettled, Neighbours

\* The game instance and the facilitator's row of the mesh agree, on every
\* peer that is not being changed, in every run of the facilitator.
THEOREM GatherGame == SafetySpec => []GameMatchesMesh
<1>1. GameInv => GameMatchesMesh
  BY DEF GameInv
<1> QED
  BY <1>1, GameInit, GameStep, GatherType, GatherSymmetric, PTL DEF SafetySpec

-----------------------------------------------------------------------------
\* Which steps write which variable.

\* Handlers, the monitor and the loop write gs.streams.
LEMMA StreamWriters ==
  ASSUME [Next]_vars
  PROVE  \/ UNCHANGED streams
         \/ \E c \in Conn : StoreStream(c)
         \/ Disconnect \/ ClearStreams
<1>1. CASE Environment
  BY <1>1 DEF Environment, Accept, Withdrawn, Offer, ReadMessage
<1>2. CASE \E c \in Conn : GatherHandler(c) \/ ReportPanics(c)
  BY <1>2 DEF GatherHandler, CreateHeartbeat, StoreHeartbeat, HandlerSends, ReportPanics
<1>3. CASE monitorLoop
  BY <1>3 DEF monitorLoop, MonitorReceives, Connect, MonitorSends, Ask, DisconnectHeartbeat,
     DeleteConn
<1>4. CASE meshUpdateLoop
  BY <1>4 DEF meshUpdateLoop, Update, Announce, StartClosing, CloseOne, ForgetHeartbeats,
     SendGame
<1>5. CASE Close
  BY <1>5 DEF Close, StopMonitor, StopLoop, NodeClosesOne, CloseUpdates, CloseReturns
<1>6. CASE MapRace \/ UNCHANGED vars
  BY <1>6 DEF MapRace, vars
<1> QED
  BY <1>1, <1>2, <1>3, <1>4, <1>5, <1>6 DEF Next

\* The same three, and Close(), write gs.conns.
LEMMA ConnWriters ==
  ASSUME [Next]_vars
  PROVE  \/ UNCHANGED conns
         \/ \E c \in Conn : StoreHeartbeat(c)
         \/ DeleteConn \/ ForgetHeartbeats \/ CloseUpdates
<1>1. CASE Environment
  BY <1>1 DEF Environment, Accept, Withdrawn, Offer, ReadMessage
<1>2. CASE \E c \in Conn : GatherHandler(c) \/ ReportPanics(c)
  BY <1>2 DEF GatherHandler, CreateHeartbeat, StoreStream, HandlerSends, ReportPanics
<1>3. CASE monitorLoop
  BY <1>3 DEF monitorLoop, MonitorReceives, Connect, MonitorSends, Ask, Disconnect,
     DisconnectHeartbeat
<1>4. CASE meshUpdateLoop
  BY <1>4 DEF meshUpdateLoop, Update, Announce, StartClosing, CloseOne, ClearStreams, SendGame
<1>5. CASE Close
  BY <1>5 DEF Close, StopMonitor, StopLoop, NodeClosesOne, CloseReturns
<1>6. CASE MapRace \/ UNCHANGED vars
  BY <1>6 DEF MapRace, vars
<1> QED
  BY <1>1, <1>2, <1>3, <1>4, <1>5, <1>6 DEF Next

\* A handler moves in its own steps only.
LEMMA HandlerWriters ==
  ASSUME [Next]_vars
  PROVE  \/ UNCHANGED handler
         \/ \E c \in Conn : \/ Accept(c) \/ CreateHeartbeat(c) \/ StoreStream(c)
                            \/ StoreHeartbeat(c) \/ HandlerSends(c) \/ Withdrawn(c)
                            \/ \E p \in Seeker, s \in {alive, dead} : ReadMessage(c, p, s)
<1>1. CASE Environment
  BY <1>1 DEF Environment, Offer
<1>2. CASE \E c \in Conn : GatherHandler(c) \/ ReportPanics(c)
  BY <1>2 DEF GatherHandler, ReportPanics
<1>3. CASE monitorLoop
  BY <1>3 DEF monitorLoop, MonitorReceives, Connect, MonitorSends, Ask, Disconnect,
     DisconnectHeartbeat, DeleteConn
<1>4. CASE meshUpdateLoop
  BY <1>4 DEF meshUpdateLoop, Update, Announce, StartClosing, CloseOne, ForgetHeartbeats,
     ClearStreams, SendGame
<1>5. CASE Close
  BY <1>5 DEF Close, StopMonitor, StopLoop, NodeClosesOne, CloseUpdates, CloseReturns
<1>6. CASE MapRace \/ UNCHANGED vars
  BY <1>6 DEF MapRace, vars
<1> QED
  BY <1>1, <1>2, <1>3, <1>4, <1>5, <1>6 DEF Next

\* A heartbeat is created by its handler, reports, and is closed by the
\* monitor, by the loop or by Close().
LEMMA HeartbeatWriters ==
  ASSUME [Next]_vars
  PROVE  \/ UNCHANGED hb
         \/ \E c \in Conn : \/ CreateHeartbeat(c) \/ MonitorReceives(c)
                            \/ CloseOne(c) \/ NodeClosesOne(c)
                            \/ \E s \in {alive, dead} : Offer(c, s)
         \/ DisconnectHeartbeat
<1>1. CASE Environment
  BY <1>1 DEF Environment, Accept, Withdrawn, ReadMessage
<1>2. CASE \E c \in Conn : GatherHandler(c) \/ ReportPanics(c)
  BY <1>2 DEF GatherHandler, StoreStream, StoreHeartbeat, HandlerSends, ReportPanics
<1>3. CASE monitorLoop
  BY <1>3 DEF monitorLoop, Connect, MonitorSends, Ask, Disconnect, DeleteConn
<1>4. CASE meshUpdateLoop
  BY <1>4 DEF meshUpdateLoop, Update, Announce, StartClosing, ForgetHeartbeats, ClearStreams,
     SendGame
<1>5. CASE Close
  BY <1>5 DEF Close, StopMonitor, StopLoop, CloseUpdates, CloseReturns
<1>6. CASE MapRace \/ UNCHANGED vars
  BY <1>6 DEF MapRace, vars
<1> QED
  BY <1>1, <1>2, <1>3, <1>4, <1>5, <1>6 DEF Next

\* What a seeker is asked and what it answers.
LEMMA ViewWriters ==
  ASSUME [Next]_vars
  PROVE  \/ UNCHANGED view
         \/ Ask
         \/ \E c \in Conn, p \in Seeker, s \in {alive, dead} : ReadMessage(c, p, s)
<1>1. CASE Environment
  BY <1>1 DEF Environment, Accept, Withdrawn, Offer
<1>2. CASE \E c \in Conn : GatherHandler(c) \/ ReportPanics(c)
  BY <1>2 DEF GatherHandler, CreateHeartbeat, StoreStream, StoreHeartbeat, HandlerSends,
     ReportPanics
<1>3. CASE monitorLoop
  BY <1>3 DEF monitorLoop, MonitorReceives, Connect, MonitorSends, Disconnect,
     DisconnectHeartbeat, DeleteConn
<1>4. CASE meshUpdateLoop
  BY <1>4 DEF meshUpdateLoop, Update, Announce, StartClosing, CloseOne, ForgetHeartbeats,
     ClearStreams, SendGame
<1>5. CASE Close
  BY <1>5 DEF Close, StopMonitor, StopLoop, NodeClosesOne, CloseUpdates, CloseReturns
<1>6. CASE MapRace \/ UNCHANGED vars
  BY <1>6 DEF MapRace, vars
<1> QED
  BY <1>1, <1>2, <1>3, <1>4, <1>5, <1>6 DEF Next

\* Handlers and the monitor move meshUpdateLoop from its select, Close() ends
\* it there, and otherwise it moves itself.
LEMMA LoopWriters ==
  ASSUME [Next]_vars
  PROVE  \/ UNCHANGED loop
         \/ \E c \in Conn : HandlerSends(c) \/ CloseOne(c)
         \/ MonitorSends \/ Update \/ Announce \/ StartClosing \/ ForgetHeartbeats
         \/ ClearStreams \/ SendGame \/ StopLoop
<1>1. CASE Environment
  BY <1>1 DEF Environment, Accept, Withdrawn, Offer, ReadMessage
<1>2. CASE \E c \in Conn : GatherHandler(c) \/ ReportPanics(c)
  BY <1>2 DEF GatherHandler, CreateHeartbeat, StoreStream, StoreHeartbeat, ReportPanics
<1>3. CASE monitorLoop
  BY <1>3 DEF monitorLoop, MonitorReceives, Connect, Ask, Disconnect, DisconnectHeartbeat,
     CloseHeartbeat, DeleteConn
<1>4. CASE meshUpdateLoop
  BY <1>4 DEF meshUpdateLoop
<1>5. CASE Close
  BY <1>5 DEF Close, StopMonitor, NodeClosesOne, CloseHeartbeat, CloseUpdates, CloseReturns
<1>6. CASE MapRace \/ UNCHANGED vars
  BY <1>6 DEF MapRace, vars
<1> QED
  BY <1>1, <1>2, <1>3, <1>4, <1>5, <1>6 DEF Next

\* Announce alone writes to the seekers, Update alone finds a clique.
LEMMA AnnouncementWriters ==
  ASSUME [Next]_vars
  PROVE  /\ UNCHANGED told \/ Announce
         /\ UNCHANGED <<done, clique, mesh>> \/ Update
<1>1. CASE Environment
  BY <1>1 DEF Environment, Accept, Withdrawn, Offer, ReadMessage
<1>2. CASE \E c \in Conn : GatherHandler(c) \/ ReportPanics(c)
  BY <1>2 DEF GatherHandler, CreateHeartbeat, StoreStream, StoreHeartbeat, HandlerSends,
     ReportPanics
<1>3. CASE monitorLoop
  BY <1>3 DEF monitorLoop, MonitorReceives, Connect, MonitorSends, Ask, Disconnect,
     DisconnectHeartbeat, DeleteConn
<1>4. CASE meshUpdateLoop
  BY <1>4 DEF meshUpdateLoop, Update, Announce, StartClosing, CloseOne, ForgetHeartbeats,
     ClearStreams, SendGame
<1>5. CASE Close
  BY <1>5 DEF Close, StopMonitor, StopLoop, NodeClosesOne, CloseUpdates, CloseReturns
<1>6. CASE MapRace \/ UNCHANGED vars
  BY <1>6 DEF MapRace, vars
<1> QED
  BY <1>1, <1>2, <1>3, <1>4, <1>5, <1>6 DEF Next

\* No goroutine but Close() interferes with the monitor.
LEMMA MonitorWriters ==
  ASSUME [Next]_vars
  PROVE  \/ UNCHANGED monitor
         \/ \E c \in Conn : MonitorReceives(c)
         \/ Connect \/ MonitorSends \/ Ask \/ Disconnect \/ DisconnectHeartbeat \/ DeleteConn
         \/ StopMonitor
<1>1. CASE Environment
  BY <1>1 DEF Environment, Accept, Withdrawn, Offer, ReadMessage
<1>2. CASE \E c \in Conn : GatherHandler(c) \/ ReportPanics(c)
  BY <1>2 DEF GatherHandler, CreateHeartbeat, StoreStream, StoreHeartbeat, HandlerSends,
     ReportPanics
<1>3. CASE monitorLoop
  BY <1>3 DEF monitorLoop
<1>4. CASE meshUpdateLoop
  BY <1>4 DEF meshUpdateLoop, Update, Announce, StartClosing, CloseOne, CloseHeartbeat,
     ForgetHeartbeats, ClearStreams, SendGame
<1>5. CASE Close
  BY <1>5 DEF Close, StopLoop, NodeClosesOne, CloseHeartbeat, CloseUpdates, CloseReturns
<1>6. CASE MapRace \/ UNCHANGED vars
  BY <1>6 DEF MapRace, vars
<1> QED
  BY <1>1, <1>2, <1>3, <1>4, <1>5, <1>6 DEF Next

\* The readLoop of the node takes the game and runs Close().
LEMMA NodeWriters ==
  ASSUME [Next]_vars
  PROVE  \/ UNCHANGED node
         \/ SendGame \/ StopMonitor \/ StopLoop \/ CloseUpdates \/ CloseReturns
         \/ \E c \in Conn : NodeClosesOne(c)
<1>1. CASE Environment
  BY <1>1 DEF Environment, Accept, Withdrawn, Offer, ReadMessage
<1>2. CASE \E c \in Conn : GatherHandler(c) \/ ReportPanics(c)
  BY <1>2 DEF GatherHandler, CreateHeartbeat, StoreStream, StoreHeartbeat, HandlerSends,
     ReportPanics
<1>3. CASE monitorLoop
  BY <1>3 DEF monitorLoop, MonitorReceives, Connect, MonitorSends, Ask, Disconnect,
     DisconnectHeartbeat, CloseHeartbeat, DeleteConn
<1>4. CASE meshUpdateLoop
  BY <1>4 DEF meshUpdateLoop, Update, Announce, StartClosing, CloseOne, CloseHeartbeat,
     ForgetHeartbeats, ClearStreams
<1>5. CASE Close
  BY <1>5 DEF Close
<1>6. CASE MapRace \/ UNCHANGED vars
  BY <1>6 DEF MapRace, vars
<1> QED
  BY <1>1, <1>2, <1>3, <1>4, <1>5, <1>6 DEF Next

\* The monitor alone connects and disconnects the game.
LEMMA GameWriters ==
  ASSUME [Next]_vars
  PROVE  UNCHANGED game \/ Connect \/ \E c \in Conn : MonitorReceives(c)
<1>1. CASE Environment
  BY <1>1 DEF Environment, Accept, Withdrawn, Offer, ReadMessage
<1>2. CASE \E c \in Conn : GatherHandler(c) \/ ReportPanics(c)
  BY <1>2 DEF GatherHandler, CreateHeartbeat, StoreStream, StoreHeartbeat, HandlerSends,
     ReportPanics
<1>3. CASE monitorLoop
  BY <1>3 DEF monitorLoop, MonitorSends, Ask, Disconnect, DisconnectHeartbeat, DeleteConn
<1>4. CASE meshUpdateLoop
  BY <1>4 DEF meshUpdateLoop, Update, Announce, StartClosing, CloseOne, ForgetHeartbeats,
     ClearStreams, SendGame
<1>5. CASE Close
  BY <1>5 DEF Close, StopMonitor, StopLoop, NodeClosesOne, CloseUpdates, CloseReturns
<1>6. CASE MapRace \/ UNCHANGED vars
  BY <1>6 DEF MapRace, vars
<1> QED
  BY <1>1, <1>2, <1>3, <1>4, <1>5, <1>6 DEF Next

\* The steps of the monitor, between two visits to its select, are about one
\* peer.
LEMMA MonitorPeer ==
  ASSUME TypeOK, [Next]_vars
  PROVE  \/ UNCHANGED monitor
         \/ monitor.pc = "select"
         \/ monitor'.peer = monitor.peer /\
            (\/ monitor.pc = "connect" /\ monitor'.pc \in {"sendAdd", "select"} /\ Connect
             \/ monitor.pc = "sendAdd" /\ monitor'.pc = "ask" /\ MonitorSends
             \/ monitor.pc = "sendRemove" /\ monitor'.pc = "disconnect" /\ MonitorSends
             \/ monitor.pc = "sendRemovePeer" /\ monitor'.pc = "select" /\ MonitorSends
             \/ monitor.pc = "ask" /\ monitor'.pc = "select" /\ Ask
             \/ monitor.pc = "disconnect" /\ monitor'.pc \in {"select", "closeHb"} /\ Disconnect
             \/ monitor.pc = "closeHb" /\ monitor'.pc = "deleteConn" /\ DisconnectHeartbeat
             \/ monitor.pc = "deleteConn" /\ monitor'.pc = "sendRemovePeer" /\ DeleteConn)
<1>1. ASSUME NEW c \in Conn, MonitorReceives(c) PROVE monitor.pc = "select"
  BY <1>1 DEF MonitorReceives
<1>2. ASSUME StopMonitor PROVE monitor.pc = "select"
  BY <1>2 DEF StopMonitor
<1>3. ASSUME NEW pc, MonitorAt(pc) PROVE monitor'.pc = pc /\ monitor'.peer = monitor.peer
  BY <1>3 DEF MonitorAt, TypeOK, MonitorOK
<1>4. ASSUME Connect
      PROVE  monitor.pc = "connect" /\ monitor'.peer = monitor.peer
               /\ monitor'.pc \in {"sendAdd", "select"}
  BY <1>3, <1>4 DEF Connect
<1>5. ASSUME MonitorSends
      PROVE  /\ monitor'.peer = monitor.peer
             /\ \/ monitor.pc = "sendAdd" /\ monitor'.pc = "ask"
                \/ monitor.pc = "sendRemove" /\ monitor'.pc = "disconnect"
                \/ monitor.pc = "sendRemovePeer" /\ monitor'.pc = "select"
  BY <1>3, <1>5 DEF MonitorSends
<1>6. ASSUME Ask
      PROVE  \/ UNCHANGED monitor
             \/ monitor.pc = "ask" /\ monitor'.pc = "select" /\ monitor'.peer = monitor.peer
  BY <1>3, <1>6 DEF Ask
<1>7. ASSUME Disconnect
      PROVE  /\ monitor.pc = "disconnect" /\ monitor'.peer = monitor.peer
             /\ monitor'.pc \in {"select", "closeHb"}
  BY <1>3, <1>7 DEF Disconnect
<1>8. ASSUME DisconnectHeartbeat
      PROVE  \/ UNCHANGED monitor
             \/ monitor.pc = "closeHb" /\ monitor'.pc = "deleteConn" /\ monitor'.peer = monitor.peer
  BY <1>3, <1>8 DEF DisconnectHeartbeat, CloseHeartbeat
<1>9. ASSUME DeleteConn
      PROVE  /\ monitor.pc = "deleteConn" /\ monitor'.pc = "sendRemovePeer"
             /\ monitor'.peer = monitor.peer
  BY <1>3, <1>9 DEF DeleteConn
<1> QED
  BY <1>1, <1>2, <1>4, <1>5, <1>6, <1>7, <1>8, <1>9, MonitorWriters

-----------------------------------------------------------------------------
\* The handler has not yet come to its heartbeat.
Waiting(c) == handler[c].pc \in {"idle", "accepted"}

\* The handler has stored its stream, or found the gathering done.
Stored(c) == handler[c].pc \notin {"idle", "accepted", "created"}

\* The handler has stored its heartbeat too.
Reading(c) == handler[c].pc \in {"reading", "sending", "ended"}

\* A handler never goes back.
Advances(c) == /\ Waiting(c)' => Waiting(c)
               /\ Stored(c) => Stored(c)'
               /\ Reading(c) => Reading(c)'

\* There is no heartbeat before NewHeartbeat is called.
HeartbeatAbsent == \A c \in Conn : Waiting(c) => hb[c].phase = "absent"

\* gs.streams and gs.conns hold what the peer itself opened.
MapsOwn ==
  \A p \in Seeker : /\ streams[p] # None => streams[p][1] = p /\ Stored(streams[p])
                    /\ conns[p] # None => conns[p][1] = p

\* Once a stream is written to it is not written to again: the loop is past
\* Announce, and when it comes back the stream is not in gs.streams.
Announced(c) ==
  Stored(c) /\ (loop.pc \in {"closeHbs", "closing", "clear"} \/ streams[c[1]] # c)

\* ToldOnce, made inductive.
ToldInv == \A c \in Conn : told[c] \in {0, 1} /\ (told[c] > 0 => Announced(c))

\* Every step leaves each handler where it is or moves it on.
LEMMA HandlerStep ==
  ASSUME TypeOK, [Next]_vars, NEW c \in Conn
  PROVE  Advances(c)
<1>1. CASE UNCHANGED handler
  BY <1>1 DEF Advances, Stored, Waiting, Reading
<1>2. ASSUME NEW d \in Conn,
             \/ Accept(d) \/ CreateHeartbeat(d) \/ StoreStream(d)
             \/ StoreHeartbeat(d) \/ HandlerSends(d) \/ Withdrawn(d)
      PROVE  Advances(c)
  <2>1. \E pc \in {"ended", "accepted", "created", "stored", "reading"} :
          /\ HandlerAt(d, pc)
          /\ pc = "accepted" => handler[d].pc = "idle"
          /\ pc = "created" => handler[d].pc = "accepted"
          /\ pc = "stored" => handler[d].pc = "created"
    BY <1>2 DEF Accept, CreateHeartbeat, StoreStream, StoreHeartbeat, HandlerSends, Withdrawn
  <2> QED
    BY <2>1 DEF HandlerAt, Advances, Stored, Waiting, Reading, TypeOK, HandlerOK
<1>3. ASSUME NEW d \in Conn, NEW p \in Seeker, NEW s \in {alive, dead}, ReadMessage(d, p, s)
      PROVE  Advances(c)
  BY <1>3 DEF ReadMessage, Advances, Stored, Waiting, Reading, TypeOK, HandlerOK
<1> QED
  BY <1>1, <1>2, <1>3, HandlerWriters

\* What a heartbeat does in any step of the facilitator.
LEMMA HeartbeatStep ==
  ASSUME TypeOK, HeartbeatAbsent, [Next]_vars, NEW c \in Conn
  PROVE  \/ UNCHANGED hb[c]
         \/ /\ hb[c].phase = "absent" /\ hb'[c] = [hb[c] EXCEPT !.phase = "idle"]
            /\ handler'[c].pc = "created"
         \/ \E s \in {alive, dead} : /\ hb[c].phase = "idle" /\ hb[c].status # s
                                     /\ hb'[c] = [status |-> s, phase |-> "sending"]
         \/ hb[c].phase = "sending" /\ hb'[c] = [hb[c] EXCEPT !.phase = "idle"]
         \/ hb[c].phase = "idle" /\ hb'[c] = [hb[c] EXCEPT !.phase = "closed"]
<1> DEFINE Same(d)  == \A e \in Conn : e # d => UNCHANGED hb[e]
           Closes(d) == \/ UNCHANGED hb
                        \/ /\ hb[d].phase = "idle" /\ hb' = [hb EXCEPT ![d].phase = "closed"]
<1>1. ASSUME NEW d, CloseOne(d) \/ NodeClosesOne(d) PROVE Closes(d)
  BY <1>1 DEF CloseOne, NodeClosesOne, CloseHeartbeat
<1>2. ASSUME DisconnectHeartbeat PROVE Closes(conns[monitor.peer])
  BY <1>2 DEF DisconnectHeartbeat, CloseHeartbeat
<1>3. ASSUME NEW d, Closes(d)
      PROVE  \/ UNCHANGED hb[c]
             \/ hb[c].phase = "idle" /\ hb'[c] = [hb[c] EXCEPT !.phase = "closed"]
  BY <1>3 DEF TypeOK, HeartbeatsOK
<1> HIDE DEF Closes
<1>4. ASSUME NEW d \in Conn, CreateHeartbeat(d)
      PROVE  \/ UNCHANGED hb[c]
             \/ /\ hb[c].phase = "absent" /\ hb'[c] = [hb[c] EXCEPT !.phase = "idle"]
                /\ handler'[c].pc = "created"
  <2>1. hb[d].phase = "absent" /\ handler'[d].pc = "created"
    BY <1>4 DEF CreateHeartbeat, HandlerAt, HeartbeatAbsent, Waiting, TypeOK, HandlerOK
  <2>2. hb' = [hb EXCEPT ![d].phase = "idle"]
    BY <1>4 DEF CreateHeartbeat
  <2> QED
    BY <2>1, <2>2 DEF Waiting, TypeOK, HeartbeatsOK
<1>5. ASSUME NEW d \in Conn, NEW s \in {alive, dead}, Offer(d, s)
      PROVE  \/ UNCHANGED hb[c]
             \/ /\ hb[c].phase = "idle" /\ hb[c].status # s
                /\ hb'[c] = [status |-> s, phase |-> "sending"]
  BY <1>5 DEF Offer, TypeOK, HeartbeatsOK
<1>6. ASSUME NEW d \in Conn, MonitorReceives(d)
      PROVE  \/ UNCHANGED hb[c]
             \/ hb[c].phase = "sending" /\ hb'[c] = [hb[c] EXCEPT !.phase = "idle"]
  BY <1>6 DEF MonitorReceives, TypeOK, HeartbeatsOK
<1> QED
  BY <1>1, <1>2, <1>3, <1>4, <1>5, <1>6, HeartbeatWriters

\* No step creates a heartbeat but CreateHeartbeat.
LEMMA AbsentStep == TypeOK /\ HeartbeatAbsent /\ [Next]_vars => HeartbeatAbsent'
<1> SUFFICES ASSUME TypeOK, HeartbeatAbsent, [Next]_vars, NEW c \in Conn, Waiting(c)'
             PROVE  hb'[c].phase = "absent"
  BY DEF HeartbeatAbsent, Waiting
<1>1. hb[c].phase = "absent"
  BY HandlerStep DEF Advances, HeartbeatAbsent
<1> QED
  BY <1>1, HeartbeatStep DEF Waiting

-----------------------------------------------------------------------------
\* No goroutine stores in the maps what another peer opened.
LEMMA MapsStep == TypeOK /\ MapsOwn /\ [Next]_vars => MapsOwn'
<1> SUFFICES ASSUME TypeOK, MapsOwn, [Next]_vars, NEW p \in Seeker
             PROVE  /\ streams'[p] # None => streams'[p][1] = p /\ Stored(streams[p])'
                    /\ conns'[p] # None => conns'[p][1] = p
  BY DEF MapsOwn, Stored
<1>1. \A c \in Conn : Stored(c) => Stored(c)'
  BY HandlerStep DEF Advances
<1>2. streams[p] \in Conn \cup {None} /\ conns[p] \in Conn \cup {None}
  BY DEF TypeOK, MapOK
<1>3. streams'[p] \in {streams[p], None} =>
        (streams'[p] # None => streams'[p][1] = p /\ Stored(streams[p])')
  BY <1>1, <1>2 DEF MapsOwn, Stored
<1>4. conns'[p] \in {conns[p], None} => (conns'[p] # None => conns'[p][1] = p)
  BY DEF MapsOwn
<1>5. streams'[p] # None => streams'[p][1] = p /\ Stored(streams[p])'
  <2>1. ASSUME NEW c \in Conn, StoreStream(c)
        PROVE  streams'[p] # None => streams'[p][1] = p /\ Stored(streams[p])'
    <3>1. handler'[c].pc = "stored" /\ streams' = [streams EXCEPT ![c[1]] = c]
      BY <2>1 DEF StoreStream, HandlerAt, TypeOK, HandlerOK
    <3>2. CASE p = c[1]
      BY <3>1, <3>2 DEF TypeOK, MapOK, Stored
    <3>3. CASE p # c[1]
      BY <1>3, <3>1, <3>3 DEF TypeOK, MapOK
    <3> QED
      BY <3>2, <3>3
  <2>2. ASSUME Disconnect \/ ClearStreams \/ UNCHANGED streams
        PROVE  streams'[p] \in {streams[p], None}
    BY <2>2 DEF Disconnect, ClearStreams, TypeOK, MapOK
  <2> QED
    BY <1>3, <2>1, <2>2, StreamWriters
<1>6. conns'[p] # None => conns'[p][1] = p
  <2>1. ASSUME NEW c \in Conn, StoreHeartbeat(c)
        PROVE  conns'[p] # None => conns'[p][1] = p
    BY <1>4, <2>1 DEF StoreHeartbeat, TypeOK, MapOK
  <2>2. ASSUME DeleteConn \/ ForgetHeartbeats \/ CloseUpdates \/ UNCHANGED conns
        PROVE  conns'[p] \in {conns[p], None}
    BY <2>2 DEF DeleteConn, ForgetHeartbeats, CloseUpdates, TypeOK, MapOK
  <2> QED
    BY <1>4, <2>1, <2>2, ConnWriters
<1> QED
  BY <1>5, <1>6

\* Announce writes to streams that were not written to before, and no step
\* brings a stream that was written to back into gs.streams.
LEMMA ToldStep == TypeOK /\ MapsOwn /\ ToldInv /\ [Next]_vars => ToldInv'
<1> SUFFICES ASSUME TypeOK, MapsOwn, ToldInv, [Next]_vars, NEW c \in Conn
             PROVE  told'[c] \in {0, 1} /\ (told'[c] > 0 => Announced(c)')
  BY DEF ToldInv
<1>1. /\ told[c] \in {0, 1} /\ (told[c] > 0 => Announced(c))
      /\ (Stored(c) => Stored(c)') /\ c[1] \in Seeker
  BY HandlerStep, ConnType DEF ToldInv, Advances
<1>2. CASE Announce
  <2>1. /\ loop.pc = "announce" /\ loop'.pc = "closeHbs" /\ UNCHANGED <<streams, handler>>
        /\ told'[c] = IF c \in Registered(streams) THEN told[c] + 1 ELSE told[c]
    BY <1>2 DEF Announce, LoopAt, TypeOK, LoopOK
  <2>2. CASE c \in Registered(streams)
    <3>1. streams[c[1]] = c /\ Stored(c)
      BY <2>2, ConnType DEF Registered, MapsOwn
    <3>2. told[c] = 0
      BY <1>1, <2>1, <3>1 DEF Announced
    <3> QED
      BY <1>1, <2>1, <2>2, <3>1, <3>2 DEF Announced
  <2>3. CASE c \notin Registered(streams)
    BY <1>1, <2>1, <2>3 DEF Announced
  <2> QED
    BY <2>2, <2>3
<1>3. CASE ~Announce
  <2>1. told'[c] = told[c]
    BY <1>3, AnnouncementWriters
  <2> SUFFICES ASSUME Announced(c) PROVE Announced(c)'
    BY <1>1, <2>1
  <2>2. CASE streams[c[1]] # c
    <3>1. streams'[c[1]] # c
      <4>1. ASSUME NEW d \in Conn, StoreStream(d)
            PROVE  streams'[c[1]] # c
        <5>1. d # c /\ streams' = [streams EXCEPT ![d[1]] = d]
          BY <4>1 DEF StoreStream, Announced, Stored
        <5> QED
          BY <1>1, <2>2, <5>1 DEF TypeOK, MapOK
      <4>2. ASSUME Disconnect \/ ClearStreams \/ UNCHANGED streams
            PROVE  streams'[c[1]] \in {streams[c[1]], None}
        BY <1>1, <4>2 DEF Disconnect, ClearStreams, TypeOK, MapOK
      <4>3. c # None
        BY NoneAssumption, ConnType DEF Conn
      <4> QED
        BY <2>2, <4>1, <4>2, <4>3, StreamWriters
    <3> QED
      BY <1>1, <3>1 DEF Announced
  <2>3. CASE loop.pc \in {"closeHbs", "closing", "clear"} /\ ClearStreams
    <3>1. streams'[c[1]] = None
      BY <1>1, <2>3 DEF ClearStreams
    <3>2. c # None
      BY NoneAssumption, ConnType DEF Conn
    <3> QED
      BY <1>1, <3>1, <3>2 DEF Announced
  <2>4. CASE loop.pc \in {"closeHbs", "closing", "clear"} /\ ~ClearStreams
    <3>1. loop'.pc \in {"closeHbs", "closing", "clear"}
      <4>1. ASSUME NEW d \in Conn, HandlerSends(d) \/ CloseOne(d)
            PROVE  loop'.pc \in {"closeHbs", "closing", "clear"}
        BY <2>4, <4>1 DEF HandlerSends, CloseOne, CloseHeartbeat, TypeOK, LoopOK
      <4>2. ASSUME MonitorSends \/ Update \/ SendGame \/ StopLoop
            PROVE  FALSE
        BY <2>4, <4>2 DEF MonitorSends, Update, SendGame, StopLoop
      <4>3. ASSUME StartClosing \/ ForgetHeartbeats
            PROVE  loop'.pc \in {"closeHbs", "closing", "clear"}
        BY <2>4, <4>3 DEF StartClosing, ForgetHeartbeats, LoopAt, TypeOK, LoopOK
      <4> QED
        BY <1>3, <2>4, <4>1, <4>2, <4>3, LoopWriters
    <3> QED
      BY <1>1, <3>1 DEF Announced
  <2> QED
    BY <2>2, <2>3, <2>4 DEF Announced
<1> QED
  BY <1>2, <1>3

\* At first the maps are empty and nobody was told anything.
LEMMA ToldInit == Init => MapsOwn /\ ToldInv
BY DEF Init, MapsOwn, ToldInv

\* GatheringFinished is written at most once to each stream, however many
\* cliques the loop finds.
THEOREM GatherToldOnce == SafetySpec => []ToldOnce
<1>1. SafetySpec => [](MapsOwn /\ ToldInv)
  BY ToldInit, MapsStep, ToldStep, GatherType, PTL DEF SafetySpec
<1>2. ToldInv => ToldOnce
  BY DEF ToldInv, ToldOnce
<1> QED
  BY <1>1, <1>2, PTL

-----------------------------------------------------------------------------
\* What EdgesReported says an edge rests on.
Backed(p, q) ==
  \/ \E c \in Conn : (c[1] = p /\ view[c][q] = alive) \/ (c[1] = q /\ view[c][p] = alive)
  \/ RemovalPending(p, q) \/ RemovalPending(q, p)

\* What a handler sends is what its seeker last said.
HandlersReport ==
  \A c \in Conn : handler[c].pc = "sending" =>
    /\ handler[c].mod.from = c[1] /\ handler[c].mod.to \in Seeker
    /\ handler[c].mod.op \in {"addDoubleEdge", "removeDoubleEdge"}
    /\ handler[c].mod.op = "addDoubleEdge" => view[c][handler[c].mod.to] = alive

\* An edge between seekers that the loop is about to add is already backed.
LoopReports ==
  loop.pc = "apply" /\ loop.mod.from \in Seeker /\ loop.mod.op = "addDoubleEdge" =>
    loop.mod.to \in Seeker /\ Backed(loop.mod.from, loop.mod.to)

\* EdgesReported, made inductive.
EdgeInv == HandlersReport /\ LoopReports /\ EdgesReported

\* EdgesReported, abbreviated
LEMMA EdgesBacked ==
  EdgesReported <=> \A p, q \in Seeker : q \in Neighbours(mesh, p) => Backed(p, q)
BY DEF EdgesReported, Backed

\* The same of the state after a step
LEMMA EdgesBackedPrimed ==
  EdgesReported' <=> \A p, q \in Seeker : q \in Neighbours(mesh, p)' => Backed(p, q)'
BY DEF EdgesReported, Backed

\* Steps that take back no report and no pending removal leave edges backed.
LEMMA BackedFrame ==
  ASSUME \A c \in Conn, q \in Seeker : view[c][q] = alive => view'[c][q] = alive,
         \A c \in Conn : handler[c].pc = "sending" => UNCHANGED handler[c],
         loop.pc = "apply" => UNCHANGED loop,
         NEW p \in Seeker, NEW q \in Seeker, Backed(p, q)
  PROVE  Backed(p, q)'
<1>1. RemovalPending(p, q) => RemovalPending(p, q)'
  BY DEF RemovalPending
<1>2. RemovalPending(q, p) => RemovalPending(q, p)'
  BY DEF RemovalPending
<1>3. ASSUME NEW c \in Conn, (c[1] = p /\ view[c][q] = alive) \/ (c[1] = q /\ view[c][p] = alive)
      PROVE  Backed(p, q)'
  BY <1>3 DEF Backed
<1> QED
  BY <1>1, <1>2, <1>3 DEF Backed

\* A seeker that takes its word back makes a removal pending in that step.
LEMMA EdgeReadMessage ==
  ASSUME TypeOK, EdgeInv, NEW c \in Conn, NEW p \in Seeker, NEW s \in {alive, dead},
         ReadMessage(c, p, s)
  PROVE  EdgeInv'
<1> DEFINE op == IF s = alive THEN "addDoubleEdge" ELSE "removeDoubleEdge"
<1>1. /\ handler[c].pc = "reading"
      /\ handler'[c] = [pc |-> "sending", mod |-> Mod(op, c[1], p)]
      /\ \A d \in Conn : d # c => UNCHANGED handler[d]
      /\ view'[c][p] = s
      /\ \A d \in Conn, q \in Seeker : d # c \/ q # p => view'[d][q] = view[d][q]
      /\ UNCHANGED <<mesh, loop>>
  BY DEF ReadMessage, TypeOK, HandlerOK
<1>2. c[1] \in Seeker
  BY ConnType
<1>3. /\ Mod(op, c[1], p).op = op /\ Mod(op, c[1], p).from = c[1] /\ Mod(op, c[1], p).to = p
      /\ op \in {"addDoubleEdge", "removeDoubleEdge"}
      /\ op = "addDoubleEdge" <=> s = alive
  BY DEF Mod
<1>4. s = dead => RemovalPending(c[1], p)'
  <2>1. s = dead => op = "removeDoubleEdge"
    BY StatusAssumption
  <2> QED
    BY <1>1, <2>1 DEF RemovalPending
<1> HIDE DEF op
<1>5. ASSUME NEW x \in Seeker, NEW y \in Seeker, Backed(x, y)
      PROVE  Backed(x, y)'
  <2>1. RemovalPending(x, y) => RemovalPending(x, y)'
    BY <1>1 DEF RemovalPending
  <2>2. RemovalPending(y, x) => RemovalPending(y, x)'
    BY <1>1 DEF RemovalPending
  <2>3. ASSUME NEW d \in Conn, NEW e \in Seeker, view[d][e] = alive
        PROVE  view'[d][e] = alive \/ (d = c /\ e = p /\ s = dead)
    BY <1>1, <2>3
  <2>4. ASSUME NEW d \in Conn, d[1] = x, view[d][y] = alive
        PROVE  Backed(x, y)'
    BY <1>4, <2>3, <2>4 DEF Backed
  <2>5. ASSUME NEW d \in Conn, d[1] = y, view[d][x] = alive
        PROVE  Backed(x, y)'
    BY <1>4, <2>3, <2>5 DEF Backed
  <2> QED
    BY <1>5, <2>1, <2>2, <2>4, <2>5 DEF Backed
<1>6. HandlersReport'
  <2> SUFFICES ASSUME NEW d \in Conn, handler'[d].pc = "sending"
               PROVE  /\ handler'[d].mod.from = d[1] /\ handler'[d].mod.to \in Seeker
                      /\ handler'[d].mod.op \in {"addDoubleEdge", "removeDoubleEdge"}
                      /\ handler'[d].mod.op = "addDoubleEdge" =>
                           view'[d][handler'[d].mod.to] = alive
    BY DEF HandlersReport
  <2>1. CASE d = c
    BY <1>1, <1>3, <2>1
  <2>2. CASE d # c
    BY <1>1, <2>2 DEF EdgeInv, HandlersReport
  <2> QED
    BY <2>1, <2>2
<1>7. LoopReports'
  BY <1>1, <1>5 DEF EdgeInv, LoopReports
<1>8. EdgesReported'
  BY <1>1, <1>5, EdgesBacked, EdgesBackedPrimed DEF EdgeInv, Neighbours
<1> QED
  BY <1>6, <1>7, <1>8 DEF EdgeInv

\* Steps that touch no report, no modification and no edge.
LEMMA EdgeFrame ==
  ASSUME EdgeInv, UNCHANGED mesh,
         \A c \in Conn, q \in Seeker : view[c][q] = alive => view'[c][q] = alive,
         \A c \in Conn : handler[c].pc = "sending" \/ handler'[c].pc = "sending" =>
                           UNCHANGED handler[c],
         loop.pc = "apply" => UNCHANGED loop,
         LoopReports'
  PROVE  EdgeInv'
<1>1. \A p, q \in Seeker : Backed(p, q) => Backed(p, q)'
  BY BackedFrame
<1>2. EdgesReported'
  BY <1>1, EdgesBacked, EdgesBackedPrimed DEF EdgeInv, Neighbours
<1>3. HandlersReport'
  BY DEF EdgeInv, HandlersReport
<1> QED
  BY <1>2, <1>3 DEF EdgeInv

\* A removal sent to the loop is still pending there.
LEMMA EdgeHandlerSends ==
  ASSUME TypeOK, EdgeInv, NEW c \in Conn, HandlerSends(c)
  PROVE  EdgeInv'
<1>1. /\ handler[c].pc = "sending" /\ handler'[c].pc = "reading"
      /\ \A d \in Conn : d # c => UNCHANGED handler[d]
      /\ loop.pc = "select" /\ loop'.pc = "apply" /\ loop'.mod = handler[c].mod
      /\ UNCHANGED <<mesh, view>>
  BY DEF HandlerSends, HandlerAt, TypeOK, HandlerOK, LoopOK
<1>2. ASSUME NEW x \in Seeker, NEW y \in Seeker, Backed(x, y)
      PROVE  Backed(x, y)'
  <2>1. RemovalPending(x, y) => RemovalPending(x, y)'
    BY <1>1 DEF RemovalPending
  <2>2. RemovalPending(y, x) => RemovalPending(y, x)'
    BY <1>1 DEF RemovalPending
  <2> QED
    BY <1>1, <1>2, <2>1, <2>2 DEF Backed
<1>3. HandlersReport'
  BY <1>1 DEF EdgeInv, HandlersReport
<1>4. LoopReports'
  <2> SUFFICES ASSUME loop'.mod.op = "addDoubleEdge"
               PROVE  loop'.mod.to \in Seeker /\ Backed(loop.mod.from, loop.mod.to)'
    BY <1>1 DEF LoopReports
  <2>1. /\ loop'.mod.from = c[1] /\ loop'.mod.to \in Seeker
        /\ view'[c][loop'.mod.to] = alive
    BY <1>1 DEF EdgeInv, HandlersReport
  <2> QED
    BY <2>1 DEF Backed
<1>5. EdgesReported'
  BY <1>1, <1>2, EdgesBacked, EdgesBackedPrimed DEF EdgeInv, Neighbours
<1> QED
  BY <1>3, <1>4, <1>5 DEF EdgeInv

\* The monitor adds no edge between seekers.
LEMMA EdgeMonitorSends ==
  ASSUME TypeOK, EdgeInv, MonitorSends
  PROVE  EdgeInv'
<1>1. /\ loop.pc = "select" /\ loop'.mod = MonitorMod
      /\ monitor.pc \in {"sendAdd", "sendRemove", "sendRemovePeer"}
      /\ UNCHANGED <<mesh, view, handler>>
  BY DEF MonitorSends, TypeOK, LoopOK
<1>2. ~(MonitorMod.from \in Seeker /\ MonitorMod.op = "addDoubleEdge")
  BY <1>1 DEF MonitorMod, Mod, Seeker
<1>3. LoopReports'
  BY <1>1, <1>2 DEF LoopReports
<1> QED
  BY <1>1, <1>3, EdgeFrame

\* The loop adds edges that are backed, and when it forgets a removal the edge
\* is gone.
LEMMA EdgeUpdate ==
  ASSUME TypeOK, MeshSymmetric, EdgeInv, Update
  PROVE  EdgeInv'
<1> DEFINE mod == loop.mod
<1>1. /\ UNCHANGED <<handler, view>>
      /\ loop.pc = "apply"
      /\ loop'.pc # "apply"
      /\ mesh' = Apply(mod, mesh)
  BY DEF Update, LoopAt, TypeOK, LoopOK
<1>2. /\ mesh \in Mesh /\ Symmetric(mesh)
      /\ mod.from \in Peer /\ mod.to \in Peer
      /\ mod.op \in {"addDoubleEdge", "removeDoubleEdge", "removePeer"}
  BY DEF TypeOK, LoopOK, peerMeshMod, MeshSymmetric
<1>3. HandlersReport' /\ LoopReports'
  BY <1>1 DEF EdgeInv, HandlersReport, LoopReports
<1>4. ASSUME NEW x \in Seeker, NEW y \in Seeker, Backed(x, y),
             mod # Mod("removeDoubleEdge", x, y), mod # Mod("removeDoubleEdge", y, x)
      PROVE  Backed(x, y)'
  <2>1. RemovalPending(x, y) => RemovalPending(x, y)'
    BY <1>1, <1>4 DEF RemovalPending
  <2>2. RemovalPending(y, x) => RemovalPending(y, x)'
    BY <1>1, <1>4 DEF RemovalPending
  <2> QED
    BY <1>1, <1>4, <2>1, <2>2 DEF Backed
<1>5. \A x, y : \/ mod.op # "removeDoubleEdge"
                \/ ~Ends(x, y, mod.from, mod.to)
                => mod # Mod("removeDoubleEdge", x, y) /\ mod # Mod("removeDoubleEdge", y, x)
  BY DEF Mod, Ends
<1>6. mod.op = "addDoubleEdge" /\ mod.from \in Seeker => Backed(mod.from, mod.to)
  BY <1>1 DEF EdgeInv, LoopReports
<1>7. \A x, y : Backed(x, y) <=> Backed(y, x)
  BY DEF Backed
<1> HIDE DEF mod
<1>8. EdgesReported'
  <2> SUFFICES ASSUME NEW p \in Seeker, NEW q \in Seeker, q \in Neighbours(mesh', p)
               PROVE  Backed(p, q)'
    BY EdgesBackedPrimed
  <2>1. q \in Neighbours(mesh, p) => Backed(p, q)
    BY EdgesBacked DEF EdgeInv
  <2>2. CASE mod.op = "addDoubleEdge"
    <3>1. q \in Neighbours(mesh, p) \/ Ends(p, q, mod.from, mod.to)
      BY <1>1, <1>2, <2>2, AddDoubleEdge DEF Apply
    <3>2. Backed(p, q)
      BY <1>6, <1>7, <2>1, <2>2, <3>1 DEF Ends
    <3> QED
      BY <1>4, <1>5, <2>2, <3>2
  <2>3. CASE mod.op = "removeDoubleEdge"
    <3>1. q \in Neighbours(mesh, p) /\ ~Ends(p, q, mod.from, mod.to)
      BY <1>1, <1>2, <2>3, RemoveDoubleEdge DEF Apply
    <3> QED
      BY <1>4, <1>5, <2>1, <3>1
  <2>4. CASE mod.op = "removePeer"
    <3>1. q \in Neighbours(mesh, p)
      BY <1>1, <1>2, <2>4, RemovePeer DEF Apply
    <3> QED
      BY <1>4, <1>5, <2>1, <2>4, <3>1
  <2> QED
    BY <1>2, <2>2, <2>3, <2>4
<1> QED
  BY <1>3, <1>8 DEF EdgeInv

\* Every step preserves EdgeInv.
LEMMA EdgeStep == TypeOK /\ MeshSymmetric /\ EdgeInv /\ [Next]_vars => EdgeInv'
<1> SUFFICES ASSUME TypeOK, MeshSymmetric, EdgeInv, [Next]_vars PROVE EdgeInv'
  OBVIOUS
<1>1. ASSUME NEW c \in Conn, NEW p \in Seeker, NEW s \in {alive, dead}, ReadMessage(c, p, s)
      PROVE  EdgeInv'
  BY <1>1, EdgeReadMessage
<1>2. ASSUME NEW c \in Conn, HandlerSends(c) PROVE EdgeInv'
  BY <1>2, EdgeHandlerSends
<1>3. CASE MonitorSends
  BY <1>3, EdgeMonitorSends
<1>4. CASE Update
  BY <1>4, EdgeUpdate
<1>5. CASE /\ ~MonitorSends /\ ~Update
           /\ \A c \in Conn : /\ ~HandlerSends(c)
                              /\ \A p \in Seeker, s \in {alive, dead} : ~ReadMessage(c, p, s)
  <2>1. UNCHANGED mesh
    BY <1>5, AnnouncementWriters
  <2>2. \A c \in Conn, q \in Seeker : view[c][q] = alive => view'[c][q] = alive
    <3>1. CASE Ask
      <4> USE StatusAssumption
      <4>1. PICK failed \in SUBSET Everybody :
              view' = [c \in Conn |->
                         IF /\ c[1] \in Everybody \ failed
                            /\ c = streams[c[1]]
                            /\ view[c][monitor.peer] = "unasked"
                         THEN [view[c] EXCEPT ![monitor.peer] = unknown]
                         ELSE view[c]]
        BY <3>1 DEF Ask
      <4> SUFFICES ASSUME NEW c \in Conn, NEW q \in Seeker, view[c][q] = alive
                   PROVE  view'[c][q] = alive
        OBVIOUS
      <4>2. CASE view'[c] = view[c]
        BY <4>2
      <4>3. CASE /\ view[c][monitor.peer] = "unasked"
                 /\ view'[c] = [view[c] EXCEPT ![monitor.peer] = unknown]
        <5>1. q # monitor.peer
          BY <4>3
        <5> QED
          BY <4>3, <5>1 DEF TypeOK
      <4> QED
        BY <4>1, <4>2, <4>3
    <3>2. CASE UNCHANGED view
      BY <3>2
    <3> QED
      BY <1>5, <3>1, <3>2, ViewWriters
  <2>3. \A c \in Conn : handler[c].pc = "sending" \/ handler'[c].pc = "sending" =>
                         UNCHANGED handler[c]
    <3> SUFFICES ASSUME NEW c \in Conn, handler[c].pc = "sending" \/ handler'[c].pc = "sending"
                 PROVE  UNCHANGED handler[c]
      OBVIOUS
    <3>1. ASSUME NEW d \in Conn, Accept(d) \/ CreateHeartbeat(d) \/ StoreStream(d)
                                 \/ StoreHeartbeat(d) \/ Withdrawn(d)
          PROVE  UNCHANGED handler[c]
      <4>1. /\ handler[d].pc # "sending"
            /\ \E pc : pc # "sending" /\ HandlerAt(d, pc)
        BY <3>1 DEF Accept, CreateHeartbeat, StoreStream, StoreHeartbeat, Withdrawn
      <4> QED
        BY <4>1 DEF HandlerAt, TypeOK, HandlerOK
    <3> QED
      BY <1>5, <3>1, HandlerWriters
  <2>4. loop.pc = "apply" \/ loop'.pc = "apply" => UNCHANGED loop
    <3>1. ASSUME NEW c \in Conn, CloseOne(c)
          PROVE  loop.pc # "apply" /\ loop'.pc # "apply"
      <4>1. loop' = [loop EXCEPT !.closing = @ \ {c}] \/ loop' = loop
        BY <3>1 DEF CloseOne, CloseHeartbeat
      <4> QED
        BY <3>1, <4>1 DEF CloseOne, TypeOK, LoopOK
    <3>2. CASE Announce \/ StartClosing \/ ForgetHeartbeats \/ ClearStreams \/ SendGame \/ StopLoop
      BY <3>2 DEF Announce, StartClosing, ForgetHeartbeats, ClearStreams, SendGame, StopLoop,
         LoopAt, TypeOK, LoopOK
    <3> QED
      BY <1>5, <3>1, <3>2, LoopWriters
  <2>5. \A p, q \in Seeker : Backed(p, q) => Backed(p, q)'
    BY <2>2, <2>3, <2>4, BackedFrame
  <2>6. LoopReports'
    BY <2>4, <2>5 DEF EdgeInv, LoopReports
  <2> QED
    BY <2>1, <2>2, <2>3, <2>4, <2>6, EdgeFrame
<1> QED
  BY <1>1, <1>2, <1>3, <1>4, <1>5

\* At first there is no edge.
LEMMA EdgeInit == Init => EdgeInv
BY DEF Init, EmptyMesh, EdgeInv, HandlersReport, LoopReports, EdgesReported, Neighbours

\* Handlers may be interleaved in any way between reading a message and sending
\* it to the loop: no edge is left in the mesh that both its ends took back.
THEOREM GatherEdgesReported == SafetySpec => []EdgesReported
<1>1. EdgeInv => EdgesReported
  BY DEF EdgeInv
<1> QED
  BY <1>1, EdgeInit, EdgeStep, GatherType, GatherSymmetric, PTL DEF SafetySpec

-----------------------------------------------------------------------------
\* Where the loop has found a clique and not yet handed it over
HandingOver == {"announce", "closeHbs", "closing", "clear", "sendGame"}

\* The loop comes there by finding a clique only.
LEMMA HandingOverEnters ==
  ASSUME TypeOK, [Next]_vars, ~Update, loop'.pc \in HandingOver
  PROVE  loop.pc \in HandingOver
<1>1. ASSUME NEW c \in Conn, HandlerSends(c) PROVE FALSE
  BY <1>1 DEF HandlerSends, TypeOK, LoopOK, HandingOver
<1>2. ASSUME NEW c \in Conn, CloseOne(c) PROVE loop.pc \in HandingOver
  BY <1>2 DEF CloseOne, HandingOver
<1>3. ~(MonitorSends \/ SendGame \/ StopLoop)
  BY DEF MonitorSends, SendGame, StopLoop, LoopAt, TypeOK, LoopOK, HandingOver
<1>4. ASSUME Announce \/ StartClosing \/ ForgetHeartbeats \/ ClearStreams
      PROVE  loop.pc \in HandingOver
  BY <1>4 DEF Announce, StartClosing, ForgetHeartbeats, ClearStreams, HandingOver
<1> QED
  BY <1>1, <1>2, <1>3, <1>4, LoopWriters

\* The members of a clique are neighbours of the facilitator, so in the game,
\* or the monitor is changing them: then it has one of them in hand.
LEMMA CliqueFound ==
  ASSUME TypeOK, TypeOK', GameInv', Update, loop'.pc = "announce"
  PROVE  clique' \ {Self} \subseteq game' \cup Leaving'
<1> SUFFICES ASSUME NEW p \in clique' \ {Self}, p \notin game'
             PROVE  p \in Leaving'
  OBVIOUS
<1>1. clique' \in FindCliqueResults(mesh', DesiredCount, Self) /\ loop.pc = "apply"
  BY DEF Update, LoopAt, TypeOK, LoopOK
<1>2. Self \in clique' /\ clique' \subseteq Peer /\ Complete(mesh', clique')
  BY <1>1, FindCliqueResultsSound, SelfAssumption, BoundsAssumption DEF TypeOK
<1>3. p \in Seeker /\ p \in Neighbours(mesh', Self)
  BY <1>2 DEF Complete, Seeker
<1>4. p \in Unsettled'
  BY <1>3 DEF GameInv, GameMatchesMesh, Neighbours
<1>5. monitor'.peer = p /\ monitor'.pc \in {"sendAdd", "sendRemove"}
  BY <1>4 DEF Unsettled, Changing
<1>6. monitor'.pc # "sendAdd"
  BY <1>5 DEF GameInv, MonitorKnows
<1> QED
  BY <1>5, <1>6 DEF Leaving

\* Until the game is handed over, the monitor can connect peers and take the
\* report that one has died, but not send what it then has to send: so the
\* game loses one member at most, and the monitor is left with it.
LEMMA CliqueInGameStep ==
  TypeOK /\ TypeOK' /\ GameInv' /\ CliqueInGame /\ [Next]_vars => CliqueInGame'
<1> SUFFICES ASSUME TypeOK, TypeOK', GameInv', CliqueInGame, [Next]_vars,
                    loop'.pc \in HandingOver
             PROVE  clique' \ {Self} \subseteq game' \cup Leaving'
  BY DEF CliqueInGame, HandingOver, Leaving
<1>1. CASE Update
  <2>1. loop'.pc = "announce"
    BY <1>1 DEF Update, LoopAt, TypeOK, LoopOK, HandingOver
  <2> QED
    BY <1>1, <2>1, CliqueFound
<1>2. CASE ~Update
  <2>1. loop.pc \in HandingOver /\ clique' = clique
    BY <1>2, HandingOverEnters, AnnouncementWriters
  <2>2. clique \ {Self} \subseteq game \cup Leaving /\ loop.pc # "select"
    BY <2>1 DEF CliqueInGame, HandingOver
  <2>3. ASSUME NEW c \in Conn, MonitorReceives(c)
        PROVE  game \cup Leaving \subseteq game' \cup Leaving'
    BY <2>3 DEF MonitorReceives, Leaving
  <2>4. ASSUME Connect PROVE game \cup Leaving \subseteq game' \cup Leaving'
    BY <2>4 DEF Connect, Leaving
  <2>5. ASSUME UNCHANGED game PROVE game \cup Leaving \subseteq game' \cup Leaving'
    <3>1. monitor.pc = "sendRemove" => UNCHANGED monitor
      BY <2>2, MonitorPeer DEF MonitorSends
    <3> QED
      BY <2>5, <3>1 DEF Leaving
  <2> QED
    BY <2>1, <2>2, <2>3, <2>4, <2>5, GameWriters
<1> QED
  BY <1>1, <1>2

\* Whoever is announced is in the game the node is handed, but for one peer at
\* most, of whose death the monitor has heard and the loop has not: for any
\* number of seekers, streams and faults.
THEOREM GatherCliqueInGame == SafetySpec => []CliqueInGame
<1>1. Init => GameInv /\ CliqueInGame
  BY GameInit DEF Init, CliqueInGame
<1> QED
  BY <1>1, GameStep, CliqueInGameStep, GatherType, GatherSymmetric, PTL DEF SafetySpec

-----------------------------------------------------------------------------
\* Until a clique is found the loop only takes and applies modifications, and
\* the node waits for a game.
Phases == ~done => loop.pc \in {"select", "apply"} /\ node.pc = "listening"

\* The first clique is not yet handed over, so gs.streams was never cleared.
Fresh == node.pc = "listening" /\ loop.pc # "sendGame"

\* A clique is found, and gs.done set, before the loop leaves the two states.
LEMMA PhasesStep == TypeOK /\ Phases /\ [Next]_vars => Phases'
<1> SUFFICES ASSUME TypeOK, Phases, [Next]_vars, ~done'
             PROVE  loop'.pc \in {"select", "apply"} /\ node'.pc = "listening"
  BY DEF Phases
<1>1. ~done
  BY AnnouncementWriters DEF Update
<1>2. loop.pc \in {"select", "apply"} /\ node.pc = "listening"
  BY <1>1 DEF Phases
<1>3. node' = node
  BY <1>2, NodeWriters DEF SendGame, StopMonitor, StopLoop, NodeClosesOne, CloseUpdates,
     CloseReturns
<1>4. loop'.pc \in {"select", "apply"}
  <2>1. ASSUME MonitorSends \/ \E c \in Conn : HandlerSends(c)
        PROVE  loop'.pc = "apply"
    BY <2>1 DEF MonitorSends, HandlerSends, TypeOK, LoopOK
  <2>2. ASSUME Update PROVE loop'.pc = "select"
    BY <2>2 DEF Update, LoopAt, TypeOK, LoopOK
  <2>3. ASSUME \/ Announce \/ StartClosing \/ ForgetHeartbeats \/ ClearStreams \/ SendGame
               \/ StopLoop \/ \E c \in Conn : CloseOne(c)
        PROVE  FALSE
    BY <1>2, <2>3 DEF Announce, StartClosing, ForgetHeartbeats, ClearStreams, SendGame, StopLoop,
       CloseOne
  <2> QED
    BY <1>2, <2>1, <2>2, <2>3, LoopWriters
<1> QED
  BY <1>2, <1>3, <1>4

\* What is not fresh does not become fresh again.
LEMMA FreshStep ==
  ASSUME TypeOK, [Next]_vars
  PROVE  /\ node'.pc = "listening" => node.pc = "listening"
         /\ Fresh' => Fresh /\ ~ClearStreams
<1>1. node'.pc = "listening" => UNCHANGED node
  <2>1. ASSUME NEW c \in Conn, NodeClosesOne(c) PROVE node'.pc = "closing"
    <3>1. node' = [node EXCEPT !.closing = @ \ {c}] \/ node' = node
      BY <2>1 DEF NodeClosesOne, CloseHeartbeat
    <3> QED
      BY <2>1, <3>1 DEF NodeClosesOne, TypeOK, NodeOK
  <2>2. ASSUME SendGame \/ StopMonitor \/ StopLoop \/ CloseUpdates \/ CloseReturns
        PROVE  node'.pc # "listening"
    BY <2>2 DEF SendGame, StopMonitor, StopLoop, CloseUpdates, CloseReturns, TypeOK, NodeOK
  <2> QED
    BY <2>1, <2>2, NodeWriters
<1>2. ClearStreams => loop'.pc = "sendGame"
  BY DEF ClearStreams, LoopAt, TypeOK, LoopOK
<1>3. ASSUME node'.pc = "listening", loop.pc = "sendGame" PROVE loop'.pc = "sendGame"
  <2>1. ~SendGame
    BY <1>3 DEF SendGame, TypeOK, NodeOK
  <2>2. UNCHANGED loop
    BY <1>3, <2>1, LoopWriters DEF HandlerSends, CloseOne, MonitorSends, Update, Announce,
       StartClosing, ForgetHeartbeats, ClearStreams, StopLoop
  <2> QED
    BY <1>3, <2>2
<1> QED
  BY <1>1, <1>2, <1>3 DEF Fresh

-----------------------------------------------------------------------------
\* Until a report is early, a heartbeat that reports has its handler past the
\* stores.
Reports == early \/ \A c \in Conn : hb[c].phase = "sending" => Reading(c)

\* From then on its handler may be about to store the stream.
Storing(p) == early /\ \E c \in Conn : c[1] = p /\ handler[c].pc = "created"

HasStream(p) == streams[p] # None \/ Storing(p)

\* A heartbeat still running has its stream in gs.streams, unless the monitor
\* has just deleted the stream and is about to close the heartbeat.
StreamsStand ==
  \A c \in Conn : Stored(c) /\ hb[c].phase \in {"idle", "sending"} =>
    streams[c[1]] # None \/ (monitor.pc = "closeHb" /\ monitor.peer = c[1])

\* A peer in the game has a stream to be told over, or is about to have one.
GameStands == \A p \in Seeker : p \in game => HasStream(p)

\* So has the peer the monitor connects, or is about to tell the loop of.
PeerStands == monitor.pc \in {"connect", "sendAdd", "sendRemove"} => HasStream(monitor.peer)

\* Streams outlive the game, until the first clique is handed over.
Stands == Fresh => StreamsStand /\ GameStands /\ PeerStands

\* That a report was early is not forgotten.
LEMMA EarlyStays ==
  ASSUME [Next]_vars, early
  PROVE  early'
<1>1. CASE Environment
  BY <1>1 DEF Environment, Accept, Withdrawn, Offer, ReadMessage
<1>2. CASE \E c \in Conn : GatherHandler(c) \/ ReportPanics(c)
  BY <1>2 DEF GatherHandler, CreateHeartbeat, StoreStream, StoreHeartbeat, HandlerSends,
     ReportPanics
<1>3. CASE monitorLoop
  BY <1>3 DEF monitorLoop, MonitorReceives, Connect, MonitorSends, Ask, Disconnect,
     DisconnectHeartbeat, DeleteConn
<1>4. CASE meshUpdateLoop
  BY <1>4 DEF meshUpdateLoop, Update, Announce, StartClosing, CloseOne, ForgetHeartbeats,
     ClearStreams, SendGame
<1>5. CASE Close
  BY <1>5 DEF Close, StopMonitor, StopLoop, NodeClosesOne, CloseUpdates, CloseReturns
<1>6. CASE MapRace \/ UNCHANGED vars
  BY <1>6 DEF MapRace, vars
<1> QED
  BY <1>1, <1>2, <1>3, <1>4, <1>5, <1>6 DEF Next

\* With no early reports, only a heartbeat whose handler reads can report.
LEMMA ReportsStep ==
  ASSUME TypeOK, HeartbeatAbsent, Reports, [Next]_vars
  PROVE  Reports'
<1> SUFFICES ASSUME ~early', NEW c \in Conn, hb'[c].phase = "sending" PROVE Reading(c)'
  BY DEF Reports, Reading
<1>0. ~early
  BY EarlyStays
<1>1. Reading(c) => Reading(c)'
  BY HandlerStep DEF Advances
<1>2. ASSUME NEW s \in {alive, dead}, Offer(c, s) PROVE Reading(c)
  <2>1. hb[c].phase = "idle" /\ handler[c].pc \notin {"created", "stored"}
    BY <1>2 DEF Offer, Early
  <2>2. ~Waiting(c)
    BY <2>1 DEF HeartbeatAbsent
  <2> QED
    BY <2>1, <2>2 DEF Waiting, Reading, TypeOK, HandlerOK
<1>3. ASSUME NEW d \in Conn, NEW s \in {alive, dead}, Offer(d, s), d # c PROVE hb'[c] = hb[c]
  BY <1>3 DEF Offer, TypeOK, HeartbeatsOK
<1>4. ASSUME NEW d \in Conn, CreateHeartbeat(d) \/ MonitorReceives(d)
      PROVE  hb'[c].phase \in {hb[c].phase, "idle"}
  BY <1>4 DEF CreateHeartbeat, MonitorReceives, TypeOK, HeartbeatsOK
<1>5. ASSUME NEW d, hb' = [hb EXCEPT ![d].phase = "closed"] \/ hb' = hb
      PROVE  hb'[c].phase \in {hb[c].phase, "closed"}
  BY <1>5 DEF TypeOK, HeartbeatsOK
<1>6. ASSUME DisconnectHeartbeat \/ \E d \in Conn : CloseOne(d) \/ NodeClosesOne(d)
      PROVE  \E d : hb' = [hb EXCEPT ![d].phase = "closed"] \/ hb' = hb
  BY <1>6 DEF DisconnectHeartbeat, CloseOne, NodeClosesOne, CloseHeartbeat
<1>7. Reading(c) \/ hb[c].phase = "sending"
  BY <1>2, <1>3, <1>4, <1>5, <1>6, HeartbeatWriters
<1> QED
  BY <1>0, <1>1, <1>7 DEF Reports

\* The one stream of a seeker
LEMMA OneStream ==
  ASSUME MaxStreams = 1, NEW c \in Conn, NEW d \in Conn, c[1] = d[1]
  PROVE  c = d
BY DEF Conn

\* A stream leaves gs.streams when the monitor deletes it or the loop clears
\* the map, and never otherwise.
LEMMA StreamListed ==
  ASSUME TypeOK, [Next]_vars, ~ClearStreams, NEW p \in Seeker, streams[p] # None,
         ~(Disconnect /\ monitor.peer = p)
  PROVE  streams'[p] # None
<1>1. ASSUME NEW c \in Conn, StoreStream(c) PROVE streams'[p] # None
  <2>1. c # None
    BY NoneAssumption DEF Conn, Seeker
  <2> QED
    BY <1>1, <2>1 DEF StoreStream, TypeOK, MapOK
<1>2. ASSUME Disconnect PROVE streams'[p] # None
  BY <1>2 DEF Disconnect, TypeOK, MapOK
<1> QED
  BY <1>1, <1>2, StreamWriters

\* And a stream that is about to be stored is stored.
LEMMA StreamStays ==
  ASSUME TypeOK, [Next]_vars, ~ClearStreams, NEW p \in Seeker, HasStream(p),
         ~(Disconnect /\ monitor.peer = p)
  PROVE  HasStream(p)'
<1>1. ASSUME NEW c \in Conn, StoreStream(c), c[1] = p
      PROVE  streams'[p] # None
  <2>1. c # None
    BY NoneAssumption DEF Conn, Seeker
  <2> QED
    BY <1>1, <2>1 DEF StoreStream, TypeOK, MapOK
<1>3. CASE streams[p] # None
  BY <1>3, StreamListed DEF HasStream
<1>4. CASE Storing(p)
  <2>1. PICK c \in Conn : c[1] = p /\ handler[c].pc = "created"
    BY <1>4 DEF Storing
  <2>2. CASE handler'[c].pc = "created"
    BY <1>4, <2>1, <2>2, EarlyStays DEF Storing, HasStream
  <2>3. CASE handler'[c].pc # "created"
    <3>1. ASSUME NEW d \in Conn,
                 \/ Accept(d) \/ CreateHeartbeat(d) \/ StoreStream(d)
                 \/ StoreHeartbeat(d) \/ HandlerSends(d) \/ Withdrawn(d)
                 \/ \E q \in Seeker, s \in {alive, dead} : ReadMessage(d, q, s)
          PROVE  d = c
      <4>1. \E r : handler' = [handler EXCEPT ![d] = r]
        BY <3>1 DEF Accept, CreateHeartbeat, StoreStream, StoreHeartbeat, HandlerSends, Withdrawn,
           ReadMessage, HandlerAt
      <4> QED
        BY <2>1, <2>3, <4>1 DEF TypeOK, HandlerOK
    <3>2. /\ ~Accept(c) /\ ~CreateHeartbeat(c) /\ ~StoreHeartbeat(c) /\ ~HandlerSends(c)
          /\ ~Withdrawn(c) /\ ~\E q \in Seeker, s \in {alive, dead} : ReadMessage(c, q, s)
      BY <2>1 DEF Accept, CreateHeartbeat, StoreHeartbeat, HandlerSends, Withdrawn, ReadMessage
    <3>3. StoreStream(c)
      BY <2>1, <2>3, <3>1, <3>2, HandlerWriters
    <3> QED
      BY <1>1, <2>1, <3>3 DEF HasStream
  <2> QED
    BY <2>2, <2>3
<1> QED
  BY <1>3, <1>4 DEF HasStream

\* A heartbeat goes when its stream goes: with one stream for each seeker the
\* heartbeat that the monitor closes is the one of the stream it deleted.
LEMMA StreamsStandStep ==
  ASSUME MaxStreams = 1, TypeOK, MapsOwn, HeartbeatAbsent, StreamsStand, [Next]_vars, ~ClearStreams
  PROVE  StreamsStand'
<1> SUFFICES ASSUME NEW c \in Conn, Stored(c)', hb'[c].phase \in {"idle", "sending"}
             PROVE  streams'[c[1]] # None \/ (monitor'.pc = "closeHb" /\ monitor'.peer = c[1])
  BY DEF StreamsStand, Stored
<1>1. c[1] \in Seeker /\ c # None
  BY ConnType, NoneAssumption DEF Conn, Seeker
<1>2. ASSUME ~Stored(c) PROVE StoreStream(c)
  <2>1. ASSUME NEW d \in Conn,
               \/ Accept(d) \/ CreateHeartbeat(d) \/ StoreStream(d)
               \/ StoreHeartbeat(d) \/ HandlerSends(d) \/ Withdrawn(d)
               \/ \E p \in Seeker, s \in {alive, dead} : ReadMessage(d, p, s)
        PROVE  d = c
    <3>1. \E r : handler' = [handler EXCEPT ![d] = r]
      BY <2>1 DEF Accept, CreateHeartbeat, StoreStream, StoreHeartbeat, HandlerSends, Withdrawn,
         ReadMessage, HandlerAt
    <3> QED
      BY <1>2, <3>1 DEF Stored, TypeOK, HandlerOK
  <2>2. ~Accept(c)
    <3> SUFFICES ASSUME Accept(c) PROVE FALSE
      OBVIOUS
    <3>1. Waiting(c) /\ hb' = hb
      BY DEF Accept, Waiting
    <3> QED
      BY <3>1 DEF HeartbeatAbsent
  <2>3. ~CreateHeartbeat(c)
    BY DEF CreateHeartbeat, HandlerAt, Stored, TypeOK, HandlerOK
  <2>4. /\ ~StoreHeartbeat(c) /\ ~HandlerSends(c) /\ ~Withdrawn(c)
        /\ ~\E p \in Seeker, s \in {alive, dead} : ReadMessage(c, p, s)
    BY <1>2 DEF StoreHeartbeat, HandlerSends, Withdrawn, ReadMessage, Stored
  <2>5. ~UNCHANGED handler
    BY <1>2 DEF Stored
  <2> QED
    BY <2>1, <2>2, <2>3, <2>4, <2>5, HandlerWriters
<1>3. CASE ~Stored(c)
  BY <1>1, <1>2, <1>3 DEF StoreStream, TypeOK, MapOK
<1>4. CASE Stored(c) /\ streams[c[1]] # None
  <2>1. CASE Disconnect /\ monitor.peer = c[1]
    BY <1>4, <2>1 DEF Disconnect, MonitorAt, TypeOK, MonitorOK
  <2>2. CASE ~(Disconnect /\ monitor.peer = c[1])
    BY <1>1, <1>4, <2>2, StreamListed
  <2> QED
    BY <2>1, <2>2
<1>5. CASE Stored(c) /\ streams[c[1]] = None
  <2>1. hb[c].phase \in {"idle", "sending"}
    BY <1>5, HeartbeatStep DEF Stored, TypeOK, HeartbeatsOK
  <2>2. monitor.pc = "closeHb" /\ monitor.peer = c[1]
    BY <1>5, <2>1 DEF StreamsStand
  <2>3. CASE UNCHANGED monitor
    BY <2>2, <2>3
  <2>4. CASE DisconnectHeartbeat /\ monitor'.pc = "deleteConn"
    <3>1. CloseHeartbeat(conns[c[1]], MonitorAt("deleteConn") /\ UNCHANGED <<loop, node>>)
          /\ conns[c[1]] # None
      BY <2>2, <2>4 DEF DisconnectHeartbeat
    <3>2. hb' = [hb EXCEPT ![conns[c[1]]].phase = "closed"]
      BY <2>2, <2>4, <3>1 DEF CloseHeartbeat
    <3>3. conns[c[1]] \in Conn /\ conns[c[1]][1] = c[1]
      BY <1>1, <3>1 DEF MapsOwn, TypeOK, MapOK
    <3>4. conns[c[1]] = c
      BY <3>3, OneStream
    <3> QED
      BY <3>2, <3>4 DEF TypeOK, HeartbeatsOK
  <2> QED
    BY <2>2, <2>3, <2>4, MonitorPeer
<1> QED
  BY <1>3, <1>4, <1>5

\* The monitor connects a peer that has a stream, and deletes the stream of a
\* peer that has left the game.
LEMMA GameStandsStep ==
  ASSUME TypeOK, GameInv, GameStands, PeerStands, [Next]_vars, ~ClearStreams
  PROVE  GameStands'
<1> SUFFICES ASSUME NEW p \in Seeker, p \in game' PROVE HasStream(p)'
  BY DEF GameStands, HasStream, Storing
<1>1. CASE p \in game
  <2>1. ~(Disconnect /\ monitor.peer = p)
    BY <1>1 DEF Disconnect, GameInv, MonitorKnows
  <2> QED
    BY <1>1, <2>1, StreamStays DEF GameStands
<1>2. CASE p \notin game
  <2>1. Connect /\ p = monitor.peer
    BY <1>2, GameWriters DEF MonitorReceives, Connect
  <2>2. UNCHANGED <<streams, handler, early>> /\ HasStream(p)
    BY <2>1 DEF Connect, PeerStands
  <2> QED
    BY <2>2 DEF HasStream, Storing
<1> QED
  BY <1>1, <1>2

\* The monitor takes reports of peers that have a stream or are about to: a
\* heartbeat is created in the statement before.
LEMMA PeerStandsStep ==
  ASSUME TypeOK, GameInv, HeartbeatAbsent, Reports, StreamsStand, PeerStands, [Next]_vars,
         ~ClearStreams
  PROVE  PeerStands'
<1> SUFFICES ASSUME monitor'.pc \in {"connect", "sendAdd", "sendRemove"}
             PROVE  HasStream(monitor.peer)'
  BY DEF PeerStands, HasStream, Storing
<1>1. ASSUME NEW c \in Conn, MonitorReceives(c) PROVE HasStream(monitor.peer)'
  <2>1. /\ monitor.pc = "select" /\ hb[c].phase = "sending"
        /\ monitor'.peer = c[1] /\ UNCHANGED <<streams, handler, early>>
    BY <1>1 DEF MonitorReceives
  <2>2. CASE Stored(c)
    <3>1. streams[c[1]] # None
      BY <2>1, <2>2 DEF StreamsStand
    <3> QED
      BY <2>1, <3>1 DEF HasStream
  <2>3. CASE ~Stored(c)
    <3>1. ~Waiting(c)
      BY <2>1 DEF HeartbeatAbsent
    <3>2. handler[c].pc = "created"
      BY <2>3, <3>1 DEF Stored, Waiting
    <3>3. early
      BY <2>1, <3>2 DEF Reports, Reading
    <3> QED
      BY <2>1, <3>2, <3>3 DEF HasStream, Storing
  <2> QED
    BY <2>2, <2>3
<1>2. CASE \A c \in Conn : ~MonitorReceives(c)
  <2>1. /\ monitor.pc \in {"connect", "sendAdd", "sendRemove"}
        /\ monitor'.peer = monitor.peer
    BY <1>2, MonitorPeer, MonitorWriters DEF Connect, MonitorSends, Ask, Disconnect,
       DisconnectHeartbeat, DeleteConn, StopMonitor, MonitorAt, TypeOK, MonitorOK
  <2>2. monitor.peer \in Seeker
    BY <2>1 DEF GameInv, MonitorKnows
  <2>3. ~Disconnect
    BY <2>1 DEF Disconnect
  <2>4. HasStream(monitor.peer)
    BY <2>1 DEF PeerStands
  <2> DEFINE p == monitor.peer
  <2>5. PICK q \in Seeker : q = p
    BY <2>2
  <2>6. HasStream(q)'
    BY <2>3, <2>4, <2>5, StreamStays
  <2> QED
    BY <2>1, <2>5, <2>6 DEF HasStream, Storing
<1> QED
  BY <1>1, <1>2

\* Every step preserves Stands.
LEMMA StandsStep ==
  ASSUME MaxStreams = 1, TypeOK, MapsOwn, HeartbeatAbsent, GameInv, Reports, Stands, [Next]_vars
  PROVE  Stands'
<1> SUFFICES ASSUME Fresh' PROVE StreamsStand' /\ GameStands' /\ PeerStands'
  BY DEF Stands, Fresh
<1>1. Fresh /\ ~ClearStreams
  BY FreshStep
<1>2. StreamsStand /\ GameStands /\ PeerStands
  BY <1>1 DEF Stands
<1> QED
  BY <1>1, <1>2, StreamsStandStep, GameStandsStep, PeerStandsStep

-----------------------------------------------------------------------------
\* A stream to p is in gs.streams, or about to be stored there, and is not about
\* to be deleted.
Listed(p) == p \in Seeker /\ HasStream(p) /\ ~(monitor.pc = "disconnect" /\ monitor.peer = p)

\* MembersTold, one step earlier: when the loop is about to write
\* GatheringFinished every member of its clique is listed.
MembersListed ==
  loop.pc = "announce" /\ node.pc = "listening" => \A p \in clique \ {Self} : Listed(p)

\* How the loop gets to its announcement and past it.
LEMMA LoopEnters ==
  ASSUME TypeOK, [Next]_vars
  PROVE  /\ loop'.pc = "announce" => Update \/ loop.pc = "announce"
         /\ loop'.pc = "closeHbs" => Announce \/ loop.pc = "closeHbs"
<1>1. ASSUME NEW pc, LoopAt(pc) PROVE loop'.pc = pc
  BY <1>1 DEF LoopAt, TypeOK, LoopOK
<1>2. ASSUME NEW c \in Conn, HandlerSends(c) \/ MonitorSends PROVE loop'.pc = "apply"
  BY <1>2 DEF HandlerSends, MonitorSends, TypeOK, LoopOK
<1>3. ASSUME NEW c \in Conn, CloseOne(c) PROVE loop'.pc = "closing"
  <2>1. loop' = [loop EXCEPT !.closing = @ \ {c}] \/ loop' = loop
    BY <1>3 DEF CloseOne, CloseHeartbeat
  <2> QED
    BY <1>3, <2>1 DEF CloseOne, TypeOK, LoopOK
<1>4. StartClosing => loop'.pc = "closing"
  BY DEF StartClosing, TypeOK, LoopOK
<1>5. MonitorSends => loop'.pc = "apply"
  BY DEF MonitorSends, TypeOK, LoopOK
<1>6. ASSUME Announce \/ ForgetHeartbeats \/ ClearStreams \/ SendGame \/ StopLoop \/ Update
      PROVE  /\ loop'.pc = "announce" => Update
             /\ loop'.pc = "closeHbs" => Announce
  BY <1>1, <1>6 DEF Announce, ForgetHeartbeats, ClearStreams, SendGame, StopLoop, Update
<1> QED
  BY <1>2, <1>3, <1>4, <1>5, <1>6, LoopWriters

\* A clique is made of neighbours of the facilitator, and those are in the
\* game or being changed by the monitor: either way their streams stand.
LEMMA MembersUpdateStep ==
  ASSUME TypeOK, TypeOK', GameInv', Stands, Update, node.pc = "listening", loop'.pc = "announce",
         NEW p \in clique' \ {Self}
  PROVE  Listed(p)'
<1>1. /\ UNCHANGED <<streams, handler, game, monitor, early>> /\ loop.pc = "apply"
      /\ loop'.pc \notin {"apply"}
      /\ clique' \in FindCliqueResults(mesh', DesiredCount, Self)
  BY DEF Update, LoopAt, TypeOK, LoopOK
<1>2. Self \in clique' /\ clique' \subseteq Peer /\ Complete(mesh', clique')
  BY <1>1, FindCliqueResultsSound, SelfAssumption, BoundsAssumption DEF TypeOK
<1>3. p \in Seeker /\ p \in Neighbours(mesh', Self)
  BY <1>2 DEF Complete, Seeker
<1>4. StreamsStand /\ GameStands /\ PeerStands
  BY <1>1 DEF Stands, Fresh
<1>5. CASE Changing(p)
  BY <1>1, <1>3, <1>4, <1>5 DEF Changing, PeerStands, Listed, HasStream, Storing
<1>6. CASE ~Changing(p)
  <2>1. p \notin Unsettled'
    BY <1>1, <1>6 DEF Unsettled, Changing
  <2>2. p \in game
    BY <1>1, <1>3, <2>1 DEF GameInv, GameMatchesMesh, Neighbours
  <2>3. ~(monitor.pc = "disconnect" /\ monitor.peer = p)
    BY <1>1, <2>2 DEF GameInv, MonitorKnows
  <2> QED
    BY <1>1, <1>3, <1>4, <2>2, <2>3 DEF GameStands, Listed, HasStream, Storing
<1> QED
  BY <1>5, <1>6

\* While the loop announces, the monitor cannot send the removal of a member
\* and so does not come to delete its stream.
LEMMA MembersListedStep ==
  ASSUME TypeOK, TypeOK', GameInv', Stands, MembersListed, [Next]_vars
  PROVE  MembersListed'
<1> SUFFICES ASSUME loop'.pc = "announce", node'.pc = "listening", NEW p \in clique' \ {Self}
             PROVE  Listed(p)'
  BY DEF MembersListed, Listed, HasStream, Storing
<1>1. node.pc = "listening"
  BY FreshStep
<1>2. CASE Update
  BY <1>1, <1>2, MembersUpdateStep
<1>3. CASE ~Update
  <2>1. loop.pc = "announce" /\ clique' = clique
    BY <1>3, LoopEnters, AnnouncementWriters
  <2>2. Listed(p)
    BY <1>1, <2>1 DEF MembersListed
  <2>3. HasStream(p)'
    <3>1. ~ClearStreams
      BY <2>1 DEF ClearStreams
    <3>2. ~(Disconnect /\ monitor.peer = p)
      BY <2>2 DEF Disconnect, Listed
    <3> QED
      BY <2>2, <3>1, <3>2, StreamStays DEF Listed
  <2>4. ~(monitor'.pc = "disconnect" /\ monitor'.peer = p)
    <3>1. ~MonitorSends
      BY <2>1 DEF MonitorSends
    <3>2. ASSUME monitor.pc = "select" PROVE UNCHANGED monitor \/ monitor'.pc # "disconnect"
      BY <3>1, <3>2, MonitorWriters DEF MonitorReceives, Connect, Ask, Disconnect,
         DisconnectHeartbeat, DeleteConn, StopMonitor, MonitorAt, TypeOK, MonitorOK
    <3> QED
      BY <2>2, <3>1, <3>2, MonitorPeer DEF Listed
  <2> QED
    BY <2>2, <2>3, <2>4 DEF Listed, HasStream, Storing
<1> QED
  BY <1>2, <1>3

\* The loop writes to all whose streams are listed.
LEMMA MembersToldStep ==
  ASSUME TypeOK, MapsOwn, MembersListed, [Next]_vars, Announcing, NEW p \in clique \ {Self}
  PROVE  \E c \in Conn : c[1] = p /\ (told'[c] > told[c] \/ handler[c].pc = "created")
<1>1. Announce
  BY LoopEnters DEF Announcing
<1>2. told' = [c \in Conn |-> IF c \in Registered(streams) THEN told[c] + 1 ELSE told[c]]
  BY <1>1 DEF Announce
<1>3. p \in Seeker /\ HasStream(p)
  BY DEF Announcing, MembersListed, Listed
<1>4. CASE streams[p] # None
  <2>1. streams[p] \in Conn /\ streams[p][1] = p /\ streams[p] \in Registered(streams)
    BY <1>3, <1>4 DEF MapsOwn, Registered, TypeOK, MapOK
  <2>2. told'[streams[p]] = told[streams[p]] + 1 /\ told[streams[p]] \in Nat
    BY <1>2, <2>1 DEF TypeOK
  <2>3. told'[streams[p]] > told[streams[p]]
    BY <2>2
  <2> QED
    BY <2>1, <2>3
<1>5. CASE Storing(p)
  BY <1>5 DEF Storing
<1> QED
  BY <1>3, <1>4, <1>5 DEF HasStream

-----------------------------------------------------------------------------
\* The facilitator is not its own neighbour.
NoSelfLoop == Self \notin Neighbours(mesh, Self)

\* While the monitor asks about its peer, the only edge of the facilitator
\* that can still be on its way to the mesh is the one to that peer.
AsksLast == monitor.pc = "ask" /\ loop.pc = "apply" /\ loop.mod.from = Self
              => loop.mod.to = monitor.peer

\* Why p and q need not be asked about each other again.
Pair(p, q) ==
  \/ p = q \/ Changing(p) \/ Changing(q)
  \/ monitor.pc = "ask" /\ monitor.peer \in {p, q}
  \/ Asked(p, q) \/ Asked(q, p)

\* PairsRequested, said of the peers of the game.
Pairs == ~done /\ ~early => \A p, q \in Seeker : p \in game /\ q \in game => Pair(p, q)

\* No modification adds an edge from the facilitator to itself.
LEMMA NoSelfLoopStep ==
  TypeOK /\ MeshSymmetric /\ GameInv /\ NoSelfLoop /\ [Next]_vars => NoSelfLoop'
<1> SUFFICES ASSUME TypeOK, MeshSymmetric, GameInv, NoSelfLoop, [Next]_vars
             PROVE  Self \notin Neighbours(mesh', Self)
  BY DEF NoSelfLoop, Neighbours
<1>1. CASE UNCHANGED mesh
  BY <1>1 DEF NoSelfLoop
<1>2. CASE Update
  <2> DEFINE mod == loop.mod
  <2>1. /\ mesh \in Mesh /\ Symmetric(mesh) /\ mesh' = Apply(mod, mesh)
        /\ mod.from \in Peer /\ mod.to \in Peer /\ mod.to # Self
        /\ mod.op \in {"addDoubleEdge", "removeDoubleEdge", "removePeer"}
    BY <1>2 DEF Update, TypeOK, LoopOK, peerMeshMod, MeshSymmetric, GameInv, LoopKnows, Seeker
  <2> HIDE DEF mod
  <2>2. CASE mod.op = "addDoubleEdge"
    BY <2>1, <2>2, AddDoubleEdge DEF Apply, Ends, NoSelfLoop
  <2>3. CASE mod.op = "removeDoubleEdge"
    BY <2>1, <2>3, RemoveDoubleEdge DEF Apply, NoSelfLoop
  <2>4. CASE mod.op = "removePeer"
    BY <2>1, <2>4, RemovePeer DEF Apply, NoSelfLoop
  <2> QED
    BY <2>1, <2>2, <2>3, <2>4
<1> QED
  BY <1>1, <1>2, MeshWriters

\* The monitor sends its modification before it asks, and no one else sends
\* any with the facilitator in front.
LEMMA AsksLastStep == TypeOK /\ GameInv /\ AsksLast /\ [Next]_vars => AsksLast'
<1> SUFFICES ASSUME TypeOK, GameInv, AsksLast, [Next]_vars,
                    monitor'.pc = "ask", loop'.pc = "apply", loop'.mod.from = Self
             PROVE  loop'.mod.to = monitor'.peer
  BY DEF AsksLast
<1>1. CASE MonitorSends
  <2>1. /\ loop'.mod = MonitorMod /\ monitor.pc = "sendAdd" /\ monitor'.peer = monitor.peer
    BY <1>1 DEF MonitorSends, MonitorAt, TypeOK, MonitorOK, LoopOK
  <2> QED
    BY <2>1 DEF MonitorMod, Mod
<1>2. CASE ~MonitorSends
  <2>1. UNCHANGED monitor
    <3>1. ASSUME monitor.pc = "select" PROVE UNCHANGED monitor
      BY <1>2, <3>1, MonitorWriters DEF MonitorReceives, Connect, Ask, Disconnect,
         DisconnectHeartbeat, DeleteConn, StopMonitor, MonitorAt, TypeOK, MonitorOK
    <3> QED
      BY <1>2, <3>1, MonitorPeer
  <2>2. ASSUME NEW c \in Conn, HandlerSends(c) PROVE FALSE
    <3>1. handler[c].pc = "sending" /\ loop'.mod = handler[c].mod
      BY <2>2 DEF HandlerSends, TypeOK, LoopOK
    <3> QED
      BY <3>1 DEF GameInv, HandlersSendSeekers, Seeker
  <2>3. ASSUME NEW c \in Conn, CloseOne(c) PROVE FALSE
    <3>1. loop' = [loop EXCEPT !.closing = @ \ {c}] \/ loop' = loop
      BY <2>3 DEF CloseOne, CloseHeartbeat
    <3> QED
      BY <2>3, <3>1 DEF CloseOne, TypeOK, LoopOK
  <2>4. ~(Update \/ Announce \/ StartClosing \/ ForgetHeartbeats \/ ClearStreams \/ SendGame
          \/ StopLoop)
    BY DEF Update, Announce, StartClosing, ForgetHeartbeats, ClearStreams, SendGame, StopLoop,
       LoopAt, TypeOK, LoopOK
  <2>5. UNCHANGED loop
    BY <1>2, <2>2, <2>3, <2>4, LoopWriters
  <2> QED
    BY <2>1, <2>5 DEF AsksLast
<1> QED
  BY <1>1, <1>2

\* A request once written is not forgotten while the stream stands.
LEMMA AskedStays ==
  ASSUME MaxStreams = 1, TypeOK, MapsOwn, [Next]_vars, ~ClearStreams,
         NEW p \in Seeker, NEW q \in Seeker, Asked(p, q), ~(Disconnect /\ monitor.peer = p)
  PROVE  Asked(p, q)'
<1>1. /\ streams[p] # None /\ streams[p] \in Conn /\ streams[p][1] = p
      /\ view[streams[p]][q] # "unasked"
  BY DEF Asked, MapsOwn, TypeOK, MapOK
<1>2. streams'[p] = streams[p]
  <2>1. ASSUME NEW d \in Conn, StoreStream(d) PROVE streams'[p] = streams[p]
    <3>1. d[1] = p => d = streams[p]
      BY <1>1, OneStream
    <3> QED
      BY <2>1, <3>1 DEF StoreStream, TypeOK, MapOK
  <2>2. ASSUME Disconnect PROVE streams'[p] = streams[p]
    BY <2>2 DEF Disconnect, TypeOK, MapOK
  <2> QED
    BY <2>1, <2>2, StreamWriters
<1>3. ASSUME NEW c \in Conn, view[c][q] # "unasked" PROVE view'[c][q] # "unasked"
  <2>1. CASE Ask
    <3>1. PICK failed \in SUBSET Everybody :
            view' = [d \in Conn |->
                       IF /\ d[1] \in Everybody \ failed
                          /\ d = streams[d[1]]
                          /\ view[d][monitor.peer] = "unasked"
                       THEN [view[d] EXCEPT ![monitor.peer] = unknown]
                       ELSE view[d]]
      BY <2>1 DEF Ask
    <3>2. \/ view'[c] = view[c]
          \/ /\ view[c][monitor.peer] = "unasked"
             /\ view'[c] = [view[c] EXCEPT ![monitor.peer] = unknown]
      BY <3>1
    <3> QED
      BY <1>3, <3>2 DEF TypeOK
  <2>2. ASSUME NEW d \in Conn, NEW r \in Seeker, NEW s \in {alive, dead}, ReadMessage(d, r, s)
        PROVE  view'[c][q] # "unasked"
    BY <1>3, <2>2, StatusAssumption DEF ReadMessage, TypeOK
  <2> QED
    BY <1>3, <2>1, <2>2, ViewWriters
<1> QED
  BY <1>1, <1>2, <1>3 DEF Asked

\* When askEverybodyToConnectTo succeeds, everybody in the game but the peer
\* itself was asked: who is in the game is a neighbour of the facilitator, so
\* a key of gs.mesh, and has a stream.
LEMMA EverybodyAsked ==
  ASSUME ~early, TypeOK, MeshSymmetric, GameInv, GameStands, AsksLast, MapsOwn, Ask,
         monitor'.pc # "ask", NEW q \in Seeker, q \in game, q # monitor.peer
  PROVE  Asked(q, monitor.peer)'
<1> DEFINE r == monitor.peer
<1>1. /\ monitor.pc = "ask" /\ streams' = streams /\ monitor'.peer = monitor.peer
      /\ r \in Seeker
      /\ view' = [c \in Conn |->
                    IF /\ c[1] \in Everybody
                       /\ c = streams[c[1]]
                       /\ view[c][monitor.peer] = "unasked"
                    THEN [view[c] EXCEPT ![monitor.peer] = unknown]
                    ELSE view[c]]
  <2>1. PICK failed \in SUBSET Everybody :
          /\ view' = [c \in Conn |->
                        IF /\ c[1] \in Everybody \ failed
                           /\ c = streams[c[1]]
                           /\ view[c][monitor.peer] = "unasked"
                        THEN [view[c] EXCEPT ![monitor.peer] = unknown]
                        ELSE view[c]]
          /\ IF failed = {}
             THEN MonitorAt("select") /\ UNCHANGED crash
             ELSE Crash("failed request is not a PeerError") /\ UNCHANGED monitor
    BY DEF Ask
  <2>2. monitor.pc = "ask" /\ streams' = streams
    BY DEF Ask
  <2>3. failed = {}
    BY <2>1, <2>2
  <2>4. monitor'.peer = monitor.peer
    BY <2>1, <2>3 DEF MonitorAt, TypeOK, MonitorOK
  <2> QED
    BY <2>1, <2>2, <2>3, <2>4 DEF GameInv, MonitorKnows
<1>2. q \notin Unsettled
  BY <1>1 DEF Unsettled, Changing, AsksLast
<1>3. q \in Neighbours(mesh, Self)
  BY <1>2 DEF GameInv, GameMatchesMesh
<1>4. q \in DOMAIN mesh
  BY <1>3, ClosedEdges DEF MeshSymmetric
<1>5. streams[q] # None /\ streams[q] \in Conn /\ streams[q][1] = q
  BY DEF GameStands, HasStream, Storing, MapsOwn, TypeOK, MapOK
<1>6. q \in Everybody
  BY <1>4, <1>5 DEF Everybody
<1>7. view'[streams[q]][r] # "unasked"
  <2>1. CASE view[streams[q]][r] = "unasked"
    <3>1. view'[streams[q]] = [view[streams[q]] EXCEPT ![r] = unknown]
      BY <1>1, <1>5, <1>6, <2>1
    <3> QED
      BY <1>1, <1>5, <3>1, StatusAssumption DEF TypeOK
  <2>2. CASE view[streams[q]][r] # "unasked"
    BY <1>1, <1>5, <2>2
  <2> QED
    BY <2>1, <2>2
<1> QED
  BY <1>1, <1>5, <1>7 DEF Asked

\* A peer enters the game, is sent to the mesh, and is then asked about.
LEMMA PairsStep ==
  ASSUME MaxStreams = 1, TypeOK, MeshSymmetric, GameInv, MapsOwn, Phases, Stands, AsksLast,
         Pairs, [Next]_vars
  PROVE  Pairs'
<1> SUFFICES ASSUME ~done', ~early', NEW p \in Seeker, NEW q \in Seeker, p \in game', q \in game'
             PROVE  Pair(p, q)'
  BY DEF Pairs, Pair, Changing, Asked
<1>0. ~done /\ ~early
  <2>1. ~done
    BY AnnouncementWriters DEF Update
  <2>2. ~early
    BY EarlyStays
  <2> QED
    BY <2>1, <2>2
<1>1. ~done /\ ~early /\ loop.pc \in {"select", "apply"} /\ node.pc = "listening"
  BY <1>0 DEF Phases
<1>2. GameStands /\ ~ClearStreams
  BY <1>1 DEF Stands, Fresh, ClearStreams
<1>3. CASE Connect
  <2>1. \/ /\ monitor'.pc = "sendAdd" /\ monitor'.peer = monitor.peer
           /\ game' = game \cup {monitor.peer}
        \/ game' = game
    BY <1>3 DEF Connect, MonitorAt, TypeOK, MonitorOK
  <2>2. CASE p \in game /\ q \in game
    <3>1. Pair(p, q) /\ monitor.pc = "connect" /\ ~Disconnect
      BY <1>1, <1>3, <2>2 DEF Pairs, Connect, Disconnect
    <3> QED
      BY <1>2, <3>1, AskedStays DEF Pair, Changing
  <2>3. CASE ~(p \in game /\ q \in game)
    BY <2>1, <2>3 DEF Pair, Changing
  <2> QED
    BY <2>2, <2>3
<1>4. CASE ~Connect
  <2>1. p \in game /\ q \in game
    BY <1>4, GameWriters DEF MonitorReceives
  <2>2. Pair(p, q)
    BY <1>1, <2>1 DEF Pairs
  <2>3. /\ Asked(p, q) => Asked(p, q)'
        /\ Asked(q, p) => Asked(q, p)'
    <3>1. ~(Disconnect /\ monitor.peer \in {p, q})
      BY <2>1 DEF Disconnect, GameInv, MonitorKnows
    <3> QED
      BY <1>2, <3>1, AskedStays
  <2>4. CASE Changing(p) \/ Changing(q)
    <3>1. monitor.pc = "sendAdd"
      BY <2>1, <2>4 DEF Changing, GameInv, MonitorKnows
    <3>2. monitor'.peer = monitor.peer /\ monitor'.pc \in {"sendAdd", "ask"}
      BY <3>1, MonitorPeer
    <3> QED
      BY <2>4, <3>2 DEF Changing, Pair
  <2>5. CASE monitor.pc = "ask" /\ monitor.peer \in {p, q} /\ p # q
    <3>1. CASE UNCHANGED monitor
      BY <2>5, <3>1 DEF Pair
    <3>2. CASE Ask /\ monitor'.pc # "ask"
      <4>1. monitor'.peer = monitor.peer
        BY <2>5, <3>2, MonitorPeer
      <4>2. CASE monitor.peer = p
        <5>1. Asked(q, monitor.peer)'
          BY <1>0, <1>2, <2>1, <2>5, <3>2, <4>2, EverybodyAsked
        <5> QED
          BY <4>1, <4>2, <5>1 DEF Pair, Asked
      <4>3. CASE monitor.peer = q
        <5>1. Asked(p, monitor.peer)'
          BY <1>0, <1>2, <2>1, <2>5, <3>2, <4>3, EverybodyAsked
        <5> QED
          BY <4>1, <4>3, <5>1 DEF Pair, Asked
      <4> QED
        BY <2>5, <4>2, <4>3
    <3> QED
      BY <2>5, <3>1, <3>2, MonitorPeer
  <2> QED
    BY <2>2, <2>3, <2>4, <2>5 DEF Pair
<1> QED
  BY <1>3, <1>4

\* The peers that PairsRequested speaks of are in the game.
LEMMA PairsCover == GameInv /\ NoSelfLoop /\ TypeOK /\ Pairs => PairsRequested
<1> SUFFICES ASSUME GameInv, NoSelfLoop, TypeOK, Pairs, ~done, ~early,
                    NEW p \in Neighbours(mesh, Self) \ Unsettled,
                    NEW q \in Neighbours(mesh, Self) \ Unsettled
             PROVE  \/ p = q
                    \/ monitor.pc = "ask" /\ monitor.peer \in {p, q}
                    \/ Asked(p, q) \/ Asked(q, p)
  BY DEF PairsRequested
<1>1. p \in Seeker /\ q \in Seeker
  BY NeighboursType DEF TypeOK, NoSelfLoop, Seeker
<1>2. p \in game /\ q \in game /\ ~Changing(p) /\ ~Changing(q)
  BY <1>1 DEF GameInv, GameMatchesMesh, Unsettled
<1> QED
  BY <1>1, <1>2 DEF Pairs, Pair

-----------------------------------------------------------------------------
\* What is known of the party before it is handed over.
PartyInv ==
  /\ MapsOwn /\ HeartbeatAbsent
  /\ Phases /\ Reports /\ Stands
  /\ MembersListed /\ NoSelfLoop /\ AsksLast

\* The facilitator starts that way, with nobody in the game.
LEMMA PartyInit == Init => PartyInv /\ Pairs
<1> SUFFICES ASSUME Init PROVE PartyInv /\ Pairs
  OBVIOUS
<1>1. MapsOwn /\ HeartbeatAbsent
  BY ToldInit DEF Init, HeartbeatAbsent
<1>2. Phases /\ Reports /\ Stands
  BY DEF Init, Phases, Reports, Stands, StreamsStand, GameStands, PeerStands
<1>3. MembersListed /\ AsksLast /\ Pairs
  BY DEF Init, MembersListed, AsksLast, Pairs
<1>4. NoSelfLoop
  BY DEF Init, EmptyMesh, NoSelfLoop, Neighbours
<1> QED
  BY <1>1, <1>2, <1>3, <1>4 DEF PartyInv

\* Every step preserves PartyInv, if seekers open one stream each.
LEMMA PartyStep ==
  ASSUME MaxStreams = 1
  PROVE  TypeOK /\ TypeOK' /\ MeshSymmetric /\ GameInv /\ GameInv' /\ PartyInv /\ [Next]_vars
           => PartyInv'
<1> SUFFICES ASSUME TypeOK, TypeOK', MeshSymmetric, GameInv, GameInv', PartyInv, [Next]_vars
             PROVE  PartyInv'
  OBVIOUS
<1>1. MapsOwn' /\ HeartbeatAbsent'
  BY MapsStep, AbsentStep DEF PartyInv
<1>2. Phases' /\ Reports' /\ Stands'
  BY PhasesStep, ReportsStep, StandsStep DEF PartyInv
<1>3. MembersListed'
  BY MembersListedStep DEF PartyInv
<1>4. NoSelfLoop' /\ AsksLast'
  BY NoSelfLoopStep, AsksLastStep DEF PartyInv
<1> QED
  BY <1>1, <1>2, <1>3, <1>4 DEF PartyInv

\* So it holds in every run.
LEMMA PartySafety ==
  ASSUME MaxStreams = 1
  PROVE  SafetySpec => [](TypeOK /\ MeshSymmetric /\ GameInv /\ PartyInv)
<1>1. SafetySpec => []GameInv
  BY GameInit, GameStep, GatherType, GatherSymmetric, PTL DEF SafetySpec
<1> QED
  BY <1>1, PartyInit, PartyStep, GatherType, GatherSymmetric, PTL DEF SafetySpec

\* When the loop announces the clique whose game the node takes, every member
\* of it is written to, although the monitor may be deleting streams and the
\* handlers storing them at that time; but for a seeker whose handler has a
\* heartbeat and not yet its stream.  For any number of seekers and faults and
\* however early heartbeats report; a seeker that opens a second stream while
\* the first one stands breaks it (TLC shows it).
THEOREM GatherMembersTold ==
  ASSUME MaxStreams = 1
  PROVE  SafetySpec => MembersTold
<1>1. TypeOK /\ PartyInv /\ [Next]_vars
        => [Announcing =>
              \A p \in clique \ {Self} :
                \E c \in Conn : /\ c[1] = p
                                /\ told'[c] > told[c] \/ handler[c].pc = "created"]_vars
  BY MembersToldStep DEF PartyInv
<1> QED
  BY <1>1, PartySafety, PTL DEF SafetySpec, MembersTold

\* Every two seekers the facilitator is connected to have been asked to connect
\* to each other, whoever came first and however the monitor and the loop
\* interleave, until one of them reports before its stream is stored: that one
\* is not asked.  For any number of seekers and faults.
THEOREM GatherPairsRequested ==
  ASSUME MaxStreams = 1
  PROVE  SafetySpec => []PairsRequested
<1>1. /\ TypeOK /\ MeshSymmetric /\ GameInv /\ PartyInv /\ Pairs /\ [Next]_vars => Pairs'
      /\ TypeOK /\ GameInv /\ PartyInv /\ Pairs => PairsRequested
  BY PairsStep, PairsCover DEF PartyInv
<1> QED
  BY <1>1, PartyInit, PartySafety, PTL DEF SafetySpec
=============================================================================
