-------------------------- MODULE GameStartProofs --------------------------
(***************************************************************************)
(* The players of a party start with one stream for every two of them, one *)
(* seed and one list of players, however often the streams between them    *)
(* were opened anew: for any players, streams and faults.  The types, and  *)
(* that a map holds one stream a peer, need no more; the rest is for       *)
(* players that are asked to connect in one direction.  With both, the two *)
(* ends of a pair may each hold the stream that the other one replaced.    *)
(*                                                                         *)
(* The inductive invariant IInv has three layers: what the maps are        *)
(* (TypeInv), what the two ends of a stream know of each other whatever    *)
(* happens (LinksInv), and what holds while nothing untimely has happened  *)
(* (TimelyInv).                                                            *)
(***************************************************************************)
EXTENDS GameStart, FiniteSetTheorems, TLAPS

\* A stream is a dial and a number.
LEMMA StreamParts ==
  \A s \in Stream : /\ s = <<s[1], s[2], s[3]>>
                    /\ <<s[1], s[2]>> \in Dials
                    /\ s[1] \in Player /\ s[2] \in Player /\ s[1] # s[2]
                    /\ s[3] \in 1..MaxDials
BY DialsAssumption DEF Stream

\* The other way round.
LEMMA StreamMade ==
  \A d \in Dials, k \in 1..MaxDials : <<d[1], d[2], k>> \in Stream
BY DEF Stream

\* The peer that a stream is registered under is a player, and not its own.
LEMMA OtherEnd ==
  ASSUME NEW s \in Stream, NEW p \in Ends(s)
  PROVE  /\ p \in Player /\ Other(p, s) \in Player /\ Other(p, s) # p
         /\ Ends(s) = {p, Other(p, s)}
BY StreamParts DEF Ends, Other

\* The types of the variables, the maps as functions ...
StateOK ==
  /\ streams \in [Player -> SUBSET Stream]
  /\ adding \subseteq Stream /\ arriving \subseteq Stream /\ broken \subseteq Stream
  /\ opened \in [Dials -> 0..MaxDials]
  /\ closed \subseteq Stream \X Player /\ wrote \subseteq Stream \X Player
  /\ pc \in [Player -> {"lobby", "negotiating", "negotiated", "running", "playing"}]
  /\ toRead \in [Player -> SUBSET Stream] /\ readers \in [Player -> SUBSET Stream]
  /\ seed \in [Player -> SUBSET Player] /\ roster \in [Player -> SUBSET Player]
  /\ faults \in 0..MaxFaults

\* ... and the Booleans, for the provers in a part of their own.
FlagsOK == formed \in BOOLEAN /\ untimely \in BOOLEAN

\* A player holds its own ends ...
OwnStreams == \A p \in Player : \A s \in streams[p] : p \in Ends(s)

\* ... and one stream for each peer, as a map from peers does.
OnePerPeer ==
  \A p \in Player : \A s, t \in streams[p] : Other(p, s) = Other(p, t) => s = t

\* Inductive without the rest of the invariant
TypeInv == StateOK /\ FlagsOK /\ OwnStreams /\ OnePerPeer

\* gi.streams[q] of p's map: the stream whose other end is q.
LEMMA ToIsOther ==
  ASSUME StateOK, OwnStreams, NEW p \in Player, NEW q \in Player, p # q
  PROVE  To(p, q) = {s \in streams[p] : Other(p, s) = q}
<1>1. \A s \in streams[p] : q \in Ends(s) <=> Other(p, s) = q
  BY OtherEnd DEF StateOK, OwnStreams
<1> QED
  BY <1>1 DEF To

\* One stream for each peer is what TypeOK says with a cardinality.
LEMMA TypeInvImplies == TypeInv => TypeOK
<1> SUFFICES ASSUME TypeInv PROVE TypeOK
  OBVIOUS
<1>1. ASSUME NEW p \in Player, NEW q \in Player \ {p}
      PROVE  Cardinality(To(p, q)) <= 1
  <2>1. \A s, t \in To(p, q) : s = t
    BY ToIsOther DEF TypeInv, OnePerPeer
  <2>2. CASE To(p, q) = {}
    <3>1. Cardinality(To(p, q)) = 0
      BY <2>2, FS_EmptySet, Zenon
    <3> QED
      BY <3>1
  <2>3. CASE \E s : s \in To(p, q)
    <3>1. PICK s : s \in To(p, q)
      BY <2>3
    <3>2. To(p, q) = {s}
      BY <2>1, <3>1
    <3>3. Cardinality(To(p, q)) = 1
      BY <3>2, FS_Singleton, Zenon
    <3> QED
      BY <3>3
  <2> QED
    BY <2>2, <2>3
<1>2. \A p \in Player : /\ \A s \in streams[p] : s \in Stream /\ p \in Ends(s)
                        /\ readers[p] \subseteq Stream /\ toRead[p] \subseteq Stream
  BY DEF TypeInv, StateOK, OwnStreams
<1>3. formed \in BOOLEAN /\ untimely \in BOOLEAN
  BY DEF TypeInv, FlagsOK
<1> QED
  BY <1>1, <1>2, <1>3 DEF TypeInv, StateOK, TypeOK

\* The maps are empty at first.
LEMMA TypeInit == Init => TypeInv
<1> SUFFICES ASSUME Init PROVE TypeInv
  OBVIOUS
<1>1. FlagsOK
  BY DEF Init, FlagsOK
<1>2. StateOK
  BY BoundAssumption DEF Init, StateOK
<1>3. OwnStreams /\ OnePerPeer
  BY DEF Init, OwnStreams, OnePerPeer
<1> QED
  BY <1>1, <1>2, <1>3 DEF TypeInv

\* AddPeer keeps the map a map.
LEMMA AddPeerType ==
  ASSUME TypeInv, NEW s \in Stream, NEW p \in Ends(s), AddPeer(p, s)
  PROVE  /\ streams' \in [Player -> SUBSET Stream]
         /\ s \in streams'[p]
         /\ \A t \in streams'[p] : t # s => t \in streams[p] /\ Other(p, t) # Other(p, s)
         /\ \A t \in streams[p] : Other(p, t) # Other(p, s) => t \in streams'[p]
         /\ \A q \in Player \ {p} : streams'[q] = streams[q]
         /\ OwnStreams' /\ OnePerPeer'
<1> USE DEF TypeInv
<1>1. p \in Player /\ Other(p, s) \in Player /\ Other(p, s) # p
  BY OtherEnd
<1>2. To(p, Other(p, s)) = {t \in streams[p] : Other(p, t) = Other(p, s)}
  BY <1>1, ToIsOther
<1>3. streams' = [streams EXCEPT ![p] =
                   {t \in streams[p] : Other(p, t) # Other(p, s)} \cup {s}]
  BY <1>1, <1>2 DEF AddPeer, StateOK
<1>4. /\ streams' \in [Player -> SUBSET Stream]
      /\ streams'[p] = {t \in streams[p] : Other(p, t) # Other(p, s)} \cup {s}
      /\ \A q \in Player \ {p} : streams'[q] = streams[q]
  BY <1>1, <1>3 DEF StateOK
<1>5. OwnStreams'
  BY <1>4 DEF OwnStreams
<1>6. OnePerPeer'
  <2>1. ASSUME NEW q \in Player, NEW t \in streams'[q], NEW u \in streams'[q],
               Other(q, t) = Other(q, u)
        PROVE  t = u
    <3>1. CASE q = p
      BY <1>4, <2>1, <3>1 DEF OnePerPeer
    <3>2. CASE q # p
      BY <1>4, <2>1, <3>2 DEF OnePerPeer
    <3> QED
      BY <3>1, <3>2
  <2> QED
    BY <2>1 DEF OnePerPeer
<1> QED
  BY <1>4, <1>5, <1>6

\* A step that leaves the maps alone leaves what they say alone.
LEMMA SameMaps ==
  ASSUME TypeInv, UNCHANGED streams
  PROVE  /\ OwnStreams' /\ OnePerPeer' /\ streams' \in [Player -> SUBSET Stream]
BY DEF TypeInv, StateOK, OwnStreams, OnePerPeer

\* Connect opens a stream that has its number in the bound.
LEMMA ConnectType ==
  ASSUME TypeInv, NEW d \in Dials, Connect(d)
  PROVE  TypeInv'
<1>1. FlagsOK'
  BY DEF TypeInv, FlagsOK, Connect
<1>2. opened[d] + 1 \in 1..MaxDials /\ <<d[1], d[2], opened[d] + 1>> \in Stream
  BY BoundAssumption, StreamMade DEF TypeInv, StateOK, Connect
<1>3. /\ opened' \in [Dials -> 0..MaxDials]
      /\ adding' \subseteq Stream /\ arriving' \subseteq Stream
  BY <1>2, BoundAssumption DEF TypeInv, StateOK, Connect
<1>4. UNCHANGED <<streams, closed, broken, pc, toRead, wrote, seed, readers, roster, faults>>
  BY DEF Connect, start
<1> QED
  BY <1>1, <1>3, <1>4, SameMaps DEF TypeInv, StateOK

\* Connect adds a stream of its own.
LEMMA ConnectedType ==
  ASSUME TypeInv, NEW s \in Stream, Connected(s)
  PROVE  TypeInv'
<1>1. FlagsOK'
  BY DEF TypeInv, FlagsOK, Connected
<1>2. s[1] \in Ends(s)
  BY DEF Ends
<1>3. adding' \subseteq Stream
  BY DEF TypeInv, StateOK, Connected
<1>4. UNCHANGED <<arriving, opened, closed, broken, pc, toRead, wrote, seed, readers,
                  roster, faults>>
  BY DEF Connected, start
<1>5. OwnStreams' /\ OnePerPeer' /\ streams' \in [Player -> SUBSET Stream]
  BY <1>2, AddPeerType DEF Connected
<1> QED
  BY <1>1, <1>3, <1>4, <1>5 DEF TypeInv, StateOK

\* GameHandler adds a stream that was opened to it.
LEMMA GameHandlerType ==
  ASSUME TypeInv, NEW s \in Stream, GameHandler(s)
  PROVE  TypeInv'
<1>1. FlagsOK'
  BY DEF TypeInv, FlagsOK, GameHandler, Untimely
<1>2. s[2] \in Ends(s)
  BY DEF Ends
<1>3. arriving' \subseteq Stream
  BY DEF TypeInv, StateOK, GameHandler
<1>4. UNCHANGED <<adding, opened, closed, broken, pc, toRead, wrote, seed, readers,
                  roster, faults>>
  BY DEF GameHandler, start
<1>5. OwnStreams' /\ OnePerPeer' /\ streams' \in [Player -> SUBSET Stream]
  BY <1>2, AddPeerType DEF GameHandler
<1> QED
  BY <1>1, <1>3, <1>4, <1>5 DEF TypeInv, StateOK

\* Faults are counted up to the bound.
LEMMA FaultyType ==
  ASSUME TypeInv, Faulty
  PROVE  faults' \in 0..MaxFaults /\ untimely' \in BOOLEAN
<1>1. faults' \in 0..MaxFaults
  BY BoundAssumption DEF TypeInv, StateOK, Faulty
<1>2. untimely' \in BOOLEAN
  BY DEF TypeInv, FlagsOK, Faulty, Untimely
<1> QED
  BY <1>1, <1>2

\* A Connect that fails adds nothing.
LEMMA ConnectFailsType ==
  ASSUME TypeInv, NEW s \in Stream, ConnectFails(s)
  PROVE  TypeInv'
<1>1. FlagsOK'
  BY FaultyType DEF TypeInv, FlagsOK, ConnectFails
<1>2. adding' \subseteq Stream /\ arriving' \subseteq Stream /\ broken' \subseteq Stream
  BY DEF TypeInv, StateOK, ConnectFails
<1>3. UNCHANGED <<streams, opened, closed, pc, toRead, wrote, seed, readers, roster>>
  BY DEF ConnectFails, start
<1>4. faults' \in 0..MaxFaults
  BY FaultyType DEF ConnectFails
<1> QED
  BY <1>1, <1>2, <1>3, <1>4, SameMaps DEF TypeInv, StateOK

\* RemovePeer only takes away.
LEMMA DisconnectType ==
  ASSUME TypeInv, NEW d \in Dials, Disconnect(d)
  PROVE  TypeInv'
<1>1. FlagsOK'
  BY FaultyType DEF TypeInv, FlagsOK, Disconnect
<1>2. d[1] \in Player
  BY DialsAssumption
<1>3. closed' \subseteq Stream \X Player
  BY <1>2 DEF TypeInv, StateOK, Disconnect, To
<1>4. /\ streams' \in [Player -> SUBSET Stream]
      /\ \A p \in Player : streams'[p] \subseteq streams[p]
  BY <1>2 DEF TypeInv, StateOK, Disconnect
<1>5. OwnStreams' /\ OnePerPeer'
  <2>1. OwnStreams'
    BY <1>4 DEF TypeInv, OwnStreams
  <2>2. OnePerPeer'
    BY <1>4 DEF TypeInv, OnePerPeer
  <2> QED
    BY <2>1, <2>2
<1>6. UNCHANGED <<adding, arriving, opened, broken, pc, toRead, wrote, seed, readers, roster>>
  BY DEF Disconnect, start
<1>7. faults' \in 0..MaxFaults
  BY FaultyType DEF Disconnect
<1> QED
  BY <1>1, <1>3, <1>4, <1>5, <1>6, <1>7 DEF TypeInv, StateOK

\* Streams that are lost stay in the maps.
LEMMA LoseType ==
  ASSUME TypeInv, NEW d \in Dials, Lose(d)
  PROVE  TypeInv'
<1>1. FlagsOK'
  BY FaultyType DEF TypeInv, FlagsOK, Lose
<1>2. broken' \subseteq Stream
  BY DEF TypeInv, StateOK, Lose
<1>3. UNCHANGED <<streams, adding, arriving, opened, closed, pc, toRead, wrote, seed,
                  readers, roster>>
  BY DEF Lose, start
<1>4. faults' \in 0..MaxFaults
  BY FaultyType DEF Lose
<1> QED
  BY <1>1, <1>2, <1>3, <1>4, SameMaps DEF TypeInv, StateOK

\* That the party is formed changes no map.
LEMMA FormType ==
  ASSUME TypeInv, Form
  PROVE  TypeInv'
<1>1. FlagsOK'
  BY DEF TypeInv, FlagsOK, Form, Untimely
<1>2. UNCHANGED <<streams, adding, arriving, opened, closed, broken, pc, toRead, wrote,
                  seed, readers, roster, faults>>
  BY DEF Form, start, links
<1> QED
  BY <1>1, <1>2, SameMaps DEF TypeInv, StateOK

\* negotiateSeed reads from streams of the map, and starts from its own piece.
LEMMA BeginType ==
  ASSUME TypeInv, NEW p \in Player, Begin(p)
  PROVE  TypeInv'
<1>1. FlagsOK'
  BY DEF TypeInv, FlagsOK, Begin, Untimely
<1>2. UNCHANGED <<streams, adding, arriving, opened, closed, broken, readers, roster, faults>>
  BY DEF Begin, links
<1>3. pc' \in [Player -> {"lobby", "negotiating", "negotiated", "running", "playing"}]
  BY DEF TypeInv, StateOK, Begin
<1>4. wrote' \subseteq Stream \X Player /\ toRead' \in [Player -> SUBSET Stream]
  BY DEF TypeInv, StateOK, Begin
<1>5. seed' \in [Player -> SUBSET Player]
  BY DEF TypeInv, StateOK, Begin
<1> QED
  BY <1>1, <1>2, <1>3, <1>4, <1>5, SameMaps DEF TypeInv, StateOK

\* Of what Run does afterwards, a read changes what is left to read, and the seed ...
LEMMA ReadType ==
  ASSUME TypeInv, NEW p \in Player, NEW s \in Stream, ReadPiece(p, s) \/ ReadFails(p, s)
  PROVE  TypeInv'
<1>1. FlagsOK'
  BY DEF TypeInv, FlagsOK, ReadPiece, ReadFails
<1>2. UNCHANGED <<streams, adding, arriving, opened, closed, broken, pc, wrote, readers,
                  roster, faults>>
  BY DEF ReadPiece, ReadFails, links
<1>3. Other(p, s) \in Player
  BY StreamParts DEF Other
<1>4. toRead' \in [Player -> SUBSET Stream]
  BY DEF TypeInv, StateOK, ReadPiece, ReadFails, ReadAt
<1>5. seed' \in [Player -> SUBSET Player]
  BY <1>3 DEF TypeInv, StateOK, ReadPiece, ReadFails, SymDiff
<1> QED
  BY <1>1, <1>2, <1>4, <1>5, SameMaps DEF TypeInv, StateOK

\* ... and the other steps are about where it is.
LEMMA StepType ==
  ASSUME TypeInv, NEW p \in Player, Negotiated(p) \/ StartReaders(p) \/ PlayersIDs(p)
  PROVE  TypeInv'
<1>1. FlagsOK'
  BY DEF TypeInv, FlagsOK, Negotiated, StartReaders, PlayersIDs
<1>2. UNCHANGED <<streams, adding, arriving, opened, closed, broken, toRead, wrote, seed, faults>>
  BY DEF Negotiated, StartReaders, PlayersIDs, links
<1>3. pc' \in [Player -> {"lobby", "negotiating", "negotiated", "running", "playing"}]
  BY DEF TypeInv, StateOK, Negotiated, StartReaders, PlayersIDs
<1>4. readers' \in [Player -> SUBSET Stream]
  BY DEF TypeInv, StateOK, Negotiated, StartReaders, PlayersIDs
<1>5. \A s \in streams[p] : Other(p, s) \in Player
  BY StreamParts DEF TypeInv, StateOK, Other
<1>6. roster' \in [Player -> SUBSET Player]
  BY <1>5 DEF TypeInv, StateOK, Negotiated, StartReaders, PlayersIDs
<1> QED
  BY <1>1, <1>2, <1>3, <1>4, <1>6, SameMaps DEF TypeInv, StateOK

\* No step breaks a type, or gives a peer two streams.
LEMMA TypeStep == TypeInv /\ [Next]_vars => TypeInv'
<1> SUFFICES ASSUME TypeInv, [Next]_vars PROVE TypeInv'
  OBVIOUS
<1>1. ASSUME UNCHANGED vars PROVE TypeInv'
  <2>1. UNCHANGED <<streams, adding, arriving, opened, closed, broken, formed, pc, toRead,
                    wrote, seed, readers, roster, faults, untimely>>
    BY <1>1 DEF vars, links, start
  <2>2. FlagsOK'
    BY <2>1 DEF TypeInv, FlagsOK
  <2> QED
    BY <2>1, <2>2, SameMaps DEF TypeInv, StateOK
<1>2. ASSUME NEW p \in Player, Run(p) PROVE TypeInv'
  BY <1>2, BeginType, ReadType, StepType DEF Run
<1> QED
  BY <1>1, <1>2, ConnectType, DisconnectType, LoseType, ConnectedType, ConnectFailsType,
     GameHandlerType, FormType DEF Next

\* TypeOK for all constants: AddPeer, run by Connect and by GameHandler in any
\* order, never leaves two streams to one peer.
THEOREM StartType == Spec => []TypeOK
<1>1. Spec => []TypeInv
  BY TypeInit, TypeStep, PTL DEF Spec
<1> QED
  BY <1>1, TypeInvImplies, PTL

-----------------------------------------------------------------------------
\* Who is asked to connect to a peer is not asked for by that peer.
OneWay == \A d \in Dials : <<d[2], d[1]>> \notin Dials

\* The pair that a stream is between, the one who opened it first
Dial(s) == <<s[1], s[2]>>

\* The stream that d[1] opened to d[2] last
Latest(d) == <<d[1], d[2], opened[d]>>

\* No stream has a number that was not given out.
Numbered ==
  /\ \A s \in adding \cup arriving : s[3] <= opened[Dial(s)]
  /\ \A p \in Player : \A s \in streams[p] : s[3] <= opened[Dial(s)]

\* Who opened a stream holds, or is about to add, the last one or none: Connect
\* is not called for a peer there is a stream to.
LatestHeld ==
  /\ \A s \in adding : s[3] = opened[Dial(s)] /\ s \notin streams[s[1]]
  /\ \A p \in Player : \A s \in streams[p] : s[1] = p => s[3] = opened[Dial(s)]

\* Only who opened a stream closes it, and then holds it no more.
ClosedGone ==
  \A e \in closed : /\ e[2] = e[1][1]
                    /\ e[1][3] <= opened[Dial(e[1])]
                    /\ e[1] \notin adding
                    /\ e[1] \notin streams[e[1][1]]

\* Nobody runs before the party is formed.
Started == \A p \in Player : pc[p] # "lobby" => formed

\* Whatever happens, timely or not
LinksInv == Numbered /\ LatestHeld /\ ClosedGone

\* The parts of a stream
LEMMA DialType ==
  ASSUME NEW s \in Stream
  PROVE  /\ Dial(s) \in Dials /\ Dial(s)[1] = s[1] /\ Dial(s)[2] = s[2]
         /\ s[1] \in Player /\ s[2] \in Player /\ s[1] # s[2] /\ s[3] \in Nat
         /\ s = <<s[1], s[2], s[3]>>
BY StreamParts, BoundAssumption DEF Dial

\* The parts of a dial
LEMMA DialPair ==
  ASSUME NEW d \in Dials
  PROVE  d = <<d[1], d[2]>> /\ d[1] \in Player /\ d[2] \in Player /\ d[1] # d[2]
BY DialsAssumption

\* Connect: the number is new, so the stream is neither held nor closed.
LEMMA LinksConnect ==
  ASSUME TypeInv, LinksInv, NEW d \in Dials, Connect(d)
  PROVE  LinksInv'
<1> DEFINE s0 == <<d[1], d[2], opened[d] + 1>>
<1>1. /\ opened[d] \in Nat
      /\ opened'[d] = opened[d] + 1
      /\ \A e \in Dials : e # d => opened'[e] = opened[e]
      /\ \A e \in Dials : opened[e] \in Nat /\ opened[e] <= opened'[e]
      /\ adding' = adding \cup {s0} /\ arriving' = arriving \cup {s0}
      /\ UNCHANGED <<streams, closed>>
  BY BoundAssumption DEF TypeInv, StateOK, Connect
<1>2. s0 \in Stream /\ Dial(s0) = d /\ s0[1] = d[1] /\ s0[2] = d[2] /\ s0[3] = opened[d] + 1
  BY <1>1, DialPair, BoundAssumption, StreamMade DEF Dial, Connect, TypeInv, StateOK
<1>3. \A t \in adding : t \in Stream /\ Dial(t) # d
  BY DialType, DialPair DEF Connect, TypeInv, StateOK
<1>4. \A p \in Player : \A t \in streams[p] : t \in Stream /\ (t[1] = p => Dial(t) # d)
  BY DialType, DialPair DEF Connect, TypeInv, StateOK
<1>5. Numbered'
  <2>1. \A t \in Stream : t[3] <= opened[Dial(t)] => t[3] <= opened'[Dial(t)]
    BY <1>1, DialType
  <2>2. \A t \in adding' \cup arriving' : t[3] <= opened'[Dial(t)]
    BY <1>1, <1>2, <2>1 DEF LinksInv, Numbered, TypeInv, StateOK
  <2>3. \A p \in Player : \A t \in streams'[p] : t[3] <= opened'[Dial(t)]
    BY <1>1, <1>4, <2>1 DEF LinksInv, Numbered
  <2> QED
    BY <2>2, <2>3 DEF Numbered, Dial
<1>6. LatestHeld'
  <2>1. s0 \notin streams[d[1]]
    BY <1>2, DialPair, <1>4
  <2>2. \A t \in adding' : t[3] = opened'[Dial(t)] /\ t \notin streams'[t[1]]
    BY <1>1, <1>2, <1>3, <2>1, DialType DEF LinksInv, LatestHeld
  <2>3. \A p \in Player : \A t \in streams'[p] : t[1] = p => t[3] = opened'[Dial(t)]
    BY <1>1, <1>4, DialType DEF LinksInv, LatestHeld
  <2> QED
    BY <2>2, <2>3 DEF LatestHeld, Dial
<1>7. ClosedGone'
  <2> SUFFICES ASSUME NEW e \in closed
               PROVE  /\ e[2] = e[1][1] /\ e[1][3] <= opened'[Dial(e[1])]
                      /\ e[1] \notin adding' /\ e[1] \notin streams'[e[1][1]]
    BY <1>1 DEF ClosedGone, Dial
  <2>1. e[1] \in Stream /\ Dial(e[1]) \in Dials
    BY DialType DEF TypeInv, StateOK
  <2>2. /\ e[2] = e[1][1] /\ e[1][3] <= opened[Dial(e[1])]
        /\ e[1] \notin adding /\ e[1] \notin streams[e[1][1]]
    BY DEF LinksInv, ClosedGone
  <2>3. e[1] # s0
    BY <1>1, <1>2, <2>2
  <2>4. e[1][3] <= opened'[Dial(e[1])]
    BY <1>1, <2>1, <2>2, DialType
  <2> QED
    BY <1>1, <2>2, <2>3, <2>4
<1> QED
  BY <1>5, <1>6, <1>7 DEF LinksInv

\* Connect adds the last stream, which is then no longer to be added.
LEMMA LinksConnected ==
  ASSUME TypeInv, LinksInv, NEW s \in Stream, Connected(s)
  PROVE  LinksInv'
<1>1. /\ s \in adding /\ adding' = adding \ {s}
      /\ UNCHANGED <<arriving, opened, closed>>
  BY DEF Connected
<1>2. /\ \A t \in streams'[s[1]] : t # s => t \in streams[s[1]]
      /\ \A q \in Player \ {s[1]} : streams'[q] = streams[q]
  BY AddPeerType DEF Connected, Ends
<1>3. s[3] = opened[Dial(s)]
  BY <1>1 DEF LinksInv, LatestHeld
<1>4. \A p \in Player : \A t \in streams'[p] : t \in streams[p] \/ t = s
  BY <1>2
<1>5. Numbered'
  BY <1>1, <1>3, <1>4, DialType DEF LinksInv, Numbered, Dial, TypeInv, StateOK
<1>6. LatestHeld'
  <2>1. \A t \in adding' : t[3] = opened[Dial(t)] /\ t \notin streams'[t[1]]
    BY <1>1, <1>4, DialType DEF LinksInv, LatestHeld, TypeInv, StateOK
  <2>2. \A p \in Player : \A t \in streams'[p] : t[1] = p => t[3] = opened[Dial(t)]
    BY <1>3, <1>4 DEF LinksInv, LatestHeld
  <2> QED
    BY <1>1, <2>1, <2>2 DEF LatestHeld, Dial
<1>7. ClosedGone'
  <2>1. \A e \in closed : e[1] \in Stream /\ e[1][1] \in Player
    BY DialType DEF TypeInv, StateOK
  <2> QED
    BY <1>1, <1>4, <2>1 DEF LinksInv, ClosedGone, Dial
<1> QED
  BY <1>5, <1>6, <1>7 DEF LinksInv

\* GameHandler touches the map of the other end.
LEMMA LinksGameHandler ==
  ASSUME TypeInv, LinksInv, NEW s \in Stream, GameHandler(s)
  PROVE  LinksInv'
<1>1. /\ s \in arriving /\ arriving' = arriving \ {s}
      /\ UNCHANGED <<adding, opened, closed>>
  BY DEF GameHandler
<1>2. /\ \A t \in streams'[s[2]] : t # s => t \in streams[s[2]]
      /\ \A q \in Player \ {s[2]} : streams'[q] = streams[q]
  BY AddPeerType DEF GameHandler, Ends
<1>3. s[3] <= opened[Dial(s)] /\ s[1] # s[2]
  BY <1>1, DialType DEF LinksInv, Numbered
<1>4. \A p \in Player : \A t \in streams'[p] : t \in streams[p] \/ (t = s /\ p = s[2])
  BY <1>2
<1>5. Numbered'
  BY <1>1, <1>3, <1>4 DEF LinksInv, Numbered, Dial
<1>6. LatestHeld'
  <2>1. \A t \in adding' : t[3] = opened[Dial(t)] /\ t \notin streams'[t[1]]
    BY <1>1, <1>3, <1>4, DialType DEF LinksInv, LatestHeld, TypeInv, StateOK
  <2>2. \A p \in Player : \A t \in streams'[p] : t[1] = p => t[3] = opened[Dial(t)]
    BY <1>3, <1>4 DEF LinksInv, LatestHeld
  <2> QED
    BY <1>1, <2>1, <2>2 DEF LatestHeld, Dial
<1>7. ClosedGone'
  <2>1. \A e \in closed : e[1] \in Stream /\ e[1][1] \in Player
    BY DialType DEF TypeInv, StateOK
  <2> QED
    BY <1>1, <1>3, <1>4, <2>1 DEF LinksInv, ClosedGone, Dial
<1> QED
  BY <1>5, <1>6, <1>7 DEF LinksInv

\* What the dialler drops is what it opened.
LEMMA Dropped ==
  ASSUME OneWay, TypeInv, NEW d \in Dials, NEW s \in To(d[1], d[2])
  PROVE  s \in Stream /\ Dial(s) = d
<1>1. s \in streams[d[1]] /\ s \in Stream /\ d[1] \in Ends(s) /\ d[2] \in Ends(s)
  BY DialPair DEF To, TypeInv, StateOK, OwnStreams
<1>2. d # <<s[2], s[1]>>
  BY <1>1, DialType, DialPair DEF OneWay, Dial
<1> QED
  BY <1>1, <1>2, DialPair, DialType DEF Ends, Dial

\* Disconnect closes what it removes.
LEMMA LinksDisconnect ==
  ASSUME OneWay, TypeInv, LinksInv, NEW d \in Dials, Disconnect(d)
  PROVE  LinksInv'
<1>1. d[1] \in Player
  BY DialPair
<1>2. /\ UNCHANGED <<adding, arriving, opened>>
      /\ closed' = closed \cup (To(d[1], d[2]) \X {d[1]})
      /\ streams'[d[1]] = streams[d[1]] \ To(d[1], d[2])
      /\ \A q \in Player \ {d[1]} : streams'[q] = streams[q]
  BY <1>1 DEF Disconnect, TypeInv, StateOK
<1>3. \A p \in Player : streams'[p] \subseteq streams[p]
  BY <1>2
<1>4. Numbered'
  BY <1>2, <1>3 DEF LinksInv, Numbered, Dial
<1>5. LatestHeld'
  <2>1. \A t \in adding : t[1] \in Player
    BY DialType DEF TypeInv, StateOK
  <2> QED
    BY <1>2, <1>3, <2>1 DEF LinksInv, LatestHeld, Dial
<1>6. ClosedGone'
  <2> SUFFICES ASSUME NEW e \in closed'
               PROVE  /\ e[2] = e[1][1] /\ e[1][3] <= opened[Dial(e[1])]
                      /\ e[1] \notin adding /\ e[1] \notin streams'[e[1][1]]
    BY <1>2 DEF ClosedGone, Dial
  <2>1. CASE e \in closed
    <3>1. e[1][1] \in Player
      BY <2>1, DialType DEF TypeInv, StateOK
    <3> QED
      BY <1>3, <2>1, <3>1 DEF LinksInv, ClosedGone
  <2>2. CASE e \in To(d[1], d[2]) \X {d[1]}
    <3>1. e[2] = d[1] /\ e[1] \in To(d[1], d[2]) /\ e[1] \in streams[d[1]]
      BY <2>2 DEF To
    <3>2. e[1] \in Stream /\ Dial(e[1]) = d /\ e[1][1] = d[1]
      BY <3>1, Dropped, DialType
    <3> QED
      BY <1>1, <1>2, <3>1, <3>2 DEF LinksInv, LatestHeld, Numbered
  <2> QED
    BY <1>2, <2>1, <2>2
<1> QED
  BY <1>4, <1>5, <1>6 DEF LinksInv

\* A Connect that fails forgets its stream.
LEMMA LinksConnectFails ==
  ASSUME LinksInv, NEW s \in Stream, ConnectFails(s)
  PROVE  LinksInv'
<1>1. UNCHANGED <<streams, opened, closed>> /\ adding' \subseteq adding /\ arriving' \subseteq arriving
  BY DEF ConnectFails
<1> QED
  BY <1>1 DEF LinksInv, Numbered, LatestHeld, ClosedGone, Dial

\* LinksInv is about these variables only ...
LEMMA LinksSame ==
  ASSUME LinksInv, UNCHANGED <<streams, adding, arriving, opened, closed>>
  PROVE  LinksInv'
BY DEF LinksInv, Numbered, LatestHeld, ClosedGone, Dial

\* ... which Run leaves alone.
LEMMA RunLinks ==
  ASSUME NEW p \in Player, Run(p)
  PROVE  UNCHANGED <<streams, adding, arriving, opened, closed, broken, formed>>
BY DEF Run, Begin, Negotiated, StartReaders, PlayersIDs, ReadPiece, ReadFails, links

-----------------------------------------------------------------------------
\* d[1] holds, or is about to add, the last stream that it opened to d[2].
Standing(d) == Latest(d) \in adding \cup streams[d[1]]

\* If so, and the stream is not arriving any more, the end it was opened to holds
\* it: no earlier one has taken its place.
Arrived ==
  \A d \in Dials :
    Standing(d) /\ Latest(d) \notin arriving => Latest(d) \in streams[d[2]]

\* d[1] holds the last stream that it opened to d[2], and it is not lost.
Holds(d) == d \in Dials /\ opened[d] >= 1 /\ Latest(d) \in streams[d[1]] \ broken

\* What the facilitator found when it formed the party stays as it was.
Paired ==
  formed => \A p, q \in Player : p # q => Holds(<<p, q>>) \/ Holds(<<q, p>>)

\* Whoever runs has been reached by every stream.
Heard == \A p \in Player : pc[p] # "lobby" => \A s \in arriving : s[2] # p

\* Whoever runs has written its piece to every stream.
Written == \A p \in Player : \A s \in streams[p] : pc[p] # "lobby" => <<s, p>> \in wrote

\* What has been read is mixed in, what has not is to be read, and the readers
\* and the list of players are of the streams that the piece was written to.
Mixed ==
  \A p \in Player :
    /\ pc[p] # "lobby" => /\ toRead[p] \subseteq streams[p]
                          /\ seed[p] = Player \ {Other(p, s) : s \in toRead[p]}
    /\ pc[p] \in {"negotiated", "running", "playing"} => toRead[p] = {}
    /\ pc[p] \in {"running", "playing"} => readers[p] = streams[p]
    /\ pc[p] = "playing" => roster[p] = {p} \cup {Other(p, s) : s \in streams[p]}

\* As long as nothing untimely has happened
TimelyInv == Arrived /\ Paired /\ Heard /\ Written /\ Mixed

\* The inductive invariant
IInv == TypeInv /\ LinksInv /\ Started /\ (~untimely => TimelyInv)

\* The last stream of a dial is a stream of that dial.
LEMMA LatestType ==
  ASSUME NEW d \in Dials, TypeInv, opened[d] >= 1
  PROVE  /\ Latest(d) \in Stream /\ Dial(Latest(d)) = d
         /\ Latest(d)[1] = d[1] /\ Latest(d)[2] = d[2] /\ Latest(d)[3] = opened[d]
BY DialPair, StreamMade, BoundAssumption DEF Latest, Dial, TypeInv, StateOK

\* Once the party is formed, whoever is dialled by somebody is not to be dialled again.
LEMMA HoldsDial ==
  ASSUME OneWay, Paired, formed, NEW d \in Dials
  PROVE  Holds(d)
<1>1. d = <<d[1], d[2]>> /\ d[1] \in Player /\ d[2] \in Player /\ d[1] # d[2]
  BY DialPair
<1>2. <<d[2], d[1]>> \notin Dials
  BY DEF OneWay
<1> QED
  BY <1>1, <1>2 DEF Paired, Holds

\* A party that is formed, timely so far, and a player nothing is still to arrive at.
LEMMA Complete ==
  ASSUME OneWay, TypeInv, LinksInv, Arrived, Paired, formed,
         NEW p \in Player, \A s \in arriving : s[2] # p
  PROVE  /\ \A q \in Player \ {p} : \E s \in streams[p] : Other(p, s) = q
         /\ \A s \in streams[p] : s = Latest(Dial(s)) /\ Works(s)
<1>1. ASSUME NEW d \in Dials, d[1] = p \/ d[2] = p
      PROVE  Latest(d) \in streams[p] /\ Latest(d) \in streams[d[1]] /\ Latest(d) \notin broken
  <2>1. /\ opened[d] >= 1 /\ Latest(d) \in streams[d[1]] /\ Latest(d) \notin broken
    BY <1>1, HoldsDial DEF Holds
  <2>2. opened[d] \in Nat
    BY BoundAssumption DEF TypeInv, StateOK
  <2>3. CASE d[2] = p
    <3>1. Latest(d) \notin arriving
      BY <2>1, <2>3, LatestType
    <3>2. Latest(d) \in streams[p]
      BY <2>1, <2>3, <3>1 DEF Arrived, Standing
    <3> QED
      BY <2>1, <3>2
  <2> QED
    BY <1>1, <2>1, <2>3
<1>2. ASSUME NEW q \in Player \ {p}
      PROVE  \E s \in streams[p] : Other(p, s) = q
  <2>1. PICK d \in Dials : d \in {<<p, q>>, <<q, p>>} /\ opened[d] >= 1
    BY DEF Paired, Holds
  <2>2. Latest(d) \in streams[p]
    BY <1>1, <2>1
  <2>3. Other(p, Latest(d)) = q
    BY <2>1, LatestType DEF Other
  <2> QED
    BY <2>2, <2>3
<1>3. ASSUME NEW s \in streams[p]
      PROVE  s = Latest(Dial(s)) /\ Works(s)
  <2>1. s \in Stream /\ p \in Ends(s)
    BY DEF TypeInv, StateOK, OwnStreams
  <2>2. PICK d \in Dials : d = Dial(s) /\ opened[d] >= 1
    BY <2>1, DialType, HoldsDial DEF Holds
  <2>3. (d[1] = p \/ d[2] = p) /\ d[1] = s[1] /\ d[2] = s[2]
    BY <2>1, <2>2, DialType DEF Ends
  <2>4. /\ Latest(d) \in streams[p] /\ Latest(d) \in streams[d[1]] /\ Latest(d) \notin broken
    BY <1>1, <2>3
  <2>5. s = Latest(d)
    <3>1. Other(p, s) = Other(p, Latest(d))
      BY <2>2, <2>3, LatestType DEF Other
    <3> QED
      BY <2>4, <3>1 DEF TypeInv, OnePerPeer
  <2>6. ASSUME NEW q \in Ends(s), <<s, q>> \in closed
        PROVE  FALSE
    BY <2>3, <2>4, <2>5, <2>6 DEF LinksInv, ClosedGone
  <2>7. closed \cap ({s} \X Ends(s)) = {}
    BY <2>6
  <2> QED
    BY <2>2, <2>4, <2>5, <2>7 DEF Works
<1> QED
  BY <1>2, <1>3


\* Before the party is formed there is nothing that Run has done.
LEMMA Idle ==
  ASSUME Started', ~formed'
  PROVE  Paired' /\ Heard' /\ Written' /\ Mixed'
<1>1. \A p \in Player : pc'[p] = "lobby"
  BY DEF Started
<1>2. Paired'
  BY DEF Paired
<1>3. Heard' /\ Written'
  BY <1>1 DEF Heard, Written
<1>4. Mixed'
  BY <1>1 DEF Mixed
<1> QED
  BY <1>2, <1>3, <1>4

\* Connect: not when the party is formed, for there is a stream to every peer
\* then; and the new stream is arriving.
LEMMA TimelyConnect ==
  ASSUME OneWay, IInv, NEW d \in Dials, Connect(d), ~untimely'
  PROVE  Started' /\ TimelyInv'
<1>1. ~untimely /\ TimelyInv
  BY DEF IInv, Connect
<1>2. d[1] \in Player /\ d[2] \in Player /\ opened[d] \in Nat
  BY DialPair, BoundAssumption DEF IInv, TypeInv, StateOK
<1>3. ~formed
  <2> SUFFICES ASSUME formed PROVE FALSE
    OBVIOUS
  <2>1. opened[d] >= 1 /\ Latest(d) \in streams[d[1]]
    BY <1>1, HoldsDial DEF TimelyInv, Holds
  <2>2. Latest(d)[1] = d[1] /\ Latest(d)[2] = d[2]
    BY DEF Latest
  <2> QED
    BY <2>1, <2>2 DEF Connect
<1>4. Started' /\ ~formed'
  BY <1>3 DEF Started, IInv, Connect, start
<1>5. Arrived'
  <2> SUFFICES ASSUME NEW e \in Dials, Standing(e)', Latest(e)' \notin arriving'
               PROVE  Latest(e)' \in streams'[e[2]]
    BY DEF Arrived
  <2>1. /\ UNCHANGED streams
        /\ adding' = adding \cup {<<d[1], d[2], opened[d] + 1>>}
        /\ arriving' = arriving \cup {<<d[1], d[2], opened[d] + 1>>}
        /\ opened' = [opened EXCEPT ![d] = @ + 1]
    BY DEF Connect
  <2>2. e # d
    BY <2>1 DEF Latest, IInv, TypeInv, StateOK
  <2>3. Latest(e)' = Latest(e)
    BY <2>1, <2>2 DEF Latest, IInv, TypeInv, StateOK
  <2>4. Latest(e) # <<d[1], d[2], opened[d] + 1>>
    BY <2>2, DialPair DEF Latest
  <2> QED
    BY <1>1, <2>1, <2>3, <2>4 DEF TimelyInv, Arrived, Standing
<1> QED
  BY <1>4, <1>5, Idle DEF TimelyInv

\* Connect adds a stream: not when the party is formed either.
LEMMA TimelyConnected ==
  ASSUME OneWay, IInv, NEW s \in Stream, Connected(s), ~untimely'
  PROVE  Started' /\ TimelyInv'
<1>1. ~untimely /\ TimelyInv
  BY DEF IInv, Connected
<1>2. /\ s \in adding /\ Dial(s) \in Dials /\ Dial(s)[1] = s[1] /\ Dial(s)[2] = s[2]
      /\ s[1] # s[2]
  BY DialType DEF Connected
<1>3. ~formed
  <2> SUFFICES ASSUME formed PROVE FALSE
    OBVIOUS
  <2>1. Latest(Dial(s)) \in streams[s[1]]
    BY <1>1, <1>2, HoldsDial DEF TimelyInv, Holds
  <2>2. s = Latest(Dial(s))
    BY <1>2, DialType DEF IInv, LinksInv, LatestHeld, Latest
  <2> QED
    BY <1>2, <2>1, <2>2 DEF IInv, LinksInv, LatestHeld
<1>4. Started' /\ ~formed'
  BY <1>3 DEF Started, IInv, Connected, start
<1>5. Arrived'
  <2> SUFFICES ASSUME NEW e \in Dials, Standing(e)', Latest(e) \notin arriving
               PROVE  Latest(e) \in streams'[e[2]]
    BY DEF Arrived, Connected, Latest
  <2> DEFINE t == Latest(e)
  <2>1. e[2] \in Player /\ e[1] \in Player /\ e[1] # e[2] /\ e = <<e[1], e[2]>>
    BY DialPair
  <2>2. /\ \A u \in streams'[s[1]] : u # s => u \in streams[s[1]]
        /\ \A u \in streams[s[1]] : Other(s[1], u) # Other(s[1], s) => u \in streams'[s[1]]
        /\ \A q \in Player \ {s[1]} : streams'[q] = streams[q]
    BY AddPeerType DEF Connected, IInv, Ends
  <2>3. t \in adding' \cup streams'[e[1]]
    BY DEF Standing, Connected, Latest
  <2>4. t[1] = e[1] /\ t[2] = e[2]
    BY DEF Latest
  <2> HIDE DEF t
  <2>5. t \in adding \cup streams[e[1]]
    BY <1>2, <2>1, <2>2, <2>3 DEF Connected
  <2>6. t \in streams[e[2]]
    BY <1>1, <2>5 DEF TimelyInv, Arrived, Standing, t
  <2>7. t \in streams'[e[2]]
    <3>1. CASE e[2] # s[1]
      BY <2>1, <2>2, <2>6, <3>1
    <3>2. CASE e[2] = s[1]
      <4>1. e[1] # s[2]
        BY <2>1, <3>2, <1>2 DEF OneWay, Dial
      <4>2. Other(s[1], t) = e[1]
        BY <2>1, <2>4, <3>2 DEF Other
      <4>3. Other(s[1], s) = s[2]
        BY DEF Other
      <4> QED
        BY <2>2, <2>6, <3>2, <4>1, <4>2, <4>3
    <3> QED
      BY <3>1, <3>2
  <2> QED
    BY <2>7 DEF t
<1> QED
  BY <1>4, <1>5, Idle DEF TimelyInv

\* A Connect that fails: not when the party is formed either, and the stream is
\* then not held, wherever it has arrived.
LEMMA TimelyConnectFails ==
  ASSUME IInv, NEW s \in Stream, ConnectFails(s), ~untimely'
  PROVE  Started' /\ TimelyInv'
<1>1. ~untimely /\ TimelyInv /\ ~formed
  BY DEF IInv, ConnectFails, Faulty, Untimely
<1>2. Started' /\ ~formed'
  BY <1>1 DEF Started, IInv, ConnectFails, start
<1>3. /\ UNCHANGED <<streams, opened>> /\ adding' = adding \ {s}
      /\ arriving' \in {arriving, arriving \ {s}}
  BY DEF ConnectFails
<1>4. Arrived'
  <2> SUFFICES ASSUME NEW e \in Dials, Standing(e)', Latest(e) \notin arriving'
               PROVE  Latest(e) \in streams[e[2]]
    BY <1>3 DEF Arrived, Latest
  <2>1. s \in adding /\ s = Latest(Dial(s)) /\ s \notin streams[s[1]]
    BY DialType DEF ConnectFails, IInv, LinksInv, LatestHeld, Latest
  <2>2. Latest(e) \in adding' \cup streams[e[1]] /\ Latest(e)[1] = e[1]
    BY <1>3 DEF Standing, Latest
  <2>3. Latest(e) # s
    BY <1>3, <2>1, <2>2
  <2> QED
    BY <1>1, <1>3, <2>2, <2>3 DEF TimelyInv, Arrived, Standing
<1> QED
  BY <1>2, <1>4, Idle DEF TimelyInv

\* GameHandler, in time: the stream takes the place of an earlier one, and of a
\* player that has not begun.
LEMMA TimelyGameHandler ==
  ASSUME OneWay, IInv, NEW s \in Stream, GameHandler(s), ~untimely'
  PROVE  Started' /\ TimelyInv'
<1>1. /\ ~untimely /\ TimelyInv
      /\ \A t \in streams[s[2]] : t[1] = s[1] => ~(t[3] > s[3])
  BY DEF IInv, GameHandler, Untimely
<1>2. /\ s \in arriving /\ Dial(s) \in Dials /\ Dial(s)[1] = s[1] /\ Dial(s)[2] = s[2]
      /\ s[1] # s[2] /\ s[1] \in Player /\ s[2] \in Player /\ s[3] \in Nat
      /\ s = <<s[1], s[2], s[3]>>
  BY DialType DEF GameHandler
<1>3. UNCHANGED <<adding, opened, closed, broken, formed, pc, wrote, toRead, seed, readers, roster>>
  BY DEF GameHandler, start
<1>4. /\ s \in streams'[s[2]]
      /\ \A t \in streams[s[2]] : Other(s[2], t) # Other(s[2], s) => t \in streams'[s[2]]
      /\ \A t \in streams'[s[2]] : t # s => t \in streams[s[2]]
      /\ \A q \in Player \ {s[2]} : streams'[q] = streams[q]
  BY AddPeerType DEF GameHandler, IInv, Ends
<1>5. pc[s[2]] = "lobby"
  BY <1>1, <1>2 DEF TimelyInv, Heard
<1>6. Other(s[2], s) = s[1]
  BY <1>2 DEF Other
<1>7. \A t \in streams[s[2]] : t \in Stream /\ s[2] \in Ends(t)
  BY <1>2 DEF IInv, TypeInv, StateOK, OwnStreams
<1>8. Arrived'
  <2> SUFFICES ASSUME NEW e \in Dials, Standing(e)', Latest(e) \notin arriving'
               PROVE  Latest(e) \in streams'[e[2]]
    BY <1>3 DEF Arrived, Latest
  <2> DEFINE t == Latest(e)
  <2>1. e[2] \in Player /\ e[1] \in Player /\ e[1] # e[2] /\ e = <<e[1], e[2]>>
    BY DialPair
  <2>2. t[1] = e[1] /\ t[2] = e[2] /\ t[3] = opened[e]
    BY DEF Latest
  <2>3. t \in adding \cup streams'[e[1]]
    BY <1>3 DEF Standing, Latest
  <2>4. \A u \in streams'[e[1]] : u[1] = e[1] => u \in streams[e[1]]
    BY <1>2, <1>4, <2>1
  <2>5. CASE t = s
    BY <1>4, <2>2, <2>5
  <2>6. CASE t # s
    <3>1. t \in streams[e[2]]
      <4>1. Standing(e)
        BY <2>2, <2>3, <2>4 DEF Standing
      <4>2. t \notin arriving
        BY <2>6 DEF GameHandler
      <4> QED
        BY <1>1, <4>1, <4>2 DEF TimelyInv, Arrived
    <3>2. CASE e[2] # s[2]
      BY <1>4, <2>1, <3>1, <3>2
    <3>3. CASE e[2] = s[2] /\ e[1] # s[1]
      <4>1. Other(s[2], t) = e[1]
        BY <2>1, <2>2, <3>3 DEF Other
      <4> QED
        BY <1>4, <1>6, <3>1, <3>3, <4>1
    <3>4. CASE e[2] = s[2] /\ e[1] = s[1]
      <4>1. t \in Stream /\ Dial(s) = e
        BY <1>7, <2>1, <3>1, <3>4 DEF Dial
      <4>2. s[3] <= opened[e] /\ t[3] = opened[e] /\ t[3] \in Nat /\ ~(t[3] > s[3])
        <5>1. s[3] <= opened[Dial(s)]
          BY <1>2 DEF IInv, LinksInv, Numbered
        <5>2. ~(t[3] > s[3])
          BY <1>1, <2>2, <3>1, <3>4
        <5> QED
          BY <2>2, <4>1, <5>1, <5>2, DialType
      <4>3. t[3] = s[3]
        BY <1>2, <4>2
      <4>4. t = s
        BY <1>2, <2>2, <3>4, <4>1, <4>3, DialType
      <4> QED
        BY <2>6, <4>4
    <3> QED
      BY <3>2, <3>3, <3>4
  <2> QED
    BY <2>5, <2>6
<1>9. Paired'
  <2>1. ASSUME NEW d, Holds(d) PROVE Holds(d)'
    <3>1. /\ d \in Dials /\ opened[d] >= 1 /\ Latest(d) \in streams[d[1]] /\ Latest(d) \notin broken
      BY <2>1 DEF Holds
    <3>2. d[1] \in Player /\ d[1] # d[2] /\ d = <<d[1], d[2]>>
      BY <3>1, DialPair
    <3>3. Latest(d) \in streams'[d[1]]
      <4>1. CASE d[1] = s[2]
        <5>1. d[2] # s[1]
          BY <1>2, <3>1, <3>2, <4>1 DEF OneWay, Dial
        <5>2. Other(s[2], Latest(d)) = d[2]
          BY <3>2, <4>1 DEF Other, Latest
        <5> QED
          BY <1>4, <1>6, <3>1, <4>1, <5>1, <5>2
      <4>2. CASE d[1] # s[2]
        BY <1>4, <3>1, <3>2, <4>2
      <4> QED
        BY <4>1, <4>2
    <3> QED
      BY <1>3, <3>1, <3>3 DEF Holds, Latest
  <2> QED
    BY <1>1, <1>3, <2>1 DEF TimelyInv, Paired
<1>10. Started' /\ Heard'
  BY <1>1, <1>3 DEF TimelyInv, Heard, Started, IInv, GameHandler
<1>11. Written'
  BY <1>1, <1>3, <1>4, <1>5 DEF TimelyInv, Written
<1>12. Mixed'
  <2> SUFFICES ASSUME NEW p \in Player, pc[p] # "lobby"
               PROVE  streams'[p] = streams[p]
    BY <1>1, <1>3 DEF TimelyInv, Mixed
  <2> QED
    BY <1>4, <1>5
<1> QED
  BY <1>8, <1>9, <1>10, <1>11, <1>12 DEF TimelyInv

\* Disconnect, in time, is before the party is formed.
LEMMA TimelyDisconnect ==
  ASSUME OneWay, IInv, NEW d \in Dials, Disconnect(d), ~untimely'
  PROVE  Started' /\ TimelyInv'
<1>1. ~untimely /\ TimelyInv /\ ~formed
  BY DEF IInv, Disconnect, Faulty, Untimely
<1>2. Started' /\ ~formed'
  BY <1>1 DEF Started, IInv, Disconnect, start
<1>3. d[1] \in Player
  BY DialPair
<1>4. /\ streams'[d[1]] = streams[d[1]] \ To(d[1], d[2])
      /\ \A q \in Player \ {d[1]} : streams'[q] = streams[q]
  BY <1>3 DEF Disconnect, IInv, TypeInv, StateOK
<1>5. Arrived'
  <2> SUFFICES ASSUME NEW e \in Dials, Standing(e)', Latest(e) \notin arriving
               PROVE  Latest(e) \in streams'[e[2]]
    BY DEF Arrived, Disconnect, Latest
  <2>1. e[1] \in Player /\ e[2] \in Player /\ e[1] # e[2] /\ e = <<e[1], e[2]>>
    BY DialPair
  <2>2. Latest(e) \in adding \cup streams'[e[1]]
    BY DEF Standing, Disconnect, Latest
  <2>3. Latest(e) \in streams[e[2]]
    BY <1>1, <1>4, <2>1, <2>2 DEF TimelyInv, Arrived, Standing
  <2>4. CASE e[2] # d[1]
    BY <1>4, <2>1, <2>3, <2>4
  <2>5. CASE e[2] = d[1]
    <3>1. Latest(e) \notin To(d[1], d[2])
      <4>1. Latest(e)[1] = e[1] /\ d[1] # e[1]
        BY <2>1, <2>5 DEF Latest
      <4> QED
        BY <4>1, Dropped, DialType DEF IInv
    <3> QED
      BY <1>4, <2>3, <2>5, <3>1
  <2> QED
    BY <2>4, <2>5
<1> QED
  BY <1>2, <1>5, Idle DEF TimelyInv

\* So is the loss of a connection.
LEMMA TimelyLose ==
  ASSUME IInv, NEW d \in Dials, Lose(d), ~untimely'
  PROVE  Started' /\ TimelyInv'
<1>1. ~untimely /\ TimelyInv /\ ~formed
  BY DEF IInv, Lose, Faulty, Untimely
<1>2. Started' /\ ~formed'
  BY <1>1 DEF Started, IInv, Lose, start
<1>3. Arrived'
  BY <1>1 DEF TimelyInv, Arrived, Standing, Latest, Lose
<1> QED
  BY <1>2, <1>3, Idle DEF TimelyInv

\* Form: a stream that who opened it holds is the last one.
LEMMA TimelyForm ==
  ASSUME IInv, Form, ~untimely'
  PROVE  Started' /\ TimelyInv'
<1>1. /\ ~untimely /\ TimelyInv /\ ~formed
      /\ \A p \in Player : \A s \in streams[p] : s[1] = p => s \notin broken
  BY DEF IInv, Form, Untimely
<1>2. UNCHANGED <<streams, adding, arriving, opened, closed, broken, pc, toRead, wrote,
                  seed, readers, roster>>
  BY DEF Form, start, links
<1>3. \A p \in Player : pc[p] = "lobby"
  BY <1>1 DEF IInv, Started
<1>4. Arrived'
  BY <1>1, <1>2 DEF TimelyInv, Arrived, Standing, Latest
<1>5. Started' /\ Heard' /\ Written' /\ Mixed'
  <2>1. Started' /\ Heard' /\ Written'
    BY <1>2, <1>3 DEF Started, Heard, Written
  <2>2. Mixed'
    BY <1>2, <1>3 DEF Mixed
  <2> QED
    BY <2>1, <2>2
<1>6. ASSUME NEW p \in Player, NEW q \in Player, p # q
      PROVE  Holds(<<p, q>>)' \/ Holds(<<q, p>>)'
  <2>1. PICK s \in To(p, q) \cup To(q, p) : s \in streams[s[1]]
    BY <1>6 DEF Form
  <2>2. s \in Stream /\ p \in Ends(s) /\ q \in Ends(s)
    BY <2>1 DEF To, IInv, TypeInv, StateOK, OwnStreams
  <2>3. Dial(s) \in {<<p, q>>, <<q, p>>}
    BY <2>2, <1>6, DialType DEF Ends, Dial
  <2>4. s[3] = opened[Dial(s)] /\ s \notin broken
    BY <1>1, <2>1, <2>2, DialType DEF IInv, LinksInv, LatestHeld
  <2>5. s = Latest(Dial(s)) /\ opened[Dial(s)] >= 1
    <3>1. s[3] \in 1..MaxDials
      BY <2>2, StreamParts
    <3>2. s[3] >= 1
      BY <3>1, BoundAssumption
    <3> QED
      BY <2>2, <2>4, <3>2, DialType DEF Latest
  <2>6. Holds(Dial(s))
    BY <2>1, <2>2, <2>4, <2>5, DialType DEF Holds
  <2> QED
    BY <1>2, <2>3, <2>6 DEF Holds, Latest
<1>7. Paired'
  BY <1>6 DEF Paired
<1> QED
  BY <1>4, <1>5, <1>7 DEF TimelyInv

\* What the steps of Run find and leave alone.
LEMMA RunFrame ==
  ASSUME IInv, UNCHANGED <<streams, adding, arriving, opened, closed, broken, formed>>,
         ~untimely, formed
  PROVE  Arrived' /\ Paired'
<1>1. Arrived'
  BY DEF IInv, TimelyInv, Arrived, Standing, Latest
<1>2. Paired'
  BY DEF IInv, TimelyInv, Paired, Holds, Latest
<1> QED
  BY <1>1, <1>2

\* negotiateSeed, in time: there is a working stream to everybody to write to.
LEMMA TimelyBegin ==
  ASSUME OneWay, IInv, NEW p \in Player, Begin(p), ~untimely'
  PROVE  Started' /\ TimelyInv'
<1>1. ~untimely /\ TimelyInv /\ formed /\ pc[p] = "lobby" /\ \A s \in arriving : s[2] # p
  BY DEF IInv, Begin, Untimely
<1>2. /\ UNCHANGED <<streams, adding, arriving, opened, closed, broken, formed, readers, roster>>
      /\ wrote' = wrote \cup ({s \in streams[p] : Works(s)} \X {p})
  BY DEF Begin, links
<1>3. /\ toRead'[p] = streams[p] /\ seed'[p] = {p} /\ pc'[p] = "negotiating"
      /\ \A q \in Player \ {p} : toRead'[q] = toRead[q] /\ seed'[q] = seed[q] /\ pc'[q] = pc[q]
  BY DEF Begin, IInv, TypeInv, StateOK
<1>4. /\ \A q \in Player \ {p} : \E s \in streams[p] : Other(p, s) = q
      /\ \A s \in streams[p] : Works(s)
  BY <1>1, Complete DEF IInv, TimelyInv
<1>5. Arrived' /\ Paired'
  BY <1>1, <1>2, RunFrame
<1>6. Started'
  BY <1>1, <1>2 DEF Started
<1>7. Heard'
  BY <1>1, <1>2, <1>3 DEF TimelyInv, Heard
<1>8. Written'
  <2> SUFFICES ASSUME NEW q \in Player, NEW s \in streams[q], pc'[q] # "lobby"
               PROVE  <<s, q>> \in wrote'
    BY <1>2 DEF Written
  <2>1. CASE q = p
    BY <1>2, <1>4, <2>1
  <2>2. CASE q # p
    BY <1>1, <1>2, <1>3, <2>2 DEF TimelyInv, Written
  <2> QED
    BY <2>1, <2>2
<1>9. Mixed'
  <2>1. \A s \in streams[p] : Other(p, s) \in Player /\ Other(p, s) # p
    BY OtherEnd DEF IInv, TypeInv, StateOK, OwnStreams
  <2>2. seed'[p] = Player \ {Other(p, s) : s \in streams[p]}
    BY <1>3, <1>4, <2>1
  <2>3. ASSUME NEW q \in Player, q # p
        PROVE  UNCHANGED <<streams, toRead[q], seed[q], pc[q], readers, roster>>
    BY <1>2, <1>3, <2>3
  <2> QED
    BY <1>1, <1>2, <1>3, <2>2, <2>3 DEF TimelyInv, Mixed
<1> QED
  BY <1>5, <1>6, <1>7, <1>8, <1>9 DEF TimelyInv

\* A player that negotiates in time holds a working stream to everybody.
LEMMA Running ==
  ASSUME OneWay, IInv, ~untimely, NEW p \in Player, pc[p] # "lobby"
  PROVE  /\ formed
         /\ \A q \in Player \ {p} : \E s \in streams[p] : Other(p, s) = q
         /\ \A s \in streams[p] : s = Latest(Dial(s)) /\ Works(s)
<1>1. formed /\ \A s \in arriving : s[2] # p
  BY DEF IInv, Started, TimelyInv, Heard
<1> QED
  BY <1>1, Complete DEF IInv, TimelyInv

\* A read from a stream that works gets a piece that is not mixed in yet: the
\* exclusive or adds it, and no read fails.
LEMMA TimelyRead ==
  ASSUME OneWay, IInv, NEW p \in Player, NEW s \in Stream, ReadPiece(p, s) \/ ReadFails(p, s),
         ~untimely'
  PROVE  Started' /\ TimelyInv'
<1>1. /\ ~untimely /\ TimelyInv /\ pc[p] = "negotiating" /\ s \in toRead[p]
      /\ UNCHANGED <<streams, adding, arriving, opened, closed, broken, formed, pc, wrote,
                     readers, roster>>
  BY DEF IInv, ReadPiece, ReadFails, links
<1>2. formed /\ toRead[p] \subseteq streams[p] /\ seed[p] = Player \ {Other(p, t) : t \in toRead[p]}
  BY <1>1 DEF IInv, Started, TimelyInv, Mixed
<1>3. s \in Stream /\ p \in Ends(s) /\ Works(s)
  BY <1>1, <1>2, Running DEF IInv, TypeInv, StateOK, OwnStreams
<1>4. Other(p, s) \in Ends(s) /\ Other(p, s) \in Player
  BY <1>3, OtherEnd
<1>5. ~ReadFails(p, s)
  BY <1>3, <1>4 DEF ReadFails, Works
<1>6. /\ toRead' = [toRead EXCEPT ![p] = @ \ {s}]
      /\ seed' = [seed EXCEPT ![p] = SymDiff(@, {Other(p, s)})]
  BY <1>5 DEF ReadPiece, ReadAt
<1>7. /\ toRead'[p] = toRead[p] \ {s} /\ seed'[p] = seed[p] \cup {Other(p, s)}
      /\ \A q \in Player \ {p} : toRead'[q] = toRead[q] /\ seed'[q] = seed[q]
  BY <1>1, <1>2, <1>6 DEF IInv, TypeInv, StateOK, SymDiff
<1>8. {Other(p, t) : t \in toRead'[p]} = {Other(p, t) : t \in toRead[p]} \ {Other(p, s)}
  BY <1>1, <1>2, <1>7 DEF IInv, TypeInv, OnePerPeer
<1>9. Arrived' /\ Paired'
  BY <1>1, <1>2, RunFrame
<1>10. Started' /\ Heard' /\ Written'
  BY <1>1, <1>2 DEF Started, TimelyInv, Heard, Written
<1>11. Mixed'
  <2>1. toRead'[p] \subseteq streams[p] /\ seed'[p] = Player \ {Other(p, t) : t \in toRead'[p]}
    BY <1>2, <1>4, <1>7, <1>8
  <2> QED
    BY <1>1, <1>7, <2>1 DEF TimelyInv, Mixed
<1> QED
  BY <1>9, <1>10, <1>11 DEF TimelyInv

\* The readers and the list of players are of the same streams.
LEMMA TimelyRun ==
  ASSUME OneWay, IInv, NEW p \in Player,
         Negotiated(p) \/ StartReaders(p) \/ PlayersIDs(p), ~untimely'
  PROVE  Started' /\ TimelyInv'
<1>1. /\ ~untimely /\ TimelyInv /\ pc[p] # "lobby" /\ formed
      /\ UNCHANGED <<streams, adding, arriving, opened, closed, broken, formed, toRead, wrote,
                     seed>>
  BY DEF IInv, Started, Negotiated, StartReaders, PlayersIDs, links
<1>2. \A q \in Player \ {p} : pc'[q] = pc[q] /\ readers'[q] = readers[q] /\ roster'[q] = roster[q]
  BY DEF IInv, TypeInv, StateOK, Negotiated, StartReaders, PlayersIDs
<1>3. Arrived' /\ Paired'
  BY <1>1, RunFrame
<1>4. Started'
  BY <1>1 DEF Started
<1>5. \A q \in Player : pc'[q] # "lobby" => pc[q] # "lobby"
  BY <1>1, <1>2
<1>6. Heard' /\ Written'
  BY <1>1, <1>5 DEF TimelyInv, Heard, Written
<1>7. Mixed'
  <2>1. CASE Negotiated(p)
    <3>1. pc'[p] = "negotiated" /\ toRead[p] = {} /\ UNCHANGED <<readers, roster>>
      BY <2>1 DEF Negotiated, IInv, TypeInv, StateOK
    <3> QED
      BY <1>1, <1>2, <3>1 DEF TimelyInv, Mixed
  <2>2. CASE StartReaders(p)
    <3>1. /\ pc[p] = "negotiated" /\ pc'[p] = "running" /\ readers'[p] = streams[p]
          /\ UNCHANGED roster
      BY <2>2 DEF StartReaders, IInv, TypeInv, StateOK
    <3> QED
      BY <1>1, <1>2, <3>1 DEF TimelyInv, Mixed
  <2>3. CASE PlayersIDs(p)
    <3>1. /\ pc[p] = "running" /\ pc'[p] = "playing" /\ UNCHANGED readers
          /\ roster'[p] = {p} \cup {Other(p, s) : s \in streams[p]}
      BY <2>3 DEF PlayersIDs, IInv, TypeInv, StateOK
    <3> QED
      BY <1>1, <1>2, <3>1 DEF TimelyInv, Mixed
  <2> QED
    BY <2>1, <2>2, <2>3
<1> QED
  BY <1>3, <1>4, <1>6, <1>7 DEF TimelyInv

\* No step lets a player run before the party is formed.
LEMMA StartedStep ==
  ASSUME TypeInv, Started, [Next]_vars
  PROVE  Started'
<1>1. ASSUME NEW p \in Player, Run(p) PROVE Started'
  <2>1. formed
    BY <1>1 DEF Run, Begin, Started, ReadPiece, ReadFails, Negotiated, StartReaders, PlayersIDs
  <2> QED
    BY <1>1, <2>1, RunLinks DEF Started
<1>2. ASSUME UNCHANGED pc, formed => formed' PROVE Started'
  BY <1>2 DEF Started
<1>3. ASSUME NEW d \in Dials, Connect(d) \/ Disconnect(d) \/ Lose(d) PROVE Started'
  BY <1>2, <1>3 DEF Connect, Disconnect, Lose, start
<1>4. ASSUME NEW s \in Stream, Connected(s) \/ ConnectFails(s) \/ GameHandler(s) PROVE Started'
  BY <1>2, <1>4 DEF Connected, ConnectFails, GameHandler, start
<1>5. ASSUME Form PROVE Started'
  BY <1>2, <1>5 DEF Form, start
<1>6. CASE UNCHANGED vars
  BY <1>2, <1>6 DEF vars, start
<1> QED
  BY <1>1, <1>3, <1>4, <1>5, <1>6 DEF Next

\* No step breaks what the ends of a stream know of each other.
LEMMA LinksStep ==
  ASSUME OneWay, TypeInv, LinksInv, [Next]_vars
  PROVE  LinksInv'
<1>1. CASE Form \/ (\E d \in Dials : Lose(d)) \/ UNCHANGED vars
  BY <1>1, LinksSame DEF Form, Lose, links, vars
<1>2. ASSUME NEW p \in Player, Run(p) PROVE LinksInv'
  BY <1>2, RunLinks, LinksSame
<1> QED
  BY <1>1, <1>2, LinksConnect, LinksConnected, LinksConnectFails, LinksGameHandler,
     LinksDisconnect DEF Next

\* A step that is in time keeps what holds in time.
LEMMA TimelyStep ==
  ASSUME OneWay, IInv, [Next]_vars, ~untimely'
  PROVE  TimelyInv'
<1>1. CASE UNCHANGED vars
  <2>1. UNCHANGED <<streams, adding, arriving, opened, closed, broken, formed, pc, toRead,
                    wrote, seed, readers, roster, untimely>>
    BY <1>1 DEF vars, links, start
  <2>2. TimelyInv
    BY <2>1 DEF IInv
  <2>3. Arrived' /\ Paired'
    BY <2>1, <2>2 DEF TimelyInv, Arrived, Standing, Paired, Holds, Latest
  <2>4. Heard' /\ Written' /\ Mixed'
    BY <2>1, <2>2 DEF TimelyInv, Heard, Written, Mixed
  <2> QED
    BY <2>3, <2>4 DEF TimelyInv
<1>2. ASSUME NEW p \in Player, Run(p) PROVE TimelyInv'
  BY <1>2, TimelyBegin, TimelyRead, TimelyRun DEF Run
<1> QED
  BY <1>1, <1>2, TimelyConnect, TimelyConnected, TimelyConnectFails, TimelyGameHandler,
     TimelyDisconnect, TimelyLose, TimelyForm DEF Next

\* Init is an instance of the invariant.
LEMMA IInvInit == Init => IInv
<1> SUFFICES ASSUME Init PROVE IInv
  OBVIOUS
<1>1. TypeInv
  BY TypeInit
<1>2. LinksInv
  BY DEF Init, LinksInv, Numbered, LatestHeld, ClosedGone
<1>3. Started /\ ~formed
  BY DEF Init, Started
<1>4. Arrived
  <2>1. ASSUME NEW d \in Dials PROVE adding \cup streams[d[1]] = {}
    BY DialsAssumption DEF Init
  <2> QED
    BY <2>1, Zenon DEF Arrived, Standing
<1>5. Paired /\ Heard /\ Written /\ Mixed
  BY DEF Init, Paired, Heard, Written, Mixed
<1> QED
  BY <1>1, <1>2, <1>3, <1>4, <1>5 DEF IInv, TimelyInv

\* The invariant is inductive.
LEMMA IInvStep == OneWay /\ IInv /\ [Next]_vars => IInv'
<1> SUFFICES ASSUME OneWay, IInv, [Next]_vars PROVE IInv'
  OBVIOUS
<1>1. TypeInv' /\ LinksInv' /\ Started'
  BY TypeStep, LinksStep, StartedStep DEF IInv
<1>2. ~untimely' => TimelyInv'
  BY TimelyStep
<1> QED
  BY <1>1, <1>2 DEF IInv

\* The invariant holds, with dials in one direction.
LEMMA StartInv == ASSUME OneWay PROVE Spec => []IInv
<1>1. IInv /\ [Next]_vars => IInv'
  BY IInvStep
<1> QED
  BY IInvInit, <1>1, PTL DEF Spec

\* Nothing is left to read, so all pieces are mixed in, and all peers are listed.
LEMMA InvAgreed == OneWay /\ IInv => StartAgreed
<1> SUFFICES ASSUME OneWay, IInv, ~untimely, NEW p \in Playing
             PROVE  seed[p] = Player /\ roster[p] = Player
  BY DEF StartAgreed
<1>1. p \in Player /\ pc[p] = "playing"
  BY DEF Playing
<1>2. /\ toRead[p] = {} /\ seed[p] = Player \ {Other(p, s) : s \in toRead[p]}
      /\ roster[p] = {p} \cup {Other(p, s) : s \in streams[p]}
  BY <1>1 DEF IInv, TimelyInv, Mixed
<1>3. \A q \in Player \ {p} : \E s \in streams[p] : Other(p, s) = q
  BY <1>1, Running
<1>4. \A s \in streams[p] : Other(p, s) \in Player
  BY <1>1, OtherEnd DEF IInv, TypeInv, StateOK, OwnStreams
<1> QED
  BY <1>1, <1>2, <1>3, <1>4

\* Both ends hold the last stream between them, and read it.
LEMMA InvSame == OneWay /\ IInv => SameStream
<1> SUFFICES ASSUME OneWay, IInv, ~untimely, NEW p \in Playing, NEW q \in Playing, p # q
             PROVE  /\ To(p, q) # {} /\ To(p, q) = To(q, p)
                    /\ \A s \in To(p, q) : Works(s)
                    /\ To(p, q) \subseteq readers[p]
  BY DEF SameStream
<1>1. p \in Player /\ q \in Player /\ pc[p] = "playing" /\ pc[q] = "playing"
  BY DEF Playing
<1>2. ASSUME NEW x \in Player, NEW y \in Player, x # y, pc[x] = "playing"
      PROVE  \E s \in streams[x] : Other(x, s) = y /\ To(x, y) = {s}
  <2>1. PICK s \in streams[x] : Other(x, s) = y
    BY <1>2, Running
  <2>2. To(x, y) = {s}
    BY <1>2, <2>1, ToIsOther DEF IInv, TypeInv, OnePerPeer
  <2> QED
    BY <2>1, <2>2
<1>3. PICK s \in streams[p] : Other(p, s) = q /\ To(p, q) = {s}
  BY <1>1, <1>2
<1>4. PICK t \in streams[q] : Other(q, t) = p /\ To(q, p) = {t}
  BY <1>1, <1>2
<1>5. s = t
  <2>1. s = Latest(Dial(s)) /\ t = Latest(Dial(t))
    BY <1>1, Running
  <2>2. s \in Stream /\ t \in Stream /\ Ends(s) = {p, q} /\ Ends(t) = {p, q}
    BY <1>1, <1>3, <1>4, OtherEnd DEF IInv, TypeInv, StateOK, OwnStreams
  <2>3. Dial(s) \in Dials /\ Dial(t) \in Dials /\ Dial(s) \in {<<p, q>>, <<q, p>>}
        /\ Dial(t) \in {<<p, q>>, <<q, p>>}
    BY <2>2, DialType DEF Ends, Dial
  <2>4. Dial(s) = Dial(t)
    BY <2>3 DEF OneWay
  <2> QED
    BY <2>1, <2>4
<1>6. Works(s)
  BY <1>1, Running
<1>7. readers[p] = streams[p]
  BY <1>1 DEF IInv, TimelyInv, Mixed
<1> QED
  BY <1>3, <1>4, <1>5, <1>6, <1>7

\* StartAgreed for all constants with dials in one direction: negotiateSeed and
\* PlayersIDs give all players one seed and one list of everybody.
THEOREM StartAgrees ==
  ASSUME OneWay
  PROVE  Spec => []StartAgreed
<1>1. IInv => StartAgreed
  BY InvAgreed
<1> QED
  BY StartInv, <1>1, PTL

\* SameStream for all constants with dials in one direction: every two players
\* that play hold the two ends of one working stream, and read it.
THEOREM StartSameStream ==
  ASSUME OneWay
  PROVE  Spec => []SameStream
<1>1. IInv => SameStream
  BY InvSame
<1> QED
  BY StartInv, <1>1, PTL
=============================================================================
