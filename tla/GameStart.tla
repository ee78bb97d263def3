----------------------------- MODULE GameStart -----------------------------
(***************************************************************************)
(* protocol/game: how the players of a party come to the streams and the   *)
(* seed that a game starts with.  GameService.Connect and GameHandler put  *)
(* a new stream into the maps of its two ends, each at a time of its own;  *)
(* Disconnect takes it out of one; and once the party is formed each       *)
(* player calls GameInstance.Run, which negotiates a seed over the streams *)
(* registered then and starts their readers, and PlayersIDs.               *)
(*                                                                         *)
(* Who dials whom is up to the gathering (GatherService, JoinService), and *)
(* so is when the party is formed: when for every two players the one that *)
(* dialled holds a stream to the other.                                    *)
(***************************************************************************)
EXTENDS Integers, FiniteSets, FiniteSetsExt

CONSTANTS Player,
          Dials,      \* the pairs <<p, q>> such that p is asked to connect to q
          MaxDials,   \* bound: streams that p opens to q
          MaxFaults   \* bound: heartbeats that die, connections lost, failed writes

ASSUME PlayerAssumption == IsFiniteSet(Player)
ASSUME DialsAssumption == Dials \subseteq {d \in Player \X Player : d[1] # d[2]}
ASSUME BoundAssumption == MaxDials \in Nat /\ MaxFaults \in Nat

\* A stream is who opened it to whom, and how many he had opened.
Stream == {<<d[1], d[2], k>> : d \in Dials, k \in 1..MaxDials}

Ends(s) == {s[1], s[2]}

Other(p, s) == IF s[1] = p THEN s[2] ELSE s[1]

VARIABLES
  streams,   \* gi.streams
  adding,    \* streams that Connect has opened and not yet added
  arriving,  \* streams whose GameHandler has not yet added them
  opened,    \* how many streams p has opened to q
  closed,    \* the ends <<s, p>> that p has closed
  broken,    \* streams that went with a lost connection
  formed,    \* has the facilitator found the party?
  pc,        \* where Run is
  toRead,    \* the streams that negotiateSeed still has to read from
  wrote,     \* the ends <<s, p>> at which p has written its piece of the seed
  seed,      \* the players whose pieces are in the exclusive or
  readers,   \* the streams that Run has started a readLoop for
  roster,    \* the players that RunGame makes a snake for
  faults,    \* faults so far, see MaxFaults
  untimely   \* see Untimely

links == <<streams, adding, arriving, opened, closed, broken>>
start == <<pc, toRead, wrote, seed, readers, roster>>
vars == <<links, formed, start, faults, untimely>>

Init == /\ streams = [p \in Player |-> {}]
        /\ adding = {} /\ arriving = {}
        /\ opened = [d \in Dials |-> 0]
        /\ closed = {} /\ broken = {}
        /\ formed = FALSE
        /\ pc = [p \in Player |-> "lobby"]
        /\ toRead = [p \in Player |-> {}]
        /\ wrote = {}
        /\ seed = [p \in Player |-> {}]
        /\ readers = [p \in Player |-> {}]
        /\ roster = [p \in Player |-> {}]
        /\ faults = 0
        /\ untimely = FALSE

\* gi.mu, which negotiateSeed keeps until it has read everything.
Unlocked(p) == pc[p] # "negotiating"

\* The streams of p's map to q, one at most
To(p, q) == {s \in streams[p] : q \in Ends(s)}

\* Variant with a bug: a peer's first stream stays.
AddPeerOnce(p, s) ==
  /\ Unlocked(p)
  /\ streams' = [streams EXCEPT ![p] = IF To(p, Other(p, s)) = {} THEN @ \cup {s} ELSE @]

\* Variant with a bug: the map is of streams, not of peers.
AddPeerBeside(p, s) ==
  /\ Unlocked(p)
  /\ streams' = [streams EXCEPT ![p] = @ \cup {s}]

\* AddPeer: the stream takes the place of an earlier one of the same peer,
\* which is not closed.
AddPeer(p, s) ==
  /\ Unlocked(p)
  /\ streams' = [streams EXCEPT ![p] = (@ \ To(p, Other(p, s))) \cup {s}]

\* What the players should be spared: see Begin, GameHandler, Faulty
\* and Form.
Untimely(b) == untimely' = (untimely \/ b)

\* A fault that comes when the party is formed already
Faulty == /\ faults < MaxFaults
          /\ faults' = faults + 1
          /\ Untimely(formed)

-----------------------------------------------------------------------------
\* GameService

\* Connect, on the report of a heartbeat that is new or was dead: NewStream, ...
Connect(d) ==
  LET s == <<d[1], d[2], opened[d] + 1>>
  IN /\ pc[d[1]] = "lobby"
     /\ opened[d] < MaxDials
     /\ \A t \in adding \cup streams[d[1]] : t[1] = d[1] => t[2] # d[2]
     /\ opened' = [opened EXCEPT ![d] = @ + 1]
     /\ adding' = adding \cup {s}
     /\ arriving' = arriving \cup {s}
     /\ UNCHANGED <<streams, closed, broken, formed, start, faults, untimely>>

\* ... s.Write(nil), and AddPeer
Connected(s) ==
  /\ s \in adding
  /\ adding' = adding \ {s}
  /\ AddPeer(s[1], s)
  /\ UNCHANGED <<arriving, opened, closed, broken, formed, start, faults, untimely>>

\* The write fails, and Connect returns with the stream neither added nor closed:
\* the far end may hold it, or still be to add it, and it may be lost or not.
ConnectFails(s) ==
  /\ s \in adding
  /\ adding' = adding \ {s}
  /\ arriving' \in {arriving, arriving \ {s}}
  /\ broken' \in {broken, broken \cup {s}}
  /\ Faulty
  /\ UNCHANGED <<streams, opened, closed, formed, start>>

\* The callback of a stream runs whenever it does: after one of a later
\* stream, perhaps.
GameHandler(s) ==
  /\ s \in arriving
  /\ arriving' = arriving \ {s}
  /\ AddPeer(s[2], s)
  /\ Untimely(\E t \in streams[s[2]] : t[1] = s[1] /\ t[3] > s[3])
  /\ UNCHANGED <<adding, opened, closed, broken, formed, start, faults>>

\* Variant with a bug: the stream is closed and stays in the map.
DisconnectKeeps(d) ==
  /\ pc[d[1]] = "lobby" /\ To(d[1], d[2]) # {}
  /\ Faulty
  /\ closed' = closed \cup (To(d[1], d[2]) \X {d[1]})
  /\ UNCHANGED <<streams, adding, arriving, opened, broken, formed, start>>

\* A heartbeat reports the peer dead: RemovePeer.
Disconnect(d) ==
  /\ pc[d[1]] = "lobby" /\ To(d[1], d[2]) # {}
  /\ Faulty
  /\ closed' = closed \cup (To(d[1], d[2]) \X {d[1]})
  /\ streams' = [streams EXCEPT ![d[1]] = @ \ To(d[1], d[2])]
  /\ UNCHANGED <<adding, arriving, opened, broken, formed, start>>

\* Two players lose their connection.
Lose(d) ==
  /\ Faulty
  /\ broken' = broken \cup {s \in Stream : Ends(s) = {d[1], d[2]} /\ s[3] <= opened[d]}
  /\ UNCHANGED <<streams, adding, arriving, opened, closed, formed, start>>

\* What is written to a stream that is closed or broken is lost.
Works(s) == s \notin broken /\ closed \cap ({s} \X Ends(s)) = {}

\* The facilitator was told of an edge between every two players: each is a
\* stream that the one who dialled holds.  A lost connection that no heartbeat
\* has reported yet is untimely.
Form ==
  /\ ~formed
  /\ \A p, q \in Player : p = q \/ \E s \in To(p, q) \cup To(q, p) : s \in streams[s[1]]
  /\ formed' = TRUE
  /\ Untimely(\E p \in Player : \E s \in streams[p] : s[1] = p /\ s \in broken)
  /\ UNCHANGED <<links, start, faults>>

-----------------------------------------------------------------------------
\* GameInstance.Run

\* negotiateSeed: the own piece is written to all streams.  A player that is
\* asked to start before a stream to it was added starts without it.
Begin(p) ==
  /\ formed
  /\ pc[p] = "lobby"
  /\ ~\E s \in adding : s[1] = p
  /\ pc' = [pc EXCEPT ![p] = "negotiating"]
  /\ wrote' = wrote \cup ({s \in streams[p] : Works(s)} \X {p})
  /\ toRead' = [toRead EXCEPT ![p] = streams[p]]
  /\ seed' = [seed EXCEPT ![p] = {p}]
  /\ Untimely(\E s \in arriving : s[2] = p)
  /\ UNCHANGED <<links, formed, readers, roster, faults>>

ReadAt(p, s) == toRead' = [toRead EXCEPT ![p] = @ \ {s}]

\* Variant with a bug: the own piece is not mixed in.
ReadPieceOver(p, s) ==
  /\ pc[p] = "negotiating" /\ s \in toRead[p]
  /\ <<s, Other(p, s)>> \in wrote
  /\ seed' = [seed EXCEPT ![p] = {Other(p, s)}]
  /\ ReadAt(p, s)
  /\ UNCHANGED <<links, formed, pc, wrote, readers, roster, faults, untimely>>

\* s.Read waits for the peer's piece ...
ReadPiece(p, s) ==
  /\ pc[p] = "negotiating" /\ s \in toRead[p]
  /\ <<s, Other(p, s)>> \in wrote
  /\ seed' = [seed EXCEPT ![p] = SymDiff(@, {Other(p, s)})]
  /\ ReadAt(p, s)
  /\ UNCHANGED <<links, formed, pc, wrote, readers, roster, faults, untimely>>

\* ... or for an error, which is logged.
ReadFails(p, s) ==
  /\ pc[p] = "negotiating" /\ s \in toRead[p]
  /\ s \in broken \/ <<s, p>> \in closed \/ <<s, Other(p, s)>> \in closed \ wrote
  /\ ReadAt(p, s)
  /\ UNCHANGED <<links, formed, pc, wrote, seed, readers, roster, faults, untimely>>

\* gi.mu is released, and taken again to start the readLoops.
Negotiated(p) ==
  /\ pc[p] = "negotiating" /\ toRead[p] = {}
  /\ pc' = [pc EXCEPT ![p] = "negotiated"]
  /\ UNCHANGED <<links, formed, toRead, wrote, seed, readers, roster, faults, untimely>>

StartReaders(p) ==
  /\ pc[p] = "negotiated"
  /\ readers' = [readers EXCEPT ![p] = streams[p]]
  /\ pc' = [pc EXCEPT ![p] = "running"]
  /\ UNCHANGED <<links, formed, toRead, wrote, seed, roster, faults, untimely>>

\* RunGame: gi.PlayersIDs()
PlayersIDs(p) ==
  /\ pc[p] = "running"
  /\ roster' = [roster EXCEPT ![p] = {p} \cup {Other(p, s) : s \in streams[p]}]
  /\ pc' = [pc EXCEPT ![p] = "playing"]
  /\ UNCHANGED <<links, formed, toRead, wrote, seed, readers, faults, untimely>>

Run(p) == \/ Begin(p) \/ Negotiated(p) \/ StartReaders(p) \/ PlayersIDs(p)
          \/ \E s \in Stream : ReadPiece(p, s) \/ ReadFails(p, s)

Next == \/ \E d \in Dials : Connect(d) \/ Disconnect(d) \/ Lose(d)
        \/ \E s \in Stream : Connected(s) \/ ConnectFails(s) \/ GameHandler(s)
        \/ Form
        \/ \E p \in Player : Run(p)

\* The goroutines are run; who was chosen starts the game.
Fairness == /\ \A p \in Player : WF_vars(Run(p))
            /\ \A s \in Stream : WF_vars(Connected(s)) /\ WF_vars(GameHandler(s))

Spec == Init /\ [][Next]_vars /\ Fairness

-----------------------------------------------------------------------------
Playing == {p \in Player : pc[p] = "playing"}

TypeOK ==
  /\ \A p \in Player : /\ \A s \in streams[p] : s \in Stream /\ p \in Ends(s)
                       /\ \A q \in Player \ {p} : Cardinality(To(p, q)) <= 1
                       /\ readers[p] \subseteq Stream /\ toRead[p] \subseteq Stream
  /\ adding \subseteq Stream /\ arriving \subseteq Stream /\ broken \subseteq Stream
  /\ opened \in [Dials -> 0..MaxDials]
  /\ closed \subseteq Stream \X Player /\ wrote \subseteq Stream \X Player
  /\ pc \in [Player -> {"lobby", "negotiating", "negotiated", "running", "playing"}]
  /\ seed \in [Player -> SUBSET Player] /\ roster \in [Player -> SUBSET Player]
  /\ formed \in BOOLEAN /\ untimely \in BOOLEAN /\ faults \in 0..MaxFaults

\* Players that come to play have the same seed, made of everybody's piece, and
\* the same list of players: the boards they draw from then on depend on
\* nothing else.  However often a stream was opened anew, this holds if every
\* handler ran in time and no fault came when the party was formed.
StartAgreed ==
  ~untimely => \A p \in Playing : seed[p] = Player /\ roster[p] = Player

\* The same whenever handlers run and connections go: README.md speaks of a
\* complete graph of connections that keeps the state synchronized.  That is not
\* so: who starts before a handler has run negotiates without that peer.
AlwaysAgreed == \A p \in Playing : seed[p] = Player /\ roster[p] = Player

\* Every two players hold the two ends of one stream, and read it: a move that
\* one of them sends is read by the other one, and PeerCount counts nobody who
\* is not read.
SameStream ==
  ~untimely =>
    \A p, q \in Playing : p # q => /\ To(p, q) # {} /\ To(p, q) = To(q, p)
                                   /\ \A s \in To(p, q) : Works(s)
                                   /\ To(p, q) \subseteq readers[p]

\* Once the party is formed everybody comes to play: no two negotiations wait
\* for each other.
EveryoneStarts == formed ~> (untimely \/ Playing = Player)
=============================================================================
