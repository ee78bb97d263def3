---------------------------- MODULE GameInstance ----------------------------
(***************************************************************************)
(* protocol/game/game_instance.go after Run(): the lockstep protocol of a  *)
(* game.  Each player has a stream to every other one, a readLoop for each *)
(* stream, a syncLoop, and the loop of its GameUI (engine/console/game.go),*)
(* which sends a move when its timer fires and takes the rounds and the    *)
(* departures that come out of gi.recv.  The readers and the UI fill the   *)
(* buffered channel gi.moves, syncLoop empties it and counts; gi.mu guards *)
(* gi.streams, and SendMove holds it from the first write to the last.     *)
(*                                                                         *)
(* A move is the number of the round that its player made it for: the      *)
(* directions do not matter, only which moves are put together.  DiesIn    *)
(* stands for what the rules (GameUI.markDead) make of the directions.     *)
(***************************************************************************)
EXTENDS Integers, Sequences, FiniteSets

CONSTANTS Player,
          DiesIn,       \* the round in which the rules kill a player's snake
          BufferSize,   \* the capacity of gi.moves (32)
          AlwaysTimely, \* are no moves ever late (see Timely)?
          MaxRounds,    \* bound: rounds played
          FaultyRounds, \* bound: rounds played if there is a fault in them
          MaxFaults,    \* bound: processes that exit and connections lost
          WireSize      \* bound: moves under way on a stream

ASSUME PlayerAssumption == IsFiniteSet(Player)
ASSUME DeathAssumption == DiesIn \in [Player -> Nat \ {0}]
ASSUME SizeAssumption == BufferSize \in Nat \ {0} /\ WireSize \in Nat \ {0}
ASSUME BoundAssumption == MaxRounds \in Nat /\ MaxFaults \in Nat
                          /\ FaultyRounds \in 0..MaxRounds
ASSUME TimelyAssumption == AlwaysTimely \in BOOLEAN

VARIABLES
  streams,    \* gi.streams: the peers a player counts
  wire,       \* wire[q][p]: the moves q wrote to p that p has not read
  reader,     \* reader[p][q]: where p's readLoop of the stream to q is
  moves,      \* gi.moves
  collected,  \* msg.Moves of syncLoop
  sync,       \* where syncLoop is
  ui,         \* where the loop of the GameUI is
  unsent,     \* the streams that SendMove still has to write to
  failed,     \* did a write of this SendMove fail?
  sent,       \* the last move sent
  rounds,     \* the rounds the UI has taken, in order
  snakes,     \* the players whose Snake is Alive
  alive,      \* AliveSnakes
  over,       \* Over
  up,         \* the players whose process runs
  cut,        \* the pairs of players whose connection is gone
  faults,     \* processes that exited and connections that were lost
  late        \* has a move been late so far?

loops == <<reader, moves, collected, sync>>
sending == <<unsent, failed, sent>>
game == <<rounds, snakes, alive, over>>
world == <<up, cut, faults>>
vars == <<streams, wire, loops, ui, sending, game, world, late>>

Others(p) == Player \ {p}

NoMoves == [p \in {} |-> 0]

\* Run() and RunGame() of every player, with all streams registered.
Init == /\ streams = [p \in Player |-> Others(p)]
        /\ wire = [q \in Player |-> [p \in Player |-> << >>]]
        /\ reader = [p \in Player |-> [q \in Others(p) |-> "scan"]]
        /\ moves = [p \in Player |-> << >>]
        /\ collected = [p \in Player |-> NoMoves]
        /\ sync = [p \in Player |-> "take"]
        /\ ui = [p \in Player |-> "timer"]
        /\ unsent = [p \in Player |-> {}]
        /\ failed = [p \in Player |-> FALSE]
        /\ sent = [p \in Player |-> 0]
        /\ rounds = [p \in Player |-> << >>]
        /\ snakes = [p \in Player |-> Player]
        /\ alive = [p \in Player |-> Cardinality(Player)]
        /\ over = [p \in Player |-> FALSE]
        /\ up = Player
        /\ cut = {}
        /\ faults = 0
        /\ late = FALSE

Round(p) == Len(rounds[p])

\* Where the bounds end the game
LastRound == IF faults = 0 THEN MaxRounds ELSE FaultyRounds

\* p's stream to q no longer works: an end closed it, or the connection went.
Closed(p, q) == q \notin streams[p] \/ p \notin streams[q] \/ {p, q} \in cut

\* SendMove is the only one that keeps gi.mu from one step to another.
Unlocked(p) == ui[p] # "sending"

Put(p, m) == /\ Len(moves[p]) < BufferSize
             /\ moves' = [moves EXCEPT ![p] = Append(@, m)]

\* The move that readLoop sends when a peer is gone: playerMove{}.
Stub(p) == [from |-> {}, move |-> 0]

MoveOf(q, n) == [from |-> {q}, move |-> n]

-----------------------------------------------------------------------------
\* The timer of the GameUI fires: handleMove and SendMove.

\* A move of a round up to r that its player is still sending, or that has not
\* come as far as a syncLoop.
UnderWay(r) ==
  \E q \in up :
    \/ ui[q] = "sending" /\ sent[q] <= r
    \/ \E i \in DOMAIN moves[q] : moves[q][i].from # {} /\ moves[q][i].move <= r
    \/ \E p \in up \ {q} : /\ ~Closed(p, q)
                           /\ \E i \in DOMAIN wire[q][p] : wire[q][p][i] <= r

\* Variant with a bug: the move is taken for the round after the next.
StartSendAhead(p) ==
  /\ ui[p] = "timer"
  /\ ~over[p] /\ Round(p) < LastRound
  /\ ui' = [ui EXCEPT ![p] = "sending"]
  /\ unsent' = [unsent EXCEPT ![p] = streams[p]]
  /\ failed' = [failed EXCEPT ![p] = FALSE]
  /\ sent' = [sent EXCEPT ![p] = Round(p) + 2]
  /\ UNCHANGED <<streams, wire, loops, game, world, late>>

\* In the 100 ms for which the timer of p has run all moves of the rounds it
\* has seen came to where they are counted, and its own last one did.
Timely(p) == /\ ~UnderWay(Round(p))
             /\ \A i \in DOMAIN moves[p] : moves[p][i].from # {p}

\* The user has pressed an arrow key that the timer finds.
StartSend(p) ==
  /\ ui[p] = "timer"
  /\ ~over[p] /\ Round(p) < LastRound
  /\ AlwaysTimely => Timely(p)
  /\ late' = (late \/ ~Timely(p))
  /\ ui' = [ui EXCEPT ![p] = "sending"]
  /\ unsent' = [unsent EXCEPT ![p] = streams[p]]
  /\ failed' = [failed EXCEPT ![p] = FALSE]
  /\ sent' = [sent EXCEPT ![p] = Round(p) + 1]
  /\ UNCHANGED <<streams, wire, loops, game, world>>

\* s.Write.  On a stream that no longer works the move is lost, with an error
\* or without.
Write(p, q) ==
  /\ ui[p] = "sending"
  /\ q \in unsent[p]
  /\ unsent' = [unsent EXCEPT ![p] = @ \ {q}]
  /\ \/ /\ ~Closed(p, q)
        /\ Len(wire[p][q]) < WireSize
        /\ wire' = [wire EXCEPT ![p][q] = Append(@, sent[p])]
        /\ UNCHANGED failed
     \/ /\ Closed(p, q)
        /\ failed' \in {failed, [failed EXCEPT ![p] = TRUE]}
        /\ UNCHANGED wire
  /\ UNCHANGED <<streams, loops, ui, sent, game, world, late>>

\* Variant with a bug: the timer runs on after a move was sent.
SendOwnAgain(p) ==
  /\ ui[p] = "sending"
  /\ unsent[p] = {}
  /\ Put(p, MoveOf(p, sent[p]))
  /\ ui' = [ui EXCEPT ![p] = "timer"]
  /\ failed' = [failed EXCEPT ![p] = FALSE]
  /\ UNCHANGED <<streams, wire, reader, collected, sync, unsent, sent,
                 game, world, late>>

\* gi.moves <- our own move.  If a write failed the UI starts its timer again,
\* otherwise it waits for the round.
SendOwn(p) ==
  /\ ui[p] = "sending"
  /\ unsent[p] = {}
  /\ Put(p, MoveOf(p, sent[p]))
  /\ ui' = [ui EXCEPT ![p] = IF failed[p] THEN "timer" ELSE "waiting"]
  /\ failed' = [failed EXCEPT ![p] = FALSE]
  /\ UNCHANGED <<streams, wire, reader, collected, sync, unsent, sent,
                 game, world, late>>

-----------------------------------------------------------------------------
\* readLoop(s), s the stream from p to q.

ReaderAt(p, q, pc) == reader' = [reader EXCEPT ![p][q] = pc]

\* A move is read as soon as there is room for it.
ReadMove(p, q) ==
  /\ reader[p][q] = "scan"
  /\ q \in streams[p]
  /\ wire[q][p] # << >>
  /\ Put(p, MoveOf(q, Head(wire[q][p])))
  /\ wire' = [wire EXCEPT ![q][p] = Tail(@)]
  /\ UNCHANGED <<streams, reader, collected, sync, ui, sending, game, world,
                 late>>

\* scanner.Scan() finds the end of the stream; RemovePeer(remotePeer).
ReadEnd(p, q) ==
  /\ reader[p][q] = "scan"
  /\ q \notin streams[p] \/ (wire[q][p] = << >> /\ Closed(p, q))
  /\ Unlocked(p)
  /\ streams' = [streams EXCEPT ![p] = @ \ {q}]
  /\ ReaderAt(p, q, "stub")
  /\ UNCHANGED <<wire, moves, collected, sync, ui, sending, game, world, late>>

\* Variant with a bug: readLoop returns without a report.
PutStubOnly(p, q) ==
  /\ reader[p][q] = "stub"
  /\ Put(p, Stub(p))
  /\ ReaderAt(p, q, "gone")
  /\ UNCHANGED <<streams, wire, collected, sync, ui, sending, game, world,
                 late>>

PutStub(p, q) ==
  /\ reader[p][q] = "stub"
  /\ Put(p, Stub(p))
  /\ ReaderAt(p, q, "report")
  /\ UNCHANGED <<streams, wire, collected, sync, ui, sending, game, world,
                 late>>

\* Variant with a bug: readLoop scans again.
ReportAgain(p, q) ==
  /\ reader[p][q] = "report"
  /\ ui[p] \in {"timer", "waiting"}
  /\ ReaderAt(p, q, "scan")
  /\ snakes' = [snakes EXCEPT ![p] = @ \ {q}]
  /\ alive' = [alive EXCEPT ![p] = @ - 1]
  /\ UNCHANGED <<streams, wire, moves, collected, sync, ui, sending, rounds,
                 over, world, late>>

\* gi.recv <- remotePeer.  The UI calls RemovePeer again, to no effect.
Report(p, q) ==
  /\ reader[p][q] = "report"
  /\ ui[p] \in {"timer", "waiting"}
  /\ ReaderAt(p, q, "gone")
  /\ \/ over[p] /\ UNCHANGED <<snakes, alive>>
     \/ /\ ~over[p]
        /\ snakes' = [snakes EXCEPT ![p] = @ \ {q}]
        /\ alive' = [alive EXCEPT ![p] = @ - 1]
  /\ UNCHANGED <<streams, wire, moves, collected, sync, ui, sending, rounds,
                 over, world, late>>

-----------------------------------------------------------------------------
\* syncLoop

SyncAt(p, pc) == sync' = [sync EXCEPT ![p] = pc]

\* A move replaces an earlier one of the same player.
TakeMove(p) ==
  /\ sync[p] = "take"
  /\ moves[p] # << >>
  /\ LET m == Head(moves[p]) IN
     collected' = [collected EXCEPT ![p] =
       [q \in DOMAIN @ \cup m.from |-> IF q \in m.from THEN m.move ELSE @[q]]]
  /\ moves' = [moves EXCEPT ![p] = Tail(@)]
  /\ SyncAt(p, "count")
  /\ UNCHANGED <<streams, wire, reader, ui, sending, game, world, late>>

\* Variant with a bug: our own move is not counted.
CountOthers(p) ==
  /\ sync[p] = "count"
  /\ Unlocked(p)
  /\ SyncAt(p, IF Cardinality(DOMAIN collected[p]) = Cardinality(streams[p])
               THEN "emit" ELSE "take")
  /\ UNCHANGED <<streams, wire, reader, moves, collected, ui, sending, game,
                 world, late>>

\* len(msg.Moves) == gi.PeerCount()+1
Count(p) ==
  /\ sync[p] = "count"
  /\ Unlocked(p)
  /\ SyncAt(p, IF Cardinality(DOMAIN collected[p]) = Cardinality(streams[p]) + 1
               THEN "emit" ELSE "take")
  /\ UNCHANGED <<streams, wire, reader, moves, collected, ui, sending, game,
                 world, late>>

\* Variant with a bug: msg is not made anew.
EmitKeeps(p) ==
  /\ sync[p] = "emit"
  /\ ui[p] \in {"timer", "waiting"}
  /\ SyncAt(p, "take")
  /\ rounds' = [rounds EXCEPT ![p] = Append(@, collected[p])]
  /\ ui' = [ui EXCEPT ![p] = "handling"]
  /\ UNCHANGED <<streams, wire, reader, moves, collected, sending, snakes,
                 alive, over, world, late>>

\* gi.recv <- msg.  A UI whose game is over ignores it.
Emit(p) ==
  /\ sync[p] = "emit"
  /\ ui[p] \in {"timer", "waiting"}
  /\ collected' = [collected EXCEPT ![p] = NoMoves]
  /\ SyncAt(p, "take")
  /\ \/ over[p] /\ UNCHANGED <<rounds, ui>>
     \/ /\ ~over[p]
        /\ rounds' = [rounds EXCEPT ![p] = Append(@, collected[p])]
        /\ ui' = [ui EXCEPT ![p] = "handling"]
  /\ UNCHANGED <<streams, wire, reader, moves, sending, snakes, alive, over,
                 world, late>>

\* Variant with a bug: the timer is not started again.
HandleRoundOnly(p) ==
  /\ ui[p] = "handling"
  /\ ui' = [ui EXCEPT ![p] = "waiting"]
  /\ UNCHANGED <<streams, wire, loops, sending, game, world, late>>

\* handleMoves: markDead removes the players whose snakes die in this round,
\* isOver looks at AliveSnakes, and the timer starts again.
HandleRound(p) ==
  LET dead == {q \in DOMAIN rounds[p][Round(p)] : DiesIn[q] = Round(p)}
  IN /\ ui[p] = "handling"
     /\ streams' = [streams EXCEPT ![p] = @ \ dead]
     /\ snakes' = [snakes EXCEPT ![p] = @ \ dead]
     /\ alive' = [alive EXCEPT ![p] = @ - Cardinality(dead)]
     /\ over' = [over EXCEPT ![p] = p \in dead \/ alive'[p] <= 1]
     /\ ui' = [ui EXCEPT ![p] = "timer"]
     /\ UNCHANGED <<wire, loops, sending, rounds, world, late>>

-----------------------------------------------------------------------------
\* A process exits (quit(), or it is killed), or two players lose their
\* connection: what was under way between them may be lost.

Break(pairs) ==
  /\ faults < MaxFaults
  /\ \A p \in Player : sent[p] <= FaultyRounds
  /\ faults' = faults + 1
  /\ cut' = cut \cup pairs
  /\ \E lost \in SUBSET UNION pairs :
       wire' = [q \in Player |-> [p \in Player |->
                 IF {p, q} \in pairs /\ q \in lost THEN << >> ELSE wire[q][p]]]

Exit(p) == /\ Break({{p, q} : q \in Others(p)})
           /\ up' = up \ {p}
           /\ UNCHANGED <<streams, loops, ui, sending, game, late>>

Lose(p, q) == /\ {p, q} \notin cut
              /\ Break({{p, q}})
              /\ UNCHANGED <<streams, loops, ui, sending, game, up, late>>

GameUI(p) == \/ StartSend(p) \/ SendOwn(p) \/ HandleRound(p)
             \/ \E q \in Others(p) : Write(p, q)

readLoop(p, q) == ReadMove(p, q) \/ ReadEnd(p, q) \/ PutStub(p, q) \/ Report(p, q)

syncLoop(p) == TakeMove(p) \/ Count(p) \/ Emit(p)

Next == \E p \in up : \/ GameUI(p) \/ syncLoop(p) \/ Exit(p)
                      \/ \E q \in Others(p) : readLoop(p, q) \/ Lose(p, q)

SafetySpec == Init /\ [][Next]_vars

\* The goroutines are scheduled, the users press a key whenever the timer of
\* their UI runs, and a stream that works delivers what was written to it.  The
\* loops that compete for gi.mu and for gi.recv get them in the end: a
\* sync.Mutex does not starve a waiter, and a channel serves its senders in
\* order.
Fairness ==
  \A p \in Player :
    /\ WF_vars(p \in up /\ GameUI(p))
    /\ SF_vars(p \in up /\ syncLoop(p))
    /\ \A q \in Others(p) : SF_vars(p \in up /\ readLoop(p, q))

Spec == SafetySpec /\ Fairness

-----------------------------------------------------------------------------
TypeOK ==
  /\ streams \in [Player -> SUBSET Player]
  /\ \A q, p \in Player : /\ wire[q][p] \in Seq(1..MaxRounds)
                          /\ Len(wire[q][p]) <= WireSize
  /\ \A p \in Player :
       /\ reader[p] \in [Others(p) -> {"scan", "stub", "report", "gone"}]
       /\ moves[p] \in Seq([from : {{}} \cup {{q} : q \in Player}, move : 0..MaxRounds])
       /\ Len(moves[p]) <= BufferSize
       /\ DOMAIN collected[p] \subseteq Player
  /\ sync \in [Player -> {"take", "count", "emit"}]
  /\ ui \in [Player -> {"timer", "sending", "waiting", "handling"}]
  /\ unsent \in [Player -> SUBSET Player]
  /\ failed \in [Player -> BOOLEAN] /\ over \in [Player -> BOOLEAN]
  /\ sent \in [Player -> 0..MaxRounds]
  /\ snakes \in [Player -> SUBSET Player] /\ alive \in [Player -> Int]
  /\ up \subseteq Player /\ faults \in 0..MaxFaults /\ late \in BOOLEAN

\* As long as no move was late, every two players put the same moves into a
\* round: only because of this are the boards they draw the same, since nothing
\* but moves is ever exchanged.
Agreement ==
  ~late => \A p, q \in Player : \A r \in 1..Round(p) :
    r <= Round(q) => rounds[p][r] = rounds[q][r]

\* However late moves are, a round is never played with a move made for an
\* earlier one: for each player it holds the move made for it, or the one for the
\* next round, which came before syncLoop had played the first and replaced it.
FreshMoves ==
  \A p \in Player : \A r \in 1..Round(p) :
    /\ DOMAIN rounds[p][r] = Player
    /\ \A q \in Player : rounds[p][r][q] \in {r, r + 1}

\* Agreement however slow a move is: the state is synchronized, says README.md.
\* That is not so, since the move that replaces another one does it at those
\* players only whose syncLoop has not played the first.
AlwaysAgree ==
  \A p, q \in Player : \A r \in 1..Round(p) :
    r <= Round(q) => rounds[p][r] = rounds[q][r]

\* The buffer of gi.moves has room for our own move when SendMove, which holds
\* gi.mu, comes to it: if it had not, syncLoop could wait for gi.mu in
\* PeerCount and nobody would empty it (the FIXME in NewGameInstance).
RoomForOwnMove ==
  \A p \in Player : ui[p] = "sending" => Len(moves[p]) < BufferSize

\* The rounds are a barrier: nobody plays a round before all who are in it have
\* made their move for it, nor makes a second move for it.
Barrier == INSTANCE Lockstep
             WITH moved <- sent, played <- [p \in Player |-> Round(p)]

LockstepSpec == Barrier!Spec

\* A player whose own snake lives sees its game end only when at most one snake
\* is left.
LastOneStanding ==
  \A p \in Player : over[p] /\ p \in snakes[p] => Cardinality(snakes[p]) <= 1

\* Each player that leaves is subtracted from AliveSnakes once.
AliveIsCount == \A p \in Player : alive[p] = Cardinality(snakes[p])

\* A player whose game goes on learns of everyone who leaves it.
DepartureNoticed ==
  \A p, q \in Player : q \notin up ~> (p \notin up \/ over[p] \/ q \notin snakes[p])

\* Without faults, and with no move late, every player plays all rounds: timers,
\* readers and syncLoops of the players never all wait for each other.
GameGoesOn ==
  \A p \in Player : <>(faults > 0 \/ over[p] \/ Round(p) = LastRound)

\* The game of a player that stays goes on to its end, whoever leaves it.
GameFinishes ==
  \A p \in Player : <>(p \notin up \/ over[p] \/ Round(p) = LastRound)
=============================================================================
