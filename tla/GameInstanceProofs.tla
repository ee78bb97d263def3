------------------------- MODULE GameInstanceProofs -------------------------
(***************************************************************************)
(* The protocol of a game, for any number of players and rounds: its type  *)
(* invariant, the count of the snakes alive, and, while nobody leaves and  *)
(* nobody dies, that our own move finds room in the buffer, that everybody *)
(* plays the same rounds, and that the rounds are a barrier (Lockstep).    *)
(*                                                                         *)
(* The moves of a player come to each peer in order, one for each round,   *)
(* and none of them is counted before the moves of the rounds before it    *)
(* are played (LockInv).  That a syncLoop does not put a move into an      *)
(* earlier round needs that no move was late (GapInv).                     *)
(***************************************************************************)
EXTENDS GameInstance, FiniteSetTheorems, SequenceTheorems, TLAPS

\* The variables by where they are kept, in parts for the provers.
Move == [from : {{}} \cup {{q} : q \in Player}, move : 0..MaxRounds]

\* What a player may put into a round.
RoundMoves == UNION {[S -> 0..MaxRounds] : S \in SUBSET Player}

Readers(p) == [Others(p) -> {"scan", "stub", "report", "gone"}]

StreamsOK ==
  /\ streams \in [Player -> SUBSET Player]
  /\ wire \in [Player -> [Player -> Seq(1..MaxRounds)]]
  /\ \A q, p \in Player : Len(wire[q][p]) <= WireSize

LoopsOK ==
  /\ reader = [p \in Player |-> reader[p]]
  /\ \A p \in Player : reader[p] \in Readers(p)
  /\ moves \in [Player -> Seq(Move)]
  /\ \A p \in Player : Len(moves[p]) <= BufferSize
  /\ collected \in [Player -> RoundMoves]
  /\ sync \in [Player -> {"take", "count", "emit"}]

SendingOK ==
  /\ ui \in [Player -> {"timer", "sending", "waiting", "handling"}]
  /\ unsent \in [Player -> SUBSET Player]
  /\ failed \in [Player -> BOOLEAN]
  /\ sent \in [Player -> 0..MaxRounds]
  /\ \A p \in Player : ui[p] = "sending" => sent[p] >= 1

GameOK ==
  /\ rounds \in [Player -> Seq(RoundMoves)]
  /\ snakes \in [Player -> SUBSET Player]
  /\ alive \in [Player -> Int]
  /\ over \in [Player -> BOOLEAN]
  /\ \A p \in Player : ui[p] = "handling" => rounds[p] # << >>

WorldOK == up \subseteq Player /\ faults \in 0..MaxFaults /\ late \in BOOLEAN

TypeInv == StreamsOK /\ LoopsOK /\ SendingOK /\ GameOK /\ WorldOK

LEMMA TypeInvOK == TypeInv => TypeOK
<1> SUFFICES ASSUME TypeInv PROVE TypeOK
  OBVIOUS
<1>1. \A p \in Player : DOMAIN collected[p] \subseteq Player
  BY DEF TypeInv, LoopsOK, RoundMoves
<1>2. \A q, p \in Player : wire[q][p] \in Seq(1..MaxRounds)
  BY DEF TypeInv, StreamsOK
<1>3. \A p \in Player : moves[p] \in Seq(Move) /\ reader[p] \in Readers(p)
  BY DEF TypeInv, LoopsOK
<1> QED
  BY <1>1, <1>2, <1>3 DEF TypeInv, StreamsOK, LoopsOK, SendingOK, GameOK, WorldOK, TypeOK,
     Move, Readers

-----------------------------------------------------------------------------
\* A buffer or a stream stays a sequence when something is put into it or the
\* first thing taken out; what is left keeps its order.
LEMMA AppendSeq ==
  ASSUME NEW S, NEW s \in Seq(S), NEW e \in S
  PROVE  /\ Append(s, e) \in Seq(S)
         /\ Len(Append(s, e)) = Len(s) + 1
         /\ DOMAIN Append(s, e) = 1..(Len(s) + 1)
         /\ \A i \in 1..Len(s) : Append(s, e)[i] = s[i]
         /\ Append(s, e)[Len(s) + 1] = e
BY LenProperties

LEMMA AppendParts ==
  ASSUME NEW S, NEW s \in Seq(S), NEW e \in S, NEW t, t = Append(s, e)
  PROVE  /\ \A i \in DOMAIN s : i \in DOMAIN t /\ t[i] = s[i]
         /\ \E last \in DOMAIN t : t[last] = e
         /\ \A i \in DOMAIN t : (i \in DOMAIN s /\ t[i] = s[i]) \/ t[i] = e
         /\ \A i, j \in DOMAIN t : i < j => i \in DOMAIN s /\ t[i] = s[i]
<1>1. DOMAIN s = 1..Len(s) /\ Len(s) \in Nat
  BY LenProperties
<1>2. /\ DOMAIN t = 1..(Len(s) + 1)
      /\ \A i \in 1..Len(s) : t[i] = s[i]
      /\ t[Len(s) + 1] = e
  BY AppendSeq
<1> QED
  BY <1>1, <1>2

LEMMA TailSeq ==
  ASSUME NEW S, NEW s \in Seq(S), s # << >>
  PROVE  /\ Head(s) \in S /\ Head(s) = s[1] /\ 1 \in DOMAIN s
         /\ Tail(s) \in Seq(S)
         /\ Len(Tail(s)) = Len(s) - 1
         /\ \A i \in DOMAIN Tail(s) : i + 1 \in DOMAIN s /\ Tail(s)[i] = s[i + 1]
BY HeadTailProperties, EmptySeq, LenProperties

LEMMA TailParts ==
  ASSUME NEW S, NEW s \in Seq(S), s # << >>, NEW t, t = Tail(s)
  PROVE  /\ Head(s) \in S /\ Head(s) = s[1] /\ 1 \in DOMAIN s
         /\ \A i \in DOMAIN t : 1 < i + 1 /\ i + 1 \in DOMAIN s /\ t[i] = s[i + 1]
         /\ \A i, j \in DOMAIN t : i < j => i + 1 < j + 1
         /\ \A i \in DOMAIN s : i # 1 => 1 < i /\ i - 1 \in DOMAIN t /\ t[i - 1] = s[i]
<1>1. DOMAIN s = 1..Len(s) /\ Len(s) \in Nat
  BY LenProperties
<1>2. /\ Head(s) \in S /\ Head(s) = s[1] /\ 1 \in DOMAIN s
      /\ t \in Seq(S) /\ Len(t) = Len(s) - 1
      /\ \A i \in DOMAIN t : i + 1 \in DOMAIN s /\ t[i] = s[i + 1]
  BY TailSeq
<1>3. DOMAIN t = 1..(Len(s) - 1)
  BY <1>2, LenProperties
<1> QED
  BY <1>1, <1>2, <1>3

\* A process, or a goroutine of it, puts something into the buffer.
LEMMA PutType ==
  ASSUME LoopsOK, NEW p \in Player, NEW m \in Move, Put(p, m)
  PROVE  /\ moves' \in [Player -> Seq(Move)]
         /\ \A q \in Player : Len(moves'[q]) <= BufferSize
<1>1. moves[p] \in Seq(Move)
  BY DEF LoopsOK
<1>2. Append(moves[p], m) \in Seq(Move) /\ Len(Append(moves[p], m)) <= BufferSize
  BY <1>1, AppendSeq, LenProperties, SizeAssumption DEF Put
<1> QED
  BY <1>2 DEF LoopsOK, Put

\* A reader goes on.
LEMMA ReaderType ==
  ASSUME LoopsOK, NEW p \in Player, NEW q \in Others(p),
         NEW pc \in {"scan", "stub", "report", "gone"}, ReaderAt(p, q, pc)
  PROVE  /\ reader' = [r \in Player |-> reader'[r]]
         /\ \A r \in Player : reader'[r] \in Readers(r)
BY DEF LoopsOK, ReaderAt, Readers

\* The first step of SendMove: the timer fires before the last round.
LEMMA StartSendType ==
  ASSUME TypeInv, NEW p \in Player, StartSend(p)
  PROVE  TypeInv'
<1>1. Round(p) \in Nat /\ LastRound \in 0..MaxRounds
  BY BoundAssumption, LenProperties DEF TypeInv, GameOK, Round, LastRound
<1>2. Round(p) + 1 \in 0..MaxRounds /\ Round(p) + 1 >= 1
  BY <1>1, BoundAssumption DEF StartSend
<1>3. SendingOK'
  BY <1>2 DEF StartSend, TypeInv, StreamsOK, SendingOK
<1>4. StreamsOK' /\ LoopsOK' /\ GameOK'
  BY DEF StartSend, TypeInv, StreamsOK, LoopsOK, SendingOK, GameOK, loops, game
<1>5. WorldOK'
  <2>1. late' \in BOOLEAN
    BY DEF StartSend
  <2> QED
    BY <2>1 DEF StartSend, TypeInv, WorldOK, world
<1> QED
  BY <1>3, <1>4, <1>5 DEF TypeInv

LEMMA WriteType ==
  ASSUME TypeInv, NEW p \in Player, NEW q \in Others(p), Write(p, q)
  PROVE  TypeInv'
<1>p. q \in Player
  BY DEF Others
<1>1. CASE wire' = wire
  BY <1>1 DEF Write, TypeInv, StreamsOK, LoopsOK, SendingOK, GameOK, WorldOK, loops, game, world
<1>2. CASE /\ Len(wire[p][q]) < WireSize
           /\ wire' = [wire EXCEPT ![p][q] = Append(@, sent[p])]
           /\ UNCHANGED failed
  <2>1. wire[p][q] \in Seq(1..MaxRounds) /\ sent[p] \in 1..MaxRounds
    BY <1>p DEF Write, TypeInv, StreamsOK, SendingOK
  <2>2. /\ Append(wire[p][q], sent[p]) \in Seq(1..MaxRounds)
        /\ Len(Append(wire[p][q], sent[p])) <= WireSize
    BY <1>2, <2>1, AppendSeq, LenProperties, SizeAssumption
  <2>3. StreamsOK'
    BY <1>p, <1>2, <2>2 DEF Write, TypeInv, StreamsOK
  <2> QED
    BY <1>2, <2>3 DEF Write, TypeInv, LoopsOK, SendingOK, GameOK, WorldOK, loops, game, world
<1> QED
  BY <1>1, <1>2 DEF Write

LEMMA SendOwnType ==
  ASSUME TypeInv, NEW p \in Player, SendOwn(p)
  PROVE  TypeInv'
<1>1. MoveOf(p, sent[p]) \in Move
  BY DEF MoveOf, Move, TypeInv, SendingOK
<1>2. LoopsOK'
  BY <1>1, PutType DEF SendOwn, TypeInv, LoopsOK
<1>3. SendingOK' /\ GameOK'
  BY DEF SendOwn, TypeInv, SendingOK, GameOK, game
<1> QED
  BY <1>2, <1>3 DEF SendOwn, TypeInv, StreamsOK, WorldOK, world

\* readLoop
LEMMA ReadLoopType ==
  ASSUME TypeInv, NEW p \in Player, NEW q \in Others(p), readLoop(p, q)
  PROVE  TypeInv'
<1>p. q \in Player
  BY DEF Others
<1>1. CASE ReadMove(p, q)
  <2>1. wire[q][p] \in Seq(1..MaxRounds)
    BY <1>p DEF TypeInv, StreamsOK
  <2>2. /\ Head(wire[q][p]) \in 1..MaxRounds
        /\ Tail(wire[q][p]) \in Seq(1..MaxRounds)
        /\ Len(Tail(wire[q][p])) <= Len(wire[q][p])
    <3>1. Len(wire[q][p]) \in Nat /\ wire[q][p] # << >>
      BY <1>1, <2>1, LenProperties DEF ReadMove
    <3>2. /\ Head(wire[q][p]) \in 1..MaxRounds
          /\ Tail(wire[q][p]) \in Seq(1..MaxRounds)
          /\ Len(Tail(wire[q][p])) = Len(wire[q][p]) - 1
      BY <2>1, <3>1, TailSeq, Zenon
    <3> QED
      BY <3>1, <3>2
  <2>3. MoveOf(q, Head(wire[q][p])) \in Move
    BY <1>p, <2>2 DEF MoveOf, Move
  <2>4. LoopsOK'
    BY <1>1, <2>3, PutType DEF ReadMove, TypeInv, LoopsOK
  <2>5. StreamsOK'
    <3>1. Len(Tail(wire[q][p])) <= WireSize
      BY <1>1, <1>p, <2>1, TailSeq, LenProperties, SizeAssumption
      DEF ReadMove, TypeInv, StreamsOK
    <3> QED
      BY <1>1, <1>p, <2>2, <3>1 DEF ReadMove, TypeInv, StreamsOK
  <2> QED
    BY <1>1, <2>4, <2>5 DEF ReadMove, TypeInv, SendingOK, GameOK, WorldOK, sending, game, world
<1>2. CASE ReadEnd(p, q)
  <2>1. LoopsOK'
    BY <1>2, ReaderType DEF ReadEnd, TypeInv, LoopsOK
  <2>2. StreamsOK'
    BY <1>2 DEF ReadEnd, TypeInv, StreamsOK
  <2> QED
    BY <1>2, <2>1, <2>2 DEF ReadEnd, TypeInv, SendingOK, GameOK, WorldOK, sending, game, world
<1>3. CASE PutStub(p, q)
  <2>1. Stub(p) \in Move
    BY BoundAssumption DEF Stub, Move
  <2>2. LoopsOK'
    BY <1>3, <2>1, PutType, ReaderType DEF PutStub, TypeInv, LoopsOK
  <2> QED
    BY <1>3, <2>2 DEF PutStub, TypeInv, StreamsOK, SendingOK, GameOK, WorldOK, sending,
                      game, world
<1>4. CASE Report(p, q)
  <2>1. LoopsOK'
    BY <1>4, ReaderType DEF Report, TypeInv, LoopsOK
  <2>2. GameOK'
    <3>1. /\ snakes' = snakes \/ snakes' = [snakes EXCEPT ![p] = snakes[p] \ {q}]
          /\ alive' = alive \/ alive' = [alive EXCEPT ![p] = @ - 1]
      BY <1>4 DEF Report
    <3>2. snakes' \in [Player -> SUBSET Player]
      <4>1. snakes \in [Player -> SUBSET Player] /\ snakes[p] \ {q} \in SUBSET Player
        BY DEF TypeInv, GameOK
      <4> QED
        BY <3>1, <4>1
    <3>4. alive' \in [Player -> Int]
      BY <3>1 DEF TypeInv, GameOK
    <3>3. UNCHANGED <<ui, rounds, over>>
      BY <1>4 DEF Report
    <3> QED
      BY <3>2, <3>3, <3>4 DEF TypeInv, GameOK
  <2> QED
    BY <1>4, <2>1, <2>2 DEF Report, TypeInv, StreamsOK, SendingOK, WorldOK, sending, world
<1> QED
  BY <1>1, <1>2, <1>3, <1>4 DEF readLoop

\* A move that syncLoop takes becomes one of the moves of the round.
LEMMA TakeRound ==
  ASSUME LoopsOK, NEW p \in Player, moves[p] # << >>
  PROVE  LET m == Head(moves[p])
             c == collected[p]
         IN [q \in DOMAIN c \cup m.from |-> IF q \in m.from THEN m.move ELSE c[q]]
              \in RoundMoves
<1> DEFINE m == Head(moves[p])
           c == collected[p]
<1>1. m \in Move
  BY TailSeq DEF LoopsOK
<1>2. m.from \subseteq Player /\ m.move \in 0..MaxRounds
  BY <1>1 DEF Move
<1>3. PICK S \in SUBSET Player : c \in [S -> 0..MaxRounds]
  BY DEF LoopsOK, RoundMoves
<1>4. [q \in S \cup m.from |-> IF q \in m.from THEN m.move ELSE c[q]]
        \in [S \cup m.from -> 0..MaxRounds]
  BY <1>2, <1>3
<1>5. S \cup m.from \in SUBSET Player /\ DOMAIN c = S
  BY <1>2, <1>3
<1> HIDE DEF m, c
<1>6. [q \in DOMAIN c \cup m.from |-> IF q \in m.from THEN m.move ELSE c[q]] \in RoundMoves
  BY <1>4, <1>5 DEF RoundMoves
<1> QED
  BY <1>6 DEF m, c

LEMMA SyncLoopType ==
  ASSUME TypeInv, NEW p \in Player, syncLoop(p)
  PROVE  TypeInv'
<1>1. CASE TakeMove(p)
  <2>1. collected' \in [Player -> RoundMoves]
    BY <1>1, TakeRound DEF TakeMove, TypeInv, LoopsOK
  <2>2. Tail(moves[p]) \in Seq(Move) /\ Len(Tail(moves[p])) <= BufferSize
    BY <1>1, TailSeq, LenProperties, SizeAssumption DEF TakeMove, TypeInv, LoopsOK
  <2>3. LoopsOK'
    BY <1>1, <2>1, <2>2 DEF TakeMove, SyncAt, TypeInv, LoopsOK
  <2> QED
    BY <1>1, <2>3 DEF TakeMove, TypeInv, StreamsOK, SendingOK, GameOK, WorldOK, sending,
                      game, world
<1>2. CASE Count(p)
  <2>1. LoopsOK'
    BY <1>2 DEF Count, SyncAt, TypeInv, LoopsOK
  <2> QED
    BY <1>2, <2>1 DEF Count, TypeInv, StreamsOK, SendingOK, GameOK, WorldOK, sending,
                      game, world
<1>3. CASE Emit(p)
  <2>1. NoMoves \in RoundMoves
    BY DEF NoMoves, RoundMoves
  <2>2. LoopsOK'
    BY <1>3, <2>1 DEF Emit, SyncAt, TypeInv, LoopsOK
  <2>3. /\ Append(rounds[p], collected[p]) \in Seq(RoundMoves)
        /\ Append(rounds[p], collected[p]) # << >>
    <3>1. rounds[p] \in Seq(RoundMoves) /\ collected[p] \in RoundMoves
      BY DEF TypeInv, LoopsOK, GameOK
    <3>2. /\ Append(rounds[p], collected[p]) \in Seq(RoundMoves)
          /\ Len(Append(rounds[p], collected[p])) = Len(rounds[p]) + 1
      BY <3>1, AppendSeq
    <3>3. Len(rounds[p]) \in Nat /\ Len(<< >>) = 0
      BY <3>1, LenProperties, EmptySeq
    <3> QED
      BY <3>2, <3>3
  <2>4. \/ UNCHANGED <<rounds, ui>>
        \/ /\ rounds' = [rounds EXCEPT ![p] = Append(@, collected[p])]
           /\ ui' = [ui EXCEPT ![p] = "handling"]
    BY <1>3 DEF Emit
  <2>5. UNCHANGED <<unsent, failed, sent, snakes, alive, over>>
    BY <1>3 DEF Emit, sending
  <2>6. SendingOK'
    BY <2>4, <2>5 DEF TypeInv, SendingOK
  <2>7. GameOK'
    <3>1. CASE UNCHANGED <<rounds, ui>>
      BY <2>5, <3>1 DEF TypeInv, GameOK
    <3>2. CASE /\ rounds' = [rounds EXCEPT ![p] = Append(@, collected[p])]
               /\ ui' = [ui EXCEPT ![p] = "handling"]
      <4>1. rounds' \in [Player -> Seq(RoundMoves)]
        BY <2>3, <3>2 DEF TypeInv, GameOK
      <4>2. \A q \in Player : ui'[q] = "handling" => rounds'[q] # << >>
        BY <2>3, <3>2 DEF TypeInv, GameOK, SendingOK
      <4> QED
        BY <2>5, <4>1, <4>2 DEF TypeInv, GameOK
    <3> QED
      BY <2>4, <3>1, <3>2
  <2> QED
    BY <1>3, <2>2, <2>6, <2>7 DEF Emit, TypeInv, StreamsOK, WorldOK, world
<1> QED
  BY <1>1, <1>2, <1>3 DEF syncLoop

\* Whom the rules kill in a round are players.
LEMMA DeadType ==
  ASSUME TypeInv, NEW p \in Player, ui[p] = "handling"
  PROVE  LET dead == {q \in DOMAIN rounds[p][Round(p)] : DiesIn[q] = Round(p)}
         IN dead \subseteq Player /\ Cardinality(dead) \in Nat
<1> DEFINE dead == {q \in DOMAIN rounds[p][Round(p)] : DiesIn[q] = Round(p)}
<1>1. Round(p) \in 1..Len(rounds[p])
  BY EmptySeq DEF TypeInv, GameOK, Round
<1>2. rounds[p][Round(p)] \in RoundMoves
  BY <1>1, ElementOfSeq DEF TypeInv, GameOK
<1>3. dead \subseteq Player
  BY <1>2 DEF RoundMoves
<1>4. Cardinality(dead) \in Nat
  BY <1>3, PlayerAssumption, FS_Subset, FS_CardinalityType
<1> QED
  BY <1>3, <1>4

LEMMA HandleRoundType ==
  ASSUME TypeInv, NEW p \in Player, HandleRound(p)
  PROVE  TypeInv'
<1> DEFINE dead == {q \in DOMAIN rounds[p][Round(p)] : DiesIn[q] = Round(p)}
<1>1. dead \subseteq Player /\ Cardinality(dead) \in Nat
  BY DeadType DEF HandleRound
<1>2. /\ streams' = [streams EXCEPT ![p] = @ \ dead]
      /\ snakes' = [snakes EXCEPT ![p] = @ \ dead]
      /\ alive' = [alive EXCEPT ![p] = @ - Cardinality(dead)]
      /\ over' = [over EXCEPT ![p] = p \in dead \/ alive'[p] <= 1]
      /\ ui' = [ui EXCEPT ![p] = "timer"]
      /\ UNCHANGED <<wire, loops, sending, rounds, world, late>>
  BY DEF HandleRound
<1> HIDE DEF dead
<1>3. (p \in dead \/ alive'[p] <= 1) \in BOOLEAN
  OBVIOUS
<1>4. GameOK'
  BY <1>1, <1>2, <1>3 DEF TypeInv, GameOK, SendingOK
<1>5. StreamsOK' /\ SendingOK'
  BY <1>2 DEF TypeInv, StreamsOK, SendingOK, sending
<1> QED
  BY <1>2, <1>4, <1>5 DEF TypeInv, LoopsOK, WorldOK, loops, world

\* What a fault takes from the streams leaves them sequences.
LEMMA BreakType ==
  ASSUME TypeInv, NEW pairs, Break(pairs), up' \subseteq Player,
         UNCHANGED <<streams, loops, ui, sending, game, late>>
  PROVE  TypeInv'
<1>1. StreamsOK'
  <2>1. PICK lost \in SUBSET UNION pairs :
          wire' = [q \in Player |-> [p \in Player |->
                    IF {p, q} \in pairs /\ q \in lost THEN << >> ELSE wire[q][p]]]
    BY DEF Break
  <2>2. << >> \in Seq(1..MaxRounds) /\ Len(<< >>) = 0
    BY EmptySeq
  <2>3. \A q, p \in Player : /\ wire'[q][p] \in Seq(1..MaxRounds)
                             /\ Len(wire'[q][p]) <= WireSize
    <3> SUFFICES ASSUME NEW q \in Player, NEW p \in Player
                 PROVE  /\ wire'[q][p] \in Seq(1..MaxRounds)
                        /\ Len(wire'[q][p]) <= WireSize
      OBVIOUS
    <3>1. wire[q][p] \in Seq(1..MaxRounds) /\ Len(wire[q][p]) <= WireSize
      BY DEF TypeInv, StreamsOK
    <3>2. wire'[q][p] = << >> \/ wire'[q][p] = wire[q][p]
      BY <2>1
    <3>3. CASE wire'[q][p] = << >>
      <4>1. 0 <= WireSize
        BY SizeAssumption
      <4> QED
        BY <2>2, <3>3, <4>1, Zenon
    <3> QED
      BY <3>1, <3>2, <3>3, Zenon
  <2> QED
    BY <2>1, <2>3 DEF TypeInv, StreamsOK
<1>2. WorldOK'
  BY BoundAssumption DEF Break, TypeInv, WorldOK
<1> QED
  BY <1>1, <1>2 DEF TypeInv, LoopsOK, SendingOK, GameOK, loops, sending, game

LEMMA InstanceStepType == ASSUME TypeInv, [Next]_vars PROVE TypeInv'
<1>1. CASE Next
  <2> PICK p \in up : \/ GameUI(p) \/ syncLoop(p) \/ Exit(p)
                      \/ \E q \in Others(p) : readLoop(p, q) \/ Lose(p, q)
    BY <1>1 DEF Next
  <2>p. p \in Player
    BY DEF TypeInv, WorldOK
  <2>1. CASE GameUI(p)
    BY <2>p, <2>1, StartSendType, WriteType, SendOwnType, HandleRoundType DEF GameUI
  <2>2. CASE syncLoop(p)
    BY <2>p, <2>2, SyncLoopType
  <2>3. CASE Exit(p)
    BY <2>3, BreakType DEF Exit, TypeInv, WorldOK
  <2>4. ASSUME NEW q \in Others(p), readLoop(p, q) PROVE TypeInv'
    BY <2>p, <2>4, ReadLoopType
  <2>5. ASSUME NEW q \in Others(p), Lose(p, q) PROVE TypeInv'
    BY <2>5, BreakType DEF Lose, TypeInv, WorldOK
  <2> QED
    BY <2>1, <2>2, <2>3, <2>4, <2>5
<1>2. CASE UNCHANGED vars
  BY <1>2 DEF vars, loops, sending, game, world, TypeInv, StreamsOK, LoopsOK, SendingOK,
              GameOK, WorldOK
<1> QED
  BY <1>1, <1>2

LEMMA InitTypeInv == Init => TypeInv
<1> SUFFICES ASSUME Init PROVE TypeInv
  OBVIOUS
<1>1. \A S : << >> \in Seq(S) /\ Len(<< >>) = 0
  BY EmptySeq
<1>2. StreamsOK
  BY <1>1, SizeAssumption DEF Init, StreamsOK, Others
<1>3. NoMoves \in RoundMoves
  BY DEF NoMoves, RoundMoves
<1>4. LoopsOK
  BY <1>1, <1>3, SizeAssumption DEF Init, LoopsOK, Readers
<1>5. SendingOK
  BY BoundAssumption DEF Init, SendingOK
<1>6. Cardinality(Player) \in Int
  BY PlayerAssumption, FS_CardinalityType
<1>7. GameOK
  BY <1>1, <1>6 DEF Init, GameOK
<1>8. WorldOK
  <2>1. 0 \in 0..MaxFaults
    BY BoundAssumption
  <2> QED
    BY <2>1 DEF Init, WorldOK
<1> QED
  BY <1>2, <1>4, <1>5, <1>7, <1>8 DEF TypeInv

LEMMA InstanceTypeInv == SafetySpec => []TypeInv
BY InitTypeInv, InstanceStepType, PTL DEF SafetySpec

\* Whatever the readers, the syncLoops and the UIs of all players do in whatever
\* order, whoever leaves and whichever moves are lost, every variable keeps its
\* type: no buffer and no stream holds more than it has room for.
THEOREM InstanceType == SafetySpec => []TypeOK
BY InstanceTypeInv, TypeInvOK, PTL

-----------------------------------------------------------------------------
\* The rules have killed nobody so far.
Unharmed == \A p, q \in Player : Round(p) < DiesIn[q]

\* A player is subtracted from AliveSnakes when its reader reports it, and its
\* reader reports once.
AliveInv ==
  Unharmed =>
    \A p \in Player :
      /\ alive[p] = Cardinality(snakes[p])
      /\ \A q \in Others(p) : reader[p][q] # "gone" => q \in snakes[p]

\* Rounds are only added: whom the rules have not killed they did not kill before.
LEMMA RoundsGrow ==
  ASSUME TypeInv, [Next]_vars, NEW p \in Player
  PROVE  Round(p) \in Nat /\ Round(p)' \in Nat /\ Round(p) <= Round(p)'
<1>1. rounds[p] \in Seq(RoundMoves) /\ collected[p] \in RoundMoves
  BY DEF TypeInv, GameOK, LoopsOK
<1>2. rounds' = rounds \/ \E r \in Player : rounds' = [rounds EXCEPT ![r] = Append(@, collected[r])]
  <2>1. ASSUME NEW r \in up, syncLoop(r)
        PROVE  rounds' = rounds \/ rounds' = [rounds EXCEPT ![r] = Append(@, collected[r])]
    BY <2>1 DEF syncLoop, TakeMove, Count, Emit, game
  <2>2. ASSUME NEW r \in up, GameUI(r) PROVE rounds' = rounds
    BY <2>2 DEF GameUI, StartSend, Write, SendOwn, HandleRound, game
  <2>3. ASSUME NEW r \in up, NEW q \in Others(r), readLoop(r, q) PROVE rounds' = rounds
    BY <2>3 DEF readLoop, ReadMove, ReadEnd, PutStub, Report, game
  <2>4. ASSUME NEW r \in up, Exit(r) \/ \E q \in Others(r) : Lose(r, q) PROVE rounds' = rounds
    BY <2>4 DEF Exit, Lose, game
  <2>5. CASE UNCHANGED vars
    BY <2>5 DEF vars, game
  <2> QED
    BY <2>1, <2>2, <2>3, <2>4, <2>5 DEF Next, TypeInv, WorldOK
<1>3. rounds'[p] = rounds[p] \/ rounds'[p] = Append(rounds[p], collected[p])
  BY <1>2 DEF TypeInv, GameOK
<1>4. Len(rounds[p]) \in Nat /\ Len(Append(rounds[p], collected[p])) = Len(rounds[p]) + 1
  BY <1>1, AppendSeq, LenProperties
<1> QED
  BY <1>3, <1>4 DEF Round

LEMMA UnharmedBefore == ASSUME TypeInv, [Next]_vars, Unharmed' PROVE Unharmed
<1> SUFFICES ASSUME NEW p \in Player, NEW q \in Player PROVE Round(p) < DiesIn[q]
  BY DEF Unharmed
<1>1. Round(p)' < DiesIn[q] /\ DiesIn[q] \in Nat
  BY DeathAssumption DEF Unharmed
<1>2. Round(p) \in Nat /\ Round(p)' \in Nat /\ Round(p) <= Round(p)'
  BY RoundsGrow
<1> QED
  BY <1>1, <1>2

\* Then nobody is among the dead of a round.
LEMMA NoDead ==
  ASSUME TypeInv, Unharmed, NEW p \in Player, HandleRound(p)
  PROVE  /\ streams' = streams /\ snakes' = snakes /\ alive' = alive
         /\ ui' = [ui EXCEPT ![p] = "timer"]
         /\ UNCHANGED <<wire, loops, sending, rounds, world, late>>
<1> DEFINE dead == {q \in DOMAIN rounds[p][Round(p)] : DiesIn[q] = Round(p)}
<1>1. dead \subseteq Player
  BY DeadType DEF HandleRound
<1>2. \A q \in Player : DiesIn[q] # Round(p)
  <2> SUFFICES ASSUME NEW q \in Player PROVE DiesIn[q] # Round(p)
    OBVIOUS
  <2>1. Round(p) < DiesIn[q] /\ DiesIn[q] \in Nat /\ Round(p) \in Nat
    BY DeathAssumption, LenProperties DEF Unharmed, TypeInv, GameOK, Round
  <2> QED
    BY <2>1
<1>3. dead = {} /\ Cardinality(dead) = 0
  BY <1>1, <1>2, FS_EmptySet
<1>4. /\ streams' = [streams EXCEPT ![p] = @ \ dead]
      /\ snakes' = [snakes EXCEPT ![p] = @ \ dead]
      /\ alive' = [alive EXCEPT ![p] = @ - Cardinality(dead)]
  BY DEF HandleRound
<1> HIDE DEF dead
<1>5. streams' = streams
  BY <1>3, <1>4 DEF TypeInv, StreamsOK
<1>6. snakes' = snakes
  BY <1>3, <1>4 DEF TypeInv, GameOK
<1>7. alive' = alive
  BY <1>3, <1>4 DEF TypeInv, GameOK
<1> QED
  BY <1>5, <1>6, <1>7 DEF HandleRound

LEMMA AliveStep ==
  ASSUME TypeInv, AliveInv, [Next]_vars
  PROVE  AliveInv'
<1> SUFFICES ASSUME Unharmed'
             PROVE  \A p \in Player :
                      /\ alive'[p] = Cardinality(snakes'[p])
                      /\ \A q \in Others(p) : reader'[p][q] # "gone" => q \in snakes'[p]
  BY DEF AliveInv, Others
<1>u. Unharmed
  BY UnharmedBefore
<1>i. \A p \in Player : /\ alive[p] = Cardinality(snakes[p])
                        /\ \A q \in Others(p) : reader[p][q] # "gone" => q \in snakes[p]
  BY <1>u DEF AliveInv
<1>r. /\ reader = [p \in Player |-> reader[p]]
      /\ \A p \in Player : reader[p] \in Readers(p)
  BY DEF TypeInv, LoopsOK
<1>1. CASE UNCHANGED <<reader, snakes, alive>>
  BY <1>1, <1>i
<1>2. ASSUME NEW p \in Player, NEW q \in Others(p), Report(p, q)
      PROVE  \A r \in Player :
               /\ alive'[r] = Cardinality(snakes'[r])
               /\ \A s \in Others(r) : reader'[r][s] # "gone" => s \in snakes'[r]
  <2>1. reader[p][q] = "report" /\ reader' = [reader EXCEPT ![p][q] = "gone"]
    BY <1>2 DEF Report, ReaderAt
  <2>2. /\ \A r \in Player \ {p} : reader'[r] = reader[r]
        /\ reader'[p][q] = "gone"
        /\ \A s \in Others(p) \ {q} : reader'[p][s] = reader[p][s]
    BY <1>r, <2>1 DEF Readers
  <2>3. CASE UNCHANGED <<snakes, alive>>
    BY <1>i, <2>2, <2>3
  <2>4. CASE /\ snakes' = [snakes EXCEPT ![p] = snakes[p] \ {q}]
             /\ alive' = [alive EXCEPT ![p] = alive[p] - 1]
    <3>1. q \in snakes[p]
      BY <1>i, <2>1
    <3>2. IsFiniteSet(snakes[p])
      BY PlayerAssumption, FS_Subset DEF TypeInv, GameOK
    <3>3. Cardinality(snakes[p] \ {q}) = Cardinality(snakes[p]) - 1
      BY <3>1, <3>2, FS_RemoveElement
    <3>4. /\ snakes'[p] = snakes[p] \ {q} /\ alive'[p] = alive[p] - 1
          /\ \A r \in Player \ {p} : snakes'[r] = snakes[r] /\ alive'[r] = alive[r]
      BY <2>4 DEF TypeInv, GameOK
    <3>5. \A r \in Player : alive'[r] = Cardinality(snakes'[r])
      BY <1>i, <3>3, <3>4
    <3> QED
      BY <1>i, <2>2, <3>4, <3>5
  <2> QED
    BY <1>2, <2>3, <2>4 DEF Report
<1>3. ASSUME NEW p \in Player, NEW q \in Others(p), ReadEnd(p, q) \/ PutStub(p, q)
      PROVE  \A r \in Player :
               /\ alive'[r] = Cardinality(snakes'[r])
               /\ \A s \in Others(r) : reader'[r][s] # "gone" => s \in snakes'[r]
  <2>1. /\ reader[p][q] # "gone" /\ UNCHANGED <<snakes, alive>>
        /\ \E pc \in {"stub", "report"} : reader' = [reader EXCEPT ![p][q] = pc]
    BY <1>3 DEF ReadEnd, PutStub, ReaderAt, game
  <2>2. /\ \A r \in Player \ {p} : reader'[r] = reader[r]
        /\ \A s \in Others(p) \ {q} : reader'[p][s] = reader[p][s]
    BY <1>r, <2>1 DEF Readers
  <2> QED
    BY <1>i, <2>1, <2>2
<1>4. ASSUME NEW p \in Player, HandleRound(p) PROVE UNCHANGED <<reader, snakes, alive>>
  BY <1>u, <1>4, NoDead DEF loops
<1>5. CASE \E p \in Player : HandleRound(p) \/ \E q \in Others(p) :
             Report(p, q) \/ ReadEnd(p, q) \/ PutStub(p, q)
  BY <1>1, <1>2, <1>3, <1>4, <1>5
<1>6. CASE /\ Next
           /\ ~\E p \in Player : HandleRound(p) \/ \E q \in Others(p) :
                 Report(p, q) \/ ReadEnd(p, q) \/ PutStub(p, q)
  <2>1. UNCHANGED <<reader, snakes, alive>>
    <3>1. ASSUME NEW p \in up, GameUI(p), ~HandleRound(p) PROVE UNCHANGED <<reader, snakes, alive>>
      BY <3>1 DEF GameUI, StartSend, Write, SendOwn, game, loops
    <3>2. ASSUME NEW p \in up, syncLoop(p) PROVE UNCHANGED <<reader, snakes, alive>>
      BY <3>2 DEF syncLoop, TakeMove, Count, Emit, game
    <3>3. ASSUME NEW p \in up, NEW q \in Others(p), ReadMove(p, q)
          PROVE  UNCHANGED <<reader, snakes, alive>>
      BY <3>3 DEF ReadMove, game
    <3>4. ASSUME NEW p \in up, Exit(p) \/ \E q \in Others(p) : Lose(p, q)
          PROVE  UNCHANGED <<reader, snakes, alive>>
      BY <3>4 DEF Exit, Lose, game, loops
    <3> QED
      BY <1>6, <3>1, <3>2, <3>3, <3>4 DEF Next, readLoop, TypeInv, WorldOK
  <2> QED
    BY <1>1, <2>1
<1>7. CASE UNCHANGED vars
  BY <1>1, <1>7 DEF vars, loops, game
<1> QED
  BY <1>5, <1>6, <1>7

\* Until the rules kill somebody, AliveSnakes is the number of snakes alive:
\* however the ends of streams, reports and rounds fall together, each player
\* that leaves is subtracted once.
THEOREM InstanceAlive == SafetySpec => [](Unharmed => AliveIsCount)
<1>1. Init => AliveInv
  BY DEF Init, AliveInv, Others
<1>2. AliveInv => (Unharmed => AliveIsCount)
  BY DEF AliveInv, AliveIsCount
<1> QED
  BY <1>1, <1>2, InstanceTypeInv, AliveStep, PTL DEF SafetySpec

-----------------------------------------------------------------------------
\* Nobody has left so far either.
Undisturbed == faults = 0 /\ Unharmed

\* Then all streams stand, and a UI has made its move for the round to come
\* exactly while it sends it or waits for the round.
CalmAt(p) ==
  /\ streams[p] = Others(p)
  /\ \A q \in Others(p) : reader[p][q] = "scan"
  /\ wire[p][p] = << >>
  /\ ~failed[p]
  /\ sent[p] = Round(p) + IF ui[p] \in {"sending", "waiting"} THEN 1 ELSE 0
  /\ unsent[p] \subseteq Others(p)
  /\ \A i \in DOMAIN moves[p] : moves[p][i].from # {}
  /\ sync[p] = "emit" => DOMAIN collected[p] = Player
  /\ sync[p] = "take" => DOMAIN collected[p] # Player

Calm == cut = {} /\ up = Player /\ \A p \in Player : CalmAt(p)

\* The moves of q that p has counted: one for each round, and one for the next.
Counted(q, p) == Round(p) + IF q \in DOMAIN collected[p] THEN 1 ELSE 0

\* q has still to write its last move to p, or to put it into its own buffer.
InHand(q, p) == ui[q] = "sending" /\ (p \in unsent[q] \/ p = q)

\* A move n of q that p has still to take.
Fits(q, p, n) == /\ Counted(q, p) < n /\ n <= sent[q]
                 /\ InHand(q, p) => n < sent[q]

\* What q has under way to p comes in order, after what p has counted.
Ahead(q, p) == /\ Counted(q, p) <= sent[q]
               /\ InHand(q, p) => Counted(q, p) < sent[q]

OnWire(q, p) ==
  \A i \in DOMAIN wire[q][p] :
    /\ Fits(q, p, wire[q][p][i])
    /\ \A j \in DOMAIN wire[q][p] : i < j => wire[q][p][i] < wire[q][p][j]

InBuffer(q, p) ==
  \A i \in DOMAIN moves[p] : moves[p][i].from = {q} =>
    /\ Fits(q, p, moves[p][i].move)
    /\ \A j \in DOMAIN wire[q][p] : moves[p][i].move < wire[q][p][j]
    /\ \A j \in DOMAIN moves[p] :
         i < j /\ moves[p][j].from = {q} => moves[p][i].move < moves[p][j].move

InOrder(q, p) == Ahead(q, p) /\ OnWire(q, p) /\ InBuffer(q, p)

LockInv == Undisturbed => Calm /\ \A q, p \in Player : InOrder(q, p)

\* The numbers that these are about.
LEMMA Numbers ==
  ASSUME TypeInv, NEW p \in Player, NEW q \in Player
  PROVE  /\ Round(p) \in Nat /\ sent[q] \in Nat /\ Counted(q, p) \in Nat
         /\ Counted(q, p) \in {Round(p), Round(p) + 1}
         /\ wire[q][p] \in Seq(1..MaxRounds) /\ moves[p] \in Seq(Move)
         /\ DOMAIN wire[q][p] = 1..Len(wire[q][p]) /\ Len(wire[q][p]) \in Nat
         /\ DOMAIN moves[p] = 1..Len(moves[p]) /\ Len(moves[p]) \in Nat
         /\ \A i \in DOMAIN wire[q][p] : wire[q][p][i] \in Nat
         /\ \A i \in DOMAIN moves[p] :
              /\ moves[p][i].move \in Nat /\ moves[p][i] \in Move
              /\ moves[p][i].from # {} => \E r \in Player : moves[p][i].from = {r}
<1>1. wire[q][p] \in Seq(1..MaxRounds) /\ moves[p] \in Seq(Move)
  BY DEF TypeInv, StreamsOK, LoopsOK
<1>2. /\ DOMAIN wire[q][p] = 1..Len(wire[q][p]) /\ Len(wire[q][p]) \in Nat
      /\ DOMAIN moves[p] = 1..Len(moves[p]) /\ Len(moves[p]) \in Nat
  BY <1>1, LenProperties
<1>3. \A i \in DOMAIN wire[q][p] : wire[q][p][i] \in Nat
  <2> SUFFICES ASSUME NEW i \in DOMAIN wire[q][p] PROVE wire[q][p][i] \in Nat
    OBVIOUS
  <2>1. wire[q][p][i] \in 1..MaxRounds
    BY <1>1, <1>2, ElementOfSeq
  <2> QED
    BY <2>1
<1>4. \A i \in DOMAIN moves[p] :
        /\ moves[p][i].move \in Nat /\ moves[p][i] \in Move
        /\ moves[p][i].from # {} => \E r \in Player : moves[p][i].from = {r}
  <2> SUFFICES ASSUME NEW i \in DOMAIN moves[p]
               PROVE  /\ moves[p][i].move \in Nat /\ moves[p][i] \in Move
                      /\ moves[p][i].from # {} => \E r \in Player : moves[p][i].from = {r}
    OBVIOUS
  <2>1. moves[p][i] \in Move
    BY <1>1, <1>2, ElementOfSeq
  <2> QED
    BY <2>1 DEF Move
<1>5. Round(p) \in Nat /\ sent[q] \in Nat
  BY LenProperties DEF TypeInv, GameOK, SendingOK, Round
<1>6. Counted(q, p) \in Nat /\ Counted(q, p) \in {Round(p), Round(p) + 1}
  BY <1>5 DEF Counted
<1> QED
  BY <1>1, <1>2, <1>3, <1>4, <1>5, <1>6

\* The barrier: a round that p has played has a move of everybody, and a player
\* has made one move more than it has played rounds, or none.
LEMMA RoundsFollow ==
  ASSUME TypeInv, Undisturbed, LockInv, NEW p \in Player, NEW q \in Player
  PROVE  Round(p) <= sent[q] /\ Round(p) <= sent[p] /\ sent[p] <= Round(p) + 1
<1>1. CalmAt(p) /\ Ahead(q, p)
  BY DEF LockInv, Calm, InOrder
<1>2. /\ Round(p) \in Nat /\ sent[q] \in Nat /\ sent[p] \in Nat
      /\ Counted(q, p) \in {Round(p), Round(p) + 1}
  BY Numbers
<1> QED
  BY <1>1, <1>2 DEF CalmAt, Ahead

LEMMA UndisturbedBefore ==
  ASSUME TypeInv, [Next]_vars, Undisturbed'
  PROVE  Undisturbed
<1>1. faults \in Nat
  BY DEF TypeInv, WorldOK
<1>2. faults' = faults \/ faults' = faults + 1
  <2>1. faults' = faults \/ \E pairs : Break(pairs)
    <3>1. ASSUME NEW p \in up, Exit(p) PROVE \E pairs : Break(pairs)
      BY <3>1 DEF Exit
    <3>2. ASSUME NEW p \in up, NEW q \in Others(p), Lose(p, q) PROVE \E pairs : Break(pairs)
      BY <3>2 DEF Lose
    <3>3. ASSUME NEW p \in up,
                 GameUI(p) \/ syncLoop(p) \/ \E q \in Others(p) : readLoop(p, q)
          PROVE  faults' = faults
      BY <3>3 DEF GameUI, syncLoop, readLoop, StartSend, Write, SendOwn, HandleRound,
          TakeMove, Count, Emit, ReadMove, ReadEnd, PutStub, Report, world
    <3>4. CASE UNCHANGED vars
      BY <3>4 DEF vars, world
    <3> QED
      BY <3>1, <3>2, <3>3, <3>4 DEF Next
  <2>2. ASSUME NEW pairs, Break(pairs) PROVE faults' = faults + 1
    BY <2>2 DEF Break
  <2> QED
    BY <2>1, <2>2
<1> QED
  BY <1>1, <1>2, UnharmedBefore DEF Undisturbed

\* What a step leaves alone of q and of p stays in order.
LEMMA OrderFrame ==
  ASSUME NEW q \in Player, NEW p \in Player, InOrder(q, p),
         Round(p)' = Round(p), DOMAIN collected'[p] = DOMAIN collected[p],
         sent'[q] = sent[q], InHand(q, p)' => InHand(q, p),
         wire'[q][p] = wire[q][p], moves'[p] = moves[p]
  PROVE  InOrder(q, p)'
<1>1. Counted(q, p)' = Counted(q, p)
  BY DEF Counted
<1>2. \A n : Fits(q, p, n) => Fits(q, p, n)'
  BY <1>1 DEF Fits
<1>3. Ahead(q, p)'
  BY <1>1 DEF InOrder, Ahead
<1>4. OnWire(q, p)'
  BY <1>2 DEF InOrder, OnWire
<1>5. InBuffer(q, p)'
  BY <1>2 DEF InOrder, InBuffer
<1> QED
  BY <1>3, <1>4, <1>5 DEF InOrder

\* A move of another player that comes into the buffer changes nothing.
LEMMA OrderBeside ==
  ASSUME TypeInv, NEW q \in Player, NEW p \in Player, InOrder(q, p),
         Round(p)' = Round(p), DOMAIN collected'[p] = DOMAIN collected[p],
         sent'[q] = sent[q], InHand(q, p)' => InHand(q, p),
         wire'[q][p] = wire[q][p],
         NEW m \in Move, moves'[p] = Append(moves[p], m), m.from # {q}
  PROVE  InOrder(q, p)'
<1>1. Counted(q, p)' = Counted(q, p)
  BY DEF Counted
<1>2. \A n : Fits(q, p, n) => Fits(q, p, n)'
  BY <1>1 DEF Fits
<1>3. Ahead(q, p)'
  BY <1>1 DEF InOrder, Ahead
<1>4. OnWire(q, p)'
  BY <1>2 DEF InOrder, OnWire
<1>5. \A i \in DOMAIN moves'[p] : moves'[p][i].from = {q} =>
        i \in DOMAIN moves[p] /\ moves'[p][i] = moves[p][i]
  <2>1. moves[p] \in Seq(Move) /\ DOMAIN moves[p] = 1..Len(moves[p]) /\ Len(moves[p]) \in Nat
    BY Numbers
  <2>2. /\ DOMAIN moves'[p] = 1..(Len(moves[p]) + 1)
        /\ \A i \in 1..Len(moves[p]) : moves'[p][i] = moves[p][i]
        /\ moves'[p][Len(moves[p]) + 1] = m
    BY <2>1, AppendSeq
  <2> QED
    BY <2>1, <2>2
<1>6. InBuffer(q, p)'
  BY <1>2, <1>5 DEF InOrder, InBuffer
<1> QED
  BY <1>3, <1>4, <1>6 DEF InOrder

-----------------------------------------------------------------------------
\* A move is started when its player has played every move it made.
LEMMA StartSendOrder ==
  ASSUME TypeInv, Calm, \A q, r \in Player : InOrder(q, r),
         NEW p \in Player, StartSend(p)
  PROVE  Calm' /\ \A q, r \in Player : InOrder(q, r)'
<1>1. /\ ui[p] = "timer"
      /\ ui' = [ui EXCEPT ![p] = "sending"]
      /\ unsent' = [unsent EXCEPT ![p] = streams[p]]
      /\ failed' = [failed EXCEPT ![p] = FALSE]
      /\ sent' = [sent EXCEPT ![p] = Round(p) + 1]
      /\ UNCHANGED <<streams, wire, reader, moves, collected, sync, rounds, up, cut>>
  BY DEF StartSend, loops, game, world
<1>2. /\ ui'[p] = "sending" /\ unsent'[p] = streams[p] /\ ~failed'[p]
      /\ sent'[p] = Round(p) + 1
      /\ \A r \in Player \ {p} : /\ ui'[r] = ui[r] /\ unsent'[r] = unsent[r]
                                 /\ sent'[r] = sent[r]
      /\ \A r \in Player \ {p} : failed'[r] = failed[r]
  BY <1>1 DEF TypeInv, SendingOK
<1>3. \A r \in Player : Round(r)' = Round(r)
  BY <1>1 DEF Round
<1>4. Calm'
  BY <1>1, <1>2, <1>3 DEF Calm, CalmAt
<1>5. ASSUME NEW r \in Player PROVE InOrder(p, r)'
  <2>1. sent[p] = Round(p) /\ Round(p) \in Nat
    <3>1. CalmAt(p) /\ Round(p) \in Nat
      BY Numbers DEF Calm
    <3> QED
      BY <1>1, <3>1 DEF CalmAt
  <2>2. Counted(p, r)' = Counted(p, r) /\ Counted(p, r) \in Nat
    BY <1>1, <1>3, Numbers DEF Counted
  <2>3. InOrder(p, r)
    OBVIOUS
  <2>4. \A n \in Nat : Fits(p, r, n) => Fits(p, r, n)'
    BY <1>2, <2>1, <2>2 DEF Fits
  <2>5. Ahead(p, r)'
    BY <1>2, <2>1, <2>2, <2>3 DEF InOrder, Ahead
  <2>6. OnWire(p, r)'
    BY <1>1, <2>3, <2>4, Numbers DEF InOrder, OnWire
  <2>7. InBuffer(p, r)'
    BY <1>1, <2>3, <2>4, Numbers DEF InOrder, InBuffer
  <2> QED
    BY <2>5, <2>6, <2>7 DEF InOrder
<1>6. ASSUME NEW q \in Player, q # p, NEW r \in Player PROVE InOrder(q, r)'
  <2>1. InHand(q, r)' => InHand(q, r)
    BY <1>2, <1>6 DEF InHand
  <2> QED
    BY <1>1, <1>2, <1>3, <1>6, <2>1, OrderFrame
<1> QED
  BY <1>4, <1>5, <1>6

\* A move is written behind all that its player wrote to that peer before.
LEMMA WriteOrder ==
  ASSUME TypeInv, Calm, \A q, r \in Player : InOrder(q, r),
         NEW p \in Player, NEW y \in Others(p), Write(p, y)
  PROVE  Calm' /\ \A q, r \in Player : InOrder(q, r)'
<1>y. y \in Player /\ y # p
  BY DEF Others
<1>1. ~Closed(p, y)
  BY <1>y DEF Closed, Calm, CalmAt, Others
<1>2. /\ ui[p] = "sending" /\ y \in unsent[p]
      /\ unsent' = [unsent EXCEPT ![p] = unsent[p] \ {y}]
      /\ wire' = [wire EXCEPT ![p][y] = Append(wire[p][y], sent[p])]
      /\ UNCHANGED <<streams, reader, moves, collected, sync, ui, failed, sent, rounds, up, cut>>
  BY <1>1 DEF Write, loops, game, world
<1>3. /\ unsent'[p] = unsent[p] \ {y} /\ \A r \in Player \ {p} : unsent'[r] = unsent[r]
      /\ wire'[p][y] = Append(wire[p][y], sent[p])
      /\ \A q, r \in Player : ~(q = p /\ r = y) => wire'[q][r] = wire[q][r]
  BY <1>2, <1>y DEF TypeInv, SendingOK, StreamsOK
<1>4. \A r \in Player : Round(r)' = Round(r)
  BY <1>2 DEF Round
<1>5. Calm'
  BY <1>2, <1>3, <1>4, <1>y DEF Calm, CalmAt
<1>6. \A q, r \in Player : InHand(q, r)' => InHand(q, r)
  BY <1>2, <1>3 DEF InHand
<1>7. ASSUME NEW q \in Player, NEW r \in Player, ~(q = p /\ r = y) PROVE InOrder(q, r)'
  BY <1>2, <1>3, <1>4, <1>6, <1>7, OrderFrame
<1>8. InOrder(p, y)'
  <2>1. InHand(p, y) /\ ~InHand(p, y)'
    BY <1>2, <1>3, <1>y DEF InHand
  <2>2. Ahead(p, y) /\ OnWire(p, y) /\ InBuffer(p, y)
    BY <1>y DEF InOrder
  <2>3. Counted(p, y)' = Counted(p, y) /\ Counted(p, y) \in Nat /\ sent[p] \in Nat
    BY <1>2, <1>4, <1>y, Numbers DEF Counted
  <2>4. \A n : Fits(p, y, n) => Fits(p, y, n)' /\ n < sent[p]
    BY <1>2, <2>1, <2>3 DEF Fits
  <2>5. Fits(p, y, sent[p])'
    BY <1>2, <2>1, <2>2, <2>3 DEF Fits, Ahead
  <2>6. wire[p][y] \in Seq(1..MaxRounds) /\ sent[p] \in 1..MaxRounds
    BY <1>2, <1>y DEF TypeInv, StreamsOK, SendingOK
  <2>7. /\ \A i \in DOMAIN wire'[p][y] :
             \/ i \in DOMAIN wire[p][y] /\ wire'[p][y][i] = wire[p][y][i]
             \/ wire'[p][y][i] = sent[p]
        /\ \A i, j \in DOMAIN wire'[p][y] :
             i < j => i \in DOMAIN wire[p][y] /\ wire'[p][y][i] = wire[p][y][i]
    BY <1>3, <2>6, AppendParts
  <2>8. Ahead(p, y)'
    BY <1>2, <2>1, <2>2, <2>3 DEF Ahead
  <2>9. OnWire(p, y)'
    BY <1>2, <2>2, <2>4, <2>5, <2>7 DEF OnWire
  <2>10. InBuffer(p, y)'
    BY <1>2, <2>2, <2>4, <2>7 DEF InBuffer
  <2> QED
    BY <2>8, <2>9, <2>10 DEF InOrder
<1> QED
  BY <1>5, <1>7, <1>8

\* Our own move goes behind the earlier ones in our own buffer.
LEMMA SendOwnOrder ==
  ASSUME TypeInv, Calm, \A q, r \in Player : InOrder(q, r),
         NEW p \in Player, SendOwn(p)
  PROVE  Calm' /\ \A q, r \in Player : InOrder(q, r)'
<1> DEFINE m == MoveOf(p, sent[p])
<1>1. /\ ui[p] = "sending" /\ unsent[p] = {}
      /\ moves' = [moves EXCEPT ![p] = Append(@, m)]
      /\ ui' = [ui EXCEPT ![p] = "waiting"]
      /\ failed' = [failed EXCEPT ![p] = FALSE]
      /\ UNCHANGED <<streams, wire, reader, collected, sync, unsent, sent, rounds, up, cut>>
  BY DEF SendOwn, Put, Calm, CalmAt, game, world
<1>2. /\ moves'[p] = Append(moves[p], m)
      /\ \A r \in Player \ {p} : moves'[r] = moves[r] /\ ui'[r] = ui[r]
      /\ ui'[p] = "waiting"
  BY <1>1 DEF TypeInv, LoopsOK, SendingOK
<1>f. \A r \in Player : ~failed[r] => ~failed'[r]
  BY <1>1 DEF TypeInv, SendingOK
<1>3. m \in Move /\ m.from = {p} /\ m.move = sent[p]
  BY DEF MoveOf, Move, TypeInv, SendingOK
<1>4. \A r \in Player : Round(r)' = Round(r)
  BY <1>1 DEF Round
<1>5. moves[p] \in Seq(Move)
  BY Numbers
<1> HIDE DEF m
<1>6. /\ \A i \in DOMAIN moves'[p] :
           (i \in DOMAIN moves[p] /\ moves'[p][i] = moves[p][i]) \/ moves'[p][i] = m
      /\ \A i, j \in DOMAIN moves'[p] :
           i < j => i \in DOMAIN moves[p] /\ moves'[p][i] = moves[p][i]
  BY <1>2, <1>3, <1>5, AppendParts
<1>7. Calm'
  <2>1. ASSUME NEW r \in Player, r # p PROVE CalmAt(r)'
    BY <1>1, <1>2, <1>f, <1>4, <2>1 DEF Calm, CalmAt
  <2>2. CalmAt(p)'
    <3>1. CalmAt(p)
      BY DEF Calm
    <3>2. \A i \in DOMAIN moves'[p] : moves'[p][i].from # {}
      BY <1>3, <1>6, <3>1 DEF CalmAt
    <3> QED
      BY <1>1, <1>2, <1>f, <1>4, <3>1, <3>2 DEF CalmAt
  <2> QED
    BY <1>1, <2>1, <2>2 DEF Calm
<1>8. \A q, r \in Player : InHand(q, r)' => InHand(q, r)
  BY <1>1, <1>2 DEF InHand
<1>9. ASSUME NEW q \in Player, NEW r \in Player, r # p PROVE InOrder(q, r)'
  BY <1>1, <1>2, <1>4, <1>8, <1>9, OrderFrame
<1>10. ASSUME NEW q \in Player, q # p PROVE InOrder(q, p)'
  <2>1. m.from # {q} /\ m \in Move
    BY <1>3, <1>10
  <2>2. /\ Round(p)' = Round(p) /\ collected'[p] = collected[p] /\ sent'[q] = sent[q]
        /\ InHand(q, p)' => InHand(q, p)
        /\ wire'[q][p] = wire[q][p] /\ moves'[p] = Append(moves[p], m)
    BY <1>1, <1>2, <1>4, <1>8
  <2>3. InOrder(q, p) /\ DOMAIN collected'[p] = DOMAIN collected[p]
    BY <2>2
  <2> QED
    BY <2>1, <2>2, <2>3, OrderBeside
<1>11. InOrder(p, p)'
  <2>1. InHand(p, p) /\ ~InHand(p, p)'
    BY <1>1, <1>2 DEF InHand
  <2>2. Ahead(p, p) /\ OnWire(p, p) /\ InBuffer(p, p)
    BY DEF InOrder
  <2>3. Counted(p, p)' = Counted(p, p) /\ Counted(p, p) \in Nat /\ sent[p] \in Nat
    BY <1>1, <1>4, Numbers DEF Counted
  <2>4. \A n : Fits(p, p, n) => Fits(p, p, n)' /\ n < sent[p]
    BY <1>1, <2>1, <2>3 DEF Fits
  <2>5. Fits(p, p, sent[p])'
    BY <1>1, <2>1, <2>2, <2>3 DEF Fits, Ahead
  <2>6. wire'[p][p] = wire[p][p] /\ DOMAIN wire[p][p] = {}
    BY <1>1 DEF Calm, CalmAt
  <2>7. Ahead(p, p)' /\ OnWire(p, p)'
    BY <1>1, <2>1, <2>2, <2>3, <2>6 DEF Ahead, OnWire
  <2>8. InBuffer(p, p)'
    <3> SUFFICES ASSUME NEW i \in DOMAIN moves'[p], moves'[p][i].from = {p}
                 PROVE  /\ Fits(p, p, moves[p][i].move)'
                        /\ \A j \in DOMAIN moves'[p] :
                             i < j /\ moves'[p][j].from = {p} =>
                               moves'[p][i].move < moves'[p][j].move
      BY <2>6 DEF InBuffer
    <3>1. CASE i \in DOMAIN moves[p] /\ moves'[p][i] = moves[p][i]
      BY <1>3, <1>6, <2>2, <2>4, <3>1 DEF InBuffer
    <3>2. CASE moves'[p][i] = m /\ \A j \in DOMAIN moves'[p] : ~(i < j)
      BY <1>1, <1>3, <2>5, <3>2
    <3> QED
      BY <1>6, <3>1, <3>2
  <2> QED
    BY <2>7, <2>8 DEF InOrder
<1> QED
  BY <1>7, <1>9, <1>10, <1>11

\* A move goes from the front of the stream to the end of the buffer.
LEMMA ReadMoveOrder ==
  ASSUME TypeInv, Calm, \A q, r \in Player : InOrder(q, r),
         NEW p \in Player, NEW y \in Others(p), ReadMove(p, y)
  PROVE  Calm' /\ \A q, r \in Player : InOrder(q, r)'
<1>y. y \in Player /\ y # p
  BY DEF Others
<1>n. PICK n : n = Head(wire[y][p])
  OBVIOUS
<1> DEFINE m == MoveOf(y, n)
<1>1. /\ wire[y][p] # << >>
      /\ moves' = [moves EXCEPT ![p] = Append(@, m)]
      /\ wire' = [wire EXCEPT ![y][p] = Tail(@)]
      /\ UNCHANGED <<streams, reader, collected, sync, ui, unsent, failed, sent, rounds, up, cut>>
  BY <1>n DEF ReadMove, Put, sending, game, world
<1>2. /\ moves'[p] = Append(moves[p], m) /\ wire'[y][p] = Tail(wire[y][p])
      /\ \A r \in Player \ {p} : moves'[r] = moves[r]
      /\ \A q, r \in Player : ~(q = y /\ r = p) => wire'[q][r] = wire[q][r]
  BY <1>1, <1>y DEF TypeInv, LoopsOK, StreamsOK
<1>3. /\ n \in 1..MaxRounds /\ n = wire[y][p][1] /\ 1 \in DOMAIN wire[y][p]
      /\ \A i \in DOMAIN wire'[y][p] : /\ 1 < i + 1 /\ i + 1 \in DOMAIN wire[y][p]
                                       /\ wire'[y][p][i] = wire[y][p][i + 1]
      /\ \A i, j \in DOMAIN wire'[y][p] : i < j => i + 1 < j + 1
  <2>1. wire[y][p] \in Seq(1..MaxRounds) /\ wire[y][p] # << >>
    BY <1>1, <1>y, Numbers
  <2>2. PICK w, t, S : w = wire[y][p] /\ t = wire'[y][p] /\ S = 1..MaxRounds
    OBVIOUS
  <2>3. w \in Seq(S) /\ w # << >> /\ t = Tail(w)
    BY <1>2, <2>1, <2>2
  <2>4. /\ Head(w) \in S /\ Head(w) = w[1] /\ 1 \in DOMAIN w
        /\ \A i \in DOMAIN t : 1 < i + 1 /\ i + 1 \in DOMAIN w /\ t[i] = w[i + 1]
        /\ \A i, j \in DOMAIN t : i < j => i + 1 < j + 1
    BY <2>3, TailParts
  <2> QED
    BY <1>n, <2>2, <2>4
<1>4. m \in Move /\ m.from = {y} /\ m.move = n
  BY <1>y, <1>3 DEF MoveOf, Move
<1> HIDE DEF m
<1>5. moves[p] \in Seq(Move)
  BY Numbers
<1>6. /\ \A i \in DOMAIN moves'[p] :
           (i \in DOMAIN moves[p] /\ moves'[p][i] = moves[p][i]) \/ moves'[p][i] = m
      /\ \A i, j \in DOMAIN moves'[p] :
           i < j => i \in DOMAIN moves[p] /\ moves'[p][i] = moves[p][i]
  BY <1>2, <1>4, <1>5, AppendParts
<1>7. \A r \in Player : Round(r)' = Round(r)
  BY <1>1 DEF Round
<1>8. Calm'
  <2>1. ASSUME NEW r \in Player PROVE CalmAt(r)'
    <3>1. CalmAt(r)
      BY DEF Calm
    <3>2. \A i \in DOMAIN moves'[r] : moves'[r][i].from # {}
      <4>1. \A i \in DOMAIN moves[r] : moves[r][i].from # {}
        BY <3>1 DEF CalmAt
      <4>2. m.from # {}
        BY <1>4
      <4> QED
        BY <1>2, <1>6, <4>1, <4>2
    <3>3. wire'[r][r] = wire[r][r]
      BY <1>2, <1>y
    <3> QED
      BY <1>1, <1>7, <3>1, <3>2, <3>3 DEF CalmAt
  <2> QED
    BY <1>1, <2>1 DEF Calm
<1>9. \A q, r \in Player : InHand(q, r)' => InHand(q, r)
  BY <1>1 DEF InHand
<1>10. ASSUME NEW q \in Player, NEW r \in Player, r # p PROVE InOrder(q, r)'
  BY <1>1, <1>2, <1>7, <1>9, <1>10, OrderFrame
<1>11. ASSUME NEW q \in Player, q # y PROVE InOrder(q, p)'
  <2>1. m.from # {q} /\ m \in Move
    BY <1>4, <1>11
  <2>2. /\ Round(p)' = Round(p) /\ collected'[p] = collected[p] /\ sent'[q] = sent[q]
        /\ InHand(q, p)' => InHand(q, p)
        /\ wire'[q][p] = wire[q][p] /\ moves'[p] = Append(moves[p], m)
    BY <1>1, <1>2, <1>7, <1>9, <1>11
  <2>3. InOrder(q, p) /\ DOMAIN collected'[p] = DOMAIN collected[p]
    BY <2>2
  <2> QED
    BY <2>1, <2>2, <2>3, OrderBeside
<1>12. InOrder(y, p)'
  <2>2. Ahead(y, p) /\ OnWire(y, p) /\ InBuffer(y, p)
    BY <1>y DEF InOrder
  <2>3. Counted(y, p)' = Counted(y, p)
    BY <1>1, <1>7 DEF Counted
  <2>4. \A k : Fits(y, p, k) => Fits(y, p, k)'
    BY <1>1, <1>y, <1>9, <2>3 DEF Fits
  <2>5. Ahead(y, p)'
    BY <1>1, <1>y, <1>9, <2>2, <2>3 DEF Ahead
  <2>6. OnWire(y, p)'
    BY <1>3, <2>2, <2>4 DEF OnWire
  <2>7. Fits(y, p, n)' /\ \A j \in DOMAIN wire'[y][p] : n < wire'[y][p][j]
    BY <1>3, <2>2, <2>4 DEF OnWire
  <2>8. \A i \in DOMAIN moves[p] : moves[p][i].from = {y} =>
          moves[p][i].move < n /\ \A j \in DOMAIN wire'[y][p] : moves[p][i].move < wire'[y][p][j]
    BY <1>3, <2>2 DEF InBuffer
  <2>9. InBuffer(y, p)'
    <3> SUFFICES ASSUME NEW i \in DOMAIN moves'[p], moves'[p][i].from = {y}
                 PROVE  /\ Fits(y, p, moves[p][i].move)'
                        /\ \A j \in DOMAIN wire'[y][p] : moves'[p][i].move < wire'[y][p][j]
                        /\ \A j \in DOMAIN moves'[p] :
                             i < j /\ moves'[p][j].from = {y} =>
                               moves'[p][i].move < moves'[p][j].move
      BY DEF InBuffer
    <3>1. CASE i \in DOMAIN moves[p] /\ moves'[p][i] = moves[p][i]
      BY <1>4, <1>6, <2>2, <2>4, <2>8, <3>1 DEF InBuffer
    <3>2. CASE moves'[p][i] = m /\ \A j \in DOMAIN moves'[p] : ~(i < j)
      BY <1>4, <2>7, <3>2
    <3> QED
      BY <1>6, <3>1, <3>2
  <2> QED
    BY <2>5, <2>6, <2>9 DEF InOrder
<1> QED
  BY <1>8, <1>10, <1>11, <1>12

\* syncLoop counts the player of the first move in the buffer.
LEMMA TakeMoveOrder ==
  ASSUME TypeInv, Calm, \A q, r \in Player : InOrder(q, r),
         NEW p \in Player, TakeMove(p)
  PROVE  Calm' /\ \A q, r \in Player : InOrder(q, r)'
<1>m. PICK m : m = Head(moves[p])
  OBVIOUS
<1>1. /\ moves[p] # << >> /\ sync[p] = "take"
      /\ collected' = [collected EXCEPT ![p] =
           [q \in DOMAIN @ \cup m.from |-> IF q \in m.from THEN m.move ELSE @[q]]]
      /\ moves' = [moves EXCEPT ![p] = Tail(@)]
      /\ sync' = [sync EXCEPT ![p] = "count"]
      /\ UNCHANGED <<streams, wire, reader, ui, unsent, failed, sent, rounds, up, cut>>
  BY <1>m DEF TakeMove, SyncAt, sending, game, world
<1>2. /\ moves'[p] = Tail(moves[p]) /\ DOMAIN collected'[p] = DOMAIN collected[p] \cup m.from
      /\ sync'[p] = "count"
      /\ \A r \in Player \ {p} : /\ moves'[r] = moves[r] /\ collected'[r] = collected[r]
                                 /\ sync'[r] = sync[r]
  BY <1>1 DEF TypeInv, LoopsOK
<1>3. /\ m \in Move /\ m = moves[p][1] /\ 1 \in DOMAIN moves[p]
      /\ \A i \in DOMAIN moves'[p] : /\ 1 < i + 1 /\ i + 1 \in DOMAIN moves[p]
                                     /\ moves'[p][i] = moves[p][i + 1]
      /\ \A i, j \in DOMAIN moves'[p] : i < j => i + 1 < j + 1
  <2>1. moves[p] \in Seq(Move) /\ moves[p] # << >>
    BY <1>1, Numbers
  <2>2. PICK t : t = moves'[p]
    OBVIOUS
  <2>3. t = Tail(moves[p])
    BY <1>2, <2>2
  <2> QED
    BY <1>m, <2>1, <2>2, <2>3, TailParts
<1>4. PICK y \in Player : m.from = {y}
  <2>1. m.from # {}
    BY <1>3 DEF Calm, CalmAt
  <2> QED
    BY <1>3, <2>1, Numbers
<1>7. \A r \in Player : Round(r)' = Round(r)
  BY <1>1 DEF Round
<1>8. Calm'
  <2>1. ASSUME NEW r \in Player, r # p PROVE CalmAt(r)'
    BY <1>1, <1>2, <1>7, <2>1 DEF Calm, CalmAt
  <2>2. CalmAt(p)'
    <3>1. CalmAt(p)
      BY DEF Calm
    <3>2. \A i \in DOMAIN moves'[p] : moves'[p][i].from # {}
      BY <1>3, <3>1 DEF CalmAt
    <3> QED
      BY <1>1, <1>2, <1>7, <3>1, <3>2 DEF CalmAt
  <2> QED
    BY <1>1, <2>1, <2>2 DEF Calm
<1>9. \A q, r \in Player : InHand(q, r)' <=> InHand(q, r)
  BY <1>1 DEF InHand
<1>10. ASSUME NEW q \in Player, NEW r \in Player, r # p PROVE InOrder(q, r)'
  BY <1>1, <1>2, <1>7, <1>9, <1>10, OrderFrame
<1>11. ASSUME NEW q \in Player PROVE InOrder(q, p)'
  <2>1. Ahead(q, p) /\ OnWire(q, p) /\ InBuffer(q, p)
    BY DEF InOrder
  <2>n. /\ Round(p) \in Nat /\ sent[q] \in Nat /\ Counted(q, p) \in Nat
        /\ \A i \in DOMAIN wire[q][p] : wire[q][p][i] \in Nat
        /\ \A i \in DOMAIN moves[p] : moves[p][i].move \in Nat
    BY Numbers
  <2>2. CASE q # y
    <3>1. Counted(q, p)' = Counted(q, p)
      BY <1>2, <1>4, <1>7, <2>2 DEF Counted
    <3>2. \A k : Fits(q, p, k) => Fits(q, p, k)'
      BY <1>1, <1>9, <3>1 DEF Fits
    <3>3. Ahead(q, p)' /\ OnWire(q, p)'
      BY <1>1, <1>9, <2>1, <3>1, <3>2 DEF Ahead, OnWire
    <3>4. InBuffer(q, p)'
      <4> SUFFICES ASSUME NEW i \in DOMAIN moves'[p], moves'[p][i].from = {q}
                   PROVE  /\ Fits(q, p, moves[p][i].move)'
                          /\ \A j \in DOMAIN wire'[q][p] : moves'[p][i].move < wire'[q][p][j]
                          /\ \A j \in DOMAIN moves'[p] :
                               i < j /\ moves'[p][j].from = {q} =>
                                 moves'[p][i].move < moves'[p][j].move
        BY DEF InBuffer
      <4>1. /\ i + 1 \in DOMAIN moves[p]
            /\ moves'[p][i] = moves[p][i + 1] /\ moves[p][i + 1].from = {q}
        BY <1>3
      <4>2. Fits(q, p, moves[p][i].move)'
        BY <2>1, <3>2, <4>1 DEF InBuffer
      <4> QED
        BY <1>1, <1>3, <2>1, <4>1, <4>2 DEF InBuffer
    <3> QED
      BY <3>3, <3>4 DEF InOrder
  <2>3. CASE q = y
    <3>1. /\ Fits(q, p, m.move)
          /\ \A j \in DOMAIN wire[q][p] : m.move < wire[q][p][j]
          /\ \A j \in DOMAIN moves[p] : 1 < j /\ moves[p][j].from = {q} => m.move < moves[p][j].move
      BY <1>3, <1>4, <2>1, <2>3 DEF InBuffer
    <3>2. Counted(q, p)' = Round(p) + 1 /\ Counted(q, p)' <= m.move /\ m.move \in Nat
      <4>1. Counted(q, p)' = Round(p) + 1
        BY <1>2, <1>4, <1>7, <2>3 DEF Counted
      <4>2. Round(p) <= Counted(q, p) /\ m.move \in Nat /\ Counted(q, p) < m.move
        BY <1>3, <2>n, <3>1 DEF Counted, Fits
      <4> QED
        BY <2>n, <4>1, <4>2
    <3>3. \A k \in Nat : Fits(q, p, k) /\ m.move < k => Fits(q, p, k)'
      BY <1>1, <1>9, <2>n, <3>2 DEF Fits
    <3>4. Ahead(q, p)'
      BY <1>1, <1>9, <2>n, <3>1, <3>2 DEF Ahead, Fits
    <3>5. OnWire(q, p)'
      BY <1>1, <2>n, <2>1, <3>1, <3>3 DEF OnWire
    <3>6. InBuffer(q, p)'
      <4> SUFFICES ASSUME NEW i \in DOMAIN moves'[p], moves'[p][i].from = {q}
                   PROVE  /\ Fits(q, p, moves[p][i].move)'
                          /\ \A j \in DOMAIN wire'[q][p] : moves'[p][i].move < wire'[q][p][j]
                          /\ \A j \in DOMAIN moves'[p] :
                               i < j /\ moves'[p][j].from = {q} =>
                                 moves'[p][i].move < moves'[p][j].move
        BY DEF InBuffer
      <4>1. /\ i + 1 \in DOMAIN moves[p] /\ 1 < i + 1
            /\ moves'[p][i] = moves[p][i + 1] /\ moves[p][i + 1].from = {q}
        BY <1>3
      <4>2. Fits(q, p, moves[p][i + 1].move) /\ m.move < moves[p][i + 1].move
        BY <2>1, <3>1, <4>1 DEF InBuffer
      <4>3. Fits(q, p, moves[p][i].move)'
        BY <2>n, <3>3, <4>1, <4>2
      <4> QED
        BY <1>1, <1>3, <2>1, <4>1, <4>3 DEF InBuffer
    <3> QED
      BY <3>4, <3>5, <3>6 DEF InOrder
  <2> QED
    BY <2>2, <2>3
<1> QED
  BY <1>8, <1>10, <1>11


\* syncLoop has a move of every player exactly when it has as many as players.
LEMMA CountOrder ==
  ASSUME TypeInv, Calm, \A q, r \in Player : InOrder(q, r),
         NEW p \in Player, Count(p)
  PROVE  Calm' /\ \A q, r \in Player : InOrder(q, r)'
<1>1. /\ sync' = [sync EXCEPT ![p] =
            IF Cardinality(DOMAIN collected[p]) = Cardinality(streams[p]) + 1
            THEN "emit" ELSE "take"]
      /\ UNCHANGED <<streams, wire, reader, moves, collected, ui, unsent, failed, sent,
                     rounds, up, cut>>
  BY DEF Count, SyncAt, sending, game, world
<1>2. Cardinality(streams[p]) + 1 = Cardinality(Player)
  <2>1. streams[p] = Player \ {p}
    BY DEF Calm, CalmAt, Others
  <2>2. Cardinality(Player \ {p}) = Cardinality(Player) - 1 /\ Cardinality(Player) \in Nat
    BY PlayerAssumption, FS_RemoveElement, FS_CardinalityType
  <2> QED
    BY <2>1, <2>2
<1>3. DOMAIN collected[p] \in SUBSET Player
  BY DEF TypeInv, LoopsOK, RoundMoves
<1>4. Cardinality(DOMAIN collected[p]) = Cardinality(Player) <=> DOMAIN collected[p] = Player
  BY <1>3, PlayerAssumption, FS_Subset
<1>5. /\ sync'[p] = "emit" => DOMAIN collected[p] = Player
      /\ sync'[p] = "take" => DOMAIN collected[p] # Player
      /\ \A r \in Player \ {p} : sync'[r] = sync[r]
  BY <1>1, <1>2, <1>4 DEF TypeInv, LoopsOK
<1>6. \A r \in Player : Round(r)' = Round(r)
  BY <1>1 DEF Round
<1>7. Calm'
  BY <1>1, <1>5, <1>6 DEF Calm, CalmAt
<1>8. \A q, r \in Player : InHand(q, r)' => InHand(q, r)
  BY <1>1 DEF InHand
<1>9. \A q, r \in Player : InOrder(q, r)'
  BY <1>1, <1>6, <1>8, OrderFrame
<1> QED
  BY <1>7, <1>9

\* A round is played by a player that has made its move for it and waits for it.
LEMMA EmitOrder ==
  ASSUME TypeInv, Calm, \A q, r \in Player : InOrder(q, r),
         NEW p \in Player, Emit(p)
  PROVE  /\ Calm' /\ \A q, r \in Player : InOrder(q, r)'
         /\ DOMAIN collected[p] = Player
         /\ ~over[p] => Round(p)' = Round(p) + 1 /\ \A q \in Player : Round(p) < sent[q]
<1>1. /\ sync[p] = "emit" /\ ui[p] \in {"timer", "waiting"}
      /\ collected' = [collected EXCEPT ![p] = NoMoves]
      /\ sync' = [sync EXCEPT ![p] = "take"]
      /\ UNCHANGED <<streams, wire, reader, moves, unsent, failed, sent, up, cut>>
  BY DEF Emit, SyncAt, sending, world
<1>2. /\ collected'[p] = NoMoves /\ sync'[p] = "take"
      /\ \A r \in Player \ {p} : collected'[r] = collected[r] /\ sync'[r] = sync[r]
  BY <1>1 DEF TypeInv, LoopsOK
<1>3. DOMAIN collected[p] = Player /\ DOMAIN collected'[p] = {} /\ CalmAt(p)
  BY <1>1, <1>2 DEF Calm, CalmAt, NoMoves
<1>4. \/ over[p] /\ UNCHANGED <<rounds, ui>>
      \/ /\ ~over[p]
         /\ rounds' = [rounds EXCEPT ![p] = Append(@, collected[p])]
         /\ ui' = [ui EXCEPT ![p] = "handling"]
  BY DEF Emit
<1>5. /\ \A r \in Player \ {p} : Round(r)' = Round(r) /\ ui'[r] = ui[r]
      /\ over[p] => Round(p)' = Round(p) /\ ui'[p] = ui[p]
      /\ ~over[p] => Round(p)' = Round(p) + 1 /\ ui'[p] = "handling"
  <2>1. CASE over[p]
    BY <1>4, <2>1 DEF Round
  <2>2. CASE ~over[p]
    <3>1. rounds[p] \in Seq(RoundMoves) /\ collected[p] \in RoundMoves
      BY DEF TypeInv, GameOK, LoopsOK
    <3>2. Len(Append(rounds[p], collected[p])) = Len(rounds[p]) + 1
      BY <3>1, AppendSeq
    <3>3. /\ rounds'[p] = Append(rounds[p], collected[p]) /\ ui'[p] = "handling"
          /\ \A r \in Player \ {p} : rounds'[r] = rounds[r] /\ ui'[r] = ui[r]
      BY <1>4, <2>2 DEF TypeInv, GameOK, SendingOK
    <3> QED
      BY <2>2, <3>2, <3>3 DEF Round
  <2> QED
    BY <2>1, <2>2
<1>6. \A q \in Player : /\ Counted(q, p) = Round(p) + 1 /\ Round(p) \in Nat /\ sent[q] \in Nat
                        /\ Round(p) < sent[q]
  <2> SUFFICES ASSUME NEW q \in Player
               PROVE  /\ Counted(q, p) = Round(p) + 1 /\ Round(p) \in Nat /\ sent[q] \in Nat
                      /\ Round(p) < sent[q]
    OBVIOUS
  <2>1. Counted(q, p) = Round(p) + 1
    BY <1>3 DEF Counted
  <2>2. Round(p) \in Nat /\ sent[q] \in Nat
    BY Numbers
  <2>3. Counted(q, p) <= sent[q]
    BY DEF InOrder, Ahead
  <2> QED
    BY <2>1, <2>2, <2>3
<1>7. ui[p] = "waiting" /\ sent[p] = Round(p) + 1
  <2>1. Round(p) < sent[p] /\ Round(p) \in Nat
    BY <1>6
  <2> QED
    BY <1>1, <1>3, <2>1 DEF CalmAt
<1>8. Calm'
  <2>1. ASSUME NEW r \in Player, r # p PROVE CalmAt(r)'
    BY <1>1, <1>2, <1>5, <2>1 DEF Calm, CalmAt
  <2>2. CalmAt(p)'
    <3>1. DOMAIN collected'[p] # Player
      BY <1>3
    <3>2. sent'[p] = Round(p)' + IF ui'[p] \in {"sending", "waiting"} THEN 1 ELSE 0
      BY <1>1, <1>5, <1>6, <1>7
    <3> QED
      BY <1>1, <1>2, <1>3, <3>1, <3>2 DEF CalmAt
  <2> QED
    BY <1>1, <2>1, <2>2 DEF Calm
<1>9. \A q, r \in Player : InHand(q, r)' => InHand(q, r)
  BY <1>1, <1>5 DEF InHand
<1>10. ASSUME NEW q \in Player, NEW r \in Player, r # p PROVE InOrder(q, r)'
  BY <1>1, <1>2, <1>5, <1>9, <1>10, OrderFrame
<1>11. ASSUME NEW q \in Player PROVE InOrder(q, p)'
  <2>1. Ahead(q, p) /\ OnWire(q, p) /\ InBuffer(q, p)
    BY DEF InOrder
  <2>2. Counted(q, p)' <= Counted(q, p) /\ Counted(q, p)' \in Nat /\ Counted(q, p) \in Nat
    BY <1>3, <1>5, <1>6 DEF Counted
  <2>3. \A k \in Nat : Fits(q, p, k) => Fits(q, p, k)'
    BY <1>1, <1>9, <2>2 DEF Fits
  <2>4. Ahead(q, p)'
    BY <1>1, <1>6, <1>9, <2>1, <2>2 DEF Ahead
  <2>5. OnWire(q, p)'
    BY <1>1, <2>1, <2>3, Numbers DEF OnWire
  <2>6. InBuffer(q, p)'
    BY <1>1, <2>1, <2>3, Numbers DEF InBuffer
  <2> QED
    BY <2>4, <2>5, <2>6 DEF InOrder
<1> QED
  BY <1>3, <1>5, <1>6, <1>8, <1>10, <1>11

\* A round in which nobody dies only starts the timer again.
LEMMA HandleRoundOrder ==
  ASSUME TypeInv, Unharmed, Calm, \A q, r \in Player : InOrder(q, r),
         NEW p \in Player, HandleRound(p)
  PROVE  Calm' /\ \A q, r \in Player : InOrder(q, r)'
<1>1. /\ ui[p] = "handling" /\ ui' = [ui EXCEPT ![p] = "timer"]
      /\ UNCHANGED <<streams, wire, reader, moves, collected, sync, unsent, failed, sent,
                     rounds, up, cut>>
  BY NoDead DEF HandleRound, loops, sending, world
<1>2. ui'[p] = "timer" /\ \A r \in Player \ {p} : ui'[r] = ui[r]
  BY <1>1 DEF TypeInv, SendingOK
<1>3. \A r \in Player : Round(r)' = Round(r)
  BY <1>1 DEF Round
<1>4. Calm'
  BY <1>1, <1>2, <1>3 DEF Calm, CalmAt
<1>5. \A q, r \in Player : InHand(q, r)' => InHand(q, r)
  BY <1>1, <1>2 DEF InHand
<1>6. \A q, r \in Player : InOrder(q, r)'
  BY <1>1, <1>3, <1>5, OrderFrame
<1> QED
  BY <1>4, <1>6

\* While nothing disturbs the game, these are its only steps.
LEMMA CalmSteps ==
  ASSUME TypeInv, Calm, [Next]_vars, faults' = 0
  PROVE  \/ \E p \in Player : \/ StartSend(p) \/ SendOwn(p) \/ HandleRound(p)
                              \/ TakeMove(p) \/ Count(p) \/ Emit(p)
                              \/ \E q \in Others(p) : Write(p, q) \/ ReadMove(p, q)
         \/ UNCHANGED vars
<1>1. \A pairs : ~Break(pairs)
  BY DEF Break, TypeInv, WorldOK
<1>2. ASSUME NEW p \in Player, NEW q \in Others(p) PROVE ~ReadEnd(p, q) /\ ~PutStub(p, q) /\ ~Report(p, q)
  <2>1. /\ q \in Player /\ p \in Others(q) /\ q \in streams[p] /\ p \in streams[q] /\ cut = {}
        /\ reader[p][q] = "scan"
    BY DEF Calm, CalmAt, Others
  <2> QED
    BY <2>1 DEF ReadEnd, PutStub, Report, Closed
<1>3. \A p \in Player : /\ ~Exit(p)
                        /\ \A q \in Others(p) : ~Lose(p, q)
  BY <1>1 DEF Exit, Lose
<1> QED
  BY <1>2, <1>3 DEF Next, GameUI, syncLoop, readLoop, Calm

LEMMA LockStep == ASSUME TypeInv, LockInv, [Next]_vars PROVE LockInv'
<1> SUFFICES ASSUME Undisturbed' PROVE Calm' /\ \A q, p \in Player : InOrder(q, p)'
  BY DEF LockInv
<1>1. Undisturbed
  BY UndisturbedBefore
<1>2. Calm /\ \A q, p \in Player : InOrder(q, p)
  BY <1>1 DEF LockInv
<1>3. CASE UNCHANGED vars
  <2>1. UNCHANGED <<streams, wire, reader, moves, collected, sync, ui, unsent, failed, sent,
                     rounds, up, cut>>
    BY <1>3 DEF vars, loops, sending, game, world
  <2>2. Calm'
    BY <1>2, <2>1 DEF Calm, CalmAt, Round
  <2>3. ASSUME NEW q \in Player, NEW p \in Player PROVE InOrder(q, p)'
    <3>1. Round(p)' = Round(p) /\ (InHand(q, p)' => InHand(q, p))
      BY <2>1 DEF Round, InHand
    <3> QED
      BY <1>2, <2>1, <3>1, OrderFrame
  <2> QED
    BY <2>2, <2>3
<1>4. ASSUME NEW p \in Player, NEW q \in Others(p), Write(p, q) \/ ReadMove(p, q)
      PROVE  Calm' /\ \A y, x \in Player : InOrder(y, x)'
  BY <1>2, <1>4, WriteOrder, ReadMoveOrder
<1>5. ASSUME NEW p \in Player,
             StartSend(p) \/ SendOwn(p) \/ HandleRound(p) \/ TakeMove(p) \/ Count(p) \/ Emit(p)
      PROVE  Calm' /\ \A y, x \in Player : InOrder(y, x)'
  BY <1>1, <1>2, <1>5, StartSendOrder, SendOwnOrder, HandleRoundOrder, TakeMoveOrder, CountOrder,
     EmitOrder DEF Undisturbed
<1> QED
  BY <1>1, <1>2, <1>3, <1>4, <1>5, CalmSteps DEF Undisturbed

LEMMA InitLock == Init => LockInv
<1> SUFFICES ASSUME Init PROVE Calm /\ \A q, p \in Player : InOrder(q, p)
  BY DEF LockInv
<1>1. \A p \in Player : /\ Round(p) = 0 /\ sent[p] = 0 /\ moves[p] = << >>
                        /\ DOMAIN collected[p] = {}
                        /\ \A q \in Player : wire[q][p] = << >> /\ ~InHand(q, p)
  <2>1. Len(<< >>) = 0
    BY EmptySeq
  <2> QED
    BY <2>1 DEF Init, Round, InHand, NoMoves
<1>2. DOMAIN << >> = {}
  OBVIOUS
<1>3. Calm
  BY <1>1, <1>2 DEF Init, Calm, CalmAt
<1>4. \A q, p \in Player : InOrder(q, p)
  BY <1>1, <1>2 DEF InOrder, Ahead, OnWire, InBuffer, Counted
<1> QED
  BY <1>3, <1>4

LEMMA InstanceLockInv == SafetySpec => []LockInv
BY InitLock, LockStep, InstanceTypeInv, PTL DEF SafetySpec

-----------------------------------------------------------------------------
\* However late moves come, syncLoop collects moves of the round to come and of
\* the one after it, and nothing older was played.
CollectsFresh(p) ==
  \A q \in DOMAIN collected[p] : collected[p][q] \in {Round(p) + 1, Round(p) + 2}

PlaysFresh(p) ==
  \A r \in 1..Round(p) : /\ DOMAIN rounds[p][r] = Player
                         /\ \A q \in Player : rounds[p][r][q] \in {r, r + 1}

FreshInv == Undisturbed => \A p \in Player : CollectsFresh(p) /\ PlaysFresh(p)

LEMMA FreshFrame ==
  ASSUME NEW p \in Player, CollectsFresh(p), PlaysFresh(p),
         rounds'[p] = rounds[p], collected'[p] = collected[p]
  PROVE  CollectsFresh(p)' /\ PlaysFresh(p)'
BY DEF CollectsFresh, PlaysFresh, Round

\* Nobody is two rounds ahead, so the move taken is for one of these two rounds.
LEMMA TakeMoveFresh ==
  ASSUME TypeInv, Undisturbed, LockInv, \A p \in Player : CollectsFresh(p) /\ PlaysFresh(p),
         NEW x \in Player, TakeMove(x)
  PROVE  \A p \in Player : CollectsFresh(p)' /\ PlaysFresh(p)'
<1>m. PICK m : m = Head(moves[x])
  OBVIOUS
<1>1. /\ moves[x] # << >>
      /\ collected' = [collected EXCEPT ![x] =
           [q \in DOMAIN @ \cup m.from |-> IF q \in m.from THEN m.move ELSE @[q]]]
      /\ UNCHANGED rounds
  BY <1>m DEF TakeMove, game
<1>2. /\ DOMAIN collected'[x] = DOMAIN collected[x] \cup m.from
      /\ \A q \in DOMAIN collected'[x] :
           collected'[x][q] = IF q \in m.from THEN m.move ELSE collected[x][q]
      /\ \A r \in Player \ {x} : collected'[r] = collected[r]
  BY <1>1 DEF TypeInv, LoopsOK
<1>3. 1 \in DOMAIN moves[x] /\ moves[x][1] = m
  <2>1. moves[x] \in Seq(Move) /\ moves[x] # << >>
    BY <1>1, Numbers
  <2> QED
    BY <1>m, <2>1, TailParts
<1>4. PICK y \in Player : m.from = {y}
  <2>1. m.from # {}
    BY <1>3 DEF LockInv, Calm, CalmAt
  <2>2. moves[x][1].from # {} => \E r \in Player : moves[x][1].from = {r}
    BY <1>3, Numbers
  <2> QED
    BY <1>3, <2>1, <2>2
<1>5. m.move \in {Round(x) + 1, Round(x) + 2}
  <2>1. Fits(y, x, m.move)
    BY <1>3, <1>4 DEF LockInv, InOrder, InBuffer
  <2>2. /\ sent[y] <= Round(y) + 1 /\ Round(y) <= sent[x] /\ sent[x] <= Round(x) + 1
    BY RoundsFollow
  <2>3. /\ Counted(y, x) \in {Round(x), Round(x) + 1} /\ Round(x) \in Nat /\ Round(y) \in Nat
        /\ sent[y] \in Nat /\ sent[x] \in Nat /\ m.move \in Nat
    BY <1>3, Numbers
  <2> QED
    BY <2>1, <2>2, <2>3 DEF Fits
<1>6. CollectsFresh(x)'
  <2>1. Round(x)' = Round(x)
    BY <1>1 DEF Round
  <2> QED
    BY <1>2, <1>4, <1>5, <2>1 DEF CollectsFresh
<1>7. PlaysFresh(x)'
  BY <1>1 DEF PlaysFresh, Round
<1>8. ASSUME NEW p \in Player, p # x PROVE CollectsFresh(p)' /\ PlaysFresh(p)'
  BY <1>1, <1>2, <1>8, FreshFrame
<1> QED
  BY <1>6, <1>7, <1>8

LEMMA EmitFresh ==
  ASSUME TypeInv, Undisturbed, LockInv, \A p \in Player : CollectsFresh(p) /\ PlaysFresh(p),
         NEW x \in Player, Emit(x)
  PROVE  \A p \in Player : CollectsFresh(p)' /\ PlaysFresh(p)'
<1>1. /\ DOMAIN collected[x] = Player
      /\ ~over[x] => Round(x)' = Round(x) + 1
  BY EmitOrder DEF LockInv
<1>2. /\ collected' = [collected EXCEPT ![x] = NoMoves]
      /\ \/ UNCHANGED rounds
         \/ ~over[x] /\ rounds' = [rounds EXCEPT ![x] = Append(@, collected[x])]
  BY DEF Emit
<1>3. /\ DOMAIN collected'[x] = {}
      /\ \A r \in Player \ {x} : collected'[r] = collected[r] /\ rounds'[r] = rounds[r]
  BY <1>2 DEF TypeInv, LoopsOK, GameOK, NoMoves
<1>4. CollectsFresh(x)'
  BY <1>3 DEF CollectsFresh
<1>5. CASE UNCHANGED rounds
  <2>1. PlaysFresh(x)'
    BY <1>5 DEF PlaysFresh, Round
  <2> QED
    BY <1>3, <1>4, <2>1, FreshFrame
<1>6. CASE ~over[x] /\ rounds' = [rounds EXCEPT ![x] = Append(@, collected[x])]
  <2>1. /\ \A r \in 1..Round(x) : rounds'[x][r] = rounds[x][r]
        /\ rounds'[x][Round(x) + 1] = collected[x]
    <3>1. rounds[x] \in Seq(RoundMoves) /\ collected[x] \in RoundMoves
      BY DEF TypeInv, LoopsOK, GameOK
    <3>2. rounds'[x] = Append(rounds[x], collected[x])
      BY <1>6 DEF TypeInv, GameOK
    <3> QED
      BY <3>1, <3>2, AppendSeq DEF Round
  <2>2. Round(x) \in Nat
    BY Numbers
  <2>3. \A r \in 1..(Round(x) + 1) : r \in 1..Round(x) \/ r = Round(x) + 1
    BY <2>2
  <2>4. ASSUME NEW r \in 1..(Round(x) + 1)
        PROVE  /\ DOMAIN rounds'[x][r] = Player
               /\ \A q \in Player : rounds'[x][r][q] \in {r, r + 1}
    <3>1. CASE r \in 1..Round(x)
      BY <2>1, <3>1 DEF PlaysFresh
    <3>2. CASE r = Round(x) + 1
      <4>1. \A q \in Player : collected[x][q] \in {Round(x) + 1, Round(x) + 2}
        BY <1>1 DEF CollectsFresh
      <4>2. Round(x) + 2 = r + 1
        BY <2>2, <3>2
      <4> QED
        BY <1>1, <2>1, <3>2, <4>1, <4>2
    <3> QED
      BY <2>3, <3>1, <3>2
  <2>5. PlaysFresh(x)'
    BY <1>1, <1>6, <2>4 DEF PlaysFresh
  <2> QED
    BY <1>3, <1>4, <2>5, FreshFrame
<1> QED
  BY <1>2, <1>5, <1>6

LEMMA FreshStep == ASSUME TypeInv, LockInv, FreshInv, [Next]_vars PROVE FreshInv'
<1> SUFFICES ASSUME Undisturbed' PROVE \A p \in Player : CollectsFresh(p)' /\ PlaysFresh(p)'
  BY DEF FreshInv
<1>1. Undisturbed
  BY UndisturbedBefore
<1>2. Calm /\ \A q, p \in Player : InOrder(q, p)
  BY <1>1 DEF LockInv
<1>3. \A p \in Player : CollectsFresh(p) /\ PlaysFresh(p)
  BY <1>1 DEF FreshInv
<1>4. ASSUME UNCHANGED <<collected, rounds>>
      PROVE  \A p \in Player : CollectsFresh(p)' /\ PlaysFresh(p)'
  BY <1>3, <1>4, FreshFrame
<1>5. CASE UNCHANGED vars
  BY <1>4, <1>5 DEF vars, loops, game
<1>6. ASSUME NEW p \in Player,
             \/ StartSend(p) \/ SendOwn(p) \/ HandleRound(p) \/ Count(p)
             \/ \E q \in Others(p) : Write(p, q) \/ ReadMove(p, q)
      PROVE  UNCHANGED <<collected, rounds>>
  BY <1>6 DEF StartSend, SendOwn, HandleRound, Count, Write, ReadMove, loops, game
<1>7. ASSUME NEW p \in Player, TakeMove(p) \/ Emit(p)
      PROVE  \A x \in Player : CollectsFresh(x)' /\ PlaysFresh(x)'
  BY <1>1, <1>3, <1>7, TakeMoveFresh, EmitFresh
<1> QED
  BY <1>1, <1>2, <1>4, <1>5, <1>6, <1>7, CalmSteps DEF Undisturbed

\* As long as nobody leaves or dies, a round holds of each player the move made
\* for it or the one made for the next, however late moves come.
THEOREM InstanceFreshMoves == SafetySpec => [](Undisturbed => FreshMoves)
<1>1. Init => FreshInv
  <2>1. Len(<< >>) = 0
    BY EmptySeq
  <2> QED
    BY <2>1 DEF Init, FreshInv, CollectsFresh, PlaysFresh, Round, NoMoves
<1>2. FreshInv => (Undisturbed => FreshMoves)
  BY DEF FreshInv, PlaysFresh, FreshMoves
<1> QED
  BY <1>1, <1>2, FreshStep, InstanceTypeInv, InstanceLockInv, PTL DEF SafetySpec

-----------------------------------------------------------------------------
\* A player whose game is over sends no move again.
OverDone == \A p \in Player : over[p] => ui[p] = "timer"

LEMMA OverStep == ASSUME TypeInv, OverDone, [Next]_vars PROVE OverDone'
<1>1. CASE \E p \in Player : StartSend(p) \/ SendOwn(p) \/ HandleRound(p) \/ Emit(p)
  <2>1. PICK p \in Player : StartSend(p) \/ SendOwn(p) \/ HandleRound(p) \/ Emit(p)
    BY <1>1
  <2>2. CASE StartSend(p)
    BY <2>2 DEF StartSend, OverDone, TypeInv, SendingOK, game
  <2>3. CASE SendOwn(p)
    BY <2>3 DEF SendOwn, OverDone, TypeInv, SendingOK, game
  <2>4. CASE HandleRound(p)
    <3>1. /\ ui' = [ui EXCEPT ![p] = "timer"]
          /\ over' = [over EXCEPT ![p] = p \in {q \in DOMAIN rounds[p][Round(p)] :
                                                 DiesIn[q] = Round(p)} \/ alive'[p] <= 1]
      BY <2>4 DEF HandleRound
    <3>2. \A q \in Player \ {p} : ui'[q] = ui[q] /\ over'[q] = over[q]
      BY <3>1 DEF TypeInv, GameOK, SendingOK
    <3>3. ui'[p] = "timer"
      BY <3>1 DEF TypeInv, SendingOK
    <3> QED
      BY <3>2, <3>3 DEF OverDone
  <2>5. CASE Emit(p)
    BY <2>5 DEF Emit, OverDone, TypeInv, SendingOK
  <2> QED
    BY <2>1, <2>2, <2>3, <2>4, <2>5
<1>2. CASE UNCHANGED <<ui, over>>
  BY <1>2 DEF OverDone
<1>3. CASE ~\E p \in Player : StartSend(p) \/ SendOwn(p) \/ HandleRound(p) \/ Emit(p)
  <2>1. UNCHANGED <<ui, over>>
    <3>1. ASSUME NEW p \in up, NEW q \in Others(p), Write(p, q) \/ readLoop(p, q)
          PROVE  UNCHANGED <<ui, over>>
      BY <3>1 DEF Write, readLoop, ReadMove, ReadEnd, PutStub, Report, game
    <3>2. ASSUME NEW p \in up, TakeMove(p) \/ Count(p) PROVE UNCHANGED <<ui, over>>
      BY <3>2 DEF TakeMove, Count, game
    <3>3. ASSUME NEW p \in up, Exit(p) \/ \E q \in Others(p) : Lose(p, q)
          PROVE  UNCHANGED <<ui, over>>
      BY <3>3 DEF Exit, Lose, game
    <3>4. CASE UNCHANGED vars
      BY <3>4 DEF vars, game
    <3> QED
      BY <1>3, <3>1, <3>2, <3>3, <3>4 DEF Next, GameUI, syncLoop, TypeInv, WorldOK
  <2> QED
    BY <1>2, <2>1
<1> QED
  BY <1>1, <1>3

\* q's move n is under way to p.
Pending(q, p, n) ==
  \/ InHand(q, p) /\ sent[q] = n
  \/ \E i \in DOMAIN wire[q][p] : wire[q][p][i] = n
  \/ \E i \in DOMAIN moves[p] : moves[p][i] = MoveOf(q, n)

\* As long as no move is late a player that still has to collect moves for a
\* round is not overtaken by two rounds, ...
NotOvertaken(p) ==
  DOMAIN collected[p] # Player => \A q \in Player : sent[q] <= Round(p) + 1

\* ... collects the moves of that round only, ...
OfTheRound(p) == \A q \in DOMAIN collected[p] : collected[p][q] = Round(p) + 1

\* ... no move gets lost, ...
NoneLost(p) ==
  \A q \in Player : \A n \in (Round(p) + 1)..sent[q] :
    (n = Round(p) + 1 /\ q \in DOMAIN collected[p]) \/ Pending(q, p, n)

\* ... and a round has the move of everybody that was made for it.
Played(p) == \A r \in 1..Round(p) : rounds[p][r] = [q \in Player |-> r]

Gap(p) == NotOvertaken(p) /\ OfTheRound(p) /\ NoneLost(p) /\ Played(p)

GapInv == Undisturbed /\ ~late => \A p \in Player : Gap(p)

\* What a step leaves under way from q to p.
LEMMA StillPending ==
  ASSUME NEW q \in Player, NEW p \in Player,
         InHand(q, p) => InHand(q, p)', sent'[q] = sent[q], wire'[q][p] = wire[q][p],
         \A i \in DOMAIN moves[p] : i \in DOMAIN moves'[p] /\ moves'[p][i] = moves[p][i]
  PROVE  \A n : Pending(q, p, n) => Pending(q, p, n)'
BY DEF Pending

LEMMA GapFrame ==
  ASSUME NEW p \in Player, Gap(p),
         rounds'[p] = rounds[p], collected'[p] = collected[p],
         \A q \in Player : sent'[q] = sent[q],
         \A q \in Player : \A n : Pending(q, p, n) => Pending(q, p, n)'
  PROVE  Gap(p)'
<1>1. Round(p)' = Round(p)
  BY DEF Round
<1>2. NotOvertaken(p)'
  BY <1>1 DEF Gap, NotOvertaken
<1>3. OfTheRound(p)'
  BY <1>1 DEF Gap, OfTheRound
<1>4. NoneLost(p)'
  BY <1>1 DEF Gap, NoneLost
<1>5. Played(p)'
  BY <1>1 DEF Gap, Played
<1> QED
  BY <1>2, <1>3, <1>4, <1>5 DEF Gap

\* If x starts a move when all moves of its rounds have come to where they are
\* counted, then nobody is behind x: it would have counted them too.
LEMMA NobodyBehind ==
  ASSUME TypeInv, Undisturbed, LockInv, NEW x \in Player, ui[x] = "timer",
         ~UnderWay(Round(x)), NEW p \in Player, Gap(p), DOMAIN collected[p] # Player
  PROVE  Round(x) <= Round(p)
<1>1. Calm /\ CalmAt(p)
  BY DEF LockInv, Calm
<1>2. /\ Round(x) \in Nat /\ Round(p) \in Nat /\ sent[x] = Round(x)
  <2>1. CalmAt(x) /\ Round(x) \in Nat /\ Round(p) \in Nat
    BY <1>1, Numbers DEF Calm
  <2> QED
    BY <2>1 DEF CalmAt
<1>3. Round(x) <= Round(p) + 1
  BY <1>2 DEF Gap, NotOvertaken
<1>4. SUFFICES ASSUME Round(x) = Round(p) + 1 PROVE FALSE
  BY <1>2, <1>3
<1>5. ASSUME NEW q \in Player PROVE q \in DOMAIN collected[p]
  <2>1. Round(x) <= sent[q] /\ sent[q] \in Nat
    BY RoundsFollow, Numbers
  <2>2. Round(x) \in (Round(p) + 1)..sent[q]
    BY <1>2, <1>4, <2>1
  <2>3. q \in DOMAIN collected[p] \/ Pending(q, p, Round(x))
    BY <1>4, <2>2 DEF Gap, NoneLost
  <2>4. ~(InHand(q, p) /\ sent[q] = Round(x))
    BY <1>1, <1>2 DEF UnderWay, InHand, Calm
  <2>5. ~\E i \in DOMAIN wire[q][p] : wire[q][p][i] = Round(x)
    <3>1. CASE q = p
      <4>1. wire[p][p] = << >> /\ DOMAIN << >> = {}
        BY <1>1 DEF CalmAt
      <4> QED
        BY <3>1, <4>1
    <3>2. CASE q # p
      <4>1. ~Closed(p, q)
        BY <1>1, <3>2 DEF Closed, Calm, CalmAt, Others
      <4> QED
        BY <1>1, <1>2, <3>2, <4>1 DEF UnderWay, Calm
    <3> QED
      BY <3>1, <3>2
  <2>6. ~\E i \in DOMAIN moves[p] : moves[p][i] = MoveOf(q, Round(x))
    BY <1>1, <1>2 DEF UnderWay, MoveOf, Calm
  <2> QED
    BY <2>3, <2>4, <2>5, <2>6 DEF Pending
<1>6. DOMAIN collected[p] \subseteq Player
  BY DEF TypeInv, LoopsOK, RoundMoves
<1> QED
  BY <1>5, <1>6

LEMMA StartSendGap ==
  ASSUME TypeInv, Undisturbed, LockInv, \A p \in Player : Gap(p),
         NEW x \in Player, StartSend(x), ~late'
  PROVE  \A p \in Player : Gap(p)'
<1> SUFFICES ASSUME NEW p \in Player PROVE Gap(p)'
  OBVIOUS
<1>1. /\ ui[x] = "timer" /\ Timely(x)
      /\ ui' = [ui EXCEPT ![x] = "sending"]
      /\ unsent' = [unsent EXCEPT ![x] = streams[x]]
      /\ sent' = [sent EXCEPT ![x] = Round(x) + 1]
      /\ UNCHANGED <<wire, moves, collected, rounds>>
  BY DEF StartSend, loops, game
<1>2. /\ ui'[x] = "sending" /\ unsent'[x] = streams[x] /\ sent'[x] = Round(x) + 1
      /\ \A r \in Player \ {x} : /\ ui'[r] = ui[r] /\ unsent'[r] = unsent[r]
                                 /\ sent'[r] = sent[r]
  BY <1>1 DEF TypeInv, SendingOK
<1>3. /\ Gap(p) /\ CalmAt(x) /\ Round(p)' = Round(p)
      /\ Round(p) \in Nat /\ Round(x) \in Nat /\ sent[x] = Round(x)
      /\ streams[x] = Others(x)
  <2>1. CalmAt(x) /\ Round(x) \in Nat /\ Round(p) \in Nat
    BY Numbers DEF LockInv, Calm
  <2> QED
    BY <1>1, <2>1 DEF CalmAt, Round
<1>4. NotOvertaken(p)'
  <2> SUFFICES ASSUME DOMAIN collected[p] # Player, NEW q \in Player
               PROVE  sent'[q] <= Round(p) + 1
    BY <1>1, <1>3 DEF NotOvertaken
  <2>1. CASE q = x
    BY <1>1, <1>2, <1>3, <2>1, NobodyBehind DEF Timely
  <2>2. CASE q # x
    BY <1>2, <1>3, <2>2 DEF Gap, NotOvertaken
  <2> QED
    BY <2>1, <2>2
<1>5. NoneLost(p)'
  <2> SUFFICES ASSUME NEW q \in Player, NEW n \in (Round(p) + 1)..sent'[q]
               PROVE  (n = Round(p) + 1 /\ q \in DOMAIN collected[p]) \/ Pending(q, p, n)'
    BY <1>1, <1>3 DEF NoneLost
  <2>1. CASE q # x
    <3>1. InHand(q, p) => InHand(q, p)'
      BY <1>2, <2>1 DEF InHand
    <3>2. Pending(q, p, n) => Pending(q, p, n)'
      BY <1>1, <1>2, <2>1, <3>1, StillPending
    <3> QED
      BY <1>2, <1>3, <2>1, <3>2 DEF Gap, NoneLost
  <2>2. CASE q = x /\ n = Round(x) + 1
    <3>1. InHand(x, p)'
      BY <1>2, <1>3 DEF InHand, Others
    <3> QED
      BY <1>2, <2>2, <3>1 DEF Pending
  <2>3. CASE q = x /\ n # Round(x) + 1
    <3>1. n \in (Round(p) + 1)..sent[x]
      BY <1>2, <1>3, <2>3
    <3>2. (n = Round(p) + 1 /\ x \in DOMAIN collected[p]) \/ Pending(x, p, n)
      BY <1>3, <3>1 DEF Gap, NoneLost
    <3>3. ~InHand(x, p)
      BY <1>1 DEF InHand
    <3>4. Pending(x, p, n) => Pending(x, p, n)'
      BY <1>1, <3>3 DEF Pending
    <3> QED
      BY <2>3, <3>2, <3>4
  <2> QED
    BY <2>1, <2>2, <2>3
<1>6. OfTheRound(p)' /\ Played(p)'
  BY <1>1, <1>3 DEF Gap, OfTheRound, Played
<1> QED
  BY <1>4, <1>5, <1>6 DEF Gap

LEMMA WriteGap ==
  ASSUME TypeInv, Calm, \A p \in Player : Gap(p),
         NEW x \in Player, NEW y \in Others(x), Write(x, y)
  PROVE  \A p \in Player : Gap(p)'
<1>y. y \in Player /\ y # x
  BY DEF Others
<1>1. ~Closed(x, y)
  BY <1>y DEF Closed, Calm, CalmAt, Others
<1>2. /\ unsent' = [unsent EXCEPT ![x] = unsent[x] \ {y}]
      /\ wire' = [wire EXCEPT ![x][y] = Append(wire[x][y], sent[x])]
      /\ UNCHANGED <<moves, collected, ui, sent, rounds>>
  BY <1>1 DEF Write, loops, game
<1>3. /\ unsent'[x] = unsent[x] \ {y} /\ \A r \in Player \ {x} : unsent'[r] = unsent[r]
      /\ wire'[x][y] = Append(wire[x][y], sent[x])
      /\ \A q, r \in Player : ~(q = x /\ r = y) => wire'[q][r] = wire[q][r]
  BY <1>2, <1>y DEF TypeInv, SendingOK, StreamsOK
<1>4. ASSUME NEW q \in Player, NEW p \in Player, ~(q = x /\ p = y)
      PROVE  \A n : Pending(q, p, n) => Pending(q, p, n)'
  <2>1. InHand(q, p) => InHand(q, p)'
    BY <1>2, <1>3, <1>4 DEF InHand
  <2> QED
    BY <1>2, <1>3, <1>4, <2>1, StillPending
<1>5. \A n : Pending(x, y, n) => Pending(x, y, n)'
  <2>1. wire[x][y] \in Seq(1..MaxRounds) /\ sent[x] \in 1..MaxRounds
    BY <1>y DEF Write, TypeInv, StreamsOK, SendingOK
  <2>2. /\ \A i \in DOMAIN wire[x][y] :
             i \in DOMAIN wire'[x][y] /\ wire'[x][y][i] = wire[x][y][i]
        /\ \E last \in DOMAIN wire'[x][y] : wire'[x][y][last] = sent[x]
    <3>1. PICK w, t, S, e : /\ w = wire[x][y] /\ t = wire'[x][y] /\ S = 1..MaxRounds
                            /\ e = sent[x]
      OBVIOUS
    <3>2. w \in Seq(S) /\ e \in S /\ t = Append(w, e)
      BY <1>3, <2>1, <3>1
    <3>3. /\ \A i \in DOMAIN w : i \in DOMAIN t /\ t[i] = w[i]
          /\ \E last \in DOMAIN t : t[last] = e
      BY <3>2, AppendParts
    <3> QED
      BY <3>1, <3>3
  <2> QED
    BY <1>2, <2>2 DEF Pending
<1>6. \A q, p \in Player : \A n : Pending(q, p, n) => Pending(q, p, n)'
  BY <1>4, <1>5
<1> QED
  BY <1>2, <1>6, GapFrame

LEMMA SendOwnGap ==
  ASSUME TypeInv, Calm, \A p \in Player : Gap(p), NEW x \in Player, SendOwn(x)
  PROVE  \A p \in Player : Gap(p)'
<1>1. /\ ui[x] = "sending" /\ unsent[x] = {}
      /\ moves' = [moves EXCEPT ![x] = Append(@, MoveOf(x, sent[x]))]
      /\ ui' = [ui EXCEPT ![x] = "waiting"]
      /\ UNCHANGED <<wire, collected, unsent, sent, rounds>>
  BY DEF SendOwn, Put, Calm, CalmAt, game
<1>2. /\ moves'[x] = Append(moves[x], MoveOf(x, sent[x]))
      /\ \A r \in Player \ {x} : moves'[r] = moves[r] /\ ui'[r] = ui[r]
  BY <1>1 DEF TypeInv, LoopsOK, SendingOK
<1>3. moves[x] \in Seq(Move) /\ MoveOf(x, sent[x]) \in Move
  BY DEF MoveOf, Move, TypeInv, SendingOK, LoopsOK
<1>4. /\ \A i \in DOMAIN moves[x] : i \in DOMAIN moves'[x] /\ moves'[x][i] = moves[x][i]
      /\ \E last \in DOMAIN moves'[x] : moves'[x][last] = MoveOf(x, sent[x])
  BY <1>2, <1>3, AppendParts
<1>5. ASSUME NEW q \in Player, NEW p \in Player
      PROVE  \A n : Pending(q, p, n) => Pending(q, p, n)'
  <2>1. \A i \in DOMAIN moves[p] : i \in DOMAIN moves'[p] /\ moves'[p][i] = moves[p][i]
    BY <1>2, <1>4
  <2>2. CASE q = x /\ p = x
    BY <1>1, <1>4, <2>1, <2>2 DEF Pending
  <2>3. CASE ~(q = x /\ p = x)
    <3>1. InHand(q, p) => InHand(q, p)'
      BY <1>1, <1>2, <2>3 DEF InHand
    <3> QED
      BY <1>1, <2>1, <3>1, StillPending
  <2> QED
    BY <2>2, <2>3
<1> QED
  BY <1>1, <1>5, GapFrame

LEMMA ReadMoveGap ==
  ASSUME TypeInv, \A p \in Player : Gap(p),
         NEW x \in Player, NEW y \in Others(x), ReadMove(x, y)
  PROVE  \A p \in Player : Gap(p)'
<1>y. y \in Player /\ y # x
  BY DEF Others
<1>n. PICK n : n = Head(wire[y][x])
  OBVIOUS
<1>1. /\ wire[y][x] # << >>
      /\ moves' = [moves EXCEPT ![x] = Append(@, MoveOf(y, n))]
      /\ wire' = [wire EXCEPT ![y][x] = Tail(@)]
      /\ UNCHANGED <<collected, ui, unsent, sent, rounds>>
  BY <1>n DEF ReadMove, Put, sending, game
<1>2. /\ moves'[x] = Append(moves[x], MoveOf(y, n)) /\ wire'[y][x] = Tail(wire[y][x])
      /\ \A r \in Player \ {x} : moves'[r] = moves[r]
      /\ \A q, r \in Player : ~(q = y /\ r = x) => wire'[q][r] = wire[q][r]
  BY <1>1, <1>y DEF TypeInv, LoopsOK, StreamsOK
<1>3. /\ n \in 1..MaxRounds /\ n = wire[y][x][1]
      /\ \A i \in DOMAIN wire[y][x] :
           i # 1 => i - 1 \in DOMAIN wire'[y][x] /\ wire'[y][x][i - 1] = wire[y][x][i]
  <2>1. wire[y][x] \in Seq(1..MaxRounds) /\ wire[y][x] # << >>
    BY <1>1, <1>y, Numbers
  <2>2. PICK w, t, S : w = wire[y][x] /\ t = wire'[y][x] /\ S = 1..MaxRounds
    OBVIOUS
  <2>3. w \in Seq(S) /\ w # << >> /\ t = Tail(w)
    BY <1>2, <2>1, <2>2
  <2>4. /\ Head(w) \in S /\ Head(w) = w[1]
        /\ \A i \in DOMAIN w : i # 1 => 1 < i /\ i - 1 \in DOMAIN t /\ t[i - 1] = w[i]
    BY <2>3, TailParts
  <2> QED
    BY <1>n, <2>2, <2>4
<1>4. moves[x] \in Seq(Move) /\ MoveOf(y, n) \in Move
  <2>1. n \in 0..MaxRounds
    BY <1>3
  <2> QED
    BY <1>y, <2>1 DEF MoveOf, Move, TypeInv, LoopsOK
<1>5. /\ \A i \in DOMAIN moves[x] : i \in DOMAIN moves'[x] /\ moves'[x][i] = moves[x][i]
      /\ \E last \in DOMAIN moves'[x] : moves'[x][last] = MoveOf(y, n)
  BY <1>2, <1>4, AppendParts
<1>6. ASSUME NEW q \in Player, NEW p \in Player
      PROVE  \A k : Pending(q, p, k) => Pending(q, p, k)'
  <2>1. \A i \in DOMAIN moves[p] : i \in DOMAIN moves'[p] /\ moves'[p][i] = moves[p][i]
    BY <1>2, <1>5
  <2>2. InHand(q, p) => InHand(q, p)'
    BY <1>1 DEF InHand
  <2>3. CASE q = y /\ p = x
    <3>1. ASSUME NEW k, NEW i \in DOMAIN wire[y][x], wire[y][x][i] = k
          PROVE  Pending(y, x, k)'
      <4>1. CASE i = 1
        <5>1. k = n
          BY <1>3, <3>1, <4>1
        <5> QED
          BY <1>5, <5>1 DEF Pending
      <4>2. CASE i # 1
        BY <1>3, <3>1, <4>2 DEF Pending
      <4> QED
        BY <4>1, <4>2
    <3>2. ASSUME NEW k, InHand(y, x) /\ sent[y] = k PROVE Pending(y, x, k)'
      BY <1>1, <2>2, <2>3, <3>2 DEF Pending
    <3>3. ASSUME NEW k, NEW i \in DOMAIN moves[x], moves[x][i] = MoveOf(y, k)
          PROVE  Pending(y, x, k)'
      BY <1>5, <3>3 DEF Pending
    <3> QED
      BY <2>3, <3>1, <3>2, <3>3 DEF Pending
  <2>4. CASE ~(q = y /\ p = x)
    BY <1>1, <1>2, <2>1, <2>2, <2>4, StillPending
  <2> QED
    BY <2>3, <2>4
<1> QED
  BY <1>1, <1>6, GapFrame

LEMMA TakeMoveGap ==
  ASSUME TypeInv, Calm, \A q, r \in Player : InOrder(q, r), \A p \in Player : Gap(p),
         NEW x \in Player, TakeMove(x)
  PROVE  \A p \in Player : Gap(p)'
<1>m. PICK m : m = Head(moves[x])
  OBVIOUS
<1>1. /\ moves[x] # << >> /\ sync[x] = "take"
      /\ collected' = [collected EXCEPT ![x] =
           [q \in DOMAIN @ \cup m.from |-> IF q \in m.from THEN m.move ELSE @[q]]]
      /\ moves' = [moves EXCEPT ![x] = Tail(@)]
      /\ UNCHANGED <<wire, ui, unsent, sent, rounds>>
  BY <1>m DEF TakeMove, SyncAt, sending, game
<1>2. /\ moves'[x] = Tail(moves[x])
      /\ collected'[x] = [q \in DOMAIN collected[x] \cup m.from |->
                            IF q \in m.from THEN m.move ELSE collected[x][q]]
      /\ \A r \in Player \ {x} : moves'[r] = moves[r] /\ collected'[r] = collected[r]
  BY <1>1 DEF TypeInv, LoopsOK
<1>3. /\ m \in Move /\ m = moves[x][1] /\ 1 \in DOMAIN moves[x]
      /\ \A i \in DOMAIN moves[x] :
           i # 1 => i - 1 \in DOMAIN moves'[x] /\ moves'[x][i - 1] = moves[x][i]
  <2>1. moves[x] \in Seq(Move) /\ moves[x] # << >>
    BY <1>1, Numbers
  <2>2. PICK t : t = moves'[x]
    OBVIOUS
  <2>3. t = Tail(moves[x])
    BY <1>2, <2>2
  <2> QED
    BY <1>m, <2>1, <2>2, <2>3, TailParts
<1>4. PICK y \in Player : m.from = {y}
  <2>1. m.from # {}
    BY <1>3 DEF Calm, CalmAt
  <2> QED
    BY <1>3, <2>1, Numbers
<1>5. \A r \in Player : Round(r)' = Round(r)
  BY <1>1 DEF Round
<1>6. m.move = Round(x) + 1 /\ Round(x) \in Nat
  <2>1. Fits(y, x, m.move)
    BY <1>3, <1>4 DEF InOrder, InBuffer
  <2>2. sent[y] <= Round(x) + 1
    BY <1>1 DEF Calm, CalmAt, Gap, NotOvertaken
  <2>3. /\ Counted(y, x) \in {Round(x), Round(x) + 1} /\ Round(x) \in Nat /\ sent[y] \in Nat
        /\ m.move \in Nat
    BY <1>3, Numbers
  <2> QED
    BY <2>1, <2>2, <2>3 DEF Fits
<1>7. ASSUME NEW p \in Player, p # x PROVE Gap(p)'
  <2>1. ASSUME NEW q \in Player PROVE \A n : Pending(q, p, n) => Pending(q, p, n)'
    <3>1. InHand(q, p) => InHand(q, p)'
      BY <1>1 DEF InHand
    <3> QED
      BY <1>1, <1>2, <1>7, <3>1, StillPending
  <2> QED
    BY <1>1, <1>2, <1>7, <2>1, GapFrame
<1>8. NotOvertaken(x)'
  BY <1>1, <1>5 DEF Calm, CalmAt, Gap, NotOvertaken
<1>9. OfTheRound(x)'
  BY <1>2, <1>4, <1>5, <1>6 DEF Gap, OfTheRound
<1>10. NoneLost(x)'
  <2> SUFFICES ASSUME NEW q \in Player, NEW n \in (Round(x) + 1)..sent[q]
               PROVE  (n = Round(x) + 1 /\ q \in DOMAIN collected'[x]) \/ Pending(q, x, n)'
    BY <1>1, <1>5 DEF NoneLost
  <2>1. DOMAIN collected[x] \cup {y} = DOMAIN collected'[x]
    BY <1>2, <1>4
  <2>2. CASE n = Round(x) + 1 /\ q \in DOMAIN collected[x]
    BY <2>1, <2>2
  <2>3. CASE InHand(q, x) /\ sent[q] = n
    BY <1>1, <2>3 DEF Pending, InHand
  <2>4. CASE \E i \in DOMAIN wire[q][x] : wire[q][x][i] = n
    BY <1>1, <2>4 DEF Pending
  <2>5. ASSUME NEW i \in DOMAIN moves[x], moves[x][i] = MoveOf(q, n)
        PROVE  (n = Round(x) + 1 /\ q \in DOMAIN collected'[x]) \/ Pending(q, x, n)'
    <3>1. CASE i = 1
      <4>1. q = y /\ n = m.move
        BY <1>3, <1>4, <2>5, <3>1 DEF MoveOf
      <4> QED
        BY <1>6, <2>1, <4>1
    <3>2. CASE i # 1
      BY <1>3, <2>5, <3>2 DEF Pending
    <3> QED
      BY <3>1, <3>2
  <2> QED
    BY <2>2, <2>3, <2>4, <2>5 DEF Gap, NoneLost, Pending
<1>11. Played(x)'
  BY <1>1, <1>5 DEF Gap, Played
<1> QED
  BY <1>7, <1>8, <1>9, <1>10, <1>11 DEF Gap

LEMMA EmitGap ==
  ASSUME TypeInv, OverDone, Undisturbed, LockInv, \A p \in Player : Gap(p),
         NEW x \in Player, Emit(x)
  PROVE  \A p \in Player : Gap(p)'
<1>1. Calm /\ \A q, p \in Player : InOrder(q, p)
  BY DEF LockInv
<1>2. /\ DOMAIN collected[x] = Player
      /\ ~over[x] => Round(x)' = Round(x) + 1 /\ \A q \in Player : Round(x) < sent[q]
  BY <1>1, EmitOrder
<1>3. Round(x) \in Nat /\ \A q \in Player : sent[q] \in Nat
  BY Numbers
<1>4. ~over[x]
  <2> SUFFICES ASSUME over[x] PROVE FALSE
    OBVIOUS
  <2>1. sent[x] = Round(x)
    BY <1>1, <1>3 DEF OverDone, Calm, CalmAt
  <2>2. Round(x) + 1 <= sent[x]
    BY <1>1, <1>2 DEF InOrder, Ahead, Counted
  <2> QED
    BY <1>3, <2>1, <2>2
<1>5. /\ ui[x] \in {"timer", "waiting"}
      /\ collected' = [collected EXCEPT ![x] = NoMoves]
      /\ rounds' = [rounds EXCEPT ![x] = Append(@, collected[x])]
      /\ ui' = [ui EXCEPT ![x] = "handling"]
      /\ UNCHANGED <<wire, moves, unsent, sent>>
  BY <1>4 DEF Emit, sending
<1>6. /\ collected'[x] = NoMoves /\ rounds'[x] = Append(rounds[x], collected[x])
      /\ ui'[x] = "handling"
      /\ \A r \in Player \ {x} : /\ collected'[r] = collected[r] /\ rounds'[r] = rounds[r]
                                 /\ ui'[r] = ui[r]
  BY <1>5 DEF TypeInv, LoopsOK, GameOK, SendingOK
<1>7. ASSUME NEW q \in Player, NEW p \in Player
      PROVE  \A n : Pending(q, p, n) => Pending(q, p, n)'
  <2>1. InHand(q, p) => InHand(q, p)'
    BY <1>5, <1>6 DEF InHand
  <2> QED
    BY <1>5, <2>1, StillPending
<1>8. ASSUME NEW p \in Player, p # x PROVE Gap(p)'
  BY <1>5, <1>6, <1>7, <1>8, GapFrame
<1>9. NotOvertaken(x)'
  <2> SUFFICES ASSUME NEW q \in Player PROVE sent[q] <= Round(x) + 2
    BY <1>2, <1>3, <1>4, <1>5 DEF NotOvertaken
  <2>1. sent[q] <= Round(q) + 1 /\ Round(q) <= sent[x] /\ sent[x] <= Round(x) + 1
    BY RoundsFollow
  <2>2. Round(q) \in Nat
    BY Numbers
  <2> QED
    BY <1>3, <2>1, <2>2
<1>10. OfTheRound(x)'
  BY <1>6 DEF OfTheRound, NoMoves
<1>11. NoneLost(x)'
  <2> SUFFICES ASSUME NEW q \in Player, NEW n \in (Round(x) + 2)..sent[q]
               PROVE  Pending(q, x, n)'
    BY <1>2, <1>3, <1>4, <1>5 DEF NoneLost
  <2>1. n \in (Round(x) + 1)..sent[q] /\ n # Round(x) + 1
    BY <1>3
  <2> QED
    BY <1>7, <2>1 DEF Gap, NoneLost
<1>12. Played(x)'
  <2>1. PICK S \in SUBSET Player : collected[x] \in [S -> 0..MaxRounds]
    BY DEF TypeInv, LoopsOK, RoundMoves
  <2>2. collected[x] = [q \in Player |-> Round(x) + 1]
    BY <1>2, <2>1 DEF Gap, OfTheRound
  <2>3. /\ \A r \in 1..Round(x) : rounds'[x][r] = rounds[x][r]
        /\ rounds'[x][Round(x) + 1] = collected[x]
    <3>1. rounds[x] \in Seq(RoundMoves) /\ collected[x] \in RoundMoves
      BY DEF TypeInv, LoopsOK, GameOK
    <3> QED
      BY <1>6, <3>1, AppendSeq DEF Round
  <2>4. \A r \in 1..(Round(x) + 1) : r \in 1..Round(x) \/ r = Round(x) + 1
    BY <1>3
  <2>5. \A r \in 1..(Round(x) + 1) : rounds'[x][r] = [q \in Player |-> r]
    BY <2>2, <2>3, <2>4 DEF Gap, Played
  <2> QED
    BY <1>2, <1>4, <2>5 DEF Played
<1> QED
  BY <1>8, <1>9, <1>10, <1>11, <1>12 DEF Gap

LEMMA GapStep ==
  ASSUME TypeInv, OverDone, LockInv, GapInv, [Next]_vars
  PROVE  GapInv'
<1> SUFFICES ASSUME Undisturbed', ~late' PROVE \A p \in Player : Gap(p)'
  BY DEF GapInv
<1>1. Undisturbed
  BY UndisturbedBefore
<1>2. Calm /\ \A q, p \in Player : InOrder(q, p)
  BY <1>1 DEF LockInv
<1>3. ~late
  <2>1. ASSUME NEW p \in Player, StartSend(p) PROVE ~late
    BY <2>1 DEF StartSend, TypeInv, WorldOK
  <2>2. ASSUME NEW p \in Player, HandleRound(p) PROVE ~late
    BY <2>2 DEF HandleRound
  <2>3. ASSUME NEW p \in Player,
               \/ SendOwn(p) \/ TakeMove(p) \/ Count(p) \/ Emit(p)
               \/ \E q \in Others(p) : Write(p, q) \/ ReadMove(p, q)
        PROVE  ~late
    BY <2>3 DEF SendOwn, TakeMove, Count, Emit, Write, ReadMove
  <2>4. CASE UNCHANGED vars
    BY <2>4 DEF vars
  <2> QED
    BY <1>1, <1>2, <2>1, <2>2, <2>3, <2>4, CalmSteps DEF Undisturbed
<1>4. \A p \in Player : Gap(p)
  BY <1>1, <1>3 DEF GapInv
<1>5. ASSUME /\ UNCHANGED <<wire, moves, collected, unsent, sent, rounds>>
             /\ \A p, q \in Player : InHand(q, p) => InHand(q, p)'
      PROVE  \A p \in Player : Gap(p)'
  <2>1. \A q, p \in Player : \A n : Pending(q, p, n) => Pending(q, p, n)'
    BY <1>5, StillPending
  <2> QED
    BY <1>4, <1>5, <2>1, GapFrame
<1>6. CASE UNCHANGED vars
  <2>1. UNCHANGED <<wire, moves, collected, ui, unsent, sent, rounds>>
    BY <1>6 DEF vars, loops, sending, game
  <2> QED
    BY <1>5, <2>1 DEF InHand
<1>7. ASSUME NEW p \in Player, Count(p) PROVE \A x \in Player : Gap(x)'
  <2>1. UNCHANGED <<wire, moves, collected, ui, unsent, sent, rounds>>
    BY <1>7 DEF Count, sending, game
  <2> QED
    BY <1>5, <2>1 DEF InHand
<1>8. ASSUME NEW p \in Player, HandleRound(p) PROVE \A x \in Player : Gap(x)'
  <2>1. /\ ui[p] = "handling" /\ ui' = [ui EXCEPT ![p] = "timer"]
        /\ UNCHANGED <<wire, moves, collected, unsent, sent, rounds>>
    BY <1>8 DEF HandleRound, loops, sending
  <2>2. \A x, q \in Player : InHand(q, x) => InHand(q, x)'
    BY <2>1 DEF InHand, TypeInv, SendingOK
  <2> QED
    BY <1>5, <2>1, <2>2
<1>9. ASSUME NEW p \in Player, NEW q \in Others(p), Write(p, q) \/ ReadMove(p, q)
      PROVE  \A x \in Player : Gap(x)'
  BY <1>2, <1>4, <1>9, WriteGap, ReadMoveGap
<1>10. ASSUME NEW p \in Player, StartSend(p) \/ SendOwn(p) \/ TakeMove(p) \/ Emit(p)
       PROVE  \A x \in Player : Gap(x)'
  BY <1>1, <1>2, <1>4, <1>10, StartSendGap, SendOwnGap, TakeMoveGap, EmitGap
<1> QED
  BY <1>1, <1>2, <1>6, <1>7, <1>8, <1>9, <1>10, CalmSteps DEF Undisturbed

LEMMA InitGap == Init => GapInv /\ OverDone
<1> SUFFICES ASSUME Init PROVE \A p \in Player : Gap(p) /\ ~over[p]
  BY DEF GapInv, OverDone
<1>1. \A p \in Player : /\ Round(p) = 0 /\ sent[p] = 0 /\ DOMAIN collected[p] = {} /\ ~over[p]
  <2>1. Len(<< >>) = 0
    BY EmptySeq
  <2> QED
    BY <2>1 DEF Init, Round, NoMoves
<1> QED
  BY <1>1 DEF Gap, NotOvertaken, OfTheRound, NoneLost, Played

\* As long as nobody leaves or dies and no move comes late, every two players
\* put the same moves into a round: the one that each of them made for it.
THEOREM InstanceAgreement == SafetySpec => [](Undisturbed => Agreement)
<1>1. TypeInv /\ GapInv => (Undisturbed => Agreement)
  <2> SUFFICES ASSUME TypeInv, GapInv, Undisturbed, ~late,
                      NEW p \in Player, NEW q \in Player,
                      NEW r \in 1..Round(p), r <= Round(q)
               PROVE  rounds[p][r] = rounds[q][r]
    BY DEF Agreement
  <2>1. r \in 1..Round(q)
    <3>1. Round(p) \in Nat /\ Round(q) \in Nat
      BY Numbers
    <3> QED
      BY <3>1
  <2>2. Gap(p) /\ Gap(q)
    BY DEF GapInv
  <2> QED
    BY <2>1, <2>2 DEF Gap, Played
<1> QED
  BY <1>1, InitGap, GapStep, OverStep, InstanceTypeInv, InstanceLockInv, PTL DEF SafetySpec

-----------------------------------------------------------------------------
\* The moves of the others that wait in the buffer of a player that sends are of
\* the round it sends for and of the next: no two of them are the same.
LEMMA RoomWhileSending ==
  ASSUME BufferSize >= 2 * Cardinality(Player) - 1, TypeInv, Undisturbed, LockInv,
         NEW p \in Player, ui[p] = "sending"
  PROVE  Len(moves[p]) < BufferSize
<1> DEFINE now == {Round(p) + 1, Round(p) + 2}
           slots == Others(p) \X now
           f == [i \in DOMAIN moves[p] |->
                   <<CHOOSE q \in Player : moves[p][i].from = {q}, moves[p][i].move>>]
<1>1. Calm /\ \A q, r \in Player : InOrder(q, r)
  BY DEF LockInv
<1>2. sent[p] = Round(p) + 1 /\ Round(p) \in Nat
  BY <1>1, Numbers DEF Calm, CalmAt
<1>3. ASSUME NEW i \in DOMAIN moves[p]
      PROVE  \E q \in Others(p) : moves[p][i].from = {q} /\ moves[p][i].move \in now
  <2>1. PICK q \in Player : moves[p][i].from = {q}
    BY <1>1, Numbers DEF Calm, CalmAt
  <2>2. Fits(q, p, moves[p][i].move)
    BY <1>1, <2>1 DEF InOrder, InBuffer
  <2>3. /\ Counted(q, p) \in {Round(p), Round(p) + 1} /\ sent[q] \in Nat
        /\ moves[p][i].move \in Nat
    BY Numbers
  <2>4. q # p
    <3> SUFFICES ASSUME q = p PROVE FALSE
      OBVIOUS
    <3>1. InHand(p, p)
      BY DEF InHand
    <3> QED
      BY <1>2, <2>2, <2>3, <3>1 DEF Fits
  <2>5. sent[q] <= Round(p) + 2
    <3>1. sent[q] <= Round(q) + 1 /\ Round(q) <= sent[p] /\ Round(q) \in Nat
      BY RoundsFollow, Numbers
    <3> QED
      BY <1>2, <2>3, <3>1
  <2>6. moves[p][i].move \in now
    BY <1>2, <2>2, <2>3, <2>5 DEF Fits
  <2> QED
    BY <2>1, <2>4, <2>6 DEF Others
<1>4. ASSUME NEW i \in DOMAIN moves[p]
      PROVE  /\ f[i] \in slots
             /\ \E q \in Player : moves[p][i].from = {q} /\ f[i] = <<q, moves[p][i].move>>
  <2>1. PICK q \in Others(p) : moves[p][i].from = {q} /\ moves[p][i].move \in now
    BY <1>3
  <2>2. q \in Player /\ \A r \in Player : moves[p][i].from = {r} => r = q
    BY <2>1 DEF Others
  <2>3. (CHOOSE r \in Player : moves[p][i].from = {r}) = q
    BY <2>1, <2>2
  <2>4. f[i] = <<q, moves[p][i].move>>
    BY <2>3
  <2> HIDE DEF f, now
  <2>5. f[i] \in slots
    BY <2>1, <2>4
  <2> QED
    BY <2>1, <2>2, <2>4, <2>5
<1>5. ASSUME NEW i \in DOMAIN moves[p], NEW j \in DOMAIN moves[p], i < j
      PROVE  f[i] # f[j]
  <2>1. PICK q \in Player : moves[p][i].from = {q} /\ f[i] = <<q, moves[p][i].move>>
    BY <1>4
  <2>2. PICK r \in Player : moves[p][j].from = {r} /\ f[j] = <<r, moves[p][j].move>>
    BY <1>4
  <2>3. CASE q = r
    <3>1. moves[p][i].move < moves[p][j].move
      BY <1>1, <1>5, <2>1, <2>2, <2>3 DEF InOrder, InBuffer
    <3>2. moves[p][i].move \in Nat /\ moves[p][j].move \in Nat
      BY Numbers
    <3>3. moves[p][i].move # moves[p][j].move
      BY <3>1, <3>2
    <3> QED
      BY <2>1, <2>2, <3>3
  <2>4. CASE q # r
    BY <2>1, <2>2, <2>4
  <2> QED
    BY <2>3, <2>4
<1>6. DOMAIN moves[p] = 1..Len(moves[p]) /\ Len(moves[p]) \in Nat
  BY Numbers
<1> HIDE DEF slots
<1>7. f \in Injection(1..Len(moves[p]), slots)
  <2>1. f \in [1..Len(moves[p]) -> slots]
    BY <1>4, <1>6
  <2>2. ASSUME NEW i \in 1..Len(moves[p]), NEW j \in 1..Len(moves[p]), f[i] = f[j]
        PROVE  i = j
    <3>1. ~(i < j) /\ ~(j < i)
      BY <1>5, <1>6, <2>2
    <3> QED
      BY <3>1
  <2> HIDE DEF f
  <2> QED
    BY <2>1, <2>2 DEF Injection, IsInjective
<1> HIDE DEF f
<1>8. IsFiniteSet(slots) /\ Cardinality(slots) = 2 * (Cardinality(Player) - 1)
  <2>1. IsFiniteSet(Others(p)) /\ Cardinality(Others(p)) = Cardinality(Player) - 1
    BY PlayerAssumption, FS_RemoveElement DEF Others
  <2>2. IsFiniteSet(now) /\ Cardinality(now) = 2
    <3>1. now = (Round(p) + 1)..(Round(p) + 2)
      BY <1>2
    <3> HIDE DEF now
    <3> QED
      BY <1>2, <3>1, FS_Interval
  <2>3. Cardinality(Player) \in Nat
    BY PlayerAssumption, FS_CardinalityType
  <2> HIDE DEF now
  <2>4. /\ IsFiniteSet(Others(p) \X now)
        /\ Cardinality(Others(p) \X now) = Cardinality(Others(p)) * Cardinality(now)
    BY <2>1, <2>2, FS_Product
  <2> QED
    BY <2>1, <2>2, <2>3, <2>4 DEF slots
<1>9. Cardinality(1..Len(moves[p])) <= Cardinality(slots)
  BY <1>7, <1>8, FS_Injection
<1>10. Cardinality(1..Len(moves[p])) = Len(moves[p])
  BY <1>6, FS_Interval
<1>11. Cardinality(Player) \in Nat /\ BufferSize \in Nat
  BY PlayerAssumption, FS_CardinalityType, SizeAssumption
<1> QED
  BY <1>6, <1>8, <1>9, <1>10, <1>11

\* While nobody leaves or dies a buffer of twice the number of players, less
\* one, has room for our own move whenever SendMove comes to it, holding gi.mu:
\* the 32 of the code do for 16 players.
THEOREM InstanceRoom ==
  ASSUME BufferSize >= 2 * Cardinality(Player) - 1
  PROVE  SafetySpec => [](Undisturbed => RoomForOwnMove)
<1>1. TypeInv /\ LockInv => (Undisturbed => RoomForOwnMove)
  BY RoomWhileSending DEF RoomForOwnMove
<1> QED
  BY <1>1, InstanceTypeInv, InstanceLockInv, PTL

-----------------------------------------------------------------------------
\* A step of the game is a move, a round played, or nothing that counts.
LEMMA BarrierStep ==
  ASSUME TypeInv, LockInv, Undisturbed, Undisturbed', [Next]_vars
  PROVE  [Barrier!Next]_Barrier!vars
<1>1. Calm /\ \A q, p \in Player : InOrder(q, p)
  BY DEF LockInv
<1>2. CASE UNCHANGED <<sent, rounds>>
  BY <1>2 DEF Barrier!vars, Round
<1>3. ASSUME NEW x \in Player, StartSend(x) PROVE Barrier!Move(x)
  <2>1. CalmAt(x) /\ Round(x) \in Nat
    BY <1>1, Numbers DEF Calm
  <2>2. sent[x] = Round(x) /\ sent' = [sent EXCEPT ![x] = Round(x) + 1] /\ rounds' = rounds
    BY <1>3, <2>1 DEF StartSend, CalmAt, game
  <2>3. sent' = [sent EXCEPT ![x] = @ + 1]
    BY <2>2
  <2>4. Round(x) + 1 <= DiesIn[x]
    <3>1. Round(x) < DiesIn[x] /\ DiesIn[x] \in Nat
      BY DeathAssumption DEF Undisturbed, Unharmed
    <3> QED
      BY <2>1, <3>1
  <2>5. [p \in Player |-> Round(p)]' = [p \in Player |-> Round(p)]
    BY <2>2 DEF Round
  <2> QED
    BY <2>2, <2>3, <2>4, <2>5 DEF Barrier!Move, Barrier!InRound
<1>4. ASSUME NEW x \in Player, Emit(x), ~over[x] PROVE Barrier!Play(x)
  <2>1. Round(x)' = Round(x) + 1 /\ \A q \in Player : Round(x) < sent[q]
    BY <1>1, <1>4, EmitOrder
  <2>2. sent' = sent /\ rounds' = [rounds EXCEPT ![x] = Append(@, collected[x])]
    BY <1>4 DEF Emit, sending
  <2>3. \A p \in Player \ {x} : Round(p)' = Round(p)
    BY <2>2 DEF Round, TypeInv, GameOK
  <2>4. [p \in Player |-> Round(p)]' = [[p \in Player |-> Round(p)] EXCEPT ![x] = @ + 1]
    BY <2>1, <2>3
  <2>5. \A q \in Player : sent[q] > Round(x)
    BY <2>1, Numbers
  <2> QED
    BY <2>2, <2>4, <2>5 DEF Barrier!Play
<1>5. ASSUME NEW x \in Player, Emit(x), over[x] PROVE UNCHANGED <<sent, rounds>>
  BY <1>5 DEF Emit, sending
<1>6. ASSUME NEW x \in Player,
             \/ SendOwn(x) \/ HandleRound(x) \/ TakeMove(x) \/ Count(x)
             \/ \E q \in Others(x) : Write(x, q) \/ ReadMove(x, q)
      PROVE  UNCHANGED <<sent, rounds>>
  BY <1>6 DEF SendOwn, HandleRound, TakeMove, Count, Write, ReadMove, sending, game
<1>7. CASE UNCHANGED vars
  BY <1>2, <1>7 DEF vars, sending, game
<1> QED
  BY <1>1, <1>2, <1>3, <1>4, <1>5, <1>6, <1>7, CalmSteps DEF Undisturbed, Barrier!Next

LEMMA BarrierInit == Init => Barrier!Init
<1>1. Len(<< >>) = 0
  BY EmptySeq
<1> QED
  BY <1>1 DEF Init, Barrier!Init, Round

\* A game that nobody leaves and in which nobody dies implements the barrier:
\* whichever way the loops, the streams and the timers fall together, late moves
\* included, nobody plays a round before all have made their move for it, or
\* makes two moves for one.
THEOREM InstanceLockstep == SafetySpec /\ []Undisturbed => LockstepSpec
BY BarrierInit, BarrierStep, InstanceTypeInv, InstanceLockInv, PTL
   DEF SafetySpec, LockstepSpec, Barrier!Spec

LEMMA UndisturbedStep ==
  ASSUME MaxFaults = 0, \A q \in Player : DiesIn[q] > MaxRounds,
         TypeInv, TypeInv', LockInv, Undisturbed, [Next]_vars
  PROVE  Undisturbed'
<1>1. Calm /\ \A q, p \in Player : InOrder(q, p)
  BY DEF LockInv
<1>2. faults' = 0
  BY DEF TypeInv, WorldOK
<1>3. SUFFICES ASSUME NEW p \in Player PROVE Round(p)' <= MaxRounds
  BY <1>2, BoundAssumption, DeathAssumption, RoundsGrow DEF Undisturbed, Unharmed
<1>4. Round(p) <= MaxRounds
  <2>1. Round(p) <= sent[p] /\ sent[p] \in 0..MaxRounds /\ Round(p) \in Nat
    BY RoundsFollow, Numbers DEF TypeInv, SendingOK
  <2> QED
    BY <2>1, BoundAssumption
<1>5. CASE Round(p)' = Round(p)
  BY <1>4, <1>5
<1>6. ASSUME Emit(p), ~over[p] PROVE Round(p)' <= MaxRounds
  <2>1. Round(p)' = Round(p) + 1 /\ Round(p) < sent[p]
    BY <1>1, <1>6, EmitOrder
  <2>2. sent[p] \in 0..MaxRounds /\ Round(p) \in Nat
    BY Numbers DEF TypeInv, SendingOK
  <2> QED
    BY <2>1, <2>2, BoundAssumption
<1>7. ASSUME NEW x \in Player, Emit(x), x # p \/ over[x] PROVE Round(p)' = Round(p)
  BY <1>7 DEF Emit, Round, TypeInv, GameOK
<1>8. ASSUME NEW x \in Player,
             \/ StartSend(x) \/ SendOwn(x) \/ HandleRound(x) \/ TakeMove(x) \/ Count(x)
             \/ \E q \in Others(x) : Write(x, q) \/ ReadMove(x, q)
      PROVE  Round(p)' = Round(p)
  BY <1>8 DEF StartSend, SendOwn, HandleRound, TakeMove, Count, Write, ReadMove, game, Round
<1>9. CASE UNCHANGED vars
  BY <1>5, <1>9 DEF vars, game, Round
<1> QED
  BY <1>1, <1>2, <1>5, <1>6, <1>7, <1>8, <1>9, CalmSteps

\* Where no process exits, no connection is lost and the rules kill nobody in
\* the rounds that are played, this holds of every game.
THEOREM InstanceNoFaults ==
  ASSUME MaxFaults = 0, \A q \in Player : DiesIn[q] > MaxRounds
  PROVE  SafetySpec => []Agreement /\ []FreshMoves /\ LockstepSpec
<1>1. Init => Undisturbed
  <2>1. Len(<< >>) = 0
    BY EmptySeq
  <2> QED
    BY <2>1, BoundAssumption, DeathAssumption DEF Init, Undisturbed, Unharmed, Round
<1>2. TypeInv /\ TypeInv' /\ LockInv /\ Undisturbed /\ [Next]_vars => Undisturbed'
  BY UndisturbedStep
<1>3. SafetySpec => []Undisturbed
  BY <1>1, <1>2, InstanceTypeInv, InstanceLockInv, PTL DEF SafetySpec
<1> QED
  BY <1>3, InstanceAgreement, InstanceFreshMoves, InstanceLockstep, PTL
=============================================================================
