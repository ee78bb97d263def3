----------------------------- MODULE SnakeRules -----------------------------
(***************************************************************************)
(* engine/console/game.go: the rules of the game, as the GameUI of one     *)
(* player (Self) applies them to the rounds and departures that its game   *)
(* instance hands out.  How a round comes together is the subject of       *)
(* GameInstance; what reaches the rules of it is who is in the round.      *)
(*                                                                         *)
(* Go ranges over a map in an order of its own each time: markDead, whose  *)
(* result depends on it, takes the order as a parameter.  The random       *)
(* numbers of g.r (start cells, food) are choices.                         *)
(***************************************************************************)
EXTENDS Integers, FiniteSets, SequencesExt

CONSTANTS Player,
          Self,           \* g.gi.SelfID()
          NoBody,         \* no winner, or the made-up winner peer.ID("1")
          Right, Bottom,  \* g.bound.BottomRight (81 and 41); TopLeft is (1, 1)
          N,              \* food is added every N rounds (5)
          MaxRounds,      \* bound: rounds played
          MaxLeavers      \* bound: players whose process exits

ASSUME PlayersAssumption ==
  IsFiniteSet(Player) /\ Self \in Player /\ NoBody \notin Player
ASSUME BoardAssumption == Right \in Nat /\ Bottom \in Nat /\ Right > 3 /\ Bottom > 3
ASSUME BoundAssumption == N \in Nat \ {0} /\ MaxRounds \in Nat /\ MaxLeavers \in Nat

VARIABLES
  streams,     \* gi.streams
  unreported,  \* players whose departure g has not been told
  parting,     \* players that left, whose last move no round has had
  alive,       \* players whose Snake is Alive
  head, body,  \* Head and Body of each snake
  food,        \* how many pieces of food lie in a cell of the board
  aliveSnakes, \* g.AliveSnakes
  over,        \* g.Over
  successful,  \* g.Successful
  winner,      \* g.WinnerID
  moveNum,     \* g.moveNum
  exited,      \* has a drawing failed, or newFood panicked?
  leavers      \* players that left

peers == <<streams, unreported, parting, leavers>>
snakes == <<alive, head, body>>
verdict == <<aliveSnakes, over, successful, winner>>
vars == <<peers, snakes, verdict, food, moveNum, exited>>

Others == Player \ {Self}

\* The cells inside the border, in the order in which newFood visits them.
Height == Bottom - 2
Area == (Right - 2) * Height
Cell(i) == <<2 + ((i - 1) \div Height), 2 + ((i - 1) % Height)>>
Inside == {Cell(i) : i \in 1..Area}

\* core.Coord{}
Origin == <<0, 0>>

\* Boundary.Contains is true of what is on the border or beyond.
Outside(c) == c[1] <= 1 \/ c[1] >= Right \/ c[2] <= 1 \/ c[2] >= Bottom

Occupied(p) == {head[p]} \cup ToSet(body[p])

\* drawSnake and drawFood; a dead snake is not drawn.
Drawable == /\ \A p \in alive : \A c \in Occupied(p) : ~Outside(c)
            /\ \A c \in DOMAIN food : food[c] > 0 => ~Outside(c)

\* The loop of RunGame comes round: unless the game is over all is drawn, and
\* the process exits when that fails.
Draw == exited' = (~over' /\ ~Drawable')

-----------------------------------------------------------------------------
\* RunGame: g.r.Intn(width-1)+1 counts from the border.
Starts == (1..(Right - 2)) \X (1..(Bottom - 2))

Init == /\ streams = Others
        /\ unreported = Others
        /\ parting = {}
        /\ leavers = 0
        /\ alive = Player
        /\ head \in {h \in [Player -> Starts] : IsInjective(h)}
        /\ body = [p \in Player |-> << >>]
        /\ food = [c \in Inside |-> 0]
        /\ aliveSnakes = Cardinality(Player)
        /\ over = FALSE
        /\ successful = FALSE
        /\ winner = NoBody
        /\ moveNum = 0
        /\ exited = ~Drawable

-----------------------------------------------------------------------------
\* handleMoves

Shifts == {<<0, -1>>, <<1, 0>>, <<0, 1>>, <<-1, 0>>}

Wrap(v, far) == IF v = 1 THEN far - 1 ELSE IF v = far THEN 2 ELSE v

goodCoord(c) == <<Wrap(c[1], Right), Wrap(c[2], Bottom)>>

NewHead(p, s) == goodCoord(<<head[p][1] + s[1], head[p][2] + s[2]>>)

\* The moves that handleMove lets a player make: not back into its own neck.
\* Once somebody left, a move may come into a later round than it was made for.
Moves(p) == {s \in Shifts :
               leavers > 0 \/ body[p] = << >> \/ NewHead(p, s) # body[p][1]}

\* Who is in the next round.  syncLoop emits it when it has as many moves as
\* there are streams, and ours: the move of somebody who left may take the
\* place of another one.
Parties == {s \in SUBSET ({Self} \cup streams \cup parting) :
              Cardinality(s) > Cardinality(streams)}

\* newHeadCoord, for any moves of those who are in the round
NewHeads ==
  UNION {{[p \in party |-> NewHead(p, m[p])] :
            m \in {m \in [party -> Shifts] : \A p \in party : m[p] \in Moves(p)}} :
         party \in Parties}

\* Variant with a bug: who is dead already is skipped, and only p is marked.
MarkOneSkipping(h, d, p) ==
  LET met == {q \in DOMAIN h \cap d.alive : q # p /\ h[q] = h[p]}
      hit == met # {} \/ \E q \in d.alive : h[p] \in Occupied(q)
      dies == IF hit THEN {p} ELSE {}
  IN [alive |-> d.alive \ dies,
      count |-> d.count - Cardinality(dies),
      over  |-> d.over \/ Self \in dies]

\* Variant with a bug: the bodies are forgotten.
MarkOneHeads(h, d, p) ==
  LET met == {q \in DOMAIN h \ {p} : h[q] = h[p]}
      hit == met # {} \/ \E q \in d.alive \ met : h[p] = head[q]
      dies == met \cup (IF hit THEN {p} ELSE {})
  IN [alive |-> d.alive \ dies,
      count |-> d.count - Cardinality(dies),
      over  |-> d.over \/ Self \in dies]

\* markDead, one player of the round: d is what the ones before have left.
\* Both ends of a meeting of two heads are subtracted for each of the two.
MarkOne(h, d, p) ==
  LET met == {q \in DOMAIN h \ {p} : h[q] = h[p]}
      standing == d.alive \ met
      hit == met # {} \/ \E q \in standing : h[p] \in Occupied(q)
      dies == met \cup (IF hit THEN {p} ELSE {})
  IN [alive |-> d.alive \ dies,
      count |-> d.count - Cardinality(dies),
      over  |-> d.over \/ Self \in dies]

markDead(h, order) ==
  FoldLeft(LAMBDA d, p : MarkOne(h, d, p),
           [alive |-> alive, count |-> aliveSnakes, over |-> over], order)

Outcomes(h) == {markDead(h, o) : o \in SetToSeqs(DOMAIN h)}

\* eatFood: one placeholder for each piece.  Two in one cell are both dead; the
\* first in some order eats.
Eaten(h, p) ==
  LET first == CHOOSE q \in DOMAIN h : h[q] = h[p]
  IN IF p = first THEN food[h[p]] ELSE 0

Fed(h, p) == body[p] \o [i \in 1..Eaten(h, p) |-> Origin]

\* Variant with a bug: the last segment is not given up.
MovedLonger(h, p) == LET b == Fed(h, p) IN
                     IF b = << >> THEN b ELSE <<head[p]>> \o b

\* moveSnakes: the segments follow, the last one is given up.
Moved(h, p) == LET b == Fed(h, p) IN
               IF b = << >> THEN b ELSE <<head[p]>> \o Front(b)

\* newFood: the cells and segments that it takes for filled, those of dead
\* snakes included
Filled(bodies, foods) ==
  FoldFunction(+, 0, foods)
    + FoldFunction(+, 0, [p \in Player |-> Len(bodies[p]) + 1])

Free(c, heads, bodies, foods) ==
  foods[c] = 0 /\ \A p \in Player : c # heads[p] /\ c \notin ToSet(bodies[p])

\* What newFood may leave.  Its random number, less than what is not filled,
\* goes down at each free cell, and the first cell where it is zero is taken:
\* for 0 that is the first cell if it is not free, else none.  Intn panics if
\* nothing is left to choose from.
newFood(heads, bodies, foods) ==
  LET free == SelectSeq([i \in 1..Area |-> Cell(i)],
                        LAMBDA c : Free(c, heads, bodies, foods))
      left == Area - Filled(bodies, foods)
      On(c) == [foods EXCEPT ![c] = @ + 1]
      Board(v) == IF v > 0 THEN On(free[v])
                  ELSE IF Free(Cell(1), heads, bodies, foods) THEN foods
                  ELSE On(Cell(1))
  IN IF moveNum % N # 0 THEN {[food |-> foods, panics |-> FALSE]}
     ELSE IF left <= 0 THEN {[food |-> foods, panics |-> TRUE]}
     ELSE {[food |-> Board(v), panics |-> FALSE] : v \in 0..(left - 1)}

\* Variant with a bug: one snake may go on alone.
isOverLate(r) == r.over \/ r.count < 1

\* isOver, with what markDead left: r.alive is in an order of its own
isOver(r) == r.over \/ r.count <= 1

Verdict(r) ==
  /\ aliveSnakes' = r.count
  /\ over' = isOver(r)
  /\ successful' = (isOver(r) /\ r.count >= 1)
  /\ winner' \in (IF r.count = 1 /\ r.alive # {} THEN r.alive ELSE {winner})

\* handleMoves of a round that brings the snakes to h
Round(h, r) ==
  LET party == DOMAIN h
      bodies == [p \in Player |->
                   IF p \notin party THEN body[p]
                   ELSE IF p \in r.alive THEN Moved(h, p) ELSE Fed(h, p)]
      heads == [p \in Player |-> IF p \in party \cap r.alive THEN h[p] ELSE head[p]]
      foods == [c \in Inside |-> IF \E p \in party : h[p] = c THEN 0 ELSE food[c]]
  IN /\ Verdict(r)
     /\ alive' = r.alive
     /\ streams' = streams \cap r.alive
     /\ parting' = parting \ party
     /\ UNCHANGED <<unreported, leavers>>
     /\ IF isOver(r) THEN UNCHANGED <<head, body, food, moveNum, exited>>
        ELSE \E new \in newFood(heads, bodies, foods) :
               /\ head' = heads /\ body' = bodies /\ food' = new.food
               /\ moveNum' = moveNum + (IF new.panics THEN 0 ELSE 1)
               /\ exited' = (new.panics \/ ~Drawable')

Going == ~over /\ ~exited /\ moveNum < MaxRounds

handleMoves == /\ Going
               /\ \E h \in NewHeads : \E r \in Outcomes(h) : Round(h, r)

-----------------------------------------------------------------------------
\* A player leaves, before its move for the next round or after.
Leave(q) == /\ leavers < MaxLeavers
            /\ q \in streams
            /\ leavers' = leavers + 1
            /\ streams' = streams \ {q}
            /\ parting' \in {parting, parting \cup {q}}
            /\ UNCHANGED <<unreported, snakes, verdict, food, moveNum, exited>>

\* Variant with a bug: any player may be reported.
ReportAny(q) == /\ q \in unreported
                /\ unreported' = unreported \ {q}
                /\ alive' = alive \ {q}
                /\ aliveSnakes' = aliveSnakes - 1
                /\ UNCHANGED <<streams, parting, leavers, head, body, food,
                               over, successful, winner, moveNum>>
                /\ Draw

\* readLoop reports a player whose stream is gone, be it that q left or that
\* markDead called RemovePeer.
Report(q) == /\ q \in unreported \ streams
             /\ unreported' = unreported \ {q}
             /\ alive' = alive \ {q}
             /\ aliveSnakes' = aliveSnakes - 1
             /\ UNCHANGED <<streams, parting, leavers, head, body, food, over,
                            successful, winner, moveNum>>
             /\ Draw

Next == /\ ~over /\ ~exited
        /\ handleMoves \/ \E q \in Others : Leave(q) \/ Report(q)

Spec == Init /\ [][Next]_vars

-----------------------------------------------------------------------------
TypeOK ==
  /\ streams \subseteq Others /\ unreported \subseteq Others
  /\ parting \subseteq Others \ streams
  /\ alive \subseteq Player /\ streams \subseteq alive
  /\ \A p \in Player : /\ head[p] \in Starts \cup Inside
                       /\ body[p] \in Seq(Starts \cup Inside \cup {Origin})
  /\ food \in [Inside -> 0..MaxRounds]
  /\ aliveSnakes \in Int /\ winner \in Player \cup {NoBody}
  /\ over \in BOOLEAN /\ successful \in BOOLEAN /\ exited \in BOOLEAN
  /\ moveNum \in 0..MaxRounds /\ leavers \in 0..MaxLeavers

\* Whatever order markDead takes the players of a round in, and whoever is
\* missing from it, the living snakes do not overlap, neither each other nor
\* themselves.
Disjoint ==
  ~exited =>
    /\ \A p \in alive : IsInjective(<<head[p]>> \o body[p])
    /\ \A p, q \in alive : p # q => Occupied(p) \cap Occupied(q) = {}

\* The next round is played by two living snakes or more: however markDead and
\* the reports count, AliveSnakes is never more than there are, so isOver
\* notices.
PlayedByTwo == [][moveNum' > moveNum => Cardinality(alive') >= 2]_vars

\* A program that started does not exit because of what a round makes of the
\* board, save that newFood puts food on the first cell without looking: two
\* pieces eaten at once leave a segment at (0, 0), which cannot be drawn; and
\* it panics when no cell is left.
BoardHolds ==
  [][exited' /\ ~exited => \/ \E c \in Inside : food[c] > 1
                           \/ Filled(body', food') >= Area]_vars

\* The players agree on the outcome of a round, whose order of the players
\* differs from one to the next, if no snake goes where another one stands.
OrderIndifferent ==
  Going => \A h \in NewHeads :
    (\A p, q \in DOMAIN h : p # q => h[p] \notin Occupied(q))
      => Cardinality(Outcomes(h)) = 1

\* All players make the same of a round.
RoundDetermined ==
  Going => \A h \in NewHeads : Cardinality(Outcomes(h)) = 1
=============================================================================
