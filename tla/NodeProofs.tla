----------------------------- MODULE NodeProofs -----------------------------
(***************************************************************************)
(* For any facilitators, any seekers and any number of faults: the node    *)
(* and its join services keep their types; no heartbeat of a service is    *)
(* forgotten, but for those of requests that overlap; what the services    *)
(* tell their facilitators is so, as long as no two facilitators send a    *)
(* node to the same seeker; and when a game is played no service that was  *)
(* stored in time seeks another one.                                       *)
(***************************************************************************)
EXTENDS Node, TLAPS

\* The services, in three parts for the provers.
Place ==
  [pc : {"absent", "select", "connect", "tell", "closing", "offer", "closed"},
   on : {Nobody} \cup {{a} : a \in Attempt},
   status : {unknown, alive, dead},
   next : {"select", "offer", "closed"}]

RunOK == run \in [Facilitator -> Place]

Reporters == [status : {unknown, alive, dead},
              phase : {"absent", "idle", "sending", "closed"}]

BooksOK ==
  /\ conns \in [Facilitator -> SUBSET Attempt]
  /\ \A f \in Facilitator : \A a, b \in conns[f] : a[1] = b[1] => a = b
  /\ range \in [Facilitator -> SUBSET Seeker]
  /\ \A f \in Facilitator : \A p \in range[f] : \E a \in conns[f] : a[1] = p
  /\ dial \in [Facilitator -> [Attempt -> {"idle", "check", "dial", "store"}]]
  /\ overlaps \in [Facilitator -> SUBSET Seeker]
  /\ hb \in [Facilitator -> [Attempt -> Reporters]]

EndsOK ==
  /\ reading \in [Facilitator -> BOOLEAN]
  /\ stream \in [Facilitator -> {"none", "open", "lost", "closed"}]
  /\ told \in [Facilitator -> [Seeker -> {unknown, alive, dead}]]
  /\ game \subseteq Seeker
  /\ faults \in 0..MaxFaults
  /\ crash \in Causes

LEMMA ServicesParts == ServicesOK <=> RunOK /\ BooksOK /\ EndsOK
BY DEF ServicesOK, RunOK, Place, Reporters, BooksOK, EndsOK

\* Where a goroutine stands when it works on nobody.
LEMMA AtType ==
  ASSUME NEW pc \in {"absent", "select", "connect", "tell", "closing", "offer", "closed"}
  PROVE  At(pc) \in Place
BY DEF At, Place, Nobody

\* Going to a place of the loop keeps its type.
LEMMA GoesType ==
  ASSUME RunOK, NEW f \in Facilitator, NEW to \in Place, Goes(f, to)
  PROVE  RunOK'
BY DEF RunOK, Goes

\* A fault keeps to its bound.
LEMMA FaultType == ASSUME faults \in 0..MaxFaults, Fault PROVE faults' \in 0..MaxFaults
BY BoundAssumption DEF Fault

\* A heartbeat set anew, or one whose phase is, is a heartbeat.
LEMMA HeartbeatType ==
  ASSUME BooksOK, NEW f \in Facilitator, NEW a \in Attempt
  PROVE  /\ \A r \in Reporters :
              [hb EXCEPT ![f][a] = r] \in [Facilitator -> [Attempt -> Reporters]]
         /\ \A ph \in {"absent", "idle", "sending", "closed"} :
              [hb EXCEPT ![f][a].phase = ph] \in [Facilitator -> [Attempt -> Reporters]]
<1>1. hb[f] \in [Attempt -> Reporters] /\ hb[f][a] \in Reporters
  BY DEF BooksOK
<1>2. ASSUME NEW r \in Reporters
      PROVE  [hb EXCEPT ![f][a] = r] \in [Facilitator -> [Attempt -> Reporters]]
  <2>1. [hb[f] EXCEPT ![a] = r] \in [Attempt -> Reporters]
    BY <1>1
  <2> QED
    BY <2>1 DEF BooksOK
<1>3. ASSUME NEW ph \in {"absent", "idle", "sending", "closed"}
      PROVE  [hb EXCEPT ![f][a].phase = ph] \in [Facilitator -> [Attempt -> Reporters]]
  <2>1. [hb[f][a] EXCEPT !.phase = ph] \in Reporters
    BY <1>1 DEF Reporters
  <2>2. [hb[f] EXCEPT ![a].phase = ph] \in [Attempt -> Reporters]
    BY <1>1, <2>1
  <2> QED
    BY <2>2 DEF BooksOK
<1> QED
  BY <1>2, <1>3

\* Deleting and storing a seeker's entry keep one heartbeat per seeker.
LEMMA DeletedType ==
  ASSUME BooksOK, NEW f \in Facilitator, NEW p, Deleted(f, p),
         hb' \in [Facilitator -> [Attempt -> Reporters]]
  PROVE  BooksOK'
<1>1. \A g \in Facilitator :
        /\ conns'[g] = IF g = f THEN {b \in conns[g] : b[1] # p} ELSE conns[g]
        /\ range'[g] = IF g = f THEN range[g] \ {p} ELSE range[g]
  BY DEF Deleted, BooksOK
<1>2. /\ conns' \in [Facilitator -> SUBSET Attempt]
      /\ range' \in [Facilitator -> SUBSET Seeker]
  BY DEF Deleted, BooksOK
<1>3. ASSUME NEW g \in Facilitator, NEW q \in range'[g]
      PROVE  \E a \in conns'[g] : a[1] = q
  <2>1. q \in range[g] /\ (g = f => q # p)
    BY <1>1
  <2>2. PICK a \in conns[g] : a[1] = q
    BY <2>1 DEF BooksOK
  <2>3. a \in conns'[g]
    BY <1>1, <2>1, <2>2
  <2> QED
    BY <2>2, <2>3
<1>4. \A g \in Facilitator : \A a, b \in conns'[g] : a[1] = b[1] => a = b
  <2>1. \A g \in Facilitator : conns'[g] \subseteq conns[g]
    BY <1>1
  <2> QED
    BY <2>1 DEF BooksOK
<1>5. /\ dial' \in [Facilitator -> [Attempt -> {"idle", "check", "dial", "store"}]]
      /\ overlaps' \in [Facilitator -> SUBSET Seeker]
  BY DEF Deleted, BooksOK
<1> QED
  BY <1>2, <1>3, <1>4, <1>5 DEF BooksOK

LEMMA StoreType ==
  ASSUME BooksOK, NEW f \in Facilitator, NEW a \in Attempt, Store(f, a)
  PROVE  BooksOK'
<1>1. \A g \in Facilitator :
        conns'[g] = IF g = f THEN {b \in conns[g] : b[1] # a[1]} \cup {a} ELSE conns[g]
  BY DEF Store, BooksOK
<1>2. /\ conns' \in [Facilitator -> SUBSET Attempt]
      /\ dial' \in [Facilitator -> [Attempt -> {"idle", "check", "dial", "store"}]]
  BY DEF Store, BooksOK
<1>3. ASSUME NEW g \in Facilitator, NEW q \in range'[g]
      PROVE  \E c \in conns'[g] : c[1] = q
  <2>1. q \in range[g]
    BY DEF Store
  <2>2. PICK c \in conns[g] : c[1] = q
    BY <2>1 DEF BooksOK
  <2>3. c \in conns'[g] \/ (c[1] = a[1] /\ a \in conns'[g])
    BY <1>1, <2>2
  <2> QED
    BY <2>2, <2>3
<1>4. \A g \in Facilitator : \A b, c \in conns'[g] : b[1] = c[1] => b = c
  <2>1. ASSUME NEW g \in Facilitator, NEW b \in conns'[g], NEW c \in conns'[g], b[1] = c[1]
        PROVE  b = c
    <3>1. CASE g # f \/ (b # a /\ c # a)
      <4>1. b \in conns[g] /\ c \in conns[g]
        BY <1>1, <2>1, <3>1
      <4> QED
        BY <2>1, <4>1 DEF BooksOK
    <3>2. CASE g = f /\ (b = a \/ c = a)
      BY <1>1, <2>1, <3>2
    <3> QED
      BY <3>1, <3>2
  <2> QED
    BY <2>1
<1>5. /\ range' \in [Facilitator -> SUBSET Seeker]
      /\ overlaps' \in [Facilitator -> SUBSET Seeker]
      /\ hb' \in [Facilitator -> [Attempt -> Reporters]]
  BY DEF Store, BooksOK
<1> QED
  BY <1>2, <1>3, <1>4, <1>5 DEF BooksOK

\* Closing keeps the types.
LEMMA ClosesType ==
  ASSUME ServicesOK, NEW f \in Facilitator, NEW next \in {"select", "offer", "closed"},
         Closes(f, next), UNCHANGED <<books, told, game, faults, crash>>
  PROVE  ServicesOK'
<1> USE DEF books
<1>1. RunOK'
  <2>1. [At("closing") EXCEPT !.next = next] \in Place
    BY AtType DEF Place
  <2> QED
    BY <2>1, ServicesParts, GoesType DEF Closes
<1>2. BooksOK'
  <2>1. BooksOK /\ UNCHANGED <<conns, dial, hb, overlaps>>
    BY ServicesParts
  <2>2. Keys(f) \subseteq Seeker /\ \A p \in Keys(f) : \E a \in conns[f] : a[1] = p
    BY <2>1 DEF BooksOK, Keys, Attempt
  <2>3. /\ range' \in [Facilitator -> SUBSET Seeker]
        /\ \A g \in Facilitator : range'[g] = IF g = f THEN Keys(f) ELSE range[g]
    BY <2>1, <2>2 DEF Closes, BooksOK
  <2>4. \A g \in Facilitator : \A p \in range'[g] : \E a \in conns'[g] : a[1] = p
    BY <2>1, <2>2, <2>3 DEF BooksOK
  <2> QED
    BY <2>1, <2>3, <2>4 DEF BooksOK
<1>3. EndsOK'
  BY ServicesParts DEF Closes, EndsOK
<1> QED
  BY <1>1, <1>2, <1>3, ServicesParts DEF ServicesOK, RunOK, Place, Reporters, BooksOK, EndsOK

\* Every step of a service keeps the types: of the loop, the requests, the
\* heartbeats, and the facilitator's messages.
LEMMA ServicesType == ASSUME ServicesOK, NextServices PROVE ServicesOK'
<1> USE DEF books, ends
<1> SUFFICES ASSUME NEW f \in Facilitator,
                    \/ serve(f) \/ Facilitates(f) \/ MapRace(f)
                    \/ \E a \in Attempt : connect(f, a) \/ \E s \in {alive, dead} : Offer(f, a, s)
             PROVE  RunOK' /\ BooksOK' /\ EndsOK'
  BY ServicesParts DEF NextServices, ServicesOK, RunOK, Place, Reporters, BooksOK, EndsOK
<1>t. RunOK /\ BooksOK /\ EndsOK
  BY ServicesParts
<1>1. ASSUME NEW a \in Attempt, Receive(f, a) PROVE RunOK' /\ BooksOK' /\ EndsOK'
  <2> DEFINE is == hb[f][a].status
             pc == IF is = alive THEN "connect" ELSE "tell"
             to == [At(pc) EXCEPT !.on = {a}, !.status = is]
  <2>1. is \in {unknown, alive, dead}
    BY <1>t DEF BooksOK, Reporters
  <2>2. to \in Place
    <3>1. At(pc) \in Place
      BY AtType
    <3> QED
      BY <2>1, <3>1 DEF Place
  <2>3. RunOK'
    BY <1>1, <1>t, <2>2, GoesType DEF Receive
  <2>4. BooksOK'
    BY <1>1, <1>t, HeartbeatType DEF Receive, BooksOK
  <2>5. EndsOK'
    BY <1>1, <1>t DEF Receive, EndsOK
  <2> QED
    BY <2>3, <2>4, <2>5
<1>2. ASSUME GameConnect(f) PROVE RunOK' /\ BooksOK' /\ EndsOK'
  <2>1. [run[f] EXCEPT !.pc = "tell"] \in Place /\ At("select") \in Place
    BY <1>t, AtType DEF RunOK, Place
  <2>2. RunOK'
    BY <1>2, <1>t, <2>1, GoesType DEF GameConnect
  <2>3. BooksOK'
    BY <1>2, <1>t DEF GameConnect, BooksOK
  <2>4. Peers(f) \subseteq Seeker
    BY <1>t DEF RunOK, Place, Nobody, Peers, Attempt
  <2>5. EndsOK'
    BY <1>2, <1>t, <2>4, FaultType DEF GameConnect, EndsOK
  <2> QED
    BY <2>2, <2>3, <2>5
<1>3. ASSUME Tell(f) PROVE RunOK' /\ BooksOK' /\ EndsOK'
  <2>1. RunOK' /\ BooksOK'
    BY <1>3, <1>t, AtType, GoesType DEF Tell, BooksOK
  <2>2. run[f].status \in {unknown, alive, dead}
    BY <1>t DEF RunOK, Place
  <2>3. EndsOK'
    BY <1>3, <1>t, <2>2 DEF Tell, EndsOK
  <2> QED
    BY <2>1, <2>3
<1>4. ASSUME Ended(f) PROVE RunOK' /\ BooksOK' /\ EndsOK'
  BY <1>4, <1>t DEF Ended, RunOK, BooksOK, EndsOK
<1>5. ASSUME AllClosed(f) PROVE RunOK' /\ BooksOK' /\ EndsOK'
  <2>1. At(run[f].next) \in Place
    BY <1>t, AtType DEF RunOK, Place
  <2>2. RunOK'
    BY <1>5, <1>t, <2>1, GoesType DEF AllClosed
  <2>3. BooksOK' /\ EndsOK'
    BY <1>5, <1>t DEF AllClosed, BooksOK, EndsOK
  <2> QED
    BY <2>2, <2>3
<1>6. ASSUME NEW a \in Attempt, CloseOne(f, a) PROVE RunOK' /\ BooksOK' /\ EndsOK'
  <2>1. RunOK' /\ EndsOK'
    <3>1. [run[f] EXCEPT !.on = Nobody] \in Place
      BY <1>t DEF RunOK, Place
    <3> QED
      BY <1>6, <1>t, <3>1, GoesType DEF CloseOne, Deleted, EndsOK
  <2>2. hb' \in [Facilitator -> [Attempt -> Reporters]]
    BY <1>6, <1>t, HeartbeatType DEF CloseOne
  <2>3. BooksOK'
    BY <1>6, <1>t, <2>2, DeletedType DEF CloseOne, BooksOK
  <2> QED
    BY <2>1, <2>3
<1>7. ASSUME NEW a \in Attempt, Request(f, a) \/ Check(f, a) \/ Store(f, a)
      PROVE  RunOK' /\ BooksOK' /\ EndsOK'
  <2>1. RunOK' /\ EndsOK'
    BY <1>7, <1>t DEF Request, Check, Store, RunOK, EndsOK
  <2>2. CASE Request(f, a)
    BY <2>1, <2>2, <1>t DEF Request, BooksOK, Keys
  <2>3. CASE Check(f, a)
    <3>1. a[1] \in Seeker
      BY DEF Attempt
    <3> QED
      BY <2>1, <2>3, <3>1, <1>t DEF Check, BooksOK, Keys
  <2>4. CASE Store(f, a)
    BY <2>1, <2>4, <1>t, StoreType
  <2> QED
    BY <1>7, <2>2, <2>3, <2>4
<1>8. ASSUME NEW a \in Attempt, Dial(f, a) PROVE RunOK' /\ BooksOK' /\ EndsOK'
  <2>1. RunOK'
    BY <1>8, <1>t DEF Dial, RunOK
  <2>2. dial' \in [Facilitator -> [Attempt -> {"idle", "check", "dial", "store"}]]
    <3>1. \A to \in {"idle", "store"} :
            [dial EXCEPT ![f][a] = to]
              \in [Facilitator -> [Attempt -> {"idle", "check", "dial", "store"}]]
      BY <1>t DEF BooksOK
    <3> QED
      BY <1>8, <3>1 DEF Dial
  <2>3. [status |-> unknown, phase |-> "idle"] \in Reporters
    BY DEF Reporters
  <2>4. hb' \in [Facilitator -> [Attempt -> Reporters]]
    <3>1. hb \in [Facilitator -> [Attempt -> Reporters]]
      BY <1>t DEF BooksOK
    <3>2. [hb EXCEPT ![f][a] = [status |-> unknown, phase |-> "idle"]]
            \in [Facilitator -> [Attempt -> Reporters]]
      BY <1>t, <2>3, HeartbeatType
    <3> QED
      BY <1>8, <3>1, <3>2 DEF Dial
  <2>5. BooksOK'
    <3>1. UNCHANGED <<conns, range, overlaps>>
      BY <1>8 DEF Dial
    <3> QED
      BY <1>t, <2>2, <2>4, <3>1 DEF BooksOK
  <2>6. EndsOK'
    BY <1>8, <1>t, FaultType DEF Dial, EndsOK
  <2> QED
    BY <2>1, <2>5, <2>6
<1>9. ASSUME NEW chosen \in BOOLEAN, Finished(f, chosen) PROVE RunOK' /\ BooksOK' /\ EndsOK'
  <2>1. PICK next \in {"select", "offer", "closed"} :
          Closes(f, next) /\ UNCHANGED <<books, told, game, faults, crash>>
    BY <1>9 DEF Finished
  <2>2. ServicesOK'
    BY <2>1, ClosesType
  <2> QED
    BY <2>2 DEF ServicesOK, RunOK, Place, Reporters, BooksOK, EndsOK
<1>10. ASSUME Lose(f) PROVE RunOK' /\ BooksOK' /\ EndsOK'
  <2>1. RunOK' /\ BooksOK'
    BY <1>10, <1>t DEF Lose, RunOK, BooksOK
  <2>2. EndsOK'
    BY <1>10, <1>t, FaultType DEF Lose, EndsOK
  <2> QED
    BY <2>1, <2>2
<1>11. ASSUME NEW a \in Attempt, NEW s \in {alive, dead}, Offer(f, a, s)
       PROVE  RunOK' /\ BooksOK' /\ EndsOK'
  <2>1. RunOK' /\ BooksOK'
    <3>1. [status |-> s, phase |-> "sending"] \in Reporters
      BY DEF Reporters
    <3>2. hb' \in [Facilitator -> [Attempt -> Reporters]]
      BY <1>11, <1>t, <3>1, HeartbeatType DEF Offer
    <3> QED
      BY <1>11, <1>t, <3>2 DEF Offer, RunOK, BooksOK
  <2>2. EndsOK'
    BY <1>11, <1>t, FaultType DEF Offer, EndsOK
  <2> QED
    BY <2>1, <2>2
<1>12. ASSUME MapRace(f) PROVE RunOK' /\ BooksOK' /\ EndsOK'
  BY <1>12, <1>t DEF MapRace, Causes, RunOK, BooksOK, EndsOK
<1>13. ASSUME NEW a \in Attempt, Visit(f, a) PROVE RunOK' /\ BooksOK' /\ EndsOK'
  <2>1. [run[f] EXCEPT !.on = {a}] \in Place
    BY <1>t DEF RunOK, Place
  <2>2. RunOK'
    BY <1>13, <1>t, <2>1, GoesType DEF Visit
  <2> QED
    BY <1>13, <1>t, <2>2 DEF Visit, BooksOK, EndsOK, Keys
<1> QED
  BY <1>1, <1>2, <1>3, <1>4, <1>5, <1>6, <1>7, <1>8, <1>9, <1>10, <1>11, <1>12, <1>13
  DEF serve, connect, Facilitates

-----------------------------------------------------------------------------
\* The node's own part of the types.
NodeOK ==
  /\ node \in [pc : {"select", "full", "closeGather", "closeJoins", "waitJoin", "deliver"},
               left : SUBSET Facilitator]
  /\ joined \subseteq Facilitator /\ late \subseteq Facilitator
  /\ gather \in {"none", "running", "offering", "closed"}
  /\ user \in [pc : {"idle", "create", "store"}, at : {{}} \cup {{f} : f \in Facilitator}]
  /\ playing \in BOOLEAN

LEMMA NodeParts == TypeOK <=> ServicesOK /\ NodeOK
BY DEF TypeOK, NodeOK

nodeVars == <<node, joined, late, gather, user, playing>>

\* The types of the services hang on their variables alone.
LEMMA ServicesSame == ASSUME ServicesOK, UNCHANGED joinVars PROVE ServicesOK'
BY DEF ServicesOK, joinVars, books, ends

LEMMA ServicesCrash ==
  ASSUME ServicesOK, crash' \in Causes,
         UNCHANGED <<run, range, books, ends, game, faults>>
  PROVE  ServicesOK'
BY DEF ServicesOK, books, ends

LEMMA StartType == ASSUME ServicesOK, NEW f \in Facilitator, Start(f) PROVE ServicesOK'
<1>1. RunOK'
  BY ServicesParts, AtType, GoesType DEF Start
<1>2. BooksOK' /\ EndsOK'
  BY ServicesParts DEF Start, books, BooksOK, EndsOK
<1> QED
  BY <1>1, <1>2 DEF ServicesOK, RunOK, Place, Reporters, BooksOK, EndsOK

LEMMA GameTakenType == ASSUME ServicesOK, NEW f \in Facilitator, GameTaken(f) PROVE ServicesOK'
<1>1. RunOK'
  BY ServicesParts, AtType, GoesType DEF GameTaken
<1>2. BooksOK' /\ EndsOK'
  BY ServicesParts DEF GameTaken, books, ends, BooksOK, EndsOK
<1> QED
  BY <1>1, <1>2 DEF ServicesOK, RunOK, Place, Reporters, BooksOK, EndsOK

\* An error of JoinGatherPoint only counts as a fault.
LEMMA FailType ==
  ASSUME ServicesOK, Fault, UNCHANGED <<run, range, books, ends, game, crash>>
  PROVE  ServicesOK'
<1>1. faults' \in 0..MaxFaults
  BY FaultType DEF ServicesOK
<1> QED
  BY <1>1 DEF ServicesOK, books, ends

\* What the interface and readLoop do keeps the types.
LEMMA NodeStepType ==
  ASSUME ServicesOK, NodeOK, Next, ~Services
  PROVE  ServicesOK' /\ NodeOK'
<1>1. ASSUME NEW f \in Facilitator, Join(f) PROVE ServicesOK' /\ NodeOK'
  BY <1>1, ServicesSame DEF Join, NodeOK
<1>2. ASSUME Create PROVE ServicesOK' /\ NodeOK'
  <2>1. user.at \subseteq Facilitator
    BY DEF NodeOK
  <2>2. ServicesOK'
    BY <1>2, <2>1, StartType, FailType DEF Create
  <2>3. NodeOK'
    BY <1>2 DEF Create, NodeOK, NoOne
  <2> QED
    BY <2>2, <2>3
<1>3. ASSUME StoreJoin PROVE ServicesOK' /\ NodeOK'
  <2>1. user.at \subseteq Facilitator
    BY DEF NodeOK
  <2>2. node' \in [pc : {"select", "full", "closeGather", "closeJoins", "waitJoin", "deliver"},
                   left : SUBSET Facilitator]
    BY <1>3, <2>1 DEF StoreJoin, NodeOK
  <2> QED
    BY <1>3, <2>1, <2>2, ServicesSame DEF StoreJoin, NodeOK, NoOne
<1>4. ASSUME CreateGather \/ OwnGame \/ Full PROVE ServicesOK' /\ NodeOK'
  BY <1>4, ServicesSame DEF CreateGather, OwnGame, Full, NodeOK
<1>5. ASSUME JoinedRace PROVE ServicesOK' /\ NodeOK'
  BY <1>5, ServicesCrash DEF JoinedRace, Causes, NodeOK
<1>6. ASSUME NEW f \in Facilitator, TakeGame(f) PROVE ServicesOK' /\ NodeOK'
  BY <1>6, GameTakenType DEF TakeGame, NodeOK
<1>7. ASSUME TakeOwnGame \/ JoinClosed \/ ResetMap \/ Deliver PROVE ServicesOK' /\ NodeOK'
  BY <1>7, ServicesSame DEF TakeOwnGame, JoinClosed, ResetMap, Deliver, NodeOK
<1>8. ASSUME CloseGather PROVE ServicesOK' /\ NodeOK'
  <2>1. ServicesOK'
    BY <1>8, ServicesSame, ServicesCrash DEF CloseGather, Causes
  <2>2. NodeOK'
    BY <1>8 DEF CloseGather, NodeOK
  <2> QED
    BY <2>1, <2>2
<1>9. ASSUME NEW f \in Facilitator, CloseJoin(f) PROVE ServicesOK' /\ NodeOK'
  <2>1. ServicesOK'
    BY <1>9, ClosesType DEF CloseJoin, CloseTaken
  <2>2. NodeOK'
    BY <1>9 DEF CloseJoin, NodeOK
  <2> QED
    BY <2>1, <2>2
<1> QED
  BY <1>1, <1>2, <1>3, <1>4, <1>5, <1>6, <1>7, <1>8, <1>9 DEF Next, readLoop

LEMMA InitType == Init => TypeOK
<1> SUFFICES ASSUME Init PROVE ServicesOK /\ NodeOK
  BY NodeParts
<1>1. RunOK
  BY AtType DEF Init, InitServices, RunOK
<1>2. BooksOK
  BY DEF Init, InitServices, BooksOK, Reporters
<1>3. EndsOK
  BY BoundAssumption DEF Init, InitServices, EndsOK, Causes
<1>4. NodeOK
  BY DEF Init, NodeOK, NoOne
<1> QED
  BY <1>1, <1>2, <1>3, <1>4, ServicesParts

\* Whatever the user, readLoop, the services, the requests and the heartbeats
\* do in whatever order, every variable keeps its type.
THEOREM NodeType == Spec => []TypeOK
<1>1. TypeOK /\ [Next]_vars => TypeOK'
  <2> SUFFICES ASSUME ServicesOK, NodeOK, [Next]_vars PROVE ServicesOK' /\ NodeOK'
    BY NodeParts DEF TypeOK, NodeOK
  <2>1. CASE Services
    BY <2>1, ServicesType DEF Services, NodeOK
  <2>2. CASE Next /\ ~Services
    BY <2>2, NodeStepType
  <2>3. CASE UNCHANGED vars
    BY <2>3, ServicesSame DEF vars, NodeOK
  <2> QED
    BY <2>1, <2>2, <2>3
<1> QED
  BY <1>1, InitType, PTL DEF Spec

-----------------------------------------------------------------------------
\* Of what the node does to its services, nothing touches their books: it
\* starts them, takes their games and calls Close().
LEMMA NodeBooks == ASSUME Next, ~Services PROVE UNCHANGED books
BY DEF Next, readLoop, Join, Create, StoreJoin, CreateGather, OwnGame, Full,
       JoinedRace, TakeGame, TakeOwnGame, CloseGather, CloseJoin, JoinClosed,
       ResetMap, Deliver, Start, GameTaken, CloseTaken, joinVars, books

\* A step of a service leaves the books alone, or it is one of these.
LEMMA BookSteps ==
  ASSUME NEW f \in Facilitator,
         \/ serve(f) \/ Facilitates(f) \/ MapRace(f)
         \/ \E a \in Attempt : connect(f, a) \/ \E s \in {alive, dead} : Offer(f, a, s)
  PROVE  \/ UNCHANGED books
         \/ \E a \in Attempt : \/ Receive(f, a) \/ CloseOne(f, a) \/ Request(f, a)
                               \/ Check(f, a) \/ Dial(f, a) \/ Store(f, a)
                               \/ \E s \in {alive, dead} : Offer(f, a, s)
BY DEF serve, Facilitates, connect, MapRace, GameConnect, Tell, Ended, AllClosed,
       Visit, Finished, Lose, books

\* A heartbeat is known to js.conns, or about to be, or two requests for its
\* seeker overlapped.
Known(f, a) == a \in conns[f] \/ dial[f][a] = "store" \/ a[1] \in overlaps[f]

\* A request past its check is the only one for its seeker, for which there is
\* no heartbeat yet; and what the range visits was not replaced.
Alone(f, a) ==
  /\ dial[f][a] \in {"dial", "store"} =>
       \/ a[1] \in overlaps[f]
       \/ a[1] \notin Keys(f) /\ Dialling(f, a[1]) = {a}
  /\ run[f].pc = "closing" /\ a \in run[f].on => a \in conns[f] \/ a[1] \in overlaps[f]
  /\ hb[f][a].phase \in {"idle", "sending"} => Known(f, a)

AloneOK == \A f \in Facilitator : \A a \in Attempt : Alone(f, a)

\* The range of closeHeartbeats visits what is in js.conns.
LEMMA Visiting ==
  ASSUME RunOK, NodeOK, Next, NEW g \in Facilitator, run'[g].pc = "closing"
  PROVE  \/ run'[g].on = {}
         \/ run'[g].on = run[g].on /\ run[g].pc = "closing"
         \/ /\ \E a \in conns[g] : run'[g].on = {a}
            /\ UNCHANGED books
<1> USE DEF RunOK, Nobody
<1>1. CASE UNCHANGED run
  BY <1>1
<1>2. ASSUME NEW f \in Facilitator, NEW a \in Attempt,
             Receive(f, a) \/ Visit(f, a) \/ CloseOne(f, a)
      PROVE  \/ run'[g].on = {}
             \/ run'[g].on = run[g].on /\ run[g].pc = "closing"
             \/ (\E b \in conns[g] : run'[g].on = {b}) /\ UNCHANGED books
  <2>1. CASE Receive(f, a)
    <3>1. g # f
      BY <2>1 DEF Receive, Goes, At
    <3> QED
      BY <2>1, <3>1 DEF Receive, Goes
  <2>2. CASE Visit(f, a)
    BY <2>2 DEF Visit, Goes, Place
  <2>3. CASE CloseOne(f, a)
    BY <2>3 DEF CloseOne, Deleted, Goes, Place
  <2> QED
    BY <1>2, <2>1, <2>2, <2>3
<1>3. ASSUME NEW f \in Facilitator, NEW to, Goes(f, to), to.pc # "closing" \/ to.on = {}
      PROVE  run'[g].on = {} \/ (run'[g].on = run[g].on /\ run[g].pc = "closing")
  BY <1>3 DEF Goes
<1>4. ASSUME NEW f \in Facilitator,
             GameConnect(f) \/ Tell(f) \/ AllClosed(f) \/ GameTaken(f) \/ Start(f)
             \/ (\E next : Closes(f, next))
      PROVE  \E to : Goes(f, to) /\ (to.pc # "closing" \/ to.on = {})
  <2>1. CASE GameConnect(f)
    BY <2>1 DEF GameConnect, At, Place
  <2>2. CASE Tell(f) \/ AllClosed(f) \/ GameTaken(f) \/ Start(f)
    BY <2>2 DEF Tell, AllClosed, GameTaken, Start, At
  <2>3. CASE \E next : Closes(f, next)
    BY <2>3 DEF Closes, At
  <2> QED
    BY <1>4, <2>1, <2>2, <2>3
<1>5. \/ UNCHANGED run
      \/ \E f \in Facilitator : \E a \in Attempt : Receive(f, a) \/ Visit(f, a) \/ CloseOne(f, a)
      \/ \E f \in Facilitator :
           GameConnect(f) \/ Tell(f) \/ AllClosed(f) \/ GameTaken(f) \/ Start(f)
           \/ (\E next : Closes(f, next))
  <2>1. CASE Services
    <3> PICK f \in Facilitator :
          \/ serve(f) \/ Facilitates(f) \/ MapRace(f)
          \/ \E a \in Attempt : connect(f, a) \/ \E s \in {alive, dead} : Offer(f, a, s)
      BY <2>1 DEF Services, NextServices
    <3>1. CASE serve(f)
      BY <3>1 DEF serve, Ended
    <3>2. CASE Facilitates(f)
      BY <3>2 DEF Facilitates, Request, Finished, Lose
    <3>3. CASE \/ MapRace(f)
               \/ \E a \in Attempt : connect(f, a) \/ \E s \in {alive, dead} : Offer(f, a, s)
      BY <3>3 DEF connect, MapRace, Check, Dial, Store, Offer
    <3> QED
      BY <3>1, <3>2, <3>3
  <2>2. CASE ~Services
    <3>1. CASE readLoop
      BY <3>1 DEF readLoop, TakeGame, TakeOwnGame, CloseGather, CloseJoin, CloseTaken,
                  JoinClosed, ResetMap, Deliver, joinVars
    <3>2. CASE Create
      <4>1. user.at \subseteq Facilitator
        BY DEF NodeOK
      <4> QED
        BY <3>2, <4>1 DEF Create
    <3>3. CASE StoreJoin \/ CreateGather \/ OwnGame \/ Full \/ JoinedRace
               \/ \E f \in Facilitator : Join(f)
      BY <3>3 DEF Join, StoreJoin, CreateGather, OwnGame, Full, JoinedRace, joinVars
    <3> QED
      BY <2>2, <3>1, <3>2, <3>3 DEF Next
  <2> QED
    BY <2>1, <2>2
<1> QED
  BY <1>1, <1>2, <1>3, <1>4, <1>5

\* What the steps of the requests and the range do to the books; the loop keeps
\* its clause by Visiting.
LEMMA VisitedKnown ==
  ASSUME RunOK, NodeOK, AloneOK, Next, NEW g \in Facilitator, NEW b \in Attempt,
         run'[g].pc = "closing", b \in run'[g].on,
         b \in conns[g] => b \in conns'[g] \/ b[1] \in overlaps'[g],
         overlaps[g] \subseteq overlaps'[g]
  PROVE  b \in conns'[g] \/ b[1] \in overlaps'[g]
<1>1. CASE run'[g].on = run[g].on /\ run[g].pc = "closing"
  BY <1>1 DEF AloneOK, Alone
<1>2. CASE \E a \in conns[g] : run'[g].on = {a}
  BY <1>2
<1> QED
  BY <1>1, <1>2, Visiting

\* What a step of a request may be, by what it leaves.
Requested(f, a) ==
  /\ \A g \in Facilitator : \A b \in Attempt : ~(g = f /\ b = a) =>
       dial'[g][b] = dial[g][b] /\ hb'[g][b] = hb[g][b]
  /\ \A g \in Facilitator : overlaps[g] \subseteq overlaps'[g]
  /\ \A g \in Facilitator : g # f => conns'[g] = conns[g]
  /\ \/ /\ dial'[f][a] \in {"check", "idle"} /\ dial[f][a] \in {"idle", "check", "dial"}
        /\ conns'[f] = conns[f] /\ hb'[f][a] = hb[f][a]
     \/ /\ dial[f][a] = "check" /\ dial'[f][a] = "dial"
        /\ conns'[f] = conns[f] /\ hb'[f][a] = hb[f][a]
        /\ a[1] \notin Keys(f)
        /\ a[1] \in overlaps'[f] \/ Dialling(f, a[1]) = {}
     \/ /\ dial[f][a] = "dial" /\ dial'[f][a] = "store"
        /\ conns'[f] = conns[f]
     \/ /\ dial[f][a] = "store" /\ dial'[f][a] = "idle"
        /\ conns'[f] = {b \in conns[f] : b[1] # a[1]} \cup {a}
        /\ hb'[f][a] = hb[f][a]

LEMMA RequestSteps ==
  ASSUME BooksOK, NEW f \in Facilitator, NEW a \in Attempt,
         Request(f, a) \/ Check(f, a) \/ Dial(f, a) \/ Store(f, a)
  PROVE  Requested(f, a)
<1> USE DEF BooksOK
<1>1. CASE Request(f, a)
  BY <1>1 DEF Request, Free, Requested
<1>2. CASE Check(f, a)
  <2>1. /\ \A g \in Facilitator : \A b \in Attempt : ~(g = f /\ b = a) =>
             dial'[g][b] = dial[g][b]
        /\ dial[f][a] = "check"
        /\ dial'[f][a] = IF a[1] \in Keys(f) THEN "idle" ELSE "dial"
        /\ UNCHANGED <<conns, hb>>
    BY <1>2 DEF Check
  <2>2. /\ \A g \in Facilitator : overlaps[g] \subseteq overlaps'[g]
        /\ a[1] \notin Keys(f) => a[1] \in overlaps'[f] \/ Dialling(f, a[1]) = {}
    BY <1>2 DEF Check
  <2> QED
    BY <2>1, <2>2 DEF Requested
<1>3. CASE Dial(f, a)
  <2>1. /\ \A g \in Facilitator : \A b \in Attempt : ~(g = f /\ b = a) =>
             dial'[g][b] = dial[g][b] /\ hb'[g][b] = hb[g][b]
        /\ dial[f][a] = "dial"
        /\ dial'[f][a] = "store" \/ (dial'[f][a] = "idle" /\ hb'[f][a] = hb[f][a])
        /\ UNCHANGED <<conns, overlaps>>
    BY <1>3 DEF Dial
  <2> QED
    BY <2>1 DEF Requested
<1>4. CASE Store(f, a)
  <2>1. /\ \A g \in Facilitator : \A b \in Attempt : ~(g = f /\ b = a) =>
             dial'[g][b] = dial[g][b]
        /\ dial[f][a] = "store" /\ dial'[f][a] = "idle"
        /\ UNCHANGED <<hb, overlaps>>
    BY <1>4 DEF Store
  <2>2. /\ \A g \in Facilitator : g # f => conns'[g] = conns[g]
        /\ conns'[f] = {b \in conns[f] : b[1] # a[1]} \cup {a}
    BY <1>4 DEF Store
  <2> QED
    BY <2>1, <2>2 DEF Requested
<1> QED
  BY <1>1, <1>2, <1>3, <1>4

\* Who checks while another one dials makes their seeker one of overlaps; so
\* what a store replaces is of one of these.
LEMMA RequestAlone ==
  ASSUME AloneOK, NEW f \in Facilitator, NEW a \in Attempt, Requested(f, a), run' = run,
         NEW g \in Facilitator, NEW b \in Attempt
  PROVE  Alone(g, b)'
<1>h. Alone(g, b) /\ Alone(f, a)
  BY DEF AloneOK
<1>1. CASE g # f
  BY <1>1, <1>h DEF Requested, Alone, Known, Keys, Dialling
<1>2. CASE g = f /\ b[1] # a[1]
  <2>1. /\ dial'[g][b] = dial[g][b] /\ hb'[g][b] = hb[g][b]
        /\ overlaps[g] \subseteq overlaps'[g]
        /\ b \in conns[g] <=> b \in conns'[g]
        /\ Dialling(g, b[1])' = Dialling(g, b[1])
    BY <1>2 DEF Requested, Dialling
  <2>2. b[1] \in Keys(g)' => b[1] \in Keys(g)
    BY <1>2 DEF Requested, Keys
  <2> QED
    BY <1>h, <2>1, <2>2 DEF Alone, Known
<1>3. CASE g = f /\ b[1] = a[1] /\ a[1] \in overlaps'[f]
  BY <1>3 DEF Alone, Known
<1>4. ASSUME g = f, b[1] = a[1], a[1] \notin overlaps'[f] PROVE Alone(g, b)'
  <2>o. a[1] \notin overlaps[f]
    BY <1>4 DEF Requested
  <2>1. CASE /\ dial'[f][a] \in {"check", "idle"} /\ dial[f][a] \in {"idle", "check", "dial"}
             /\ conns'[f] = conns[f] /\ hb'[f][a] = hb[f][a]
    <3>1. Keys(f)' = Keys(f)
      BY <2>1 DEF Keys
    <3>2. ASSUME dial'[f][b] \in {"dial", "store"}
          PROVE  b[1] \notin Keys(f) /\ Dialling(f, b[1])' = {b}
      <4>1. b # a /\ dial[f][b] \in {"dial", "store"}
        BY <2>1, <3>2 DEF Requested
      <4>2. b[1] \notin Keys(f) /\ Dialling(f, b[1]) = {b}
        BY <4>1, <1>4, <2>o, <1>h DEF Alone
      <4> QED
        BY <4>1, <4>2, <2>1 DEF Requested, Dialling
    <3>3. hb'[f][b] = hb[f][b] /\ (dial[f][b] = "store" => dial'[f][b] = "store")
      BY <2>1 DEF Requested
    <3> QED
      BY <1>4, <1>h, <2>o, <2>1, <3>1, <3>2, <3>3 DEF Alone, Known
  <2>2. CASE /\ dial[f][a] = "check" /\ dial'[f][a] = "dial"
             /\ conns'[f] = conns[f] /\ hb'[f][a] = hb[f][a]
             /\ a[1] \notin Keys(f) /\ Dialling(f, a[1]) = {}
    <3>1. Keys(f)' = Keys(f)
      BY <2>2 DEF Keys
    <3>2. Dialling(f, b[1])' = {a}
      BY <1>4, <2>2 DEF Requested, Dialling
    <3>3. dial'[f][b] \in {"dial", "store"} => b = a
      BY <1>4, <3>2 DEF Dialling
    <3>4. hb'[f][b] = hb[f][b] /\ (dial[f][b] = "store" => dial'[f][b] = "store")
      BY <2>2 DEF Requested
    <3> QED
      BY <1>4, <1>h, <2>o, <2>2, <3>1, <3>2, <3>3, <3>4 DEF Alone, Known
  <2>3. CASE dial[f][a] = "dial" /\ dial'[f][a] = "store" /\ conns'[f] = conns[f]
    <3>1. Keys(f)' = Keys(f)
      BY <2>3 DEF Keys
    <3>2. a[1] \notin Keys(f) /\ Dialling(f, a[1]) = {a}
      BY <1>h, <2>3, <2>o DEF Alone
    <3>3. Dialling(f, a[1])' = {a}
      BY <2>3, <3>2 DEF Requested, Dialling
    <3>4. dial'[f][b] \in {"dial", "store"} => b = a
      BY <1>4, <3>3 DEF Dialling
    <3>5. b # a => hb'[f][b] = hb[f][b] /\ dial'[f][b] = dial[f][b]
      BY DEF Requested
    <3> QED
      BY <1>4, <1>h, <2>o, <2>3, <3>1, <3>2, <3>3, <3>4, <3>5 DEF Alone, Known
  <2>4. CASE /\ dial[f][a] = "store" /\ dial'[f][a] = "idle"
             /\ conns'[f] = {c \in conns[f] : c[1] # a[1]} \cup {a}
             /\ hb'[f][a] = hb[f][a]
    <3>1. a[1] \notin Keys(f) /\ Dialling(f, a[1]) = {a}
      BY <1>h, <2>4, <2>o DEF Alone
    <3>2. \A c \in conns[f] : c[1] # a[1]
      BY <3>1 DEF Keys
    <3>3. dial'[f][b] \notin {"dial", "store"}
      <4>1. CASE b = a
        BY <2>4, <4>1
      <4>2. CASE b # a
        BY <1>4, <3>1, <4>2 DEF Requested, Dialling
      <4> QED
        BY <4>1, <4>2
    <3>4. b \in conns[f] => b \in conns'[f]
      BY <2>4, <3>2
    <3>5. b # a => hb'[f][b] = hb[f][b] /\ dial'[f][b] = dial[f][b]
      BY DEF Requested
    <3> QED
      BY <1>4, <1>h, <2>o, <2>4, <3>3, <3>4, <3>5 DEF Alone, Known
  <2> QED
    BY <1>4, <2>1, <2>2, <2>3, <2>4 DEF Requested
<1> QED
  BY <1>1, <1>2, <1>3, <1>4

\* A step of a service keeps it.
LEMMA AloneStep ==
  ASSUME RunOK, BooksOK, NodeOK, AloneOK, Next, Services
  PROVE  AloneOK'
<1> PICK f \in Facilitator :
      \/ serve(f) \/ Facilitates(f) \/ MapRace(f)
      \/ \E a \in Attempt : connect(f, a) \/ \E s \in {alive, dead} : Offer(f, a, s)
  BY DEF Services, NextServices
<1> SUFFICES ASSUME NEW g \in Facilitator, NEW b \in Attempt PROVE Alone(g, b)'
  BY DEF AloneOK
<1>h. Alone(g, b)
  BY DEF AloneOK
<1>1. CASE UNCHANGED books
  <2>1. run'[g].pc = "closing" /\ b \in run'[g].on => b \in conns[g] \/ b[1] \in overlaps[g]
    BY <1>1, VisitedKnown DEF books
  <2> QED
    BY <1>1, <1>h, <2>1 DEF books, Alone, Known, Keys, Dialling
<1>2. ASSUME NEW a \in Attempt, Receive(f, a) \/ \E s \in {alive, dead} : Offer(f, a, s)
      PROVE  Alone(g, b)'
  <2>1. UNCHANGED <<conns, dial, overlaps>> /\ hb[f][a].phase \in {"idle", "sending"}
    BY <1>2 DEF Receive, Offer
  <2>2. ~(g = f /\ b = a) => hb'[g][b] = hb[g][b]
    BY <1>2 DEF Receive, Offer, BooksOK
  <2>3. run'[g].pc = "closing" /\ b \in run'[g].on => b \in conns[g] \/ b[1] \in overlaps[g]
    BY <2>1, VisitedKnown
  <2> QED
    BY <1>h, <2>1, <2>2, <2>3 DEF Alone, Known, Keys, Dialling
<1>3. ASSUME NEW a \in Attempt, CloseOne(f, a) PROVE Alone(g, b)'
  <2>1. /\ UNCHANGED <<dial, overlaps>>
        /\ run[f].pc = "closing" /\ run[f].on = {a}
        /\ \A h \in Facilitator :
             conns'[h] = IF h = f THEN {c \in conns[h] : c[1] # a[1]} ELSE conns[h]
    BY <1>3 DEF CloseOne, Deleted, BooksOK
  <2>2. /\ ~(g = f /\ b = a) => hb'[g][b] = hb[g][b]
        /\ hb'[f][a].phase = "closed"
    BY <1>3 DEF CloseOne, BooksOK, Reporters
  <2>3. a \in conns[f] \/ a[1] \in overlaps[f]
    BY <2>1 DEF AloneOK, Alone
  <2>4. b \in conns[g] /\ ~(g = f /\ b = a) => b \in conns'[g] \/ b[1] \in overlaps[g]
    <3>1. CASE g # f \/ b[1] # a[1]
      BY <2>1, <3>1
    <3>2. ASSUME g = f, b[1] = a[1], b \in conns[f], a \in conns[f] PROVE b = a
      BY <3>2 DEF BooksOK
    <3> QED
      BY <2>3, <3>1, <3>2
  <2>5. run'[g].pc = "closing" /\ b \in run'[g].on => b \in conns'[g] \/ b[1] \in overlaps[g]
    <3>1. CASE g = f
      BY <1>3, <3>1 DEF CloseOne, Deleted, Goes, RunOK, Place, Nobody
    <3>2. CASE g # f
      BY <2>1, <2>4, <3>2, VisitedKnown
    <3> QED
      BY <3>1, <3>2
  <2>6. Keys(g)' \subseteq Keys(g)
    BY <2>1 DEF Keys
  <2>7. Dialling(g, b[1])' = Dialling(g, b[1])
    BY <2>1 DEF Dialling
  <2> QED
    BY <1>h, <2>1, <2>2, <2>4, <2>5, <2>6, <2>7 DEF Alone, Known
<1>4. ASSUME NEW a \in Attempt, Request(f, a) \/ Check(f, a) \/ Dial(f, a) \/ Store(f, a)
      PROVE  Alone(g, b)'
  <2>1. Requested(f, a)
    BY <1>4, RequestSteps
  <2>2. run' = run
    BY <1>4 DEF Request, Check, Dial, Store
  <2> QED
    BY <1>h, <2>1, <2>2, RequestAlone DEF AloneOK
<1> QED
  BY <1>1, <1>2, <1>3, <1>4, BookSteps

\* However requests, deaths of seekers and the two calls of closeHeartbeats
\* fall together, a heartbeat that still pings is in js.conns, for the next
\* closeHeartbeats to close, or its goroutine is about to store it, or two
\* requests dialled its seeker at once.
THEOREM NodeHeartbeats == Spec => []HeartbeatsEnd
<1>1. Init => AloneOK
  BY DEF Init, InitServices, At, AloneOK, Alone
<1>2. TypeOK /\ AloneOK /\ [Next]_vars => AloneOK'
  <2> SUFFICES ASSUME RunOK, BooksOK, NodeOK, AloneOK, [Next]_vars PROVE AloneOK'
    BY NodeParts, ServicesParts
  <2>1. CASE Next /\ Services
    BY <2>1, AloneStep
  <2>2. CASE Next /\ ~Services
    <3>1. UNCHANGED books
      BY <2>2, NodeBooks
    <3>2. ASSUME NEW g \in Facilitator, NEW b \in Attempt,
                 run'[g].pc = "closing", b \in run'[g].on
          PROVE  b \in conns[g] \/ b[1] \in overlaps[g]
      BY <2>2, <3>1, <3>2, VisitedKnown DEF books
    <3> QED
      BY <3>1, <3>2 DEF books, AloneOK, Alone, Known, Keys, Dialling
  <2>3. CASE UNCHANGED vars
    BY <2>3 DEF vars, joinVars, books, AloneOK, Alone, Known, Keys, Dialling
  <2> QED
    BY <2>1, <2>2, <2>3
<1>3. AloneOK => HeartbeatsEnd
  BY DEF AloneOK, Alone, Known, HeartbeatsEnd
<1> QED
  BY <1>1, <1>2, <1>3, NodeType, PTL DEF Spec

-----------------------------------------------------------------------------
\* What holds between a service's loop, what its facilitator was told and the
\* game: a claim is about a seeker that was asked for, and about a player of the
\* game, unless the loop works on that seeker and has not only begun to.
LinkOK(f, p) ==
  LET at == run[f]
      open == stream[f] = "open"
  IN /\ told[f][p] = alive \/ (p \in Peers(f) /\ at.pc # "closing") => p \in SeekersOf[f]
     /\ told[f][p] = alive /\ open /\ (p \notin Peers(f) \/ at.pc = "connect") => p \in game
     /\ at.pc = "tell" /\ p \in Peers(f) /\ at.status = alive => p \in game

\* The loop works on a heartbeat in three places only, and closes its heartbeats
\* when its stream is closed; a service not yet started has told nobody.
LoopOK(f) ==
  /\ run[f].on # {} => run[f].pc \in {"connect", "tell", "closing"}
  /\ run[f].pc = "closing" => stream[f] = "closed"
  /\ run[f].pc = "absent" => \A p \in Seeker : told[f][p] = unknown

\* Requests and heartbeats are for seekers that the facilitator asked for.
AskedOK(f, a) ==
  dial[f][a] # "idle" \/ hb[f][a].phase \in {"idle", "sending"} => a[1] \in SeekersOf[f]

ServiceOK(f) == LoopOK(f) /\ \A p \in Seeker : LinkOK(f, p)

LinksOK == \A f \in Facilitator : ServiceOK(f)
AllAsked == \A f \in Facilitator : \A a \in Attempt : AskedOK(f, a)

\* A gather point is joined before it has a service.
UserOK == user.pc = "create" => \A f \in user.at : run[f].pc = "absent"

\* What a step leaves alone stays so; the game may gain players.
LEMMA ServiceFrame ==
  ASSUME NEW f \in Facilitator, ServiceOK(f),
         run'[f] = run[f], stream'[f] = stream[f], told'[f] = told[f], game \subseteq game'
  PROVE  ServiceOK(f)'
BY DEF ServiceOK, LoopOK, LinkOK, Peers

\* No two facilitators send this node to the same seeker.
Apart == \A f, g \in Facilitator : f # g => SeekersOf[f] \cap SeekersOf[g] = {}

\* Each step of a service keeps its own links and loop, and those of the
\* others; only the death of a seeker takes a player from the game, and that
\* seeker is nobody else's.
LEMMA ReceiveLinks ==
  ASSUME TypeOK, LinksOK, AllAsked, Apart,
         NEW f \in Facilitator, NEW a \in Attempt, Receive(f, a)
  PROVE  LinksOK'
<1>t. RunOK /\ BooksOK /\ EndsOK
  BY NodeParts, ServicesParts
<1>l. \A g \in Facilitator : LoopOK(g) /\ \A q \in Seeker : LinkOK(g, q)
  BY DEF LinksOK, ServiceOK
<1>r. run[f] \in Place /\ run[f].pc = "select" /\ run[f].on = {}
  BY <1>t, <1>l DEF Receive, RunOK, LoopOK
<1>a. a[1] \in SeekersOf[f] /\ a[1] \in Seeker
  BY DEF Receive, AllAsked, AskedOK, Attempt
<1>1. /\ \A g \in Facilitator : g # f => run'[g] = run[g]
      /\ run'[f].pc = (IF hb[f][a].status = alive THEN "connect" ELSE "tell")
      /\ run'[f].on = {a} /\ run'[f].status = hb[f][a].status
  BY <1>t DEF Receive, Goes, RunOK, At
<1>2. UNCHANGED <<stream, told>>
  BY DEF Receive, ends
<1>3. /\ \A q \in Seeker : q # a[1] => (q \in game <=> q \in game')
      /\ hb[f][a].status # dead => game' = game
  BY DEF Receive
<1>4. Peers(f) = {} /\ Peers(f)' = {a[1]} /\ \A g \in Facilitator : g # f => Peers(g)' = Peers(g)
  BY <1>r, <1>1 DEF Peers
<1>5. ASSUME NEW g \in Facilitator, g # f PROVE ServiceOK(g)'
  <2>1. LoopOK(g)'
    BY <1>1, <1>2, <1>5, <1>l DEF LoopOK
  <2>2. ASSUME NEW q \in Seeker PROVE LinkOK(g, q)'
    <3>1. CASE q # a[1]
      BY <1>1, <1>2, <1>3, <1>4, <1>5, <1>l, <3>1 DEF LinkOK
    <3>2. CASE q = a[1]
      <4>1. q \notin SeekersOf[g]
        BY <1>5, <1>a, <3>2 DEF Apart
      <4>2. told[g][q] # alive /\ (q \in Peers(g) => run[g].pc = "closing")
        BY <1>l, <4>1 DEF LinkOK
      <4> QED
        BY <1>1, <1>2, <1>4, <1>5, <4>2 DEF LinkOK
    <3> QED
      BY <3>1, <3>2
  <2> QED
    BY <2>1, <2>2 DEF ServiceOK
<1>6. LoopOK(f)'
  BY <1>1, <1>2 DEF LoopOK
<1>7. ASSUME NEW q \in Seeker PROVE LinkOK(f, q)'
  <2>1. LinkOK(f, q)
    BY <1>l
  <2>2. CASE q # a[1]
    BY <1>1, <1>2, <1>3, <1>4, <1>r, <2>1, <2>2 DEF LinkOK
  <2>3. CASE q = a[1]
    BY <1>1, <1>2, <1>3, <1>4, <1>r, <1>a, <2>1, <2>3, KnownAssumption DEF LinkOK
  <2> QED
    BY <2>2, <2>3
<1> QED
  BY <1>5, <1>6, <1>7 DEF LinksOK, ServiceOK

LEMMA GameConnectLinks ==
  ASSUME TypeOK, LinksOK, NEW f \in Facilitator, GameConnect(f)
  PROVE  LinksOK'
<1>t. RunOK /\ BooksOK /\ EndsOK
  BY NodeParts, ServicesParts
<1>l. LoopOK(f) /\ \A q \in Seeker : LinkOK(f, q)
  BY DEF LinksOK, ServiceOK
<1>r. run[f] \in Place /\ run[f].pc = "connect"
  BY <1>t DEF GameConnect, RunOK
<1>1. UNCHANGED <<stream, told>> /\ game \subseteq game'
  BY DEF GameConnect, ends
<1>2. \A g \in Facilitator : g # f => run'[g] = run[g]
  BY <1>t DEF GameConnect, Goes, RunOK
<1>3. \/ /\ game' = game \cup Peers(f)
         /\ run'[f].pc = "tell" /\ run'[f].on = run[f].on /\ run'[f].status = run[f].status
      \/ /\ run'[f].pc = "select" /\ run'[f].on = {}
         /\ game' = game
  BY <1>t, <1>r DEF GameConnect, Goes, RunOK, At, Nobody, Place
<1>4. ASSUME NEW g \in Facilitator, g # f PROVE ServiceOK(g)'
  BY <1>1, <1>2, <1>4, ServiceFrame DEF LinksOK
<1>5. LoopOK(f)'
  BY <1>1, <1>3, <1>r, <1>l DEF LoopOK
<1>6. ASSUME NEW q \in Seeker PROVE LinkOK(f, q)'
  <2>1. LinkOK(f, q)
    BY <1>l
  <2>2. Peers(f)' = Peers(f) \/ Peers(f)' = {}
    BY <1>3 DEF Peers
  <2>3. run'[f].pc = "tell" => Peers(f)' = Peers(f)
    BY <1>3 DEF Peers
  <2> QED
    BY <1>1, <1>3, <1>r, <2>1, <2>2, <2>3 DEF LinkOK
<1> QED
  BY <1>4, <1>5, <1>6 DEF LinksOK, ServiceOK

LEMMA TellLinks ==
  ASSUME TypeOK, LinksOK, NEW f \in Facilitator, Tell(f)
  PROVE  LinksOK'
<1>t. RunOK /\ BooksOK /\ EndsOK
  BY NodeParts, ServicesParts
<1>l. LoopOK(f) /\ \A q \in Seeker : LinkOK(f, q)
  BY DEF LinksOK, ServiceOK
<1>r. run[f] \in Place /\ run[f].pc = "tell"
  BY <1>t DEF Tell, RunOK
<1>1. UNCHANGED <<stream, game>>
  BY DEF Tell
<1>2. /\ \A g \in Facilitator : g # f => run'[g] = run[g]
      /\ run'[f].pc = "select" /\ run'[f].on = {}
  BY <1>t DEF Tell, Goes, RunOK, At, Nobody
<1>3. \A g \in Facilitator : g # f => told'[g] = told[g]
  BY <1>t DEF Tell, EndsOK
<1>4. stream[f] # "open" => told' = told
  BY DEF Tell
<1>5. stream[f] = "open" => \A q \in Seeker :
        told'[f][q] = IF q \in Peers(f) THEN run[f].status ELSE told[f][q]
  BY <1>t DEF Tell, EndsOK
<1>6. ASSUME NEW g \in Facilitator, g # f PROVE ServiceOK(g)'
  BY <1>1, <1>2, <1>3, <1>6, ServiceFrame DEF LinksOK
<1>7. LoopOK(f)'
  BY <1>1, <1>2, <1>r, <1>l DEF LoopOK
<1>8. ASSUME NEW q \in Seeker PROVE LinkOK(f, q)'
  <2>1. LinkOK(f, q) /\ Peers(f)' = {}
    BY <1>l, <1>2 DEF Peers
  <2>2. CASE stream[f] = "open" /\ q \in Peers(f)
    BY <1>1, <1>2, <1>5, <1>r, <2>1, <2>2 DEF LinkOK
  <2>3. CASE told'[f][q] = told[f][q] /\ (stream[f] # "open" \/ q \notin Peers(f))
    BY <1>1, <1>2, <1>r, <2>1, <2>3 DEF LinkOK
  <2> QED
    BY <1>4, <1>5, <2>2, <2>3
<1> QED
  BY <1>6, <1>7, <1>8 DEF LinksOK, ServiceOK

\* The steps of the loop that work on no seeker: the end of closeHeartbeats,
\* and the game taken by the node.
LEMMA LoopLinks ==
  ASSUME TypeOK, LinksOK, NEW f \in Facilitator, AllClosed(f) \/ GameTaken(f)
  PROVE  LinksOK'
<1>t. RunOK /\ BooksOK /\ EndsOK
  BY NodeParts, ServicesParts
<1>l. LoopOK(f) /\ \A q \in Seeker : LinkOK(f, q)
  BY DEF LinksOK, ServiceOK
<1>r. run[f] \in Place /\ run[f].pc \in {"closing", "offer"} /\ run[f].on = {}
  BY <1>t, <1>l DEF AllClosed, GameTaken, RunOK, LoopOK, Nobody
<1>1. UNCHANGED <<stream, told, game>>
  BY DEF AllClosed, GameTaken, ends
<1>2. /\ \A g \in Facilitator : g # f => run'[g] = run[g]
      /\ run'[f].pc \in {"select", "offer", "closed"} /\ run'[f].on = {}
  BY <1>t, <1>r DEF AllClosed, GameTaken, Goes, RunOK, At, Nobody, Place
<1>3. ASSUME NEW g \in Facilitator, g # f PROVE ServiceOK(g)'
  BY <1>1, <1>2, <1>3, ServiceFrame DEF LinksOK
<1>4. LoopOK(f)'
  BY <1>2 DEF LoopOK
<1>5. ASSUME NEW q \in Seeker PROVE LinkOK(f, q)'
  <2>1. Peers(f) = {} /\ Peers(f)' = {}
    BY <1>r, <1>2 DEF Peers
  <2> QED
    BY <1>1, <1>2, <1>r, <1>l, <2>1 DEF LinkOK
<1> QED
  BY <1>3, <1>4, <1>5 DEF LinksOK, ServiceOK

\* Closing starts with an idle loop, and takes the stream away.
LEMMA ClosesLinks ==
  ASSUME TypeOK, LinksOK, NEW f \in Facilitator, NEW next \in {"select", "offer", "closed"},
         run[f].pc = "select", Closes(f, next),
         UNCHANGED <<books, told, game, faults, crash>>
  PROVE  LinksOK'
<1>t. RunOK /\ BooksOK /\ EndsOK
  BY NodeParts, ServicesParts
<1>l. LoopOK(f) /\ \A q \in Seeker : LinkOK(f, q)
  BY DEF LinksOK, ServiceOK
<1>1. /\ \A g \in Facilitator : g # f => run'[g] = run[g] /\ stream'[g] = stream[g]
      /\ run'[f].pc = "closing" /\ run'[f].on = {} /\ stream'[f] = "closed"
  BY <1>t DEF Closes, Goes, RunOK, EndsOK, At, Nobody
<1>2. ASSUME NEW g \in Facilitator, g # f PROVE ServiceOK(g)'
  BY <1>1, <1>2, ServiceFrame DEF LinksOK
<1>3. LoopOK(f)'
  BY <1>1 DEF LoopOK
<1>4. ASSUME NEW q \in Seeker PROVE LinkOK(f, q)'
  BY <1>1, <1>l DEF LinkOK, Peers
<1> QED
  BY <1>2, <1>3, <1>4 DEF LinksOK, ServiceOK

\* The range visits and closes heartbeats when the stream is closed already.
LEMMA RangeLinks ==
  ASSUME TypeOK, LinksOK, NEW f \in Facilitator, NEW a \in Attempt,
         Visit(f, a) \/ CloseOne(f, a)
  PROVE  LinksOK'
<1>t. RunOK /\ BooksOK /\ EndsOK
  BY NodeParts, ServicesParts
<1>l. LoopOK(f) /\ \A q \in Seeker : LinkOK(f, q)
  BY DEF LinksOK, ServiceOK
<1>1. UNCHANGED <<stream, told, game>>
  BY DEF Visit, CloseOne, Deleted, ends
<1>2. /\ \A g \in Facilitator : g # f => run'[g] = run[g]
      /\ run[f].pc = "closing" /\ run'[f].pc = "closing"
  BY <1>t DEF Visit, CloseOne, Deleted, Goes, RunOK, Place
<1>3. ASSUME NEW g \in Facilitator, g # f PROVE ServiceOK(g)'
  BY <1>1, <1>2, <1>3, ServiceFrame DEF LinksOK
<1>4. LoopOK(f)'
  BY <1>1, <1>2, <1>l DEF LoopOK
<1>5. stream[f] = "closed"
  BY <1>2, <1>l DEF LoopOK
<1>6. ASSUME NEW q \in Seeker PROVE LinkOK(f, q)'
  BY <1>1, <1>2, <1>5, <1>l DEF LinkOK
<1> QED
  BY <1>3, <1>4, <1>6 DEF LinksOK, ServiceOK

\* A stream that is lost or closed claims nothing any more.
LEMMA StreamLinks ==
  ASSUME TypeOK, LinksOK, NEW f \in Facilitator, Ended(f) \/ Lose(f)
  PROVE  LinksOK'
<1>t. RunOK /\ BooksOK /\ EndsOK
  BY NodeParts, ServicesParts
<1>l. LoopOK(f) /\ \A q \in Seeker : LinkOK(f, q)
  BY DEF LinksOK, ServiceOK
<1>1. UNCHANGED <<run, told, game>>
  BY DEF Ended, Lose
<1>2. /\ \A g \in Facilitator : g # f => stream'[g] = stream[g]
      /\ stream[f] \in {"open", "lost"}
      /\ stream'[f] \in {"lost", "closed"}
  BY <1>t DEF Ended, Lose, EndsOK
<1>3. ASSUME NEW g \in Facilitator, g # f PROVE ServiceOK(g)'
  BY <1>1, <1>2, <1>3, ServiceFrame DEF LinksOK
<1>4. LoopOK(f)'
  BY <1>1, <1>2, <1>l DEF LoopOK
<1>5. ASSUME NEW q \in Seeker PROVE LinkOK(f, q)'
  BY <1>1, <1>2, <1>l DEF LinkOK, Peers
<1> QED
  BY <1>3, <1>4, <1>5 DEF LinksOK, ServiceOK

\* A service that starts has told nobody anything.
LEMMA StartLinks ==
  ASSUME TypeOK, LinksOK, NEW f \in Facilitator, run[f].pc = "absent", Start(f)
  PROVE  LinksOK'
<1>t. RunOK /\ BooksOK /\ EndsOK
  BY NodeParts, ServicesParts
<1>l. LoopOK(f) /\ \A q \in Seeker : LinkOK(f, q)
  BY DEF LinksOK, ServiceOK
<1>1. UNCHANGED <<told, game>>
  BY DEF Start
<1>2. /\ \A g \in Facilitator : g # f => run'[g] = run[g] /\ stream'[g] = stream[g]
      /\ run'[f].pc = "select" /\ run'[f].on = {}
  BY <1>t DEF Start, Goes, RunOK, EndsOK, At, Nobody
<1>3. ASSUME NEW g \in Facilitator, g # f PROVE ServiceOK(g)'
  BY <1>1, <1>2, <1>3, ServiceFrame DEF LinksOK
<1>4. LoopOK(f)'
  BY <1>1, <1>2, <1>l DEF LoopOK
<1>5. ASSUME NEW q \in Seeker PROVE LinkOK(f, q)'
  <2>1. told[f][q] = unknown
    BY <1>l DEF LoopOK
  <2> QED
    BY <1>1, <1>2, <2>1, KnownAssumption DEF LinkOK, Peers
<1> QED
  BY <1>3, <1>4, <1>5 DEF LinksOK, ServiceOK

-----------------------------------------------------------------------------
\* What a step leaves of loops, streams and the game keeps the links.
LEMMA LinksSame ==
  ASSUME LinksOK, UNCHANGED <<run, stream, told, game>>
  PROVE  LinksOK'
BY DEF LinksOK, ServiceOK, LoopOK, LinkOK, Peers

LEMMA ServicesLinks ==
  ASSUME TypeOK, LinksOK, AllAsked, Apart, NextServices
  PROVE  LinksOK'
<1> PICK f \in Facilitator :
      \/ serve(f) \/ Facilitates(f) \/ MapRace(f)
      \/ \E a \in Attempt : connect(f, a) \/ \E s \in {alive, dead} : Offer(f, a, s)
  BY DEF NextServices
<1>1. ASSUME NEW a \in Attempt, Receive(f, a) PROVE LinksOK'
  BY <1>1, ReceiveLinks
<1>2. CASE GameConnect(f)
  BY <1>2, GameConnectLinks
<1>3. CASE Tell(f)
  BY <1>3, TellLinks
<1>4. CASE Ended(f) \/ Lose(f)
  BY <1>4, StreamLinks
<1>5. CASE AllClosed(f)
  BY <1>5, LoopLinks
<1>6. ASSUME NEW a \in Attempt, Visit(f, a) \/ CloseOne(f, a) PROVE LinksOK'
  BY <1>6, RangeLinks
<1>7. ASSUME NEW chosen \in BOOLEAN, Finished(f, chosen) PROVE LinksOK'
  <2>1. PICK next \in {"select", "offer"} : Closes(f, next)
    BY <1>7 DEF Finished
  <2>2. run[f].pc = "select" /\ UNCHANGED <<books, told, game, faults, crash>>
    BY <1>7 DEF Finished
  <2> QED
    BY <2>1, <2>2, ClosesLinks
<1>8. ASSUME NEW a \in Attempt,
             \/ Request(f, a) \/ connect(f, a) \/ MapRace(f)
             \/ \E s \in {alive, dead} : Offer(f, a, s)
      PROVE  LinksOK'
  <2>1. UNCHANGED <<run, stream, told, game>>
    BY <1>8 DEF Request, connect, Check, Dial, Store, MapRace, Offer, ends
  <2> QED
    BY <2>1, LinksSame
<1>9. CASE MapRace(f)
  <2>1. UNCHANGED <<run, stream, told, game>>
    BY <1>9 DEF MapRace, ends
  <2> QED
    BY <2>1, LinksSame
<1> QED
  BY <1>1, <1>2, <1>3, <1>4, <1>5, <1>6, <1>7, <1>8, <1>9
  DEF serve, Facilitates

\* Only what the facilitator asked for is dialled, and only that is pinged.
LEMMA AskedStep ==
  ASSUME BooksOK, AllAsked, NextServices
  PROVE  AllAsked'
<1> PICK f \in Facilitator :
      \/ serve(f) \/ Facilitates(f) \/ MapRace(f)
      \/ \E a \in Attempt : connect(f, a) \/ \E s \in {alive, dead} : Offer(f, a, s)
  BY DEF NextServices
<1>1. CASE UNCHANGED books
  BY <1>1 DEF books, AllAsked, AskedOK
<1>2. ASSUME NEW a \in Attempt,
             \A g \in Facilitator : \A b \in Attempt : ~(g = f /\ b = a) =>
               dial'[g][b] = dial[g][b] /\ hb'[g][b] = hb[g][b],
             \/ a[1] \in SeekersOf[f]
             \/ dial[f][a] # "idle" \/ hb[f][a].phase \in {"idle", "sending"}
      PROVE  AllAsked'
  BY <1>2 DEF AllAsked, AskedOK
<1>3. ASSUME NEW a \in Attempt,
             \/ Receive(f, a) \/ CloseOne(f, a)
             \/ \E s \in {alive, dead} : Offer(f, a, s)
      PROVE  AllAsked'
  <2>1. /\ \A g \in Facilitator : \A b \in Attempt : ~(g = f /\ b = a) => hb'[g][b] = hb[g][b]
        /\ UNCHANGED dial
        /\ hb[f][a].phase \in {"idle", "sending"}
    BY <1>3 DEF Receive, CloseOne, Deleted, Offer, BooksOK
  <2> QED
    BY <2>1, <1>2
<1>4. ASSUME NEW a \in Attempt, Request(f, a) \/ Check(f, a) \/ Dial(f, a) \/ Store(f, a)
      PROVE  AllAsked'
  <2>1. Requested(f, a)
    BY <1>4, RequestSteps
  <2>2. a[1] \in SeekersOf[f] \/ dial[f][a] # "idle"
    BY <1>4 DEF Request, Check, Dial, Store
  <2> QED
    BY <2>1, <2>2, <1>2 DEF Requested
<1> QED
  BY <1>1, <1>3, <1>4, BookSteps

\* The node's own steps: most leave the services alone.
LEMMA NodeLinks ==
  ASSUME TypeOK, LinksOK, UserOK, Next, ~Services
  PROVE  LinksOK'
<1>1. CASE Create
  <2>1. user.at \subseteq Facilitator
    BY DEF TypeOK
  <2>2. ASSUME NEW f \in user.at, Start(f) PROVE LinksOK'
    BY <1>1, <2>1, <2>2, StartLinks DEF Create, UserOK
  <2>3. CASE UNCHANGED <<run, range, books, ends, game, crash>>
    BY <2>3, LinksSame DEF ends
  <2> QED
    BY <1>1, <2>2, <2>3 DEF Create
<1>2. ASSUME NEW f \in Facilitator, TakeGame(f) PROVE LinksOK'
  BY <1>2, LoopLinks DEF TakeGame
<1>3. ASSUME NEW f \in Facilitator, CloseJoin(f) PROVE LinksOK'
  BY <1>3, ClosesLinks DEF CloseJoin, CloseTaken
<1>4. CASE UNCHANGED <<run, stream, told, game>>
  BY <1>4, LinksSame
<1> QED
  BY <1>1, <1>2, <1>3, <1>4
  DEF Next, readLoop, Join, StoreJoin, CreateGather, OwnGame, Full, JoinedRace,
      TakeOwnGame, CloseGather, JoinClosed, ResetMap, Deliver, joinVars, ends

\* A service that was not started stays so until the user's goroutine starts it.
LEMMA AbsentStays ==
  ASSUME RunOK, NextServices, NEW g \in Facilitator, run[g].pc = "absent"
  PROVE  run'[g].pc = "absent"
<1> PICK f \in Facilitator :
      \/ serve(f) \/ Facilitates(f) \/ MapRace(f)
      \/ \E a \in Attempt : connect(f, a) \/ \E s \in {alive, dead} : Offer(f, a, s)
  BY DEF NextServices
<1>1. UNCHANGED run \/ (run[f].pc # "absent" /\ \E to : Goes(f, to))
  BY DEF serve, Facilitates, connect, MapRace, Offer, Receive, Visit, CloseOne, Deleted,
         GameConnect, Tell, Ended, AllClosed, Request, Finished, Closes, Lose, Check, Dial, Store
<1> QED
  BY <1>1 DEF Goes, RunOK

LEMMA UserStep ==
  ASSUME TypeOK, UserOK, [Next]_vars
  PROVE  UserOK'
<1>t. RunOK /\ user.at \subseteq Facilitator
  BY NodeParts, ServicesParts DEF TypeOK
<1>1. CASE Services
  BY <1>1, <1>t, AbsentStays DEF Services, UserOK
<1>2. ASSUME NEW f \in Facilitator, Join(f) PROVE UserOK'
  BY <1>2 DEF Join, UserOK, joinVars
<1>3. CASE Create \/ StoreJoin
  BY <1>3 DEF Create, StoreJoin, UserOK, NoOne, TypeOK
<1>4. ASSUME NEW f \in Facilitator, TakeGame(f) \/ CloseJoin(f) PROVE UserOK'
  BY <1>4, <1>t DEF TakeGame, CloseJoin, GameTaken, CloseTaken, Closes, Goes, RunOK, UserOK
<1>5. CASE UNCHANGED <<run, user>>
  BY <1>5 DEF UserOK
<1> QED
  BY <1>1, <1>2, <1>3, <1>4, <1>5
  DEF Next, readLoop, CreateGather, OwnGame, Full, JoinedRace, TakeOwnGame,
      CloseGather, JoinClosed, ResetMap, Deliver, joinVars, vars

\* The seekers that a facilitator counts as connected, because it was told so
\* over a stream that stands, are players of this node's game, whatever reports
\* and failures came in between, and however many services share the game; if
\* no two facilitators send this node to the same seeker.
THEOREM NodeClaims == ASSUME Apart PROVE Spec => []ClaimsHold
<1>1. Init => LinksOK /\ AllAsked /\ UserOK
  BY KnownAssumption DEF Init, InitServices, At, Nobody, NoOne, LinksOK, ServiceOK, LoopOK,
                         LinkOK, Peers, AllAsked, AskedOK, UserOK
<1>2. TypeOK /\ LinksOK /\ AllAsked /\ UserOK /\ [Next]_vars => LinksOK' /\ AllAsked' /\ UserOK'
  <2> SUFFICES ASSUME TypeOK, LinksOK, AllAsked, UserOK, [Next]_vars
               PROVE  LinksOK' /\ AllAsked' /\ UserOK'
    OBVIOUS
  <2>1. CASE Services
    BY <2>1, ServicesLinks, AskedStep, UserStep, NodeParts, ServicesParts DEF Services
  <2>2. CASE Next /\ ~Services
    <3>1. AllAsked'
      BY <2>2, NodeBooks DEF books, AllAsked, AskedOK
    <3> QED
      BY <2>2, <3>1, NodeLinks, UserStep
  <2>3. CASE UNCHANGED vars
    <3>1. AllAsked'
      BY <2>3 DEF vars, joinVars, books, AllAsked, AskedOK
    <3>2. LinksOK'
      BY <2>3, LinksSame DEF vars, joinVars, ends
    <3> QED
      BY <2>3, <3>1, <3>2, UserStep
  <2> QED
    BY <2>1, <2>2, <2>3
<1>3. LinksOK => ClaimsHold
  BY DEF LinksOK, ServiceOK, LinkOK, ClaimsHold
<1> QED
  BY <1>1, <1>2, <1>3, NodeType, PTL DEF Spec

-----------------------------------------------------------------------------
\* The service seeks a party, or is about to end.
Seeks(f) == run[f].pc \notin {"absent", "closed"}

\* run() is asked to end when it starts to close its heartbeats, and not again.
NextOK == \A f \in Facilitator : run[f].next = "closed" => run[f].pc = "closing"

\* Where readLoop stands with a service that was stored in time: it has still
\* to close it, or is closing it.
Pursued(f) ==
  /\ ~playing
  /\ \/ node.pc \in {"select", "closeGather"} /\ f \in joined
     \/ node.pc \in {"closeJoins", "waitJoin"} /\ f \in node.left
     \/ node.pc = "waitJoin" /\ run[f].next = "closed"

\* Before a game is played the gather service is closed once, by the loop that
\* is about to pass the game on.
GatherOnce ==
  gather = "closed" /\ ~playing => node.pc \in {"closeJoins", "waitJoin", "deliver"}

\* A service that was overtaken and started: nobody else offers a second game.
Straggler == \E f \in Overtaken : run[f].pc # "absent"

GatherAgain ==
  \/ gather = "closed" /\ node.pc = "closeGather"
  \/ crash = "send on the closed channel monitorDone"

SeekersPursued == \A f \in Facilitator \ Overtaken : Seeks(f) => Pursued(f)

LeftInv ==
  /\ NextOK
  /\ GatherOnce
  /\ GatherAgain => Straggler
  /\ user.pc = "idle" => user.at = {}
  /\ SeekersPursued

\* What a step of the services does to the loop of one of them: nothing; what
\* it was asked for when its heartbeats were closed; or one more of its steps,
\* none of which asks it to end.
LEMMA LoopSteps ==
  ASSUME RunOK, NextServices, NEW g \in Facilitator
  PROVE  \/ run'[g].pc = run[g].pc /\ run'[g].next = run[g].next
         \/ /\ run[g].pc = "closing"
            /\ run'[g].pc = run[g].next /\ run'[g].next = "select"
         \/ /\ Seeks(g) /\ run[g].pc # "closing"
            /\ run'[g].pc \notin {"absent", "closed"}
            /\ run'[g].next = "closed" => run[g].next = "closed"
<1> USE DEF RunOK, Seeks
<1> PICK f \in Facilitator :
      \/ serve(f) \/ Facilitates(f) \/ MapRace(f)
      \/ \E a \in Attempt : connect(f, a) \/ \E s \in {alive, dead} : Offer(f, a, s)
  BY DEF NextServices
<1>1. CASE UNCHANGED run
  BY <1>1
<1>2. ASSUME NEW a \in Attempt, Receive(f, a)
      PROVE  /\ run[f].pc = "select"
             /\ \E pc \in {"connect", "tell"} :
                  run' = [run EXCEPT ![f] = [At(pc) EXCEPT !.on = {a}, !.status = hb[f][a].status]]
  BY <1>2 DEF Receive, Goes
<1>3. CASE \E a \in Attempt : Receive(f, a)
  <2>1. run[f].pc = "select" /\ \E a \in Attempt : \E pc \in {"connect", "tell"} :
          run' = [run EXCEPT ![f] = [At(pc) EXCEPT !.on = {a}, !.status = hb[f][a].status]]
    BY <1>2, <1>3
  <2> QED
    BY <2>1 DEF At
<1>4. CASE GameConnect(f)
  <2>1. run[f].pc = "connect" /\ (\/ run' = [run EXCEPT ![f].pc = "tell"]
                                  \/ run' = [run EXCEPT ![f] = At("select")])
    BY <1>4 DEF GameConnect, Goes
  <2> QED
    BY <2>1 DEF Place, At
<1>5. CASE Tell(f)
  BY <1>5 DEF Tell, Goes, At
<1>6. CASE AllClosed(f)
  BY <1>6 DEF AllClosed, Goes, At
<1>7. ASSUME NEW chosen \in BOOLEAN, Finished(f, chosen)
      PROVE  /\ run[f].pc = "select"
             /\ \E next \in {"select", "offer"} :
                  run' = [run EXCEPT ![f] = [At("closing") EXCEPT !.next = next]]
  BY <1>7 DEF Finished, Closes, Goes
<1>8. CASE \E chosen \in BOOLEAN : Finished(f, chosen)
  <2>1. run[f].pc = "select" /\ \E next \in {"select", "offer"} :
          run' = [run EXCEPT ![f] = [At("closing") EXCEPT !.next = next]]
    BY <1>7, <1>8
  <2> QED
    BY <2>1 DEF At
<1>9. CASE \E a \in Attempt : Visit(f, a) \/ CloseOne(f, a)
  <2>1. \E on : run' = [run EXCEPT ![f] = [run[f] EXCEPT !.on = on]]
    BY <1>9 DEF Visit, CloseOne, Deleted, Goes
  <2> QED
    BY <2>1 DEF Place
<1> QED
  BY <1>1, <1>3, <1>4, <1>5, <1>6, <1>8, <1>9
  DEF serve, Facilitates, connect, MapRace, Offer, Ended, Request, Lose,
      Check, Dial, Store

\* A service can only die of a map race.
LEMMA ServicesCrashes ==
  ASSUME NextServices, crash = "none" PROVE crash' \in {"none", "concurrent map access"}
<1> PICK f \in Facilitator :
      \/ serve(f) \/ Facilitates(f) \/ MapRace(f)
      \/ \E a \in Attempt : connect(f, a) \/ \E s \in {alive, dead} : Offer(f, a, s)
  BY DEF NextServices
<1>1. CASE serve(f)
  BY <1>1 DEF serve, Receive, Visit, CloseOne, Deleted, GameConnect, Tell, Ended, AllClosed
<1>2. CASE Facilitates(f)
  BY <1>2 DEF Facilitates, Request, Finished, Lose
<1>3. CASE \/ MapRace(f)
           \/ \E a \in Attempt : connect(f, a) \/ \E s \in {alive, dead} : Offer(f, a, s)
  BY <1>3 DEF connect, MapRace, Check, Dial, Store, Offer
<1> QED
  BY <1>1, <1>2, <1>3

\* A service that goes on its own way is pursued as before.
LEMMA ServicesLeft ==
  ASSUME TypeOK, LeftInv, crash = "none", Services
  PROVE  LeftInv'
<1>t. RunOK
  BY NodeParts, ServicesParts
<1>u. UNCHANGED <<node, joined, late, gather, user, playing>> /\ NextServices
  BY DEF Services
<1>1. ASSUME NEW g \in Facilitator
      PROVE  /\ run'[g].next = "closed" => run'[g].pc = "closing"
             /\ run[g].pc # "absent" => run'[g].pc # "absent"
             /\ run'[g].pc \notin {"absent", "closed"} =>
                  Seeks(g) /\ (run[g].next = "closed" => run'[g].next = "closed")
  <2>1. run[g].next = "closed" => run[g].pc = "closing"
    BY DEF LeftInv, NextOK
  <2>2. run[g].next \in {"select", "offer", "closed"}
    BY <1>t DEF RunOK, Place
  <2>3. \/ run'[g].pc = run[g].pc /\ run'[g].next = run[g].next
        \/ /\ run[g].pc = "closing"
           /\ run'[g].pc = run[g].next /\ run'[g].next = "select"
        \/ /\ Seeks(g) /\ run[g].pc # "closing"
           /\ run'[g].pc \notin {"absent", "closed"}
           /\ run'[g].next = "closed" => run[g].next = "closed"
    BY <1>t, <1>u, LoopSteps
  <2> QED
    BY <2>1, <2>2, <2>3 DEF Seeks
<1>2. Overtaken' = Overtaken
  BY <1>u DEF Overtaken
<1>3. NextOK'
  BY <1>1 DEF NextOK
<1>4. GatherOnce' /\ (user'.pc = "idle" => user'.at = {})
  BY <1>u DEF LeftInv, GatherOnce
<1>5. GatherAgain' => Straggler'
  <2>1. crash' \in {"none", "concurrent map access"}
    BY <1>u, ServicesCrashes
  <2>2. Straggler => Straggler'
    BY <1>1, <1>2, <1>u DEF Straggler, Overtaken, TypeOK
  <2> QED
    BY <1>u, <2>1, <2>2 DEF GatherAgain, LeftInv
<1>6. SeekersPursued'
  BY <1>1, <1>2, <1>u DEF SeekersPursued, Seeks, Pursued, LeftInv
<1> QED
  BY <1>3, <1>4, <1>5, <1>6 DEF LeftInv

\* Of the steps of the user's goroutine, the one that stores a service makes it
\* one to close, unless a game was taken before.
LEMMA UserLeft ==
  ASSUME TypeOK, UserOK, LeftInv, crash = "none",
         (\E f \in Facilitator : Join(f)) \/ Create \/ StoreJoin \/ CreateGather
  PROVE  LeftInv'
<1>t. RunOK /\ user.at \subseteq Facilitator /\ late \subseteq Facilitator
  BY NodeParts, ServicesParts DEF TypeOK
<1>l. /\ NextOK /\ GatherOnce /\ (GatherAgain => Straggler) /\ SeekersPursued
      /\ user.pc = "idle" => user.at = {}
  BY DEF LeftInv
<1>1. ASSUME NEW f \in Facilitator, Join(f) PROVE LeftInv'
  <2>1. /\ UNCHANGED <<run, crash, node, joined, late, gather, playing>>
        /\ user.at = {} /\ user'.pc = "create" /\ user'.at = {f}
    BY <1>1, <1>l DEF Join, joinVars
  <2>2. Overtaken \subseteq Overtaken'
    BY <2>1 DEF Overtaken
  <2>3. NextOK' /\ GatherOnce'
    BY <2>1, <1>l DEF NextOK, GatherOnce
  <2>4. GatherAgain' => Straggler'
    BY <2>1, <2>2, <1>l DEF GatherAgain, Straggler
  <2>5. SeekersPursued'
    BY <2>1, <2>2, <1>l DEF SeekersPursued, Seeks, Pursued
  <2> QED
    BY <2>1, <2>3, <2>4, <2>5 DEF LeftInv
<1>2. ASSUME NEW f \in user.at, Create, Start(f), user' = [user EXCEPT !.pc = "store"]
      PROVE  LeftInv'
  <2>1. /\ UNCHANGED <<crash, node, joined, late, gather, playing>>
        /\ f \in Facilitator /\ f \in Overtaken
        /\ user'.pc = "store" /\ user'.at = user.at
    BY <1>2, <1>t DEF Create, Start, Overtaken, TypeOK
  <2>2. \A g \in Facilitator : run'[g] = IF g = f THEN At("select") ELSE run[g]
    BY <1>2, <1>t, <2>1 DEF Start, Goes, RunOK
  <2>3. Overtaken' = Overtaken
    BY <2>1 DEF Overtaken
  <2>4. NextOK' /\ GatherOnce'
    BY <2>1, <2>2, <1>l DEF NextOK, GatherOnce, At
  <2>5. GatherAgain' => Straggler'
    BY <2>1, <2>2, <2>3, <1>l, <1>t DEF GatherAgain, Straggler, Overtaken, At
  <2>6. SeekersPursued'
    BY <2>1, <2>2, <2>3, <1>l DEF SeekersPursued, Seeks, Pursued
  <2> QED
    BY <2>1, <2>4, <2>5, <2>6 DEF LeftInv
<1>3. ASSUME Create, user' = NoOne, UNCHANGED <<run, crash>> PROVE LeftInv'
  <2>1. /\ UNCHANGED <<run, crash, node, joined, late, gather, playing>>
        /\ user'.pc = "idle" /\ user'.at = {}
        /\ \A f \in user.at : run[f].pc = "absent"
    BY <1>3 DEF Create, NoOne, UserOK
  <2>2. \A f \in Overtaken \ Overtaken' : run[f].pc = "absent"
    BY <2>1 DEF Overtaken
  <2>3. NextOK' /\ GatherOnce'
    BY <2>1, <1>l DEF NextOK, GatherOnce
  <2>4. GatherAgain' => Straggler'
    BY <2>1, <2>2, <1>l DEF GatherAgain, Straggler
  <2>5. SeekersPursued'
    BY <2>1, <2>2, <1>l DEF SeekersPursued, Seeks, Pursued
  <2> QED
    BY <2>1, <2>3, <2>4, <2>5 DEF LeftInv
<1>4. ASSUME StoreJoin, Taken PROVE LeftInv'
  <2>1. /\ UNCHANGED <<run, crash, gather, playing>>
        /\ joined \subseteq joined' /\ late' = late \cup user.at
        /\ user'.pc = "idle" /\ user'.at = {}
    BY <1>4 DEF StoreJoin, NoOne, joinVars
  <2>2. node'.pc = node.pc /\ node.left \subseteq node'.left
    BY <1>4 DEF StoreJoin, TypeOK
  <2>3. Overtaken' = Overtaken
    BY <2>1 DEF Overtaken
  <2>4. NextOK' /\ GatherOnce'
    BY <2>1, <2>2, <1>l DEF NextOK, GatherOnce
  <2>5. GatherAgain' => Straggler'
    BY <2>1, <2>2, <2>3, <1>l DEF GatherAgain, Straggler
  <2>6. SeekersPursued'
    BY <2>1, <2>2, <2>3, <1>l DEF SeekersPursued, Seeks, Pursued
  <2> QED
    BY <2>1, <2>4, <2>5, <2>6 DEF LeftInv
<1>5. ASSUME StoreJoin, ~Taken PROVE LeftInv'
  <2>1. /\ UNCHANGED <<run, crash, gather, late, node>>
        /\ playing' = playing /\ ~playing /\ node.pc = "select"
        /\ joined' = joined \cup user.at
        /\ user'.pc = "idle" /\ user'.at = {}
    BY <1>5 DEF StoreJoin, Taken, NoOne, joinVars
  <2>2. Overtaken \ Overtaken' \subseteq joined'
    BY <2>1 DEF Overtaken
  <2>3. NextOK' /\ GatherOnce'
    BY <2>1, <1>l DEF NextOK, GatherOnce
  <2>4. ~GatherAgain'
    BY <2>1 DEF GatherAgain
  <2>5. SeekersPursued'
    <3>1. \A f \in Facilitator \ Overtaken : Seeks(f) => f \in joined
      BY <2>1, <1>l DEF SeekersPursued, Pursued
    <3>2. \A f \in Facilitator \ Overtaken' : Seeks(f) => f \in joined'
      BY <2>1, <2>2, <3>1
    <3>3. ~playing'
      BY <2>1
    <3> QED
      BY <2>1, <3>2, <3>3 DEF SeekersPursued, Seeks, Pursued
  <2> QED
    BY <2>1, <2>3, <2>4, <2>5 DEF LeftInv
<1>6. ASSUME CreateGather PROVE LeftInv'
  <2>1. /\ UNCHANGED <<run, crash, node, joined, late, user, playing>>
        /\ gather' = "running"
    BY <1>6 DEF CreateGather, joinVars
  <2> QED
    BY <2>1 DEF LeftInv, NextOK, GatherOnce, GatherAgain, Straggler, SeekersPursued,
                Seeks, Pursued, Overtaken
<1> QED
  BY <1>1, <1>2, <1>3, <1>4, <1>5, <1>6 DEF Create

\* Of the steps of readLoop, taking a game makes every stored service one to
\* close, and passing it on finds none left.
LEMMA ReadLoopLeft ==
  ASSUME TypeOK, LeftInv, crash = "none",
         readLoop \/ Full \/ OwnGame \/ JoinedRace
  PROVE  LeftInv'
<1>t. RunOK
  BY NodeParts, ServicesParts
<1>l. /\ NextOK /\ GatherOnce /\ (GatherAgain => Straggler) /\ SeekersPursued
      /\ user.pc = "idle" => user.at = {}
  BY DEF LeftInv
<1>o. UNCHANGED <<late, user>> /\ Overtaken' = Overtaken
  BY DEF readLoop, Full, OwnGame, JoinedRace, TakeOwnGame, CloseGather, JoinClosed,
         ResetMap, Deliver, TakeGame, CloseJoin, Overtaken
<1>1. ASSUME NEW f \in Facilitator, TakeGame(f) PROVE LeftInv'
  <2>1. /\ UNCHANGED <<crash, joined, gather, playing>>
        /\ node.pc = "select" /\ node'.pc = "closeGather"
        /\ run[f].pc = "offer"
    BY <1>1 DEF TakeGame, GameTaken, TypeOK
  <2>2. \A g \in Facilitator : run'[g] = IF g = f THEN At("select") ELSE run[g]
    BY <1>1, <1>t DEF TakeGame, GameTaken, Goes, RunOK
  <2>3. NextOK'
    BY <2>2, <1>l DEF NextOK, At
  <2>4. GatherOnce'
    BY <2>1, <1>l DEF GatherOnce
  <2>5. GatherAgain' => Straggler'
    <3> SUFFICES ASSUME gather = "closed" PROVE Straggler'
      BY <2>1 DEF GatherAgain
    <3>1. playing
      BY <2>1, <1>l DEF GatherOnce
    <3>2. f \in Overtaken
      BY <2>1, <3>1, <1>l DEF SeekersPursued, Seeks, Pursued
    <3> QED
      BY <1>o, <2>2, <3>2 DEF Straggler, At
  <2>6. SeekersPursued'
    BY <1>o, <2>1, <2>2, <1>l DEF SeekersPursued, Seeks, Pursued, At
  <2> QED
    BY <1>l, <1>o, <2>3, <2>4, <2>5, <2>6 DEF LeftInv
<1>2. ASSUME NEW f \in Facilitator, CloseJoin(f) PROVE LeftInv'
  <2>1. /\ UNCHANGED <<crash, joined, gather, playing>>
        /\ node.pc = "closeJoins" /\ node'.pc = "waitJoin"
        /\ node'.left = node.left \ {f}
        /\ run[f].pc = "select"
    BY <1>2 DEF CloseJoin, CloseTaken, TypeOK
  <2>2. \A g \in Facilitator :
          run'[g] = IF g = f THEN [At("closing") EXCEPT !.next = "closed"] ELSE run[g]
    BY <1>2, <1>t DEF CloseJoin, CloseTaken, Closes, Goes, RunOK
  <2>3. run'[f].pc = "closing" /\ run'[f].next = "closed"
    BY <2>2 DEF At
  <2>4. NextOK'
    BY <2>2, <2>3, <1>l DEF NextOK
  <2>5. GatherOnce' /\ ~GatherAgain'
    BY <2>1, <1>l DEF GatherOnce, GatherAgain
  <2>6. SeekersPursued'
    BY <1>o, <2>1, <2>2, <2>3, <1>l DEF SeekersPursued, Seeks, Pursued
  <2> QED
    BY <1>l, <1>o, <2>4, <2>5, <2>6 DEF LeftInv
<1>3. ASSUME CloseGather PROVE LeftInv'
  <2>1. /\ UNCHANGED <<run, joined, playing>>
        /\ node.pc = "closeGather"
        /\ node'.pc = "closeJoins" /\ node'.left = joined
        /\ crash' = "send on the closed channel monitorDone" => gather = "closed"
    BY <1>3 DEF CloseGather, joinVars
  <2>2. NextOK' /\ GatherOnce'
    BY <2>1, <1>l DEF NextOK, GatherOnce
  <2>3. GatherAgain' => Straggler'
    BY <1>o, <2>1, <1>l DEF GatherAgain, Straggler
  <2>4. SeekersPursued'
    BY <1>o, <2>1, <1>l DEF SeekersPursued, Seeks, Pursued
  <2> QED
    BY <1>l, <1>o, <2>2, <2>3, <2>4 DEF LeftInv
<1>4. ASSUME JoinClosed \/ ResetMap PROVE LeftInv'
  <2>1. /\ UNCHANGED <<run, crash, gather, playing>>
        /\ \/ /\ node.pc = "waitJoin" /\ node'.pc = "closeJoins"
              /\ node'.left = node.left
              /\ \A f \in Facilitator : run[f].next # "closed"
           \/ node.pc = "closeJoins" /\ node.left = {} /\ node'.pc = "deliver"
    BY <1>4 DEF JoinClosed, ResetMap, TypeOK, joinVars
  <2>2. NextOK' /\ GatherOnce' /\ ~GatherAgain'
    BY <2>1, <1>l DEF NextOK, GatherOnce, GatherAgain
  <2>3. SeekersPursued'
    BY <1>o, <2>1, <1>l DEF SeekersPursued, Seeks, Pursued
  <2> QED
    BY <1>l, <1>o, <2>2, <2>3 DEF LeftInv
<1>5. ASSUME Deliver PROVE LeftInv'
  <2>1. /\ UNCHANGED <<run, crash, gather>>
        /\ node.pc = "deliver" /\ node'.pc = "select"
    BY <1>5 DEF Deliver, TypeOK, joinVars
  <2>2. playing'
    BY <1>5 DEF Deliver
  <2>3. NextOK' /\ ~GatherAgain'
    BY <2>1, <1>l DEF NextOK, GatherAgain
  <2>4. GatherOnce'
    BY <2>2 DEF GatherOnce
  <2>5. SeekersPursued'
    BY <1>o, <2>1, <1>l DEF SeekersPursued, Seeks, Pursued
  <2> QED
    BY <1>l, <1>o, <2>3, <2>4, <2>5 DEF LeftInv
<1>6. ASSUME TakeOwnGame \/ OwnGame PROVE LeftInv'
  <2>1. /\ UNCHANGED <<run, crash, joined, playing>>
        /\ gather' \in {"running", "offering"}
        /\ \/ node' = node
           \/ node.pc = "select" /\ node'.pc = "closeGather"
    BY <1>6 DEF TakeOwnGame, OwnGame, TypeOK, joinVars
  <2>2. NextOK' /\ GatherOnce' /\ ~GatherAgain'
    BY <2>1, <1>l DEF NextOK, GatherOnce, GatherAgain
  <2>3. SeekersPursued'
    BY <1>o, <2>1, <1>l DEF SeekersPursued, Seeks, Pursued
  <2> QED
    BY <1>l, <1>o, <2>2, <2>3 DEF LeftInv
<1>7. ASSUME Full \/ JoinedRace PROVE LeftInv'
  <2>1. /\ UNCHANGED <<run, joined, gather, playing>>
        /\ crash' \in {crash, "concurrent map access"}
    BY <1>7 DEF Full, JoinedRace, joinVars
  <2>2. (playing /\ node'.pc = "full") \/ node' = node
    BY <1>7 DEF Full, JoinedRace, TypeOK
  <2>3. NextOK' /\ GatherOnce'
    BY <2>1, <2>2, <1>l DEF NextOK, GatherOnce
  <2>4. GatherAgain' => Straggler'
    BY <1>o, <2>1, <2>2, <1>l DEF GatherAgain, Straggler
  <2>5. SeekersPursued'
    BY <1>o, <2>1, <2>2, <1>l DEF SeekersPursued, Seeks, Pursued
  <2> QED
    BY <1>l, <1>o, <2>3, <2>4, <2>5 DEF LeftInv
<1> QED
  BY <1>1, <1>2, <1>3, <1>4, <1>5, <1>6, <1>7 DEF readLoop

\* When eventLoop plays, every service that was stored before readLoop took the
\* game is closed, whatever requests, reports and games of other services came
\* in between; and readLoop closes the gather service a second time, which kills
\* the process, only for the game of a service that was stored later.
THEOREM NodeNoneLeft == Spec => []NoneLeft
<1>1. Init => UserOK /\ LeftInv
  BY DEF Init, InitServices, At, NoOne, UserOK, LeftInv, NextOK, GatherOnce, GatherAgain,
         SeekersPursued, Seeks
<1>2. TypeOK /\ UserOK /\ LeftInv /\ [Next]_vars => UserOK' /\ LeftInv'
  <2> SUFFICES ASSUME TypeOK, UserOK, LeftInv, [Next]_vars PROVE LeftInv'
    BY UserStep
  <2>1. CASE Next
    BY <2>1, ServicesLeft, UserLeft, ReadLoopLeft DEF Next
  <2>2. CASE UNCHANGED vars
    BY <2>2 DEF vars, joinVars, LeftInv, NextOK, GatherOnce, GatherAgain, Straggler,
                SeekersPursued, Seeks, Pursued, Overtaken
  <2> QED
    BY <2>1, <2>2
<1>3. LeftInv => NoneLeft
  BY DEF LeftInv, GatherAgain, Straggler, SeekersPursued, Seeks, Pursued, NoneLeft
<1> QED
  BY <1>1, <1>2, <1>3, NodeType, PTL DEF Spec

=============================================================================
