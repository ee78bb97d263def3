----------------------------- MODULE FindClique -----------------------------
(***************************************************************************)
(* peerMesh.FindClique (protocol/gather/peer_mesh.go): the search for a    *)
(* complete subgraph of n peers around the facilitator, one step for each  *)
(* iteration of the loop over masks.  The mesh is fixed during the search  *)
(* (it belongs to the goroutine that searches) and is the product of the   *)
(* modifications of module PeerMesh, so it is symmetric.                   *)
(***************************************************************************)
EXTENDS PeerMesh, Integers, Sequences

CONSTANTS Required,   \* the peer every clique must contain, gs.h.ID()
          Counts      \* the numbers of players a user may ask for: any Go int

ASSUME SearchAssumption == Required \in Peer /\ Counts \subseteq Int

VARIABLES mesh,
          n,          \* the number of players wanted, gs.desiredCount
          neighbours, \* the slice filled by ranging over mesh[required]
          i,          \* the mask: bit k-1 selects neighbours[k]
          pc,         \* "make", "search", and "returned" or "panicked"
          clique      \* the set of peers returned, {} for nil

vars == <<mesh, n, neighbours, i, pc, clique>>

\* The orders in which Go may range over a set.
Orders(S) == {f \in [1..Cardinality(S) -> S] : \A a, b \in DOMAIN f : f[a] = f[b] => a = b}

\* Variant with a bug: the mask of all neighbours is not tried.
LimitShort == 2^Len(neighbours) - 1

\* 1 << len(neighbours), computed in the type of the mask: the bit shifted out
\* of the word leaves zero.
Limit == IF Len(neighbours) < WordSize THEN 2^Len(neighbours) ELSE 0

Bits(mask) == {k \in 1..Len(neighbours) : (mask \div 2^(k - 1)) % 2 = 1}

Candidate(mask) == {Required} \cup {neighbours[k] : k \in Bits(mask)}

\* The length of the candidate slice
CandidateLen(mask) == 1 + Cardinality(Bits(mask))

\* The meshes the search can meet: symmetric, every neighbour a key.  A peer
\* may be its own neighbour, "bogus... but possible" says the code.
SearchedMeshes == {m \in Mesh : Symmetric(m) /\ Closed(m)}

Init == /\ mesh \in SearchedMeshes
        /\ n \in Counts
        /\ neighbours = <<>>
        /\ i = 0
        /\ pc = "make"
        /\ clique = {}

\* make([]peer.ID, 0, n), and the neighbours in the order the map gives them
Make == /\ pc = "make"
        /\ Allocatable(n)
        /\ neighbours' \in Orders(Neighbours(mesh, Required))
        /\ pc' = "search"
        /\ UNCHANGED <<mesh, n, i, clique>>

\* No slice has that capacity.  Nobody checks the number of players before.
Panic == /\ pc = "make"
         /\ ~Allocatable(n)
         /\ pc' = "panicked"
         /\ UNCHANGED <<mesh, n, neighbours, i, clique>>

\* Variant with a bug: the mask is counted down.
SkipDown == /\ pc = "search" /\ i < Limit
            /\ i' = i - 1
            /\ UNCHANGED <<mesh, n, neighbours, pc, clique>>

\* The mask has the wrong number of bits, or its peers are not a clique.
Skip == /\ pc = "search"
        /\ i < Limit
        /\ \/ Cardinality(Bits(i)) # n - 1
           \/ ~IsClique(mesh, Candidate(i), CandidateLen(i))
        /\ i' = i + 1
        /\ UNCHANGED <<mesh, n, neighbours, pc, clique>>

\* Variant with a bug: a clique of any size is returned.
FoundAnySize == /\ pc = "search"
                /\ i < Limit
                /\ IsClique(mesh, Candidate(i), CandidateLen(i))
                /\ clique' = Candidate(i)
                /\ pc' = "returned"
                /\ UNCHANGED <<mesh, n, neighbours, i>>

Found == /\ pc = "search"
         /\ i < Limit
         /\ Cardinality(Bits(i)) = n - 1
         /\ IsClique(mesh, Candidate(i), CandidateLen(i))
         /\ clique' = Candidate(i)
         /\ pc' = "returned"
         /\ UNCHANGED <<mesh, n, neighbours, i>>

NotFound == /\ pc = "search"
            /\ i >= Limit
            /\ pc' = "returned"
            /\ UNCHANGED <<mesh, n, neighbours, i, clique>>

Next == Make \/ Panic \/ Skip \/ Found \/ NotFound

\* The loop is straight-line code of one goroutine: it keeps running.
Spec == Init /\ [][Next]_vars /\ WF_vars(Next)

-----------------------------------------------------------------------------
TypeOK == /\ mesh \in Mesh
          /\ n \in Counts
          /\ neighbours \in Seq(Neighbours(mesh, Required))
          /\ i \in Nat
          /\ pc \in {"make", "search", "returned", "panicked"}
          /\ clique \subseteq Peer

\* What FindClique returns is n distinct peers, the facilitator among
\* them, every two of them connected: IsClique counts the neighbours of each
\* candidate instead of comparing pairs, and must not be fooled by a peer
\* that is its own neighbour or is listed twice.
FoundIsClique ==
  clique # {} => /\ Required \in clique
                 /\ Cardinality(clique) = n
                 /\ Complete(mesh, clique)

\* FindClique returns nil only if the facilitator belongs to no complete
\* subgraph of n peers: the loop skips no mask that matters.  The masks run
\* out of bits when the facilitator has WordSize neighbours or more, and then
\* nil means nothing.
NilMeansNone ==
  /\ pc = "returned" /\ clique = {}
  /\ Cardinality(Neighbours(mesh, Required)) < WordSize
  => ~ \E S \in SUBSET Peer : /\ Required \in S
                              /\ Cardinality(S) = n
                              /\ Complete(mesh, S)

\* The search ends as the callers' model (module GatherService) has it: with a
\* panic if and only if the number of players is no capacity of a slice, else
\* with one of the sets that FindCliqueResults allows, and with nil only if it
\* allows none, which the overflow of the mask is a case of.
ResultAsAbstracted ==
  /\ pc = "panicked" => ~Allocatable(n)
  /\ pc = "returned" =>
       LET R == FindCliqueResults(mesh, n, Required)
       IN Allocatable(n) /\ (IF clique = {} THEN R = {} ELSE clique \in R)
=============================================================================
