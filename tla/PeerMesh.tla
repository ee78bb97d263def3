------------------------------ MODULE PeerMesh ------------------------------
(***************************************************************************)
(* protocol/gather/peer_mesh.go: the facilitator's view of who is          *)
(* connected to whom, a Go map from a peer to the set of its neighbours.   *)
(* A mesh is a function whose domain is the set of keys of that map; a     *)
(* peer outside the domain is a missing key.                               *)
(***************************************************************************)
EXTENDS Naturals, FiniteSets

CONSTANTS Peer,      \* the peer IDs that can occur
          WordSize,  \* the width of the mask FindClique counts with (32)
          MaxCap     \* the largest capacity of a slice of peer IDs

ASSUME PeerAssumption == IsFiniteSet(Peer)
ASSUME WordAssumption == WordSize \in Nat \ {0}
ASSUME CapAssumption == MaxCap \in Nat

Mesh == UNION {[K -> SUBSET Peer] : K \in SUBSET Peer}

EmptyMesh == [p \in {} |-> {}]

\* Reading a missing key of a Go map gives nil, which has no neighbours.
Neighbours(m, p) == IF p \in DOMAIN m THEN m[p] ELSE {}

-----------------------------------------------------------------------------
\* The modifications that meshUpdateLoop applies.

addEdge(m, from, to) ==
  [p \in DOMAIN m \cup {from} |->
     IF p = from THEN Neighbours(m, from) \cup {to} ELSE m[p]]

removeEdge(m, from, to) ==
  [p \in DOMAIN m |-> IF p = from THEN m[p] \ {to} ELSE m[p]]

addDoubleEdge(m, from, to) == addEdge(addEdge(m, from, to), to, from)

removeDoubleEdge(m, from, to) == removeEdge(removeEdge(m, from, to), to, from)

removePeer(m, p) ==
  [q \in DOMAIN m \ {p} |-> IF q \in Neighbours(m, p) THEN m[q] \ {p} ELSE m[q]]

\* A peerMeshMod is a closure over its peers; here it is a record that names
\* the operation.  removePeer takes one peer, kept in both fields.
peerMeshMod == [op : {"addDoubleEdge", "removeDoubleEdge", "removePeer"},
                from : Peer, to : Peer]

Mod(op, from, to) == [op |-> op, from |-> from, to |-> to]

Apply(mod, m) ==
  CASE mod.op = "addDoubleEdge"    -> addDoubleEdge(m, mod.from, mod.to)
    [] mod.op = "removeDoubleEdge" -> removeDoubleEdge(m, mod.from, mod.to)
    [] mod.op = "removePeer"       -> removePeer(m, mod.from)

\* Variant with a bug: the clique is looked for when edges go.
RescanRemovals(mod) == mod.op # "addDoubleEdge"

\* The Boolean a modification returns: look for a clique again?
Rescan(mod) == mod.op = "addDoubleEdge"

-----------------------------------------------------------------------------
\* Variant with a bug: a peer that is its own neighbour counts.
IsCliqueSelfish(m, ours, len) ==
  \A src \in ours : Cardinality(Neighbours(m, src) \cap ours) = len - 1

\* IsClique gets a slice.  All it depends on is the set of peers the slice
\* lists and its length, which differ when a peer is listed twice.
IsClique(m, ours, len) ==
  \A src \in ours :
     Cardinality({dst \in Neighbours(m, src) : src # dst /\ dst \in ours}) = len - 1

\* FindClique first makes a slice with room for n peers, which panics if n is
\* negative or too large.
Allocatable(n) == n >= 0 /\ n <= MaxCap

\* What the search may return: Go ranges over a map in any order, and for
\* each candidate there is an order in which it is the first one tried.
\* Module FindClique models the loop itself.  1 << len(neighbours) is zero in
\* a mask of WordSize bits when there are WordSize neighbours or more.
FindCliqueResults(m, n, required) ==
  IF Cardinality(Neighbours(m, required)) >= WordSize
  THEN {}
  ELSE {C \in {{required} \cup S : S \in SUBSET Neighbours(m, required)} :
          Cardinality(C) = n /\ IsClique(m, C, n)}

-----------------------------------------------------------------------------
\* The reference notions the code is compared with.

Symmetric(m) ==
  \A p, q \in Peer : q \in Neighbours(m, p) <=> p \in Neighbours(m, q)

\* A neighbour is itself a key, so that removing it finds its edges.
Closed(m) == \A p \in DOMAIN m : m[p] \subseteq DOMAIN m

Complete(m, S) == \A p, q \in S : p # q => q \in Neighbours(m, p)
=============================================================================
