--------------------------- MODULE PeerMeshProofs ---------------------------
(***************************************************************************)
(* What the operations of module PeerMesh do to the edges of a mesh, for   *)
(* every set of peers, and what IsClique establishes.                      *)
(***************************************************************************)
EXTENDS PeerMesh, FiniteSetTheorems, TLAPS

\* A mesh is a function on some peers whose values are sets of peers.
LEMMA MeshType ==
  \A m : m \in Mesh <=> /\ DOMAIN m \subseteq Peer
                        /\ m \in [DOMAIN m -> SUBSET Peer]
BY DEF Mesh

\* The neighbours of any peer are peers, whether the peer is a key or not.
LEMMA NeighboursType ==
  ASSUME NEW m \in Mesh, NEW p
  PROVE  Neighbours(m, p) \subseteq Peer
BY MeshType DEF Neighbours

\* addEdge of peer_mesh.go adds one directed edge, and the key it starts from.
LEMMA AddEdge ==
  ASSUME NEW m \in Mesh, NEW p \in Peer, NEW q \in Peer
  PROVE  /\ addEdge(m, p, q) \in Mesh
         /\ DOMAIN addEdge(m, p, q) = DOMAIN m \cup {p}
         /\ \A x : Neighbours(addEdge(m, p, q), x) =
                     IF x = p THEN Neighbours(m, x) \cup {q} ELSE Neighbours(m, x)
<1> DEFINE r == addEdge(m, p, q)
<1>1. DOMAIN r = DOMAIN m \cup {p}
  BY DEF addEdge
<1>2. \A x : Neighbours(r, x) =
               IF x = p THEN Neighbours(m, x) \cup {q} ELSE Neighbours(m, x)
  BY DEF addEdge, Neighbours
<1>3. r \in [DOMAIN m \cup {p} -> SUBSET Peer]
  BY MeshType, NeighboursType DEF addEdge
<1>4. r \in Mesh
  BY <1>1, <1>3, MeshType
<1> QED
  BY <1>1, <1>2, <1>4

\* removeEdge removes one directed edge and no key.
LEMMA RemoveEdge ==
  ASSUME NEW m \in Mesh, NEW p \in Peer, NEW q \in Peer
  PROVE  /\ removeEdge(m, p, q) \in Mesh
         /\ DOMAIN removeEdge(m, p, q) = DOMAIN m
         /\ \A x : Neighbours(removeEdge(m, p, q), x) =
                     IF x = p THEN Neighbours(m, x) \ {q} ELSE Neighbours(m, x)
<1> DEFINE r == removeEdge(m, p, q)
<1>1. DOMAIN r = DOMAIN m
  BY DEF removeEdge
<1>2. \A x : Neighbours(r, x) =
               IF x = p THEN Neighbours(m, x) \ {q} ELSE Neighbours(m, x)
  BY DEF removeEdge, Neighbours
<1>3. r \in [DOMAIN m -> SUBSET Peer]
  BY MeshType DEF removeEdge
<1>4. r \in Mesh
  BY <1>1, <1>3, MeshType
<1> QED
  BY <1>1, <1>2, <1>4

\* x and y are the two ends of the edge between p and q, in either direction.
Ends(x, y, p, q) == (x = p /\ y = q) \/ (x = q /\ y = p)

\* addDoubleEdge adds the edge between p and q, both as keys, and no other.
LEMMA AddDoubleEdge ==
  ASSUME NEW m \in Mesh, NEW p \in Peer, NEW q \in Peer
  PROVE  /\ addDoubleEdge(m, p, q) \in Mesh
         /\ DOMAIN addDoubleEdge(m, p, q) = DOMAIN m \cup {p, q}
         /\ \A x, y : y \in Neighbours(addDoubleEdge(m, p, q), x) <=>
                        y \in Neighbours(m, x) \/ Ends(x, y, p, q)
<1> DEFINE s == addEdge(m, p, q)
           r == addEdge(s, q, p)
<1>1. s \in Mesh /\ DOMAIN s = DOMAIN m \cup {p}
  BY AddEdge
<1>2. \A x : Neighbours(s, x) = IF x = p THEN Neighbours(m, x) \cup {q} ELSE Neighbours(m, x)
  BY AddEdge
<1>3. r \in Mesh /\ DOMAIN r = DOMAIN s \cup {q}
  BY <1>1, AddEdge
<1>4. \A x : Neighbours(r, x) = IF x = q THEN Neighbours(s, x) \cup {p} ELSE Neighbours(s, x)
  BY <1>1, AddEdge
<1>5. r = addDoubleEdge(m, p, q)
  BY DEF addDoubleEdge
<1>6. \A x, y : y \in Neighbours(r, x) <=> y \in Neighbours(m, x) \/ Ends(x, y, p, q)
  BY <1>2, <1>4 DEF Ends
<1> HIDE DEF s, r
<1> QED
  BY <1>1, <1>3, <1>5, <1>6

\* removeDoubleEdge removes the edge between p and q, and nothing else.
LEMMA RemoveDoubleEdge ==
  ASSUME NEW m \in Mesh, NEW p \in Peer, NEW q \in Peer
  PROVE  /\ removeDoubleEdge(m, p, q) \in Mesh
         /\ DOMAIN removeDoubleEdge(m, p, q) = DOMAIN m
         /\ \A x, y : y \in Neighbours(removeDoubleEdge(m, p, q), x) <=>
                        y \in Neighbours(m, x) /\ ~Ends(x, y, p, q)
<1> DEFINE s == removeEdge(m, p, q)
           r == removeEdge(s, q, p)
<1>1. s \in Mesh /\ DOMAIN s = DOMAIN m
  BY RemoveEdge
<1>2. \A x : Neighbours(s, x) = IF x = p THEN Neighbours(m, x) \ {q} ELSE Neighbours(m, x)
  BY RemoveEdge
<1>3. r \in Mesh /\ DOMAIN r = DOMAIN s
  BY <1>1, RemoveEdge
<1>4. \A x : Neighbours(r, x) = IF x = q THEN Neighbours(s, x) \ {p} ELSE Neighbours(s, x)
  BY <1>1, RemoveEdge
<1>5. r = removeDoubleEdge(m, p, q)
  BY DEF removeDoubleEdge
<1>6. \A x, y : y \in Neighbours(r, x) <=> y \in Neighbours(m, x) /\ ~Ends(x, y, p, q)
  BY <1>2, <1>4 DEF Ends
<1> HIDE DEF s, r
<1> QED
  BY <1>1, <1>3, <1>5, <1>6

\* In a symmetric mesh removePeer, which looks only at the neighbours of p,
\* removes every edge that p has, and p itself.
LEMMA RemovePeer ==
  ASSUME NEW m \in Mesh, NEW p \in Peer, Symmetric(m)
  PROVE  /\ removePeer(m, p) \in Mesh
         /\ DOMAIN removePeer(m, p) = DOMAIN m \ {p}
         /\ \A x, y : y \in Neighbours(removePeer(m, p), x) <=>
                        y \in Neighbours(m, x) /\ x # p /\ y # p
<1> DEFINE r == removePeer(m, p)
<1>1. DOMAIN r = DOMAIN m \ {p}
  BY DEF removePeer
<1>2. r \in [DOMAIN r -> SUBSET Peer]
  BY <1>1, MeshType DEF removePeer
<1>3. r \in Mesh
  BY <1>1, <1>2, MeshType
<1>4. \A x \in DOMAIN r : r[x] = IF x \in Neighbours(m, p) THEN m[x] \ {p} ELSE m[x]
  BY <1>1 DEF removePeer
<1>5. \A x \in DOMAIN m : p \in m[x] => x \in Neighbours(m, p)
  BY MeshType DEF Symmetric, Neighbours
<1>6. \A x, y : y \in Neighbours(r, x) <=> y \in Neighbours(m, x) /\ x # p /\ y # p
  BY <1>1, <1>4, <1>5 DEF Neighbours
<1> QED
  BY <1>1, <1>3, <1>6

\* Closed, said of edges: their ends are keys.
LEMMA ClosedEdges ==
  ASSUME NEW m
  PROVE  Closed(m) <=> \A x, y : y \in Neighbours(m, x) => y \in DOMAIN m
BY DEF Closed, Neighbours

\* Symmetric, without bounds, since only peers have edges.
LEMMA SymmetricEdges ==
  ASSUME NEW m \in Mesh
  PROVE  Symmetric(m) <=> \A x, y : y \in Neighbours(m, x) => x \in Neighbours(m, y)
<1>1. \A x, y : y \in Neighbours(m, x) => x \in Peer /\ y \in Peer
  BY MeshType DEF Neighbours
<1> QED
  BY <1>1 DEF Symmetric

\* Every modification that meshUpdateLoop can be sent turns a symmetric mesh,
\* all of whose neighbours are keys, into another one.
THEOREM ApplyPreserves ==
  ASSUME NEW m \in Mesh, Symmetric(m), Closed(m), NEW mod \in peerMeshMod
  PROVE  /\ Apply(mod, m) \in Mesh
         /\ Symmetric(Apply(mod, m))
         /\ Closed(Apply(mod, m))
<1>0. PICK p \in Peer, q \in Peer : p = mod.from /\ q = mod.to
  BY DEF peerMeshMod
<1>a. \A x, y : y \in Neighbours(m, x) => y \in DOMAIN m
  BY ClosedEdges
<1>s. \A x, y : y \in Neighbours(m, x) => x \in Neighbours(m, y)
  BY SymmetricEdges
<1> DEFINE r == Apply(mod, m)
<1> HIDE DEF r
<1>1. CASE mod.op = "addDoubleEdge"
  <2>1. r = addDoubleEdge(m, p, q)
    BY <1>0, <1>1 DEF Apply, r
  <2>2. /\ r \in Mesh
        /\ DOMAIN r = DOMAIN m \cup {p, q}
        /\ \A x, y : y \in Neighbours(r, x) <=> y \in Neighbours(m, x) \/ Ends(x, y, p, q)
    BY <2>1, AddDoubleEdge
  <2>3. Symmetric(r)
    BY <1>s, <2>2, SymmetricEdges DEF Ends
  <2>4. Closed(r)
    BY <1>a, <2>2, ClosedEdges DEF Ends
  <2> QED
    BY <2>2, <2>3, <2>4 DEF r
<1>2. CASE mod.op = "removeDoubleEdge"
  <2>1. r = removeDoubleEdge(m, p, q)
    BY <1>0, <1>2 DEF Apply, r
  <2>2. /\ r \in Mesh
        /\ DOMAIN r = DOMAIN m
        /\ \A x, y : y \in Neighbours(r, x) <=> y \in Neighbours(m, x) /\ ~Ends(x, y, p, q)
    BY <2>1, RemoveDoubleEdge
  <2>3. Symmetric(r)
    BY <1>s, <2>2, SymmetricEdges DEF Ends
  <2>4. Closed(r)
    BY <1>a, <2>2, ClosedEdges
  <2> QED
    BY <2>2, <2>3, <2>4 DEF r
<1>3. CASE mod.op = "removePeer"
  <2>1. r = removePeer(m, p)
    BY <1>0, <1>3 DEF Apply, r
  <2>2. /\ r \in Mesh
        /\ DOMAIN r = DOMAIN m \ {p}
        /\ \A x, y : y \in Neighbours(r, x) <=> y \in Neighbours(m, x) /\ x # p /\ y # p
    BY <2>1, RemovePeer
  <2>3. Symmetric(r)
    BY <1>s, <2>2, SymmetricEdges
  <2>4. Closed(r)
    BY <1>a, <2>2, ClosedEdges
  <2> QED
    BY <2>2, <2>3, <2>4 DEF r
<1> QED
  BY <1>1, <1>2, <1>3 DEF peerMeshMod

-----------------------------------------------------------------------------
\* IsClique only counts.  If the slice it is given is at least as long as the
\* set of peers it lists, a count of len - 1 for each of them leaves no room:
\* no peer is listed twice and every two are connected, whatever self-loops or
\* other neighbours the mesh has.
THEOREM IsCliqueSound ==
  ASSUME NEW m, NEW S, IsFiniteSet(S), S # {},
         NEW len \in Nat, Cardinality(S) <= len, IsClique(m, S, len)
  PROVE  Cardinality(S) = len /\ Complete(m, S)
<1> DEFINE Counted(src) == {dst \in Neighbours(m, src) : src # dst /\ dst \in S}
<1>1. ASSUME NEW src \in S
      PROVE  Cardinality(S) = len /\ Counted(src) = S \ {src}
  <2>1. Cardinality(Counted(src)) = len - 1
    BY DEF IsClique
  <2>2. /\ IsFiniteSet(S \ {src})
        /\ Cardinality(S \ {src}) = Cardinality(S) - 1
    BY FS_RemoveElement
  <2>3. Counted(src) \subseteq S \ {src}
    OBVIOUS
  <2>4. Cardinality(Counted(src)) <= Cardinality(S \ {src})
    BY <2>2, <2>3, FS_Subset
  <2>5. Cardinality(S) \in Nat
    BY FS_CardinalityType
  <2> HIDE DEF Counted
  <2>6. Cardinality(S) = len
    BY <2>1, <2>2, <2>4, <2>5
  <2>7. Counted(src) = S \ {src}
    BY <2>1, <2>2, <2>3, <2>6, FS_Subset
  <2> QED
    BY <2>6, <2>7
<1>2. Cardinality(S) = len
  BY <1>1
<1>3. Complete(m, S)
  BY <1>1 DEF Complete
<1> QED
  BY <1>2, <1>3

\* What FindClique may return, as the facilitator uses it: n distinct peers,
\* the facilitator among them, every two of them connected.
THEOREM FindCliqueResultsSound ==
  ASSUME NEW m \in Mesh, NEW n \in Int, NEW required \in Peer,
         NEW C \in FindCliqueResults(m, n, required)
  PROVE  /\ required \in C
         /\ C \subseteq Peer
         /\ Cardinality(C) = n
         /\ Complete(m, C)
<1>1. /\ C \in {{required} \cup S : S \in SUBSET Neighbours(m, required)}
      /\ Cardinality(C) = n
      /\ IsClique(m, C, n)
  BY DEF FindCliqueResults
<1>2. required \in C /\ C \subseteq Peer
  BY <1>1, NeighboursType
<1>3. IsFiniteSet(C)
  BY <1>2, PeerAssumption, FS_Subset
<1>4. n \in Nat
  BY <1>1, <1>3, FS_CardinalityType
<1>5. Complete(m, C)
  BY <1>1, <1>2, <1>3, <1>4, IsCliqueSound
<1> QED
  BY <1>1, <1>2, <1>5
=============================================================================
