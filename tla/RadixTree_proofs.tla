-------------------------- MODULE RadixTree_proofs --------------------------
(***************************************************************************)
(* The radix tree as an order: what its operations do to well-formed       *)
(* trees, for any namespaces and token sequences; then the locks of its    *)
(* nodes and the slots of the pool, as far as they do not depend on who    *)
(* holds them. The theorems about the cache (RadixCache_proofs,            *)
(* RadixSlots_proofs) and about the overlapped loop (OverlapLoop_proofs)   *)
(* rest on these lemmas.                                                   *)
(***************************************************************************)
EXTENDS RadixTree, TokenPool, FiniteSetTheorems, SequenceTheorems, WellFoundedInduction, TLAPS

-----------------------------------------------------------------------------
(* Least and greatest elements *)

\* A set of naturals that is not empty has a least element.
LEMMA MinFacts ==
    ASSUME NEW S, S \subseteq Nat, S # {}
    PROVE  Min(S) \in S /\ \A y \in S : Min(S) <= y
<1> DEFINE less == {ss \in Nat \X Nat : ss[1] < ss[2]}
<1>0. IsWellFoundedOn(less, Nat)
  BY NatLessThanWellFounded DEF OpToRel
<1>1. PICK x \in S : \A y \in S : ~(<<y, x>> \in less)
  <2> HIDE DEF less
  <2> QED
    BY <1>0, WFMin
<1>2. \E z \in S : \A y \in S : z <= y
  <2>1. ASSUME NEW y \in S PROVE x <= y
    <3>1. <<y, x>> \in Nat \X Nat /\ ~(<<y, x>> \in less)
      BY <1>1
    <3>2. ~(<<y, x>>[1] < <<y, x>>[2])
      BY <3>1
    <3> QED
      BY <3>2
  <2> QED
    BY <2>1
<1> HIDE DEF less
<1>3. Min(S) \in S /\ \A y \in S : Min(S) <= y
  BY <1>2 DEF Min
<1> QED
  BY <1>3

\* A bounded one has a greatest.
LEMMA MaxFacts ==
    ASSUME NEW S, S \subseteq Nat, S # {}, NEW n \in Nat, \A s \in S : s <= n
    PROVE  Max(S) \in S /\ \A y \in S : y <= Max(S)
<1> DEFINE R == {n - s : s \in S}
<1>0. \A s \in S : n - s \in Nat
  OBVIOUS
<1>1. R \subseteq Nat /\ R # {}
  BY <1>0, Zenon
<1>2. PICK r \in R : \A y \in R : r <= y
  <2> HIDE DEF R
  <2> QED
    BY <1>1, MinFacts
<1>3. PICK x \in S : r = n - x
  OBVIOUS
<1>4. \A y \in S : x >= y
  <2> SUFFICES ASSUME NEW y \in S PROVE x >= y
    OBVIOUS
  <2>1. n - x <= n - y
    BY <1>2, <1>3
  <2> QED
    BY <2>1
<1>5. \E z \in S : \A y \in S : z >= y
  BY <1>4
<1>6. Max(S) \in S /\ \A y \in S : Max(S) >= y
  BY <1>5 DEF Max
<1> QED
  BY <1>6

-----------------------------------------------------------------------------
(* Prefixes *)

\* Take(p, n) is the prefix of length n.
LEMMA TakeType ==
    ASSUME NEW p \in Seq(Nat), NEW n \in 0..Len(p)
    PROVE  /\ Take(p, n) \in Seq(Nat) /\ Len(Take(p, n)) = n
           /\ n # 0 => Take(p, n) # <<>>
BY DEF Take

\* A prefix of a prefix is a prefix.
LEMMA TakeTake ==
    ASSUME NEW p \in Seq(Nat), NEW n \in 0..Len(p), NEW m \in 0..n
    PROVE  Take(Take(p, n), m) = Take(p, m)
BY DEF Take

\* The whole sequence is its longest prefix.
LEMMA TakeAll ==
    ASSUME NEW p \in Seq(Nat)
    PROVE  Take(p, Len(p)) = p
BY DEF Take

\* The empty sequence is every sequence's shortest prefix.
LEMMA TakeNone ==
    ASSUME NEW p \in Seq(Nat)
    PROVE  Take(p, 0) = <<>>
BY DEF Take

\* A prefix is what Take returns.
LEMMA PrefixIsTake ==
    ASSUME NEW p \in Seq(Nat), NEW r \in Seq(Nat)
    PROVE  IsPrefix(p, r) <=> Len(p) <= Len(r) /\ p = Take(r, Len(p))
<1>1. SubSeq(p, 1, Len(p)) = p
  BY TakeAll DEF Take
<1> QED
  BY <1>1 DEF IsPrefix, Take

-----------------------------------------------------------------------------
(* Places in a tree, and their order *)

\* A namespace and a token sequence; those of the tree are not empty.
IsSpot(x) == x = <<x[1], x[2]>> /\ x[2] \in Seq(Nat)
IsPlace(x) == IsSpot(x) /\ x[2] # <<>>

\* a is b or lies on the way to b.
Above(a, b) == a[1] = b[1] /\ IsPrefix(a[2], b[2])

\* The place n tokens below the root, on the way to b.
At(b, n) == <<b[1], Take(b[2], n)>>

\* Being above a spot is being one of its prefixes.
LEMMA AboveIsAt ==
    ASSUME NEW a, NEW b, IsSpot(a), IsSpot(b)
    PROVE  Above(a, b) <=> Len(a[2]) <= Len(b[2]) /\ a = At(b, Len(a[2]))
BY PrefixIsTake DEF Above, At, IsSpot

\* The prefix of a spot of length n is a spot above it.
LEMMA AtFacts ==
    ASSUME NEW b, IsSpot(b), NEW n \in 0..Len(b[2])
    PROVE  /\ IsSpot(At(b, n)) /\ At(b, n)[1] = b[1] /\ At(b, n)[2] = Take(b[2], n)
           /\ Len(At(b, n)[2]) = n
           /\ n # 0 => IsPlace(At(b, n))
           /\ Above(At(b, n), b)
<1>1. b[2] \in Seq(Nat) /\ Take(b[2], n) \in Seq(Nat) /\ Len(Take(b[2], n)) = n
      /\ (n # 0 => Take(b[2], n) # <<>>)
  BY TakeType DEF IsSpot
<1>2. At(b, n)[1] = b[1] /\ At(b, n)[2] = Take(b[2], n)
  BY DEF At
<1>3. IsSpot(At(b, n))
  BY <1>1, <1>2 DEF At, IsSpot
<1>4. Len(At(b, n)[2]) = n /\ (n # 0 => IsPlace(At(b, n)))
  BY <1>1, <1>2, <1>3 DEF IsPlace
<1>5. Above(At(b, n), b)
  BY <1>3, <1>4, AboveIsAt
<1> QED
  BY <1>2, <1>3, <1>4, <1>5

\* Places are the spots with a non-empty key.
LEMMA LenType ==
    ASSUME NEW a, IsSpot(a)
    PROVE  Len(a[2]) \in Nat /\ (IsPlace(a) <=> Len(a[2]) > 0)
BY DEF IsSpot, IsPlace

\* Above is reflexive.
LEMMA AboveRefl ==
    ASSUME NEW a, IsSpot(a)
    PROVE  Above(a, a) /\ At(a, Len(a[2])) = a
BY TakeAll, PrefixIsTake DEF Above, At, IsSpot

\* A prefix of a prefix of a spot.
LEMMA AtAt ==
    ASSUME NEW b, IsSpot(b), NEW n \in 0..Len(b[2]), NEW m \in 0..n
    PROVE  At(At(b, n), m) = At(b, m)
BY TakeTake, TakeType DEF At, IsSpot

\* Above is transitive.
LEMMA AboveTrans ==
    ASSUME NEW a, NEW b, NEW c, IsSpot(a), IsSpot(b), IsSpot(c),
           Above(a, b), Above(b, c)
    PROVE  Above(a, c)
<1>1. Len(a[2]) \in Nat /\ Len(b[2]) \in Nat /\ Len(c[2]) \in Nat
  BY LenType
<1>2. /\ Len(a[2]) <= Len(b[2]) /\ Len(b[2]) <= Len(c[2])
      /\ a = At(b, Len(a[2])) /\ b = At(c, Len(b[2]))
  BY AboveIsAt
<1>3. a = At(c, Len(a[2]))
  <2>1. At(At(c, Len(b[2])), Len(a[2])) = At(c, Len(a[2]))
    BY <1>1, <1>2, AtAt
  <2> QED
    BY <2>1, <1>2, Zenon
<1> QED
  BY <1>1, <1>2, <1>3, AboveIsAt

\* A spot above another is shorter, or it is the same spot.
LEMMA AboveLen ==
    ASSUME NEW a, NEW b, IsSpot(a), IsSpot(b), Above(a, b)
    PROVE  /\ Len(a[2]) <= Len(b[2])
           /\ a[1] = b[1]
           /\ Len(a[2]) = Len(b[2]) => a = b
<1>1. Len(a[2]) <= Len(b[2]) /\ a = At(b, Len(a[2]))
  BY AboveIsAt
<1>2. At(b, Len(b[2])) = b
  BY AboveRefl
<1> QED
  BY <1>1, <1>2 DEF Above

\* Above is antisymmetric.
LEMMA AboveAnti ==
    ASSUME NEW a, NEW b, IsSpot(a), IsSpot(b), Above(a, b), Above(b, a)
    PROVE  a = b
<1>1. Len(a[2]) <= Len(b[2]) /\ Len(b[2]) <= Len(a[2])
  BY AboveLen
<1>2. Len(a[2]) = Len(b[2])
  BY <1>1, LenType
<1> QED
  BY <1>2, AboveLen

\* Two places on the way to c are comparable.
LEMMA AboveTotal ==
    ASSUME NEW a, NEW b, NEW c, IsSpot(a), IsSpot(b), IsSpot(c),
           Above(a, c), Above(b, c), Len(a[2]) <= Len(b[2])
    PROVE  Above(a, b)
<1>1. Len(a[2]) \in Nat /\ Len(b[2]) \in Nat /\ Len(c[2]) \in Nat
  BY LenType
<1>2. /\ Len(b[2]) <= Len(c[2]) /\ a = At(c, Len(a[2])) /\ b = At(c, Len(b[2]))
  BY AboveIsAt
<1>3. a = At(b, Len(a[2]))
  <2>1. At(At(c, Len(b[2])), Len(a[2])) = At(c, Len(a[2]))
    BY <1>1, <1>2, AtAt
  <2> QED
    BY <2>1, <1>2, Zenon
<1> QED
  BY <1>3, AboveIsAt

-----------------------------------------------------------------------------
(* Well-formed trees *)

\* Place z lies on the edge that ends in node x.
Ends(T, z, x) ==
    /\ Above(z, x)
    /\ \A w \in DOMAIN T.nd : Above(z, w) /\ Above(w, x) => w = x

TreeShape(T) ==
    T = [pos |-> T.pos, nd |-> T.nd, evictable |-> T.evictable, protected |-> T.protected]

NodesOK(T) ==
    \A x \in DOMAIN T.nd : /\ T.nd[x] = [lock |-> T.nd[x].lock, vis |-> T.nd[x].vis]
                           /\ T.nd[x].lock \in Nat

\* Every place above a cached one is cached, and lies on exactly one edge.
PlacesOK(T) ==
    /\ \A z \in DOMAIN T.pos : IsPlace(z)
    /\ DOMAIN T.nd \subseteq DOMAIN T.pos
    /\ \A z \in DOMAIN T.pos : \A a : IsPlace(a) /\ Above(a, z) => a \in DOMAIN T.pos
    /\ \A z \in DOMAIN T.pos : \E x \in DOMAIN T.nd : Above(z, x)
    /\ \A z \in DOMAIN T.pos : \A x, y \in DOMAIN T.nd :
          Ends(T, z, x) /\ Ends(T, z, y) => x = y

TreeOK(T) == TreeShape(T) /\ NodesOK(T) /\ PlacesOK(T)

\* The first node at or below z on the way to y.
LEMMA EndsAbove ==
    ASSUME NEW T, PlacesOK(T), NEW z \in DOMAIN T.pos, NEW y \in DOMAIN T.nd, Above(z, y)
    PROVE  \E x \in DOMAIN T.nd : Ends(T, z, x) /\ Above(x, y)
<1> DEFINE W == {w \in DOMAIN T.nd : Above(z, w) /\ Above(w, y)}
           S == {Len(w[2]) : w \in W}
<1>1. \A w \in W : IsSpot(w) /\ Len(w[2]) \in Nat
  BY LenType DEF PlacesOK, IsPlace
<1>2. y \in W /\ IsSpot(y) /\ IsSpot(z)
  BY AboveRefl DEF PlacesOK, IsPlace
<1>3. S \subseteq Nat /\ S # {}
  BY <1>1, <1>2
<1>4. PICK m \in S : \A k \in S : m <= k
  <2> HIDE DEF S
  <2> QED
    BY <1>3, MinFacts
<1>5. PICK x \in W : m = Len(x[2])
  OBVIOUS
<1>6. ASSUME NEW w \in DOMAIN T.nd, Above(z, w), Above(w, x) PROVE w = x
  <2>1. IsSpot(w) /\ IsSpot(x)
    BY <1>1 DEF PlacesOK, IsPlace
  <2>2. Above(w, y)
    BY <2>1, <1>2, <1>6, AboveTrans
  <2>3. Len(x[2]) <= Len(w[2]) /\ Len(w[2]) <= Len(x[2])
    BY <2>1, <2>2, <1>4, <1>5, <1>6, AboveLen
  <2>4. Len(w[2]) = Len(x[2])
    BY <2>1, <2>3, LenType
  <2> QED
    BY <2>1, <2>4, <1>6, AboveLen
<1> QED
  BY <1>6 DEF Ends

\* Every cached place lies on an edge.
LEMMA EndsExists ==
    ASSUME NEW T, PlacesOK(T), NEW z \in DOMAIN T.pos
    PROVE  \E x \in DOMAIN T.nd : Ends(T, z, x)
<1>1. PICK y \in DOMAIN T.nd : Above(z, y)
  BY DEF PlacesOK
<1> QED
  BY <1>1, EndsAbove

-----------------------------------------------------------------------------
(* Helpers of the tree *)

\* Every node ends at a place of the tree.
LEMMA NodeIsPlace ==
    ASSUME NEW T, PlacesOK(T), NEW x \in DOMAIN T.nd
    PROVE  IsPlace(x) /\ IsSpot(x) /\ x \in DOMAIN T.pos
BY DEF PlacesOK, IsPlace

\* A node's lineage is the set of nodes above it.
LEMMA LineageFacts ==
    ASSUME NEW T, NEW x
    PROVE  Lineage(T, x) = {y \in DOMAIN T.nd : Above(y, x)}
BY DEF Lineage, Nodes, Above

\* Strict prefixes are the spots strictly above.
LEMMA StrictlyAbove ==
    ASSUME NEW x, NEW y, IsSpot(x), IsSpot(y)
    PROVE  x[1] = y[1] /\ IsStrictPrefix(x[2], y[2]) <=> Above(x, y) /\ x # y
<1>1. x = <<x[1], x[2]>> /\ y = <<y[1], y[2]>>
  BY DEF IsSpot
<1>2. (x[1] = y[1] /\ x[2] = y[2]) <=> x = y
  BY <1>1, Zenon
<1> QED
  BY <1>2 DEF IsStrictPrefix, Above

\* The descendants are the nodes strictly below.
LEMMA DescendantsFacts ==
    ASSUME NEW T, PlacesOK(T), NEW x, IsSpot(x)
    PROVE  Descendants(T, x) = {y \in DOMAIN T.nd : Above(x, y) /\ x # y}
<1>1. \A y \in DOMAIN T.nd : IsSpot(y)
  BY NodeIsPlace
<1> QED
  BY <1>1, StrictlyAbove DEF Descendants, Nodes

\* Where the edge of a node begins: below every node above it.
LEMMA ParentFacts ==
    ASSUME NEW T, PlacesOK(T), NEW x \in DOMAIN T.nd
    PROVE  /\ ParentLen(T, x) \in Nat
           /\ ParentLen(T, x) < Len(x[2])
           /\ \A w \in DOMAIN T.nd : Above(w, x) /\ w # x => Len(w[2]) <= ParentLen(T, x)
           /\ \/ ParentLen(T, x) = 0
              \/ \E w \in DOMAIN T.nd : Above(w, x) /\ w # x /\ Len(w[2]) = ParentLen(T, x)
<1> DEFINE U == {z \in Nodes(T, x[1]) : IsStrictPrefix(z[2], x[2])}
           S == {0} \cup {Len(y[2]) : y \in U}
<1>1. U = {w \in DOMAIN T.nd : Above(w, x) /\ w # x}
  BY NodeIsPlace, StrictlyAbove DEF Nodes
<1>2. /\ Len(x[2]) \in Nat /\ Len(x[2]) > 0
      /\ \A w \in U : Len(w[2]) \in Nat /\ Len(w[2]) < Len(x[2])
  <2>1. Len(x[2]) \in Nat /\ Len(x[2]) > 0
    BY NodeIsPlace, LenType
  <2>2. ASSUME NEW w \in U PROVE Len(w[2]) \in Nat /\ Len(w[2]) < Len(x[2])
    <3>1. Len(w[2]) \in Nat /\ Len(w[2]) <= Len(x[2]) /\ Len(w[2]) # Len(x[2])
      BY <1>1, NodeIsPlace, LenType, AboveLen
    <3> QED
      BY <3>1, <2>1
  <2> QED
    BY <2>1, <2>2
<1> HIDE DEF U
<1>3. S \subseteq Nat /\ S # {} /\ \A s \in S : s <= Len(x[2]) /\ s < Len(x[2])
  BY <1>2
<1>4. ParentLen(T, x) = Max(S)
  BY DEF ParentLen, U
<1>5. Max(S) \in S /\ \A s \in S : s <= Max(S)
  <2> HIDE DEF S
  <2> QED
    BY <1>2, <1>3, MaxFacts
<1> QED
  BY <1>1, <1>3, <1>4, <1>5

\* The value of node x: the places on its edge.
LEMMA PositionsFacts ==
    ASSUME NEW T, PlacesOK(T), NEW x \in DOMAIN T.nd
    PROVE  Positions(T, x) = {z \in DOMAIN T.pos : Ends(T, z, x)}
<1> DEFINE k == ParentLen(T, x)
<1>0. /\ k \in Nat /\ k < Len(x[2]) /\ Len(x[2]) \in Nat /\ IsSpot(x) /\ x \in DOMAIN T.pos
      /\ \A w \in DOMAIN T.nd : Above(w, x) /\ w # x => Len(w[2]) <= k
  BY ParentFacts, NodeIsPlace, LenType
<1>1. ASSUME NEW z \in Positions(T, x) PROVE z \in DOMAIN T.pos /\ Ends(T, z, x)
  <2>1. PICK n \in k + 1 .. Len(x[2]) : z = At(x, n)
    BY DEF Positions, At
  <2>2. n \in 0..Len(x[2]) /\ n # 0
    BY <1>0
  <2>3. IsPlace(z) /\ IsSpot(z) /\ Len(z[2]) = n /\ Above(z, x)
    BY <2>1, <2>2, <1>0, AtFacts
  <2>4. z \in DOMAIN T.pos
    BY <2>3, <1>0 DEF PlacesOK
  <2>5. ASSUME NEW w \in DOMAIN T.nd, Above(z, w), Above(w, x), w # x PROVE FALSE
    <3>1. Len(w[2]) <= k /\ n <= Len(w[2]) /\ Len(w[2]) \in Nat
      BY <2>3, <2>5, <1>0, AboveLen, NodeIsPlace, LenType
    <3> QED
      BY <3>1, <1>0
  <2> QED
    BY <2>3, <2>4, <2>5 DEF Ends
<1>2. ASSUME NEW z \in DOMAIN T.pos, Ends(T, z, x) PROVE z \in Positions(T, x)
  <2>1. IsPlace(z) /\ IsSpot(z) /\ Above(z, x) /\ Len(z[2]) \in Nat /\ Len(z[2]) > 0
    BY <1>2, LenType DEF PlacesOK, Ends, IsPlace
  <2>2. Len(z[2]) <= Len(x[2]) /\ z = At(x, Len(z[2]))
    BY <2>1, <1>0, AboveIsAt
  <2>3. Len(z[2]) > k
    <3>1. CASE k = 0
      BY <3>1, <2>1
    <3>2. CASE \E w \in DOMAIN T.nd : Above(w, x) /\ w # x /\ Len(w[2]) = k
      <4>1. PICK w \in DOMAIN T.nd : Above(w, x) /\ w # x /\ Len(w[2]) = k
        BY <3>2
      <4>2. ~Above(z, w)
        BY <4>1, <1>2 DEF Ends
      <4>3. ~(Len(z[2]) <= Len(w[2]))
        BY <4>1, <4>2, <2>1, <1>0, NodeIsPlace, AboveTotal
      <4> QED
        BY <4>1, <4>3, <2>1, <1>0
    <3> QED
      BY <3>1, <3>2, ParentFacts
  <2>4. Len(z[2]) \in k + 1 .. Len(x[2])
    BY <2>1, <2>2, <2>3, <1>0
  <2> QED
    BY <2>2, <2>4 DEF Positions, At
<1> QED
  BY <1>1, <1>2

\* total_prefix_length: exactly the first m prefixes of the key are cached.
LEMMA InsertedPrefixFacts ==
    ASSUME NEW T, PlacesOK(T), NEW ns, NEW key \in Seq(Nat)
    PROVE  LET m == InsertedPrefix(T, ns, key)
           IN  /\ m \in 0..Len(key)
               /\ \A n \in 1..Len(key) : (<<ns, Take(key, n)>> \in DOMAIN T.pos) <=> n <= m
<1> DEFINE m == InsertedPrefix(T, ns, key)
           S == {0} \cup {n \in 1..Len(key) : <<ns, Take(key, n)>> \in DOMAIN T.pos}
           b == <<ns, key>>
<1>0. Len(key) \in Nat /\ IsSpot(b) /\ b[1] = ns /\ b[2] = key
  BY DEF IsSpot
<1>1. S \subseteq Nat /\ S # {} /\ \A s \in S : s <= Len(key)
  BY <1>0
<1>2. m = Max(S)
  BY DEF InsertedPrefix
<1>3. m \in S /\ \A s \in S : s <= m
  <2> HIDE DEF S, m
  <2> QED
    BY <1>0, <1>1, <1>2, MaxFacts
<1>4. m \in 0..Len(key)
  BY <1>0, <1>3
<1>5. ASSUME NEW n \in 1..Len(key), n <= m PROVE <<ns, Take(key, n)>> \in DOMAIN T.pos
  <2>1. <<ns, Take(key, m)>> \in DOMAIN T.pos /\ m \in 0..Len(key) /\ n \in 0..m
    BY <1>3, <1>4, <1>5
  <2>2. At(b, m) \in DOMAIN T.pos /\ At(At(b, m), n) = At(b, n)
    <3> HIDE DEF m
    <3>1. At(At(b, m), n) = At(b, n)
      BY <2>1, <1>0, AtAt
    <3> QED
      BY <2>1, <3>1, <1>0 DEF At
  <2>3. IsSpot(At(b, m)) /\ Len(At(b, m)[2]) = m
    <3> HIDE DEF m
    <3> QED
      BY <2>1, <1>0, AtFacts
  <2>4. IsPlace(At(b, n)) /\ Above(At(b, n), At(b, m))
    <3> HIDE DEF m, b
    <3> QED
      BY <2>1, <2>2, <2>3, <1>0, AtFacts
  <2>5. At(b, n) \in DOMAIN T.pos
    <3> HIDE DEF m, b
    <3> QED
      BY <2>2, <2>4 DEF PlacesOK
  <2> QED
    BY <2>5 DEF At
<1> QED
  BY <1>3, <1>4, <1>5

-----------------------------------------------------------------------------
(* Locks *)

\* What IncLockRef and DecLockRef do apart from the sizes.
LEMMA IncLockFacts ==
    ASSUME NEW T, TreeShape(T), NodesOK(T), NEW x
    PROVE  LET R == IncLockRef(T, x)
           IN  /\ R.pos = T.pos /\ DOMAIN R.nd = DOMAIN T.nd
               /\ TreeShape(R) /\ NodesOK(R)
               /\ \A y \in DOMAIN T.nd :
                     /\ R.nd[y].vis = T.nd[y].vis
                     /\ R.nd[y].lock = IF Above(y, x) THEN T.nd[y].lock + 1 ELSE T.nd[y].lock
<1> DEFINE R == IncLockRef(T, x)
           f == [y \in DOMAIN T.nd |->
                    IF y \in Lineage(T, x) THEN [T.nd[y] EXCEPT !.lock = T.nd[y].lock + 1]
                    ELSE T.nd[y]]
           d == SizeOf(T, {y \in Lineage(T, x) : T.nd[y].lock = 0})
<1>0. R = [T EXCEPT !.nd = f, !.evictable = @ - d, !.protected = @ + d]
  BY DEF IncLockRef
<1>1. /\ R.pos = T.pos /\ R.nd = f
      /\ R = [pos |-> R.pos, nd |-> R.nd, evictable |-> R.evictable, protected |-> R.protected]
  <2>1. T = [pos |-> T.pos, nd |-> T.nd, evictable |-> T.evictable, protected |-> T.protected]
    BY DEF TreeShape
  <2> HIDE DEF R, f, d
  <2> QED
    BY <1>0, <2>1
<1> HIDE DEF R
<1>2. ASSUME NEW y \in DOMAIN T.nd
      PROVE  /\ f[y] = [lock |-> f[y].lock, vis |-> f[y].vis]
             /\ f[y].vis = T.nd[y].vis
             /\ f[y].lock = IF Above(y, x) THEN T.nd[y].lock + 1 ELSE T.nd[y].lock
             /\ f[y].lock \in Nat
  <2>1. T.nd[y] = [lock |-> T.nd[y].lock, vis |-> T.nd[y].vis] /\ T.nd[y].lock \in Nat
    BY DEF NodesOK
  <2>2. y \in Lineage(T, x) <=> Above(y, x)
    BY LineageFacts
  <2>3. CASE Above(y, x)
    <3>1. f[y] = [lock |-> T.nd[y].lock + 1, vis |-> T.nd[y].vis]
      BY <2>1, <2>2, <2>3
    <3> QED
      BY <3>1, <2>1, <2>3
  <2>4. CASE ~Above(y, x)
    BY <2>1, <2>2, <2>4
  <2> QED
    BY <2>3, <2>4
<1>3. DOMAIN R.nd = DOMAIN T.nd
  BY <1>1
<1> HIDE DEF f
<1>4. TreeShape(R)
  BY <1>1 DEF TreeShape
<1>5. NodesOK(R)
  BY <1>1, <1>2, <1>3 DEF NodesOK
<1>6. \A y \in DOMAIN T.nd :
        /\ R.nd[y].vis = T.nd[y].vis
        /\ R.nd[y].lock = IF Above(y, x) THEN T.nd[y].lock + 1 ELSE T.nd[y].lock
  BY <1>1, <1>2
<1> QED
  BY <1>1, <1>3, <1>4, <1>5, <1>6 DEF R

\* dec_lock_ref takes one lock off every node of the lineage and changes
\* nothing else.
LEMMA DecLockFacts ==
    ASSUME NEW T, TreeShape(T), NodesOK(T), NEW x,
           \A y \in DOMAIN T.nd : Above(y, x) => T.nd[y].lock > 0
    PROVE  LET R == DecLockRef(T, x)
           IN  /\ R.pos = T.pos /\ DOMAIN R.nd = DOMAIN T.nd
               /\ TreeShape(R) /\ NodesOK(R)
               /\ \A y \in DOMAIN T.nd :
                     /\ R.nd[y].vis = T.nd[y].vis
                     /\ R.nd[y].lock = IF Above(y, x) THEN T.nd[y].lock - 1 ELSE T.nd[y].lock
<1> DEFINE R == DecLockRef(T, x)
           f == [y \in DOMAIN T.nd |->
                    IF y \in Lineage(T, x) THEN [T.nd[y] EXCEPT !.lock = T.nd[y].lock - 1]
                    ELSE T.nd[y]]
           d == SizeOf(T, {y \in Lineage(T, x) : T.nd[y].lock = 1})
<1>0. R = [T EXCEPT !.nd = f, !.evictable = @ + d, !.protected = @ - d]
  BY DEF DecLockRef
<1>1. /\ R.pos = T.pos /\ R.nd = f
      /\ R = [pos |-> R.pos, nd |-> R.nd, evictable |-> R.evictable, protected |-> R.protected]
  <2>1. T = [pos |-> T.pos, nd |-> T.nd, evictable |-> T.evictable, protected |-> T.protected]
    BY DEF TreeShape
  <2> HIDE DEF R, f, d
  <2> QED
    BY <1>0, <2>1
<1> HIDE DEF R
<1>2. ASSUME NEW y \in DOMAIN T.nd
      PROVE  /\ f[y] = [lock |-> f[y].lock, vis |-> f[y].vis]
             /\ f[y].vis = T.nd[y].vis
             /\ f[y].lock = IF Above(y, x) THEN T.nd[y].lock - 1 ELSE T.nd[y].lock
             /\ f[y].lock \in Nat
  <2>1. /\ T.nd[y] = [lock |-> T.nd[y].lock, vis |-> T.nd[y].vis] /\ T.nd[y].lock \in Nat
        /\ Above(y, x) => T.nd[y].lock > 0
    BY DEF NodesOK
  <2>2. y \in Lineage(T, x) <=> Above(y, x)
    BY LineageFacts
  <2>3. CASE Above(y, x)
    <3>1. f[y] = [lock |-> T.nd[y].lock - 1, vis |-> T.nd[y].vis]
      BY <2>1, <2>2, <2>3
    <3> QED
      BY <3>1, <2>1, <2>3
  <2>4. CASE ~Above(y, x)
    BY <2>1, <2>2, <2>4
  <2> QED
    BY <2>3, <2>4
<1>3. DOMAIN R.nd = DOMAIN T.nd
  BY <1>1
<1> HIDE DEF f
<1>4. TreeShape(R)
  BY <1>1 DEF TreeShape
<1>5. NodesOK(R)
  BY <1>1, <1>2, <1>3 DEF NodesOK
<1>6. \A y \in DOMAIN T.nd :
        /\ R.nd[y].vis = T.nd[y].vis
        /\ R.nd[y].lock = IF Above(y, x) THEN T.nd[y].lock - 1 ELSE T.nd[y].lock
  BY <1>1, <1>2
<1> QED
  BY <1>1, <1>3, <1>4, <1>5, <1>6 DEF R

\* Well-formedness depends on the places only.
LEMMA SamePlaces ==
    ASSUME NEW T, NEW R, PlacesOK(T), DOMAIN R.nd = DOMAIN T.nd, DOMAIN R.pos = DOMAIN T.pos
    PROVE  PlacesOK(R) /\ \A z, x : Ends(R, z, x) <=> Ends(T, z, x)
BY DEF PlacesOK, Ends

-----------------------------------------------------------------------------
(* Eviction *)

\* What evict may remove: unlocked nodes, with everything below them.
EvictSet(T, D) ==
    /\ D \subseteq DOMAIN T.nd
    /\ \A x \in D : T.nd[x].lock = 0
    /\ \A x \in D : \A y \in DOMAIN T.nd : Above(x, y) => y \in D

\* Every choice of evict() is closed downwards and unlocked.
LEMMA EvictFacts ==
    ASSUME NEW T, PlacesOK(T), NEW n, NEW D \in EvictChoices(T, n)
    PROVE  EvictSet(T, D)
<1> DEFINE all == Evictable(T)
<1>0. \A x \in DOMAIN T.nd : IsSpot(x) /\ Above(x, x)
  BY NodeIsPlace, AboveRefl
<1>1. \A x \in all : x \in DOMAIN T.nd /\ T.nd[x].lock = 0
  BY DEF Evictable
<1>2. \A x \in DOMAIN T.nd : x \in all <=>
          \A y \in DOMAIN T.nd : Above(x, y) => T.nd[y].lock = 0
  <2> SUFFICES ASSUME NEW x \in DOMAIN T.nd
               PROVE  x \in all <=> \A y \in DOMAIN T.nd : Above(x, y) => T.nd[y].lock = 0
    OBVIOUS
  <2>1. Descendants(T, x) = {y \in DOMAIN T.nd : Above(x, y) /\ x # y}
    BY <1>0, DescendantsFacts
  <2>2. Descendants(T, x) \cup {x} = {y \in DOMAIN T.nd : Above(x, y)}
    BY <2>1, <1>0
  <2> QED
    BY <2>2 DEF Evictable
<1>3. EvictSet(T, {})
  BY DEF EvictSet
<1>4. EvictSet(T, all)
  <2>1. ASSUME NEW x \in all, NEW y \in DOMAIN T.nd, Above(x, y) PROVE y \in all
    <3>1. ASSUME NEW z \in DOMAIN T.nd, Above(y, z) PROVE T.nd[z].lock = 0
      <4>1. Above(x, z)
        BY <2>1, <3>1, <1>0, <1>1, AboveTrans
      <4> QED
        BY <4>1, <1>1, <1>2
    <3> QED
      BY <3>1, <1>2
  <2> QED
    BY <2>1, <1>1 DEF EvictSet
<1>5. ASSUME D \in SUBSET all, \A x \in D : Descendants(T, x) \subseteq D PROVE EvictSet(T, D)
  <2>1. ASSUME NEW x \in D, NEW y \in DOMAIN T.nd, Above(x, y) PROVE y \in D
    <3>1. Descendants(T, x) = {z \in DOMAIN T.nd : Above(x, z) /\ x # z}
      BY <1>0, <1>1, <1>5, DescendantsFacts
    <3> QED
      BY <3>1, <2>1, <1>5
  <2> QED
    BY <2>1, <1>1, <1>5 DEF EvictSet
<1> HIDE DEF all
<1>6. \/ D = {}
      \/ D = all
      \/ D \in SUBSET all /\ \A x \in D : Descendants(T, x) \subseteq D
  BY DEF EvictChoices, all
<1> QED
  BY <1>3, <1>4, <1>5, <1>6

\* The places on the edges of D.
Gone(T, D) == {z \in DOMAIN T.pos : \E x \in D : Ends(T, z, x)}

\* The places that leave with a set of nodes.
LEMMA GoneFacts ==
    ASSUME NEW T, PlacesOK(T), NEW D, D \subseteq DOMAIN T.nd
    PROVE  UNION {Positions(T, x) : x \in D} = Gone(T, D)
BY PositionsFacts DEF Gone

\* The slots evict frees.
LEMMA SlotsOfFacts ==
    ASSUME NEW T, PlacesOK(T), NEW D, D \subseteq DOMAIN T.nd
    PROVE  /\ DOMAIN SlotsOf(T, D) = Gone(T, D)
           /\ \A z \in Gone(T, D) : SlotsOf(T, D)[z] = T.pos[z]
BY GoneFacts DEF SlotsOf

\* A place is gone exactly if its edge is.
LEMMA StaysFacts ==
    ASSUME NEW T, PlacesOK(T), NEW D, EvictSet(T, D), NEW z \in DOMAIN T.pos,
           NEW y \in DOMAIN T.nd, y \notin D, Above(z, y)
    PROVE  z \notin Gone(T, D)
<1> SUFFICES ASSUME NEW x \in D, Ends(T, z, x) PROVE FALSE
  BY DEF Gone
<1>1. PICK w \in DOMAIN T.nd : Ends(T, z, w) /\ Above(w, y)
  BY EndsAbove
<1>2. w = x
  BY <1>1 DEF PlacesOK, EvictSet
<1> QED
  BY <1>1, <1>2 DEF EvictSet

\* evict leaves a well-formed tree.
LEMMA DeleteFacts ==
    ASSUME NEW T, TreeOK(T), NEW D, EvictSet(T, D)
    PROVE  LET R == Delete(T, D)
           IN  /\ TreeOK(R)
               /\ DOMAIN R.nd = DOMAIN T.nd \ D
               /\ \A x \in DOMAIN R.nd : R.nd[x] = T.nd[x]
               /\ DOMAIN R.pos = DOMAIN T.pos \ Gone(T, D)
               /\ \A z \in DOMAIN R.pos : R.pos[z] = T.pos[z]
<1> DEFINE R == Delete(T, D)
           nd == [x \in DOMAIN T.nd \ D |-> T.nd[x]]
           pos == [z \in DOMAIN T.pos \ Gone(T, D) |-> T.pos[z]]
           size == SizeOf(T, D)
<1>a. PlacesOK(T) /\ NodesOK(T) /\ TreeShape(T) /\ D \subseteq DOMAIN T.nd
  BY DEF TreeOK, EvictSet
<1>0. R = [T EXCEPT !.nd = nd, !.pos = pos, !.evictable = @ - size]
  BY <1>a, GoneFacts DEF Delete, Restrict
<1>1. /\ R.pos = pos /\ R.nd = nd /\ TreeShape(R)
  <2>1. T = [pos |-> T.pos, nd |-> T.nd, evictable |-> T.evictable, protected |-> T.protected]
    BY <1>a DEF TreeShape
  <2> HIDE DEF R, nd, pos, size
  <2> QED
    BY <1>0, <2>1 DEF TreeShape
<1> HIDE DEF R
<1>2. /\ DOMAIN R.nd = DOMAIN T.nd \ D
      /\ \A x \in DOMAIN R.nd : R.nd[x] = T.nd[x]
      /\ DOMAIN R.pos = DOMAIN T.pos \ Gone(T, D)
      /\ \A z \in DOMAIN R.pos : R.pos[z] = T.pos[z]
  BY <1>1
<1> HIDE DEF nd, pos, size
<1>3. NodesOK(R)
  BY <1>2, <1>a DEF NodesOK
<1>4. DOMAIN R.nd \subseteq DOMAIN R.pos
  <2> SUFFICES ASSUME NEW x \in DOMAIN R.nd PROVE x \in DOMAIN R.pos
    OBVIOUS
  <2>1. x \in DOMAIN T.nd /\ x \notin D /\ x \in DOMAIN T.pos /\ Above(x, x)
    BY <1>2, <1>a, NodeIsPlace, AboveRefl
  <2> QED
    BY <2>1, <1>2, <1>a, StaysFacts
<1>5. ASSUME NEW z \in DOMAIN R.pos PROVE \E x \in DOMAIN R.nd : Ends(T, z, x)
  <2>1. PICK x \in DOMAIN T.nd : Ends(T, z, x)
    BY <1>2, <1>a, EndsExists
  <2>2. x \notin D
    BY <2>1, <1>2 DEF Gone
  <2> QED
    BY <2>1, <2>2, <1>2
<1>6. ASSUME NEW z \in DOMAIN R.pos, NEW a, IsPlace(a), Above(a, z) PROVE a \in DOMAIN R.pos
  <2>1. PICK x \in DOMAIN R.nd : Ends(T, z, x)
    BY <1>5
  <2>2. a \in DOMAIN T.pos
    BY <1>2, <1>6, <1>a DEF PlacesOK
  <2>3. Above(a, x)
    BY <2>1, <1>2, <1>6, <1>a, AboveTrans, NodeIsPlace DEF Ends, PlacesOK, IsPlace
  <2> QED
    BY <2>1, <2>2, <2>3, <1>2, <1>a, StaysFacts
<1>7. ASSUME NEW z \in DOMAIN R.pos, NEW x \in DOMAIN R.nd, Ends(R, z, x)
      PROVE  Ends(T, z, x)
  <2>1. ASSUME NEW w \in DOMAIN T.nd, Above(z, w), Above(w, x) PROVE w = x
    <3>1. w \notin D
      BY <2>1, <1>2 DEF EvictSet
    <3> QED
      BY <3>1, <2>1, <1>2, <1>7 DEF Ends
  <2> QED
    BY <2>1, <1>7 DEF Ends
<1>8. PlacesOK(R)
  <2>1. \A z \in DOMAIN R.pos : IsPlace(z)
    BY <1>2, <1>a DEF PlacesOK
  <2>2. \A z \in DOMAIN R.pos : \E x \in DOMAIN R.nd : Above(z, x)
    BY <1>5 DEF Ends
  <2>3. \A z \in DOMAIN R.pos : \A x, y \in DOMAIN R.nd :
           Ends(R, z, x) /\ Ends(R, z, y) => x = y
    BY <1>2, <1>7, <1>a DEF PlacesOK
  <2> QED
    BY <1>4, <1>6, <2>1, <2>2, <2>3 DEF PlacesOK
<1> QED
  BY <1>1, <1>2, <1>3, <1>8 DEF TreeOK, R

-----------------------------------------------------------------------------
(* Insertion *)

\* A node's own places are the ones below its parent.
LEMMA EdgeFacts ==
    ASSUME NEW T, PlacesOK(T), NEW z \in DOMAIN T.pos, NEW x \in DOMAIN T.nd
    PROVE  Ends(T, z, x) <=> Above(z, x) /\ ParentLen(T, x) < Len(z[2])
<1>0. /\ IsSpot(z) /\ IsSpot(x) /\ Len(z[2]) \in Nat /\ Len(x[2]) \in Nat
      /\ ParentLen(T, x) \in Nat
  BY LenType, NodeIsPlace, ParentFacts DEF PlacesOK, IsPlace
<1>1. ASSUME Ends(T, z, x) PROVE Above(z, x) /\ ParentLen(T, x) < Len(z[2])
  <2>1. z \in Positions(T, x)
    BY <1>1, PositionsFacts
  <2>2. PICK n \in ParentLen(T, x) + 1 .. Len(x[2]) : z = At(x, n)
    BY <2>1 DEF Positions, At
  <2>3. Len(z[2]) = n
    BY <2>2, <1>0, AtFacts
  <2> QED
    BY <2>2, <2>3, <1>0, <1>1 DEF Ends
<1>2. ASSUME Above(z, x), ParentLen(T, x) < Len(z[2]) PROVE Ends(T, z, x)
  <2>1. z = At(x, Len(z[2])) /\ Len(z[2]) <= Len(x[2])
    BY <1>0, <1>2, AboveIsAt
  <2>2. Len(z[2]) \in ParentLen(T, x) + 1 .. Len(x[2])
    BY <2>1, <1>0, <1>2
  <2>3. z \in Positions(T, x)
    BY <2>1, <2>2 DEF Positions, At
  <2> QED
    BY <2>3, PositionsFacts
<1> QED
  BY <1>1, <1>2

\* _split_node: the tree has a node at p afterwards, with the lock and visibility
\* of the node on whose edge p lies.
SplitOf(T, ns, p, S) ==
    /\ TreeOK(S)
    /\ S.pos = T.pos /\ S.evictable = T.evictable /\ S.protected = T.protected
    /\ DOMAIN S.nd = DOMAIN T.nd \cup (IF p = <<>> THEN {} ELSE {<<ns, p>>})
    /\ \A x \in DOMAIN T.nd : S.nd[x] = T.nd[x]
    /\ p # <<>> => \E c \in DOMAIN T.nd : Ends(T, <<ns, p>>, c) /\ S.nd[<<ns, p>>] = T.nd[c]

\* _split_node adds a node at p and changes no place and no lock of another
\* node.
LEMMA SplitFacts ==
    ASSUME NEW T, TreeOK(T), NEW ns, NEW p, p = <<>> \/ <<ns, p>> \in DOMAIN T.pos
    PROVE  SplitOf(T, ns, p, Split(T, ns, p))
<1> DEFINE S == Split(T, ns, p)
           z == <<ns, p>>
<1>a. PlacesOK(T) /\ NodesOK(T) /\ TreeShape(T)
  BY DEF TreeOK
<1>1. CASE p = <<>>
  BY <1>1 DEF Split, SplitOf
<1>2. CASE p # <<>> /\ z \in DOMAIN T.nd
  <2>1. S = T
    BY <1>2 DEF Split
  <2>2. Ends(T, z, z)
    <3>1. ASSUME NEW w \in DOMAIN T.nd, Above(z, w), Above(w, z) PROVE w = z
      BY <3>1, <1>2, <1>a, NodeIsPlace, AboveAnti
    <3> QED
      BY <3>1, <1>2, <1>a, NodeIsPlace, AboveRefl DEF Ends
  <2> QED
    BY <2>1, <2>2, <1>2 DEF SplitOf
<1>3. CASE p # <<>> /\ z \notin DOMAIN T.nd
  <2>0. z \in DOMAIN T.pos /\ IsPlace(z) /\ IsSpot(z) /\ z[1] = ns /\ z[2] = p
    BY <1>3, <1>a DEF PlacesOK, IsPlace
  <2> DEFINE Q(x) == x \in Nodes(T, ns) /\ IsPrefix(p, x[2]) /\ ParentLen(T, x) < Len(p)
             c == CHOOSE x \in Nodes(T, ns) : IsPrefix(p, x[2]) /\ ParentLen(T, x) < Len(p)
             g == [x \in {z} |-> T.nd[c]]
             nd == Updated(T.nd, g)
  <2>1. \A x : Q(x) <=> x \in DOMAIN T.nd /\ Ends(T, z, x)
    <3>1. ASSUME NEW x \in DOMAIN T.nd PROVE Q(x) <=> Ends(T, z, x)
      <4>1. Ends(T, z, x) <=> Above(z, x) /\ ParentLen(T, x) < Len(z[2])
        BY <2>0, <1>a, EdgeFacts
      <4> QED
        BY <4>1, <2>0 DEF Nodes, Above
    <3> QED
      BY <3>1 DEF Nodes
  <2>2. \E x \in DOMAIN T.nd : Ends(T, z, x)
    BY <2>0, <1>a, EndsExists
  <2>3. c \in DOMAIN T.nd /\ Ends(T, z, c)
    <3>1. \E x \in Nodes(T, ns) : IsPrefix(p, x[2]) /\ ParentLen(T, x) < Len(p)
      BY <2>1, <2>2
    <3>2. Q(c)
      BY <3>1
    <3> HIDE DEF Q, c
    <3> QED
      BY <2>1, <3>2
  <2>4. S = [T EXCEPT !.nd = nd]
    BY <1>3 DEF Split
  <2> HIDE DEF Q, c
  <2>5. DOMAIN nd = DOMAIN T.nd \cup {z} /\ nd[z] = T.nd[c]
        /\ \A x \in DOMAIN T.nd : nd[x] = T.nd[x]
    BY <1>3 DEF Updated
  <2>6. /\ S.nd = nd /\ S.pos = T.pos /\ S.evictable = T.evictable
        /\ S.protected = T.protected /\ TreeShape(S)
    <3>1. T = [pos |-> T.pos, nd |-> T.nd, evictable |-> T.evictable, protected |-> T.protected]
      BY <1>a DEF TreeShape
    <3> HIDE DEF S, nd
    <3> QED
      BY <2>4, <3>1 DEF TreeShape
  <2> HIDE DEF S, nd, g
  <2>7. NodesOK(S)
    BY <2>3, <2>5, <2>6, <1>a, ZenonT(40) DEF NodesOK
  <2>s. \A x \in DOMAIN S.nd : IsSpot(x) /\ x \in DOMAIN T.pos
    BY <2>0, <2>5, <2>6, <1>a, NodeIsPlace
  <2>8. ASSUME NEW y \in DOMAIN T.pos, NEW x \in DOMAIN T.nd, Ends(S, y, x)
        PROVE  Ends(T, y, x)
    BY <2>5, <2>6, <2>8 DEF Ends
  <2>9. ASSUME NEW y \in DOMAIN T.pos, Ends(S, y, z) PROVE Ends(T, y, c)
    <3>1. Above(y, z) /\ Above(z, c) /\ IsSpot(y) /\ IsSpot(c)
      BY <2>3, <2>9, <1>a, NodeIsPlace DEF Ends, PlacesOK, IsPlace
    <3>2. Above(y, c)
      BY <3>1, <2>0, AboveTrans
    <3>3. ASSUME NEW w \in DOMAIN T.nd, Above(y, w), Above(w, c) PROVE w = c
      <4>1. IsSpot(w)
        BY <1>a, NodeIsPlace
      <4>2. CASE Above(w, z)
        BY <4>2, <3>3, <2>5, <2>6, <2>9, <1>3 DEF Ends
      <4>3. CASE Above(z, w)
        BY <4>3, <3>3, <2>3 DEF Ends
      <4>4. Above(w, z) \/ Above(z, w)
        BY <4>1, <3>1, <3>3, <2>0, AboveTotal, LenType
      <4> QED
        BY <4>2, <4>3, <4>4
    <3> QED
      BY <3>2, <3>3 DEF Ends
  <2>10. ASSUME NEW y \in DOMAIN T.pos, Ends(S, y, z), Ends(S, y, c) PROVE FALSE
    <3>1. Above(y, z) /\ Above(z, c) /\ z \in DOMAIN S.nd
      BY <2>3, <2>5, <2>6, <2>10 DEF Ends
    <3>2. z = c
      BY <3>1, <2>10 DEF Ends
    <3> QED
      BY <3>2, <2>3, <1>3
  <2>11. ASSUME NEW y \in DOMAIN T.pos, NEW x \in DOMAIN S.nd, NEW x2 \in DOMAIN S.nd,
                Ends(S, y, x), Ends(S, y, x2)
         PROVE  x = x2
    <3>1. CASE x # z /\ x2 # z
      BY <3>1, <2>5, <2>6, <2>8, <2>11, <1>a DEF PlacesOK
    <3>2. CASE x = z /\ x2 # z
      <4>1. Ends(T, y, c) /\ Ends(T, y, x2) /\ x2 \in DOMAIN T.nd
        BY <3>2, <2>5, <2>6, <2>8, <2>9, <2>11
      <4>2. x2 = c
        BY <4>1, <2>3, <1>a DEF PlacesOK
      <4> QED
        BY <4>2, <3>2, <2>10, <2>11
    <3>3. CASE x # z /\ x2 = z
      <4>1. Ends(T, y, c) /\ Ends(T, y, x) /\ x \in DOMAIN T.nd
        BY <3>3, <2>5, <2>6, <2>8, <2>9, <2>11
      <4>2. x = c
        BY <4>1, <2>3, <1>a DEF PlacesOK
      <4> QED
        BY <4>2, <3>3, <2>10, <2>11
    <3> QED
      BY <3>1, <3>2, <3>3
  <2>12. PlacesOK(S)
    <3>1. /\ \A y \in DOMAIN S.pos : IsPlace(y)
          /\ \A y \in DOMAIN S.pos : \A a : IsPlace(a) /\ Above(a, y) => a \in DOMAIN S.pos
      BY <2>6, <1>a DEF PlacesOK
    <3>2. DOMAIN S.nd \subseteq DOMAIN S.pos
      BY <2>s, <2>6
    <3>3. \A y \in DOMAIN S.pos : \E x \in DOMAIN S.nd : Above(y, x)
      BY <2>5, <2>6, <1>a DEF PlacesOK
    <3> QED
      BY <3>1, <3>2, <3>3, <2>6, <2>11 DEF PlacesOK
  <2> QED
    BY <2>3, <2>5, <2>6, <2>7, <2>12, <1>3 DEF SplitOf, TreeOK, S
<1> QED
  BY <1>1, <1>2, <1>3

\* The rest of a key hung below its cached prefix: the places of b beyond length
\* m are new, and those at the lengths of E become nodes.
LEMMA ChainFacts ==
    ASSUME NEW T, PlacesOK(T), NEW b, IsPlace(b), NEW m \in Nat, m < Len(b[2]),
           m = 0 \/ At(b, m) \in DOMAIN T.nd,
           \A n \in m + 1 .. Len(b[2]) : At(b, n) \notin DOMAIN T.pos,
           NEW E, E \subseteq m + 1 .. Len(b[2]), Len(b[2]) \in E,
           NEW R,
           DOMAIN R.pos = DOMAIN T.pos \cup {At(b, n) : n \in m + 1 .. Len(b[2])},
           DOMAIN R.nd = DOMAIN T.nd \cup {At(b, n) : n \in E}
    PROVE  /\ PlacesOK(R)
           /\ \A z \in DOMAIN T.pos : \A x \in DOMAIN R.nd :
                 Ends(R, z, x) <=> (x \in DOMAIN T.nd /\ Ends(T, z, x))
           /\ \A n \in m + 1 .. Len(b[2]) : \A x \in DOMAIN R.nd :
                 Ends(R, At(b, n), x) => x \notin DOMAIN T.pos
<1> DEFINE L == Len(b[2])
           N == {At(b, n) : n \in m + 1 .. L}
           K == {At(b, n) : n \in E}
<1>0. /\ L \in Nat /\ IsSpot(b) /\ K \subseteq N /\ At(b, L) = b /\ b \in K
      /\ DOMAIN R.pos = DOMAIN T.pos \cup N /\ DOMAIN R.nd = DOMAIN T.nd \cup K
      /\ N \cap DOMAIN T.pos = {}
  <2>1. L \in Nat /\ IsSpot(b) /\ At(b, L) = b
    BY LenType, AboveRefl DEF IsPlace
  <2> QED
    BY <2>1
<1>1. ASSUME NEW z \in N
      PROVE  /\ IsPlace(z) /\ IsSpot(z) /\ Above(z, b) /\ Len(z[2]) \in Nat
             /\ Len(z[2]) > m /\ Len(z[2]) <= L /\ z \notin DOMAIN T.pos
  <2>1. PICK n \in m + 1 .. L : z = At(b, n)
    OBVIOUS
  <2>2. n \in 0..L /\ n # 0 /\ n > m
    BY <1>0
  <2> QED
    BY <2>1, <2>2, <1>0, AtFacts
<1>2. ASSUME NEW z, IsPlace(z), Above(z, b) PROVE z \in N \/ (m > 0 /\ Above(z, At(b, m)))
  <2>1. IsSpot(z) /\ Len(z[2]) \in Nat /\ Len(z[2]) > 0 /\ Len(z[2]) <= L /\ z = At(b, Len(z[2]))
    BY <1>2, <1>0, LenType, AboveIsAt DEF IsPlace
  <2>2. CASE Len(z[2]) > m
    <3>1. Len(z[2]) \in m + 1 .. L
      BY <2>1, <2>2, <1>0
    <3> QED
      BY <2>1, <3>1
  <2>3. CASE Len(z[2]) <= m
    <3>1. m \in 0..L /\ m > 0
      BY <2>1, <2>3, <1>0
    <3>2. IsSpot(At(b, m)) /\ Above(At(b, m), b) /\ Len(At(b, m)[2]) = m
      BY <3>1, <1>0, AtFacts
    <3>3. Above(z, At(b, m))
      BY <2>1, <2>3, <3>2, <1>0, <1>2, AboveTotal
    <3> QED
      BY <3>1, <3>3
  <2> QED
    BY <2>1, <2>2, <2>3
<1> HIDE DEF L, N, K
<1>p. /\ \A x \in DOMAIN T.pos : IsPlace(x) /\ IsSpot(x)
      /\ \A x \in DOMAIN R.nd : IsPlace(x) /\ IsSpot(x) /\ x \in DOMAIN R.pos
      /\ \A x \in DOMAIN R.pos : IsPlace(x) /\ IsSpot(x)
      /\ DOMAIN T.nd \subseteq DOMAIN T.pos
  BY <1>0, <1>1 DEF PlacesOK, IsPlace
<1>3. ASSUME NEW z \in N, NEW x \in DOMAIN T.pos PROVE ~Above(z, x)
  BY <1>1 DEF PlacesOK
<1>4. ASSUME NEW z \in DOMAIN T.pos, NEW x \in DOMAIN R.nd, Ends(R, z, x)
      PROVE  x \in DOMAIN T.nd /\ Ends(T, z, x)
  <2>1. ASSUME x \in K PROVE FALSE
    <3>1. Above(z, x) /\ Above(x, b) /\ IsSpot(x) /\ x \in N /\ Len(x[2]) > m /\ Len(x[2]) \in Nat
      BY <2>1, <1>0, <1>1, <1>4 DEF Ends
    <3>2. Above(z, b)
      BY <3>1, <1>p, <1>0, AboveTrans
    <3>3. m > 0 /\ Above(z, At(b, m))
      BY <3>2, <1>2, <1>0, <1>p
    <3>4. At(b, m) \in DOMAIN T.nd /\ m \in 0..L
      BY <3>3, <1>0 DEF L
    <3>5. IsSpot(At(b, m)) /\ Above(At(b, m), b) /\ Len(At(b, m)[2]) = m
      BY <3>4, <1>0, AtFacts DEF L
    <3>6. Above(At(b, m), x)
      BY <3>1, <3>5, <1>0, AboveTotal
    <3>7. At(b, m) = x
      BY <3>3, <3>4, <3>6, <1>0, <1>4 DEF Ends
    <3> QED
      BY <3>7, <3>5, <3>1
  <2>2. x \in DOMAIN T.nd
    BY <2>1, <1>0
  <2> QED
    BY <2>2, <1>0, <1>4 DEF Ends
<1>5. ASSUME NEW z \in DOMAIN T.pos, NEW x \in DOMAIN T.nd, Ends(T, z, x)
      PROVE  Ends(R, z, x)
  <2>1. ASSUME NEW w \in DOMAIN R.nd, Above(z, w), Above(w, x) PROVE w = x
    <3>1. w \notin K
      BY <2>1, <1>0, <1>3, <1>p
    <3> QED
      BY <3>1, <2>1, <1>0, <1>5 DEF Ends
  <2> QED
    BY <2>1, <1>5 DEF Ends
<1>6. ASSUME NEW z \in N, NEW x \in DOMAIN R.nd, Ends(R, z, x)
      PROVE  x \in K /\ x \notin DOMAIN T.pos
  <2>1. x \notin DOMAIN T.pos
    BY <1>3, <1>6 DEF Ends
  <2> QED
    BY <2>1, <1>0, <1>p
<1>7. ASSUME NEW z \in N, NEW x \in DOMAIN R.nd, NEW y \in DOMAIN R.nd,
             Ends(R, z, x), Ends(R, z, y)
      PROVE  x = y
  <2>1. x \in N /\ y \in N
    BY <1>6, <1>7, <1>0
  <2>2. Above(x, y) \/ Above(y, x)
    <3>1. /\ IsSpot(x) /\ IsSpot(y) /\ Above(x, b) /\ Above(y, b)
          /\ Len(x[2]) \in Nat /\ Len(y[2]) \in Nat
      BY <2>1, <1>1
    <3> QED
      BY <3>1, <1>0, AboveTotal
  <2> QED
    BY <2>2, <1>7 DEF Ends
<1>8. PlacesOK(R)
  <2>1. DOMAIN R.nd \subseteq DOMAIN R.pos
    BY <1>p
  <2>2. ASSUME NEW z \in DOMAIN R.pos, NEW a, IsPlace(a), Above(a, z) PROVE a \in DOMAIN R.pos
    <3>1. CASE z \in DOMAIN T.pos
      BY <3>1, <2>2, <1>0 DEF PlacesOK
    <3>2. CASE z \in N
      <4>1. IsSpot(a) /\ IsSpot(z) /\ Above(z, b)
        BY <3>2, <2>2, <1>1 DEF IsPlace
      <4>2. Above(a, b)
        BY <4>1, <2>2, <1>0, AboveTrans
      <4>3. CASE a \in N
        BY <4>3, <1>0
      <4>4. CASE m > 0 /\ Above(a, At(b, m))
        <5>1. At(b, m) \in DOMAIN T.pos
          BY <4>4, <1>p
        <5> QED
          BY <5>1, <4>4, <2>2, <1>0 DEF PlacesOK
      <4> QED
        BY <4>2, <4>3, <4>4, <2>2, <1>2
    <3> QED
      BY <3>1, <3>2, <1>0
  <2>3. ASSUME NEW z \in DOMAIN R.pos PROVE \E x \in DOMAIN R.nd : Above(z, x)
    <3>1. CASE z \in DOMAIN T.pos
      BY <3>1, <1>0 DEF PlacesOK
    <3>2. CASE z \in N
      BY <3>2, <1>0, <1>1
    <3> QED
      BY <3>1, <3>2, <1>0
  <2>4. ASSUME NEW z \in DOMAIN R.pos, NEW x \in DOMAIN R.nd, NEW y \in DOMAIN R.nd,
               Ends(R, z, x), Ends(R, z, y)
        PROVE  x = y
    <3>1. CASE z \in DOMAIN T.pos
      BY <3>1, <2>4, <1>4 DEF PlacesOK
    <3>2. CASE z \in N
      BY <3>2, <2>4, <1>7
    <3> QED
      BY <3>1, <3>2, <1>0
  <2> QED
    BY <2>1, <2>2, <2>3, <2>4, <1>p DEF PlacesOK
<1>9. \A n \in m + 1 .. Len(b[2]) : At(b, n) \in N
  BY DEF N, L
<1> QED
  BY <1>4, <1>5, <1>6, <1>8, <1>9

-----------------------------------------------------------------------------
(* Sizes *)

\* The places on unlocked and on locked edges; evictable_size_ and
\* protected_size_ count them.
Loose(T) == Gone(T, {x \in DOMAIN T.nd : T.nd[x].lock = 0})
Tight(T) == Gone(T, {x \in DOMAIN T.nd : T.nd[x].lock > 0})
SizesOK(T) ==
    /\ IsFiniteSet(DOMAIN T.pos)
    /\ T.evictable = Cardinality(Loose(T))
    /\ T.protected = Cardinality(Tight(T))

\* What SizeOf returns for the unlocked and for the locked nodes.
LEMMA SizeOfFacts ==
    ASSUME NEW T, PlacesOK(T)
    PROVE  /\ SizeOf(T, {x \in DOMAIN T.nd : T.nd[x].lock = 0}) = Cardinality(Loose(T))
           /\ SizeOf(T, {x \in DOMAIN T.nd : T.nd[x].lock > 0}) = Cardinality(Tight(T))
           /\ \A D : D \subseteq DOMAIN T.nd => SizeOf(T, D) = Cardinality(Gone(T, D))
BY GoneFacts DEF SizeOf, Loose, Tight

\* Loose and tight places of a well-formed tree.
LEMMA LooseFacts ==
    ASSUME NEW T, PlacesOK(T), NodesOK(T), NEW z \in DOMAIN T.pos, NEW x \in DOMAIN T.nd,
           Ends(T, z, x)
    PROVE  /\ z \in Loose(T) <=> T.nd[x].lock = 0
           /\ z \in Tight(T) <=> T.nd[x].lock > 0
           /\ \A D : D \subseteq DOMAIN T.nd => (z \in Gone(T, D) <=> x \in D)
<1>1. \A y \in DOMAIN T.nd : Ends(T, z, y) => y = x
  BY DEF PlacesOK
<1> QED
  BY <1>1 DEF Loose, Tight, Gone

\* Loose, tight and evicted places are places of the tree.
LEMMA LooseSubset ==
    ASSUME NEW T
    PROVE  Loose(T) \subseteq DOMAIN T.pos /\ Tight(T) \subseteq DOMAIN T.pos
           /\ \A D : Gone(T, D) \subseteq DOMAIN T.pos
BY DEF Loose, Tight, Gone

\* What a request, holding a node of T, sees of the tree R it has become: the nodes
\* it knew, and new ones that are unlocked or halves of the old ones.
Grown(T, R) ==
    /\ TreeOK(R)
    /\ DOMAIN T.pos \subseteq DOMAIN R.pos
    /\ DOMAIN T.nd \subseteq DOMAIN R.nd
    /\ \A z \in DOMAIN T.pos : R.pos[z] = T.pos[z]
    /\ \A x \in DOMAIN T.nd : R.nd[x].lock = T.nd[x].lock
    /\ \A x \in DOMAIN R.nd \ DOMAIN T.nd :
          \/ R.nd[x].lock = 0 /\ x \notin DOMAIN T.pos
          \/ \E c \in DOMAIN T.nd : Ends(T, x, c) /\ R.nd[x].lock = T.nd[c].lock
    /\ SizesOK(T) => SizesOK(R)

\* A place on the edge of a new half was on the edge of the node it halves.
LEMMA EndsThrough ==
    ASSUME NEW T, NEW S, PlacesOK(T), PlacesOK(S), DOMAIN T.nd \subseteq DOMAIN S.nd,
           NEW z \in DOMAIN T.pos, NEW x \in DOMAIN S.nd, x \notin DOMAIN T.nd,
           Ends(S, z, x), NEW c \in DOMAIN T.nd, Ends(T, x, c)
    PROVE  Ends(T, z, c)
<1>1. IsSpot(z) /\ IsSpot(x) /\ IsSpot(c) /\ Above(z, x) /\ Above(x, c)
  BY NodeIsPlace DEF Ends, PlacesOK, IsPlace
<1>2. Above(z, c)
  BY <1>1, AboveTrans
<1>3. ASSUME NEW w \in DOMAIN T.nd, Above(z, w), Above(w, c) PROVE w = c
  <2>1. IsSpot(w)
    BY NodeIsPlace
  <2>2. CASE Above(w, x)
    BY <2>2, <1>3 DEF Ends
  <2>3. CASE Above(x, w)
    BY <2>3, <1>3 DEF Ends
  <2>4. Above(w, x) \/ Above(x, w)
    BY <2>1, <1>1, <1>3, AboveTotal, LenType
  <2> QED
    BY <2>2, <2>3, <2>4
<1> QED
  BY <1>2, <1>3 DEF Ends

\* A split changes no size.
LEMMA SplitGrown ==
    ASSUME NEW T, TreeOK(T), NEW ns, NEW p, NEW S, SplitOf(T, ns, p, S)
    PROVE  Grown(T, S)
<1>0. /\ TreeOK(S) /\ PlacesOK(S) /\ NodesOK(S) /\ PlacesOK(T) /\ NodesOK(T)
      /\ DOMAIN T.nd \subseteq DOMAIN S.nd /\ S.pos = T.pos
      /\ \A x \in DOMAIN T.nd : S.nd[x] = T.nd[x]
  BY DEF TreeOK, SplitOf
<1>1. \A x \in DOMAIN S.nd \ DOMAIN T.nd :
         \E c \in DOMAIN T.nd : Ends(T, x, c) /\ S.nd[x].lock = T.nd[c].lock
  BY DEF SplitOf
<1>2. ASSUME NEW z \in DOMAIN T.pos, NEW x \in DOMAIN S.nd, Ends(S, z, x)
      PROVE  \E y \in DOMAIN T.nd : Ends(T, z, y) /\ T.nd[y].lock = S.nd[x].lock
  <2>1. CASE x \in DOMAIN T.nd
    <3>1. Ends(T, z, x)
      BY <2>1, <1>0, <1>2 DEF Ends
    <3> QED
      BY <3>1, <2>1, <1>0
  <2>2. CASE x \notin DOMAIN T.nd
    <3>1. PICK c \in DOMAIN T.nd : Ends(T, x, c) /\ S.nd[x].lock = T.nd[c].lock
      BY <2>2, <1>1
    <3>2. Ends(T, z, c)
      BY <3>1, <2>2, <1>0, <1>2, EndsThrough
    <3> QED
      BY <3>1, <3>2
  <2> QED
    BY <2>1, <2>2
<1>3. ASSUME NEW z \in DOMAIN T.pos
      PROVE  (z \in Loose(S) <=> z \in Loose(T)) /\ (z \in Tight(S) <=> z \in Tight(T))
  <2>1. PICK x \in DOMAIN S.nd : Ends(S, z, x)
    BY <1>0, EndsExists
  <2>2. PICK y \in DOMAIN T.nd : Ends(T, z, y) /\ T.nd[y].lock = S.nd[x].lock
    BY <2>1, <1>2
  <2> QED
    BY <2>1, <2>2, <1>0, LooseFacts
<1>4. Loose(S) = Loose(T) /\ Tight(S) = Tight(T)
  BY <1>0, <1>3, LooseSubset
<1>5. SizesOK(T) => SizesOK(S)
  BY <1>0, <1>4 DEF SizesOK, SplitOf
<1> QED
  BY <1>0, <1>1, <1>5 DEF Grown

\* As many places as lengths.
LEMMA ChainSize ==
    ASSUME NEW b, IsSpot(b), NEW m \in Nat, m < Len(b[2])
    PROVE  /\ IsFiniteSet({At(b, n) : n \in m + 1 .. Len(b[2])})
           /\ Cardinality({At(b, n) : n \in m + 1 .. Len(b[2])}) = Len(b[2]) - m
<1> DEFINE I == m + 1 .. Len(b[2])
           N == {At(b, n) : n \in I}
           f == [n \in I |-> At(b, n)]
<1>1. Len(b[2]) \in Nat
  BY LenType
<1>2. \A n \in I : Len(At(b, n)[2]) = n
  BY <1>1, AtFacts
<1>3. f \in Bijection(I, N)
  <2>1. f \in [I -> N]
    OBVIOUS
  <2>2. \A i, j \in I : f[i] = f[j] => i = j
    BY <1>2
  <2>3. \A y \in N : \E i \in I : f[i] = y
    OBVIOUS
  <2> QED
    BY <2>1, <2>2, <2>3 DEF Bijection, Injection, Surjection, IsInjective
<1>4. ExistsBijection(I, N)
  BY <1>3 DEF ExistsBijection
<1>5. IsFiniteSet(I) /\ Cardinality(I) = Len(b[2]) - m
  <2>1. m + 1 \in Int /\ Len(b[2]) \in Int /\ ~(m + 1 > Len(b[2]))
    BY <1>1
  <2> QED
    BY <2>1, FS_Interval, <1>1, SMTT(30)
<1> HIDE DEF I, N, f
<1>6. IsFiniteSet(N) /\ Cardinality(N) = Cardinality(I)
  BY <1>4, <1>5, FS_Bijection
<1> QED
  BY <1>5, <1>6 DEF N, I

\* _insert_helper: every prefix of the key is cached afterwards, the new ones in
\* the slots of value, and a node ends at the key.
InsertOf(T, ns, key, value, R) ==
    /\ Grown(T, R)
    /\ DOMAIN R.pos = DOMAIN T.pos \cup {<<ns, Take(key, n)>> : n \in 1..Len(key)}
    /\ \A n \in InsertedPrefix(T, ns, key) + 1 .. Len(key) :
          R.pos[<<ns, Take(key, n)>>] = value[n]
    /\ key # <<>> => <<ns, key>> \in DOMAIN R.nd

\* _insert_helper adds exactly the missing places of the key and keeps the tree
\* well formed.
LEMMA InsertFacts ==
    ASSUME NEW T, TreeOK(T), NEW ns, NEW key \in Seq(Nat), NEW value,
           NEW chunk \in Nat \ {0}, NEW vis
    PROVE  InsertOf(T, ns, key, value, InsertHelper(T, ns, key, value, chunk, vis))
<1> DEFINE m == InsertedPrefix(T, ns, key)
           L == Len(key)
           b == <<ns, key>>
           S == Split(T, ns, Take(key, m))
           E == {n \in m + 1 .. L : n = L \/ (n - m) % chunk = 0}
           N == {At(b, n) : n \in m + 1 .. L}
           K == {At(b, n) : n \in E}
           f == [x \in N |-> value[Len(x[2])]]
           g == [x \in K |-> [lock |-> 0, vis |-> vis]]
           R == InsertHelper(T, ns, key, value, chunk, vis)
<1>0. PlacesOK(T) /\ NodesOK(T) /\ TreeShape(T) /\ L \in Nat /\ IsSpot(b) /\ b[1] = ns /\ b[2] = key
  BY DEF TreeOK, IsSpot
<1>1. /\ m \in 0..L
      /\ \A n \in 1..L : (At(b, n) \in DOMAIN T.pos) <=> n <= m
  BY <1>0, InsertedPrefixFacts DEF At
<1>2. SplitOf(T, ns, Take(key, m), S)
  <2>1. CASE m = 0
    <3>1. Take(key, m) = <<>>
      BY <2>1, TakeNone
    <3> QED
      BY <3>1, SplitFacts
  <2>2. CASE m # 0
    <3>1. m \in 1..L /\ m <= m
      BY <2>2, <1>0, <1>1
    <3>2. <<ns, Take(key, m)>> \in DOMAIN T.pos
      BY <3>1, <1>1 DEF At
    <3> QED
      BY <3>2, SplitFacts
  <2> QED
    BY <2>1, <2>2
<1>3. /\ Grown(T, S) /\ TreeOK(S) /\ PlacesOK(S) /\ NodesOK(S) /\ TreeShape(S) /\ S.pos = T.pos
      /\ DOMAIN T.nd \subseteq DOMAIN S.nd
  BY <1>2, SplitGrown DEF SplitOf, TreeOK
<1>4. R = [S EXCEPT !.pos = Updated(@, f), !.nd = Updated(@, g), !.evictable = @ + (L - m)]
  BY DEF InsertHelper, At
<1> HIDE DEF S, R
<1>5. /\ R.pos = Updated(S.pos, f) /\ R.nd = Updated(S.nd, g) /\ TreeShape(R)
      /\ R.evictable = S.evictable + (L - m) /\ R.protected = S.protected
  <2>1. S = [pos |-> S.pos, nd |-> S.nd, evictable |-> S.evictable, protected |-> S.protected]
    BY <1>3 DEF TreeShape
  <2> HIDE DEF f, g, m, L
  <2> QED
    BY <1>4, <2>1 DEF TreeShape
<1> HIDE DEF m
<1>6. N \cap DOMAIN S.pos = {} /\ K \subseteq N /\ N \cap DOMAIN S.nd = {}
  <2>1. \A n \in m + 1 .. L : At(b, n) \notin DOMAIN T.pos
    BY <1>0, <1>1, SMTT(20)
  <2>2. DOMAIN S.nd \subseteq DOMAIN S.pos
    BY <1>3 DEF PlacesOK
  <2> HIDE DEF b, L
  <2> QED
    BY <2>1, <2>2, <1>3
<1>7. /\ DOMAIN R.pos = DOMAIN S.pos \cup N /\ DOMAIN R.nd = DOMAIN S.nd \cup K
      /\ \A z \in DOMAIN S.pos : R.pos[z] = S.pos[z]
      /\ \A z \in N : R.pos[z] = value[Len(z[2])]
      /\ \A x \in DOMAIN S.nd : R.nd[x] = S.nd[x]
      /\ \A x \in K : R.nd[x] = [lock |-> 0, vis |-> vis]
  <2> HIDE DEF N, K
  <2> QED
    BY <1>5, <1>6 DEF Updated
<1>8. NodesOK(R)
  <2> HIDE DEF N, K
  <2> QED
    BY <1>7, <1>3 DEF NodesOK
<1>9. DOMAIN R.pos = DOMAIN T.pos \cup {<<ns, Take(key, n)>> : n \in 1..L}
  <2>1. ASSUME NEW n \in 1..L PROVE At(b, n) \in DOMAIN T.pos \/ n \in m + 1 .. L
    <3> HIDE DEF b, L
    <3>1. n <= m \/ n \in m + 1 .. L
      BY <1>0, <1>1
    <3> QED
      BY <3>1, <1>1
  <2>2. \A n \in m + 1 .. L : n \in 1..L
    BY <1>0, <1>1
  <2>3. DOMAIN R.pos = DOMAIN T.pos \cup {At(b, n) : n \in 1..L}
    <3> HIDE DEF b, L
    <3> QED
      BY <2>1, <2>2, <1>3, <1>7
  <2> QED
    BY <2>3 DEF At
<1>10. \A n \in m + 1 .. L : R.pos[<<ns, Take(key, n)>>] = value[n]
  <2> SUFFICES ASSUME NEW n \in m + 1 .. L PROVE R.pos[At(b, n)] = value[n]
    BY DEF At
  <2>1. n \in 0..Len(b[2])
    BY <1>0, <1>1
  <2>2. Len(At(b, n)[2]) = n
    BY <2>1, <1>0, AtFacts
  <2> QED
    BY <2>2, <1>7
<1>11. CASE m = L
  <2>1. N = {} /\ K = {}
    BY <1>0, <1>11
  <2>2. DOMAIN R.pos = DOMAIN S.pos /\ DOMAIN R.nd = DOMAIN S.nd
    BY <2>1, <1>7
  <2>3. PlacesOK(R) /\ \A z, x : Ends(R, z, x) <=> Ends(S, z, x)
    BY <2>2, <1>3, SamePlaces
  <2>4. Loose(R) = Loose(S) /\ Tight(R) = Tight(S)
    BY <2>2, <2>3, <1>7 DEF Loose, Tight, Gone
  <2>5. SizesOK(S) => SizesOK(R)
    <3>1. ASSUME SizesOK(S) PROVE R.evictable = S.evictable
      <4>1. S.evictable \in Nat
        <5>1. IsFiniteSet(Loose(S))
          BY <3>1, LooseSubset, FS_Subset DEF SizesOK
        <5> QED
          BY <5>1, <3>1, FS_CardinalityType DEF SizesOK
      <4> QED
        BY <4>1, <1>5, <1>11, <1>0
    <3> QED
      BY <3>1, <2>2, <2>4, <1>5 DEF SizesOK
  <2>6. Grown(T, R)
    <3> HIDE DEF N, K
    <3> QED
      BY <2>2, <2>3, <2>5, <1>3, <1>5, <1>7, <1>8 DEF Grown, TreeOK
  <2>7. key # <<>> => <<ns, key>> \in DOMAIN R.nd
    <3>1. Take(key, m) = key
      BY <1>11, TakeAll
    <3> QED
      BY <3>1, <2>2, <1>2 DEF SplitOf
  <2> QED
    BY <2>6, <2>7, <1>9, <1>10 DEF InsertOf, R, m
<1>12. CASE m # L
  <2>1. m \in Nat /\ m < L /\ IsPlace(b) /\ L \in E /\ E \subseteq m + 1 .. L
    <3>1. m \in Nat /\ m < L
      BY <1>0, <1>1, <1>12
    <3>2. key # <<>>
      BY <3>1
    <3> QED
      BY <3>1, <3>2, <1>0 DEF IsPlace
  <2>2. m = 0 \/ At(b, m) \in DOMAIN S.nd
    <3>1. ASSUME m # 0 PROVE At(b, m) \in DOMAIN S.nd
      <4>1. Take(key, m) # <<>>
        BY <3>1, <1>1, TakeType
      <4> QED
        BY <4>1, <1>2 DEF SplitOf, At
    <3> QED
      BY <3>1
  <2>3. \A n \in m + 1 .. L : At(b, n) \notin DOMAIN S.pos
    <3> HIDE DEF b, L
    <3> QED
      BY <1>6
  <2>4. /\ PlacesOK(R)
        /\ \A z \in DOMAIN S.pos : \A x \in DOMAIN R.nd :
              Ends(R, z, x) <=> (x \in DOMAIN S.nd /\ Ends(S, z, x))
        /\ \A n \in m + 1 .. L : \A x \in DOMAIN R.nd :
              Ends(R, At(b, n), x) => x \notin DOMAIN S.pos
    <3>1. DOMAIN R.pos = DOMAIN S.pos \cup {At(b, n) : n \in m + 1 .. Len(b[2])}
      BY <1>7, <1>0
    <3>2. /\ m < Len(b[2]) /\ E \subseteq m + 1 .. Len(b[2]) /\ Len(b[2]) \in E
          /\ \A n \in m + 1 .. Len(b[2]) : At(b, n) \notin DOMAIN S.pos
      BY <2>1, <2>3
    <3>3. L = Len(b[2]) /\ DOMAIN R.nd = DOMAIN S.nd \cup {At(b, n) : n \in E}
      BY <1>0, <1>7
    <3> HIDE DEF b, L, E, K, N
    <3>4. /\ PlacesOK(R)
          /\ \A z \in DOMAIN S.pos : \A x \in DOMAIN R.nd :
                Ends(R, z, x) <=> (x \in DOMAIN S.nd /\ Ends(S, z, x))
          /\ \A n \in m + 1 .. Len(b[2]) : \A x \in DOMAIN R.nd :
                Ends(R, At(b, n), x) => x \notin DOMAIN S.pos
      BY <2>1, <2>2, <3>1, <3>2, <3>3, <1>3, ChainFacts
    <3> QED
      BY <3>3, <3>4
  <2>5. IsFiniteSet(N) /\ Cardinality(N) = L - m
    <3>1. IsFiniteSet({At(b, n) : n \in m + 1 .. Len(b[2])})
          /\ Cardinality({At(b, n) : n \in m + 1 .. Len(b[2])}) = Len(b[2]) - m
      BY <2>1, <1>0, ChainSize
    <3> QED
      BY <3>1
  <2>k. \A n \in m + 1 .. L : At(b, n) \in N
    OBVIOUS
  <2> HIDE DEF N, K, E
  <2>n. \A z \in N : \A x \in DOMAIN R.nd : Ends(R, z, x) => x \notin DOMAIN S.pos
    BY <2>4 DEF N
  <2>6. Loose(R) = Loose(S) \cup N /\ Tight(R) = Tight(S) /\ Loose(S) \cap N = {}
    <3>1. ASSUME NEW z \in DOMAIN S.pos
          PROVE  (z \in Loose(R) <=> z \in Loose(S)) /\ (z \in Tight(R) <=> z \in Tight(S))
      <4>1. PICK x \in DOMAIN S.nd : Ends(S, z, x)
        BY <1>3, EndsExists
      <4>2. x \in DOMAIN R.nd /\ Ends(R, z, x) /\ R.nd[x] = S.nd[x] /\ z \in DOMAIN R.pos
        BY <4>1, <2>4, <1>7
      <4> QED
        BY <4>1, <4>2, <2>4, <1>3, <1>8, LooseFacts
    <3>2. ASSUME NEW z \in N PROVE z \in Loose(R) /\ z \notin Tight(R)
      <4>1. PICK x \in DOMAIN R.nd : Ends(R, z, x)
        BY <2>4, <1>7, EndsExists
      <4>2. x \in K
        BY <4>1, <2>n, <1>7, <1>3 DEF PlacesOK
      <4>3. R.nd[x].lock = 0
        BY <4>2, <1>7
      <4> QED
        BY <4>1, <4>3, <2>4, <1>7, <1>8, LooseFacts
    <3>3. /\ Loose(R) \subseteq DOMAIN S.pos \cup N /\ Tight(R) \subseteq DOMAIN S.pos \cup N
          /\ Loose(S) \subseteq DOMAIN S.pos /\ Tight(S) \subseteq DOMAIN S.pos
      BY <1>7, LooseSubset
    <3> QED
      BY <3>1, <3>2, <3>3, <1>6
  <2>7. SizesOK(S) => SizesOK(R)
    <3> SUFFICES ASSUME SizesOK(S) PROVE SizesOK(R)
      OBVIOUS
    <3>1. IsFiniteSet(DOMAIN R.pos)
      <4>1. IsFiniteSet(DOMAIN S.pos)
        BY DEF SizesOK
      <4>2. IsFiniteSet(DOMAIN S.pos \cup N)
        BY <4>1, <2>5, FS_Union
      <4> QED
        BY <4>2, <1>7
    <3>2. IsFiniteSet(Loose(S)) /\ Cardinality(Loose(S)) \in Nat
      BY LooseSubset, FS_Subset, FS_CardinalityType DEF SizesOK
    <3>3. Cardinality(Loose(S) \cup N) = Cardinality(Loose(S)) + Cardinality(N) - Cardinality({})
      BY <3>2, <2>5, <2>6, FS_Union
    <3>4. Cardinality({}) = 0
      BY FS_EmptySet
    <3>5. R.evictable = Cardinality(Loose(R))
      BY <3>2, <3>3, <3>4, <2>5, <2>6, <2>1, <1>0, <1>5 DEF SizesOK
    <3> QED
      BY <3>1, <3>5, <2>6, <1>5 DEF SizesOK
  <2>8. Grown(T, R)
    <3>1. ASSUME NEW x \in DOMAIN R.nd \ DOMAIN T.nd
          PROVE  \/ R.nd[x].lock = 0 /\ x \notin DOMAIN T.pos
                 \/ \E c \in DOMAIN T.nd : Ends(T, x, c) /\ R.nd[x].lock = T.nd[c].lock
      <4>1. CASE x \in K
        BY <4>1, <1>3, <1>6, <1>7
      <4>2. CASE x \in DOMAIN S.nd
        BY <4>2, <1>3, <1>7 DEF Grown
      <4> QED
        BY <4>1, <4>2, <1>7
    <3>2. SizesOK(T) => SizesOK(R)
      BY <2>7, <1>3 DEF Grown
    <3>3. \A x \in DOMAIN T.nd : R.nd[x].lock = T.nd[x].lock
      BY <1>3, <1>7 DEF Grown
    <3> QED
      BY <3>1, <3>2, <3>3, <2>4, <1>3, <1>5, <1>7, <1>8 DEF Grown, TreeOK
  <2>9. <<ns, key>> \in DOMAIN R.nd
    <3>1. At(b, L) = b
      BY <1>0, AboveRefl
    <3>2. At(b, L) \in K
      BY <2>1 DEF K
    <3> QED
      BY <3>1, <3>2, <1>7
  <2> QED
    BY <2>8, <2>9, <1>9, <1>10 DEF InsertOf, R, m
<1> QED
  BY <1>11, <1>12

\* inc_lock_ref moves the size of the nodes it locks first, dec_lock_ref that of
\* the nodes it unlocks, and evict takes off what it removes.
LEMMA MovedOut ==
    ASSUME NEW A, IsFiniteSet(A), NEW M, M \subseteq A
    PROVE  Cardinality(A \ M) = Cardinality(A) - Cardinality(M)
<1>1. A \cap M = M
  OBVIOUS
<1>2. Cardinality(A \ M) = Cardinality(A) - Cardinality(A \cap M)
  BY FS_Difference
<1> QED
  BY <1>1, <1>2, Zenon

\* Sizes of disjoint sets add up.
LEMMA MovedIn ==
    ASSUME NEW C, IsFiniteSet(C), NEW M, IsFiniteSet(M), C \cap M = {}
    PROVE  Cardinality(C \cup M) = Cardinality(C) + Cardinality(M)
<1>1. Cardinality(C \cup M) = Cardinality(C) + Cardinality(M) - Cardinality(C \cap M)
  BY FS_Union
<1>2. Cardinality(C \cap M) = 0
  BY FS_EmptySet, Zenon
<1>3. Cardinality(C) \in Nat /\ Cardinality(M) \in Nat
  BY FS_CardinalityType
<1> QED
  BY <1>1, <1>2, <1>3

\* Every place is either evictable or protected, never both.
LEMMA LooseTight ==
    ASSUME NEW T, PlacesOK(T), NodesOK(T)
    PROVE  Loose(T) \cap Tight(T) = {} /\ Loose(T) \cup Tight(T) = DOMAIN T.pos
<1>1. ASSUME NEW z \in DOMAIN T.pos
      PROVE  (z \in Loose(T) \/ z \in Tight(T)) /\ ~(z \in Loose(T) /\ z \in Tight(T))
  <2>1. PICK x \in DOMAIN T.nd : Ends(T, z, x)
    BY EndsExists
  <2>2. (z \in Loose(T) <=> T.nd[x].lock = 0) /\ (z \in Tight(T) <=> T.nd[x].lock > 0)
    BY <2>1, LooseFacts
  <2>3. T.nd[x].lock \in Nat
    BY DEF NodesOK
  <2>4. T.nd[x].lock = 0 <=> ~(T.nd[x].lock > 0)
    BY <2>3
  <2> QED
    BY <2>2, <2>4
<1> QED
  BY <1>1, LooseSubset

\* inc_lock_ref keeps evictable_size_ and protected_size_ exact.
LEMMA IncLockSizes ==
    ASSUME NEW T, TreeOK(T), SizesOK(T), NEW x
    PROVE  SizesOK(IncLockRef(T, x)) /\ TreeOK(IncLockRef(T, x))
<1> DEFINE R == IncLockRef(T, x)
           X == {y \in Lineage(T, x) : T.nd[y].lock = 0}
           M == Gone(T, X)
<1>0. PlacesOK(T) /\ NodesOK(T) /\ TreeShape(T) /\ X \subseteq DOMAIN T.nd
  BY LineageFacts DEF TreeOK
<1>1. /\ R.pos = T.pos /\ DOMAIN R.nd = DOMAIN T.nd /\ TreeShape(R) /\ NodesOK(R)
      /\ \A y \in DOMAIN T.nd :
            R.nd[y].lock = IF Above(y, x) THEN T.nd[y].lock + 1 ELSE T.nd[y].lock
  BY <1>0, IncLockFacts
<1>2. PlacesOK(R) /\ \A z, y : Ends(R, z, y) <=> Ends(T, z, y)
  BY <1>0, <1>1, SamePlaces
<1>3. R.evictable = T.evictable - Cardinality(M) /\ R.protected = T.protected + Cardinality(M)
  <2>1. SizeOf(T, X) = Cardinality(M)
    BY <1>0, SizeOfFacts
  <2>2. R = [T EXCEPT !.nd = [y \in DOMAIN T.nd |->
                       IF y \in Lineage(T, x) THEN [T.nd[y] EXCEPT !.lock = T.nd[y].lock + 1]
                       ELSE T.nd[y]],
                      !.evictable = @ - SizeOf(T, X), !.protected = @ + SizeOf(T, X)]
    BY DEF IncLockRef
  <2>3. T = [pos |-> T.pos, nd |-> T.nd, evictable |-> T.evictable, protected |-> T.protected]
    BY <1>0 DEF TreeShape
  <2> HIDE DEF R, X, M
  <2> QED
    BY <2>1, <2>2, <2>3
<1>x. X = {y \in DOMAIN T.nd : Above(y, x) /\ T.nd[y].lock = 0}
  BY LineageFacts
<1> HIDE DEF R, X, M
<1>4. ASSUME NEW z \in DOMAIN T.pos
      PROVE  /\ z \in Loose(R) <=> (z \in Loose(T) /\ z \notin M)
             /\ z \in Tight(R) <=> (z \in Tight(T) \/ z \in M)
             /\ z \in M => z \in Loose(T)
  <2>1. PICK y \in DOMAIN T.nd : Ends(T, z, y)
    BY <1>0, EndsExists
  <2>2. /\ z \in Loose(T) <=> T.nd[y].lock = 0
        /\ z \in Tight(T) <=> T.nd[y].lock > 0
        /\ z \in M <=> y \in X
    BY <2>1, <1>0, LooseFacts DEF M
  <2>3. /\ z \in Loose(R) <=> R.nd[y].lock = 0
        /\ z \in Tight(R) <=> R.nd[y].lock > 0
    BY <2>1, <1>1, <1>2, LooseFacts
  <2>4. T.nd[y].lock \in Nat
    BY <1>0 DEF NodesOK
  <2>5. y \in X <=> Above(y, x) /\ T.nd[y].lock = 0
    BY <1>x
  <2>6. R.nd[y].lock = IF Above(y, x) THEN T.nd[y].lock + 1 ELSE T.nd[y].lock
    BY <1>1
  <2> QED
    BY <2>2, <2>3, <2>4, <2>5, <2>6
<1>5. M \subseteq DOMAIN T.pos /\ Loose(T) \subseteq DOMAIN T.pos /\ Tight(T) \subseteq DOMAIN T.pos
      /\ Loose(R) \subseteq DOMAIN T.pos /\ Tight(R) \subseteq DOMAIN T.pos
  BY <1>1, LooseSubset DEF M
<1>6. Loose(R) = Loose(T) \ M /\ Tight(R) = Tight(T) \cup M /\ M \subseteq Loose(T)
  BY <1>4, <1>5
<1>7. IsFiniteSet(Loose(T)) /\ IsFiniteSet(Tight(T))
  BY <1>5, FS_Subset DEF SizesOK
<1>8. /\ Cardinality(Loose(R)) = Cardinality(Loose(T)) - Cardinality(M)
      /\ Cardinality(Tight(R)) = Cardinality(Tight(T)) + Cardinality(M)
  <2>1. Loose(T) \cap Tight(T) = {}
    BY <1>0, LooseTight
  <2>m. M \subseteq Loose(T)
    BY <1>6
  <2>n. IsFiniteSet(M) /\ Tight(T) \cap M = {}
    BY <2>1, <2>m, <1>7, FS_Subset
  <2>2. Cardinality(Loose(T) \ M) = Cardinality(Loose(T)) - Cardinality(M)
    BY <2>m, <1>7, MovedOut
  <2>3. Cardinality(Tight(T) \cup M) = Cardinality(Tight(T)) + Cardinality(M)
    BY <2>n, <1>7, MovedIn
  <2> QED
    BY <2>2, <2>3, <1>6, Zenon
<1>9. SizesOK(R)
  BY <1>1, <1>3, <1>8 DEF SizesOK
<1> QED
  BY <1>1, <1>2, <1>9 DEF R, TreeOK

\* dec_lock_ref keeps evictable_size_ and protected_size_ exact.
LEMMA DecLockSizes ==
    ASSUME NEW T, TreeOK(T), SizesOK(T), NEW x,
           \A y \in DOMAIN T.nd : Above(y, x) => T.nd[y].lock > 0
    PROVE  SizesOK(DecLockRef(T, x)) /\ TreeOK(DecLockRef(T, x))
<1> DEFINE R == DecLockRef(T, x)
           X == {y \in Lineage(T, x) : T.nd[y].lock = 1}
           M == Gone(T, X)
<1>0. PlacesOK(T) /\ NodesOK(T) /\ TreeShape(T) /\ X \subseteq DOMAIN T.nd
  BY LineageFacts DEF TreeOK
<1>1. /\ R.pos = T.pos /\ DOMAIN R.nd = DOMAIN T.nd /\ TreeShape(R) /\ NodesOK(R)
      /\ \A y \in DOMAIN T.nd :
            R.nd[y].lock = IF Above(y, x) THEN T.nd[y].lock - 1 ELSE T.nd[y].lock
  BY <1>0, DecLockFacts
<1>2. PlacesOK(R) /\ \A z, y : Ends(R, z, y) <=> Ends(T, z, y)
  BY <1>0, <1>1, SamePlaces
<1>3. R.evictable = T.evictable + Cardinality(M) /\ R.protected = T.protected - Cardinality(M)
  <2>1. SizeOf(T, X) = Cardinality(M)
    BY <1>0, SizeOfFacts
  <2>2. R = [T EXCEPT !.nd = [y \in DOMAIN T.nd |->
                       IF y \in Lineage(T, x) THEN [T.nd[y] EXCEPT !.lock = T.nd[y].lock - 1]
                       ELSE T.nd[y]],
                      !.evictable = @ + SizeOf(T, X), !.protected = @ - SizeOf(T, X)]
    BY DEF DecLockRef
  <2>3. T = [pos |-> T.pos, nd |-> T.nd, evictable |-> T.evictable, protected |-> T.protected]
    BY <1>0 DEF TreeShape
  <2> HIDE DEF R, X, M
  <2> QED
    BY <2>1, <2>2, <2>3
<1>x. X = {y \in DOMAIN T.nd : Above(y, x) /\ T.nd[y].lock = 1}
  BY LineageFacts
<1> HIDE DEF R, X, M
<1>4. ASSUME NEW z \in DOMAIN T.pos
      PROVE  /\ z \in Loose(R) <=> (z \in Loose(T) \/ z \in M)
             /\ z \in Tight(R) <=> (z \in Tight(T) /\ z \notin M)
             /\ z \in M => z \in Tight(T)
  <2>1. PICK y \in DOMAIN T.nd : Ends(T, z, y)
    BY <1>0, EndsExists
  <2>2. /\ z \in Loose(T) <=> T.nd[y].lock = 0
        /\ z \in Tight(T) <=> T.nd[y].lock > 0
        /\ z \in M <=> y \in X
    BY <2>1, <1>0, LooseFacts DEF M
  <2>3. /\ z \in Loose(R) <=> R.nd[y].lock = 0
        /\ z \in Tight(R) <=> R.nd[y].lock > 0
    BY <2>1, <1>1, <1>2, LooseFacts
  <2>4. T.nd[y].lock \in Nat /\ (Above(y, x) => T.nd[y].lock > 0)
    BY <1>0 DEF NodesOK
  <2>5. y \in X <=> Above(y, x) /\ T.nd[y].lock = 1
    BY <1>x
  <2>6. R.nd[y].lock = IF Above(y, x) THEN T.nd[y].lock - 1 ELSE T.nd[y].lock
    BY <1>1
  <2> QED
    BY <2>2, <2>3, <2>4, <2>5, <2>6
<1>5. M \subseteq DOMAIN T.pos /\ Loose(T) \subseteq DOMAIN T.pos /\ Tight(T) \subseteq DOMAIN T.pos
      /\ Loose(R) \subseteq DOMAIN T.pos /\ Tight(R) \subseteq DOMAIN T.pos
  BY <1>1, LooseSubset DEF M
<1>6. Loose(R) = Loose(T) \cup M /\ Tight(R) = Tight(T) \ M /\ M \subseteq Tight(T)
  BY <1>4, <1>5
<1>7. IsFiniteSet(Loose(T)) /\ IsFiniteSet(Tight(T))
  BY <1>5, FS_Subset DEF SizesOK
<1>l. Tight(T) \cap Loose(T) = {}
  BY <1>0, LooseTight
<1>8. /\ Cardinality(Loose(R)) = Cardinality(Loose(T)) + Cardinality(M)
      /\ Cardinality(Tight(R)) = Cardinality(Tight(T)) - Cardinality(M)
  <2>m. M \subseteq Tight(T)
    BY <1>6
  <2>n. IsFiniteSet(M) /\ Loose(T) \cap M = {}
    BY <1>l, <2>m, <1>7, FS_Subset
  <2>2. Cardinality(Tight(T) \ M) = Cardinality(Tight(T)) - Cardinality(M)
    BY <2>m, <1>7, MovedOut
  <2>3. Cardinality(Loose(T) \cup M) = Cardinality(Loose(T)) + Cardinality(M)
    BY <2>n, <1>7, MovedIn
  <2> QED
    BY <2>2, <2>3, <1>6, Zenon
<1>9. SizesOK(R)
  BY <1>1, <1>3, <1>8 DEF SizesOK
<1> QED
  BY <1>1, <1>2, <1>9 DEF R, TreeOK

\* evict() keeps evictable_size_ and protected_size_ exact.
LEMMA DeleteSizes ==
    ASSUME NEW T, TreeOK(T), SizesOK(T), NEW D, EvictSet(T, D)
    PROVE  SizesOK(Delete(T, D))
<1> DEFINE R == Delete(T, D)
           M == Gone(T, D)
<1>0. PlacesOK(T) /\ NodesOK(T) /\ TreeShape(T) /\ D \subseteq DOMAIN T.nd
  BY DEF TreeOK, EvictSet
<1>1. /\ PlacesOK(R) /\ NodesOK(R)
      /\ DOMAIN R.nd = DOMAIN T.nd \ D
      /\ \A x \in DOMAIN R.nd : R.nd[x] = T.nd[x]
      /\ DOMAIN R.pos = DOMAIN T.pos \ M
  BY DeleteFacts DEF TreeOK
<1>3. R.evictable = T.evictable - Cardinality(M) /\ R.protected = T.protected
  <2>1. SizeOf(T, D) = Cardinality(M)
    BY <1>0, SizeOfFacts
  <2> DEFINE nd == Restrict(T.nd, DOMAIN T.nd \ D)
             pos == Restrict(T.pos, DOMAIN T.pos \ UNION {Positions(T, x) : x \in D})
  <2>2. R = [T EXCEPT !.nd = nd, !.pos = pos, !.evictable = @ - SizeOf(T, D)]
    BY DEF Delete
  <2>3. T = [pos |-> T.pos, nd |-> T.nd, evictable |-> T.evictable, protected |-> T.protected]
    BY <1>0 DEF TreeShape
  <2> HIDE DEF R, M, nd, pos
  <2> QED
    BY <2>1, <2>2, <2>3
<1> HIDE DEF R, M
<1>4. ASSUME NEW z \in DOMAIN T.pos
      PROVE  /\ z \in Loose(R) <=> (z \in Loose(T) /\ z \notin M)
             /\ z \in Tight(R) <=> z \in Tight(T)
             /\ z \in M => z \in Loose(T)
  <2>1. PICK y \in DOMAIN T.nd : Ends(T, z, y)
    BY <1>0, EndsExists
  <2>2. /\ z \in Loose(T) <=> T.nd[y].lock = 0
        /\ z \in Tight(T) <=> T.nd[y].lock > 0
        /\ z \in M <=> y \in D
    BY <2>1, <1>0, LooseFacts DEF M
  <2>4. T.nd[y].lock \in Nat /\ (y \in D => T.nd[y].lock = 0)
    BY <1>0 DEF NodesOK, EvictSet
  <2>5. CASE y \in D
    <3>1. z \notin DOMAIN R.pos
      BY <2>2, <2>5, <1>1
    <3> QED
      BY <3>1, <2>2, <2>4, <2>5, LooseSubset
  <2>6. CASE y \notin D
    <3>1. y \in DOMAIN R.nd /\ z \in DOMAIN R.pos /\ R.nd[y] = T.nd[y] /\ Ends(R, z, y)
      BY <2>1, <2>2, <2>6, <1>1 DEF Ends
    <3> QED
      BY <3>1, <2>2, <2>6, <1>1, LooseFacts
  <2> QED
    BY <2>5, <2>6
<1>5. M \subseteq DOMAIN T.pos /\ Loose(T) \subseteq DOMAIN T.pos /\ Tight(T) \subseteq DOMAIN T.pos
      /\ Loose(R) \subseteq DOMAIN T.pos /\ Tight(R) \subseteq DOMAIN T.pos
  BY <1>1, LooseSubset DEF M
<1>6. Loose(R) = Loose(T) \ M /\ Tight(R) = Tight(T) /\ M \subseteq Loose(T)
  BY <1>4, <1>5
<1>7. IsFiniteSet(Loose(T)) /\ IsFiniteSet(Tight(T)) /\ IsFiniteSet(DOMAIN R.pos)
  BY <1>1, <1>5, FS_Subset DEF SizesOK
<1>8. Cardinality(Loose(R)) = Cardinality(Loose(T)) - Cardinality(M)
  <2>1. Loose(T) \cap Tight(T) = {}
    BY <1>0, LooseTight
  <2>2. Cardinality(Loose(T) \ M) = Cardinality(Loose(T)) - Cardinality(M)
    BY <1>6, <1>7, MovedOut
  <2> QED
    BY <2>2, <1>6, Zenon
<1>9. SizesOK(R)
  BY <1>3, <1>6, <1>7, <1>8 DEF SizesOK
<1> QED
  BY <1>9 DEF R

-----------------------------------------------------------------------------
(* Who locks a node *)

\* last[q] is the node request q holds; each is a node of the tree (or the root),
\* and a node is locked once for each request that holds it or a node below it.
Pins(T, H, last) == \A q \in H : last[q][2] = <<>> \/ last[q] \in DOMAIN T.nd
LockedBy(T, H, last) ==
    \A x \in DOMAIN T.nd : T.nd[x].lock = Cardinality({q \in H : Above(x, last[q])})

\* A root locks nothing.
LEMMA NothingAboveRoot ==
    ASSUME NEW x, IsPlace(x), NEW y, y[2] = <<>>
    PROVE  ~Above(x, y)
<1>1. x[2] \in Seq(Nat) /\ x[2] # <<>>
  BY DEF IsPlace, IsSpot
<1>2. IsPrefix(x[2], <<>>) => Len(x[2]) <= Len(<<>>)
  BY <1>1 DEF IsPrefix
<1> QED
  BY <1>1, <1>2 DEF Above

\* Insertions and splits keep the count.
LEMMA GrownLocks ==
    ASSUME NEW T, NEW R, TreeOK(T), Grown(T, R), NEW H, NEW last,
           Pins(T, H, last), LockedBy(T, H, last)
    PROVE  Pins(R, H, last) /\ LockedBy(R, H, last)
<1>0. /\ PlacesOK(T) /\ NodesOK(T) /\ PlacesOK(R) /\ TreeOK(R)
      /\ DOMAIN T.nd \subseteq DOMAIN R.nd /\ DOMAIN T.pos \subseteq DOMAIN R.pos
  BY DEF TreeOK, Grown
<1>1. Pins(R, H, last)
  BY <1>0 DEF Pins
<1>2. ASSUME NEW x \in DOMAIN R.nd
      PROVE  R.nd[x].lock = Cardinality({q \in H : Above(x, last[q])})
  <2>0. IsPlace(x) /\ IsSpot(x)
    BY <1>0, NodeIsPlace
  <2>1. CASE x \in DOMAIN T.nd
    BY <2>1 DEF Grown, LockedBy
  <2>2. CASE R.nd[x].lock = 0 /\ x \notin DOMAIN T.pos
    <3>1. ASSUME NEW q \in H, Above(x, last[q]) PROVE FALSE
      <4>1. last[q][2] # <<>>
        BY <3>1, <2>0, NothingAboveRoot
      <4>2. last[q] \in DOMAIN T.pos
        BY <4>1, <1>0, NodeIsPlace DEF Pins
      <4> QED
        BY <4>2, <3>1, <2>0, <2>2, <1>0 DEF PlacesOK
    <3>2. {q \in H : Above(x, last[q])} = {}
      BY <3>1
    <3> QED
      BY <3>2, <2>2, FS_EmptySet, Zenon
  <2>3. ASSUME NEW c \in DOMAIN T.nd, Ends(T, x, c), R.nd[x].lock = T.nd[c].lock
        PROVE  R.nd[x].lock = Cardinality({q \in H : Above(x, last[q])})
    <3>0. IsSpot(c) /\ Above(x, c) /\ x \in DOMAIN T.pos
      BY <2>0, <2>3, <1>0, NodeIsPlace DEF Ends, PlacesOK
    <3>1. ASSUME NEW q \in H PROVE Above(x, last[q]) <=> Above(c, last[q])
      <4>1. CASE last[q][2] = <<>>
        BY <4>1, <2>0, <1>0, NothingAboveRoot, NodeIsPlace
      <4>2. CASE last[q] \in DOMAIN T.nd
        <5>1. IsSpot(last[q])
          BY <4>2, <1>0, NodeIsPlace
        <5>2. ASSUME Above(x, last[q]) PROVE Above(c, last[q])
          <6>1. PICK y \in DOMAIN T.nd : Ends(T, x, y) /\ Above(y, last[q])
            BY <5>2, <4>2, <3>0, <1>0, EndsAbove
          <6>2. y = c
            BY <6>1, <2>3, <3>0, <1>0 DEF PlacesOK
          <6> QED
            BY <6>1, <6>2
        <5>3. ASSUME Above(c, last[q]) PROVE Above(x, last[q])
          BY <5>1, <5>3, <3>0, <2>0, AboveTrans
        <5> QED
          BY <5>2, <5>3
      <4> QED
        BY <4>1, <4>2 DEF Pins
    <3>2. {q \in H : Above(x, last[q])} = {q \in H : Above(c, last[q])}
      BY <3>1
    <3>3. T.nd[c].lock = Cardinality({q \in H : Above(c, last[q])})
      BY DEF LockedBy
    <3> QED
      BY <3>2, <3>3, <2>3, Zenon
  <2>4. \/ x \in DOMAIN T.nd
        \/ R.nd[x].lock = 0 /\ x \notin DOMAIN T.pos
        \/ \E c \in DOMAIN T.nd : Ends(T, x, c) /\ R.nd[x].lock = T.nd[c].lock
    BY DEF Grown
  <2> QED
    BY <2>1, <2>2, <2>3, <2>4
<1> QED
  BY <1>1, <1>2 DEF LockedBy

\* inc_lock_ref, for a request that now holds x.
LEMMA IncLocks ==
    ASSUME NEW T, TreeOK(T), NEW H, IsFiniteSet(H), NEW last, NEW q, q \notin H, NEW after,
           \A p \in H : after[p] = last[p],
           Pins(T, H, last), LockedBy(T, H, last),
           after[q][2] = <<>> \/ after[q] \in DOMAIN T.nd
    PROVE  LET R == IncLockRef(T, after[q])
           IN  Pins(R, H \cup {q}, after) /\ LockedBy(R, H \cup {q}, after)
<1> DEFINE R == IncLockRef(T, after[q])
<1>1. /\ DOMAIN R.nd = DOMAIN T.nd
      /\ \A y \in DOMAIN T.nd :
            R.nd[y].lock = IF Above(y, after[q]) THEN T.nd[y].lock + 1 ELSE T.nd[y].lock
  BY IncLockFacts DEF TreeOK
<1> HIDE DEF R
<1>2. Pins(R, H \cup {q}, after)
  BY <1>1 DEF Pins
<1>3. ASSUME NEW x \in DOMAIN T.nd
      PROVE  R.nd[x].lock = Cardinality({p \in H \cup {q} : Above(x, after[p])})
  <2> DEFINE A == {p \in H : Above(x, last[p])}
             Z == {p \in H \cup {q} : Above(x, after[p])}
  <2>1. IsFiniteSet(A) /\ q \notin A /\ T.nd[x].lock = Cardinality(A)
    BY FS_Subset DEF LockedBy
  <2>2. CASE Above(x, after[q])
    <3>1. Z = A \cup {q}
      BY <2>2
    <3> HIDE DEF A, Z
    <3>2. Cardinality(A \cup {q}) = Cardinality(A) + 1
      BY <2>1, FS_AddElement
    <3>3. R.nd[x].lock = Cardinality(Z)
      BY <3>1, <3>2, <2>1, <2>2, <1>1
    <3> QED
      BY <3>3 DEF Z
  <2>3. CASE ~Above(x, after[q])
    <3>1. Z = A
      BY <2>3
    <3> HIDE DEF A, Z
    <3>3. R.nd[x].lock = Cardinality(Z)
      BY <3>1, <2>1, <2>3, <1>1
    <3> QED
      BY <3>3 DEF Z
  <2> QED
    BY <2>2, <2>3
<1> QED
  BY <1>1, <1>2, <1>3 DEF R, LockedBy

\* R is what T is after q of H has let go of its node.
LetGo(T, H, last, q, R) ==
    /\ \A y \in DOMAIN T.nd : Above(y, last[q]) => T.nd[y].lock > 0
    /\ TreeOK(R) /\ R.pos = T.pos /\ DOMAIN R.nd = DOMAIN T.nd
    /\ Pins(R, H \ {q}, last) /\ LockedBy(R, H \ {q}, last)

\* dec_lock_ref, for a request that holds a node: nothing on its way is unlocked.
LEMMA DecLocks ==
    ASSUME NEW T, TreeOK(T), NEW H, IsFiniteSet(H), NEW last, NEW q \in H,
           Pins(T, H, last), LockedBy(T, H, last), NEW R, R = DecLockRef(T, last[q])
    PROVE  LetGo(T, H, last, q, R)
<1>r. R = DecLockRef(T, last[q])
  OBVIOUS
<1>0. ASSUME NEW x \in DOMAIN T.nd, Above(x, last[q])
      PROVE  /\ T.nd[x].lock > 0
             /\ Cardinality({p \in H \ {q} : Above(x, last[p])}) = T.nd[x].lock - 1
  <2> DEFINE A == {p \in H : Above(x, last[p])}
             Z == {p \in H \ {q} : Above(x, last[p])}
  <2>1. IsFiniteSet(A) /\ q \in A /\ T.nd[x].lock = Cardinality(A)
    BY <1>0, FS_Subset DEF LockedBy
  <2>2. Z = A \ {q}
    OBVIOUS
  <2> HIDE DEF A, Z
  <2>3. IsFiniteSet(A \ {q}) /\ Cardinality(A \ {q}) = Cardinality(A) - 1
    BY <2>1, FS_RemoveElement
  <2>4. Cardinality(A) \in Nat /\ Cardinality(A \ {q}) \in Nat
    BY <2>1, <2>3, FS_CardinalityType
  <2>5. T.nd[x].lock > 0 /\ Cardinality(Z) = T.nd[x].lock - 1
    BY <2>1, <2>2, <2>3, <2>4
  <2> QED
    BY <2>5 DEF Z
<1>1. /\ DOMAIN R.nd = DOMAIN T.nd /\ R.pos = T.pos /\ TreeShape(R) /\ NodesOK(R)
      /\ \A y \in DOMAIN T.nd :
            R.nd[y].lock = IF Above(y, last[q]) THEN T.nd[y].lock - 1 ELSE T.nd[y].lock
  BY <1>0, DecLockFacts DEF TreeOK
<1>2. Pins(R, H \ {q}, last)
  BY <1>1 DEF Pins
<1>3. ASSUME NEW x \in DOMAIN T.nd
      PROVE  R.nd[x].lock = Cardinality({p \in H \ {q} : Above(x, last[p])})
  <2>2. CASE Above(x, last[q])
    BY <2>2, <1>0, <1>1
  <2>3. CASE ~Above(x, last[q])
    <3>1. {p \in H \ {q} : Above(x, last[p])} = {p \in H : Above(x, last[p])}
      BY <2>3
    <3>2. T.nd[x].lock = Cardinality({p \in H : Above(x, last[p])})
      BY DEF LockedBy
    <3>3. R.nd[x].lock = T.nd[x].lock
      BY <2>3, <1>1
    <3> QED
      BY <3>1, <3>2, <3>3, Zenon
  <2> QED
    BY <2>2, <2>3
<1>4. PlacesOK(R)
  BY <1>1, SamePlaces DEF TreeOK
<1> QED
  BY <1>0, <1>1, <1>2, <1>3, <1>4 DEF LockedBy, TreeOK, LetGo

\* evict takes no node a request holds.
LEMMA DeleteLocks ==
    ASSUME NEW T, TreeOK(T), NEW H, IsFiniteSet(H), NEW last, NEW D, EvictSet(T, D),
           Pins(T, H, last), LockedBy(T, H, last)
    PROVE  /\ Pins(Delete(T, D), H, last) /\ LockedBy(Delete(T, D), H, last)
           /\ \A q \in H : last[q] \notin D
<1> DEFINE R == Delete(T, D)
<1>1. DOMAIN R.nd = DOMAIN T.nd \ D /\ \A x \in DOMAIN R.nd : R.nd[x] = T.nd[x]
  BY DeleteFacts
<1> HIDE DEF R
<1>2. ASSUME NEW q \in H, last[q] \in D PROVE FALSE
  <2> DEFINE x == last[q]
             A == {p \in H : Above(x, last[p])}
  <2>1. x \in DOMAIN T.nd /\ T.nd[x].lock = 0
    BY <1>2 DEF EvictSet
  <2>2. IsFiniteSet(A) /\ q \in A /\ T.nd[x].lock = Cardinality(A)
    BY <2>1, FS_Subset, AboveRefl, NodeIsPlace DEF LockedBy, TreeOK
  <2> HIDE DEF A, x
  <2>3. A = {}
    BY <2>1, <2>2, FS_EmptySet
  <2> QED
    BY <2>2, <2>3
<1>3. Pins(R, H, last)
  BY <1>1, <1>2 DEF Pins
<1>4. LockedBy(R, H, last)
  BY <1>1 DEF LockedBy
<1> QED
  BY <1>2, <1>3, <1>4 DEF R

\* The empty tree is well formed and pins nothing.
LEMMA EmptyTreeOK ==
    TreeOK(EmptyTree) /\ SizesOK(EmptyTree)
    /\ \A H, last : (\A q \in H : FALSE) =>
          Pins(EmptyTree, H, last) /\ LockedBy(EmptyTree, H, last)
<1>1. DOMAIN EmptyTree.nd = {} /\ DOMAIN EmptyTree.pos = {} /\ TreeShape(EmptyTree)
      /\ EmptyTree.evictable = 0 /\ EmptyTree.protected = 0
  BY DEF EmptyTree, TreeShape
<1>2. NodesOK(EmptyTree) /\ PlacesOK(EmptyTree)
  BY <1>1 DEF NodesOK, PlacesOK
<1>3. Loose(EmptyTree) = {} /\ Tight(EmptyTree) = {}
  BY <1>1 DEF Loose, Tight, Gone
<1>4. SizesOK(EmptyTree)
  <2>1. IsFiniteSet({}) /\ Cardinality({}) = 0
    BY FS_EmptySet
  <2> QED
    BY <1>1, <1>3, <2>1, Zenon DEF SizesOK
<1>5. \A H, last : (\A q \in H : FALSE) =>
          Pins(EmptyTree, H, last) /\ LockedBy(EmptyTree, H, last)
  BY <1>1 DEF Pins, LockedBy
<1> QED
  BY <1>1, <1>2, <1>4, <1>5 DEF TreeOK

-----------------------------------------------------------------------------
(* Sums *)

Pairs(f) == UNION {{x} \X (1..f[x]) : x \in DOMAIN f}

\* A total over a finite domain is the size of a finite set.
LEMMA PairsFinite ==
    ASSUME NEW f, IsFiniteSet(DOMAIN f), \A x \in DOMAIN f : f[x] \in Int
    PROVE  IsFiniteSet(Pairs(f)) /\ Total(f) = Cardinality(Pairs(f)) /\ Total(f) \in Nat
<1> DEFINE D == DOMAIN f
           g == [x \in D |-> {x} \X (1..f[x])]
           R == {{x} \X (1..f[x]) : x \in D}
<1>1. g \in Surjection(D, R)
  <2>1. g \in [D -> R]
    OBVIOUS
  <2>2. \A t \in R : \E s \in D : g[s] = t
    OBVIOUS
  <2> QED
    BY <2>1, <2>2 DEF Surjection
<1> HIDE DEF g
<1>2. IsFiniteSet(R)
  <2> HIDE DEF R
  <2> QED
    BY <1>1, FS_Surjection
<1>3. ASSUME NEW x \in D PROVE IsFiniteSet({x} \X (1..f[x]))
  <2>1. IsFiniteSet({x})
    BY FS_Singleton
  <2>2. IsFiniteSet(1..f[x])
    <3>1. 1 \in Int /\ f[x] \in Int
      OBVIOUS
    <3> QED
      BY <3>1, FS_Interval
  <2> QED
    BY <2>1, <2>2, FS_Product
<1>4. \A t \in R : IsFiniteSet(t)
  BY <1>3
<1>5. IsFiniteSet(UNION R)
  <2> HIDE DEF R
  <2> QED
    BY <1>2, <1>4, FS_UNION
<1>6. Pairs(f) = UNION R /\ Total(f) = Cardinality(UNION R)
  BY DEF Pairs, Total
<1> HIDE DEF R
<1> QED
  BY <1>5, <1>6, FS_CardinalityType

\* What a total counts.
LEMMA PairsFacts ==
    ASSUME NEW f, NEW p
    PROVE  p \in Pairs(f) <=> /\ p = <<p[1], p[2]>> /\ p[1] \in DOMAIN f
                              /\ p[2] \in 1..f[p[1]]
BY DEF Pairs

\* One term more.
LEMMA TotalAdd ==
    ASSUME NEW f, NEW g, NEW q, IsFiniteSet(DOMAIN f), q \notin DOMAIN f,
           DOMAIN g = DOMAIN f \cup {q},
           \A x \in DOMAIN f : f[x] \in Int /\ g[x] = f[x],
           g[q] \in Nat
    PROVE  Total(g) = Total(f) + g[q]
<1> DEFINE N == {q} \X (1..g[q])
<1>1. IsFiniteSet(Pairs(f)) /\ Total(f) = Cardinality(Pairs(f)) /\ Total(f) \in Nat
  BY PairsFinite
<1>2. IsFiniteSet(DOMAIN g) /\ \A x \in DOMAIN g : g[x] \in Int
  BY FS_AddElement
<1>3. Total(g) = Cardinality(Pairs(g))
  BY <1>2, PairsFinite
<1>4. Pairs(g) = Pairs(f) \cup N /\ Pairs(f) \cap N = {}
  BY DEF Pairs
<1>5. IsFiniteSet({q}) /\ Cardinality({q}) = 1
  BY FS_Singleton
<1>6. IsFiniteSet(1..g[q]) /\ Cardinality(1..g[q]) = g[q]
  <2>1. 1 \in Int /\ g[q] \in Int
    OBVIOUS
  <2>2. IsFiniteSet(1..g[q]) /\ Cardinality(1..g[q]) = IF 1 > g[q] THEN 0 ELSE g[q] - 1 + 1
    BY <2>1, FS_Interval
  <2> QED
    BY <2>2
<1>7. IsFiniteSet(N) /\ Cardinality(N) = Cardinality({q}) * Cardinality(1..g[q])
  BY <1>5, <1>6, FS_Product
<1>8. Cardinality(N) = g[q]
  BY <1>5, <1>6, <1>7
<1> HIDE DEF N
<1>9. Cardinality(Pairs(f) \cup N) = Cardinality(Pairs(f)) + Cardinality(N)
  BY <1>1, <1>4, <1>7, MovedIn
<1> QED
  BY <1>1, <1>3, <1>4, <1>8, <1>9, Zenon

\* The sum of the first i values of f.
Upto(f, i) == Total([t \in 1..i |-> f[t]])

\* Sums grow one value at a time.
LEMMA UptoFacts ==
    ASSUME NEW n \in Nat, NEW f, \A t \in 1..n : f[t] \in Nat
    PROVE  /\ Upto(f, 0) = 0
           /\ \A i \in 0..n : Upto(f, i) \in Nat
           /\ \A i \in 1..n : Upto(f, i) = Upto(f, i - 1) + f[i]
<1> DEFINE g(i) == [t \in 1..i |-> f[t]]
<1>1. ASSUME NEW i \in 0..n
      PROVE  /\ IsFiniteSet(DOMAIN g(i)) /\ DOMAIN g(i) = 1..i
             /\ \A x \in DOMAIN g(i) : g(i)[x] = f[x] /\ f[x] \in Nat
  <2>1. DOMAIN g(i) = 1..i
    OBVIOUS
  <2>2. IsFiniteSet(1..i)
    BY FS_Interval
  <2> QED
    BY <2>1, <2>2
<1>2. \A i \in 0..n : Total(g(i)) \in Nat
  <2> SUFFICES ASSUME NEW i \in 0..n PROVE Total(g(i)) \in Nat
    OBVIOUS
  <2>1. IsFiniteSet(DOMAIN g(i)) /\ \A x \in DOMAIN g(i) : g(i)[x] \in Int
    BY <1>1
  <2> HIDE DEF g
  <2> QED
    BY <2>1, PairsFinite
<1>3. Total(g(0)) = 0
  <2>1. DOMAIN g(0) = {}
    OBVIOUS
  <2>2. {{x} \X (1..g(0)[x]) : x \in DOMAIN g(0)} = {}
    BY <2>1
  <2>3. UNION {{x} \X (1..g(0)[x]) : x \in DOMAIN g(0)} = {}
    BY <2>2
  <2> QED
    BY <2>3, FS_EmptySet DEF Total
<1>4. ASSUME NEW i \in 1..n PROVE Total(g(i)) = Total(g(i - 1)) + f[i]
  <2>1. i - 1 \in 0..n /\ i \in 0..n /\ 1..i = 1..(i - 1) \cup {i} /\ i \notin 1..(i - 1)
    OBVIOUS
  <2>2. /\ IsFiniteSet(DOMAIN g(i - 1)) /\ DOMAIN g(i - 1) = 1..(i - 1)
        /\ \A x \in DOMAIN g(i - 1) : g(i - 1)[x] = f[x] /\ f[x] \in Nat
    BY <1>1, <2>1
  <2>3. DOMAIN g(i) = 1..i /\ \A x \in DOMAIN g(i) : g(i)[x] = f[x] /\ f[x] \in Nat
    BY <1>1, <2>1
  <2>4. i \notin DOMAIN g(i - 1) /\ DOMAIN g(i) = DOMAIN g(i - 1) \cup {i} /\ i \in DOMAIN g(i)
    BY <2>1, <2>2, <2>3
  <2>5. \A x \in DOMAIN g(i - 1) : g(i - 1)[x] \in Int /\ g(i)[x] = g(i - 1)[x]
    BY <2>2, <2>3, <2>4
  <2>6. g(i)[i] = f[i] /\ g(i)[i] \in Nat
    BY <2>3, <2>4
  <2> HIDE DEF g
  <2>7. Total(g(i)) = Total(g(i - 1)) + g(i)[i]
    BY <2>2, <2>4, <2>5, <2>6, TotalAdd
  <2> QED
    BY <2>6, <2>7
<1> QED
  BY <1>2, <1>3, <1>4 DEF Upto

\* The first value at which the sum reaches k.
LEMMA UptoReaches ==
    ASSUME NEW n \in Nat, NEW f, \A t \in 1..n : f[t] \in Nat,
           NEW k \in Nat, k > 0, k <= Upto(f, n),
           NEW s, s = Min({i \in 1..n : Upto(f, i) >= k})
    PROVE  s \in 1..n /\ Upto(f, s - 1) < k /\ k <= Upto(f, s - 1) + f[s]
<1> DEFINE S == {i \in 1..n : Upto(f, i) >= k}
<1>1. /\ Upto(f, 0) = 0
      /\ \A i \in 0..n : Upto(f, i) \in Nat
      /\ \A i \in 1..n : Upto(f, i) = Upto(f, i - 1) + f[i]
  BY UptoFacts
<1>2. n # 0
  BY <1>1
<1>3. n \in S /\ S \subseteq Nat
  BY <1>1, <1>2
<1>4. Min(S) \in S /\ \A y \in S : Min(S) <= y
  <2> HIDE DEF S
  <2> QED
    BY <1>3, MinFacts
<1>5. s \in 1..n /\ Upto(f, s) >= k /\ \A y \in S : s <= y
  BY <1>4
<1>6. s - 1 \notin S /\ s - 1 \in 0..n /\ Upto(f, s - 1) \in Nat
  BY <1>1, <1>5
<1>7. Upto(f, s - 1) < k
  <2>1. CASE s = 1
    BY <1>1, <2>1
  <2>2. CASE s # 1
    BY <1>5, <1>6, <2>2
  <2> QED
    BY <2>1, <2>2
<1> QED
  BY <1>1, <1>5, <1>7

\* Sums grow.
LEMMA UptoMono ==
    ASSUME NEW n \in Nat, NEW f, \A t \in 1..n : f[t] \in Nat,
           NEW i \in 0..n, NEW j \in 0..n, i <= j
    PROVE  Upto(f, i) <= Upto(f, j)
<1> DEFINE g(k) == [t \in 1..k |-> f[t]]
<1>1. ASSUME NEW k \in 0..n
      PROVE  /\ IsFiniteSet(Pairs(g(k))) /\ Upto(f, k) = Cardinality(Pairs(g(k)))
             /\ DOMAIN g(k) = 1..k /\ \A x \in 1..k : g(k)[x] = f[x]
  <2>1. DOMAIN g(k) = 1..k /\ \A x \in 1..k : g(k)[x] = f[x] /\ f[x] \in Int
    OBVIOUS
  <2>2. IsFiniteSet(1..k)
    BY FS_Interval
  <2>3. Upto(f, k) = Total(g(k))
    BY DEF Upto
  <2> HIDE DEF g
  <2> QED
    BY <2>1, <2>2, <2>3, PairsFinite
<1>2. /\ DOMAIN g(i) = 1..i /\ \A x \in 1..i : g(i)[x] = f[x]
      /\ DOMAIN g(j) = 1..j /\ \A x \in 1..j : g(j)[x] = f[x]
  BY <1>1
<1> HIDE DEF g
<1>3. ASSUME NEW p \in Pairs(g(i)) PROVE p \in Pairs(g(j))
  <2>1. p = <<p[1], p[2]>> /\ p[1] \in 1..i /\ p[2] \in 1..f[p[1]]
    BY <1>2, PairsFacts
  <2>2. p[1] \in 1..j
    BY <2>1
  <2> QED
    BY <1>2, <2>1, <2>2, PairsFacts
<1>4. Pairs(g(i)) \subseteq Pairs(g(j))
  BY <1>3
<1>5. Cardinality(Pairs(g(i))) <= Cardinality(Pairs(g(j)))
  BY <1>1, <1>4, FS_Subset
<1> QED
  BY <1>1, <1>5

\* A sum does not depend on the order of its terms.
LEMMA TotalOrder ==
    ASSUME NEW need, IsFiniteSet(DOMAIN need), \A q \in DOMAIN need : need[q] \in Nat,
           NEW n \in Nat, NEW order \in [1..n -> DOMAIN need],
           \A i, j \in 1..n : order[i] = order[j] => i = j,
           \A q \in DOMAIN need : \E i \in 1..n : order[i] = q
    PROVE  Total(need) = Upto([i \in 1..n |-> need[order[i]]], n)
<1> DEFINE f == [i \in 1..n |-> need[order[i]]]
           g == [t \in 1..n |-> f[t]]
           A == Pairs(g)
           C == Pairs(need)
           b == [p \in A |-> <<order[p[1]], p[2]>>]
<1>1. DOMAIN g = 1..n /\ \A x \in 1..n : g[x] = need[order[x]] /\ g[x] \in Int
  OBVIOUS
<1>2. IsFiniteSet(A) /\ Upto(f, n) = Cardinality(A) /\ Total(need) = Cardinality(C)
  <2>1. IsFiniteSet(1..n)
    BY FS_Interval
  <2>2. Upto(f, n) = Total(g)
    BY DEF Upto
  <2> HIDE DEF g
  <2> QED
    BY <1>1, <2>1, <2>2, PairsFinite
<1> HIDE DEF g
<1>3. \A p : p \in A <=> p = <<p[1], p[2]>> /\ p[1] \in 1..n /\ p[2] \in 1..need[order[p[1]]]
  BY <1>1, PairsFacts
<1>4. \A p : p \in C <=> p = <<p[1], p[2]>> /\ p[1] \in DOMAIN need /\ p[2] \in 1..need[p[1]]
  BY PairsFacts
<1> HIDE DEF A, C
<1>5. \A p \in A : b[p] = <<order[p[1]], p[2]>> /\ b[p] \in C
  <2> SUFFICES ASSUME NEW p \in A PROVE b[p] = <<order[p[1]], p[2]>> /\ b[p] \in C
    OBVIOUS
  <2>1. p[1] \in 1..n /\ p[2] \in 1..need[order[p[1]]] /\ order[p[1]] \in DOMAIN need
    BY <1>3
  <2> DEFINE z == <<order[p[1]], p[2]>>
  <2>2. z = <<z[1], z[2]>> /\ z[1] = order[p[1]] /\ z[2] = p[2] /\ b[p] = z
    OBVIOUS
  <2> HIDE DEF z, b
  <2>3. z \in C
    BY <1>4, <2>1, <2>2
  <2> QED
    BY <2>2, <2>3 DEF z
<1>6. b \in [A -> C] /\ DOMAIN b = A
  BY <1>5
<1> HIDE DEF b
<1>7. \A p, r \in A : b[p] = b[r] => p = r
  <2> SUFFICES ASSUME NEW p \in A, NEW r \in A, b[p] = b[r] PROVE p = r
    OBVIOUS
  <2>1. order[p[1]] = order[r[1]] /\ p[2] = r[2]
    BY <1>5
  <2>2. p[1] = r[1]
    BY <1>3, <2>1
  <2> QED
    BY <1>3, <2>1, <2>2
<1>8. \A z \in C : \E p \in A : b[p] = z
  <2> SUFFICES ASSUME NEW z \in C PROVE \E p \in A : b[p] = z
    OBVIOUS
  <2>1. z = <<z[1], z[2]>> /\ z[1] \in DOMAIN need /\ z[2] \in 1..need[z[1]]
    BY <1>4
  <2>2. PICK i \in 1..n : order[i] = z[1]
    BY <2>1
  <2> DEFINE p == <<i, z[2]>>
  <2>3. p = <<p[1], p[2]>> /\ p[1] = i /\ p[2] = z[2]
    OBVIOUS
  <2> HIDE DEF p
  <2>4. p \in A
    BY <1>3, <2>1, <2>2, <2>3
  <2>5. b[p] = z
    BY <1>5, <2>1, <2>2, <2>3, <2>4, ZenonT(40)
  <2> QED
    BY <2>4, <2>5
<1>9. b \in Bijection(A, C)
  BY <1>6, <1>7, <1>8 DEF Bijection, Injection, Surjection, IsInjective
<1>10. ExistsBijection(A, C)
  BY <1>9 DEF ExistsBijection
<1>11. Cardinality(C) = Cardinality(A)
  BY <1>2, <1>10, FS_Bijection
<1> QED
  BY <1>2, <1>11

-----------------------------------------------------------------------------
(* The allocator *)

\* alloc takes n different slots off the free list.
LEMMA AllocFacts ==
    ASSUME NumSlots \in Nat, NEW fr \in [Slot -> {0, 1}], NEW n \in Nat, Available(fr) >= n
    PROVE  LET a == AllocSeq(fr, n)
               rest == AllocRest(fr, n)
           IN  /\ a \in Seq(Slot) /\ Len(a) = n /\ DOMAIN a = 1..n
               /\ \A i \in 1..n : fr[a[i]] = 1
               /\ \A i, j \in 1..n : a[i] = a[j] => i = j
               /\ rest \in [Slot -> {0, 1}]
               /\ \A s \in Slot : rest[s] = 0 <=> fr[s] = 0 \/ \E i \in 1..n : a[i] = s
<1> DEFINE a == AllocSeq(fr, n)
           rest == AllocRest(fr, n)
           X(s) == {i \in 1..n : a[i] = s}
<1>1. NumSlots \in Nat /\ Slot = 1..NumSlots /\ \A t \in 1..NumSlots : fr[t] \in Nat
  BY DEF Slot
<1>2. Upto(fr, NumSlots) = Available(fr)
  <2>1. fr = [t \in 1..NumSlots |-> fr[t]]
    BY <1>1
  <2> QED
    BY <2>1 DEF Upto, Available
<1>3. a = [i \in 1..n |-> Min({s \in 1..NumSlots : Upto(fr, s) >= i})]
  BY DEF AllocSeq, Upto, Slot
<1>4. ASSUME NEW i \in 1..n
      PROVE  a[i] \in Slot /\ fr[a[i]] = 1 /\ Upto(fr, a[i] - 1) = i - 1
  <2>1. i \in Nat /\ i > 0 /\ i <= Upto(fr, NumSlots)
    <3>1. Upto(fr, NumSlots) \in Nat
      BY <1>1, UptoFacts, SMTT(30)
    <3> QED
      BY <1>2, <3>1
  <2>2. a[i] = Min({s \in 1..NumSlots : Upto(fr, s) >= i})
    BY <1>3
  <2> HIDE DEF a
  <2>3. a[i] \in 1..NumSlots /\ Upto(fr, a[i] - 1) < i /\ i <= Upto(fr, a[i] - 1) + fr[a[i]]
    BY <1>1, <2>1, <2>2, UptoReaches
  <2>4. a[i] - 1 \in 0..NumSlots
    BY <1>1, <2>3
  <2>5. Upto(fr, a[i] - 1) \in Nat
    BY <1>1, <2>4, UptoFacts
  <2>6. fr[a[i]] \in {0, 1} /\ a[i] \in Slot
    BY <1>1, <2>3
  <2> QED
    BY <2>3, <2>5, <2>6
<1>5. \A i, j \in 1..n : a[i] = a[j] => i = j
  <2> SUFFICES ASSUME NEW i \in 1..n, NEW j \in 1..n, a[i] = a[j] PROVE i = j
    OBVIOUS
  <2>1. Upto(fr, a[i] - 1) = i - 1 /\ Upto(fr, a[j] - 1) = j - 1
    BY <1>4
  <2> HIDE DEF a
  <2> QED
    BY <2>1
<1>6. a \in Seq(Slot) /\ Len(a) = n /\ DOMAIN a = 1..n
  <2>1. DOMAIN a = 1..n /\ a = [i \in 1..n |-> a[i]]
    BY <1>3
  <2> HIDE DEF a
  <2>2. a \in [1..n -> Slot]
    BY <1>4, <2>1
  <2> QED
    BY <2>1, <2>2
<1>7. rest = [s \in Slot |-> fr[s] - Cardinality(X(s))]
  BY DEF AllocRest
<1>8. ASSUME NEW s \in Slot, NEW i \in 1..n, a[i] = s
      PROVE  Cardinality(X(s)) = 1 /\ fr[s] = 1
  <2>1. X(s) = {i}
    <3> HIDE DEF a
    <3> QED
      BY <1>5, <1>8
  <2> QED
    BY <1>4, <1>8, <2>1, FS_Singleton
<1>9. ASSUME NEW s \in Slot, \A i \in 1..n : a[i] # s
      PROVE  Cardinality(X(s)) = 0
  <2>1. X(s) = {}
    BY <1>9
  <2> QED
    BY <2>1, FS_EmptySet
<1> HIDE DEF X, a, rest
<1>10. ASSUME NEW s \in Slot
       PROVE  /\ rest[s] \in {0, 1}
              /\ rest[s] = 0 <=> fr[s] = 0 \/ \E i \in 1..n : a[i] = s
  <2>1. fr[s] \in {0, 1} /\ rest[s] = fr[s] - Cardinality(X(s))
    BY <1>7
  <2>2. CASE \E i \in 1..n : a[i] = s
    <3>1. Cardinality(X(s)) = 1 /\ fr[s] = 1
      BY <1>8, <2>2
    <3> QED
      BY <2>1, <2>2, <3>1
  <2>3. CASE \A i \in 1..n : a[i] # s
    <3>1. Cardinality(X(s)) = 0
      BY <1>9, <2>3
    <3> QED
      BY <2>1, <2>3, <3>1
  <2> QED
    BY <2>2, <2>3
<1>11. rest \in [Slot -> {0, 1}]
  <2>1. rest = [s \in Slot |-> rest[s]]
    BY <1>7
  <2> QED
    BY <1>10, <2>1
<1> QED
  BY <1>4, <1>5, <1>6, <1>10, <1>11 DEF a, rest

-----------------------------------------------------------------------------
(* Who owns a slot *)

\* No two positions of P, or of t, or of both, have the same slot.
Apart(P, t) ==
    /\ \A x \in DOMAIN P : P[x] \in Slot
    /\ \A h \in DOMAIN t : t[h] \in Slot
    /\ \A x, y \in DOMAIN P : P[x] = P[y] => x = y
    /\ \A g, h \in DOMAIN t : t[g] = t[h] => g = h
    /\ \A x \in DOMAIN P, h \in DOMAIN t : P[x] # t[h]

\* Slot s belongs to a position of the tree or of a tail.
Owned(P, t, s) == (\E x \in DOMAIN P : P[x] = s) \/ (\E h \in DOMAIN t : t[h] = s)

\* The positions P of the tree and the tails t share the slots that are not free:
\* each of those has one owner.
Part(P, t, fr) ==
    /\ Apart(P, t)
    /\ fr \in [Slot -> {0, 1}]
    /\ \A s \in Slot : fr[s] = 0 <=> Owned(P, t, s)

\* Freeing slots that are in use, each once.
LEMMA FreedIs ==
    ASSUME NEW fr \in [Slot -> {0, 1}], NEW f,
           \A x \in DOMAIN f : f[x] \in Slot /\ fr[f[x]] = 0,
           \A x, y \in DOMAIN f : f[x] = f[y] => x = y
    PROVE  /\ Freed(fr, f) \in [Slot -> {0, 1}]
           /\ \A s \in Slot : Freed(fr, f)[s] = 0 <=> fr[s] = 0 /\ \A x \in DOMAIN f : f[x] # s
<1> DEFINE X(s) == {x \in DOMAIN f : f[x] = s}
<1>1. ASSUME NEW s \in Slot, NEW x \in DOMAIN f, f[x] = s
      PROVE  Cardinality(X(s)) = 1 /\ fr[s] = 0
  <2>1. X(s) = {x}
    BY <1>1
  <2> QED
    BY <1>1, <2>1, FS_Singleton
<1>2. ASSUME NEW s \in Slot, \A x \in DOMAIN f : f[x] # s
      PROVE  Cardinality(X(s)) = 0
  <2>1. X(s) = {}
    BY <1>2
  <2> QED
    BY <2>1, FS_EmptySet
<1>3. Freed(fr, f) = [s \in Slot |-> fr[s] + Cardinality(X(s))]
  BY DEF Freed
<1> HIDE DEF X
<1>4. ASSUME NEW s \in Slot
      PROVE  /\ fr[s] + Cardinality(X(s)) \in {0, 1}
             /\ fr[s] + Cardinality(X(s)) = 0 <=> fr[s] = 0 /\ \A x \in DOMAIN f : f[x] # s
  <2>1. fr[s] \in {0, 1}
    OBVIOUS
  <2>2. CASE \E x \in DOMAIN f : f[x] = s
    <3>1. Cardinality(X(s)) = 1 /\ fr[s] = 0
      BY <1>1, <2>2
    <3> QED
      BY <2>2, <3>1
  <2>3. CASE \A x \in DOMAIN f : f[x] # s
    <3>1. Cardinality(X(s)) = 0
      BY <1>2, <2>3
    <3> QED
      BY <2>1, <2>3, <3>1
  <2> QED
    BY <2>2, <2>3
<1> QED
  BY <1>3, <1>4

\* Slots pass to the free list when their owners give them up.
LEMMA PartFreed ==
    ASSUME NEW P, NEW t, NEW fr, Part(P, t, fr), NEW Q, NEW v, Apart(Q, v), NEW f,
           \A x \in DOMAIN f : f[x] \in Slot /\ Owned(P, t, f[x]),
           \A x, y \in DOMAIN f : f[x] = f[y] => x = y,
           \A s \in Slot : Owned(Q, v, s) <=> Owned(P, t, s) /\ \A x \in DOMAIN f : f[x] # s
    PROVE  Part(Q, v, Freed(fr, f))
<1>1. fr \in [Slot -> {0, 1}] /\ \A s \in Slot : fr[s] = 0 <=> Owned(P, t, s)
  BY DEF Part
<1>2. /\ Freed(fr, f) \in [Slot -> {0, 1}]
      /\ \A s \in Slot : Freed(fr, f)[s] = 0 <=> fr[s] = 0 /\ \A x \in DOMAIN f : f[x] # s
  BY <1>1, FreedIs
<1> QED
  BY <1>1, <1>2 DEF Part

\* A smaller set of positions keeps the slots apart.
LEMMA ApartSub ==
    ASSUME NEW P, NEW t, Apart(P, t), NEW Q, NEW v,
           DOMAIN Q \subseteq DOMAIN P, \A x \in DOMAIN Q : Q[x] = P[x],
           DOMAIN v \subseteq DOMAIN t, \A h \in DOMAIN v : v[h] = t[h]
    PROVE  Apart(Q, v)
<1>1. \A x \in DOMAIN Q : x \in DOMAIN P
  OBVIOUS
<1>2. \A h \in DOMAIN v : h \in DOMAIN t
  OBVIOUS
<1> QED
  BY <1>1, <1>2 DEF Apart

\* The slots a[1..n] are taken off the free list fr, which leaves rest.
Taken(fr, n, a, rest) ==
    /\ \A i \in 1..n : a[i] \in Slot /\ fr[a[i]] = 1
    /\ \A i, j \in 1..n : a[i] = a[j] => i = j
    /\ rest \in [Slot -> {0, 1}]
    /\ \A s \in Slot : rest[s] = 0 <=> fr[s] = 0 \/ \E i \in 1..n : a[i] = s

\* The tails grow from t to v by the slots a[1..n]; position h gets slot a[k[h]].
TailsGrow(t, v, n, a, k) ==
    /\ \A h \in DOMAIN t : h \in DOMAIN v /\ v[h] = t[h]
    /\ \A h \in DOMAIN v : h \notin DOMAIN t => k[h] \in 1..n /\ v[h] = a[k[h]]
    /\ \A g, h \in DOMAIN v : g \notin DOMAIN t /\ h \notin DOMAIN t /\ k[g] = k[h] => g = h
    /\ \A i \in 1..n : \E h \in DOMAIN v : h \notin DOMAIN t /\ k[h] = i

\* The tails grow by slots taken off the free list.
LEMMA GrowPart ==
    ASSUME NEW P, NEW t, NEW fr, Part(P, t, fr), NEW n \in Nat, NEW a, NEW rest,
           Taken(fr, n, a, rest), NEW v, NEW k, TailsGrow(t, v, n, a, k)
    PROVE  Part(P, v, rest)
<1> USE DEF Taken, TailsGrow
<1>1. /\ Apart(P, t) /\ fr \in [Slot -> {0, 1}]
      /\ \A s \in Slot : fr[s] = 0 <=> Owned(P, t, s)
  BY DEF Part
<1>2. \A i \in 1..n : /\ \A x \in DOMAIN P : P[x] # a[i]
                      /\ \A h \in DOMAIN t : t[h] # a[i]
  <2> SUFFICES ASSUME NEW i \in 1..n PROVE ~Owned(P, t, a[i])
    BY DEF Owned
  <2>1. a[i] \in Slot /\ fr[a[i]] # 0
    OBVIOUS
  <2> QED
    BY <1>1, <2>1
<1>3. Apart(P, v)
  <2>1. \A h \in DOMAIN v : \/ h \in DOMAIN t /\ v[h] = t[h]
                            \/ h \notin DOMAIN t /\ k[h] \in 1..n /\ v[h] = a[k[h]]
    OBVIOUS
  <2>2. \A h \in DOMAIN v : v[h] \in Slot
    BY <1>1, <2>1 DEF Apart
  <2>3. \A x \in DOMAIN P, h \in DOMAIN v : P[x] # v[h]
    BY <1>1, <1>2, <2>1 DEF Apart
  <2>4. ASSUME NEW g \in DOMAIN v, NEW h \in DOMAIN v, v[g] = v[h] PROVE g = h
    <3>1. CASE g \in DOMAIN t /\ h \in DOMAIN t
      BY <1>1, <2>1, <2>4, <3>1 DEF Apart
    <3>2. CASE g \in DOMAIN t /\ h \notin DOMAIN t
      BY <1>2, <2>1, <2>4, <3>2
    <3>3. CASE g \notin DOMAIN t /\ h \in DOMAIN t
      BY <1>2, <2>1, <2>4, <3>3
    <3>4. CASE g \notin DOMAIN t /\ h \notin DOMAIN t
      BY <2>1, <2>4, <3>4
    <3> QED
      BY <3>1, <3>2, <3>3, <3>4
  <2> QED
    BY <1>1, <2>2, <2>3, <2>4 DEF Apart
<1>4. ASSUME NEW s \in Slot
      PROVE  Owned(P, v, s) <=> Owned(P, t, s) \/ \E i \in 1..n : a[i] = s
  BY DEF Owned
<1> QED
  BY <1>1, <1>3, <1>4 DEF Part

\* The part of a sequence from a to b.
LEMMA SubSeqFacts ==
    ASSUME NEW S, NEW s \in Seq(S), NEW a \in Nat, NEW b \in Nat, a <= b, b <= Len(s)
    PROVE  /\ SubSeq(s, a + 1, b) \in Seq(S) /\ Len(SubSeq(s, a + 1, b)) = b - a
           /\ DOMAIN SubSeq(s, a + 1, b) = 1..b - a
           /\ \A i \in 1..b - a : SubSeq(s, a + 1, b)[i] = s[a + i]
<1>1. \A i \in a + 1 .. b : s[i] \in S
  OBVIOUS
<1>2. SubSeq(s, a + 1, b) = [i \in 1..b - a |-> s[a + i]]
  OBVIOUS
<1> QED
  BY <1>1, <1>2

\* SetToSeq lists a finite set.
LEMMA SetToSeqFacts ==
    ASSUME NEW S, IsFiniteSet(S)
    PROVE  /\ Cardinality(S) \in Nat
           /\ SetToSeq(S) \in [1..Cardinality(S) -> S]
           /\ SetToSeq(S) \in Seq(S)
           /\ \A i, j \in 1..Cardinality(S) : SetToSeq(S)[i] = SetToSeq(S)[j] => i = j
           /\ \A x \in S : \E i \in 1..Cardinality(S) : SetToSeq(S)[i] = x
<1> DEFINE n == Cardinality(S)
           f == SetToSeq(S)
<1>1. n \in Nat /\ ExistsBijection(1..n, S)
  BY FS_CardinalityType
<1> HIDE DEF n
<1>2. \E g \in [1..n -> S] : IsInjective(g)
  BY <1>1 DEF ExistsBijection, Bijection, Injection
<1>3. f = CHOOSE g \in [1..n -> S] : IsInjective(g)
  BY DEF SetToSeq, n
<1>4. f \in [1..n -> S] /\ IsInjective(f)
  <2> HIDE DEF f
  <2> QED
    BY <1>2, <1>3
<1> HIDE DEF f
<1>5. \A i, j \in 1..n : f[i] = f[j] => i = j
  BY <1>4 DEF IsInjective
<1>6. f \in Injection(1..n, S)
  BY <1>4 DEF Injection
<1>7. Cardinality(1..n) = n /\ IsFiniteSet(1..n)
  <2>1. 1 \in Int /\ n \in Int
    BY <1>1
  <2>2. Cardinality(1..n) = IF 1 > n THEN 0 ELSE n - 1 + 1
    BY <2>1, FS_Interval
  <2> QED
    BY <2>1, <2>2, <1>1, FS_Interval
<1>8. f \in Surjection(1..n, S)
  BY <1>6, <1>7, FS_Injection DEF n
<1>9. \A x \in S : \E i \in 1..n : f[i] = x
  BY <1>8 DEF Surjection
<1>10. f \in Seq(S)
  BY <1>1, <1>4
<1> QED
  BY <1>1, <1>4, <1>5, <1>9, <1>10 DEF f, n
=============================================================================
