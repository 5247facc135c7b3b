------------------------- MODULE RadixCache_proofs --------------------------
(***************************************************************************)
(* Theorems about the prefix cache, for any number of principals, objects, *)
(* requests and slots: locks and sizes are exact, one prompt at a time is  *)
(* prefilled in chunks, the ledger stays within its budget, a denied probe *)
(* leaves no trace and no revoked object is served.  All rest on LockInv:  *)
(* the tree is well formed and a node's lock is the number of requests     *)
(* below it.                                                               *)
(***************************************************************************)
EXTENDS RadixCache, RadixTree_proofs

-----------------------------------------------------------------------------
(* Lookups *)

CacheShape(C) ==
    C = [tree |-> C.tree, ledger |-> C.ledger, installed |-> C.installed]

\* _key_match_page_size1 returns the length of a common prefix.
LEMMA KeyMatchFacts ==
    ASSUME NEW p \in Seq(Nat), NEW k \in Seq(Nat)
    PROVE  LET n == KeyMatch(p, k)
           IN  n \in 0..Len(k) /\ n <= Len(p) /\ Take(p, n) = Take(k, n)
<1> DEFINE S == {n \in 0..Len(k) : n <= Len(p) /\ Take(p, n) = Take(k, n)}
<1>1. Len(k) \in Nat /\ Len(p) \in Nat
  OBVIOUS
<1>2. Take(p, 0) = Take(k, 0)
  BY TakeNone
<1>3. 0 \in S
  BY <1>1, <1>2
<1>4. S \subseteq Nat /\ S # {} /\ \A s \in S : s <= Len(k)
  BY <1>1, <1>3
<1>5. Max(S) \in S
  <2> HIDE DEF S
  <2> QED
    BY <1>1, <1>4, MaxFacts
<1>6. KeyMatch(p, k) = Max(S)
  BY DEF KeyMatch
<1> QED
  BY <1>5, <1>6

\* Marking nodes exhausted changes neither places nor locks.
LEMMA ExhaustFacts ==
    ASSUME NEW T, TreeOK(T), NEW X
    PROVE  LET R == Exhaust(T, X)
           IN  /\ TreeOK(R) /\ R.pos = T.pos /\ DOMAIN R.nd = DOMAIN T.nd
               /\ R.evictable = T.evictable /\ R.protected = T.protected
               /\ \A x \in DOMAIN T.nd : R.nd[x].lock = T.nd[x].lock
<1> DEFINE R == Exhaust(T, X)
           f == [x \in DOMAIN T.nd |->
                    IF x \in X THEN [T.nd[x] EXCEPT !.vis = "exhausted_private"] ELSE T.nd[x]]
<1>0. PlacesOK(T) /\ NodesOK(T) /\ TreeShape(T)
  BY DEF TreeOK
<1>1. R = [T EXCEPT !.nd = f]
  BY DEF Exhaust
<1>2. /\ R.pos = T.pos /\ R.nd = f /\ R.evictable = T.evictable
      /\ R.protected = T.protected /\ TreeShape(R)
  <2>1. T = [pos |-> T.pos, nd |-> T.nd, evictable |-> T.evictable, protected |-> T.protected]
    BY <1>0 DEF TreeShape
  <2> HIDE DEF R, f
  <2> QED
    BY <1>1, <2>1 DEF TreeShape
<1> HIDE DEF R
<1>3. ASSUME NEW x \in DOMAIN T.nd
      PROVE  /\ f[x].lock = T.nd[x].lock
             /\ f[x] = [lock |-> f[x].lock, vis |-> f[x].vis]
             /\ f[x].lock \in Nat
  <2>1. T.nd[x] = [lock |-> T.nd[x].lock, vis |-> T.nd[x].vis] /\ T.nd[x].lock \in Nat
    BY <1>0 DEF NodesOK
  <2>2. CASE x \in X
    <3>1. f[x] = [lock |-> T.nd[x].lock, vis |-> "exhausted_private"]
      BY <2>1, <2>2
    <3> QED
      BY <3>1, <2>1
  <2>3. CASE x \notin X
    BY <2>1, <2>3
  <2> QED
    BY <2>2, <2>3
<1>4. DOMAIN R.nd = DOMAIN T.nd
  BY <1>2
<1> HIDE DEF f
<1>5. NodesOK(R)
  BY <1>2, <1>3, <1>4 DEF NodesOK
<1>6. PlacesOK(R)
  BY <1>0, <1>2, <1>4, SamePlaces
<1> QED
  BY <1>2, <1>3, <1>4, <1>5, <1>6 DEF R, TreeOK

\* The same nodes with the same locks: the tree has grown by nothing.
LEMMA SameGrown ==
    ASSUME NEW T, NEW R, TreeOK(T), TreeOK(R), R.pos = T.pos, DOMAIN R.nd = DOMAIN T.nd,
           R.evictable = T.evictable, R.protected = T.protected,
           \A x \in DOMAIN T.nd : R.nd[x].lock = T.nd[x].lock
    PROVE  Grown(T, R)
<1>1. \A z, x : Ends(R, z, x) <=> Ends(T, z, x)
  BY SamePlaces DEF TreeOK
<1>2. Loose(R) = Loose(T) /\ Tight(R) = Tight(T)
  BY <1>1 DEF Loose, Tight, Gone
<1> QED
  BY <1>2 DEF Grown, SizesOK

\* What match_prefix returns: a prefix of the key that is cached, as a node of
\* the tree, which it may have split there.
MatchOf(C, key, m) ==
    /\ CacheShape(m.C)
    /\ Grown(C.tree, m.C.tree) /\ m.C.tree.pos = C.tree.pos
    /\ m.len \in 0..Len(key)
    /\ m.len = 0 => m.last = NoNode
    /\ m.len # 0 => /\ m.last = <<m.last[1], Take(key, m.len)>>
                    /\ m.last \in DOMAIN m.C.tree.nd

\* The nodes a walk serves, those it charges, and the tree once it has marked the
\* exhausted ones.
ServedIn(C, ns, key, u) == Served(C, Route(C.tree, ns, key), u)
PaidIn(C, ns, key, u) == {x \in ServedIn(C, ns, key, u) : MustReserve(C, x, u)}
Exhausted(C, ns, key, u) ==
    Exhaust(C.tree, Spent(C, Route(C.tree, ns, key), PaidIn(C, ns, key, u), u))

WalkOf(C, ns, key, u, m) ==
    /\ CacheShape(m.C) /\ m.C.installed = C.installed
    /\ m.C.ledger = Charge(C, PaidIn(C, ns, key, u))
    /\ SplitOf(Exhausted(C, ns, key, u), ns, Take(key, m.len), m.C.tree)
    /\ m.len \in 0..Len(key)
    /\ m.len # 0 => \E c \in ServedIn(C, ns, key, u) : m.len = KeyMatch(c[2], key)
    /\ m.last = IF m.len = 0 THEN NoNode ELSE <<ns, Take(key, m.len)>>

\* _match_prefix_helper in detail: what it charges, where it splits the tree and
\* which node it served last.
LEMMA WalkDetail ==
    ASSUME NEW C, CacheShape(C), TreeOK(C.tree), NEW ns, NEW key \in Seq(Nat), NEW u
    PROVE  WalkOf(C, ns, key, u, Walk(C, ns, key, u))
<1> DEFINE route == Route(C.tree, ns, key)
           served == ServedIn(C, ns, key, u)
           paid == PaidIn(C, ns, key, u)
           E == Exhausted(C, ns, key, u)
           m == Walk(C, ns, key, u)
<1> DEFINE lens == {0} \cup {KeyMatch(x[2], key) : x \in served}
           len == Max(lens)
           S == Split(E, ns, Take(key, len))
<1>0. PlacesOK(C.tree) /\ Len(key) \in Nat
  BY DEF TreeOK
<1>1. \A x \in served : x \in DOMAIN C.tree.nd /\ x[1] = ns
  BY DEF ServedIn, Served, Reached, Route, Nodes
<1> HIDE DEF served
<1>2. \A x \in served : /\ KeyMatch(x[2], key) \in 0..Len(key)
                        /\ KeyMatch(x[2], key) <= Len(x[2])
                        /\ Take(x[2], KeyMatch(x[2], key)) = Take(key, KeyMatch(x[2], key))
  BY <1>0, <1>1, NodeIsPlace, KeyMatchFacts DEF IsSpot
<1>3. lens \subseteq Nat /\ lens # {} /\ \A s \in lens : s <= Len(key)
  BY <1>0, <1>2
<1>4. len \in lens
  <2> HIDE DEF lens
  <2> QED
    BY <1>0, <1>3, MaxFacts
<1>5. len \in 0..Len(key)
  BY <1>0, <1>3, <1>4
<1>6. len = 0 \/ <<ns, Take(key, len)>> \in DOMAIN C.tree.pos
  <2> SUFFICES ASSUME len # 0 PROVE <<ns, Take(key, len)>> \in DOMAIN C.tree.pos
    OBVIOUS
  <2>1. PICK x \in served : len = KeyMatch(x[2], key)
    BY <1>4
  <2> HIDE DEF len, lens
  <2>2. /\ x \in DOMAIN C.tree.nd /\ x[1] = ns /\ IsSpot(x) /\ x \in DOMAIN C.tree.pos
        /\ Len(x[2]) \in Nat
    BY <1>0, <1>1, NodeIsPlace, LenType
  <2>3. len \in 0..Len(x[2]) /\ Take(x[2], len) = Take(key, len)
    BY <2>1, <2>2, <1>2, <1>5
  <2>4. IsPlace(At(x, len)) /\ Above(At(x, len), x)
    BY <2>2, <2>3, AtFacts
  <2>5. At(x, len) \in DOMAIN C.tree.pos
    BY <2>2, <2>4, <1>0 DEF PlacesOK
  <2> QED
    BY <2>2, <2>3, <2>5 DEF At
<1>7. TreeOK(E) /\ E.pos = C.tree.pos
  BY ExhaustFacts DEF Exhausted
<1>c. len # 0 => \E c \in served : len = KeyMatch(c[2], key)
  BY <1>4
<1>9. m = [C |-> [C EXCEPT !.tree = S, !.ledger = Charge(C, paid)],
           hits |-> {<<ns, Take(key, n)>> : n \in 1..len}
                       \cap UNION {Positions(C.tree, x) : x \in paid},
           len |-> len,
           last |-> IF len = 0 THEN NoNode ELSE <<ns, Take(key, len)>>]
  BY DEF Walk, WalkRoute, WalkServed, WalkResult, Exhausted, PaidIn, ServedIn, served
<1> HIDE DEF len, E, m, paid
<1>8. SplitOf(E, ns, Take(key, len), S)
  <2>1. CASE len = 0
    <3>1. Take(key, len) = <<>>
      BY <2>1, TakeNone
    <3> QED
      BY <3>1, <1>7, SplitFacts
  <2>2. CASE len # 0
    BY <2>2, <1>6, <1>7, SplitFacts
  <2> QED
    BY <2>1, <2>2
<1> HIDE DEF S
<1>10. m.len = len /\ m.last = IF len = 0 THEN NoNode ELSE <<ns, Take(key, len)>>
  BY ONLY <1>9
<1>11. m.C = [C EXCEPT !.tree = S, !.ledger = Charge(C, paid)]
  BY ONLY <1>9
<1>12. /\ CacheShape(m.C) /\ m.C.tree = S /\ m.C.installed = C.installed
       /\ m.C.ledger = Charge(C, paid)
  <2> DEFINE D == m.C
             G == Charge(C, paid)
  <2>1. C = [tree |-> C.tree, ledger |-> C.ledger, installed |-> C.installed]
    BY DEF CacheShape
  <2>2. D = [C EXCEPT !.tree = S, !.ledger = G]
    BY <1>11
  <2> HIDE DEF D, G
  <2>3. D = [tree |-> S, ledger |-> G, installed |-> C.installed]
    BY ONLY <2>1, <2>2
  <2>4. CacheShape(D) /\ D.tree = S /\ D.installed = C.installed /\ D.ledger = G
    BY ONLY <2>3 DEF CacheShape
  <2> QED
    BY ONLY <2>4 DEF D, G
<1>13. WalkOf(C, ns, key, u, m)
  BY ONLY <1>5, <1>8, <1>c, <1>10, <1>12 DEF WalkOf, E, paid, served
<1> QED
  BY <1>13 DEF m

\* _match_prefix_helper returns a prefix of the key in the searched namespace
\* and leaves a well-formed tree with the same places.
LEMMA WalkFacts ==
    ASSUME NEW C, CacheShape(C), TreeOK(C.tree), NEW ns, NEW key \in Seq(Nat), NEW u
    PROVE  LET m == Walk(C, ns, key, u)
           IN  /\ MatchOf(C, key, m)
               /\ m.C.installed = C.installed
               /\ m.len # 0 => m.last[1] = ns
<1> DEFINE E == Exhausted(C, ns, key, u)
           m == Walk(C, ns, key, u)
           len == m.len
           S == m.C.tree
<1>0. PlacesOK(C.tree) /\ Len(key) \in Nat
  BY DEF TreeOK
<1>7. /\ TreeOK(E) /\ E.pos = C.tree.pos /\ DOMAIN E.nd = DOMAIN C.tree.nd
      /\ E.evictable = C.tree.evictable /\ E.protected = C.tree.protected
      /\ \A x \in DOMAIN C.tree.nd : E.nd[x].lock = C.tree.nd[x].lock
  BY ExhaustFacts DEF Exhausted
<1>8. /\ CacheShape(m.C) /\ m.C.installed = C.installed /\ SplitOf(E, ns, Take(key, len), S)
      /\ len \in 0..Len(key)
      /\ m.last = IF len = 0 THEN NoNode ELSE <<ns, Take(key, len)>>
  <2> HIDE DEF m
  <2>1. WalkOf(C, ns, key, u, m)
    BY WalkDetail DEF m
  <2> QED
    BY <2>1 DEF WalkOf
<1> HIDE DEF S, m, E, len
<1>13. Grown(C.tree, S) /\ S.pos = C.tree.pos
  <2>1. S.pos = C.tree.pos
    BY <1>7, <1>8 DEF SplitOf
  <2>2. Grown(C.tree, E) /\ Grown(E, S)
    BY <1>7, <1>8, SameGrown, SplitGrown
  <2>3. \A z, x : Ends(E, z, x) <=> Ends(C.tree, z, x)
    BY <1>0, <1>7, SamePlaces
  <2>4. ASSUME NEW x \in DOMAIN S.nd \ DOMAIN C.tree.nd
        PROVE  \/ S.nd[x].lock = 0 /\ x \notin DOMAIN C.tree.pos
               \/ \E c \in DOMAIN C.tree.nd : Ends(C.tree, x, c) /\ S.nd[x].lock = C.tree.nd[c].lock
    <3>1. \/ S.nd[x].lock = 0 /\ x \notin DOMAIN E.pos
          \/ \E c \in DOMAIN E.nd : Ends(E, x, c) /\ S.nd[x].lock = E.nd[c].lock
      BY <2>2, <1>7 DEF Grown
    <3> QED
      BY <3>1, <2>3, <1>7
  <2>5. \A x \in DOMAIN C.tree.nd : S.nd[x].lock = C.tree.nd[x].lock
    BY <2>2, <1>7 DEF Grown
  <2>6. SizesOK(C.tree) => SizesOK(S)
    BY <2>2 DEF Grown
  <2>7. TreeOK(S) /\ DOMAIN C.tree.nd \subseteq DOMAIN S.nd
    BY <2>2, <1>7 DEF Grown
  <2> QED
    BY <2>1, <2>4, <2>5, <2>6, <2>7 DEF Grown
<1>14. ASSUME len # 0 PROVE <<ns, Take(key, len)>> \in DOMAIN S.nd
  <2>1. Take(key, len) # <<>>
    BY <1>8, <1>14, TakeType
  <2> QED
    BY <2>1, <1>8 DEF SplitOf
<1>15. len # 0 => m.last = <<ns, Take(key, len)>> /\ m.last[1] = ns
  BY <1>8
<1> QED
  BY <1>8, <1>13, <1>14, <1>15 DEF MatchOf, m, S, len

\* The namespaces match_prefix may look into.
Searched(u, objects) == objects \cup {u} \cup (IF Mode = "balanced" THEN User ELSE {})

\* The namespaces of a lookup are a non-empty finite list.
LEMMA SearchOrderFacts ==
    ASSUME NEW u, NEW objects
    PROVE  \E n \in Nat : /\ n > 0
                          /\ SearchOrder(u, objects) \in [1..n -> Searched(u, objects)]
<1> DEFINE Spaces == Searched(u, objects)
           a == IF objects = {} THEN <<>> ELSE <<CHOOSE o \in objects : TRUE>>
           b == IF Mode = "balanced" THEN SetToSeq(User \ {u}) ELSE <<>>
<1>1. a \in Seq(Spaces)
  <2>1. CASE objects = {}
    BY <2>1
  <2>2. CASE objects # {}
    <3>1. (CHOOSE o \in objects : TRUE) \in Spaces
      BY <2>2 DEF Searched
    <3> HIDE DEF Spaces
    <3> QED
      BY <2>2, <3>1
  <2> QED
    BY <2>1, <2>2
<1>2. b \in Seq(Spaces)
  <2>1. CASE Mode = "balanced"
    <3>1. IsFiniteSet(User \ {u})
      BY <2>1, CacheAssumption, FS_Difference
    <3>2. b \in Seq(User \ {u})
      BY <2>1, <3>1, SetToSeqFacts
    <3>3. User \ {u} \subseteq Spaces
      BY <2>1 DEF Searched
    <3> HIDE DEF b, Spaces
    <3> QED
      BY <3>2, <3>3
  <2>2. CASE Mode # "balanced"
    BY <2>2
  <2> QED
    BY <2>1, <2>2
<1>3. <<u>> \in Seq(Spaces)
  <2>1. u \in Spaces
    BY DEF Searched
  <2> HIDE DEF Spaces
  <2> QED
    BY <2>1
<1>4. SearchOrder(u, objects) = a \o <<u>> \o b
  BY DEF SearchOrder
<1> HIDE DEF a, b, Spaces
<1>5. a \o <<u>> \in Seq(Spaces) /\ Len(a \o <<u>>) = Len(a) + 1 /\ Len(a) \in Nat
  BY <1>1, <1>3
<1>6. /\ (a \o <<u>>) \o b \in Seq(Spaces)
      /\ Len((a \o <<u>>) \o b) = Len(a) + 1 + Len(b) /\ Len(b) \in Nat
  BY <1>2, <1>5
<1>7. (a \o <<u>>) \o b \in [1..Len((a \o <<u>>) \o b) -> Spaces]
  <2> DEFINE s == (a \o <<u>>) \o b
  <2>1. s \in Seq(Spaces)
    BY <1>6
  <2> HIDE DEF s
  <2>2. s \in [1..Len(s) -> Spaces]
    BY <2>1
  <2> QED
    BY <2>2 DEF s
<1>8. Len((a \o <<u>>) \o b) \in Nat /\ Len((a \o <<u>>) \o b) > 0
  BY <1>5, <1>6
<1> QED
  BY <1>4, <1>7, <1>8 DEF Spaces

\* A lookup over a search order returns a walk's result.
LEMMA MatchInFacts ==
    ASSUME NEW C, CacheShape(C), TreeOK(C.tree), NEW key \in Seq(Nat), NEW u, NEW final,
           NEW objects
    PROVE  LET m == MatchIn(C, u, key, final, objects)
           IN  /\ MatchOf(C, key, m)
               /\ m.C.installed = C.installed
               /\ m.len # 0 => m.last[1] \in Searched(u, objects)
<1> DEFINE order == SearchOrder(u, objects)
           walks == Walks(C, order, key, u)
           I == {i \in DOMAIN walks : walks[i].len > 0 \/ i \in final \/ i = Len(walks)}
           m == MatchIn(C, u, key, final, objects)
<1>1. PICK n \in Nat : n > 0 /\ order \in [1..n -> Searched(u, objects)]
  BY SearchOrderFacts
<1> HIDE DEF order
<1>2. DOMAIN walks = 1..n /\ \A i \in 1..n : walks[i] = Walk(C, order[i], key, u)
  BY <1>1 DEF Walks
<1>3. Len(walks) = n
  <2>1. walks = [i \in 1..n |-> Walk(C, order[i], key, u)]
    BY <1>1 DEF Walks
  <2> QED
    BY <2>1, <1>1
<1> HIDE DEF walks
<1>4. n \in I /\ I \subseteq 1..n
  BY <1>1, <1>2, <1>3
<1>5. Min(I) \in I
  <2>1. I \subseteq Nat /\ I # {}
    BY <1>4
  <2> HIDE DEF I
  <2> QED
    BY <2>1, MinFacts
<1>6. Min(I) \in 1..n
  BY <1>4, <1>5
<1>7. m = walks[Min(I)]
  BY DEF MatchIn, FirstHit, walks, order
<1> HIDE DEF I, m
<1>8. m = Walk(C, order[Min(I)], key, u) /\ order[Min(I)] \in Searched(u, objects)
  BY <1>1, <1>2, <1>6, <1>7
<1>9. /\ MatchOf(C, key, m) /\ m.C.installed = C.installed
      /\ m.len # 0 => m.last[1] = order[Min(I)]
  BY <1>8, WalkFacts
<1> QED
  BY <1>8, <1>9 DEF m

\* match_prefix: the hit lies in the requester's tree, in another principal's
\* (Balanced mode), or under an object that is not revoked.
LEMMA MatchPrefixFacts ==
    ASSUME NEW C, CacheShape(C), TreeOK(C.tree), NEW key \in Seq(Nat),
           NEW u \in User \cup {NoUser}, NEW auth
    PROVE  LET m == MatchPrefix(C, u, key, auth)
           IN  /\ MatchOf(C, key, m)
               /\ C.installed \cup {auth} \subseteq Object \cup {NoObject}
                    => m.C.installed \subseteq C.installed \cup ({auth} \cap Object)
               /\ m.len # 0 =>
                    /\ u \in User
                    /\ \/ m.last[1] \in (C.installed \cup {auth}) \ revoked
                       \/ m.last[1] = u
                       \/ Mode = "balanced" /\ m.last[1] \in User
               /\ m.len # 0 /\ Mode = "strict" /\ auth = NoObject /\ C.installed = {}
                    => m.last[1] = u
<1> DEFINE m == MatchPrefix(C, u, key, auth)
<1>1. CASE key = <<>> \/ u = NoUser
  <2>1. m.C = C /\ m.len = 0 /\ m.last = NoNode
    BY <1>1 DEF MatchPrefix
  <2>2. Grown(C.tree, C.tree)
    BY SameGrown
  <2>3. 0 \in 0..Len(key)
    OBVIOUS
  <2> QED
    BY <2>1, <2>2, <2>3 DEF MatchOf
<1>2. CASE key # <<>> /\ u # NoUser /\ InstallOK(auth, key)
  <2> DEFINE D == Install(C, auth)
  <2>1. D.tree = C.tree /\ CacheShape(D) /\ D.installed = C.installed \cup {auth}
    <3>1. C = [tree |-> C.tree, ledger |-> C.ledger, installed |-> C.installed]
      BY DEF CacheShape
    <3>2. D = [C EXCEPT !.installed = C.installed \cup {auth}]
      BY DEF Install
    <3> HIDE DEF D
    <3> QED
      BY <3>1, <3>2 DEF CacheShape
  <2>2. m = MatchIn(D, u, key, {1}, {auth})
    BY <1>2 DEF MatchPrefix
  <2> HIDE DEF D, m
  <2>3. /\ MatchOf(D, key, m) /\ m.C.installed = D.installed
        /\ m.len # 0 => m.last[1] \in Searched(u, {auth})
    <3>1. LET w == MatchIn(D, u, key, {1}, {auth})
          IN  /\ MatchOf(D, key, w) /\ w.C.installed = D.installed
              /\ w.len # 0 => w.last[1] \in Searched(u, {auth})
      BY <2>1, MatchInFacts
    <3> QED
      BY <3>1, <2>2, Zenon
  <2>4. auth # NoObject /\ auth \notin revoked
    BY <1>2 DEF InstallOK
  <2>5. MatchOf(C, key, m)
    BY <2>1, <2>3 DEF MatchOf
  <2> QED
    BY <2>1, <2>3, <2>4, <2>5, <1>2 DEF Searched, m
<1>3. CASE key # <<>> /\ u # NoUser /\ ~InstallOK(auth, key)
  <2> DEFINE O == MatchingPublicRoot(C, key)
  <2>2. m = MatchIn(C, u, key, {}, O)
    BY <1>3 DEF MatchPrefix
  <2>4. O \subseteq C.installed \ revoked
    BY DEF MatchingPublicRoot
  <2> HIDE DEF m, O
  <2>3. /\ MatchOf(C, key, m) /\ m.C.installed = C.installed
        /\ m.len # 0 => m.last[1] \in Searched(u, O)
    <3>1. LET w == MatchIn(C, u, key, {}, O)
          IN  /\ MatchOf(C, key, w) /\ w.C.installed = C.installed
              /\ w.len # 0 => w.last[1] \in Searched(u, O)
      BY MatchInFacts
    <3> QED
      BY <3>1, <2>2, Zenon
  <2> QED
    BY <2>3, <2>4, <1>3 DEF Searched, m
<1> QED
  BY <1>1, <1>2, <1>3

-----------------------------------------------------------------------------
(* Insertions *)

\* insert() adds the key under its namespace and reports the prefix that was
\* there.
LEMMA InsertInFacts ==
    ASSUME NEW C, CacheShape(C), TreeOK(C.tree), NEW ns, NEW key \in Seq(Nat), NEW value, NEW vis
    PROVE  LET i == InsertIn(C, ns, key, value, vis)
           IN  /\ CacheShape(i.C) /\ i.C.installed = C.installed /\ i.C.ledger = C.ledger
               /\ InsertOf(C.tree, ns, key, value, i.C.tree)
               /\ i.len = InsertedPrefix(C.tree, ns, key)
<1> DEFINE i == InsertIn(C, ns, key, value, vis)
           T == InsertHelper(C.tree, ns, key, value, Chunk, vis)
<1>1. C = [tree |-> C.tree, ledger |-> C.ledger, installed |-> C.installed]
  BY DEF CacheShape
<1>2. i.C = [C EXCEPT !.tree = T] /\ i.len = InsertedPrefix(C.tree, ns, key)
  BY DEF InsertIn
<1>3. Chunk \in Nat \ {0}
  BY CacheAssumption
<1>4. InsertOf(C.tree, ns, key, value, T)
  BY <1>3, InsertFacts
<1> HIDE DEF i, T
<1>5. i.C.tree = T /\ CacheShape(i.C) /\ i.C.installed = C.installed /\ i.C.ledger = C.ledger
  BY <1>1, <1>2 DEF CacheShape
<1> QED
  BY <1>2, <1>4, <1>5 DEF i

\* insert: without an authorization, under the principal's own root.
LEMMA InsertCacheFacts ==
    ASSUME NEW C, CacheShape(C), TreeOK(C.tree), NEW q \in Request, NEW key \in Seq(Nat),
           NEW value
    PROVE  LET i == Insert(C, q, key, value)
           IN  /\ CacheShape(i.C) /\ Grown(C.tree, i.C.tree)
               /\ i.C.installed \subseteq C.installed \cup ({Meta[q].auth} \cap Object)
               /\ i.C.ledger = C.ledger
               /\ Meta[q].user # NoUser /\ Meta[q].auth = NoObject
                    => /\ InsertOf(C.tree, Meta[q].user, key, value, i.C.tree)
                       /\ i.len = InsertedPrefix(C.tree, Meta[q].user, key)
               /\ Meta[q].user = NoUser => i.C = C /\ i.len = 0
<1> DEFINE i == Insert(C, q, key, value)
           a == Meta[q].auth
<1>1. CASE Meta[q].user = NoUser
  <2>1. i.C = C /\ i.len = 0
    BY <1>1 DEF Insert
  <2>2. Grown(C.tree, C.tree)
    BY SameGrown
  <2> QED
    BY <2>1, <2>2, <1>1
<1>2. CASE Meta[q].user # NoUser /\ InsertPublic(q, key)
  <2>0. a # NoObject /\ a \in Object /\ PublicTokens[a] \in Seq(Nat)
    <3>1. a # NoObject
      BY <1>2 DEF InsertPublic
    <3>2. a \in Object
      BY <3>1, CacheAssumption
    <3> QED
      BY <3>1, <3>2, CacheAssumption
  <2> DEFINE D == Install(C, a)
  <2>1. D.tree = C.tree /\ CacheShape(D) /\ D.installed = C.installed \cup {a} /\ D.ledger = C.ledger
    <3>1. C = [tree |-> C.tree, ledger |-> C.ledger, installed |-> C.installed]
      BY DEF CacheShape
    <3>2. D = [C EXCEPT !.installed = C.installed \cup {a}]
      BY DEF Install
    <3> HIDE DEF D, a
    <3> QED
      BY <3>1, <3>2 DEF CacheShape
  <2>2. i = InsertIn(D, a, PublicTokens[a], value, "verified_public")
    BY <1>2 DEF Insert
  <2> HIDE DEF D, i, a
  <2>3. /\ CacheShape(i.C) /\ i.C.installed = D.installed /\ i.C.ledger = D.ledger
        /\ InsertOf(D.tree, a, PublicTokens[a], value, i.C.tree)
    BY <2>0, <2>1, <2>2, InsertInFacts
  <2>4. Grown(C.tree, i.C.tree)
    BY <2>1, <2>3 DEF InsertOf
  <2> QED
    BY <2>0, <2>1, <2>3, <2>4, <1>2 DEF i, a
<1>3. CASE Meta[q].user # NoUser /\ ~InsertPublic(q, key)
  <2>2. i = InsertIn(C, Meta[q].user, key, value, "private")
    BY <1>3 DEF Insert
  <2> HIDE DEF i
  <2>3. /\ CacheShape(i.C) /\ i.C.installed = C.installed /\ i.C.ledger = C.ledger
        /\ InsertOf(C.tree, Meta[q].user, key, value, i.C.tree)
        /\ i.len = InsertedPrefix(C.tree, Meta[q].user, key)
    BY <2>2, InsertInFacts
  <2> QED
    BY <2>3, <1>3 DEF i, InsertOf
<1> QED
  BY <1>1, <1>2, <1>3

-----------------------------------------------------------------------------
(* The root *)

\* The root locks nothing.
LEMMA NothingAboveNoNode ==
    ASSUME NEW x, IsPlace(x)
    PROVE  ~Above(x, NoNode)
<1>1. <<>> \in Seq(Nat) /\ NoNode[1] = NoObject /\ NoNode[2] = <<>> /\ IsSpot(NoNode)
  BY DEF NoNode, IsSpot
<1>2. Len(NoNode[2]) = 0
  BY <1>1
<1>3. IsSpot(x) /\ Len(x[2]) \in Nat /\ Len(x[2]) > 0
  BY LenType DEF IsPlace
<1> QED
  BY <1>1, <1>2, <1>3, AboveLen

-----------------------------------------------------------------------------
(* The locks *)

ReqShape(r) ==
    r = [st |-> r.st, ids |-> r.ids, fill |-> r.fill, row |-> r.row, plen |-> r.plen,
         last |-> r.last]

\* A request; its prefix is part of what it is about to compute.
Filling == {"admitted", "prefill", "chunked", "cached"}
ReqIs(r) ==
    /\ ReqShape(r) /\ r.st \in Status
    /\ r.ids \in Seq(Nat) /\ r.fill \in 0..Len(r.ids) /\ r.plen \in Nat
    /\ r.st \in Filling => r.plen <= r.fill
ReqOK == /\ req = [q \in Request |-> req[q]]
         /\ \A q \in Request : ReqIs(req[q])
         /\ chunked_prefill_size \in ChunkSizes

LastOf == [q \in Request |-> req[q].last]

\* The inductive invariant for the locks: a well-formed tree whose sizes are
\* right, in which every request in flight holds a node, and each node is locked
\* once for every request that holds it or a node below it.
LockInv ==
    /\ ReqOK
    /\ TreeOK(tree) /\ SizesOK(tree)
    /\ Pins(tree, Held, LastOf)
    /\ LockedBy(tree, Held, LastOf)

HeldStates == Status \ {"idle", "waiting", "retracted", "lost"}

\* The requests that hold a lock, as a set of requests.
LEMMA HeldFacts ==
    Held = {q \in Request : req[q].st \in HeldStates} /\ IsFiniteSet(Held)
<1>1. Held = {q \in Request : req[q].st \in HeldStates}
  BY DEF Held, In, HeldStates, Status
<1>2. IsFiniteSet(Request)
  BY CacheAssumption
<1> QED
  BY <1>1, <1>2, FS_Subset

\* Only what the requests in flight hold matters.
LEMMA SameHolders ==
    ASSUME NEW T, NEW H, NEW a, NEW b, \A q \in H : a[q] = b[q],
           Pins(T, H, a), LockedBy(T, H, a)
    PROVE  Pins(T, H, b) /\ LockedBy(T, H, b)
<1>1. Pins(T, H, b)
  BY DEF Pins
<1>2. ASSUME NEW x \in DOMAIN T.nd
      PROVE  T.nd[x].lock = Cardinality({q \in H : Above(x, b[q])})
  <2>1. {q \in H : Above(x, b[q])} = {q \in H : Above(x, a[q])}
    OBVIOUS
  <2>2. T.nd[x].lock = Cardinality({q \in H : Above(x, a[q])})
    BY DEF LockedBy
  <2> QED
    BY <2>1, <2>2, Zenon
<1> QED
  BY <1>1, <1>2 DEF LockedBy

\* A step after which the same requests hold the same nodes.
LEMMA HoldersKept ==
    ASSUME LockInv, ReqOK',
           \A q \in Request : /\ req'[q].st \in HeldStates <=> req[q].st \in HeldStates
                              /\ req[q].st \in HeldStates => req'[q].last = req[q].last,
           TreeOK(tree'), SizesOK(tree'),
           Pins(tree', Held, LastOf), LockedBy(tree', Held, LastOf)
    PROVE  LockInv'
<1>1. Held' = {q \in Request : req'[q].st \in HeldStates}
  BY DEF Held, In, HeldStates, Status
<1>2. Held' = Held
  BY <1>1, HeldFacts
<1>3. \A q \in Held : LastOf'[q] = LastOf[q]
  BY HeldFacts DEF LastOf
<1>4. Pins(tree', Held, LastOf') /\ LockedBy(tree', Held, LastOf')
  BY <1>3, SameHolders
<1> QED
  BY <1>2, <1>4 DEF LockInv

\* A new request is well formed.
LEMMA NewReqIs ==
    ASSUME NEW q \in Request
    PROVE  ReqIs(NewReq(q)) /\ NewReq(q).st = "idle" /\ NewReq(q).ids = Meta[q].prompt
<1>1. Meta[q].prompt \in Seq(Nat)
  BY CacheAssumption
<1>2. Len(Meta[q].prompt) \in Nat
  BY <1>1
<1> QED
  BY <1>1, <1>2 DEF NewReq, ReqIs, ReqShape, Status, Filling

\* A request that only changes its status, or its row.
LEMMA MovedReqIs ==
    ASSUME NEW r, ReqIs(r), NEW s \in Status, s \in Filling => r.st \in Filling
    PROVE  /\ ReqIs([r EXCEPT !.st = s])
           /\ [r EXCEPT !.st = s] = [st |-> s, ids |-> r.ids, fill |-> r.fill, row |-> r.row,
                                     plen |-> r.plen, last |-> r.last]
<1>1. r = [st |-> r.st, ids |-> r.ids, fill |-> r.fill, row |-> r.row, plen |-> r.plen,
           last |-> r.last]
  BY DEF ReqIs, ReqShape
<1>2. [r EXCEPT !.st = s] = [st |-> s, ids |-> r.ids, fill |-> r.fill, row |-> r.row,
                             plen |-> r.plen, last |-> r.last]
  BY <1>1
<1> QED
  BY <1>2 DEF ReqIs, ReqShape

\* Assigning a row and a state keeps a request well formed.
LEMMA RowReqIs ==
    ASSUME NEW r, ReqIs(r), NEW s \in Status, s \in Filling => r.st \in Filling, NEW w
    PROVE  /\ ReqIs([r EXCEPT !.row = w, !.st = s])
           /\ [r EXCEPT !.row = w, !.st = s]
                = [st |-> s, ids |-> r.ids, fill |-> r.fill, row |-> w,
                   plen |-> r.plen, last |-> r.last]
<1> DEFINE R == [r EXCEPT !.row = w, !.st = s]
<1>1. r = [st |-> r.st, ids |-> r.ids, fill |-> r.fill, row |-> r.row, plen |-> r.plen,
           last |-> r.last]
  BY DEF ReqIs, ReqShape
<1>2. R = [r EXCEPT !.row = w, !.st = s]
  OBVIOUS
<1> HIDE DEF R
<1>3. R = [st |-> s, ids |-> r.ids, fill |-> r.fill, row |-> w, plen |-> r.plen, last |-> r.last]
  BY <1>1, <1>2
<1>4. ReqIs(R)
  BY <1>3 DEF ReqIs, ReqShape
<1> QED
  BY <1>3, <1>4 DEF R

\* One request changes, and req stays a function to requests.
LEMMA UpdateReq ==
    ASSUME ReqOK, NEW q \in Request, NEW r, ReqIs(r), req' = [req EXCEPT ![q] = r],
           UNCHANGED chunked_prefill_size
    PROVE  /\ ReqOK' /\ req'[q] = r
           /\ \A p \in Request : p # q => req'[p] = req[p]
<1>1. DOMAIN req = Request
  BY DEF ReqOK
<1>2. req'[q] = r /\ (\A p \in Request : p # q => req'[p] = req[p])
      /\ req' = [p \in Request |-> req'[p]]
  BY <1>1
<1> QED
  BY <1>2 DEF ReqOK

\* The cache value made of the state variables.
LEMMA CacheIs == CacheShape(Cache) /\ Cache.tree = tree /\ Cache.installed = installed
BY DEF Cache, CacheShape

\* The prompt without its last token.
LEMMA FrontFacts ==
    ASSUME NEW s \in Seq(Nat)
    PROVE  Front(s) \in Seq(Nat) /\ Len(Front(s)) <= Len(s)
           /\ (s # <<>> => Len(Front(s)) = Len(s) - 1 /\ \A n \in 0..Len(s) - 1 : Take(Front(s), n) = Take(s, n))
<1>1. CASE s = <<>>
  BY <1>1 DEF Front
<1>2. CASE s # <<>>
  <2>1. Len(s) \in Nat /\ Len(s) > 0
    BY <1>2
  <2>2. Front(s) = Take(s, Len(s) - 1) /\ Len(s) - 1 \in 0..Len(s)
    BY <2>1 DEF Front, Take
  <2>3. Front(s) \in Seq(Nat) /\ Len(Front(s)) = Len(s) - 1
    BY <2>2, TakeType
  <2>4. \A n \in 0..Len(s) - 1 : Take(Front(s), n) = Take(s, n)
    BY <2>1, <2>2, TakeTake
  <2> QED
    BY <2>1, <2>3, <2>4
<1> QED
  BY <1>1, <1>2

\* The records that admission and promotion make.
LEMMA SetReq ==
    ASSUME NEW r, ReqShape(r), NEW s, NEW f, NEW w
    PROVE  [r EXCEPT !.st = s, !.fill = f, !.row = w]
             = [st |-> s, ids |-> r.ids, fill |-> f, row |-> w, plen |-> r.plen, last |-> r.last]
<1> DEFINE R == [r EXCEPT !.st = s, !.fill = f, !.row = w]
<1>1. r = [st |-> r.st, ids |-> r.ids, fill |-> r.fill, row |-> r.row, plen |-> r.plen,
           last |-> r.last]
  BY DEF ReqShape
<1>2. R = [r EXCEPT !.st = s, !.fill = f, !.row = w]
  OBVIOUS
<1> HIDE DEF R
<1>3. R = [st |-> s, ids |-> r.ids, fill |-> f, row |-> w, plen |-> r.plen, last |-> r.last]
  BY <1>1, <1>2
<1> QED
  BY <1>3 DEF R

\* Setting a node's visibility leaves its lock.
LEMMA SetVis ==
    ASSUME NEW n, n = [lock |-> n.lock, vis |-> n.vis], NEW v
    PROVE  [n EXCEPT !.vis = v] = [lock |-> n.lock, vis |-> v]
OBVIOUS

\* Arrivals and aborts of waiting requests keep the locks exact.
LEMMA ArriveLocks ==
    ASSUME LockInv, NEW q \in Request, Arrive(q) \/ AbortWaiting(q)
    PROVE  LockInv'
<1>0. ReqOK /\ TreeOK(tree) /\ SizesOK(tree) /\ Pins(tree, Held, LastOf)
      /\ LockedBy(tree, Held, LastOf) /\ ReqIs(req[q]) /\ DOMAIN req = Request
  BY DEF LockInv, ReqOK
<1> DEFINE r == IF Arrive(q) THEN [req[q] EXCEPT !.st = "waiting"] ELSE NewReq(q)
<1>1. req' = [req EXCEPT ![q] = r] /\ tree' = tree /\ UNCHANGED chunked_prefill_size
      /\ req[q].st \in {"idle", "lost", "waiting"}
  BY <1>0 DEF Arrive, AbortWaiting, policy
<1>2. ReqIs(r) /\ r.st \in {"idle", "waiting"}
  <2>1. "waiting" \in Status /\ "waiting" \notin Filling
    BY DEF Status, Filling
  <2> DEFINE w == [req[q] EXCEPT !.st = "waiting"]
  <2>a. /\ ReqIs(w)
        /\ w = [st |-> "waiting", ids |-> req[q].ids, fill |-> req[q].fill, row |-> req[q].row,
                plen |-> req[q].plen, last |-> req[q].last]
    BY <2>1, <1>0, MovedReqIs
  <2> HIDE DEF w
  <2>b. ReqIs(w) /\ w.st = "waiting"
    BY <2>a
  <2>2. ReqIs([req[q] EXCEPT !.st = "waiting"]) /\ [req[q] EXCEPT !.st = "waiting"].st = "waiting"
    BY <2>b DEF w
  <2> QED
    BY <2>2, NewReqIs
<1> HIDE DEF r
<1>3. ReqOK' /\ req'[q] = r /\ \A p \in Request : p # q => req'[p] = req[p]
  BY <1>0, <1>1, <1>2, UpdateReq
<1>4. \A p \in Request : /\ req'[p].st \in HeldStates <=> req[p].st \in HeldStates
                         /\ req[p].st \in HeldStates => req'[p].last = req[p].last
  BY <1>1, <1>2, <1>3 DEF HeldStates
<1> QED
  BY <1>0, <1>1, <1>3, <1>4, HoldersKept

\* add_chunked_req keeps the locks exact.
LEMMA AddChunkedLocks ==
    ASSUME LockInv, NEW q \in Request, AddChunkedReq(q)
    PROVE  LockInv'
<1>0. ReqOK /\ TreeOK(tree) /\ SizesOK(tree) /\ Pins(tree, Held, LastOf)
      /\ LockedBy(tree, Held, LastOf) /\ ReqIs(req[q]) /\ DOMAIN req = Request
      /\ chunked_prefill_size \in Nat
  BY CacheAssumption DEF LockInv, ReqOK
<1> DEFINE f == Min({Len(req[q].ids), req[q].plen + chunked_prefill_size})
           w == Take(req[q].row, req[q].plen)
           r == [req[q] EXCEPT !.st = "admitted", !.fill = f, !.row = w]
<1>1. /\ req' = [req EXCEPT ![q] = r] /\ tree' = tree /\ UNCHANGED chunked_prefill_size
      /\ req[q].st = "cached"
  BY <1>0 DEF AddChunkedReq, policy
<1>2. r = [st |-> "admitted", ids |-> req[q].ids, fill |-> f, row |-> w,
           plen |-> req[q].plen, last |-> req[q].last]
  <2>1. ReqShape(req[q])
    BY <1>0 DEF ReqIs
  <2> HIDE DEF f, w
  <2>2. [req[q] EXCEPT !.st = "admitted", !.fill = f, !.row = w]
          = [st |-> "admitted", ids |-> req[q].ids, fill |-> f, row |-> w,
             plen |-> req[q].plen, last |-> req[q].last]
    BY ONLY <2>1, SetReq, Zenon
  <2> QED
    BY <2>2
<1>3. f \in 0..Len(req[q].ids) /\ req[q].plen <= f
  <2>1. /\ Len(req[q].ids) \in Nat /\ req[q].plen \in Nat /\ req[q].plen <= Len(req[q].ids)
    BY <1>0, <1>1 DEF ReqIs, Filling
  <2>2. {Len(req[q].ids), req[q].plen + chunked_prefill_size} \subseteq Nat
    BY <2>1, <1>0
  <2>3. /\ f \in {Len(req[q].ids), req[q].plen + chunked_prefill_size}
        /\ f <= Len(req[q].ids)
    BY <2>2, MinFacts
  <2> HIDE DEF f
  <2> QED
    BY <2>1, <2>3, <1>0
<1> HIDE DEF r, f, w
<1>4. ReqIs(r)
  BY <1>0, <1>2, <1>3 DEF ReqIs, ReqShape, Status
<1>5. ReqOK' /\ req'[q] = r /\ \A p \in Request : p # q => req'[p] = req[p]
  BY <1>0, <1>1, <1>4, UpdateReq
<1>6. \A p \in Request : /\ req'[p].st \in HeldStates <=> req[p].st \in HeldStates
                         /\ req[p].st \in HeldStates => req'[p].last = req[p].last
  BY <1>1, <1>2, <1>5 DEF HeldStates, Status
<1> QED
  BY <1>0, <1>1, <1>5, <1>6, HoldersKept

\* Steps that change no more of the tree than what its nodes may be used for.
LEMMA PromoteLocks ==
    ASSUME LockInv,
           \/ \E x \in DOMAIN tree.nd : DetectorPromotes(x)
           \/ \E u \in User : PromoteToBudgeted(u)
    PROVE  LockInv'
<1>0. ReqOK /\ TreeOK(tree) /\ SizesOK(tree) /\ Pins(tree, Held, LastOf)
      /\ LockedBy(tree, Held, LastOf) /\ PlacesOK(tree) /\ NodesOK(tree) /\ TreeShape(tree)
  BY DEF LockInv, TreeOK
<1>1. \E f : /\ tree' = [tree EXCEPT !.nd = f] /\ DOMAIN f = DOMAIN tree.nd
             /\ \A y \in DOMAIN tree.nd : /\ f[y] = [lock |-> f[y].lock, vis |-> f[y].vis]
                                          /\ f[y].lock = tree.nd[y].lock
  <2>n. \A y \in DOMAIN tree.nd : tree.nd[y] = [lock |-> tree.nd[y].lock, vis |-> tree.nd[y].vis]
    BY <1>0 DEF NodesOK
  <2>1. CASE \E x \in DOMAIN tree.nd : DetectorPromotes(x)
    <3>1. PICK x \in DOMAIN tree.nd : DetectorPromotes(x)
      BY <2>1
    <3> DEFINE f == [tree.nd EXCEPT ![x].vis = "budgeted_shared"]
    <3>2. tree' = [tree EXCEPT !.nd = f]
      <4>1. tree' = [tree EXCEPT !.nd[x].vis = "budgeted_shared"]
        BY <3>1 DEF DetectorPromotes
      <4>2. tree = [pos |-> tree.pos, nd |-> tree.nd, evictable |-> tree.evictable,
                    protected |-> tree.protected]
        BY <1>0 DEF TreeShape
      <4> QED
        BY <4>1, <4>2
    <3>3. DOMAIN f = DOMAIN tree.nd
      OBVIOUS
    <3>4. ASSUME NEW y \in DOMAIN tree.nd
          PROVE  f[y] = [lock |-> f[y].lock, vis |-> f[y].vis] /\ f[y].lock = tree.nd[y].lock
      <4>1. CASE y = x
        <5>1. f[y] = [tree.nd[y] EXCEPT !.vis = "budgeted_shared"]
          BY <4>1
        <5>2. f[y] = [lock |-> tree.nd[y].lock, vis |-> "budgeted_shared"]
          BY <5>1, <2>n, SetVis
        <5> QED
          BY <5>2
      <4>2. CASE y # x
        BY <4>2, <2>n
      <4> QED
        BY <4>1, <4>2
    <3> HIDE DEF f
    <3> QED
      BY <3>2, <3>3, <3>4
  <2>2. CASE \E u \in User : PromoteToBudgeted(u)
    <3>1. PICK u \in User : PromoteToBudgeted(u)
      BY <2>2
    <3> DEFINE v(y) == IF ChargedHits(Cache, Edge(tree, y)) >= B
                       THEN "exhausted_private" ELSE "budgeted_shared"
               f == [y \in DOMAIN tree.nd |->
                       IF y[1] # u \/ tree.nd[y].vis # "private" THEN tree.nd[y]
                       ELSE [tree.nd[y] EXCEPT !.vis = v(y)]]
    <3>2. tree' = [tree EXCEPT !.nd = f]
      BY <3>1 DEF PromoteToBudgeted
    <3>3. DOMAIN f = DOMAIN tree.nd
      OBVIOUS
    <3> HIDE DEF v
    <3>4. ASSUME NEW y \in DOMAIN tree.nd
          PROVE  f[y] = [lock |-> f[y].lock, vis |-> f[y].vis] /\ f[y].lock = tree.nd[y].lock
      <4>1. CASE f[y] = tree.nd[y]
        BY <4>1, <2>n
      <4>2. CASE f[y] = [tree.nd[y] EXCEPT !.vis = v(y)]
        <5>2. f[y] = [lock |-> tree.nd[y].lock, vis |-> v(y)]
          BY <4>2, <2>n, SetVis
        <5> HIDE DEF f
        <5> QED
          BY <5>2
      <4> QED
        BY <4>1, <4>2
    <3> HIDE DEF f
    <3> QED
      BY <3>2, <3>3, <3>4
  <2> QED
    BY <2>1, <2>2
<1>2. PICK f : /\ tree' = [tree EXCEPT !.nd = f] /\ DOMAIN f = DOMAIN tree.nd
               /\ \A y \in DOMAIN tree.nd : /\ f[y] = [lock |-> f[y].lock, vis |-> f[y].vis]
                                            /\ f[y].lock = tree.nd[y].lock
  BY <1>1
<1>3. /\ tree'.pos = tree.pos /\ tree'.nd = f /\ tree'.evictable = tree.evictable
      /\ tree'.protected = tree.protected /\ TreeShape(tree')
  <2>1. tree = [pos |-> tree.pos, nd |-> tree.nd, evictable |-> tree.evictable,
                protected |-> tree.protected]
    BY <1>0 DEF TreeShape
  <2> QED
    BY <1>2, <2>1 DEF TreeShape
<1>4. NodesOK(tree') /\ PlacesOK(tree')
  <2>1. NodesOK(tree')
    BY <1>0, <1>2, <1>3 DEF NodesOK
  <2>2. PlacesOK(tree')
    BY <1>0, <1>2, <1>3, SamePlaces
  <2> QED
    BY <2>1, <2>2
<1>5. Grown(tree, tree')
  BY <1>0, <1>2, <1>3, <1>4, SameGrown DEF TreeOK
<1>6. TreeOK(tree') /\ SizesOK(tree') /\ Pins(tree', Held, LastOf) /\ LockedBy(tree', Held, LastOf)
  BY <1>0, <1>5, GrownLocks DEF Grown
<1>7. UNCHANGED <<req, chunked_prefill_size>>
  BY DEF DetectorPromotes, PromoteToBudgeted, policy
<1>8. ReqOK'
  BY <1>0, <1>7 DEF ReqOK
<1> QED
  BY <1>6, <1>7, <1>8, HoldersKept

\* What SetCache assigns.
LEMMA SetCacheTree ==
    ASSUME NEW C, CacheShape(C), NEW T, SetCache([C EXCEPT !.tree = T])
    PROVE  tree' = T /\ ledger' = C.ledger /\ installed' = C.installed
<1> DEFINE D == [C EXCEPT !.tree = T]
<1>1. C = [tree |-> C.tree, ledger |-> C.ledger, installed |-> C.installed]
  BY DEF CacheShape
<1>2. D = [C EXCEPT !.tree = T]
  OBVIOUS
<1>3. tree' = D.tree /\ ledger' = D.ledger /\ installed' = D.installed
  BY DEF SetCache
<1> HIDE DEF D
<1> QED
  BY <1>1, <1>2, <1>3

\* What the new batch has to compute is a number.
LEMMA InputType ==
    ASSUME ReqOK
    PROVE  InputTokens \in Nat /\ RemChunkTokens \in Int /\ RemChunkTokens <= chunked_prefill_size
           /\ IsFiniteSet(In({"admitted"}))
<1> DEFINE A == In({"admitted"})
           f == [q \in A |-> ExtendLen(q)]
<1>1. IsFiniteSet(A)
  BY CacheAssumption, FS_Subset DEF In
<1>2. \A q \in A : ExtendLen(q) \in Int
  <2> SUFFICES ASSUME NEW q \in A PROVE ExtendLen(q) \in Int
    OBVIOUS
  <2>1. req[q].ids \in Seq(Nat) /\ req[q].fill \in 0..Len(req[q].ids) /\ req[q].plen \in Nat
    BY DEF ReqOK, ReqIs, In
  <2> QED
    BY <2>1 DEF ExtendLen
<1>3. DOMAIN f = A /\ \A q \in A : f[q] \in Int
  BY <1>2
<1> HIDE DEF f, A
<1>4. Total(f) \in Nat
  BY <1>1, <1>3, PairsFinite
<1>5. InputTokens \in Nat
  BY <1>4 DEF InputTokens, f, A
<1>6. chunked_prefill_size \in Nat
  BY CacheAssumption DEF ReqOK
<1> QED
  BY <1>1, <1>5, <1>6 DEF RemChunkTokens, A

\* The state after a lookup for q, and what it found.
LEMMA LookupLocks ==
    ASSUME LockInv, NEW q \in Request, NEW key \in Seq(Nat)
    PROVE  LET m == MatchPrefix(Cache, Meta[q].user, key, Meta[q].auth)
           IN  /\ MatchOf(Cache, key, m) /\ TreeOK(m.C.tree) /\ SizesOK(m.C.tree)
               /\ Pins(m.C.tree, Held, LastOf) /\ LockedBy(m.C.tree, Held, LastOf)
               /\ m.last = NoNode \/ m.last \in DOMAIN m.C.tree.nd
<1> DEFINE m == MatchPrefix(Cache, Meta[q].user, key, Meta[q].auth)
<1>1. Meta[q].user \in User \cup {NoUser}
  BY CacheAssumption
<1>2. MatchOf(Cache, key, m)
  BY <1>1, CacheIs, MatchPrefixFacts DEF LockInv
<1> HIDE DEF m
<1>3. Grown(tree, m.C.tree)
  BY <1>2, CacheIs DEF MatchOf
<1>4. /\ TreeOK(m.C.tree) /\ SizesOK(m.C.tree)
      /\ Pins(m.C.tree, Held, LastOf) /\ LockedBy(m.C.tree, Held, LastOf)
  BY <1>3, GrownLocks DEF LockInv, Grown
<1>5. m.last = NoNode \/ m.last \in DOMAIN m.C.tree.nd
  BY <1>2 DEF MatchOf
<1> QED
  BY <1>2, <1>4, <1>5 DEF m

\* Admitting a matched request locks its last node once.
LEMMA AddMatchedLocks ==
    ASSUME LockInv, NEW q \in Request, req[q].st = "waiting",
           NEW m, m = MatchPrefix(Cache, Meta[q].user, Front(req[q].ids), Meta[q].auth),
           NEW locked, locked = IncLockRef(m.C.tree, m.last), NEW total,
           AddMatched(q, m, locked, total), UNCHANGED chunked_prefill_size
    PROVE  LockInv'
<1>0. ReqOK /\ TreeOK(tree) /\ SizesOK(tree) /\ Pins(tree, Held, LastOf)
      /\ LockedBy(tree, Held, LastOf) /\ ReqIs(req[q]) /\ DOMAIN req = Request
      /\ req[q].ids \in Seq(Nat) /\ Len(req[q].ids) \in Nat
  BY DEF LockInv, ReqOK, ReqIs
<1>k. Front(req[q].ids) \in Seq(Nat) /\ Len(Front(req[q].ids)) <= Len(req[q].ids)
  BY ONLY <1>0, FrontFacts
<1>1. /\ MatchOf(Cache, Front(req[q].ids), m) /\ TreeOK(m.C.tree) /\ SizesOK(m.C.tree)
      /\ Pins(m.C.tree, Held, LastOf) /\ LockedBy(m.C.tree, Held, LastOf)
      /\ m.last = NoNode \/ m.last \in DOMAIN m.C.tree.nd
  BY ONLY <1>k, LookupLocks, LockInv, q \in Request,
     m = MatchPrefix(Cache, Meta[q].user, Front(req[q].ids), Meta[q].auth)
<1>s. CacheShape(m.C) /\ m.len \in 0..Len(Front(req[q].ids))
  BY ONLY <1>1, Zenon DEF MatchOf
<1>2. CASE SetCache(m.C) /\ UNCHANGED req
  <2>1. tree' = m.C.tree /\ req' = req
    BY <1>2 DEF SetCache
  <2>2. ReqOK'
    BY ONLY <2>1, <1>0, UNCHANGED chunked_prefill_size DEF ReqOK
  <2> QED
    BY <2>1, <2>2, <1>1, HoldersKept
<1>3. CASE ~(SetCache(m.C) /\ UNCHANGED req)
  <2> DEFINE f == Min({Len(req[q].ids), m.len + RemChunkTokens})
             w == MatchedSlots(m)
             r == [req[q] EXCEPT !.st = "admitted", !.fill = f, !.row = w, !.plen = m.len,
                                 !.last = m.last]
  <2>1. req' = [req EXCEPT ![q] = r] /\ SetCache([m.C EXCEPT !.tree = locked])
    BY ONLY <1>3, <1>0, AddMatched(q, m, locked, total) DEF AddMatched
  <2>c. RemChunkTokens > 0
    BY ONLY <1>3, AddMatched(q, m, locked, total) DEF AddMatched
  <2>2. tree' = locked
    BY <2>1, <1>s, SetCacheTree
  <2>3. r = [st |-> "admitted", ids |-> req[q].ids, fill |-> f, row |-> w,
             plen |-> m.len, last |-> m.last]
    <3>1. ReqShape(req[q])
      BY <1>0 DEF ReqIs
    <3>2. req[q] = [st |-> req[q].st, ids |-> req[q].ids, fill |-> req[q].fill,
                    row |-> req[q].row, plen |-> req[q].plen, last |-> req[q].last]
      BY <3>1 DEF ReqShape
    <3>3. r = [req[q] EXCEPT !.st = "admitted", !.fill = f, !.row = w, !.plen = m.len,
                             !.last = m.last]
      OBVIOUS
    <3> HIDE DEF f, w, r
    <3> QED
      BY ONLY <3>2, <3>3
  <2>4. f \in 0..Len(req[q].ids) /\ m.len <= f /\ m.len \in Nat
    <3>1. RemChunkTokens \in Int /\ m.len \in Nat /\ m.len <= Len(req[q].ids)
      BY <1>0, <1>k, <1>s, InputType
    <3>2. {Len(req[q].ids), m.len + RemChunkTokens} \subseteq Nat
      BY <3>1, <1>0, <2>c
    <3>3. f \in {Len(req[q].ids), m.len + RemChunkTokens} /\ f <= Len(req[q].ids)
      BY <3>2, MinFacts
    <3> HIDE DEF f
    <3> QED
      BY <3>1, <3>3, <1>0, <2>c
  <2> HIDE DEF r, f, w
  <2>5. ReqIs(r)
    BY <1>0, <2>3, <2>4 DEF ReqIs, ReqShape, Status
  <2>6. ReqOK' /\ req'[q] = r /\ \A p \in Request : p # q => req'[p] = req[p]
    BY <1>0, <2>1, <2>5, UpdateReq
  <2>7. q \notin Held /\ Held' = Held \cup {q} /\ IsFiniteSet(Held)
    <3>1. Held' = {p \in Request : req'[p].st \in HeldStates}
      BY DEF Held, In, HeldStates, Status
    <3>2. "admitted" \in HeldStates /\ "waiting" \notin HeldStates
      BY DEF HeldStates, Status
    <3>3. req'[q].st = "admitted"
      BY <2>3, <2>6
    <3> QED
      BY <3>1, <3>2, <3>3, <2>6, HeldFacts
  <2>8. /\ \A p \in Held : LastOf'[p] = LastOf[p]
        /\ LastOf'[q] = m.last
    <3>1. Held \subseteq Request
      BY ONLY HeldFacts
    <3> QED
      BY <3>1, <2>3, <2>6, <2>7 DEF LastOf
  <2>9. /\ Pins(locked, Held \cup {q}, LastOf') /\ LockedBy(locked, Held \cup {q}, LastOf')
    <3>1. LastOf'[q][2] = <<>> \/ LastOf'[q] \in DOMAIN m.C.tree.nd
      <4>1. NoNode[2] = <<>>
        BY DEF NoNode
      <4> QED
        BY ONLY <2>8, <1>1, <4>1
    <3> QED
      BY ONLY <2>7, <2>8, <1>1, <3>1, IncLocks, locked = IncLockRef(m.C.tree, m.last)
  <2>10. TreeOK(locked) /\ SizesOK(locked)
    BY <1>1, IncLockSizes
  <2> QED
    BY ONLY <2>2, <2>6, <2>7, <2>9, <2>10 DEF LockInv
<1> QED
  BY <1>2, <1>3

\* add_one_req keeps the locks exact, whether it admits or gives the lock back.
LEMMA AddOneLocks ==
    ASSUME LockInv, NEW q \in Request, AddOneReq(q)
    PROVE  LockInv'
<1>1. req[q].st = "waiting" /\ UNCHANGED chunked_prefill_size
  BY DEF AddOneReq
<1>2. \E m, locked, total :
         /\ m = MatchPrefix(Cache, Meta[q].user, Front(req[q].ids), Meta[q].auth)
         /\ locked = IncLockRef(m.C.tree, m.last)
         /\ AddMatched(q, m, locked, total)
  BY DEF AddOneReq
<1>3. PICK m, locked, total :
         /\ m = MatchPrefix(Cache, Meta[q].user, Front(req[q].ids), Meta[q].auth)
         /\ locked = IncLockRef(m.C.tree, m.last)
         /\ AddMatched(q, m, locked, total)
  BY <1>2
<1> QED
  BY <1>1, <1>3, AddMatchedLocks

\* The tree after q has let go of its node.
LEMMA Released ==
    ASSUME NEW q \in Held, NEW G, TreeOK(G), SizesOK(G), Pins(G, Held, LastOf),
           LockedBy(G, Held, LastOf)
    PROVE  LET R == DecLockRef(G, req[q].last)
           IN  /\ TreeOK(R) /\ SizesOK(R) /\ DOMAIN R.nd = DOMAIN G.nd
               /\ Pins(R, Held \ {q}, LastOf) /\ LockedBy(R, Held \ {q}, LastOf)
<1>1. LastOf[q] = req[q].last /\ IsFiniteSet(Held)
  BY HeldFacts DEF LastOf
<1> DEFINE R == DecLockRef(G, LastOf[q])
<1>2. R = DecLockRef(G, LastOf[q])
  OBVIOUS
<1> HIDE DEF R
<1>3. LetGo(G, Held, LastOf, q, R)
  BY ONLY <1>1, <1>2, q \in Held, TreeOK(G), Pins(G, Held, LastOf), LockedBy(G, Held, LastOf),
          DecLocks
<1>4. SizesOK(R)
  BY <1>2, <1>3, DecLockSizes DEF LetGo
<1>5. /\ TreeOK(R) /\ SizesOK(R) /\ DOMAIN R.nd = DOMAIN G.nd
      /\ Pins(R, Held \ {q}, LastOf) /\ LockedBy(R, Held \ {q}, LastOf)
  BY ONLY <1>3, <1>4 DEF LetGo
<1> QED
  BY <1>1, <1>5 DEF R

\* The state after q's tokens have been inserted.
LEMMA InsertLocks ==
    ASSUME LockInv, NEW q \in Request, NEW key \in Seq(Nat)
    PROVE  LET i == Insert(Cache, q, key, req[q].row)
           IN  /\ CacheShape(i.C) /\ TreeOK(i.C.tree) /\ SizesOK(i.C.tree)
               /\ Pins(i.C.tree, Held, LastOf) /\ LockedBy(i.C.tree, Held, LastOf)
<1> DEFINE i == Insert(Cache, q, key, req[q].row)
<1>1. CacheShape(i.C) /\ Grown(tree, i.C.tree)
  BY CacheIs, InsertCacheFacts DEF LockInv
<1> HIDE DEF i
<1>2. /\ TreeOK(i.C.tree) /\ SizesOK(i.C.tree)
      /\ Pins(i.C.tree, Held, LastOf) /\ LockedBy(i.C.tree, Held, LastOf)
  BY <1>1, GrownLocks DEF LockInv, Grown
<1> QED
  BY <1>1, <1>2 DEF i

\* cache_finished_req gives back the one lock of the request.
LEMMA FinishLocks ==
    ASSUME LockInv, NEW q \in Held, CacheFinishedReq(q)
    PROVE  LockInv'
<1>q. q \in Request
  BY HeldFacts
<1>0. ReqOK /\ ReqIs(req[q]) /\ req[q].ids \in Seq(Nat)
  BY <1>q DEF LockInv, ReqOK, ReqIs
<1> DEFINE i == Insert(Cache, q, req[q].ids, req[q].row)
           R == DecLockRef(i.C.tree, req[q].last)
<1>1. /\ SetCache([i.C EXCEPT !.tree = R]) /\ req' = [req EXCEPT ![q] = NewReq(q)]
      /\ UNCHANGED chunked_prefill_size
  BY DEF CacheFinishedReq
<1>2. /\ CacheShape(i.C) /\ TreeOK(i.C.tree) /\ SizesOK(i.C.tree)
      /\ Pins(i.C.tree, Held, LastOf) /\ LockedBy(i.C.tree, Held, LastOf)
  BY <1>0, <1>q, InsertLocks
<1> HIDE DEF i
<1>3. /\ TreeOK(R) /\ SizesOK(R)
      /\ Pins(R, Held \ {q}, LastOf) /\ LockedBy(R, Held \ {q}, LastOf)
  BY <1>2, Released
<1> HIDE DEF R
<1>4. tree' = R
  BY <1>1, <1>2, SetCacheTree
<1>5. /\ ReqOK' /\ req'[q] = NewReq(q)
      /\ \A p \in Request : p # q => req'[p] = req[p]
  BY <1>q, <1>0, <1>1, NewReqIs, UpdateReq
<1>6. Held' = Held \ {q}
  <2>1. Held' = {p \in Request : req'[p].st \in HeldStates}
    BY DEF Held, In, HeldStates, Status
  <2>2. req'[q].st \notin HeldStates
    BY <1>q, <1>5, NewReqIs DEF HeldStates
  <2> QED
    BY <2>1, <2>2, <1>5, HeldFacts
<1>7. \A p \in Held \ {q} : LastOf[p] = LastOf'[p]
  BY <1>5, HeldFacts DEF LastOf
<1>8. Pins(R, Held', LastOf') /\ LockedBy(R, Held', LastOf')
  <2>1. Pins(R, Held \ {q}, LastOf') /\ LockedBy(R, Held \ {q}, LastOf')
    BY <1>3, <1>7, SameHolders
  <2> QED
    BY <2>1, <1>6
<1> QED
  BY <1>3, <1>4, <1>5, <1>8 DEF LockInv

\* What cache_unfinished_req may be given as the request apart from its row,
\* prefix and node.
AfterOK(q, after) ==
    /\ ReqShape(after) /\ after.st \in HeldStates /\ after.ids \in Seq(Nat)
    /\ after.fill \in 0..Len(after.ids)
    /\ after.st \in Filling => after.fill = req[q].fill

\* The filled part of a request's tokens.
LEMMA FillFacts ==
    ASSUME ReqOK, NEW q \in Request
    PROVE  FillIds(q) \in Seq(Nat) /\ Len(FillIds(q)) = req[q].fill /\ req[q].fill \in Nat
<1>1. req[q].ids \in Seq(Nat) /\ req[q].fill \in 0..Len(req[q].ids)
  BY DEF ReqOK, ReqIs
<1> QED
  BY <1>1, TakeType DEF FillIds

\* cache_unfinished_req moves the lock from the old last node to the new one.
LEMMA InsertedLocks ==
    ASSUME LockInv, NEW q \in Held, NEW after, AfterOK(q, after), NEW i, NEW m,
           i = Insert(Cache, q, FillIds(q), req[q].row),
           m = MatchPrefix(i.C, Meta[q].user, FillIds(q), Meta[q].auth),
           CacheInserted(q, after, i, m), UNCHANGED chunked_prefill_size
    PROVE  LockInv'
<1>q. q \in Request /\ IsFiniteSet(Held) /\ Held \subseteq Request
  BY HeldFacts
<1>0. ReqOK /\ FillIds(q) \in Seq(Nat) /\ Len(FillIds(q)) = req[q].fill
      /\ Meta[q].user \in User \cup {NoUser} /\ req[q].fill \in Nat
  BY <1>q, FillFacts, CacheAssumption DEF LockInv
<1>1. /\ CacheShape(i.C) /\ TreeOK(i.C.tree) /\ SizesOK(i.C.tree)
      /\ Pins(i.C.tree, Held, LastOf) /\ LockedBy(i.C.tree, Held, LastOf)
  BY <1>0, <1>q, InsertLocks
<1>2. MatchOf(i.C, FillIds(q), m)
  <2> DEFINE C == i.C
             k == FillIds(q)
             u == Meta[q].user
             a == Meta[q].auth
  <2>1. m = MatchPrefix(C, u, k, a)
    OBVIOUS
  <2>2. CacheShape(C) /\ TreeOK(C.tree) /\ k \in Seq(Nat) /\ u \in User \cup {NoUser}
    BY <1>0, <1>1
  <2> HIDE DEF C, k, u, a
  <2>3. MatchOf(C, k, MatchPrefix(C, u, k, a))
    BY ONLY <2>2, MatchPrefixFacts
  <2>4. MatchOf(C, k, m)
    BY ONLY <2>1, <2>3
  <2> QED
    BY ONLY <2>4 DEF C, k
<1>3. /\ CacheShape(m.C) /\ Grown(i.C.tree, m.C.tree) /\ m.len \in 0..req[q].fill
      /\ (m.last = NoNode \/ m.last \in DOMAIN m.C.tree.nd)
  BY ONLY <1>0, <1>2 DEF MatchOf
<1>4. /\ TreeOK(m.C.tree) /\ SizesOK(m.C.tree)
      /\ Pins(m.C.tree, Held, LastOf) /\ LockedBy(m.C.tree, Held, LastOf)
  BY ONLY <1>1, <1>3, GrownLocks, HeldFacts DEF Grown
<1> DEFINE R == DecLockRef(m.C.tree, req[q].last)
           w == [n \in DOMAIN req[q].row |->
                    IF n \in req[q].plen + 1 .. m.len THEN MatchedSlots(m)[n]
                    ELSE req[q].row[n]]
           r == [after EXCEPT !.row = w, !.plen = m.len, !.last = m.last]
<1>5. /\ SetCache([m.C EXCEPT !.tree = IncLockRef(R, m.last)])
      /\ req' = [req EXCEPT ![q] = r]
  BY ONLY CacheInserted(q, after, i, m) DEF CacheInserted
<1>6. /\ TreeOK(R) /\ SizesOK(R) /\ DOMAIN R.nd = DOMAIN m.C.tree.nd
      /\ Pins(R, Held \ {q}, LastOf) /\ LockedBy(R, Held \ {q}, LastOf)
  BY ONLY <1>4, Released, q \in Held
<1> HIDE DEF R, w
<1>7. m.len \in Nat /\ m.len <= req[q].fill
  BY <1>0, <1>3
<1>8. ReqIs(r) /\ r.st \in HeldStates /\ r.last = m.last
  <2>0. r = [after EXCEPT !.row = w, !.plen = m.len, !.last = m.last]
    OBVIOUS
  <2>1. after = [st |-> after.st, ids |-> after.ids, fill |-> after.fill, row |-> after.row,
                 plen |-> after.plen, last |-> after.last]
    BY DEF AfterOK, ReqShape
  <2> HIDE DEF r
  <2>2. r = [st |-> after.st, ids |-> after.ids, fill |-> after.fill, row |-> w,
             plen |-> m.len, last |-> m.last]
    BY ONLY <2>0, <2>1
  <2>3. ReqShape(r) /\ r.st = after.st /\ r.last = m.last /\ r.plen = m.len
        /\ r.ids = after.ids /\ r.fill = after.fill
    BY <2>2 DEF ReqShape
  <2>4. r.st \in HeldStates
    BY <2>3 DEF AfterOK
  <2>5. ReqIs(r)
    BY ONLY <1>7, <2>3, <2>4, AfterOK(q, after), SMTT(20) DEF ReqIs, AfterOK, HeldStates
  <2> QED
    BY <2>3, <2>4, <2>5
<1> HIDE DEF r
<1>9. tree' = IncLockRef(R, m.last)
  BY ONLY <1>3, <1>5, SetCacheTree, Zenon
<1>10. ReqOK' /\ req'[q] = r /\ \A p \in Request : p # q => req'[p] = req[p]
  BY <1>q, <1>0, <1>5, <1>8, UpdateReq
<1>11. Held' = (Held \ {q}) \cup {q}
  <2>1. Held' = {p \in Request : req'[p].st \in HeldStates}
    BY DEF Held, In, HeldStates, Status
  <2> QED
    BY <2>1, <1>q, <1>8, <1>10, HeldFacts
<1>12. /\ \A p \in Held \ {q} : LastOf'[p] = LastOf[p]
       /\ LastOf'[q] = m.last
  BY <1>q, <1>8, <1>10 DEF LastOf
<1>13. IsFiniteSet(Held \ {q}) /\ q \notin Held \ {q}
  BY ONLY <1>q, FS_Subset
<1>14. LastOf'[q][2] = <<>> \/ LastOf'[q] \in DOMAIN R.nd
  <2>1. NoNode[2] = <<>>
    BY DEF NoNode
  <2> QED
    BY ONLY <1>3, <1>6, <1>12, <2>1
<1>15. /\ Pins(IncLockRef(R, LastOf'[q]), (Held \ {q}) \cup {q}, LastOf')
       /\ LockedBy(IncLockRef(R, LastOf'[q]), (Held \ {q}) \cup {q}, LastOf')
  BY <1>6, <1>12, <1>13, <1>14, IncLocks
<1>16. TreeOK(tree') /\ SizesOK(tree')
  BY <1>6, <1>9, IncLockSizes
<1> QED
  BY <1>9, <1>10, <1>11, <1>12, <1>15, <1>16 DEF LockInv

\* cache_unfinished_req keeps the locks exact, cached or not.
LEMMA UnfinishedLocks ==
    ASSUME LockInv, NEW q \in Held, NEW after, AfterOK(q, after), CacheUnfinishedReq(q, after)
    PROVE  LockInv'
<1>1. UNCHANGED chunked_prefill_size
  BY DEF CacheUnfinishedReq
<1>2. \E i, m : /\ i = Insert(Cache, q, FillIds(q), req[q].row)
                /\ m = MatchPrefix(i.C, Meta[q].user, FillIds(q), Meta[q].auth)
                /\ CacheInserted(q, after, i, m)
  BY DEF CacheUnfinishedReq
<1> QED
  BY <1>1, <1>2, InsertedLocks

\* The requests as cache_unfinished_req is called for them.
LEMMA PrefilledAfter ==
    ASSUME ReqOK, NEW q \in Request, NEW t \in Nat
    PROVE  AfterOK(q, [req[q] EXCEPT !.st = "prefilled", !.fill = 0,
                                     !.ids = Append(req[q].ids, t)])
<1> DEFINE r == [req[q] EXCEPT !.st = "prefilled", !.fill = 0, !.ids = Append(req[q].ids, t)]
<1>1. req[q] = [st |-> req[q].st, ids |-> req[q].ids, fill |-> req[q].fill,
                row |-> req[q].row, plen |-> req[q].plen, last |-> req[q].last]
      /\ req[q].ids \in Seq(Nat)
  BY DEF ReqOK, ReqIs, ReqShape
<1>2. Append(req[q].ids, t) \in Seq(Nat) /\ Len(Append(req[q].ids, t)) \in Nat
  BY <1>1
<1>3. r = [req[q] EXCEPT !.st = "prefilled", !.fill = 0, !.ids = Append(req[q].ids, t)]
  OBVIOUS
<1> HIDE DEF r
<1>4. r = [st |-> "prefilled", ids |-> Append(req[q].ids, t), fill |-> 0,
           row |-> req[q].row, plen |-> req[q].plen, last |-> req[q].last]
  BY <1>1, <1>3
<1>5. AfterOK(q, r)
  BY <1>2, <1>4 DEF AfterOK, ReqShape, HeldStates, Status, Filling
<1> QED
  BY <1>5 DEF r

\* A request whose chunk was cached is well formed.
LEMMA CachedAfter ==
    ASSUME ReqOK, NEW q \in Request
    PROVE  AfterOK(q, [req[q] EXCEPT !.st = "cached"])
<1> DEFINE r == [req[q] EXCEPT !.st = "cached"]
<1>1. /\ req[q] = [st |-> req[q].st, ids |-> req[q].ids, fill |-> req[q].fill,
                   row |-> req[q].row, plen |-> req[q].plen, last |-> req[q].last]
      /\ req[q].ids \in Seq(Nat) /\ req[q].fill \in 0..Len(req[q].ids)
  BY DEF ReqOK, ReqIs, ReqShape
<1>3. r = [req[q] EXCEPT !.st = "cached"]
  OBVIOUS
<1> HIDE DEF r
<1>4. r = [st |-> "cached", ids |-> req[q].ids, fill |-> req[q].fill,
           row |-> req[q].row, plen |-> req[q].plen, last |-> req[q].last]
  BY <1>1, <1>3
<1>5. AfterOK(q, r)
  BY <1>1, <1>4 DEF AfterOK, ReqShape, HeldStates, Status, Filling
<1> QED
  BY <1>5 DEF r

\* A request that samples a token or only moves on.
LEMMA MoveLocks ==
    ASSUME LockInv, NEW q \in Held, NEW r, ReqIs(r), r.st \in HeldStates, r.last = req[q].last,
           req' = [req EXCEPT ![q] = r], UNCHANGED <<tree, chunked_prefill_size>>
    PROVE  LockInv'
<1>q. q \in Request /\ req[q].st \in HeldStates
  BY HeldFacts
<1>0. ReqOK /\ TreeOK(tree) /\ SizesOK(tree) /\ Pins(tree, Held, LastOf)
      /\ LockedBy(tree, Held, LastOf)
  BY DEF LockInv
<1>1. ReqOK' /\ req'[q] = r /\ \A p \in Request : p # q => req'[p] = req[p]
  BY <1>0, <1>q, UpdateReq
<1>2. \A p \in Request : /\ req'[p].st \in HeldStates <=> req[p].st \in HeldStates
                         /\ req[p].st \in HeldStates => req'[p].last = req[p].last
  BY <1>1, <1>q
<1> QED
  BY <1>0, <1>1, <1>2, HoldersKept

\* Caching the chunked request keeps the locks exact.
LEMMA ChunkLocks ==
    ASSUME LockInv, NEW q \in Request, CacheChunkedReq(q)
    PROVE  LockInv'
<1>1. q \in Held
  BY HeldFacts DEF CacheChunkedReq, HeldStates, Status
<1>2. AfterOK(q, [req[q] EXCEPT !.st = "cached"])
  BY CachedAfter DEF LockInv
<1> QED
  BY <1>1, <1>2, UnfinishedLocks DEF CacheChunkedReq

\* Processing a prefill result keeps the locks exact.
LEMMA PrefillLocks ==
    ASSUME LockInv, NEW q \in Request, ProcessPrefill(q)
    PROVE  LockInv'
<1>0. ReqOK /\ ReqIs(req[q]) /\ req[q].st = "prefill" /\ DOMAIN req = Request
  BY DEF LockInv, ReqOK, ProcessPrefill
<1>1. q \in Held
  BY <1>0, HeldFacts DEF HeldStates, Status
<1>2. CASE req' = [req EXCEPT ![q].st = "chunked"] /\ UNCHANGED <<tree, pools, policy>>
  <2> DEFINE r == [req[q] EXCEPT !.st = "chunked"]
  <2>1. req' = [req EXCEPT ![q] = r] /\ UNCHANGED <<tree, chunked_prefill_size>>
    BY <1>0, <1>2 DEF policy
  <2>2. "chunked" \in Status /\ req[q].st \in Filling
    BY <1>0 DEF Status, Filling
  <2>3. ReqIs(r) /\ r = [st |-> "chunked", ids |-> req[q].ids, fill |-> req[q].fill,
                         row |-> req[q].row, plen |-> req[q].plen, last |-> req[q].last]
    BY <1>0, <2>2, MovedReqIs
  <2> HIDE DEF r
  <2>4. ReqIs(r) /\ r.st \in HeldStates /\ r.last = req[q].last
    BY <2>3 DEF HeldStates, Status
  <2> QED
    BY <1>1, <2>1, <2>4, MoveLocks
<1>3. CASE CacheFinishedReq(q)
  BY <1>1, <1>3, FinishLocks
<1>4. CASE \E t \in Token : CacheUnfinishedReq(q, [req[q] EXCEPT !.st = "prefilled",
                                !.fill = 0, !.ids = Append(req[q].ids, t)])
  <2>1. PICK t \in Token : CacheUnfinishedReq(q, [req[q] EXCEPT !.st = "prefilled",
                                !.fill = 0, !.ids = Append(req[q].ids, t)])
    BY <1>4
  <2>2. t \in Nat
    BY CacheAssumption
  <2>3. AfterOK(q, [req[q] EXCEPT !.st = "prefilled", !.fill = 0,
                                  !.ids = Append(req[q].ids, t)])
    BY <1>0, <2>2, PrefilledAfter
  <2> QED
    BY <1>1, <2>1, <2>3, UnfinishedLocks
<1> QED
  BY <1>2, <1>3, <1>4 DEF ProcessPrefill

\* Processing a decode result keeps the locks exact.
LEMMA DecodeLocks ==
    ASSUME LockInv, NEW q \in Request, ProcessDecode(q)
    PROVE  LockInv'
<1>0. /\ ReqOK /\ ReqIs(req[q]) /\ req[q].st = "decode" /\ DOMAIN req = Request
      /\ req[q].ids \in Seq(Nat)
  BY DEF LockInv, ReqOK, ReqIs, ProcessDecode
<1>1. q \in Held
  BY <1>0, HeldFacts DEF HeldStates, Status
<1>2. CASE CacheFinishedReq(q)
  BY <1>1, <1>2, FinishLocks
<1>3. CASE /\ \E t \in Token : req' = [req EXCEPT ![q].st = "running",
                                                  ![q].ids = Append(@, t)]
           /\ UNCHANGED <<tree, pools, policy>>
  <2>1. PICK t \in Token : req' = [req EXCEPT ![q].st = "running", ![q].ids = Append(@, t)]
    BY <1>3
  <2>2. t \in Nat
    BY CacheAssumption
  <2> DEFINE i == Append(req[q].ids, t)
             r == [req[q] EXCEPT !.st = "running", !.ids = i]
  <2>3. req' = [req EXCEPT ![q] = r] /\ UNCHANGED <<tree, chunked_prefill_size>>
    BY <1>0, <1>3, <2>1 DEF policy
  <2>4. i \in Seq(Nat) /\ Len(i) = Len(req[q].ids) + 1 /\ Len(req[q].ids) \in Nat
    BY <1>0, <2>2
  <2>5. /\ req[q] = [st |-> req[q].st, ids |-> req[q].ids, fill |-> req[q].fill,
                     row |-> req[q].row, plen |-> req[q].plen, last |-> req[q].last]
        /\ req[q].fill \in 0..Len(req[q].ids) /\ req[q].plen \in Nat
    BY <1>0 DEF ReqIs, ReqShape
  <2>6. r = [req[q] EXCEPT !.st = "running", !.ids = i]
    OBVIOUS
  <2> HIDE DEF r, i
  <2>7. r = [st |-> "running", ids |-> i, fill |-> req[q].fill, row |-> req[q].row,
             plen |-> req[q].plen, last |-> req[q].last]
    BY <2>5, <2>6
  <2>8. ReqIs(r) /\ r.st \in HeldStates /\ r.last = req[q].last
    BY <2>4, <2>5, <2>7 DEF ReqIs, ReqShape, HeldStates, Status, Filling
  <2> QED
    BY <1>1, <2>3, <2>8, MoveLocks
<1> QED
  BY <1>2, <1>3 DEF ProcessDecode

\* A batch is launched: a request keeps its node, in the batch or not.
LaunchReq(q, rows, st) ==
    IF q \in DOMAIN rows THEN [req[q] EXCEPT !.row = rows[q], !.st = st]
    ELSE IF req[q].st = "retracted" THEN [req[q] EXCEPT !.st = "waiting"]
    ELSE IF req[q].st = "prefilled" THEN [req[q] EXCEPT !.st = "running"]
    ELSE req[q]

\* A launch changes a request's row and state only.
LEMMA LaunchReqIs ==
    ASSUME NEW q \in Request, ReqIs(req[q]), NEW rows, NEW st \in {"prefill", "decode"},
           q \in DOMAIN rows => req[q].st \in HeldStates /\ (st = "prefill" => req[q].st \in Filling)
    PROVE  LET r == LaunchReq(q, rows, st)
           IN  /\ ReqIs(r)
               /\ r.st \in HeldStates <=> req[q].st \in HeldStates
               /\ r.last = req[q].last /\ r.ids = req[q].ids /\ r.fill = req[q].fill
               /\ r.plen = req[q].plen
               /\ r.row = IF q \in DOMAIN rows THEN rows[q] ELSE req[q].row
<1>s. /\ {"prefill", "decode", "waiting", "running"} \subseteq Status
      /\ {"decode", "waiting", "running"} \cap Filling = {}
  BY DEF Status, Filling
<1>1. CASE q \in DOMAIN rows
  <2> DEFINE r == [req[q] EXCEPT !.row = rows[q], !.st = st]
  <2>1. LaunchReq(q, rows, st) = r
    BY <1>1 DEF LaunchReq
  <2>2. st \in Status /\ (st \in Filling => req[q].st \in Filling)
    BY <1>1, <1>s
  <2>3. ReqIs(r) /\ r = [st |-> st, ids |-> req[q].ids, fill |-> req[q].fill,
                         row |-> rows[q], plen |-> req[q].plen, last |-> req[q].last]
    BY <2>2, RowReqIs
  <2> HIDE DEF r
  <2>4. /\ ReqIs(r) /\ r.st \in HeldStates /\ r.last = req[q].last /\ r.ids = req[q].ids
        /\ r.fill = req[q].fill /\ r.plen = req[q].plen /\ r.row = rows[q]
    BY <2>3 DEF HeldStates, Status
  <2> QED
    BY <1>1, <2>1, <2>4
<1>2. ASSUME q \notin DOMAIN rows, NEW s \in {"waiting", "running"},
             s \in HeldStates <=> req[q].st \in HeldStates,
             LaunchReq(q, rows, st) = [req[q] EXCEPT !.st = s]
      PROVE  LET r == LaunchReq(q, rows, st)
             IN  /\ ReqIs(r)
                 /\ r.st \in HeldStates <=> req[q].st \in HeldStates
                 /\ r.last = req[q].last /\ r.ids = req[q].ids /\ r.fill = req[q].fill
                 /\ r.plen = req[q].plen
                 /\ r.row = IF q \in DOMAIN rows THEN rows[q] ELSE req[q].row
  <2> DEFINE r == [req[q] EXCEPT !.st = s]
  <2>1. LaunchReq(q, rows, st) = r
    BY <1>2
  <2>2. s \in Status /\ (s \in Filling => req[q].st \in Filling)
    BY <1>2, <1>s
  <2>3. ReqIs(r) /\ r = [st |-> s, ids |-> req[q].ids, fill |-> req[q].fill,
                         row |-> req[q].row, plen |-> req[q].plen, last |-> req[q].last]
    BY <2>2, MovedReqIs
  <2> HIDE DEF r
  <2>4. /\ ReqIs(r) /\ r.st = s /\ r.last = req[q].last /\ r.ids = req[q].ids
        /\ r.fill = req[q].fill /\ r.plen = req[q].plen /\ r.row = req[q].row
    BY <2>3
  <2> QED
    BY <1>2, <2>1, <2>4
<1>3. CASE q \notin DOMAIN rows /\ req[q].st = "retracted"
  <2>1. LaunchReq(q, rows, st) = [req[q] EXCEPT !.st = "waiting"]
    BY <1>3 DEF LaunchReq
  <2>2. "waiting" \in HeldStates <=> req[q].st \in HeldStates
    BY <1>3 DEF HeldStates, Status
  <2> QED
    BY <1>2, <1>3, <2>1, <2>2
<1>4. CASE q \notin DOMAIN rows /\ req[q].st = "prefilled"
  <2>1. LaunchReq(q, rows, st) = [req[q] EXCEPT !.st = "running"]
    BY <1>4 DEF LaunchReq
  <2>2. "running" \in HeldStates <=> req[q].st \in HeldStates
    BY <1>4 DEF HeldStates, Status
  <2> QED
    BY <1>2, <1>4, <2>1, <2>2
<1>5. CASE q \notin DOMAIN rows /\ req[q].st \notin {"retracted", "prefilled"}
  <2>1. LaunchReq(q, rows, st) = req[q]
    BY <1>5 DEF LaunchReq
  <2> QED
    BY <1>5, <2>1
<1> QED
  BY <1>1, <1>3, <1>4, <1>5

\* A launch evicts unlocked nodes only, so the locks stay exact.
LEMMA LaunchLocks ==
    ASSUME LockInv, NEW T, TreeOK(T), SizesOK(T), Pins(T, Held, LastOf),
           LockedBy(T, Held, LastOf), NEW D, EvictSet(T, D), NEW pool, NEW total, NEW rows,
           NEW st \in {"prefill", "decode"},
           \A q \in DOMAIN rows : q \in Held /\ (st = "prefill" => req[q].st \in Filling),
           Launch(T, D, pool, total, rows, st), UNCHANGED chunked_prefill_size
    PROVE  LockInv'
<1>0. ReqOK /\ \A q \in Request : ReqIs(req[q])
  BY DEF LockInv, ReqOK
<1>1. tree' = Delete(T, D) /\ req' = [q \in Request |-> LaunchReq(q, rows, st)]
  BY DEF Launch, Merge, LaunchReq
<1>2. \A q \in Request : /\ ReqIs(LaunchReq(q, rows, st))
                         /\ LaunchReq(q, rows, st).st \in HeldStates <=> req[q].st \in HeldStates
                         /\ LaunchReq(q, rows, st).last = req[q].last
  BY <1>0, HeldFacts, LaunchReqIs
<1>3. /\ ReqOK'
      /\ \A q \in Request : /\ req'[q].st \in HeldStates <=> req[q].st \in HeldStates
                            /\ req'[q].last = req[q].last
  BY <1>0, <1>1, <1>2 DEF ReqOK
<1>4. TreeOK(tree') /\ SizesOK(tree') /\ Pins(tree', Held, LastOf) /\ LockedBy(tree', Held, LastOf)
  BY <1>1, HeldFacts, DeleteFacts, DeleteSizes, DeleteLocks
<1> QED
  BY <1>3, <1>4, HoldersKept

\* alloc_token_slots launches the batch with what it evicted, allocated and dealt.
LEMMA AllocLaunch ==
    ASSUME NEW T, NEW fr, NEW need, NEW st, AllocTokenSlots(T, fr, need, st)
    PROVE  \E n, D, pool, total, rows :
              /\ D \in EvictChoices(T, n)
              /\ pool = Freed(fr, SlotsOf(T, D)) /\ total = Total(need)
              /\ Available(pool) >= total
              /\ rows = Rows(SetToSeq(DOMAIN need), need, AllocSeq(pool, total))
              /\ Launch(T, D, pool, total, rows, st)
<1>1. PICK total :
         /\ total = Total(need)
         /\ \E D \in EvictChoices(T, IF Available(fr) < total + Slack
                                     THEN total + Slack ELSE 0) :
            \E pool \in {Freed(fr, SlotsOf(T, D))} :
               /\ Available(pool) >= total
               /\ \E rows \in {Rows(SetToSeq(DOMAIN need), need, AllocSeq(pool, total))} :
                     Launch(T, D, pool, total, rows, st)
  BY DEF AllocTokenSlots
<1> DEFINE n == IF Available(fr) < total + Slack THEN total + Slack ELSE 0
<1> HIDE DEF n
<1>2. PICK D \in EvictChoices(T, n) : \E pool \in {Freed(fr, SlotsOf(T, D))} :
            /\ Available(pool) >= total
            /\ \E rows \in {Rows(SetToSeq(DOMAIN need), need, AllocSeq(pool, total))} :
                  Launch(T, D, pool, total, rows, st)
  BY <1>1 DEF n
<1>3. PICK pool : /\ pool = Freed(fr, SlotsOf(T, D)) /\ Available(pool) >= total
                  /\ \E rows \in {Rows(SetToSeq(DOMAIN need), need, AllocSeq(pool, total))} :
                        Launch(T, D, pool, total, rows, st)
  BY <1>2
<1>4. PICK rows : /\ rows = Rows(SetToSeq(DOMAIN need), need, AllocSeq(pool, total))
                  /\ Launch(T, D, pool, total, rows, st)
  BY <1>3
<1> QED
  BY <1>1, <1>2, <1>3, <1>4

\* A row for every request that needs slots.
LEMMA RowsDomain ==
    ASSUME NEW order, NEW need, NEW new
    PROVE  DOMAIN Rows(order, need, new) = DOMAIN need
BY DEF Rows

\* alloc_token_slots keeps the locks exact.
LEMMA AllocLocks ==
    ASSUME LockInv, NEW T, TreeOK(T), SizesOK(T), Pins(T, Held, LastOf),
           LockedBy(T, Held, LastOf), NEW fr, NEW need, NEW st \in {"prefill", "decode"},
           \A q \in DOMAIN need : q \in Held /\ (st = "prefill" => req[q].st \in Filling),
           AllocTokenSlots(T, fr, need, st), UNCHANGED chunked_prefill_size
    PROVE  LockInv'
<1>2. PICK n, D, pool, total, rows :
         /\ D \in EvictChoices(T, n) /\ DOMAIN rows = DOMAIN need
         /\ Launch(T, D, pool, total, rows, st)
  BY AllocLaunch, RowsDomain
<1>3. EvictSet(T, D)
  BY <1>2, EvictFacts DEF TreeOK
<1>4. \A q \in DOMAIN rows : q \in Held /\ (st = "prefill" => req[q].st \in Filling)
  BY <1>2
<1> QED
  BY <1>2, <1>3, <1>4, LaunchLocks

\* prepare_for_extend keeps the locks exact.
LEMMA ExtendLocks ==
    ASSUME LockInv, PrepareForExtend
    PROVE  LockInv'
<1> DEFINE need == [q \in In({"admitted"}) |-> ExtendLen(q)]
<1>1. AllocTokenSlots(tree, free, need, "prefill") /\ UNCHANGED chunked_prefill_size
  BY DEF PrepareForExtend, policy
<1>2. \A q \in DOMAIN need : q \in Held /\ req[q].st \in Filling
  BY DEF Held, In, Filling
<1> HIDE DEF need
<1> QED
  BY <1>1, <1>2, AllocLocks DEF LockInv

\* Every request of the decode batch holds a lock.
LEMMA DecodeBatchHeld == \A q \in DecodeBatch : q \in Held /\ q \in Request
BY DEF DecodeBatch, Held, In

\* prepare_for_decode keeps the locks exact.
LEMMA ForDecodeLocks ==
    ASSUME LockInv, PrepareForDecode \/ PrepareForDecodeAfterRetract
    PROVE  LockInv'
<1> DEFINE need == [q \in DecodeBatch |-> 1]
<1>0. /\ TreeOK(tree) /\ SizesOK(tree) /\ Pins(tree, Held, LastOf)
      /\ LockedBy(tree, Held, LastOf)
  BY DEF LockInv
<1>1. \A q \in DOMAIN need : q \in Held
  BY DecodeBatchHeld
<1>2. UNCHANGED chunked_prefill_size
  BY DEF PrepareForDecode, PrepareForDecodeAfterRetract, policy
<1>3. CASE PrepareForDecode
  <2>1. PICK D \in CheckDecodeMem : AllocTokenSlots(Delete(tree, D),
                                        Freed(free, SlotsOf(tree, D)), need, "decode")
    BY <1>3 DEF PrepareForDecode
  <2>2. EvictSet(tree, D)
    BY <1>0, EvictFacts DEF CheckDecodeMem, TreeOK
  <2> DEFINE T == Delete(tree, D)
  <2>3. TreeOK(T) /\ SizesOK(T) /\ Pins(T, Held, LastOf) /\ LockedBy(T, Held, LastOf)
    BY <1>0, <2>2, HeldFacts, DeleteFacts, DeleteSizes, DeleteLocks
  <2> HIDE DEF T, need
  <2> QED
    BY <1>1, <1>2, <2>1, <2>3, AllocLocks DEF T
<1>4. CASE PrepareForDecodeAfterRetract
  <2>1. AllocTokenSlots(tree, free, need, "decode")
    BY <1>4 DEF PrepareForDecodeAfterRetract
  <2> HIDE DEF need
  <2> QED
    BY <1>0, <1>1, <1>2, <2>1, AllocLocks
<1> QED
  BY <1>3, <1>4

\* A retracted or lost request is well formed and holds nothing.
LEMMA RetractedReqIs ==
    ASSUME NEW q \in Request, NEW i \in Seq(Nat), NEW s \in {"retracted", "lost"}
    PROVE  /\ [NewReq(q) EXCEPT !.st = s, !.ids = i]
                = [st |-> s, ids |-> i, fill |-> 0, row |-> <<>>, plen |-> 0, last |-> NoNode]
           /\ ReqIs([NewReq(q) EXCEPT !.st = s, !.ids = i])
           /\ [NewReq(q) EXCEPT !.st = s]
                = [st |-> s, ids |-> Meta[q].prompt, fill |-> 0, row |-> <<>>, plen |-> 0,
                   last |-> NoNode]
           /\ ReqIs([NewReq(q) EXCEPT !.st = s])
<1> DEFINE a == [NewReq(q) EXCEPT !.st = s, !.ids = i]
           b == [NewReq(q) EXCEPT !.st = s]
<1>1. NewReq(q) = [st |-> "idle", ids |-> Meta[q].prompt, fill |-> 0, row |-> <<>>,
                   plen |-> 0, last |-> NoNode] /\ Meta[q].prompt \in Seq(Nat)
  BY CacheAssumption DEF NewReq
<1> DEFINE o == NewReq(q)
<1>a. a = [o EXCEPT !.st = s, !.ids = i] /\ b = [o EXCEPT !.st = s]
  OBVIOUS
<1>b. /\ o = [st |-> o.st, ids |-> o.ids, fill |-> o.fill, row |-> o.row, plen |-> o.plen,
              last |-> o.last]
      /\ o.ids = Meta[q].prompt /\ o.fill = 0 /\ o.row = <<>> /\ o.plen = 0 /\ o.last = NoNode
  BY <1>1
<1> HIDE DEF a, b, o
<1>c. a = [st |-> s, ids |-> i, fill |-> o.fill, row |-> o.row, plen |-> o.plen,
           last |-> o.last]
  BY ONLY <1>a, <1>b
<1>d. b = [st |-> s, ids |-> o.ids, fill |-> o.fill, row |-> o.row, plen |-> o.plen,
           last |-> o.last]
  BY ONLY <1>a, <1>b
<1>2. /\ a = [st |-> s, ids |-> i, fill |-> 0, row |-> <<>>, plen |-> 0, last |-> NoNode]
      /\ b = [st |-> s, ids |-> Meta[q].prompt, fill |-> 0, row |-> <<>>, plen |-> 0,
              last |-> NoNode]
  BY ONLY <1>b, <1>c, <1>d
<1>3. Len(i) \in Nat /\ Len(Meta[q].prompt) \in Nat
  BY <1>1
<1>4. ReqIs(a)
  BY <1>2, <1>3 DEF ReqIs, ReqShape, Status, Filling
<1>5. ReqIs(b)
  BY <1>1, <1>2, <1>3 DEF ReqIs, ReqShape, Status, Filling
<1>6. /\ a = [st |-> s, ids |-> i, fill |-> 0, row |-> <<>>, plen |-> 0, last |-> NoNode]
      /\ ReqIs(a)
      /\ b = [st |-> s, ids |-> Meta[q].prompt, fill |-> 0, row |-> <<>>, plen |-> 0,
              last |-> NoNode]
      /\ ReqIs(b)
  BY ONLY <1>2, <1>4, <1>5
<1> QED
  BY ONLY <1>6 DEF a, b

\* Merging the last batch changes states only.
LEMMA MergedReqIs ==
    ASSUME ReqOK, NEW p \in Request
    PROVE  LET r == Merge(req)[p]
           IN  /\ ReqIs(r)
               /\ r.st \in HeldStates <=> req[p].st \in HeldStates
               /\ r.last = req[p].last /\ r.ids = req[p].ids /\ r.fill = req[p].fill
               /\ r.plen = req[p].plen /\ r.row = req[p].row
<1>1. ReqIs(req[p])
  BY DEF ReqOK
<1>2. CASE req[p].st = "prefilled"
  <2> DEFINE r == [req[p] EXCEPT !.st = "running"]
  <2>1. Merge(req)[p] = r
    BY <1>2 DEF Merge
  <2>2. "running" \in Status /\ "running" \notin Filling
    BY DEF Status, Filling
  <2>3. ReqIs(r) /\ r = [st |-> "running", ids |-> req[p].ids, fill |-> req[p].fill,
                         row |-> req[p].row, plen |-> req[p].plen, last |-> req[p].last]
    BY <1>1, <2>2, MovedReqIs
  <2> HIDE DEF r
  <2>4. /\ ReqIs(r) /\ r.st = "running" /\ r.last = req[p].last /\ r.ids = req[p].ids
        /\ r.fill = req[p].fill /\ r.plen = req[p].plen /\ r.row = req[p].row
    BY <2>3
  <2> QED
    BY <1>2, <2>1, <2>4 DEF HeldStates, Status
<1>3. CASE req[p].st # "prefilled"
  <2>1. Merge(req)[p] = req[p]
    BY <1>3 DEF Merge
  <2> QED
    BY <1>1, <2>1
<1> QED
  BY <1>2, <1>3

\* Retracting a request gives back its one lock.
LEMMA RetractReqLocks ==
    ASSUME LockInv, NEW q \in Held, NEW D0, EvictSet(tree, D0), RetractReq(q, D0),
           UNCHANGED chunked_prefill_size
    PROVE  LockInv'
<1>q. q \in Request /\ IsFiniteSet(Held) /\ Held \subseteq Request
  BY HeldFacts
<1>0. /\ ReqOK /\ TreeOK(tree) /\ SizesOK(tree) /\ Pins(tree, Held, LastOf)
      /\ LockedBy(tree, Held, LastOf) /\ req[q].ids \in Seq(Nat)
  BY <1>q DEF LockInv, ReqOK, ReqIs
<1> DEFINE S == Delete(tree, D0)
           T == DecLockRef(S, req[q].last)
           r == [NewReq(q) EXCEPT !.st = "retracted", !.ids = req[q].ids]
<1>1. /\ \E n : \E D \in EvictChoices(T, n) : tree' = Delete(T, D)
      /\ req' = [Merge(req) EXCEPT ![q] = r]
  BY DEF RetractReq
<1>2. TreeOK(S) /\ SizesOK(S) /\ Pins(S, Held, LastOf) /\ LockedBy(S, Held, LastOf)
  BY <1>0, <1>q, DeleteFacts, DeleteSizes, DeleteLocks
<1> HIDE DEF S
<1>3. /\ TreeOK(T) /\ SizesOK(T)
      /\ Pins(T, Held \ {q}, LastOf) /\ LockedBy(T, Held \ {q}, LastOf)
  BY <1>2, Released
<1> HIDE DEF T
<1>4. PICK n : \E D \in EvictChoices(T, n) : tree' = Delete(T, D)
  BY <1>1
<1>5. PICK D \in EvictChoices(T, n) : tree' = Delete(T, D)
  BY <1>4
<1>6. EvictSet(T, D)
  BY <1>3, EvictFacts DEF TreeOK
<1>7. IsFiniteSet(Held \ {q})
  BY <1>q, FS_Subset
<1>8. /\ TreeOK(tree') /\ SizesOK(tree')
      /\ Pins(tree', Held \ {q}, LastOf) /\ LockedBy(tree', Held \ {q}, LastOf)
  BY <1>3, <1>5, <1>6, <1>7, DeleteFacts, DeleteSizes, DeleteLocks
<1>9. ReqIs(r) /\ r.st \notin HeldStates
  <2>1. ReqIs(r)
    BY <1>0, <1>q, RetractedReqIs
  <2>2. r = [st |-> "retracted", ids |-> req[q].ids, fill |-> 0, row |-> <<>>, plen |-> 0,
             last |-> NoNode]
    BY <1>0, <1>q, RetractedReqIs
  <2> HIDE DEF r
  <2>3. r.st = "retracted"
    BY <2>2
  <2> QED
    BY <2>1, <2>3 DEF HeldStates
<1> HIDE DEF r
<1>10. /\ req' = [p \in Request |-> req'[p]] /\ req'[q] = r
       /\ \A p \in Request : p # q => req'[p] = Merge(req)[p]
  <2>1. Merge(req) = [p \in Request |-> Merge(req)[p]]
    BY DEF Merge
  <2> QED
    BY <1>1, <1>q, <2>1
<1>11. /\ \A p \in Request : ReqIs(req'[p])
       /\ \A p \in Request : p # q => /\ req'[p].st \in HeldStates <=> req[p].st \in HeldStates
                                      /\ req'[p].last = req[p].last
  <2>1. \A p \in Request : p # q =>
            /\ ReqIs(req'[p])
            /\ req'[p].st \in HeldStates <=> req[p].st \in HeldStates
            /\ req'[p].last = req[p].last
    BY <1>0, <1>10, MergedReqIs
  <2> QED
    BY <2>1, <1>9, <1>10
<1>12. ReqOK'
  BY <1>0, <1>10, <1>11 DEF ReqOK
<1>13. Held' = Held \ {q} /\ \A p \in Held \ {q} : LastOf[p] = LastOf'[p]
  <2>1. Held' = {p \in Request : req'[p].st \in HeldStates}
    BY DEF Held, In, HeldStates, Status
  <2>2. Held' = Held \ {q}
    BY <2>1, <1>9, <1>10, <1>11, HeldFacts
  <2>3. \A p \in Held \ {q} : LastOf[p] = LastOf'[p]
    BY <1>q, <1>11 DEF LastOf
  <2> QED
    BY <2>2, <2>3
<1>14. Pins(tree', Held \ {q}, LastOf') /\ LockedBy(tree', Held \ {q}, LastOf')
  BY <1>8, <1>13, SameHolders
<1> QED
  BY <1>8, <1>12, <1>13, <1>14 DEF LockInv

\* Evicting nothing is allowed.
LEMMA NothingEvicted ==
    ASSUME NEW T
    PROVE  EvictSet(T, {})
BY DEF EvictSet

\* retract_decode keeps the locks exact.
LEMMA RetractLocks ==
    ASSUME LockInv, NEW q \in Request, RetractDecode(q)
    PROVE  LockInv'
<1>1. q \in Held /\ UNCHANGED chunked_prefill_size
  BY DecodeBatchHeld DEF RetractDecode, policy
<1>2. PICK D0 \in IF Receiving THEN CheckDecodeMem ELSE {{}} : RetractReq(q, D0)
  BY DEF RetractDecode
<1>3. EvictSet(tree, D0)
  <2>1. CASE D0 \in CheckDecodeMem
    BY <2>1, EvictFacts DEF CheckDecodeMem, LockInv, TreeOK
  <2>2. CASE D0 = {}
    BY <2>2, NothingEvicted
  <2> QED
    BY <1>2, <2>1, <2>2
<1> QED
  BY <1>1, <1>2, <1>3, RetractReqLocks

\* flush_cache resets the tree only when no request holds a lock.
LEMMA FlushLocks ==
    ASSUME LockInv, ~FlushMidChunk, FlushCache
    PROVE  LockInv'
<1>0. ReqOK
  BY DEF LockInv
<1> DEFINE r(q) == [NewReq(q) EXCEPT !.st = "lost"]
<1>1. /\ tree' = EmptyTree /\ UNCHANGED chunked_prefill_size
      /\ req' = [q \in Request |-> IF req[q].st = "prefilled" THEN r(q) ELSE req[q]]
  BY DEF FlushCache
<1>2. ASSUME NEW q \in Request PROVE ReqIs(r(q)) /\ r(q).st = "lost"
  <2>1. ReqIs(r(q)) /\ r(q) = [st |-> "lost", ids |-> Meta[q].prompt, fill |-> 0,
                               row |-> <<>>, plen |-> 0, last |-> NoNode]
    <3>1. <<>> \in Seq(Nat)
      OBVIOUS
    <3> QED
      BY <3>1, RetractedReqIs
  <2> HIDE DEF r
  <2> QED
    BY <2>1
<1> HIDE DEF r
<1>3. ReqOK'
  BY <1>0, <1>1, <1>2 DEF ReqOK
<1>4. \A q \in Request : req'[q].st \notin HeldStates
  <2> SUFFICES ASSUME NEW q \in Request PROVE req'[q].st \notin HeldStates
    OBVIOUS
  <2>1. req[q].st \notin {"admitted", "prefill", "cached", "decode", "retracted", "waiting",
                          "running", "chunked"}
    BY DEF FlushCache, Receiving, In
  <2>2. CASE req[q].st = "prefilled"
    BY <2>2, <1>1, <1>2 DEF HeldStates
  <2>3. CASE req[q].st # "prefilled"
    BY <2>1, <2>3, <1>1 DEF HeldStates, Status
  <2> QED
    BY <2>2, <2>3
<1>5. \A q \in Held' : FALSE
  <2>1. Held' = {p \in Request : req'[p].st \in HeldStates}
    BY DEF Held, In, HeldStates, Status
  <2> QED
    BY <2>1, <1>4
<1> QED
  BY <1>1, <1>3, <1>5, EmptyTreeOK DEF LockInv

\* The locks are exact at the start.
LEMMA InitLocks == Init => LockInv
<1> SUFFICES ASSUME Init PROVE LockInv
  OBVIOUS
<1>1. req = [q \in Request |-> NewReq(q)] /\ tree = EmptyTree
      /\ chunked_prefill_size \in ChunkSizes
  BY DEF Init
<1>2. ReqOK /\ \A q \in Request : req[q].st = "idle"
  BY <1>1, NewReqIs DEF ReqOK
<1>3. \A q \in Held : FALSE
  BY <1>2, HeldFacts DEF HeldStates
<1> QED
  BY <1>1, <1>2, <1>3, EmptyTreeOK DEF LockInv

\* What the invariant says of the locks and the sizes.
LEMMA LockInvExact == LockInv => LocksExact
<1> SUFFICES ASSUME LockInv PROVE LocksExact
  OBVIOUS
<1>0. PlacesOK(tree) /\ NodesOK(tree) /\ SizesOK(tree) /\ LockedBy(tree, Held, LastOf)
  BY DEF LockInv, TreeOK
<1>1. ASSUME NEW x \in DOMAIN tree.nd
      PROVE  tree.nd[x].lock = Cardinality({q \in Held : x \in Lineage(tree, req[q].last)})
  <2>1. \A q \in Held : LastOf[q] = req[q].last
    BY HeldFacts DEF LastOf
  <2>2. \A q \in Held : x \in Lineage(tree, req[q].last) <=> Above(x, LastOf[q])
    BY <2>1, LineageFacts
  <2>3. {q \in Held : x \in Lineage(tree, req[q].last)} = {q \in Held : Above(x, LastOf[q])}
    BY <2>2
  <2>4. tree.nd[x].lock = Cardinality({q \in Held : Above(x, LastOf[q])})
    BY <1>0 DEF LockedBy
  <2> QED
    BY <2>3, <2>4, Zenon
<1>2. /\ tree.evictable = SizeOf(tree, {x \in DOMAIN tree.nd : tree.nd[x].lock = 0})
      /\ tree.protected = SizeOf(tree, {x \in DOMAIN tree.nd : tree.nd[x].lock > 0})
  BY <1>0, SizeOfFacts DEF SizesOK
<1> QED
  BY <1>1, <1>2 DEF LocksExact

\* LockInv is inductive.
LEMMA StepLocks ==
    ASSUME ~FlushMidChunk, LockInv, [Next]_vars
    PROVE  LockInv'
<1>1. ASSUME NEW q \in Request, Arrive(q) \/ AbortWaiting(q) PROVE LockInv'
  BY <1>1, ArriveLocks
<1>2. ASSUME NEW q \in Request, CacheChunkedReq(q) PROVE LockInv'
  BY <1>2, ChunkLocks
<1>3. ASSUME NEW q \in Request, AddChunkedReq(q) PROVE LockInv'
  BY <1>3, AddChunkedLocks
<1>4. ASSUME NEW q \in Request, AddOneReq(q) PROVE LockInv'
  BY <1>4, AddOneLocks
<1>5. ASSUME NEW q \in Request, ProcessPrefill(q) PROVE LockInv'
  BY <1>5, PrefillLocks
<1>6. ASSUME NEW q \in Request, ProcessDecode(q) PROVE LockInv'
  BY <1>6, DecodeLocks
<1>7. ASSUME NEW q \in Request, RetractDecode(q) PROVE LockInv'
  BY <1>7, RetractLocks
<1>8. CASE PrepareForExtend
  BY <1>8, ExtendLocks
<1>9. CASE PrepareForDecode \/ PrepareForDecodeAfterRetract
  BY <1>9, ForDecodeLocks
<1>10. CASE \/ \E x \in DOMAIN tree.nd : DetectorPromotes(x)
            \/ \E u \in User : PromoteToBudgeted(u)
  BY <1>10, PromoteLocks
<1>11. CASE (\E o \in Object : Revoke(o)) \/ UNCHANGED vars
  <2>1. UNCHANGED <<tree, req, chunked_prefill_size>>
    BY <1>11 DEF Revoke, vars, policy
  <2>2. ReqOK'
    BY <2>1 DEF LockInv, ReqOK
  <2> QED
    BY <2>1, <2>2, HoldersKept DEF LockInv
<1>12. CASE FlushCache
  BY <1>12, FlushLocks
<1> QED
  BY <1>1, <1>2, <1>3, <1>4, <1>5, <1>6, <1>7, <1>8, <1>9, <1>10, <1>11, <1>12 DEF Next

\* inc_lock_ref, dec_lock_ref, _split_node and _delete_leaf keep every lock_ref
\* equal to the number of requests in flight that hold the node or one below it,
\* and evictable_size_ and protected_size_ equal to the sizes of the unlocked and
\* of the locked nodes, as long as flush_cache is not called between two chunks
\* of a prompt.
THEOREM LocksAreExact == ~FlushMidChunk => (Spec => []LocksExact)
<1> SUFFICES ASSUME ~FlushMidChunk PROVE Spec => []LocksExact
  OBVIOUS
<1>1. Init => LockInv
  BY InitLocks
<1>2. LockInv /\ [Next]_vars => LockInv'
  BY StepLocks
<1>3. LockInv => LocksExact
  BY LockInvExact
<1> QED
  BY <1>1, <1>2, <1>3, PTL DEF Spec

-----------------------------------------------------------------------------
(* One prompt in chunks *)

\* The requests whose prompt is being prefilled in chunks.
InChunks ==
    {q \in In({"admitted", "prefill"}) : Truncated(q)} \cup In({"chunked", "cached"})

\* At most one such request; when it is in the new batch the chunk is full, so
\* that no other request can be cut.
ChunkInv ==
    /\ \A p, q \in InChunks : p = q
    /\ \A q \in In({"admitted"}) : Truncated(q) => InputTokens >= chunked_prefill_size

\* The part of a request that says whether it is being prefilled in chunks.
InChunksReq(r) ==
    \/ r.st \in {"admitted", "prefill"} /\ r.fill < Len(r.ids)
    \/ r.st \in {"chunked", "cached"}

\* The requests in chunked prefill, read off the request records.
LEMMA InChunksFacts == InChunks = {q \in Request : InChunksReq(req[q])}
BY DEF InChunks, InChunksReq, In, Truncated

\* A step that puts no request into the new batch.
LEMMA QuietChunks ==
    ASSUME ChunkInv, UNCHANGED chunked_prefill_size,
           \A q \in Request : InChunksReq(req'[q]) => InChunksReq(req[q]),
           \/ \A q \in Request : req'[q].st # "admitted"
           \/ \A q \in Request :
                 /\ req'[q].st = "admitted" <=> req[q].st = "admitted"
                 /\ req[q].st = "admitted" => /\ req'[q].fill = req[q].fill
                                              /\ req'[q].plen = req[q].plen
                                              /\ req'[q].ids = req[q].ids
    PROVE  ChunkInv'
<1>1. InChunks' = {q \in Request : InChunksReq(req'[q])}
  BY DEF InChunks, InChunksReq, In, Truncated
<1>2. \A p, q \in InChunks' : p = q
  BY <1>1, InChunksFacts DEF ChunkInv
<1>3. CASE \A q \in Request : req'[q].st # "admitted"
  BY <1>2, <1>3 DEF ChunkInv, In
<1>4. CASE \A q \in Request :
                 /\ req'[q].st = "admitted" <=> req[q].st = "admitted"
                 /\ req[q].st = "admitted" => /\ req'[q].fill = req[q].fill
                                              /\ req'[q].plen = req[q].plen
                                              /\ req'[q].ids = req[q].ids
  <2> DEFINE A == {q \in Request : req[q].st = "admitted"}
  <2>1. In({"admitted"}) = A /\ In({"admitted"})' = A
    BY <1>4 DEF In
  <2>2. \A q \in A : ExtendLen(q)' = ExtendLen(q) /\ (Truncated(q)' <=> Truncated(q))
    BY <1>4 DEF ExtendLen, Truncated
  <2>3. InputTokens = Total([q \in A |-> ExtendLen(q)])
    BY <2>1 DEF InputTokens
  <2>4. InputTokens' = Total([q \in A |-> ExtendLen(q)'])
    BY <2>1 DEF InputTokens
  <2>5. [q \in A |-> ExtendLen(q)'] = [q \in A |-> ExtendLen(q)]
    BY <2>2
  <2>6. InputTokens' = InputTokens
    BY <2>3, <2>4, <2>5, Zenon
  <2> HIDE DEF A
  <2> QED
    BY <1>2, <2>1, <2>2, <2>6 DEF ChunkInv
<1> QED
  BY <1>3, <1>4

\* One request is put into the new batch.
LEMMA AdmitChunks ==
    ASSUME ReqOK, ReqOK', ChunkInv, UNCHANGED chunked_prefill_size, NEW q \in Request,
           req[q].st # "admitted", req'[q].st = "admitted",
           \A p \in Request : p # q => req'[p] = req[p],
           InChunksReq(req'[q]) =>
              /\ \A p \in Request : p # q => ~InChunksReq(req[p])
              /\ InputTokens + (req'[q].fill - req'[q].plen) >= chunked_prefill_size,
           ~InChunksReq(req'[q]) =>
              \A p \in Request : req[p].st = "admitted" => ~InChunksReq(req[p])
    PROVE  ChunkInv'
<1>1. InChunks' = {p \in Request : InChunksReq(req'[p])}
  BY DEF InChunks, InChunksReq, In, Truncated
<1>2. \A p, r \in InChunks' : p = r
  BY <1>1, InChunksFacts DEF ChunkInv
<1>3. In({"admitted"})' = In({"admitted"}) \cup {q} /\ q \notin In({"admitted"})
  BY DEF In
<1> DEFINE A == In({"admitted"})
           f == [p \in A |-> ExtendLen(p)]
           g == [p \in A \cup {q} |-> ExtendLen(p)']
<1>4. InputTokens = Total(f) /\ InputTokens' = Total(g)
  BY <1>3 DEF InputTokens
<1>5. \A p \in A : f[p] \in Int /\ g[p] = f[p]
  <2> SUFFICES ASSUME NEW p \in A PROVE f[p] \in Int /\ g[p] = f[p]
    OBVIOUS
  <2>1. p \in Request /\ p # q /\ req'[p] = req[p]
    BY <1>3 DEF In
  <2>2. req[p].fill \in Int /\ req[p].plen \in Int
    BY <2>1 DEF ReqOK, ReqIs
  <2> QED
    BY <2>1, <2>2 DEF ExtendLen
<1>6. g[q] = req'[q].fill - req'[q].plen /\ g[q] \in Nat
  <2>1. req'[q].fill \in Nat /\ req'[q].plen \in Nat /\ req'[q].plen <= req'[q].fill
    BY DEF ReqOK, ReqIs, Filling
  <2> QED
    BY <2>1 DEF ExtendLen
<1>7. DOMAIN f = A /\ DOMAIN g = A \cup {q} /\ IsFiniteSet(A) /\ q \notin A
  BY <1>3, InputType
<1> HIDE DEF f, g, A
<1>8. Total(g) = Total(f) + g[q]
  BY <1>5, <1>6, <1>7, TotalAdd
<1>9. ASSUME NEW p \in In({"admitted"})', Truncated(p)'
      PROVE  InputTokens' >= chunked_prefill_size'
  <2>1. p \in Request /\ InChunksReq(req'[p])
    BY <1>9 DEF In, InChunksReq, Truncated
  <2>2. p = q
    BY <1>3, <1>9, <2>1 DEF In
  <2> QED
    BY <2>1, <2>2, <1>4, <1>6, <1>8
<1> QED
  BY <1>2, <1>9 DEF ChunkInv

\* add_one_req starts a chunk only when no other request is in chunks.
LEMMA AddOneChunks ==
    ASSUME LockInv, LockInv', ChunkInv, NEW q \in Request, AddOneReq(q)
    PROVE  ChunkInv'
<1>0. ReqOK /\ ReqOK' /\ DOMAIN req = Request
  BY DEF LockInv, ReqOK
<1>1. /\ req[q].st = "waiting" /\ UNCHANGED chunked_prefill_size
      /\ In({"prefill", "chunked", "cached", "decode", "retracted"}) = {}
  BY DEF AddOneReq
<1>2. PICK m, locked, total : AddMatched(q, m, locked, total)
  BY DEF AddOneReq
<1>3. CASE UNCHANGED req
  BY <1>1, <1>3, QuietChunks
<1>4. CASE ~UNCHANGED req
  <2> DEFINE f == Min({Len(req[q].ids), m.len + RemChunkTokens})
             r == [req[q] EXCEPT !.st = "admitted", !.fill = f, !.row = MatchedSlots(m),
                                 !.plen = m.len, !.last = m.last]
  <2>1. req' = [req EXCEPT ![q] = r]
    BY <1>0, <1>2, <1>4 DEF AddMatched
  <2>2. /\ r.st = "admitted" /\ r.fill = f /\ r.plen = m.len /\ r.ids = req[q].ids
    <3>1. req[q] = [st |-> req[q].st, ids |-> req[q].ids, fill |-> req[q].fill,
                    row |-> req[q].row, plen |-> req[q].plen, last |-> req[q].last]
      BY <1>0 DEF ReqOK, ReqIs, ReqShape
    <3> HIDE DEF f
    <3> QED
      BY <3>1
  <2> HIDE DEF r
  <2>3. req'[q] = r /\ \A p \in Request : p # q => req'[p] = req[p]
    BY <1>0, <2>1
  <2>c. RemChunkTokens > 0
    BY ONLY <1>2, <1>4 DEF AddMatched
  <2>4. /\ RemChunkTokens = chunked_prefill_size - InputTokens
        /\ InputTokens \in Nat /\ chunked_prefill_size \in Nat /\ RemChunkTokens \in Int
    BY <1>0, InputType, CacheAssumption DEF RemChunkTokens, ReqOK
  <2>5. \A p \in Request : ~InChunksReq(req[p])
    <3> SUFFICES ASSUME NEW p \in Request, InChunksReq(req[p]) PROVE FALSE
      OBVIOUS
    <3>1. p \in In({"admitted"}) /\ Truncated(p)
      BY <1>1 DEF InChunksReq, In, Truncated
    <3> QED
      BY <3>1, <2>4, <2>c, <1>1 DEF ChunkInv
  <2>6. InChunksReq(r) => InputTokens + (r.fill - r.plen) >= chunked_prefill_size
    <3>1. SUFFICES ASSUME InChunksReq(r)
                   PROVE  InputTokens + (r.fill - r.plen) >= chunked_prefill_size
      OBVIOUS
    <3>2. r.fill < Len(req[q].ids)
      BY <3>1, <2>2 DEF InChunksReq
    <3>3. Len(req[q].ids) \in Nat /\ m.len \in Nat
      <4>1. ReqIs(req[q]) /\ ReqIs(r)
        BY <1>0, <2>3 DEF ReqOK
      <4> QED
        BY <4>1, <2>2 DEF ReqIs
    <3>4. {Len(req[q].ids), m.len + RemChunkTokens} \subseteq Nat
      BY <3>3, <2>4, <2>c
    <3>5. f \in {Len(req[q].ids), m.len + RemChunkTokens}
      BY <3>4, MinFacts
    <3> HIDE DEF f
    <3>6. r.fill - r.plen = RemChunkTokens
      BY <3>2, <3>3, <3>5, <2>2, <2>4
    <3> QED
      BY <3>6, <2>4
  <2> QED
    BY <1>0, <1>1, <2>2, <2>3, <2>5, <2>6, AdmitChunks
<1> QED
  BY <1>3, <1>4

\* add_chunked_req continues the one request in chunks.
LEMMA AddChunkedChunks ==
    ASSUME LockInv, LockInv', ChunkInv, NEW q \in Request, AddChunkedReq(q)
    PROVE  ChunkInv'
<1>0. ReqOK /\ ReqOK' /\ DOMAIN req = Request /\ chunked_prefill_size \in Nat
  BY CacheAssumption DEF LockInv, ReqOK
<1> DEFINE f == Min({Len(req[q].ids), req[q].plen + chunked_prefill_size})
           r == [req[q] EXCEPT !.st = "admitted", !.fill = f, !.row = Take(req[q].row, req[q].plen)]
<1>1. req' = [req EXCEPT ![q] = r] /\ req[q].st = "cached" /\ UNCHANGED chunked_prefill_size
  BY <1>0 DEF AddChunkedReq, policy
<1>2. r.st = "admitted" /\ r.fill = f /\ r.plen = req[q].plen /\ r.ids = req[q].ids
  <2>1. req[q] = [st |-> req[q].st, ids |-> req[q].ids, fill |-> req[q].fill,
                  row |-> req[q].row, plen |-> req[q].plen, last |-> req[q].last]
    BY <1>0 DEF ReqOK, ReqIs, ReqShape
  <2> HIDE DEF f
  <2> QED
    BY <2>1
<1> HIDE DEF r
<1>3. req'[q] = r /\ \A p \in Request : p # q => req'[p] = req[p]
  BY <1>0, <1>1
<1>4. \A p \in Request : p # q => ~InChunksReq(req[p])
  <2>1. InChunksReq(req[q])
    BY <1>1 DEF InChunksReq
  <2> QED
    BY <2>1, InChunksFacts DEF ChunkInv
<1>5. InChunksReq(r) => InputTokens + (r.fill - r.plen) >= chunked_prefill_size
  <2>1. SUFFICES ASSUME InChunksReq(r)
                 PROVE  InputTokens + (r.fill - r.plen) >= chunked_prefill_size
    OBVIOUS
  <2>2. r.fill < Len(req[q].ids)
    BY <2>1, <1>2 DEF InChunksReq
  <2>3. Len(req[q].ids) \in Nat /\ req[q].plen \in Nat
    BY <1>0 DEF ReqOK, ReqIs
  <2>4. {Len(req[q].ids), req[q].plen + chunked_prefill_size} \subseteq Nat
    BY <2>3, <1>0
  <2>5. f \in {Len(req[q].ids), req[q].plen + chunked_prefill_size}
    BY <2>4, MinFacts
  <2> HIDE DEF f
  <2>6. r.fill - r.plen = chunked_prefill_size
    BY <2>2, <2>3, <2>5, <1>0, <1>2
  <2>7. InputTokens \in Nat
    BY <1>0, InputType
  <2> QED
    BY <2>6, <2>7, <1>0
<1>6. \A p \in Request : req[p].st = "admitted" => ~InChunksReq(req[p])
  BY <1>1, <1>4
<1> QED
  BY <1>0, <1>1, <1>2, <1>3, <1>4, <1>5, <1>6, AdmitChunks

\* A step that admits nothing and starts no chunk keeps ChunkInv.
LEMMA QuietReqChunks ==
    ASSUME LockInv, ChunkInv, NEW q \in Request, NEW r, req' = [req EXCEPT ![q] = r],
           UNCHANGED chunked_prefill_size, req[q].st # "admitted", r.st # "admitted",
           InChunksReq(r) => InChunksReq(req[q])
    PROVE  ChunkInv'
<1>0. DOMAIN req = Request
  BY DEF LockInv, ReqOK
<1>1. req'[q] = r /\ \A p \in Request : p # q => req'[p] = req[p]
  BY <1>0
<1> QED
  BY <1>1, QuietChunks

\* Where cache_unfinished_req leaves the request.
LEMMA UnfinishedReq ==
    ASSUME NEW q, NEW after, ReqShape(after), CacheUnfinishedReq(q, after)
    PROVE  \E r : /\ req' = [req EXCEPT ![q] = r]
                  /\ r.st = after.st /\ r.ids = after.ids /\ r.fill = after.fill
<1>1. PICK i, m : CacheInserted(q, after, i, m)
  BY DEF CacheUnfinishedReq
<1> DEFINE w == [n \in DOMAIN req[q].row |->
                    IF n \in req[q].plen + 1 .. m.len THEN MatchedSlots(m)[n]
                    ELSE req[q].row[n]]
           r == [after EXCEPT !.row = w, !.plen = m.len, !.last = m.last]
<1>2. req' = [req EXCEPT ![q] = r]
  BY <1>1 DEF CacheInserted
<1>3. after = [st |-> after.st, ids |-> after.ids, fill |-> after.fill, row |-> after.row,
               plen |-> after.plen, last |-> after.last]
  BY DEF ReqShape
<1>4. r = [after EXCEPT !.row = w, !.plen = m.len, !.last = m.last]
  OBVIOUS
<1> HIDE DEF r, w
<1>5. r.st = after.st /\ r.ids = after.ids /\ r.fill = after.fill
  BY ONLY <1>3, <1>4
<1> QED
  BY <1>2, <1>5

\* The status a request has after its prefill, chunk or token is processed.
LEMMA ProcessChunks ==
    ASSUME LockInv, ChunkInv, NEW q \in Request,
           ProcessPrefill(q) \/ ProcessDecode(q) \/ CacheChunkedReq(q)
    PROVE  ChunkInv'
<1>0. ReqOK /\ ReqIs(req[q]) /\ DOMAIN req = Request
      /\ req[q] = [st |-> req[q].st, ids |-> req[q].ids, fill |-> req[q].fill,
                   row |-> req[q].row, plen |-> req[q].plen, last |-> req[q].last]
  BY DEF LockInv, ReqOK, ReqIs, ReqShape
<1>1. req[q].st \in {"prefill", "decode", "chunked"}
  BY DEF ProcessPrefill, ProcessDecode, CacheChunkedReq
<1>2. CASE CacheFinishedReq(q)
  <2>1. req' = [req EXCEPT ![q] = NewReq(q)] /\ UNCHANGED chunked_prefill_size
    BY <1>2 DEF CacheFinishedReq
  <2>2. NewReq(q).st = "idle" /\ ~InChunksReq(NewReq(q))
    BY NewReqIs DEF InChunksReq
  <2> QED
    BY <1>1, <2>1, <2>2, QuietReqChunks
<1>3. ASSUME NEW r, r.st \notin {"admitted", "prefill", "chunked", "cached"},
             req' = [req EXCEPT ![q] = r], UNCHANGED chunked_prefill_size
      PROVE  ChunkInv'
  <2>1. ~InChunksReq(r) /\ r.st # "admitted"
    BY <1>3 DEF InChunksReq
  <2> QED
    BY <1>1, <1>3, <2>1, QuietReqChunks
<1>4. CASE ProcessPrefill(q) /\ ~CacheFinishedReq(q)
  <2>1. CASE Truncated(q) /\ req' = [req EXCEPT ![q].st = "chunked"]
             /\ UNCHANGED <<tree, pools, policy>>
    <3> DEFINE r == [req[q] EXCEPT !.st = "chunked"]
    <3>1. req' = [req EXCEPT ![q] = r] /\ UNCHANGED chunked_prefill_size
      BY <1>0, <2>1 DEF policy
    <3>2. r.st = "chunked"
      BY <1>0
    <3>3. InChunksReq(req[q])
      BY <1>4, <2>1 DEF ProcessPrefill, InChunksReq, Truncated
    <3> HIDE DEF r
    <3> QED
      BY <1>1, <3>1, <3>2, <3>3, QuietReqChunks
  <2>2. CASE \E t \in Token : CacheUnfinishedReq(q, [req[q] EXCEPT !.st = "prefilled",
                                !.fill = 0, !.ids = Append(req[q].ids, t)])
    <3>1. PICK t \in Token : CacheUnfinishedReq(q, [req[q] EXCEPT !.st = "prefilled",
                                !.fill = 0, !.ids = Append(req[q].ids, t)])
      BY <2>2
    <3> DEFINE after == [req[q] EXCEPT !.st = "prefilled", !.fill = 0,
                                       !.ids = Append(req[q].ids, t)]
    <3>2. after.st = "prefilled"
      BY <1>0
    <3>3. ReqShape(after)
      <4>1. t \in Nat
        BY CacheAssumption
      <4> QED
        BY <1>0, <4>1, PrefilledAfter DEF AfterOK
    <3>4. UNCHANGED chunked_prefill_size
      BY <3>1 DEF CacheUnfinishedReq
    <3> HIDE DEF after
    <3>5. CacheUnfinishedReq(q, after)
      BY <3>1 DEF after
    <3>6. PICK r : req' = [req EXCEPT ![q] = r] /\ r.st = after.st
      BY <3>3, <3>5, UnfinishedReq
    <3> QED
      BY <1>3, <3>2, <3>4, <3>6
  <2> QED
    BY <1>4, <2>1, <2>2 DEF ProcessPrefill
<1>5. CASE ProcessDecode(q) /\ ~CacheFinishedReq(q)
  <2>1. PICK t \in Token : req' = [req EXCEPT ![q].st = "running", ![q].ids = Append(@, t)]
    BY <1>5 DEF ProcessDecode
  <2> DEFINE r == [req[q] EXCEPT !.st = "running", !.ids = Append(req[q].ids, t)]
  <2>2. req' = [req EXCEPT ![q] = r] /\ UNCHANGED chunked_prefill_size
    BY <1>0, <1>5, <2>1 DEF ProcessDecode, policy
  <2>3. r.st = "running"
    BY <1>0
  <2> HIDE DEF r
  <2> QED
    BY <1>3, <2>2, <2>3
<1>6. CASE CacheChunkedReq(q)
  <2> DEFINE after == [req[q] EXCEPT !.st = "cached"]
  <2>1. CacheUnfinishedReq(q, after) /\ UNCHANGED chunked_prefill_size
    BY <1>6 DEF CacheChunkedReq, CacheUnfinishedReq
  <2>2. after.st = "cached"
    BY <1>0
  <2>3. ReqShape(after)
    BY <1>0, CachedAfter DEF AfterOK
  <2> HIDE DEF after
  <2>4. PICK r : req' = [req EXCEPT ![q] = r] /\ r.st = after.st
    BY <2>1, <2>3, UnfinishedReq
  <2>5. InChunksReq(req[q])
    BY <1>6 DEF CacheChunkedReq, InChunksReq
  <2> QED
    BY <1>1, <2>1, <2>2, <2>4, <2>5, QuietReqChunks
<1> QED
  BY <1>2, <1>4, <1>5, <1>6

\* What the launch of a batch does to a request.
LEMMA LaunchReqFields ==
    ASSUME NEW T, NEW D, NEW pool, NEW total, NEW rows, NEW st,
           Launch(T, D, pool, total, rows, st), NEW q \in Request, ReqShape(req[q])
    PROVE  /\ req'[q].ids = req[q].ids /\ req'[q].fill = req[q].fill
           /\ req'[q].plen = req[q].plen /\ req'[q].last = req[q].last
           /\ req'[q].row = IF q \in DOMAIN rows THEN rows[q] ELSE req[q].row
           /\ req'[q].st = IF q \in DOMAIN rows THEN st
                           ELSE IF req[q].st = "retracted" THEN "waiting"
                           ELSE IF req[q].st = "prefilled" THEN "running"
                           ELSE req[q].st
<1>1. req[q] = [st |-> req[q].st, ids |-> req[q].ids, fill |-> req[q].fill,
                row |-> req[q].row, plen |-> req[q].plen, last |-> req[q].last]
  BY DEF ReqShape
<1>2. req'[q] = LaunchReq(q, rows, st)
  BY DEF Launch, Merge, LaunchReq
<1>3. CASE q \in DOMAIN rows
  <2>1. req'[q] = [req[q] EXCEPT !.row = rows[q], !.st = st]
    BY <1>2, <1>3 DEF LaunchReq
  <2> QED
    BY <1>1, <1>3, <2>1
<1>4. CASE q \notin DOMAIN rows
  <2>1. CASE req[q].st = "retracted"
    <3>1. req'[q] = [req[q] EXCEPT !.st = "waiting"]
      BY <1>2, <1>4, <2>1 DEF LaunchReq
    <3> QED
      BY <1>1, <1>4, <2>1, <3>1
  <2>2. CASE req[q].st = "prefilled"
    <3>1. req'[q] = [req[q] EXCEPT !.st = "running"]
      BY <1>2, <1>4, <2>2 DEF LaunchReq
    <3> QED
      BY <1>1, <1>4, <2>2, <3>1
  <2>3. CASE req[q].st \notin {"retracted", "prefilled"}
    BY <1>2, <1>4, <2>3 DEF LaunchReq
  <2> QED
    BY <2>1, <2>2, <2>3
<1> QED
  BY <1>3, <1>4

\* A launch keeps ChunkInv.
LEMMA LaunchChunks ==
    ASSUME LockInv, ChunkInv, NEW T, NEW fr, NEW need, NEW st \in {"prefill", "decode"},
           DOMAIN need \subseteq Request,
           AllocTokenSlots(T, fr, need, st), UNCHANGED chunked_prefill_size,
           \/ st = "prefill" /\ DOMAIN need = In({"admitted"})
           \/ st = "decode" /\ DOMAIN need = DecodeBatch
    PROVE  ChunkInv'
<1>0. \A q \in Request : ReqShape(req[q])
  BY DEF LockInv, ReqOK, ReqIs
<1>1. PICK D, pool, total, rows :
         DOMAIN rows = DOMAIN need /\ Launch(T, D, pool, total, rows, st)
  BY AllocLaunch, RowsDomain
<1>3. \A q \in Request :
         /\ req'[q].ids = req[q].ids /\ req'[q].fill = req[q].fill
         /\ req'[q].plen = req[q].plen
         /\ req'[q].st = IF q \in DOMAIN rows THEN st
                         ELSE IF req[q].st = "retracted" THEN "waiting"
                         ELSE IF req[q].st = "prefilled" THEN "running"
                         ELSE req[q].st
  BY <1>0, <1>1, LaunchReqFields
<1>4. CASE st = "prefill" /\ DOMAIN need = In({"admitted"})
  <2>1. \A q \in Request : q \in DOMAIN rows <=> req[q].st = "admitted"
    BY <1>1, <1>4 DEF In
  <2>2. \A q \in Request : req'[q].st # "admitted"
    BY <1>3, <1>4, <2>1
  <2>3. \A q \in Request : InChunksReq(req'[q]) => InChunksReq(req[q])
    BY <1>3, <1>4, <2>1 DEF InChunksReq
  <2> QED
    BY <2>2, <2>3, QuietChunks
<1>5. CASE st = "decode" /\ DOMAIN need = DecodeBatch
  <2>1. \A q \in Request : q \in DOMAIN rows <=> req[q].st \in {"prefilled", "running"}
    BY <1>1, <1>5 DEF DecodeBatch, In
  <2>2. \A q \in Request : req'[q].st = "admitted" <=> req[q].st = "admitted"
    BY <1>3, <1>5, <2>1
  <2>3. \A q \in Request : InChunksReq(req'[q]) => InChunksReq(req[q])
    BY <1>3, <1>5, <2>1 DEF InChunksReq
  <2> QED
    BY <1>3, <2>2, <2>3, QuietChunks
<1> QED
  BY <1>4, <1>5

\* Preparing a batch keeps ChunkInv.
LEMMA LaunchesChunks ==
    ASSUME LockInv, ChunkInv,
           PrepareForExtend \/ PrepareForDecode \/ PrepareForDecodeAfterRetract
    PROVE  ChunkInv'
<1>0. UNCHANGED chunked_prefill_size
  BY DEF PrepareForExtend, PrepareForDecode, PrepareForDecodeAfterRetract, policy
<1>1. CASE PrepareForExtend
  <2> DEFINE need == [q \in In({"admitted"}) |-> ExtendLen(q)]
  <2>1. AllocTokenSlots(tree, free, need, "prefill")
    BY <1>1 DEF PrepareForExtend
  <2>2. DOMAIN need = In({"admitted"}) /\ DOMAIN need \subseteq Request
    BY DEF In
  <2> HIDE DEF need
  <2> QED
    BY <1>0, <2>1, <2>2, LaunchChunks
<1>2. ASSUME NEW T, NEW fr, AllocTokenSlots(T, fr, [q \in DecodeBatch |-> 1], "decode")
      PROVE  ChunkInv'
  <2> DEFINE need == [q \in DecodeBatch |-> 1]
  <2>1. AllocTokenSlots(T, fr, need, "decode")
    BY <1>2
  <2>2. DOMAIN need = DecodeBatch /\ DOMAIN need \subseteq Request
    BY DecodeBatchHeld
  <2> HIDE DEF need
  <2> QED
    BY <1>0, <2>1, <2>2, LaunchChunks
<1> QED
  BY <1>1, <1>2 DEF PrepareForDecode, PrepareForDecodeAfterRetract

\* retract_decode keeps ChunkInv.
LEMMA RetractChunks ==
    ASSUME LockInv, ChunkInv, NEW q \in Request, RetractDecode(q)
    PROVE  ChunkInv'
<1>0. ReqOK /\ DOMAIN req = Request /\ req[q].st # "admitted"
  BY DEF LockInv, ReqOK, RetractDecode, DecodeBatch, In
<1> DEFINE r == [NewReq(q) EXCEPT !.st = "retracted", !.ids = req[q].ids]
<1>1. req' = [Merge(req) EXCEPT ![q] = r] /\ UNCHANGED chunked_prefill_size
  BY DEF RetractDecode, RetractReq, policy
<1>2. r.st = "retracted"
  <2>1. req[q].ids \in Seq(Nat)
    BY <1>0 DEF ReqOK, ReqIs
  <2>2. r = [st |-> "retracted", ids |-> req[q].ids, fill |-> 0, row |-> <<>>, plen |-> 0,
             last |-> NoNode]
    BY <2>1, RetractedReqIs
  <2> HIDE DEF r
  <2> QED
    BY <2>2
<1> HIDE DEF r
<1>3. req'[q] = r /\ \A p \in Request : p # q => req'[p] = Merge(req)[p]
  <2>1. Merge(req) = [p \in Request |-> Merge(req)[p]]
    BY DEF Merge
  <2> QED
    BY <1>1, <2>1
<1>4. ASSUME NEW p \in Request, p # q
      PROVE  /\ InChunksReq(req'[p]) => InChunksReq(req[p])
             /\ req'[p].st = "admitted" <=> req[p].st = "admitted"
             /\ req[p].st = "admitted" => req'[p] = req[p]
  <2>1. CASE req[p].st = "prefilled"
    <3>1. req'[p] = [req[p] EXCEPT !.st = "running"]
      BY <1>3, <1>4, <2>1 DEF Merge
    <3>2. req[p] = [st |-> req[p].st, ids |-> req[p].ids, fill |-> req[p].fill,
                    row |-> req[p].row, plen |-> req[p].plen, last |-> req[p].last]
      BY <1>0 DEF ReqOK, ReqIs, ReqShape
    <3>3. req'[p].st = "running"
      BY <3>1, <3>2
    <3> QED
      BY <2>1, <3>3 DEF InChunksReq
  <2>2. CASE req[p].st # "prefilled"
    BY <1>3, <1>4, <2>2 DEF Merge
  <2> QED
    BY <2>1, <2>2
<1>5. ~InChunksReq(req'[q]) /\ req'[q].st # "admitted"
  BY <1>2, <1>3 DEF InChunksReq
<1>6. \A p \in Request : InChunksReq(req'[p]) => InChunksReq(req[p])
  BY <1>4, <1>5
<1>7. \A p \in Request : /\ req'[p].st = "admitted" <=> req[p].st = "admitted"
                         /\ req[p].st = "admitted" => req'[p] = req[p]
  BY <1>0, <1>4, <1>5
<1> QED
  BY <1>1, <1>6, <1>7, QuietChunks

\* ChunkInv is inductive next to LockInv.
LEMMA StepChunks ==
    ASSUME LockInv, LockInv', ChunkInv, [Next]_vars
    PROVE  ChunkInv'
<1>1. ASSUME NEW q \in Request, Arrive(q) \/ AbortWaiting(q) PROVE ChunkInv'
  <2>0. DOMAIN req = Request /\ UNCHANGED chunked_prefill_size
        /\ req[q] = [st |-> req[q].st, ids |-> req[q].ids, fill |-> req[q].fill,
                     row |-> req[q].row, plen |-> req[q].plen, last |-> req[q].last]
    BY <1>1 DEF LockInv, ReqOK, ReqIs, ReqShape, Arrive, AbortWaiting, policy
  <2> DEFINE r == IF Arrive(q) THEN [req[q] EXCEPT !.st = "waiting"] ELSE NewReq(q)
  <2>1. req' = [req EXCEPT ![q] = r] /\ req[q].st # "admitted"
    BY <1>1, <2>0 DEF Arrive, AbortWaiting
  <2>2. r.st \in {"idle", "waiting"}
    BY <2>0, NewReqIs
  <2> HIDE DEF r
  <2>3. ~InChunksReq(r) /\ r.st # "admitted"
    BY <2>2 DEF InChunksReq
  <2> QED
    BY <2>0, <2>1, <2>3, QuietReqChunks
<1>2. ASSUME NEW q \in Request, ProcessPrefill(q) \/ ProcessDecode(q) \/ CacheChunkedReq(q)
      PROVE  ChunkInv'
  BY <1>2, ProcessChunks
<1>3. ASSUME NEW q \in Request, AddChunkedReq(q) PROVE ChunkInv'
  BY <1>3, AddChunkedChunks
<1>4. ASSUME NEW q \in Request, AddOneReq(q) PROVE ChunkInv'
  BY <1>4, AddOneChunks
<1>5. ASSUME NEW q \in Request, RetractDecode(q) PROVE ChunkInv'
  BY <1>5, RetractChunks
<1>6. CASE PrepareForExtend \/ PrepareForDecode \/ PrepareForDecodeAfterRetract
  BY <1>6, LaunchesChunks
<1>7. CASE \/ \E x \in DOMAIN tree.nd : DetectorPromotes(x)
           \/ \E u \in User : PromoteToBudgeted(u)
           \/ \E o \in Object : Revoke(o)
           \/ UNCHANGED vars
  <2>1. UNCHANGED <<req, chunked_prefill_size>>
    BY <1>7 DEF DetectorPromotes, PromoteToBudgeted, Revoke, vars, policy
  <2> QED
    BY <2>1, QuietChunks
<1>8. CASE FlushCache
  <2>1. UNCHANGED chunked_prefill_size
        /\ req' = [q \in Request |-> IF req[q].st = "prefilled"
                                     THEN [NewReq(q) EXCEPT !.st = "lost"] ELSE req[q]]
    BY <1>8 DEF FlushCache
  <2>2. \A q \in Request : [NewReq(q) EXCEPT !.st = "lost"].st = "lost"
    BY DEF NewReq
  <2>3. \A q \in Request : InChunksReq(req'[q]) => InChunksReq(req[q])
    BY <2>1, <2>2 DEF InChunksReq
  <2>4. \A q \in Request : req'[q].st # "admitted"
    BY <1>8, <2>1, <2>2 DEF FlushCache, Receiving, In
  <2> QED
    BY <2>1, <2>3, <2>4, QuietChunks
<1> QED
  BY <1>1, <1>2, <1>3, <1>4, <1>5, <1>6, <1>7, <1>8 DEF Next

\* get_new_batch_prefill never asserts: at most one prompt is prefilled in chunks
\* at a time, for every --chunked-prefill-size.
THEOREM OneChunked == ~FlushMidChunk => (Spec => []OneChunkedReq)
<1> SUFFICES ASSUME ~FlushMidChunk PROVE Spec => []OneChunkedReq
  OBVIOUS
<1>1. Init => LockInv /\ ChunkInv
  <2> SUFFICES ASSUME Init PROVE ChunkInv
    BY InitLocks
  <2>1. \A q \in Request : req[q].st = "idle"
    BY NewReqIs DEF Init
  <2> QED
    BY <2>1, InChunksFacts DEF ChunkInv, InChunksReq, In
<1>2. LockInv /\ ChunkInv /\ [Next]_vars => LockInv' /\ ChunkInv'
  BY StepLocks, StepChunks
<1>3. LockInv /\ ChunkInv => OneChunkedReq
  <2> SUFFICES ASSUME ChunkInv PROVE Cardinality(InChunks) <= 1
    BY DEF OneChunkedReq, InChunks
  <2>1. CASE InChunks = {}
    <3>1. Cardinality(InChunks) = 0
      BY <2>1, FS_EmptySet
    <3> QED
      BY <3>1
  <2>2. CASE InChunks # {}
    <3>1. PICK q : q \in InChunks
      BY <2>2
    <3>2. InChunks = {q}
      BY <3>1 DEF ChunkInv
    <3>3. Cardinality({q}) = 1
      BY FS_Singleton
    <3>4. Cardinality(InChunks) = 1
      BY <3>2, <3>3, Zenon
    <3> QED
      BY <3>4
  <2> QED
    BY <2>1, <2>2
<1> QED
  BY <1>1, <1>2, <1>3, PTL DEF Spec

-----------------------------------------------------------------------------
(* Revoked objects *)

\* A lookup never returns a node of a revoked object.
LEMMA NotRevoked ==
    ASSUME revoked \subseteq Object, NEW C, CacheShape(C), TreeOK(C.tree), NEW q \in Request,
           NEW key \in Seq(Nat), NEW m, m = MatchPrefix(C, Meta[q].user, key, Meta[q].auth)
    PROVE  m.last = NoNode \/ m.last[1] \notin revoked
<1>1. Meta[q].user \in User \cup {NoUser} /\ User \cap Object = {}
  BY CacheAssumption
<1>2. MatchOf(C, key, m)
  BY ONLY <1>1, MatchPrefixFacts, CacheShape(C), TreeOK(C.tree), key \in Seq(Nat),
          m = MatchPrefix(C, Meta[q].user, key, Meta[q].auth)
<1>3. m.len # 0 => /\ Meta[q].user \in User
                   /\ \/ m.last[1] \in (C.installed \cup {Meta[q].auth}) \ revoked
                      \/ m.last[1] = Meta[q].user
                      \/ Mode = "balanced" /\ m.last[1] \in User
  BY <1>1, MatchPrefixFacts
<1>4. m.len = 0 => m.last = NoNode
  BY <1>2 DEF MatchOf
<1> QED
  BY <1>1, <1>3, <1>4

\* The node a request holds stays the same, is dropped, or is not of a revoked object.
ServedOK(q) ==
    req'[q].last \notin {req[q].last, NoNode} => req'[q].last[1] \notin revoked

\* A step that moves no request onto a revoked object is safe.
LEMMA UpdateServed ==
    ASSUME ReqOK, NEW q \in Request, NEW r, req' = [req EXCEPT ![q] = r],
           r.last \in {req[q].last, NoNode} \/ r.last[1] \notin revoked
    PROVE  \A p \in Request : ServedOK(p)
<1>1. DOMAIN req = Request
  BY DEF ReqOK
<1>2. req'[q] = r /\ \A p \in Request : p # q => req'[p] = req[p]
  BY <1>1
<1> QED
  BY <1>2 DEF ServedOK

\* add_one_req serves no revoked object.
LEMMA AddOneServed ==
    ASSUME LockInv, revoked \subseteq Object, NEW q \in Request, AddOneReq(q)
    PROVE  \A p \in Request : ServedOK(p)
<1>0. ReqOK /\ DOMAIN req = Request /\ req[q].ids \in Seq(Nat)
      /\ req[q] = [st |-> req[q].st, ids |-> req[q].ids, fill |-> req[q].fill,
                   row |-> req[q].row, plen |-> req[q].plen, last |-> req[q].last]
  BY DEF LockInv, ReqOK, ReqIs, ReqShape
<1>1. Front(req[q].ids) \in Seq(Nat)
  BY <1>0, FrontFacts
<1>2. PICK m, locked, total :
         /\ m = MatchPrefix(Cache, Meta[q].user, Front(req[q].ids), Meta[q].auth)
         /\ AddMatched(q, m, locked, total)
  BY DEF AddOneReq
<1>3. m.last = NoNode \/ m.last[1] \notin revoked
  <2> DEFINE key == Front(req[q].ids)
  <2> HIDE DEF key
  <2>1. key \in Seq(Nat) /\ m = MatchPrefix(Cache, Meta[q].user, key, Meta[q].auth)
    BY <1>1, <1>2 DEF key
  <2>2. CacheShape(Cache) /\ TreeOK(Cache.tree)
    BY CacheIs DEF LockInv
  <2> QED
    BY <2>1, <2>2, NotRevoked
<1>4. CASE UNCHANGED req
  BY <1>4 DEF ServedOK
<1>5. CASE ~UNCHANGED req
  <2> DEFINE f == Min({Len(req[q].ids), m.len + RemChunkTokens})
             w == MatchedSlots(m)
             r == [req[q] EXCEPT !.st = "admitted", !.fill = f, !.row = w, !.plen = m.len,
                                 !.last = m.last]
  <2>1. req' = [req EXCEPT ![q] = r]
    BY ONLY <1>0, <1>2, <1>5 DEF AddMatched
  <2>2. r.last = m.last
    <3> HIDE DEF f, w
    <3> QED
      BY <1>0
  <2> HIDE DEF r
  <2> QED
    BY <1>0, <1>3, <2>1, <2>2, UpdateServed
<1> QED
  BY <1>4, <1>5

\* cache_unfinished_req serves no revoked object.
LEMMA UnfinishedServed ==
    ASSUME LockInv, revoked \subseteq Object, NEW q \in Request, NEW after, ReqShape(after),
           CacheUnfinishedReq(q, after)
    PROVE  \A p \in Request : ServedOK(p)
<1>0. ReqOK /\ FillIds(q) \in Seq(Nat) /\ CacheShape(Cache) /\ TreeOK(Cache.tree)
  BY FillFacts, CacheIs DEF LockInv
<1>1. \E i, m : /\ i = Insert(Cache, q, FillIds(q), req[q].row)
                /\ m = MatchPrefix(i.C, Meta[q].user, FillIds(q), Meta[q].auth)
                /\ CacheInserted(q, after, i, m)
  BY DEF CacheUnfinishedReq
<1>2. PICK i, m : /\ i = Insert(Cache, q, FillIds(q), req[q].row)
                  /\ m = MatchPrefix(i.C, Meta[q].user, FillIds(q), Meta[q].auth)
                  /\ CacheInserted(q, after, i, m)
  BY <1>1
<1>3. CacheShape(i.C) /\ TreeOK(i.C.tree)
  BY <1>0, <1>2, InsertLocks
<1>4. m.last = NoNode \/ m.last[1] \notin revoked
  <2> DEFINE C == i.C
             key == FillIds(q)
  <2>1. /\ CacheShape(C) /\ TreeOK(C.tree) /\ key \in Seq(Nat)
        /\ m = MatchPrefix(C, Meta[q].user, key, Meta[q].auth)
    BY ONLY <1>0, <1>2, <1>3
  <2> HIDE DEF C, key
  <2> QED
    BY <2>1, NotRevoked
<1> DEFINE w == [n \in DOMAIN req[q].row |->
                    IF n \in req[q].plen + 1 .. m.len THEN MatchedSlots(m)[n]
                    ELSE req[q].row[n]]
           r == [after EXCEPT !.row = w, !.plen = m.len, !.last = m.last]
<1>5. req' = [req EXCEPT ![q] = r]
  BY <1>2 DEF CacheInserted
<1>6. after = [st |-> after.st, ids |-> after.ids, fill |-> after.fill, row |-> after.row,
               plen |-> after.plen, last |-> after.last]
  BY DEF ReqShape
<1>7. r.last = m.last
  <2> HIDE DEF w
  <2> QED
    BY <1>6
<1> HIDE DEF r
<1> QED
  BY <1>0, <1>4, <1>5, <1>7, UpdateServed

\* Processing a batch result serves no revoked object.
LEMMA ProcessServed ==
    ASSUME LockInv, revoked \subseteq Object, NEW q \in Request,
           ProcessPrefill(q) \/ ProcessDecode(q) \/ CacheChunkedReq(q)
    PROVE  \A p \in Request : ServedOK(p)
<1>0. ReqOK /\ DOMAIN req = Request
      /\ req[q] = [st |-> req[q].st, ids |-> req[q].ids, fill |-> req[q].fill,
                   row |-> req[q].row, plen |-> req[q].plen, last |-> req[q].last]
  BY DEF LockInv, ReqOK, ReqIs, ReqShape
<1>1. CASE CacheFinishedReq(q)
  <2>1. req' = [req EXCEPT ![q] = NewReq(q)] /\ NewReq(q).last = NoNode
    BY <1>1 DEF CacheFinishedReq, NewReq
  <2> QED
    BY <1>0, <2>1, UpdateServed
<1>2. CASE ProcessPrefill(q) /\ ~CacheFinishedReq(q)
  <2>1. CASE req' = [req EXCEPT ![q].st = "chunked"]
    <3> DEFINE r == [req[q] EXCEPT !.st = "chunked"]
    <3>1. req' = [req EXCEPT ![q] = r] /\ r.last = req[q].last
      BY <1>0, <2>1
    <3> HIDE DEF r
    <3> QED
      BY <1>0, <3>1, UpdateServed
  <2>2. CASE \E t \in Token : CacheUnfinishedReq(q, [req[q] EXCEPT !.st = "prefilled",
                                !.fill = 0, !.ids = Append(req[q].ids, t)])
    <3>1. PICK t \in Token : CacheUnfinishedReq(q, [req[q] EXCEPT !.st = "prefilled",
                                !.fill = 0, !.ids = Append(req[q].ids, t)])
      BY <2>2
    <3> DEFINE after == [req[q] EXCEPT !.st = "prefilled", !.fill = 0,
                                       !.ids = Append(req[q].ids, t)]
    <3>2. t \in Nat
      BY CacheAssumption
    <3>3. ReqShape(after) /\ CacheUnfinishedReq(q, after)
      BY <1>0, <3>1, <3>2, PrefilledAfter DEF AfterOK
    <3> HIDE DEF after
    <3> QED
      BY <3>3, UnfinishedServed
  <2> QED
    BY <1>2, <2>1, <2>2 DEF ProcessPrefill
<1>3. CASE ProcessDecode(q) /\ ~CacheFinishedReq(q)
  <2>1. PICK t \in Token : req' = [req EXCEPT ![q].st = "running", ![q].ids = Append(@, t)]
    BY <1>3 DEF ProcessDecode
  <2> DEFINE r == [req[q] EXCEPT !.st = "running", !.ids = Append(req[q].ids, t)]
  <2>2. req' = [req EXCEPT ![q] = r] /\ r.last = req[q].last
    BY <1>0, <2>1
  <2> HIDE DEF r
  <2> QED
    BY <1>0, <2>2, UpdateServed
<1>4. CASE CacheChunkedReq(q)
  <2> DEFINE after == [req[q] EXCEPT !.st = "cached"]
  <2>1. ReqShape(after) /\ CacheUnfinishedReq(q, after)
    BY <1>0, <1>4, CachedAfter DEF CacheChunkedReq, AfterOK
  <2> HIDE DEF after
  <2> QED
    BY <2>1, UnfinishedServed
<1> QED
  BY <1>1, <1>2, <1>3, <1>4

\* No step serves a revoked object.
LEMMA StepServed ==
    ASSUME LockInv, revoked \subseteq Object, [Next]_vars
    PROVE  \A p \in Request : ServedOK(p)
<1>0. ReqOK /\ DOMAIN req = Request
  BY DEF LockInv, ReqOK
<1>s. ASSUME NEW q \in Request
      PROVE  req[q] = [st |-> req[q].st, ids |-> req[q].ids, fill |-> req[q].fill,
                       row |-> req[q].row, plen |-> req[q].plen, last |-> req[q].last]
             /\ req[q].ids \in Seq(Nat)
  BY <1>0 DEF ReqOK, ReqIs, ReqShape
<1>1. ASSUME NEW q \in Request, Arrive(q) \/ AbortWaiting(q) \/ AddChunkedReq(q)
      PROVE  \A p \in Request : ServedOK(p)
  <2>1. CASE Arrive(q)
    <3> DEFINE r == [req[q] EXCEPT !.st = "waiting"]
    <3>1. req' = [req EXCEPT ![q] = r] /\ r.last = req[q].last
      BY <1>0, <1>s, <2>1 DEF Arrive
    <3> HIDE DEF r
    <3> QED
      BY <1>0, <3>1, UpdateServed
  <2>2. CASE AbortWaiting(q)
    <3>1. req' = [req EXCEPT ![q] = NewReq(q)] /\ NewReq(q).last = NoNode
      BY <2>2 DEF AbortWaiting, NewReq
    <3> QED
      BY <1>0, <3>1, UpdateServed
  <2>3. CASE AddChunkedReq(q)
    <3> DEFINE f == Min({Len(req[q].ids), req[q].plen + chunked_prefill_size})
               w == Take(req[q].row, req[q].plen)
               r == [req[q] EXCEPT !.st = "admitted", !.fill = f, !.row = w]
    <3>1. req' = [req EXCEPT ![q] = r]
      BY <1>0, <2>3 DEF AddChunkedReq
    <3> HIDE DEF f, w
    <3>2. r.last = req[q].last
      BY <1>s
    <3> HIDE DEF r
    <3> QED
      BY <1>0, <3>1, <3>2, UpdateServed
  <2> QED
    BY <1>1, <2>1, <2>2, <2>3
<1>2. ASSUME NEW q \in Request, ProcessPrefill(q) \/ ProcessDecode(q) \/ CacheChunkedReq(q)
      PROVE  \A p \in Request : ServedOK(p)
  BY <1>2, ProcessServed
<1>3. ASSUME NEW q \in Request, AddOneReq(q) PROVE \A p \in Request : ServedOK(p)
  BY <1>3, AddOneServed
<1>4. ASSUME NEW q \in Request, RetractDecode(q) PROVE \A p \in Request : ServedOK(p)
  <2> DEFINE r == [NewReq(q) EXCEPT !.st = "retracted", !.ids = req[q].ids]
  <2>1. req' = [Merge(req) EXCEPT ![q] = r]
    BY <1>4 DEF RetractDecode, RetractReq
  <2>2. r.last = NoNode
    BY DEF NewReq
  <2> HIDE DEF r
  <2>3. req'[q] = r /\ \A p \in Request : p # q => req'[p] = Merge(req)[p]
    <3>1. Merge(req) = [p \in Request |-> Merge(req)[p]]
      BY DEF Merge
    <3> QED
      BY <2>1, <3>1
  <2>4. \A p \in Request : p # q => req'[p].last = req[p].last
    BY <1>0, <2>3, MergedReqIs
  <2> QED
    BY <2>2, <2>3, <2>4 DEF ServedOK
<1>5. CASE PrepareForExtend \/ PrepareForDecode \/ PrepareForDecodeAfterRetract
  <2>1. PICK T, fr, need, st : AllocTokenSlots(T, fr, need, st)
    BY <1>5 DEF PrepareForExtend, PrepareForDecode, PrepareForDecodeAfterRetract
  <2>2. PICK D, pool, total, rows : Launch(T, D, pool, total, rows, st)
    BY <2>1, AllocLaunch
  <2>3. \A p \in Request : ReqShape(req[p])
    BY <1>0 DEF ReqOK, ReqIs
  <2>4. \A p \in Request : req'[p].last = req[p].last
    BY <2>2, <2>3, LaunchReqFields
  <2> QED
    BY <2>4 DEF ServedOK
<1>6. CASE \/ \E x \in DOMAIN tree.nd : DetectorPromotes(x)
           \/ \E u \in User : PromoteToBudgeted(u)
           \/ \E o \in Object : Revoke(o)
           \/ UNCHANGED vars
  <2>1. UNCHANGED req
    BY <1>6 DEF DetectorPromotes, PromoteToBudgeted, Revoke, vars
  <2> QED
    BY <2>1 DEF ServedOK
<1>7. CASE FlushCache
  <2>1. req' = [q \in Request |-> IF req[q].st = "prefilled"
                                  THEN [NewReq(q) EXCEPT !.st = "lost"] ELSE req[q]]
    BY <1>7 DEF FlushCache
  <2>2. \A q \in Request : [NewReq(q) EXCEPT !.st = "lost"].last = NoNode
    BY DEF NewReq
  <2> QED
    BY <2>1, <2>2 DEF ServedOK
<1> QED
  BY <1>1, <1>2, <1>3, <1>4, <1>5, <1>6, <1>7 DEF Next

\* Only objects are ever revoked.
LEMMA RevokedObjects ==
    ASSUME revoked \subseteq Object, [Next]_vars
    PROVE  revoked' \subseteq Object
<1>1. ASSUME NEW q \in Request, Arrive(q) \/ AbortWaiting(q) \/ AddChunkedReq(q)
                                \/ RetractDecode(q) \/ AddOneReq(q)
      PROVE  UNCHANGED revoked
  BY ONLY <1>1, Zenon DEF Arrive, AbortWaiting, AddChunkedReq, RetractDecode, AddOneReq, policy
<1>2. ASSUME NEW q \in Request, ProcessPrefill(q) \/ ProcessDecode(q) \/ CacheChunkedReq(q)
      PROVE  UNCHANGED revoked
  BY ONLY <1>2, Zenon DEF ProcessPrefill, ProcessDecode, CacheChunkedReq, CacheFinishedReq,
              CacheUnfinishedReq, policy
<1>3. CASE PrepareForExtend \/ PrepareForDecode \/ PrepareForDecodeAfterRetract
  BY <1>3 DEF PrepareForExtend, PrepareForDecode, PrepareForDecodeAfterRetract, policy
<1>4. CASE \/ \E x \in DOMAIN tree.nd : DetectorPromotes(x)
           \/ \E u \in User : PromoteToBudgeted(u)
           \/ \E o \in Object : Revoke(o)
           \/ UNCHANGED vars
           \/ FlushCache
  BY <1>4 DEF DetectorPromotes, PromoteToBudgeted, Revoke, vars, policy, FlushCache
<1> QED
  BY <1>1, <1>2, <1>3, <1>4 DEF Next

\* _matching_public_root and install never hand a request a node of an object
\* that is revoked at that moment.
THEOREM RevokedNeverServed == ~FlushMidChunk => (Spec => RevokedUnserved)
<1> SUFFICES ASSUME ~FlushMidChunk PROVE Spec => RevokedUnserved
  OBVIOUS
<1> DEFINE Inv == LockInv /\ revoked \subseteq Object
           Step == \A q \in Request :
                      req'[q].last \notin {req[q].last, NoNode}
                          => req'[q].last[1] \notin revoked
<1>1. Init => Inv
  BY InitLocks DEF Init
<1>2. Inv /\ [Next]_vars => Inv'
  BY StepLocks, RevokedObjects
<1>3. Inv /\ [Next]_vars => [Step]_vars
  BY StepServed DEF ServedOK
<1>4. RevokedUnserved <=> [][Step]_vars
  BY DEF RevokedUnserved
<1> HIDE DEF Inv, Step
<1> QED
  BY <1>1, <1>2, <1>3, <1>4, PTL DEF Spec

-----------------------------------------------------------------------------
(* What a lookup charges and what it leaves alone *)

\* A lookup is the walk in one namespace.
LEMMA MatchInIsWalk ==
    ASSUME NEW C, NEW key, NEW u, NEW final, NEW objects
    PROVE  \E ns : MatchIn(C, u, key, final, objects) = Walk(C, ns, key, u)
<1> DEFINE order == SearchOrder(u, objects)
           walks == Walks(C, order, key, u)
           I == {i \in DOMAIN walks : walks[i].len > 0 \/ i \in final \/ i = Len(walks)}
<1>1. PICK n \in Nat : n > 0 /\ order \in [1..n -> Searched(u, objects)]
  BY SearchOrderFacts
<1> HIDE DEF order
<1>2. DOMAIN walks = 1..n /\ \A i \in 1..n : walks[i] = Walk(C, order[i], key, u)
  BY <1>1 DEF Walks
<1>3. Len(walks) = n
  <2>1. walks = [i \in 1..n |-> Walk(C, order[i], key, u)]
    BY <1>1 DEF Walks
  <2> QED
    BY <2>1, <1>1
<1> HIDE DEF walks
<1>4. n \in I /\ I \subseteq 1..n
  BY <1>1, <1>2, <1>3
<1>5. Min(I) \in I
  <2>1. I \subseteq Nat /\ I # {}
    BY <1>4
  <2> HIDE DEF I
  <2> QED
    BY <2>1, MinFacts
<1>6. Min(I) \in 1..n
  BY <1>4, <1>5
<1>7. MatchIn(C, u, key, final, objects) = walks[Min(I)]
  BY DEF MatchIn, FirstHit, walks, order
<1> HIDE DEF I
<1> QED
  BY <1>2, <1>6, <1>7

\* match_prefix is one walk of the tree, or finds nothing.
LEMMA MatchIsWalk ==
    ASSUME NEW C, CacheShape(C), NEW key, NEW u, NEW auth
    PROVE  LET m == MatchPrefix(C, u, key, auth)
           IN  \/ m.C = C /\ m.len = 0 /\ m.last = NoNode
               \/ \E D, ns : /\ CacheShape(D) /\ D.tree = C.tree /\ D.ledger = C.ledger
                             /\ m = Walk(D, ns, key, u)
<1>1. CASE key = <<>> \/ u = NoUser
  BY <1>1 DEF MatchPrefix
<1>2. CASE key # <<>> /\ u # NoUser /\ InstallOK(auth, key)
  <2> DEFINE D == Install(C, auth)
  <2>1. D.tree = C.tree /\ CacheShape(D) /\ D.ledger = C.ledger
    <3>1. C = [tree |-> C.tree, ledger |-> C.ledger, installed |-> C.installed]
      BY DEF CacheShape
    <3>2. D = [C EXCEPT !.installed = C.installed \cup {auth}]
      BY DEF Install
    <3> HIDE DEF D
    <3> QED
      BY <3>1, <3>2 DEF CacheShape
  <2>2. MatchPrefix(C, u, key, auth) = MatchIn(D, u, key, {1}, {auth})
    BY <1>2 DEF MatchPrefix
  <2> HIDE DEF D
  <2>3. PICK ns : MatchIn(D, u, key, {1}, {auth}) = Walk(D, ns, key, u)
    BY MatchInIsWalk
  <2> QED
    BY <2>1, <2>2, <2>3
<1>3. CASE key # <<>> /\ u # NoUser /\ ~InstallOK(auth, key)
  <2> DEFINE O == MatchingPublicRoot(C, key)
  <2>1. MatchPrefix(C, u, key, auth) = MatchIn(C, u, key, {}, O)
    BY <1>3 DEF MatchPrefix
  <2> HIDE DEF O
  <2>2. PICK ns : MatchIn(C, u, key, {}, O) = Walk(C, ns, key, u)
    BY MatchInIsWalk
  <2> QED
    BY <2>1, <2>2
<1> QED
  BY <1>1, <1>2, <1>3

\* The nodes on a walk lie below one another.
LEMMA RouteFacts ==
    ASSUME NEW T, PlacesOK(T), NEW ns, NEW key \in Seq(Nat), NEW x \in Route(T, ns, key)
    PROVE  /\ x \in DOMAIN T.nd /\ x[1] = ns /\ IsSpot(x)
           /\ ParentLen(T, x) \in Nat /\ ParentLen(T, x) < Len(x[2])
           /\ ParentLen(T, x) < Len(key)
           /\ ParentLen(T, x) < KeyMatch(x[2], key)
           /\ KeyMatch(x[2], key) \in 0..Len(key) /\ KeyMatch(x[2], key) <= Len(x[2])
           /\ \A k \in 0..KeyMatch(x[2], key) : At(x, k) = <<ns, Take(key, k)>>
<1>1. x \in DOMAIN T.nd /\ x[1] = ns /\ ParentLen(T, x) < KeyMatch(x[2], key)
  BY DEF Route, Nodes
<1>2. IsSpot(x) /\ Len(x[2]) \in Nat /\ x[2] \in Seq(Nat)
  BY <1>1, NodeIsPlace, LenType DEF IsSpot
<1>3. ParentLen(T, x) \in Nat /\ ParentLen(T, x) < Len(x[2])
  BY <1>1, ParentFacts
<1> DEFINE n == KeyMatch(x[2], key)
<1>4. n \in 0..Len(key) /\ n <= Len(x[2]) /\ Take(x[2], n) = Take(key, n)
  BY <1>2, KeyMatchFacts
<1>n. ParentLen(T, x) < n
  BY <1>1
<1> HIDE DEF n
<1>5. n \in 0..Len(x[2]) /\ Len(key) \in Nat
  BY <1>2, <1>4
<1>6. ASSUME NEW k \in 0..n PROVE At(x, k) = <<ns, Take(key, k)>>
  <2>1. Take(Take(x[2], n), k) = Take(x[2], k)
    BY <1>2, <1>5, TakeTake
  <2>2. Take(Take(key, n), k) = Take(key, k)
    BY <1>4, TakeTake
  <2> QED
    BY <2>1, <2>2, <1>1, <1>4 DEF At
<1>7. ParentLen(T, x) < Len(key)
  BY <1>3, <1>4, <1>5, <1>n
<1> QED
  BY <1>1, <1>2, <1>3, <1>4, <1>6, <1>7, <1>n DEF n

\* The nodes on the route of a key form a chain.
LEMMA RouteChain ==
    ASSUME NEW T, PlacesOK(T), NEW ns, NEW key \in Seq(Nat),
           NEW x \in Route(T, ns, key), NEW y \in Route(T, ns, key),
           ParentLen(T, x) <= ParentLen(T, y)
    PROVE  Above(x, y)
<1> DEFINE k == ParentLen(T, x) + 1
           z == At(x, k)
<1>1. /\ x \in DOMAIN T.nd /\ IsSpot(x) /\ ParentLen(T, x) \in Nat
      /\ ParentLen(T, x) < KeyMatch(x[2], key) /\ KeyMatch(x[2], key) \in 0..Len(key)
      /\ KeyMatch(x[2], key) <= Len(x[2]) /\ Len(x[2]) \in Nat /\ Len(key) \in Nat
      /\ \A i \in 0..KeyMatch(x[2], key) : At(x, i) = <<ns, Take(key, i)>>
  BY RouteFacts, LenType
<1>2. /\ y \in DOMAIN T.nd /\ IsSpot(y) /\ ParentLen(T, y) \in Nat
      /\ ParentLen(T, y) < KeyMatch(y[2], key) /\ KeyMatch(y[2], key) \in 0..Len(key)
      /\ KeyMatch(y[2], key) <= Len(y[2]) /\ Len(y[2]) \in Nat
      /\ \A i \in 0..KeyMatch(y[2], key) : At(y, i) = <<ns, Take(key, i)>>
  BY RouteFacts, LenType
<1>3. k \in 0..KeyMatch(x[2], key) /\ k \in 0..KeyMatch(y[2], key)
      /\ k \in 0..Len(x[2]) /\ k \in 0..Len(y[2]) /\ k # 0
  <2> DEFINE a == ParentLen(T, x)
             b == ParentLen(T, y)
             c == KeyMatch(x[2], key)
             d == KeyMatch(y[2], key)
  <2>1. /\ a \in Nat /\ b \in Nat /\ Len(key) \in Nat /\ a <= b
        /\ a < c /\ c \in 0..Len(key) /\ c <= Len(x[2]) /\ Len(x[2]) \in Nat
        /\ b < d /\ d \in 0..Len(key) /\ d <= Len(y[2]) /\ Len(y[2]) \in Nat
    BY ONLY <1>1, <1>2, ParentLen(T, x) <= ParentLen(T, y)
  <2> HIDE DEF a, b, c, d
  <2>2. a + 1 \in 0..c /\ a + 1 \in 0..d /\ a + 1 \in 0..Len(x[2]) /\ a + 1 \in 0..Len(y[2])
        /\ a + 1 # 0
    BY ONLY <2>1
  <2> QED
    BY ONLY <2>2 DEF a, c, d
<1>4. z = At(y, k)
  BY <1>1, <1>2, <1>3
<1>k. ParentLen(T, x) < k
  BY <1>1
<1> HIDE DEF k
<1>5. IsPlace(z) /\ Above(z, x) /\ Len(z[2]) = k
  BY <1>1, <1>3, AtFacts
<1>6. Above(z, y)
  <2>1. Above(At(y, k), y)
    BY <1>2, <1>3, AtFacts
  <2> QED
    BY <2>1, <1>4
<1>7. z \in DOMAIN T.pos
  BY <1>1, <1>5, NodeIsPlace DEF PlacesOK
<1> HIDE DEF z
<1>8. Ends(T, z, x)
  BY <1>1, <1>5, <1>7, <1>k, EdgeFacts
<1>9. PICK w \in DOMAIN T.nd : Ends(T, z, w) /\ Above(w, y)
  BY <1>2, <1>6, <1>7, EndsAbove
<1>10. w = x
  BY <1>1, <1>7, <1>8, <1>9 DEF PlacesOK
<1> QED
  BY <1>9, <1>10

LedgerOK(L) == \A fp \in DOMAIN L : L[fp] \in Nat /\ L[fp] <= B

\* reserve_hit for every node a walk charges: the deepest of the nodes with one
\* fingerprint was let through with all the others already counted.
LEMMA ChargeBounded ==
    ASSUME NEW C, TreeOK(C.tree), IsFiniteSet(DOMAIN C.tree.pos), LedgerOK(C.ledger),
           NEW ns, NEW key \in Seq(Nat), NEW u
    PROVE  LedgerOK(Charge(C, PaidIn(C, ns, key, u)))
<1> DEFINE T == C.tree
           route == Route(T, ns, key)
           paid == PaidIn(C, ns, key, u)
           P(fp) == {x \in paid : Edge(T, x) = fp}
           g == [fp \in {Edge(T, x) : x \in paid} |-> ChargedHits(C, fp) + Cardinality(P(fp))]
<1>0. PlacesOK(T) /\ B \in Nat
  BY CacheAssumption DEF TreeOK
<1>1. IsFiniteSet(route) /\ paid \subseteq route
  <2>1. route \subseteq DOMAIN T.pos
    BY <1>0, RouteFacts, NodeIsPlace
  <2>2. paid \subseteq route
    BY DEF PaidIn, ServedIn, Served, Reached
  <2> QED
    BY <2>1, <2>2, FS_Subset
<1>2. \A x \in paid : MustReserve(C, x, u) /\ ~Refused(C, route, x, u)
  BY DEF PaidIn, ServedIn, Served
<1>h. \A fp : ChargedHits(C, fp) \in Nat
  BY DEF ChargedHits, LedgerOK
<1> HIDE DEF paid
<1>3. ASSUME NEW fp, NEW a \in paid, Edge(T, a) = fp
      PROVE  ChargedHits(C, fp) + Cardinality(P(fp)) \in Nat
             /\ ChargedHits(C, fp) + Cardinality(P(fp)) <= B
  <2> DEFINE Q == P(fp)
             L == {ParentLen(T, x) : x \in Q}
  <2>1. a \in Q /\ Q \subseteq route /\ IsFiniteSet(Q)
    BY <1>1, <1>3, FS_Subset
  <2>q. \A x \in Q : x \in paid /\ Edge(T, x) = fp
    OBVIOUS
  <2> HIDE DEF Q
  <2>2. \A x \in Q : ParentLen(T, x) \in Nat /\ ParentLen(T, x) <= Len(key)
    <3>1. \A x \in Q : ParentLen(T, x) \in Nat /\ ParentLen(T, x) < Len(key)
      BY <2>1, <1>0, RouteFacts
    <3> QED
      BY <3>1
  <2>3. L \subseteq Nat /\ L # {} /\ Len(key) \in Nat /\ \A s \in L : s <= Len(key)
    BY <2>1, <2>2
  <2>4. Max(L) \in L /\ \A s \in L : s <= Max(L)
    <3> HIDE DEF L
    <3> QED
      BY <2>3, MaxFacts
  <2>5. PICK x \in Q : ParentLen(T, x) = Max(L)
    BY <2>4
  <2>6. \A y \in Q : ParentLen(T, y) <= ParentLen(T, x)
    BY <2>4, <2>5
  <2> HIDE DEF L
  <2>7. \A y \in Q : Above(y, x)
    BY <2>1, <2>5, <2>6, <1>0, RouteChain
  <2> DEFINE W == {y \in route : /\ IsStrictPrefix(y[2], x[2]) /\ MustReserve(C, y, u)
                                 /\ Edge(T, y) = Edge(T, x)}
  <2>8. Q \ {x} \subseteq W
    <3> SUFFICES ASSUME NEW y \in Q, y # x PROVE y \in W
      OBVIOUS
    <3>1. IsSpot(x) /\ IsSpot(y)
      BY <2>1, <1>0, RouteFacts
    <3>2. IsStrictPrefix(y[2], x[2])
      BY <3>1, <2>7, StrictlyAbove
    <3> QED
      BY <3>2, <2>1, <2>q, <1>2
  <2>9. IsFiniteSet(W) /\ Cardinality(Q \ {x}) <= Cardinality(W)
    <3>1. IsFiniteSet(W)
      BY <1>1, FS_Subset
    <3> HIDE DEF W
    <3> QED
      BY <2>8, <3>1, FS_Subset
  <2>10. ChargedHits(C, fp) + Cardinality(W) < B
    <3>1. ~Refused(C, route, x, u) /\ MustReserve(C, x, u) /\ Edge(T, x) = fp
      BY <2>5, <2>q, <1>2
    <3>2. ChargedAt(C, route, x, u) = ChargedHits(C, Edge(T, x)) + Cardinality(W)
      BY DEF ChargedAt
    <3>3. Cardinality(W) \in Nat
      BY <2>9, FS_CardinalityType
    <3> HIDE DEF W
    <3>4. ~(ChargedAt(C, route, x, u) >= B)
      BY <3>1 DEF Refused
    <3>5. ChargedHits(C, Edge(T, x)) \in Nat /\ ChargedHits(C, Edge(T, x)) = ChargedHits(C, fp)
      BY <3>1, <1>h
    <3> QED
      BY <3>2, <3>3, <3>4, <3>5, <1>0
  <2> HIDE DEF W
  <2>11. Cardinality(Q) = Cardinality(Q \ {x}) + 1
    <3>1. IsFiniteSet(Q \ {x}) /\ Cardinality(Q \ {x}) = Cardinality(Q) - 1
      BY <2>1, <2>5, FS_RemoveElement
    <3>2. Cardinality(Q) \in Nat /\ Cardinality(Q \ {x}) \in Nat
      BY <2>1, <3>1, FS_CardinalityType
    <3> QED
      BY <3>1, <3>2
  <2>12. Cardinality(Q) \in Nat /\ Cardinality(W) \in Nat /\ Cardinality(Q \ {x}) \in Nat
    <3>1. IsFiniteSet(Q \ {x})
      BY <2>1, FS_Subset
    <3> QED
      BY <3>1, <2>1, <2>9, FS_CardinalityType
  <2>13. ChargedHits(C, fp) \in Nat
    BY <1>h
  <2>14. ChargedHits(C, fp) + Cardinality(Q) \in Nat
         /\ ChargedHits(C, fp) + Cardinality(Q) <= B
    BY ONLY <2>9, <2>10, <2>11, <2>12, <2>13, <1>0
  <2> QED
    BY <2>14 DEF Q
<1>4. Charge(C, paid) = Updated(C.ledger, g)
  BY DEF Charge
<1>5. ASSUME NEW fp \in DOMAIN Charge(C, paid)
      PROVE  Charge(C, paid)[fp] \in Nat /\ Charge(C, paid)[fp] <= B
  <2>1. CASE fp \in {Edge(T, x) : x \in paid}
    <3>1. PICK a \in paid : Edge(T, a) = fp
      BY <2>1
    <3>2. Charge(C, paid)[fp] = ChargedHits(C, fp) + Cardinality(P(fp))
      BY <1>4, <2>1 DEF Updated
    <3>3. /\ ChargedHits(C, fp) + Cardinality(P(fp)) \in Nat
          /\ ChargedHits(C, fp) + Cardinality(P(fp)) <= B
      BY <3>1, <1>3
    <3> HIDE DEF P
    <3> QED
      BY ONLY <3>2, <3>3
  <2>2. CASE fp \notin {Edge(T, x) : x \in paid}
    <3>1. fp \in DOMAIN C.ledger /\ Charge(C, paid)[fp] = C.ledger[fp]
      BY <1>4, <2>2 DEF Updated
    <3> QED
      BY <3>1 DEF LedgerOK
  <2> QED
    BY <2>1, <2>2
<1> QED
  BY <1>5 DEF LedgerOK, paid

\* A lookup keeps the ledger within its budget.
LEMMA MatchLedger ==
    ASSUME NEW C, CacheShape(C), TreeOK(C.tree), SizesOK(C.tree), LedgerOK(C.ledger),
           NEW key \in Seq(Nat), NEW u, NEW auth, NEW m, m = MatchPrefix(C, u, key, auth)
    PROVE  LedgerOK(m.C.ledger)
<1>1. CASE m.C = C
  BY <1>1
<1>2. CASE m.C # C
  <2>1. PICK D, ns : /\ CacheShape(D) /\ D.tree = C.tree /\ D.ledger = C.ledger
                     /\ m = Walk(D, ns, key, u)
    BY <1>2, MatchIsWalk
  <2>2. WalkOf(D, ns, key, u, Walk(D, ns, key, u))
    BY <2>1, WalkDetail
  <2>3. m.C.ledger = Charge(D, PaidIn(D, ns, key, u))
    BY <2>1, <2>2 DEF WalkOf
  <2>4. TreeOK(D.tree) /\ IsFiniteSet(DOMAIN D.tree.pos) /\ LedgerOK(D.ledger)
    BY <2>1 DEF SizesOK
  <2>5. LedgerOK(Charge(D, PaidIn(D, ns, key, u)))
    BY ONLY <2>4, ChargeBounded, key \in Seq(Nat)
  <2> QED
    BY <2>3, <2>5
<1> QED
  BY <1>1, <1>2

\* A lookup by a waiting request leaves the ledger within the budget.
LEMMA AddOneLedger ==
    ASSUME LockInv, LedgerOK(ledger), NEW q \in Request, AddOneReq(q)
    PROVE  LedgerOK(ledger')
<1>0. req[q].ids \in Seq(Nat)
  BY DEF LockInv, ReqOK, ReqIs
<1> DEFINE key == Front(req[q].ids)
<1>1. PICK m, locked, total :
         /\ m = MatchPrefix(Cache, Meta[q].user, key, Meta[q].auth)
         /\ AddMatched(q, m, locked, total)
  BY DEF AddOneReq
<1>2. key \in Seq(Nat)
  BY <1>0, FrontFacts
<1> HIDE DEF key
<1>3. CacheShape(Cache) /\ TreeOK(Cache.tree) /\ SizesOK(Cache.tree) /\ LedgerOK(Cache.ledger)
  BY CacheIs DEF LockInv, Cache
<1>4. LedgerOK(m.C.ledger)
  BY <1>1, <1>2, <1>3, MatchLedger
<1>5. CacheShape(m.C)
  <2>1. MatchOf(Cache, key, m)
    BY <1>1, <1>2, LookupLocks
  <2> QED
    BY <2>1 DEF MatchOf
<1>6. CASE SetCache(m.C)
  BY <1>4, <1>6 DEF SetCache
<1>7. CASE SetCache([m.C EXCEPT !.tree = locked])
  BY <1>4, <1>5, <1>7, SetCacheTree
<1> QED
  BY <1>1, <1>6, <1>7 DEF AddMatched

\* So does the second lookup of cache_unfinished_req.
LEMMA UnfinishedLedger ==
    ASSUME LockInv, LedgerOK(ledger), NEW q \in Request, NEW after, CacheUnfinishedReq(q, after)
    PROVE  LedgerOK(ledger')
<1>0. ReqOK /\ FillIds(q) \in Seq(Nat) /\ CacheShape(Cache) /\ TreeOK(Cache.tree)
      /\ Cache.ledger = ledger
  BY FillFacts, CacheIs DEF LockInv, Cache
<1>1. \E i, m : /\ i = Insert(Cache, q, FillIds(q), req[q].row)
                /\ m = MatchPrefix(i.C, Meta[q].user, FillIds(q), Meta[q].auth)
                /\ CacheInserted(q, after, i, m)
  BY DEF CacheUnfinishedReq
<1>2. PICK i, m : /\ i = Insert(Cache, q, FillIds(q), req[q].row)
                  /\ m = MatchPrefix(i.C, Meta[q].user, FillIds(q), Meta[q].auth)
                  /\ CacheInserted(q, after, i, m)
  BY <1>1
<1>3. CacheShape(i.C) /\ TreeOK(i.C.tree) /\ SizesOK(i.C.tree)
  BY <1>0, <1>2, InsertLocks
<1>4. i.C.ledger = ledger
  BY <1>0, <1>2, InsertCacheFacts
<1>5. LedgerOK(m.C.ledger) /\ CacheShape(m.C)
  <2> DEFINE C == i.C
             key == FillIds(q)
             u == Meta[q].user
             a == Meta[q].auth
  <2>1. /\ CacheShape(C) /\ TreeOK(C.tree) /\ SizesOK(C.tree) /\ key \in Seq(Nat)
        /\ m = MatchPrefix(C, u, key, a) /\ LedgerOK(C.ledger)
        /\ u \in User \cup {NoUser}
    BY <1>0, <1>2, <1>3, <1>4, CacheAssumption
  <2> HIDE DEF C, key, u, a
  <2>2. LedgerOK(m.C.ledger)
    BY <2>1, MatchLedger
  <2>3. MatchOf(C, key, MatchPrefix(C, u, key, a))
    BY ONLY <2>1, MatchPrefixFacts
  <2>4. MatchOf(C, key, m)
    BY ONLY <2>1, <2>3
  <2> QED
    BY <2>2, <2>4 DEF MatchOf
<1>6. SetCache([m.C EXCEPT !.tree = IncLockRef(DecLockRef(m.C.tree, req[q].last), m.last)])
  BY <1>2 DEF CacheInserted
<1> DEFINE T == IncLockRef(DecLockRef(m.C.tree, req[q].last), m.last)
<1>7. SetCache([m.C EXCEPT !.tree = T])
  BY <1>6
<1> HIDE DEF T
<1> QED
  BY <1>5, <1>7, SetCacheTree

\* cache_finished_req charges nothing.
LEMMA FinishedLedger ==
    ASSUME LockInv, LedgerOK(ledger), NEW q \in Request, CacheFinishedReq(q)
    PROVE  LedgerOK(ledger')
<1>0. req[q].ids \in Seq(Nat) /\ CacheShape(Cache) /\ TreeOK(Cache.tree) /\ Cache.ledger = ledger
  BY CacheIs DEF LockInv, ReqOK, ReqIs, Cache
<1> DEFINE i == Insert(Cache, q, req[q].ids, req[q].row)
           T == DecLockRef(i.C.tree, req[q].last)
<1>1. SetCache([i.C EXCEPT !.tree = T])
  BY DEF CacheFinishedReq
<1>2. CacheShape(i.C) /\ i.C.ledger = ledger
  BY <1>0, InsertCacheFacts
<1> HIDE DEF i, T
<1> QED
  BY <1>1, <1>2, SetCacheTree

\* LedgerOK is inductive next to LockInv.
LEMMA StepLedger ==
    ASSUME LockInv, LedgerOK(ledger), [Next]_vars
    PROVE  LedgerOK(ledger')
<1>1. ASSUME NEW q \in Request, Arrive(q) \/ AbortWaiting(q) \/ AddChunkedReq(q)
                                \/ RetractDecode(q)
      PROVE  UNCHANGED ledger
  BY <1>1 DEF Arrive, AbortWaiting, AddChunkedReq, RetractDecode, policy
<1>2. ASSUME NEW q \in Request, ProcessPrefill(q) \/ ProcessDecode(q) \/ CacheChunkedReq(q)
      PROVE  UNCHANGED ledger \/ CacheFinishedReq(q) \/ \E after : CacheUnfinishedReq(q, after)
  <2>1. CASE ProcessPrefill(q)
    <3>1. \/ UNCHANGED policy
          \/ CacheFinishedReq(q)
          \/ \E t \in Token : CacheUnfinishedReq(q, [req[q] EXCEPT !.st = "prefilled",
                                !.fill = 0, !.ids = Append(@, t)])
      BY <2>1 DEF ProcessPrefill
    <3>2. UNCHANGED policy => UNCHANGED ledger
      BY DEF policy
    <3> QED
      BY <3>1, <3>2, Zenon
  <2>2. CASE ProcessDecode(q)
    BY <2>2 DEF ProcessDecode, policy
  <2>3. CASE CacheChunkedReq(q)
    BY <2>3 DEF CacheChunkedReq
  <2> QED
    BY <1>2, <2>1, <2>2, <2>3
<1>3. CASE PrepareForExtend \/ PrepareForDecode \/ PrepareForDecodeAfterRetract
  BY <1>3 DEF PrepareForExtend, PrepareForDecode, PrepareForDecodeAfterRetract, policy
<1>4. CASE \/ \E x \in DOMAIN tree.nd : DetectorPromotes(x)
           \/ \E u \in User : PromoteToBudgeted(u)
           \/ \E o \in Object : Revoke(o)
           \/ UNCHANGED vars
           \/ FlushCache
  BY <1>4 DEF DetectorPromotes, PromoteToBudgeted, Revoke, vars, policy, FlushCache
<1> QED
  BY <1>1, <1>2, <1>3, <1>4, AddOneLedger, UnfinishedLedger, FinishedLedger DEF Next

\* The in-memory ledger never charges a fingerprint more than the budget, however
\* the tree is split, evicted and rebuilt, and whatever edges repeat on one route.
THEOREM LedgerWithinBudget == ~FlushMidChunk => (Spec => []LedgerBounded)
<1> SUFFICES ASSUME ~FlushMidChunk PROVE Spec => []LedgerBounded
  OBVIOUS
<1> DEFINE Inv == LockInv /\ LedgerOK(ledger)
<1>1. Init => Inv
  BY InitLocks DEF Init, LedgerOK
<1>2. Inv /\ [Next]_vars => Inv'
  BY StepLocks, StepLedger
<1>3. Inv => LedgerBounded
  BY DEF LedgerOK, LedgerBounded
<1> QED
  BY <1>1, <1>2, <1>3, PTL DEF Spec

-----------------------------------------------------------------------------
(* Denied lookups *)

\* No longer prefix is common.
LEMMA KeyMatchLongest ==
    ASSUME NEW p \in Seq(Nat), NEW k \in Seq(Nat), NEW n \in 0..Len(k), n <= Len(p),
           Take(p, n) = Take(k, n)
    PROVE  n <= KeyMatch(p, k)
<1> DEFINE S == {i \in 0..Len(k) : i <= Len(p) /\ Take(p, i) = Take(k, i)}
<1>1. Len(k) \in Nat /\ n \in S
  OBVIOUS
<1>2. S \subseteq Nat /\ S # {} /\ \A s \in S : s <= Len(k)
  BY <1>1
<1>3. \A s \in S : s <= Max(S)
  <2> HIDE DEF S
  <2> QED
    BY <1>1, <1>2, MaxFacts
<1>4. KeyMatch(p, k) = Max(S)
  BY DEF KeyMatch
<1> QED
  BY <1>1, <1>3, <1>4

\* Node x is as it was in T, begins where it did, and is not above last.
Untouched(T, R, x, last) ==
    /\ x \in DOMAIN R.nd /\ R.nd[x] = T.nd[x]
    /\ ParentLen(R, x) = ParentLen(T, x)
    /\ ~Above(x, last)

\* _match_prefix_helper stops at a node the requester may not see: it neither
\* splits, marks nor serves it.
LEMMA WalkDenied ==
    ASSUME NEW C, CacheShape(C), TreeOK(C.tree), NEW ns, NEW key \in Seq(Nat), NEW u,
           NEW x \in DOMAIN C.tree.nd, ~VisibleTo(C, x, u), NEW m, m = Walk(C, ns, key, u)
    PROVE  Untouched(C.tree, m.C.tree, x, m.last)
<1> DEFINE T == C.tree
           route == Route(T, ns, key)
           E == Exhausted(C, ns, key, u)
           S == m.C.tree
           len == m.len
           z == <<ns, Take(key, len)>>
<1>0. PlacesOK(T) /\ NodesOK(T) /\ IsPlace(x) /\ IsSpot(x) /\ x \in DOMAIN T.pos /\ Len(x[2]) \in Nat
  BY NodeIsPlace, LenType DEF TreeOK
<1>1. WalkOf(C, ns, key, u, m)
  BY WalkDetail
<1>2. /\ SplitOf(E, ns, Take(key, len), S) /\ len \in 0..Len(key)
      /\ len # 0 => \E c \in ServedIn(C, ns, key, u) : len = KeyMatch(c[2], key)
      /\ m.last = IF len = 0 THEN NoNode ELSE z
  BY <1>1 DEF WalkOf
<1>3. TreeOK(E) /\ E.pos = T.pos /\ DOMAIN E.nd = DOMAIN T.nd
  BY ExhaustFacts DEF Exhausted
<1>4. E.nd[x] = T.nd[x]
  <2> DEFINE X == Spent(C, route, PaidIn(C, ns, key, u), u)
             f == [y \in DOMAIN T.nd |->
                    IF y \in X THEN [T.nd[y] EXCEPT !.vis = "exhausted_private"] ELSE T.nd[y]]
  <2>1. x \notin X
    BY DEF Spent, PaidIn, Refused, MustReserve, VisibleTo
  <2>2. E = [T EXCEPT !.nd = f]
    BY DEF Exhausted, Exhaust
  <2>3. f[x] = T.nd[x]
    BY <2>1
  <2>4. T = [pos |-> T.pos, nd |-> T.nd, evictable |-> T.evictable, protected |-> T.protected]
    BY DEF TreeOK, TreeShape
  <2> HIDE DEF E, f, T, X
  <2>5. E.nd = f
    BY <2>2, <2>4
  <2> QED
    BY <2>3, <2>5
<1>5. TreeOK(S) /\ PlacesOK(S) /\ S.pos = T.pos /\ S.nd[x] = T.nd[x] /\ x \in DOMAIN S.nd
      /\ DOMAIN T.nd \subseteq DOMAIN S.nd
      /\ \A w \in DOMAIN S.nd : w \in DOMAIN T.nd \/ (w = z /\ Take(key, len) # <<>>)
  <2> HIDE DEF E, S
  <2> QED
    BY <1>2, <1>3, <1>4 DEF SplitOf, TreeOK
<1>6. CASE len = 0
  <2>1. Take(key, len) = <<>>
    BY <1>6, TakeNone
  <2>2. DOMAIN S.nd = DOMAIN T.nd
    BY <2>1, <1>5
  <2>3. ParentLen(S, x) = ParentLen(T, x)
    <3> HIDE DEF S, T
    <3> QED
      BY <2>2 DEF ParentLen, Nodes
  <2>4. ~Above(x, m.last)
    BY <1>0, <1>2, <1>6, NothingAboveNoNode
  <2> QED
    BY <1>5, <2>3, <2>4 DEF Untouched
<1>7. CASE len # 0
  <2>1. PICK c \in ServedIn(C, ns, key, u) : len = KeyMatch(c[2], key)
    BY <1>2, <1>7
  <2>2. c \in route /\ VisibleTo(C, c, u)
        /\ \A y \in route : IsStrictPrefix(y[2], c[2]) => VisibleTo(C, y, u)
    BY DEF ServedIn, Served, Reached
  <2> HIDE DEF len, S, E
  <2>3. /\ c \in DOMAIN T.nd /\ c[1] = ns /\ IsSpot(c) /\ ParentLen(T, c) \in Nat
        /\ ParentLen(T, c) < len /\ len <= Len(c[2]) /\ Len(c[2]) \in Nat /\ At(c, len) = z
    <3>1. /\ c \in DOMAIN T.nd /\ c[1] = ns /\ IsSpot(c) /\ ParentLen(T, c) \in Nat
          /\ ParentLen(T, c) < KeyMatch(c[2], key) /\ KeyMatch(c[2], key) <= Len(c[2])
          /\ KeyMatch(c[2], key) \in 0..Len(key)
          /\ \A k \in 0..KeyMatch(c[2], key) : At(c, k) = <<ns, Take(key, k)>>
      BY <1>0, <2>2, RouteFacts
    <3> QED
      BY <3>1, <2>1, LenType
  <2>4. IsPlace(z) /\ IsSpot(z) /\ Above(z, c) /\ Len(z[2]) = len /\ z[1] = ns
        /\ z[2] = Take(key, len)
    <3>1. len \in 0..Len(c[2])
      BY <2>3, <1>2
    <3>2. /\ IsSpot(At(c, len)) /\ Len(At(c, len)[2]) = len /\ IsPlace(At(c, len))
          /\ Above(At(c, len), c)
      BY <3>1, <2>3, <1>7, AtFacts
    <3> QED
      BY <3>2, <2>3
  <2>5. z \in DOMAIN T.pos
    BY <1>0, <2>3, <2>4, NodeIsPlace DEF PlacesOK
  <2>6. x # c
    BY <2>2
  <2> HIDE DEF z
  <2>7. ~Above(x, z)
    <3> SUFFICES ASSUME Above(x, z) PROVE FALSE
      OBVIOUS
    <3>1. Above(x, c)
      BY <1>0, <2>3, <2>4, AboveTrans
    <3>2. x[1] = c[1] /\ IsStrictPrefix(x[2], c[2])
      BY <1>0, <2>3, <2>6, <3>1, StrictlyAbove
    <3>3. Len(x[2]) <= len /\ x = At(z, Len(x[2]))
      BY <1>0, <2>4, AboveIsAt
    <3> DEFINE n == Len(x[2])
    <3>4. n \in 0..len /\ n \in 0..Len(key) /\ len \in 0..Len(key)
      BY <3>3, <1>0, <1>2
    <3>5. x[2] = Take(key, n)
      <4>1. x[2] = Take(Take(key, len), n)
        BY <3>3, <2>4 DEF At
      <4> HIDE DEF n
      <4>2. Take(Take(key, len), n) = Take(key, n)
        BY <3>4, TakeTake
      <4> QED
        BY <4>1, <4>2
    <3>6. x[2] \in Seq(Nat) /\ Take(x[2], n) = Take(key, n)
      BY <3>5, <1>0, TakeAll DEF IsSpot
    <3>7. n <= KeyMatch(x[2], key)
      BY <3>4, <3>6, KeyMatchLongest
    <3>8. KeyMatch(x[2], key) \in 0..Len(key) /\ ParentLen(T, x) < n /\ ParentLen(T, x) \in Nat
      BY <3>6, <1>0, KeyMatchFacts, ParentFacts
    <3>9. ParentLen(T, x) < KeyMatch(x[2], key)
      <4> HIDE DEF n
      <4> QED
        BY <3>4, <3>7, <3>8
    <3>10. x \in route
      BY <3>2, <3>9, <2>3 DEF Route, Nodes
    <3> QED
      BY <3>2, <3>10, <2>2
  <2>8. ~Ends(T, z, x)
    <3>1. Ends(T, z, c)
      BY <1>0, <2>3, <2>4, <2>5, EdgeFacts
    <3> QED
      BY <3>1, <1>0, <2>3, <2>5, <2>6 DEF PlacesOK
  <2>9. ParentLen(S, x) = ParentLen(T, x)
    <3> DEFINE k == ParentLen(T, x)
               j == ParentLen(S, x)
    <3>1. /\ k \in Nat
          /\ \A w \in DOMAIN T.nd : Above(w, x) /\ w # x => Len(w[2]) <= k
          /\ k = 0 \/ \E w \in DOMAIN T.nd : Above(w, x) /\ w # x /\ Len(w[2]) = k
      BY <1>0, ParentFacts
    <3>2. /\ j \in Nat
          /\ \A w \in DOMAIN S.nd : Above(w, x) /\ w # x => Len(w[2]) <= j
          /\ j = 0 \/ \E w \in DOMAIN S.nd : Above(w, x) /\ w # x /\ Len(w[2]) = j
      BY <1>5, ParentFacts
    <3>3. Above(z, x) => Len(z[2]) <= k
      <4>1. Above(z, x) => ~(k < Len(z[2]))
        BY <1>0, <2>5, <2>8, EdgeFacts
      <4> QED
        BY <4>1, <3>1, <2>4, <1>2
    <3> HIDE DEF k, j
    <3>4. k <= j
      BY <3>1, <3>2, <1>5
    <3>5. j <= k
      <4>1. CASE j = 0
        BY <4>1, <3>1
      <4>2. CASE j # 0
        <5>1. PICK w \in DOMAIN S.nd : Above(w, x) /\ w # x /\ Len(w[2]) = j
          BY <4>2, <3>2
        <5>2. CASE w \in DOMAIN T.nd
          BY <5>1, <5>2, <3>1
        <5>3. CASE w = z
          BY <5>1, <5>3, <3>3
        <5> QED
          BY <5>1, <5>2, <5>3, <1>5 DEF z
      <4> QED
        BY <4>1, <4>2
    <3>6. j = k
      BY <3>1, <3>2, <3>4, <3>5
    <3> QED
      BY <3>6 DEF k, j
  <2>10. m.last = z
    BY <1>2, <1>7 DEF len, z
  <2> QED
    BY <1>5, <2>7, <2>9, <2>10 DEF Untouched, S
<1> QED
  BY <1>6, <1>7

\* A node of the tree is as it was, and not part of what a request is served.
LEMMA LookupDenied ==
    ASSUME LockInv, NEW u, NEW x \in DOMAIN tree.nd, ~VisibleTo(Cache, x, u),
           NEW key \in Seq(Nat), NEW auth, NEW m, m = MatchPrefix(Cache, u, key, auth)
    PROVE  Untouched(tree, m.C.tree, x, m.last)
<1>0. CacheShape(Cache) /\ TreeOK(Cache.tree) /\ Cache.tree = tree
  BY CacheIs DEF LockInv
<1>1. CASE m.C = Cache /\ m.len = 0 /\ m.last = NoNode
  <2>1. IsPlace(x)
    BY <1>0, NodeIsPlace DEF TreeOK
  <2>2. ~Above(x, NoNode)
    BY <2>1, NothingAboveNoNode
  <2> QED
    BY <1>0, <1>1, <2>2 DEF Untouched
<1>2. CASE ~(m.C = Cache /\ m.len = 0 /\ m.last = NoNode)
  <2>1. PICK D, ns : /\ CacheShape(D) /\ D.tree = tree /\ D.ledger = Cache.ledger
                     /\ m = Walk(D, ns, key, u)
    BY <1>0, <1>2, MatchIsWalk
  <2>2. ~VisibleTo(D, x, u) /\ TreeOK(D.tree)
    BY <1>0, <2>1 DEF VisibleTo
  <2> QED
    BY <2>1, <2>2, WalkDenied
<1> QED
  BY <1>1, <1>2

\* What DeniedProbeHarmless says of one node.
DeniedOK(q, x) ==
    /\ x \in DOMAIN tree'.nd
    /\ tree'.nd[x] = tree.nd[x]
    /\ ParentLen(tree', x) = ParentLen(tree, x)
    /\ req'[q] # req[q] => x \notin Lineage(tree', req'[q].last)

\* add_one_req does not touch a node the user may not see.
LEMMA AddOneDenied ==
    ASSUME LockInv, NEW q \in Request, AddOneReq(q), NEW x \in DOMAIN tree.nd,
           ~VisibleTo(Cache, x, Meta[q].user)
    PROVE  DeniedOK(q, x)
<1>0. /\ req[q].ids \in Seq(Nat) /\ DOMAIN req = Request
      /\ req[q] = [st |-> req[q].st, ids |-> req[q].ids, fill |-> req[q].fill,
                   row |-> req[q].row, plen |-> req[q].plen, last |-> req[q].last]
  BY DEF LockInv, ReqOK, ReqIs, ReqShape
<1> DEFINE key == Front(req[q].ids)
<1>1. PICK m, locked, total :
         /\ m = MatchPrefix(Cache, Meta[q].user, key, Meta[q].auth)
         /\ locked = IncLockRef(m.C.tree, m.last)
         /\ AddMatched(q, m, locked, total)
  BY DEF AddOneReq
<1>2. key \in Seq(Nat)
  BY <1>0, FrontFacts
<1> HIDE DEF key
<1>3. Untouched(tree, m.C.tree, x, m.last)
  BY <1>1, <1>2, LookupDenied
<1>4. TreeOK(m.C.tree) /\ CacheShape(m.C)
  <2>1. MatchOf(Cache, key, m) /\ TreeOK(m.C.tree)
    BY <1>1, <1>2, LookupLocks
  <2> QED
    BY ONLY <2>1 DEF MatchOf
<1>5. CASE SetCache(m.C) /\ UNCHANGED req
  BY <1>3, <1>5 DEF SetCache, Untouched, DeniedOK
<1>6. CASE ~(SetCache(m.C) /\ UNCHANGED req)
  <2> DEFINE f == Min({Len(req[q].ids), m.len + RemChunkTokens})
             w == MatchedSlots(m)
             r == [req[q] EXCEPT !.st = "admitted", !.fill = f, !.row = w, !.plen = m.len,
                                 !.last = m.last]
             T == m.C.tree
  <2>1. req' = [req EXCEPT ![q] = r] /\ SetCache([m.C EXCEPT !.tree = locked])
    BY ONLY <1>0, <1>1, <1>6 DEF AddMatched
  <2>2. tree' = locked
    BY <2>1, <1>4, SetCacheTree
  <2>3. r.last = m.last
    <3> HIDE DEF f, w
    <3> QED
      BY <1>0
  <2> HIDE DEF r
  <2>4. req'[q].last = m.last
    BY <2>1, <2>3, <1>0
  <2> HIDE DEF T
  <2>5. /\ TreeShape(T) /\ NodesOK(T) /\ locked = IncLockRef(T, m.last)
        /\ x \in DOMAIN T.nd /\ T.nd[x] = tree.nd[x] /\ ParentLen(T, x) = ParentLen(tree, x)
        /\ ~Above(x, m.last)
    BY <1>1, <1>3, <1>4 DEF T, TreeOK, Untouched
  <2>6. /\ DOMAIN locked.nd = DOMAIN T.nd /\ NodesOK(locked)
        /\ locked.nd[x].vis = T.nd[x].vis /\ locked.nd[x].lock = T.nd[x].lock
    BY <2>5, IncLockFacts
  <2>7. locked.nd[x] = T.nd[x]
    BY <2>5, <2>6 DEF NodesOK
  <2>8. ParentLen(locked, x) = ParentLen(T, x)
    BY <2>6 DEF ParentLen, Nodes
  <2>9. x \notin Lineage(locked, m.last)
    BY <2>5, LineageFacts
  <2> QED
    BY ONLY <2>2, <2>4, <2>5, <2>6, <2>7, <2>8, <2>9, SMTT(20) DEF DeniedOK
<1> QED
  BY <1>5, <1>6

\* "A denied probe cannot mutate another principal's tree": for any number of
\* principals and any tree, a lookup leaves the nodes its requester may not see
\* as they were.
THEOREM DeniedProbes == ~FlushMidChunk => (Spec => DeniedProbeHarmless)
<1> SUFFICES ASSUME ~FlushMidChunk PROVE Spec => DeniedProbeHarmless
  OBVIOUS
<1> DEFINE Step == \A q \in Request : AddOneReq(q) =>
                      \A x \in DOMAIN tree.nd :
                         x[1] \in User \ {Meta[q].user}
                           /\ tree.nd[x].vis \in {"private", "exhausted_private"} =>
                                /\ x \in DOMAIN tree'.nd
                                /\ tree'.nd[x] = tree.nd[x]
                                /\ ParentLen(tree', x) = ParentLen(tree, x)
                                /\ req'[q] # req[q] => x \notin Lineage(tree', req'[q].last)
<1>1. Init => LockInv
  BY InitLocks
<1>2. LockInv /\ [Next]_vars => LockInv'
  BY StepLocks
<1>3. LockInv /\ [Next]_vars => [Step]_vars
  <2> SUFFICES ASSUME LockInv, NEW q \in Request, AddOneReq(q), NEW x \in DOMAIN tree.nd,
                      x[1] \in User \ {Meta[q].user},
                      tree.nd[x].vis \in {"private", "exhausted_private"}
               PROVE  DeniedOK(q, x)
    BY DEF DeniedOK
  <2>1. ~VisibleTo(Cache, x, Meta[q].user)
    BY CacheIs DEF VisibleTo
  <2> QED
    BY <2>1, AddOneDenied
<1>4. DeniedProbeHarmless <=> [][Step]_vars
  BY DEF DeniedProbeHarmless
<1> HIDE DEF Step
<1> QED
  BY <1>1, <1>2, <1>3, <1>4, PTL DEF Spec
=============================================================================
