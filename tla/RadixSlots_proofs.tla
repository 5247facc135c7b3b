------------------------- MODULE RadixSlots_proofs --------------------------
(***************************************************************************)
(* Who owns a slot of the KV pool, in strict mode with private requests,   *)
(* for any number of principals, requests and slots.  SlotInv says that a  *)
(* slot is free, at one place of the tree or in the tail of one request's  *)
(* row, and holds the KV its owner reads there.  On top of LockInv it is   *)
(* inductive; from it follow that prefixes stay, contents are intact, the  *)
(* tenants share nothing and idle memory adds up.                          *)
(***************************************************************************)
EXTENDS RadixCache_proofs

\* Every request has a principal and no authorization, nothing is shared, and no
\* flush comes between two chunks.
Private ==
    /\ Mode = "strict" /\ ~FlushMidChunk
    /\ \A q \in Request : Meta[q].user \in User /\ Meta[q].auth = NoObject

\* The uncached tails of the rows of the requests in H, as a function from
\* <<request, index>> to slots.
InTail(r, i) == i \in Nat /\ r.plen < i /\ i <= Len(r.row)
TailsOf(H, R) ==
    [h \in {g \in H \X Nat : InTail(R[g[1]], g[2])} |-> R[h[1]].row[h[2]]]

\* What the slots hold: the prefix that ends there.
Holds(P, t, ct, R) ==
    /\ \A x \in DOMAIN P : ct[P[x]] = x[2]
    /\ \A h \in DOMAIN t : ct[t[h]] = Take(R[h[1]].ids, h[2])

\* The row of request q begins with the slots of its prefix, under its own root.
Home(q, r, i) == <<Meta[q].user, Take(r.ids, i)>>
RowOK(q, r, P) ==
    /\ r.ids \in Seq(Nat) /\ r.plen \in Nat
    /\ r.row \in Seq(Slot) /\ r.plen <= Len(r.row) /\ Len(r.row) <= Len(r.ids)
    /\ r.last = IF r.plen = 0 THEN NoNode ELSE Home(q, r, r.plen)
    /\ \A i \in 1..r.plen : Home(q, r, i) \in DOMAIN P /\ P[Home(q, r, i)] = r.row[i]

\* How long the row is, by where the request is in its life.
LenOK(r) ==
    /\ r.st \in {"admitted", "cached"} => Len(r.row) = r.plen
    /\ r.st \in {"prefill", "chunked"} => Len(r.row) = r.fill
    /\ r.st \in {"prefilled", "running"} => Len(r.ids) = Len(r.row) + 1
    /\ r.st = "decode" => Len(r.ids) = Len(r.row)

\* The slots of tree positions P, of the requests H with records R, of free list
\* fr and with contents ct.
SlotsOK(P, H, R, fr, ct) ==
    /\ Part(P, TailsOf(H, R), fr)
    /\ Holds(P, TailsOf(H, R), ct, R)
    /\ \A q \in H : RowOK(q, R[q], P) /\ LenOK(R[q])

\* The inductive invariant for the slots, on top of LockInv.
SlotInv == installed = {} /\ SlotsOK(tree.pos, Held, req, free, kv)

\* The positions and slots of the tails.
LEMMA TailsFacts ==
    ASSUME NEW H, NEW R
    PROVE  /\ \A h : h \in DOMAIN TailsOf(H, R)
                       <=> /\ h = <<h[1], h[2]>> /\ h[1] \in H /\ InTail(R[h[1]], h[2])
           /\ \A h \in DOMAIN TailsOf(H, R) : TailsOf(H, R)[h] = R[h[1]].row[h[2]]
BY DEF TailsOf, InTail

\* What a free slot holds does not matter.
LEMMA ForgetSlots ==
    ASSUME NEW P, NEW H, NEW R, NEW fr, NEW ct, SlotsOK(P, H, R, fr, ct)
    PROVE  SlotsOK(P, H, R, fr, Forget(ct, fr))
<1> DEFINE t == TailsOf(H, R)
<1>1. Part(P, t, fr) /\ Holds(P, t, ct, R)
  BY DEF SlotsOK
<1>2. \A s \in Slot : Owned(P, t, s) => Forget(ct, fr)[s] = ct[s]
  BY <1>1 DEF Part, Forget
<1>3. Holds(P, t, Forget(ct, fr), R)
  <2> HIDE DEF t
  <2> QED
    BY <1>1, <1>2 DEF Holds, Part, Apart, Owned
<1> QED
  BY <1>1, <1>3 DEF SlotsOK

\* A step that moves requests on without touching a slot.
LEMMA QuietSlots ==
    ASSUME NEW P, NEW H, NEW R, NEW fr, NEW ct, SlotsOK(P, H, R, fr, ct), NEW S,
           \A q \in H : /\ S[q].row = R[q].row /\ S[q].plen = R[q].plen
                        /\ S[q].last = R[q].last
                        /\ S[q].ids \in Seq(Nat) /\ Len(R[q].row) <= Len(S[q].ids)
                        /\ \A i \in 0..Len(R[q].row) : Take(S[q].ids, i) = Take(R[q].ids, i)
                        /\ LenOK(S[q])
    PROVE  SlotsOK(P, H, S, fr, ct)
<1> DEFINE t == TailsOf(H, R)
           v == TailsOf(H, S)
<1>1. Part(P, t, fr) /\ Holds(P, t, ct, R) /\ \A q \in H : RowOK(q, R[q], P)
  BY DEF SlotsOK
<1>2. v = t
  BY DEF TailsOf, InTail
<1>3. ASSUME NEW h \in DOMAIN v
      PROVE  Take(S[h[1]].ids, h[2]) = Take(R[h[1]].ids, h[2])
  <2>1. h[1] \in H /\ InTail(R[h[1]], h[2])
    BY <1>2, TailsFacts
  <2>2. h[2] \in 0..Len(R[h[1]].row)
    BY <1>1, <2>1 DEF InTail, RowOK
  <2> QED
    BY <2>1, <2>2
<1>4. Holds(P, v, ct, S)
  <2> HIDE DEF t, v
  <2> QED
    BY <1>1, <1>2, <1>3 DEF Holds
<1>5. ASSUME NEW q \in H PROVE RowOK(q, S[q], P)
  <2>1. RowOK(q, R[q], P)
    BY <1>1
  <2>2. \A i \in 0..R[q].plen : Home(q, S[q], i) = Home(q, R[q], i)
    BY <2>1 DEF Home, RowOK
  <2> QED
    BY <2>1, <2>2 DEF RowOK
<1> QED
  BY <1>1, <1>2, <1>4, <1>5 DEF SlotsOK

\* The tails when request q has none, before or after.
LEMMA TailsWithout ==
    ASSUME NEW H, NEW R, NEW K, NEW S, NEW q,
           \A p : p # q => (p \in K <=> p \in H),
           \A p \in H : p # q => S[p].row = R[p].row /\ S[p].plen = R[p].plen,
           q \in K => Len(S[q].row) \in Nat /\ S[q].plen = Len(S[q].row)
    PROVE  /\ \A h : h \in DOMAIN TailsOf(K, S) <=> h \in DOMAIN TailsOf(H, R) /\ h[1] # q
           /\ \A h \in DOMAIN TailsOf(K, S) : TailsOf(K, S)[h] = TailsOf(H, R)[h]
<1>1. ASSUME NEW h
      PROVE  h \in DOMAIN TailsOf(K, S) <=> h \in DOMAIN TailsOf(H, R) /\ h[1] # q
  <2>1. CASE h[1] = q
    <3>1. h[1] \in K => ~InTail(S[h[1]], h[2])
      BY <2>1 DEF InTail
    <3> QED
      BY <2>1, <3>1, TailsFacts
  <2>2. CASE h[1] # q
    <3>1. h[1] \in K <=> h[1] \in H
      BY <2>2
    <3>2. h[1] \in H => (InTail(S[h[1]], h[2]) <=> InTail(R[h[1]], h[2]))
      BY <2>2 DEF InTail
    <3> QED
      BY <2>2, <3>1, <3>2, TailsFacts
  <2> QED
    BY <2>1, <2>2
<1>2. ASSUME NEW h \in DOMAIN TailsOf(K, S)
      PROVE  TailsOf(K, S)[h] = TailsOf(H, R)[h]
  <2>1. h \in DOMAIN TailsOf(H, R) /\ h[1] # q /\ h[1] \in H
    BY <1>1, TailsFacts
  <2>2. S[h[1]].row = R[h[1]].row
    BY <2>1
  <2> QED
    BY <2>1, <2>2, TailsFacts
<1> QED
  BY <1>1, <1>2

\* evict: the slots of positions that are nobody's prefix go to the free list.
LEMMA EvictSlots ==
    ASSUME NEW P, NEW H, NEW R, NEW fr, NEW ct, SlotsOK(P, H, R, fr, ct),
           NEW G, G \subseteq DOMAIN P, NEW Q, DOMAIN Q = DOMAIN P \ G,
           \A x \in DOMAIN Q : Q[x] = P[x],
           NEW f, DOMAIN f = G, \A x \in G : f[x] = P[x],
           \A q \in H : \A i \in 1..R[q].plen : Home(q, R[q], i) \notin G
    PROVE  SlotsOK(Q, H, R, Freed(fr, f), ct)
<1> DEFINE t == TailsOf(H, R)
<1>1. Part(P, t, fr) /\ Holds(P, t, ct, R) /\ \A q \in H : RowOK(q, R[q], P) /\ LenOK(R[q])
  BY DEF SlotsOK
<1>2. Part(Q, t, Freed(fr, f))
  <2> HIDE DEF t
  <2>1. Apart(P, t)
    BY <1>1 DEF Part
  <2>2. Apart(Q, t)
    BY <2>1, ApartSub
  <2>3. \A x \in DOMAIN f : f[x] \in Slot /\ Owned(P, t, f[x])
    BY <2>1 DEF Apart, Owned
  <2>4. \A x, y \in DOMAIN f : f[x] = f[y] => x = y
    BY <2>1 DEF Apart
  <2>5. ASSUME NEW s \in Slot
        PROVE  Owned(Q, t, s) <=> Owned(P, t, s) /\ \A x \in DOMAIN f : f[x] # s
    BY <2>1 DEF Apart, Owned
  <2> QED
    BY <1>1, <2>2, <2>3, <2>4, <2>5, PartFreed
<1>3. Holds(Q, t, ct, R)
  BY <1>1 DEF Holds
<1>4. ASSUME NEW q \in H PROVE RowOK(q, R[q], Q)
  BY <1>1 DEF RowOK
<1> QED
  BY <1>1, <1>2, <1>3, <1>4 DEF SlotsOK

\* A request leaves, and the slots of its tail go to the free list.
LEMMA DropSlots ==
    ASSUME NEW P, NEW H, NEW R, NEW fr, NEW ct, SlotsOK(P, H, R, fr, ct), NEW q \in H
    PROVE  SlotsOK(P, H \ {q}, R, Freed(fr, SubSeq(R[q].row, R[q].plen + 1, Len(R[q].row))), ct)
<1> DEFINE t == TailsOf(H, R)
           K == H \ {q}
           v == TailsOf(K, R)
           a == R[q].plen
           b == Len(R[q].row)
           f == SubSeq(R[q].row, a + 1, b)
<1>1. Part(P, t, fr) /\ Holds(P, t, ct, R) /\ \A p \in H : RowOK(p, R[p], P) /\ LenOK(R[p])
  BY DEF SlotsOK
<1>2. /\ \A h : h \in DOMAIN v <=> h \in DOMAIN t /\ h[1] # q
      /\ \A h \in DOMAIN v : v[h] = t[h]
  <2>1. (\A p : p # q => (p \in K <=> p \in H)) /\ q \notin K
    OBVIOUS
  <2> HIDE DEF K
  <2> QED
    BY <2>1, TailsWithout
<1>3. R[q].row \in Seq(Slot) /\ a \in Nat /\ b \in Nat /\ a <= b
  BY <1>1 DEF RowOK
<1>4. f \in Seq(Slot) /\ DOMAIN f = 1..b - a /\ \A i \in 1..b - a : f[i] = R[q].row[a + i]
  <2> DEFINE w == R[q].row
  <2>1. w \in Seq(Slot) /\ b <= Len(w)
    BY <1>3
  <2> HIDE DEF a, b, w
  <2>2. SubSeq(w, a + 1, b) \in Seq(Slot) /\ DOMAIN SubSeq(w, a + 1, b) = 1..b - a
        /\ \A i \in 1..b - a : SubSeq(w, a + 1, b)[i] = w[a + i]
    BY <1>3, <2>1, SubSeqFacts
  <2> QED
    BY <2>2 DEF w
<1>5. \A i \in 1..b - a : <<q, a + i>> \in DOMAIN t /\ t[<<q, a + i>>] = f[i]
  <2> SUFFICES ASSUME NEW i \in 1..b - a
               PROVE  <<q, a + i>> \in DOMAIN t /\ t[<<q, a + i>>] = f[i]
    OBVIOUS
  <2> DEFINE h == <<q, a + i>>
  <2>1. h = <<h[1], h[2]>> /\ h[1] = q /\ h[2] = a + i
    OBVIOUS
  <2>2. InTail(R[q], a + i)
    BY <1>3, SMTT(20) DEF InTail
  <2> HIDE DEF h
  <2>3. h \in DOMAIN t /\ t[h] = R[q].row[a + i]
    BY <2>1, <2>2, TailsFacts
  <2> QED
    BY <1>4, <2>3 DEF h
<1>6. \A h \in DOMAIN t : h[1] = q => \E i \in 1..b - a : h = <<q, a + i>>
  <2> SUFFICES ASSUME NEW h \in DOMAIN t, h[1] = q PROVE \E i \in 1..b - a : h = <<q, a + i>>
    OBVIOUS
  <2>1. h = <<q, h[2]>> /\ h[2] \in Nat /\ a < h[2] /\ h[2] <= b
    BY TailsFacts DEF InTail
  <2>2. h[2] - a \in 1..b - a /\ a + (h[2] - a) = h[2]
    BY <1>3, <2>1
  <2> QED
    BY <2>1, <2>2
<1>7. Part(P, v, Freed(fr, f))
  <2> HIDE DEF t, v, f, a, b
  <2>1. Apart(P, t)
    BY <1>1 DEF Part
  <2>2. Apart(P, v)
    BY <1>2, <2>1, ApartSub
  <2>3. \A x \in DOMAIN f : f[x] \in Slot /\ Owned(P, t, f[x])
    <3>1. \A x \in DOMAIN f : \E h \in DOMAIN t : t[h] = f[x]
      BY <1>4, <1>5
    <3> QED
      BY <2>1, <3>1 DEF Apart, Owned
  <2>4. \A x, y \in DOMAIN f : f[x] = f[y] => x = y
    <3> SUFFICES ASSUME NEW x \in 1..b - a, NEW y \in 1..b - a, f[x] = f[y] PROVE x = y
      BY <1>4
    <3>1. <<q, a + x>> = <<q, a + y>>
      BY <1>5, <2>1 DEF Apart
    <3> QED
      BY <1>3, <3>1
  <2>5. ASSUME NEW s \in Slot
        PROVE  Owned(P, v, s) <=> Owned(P, t, s) /\ \A x \in DOMAIN f : f[x] # s
    <3>1. Owned(P, v, s) => Owned(P, t, s)
      BY <1>2 DEF Owned
    <3>2. ASSUME Owned(P, v, s), NEW x \in DOMAIN f, f[x] = s PROVE FALSE
      <4>1. <<q, a + x>> \in DOMAIN t /\ t[<<q, a + x>>] = s /\ <<q, a + x>>[1] = q
        BY <1>4, <1>5, <3>2
      <4>2. (\E y \in DOMAIN P : P[y] = s) \/ (\E h \in DOMAIN t : h[1] # q /\ t[h] = s)
        BY <1>2, <3>2 DEF Owned
      <4> QED
        BY <2>1, <4>1, <4>2 DEF Apart
    <3>3. ASSUME Owned(P, t, s), \A x \in DOMAIN f : f[x] # s PROVE Owned(P, v, s)
      <4>1. \A h \in DOMAIN t : t[h] = s => h[1] # q
        BY <1>4, <1>5, <1>6, <3>3
      <4> QED
        BY <1>2, <3>3, <4>1 DEF Owned
    <3> QED
      BY <3>1, <3>2, <3>3
  <2> QED
    BY <1>1, <2>2, <2>3, <2>4, <2>5, PartFreed
<1>8. Holds(P, v, ct, R)
  <2> HIDE DEF t, v
  <2> QED
    BY <1>1, <1>2 DEF Holds
<1> QED
  BY <1>1, <1>7, <1>8 DEF SlotsOK

\* The positions of a request's tokens are distinct.
LEMMA HomeFacts ==
    ASSUME NEW q, NEW r, r.ids \in Seq(Nat), NEW i \in 0..Len(r.ids)
    PROVE  /\ Home(q, r, i)[1] = Meta[q].user /\ Home(q, r, i)[2] = Take(r.ids, i)
           /\ Len(Home(q, r, i)[2]) = i
<1>1. Home(q, r, i)[1] = Meta[q].user /\ Home(q, r, i)[2] = Take(r.ids, i)
  BY DEF Home
<1>2. Len(Take(r.ids, i)) = i
  BY TakeType
<1> QED
  BY <1>1, <1>2

\* Two prefixes of a request at the same place are one.
LEMMA HomeInj ==
    ASSUME NEW q, NEW r, r.ids \in Seq(Nat), NEW i \in 0..Len(r.ids), NEW j \in 0..Len(r.ids),
           Home(q, r, i) = Home(q, r, j)
    PROVE  i = j
<1>1. Len(Home(q, r, i)[2]) = i
  BY HomeFacts
<1>2. Len(Home(q, r, j)[2]) = j
  BY HomeFacts
<1> QED
  BY <1>1, <1>2

\* insert and free of the duplicates: the rest of the row becomes part of the tree.
LEMMA InsertSlots ==
    ASSUME NEW P, NEW H, NEW R, NEW fr, NEW ct, SlotsOK(P, H, R, fr, ct), NEW q \in H,
           NEW m \in Nat, R[q].plen <= m, m <= Len(R[q].row),
           \A i \in 1..Len(R[q].row) : Home(q, R[q], i) \in DOMAIN P <=> i <= m,
           NEW Q, DOMAIN Q = DOMAIN P \cup {Home(q, R[q], i) : i \in 1..Len(R[q].row)},
           \A x \in DOMAIN P : Q[x] = P[x],
           \A i \in m + 1 .. Len(R[q].row) : Q[Home(q, R[q], i)] = R[q].row[i],
           NEW K, \A p : p # q => (p \in K <=> p \in H),
           NEW S, \A p \in H : p # q => S[p] = R[p],
           q \in K => RowOK(q, S[q], Q) /\ LenOK(S[q]) /\ S[q].plen = Len(S[q].row)
    PROVE  SlotsOK(Q, K, S, Freed(fr, SubSeq(R[q].row, R[q].plen + 1, m)), ct)
<1> DEFINE t == TailsOf(H, R)
           v == TailsOf(K, S)
           a == R[q].plen
           b == Len(R[q].row)
           w == R[q].row
           f == SubSeq(w, a + 1, m)
           New(i) == Home(q, R[q], i)
           e(i) == <<q, i>>
<1>1. Part(P, t, fr) /\ Holds(P, t, ct, R) /\ \A p \in H : RowOK(p, R[p], P) /\ LenOK(R[p])
  BY DEF SlotsOK
<1>2. /\ \A h : h \in DOMAIN v <=> h \in DOMAIN t /\ h[1] # q
      /\ \A h \in DOMAIN v : v[h] = t[h]
  <2>1. q \in K => Len(S[q].row) \in Nat /\ S[q].plen = Len(S[q].row)
    BY DEF RowOK
  <2> QED
    BY <2>1, TailsWithout
<1>3. w \in Seq(Slot) /\ a \in Nat /\ b \in Nat /\ b = Len(w) /\ a <= b /\ b <= Len(R[q].ids)
      /\ R[q].ids \in Seq(Nat) /\ a <= m /\ m <= b
  BY <1>1 DEF RowOK
<1>4. f \in Seq(Slot) /\ DOMAIN f = 1..m - a /\ \A i \in 1..m - a : f[i] = w[a + i]
  <2> HIDE DEF a, b, w
  <2> QED
    BY <1>3, SubSeqFacts
<1>5. \A i \in a + 1 .. b : e(i) \in DOMAIN t /\ t[e(i)] = w[i]
  <2> SUFFICES ASSUME NEW i \in a + 1 .. b
               PROVE  e(i) \in DOMAIN t /\ t[e(i)] = w[i]
    OBVIOUS
  <2> DEFINE h == e(i)
  <2>1. h = <<h[1], h[2]>> /\ h[1] = q /\ h[2] = i
    OBVIOUS
  <2>2. InTail(R[q], i)
    BY <1>3 DEF InTail
  <2> HIDE DEF h
  <2>3. h \in DOMAIN t /\ t[h] = R[q].row[i]
    BY <2>1, <2>2, TailsFacts
  <2> QED
    BY <2>3 DEF h
<1>6. \A h \in DOMAIN t : h[1] = q => \E i \in a + 1 .. b : h = e(i)
  <2> SUFFICES ASSUME NEW h \in DOMAIN t, h[1] = q PROVE \E i \in a + 1 .. b : h = e(i)
    OBVIOUS
  <2>1. h = <<q, h[2]>> /\ h[2] \in Nat /\ a < h[2] /\ h[2] <= b
    BY TailsFacts DEF InTail
  <2>2. h[2] \in a + 1 .. b
    BY <1>3, <2>1
  <2> QED
    BY <2>1, <2>2
<1>7. \A i, j \in 1..b : New(i) = New(j) => i = j
  <2> SUFFICES ASSUME NEW i \in 1..b, NEW j \in 1..b, New(i) = New(j) PROVE i = j
    OBVIOUS
  <2>1. i \in 0..Len(R[q].ids) /\ j \in 0..Len(R[q].ids)
    BY <1>3, SMTT(30)
  <2> QED
    BY ONLY <1>3, <2>1, New(i) = New(j), HomeInj
<1>8. /\ DOMAIN Q = DOMAIN P \cup {New(i) : i \in m + 1 .. b}
      /\ \A i \in m + 1 .. b : New(i) \notin DOMAIN P /\ Q[New(i)] = w[i]
      /\ \A x \in DOMAIN P : Q[x] = P[x]
      /\ \A x : x \in DOMAIN Q <=> x \in DOMAIN P \/ \E i \in m + 1 .. b : x = New(i)
  <2>1. \A i \in m + 1 .. b : i \in 1..b /\ ~(i <= m)
    BY <1>3
  <2>2. \A i \in 1..b : i <= m \/ i \in m + 1 .. b
    BY <1>3
  <2>3. \A i \in 1..b : New(i) \in DOMAIN P \/ i \in m + 1 .. b
    BY <2>2
  <2>4. DOMAIN Q = DOMAIN P \cup {New(i) : i \in 1..b}
    OBVIOUS
  <2> HIDE DEF New, b
  <2>5. DOMAIN Q = DOMAIN P \cup {New(i) : i \in m + 1 .. b}
    BY <2>1, <2>3, <2>4, ZenonT(40)
  <2> QED
    BY <2>1, <2>5 DEF New, b
<1>0. (\A i : e(i)[1] = q) /\ \A i, j : e(i) = e(j) => i = j
  OBVIOUS
<1>9. Apart(P, t) /\ \A i \in a + 1 .. b : w[i] \in Slot
  BY <1>1, <1>3 DEF Part
<1> HIDE DEF t, v, f, a, b, w, New, e
<1>10. \A i, j \in a + 1 .. b : w[i] = w[j] => i = j
  <2> SUFFICES ASSUME NEW i \in a + 1 .. b, NEW j \in a + 1 .. b, w[i] = w[j] PROVE i = j
    OBVIOUS
  <2>1. e(i) = e(j)
    BY <1>5, <1>9 DEF Apart
  <2> QED
    BY <1>0, <2>1
<1>11. \A x \in DOMAIN P, i \in a + 1 .. b : P[x] # w[i]
  BY <1>5, <1>9 DEF Apart
<1>12. \A h \in DOMAIN v, i \in a + 1 .. b : v[h] # w[i]
  <2> SUFFICES ASSUME NEW h \in DOMAIN v, NEW i \in a + 1 .. b, v[h] = w[i] PROVE FALSE
    OBVIOUS
  <2>1. h \in DOMAIN t /\ h[1] # q /\ t[h] = t[e(i)] /\ e(i) \in DOMAIN t
    BY <1>2, <1>5
  <2>2. h = e(i)
    BY <1>9, <2>1 DEF Apart
  <2> QED
    BY <1>0, <2>1, <2>2
<1>13. \A i \in m + 1 .. b : i \in a + 1 .. b /\ i \in 1..b
  BY <1>3
<1>14. Apart(Q, v)
  <2>1. ASSUME NEW x \in DOMAIN Q
        PROVE  \/ x \in DOMAIN P /\ Q[x] = P[x]
               \/ \E i \in m + 1 .. b : x = New(i) /\ Q[x] = w[i]
    BY <1>8
  <2>2. \A x \in DOMAIN Q : Q[x] \in Slot
    BY <1>9, <1>13, <2>1 DEF Apart
  <2>3. \A h \in DOMAIN v : v[h] \in Slot
    BY <1>2, <1>9 DEF Apart
  <2>4. \A g, h \in DOMAIN v : v[g] = v[h] => g = h
    BY <1>2, <1>9 DEF Apart
  <2>5. \A x \in DOMAIN Q, h \in DOMAIN v : Q[x] # v[h]
    <3> SUFFICES ASSUME NEW x \in DOMAIN Q, NEW h \in DOMAIN v PROVE Q[x] # v[h]
      OBVIOUS
    <3>1. CASE x \in DOMAIN P /\ Q[x] = P[x]
      BY <1>2, <1>9, <3>1 DEF Apart
    <3>2. CASE \E i \in m + 1 .. b : Q[x] = w[i]
      BY <1>12, <1>13, <3>2
    <3> QED
      BY <2>1, <3>1, <3>2
  <2>6. \A x, y \in DOMAIN Q : Q[x] = Q[y] => x = y
    <3> SUFFICES ASSUME NEW x \in DOMAIN Q, NEW y \in DOMAIN Q, Q[x] = Q[y] PROVE x = y
      OBVIOUS
    <3>1. CASE x \in DOMAIN P /\ Q[x] = P[x] /\ y \in DOMAIN P /\ Q[y] = P[y]
      BY <1>9, <3>1 DEF Apart
    <3>2. CASE (x \in DOMAIN P /\ Q[x] = P[x]) /\ \E i \in m + 1 .. b : Q[y] = w[i]
      BY <1>11, <1>13, <3>2
    <3>3. CASE (y \in DOMAIN P /\ Q[y] = P[y]) /\ \E i \in m + 1 .. b : Q[x] = w[i]
      BY <1>11, <1>13, <3>3
    <3>4. CASE /\ \E i \in m + 1 .. b : x = New(i) /\ Q[x] = w[i]
               /\ \E i \in m + 1 .. b : y = New(i) /\ Q[y] = w[i]
      BY <1>10, <1>13, <3>4
    <3> QED
      BY <2>1, <3>1, <3>2, <3>3, <3>4
  <2> QED
    BY <2>2, <2>3, <2>4, <2>5, <2>6 DEF Apart
<1>15. \A i \in 1..m - a : a + i \in a + 1 .. b /\ a + i <= m
  BY <1>3
<1>16. \A i \in a + 1 .. b : i <= m => i - a \in 1..m - a /\ a + (i - a) = i
  BY <1>3
<1>17. Part(Q, v, Freed(fr, f))
  <2>1. \A x \in DOMAIN f : f[x] \in Slot /\ Owned(P, t, f[x])
    <3> SUFFICES ASSUME NEW x \in 1..m - a PROVE f[x] \in Slot /\ Owned(P, t, f[x])
      BY <1>4
    <3>1. f[x] = w[a + x] /\ a + x \in a + 1 .. b
      BY <1>4, <1>15
    <3> QED
      BY <1>5, <1>9, <3>1 DEF Owned
  <2>2. \A x, y \in DOMAIN f : f[x] = f[y] => x = y
    <3> SUFFICES ASSUME NEW x \in 1..m - a, NEW y \in 1..m - a, f[x] = f[y] PROVE x = y
      BY <1>4
    <3>1. a + x = a + y
      BY <1>4, <1>10, <1>15
    <3> QED
      BY <1>3, <3>1
  <2>3. ASSUME NEW s \in Slot
        PROVE  Owned(Q, v, s) <=> Owned(P, t, s) /\ \A x \in DOMAIN f : f[x] # s
    <3>1. Owned(Q, v, s) <=> \/ \E x \in DOMAIN P : P[x] = s
                             \/ \E i \in m + 1 .. b : w[i] = s
                             \/ \E h \in DOMAIN v : v[h] = s
      BY <1>8 DEF Owned
    <3>2. Owned(P, t, s) <=> \/ \E x \in DOMAIN P : P[x] = s
                             \/ \E i \in a + 1 .. b : w[i] = s
                             \/ \E h \in DOMAIN v : v[h] = s
      <4>1. (\E h \in DOMAIN t : t[h] = s) <=> \/ \E i \in a + 1 .. b : w[i] = s
                                              \/ \E h \in DOMAIN v : v[h] = s
        <5>1. ASSUME NEW h \in DOMAIN t, t[h] = s
              PROVE  (\E i \in a + 1 .. b : w[i] = s) \/ \E g \in DOMAIN v : v[g] = s
          BY <1>2, <1>5, <1>6, <5>1
        <5> QED
          BY <1>2, <1>5, <5>1
      <4> QED
        BY <4>1 DEF Owned
    <3>3. (\E x \in DOMAIN f : f[x] = s) <=> \E i \in a + 1 .. b : i <= m /\ w[i] = s
      BY <1>4, <1>15, <1>16
    <3>4. \A i \in a + 1 .. b : i <= m \/ i \in m + 1 .. b
      BY <1>3
    <3>5. \A i \in m + 1 .. b : ~(i <= m)
      BY <1>3
    <3>6. ASSUME Owned(Q, v, s) PROVE ~\E i \in a + 1 .. b : i <= m /\ w[i] = s
      <4> SUFFICES ASSUME NEW i \in a + 1 .. b, i <= m, w[i] = s PROVE FALSE
        OBVIOUS
      <4>1. CASE \E x \in DOMAIN P : P[x] = s
        BY <1>11, <4>1
      <4>2. CASE \E j \in m + 1 .. b : w[j] = s
        BY <1>10, <1>13, <3>5, <4>2
      <4>3. CASE \E h \in DOMAIN v : v[h] = s
        BY <1>12, <4>3
      <4> QED
        BY <3>1, <3>6, <4>1, <4>2, <4>3
    <3> QED
      BY <1>13, <3>1, <3>2, <3>3, <3>4, <3>6
  <2> QED
    BY <1>1, <1>14, <2>1, <2>2, <2>3, PartFreed
<1>18. Holds(Q, v, ct, S)
  <2>1. \A x \in DOMAIN P : ct[Q[x]] = x[2]
    BY <1>1, <1>8 DEF Holds
  <2>2. ASSUME NEW i \in m + 1 .. b PROVE ct[Q[New(i)]] = New(i)[2]
    <3>1. ct[w[i]] = Take(R[q].ids, i)
      <4>1. e(i) \in DOMAIN t /\ t[e(i)] = w[i]
        BY <1>5, <1>13
      <4>2. ct[t[e(i)]] = Take(R[e(i)[1]].ids, e(i)[2])
        BY <1>1, <4>1 DEF Holds
      <4> QED
        BY <4>1, <4>2 DEF e
    <3>2. New(i)[2] = Take(R[q].ids, i)
      BY DEF New, Home
    <3> QED
      BY <1>8, <3>1, <3>2
  <2>3. \A x \in DOMAIN Q : ct[Q[x]] = x[2]
    BY <1>8, <2>1, <2>2
  <2>4. ASSUME NEW h \in DOMAIN v PROVE ct[v[h]] = Take(S[h[1]].ids, h[2])
    <3>1. h \in DOMAIN t /\ h[1] # q /\ v[h] = t[h]
      BY <1>2
    <3>2. h[1] \in H
      BY <3>1, TailsFacts DEF t
    <3>3. S[h[1]] = R[h[1]]
      BY <3>1, <3>2
    <3> QED
      BY <1>1, <3>1, <3>3 DEF Holds
  <2> QED
    BY <2>3, <2>4 DEF Holds
<1>19. ASSUME NEW p \in K PROVE RowOK(p, S[p], Q) /\ LenOK(S[p])
  <2>1. CASE p = q
    BY <2>1
  <2>2. CASE p # q
    <3>1. p \in H /\ S[p] = R[p] /\ RowOK(p, R[p], P) /\ LenOK(R[p])
      BY <1>1, <2>2
    <3>2. \A x \in DOMAIN P : x \in DOMAIN Q /\ Q[x] = P[x]
      BY <1>8
    <3> QED
      BY <3>1, <3>2 DEF RowOK
  <2> QED
    BY <2>1, <2>2
<1> QED
  BY <1>17, <1>18, <1>19 DEF SlotsOK, v, f, a, w

\* A request is admitted with the slots of its prefix and nothing else.
LEMMA AdmitSlots ==
    ASSUME NEW P, NEW H, NEW R, NEW fr, NEW ct, SlotsOK(P, H, R, fr, ct), NEW q, q \notin H,
           NEW K, K = H \cup {q}, NEW S, \A p \in H : S[p] = R[p],
           RowOK(q, S[q], P), LenOK(S[q]), S[q].plen = Len(S[q].row)
    PROVE  SlotsOK(P, K, S, fr, ct)
<1> DEFINE t == TailsOf(H, R)
           v == TailsOf(K, S)
<1>1. Part(P, t, fr) /\ Holds(P, t, ct, R) /\ \A p \in H : RowOK(p, R[p], P) /\ LenOK(R[p])
  BY DEF SlotsOK
<1>2. /\ \A h : h \in DOMAIN v <=> h \in DOMAIN t /\ h[1] # q
      /\ \A h \in DOMAIN v : v[h] = t[h]
  <2>1. \A p : p # q => (p \in K <=> p \in H)
    OBVIOUS
  <2>2. Len(S[q].row) \in Nat
    BY DEF RowOK
  <2>3. \A p \in H : p # q => S[p].row = R[p].row /\ S[p].plen = R[p].plen
    OBVIOUS
  <2> QED
    BY <2>1, <2>2, <2>3, TailsWithout, SMTT(20)
<1>3. \A h \in DOMAIN t : h[1] # q /\ h[1] \in H
  BY TailsFacts
<1> HIDE DEF t, v
<1>4. /\ \A h : h \in DOMAIN v <=> h \in DOMAIN t
      /\ \A h \in DOMAIN v : v[h] = t[h]
  BY <1>2, <1>3
<1>5. Part(P, v, fr)
  <2>1. \A s : Owned(P, v, s) <=> Owned(P, t, s)
    BY <1>4 DEF Owned
  <2>2. Apart(P, v)
    BY <1>1, <1>4, ApartSub DEF Part
  <2> QED
    BY <1>1, <2>1, <2>2 DEF Part
<1>6. Holds(P, v, ct, S)
  BY <1>1, <1>3, <1>4 DEF Holds
<1> QED
  BY <1>1, <1>5, <1>6 DEF SlotsOK, v

\* Without a tree and without requests every slot is free.
LEMMA EmptySlots ==
    ASSUME NEW R, NEW ct
    PROVE  SlotsOK(<<>>, {}, R, [s \in Slot |-> 1], ct)
<1>1. DOMAIN TailsOf({}, R) = {}
  BY TailsFacts
<1>2. DOMAIN <<>> = {}
  OBVIOUS
<1> QED
  BY <1>1, <1>2 DEF SlotsOK, Part, Apart, Owned, Holds

\* A request's slots are distinct ...
LEMMA RowInjective ==
    ASSUME NEW P, NEW H, NEW R, Apart(P, TailsOf(H, R)), NEW q \in H, RowOK(q, R[q], P)
    PROVE  \A i, j \in 1..Len(R[q].row) : R[q].row[i] = R[q].row[j] => i = j
<1> DEFINE t == TailsOf(H, R)
           a == R[q].plen
           b == Len(R[q].row)
           w == R[q].row
           z(i) == Home(q, R[q], i)
           e(i) == <<q, i>>
<1>1. Apart(P, t) /\ RowOK(q, R[q], P)
  OBVIOUS
<1>2. a \in Nat /\ b \in Nat /\ R[q].ids \in Seq(Nat) /\ a <= b /\ b <= Len(R[q].ids)
  BY <1>1 DEF RowOK
<1>3. \A i \in 1..b : i <= a => z(i) \in DOMAIN P /\ P[z(i)] = w[i]
  BY <1>1, <1>2 DEF RowOK
<1>4. \A i \in 1..b : ~(i <= a) => e(i) \in DOMAIN t /\ t[e(i)] = w[i]
  <2> SUFFICES ASSUME NEW i \in 1..b, ~(i <= a) PROVE e(i) \in DOMAIN t /\ t[e(i)] = w[i]
    OBVIOUS
  <2> DEFINE h == e(i)
  <2>1. h = <<h[1], h[2]>> /\ h[1] = q /\ h[2] = i
    OBVIOUS
  <2>2. InTail(R[q], i)
    BY <1>2 DEF InTail
  <2> HIDE DEF h
  <2>3. h \in DOMAIN t /\ t[h] = R[q].row[i]
    BY <2>1, <2>2, TailsFacts
  <2> QED
    BY <2>3 DEF h
<1>5. \A i, j \in 1..b : z(i) = z(j) => i = j
  <2> SUFFICES ASSUME NEW i \in 1..b, NEW j \in 1..b, z(i) = z(j) PROVE i = j
    OBVIOUS
  <2>1. i \in 0..Len(R[q].ids) /\ j \in 0..Len(R[q].ids)
    BY <1>2
  <2> QED
    BY ONLY <1>2, <2>1, z(i) = z(j), HomeInj
<1>6. \A i, j : e(i) = e(j) => i = j
  OBVIOUS
<1> HIDE DEF t, a, b, w, z, e
<1> SUFFICES ASSUME NEW i \in 1..b, NEW j \in 1..b, w[i] = w[j] PROVE i = j
  BY DEF b, w
<1>7. CASE i <= a /\ j <= a
  BY <1>1, <1>3, <1>5, <1>7 DEF Apart
<1>8. CASE ~(i <= a) /\ ~(j <= a)
  BY <1>1, <1>4, <1>6, <1>8 DEF Apart
<1>9. CASE i <= a /\ ~(j <= a)
  BY <1>1, <1>3, <1>4, <1>9 DEF Apart
<1>10. CASE ~(i <= a) /\ j <= a
  BY <1>1, <1>3, <1>4, <1>10 DEF Apart
<1> QED
  BY <1>7, <1>8, <1>9, <1>10

\* ... so its row is no longer than the pool.
LEMMA RowBound ==
    ASSUME NEW P, NEW H, NEW R, Apart(P, TailsOf(H, R)), NEW q \in H, RowOK(q, R[q], P)
    PROVE  Len(R[q].row) <= NumSlots
<1> DEFINE w == R[q].row
           n == Len(R[q].row)
<1>1. NumSlots \in Nat
  BY CacheAssumption
<1>2. w \in Seq(Slot) /\ n \in Nat /\ w \in [1..n -> Slot]
  BY DEF RowOK
<1>3. \A i, j \in 1..n : w[i] = w[j] => i = j
  BY RowInjective
<1>4. /\ IsFiniteSet(1..n) /\ Cardinality(1..n) = n
      /\ IsFiniteSet(1..NumSlots) /\ Cardinality(1..NumSlots) = NumSlots
  <2>1. ASSUME NEW k \in Nat PROVE IsFiniteSet(1..k) /\ Cardinality(1..k) = k
    <3>1. CASE k = 0
      BY <3>1, FS_Interval
    <3>2. CASE k # 0
      BY <3>2, FS_Interval
    <3> QED
      BY <3>1, <3>2
  <2> QED
    BY <1>1, <1>2, <2>1
<1> HIDE DEF w, n
<1>5. w \in Injection(1..n, Slot)
  BY <1>2, <1>3 DEF Injection, IsInjective
<1>6. Cardinality(1..n) <= Cardinality(Slot)
  BY <1>4, <1>5, FS_Injection DEF Slot
<1> QED
  BY <1>4, <1>6 DEF Slot, n

-----------------------------------------------------------------------------
(* The allocator, and how its slots are dealt out *)

\* The batch deals out all slots, each once.
Dealt(need, total, off) ==
    /\ \A q \in DOMAIN need : off[q] \in Nat /\ off[q] + need[q] <= total
    /\ \A p, q \in DOMAIN need : \A i \in 1..need[p], j \in 1..need[q] :
          off[p] + i = off[q] + j => p = q /\ i = j
    /\ \A k \in 1..total : \E q \in DOMAIN need : \E i \in 1..need[q] : k = off[q] + i

\* Where the share of request q begins.
Before(order, need, q) ==
    Total([k \in 1..Min({k \in DOMAIN order : order[k] = q}) - 1 |-> need[order[k]]])

\* The shares of the requests, in batch order.
LEMMA DealtFacts ==
    ASSUME NEW need, IsFiniteSet(DOMAIN need), \A q \in DOMAIN need : need[q] \in Nat
    PROVE  Dealt(need, Total(need),
                 [q \in DOMAIN need |-> Before(SetToSeq(DOMAIN need), need, q)])
<1> DEFINE D == DOMAIN need
           n == Cardinality(D)
           order == SetToSeq(D)
           f == [k \in 1..n |-> need[order[k]]]
           idx(q) == Min({k \in DOMAIN order : order[k] = q})
           off == [q \in D |-> Before(order, need, q)]
<1>1. /\ n \in Nat /\ order \in [1..n -> D]
      /\ \A i, j \in 1..n : order[i] = order[j] => i = j
      /\ \A x \in D : \E i \in 1..n : order[i] = x
  BY SetToSeqFacts
<1> HIDE DEF n, order
<1>2. \A k \in 1..n : f[k] = need[order[k]] /\ f[k] \in Nat
  BY <1>1
<1>3. Total(need) = Upto(f, n)
  <2>2. order \in [1..n -> DOMAIN need] /\ \A x \in DOMAIN need : \E i \in 1..n : order[i] = x
    BY <1>1
  <2> QED
    BY ONLY IsFiniteSet(DOMAIN need), \A q \in DOMAIN need : need[q] \in Nat,
            <1>1, <2>2, TotalOrder, SMTT(20)
<1>4. ASSUME NEW q \in D
      PROVE  /\ idx(q) \in 1..n /\ order[idx(q)] = q
             /\ off[q] = Upto(f, idx(q) - 1)
  <2> DEFINE S == {k \in DOMAIN order : order[k] = q}
  <2>1. DOMAIN order = 1..n
    BY <1>1
  <2>2. S \subseteq Nat /\ S # {}
    BY <1>1, <2>1
  <2>3. Min(S) \in S
    <3> HIDE DEF S
    <3> QED
      BY <2>2, MinFacts
  <2>4. idx(q) \in 1..n /\ order[idx(q)] = q
    BY <2>1, <2>3
  <2>5. \A k \in 1..idx(q) - 1 : k \in 1..n
    <3> HIDE DEF idx
    <3> QED
      BY <1>1, <2>4
  <2>6. [k \in 1..idx(q) - 1 |-> need[order[k]]] = [k \in 1..idx(q) - 1 |-> f[k]]
    <3> HIDE DEF f, idx
    <3> QED
      BY <1>2, <2>5
  <2>7. off[q] = Total([k \in 1..idx(q) - 1 |-> need[order[k]]])
    BY DEF Before
  <2> QED
    BY <2>4, <2>6, <2>7 DEF Upto
<1> HIDE DEF f, idx, off
<1>5. /\ \A i \in 0..n : Upto(f, i) \in Nat
      /\ \A i \in 1..n : Upto(f, i) = Upto(f, i - 1) + f[i]
  <2>1. \A k \in 1..n : f[k] \in Nat
    BY <1>2
  <2> QED
    BY <1>1, <2>1, UptoFacts
<1>6. \A i, j \in 0..n : i <= j => Upto(f, i) <= Upto(f, j)
  <2> SUFFICES ASSUME NEW i \in 0..n, NEW j \in 0..n, i <= j PROVE Upto(f, i) <= Upto(f, j)
    OBVIOUS
  <2>1. \A k \in 1..n : f[k] \in Nat
    BY <1>2
  <2> QED
    BY <1>1, <2>1, UptoMono
<1>7. ASSUME NEW q \in D
      PROVE  off[q] \in Nat /\ off[q] + need[q] = Upto(f, idx(q))
  <2>1. idx(q) - 1 \in 0..n /\ idx(q) \in 1..n /\ f[idx(q)] = need[q]
    BY <1>1, <1>2, <1>4
  <2> QED
    BY <1>4, <1>5, <2>1
<1>8. ASSUME NEW q \in D PROVE off[q] + need[q] <= Upto(f, n)
  <2>1. idx(q) \in 0..n /\ n \in 0..n /\ idx(q) <= n
    BY <1>1, <1>4
  <2> QED
    BY <1>6, <1>7, <2>1
<1>9. ASSUME NEW p \in D, NEW q \in D, idx(p) < idx(q)
      PROVE  off[p] + need[p] <= off[q]
  <2>1. n \in Nat /\ idx(p) \in 1..n /\ idx(q) \in 1..n
    BY ONLY <1>1, <1>4, p \in D, q \in D
  <2>2. idx(p) \in 0..n /\ idx(q) - 1 \in 0..n /\ idx(p) <= idx(q) - 1
    BY ONLY <1>9, <2>1
  <2> QED
    BY <1>4, <1>6, <1>7, <2>2
<1>10. ASSUME NEW p \in D, NEW q \in D, NEW i \in 1..need[p], NEW j \in 1..need[q],
              off[p] + i = off[q] + j
       PROVE  p = q /\ i = j
  <2>1. idx(p) \in Nat /\ idx(q) \in Nat /\ off[p] \in Nat /\ off[q] \in Nat
        /\ need[p] \in Nat /\ need[q] \in Nat
    BY <1>1, <1>4, <1>7, SMTT(30)
  <2>2. CASE idx(p) < idx(q)
    BY <1>9, <1>10, <2>1, <2>2
  <2>3. CASE idx(q) < idx(p)
    BY <1>9, <1>10, <2>1, <2>3
  <2>4. CASE idx(p) = idx(q)
    <3>1. p = q
      BY <1>4, <2>4
    <3> QED
      BY <1>10, <2>1, <3>1
  <2> QED
    BY <2>1, <2>2, <2>3, <2>4
<1>11. ASSUME NEW k \in 1..Upto(f, n)
       PROVE  \E q \in D : \E i \in 1..need[q] : k = off[q] + i
  <2> DEFINE s == Min({i \in 1..n : Upto(f, i) >= k})
  <2>0. k \in Nat /\ k > 0 /\ k <= Upto(f, n)
    BY <1>1, <1>5
  <2>1. s \in 1..n /\ Upto(f, s - 1) < k /\ k <= Upto(f, s - 1) + f[s]
    <3>1. s = Min({i \in 1..n : Upto(f, i) >= k})
      OBVIOUS
    <3> HIDE DEF s
    <3> QED
      BY <1>1, <1>2, <2>0, <3>1, UptoReaches
  <2> HIDE DEF s
  <2>2. order[s] \in D /\ idx(order[s]) = s
    BY <1>1, <1>4, <2>1
  <2>3. off[order[s]] = Upto(f, s - 1) /\ f[s] = need[order[s]]
    BY <1>2, <1>4, <2>1, <2>2
  <2>4. Upto(f, s - 1) \in Nat /\ f[s] \in Nat
    BY <1>1, <1>2, <1>5, <2>1
  <2>5. k - Upto(f, s - 1) \in 1..need[order[s]]
    BY <2>1, <2>3, <2>4
  <2>6. k = off[order[s]] + (k - Upto(f, s - 1))
    BY <2>0, <2>3, <2>4
  <2> QED
    BY <2>2, <2>5, <2>6
<1>12. Dealt(need, Total(need), off)
  BY <1>3, <1>7, <1>8, <1>10, <1>11 DEF Dealt
<1> QED
  BY <1>12 DEF off, order

\* S is R with the rows of the requests in DOMAIN need extended by their share of
\* the slots new, and nothing else changed but where the requests are.
Extended(H, R, S, need, off, new) ==
    /\ \A q \in DOMAIN need : q \in H /\ need[q] \in Nat
    /\ \A q \in H :
        /\ R[q].plen \in Nat /\ Len(R[q].row) \in Nat /\ R[q].plen <= Len(R[q].row)
        /\ S[q].ids = R[q].ids /\ S[q].plen = R[q].plen /\ S[q].last = R[q].last
        /\ q \notin DOMAIN need => S[q].row = R[q].row
        /\ q \in DOMAIN need =>
              /\ S[q].row \in Seq(Slot) /\ Len(S[q].row) = Len(R[q].row) + need[q]
              /\ \A i \in 1..Len(R[q].row) : S[q].row[i] = R[q].row[i]
              /\ \A i \in 1..need[q] : S[q].row[Len(R[q].row) + i] = new[off[q] + i]

\* The slots of the new parts of the rows.
LEMMA ExtendedTails ==
    ASSUME NEW H, NEW R, NEW S, NEW need, NEW off, NEW new, Extended(H, R, S, need, off, new)
    PROVE  LET t == TailsOf(H, R)
               v == TailsOf(H, S)
           IN  /\ \A h \in DOMAIN t : h \in DOMAIN v /\ v[h] = t[h]
               /\ \A h \in DOMAIN v : h \notin DOMAIN t =>
                     /\ h = <<h[1], h[2]>> /\ h[1] \in DOMAIN need
                     /\ h[2] - Len(R[h[1]].row) \in 1..need[h[1]]
                     /\ v[h] = new[off[h[1]] + (h[2] - Len(R[h[1]].row))]
               /\ \A q \in DOMAIN need : \A i \in 1..need[q] :
                     <<q, Len(R[q].row) + i>> \in DOMAIN v /\ <<q, Len(R[q].row) + i>> \notin DOMAIN t
<1> DEFINE t == TailsOf(H, R)
           v == TailsOf(H, S)
<1>0. ASSUME NEW q \in H
      PROVE  /\ R[q].plen \in Nat /\ Len(R[q].row) \in Nat /\ R[q].plen <= Len(R[q].row)
             /\ S[q].plen = R[q].plen
             /\ q \notin DOMAIN need => S[q].row = R[q].row
             /\ q \in DOMAIN need =>
                   /\ need[q] \in Nat
                   /\ Len(S[q].row) = Len(R[q].row) + need[q]
                   /\ \A i \in 1..Len(R[q].row) : S[q].row[i] = R[q].row[i]
                   /\ \A i \in 1..need[q] : S[q].row[Len(R[q].row) + i] = new[off[q] + i]
  BY DEF Extended
<1>1. ASSUME NEW h \in DOMAIN t PROVE h \in DOMAIN v /\ v[h] = t[h]
  <2>1. /\ h = <<h[1], h[2]>> /\ h[1] \in H /\ InTail(R[h[1]], h[2])
        /\ t[h] = R[h[1]].row[h[2]]
    BY TailsFacts
  <2> DEFINE q == h[1]
             j == h[2]
  <2>2. j \in 1..Len(R[q].row) /\ R[q].plen < j
    BY <1>0, <2>1 DEF InTail
  <2>3. InTail(S[q], j) /\ S[q].row[j] = R[q].row[j]
    <3>1. q \in H
      BY <2>1
    <3> HIDE DEF q, j
    <3>2. CASE q \in DOMAIN need
      BY <1>0, <2>2, <3>1, <3>2, SMTT(20) DEF InTail
    <3>3. CASE q \notin DOMAIN need
      BY <1>0, <2>2, <3>1, <3>3 DEF InTail
    <3> QED
      BY <3>2, <3>3
  <2> QED
    BY <2>1, <2>3, TailsFacts
<1>2. ASSUME NEW h \in DOMAIN v, h \notin DOMAIN t
      PROVE  /\ h = <<h[1], h[2]>> /\ h[1] \in DOMAIN need
             /\ h[2] - Len(R[h[1]].row) \in 1..need[h[1]]
             /\ v[h] = new[off[h[1]] + (h[2] - Len(R[h[1]].row))]
  <2>1. /\ h = <<h[1], h[2]>> /\ h[1] \in H /\ InTail(S[h[1]], h[2])
        /\ v[h] = S[h[1]].row[h[2]] /\ ~InTail(R[h[1]], h[2])
    BY <1>2, TailsFacts
  <2> DEFINE q == h[1]
             j == h[2]
  <2>2. q \in H /\ InTail(S[q], j) /\ ~InTail(R[q], j)
    BY <2>1
  <2> HIDE DEF q, j
  <2>3. q \in DOMAIN need
    BY <1>0, <2>2 DEF InTail
  <2>4. j \in Nat /\ j > Len(R[q].row) /\ j <= Len(R[q].row) + need[q]
    BY <1>0, <2>2, <2>3, SMTT(20) DEF InTail
  <2>5. j - Len(R[q].row) \in 1..need[q] /\ Len(R[q].row) + (j - Len(R[q].row)) = j
    BY <1>0, <2>2, <2>3, <2>4
  <2>6. S[q].row[j] = new[off[q] + (j - Len(R[q].row))]
    BY <1>0, <2>2, <2>3, <2>5
  <2> QED
    BY <2>1, <2>3, <2>5, <2>6 DEF q, j
<1>3. ASSUME NEW q \in DOMAIN need, NEW i \in 1..need[q]
      PROVE  <<q, Len(R[q].row) + i>> \in DOMAIN v /\ <<q, Len(R[q].row) + i>> \notin DOMAIN t
  <2> DEFINE h == <<q, Len(R[q].row) + i>>
  <2>1. h = <<h[1], h[2]>> /\ h[1] = q /\ h[2] = Len(R[q].row) + i /\ q \in H
    BY DEF Extended
  <2>2. InTail(S[q], Len(R[q].row) + i) /\ ~InTail(R[q], Len(R[q].row) + i)
    BY <1>0, <2>1 DEF InTail
  <2> HIDE DEF h
  <2>3. h \in DOMAIN v /\ h \notin DOMAIN t
    BY <2>1, <2>2, TailsFacts
  <2> QED
    BY <2>3 DEF h
<1> QED
  BY <1>1, <1>2, <1>3

\* alloc_token_slots and the rows of the batch: every slot still has one owner.
LEMMA LaunchPart ==
    ASSUME NEW P, NEW H, NEW R, NEW fr, NEW ct, SlotsOK(P, H, R, fr, ct),
           NEW need, DOMAIN need \subseteq H, \A q \in DOMAIN need : need[q] \in Nat,
           NEW n \in Nat, Available(fr) >= n, NEW off, Dealt(need, n, off),
           NEW S, Extended(H, R, S, need, off, AllocSeq(fr, n))
    PROVE  Part(P, TailsOf(H, S), AllocRest(fr, n))
<1> DEFINE t == TailsOf(H, R)
           v == TailsOf(H, S)
           a == AllocSeq(fr, n)
           rest == AllocRest(fr, n)
           L(q) == Len(R[q].row)
           k == [h \in DOMAIN v |-> off[h[1]] + (h[2] - L(h[1]))]
<1>1. Part(P, t, fr) /\ \A q \in H : RowOK(q, R[q], P)
  BY DEF SlotsOK
<1>2. fr \in [Slot -> {0, 1}]
  BY <1>1 DEF Part
<1>3. /\ a \in Seq(Slot) /\ Len(a) = n
      /\ \A i \in 1..n : a[i] \in Slot /\ fr[a[i]] = 1
      /\ \A i, j \in 1..n : a[i] = a[j] => i = j
      /\ rest \in [Slot -> {0, 1}]
      /\ \A s \in Slot : rest[s] = 0 <=> fr[s] = 0 \/ \E i \in 1..n : a[i] = s
  <2>1. /\ a \in Seq(Slot) /\ Len(a) = n /\ DOMAIN a = 1..n
        /\ \A i \in 1..n : fr[a[i]] = 1
        /\ \A i, j \in 1..n : a[i] = a[j] => i = j
        /\ rest \in [Slot -> {0, 1}]
        /\ \A s \in Slot : rest[s] = 0 <=> fr[s] = 0 \/ \E i \in 1..n : a[i] = s
    BY <1>2, CacheAssumption, AllocFacts
  <2> HIDE DEF a, rest
  <2>2. \A i \in 1..n : a[i] \in Slot
    BY <2>1
  <2> QED
    BY <2>1, <2>2
<1>4. /\ \A h \in DOMAIN t : h \in DOMAIN v /\ v[h] = t[h]
      /\ \A h \in DOMAIN v : h \notin DOMAIN t =>
            /\ h = <<h[1], h[2]>> /\ h[1] \in DOMAIN need
            /\ h[2] - L(h[1]) \in 1..need[h[1]]
            /\ v[h] = a[off[h[1]] + (h[2] - L(h[1]))]
      /\ \A q \in DOMAIN need : \A i \in 1..need[q] :
            <<q, L(q) + i>> \in DOMAIN v /\ <<q, L(q) + i>> \notin DOMAIN t
  BY ExtendedTails
<1>5. /\ \A q \in DOMAIN need : off[q] \in Nat /\ off[q] + need[q] <= n
      /\ \A p, q \in DOMAIN need : \A i \in 1..need[p], j \in 1..need[q] :
            off[p] + i = off[q] + j => p = q /\ i = j
      /\ \A i \in 1..n : \E q \in DOMAIN need : \E j \in 1..need[q] : i = off[q] + j
  BY DEF Dealt
<1>6. \A q \in DOMAIN need : L(q) \in Nat
  BY <1>1 DEF RowOK
<1>7. \A h \in DOMAIN v : k[h] = off[h[1]] + (h[2] - L(h[1]))
  OBVIOUS
<1>8. \A h \in DOMAIN v : h[2] \in Nat
  BY TailsFacts DEF InTail
<1> HIDE DEF t, v, a, rest, k, L
<1>9. \A h \in DOMAIN v : h \notin DOMAIN t => k[h] \in 1..n /\ v[h] = a[k[h]]
  <2> SUFFICES ASSUME NEW h \in DOMAIN v, h \notin DOMAIN t
               PROVE  k[h] \in 1..n /\ v[h] = a[k[h]]
    OBVIOUS
  <2> DEFINE q == h[1]
             i == h[2] - L(h[1])
  <2>1. q \in DOMAIN need /\ i \in 1..need[q] /\ v[h] = a[off[q] + i] /\ k[h] = off[q] + i
    BY <1>4, <1>7
  <2> HIDE DEF q, i
  <2>2. off[q] + i \in 1..n
    BY <1>5, <2>1
  <2> QED
    BY <2>1, <2>2
<1>10. \A g, h \in DOMAIN v : g \notin DOMAIN t /\ h \notin DOMAIN t /\ k[g] = k[h] => g = h
  <2> SUFFICES ASSUME NEW g \in DOMAIN v, NEW h \in DOMAIN v, g \notin DOMAIN t,
                      h \notin DOMAIN t, k[g] = k[h]
               PROVE  g = h
    OBVIOUS
  <2> DEFINE p == g[1]
             q == h[1]
             i == g[2] - L(g[1])
             j == h[2] - L(h[1])
  <2>1. /\ p \in DOMAIN need /\ i \in 1..need[p] /\ k[g] = off[p] + i
        /\ q \in DOMAIN need /\ j \in 1..need[q] /\ k[h] = off[q] + j
        /\ g = <<g[1], g[2]>> /\ h = <<h[1], h[2]>>
    BY <1>4, <1>7
  <2>2. p = q /\ i = j
    <3> HIDE DEF p, q, i, j
    <3>1. off[p] + i = off[q] + j
      BY <2>1
    <3>2. \A x, y \in DOMAIN need : \A c \in 1..need[x], d \in 1..need[y] :
             off[x] + c = off[y] + d => x = y /\ c = d
      BY <1>5
    <3> QED
      BY ONLY <2>1, <3>1, <3>2
  <2>3. g[2] = h[2]
    BY <1>6, <1>8, <2>1, <2>2
  <2> QED
    BY <2>1, <2>2, <2>3
<1>11. \A i \in 1..n : \E h \in DOMAIN v : h \notin DOMAIN t /\ k[h] = i
  <2> SUFFICES ASSUME NEW i \in 1..n PROVE \E h \in DOMAIN v : h \notin DOMAIN t /\ k[h] = i
    OBVIOUS
  <2>1. PICK q \in DOMAIN need : \E j \in 1..need[q] : i = off[q] + j
    BY <1>5
  <2>2. PICK j \in 1..need[q] : i = off[q] + j
    BY <2>1
  <2> DEFINE h == <<q, L(q) + j>>
  <2>3. h \in DOMAIN v /\ h \notin DOMAIN t
    BY <1>4
  <2>4. h[1] = q /\ h[2] = L(q) + j
    OBVIOUS
  <2>5. h[2] - L(h[1]) = j
    BY <1>6, <2>4
  <2> HIDE DEF h
  <2> QED
    BY <1>7, <2>2, <2>3, <2>4, <2>5
<1>12. Part(P, v, rest)
  <2>1. Taken(fr, n, a, rest)
    BY <1>3 DEF Taken
  <2>2. TailsGrow(t, v, n, a, k)
    BY <1>4, <1>9, <1>10, <1>11 DEF TailsGrow
  <2> QED
    BY <1>1, <2>1, <2>2, GrowPart
<1> QED
  BY <1>12 DEF v, rest

\* The extended rows still begin with the slots of the prefix.
LEMMA LaunchRows ==
    ASSUME NEW P, NEW H, NEW R, NEW need, NEW S, NEW off, NEW new,
           \A q \in DOMAIN need : need[q] \in Nat,
           Extended(H, R, S, need, off, new), NEW q \in H, RowOK(q, R[q], P),
           Len(S[q].row) <= Len(R[q].ids)
    PROVE  RowOK(q, S[q], P)
<1>1. /\ S[q].ids = R[q].ids /\ S[q].plen = R[q].plen /\ S[q].last = R[q].last
      /\ q \notin DOMAIN need => S[q].row = R[q].row
      /\ q \in DOMAIN need =>
              /\ S[q].row \in Seq(Slot) /\ Len(S[q].row) = Len(R[q].row) + need[q]
              /\ \A i \in 1..Len(R[q].row) : S[q].row[i] = R[q].row[i]
  BY DEF Extended
<1>2. \A i : Home(q, S[q], i) = Home(q, R[q], i)
  BY <1>1 DEF Home
<1>3. /\ R[q].ids \in Seq(Nat) /\ R[q].plen \in Nat
      /\ R[q].row \in Seq(Slot) /\ R[q].plen <= Len(R[q].row)
      /\ R[q].last = IF R[q].plen = 0 THEN NoNode ELSE Home(q, R[q], R[q].plen)
      /\ \A i \in 1..R[q].plen : Home(q, R[q], i) \in DOMAIN P /\ P[Home(q, R[q], i)] = R[q].row[i]
  BY DEF RowOK
<1>4. S[q].row \in Seq(Slot) /\ R[q].plen <= Len(S[q].row)
  BY <1>1, <1>3
<1>5. \A i \in 1..R[q].plen : S[q].row[i] = R[q].row[i]
  BY <1>1, <1>3
<1> QED
  BY <1>1, <1>2, <1>3, <1>4, <1>5 DEF RowOK

\* A sequence extended by a part of another.
LEMMA ExtendSeq ==
    ASSUME NEW S, NEW w \in Seq(S), NEW new \in Seq(S), NEW o \in Nat, NEW c \in Nat,
           o + c <= Len(new)
    PROVE  LET row == w \o SubSeq(new, o + 1, o + c)
           IN  /\ row \in Seq(S) /\ Len(row) = Len(w) + c
               /\ \A i \in 1..Len(w) : row[i] = w[i]
               /\ \A i \in 1..c : row[Len(w) + i] = new[o + i]
<1> DEFINE b == o + c
           row == w \o SubSeq(new, o + 1, b)
           s == SubSeq(new, o + 1, b)
<1>1. b \in Nat /\ o <= b /\ b - o = c /\ b <= Len(new) /\ row = w \o s
  OBVIOUS
<1>2. s \in Seq(S) /\ Len(s) = c /\ \A i \in 1..c : s[i] = new[o + i]
  <2> HIDE DEF b
  <2>1. s \in Seq(S) /\ Len(s) = b - o /\ \A i \in 1..b - o : s[i] = new[o + i]
    BY <1>1, SubSeqFacts
  <2> HIDE DEF s
  <2> QED
    BY <1>1, <2>1
<1> HIDE DEF s, row
<1>3. /\ w \o s \in Seq(S) /\ Len(w \o s) = Len(w) + Len(s)
      /\ \A i \in 1..Len(w) + Len(s) : (w \o s)[i] = IF i <= Len(w) THEN w[i] ELSE s[i - Len(w)]
  BY <1>2, ConcatProperties
<1>4. row \in Seq(S) /\ Len(row) = Len(w) + c
      /\ \A i \in 1..Len(w) + c : row[i] = IF i <= Len(w) THEN w[i] ELSE s[i - Len(w)]
  BY <1>1, <1>2, <1>3
<1>5. Len(w) \in Nat
  OBVIOUS
<1>6. ASSUME NEW i \in 1..Len(w) PROVE row[i] = w[i]
  <2>1. i \in 1..Len(w) + c /\ i <= Len(w)
    BY <1>5
  <2> QED
    BY <1>4, <2>1
<1>7. ASSUME NEW i \in 1..c PROVE row[Len(w) + i] = new[o + i]
  <2>1. Len(w) + i \in 1..Len(w) + c /\ ~(Len(w) + i <= Len(w)) /\ (Len(w) + i) - Len(w) = i
    BY <1>5
  <2>2. row[Len(w) + i] = s[i]
    BY <1>4, <2>1
  <2> QED
    BY <1>2, <2>2
<1> QED
  BY <1>4, <1>6, <1>7 DEF row

\* The rows of the batch are extended by their share of the new slots.
LEMMA RowsFacts ==
    ASSUME NEW need, NEW new \in Seq(Slot), NEW order, NEW q \in DOMAIN need,
           need[q] \in Nat, req[q].row \in Seq(Slot), Before(order, need, q) \in Nat,
           Before(order, need, q) + need[q] <= Len(new)
    PROVE  LET row == Rows(order, need, new)[q]
           IN  /\ row \in Seq(Slot) /\ Len(row) = Len(req[q].row) + need[q]
               /\ \A i \in 1..Len(req[q].row) : row[i] = req[q].row[i]
               /\ \A i \in 1..need[q] :
                     row[Len(req[q].row) + i] = new[Before(order, need, q) + i]
<1> DEFINE row == Rows(order, need, new)[q]
           c == need[q]
           w == req[q].row
           o == Before(order, need, q)
<1>1. row = w \o SubSeq(new, o + 1, o + c)
  BY DEF Rows, Before
<1>2. w \in Seq(Slot) /\ new \in Seq(Slot) /\ o \in Nat /\ c \in Nat /\ o + c <= Len(new)
  OBVIOUS
<1> HIDE DEF row, c, w, o
<1>3. /\ row \in Seq(Slot) /\ Len(row) = Len(w) + c
      /\ \A i \in 1..Len(w) : row[i] = w[i]
      /\ \A i \in 1..c : row[Len(w) + i] = new[o + i]
  BY ONLY <1>1, <1>2, ExtendSeq
<1> QED
  BY <1>3 DEF row, c, w, o

\* The slots a[1..n] are dealt out over rows of at most NumSlots slots.
Filled(need, n, off, a, rows) ==
    /\ \A q \in DOMAIN need : need[q] \in Nat /\ Len(req[q].row) \in Nat
    /\ Dealt(need, n, off)
    /\ \A i \in 1..n : a[i] \in Slot
    /\ \A i, j \in 1..n : a[i] = a[j] => i = j
    /\ DOMAIN rows = DOMAIN need
    /\ \A q \in DOMAIN need :
          /\ Len(rows[q]) = Len(req[q].row) + need[q] /\ Len(rows[q]) <= NumSlots
          /\ \A i \in 1..need[q] : rows[q][Len(req[q].row) + i] = a[off[q] + i]

\* The forward pass writes the KV of each new position to its slot, and nothing else.
LEMMA ForwardFacts ==
    ASSUME NEW need, NEW n \in Nat, NEW off, NEW a, NEW rows, Filled(need, n, off, a, rows)
    PROVE  /\ \A q \in DOMAIN need : \A i \in 1..need[q] :
                 Forward(rows)[a[off[q] + i]] = Take(req[q].ids, Len(req[q].row) + i)
           /\ \A s \in Slot : (\A i \in 1..n : a[i] # s) => Forward(rows)[s] = kv[s]
<1> DEFINE L(q) == Len(req[q].row)
           W(s) == {w \in (DOMAIN rows) \X (1..NumSlots) :
                       /\ w[2] > L(w[1]) /\ w[2] <= Len(rows[w[1]])
                       /\ rows[w[1]][w[2]] = s}
           G(s) == IF W(s) = {} THEN kv[s]
                   ELSE LET w == CHOOSE w \in W(s) : TRUE IN Take(req[w[1]].ids, w[2])
<1> USE DEF Filled
<1>0. NumSlots \in Nat
  BY CacheAssumption
<1>1. Forward(rows) = [s \in Slot |-> G(s)]
  BY DEF Forward
<1>2. /\ \A q \in DOMAIN need : off[q] \in Nat /\ off[q] + need[q] <= n
      /\ \A p, q \in DOMAIN need : \A i \in 1..need[p], j \in 1..need[q] :
            off[p] + i = off[q] + j => p = q /\ i = j
  BY DEF Dealt
<1>3. ASSUME NEW s, NEW w \in W(s)
      PROVE  \E q \in DOMAIN need : \E i \in 1..need[q] :
                w = <<q, L(q) + i>> /\ a[off[q] + i] = s /\ off[q] + i \in 1..n
  <2> DEFINE q == w[1]
             j == w[2]
             i == j - L(q)
  <2>1. /\ w = <<q, j>> /\ q \in DOMAIN need /\ j \in 1..NumSlots
        /\ j > L(q) /\ j <= Len(rows[q]) /\ rows[q][j] = s
    OBVIOUS
  <2> HIDE DEF q, j
  <2>2. L(q) \in Nat /\ need[q] \in Nat /\ Len(rows[q]) = L(q) + need[q]
    BY <2>1
  <2>3. i \in 1..need[q] /\ j = L(q) + i
    <3> HIDE DEF L
    <3> QED
      BY <1>0, <2>1, <2>2
  <2> HIDE DEF i
  <2>4. a[off[q] + i] = s
    BY <2>1, <2>3
  <2>5. off[q] + i \in 1..n
    BY <1>2, <2>1, <2>2, <2>3, SMTT(30)
  <2> QED
    BY <2>1, <2>3, <2>4, <2>5
<1>4. ASSUME NEW q \in DOMAIN need, NEW i \in 1..need[q]
      PROVE  G(a[off[q] + i]) = Take(req[q].ids, L(q) + i) /\ a[off[q] + i] \in Slot
  <2> DEFINE s == a[off[q] + i]
             z == <<q, L(q) + i>>
  <2>1. off[q] + i \in 1..n
    BY <1>2
  <2>2. z \in W(s)
    <3>0. /\ need[q] \in Nat /\ L(q) \in Nat /\ Len(rows[q]) = L(q) + need[q]
          /\ Len(rows[q]) <= NumSlots /\ rows[q][L(q) + i] = s
      OBVIOUS
    <3> HIDE DEF L, s
    <3>1. L(q) + i \in 1..NumSlots /\ L(q) + i > L(q) /\ L(q) + i <= Len(rows[q])
          /\ rows[q][L(q) + i] = s
      BY <1>0, <3>0
    <3>2. z[1] = q /\ z[2] = L(q) + i
      OBVIOUS
    <3>3. z \in (DOMAIN rows) \X (1..NumSlots)
      BY <3>1
    <3> HIDE DEF z
    <3> QED
      BY <3>1, <3>2, <3>3
  <2>3. ASSUME NEW w \in W(s) PROVE w = z
    <3> HIDE DEF L, W, z
    <3>1. PICK p \in DOMAIN need : \E j \in 1..need[p] :
             w = <<p, L(p) + j>> /\ a[off[p] + j] = s /\ off[p] + j \in 1..n
      BY <1>3
    <3>2. PICK j \in 1..need[p] : w = <<p, L(p) + j>> /\ a[off[p] + j] = s /\ off[p] + j \in 1..n
      BY <3>1
    <3>3. off[p] + j = off[q] + i
      BY <2>1, <3>2
    <3>4. p = q /\ j = i
      <4>1. \A x, y \in DOMAIN need : \A c \in 1..need[x], d \in 1..need[y] :
                off[x] + c = off[y] + d => x = y /\ c = d
        BY <1>2
      <4> QED
        BY ONLY <3>3, <4>1, p \in DOMAIN need, q \in DOMAIN need, j \in 1..need[p], i \in 1..need[q]
    <3> QED
      BY <3>2, <3>4 DEF z
  <2> HIDE DEF W
  <2>4. (CHOOSE w \in W(s) : TRUE) = z /\ W(s) # {}
    <3> HIDE DEF z, s
    <3> QED
      BY <2>2, <2>3
  <2>5. z[1] = q /\ z[2] = L(q) + i
    OBVIOUS
  <2>6. G(s) = Take(req[z[1]].ids, z[2])
    <3> HIDE DEF z, s
    <3> QED
      BY <2>4
  <2>7. s \in Slot
    BY <2>1
  <2> HIDE DEF G, z, s
  <2> QED
    BY <2>5, <2>6, <2>7 DEF s
<1>5. ASSUME NEW s \in Slot, \A i \in 1..n : a[i] # s PROVE G(s) = kv[s]
  <2>1. W(s) = {}
    <3> SUFFICES ASSUME NEW w \in W(s) PROVE FALSE
      OBVIOUS
    <3> QED
      BY <1>3, <1>5
  <2> HIDE DEF W
  <2> QED
    BY <2>1
<1> HIDE DEF G
<1>6. \A q \in DOMAIN need : \A i \in 1..need[q] :
          Forward(rows)[a[off[q] + i]] = Take(req[q].ids, L(q) + i)
  BY <1>1, <1>4
<1> QED
  BY <1>1, <1>5, <1>6

\* alloc_token_slots and the forward pass for a batch: every slot has one owner and
\* holds what its owner reads there.
LEMMA LaunchSlots ==
    ASSUME NEW P, NEW H, NEW fr, SlotsOK(P, H, req, fr, kv),
           NEW need, DOMAIN need \subseteq H, IsFiniteSet(DOMAIN need),
           \A q \in DOMAIN need : need[q] \in Nat /\ Len(req[q].row) + need[q] <= Len(req[q].ids),
           NEW n, n = Total(need), Available(fr) >= n,
           NEW rows, rows = Rows(SetToSeq(DOMAIN need), need, AllocSeq(fr, n)),
           NEW S,
           \A q \in H : /\ S[q].ids = req[q].ids /\ S[q].plen = req[q].plen
                        /\ S[q].last = req[q].last
                        /\ S[q].row = IF q \in DOMAIN need THEN rows[q] ELSE req[q].row,
           \A q \in H : q \notin DOMAIN need => LenOK(S[q]),
           \A q \in DOMAIN need : Len(rows[q]) = Len(req[q].row) + need[q] => LenOK(S[q])
    PROVE  SlotsOK(P, H, S, AllocRest(fr, n), Forward(rows))
<1> DEFINE a == AllocSeq(fr, n)
           order == SetToSeq(DOMAIN need)
           off == [q \in DOMAIN need |-> Before(order, need, q)]
           t == TailsOf(H, req)
           v == TailsOf(H, S)
<1>1. Part(P, t, fr) /\ Holds(P, t, kv, req) /\ \A q \in H : RowOK(q, req[q], P) /\ LenOK(req[q])
  BY DEF SlotsOK
<1>2. fr \in [Slot -> {0, 1}]
  BY <1>1 DEF Part
<1>3. n \in Nat
  BY PairsFinite
<1>4. Dealt(need, n, off)
  <2>1. \A q \in DOMAIN need : need[q] \in Nat
    OBVIOUS
  <2> QED
    BY <2>1, DealtFacts
<1>5. /\ a \in Seq(Slot) /\ Len(a) = n
      /\ \A i \in 1..n : a[i] \in Slot /\ fr[a[i]] = 1
      /\ \A i, j \in 1..n : a[i] = a[j] => i = j
  <2>1. /\ a \in Seq(Slot) /\ Len(a) = n /\ DOMAIN a = 1..n
        /\ \A i \in 1..n : fr[a[i]] = 1
        /\ \A i, j \in 1..n : a[i] = a[j] => i = j
    BY <1>2, <1>3, CacheAssumption, AllocFacts
  <2> HIDE DEF a
  <2>2. \A i \in 1..n : a[i] \in Slot
    BY <2>1
  <2> QED
    BY <2>1, <2>2
<1>6. ASSUME NEW q \in DOMAIN need
      PROVE  /\ req[q].row \in Seq(Slot) /\ Len(req[q].row) \in Nat
             /\ off[q] = Before(order, need, q) /\ off[q] \in Nat /\ off[q] + need[q] <= n
  <2>1. req[q].row \in Seq(Slot) /\ Len(req[q].row) \in Nat
    BY <1>1 DEF RowOK
  <2>2. off[q] = Before(order, need, q)
    OBVIOUS
  <2> HIDE DEF off
  <2> QED
    BY <1>4, <2>1, <2>2 DEF Dealt
<1> HIDE DEF a, order, off
<1>7. ASSUME NEW q \in DOMAIN need
      PROVE  /\ rows[q] \in Seq(Slot) /\ Len(rows[q]) = Len(req[q].row) + need[q]
             /\ \A i \in 1..Len(req[q].row) : rows[q][i] = req[q].row[i]
             /\ \A i \in 1..need[q] : rows[q][Len(req[q].row) + i] = a[off[q] + i]
  <2>1. /\ need[q] \in Nat /\ req[q].row \in Seq(Slot) /\ Before(order, need, q) \in Nat
        /\ Before(order, need, q) + need[q] <= Len(a) /\ a \in Seq(Slot)
    BY <1>5, <1>6
  <2>2. rows = Rows(order, need, a)
    BY DEF order, a
  <2>3. /\ rows[q] \in Seq(Slot) /\ Len(rows[q]) = Len(req[q].row) + need[q]
        /\ \A i \in 1..Len(req[q].row) : rows[q][i] = req[q].row[i]
        /\ \A i \in 1..need[q] : rows[q][Len(req[q].row) + i] = a[Before(order, need, q) + i]
    BY ONLY q \in DOMAIN need, <2>1, <2>2, RowsFacts
  <2> QED
    BY <1>6, <2>3
<1>8. Extended(H, req, S, need, off, a)
  <2>1. \A q \in H : req[q].plen \in Nat /\ Len(req[q].row) \in Nat /\ req[q].plen <= Len(req[q].row)
    BY <1>1 DEF RowOK
  <2> QED
    BY <1>7, <2>1, SMTT(20) DEF Extended
<1>9. Part(P, v, AllocRest(fr, n))
  <2>1. \A q \in DOMAIN need : need[q] \in Nat
    OBVIOUS
  <2> QED
    BY <1>3, <1>4, <1>8, <2>1, LaunchPart DEF a
<1>10. ASSUME NEW q \in H PROVE RowOK(q, S[q], P) /\ LenOK(S[q])
  <2>1. Len(S[q].row) <= Len(req[q].ids)
    <3>1. CASE q \in DOMAIN need
      BY <1>7, <3>1
    <3>2. CASE q \notin DOMAIN need
      BY <1>1, <3>2 DEF RowOK
    <3> QED
      BY <3>1, <3>2
  <2>2. RowOK(q, S[q], P)
    <3>1. \A p \in DOMAIN need : need[p] \in Nat
      OBVIOUS
    <3> QED
      BY <1>1, <1>8, <2>1, <3>1, LaunchRows
  <2>3. LenOK(S[q])
    BY <1>7
  <2> QED
    BY <2>2, <2>3
<1>11. \A q \in DOMAIN need : Len(rows[q]) <= NumSlots
  <2> SUFFICES ASSUME NEW q \in DOMAIN need PROVE Len(rows[q]) <= NumSlots
    OBVIOUS
  <2>1. q \in H /\ S[q].row = rows[q] /\ RowOK(q, S[q], P) /\ Apart(P, v)
    BY <1>9, <1>10 DEF Part
  <2>2. Len(S[q].row) <= NumSlots
    BY <2>1, RowBound
  <2> QED
    BY <2>1, <2>2
<1>12. /\ \A q \in DOMAIN need : \A i \in 1..need[q] :
             Forward(rows)[a[off[q] + i]] = Take(req[q].ids, Len(req[q].row) + i)
       /\ \A s \in Slot : (\A i \in 1..n : a[i] # s) => Forward(rows)[s] = kv[s]
  <2>1. DOMAIN rows = DOMAIN need
    BY DEF Rows
  <2>2. \A q \in DOMAIN need : need[q] \in Nat /\ Len(req[q].row) \in Nat
    BY <1>6
  <2>3. \A q \in DOMAIN need :
              /\ Len(rows[q]) = Len(req[q].row) + need[q] /\ Len(rows[q]) <= NumSlots
              /\ \A i \in 1..need[q] : rows[q][Len(req[q].row) + i] = a[off[q] + i]
    BY <1>7, <1>11
  <2>4. \A i \in 1..n : a[i] \in Slot
    BY <1>5
  <2>5. \A i, j \in 1..n : a[i] = a[j] => i = j
    BY <1>5
  <2>6. Filled(need, n, off, a, rows)
    BY <1>4, <2>1, <2>2, <2>3, <2>4, <2>5 DEF Filled
  <2> QED
    BY <1>3, <2>6, ForwardFacts
<1>13. \A s \in Slot : Owned(P, t, s) => \A i \in 1..n : a[i] # s
  BY <1>1, <1>5 DEF Part
<1>14. /\ \A h \in DOMAIN t : h \in DOMAIN v /\ v[h] = t[h]
       /\ \A h \in DOMAIN v : h \notin DOMAIN t =>
            /\ h = <<h[1], h[2]>> /\ h[1] \in DOMAIN need
            /\ h[2] - Len(req[h[1]].row) \in 1..need[h[1]]
            /\ v[h] = a[off[h[1]] + (h[2] - Len(req[h[1]].row))]
  BY <1>8, ExtendedTails
<1>15. \A h \in DOMAIN v : h[1] \in H /\ h[2] \in Nat
  BY TailsFacts DEF InTail
<1> HIDE DEF t, v
<1>16. Holds(P, v, Forward(rows), S)
  <2>1. \A x \in DOMAIN P : Forward(rows)[P[x]] = x[2]
    <3> SUFFICES ASSUME NEW x \in DOMAIN P PROVE Forward(rows)[P[x]] = x[2]
      OBVIOUS
    <3>1. P[x] \in Slot /\ Owned(P, t, P[x])
      BY <1>1 DEF Part, Apart, Owned
    <3> QED
      BY <1>1, <1>12, <1>13, <3>1 DEF Holds
  <2>2. ASSUME NEW h \in DOMAIN v PROVE Forward(rows)[v[h]] = Take(S[h[1]].ids, h[2])
    <3>0. S[h[1]].ids = req[h[1]].ids
      BY <1>15
    <3>1. CASE h \in DOMAIN t
      <4>1. t[h] \in Slot /\ Owned(P, t, t[h]) /\ v[h] = t[h]
        BY <1>1, <1>14, <3>1 DEF Part, Apart, Owned
      <4> QED
        BY <1>1, <1>12, <1>13, <3>0, <3>1, <4>1 DEF Holds
    <3>2. CASE h \notin DOMAIN t
      <4> DEFINE q == h[1]
                 i == h[2] - Len(req[q].row)
      <4>1. q \in DOMAIN need /\ i \in 1..need[q] /\ v[h] = a[off[q] + i]
        BY <1>14, <3>2
      <4>2. Len(req[q].row) + i = h[2]
        BY <1>6, <1>15, <4>1
      <4> HIDE DEF i
      <4>3. Forward(rows)[v[h]] = Take(req[q].ids, Len(req[q].row) + i)
        BY <1>12, <4>1
      <4> QED
        BY <3>0, <4>2, <4>3
    <3> QED
      BY <3>1, <3>2
  <2> QED
    BY <2>1, <2>2 DEF Holds
<1> QED
  BY <1>9, <1>10, <1>16 DEF SlotsOK, v

-----------------------------------------------------------------------------
(* The slots along the tree's operations *)

\* A shorter prefix of a request is above a longer one.
LEMMA HomeAbove ==
    ASSUME NEW q, NEW r, r.ids \in Seq(Nat), NEW n \in 0..Len(r.ids), NEW i \in 1..n
    PROVE  /\ IsSpot(Home(q, r, n)) /\ Home(q, r, n)[2] # <<>>
           /\ Above(Home(q, r, i), Home(q, r, n))
<1> DEFINE b == Home(q, r, n)
<1>1. b[1] = Meta[q].user /\ b[2] = Take(r.ids, n) /\ Len(b[2]) = n
  BY HomeFacts
<1>2. IsSpot(b)
  <2>1. b = <<b[1], b[2]>>
    BY DEF Home
  <2>2. Take(r.ids, n) \in Seq(Nat)
    BY TakeType
  <2> QED
    BY <1>1, <2>1, <2>2 DEF IsSpot
<1>3. Home(q, r, i) = At(b, i)
  <2>1. Take(Take(r.ids, n), i) = Take(r.ids, i)
    BY TakeTake
  <2> QED
    BY <1>1, <2>1 DEF Home, At
<1>4. Above(At(b, i), b)
  <2>1. i \in 0..Len(b[2])
    BY <1>1
  <2> QED
    BY <1>2, <2>1, AtFacts
<1>5. b[2] # <<>>
  <2> HIDE DEF b
  <2> QED
    BY <1>1
<1> QED
  BY <1>2, <1>3, <1>4, <1>5

\* evict takes no slot of a request's prefix away, and every slot it takes is freed.
LEMMA DeleteSlots ==
    ASSUME NEW T, TreeOK(T), NEW H, IsFiniteSet(H), NEW last, Pins(T, H, last),
           LockedBy(T, H, last), NEW D, EvictSet(T, D),
           NEW R, \A q \in H : R[q].last = last[q],
           NEW fr, NEW ct, SlotsOK(T.pos, H, R, fr, ct)
    PROVE  SlotsOK(Delete(T, D).pos, H, R, Freed(fr, SlotsOf(T, D)), ct)
<1>1. PlacesOK(T) /\ D \subseteq DOMAIN T.nd
  BY DEF TreeOK, EvictSet
<1>2. \A q \in H : last[q] \notin D
  BY DeleteLocks
<1>3. ASSUME NEW q \in H, NEW i \in 1..R[q].plen PROVE Home(q, R[q], i) \notin Gone(T, D)
  <2> DEFINE r == R[q]
  <2>1. RowOK(q, r, T.pos)
    BY DEF SlotsOK
  <2>2. /\ r.ids \in Seq(Nat) /\ r.plen \in Nat /\ r.plen \in 0..Len(r.ids)
        /\ i \in 1..r.plen /\ r.plen # 0
        /\ r.last = Home(q, r, r.plen) /\ Home(q, r, i) \in DOMAIN T.pos
    BY <2>1 DEF RowOK
  <2>3. r.last = last[q]
    OBVIOUS
  <2> HIDE DEF r
  <2>4. Home(q, r, r.plen)[2] # <<>> /\ Above(Home(q, r, i), Home(q, r, r.plen))
    BY ONLY <2>2, HomeAbove
  <2>5. last[q] \in DOMAIN T.nd /\ last[q] \notin D
    BY <1>2, <2>2, <2>3, <2>4 DEF Pins
  <2>6. Home(q, r, i) \notin Gone(T, D)
    BY <1>1, <2>2, <2>3, <2>4, <2>5, StaysFacts
  <2> QED
    BY <2>6 DEF r
<1>4. /\ DOMAIN Delete(T, D).pos = DOMAIN T.pos \ Gone(T, D)
      /\ \A z \in DOMAIN Delete(T, D).pos : Delete(T, D).pos[z] = T.pos[z]
  BY DeleteFacts
<1>5. /\ DOMAIN SlotsOf(T, D) = Gone(T, D)
      /\ \A z \in Gone(T, D) : SlotsOf(T, D)[z] = T.pos[z]
  BY <1>1, SlotsOfFacts
<1>6. Gone(T, D) \subseteq DOMAIN T.pos
  BY DEF Gone
<1> DEFINE P == T.pos
           Q == Delete(T, D).pos
           G == Gone(T, D)
           f == SlotsOf(T, D)
<1> HIDE DEF P, Q, G, f
<1> QED
  <2>1. /\ SlotsOK(P, H, R, fr, ct) /\ G \subseteq DOMAIN P /\ DOMAIN Q = DOMAIN P \ G
        /\ \A x \in DOMAIN Q : Q[x] = P[x]
        /\ DOMAIN f = G /\ \A x \in G : f[x] = P[x]
        /\ \A q \in H : \A i \in 1..R[q].plen : Home(q, R[q], i) \notin G
    BY <1>3, <1>4, <1>5, <1>6 DEF P, Q, G, f
  <2>2. SlotsOK(Q, H, R, Freed(fr, f), ct)
    BY ONLY <2>1, EvictSlots
  <2> QED
    BY <2>2 DEF Q, f

-----------------------------------------------------------------------------
(* The slots along the scheduler's steps *)

\* The batches that are launched, and what they need.
BatchNeed(need, st) ==
    \/ st = "prefill" /\ need = [q \in In({"admitted"}) |-> ExtendLen(q)]
    \/ st = "decode" /\ need = [q \in DecodeBatch |-> 1]

\* A prefill batch needs the rest of the prompts, a decode batch one slot each.
LEMMA NeedFacts ==
    ASSUME LockInv, NEW need, NEW st, BatchNeed(need, st),
           \A q \in Held : LenOK(req[q]) /\ Len(req[q].row) \in Nat
    PROVE  /\ IsFiniteSet(DOMAIN need)
           /\ \A q \in DOMAIN need :
                 /\ q \in Held /\ (st = "prefill" => req[q].st \in Filling)
                 /\ need[q] \in Nat /\ Len(req[q].row) + need[q] <= Len(req[q].ids)
                 /\ \A r : r.st = st /\ r.ids = req[q].ids /\ r.fill = req[q].fill
                           /\ r.plen = req[q].plen /\ Len(r.row) = Len(req[q].row) + need[q]
                             => LenOK(r)
<1>1. \A q \in Request : ReqIs(req[q])
  BY DEF LockInv, ReqOK
<1>2. DOMAIN need \subseteq Held /\ (st = "prefill" => \A q \in DOMAIN need : req[q].st \in Filling)
  BY DEF BatchNeed, DecodeBatch, Held, In, Filling
<1>3. IsFiniteSet(DOMAIN need)
  BY <1>2, HeldFacts, FS_Subset
<1>4. ASSUME NEW q \in DOMAIN need
      PROVE  /\ need[q] \in Nat /\ Len(req[q].row) + need[q] <= Len(req[q].ids)
             /\ \A r : r.st = st /\ r.ids = req[q].ids /\ r.fill = req[q].fill
                       /\ r.plen = req[q].plen /\ Len(r.row) = Len(req[q].row) + need[q]
                             => LenOK(r)
  <2>1. q \in Held /\ q \in Request
    BY <1>2 DEF Held, In
  <2>2. /\ req[q].ids \in Seq(Nat) /\ req[q].fill \in 0..Len(req[q].ids) /\ req[q].plen \in Nat
        /\ req[q].st \in Filling => req[q].plen <= req[q].fill
        /\ LenOK(req[q]) /\ Len(req[q].row) \in Nat
    BY <1>1, <2>1 DEF ReqIs
  <2>3. CASE st = "prefill" /\ need = [p \in In({"admitted"}) |-> ExtendLen(p)]
    <3>1. req[q].st = "admitted" /\ need[q] = req[q].fill - req[q].plen
      BY <2>3 DEF In, ExtendLen
    <3>2. Len(req[q].row) = req[q].plen /\ req[q].plen <= req[q].fill
      BY <2>2, <3>1 DEF LenOK, Filling
    <3>3. need[q] \in Nat /\ Len(req[q].row) + need[q] = req[q].fill
      BY <2>2, <3>1, <3>2
    <3> QED
      BY <2>2, <2>3, <3>3 DEF LenOK
  <2>4. CASE st = "decode" /\ need = [p \in DecodeBatch |-> 1]
    <3>1. req[q].st \in {"prefilled", "running"} /\ need[q] = 1
      BY <2>4 DEF DecodeBatch, In
    <3>2. Len(req[q].ids) = Len(req[q].row) + 1
      BY <2>2, <3>1 DEF LenOK
    <3> QED
      BY <2>2, <2>4, <3>1, <3>2 DEF LenOK
  <2> QED
    BY <2>3, <2>4 DEF BatchNeed
<1> QED
  BY <1>2, <1>3, <1>4

\* The requests that hold slots after a step.
LEMMA HeldNext == Held' = {q \in Request : req'[q].st \in HeldStates}
BY DEF Held, In, HeldStates, Status

\* alloc_token_slots and the forward pass keep the slots in order.
LEMMA AllocSlots ==
    ASSUME LockInv, NEW T, TreeOK(T), Pins(T, Held, LastOf), LockedBy(T, Held, LastOf),
           NEW fr, SlotsOK(T.pos, Held, req, fr, kv), NEW need, NEW st, BatchNeed(need, st),
           AllocTokenSlots(T, fr, need, st)
    PROVE  SlotsOK(tree'.pos, Held', req', free', kv')
<1>0. ReqOK /\ \A q \in Request : ReqIs(req[q]) /\ ReqShape(req[q])
  BY DEF LockInv, ReqOK, ReqIs
<1>1. PICK n, D, pool, total, rows :
         /\ D \in EvictChoices(T, n)
         /\ pool = Freed(fr, SlotsOf(T, D)) /\ total = Total(need)
         /\ Available(pool) >= total
         /\ rows = Rows(SetToSeq(DOMAIN need), need, AllocSeq(pool, total))
         /\ Launch(T, D, pool, total, rows, st)
  BY AllocLaunch
<1>2. EvictSet(T, D)
  BY <1>1, EvictFacts DEF TreeOK
<1> DEFINE P == Delete(T, D).pos
<1>3. SlotsOK(P, Held, req, pool, kv)
  <2>1. IsFiniteSet(Held) /\ \A q \in Held : req[q].last = LastOf[q]
    BY HeldFacts DEF LastOf
  <2> QED
    BY <1>1, <1>2, <2>1, DeleteSlots
<1>4. /\ tree'.pos = P /\ free' = AllocRest(pool, total)
      /\ kv' = Forget(Forward(rows), free')
  BY <1>1 DEF Launch
<1> HIDE DEF P
<1>5. \A q \in Held : RowOK(q, req[q], P) /\ LenOK(req[q]) /\ Len(req[q].row) \in Nat /\ q \in Request
  BY <1>3, HeldFacts DEF SlotsOK, RowOK
<1>6. /\ IsFiniteSet(DOMAIN need)
      /\ \A q \in DOMAIN need :
            /\ q \in Held
            /\ need[q] \in Nat /\ Len(req[q].row) + need[q] <= Len(req[q].ids)
            /\ \A r : r.st = st /\ r.ids = req[q].ids /\ r.fill = req[q].fill
                      /\ r.plen = req[q].plen /\ Len(r.row) = Len(req[q].row) + need[q]
                             => LenOK(r)
  BY <1>5, NeedFacts
<1>7. DOMAIN rows = DOMAIN need
  BY <1>1, RowsDomain
<1>8. ASSUME NEW q \in Request
      PROVE  /\ req'[q].ids = req[q].ids /\ req'[q].fill = req[q].fill
             /\ req'[q].plen = req[q].plen /\ req'[q].last = req[q].last
             /\ req'[q].row = IF q \in DOMAIN rows THEN rows[q] ELSE req[q].row
             /\ req'[q].st = IF q \in DOMAIN rows THEN st
                             ELSE IF req[q].st = "retracted" THEN "waiting"
                             ELSE IF req[q].st = "prefilled" THEN "running"
                             ELSE req[q].st
  BY <1>0, <1>1, LaunchReqFields
<1>9. Held' = Held
  <2>1. \A q \in Request : req'[q].st \in HeldStates <=> req[q].st \in HeldStates
    <3> SUFFICES ASSUME NEW q \in Request
                 PROVE  req'[q].st \in HeldStates <=> req[q].st \in HeldStates
      OBVIOUS
    <3>1. st \in HeldStates
      BY DEF BatchNeed, HeldStates, Status
    <3>2. q \in DOMAIN rows => req[q].st \in HeldStates
      BY <1>6, <1>7, HeldFacts
    <3> QED
      BY <1>8, <3>1, <3>2 DEF HeldStates, Status
  <2>2. Held' = {q \in Request : req'[q].st \in HeldStates}
    BY HeldNext
  <2> QED
    BY <2>1, <2>2, HeldFacts
<1>10. ASSUME NEW q \in Held, q \notin DOMAIN need PROVE LenOK(req'[q])
  <2>1. q \in Request /\ LenOK(req[q])
    BY <1>5
  <2> QED
    BY <1>7, <1>8, <1>10, <2>1 DEF LenOK
<1>11. ASSUME NEW q \in DOMAIN need, Len(rows[q]) = Len(req[q].row) + need[q]
       PROVE  LenOK(req'[q])
  <2>1. q \in Request /\ q \in Held
    BY <1>5, <1>6
  <2>2. /\ req'[q].st = st /\ req'[q].ids = req[q].ids /\ req'[q].fill = req[q].fill
        /\ req'[q].plen = req[q].plen /\ Len(req'[q].row) = Len(req[q].row) + need[q]
    BY <1>7, <1>8, <1>11, <2>1
  <2> QED
    BY <1>6, <2>2
<1>12. SlotsOK(P, Held, req', AllocRest(pool, total), Forward(rows))
  <2>1. \A q \in Held : /\ req'[q].ids = req[q].ids /\ req'[q].plen = req[q].plen
                        /\ req'[q].last = req[q].last
                        /\ req'[q].row = IF q \in DOMAIN need THEN rows[q] ELSE req[q].row
    BY <1>5, <1>7, <1>8
  <2>2. DOMAIN need \subseteq Held
    BY <1>6
  <2>3. \A q \in DOMAIN need : need[q] \in Nat /\ Len(req[q].row) + need[q] <= Len(req[q].ids)
    BY <1>6
  <2>4. \A q \in Held : q \notin DOMAIN need => LenOK(req'[q])
    BY <1>10
  <2>5. \A q \in DOMAIN need : Len(rows[q]) = Len(req[q].row) + need[q] => LenOK(req'[q])
    BY <1>11
  <2>6. IsFiniteSet(DOMAIN need)
    BY <1>6
  <2> QED
    BY <1>1, <1>3, <2>1, <2>2, <2>3, <2>4, <2>5, <2>6, LaunchSlots
<1>13. SlotsOK(P, Held, req', free', kv')
  BY <1>4, <1>12, ForgetSlots
<1> QED
  BY <1>4, <1>9, <1>13

\* Launching a batch keeps the slots in order.
LEMMA LaunchesSlots ==
    ASSUME LockInv, SlotInv,
           PrepareForExtend \/ PrepareForDecode \/ PrepareForDecodeAfterRetract
    PROVE  SlotInv'
<1>0. /\ TreeOK(tree) /\ Pins(tree, Held, LastOf) /\ LockedBy(tree, Held, LastOf)
      /\ SlotsOK(tree.pos, Held, req, free, kv) /\ IsFiniteSet(Held)
      /\ \A q \in Held : req[q].last = LastOf[q]
  BY HeldFacts DEF LockInv, SlotInv, LastOf
<1>1. installed' = {}
  BY DEF SlotInv, PrepareForExtend, PrepareForDecode, PrepareForDecodeAfterRetract, policy
<1>2. CASE PrepareForExtend
  <2> DEFINE need == [q \in In({"admitted"}) |-> ExtendLen(q)]
  <2>1. AllocTokenSlots(tree, free, need, "prefill") /\ BatchNeed(need, "prefill")
    BY <1>2 DEF PrepareForExtend, BatchNeed
  <2> HIDE DEF need
  <2> QED
    BY <1>0, <1>1, <2>1, AllocSlots DEF SlotInv
<1>3. CASE PrepareForDecode
  <2> DEFINE need == [q \in DecodeBatch |-> 1]
  <2>1. PICK D \in CheckDecodeMem : AllocTokenSlots(Delete(tree, D),
                                        Freed(free, SlotsOf(tree, D)), need, "decode")
    BY <1>3 DEF PrepareForDecode
  <2>2. EvictSet(tree, D)
    BY <1>0, EvictFacts DEF CheckDecodeMem, TreeOK
  <2>3. BatchNeed(need, "decode")
    BY DEF BatchNeed
  <2> DEFINE T == Delete(tree, D)
             fr == Freed(free, SlotsOf(tree, D))
  <2>4. TreeOK(T) /\ Pins(T, Held, LastOf) /\ LockedBy(T, Held, LastOf)
    BY <1>0, <2>2, DeleteFacts, DeleteLocks
  <2>5. SlotsOK(T.pos, Held, req, fr, kv)
    BY <1>0, <2>2, DeleteSlots
  <2>6. AllocTokenSlots(T, fr, need, "decode")
    BY <2>1
  <2> HIDE DEF T, fr, need
  <2> QED
    BY <1>1, <2>3, <2>4, <2>5, <2>6, AllocSlots DEF SlotInv
<1>4. CASE PrepareForDecodeAfterRetract
  <2> DEFINE need == [q \in DecodeBatch |-> 1]
  <2>1. AllocTokenSlots(tree, free, need, "decode") /\ BatchNeed(need, "decode")
    BY <1>4 DEF PrepareForDecodeAfterRetract, BatchNeed
  <2> HIDE DEF need
  <2> QED
    BY <1>0, <1>1, <2>1, AllocSlots DEF SlotInv
<1> QED
  BY <1>2, <1>3, <1>4

\* Joining the running batch changes nothing about a row.
LEMMA MergedLen ==
    ASSUME ReqOK, NEW p \in Request, LenOK(req[p])
    PROVE  LenOK(Merge(req)[p])
<1> DEFINE r == Merge(req)[p]
<1>1. /\ r.ids = req[p].ids /\ r.fill = req[p].fill
      /\ r.plen = req[p].plen /\ r.row = req[p].row
  BY MergedReqIs
<1>2. r.st = IF req[p].st = "prefilled" THEN "running" ELSE req[p].st
  <2>1. ReqIs(req[p])
    BY DEF ReqOK
  <2>2. req[p].st = "prefilled" => r = [req[p] EXCEPT !.st = "running"]
    BY DEF Merge
  <2>3. req[p].st # "prefilled" => r = req[p]
    BY DEF Merge
  <2>4. [req[p] EXCEPT !.st = "running"]
          = [st |-> "running", ids |-> req[p].ids, fill |-> req[p].fill, row |-> req[p].row,
             plen |-> req[p].plen, last |-> req[p].last]
    BY <2>1, MovedReqIs DEF Status, Filling
  <2> HIDE DEF r
  <2> QED
    BY <2>2, <2>3, <2>4
<1> HIDE DEF r
<1>3. LenOK(r)
  BY <1>1, <1>2 DEF LenOK
<1> QED
  BY <1>3 DEF r

\* retract_decode frees the tail of the row and keeps the slots in order.
LEMMA RetractReqSlots ==
    ASSUME LockInv, SlotInv, NEW q \in Held, NEW D0, EvictSet(tree, D0), RetractReq(q, D0)
    PROVE  SlotsOK(tree'.pos, Held', req', free', kv')
<1>q. q \in Request /\ IsFiniteSet(Held) /\ Held \subseteq Request
  BY HeldFacts
<1>0. /\ ReqOK /\ TreeOK(tree) /\ SizesOK(tree) /\ Pins(tree, Held, LastOf)
      /\ LockedBy(tree, Held, LastOf) /\ req[q].ids \in Seq(Nat)
      /\ SlotsOK(tree.pos, Held, req, free, kv)
      /\ \A p \in Held : req[p].last = LastOf[p]
  BY <1>q DEF LockInv, ReqOK, ReqIs, SlotInv, LastOf
<1> DEFINE S == Delete(tree, D0)
           T == DecLockRef(S, req[q].last)
           fr == Freed(free, SlotsOf(tree, D0))
           left == Freed(fr, SubSeq(req[q].row, req[q].plen + 1, Len(req[q].row)))
           r == [NewReq(q) EXCEPT !.st = "retracted", !.ids = req[q].ids]
<1>1. /\ \E n : \E D \in EvictChoices(T, n) :
                    tree' = Delete(T, D) /\ free' = Freed(left, SlotsOf(T, D))
      /\ kv' = Forget(kv, free')
      /\ req' = [Merge(req) EXCEPT ![q] = r]
  BY DEF RetractReq
<1>2. TreeOK(S) /\ SizesOK(S) /\ Pins(S, Held, LastOf) /\ LockedBy(S, Held, LastOf)
  BY <1>0, <1>q, DeleteFacts, DeleteSizes, DeleteLocks
<1>3. SlotsOK(S.pos, Held, req, fr, kv)
  BY <1>0, <1>q, DeleteSlots
<1>4. SlotsOK(S.pos, Held \ {q}, req, left, kv)
  <2> HIDE DEF S, fr
  <2> QED
    BY <1>3, DropSlots
<1> HIDE DEF S
<1>5. /\ TreeOK(T) /\ SizesOK(T)
      /\ Pins(T, Held \ {q}, LastOf) /\ LockedBy(T, Held \ {q}, LastOf)
  BY <1>2, Released
<1>6. T.pos = S.pos
  BY DEF DecLockRef
<1> HIDE DEF T, fr, left
<1>7. PICK n : \E D \in EvictChoices(T, n) :
                    tree' = Delete(T, D) /\ free' = Freed(left, SlotsOf(T, D))
  BY <1>1
<1>8. PICK D \in EvictChoices(T, n) :
                    tree' = Delete(T, D) /\ free' = Freed(left, SlotsOf(T, D))
  BY <1>7
<1>9. EvictSet(T, D)
  BY <1>5, EvictFacts DEF TreeOK
<1>10. IsFiniteSet(Held \ {q})
  BY <1>q, FS_Subset
<1>11. SlotsOK(tree'.pos, Held \ {q}, req, free', kv)
  <2>1. \A p \in Held \ {q} : req[p].last = LastOf[p]
    BY <1>0
  <2>2. SlotsOK(T.pos, Held \ {q}, req, left, kv)
    BY <1>4, <1>6
  <2>3. SlotsOK(Delete(T, D).pos, Held \ {q}, req, Freed(left, SlotsOf(T, D)), kv)
    BY <1>5, <1>9, <1>10, <2>1, <2>2, DeleteSlots
  <2> QED
    BY <1>8, <2>3
<1>12. SlotsOK(tree'.pos, Held \ {q}, req, free', kv')
  BY <1>1, <1>11, ForgetSlots
<1>13. r.st = "retracted"
  <2>1. r = [st |-> "retracted", ids |-> req[q].ids, fill |-> 0, row |-> <<>>, plen |-> 0,
             last |-> NoNode]
    BY <1>0, <1>q, RetractedReqIs
  <2> HIDE DEF r
  <2> QED
    BY <2>1
<1> HIDE DEF r
<1>14. /\ req'[q] = r /\ \A p \in Request : p # q => req'[p] = Merge(req)[p]
  <2>1. Merge(req) = [p \in Request |-> Merge(req)[p]]
    BY DEF Merge
  <2> QED
    BY <1>1, <1>q, <2>1
<1>15. \A p \in Request : p # q =>
            /\ req'[p].st \in HeldStates <=> req[p].st \in HeldStates
            /\ req'[p].last = req[p].last /\ req'[p].ids = req[p].ids
            /\ req'[p].plen = req[p].plen /\ req'[p].row = req[p].row
  BY <1>0, <1>14, MergedReqIs
<1>16. Held' = Held \ {q}
  BY <1>13, <1>14, <1>15, HeldFacts, HeldNext DEF HeldStates
<1>17. SlotsOK(tree'.pos, Held \ {q}, req', free', kv')
  <2>1. ASSUME NEW p \in Held \ {q}
        PROVE  /\ req'[p].row = req[p].row /\ req'[p].plen = req[p].plen
               /\ req'[p].last = req[p].last
               /\ req'[p].ids \in Seq(Nat) /\ Len(req[p].row) <= Len(req'[p].ids)
               /\ \A i \in 0..Len(req[p].row) : Take(req'[p].ids, i) = Take(req[p].ids, i)
               /\ LenOK(req'[p])
    <3>1. p \in Request /\ p # q
      BY <1>q
    <3>2. RowOK(p, req[p], tree'.pos) /\ LenOK(req[p])
      BY <1>12 DEF SlotsOK
    <3>3. LenOK(req'[p])
      BY <1>0, <1>14, <3>1, <3>2, MergedLen
    <3> QED
      BY <1>15, <3>1, <3>2, <3>3 DEF RowOK
  <2> QED
    BY <1>12, <2>1, QuietSlots
<1> QED
  BY <1>16, <1>17

\* A round of retract_decode.
LEMMA RetractSlots ==
    ASSUME LockInv, SlotInv, NEW q \in Request, RetractDecode(q)
    PROVE  SlotInv'
<1>1. q \in Held
  BY DecodeBatchHeld DEF RetractDecode
<1>2. PICK D0 : (D0 = {} \/ D0 \in CheckDecodeMem) /\ RetractReq(q, D0)
  BY DEF RetractDecode
<1>3. EvictSet(tree, D0)
  BY <1>2, NothingEvicted, EvictFacts DEF CheckDecodeMem, LockInv, TreeOK
<1>4. installed' = {}
  BY DEF SlotInv, RetractDecode, policy
<1> QED
  BY <1>1, <1>2, <1>3, <1>4, RetractReqSlots DEF SlotInv

-----------------------------------------------------------------------------
(* Steps that leave the slots alone *)

\* One request moves on and keeps its row.
LEMMA MoveSlots ==
    ASSUME LockInv, SlotInv, NEW q \in Request, NEW r, req' = [req EXCEPT ![q] = r],
           r.st \in HeldStates <=> req[q].st \in HeldStates,
           q \in Held => /\ r.row = req[q].row /\ r.plen = req[q].plen /\ r.last = req[q].last
                         /\ r.ids \in Seq(Nat) /\ Len(req[q].row) <= Len(r.ids)
                         /\ \A i \in 0..Len(req[q].row) : Take(r.ids, i) = Take(req[q].ids, i)
                         /\ LenOK(r),
           tree'.pos = tree.pos, UNCHANGED <<free, kv, installed>>
    PROVE  SlotInv'
<1>1. DOMAIN req = Request
  BY DEF LockInv, ReqOK
<1>2. req'[q] = r /\ \A p \in Request : p # q => req'[p] = req[p]
  BY <1>1
<1>3. Held' = Held
  <2>1. \A p \in Request : req'[p].st \in HeldStates <=> req[p].st \in HeldStates
    BY <1>2
  <2> QED
    BY <2>1, HeldNext, HeldFacts
<1>4. SlotsOK(tree.pos, Held, req, free, kv) /\ installed = {}
  BY DEF SlotInv
<1>5. ASSUME NEW p \in Held
      PROVE  /\ req'[p].row = req[p].row /\ req'[p].plen = req[p].plen
             /\ req'[p].last = req[p].last
             /\ req'[p].ids \in Seq(Nat) /\ Len(req[p].row) <= Len(req'[p].ids)
             /\ \A i \in 0..Len(req[p].row) : Take(req'[p].ids, i) = Take(req[p].ids, i)
             /\ LenOK(req'[p])
  <2>1. CASE p = q
    BY <1>2, <2>1
  <2>2. CASE p # q
    <3>1. req'[p] = req[p] /\ RowOK(p, req[p], tree.pos) /\ LenOK(req[p])
      BY <1>2, <1>4, <2>2, HeldFacts DEF SlotsOK
    <3> QED
      BY <3>1 DEF RowOK
  <2> QED
    BY <2>1, <2>2
<1>6. SlotsOK(tree.pos, Held, req', free, kv)
  <2>1. SlotsOK(tree.pos, Held, req, free, kv)
    BY <1>4
  <2> QED
    BY ONLY <1>5, <2>1, QuietSlots
<1> QED
  BY <1>3, <1>4, <1>6 DEF SlotInv

\* A step that changes neither the requests nor the pool.
LEMMA SameSlots ==
    ASSUME SlotInv, tree'.pos = tree.pos, installed' = {}, UNCHANGED <<free, kv, req>>
    PROVE  SlotInv'
<1>1. Held' = Held
  BY DEF Held, In
<1> QED
  BY <1>1 DEF SlotInv

\* Arrivals and aborts of waiting requests.
LEMMA ArriveSlots ==
    ASSUME LockInv, SlotInv, NEW q \in Request, Arrive(q) \/ AbortWaiting(q)
    PROVE  SlotInv'
<1>0. ReqOK /\ ReqIs(req[q]) /\ DOMAIN req = Request
  BY DEF LockInv, ReqOK
<1> DEFINE r == IF Arrive(q) THEN [req[q] EXCEPT !.st = "waiting"] ELSE NewReq(q)
<1>1. req' = [req EXCEPT ![q] = r] /\ UNCHANGED <<tree, free, kv, installed>>
      /\ req[q].st \in {"idle", "lost", "waiting"}
  BY <1>0 DEF Arrive, AbortWaiting, policy, pools
<1>2. r.st \in {"idle", "waiting"}
  <2>1. "waiting" \in Status /\ "waiting" \notin Filling
    BY DEF Status, Filling
  <2> DEFINE w == [req[q] EXCEPT !.st = "waiting"]
  <2>2. w = [st |-> "waiting", ids |-> req[q].ids, fill |-> req[q].fill, row |-> req[q].row,
             plen |-> req[q].plen, last |-> req[q].last]
    BY <2>1, <1>0, MovedReqIs
  <2> HIDE DEF w
  <2>3. w.st = "waiting"
    BY <2>2
  <2>4. [req[q] EXCEPT !.st = "waiting"].st = "waiting"
    BY <2>3 DEF w
  <2> QED
    BY <2>4, NewReqIs
<1> HIDE DEF r
<1>3. q \notin Held /\ r.st \notin HeldStates /\ req[q].st \notin HeldStates
  BY <1>1, <1>2, HeldFacts DEF HeldStates
<1> QED
  BY <1>1, <1>3, MoveSlots

\* add_chunked_req: the row is the cached prefix already.
LEMMA AddChunkedSlots ==
    ASSUME LockInv, SlotInv, NEW q \in Request, AddChunkedReq(q)
    PROVE  SlotInv'
<1>0. ReqOK /\ ReqIs(req[q]) /\ DOMAIN req = Request
  BY DEF LockInv, ReqOK
<1> DEFINE f == Min({Len(req[q].ids), req[q].plen + chunked_prefill_size})
           w == Take(req[q].row, req[q].plen)
           r == [req[q] EXCEPT !.st = "admitted", !.fill = f, !.row = w]
<1>1. /\ req' = [req EXCEPT ![q] = r] /\ UNCHANGED <<tree, free, kv, installed>>
      /\ req[q].st = "cached"
  BY <1>0 DEF AddChunkedReq, policy, pools
<1>2. r = [st |-> "admitted", ids |-> req[q].ids, fill |-> f, row |-> w,
           plen |-> req[q].plen, last |-> req[q].last]
  <2>1. ReqShape(req[q])
    BY <1>0 DEF ReqIs
  <2> HIDE DEF f, w
  <2>2. [req[q] EXCEPT !.st = "admitted", !.fill = f, !.row = w]
          = [st |-> "admitted", ids |-> req[q].ids, fill |-> f, row |-> w,
             plen |-> req[q].plen, last |-> req[q].last]
    BY ONLY <2>1, SetReq, Zenon
  <2> QED
    BY <2>2
<1>3. q \in Held
  BY <1>1, HeldFacts DEF HeldStates, Status
<1>4. RowOK(q, req[q], tree.pos) /\ LenOK(req[q])
  BY <1>3 DEF SlotInv, SlotsOK
<1>5. /\ req[q].row \in Seq(Slot) /\ Len(req[q].row) = req[q].plen /\ req[q].ids \in Seq(Nat)
      /\ Len(req[q].row) <= Len(req[q].ids)
  BY <1>1, <1>4 DEF RowOK, LenOK
<1>6. w = req[q].row
  BY <1>5 DEF Take
<1> HIDE DEF r, f, w
<1>7. LenOK(r) /\ r.st \in HeldStates /\ req[q].st \in HeldStates
  BY <1>1, <1>2, <1>5, <1>6 DEF LenOK, HeldStates, Status
<1>8. /\ r.row = req[q].row /\ r.plen = req[q].plen /\ r.last = req[q].last
      /\ r.ids = req[q].ids
  BY <1>2, <1>6
<1> QED
  BY <1>1, <1>5, <1>7, <1>8, MoveSlots

\* A chunk of a prompt has been computed.
LEMMA ChunkedSlots ==
    ASSUME LockInv, SlotInv, NEW q \in Request, req[q].st = "prefill",
           req' = [req EXCEPT ![q].st = "chunked"], UNCHANGED <<tree, free, kv, installed>>
    PROVE  SlotInv'
<1>0. ReqOK /\ ReqIs(req[q]) /\ DOMAIN req = Request
  BY DEF LockInv, ReqOK
<1> DEFINE r == [req[q] EXCEPT !.st = "chunked"]
<1>1. req' = [req EXCEPT ![q] = r]
  BY <1>0
<1>2. "chunked" \in Status /\ req[q].st \in Filling
  BY <1>0 DEF Status, Filling
<1>3. r = [st |-> "chunked", ids |-> req[q].ids, fill |-> req[q].fill,
           row |-> req[q].row, plen |-> req[q].plen, last |-> req[q].last]
  BY <1>0, <1>2, MovedReqIs
<1> HIDE DEF r
<1>4. q \in Held
  BY HeldFacts DEF HeldStates, Status
<1>5. RowOK(q, req[q], tree.pos) /\ LenOK(req[q])
  BY <1>4 DEF SlotInv, SlotsOK
<1>6. req[q].ids \in Seq(Nat) /\ Len(req[q].row) <= Len(req[q].ids)
  BY <1>5 DEF RowOK
<1>7. LenOK(r) /\ r.st \in HeldStates /\ req[q].st \in HeldStates
  BY <1>3, <1>5 DEF LenOK, HeldStates, Status
<1>8. /\ r.row = req[q].row /\ r.plen = req[q].plen /\ r.last = req[q].last
      /\ r.ids = req[q].ids
  BY <1>3
<1> QED
  BY <1>1, <1>6, <1>7, <1>8, MoveSlots

\* A decoded token is appended.
LEMMA DecodedSlots ==
    ASSUME LockInv, SlotInv, NEW q \in Request, req[q].st = "decode", NEW t \in Nat,
           req' = [req EXCEPT ![q].st = "running", ![q].ids = Append(@, t)],
           UNCHANGED <<tree, free, kv, installed>>
    PROVE  SlotInv'
<1>0. ReqOK /\ ReqIs(req[q]) /\ DOMAIN req = Request /\ req[q].ids \in Seq(Nat)
  BY DEF LockInv, ReqOK, ReqIs
<1> DEFINE i == Append(req[q].ids, t)
           r == [req[q] EXCEPT !.st = "running", !.ids = i]
<1>1. req' = [req EXCEPT ![q] = r]
  BY <1>0
<1>2. req[q] = [st |-> req[q].st, ids |-> req[q].ids, fill |-> req[q].fill,
                row |-> req[q].row, plen |-> req[q].plen, last |-> req[q].last]
  BY <1>0 DEF ReqIs, ReqShape
<1>3. r = [req[q] EXCEPT !.st = "running", !.ids = i]
  OBVIOUS
<1>4. i \in Seq(Nat) /\ Len(i) = Len(req[q].ids) + 1 /\ Len(req[q].ids) \in Nat
  BY <1>0
<1>5. \A n \in 0..Len(req[q].ids) : Take(i, n) = Take(req[q].ids, n)
  BY <1>0 DEF Take
<1> HIDE DEF r, i
<1>6. r = [st |-> "running", ids |-> i, fill |-> req[q].fill, row |-> req[q].row,
           plen |-> req[q].plen, last |-> req[q].last]
  BY <1>2, <1>3
<1>7. q \in Held
  BY HeldFacts DEF HeldStates, Status
<1>8. RowOK(q, req[q], tree.pos) /\ LenOK(req[q])
  BY <1>7 DEF SlotInv, SlotsOK
<1>9. Len(req[q].row) = Len(req[q].ids)
  BY <1>8 DEF LenOK
<1>10. /\ r.row = req[q].row /\ r.plen = req[q].plen /\ r.last = req[q].last
       /\ r.ids = i /\ r.st = "running"
  BY <1>6
<1>11. LenOK(r) /\ r.st \in HeldStates /\ req[q].st \in HeldStates
  BY <1>4, <1>9, <1>10 DEF LenOK, HeldStates, Status
<1>12. \A n \in 0..Len(req[q].row) : Take(r.ids, n) = Take(req[q].ids, n)
  BY <1>5, <1>9, <1>10
<1>13. r.ids \in Seq(Nat) /\ Len(req[q].row) <= Len(r.ids)
  BY <1>4, <1>9, <1>10
<1> QED
  BY <1>1, <1>10, <1>11, <1>12, <1>13, MoveSlots

\* flush_cache: nobody is left, and every slot is free.
LEMMA FlushSlots ==
    ASSUME LockInv, SlotInv, ~FlushMidChunk, FlushCache
    PROVE  SlotInv'
<1> DEFINE r(q) == [NewReq(q) EXCEPT !.st = "lost"]
<1>1. /\ tree' = EmptyTree /\ installed' = {}
      /\ free' = [s \in Slot |-> 1] /\ kv' = Forget(kv, free')
      /\ req' = [q \in Request |-> IF req[q].st = "prefilled" THEN r(q) ELSE req[q]]
  BY DEF FlushCache
<1>2. ASSUME NEW q \in Request PROVE r(q).st = "lost"
  <2>1. r(q) = [st |-> "lost", ids |-> Meta[q].prompt, fill |-> 0,
                row |-> <<>>, plen |-> 0, last |-> NoNode]
    <3>1. <<>> \in Seq(Nat)
      OBVIOUS
    <3> QED
      BY <3>1, RetractedReqIs
  <2> HIDE DEF r
  <2> QED
    BY <2>1
<1> HIDE DEF r
<1>3. \A q \in Request : req[q].st \in Status
  BY DEF LockInv, ReqOK, ReqIs
<1>4. \A q \in Request : req'[q].st \notin HeldStates
  <2> SUFFICES ASSUME NEW q \in Request PROVE req'[q].st \notin HeldStates
    OBVIOUS
  <2>1. req[q].st \notin {"admitted", "prefill", "cached", "decode", "retracted", "waiting",
                          "running", "chunked"}
    BY DEF FlushCache, Receiving, In
  <2>2. CASE req[q].st = "prefilled"
    BY <2>2, <1>1, <1>2 DEF HeldStates
  <2>3. CASE req[q].st # "prefilled"
    BY <2>1, <2>3, <1>1, <1>3 DEF HeldStates, Status
  <2> QED
    BY <2>2, <2>3
<1>5. Held' = {}
  BY <1>4, HeldNext
<1>6. tree'.pos = <<>>
  BY <1>1 DEF EmptyTree
<1>7. SlotsOK(tree'.pos, Held', req', free', kv')
  BY <1>1, <1>5, <1>6, EmptySlots
<1> QED
  BY <1>1, <1>7 DEF SlotInv

\* At the start every slot is free.
LEMMA InitSlots == Init => SlotInv
<1> SUFFICES ASSUME Init PROVE SlotInv
  OBVIOUS
<1>1. /\ req = [q \in Request |-> NewReq(q)] /\ tree = EmptyTree
      /\ free = [s \in Slot |-> 1] /\ installed = {}
  BY DEF Init
<1>2. \A q \in Request : req[q].st = "idle"
  BY <1>1, NewReqIs
<1>3. Held = {}
  BY <1>2, HeldFacts DEF HeldStates
<1>4. tree.pos = <<>>
  BY <1>1 DEF EmptyTree
<1> QED
  BY <1>1, <1>3, <1>4, EmptySlots DEF SlotInv

-----------------------------------------------------------------------------
(* Lookups in one's own namespace *)

\* In strict mode, with no public object installed, match_prefix is one walk of
\* the requester's own tree.
LEMMA StrictLookup ==
    ASSUME Mode = "strict", NEW C, C.installed = {}, NEW u, u # NoUser, NEW key, key # <<>>
    PROVE  MatchPrefix(C, u, key, NoObject) = Walk(C, u, key, u)
<1> DEFINE w == Walk(C, u, key, u)
<1>1. MatchingPublicRoot(C, key) = {}
  BY DEF MatchingPublicRoot
<1>2. MatchPrefix(C, u, key, NoObject) = MatchIn(C, u, key, {}, {})
  BY <1>1 DEF MatchPrefix, InstallOK
<1>3. SearchOrder(u, {}) = <<u>>
  BY DEF SearchOrder
<1>4. Walks(C, <<u>>, key, u) = <<w>>
  <2> HIDE DEF w
  <2>1. Walks(C, <<u>>, key, u) = [i \in {1} |-> Walk(C, u, key, u)]
    BY DEF Walks
  <2> QED
    BY <2>1 DEF w
<1> HIDE DEF w
<1>5. Min({i \in DOMAIN <<w>> : <<w>>[i].len > 0 \/ i \in {} \/ i = Len(<<w>>)}) = 1
  <2>1. {i \in DOMAIN <<w>> : <<w>>[i].len > 0 \/ i \in {} \/ i = Len(<<w>>)} = {1}
    OBVIOUS
  <2>2. Min({1}) \in {1}
    <3>1. {1} \subseteq Nat /\ {1} # {}
      OBVIOUS
    <3> QED
      BY <3>1, MinFacts
  <2> QED
    BY <2>1, <2>2
<1>6. FirstHit(<<w>>, {}) = w
  BY <1>5 DEF FirstHit
<1> QED
  BY <1>2, <1>3, <1>4, <1>6 DEF MatchIn, w

\* A walk of one's own tree ends at the key when that is a node.
LEMMA WalkOwn ==
    ASSUME Mode = "strict", NEW C, CacheShape(C), TreeOK(C.tree), NEW u,
           NEW key \in Seq(Nat), <<u, key>> \in DOMAIN C.tree.nd
    PROVE  Walk(C, u, key, u).len = Len(key)
<1> DEFINE route == Route(C.tree, u, key)
           served == Served(C, route, u)
           lens == {0} \cup {KeyMatch(x[2], key) : x \in served}
           x == <<u, key>>
<1>0. PlacesOK(C.tree) /\ Len(key) \in Nat /\ x[1] = u /\ x[2] = key /\ x \in DOMAIN C.tree.nd
  BY DEF TreeOK
<1>1. Walk(C, u, key, u).len = Max(lens)
  BY DEF Walk, WalkRoute, WalkServed, WalkResult
<1>2. \A y \in route : y \in DOMAIN C.tree.nd /\ y[1] = u
  BY DEF Route, Nodes
<1>3. KeyMatch(key, key) = Len(key)
  <2>1. Len(key) <= KeyMatch(key, key)
    BY KeyMatchLongest
  <2>2. KeyMatch(key, key) \in 0..Len(key)
    BY KeyMatchFacts
  <2> QED
    BY <1>0, <2>1, <2>2
<1> HIDE DEF x
<1>4. x \in route
  <2>1. ParentLen(C.tree, x) < Len(x[2])
    BY <1>0, ParentFacts
  <2> QED
    BY <1>0, <1>3, <2>1 DEF Route, Nodes
<1> HIDE DEF route
<1>5. \A y \in route : VisibleTo(C, y, u) /\ ~Refused(C, route, y, u)
  BY <1>2 DEF VisibleTo, Refused, MustReserve
<1>6. served = route
  BY <1>5 DEF Served, Reached
<1>7. \A y \in route : KeyMatch(y[2], key) \in 0..Len(key)
  BY <1>0, <1>2, NodeIsPlace, KeyMatchFacts DEF IsSpot
<1> HIDE DEF served
<1>8. lens \subseteq Nat /\ lens # {} /\ (\A s \in lens : s <= Len(key)) /\ Len(key) \in lens
  BY <1>0, <1>3, <1>4, <1>6, <1>7
<1> HIDE DEF lens
<1>9. Max(lens) \in lens /\ \A y \in lens : y <= Max(lens)
  BY <1>0, <1>8, MaxFacts
<1>10. Max(lens) = Len(key)
  <2>1. Max(lens) \in Nat /\ Max(lens) <= Len(key)
    BY ONLY <1>8, <1>9
  <2>2. Len(key) <= Max(lens)
    BY ONLY <1>8, <1>9
  <2> QED
    BY ONLY <1>0, <2>1, <2>2
<1> QED
  BY ONLY <1>1, <1>10

\* What a lookup for u finds: a prefix of the key under u's own root, all of the
\* key if that is a node, and the slots of its places.
OwnMatch(C, u, key, m) ==
    /\ CacheShape(m.C) /\ m.C.installed = {} /\ m.C.tree.pos = C.tree.pos
    /\ m.len \in 0..Len(key)
    /\ m.last = IF m.len = 0 THEN NoNode ELSE <<u, Take(key, m.len)>>
    /\ DOMAIN MatchedSlots(m) = 1..m.len
    /\ Len(MatchedSlots(m)) = m.len
    /\ \A i \in 1..m.len : /\ <<u, Take(key, i)>> \in DOMAIN C.tree.pos
                           /\ MatchedSlots(m)[i] = C.tree.pos[<<u, Take(key, i)>>]
    /\ <<u, key>> \in DOMAIN C.tree.nd => m.len = Len(key)

\* match_prefix in strict mode.
LEMMA StrictMatch ==
    ASSUME Mode = "strict", NEW C, CacheShape(C), TreeOK(C.tree), C.installed = {},
           NEW u \in User, NEW key \in Seq(Nat)
    PROVE  OwnMatch(C, u, key, MatchPrefix(C, u, key, NoObject))
<1> DEFINE m == MatchPrefix(C, u, key, NoObject)
<1>1. /\ MatchOf(C, key, m)
      /\ m.C.installed \subseteq C.installed \cup ({NoObject} \cap Object)
      /\ m.len # 0 => m.last[1] = u
  <2>1. C.installed \cup {NoObject} \subseteq Object \cup {NoObject}
    OBVIOUS
  <2>2. u \in User \cup {NoUser}
    OBVIOUS
  <2> QED
    BY <2>1, <2>2, MatchPrefixFacts
<1>2. m.C.installed = {}
  BY <1>1, CacheAssumption
<1>3. <<u, key>> \in DOMAIN C.tree.nd => m.len = Len(key)
  <2> SUFFICES ASSUME <<u, key>> \in DOMAIN C.tree.nd PROVE m.len = Len(key)
    OBVIOUS
  <2>1. key # <<>>
    <3>1. IsPlace(<<u, key>>)
      BY DEF TreeOK, PlacesOK
    <3> QED
      BY <3>1 DEF IsPlace
  <2>2. u # NoUser
    BY CacheAssumption
  <2>3. m = Walk(C, u, key, u)
    BY <2>1, <2>2, StrictLookup
  <2> HIDE DEF m
  <2> QED
    BY <2>3, WalkOwn
<1> HIDE DEF m
<1>4. /\ CacheShape(m.C) /\ m.C.tree.pos = C.tree.pos /\ m.len \in 0..Len(key)
      /\ Grown(C.tree, m.C.tree)
      /\ m.len = 0 => m.last = NoNode
      /\ m.len # 0 => m.last = <<u, Take(key, m.len)>> /\ m.last \in DOMAIN m.C.tree.nd
  BY <1>1 DEF MatchOf
<1> DEFINE g == MatchedSlots(m)
           f(i) == m.C.tree.pos[<<m.last[1], Take(m.last[2], i)>>]
<1>5. g = [i \in 1..m.len |-> f(i)] /\ m.len \in Nat
  BY <1>4 DEF MatchedSlots
<1>6. Len(g) = m.len /\ DOMAIN g = 1..m.len /\ \A i \in 1..m.len : g[i] = f(i)
  <2> HIDE DEF f, g
  <2> QED
    BY <1>5
<1> HIDE DEF g
<1>7. ASSUME NEW i \in 1..m.len
      PROVE  <<u, Take(key, i)>> \in DOMAIN C.tree.pos /\ g[i] = C.tree.pos[<<u, Take(key, i)>>]
  <2>1. m.len # 0 /\ m.len \in 0..Len(key) /\ i \in 0..m.len /\ i # 0
    BY <1>4
  <2>2. /\ m.last = <<u, Take(key, m.len)>> /\ m.last \in DOMAIN m.C.tree.nd
        /\ PlacesOK(m.C.tree)
    BY <1>4, <2>1 DEF Grown, TreeOK
  <2>3. Take(m.last[2], i) = Take(key, i) /\ m.last[1] = u /\ Len(m.last[2]) = m.len
    <3>1. m.last[2] = Take(key, m.len) /\ m.last[1] = u
      BY <2>2
    <3>2. Len(Take(key, m.len)) = m.len
      BY <2>1, TakeType
    <3>3. Take(Take(key, m.len), i) = Take(key, i)
      BY <2>1, TakeTake
    <3> QED
      BY <3>1, <3>2, <3>3
  <2>4. m.last \in DOMAIN m.C.tree.pos /\ IsSpot(m.last)
    BY <2>2, NodeIsPlace DEF PlacesOK
  <2>5. IsPlace(At(m.last, i)) /\ Above(At(m.last, i), m.last)
    BY <2>1, <2>3, <2>4, AtFacts
  <2>6. At(m.last, i) \in DOMAIN m.C.tree.pos
    BY <2>2, <2>4, <2>5 DEF PlacesOK
  <2>7. At(m.last, i) = <<u, Take(key, i)>>
    BY <2>3 DEF At
  <2> QED
    BY <1>4, <1>6, <2>3, <2>6, <2>7
<1> QED
  BY <1>2, <1>3, <1>4, <1>6, <1>7 DEF OwnMatch, g, m

-----------------------------------------------------------------------------
(* Admission *)

\* A request of Private is looked up under its own root.
LEMMA PrivateLookup ==
    ASSUME Private, NEW C, CacheShape(C), TreeOK(C.tree), C.installed = {}, NEW q \in Request,
           NEW key \in Seq(Nat)
    PROVE  OwnMatch(C, Meta[q].user, key, MatchPrefix(C, Meta[q].user, key, Meta[q].auth))
<1>1. Mode = "strict" /\ Meta[q].user \in User /\ Meta[q].auth = NoObject
  BY DEF Private
<1>2. OwnMatch(C, Meta[q].user, key, MatchPrefix(C, Meta[q].user, key, NoObject))
  BY <1>1, StrictMatch
<1> QED
  BY <1>1, <1>2

\* The slots a lookup returns are a row.
LEMMA MatchedRow ==
    ASSUME NEW C, NEW u, NEW key \in Seq(Nat), NEW m, OwnMatch(C, u, key, m),
           \A x \in DOMAIN C.tree.pos : C.tree.pos[x] \in Slot
    PROVE  MatchedSlots(m) \in Seq(Slot) /\ Len(MatchedSlots(m)) = m.len
<1> DEFINE g == MatchedSlots(m)
<1>1. /\ DOMAIN g = 1..m.len /\ Len(g) = m.len /\ m.len \in Nat
      /\ \A i \in 1..m.len : g[i] \in Slot
  <2>1. DOMAIN g = 1..m.len /\ Len(g) = m.len /\ m.len \in 0..Len(key)
    BY DEF OwnMatch
  <2>2. \A i \in 1..m.len : /\ <<u, Take(key, i)>> \in DOMAIN C.tree.pos
                             /\ g[i] = C.tree.pos[<<u, Take(key, i)>>]
    BY DEF OwnMatch
  <2> HIDE DEF g
  <2>3. \A i \in 1..m.len : g[i] \in Slot
    BY <2>2
  <2> QED
    BY <2>1, <2>3
<1>2. g = [i \in 1..m.len |-> g[i]]
  BY DEF MatchedSlots
<1> HIDE DEF g
<1>3. g \in Seq(Slot)
  <2>1. g \in [1..m.len -> Slot]
    BY <1>1, <1>2
  <2> QED
    BY <1>1, <2>1
<1> QED
  BY <1>1, <1>3 DEF g

\* The request as add_one_req admits it.
AdmittedAs(r, ids, m) ==
    /\ r.st = "admitted" /\ r.ids = ids /\ r.row = MatchedSlots(m) /\ r.plen = m.len
    /\ r.last = m.last

\* It has the slots of the prefix found, and no others.
LEMMA AdmittedRow ==
    ASSUME NEW C, NEW q, NEW ids \in Seq(Nat), NEW m,
           OwnMatch(C, Meta[q].user, Front(ids), m),
           \A x \in DOMAIN C.tree.pos : C.tree.pos[x] \in Slot, NEW r,
           AdmittedAs(r, ids, m)
    PROVE  RowOK(q, r, C.tree.pos) /\ LenOK(r) /\ r.plen = Len(r.row)
<1> DEFINE k == Front(ids)
           u == Meta[q].user
           w == MatchedSlots(m)
           n == m.len
           P == C.tree.pos
<1>1. /\ k \in Seq(Nat) /\ Len(k) <= Len(ids) /\ Len(k) \in Nat
      /\ ids # <<>> => Len(k) = Len(ids) - 1 /\ \A i \in 0..Len(ids) - 1 : Take(k, i) = Take(ids, i)
  BY FrontFacts
<1>2. w \in Seq(Slot) /\ Len(w) = n
  BY <1>1, MatchedRow
<1>3. /\ n \in 0..Len(k)
      /\ m.last = IF n = 0 THEN NoNode ELSE <<u, Take(k, n)>>
      /\ \A i \in 1..n : <<u, Take(k, i)>> \in DOMAIN P /\ w[i] = P[<<u, Take(k, i)>>]
  BY DEF OwnMatch
<1> HIDE DEF k, u, w, n, P
<1>4. \A i \in 0..n : Take(k, i) = Take(ids, i)
  <2>1. CASE ids = <<>>
    <3>1. n = 0 /\ Take(k, 0) = <<>> /\ Take(ids, 0) = <<>>
      BY <1>1, <1>3, <2>1, TakeNone
    <3> QED
      BY <3>1
  <2>2. CASE ids # <<>>
    BY <1>1, <1>3, <2>2
  <2> QED
    BY <2>1, <2>2
<1>5. \A i \in 0..n : Home(q, r, i) = <<u, Take(k, i)>>
  BY <1>4 DEF Home, u, AdmittedAs
<1>6. r.row = w /\ r.plen = n /\ r.last = m.last /\ r.ids = ids /\ r.st = "admitted"
  BY DEF AdmittedAs, w, n
<1>7. RowOK(q, r, P)
  <2>1. r.ids \in Seq(Nat) /\ r.plen \in Nat /\ r.row \in Seq(Slot) /\ r.plen <= Len(r.row)
        /\ Len(r.row) <= Len(r.ids)
    BY <1>1, <1>2, <1>3, <1>6
  <2>2. r.last = IF r.plen = 0 THEN NoNode ELSE Home(q, r, r.plen)
    BY <1>3, <1>5, <1>6
  <2>3. \A i \in 1..r.plen : Home(q, r, i) \in DOMAIN P /\ P[Home(q, r, i)] = r.row[i]
    <3> SUFFICES ASSUME NEW i \in 1..n
                 PROVE  Home(q, r, i) \in DOMAIN P /\ P[Home(q, r, i)] = w[i]
      BY <1>6
    <3>1. i \in 0..n
      BY <1>3
    <3> QED
      BY <1>3, <1>5, <3>1
  <2> QED
    BY <2>1, <2>2, <2>3 DEF RowOK
<1>8. LenOK(r) /\ r.plen = Len(r.row)
  BY <1>2, <1>6 DEF LenOK
<1> QED
  BY <1>7, <1>8 DEF P

\* inc_lock_ref and dec_lock_ref move no slot.
LEMMA LockPos ==
    ASSUME NEW T, TreeOK(T), NEW x
    PROVE  IncLockRef(T, x).pos = T.pos /\ DecLockRef(T, x).pos = T.pos
<1>1. T = [pos |-> T.pos, nd |-> T.nd, evictable |-> T.evictable, protected |-> T.protected]
  BY DEF TreeOK, TreeShape
<1> DEFINE a == IncLockRef(T, x).nd
<1> QED
  BY <1>1 DEF IncLockRef, DecLockRef

\* Admitting a matched request.
LEMMA AddMatchedSlots ==
    ASSUME Private, LockInv, SlotInv, NEW q \in Request, req[q].st = "waiting",
           NEW m, m = MatchPrefix(Cache, Meta[q].user, Front(req[q].ids), Meta[q].auth),
           NEW locked, locked = IncLockRef(m.C.tree, m.last), NEW total,
           AddMatched(q, m, locked, total), UNCHANGED <<free, kv>>
    PROVE  SlotInv'
<1>0. /\ ReqOK /\ TreeOK(tree) /\ ReqIs(req[q]) /\ DOMAIN req = Request
      /\ req[q].ids \in Seq(Nat) /\ installed = {}
      /\ SlotsOK(tree.pos, Held, req, free, kv)
  BY DEF LockInv, ReqOK, ReqIs, SlotInv
<1>k. Front(req[q].ids) \in Seq(Nat)
  BY <1>0, FrontFacts, SMTT(20)
<1>1. TreeOK(m.C.tree)
  BY <1>k, LookupLocks
<1>2. OwnMatch(Cache, Meta[q].user, Front(req[q].ids), m)
  BY <1>0, <1>k, CacheIs, PrivateLookup, SMTT(20)
<1>3. CacheShape(m.C) /\ m.C.installed = {} /\ m.C.tree.pos = tree.pos
  BY <1>2, CacheIs DEF OwnMatch
<1>4. CASE SetCache(m.C) /\ UNCHANGED req
  <2>1. tree'.pos = tree.pos /\ installed' = {}
    BY <1>3, <1>4 DEF SetCache
  <2> QED
    BY <1>4, <2>1, SameSlots
<1>5. CASE ~(SetCache(m.C) /\ UNCHANGED req)
  <2> DEFINE f == Min({Len(req[q].ids), m.len + RemChunkTokens})
             w == MatchedSlots(m)
             r == [req[q] EXCEPT !.st = "admitted", !.fill = f, !.row = w, !.plen = m.len,
                                 !.last = m.last]
  <2>1. req' = [req EXCEPT ![q] = r] /\ SetCache([m.C EXCEPT !.tree = locked])
    BY <1>5, <1>0, ZenonT(40) DEF AddMatched
  <2>2. tree'.pos = tree.pos /\ installed' = {}
    <3>1. tree' = locked /\ installed' = {}
      BY <2>1, <1>3, SetCacheTree
    <3> QED
      BY <3>1, <1>1, <1>3, LockPos, SMTT(20)
  <2>3. r = [st |-> "admitted", ids |-> req[q].ids, fill |-> f, row |-> w,
             plen |-> m.len, last |-> m.last]
    <3>1. req[q] = [st |-> req[q].st, ids |-> req[q].ids, fill |-> req[q].fill,
                    row |-> req[q].row, plen |-> req[q].plen, last |-> req[q].last]
      BY <1>0 DEF ReqIs, ReqShape
    <3>2. r = [req[q] EXCEPT !.st = "admitted", !.fill = f, !.row = w, !.plen = m.len,
                             !.last = m.last]
      OBVIOUS
    <3> HIDE DEF f, w, r
    <3> QED
      BY ONLY <3>1, <3>2
  <2> HIDE DEF r, f
  <2>4. AdmittedAs(r, req[q].ids, m)
    BY <2>3 DEF AdmittedAs
  <2>5. \A x \in DOMAIN tree.pos : tree.pos[x] \in Slot
    BY <1>0 DEF SlotsOK, Part, Apart
  <2>6. RowOK(q, r, tree.pos) /\ LenOK(r) /\ r.plen = Len(r.row)
    <3>1. Cache.tree.pos = tree.pos
      BY CacheIs
    <3>2. RowOK(q, r, Cache.tree.pos) /\ LenOK(r) /\ r.plen = Len(r.row)
      <4>1. \A x \in DOMAIN Cache.tree.pos : Cache.tree.pos[x] \in Slot
        BY <3>1, <2>5
      <4>2. req[q].ids \in Seq(Nat)
        BY <1>0
      <4> QED
        BY ONLY <1>2, <2>4, <4>1, <4>2, AdmittedRow
    <3> QED
      BY <3>1, <3>2
  <2>7. req'[q] = r /\ \A p \in Request : p # q => req'[p] = req[p]
    BY <1>0, <2>1
  <2>8. q \notin Held /\ Held' = Held \cup {q} /\ \A p \in Held : req'[p] = req[p]
    <3>1. "admitted" \in HeldStates /\ "waiting" \notin HeldStates
      BY DEF HeldStates, Status
    <3> QED
      BY <3>1, <2>4, <2>7, HeldFacts, HeldNext DEF AdmittedAs
  <2>9. SlotsOK(tree.pos, Held', req', free, kv)
    BY <1>0, <2>6, <2>7, <2>8, AdmitSlots
  <2> QED
    BY <2>2, <2>9, SMTT(20) DEF SlotInv
<1> QED
  BY <1>4, <1>5

\* add_one_req, whether it admits or gives the lock back.
LEMMA AddOneSlots ==
    ASSUME Private, LockInv, SlotInv, NEW q \in Request, AddOneReq(q)
    PROVE  SlotInv'
<1>1. req[q].st = "waiting" /\ UNCHANGED <<free, kv>>
  BY DEF AddOneReq, pools
<1>2. \E m, locked, total :
         /\ m = MatchPrefix(Cache, Meta[q].user, Front(req[q].ids), Meta[q].auth)
         /\ locked = IncLockRef(m.C.tree, m.last)
         /\ AddMatched(q, m, locked, total)
  BY DEF AddOneReq
<1>3. PICK m, locked, total :
         /\ m = MatchPrefix(Cache, Meta[q].user, Front(req[q].ids), Meta[q].auth)
         /\ locked = IncLockRef(m.C.tree, m.last)
         /\ AddMatched(q, m, locked, total)
  BY <1>2, SMTT(20)
<1> QED
  BY <1>1, <1>3, AddMatchedSlots

-----------------------------------------------------------------------------
(* Caching a request's tokens *)

\* i is the cache once the whole row of q has been inserted: the tree grew by the
\* places that were missing, and they have the slots of the row.
OwnInserted(q, i) ==
    /\ CacheShape(i.C) /\ TreeOK(i.C.tree) /\ i.C.installed = {}
    /\ i.len \in Nat /\ req[q].plen <= i.len /\ i.len <= Len(req[q].row)
    /\ \A j \in 1..Len(req[q].row) : Home(q, req[q], j) \in DOMAIN tree.pos <=> j <= i.len
    /\ DOMAIN i.C.tree.pos
         = DOMAIN tree.pos \cup {Home(q, req[q], j) : j \in 1..Len(req[q].row)}
    /\ \A x \in DOMAIN tree.pos : i.C.tree.pos[x] = tree.pos[x]
    /\ \A j \in i.len + 1 .. Len(req[q].row) :
          i.C.tree.pos[Home(q, req[q], j)] = req[q].row[j]
    /\ Len(req[q].row) # 0 => Home(q, req[q], Len(req[q].row)) \in DOMAIN i.C.tree.nd

\* insert of the row of a request of Private.
LEMMA PrivateInsert ==
    ASSUME Private, LockInv, SlotInv, NEW q \in Held
    PROVE  OwnInserted(q, Insert(Cache, q, Take(req[q].ids, Len(req[q].row)), req[q].row))
<1> DEFINE n == Len(req[q].row)
           ids == req[q].ids
           key == Take(ids, n)
           u == Meta[q].user
           i == Insert(Cache, q, key, req[q].row)
           P == tree.pos
           H(j) == Home(q, req[q], j)
<1>q. q \in Request /\ Meta[q].user \in User /\ Meta[q].auth = NoObject /\ Meta[q].user # NoUser
  BY HeldFacts, CacheAssumption DEF Private
<1>0. TreeOK(tree) /\ PlacesOK(tree) /\ installed = {} /\ RowOK(q, req[q], P)
  BY DEF LockInv, TreeOK, SlotInv, SlotsOK
<1>1. /\ ids \in Seq(Nat) /\ n \in 0..Len(ids) /\ n \in Nat /\ req[q].plen \in Nat
      /\ req[q].plen <= n
      /\ \A j \in 1..req[q].plen : H(j) \in DOMAIN P /\ P[H(j)] = req[q].row[j]
  BY <1>0 DEF RowOK
<1>2. key \in Seq(Nat) /\ Len(key) = n /\ (n # 0 => key # <<>>)
  BY <1>1, TakeType
<1>3. \A j \in 0..n : <<u, Take(key, j)>> = H(j)
  BY <1>1, TakeTake DEF Home
<1> HIDE DEF key, H
<1>4. /\ CacheShape(i.C) /\ i.C.installed \subseteq Cache.installed \cup ({Meta[q].auth} \cap Object)
      /\ InsertOf(Cache.tree, u, key, req[q].row, i.C.tree)
      /\ i.len = InsertedPrefix(Cache.tree, u, key)
  <2>1. CacheShape(Cache) /\ TreeOK(Cache.tree)
    BY <1>0, CacheIs
  <2>2. LET k == Insert(Cache, q, key, req[q].row)
        IN  /\ CacheShape(k.C)
            /\ k.C.installed \subseteq Cache.installed \cup ({Meta[q].auth} \cap Object)
            /\ Meta[q].user # NoUser /\ Meta[q].auth = NoObject
                 => /\ InsertOf(Cache.tree, Meta[q].user, key, req[q].row, k.C.tree)
                    /\ k.len = InsertedPrefix(Cache.tree, Meta[q].user, key)
    BY <1>q, <1>2, <2>1, InsertCacheFacts
  <2> QED
    BY <1>q, <2>2
<1> HIDE DEF i
<1>5. /\ i.C.installed = {} /\ InsertOf(tree, u, key, req[q].row, i.C.tree)
      /\ i.len = InsertedPrefix(tree, u, key)
  <2>1. NoObject \notin Object
    BY CacheAssumption
  <2>2. Cache.tree = tree /\ Cache.installed = {}
    BY <1>0, CacheIs
  <2>3. i.C.installed = {}
    BY <1>q, <1>4, <2>1, <2>2
  <2> QED
    BY <1>4, <2>2, <2>3
<1>6. /\ i.len \in 0..Len(key)
      /\ \A j \in 1..Len(key) : (<<u, Take(key, j)>> \in DOMAIN tree.pos) <=> j <= i.len
  <2> DEFINE m == InsertedPrefix(tree, u, key)
  <2>1. /\ m \in 0..Len(key)
        /\ \A j \in 1..Len(key) : (<<u, Take(key, j)>> \in DOMAIN tree.pos) <=> j <= m
    BY <1>0, <1>2, InsertedPrefixFacts
  <2>2. i.len = m
    BY <1>5
  <2> HIDE DEF m
  <2> QED
    BY ONLY <2>1, <2>2
<1>7. /\ TreeOK(i.C.tree)
      /\ \A x \in DOMAIN P : i.C.tree.pos[x] = P[x]
      /\ DOMAIN i.C.tree.pos = DOMAIN P \cup {<<u, Take(key, j)>> : j \in 1..Len(key)}
      /\ \A j \in i.len + 1 .. Len(key) : i.C.tree.pos[<<u, Take(key, j)>>] = req[q].row[j]
      /\ key # <<>> => <<u, key>> \in DOMAIN i.C.tree.nd
  <2>1. InsertOf(tree, u, key, req[q].row, i.C.tree) /\ i.len = InsertedPrefix(tree, u, key)
    BY <1>5
  <2>2. Grown(tree, i.C.tree)
    BY <2>1 DEF InsertOf
  <2>3. /\ DOMAIN i.C.tree.pos = DOMAIN P \cup {<<u, Take(key, j)>> : j \in 1..Len(key)}
        /\ \A j \in i.len + 1 .. Len(key) : i.C.tree.pos[<<u, Take(key, j)>>] = req[q].row[j]
        /\ key # <<>> => <<u, key>> \in DOMAIN i.C.tree.nd
    BY ONLY <2>1 DEF InsertOf
  <2>4. TreeOK(i.C.tree) /\ \A x \in DOMAIN P : i.C.tree.pos[x] = P[x]
    BY ONLY <2>2 DEF Grown
  <2> QED
    BY ONLY <2>3, <2>4
<1>8. i.len \in Nat /\ i.len <= n /\ \A j \in 1..n : H(j) \in DOMAIN P <=> j <= i.len
  <2>1. i.len \in Nat /\ i.len <= n
    BY <1>1, <1>2, <1>6
  <2>2. ASSUME NEW j \in 1..n PROVE H(j) \in DOMAIN P <=> j <= i.len
    <3>1. j \in 1..Len(key) /\ j \in 0..n
      BY <1>1, <1>2
    <3>2. <<u, Take(key, j)>> = H(j)
      BY <1>3, <3>1
    <3>3. <<u, Take(key, j)>> \in DOMAIN tree.pos <=> j <= i.len
      BY <1>6, <3>1
    <3> QED
      BY <3>2, <3>3
  <2> QED
    BY <2>1, <2>2
<1>9. req[q].plen <= i.len
  <2>1. CASE req[q].plen = 0
    BY <1>8, <2>1
  <2>2. CASE req[q].plen # 0
    <3>1. req[q].plen \in 1..req[q].plen /\ req[q].plen \in 1..n
      BY <1>1, <2>2
    <3>2. H(req[q].plen) \in DOMAIN P
      BY <1>1, <3>1
    <3> QED
      BY <1>8, <3>1, <3>2
  <2> QED
    BY <2>1, <2>2
<1>10. DOMAIN i.C.tree.pos = DOMAIN P \cup {H(j) : j \in 1..n}
  <2>1. {<<u, Take(key, j)>> : j \in 1..Len(key)} = {H(j) : j \in 1..n}
    <3>1. \A j \in 1..n : <<u, Take(key, j)>> = H(j)
      BY <1>1, <1>3
    <3> QED
      BY <1>2, <3>1
  <2> QED
    BY <1>7, <2>1
<1>11. \A j \in i.len + 1 .. n : i.C.tree.pos[H(j)] = req[q].row[j]
  <2> SUFFICES ASSUME NEW j \in i.len + 1 .. n
               PROVE  i.C.tree.pos[H(j)] = req[q].row[j]
    OBVIOUS
  <2>1. j \in 0..n /\ j \in i.len + 1 .. Len(key)
    BY <1>1, <1>2, <1>8
  <2> QED
    BY <1>3, <1>7, <2>1
<1>12. n # 0 => H(n) \in DOMAIN i.C.tree.nd
  <2> SUFFICES ASSUME n # 0 PROVE H(n) \in DOMAIN i.C.tree.nd
    OBVIOUS
  <2>1. Take(key, n) = key
    BY <1>2, TakeAll
  <2>2. <<u, Take(key, n)>> = H(n)
    BY <1>1, <1>3
  <2> QED
    BY <1>2, <1>7, <2>1, <2>2
<1> QED
  BY <1>4, <1>5, <1>7, <1>8, <1>9, <1>10, <1>11, <1>12, Zenon DEF OwnInserted, H, i, key

\* Once the row is inserted and its duplicates are freed, q has no tail.
LEMMA InsertedSlots ==
    ASSUME LockInv, SlotInv, NEW q \in Held, NEW i, OwnInserted(q, i),
           NEW K, \A p : p # q => (p \in K <=> p \in Held),
           NEW S, \A p \in Held : p # q => S[p] = req[p],
           q \in K => /\ RowOK(q, S[q], i.C.tree.pos) /\ LenOK(S[q])
                      /\ S[q].plen = Len(S[q].row)
    PROVE  SlotsOK(i.C.tree.pos, K, S,
                   Freed(free, SubSeq(req[q].row, req[q].plen + 1, i.len)), kv)
<1> DEFINE P == tree.pos
           Q == i.C.tree.pos
           m == i.len
           n == Len(req[q].row)
           fr == free
           ct == kv
           H == Held
           R == req
<1>1. SlotsOK(P, H, R, fr, ct)
  BY DEF SlotInv
<1>2. /\ m \in Nat /\ R[q].plen <= m /\ m <= Len(R[q].row)
      /\ \A j \in 1..Len(R[q].row) : Home(q, R[q], j) \in DOMAIN P <=> j <= m
  BY DEF OwnInserted
<1>3. /\ DOMAIN Q = DOMAIN P \cup {Home(q, R[q], j) : j \in 1..Len(R[q].row)}
      /\ \A x \in DOMAIN P : Q[x] = P[x]
      /\ \A j \in m + 1 .. Len(R[q].row) : Q[Home(q, R[q], j)] = R[q].row[j]
  BY DEF OwnInserted
<1>4. q \in K => RowOK(q, S[q], Q) /\ LenOK(S[q]) /\ S[q].plen = Len(S[q].row)
  OBVIOUS
<1>5. /\ q \in H /\ (\A p : p # q => (p \in K <=> p \in H))
      /\ \A p \in H : p # q => S[p] = R[p]
  OBVIOUS
<1> HIDE DEF P, Q, m, fr, ct, H, R
<1>6. SlotsOK(Q, K, S, Freed(fr, SubSeq(R[q].row, R[q].plen + 1, m)), ct)
  BY ONLY <1>1, <1>2, <1>3, <1>4, <1>5, InsertSlots
<1> QED
  BY ONLY <1>6 DEF Q, R, fr, m, ct

\* cache_finished_req.
LEMMA FinishSlots ==
    ASSUME Private, LockInv, SlotInv, NEW q \in Held, Len(req[q].row) = Len(req[q].ids),
           CacheFinishedReq(q)
    PROVE  SlotInv'
<1>q. q \in Request /\ DOMAIN req = Request
  BY HeldFacts DEF LockInv, ReqOK
<1> DEFINE i == Insert(Cache, q, req[q].ids, req[q].row)
           R == DecLockRef(i.C.tree, req[q].last)
           fr == Freed(free, SubSeq(req[q].row, req[q].plen + 1, i.len))
<1>1. /\ SetCache([i.C EXCEPT !.tree = R]) /\ req' = [req EXCEPT ![q] = NewReq(q)]
      /\ free' = fr /\ kv' = Forget(kv, free')
  BY DEF CacheFinishedReq
<1>2. OwnInserted(q, i)
  <2>1. req[q].ids \in Seq(Nat)
    BY DEF SlotInv, SlotsOK, RowOK
  <2>2. Take(req[q].ids, Len(req[q].row)) = req[q].ids
    BY <2>1, TakeAll
  <2> QED
    BY <2>2, PrivateInsert
<1> HIDE DEF i
<1>3. CacheShape(i.C) /\ TreeOK(i.C.tree) /\ i.C.installed = {}
  BY <1>2 DEF OwnInserted
<1>4. tree' = R /\ installed' = {}
  BY <1>1, <1>3, SetCacheTree
<1>5. tree'.pos = i.C.tree.pos
  BY <1>3, <1>4, LockPos
<1>6. req'[q] = NewReq(q) /\ \A p \in Request : p # q => req'[p] = req[p]
  BY <1>q, <1>1
<1>7. Held' = Held \ {q}
  <2>1. req'[q].st \notin HeldStates
    BY <1>q, <1>6, NewReqIs DEF HeldStates
  <2> QED
    BY <1>6, <2>1, HeldFacts, HeldNext
<1>8. SlotsOK(i.C.tree.pos, Held', req', fr, kv)
  <2>1. \A p : p # q => (p \in Held' <=> p \in Held)
    BY <1>7
  <2>2. \A p \in Held : p # q => req'[p] = req[p]
    BY <1>6, HeldFacts
  <2>3. q \notin Held'
    BY <1>7
  <2> QED
    BY <1>2, <2>1, <2>2, <2>3, InsertedSlots
<1>9. SlotsOK(i.C.tree.pos, Held', req', fr, Forget(kv, fr))
  BY <1>8, ForgetSlots
<1> QED
  BY <1>1, <1>4, <1>5, <1>9 DEF SlotInv

\* cache_unfinished_req finds what it has just inserted: its row becomes the slots
\* of the tree.
LEMMA TakenOver ==
    ASSUME NEW q, RowOK(q, req[q], tree.pos), \A x \in DOMAIN tree.pos : tree.pos[x] \in Slot,
           NEW i, OwnInserted(q, i), NEW m,
           OwnMatch(i.C, Meta[q].user, Take(req[q].ids, Len(req[q].row)), m)
    PROVE  LET n == Len(req[q].row)
               w == [k \in DOMAIN req[q].row |->
                        IF k \in req[q].plen + 1 .. m.len THEN MatchedSlots(m)[k]
                        ELSE req[q].row[k]]
           IN  /\ m.len = n /\ w \in Seq(Slot) /\ Len(w) = n
               /\ m.last = IF n = 0 THEN NoNode ELSE Home(q, req[q], n)
               /\ \A j \in 1..n : /\ Home(q, req[q], j) \in DOMAIN i.C.tree.pos
                                  /\ i.C.tree.pos[Home(q, req[q], j)] = w[j]
<1> DEFINE n == Len(req[q].row)
           row == req[q].row
           a == req[q].plen
           ids == req[q].ids
           key == Take(ids, n)
           u == Meta[q].user
           g == MatchedSlots(m)
           Q == i.C.tree.pos
           P == tree.pos
           H(j) == Home(q, req[q], j)
           w == [k \in DOMAIN row |-> IF k \in a + 1 .. m.len THEN g[k] ELSE row[k]]
<1>1. /\ ids \in Seq(Nat) /\ a \in Nat /\ row \in Seq(Slot) /\ a <= n /\ n \in 0..Len(ids)
      /\ n \in Nat /\ DOMAIN row = 1..n
      /\ \A j \in 1..a : H(j) \in DOMAIN P /\ P[H(j)] = row[j]
  BY DEF RowOK
<1>2. key \in Seq(Nat) /\ Len(key) = n /\ \A j \in 0..n : <<u, Take(key, j)>> = H(j)
  BY <1>1, TakeType, TakeTake DEF Home
<1>3. <<u, key>> = H(n)
  BY DEF Home
<1>4. /\ i.len \in Nat /\ i.len <= n
      /\ \A j \in 1..n : H(j) \in DOMAIN P <=> j <= i.len
      /\ DOMAIN Q = DOMAIN P \cup {H(j) : j \in 1..n}
      /\ \A x \in DOMAIN P : Q[x] = P[x]
  BY DEF OwnInserted
<1>5. /\ \A j \in i.len + 1 .. n : Q[H(j)] = row[j]
      /\ n # 0 => H(n) \in DOMAIN i.C.tree.nd
  BY DEF OwnInserted
<1>6. /\ m.len \in 0..Len(key) /\ m.last = IF m.len = 0 THEN NoNode ELSE <<u, Take(key, m.len)>>
      /\ <<u, key>> \in DOMAIN i.C.tree.nd => m.len = Len(key)
  BY DEF OwnMatch
<1>7. \A j \in 1..m.len : g[j] = Q[<<u, Take(key, j)>>]
  BY DEF OwnMatch
<1> HIDE DEF key, H, g, row, a, Q, P, n
<1>8. m.len = n
  <2>1. CASE n = 0
    BY <1>2, <1>6, <2>1
  <2>2. CASE n # 0
    BY <1>2, <1>3, <1>5, <1>6, <2>2
  <2> QED
    BY <2>1, <2>2
<1>9. m.last = IF n = 0 THEN NoNode ELSE H(n)
  <2>1. <<u, Take(key, n)>> = H(n)
    BY <1>1, <1>2
  <2> QED
    BY <1>6, <1>8, <2>1
<1>10. ASSUME NEW j \in 1..n
       PROVE  H(j) \in DOMAIN Q /\ Q[H(j)] \in Slot /\ Q[H(j)] = w[j]
  <2>0. j \in 0..n /\ j \in DOMAIN row /\ j \in Nat
    BY <1>1
  <2>1. H(j) \in DOMAIN Q
    BY <1>4
  <2>2. Q[H(j)] \in Slot
    <3>1. CASE j <= i.len
      <4>1. H(j) \in DOMAIN P
        BY <1>4, <3>1
      <4> QED
        BY <1>4, <4>1 DEF P
    <3>2. CASE ~(j <= i.len)
      <4>1. j \in i.len + 1 .. n
        BY <1>1, <1>4, <2>0, <3>2
      <4>2. row[j] \in Slot
        BY <1>1, <2>0
      <4> QED
        BY <1>5, <4>1, <4>2
    <3> QED
      BY <3>1, <3>2
  <2>3. CASE j <= a
    <3>1. j \in 1..a /\ j \notin a + 1 .. m.len
      BY <1>1, <2>0, <2>3
    <3>2. Q[H(j)] = row[j]
      BY <1>1, <1>4, <3>1
    <3>3. w[j] = row[j]
      BY <2>0, <3>1
    <3> QED
      BY <2>1, <2>2, <3>2, <3>3
  <2>4. CASE ~(j <= a)
    <3>1. j \in a + 1 .. m.len /\ j \in 1..m.len
      BY <1>1, <1>8, <2>0, <2>4
    <3>2. g[j] = Q[H(j)]
      BY <1>2, <1>7, <2>0, <3>1
    <3>3. w[j] = g[j]
      BY <2>0, <3>1
    <3> QED
      BY <2>1, <2>2, <3>2, <3>3
  <2> QED
    BY <2>3, <2>4
<1>11. w \in Seq(Slot) /\ Len(w) = n
  <2>1. DOMAIN w = 1..n /\ \A j \in 1..n : w[j] \in Slot
    BY <1>1, <1>10
  <2>2. w = [j \in 1..n |-> w[j]]
    BY <1>1
  <2> HIDE DEF w
  <2>3. w \in [1..n -> Slot]
    BY <2>1, <2>2
  <2> QED
    BY <1>1, <2>1, <2>3
<1> QED
  BY <1>8, <1>9, <1>10, <1>11 DEF n, H, Q, row, g, a

\* What cache_unfinished_req may be given: the tokens go on after the row, by one
\* token if the prompt is complete.
AfterGrows(q, after) ==
    /\ ReqShape(after) /\ after.ids \in Seq(Nat) /\ Len(req[q].row) <= Len(after.ids)
    /\ \A j \in 0..Len(req[q].row) : Take(after.ids, j) = Take(req[q].ids, j)
    /\ \/ after.st = "cached"
       \/ after.st = "prefilled" /\ Len(after.ids) = Len(req[q].row) + 1

\* The request with the row taken over.
TakesOver(r, after, w, m) ==
    r.st = after.st /\ r.ids = after.ids /\ r.row = w /\ r.plen = m.len /\ r.last = m.last

\* The match m found the whole row of q in the places Q, with the slots w.
Found(q, w, m, Q) ==
    /\ w \in Seq(Slot) /\ Len(w) = Len(req[q].row) /\ m.len = Len(w)
    /\ m.last = IF Len(w) = 0 THEN NoNode ELSE Home(q, req[q], Len(w))
    /\ \A j \in 1..Len(w) : Home(q, req[q], j) \in DOMAIN Q /\ Q[Home(q, req[q], j)] = w[j]

\* A row taken over from the tree is in order.
LEMMA TakenRow ==
    ASSUME NEW q, NEW after, AfterGrows(q, after), NEW w, NEW m, NEW Q, Found(q, w, m, Q),
           NEW r, TakesOver(r, after, w, m)
    PROVE  RowOK(q, r, Q) /\ LenOK(r) /\ r.plen = Len(r.row)
<1> USE DEF Found
<1>1. /\ r.st = after.st /\ r.ids = after.ids /\ r.row = w /\ r.plen = Len(w) /\ r.last = m.last
      /\ Len(w) \in Nat
  BY DEF TakesOver
<1>2. /\ r.ids \in Seq(Nat) /\ Len(r.row) <= Len(r.ids)
      /\ \A j \in 0..Len(w) : Take(r.ids, j) = Take(req[q].ids, j)
  BY <1>1 DEF AfterGrows
<1>3. \A j \in 0..Len(w) : Home(q, r, j) = Home(q, req[q], j)
  BY <1>2 DEF Home
<1>4. r.last = IF r.plen = 0 THEN NoNode ELSE Home(q, r, r.plen)
  BY <1>1, <1>3
<1>5. \A j \in 1..r.plen : Home(q, r, j) \in DOMAIN Q /\ Q[Home(q, r, j)] = r.row[j]
  <2> SUFFICES ASSUME NEW j \in 1..Len(w)
               PROVE  Home(q, r, j) \in DOMAIN Q /\ Q[Home(q, r, j)] = w[j]
    BY <1>1
  <2>1. Home(q, r, j) = Home(q, req[q], j)
    BY <1>1, <1>3
  <2> QED
    BY <2>1
<1>6. RowOK(q, r, Q)
  BY <1>1, <1>2, <1>4, <1>5 DEF RowOK
<1>7. LenOK(r) /\ r.plen = Len(r.row)
  BY <1>1, SMTT(20) DEF LenOK, AfterGrows
<1> QED
  BY <1>6, <1>7

\* cache_unfinished_req.
LEMMA InsertedMatched ==
    ASSUME Private, LockInv, SlotInv, NEW q \in Held, Len(req[q].row) = req[q].fill,
           NEW after, AfterGrows(q, after), NEW i, NEW m,
           i = Insert(Cache, q, FillIds(q), req[q].row),
           m = MatchPrefix(i.C, Meta[q].user, FillIds(q), Meta[q].auth),
           CacheInserted(q, after, i, m), kv' = Forget(kv, free'),
           after.st \in HeldStates
    PROVE  SlotInv'
<1>q. q \in Request /\ DOMAIN req = Request
  BY HeldFacts DEF LockInv, ReqOK
<1>0. /\ SlotsOK(tree.pos, Held, req, free, kv) /\ RowOK(q, req[q], tree.pos)
      /\ \A x \in DOMAIN tree.pos : tree.pos[x] \in Slot
  BY DEF SlotInv, SlotsOK, Part, Apart
<1>1. FillIds(q) = Take(req[q].ids, Len(req[q].row)) /\ FillIds(q) \in Seq(Nat)
  <2>1. ReqOK
    BY DEF LockInv
  <2> QED
    BY <1>q, <2>1, FillFacts DEF FillIds
<1>2. OwnInserted(q, i)
  BY <1>1, PrivateInsert
<1>3. CacheShape(i.C) /\ TreeOK(i.C.tree) /\ i.C.installed = {}
  BY <1>2 DEF OwnInserted
<1>4. /\ OwnMatch(i.C, Meta[q].user, FillIds(q), m) /\ Grown(i.C.tree, m.C.tree)
      /\ TreeOK(m.C.tree)
  <2> DEFINE C == i.C
             k == FillIds(q)
  <2>1. CacheShape(C) /\ TreeOK(C.tree) /\ C.installed = {} /\ k \in Seq(Nat)
        /\ Meta[q].user \in User \cup {NoUser}
    BY <1>q, <1>1, <1>3, CacheAssumption
  <2>2. m = MatchPrefix(C, Meta[q].user, k, Meta[q].auth)
    OBVIOUS
  <2> HIDE DEF C, k
  <2>3. OwnMatch(C, Meta[q].user, k, MatchPrefix(C, Meta[q].user, k, Meta[q].auth))
    BY <1>q, <2>1, PrivateLookup
  <2>4. MatchOf(C, k, MatchPrefix(C, Meta[q].user, k, Meta[q].auth))
    BY <2>1, MatchPrefixFacts
  <2>5. Grown(C.tree, m.C.tree) /\ TreeOK(m.C.tree)
    BY <2>2, <2>4, ZenonT(40) DEF MatchOf, Grown
  <2> QED
    BY ONLY <2>2, <2>3, <2>5 DEF C, k
<1>5. CacheShape(m.C) /\ m.C.installed = {} /\ m.C.tree.pos = i.C.tree.pos
  BY <1>4, Zenon DEF OwnMatch
<1> DEFINE n == Len(req[q].row)
           w == [k \in DOMAIN req[q].row |->
                    IF k \in req[q].plen + 1 .. m.len THEN MatchedSlots(m)[k]
                    ELSE req[q].row[k]]
           r == [after EXCEPT !.row = w, !.plen = m.len, !.last = m.last]
           R == DecLockRef(m.C.tree, req[q].last)
           fr == Freed(free, SubSeq(req[q].row, req[q].plen + 1, i.len))
<1>6. /\ m.len = n /\ w \in Seq(Slot) /\ Len(w) = n
      /\ m.last = IF n = 0 THEN NoNode ELSE Home(q, req[q], n)
      /\ \A j \in 1..n : /\ Home(q, req[q], j) \in DOMAIN i.C.tree.pos
                         /\ i.C.tree.pos[Home(q, req[q], j)] = w[j]
  <2>1. OwnMatch(i.C, Meta[q].user, Take(req[q].ids, Len(req[q].row)), m)
    BY <1>1, <1>4, Zenon
  <2>2. RowOK(q, req[q], tree.pos) /\ \A x \in DOMAIN tree.pos : tree.pos[x] \in Slot
    BY <1>0, SMTT(20)
  <2> QED
    BY ONLY <1>2, <2>1, <2>2, TakenOver, ZenonT(40)
<1>7. /\ SetCache([m.C EXCEPT !.tree = IncLockRef(R, m.last)]) /\ free' = fr
      /\ req' = [req EXCEPT ![q] = r]
  BY ONLY CacheInserted(q, after, i, m) DEF CacheInserted
<1>8. TreeOK(R)
  <2>1. /\ CacheShape(i.C) /\ SizesOK(i.C.tree)
        /\ Pins(i.C.tree, Held, LastOf) /\ LockedBy(i.C.tree, Held, LastOf)
    BY <1>1, <1>q, InsertLocks
  <2>3. /\ TreeOK(m.C.tree) /\ SizesOK(m.C.tree)
        /\ Pins(m.C.tree, Held, LastOf) /\ LockedBy(m.C.tree, Held, LastOf)
    BY <1>3, <1>4, <2>1, GrownLocks, ZenonT(40) DEF Grown
  <2> QED
    BY <2>3, Released
<1>9. tree'.pos = i.C.tree.pos /\ installed' = {}
  <2>1. R.pos = m.C.tree.pos
    BY <1>4, LockPos
  <2> HIDE DEF R
  <2>2. IncLockRef(R, m.last).pos = R.pos
    BY <1>8, LockPos
  <2>3. tree' = IncLockRef(R, m.last) /\ installed' = {}
    BY <1>5, <1>7, SetCacheTree, Zenon
  <2> QED
    BY <1>5, <2>1, <2>2, <2>3
<1>10. TakesOver(r, after, w, m)
  <2>0. r = [after EXCEPT !.row = w, !.plen = m.len, !.last = m.last]
    OBVIOUS
  <2>1. after = [st |-> after.st, ids |-> after.ids, fill |-> after.fill, row |-> after.row,
                 plen |-> after.plen, last |-> after.last]
    BY DEF AfterGrows, ReqShape
  <2> HIDE DEF r, w
  <2>2. r = [st |-> after.st, ids |-> after.ids, fill |-> after.fill, row |-> w,
             plen |-> m.len, last |-> m.last]
    BY ONLY <2>0, <2>1
  <2> QED
    BY ONLY <2>2 DEF TakesOver
<1> HIDE DEF r, w, R
<1>11. RowOK(q, r, i.C.tree.pos) /\ LenOK(r) /\ r.plen = Len(r.row)
  <2> DEFINE Q == i.C.tree.pos
  <2>1. /\ w \in Seq(Slot) /\ Len(w) = Len(req[q].row) /\ m.len = Len(w)
        /\ m.last = IF Len(w) = 0 THEN NoNode ELSE Home(q, req[q], Len(w))
        /\ \A j \in 1..Len(w) : Home(q, req[q], j) \in DOMAIN Q /\ Q[Home(q, req[q], j)] = w[j]
    BY <1>6
  <2>2. AfterGrows(q, after)
    OBVIOUS
  <2> HIDE DEF Q
  <2>3. Found(q, w, m, Q)
    BY ONLY <2>1 DEF Found
  <2>4. RowOK(q, r, Q) /\ LenOK(r) /\ r.plen = Len(r.row)
    BY ONLY <1>10, <2>2, <2>3, TakenRow
  <2> QED
    BY <2>4 DEF Q
<1>12. req'[q] = r /\ \A p \in Request : p # q => req'[p] = req[p]
  BY <1>q, <1>7
<1>13. Held' = Held
  <2>1. req'[q].st \in HeldStates /\ req[q].st \in HeldStates
    BY <1>10, <1>12, HeldFacts DEF TakesOver
  <2> QED
    BY <1>12, <2>1, HeldFacts, HeldNext
<1>14. SlotsOK(i.C.tree.pos, Held, req', fr, kv)
  <2>1. \A p : p # q => (p \in Held <=> p \in Held)
    OBVIOUS
  <2>2. \A p \in Held : p # q => req'[p] = req[p]
    BY <1>12, HeldFacts
  <2>3. RowOK(q, req'[q], i.C.tree.pos) /\ LenOK(req'[q]) /\ req'[q].plen = Len(req'[q].row)
    BY <1>11, <1>12
  <2> QED
    BY <1>2, <2>2, <2>3, InsertedSlots
<1>15. SlotsOK(i.C.tree.pos, Held, req', fr, Forget(kv, fr))
  BY <1>14, ForgetSlots
<1> QED
  BY <1>7, <1>9, <1>13, <1>15 DEF SlotInv

\* cache_unfinished_req keeps the slots in order.
LEMMA UnfinishedSlots ==
    ASSUME Private, LockInv, SlotInv, NEW q \in Held, Len(req[q].row) = req[q].fill,
           NEW after, AfterGrows(q, after), after.st \in HeldStates,
           CacheUnfinishedReq(q, after)
    PROVE  SlotInv'
<1>1. kv' = Forget(kv, free')
  BY DEF CacheUnfinishedReq
<1>2. \E i, m : /\ i = Insert(Cache, q, FillIds(q), req[q].row)
                /\ m = MatchPrefix(i.C, Meta[q].user, FillIds(q), Meta[q].auth)
                /\ CacheInserted(q, after, i, m)
  BY DEF CacheUnfinishedReq
<1> QED
  BY <1>1, <1>2, InsertedMatched

\* A prefilled request goes on with the sampled token.
LEMMA PrefilledGrows ==
    ASSUME ReqOK, NEW q \in Request, NEW t \in Nat, Len(req[q].row) = Len(req[q].ids)
    PROVE  LET after == [req[q] EXCEPT !.st = "prefilled", !.fill = 0,
                                       !.ids = Append(req[q].ids, t)]
           IN  AfterGrows(q, after) /\ after.st \in HeldStates
<1> DEFINE s == Append(req[q].ids, t)
           r == [req[q] EXCEPT !.st = "prefilled", !.fill = 0, !.ids = s]
<1>1. req[q] = [st |-> req[q].st, ids |-> req[q].ids, fill |-> req[q].fill,
                row |-> req[q].row, plen |-> req[q].plen, last |-> req[q].last]
      /\ req[q].ids \in Seq(Nat)
  BY DEF ReqOK, ReqIs, ReqShape
<1>2. s \in Seq(Nat) /\ Len(s) = Len(req[q].ids) + 1 /\ Len(req[q].ids) \in Nat
  BY <1>1
<1>3. \A j \in 0..Len(req[q].ids) : Take(s, j) = Take(req[q].ids, j)
  BY <1>1 DEF Take
<1>4. r = [req[q] EXCEPT !.st = "prefilled", !.fill = 0, !.ids = s]
  OBVIOUS
<1> HIDE DEF r, s
<1>5. r = [st |-> "prefilled", ids |-> s, fill |-> 0,
           row |-> req[q].row, plen |-> req[q].plen, last |-> req[q].last]
  BY <1>1, <1>4
<1>6. ReqShape(r) /\ r.st = "prefilled" /\ r.ids = s
  BY <1>5 DEF ReqShape
<1>7. AfterGrows(q, r) /\ r.st \in HeldStates
  BY <1>2, <1>3, <1>6 DEF AfterGrows, HeldStates, Status
<1> QED
  BY <1>7 DEF r, s

\* A chunk leaves the tokens alone.
LEMMA CachedGrows ==
    ASSUME ReqOK, NEW q \in Request, Len(req[q].row) <= Len(req[q].ids)
    PROVE  LET after == [req[q] EXCEPT !.st = "cached"]
           IN  AfterGrows(q, after) /\ after.st \in HeldStates
<1> DEFINE r == [req[q] EXCEPT !.st = "cached"]
<1>1. /\ req[q] = [st |-> req[q].st, ids |-> req[q].ids, fill |-> req[q].fill,
                   row |-> req[q].row, plen |-> req[q].plen, last |-> req[q].last]
      /\ req[q].ids \in Seq(Nat)
  BY DEF ReqOK, ReqIs, ReqShape
<1>3. r = [req[q] EXCEPT !.st = "cached"]
  OBVIOUS
<1> HIDE DEF r
<1>4. r = [st |-> "cached", ids |-> req[q].ids, fill |-> req[q].fill,
           row |-> req[q].row, plen |-> req[q].plen, last |-> req[q].last]
  BY <1>1, <1>3
<1>5. AfterGrows(q, r) /\ r.st \in HeldStates
  BY <1>1, <1>4 DEF AfterGrows, ReqShape, HeldStates, Status
<1> QED
  BY <1>5 DEF r

\* Caching the chunk just prefilled.
LEMMA ChunkSlots ==
    ASSUME Private, LockInv, SlotInv, NEW q \in Request, CacheChunkedReq(q)
    PROVE  SlotInv'
<1>1. q \in Held /\ req[q].st = "chunked"
  BY HeldFacts DEF CacheChunkedReq, HeldStates, Status
<1>2. Len(req[q].row) = req[q].fill /\ Len(req[q].row) <= Len(req[q].ids)
  BY <1>1 DEF SlotInv, SlotsOK, RowOK, LenOK
<1>3. /\ AfterGrows(q, [req[q] EXCEPT !.st = "cached"])
      /\ [req[q] EXCEPT !.st = "cached"].st \in HeldStates
  BY <1>2, CachedGrows DEF LockInv
<1>4. CacheUnfinishedReq(q, [req[q] EXCEPT !.st = "cached"])
  BY DEF CacheChunkedReq
<1> DEFINE after == [req[q] EXCEPT !.st = "cached"]
<1>5. AfterGrows(q, after) /\ after.st \in HeldStates /\ CacheUnfinishedReq(q, after)
  BY <1>3, <1>4
<1> HIDE DEF after
<1> QED
  BY <1>1, <1>2, <1>5, UnfinishedSlots

\* Processing a prefill result.
LEMMA PrefillSlots ==
    ASSUME Private, LockInv, SlotInv, NEW q \in Request, ProcessPrefill(q)
    PROVE  SlotInv'
<1>0. ReqOK /\ ReqIs(req[q]) /\ req[q].st = "prefill"
  BY DEF LockInv, ReqOK, ProcessPrefill
<1>1. q \in Held
  BY <1>0, HeldFacts DEF HeldStates, Status
<1>2. Len(req[q].row) = req[q].fill /\ Len(req[q].row) <= Len(req[q].ids)
  BY <1>0, <1>1 DEF SlotInv, SlotsOK, RowOK, LenOK
<1>3. ~Truncated(q) => Len(req[q].row) = Len(req[q].ids)
  BY <1>0, <1>2 DEF Truncated, ReqIs
<1>4. CASE req' = [req EXCEPT ![q].st = "chunked"] /\ UNCHANGED <<tree, pools, policy>>
  <2>1. UNCHANGED <<tree, free, kv, installed>>
    BY <1>4 DEF pools, policy
  <2> QED
    BY <1>0, <1>4, <2>1, ChunkedSlots
<1>5. CASE ~Truncated(q) /\ CacheFinishedReq(q)
  BY <1>1, <1>3, <1>5, FinishSlots
<1>6. CASE /\ ~Truncated(q)
           /\ \E t \in Token : CacheUnfinishedReq(q, [req[q] EXCEPT !.st = "prefilled",
                                !.fill = 0, !.ids = Append(req[q].ids, t)])
  <2>1. PICK t \in Token : CacheUnfinishedReq(q, [req[q] EXCEPT !.st = "prefilled",
                                !.fill = 0, !.ids = Append(req[q].ids, t)])
    BY <1>6
  <2>2. t \in Nat
    BY CacheAssumption
  <2> DEFINE after == [req[q] EXCEPT !.st = "prefilled", !.fill = 0,
                                     !.ids = Append(req[q].ids, t)]
  <2>3. AfterGrows(q, after) /\ after.st \in HeldStates
    BY <1>0, <1>3, <1>6, <2>2, PrefilledGrows
  <2>4. CacheUnfinishedReq(q, after)
    BY <2>1
  <2> HIDE DEF after
  <2> QED
    BY <1>1, <1>2, <2>3, <2>4, UnfinishedSlots
<1> QED
  BY <1>4, <1>5, <1>6 DEF ProcessPrefill

\* Processing a decode result.
LEMMA DecodeSlots ==
    ASSUME Private, LockInv, SlotInv, NEW q \in Request, ProcessDecode(q)
    PROVE  SlotInv'
<1>0. req[q].st = "decode"
  BY DEF ProcessDecode
<1>1. q \in Held
  BY <1>0, HeldFacts DEF HeldStates, Status
<1>2. Len(req[q].row) = Len(req[q].ids)
  BY <1>0, <1>1 DEF SlotInv, SlotsOK, LenOK
<1>3. CASE CacheFinishedReq(q)
  BY <1>1, <1>2, <1>3, FinishSlots
<1>4. CASE /\ \E t \in Token : req' = [req EXCEPT ![q].st = "running",
                                                  ![q].ids = Append(@, t)]
           /\ UNCHANGED <<tree, pools, policy>>
  <2>1. PICK t \in Token : req' = [req EXCEPT ![q].st = "running", ![q].ids = Append(@, t)]
    BY <1>4
  <2>2. t \in Nat /\ UNCHANGED <<tree, free, kv, installed>>
    BY <1>4, CacheAssumption DEF pools, policy
  <2> QED
    BY <1>0, <2>1, <2>2, DecodedSlots
<1> QED
  BY <1>3, <1>4 DEF ProcessDecode

-----------------------------------------------------------------------------
(* What the slots are for *)

\* SlotInv is inductive on top of LockInv.
LEMMA StepSlots ==
    ASSUME Private, LockInv, SlotInv, [Next]_vars
    PROVE  SlotInv'
<1>0. ~FlushMidChunk /\ Mode # "balanced"
  BY DEF Private
<1>1. ASSUME NEW q \in Request, Arrive(q) \/ AbortWaiting(q) PROVE SlotInv'
  BY <1>1, ArriveSlots
<1>2. ASSUME NEW q \in Request, CacheChunkedReq(q) PROVE SlotInv'
  BY <1>2, ChunkSlots
<1>3. ASSUME NEW q \in Request, AddChunkedReq(q) PROVE SlotInv'
  BY <1>3, AddChunkedSlots
<1>4. ASSUME NEW q \in Request, AddOneReq(q) PROVE SlotInv'
  BY <1>4, AddOneSlots
<1>5. ASSUME NEW q \in Request, ProcessPrefill(q) PROVE SlotInv'
  BY <1>5, PrefillSlots
<1>6. ASSUME NEW q \in Request, ProcessDecode(q) PROVE SlotInv'
  BY <1>6, DecodeSlots
<1>7. ASSUME NEW q \in Request, RetractDecode(q) PROVE SlotInv'
  BY <1>7, RetractSlots
<1>8. CASE PrepareForExtend \/ PrepareForDecode \/ PrepareForDecodeAfterRetract
  BY <1>8, LaunchesSlots
<1>9. CASE \/ \E x \in DOMAIN tree.nd : DetectorPromotes(x)
           \/ \E u \in User : PromoteToBudgeted(u)
  BY <1>0, <1>9 DEF DetectorPromotes, PromoteToBudgeted
<1>10. CASE (\E o \in Object : Revoke(o)) \/ UNCHANGED vars
  <2>1. UNCHANGED <<tree, free, kv, req, installed>>
    BY <1>10 DEF Revoke, vars, policy, pools
  <2>2. installed = {}
    BY DEF SlotInv
  <2> QED
    BY <2>1, <2>2, SameSlots
<1>11. CASE FlushCache
  BY <1>0, <1>11, FlushSlots
<1> QED
  BY <1>1, <1>2, <1>3, <1>4, <1>5, <1>6, <1>7, <1>8, <1>9, <1>10, <1>11 DEF Next

\* Where a slot of a row comes from: the place of its prefix under the request's
\* own root, or the request's own tail.
LEMMA RowEntry ==
    ASSUME NEW P, NEW H, NEW R, NEW q \in H, RowOK(q, R[q], P), NEW i \in 1..Len(R[q].row)
    PROVE  \/ \E z \in DOMAIN P : /\ P[z] = R[q].row[i] /\ z[1] = Meta[q].user
                                  /\ z[2] = Take(R[q].ids, i)
           \/ \E h \in DOMAIN TailsOf(H, R) : /\ TailsOf(H, R)[h] = R[q].row[i]
                                              /\ h[1] = q /\ h[2] = i
<1>1. R[q].plen \in Nat /\ Len(R[q].row) \in Nat /\ i \in Nat
  BY DEF RowOK
<1>2. CASE i <= R[q].plen
  <2> DEFINE z == Home(q, R[q], i)
  <2>1. z \in DOMAIN P /\ P[z] = R[q].row[i]
    BY <1>1, <1>2 DEF RowOK
  <2>2. z[1] = Meta[q].user /\ z[2] = Take(R[q].ids, i)
    BY DEF Home
  <2> HIDE DEF z
  <2> QED
    BY <2>1, <2>2
<1>3. CASE ~(i <= R[q].plen)
  <2> DEFINE h == <<q, i>>
  <2>1. h = <<h[1], h[2]>> /\ h[1] = q /\ h[2] = i
    OBVIOUS
  <2>2. InTail(R[q], i)
    BY <1>1, <1>3 DEF InTail
  <2> HIDE DEF h
  <2>3. h \in DOMAIN TailsOf(H, R) /\ TailsOf(H, R)[h] = R[q].row[i]
    BY <2>1, <2>2, TailsFacts
  <2> QED
    BY <2>1, <2>3
<1> QED
  BY <1>2, <1>3

\* The invariant keeps every prefix in use in the tree, under a lock.
LEMMA SlotInvPinned == LockInv /\ SlotInv => PrefixPinned
<1> SUFFICES ASSUME LockInv, SlotInv, NEW q \in Held, NEW i \in 1..req[q].plen
             PROVE  LET x == <<req[q].last[1], Take(req[q].last[2], i)>>
                    IN  /\ x \in DOMAIN tree.pos
                        /\ tree.pos[x] = req[q].row[i]
                        /\ \E y \in DOMAIN tree.nd : /\ x \in Positions(tree, y)
                                                     /\ tree.nd[y].lock > 0
  BY DEF PrefixPinned
<1> DEFINE b == req[q].last
           n == req[q].plen
           ids == req[q].ids
           x == <<b[1], Take(b[2], i)>>
<1>1. /\ TreeOK(tree) /\ PlacesOK(tree) /\ Pins(tree, Held, LastOf)
      /\ LockedBy(tree, Held, LastOf) /\ RowOK(q, req[q], tree.pos)
  BY DEF LockInv, TreeOK, SlotInv, SlotsOK
<1>2. LastOf[q] = b /\ IsFiniteSet(Held)
  BY HeldFacts DEF LastOf
<1>3. /\ ids \in Seq(Nat) /\ n \in Nat /\ n <= Len(ids) /\ n # 0 /\ i \in 0..n /\ i # 0
      /\ n \in 0..Len(ids)
  BY <1>1 DEF RowOK
<1>4. b = Home(q, req[q], n) /\ Home(q, req[q], i) \in DOMAIN tree.pos
      /\ tree.pos[Home(q, req[q], i)] = req[q].row[i]
  BY <1>1, <1>3 DEF RowOK
<1>5. b = <<Meta[q].user, Take(ids, n)>>
  BY <1>4 DEF Home
<1>6. Take(Take(ids, n), i) = Take(ids, i) /\ Take(ids, n) # <<>> /\ Len(Take(ids, n)) = n
      /\ Take(ids, n) \in Seq(Nat)
  BY <1>3, TakeTake, TakeType
<1>7. x = Home(q, req[q], i)
  BY <1>5, <1>6 DEF Home
<1>8. b \in DOMAIN tree.nd
  <2>1. b[2] # <<>>
    BY <1>5, <1>6
  <2> QED
    BY <1>1, <1>2, <2>1 DEF Pins
<1>9. IsSpot(b) /\ i \in 0..Len(b[2])
  BY <1>3, <1>5, <1>6 DEF IsSpot
<1>10. x = At(b, i) /\ Above(x, b)
  <2>1. x = At(b, i)
    BY DEF At
  <2>2. Above(At(b, i), b)
    BY <1>9, AtFacts
  <2> QED
    BY <2>1, <2>2
<1> HIDE DEF x, b
<1>11. PICK y \in DOMAIN tree.nd : Ends(tree, x, y) /\ Above(y, b)
  BY <1>1, <1>4, <1>7, <1>8, <1>10, EndsAbove
<1>12. x \in Positions(tree, y)
  BY <1>1, <1>4, <1>7, <1>11, PositionsFacts
<1>13. tree.nd[y].lock > 0
  <2>1. LetGo(tree, Held, LastOf, q, DecLockRef(tree, LastOf[q]))
    BY ONLY <1>1, <1>2, q \in Held, DecLocks
  <2> QED
    BY ONLY <1>2, <1>11, <2>1 DEF LetGo
<1> QED
  BY <1>4, <1>7, <1>11, <1>12, <1>13 DEF x, b

\* The invariant gives every slot one owner.
LEMMA SlotInvPartitioned == SlotInv => SlotsPartitioned
<1> DEFINE P == tree.pos
           t == TailsOf(Held, req)
           X(s) == {x \in DOMAIN P : P[x] = s}
           Y(s) == {h \in Held \X (1..NumSlots) :
                      /\ h[2] > req[h[1]].plen /\ h[2] <= Len(req[h[1]].row)
                      /\ req[h[1]].row[h[2]] = s}
<1> SUFFICES ASSUME SlotInv, NEW s \in Slot
             PROVE  free[s] + Cardinality(X(s)) + Cardinality(Y(s)) = 1
  BY DEF SlotsPartitioned
<1>1. Part(P, t, free) /\ Apart(P, t) /\ \A q \in Held : RowOK(q, req[q], P)
  BY DEF SlotInv, SlotsOK, Part
<1>2. Y(s) = {h \in DOMAIN t : t[h] = s}
  <2>1. ASSUME NEW h, h \in Y(s) PROVE h \in DOMAIN t /\ t[h] = s
    <3>1. /\ h = <<h[1], h[2]>> /\ h[1] \in Held /\ h[2] \in 1..NumSlots
          /\ h[2] > req[h[1]].plen /\ h[2] <= Len(req[h[1]].row) /\ req[h[1]].row[h[2]] = s
      BY <2>1
    <3>2. InTail(req[h[1]], h[2])
      <4>1. h[2] \in Nat
        BY <3>1, CacheAssumption
      <4>2. req[h[1]].plen \in Nat
        BY <1>1, <3>1 DEF RowOK
      <4> QED
        BY <3>1, <4>1, <4>2 DEF InTail
    <3> QED
      BY <3>1, <3>2, TailsFacts
  <2>2. ASSUME NEW h \in DOMAIN t, t[h] = s PROVE h \in Y(s)
    <3>1. /\ h = <<h[1], h[2]>> /\ h[1] \in Held /\ InTail(req[h[1]], h[2])
          /\ req[h[1]].row[h[2]] = s
      BY <2>2, TailsFacts
    <3>2. RowOK(h[1], req[h[1]], P) /\ Len(req[h[1]].row) <= NumSlots
      BY <1>1, <3>1, RowBound
    <3>3. req[h[1]].plen \in Nat /\ Len(req[h[1]].row) \in Nat /\ NumSlots \in Nat
      BY <3>2, CacheAssumption DEF RowOK
    <3>4. h[2] \in 1..NumSlots /\ h[2] > req[h[1]].plen /\ h[2] <= Len(req[h[1]].row)
      BY <3>1, <3>2, <3>3 DEF InTail
    <3> QED
      BY <3>1, <3>4
  <2> HIDE DEF Y, t
  <2> QED
    BY <2>1, <2>2
<1> DEFINE Z == {h \in DOMAIN t : t[h] = s}
<1> HIDE DEF t, Y, P
<1>3. free[s] \in {0, 1} /\ (free[s] = 0 <=> Owned(P, t, s))
  BY <1>1 DEF Part
<1>4. CASE free[s] = 1
  <2>1. X(s) = {} /\ Z = {}
    BY <1>3, <1>4 DEF Owned
  <2>2. Cardinality(X(s)) = 0 /\ Cardinality(Z) = 0
    BY <2>1, FS_EmptySet
  <2> HIDE DEF X, Z
  <2> QED
    BY <1>2, <1>4, <2>2 DEF Z
<1>5. CASE free[s] = 0 /\ \E x \in DOMAIN P : P[x] = s
  <2>1. PICK x \in DOMAIN P : P[x] = s
    BY <1>5
  <2>2. X(s) = {x} /\ Z = {}
    BY <1>1, <2>1 DEF Apart
  <2>3. Cardinality(X(s)) = 1 /\ Cardinality(Z) = 0
    BY <2>2, FS_EmptySet, FS_Singleton
  <2> HIDE DEF X, Z
  <2> QED
    BY <1>2, <1>5, <2>3 DEF Z
<1>6. CASE free[s] = 0 /\ \E h \in DOMAIN t : t[h] = s
  <2>1. PICK h \in DOMAIN t : t[h] = s
    BY <1>6
  <2>2. X(s) = {} /\ Z = {h}
    BY <1>1, <2>1 DEF Apart
  <2>3. Cardinality(X(s)) = 0 /\ Cardinality(Z) = 1
    BY <2>2, FS_EmptySet, FS_Singleton
  <2> HIDE DEF X, Z
  <2> QED
    BY <1>2, <1>6, <2>3 DEF Z
<1> QED
  BY <1>3, <1>4, <1>5, <1>6 DEF Owned

\* The invariant says what the slots in use hold.
LEMMA SlotInvIntact == SlotInv => KVIntact
<1> DEFINE P == tree.pos
           t == TailsOf(Held, req)
<1> SUFFICES ASSUME SlotInv PROVE KVIntact
  OBVIOUS
<1>1. /\ Part(P, t, free) /\ Apart(P, t) /\ Holds(P, t, kv, req)
      /\ \A q \in Held : RowOK(q, req[q], P)
  BY DEF SlotInv, SlotsOK, Part
<1>2. ASSUME NEW q \in Held, NEW i \in 1..Len(req[q].row)
      PROVE  kv[req[q].row[i]] = Take(req[q].ids, i) /\ free[req[q].row[i]] = 0
  <2>1. CASE \E z \in DOMAIN P : /\ P[z] = req[q].row[i] /\ z[1] = Meta[q].user
                                 /\ z[2] = Take(req[q].ids, i)
    BY <1>1, <2>1 DEF Part, Apart, Owned, Holds
  <2>2. CASE \E h \in DOMAIN t : t[h] = req[q].row[i] /\ h[1] = q /\ h[2] = i
    <3> HIDE DEF t
    <3> QED
      BY <1>1, <2>2 DEF Part, Apart, Owned, Holds
  <2> QED
    BY <1>1, <2>1, <2>2, RowEntry
<1>3. \A x \in DOMAIN P : kv[P[x]] = x[2]
  BY <1>1 DEF Holds
<1> QED
  BY <1>2, <1>3 DEF KVIntact

\* The invariant keeps the slots of different principals apart.
LEMMA SlotInvDisjoint == SlotInv => TenantsDisjoint
<1> DEFINE P == tree.pos
           t == TailsOf(Held, req)
           InTree(q, s) == \E z \in DOMAIN P : P[z] = s /\ z[1] = Meta[q].user
           InOwn(q, s) == \E h \in DOMAIN t : t[h] = s /\ h[1] = q
<1> SUFFICES ASSUME SlotInv PROVE TenantsDisjoint
  OBVIOUS
<1>1. Apart(P, t) /\ \A q \in Held : RowOK(q, req[q], P)
  BY DEF SlotInv, SlotsOK, Part
<1>2. ASSUME NEW q \in Held, NEW i \in 1..Len(req[q].row)
      PROVE  InTree(q, req[q].row[i]) \/ InOwn(q, req[q].row[i])
  <2>1. RowOK(q, req[q], P)
    BY <1>1
  <2> QED
    BY <2>1, RowEntry
<1> HIDE DEF t, P
<1>3. ASSUME NEW q, NEW p, Meta[p].user # Meta[q].user, NEW s,
             InTree(q, s) \/ InOwn(q, s), InTree(p, s) \/ InOwn(p, s)
      PROVE  FALSE
  BY <1>1, <1>3 DEF Apart
<1>4. ASSUME NEW q, NEW s, InTree(q, s) \/ InOwn(q, s), NEW x \in DOMAIN P, P[x] = s
      PROVE  x[1] = Meta[q].user
  BY <1>1, <1>4 DEF Apart
<1> HIDE DEF InTree, InOwn
<1> QED
  BY <1>2, <1>3, <1>4 DEF TenantsDisjoint, P

\* available_size of a free list on which no slot is twice.
LEMMA AvailableIs ==
    ASSUME NEW fr \in [Slot -> {0, 1}]
    PROVE  LET F == {s \in Slot : fr[s] = 1}
           IN  IsFiniteSet(F) /\ Available(fr) = Cardinality(F)
<1> DEFINE F == {s \in Slot : fr[s] = 1}
<1>1. IsFiniteSet(Slot)
  BY CacheAssumption, FS_Interval DEF Slot
<1>2. IsFiniteSet(F)
  BY <1>1, FS_Subset
<1>3. UNION {{x} \X (1..fr[x]) : x \in DOMAIN fr} = F \X {1}
  <2>1. ASSUME NEW x \in Slot PROVE (1..fr[x]) = IF fr[x] = 1 THEN {1} ELSE {}
    <3>1. CASE fr[x] = 1
      BY <3>1
    <3>2. CASE fr[x] = 0
      BY <3>2
    <3> QED
      BY <3>1, <3>2
  <2> QED
    BY <2>1
<1>4. IsFiniteSet({1}) /\ Cardinality({1}) = 1
  BY FS_Singleton
<1> HIDE DEF F
<1>5. Cardinality(F \X {1}) = Cardinality(F) * Cardinality({1})
  BY <1>2, <1>4, FS_Product
<1>6. Cardinality(F) \in Nat
  BY <1>2, FS_CardinalityType
<1>7. Available(fr) = Cardinality(F)
  <2>1. Available(fr) = Cardinality(UNION {{x} \X (1..fr[x]) : x \in DOMAIN fr})
    BY DEF Available, Total
  <2>2. Available(fr) = Cardinality(F \X {1})
    BY ONLY <1>3, <2>1
  <2> QED
    BY <1>4, <1>5, <1>6, <2>2
<1> QED
  BY <1>2, <1>7 DEF F

\* When nobody is in flight, the tree has every slot that is not free, and all of
\* it can be evicted.
LEMMA IdleMemory == LockInv /\ SlotInv => CheckMemory
<1> SUFFICES ASSUME LockInv, SlotInv, In(Status \ {"idle"}) = {}
             PROVE  Available(free) + tree.evictable = NumSlots
  BY DEF CheckMemory
<1> DEFINE P == tree.pos
           D == DOMAIN P
           F == {s \in Slot : free[s] = 1}
           U == {s \in Slot : free[s] = 0}
           t == TailsOf(Held, req)
           f == [x \in D |-> P[x]]
<1>0. /\ TreeOK(tree) /\ PlacesOK(tree) /\ NodesOK(tree) /\ SizesOK(tree)
      /\ LockedBy(tree, Held, LastOf) /\ ReqOK
      /\ Part(P, t, free) /\ free \in [Slot -> {0, 1}]
  BY DEF LockInv, TreeOK, SlotInv, SlotsOK, Part
<1>1. Held = {}
  <2>1. \A q \in Request : req[q].st \in Status
    BY <1>0 DEF ReqOK, ReqIs
  <2>2. \A q \in Request : req[q].st = "idle"
    BY <2>1 DEF In
  <2> QED
    BY <2>2, HeldFacts DEF HeldStates
<1>2. \A x \in DOMAIN tree.nd : tree.nd[x].lock = 0
  <2> SUFFICES ASSUME NEW x \in DOMAIN tree.nd PROVE tree.nd[x].lock = 0
    OBVIOUS
  <2>1. tree.nd[x].lock = Cardinality({q \in Held : Above(x, LastOf[q])})
    BY <1>0 DEF LockedBy
  <2>2. {q \in Held : Above(x, LastOf[q])} = {}
    BY <1>1
  <2> QED
    BY <2>1, <2>2, FS_EmptySet
<1>3. Loose(tree) = D
  <2>1. \A z \in D : z \in Loose(tree)
    BY <1>0, <1>2, EndsExists, LooseFacts
  <2>2. Loose(tree) \subseteq D
    BY DEF Loose, Gone
  <2> QED
    BY <2>1, <2>2
<1>4. IsFiniteSet(D) /\ tree.evictable = Cardinality(D)
  BY <1>0, <1>3 DEF SizesOK
<1>5. IsFiniteSet(F) /\ Available(free) = Cardinality(F)
  BY <1>0, AvailableIs
<1>6. DOMAIN t = {}
  BY <1>1, TailsFacts
<1>7. f \in Bijection(D, U)
  <2> HIDE DEF t
  <2>1. Apart(P, t) /\ \A s \in Slot : free[s] = 0 <=> Owned(P, t, s)
    BY <1>0 DEF Part
  <2>2. \A x \in D : P[x] \in U
    BY <2>1 DEF Apart, Owned
  <2>3. \A s \in U : \E x \in D : P[x] = s
    BY <1>6, <2>1 DEF Owned
  <2>4. \A x, y \in D : P[x] = P[y] => x = y
    BY <2>1 DEF Apart
  <2> HIDE DEF U, P, D
  <2>5. f \in [D -> U] /\ (\A x, y \in D : f[x] = f[y] => x = y) /\ \A s \in U : \E x \in D : f[x] = s
    BY <2>2, <2>3, <2>4
  <2> QED
    BY <2>5 DEF Bijection, Injection, Surjection, IsInjective
<1>8. IsFiniteSet(U) /\ Cardinality(U) = Cardinality(D)
  <2> HIDE DEF f, U, D
  <2> QED
    BY <1>4, <1>7, FS_Bijection DEF ExistsBijection
<1>9. Slot = F \cup U /\ F \cap U = {}
  BY <1>0
<1>10. Cardinality(Slot) = NumSlots
  <2>1. NumSlots \in Nat /\ NumSlots >= 1
    BY CacheAssumption
  <2> QED
    BY <2>1, FS_Interval DEF Slot
<1> HIDE DEF F, U, D
<1>11. Cardinality(F \cup U) = Cardinality(F) + Cardinality(U) - Cardinality(F \cap U)
  BY <1>5, <1>8, FS_Union
<1>12. Cardinality(F \cap U) = 0
  BY <1>9, FS_EmptySet
<1>13. Cardinality(F) \in Nat /\ Cardinality(U) \in Nat
  BY <1>5, <1>8, FS_CardinalityType
<1> QED
  BY <1>4, <1>5, <1>8, <1>9, <1>10, <1>11, <1>12, <1>13

\* Both invariants hold throughout.
LEMMA SlotsThroughout == Private => (Spec => [](LockInv /\ SlotInv))
<1> SUFFICES ASSUME Private PROVE Spec => [](LockInv /\ SlotInv)
  OBVIOUS
<1>0. ~FlushMidChunk
  BY DEF Private
<1>1. Init => LockInv /\ SlotInv
  BY InitLocks, InitSlots
<1>2. LockInv /\ SlotInv /\ [Next]_vars => (LockInv /\ SlotInv)'
  BY <1>0, StepLocks, StepSlots
<1> QED
  BY <1>1, <1>2, PTL DEF Spec

\* cache_unfinished_req and evict: in strict mode, with private requests and no
\* flush between two chunks, the prefix of a request in flight stays in the tree,
\* in its own slots and in locked nodes.
THEOREM PrefixStays == Private => (Spec => []PrefixPinned)
<1> SUFFICES ASSUME Private PROVE Spec => []PrefixPinned
  OBVIOUS
<1>1. Spec => [](LockInv /\ SlotInv)
  BY SlotsThroughout
<1>2. LockInv /\ SlotInv => PrefixPinned
  BY SlotInvPinned
<1> QED
  BY <1>1, <1>2, PTL

\* alloc, free, insert, evict and retract_decode: in strict mode, with private
\* requests and no flush between two chunks, every slot of the pool is on the free
\* list, at one place of the tree or in the tail of one request, and nowhere else.
THEOREM SlotsHaveOneOwner == Private => (Spec => []SlotsPartitioned)
<1> SUFFICES ASSUME Private PROVE Spec => []SlotsPartitioned
  OBVIOUS
<1>1. Spec => [](LockInv /\ SlotInv)
  BY SlotsThroughout
<1>2. LockInv /\ SlotInv => SlotsPartitioned
  BY SlotInvPartitioned
<1> QED
  BY <1>1, <1>2, PTL

\* What a request reads is the KV of its own tokens, and each place of the tree
\* has the KV of that prefix: under the same conditions no eviction, reuse or
\* insertion overwrites a slot in use.
THEOREM KVStaysIntact == Private => (Spec => []KVIntact)
<1> SUFFICES ASSUME Private PROVE Spec => []KVIntact
  OBVIOUS
<1>1. Spec => [](LockInv /\ SlotInv)
  BY SlotsThroughout
<1>2. LockInv /\ SlotInv => KVIntact
  BY SlotInvIntact
<1> QED
  BY <1>1, <1>2, PTL

\* _private_root, insert and _visible_to in strict mode: under the same conditions
\* no slot of one principal's request is in another principal's row or tree.
THEOREM TenantsShareNothing == Private => (Spec => []TenantsDisjoint)
<1> SUFFICES ASSUME Private PROVE Spec => []TenantsDisjoint
  OBVIOUS
<1>1. Spec => [](LockInv /\ SlotInv)
  BY SlotsThroughout
<1>2. LockInv /\ SlotInv => TenantsDisjoint
  BY SlotInvDisjoint
<1> QED
  BY <1>1, <1>2, PTL

\* check_memory's sum is the size of the pool whenever the scheduler is idle, under
\* the same conditions (in Balanced mode it need not be, once the slots of a
\* cross-tenant prefix have a node in each tree: run cache_balanced_alias).
THEOREM IdleMemoryAddsUp == Private => (Spec => []CheckMemory)
<1> SUFFICES ASSUME Private PROVE Spec => []CheckMemory
  OBVIOUS
<1>1. Spec => [](LockInv /\ SlotInv)
  BY SlotsThroughout
<1>2. LockInv /\ SlotInv => CheckMemory
  BY IdleMemory
<1> QED
  BY <1>1, <1>2, PTL
=============================================================================
