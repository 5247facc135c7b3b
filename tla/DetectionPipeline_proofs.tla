----------------------- MODULE DetectionPipeline_proofs -----------------------
(***************************************************************************)
(* The hit path of BalancedHit, for every set of nodes and threads and     *)
(* every budget: a process with one lookup thread (the scheduler) that     *)
(* never calls promote_to_budgeted serves a fingerprint at most B times;   *)
(* and with any number of lookups and promoters but no detector, a demoted *)
(* node is never shared again.  Then the detection pipeline, for all       *)
(* prompts, rules, models, trees and numbers of threads: it implements     *)
(* BalancedHit's detector, in the server a node is shared only after both  *)
(* tiers cleared its own line, however nodes are split meanwhile, and a    *)
(* parent whose privacy was inherited is never shared afterwards.          *)
(***************************************************************************)
EXTENDS DetectionPipeline, FiniteSetTheorems, TLAPS

-----------------------------------------------------------------------------
(* The hit path: BalancedHit *)

\* The initial state satisfies the inductive invariant.
LEMMA InitIInv == Init => IInv
  BY HitAssumption DEF Init, IInv, TypeOK, Places, Account, PC, Thread

\* Whatever thread moves, types, places and the bound on charges are kept.
LEMMA PlacesStep ==
  ASSUME IInv, NEW t \in Thread, Advance(t)
  PROVE  TypeOK' /\ Places' /\ (\A e \in Edge : charged'[e] <= B) /\ threads' = threads
<1> USE HitAssumption DEF IInv, TypeOK, Places, PC, Goto, Return, Release, Acquire, Serve
<1>0. /\ at[t] \in Node /\ edge[at[t]] \in Edge /\ B \in Nat
      /\ \A e \in Edge : charged[e] <= B
      /\ charged \in [Edge -> Nat] /\ served \in [Edge -> Nat]
  BY DEF Advance, CheckBudgeted, ReserveHit, ReserveDenied, ReserveServed,
         ReserveExhausts, MarkPermanent, DetectorWrites, PromoteShares, PromoteExhausts
<1>1. CASE CheckBudgeted(t)
  <2>1. \/ pc' = [pc EXCEPT ![t] = "reserve"] /\ at' = at /\ served' = served
        \/ /\ pc' = [pc EXCEPT ![t] = "idle"] /\ at' = [at EXCEPT ![t] = NoNode]
           /\ served' = [served EXCEPT ![edge[at[t]]] = @ + 1]
    BY <1>1 DEF CheckBudgeted
  <2>2. UNCHANGED <<threads, vis, edge, perm, holder, charged>> /\ pc[t] = "visible"
    BY <1>1 DEF CheckBudgeted
  <2>3. CASE pc' = [pc EXCEPT ![t] = "reserve"] /\ at' = at /\ served' = served
    BY <1>0, <2>2, <2>3
  <2>4. CASE /\ pc' = [pc EXCEPT ![t] = "idle"] /\ at' = [at EXCEPT ![t] = NoNode]
             /\ served' = [served EXCEPT ![edge[at[t]]] = @ + 1]
    BY <1>0, <2>2, <2>4
  <2> QED
    BY <2>1, <2>3, <2>4
<1>2. CASE ReserveHit(t)
  <2>1. /\ at' = at
        /\ \/ pc' = [pc EXCEPT ![t] = "lost"] \/ pc' = [pc EXCEPT ![t] = "last"]
           \/ pc' = [pc EXCEPT ![t] = "charged"] \/ pc' = [pc EXCEPT ![t] = "refused"]
    BY <1>2 DEF ReserveHit
  <2>2. /\ UNCHANGED <<threads, vis, edge, perm, served>> /\ pc[t] = "reserve"
        /\ holder' = [holder EXCEPT ![at[t]] = {t}]
    BY <1>2 DEF ReserveHit
  <2>3. charged' \in [Edge -> Nat] /\ \A e \in Edge : charged'[e] <= B
    <3>1. \/ charged' = charged
          \/ /\ charged' = [charged EXCEPT ![edge[at[t]]] = @ + 1]
             /\ charged[edge[at[t]]] < B
      BY <1>2 DEF ReserveHit
    <3> QED
      BY ONLY <1>0, <3>1
  <2>4. /\ pc'[t] \in {"lost", "last", "charged", "refused"} /\ pc' \in [Thread -> PC]
        /\ \A u \in Thread : u # t => pc'[u] = pc[u]
    BY <2>1
  <2>5. TypeOK'
    BY <1>0, <2>1, <2>2, <2>3, <2>4
  <2>6. Places'
    BY <1>0, <2>1, <2>2, <2>4 DEF Thread
  <2> QED
    BY <2>2, <2>3, <2>5, <2>6
<1>3. CASE ReserveDenied(t)
  BY <1>3 DEF ReserveDenied
<1>4. CASE ReserveServed(t)
  BY <1>0, <1>4 DEF ReserveServed
<1>5. CASE ReserveExhausts(t)
  BY <1>0, <1>5 DEF ReserveExhausts
<1>6. CASE MarkPermanent(t)
  BY <1>6 DEF MarkPermanent
<1>7. CASE DetectorWrites(t)
  BY <1>0, <1>7 DEF DetectorWrites
<1>8. CASE PromoteShares(t)
  BY <1>0, <1>8 DEF PromoteShares
<1>9. CASE PromoteExhausts(t)
  BY <1>0, <1>9 DEF PromoteExhausts
<1> QED
  BY <1>1, <1>2, <1>3, <1>4, <1>5, <1>6, <1>7, <1>8, <1>9 DEF Advance

\* The account of one edge, when t is the lookup that works.
Owes(t, e) == IF pc[t] \in {"charged", "last"} /\ edge[at[t]] = e
              THEN served[e] + 1 ELSE served[e]

\* The only lookup keeps the account of charges and hits.
LEMMA LookupAccount ==
  ASSUME IInv, OneLookup, Account, NEW t \in Lookup, Advance(t)
  PROVE  Account'
<1>1. /\ pc \in [Thread -> PC] /\ t \in Thread /\ at \in [Thread -> Node \cup {NoNode}]
      /\ charged \in [Edge -> Nat] /\ served \in [Edge -> Nat]
      /\ vis \in [Node -> {"absent", "private", "budgeted_shared", "exhausted_private"}]
  BY DEF IInv, TypeOK, Thread
<1>2. pc[t] # "idle" /\ edge' = edge
  BY DEF Advance, CheckBudgeted, ReserveHit, ReserveDenied, ReserveServed,
         ReserveExhausts, MarkPermanent, DetectorWrites, PromoteShares, PromoteExhausts
<1>3. \A u \in Lookup : u # t => pc[u] = "idle"
  BY <1>2 DEF IInv, Places, OneLookup, Thread
<1>4. /\ pc[t] \in {"visible", "reserve", "charged", "last", "refused", "exhausted",
                    "lost", "split"}
      /\ \A e \in Edge : charged[e] = Owes(t, e)
      /\ edge[at[t]] \in Edge
  BY <1>1, <1>2, <1>3 DEF IInv, Places, Account, Owes
<1>5. /\ pc'[t] # "visible"
      /\ \A u \in Lookup : u # t => pc'[u] = "idle"
      /\ \A e \in Edge : charged'[e] = Owes(t, e)'
  <2> USE HitAssumption DEF Goto, Return, Serve, Owes
  <2>1. CASE CheckBudgeted(t)
    <3>1. pc[t] = "visible" /\ vis[at[t]] = "budgeted_shared"
      BY <2>1 DEF CheckBudgeted, Account
    <3>2. pc' = [pc EXCEPT ![t] = "reserve"] /\ served' = served /\ charged' = charged
      BY <2>1, <3>1 DEF CheckBudgeted
    <3> QED
      BY <3>1, <3>2, <1>1, <1>3, <1>4
  <2>2. CASE ReserveHit(t)
    <3>1. pc[t] = "reserve" /\ charged = served /\ served' = served /\ at' = at
      BY <2>2, <1>1, <1>4 DEF ReserveHit
    <3>2. \/ charged' = charged /\ pc' = [pc EXCEPT ![t] = "lost"]
          \/ charged' = charged /\ pc' = [pc EXCEPT ![t] = "refused"]
          \/ /\ charged' = [charged EXCEPT ![edge[at[t]]] = @ + 1]
             /\ pc' = [pc EXCEPT ![t] = "last"]
          \/ /\ charged' = [charged EXCEPT ![edge[at[t]]] = @ + 1]
             /\ pc' = [pc EXCEPT ![t] = "charged"]
      BY <2>2 DEF ReserveHit
    <3>3. /\ \A u \in Lookup : u # t => pc'[u] = pc[u]
          /\ \/ charged' = charged /\ pc'[t] = "lost"
             \/ charged' = charged /\ pc'[t] = "refused"
             \/ /\ charged' = [charged EXCEPT ![edge[at[t]]] = @ + 1]
                /\ pc'[t] \in {"last", "charged"}
      BY <3>2, <1>1 DEF Thread
    <3>4. pc'[t] # "visible" /\ \A u \in Lookup : u # t => pc'[u] = "idle"
      BY <3>3, <1>3
    <3>5. ASSUME NEW e \in Edge PROVE charged'[e] = Owes(t, e)'
      BY ONLY <3>1, <3>3, <1>1, <1>2, <1>4, e \in Edge DEF Owes
    <3> QED
      BY <3>4, <3>5
  <2>3. CASE ReserveDenied(t)
    BY <2>3, <1>1, <1>3, <1>4 DEF ReserveDenied
  <2>4. CASE ReserveServed(t)
    BY <2>4, <1>1, <1>2, <1>3, <1>4 DEF ReserveServed
  <2>5. CASE ReserveExhausts(t)
    <3>1. /\ pc' = [pc EXCEPT ![t] = "exhausted"] /\ at' = at /\ charged' = charged
          /\ \/ pc[t] = "last" /\ served' = [served EXCEPT ![edge[at[t]]] = @ + 1]
             \/ pc[t] = "refused" /\ served' = served
      BY <2>5 DEF ReserveExhausts
    <3>2. pc'[t] = "exhausted" /\ \A u \in Lookup : u # t => pc'[u] = "idle"
      BY <3>1, <1>1, <1>3 DEF Thread
    <3>3. ASSUME NEW e \in Edge PROVE charged'[e] = Owes(t, e)'
      BY ONLY <3>1, <3>2, <1>1, <1>2, <1>4, e \in Edge DEF Owes
    <3> QED
      BY <3>2, <3>3
  <2>6. CASE MarkPermanent(t)
    BY <2>6, <1>1, <1>3, <1>4 DEF MarkPermanent
  <2> QED
    BY <2>1, <2>2, <2>3, <2>4, <2>5, <2>6, <1>4
    DEF Advance, DetectorWrites, PromoteShares, PromoteExhausts
<1> QED
  BY <1>5 DEF Account, Owes

\* A detector only ever makes a node shareable.
LEMMA DetectorAccount ==
  ASSUME IInv, OneLookup, Account, NEW d \in Detector, Advance(d)
  PROVE  Account'
<1>1. DetectorWrites(d)
  BY DEF IInv, Places, Advance, CheckBudgeted, ReserveHit, ReserveDenied,
         ReserveServed, ReserveExhausts, MarkPermanent, PromoteShares, PromoteExhausts
<1>2. /\ \A u \in Lookup : pc'[u] = pc[u] /\ at'[u] = at[u]
      /\ charged' = charged /\ served' = served /\ edge' = edge
  BY <1>1, HitAssumption DEF DetectorWrites, Return, IInv, TypeOK, Thread
<1>3. \A u \in Lookup : pc[u] = "visible" => vis'[at[u]] = "budgeted_shared"
  BY <1>1 DEF DetectorWrites, Account, IInv, TypeOK, Places, Thread
<1> QED
  BY <1>2, <1>3 DEF Account

\* No promoter moves in this deployment.
LEMMA AdvanceIInv ==
  ASSUME IInv, NEW t \in Thread, Advance(t)
  PROVE  IInv'
<1>1. TypeOK' /\ Places' /\ (\A e \in Edge : charged'[e] <= B) /\ threads' = threads
  BY PlacesStep
<1>2. ASSUME OneLookup' PROVE Account'
  <2>1. OneLookup /\ Account
    BY <1>1, <1>2 DEF OneLookup, IInv
  <2>2. t \notin Promoter
    BY <2>1 DEF OneLookup, IInv, Places, Advance, CheckBudgeted, ReserveHit,
      ReserveDenied, ReserveServed, ReserveExhausts, MarkPermanent, DetectorWrites,
      PromoteShares, PromoteExhausts
  <2> QED
    BY <2>1, <2>2, LookupAccount, DetectorAccount DEF Thread
<1> QED
  BY <1>1, <1>2, HitAssumption DEF IInv

\* Entering a method.
LEMMA EnterIInv ==
  ASSUME IInv,
         \/ \E t \in Lookup, n \in Node : VisibleTo(t, n) \/ SplitBegins(t, n)
         \/ \E d \in Detector, n \in Node : DetectorChecks(d, n)
         \/ \E p \in Promoter, n \in Node : PromoteLocks(p, n)
  PROVE  IInv'
<1> USE HitAssumption DEF IInv, TypeOK, Places, PC, Start, Thread
<1> DEFINE Same == UNCHANGED <<charged, served, threads, edge>>
<1>1. ASSUME NEW t \in Lookup, NEW n \in Node, VisibleTo(t, n) \/ SplitBegins(t, n)
      PROVE  IInv'
  <2>1. /\ at' = [at EXCEPT ![t] = n] /\ UNCHANGED <<vis, perm, holder>> /\ Same
        /\ pc[t] = "idle" /\ t \in threads /\ vis[n] # "absent"
        /\ \/ pc' = [pc EXCEPT ![t] = "visible"] /\ vis[n] = "budgeted_shared"
           \/ pc' = [pc EXCEPT ![t] = "split"]
    BY <1>1 DEF VisibleTo, SplitBegins
  <2>2. TypeOK' /\ Places'
    <3>1. \A u \in Thread : u # t => pc'[u] = pc[u] /\ at'[u] = at[u]
      BY <2>1
    <3>2. t \in Thread /\ at'[t] = n /\ pc'[t] \in {"visible", "split"}
      BY <2>1
    <3>3. pc' \in [Thread -> PC] /\ at' \in [Thread -> Node \cup {NoNode}]
      <4>1. pc \in [Thread -> PC] /\ at \in [Thread -> Node \cup {NoNode}]
        OBVIOUS
      <4> QED
        BY ONLY <2>1, <4>1, n \in Node DEF PC
    <3>4. TypeOK'
      BY <2>1, <3>3
    <3>5. Places'
      <4>1. \A u \in Thread : pc'[u] # "idle" =>
               u \in threads /\ at'[u] \in Node /\ vis[at'[u]] # "absent"
        BY <2>1, <3>1, <3>2
      <4>2. \A d \in Detector : pc'[d] \in {"idle", "private"}
        BY <3>1
      <4>3. \A u \in Lookup : pc'[u] \in {"idle", "visible", "reserve", "charged", "last",
                                         "refused", "exhausted", "lost", "split"}
        BY <3>1, <3>2
      <4> QED
        BY <2>1, <4>1, <4>2, <4>3
    <3> QED
      BY <3>4, <3>5
  <2>3. ASSUME Account PROVE Account'
    <3>1. \A u \in Lookup : u # t => pc'[u] = pc[u] /\ at'[u] = at[u]
      BY <2>1
    <3>2. at'[t] = n /\ (pc'[t] = "split" \/ (pc'[t] = "visible" /\ vis[n] = "budgeted_shared"))
      BY <2>1
    <3> QED
      BY ONLY <2>1, <2>3, <3>1, <3>2 DEF Account
  <2> QED
    BY <2>1, <2>2, <2>3 DEF OneLookup
<1>2. ASSUME NEW d \in Detector, NEW n \in Node, DetectorChecks(d, n) PROVE IInv'
  <2>1. TypeOK' /\ Places' /\ Same
    BY <1>2 DEF DetectorChecks
  <2>2. Account => Account'
    <3>1. vis' = vis /\ \A u \in Lookup : pc'[u] = pc[u] /\ at'[u] = at[u]
      BY <1>2 DEF DetectorChecks
    <3> QED
      BY ONLY <2>1, <3>1 DEF Account
  <2> QED
    BY <2>1, <2>2 DEF OneLookup
<1>3. ASSUME NEW p \in Promoter, NEW n \in Node, PromoteLocks(p, n) PROVE IInv'
  <2>1. TypeOK' /\ Places' /\ Same
    BY <1>3 DEF PromoteLocks, Acquire
  <2>2. ~OneLookup
    BY <1>3 DEF PromoteLocks, OneLookup
  <2> QED
    BY <2>1, <2>2 DEF OneLookup
<1> QED
  BY <1>1, <1>2, <1>3

\* A lookup never works on a node that is inserted or evicted.
LEMMA CacheIInv ==
  ASSUME IInv, NEW n \in Node, (\E e \in Edge : Insert(n, e)) \/ Evict(n)
  PROVE  IInv'
<1>1. \A t \in Thread : /\ pc'[t] = pc[t] \/ pc'[t] = "idle"
                        /\ pc'[t] # "idle" => at'[t] = at[t]
  BY DEF Insert, Evict, IInv, TypeOK
<1>2. \A t \in Lookup : pc'[t] = pc[t] /\ at'[t] = at[t]
  BY DEF Insert, Evict, Thread, IInv, TypeOK
<1>3. TypeOK' /\ charged' = charged /\ threads' = threads /\ served' = served
  <2>1. CASE \E e \in Edge : Insert(n, e)
    BY <2>1 DEF Insert, IInv, TypeOK
  <2>2. CASE Evict(n)
    <3>1. pc' \in [Thread -> PC] /\ at' \in [Thread -> Node \cup {NoNode}]
      BY <2>2 DEF Evict, IInv, TypeOK, PC
    <3> QED
      BY <2>2, <3>1 DEF Evict, IInv, TypeOK
  <2> QED
    BY <2>1, <2>2
<1>4. Places'
  <2>1. \A t \in Thread : pc'[t] # "idle" => vis'[at[t]] # "absent"
    BY DEF Insert, Evict, IInv, TypeOK, Places
  <2>2. \A m \in Node : vis'[m] # "absent" => edge'[m] \in Edge
    BY DEF Insert, Evict, IInv, TypeOK, Places
  <2> QED
    BY <2>1, <2>2, <1>1, <1>2, <1>3 DEF IInv, Places, Thread
<1>5. Account => Account'
  <2> SUFFICES ASSUME Account PROVE Account'
    OBVIOUS
  <2>1. \A t \in Lookup : pc[t] = "visible" => vis'[at[t]] = "budgeted_shared"
    BY DEF Account, Insert, Evict, IInv, TypeOK, Places, Thread
  <2>2. \A t \in Lookup : pc[t] \in {"charged", "last"} => edge'[at[t]] = edge[at[t]]
    BY DEF Insert, Evict, IInv, TypeOK, Places, Thread
  <2> QED
    BY <2>1, <2>2, <1>2, <1>3 DEF Account
<1> QED
  BY <1>3, <1>4, <1>5 DEF IInv, OneLookup

\* A split changes no account: the thread that splits is the only lookup, so that
\* none is between its charge and its hit.
LEMMA SplitIInv ==
  ASSUME IInv, NEW t \in Lookup, NEW u \in Node, SplitLinks(t, u)
  PROVE  IInv'
<1> DEFINE n == at[t]
<1>1. /\ t \in Thread /\ n \in Node /\ vis[n] # "absent" /\ vis[u] = "absent" /\ u # n
  BY DEF SplitLinks, IInv, Places, Thread
<1>2. /\ vis' = [vis EXCEPT ![u] = vis[n]] /\ perm' = [perm EXCEPT ![u] = perm[n]]
      /\ pc' = [pc EXCEPT ![t] = "idle"] /\ at' = [at EXCEPT ![t] = NoNode]
      /\ UNCHANGED <<threads, holder, charged, served>>
  BY DEF SplitLinks, Return
<1>3. PICK f \in Edge, b \in Edge : edge' = [edge EXCEPT ![u] = f, ![n] = b]
  BY DEF SplitLinks, Halves
<1>4. TypeOK'
  BY <1>1, <1>2, <1>3 DEF IInv, TypeOK, PC
<1>5. Places'
  BY <1>1, <1>2, <1>3, <1>4 DEF IInv, TypeOK, Places, Thread
<1>6. ASSUME OneLookup' PROVE Account'
  <2>1. OneLookup /\ Account
    BY <1>2, <1>6 DEF OneLookup, IInv
  <2>2. \A v \in Lookup : pc'[v] = "idle"
    BY <1>1, <1>2, <2>1 DEF OneLookup, IInv, TypeOK, Places, SplitLinks, Thread
  <2>3. \A e \in Edge : charged[e] = served[e]
    BY <2>1 DEF Account, OneLookup, IInv, Places, SplitLinks, Thread
  <2> QED
    BY <1>2, <2>2, <2>3 DEF Account
<1> QED
  BY <1>2, <1>4, <1>5, <1>6 DEF IInv

\* Every step preserves the inductive invariant.
LEMMA NextIInv ==
  ASSUME IInv, [Next]_vars
  PROVE  IInv'
<1>1. CASE UNCHANGED vars
  BY <1>1 DEF vars, IInv, TypeOK, Places, Account, OneLookup
<1>2. CASE Next
  BY <1>2, AdvanceIInv, EnterIInv, CacheIInv, SplitIInv DEF Next
<1> QED
  BY <1>1, <1>2

\* When one thread looks up, the scheduler: however nodes are detected, split,
\* evicted and cached again, at most B cross-tenant hits are served on a
\* fingerprint (_match_prefix_helper, _reserve_balanced_hit).
THEOREM SchedulerNeverOvershoots == Spec => []SchedulerKeepsBudget
<1>1. Init => IInv
  BY InitIInv
<1>2. IInv /\ [Next]_vars => IInv'
  BY NextIInv
<1>3. IInv => SchedulerKeepsBudget
  <2> SUFFICES ASSUME IInv, OneLookup, NEW e \in Edge PROVE served[e] <= B
    BY DEF SchedulerKeepsBudget, NoOvershoot
  <2>1. /\ B \in Nat /\ charged[e] \in Nat /\ served[e] \in Nat /\ charged[e] <= B
        /\ charged[e] = served[e] \/ charged[e] = served[e] + 1
    BY HitAssumption DEF IInv, TypeOK, Account
  <2> QED
    BY ONLY <2>1
<1> QED
  BY <1>1, <1>2, <1>3, PTL DEF Spec

-----------------------------------------------------------------------------
\* A step of one thread inside its critical section, or one that acquires the
\* lock, disturbs no other thread's section.
LEMMA LockAdvance ==
  ASSUME IInv, Detector \cap threads = {}, Sections, NEW t \in Thread, Advance(t)
  PROVE  Sections'
<1> USE DEF Sections, Goto, Return, Release, Acquire
<1>0. /\ vis \in [Node -> {"absent", "private", "budgeted_shared", "exhausted_private"}]
      /\ perm \in [Node -> BOOLEAN] /\ holder \in [Node -> SUBSET Thread]
      /\ pc \in [Thread -> PC] /\ at \in [Thread -> Node \cup {NoNode}]
      /\ \A u \in Thread : pc[u] # "idle" => at[u] \in Node
  BY DEF IInv, TypeOK, Places
<1>1. CASE CheckBudgeted(t)
  BY <1>0, <1>1 DEF CheckBudgeted
<1>2. CASE ReserveHit(t)
  BY <1>0, <1>2 DEF ReserveHit
<1>3. CASE ReserveDenied(t)
  BY <1>0, <1>3 DEF ReserveDenied
<1>4. CASE ReserveServed(t)
  BY <1>0, <1>4 DEF ReserveServed
<1>5. CASE ReserveExhausts(t)
  BY <1>0, <1>5 DEF ReserveExhausts
<1>6. CASE MarkPermanent(t)
  BY <1>0, <1>6, SMTT(30) DEF MarkPermanent
<1>7. CASE DetectorWrites(t)
  BY <1>0, <1>7 DEF DetectorWrites
<1>8. CASE PromoteShares(t)
  BY <1>0, <1>8 DEF PromoteShares
<1>9. CASE PromoteExhausts(t)
  BY <1>0, <1>9 DEF PromoteExhausts
<1> QED
  BY <1>1, <1>2, <1>3, <1>4, <1>5, <1>6, <1>7, <1>8, <1>9 DEF Advance

\* Entering a method keeps the sections apart; a node that is inserted or evicted
\* is in nobody's.
LEMMA LockEnter ==
  ASSUME IInv, Detector \cap threads = {}, Sections, Next,
         ~ \E t \in Thread : Advance(t)
  PROVE  Sections'
<1> USE HitAssumption DEF Sections, IInv, TypeOK, Places
<1>1. CASE \E t \in Lookup, n \in Node : VisibleTo(t, n)
  BY <1>1 DEF VisibleTo, Start, Thread
<1>2. CASE \E p \in Promoter, n \in Node : PromoteLocks(p, n)
  BY <1>2 DEF PromoteLocks, Start, Acquire, Thread
<1>3. ASSUME NEW n \in Node, (\E e \in Edge : Insert(n, e)) \/ Evict(n) PROVE Sections'
  <2>1. \A t \in Thread : pc[t] # "idle" => at[t] # n
    BY <1>3 DEF Insert, Evict, Thread
  <2>2. \A t \in Thread : /\ pc'[t] = pc[t]
                          /\ pc[t] # "idle" => at'[t] = at[t]
    BY <1>3, <2>1 DEF Insert, Evict
  <2>3. /\ holder' = holder
        /\ \A m \in Node : m # n => vis'[m] = vis[m] /\ perm'[m] = perm[m]
        /\ ~perm'[n]
    BY <1>3 DEF Insert, Evict
  <2>4. \A t \in Thread : pc[t] # "idle" => at[t] \in Node
    OBVIOUS
  <2> QED
    BY ONLY <2>1, <2>2, <2>3, <2>4, Sections DEF Sections
<1>4. ASSUME NEW t \in Lookup, NEW n \in Node, SplitBegins(t, n) PROVE Sections'
  <2>1. /\ pc' = [pc EXCEPT ![t] = "split"] /\ at' = [at EXCEPT ![t] = n]
        /\ UNCHANGED <<vis, perm, holder>>
    BY <1>4 DEF SplitBegins, Start
  <2> QED
    BY <2>1 DEF Thread
<1>5. ASSUME NEW t \in Lookup, NEW u \in Node, SplitLinks(t, u) PROVE Sections'
  <2>1. /\ pc' = [pc EXCEPT ![t] = "idle"] /\ at' = [at EXCEPT ![t] = NoNode]
        /\ holder' = holder /\ vis[u] = "absent" /\ at[t] \in Node
        /\ vis' = [vis EXCEPT ![u] = vis[at[t]]] /\ perm' = [perm EXCEPT ![u] = perm[at[t]]]
    BY <1>5 DEF SplitLinks, Return, Thread
  <2>2. \A v \in Thread : v # t => pc'[v] = pc[v] /\ at'[v] = at[v]
    BY <2>1
  <2>3. \A v \in Thread : pc[v] # "idle" => vis'[at[v]] = vis[at[v]]
    BY <2>1
  <2>4. pc'[t] = "idle" /\ \A m \in Node : perm'[m] => vis'[m] = "exhausted_private"
    BY <2>1 DEF Thread
  <2> QED
    BY <2>1, <2>2, <2>3, <2>4
<1> QED
  BY <1>1, <1>2, <1>3, <1>4, <1>5 DEF Next, DetectorChecks

\* _response_task's promise, "Permanently private nodes are never re-promoted",
\* holds for any number of lookups and promoters: transition_lock is enough as
\* long as nobody writes visibility without it.
THEOREM DemotionIsFinal == Spec => [](Detector \cap threads = {} => NeverRepromoted)
<1>1. Init => IInv /\ LockInv
  BY InitIInv, HitAssumption DEF Init, LockInv, Sections
<1>2. IInv /\ LockInv /\ [Next]_vars => (IInv /\ LockInv)'
  <2> SUFFICES ASSUME IInv, LockInv, [Next]_vars PROVE IInv' /\ LockInv'
    OBVIOUS
  <2>1. IInv' /\ threads' = threads
    BY NextIInv, PlacesStep DEF Next, vars, VisibleTo, DetectorChecks, PromoteLocks, Insert,
      Evict, SplitBegins, SplitLinks
  <2>2. CASE UNCHANGED vars
    BY <2>1, <2>2 DEF vars, LockInv, Sections
  <2>3. CASE Next
    BY <2>1, <2>3, LockAdvance, LockEnter DEF LockInv
  <2> QED
    BY <2>1, <2>2, <2>3
<1>3. IInv /\ LockInv => (Detector \cap threads = {} => NeverRepromoted)
  BY DEF LockInv, Sections, NeverRepromoted
<1> QED
  BY <1>1, <1>2, <1>3, PTL DEF Spec

-----------------------------------------------------------------------------
(* The pipeline *)

Screens == Detector \cap threads # {}

USE DEF nodeVars

(* Where the task of a node is. *)
Holds(q, n) == \E i \in DOMAIN q : q[i].node = n
Single(q, n) == \A i, j \in DOMAIN q : q[i].node = n /\ q[j].node = n => i = j
AtTier2(n) == second # Idle /\ second.task.node = n
AtHand(d, n) == hand[d] # Idle /\ hand[d].task.node = n
Queued(n) == (\E s \in Stage : Holds(queue[s], n)) \/ AtTier2(n)
Pending(n) == Queued(n) \/ \E d \in Detector : AtHand(d, n)

Unique(n) ==
    /\ \A s \in Stage : Single(queue[s], n)
    /\ \A s, u \in Stage : Holds(queue[s], n) /\ Holds(queue[u], n) => s = u
    /\ \A s \in Stage : Holds(queue[s], n) => ~AtTier2(n) /\ \A d \in Detector : ~AtHand(d, n)
    /\ AtTier2(n) => \A d \in Detector : ~AtHand(d, n)
    /\ \A d, e \in Detector : AtHand(d, n) /\ AtHand(e, n) => d = e

(* What a task says at each stage. *)
\* The node still waits for the verdict on its own line.
Owed(k) ==
    k.node \in Node => /\ vis[k.node] # "absent" /\ need[k.node]
                       /\ prompt[k.node] # NoPrompt
                       /\ k.text = Line(prompt[k.node])

Screened(s, k) ==
    /\ s \in {"tier_1", "first", "second"} => k.privacy
    /\ s = "second" => Tier1[k.text] = "miss"
    /\ s \in {"result", "final"} /\ ~k.privacy => Cleared(k.text) /\ available

Good ==
    /\ \A s \in Stage : \A i \in DOMAIN queue[s] : Owed(queue[s][i]) /\ Screened(s, queue[s][i])
    /\ second # Idle =>
          /\ Owed(second.task) /\ Tier1[second.task.text] = "miss"
          /\ second.task.privacy /\ available
    /\ \A d \in Detector : hand[d] # Idle =>
          /\ Owed(hand[d].task) /\ Cleared(hand[d].task.text) /\ available
          /\ d \in threads

\* PiiBERTClient has at most one question out.
Entry ==
    /\ second = Idle => asked = <<>> /\ replies = <<>> /\ \A x \in Text : cache[x] = "missing"
    /\ second # Idle =>
          /\ \A x \in Text \ {second.task.text} : cache[x] = "missing"
          /\ cache[second.task.text] \in Answer =>
                cache[second.task.text] = Tier2[second.task.text]
          /\ \/ asked = <<>> /\ replies = <<>>
             \/ /\ asked = <<second.task.text>> /\ replies = <<>>
                /\ cache[second.task.text] \notin Answer
             \/ /\ asked = <<>> /\ cache[second.task.text] \notin Answer
                /\ replies = <<[text |-> second.task.text,
                                answer |-> Tier2[second.task.text]]>>
          /\ second.at = "wait" => cache[second.task.text] # "missing"

\* What lookups and promoters leave of visibility.
Seen ==
    /\ \A n \in Node : vis[n] = "private" => ~perm[n]
    /\ \A t \in Thread : pc[t] \in {"exhausted", "denied"} => vis[at[t]] # "private"
    /\ \A t \in Lookup : pc[t] \notin {"idle", "split"} =>
          vis[at[t]] \in {"budgeted_shared", "exhausted_private"}
    /\ \A d \in Detector : pc[d] = "private" =>
          hand[d] # Idle /\ hand[d].at = "tagged" /\ hand[d].task.node = at[d]

\* What a node's fields say in the server.
Verdict(n) ==
    /\ vis[n] \in {"budgeted_shared", "exhausted_private"} =>
          prompt[n] # NoPrompt /\ Cleared(Line(prompt[n])) /\ available
    /\ perm[n] => vis[n] = "exhausted_private"
    /\ Queued(n) => vis[n] = "private"
    /\ n \in halves => vis[n] # "absent" /\ ~Pending(n)
    /\ vis[n] # "absent" /\ need[n] /\ ~Pending(n) =>
          n \in halves \/ Tier1[Line(prompt[n])] = "error"

Verdicts ==
    /\ Promoter \cap threads = {}
    /\ \A n \in Node : Verdict(n)
    /\ \A t \in Thread : pc[t] = "exhausted" => vis[at[t]] = "exhausted_private"
    /\ \A d \in Detector : pc[d] = "private" => vis[at[d]] = "private"

\* A skipped node and its parent wait for nothing, and neither does the half that
\* _split_node is making of it.
Skips ==
    /\ \A n \in skipped :
          /\ Screens /\ parent[n] \in Node /\ vis[n] # "absent" /\ ~need[n]
          /\ vis[parent[n]] # "absent" /\ ~need[parent[n]]
    /\ \A n \in Node : parent[n] \in Node => vis[parent[n]] # "absent"
    /\ \A t \in Lookup : pc[t] = "split" =>
          /\ half.at = "need" /\ at[t] \in skipped => ~half.need
          /\ \A u \in Lookup \cap threads : u = t

PIInv ==
    /\ IInv /\ PTypeOK
    /\ \A n \in Node : Unique(n)
    /\ Good
    /\ Entry
    /\ Seen
    /\ Screens => Verdicts
    /\ Skips
-----------------------------------------------------------------------------
(* The queues: what taking a task and passing it on change. *)

\* queue.put: the queue gains one task at its end.
LEMMA PutTask ==
  ASSUME NEW q \in Seq(Task), NEW k \in Task
  PROVE  /\ Append(q, k) \in Seq(Task)
         /\ \A i \in DOMAIN Append(q, k) :
              Append(q, k)[i] = k \/ \E j \in DOMAIN q : Append(q, k)[i] = q[j]
         /\ \A n : Holds(Append(q, k), n) <=> Holds(q, n) \/ k.node = n
         /\ \A n : Single(q, n) /\ ~(k.node = n /\ Holds(q, n)) => Single(Append(q, k), n)
<1>1. /\ Append(q, k) \in Seq(Task)
      /\ DOMAIN Append(q, k) = DOMAIN q \cup {Len(q) + 1}
      /\ Append(q, k)[Len(q) + 1] = k
      /\ \A i \in DOMAIN q : Append(q, k)[i] = q[i]
  OBVIOUS
<1> QED
  BY <1>1 DEF Holds, Single

\* queue.get: the queue loses its first task and keeps the rest.
LEMMA TakeTask ==
  ASSUME NEW q \in Seq(Task), q # <<>>
  PROVE  /\ Tail(q) \in Seq(Task) /\ Head(q) \in Task
         /\ \E j \in DOMAIN q : Head(q) = q[j]
         /\ \A i \in DOMAIN Tail(q) : \E j \in DOMAIN q : Tail(q)[i] = q[j]
         /\ \A n : Holds(q, n) <=> Holds(Tail(q), n) \/ Head(q).node = n
         /\ \A n : Single(q, n) =>
              Single(Tail(q), n) /\ ~(Head(q).node = n /\ Holds(Tail(q), n))
<1>1. /\ Tail(q) \in Seq(Task) /\ Head(q) \in Task
      /\ DOMAIN Tail(q) \subseteq Nat \ {0} /\ DOMAIN q \subseteq Nat \ {0}
      /\ \A i \in DOMAIN Tail(q) : i + 1 \in DOMAIN q /\ Tail(q)[i] = q[i + 1]
      /\ \A i \in DOMAIN q : i # 1 => i - 1 \in DOMAIN Tail(q) /\ Tail(q)[i - 1] = q[i]
      /\ 1 \in DOMAIN q /\ Head(q) = q[1]
  OBVIOUS
<1>2. ASSUME NEW n PROVE Holds(q, n) <=> Holds(Tail(q), n) \/ Head(q).node = n
  BY <1>1 DEF Holds
<1>3. ASSUME NEW n, Single(q, n)
      PROVE  Single(Tail(q), n) /\ ~(Head(q).node = n /\ Holds(Tail(q), n))
  BY <1>1, <1>3 DEF Holds, Single
<1> QED
  BY <1>1, <1>2, <1>3

\* Every queued or held task is a task.
LEMMA TaskTypes ==
  /\ \A k \in Task : k.node \in Node \cup {NoNode} /\ k.text \in Text
  /\ \A n \in Node, x \in Text : [node |-> n, text |-> x, privacy |-> TRUE] \in Task
  /\ \A k \in Task, b \in BOOLEAN :
       /\ [k EXCEPT !.privacy = b] \in Task
       /\ [k EXCEPT !.privacy = b].privacy = b
       /\ [k EXCEPT !.privacy = b].node = k.node
       /\ [k EXCEPT !.privacy = b].text = k.text
  /\ \A k \in Task, n \in Node : Orphan(k, n) \in Task
BY DEF Task, Orphan

\* Answering a task changes its privacy only.
LEMMA AnsweredTask ==
  ASSUME NEW t \in Task, NEW b \in BOOLEAN
  PROVE  LET k == [t EXCEPT !.privacy = b]
         IN  k \in Task /\ k.node = t.node /\ k.text = t.text /\ k.privacy = b
BY ONLY t \in Task, b \in BOOLEAN, TaskTypes

\* A thread without a task differs from one with a task.
LEMMA Busy ==
  /\ \A a, k : [at |-> a, task |-> k] # Idle
  /\ \A x \in [at : {"put", "wait"}, task : Task] : x # Idle
  /\ \A x \in [at : {"tagged", "written"}, task : Task] : x # Idle
  /\ Idle.at = "idle"
BY DEF Idle
-----------------------------------------------------------------------------
(* Every step of the pipeline is a step of BalancedHit. *)

\* The type invariant in parts, the Boolean ones apart.
FlagType == need \in [Node -> BOOLEAN]
HalfType == half \in {Idle} \cup [at : {"tag", "need"}, tag : {0, 1}, need : BOOLEAN]

JudgeType ==
    /\ parent \in [Node -> Node \cup {NoNode}]
    /\ prompt \in [Node -> Prompt \cup {NoPrompt}] /\ tag \in [Node -> {0, 1}]
    /\ skipped \subseteq Node /\ halves \subseteq Node
    /\ queue \in [Stage -> Seq(Task)]
    /\ second \in {Idle} \cup [at : {"put", "wait"}, task : Task]
    /\ hand \in [Detector -> {Idle} \cup [at : {"tagged", "written"}, task : Task]]

ClientType ==
    /\ asked \in Seq(Text) /\ replies \in Seq([text : Text, answer : Answer])
    /\ cache \in [Text -> Answer \cup {"missing", "none"}]

\* The type invariant of the pipeline, variable by variable.
LEMMA TypeParts ==
  /\ PTypeOK <=> /\ TypeOK /\ FlagType /\ HalfType /\ JudgeType /\ ClientType
                 /\ available \in BOOLEAN /\ alive \in BOOLEAN
  /\ PTypeOK' <=> /\ TypeOK' /\ FlagType' /\ HalfType' /\ JudgeType' /\ ClientType'
                  /\ available' \in BOOLEAN /\ alive' \in BOOLEAN
BY Zenon DEF PTypeOK, FlagType, HalfType, JudgeType, ClientType

\* The detector that applies a verdict is one of this process's threads and sees a
\* private node, so that its test is BalancedHit's.
LEMMA StepImplementsHit ==
  ASSUME PIInv, [PNext]_pvars
  PROVE  [Next]_vars
<1>1. CASE UNCHANGED pvars
  BY <1>1 DEF pvars
<1>2. ASSUME NEW w \in Inserts, InsertNode(w[1], w[2], w[3], w[4]) PROVE Next
  <2>1. w[1] \in Node /\ w[3] \in Edge
    BY PipelineAssumption
  <2> QED
    BY <1>2, <2>1 DEF InsertNode, Next
<1>3. ASSUME NEW n \in Node, EvictNode(n) PROVE Next
  BY <1>3 DEF EvictNode, Next
<1>4. ASSUME \/ ProcessRequest \/ FirstLevel \/ SecondLevel \/ MakeEntry
             \/ SecondCollects \/ ModelServes \/ HandleResponse \/ ProcessResult
      PROVE  UNCHANGED vars
  BY <1>4 DEF ProcessRequest, FirstLevel, SecondLevel, MakeEntry, SecondCollects,
              ModelServes, HandleResponse, ProcessResult
<1>5. ASSUME NEW d \in Detector, TakeVerdict(d) \/ ClearNeed(d) PROVE UNCHANGED vars
  BY <1>5 DEF TakeVerdict, ClearNeed
<1>6. ASSUME NEW d \in Detector, WriteVisibility(d) PROVE Next
  BY <1>6 DEF WriteVisibility, Next, Advance, Thread
<1>7. ASSUME NEW d \in Detector, TestVisibility(d) PROVE Next \/ UNCHANGED vars
  <2> DEFINE n == hand[d].task.node
  <2>1. CASE Live(n) /\ vis[n] = "private" /\ Start(d, n, "private")
    <3>1. hand[d] # Idle /\ d \in threads
      BY <1>7, Busy DEF TestVisibility, PIInv, Good
    <3>2. hand[d] \in [at : {"tagged", "written"}, task : Task]
      BY <3>1, TypeParts DEF PIInv, JudgeType
    <3>3. n \in Node
      BY <2>1, <3>2, TaskTypes DEF Live
    <3>4. ~perm[n]
      BY <2>1, <3>3 DEF PIInv, Seen
    <3>5. DetectorChecks(d, n)
      BY <1>7, <2>1, <3>1, <3>3, <3>4 DEF TestVisibility, DetectorChecks
    <3> QED
      BY <3>3, <3>5 DEF Next
  <2>2. CASE UNCHANGED <<pc, at>>
    BY <1>7, <2>2 DEF TestVisibility, vars
  <2> QED
    BY <1>7, <2>1, <2>2 DEF TestVisibility
<1>8. ASSUME NEW t \in Thread, CacheStep(t) PROVE Next
  BY <1>8 DEF CacheStep, Next
<1>9. ASSUME NEW t \in Lookup, NEW n \in Node, CopyTag(t, n) \/ LinkHalf(t, n) PROVE Next
  BY <1>9 DEF CopyTag, LinkHalf, Next
<1>10. ASSUME NEW t \in Lookup, CopyNeed(t) PROVE UNCHANGED vars
  BY <1>10 DEF CopyNeed
<1> QED
  BY <1>1, <1>2, <1>3, <1>4, <1>5, <1>6, <1>7, <1>8, <1>9, <1>10
  DEF PNext, Respond, SplitStep, Next

\* Every step of the pipeline is a step of the hit path or leaves it alone, so
\* the hit path keeps its invariant.
LEMMA HitKept == PIInv /\ [PNext]_pvars => IInv' /\ TypeOK'
BY StepImplementsHit, NextIInv DEF PIInv, IInv
-----------------------------------------------------------------------------
(* The inductive invariant: initial states, and the threads of the judge. *)

\* The screened line is a line of the prompt.
LEMMA LineType == \A p \in Prompt : Line(p) \in Text
<1> SUFFICES ASSUME NEW p \in Prompt PROVE Line(p) \in Text
  OBVIOUS
<1>1. p \in Seq(Text) /\ p # <<>>
  BY PipelineAssumption
<1> QED
  BY <1>1 DEF Line

\* The invariant holds when the service starts.
LEMMA InitPIInv == PInit => PIInv
<1> SUFFICES ASSUME PInit PROVE PIInv
  OBVIOUS
<1>1. IInv /\ TypeOK
  BY InitIInv DEF PInit, IInv
<1>2. FlagType /\ HalfType /\ JudgeType /\ ClientType
  BY DEF PInit, FlagType, HalfType, JudgeType, ClientType
<1>3. available \in BOOLEAN /\ alive \in BOOLEAN
  BY Zenon DEF PInit
<1>4. \A n : ~Queued(n) /\ Unique(n)
  BY DEF PInit, Queued, Unique, Holds, Single, AtTier2, AtHand, Stage
<1>5. Good /\ Entry /\ Skips
  BY HitAssumption DEF PInit, Init, Good, Entry, Skips, Thread
<1>6. Seen
  BY HitAssumption DEF PInit, Init, Seen, Thread
<1>7. Screens => Verdicts
  BY <1>4, Busy, HitAssumption, DeploymentAssumption DEF PInit, Init, Screens, Verdicts, Verdict, Thread
<1> QED
  BY <1>1, <1>2, <1>3, <1>4, <1>5, <1>6, <1>7, TypeParts DEF PIInv

\* A task that is passed on stays the only one of its node.
LEMMA MoveUnique ==
  ASSUME JudgeType, NEW from \in Stage, NEW to \in Stage, from # to,
         queue[from] # <<>>, NEW k \in Task, k.node = Head(queue[from]).node,
         Move(from, to, k), UNCHANGED <<second, hand>>, NEW n \in Node, Unique(n)
  PROVE  Unique(n)' /\ (Queued(n)' <=> Queued(n)) /\ (Pending(n)' <=> Pending(n))
<1>1. queue[from] \in Seq(Task) /\ queue[to] \in Seq(Task)
  BY DEF JudgeType
<1>2. /\ queue'[from] = Tail(queue[from])
      /\ queue'[to] = Append(queue[to], k)
      /\ \A s \in Stage : s # from /\ s # to => queue'[s] = queue[s]
  BY DEF JudgeType, Move
<1>3. /\ Holds(queue[from], n) <=> Holds(queue'[from], n) \/ k.node = n
      /\ Single(queue'[from], n) /\ ~(k.node = n /\ Holds(queue'[from], n))
  BY <1>1, <1>2, TakeTask DEF Unique
<1>4. Holds(queue'[to], n) <=> Holds(queue[to], n) \/ k.node = n
  BY <1>1, <1>2, PutTask
<1>5. ~(k.node = n /\ Holds(queue[to], n))
  BY <1>3 DEF Unique
<1>6. Single(queue'[to], n)
  BY <1>1, <1>2, <1>5, PutTask DEF Unique
<1>7. (AtTier2(n)' <=> AtTier2(n)) /\ \A d \in Detector : AtHand(d, n)' <=> AtHand(d, n)
  BY DEF AtTier2, AtHand
<1>8. \A s \in Stage : Single(queue'[s], n)
  BY <1>2, <1>3, <1>6 DEF Unique
<1>9. ASSUME NEW s \in Stage
      PROVE  Holds(queue'[s], n) <=> IF k.node = n THEN s = to ELSE Holds(queue[s], n)
  <2>1. CASE k.node = n
    <3>1. Holds(queue[from], n) /\ \A u \in Stage : Holds(queue[u], n) => u = from
      BY <1>3, <2>1 DEF Unique
    <3> QED
      BY <1>2, <1>3, <1>4, <2>1, <3>1
  <2>2. CASE k.node # n
    BY <1>2, <1>3, <1>4, <2>2
  <2> QED
    BY <2>1, <2>2
<1>10. k.node = n => Holds(queue[from], n)
  BY <1>3
<1> QED
  BY <1>7, <1>8, <1>9, <1>10 DEF Unique, Pending, Queued

\* What is true of a task passed on, and of the others, stays true.
LEMMA MoveGood ==
  ASSUME JudgeType, Good, NEW from \in Stage, NEW to \in Stage, from # to,
         queue[from] # <<>>, NEW k \in Task, Move(from, to, k), Owed(k), Screened(to, k),
         UNCHANGED <<vis, need, prompt, tag, threads, second, hand, available>>
  PROVE  Good' /\ queue' \in [Stage -> Seq(Task)]
<1>1. queue[from] \in Seq(Task) /\ queue[to] \in Seq(Task)
  BY DEF JudgeType
<1>2. /\ queue'[from] = Tail(queue[from])
      /\ queue'[to] = Append(queue[to], k)
      /\ \A s \in Stage : s # from /\ s # to => queue'[s] = queue[s]
  BY DEF JudgeType, Move
<1>3. \A s \in Stage : \A i \in DOMAIN queue'[s] :
        (s = to /\ queue'[s][i] = k) \/ \E j \in DOMAIN queue[s] : queue'[s][i] = queue[s][j]
  <2>1. \A i \in DOMAIN queue'[from] : \E j \in DOMAIN queue[from] :
          queue'[from][i] = queue[from][j]
    BY <1>1, <1>2, TakeTask
  <2>2. \A i \in DOMAIN queue'[to] :
          queue'[to][i] = k \/ \E j \in DOMAIN queue[to] : queue'[to][i] = queue[to][j]
    BY <1>1, <1>2, PutTask
  <2>3. ASSUME NEW s \in Stage, s # from, s # to, NEW i \in DOMAIN queue'[s]
        PROVE  \E j \in DOMAIN queue[s] : queue'[s][i] = queue[s][j]
    BY <1>2, <2>3
  <2> QED
    BY <2>1, <2>2, <2>3
<1>4. queue' \in [Stage -> Seq(Task)]
  BY <1>1, <1>2, TakeTask, PutTask DEF JudgeType, Move
<1> QED
  BY <1>3, <1>4 DEF Good, Owed, Screened

\* What is said of skipped nodes survives a step that inserts, evicts and splits
\* nothing and makes no node wait.
LEMMA SkipsKept ==
  ASSUME JudgeType, Skips, UNCHANGED <<threads, parent, skipped, half>>,
         \A n \in Node : (vis'[n] = "absent" <=> vis[n] = "absent") /\ (need'[n] => need[n]),
         \A t \in Lookup : pc'[t] = "split" => pc[t] = "split" /\ at'[t] = at[t]
  PROVE  Skips' /\ (Screens' <=> Screens)
<1>1. Screens' <=> Screens
  BY DEF Screens
<1>2. ASSUME NEW n \in skipped'
      PROVE  /\ Screens' /\ parent'[n] \in Node /\ vis'[n] # "absent" /\ ~need'[n]
             /\ vis'[parent'[n]] # "absent" /\ ~need'[parent'[n]]
  <2>1. /\ n \in skipped /\ n \in Node /\ parent'[n] = parent[n]
        /\ Screens /\ parent[n] \in Node /\ vis[n] # "absent" /\ ~need[n]
        /\ vis[parent[n]] # "absent" /\ ~need[parent[n]]
    BY <1>2 DEF Skips, JudgeType
  <2> QED
    BY <1>1, <2>1
<1>3. \A n \in Node : parent'[n] \in Node => vis'[parent'[n]] # "absent"
  BY DEF Skips
<1>4. \A t \in Lookup : pc'[t] = "split" =>
          /\ half'.at = "need" /\ at'[t] \in skipped' => ~half'.need
          /\ \A u \in Lookup \cap threads' : u = t
  BY DEF Skips
<1> QED
  BY <1>1, <1>2, <1>3, <1>4 DEF Skips

\* A step of the judge that touches neither nodes nor verdicts.
LEMMA JudgeRest ==
  ASSUME PIInv, UNCHANGED <<vars, nodeVars, hand, available>>,
         alive' \in BOOLEAN, JudgeType', ClientType', Good', Entry',
         \A n \in Node : Unique(n)' /\ (Queued(n)' => Queued(n)) /\ (Pending(n)' => Pending(n)),
         \A n \in Node : Pending(n) => Pending(n)' \/ Tier1[Line(prompt[n])] = "error"
  PROVE  PIInv'
<1>1. IInv' /\ TypeOK'
  BY DEF PIInv, IInv, TypeOK, Places, Account, OneLookup, vars
<1>2. FlagType' /\ HalfType' /\ available' \in BOOLEAN
  BY TypeParts DEF PIInv, FlagType, HalfType
<1>3. Seen'
  BY DEF PIInv, Seen, vars
<1>4. Skips' /\ (Screens' <=> Screens)
  BY TypeParts, SkipsKept DEF PIInv, vars
<1>5. Screens => Verdicts'
  BY DEF PIInv, Verdicts, Verdict, vars
<1> QED
  BY <1>1, <1>2, <1>3, <1>4, <1>5, TypeParts DEF PIInv

\* The task at the head of a stage says what tasks at that stage say.
LEMMA HeadGood ==
  ASSUME JudgeType, Good, NEW s \in Stage, queue[s] # <<>>
  PROVE  /\ Head(queue[s]) \in Task
         /\ Owed(Head(queue[s])) /\ Screened(s, Head(queue[s]))
<1>1. queue[s] \in Seq(Task)
  BY DEF JudgeType
<1>2. Head(queue[s]) \in Task /\ \E j \in DOMAIN queue[s] : Head(queue[s]) = queue[s][j]
  BY <1>1, TakeTask
<1> QED
  BY <1>2 DEF Good

\* A move between two stages, the client left alone.
LEMMA MoveStep ==
  ASSUME PIInv, NEW from \in Stage, NEW to \in Stage, from # to, queue[from] # <<>>,
         Move(from, to, Head(queue[from])), Screened(to, Head(queue[from])),
         UNCHANGED <<vars, nodeVars, asked, replies, cache, second,
                     hand, available, alive>>
  PROVE  PIInv'
<1>1. JudgeType /\ ClientType /\ Good /\ alive \in BOOLEAN
  BY TypeParts DEF PIInv
<1>2. Head(queue[from]) \in Task /\ Owed(Head(queue[from]))
  BY <1>1, HeadGood
<1>3. \A n \in Node : /\ Unique(n)' /\ (Queued(n)' <=> Queued(n))
                      /\ Pending(n)' <=> Pending(n)
  BY <1>1, <1>2, MoveUnique DEF PIInv
<1>4. Good' /\ queue' \in [Stage -> Seq(Task)]
  BY <1>1, <1>2, MoveGood DEF vars
<1>5. JudgeType' /\ ClientType' /\ alive' \in BOOLEAN
  BY <1>1, <1>4 DEF JudgeType, ClientType
<1>6. Entry'
  BY DEF PIInv, Entry
<1> QED
  BY <1>3, <1>4, <1>5, <1>6, JudgeRest

\* Passing a request on to the first tier keeps the invariant.
LEMMA ProcessRequestStep == ASSUME PIInv, ProcessRequest PROVE PIInv'
<1>1. Screened("tier_1", Head(queue["tier_1"]))
  BY HeadGood, TypeParts DEF ProcessRequest, PIInv, Stage
<1>2. Screened("first", Head(queue["tier_1"]))
  BY <1>1 DEF Screened
<1> QED
  BY <1>2, MoveStep DEF ProcessRequest, Stage

\* Passing a result on to the detector threads keeps the invariant.
LEMMA ProcessResultStep == ASSUME PIInv, ProcessResult PROVE PIInv'
<1>1. Screened("result", Head(queue["result"]))
  BY HeadGood, TypeParts DEF ProcessResult, PIInv, Stage
<1>2. Screened("final", Head(queue["result"]))
  BY <1>1 DEF Screened
<1> QED
  BY <1>2, MoveStep DEF ProcessResult, Stage

\* A task is taken out of a stage: its node is then in no stage.
LEMMA TakenOut ==
  ASSUME JudgeType, NEW from \in Stage, queue[from] # <<>>,
         queue' = [queue EXCEPT ![from] = Tail(@)]
  PROVE  /\ queue' \in [Stage -> Seq(Task)]
         /\ \A s \in Stage : \A i \in DOMAIN queue'[s] :
              \E j \in DOMAIN queue[s] : queue'[s][i] = queue[s][j]
         /\ Head(queue[from]) \in Task
         /\ Holds(queue[from], Head(queue[from]).node)
         /\ \A n \in Node : Unique(n) => \A s \in Stage :
              /\ Single(queue'[s], n)
              /\ Holds(queue'[s], n) <=> Holds(queue[s], n) /\ Head(queue[from]).node # n
<1>1. queue[from] \in Seq(Task)
  BY DEF JudgeType
<1>2. /\ queue'[from] = Tail(queue[from])
      /\ \A s \in Stage : s # from => queue'[s] = queue[s]
  BY DEF JudgeType
<1>3. /\ queue' \in [Stage -> Seq(Task)] /\ Head(queue[from]) \in Task
      /\ Holds(queue[from], Head(queue[from]).node)
  BY <1>1, <1>2, TakeTask DEF JudgeType
<1>4. \A i \in DOMAIN queue'[from] : \E j \in DOMAIN queue[from] :
        queue'[from][i] = queue[from][j]
  BY <1>1, <1>2, TakeTask
<1>5. ASSUME NEW s \in Stage, s # from, NEW i \in DOMAIN queue'[s]
      PROVE  \E j \in DOMAIN queue[s] : queue'[s][i] = queue[s][j]
  BY <1>2, <1>5
<1>6. ASSUME NEW n \in Node, Unique(n), NEW s \in Stage
      PROVE  /\ Single(queue'[s], n)
             /\ Holds(queue'[s], n) <=> Holds(queue[s], n) /\ Head(queue[from]).node # n
  <2>1. /\ Holds(queue[from], n) <=> Holds(queue'[from], n) \/ Head(queue[from]).node = n
        /\ Single(queue'[from], n)
        /\ ~(Head(queue[from]).node = n /\ Holds(queue'[from], n))
    BY <1>1, <1>2, <1>6, TakeTask DEF Unique
  <2>2. CASE s = from
    BY <2>1, <2>2
  <2>3. CASE s # from
    BY <1>2, <1>6, <2>1, <2>3 DEF Unique
  <2> QED
    BY <2>2, <2>3
<1> QED
  BY <1>3, <1>4, <1>5, <1>6

\* The rule-based tier keeps the invariant.
LEMMA FirstLevelStep == ASSUME PIInv, FirstLevel PROVE PIInv'
<1> DEFINE k == Head(queue["first"])
<1>1. JudgeType /\ ClientType /\ Good /\ alive \in BOOLEAN
  BY TypeParts DEF PIInv
<1>2. /\ queue["first"] # <<>>
      /\ UNCHANGED <<vars, nodeVars, asked, replies, cache,
                     second, hand, available, alive>>
  BY DEF FirstLevel
<1>3. k \in Task /\ Owed(k) /\ Screened("first", k)
  BY <1>1, <1>2, HeadGood DEF Stage
<1>4. CASE Tier1[k.text] = "miss" /\ Move("first", "second", k)
  <2>1. Screened("second", k)
    BY <1>3, <1>4 DEF Screened
  <2> QED
    BY <1>2, <1>4, <2>1, MoveStep DEF Stage
<1>5. CASE Tier1[k.text] = "match" /\ Move("first", "result", k)
  <2>1. Screened("result", k)
    BY <1>3 DEF Screened
  <2> QED
    BY <1>2, <1>5, <2>1, MoveStep DEF Stage
<1>6. CASE Tier1[k.text] = "error" /\ queue' = [queue EXCEPT !["first"] = Tail(@)]
  <2>1. /\ queue' \in [Stage -> Seq(Task)]
        /\ \A s \in Stage : \A i \in DOMAIN queue'[s] :
             \E j \in DOMAIN queue[s] : queue'[s][i] = queue[s][j]
        /\ \A n \in Node : Unique(n) => \A s \in Stage :
             /\ Single(queue'[s], n)
             /\ Holds(queue'[s], n) <=> Holds(queue[s], n) /\ k.node # n
    BY <1>1, <1>2, <1>6, TakenOut DEF Stage
  <2>2. Good'
    BY <1>1, <1>2, <2>1 DEF Good, Owed, Screened, vars
  <2>3. ASSUME NEW n \in Node
        PROVE  /\ Unique(n)' /\ (Queued(n)' => Queued(n)) /\ (Pending(n)' => Pending(n))
               /\ Pending(n) => Pending(n)' \/ Tier1[Line(prompt[n])] = "error"
    <3>1. Unique(n) /\ (AtTier2(n)' <=> AtTier2(n))
          /\ \A d \in Detector : AtHand(d, n)' <=> AtHand(d, n)
      BY <1>2 DEF PIInv, AtTier2, AtHand
    <3>2. Unique(n)'
      BY <2>1, <3>1 DEF Unique
    <3>3. k.node = n => Tier1[Line(prompt[n])] = "error"
      BY <1>3, <1>6 DEF Owed
    <3> QED
      BY <2>1, <3>1, <3>2, <3>3 DEF Pending, Queued
  <2>4. JudgeType' /\ ClientType' /\ Entry' /\ alive' \in BOOLEAN
    BY <1>1, <1>2, <2>1 DEF PIInv, JudgeType, ClientType, Entry
  <2> QED
    BY <1>2, <2>2, <2>3, <2>4, JudgeRest
<1> QED
  BY <1>4, <1>5, <1>6 DEF FirstLevel

\* Taking up a task of the model tier keeps the invariant.
LEMMA SecondLevelStep == ASSUME PIInv, SecondLevel PROVE PIInv'
<1> DEFINE k == Head(queue["second"])
<1>1. JudgeType /\ ClientType /\ Good /\ Entry /\ alive \in BOOLEAN
  BY TypeParts DEF PIInv
<1>2. /\ queue["second"] # <<>> /\ second = Idle
      /\ UNCHANGED <<vars, nodeVars, replies, cache, hand, available,
                     alive>>
  BY DEF SecondLevel
<1>3. k \in Task /\ Owed(k) /\ Screened("second", k)
  BY <1>1, <1>2, HeadGood DEF Stage
<1>4. CASE ~available /\ Move("second", "result", k) /\ UNCHANGED <<asked, second>>
  <2>1. Screened("result", k)
    BY <1>3 DEF Screened
  <2> QED
    BY <1>2, <1>4, <2>1, MoveStep DEF Stage
<1>5. CASE /\ available /\ queue' = [queue EXCEPT !["second"] = Tail(@)]
           /\ asked' = Append(asked, k.text) /\ second' = [at |-> "put", task |-> k]
  <2>1. /\ queue' \in [Stage -> Seq(Task)]
        /\ \A s \in Stage : \A i \in DOMAIN queue'[s] :
             \E j \in DOMAIN queue[s] : queue'[s][i] = queue[s][j]
        /\ Holds(queue["second"], k.node)
        /\ \A n \in Node : Unique(n) => \A s \in Stage :
             /\ Single(queue'[s], n)
             /\ Holds(queue'[s], n) <=> Holds(queue[s], n) /\ k.node # n
    BY <1>1, <1>2, <1>5, TakenOut DEF Stage
  <2>2. /\ second' # Idle /\ second'.task = k /\ second'.at = "put"
        /\ second' \in [at : {"put", "wait"}, task : Task]
    BY <1>3, <1>5, Busy
  <2>3. Good'
    BY <1>1, <1>2, <1>3, <1>5, <2>1, <2>2 DEF Good, Owed, Screened, vars
  <2>4. ASSUME NEW n \in Node
        PROVE  Unique(n)' /\ (Queued(n)' => Queued(n)) /\ (Pending(n)' <=> Pending(n))
    <3>1. /\ Unique(n) /\ ~AtTier2(n) /\ (AtTier2(n)' <=> k.node = n)
          /\ \A d \in Detector : AtHand(d, n)' <=> AtHand(d, n)
      BY <1>2, <2>2 DEF PIInv, AtTier2, AtHand
    <3>2. k.node = n => \A d \in Detector : ~AtHand(d, n)
      BY <2>1, <3>1 DEF Unique, Stage
    <3>3. Unique(n)'
      BY <2>1, <3>1, <3>2 DEF Unique
    <3> QED
      BY <2>1, <3>1, <3>3 DEF Pending, Queued, Stage
  <2>5. /\ asked' = <<k.text>> /\ k.text \in Text /\ replies' = <<>>
        /\ \A x \in Text : cache'[x] = "missing"
    BY <1>1, <1>2, <1>3, <1>5, TaskTypes DEF Entry
  <2>6. Entry'
    BY <2>2, <2>5 DEF Entry, Answer
  <2>7. JudgeType' /\ ClientType' /\ alive' \in BOOLEAN
    BY <1>1, <1>2, <2>1, <2>2, <2>5 DEF JudgeType, ClientType
  <2> QED
    BY <1>2, <2>3, <2>4, <2>6, <2>7, JudgeRest
<1> QED
  BY <1>4, <1>5 DEF SecondLevel

\* A queue with one element.
LEMMA One ==
  \A a : /\ Head(<<a>>) = a /\ Tail(<<a>>) = <<>> /\ <<a>> # <<>>
         /\ Append(<<>>, a) = <<a>>
         /\ \A S : a \in S => <<a>> \in Seq(S)
OBVIOUS

\* The entry of response_cache, the model's answer and its arrival.
LEMMA EntryStep ==
  ASSUME PIInv, MakeEntry \/ ModelServes \/ HandleResponse
  PROVE  PIInv'
<1>1. JudgeType /\ ClientType /\ Good /\ Entry /\ alive \in BOOLEAN
  BY TypeParts DEF PIInv
<1>2. UNCHANGED <<vars, nodeVars, queue, hand, available>>
  BY DEF MakeEntry, ModelServes, HandleResponse
<1>3. second # Idle /\ second \in [at : {"put", "wait"}, task : Task] /\ second.task.text \in Text
  <2>1. second # Idle
    BY <1>1, Busy DEF MakeEntry, ModelServes, HandleResponse, Entry
  <2> QED
    BY <1>1, <2>1, TaskTypes DEF JudgeType
<1>4. /\ second' # Idle /\ second' \in [at : {"put", "wait"}, task : Task]
      /\ second'.task = second.task
      /\ second'.at = second.at \/ MakeEntry
  BY <1>3, Busy DEF MakeEntry, ModelServes, HandleResponse
<1>5. alive' \in BOOLEAN
  BY <1>1, Zenon DEF MakeEntry, ModelServes, HandleResponse
<1>6. JudgeType' /\ Good'
  BY <1>1, <1>2, <1>3, <1>4 DEF JudgeType, Good, Owed, Screened, vars
<1>7. ASSUME NEW n \in Node
      PROVE  Unique(n)' /\ (Queued(n)' => Queued(n)) /\ (Pending(n)' <=> Pending(n))
  <2>1. Unique(n) /\ (AtTier2(n)' <=> AtTier2(n))
        /\ \A d \in Detector : AtHand(d, n)' <=> AtHand(d, n)
    BY <1>2, <1>3, <1>4 DEF PIInv, AtTier2, AtHand
  <2> QED
    BY <1>2, <2>1 DEF Unique, Pending, Queued
<1>8. ClientType' /\ Entry'
  <2> DEFINE x == second.task.text
  <2>0. Tier2[x] \in Answer \cup {"error"} /\ x \in Text
    BY <1>3, PipelineAssumption
  <2>1. CASE MakeEntry
    <3>1. /\ cache' = [cache EXCEPT ![x] = "none"] /\ UNCHANGED <<asked, replies>>
      BY <2>1 DEF MakeEntry
    <3> QED
      BY <1>1, <1>3, <1>4, <2>0, <3>1 DEF ClientType, Entry, Answer
  <2>2. CASE ModelServes
    <3>1. /\ asked = <<x>> /\ replies = <<>> /\ cache[x] \notin Answer
          /\ asked' = <<>> /\ cache' = cache /\ second' = second
          /\ \/ replies' = <<>>
             \/ replies' = <<[text |-> x, answer |-> Tier2[x]]>> /\ Tier2[x] \in Answer
      <4>1. asked = <<x>> /\ replies = <<>> /\ cache[x] \notin Answer
        BY <1>1, <1>3, <2>2 DEF ModelServes, Entry
      <4> QED
        BY <2>0, <2>2, <4>1, One DEF ModelServes
    <3>2. ClientType'
      <4>1. replies' \in Seq([text : Text, answer : Answer])
        <5>1. Tier2[x] \in Answer =>
                [text |-> x, answer |-> Tier2[x]] \in [text : Text, answer : Answer]
          BY <2>0
        <5>2. CASE replies' = <<>>
          BY <5>2
        <5>3. CASE replies' = <<[text |-> x, answer |-> Tier2[x]]>> /\ Tier2[x] \in Answer
          <6> DEFINE a == [text |-> x, answer |-> Tier2[x]]
                     S == [text : Text, answer : Answer]
          <6>1. a \in S /\ replies' = <<a>>
            BY <5>1, <5>3
          <6> HIDE DEF a, S
          <6>2. replies' \in Seq(S)
            BY <6>1, One
          <6> QED
            BY <6>2 DEF S
        <5> QED
          BY <3>1, <5>2, <5>3
      <4> QED
        BY <1>1, <3>1, <4>1 DEF ClientType
    <3> QED
      BY <1>1, <1>3, <3>1, <3>2 DEF Entry
  <2>3. CASE HandleResponse
    <3>1. /\ asked = <<>> /\ replies = <<[text |-> x, answer |-> Tier2[x]]>>
      BY <1>1, <1>3, <2>3 DEF HandleResponse, Entry
    <3>2. Tier2[x] \in Answer
      BY <1>1, <3>1 DEF ClientType
    <3>3. /\ cache' = [cache EXCEPT ![x] = Tier2[x]]
          /\ asked' = <<>> /\ replies' = <<>> /\ second' = second
      <4>1. Head(replies) = [text |-> x, answer |-> Tier2[x]] /\ Tail(replies) = <<>>
        BY <3>1, One
      <4>2. Head(replies).text = x /\ Head(replies).answer = Tier2[x]
        BY <4>1
      <4> QED
        BY <2>3, <3>1, <4>1, <4>2 DEF HandleResponse
    <3> QED
      BY <1>1, <1>3, <1>4, <2>0, <3>2, <3>3 DEF ClientType, Entry, Answer
  <2> QED
    BY <2>1, <2>2, <2>3
<1> QED
  BY <1>2, <1>5, <1>6, <1>7, <1>8, JudgeRest

\* Tier 2's answer is collected: the task goes on with the model's own verdict.
LEMMA CollectStep == ASSUME PIInv, SecondCollects PROVE PIInv'
<1> DEFINE x == second.task.text
           k == [second.task EXCEPT !.privacy = cache[x] # "public"]
<1>1. JudgeType /\ ClientType /\ Good /\ Entry /\ alive \in BOOLEAN
  BY TypeParts DEF PIInv
<1>2. /\ second.at = "wait" /\ cache[x] \in Answer /\ second' = Idle
      /\ queue' = [queue EXCEPT !["result"] = Append(@, k)]
      /\ cache' = [cache EXCEPT ![x] = "missing"]
      /\ UNCHANGED <<vars, nodeVars, asked, replies, hand, available,
                     alive>>
  BY DEF SecondCollects
<1>3. /\ second # Idle /\ second \in [at : {"put", "wait"}, task : Task]
      /\ second.task \in Task /\ x \in Text
  BY <1>1, <1>2, Busy, TaskTypes DEF JudgeType
<1>4. (cache[x] # "public") \in BOOLEAN
  OBVIOUS
<1>5. /\ k \in Task /\ k.node = second.task.node /\ k.text = x
      /\ k.privacy = (cache[x] # "public")
  BY ONLY <1>3, <1>4, AnsweredTask, Zenon
<1>6. Screened("result", k) /\ Owed(k)
  BY <1>1, <1>2, <1>3, <1>5 DEF Good, Entry, Screened, Owed, Cleared
<1> HIDE DEF k
<1>7. /\ queue["result"] \in Seq(Task) /\ "result" \in Stage
      /\ queue'["result"] = Append(queue["result"], k)
      /\ \A s \in Stage : s # "result" => queue'[s] = queue[s]
  BY <1>1, <1>2 DEF JudgeType, Stage
<1>8. /\ queue' \in [Stage -> Seq(Task)]
      /\ \A i \in DOMAIN queue'["result"] :
           queue'["result"][i] = k
           \/ \E j \in DOMAIN queue["result"] : queue'["result"][i] = queue["result"][j]
      /\ \A n : Holds(queue'["result"], n) <=> Holds(queue["result"], n) \/ k.node = n
      /\ \A n : Single(queue["result"], n) /\ ~(k.node = n /\ Holds(queue["result"], n))
                => Single(queue'["result"], n)
  <2>1. Append(queue["result"], k) \in Seq(Task)
    BY <1>5, <1>7, PutTask
  <2>2. queue' \in [Stage -> Seq(Task)]
    BY <1>1, <1>2, <2>1 DEF JudgeType
  <2> QED
    BY <1>5, <1>7, <2>2, PutTask
<1>9. Good'
  <2>1. \A s \in Stage : \A i \in DOMAIN queue'[s] :
          Owed(queue'[s][i]) /\ Screened(s, queue'[s][i])
    <3> SUFFICES ASSUME NEW s \in Stage, NEW i \in DOMAIN queue'[s]
                 PROVE  Owed(queue'[s][i]) /\ Screened(s, queue'[s][i])
      OBVIOUS
    <3>1. (s = "result" /\ queue'[s][i] = k) \/ \E j \in DOMAIN queue[s] : queue'[s][i] = queue[s][j]
      BY <1>7, <1>8
    <3> QED
      BY <1>1, <1>6, <3>1 DEF Good
  <2> QED
    BY <1>1, <1>2, <2>1 DEF Good, Owed, Screened, vars
<1>10. ASSUME NEW n \in Node
       PROVE  Unique(n)' /\ (Queued(n)' => Queued(n)) /\ (Pending(n)' <=> Pending(n))
  <2>1. /\ Unique(n) /\ ~AtTier2(n)' /\ (AtTier2(n) <=> k.node = n)
        /\ \A d \in Detector : AtHand(d, n)' <=> AtHand(d, n)
    BY <1>2, <1>3, <1>5 DEF PIInv, AtTier2, AtHand
  <2>2. k.node = n => \A s \in Stage : ~Holds(queue[s], n)
    BY <2>1 DEF Unique
  <2>3. \A s \in Stage : Single(queue'[s], n)
    BY <1>7, <1>8, <2>1, <2>2 DEF Unique
  <2>4. \A s \in Stage :
          Holds(queue'[s], n) <=> Holds(queue[s], n) \/ (k.node = n /\ s = "result")
    BY <1>7, <1>8
  <2>5. Unique(n)'
    BY <2>1, <2>2, <2>3, <2>4 DEF Unique
  <2> QED
    BY <1>7, <2>1, <2>4, <2>5 DEF Pending, Queued
<1>11. Entry' /\ ClientType'
  BY <1>1, <1>2, <1>3 DEF Entry, ClientType
<1>12. JudgeType' /\ alive' \in BOOLEAN
  BY <1>1, <1>2, <1>8 DEF JudgeType
<1> QED
  BY <1>2, <1>9, <1>10, <1>11, <1>12, JudgeRest
-----------------------------------------------------------------------------
(* The detector's thread. *)

\* A detector that has no task of a node does not make it wait twice.
LEMMA SameHand ==
  ASSUME UNCHANGED <<queue, second>>, NEW n, Unique(n),
         \A d \in Detector : AtHand(d, n)' => AtHand(d, n)
  PROVE  Unique(n)'
BY DEF Unique, AtTier2

\* Taking a verdict: the flags of its own node, and nothing of another.
LEMMA TakeVerdictStep ==
  ASSUME PIInv, IInv', TypeOK', NEW d \in Detector, TakeVerdict(d)
  PROVE  PIInv'
<1> DEFINE k == Head(queue["final"])
           m == k.node
           settled == k.privacy \/ (Live(m) /\ perm[m])
<1>1. /\ JudgeType /\ ClientType /\ FlagType /\ Good /\ Entry /\ Seen
      /\ available \in BOOLEAN /\ alive \in BOOLEAN
  BY TypeParts DEF PIInv
<1>2. /\ d \in threads /\ hand[d] = Idle /\ queue["final"] # <<>>
      /\ queue' = [queue EXCEPT !["final"] = Tail(@)]
      /\ tag' = IF Live(m) /\ (k.privacy \/ ~perm[m])
                THEN [tag EXCEPT ![m] = IF k.privacy THEN 1 ELSE 0] ELSE tag
      /\ hand' = [hand EXCEPT ![d] = IF settled THEN Idle
                                     ELSE [at |-> "tagged", task |-> k]]
      /\ IF settled THEN Checked(m) ELSE UNCHANGED need
      /\ UNCHANGED <<vars, parent, prompt, skipped, halves, half, asked, replies, cache, second, available,
                     alive>>
  BY DEF TakeVerdict
<1>3. k \in Task /\ Owed(k) /\ Screened("final", k) /\ m \in Node \cup {NoNode}
  BY <1>1, <1>2, HeadGood, TaskTypes DEF Stage
<1>4. Screens /\ Verdicts
  BY <1>2 DEF PIInv, Screens
<1>5. /\ queue' \in [Stage -> Seq(Task)]
      /\ \A s \in Stage : \A i \in DOMAIN queue'[s] :
           \E j \in DOMAIN queue[s] : queue'[s][i] = queue[s][j]
      /\ Holds(queue["final"], m)
      /\ \A n \in Node : Unique(n) => \A s \in Stage :
           /\ Single(queue'[s], n)
           /\ Holds(queue'[s], n) <=> Holds(queue[s], n) /\ m # n
  BY <1>1, <1>2, TakenOut DEF Stage
<1> HIDE DEF k
<1>6. /\ \A n \in Node : n # m => need'[n] = need[n] /\ tag'[n] = tag[n]
      /\ need' \in [Node -> BOOLEAN] /\ tag' \in [Node -> {0, 1}]
      /\ m \in Node /\ ~settled => need'[m] = need[m] /\ tag'[m] = 0
      /\ m \in Node /\ settled => need'[m] = FALSE
  <2>1. need' = need \/ (m \in Node /\ settled /\ need' = [need EXCEPT ![m] = FALSE])
    BY <1>2, <1>3 DEF Checked, Live
  <2>2. /\ need' \in [Node -> BOOLEAN]
        /\ \A n \in Node : n # m => need'[n] = need[n]
    BY <1>1, <2>1 DEF FlagType
  <2>3. /\ m \in Node /\ settled => need'[m] = FALSE
        /\ ~settled => need' = need
    BY <1>1, <1>2, HitAssumption DEF FlagType, Checked, Live
  <2>4. /\ \A n \in Node : n # m => tag'[n] = tag[n]
        /\ tag' \in [Node -> {0, 1}]
        /\ m \in Node /\ ~settled => tag'[m] = 0
    BY <1>1, <1>2, HitAssumption DEF JudgeType, Live
  <2> QED
    BY <2>2, <2>3, <2>4
<1>7. /\ \A e \in Detector : e # d => hand'[e] = hand[e]
      /\ settled => hand'[d] = Idle
      /\ ~settled => /\ hand'[d] # Idle /\ hand'[d].task = k
                     /\ hand'[d] \in [at : {"tagged", "written"}, task : Task]
  BY <1>1, <1>2, <1>3, Busy DEF JudgeType
<1>8. /\ JudgeType' /\ ClientType' /\ FlagType' /\ HalfType'
      /\ alive' \in BOOLEAN /\ available' \in BOOLEAN
  <2>1. hand' \in [Detector -> {Idle} \cup [at : {"tagged", "written"}, task : Task]]
    BY <1>1, <1>2, <1>3 DEF JudgeType
  <2> QED
    BY <1>1, <1>2, <1>5, <1>6, <2>1, TypeParts DEF PIInv, JudgeType, ClientType, FlagType, HalfType
<1>9. m \in Node => /\ \A s \in Stage : ~Holds(queue'[s], m)
                    /\ ~AtTier2(m) /\ \A e \in Detector : ~AtHand(e, m)
  <2> SUFFICES ASSUME m \in Node
               PROVE  /\ \A s \in Stage : ~Holds(queue'[s], m)
                      /\ ~AtTier2(m) /\ \A e \in Detector : ~AtHand(e, m)
    OBVIOUS
  <2>1. Unique(m) /\ "final" \in Stage
    BY DEF PIInv, Stage
  <2> QED
    BY <1>5, <2>1 DEF Unique
<1>10. ASSUME NEW n \in Node
       PROVE  /\ Unique(n)' /\ (Queued(n)' => Queued(n))
              /\ n # m => (Pending(n) => Pending(n)')
              /\ Pending(n)' => Pending(n)
  <2>1. Unique(n) /\ (AtTier2(n)' <=> AtTier2(n)) /\ ~AtHand(d, n)
    BY <1>2 DEF PIInv, AtTier2, AtHand
  <2>2. \A e \in Detector : e # d => (AtHand(e, n)' <=> AtHand(e, n))
    BY <1>7 DEF AtHand
  <2>3. AtHand(d, n)' => n = m
    BY <1>7 DEF AtHand
  <2>4. Unique(n)'
    <3>0. \A s \in Stage : Single(queue'[s], n) /\ (Holds(queue'[s], n) => Holds(queue[s], n))
      BY <1>5, <2>1
    <3>1. CASE n = m
      <4>1. /\ \A s \in Stage : ~Holds(queue'[s], n)
            /\ ~AtTier2(n)' /\ \A e \in Detector : e # d => ~AtHand(e, n)'
        BY <1>9, <2>1, <2>2, <3>1
      <4> QED
        BY <3>0, <4>1 DEF Unique
    <3>2. CASE n # m
      <4>1. \A e \in Detector : AtHand(e, n)' => AtHand(e, n)
        BY <2>2, <2>3, <3>2
      <4> QED
        BY <2>1, <3>0, <4>1 DEF Unique
    <3> QED
      BY <3>1, <3>2
  <2>5. n = m => Pending(n)
    BY <1>5 DEF Pending, Queued, Stage
  <2>6. n # m => (Pending(n)' <=> Pending(n))
    BY <1>5, <2>1, <2>2, <2>3 DEF Pending, Queued
  <2>7. Queued(n)' => Queued(n)
    BY <1>5, <2>1 DEF Queued
  <2> QED
    BY <2>4, <2>5, <2>6, <2>7
<1>11. ASSUME NEW n \in Node, n = m, ~settled PROVE Pending(n)'
  BY <1>7, <1>11 DEF Pending, AtHand
<1>12. Good'
  <2>1. ASSUME NEW t \in Task, Owed(t), m \in Node => t.node # m
        PROVE  t.node \in Node => /\ vis'[t.node] # "absent" /\ need'[t.node]
                                  /\ prompt'[t.node] # NoPrompt
                                  /\ t.text = Line(prompt'[t.node])
    BY <1>2, <1>6, <2>1 DEF Owed, vars
  <2>2. ASSUME NEW s \in Stage, NEW i \in DOMAIN queue'[s]
        PROVE  Owed(queue[s][i])' /\ Screened(s, queue[s][i])'
    <3>1. queue'[s][i] \in Task
      BY <1>5, <2>2
    <3>2. Owed(queue'[s][i]) /\ Screened(s, queue'[s][i])
      BY <1>1, <1>5, <2>2 DEF Good
    <3>3. m \in Node => queue'[s][i].node # m
      BY <1>9, <2>2 DEF Holds
    <3>4. Owed(queue[s][i])'
      BY <2>1, <3>1, <3>2, <3>3 DEF Owed
    <3> QED
      BY <1>2, <3>2, <3>4 DEF Screened
  <2>3. ASSUME second' # Idle
        PROVE  /\ Owed(second.task)' /\ Tier1[second'.task.text] = "miss"
               /\ second'.task.privacy /\ available'
    <3>1. second' = second /\ second.task \in Task
      BY <1>1, <1>2, <2>3 DEF JudgeType
    <3>2. m \in Node => second.task.node # m
      BY <1>9, <2>3, <3>1 DEF AtTier2
    <3>3. Owed(second.task) /\ Tier1[second.task.text] = "miss"
          /\ second.task.privacy /\ available
      BY <1>1, <2>3, <3>1 DEF Good
    <3>4. Owed(second.task)'
      BY <2>1, <3>1, <3>2, <3>3 DEF Owed
    <3> QED
      BY <1>2, <3>1, <3>3, <3>4
  <2>4. ASSUME NEW e \in Detector, hand'[e] # Idle
        PROVE  /\ Owed(hand[e].task)' /\ Cleared(hand'[e].task.text) /\ available'
               /\ e \in threads'
    <3>1. CASE e = d
      <4>1. hand'[e].task = k /\ ~settled /\ m \in Node \cup {NoNode} /\ ~k.privacy
        BY <1>3, <1>7, <2>4, <3>1
      <4>2. Owed(hand[e].task)'
        BY <1>2, <1>3, <1>6, <4>1 DEF Owed, vars
      <4>3. Cleared(k.text) /\ available
        BY <1>3, <4>1 DEF Screened
      <4> QED
        BY <1>2, <1>6, <3>1, <4>1, <4>2, <4>3 DEF vars
    <3>2. CASE e # d
      <4>1. hand'[e] = hand[e] /\ hand[e] # Idle /\ hand[e].task \in Task
        BY <1>1, <1>7, <2>4, <3>2 DEF JudgeType
      <4>2. m \in Node => hand[e].task.node # m
        BY <1>9, <4>1 DEF AtHand
      <4>3. /\ Owed(hand[e].task) /\ Cleared(hand[e].task.text) /\ available
            /\ e \in threads
        BY <1>1, <4>1 DEF Good
      <4>4. Owed(hand[e].task)'
        BY <2>1, <4>1, <4>2, <4>3 DEF Owed
      <4> QED
        BY <1>2, <1>6, <4>1, <4>2, <4>3, <4>4 DEF vars
    <3> QED
      BY <3>1, <3>2
  <2> QED
    BY <2>2, <2>3, <2>4 DEF Good
<1>13. Entry' /\ Seen'
  <2>1. Entry'
    BY <1>1, <1>2 DEF Entry
  <2>2. pc[d] # "private"
    BY <1>1, <1>2 DEF Seen
  <2> QED
    BY <1>1, <1>2, <1>7, <2>1, <2>2 DEF Seen, vars
<1>14. Verdicts'
  <2>1. m \in Node => vis[m] = "private"
    BY <1>4, <1>5 DEF Verdicts, Verdict, Queued, Stage
  <2>2. ASSUME NEW n \in Node
        PROVE  Verdict(n)'
    <3>1. CASE n = m
      BY <1>2, <1>4, <1>6, <1>10, <1>11, <2>1, <3>1 DEF Verdicts, Verdict, vars
    <3>2. CASE n # m
      BY <1>2, <1>4, <1>6, <1>10, <3>2 DEF Verdicts, Verdict, vars
    <3> QED
      BY <3>1, <3>2
  <2> QED
    BY <1>2, <1>4, <2>2 DEF Verdicts, Verdict, vars
<1>15. Skips'
  <2>1. \A n \in Node : need'[n] => need[n]
    BY <1>6
  <2> QED
    BY <1>1, <1>2, <2>1, SkipsKept DEF PIInv, vars
<1> QED
  BY <1>8, <1>10, <1>12, <1>13, <1>14, <1>15, TypeParts DEF PIInv

\* The judge's own variables are typed as before when a step leaves them alone.
LEMMA ClientKept ==
  ASSUME PIInv, UNCHANGED <<asked, replies, cache, available, alive>>
  PROVE  ClientType' /\ available' \in BOOLEAN /\ alive' \in BOOLEAN
BY TypeParts DEF PIInv, ClientType

\* A detector is done with its task: need_check_privacy of its node is cleared.
LEMMA HandDone ==
  ASSUME PIInv, IInv', TypeOK', NEW d \in Detector, hand[d] # Idle, pc[d] # "private",
         hand' = [hand EXCEPT ![d] = Idle], Checked(hand[d].task.node),
         UNCHANGED <<vars, parent, prompt, tag, skipped, halves, half, queue, asked, replies, cache, second,
                     available, alive>>
  PROVE  PIInv'
<1> DEFINE k == hand[d].task
           m == k.node
<1>1. /\ JudgeType /\ FlagType /\ Good /\ Entry /\ Seen /\ Skips
      /\ ClientType' /\ available' \in BOOLEAN /\ alive' \in BOOLEAN
  BY TypeParts, ClientKept DEF PIInv
<1>2. k \in Task /\ d \in threads /\ m \in Node \cup {NoNode}
  BY <1>1, TaskTypes DEF JudgeType, Good
<1>3. /\ need' \in [Node -> BOOLEAN]
      /\ \A n \in Node : n # m => need'[n] = need[n]
      /\ \A n \in Node : n = m => need'[n] = FALSE
      /\ \A n \in Node : need'[n] => need[n]
  <2>1. (need' = need /\ m = NoNode) \/ (m \in Node /\ need' = [need EXCEPT ![m] = FALSE])
    BY <1>2 DEF Checked, Live
  <2> QED
    BY <1>1, <2>1, HitAssumption DEF FlagType
<1>4. /\ \A e \in Detector : e # d => hand'[e] = hand[e]
      /\ hand'[d] = Idle
      /\ hand' \in [Detector -> {Idle} \cup [at : {"tagged", "written"}, task : Task]]
  BY <1>1 DEF JudgeType
<1>5. ASSUME NEW n \in Node
      PROVE  /\ Unique(n) /\ Unique(n)' /\ (Queued(n)' <=> Queued(n))
             /\ n # m => (Pending(n) => Pending(n)')
             /\ Pending(n)' => Pending(n)
             /\ \A e \in Detector : e # d => (AtHand(e, n)' <=> AtHand(e, n))
  <2>1. /\ Unique(n) /\ (AtTier2(n)' <=> AtTier2(n)) /\ (AtHand(d, n) <=> n = m)
        /\ ~AtHand(d, n)'
    BY <1>4 DEF PIInv, AtTier2, AtHand
  <2>2. \A e \in Detector : e # d => (AtHand(e, n)' <=> AtHand(e, n))
    BY <1>4 DEF AtHand
  <2>3. Unique(n)'
    BY <2>1, <2>2, SameHand
  <2> QED
    BY <2>1, <2>2, <2>3 DEF Pending, Queued
<1>6. ASSUME NEW n \in Node, n = m
      PROVE  /\ \A s \in Stage : ~Holds(queue[s], n)
             /\ ~AtTier2(n) /\ \A e \in Detector : e # d => ~AtHand(e, n)
  <2>1. AtHand(d, n) /\ Unique(n)
    BY <1>6 DEF AtHand, PIInv
  <2> QED
    BY <2>1 DEF Unique
<1>7. Good'
  <2>1. ASSUME NEW t \in Task, Owed(t), m \in Node => t.node # m
        PROVE  t.node \in Node => /\ vis'[t.node] # "absent" /\ need'[t.node]
                                  /\ prompt'[t.node] # NoPrompt
                                  /\ t.text = Line(prompt'[t.node])
    BY <1>3, <2>1 DEF Owed, vars
  <2>2. ASSUME NEW s \in Stage, NEW i \in DOMAIN queue'[s]
        PROVE  Owed(queue[s][i])' /\ Screened(s, queue[s][i])'
    <3>1. queue'[s][i] \in Task /\ queue' = queue
      BY <1>1, <2>2 DEF JudgeType
    <3>2. Owed(queue'[s][i]) /\ Screened(s, queue'[s][i])
      BY <1>1, <2>2, <3>1 DEF Good
    <3>3. m \in Node => queue'[s][i].node # m
      BY <1>6, <2>2, <3>1 DEF Holds
    <3>4. Owed(queue[s][i])'
      BY <2>1, <3>1, <3>2, <3>3 DEF Owed
    <3> QED
      BY <3>2, <3>4 DEF Screened
  <2>3. ASSUME second' # Idle
        PROVE  /\ Owed(second.task)' /\ Tier1[second'.task.text] = "miss"
               /\ second'.task.privacy /\ available'
    <3>1. second' = second /\ second.task \in Task
      BY <1>1, <2>3 DEF JudgeType
    <3>2. m \in Node => second.task.node # m
      BY <1>6, <2>3, <3>1 DEF AtTier2
    <3>3. Owed(second.task) /\ Tier1[second.task.text] = "miss"
          /\ second.task.privacy /\ available
      BY <1>1, <2>3, <3>1 DEF Good
    <3>4. Owed(second.task)'
      BY <2>1, <3>1, <3>2, <3>3 DEF Owed
    <3> QED
      BY <3>1, <3>3, <3>4
  <2>4. ASSUME NEW e \in Detector, hand'[e] # Idle
        PROVE  /\ Owed(hand[e].task)' /\ Cleared(hand'[e].task.text) /\ available'
               /\ e \in threads'
    <3>1. e # d /\ hand'[e] = hand[e] /\ hand[e] # Idle /\ hand[e].task \in Task
      BY <1>1, <1>4, <2>4 DEF JudgeType
    <3>2. m \in Node => hand[e].task.node # m
      BY <1>6, <3>1 DEF AtHand
    <3>3. /\ Owed(hand[e].task) /\ Cleared(hand[e].task.text) /\ available
          /\ e \in threads
      BY <1>1, <3>1 DEF Good
    <3>4. Owed(hand[e].task)'
      BY <2>1, <3>1, <3>2, <3>3 DEF Owed
    <3> QED
      BY <3>1, <3>3, <3>4 DEF vars
  <2> QED
    BY <2>2, <2>3, <2>4 DEF Good
<1>8. Entry' /\ Seen'
  BY <1>1, <1>4 DEF Entry, Seen, vars
<1>9. Screens => Verdicts'
  BY <1>3, <1>5 DEF PIInv, Verdicts, Verdict, vars
<1>10. Skips' /\ (Screens' <=> Screens)
  BY <1>1, <1>3, SkipsKept DEF vars
<1>11. JudgeType' /\ FlagType' /\ HalfType'
  BY <1>1, <1>3, <1>4, TypeParts DEF PIInv, JudgeType, FlagType, HalfType
<1> QED
  BY <1>1, <1>5, <1>7, <1>8, <1>9, <1>10, <1>11, TypeParts DEF PIInv

\* The last write of a detector thread keeps the invariant.
LEMMA ClearNeedStep ==
  ASSUME PIInv, IInv', TypeOK', NEW d \in Detector, ClearNeed(d)
  PROVE  PIInv'
<1>1. hand[d] # Idle /\ pc[d] # "private"
  BY Busy DEF ClearNeed, PIInv, Seen
<1> QED
  BY <1>1, HandDone DEF ClearNeed

\* The test of visibility fails, or the write is to follow.
LEMMA TestVisibilityStep ==
  ASSUME PIInv, IInv', TypeOK', NEW d \in Detector, TestVisibility(d)
  PROVE  PIInv'
<1> DEFINE n == hand[d].task.node
<1>1. /\ JudgeType /\ FlagType /\ Good /\ Entry /\ Seen /\ Skips /\ TypeOK
      /\ pc[d] = "idle" /\ hand[d].at = "tagged" /\ hand[d] # Idle
  BY TypeParts, Busy DEF PIInv, TestVisibility
<1>2. UNCHANGED <<threads, vis, edge, perm, holder, charged, served, parent, prompt, tag, skipped,
                  halves, half, queue,
                  asked, replies, cache, second, available, alive>>
  BY DEF TestVisibility
<1>3. CASE Checked(n) /\ hand' = [hand EXCEPT ![d] = Idle] /\ UNCHANGED <<pc, at>>
  <2>1. UNCHANGED vars
    BY <1>2, <1>3 DEF vars
  <2> QED
    BY <1>1, <1>2, <1>3, <2>1, HandDone
<1>4. CASE Live(n) /\ vis[n] = "private" /\ Start(d, n, "private") /\ UNCHANGED <<need, hand>>
  <2>1. /\ pc'[d] = "private" /\ at'[d] = n /\ d \in Thread
        /\ \A t \in Thread : t # d => pc'[t] = pc[t] /\ at'[t] = at[t]
    BY <1>1, <1>4 DEF Start, TypeOK, Thread
  <2>2. /\ JudgeType' /\ FlagType' /\ HalfType' /\ ClientType'
        /\ available' \in BOOLEAN /\ alive' \in BOOLEAN
    BY <1>1, <1>2, <1>4, ClientKept, TypeParts DEF PIInv, JudgeType, FlagType, HalfType
  <2>3. Good' /\ Entry'
    BY <1>1, <1>2, <1>4 DEF Good, Owed, Screened, Entry
  <2>4. ASSUME NEW m \in Node
        PROVE  Unique(m)' /\ (Queued(m)' <=> Queued(m)) /\ (Pending(m)' <=> Pending(m))
    <3>1. Unique(m)
      BY DEF PIInv
    <3> QED
      BY <1>2, <1>4, <3>1 DEF Unique, Queued, Pending, AtTier2, AtHand
  <2>5. Seen'
    <3>1. d \notin Lookup
      BY HitAssumption
    <3>2. \A t \in Lookup : t \in Thread
      BY DEF Thread
    <3>3. \A e \in Detector : e \in Thread
      BY DEF Thread
    <3> QED
      BY <1>1, <1>2, <1>4, <2>1, <3>1, <3>2, <3>3 DEF Seen
  <2>6. Skips' /\ (Screens' <=> Screens)
    <3>1. \A t \in Lookup : t \in Thread /\ t # d
      BY HitAssumption DEF Thread
    <3> QED
      BY <1>1, <1>2, <1>4, <2>1, <3>1, SkipsKept
  <2>7. Screens => Verdicts'
    <3>1. \A e \in Detector : e \in Thread
      BY DEF Thread
    <3> QED
      BY <1>2, <1>4, <2>1, <2>4, <3>1 DEF PIInv, Verdicts, Verdict
  <2> QED
    BY <2>2, <2>3, <2>4, <2>5, <2>6, <2>7, TypeParts DEF PIInv
<1> QED
  BY <1>3, <1>4 DEF TestVisibility

\* The write: the node is still private, waits for this detector only and its
\* line is clear.
LEMMA WriteVisibilityStep ==
  ASSUME PIInv, IInv', TypeOK', NEW d \in Detector, WriteVisibility(d)
  PROVE  PIInv'
<1> DEFINE n == at[d]
<1>1. /\ JudgeType /\ FlagType /\ Good /\ Entry /\ Seen /\ Skips /\ TypeOK
      /\ pc[d] = "private" /\ d \in Thread /\ n \in Node /\ d \in threads
  BY TypeParts DEF PIInv, WriteVisibility, DetectorWrites, IInv, Places, Thread
<1>2. /\ vis' = [vis EXCEPT ![n] = "budgeted_shared"]
      /\ hand' = [hand EXCEPT ![d].at = "written"]
      /\ pc' = [pc EXCEPT ![d] = "idle"] /\ at' = [at EXCEPT ![d] = NoNode]
      /\ UNCHANGED <<threads, perm, nodeVars, queue, asked, replies, cache,
                     second, available, alive>>
  BY DEF WriteVisibility, DetectorWrites, Return
<1>3. /\ Screens /\ Verdicts /\ vis[n] = "private" /\ ~perm[n]
      /\ hand[d] # Idle /\ hand[d].at = "tagged" /\ hand[d].task.node = n
  BY <1>1 DEF PIInv, Screens, Verdicts, Verdict, Seen
<1>4. /\ vis'[n] = "budgeted_shared" /\ pc'[d] = "idle"
      /\ \A m \in Node : m # n => vis'[m] = vis[m]
      /\ \A t \in Thread : t # d => pc'[t] = pc[t] /\ at'[t] = at[t]
  BY <1>1, <1>2 DEF TypeOK
<1>5. /\ hand'[d] \in [at : {"tagged", "written"}, task : Task]
      /\ hand'[d] # Idle /\ hand'[d].task = hand[d].task
      /\ \A e \in Detector : e # d => hand'[e] = hand[e]
      /\ hand' \in [Detector -> {Idle} \cup [at : {"tagged", "written"}, task : Task]]
  <2>1. hand[d] \in [at : {"tagged", "written"}, task : Task]
    BY <1>1, <1>3 DEF JudgeType
  <2>2. hand'[d] = [hand[d] EXCEPT !.at = "written"]
    BY <1>1, <1>2 DEF JudgeType
  <2> QED
    BY <1>1, <1>2, <2>1, <2>2, Busy DEF JudgeType
<1>6. /\ need[n] /\ prompt[n] # NoPrompt /\ Cleared(Line(prompt[n])) /\ available
  BY <1>1, <1>3 DEF Good, Owed
<1>7. ASSUME NEW m \in Node
      PROVE  /\ Unique(m) /\ Unique(m)'
             /\ (Queued(m)' <=> Queued(m)) /\ (Pending(m)' <=> Pending(m))
  <2>1. Unique(m) /\ (AtTier2(m)' <=> AtTier2(m))
        /\ \A e \in Detector : AtHand(e, m)' <=> AtHand(e, m)
    BY <1>2, <1>3, <1>5 DEF PIInv, AtTier2, AtHand
  <2> QED
    BY <1>2, <2>1 DEF Unique, Queued, Pending
<1>8. /\ ~Queued(n) /\ \A e \in Detector : AtHand(e, n) => e = d
  <2>1. Unique(n) /\ AtHand(d, n)
    BY <1>1, <1>3, <1>7 DEF AtHand
  <2> QED
    BY <2>1 DEF Unique, Queued
<1>9. Good' /\ Entry'
  <2>1. \A m \in Node : vis[m] # "absent" => vis'[m] # "absent"
    BY <1>4
  <2>2. \A e \in Detector : hand'[e] # Idle => hand[e] # Idle /\ hand'[e].task = hand[e].task
    BY <1>3, <1>5
  <2>3. Entry'
    BY <1>1, <1>2 DEF Entry
  <2> QED
    BY <1>1, <1>2, <2>1, <2>2, <2>3 DEF Good, Owed, Screened
<1>10. Seen'
  <2>1. \A e \in Detector : e \in Thread
    BY DEF Thread
  <2>2. \A t \in Lookup : t \in Thread /\ t # d
    BY HitAssumption DEF Thread
  <2>3. \A t \in Thread : pc[t] # "idle" => at[t] \in Node
    BY DEF PIInv, IInv, Places
  <2> QED
    BY <1>1, <1>2, <1>3, <1>4, <1>5, <2>1, <2>2, <2>3 DEF Seen
<1>11. Verdicts'
  <2>1. \A e \in Detector : e \in Thread
    BY DEF Thread
  <2>3. \A t \in Thread : pc[t] # "idle" => at[t] \in Node
    BY DEF PIInv, IInv, Places
  <2>4. \A t \in Thread : pc'[t] = "exhausted" => vis'[at'[t]] = "exhausted_private"
    BY <1>3, <1>4, <2>3 DEF Verdicts, Verdict
  <2>5. \A e \in Detector : pc'[e] = "private" => vis'[at'[e]] = "private"
    <3> SUFFICES ASSUME NEW e \in Detector, pc'[e] = "private"
                 PROVE  vis'[at'[e]] = "private"
      OBVIOUS
    <3>1. e # d /\ pc[e] = "private" /\ at'[e] = at[e] /\ at[e] \in Node
      BY <1>4, <2>1, <2>3
    <3>2. at[e] # n
      BY <1>1, <1>8, <3>1 DEF Seen, AtHand
    <3> QED
      BY <1>3, <1>4, <3>1, <3>2 DEF Verdicts, Verdict
  <2>6. ASSUME NEW m \in Node
        PROVE  Verdict(m)'
    <3>1. CASE m = n
      <4>1. Pending(m) /\ ~Queued(m)
        BY <1>3, <1>8, <3>1 DEF Pending, AtHand
      <4> QED
        <5>1. m \notin halves /\ ~perm[m]
          BY <1>3, <3>1, <4>1 DEF Verdicts, Verdict
        <5> QED
          BY <1>2, <1>3, <1>4, <1>6, <1>7, <3>1, <4>1, <5>1 DEF Verdict
    <3>2. CASE m # n
      BY <1>2, <1>3, <1>4, <1>7, <3>2 DEF Verdicts, Verdict
    <3> QED
      BY <3>1, <3>2
  <2> QED
    BY <1>2, <1>3, <2>4, <2>5, <2>6 DEF Verdicts, Verdict
<1>12. Skips'
  <2>1. \A t \in Lookup : t \in Thread /\ t # d
    BY HitAssumption DEF Thread
  <2> QED
    BY <1>1, <1>2, <1>3, <1>4, <2>1, SkipsKept
<1>13. /\ JudgeType' /\ FlagType' /\ HalfType' /\ ClientType'
       /\ available' \in BOOLEAN /\ alive' \in BOOLEAN
  BY <1>1, <1>2, <1>5, ClientKept, TypeParts DEF PIInv, JudgeType, FlagType, HalfType
<1> QED
  BY <1>7, <1>9, <1>10, <1>11, <1>12, <1>13, TypeParts DEF PIInv
-----------------------------------------------------------------------------
(* The cache: insertion, eviction, lookups and promoters. *)

\* A node that is inserted has no task from an earlier life.
LEMMA InsertStep ==
  ASSUME PIInv, IInv', TypeOK', NEW n \in Node, NEW up \in Node \cup {NoNode},
         NEW e \in Edge, NEW p \in Prompt \cup {NoPrompt}, InsertNode(n, up, e, p)
  PROVE  PIInv'
<1> DEFINE k == [node |-> n, text |-> Line(p), privacy |-> TRUE]
<1>1. /\ JudgeType /\ FlagType /\ Good /\ Entry /\ Seen /\ Skips /\ TypeOK /\ Places
  BY TypeParts DEF PIInv, IInv
<1>2. /\ vis[n] = "absent" /\ vis' = [vis EXCEPT ![n] = "private"]
      /\ perm' = [perm EXCEPT ![n] = FALSE]
      /\ up # NoNode => vis[up] # "absent"
      /\ parent' = [parent EXCEPT ![n] = up]
      /\ UNCHANGED <<threads, pc, at, halves, half, asked, replies, cache, second, hand, available, alive>>
  BY DEF InsertNode, Insert
<1>3. /\ vis'[n] = "private" /\ perm'[n] = FALSE
      /\ \A m \in Node : m # n => vis'[m] = vis[m] /\ perm'[m] = perm[m]
  BY <1>1, <1>2 DEF TypeOK
<1>4. /\ \A s \in Stage : ~Holds(queue[s], n)
      /\ ~AtTier2(n) /\ \A d \in Detector : ~AtHand(d, n)
  BY <1>1, <1>2 DEF Good, Owed, Holds, AtTier2, AtHand
<1>5. \A t \in Thread : pc[t] # "idle" => at[t] \in Node /\ at[t] # n
  BY <1>1, <1>2 DEF Places
<1>6. Seen'
  <2>1. Lookup \subseteq Thread /\ Detector \subseteq Thread
    BY DEF Thread
  <2> QED
    BY <1>1, <1>2, <1>3, <1>5, <2>1 DEF Seen
<1>7. Entry' /\ (Screens' <=> Screens)
  BY <1>1, <1>2 DEF Entry, Screens
<1>8. /\ ClientType' /\ HalfType' /\ available' \in BOOLEAN /\ alive' \in BOOLEAN
      /\ parent' \in [Node -> Node \cup {NoNode}]
      /\ parent'[n] = up /\ \A m \in Node : m # n => parent'[m] = parent[m]
  BY <1>1, <1>2, ClientKept, TypeParts DEF PIInv, HalfType, JudgeType
<1>11. /\ \A m \in Node : parent'[m] \in Node => parent'[m] # n /\ vis'[parent'[m]] # "absent"
       /\ \A t \in Lookup : pc'[t] # "split"
  <2>1. \A m \in Node : parent'[m] \in Node => parent'[m] # n /\ vis'[parent'[m]] # "absent"
    <3> SUFFICES ASSUME NEW m \in Node, parent'[m] \in Node
                 PROVE  parent'[m] # n /\ vis'[parent'[m]] # "absent"
      OBVIOUS
    <3>1. vis[parent'[m]] # "absent"
      BY <1>1, <1>2, <1>8, HitAssumption DEF Skips
    <3> QED
      BY <1>2, <1>3, <3>1
  <2>2. \A t \in Lookup : pc[t] # "split"
    <3> SUFFICES ASSUME NEW t \in Lookup, pc[t] = "split" PROVE FALSE
      OBVIOUS
    <3>1. PICK u \in Lookup \cap threads : pc[u] = "idle"
      BY DEF InsertNode, Insert
    <3> QED
      BY <1>1, <3>1 DEF Skips
  <2> QED
    BY <1>2, <2>1, <2>2
<1>9. CASE ~Screens /\ UNCHANGED <<tag, prompt, need, skipped, queue>>
  <2>1. JudgeType' /\ FlagType'
    BY <1>1, <1>2, <1>8, <1>9 DEF JudgeType, FlagType
  <2>2. ASSUME NEW m \in Node PROVE Unique(m)'
    <3>1. Unique(m)
      BY DEF PIInv
    <3> QED
      BY <1>2, <1>9, <3>1 DEF Unique, AtTier2, AtHand
  <2>3. \A m \in Node : vis[m] # "absent" => vis'[m] # "absent"
    BY <1>3
  <2>4. Good'
    BY <1>1, <1>2, <1>9, <2>3 DEF Good, Owed, Screened
  <2>5. Skips'
    <3>1. skipped' = {}
      BY <1>1, <1>9 DEF Skips
    <3> QED
      BY <1>11, <3>1 DEF Skips
  <2> QED
    BY <1>6, <1>7, <1>8, <1>9, <2>1, <2>2, <2>4, <2>5, TypeParts DEF PIInv
<1>10. CASE Screens /\ UpdatePrivacy(n, up, p)
  <2> DEFINE inherits == up # NoNode /\ ~need[up] /\ tag[up] = 1
             screened == ~inherits /\ p # NoPrompt
  <2>1. /\ tag' = [tag EXCEPT ![n] = 1] /\ prompt' = [prompt EXCEPT ![n] = p]
        /\ need' = [need EXCEPT ![n] = screened]
        /\ skipped' = IF inherits THEN skipped \cup {n} ELSE skipped
        /\ queue' = IF screened THEN [queue EXCEPT !["tier_1"] = Append(@, k)] ELSE queue
    BY <1>10 DEF UpdatePrivacy
  <2>2. /\ tag'[n] = 1 /\ prompt'[n] = p
        /\ \A m \in Node : m # n => tag'[m] = tag[m] /\ prompt'[m] = prompt[m]
        /\ tag' \in [Node -> {0, 1}] /\ prompt' \in [Node -> Prompt \cup {NoPrompt}]
        /\ skipped' \subseteq Node
    BY <1>1, <2>1 DEF JudgeType
  <2>3. /\ need'[n] = screened /\ need' \in [Node -> BOOLEAN]
        /\ \A m \in Node : m # n => need'[m] = need[m]
    BY <1>1, <2>1 DEF FlagType
  <2>4. screened => k \in Task /\ k.node = n /\ k.text = Line(p) /\ k.privacy /\ p \in Prompt
    BY LineType, TaskTypes
  <2>5. /\ "tier_1" \in Stage /\ queue["tier_1"] \in Seq(Task)
        /\ queue'["tier_1"] = IF screened THEN Append(queue["tier_1"], k) ELSE queue["tier_1"]
        /\ \A s \in Stage : s # "tier_1" => queue'[s] = queue[s]
    BY <1>1, <2>1 DEF JudgeType, Stage
  <2> HIDE DEF k, inherits
  <2>6. /\ queue'["tier_1"] \in Seq(Task)
        /\ \A i \in DOMAIN queue'["tier_1"] :
             (screened /\ queue'["tier_1"][i] = k)
             \/ \E j \in DOMAIN queue["tier_1"] : queue'["tier_1"][i] = queue["tier_1"][j]
        /\ \A m : Holds(queue'["tier_1"], m) <=>
                    Holds(queue["tier_1"], m) \/ (screened /\ k.node = m)
        /\ \A m : Single(queue["tier_1"], m) /\ ~(screened /\ k.node = m /\ Holds(queue["tier_1"], m))
                  => Single(queue'["tier_1"], m)
    <3>1. CASE screened
      BY <2>4, <2>5, <3>1, PutTask
    <3>2. CASE ~screened
      BY <2>5, <3>2
    <3> QED
      BY <3>1, <3>2
  <2>7. queue' \in [Stage -> Seq(Task)]
    BY <1>1, <2>1, <2>4, <2>5, <2>6 DEF JudgeType
  <2>8. JudgeType' /\ FlagType'
    BY <1>1, <1>2, <1>8, <2>2, <2>3, <2>7 DEF JudgeType, FlagType
  <2>9. ASSUME NEW m \in Node
        PROVE  /\ Unique(m)'
               /\ m # n => (Queued(m)' <=> Queued(m)) /\ (Pending(m)' <=> Pending(m))
               /\ m = n /\ screened => Pending(m)'
    <3>1. Unique(m) /\ (AtTier2(m)' <=> AtTier2(m))
          /\ \A d \in Detector : AtHand(d, m)' <=> AtHand(d, m)
      BY <1>2 DEF PIInv, AtTier2, AtHand
    <3>2. \A s \in Stage : Single(queue'[s], m)
      BY <1>4, <2>4, <2>5, <2>6, <3>1 DEF Unique
    <3>3. \A s \in Stage : Holds(queue'[s], m) <=>
            Holds(queue[s], m) \/ (screened /\ m = n /\ s = "tier_1")
      BY <2>4, <2>5, <2>6
    <3>4. CASE m = n
      <4>1. Unique(m)'
        BY <1>4, <3>1, <3>2, <3>3, <3>4 DEF Unique
      <4> QED
        BY <2>5, <3>3, <3>4, <4>1 DEF Pending, Queued
    <3>5. CASE m # n
      <4>1. Unique(m)'
        BY <3>1, <3>2, <3>3, <3>5 DEF Unique
      <4> QED
        BY <3>1, <3>3, <3>5, <4>1 DEF Pending, Queued
    <3> QED
      BY <3>4, <3>5
  <2>10. Good'
    <3>1. ASSUME NEW t \in Task, Owed(t), t.node # n
          PROVE  t.node \in Node => /\ vis'[t.node] # "absent" /\ need'[t.node]
                                    /\ prompt'[t.node] # NoPrompt
                                    /\ t.text = Line(prompt'[t.node])
      BY <1>3, <2>2, <2>3, <3>1 DEF Owed
    <3>2. ASSUME NEW s \in Stage, NEW i \in DOMAIN queue'[s]
          PROVE  Owed(queue[s][i])' /\ Screened(s, queue[s][i])'
      <4>1. CASE s = "tier_1" /\ screened /\ queue'[s][i] = k
        BY <1>3, <2>2, <2>3, <2>4, <4>1, PipelineAssumption DEF Owed, Screened
      <4>2. CASE \E j \in DOMAIN queue[s] : queue'[s][i] = queue[s][j]
        <5>1. /\ queue'[s][i] \in Task /\ queue'[s][i].node # n
              /\ Owed(queue'[s][i]) /\ Screened(s, queue'[s][i])
          BY <1>1, <1>4, <4>2 DEF Good, Holds, JudgeType
        <5>2. Owed(queue[s][i])'
          BY <3>1, <5>1 DEF Owed
        <5> QED
          BY <1>2, <5>1, <5>2 DEF Screened
      <4> QED
        BY <2>5, <2>6, <3>2, <4>1, <4>2
    <3>3. ASSUME second' # Idle
          PROVE  /\ Owed(second.task)' /\ Tier1[second'.task.text] = "miss"
                 /\ second'.task.privacy /\ available'
      <4>1. /\ second' = second /\ second.task \in Task /\ second.task.node # n
            /\ Owed(second.task) /\ Tier1[second.task.text] = "miss"
            /\ second.task.privacy /\ available
        BY <1>1, <1>2, <1>4, <3>3 DEF JudgeType, Good, AtTier2
      <4>2. Owed(second.task)'
        BY <3>1, <4>1 DEF Owed
      <4> QED
        BY <1>2, <4>1, <4>2
    <3>4. ASSUME NEW d \in Detector, hand'[d] # Idle
          PROVE  /\ Owed(hand[d].task)' /\ Cleared(hand'[d].task.text) /\ available'
                 /\ d \in threads'
      <4>1. /\ hand' = hand /\ hand[d].task \in Task /\ hand[d].task.node # n
            /\ Owed(hand[d].task) /\ Cleared(hand[d].task.text) /\ available
            /\ d \in threads
        BY <1>1, <1>2, <1>4, <3>4 DEF JudgeType, Good, AtHand
      <4>2. Owed(hand[d].task)'
        BY <3>1, <4>1 DEF Owed
      <4> QED
        BY <1>2, <2>2, <4>1, <4>2
    <3> QED
      BY <3>2, <3>3, <3>4 DEF Good
  <2>11. Verdicts'
    <3>1. Verdicts /\ Detector \subseteq Thread
      BY <1>10 DEF PIInv, Thread
    <3>2. ASSUME NEW m \in Node
          PROVE  Verdict(m)'
      <4>1. CASE m = n
        <5>1. n \notin halves
          BY <1>2, <3>1 DEF Verdicts, Verdict
        <5> QED
          BY <1>2, <1>3, <2>3, <2>9, <4>1, <5>1 DEF Verdict
      <4>2. CASE m # n
        BY <1>2, <1>3, <2>2, <2>3, <2>9, <3>1, <4>2 DEF Verdicts, Verdict
      <4> QED
        BY <4>1, <4>2
    <3>3. \A t \in Thread : pc'[t] = "exhausted" => vis'[at'[t]] = "exhausted_private"
      BY <1>2, <1>3, <1>5, <3>1 DEF Verdicts, Verdict
    <3>4. \A d \in Detector : pc'[d] = "private" => vis'[at'[d]] = "private"
      BY <1>2, <1>3, <1>5, <3>1 DEF Verdicts, Verdict
    <3> QED
      BY <1>2, <3>1, <3>2, <3>3, <3>4 DEF Verdicts, Verdict
  <2>12. Skips'
    <3>1. ASSUME NEW m \in skipped'
          PROVE  /\ parent'[m] \in Node /\ vis'[m] # "absent" /\ ~need'[m]
                 /\ vis'[parent'[m]] # "absent" /\ ~need'[parent'[m]]
      <4>1. CASE m = n
        <5>1. inherits
          BY <1>1, <1>2, <2>1, <3>1, <4>1 DEF Skips
        <5>2. up \in Node /\ ~need[up] /\ up # n /\ ~screened
          BY <1>2, <5>1 DEF inherits
        <5> QED
          BY <1>3, <1>8, <1>11, <2>3, <4>1, <5>2
      <4>2. CASE m # n
        <5>1. /\ m \in Node /\ parent'[m] = parent[m] /\ parent[m] \in Node
              /\ vis[m] # "absent" /\ ~need[m] /\ ~need[parent[m]]
          BY <1>1, <1>8, <2>1, <3>1, <4>2 DEF Skips, JudgeType
        <5> QED
          BY <1>3, <1>11, <2>3, <4>2, <5>1
      <4> QED
        BY <4>1, <4>2
    <3> QED
      BY <1>7, <1>10, <1>11, <3>1 DEF Skips
  <2> QED
    BY <1>6, <1>7, <1>8, <2>8, <2>9, <2>10, <2>11, <2>12, TypeParts DEF PIInv
<1> QED
  BY <1>9, <1>10 DEF InsertNode, Screens

\* A task of the evicted node names no node any more; the others are the same.
LEMMA Orphaned ==
  ASSUME NEW k \in Task, NEW n \in Node
  PROVE  /\ Orphan(k, n) \in Task
         /\ Orphan(k, n).text = k.text /\ Orphan(k, n).privacy = k.privacy
         /\ Orphan(k, n).node = IF k.node = n THEN NoNode ELSE k.node
         /\ \A m \in Node : Orphan(k, n).node = m <=> k.node = m /\ m # n
         /\ Orphan(k, n).node \in Node => Orphan(k, n) = k /\ k.node # n
BY HitAssumption DEF Orphan, Task

\* Evicting a node orphans its own queued tasks and leaves the others.
LEMMA OrphanedQueue ==
  ASSUME NEW q \in Seq(Task), NEW r, NEW n \in Node,
         r = [i \in DOMAIN q |-> Orphan(q[i], n)]
  PROVE  /\ r \in Seq(Task) /\ DOMAIN r = DOMAIN q
         /\ \A i \in DOMAIN q : q[i] \in Task /\ r[i] = Orphan(q[i], n)
         /\ \A m \in Node : Holds(r, m) <=> Holds(q, m) /\ m # n
         /\ \A m \in Node : Single(q, m) => Single(r, m)
<1>1. \A i \in DOMAIN q : q[i] \in Task
  OBVIOUS
<1>2. DOMAIN r = DOMAIN q /\ \A i \in DOMAIN q : r[i] = Orphan(q[i], n) /\ r[i] \in Task
  BY <1>1, Orphaned
<1>3. r \in Seq(Task)
  <2>1. Len(q) \in Nat /\ DOMAIN q = 1..Len(q)
    OBVIOUS
  <2>2. r \in [1..Len(q) -> Task]
    BY <1>2, <2>1
  <2> QED
    BY <2>1, <2>2
<1>4. \A i \in DOMAIN q, m \in Node : r[i].node = m <=> q[i].node = m /\ m # n
  BY <1>1, <1>2, Orphaned
<1> QED
  BY <1>1, <1>2, <1>3, <1>4 DEF Holds, Single

\* Eviction keeps the invariant.
LEMMA EvictStep ==
  ASSUME PIInv, IInv', TypeOK', NEW n \in Node, EvictNode(n)
  PROVE  PIInv'
<1> DEFINE S2 == [at : {"put", "wait"}, task : Task]
           SH == [at : {"tagged", "written"}, task : Task]
<1>1. /\ JudgeType /\ FlagType /\ Good /\ Entry /\ Seen /\ Skips /\ TypeOK /\ Places
  BY TypeParts DEF PIInv, IInv
<1>2. /\ vis' = [vis EXCEPT ![n] = "absent"] /\ perm' = [perm EXCEPT ![n] = FALSE]
      /\ pc' = [t \in Thread |-> IF at[t] = n THEN "idle" ELSE pc[t]]
      /\ at' = [t \in Thread |-> IF at[t] = n THEN NoNode ELSE at[t]]
      /\ \A m \in Node : parent[m] # n
      /\ queue' = [s \in Stage |-> [i \in DOMAIN queue[s] |-> Orphan(queue[s][i], n)]]
      /\ second' = IF second = Idle THEN second ELSE [second EXCEPT !.task = Orphan(@, n)]
      /\ hand' = [d \in Detector |-> IF hand[d] = Idle THEN Idle
                                     ELSE [hand[d] EXCEPT !.task = Orphan(@, n)]]
      /\ prompt' = [prompt EXCEPT ![n] = NoPrompt] /\ need' = [need EXCEPT ![n] = TRUE]
      /\ tag' = [tag EXCEPT ![n] = 1] /\ parent' = [parent EXCEPT ![n] = NoNode]
      /\ skipped' = skipped \ {n} /\ halves' = halves \ {n}
      /\ UNCHANGED <<threads, half, asked, replies, cache, available, alive>>
  BY DEF EvictNode, Evict
<1>3. /\ vis'[n] = "absent" /\ perm'[n] = FALSE
      /\ \A m \in Node : m # n => vis'[m] = vis[m] /\ perm'[m] = perm[m]
  BY <1>1, <1>2 DEF TypeOK
<1>4. /\ prompt' \in [Node -> Prompt \cup {NoPrompt}] /\ tag' \in [Node -> {0, 1}]
      /\ \A m \in Node : m # n => tag'[m] = tag[m] /\ prompt'[m] = prompt[m]
      /\ skipped' \subseteq Node /\ halves' \subseteq Node
      /\ parent' \in [Node -> Node \cup {NoNode}] /\ parent'[n] = NoNode
      /\ \A m \in Node : m # n => parent'[m] = parent[m]
  BY <1>1, <1>2 DEF JudgeType
<1>5. need' \in [Node -> BOOLEAN] /\ \A m \in Node : m # n => need'[m] = need[m]
  BY <1>1, <1>2 DEF FlagType
<1>6. /\ queue' \in [Stage -> Seq(Task)]
      /\ \A s \in Stage : /\ DOMAIN queue'[s] = DOMAIN queue[s]
                          /\ \A i \in DOMAIN queue[s] :
                               queue[s][i] \in Task /\ queue'[s][i] = Orphan(queue[s][i], n)
                          /\ \A m \in Node : Holds(queue'[s], m) <=> Holds(queue[s], m) /\ m # n
                          /\ \A m \in Node : Single(queue[s], m) => Single(queue'[s], m)
  <2>1. ASSUME NEW s \in Stage
        PROVE  /\ queue'[s] \in Seq(Task) /\ DOMAIN queue'[s] = DOMAIN queue[s]
               /\ \A i \in DOMAIN queue[s] :
                    queue[s][i] \in Task /\ queue'[s][i] = Orphan(queue[s][i], n)
               /\ \A m \in Node : Holds(queue'[s], m) <=> Holds(queue[s], m) /\ m # n
               /\ \A m \in Node : Single(queue[s], m) => Single(queue'[s], m)
    <3>1. queue[s] \in Seq(Task) /\ queue'[s] = [i \in DOMAIN queue[s] |-> Orphan(queue[s][i], n)]
      BY <1>1, <1>2 DEF JudgeType
    <3> QED
      BY <3>1, OrphanedQueue
  <2> QED
    BY <1>2, <2>1
<1>7. /\ second' = Idle <=> second = Idle
      /\ second' \in {Idle} \cup S2
      /\ second # Idle => /\ second \in S2 /\ second.task \in Task /\ second'.at = second.at
                          /\ second'.task = Orphan(second.task, n)
                          /\ second'.task.text = second.task.text
  <2>1. CASE second = Idle
    BY <1>2, <2>1
  <2>2. CASE second # Idle
    <3>1. second \in S2 /\ second' = [second EXCEPT !.task = Orphan(@, n)]
      BY <1>1, <1>2, <2>2 DEF JudgeType
    <3>2. second.task \in Task
      BY <3>1
    <3>3. Orphan(second.task, n) \in Task /\ Orphan(second.task, n).text = second.task.text
      BY <3>2, Orphaned
    <3>4. second' \in S2 /\ second'.at = second.at /\ second'.task = Orphan(second.task, n)
      BY <3>1, <3>3
    <3> QED
      BY <2>2, <3>1, <3>2, <3>3, <3>4, Busy
  <2> QED
    BY <2>1, <2>2
<1>8. ASSUME NEW d \in Detector
      PROVE  /\ hand'[d] = Idle <=> hand[d] = Idle
             /\ hand'[d] \in {Idle} \cup SH
             /\ hand[d] # Idle => /\ hand[d] \in SH /\ hand[d].task \in Task
                                  /\ hand'[d].at = hand[d].at
                                  /\ hand'[d].task = Orphan(hand[d].task, n)
  <2>1. CASE hand[d] = Idle
    BY <1>2, <2>1
  <2>2. CASE hand[d] # Idle
    <3>1. hand[d] \in SH /\ hand'[d] = [hand[d] EXCEPT !.task = Orphan(@, n)]
      BY <1>1, <1>2, <2>2 DEF JudgeType
    <3>2. hand[d].task \in Task
      BY <3>1
    <3>3. Orphan(hand[d].task, n) \in Task
      BY <3>2, Orphaned
    <3>4. hand'[d] \in SH /\ hand'[d].at = hand[d].at /\ hand'[d].task = Orphan(hand[d].task, n)
      BY <3>1, <3>3
    <3> QED
      BY <2>2, <3>1, <3>2, <3>4, Busy
  <2> QED
    BY <2>1, <2>2
<1>9. /\ JudgeType' /\ FlagType' /\ HalfType' /\ ClientType'
      /\ available' \in BOOLEAN /\ alive' \in BOOLEAN
  <2>1. hand' \in [Detector -> {Idle} \cup SH]
    BY <1>2, <1>8
  <2>2. HalfType'
    BY <1>2, TypeParts DEF PIInv, HalfType
  <2> QED
    BY <1>2, <1>4, <1>5, <1>6, <1>7, <2>1, <2>2, ClientKept DEF JudgeType, FlagType
<1>10. ASSUME NEW m \in Node
       PROVE  /\ Unique(m)' /\ (Queued(m)' => Queued(m))
              /\ m # n => (Pending(m) => Pending(m)')
              /\ Pending(m)' => Pending(m)
              /\ \A d \in Detector : AtHand(d, m)' <=> AtHand(d, m) /\ m # n
  <2>1. Unique(m) /\ (AtTier2(m)' <=> AtTier2(m) /\ m # n)
    BY <1>7, Orphaned DEF PIInv, AtTier2
  <2>2. \A d \in Detector : AtHand(d, m)' <=> AtHand(d, m) /\ m # n
    BY <1>8, Orphaned DEF AtHand
  <2>3. Unique(m)'
    BY <1>6, <2>1, <2>2 DEF Unique
  <2> QED
    BY <1>6, <2>1, <2>2, <2>3 DEF Pending, Queued
<1>11. Good'
  <2>1. ASSUME NEW t \in Task, Owed(t)
        PROVE  Orphan(t, n).node \in Node =>
                 /\ vis'[Orphan(t, n).node] # "absent" /\ need'[Orphan(t, n).node]
                 /\ prompt'[Orphan(t, n).node] # NoPrompt
                 /\ Orphan(t, n).text = Line(prompt'[Orphan(t, n).node])
    <3> SUFFICES ASSUME Orphan(t, n).node \in Node
                 PROVE  /\ vis'[Orphan(t, n).node] # "absent" /\ need'[Orphan(t, n).node]
                        /\ prompt'[Orphan(t, n).node] # NoPrompt
                        /\ Orphan(t, n).text = Line(prompt'[Orphan(t, n).node])
      OBVIOUS
    <3>1. Orphan(t, n) = t /\ t.node # n /\ t.node \in Node
      BY Orphaned
    <3> QED
      BY <1>3, <1>4, <1>5, <2>1, <3>1 DEF Owed
  <2>2. ASSUME NEW s \in Stage, NEW i \in DOMAIN queue'[s]
        PROVE  Owed(queue[s][i])' /\ Screened(s, queue[s][i])'
    <3>1. /\ i \in DOMAIN queue[s] /\ queue[s][i] \in Task
          /\ queue'[s][i] = Orphan(queue[s][i], n)
      BY <1>6, <2>2
    <3>2. Owed(queue[s][i]) /\ Screened(s, queue[s][i])
      BY <1>1, <3>1 DEF Good
    <3>3. Owed(queue[s][i])'
      BY <2>1, <3>1, <3>2 DEF Owed
    <3>4. /\ queue'[s][i].text = queue[s][i].text
          /\ queue'[s][i].privacy = queue[s][i].privacy
      BY <3>1, Orphaned
    <3> QED
      BY <1>2, <3>2, <3>3, <3>4 DEF Screened
  <2>3. ASSUME second' # Idle
        PROVE  /\ Owed(second.task)' /\ Tier1[second'.task.text] = "miss"
               /\ second'.task.privacy /\ available'
    <3>1. /\ second.task \in Task /\ second'.task = Orphan(second.task, n)
          /\ Owed(second.task) /\ Tier1[second.task.text] = "miss"
          /\ second.task.privacy /\ available
      BY <1>1, <1>7, <2>3 DEF Good
    <3>2. Owed(second.task)'
      BY <2>1, <3>1 DEF Owed
    <3> QED
      BY <1>2, <3>1, <3>2, Orphaned
  <2>4. ASSUME NEW e \in Detector, hand'[e] # Idle
        PROVE  /\ Owed(hand[e].task)' /\ Cleared(hand'[e].task.text) /\ available'
               /\ e \in threads'
    <3>1. /\ hand[e].task \in Task /\ hand'[e].task = Orphan(hand[e].task, n)
          /\ Owed(hand[e].task) /\ Cleared(hand[e].task.text) /\ available
          /\ e \in threads
      BY <1>1, <1>8, <2>4 DEF Good
    <3>2. Owed(hand[e].task)'
      BY <2>1, <3>1 DEF Owed
    <3>3. hand'[e].task.node \in Node => hand'[e].task = hand[e].task /\ hand[e].task.node # n
      BY <3>1, Orphaned
    <3>4. hand'[e].task.text = hand[e].task.text
      BY <3>1, Orphaned
    <3> QED
      BY <1>2, <1>4, <3>1, <3>2, <3>3, <3>4
  <2> QED
    BY <2>2, <2>3, <2>4 DEF Good
<1>12. Entry'
  BY <1>1, <1>2, <1>7 DEF Entry
<1>13. /\ \A t \in Thread : pc'[t] # "idle" =>
            pc'[t] = pc[t] /\ at'[t] = at[t] /\ at[t] \in Node /\ at[t] # n
       /\ Lookup \subseteq Thread /\ Detector \subseteq Thread
  BY <1>1, <1>2 DEF Places, Thread
<1>14. Seen'
  <2>1. \A d \in Detector : pc'[d] = "private" =>
           hand'[d] # Idle /\ hand'[d].at = "tagged" /\ hand'[d].task.node = at'[d]
    <3> SUFFICES ASSUME NEW d \in Detector, pc'[d] = "private"
                 PROVE hand'[d] # Idle /\ hand'[d].at = "tagged" /\ hand'[d].task.node = at'[d]
      OBVIOUS
    <3>1. pc[d] = "private" /\ at'[d] = at[d] /\ at[d] \in Node /\ at[d] # n
      BY <1>13
    <3>2. hand[d] # Idle /\ hand[d].at = "tagged" /\ hand[d].task.node = at[d]
      BY <1>1, <3>1 DEF Seen
    <3> QED
      BY <1>8, <3>1, <3>2, Orphaned
  <2> QED
    BY <1>1, <1>3, <1>13, <2>1 DEF Seen
<1>15. ASSUME Screens PROVE Verdicts'
  <2>1. Verdicts
    BY <1>15 DEF PIInv
  <2>2. ASSUME NEW m \in Node
        PROVE  Verdict(m)'
    <3>1. CASE m = n
      <4>1. ~Queued(m)'
        BY <1>6, <1>7, <3>1, Orphaned DEF Queued, AtTier2
      <4> QED
        BY <1>2, <1>3, <3>1, <4>1 DEF Verdict
    <3>2. CASE m # n
      BY <1>2, <1>3, <1>4, <1>5, <1>10, <2>1, <3>2 DEF Verdicts, Verdict
    <3> QED
      BY <3>1, <3>2
  <2>3. /\ \A t \in Thread : pc'[t] = "exhausted" => vis'[at'[t]] = "exhausted_private"
        /\ \A e \in Detector : pc'[e] = "private" => vis'[at'[e]] = "private"
    BY <1>3, <1>13, <2>1 DEF Verdicts, Verdict
  <2> QED
    BY <1>2, <2>1, <2>2, <2>3 DEF Verdicts, Verdict
<1>16. Skips' /\ (Screens' <=> Screens)
  <2>1. Screens' <=> Screens
    BY <1>2 DEF Screens
  <2>2. ASSUME NEW m \in skipped'
        PROVE  /\ Screens' /\ parent'[m] \in Node /\ vis'[m] # "absent" /\ ~need'[m]
               /\ vis'[parent'[m]] # "absent" /\ ~need'[parent'[m]]
    <3>1. /\ m \in Node /\ m # n /\ Screens /\ parent[m] \in Node /\ vis[m] # "absent"
          /\ ~need[m] /\ vis[parent[m]] # "absent" /\ ~need[parent[m]] /\ parent'[m] = parent[m]
      BY <1>1, <1>2, <1>4, <2>2 DEF Skips, JudgeType
    <3>2. parent[m] # n
      BY <1>2, <3>1
    <3> QED
      BY <1>3, <1>4, <1>5, <2>1, <3>1, <3>2
  <2>3. \A m \in Node : parent'[m] \in Node => vis'[parent'[m]] # "absent"
    BY <1>1, <1>2, <1>3, <1>4, HitAssumption DEF Skips
  <2>4. \A t \in Lookup : pc'[t] # "split"
    <3> SUFFICES ASSUME NEW t \in Lookup, pc'[t] = "split" PROVE FALSE
      OBVIOUS
    <3>1. pc[t] = "split"
      BY <1>13
    <3>2. PICK u \in Lookup \cap threads : pc[u] = "idle"
      BY DEF EvictNode, Evict
    <3> QED
      BY <1>1, <3>1, <3>2 DEF Skips
  <2> QED
    BY <2>1, <2>2, <2>3, <2>4 DEF Skips
<1> QED
  BY <1>9, <1>10, <1>11, <1>12, <1>14, <1>15, <1>16, TypeParts DEF PIInv

\* What a lookup or a promoter may do to a node and the pipeline never notices.
LEMMA CacheRest ==
  ASSUME PIInv, IInv', TypeOK', Seen', UNCHANGED <<threads, judgeVars>>,
         \A n \in Node : vis'[n] = "absent" <=> vis[n] = "absent",
         Screens =>
            /\ \A n \in Node :
                 \/ vis'[n] = vis[n]
                 \/ /\ vis[n] \in {"budgeted_shared", "exhausted_private"}
                    /\ vis'[n] = "exhausted_private"
            /\ \A n \in Node : perm'[n] => vis'[n] = "exhausted_private"
            /\ \A t \in Thread : pc'[t] = "exhausted" => vis'[at'[t]] = "exhausted_private"
            /\ \A d \in Detector : pc'[d] = pc[d] /\ at'[d] = at[d] /\ (pc[d] # "idle" => at[d] \in Node),
         \A t \in Lookup : pc'[t] = "split" => pc[t] = "split" /\ at'[t] = at[t]
  PROVE  PIInv'
<1>1. UNCHANGED <<nodeVars, queue, asked, replies, cache, second, hand,
                  available, alive>>
  BY DEF judgeVars
<1>2. /\ JudgeType' /\ FlagType' /\ HalfType' /\ ClientType'
      /\ available' \in BOOLEAN /\ alive' \in BOOLEAN
  BY <1>1, TypeParts, ClientKept DEF PIInv, JudgeType, FlagType, HalfType
<1>3. ASSUME NEW m \in Node
      PROVE  Unique(m)' /\ (Queued(m)' <=> Queued(m)) /\ (Pending(m)' <=> Pending(m))
  <2>1. Unique(m)
    BY DEF PIInv
  <2> QED
    BY <1>1, <2>1 DEF Unique, Queued, Pending, AtTier2, AtHand
<1>4. Good' /\ Entry'
  BY <1>1 DEF PIInv, Good, Owed, Screened, Entry
<1>5. Screens' <=> Screens
  BY DEF Screens
<1>6. Skips'
  <2>1. JudgeType /\ Skips
    BY TypeParts DEF PIInv
  <2> QED
    BY <1>1, <2>1, SkipsKept
<1>7. ASSUME Screens PROVE Verdicts'
  <2>1. Verdicts
    BY <1>7 DEF PIInv
  <2>2. ASSUME NEW m \in Node
        PROVE  Verdict(m)'
    BY <1>1, <1>3, <1>7, <2>1 DEF Verdicts, Verdict
  <2>3. /\ \A e \in Detector : pc'[e] = "private" => vis'[at'[e]] = "private"
    BY <1>7, <2>1 DEF Verdicts, Verdict
  <2> QED
    BY <1>7, <2>1, <2>2, <2>3 DEF Verdicts, Verdict
<1> QED
  BY <1>2, <1>3, <1>4, <1>5, <1>6, <1>7, TypeParts DEF PIInv

\* A lookup starts on a node that is shared, a promoter on one that is private.
LEMMA VisibleStep ==
  ASSUME PIInv, IInv', TypeOK', NEW t \in Lookup, NEW n \in Node, VisibleTo(t, n),
         UNCHANGED judgeVars
  PROVE  PIInv'
<1>1. /\ Seen /\ TypeOK /\ Places /\ t \in Thread /\ t \notin Detector
      /\ Lookup \subseteq Thread /\ Detector \subseteq Thread
  BY HitAssumption DEF PIInv, IInv, Thread
<1>2. /\ UNCHANGED <<threads, vis, perm>> /\ hand' = hand /\ vis[n] = "budgeted_shared"
      /\ pc' = [pc EXCEPT ![t] = "visible"] /\ at' = [at EXCEPT ![t] = n]
  BY DEF VisibleTo, Start, judgeVars
<1>3. /\ pc'[t] = "visible" /\ at'[t] = n
      /\ \A u \in Thread : u # t => pc'[u] = pc[u] /\ at'[u] = at[u]
  BY <1>1, <1>2 DEF TypeOK
<1>4. Seen'
  BY <1>1, <1>2, <1>3 DEF Seen
<1>5. \A d \in Detector : pc'[d] = pc[d] /\ at'[d] = at[d] /\ (pc[d] # "idle" => at[d] \in Node)
  BY <1>1, <1>3 DEF Places
<1>6. Screens => Verdicts
  BY DEF PIInv
<1>7. \A u \in Lookup : pc'[u] = "split" => pc[u] = "split" /\ at'[u] = at[u]
  BY <1>1, <1>3
<1> QED
  BY <1>1, <1>2, <1>3, <1>4, <1>5, <1>6, <1>7, CacheRest DEF Verdicts, Verdict

\* The start of a promotion keeps the invariant.
LEMMA PromoteStep ==
  ASSUME PIInv, IInv', TypeOK', NEW t \in Promoter, NEW n \in Node, PromoteLocks(t, n),
         UNCHANGED judgeVars
  PROVE  PIInv'
<1>1. /\ Seen /\ TypeOK /\ t \in Thread /\ t \notin Detector /\ t \notin Lookup
      /\ t \in threads /\ Lookup \subseteq Thread /\ Detector \subseteq Thread
  BY HitAssumption DEF PIInv, IInv, Thread, PromoteLocks
<1>2. /\ UNCHANGED <<threads, vis, perm>> /\ hand' = hand
      /\ pc' = [pc EXCEPT ![t] = IF charged[edge[n]] >= B THEN "deny" ELSE "promote"]
      /\ at' = [at EXCEPT ![t] = n]
  BY DEF PromoteLocks, Start, judgeVars
<1>3. /\ pc'[t] \in {"deny", "promote"} /\ at'[t] = n
      /\ \A u \in Thread : u # t => pc'[u] = pc[u] /\ at'[u] = at[u]
  BY <1>1, <1>2 DEF TypeOK
<1>4. Seen'
  BY <1>1, <1>2, <1>3 DEF Seen
<1>5. ~Screens
  BY <1>1 DEF PIInv, Verdicts
<1>6. \A u \in Lookup : pc'[u] = "split" => pc[u] = "split" /\ at'[u] = at[u]
  BY <1>1, <1>3
<1> QED
  BY <1>2, <1>4, <1>5, <1>6, CacheRest

\* What a step inside a lookup or promotion does to the node and to permanently_private.
LEMMA AdvanceEffect ==
  ASSUME PIInv, NEW t \in Thread, t \notin Detector, Advance(t)
  PROVE  /\ pc[t] # "idle" /\ at[t] \in Node /\ t \in threads
         /\ vis[at[t]] # "absent" /\ threads' = threads
         /\ \A u \in Thread : u # t => pc'[u] = pc[u] /\ at'[u] = at[u]
         /\ pc'[t] # "idle" => at'[t] = at[t]
         /\ pc[t] # "split" /\ pc'[t] # "split"
         /\ \/ /\ UNCHANGED <<vis, perm>> /\ pc'[t] \notin {"exhausted", "denied"}
            \/ /\ vis' = [vis EXCEPT ![at[t]] = "exhausted_private"] /\ perm' = perm
               /\ pc[t] \in {"last", "refused", "deny"}
            \/ /\ vis' = [vis EXCEPT ![at[t]] = "budgeted_shared"] /\ perm' = perm
               /\ pc[t] \in {"private", "promote"} /\ pc'[t] = "idle"
            \/ /\ vis' = vis /\ perm' = [perm EXCEPT ![at[t]] = TRUE]
               /\ pc[t] \in {"exhausted", "denied"} /\ pc'[t] = "idle"
<1>1. TypeOK /\ Places
  BY DEF PIInv, IInv
<1>2. /\ pc[t] # "idle" /\ at[t] \in Node /\ t \in threads /\ vis[at[t]] # "absent"
      /\ pc[t] # "split"
  BY <1>1 DEF Places, Advance, CheckBudgeted, ReserveHit, ReserveDenied, ReserveServed,
        ReserveExhausts, MarkPermanent, DetectorWrites, PromoteShares, PromoteExhausts
<1>3. threads' = threads
  BY DEF Advance, CheckBudgeted, ReserveHit, ReserveDenied, ReserveServed,
        ReserveExhausts, MarkPermanent, DetectorWrites, PromoteShares, PromoteExhausts
<1> USE <1>1, <1>2, <1>3 DEF TypeOK, Goto, Return
<1>4. CASE CheckBudgeted(t)
  BY <1>4 DEF CheckBudgeted
<1>5. CASE ReserveHit(t)
  <2>1. /\ at' = at /\ UNCHANGED <<vis, perm>>
        /\ \E l \in {"lost", "charged", "last", "refused"} : pc' = [pc EXCEPT ![t] = l]
    BY <1>5 DEF ReserveHit
  <2> QED
    BY <2>1
<1>6. CASE ReserveDenied(t)
  BY <1>6 DEF ReserveDenied
<1>7. CASE ReserveServed(t)
  BY <1>7 DEF ReserveServed
<1>8. CASE ReserveExhausts(t)
  BY <1>8 DEF ReserveExhausts
<1>9. CASE MarkPermanent(t)
  BY <1>9 DEF MarkPermanent
<1>10. CASE DetectorWrites(t)
  BY <1>10 DEF DetectorWrites
<1>11. CASE PromoteShares(t)
  BY <1>11 DEF PromoteShares
<1>12. CASE PromoteExhausts(t)
  BY <1>12 DEF PromoteExhausts
<1> QED
  BY <1>4, <1>5, <1>6, <1>7, <1>8, <1>9, <1>10, <1>11, <1>12 DEF Advance

\* Every step of a scheduler or promoter thread keeps the invariant.
LEMMA CacheStepStep ==
  ASSUME PIInv, IInv', TypeOK', NEW t \in Thread, CacheStep(t)
  PROVE  PIInv'
<1> DEFINE n == at[t]
<1>0. t \notin Detector /\ Advance(t) /\ UNCHANGED judgeVars /\ hand' = hand
  BY DEF CacheStep, judgeVars
<1>1. /\ pc[t] # "idle" /\ n \in Node /\ t \in threads
      /\ vis[n] # "absent" /\ threads' = threads
      /\ \A u \in Thread : u # t => pc'[u] = pc[u] /\ at'[u] = at[u]
      /\ pc'[t] # "idle" => at'[t] = n
      /\ pc[t] # "split" /\ pc'[t] # "split"
      /\ \/ /\ UNCHANGED <<vis, perm>> /\ pc'[t] \notin {"exhausted", "denied"}
         \/ /\ vis' = [vis EXCEPT ![n] = "exhausted_private"] /\ perm' = perm
            /\ pc[t] \in {"last", "refused", "deny"}
         \/ /\ vis' = [vis EXCEPT ![n] = "budgeted_shared"] /\ perm' = perm
            /\ pc[t] \in {"private", "promote"} /\ pc'[t] = "idle"
         \/ /\ vis' = vis /\ perm' = [perm EXCEPT ![n] = TRUE]
            /\ pc[t] \in {"exhausted", "denied"} /\ pc'[t] = "idle"
  BY <1>0, AdvanceEffect
<1>2. /\ Seen /\ TypeOK /\ Places /\ Lookup \subseteq Thread /\ Detector \subseteq Thread
  BY DEF PIInv, IInv, Thread
<1>3. /\ \A u \in Thread : pc[u] # "idle" => at[u] \in Node
      /\ \A m \in Node : m # n => vis'[m] = vis[m] /\ perm'[m] = perm[m]
      /\ \/ vis'[n] = vis[n]
         \/ vis'[n] \in {"budgeted_shared", "exhausted_private"}
  BY <1>1, <1>2 DEF Places, TypeOK
<1>4. \A u \in Thread : pc'[u] # "idle" => at'[u] = at[u] /\ at[u] \in Node /\ pc[u] # "idle"
  BY <1>1, <1>3
<1>5. Seen'
  <2>1. \A m \in Node : vis'[m] = "private" => ~perm'[m]
    <3>1. CASE perm' = perm
      BY <1>2, <1>3, <3>1 DEF Seen
    <3>2. CASE vis' = vis /\ perm' = [perm EXCEPT ![n] = TRUE] /\ pc[t] \in {"exhausted", "denied"}
      BY <1>2, <1>3, <3>2 DEF Seen
    <3> QED
      BY <1>1, <3>1, <3>2
  <2>2. \A u \in Thread : pc'[u] \in {"exhausted", "denied"} => vis'[at'[u]] # "private"
    <3> SUFFICES ASSUME NEW u \in Thread, pc'[u] \in {"exhausted", "denied"}
                 PROVE  vis'[at'[u]] # "private"
      OBVIOUS
    <3>1. CASE u = t
      <4>1. vis' = [vis EXCEPT ![n] = "exhausted_private"] /\ at'[u] = n
        BY <1>1, <3>1
      <4> QED
        BY <1>1, <1>2, <4>1 DEF TypeOK
    <3>2. CASE u # t
      BY <1>1, <1>2, <1>3, <1>4, <3>2 DEF Seen
    <3> QED
      BY <3>1, <3>2
  <2>3. \A u \in Lookup : pc'[u] \notin {"idle", "split"} =>
          vis'[at'[u]] \in {"budgeted_shared", "exhausted_private"}
    BY <1>1, <1>2, <1>3, <1>4 DEF Seen
  <2>4. \A d \in Detector : pc'[d] = "private" =>
          hand'[d] # Idle /\ hand'[d].at = "tagged" /\ hand'[d].task.node = at'[d]
    BY <1>0, <1>1, <1>2 DEF Seen
  <2> QED
    BY <2>1, <2>2, <2>3, <2>4 DEF Seen
<1>6. ASSUME Screens
      PROVE  /\ \A m \in Node :
                  \/ vis'[m] = vis[m]
                  \/ /\ vis[m] \in {"budgeted_shared", "exhausted_private"}
                     /\ vis'[m] = "exhausted_private"
             /\ \A m \in Node : perm'[m] => vis'[m] = "exhausted_private"
             /\ \A u \in Thread : pc'[u] = "exhausted" => vis'[at'[u]] = "exhausted_private"
  <2>1. Verdicts /\ t \in Lookup
    BY <1>0, <1>1, <1>6 DEF PIInv, Verdicts, Verdict, Thread
  <2>2. /\ vis[n] \in {"budgeted_shared", "exhausted_private"}
        /\ pc[t] \notin {"deny", "denied", "private", "promote"}
    BY <1>1, <1>2, <2>1 DEF Seen, Places
  <2>3. /\ pc'[t] # "exhausted" \/ vis'[n] = "exhausted_private"
        /\ \/ UNCHANGED <<vis, perm>>
           \/ vis' = [vis EXCEPT ![n] = "exhausted_private"] /\ perm' = perm
           \/ /\ vis' = vis /\ perm' = [perm EXCEPT ![n] = TRUE]
              /\ pc[t] = "exhausted"
    BY <1>1, <1>2, <2>2 DEF TypeOK
  <2>4. \A m \in Node :
                  \/ vis'[m] = vis[m]
                  \/ /\ vis[m] \in {"budgeted_shared", "exhausted_private"}
                     /\ vis'[m] = "exhausted_private"
    BY <1>1, <1>2, <2>2, <2>3 DEF TypeOK
  <2>5. \A m \in Node : perm'[m] => vis'[m] = "exhausted_private"
    <3>1. CASE perm' = perm
      BY <2>1, <2>4, <3>1 DEF Verdicts, Verdict
    <3>2. CASE vis' = vis /\ perm' = [perm EXCEPT ![n] = TRUE] /\ pc[t] = "exhausted"
      BY <1>2, <2>1, <3>2 DEF Verdicts, Verdict, TypeOK
    <3> QED
      BY <2>3, <3>1, <3>2
  <2>6. \A u \in Thread : pc'[u] = "exhausted" => vis'[at'[u]] = "exhausted_private"
    <3> SUFFICES ASSUME NEW u \in Thread, pc'[u] = "exhausted"
                 PROVE  vis'[at'[u]] = "exhausted_private"
      OBVIOUS
    <3>1. CASE u = t
      BY <1>1, <2>3, <3>1
    <3>2. CASE u # t
      BY <1>1, <1>4, <2>1, <2>4, <3>2 DEF Verdicts, Verdict
    <3> QED
      BY <3>1, <3>2
  <2> QED
    BY <2>4, <2>5, <2>6
<1>7. \A d \in Detector : pc'[d] = pc[d] /\ at'[d] = at[d] /\ (pc[d] # "idle" => at[d] \in Node)
  BY <1>0, <1>1, <1>2, <1>3
<1>8. \A m \in Node : vis'[m] = "absent" <=> vis[m] = "absent"
  BY <1>1, <1>3
<1>9. \A u \in Lookup : pc'[u] = "split" => pc[u] = "split" /\ at'[u] = at[u]
  BY <1>1, <1>2
<1> QED
  BY <1>0, <1>1, <1>5, <1>6, <1>7, <1>8, <1>9, CacheRest
-----------------------------------------------------------------------------
(* _split_node: the copy, and the new half. *)

\* Copying the fields touches no node, and the copy of a skipped node waits for
\* nothing.
LEMMA CopyStep ==
  ASSUME PIInv, IInv', TypeOK', NEW t \in Lookup,
         (\E n \in Node : CopyTag(t, n)) \/ CopyNeed(t)
  PROVE  PIInv'
<1>1. /\ JudgeType /\ FlagType /\ Good /\ Entry /\ Seen /\ Skips /\ TypeOK /\ Places
      /\ Lookup \subseteq Thread /\ Detector \subseteq Thread /\ t \notin Detector
  BY TypeParts, HitAssumption DEF PIInv, IInv, Thread
<1>2. UNCHANGED <<threads, vis, perm, parent, prompt, need, tag, skipped, halves, queue,
                  asked, replies, cache, second, hand, available, alive>>
  BY DEF CopyTag, SplitBegins, CopyNeed, vars
<1>3. /\ pc'[t] = "split" /\ at'[t] \in Node
      /\ \A u \in Thread : u # t => pc'[u] = pc[u] /\ at'[u] = at[u]
      /\ \A u \in Lookup \cap threads : u = t
  <2>1. CASE CopyNeed(t)
    BY <1>1, <2>1 DEF CopyNeed, vars, Places, Skips
  <2>2. CASE \E n \in Node : CopyTag(t, n)
    BY <1>1, <2>2 DEF CopyTag, SplitBegins, Start, TypeOK
  <2> QED
    BY <2>1, <2>2
<1>4. HalfType'
  <2>1. tag \in [Node -> {0, 1}] /\ need \in [Node -> BOOLEAN] /\ HalfType
    BY TypeParts DEF PIInv, JudgeType, FlagType
  <2>2. CASE CopyNeed(t)
    <3>1. /\ half.at = "tag" /\ half' = [half EXCEPT !.at = "need", !.need = need[at[t]]]
          /\ at[t] \in Node
      BY <1>1, <2>2 DEF CopyNeed, Places
    <3>2. half \in [at : {"tag", "need"}, tag : {0, 1}, need : BOOLEAN]
      BY <2>1, <3>1, Busy DEF HalfType
    <3> QED
      BY <2>1, <3>1, <3>2 DEF HalfType
  <2>3. CASE \E n \in Node : CopyTag(t, n)
    BY <2>1, <2>3 DEF CopyTag, HalfType
  <2> QED
    BY <2>2, <2>3
<1>5. JudgeType' /\ FlagType' /\ ClientType' /\ available' \in BOOLEAN /\ alive' \in BOOLEAN
  BY <1>1, <1>2, ClientKept DEF JudgeType, FlagType
<1>6. ASSUME NEW m \in Node
      PROVE  Unique(m)' /\ (Queued(m)' <=> Queued(m)) /\ (Pending(m)' <=> Pending(m))
  <2>1. Unique(m)
    BY DEF PIInv
  <2> QED
    BY <1>2, <2>1 DEF Unique, Queued, Pending, AtTier2, AtHand
<1>7. Good' /\ Entry'
  BY <1>1, <1>2 DEF Good, Owed, Screened, Entry
<1>8. Seen'
  BY <1>1, <1>2, <1>3 DEF Seen
<1>9. Screens => Verdicts'
  <2> SUFFICES ASSUME Screens PROVE Verdicts'
    OBVIOUS
  <2>1. Verdicts
    BY DEF PIInv
  <2>2. \A m \in Node : Verdict(m)'
    BY <1>2, <1>6, <2>1 DEF Verdicts, Verdict
  <2>3. /\ \A u \in Thread : pc'[u] = "exhausted" => vis'[at'[u]] = "exhausted_private"
        /\ \A d \in Detector : pc'[d] = "private" => vis'[at'[d]] = "private"
    BY <1>1, <1>2, <1>3, <2>1 DEF Verdicts
  <2> QED
    BY <1>2, <2>1, <2>2, <2>3 DEF Verdicts
<1>10. Skips' /\ (Screens' <=> Screens)
  <2>1. half'.at = "need" /\ at'[t] \in skipped => ~half'.need
    <3>1. CASE CopyNeed(t)
      <4>1. at' = at /\ half.at = "tag" /\ half' = [half EXCEPT !.at = "need", !.need = need[at[t]]]
        BY <3>1 DEF CopyNeed, vars
      <4>2. half \in [at : {"tag", "need"}, tag : {0, 1}, need : BOOLEAN]
        BY <4>1, TypeParts, Busy DEF PIInv, HalfType
      <4>3. half'.need = need[at[t]]
        BY <4>1, <4>2
      <4> QED
        BY <1>1, <4>1, <4>3 DEF Skips
    <3>2. CASE \E n \in Node : CopyTag(t, n)
      BY <3>2 DEF CopyTag
    <3> QED
      BY <3>1, <3>2
  <2>2. \A u \in Lookup : pc'[u] = "split" => u = t
    <3> SUFFICES ASSUME NEW u \in Lookup, pc'[u] = "split", u # t PROVE FALSE
      OBVIOUS
    <3>1. pc[u] = "split" /\ u \in threads
      BY <1>1, <1>3 DEF Places
    <3> QED
      BY <1>3, <3>1
  <2>3. Screens' <=> Screens
    BY <1>2 DEF Screens
  <2> QED
    BY <1>1, <1>2, <1>3, <2>1, <2>2, <2>3 DEF Skips
<1> QED
  BY <1>4, <1>5, <1>6, <1>7, <1>8, <1>9, <1>10, TypeParts DEF PIInv

\* The new half has the prompt of the node and no task; it is shared only if the
\* node is.
LEMMA LinkHalfStep ==
  ASSUME PIInv, IInv', TypeOK', NEW t \in Lookup, NEW u \in Node, LinkHalf(t, u)
  PROVE  PIInv'
<1> DEFINE n == at[t]
<1>1. /\ JudgeType /\ FlagType /\ HalfType /\ Good /\ Entry /\ Seen /\ Skips /\ TypeOK /\ Places
      /\ Lookup \subseteq Thread /\ Detector \subseteq Thread /\ t \notin Detector
  BY TypeParts, HitAssumption DEF PIInv, IInv, Thread
<1>2. /\ half.at = "need" /\ pc[t] = "split" /\ vis[u] = "absent"
      /\ vis' = [vis EXCEPT ![u] = vis[n]] /\ perm' = [perm EXCEPT ![u] = perm[n]]
      /\ pc' = [pc EXCEPT ![t] = "idle"] /\ at' = [at EXCEPT ![t] = NoNode]
      /\ tag' = [tag EXCEPT ![u] = half.tag] /\ need' = [need EXCEPT ![u] = half.need]
      /\ prompt' = [prompt EXCEPT ![u] = prompt[n]]
      /\ parent' = [parent EXCEPT ![u] = parent[n], ![n] = u]
      /\ skipped' = (IF n \in skipped THEN skipped \cup {u} ELSE skipped)
      /\ halves' = halves \cup {u} /\ half' = Idle
      /\ UNCHANGED <<threads, queue, asked, replies, cache, second, hand, available, alive>>
  BY DEF LinkHalf, SplitLinks, Return
<1>3. /\ n \in Node /\ vis[n] # "absent" /\ n # u /\ t \in threads
  BY <1>1, <1>2 DEF Places
<1> HIDE DEF n
<1>4. /\ vis'[u] = vis[n] /\ perm'[u] = perm[n]
      /\ \A m \in Node : m # u => vis'[m] = vis[m] /\ perm'[m] = perm[m]
  BY <1>1, <1>2, <1>3 DEF TypeOK
<1>5. half.tag \in {0, 1} /\ half.need \in BOOLEAN
  BY <1>1, <1>2, Busy DEF HalfType
<1>6. /\ need'[u] = half.need /\ need' \in [Node -> BOOLEAN]
      /\ \A m \in Node : m # u => need'[m] = need[m]
  BY <1>1, <1>2, <1>5 DEF FlagType
<1>7. /\ prompt'[u] = prompt[n] /\ \A m \in Node : m # u => prompt'[m] = prompt[m]
      /\ parent'[u] = parent[n] /\ parent'[n] = u
      /\ \A m \in Node : m # u /\ m # n => parent'[m] = parent[m]
  BY <1>1, <1>2, <1>3 DEF JudgeType
<1>8. /\ JudgeType' /\ FlagType' /\ HalfType' /\ ClientType'
      /\ available' \in BOOLEAN /\ alive' \in BOOLEAN
  BY <1>1, <1>2, <1>3, <1>5, <1>6, ClientKept DEF JudgeType, FlagType, HalfType
<1>9. ASSUME NEW m \in Node
      PROVE  /\ Unique(m)' /\ (Queued(m)' <=> Queued(m)) /\ (Pending(m)' <=> Pending(m))
             /\ m = u => ~Pending(m)
  <2>1. Unique(m)
    BY DEF PIInv
  <2>2. /\ \A s \in Stage : ~Holds(queue[s], u)
        /\ ~AtTier2(u) /\ \A d \in Detector : ~AtHand(d, u)
    BY <1>1, <1>2 DEF Good, Owed, Holds, AtTier2, AtHand
  <2> QED
    BY <1>2, <2>1, <2>2 DEF Unique, Queued, Pending, AtTier2, AtHand
<1>10. Good' /\ Entry'
  <2>1. ASSUME NEW k, Owed(k)
        PROVE  k.node \in Node => /\ vis'[k.node] # "absent" /\ need'[k.node]
                                  /\ prompt'[k.node] # NoPrompt
                                  /\ k.text = Line(prompt'[k.node])
    BY <1>2, <1>4, <1>6, <1>7, <2>1 DEF Owed
  <2>2. /\ \A s \in Stage : \A i \in DOMAIN queue[s] : Owed(queue[s][i])'
        /\ second # Idle => Owed(second.task)'
        /\ \A d \in Detector : hand[d] # Idle => Owed(hand[d].task)'
    BY <1>1, <1>2, <2>1 DEF Good, Owed
  <2>3. Entry'
    BY <1>1, <1>2 DEF Entry
  <2> QED
    BY <1>1, <1>2, <2>2, <2>3 DEF Good, Screened
<1>11. /\ pc'[t] = "idle" /\ \A v \in Thread : v # t => pc'[v] = pc[v] /\ at'[v] = at[v]
       /\ \A v \in Thread : pc[v] # "idle" => at[v] \in Node /\ vis'[at[v]] = vis[at[v]]
  BY <1>1, <1>2, <1>4 DEF TypeOK, Places
<1>12. Seen'
  <2>1. \A m \in Node : vis'[m] = "private" => ~perm'[m]
    BY <1>1, <1>3, <1>4 DEF Seen
  <2> QED
    BY <1>1, <1>2, <1>11, <2>1 DEF Seen
<1>13. Screens => Verdicts'
  <2> SUFFICES ASSUME Screens PROVE Verdicts'
    OBVIOUS
  <2>1. Verdicts
    BY DEF PIInv
  <2>2. ASSUME NEW m \in Node PROVE Verdict(m)'
    <3>1. CASE m = u
      <4>1. Verdict(n)
        BY <1>3, <2>1 DEF Verdicts
      <4>2. ~Pending(m)' /\ ~Queued(m)' /\ m \in halves'
        BY <1>2, <1>9, <3>1 DEF Pending
      <4> QED
        BY <1>2, <1>3, <1>4, <1>7, <3>1, <4>1, <4>2 DEF Verdict
    <3>2. CASE m # u
      <4>1. m \in halves' <=> m \in halves
        BY <1>2, <3>2
      <4> QED
        BY <1>2, <1>4, <1>6, <1>7, <1>9, <2>1, <3>2, <4>1 DEF Verdicts, Verdict
    <3> QED
      BY <3>1, <3>2
  <2>3. /\ \A v \in Thread : pc'[v] = "exhausted" => vis'[at'[v]] = "exhausted_private"
        /\ \A d \in Detector : pc'[d] = "private" => vis'[at'[d]] = "private"
    BY <1>1, <1>11, <2>1 DEF Verdicts
  <2> QED
    BY <1>2, <2>1, <2>2, <2>3 DEF Verdicts
<1>14. Skips' /\ (Screens' <=> Screens)
  <2>1. Screens' <=> Screens
    BY <1>2 DEF Screens
  <2>2. /\ \A m \in skipped : m \in Node /\ m # u
        /\ \A m \in Node : parent[m] # u
    BY <1>1, <1>2 DEF Skips, JudgeType
  <2>3. n \in skipped => ~half.need
    BY <1>1, <1>2 DEF Skips, n
  <2>4. ASSUME NEW m \in skipped'
        PROVE  /\ Screens' /\ parent'[m] \in Node /\ vis'[m] # "absent" /\ ~need'[m]
               /\ vis'[parent'[m]] # "absent" /\ ~need'[parent'[m]]
    <3>1. CASE m = u
      <4>1. /\ n \in skipped /\ Screens /\ parent[n] \in Node /\ vis[parent[n]] # "absent"
            /\ ~need[parent[n]] /\ parent[n] # u
        BY <1>1, <1>2, <1>3, <2>2, <2>4, <3>1 DEF Skips
      <4> QED
        BY <1>3, <1>4, <1>6, <1>7, <2>1, <2>3, <3>1, <4>1
    <3>2. CASE m = n
      <4>1. n \in skipped /\ Screens /\ ~need[n]
        BY <1>1, <1>2, <1>3, <2>4, <3>2 DEF Skips
      <4> QED
        BY <1>3, <1>4, <1>6, <1>7, <2>1, <2>3, <3>2, <4>1
    <3>3. CASE m # u /\ m # n
      <4>1. /\ m \in Node /\ Screens /\ parent[m] \in Node /\ vis[m] # "absent" /\ ~need[m]
            /\ vis[parent[m]] # "absent" /\ ~need[parent[m]] /\ parent[m] # u
        BY <1>1, <1>2, <2>2, <2>4, <3>3 DEF Skips
      <4> QED
        BY <1>4, <1>6, <1>7, <2>1, <3>3, <4>1
    <3> QED
      BY <3>1, <3>2, <3>3
  <2>5. ASSUME NEW m \in Node, parent'[m] \in Node PROVE vis'[parent'[m]] # "absent"
    <3>1. CASE m = u
      BY <1>1, <1>3, <1>4, <1>7, <2>2, <2>5, <3>1 DEF Skips
    <3>2. CASE m = n
      BY <1>3, <1>4, <1>7, <3>2
    <3>3. CASE m # u /\ m # n
      BY <1>1, <1>4, <1>7, <2>2, <2>5, <3>3 DEF Skips
    <3> QED
      BY <3>1, <3>2, <3>3
  <2>6. \A v \in Lookup : pc'[v] # "split"
    <3> SUFFICES ASSUME NEW v \in Lookup, pc'[v] = "split" PROVE FALSE
      OBVIOUS
    <3>1. v # t /\ pc[v] = "split"
      BY <1>1, <1>11
    <3>2. v \in threads
      BY <1>1, <3>1 DEF Places
    <3> QED
      BY <1>1, <1>2, <3>1, <3>2 DEF Skips
  <2> QED
    BY <2>1, <2>4, <2>5, <2>6 DEF Skips
<1> QED
  BY <1>8, <1>9, <1>10, <1>12, <1>13, <1>14, TypeParts DEF PIInv
-----------------------------------------------------------------------------
(* The invariant, and what it says of the pipeline. *)

\* The invariant is inductive.
LEMMA PStep == PIInv /\ [PNext]_pvars => PIInv'
<1> SUFFICES ASSUME PIInv, [PNext]_pvars PROVE PIInv'
  OBVIOUS
<1>1. IInv' /\ TypeOK'
  BY HitKept
<1>2. CASE UNCHANGED pvars
  <2>1. UNCHANGED <<vars, nodeVars, queue, asked, replies, cache, second,
                    hand, available, alive>>
    BY <1>2 DEF pvars, judgeVars
  <2>2. /\ JudgeType' /\ ClientType' /\ alive' \in BOOLEAN
    BY <2>1, TypeParts, ClientKept DEF PIInv, JudgeType
  <2>3. Good' /\ Entry'
    BY <2>1 DEF PIInv, Good, Owed, Screened, Entry, vars
  <2>4. ASSUME NEW n \in Node
        PROVE  Unique(n)' /\ (Queued(n)' <=> Queued(n)) /\ (Pending(n)' <=> Pending(n))
    <3>1. Unique(n)
      BY DEF PIInv
    <3> QED
      BY <2>1, <3>1 DEF Unique, Queued, Pending, AtTier2, AtHand
  <2> QED
    BY <2>1, <2>2, <2>3, <2>4, JudgeRest
<1>3. ASSUME NEW w \in Inserts, InsertNode(w[1], w[2], w[3], w[4]) PROVE PIInv'
  <2>1. /\ w[1] \in Node /\ w[2] \in Node \cup {NoNode} /\ w[3] \in Edge
        /\ w[4] \in Prompt \cup {NoPrompt}
    BY PipelineAssumption
  <2> QED
    BY <1>1, <1>3, <2>1, InsertStep
<1>4. CASE \E n \in Node : EvictNode(n)
  BY <1>1, <1>4, EvictStep
<1>5. CASE ProcessRequest \/ FirstLevel \/ SecondLevel \/ MakeEntry \/ SecondCollects
           \/ ModelServes \/ HandleResponse \/ ProcessResult
  BY <1>5, ProcessRequestStep, FirstLevelStep, SecondLevelStep, EntryStep, CollectStep,
     ProcessResultStep
<1>6. CASE \E d \in Detector : Respond(d)
  BY <1>1, <1>6, TakeVerdictStep, TestVisibilityStep, WriteVisibilityStep, ClearNeedStep
     DEF Respond
<1>7. CASE \E t \in Thread : CacheStep(t)
  BY <1>1, <1>7, CacheStepStep
<1>8. CASE \E t \in Lookup, n \in Node : VisibleTo(t, n) /\ UNCHANGED judgeVars
  BY <1>1, <1>8, VisibleStep
<1>9. CASE \E p \in Promoter, n \in Node : PromoteLocks(p, n) /\ UNCHANGED judgeVars
  BY <1>1, <1>9, PromoteStep
<1>10. CASE \E t \in Lookup, n \in Node : CopyTag(t, n)
  BY <1>1, <1>10, CopyStep
<1>11. CASE \E t \in Lookup : SplitStep(t)
  BY <1>1, <1>11, CopyStep, LinkHalfStep DEF SplitStep
<1> QED
  BY <1>2, <1>3, <1>4, <1>5, <1>6, <1>7, <1>8, <1>9, <1>10, <1>11 DEF PNext

\* The invariant holds in every reachable state.
LEMMA PInvariant == PSpec => []PIInv
  BY InitPIInv, PStep, PTL DEF PSpec

\* Whatever the tiers, the model's thread and the detectors do, and in whatever
\* order, a node sees only what BalancedHit's detector does to it.
THEOREM PipelineImplementsHit == PSpec => ImplementsHit
<1>1. PInit => Init
  BY DEF PInit
<1>2. PIInv /\ [PNext]_pvars => [Next]_vars
  BY StepImplementsHit
<1> QED
  BY <1>1, <1>2, PInvariant, PTL DEF PSpec, ImplementsHit, Spec

\* So the server, with its judge, serves a fingerprint at most B times.
THEOREM PipelineNeverOvershoots == PSpec => []SchedulerKeepsBudget
  BY PipelineImplementsHit, SchedulerNeverOvershoots, PTL DEF ImplementsHit

\* _response_task: "Permanently private nodes are never re-promoted", with and
\* without detectors.
THEOREM PipelineNeverRepromotes == PSpec => []NeverRepromoted
<1>1. PIInv /\ (Detector \cap threads = {} => NeverRepromoted) => NeverRepromoted
  BY DEF PIInv, Screens, Verdicts, Verdict, NeverRepromoted
<1>2. PSpec => [](Detector \cap threads = {} => NeverRepromoted)
  BY PipelineImplementsHit, DemotionIsFinal, PTL DEF ImplementsHit
<1> QED
  BY <1>1, <1>2, PInvariant, PTL

\* PrivateJudgeService: in the server a node is shared, or was, only if both tiers
\* cleared its own line and the model was there to say so.
THEOREM SharedAfterBothTiers == PSpec => []SharedOnlyIfCleared
<1>1. PIInv => SharedOnlyIfCleared
  BY DEF PIInv, Screens, Verdicts, Verdict, SharedOnlyIfCleared
<1> QED
  BY <1>1, PInvariant, PTL

\* A parent whose privacy a node inherited is shared by no step: it waits for no
\* verdict, so no detector has it in hand, and nobody promotes it.
LEMMA InheritedKept ==
  ASSUME PIInv, PNext, NEW n \in skipped, n \in skipped', vis[parent[n]] = "private"
  PROVE  vis'[parent[n]] = "private"
<1> DEFINE m == parent[n]
<1>1. /\ JudgeType /\ Good /\ Seen /\ Skips /\ TypeOK /\ Places /\ Screens /\ Verdicts
      /\ m \in Node /\ ~need[m] /\ vis[m] = "private" /\ n \in Node
  BY TypeParts DEF PIInv, IInv, Skips, JudgeType
<1> HIDE DEF m
<1>2. \A t \in Lookup : pc[t] \notin {"idle", "split"} => at[t] # m
  BY <1>1 DEF Seen
<1>3. \A d \in Detector : pc[d] = "private" => at[d] # m
  BY <1>1 DEF Seen, Good, Owed
<1>4. CASE UNCHANGED vis
  BY <1>1, <1>4
<1>5. ASSUME NEW w \in Inserts, InsertNode(w[1], w[2], w[3], w[4]) PROVE vis'[m] = "private"
  BY <1>1, <1>5 DEF InsertNode, Insert, TypeOK
<1>6. ASSUME NEW k \in Node, EvictNode(k) PROVE vis'[m] = "private"
  BY <1>1, <1>6 DEF EvictNode, Evict, TypeOK, m
<1>7. ASSUME NEW t \in Lookup, NEW u \in Node, LinkHalf(t, u) PROVE vis'[m] = "private"
  BY <1>1, <1>7 DEF LinkHalf, SplitLinks, TypeOK
<1>8. ASSUME NEW d \in Detector, WriteVisibility(d) PROVE vis'[m] = "private"
  BY <1>1, <1>3, <1>8 DEF WriteVisibility, DetectorWrites, TypeOK
<1>9. ASSUME NEW t \in Thread, CacheStep(t) PROVE vis'[m] = "private"
  <2>1. /\ t \notin Detector /\ t \in threads /\ pc[t] \notin {"idle", "split"}
        /\ at[t] \in Node
        /\ \/ vis' = vis
           \/ vis' = [vis EXCEPT ![at[t]] = "exhausted_private"]
           \/ vis' = [vis EXCEPT ![at[t]] = "budgeted_shared"]
    BY <1>9, AdvanceEffect DEF CacheStep
  <2>2. t \in Lookup
    BY <1>1, <2>1 DEF Verdicts, Thread
  <2> QED
    BY <1>1, <1>2, <2>1, <2>2 DEF TypeOK
<1>10. \/ UNCHANGED vis
       \/ \E w \in Inserts : InsertNode(w[1], w[2], w[3], w[4])
       \/ \E k \in Node : EvictNode(k)
       \/ \E t \in Lookup, u \in Node : LinkHalf(t, u)
       \/ \E d \in Detector : WriteVisibility(d)
       \/ \E t \in Thread : CacheStep(t)
  <2>1. ASSUME \/ ProcessRequest \/ FirstLevel \/ SecondLevel \/ MakeEntry
               \/ SecondCollects \/ ModelServes \/ HandleResponse \/ ProcessResult
        PROVE  UNCHANGED vis
    BY <2>1 DEF ProcessRequest, FirstLevel, SecondLevel, MakeEntry, SecondCollects,
                ModelServes, HandleResponse, ProcessResult, vars
  <2>2. ASSUME NEW d \in Detector, TakeVerdict(d) \/ TestVisibility(d) \/ ClearNeed(d)
        PROVE  UNCHANGED vis
    BY <2>2 DEF TakeVerdict, TestVisibility, ClearNeed, vars
  <2>3. ASSUME NEW t \in Thread, NEW k \in Node,
               CopyTag(t, k) \/ CopyNeed(t) \/ VisibleTo(t, k) \/ PromoteLocks(t, k)
        PROVE  UNCHANGED vis
    BY <2>3 DEF CopyTag, SplitBegins, CopyNeed, VisibleTo, PromoteLocks, vars
  <2>4. Lookup \subseteq Thread /\ Promoter \subseteq Thread /\ m \in Node
    BY <1>1 DEF Thread
  <2> QED
    BY <2>1, <2>2, <2>3, <2>4 DEF PNext, SplitStep, Respond
<1> QED
  BY <1>4, <1>5, <1>6, <1>7, <1>8, <1>9, <1>10 DEF m

\* update_privacy: a node that is not screened because its parent is private and
\* does not wait keeps that parent private: no verdict on its way shares it later.
THEOREM InheritanceIsFinal == PSpec => InheritedStaysPrivate
<1>1. PIInv /\ [PNext]_pvars =>
        [\A n \in skipped \cap skipped' :
            vis[parent[n]] = "private" => vis'[parent[n]] = "private"]_pvars
  BY InheritedKept
<1> QED
  BY <1>1, PInvariant, PTL DEF PSpec, InheritedStaysPrivate

\* detect_privacy_sync, free_cache: the entry the tier 2 thread waits for, and
\* frees, is in response_cache, and no other.
THEOREM EntriesPresent == PSpec => []EntryPresent
<1>1. PIInv => EntryPresent
  <2> SUFFICES ASSUME PIInv PROVE EntryPresent
    OBVIOUS
  <2>1. Entry
    BY DEF PIInv
  <2>2. second.at = "wait" => second # Idle
    BY Busy
  <2>3. ASSUME NEW x \in Text, cache[x] # "missing" PROVE second # Idle /\ second.task.text = x
    BY <2>1, <2>3 DEF Entry
  <2> QED
    BY <2>1, <2>2, <2>3 DEF Entry, EntryPresent
<1> QED
  BY <1>1, PInvariant, PTL

\* Tasks are counted: none unless the node is pending, never two.
LEMMA CountTasks ==
  ASSUME PIInv, NEW n \in Node
  PROVE  Cardinality(TasksOf(n)) <= 1 /\ (TasksOf(n) = {} <=> ~Pending(n))
<1> DEFINE Q == UNION {{<<s, i>> : i \in {j \in DOMAIN queue[s] : queue[s][j].node = n}} :
                         s \in Stage}
           T == IF second # Idle /\ second.task.node = n THEN {<<"tier_2", 0>>} ELSE {}
           H == {<<"hand", d>> : d \in {d \in Detector : hand[d] # Idle /\ hand[d].task.node = n}}
<1>1. TasksOf(n) = Q \cup T \cup H
  BY DEF TasksOf
<1>2. Unique(n)
  BY DEF PIInv
<1>3. /\ Q = {} <=> \A s \in Stage : ~Holds(queue[s], n)
      /\ \A x, y \in Q : x = y
  <2>1. \A x \in Q : \E s \in Stage : \E i \in DOMAIN queue[s] :
          x = <<s, i>> /\ queue[s][i].node = n
    OBVIOUS
  <2>2. \A s \in Stage : \A i \in DOMAIN queue[s] : queue[s][i].node = n => <<s, i>> \in Q
    OBVIOUS
  <2>3. ASSUME NEW x \in Q, NEW y \in Q PROVE x = y
    <3>1. PICK s \in Stage : \E i \in DOMAIN queue[s] : x = <<s, i>> /\ queue[s][i].node = n
      BY <2>1
    <3>2. PICK i \in DOMAIN queue[s] : x = <<s, i>> /\ queue[s][i].node = n
      BY <3>1
    <3>3. PICK u \in Stage : \E j \in DOMAIN queue[u] : y = <<u, j>> /\ queue[u][j].node = n
      BY <2>1
    <3>4. PICK j \in DOMAIN queue[u] : y = <<u, j>> /\ queue[u][j].node = n
      BY <3>3
    <3>5. Holds(queue[s], n) /\ Holds(queue[u], n)
      BY <3>2, <3>4 DEF Holds
    <3>6. s = u
      BY <1>2, <3>5 DEF Unique
    <3>7. i = j
      BY <1>2, <3>2, <3>4, <3>6 DEF Unique, Single
    <3> QED
      BY <3>2, <3>4, <3>6, <3>7
  <2> HIDE DEF Q
  <2>4. Q = {} <=> \A s \in Stage : ~Holds(queue[s], n)
    BY <2>1, <2>2 DEF Holds
  <2> QED
    BY <2>3, <2>4
<1> HIDE DEF Q
<1>4. TasksOf(n) = {} <=> ~Pending(n)
  <2>1. H = {} <=> \A d \in Detector : ~AtHand(d, n)
    BY DEF AtHand
  <2>2. T = {} <=> ~AtTier2(n)
    BY DEF AtTier2
  <2> HIDE DEF H, T
  <2> QED
    BY <1>1, <1>3, <2>1, <2>2 DEF Pending, Queued
<1>5. /\ (\E s \in Stage : Holds(queue[s], n)) => T = {} /\ H = {}
      /\ AtTier2(n) => H = {}
      /\ \A x, y \in T : x = y
  BY <1>2 DEF Unique, AtTier2, AtHand
<1>6. \A x, y \in H : x = y
  <2>1. \A x \in H : \E d \in Detector : x = <<"hand", d>> /\ AtHand(d, n)
    BY DEF AtHand
  <2> HIDE DEF H
  <2>2. \A d, e \in Detector : AtHand(d, n) /\ AtHand(e, n) => d = e
    BY <1>2 DEF Unique
  <2> QED
    BY <2>1, <2>2
<1>7. \A x, y \in TasksOf(n) : x = y
  <2>1. Q # {} => T = {} /\ H = {}
    BY <1>3, <1>5
  <2>2. T # {} => H = {}
    BY <1>5 DEF AtTier2
  <2> HIDE DEF T, H
  <2> QED
    BY <1>1, <1>3, <1>5, <1>6, <2>1, <2>2
<1>8. CASE TasksOf(n) = {}
  BY <1>4, <1>8, FS_EmptySet
<1>9. CASE TasksOf(n) # {}
  <2>1. PICK x : TasksOf(n) = {x}
    BY <1>7, <1>9
  <2>2. Cardinality({x}) = 1
    BY FS_Singleton
  <2> QED
    BY <1>4, <2>1, <2>2
<1> QED
  BY <1>8, <1>9

\* _process_*_tasks, _response_task, _split_node: a node has at most one task on its
\* way, none once it has its verdict or is a half, and one that waits without a task
\* is a half or one on whose line tier 1 raised.
THEOREM OneTask == PSpec => []OneTaskUnlessSplit
<1>1. PIInv => OneTaskUnlessSplit
  <2> SUFFICES ASSUME PIInv, Screens, NEW n \in Node
               PROVE  /\ Cardinality(TasksOf(n)) <= 1
                      /\ vis[n] # "absent" /\ (~need[n] \/ n \in halves) => TasksOf(n) = {}
                      /\ vis[n] # "absent" /\ need[n] /\ TasksOf(n) = {} =>
                            n \in halves \/ Tier1[Line(prompt[n])] = "error"
    BY DEF OneTaskUnlessSplit, Screens
  <2>1. Cardinality(TasksOf(n)) <= 1 /\ (TasksOf(n) = {} <=> ~Pending(n))
    BY CountTasks
  <2>2. Pending(n) => need[n]
    <3>1. Good
      BY DEF PIInv
    <3>2. (\E s \in Stage : Holds(queue[s], n)) => need[n]
      BY <3>1 DEF Good, Owed, Holds
    <3>3. AtTier2(n) => need[n]
      BY <3>1 DEF Good, Owed, AtTier2
    <3>4. (\E d \in Detector : AtHand(d, n)) => need[n]
      BY <3>1 DEF Good, Owed, AtHand
    <3> QED
      BY <3>2, <3>3, <3>4 DEF Pending, Queued
  <2> QED
    BY <2>1, <2>2 DEF PIInv, Verdicts, Verdict
<1> QED
  BY <1>1, PInvariant, PTL

\* Every variable of the pipeline stays in its type.
THEOREM PipelineTypeCorrect == PSpec => []PTypeOK
  BY PInvariant, PTL DEF PIInv
=============================================================================
