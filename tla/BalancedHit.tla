---------------------------- MODULE BalancedHit -----------------------------
(***************************************************************************)
(* One cross-tenant hit in Balanced mode, statement by statement: what     *)
(* _match_prefix_helper, _reserve_balanced_hit, promote_to_budgeted and    *)
(* the detector's _response_task read and write of a node, and when they   *)
(* hold its transition_lock.                                               *)
(*                                                                         *)
(* A node's edge (its tokens) stands for the fingerprint and so for the    *)
(* entry of the ledger: nodes with equal edges, in the trees of different  *)
(* owners or along one path, share one, and the halves of a split have     *)
(* their own.  The ledger's own methods are atomic (see DurableLedger).    *)
(* _visible_to reads visibility before permanently_private and the latter  *)
(* is never cleared, so its two reads are as good as one.                  *)
(*                                                                         *)
(* threads says which threads this process has: the server has one lookup  *)
(* thread, the scheduler, and one detector; exp2's race runs several       *)
(* lookups around a cache whose judge is a mock.                           *)
(***************************************************************************)
EXTENDS Naturals, Sequences, FiniteSets, FiniteSetsExt

CONSTANTS
    Lookup,     \* threads in match_prefix (the scheduler is one such thread)
    Detector,   \* threads in _response_task (the judge client has one)
    Promoter,   \* threads in promote_to_budgeted (a method nobody in src calls)
    Node,       \* resident nodes
    NoNode,
    Edge,       \* tokens of a node
    NoEdge,
    Deployment, \* the sets of threads a process may have
    B,          \* access_budget_B
    MaxServed   \* bound: hits served in a behaviour

Thread == Lookup \cup Detector \cup Promoter

ASSUME HitAssumption ==
    /\ B \in Nat \ {0} /\ MaxServed \in Nat
    /\ NoNode \notin Node /\ NoEdge \notin Edge
    /\ Edge \subseteq Seq(Nat) \ {<<>>}
    /\ Lookup \cap Detector = {} /\ Lookup \cap Promoter = {}
    /\ Detector \cap Promoter = {}
    /\ Deployment \subseteq SUBSET Thread

VARIABLES
    threads,  \* the threads of this process, fixed when it starts
    vis,      \* node.visibility
    edge,     \* node.key
    perm,     \* node.permanently_private
    holder,   \* holder[n]: the threads that hold transition_lock (one or none)
    charged,  \* charged[e]: the ledger's entry for e's fingerprint
    served,   \* history: served[e]: cross-tenant hits on nodes with edge e
    pc,       \* where each thread is
    at        \* the node it is working on

vars == <<threads, vis, edge, perm, holder, charged, served, pc, at>>

PC == {"idle", "visible", "reserve", "charged", "last", "refused", "exhausted",
       "lost", "split", "private", "promote", "deny", "denied"}

Init ==
    /\ threads \in Deployment
    /\ vis = [n \in Node |-> "absent"]
    /\ edge = [n \in Node |-> NoEdge]
    /\ perm = [n \in Node |-> FALSE]
    /\ holder = [n \in Node |-> {}]
    /\ charged = [e \in Edge |-> 0]
    /\ served = [e \in Edge |-> 0]
    /\ pc = [t \in Thread |-> "idle"]
    /\ at = [t \in Thread |-> NoNode]

\* The ways to split the tokens of a node in two.
Halves(e) == {h \in Edge \X Edge : h[1] \o h[2] = e}

Goto(t, l) == pc' = [pc EXCEPT ![t] = l] /\ UNCHANGED at
Return(t) == pc' = [pc EXCEPT ![t] = "idle"] /\ at' = [at EXCEPT ![t] = NoNode]
Start(t, n, l) == pc' = [pc EXCEPT ![t] = l] /\ at' = [at EXCEPT ![t] = n]

Acquire(t, n) == holder[n] = {} /\ holder' = [holder EXCEPT ![n] = {t}]
Release(n) == holder' = [holder EXCEPT ![n] = {}]

\* All hits served so far.
Hits == MapThenSumSet(LAMBDA e : served[e], Edge)

\* A cross-tenant hit on n's tokens is returned.
Serve(n) == served' = [served EXCEPT ![edge[n]] = @ + 1]

-----------------------------------------------------------------------------
\* The walk comes to node n of another owner and _visible_to lets it pass.
VisibleTo(t, n) ==
    /\ t \in threads /\ pc[t] = "idle"
    /\ vis[n] = "budgeted_shared" /\ ~perm[n] /\ Hits < MaxServed
    /\ Start(t, n, "visible")
    /\ UNCHANGED <<threads, vis, edge, perm, holder, charged, served>>

\* The walk reads visibility again: a node that is still budgeted must be paid
\* for, any other is served as it is.
CheckBudgeted(t) ==
    /\ pc[t] = "visible"
    /\ \/ vis[at[t]] = "budgeted_shared" /\ Goto(t, "reserve") /\ UNCHANGED served
       \/ vis[at[t]] # "budgeted_shared" /\ Return(t) /\ Serve(at[t])
    /\ UNCHANGED <<threads, vis, edge, perm, holder, charged>>

\* Mutant: an exhausted budget is not refused.
Mut_ReserveHit(t) ==
    /\ pc[t] = "reserve"
    /\ Acquire(t, at[t])
    /\ \/ /\ vis[at[t]] # "budgeted_shared"
          /\ Goto(t, "lost") /\ UNCHANGED charged
       \/ /\ vis[at[t]] = "budgeted_shared"
          /\ charged' = [charged EXCEPT ![edge[at[t]]] = @ + 1]
          /\ Goto(t, IF charged[edge[at[t]]] + 1 >= B THEN "last" ELSE "charged")
    /\ UNCHANGED <<threads, vis, edge, perm, served>>

\* _reserve_balanced_hit takes transition_lock, checks visibility and asks the
\* ledger (reserve_hit).
ReserveHit(t) ==
    /\ pc[t] = "reserve"
    /\ Acquire(t, at[t])
    /\ \/ /\ vis[at[t]] # "budgeted_shared"
          /\ Goto(t, "lost") /\ UNCHANGED charged
       \/ /\ vis[at[t]] = "budgeted_shared" /\ charged[edge[at[t]]] < B
          /\ charged' = [charged EXCEPT ![edge[at[t]]] = @ + 1]
          /\ Goto(t, IF charged[edge[at[t]]] + 1 >= B THEN "last" ELSE "charged")
       \/ /\ vis[at[t]] = "budgeted_shared" /\ charged[edge[at[t]]] >= B
          /\ Goto(t, "refused") /\ UNCHANGED charged
    /\ UNCHANGED <<threads, vis, edge, perm, served>>

\* It returns False because visibility changed before it had the lock.
ReserveDenied(t) ==
    /\ pc[t] = "lost"
    /\ Release(at[t])
    /\ Return(t)
    /\ UNCHANGED <<threads, vis, edge, perm, charged, served>>

\* Mutant: the lock is kept.
Mut_ReserveServed(t) ==
    /\ pc[t] = "charged"
    /\ Serve(at[t])
    /\ Return(t)
    /\ UNCHANGED <<threads, vis, edge, perm, holder, charged>>

\* It returns True with budget left.
ReserveServed(t) ==
    /\ pc[t] = "charged"
    /\ Release(at[t])
    /\ Serve(at[t])
    /\ Return(t)
    /\ UNCHANGED <<threads, vis, edge, perm, charged>>

\* Mutant: visibility is left as it was.
Mut_ReserveExhausts(t) ==
    /\ pc[t] \in {"last", "refused"}
    /\ IF pc[t] = "last" THEN Serve(at[t]) ELSE UNCHANGED served
    /\ Goto(t, "exhausted")
    /\ UNCHANGED <<threads, vis, edge, perm, holder, charged>>

\* The last hit, or a refused one: visibility first, permanently_private second.
ReserveExhausts(t) ==
    /\ pc[t] \in {"last", "refused"}
    /\ vis' = [vis EXCEPT ![at[t]] = "exhausted_private"]
    /\ IF pc[t] = "last" THEN Serve(at[t]) ELSE UNCHANGED served
    /\ Goto(t, "exhausted")
    /\ UNCHANGED <<threads, edge, perm, holder, charged>>

\* ... and the lock is released (promote_to_budgeted ends the same way).
MarkPermanent(t) ==
    /\ pc[t] \in {"exhausted", "denied"}
    /\ perm' = [perm EXCEPT ![at[t]] = TRUE]
    /\ Release(at[t])
    /\ Return(t)
    /\ UNCHANGED <<threads, vis, edge, charged, served>>

-----------------------------------------------------------------------------
\* _response_task, without the lock: the node is seen private ...
DetectorChecks(d, n) ==
    /\ d \in threads /\ pc[d] = "idle"
    /\ ~perm[n] /\ vis[n] = "private"
    /\ Start(d, n, "private")
    /\ UNCHANGED <<threads, vis, edge, perm, holder, charged, served>>

\* ... and made shareable.
DetectorWrites(d) ==
    /\ pc[d] = "private"
    /\ vis' = [vis EXCEPT ![at[d]] = "budgeted_shared"]
    /\ Return(d)
    /\ UNCHANGED <<threads, edge, perm, holder, charged, served>>

\* promote_to_budgeted: under the lock a private node is looked up in the ledger.
PromoteLocks(p, n) ==
    /\ p \in threads /\ pc[p] = "idle"
    /\ vis[n] = "private" /\ ~perm[n]
    /\ Acquire(p, n)
    /\ Start(p, n, IF charged[edge[n]] >= B THEN "deny" ELSE "promote")
    /\ UNCHANGED <<threads, vis, edge, perm, charged, served>>

\* Budget left: it becomes shareable.
PromoteShares(p) ==
    /\ pc[p] = "promote"
    /\ vis' = [vis EXCEPT ![at[p]] = "budgeted_shared"]
    /\ Release(at[p])
    /\ Return(p)
    /\ UNCHANGED <<threads, edge, perm, charged, served>>

\* None left: it becomes exhausted, then permanently private (MarkPermanent).
PromoteExhausts(p) ==
    /\ pc[p] = "deny"
    /\ vis' = [vis EXCEPT ![at[p]] = "exhausted_private"]
    /\ Goto(p, "denied")
    /\ UNCHANGED <<threads, edge, perm, holder, charged, served>>

\* _insert_helper makes a new node for the tokens.  Insertions and evictions are
\* made by a thread that looks up, never inside a lookup.
Insert(n, e) ==
    /\ \E t \in Lookup \cap threads : pc[t] = "idle"
    /\ vis[n] = "absent"
    /\ vis' = [vis EXCEPT ![n] = "private"]
    /\ edge' = [edge EXCEPT ![n] = e]
    /\ perm' = [perm EXCEPT ![n] = FALSE]
    /\ UNCHANGED <<threads, holder, charged, served, pc, at>>

\* The node is evicted; what a detector still writes goes to the dead object.
Evict(n) ==
    /\ \E t \in Lookup \cap threads : pc[t] = "idle"
    /\ vis[n] # "absent" /\ holder[n] = {}
    /\ \A t \in Lookup \cup Promoter : at[t] # n
    /\ vis' = [vis EXCEPT ![n] = "absent"]
    /\ edge' = [edge EXCEPT ![n] = NoEdge]
    /\ perm' = [perm EXCEPT ![n] = FALSE]
    /\ pc' = [t \in Thread |-> IF at[t] = n THEN "idle" ELSE pc[t]]
    /\ at' = [t \in Thread |-> IF at[t] = n THEN NoNode ELSE at[t]]
    /\ UNCHANGED <<threads, holder, charged, served>>

\* _split_node, called by a lookup or an insertion that ends inside node n.  The
\* detector writes to n meanwhile, without a lock, so the copy takes several steps.
\* Only the sole lookup thread splits: the script's racing threads look up whole
\* keys.
SplitBegins(t, n) ==
    /\ t \in threads /\ pc[t] = "idle"
    /\ \A u \in Lookup \cap threads : u = t
    /\ vis[n] # "absent" /\ Halves(edge[n]) # {}
    /\ \E u \in Node : vis[u] = "absent"
    /\ Start(t, n, "split")
    /\ UNCHANGED <<threads, vis, edge, perm, holder, charged, served>>

\* Visibility is the last field copied; the front half, u, goes between n and its
\* parent, and both have a new fingerprint.
SplitLinks(t, u) ==
    /\ pc[t] = "split" /\ vis[u] = "absent"
    /\ LET n == at[t]
       IN  /\ vis' = [vis EXCEPT ![u] = vis[n]]
           /\ perm' = [perm EXCEPT ![u] = perm[n]]
           /\ \E h \in Halves(edge[n]) :
                 edge' = [edge EXCEPT ![u] = h[1], ![n] = h[2]]
    /\ Return(t)
    /\ UNCHANGED <<threads, holder, charged, served>>

Advance(t) ==
    \/ CheckBudgeted(t) \/ ReserveHit(t) \/ ReserveDenied(t) \/ ReserveServed(t)
    \/ ReserveExhausts(t) \/ MarkPermanent(t)
    \/ DetectorWrites(t) \/ PromoteShares(t) \/ PromoteExhausts(t)

Next ==
    \/ \E t \in Thread : Advance(t)
    \/ \E t \in Lookup, n \in Node : VisibleTo(t, n)
    \/ \E d \in Detector, n \in Node : DetectorChecks(d, n)
    \/ \E p \in Promoter, n \in Node : PromoteLocks(p, n)
    \/ \E n \in Node : (\E e \in Edge : Insert(n, e)) \/ Evict(n)
    \/ \E t \in Lookup, n \in Node : SplitBegins(t, n) \/ SplitLinks(t, n)

Spec == Init /\ [][Next]_vars

-----------------------------------------------------------------------------
TypeOK ==
    /\ threads \in SUBSET Thread
    /\ vis \in [Node -> {"absent", "private", "budgeted_shared", "exhausted_private"}]
    /\ perm \in [Node -> BOOLEAN]
    /\ holder \in [Node -> SUBSET Thread]
    /\ edge \in [Node -> Edge \cup {NoEdge}]
    /\ charged \in [Edge -> Nat] /\ served \in [Edge -> Nat]
    /\ pc \in [Thread -> PC]
    /\ at \in [Thread -> Node \cup {NoNode}]

\* The server's deployment: one thread looks up and nobody calls
\* promote_to_budgeted.
OneLookup ==
    /\ \A t, u \in Lookup \cap threads : t = u
    /\ Promoter \cap threads = {}

\* A node in the tree has tokens; who works on a node is a thread of this process,
\* at a place of its own method, and the node is in the tree.
Places ==
    /\ \A n \in Node : vis[n] # "absent" => edge[n] \in Edge
    /\ \A t \in Thread : pc[t] # "idle" =>
          t \in threads /\ at[t] \in Node /\ vis[at[t]] # "absent"
    /\ \A d \in Detector : pc[d] \in {"idle", "private"}
    /\ \A t \in Lookup :
          pc[t] \in {"idle", "visible", "reserve", "charged", "last",
                    "refused", "exhausted", "lost", "split"}

\* Every hit served was charged exactly once.
Account ==
    /\ \A t \in Lookup : pc[t] = "visible" => vis[at[t]] = "budgeted_shared"
    /\ \A e \in Edge :
          charged[e] = IF \E t \in Lookup :
                             pc[t] \in {"charged", "last"} /\ edge[at[t]] = e
                       THEN served[e] + 1 ELSE served[e]

\* No interleaving charges more than the budget; and with one lookup thread and no
\* promoter a node seen shareable stays so until the walk has charged it
\* (_match_prefix_helper, _reserve_balanced_hit).
IInv == TypeOK /\ Places /\ (\A e \in Edge : charged[e] <= B) /\ (OneLookup => Account)

\* Who is inside a critical section holds the lock of its node alone, and
\* visibility is what it left there; permanently_private is only set on exhausted
\* nodes.
Sections ==
    /\ \A n \in Node : perm[n] => vis[n] = "exhausted_private"
    /\ \A t \in Thread :
          /\ pc[t] # "private"
          /\ pc[t] \in {"charged", "last", "refused", "exhausted", "lost",
                       "promote", "deny", "denied"} => holder[at[t]] = {t}
          /\ pc[t] \in {"promote", "deny"} => vis[at[t]] = "private"
          /\ pc[t] \in {"exhausted", "denied"} => vis[at[t]] = "exhausted_private"

\* Without a detector nobody writes visibility outside a critical section
\* (_reserve_balanced_hit, promote_to_budgeted).
LockInv == Detector \cap threads = {} => Sections

\* exp2_cumulative_ledger: "N threads race for the last budget slot; overshoot must
\* be 0".  It is not: _match_prefix_helper reads visibility twice, and a node that
\* another thread exhausts in between is served without being charged.
NoOvershoot == \A e \in Edge : served[e] <= B

\* _match_prefix_helper, _reserve_balanced_hit: in the server, where the scheduler
\* is the only thread that looks up, a fingerprint is served at most B times,
\* whoever owns the node, whatever the detector writes between the two reads and
\* however often nodes are split, evicted and cached again.
SchedulerKeepsBudget == OneLookup => NoOvershoot

\* _response_task: "Permanently private nodes are never re-promoted".
NeverRepromoted == \A n \in Node : perm[n] => vis[n] # "budgeted_shared"

\* _reserve_balanced_hit and promote_to_budgeted give transition_lock back on
\* every path: no thread that entered them is stuck.
ThreadsReturn == \A t \in Thread : pc[t] # "idle" ~> pc[t] = "idle"
=============================================================================
