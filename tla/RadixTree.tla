----------------------------- MODULE RadixTree ------------------------------
(***************************************************************************)
(* The radix tree of mem_cache/radix_cache.py as a value, and its helpers  *)
(* as operators.                                                           *)
(*                                                                         *)
(* A position is a pair <<ns, p>>: the namespace (a principal's private    *)
(* root or a public object's root) and a token prefix p.  A tree is        *)
(*   pos : position -> KV slot       (the values along the edges)          *)
(*   nd  : position -> [lock, vis]   (the nodes, named by where they end)  *)
(*   evictable, protected            (evictable_size_, protected_size_)    *)
(* A node keeps its end when it is split (the new node is the shorter      *)
(* half), so a position names the same TreeNode until it is evicted.       *)
(* creator_id is the namespace of a private node; permanently_private is   *)
(* set together with vis = "exhausted_private".                            *)
(***************************************************************************)
EXTENDS Naturals, Sequences, FiniteSets, FiniteSetsExt, SequencesExt, Functions

EmptyTree == [pos |-> <<>>, nd |-> <<>>, evictable |-> 0, protected |-> 0]

Take(p, n) == SubSeq(p, 1, n)

\* f extended, and where they meet overridden, by g (g @@ f).
Updated(f, g) ==
    [x \in DOMAIN f \cup DOMAIN g |-> IF x \in DOMAIN g THEN g[x] ELSE f[x]]

\* _key_match_page_size1: length of the longest common prefix.
KeyMatch(p, k) ==
    Max({n \in 0..Len(k) : n <= Len(p) /\ Take(p, n) = Take(k, n)})

Nodes(T, ns) == {x \in DOMAIN T.nd : x[1] = ns}

\* Where the edge of node x begins: the end of its parent.
ParentLen(T, x) ==
    Max({0} \cup {Len(y[2]) : y \in {z \in Nodes(T, x[1]) :
                                        IsStrictPrefix(z[2], x[2])}})

\* node.key and len(node.value)
Edge(T, x) == SubSeq(x[2], ParentLen(T, x) + 1, Len(x[2]))
Size(T, x) == Len(x[2]) - ParentLen(T, x)

\* The positions of node x's value.
Positions(T, x) == {<<x[1], Take(x[2], n)>> : n \in ParentLen(T, x) + 1 .. Len(x[2])}

\* The tokens the nodes of X hold.
SizeOf(T, X) == Cardinality(UNION {Positions(T, x) : x \in X})

\* x and its ancestors, up to but without the namespace root.
Lineage(T, x) == {y \in Nodes(T, x[1]) : IsPrefix(y[2], x[2])}

Descendants(T, x) == {y \in Nodes(T, x[1]) : IsStrictPrefix(x[2], y[2])}

-----------------------------------------------------------------------------
\* The children a walk for key passes through, the last one perhaps matched
\* only in part.
Route(T, ns, key) ==
    {x \in Nodes(T, ns) : ParentLen(T, x) < KeyMatch(x[2], key)}

\* Mutant: the new half starts unlocked.
Mut_Split(T, ns, p) ==
    IF p = <<>> \/ <<ns, p>> \in DOMAIN T.nd THEN T
    ELSE LET child == CHOOSE x \in Nodes(T, ns) :
                          IsPrefix(p, x[2]) /\ ParentLen(T, x) < Len(p)
         IN  [T EXCEPT !.nd = Updated(@, [x \in {<<ns, p>>} |->
                                             [T.nd[child] EXCEPT !.lock = 0]])]

\* _split_node: the new, shorter half inherits lock_ref and visibility.
Split(T, ns, p) ==
    IF p = <<>> \/ <<ns, p>> \in DOMAIN T.nd THEN T
    ELSE LET child == CHOOSE x \in Nodes(T, ns) :
                          IsPrefix(p, x[2]) /\ ParentLen(T, x) < Len(p)
         IN  [T EXCEPT !.nd = Updated(@, [x \in {<<ns, p>>} |-> T.nd[child]])]

\* total_prefix_length of _insert_helper.
InsertedPrefix(T, ns, key) ==
    Max({0} \cup {n \in 1..Len(key) : <<ns, Take(key, n)>> \in DOMAIN T.pos})

\* _insert_helper: split where the key leaves the tree, then hang the rest
\* below in nodes of at most chunk tokens.  vis is what a new node starts with.
InsertHelper(T, ns, key, value, chunk, vis) ==
    LET m == InsertedPrefix(T, ns, key)
        S == Split(T, ns, Take(key, m))
        ends == {n \in m + 1 .. Len(key) : n = Len(key) \/ (n - m) % chunk = 0}
    IN  [S EXCEPT
            !.pos = Updated(@, [x \in {<<ns, Take(key, n)>> : n \in m + 1 .. Len(key)} |->
                                  value[Len(x[2])]]),
            !.nd = Updated(@, [x \in {<<ns, Take(key, n)>> : n \in ends} |->
                                  [lock |-> 0, vis |-> vis]]),
            !.evictable = @ + (Len(key) - m)]

-----------------------------------------------------------------------------
\* Mutant: the sizes move on every lock, not only on the first.
Mut_IncLockRef(T, x) ==
    LET up == Lineage(T, x)
    IN  [T EXCEPT
            !.nd = [y \in DOMAIN T.nd |->
                       IF y \in up THEN [T.nd[y] EXCEPT !.lock = T.nd[y].lock + 1] ELSE T.nd[y]],
            !.evictable = @ - SizeOf(T, up),
            !.protected = @ + SizeOf(T, up)]

\* inc_lock_ref and dec_lock_ref: the whole lineage of the node.
IncLockRef(T, x) ==
    LET up == Lineage(T, x)
        moved == SizeOf(T, {y \in up : T.nd[y].lock = 0})
    IN  [T EXCEPT
            !.nd = [y \in DOMAIN T.nd |->
                       IF y \in up THEN [T.nd[y] EXCEPT !.lock = T.nd[y].lock + 1] ELSE T.nd[y]],
            !.evictable = @ - moved,
            !.protected = @ + moved]

DecLockRef(T, x) ==
    LET up == Lineage(T, x)
        moved == SizeOf(T, {y \in up : T.nd[y].lock = 1})
    IN  [T EXCEPT
            !.nd = [y \in DOMAIN T.nd |->
                       IF y \in up THEN [T.nd[y] EXCEPT !.lock = T.nd[y].lock - 1] ELSE T.nd[y]],
            !.evictable = @ + moved,
            !.protected = @ - moved]

-----------------------------------------------------------------------------
\* Mutant: evict does not skip locked leaves.
Mut_Evictable(T) == DOMAIN T.nd

\* Nodes evict can reach (_collect_leaves): unlocked, with nothing locked below.
Evictable(T) ==
    {x \in DOMAIN T.nd : \A y \in Descendants(T, x) \cup {x} : T.nd[y].lock = 0}

\* The sets of nodes evict(n) may remove: leaves first, a parent once it has
\* become a leaf, until n tokens are freed or no unlocked leaf is left.  The
\* heap's order by hit_count is abstracted to any order.
EvictChoices(T, n) ==
    LET all == Evictable(T)
    IN  IF n = 0 THEN {{}}
        ELSE IF SizeOf(T, all) <= n THEN {all}
        ELSE {D \in SUBSET all :
                 /\ \A x \in D : Descendants(T, x) \subseteq D
                 /\ SizeOf(T, D) >= n
                 /\ \E x \in D : /\ D \cap Lineage(T, x) = {x}
                                 /\ SizeOf(T, D \ {x}) < n}

\* _delete_leaf for every node of D.
Delete(T, D) ==
    [T EXCEPT !.nd = Restrict(@, DOMAIN @ \ D),
              !.pos = Restrict(@, DOMAIN @ \ UNION {Positions(T, x) : x \in D}),
              !.evictable = @ - SizeOf(T, D)]

\* The slots the nodes of D hold.
SlotsOf(T, D) == [x \in UNION {Positions(T, y) : y \in D} |-> T.pos[x]]
=============================================================================
