----------------------------- MODULE RadixCache -----------------------------
(***************************************************************************)
(* The prefix cache of the scheduler process: RadixCache (radix_cache.py), *)
(* the token pool (TokenToKVPoolAllocator) and the requests that use them, *)
(* from admission (PrefillAdder, prepare_for_extend) through               *)
(* cache_unfinished_req and decoding to cache_finished_req or retraction.  *)
(*                                                                         *)
(* The scheduler is one thread (event_loop_normal); every call it makes on *)
(* the cache for a request or a batch is one step, and the orders in which *)
(* it may take requests from a queue or a batch are all allowed.           *)
(* page_size is 1; expiry and policy epoch of a public authorization are   *)
(* in PublicRegistry, here an authorization is good until it is revoked.   *)
(***************************************************************************)
EXTENDS RadixTree, TokenPool

CONSTANTS
    Mode,          \* safekv_mode: "strict" or "balanced"
    User,          \* principals (the private namespaces)
    NoUser,        \* a request without a bound principal
    Object,        \* public objects (the public namespaces)
    NoObject,      \* a request without an authorization
    PublicTokens,  \* PublicTokens[o]: the prefix object o authorizes
    Request,       \* request ids
    Meta,          \* Meta[q]: [user, prompt, auth, out]; out is max_new_tokens
    Token,         \* token ids
    ClipOut,       \* CLIP_MAX_NEW_TOKENS_ESTIMATION (4096)
    Slack,         \* what alloc_token_slots evicts beyond the need (2000)
    RetractSteps,  \* global_config.retract_decode_steps
    Chunk,         \* NUM_ of _insert_helper (1024)
    ChunkSizes,    \* the values of --chunked-prefill-size to consider
    FlushMidChunk, \* flush_cache may be called between two chunks
    B,             \* access_budget_B
    Watched        \* positions whose cross-tenant hits are counted (history)

ASSUME CacheAssumption ==
    /\ Mode \in {"strict", "balanced"}
    /\ Mode = "balanced" => \* "other principals" is at most one root
          IsFiniteSet(User) /\ Cardinality(User) <= 2
    /\ User \cap Object = {}
    /\ NoUser \notin User /\ NoObject \notin Object
    /\ \A o \in Object : PublicTokens[o] \in Seq(Nat)
    /\ Token \subseteq Nat
    /\ IsFiniteSet(Request)
    /\ \A q \in Request : /\ Meta[q].user \in User \cup {NoUser}
                          /\ Meta[q].prompt \in Seq(Nat)
                          /\ Meta[q].auth \in Object \cup {NoObject}
                          /\ Meta[q].out \in Nat \ {0}
    /\ NumSlots \in Nat \ {0} /\ Chunk \in Nat \ {0} /\ B \in Nat \ {0}
    /\ ChunkSizes \subseteq 1..NumSlots
    /\ ClipOut \in Nat /\ Slack \in Nat /\ RetractSteps \in Nat

VARIABLES
    tree,       \* the radix tree
    free,       \* free[s]: how often slot s is on the allocator's free list
    kv,         \* kv[s]: the token prefix whose KV slot s holds
    ledger,     \* the in-memory DurableLedger: fingerprint -> charged hits
    installed,  \* objects with a public root (public_tokens)
    revoked,    \* PublicRegistry._revoked_ids
    req,        \* req[q]: the request
    exposed,    \* history: cross-tenant hits on each position
    chunked_prefill_size  \* new prompt tokens of one batch, fixed at start

pools == <<free, kv>>
policy == <<ledger, installed, revoked, exposed, chunked_prefill_size>>
vars == <<tree, pools, policy, req>>

NoNode == <<NoObject, <<>>>>      \* self.root_node, or a namespace root

NewReq(q) ==
    [st   |-> "idle",          \* where the request is in its life
     ids  |-> Meta[q].prompt,  \* origin_input_ids + output_ids
     fill |-> 0,               \* len(fill_ids), from admission to prefill
     row  |-> <<>>,            \* its row of req_to_token
     plen |-> 0,               \* len(prefix_indices)
     last |-> NoNode]          \* last_node

\* "idle": not in the system (it may be submitted again); "waiting":
\* waiting_queue; "admitted": can_run_list; "prefill", "decode": in the forward
\* pass; "chunked": chunked_req after one of its chunks, "cached": once that chunk
\* is in the tree; "prefilled": last_batch; "running": running_batch;
\* "retracted": retracted_reqs; "lost": in no queue and no batch, yet not
\* answered.
Status == {"idle", "waiting", "admitted", "prefill", "chunked", "cached",
           "prefilled", "running", "decode", "retracted", "lost"}

Init ==
    /\ tree = EmptyTree
    /\ free = [s \in Slot |-> 1]
    /\ kv = [s \in Slot |-> <<>>]
    /\ ledger = <<>>
    /\ installed = {}
    /\ revoked = {}
    /\ req = [q \in Request |-> NewReq(q)]
    /\ exposed = <<>>
    /\ chunked_prefill_size \in ChunkSizes

-----------------------------------------------------------------------------
\* The part of the state that lookups and insertions change, as one value C.
Cache == [tree |-> tree, ledger |-> ledger, installed |-> installed]

\* DurableLedger.charged_hits, on a fingerprint of _node_fingerprint: the edge's
\* tokens (model, tokenizer and epoch are fixed).
ChargedHits(C, fp) == IF fp \in DOMAIN C.ledger THEN C.ledger[fp] ELSE 0

\* Mutant: Balanced mode shares every node, promoted or not.
Mut_VisibleTo(C, x, u) ==
    \/ C.tree.nd[x].vis = "verified_public"
    \/ x[1] = u
    \/ Mode = "balanced"

\* _visible_to: every public node, one's own nodes, budgeted nodes.
VisibleTo(C, x, u) ==
    \/ C.tree.nd[x].vis = "verified_public"
    \/ x[1] = u
    \/ Mode = "balanced" /\ C.tree.nd[x].vis = "budgeted_shared"

\* The nodes _match_prefix_helper must reserve a hit for.
MustReserve(C, x, u) ==
    Mode = "balanced" /\ C.tree.nd[x].vis = "budgeted_shared" /\ x[1] # u

\* What the ledger holds for node x when the walk along route comes to it: the
\* walk may have charged the same fingerprint for a node above.
ChargedAt(C, route, x, u) ==
    ChargedHits(C, Edge(C.tree, x))
      + Cardinality({y \in route : /\ IsStrictPrefix(y[2], x[2])
                                   /\ MustReserve(C, y, u)
                                   /\ Edge(C.tree, y) = Edge(C.tree, x)})

\* Mutant: one hit more than the budget.
Mut_Refused(C, route, x, u) ==
    MustReserve(C, x, u) /\ ChargedAt(C, route, x, u) > B

\* _reserve_balanced_hit(x) returns False.
Refused(C, route, x, u) ==
    MustReserve(C, x, u) /\ ChargedAt(C, route, x, u) >= B

\* _match_prefix_helper: the nodes of the route it comes to (every node above
\* let it through), and of these the ones it serves.
Reached(C, route, u) ==
    {x \in route : \A y \in route : IsStrictPrefix(y[2], x[2]) =>
                       VisibleTo(C, y, u) /\ ~Refused(C, route, y, u)}
Served(C, route, u) ==
    {x \in Reached(C, route, u) : VisibleTo(C, x, u) /\ ~Refused(C, route, x, u)}

\* _reserve_balanced_hit marks a node exhausted when the ledger refuses, and when
\* this hit was the last one of the budget.
Spent(C, route, paid, u) ==
    {x \in Reached(C, route, u) : Refused(C, route, x, u)}
      \cup {x \in paid : ChargedAt(C, route, x, u) + 1 >= B}

Exhaust(T, X) ==
    [T EXCEPT !.nd = [x \in DOMAIN T.nd |->
        IF x \in X THEN [T.nd[x] EXCEPT !.vis = "exhausted_private"] ELSE T.nd[x]]]

\* reserve_hit for every node of paid.
Charge(C, paid) ==
    Updated(C.ledger,
            [fp \in {Edge(C.tree, x) : x \in paid} |->
                ChargedHits(C, fp) + Cardinality({x \in paid : Edge(C.tree, x) = fp})])

\* What the walk returns: the tree split where the match ends, its length and
\* last node, and the positions served at a charge.
WalkResult(C, ns, key, len, paid, spent) ==
    [C |-> [C EXCEPT !.tree = Split(Exhaust(C.tree, spent), ns, Take(key, len)),
                     !.ledger = Charge(C, paid)],
     hits |-> {<<ns, Take(key, n)>> : n \in 1..len}
                 \cap UNION {Positions(C.tree, x) : x \in paid},
     len |-> len,
     last |-> IF len = 0 THEN NoNode ELSE <<ns, Take(key, len)>>]

WalkServed(C, ns, key, route, served, u) ==
    LET paid == {x \in served : MustReserve(C, x, u)}
    IN  WalkResult(C, ns, key,
                   Max({0} \cup {KeyMatch(x[2], key) : x \in served}),
                   paid, Spent(C, route, paid, u))

WalkRoute(C, ns, key, route, u) ==
    WalkServed(C, ns, key, route, Served(C, route, u), u)

\* _match_prefix_helper from the root of namespace ns.
Walk(C, ns, key, u) == WalkRoute(C, ns, key, Route(C.tree, ns, key), u)

-----------------------------------------------------------------------------
\* _install_authorization accepts an unrevoked manifest for exactly these tokens.
InstallOK(auth, tokens) ==
    /\ auth # NoObject /\ auth \notin revoked /\ PublicTokens[auth] = tokens

Install(C, auth) == [C EXCEPT !.installed = C.installed \cup {auth}]

\* Mutant: revocation is not looked at.
Mut_MatchingPublicRoot(C, key) ==
    LET matches == {o \in C.installed : IsPrefix(PublicTokens[o], key)}
    IN  {o \in matches : \A p \in matches : Len(PublicTokens[p]) <= Len(PublicTokens[o])}

\* _matching_public_root: an installed, unrevoked object that authorizes the
\* longest prefix of the key.
MatchingPublicRoot(C, key) ==
    LET matches == {o \in C.installed \ revoked : IsPrefix(PublicTokens[o], key)}
    IN  {o \in matches : \A p \in matches : Len(PublicTokens[p]) <= Len(PublicTokens[o])}

\* The namespaces match_prefix looks into, in this order: a public object, one's
\* own tree, in Balanced mode the other principal's.
SearchOrder(u, objects) ==
    (IF objects = {} THEN <<>> ELSE <<CHOOSE o \in objects : TRUE>>)
      \o <<u>>
      \o (IF Mode = "balanced" THEN SetToSeq(User \ {u}) ELSE <<>>)

\* The first namespace with a hit answers; those of final answer even without one.
FirstHit(walks, final) ==
    walks[Min({i \in DOMAIN walks :
                  walks[i].len > 0 \/ i \in final \/ i = Len(walks)})]

Walks(C, order, key, u) == [i \in DOMAIN order |-> Walk(C, order[i], key, u)]

MatchIn(C, u, key, final, objects) ==
    FirstHit(Walks(C, SearchOrder(u, objects), key, u), final)

\* match_prefix: a manifest just installed is final.
MatchPrefix(C, u, key, auth) ==
    IF key = <<>> \/ u = NoUser
    THEN [C |-> C, hits |-> {}, len |-> 0, last |-> NoNode]
    ELSE IF InstallOK(auth, key)
    THEN MatchIn(Install(C, auth), u, key, {1}, {auth})
    ELSE MatchIn(C, u, key, {}, MatchingPublicRoot(C, key))

\* The KV slots a match returns.
MatchedSlots(m) == [n \in 1..m.len |->
                       m.C.tree.pos[<<m.last[1], Take(m.last[2], n)>>]]

\* insert: under the authorization's object if it covers a prefix of the key
\* (only that prefix is kept), else under the principal's private root.
InsertPublic(q, key) ==
    LET a == Meta[q].auth
    IN  /\ a # NoObject
        /\ Len(PublicTokens[a]) <= Len(key)
        /\ InstallOK(a, Take(key, Len(PublicTokens[a])))

InsertIn(C, ns, key, value, vis) ==
    [C |-> [C EXCEPT !.tree = InsertHelper(C.tree, ns, key, value, Chunk, vis)],
     len |-> InsertedPrefix(C.tree, ns, key)]

\* Mutant: one private root for all principals.
Mut_Insert(C, q, key, value) ==
    InsertIn(C, CHOOSE u \in User : TRUE, key, value, "private")

Insert(C, q, key, value) ==
    IF Meta[q].user = NoUser THEN [C |-> C, len |-> 0]
    ELSE IF InsertPublic(q, key)
    THEN InsertIn(Install(C, Meta[q].auth), Meta[q].auth,
                  PublicTokens[Meta[q].auth], value, "verified_public")
    ELSE InsertIn(C, Meta[q].user, key, value, "private")

\* Count one more cross-tenant hit on each watched position of X (B + 1 stands
\* for more).
CountHits(f, X) ==
    Updated(f, [x \in X \cap Watched |-> IF x \notin DOMAIN f THEN 1
                   ELSE IF f[x] > B THEN f[x] ELSE f[x] + 1])

SetCache(C) ==
    tree' = C.tree /\ ledger' = C.ledger /\ installed' = C.installed

In(states) == {q \in Request : req[q].st \in states}

Merge(r) == [q \in Request |->
                IF r[q].st = "prefilled" THEN [r[q] EXCEPT !.st = "running"] ELSE r[q]]

\* The scheduler is at recv_requests, between two iterations of its loop.
Receiving == In({"admitted", "prefill", "cached", "decode", "retracted"}) = {}

-----------------------------------------------------------------------------
\* _add_request_to_queue
Arrive(q) ==
    /\ Receiving
    /\ req[q].st \in {"idle", "lost"}
    /\ req' = [req EXCEPT ![q].st = "waiting"]
    /\ UNCHANGED <<tree, pools, policy>>

\* abort_request for a request still (or again) in the waiting queue.  A running
\* one is marked to finish with its next token: see ProcessDecode.
AbortWaiting(q) ==
    /\ Receiving
    /\ req[q].st = "waiting"
    /\ req' = [req EXCEPT ![q] = NewReq(q)]
    /\ UNCHANGED <<tree, pools, policy>>

\* extend_input_len, and what _prefill_one_req adds to rem_total_token_offset:
\* a truncated prompt reserves nothing for its output yet.
ExtendLen(q) == req[q].fill - req[q].plen
Truncated(q) == req[q].fill < Len(req[q].ids)
NewTokens(q) == Min({Meta[q].out, ClipOut})

\* Mutant: the requests admitted before are forgotten.
Mut_TokenOffset == 0

TokenOffset ==
    Total([q \in In({"admitted"}) |->
              ExtendLen(q) + IF Truncated(q) THEN 0 ELSE NewTokens(q)])

\* Mutant: every request of the batch has the whole chunk to itself.
Mut_RemChunkTokens == chunked_prefill_size

\* What the new batch has to compute (log_input_tokens), and rem_chunk_tokens.
InputTokens == Total([q \in In({"admitted"}) |-> ExtendLen(q)])
RemChunkTokens == chunked_prefill_size - InputTokens

\* add_one_req, given the match, the tree with the matched node locked and the
\* room the request needs: it is admitted if there is room, cut where the chunk
\* is full.  The part of rem_total_token_offset that new_token_ratio scales is
\* any number >= 0.
AddMatched(q, m, locked, total) ==
    /\ exposed' = CountHits(exposed, m.hits)
    /\ \/ /\ RemChunkTokens > 0
          /\ total < Available(free) + m.C.tree.evictable
          /\ total <= Available(free) + locked.evictable
          /\ SetCache([m.C EXCEPT !.tree = locked])
          /\ req' = [req EXCEPT ![q].st = "admitted",
                                ![q].fill = Min({Len(req[q].ids), m.len + RemChunkTokens}),
                                ![q].row = MatchedSlots(m),
                                ![q].plen = m.len,
                                ![q].last = m.last]
       \/ \* NO_TOKEN or OTHER: not in this batch
          /\ SetCache(m.C)
          /\ UNCHANGED req

\* get_new_batch_prefill for one waiting request: init_next_round_input matches
\* all but the last token.
AddOneReq(q) ==
    /\ req[q].st = "waiting"
    /\ In({"prefill", "chunked", "cached", "decode", "retracted"}) = {}
    /\ \E m \in {MatchPrefix(Cache, Meta[q].user, Front(req[q].ids), Meta[q].auth)} :
       \E locked \in {IncLockRef(m.C.tree, m.last)} :
       \E total \in {Len(req[q].ids) - m.len + NewTokens(q) + TokenOffset} :
          AddMatched(q, m, locked, total)
    /\ UNCHANGED <<pools, revoked, chunked_prefill_size>>

\* add_chunked_req: the next chunk of the request goes first into the batch, on a
\* new row that starts with prefix_indices; the pool is not asked.
AddChunkedReq(q) ==
    /\ req[q].st = "cached"
    /\ req' = [req EXCEPT ![q].st = "admitted",
                          ![q].fill = Min({Len(req[q].ids), req[q].plen + chunked_prefill_size}),
                          ![q].row = Take(@, req[q].plen)]
    /\ UNCHANGED <<tree, pools, policy>>

\* The rows of a batch once the slots of new are dealt out in batch order.
Rows(order, need, new) ==
    [q \in DOMAIN need |->
        LET i == Min({k \in DOMAIN order : order[k] = q})
            before == Total([k \in 1..i - 1 |-> need[order[k]]])
        IN  req[q].row \o SubSeq(new, before + 1, before + need[q])]

\* The forward pass writes the KV of the positions added to the rows.
Forward(rows) ==
    [s \in Slot |->
        LET writes == {w \in (DOMAIN rows) \X (1..NumSlots) :
                          /\ w[2] > Len(req[w[1]].row) /\ w[2] <= Len(rows[w[1]])
                          /\ rows[w[1]][w[2]] = s}
        IN  IF writes = {} THEN kv[s]
            ELSE LET w == CHOOSE w \in writes : TRUE
                 IN  Take(req[w[1]].ids, w[2])]

\* The batch gets total slots of pool, in rows, and its forward pass runs; D is
\* what was evicted from tree T for it.
Launch(T, D, pool, total, rows, st) ==
    /\ tree' = Delete(T, D)
    /\ free' = AllocRest(pool, total)
    /\ kv' = Forget(Forward(rows), free')
    /\ req' = [q \in Request |->
                 IF q \in DOMAIN rows
                 THEN [req[q] EXCEPT !.row = rows[q], !.st = st]
                 ELSE IF req[q].st = "retracted"
                 THEN [req[q] EXCEPT !.st = "waiting"]
                 ELSE Merge(req)[q]]

\* alloc_token_slots for a batch, need[q] slots for request q, from tree T and
\* free list fr: evict if the pool is short, then extend the rows.
AllocTokenSlots(T, fr, need, st) ==
    \E total \in {Total(need)} :
    \E D \in EvictChoices(T, IF Available(fr) < total + Slack
                             THEN total + Slack ELSE 0) :
    \E pool \in {Freed(fr, SlotsOf(T, D))} :
        /\ Available(pool) >= total
        /\ \E rows \in {Rows(SetToSeq(DOMAIN need), need, AllocSeq(pool, total))} :
              Launch(T, D, pool, total, rows, st)

\* The prefill batch is launched (last_batch having joined running_batch).
PrepareForExtend ==
    /\ In({"admitted"}) # {}
    /\ AllocTokenSlots(tree, free, [q \in In({"admitted"}) |-> ExtendLen(q)], "prefill")
    /\ UNCHANGED policy

DecodeBatch == In({"prefilled", "running"})

\* check_decode_mem: the evictions it may make, and whether it then fails.
CheckDecodeMem ==
    LET n == Cardinality(DecodeBatch)
    IN  EvictChoices(tree, IF Available(free) < n THEN n ELSE 0)
DecodeMemFails(D) ==
    Available(Freed(free, SlotsOf(tree, D))) < Cardinality(DecodeBatch)

\* update_running_batch and the decode forward pass, for a batch that needs no
\* retraction.
PrepareForDecode ==
    /\ Receiving /\ In({"chunked"}) = {}
    /\ DecodeBatch # {}
    /\ \E D \in CheckDecodeMem :
          /\ ~DecodeMemFails(D)
          /\ AllocTokenSlots(Delete(tree, D), Freed(free, SlotsOf(tree, D)),
                             [q \in DecodeBatch |-> 1], "decode")
    /\ UNCHANGED policy

Monus(a, b) == IF a > b THEN a - b ELSE 0

\* The loop of retract_decode goes on for one more request.
RetractMore(fr, n) == n > 1 /\ Available(fr) < RetractSteps * n

\* One round of retract_decode for q, once D0 has been evicted: the slots beyond
\* the prefix are freed, the lock is released, and the newly evictable memory is
\* used at once.
RetractReq(q, D0) ==
    /\ \E T \in {DecLockRef(Delete(tree, D0), req[q].last)} :
       \E left \in {Freed(Freed(free, SlotsOf(tree, D0)),
                          SubSeq(req[q].row, req[q].plen + 1, Len(req[q].row)))} :
       \E D \in EvictChoices(T, Monus(RetractSteps * (Cardinality(DecodeBatch) - 1),
                                      Available(left))) :
          /\ tree' = Delete(T, D)
          /\ free' = Freed(left, SlotsOf(T, D))
    /\ kv' = Forget(kv, free')
    /\ req' = [Merge(req) EXCEPT ![q] = [NewReq(q) EXCEPT !.st = "retracted",
                                                      !.ids = req[q].ids]]

RetractDecode(q) ==
    /\ q \in DecodeBatch
    /\ In({"admitted", "prefill", "chunked", "cached", "decode"}) = {}
    /\ Cardinality(DecodeBatch) > 1
    /\ \E D0 \in IF Receiving THEN CheckDecodeMem ELSE {{}} :
        /\ IF Receiving THEN DecodeMemFails(D0)
                        ELSE RetractMore(free, Cardinality(DecodeBatch))
        /\ RetractReq(q, D0)
    /\ UNCHANGED policy

\* The rest of update_running_batch once retract_decode has returned: what it
\* retracted is queued again, the others decode.
PrepareForDecodeAfterRetract ==
    /\ In({"retracted"}) # {}
    /\ ~RetractMore(free, Cardinality(DecodeBatch))
    /\ AllocTokenSlots(tree, free, [q \in DecodeBatch |-> 1], "decode")
    /\ UNCHANGED policy

\* Mutant: the cached prefix the request started from is freed as well.
Mut_FreesPrefix_CacheFinishedReq(q) ==
    /\ \E i \in {Insert(Cache, q, req[q].ids, req[q].row)} :
        /\ SetCache([i.C EXCEPT !.tree = DecLockRef(@, req[q].last)])
        /\ free' = Freed(free, SubSeq(req[q].row, 1, i.len))
    /\ kv' = Forget(kv, free')
    /\ req' = [req EXCEPT ![q] = NewReq(q)]
    /\ UNCHANGED <<revoked, exposed, chunked_prefill_size>>

\* Mutant: the lock is not released.
Mut_KeepsLock_CacheFinishedReq(q) ==
    /\ \E i \in {Insert(Cache, q, req[q].ids, req[q].row)} :
        /\ SetCache(i.C)
        /\ free' = Freed(free, SubSeq(req[q].row, req[q].plen + 1, i.len))
    /\ kv' = Forget(kv, free')
    /\ req' = [req EXCEPT ![q] = NewReq(q)]
    /\ UNCHANGED <<revoked, exposed, chunked_prefill_size>>

\* cache_finished_req: everything but the last sampled token is cached.
CacheFinishedReq(q) ==
    /\ \E i \in {Insert(Cache, q, req[q].ids, req[q].row)} :
        /\ SetCache([i.C EXCEPT !.tree = DecLockRef(i.C.tree, req[q].last)])
        /\ free' = Freed(free, SubSeq(req[q].row, req[q].plen + 1, i.len))
    /\ kv' = Forget(kv, free')
    /\ req' = [req EXCEPT ![q] = NewReq(q)]
    /\ UNCHANGED <<revoked, exposed, chunked_prefill_size>>

FillIds(q) == Take(req[q].ids, req[q].fill)

\* Mutant: the row is not rewritten with the cached slots.
Mut_KeepsRow_CacheUnfinishedReq(q, after) ==
    /\ \E i \in {Insert(Cache, q, FillIds(q), req[q].row)} :
       \E m \in {MatchPrefix(i.C, Meta[q].user, FillIds(q), Meta[q].auth)} :
        /\ SetCache([m.C EXCEPT
                        !.tree = IncLockRef(DecLockRef(@, req[q].last), m.last)])
        /\ free' = Freed(free, SubSeq(req[q].row, req[q].plen + 1, i.len))
        /\ exposed' = CountHits(exposed, m.hits)
        /\ req' = [req EXCEPT ![q] = [after EXCEPT !.plen = m.len, !.last = m.last]]
    /\ kv' = Forget(kv, free')
    /\ UNCHANGED <<revoked, chunked_prefill_size>>

\* cache_unfinished_req, once fill_ids are inserted (i) and matched again (m):
\* free the duplicates and take over the cached slots and their lock.
CacheInserted(q, after, i, m) ==
    /\ SetCache([m.C EXCEPT !.tree = IncLockRef(DecLockRef(m.C.tree, req[q].last), m.last)])
    /\ free' = Freed(free, SubSeq(req[q].row, req[q].plen + 1, i.len))
    /\ exposed' = CountHits(exposed, m.hits)
    /\ req' = [req EXCEPT ![q] = [after EXCEPT
                 !.row = [n \in DOMAIN req[q].row |->
                             IF n \in req[q].plen + 1 .. m.len
                             THEN MatchedSlots(m)[n] ELSE req[q].row[n]],
                 !.plen = m.len,
                 !.last = m.last]]

\* after is the request apart from its row, prefix and node.
CacheUnfinishedReq(q, after) ==
    /\ \E i \in {Insert(Cache, q, FillIds(q), req[q].row)} :
       \E m \in {MatchPrefix(i.C, Meta[q].user, FillIds(q), Meta[q].auth)} :
          CacheInserted(q, after, i, m)
    /\ kv' = Forget(kv, free')
    /\ UNCHANGED <<revoked, chunked_prefill_size>>

OutLen(q) == Len(req[q].ids) - Len(Meta[q].prompt)

\* process_batch_result_prefill for one request: a truncated prompt samples
\* nothing, otherwise t is the sampled token.
ProcessPrefill(q) ==
    /\ req[q].st = "prefill"
    /\ \/ /\ Truncated(q)
          /\ req' = [req EXCEPT ![q].st = "chunked"]
          /\ UNCHANGED <<tree, pools, policy>>
       \/ ~Truncated(q) /\ CacheFinishedReq(q)
       \/ /\ ~Truncated(q)
          /\ OutLen(q) + 1 < Meta[q].out
          /\ \E t \in Token :
                CacheUnfinishedReq(q, [req[q] EXCEPT !.st = "prefilled", !.fill = 0,
                                                     !.ids = Append(@, t)])

\* get_next_batch_to_run begins by caching the chunk just prefilled.
CacheChunkedReq(q) ==
    /\ Receiving
    /\ req[q].st = "chunked"
    /\ CacheUnfinishedReq(q, [req[q] EXCEPT !.st = "cached"])

\* process_batch_result_decode for one request.
ProcessDecode(q) ==
    /\ req[q].st = "decode"
    /\ \/ CacheFinishedReq(q)
       \/ /\ OutLen(q) + 1 < Meta[q].out
          /\ \E t \in Token :
                req' = [req EXCEPT ![q].st = "running", ![q].ids = Append(@, t)]
          /\ UNCHANGED <<tree, pools, policy>>

-----------------------------------------------------------------------------
\* _response_task: the detector found node x not private.
DetectorPromotes(x) ==
    /\ Mode = "balanced"
    /\ tree.nd[x].vis = "private"
    /\ tree' = [tree EXCEPT !.nd[x].vis = "budgeted_shared"]
    /\ UNCHANGED <<pools, policy, req>>

\* promote_to_budgeted(u, "namespace-root"): every private node of u, unless the
\* ledger says its budget is gone.
PromoteToBudgeted(u) ==
    /\ Mode = "balanced"
    /\ \E x \in Nodes(tree, u) : tree.nd[x].vis = "private"
    /\ tree' = [tree EXCEPT !.nd = [x \in DOMAIN tree.nd |->
                   IF x[1] # u \/ tree.nd[x].vis # "private" THEN tree.nd[x]
                   ELSE [tree.nd[x] EXCEPT !.vis =
                           IF ChargedHits(Cache, Edge(tree, x)) >= B
                           THEN "exhausted_private" ELSE "budgeted_shared"]]]
    /\ UNCHANGED <<pools, policy, req>>

\* PublicRegistry.revoke
Revoke(o) ==
    /\ o \notin revoked
    /\ revoked' = revoked \cup {o}
    /\ UNCHANGED <<tree, pools, ledger, installed, exposed, chunked_prefill_size, req>>

\* flush_cache, when waiting_queue and running_batch are empty: RadixCache.reset
\* and the pools' clear; last_batch = None drops the requests in it.  A chunked
\* request in flight does not stop it and is not told.
FlushCache ==
    /\ Receiving
    /\ In({"waiting", "running"}) = {}
    /\ FlushMidChunk \/ In({"chunked"}) = {}
    /\ tree # EmptyTree
    /\ tree' = EmptyTree
    /\ free' = [s \in Slot |-> 1]
    /\ kv' = Forget(kv, free')
    /\ installed' = {}
    /\ revoked' = {}
    /\ req' = [q \in Request |->
                 IF req[q].st = "prefilled" THEN [NewReq(q) EXCEPT !.st = "lost"]
                 ELSE req[q]]
    /\ UNCHANGED <<ledger, exposed, chunked_prefill_size>>

Next ==
    \/ \E q \in Request :
        \/ Arrive(q)
        \/ AbortWaiting(q)
        \/ CacheChunkedReq(q)
        \/ AddChunkedReq(q)
        \/ AddOneReq(q)
        \/ ProcessPrefill(q)
        \/ ProcessDecode(q)
        \/ RetractDecode(q)
    \/ PrepareForExtend
    \/ PrepareForDecode
    \/ PrepareForDecodeAfterRetract
    \/ \E x \in DOMAIN tree.nd : DetectorPromotes(x)
    \/ \E u \in User : PromoteToBudgeted(u)
    \/ \E o \in Object : Revoke(o)
    \/ FlushCache

Spec == Init /\ [][Next]_vars

-----------------------------------------------------------------------------
Held == In({"admitted", "prefill", "chunked", "cached", "prefilled", "running",
            "decode"})

\* inc_lock_ref, dec_lock_ref, _split_node: a node's lock_ref is the number of
\* requests in flight that matched it or a node below it, and evictable_size_
\* and protected_size_, which PrefillAdder and check_memory rely on, are the
\* sizes of the unlocked and of the locked nodes.
LocksExact ==
    /\ \A x \in DOMAIN tree.nd :
          tree.nd[x].lock = Cardinality({q \in Held : x \in Lineage(tree, req[q].last)})
    /\ tree.evictable = SizeOf(tree, {x \in DOMAIN tree.nd : tree.nd[x].lock = 0})
    /\ tree.protected = SizeOf(tree, {x \in DOMAIN tree.nd : tree.nd[x].lock > 0})

\* check_memory ("token_to_kv_pool_allocator memory leak detected!") and the
\* allocator's debug assert: every slot has exactly one owner, be it the free
\* list, one position of the tree, or the uncached tail of one request.
SlotsPartitioned ==
    \A s \in Slot :
        free[s]
          + Cardinality({x \in DOMAIN tree.pos : tree.pos[x] = s})
          + Cardinality({h \in Held \X (1..NumSlots) :
                /\ h[2] > req[h[1]].plen /\ h[2] <= Len(req[h[1]].row)
                /\ req[h[1]].row[h[2]] = s})
        = 1

\* What a request in flight reads from its row is the KV of its own tokens (no
\* eviction, reuse or insertion by another request has changed it), and a hit
\* never returns KV of other tokens: each position of the tree holds the KV of
\* exactly that prefix.
KVIntact ==
    /\ \A q \in Held : \A i \in 1..Len(req[q].row) :
          /\ kv[req[q].row[i]] = Take(req[q].ids, i)
          /\ free[req[q].row[i]] = 0
    /\ \A x \in DOMAIN tree.pos : kv[tree.pos[x]] = x[2]

\* The prefix a request in flight uses stays in the tree, in locked nodes, so
\* evict cannot take it away (cache_unfinished_req: "reuse it").
PrefixPinned ==
    \A q \in Held : \A i \in 1..req[q].plen :
        LET x == <<req[q].last[1], Take(req[q].last[2], i)>>
        IN  /\ x \in DOMAIN tree.pos
            /\ tree.pos[x] = req[q].row[i]
            /\ \E y \in DOMAIN tree.nd : /\ x \in Positions(tree, y)
                                         /\ tree.nd[y].lock > 0

\* alloc_token_slots cannot fail for a batch PrefillAdder let in ("Prefill out of
\* memory", after which out_cache_loc is None): what it counted as evictable can
\* really be evicted.
AdmittedFits ==
    InputTokens <= Available(free) + SizeOf(tree, Evictable(tree))

\* retract_decode: "No space left for only one request" is never reached.
LastRequestFits ==
    Cardinality(DecodeBatch) = 1 /\ Receiving /\ In({"chunked"}) = {}
        => 1 <= Available(free) + SizeOf(tree, Evictable(tree))

\* get_new_batch_prefill's "assert self.chunked_req is None": only one prompt is
\* being prefilled in chunks at a time.
OneChunkedReq ==
    Cardinality({q \in In({"admitted", "prefill"}) : Truncated(q)}
                  \cup In({"chunked", "cached"})) <= 1

\* Strict mode (_private_root, insert, _visible_to; exp2: "Strict=0"): no slot is at
\* the same time in the row of one principal's request and in another principal's
\* row or tree.
TenantsDisjoint ==
    \A q \in Held : \A i \in 1..Len(req[q].row) :
        /\ \A p \in Held : Meta[p].user # Meta[q].user =>
              \A j \in 1..Len(req[p].row) : req[p].row[j] # req[q].row[i]
        /\ \A x \in DOMAIN tree.pos :
              tree.pos[x] = req[q].row[i] => x[1] = Meta[q].user

\* check_memory, run when the scheduler has nothing to do: what is free and what
\* can be evicted is the whole pool ("token_to_kv_pool_allocator memory leak
\* detected!").
CheckMemory ==
    In(Status \ {"idle"}) = {} => Available(free) + tree.evictable = NumSlots

\* _matching_public_root and install: no request is given a node of an object
\* that is revoked at that moment.
RevokedUnserved ==
    [][\A q \in Request :
          req'[q].last \notin {req[q].last, NoNode}
              => req'[q].last[1] \notin revoked]_vars

\* _visible_to: "a denied probe cannot mutate another principal's tree or take a
\* partial hit": a lookup changes nothing about a node its requester may not see,
\* neither where it begins, nor its lock or visibility, and it is not part of
\* the prefix served.
DeniedProbeHarmless ==
    [][\A q \in Request : AddOneReq(q) =>
          \A x \in DOMAIN tree.nd :
             x[1] \in User \ {Meta[q].user}
               /\ tree.nd[x].vis \in {"private", "exhausted_private"} =>
                    /\ x \in DOMAIN tree'.nd
                    /\ tree'.nd[x] = tree.nd[x]
                    /\ ParentLen(tree', x) = ParentLen(tree, x)
                    /\ req'[q] # req[q] => x \notin Lineage(tree', req'[q].last)]_vars

\* reserve_hit: no fingerprint is charged more than B hits, however lookups, splits,
\* promotions and evictions of its nodes follow each other.
LedgerBounded == \A fp \in DOMAIN ledger : ledger[fp] <= B

\* exp2_cumulative_ledger: at most B cross-tenant hits on cached tokens, however
\* the tree is split, evicted and rebuilt.
ExposureBounded == \A x \in DOMAIN exposed : exposed[x] <= B
=============================================================================
