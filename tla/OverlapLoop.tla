----------------------------- MODULE OverlapLoop ----------------------------
(***************************************************************************)
(* The server's default loop, event_loop_overlap (scheduler.py): while the *)
(* forward thread of TpModelWorkerClient runs one batch, the scheduler     *)
(* already prepares the next from what it knows, and applies the results   *)
(* of a batch one iteration after it was launched.  So a request is one    *)
(* token ahead of its output_ids, a finished one is in one batch too many, *)
(* and a retracted one has a result on its way.                            *)
(*                                                                         *)
(* There is one principal (the policy is in RadixCache).  What the model   *)
(* samples does not matter here: every output token is the token 1, and    *)
(* a stop token may come at any time.  Copying on the GPU's streams keeps  *)
(* the order in which the forward thread takes the batches.                *)
(***************************************************************************)
EXTENDS RadixTree, TokenPool

CONSTANTS
    Request,        \* request ids
    NoReq,          \* chunked_req is None
    Meta,           \* Meta[q]: [prompt, out, grammar]; out is max_new_tokens
    ServerArgs,     \* the arguments the server may be started with:
                    \* [max_running_requests, chunked_prefill_size]
    ClipOut,        \* CLIP_MAX_NEW_TOKENS_ESTIMATION (4096)
    Slack,          \* what alloc_token_slots evicts beyond the need (2000)
    RetractSteps,   \* global_config.retract_decode_steps
    Chunk,          \* NUM_ of _insert_helper (1024)
    FlushInFlight   \* flush_cache may be called with a batch in flight

\* handle_generate_request cuts max_new_tokens so that one request fits.
ASSUME OverlapAssumption ==
    /\ IsFiniteSet(Request) /\ NoReq \notin Request /\ NumSlots \in Nat
    /\ \A q \in Request :
          /\ Meta[q].prompt \in Seq(Nat) /\ Meta[q].prompt # <<>>
          /\ Meta[q].out \in Nat \ {0}
          /\ Len(Meta[q].prompt) + Meta[q].out <= NumSlots - 2
    /\ \A a \in ServerArgs : /\ a.max_running_requests \in Nat \ {0}
                             /\ a.chunked_prefill_size \in Nat \ {0}
    /\ ClipOut \in Nat \ {0} /\ Chunk \in Nat \ {0}
    /\ Slack \in Nat /\ RetractSteps \in Nat

VARIABLES
    tree, free, kv,  \* as in RadixCache
    rows,            \* req_to_token
    free_rows,       \* ReqToTokenPool.free_slots
    req,             \* req[q]: the request
    running,         \* running_batch.reqs
    batch_is_full,   \* running_batch.batch_is_full
    server_args,     \* one of ServerArgs
    chunked_req,     \* the request whose prompt is prefilled in chunks
    can_run,         \* can_run_list of this iteration
    loop,            \* where the scheduler is in its iteration
    cur,             \* the batch of this iteration
    last_batch,      \* the batch of the previous one
    result_queue,    \* copies of the batches whose results are not applied
    result,          \* the one being applied, with the requests still to do
    input_queue,     \* from the scheduler to the forward thread
    fwd,             \* what the forward thread has launched
    output_queue,    \* from the forward thread to the scheduler
    future_ct,       \* future_token_ids_ct
    future_map       \* future_token_ids_map: which token of which request

pools == <<free, rows, free_rows>>
queue == <<running, batch_is_full, chunked_req, can_run, server_args>>
flow == <<cur, last_batch, result_queue, result>>
worker == <<input_queue, output_queue, future_ct>>
vars == <<tree, pools, kv, req, queue, loop, flow, worker, fwd, future_map>>

NoBatch == [mode |-> "none", reqs |-> <<>>]
Root == "private"                       \* the principal's private root
NoNode == <<Root, <<>>>>
MaxRunning == server_args.max_running_requests
ChunkedSize == server_args.chunked_prefill_size
NumRows == MaxRunning + 1

\* Mutant: a ring with room for one batch.
Mut_FutureLimit == MaxRunning

\* Length of the ring of future tokens.
FutureLimit == 3 * MaxRunning

\* The tokens of a request, those still to be sampled included.
Text(q) == Meta[q].prompt \o [i \in 1..Meta[q].out |-> 1]

NewReq ==
    [st        |-> "new",    \* "queued": waiting_queue; "in": prefilled or
                             \* running; "done": finished(); "gone": aborted
     out       |-> 0,        \* len(output_ids)
     fill      |-> 0,        \* len(fill_ids)
     pre       |-> <<>>,     \* prefix_indices
     last      |-> NoNode,   \* last_node
     idx       |-> 0,        \* req_pool_idx
     slen      |-> 0,        \* its entry of seq_lens
     fut       |-> 0,        \* its placeholder in output_ids
     chunks    |-> 0,        \* is_chunked
     retracted |-> FALSE]    \* is_retracted

Init ==
    /\ server_args \in ServerArgs
    /\ tree = EmptyTree
    /\ free = [s \in Slot |-> 1]
    /\ kv = [s \in Slot |-> <<>>]
    /\ rows = [i \in 1..NumRows |-> <<>>]
    /\ free_rows = [i \in 1..NumRows |-> i]
    /\ req = [q \in Request |-> NewReq]
    /\ running = <<>> /\ batch_is_full = FALSE
    /\ chunked_req = NoReq /\ can_run = <<>>
    /\ loop = "recv"
    /\ cur = NoBatch /\ last_batch = NoBatch
    /\ result_queue = <<>> /\ result = NoBatch
    /\ input_queue = <<>> /\ output_queue = <<>>
    /\ fwd = NoBatch
    /\ future_ct = 0
    /\ future_map = [i \in 1..FutureLimit + MaxRunning |-> <<>>]

-----------------------------------------------------------------------------
Waiting == {q \in Request : req[q].st = "queued"} \ ToSet(can_run)

\* The members of s that are in S, in their order (SelectSeq, in a form that can be
\* reasoned about).
Filter(s, S) ==
    LET kept == {i \in DOMAIN s : s[i] \in S}
    IN  [n \in 1..Cardinality(kept) |->
            s[CHOOSE i \in kept : Cardinality({j \in kept : j <= i}) = n]]

NotDone == {q \in Request : req[q].st # "done"}
Unfinished(s) == Filter(s, NotDone)
SeqLen(q) == Len(Meta[q].prompt) + req[q].out
Truncated(q) == req[q].fill < SeqLen(q)
ExtendLen(q) == req[q].fill - Len(req[q].pre)
Row(q) == rows[req[q].idx]

\* The slots of a cached prefix.
Cached(T, key) == [n \in DOMAIN key |-> T.pos[<<Root, Take(key, n)>>]]

\* match_prefix on the private root.
MatchPrefix(T, key) ==
    LET hit == Take(key, InsertedPrefix(T, Root, key))
        S == Split(T, Root, hit)
    IN  [tree |-> S, pre |-> Cached(S, hit), last |-> <<Root, hit>>]

Insert(T, q, n) == InsertHelper(T, Root, Take(Text(q), n), Row(q), Chunk, "private")

\* What insertion of the first n tokens leaves to be freed of q's row.
Duplicates(q, n) ==
    SubSeq(Row(q), Len(req[q].pre) + 1, InsertedPrefix(tree, Root, Take(Text(q), n)))

\* cache_unfinished_req: tree, free list, row and request.
CacheUnfinishedReq(q) ==
    LET key == Take(Text(q), req[q].fill)
        m == MatchPrefix(Insert(tree, q, req[q].fill), key)
    IN  [tree |-> IncLockRef(DecLockRef(m.tree, req[q].last), m.last),
         free |-> Freed(free, Duplicates(q, req[q].fill)),
         row |-> m.pre \o SubSeq(Row(q), Len(key) + 1, Len(Row(q))),
         req |-> [req[q] EXCEPT !.pre = m.pre, !.last = m.last]]

-----------------------------------------------------------------------------
(* process_input_requests *)

\* _add_request_to_queue
Arrive(q) ==
    /\ loop = "recv"
    /\ req[q].st = "new"
    /\ req' = [req EXCEPT ![q].st = "queued"]
    /\ UNCHANGED <<tree, pools, kv, queue, loop, flow, worker, fwd, future_map>>

\* abort_request for a request in the waiting queue.  One that is running is
\* marked, and finishes with its next result.
AbortWaiting(q) ==
    /\ loop = "recv"
    /\ q \in Waiting
    /\ req' = [req EXCEPT ![q] = [NewReq EXCEPT !.st = "gone",
                                                !.retracted = req[q].retracted]]
    /\ UNCHANGED <<tree, pools, kv, queue, loop, flow, worker, fwd, future_map>>

\* flush_cache asks the waiting queue and the running batch, and nothing else.
FlushCache ==
    /\ loop = "recv"
    /\ Waiting = {} /\ running = <<>>
    /\ FlushInFlight \/ (last_batch = NoBatch /\ chunked_req = NoReq)
    /\ tree # EmptyTree
    /\ tree' = EmptyTree
    /\ free' = [s \in Slot |-> 1]
    /\ kv' = Forget(kv, free')
    /\ free_rows' = [i \in 1..NumRows |-> i]
    /\ cur' = NoBatch /\ last_batch' = NoBatch
    /\ UNCHANGED <<rows, req, queue, loop, result_queue, result, worker, fwd, future_map>>

-----------------------------------------------------------------------------
(* get_next_batch_to_run *)

\* The prefill of the last iteration joins the running batch, all but the
\* request whose prompt it left unfinished.
Merged ==
    IF last_batch.mode # "extend" THEN <<>>
    ELSE Filter(last_batch.reqs, NotDone \ {chunked_req})

FullAfterMerge ==
    /\ batch_is_full
    /\ last_batch.mode = "extend" => Len(Merged) = Len(last_batch.reqs)
    /\ ~(Merged # <<>> /\ running = <<>>)    \* else the merged batch replaces it

\* Caching the chunk just launched, and add_chunked_req: its next chunk goes
\* first into the new batch.
NextChunk(c) ==
    /\ tree' = c.tree /\ free' = c.free
    /\ rows' = [rows EXCEPT ![c.req.idx] = c.row]
    /\ free_rows' = Append(free_rows, c.req.idx)
    /\ req' = [req EXCEPT ![chunked_req] =
                 [c.req EXCEPT !.idx = 0, !.slen = 0, !.fut = 0,
                    !.fill = Min({SeqLen(chunked_req), Len(c.req.pre) + ChunkedSize})]]
    /\ can_run' = <<chunked_req>>
    /\ kv' = Forget(kv, free')

GetNextBatchToRun ==
    /\ loop = "recv"
    /\ loop' = "admit"
    /\ running' = running \o Merged
    /\ batch_is_full' = FullAfterMerge
    /\ IF chunked_req = NoReq
       THEN can_run' = <<>> /\ UNCHANGED <<tree, pools, kv, req>>
       ELSE NextChunk(CacheUnfinishedReq(chunked_req))
    /\ UNCHANGED <<server_args, chunked_req, flow, worker, fwd, future_map>>

\* The first tests of get_new_batch_prefill, and its loop's when no request can
\* be added any more.
StopAdding ==
    /\ loop = "admit"
    /\ \/ /\ Waiting = {} \/ (batch_is_full /\ can_run = <<>>)
          /\ UNCHANGED batch_is_full
       \/ /\ Waiting # {} /\ ~(batch_is_full /\ can_run = <<>>)
          /\ Len(can_run) >= MaxRunning - Len(running)
          /\ batch_is_full' = TRUE
    /\ loop' = "launch"
    /\ UNCHANGED <<tree, pools, kv, req, running, server_args, chunked_req, can_run, flow,
                   worker, fwd, future_map>>

NewTokens(q) == Min({Meta[q].out, ClipOut})

\* rem_total_token_offset, but for what new_token_ratio reserves for the running
\* requests, and rem_chunk_tokens.
TokenOffset ==
    Total([q \in ToSet(can_run) |->
              ExtendLen(q) + IF Truncated(q) THEN 0 ELSE NewTokens(q)])
RemChunkTokens == ChunkedSize - Total([q \in ToSet(can_run) |-> ExtendLen(q)])

\* Whether there is room; the share of the running requests is any number >= 0.
NoToken(lacks) == lacks \/ running # <<>>

\* add_one_req once q's prefix is matched: locked is the tree with the match pinned,
\* extend what is left to prefill, total and room what add_one_req compares.
AddMatched(q, m, locked, extend, total, room) ==
    \/ \* NO_TOKEN
       /\ NoToken(total >= Available(free) + m.tree.evictable \/ total > room)
       /\ tree' = m.tree
       /\ batch_is_full' = TRUE
       /\ loop' = "launch"
       /\ UNCHANGED <<req, can_run>>
    \/ \* OTHER: the chunk is full
       /\ total < Available(free) + m.tree.evictable /\ total <= room
       /\ RemChunkTokens = 0
       /\ tree' = m.tree
       /\ loop' = "launch"
       /\ UNCHANGED <<req, can_run, batch_is_full>>
    \/ /\ total < Available(free) + m.tree.evictable /\ total <= room
       /\ RemChunkTokens > 0
       /\ tree' = locked
       /\ can_run' = Append(can_run, q)
       /\ req' = [req EXCEPT ![q].pre = m.pre, ![q].last = m.last,
                             ![q].fill = Len(m.pre) + Min({extend, RemChunkTokens})]
       /\ \E left \in {room - IF extend > RemChunkTokens
                              THEN RemChunkTokens + TokenOffset ELSE total} :
          \/ \* budget_state: NO_TOKEN
             /\ NoToken(left = 0)
             /\ batch_is_full' = TRUE
             /\ loop' = "launch"
          \/ /\ left > 0
             /\ loop' = IF extend >= RemChunkTokens THEN "launch" ELSE "admit"
             /\ UNCHANGED batch_is_full

\* init_next_round_input and add_one_req for one request of the queue.
AddOneReq(q) ==
    /\ loop = "admit"
    /\ q \in Waiting /\ ~(batch_is_full /\ can_run = <<>>)
    /\ Len(can_run) < MaxRunning - Len(running)
    /\ \E m \in {MatchPrefix(tree, Take(Text(q), SeqLen(q) - 1))} :
       \E locked \in {IncLockRef(m.tree, m.last)} :
       \E extend \in {SeqLen(q) - Len(m.pre)} :
       \E total \in {extend + NewTokens(q) + TokenOffset} :
       \E room \in {Available(free) + locked.evictable} :
          AddMatched(q, m, locked, extend, total, room)
    /\ UNCHANGED <<pools, kv, running, server_args, chunked_req, flow, worker, fwd, future_map>>

-----------------------------------------------------------------------------
(* run_batch *)

\* A batch as it is queued: its requests in order, for each the slots its input
\* is written to (the last ones of its sequence), the sequence's length, its row
\* and the placeholder of its input token (0: the input is known), and the
\* place of its output tokens in the future map.
Batch(mode, reqs, loc, len, idx, fut) ==
    [mode |-> mode, reqs |-> reqs, loc |-> loc, len |-> len, idx |-> idx,
     fut |-> fut, ct |-> future_ct]

Position(s, q) == CHOOSE i \in DOMAIN s : s[i] = q

\* Mutant: no dummy first batch.
Mut_DummyFirst == FALSE

\* The first batch after an idle iteration: its sampling_info_done is set at
\* once, by the dummy first batch.
DummyFirst == last_batch = NoBatch

\* forward_batch_generation and the scheduler's bookkeeping for batch b.
RunBatch(b) ==
    /\ input_queue' = Append(input_queue, [batch |-> b, done |-> DummyFirst])
    /\ result_queue' = Append(result_queue, b)
    /\ future_ct' = (future_ct + Len(b.reqs)) % FutureLimit
    /\ cur' = b
    /\ loop' = "process"
    /\ UNCHANGED <<last_batch, result, output_queue, fwd, future_map>>

\* alloc_token_slots for n slots: what may be evicted from T.
AllocEvicts(T, fr, n) ==
    EvictChoices(T, IF Available(fr) < n + Slack THEN n + Slack ELSE 0)

\* The slots of request i of a batch, when need[k] go to the k-th.
Share(slots, need, i) ==
    LET before == Total([k \in 1..i - 1 |-> need[k]])
    IN  SubSeq(slots, before + 1, before + need[i])

\* The prefill batch once the nodes of D are evicted: its rows are written and it
\* is handed to the forward thread.  new and idx are the slots and the row of each
\* request.
LaunchExtend(D, pool, total, new, idx) ==
    /\ Available(pool) >= total
    /\ tree' = Delete(tree, D)
    /\ free' = AllocRest(pool, total)
    /\ kv' = Forget(kv, free')
    /\ rows' = [i \in DOMAIN rows |->
                  IF \E q \in DOMAIN idx : idx[q] = i
                  THEN LET q == CHOOSE q \in DOMAIN idx : idx[q] = i
                       IN  req[q].pre \o new[q]
                  ELSE rows[i]]
    /\ free_rows' = SubSeq(free_rows, Len(can_run) + 1, Len(free_rows))
    /\ req' = [q \in Request |->
                 IF q \notin ToSet(can_run) THEN req[q]
                 ELSE [req[q] EXCEPT
                         !.st = "in", !.retracted = FALSE,
                         !.idx = idx[q], !.slen = req[q].fill,
                         !.fut = future_ct + Position(can_run, q),
                         !.chunks = IF Truncated(q) THEN @ + 1 ELSE @]]
    /\ RunBatch(Batch("extend", can_run, new,
                      [q \in ToSet(can_run) |-> req[q].fill], idx,
                      [q \in ToSet(can_run) |-> 0]))

\* prepare_for_extend and run_batch for can_run_list.
PrepareForExtend ==
    /\ loop = "launch" /\ can_run # <<>>
    /\ Len(can_run) <= Len(free_rows)
    /\ \E need \in {[i \in DOMAIN can_run |-> ExtendLen(can_run[i])]} :
       \E total \in {Total(need)} :
       \E D \in AllocEvicts(tree, free, total) :
       \E pool \in {Freed(free, SlotsOf(tree, D))} :
       \E slots \in {AllocSeq(pool, total)} :
          LaunchExtend(D, pool, total,
              [q \in ToSet(can_run) |-> Share(slots, need, Position(can_run, q))],
              [q \in ToSet(can_run) |-> free_rows[Position(can_run, q)]])
    /\ chunked_req' = IF \E q \in ToSet(can_run) : Truncated(q)
                      THEN CHOOSE q \in ToSet(can_run) : Truncated(q) ELSE NoReq
    /\ can_run' = <<>>
    /\ UNCHANGED <<running, batch_is_full, server_args>>

\* No prefill and nothing to decode.
NothingToRun ==
    /\ loop = "launch" /\ can_run = <<>>
    /\ Unfinished(running) = <<>>
    /\ running' = <<>>
    /\ batch_is_full' = (batch_is_full /\ running = <<>>)
    /\ cur' = NoBatch
    /\ loop' = "process"
    /\ UNCHANGED <<tree, pools, kv, req, server_args, chunked_req, can_run, last_batch,
                   result_queue, result, worker, fwd, future_map>>

\* update_running_batch: the batch without its finished requests, and what
\* check_decode_mem may evict for it.
Decoding == Unfinished(running)
CheckDecodeMem ==
    EvictChoices(tree, IF Available(free) < Len(Decoding) THEN Len(Decoding) ELSE 0)
DecodeMemFails(D) == Available(Freed(free, SlotsOf(tree, D))) < Len(Decoding)

Monus(a, b) == IF a > b THEN a - b ELSE 0

\* retract_decode goes on.
RetractMore == Len(Decoding) > 1 /\ Available(free) < RetractSteps * Len(Decoding)

\* It takes the request with the fewest output tokens, of these the longest
\* prompt.
RetractsBefore(q, r) ==
    \/ req[q].out < req[r].out
    \/ req[q].out = req[r].out /\ Len(Meta[q].prompt) > Len(Meta[r].prompt)

\* One round of retract_decode.
RetractDecode(q) ==
    /\ loop \in {"launch", "retract"} /\ can_run = <<>>
    /\ q \in ToSet(Decoding) /\ Len(Decoding) > 1
    /\ \A r \in ToSet(Decoding) : ~RetractsBefore(r, q)
    /\ \E D0 \in IF loop = "launch" THEN CheckDecodeMem ELSE {{}} :
        /\ IF loop = "launch" THEN DecodeMemFails(D0) ELSE RetractMore
        /\ \E T \in {DecLockRef(Delete(tree, D0), req[q].last)} :
           \E left \in {Freed(Freed(free, SlotsOf(tree, D0)),
                              SubSeq(Row(q), Len(req[q].pre) + 1, req[q].slen))} :
           \E D \in EvictChoices(T, Monus(RetractSteps * (Len(Decoding) - 1),
                                          Available(left))) :
              /\ tree' = Delete(T, D)
              /\ free' = Freed(left, SlotsOf(T, D))
    /\ kv' = Forget(kv, free')
    /\ free_rows' = Append(free_rows, req[q].idx)
    /\ req' = [req EXCEPT ![q] = [NewReq EXCEPT !.st = "queued", !.out = req[q].out,
                                                !.retracted = TRUE]]
    /\ running' = Filter(Decoding, Request \ {q})
    /\ batch_is_full' = FALSE
    /\ loop' = "retract"
    /\ UNCHANGED <<rows, server_args, chunked_req, can_run, flow, worker, fwd, future_map>>

\* The decode batch once the nodes of D are evicted from T: one slot for every
\* request, whose last token is known to the forward thread only.
LaunchDecode(T, D, pool, new) ==
    /\ Available(pool) >= Len(Decoding)
    /\ tree' = Delete(T, D)
    /\ free' = AllocRest(pool, Len(Decoding))
    /\ kv' = Forget(kv, free')
    /\ rows' = [i \in DOMAIN rows |->
                  IF \E q \in DOMAIN new : req[q].idx = i
                  THEN LET q == CHOOSE q \in DOMAIN new : req[q].idx = i
                       IN  Take(rows[i], req[q].slen) \o new[q]
                  ELSE rows[i]]
    /\ req' = [q \in Request |->
                 IF q \notin DOMAIN new THEN req[q]
                 ELSE [req[q] EXCEPT !.slen = @ + 1,
                                     !.fut = future_ct + Position(Decoding, q)]]
    /\ RunBatch(Batch("decode", Decoding, new,
                      [q \in DOMAIN new |-> req[q].slen + 1],
                      [q \in DOMAIN new |-> req[q].idx],
                      [q \in DOMAIN new |-> req[q].fut]))
    /\ running' = Decoding
    /\ batch_is_full' = (batch_is_full /\ Len(Decoding) = Len(running))
    /\ UNCHANGED <<free_rows, server_args, chunked_req, can_run>>

\* prepare_for_decode and run_batch, from tree T and free list fr.
DecodeFrom(T, fr) ==
    \E D \in AllocEvicts(T, fr, Len(Decoding)) :
    \E pool \in {Freed(fr, SlotsOf(T, D))} :
    \E slots \in {AllocSeq(pool, Len(Decoding))} :
       LaunchDecode(T, D, pool,
                    [q \in ToSet(Decoding) |-> <<slots[Position(Decoding, q)]>>])

PrepareForDecode ==
    /\ loop = "launch" /\ can_run = <<>> /\ Decoding # <<>>
    /\ \E D \in CheckDecodeMem :
          ~DecodeMemFails(D) /\ DecodeFrom(Delete(tree, D), Freed(free, SlotsOf(tree, D)))

PrepareForDecodeAfterRetract ==
    /\ loop = "retract" /\ ~RetractMore
    /\ DecodeFrom(tree, free)

-----------------------------------------------------------------------------
(* The forward thread (forward_thread_func_) *)

\* It takes a batch from its queue and launches the forward pass, which writes
\* the KV of the batch's input; launch_done is set.
Launch ==
    /\ fwd = NoBatch /\ input_queue # <<>>
    /\ \E b \in {Head(input_queue).batch} :
       kv' = Forget([s \in Slot |->
               LET writes == {w \in ToSet(b.reqs) \X (1..NumSlots) :
                                 w[2] <= Len(b.loc[w[1]]) /\ b.loc[w[1]][w[2]] = s}
               IN  IF writes = {} THEN kv[s]
                   ELSE LET w == CHOOSE w \in writes : TRUE
                        IN  Take(Text(w[1]), b.len[w[1]] - Len(b.loc[w[1]]) + w[2])],
               free)
    /\ fwd' = Head(input_queue)
    /\ input_queue' = Tail(input_queue)
    /\ UNCHANGED <<tree, pools, req, queue, loop, flow, output_queue, future_ct, future_map>>

\* sample, which waits for sampling_info_done if the batch has a grammar; the
\* tokens go into the future map and the result to the scheduler.
Sample ==
    /\ fwd # NoBatch
    /\ (\E q \in ToSet(fwd.batch.reqs) : Meta[q].grammar) => fwd.done
    /\ \E b \in {fwd.batch} :
       future_map' = [i \in DOMAIN future_map |->
                        IF i - b.ct \in DOMAIN b.reqs
                        THEN <<b.reqs[i - b.ct], b.len[b.reqs[i - b.ct]] + 1>>
                        ELSE future_map[i]]
    /\ output_queue' = Append(output_queue, fwd.batch)
    /\ fwd' = NoBatch
    /\ UNCHANGED <<tree, pools, kv, req, queue, loop, flow, input_queue, future_ct>>

-----------------------------------------------------------------------------
(* process_batch_result *)

\* launch_done.wait() for the batch of this iteration.
LaunchDone == cur = NoBatch \/ input_queue = <<>>

\* Mutant: pop in place of popleft.
Mut_ResolveLastBatchResult ==
    /\ loop = "process" /\ last_batch # NoBatch
    /\ output_queue # <<>> /\ LaunchDone
    /\ result' = Last(result_queue)
    /\ result_queue' = Front(result_queue)
    /\ output_queue' = Tail(output_queue)
    /\ loop' = "apply"
    /\ UNCHANGED <<tree, pools, kv, req, queue, cur, last_batch, input_queue, future_ct,
                   fwd, future_map>>

\* The scheduler takes the oldest batch copy and waits for the oldest output.
ResolveLastBatchResult ==
    /\ loop = "process" /\ last_batch # NoBatch
    /\ output_queue # <<>> /\ LaunchDone
    /\ result' = Head(result_queue)
    /\ result_queue' = Tail(result_queue)
    /\ output_queue' = Tail(output_queue)
    /\ loop' = "apply"
    /\ UNCHANGED <<tree, pools, kv, req, queue, cur, last_batch, input_queue, future_ct,
                   fwd, future_map>>

\* cache_finished_req once the n-th token, the last one, is known: all but it are
\* cached.
CacheFinishedReq(q, n) ==
    /\ tree' = DecLockRef(Insert(tree, q, n - 1), req[q].last)
    /\ free' = Freed(free, Duplicates(q, n - 1))
    /\ kv' = Forget(kv, free')
    /\ free_rows' = Append(free_rows, req[q].idx)
    /\ req' = [req EXCEPT ![q] = [NewReq EXCEPT !.st = "done"]]
    /\ UNCHANGED rows

\* The token is appended; the request is over if this is its last one, if it is
\* a stop token, or if the request is to be aborted.
Finishes(q) == CacheFinishedReq(q, SeqLen(q) + 1)
Continues(q) == req[q].out + 1 < Meta[q].out

\* is_retracted
Skipped(q) == req[q].retracted

Skip == UNCHANGED <<tree, pools, kv, req>>

\* process_batch_result_prefill for one request.
ApplyPrefill(q) ==
    \/ Skipped(q) /\ Skip
    \/ /\ ~Skipped(q) /\ req[q].chunks > 0
       /\ req' = [req EXCEPT ![q].chunks = @ - 1]
       /\ UNCHANGED <<tree, pools, kv>>
    \/ ~Skipped(q) /\ req[q].chunks = 0 /\ Finishes(q)
    \/ /\ ~Skipped(q) /\ req[q].chunks = 0 /\ Continues(q)
       /\ \E c \in {CacheUnfinishedReq(q)} :
            /\ tree' = c.tree /\ free' = c.free
            /\ kv' = Forget(kv, free')
            /\ rows' = [rows EXCEPT ![c.req.idx] = c.row]
            /\ req' = [req EXCEPT ![q] = [c.req EXCEPT !.out = @ + 1]]
            /\ UNCHANGED free_rows

\* Mutant: the result of a finished request is skipped like a retracted one's.
Mut_DelayedToken(q) == <<>>

\* "Free the one extra delayed token"
DelayedToken(q) == result.loc[q]

\* process_batch_result_decode for one request: one that is finished was in the
\* batch by mistake, and its slot goes back.
ApplyDecode(q) ==
    \/ Skipped(q) /\ Skip
    \/ /\ ~Skipped(q) /\ req[q].st = "done"
       /\ free' = Freed(free, DelayedToken(q))
       /\ kv' = Forget(kv, free')
       /\ UNCHANGED <<tree, rows, free_rows, req>>
    \/ ~Skipped(q) /\ req[q].st = "in" /\ Finishes(q)
    \/ /\ ~Skipped(q) /\ req[q].st = "in" /\ Continues(q)
       /\ req' = [req EXCEPT ![q].out = @ + 1]
       /\ UNCHANGED <<tree, pools, kv>>

ProcessBatchResult ==
    /\ loop = "apply" /\ result.reqs # <<>>
    /\ \E q \in {Head(result.reqs)} :
          \/ result.mode = "extend" /\ ApplyPrefill(q)
          \/ result.mode = "decode" /\ ApplyDecode(q)
    /\ result' = [result EXCEPT !.reqs = Tail(@)]
    /\ UNCHANGED <<queue, loop, cur, last_batch, result_queue, worker, fwd, future_map>>

\* set_next_batch_sampling_info_done for the batch of this iteration, and the end
\* of the iteration.
EndIteration ==
    /\ \/ loop = "process" /\ last_batch = NoBatch /\ UNCHANGED fwd
       \/ /\ loop = "apply" /\ result.reqs = <<>>
          /\ fwd' = IF cur = NoBatch \/ fwd = NoBatch THEN fwd ELSE [fwd EXCEPT !.done = TRUE]
    /\ result' = NoBatch
    /\ last_batch' = cur
    /\ cur' = NoBatch
    /\ loop' = "recv"
    /\ UNCHANGED <<tree, pools, kv, req, queue, result_queue, worker, future_map>>

-----------------------------------------------------------------------------
Schedule ==
    \/ GetNextBatchToRun \/ StopAdding
    \/ \E q \in Request : AddOneReq(q) \/ RetractDecode(q)
    \/ PrepareForExtend \/ PrepareForDecode \/ PrepareForDecodeAfterRetract
    \/ NothingToRun
    \/ ResolveLastBatchResult \/ ProcessBatchResult \/ EndIteration

Next ==
    \/ \E q \in Request : Arrive(q) \/ AbortWaiting(q)
    \/ FlushCache
    \/ Schedule
    \/ Launch \/ Sample

\* The scheduler waits at one place only, in resolve_last_batch_result.
Ready ==
    loop = "process" /\ last_batch # NoBatch => output_queue # <<>> /\ LaunchDone

\* Every step of the scheduler changes one of these.
progress == <<loop, can_run, running, result>>

\* Both threads run; nothing obliges a client to send, to abort or to flush.  The
\* scheduler's weak fairness is spelt out with Ready for ENABLED: were it ready and
\* none of its steps possible, the forward thread would run dry and the state be a
\* deadlock, which TLC reports.
Spec ==
    /\ Init /\ [][Next]_vars
    /\ []<>~Ready \/ []<><<Schedule>>_progress
    /\ WF_fwd(Launch) /\ WF_fwd(Sample)

-----------------------------------------------------------------------------
(* Properties. *)

\* event_loop_overlap: "Process the results of the last batch".  The batch taken
\* from result_queue is the one launched in the previous iteration, and the
\* output it is matched with is that batch's own.
ResultIsLastBatch ==
    /\ loop = "process" /\ last_batch # NoBatch =>
          result_queue # <<>> /\ Head(result_queue) = last_batch
    /\ loop = "process" /\ last_batch # NoBatch /\ output_queue # <<>> =>
          Head(output_queue) = Head(result_queue)

\* The requests whose row holds slots.
Live == {q \in Request : req[q].idx # 0}

\* A finished request's slot in a batch whose result is still to come.
Delayed ==
    LET pending == IF result.mode = "decode" THEN {result} ELSE {}
    IN  {d \in (pending \cup {result_queue[i] : i \in DOMAIN result_queue}) \X Request :
            /\ d[1].mode = "decode" /\ d[2] \in ToSet(d[1].reqs)
            /\ req[d[2]].st = "done"}

\* "Free the one extra delayed token": whatever is in flight, every slot has one
\* owner, be it the free list, a position of the tree, the uncached tail of a
\* request's row, or the extra token of a finished request.
SlotsPartitioned ==
    \A s \in Slot :
        free[s]
          + Cardinality({x \in DOMAIN tree.pos : tree.pos[x] = s})
          + Cardinality({h \in Live \X (1..NumSlots) :
                /\ h[2] > Len(req[h[1]].pre) /\ h[2] <= req[h[1]].slen
                /\ Row(h[1])[h[2]] = s})
          + Cardinality({d \in Delayed : d[1].loc[d[2]] = <<s>>})
        = 1

\* When the forward thread takes a batch, every request in it that is not over
\* finds in its row the KV of the tokens before, and, if it decodes, its own last
\* token in the future map: nothing the scheduler did meanwhile, from results an
\* iteration old, has moved them away.
InputsIntact ==
    fwd = NoBatch /\ input_queue # <<>> =>
      LET b == Head(input_queue).batch
      IN  \A q \in ToSet(b.reqs) : req[q].st = "in" =>
            /\ \A i \in 1 .. b.len[q] - Len(b.loc[q]) :
                  kv[rows[b.idx[q]][i]] = Take(Text(q), i)
            /\ b.fut[q] # 0 => future_map[b.fut[q]] = <<q, b.len[q]>>

\* A refusal left batch_is_full set with nothing in the running batch: only a batch
\* that shrinks resets it, so the scheduler looks at no request any more.
Starved ==
    /\ loop = "recv" /\ batch_is_full
    /\ running = <<>> /\ last_batch = NoBatch /\ chunked_req = NoReq

\* Every request that enters the queue is answered, or the scheduler starves: the
\* two threads never wait for each other for good, and a retracted or truncated
\* request is taken up again, unless its tokens so far and the whole of its
\* max_new_tokens no longer fit into the pool (add_one_req).
RequestsEnd ==
    \A q \in Request :
       req[q].st = "queued" ~> req[q].st \in {"done", "gone"} \/ Starved
=============================================================================
