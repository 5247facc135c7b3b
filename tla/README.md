# SafeKV in TLA+

InferShield is a fork of SGLang in which tenants share one KV prefix cache
without seeing each other's entries (*SafeKV*). This project models the parts
that decide who may reuse which KV slot, for how long and how often, and the
scheduler steps that allocate, lock, evict and free those slots, together with
the parts around them whose concurrency decides whether requests are answered:
the detection pipeline, the overlapped scheduler loop with its forward thread,
and the tokenizer manager with its reader/writer lock. The modules are checked
with TLC on small instances; the results that matter most are proved with TLAPS
for every value of the constants.

Paths below are relative to `src/python/sglang/srt/` unless they start with
`src/`. `PROJECT.json` maps each definition to the lines it models and lists
runs, mutants, findings, hazards and theorems.

## 1. The system

| part | state | operations | what makes it correct |
|---|---|---|---|
| `DurableLedger` (`mem_cache/safekv_policy.py`) | a store of fingerprint -> hits, a JSON file, a lock file | `reserve_hit`, `charged_hits`, `flush`, `reset`, `add_hits`, crash and reload | a budget of B cross-tenant hits per fingerprint survives eviction, restarts and concurrent replicas |
| `PublicRegistry` (same file) | operator key, epoch, revoked ids, authorizations | `issue`, `install`, `verify`, `revoke`, `reset` | only prefixes an operator signed are public; a revocation sticks |
| `RadixCache`, `TreeNode` (`mem_cache/radix_cache.py`, `tree_node.py`) | one tree per principal and per public object, lock counts, sizes, visibility of nodes | `match_prefix`, `insert`, `evict`, `inc/dec_lock_ref`, `cache_unfinished_req`, `cache_finished_req`, `promote_to_budgeted`, `reset` | exact locks and sizes; one owner per slot; what is in use is not evicted; tenants see only what policy allows |
| token pools (`mem_cache/memory_pool.py`) | free list, rows of slots per request | `alloc`, `free`, `clear` | no leak, no double free |
| scheduler (`managers/scheduler.py`, `schedule_batch.py`, `schedule_policy.py`, `scheduler_output_processor_mixin.py`) | waiting queue, `can_run_list`, last batch, running batch | receive, admit, prefill, decode, retract, finish, abort, flush | admitted work fits; the last request can always go on; no request is forgotten |
| overlapped loop (`event_loop_overlap`, `managers/tp_worker_overlap_thread.py`) | result, input and output queues, ring of future tokens | prepare a batch while another runs, apply results one iteration late | a result meets its own batch; the forward thread finds its inputs; nobody waits for ever |
| detection service (`managers/private_service/`) | task lists, result queue, the model client's response cache | two tiers of detection, `_response_task` | a node is shared only after a negative answer; never after it was demoted; every task gets a verdict |
| tokenizer manager (`managers/tokenizer_manager.py`, `aio_rwlock.py`) | `rid_to_state`, a reader/writer lock, asyncio tasks | `generate_request`, aborts, timeouts, weight updates, drain | every call ends; no state leaks; an update and a waiting request do not meet |
| principal binding (`principal_binding.py`) | token -> principal | `authenticate`, `bind_sampling_params` | a client cannot choose its principal |

Interaction. The scheduler thread calls the cache for each request:
`init_next_round_input` matches, `PrefillAdder.add_one_req` locks,
`alloc_token_slots` evicts and allocates, the output processor hands the
finished row back. `match_prefix` and `insert` call the registry (install,
`is_revoked`) and, in Balanced mode, the ledger (`reserve_hit`).
`_insert_helper` queues a detection task; the judge client's thread answers by
writing the node's `visibility`, concurrently with lookups. Several server
processes may share one ledger file. In the overlapped loop the scheduler hands
batches to a forward thread through a queue and gets outputs back through
another; what it knows of a request is one token old. The tokenizer manager
sends requests and aborts to the scheduler and gets outputs (through the
detokenizer) and notices (directly) back.

What is hard: the ledger under crashes, failing saves and several processes;
visibility read and written by two threads; a request that looks its own
prefix up again after others have inserted, split, evicted or revoked; memory
pressure (retraction and eviction in the middle of a batch); manifests that
arrive late, twice or in the wrong order; flushes at an awkward moment. The
complete list, line by line, is under `hazards` in `PROJECT.json`.

## 2. Modules

| module | models | composed with |
|---|---|---|
| `BudgetSpec` | what a budget promises: charge before serve, at most B per epoch | |
| `DurableLedger` | the ledger's methods, replicas, file, lock, crashes | implements `BudgetSpec` |
| `RadixTree` | the tree as a value, with split, insert, lock, evict as operators | |
| `TokenPool` | the free list of slots as a bag | |
| `RadixCache` | cache, pools, policy and `event_loop_normal`'s use of them, chunked prefill included | `RadixTree`, `TokenPool` |
| `OverlapLoop` | `event_loop_overlap` and the forward thread | `RadixTree`, `TokenPool` |
| `BalancedHit` | one cross-tenant hit statement by statement, with its locks | |
| `DetectionPipeline` | from `update_privacy` through both tiers to `_response_task` | extends and implements `BalancedHit` |
| `PublicRegistry` | manifests, revocation, epochs, expiry and the lookups that depend on them | |
| `RWLock` | the asyncio lock under any use | |
| `TokenizerManager` | requests, clients, aborts and weight updates in the tokenizer and at the scheduler's door | extends and implements `RWLock` |
| `MC_*` | instances for TLC | |
| `*_proofs` | the theorems about a module, and their lemmas | extend the module |

### DurableLedger

Each replica has a program counter for the method it is in. A step is what
happens between two points where another process, a crash or an exception can
come in: taking the file lock, reload and test, `os.replace`, roll-back,
return. `disk` is the file's counters and `diskOk` says whether they parse;
`Crash` loses the memory and releases the lock; `Corrupt` is damage from
outside. `served` and `charged` are history. `add_hits` has no caller but
experiment scripts and is left out.

### RadixTree and RadixCache

A position is a namespace and a token prefix. `tree.pos` gives the slot at
every cached position and `tree.nd` the nodes by where they end, with lock
count and visibility. Splitting a node keeps the end of the longer half, so
positions are stable names for `TreeNode` objects. `hit_count` only orders the
eviction heap; `EvictChoices` allows every order that takes leaves first.

A request goes idle -> waiting -> admitted -> prefill -> prefilled -> decode
<-> running -> idle, or back to waiting by retraction; between two chunks of a
long prompt it is `chunked`. `row` is its line of
`req_to_token`, `plen` the length of `prefix_indices`, `last` its `last_node`.
`kv[s]` is the token prefix whose KV slot `s` holds, so reading a wrong or
overwritten slot is visible. `AddOneReq` contains the match, the charge and the
split even when the request is then not admitted, and even when the chunked
request has used up the chunk, as in the code. Frees inside
`free_group_begin/end` happen at once: nothing is allocated in between.
A half made by a split has no detection task of its own; the model lets
`DetectorPromotes` reach it, as `promote_to_budgeted` could. What a split does to
answers that are on their way is in `DetectionPipeline`.

### BalancedHit

A node's edge stands for its fingerprint, hence for its ledger entry: nodes with
equal edges, in the trees of different owners or along one path, share an entry,
and the two halves of a split have entries of their own. Only the thread that
walks the tree splits (`SplitBegins`, `SplitLinks`), with other threads' steps in
between. A lookup is five steps: `_visible_to`; the unlocked
second test in `_match_prefix_helper`; the locked test and `reserve_hit`; the
write of `visibility`; the write of `permanently_private`. The detector's
check and write are two steps without lock. `promote_to_budgeted` is a locked
section of three ways out. It has no caller in the repository: its docstring says
"Used by the async detection pipeline", which writes `visibility` itself, and
exp2's `_insert_budgeted` repeats its statements.

### DetectionPipeline

A task is a node, a line of the prompt and the stage it is in; the lists between
the stages are sequences. Each stage has one thread, so taking a task, working
on it and passing it on is one step, except where another thread sees the
middle: `detect_privacy` puts the message on the model's queue and then makes
the entry of `response_cache`, and `_response_task` tests and writes the node's
`visibility` in two steps. `Tier1` and `Tier2` give each line its answers,
exceptions included. Nodes are evicted and inserted again while tasks for the
old object are under way (`Orphan`).

A split copies `private_tag`, `need_check_privacy` and `visibility` of the node one
after the other into the new upper half, which gets no task (`CopyTag`, `CopyNeed`,
`LinkHalf`); the judge's writes fall in between. `UpdatePrivacy` gives a new node its
task unless its parent is private and waits for no verdict. Such a parent need
not have been judged: a node of a request that came as token ids has no prompt and
is left private without being screened, and its children inherit that.

`Deployment` is a set of thread sets: the server's (one lookup thread and the
detector) and that of exp2's race (two lookup threads and one that promotes).

### OverlapLoop

An iteration of the scheduler is a walk of `loop` from `recv` over `admit`,
`launch` (and `retract`) to `process` and `apply`. The forward thread's two
steps, `Launch` and `Sample`, fall anywhere in it: `Launch` reads the rows and
writes KV, `Sample` waits for `sampling_info_done` if a request has a grammar and
puts tokens into the ring. The scheduler waits in one place,
`ResolveLastBatchResult`, for the output of the last batch and for
`launch_done` of the current one. A batch in `result_queue` is the copy the code
makes: its requests, slots, lengths, rows and placeholders. A request keeps what
`Req` keeps; `fut` is the negative placeholder in `output_ids`. The share of
the pool that `new_token_ratio` keeps for running requests is any number, so
admission may be refused whenever something runs. The order in which CUDA
streams execute copies and kernels is taken to be the order of the calls.

### RWLock and TokenizerManager

`RWLock` has the three fields of the lock and where each task stands: idle,
asleep in `_cond.wait`, woken, inside. Tasks can be cancelled while they wait.
`TokenizerManager` adds what the tasks do: an asyncio task runs alone between
two awaits, so those are the steps. `task[r]` is the place in
`generate_request` and in the endpoint; `event[r]` is the `ReqState`'s event
and `out_list`; `toSched`, `toTok` and `outputs` are the three channels, each in
order and not ordered among each other. The scheduler's side has the places a
request can be in (`sched[r]`) and the two ways it answers. Clients may leave at
any time; the abort that follows comes from the four-second timeout, the
two-second background task or `/abort_request`. The scheduler takes an abort for
every request whose rid starts with the one it is given; rids may come from
clients, so `Extending[r]` is any set of requests that contains r.

### PublicRegistry

A manifest is the object, the tokens, epoch, expiry, the revoked flag and
whose key signed it. `cached[o]` is what the tree under the object's root
holds. `issued` is what clients have in their hands and may send at any time.
A reset goes to any epoch, the same or an earlier one included.

## 3. Runs

Passing runs:

| run | instance | shows |
|---|---|---|
| `ledger` | 2 replicas, 1 fingerprint, B = 2, 2 crashes, 1 damaged file, 1 reset, fair | the budget is never exceeded, the file accounts for everything served, a crash never tears it, no charge is invented, refinement of `BudgetSpec`, every method returns |
| `cache_strict` | 3 requests, 2 principals, 5 slots, prompts with a common prefix, whole or in chunks | locks and sizes, slot ownership, contents of rows and tree, pinning, admission, the last request fits, one chunked request, tenants apart |
| `cache_balanced` | 2 requests of 2 principals, a public object for the first token, B = 1, 3 slots, chunks of one token | locks and sizes with cross-tenant and public hits; ledger bound; denied probes harmless; revoked objects are not handed out |
| `pipeline` | 2 nodes (parent and child, or the halves of a split), 2 tasks, five kinds of line, B = 2, both deployments, fair | one lookup thread keeps the budget, demotion is final, only cleared nodes are shared, a parent that was inherited from stays private, a node has one task and a half none, no entry of the response cache is missing, refinement of `BalancedHit`, verdicts arrive, threads return |
| `registry` | 2 objects, 2 nested prefixes, 2 manifests, expiry, 2 resets to either of 2 epochs | only signed tokens are served; a revocation sticks until the registry is reset |
| `tokenizer` | 2 requests, the rid of one a prefix of the other's, one client that may leave, 1 update, 1 retraction, fair | the lock's counters and exclusion, refinement of `RWLock`, aborts find their state, only an abort that is not its own strands a waiter, an update spares waiters, `rid_to_state` drains, every call ends |
| `overlap` | 3 requests, 7 slots; 2 places and chunks of one token, or 3 places and whole prompts; fair | every result meets its own batch, every slot has one owner, the forward thread finds its inputs, every request is answered or the scheduler starves |

Runs that end in a violation state what a doc, comment, assertion or script of
the repository says; the `findings` entries quote it:

- `cache_budget_split` (`ExposureBounded`): the fingerprint covers one edge, so
  a split opens new budgets for tokens that were already served B times.
- `cache_balanced_alias` (`CheckMemory`): `check_memory`'s sum is wrong because
  the slots of a cross-tenant prefix are owned by a node in each tree.
- `hit_race` (`NoOvershoot`): with two lookup threads, one passes the test of
  `visibility` in `_visible_to`, the other spends the last hit and demotes the node,
  and the first then skips `_reserve_balanced_hit` and is served uncharged.
- `update_in_progress` (`UpdateExcludesRequests`): the call of a client that
  left gives the reader lock back at once, so a weight update can meet its
  request in the scheduler.
- `overlap_flush` (`ResultIsLastBatch`): a flush while the last prefill is at the
  worker forgets `last_batch` and leaves its entry in `result_queue`; from then
  on results are applied one iteration late.

Some properties are weaker than one might expect, because the code does not
give more. Each of the following is reached by a variant of a run's instance:

- `NoOvercharge` is stated for behaviours without `reset`: `flush` merges by
  maximum, so a replica whose store is older than another replica's reset writes
  the cleared counters back.
- `RevocationSticksUntilReset` ends with a reset: `RadixCache.reset` (every
  `flush_cache`) clears what the registry remembers, and a manifest from before
  the revocation installs the object again; `RevocationSticks` as an invariant of
  `registry` shows it. Policy epoch and expiry are tested when a manifest is
  installed and not again; no property is stated about an object that stays
  installed.
- `SlotsPartitioned` in `RadixCache` is checked with `FlushMidChunk = FALSE`. A
  flush between two chunks (the request is neither waiting nor running) leaves
  its row on slots that are free again; `FlushMidChunk = TRUE` shows it.
- `VerdictArrives` excepts `Stalled`: an answer of the model that comes before
  its entry of `response_cache` exists is overwritten, and tier 2 waits for it
  without limit, with every later task behind it.
- `SchedulerKeepsBudget` is `NoOvershoot` for one lookup thread, which is what the
  server has; `hit_race` shows what two do.
- `OneTaskUnlessSplit` does not promise a verdict to every node that waits for one:
  a half made by a split waits with `need_check_privacy` copied and nobody to answer
  it, and so does a node on whose line tier 1 raised. `VerdictArrives` is about nodes
  with a task.
- `InheritedStaysPrivate` does not say that a parent was judged, although the code's
  comment speaks of a "confirmed private" parent: an unscreened one is inherited
  from as well (above, `UpdatePrivacy`). It says that no later answer shares the
  parent of a node that was never screened because of it.
- `StrandedOnlyByOthers` and `CallsEnd` except requests reached by an abort that is
  not their own: one from `/abort_request`, or that of a client that left whose rid
  is a prefix of theirs. The scheduler's answer removes the state without waking the
  call. With unrelated rids only `/abort_request` is left.
- `RequestsEnd` excepts `Starved`, which the run reaches. A retracted request is asked
  to fit with all of `max_new_tokens` (up to `ClipOut`) on top of what it has already
  produced; one that ran may no longer fit into an empty pool. `batch_is_full`, set
  by the refusal, is then never reset, since only a running batch that shrinks resets
  it, and no later request is looked at.
- `InputsIntact` is checked with prompts of few chunks, so that no placeholder
  outlives a turn of the ring. The worker hands out `3 * MaxRunning` places
  in turn and never asks whether one is still needed. A request that decodes
  waits while another prompt is prefilled chunk by chunk, and each chunk takes a
  place: with `MaxRunning` = 2, chunks of one token and a prompt of eight tokens
  beside a running request, its place is handed out again before it is read and
  the decode gets another request's token.

### Bounds

- Cache: prompts have two tokens over a common prefix and up to 3 new tokens
  (`Meta`; 2 and 1 where principals share entries); this gives matches that end
  inside an edge, splits under lock, duplicates and extension of one's own
  prefix. Five slots let two requests hold one node at the same time and do not
  hold everything that is cached, so eviction happens; with three long requests
  so do refused admission and retraction. `cache_balanced`, which adds a public
  object to the shared entries, has three slots for its two requests.
  `Chunk` = 2 stands for 1024,
  `Slack` <= 1 for the 2000 tokens evicted in advance, `ClipOut` = 1 for 4096
  (an estimate below the real number of tokens, which is what makes retraction
  possible). One output token value suffices: what matters is whether
  continuations agree with cached prefixes, and prompts provide both cases.
- `CacheAssumption` limits `User` to two, so "the other principals' roots" is
  one root and their dictionary order plays no part.
- Cache, `Watched`: the positions whose cross-tenant hits are counted in the
  history variable `exposed`; empty where no property reads it.
- Overlap: with two requests running and a third waiting, seven slots run out
  while tokens are in flight, so that requests are retracted before their prefill
  or decode result has come, finish with a delayed slot outstanding, and wait
  for room. A ring of `3 * MaxRunning` places holds the three batches that can
  matter at once; a decoding request that waits through more chunks of another
  prompt than the ring is long would lose its input, which needs longer prompts.
  `ClipOut` = 3 is the longest output asked for, so that a retracted request is
  charged for all of it and starvation is among the behaviours.
  Refused admission, the chunk limit, the grammar wait and the flush of an idle
  server all occur.
- Pipeline: the two nodes are parent and child, so that tags are inherited, or the
  two halves of a node of two tokens, the upper of which is inserted under again; two
  tasks fill one stage while another works; the five lines take every way through
  the tiers (match, miss, uncertain, both exceptions).
- Tokenizer: two readers and a writer show every wake-up order of the lock.
  `MaxTokens` = 2 gives a request a partial and a final output. A larger
  instance (3.6 million states) gave the same result.
- Ledger: two replicas show every pairwise conflict, and entries of different
  fingerprints only meet in the file, which is written as a whole;
  `MaxCrashes`, `MaxCorruptions`, `MaxResets` bound the disasters, and the
  proofs have none of these bounds in their way.
- Registry: two manifests are a genuine one and its revocation, a renewal or a
  forgery. Two nested prefixes distinguish exact from prefix authorization. Two
  resets lead to a later epoch and back.
- `MaxServed` bounds the history counter and is larger than B.

### Fairness

- `pipeline`: weak fairness of each thread's steps inside a method and of each
  stage's loop: the operating system and the interpreter do not suspend a running
  thread for ever.
- `ledger`: the same of a replica that holds the file lock, and strong fairness
  of taking it: the kernel's `flock` queue does not starve a waiter although the
  lock is taken and released by others in between.
- `tokenizer`: asyncio runs every ready task and every expired timer, the
  framework cancels the stream of a client that went away, and the loops of both
  processes go on.
- `overlap`: both threads run. The scheduler's weak fairness is written with
  `Ready` in place of `ENABLED`, which TLC would evaluate very slowly here. The
  two agree: if the scheduler were ready and could not step (a failed
  allocation), the forward thread would run dry and the state be a deadlock.

Crashes, exceptions, new calls, aborts, flushes and leaving clients are never
fair. Deadlock is checked in every run but the tokenizer's, where all calls may be
over.

## 4. Proofs

- `DurableLedger_proofs`: the inductive invariant relates each program counter
  to the lock and the file. Whoever is between reload and replace holds the lock
  and has the file's store in memory, so its write is the file plus one charge;
  `charged` is what the file says whenever it is readable, and `served` is at
  most `charged`. Without the link between program counter and file neither the
  budget nor the refinement is inductive. Proved: type correctness,
  `BudgetNeverExceeded`, `FileCoversServed`, `NeverTorn`, and that the ledger
  implements `BudgetSpec`, for any replicas, fingerprints and B.
- `DetectionPipeline_proofs`, first part, about `BalancedHit`: with one lookup
  thread and no promoter, a node seen
  shareable stays so until the walk has charged it (`IInv`), hence
  `served <= charged <= B` for every fingerprint, splits included
  (`SchedulerKeepsBudget`). Without a detector, `LockInv` ties each place in a
  critical section to the lock's holder and the node's visibility; from it
  follows that a permanently private node is never shareable again. The first
  hypothesis is needed because two lookups overshoot (`hit_race`); the
  second is needed because the
  detector checks and writes `visibility` without the lock.
- `PublicRegistry_proofs`: everything under a public root was signed by an
  operator (`IInv`), through resets to whatever epoch. Until the registry is reset,
  the remembered revocations are all there have been, so a withdrawn object is not
  served (`RevocationSticksUntilReset`).
- `TokenizerManager_proofs`: the lock's counters count the tasks inside and
  queued (`LockIInv`, with cardinalities of finite sets), so a writer inside is
  alone, under any use of the lock and with any cancellation (`LockCorrect`).
  Every step of the tokenizer, the scheduler and the clients is a step of the lock
  or leaves it alone (`TokenizerUsesLock`), so the same holds of the server
  (`TokenizerLockCorrect`). `TokIInv` adds where each request's messages can be:
  a message is on its channel at most once, a call that waits has its
  `ReqState`, a call is inside the lock while it tokenizes, waits or closes, and
  an update is under way only while its writer is inside. From it follow
  `AbortFindsState`, `StrandedOnlyByOthers` (for any `Extending`),
  `UpdateSparesWaiters` and that an abort never ends the handler loop
  (`AbortNeverKills`).
- `DetectionPipeline_proofs`, second part: every step is a step of `BalancedHit` or leaves it
  alone (`PipelineImplementsHit`), so the two theorems about the hit path hold of
  the pipeline. `PIInv` follows a task through the stages: a task past a stage
  has that stage's answer, a node has at most one task under way, a half made by a
  split has none, an entry is made before the answer to it is read. From it
  `SharedOnlyIfCleared` (no node becomes shareable before both tiers cleared its
  line: a half has the line of the node it was split from), `InheritedStaysPrivate` (a
  parent that waits for no verdict has no task that could share it, nor is it being
  copied from a node that has one), `OneTaskUnlessSplit`, `EntryPresent`.
  `DeploymentAssumption`: no deployment has both a detector and a caller of
  `promote_to_budgeted`. Nothing in the repository calls it; exp2's script, which
  repeats its statements, gives the cache a mock judge without threads.
- `OverlapLoop_proofs`: `FlowInv` says that the batches the scheduler has still to
  process are, in order, the ones finished in `output_queue`, the one in the
  forward thread and the ones in `input_queue`, and that there are at most two of
  them. So the output taken from the queue belongs to the batch taken from
  `result_queue` (`ResultsMatched`), unless a flush comes in while a batch is under
  way (`FlushInFlight`, the run `overlap_flush`).

  On top of it `OverlapInv` says who owns each slot while one batch is computed
  and the next is prepared (`LoopInvariant`); from it follows `SlotsPartitioned`
  (`OverlapSlots`), under the same hypothesis. A slot has one owner only if the
  record of a request, the lists, the two outstanding batches and the rows agree,
  so the invariant has a part for each:
  - `Lives`: where a request can be, by its state, its part in the batch
    whose result is due and in the next one, its list and whether it is the chunked
    request, and how long its sequence is there (`LifeOf`, `Seated`). This is where
    results an iteration late come in: a finished request may be in one more
    decode batch and never in two, a retracted one in the batch whose result is due
    and never in the next.
  - `Lists` and `Rows`: nobody is on a list twice, at most one prompt is cut
    off, and a row has one request or is free.
  - `Locks`: a request that is running or was just admitted pins its prefix, which
    is in the tree at its own slots.
  - `Slots`: the pool is divided between the free list, the tree, the uncached
    tails of the rows and the extra slots of finished requests (`Part`), and the
    slot a batch decodes into is the last of its request's row (`LastSlot`).
    Without the last, "free the one extra delayed token" could free a slot that is
    already in the tree.
- `RadixTree_proofs`: lemmas about the tree as a value. A tree is well formed
  (`TreeOK`) when its places are closed under prefixes and every place lies
  on exactly one edge; `SizesOK` says that `evictable_size_` and `protected_size_` are the
  numbers of places without and with a lock below them. Splitting, inserting,
  evicting, locking and unlocking preserve both, and each lemma says which places
  and locks change (`SplitFacts`, `InsertFacts`, `EvictFacts`, ...). The argument is
  about the order `Above` on places; sizes are cardinalities of sets of places, so no
  sum has to be taken apart. The second half is about locks held by a set of
  requests (`Pins`, `LockedBy`) and slots shared out between tree, tails and free
  list (`Part`), whoever the requests are: the proofs of both schedulers use it.
- `RadixCache_proofs`, for any principals, objects, requests, slots, chunk sizes,
  in strict, balanced and public mode:
  - `LocksAreExact`: `LockInv` says that a held request's `last` is a node of
    the tree (or the root), and a node's lock is the number of held requests
    below it. An evicted node has no lock, hence no request below it; an insert
    and a split give new nodes the locks of what is below.
  - `OneChunked`: `ChunkInv` adds that a truncated prompt has used up the chunk
    budget of its batch, so no second one can be truncated.
  - `LedgerWithinBudget`: a lookup charges the nodes on its route, which are a chain and so
    have different fingerprints, each at most once and only below B.
  - `DeniedProbes`: a walk stops at the first node its principal may not see, and
    neither the split nor the lock reaches it (`Untouched`).
  - `RevokedNeverServed`: a lookup searches a public root only if its manifest is
    installed and not revoked.

  All of them assume `~FlushMidChunk`: a flush between two chunks resets the tree
  under the chunked request. The runs set the same.
- `RadixSlots_proofs`: who owns each slot, on top of `LockInv`. `SlotInv` says that
  a slot is free or is at one place of the tree or in one request's tail, the part
  of its row beyond `plen`, never in two of these (`Part`, `Apart`); that the first `plen`
  slots of a row are those of the tree at the request's own prefixes, `last` being
  the longest of them (`RowOK`); how long the row is in each state of the
  request (`LenOK`); and that a slot holds the KV of the prefix it stands for (`Holds`).
  The last needs the others: a forward pass writes only slots that were free, so
  nobody reads them. Inserting moves a tail into the tree and frees the part that
  was there already; eviction takes only places without a lock, hence no place
  of a row; an allocation is dealt out in disjoint intervals (`Dealt`). Proved:
  - `SlotsHaveOneOwner`, `KVStaysIntact`, `PrefixStays`, `TenantsShareNothing`, for
    the properties `SlotsPartitioned`, `KVIntact`, `PrefixPinned`, `TenantsDisjoint`;
  - `IdleMemoryAddsUp`: `check_memory`'s sum, which the run `cache_balanced_alias`
    shows to be wrong in balanced mode.

  The hypothesis `Private` is strict mode, no flush between two chunks, and
  requests that have a principal and no authorization (the run `cache_strict`
  has it). Each part is needed: balanced mode gives one slot a place in two trees.
  Without a principal `insert` returns 0 before it stores anything, and
  `cache_finished_req` then frees nothing beyond the prefix. With an
  authorization the row begins in the object's tree, not the principal's.

Three modelling choices are there for the proofs: the sum of a function
(`Total`) and the size of a set of nodes (`SizeOf`) are cardinalities of sets of
pairs and of places, which the finite-set theorems know, in place of folds; and a
filtered list (`Filter`) names the position each member comes from, in place of
`SelectSeq`, which is recursive.

Only model-checked:

- Liveness under fairness (`MethodsReturn`, `ThreadsReturn`, `VerdictArrives`,
  `DrainEnds`, `CallsEnd`, `RequestsEnd`): out of the prover's reach.
- `AdmittedFits` and `LastRequestFits`: true of the sizes in the instance.
  `add_chunked_req` does not ask the pool, so no invariant over all sizes implies
  them.
- `InputsIntact` of `OverlapLoop`. Its part about placeholders does not hold of
  every size (section 3). Its part about the KV that a batch reads needs, beyond
  `OverlapInv`, the content of every slot once the outstanding batches have
  written, and that the row of a batch is not given to another request before the
  batch is launched, a count of rows and places of the loop.

The slot properties of `RadixCache` are checked and proved for private requests in
strict mode only. With public objects or in balanced mode a slot may have several
owners; which of the properties remain there is neither checked nor proved.

## 5. Not modelled

`add_hits`, which saves a store it has not reloaded but has no caller in the
server; page sizes above 1; none and legacy mode (there eviction does not look
under `root_node`); KV events; speculative decoding; the compilation of grammars
(only the wait for their masks is there); LoRA; multimodal inputs; mixed chunks;
pipeline and data parallelism; disaggregation; hierarchical cache (its overrides
do not match SafeKV's calls); metrics; the detectors' patterns and models;
principal binding; the router, the kernels and the frontend language.
`components` gives the reason for each. Within the modelled parts:

- `RadixCache` has no `batch_is_full`: whether a request that fits is refused is a
  nondeterministic choice there. `OverlapLoop` has it.
- The limit on the tokens of a prefill batch (`rem_input_tokens`,
  `managers/schedule_policy.py:486`), in both schedulers: 16384 tokens stand far above any
  prompt here. It would refuse a request that fits otherwise.
- The branch of `_insert_helper` for `experiment_autoshare`
  (`mem_cache/radix_cache.py:916`), a server argument for measurements that is off
  by default: it shares new nodes at once, without screening, so
  `SharedOnlyIfCleared` does not hold with it.
- Two live requests with the same rid: the tokenizer manager does not look whether a
  client's rid is taken.
- `update_weights_from_distributed` and `update_weights_from_tensor` take the same
  lock and return in the same way as `update_weights_from_disk`, which is modelled.
- `_Communicator`, whose callers take turns.
- A writer cancelled while it waits is in `RWLock`, not in `TokenizerManager`: the
  server never cancels one. It would leave readers asleep until the next
  release.
- The text of a line stands for its hash; that one line of a prompt is screened
  for the whole node is modelled and no property is stated about the rest.
- `access_budget_B` = 0 (proved for the ledger only).
- Races between GPU streams.

## 6. Plan

1. Proofs: the KV part of `InputsIntact`; `KVIntact` and `PrefixPinned` of
   `RadixCache` with public objects and in balanced mode.
2. The paged allocator, and `RadixTree` with page size above 1.
3. An abstract specification of the cache (a map from principals to prefixes
   they may reuse) and `RadixCache` shown to implement it in strict mode.
