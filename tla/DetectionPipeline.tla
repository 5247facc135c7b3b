-------------------------- MODULE DetectionPipeline --------------------------
(***************************************************************************)
(* How a new node gets its verdict: update_privacy queues a task, the two  *)
(* tiers of PrivateJudgeService screen one line of the prompt, tier 2 asks *)
(* the model's thread through PiiBERTClient, and _response_task applies    *)
(* the answer to the node while lookups use it (BalancedHit).              *)
(*                                                                         *)
(* Every queue has one reading thread, so what a thread does between       *)
(* taking a task from a list and passing it on is one step, except where   *)
(* another thread can see the middle of it: PiiBERTClient's response_cache *)
(* and the node's fields.  The text stands for its hash, which is the      *)
(* request id.                                                             *)
(***************************************************************************)
EXTENDS BalancedHit

CONSTANTS
    Text,      \* lines of prompts
    Tier1,     \* Tier1[x]: "match", "miss" or "error" (a handler's bad result)
    Tier2,     \* Tier2[x]: what the model says, or "error" (it raises)
    Prompt,    \* prompts, as sequences of lines
    NoPrompt,  \* a request given as token ids
    Inserts,   \* <<n, m, e, p>>: node n may come below m (NoNode: a root), with edge
               \* e and prompt p
    MaxTasks   \* bound: tasks in the pipeline at a time

\* is_private with a confidence outside (0.3, 0.7), or a confidence inside.
Answer == {"private", "public", "uncertain"}

ASSUME PipelineAssumption ==
    /\ Tier1 \in [Text -> {"match", "miss", "error"}]
    /\ Tier2 \in [Text -> Answer \cup {"error"}]
    /\ Prompt \subseteq Seq(Text) \ {<<>>} /\ NoPrompt \notin Prompt
    /\ Inserts \subseteq Node \X (Node \cup {NoNode}) \X Edge \X (Prompt \cup {NoPrompt})
    /\ MaxTasks \in Nat

\* Nothing in the server calls promote_to_budgeted; a process that called it would
\* be one like the scripts, whose judge has no threads.
ASSUME DeploymentAssumption ==
    \A s \in Deployment : Detector \cap s # {} => Promoter \cap s = {}

VARIABLES
    parent,    \* node.parent, NoNode for a root
    prompt,    \* node.prompt
    need,      \* node.need_check_privacy
    tag,       \* node.private_tag
    skipped,   \* history: nodes never screened because of their parent
    halves,    \* history: nodes made by _split_node
    half,      \* the fields that _split_node has copied so far
    queue,     \* queue[s]: the tasks waiting at stage s
    asked,     \* tier_2_task_queue
    replies,   \* tier_2_result_queue
    cache,     \* PiiBERTClient.response_cache
    second,    \* the tier 2 thread: where it is and its task
    hand,      \* hand[d]: the task a _response_task thread is applying
    available, \* pii_bert_available, fixed at start
    alive      \* the model's thread has not died

nodeVars == <<parent, prompt, need, tag, skipped, halves, half>>
judgeVars == <<nodeVars, queue, asked, replies, cache, second, hand, available, alive>>
pvars == <<vars, judgeVars>>

Stage == {"tier_1", "first", "second", "result", "final"}
Task == [node : Node \cup {NoNode}, text : Text, privacy : BOOLEAN]
Idle == [at |-> "idle"]   \* a thread without a task

PInit ==
    /\ Init
    /\ parent = [n \in Node |-> NoNode]
    /\ prompt = [n \in Node |-> NoPrompt]
    /\ need = [n \in Node |-> TRUE]
    /\ tag = [n \in Node |-> 1]
    /\ skipped = {} /\ halves = {} /\ half = Idle
    /\ queue = [s \in Stage |-> <<>>]
    /\ asked = <<>> /\ replies = <<>>
    /\ cache = [x \in Text |-> "missing"]
    /\ second = Idle
    /\ hand = [d \in Detector |-> Idle]
    /\ available \in BOOLEAN
    /\ alive = TRUE

\* The line that is screened: the last but one, or the only one.
Line(p) == IF Len(p) > 1 THEN p[Len(p) - 1] ELSE p[1]

Move(from, to, task) ==
    queue' = [queue EXCEPT ![from] = Tail(@), ![to] = Append(@, task)]

InFlight ==
    Len(queue["tier_1"]) + Len(queue["first"]) + Len(queue["second"])
    + Len(queue["result"]) + Len(queue["final"])
    + Cardinality({d \in Detector : hand[d] # Idle})
    + IF second = Idle THEN 0 ELSE 1

-----------------------------------------------------------------------------
\* Mutant: a parent that still waits for its verdict counts as confirmed.
Mut_UpdatePrivacy(n, up, p) ==
    LET inherits == up # NoNode /\ tag[up] = 1
        screened == ~inherits /\ p # NoPrompt
    IN  /\ tag' = [tag EXCEPT ![n] = 1]
        /\ prompt' = [prompt EXCEPT ![n] = p]
        /\ need' = [need EXCEPT ![n] = screened]
        /\ skipped' = IF inherits THEN skipped \cup {n} ELSE skipped
        /\ queue' = IF screened
                    THEN [queue EXCEPT !["tier_1"] = Append(@,
                            [node |-> n, text |-> Line(p), privacy |-> TRUE])]
                    ELSE queue

\* The scheduler inserts a node and calls update_privacy: a node below one that
\* does not wait for a verdict and is tagged private, and a node without text, are
\* not screened.  The first test calls its parent confirmed, but a parent without
\* text passes it unscreened.
UpdatePrivacy(n, up, p) ==
    LET inherits == up # NoNode /\ ~need[up] /\ tag[up] = 1
        screened == ~inherits /\ p # NoPrompt
    IN  /\ tag' = [tag EXCEPT ![n] = 1]
        /\ prompt' = [prompt EXCEPT ![n] = p]
        /\ need' = [need EXCEPT ![n] = screened]
        /\ skipped' = IF inherits THEN skipped \cup {n} ELSE skipped
        /\ queue' = IF screened
                    THEN [queue EXCEPT !["tier_1"] = Append(@,
                            [node |-> n, text |-> Line(p), privacy |-> TRUE])]
                    ELSE queue

\* The scripts insert token ids and give the cache a judge that does nothing.
\* (experiment_autoshare, which shares new nodes unscreened, is off.)
InsertNode(n, up, e, p) ==
    /\ Insert(n, e)
    /\ up # NoNode => vis[up] # "absent"
    /\ \A m \in Node : vis[m] # "absent" /\ parent[m] = up => Head(edge[m]) # Head(e)
    /\ parent' = [parent EXCEPT ![n] = up]
    /\ InFlight < MaxTasks \/ p = NoPrompt
    /\ \/ Detector \cap threads # {} /\ UpdatePrivacy(n, up, p)
       \/ /\ Detector \cap threads = {} /\ p = NoPrompt
          /\ UNCHANGED <<tag, prompt, need, skipped, queue>>
    /\ UNCHANGED <<halves, half, asked, replies, cache, second, hand, available, alive>>

\* _split_node copies private_tag ...
CopyTag(t, n) ==
    /\ SplitBegins(t, n)
    /\ half' = [at |-> "tag", tag |-> tag[n], need |-> TRUE]
    /\ UNCHANGED <<parent, prompt, need, tag, skipped, halves, queue, asked, replies,
                   cache, second, hand, available, alive>>

\* ... need_check_privacy ...
CopyNeed(t) ==
    /\ pc[t] = "split" /\ half.at = "tag"
    /\ half' = [half EXCEPT !.at = "need", !.need = need[at[t]]]
    /\ UNCHANGED <<vars, parent, prompt, need, tag, skipped, halves, queue, asked,
                   replies, cache, second, hand, available, alive>>

\* Mutant: the front half becomes the node that the task points to.
Mut_LinkHalf(t, u) ==
    /\ half.at = "need" /\ SplitLinks(t, u)
    /\ LET n == at[t]
       IN  /\ tag' = [tag EXCEPT ![u] = half.tag]
           /\ need' = [need EXCEPT ![u] = half.need]
           /\ prompt' = [prompt EXCEPT ![u] = prompt[n]]
           /\ parent' = [parent EXCEPT ![u] = parent[n], ![n] = u]
           /\ skipped' = IF n \in skipped THEN skipped \cup {u} ELSE skipped
           /\ queue' = [s \in Stage |-> [i \in DOMAIN queue[s] |->
                          IF queue[s][i].node = n THEN [queue[s][i] EXCEPT !.node = u]
                          ELSE queue[s][i]]]
    /\ halves' = halves \cup {u}
    /\ half' = Idle
    /\ UNCHANGED <<asked, replies, cache, second, hand, available, alive>>

\* ... visibility last, and puts the new half above the node.  The task that is on
\* its way answers for the old node only.
LinkHalf(t, u) ==
    /\ half.at = "need" /\ SplitLinks(t, u)
    /\ LET n == at[t]
       IN  /\ tag' = [tag EXCEPT ![u] = half.tag]
           /\ need' = [need EXCEPT ![u] = half.need]
           /\ prompt' = [prompt EXCEPT ![u] = prompt[n]]
           /\ parent' = [parent EXCEPT ![u] = parent[n], ![n] = u]
           /\ skipped' = IF n \in skipped THEN skipped \cup {u} ELSE skipped
    /\ halves' = halves \cup {u}
    /\ half' = Idle
    /\ UNCHANGED <<queue, asked, replies, cache, second, hand, available, alive>>

SplitStep(t) == CopyNeed(t) \/ \E u \in Node : LinkHalf(t, u)

\* A task of an evicted node keeps pointing to the dead object.
Orphan(task, n) == IF task.node = n THEN [task EXCEPT !.node = NoNode] ELSE task

\* Leaves are evicted first.
EvictNode(n) ==
    /\ Evict(n)
    /\ \A m \in Node : parent[m] # n
    /\ queue' = [s \in Stage |->
                    [i \in DOMAIN queue[s] |-> Orphan(queue[s][i], n)]]
    /\ second' = IF second = Idle THEN second
                 ELSE [second EXCEPT !.task = Orphan(@, n)]
    /\ hand' = [d \in Detector |->
                  IF hand[d] = Idle THEN Idle
                  ELSE [hand[d] EXCEPT !.task = Orphan(@, n)]]
    /\ parent' = [parent EXCEPT ![n] = NoNode]
    /\ prompt' = [prompt EXCEPT ![n] = NoPrompt]
    /\ need' = [need EXCEPT ![n] = TRUE]
    /\ tag' = [tag EXCEPT ![n] = 1]
    /\ skipped' = skipped \ {n} /\ halves' = halves \ {n}
    /\ UNCHANGED <<half, asked, replies, cache, available, alive>>

-----------------------------------------------------------------------------
\* PrivateJudgeService._process_requests.
ProcessRequest ==
    /\ queue["tier_1"] # <<>>
    /\ Move("tier_1", "first", Head(queue["tier_1"]))
    /\ UNCHANGED <<vars, nodeVars, asked, replies, cache,
                   second, hand, available, alive>>

\* Mutant: a task whose screening raised is tried again at once.
Mut_FirstLevel ==
    /\ queue["first"] # <<>>
    /\ LET task == Head(queue["first"])
       IN  \/ Tier1[task.text] = "miss" /\ Move("first", "second", task)
           \/ Tier1[task.text] = "match" /\ Move("first", "result", task)
           \/ Tier1[task.text] = "error" /\ UNCHANGED queue
    /\ UNCHANGED <<vars, nodeVars, asked, replies, cache,
                   second, hand, available, alive>>

\* Tier 1.  An exception drops the task.
FirstLevel ==
    /\ queue["first"] # <<>>
    /\ LET task == Head(queue["first"])
       IN  \/ Tier1[task.text] = "miss" /\ Move("first", "second", task)
           \/ Tier1[task.text] = "match" /\ Move("first", "result", task)
           \/ /\ Tier1[task.text] = "error"
              /\ queue' = [queue EXCEPT !["first"] = Tail(@)]
    /\ UNCHANGED <<vars, nodeVars, asked, replies, cache,
                   second, hand, available, alive>>

\* Tier 2 takes a task; without the model it is private.  detect_privacy asks the
\* model (it would not if the text were in response_cache; EntryPresent says that
\* it never is) ...
SecondLevel ==
    /\ second = Idle /\ queue["second"] # <<>>
    /\ LET task == Head(queue["second"])
       IN  \/ /\ ~available
              /\ Move("second", "result", task)
              /\ UNCHANGED <<asked, second>>
           \/ /\ available /\ cache[task.text] = "missing"
              /\ queue' = [queue EXCEPT !["second"] = Tail(@)]
              /\ asked' = Append(asked, task.text)
              /\ second' = [at |-> "put", task |-> task]
    /\ UNCHANGED <<vars, nodeVars, replies, cache, hand,
                   available, alive>>

\* ... and only then makes the entry the answer goes to.
MakeEntry ==
    /\ second.at = "put"
    /\ cache' = [cache EXCEPT ![second.task.text] = "none"]
    /\ second' = [second EXCEPT !.at = "wait"]
    /\ UNCHANGED <<vars, nodeVars, queue, asked, replies, hand,
                   available, alive>>

\* Mutant: an uncertain answer counts as not private.
Mut_Uncertain_SecondCollects ==
    /\ second.at = "wait"
    /\ cache[second.task.text] \in Answer
    /\ LET res == cache[second.task.text]
       IN  queue' = [queue EXCEPT !["result"] = Append(@,
              [second.task EXCEPT !.privacy = res = "private"])]
    /\ cache' = [cache EXCEPT ![second.task.text] = "missing"]
    /\ second' = Idle
    /\ UNCHANGED <<vars, nodeVars, asked, replies, hand,
                   available, alive>>

\* Mutant: free_cache is not called.
Mut_NoFree_SecondCollects ==
    /\ second.at = "wait"
    /\ cache[second.task.text] \in Answer
    /\ LET res == cache[second.task.text]
       IN  queue' = [queue EXCEPT !["result"] = Append(@,
              [second.task EXCEPT !.privacy = res # "public"])]
    /\ second' = Idle
    /\ UNCHANGED <<vars, nodeVars, asked, replies, cache, hand,
                   available, alive>>

\* detect_privacy_sync returns: uncertain means private; free_cache.
SecondCollects ==
    /\ second.at = "wait"
    /\ cache[second.task.text] \in Answer
    /\ LET res == cache[second.task.text]
       IN  queue' = [queue EXCEPT !["result"] = Append(@,
              [second.task EXCEPT !.privacy = res # "public"])]
    /\ cache' = [cache EXCEPT ![second.task.text] = "missing"]
    /\ second' = Idle
    /\ UNCHANGED <<vars, nodeVars, asked, replies, hand,
                   available, alive>>

\* PiiPrivacyService._process_requests: _handle_requests is outside the try, so
\* an exception of the model ends the thread.
ModelServes ==
    /\ alive /\ asked # <<>>
    /\ asked' = Tail(asked)
    /\ LET x == Head(asked)
       IN  \/ /\ Tier2[x] = "error"
              /\ alive' = FALSE /\ UNCHANGED replies
           \/ /\ Tier2[x] # "error"
              /\ replies' = Append(replies, [text |-> x, answer |-> Tier2[x]])
              /\ UNCHANGED alive
    /\ UNCHANGED <<vars, nodeVars, queue, cache, second, hand,
                   available>>

\* PiiBERTClient._process_responses.
HandleResponse ==
    /\ replies # <<>>
    /\ cache' = [cache EXCEPT ![Head(replies).text] = Head(replies).answer]
    /\ replies' = Tail(replies)
    /\ UNCHANGED <<vars, nodeVars, queue, asked, second, hand,
                   available, alive>>

\* PrivateJudgeService._process_result_tasks.
ProcessResult ==
    /\ queue["result"] # <<>>
    /\ Move("result", "final", Head(queue["result"]))
    /\ UNCHANGED <<vars, nodeVars, asked, replies, cache,
                   second, hand, available, alive>>

-----------------------------------------------------------------------------
Live(n) == n # NoNode
\* The last statement of _response_task's loop.
Checked(n) == need' = IF Live(n) THEN [need EXCEPT ![n] = FALSE] ELSE need

\* _response_task takes an answer.  Private, or permanently private: only the
\* flags are written; else private_tag first ...
TakeVerdict(d) ==
    /\ d \in threads /\ hand[d] = Idle /\ queue["final"] # <<>>
    /\ queue' = [queue EXCEPT !["final"] = Tail(@)]
    /\ LET task == Head(queue["final"])
           n == task.node
           final == task.privacy \/ (Live(n) /\ perm[n])
       IN  /\ tag' = IF Live(n) /\ (task.privacy \/ ~perm[n])
                     THEN [tag EXCEPT ![n] = IF task.privacy THEN 1 ELSE 0]
                     ELSE tag
           /\ hand' = [hand EXCEPT ![d] = IF final THEN Idle
                                          ELSE [at |-> "tagged", task |-> task]]
           /\ IF final THEN Checked(n) ELSE UNCHANGED need
    /\ UNCHANGED <<vars, parent, prompt, skipped, halves, half, asked, replies,
                   cache, second, available, alive>>

\* Mutant: visibility is set without the test.
Mut_TestVisibility(d) ==
    /\ pc[d] = "idle" /\ hand[d].at = "tagged"
    /\ LET n == hand[d].task.node
       IN  vis' = IF Live(n) THEN [vis EXCEPT ![n] = "budgeted_shared"] ELSE vis
    /\ hand' = [hand EXCEPT ![d].at = "written"]
    /\ UNCHANGED <<threads, edge, perm, holder, charged, served, pc, at, nodeVars, queue,
                   asked, replies, cache, second, available, alive>>

\* ... then visibility is tested ...
TestVisibility(d) ==
    /\ pc[d] = "idle" /\ hand[d].at = "tagged"
    /\ LET n == hand[d].task.node
       IN  \/ /\ Live(n) /\ vis[n] = "private"
              /\ Start(d, n, "private")
              /\ UNCHANGED <<need, hand>>
           \/ /\ Live(n) => vis[n] # "private"
              /\ Checked(n)
              /\ hand' = [hand EXCEPT ![d] = Idle]
              /\ UNCHANGED <<pc, at>>
    /\ UNCHANGED <<threads, vis, edge, perm, holder, charged, served, parent, prompt,
                   tag, skipped, halves, half, queue, asked, replies, cache, second,
                   available, alive>>

\* ... and written ...
WriteVisibility(d) ==
    /\ DetectorWrites(d)
    /\ hand' = [hand EXCEPT ![d].at = "written"]
    /\ UNCHANGED <<nodeVars, queue, asked, replies, cache, second, available, alive>>

\* ... and need_check_privacy last.
ClearNeed(d) ==
    /\ hand[d].at = "written"
    /\ Checked(hand[d].task.node)
    /\ hand' = [hand EXCEPT ![d] = Idle]
    /\ UNCHANGED <<vars, parent, prompt, tag, skipped, halves, half, queue, asked,
                   replies, cache, second, available, alive>>

Respond(d) ==
    TakeVerdict(d) \/ TestVisibility(d) \/ WriteVisibility(d) \/ ClearNeed(d)

\* A step of a lookup or of promote_to_budgeted.
CacheStep(t) == t \notin Detector /\ Advance(t) /\ UNCHANGED judgeVars

PNext ==
    \/ \E w \in Inserts : InsertNode(w[1], w[2], w[3], w[4])
    \/ \E n \in Node : EvictNode(n)
    \/ \E t \in Lookup, n \in Node : CopyTag(t, n)
    \/ \E t \in Lookup : SplitStep(t)
    \/ ProcessRequest \/ FirstLevel
    \/ SecondLevel \/ MakeEntry \/ SecondCollects
    \/ ModelServes \/ HandleResponse \/ ProcessResult
    \/ \E d \in Detector : Respond(d)
    \/ \E t \in Thread : CacheStep(t)
    \/ \E t \in Lookup, n \in Node : VisibleTo(t, n) /\ UNCHANGED judgeVars
    \/ \E p \in Promoter, n \in Node : PromoteLocks(p, n) /\ UNCHANGED judgeVars

PSpec == PInit /\ [][PNext]_pvars

\* The threads are daemons that poll: each goes on as long as it has something to
\* do.  A thread inside a lookup, a split or promote_to_budgeted is not suspended
\* for ever, and a lock that stays free is taken by one who waits for it.  Requests
\* and evictions need not come.
PFairSpec ==
    /\ PSpec
    /\ WF_pvars(ProcessRequest) /\ WF_pvars(FirstLevel)
    /\ WF_pvars(SecondLevel) /\ WF_pvars(MakeEntry) /\ WF_pvars(SecondCollects)
    /\ WF_pvars(ModelServes) /\ WF_pvars(HandleResponse) /\ WF_pvars(ProcessResult)
    /\ \A d \in Detector : WF_pvars(Respond(d))
    /\ \A t \in Thread : WF_pvars(CacheStep(t))
    /\ \A t \in Lookup : WF_pvars(SplitStep(t))

-----------------------------------------------------------------------------
PTypeOK ==
    /\ TypeOK
    /\ parent \in [Node -> Node \cup {NoNode}]
    /\ prompt \in [Node -> Prompt \cup {NoPrompt}]
    /\ need \in [Node -> BOOLEAN] /\ tag \in [Node -> {0, 1}]
    /\ skipped \subseteq Node /\ halves \subseteq Node
    /\ half \in {Idle} \cup [at : {"tag", "need"}, tag : {0, 1}, need : BOOLEAN]
    /\ queue \in [Stage -> Seq(Task)]
    /\ asked \in Seq(Text) /\ replies \in Seq([text : Text, answer : Answer])
    /\ cache \in [Text -> Answer \cup {"missing", "none"}]
    /\ second \in {Idle} \cup [at : {"put", "wait"}, task : Task]
    /\ hand \in [Detector -> {Idle} \cup [at : {"tagged", "written"}, task : Task]]
    /\ available \in BOOLEAN /\ alive \in BOOLEAN

\* Both tiers let the line of the node's prompt pass.
Cleared(x) == Tier1[x] = "miss" /\ Tier2[x] = "public"

\* PrivateJudgeService: a node other tenants may use, or have used up, has had its
\* own line cleared by both tiers ("When Tier 2 is uncertain, conservatively keep
\* the block as private"), whatever was evicted, inserted again or answered late.
SharedOnlyIfCleared ==
    Detector \cap threads # {} =>
        \A n \in Node : vis[n] \in {"budgeted_shared", "exhausted_private"} =>
            prompt[n] # NoPrompt /\ Cleared(Line(prompt[n])) /\ available

\* update_privacy: a node is not screened when its parent is private and does not
\* wait for a verdict.  No verdict that is still on its way, for the parent or for
\* a node it was split from, shares the parent afterwards.  (The parent need not
\* have been screened itself: see UpdatePrivacy.)
InheritedStaysPrivate ==
    [][\A n \in skipped \cap skipped' :
          vis[parent[n]] = "private" => vis'[parent[n]] = "private"]_pvars

\* The tasks that will answer for node n, wherever they are.
TasksOf(n) ==
    (UNION {{<<s, i>> : i \in {j \in DOMAIN queue[s] : queue[s][j].node = n}} :
              s \in Stage})
    \cup (IF second # Idle /\ second.task.node = n THEN {<<"tier_2", 0>>} ELSE {})
    \cup {<<"hand", d>> : d \in {d \in Detector :
                               hand[d] # Idle /\ hand[d].task.node = n}}

\* _process_*_tasks, _response_task, _split_node: a node has at most one task on its
\* way, and none once it has its verdict or if it was made by a split; a node that
\* waits without a task is one on whose line tier 1 raised, or a half that copied
\* need_check_privacy, for which nobody will answer.  In particular no second
\* answer can overwrite the budget a lookup is counting.
OneTaskUnlessSplit ==
    Detector \cap threads # {} =>
        \A n \in Node :
            /\ Cardinality(TasksOf(n)) <= 1
            /\ vis[n] # "absent" /\ (~need[n] \/ n \in halves) => TasksOf(n) = {}
            /\ vis[n] # "absent" /\ need[n] /\ TasksOf(n) = {} =>
                  n \in halves \/ Tier1[Line(prompt[n])] = "error"

\* detect_privacy_sync, free_cache: the tier 2 thread only waits for an id that is
\* in response_cache, so it never comes to the path where free_cache raises
\* KeyError and ends the thread; and nobody else's answer is left there for it.
EntryPresent ==
    /\ second.at = "wait" => cache[second.task.text] # "missing"
    /\ \A x \in Text : cache[x] # "missing" => second # Idle /\ second.task.text = x

\* The judge's threads touch a node only as BalancedHit's detector does: the whole
\* pipeline is an implementation of it, and what holds there holds here.
ImplementsHit == Spec

\* The tier 2 thread waits for an answer that has come and gone, or never comes.
Stalled ==
    /\ second.at = "wait" /\ cache[second.task.text] = "none"
    /\ replies = <<>> /\ (asked = <<>> \/ ~alive)

\* Every node that is submitted gets its verdict or is evicted, unless tier 1
\* raised on its line or tier 2 is stalled (_process_second_level_tasks).
VerdictArrives ==
    \A n \in Node :
        need[n] /\ TasksOf(n) # {} ~> ~need[n] \/ TasksOf(n) = {} \/ Stalled
=============================================================================
