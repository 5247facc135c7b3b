-------------------------- MODULE TokenizerManager --------------------------
(***************************************************************************)
(* The life of a request in TokenizerManager and in the scheduler's        *)
(* queues: the reader lock around generate_request, rid_to_state, the      *)
(* aborts of clients that go away, and weight updates under the writer     *)
(* lock.  One tokenizer process and one scheduler (dp_size 1) in its       *)
(* normal loop.  The asyncio tasks share one thread: a step is what a task *)
(* does between two awaits.                                                *)
(*                                                                         *)
(* Messages to the scheduler are received in the order sent.  What the     *)
(* scheduler sends comes back on two paths, outputs through the            *)
(* detokenizer and everything else directly, each in order.                *)
(***************************************************************************)
EXTENDS RWLock, Sequences

CONSTANTS Streams,      \* the sets of requests that may be the streaming ones
          Leaver,       \* the requests whose client may go away
          Abortable,    \* the requests somebody may give to /abort_request
          Extending,    \* for each request, the ones whose rid starts with its rid
          MaxTokens,    \* the most tokens one request produces
          MaxRetracts   \* bound on retractions (they need a full KV pool)

ASSUME TokenizerAssumption ==
    /\ Streams \subseteq SUBSET Reader
    /\ Leaver \subseteq Reader
    /\ Abortable \subseteq Reader
    /\ Extending \in [Reader -> SUBSET Reader]
    /\ \A r \in Reader : r \in Extending[r]
    /\ MaxTokens \in Nat \ {0}
    /\ MaxRetracts \in Nat

Request == Reader
Update == Writer

VARIABLES stream,        \* obj.stream of each request
          conn,          \* the client is still connected
          task,          \* where generate_request and its response stand
          event,         \* what the ReqState's event and out_list hold
          rid_to_state,  \* the rids TokenizerManager keeps a ReqState for
          bg,            \* responses whose background abort is still to run
          byHand,        \* rids given to /abort_request
          upd,           \* where each weight update stands
          toSched,       \* send_to_scheduler
          toTok,         \* the scheduler's send_to_tokenizer
          outputs,       \* batches of outputs passing through the detokenizer
          sched,         \* where the scheduler has each request
          to_abort,      \* Req.to_abort
          tokens,        \* len(output_ids)
          retracts,      \* retractions so far
          dead           \* a failed assertion or KeyError killed the server

taskVars == <<stream, conn, task, event, rid_to_state, bg, byHand, upd>>
schedVars == <<sched, to_abort, tokens, retracts>>
netVars == <<toSched, toTok, outputs>>
vars == <<lockVars, taskVars, schedVars, netVars, dead>>

Req(r) == <<"req", r>>
Abort(r) == <<"abort", r>>
Weights(w) == <<"weights", w>>
Message == {"req", "abort"} \X Request \cup {"weights"} \X Update

TokTypeOK ==
    /\ LockTypeOK
    /\ stream \in [Request -> BOOLEAN]
    /\ conn \in [Request -> BOOLEAN]
    /\ task \in [Request -> {"new", "lock", "tokenize", "await", "closing", "over"}]
    /\ event \in [Request -> {"none", "part", "final"}]
    /\ {rid_to_state, bg, byHand, to_abort} \subseteq SUBSET Request
    /\ upd \in [Update -> {"new", "lock", "sent", "answered", "over"}]
    /\ {toSched, toTok} \subseteq Seq(Message)
    /\ outputs \in Seq([part : SUBSET Request, final : SUBSET Request])
    /\ sched \in [Request -> {"none", "queued", "last", "running", "finished",
                              "gone", "dropped"}]
    /\ tokens \in [Request -> 0 .. MaxTokens]
    /\ retracts \in 0 .. MaxRetracts
    /\ dead \in BOOLEAN

Init ==
    /\ LockInit
    /\ \E s \in Streams : stream = [r \in Request |-> r \in s]
    /\ conn = [r \in Request |-> TRUE]
    /\ task = [r \in Request |-> "new"]
    /\ event = [r \in Request |-> "none"]
    /\ rid_to_state = {} /\ bg = {} /\ byHand = {}
    /\ upd = [w \in Update |-> "new"]
    /\ toSched = <<>> /\ toTok = <<>> /\ outputs = <<>>
    /\ sched = [r \in Request |-> "none"]
    /\ to_abort = {}
    /\ tokens = [r \in Request |-> 0]
    /\ retracts = 0
    /\ dead = FALSE
-----------------------------------------------------------------------------
(* generate_request and the HTTP response around it. *)

\* The client calls, or its task is woken: it takes the reader lock or waits.
Acquire(r) ==
    /\ task[r] \in {"new", "lock"}
    /\ AcquireReader(r)
    /\ task' = [task EXCEPT ![r] = IF at'[r] = "in" THEN "tokenize" ELSE "lock"]
    /\ UNCHANGED <<stream, conn, event, rid_to_state, bg, byHand, upd,
                   schedVars, netVars, dead>>

\* A mutant: the lock covers tokenization and sending only.
Mut_SendOneRequest(r) ==
    /\ task[r] = "tokenize"
    /\ toSched' = Append(toSched, Req(r))
    /\ rid_to_state' = rid_to_state \cup {r}
    /\ task' = [task EXCEPT ![r] = "await"]
    /\ readers' = readers - 1
    /\ at' = Notified([at EXCEPT ![r] = "out"], readers' = 0)
    /\ UNCHANGED <<writer_active, waiting_writers, stream, conn, event, bg,
                   byHand, upd, schedVars, toTok, outputs, dead>>

\* _send_one_request, once the prompt is tokenized.
SendOneRequest(r) ==
    /\ task[r] = "tokenize"
    /\ toSched' = Append(toSched, Req(r))
    /\ rid_to_state' = rid_to_state \cup {r}
    /\ task' = [task EXCEPT ![r] = "await"]
    /\ UNCHANGED <<lockVars, stream, conn, event, bg, byHand, upd, schedVars,
                   toTok, outputs, dead>>

\* abort_request: nothing is sent for a rid that is no longer known.
AbortRequest(r) ==
    toSched' = IF r \in rid_to_state THEN Append(toSched, Abort(r)) ELSE toSched

\* The response ends; a streaming one then runs create_abort_task's task.
Ends(r) ==
    /\ task' = [task EXCEPT ![r] = "over"]
    /\ bg' = IF stream[r] THEN bg \cup {r} ELSE bg
    /\ event' = [event EXCEPT ![r] = "none"]

\* _tokenize_one_request raises: the lock is released on the way out.
TokenizeFails(r) ==
    /\ task[r] = "tokenize"
    /\ ReleaseReader(r)
    /\ Ends(r)
    /\ UNCHANGED <<stream, conn, rid_to_state, byHand, upd, schedVars, netVars,
                   dead>>

\* The waiter finds the client gone (type 1 after four silent seconds, type 3
\* after a partial output): it aborts and raises, which releases the lock.
AbortAndRaise(r) ==
    /\ AbortRequest(r)
    /\ ReleaseReader(r)
    /\ Ends(r)
    /\ UNCHANGED <<stream, conn, rid_to_state, byHand, upd, schedVars, toTok,
                   outputs, dead>>

\* wait_for's timeout.
Timeout(r) ==
    /\ task[r] = "await" /\ event[r] = "none"
    /\ ~conn[r]
    /\ AbortAndRaise(r)

\* The waiter takes a partial output: it is streamed, or the client is checked.
TakePart(r) ==
    /\ task[r] = "await" /\ event[r] = "part"
    /\ \/ /\ stream[r] \/ conn[r]
          /\ event' = [event EXCEPT ![r] = "none"]
          /\ UNCHANGED <<lockVars, stream, conn, task, rid_to_state, bg, byHand,
                         upd, schedVars, netVars, dead>>
       \/ /\ ~stream[r] /\ ~conn[r]
          /\ AbortAndRaise(r)

\* The waiter takes the last output and yields it inside the lock.
TakeFinal(r) ==
    /\ task[r] = "await" /\ event[r] = "final"
    /\ task' = [task EXCEPT ![r] = "closing"]
    /\ UNCHANGED <<lockVars, stream, conn, event, rid_to_state, bg, byHand, upd,
                   schedVars, netVars, dead>>

\* The generator is resumed, or finalized once __anext__ has returned.
Close(r) ==
    /\ task[r] = "closing"
    /\ ReleaseReader(r)
    /\ Ends(r)
    /\ UNCHANGED <<stream, conn, rid_to_state, byHand, upd, schedVars, netVars,
                   dead>>

\* The client goes away.
Disconnect(r) ==
    /\ r \in Leaver /\ conn[r]
    /\ task[r] \notin {"new", "over"}
    /\ conn' = [conn EXCEPT ![r] = FALSE]
    /\ UNCHANGED <<lockVars, stream, task, event, rid_to_state, bg, byHand, upd,
                   schedVars, netVars, dead>>

\* A mutant: acquire and release in try and finally, so that a task cancelled
\* before it has the lock releases it all the same.
Mut_CancelStream(r) ==
    /\ stream[r] /\ ~conn[r]
    /\ task[r] \in {"lock", "tokenize", "await", "closing"}
    /\ readers' = readers - 1
    /\ at' = Notified([at EXCEPT ![r] = "out"], readers' = 0)
    /\ Ends(r)
    /\ UNCHANGED <<writer_active, waiting_writers, stream, conn, rid_to_state,
                   byHand, upd, schedVars, netVars, dead>>

\* The web framework cancels the task that streams to a client that left.
CancelStream(r) ==
    /\ stream[r] /\ ~conn[r]
    /\ \/ task[r] = "lock" /\ CancelReader(r)
       \/ task[r] \in {"tokenize", "await", "closing"} /\ ReleaseReader(r)
    /\ Ends(r)
    /\ UNCHANGED <<stream, conn, rid_to_state, byHand, upd, schedVars, netVars,
                   dead>>

\* create_abort_task's task, two seconds after the response.
BackgroundAbort(r) ==
    /\ r \in bg
    /\ bg' = bg \ {r}
    /\ AbortRequest(r)
    /\ UNCHANGED <<lockVars, stream, conn, task, event, rid_to_state, byHand,
                   upd, schedVars, toTok, outputs, dead>>

\* /abort_request, from any client that knows the rid (once per rid).
AbortByHand(r) ==
    /\ r \in (rid_to_state \cap Abortable) \ byHand
    /\ byHand' = byHand \cup {r}
    /\ AbortRequest(r)
    /\ UNCHANGED <<lockVars, stream, conn, task, event, rid_to_state, bg, upd,
                   schedVars, toTok, outputs, dead>>
-----------------------------------------------------------------------------
(* Weight updates: from disk, from a distributed group and from tensors. *)

\* With the writer lock the message is sent at once.
UpdateAcquire(w) ==
    /\ upd[w] \in {"new", "lock"}
    /\ AcquireWriter(w)
    /\ upd' = [upd EXCEPT ![w] = IF at'[w] = "in" THEN "sent" ELSE "lock"]
    /\ toSched' = IF at'[w] = "in" THEN Append(toSched, Weights(w)) ELSE toSched
    /\ UNCHANGED <<stream, conn, task, event, rid_to_state, bg, byHand,
                   schedVars, toTok, outputs, dead>>

\* The result has come: the update returns and leaves the lock.
UpdateReturns(w) ==
    /\ upd[w] = "answered"
    /\ ReleaseWriter(w)
    /\ upd' = [upd EXCEPT ![w] = "over"]
    /\ UNCHANGED <<stream, conn, task, event, rid_to_state, bg, byHand,
                   schedVars, netVars, dead>>
-----------------------------------------------------------------------------
(* handle_loop: the handlers of what comes from the scheduler. *)

\* A mutant: the final output deletes the state and sets no event.
Mut_HandleBatchOutput ==
    /\ outputs # <<>>
    /\ rid_to_state' = rid_to_state \ Head(outputs).final
    /\ outputs' = Tail(outputs)
    /\ UNCHANGED <<lockVars, stream, conn, task, event, bg, byHand, upd,
                   schedVars, toSched, toTok, dead>>

\* _handle_batch_output; an output whose rid is unknown is skipped, and the
\* state of a finished request is deleted.
HandleBatchOutput ==
    /\ outputs # <<>>
    /\ LET b == Head(outputs)
           Waits(r) == r \in rid_to_state /\ task[r] = "await"
       IN  /\ rid_to_state' = rid_to_state \ b.final
           /\ event' = [r \in Request |->
                          CASE r \in b.final /\ Waits(r)           -> "final"
                            [] r \in b.part \ b.final /\ Waits(r)  -> "part"
                            [] OTHER                               -> event[r]]
    /\ outputs' = Tail(outputs)
    /\ UNCHANGED <<lockVars, stream, conn, task, bg, byHand, upd, schedVars,
                   toSched, toTok, dead>>

\* A mutant: the report of an aborted request is ignored.
Mut_HandleAbortReq ==
    /\ toTok # <<>> /\ Head(toTok)[1] = "abort"
    /\ toTok' = Tail(toTok)
    /\ UNCHANGED <<lockVars, taskVars, schedVars, toSched, outputs, dead>>

\* _handle_abort_req: pop raises KeyError for an unknown rid, and
\* print_exception_wrapper then kills the process tree.
HandleAbortReq ==
    /\ toTok # <<>> /\ Head(toTok)[1] = "abort"
    /\ LET r == Head(toTok)[2]
       IN  /\ dead' = (r \notin rid_to_state)
           /\ rid_to_state' = rid_to_state \ {r}
    /\ toTok' = Tail(toTok)
    /\ UNCHANGED <<lockVars, stream, conn, task, event, bg, byHand, upd,
                   schedVars, toSched, outputs>>

\* The handlers of the update results: they complete the future awaited.
HandleUpdateResult ==
    /\ toTok # <<>> /\ Head(toTok)[1] = "weights"
    /\ upd' = [upd EXCEPT ![Head(toTok)[2]] = "answered"]
    /\ toTok' = Tail(toTok)
    /\ UNCHANGED <<lockVars, stream, conn, task, event, rid_to_state, bg, byHand,
                   schedVars, toSched, outputs, dead>>
-----------------------------------------------------------------------------
(* The scheduler: process_input_requests, then one batch. *)

In(s) == {r \in Request : sched[r] = s}

HandleGenerateRequest ==
    /\ toSched # <<>> /\ Head(toSched)[1] = "req"
    /\ toSched' = Tail(toSched)
    /\ sched' = [sched EXCEPT ![Head(toSched)[2]] = "queued"]
    /\ UNCHANGED <<lockVars, taskVars, to_abort, tokens, retracts, toTok,
                   outputs, dead>>

\* The orders in which the requests of S can stand in waiting_queue.
Orders(S) ==
    {o \in [1 .. Cardinality(S) -> S] : \A i, j \in DOMAIN o : o[i] = o[j] => i = j}

\* Each removed request is reported to the tokenizer.
Reporting(q, o) == q \o [i \in DOMAIN o |-> Abort(o[i])]

\* A mutant: the requests are reported aborted and stay in waiting_queue.
Mut_SchedulerAbort ==
    /\ toSched # <<>> /\ Head(toSched)[1] = "abort"
    /\ toSched' = Tail(toSched)
    /\ LET hit == Extending[Head(toSched)[2]]
       IN  /\ \E o \in Orders(hit \cap In("queued")) :
                 toTok' = Reporting(toTok, o)
           /\ to_abort' = to_abort \cup (hit \cap (In("last") \cup In("running")))
    /\ UNCHANGED <<lockVars, taskVars, sched, tokens, retracts, outputs, dead>>

\* Scheduler.abort_request, for every request whose rid starts with the given
\* one: those queued are removed and reported back, those in the running batch
\* or in the batch just prefilled (cur_batch) are marked.
SchedulerAbort ==
    /\ toSched # <<>> /\ Head(toSched)[1] = "abort"
    /\ toSched' = Tail(toSched)
    /\ LET hit == Extending[Head(toSched)[2]]
       IN  /\ sched' = [r \in Request |-> IF r \in hit /\ sched[r] = "queued"
                                         THEN "gone" ELSE sched[r]]
           /\ \E o \in Orders(hit \cap In("queued")) :
                 toTok' = Reporting(toTok, o)
           /\ to_abort' = to_abort \cup (hit \cap (In("last") \cup In("running")))
    /\ UNCHANGED <<lockVars, taskVars, tokens, retracts, outputs, dead>>

\* flush_cache looks at the queue and the running batch, where finished
\* requests stay until the next decode step, and forgets last_batch.
CanFlush == In("queued") \cup In("running") \cup In("finished") = {}

\* The scheduler's update handlers: a load that fails is only reported; one that
\* succeeds is followed by flush_cache, whose failure trips an assertion.
SchedulerUpdate ==
    /\ toSched # <<>> /\ Head(toSched)[1] = "weights"
    /\ toSched' = Tail(toSched)
    /\ \E success \in BOOLEAN :
          /\ dead' = (success /\ ~CanFlush)
          /\ toTok' = IF dead' THEN toTok ELSE Append(toTok, Head(toSched))
          /\ sched' = [r \in Request |->
                         IF success /\ CanFlush /\ sched[r] = "last"
                         THEN "dropped" ELSE sched[r]]
    /\ UNCHANGED <<lockVars, taskVars, to_abort, tokens, retracts, outputs>>

\* Requests that must finish with their next token.
MustFinish == to_abort \cup {r \in Request : tokens[r] + 1 = MaxTokens}

\* stream_output for a batch: final for the requests that finished, part for any
\* of the others (stream_interval, or every fiftieth token without streaming).
StreamOutput(finished, others) ==
    \E p \in SUBSET others :
       outputs' = IF finished \cup p = {} THEN outputs
                  ELSE Append(outputs, [part |-> p, final |-> finished])

\* A prefill batch: the last one is merged into the running batch, some queued
\* requests are admitted and produce a token.
Prefill ==
    \E admitted \in (SUBSET In("queued")) \ {{}} :
    \E finished \in {f \in SUBSET admitted : admitted \cap MustFinish \subseteq f} :
       /\ sched' = [r \in Request |->
                      CASE r \in finished             -> "gone"
                        [] r \in admitted \ finished  -> "last"
                        [] sched[r] = "last"          -> "running"
                        [] OTHER                      -> sched[r]]
       /\ tokens' = [r \in Request |-> tokens[r] + IF r \in admitted THEN 1 ELSE 0]
       /\ StreamOutput(finished, admitted \ finished)
       /\ UNCHANGED <<lockVars, taskVars, to_abort, retracts, toSched, toTok, dead>>

\* A decode step, when nothing is admitted (nothing is queued, or the running
\* requests leave no room): finished requests are filtered out, some may be
\* retracted to the queue, never all, and the rest produce a token.
Decode ==
    LET merged == In("last") \cup In("running") IN
    /\ merged \cup In("finished") # {}
    /\ In("queued") = {} \/ merged # {}
    /\ \E retracted \in {t \in SUBSET merged : t = {} \/ t # merged} :
       \E finished \in {f \in SUBSET (merged \ retracted) :
                          (merged \ retracted) \cap MustFinish \subseteq f} :
          /\ retracts' = retracts + Cardinality(retracted)
          /\ retracts' <= MaxRetracts
          /\ sched' = [r \in Request |->
                         CASE r \in retracted                         -> "queued"
                           [] r \in finished                          -> "finished"
                           [] r \in merged \ (retracted \cup finished) -> "running"
                           [] sched[r] = "finished"                   -> "gone"
                           [] OTHER                                   -> sched[r]]
          /\ tokens' = [r \in Request |->
                          tokens[r] + IF r \in merged \ retracted THEN 1 ELSE 0]
          /\ StreamOutput(finished, merged \ (retracted \cup finished))
    /\ UNCHANGED <<lockVars, taskVars, to_abort, toSched, toTok, dead>>
-----------------------------------------------------------------------------
Waiter(r) ==
    \/ SendOneRequest(r) \/ TokenizeFails(r)
    \/ Timeout(r) \/ TakePart(r) \/ TakeFinal(r) \/ Close(r)

HandleLoop == HandleBatchOutput \/ HandleAbortReq \/ HandleUpdateResult
ProcessInput == HandleGenerateRequest \/ SchedulerAbort \/ SchedulerUpdate
RunBatch == Prefill \/ Decode

Next ==
    /\ ~dead
    /\ \/ \E r \in Request :
             \/ Acquire(r) \/ Waiter(r) \/ CancelStream(r) \/ BackgroundAbort(r)
             \/ Disconnect(r) \/ AbortByHand(r)
       \/ \E w \in Update : UpdateAcquire(w) \/ UpdateReturns(w)
       \/ HandleLoop \/ ProcessInput \/ RunBatch

\* The event loop runs every ready task and fires every timer, the web framework
\* cancels the streams of clients that left, and both processes keep looping.
\* Nothing obliges a client to call, to leave or to abort by hand.
Fairness ==
    /\ \A r \in Request :
          /\ WF_vars(~dead /\ task[r] = "lock" /\ Acquire(r))
          /\ WF_vars(~dead /\ Waiter(r))
          /\ WF_vars(~dead /\ CancelStream(r))
          /\ WF_vars(~dead /\ BackgroundAbort(r))
    /\ \A w \in Update :
          /\ WF_vars(~dead /\ upd[w] = "lock" /\ UpdateAcquire(w))
          /\ WF_vars(~dead /\ UpdateReturns(w))
    /\ WF_vars(~dead /\ HandleBatchOutput)
    /\ WF_vars(~dead /\ (HandleAbortReq \/ HandleUpdateResult))
    /\ WF_vars(~dead /\ ProcessInput)
    /\ WF_vars(~dead /\ RunBatch)

Spec == Init /\ [][Next]_vars /\ Fairness
-----------------------------------------------------------------------------
(* Properties. *)

\* The tasks keep to the lock's protocol: every step of the tokenizer is a step
\* of RWLock or leaves it alone, so that what holds of the lock under any use
\* holds here (generate_request's and the updates' async with).
ImplementsLock == LockSpec

Occurs(m, q) == \E i \in DOMAIN q : q[i] = m
FinalPending(r) == \E i \in DOMAIN outputs : r \in outputs[i].final

\* An AbortReq on its way to the tokenizer finds its rid: however many aborts a
\* request gets, from the timeout, the background task and /abort_request, and
\* even if it was retracted after an earlier one, _handle_abort_req's pop never
\* raises and handle_loop survives.
AbortFindsState ==
    \A r \in Request : Occurs(Abort(r), toTok) =>
       r \in rid_to_state /\ ~FinalPending(r)

\* A waiter nobody will wake: its state is gone and it got no final output.
Stranded(r) == task[r] = "await" /\ event[r] = "none" /\ r \notin rid_to_state

\* An abort not caused by r's own client reaches r: one by hand, or that of
\* another client that left, of a rid r's rid starts with.
Caught(r) ==
    \E q \in Request : r \in Extending[q] /\ (q \in byHand \/ (q # r /\ ~conn[q]))

\* A waiter is left without an answer only by an abort that was not its own:
\* somebody aborted its rid, or a prefix of it, by hand, or the client of a
\* request whose rid is a prefix of its rid went away.  The aborts of its own
\* _wait_one_response and create_abort_task never leave it behind.
StrandedOnlyByOthers == \A r \in Request : Stranded(r) => Caught(r)

\* A weight update never takes away a request somebody still waits for: only
\* requests whose response is over are forgotten by the flush that follows it.
UpdateSparesWaiters == \A r \in Request : sched[r] = "dropped" => task[r] = "over"

\* The draining loop of sigterm_watchdog ends: every rid leaves rid_to_state,
\* unless flush_cache forgot its request or the server died.
DrainEnds ==
    \A r \in Request :
       r \in rid_to_state ~> r \notin rid_to_state \/ sched[r] = "dropped" \/ dead

Stuck == dead \/ \E r \in Request : Stranded(r)

\* Every call of generate_request ends, connected or not, waiting for the lock
\* or for an output, and every weight update gets the writer lock and returns,
\* unless a waiter that somebody else's abort stranded keeps the reader lock.
CallsEnd ==
    /\ \A r \in Request : task[r] # "new" ~> task[r] = "over" \/ Stuck
    /\ \A w \in Update : upd[w] # "new" ~> upd[w] = "over" \/ Stuck

\* "weight sync cannot run while requests are in progress"
\* (tokenizer_manager.py:851): no request is in the scheduler when it takes up
\* an update.
UpdateExcludesRequests ==
    (toSched # <<>> /\ Head(toSched)[1] = "weights") =>
       In("queued") \cup In("last") \cup In("running") = {}
=============================================================================
