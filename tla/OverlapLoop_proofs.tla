-------------------------- MODULE OverlapLoop_proofs -------------------------
(***************************************************************************)
(* The overlapped loop, for any requests, pool and server arguments, as    *)
(* long as flush_cache is not called with a batch in flight.               *)
(*                                                                         *)
(* First the hand-over between the two threads: the scheduler matches      *)
(* every result with the batch it launched an iteration ago. A batch is an *)
(* arbitrary value there; FlowInv says that both threads keep the batches  *)
(* in the same order.                                                      *)
(*                                                                         *)
(* Then who owns a slot of the KV pool. A result is applied one iteration  *)
(* after its batch was prepared, so a request may have finished, or have   *)
(* been retracted, while a later batch still holds a slot for it.          *)
(* OverlapInv says where every request is (its record, the lists and the   *)
(* two outstanding batches agree), that rows and pins belong to the        *)
(* requests that hold them, and that a slot is free, at one place of the   *)
(* tree, in the tail of one request, or the extra slot of one finished     *)
(* request.                                                                *)
(***************************************************************************)
EXTENDS OverlapLoop, RadixTree_proofs

\* s is a sequence, of whatever it holds.
IsSeq(s) == s \in Seq({s[i] : i \in DOMAIN s})

-----------------------------------------------------------------------------
(* The inductive invariant. *)

InFlight == IF fwd = NoBatch THEN 0 ELSE 1

\* What is between the threads.
QueueTypes == IsSeq(result_queue) /\ IsSeq(input_queue) /\ IsSeq(output_queue)

\* A job of the forward thread is a batch with its sampling_info_done.
JobsWellFormed ==
    /\ \A i \in 1..Len(input_queue) :
          input_queue[i] = [batch |-> input_queue[i].batch, done |-> input_queue[i].done]
    /\ fwd # NoBatch => fwd = [batch |-> fwd.batch, done |-> fwd.done]

\* The outputs that wait, the batch being run and the batches that wait are
\* together, in this order, the batches whose results are outstanding.
SameOrder ==
    /\ Len(result_queue) = Len(output_queue) + InFlight + Len(input_queue)
    /\ \A i \in 1..Len(output_queue) : result_queue[i] = output_queue[i]
    /\ fwd # NoBatch => result_queue[Len(output_queue) + 1] = fwd.batch
    /\ \A i \in 1..Len(input_queue) :
          result_queue[Len(output_queue) + InFlight + i] = input_queue[i].batch

\* Outstanding are the last iteration's batch, until its result is taken, and
\* this one's, once it is launched.
AtMostTwo ==
    /\ loop \in {"recv", "admit", "launch", "retract"} =>
          /\ cur = NoBatch
          /\ last_batch = NoBatch => Len(result_queue) = 0
          /\ last_batch # NoBatch =>
                Len(result_queue) = 1 /\ result_queue[1] = last_batch
    /\ loop = "process" =>
          /\ last_batch = NoBatch /\ cur = NoBatch => Len(result_queue) = 0
          /\ last_batch = NoBatch /\ cur # NoBatch =>
                Len(result_queue) = 1 /\ result_queue[1] = cur
          /\ last_batch # NoBatch /\ cur = NoBatch =>
                Len(result_queue) = 1 /\ result_queue[1] = last_batch
          /\ last_batch # NoBatch /\ cur # NoBatch =>
                /\ Len(result_queue) = 2
                /\ result_queue[1] = last_batch /\ result_queue[2] = cur
    /\ loop = "apply" =>
          /\ cur = NoBatch => Len(result_queue) = 0
          /\ cur # NoBatch => Len(result_queue) = 1 /\ result_queue[1] = cur

Places == loop \in {"recv", "admit", "launch", "retract", "process", "apply"}

FlowInv == Places /\ QueueTypes /\ JobsWellFormed /\ SameOrder /\ AtMostTwo

-----------------------------------------------------------------------------
(* Sequences *)

\* The empty sequence.
LEMMA EmptyFacts == IsSeq(<<>>) /\ Len(<<>>) = 0
BY DEF IsSeq

\* A sequence has a length, and is empty exactly if that is 0.
LEMMA LenFacts ==
    ASSUME NEW s, IsSeq(s)
    PROVE  /\ Len(s) \in Nat
           /\ DOMAIN s = 1..Len(s)
           /\ s = <<>> <=> Len(s) = 0
           /\ s # <<>> => Head(s) = s[1]
<1> DEFINE S == {s[i] : i \in DOMAIN s}
<1>1. s \in Seq(S)
  BY DEF IsSeq
<1> HIDE DEF S
<1> QED
  BY <1>1

\* Queue.put: the new element is the last one.
LEMMA AppendFacts ==
    ASSUME NEW s, IsSeq(s), NEW e
    PROVE  /\ IsSeq(Append(s, e))
           /\ Len(Append(s, e)) = Len(s) + 1
           /\ Append(s, e)[Len(s) + 1] = e
           /\ \A i \in 1..Len(s) : Append(s, e)[i] = s[i]
<1> DEFINE S == {s[i] : i \in DOMAIN s}
           t == Append(s, e)
           R == {t[i] : i \in DOMAIN t}
<1>1. s \in Seq(S)
  BY DEF IsSeq
<1>2. s \in Seq(S \cup {e})
  BY <1>1
<1>3. /\ t \in Seq(S \cup {e})
      /\ Len(t) = Len(s) + 1
      /\ t[Len(s) + 1] = e
      /\ \A i \in 1..Len(s) : t[i] = s[i]
  <2> HIDE DEF S
  <2> QED
    BY <1>2, AppendProperties
<1>4. t \in Seq(R)
  <2>1. t \in [1..Len(t) -> R]
    <3> HIDE DEF S, t
    <3>1. DOMAIN t = 1..Len(t) /\ t = [i \in 1..Len(t) |-> t[i]]
      BY <1>3
    <3> QED
      BY <3>1
  <2>2. Len(t) \in Nat
    <3> HIDE DEF S, t
    <3> QED
      BY <1>3
  <2> HIDE DEF S, t, R
  <2> QED
    BY <2>1, <2>2, <1>3
<1> QED
  BY <1>3, <1>4 DEF IsSeq

\* Queue.get: the first element goes.
LEMMA TailFacts ==
    ASSUME NEW s, IsSeq(s), s # <<>>
    PROVE  /\ IsSeq(Tail(s))
           /\ Len(Tail(s)) = Len(s) - 1
           /\ \A i \in 1..Len(s) - 1 : Tail(s)[i] = s[i + 1]
<1> DEFINE S == {s[i] : i \in DOMAIN s}
           t == Tail(s)
           R == {t[i] : i \in DOMAIN t}
<1>1. s \in Seq(S)
  BY DEF IsSeq
<1>3. /\ t \in Seq(S)
      /\ Len(t) = Len(s) - 1
      /\ \A i \in 1..Len(t) : t[i] = s[i + 1]
  <2> HIDE DEF S
  <2> QED
    BY <1>1, HeadTailProperties
<1>4. t \in Seq(R)
  <2>1. t \in [1..Len(t) -> R]
    <3> HIDE DEF S, t
    <3>1. DOMAIN t = 1..Len(t) /\ t = [i \in 1..Len(t) |-> t[i]]
      BY <1>3
    <3> QED
      BY <3>1
  <2>2. Len(t) \in Nat
    <3> HIDE DEF S, t
    <3> QED
      BY <1>3
  <2> HIDE DEF S, t, R
  <2> QED
    BY <2>1, <2>2, <1>3
<1> QED
  BY <1>3, <1>4 DEF IsSeq

-----------------------------------------------------------------------------
(* Batches and jobs *)

\* A batch that was formed is not None.
LEMMA BatchIsReal ==
    ASSUME NEW mode, NEW reqs, NEW loc, NEW len, NEW idx, NEW fut, mode # "none"
    PROVE  Batch(mode, reqs, loc, len, idx, fut) # NoBatch
BY DEF Batch, NoBatch

\* Neither is a job.
LEMMA JobIsReal ==
    ASSUME NEW b, NEW d
    PROVE  [batch |-> b, done |-> d] # NoBatch
BY DEF NoBatch

\* What the three ways to launch a batch have in common: it is put into both
\* queues.
Launches ==
    /\ loop' = "process"
    /\ cur' # NoBatch
    /\ result_queue' = Append(result_queue, cur')
    /\ input_queue' = Append(input_queue, [batch |-> cur', done |-> DummyFirst])
    /\ UNCHANGED <<last_batch, output_queue, fwd>>

\* The prefill batch and the decode batch are launched like this.
LEMMA ExtendRuns ==
    ASSUME NEW D, NEW pool, NEW total, NEW new, NEW idx,
           LaunchExtend(D, pool, total, new, idx)
    PROVE  Launches
<1>1. RunBatch(Batch("extend", can_run, new,
                      [q \in ToSet(can_run) |-> req[q].fill], idx,
                      [q \in ToSet(can_run) |-> 0]))
  BY DEF LaunchExtend
<1> QED
  BY <1>1, BatchIsReal DEF RunBatch, Launches

\* A decode launch puts one batch in the queue of the worker.
LEMMA DecodeRuns ==
    ASSUME NEW T, NEW D, NEW pool, NEW new, LaunchDecode(T, D, pool, new)
    PROVE  Launches
<1>1. RunBatch(Batch("decode", Decoding, new,
                      [q \in DOMAIN new |-> req[q].slen + 1],
                      [q \in DOMAIN new |-> req[q].idx],
                      [q \in DOMAIN new |-> req[q].fut]))
  BY DEF LaunchDecode
<1> QED
  BY <1>1, BatchIsReal DEF RunBatch, Launches

\* prepare_for_extend launches one.
LEMMA ExtendLaunches == PrepareForExtend => loop = "launch" /\ Launches
BY ExtendRuns DEF PrepareForExtend

\* prepare_for_decode launches one.
LEMMA DecodeLaunches ==
    PrepareForDecode \/ PrepareForDecodeAfterRetract
        => loop \in {"launch", "retract"} /\ Launches
BY DecodeRuns DEF PrepareForDecode, PrepareForDecodeAfterRetract, DecodeFrom

-----------------------------------------------------------------------------
(* The invariant holds initially and is kept by every step. *)

\* Steps of the scheduler before it launches a batch, and of process_input_requests.
Preparing == {"recv", "admit", "launch", "retract"}
Quiet ==
    /\ loop \in Preparing /\ loop' \in Preparing
    /\ UNCHANGED <<cur, last_batch, result_queue, input_queue, output_queue, fwd>>

\* Nothing is outstanding at the start.
LEMMA FlowInit == Init => FlowInv
<1> SUFFICES ASSUME Init PROVE FlowInv
  OBVIOUS
<1> USE DEF Init
<1>1. Places /\ QueueTypes
  BY EmptyFacts DEF Places, QueueTypes
<1>2. JobsWellFormed /\ SameOrder
  BY EmptyFacts DEF JobsWellFormed, SameOrder, InFlight
<1>3. AtMostTwo
  BY EmptyFacts DEF AtMostTwo
<1> QED
  BY <1>1, <1>2, <1>3 DEF FlowInv

\* The steps that leave the queues alone.
LEMMA QuietSteps ==
    ASSUME \/ \E q \in Request : Arrive(q) \/ AbortWaiting(q) \/ AddOneReq(q) \/ RetractDecode(q)
           \/ GetNextBatchToRun \/ StopAdding
    PROVE  Quiet
<1>1. ASSUME NEW q \in Request, Arrive(q) \/ AbortWaiting(q) PROVE Quiet
  BY <1>1 DEF Arrive, AbortWaiting, Quiet, Preparing, flow, worker
<1>2. ASSUME NEW q \in Request, AddOneReq(q) PROVE Quiet
  <2>1. loop = "admit" /\ UNCHANGED <<flow, worker, fwd>>
    BY <1>2 DEF AddOneReq
  <2>2. \E m, locked, extend, total, room : AddMatched(q, m, locked, extend, total, room)
    BY <1>2 DEF AddOneReq
  <2>3. loop' \in {"admit", "launch"}
    BY <2>2 DEF AddMatched
  <2> QED
    BY <2>1, <2>3 DEF Quiet, Preparing, flow, worker
<1>3. ASSUME NEW q \in Request, RetractDecode(q) PROVE Quiet
  BY <1>3 DEF RetractDecode, Quiet, Preparing, flow, worker
<1>4. CASE GetNextBatchToRun
  BY <1>4 DEF GetNextBatchToRun, Quiet, Preparing, flow, worker
<1>5. CASE StopAdding
  BY <1>5 DEF StopAdding, Quiet, Preparing, flow, worker
<1> QED
  BY <1>1, <1>2, <1>3, <1>4, <1>5

\* Steps that prepare a batch leave the queues and the invariant alone.
LEMMA QuietKeeps == FlowInv /\ Quiet => FlowInv'
<1> SUFFICES ASSUME FlowInv, Quiet PROVE FlowInv'
  OBVIOUS
<1> USE DEF FlowInv, Quiet, Preparing
<1>1. Places' /\ QueueTypes' /\ JobsWellFormed' /\ SameOrder'
  BY DEF Places, QueueTypes, JobsWellFormed, SameOrder, InFlight
<1>2. AtMostTwo'
  BY DEF AtMostTwo
<1> QED
  BY <1>1, <1>2

\* A launched batch goes to the end of both queues.
LEMMA LaunchesKeeps ==
    ASSUME FlowInv, loop \in {"launch", "retract"}, Launches
    PROVE  FlowInv'
<1> DEFINE rq == result_queue  iq == input_queue  oq == output_queue
           job == [batch |-> cur', done |-> DummyFirst]
<1>1. /\ IsSeq(rq) /\ IsSeq(iq) /\ IsSeq(oq)
      /\ rq' = Append(rq, cur') /\ iq' = Append(iq, job) /\ oq' = oq
      /\ fwd' = fwd /\ last_batch' = last_batch /\ loop' = "process"
      /\ cur' # NoBatch /\ InFlight' = InFlight /\ InFlight \in Nat
  BY DEF FlowInv, QueueTypes, Launches, InFlight
<1>2. /\ Len(rq) \in Nat /\ Len(iq) \in Nat /\ Len(oq) \in Nat
  BY <1>1, LenFacts
<1>3. /\ IsSeq(rq') /\ Len(rq') = Len(rq) + 1 /\ rq'[Len(rq) + 1] = cur'
      /\ \A i \in 1..Len(rq) : rq'[i] = rq[i]
  BY <1>1, AppendFacts
<1>4. /\ IsSeq(iq') /\ Len(iq') = Len(iq) + 1 /\ iq'[Len(iq) + 1] = job
      /\ \A i \in 1..Len(iq) : iq'[i] = iq[i]
  BY <1>1, AppendFacts
<1>5. job.batch = cur' /\ job = [batch |-> job.batch, done |-> job.done]
  OBVIOUS
<1> HIDE DEF rq, iq, oq, job
<1>6. Places' /\ QueueTypes'
  BY <1>1, <1>3, <1>4 DEF Places, QueueTypes, rq, iq, oq
<1>7. JobsWellFormed'
  <2>1. \A i \in 1..Len(iq') : iq'[i] = [batch |-> iq'[i].batch, done |-> iq'[i].done]
    <3> SUFFICES ASSUME NEW i \in 1..Len(iq')
                 PROVE  iq'[i] = [batch |-> iq'[i].batch, done |-> iq'[i].done]
      OBVIOUS
    <3>1. CASE i \in 1..Len(iq)
      BY <3>1, <1>4 DEF FlowInv, JobsWellFormed, iq
    <3>2. CASE i = Len(iq) + 1
      BY <3>2, <1>4, <1>5
    <3> QED
      BY <3>1, <3>2, <1>2, <1>4
  <2> QED
    BY <2>1, <1>1 DEF FlowInv, JobsWellFormed, iq
<1>8. SameOrder'
  <2>0. SameOrder
    BY DEF FlowInv
  <2>1. Len(rq') = Len(oq') + InFlight' + Len(iq')
    BY <2>0, <1>1, <1>2, <1>3, <1>4 DEF SameOrder, rq, iq, oq
  <2>2. \A i \in 1..Len(oq') : rq'[i] = oq'[i]
    BY <2>0, <1>1, <1>2, <1>3, <1>4 DEF SameOrder, rq, iq, oq
  <2>3. fwd' # NoBatch => rq'[Len(oq') + 1] = fwd'.batch
    BY <2>0, <1>1, <1>2, <1>3, <1>4 DEF SameOrder, rq, iq, oq, InFlight
  <2>4. \A i \in 1..Len(iq') : rq'[Len(oq') + InFlight' + i] = iq'[i].batch
    <3> SUFFICES ASSUME NEW i \in 1..Len(iq')
                 PROVE  rq'[Len(oq) + InFlight + i] = iq'[i].batch
      BY <1>1
    <3>0. Len(rq) = Len(oq) + InFlight + Len(iq)
      BY <2>0 DEF SameOrder, rq, iq, oq
    <3>1. CASE i \in 1..Len(iq)
      <4>1. rq[Len(oq) + InFlight + i] = iq[i].batch
        BY <2>0, <3>1 DEF SameOrder, rq, iq, oq
      <4>2. Len(oq) + InFlight + i \in 1..Len(rq)
        BY <3>0, <3>1, <1>1, <1>2
      <4>3. rq'[Len(oq) + InFlight + i] = rq[Len(oq) + InFlight + i]
        BY <4>2, <1>3
      <4> QED
        BY <4>1, <4>3, <3>1, <1>4
    <3>2. CASE i = Len(iq) + 1
      <4>1. Len(oq) + InFlight + i = Len(rq) + 1
        BY <3>0, <3>2, <1>1, <1>2
      <4> QED
        BY <4>1, <3>2, <1>3, <1>4, <1>5, Zenon
    <3> QED
      BY <3>1, <3>2, <1>2, <1>4
  <2> QED
    BY <2>1, <2>2, <2>3, <2>4 DEF SameOrder, rq, iq, oq
<1>9. AtMostTwo'
  <2>1. /\ last_batch = NoBatch => Len(rq) = 0
        /\ last_batch # NoBatch => Len(rq) = 1 /\ rq[1] = last_batch
    BY DEF FlowInv, AtMostTwo, rq
  <2>2. CASE last_batch = NoBatch
    BY <2>1, <2>2, <1>1, <1>3 DEF AtMostTwo, rq
  <2>3. CASE last_batch # NoBatch
    <3>1. Len(rq) = 1 /\ rq[1] = last_batch
      BY <2>1, <2>3
    <3>2. Len(rq') = 2
      BY <3>1, <1>3
    <3>3. rq'[1] = last_batch
      BY <3>1, <1>3
    <3>4. rq'[2] = cur'
      <4>1. Len(rq) + 1 = 2
        BY <3>1
      <4> QED
        BY <4>1, <1>3, Zenon
    <3> QED
      BY <3>2, <3>3, <3>4, <2>3, <1>1 DEF AtMostTwo, rq
  <2> QED
    BY <2>2, <2>3
<1> QED
  BY <1>6, <1>7, <1>8, <1>9 DEF FlowInv

\* The forward thread takes the oldest job.
LEMMA LaunchKeeps == FlowInv /\ Launch => FlowInv'
<1> SUFFICES ASSUME FlowInv, Launch PROVE FlowInv'
  OBVIOUS
<1> DEFINE rq == result_queue  iq == input_queue  oq == output_queue
<1>1. /\ IsSeq(rq) /\ IsSeq(iq) /\ IsSeq(oq) /\ iq # <<>>
      /\ rq' = rq /\ iq' = Tail(iq) /\ oq' = oq /\ fwd = NoBatch
      /\ fwd' = Head(iq) /\ last_batch' = last_batch /\ loop' = loop /\ cur' = cur
  BY Zenon DEF FlowInv, QueueTypes, Launch, flow
<1>2. /\ Len(iq) \in Nat /\ Len(iq) # 0 /\ Len(oq) \in Nat
      /\ fwd' = iq[1] /\ IsSeq(iq') /\ Len(iq') = Len(iq) - 1
      /\ \A i \in 1..Len(iq) - 1 : iq'[i] = iq[i + 1]
  BY <1>1, LenFacts, TailFacts
<1>3. /\ iq[1] = [batch |-> iq[1].batch, done |-> iq[1].done]
      /\ iq[1] # NoBatch
  <2>1. iq[1] = [batch |-> iq[1].batch, done |-> iq[1].done]
    BY <1>2 DEF FlowInv, JobsWellFormed
  <2> QED
    BY <2>1, JobIsReal
<1>4. InFlight = 0 /\ InFlight' = 1
  BY <1>1, <1>2, <1>3 DEF InFlight
<1> HIDE DEF rq, iq, oq
<1>5. Places' /\ QueueTypes' /\ AtMostTwo'
  BY <1>1, <1>2 DEF FlowInv, Places, QueueTypes, AtMostTwo, rq, iq, oq
<1>6. JobsWellFormed'
  <2>1. \A i \in 1..Len(iq') : iq'[i] = [batch |-> iq'[i].batch, done |-> iq'[i].done]
    BY <1>2 DEF FlowInv, JobsWellFormed, iq
  <2> QED
    BY <2>1, <1>2, <1>3 DEF JobsWellFormed, iq
<1>7. SameOrder'
  <2>0. SameOrder
    BY DEF FlowInv
  <2>1. Len(rq') = Len(oq') + InFlight' + Len(iq')
    BY <2>0, <1>1, <1>2, <1>4, SMTT(30) DEF SameOrder, rq, iq, oq
  <2>2. \A i \in 1..Len(oq') : rq'[i] = oq'[i]
    BY <2>0, <1>1 DEF SameOrder, rq, iq, oq
  <2>3. rq'[Len(oq') + 1] = fwd'.batch
    <3>1. rq[Len(oq) + InFlight + 1] = iq[1].batch
      BY <2>0, <1>2 DEF SameOrder, rq, iq, oq
    <3> QED
      BY <3>1, <1>1, <1>2, <1>4
  <2>4. \A i \in 1..Len(iq') : rq'[Len(oq') + InFlight' + i] = iq'[i].batch
    <3> SUFFICES ASSUME NEW i \in 1..Len(iq')
                 PROVE  rq[Len(oq) + 1 + i] = iq[i + 1].batch
      BY <1>1, <1>2, <1>4
    <3>1. rq[Len(oq) + InFlight + (i + 1)] = iq[i + 1].batch
      BY <2>0, <1>2 DEF SameOrder, rq, iq, oq
    <3> QED
      BY <3>1, <1>2, <1>4
  <2> QED
    BY <2>1, <2>2, <2>3, <2>4 DEF SameOrder, rq, iq, oq
<1> QED
  BY <1>5, <1>6, <1>7 DEF FlowInv

\* And puts its result behind the earlier ones.
LEMMA SampleKeeps == FlowInv /\ Sample => FlowInv'
<1> SUFFICES ASSUME FlowInv, Sample PROVE FlowInv'
  OBVIOUS
<1> DEFINE rq == result_queue  iq == input_queue  oq == output_queue
<1>1. /\ IsSeq(rq) /\ IsSeq(iq) /\ IsSeq(oq) /\ fwd # NoBatch
      /\ rq' = rq /\ iq' = iq /\ oq' = Append(oq, fwd.batch) /\ fwd' = NoBatch
      /\ last_batch' = last_batch /\ loop' = loop /\ cur' = cur
  BY DEF FlowInv, QueueTypes, Sample, flow
<1>2. /\ Len(iq) \in Nat /\ Len(oq) \in Nat
      /\ IsSeq(oq') /\ Len(oq') = Len(oq) + 1 /\ oq'[Len(oq) + 1] = fwd.batch
      /\ \A i \in 1..Len(oq) : oq'[i] = oq[i]
  BY <1>1, LenFacts, AppendFacts
<1>4. InFlight = 1 /\ InFlight' = 0
  BY <1>1 DEF InFlight
<1> HIDE DEF rq, iq, oq
<1>5. Places' /\ QueueTypes' /\ AtMostTwo' /\ JobsWellFormed'
  BY <1>1, <1>2 DEF FlowInv, Places, QueueTypes, AtMostTwo, JobsWellFormed, rq, iq, oq
<1>7. SameOrder'
  <2>0. SameOrder
    BY DEF FlowInv
  <2>1. Len(rq') = Len(oq') + InFlight' + Len(iq')
    BY <2>0, <1>1, <1>2, <1>4 DEF SameOrder, rq, iq, oq
  <2>2. \A i \in 1..Len(oq') : rq'[i] = oq'[i]
    BY <2>0, <1>1, <1>2 DEF SameOrder, rq, iq, oq
  <2>4. \A i \in 1..Len(iq') : rq'[Len(oq') + InFlight' + i] = iq'[i].batch
    BY <2>0, <1>1, <1>2, <1>4 DEF SameOrder, rq, iq, oq
  <2> QED
    BY <2>1, <2>2, <2>4, <1>1 DEF SameOrder, rq, iq, oq
<1> QED
  BY <1>5, <1>7 DEF FlowInv

\* The scheduler takes the oldest of both queues.
LEMMA ResolveKeeps == FlowInv /\ ResolveLastBatchResult => FlowInv'
<1> SUFFICES ASSUME FlowInv, ResolveLastBatchResult PROVE FlowInv'
  OBVIOUS
<1> DEFINE rq == result_queue  iq == input_queue  oq == output_queue
<1>1. /\ IsSeq(rq) /\ IsSeq(iq) /\ IsSeq(oq) /\ oq # <<>>
      /\ rq' = Tail(rq) /\ iq' = iq /\ oq' = Tail(oq) /\ fwd' = fwd
      /\ last_batch' = last_batch /\ loop = "process" /\ last_batch # NoBatch
      /\ loop' = "apply" /\ cur' = cur /\ InFlight' = InFlight /\ InFlight \in Nat
  BY DEF FlowInv, QueueTypes, ResolveLastBatchResult, InFlight
<1>2. /\ cur = NoBatch => Len(rq) = 1
      /\ cur # NoBatch => Len(rq) = 2 /\ rq[2] = cur
  BY <1>1 DEF FlowInv, AtMostTwo
<1>3. /\ Len(rq) \in Nat /\ Len(iq) \in Nat /\ Len(oq) \in Nat /\ Len(oq) # 0
      /\ rq # <<>>
  <2>1. /\ Len(rq) \in Nat /\ Len(iq) \in Nat /\ Len(oq) \in Nat
        /\ Len(oq) # 0 /\ (rq = <<>> => Len(rq) = 0)
    BY <1>1, LenFacts
  <2> QED
    BY <2>1, <1>2
<1>4. /\ IsSeq(rq') /\ Len(rq') = Len(rq) - 1
      /\ \A i \in 1..Len(rq) - 1 : rq'[i] = rq[i + 1]
  BY <1>1, <1>3, TailFacts
<1>5. /\ IsSeq(oq') /\ Len(oq') = Len(oq) - 1
      /\ \A i \in 1..Len(oq) - 1 : oq'[i] = oq[i + 1]
  BY <1>1, <1>3, TailFacts
<1> HIDE DEF rq, iq, oq
<1>6. Places' /\ QueueTypes'
  BY <1>1, <1>4, <1>5 DEF Places, QueueTypes, rq, iq, oq
<1>7. JobsWellFormed'
  BY <1>1 DEF FlowInv, JobsWellFormed, iq
<1>8. SameOrder'
  <2>0. SameOrder
    BY DEF FlowInv
  <2>a. Len(rq) = Len(oq) + InFlight + Len(iq)
    BY <2>0 DEF SameOrder, rq, iq, oq
  <2>1. Len(rq') = Len(oq') + InFlight' + Len(iq')
    BY <2>a, <1>1, <1>3, <1>4, <1>5
  <2>2. \A i \in 1..Len(oq') : rq'[i] = oq'[i]
    <3> SUFFICES ASSUME NEW i \in 1..Len(oq') PROVE rq[i + 1] = oq[i + 1]
      BY <2>a, <1>1, <1>3, <1>4, <1>5
    <3> QED
      BY <2>0, <1>3, <1>5 DEF SameOrder, rq, iq, oq
  <2>3. fwd' # NoBatch => rq'[Len(oq') + 1] = fwd'.batch
    <3>1. fwd # NoBatch => rq[Len(oq) + 1] = fwd.batch
      BY <2>0 DEF SameOrder, rq, iq, oq
    <3>2. fwd # NoBatch => Len(oq) \in 1..Len(rq) - 1
      BY <2>a, <1>3 DEF InFlight
    <3> QED
      BY <3>1, <3>2, <1>1, <1>3, <1>4, <1>5
  <2>4. \A i \in 1..Len(iq') : rq'[Len(oq') + InFlight' + i] = iq'[i].batch
    <3> SUFFICES ASSUME NEW i \in 1..Len(iq)
                 PROVE  rq'[Len(oq) - 1 + InFlight + i] = iq[i].batch
      BY <1>1, <1>5
    <3>1. rq[Len(oq) + InFlight + i] = iq[i].batch
      BY <2>0 DEF SameOrder, rq, iq, oq
    <3>2. Len(oq) - 1 + InFlight + i \in 1..Len(rq) - 1
      BY <2>a, <1>1, <1>3
    <3>3. (Len(oq) - 1 + InFlight + i) + 1 = Len(oq) + InFlight + i
      BY <1>1, <1>3
    <3> QED
      BY <3>1, <3>2, <3>3, <1>4
  <2> QED
    BY <2>1, <2>2, <2>3, <2>4 DEF SameOrder, rq, iq, oq
<1>9. AtMostTwo'
  <2>1. CASE cur = NoBatch
    BY <2>1, <1>1, <1>2, <1>4 DEF AtMostTwo, rq
  <2>2. CASE cur # NoBatch
    BY <2>2, <1>1, <1>2, <1>4 DEF AtMostTwo, rq
  <2> QED
    BY <2>1, <2>2
<1> QED
  BY <1>6, <1>7, <1>8, <1>9 DEF FlowInv

\* The end of the iteration: this batch becomes the last one.
LEMMA EndKeeps == FlowInv /\ EndIteration => FlowInv'
<1> SUFFICES ASSUME FlowInv, EndIteration PROVE FlowInv'
  OBVIOUS
<1>1. /\ result_queue' = result_queue /\ input_queue' = input_queue
      /\ output_queue' = output_queue /\ last_batch' = cur /\ cur' = NoBatch
      /\ loop' = "recv"
      /\ (loop = "process" /\ last_batch = NoBatch) \/ loop = "apply"
      /\ fwd' = fwd \/ (fwd # NoBatch /\ fwd' = [fwd EXCEPT !.done = TRUE])
  BY DEF EndIteration, worker
<1>2. /\ fwd' = NoBatch <=> fwd = NoBatch
      /\ fwd # NoBatch => /\ fwd'.batch = fwd.batch
                          /\ fwd' = [batch |-> fwd'.batch, done |-> fwd'.done]
  <2>1. fwd # NoBatch => fwd = [batch |-> fwd.batch, done |-> fwd.done]
    BY DEF FlowInv, JobsWellFormed
  <2>2. CASE fwd' = fwd
    BY <2>1, <2>2
  <2>3. CASE fwd # NoBatch /\ fwd' = [fwd EXCEPT !.done = TRUE]
    <3>1. fwd' = [batch |-> fwd.batch, done |-> TRUE]
      BY <2>1, <2>3
    <3> QED
      BY <3>1, <2>3, JobIsReal
  <2> QED
    BY <2>2, <2>3, <1>1
<1>3. Places' /\ QueueTypes'
  BY <1>1 DEF FlowInv, Places, QueueTypes
<1>4. JobsWellFormed'
  BY <1>1, <1>2 DEF FlowInv, JobsWellFormed
<1>5. SameOrder'
  BY <1>1, <1>2 DEF FlowInv, SameOrder, InFlight
<1>6. AtMostTwo'
  BY <1>1 DEF FlowInv, AtMostTwo
<1> QED
  BY <1>3, <1>4, <1>5, <1>6 DEF FlowInv

\* Every step keeps the invariant, if flush_cache is not called with a batch in
\* flight.
LEMMA FlowStep == ~FlushInFlight /\ FlowInv /\ [Next]_vars => FlowInv'
<1> SUFFICES ASSUME ~FlushInFlight, FlowInv, [Next]_vars PROVE FlowInv'
  OBVIOUS
<1>1. CASE \/ \E q \in Request : Arrive(q) \/ AbortWaiting(q) \/ AddOneReq(q) \/ RetractDecode(q)
           \/ GetNextBatchToRun \/ StopAdding
  BY <1>1, QuietSteps, QuietKeeps
<1>2. CASE FlushCache
  <2>1. /\ loop = "recv" /\ loop' = loop /\ last_batch = NoBatch /\ last_batch' = NoBatch
        /\ cur' = NoBatch
        /\ UNCHANGED <<result_queue, input_queue, output_queue, fwd>>
    BY <1>2 DEF FlushCache, worker
  <2>2. cur = NoBatch
    BY <2>1 DEF FlowInv, AtMostTwo
  <2> QED
    BY <2>1, <2>2, QuietKeeps DEF Quiet, Preparing
<1>3. CASE PrepareForExtend
  BY <1>3, ExtendLaunches, LaunchesKeeps
<1>4. CASE PrepareForDecode \/ PrepareForDecodeAfterRetract
  BY <1>4, DecodeLaunches, LaunchesKeeps
<1>5. CASE NothingToRun
  <2>1. /\ loop = "launch" /\ loop' = "process" /\ cur' = NoBatch
        /\ UNCHANGED <<last_batch, result_queue, input_queue, output_queue, fwd>>
    BY <1>5 DEF NothingToRun, worker
  <2>2. Places' /\ QueueTypes' /\ JobsWellFormed' /\ SameOrder'
    BY <2>1 DEF FlowInv, Places, QueueTypes, JobsWellFormed, SameOrder, InFlight
  <2>3. AtMostTwo'
    BY <2>1 DEF FlowInv, AtMostTwo
  <2> QED
    BY <2>2, <2>3 DEF FlowInv
<1>6. CASE ResolveLastBatchResult
  BY <1>6, ResolveKeeps
<1>7. CASE ProcessBatchResult \/ UNCHANGED vars
  <2>1. UNCHANGED <<loop, cur, last_batch, result_queue, input_queue, output_queue, fwd>>
    BY <1>7 DEF ProcessBatchResult, worker, vars, flow
  <2>2. Places' /\ QueueTypes' /\ JobsWellFormed' /\ SameOrder'
    BY <2>1 DEF FlowInv, Places, QueueTypes, JobsWellFormed, SameOrder, InFlight
  <2>3. AtMostTwo'
    BY <2>1 DEF FlowInv, AtMostTwo
  <2> QED
    BY <2>2, <2>3 DEF FlowInv
<1>8. CASE EndIteration
  BY <1>8, EndKeeps
<1>9. CASE Launch \/ Sample
  BY <1>9, LaunchKeeps, SampleKeeps
<1> QED
  BY <1>1, <1>2, <1>3, <1>4, <1>5, <1>6, <1>7, <1>8, <1>9 DEF Next, Schedule

\* The invariant gives the property: the oldest batch is the last one's, and the
\* oldest output is that batch's.
LEMMA FlowImplies == FlowInv => ResultIsLastBatch
<1> SUFFICES ASSUME FlowInv, loop = "process", last_batch # NoBatch
             PROVE  /\ result_queue # <<>> /\ Head(result_queue) = last_batch
                    /\ output_queue # <<>> => Head(output_queue) = Head(result_queue)
  BY DEF ResultIsLastBatch
<1>1. IsSeq(result_queue) /\ IsSeq(output_queue)
  BY DEF FlowInv, QueueTypes
<1>2. Len(result_queue) # 0 /\ result_queue[1] = last_batch
  BY DEF FlowInv, AtMostTwo
<1>3. output_queue # <<>> => result_queue[1] = output_queue[1]
  <2>1. output_queue # <<>> => Len(output_queue) # 0 /\ Len(output_queue) \in Nat
    BY <1>1, LenFacts
  <2> QED
    BY <2>1 DEF FlowInv, SameOrder
<1>4. result_queue # <<>> /\ Head(result_queue) = result_queue[1]
  BY <1>1, <1>2, LenFacts
<1>5. output_queue # <<>> => Head(output_queue) = output_queue[1]
  BY <1>1, LenFacts
<1> QED
  BY <1>2, <1>3, <1>4, <1>5

\* "Process the results of the last batch" (event_loop_overlap): whatever is
\* admitted, retracted, aborted or finished meanwhile, the batch copy popped from
\* result_queue is the one launched an iteration ago and the output popped with it
\* is its own, provided flush_cache does not run with a batch in flight.
THEOREM ResultsMatched == ~FlushInFlight => (Spec => []ResultIsLastBatch)
<1> SUFFICES ASSUME ~FlushInFlight PROVE Spec => []ResultIsLastBatch
  OBVIOUS
<1>1. Init => FlowInv
  BY FlowInit
<1>2. FlowInv /\ [Next]_vars => FlowInv'
  BY FlowStep
<1>3. FlowInv => ResultIsLastBatch
  BY FlowImplies
<1> QED
  BY <1>1, <1>2, <1>3, PTL DEF Spec

-----------------------------------------------------------------------------
(* A request's life *)

\* The batch whose results are due next; cur is the one after it.
Old == IF loop = "apply" THEN result ELSE last_batch

\* What batch b does with request q, where q is on the lists cr (can_run) and rn
\* (running), and whether its prompt is being prefilled in chunks (ch: chunked_req).
Use(b, q) == IF q \in ToSet(b.reqs) THEN b.mode ELSE "none"
Stands(cr, rn, q) == IF q \in ToSet(cr) THEN "can"
                     ELSE IF q \in ToSet(rn) THEN "run" ELSE "out"
Chunked(ch, q) == IF q = ch THEN "yes" ELSE "no"

One(e) == IF e THEN 1 ELSE 0
Full(q, r) == Len(Meta[q].prompt) + r.out

IsReq(r) ==
    /\ r = [st |-> r.st, out |-> r.out, fill |-> r.fill, pre |-> r.pre, last |-> r.last,
            idx |-> r.idx, slen |-> r.slen, fut |-> r.fut, chunks |-> r.chunks,
            retracted |-> r.retracted]
    /\ r.st \in {"new", "queued", "in", "done", "gone"}
    /\ r.out \in Nat /\ r.fill \in Nat /\ r.slen \in Nat /\ r.chunks \in Nat
    /\ r.pre \in Seq(Slot)

\* A request that is not in the loop has nothing.
Cleared(r) ==
    /\ r.idx = 0 /\ r.slen = 0 /\ r.fill = 0 /\ r.chunks = 0
    /\ r.pre = <<>> /\ r.last = NoNode

\* One in can_run_list has a prefix, and tokens to prefill, but no row yet.
Admitted(q, r) ==
    /\ r.idx = 0 /\ r.slen = 0
    /\ Len(r.pre) < r.fill /\ r.fill <= Full(q, r)

\* One with a row: how long its sequence is, by what is launched and not applied.
Seated(q, r, o, n, c) ==
    /\ r.idx # 0
    /\ Len(r.pre) <= r.fill /\ r.fill <= r.slen /\ r.fill <= Full(q, r)
    /\ c = "yes" => r.fill = r.slen /\ r.fill < Full(q, r)
    /\ c = "no" => r.slen + 1 = Full(q, r) + One(o # "none" \/ n = "extend") + One(n = "decode")
    /\ o = "extend" \/ n = "extend" => r.slen = r.fill + One(n = "decode")

\* Where a request can be: its record r, its part o in the batch whose results are
\* due and n in the next, its place w on the lists, whether it is chunked, and where
\* the loop is.
LifeOf(q, r, o, n, w, c, lp) ==
    /\ r.st = "new" => r.out = 0
    /\ r.st \in {"new", "gone"} =>
          /\ Cleared(r) /\ o = "none" /\ n = "none" /\ w = "out" /\ c = "no"
    /\ r.st = "queued" =>
          /\ r.out < Meta[q].out /\ n = "none" /\ w # "run" /\ c = "no"
          /\ o # "none" => r.retracted /\ lp \in {"retract", "process", "apply"}
          /\ w = "out" => Cleared(r)
          /\ w = "can" => Admitted(q, r) /\ r.chunks = 0
    /\ r.st = "done" =>
          /\ ~r.retracted /\ Cleared(r) /\ w # "can" /\ c = "no"
          /\ o # "extend" /\ n # "extend" /\ (o = "none" \/ n = "none")
          /\ n = "decode" => w = "run"
    /\ r.st = "in" =>
          /\ ~r.retracted /\ r.out < Meta[q].out
          /\ r.chunks = One(c = "yes") + One(o # "none" /\ n = "extend")
          /\ w = "can" => c = "yes" /\ Admitted(q, r)
          /\ w # "can" => Seated(q, r, o, n, c)
          /\ w = "run" => c = "no" /\ n # "extend" /\ (lp = "recv" => o # "extend")
          /\ w = "out" => n = "extend" \/ (lp = "recv" /\ o = "extend")
          /\ n = "extend" => w = "out" /\ o # "decode"
          /\ n = "decode" => w = "run"
          /\ c = "yes" => /\ lp # "retract"
                          /\ lp \in {"recv", "admit", "launch"} => o = "extend"
                          /\ lp \in {"admit", "launch"} => w = "can"
                          /\ lp \in {"process", "apply"} => n = "extend"
    /\ w = "can" => lp \in {"admit", "launch"}
    /\ n # "none" => lp \in {"process", "apply"}

\* The lives of all requests, with records R, batches o and n, lists cr and rn.
LivesOf(R, o, n, cr, rn, ch, lp) == \A q \in Request :
    LifeOf(q, R[q], Use(o, q), Use(n, q), Stands(cr, rn, q), Chunked(ch, q), lp)
Lives == LivesOf(req, Old, cur, can_run, running, chunked_req, loop)

-----------------------------------------------------------------------------
(* The lists, the batches and the rows *)

Distinct(s) == \A i, j \in DOMAIN s : s[i] = s[j] => i = j

\* A batch; one that decodes has one slot for each of its requests.
IsBatch(b) ==
    /\ b.reqs \in Seq(Request) /\ Distinct(b.reqs)
    /\ b.mode \in {"none", "extend", "decode"} /\ (b.mode = "none" => b.reqs = <<>>)
    /\ b.reqs # <<>> => b = [mode |-> b.mode, reqs |-> b.reqs, loc |-> b.loc, len |-> b.len,
                             idx |-> b.idx, fut |-> b.fut, ct |-> b.ct]
    /\ b.mode = "decode" => \A q \in ToSet(b.reqs) : b.loc[q] = <<b.loc[q][1]>>

TypesOf(R, ch, sa, o, n) ==
    /\ R = [q \in Request |-> R[q]] /\ \A q \in Request : IsReq(R[q])
    /\ ch \in Request \cup {NoReq}
    /\ sa \in ServerArgs
    /\ IsBatch(o) /\ IsBatch(n)
Types == TypesOf(req, chunked_req, server_args, Old, cur)

\* A prompt that is cut off.
Cut(q, r) == r.fill < Full(q, r)

\* Nobody is on a list twice, and at most one prompt is cut off: the chunk is full
\* then.
ListsOf(R, rn, cr, ch, sa, lp) ==
    /\ rn \in Seq(Request) /\ Distinct(rn)
    /\ cr \in Seq(Request) /\ Distinct(cr)
    /\ \A q \in ToSet(cr) : q \notin ToSet(rn)
    /\ \A p, q \in ToSet(cr) : Cut(p, R[p]) /\ Cut(q, R[q]) => p = q
    /\ lp = "admit" => \A q \in ToSet(cr) : Cut(q, R[q]) =>
          q = ch /\ cr = <<q>> /\ R[q].fill - Len(R[q].pre) = sa.chunked_prefill_size
Lists == ListsOf(req, running, can_run, chunked_req, server_args, loop)

\* The row w of r is as long as its sequence and begins with the prefix.
RowOf(r, w) ==
    /\ w \in Seq(Slot) /\ Len(w) = r.slen
    /\ \A i \in 1..Len(r.pre) : w[i] = r.pre[i]

\* The requests that have a row.
Rowed(R) == {q \in Request : R[q].idx # 0}

\* A row has one request, or is free.
RowsOf(R, rw, f, n) ==
    /\ rw = [i \in 1..n |-> rw[i]]
    /\ f \in Seq(1..n) /\ Distinct(f)
    /\ \A q \in Rowed(R) : R[q].idx \in 1..n
    /\ \A p, q \in Rowed(R) : R[p].idx = R[q].idx => p = q
    /\ \A q \in Rowed(R) : R[q].idx \notin ToSet(f)
    /\ \A q \in Rowed(R) : RowOf(R[q], rw[R[q].idx])
Rows == RowsOf(req, rows, free_rows, NumRows)

-----------------------------------------------------------------------------
(* The tree and the slots *)

Place(q, i) == <<Root, Take(Text(q), i)>>

\* The requests that pin their prefix, and the nodes they pin.
HeldBy(R, cr) == {q \in Request : R[q].st = "in" \/ q \in ToSet(cr)}
LastOf(R) == [q \in Request |-> R[q].last]

\* The prefix of r is in the tree P.
PrefixIn(q, r, P) ==
    /\ r.last = Place(q, Len(r.pre))
    /\ Len(r.pre) <= Len(Text(q))
    /\ \A i \in 1..Len(r.pre) : Place(q, i) \in DOMAIN P /\ P[Place(q, i)] = r.pre[i]

\* The tree T, pinned by the requests H, of which q holds L[q].
Tended(T, H, L) ==
    TreeOK(T) /\ Pins(T, H, L) /\ LockedBy(T, H, L) /\ IsFiniteSet(H) /\ H \subseteq Request

LocksOf(T, H, R) ==
    /\ Tended(T, H, LastOf(R))
    /\ \A q \in H : PrefixIn(q, R[q], T.pos)
Locks == LocksOf(tree, HeldBy(req, can_run), req)

\* The finished requests whose last token is in a batch, and the slot it has there.
LateIn(R, o, n) ==
    {q \in Request : R[q].st = "done" /\ (q \in ToSet(o.reqs) \/ q \in ToSet(n.reqs))}
LateSlots(R, o, n) ==
    [q \in LateIn(R, o, n) |-> IF q \in ToSet(n.reqs) THEN n.loc[q][1] ELSE o.loc[q][1]]

\* The slots that are not in the tree: the uncached part of the rows rw of requests
\* R, at <<request, index>>, and the late slots l, at <<request, 0>>.
InTail(r, i) == i \in Nat /\ Len(r.pre) < i /\ i <= r.slen
IsTail(R, l, h) ==
    /\ h = <<h[1], h[2]>>
    /\ \/ h[1] \in Request /\ InTail(R[h[1]], h[2])
       \/ h[1] \in DOMAIN l /\ h[2] = 0
TailsOf(R, rw, l) ==
    [h \in {g \in (Request \cup DOMAIN l) \X Nat : IsTail(R, l, g)} |->
        IF h[2] = 0 THEN l[h[1]] ELSE rw[R[h[1]].idx][h[2]]]

\* The slot the batch n decodes into is the last one of the row.
LastSlot(R, rw, n) ==
    \A q \in Request : R[q].st = "in" /\ Use(n, q) = "decode" =>
        n.loc[q][1] = rw[R[q].idx][R[q].slen]

Slots == /\ Part(tree.pos, TailsOf(req, rows, LateSlots(req, Old, cur)), free)
         /\ LastSlot(req, rows, cur)

OverlapInv == Types /\ Lives /\ Lists /\ Rows /\ Locks /\ Slots

-----------------------------------------------------------------------------
(* How slots change hands *)

\* v is t without the slots f, the one of x at k[x].
Drops(t, f, k, v) ==
    /\ \A x \in DOMAIN f : k[x] \in DOMAIN t /\ f[x] = t[k[x]]
    /\ \A x, y \in DOMAIN f : k[x] = k[y] => x = y
    /\ \A h : h \in DOMAIN v <=> h \in DOMAIN t /\ \A x \in DOMAIN f : k[x] # h
    /\ \A h \in DOMAIN v : v[h] = t[h]

\* Tails give up slots.
LEMMA DropPart ==
    ASSUME NEW P, NEW t, NEW fr, Part(P, t, fr), NEW f, NEW k, NEW v, Drops(t, f, k, v)
    PROVE  Part(P, v, Freed(fr, f))
<1> USE DEF Drops
<1>1. Apart(P, t)
  BY DEF Part
<1>2. Apart(P, v)
  BY <1>1, ApartSub
<1>3. \A x \in DOMAIN f : f[x] \in Slot /\ Owned(P, t, f[x])
  BY <1>1 DEF Apart, Owned
<1>4. \A x, y \in DOMAIN f : f[x] = f[y] => x = y
  BY <1>1 DEF Apart
<1>5. ASSUME NEW s \in Slot
      PROVE  Owned(P, v, s) <=> Owned(P, t, s) /\ \A x \in DOMAIN f : f[x] # s
  <2>1. ASSUME Owned(P, v, s), NEW x \in DOMAIN f, f[x] = s PROVE FALSE
    <3>1. k[x] \in DOMAIN t /\ t[k[x]] = s /\ k[x] \notin DOMAIN v
      BY <2>1
    <3>2. (\E y \in DOMAIN P : P[y] = s) \/ (\E h \in DOMAIN v : h \in DOMAIN t /\ t[h] = s)
      BY <2>1 DEF Owned
    <3> QED
      BY <1>1, <3>1, <3>2 DEF Apart
  <2>2. Owned(P, v, s) => Owned(P, t, s)
    BY DEF Owned
  <2>3. ASSUME Owned(P, t, s), \A x \in DOMAIN f : f[x] # s PROVE Owned(P, v, s)
    <3>1. \A h \in DOMAIN t : t[h] = s => h \in DOMAIN v
      BY <2>3
    <3> QED
      BY <2>3, <3>1 DEF Owned
  <2> QED
    BY <2>1, <2>2, <2>3
<1> QED
  BY ONLY Part(P, t, fr), <1>2, <1>3, <1>4, <1>5, PartFreed

\* The slots of the tail positions S become places of the tree, that of h at k[h].
Moves(P, t, S, k, Q, v) ==
    /\ \A h \in S : h \in DOMAIN t /\ k[h] \notin DOMAIN P
    /\ \A g, h \in S : k[g] = k[h] => g = h
    /\ \A x : x \in DOMAIN Q <=> x \in DOMAIN P \/ \E h \in S : x = k[h]
    /\ \A x \in DOMAIN P : Q[x] = P[x]
    /\ \A h \in S : Q[k[h]] = t[h]
    /\ \A h : h \in DOMAIN v <=> h \in DOMAIN t /\ h \notin S
    /\ \A h \in DOMAIN v : v[h] = t[h]

\* Nothing is freed then.
LEMMA MovePart ==
    ASSUME NEW P, NEW t, NEW fr, Part(P, t, fr), NEW S, NEW k, NEW Q, NEW v,
           Moves(P, t, S, k, Q, v)
    PROVE  Part(Q, v, fr)
<1> USE DEF Moves
<1>1. Apart(P, t) /\ fr \in [Slot -> {0, 1}] /\ \A s \in Slot : fr[s] = 0 <=> Owned(P, t, s)
  BY DEF Part
<1>2. \A x \in DOMAIN Q : \/ x \in DOMAIN P /\ Q[x] = P[x]
                          \/ \E h \in S : x = k[h] /\ h \in DOMAIN t /\ Q[x] = t[h]
  OBVIOUS
<1>3. \A h \in DOMAIN v : h \in DOMAIN t /\ h \notin S /\ v[h] = t[h]
  OBVIOUS
<1>4. Apart(Q, v)
  <2>1. \A x \in DOMAIN Q : Q[x] \in Slot
    BY <1>1, <1>2 DEF Apart
  <2>2. \A h \in DOMAIN v : v[h] \in Slot
    BY <1>1, <1>3 DEF Apart
  <2>3. ASSUME NEW x \in DOMAIN Q, NEW y \in DOMAIN Q, Q[x] = Q[y] PROVE x = y
    <3>1. CASE x \in DOMAIN P /\ y \in DOMAIN P
      BY <1>1, <2>3, <3>1 DEF Apart
    <3>2. CASE x \in DOMAIN P /\ y \notin DOMAIN P
      BY <1>1, <1>2, <2>3, <3>2 DEF Apart
    <3>3. CASE x \notin DOMAIN P /\ y \in DOMAIN P
      BY <1>1, <1>2, <2>3, <3>3 DEF Apart
    <3>4. CASE x \notin DOMAIN P /\ y \notin DOMAIN P
      BY <1>1, <1>2, <2>3, <3>4 DEF Apart
    <3> QED
      BY <3>1, <3>2, <3>3, <3>4
  <2>4. \A g, h \in DOMAIN v : v[g] = v[h] => g = h
    BY <1>1, <1>3 DEF Apart
  <2>5. \A x \in DOMAIN Q, h \in DOMAIN v : Q[x] # v[h]
    BY <1>1, <1>2, <1>3 DEF Apart
  <2> QED
    BY <2>1, <2>2, <2>3, <2>4, <2>5 DEF Apart
<1>5. ASSUME NEW s \in Slot PROVE Owned(Q, v, s) <=> Owned(P, t, s)
  <2>1. Owned(Q, v, s) => Owned(P, t, s)
    BY <1>2, <1>3 DEF Owned
  <2>2. Owned(P, t, s) => Owned(Q, v, s)
    BY <1>2, <1>3 DEF Owned
  <2> QED
    BY <2>1, <2>2
<1> QED
  BY <1>1, <1>4, <1>5 DEF Part

\* A slot passes from tail position g to h.
LEMMA RekeyPart ==
    ASSUME NEW P, NEW t, NEW fr, Part(P, t, fr), NEW g \in DOMAIN t, NEW h, h \notin DOMAIN t,
           NEW v, \A x : x \in DOMAIN v <=> x = h \/ (x \in DOMAIN t /\ x # g),
           \A x \in DOMAIN v : v[x] = IF x = h THEN t[g] ELSE t[x]
    PROVE  Part(P, v, fr)
<1>1. Apart(P, t) /\ fr \in [Slot -> {0, 1}] /\ \A s \in Slot : fr[s] = 0 <=> Owned(P, t, s)
  BY DEF Part
<1>2. Apart(P, v)
  BY <1>1 DEF Apart
<1>3. ASSUME NEW s \in Slot PROVE Owned(P, v, s) <=> Owned(P, t, s)
  <2>1. Owned(P, v, s) => Owned(P, t, s)
    BY DEF Owned
  <2>2. h \in DOMAIN v /\ v[h] = t[g]
    OBVIOUS
  <2>3. \A x \in DOMAIN t : x # g => x \in DOMAIN v /\ v[x] = t[x]
    OBVIOUS
  <2>4. Owned(P, t, s) => Owned(P, v, s)
    BY <2>2, <2>3 DEF Owned
  <2> QED
    BY <2>1, <2>4
<1> QED
  BY <1>1, <1>2, <1>3 DEF Part

\* evict: the slots of the places that go are freed.
LEMMA EvictPart ==
    ASSUME NEW T, TreeOK(T), NEW D, EvictSet(T, D), NEW t, NEW fr, Part(T.pos, t, fr)
    PROVE  Part(Delete(T, D).pos, t, Freed(fr, SlotsOf(T, D)))
<1> DEFINE P == T.pos
           Q == Delete(T, D).pos
           G == Gone(T, D)
           f == SlotsOf(T, D)
<1>1. PlacesOK(T) /\ D \subseteq DOMAIN T.nd
  BY DEF TreeOK, EvictSet
<1>2. DOMAIN Q = DOMAIN P \ G /\ \A z \in DOMAIN Q : Q[z] = P[z]
  BY DeleteFacts
<1>3. DOMAIN f = G /\ \A z \in G : f[z] = P[z]
  BY <1>1, SlotsOfFacts
<1>4. G \subseteq DOMAIN P /\ Part(P, t, fr)
  BY DEF Gone
<1> HIDE DEF P, Q, G, f
<1>5. Apart(P, t)
  BY <1>4 DEF Part
<1>6. Apart(Q, t)
  BY <1>2, <1>5, ApartSub
<1>7. \A x \in DOMAIN f : f[x] \in Slot /\ Owned(P, t, f[x])
  BY <1>3, <1>4, <1>5 DEF Apart, Owned
<1>8. \A x, y \in DOMAIN f : f[x] = f[y] => x = y
  BY <1>3, <1>4, <1>5 DEF Apart
<1>9. \A s \in Slot : Owned(Q, t, s) <=> Owned(P, t, s) /\ \A x \in DOMAIN f : f[x] # s
  BY <1>2, <1>3, <1>4, <1>5 DEF Apart, Owned
<1>10. Part(Q, t, Freed(fr, f))
  BY ONLY <1>4, <1>6, <1>7, <1>8, <1>9, PartFreed
<1> QED
  BY <1>10 DEF Q, f

\* v is t without the slots of tokens a+1 to n of request q, which are those of w.
Loses(t, q, w, a, n, v) ==
    /\ \A i \in a + 1 .. n : <<q, i>> \in DOMAIN t /\ t[<<q, i>>] = w[i]
    /\ \A h : h \in DOMAIN v <=> h \in DOMAIN t /\ \A i \in a + 1 .. n : h # <<q, i>>
    /\ \A h \in DOMAIN v : v[h] = t[h]

\* These slots are freed.
LEMMA DropTail ==
    ASSUME NEW P, NEW t, NEW fr, Part(P, t, fr), NEW w \in Seq(Slot), NEW q, NEW v,
           NEW a \in Nat, NEW n \in Nat, a <= n, n <= Len(w), Loses(t, q, w, a, n, v)
    PROVE  Part(P, v, Freed(fr, SubSeq(w, a + 1, n)))
<1> DEFINE f == SubSeq(w, a + 1, n)
           e(i) == <<q, i>>
           k == [x \in 1..n - a |-> e(a + x)]
<1>1. DOMAIN f = 1..n - a /\ \A x \in 1..n - a : f[x] = w[a + x]
  BY SubSeqFacts
<1>2. /\ \A i \in a + 1 .. n : e(i) \in DOMAIN t /\ t[e(i)] = w[i]
      /\ \A h : h \in DOMAIN v <=> h \in DOMAIN t /\ \A i \in a + 1 .. n : h # e(i)
      /\ \A h \in DOMAIN v : v[h] = t[h]
      /\ \A i, j : e(i) = e(j) => i = j
  BY DEF Loses
<1>3. \A x \in 1..n - a : k[x] = e(a + x) /\ a + x \in a + 1 .. n
  OBVIOUS
<1> HIDE DEF f, e, k
<1>4. \A x \in DOMAIN f : k[x] \in DOMAIN t /\ f[x] = t[k[x]]
  BY <1>1, <1>2, <1>3
<1>5. \A x, y \in DOMAIN f : k[x] = k[y] => x = y
  <2> SUFFICES ASSUME NEW x \in 1..n - a, NEW y \in 1..n - a, k[x] = k[y] PROVE x = y
    BY <1>1
  <2>1. a + x = a + y
    BY <1>2, <1>3
  <2> QED
    BY <2>1
<1>6. \A h : h \in DOMAIN v <=> h \in DOMAIN t /\ \A x \in DOMAIN f : k[x] # h
  <2> TAKE h
  <2>1. ASSUME NEW i \in a + 1 .. n, h = e(i) PROVE \E x \in DOMAIN f : k[x] = h
    <3>1. i - a \in 1..n - a /\ a + (i - a) = i
      BY <2>1
    <3> QED
      BY <1>1, <1>3, <2>1, <3>1
  <2>2. ASSUME NEW x \in DOMAIN f, k[x] = h PROVE \E i \in a + 1 .. n : h = e(i)
    BY <1>1, <1>3, <2>2
  <2> QED
    BY <1>2, <2>1, <2>2
<1>7. Drops(t, f, k, v)
  BY ONLY <1>2, <1>4, <1>5, <1>6 DEF Drops
<1>8. Part(P, v, Freed(fr, f))
  BY <1>7, DropPart
<1> QED
  BY <1>8 DEF f

\* Insertion of a key whose first m tokens are in the tree: the duplicates up to m
\* are freed and the others become places.
LEMMA InsertPart ==
    ASSUME NEW T, PlacesOK(T), NEW ns, NEW key \in Seq(Nat), NEW w \in Seq(Slot), NEW U,
           InsertOf(T, ns, key, w, U), NEW t, NEW fr, Part(T.pos, t, fr),
           Len(key) <= Len(w), NEW q, NEW a \in Nat, a <= InsertedPrefix(T, ns, key),
           NEW v, Loses(t, q, w, a, Len(key), v)
    PROVE  Part(U.pos, v, Freed(fr, SubSeq(w, a + 1, InsertedPrefix(T, ns, key))))
<1> DEFINE n == Len(key)
           m == InsertedPrefix(T, ns, key)
           f == SubSeq(w, a + 1, m)
           P == T.pos
           Q == U.pos
           z(i) == <<ns, Take(key, i)>>
           e(i) == <<q, i>>
           A == {g \in DOMAIN t : \A i \in a + 1 .. m : g # e(i)}
           t1 == [g \in A |-> t[g]]
<1>1. n \in Nat /\ m \in Nat /\ a <= m /\ m <= n /\ \A i \in 1..n : z(i) \in DOMAIN P <=> i <= m
  BY InsertedPrefixFacts
<1>3. /\ \A i \in a + 1 .. n : e(i) \in DOMAIN t /\ t[e(i)] = w[i]
      /\ \A h : h \in DOMAIN v <=> h \in DOMAIN t /\ \A i \in a + 1 .. n : h # e(i)
      /\ \A h \in DOMAIN v : v[h] = t[h]
      /\ \A i, j : e(i) = e(j) => i = j
  BY DEF Loses
<1>4. /\ \A x : x \in DOMAIN Q <=> x \in DOMAIN P \/ \E i \in m + 1 .. n : x = z(i)
      /\ \A x \in DOMAIN P : Q[x] = P[x]
      /\ \A i \in m + 1 .. n : Q[z(i)] = w[i]
  <2>1. /\ DOMAIN Q = DOMAIN P \cup {z(i) : i \in 1..n}
        /\ \A x \in DOMAIN P : Q[x] = P[x]
        /\ \A i \in m + 1 .. n : Q[z(i)] = w[i]
    BY DEF InsertOf, Grown
  <2> HIDE DEF P, Q, z, m, n
  <2>2. ASSUME NEW x \in DOMAIN Q, x \notin DOMAIN P PROVE \E i \in m + 1 .. n : x = z(i)
    <3>1. PICK i \in 1..n : x = z(i)
      BY <2>1, <2>2
    <3>2. ~(i <= m)
      BY <1>1, <2>2, <3>1
    <3> QED
      BY <1>1, <3>1, <3>2
  <2>3. \A i \in m + 1 .. n : z(i) \in DOMAIN Q
    BY <1>1, <2>1
  <2> QED
    BY <2>1, <2>2, <2>3
<1>5. \A i, j \in 1..n : z(i) = z(j) => i = j
  <2>1. \A i \in 1..n : Len(Take(key, i)) = i
    BY TakeType
  <2> QED
    BY <2>1
<1>7. DOMAIN t1 = A /\ \A g \in A : t1[g] = t[g]
  OBVIOUS
<1>8. \A g : g \in A <=> g \in DOMAIN t /\ \A i \in a + 1 .. m : g # e(i)
  OBVIOUS
<1>0. Part(P, t, fr) /\ m <= Len(w)
  BY <1>1
<1>9. Part(P, t1, Freed(fr, f))
  <2>1. \A i \in a + 1 .. m : i \in a + 1 .. n
    BY <1>1
  <2>2. /\ \A i \in a + 1 .. m : e(i) \in DOMAIN t /\ t[e(i)] = w[i]
        /\ \A g : g \in DOMAIN t1 <=> g \in DOMAIN t /\ \A i \in a + 1 .. m : g # e(i)
        /\ \A g \in DOMAIN t1 : t1[g] = t[g]
    <3> HIDE DEF m, n, e, A, t1
    <3> QED
      BY <1>3, <1>7, <1>8, <2>1
  <2>3. Loses(t, q, w, a, m, t1)
    <3> HIDE DEF m, t1
    <3> QED
      BY <2>2 DEF Loses
  <2> HIDE DEF m, t1, P
  <2> QED
    BY <1>0, <1>1, <2>3, DropTail
<1> HIDE DEF n, m, f, P, Q, z, e, A, t1
<1> DEFINE S == {e(i) : i \in m + 1 .. n}
           kk == [h \in S |-> z(CHOOSE i \in m + 1 .. n : h = e(i))]
<1>10. \A i \in m + 1 .. n : e(i) \in S /\ kk[e(i)] = z(i)
  <2> SUFFICES ASSUME NEW i \in m + 1 .. n PROVE kk[e(i)] = z(i)
    OBVIOUS
  <2>1. (CHOOSE j \in m + 1 .. n : e(i) = e(j)) = i
    BY <1>3
  <2> QED
    BY <2>1
<1>11. \A h \in S : \E i \in m + 1 .. n : h = e(i)
  OBVIOUS
<1> HIDE DEF S, kk
<1>12. Part(Q, v, Freed(fr, f))
  <2>1. \A h \in S : h \in DOMAIN t1 /\ kk[h] \notin DOMAIN P
    <3> SUFFICES ASSUME NEW i \in m + 1 .. n PROVE e(i) \in A /\ z(i) \notin DOMAIN P
      BY <1>7, <1>10, <1>11
    <3>1. i \in a + 1 .. n /\ i \in 1..n /\ ~(i <= m) /\ \A j \in a + 1 .. m : i # j
      BY <1>1
    <3> QED
      BY <1>1, <1>3, <1>8, <3>1
  <2>2. \A g, h \in S : kk[g] = kk[h] => g = h
    <3> SUFFICES ASSUME NEW i \in m + 1 .. n, NEW j \in m + 1 .. n, z(i) = z(j) PROVE i = j
      BY <1>10, <1>11
    <3>1. i \in 1..n /\ j \in 1..n
      BY <1>1
    <3> QED
      BY <1>5, <3>1
  <2>3. \A x : x \in DOMAIN Q <=> x \in DOMAIN P \/ \E h \in S : x = kk[h]
    BY <1>4, <1>10, <1>11
  <2>4. \A x \in DOMAIN P : Q[x] = P[x]
    BY <1>4
  <2>5. \A h \in S : Q[kk[h]] = t1[h]
    <3> SUFFICES ASSUME NEW i \in m + 1 .. n PROVE Q[z(i)] = t1[e(i)]
      BY <1>10, <1>11
    <3>1. i \in a + 1 .. n
      BY <1>1
    <3>2. e(i) \in A
      BY <1>7, <1>10, <2>1
    <3> QED
      BY <1>3, <1>4, <1>7, <3>1, <3>2
  <2>6. \A h : h \in DOMAIN v <=> h \in DOMAIN t1 /\ h \notin S
    <3> TAKE h
    <3>1. ASSUME NEW i \in a + 1 .. n, h = e(i) PROVE h \notin A \/ h \in S
      <4>1. i \in a + 1 .. m \/ i \in m + 1 .. n
        BY <1>1
      <4> QED
        BY <1>8, <1>10, <3>1, <4>1
    <3>2. ASSUME NEW i \in a + 1 .. m PROVE i \in a + 1 .. n
      BY <1>1
    <3>3. ASSUME NEW i \in m + 1 .. n PROVE i \in a + 1 .. n
      BY <1>1
    <3> QED
      BY <1>3, <1>7, <1>8, <1>11, <3>1, <3>2, <3>3
  <2>7. \A h \in DOMAIN v : v[h] = t1[h]
    BY <1>3, <1>7, <2>6
  <2> QED
    <3>1. Moves(P, t1, S, kk, Q, v)
      BY ONLY <2>1, <2>2, <2>3, <2>4, <2>5, <2>6, <2>7 DEF Moves
    <3> QED
      BY ONLY <1>9, <3>1, MovePart
<1> QED
  BY <1>12 DEF Q, f, m

-----------------------------------------------------------------------------
(* Texts and places *)

\* A request's tokens.
LEMMA TextFacts ==
    ASSUME NEW q \in Request
    PROVE  /\ Text(q) \in Seq(Nat) /\ Len(Text(q)) = Len(Meta[q].prompt) + Meta[q].out
           /\ Len(Meta[q].prompt) \in Nat /\ Len(Meta[q].prompt) > 0
           /\ Meta[q].out \in Nat /\ Meta[q].out > 0
<1> DEFINE p == Meta[q].prompt
           n == Meta[q].out
           s == [i \in 1..n |-> 1]
<1>1. p \in Seq(Nat) /\ p # <<>> /\ n \in Nat /\ n # 0
  BY OverlapAssumption
<1>2. s \in Seq(Nat) /\ Len(s) = n
  BY <1>1
<1>3. Text(q) = p \o s
  BY DEF Text
<1> HIDE DEF p, n, s
<1>4. p \o s \in Seq(Nat) /\ Len(p \o s) = Len(p) + Len(s) /\ Len(p) \in Nat /\ Len(p) > 0
  BY <1>1, <1>2
<1> QED
  BY <1>1, <1>2, <1>3, <1>4 DEF p, n

\* The place of a prefix under the principal's root.
LEMMA PlaceFacts ==
    ASSUME NEW q \in Request, NEW i \in 0..Len(Text(q))
    PROVE  /\ Place(q, i)[1] = Root /\ Place(q, i)[2] = Take(Text(q), i)
           /\ Take(Text(q), i) \in Seq(Nat) /\ Len(Take(Text(q), i)) = i
           /\ IsSpot(Place(q, i))
           /\ i # 0 => IsPlace(Place(q, i)) /\ Place(q, i)[2] # <<>>
           /\ i = 0 => Place(q, i)[2] = <<>> /\ Place(q, i) = NoNode
<1>1. Text(q) \in Seq(Nat)
  BY TextFacts
<1>2. /\ Take(Text(q), i) \in Seq(Nat) /\ Len(Take(Text(q), i)) = i
      /\ i # 0 => Take(Text(q), i) # <<>>
  BY <1>1, TakeType
<1>3. i = 0 => Take(Text(q), i) = <<>>
  BY <1>1, TakeNone
<1> QED
  BY <1>2, <1>3 DEF Place, IsPlace, IsSpot, NoNode

\* Different prefixes are at different places.
LEMMA PlaceInj ==
    ASSUME NEW q \in Request, NEW i \in 0..Len(Text(q)), NEW j \in 0..Len(Text(q)),
           Place(q, i) = Place(q, j)
    PROVE  i = j
<1>1. Len(Place(q, i)[2]) = i
  BY PlaceFacts
<1>2. Len(Place(q, j)[2]) = j
  BY PlaceFacts
<1> QED
  BY <1>1, <1>2

\* A shorter prefix is above a longer one.
LEMMA PlaceAbove ==
    ASSUME NEW q \in Request, NEW j \in 0..Len(Text(q)), NEW i \in 0..j
    PROVE  Above(Place(q, i), Place(q, j))
<1> DEFINE b == Place(q, j)
<1>1. IsSpot(b) /\ b[1] = Root /\ b[2] = Take(Text(q), j) /\ Len(b[2]) = j
  BY PlaceFacts
<1>2. Place(q, i) = At(b, i)
  <2>1. Take(Take(Text(q), j), i) = Take(Text(q), i)
    BY TextFacts, TakeTake
  <2> QED
    BY <1>1, <2>1 DEF Place, At
<1>3. i \in 0..Len(b[2])
  BY <1>1
<1> HIDE DEF b
<1>4. Above(At(b, i), b)
  BY <1>1, <1>3, AtFacts
<1> QED
  BY <1>2, <1>4 DEF b

\* The places of a key that is a prefix of the text.
LEMMA KeyPlaces ==
    ASSUME NEW q \in Request, NEW n \in 0..Len(Text(q))
    PROVE  LET key == Take(Text(q), n)
           IN  /\ key \in Seq(Nat) /\ Len(key) = n
               /\ \A i \in 0..n : /\ Take(key, i) = Take(Text(q), i)
                                  /\ <<Root, Take(key, i)>> = Place(q, i)
<1>1. Text(q) \in Seq(Nat)
  BY TextFacts
<1>2. Take(Text(q), n) \in Seq(Nat) /\ Len(Take(Text(q), n)) = n
  BY <1>1, TakeType
<1>3. \A i \in 0..n : Take(Take(Text(q), n), i) = Take(Text(q), i)
  BY <1>1, TakeTake
<1> QED
  BY <1>2, <1>3 DEF Place

-----------------------------------------------------------------------------
(* match_prefix, cache_unfinished_req and cache_finished_req on a tree *)

\* The prefix of length k of q's text is all of it that T holds, within n tokens.
Matched(T, q, n, m) ==
    /\ Grown(T, m.tree) /\ m.tree.pos = T.pos
    /\ m.pre \in Seq(Slot) /\ Len(m.pre) = InsertedPrefix(T, Root, Take(Text(q), n))
    /\ Len(m.pre) <= n
    /\ m.last = Place(q, Len(m.pre))
    /\ m.last[2] = <<>> \/ m.last \in DOMAIN m.tree.nd
    /\ \A i \in 1..Len(m.pre) :
          Place(q, i) \in DOMAIN T.pos /\ T.pos[Place(q, i)] = m.pre[i]

\* match_prefix finds the longest cached prefix and makes a node end there.
LEMMA MatchFacts ==
    ASSUME NEW T, TreeOK(T), \A x \in DOMAIN T.pos : T.pos[x] \in Slot,
           NEW q \in Request, NEW n \in 0..Len(Text(q))
    PROVE  Matched(T, q, n, MatchPrefix(T, Take(Text(q), n)))
<1> DEFINE key == Take(Text(q), n)
           k == InsertedPrefix(T, Root, key)
           hit == Take(key, k)
           S == Split(T, Root, hit)
           m == MatchPrefix(T, key)
<1>1. /\ key \in Seq(Nat) /\ Len(key) = n
      /\ \A i \in 0..n : Take(key, i) = Take(Text(q), i) /\ <<Root, Take(key, i)>> = Place(q, i)
  BY KeyPlaces
<1>2. PlacesOK(T) /\ k \in 0..n /\ \A i \in 1..n : Place(q, i) \in DOMAIN T.pos <=> i <= k
  <2>1. PlacesOK(T)
    BY DEF TreeOK
  <2>2. k \in 0..Len(key)
        /\ \A i \in 1..Len(key) : (<<Root, Take(key, i)>> \in DOMAIN T.pos) <=> i <= k
    <3> HIDE DEF key
    <3> QED
      BY <1>1, <2>1, InsertedPrefixFacts
  <2> HIDE DEF key, k
  <2>3. \A i \in 1..n : <<Root, Take(key, i)>> = Place(q, i)
    BY <1>1
  <2> QED
    BY <1>1, <2>1, <2>2, <2>3
<1> HIDE DEF k
<1>3. /\ hit = Take(Text(q), k) /\ <<Root, hit>> = Place(q, k)
      /\ hit \in Seq(Nat) /\ Len(hit) = k
      /\ \A i \in 0..k : <<Root, Take(hit, i)>> = Place(q, i)
  <2>1. hit = Take(Text(q), k)
    BY <1>1, <1>2
  <2>2. k \in 0..Len(Text(q))
    BY <1>2, TextFacts
  <2>3. /\ Take(Text(q), k) \in Seq(Nat) /\ Len(Take(Text(q), k)) = k
        /\ \A i \in 0..k : <<Root, Take(Take(Text(q), k), i)>> = Place(q, i)
    BY <2>2, KeyPlaces
  <2> QED
    BY <2>1, <2>3 DEF Place
<1>4. hit = <<>> \/ <<Root, hit>> \in DOMAIN T.pos
  <2> HIDE DEF hit, key
  <2>1. CASE k = 0
    BY <1>3, <2>1
  <2>2. CASE k \in 1..n
    <3>1. Place(q, k) \in DOMAIN T.pos
      BY <1>1, <1>2, <2>2
    <3> QED
      BY <1>3, <3>1
  <2>3. n \in Nat
    BY <1>1
  <2> QED
    BY <1>2, <2>1, <2>2, <2>3
<1>5. SplitOf(T, Root, hit, S)
  BY <1>4, SplitFacts
<1>6. Grown(T, S) /\ S.pos = T.pos /\ (hit = <<>> \/ <<Root, hit>> \in DOMAIN S.nd)
  <2>1. Grown(T, S)
    BY <1>5, SplitGrown
  <2> QED
    BY <1>5, <2>1 DEF SplitOf
<1>7. m = [tree |-> S, pre |-> Cached(S, hit), last |-> <<Root, hit>>]
  BY DEF MatchPrefix, k
<1>8. Cached(S, hit) = [i \in DOMAIN hit |-> S.pos[<<Root, Take(hit, i)>>]]
  BY DEF Cached
<1> HIDE DEF key, hit, S, m
<1>9. DOMAIN hit = 1..k
  BY <1>3
<1>10. m.pre = [i \in 1..k |-> T.pos[Place(q, i)]]
  <2>1. \A i \in 1..k : S.pos[<<Root, Take(hit, i)>>] = T.pos[Place(q, i)]
    <3>1. \A i \in 1..k : <<Root, Take(hit, i)>> = Place(q, i)
      BY <1>2, <1>3
    <3> QED
      BY <1>6, <3>1, Zenon
  <2> QED
    BY <1>7, <1>8, <1>9, <2>1
<1>11. \A i \in 1..k : Place(q, i) \in DOMAIN T.pos /\ T.pos[Place(q, i)] \in Slot
  BY <1>2
<1>12. m.pre \in Seq(Slot) /\ Len(m.pre) = k /\ \A i \in 1..k : m.pre[i] = T.pos[Place(q, i)]
  BY <1>2, <1>10, <1>11
<1>13. Place(q, k)[2] = hit /\ m.last = Place(q, k) /\ m.tree = S
  BY <1>3, <1>7
<1>14. Matched(T, q, n, m)
  <2>1. Grown(T, m.tree) /\ m.tree.pos = T.pos
    BY <1>6, <1>13
  <2>2. Len(m.pre) <= n /\ m.last = Place(q, Len(m.pre))
    BY <1>1, <1>2, <1>12, <1>13
  <2>3. m.last[2] = <<>> \/ m.last \in DOMAIN m.tree.nd
    BY <1>3, <1>6, <1>13
  <2>4. Len(m.pre) = InsertedPrefix(T, Root, Take(Text(q), n))
    BY <1>12 DEF k, key
  <2>5. \A i \in 1..Len(m.pre) : Place(q, i) \in DOMAIN T.pos /\ T.pos[Place(q, i)] = m.pre[i]
    BY <1>11, <1>12
  <2> QED
    BY <1>12, <2>1, <2>2, <2>3, <2>4, <2>5 DEF Matched
<1> QED
  BY <1>14 DEF m, key

\* add_one_req: a request that holds nothing pins what it matches.
LEMMA PinnedMatch ==
    ASSUME NEW T, NEW H, NEW L, Tended(T, H, L), NEW q \in Request, q \notin H, NEW n, NEW m,
           Matched(T, q, n, m), NEW K, \A p \in H : K[p] = L[p], K[q] = m.last
    PROVE  /\ Tended(m.tree, H, L)
           /\ Tended(IncLockRef(m.tree, m.last), H \cup {q}, K)
           /\ IncLockRef(m.tree, m.last).pos = T.pos
<1>1. TreeOK(m.tree) /\ Grown(T, m.tree) /\ m.tree.pos = T.pos
  BY DEF Matched, Grown
<1>2. Pins(m.tree, H, L) /\ LockedBy(m.tree, H, L)
  BY <1>1, GrownLocks DEF Tended
<1>3. Tended(m.tree, H, L)
  BY <1>1, <1>2 DEF Tended
<1> DEFINE S == m.tree
           x == m.last
           R == IncLockRef(S, x)
<1>4. x[2] = <<>> \/ x \in DOMAIN S.nd
  BY DEF Matched
<1>5. K[q] = x
  OBVIOUS
<1>6. TreeOK(S) /\ IsFiniteSet(H) /\ Pins(S, H, L) /\ LockedBy(S, H, L)
  BY <1>3 DEF Tended
<1> HIDE DEF S, x
<1>7. Pins(R, H \cup {q}, K) /\ LockedBy(R, H \cup {q}, K)
  BY <1>4, <1>5, <1>6, IncLocks
<1>8. R.pos = S.pos /\ DOMAIN R.nd = DOMAIN S.nd /\ TreeShape(R) /\ NodesOK(R)
  BY <1>6, IncLockFacts DEF TreeOK
<1>9. PlacesOK(R)
  BY <1>6, <1>8, SamePlaces DEF TreeOK
<1>10. TreeOK(R)
  BY <1>8, <1>9 DEF TreeOK
<1>11. IsFiniteSet(H \cup {q}) /\ H \cup {q} \subseteq Request
  BY <1>6, FS_AddElement DEF Tended
<1> HIDE DEF R
<1>12. Tended(R, H \cup {q}, K)
  BY <1>7, <1>10, <1>11 DEF Tended
<1> QED
  BY <1>1, <1>3, <1>8, <1>12 DEF R, S, x

\* A request lets go of its prefix.
LEMMA Unpinned ==
    ASSUME NEW T, NEW H, NEW L, Tended(T, H, L), NEW q \in H, NEW K, \A p \in H : p # q => K[p] = L[p]
    PROVE  /\ Tended(DecLockRef(T, L[q]), H \ {q}, K) /\ DecLockRef(T, L[q]).pos = T.pos
           /\ DOMAIN DecLockRef(T, L[q]).nd = DOMAIN T.nd
<1> DEFINE R == DecLockRef(T, L[q])
<1>0. TreeOK(T) /\ IsFiniteSet(H) /\ Pins(T, H, L) /\ LockedBy(T, H, L)
  BY DEF Tended
<1>1. /\ TreeOK(R) /\ R.pos = T.pos /\ Pins(R, H \ {q}, L) /\ LockedBy(R, H \ {q}, L)
      /\ DOMAIN R.nd = DOMAIN T.nd
  <2>1. R = DecLockRef(T, L[q])
    OBVIOUS
  <2> HIDE DEF R
  <2>2. LetGo(T, H, L, q, R)
    BY ONLY <1>0, <2>1, q \in H, DecLocks
  <2> QED
    BY ONLY <2>2 DEF LetGo
<1>2. IsFiniteSet(H \ {q}) /\ H \ {q} \subseteq Request
  BY FS_Subset DEF Tended
<1>3. \A p \in H \ {q} : K[p] = L[p]
  OBVIOUS
<1> HIDE DEF R
<1>4. Pins(R, H \ {q}, K)
  BY <1>1, <1>3 DEF Pins
<1>5. LockedBy(R, H \ {q}, K)
  <2> SUFFICES ASSUME NEW x \in DOMAIN R.nd
               PROVE  R.nd[x].lock = Cardinality({p \in H \ {q} : Above(x, K[p])})
    BY DEF LockedBy
  <2>1. {p \in H \ {q} : Above(x, K[p])} = {p \in H \ {q} : Above(x, L[p])}
    BY <1>3
  <2>2. R.nd[x].lock = Cardinality({p \in H \ {q} : Above(x, L[p])})
    BY <1>1 DEF LockedBy
  <2> QED
    BY <2>1, <2>2, Zenon
<1>6. Tended(R, H \ {q}, K)
  BY <1>1, <1>2, <1>4, <1>5 DEF Tended
<1> QED
  BY <1>1, <1>6 DEF R

-----------------------------------------------------------------------------
(* Lists of requests *)

\* What a sequence holds.
LEMMA ToSetFacts ==
    ASSUME NEW S, NEW s \in Seq(S)
    PROVE  /\ \A x : x \in ToSet(s) <=> \E i \in 1..Len(s) : s[i] = x
           /\ Len(s) \in Nat /\ DOMAIN s = 1..Len(s) /\ ToSet(s) \subseteq S
           /\ \A i \in 1..Len(s) : s[i] \in S /\ s[i] \in ToSet(s)
           /\ s = <<>> <=> Len(s) = 0
BY DEF ToSet

\* How many of the numbers K are at most i.
Rank(K, i) == Cardinality({j \in K : j <= i})

\* Ranks number the members of K.
LEMMA RankFacts ==
    ASSUME NEW n \in Nat, NEW K, K \subseteq 1..n
    PROVE  /\ Cardinality(K) \in Nat
           /\ \A i \in K : Rank(K, i) \in 1..Cardinality(K)
           /\ \A i, j \in K : Rank(K, i) = Rank(K, j) => i = j
           /\ \A m \in 1..Cardinality(K) : \E i \in K : Rank(K, i) = m
<1>1. IsFiniteSet(1..n)
  <2>1. CASE n = 0
    BY <2>1, FS_Interval
  <2>2. CASE n # 0
    BY <2>2, FS_Interval
  <2> QED
    BY <2>1, <2>2
<1>2. IsFiniteSet(K) /\ Cardinality(K) \in Nat
  BY <1>1, FS_Subset, FS_CardinalityType
<1> DEFINE B(i) == {j \in K : j <= i}
<1>3. ASSUME NEW i \in K
      PROVE  IsFiniteSet(B(i)) /\ Cardinality(B(i)) \in Nat /\ Cardinality(B(i)) > 0
             /\ Cardinality(B(i)) <= Cardinality(K)
  <2>1. B(i) \subseteq K /\ i \in B(i)
    OBVIOUS
  <2>2. IsFiniteSet(B(i)) /\ Cardinality(B(i)) <= Cardinality(K)
    BY <1>2, <2>1, FS_Subset
  <2>3. Cardinality(B(i)) \in Nat /\ (Cardinality(B(i)) = 0 <=> B(i) = {})
    BY <2>2, FS_CardinalityType, FS_EmptySet
  <2> QED
    BY <2>1, <2>2, <2>3
<1>4. \A i \in K : Rank(K, i) = Cardinality(B(i))
  BY DEF Rank
<1>5. ASSUME NEW i \in K, NEW j \in K, i < j PROVE Cardinality(B(i)) < Cardinality(B(j))
  <2>0. K \subseteq Nat /\ j \in B(j) /\ j \notin B(i)
    BY <1>5
  <2>1. B(i) \subseteq B(j) /\ B(i) # B(j)
    <3>1. ASSUME NEW x \in B(i) PROVE x \in B(j)
      <4>1. x \in Nat /\ i \in Nat /\ j \in Nat /\ x <= i /\ x \in K
        BY <2>0
      <4>2. x <= j
        BY <1>5, <4>1
      <4> QED
        BY <4>1, <4>2
    <3> QED
      BY <2>0, <3>1
  <2>2. Cardinality(B(i)) <= Cardinality(B(j)) /\ (Cardinality(B(i)) = Cardinality(B(j)) => B(i) = B(j))
    BY <1>3, <2>1, FS_Subset
  <2> QED
    BY <1>3, <2>1, <2>2
<1>6. \A i \in K : Rank(K, i) \in 1..Cardinality(K)
  <2> HIDE DEF B
  <2> QED
    BY <1>2, <1>3, <1>4
<1>7. ASSUME NEW i \in K, NEW j \in K, Rank(K, i) = Rank(K, j) PROVE i = j
  <2>1. i \in Nat /\ j \in Nat /\ (i < j \/ j < i \/ i = j)
    OBVIOUS
  <2>2. Rank(K, i) = Cardinality(B(i)) /\ Rank(K, j) = Cardinality(B(j))
    BY <1>4
  <2>3. Cardinality(B(i)) \in Nat /\ Cardinality(B(j)) \in Nat
    BY <1>3
  <2> HIDE DEF B
  <2> QED
    <3>1. ~(Cardinality(B(i)) < Cardinality(B(j))) /\ ~(Cardinality(B(j)) < Cardinality(B(i)))
      <4>1. Cardinality(B(i)) = Cardinality(B(j))
        BY <1>7, <2>2
      <4> QED
        BY <2>3, <4>1
    <3> QED
      BY <1>5, <2>1, <3>1
<1> DEFINE f == [i \in K |-> Rank(K, i)]
           c == Cardinality(K)
<1>8. f \in [K -> 1..c] /\ \A i \in K : f[i] = Rank(K, i)
  BY <1>6
<1>9. IsFiniteSet(1..c) /\ Cardinality(1..c) = c
  <2>1. CASE c = 0
    BY <2>1, FS_Interval
  <2>2. CASE c # 0
    BY <1>2, <2>2, FS_Interval
  <2> QED
    BY <2>1, <2>2
<1> HIDE DEF f, B
<1>10. f \in Injection(K, 1..c)
  BY <1>7, <1>8 DEF Injection, IsInjective
<1>11. f \in Surjection(K, 1..c)
  <2> HIDE DEF c
  <2>1. c = Cardinality(K)
    BY DEF c
  <2> QED
    BY <1>9, <1>10, <2>1, FS_Injection
<1>12. \A m \in 1..c : \E i \in K : Rank(K, i) = m
  BY <1>8, <1>11 DEF Surjection
<1> QED
  BY <1>2, <1>6, <1>7, <1>12

\* Filter keeps order, and so distinctness.
LEMMA FilterFacts ==
    ASSUME NEW X, NEW s \in Seq(X), Distinct(s), NEW S
    PROVE  /\ Filter(s, S) \in Seq(X) /\ Distinct(Filter(s, S))
           /\ \A x : x \in ToSet(Filter(s, S)) <=> x \in ToSet(s) /\ x \in S
<1> DEFINE K == {i \in DOMAIN s : s[i] \in S}
           c == Cardinality(K)
           at(n) == CHOOSE i \in K : Rank(K, i) = n
           f == Filter(s, S)
<1>1. Len(s) \in Nat /\ DOMAIN s = 1..Len(s) /\ \A i \in 1..Len(s) : s[i] \in X
  OBVIOUS
<1>2. K \subseteq 1..Len(s)
  BY <1>1
<1>3. f = [n \in 1..c |-> s[at(n)]]
  BY DEF Filter, Rank
<1>4. \A i : i \in K <=> i \in 1..Len(s) /\ s[i] \in S
  BY <1>1
<1> HIDE DEF K
<1>5. /\ c \in Nat
      /\ \A i \in K : Rank(K, i) \in 1..c
      /\ \A i, j \in K : Rank(K, i) = Rank(K, j) => i = j
      /\ \A m \in 1..c : \E i \in K : Rank(K, i) = m
  BY <1>1, <1>2, RankFacts
<1> HIDE DEF c, f
<1>6. \A n \in 1..c : at(n) \in K /\ Rank(K, at(n)) = n
  BY <1>5
<1>7. \A i \in K : at(Rank(K, i)) = i
  BY <1>5
<1> HIDE DEF at
<1>8. f \in Seq(X) /\ Len(f) = c /\ \A n \in 1..c : f[n] = s[at(n)]
  <2>1. \A n \in 1..c : s[at(n)] \in X
    BY <1>1, <1>4, <1>6
  <2> QED
    BY <1>3, <1>5, <2>1
<1>9. Distinct(f)
  <2> SUFFICES ASSUME NEW m \in 1..c, NEW n \in 1..c, f[m] = f[n] PROVE m = n
    BY <1>8 DEF Distinct
  <2>1. at(m) \in 1..Len(s) /\ at(n) \in 1..Len(s) /\ s[at(m)] = s[at(n)]
    BY <1>4, <1>6, <1>8
  <2>2. at(m) = at(n)
    BY <1>1, <2>1 DEF Distinct
  <2> QED
    BY <1>6, <2>2
<1>10. ASSUME NEW x PROVE x \in ToSet(f) <=> x \in ToSet(s) /\ x \in S
  <2>1. ASSUME x \in ToSet(f) PROVE x \in ToSet(s) /\ x \in S
    <3>1. PICK n \in 1..c : f[n] = x
      BY <1>8, <2>1, ToSetFacts
    <3>2. at(n) \in 1..Len(s) /\ s[at(n)] \in S /\ s[at(n)] = x
      BY <1>4, <1>6, <1>8, <3>1
    <3> QED
      BY <3>2, ToSetFacts
  <2>2. ASSUME x \in ToSet(s), x \in S PROVE x \in ToSet(f)
    <3>1. PICK i \in 1..Len(s) : s[i] = x
      BY <2>2, ToSetFacts
    <3>2. i \in K
      BY <1>4, <2>2, <3>1
    <3>3. Rank(K, i) \in 1..c /\ f[Rank(K, i)] = x
      BY <1>5, <1>7, <1>8, <3>1, <3>2
    <3> QED
      BY <1>8, <3>3, ToSetFacts
  <2> QED
    BY <2>1, <2>2
<1> QED
  BY <1>8, <1>9, <1>10 DEF f

\* A list with one member more.
LEMMA AppendSet ==
    ASSUME NEW X, NEW s \in Seq(X), Distinct(s), NEW e \in X, e \notin ToSet(s)
    PROVE  /\ Append(s, e) \in Seq(X) /\ Distinct(Append(s, e))
           /\ \A x : x \in ToSet(Append(s, e)) <=> x \in ToSet(s) \/ x = e
<1> DEFINE t == Append(s, e)
<1>1. /\ t \in Seq(X) /\ Len(t) = Len(s) + 1 /\ Len(s) \in Nat
      /\ t[Len(s) + 1] = e /\ \A i \in 1..Len(s) : t[i] = s[i]
  OBVIOUS
<1>2. \A i \in 1..Len(s) : s[i] # e
  BY ToSetFacts
<1> HIDE DEF t
<1>3. \A i \in 1..Len(t) : i \in 1..Len(s) \/ i = Len(s) + 1
  BY <1>1
<1>4. Distinct(t)
  <2> SUFFICES ASSUME NEW i \in 1..Len(t), NEW j \in 1..Len(t), t[i] = t[j] PROVE i = j
    BY <1>1 DEF Distinct
  <2> QED
    BY <1>1, <1>2, <1>3 DEF Distinct
<1>5. ASSUME NEW x PROVE x \in ToSet(t) <=> x \in ToSet(s) \/ x = e
  <2>1. x \in ToSet(t) <=> \E i \in 1..Len(t) : t[i] = x
    BY <1>1, ToSetFacts
  <2>2. x \in ToSet(s) <=> \E i \in 1..Len(s) : s[i] = x
    BY ToSetFacts
  <2>3. \A i \in 1..Len(s) : i \in 1..Len(t)
    BY <1>1
  <2>4. Len(s) + 1 \in 1..Len(t)
    BY <1>1
  <2> QED
    BY <1>1, <1>3, <2>1, <2>2, <2>3, <2>4
<1> QED
  BY <1>1, <1>4, <1>5 DEF t

\* Two lists, one after the other.
LEMMA ConcatSet ==
    ASSUME NEW X, NEW s \in Seq(X), Distinct(s), NEW t \in Seq(X), Distinct(t),
           \A x \in ToSet(s) : x \notin ToSet(t)
    PROVE  /\ s \o t \in Seq(X) /\ Distinct(s \o t)
           /\ \A x : x \in ToSet(s \o t) <=> x \in ToSet(s) \/ x \in ToSet(t)
<1> DEFINE u == s \o t
           m == Len(s)
           n == Len(t)
<1>0. m \in Nat /\ n \in Nat
  OBVIOUS
<1>1. /\ u \in Seq(X) /\ Len(u) = m + n /\ m \in Nat /\ n \in Nat
      /\ \A i \in 1..m + n : u[i] = IF i <= m THEN s[i] ELSE t[i - m]
  BY ConcatProperties
<1>2. /\ \A x : x \in ToSet(s) <=> \E i \in 1..m : s[i] = x
      /\ \A x : x \in ToSet(t) <=> \E i \in 1..n : t[i] = x
      /\ DOMAIN s = 1..m /\ DOMAIN t = 1..n
  BY ToSetFacts
<1> HIDE DEF u, m, n
<1>3. \A x : x \in ToSet(u) <=> \E i \in 1..m + n : u[i] = x
  <2>1. \A x : x \in ToSet(u) <=> \E i \in 1..Len(u) : u[i] = x
    BY <1>1, ToSetFacts
  <2> QED
    BY <1>1, <2>1
<1>4. \A i \in 1..m + n : \/ i \in 1..m /\ u[i] = s[i]
                          \/ i - m \in 1..n /\ u[i] = t[i - m]
  <2> TAKE i \in 1..m + n
  <2>1. CASE i <= m
    <3>1. i \in 1..m
      BY <1>0, <2>1
    <3> QED
      BY <1>1, <2>1, <3>1
  <2>2. CASE ~(i <= m)
    <3>1. i - m \in 1..n
      BY <1>0, <2>2
    <3> QED
      BY <1>1, <2>2, <3>1
  <2> QED
    BY <2>1, <2>2
<1>5. \A i \in 1..m : i \in 1..m + n /\ u[i] = s[i]
  BY <1>1
<1>6. \A i \in 1..n : m + i \in 1..m + n /\ u[m + i] = t[i]
  BY <1>1
<1>7. Distinct(u)
  <2> SUFFICES ASSUME NEW i \in 1..m + n, NEW j \in 1..m + n, u[i] = u[j] PROVE i = j
    BY <1>1 DEF Distinct
  <2>1. CASE i \in 1..m /\ u[i] = s[i] /\ j \in 1..m /\ u[j] = s[j]
    BY <1>2, <2>1 DEF Distinct
  <2>2. CASE i \in 1..m /\ u[i] = s[i] /\ j - m \in 1..n /\ u[j] = t[j - m]
    BY <1>2, <2>2
  <2>3. CASE i - m \in 1..n /\ u[i] = t[i - m] /\ j \in 1..m /\ u[j] = s[j]
    BY <1>2, <2>3
  <2>4. CASE i - m \in 1..n /\ u[i] = t[i - m] /\ j - m \in 1..n /\ u[j] = t[j - m]
    <3>1. i - m = j - m
      BY <1>2, <2>4 DEF Distinct
    <3> QED
      BY <1>1, <3>1
  <2> QED
    BY <1>4, <2>1, <2>2, <2>3, <2>4
<1>8. \A x : x \in ToSet(u) <=> x \in ToSet(s) \/ x \in ToSet(t)
  <2> TAKE x
  <2>1. x \in ToSet(u) => x \in ToSet(s) \/ x \in ToSet(t)
    BY <1>2, <1>3, <1>4
  <2>2. x \in ToSet(s) => x \in ToSet(u)
    BY <1>2, <1>3, <1>5
  <2>3. x \in ToSet(t) => x \in ToSet(u)
    BY <1>2, <1>3, <1>6
  <2> QED
    BY <2>1, <2>2, <2>3
<1> QED
  BY <1>1, <1>7, <1>8 DEF u

\* A list without its first n members.
LEMMA DropSet ==
    ASSUME NEW X, NEW s \in Seq(X), Distinct(s), NEW n \in 0..Len(s)
    PROVE  LET t == SubSeq(s, n + 1, Len(s))
           IN  /\ t \in Seq(X) /\ Distinct(t)
               /\ \A i \in DOMAIN t : t[i] \in ToSet(s) /\ \A j \in 1..n : s[j] # t[i]
<1> DEFINE t == SubSeq(s, n + 1, Len(s))
           m == Len(s)
<1>1. m \in Nat /\ n \in Nat /\ n <= m /\ DOMAIN s = 1..m
  OBVIOUS
<1>2. t \in Seq(X) /\ Len(t) = m - n /\ DOMAIN t = 1..m - n /\ \A i \in 1..m - n : t[i] = s[n + i]
  <2> HIDE DEF m
  <2>1. m <= Len(s)
    BY <1>1 DEF m
  <2>2. /\ SubSeq(s, n + 1, m) \in Seq(X) /\ Len(SubSeq(s, n + 1, m)) = m - n
        /\ DOMAIN SubSeq(s, n + 1, m) = 1..m - n
        /\ \A i \in 1..m - n : SubSeq(s, n + 1, m)[i] = s[n + i]
    BY <1>1, <2>1, SubSeqFacts
  <2> QED
    BY <2>2 DEF m
<1>3. \A i \in 1..m : s[i] \in ToSet(s)
  BY ToSetFacts
<1> HIDE DEF t, m
<1>4. \A i \in 1..m - n : n + i \in 1..m
  BY <1>1
<1>5. \A i \in 1..n : i \in 1..m
  BY <1>1
<1>6. Distinct(t)
  <2> SUFFICES ASSUME NEW i \in 1..m - n, NEW j \in 1..m - n, t[i] = t[j] PROVE i = j
    BY <1>2 DEF Distinct
  <2>1. n + i = n + j
    BY <1>1, <1>2, <1>4 DEF Distinct
  <2> QED
    BY <1>1, <2>1
<1>7. ASSUME NEW i \in 1..m - n, NEW j \in 1..n PROVE s[j] # t[i]
  <2>1. s[j] = s[n + i] => j = n + i
    BY <1>1, <1>4, <1>5 DEF Distinct
  <2>2. j # n + i
    BY <1>1
  <2> QED
    BY <1>2, <2>1, <2>2
<1>8. \A i \in DOMAIN t : t[i] \in ToSet(s) /\ \A j \in 1..n : s[j] # t[i]
  BY <1>2, <1>3, <1>4, <1>7
<1> QED
  BY <1>2, <1>6, <1>8 DEF t, m

\* Head and tail.
LEMMA TailSet ==
    ASSUME NEW X, NEW s \in Seq(X), Distinct(s), s # <<>>
    PROVE  /\ Head(s) \in X /\ Head(s) \in ToSet(s)
           /\ Tail(s) \in Seq(X) /\ Distinct(Tail(s))
           /\ \A x : x \in ToSet(Tail(s)) <=> x \in ToSet(s) /\ x # Head(s)
<1> DEFINE t == Tail(s)
           m == Len(s)
<1>1. /\ m \in Nat /\ m > 0 /\ DOMAIN s = 1..m /\ Head(s) = s[1]
      /\ t \in Seq(X) /\ Len(t) = m - 1 /\ \A i \in 1..m - 1 : t[i] = s[i + 1]
  BY HeadTailProperties
<1>2. \A x : x \in ToSet(s) <=> \E i \in 1..m : s[i] = x
  BY ToSetFacts
<1> HIDE DEF t, m
<1>3. \A x : x \in ToSet(t) <=> \E i \in 1..m - 1 : t[i] = x
  <2>1. \A x : x \in ToSet(t) <=> \E i \in 1..Len(t) : t[i] = x
    BY <1>1, ToSetFacts
  <2> QED
    BY <1>1, <2>1
<1>4. \A i \in 1..m - 1 : i + 1 \in 1..m /\ i + 1 # 1
  BY <1>1
<1>5. \A i \in 1..m : i = 1 \/ (i - 1 \in 1..m - 1 /\ (i - 1) + 1 = i)
  BY <1>1
<1>6. 1 \in 1..m
  BY <1>1
<1>7. Distinct(t)
  <2> SUFFICES ASSUME NEW i \in 1..m - 1, NEW j \in 1..m - 1, t[i] = t[j] PROVE i = j
    BY <1>1 DEF Distinct
  <2>1. t[i] = s[i + 1] /\ t[j] = s[j + 1] /\ i + 1 \in DOMAIN s /\ j + 1 \in DOMAIN s
    BY ONLY <1>1, <1>4
  <2>2. i + 1 = j + 1
    BY ONLY <2>1, t[i] = t[j], Distinct(s) DEF Distinct
  <2> QED
    BY ONLY <2>2
<1>8. \A i, j \in 1..m : s[i] = s[j] => i = j
  BY <1>1 DEF Distinct
<1>9. \A x : x \in ToSet(t) <=> x \in ToSet(s) /\ x # Head(s)
  <2> TAKE x
  <2>1. ASSUME x \in ToSet(t) PROVE x \in ToSet(s) /\ x # Head(s)
    <3>1. PICK i \in 1..m - 1 : t[i] = x
      BY <1>3, <2>1
    <3> QED
      BY <1>1, <1>2, <1>4, <1>6, <1>8, <3>1
  <2>2. ASSUME x \in ToSet(s), x # Head(s) PROVE x \in ToSet(t)
    <3>1. PICK i \in 1..m : s[i] = x
      BY <1>2, <2>2
    <3>2. i # 1
      BY <1>1, <2>2, <3>1
    <3> QED
      BY <1>1, <1>3, <1>5, <3>1, <3>2
  <2> QED
    BY <2>1, <2>2
<1>10. Head(s) \in X /\ Head(s) \in ToSet(s)
  BY <1>1, <1>2, <1>6
<1> QED
  BY <1>1, <1>7, <1>9, <1>10 DEF t

\* Where a member is.
LEMMA PositionFacts ==
    ASSUME NEW X, NEW s \in Seq(X), Distinct(s)
    PROVE  /\ \A q \in ToSet(s) : Position(s, q) \in 1..Len(s) /\ s[Position(s, q)] = q
           /\ \A i \in 1..Len(s) : Position(s, s[i]) = i
           /\ \A p, q \in ToSet(s) : Position(s, p) = Position(s, q) => p = q
<1>1. DOMAIN s = 1..Len(s) /\ \A x : x \in ToSet(s) <=> \E i \in 1..Len(s) : s[i] = x
  BY ToSetFacts
<1>2. \A q \in ToSet(s) : Position(s, q) \in 1..Len(s) /\ s[Position(s, q)] = q
  BY <1>1 DEF Position
<1>3. \A i \in 1..Len(s) : s[i] \in ToSet(s)
  BY <1>1
<1>4. \A i \in 1..Len(s) : Position(s, s[i]) = i
  BY <1>1, <1>2, <1>3 DEF Distinct
<1> QED
  BY <1>2, <1>4

-----------------------------------------------------------------------------
(* The steps of a life *)

Modes == {"none", "extend", "decode"}

\* The parts of a request that its life is about.
LifeTypes(q, r, o, n, w, c) ==
    /\ q \in Request /\ IsReq(r)
    /\ o \in Modes /\ n \in Modes /\ w \in {"can", "run", "out"} /\ c \in {"yes", "no"}

\* Its numbers.
LEMMA LifeNumbers ==
    ASSUME NEW q, NEW r, NEW o, NEW n, NEW w, NEW c, LifeTypes(q, r, o, n, w, c)
    PROVE  /\ r.out \in Nat /\ r.fill \in Nat /\ r.slen \in Nat /\ r.chunks \in Nat
           /\ Len(r.pre) \in Nat /\ Full(q, r) \in Nat /\ Meta[q].out \in Nat
           /\ Full(q, r) = Len(Meta[q].prompt) + r.out /\ Len(Meta[q].prompt) \in Nat
           /\ Len(Meta[q].prompt) > 0
           /\ o \in Modes /\ n \in Modes /\ w \in {"can", "run", "out"} /\ c \in {"yes", "no"}
           /\ r.st \in {"new", "queued", "in", "done", "gone"}
<1>1. /\ Len(Meta[q].prompt) \in Nat /\ Len(Meta[q].prompt) > 0 /\ Meta[q].out \in Nat
  BY TextFacts DEF LifeTypes
<1>2. /\ IsReq(r) /\ o \in Modes /\ n \in Modes /\ w \in {"can", "run", "out"}
      /\ c \in {"yes", "no"}
  BY ONLY LifeTypes(q, r, o, n, w, c) DEF LifeTypes
<1>3. /\ r.out \in Nat /\ r.fill \in Nat /\ r.slen \in Nat /\ r.chunks \in Nat
      /\ r.st \in {"new", "queued", "in", "done", "gone"} /\ r.pre \in Seq(Slot)
  BY ONLY <1>2 DEF IsReq
<1>4. Full(q, r) = Len(Meta[q].prompt) + r.out
  BY ONLY DEF Full
<1>5. Full(q, r) \in Nat
  BY ONLY <1>1, <1>3, <1>4
<1>6. Len(r.pre) \in Nat
  BY ONLY <1>3
<1> QED
  BY ONLY <1>1, <1>2, <1>3, <1>4, <1>5, <1>6

\* r2 differs from r in nothing the life is about.
SameLife(r, r2) ==
    /\ r2.st = r.st /\ r2.out = r.out /\ r2.fill = r.fill /\ r2.pre = r.pre
    /\ r2.last = r.last /\ r2.idx = r.idx /\ r2.slen = r.slen /\ r2.chunks = r.chunks
    /\ r2.retracted = r.retracted

\* _add_request_to_queue
LEMMA LifeArrives ==
    ASSUME NEW q, NEW r, NEW o, NEW n, NEW w, NEW c, NEW lp, LifeTypes(q, r, o, n, w, c),
           LifeOf(q, r, o, n, w, c, lp), r.st = "new", NEW r2,
           r2 = [r EXCEPT !.st = "queued"]
    PROVE  LifeOf(q, r2, o, n, w, c, lp)
<1>1. /\ r2.st = "queued" /\ r2.out = r.out /\ r2.fill = r.fill /\ r2.pre = r.pre
      /\ r2.last = r.last /\ r2.idx = r.idx /\ r2.slen = r.slen /\ r2.chunks = r.chunks
      /\ r2.retracted = r.retracted
  BY DEF LifeTypes, IsReq
<1>2. Meta[q].out \in Nat /\ Meta[q].out > 0
  BY TextFacts DEF LifeTypes
<1> QED
  BY <1>1, <1>2, LifeNumbers DEF LifeOf, Cleared

\* A request that has nothing is given up.
LEMMA LifeGone ==
    ASSUME NEW q, NEW r, NEW o, NEW n, NEW w, NEW c, NEW lp, LifeTypes(q, r, o, n, w, c),
           LifeOf(q, r, o, n, w, c, lp), r.st = "queued", w = "out", lp = "recv", NEW r2,
           r2.st = "gone", Cleared(r2)
    PROVE  LifeOf(q, r2, o, n, w, c, lp)
BY LifeNumbers DEF LifeOf

\* No more requests are admitted.
LEMMA LifeStops ==
    ASSUME NEW q, NEW r, NEW o, NEW n, NEW w, NEW c, LifeTypes(q, r, o, n, w, c),
           LifeOf(q, r, o, n, w, c, "admit")
    PROVE  LifeOf(q, r, o, n, w, c, "launch")
BY LifeNumbers DEF LifeOf

\* get_next_batch_to_run for a request that is not being prefilled in chunks: one
\* of the last prefill batch joins the running ones.
LEMMA LifeMerges ==
    ASSUME NEW q, NEW r, NEW o, NEW n, NEW w, NEW c, LifeTypes(q, r, o, n, w, c),
           LifeOf(q, r, o, n, w, c, "recv"), c = "no", NEW w2,
           w2 = IF o = "extend" /\ r.st # "done" THEN "run" ELSE w
    PROVE  LifeOf(q, r, o, n, w2, c, "admit") /\ (w2 # w => w = "out" /\ r.st = "in")
<1>1. CASE r.st # "in"
  BY <1>1, LifeNumbers DEF LifeOf
<1>2. CASE r.st = "in"
  BY <1>2, LifeNumbers DEF LifeOf, Seated
<1> QED
  BY <1>1, <1>2

\* add_chunked_req
LEMMA LifeChunk ==
    ASSUME NEW q, NEW r, NEW o, NEW n, NEW w, NEW c, LifeTypes(q, r, o, n, w, c),
           LifeOf(q, r, o, n, w, c, "recv"), c = "yes", NEW r2,
           r2.st = r.st, r2.out = r.out, r2.chunks = r.chunks, r2.retracted = r.retracted,
           r2.idx = 0, r2.slen = 0, Len(r2.pre) = r.fill, r.fill < r2.fill,
           r2.fill <= Full(q, r), r2.fill \in Nat
    PROVE  /\ LifeOf(q, r2, o, n, "can", c, "admit")
           /\ r.st = "in" /\ w = "out" /\ r.idx # 0 /\ n = "none" /\ o = "extend"
           /\ Len(r.pre) <= r.fill /\ r.fill = r.slen /\ r.fill < Full(q, r)
           /\ r.out < Meta[q].out
<1>1. r.st = "in" /\ n = "none" /\ w # "can" /\ o = "extend"
  BY LifeNumbers DEF LifeOf, Modes
<1>2. w = "out" /\ Seated(q, r, o, n, c) /\ ~r.retracted /\ r.out < Meta[q].out /\ r.chunks = 1
  BY <1>1, LifeNumbers DEF LifeOf, One
<1>3. Admitted(q, r2)
  BY LifeNumbers DEF Admitted, Full
<1>4. LifeOf(q, r2, o, n, "can", c, "admit")
  BY <1>1, <1>2, <1>3 DEF LifeOf, One
<1> QED
  BY <1>1, <1>2, <1>4 DEF Seated

\* add_one_req
LEMMA LifeAdmitted ==
    ASSUME NEW q, NEW r, NEW o, NEW n, NEW w, NEW c, LifeTypes(q, r, o, n, w, c),
           LifeOf(q, r, o, n, w, c, "admit"), r.st = "queued", w = "out", NEW r2,
           r2.st = r.st, r2.out = r.out, r2.chunks = r.chunks, r2.retracted = r.retracted,
           r2.idx = r.idx, r2.slen = r.slen, Len(r2.pre) < r2.fill, r2.fill <= Full(q, r),
           NEW lp \in {"admit", "launch"}
    PROVE  LifeOf(q, r2, o, n, "can", c, lp) /\ o = "none" /\ n = "none" /\ c = "no"
BY LifeNumbers DEF LifeOf, Cleared, Admitted, Full

\* retract_decode for the request that is retracted ...
LEMMA LifeRetracted ==
    ASSUME NEW q, NEW r, NEW o, NEW n, NEW w, NEW c, NEW lp \in {"launch", "retract"},
           LifeTypes(q, r, o, n, w, c),
           LifeOf(q, r, o, n, w, c, lp), r.st # "done", w = "run", NEW r2,
           r2.st = "queued", r2.out = r.out, r2.retracted, Cleared(r2)
    PROVE  LifeOf(q, r2, o, n, "out", c, "retract") /\ r.st = "in" /\ n = "none" /\ c = "no"
BY LifeNumbers DEF LifeOf

\* ... and for the others; finished ones leave the running batch.
LEMMA LifeStays ==
    ASSUME NEW q, NEW r, NEW o, NEW n, NEW w, NEW c, NEW lp \in {"launch", "retract"},
           LifeTypes(q, r, o, n, w, c),
           LifeOf(q, r, o, n, w, c, lp), w # "can", NEW w2,
           w2 = IF r.st = "done" THEN "out" ELSE w, NEW lp2 \in {"retract", "process"}
    PROVE  LifeOf(q, r, o, n, w2, c, lp2) /\ (r.st = "in" => w = "run") /\ n = "none"
<1>0. n = "none"
  BY LifeNumbers DEF LifeOf
<1>1. CASE r.st # "in"
  BY <1>0, <1>1, LifeNumbers DEF LifeOf
<1>2. CASE r.st = "in"
  <2>1. c = "no" /\ w = "run"
    BY <1>0, <1>2, LifeNumbers DEF LifeOf
  <2> QED
    BY <1>0, <1>2, <2>1, LifeNumbers DEF LifeOf, Seated
<1> QED
  BY <1>0, <1>1, <1>2

\* prepare_for_extend for a request of the batch ...
LEMMA LifeExtends ==
    ASSUME NEW q, NEW r, NEW o, NEW n, NEW w, NEW c, LifeTypes(q, r, o, n, w, c),
           LifeOf(q, r, o, n, w, c, "launch"), w = "can", NEW r2, NEW c2 \in {"yes", "no"},
           c2 = "yes" <=> r.fill < Full(q, r),
           r2.st = "in", r2.retracted = FALSE, r2.out = r.out, r2.fill = r.fill, r2.pre = r.pre,
           r2.idx # 0, r2.slen = r.fill, r2.chunks = r.chunks + One(c2 = "yes")
    PROVE  /\ LifeOf(q, r2, o, "extend", "out", c2, "process") /\ n = "none"
           /\ Len(r.pre) < r.fill /\ r.fill <= Full(q, r) /\ r.idx = 0 /\ r.slen = 0
           /\ r.out < Meta[q].out
<1>1. n = "none" /\ r.st \in {"queued", "in"} /\ Admitted(q, r) /\ r.out < Meta[q].out
  BY LifeNumbers DEF LifeOf
<1>2. r.st = "queued" => r.chunks = 0 /\ o = "none"
  BY LifeNumbers DEF LifeOf
<1>3. r.st = "in" => r.chunks = 1 /\ o = "extend"
  BY <1>1, LifeNumbers DEF LifeOf, One
<1>4. Len(r.pre) < r.fill /\ r.fill <= Full(q, r) /\ r.idx = 0 /\ r.slen = 0 /\ o # "decode"
  BY <1>1, <1>2, <1>3 DEF Admitted
<1>5. Seated(q, r2, o, "extend", c2)
  <2>1. Full(q, r2) = Full(q, r)
    BY DEF Full
  <2> QED
    BY <1>4, <2>1, LifeNumbers DEF Seated, One
<1>6. r2.chunks = One(c2 = "yes") + One(o # "none")
  BY <1>1, <1>2, <1>3 DEF One
<1>7. LifeOf(q, r2, o, "extend", "out", c2, "process")
  BY <1>1, <1>4, <1>5, <1>6 DEF LifeOf, One
<1> QED
  BY <1>1, <1>4, <1>7

\* ... and for another one.
LEMMA LifeWaits ==
    ASSUME NEW q, NEW r, NEW o, NEW n, NEW w, NEW c, LifeTypes(q, r, o, n, w, c),
           LifeOf(q, r, o, n, w, c, "launch"), w # "can"
    PROVE  LifeOf(q, r, o, n, w, "no", "process") /\ c = "no" /\ n = "none"
<1>1. n = "none" /\ c = "no"
  BY LifeNumbers DEF LifeOf
<1> QED
  BY <1>1, LifeNumbers DEF LifeOf

\* prepare_for_decode for a request of the batch.
LEMMA LifeDecodes ==
    ASSUME NEW q, NEW r, NEW o, NEW n, NEW w, NEW c, NEW lp \in {"launch", "retract"},
           LifeTypes(q, r, o, n, w, c),
           LifeOf(q, r, o, n, w, c, lp), r.st # "done", w = "run", NEW r2,
           r2.st = r.st, r2.out = r.out, r2.fill = r.fill, r2.pre = r.pre, r2.idx = r.idx,
           r2.slen = r.slen + 1, r2.chunks = r.chunks, r2.retracted = r.retracted
    PROVE  LifeOf(q, r2, o, "decode", w, c, "process") /\ r.st = "in" /\ r.idx # 0
<1>1. r.st = "in" /\ n = "none" /\ c = "no" /\ Seated(q, r, o, n, c)
  BY LifeNumbers DEF LifeOf
<1>2. Seated(q, r2, o, "decode", c)
  <2>1. Full(q, r2) = Full(q, r)
    BY DEF Full
  <2> QED
    BY <1>1, <2>1, LifeNumbers DEF Seated, One
<1>3. r2.chunks = One(c = "yes") + One(o # "none" /\ "decode" = "extend")
  BY <1>1, LifeNumbers DEF LifeOf, One
<1>4. LifeOf(q, r2, o, "decode", w, c, "process")
  BY <1>1, <1>2, <1>3 DEF LifeOf
<1> QED
  BY <1>1, <1>4 DEF Seated

\* resolve_last_batch_result
LEMMA LifeResolves ==
    ASSUME NEW q, NEW r, NEW o, NEW n, NEW w, NEW c, LifeTypes(q, r, o, n, w, c),
           LifeOf(q, r, o, n, w, c, "process")
    PROVE  LifeOf(q, r, o, n, w, c, "apply")
BY LifeNumbers DEF LifeOf

\* The end of the iteration: all results are applied.
LEMMA LifeEnds ==
    ASSUME NEW q, NEW r, NEW o, NEW n, NEW w, NEW c, NEW lp \in {"process", "apply"},
           LifeTypes(q, r, o, n, w, c),
           LifeOf(q, r, o, n, w, c, lp), o = "none"
    PROVE  LifeOf(q, r, n, "none", w, c, "recv")
<1>1. CASE r.st # "in"
  BY <1>1, LifeNumbers DEF LifeOf, Modes
<1>2. CASE r.st = "in"
  <2>1. w # "can" /\ Seated(q, r, o, n, c)
    BY <1>2, LifeNumbers DEF LifeOf
  <2>2. Seated(q, r, n, "none", c)
    BY <2>1, LifeNumbers DEF Seated, One, Modes
  <2>3. r.chunks = One(c = "yes") + One(n # "none" /\ "none" = "extend")
    BY <1>2, LifeNumbers DEF LifeOf, One
  <2> QED
    BY <1>2, <2>1, <2>2, <2>3, LifeNumbers DEF LifeOf
<1> QED
  BY <1>1, <1>2

\* A result of a retracted request.
LEMMA LifeSkips ==
    ASSUME NEW q, NEW r, NEW o, NEW n, NEW w, NEW c, LifeTypes(q, r, o, n, w, c),
           LifeOf(q, r, o, n, w, c, "apply"), o # "none", r.retracted
    PROVE  LifeOf(q, r, "none", n, w, c, "apply") /\ r.st = "queued"
BY LifeNumbers DEF LifeOf

\* Who has a result.
LEMMA LifeHasResult ==
    ASSUME NEW q, NEW r, NEW o, NEW n, NEW w, NEW c, LifeTypes(q, r, o, n, w, c),
           LifeOf(q, r, o, n, w, c, "apply"), o # "none", ~r.retracted
    PROVE  r.st = "in" \/ (r.st = "done" /\ o = "decode")
BY LifeNumbers DEF LifeOf, Modes

\* The result of a chunk of a prompt.
LEMMA LifeChunkDone ==
    ASSUME NEW q, NEW r, NEW o, NEW n, NEW w, NEW c, LifeTypes(q, r, o, n, w, c),
           LifeOf(q, r, o, n, w, c, "apply"), o = "extend", ~r.retracted, r.chunks > 0,
           NEW r2, r2.st = r.st, r2.out = r.out, r2.fill = r.fill, r2.pre = r.pre,
           r2.idx = r.idx, r2.slen = r.slen, r2.chunks = r.chunks - 1, r2.retracted = r.retracted
    PROVE  LifeOf(q, r2, "none", n, w, c, "apply") /\ r.st = "in"
<1>1. r.st = "in" /\ w # "can" /\ Seated(q, r, o, n, c)
  BY LifeNumbers DEF LifeOf
<1>2. n = "extend"
  BY <1>1, LifeNumbers DEF LifeOf, One
<1>3. Full(q, r2) = Full(q, r)
  BY DEF Full
<1>4. Seated(q, r2, "none", n, c)
  BY <1>1, <1>2, <1>3, LifeNumbers DEF Seated, One
<1>5. r2.chunks = One(c = "yes") + One("none" # "none" /\ n = "extend")
  BY <1>1, <1>2, LifeNumbers DEF LifeOf, One
<1> QED
  BY <1>1, <1>2, <1>4, <1>5, LifeNumbers DEF LifeOf

\* What is known of a request whose token is appended.
Appended(q, r, o, n, w, c) ==
    /\ r.st = "in" /\ w # "can" /\ c = "no" /\ n # "extend" /\ r.idx # 0
    /\ Len(r.pre) <= r.fill /\ r.fill <= Full(q, r) /\ r.fill <= r.slen
    /\ r.slen = Full(q, r) + One(n = "decode")
    /\ o = "extend" => r.fill = Full(q, r)
    /\ r.out < Meta[q].out

\* The sequence of such a request.
LEMMA LifeAppended ==
    ASSUME NEW q, NEW r, NEW o, NEW n, NEW w, NEW c, LifeTypes(q, r, o, n, w, c),
           LifeOf(q, r, o, n, w, c, "apply"), o # "none", ~r.retracted, r.st # "done",
           o = "extend" => r.chunks = 0
    PROVE  Appended(q, r, o, n, w, c)
<1>1. r.st = "in" /\ w # "can" /\ Seated(q, r, o, n, c) /\ r.out < Meta[q].out
  BY LifeNumbers DEF LifeOf
<1>2. c = "no" /\ n # "extend"
  BY <1>1, LifeNumbers DEF LifeOf, One, Modes
<1> QED
  BY <1>1, <1>2, LifeNumbers DEF Seated, Appended, One

\* It finishes.
LEMMA LifeFinishes ==
    ASSUME NEW q, NEW r, NEW o, NEW n, NEW w, NEW c, LifeTypes(q, r, o, n, w, c),
           LifeOf(q, r, o, n, w, c, "apply"), o # "none", Appended(q, r, o, n, w, c), NEW r2,
           r2.st = "done", ~r2.retracted, Cleared(r2)
    PROVE  LifeOf(q, r2, "none", n, w, c, "apply")
BY LifeNumbers DEF LifeOf, Appended

\* It goes on.
LEMMA LifeGoesOn ==
    ASSUME NEW q, NEW r, NEW o, NEW n, NEW w, NEW c, LifeTypes(q, r, o, n, w, c),
           LifeOf(q, r, o, n, w, c, "apply"), o # "none", Appended(q, r, o, n, w, c), NEW r2,
           r2.st = "in", r2.out = r.out + 1, r2.fill = r.fill, r2.idx = r.idx,
           r2.slen = r.slen, r2.chunks = r.chunks, r2.retracted = r.retracted,
           Len(r2.pre) \in Nat, Len(r2.pre) <= r.fill, r2.out < Meta[q].out
    PROVE  LifeOf(q, r2, "none", n, w, c, "apply")
<1>1. Full(q, r2) = Full(q, r) + 1
  <2>1. Len(Meta[q].prompt) \in Nat /\ r.out \in Nat
    BY LifeNumbers
  <2> QED
    BY <2>1 DEF Full
<1>2. Seated(q, r2, "none", n, c)
  BY <1>1, LifeNumbers DEF Seated, Appended, One
<1>3. r2.chunks = One(c = "yes") + One("none" # "none" /\ n = "extend") /\ ~r2.retracted
  BY LifeNumbers DEF LifeOf, One, Appended
<1> QED
  BY <1>2, <1>3, LifeNumbers DEF LifeOf, Appended

\* The token a finished request has too many.
LEMMA LifeDelayed ==
    ASSUME NEW q, NEW r, NEW o, NEW n, NEW w, NEW c, LifeTypes(q, r, o, n, w, c),
           LifeOf(q, r, o, n, w, c, "apply"), o # "none", r.st = "done"
    PROVE  LifeOf(q, r, "none", n, w, c, "apply") /\ o = "decode" /\ n = "none"
BY LifeNumbers DEF LifeOf, Modes

-----------------------------------------------------------------------------
(* Pinned trees *)

\* Only the nodes of those who pin matter.
LEMMA TendedSame ==
    ASSUME NEW T, NEW H, NEW L, Tended(T, H, L), NEW K, \A p \in H : K[p] = L[p]
    PROVE  Tended(T, H, K)
<1>1. TreeOK(T) /\ Pins(T, H, L) /\ LockedBy(T, H, L) /\ IsFiniteSet(H) /\ H \subseteq Request
  BY DEF Tended
<1>2. Pins(T, H, K)
  BY <1>1 DEF Pins
<1>3. LockedBy(T, H, K)
  <2> SUFFICES ASSUME NEW x \in DOMAIN T.nd
               PROVE  T.nd[x].lock = Cardinality({p \in H : Above(x, K[p])})
    BY DEF LockedBy
  <2>1. {p \in H : Above(x, K[p])} = {p \in H : Above(x, L[p])}
    OBVIOUS
  <2>2. T.nd[x].lock = Cardinality({p \in H : Above(x, L[p])})
    BY <1>1 DEF LockedBy
  <2> QED
    BY <2>1, <2>2, Zenon
<1> QED
  BY <1>1, <1>2, <1>3 DEF Tended

\* A request that holds nothing pins a node, or the root.
LEMMA Pinned ==
    ASSUME NEW S, NEW H, NEW L, Tended(S, H, L), NEW q \in Request, q \notin H, NEW x,
           x[2] = <<>> \/ x \in DOMAIN S.nd, NEW K, \A p \in H : K[p] = L[p], K[q] = x
    PROVE  Tended(IncLockRef(S, x), H \cup {q}, K) /\ IncLockRef(S, x).pos = S.pos
<1> DEFINE R == IncLockRef(S, x)
<1>1. TreeOK(S) /\ IsFiniteSet(H) /\ Pins(S, H, L) /\ LockedBy(S, H, L)
  BY DEF Tended
<1>2. Pins(R, H \cup {q}, K) /\ LockedBy(R, H \cup {q}, K)
  BY <1>1, IncLocks
<1>3. R.pos = S.pos /\ DOMAIN R.nd = DOMAIN S.nd /\ TreeShape(R) /\ NodesOK(R)
  BY <1>1, IncLockFacts DEF TreeOK
<1>4. PlacesOK(R)
  BY <1>1, <1>3, SamePlaces DEF TreeOK
<1>5. TreeOK(R)
  BY <1>3, <1>4 DEF TreeOK
<1>6. IsFiniteSet(H \cup {q}) /\ H \cup {q} \subseteq Request
  BY <1>1, FS_AddElement DEF Tended
<1> HIDE DEF R
<1>7. Tended(R, H \cup {q}, K)
  BY <1>2, <1>5, <1>6 DEF Tended
<1> QED
  BY <1>3, <1>7 DEF R

\* A tree that grows keeps its pins ...
LEMMA GrownTended ==
    ASSUME NEW T, NEW H, NEW L, Tended(T, H, L), NEW R, Grown(T, R)
    PROVE  Tended(R, H, L)
<1>1. TreeOK(T) /\ Pins(T, H, L) /\ LockedBy(T, H, L) /\ TreeOK(R)
  BY DEF Tended, Grown
<1>2. Pins(R, H, L) /\ LockedBy(R, H, L)
  BY <1>1, GrownLocks
<1> QED
  BY <1>1, <1>2 DEF Tended

\* ... and the prefixes it holds.
LEMMA PrefixKept ==
    ASSUME NEW q, NEW r, NEW P, PrefixIn(q, r, P), NEW Q,
           \A x \in DOMAIN P : x \in DOMAIN Q /\ Q[x] = P[x]
    PROVE  PrefixIn(q, r, Q)
BY DEF PrefixIn

\* evict takes nothing a request pins.
LEMMA EvictTended ==
    ASSUME NEW T, NEW H, NEW L, Tended(T, H, L), NEW D, EvictSet(T, D)
    PROVE  /\ Tended(Delete(T, D), H, L)
           /\ \A q \in H : \A r : L[q] = r.last /\ Len(r.pre) \in Nat /\ PrefixIn(q, r, T.pos)
                                    => PrefixIn(q, r, Delete(T, D).pos)
<1> DEFINE R == Delete(T, D)
<1>1. TreeOK(T) /\ IsFiniteSet(H) /\ Pins(T, H, L) /\ LockedBy(T, H, L) /\ H \subseteq Request
  BY DEF Tended
<1>2. /\ TreeOK(R) /\ DOMAIN R.pos = DOMAIN T.pos \ Gone(T, D)
      /\ \A z \in DOMAIN R.pos : R.pos[z] = T.pos[z]
  BY <1>1, DeleteFacts
<1>3. Pins(R, H, L) /\ LockedBy(R, H, L) /\ \A q \in H : L[q] \notin D
  BY <1>1, DeleteLocks
<1> HIDE DEF R
<1>4. Tended(R, H, L)
  BY <1>1, <1>2, <1>3 DEF Tended
<1>5. ASSUME NEW q \in H, NEW r, L[q] = r.last, Len(r.pre) \in Nat, PrefixIn(q, r, T.pos)
      PROVE  PrefixIn(q, r, R.pos)
  <2>1. /\ q \in Request /\ r.last = Place(q, Len(r.pre)) /\ Len(r.pre) <= Len(Text(q))
        /\ \A i \in 1..Len(r.pre) : Place(q, i) \in DOMAIN T.pos /\ T.pos[Place(q, i)] = r.pre[i]
    BY <1>1, <1>5 DEF PrefixIn
  <2>2. Len(Text(q)) \in Nat
    BY <2>1, TextFacts
  <2>3. ASSUME NEW i \in 1..Len(r.pre) PROVE Place(q, i) \notin Gone(T, D)
    <3> DEFINE y == Place(q, Len(r.pre))
               z == Place(q, i)
    <3>1. Len(r.pre) \in 0..Len(Text(q)) /\ Len(r.pre) # 0 /\ i \in 0..Len(r.pre)
      BY <1>5, <2>1, <2>2
    <3>2. y[2] # <<>> /\ Above(z, y)
      BY <2>1, <3>1, PlaceFacts, PlaceAbove
    <3>3. y = L[q]
      BY <1>5, <2>1
    <3>4. y \in DOMAIN T.nd /\ y \notin D
      BY <1>1, <1>3, <3>2, <3>3 DEF Pins
    <3>5. z \in DOMAIN T.pos
      BY <2>1, <2>3
    <3> HIDE DEF y, z
    <3>6. z \notin Gone(T, D)
      BY <1>1, <3>2, <3>4, <3>5, StaysFacts DEF TreeOK
    <3> QED
      BY <3>6 DEF z
  <2>4. \A i \in 1..Len(r.pre) : Place(q, i) \in DOMAIN R.pos /\ R.pos[Place(q, i)] = r.pre[i]
    BY <1>2, <2>1, <2>3
  <2> QED
    BY <2>1, <2>4 DEF PrefixIn
<1> QED
  BY <1>4, <1>5 DEF R

\* A cached prefix is not longer than what the tree has of the text.
LEMMA PrefixReaches ==
    ASSUME NEW T, TreeOK(T), NEW q \in Request, NEW r, Len(r.pre) \in Nat,
           PrefixIn(q, r, T.pos), NEW n \in 0..Len(Text(q)), Len(r.pre) <= n
    PROVE  LET m == InsertedPrefix(T, Root, Take(Text(q), n))
           IN  m \in 0..n /\ Len(r.pre) <= m
<1> DEFINE key == Take(Text(q), n)
           m == InsertedPrefix(T, Root, key)
           a == Len(r.pre)
<1>1. /\ key \in Seq(Nat) /\ Len(key) = n /\ n \in Nat
      /\ \A i \in 0..n : <<Root, Take(key, i)>> = Place(q, i)
  BY KeyPlaces, TextFacts
<1>2. PlacesOK(T)
  BY DEF TreeOK
<1> HIDE DEF key
<1>3. m \in 0..n /\ \A i \in 1..n : (<<Root, Take(key, i)>> \in DOMAIN T.pos) <=> i <= m
  BY <1>1, <1>2, InsertedPrefixFacts
<1> HIDE DEF m
<1>4. \A i \in 1..a : Place(q, i) \in DOMAIN T.pos
  BY DEF PrefixIn
<1>5. a \in Nat /\ a <= n
  OBVIOUS
<1> HIDE DEF a
<1>6. m \in Nat /\ n \in Nat /\ m <= n
  BY <1>1, <1>3
<1>7. ASSUME a # 0 PROVE a <= m
  <2>1. a \in 1..n /\ a \in 1..a /\ a \in 0..n
    BY <1>5, <1>6, <1>7
  <2>2. <<Root, Take(key, a)>> \in DOMAIN T.pos
    BY <1>1, <1>4, <2>1
  <2> QED
    BY <1>3, <2>1, <2>2
<1>8. a <= m
  BY <1>5, <1>6, <1>7
<1>9. m \in 0..n /\ a <= m
  BY <1>6, <1>8
<1> QED
  BY <1>9 DEF m, key, a

-----------------------------------------------------------------------------
(* cache_unfinished_req and cache_finished_req *)

\* The tree T, the tails t and the free list fr, before the first n tokens of q are
\* cached from its row w; r is q's record, and v are the tails afterwards.
Caching(T, H, L, q, r, n, w, t, fr, v) ==
    /\ Tended(T, H, L) /\ q \in H /\ L[q] = r.last
    /\ Len(r.pre) \in Nat /\ PrefixIn(q, r, T.pos) /\ Len(r.pre) <= n
    /\ n \in 0..Len(Text(q)) /\ w \in Seq(Slot) /\ n <= Len(w)
    /\ Part(T.pos, t, fr) /\ Loses(t, q, w, Len(r.pre), n, v)

\* Q has the places of P, and those of the first n tokens of q.
Gains(P, Q, q, n) ==
    /\ \A x \in DOMAIN P : x \in DOMAIN Q /\ Q[x] = P[x]
    /\ \A i \in 1..n : Place(q, i) \in DOMAIN Q

\* What is freed of the row w.
Dups(T, q, r, n, w) == SubSeq(w, Len(r.pre) + 1, InsertedPrefix(T, Root, Take(Text(q), n)))

\* insert: the uncached slots of the row become places, or are freed.
LEMMA InsertedTree ==
    ASSUME NEW T, NEW H, NEW L, NEW q, NEW r, NEW n, NEW w, NEW t, NEW fr, NEW v,
           Caching(T, H, L, q, r, n, w, t, fr, v)
    PROVE  LET U == InsertHelper(T, Root, Take(Text(q), n), w, Chunk, "private")
           IN  /\ Tended(U, H, L) /\ Gains(T.pos, U.pos, q, n)
               /\ Part(U.pos, v, Freed(fr, Dups(T, q, r, n, w)))
<1> DEFINE key == Take(Text(q), n)
           U == InsertHelper(T, Root, key, w, Chunk, "private")
           m == InsertedPrefix(T, Root, key)
           a == Len(r.pre)
<1>1. /\ TreeOK(T) /\ q \in Request /\ PlacesOK(T) /\ q \in H
      /\ n \in 0..Len(Text(q)) /\ Len(Text(q)) \in Nat
      /\ Tended(T, H, L) /\ a \in Nat
      /\ PrefixIn(q, r, T.pos) /\ a <= n /\ w \in Seq(Slot) /\ n <= Len(w)
      /\ Part(T.pos, t, fr) /\ Loses(t, q, w, a, n, v)
  BY TextFacts DEF Caching, Tended, TreeOK
<1>2. /\ key \in Seq(Nat) /\ Len(key) = n /\ n \in Nat
      /\ \A i \in 0..n : <<Root, Take(key, i)>> = Place(q, i)
  BY <1>1, KeyPlaces
<1>3. a <= m
  BY <1>1, PrefixReaches
<1> HIDE DEF key
<1>4. InsertOf(T, Root, key, w, U)
  BY <1>1, <1>2, InsertFacts, OverlapAssumption
<1> HIDE DEF U
<1>5. Grown(T, U) /\ DOMAIN U.pos = DOMAIN T.pos \cup {<<Root, Take(key, i)>> : i \in 1..Len(key)}
  BY <1>4 DEF InsertOf
<1>6. Tended(U, H, L)
  BY <1>1, <1>5, GrownTended
<1>7. Gains(T.pos, U.pos, q, n)
  <2>1. \A i \in 1..n : Place(q, i) \in DOMAIN U.pos
    BY <1>2, <1>5
  <2>2. \A x \in DOMAIN T.pos : x \in DOMAIN U.pos /\ U.pos[x] = T.pos[x]
    BY <1>5 DEF Grown
  <2> QED
    BY <2>1, <2>2 DEF Gains
<1>8. Part(U.pos, v, Freed(fr, SubSeq(w, a + 1, m)))
  <2>1. Loses(t, q, w, a, Len(key), v)
    BY <1>1, <1>2
  <2> HIDE DEF a, m
  <2>2. Len(key) <= Len(w) /\ a <= InsertedPrefix(T, Root, key)
    BY <1>1, <1>2, <1>3 DEF m
  <2> QED
    BY <1>1, <1>2, <1>4, <2>1, <2>2, InsertPart DEF m
<1> QED
  BY <1>6, <1>7, <1>8 DEF U, key, Dups

\* cache_finished_req
LEMMA FinishedTree ==
    ASSUME NEW T, NEW H, NEW L, NEW q, NEW r, NEW n, NEW w, NEW t, NEW fr, NEW v,
           Caching(T, H, L, q, r, n, w, t, fr, v), NEW K, \A p \in H : p # q => K[p] = L[p]
    PROVE  LET R == DecLockRef(InsertHelper(T, Root, Take(Text(q), n), w, Chunk, "private"), r.last)
           IN  /\ Tended(R, H \ {q}, K) /\ Gains(T.pos, R.pos, q, n)
               /\ Part(R.pos, v, Freed(fr, Dups(T, q, r, n, w)))
<1> DEFINE U == InsertHelper(T, Root, Take(Text(q), n), w, Chunk, "private")
<1>1. /\ Tended(U, H, L) /\ Gains(T.pos, U.pos, q, n)
      /\ Part(U.pos, v, Freed(fr, Dups(T, q, r, n, w)))
  BY InsertedTree
<1>2. q \in H /\ L[q] = r.last
  BY DEF Caching
<1> HIDE DEF U
<1>3. Tended(DecLockRef(U, L[q]), H \ {q}, K) /\ DecLockRef(U, L[q]).pos = U.pos
  <2>1. Tended(U, H, L) /\ q \in H /\ \A p \in H : p # q => K[p] = L[p]
    BY <1>1, <1>2
  <2> QED
    BY ONLY <2>1, Unpinned
<1> DEFINE R == DecLockRef(U, L[q])
<1>4. R = DecLockRef(U, r.last)
  BY <1>2
<1>5. Tended(R, H \ {q}, K) /\ R.pos = U.pos
  BY <1>3
<1> HIDE DEF R
<1>6. Gains(T.pos, R.pos, q, n) /\ Part(R.pos, v, Freed(fr, Dups(T, q, r, n, w)))
  BY <1>1, <1>5
<1> QED
  BY <1>4, <1>5, <1>6 DEF U

\* cache_unfinished_req: the request then holds all it has inserted.
LEMMA RecachedTree ==
    ASSUME NEW T, NEW H, NEW L, NEW q, NEW r, NEW n, NEW w, NEW t, NEW fr, NEW v,
           Caching(T, H, L, q, r, n, w, t, fr, v), NEW K, \A p \in H : p # q => K[p] = L[p],
           NEW U, U = InsertHelper(T, Root, Take(Text(q), n), w, Chunk, "private"),
           NEW m, m = MatchPrefix(U, Take(Text(q), n)), K[q] = m.last
    PROVE  LET R == IncLockRef(DecLockRef(m.tree, r.last), m.last)
           IN  /\ Tended(R, H, K) /\ Gains(T.pos, R.pos, q, n)
               /\ Part(R.pos, v, Freed(fr, Dups(T, q, r, n, w)))
               /\ m.pre \in Seq(Slot) /\ Len(m.pre) = n /\ m.last = Place(q, n)
               /\ \A i \in 1..n : R.pos[Place(q, i)] = m.pre[i]
<1> DEFINE D == DecLockRef(m.tree, r.last)
           R == IncLockRef(D, m.last)
           J == [p \in H |-> K[p]]
<1>1. /\ Tended(U, H, L) /\ Gains(T.pos, U.pos, q, n)
      /\ Part(U.pos, v, Freed(fr, Dups(T, q, r, n, w)))
  BY InsertedTree
<1>2. q \in H /\ L[q] = r.last /\ q \in Request /\ n \in 0..Len(Text(q)) /\ n \in Nat
      /\ Len(Text(q)) \in Nat
  BY TextFacts DEF Caching, Tended
<1>3. \A x \in DOMAIN U.pos : U.pos[x] \in Slot
  BY <1>1 DEF Part, Apart
<1>4. TreeOK(U) /\ PlacesOK(U)
  BY <1>1 DEF Tended, TreeOK
<1>5. Matched(U, q, n, m)
  BY <1>2, <1>3, <1>4, MatchFacts
<1>6. Len(m.pre) = n
  <2> DEFINE key == Take(Text(q), n)
             k == InsertedPrefix(U, Root, key)
  <2>1. key \in Seq(Nat) /\ Len(key) = n /\ \A i \in 0..n : <<Root, Take(key, i)>> = Place(q, i)
    BY <1>2, KeyPlaces
  <2>2. Len(m.pre) = k
    BY <1>5 DEF Matched
  <2> HIDE DEF key
  <2>3. k \in 0..n /\ \A i \in 1..n : (<<Root, Take(key, i)>> \in DOMAIN U.pos) <=> i <= k
    BY <1>4, <2>1, InsertedPrefixFacts
  <2> HIDE DEF k
  <2>4. \A i \in 1..n : i <= k
    <3> TAKE i \in 1..n
    <3>1. Place(q, i) \in DOMAIN U.pos
      BY <1>1 DEF Gains
    <3>2. i \in 0..n
      BY <1>2
    <3> QED
      BY <2>1, <2>3, <3>1, <3>2
  <2>5. k = n
    BY <1>2, <2>3, <2>4
  <2> QED
    BY <2>2, <2>5
<1>7. Grown(U, m.tree) /\ m.tree.pos = U.pos /\ m.pre \in Seq(Slot) /\ m.last = Place(q, n)
      /\ (m.last[2] = <<>> \/ m.last \in DOMAIN m.tree.nd)
      /\ \A i \in 1..n : U.pos[Place(q, i)] = m.pre[i]
  BY <1>5, <1>6 DEF Matched
<1>8. Tended(m.tree, H, L)
  BY <1>1, <1>7, GrownTended
<1>9. Tended(D, H \ {q}, K) /\ D.pos = m.tree.pos /\ DOMAIN D.nd = DOMAIN m.tree.nd
  BY <1>2, <1>8, Unpinned
<1> HIDE DEF D
<1>10. Tended(R, (H \ {q}) \cup {q}, K) /\ R.pos = D.pos
  <2>2. m.last[2] = <<>> \/ m.last \in DOMAIN D.nd
    BY <1>7, <1>9
  <2> DEFINE G == H \ {q}
             x == m.last
  <2>4. Tended(D, G, K) /\ q \notin G /\ K[q] = x /\ (x[2] = <<>> \/ x \in DOMAIN D.nd)
    BY <1>9, <2>2
  <2> HIDE DEF G, x
  <2>5. Tended(IncLockRef(D, x), G \cup {q}, K) /\ IncLockRef(D, x).pos = D.pos
    BY <1>2, <2>4, Pinned
  <2> QED
    BY <2>5 DEF G, x
<1>11. (H \ {q}) \cup {q} = H
  BY <1>2
<1> HIDE DEF R
<1>12. R.pos = U.pos /\ Tended(R, H, K)
  BY <1>7, <1>9, <1>10, <1>11
<1>13. /\ Tended(R, H, K) /\ Gains(T.pos, R.pos, q, n)
       /\ Part(R.pos, v, Freed(fr, Dups(T, q, r, n, w)))
       /\ \A i \in 1..n : R.pos[Place(q, i)] = m.pre[i]
  BY <1>1, <1>7, <1>12
<1> QED
  BY <1>6, <1>7, <1>13 DEF R, D

-----------------------------------------------------------------------------
(* The slots outside the tree *)

\* What the tails are.
LEMMA TailsFacts ==
    ASSUME NEW R, NEW rw, NEW l
    PROVE  LET t == TailsOf(R, rw, l)
           IN  /\ \A h : h \in DOMAIN t <=> IsTail(R, l, h)
               /\ \A h \in DOMAIN t : t[h] = IF h[2] = 0 THEN l[h[1]] ELSE rw[R[h[1]].idx][h[2]]
<1> DEFINE X == {g \in (Request \cup DOMAIN l) \X Nat : IsTail(R, l, g)}
<1>1. \A h : h \in X <=> IsTail(R, l, h)
  <2> TAKE h
  <2>1. IsTail(R, l, h) => h \in (Request \cup DOMAIN l) \X Nat
    BY DEF IsTail, InTail
  <2> QED
    BY <2>1
<1>2. TailsOf(R, rw, l) = [h \in X |-> IF h[2] = 0 THEN l[h[1]] ELSE rw[R[h[1]].idx][h[2]]]
  BY DEF TailsOf
<1> QED
  BY <1>1, <1>2

\* The records of the requests have numbers and a prefix.
Records(R) == \A q \in Request : R[q].slen \in Nat /\ Len(R[q].pre) \in Nat

\* The tail at index i of request q, and the late slot of q.
LEMMA TailAt ==
    ASSUME NEW R, Records(R), NEW rw, NEW l, DOMAIN l \subseteq Request
    PROVE  LET t == TailsOf(R, rw, l)
           IN  /\ \A h : h \in DOMAIN t => /\ h = <<h[1], h[2]>> /\ h[1] \in Request /\ h[2] \in Nat
                                           /\ h[2] # 0 => InTail(R[h[1]], h[2])
                                           /\ h[2] = 0 => h[1] \in DOMAIN l
               /\ \A q \in Request : \A i : InTail(R[q], i) =>
                     /\ <<q, i>> \in DOMAIN t /\ t[<<q, i>>] = rw[R[q].idx][i] /\ i \in Nat /\ i # 0
               /\ \A q \in DOMAIN l : <<q, 0>> \in DOMAIN t /\ t[<<q, 0>>] = l[q]
<1> DEFINE t == TailsOf(R, rw, l)
<1>1. /\ \A h : h \in DOMAIN t <=> IsTail(R, l, h)
      /\ \A h \in DOMAIN t : t[h] = IF h[2] = 0 THEN l[h[1]] ELSE rw[R[h[1]].idx][h[2]]
  BY TailsFacts
<1>2. \A q \in Request : \A i : InTail(R[q], i) => i \in Nat /\ i # 0
  BY DEF Records, InTail
<1> HIDE DEF t
<1>3. ASSUME NEW h, h \in DOMAIN t
      PROVE  /\ h = <<h[1], h[2]>> /\ h[1] \in Request /\ h[2] \in Nat
             /\ h[2] # 0 => InTail(R[h[1]], h[2])
             /\ h[2] = 0 => h[1] \in DOMAIN l
  BY <1>1, <1>2, <1>3 DEF IsTail
<1>4. ASSUME NEW q \in Request, NEW i, InTail(R[q], i)
      PROVE  <<q, i>> \in DOMAIN t /\ t[<<q, i>>] = rw[R[q].idx][i] /\ i \in Nat /\ i # 0
  <2> DEFINE h == <<q, i>>
  <2>1. h = <<h[1], h[2]>> /\ h[1] = q /\ h[2] = i
    OBVIOUS
  <2>2. i \in Nat /\ i # 0
    BY <1>2, <1>4
  <2> HIDE DEF h
  <2>3. h \in DOMAIN t
    BY <1>1, <1>4, <2>1 DEF IsTail
  <2>4. t[h] = rw[R[q].idx][i]
    BY <1>1, <2>1, <2>2, <2>3
  <2> QED
    BY <2>2, <2>3, <2>4 DEF h
<1>5. ASSUME NEW q \in DOMAIN l
      PROVE  <<q, 0>> \in DOMAIN t /\ t[<<q, 0>>] = l[q]
  <2> DEFINE h == <<q, 0>>
  <2>1. h = <<h[1], h[2]>> /\ h[1] = q /\ h[2] = 0
    OBVIOUS
  <2> HIDE DEF h
  <2>3. h \in DOMAIN t
    BY <1>1, <2>1 DEF IsTail
  <2>4. t[h] = l[q]
    BY <1>1, <2>1, <2>3
  <2> QED
    BY <2>3, <2>4 DEF h
<1> QED
  BY <1>3, <1>4, <1>5 DEF t

\* Only what the tails are matters.
LEMMA PartSame ==
    ASSUME NEW P, NEW t, NEW fr, Part(P, t, fr), NEW v, \A h : h \in DOMAIN v <=> h \in DOMAIN t,
           \A h \in DOMAIN v : v[h] = t[h]
    PROVE  Part(P, v, fr)
<1>1. Apart(P, v)
  BY DEF Part, Apart
<1>2. \A s : Owned(P, v, s) <=> Owned(P, t, s)
  BY DEF Owned
<1> QED
  BY <1>1, <1>2 DEF Part

\* Request q has the same tail in R and S, with rows rw and rx; only the part after
\* the first n tokens; more of it.
SameTail(R, rw, S, rx, q) ==
    \A i : /\ InTail(S[q], i) <=> InTail(R[q], i)
           /\ InTail(R[q], i) => rx[S[q].idx][i] = rw[R[q].idx][i]
RestOfTail(R, rw, S, rx, q, n) ==
    \A i : /\ InTail(S[q], i) <=> InTail(R[q], i) /\ n < i
           /\ InTail(S[q], i) => rx[S[q].idx][i] = rw[R[q].idx][i]

SameLate(l, k) == DOMAIN l = DOMAIN k /\ \A q \in DOMAIN l : l[q] = k[q]

\* All tails are the same.
LEMMA TailsSame ==
    ASSUME NEW R, Records(R), NEW rw, NEW l, DOMAIN l \subseteq Request,
           NEW S, Records(S), NEW rx, NEW k, SameLate(l, k),
           \A q \in Request : SameTail(R, rw, S, rx, q),
           NEW P, NEW fr, Part(P, TailsOf(R, rw, l), fr)
    PROVE  Part(P, TailsOf(S, rx, k), fr)
<1> DEFINE t == TailsOf(R, rw, l)
           v == TailsOf(S, rx, k)
<1>1. /\ \A h : h \in DOMAIN t <=> IsTail(R, l, h)
      /\ \A h \in DOMAIN t : t[h] = IF h[2] = 0 THEN l[h[1]] ELSE rw[R[h[1]].idx][h[2]]
  BY TailsFacts
<1>2. /\ \A h : h \in DOMAIN v <=> IsTail(S, k, h)
      /\ \A h \in DOMAIN v : v[h] = IF h[2] = 0 THEN k[h[1]] ELSE rx[S[h[1]].idx][h[2]]
  BY TailsFacts
<1>3. \A q \in Request : \A i : /\ InTail(S[q], i) <=> InTail(R[q], i)
                                /\ InTail(R[q], i) => rx[S[q].idx][i] = rw[R[q].idx][i] /\ i # 0
  BY DEF SameTail, InTail, Records
<1>4. DOMAIN k = DOMAIN l /\ \A q \in DOMAIN l : l[q] = k[q]
  BY DEF SameLate
<1> HIDE DEF t, v
<1>5. \A h : h \in DOMAIN v <=> h \in DOMAIN t
  BY <1>1, <1>2, <1>3, <1>4 DEF IsTail
<1>6. ASSUME NEW h \in DOMAIN v PROVE v[h] = t[h]
  <2>1. IsTail(R, l, h) /\ h \in DOMAIN t
    BY <1>1, <1>5
  <2>2. CASE h[2] = 0
    <3>1. h[1] \in DOMAIN l
      BY <1>3, <2>1, <2>2 DEF IsTail
    <3>2. v[h] = k[h[1]] /\ t[h] = l[h[1]]
      BY <1>1, <1>2, <2>1, <2>2
    <3> QED
      BY <1>4, <3>1, <3>2
  <2>3. CASE h[2] # 0
    <3>1. h[1] \in Request /\ InTail(R[h[1]], h[2])
      BY <2>1, <2>3 DEF IsTail
    <3>2. v[h] = rx[S[h[1]].idx][h[2]] /\ t[h] = rw[R[h[1]].idx][h[2]]
      BY <1>1, <1>2, <2>1, <2>3
    <3> QED
      BY <1>3, <3>1, <3>2
  <2> QED
    BY <2>2, <2>3
<1> QED
  BY <1>5, <1>6, PartSame DEF t, v

\* The tail of q loses its tokens up to n.
LEMMA LoseTail ==
    ASSUME NEW R, Records(R), NEW rw, NEW l, DOMAIN l \subseteq Request,
           NEW S, Records(S), NEW rx, NEW k, SameLate(l, k), NEW q \in Request,
           \A p \in Request : p # q => SameTail(R, rw, S, rx, p),
           NEW n \in Nat, n <= R[q].slen, RestOfTail(R, rw, S, rx, q, n)
    PROVE  Loses(TailsOf(R, rw, l), q, rw[R[q].idx], Len(R[q].pre), n, TailsOf(S, rx, k))
<1> DEFINE t == TailsOf(R, rw, l)
           v == TailsOf(S, rx, k)
           a == Len(R[q].pre)
<1>1. /\ \A h : h \in DOMAIN t <=> IsTail(R, l, h)
      /\ \A h \in DOMAIN t : t[h] = IF h[2] = 0 THEN l[h[1]] ELSE rw[R[h[1]].idx][h[2]]
  BY TailsFacts
<1>2. /\ \A h : h \in DOMAIN v <=> IsTail(S, k, h)
      /\ \A h \in DOMAIN v : v[h] = IF h[2] = 0 THEN k[h[1]] ELSE rx[S[h[1]].idx][h[2]]
  BY TailsFacts
<1>3. \A p \in Request : \A i : InTail(R[p], i) \/ InTail(S[p], i) => i \in Nat /\ i # 0
  BY DEF InTail, Records
<1>4. DOMAIN k = DOMAIN l /\ \A p \in DOMAIN l : l[p] = k[p]
  BY DEF SameLate
<1>5. a \in Nat /\ R[q].slen \in Nat
  BY DEF Records
<1>6. \A i \in a + 1 .. n : InTail(R[q], i)
  BY <1>5 DEF InTail
<1>7. \A i \in a + 1 .. n : <<q, i>> \in DOMAIN t /\ t[<<q, i>>] = rw[R[q].idx][i]
  BY <1>6, TailAt
<1> HIDE DEF t, v
<1>8. \A p \in Request : \A i : InTail(S[p], i) <=> InTail(R[p], i) /\ (p = q => n < i)
  BY DEF SameTail, RestOfTail
<1>9. \A p \in Request : \A i : InTail(S[p], i) => rx[S[p].idx][i] = rw[R[p].idx][i]
  BY DEF SameTail, RestOfTail
<1>10. \A i : InTail(R[q], i) => (n < i <=> i \notin a + 1 .. n)
  BY <1>5 DEF InTail
<1> HIDE DEF a
<1>11. ASSUME NEW h
       PROVE  h \in DOMAIN v <=> h \in DOMAIN t /\ \A i \in a + 1 .. n : h # <<q, i>>
  <2>1. CASE h \in DOMAIN v
    <3>1. IsTail(S, k, h)
      BY <1>2, <2>1
    <3>2. h \in DOMAIN t
      BY <1>1, <1>4, <1>8, <3>1 DEF IsTail
    <3>3. ASSUME NEW i \in a + 1 .. n, h = <<q, i>> PROVE FALSE
      <4>1. h[1] = q /\ h[2] = i /\ InTail(R[q], i)
        BY <1>6, <3>3
      <4>2. i # 0
        BY <1>3, <4>1
      <4>3. InTail(S[q], i)
        BY <3>1, <4>1, <4>2 DEF IsTail
      <4> QED
        BY <1>8, <1>10, <4>1, <4>3
    <3> QED
      BY <2>1, <3>2, <3>3
  <2>2. ASSUME h \in DOMAIN t, \A i \in a + 1 .. n : h # <<q, i>> PROVE h \in DOMAIN v
    <3>1. IsTail(R, l, h)
      BY <1>1, <2>2
    <3>2. CASE h[1] \in DOMAIN l /\ h[2] = 0
      BY <1>2, <1>4, <3>1, <3>2 DEF IsTail
    <3>3. CASE h[1] \in Request /\ InTail(R[h[1]], h[2])
      <4>1. h = <<h[1], h[2]>>
        BY <3>1 DEF IsTail
      <4>2. h[1] = q => h[2] \notin a + 1 .. n
        BY <2>2, <4>1
      <4>3. InTail(S[h[1]], h[2])
        BY <1>8, <1>10, <3>3, <4>2
      <4> QED
        BY <1>2, <3>3, <4>1, <4>3 DEF IsTail
    <3> QED
      BY <3>1, <3>2, <3>3 DEF IsTail
  <2> QED
    BY <2>1, <2>2
<1>12. ASSUME NEW h \in DOMAIN v PROVE v[h] = t[h]
  <2>1. IsTail(S, k, h) /\ h \in DOMAIN t
    BY <1>2, <1>11
  <2>2. CASE h[2] = 0
    <3>1. h[1] \in DOMAIN l
      BY <1>3, <1>4, <2>1, <2>2 DEF IsTail
    <3>2. v[h] = k[h[1]] /\ t[h] = l[h[1]]
      BY <1>1, <1>2, <2>1, <2>2
    <3> QED
      BY <1>4, <3>1, <3>2
  <2>3. CASE h[2] # 0
    <3>1. h[1] \in Request /\ InTail(S[h[1]], h[2])
      BY <2>1, <2>3 DEF IsTail
    <3>2. v[h] = rx[S[h[1]].idx][h[2]] /\ t[h] = rw[R[h[1]].idx][h[2]]
      BY <1>1, <1>2, <2>1, <2>3
    <3> QED
      BY <1>9, <3>1, <3>2
  <2> QED
    BY <2>2, <2>3
<1> QED
  BY <1>7, <1>11, <1>12 DEF Loses, t, v, a

-----------------------------------------------------------------------------
(* The slots a batch is given *)

\* The requests of a batch get need[q] of the total slots each, from off[q] on.
Dealt(need, total, off) ==
    /\ \A q \in DOMAIN need : need[q] \in Nat /\ off[q] \in Nat /\ off[q] + need[q] <= total
    /\ \A p, q \in DOMAIN need : \A i \in 1..need[p], j \in 1..need[q] :
          off[p] + i = off[q] + j => p = q /\ i = j
    /\ \A k \in 1..total : \E q \in DOMAIN need : \E i \in 1..need[q] : k = off[q] + i

\* Shares in the order of a list s, f[i] for the i-th.
LEMMA DealtList ==
    ASSUME NEW X, NEW s \in Seq(X), Distinct(s), NEW f, \A i \in 1..Len(s) : f[i] \in Nat
    PROVE  Dealt([q \in ToSet(s) |-> f[Position(s, q)]], Upto(f, Len(s)),
                 [q \in ToSet(s) |-> Upto(f, Position(s, q) - 1)])
<1> DEFINE n == Len(s)
           D == ToSet(s)
           idx == [q \in D |-> Position(s, q)]
           need == [q \in D |-> f[Position(s, q)]]
           off == [q \in D |-> Upto(f, Position(s, q) - 1)]
<1>1. n \in Nat /\ \A i \in 1..n : s[i] \in D
  BY ToSetFacts
<1>2. /\ \A q \in D : idx[q] \in 1..n
      /\ \A i \in 1..n : idx[s[i]] = i
      /\ \A p, q \in D : idx[p] = idx[q] => p = q
  BY <1>1, PositionFacts
<1>3. \A q \in D : need[q] = f[idx[q]] /\ off[q] = Upto(f, idx[q] - 1)
  OBVIOUS
<1>4. DOMAIN need = D
  OBVIOUS
<1> HIDE DEF D, idx, need, off, n
<1>5. \A i \in 1..n : f[i] \in Nat
  BY DEF n
<1>6. /\ \A i \in 0..n : Upto(f, i) \in Nat
      /\ \A i \in 1..n : Upto(f, i) = Upto(f, i - 1) + f[i]
  BY ONLY <1>1, <1>5, UptoFacts
<1>7. \A i, j \in 0..n : i <= j => Upto(f, i) <= Upto(f, j)
  <2> SUFFICES ASSUME NEW i \in 0..n, NEW j \in 0..n, i <= j PROVE Upto(f, i) <= Upto(f, j)
    OBVIOUS
  <2> QED
    BY <1>1, <1>5, UptoMono
<1>8. ASSUME NEW q \in D
      PROVE  off[q] \in Nat /\ need[q] \in Nat /\ off[q] + need[q] = Upto(f, idx[q])
  <2>1. idx[q] - 1 \in 0..n /\ idx[q] \in 1..n
    BY <1>1, <1>2
  <2> QED
    BY <1>3, <1>5, <1>6, <2>1
<1>9. ASSUME NEW q \in D PROVE off[q] + need[q] <= Upto(f, n)
  <2>1. idx[q] \in 0..n /\ n \in 0..n /\ idx[q] <= n
    BY <1>1, <1>2
  <2> QED
    BY <1>7, <1>8, <2>1
<1>10. ASSUME NEW p \in D, NEW q \in D, idx[p] < idx[q]
       PROVE  off[p] + need[p] <= off[q]
  <2>1. n \in Nat /\ idx[p] \in 1..n /\ idx[q] \in 1..n
    BY ONLY <1>1, <1>2, p \in D, q \in D
  <2>2. idx[p] \in 0..n /\ idx[q] - 1 \in 0..n /\ idx[p] <= idx[q] - 1
    BY ONLY <1>10, <2>1
  <2> QED
    BY <1>3, <1>7, <1>8, <2>2
<1>11. ASSUME NEW p \in D, NEW q \in D, NEW i \in 1..need[p], NEW j \in 1..need[q],
              off[p] + i = off[q] + j
       PROVE  p = q /\ i = j
  <2>1. off[p] \in Nat /\ off[q] \in Nat /\ need[p] \in Nat /\ need[q] \in Nat
    BY <1>8
  <2>0. idx[p] \in Nat /\ idx[q] \in Nat
    BY <1>1, <1>2
  <2>2. CASE idx[p] < idx[q]
    BY <1>10, <1>11, <2>1, <2>2
  <2>3. CASE idx[q] < idx[p]
    BY <1>10, <1>11, <2>1, <2>3
  <2>4. CASE idx[p] = idx[q]
    <3>1. p = q
      BY <1>2, <2>4
    <3> QED
      BY <1>11, <2>1, <3>1
  <2> QED
    BY <2>0, <2>2, <2>3, <2>4
<1>12. ASSUME NEW k \in 1..Upto(f, n)
       PROVE  \E q \in D : \E i \in 1..need[q] : k = off[q] + i
  <2> DEFINE m == Min({i \in 1..n : Upto(f, i) >= k})
  <2>0. k \in Nat /\ k > 0 /\ k <= Upto(f, n)
    BY <1>1, <1>6
  <2>1. m \in 1..n /\ Upto(f, m - 1) < k /\ k <= Upto(f, m - 1) + f[m]
    <3>1. m = Min({i \in 1..n : Upto(f, i) >= k})
      OBVIOUS
    <3> HIDE DEF m
    <3> QED
      BY <1>1, <1>5, <2>0, <3>1, UptoReaches
  <2> HIDE DEF m
  <2>2. s[m] \in D /\ idx[s[m]] = m
    BY <1>1, <1>2, <2>1
  <2>3. off[s[m]] = Upto(f, m - 1) /\ f[m] = need[s[m]]
    BY <1>3, <2>2
  <2>4. Upto(f, m - 1) \in Nat /\ f[m] \in Nat
    BY <1>8, <2>2, <2>3
  <2>5. k - Upto(f, m - 1) \in 1..need[s[m]]
    BY <2>0, <2>1, <2>3, <2>4
  <2>6. k = off[s[m]] + (k - Upto(f, m - 1))
    BY <2>0, <2>3, <2>4
  <2> QED
    BY <2>2, <2>5, <2>6
<1>13. Dealt(need, Upto(f, n), off)
  BY <1>4, <1>8, <1>9, <1>11, <1>12 DEF Dealt
<1> QED
  BY <1>13 DEF need, off, n, D

\* One slot for each member of a list.
LEMMA DealtOne ==
    ASSUME NEW X, NEW s \in Seq(X), Distinct(s)
    PROVE  Dealt([q \in ToSet(s) |-> 1], Len(s), [q \in ToSet(s) |-> Position(s, q) - 1])
<1> DEFINE n == Len(s)
           D == ToSet(s)
           need == [q \in D |-> 1]
           off == [q \in D |-> Position(s, q) - 1]
<1>1. n \in Nat /\ \A i \in 1..n : s[i] \in D
  BY ToSetFacts
<1>2. /\ \A q \in D : Position(s, q) \in 1..n
      /\ \A i \in 1..n : Position(s, s[i]) = i
      /\ \A p, q \in D : Position(s, p) = Position(s, q) => p = q
  BY <1>1, PositionFacts
<1>3. /\ DOMAIN need = D
      /\ \A q \in D : need[q] = 1 /\ off[q] = Position(s, q) - 1
  OBVIOUS
<1> HIDE DEF D, need, off, n
<1>4. \A q \in D : need[q] \in Nat /\ off[q] \in Nat /\ off[q] + need[q] <= n
  BY <1>1, <1>2, <1>3
<1>5. ASSUME NEW p \in D, NEW q \in D, NEW i \in 1..need[p], NEW j \in 1..need[q],
              off[p] + i = off[q] + j
      PROVE  p = q /\ i = j
  <2>1. i = 1 /\ j = 1
    BY <1>3
  <2>2. off[p] \in Nat /\ off[q] \in Nat
    BY <1>4
  <2>3. off[p] = off[q]
    BY <1>5, <2>1, <2>2
  <2>4. Position(s, p) \in Nat /\ Position(s, q) \in Nat
    BY <1>1, <1>2
  <2>5. Position(s, p) = Position(s, q)
    BY <1>3, <2>3, <2>4
  <2> QED
    BY <1>2, <2>1, <2>5
<1>6. ASSUME NEW k \in 1..n
      PROVE  \E q \in D : \E i \in 1..need[q] : k = off[q] + i
  <2>1. s[k] \in D /\ off[s[k]] = k - 1 /\ 1 \in 1..need[s[k]]
    BY <1>1, <1>2, <1>3
  <2>2. k = off[s[k]] + 1
    BY <1>1, <2>1
  <2> QED
    BY <2>1, <2>2
<1>7. Dealt(need, n, off)
  BY <1>3, <1>4, <1>5, <1>6 DEF Dealt
<1> QED
  BY <1>7 DEF need, off, n, D

\* The tails grow from t to v by the slots a, as they are dealt out: need[q] for q,
\* after its first L[q] tokens.
Deals(t, v, need, off, L, a) ==
    /\ \A q \in DOMAIN need : L[q] \in Nat
    /\ \A h \in DOMAIN t : h \in DOMAIN v /\ v[h] = t[h]
    /\ \A h \in DOMAIN v : h \notin DOMAIN t =>
          /\ h = <<h[1], h[2]>> /\ h[1] \in DOMAIN need /\ h[2] \in Nat
          /\ h[2] - L[h[1]] \in 1..need[h[1]]
          /\ v[h] = a[off[h[1]] + (h[2] - L[h[1]])]
    /\ \A q \in DOMAIN need : \A i \in 1..need[q] :
          <<q, L[q] + i>> \in DOMAIN v /\ <<q, L[q] + i>> \notin DOMAIN t

\* alloc_token_slots: every slot still has one owner.
LEMMA DealtPart ==
    ASSUME NEW P, NEW t, NEW fr, Part(P, t, fr), NEW need, NEW n \in Nat, Available(fr) >= n,
           NEW off, Dealt(need, n, off), NEW L, NEW v,
           Deals(t, v, need, off, L, AllocSeq(fr, n))
    PROVE  Part(P, v, AllocRest(fr, n))
<1> DEFINE a == AllocSeq(fr, n)
           rest == AllocRest(fr, n)
           k == [h \in DOMAIN v |-> off[h[1]] + (h[2] - L[h[1]])]
<1>2. fr \in [Slot -> {0, 1}]
  BY DEF Part
<1>3. Taken(fr, n, a, rest)
  <2>1. /\ a \in Seq(Slot) /\ Len(a) = n /\ DOMAIN a = 1..n
        /\ \A i \in 1..n : fr[a[i]] = 1
        /\ \A i, j \in 1..n : a[i] = a[j] => i = j
        /\ rest \in [Slot -> {0, 1}]
        /\ \A s \in Slot : rest[s] = 0 <=> fr[s] = 0 \/ \E i \in 1..n : a[i] = s
    BY <1>2, OverlapAssumption, AllocFacts
  <2> HIDE DEF a, rest
  <2>2. \A i \in 1..n : a[i] \in Slot
    BY <2>1
  <2> QED
    BY <2>1, <2>2 DEF Taken
<1>4. /\ \A q \in DOMAIN need : L[q] \in Nat
      /\ \A h \in DOMAIN t : h \in DOMAIN v /\ v[h] = t[h]
      /\ \A h \in DOMAIN v : h \notin DOMAIN t =>
            /\ h = <<h[1], h[2]>> /\ h[1] \in DOMAIN need /\ h[2] \in Nat
            /\ h[2] - L[h[1]] \in 1..need[h[1]]
            /\ v[h] = a[off[h[1]] + (h[2] - L[h[1]])]
      /\ \A q \in DOMAIN need : \A i \in 1..need[q] :
            <<q, L[q] + i>> \in DOMAIN v /\ <<q, L[q] + i>> \notin DOMAIN t
  BY DEF Deals
<1>5. /\ \A q \in DOMAIN need : need[q] \in Nat /\ off[q] \in Nat /\ off[q] + need[q] <= n
      /\ \A p, q \in DOMAIN need : \A i \in 1..need[p], j \in 1..need[q] :
            off[p] + i = off[q] + j => p = q /\ i = j
      /\ \A i \in 1..n : \E q \in DOMAIN need : \E j \in 1..need[q] : i = off[q] + j
  BY DEF Dealt
<1>7. \A h \in DOMAIN v : k[h] = off[h[1]] + (h[2] - L[h[1]])
  OBVIOUS
<1> HIDE DEF a, rest, k
<1>9. \A h \in DOMAIN v : h \notin DOMAIN t => k[h] \in 1..n /\ v[h] = a[k[h]]
  <2> SUFFICES ASSUME NEW h \in DOMAIN v, h \notin DOMAIN t
               PROVE  k[h] \in 1..n /\ v[h] = a[k[h]]
    OBVIOUS
  <2> DEFINE q == h[1]
             i == h[2] - L[h[1]]
  <2>1. q \in DOMAIN need /\ i \in 1..need[q] /\ v[h] = a[off[q] + i] /\ k[h] = off[q] + i
    BY <1>4, <1>7
  <2> HIDE DEF q, i
  <2>2. off[q] + i \in 1..n
    BY <1>5, <2>1
  <2> QED
    BY <2>1, <2>2
<1>10. \A g, h \in DOMAIN v : g \notin DOMAIN t /\ h \notin DOMAIN t /\ k[g] = k[h] => g = h
  <2> SUFFICES ASSUME NEW g \in DOMAIN v, NEW h \in DOMAIN v, g \notin DOMAIN t,
                      h \notin DOMAIN t, k[g] = k[h]
               PROVE  g = h
    OBVIOUS
  <2> DEFINE p == g[1]
             q == h[1]
             i == g[2] - L[g[1]]
             j == h[2] - L[h[1]]
  <2>1. /\ p \in DOMAIN need /\ i \in 1..need[p] /\ k[g] = off[p] + i
        /\ q \in DOMAIN need /\ j \in 1..need[q] /\ k[h] = off[q] + j
        /\ g = <<g[1], g[2]>> /\ h = <<h[1], h[2]>> /\ g[2] \in Nat /\ h[2] \in Nat
    BY <1>4, <1>7
  <2>2. p = q /\ i = j
    <3> HIDE DEF p, q, i, j
    <3>1. off[p] + i = off[q] + j
      BY <2>1
    <3>2. \A x, y \in DOMAIN need : \A c \in 1..need[x], d \in 1..need[y] :
             off[x] + c = off[y] + d => x = y /\ c = d
      BY <1>5
    <3> QED
      BY ONLY <2>1, <3>1, <3>2
  <2>3. g[2] = h[2]
    <3>1. L[q] \in Nat /\ g[2] - L[q] = h[2] - L[q] /\ g[2] \in Nat /\ h[2] \in Nat
      BY <1>4, <2>1, <2>2
    <3> QED
      BY ONLY <3>1
  <2> QED
    BY <2>1, <2>2, <2>3
<1>11. \A i \in 1..n : \E h \in DOMAIN v : h \notin DOMAIN t /\ k[h] = i
  <2> SUFFICES ASSUME NEW i \in 1..n PROVE \E h \in DOMAIN v : h \notin DOMAIN t /\ k[h] = i
    OBVIOUS
  <2>1. PICK q \in DOMAIN need : \E j \in 1..need[q] : i = off[q] + j
    BY <1>5
  <2>2. PICK j \in 1..need[q] : i = off[q] + j
    BY <2>1
  <2> DEFINE h == <<q, L[q] + j>>
  <2>3. h \in DOMAIN v /\ h \notin DOMAIN t
    BY <1>4
  <2>4. h[1] = q /\ h[2] = L[q] + j
    OBVIOUS
  <2>5. h[2] - L[h[1]] = j
    BY <1>4, <2>4
  <2> HIDE DEF h
  <2> QED
    BY <1>7, <2>2, <2>3, <2>4, <2>5
<1>12. Part(P, v, rest)
  <2>2. TailsGrow(t, v, n, a, k)
    BY <1>4, <1>9, <1>10, <1>11 DEF TailsGrow
  <2> QED
    BY <1>3, <2>2, GrowPart
<1> QED
  BY <1>12 DEF rest

\* The tails of the requests in DOMAIN need grow: q's by need[q] slots after its
\* first L[q] tokens, from a[off[q] + 1] on.
GrownTail(R, rw, S, rx, q, m, b, c, a) ==
    /\ b \in Nat /\ m \in Nat
    /\ \A i : InTail(R[q], i) => i <= b /\ rx[S[q].idx][i] = rw[R[q].idx][i]
    /\ \A i : InTail(S[q], i) <=> InTail(R[q], i) \/ (i \in Nat /\ i - b \in 1..m)
    /\ \A i \in 1..m : rx[S[q].idx][b + i] = a[c + i]

\* So every slot still has one owner.
LEMMA GrowTails ==
    ASSUME NEW R, Records(R), NEW rw, NEW l, DOMAIN l \subseteq Request,
           NEW S, Records(S), NEW rx, NEW k, SameLate(l, k),
           NEW P, NEW fr, Part(P, TailsOf(R, rw, l), fr), NEW n \in Nat, Available(fr) >= n,
           NEW need, DOMAIN need \subseteq Request, NEW off, Dealt(need, n, off), NEW L,
           \A q \in Request : q \notin DOMAIN need => SameTail(R, rw, S, rx, q),
           \A q \in DOMAIN need :
                GrownTail(R, rw, S, rx, q, need[q], L[q], off[q], AllocSeq(fr, n))
    PROVE  Part(P, TailsOf(S, rx, k), AllocRest(fr, n))
<1> DEFINE t == TailsOf(R, rw, l)
           v == TailsOf(S, rx, k)
           a == AllocSeq(fr, n)
<1>1. /\ \A h : h \in DOMAIN t => /\ h = <<h[1], h[2]>> /\ h[1] \in Request /\ h[2] \in Nat
                                  /\ h[2] # 0 => InTail(R[h[1]], h[2])
                                  /\ h[2] = 0 => h[1] \in DOMAIN l
      /\ \A q \in Request : \A i : InTail(R[q], i) =>
            /\ <<q, i>> \in DOMAIN t /\ t[<<q, i>>] = rw[R[q].idx][i] /\ i \in Nat /\ i # 0
      /\ \A q \in DOMAIN l : <<q, 0>> \in DOMAIN t /\ t[<<q, 0>>] = l[q]
  BY TailAt
<1>2. /\ \A h : h \in DOMAIN v => /\ h = <<h[1], h[2]>> /\ h[1] \in Request /\ h[2] \in Nat
                                  /\ h[2] # 0 => InTail(S[h[1]], h[2])
                                  /\ h[2] = 0 => h[1] \in DOMAIN k
      /\ \A q \in Request : \A i : InTail(S[q], i) =>
            /\ <<q, i>> \in DOMAIN v /\ v[<<q, i>>] = rx[S[q].idx][i] /\ i \in Nat /\ i # 0
      /\ \A q \in DOMAIN k : <<q, 0>> \in DOMAIN v /\ v[<<q, 0>>] = k[q]
  <2>1. DOMAIN k \subseteq Request
    BY DEF SameLate
  <2> QED
    BY <2>1, TailAt
<1>3. \A q \in DOMAIN need : L[q] \in Nat /\ need[q] \in Nat /\ q \in Request
  BY DEF GrownTail
<1>4. \A q \in Request : \A i : InTail(R[q], i) =>
          InTail(S[q], i) /\ rx[S[q].idx][i] = rw[R[q].idx][i]
  BY DEF GrownTail, SameTail
<1>5. \A q \in Request : \A i : InTail(S[q], i) /\ ~InTail(R[q], i) =>
          q \in DOMAIN need /\ i - L[q] \in 1..need[q] /\ i \in Nat
  BY DEF GrownTail, SameTail
<1>6. \A q \in DOMAIN need : \A i \in 1..need[q] :
         InTail(S[q], L[q] + i) /\ ~InTail(R[q], L[q] + i) /\ rx[S[q].idx][L[q] + i] = a[off[q] + i]
  <2> SUFFICES ASSUME NEW q \in DOMAIN need, NEW i \in 1..need[q]
               PROVE  /\ InTail(S[q], L[q] + i) /\ ~InTail(R[q], L[q] + i)
                      /\ rx[S[q].idx][L[q] + i] = a[off[q] + i]
    OBVIOUS
  <2> DEFINE b == L[q]
             m == need[q]
  <2>1. GrownTail(R, rw, S, rx, q, m, b, off[q], a)
    OBVIOUS
  <2>2. b \in Nat /\ m \in Nat /\ i \in 1..m
    BY <1>3
  <2> HIDE DEF b, m, a
  <2>3. b + i \in Nat /\ (b + i) - b \in 1..m /\ ~(b + i <= b)
    BY <2>2
  <2>4. InTail(S[q], b + i) /\ ~InTail(R[q], b + i) /\ rx[S[q].idx][b + i] = a[off[q] + i]
    BY <2>1, <2>2, <2>3 DEF GrownTail
  <2> QED
    BY <2>4 DEF b, m
<1>7. DOMAIN k = DOMAIN l /\ \A q \in DOMAIN l : l[q] = k[q]
  BY DEF SameLate
<1> HIDE DEF t, v, a
<1>8. ASSUME NEW h \in DOMAIN t PROVE h \in DOMAIN v /\ v[h] = t[h]
  <2> DEFINE q == h[1]
             i == h[2]
  <2>1. h = <<q, i>> /\ q \in Request /\ i \in Nat /\ (i # 0 => InTail(R[q], i))
        /\ (i = 0 => q \in DOMAIN l)
    BY <1>1
  <2> HIDE DEF q, i
  <2>2. CASE i = 0
    BY <1>1, <1>2, <1>7, <2>1, <2>2
  <2>3. CASE i # 0
    <3>1. InTail(S[q], i) /\ rx[S[q].idx][i] = rw[R[q].idx][i]
      BY <1>4, <2>1, <2>3
    <3> QED
      BY <1>1, <1>2, <2>1, <2>3, <3>1
  <2> QED
    BY <2>2, <2>3
<1>9. ASSUME NEW h \in DOMAIN v, h \notin DOMAIN t
      PROVE  /\ h = <<h[1], h[2]>> /\ h[1] \in DOMAIN need /\ h[2] \in Nat
             /\ h[2] - L[h[1]] \in 1..need[h[1]]
             /\ v[h] = a[off[h[1]] + (h[2] - L[h[1]])]
  <2> DEFINE q == h[1]
             i == h[2]
             j == i - L[q]
  <2>1. h = <<q, i>> /\ q \in Request /\ i \in Nat /\ (i # 0 => InTail(S[q], i))
        /\ (i = 0 => q \in DOMAIN k)
    BY <1>2
  <2> HIDE DEF q, i
  <2>2. i # 0
    BY <1>1, <1>7, <1>9, <2>1
  <2>3. ~InTail(R[q], i)
    BY <1>1, <1>9, <2>1
  <2>4. q \in DOMAIN need /\ j \in 1..need[q]
    BY <1>5, <2>1, <2>2, <2>3
  <2>5. L[q] + j = i
    BY <1>3, <2>1, <2>4
  <2> HIDE DEF j
  <2>6. v[h] = rx[S[q].idx][i]
    BY <1>2, <2>1, <2>2
  <2>7. v[h] = a[off[q] + j]
    BY <1>6, <2>4, <2>5, <2>6
  <2> QED
    BY <2>1, <2>4, <2>7 DEF q, i, j
<1>10. Deals(t, v, need, off, L, a)
  <2>1. \A q \in DOMAIN need : \A i \in 1..need[q] :
          <<q, L[q] + i>> \in DOMAIN v /\ <<q, L[q] + i>> \notin DOMAIN t
    <3> SUFFICES ASSUME NEW q \in DOMAIN need, NEW i \in 1..need[q]
                 PROVE  <<q, L[q] + i>> \in DOMAIN v /\ <<q, L[q] + i>> \notin DOMAIN t
      OBVIOUS
    <3> DEFINE j == L[q] + i
    <3>1. q \in Request /\ InTail(S[q], j) /\ ~InTail(R[q], j)
      BY <1>3, <1>6
    <3> HIDE DEF j
    <3>2. <<q, j>> \in DOMAIN v /\ j # 0
      BY <1>2, <3>1
    <3>3. <<q, j>> \in DOMAIN t => InTail(R[q], j)
      <4> DEFINE h == <<q, j>>
      <4>1. h[1] = q /\ h[2] = j
        OBVIOUS
      <4> HIDE DEF h
      <4> QED
        BY <1>1, <3>2, <4>1 DEF h
    <3> QED
      BY <3>1, <3>2, <3>3 DEF j
  <2> QED
    BY <1>3, <1>8, <1>9, <2>1 DEF Deals
<1> QED
  BY <1>10, DealtPart DEF t, v, a

\* The tail of q is the slot at n, in R, and nothing, in S, where it is the late one.
Rekeyed(R, rw, l, S, rx, k, q, n) ==
    /\ Records(R) /\ Records(S) /\ DOMAIN l \subseteq Request
    /\ q \in Request /\ q \notin DOMAIN l
    /\ DOMAIN k = DOMAIN l \cup {q} /\ \A p \in DOMAIN l : k[p] = l[p]
    /\ \A p \in Request : p # q => SameTail(R, rw, S, rx, p)
    /\ \A i : InTail(R[q], i) <=> i = n
    /\ \A i : ~InTail(S[q], i)
    /\ k[q] = rw[R[q].idx][n]

\* The last slot of a request that is over becomes its late one.
LEMMA RekeyTail ==
    ASSUME NEW R, NEW rw, NEW l, NEW S, NEW rx, NEW k, NEW q, NEW n,
           Rekeyed(R, rw, l, S, rx, k, q, n), NEW P, NEW fr, Part(P, TailsOf(R, rw, l), fr)
    PROVE  Part(P, TailsOf(S, rx, k), fr)
<1>0. /\ Records(R) /\ Records(S) /\ DOMAIN l \subseteq Request
      /\ q \in Request /\ q \notin DOMAIN l
      /\ DOMAIN k = DOMAIN l \cup {q} /\ (\A p \in DOMAIN l : k[p] = l[p])
      /\ (\A p \in Request : p # q => SameTail(R, rw, S, rx, p))
      /\ (\A i : InTail(R[q], i) <=> i = n)
      /\ (\A i : ~InTail(S[q], i))
      /\ k[q] = rw[R[q].idx][n]
  BY DEF Rekeyed
<1> USE <1>0
<1> DEFINE t == TailsOf(R, rw, l)
           v == TailsOf(S, rx, k)
           g == <<q, n>>
           h == <<q, 0>>
<1>1. /\ \A x : x \in DOMAIN t => /\ x = <<x[1], x[2]>> /\ x[1] \in Request /\ x[2] \in Nat
                                  /\ x[2] # 0 => InTail(R[x[1]], x[2])
                                  /\ x[2] = 0 => x[1] \in DOMAIN l
      /\ \A p \in Request : \A i : InTail(R[p], i) =>
            /\ <<p, i>> \in DOMAIN t /\ t[<<p, i>>] = rw[R[p].idx][i] /\ i \in Nat /\ i # 0
      /\ \A p \in DOMAIN l : <<p, 0>> \in DOMAIN t /\ t[<<p, 0>>] = l[p]
  BY TailAt
<1>2. /\ \A x : x \in DOMAIN v => /\ x = <<x[1], x[2]>> /\ x[1] \in Request /\ x[2] \in Nat
                                  /\ x[2] # 0 => InTail(S[x[1]], x[2])
                                  /\ x[2] = 0 => x[1] \in DOMAIN k
      /\ \A p \in Request : \A i : InTail(S[p], i) =>
            /\ <<p, i>> \in DOMAIN v /\ v[<<p, i>>] = rx[S[p].idx][i] /\ i \in Nat /\ i # 0
      /\ \A p \in DOMAIN k : <<p, 0>> \in DOMAIN v /\ v[<<p, 0>>] = k[p]
  <2>1. DOMAIN k \subseteq Request
    OBVIOUS
  <2> QED
    BY <2>1, TailAt
<1>3. \A p \in Request : p # q => \A i : /\ InTail(S[p], i) <=> InTail(R[p], i)
                                         /\ InTail(R[p], i) => rx[S[p].idx][i] = rw[R[p].idx][i]
  BY DEF SameTail
<1> HIDE DEF t, v
<1>4. g \in DOMAIN t /\ t[g] = rw[R[q].idx][n] /\ n # 0 /\ g # h
  BY <1>1
<1>5. h \notin DOMAIN t
  <2>1. h[1] = q /\ h[2] = 0
    OBVIOUS
  <2> HIDE DEF h
  <2> QED
    BY <1>1, <2>1
<1>6. h \in DOMAIN v /\ v[h] = t[g]
  BY <1>2, <1>4
<1>7. ASSUME NEW x, x \in DOMAIN v, x # h
      PROVE  x \in DOMAIN t /\ x # g /\ v[x] = t[x]
  <2> DEFINE p == x[1]
             i == x[2]
  <2>1. x = <<p, i>> /\ p \in Request /\ (i # 0 => InTail(S[p], i)) /\ (i = 0 => p \in DOMAIN k)
    BY <1>2, <1>7
  <2>2. g[1] = q /\ h[1] = q /\ h[2] = 0
    OBVIOUS
  <2> HIDE DEF p, i
  <2>3. CASE i = 0
    <3>1. p # q
      BY <1>7, <2>1, <2>3
    <3>2. p \in DOMAIN l
      BY <2>1, <2>3, <3>1
    <3> QED
      BY <1>1, <1>2, <2>1, <2>3, <3>1, <3>2
  <2>4. CASE i # 0
    <3>1. p # q
      BY <2>1, <2>4
    <3>2. InTail(S[p], i) /\ InTail(R[p], i) /\ rx[S[p].idx][i] = rw[R[p].idx][i]
      BY <1>3, <2>1, <2>4, <3>1
    <3> QED
      BY <1>1, <1>2, <2>1, <3>1, <3>2
  <2> QED
    BY <2>3, <2>4
<1>8. ASSUME NEW x, x \in DOMAIN t, x # g PROVE x \in DOMAIN v
  <2> DEFINE p == x[1]
             i == x[2]
  <2>1. x = <<p, i>> /\ p \in Request /\ (i # 0 => InTail(R[p], i)) /\ (i = 0 => p \in DOMAIN l)
    BY <1>1, <1>8
  <2> HIDE DEF p, i
  <2>3. CASE i = 0
    BY <1>2, <2>1, <2>3
  <2>4. CASE i # 0
    <3>1. p # q
      BY <1>8, <2>1, <2>4
    <3> QED
      BY <1>2, <1>3, <2>1, <2>4, <3>1
  <2> QED
    BY <2>3, <2>4
<1> HIDE DEF g, h
<1>9. \A x : x \in DOMAIN v <=> x = h \/ (x \in DOMAIN t /\ x # g)
  BY <1>6, <1>7, <1>8
<1>10. \A x \in DOMAIN v : v[x] = IF x = h THEN t[g] ELSE t[x]
  BY <1>6, <1>7
<1> QED
  BY <1>4, <1>5, <1>9, <1>10, RekeyPart DEF t, v

\* The late slot of a request goes back.
LEMMA DropLate ==
    ASSUME NEW R, Records(R), NEW rw, NEW l, DOMAIN l \subseteq Request, NEW q \in DOMAIN l,
           NEW k, DOMAIN k = DOMAIN l \ {q}, \A p \in DOMAIN k : k[p] = l[p],
           NEW P, NEW fr, Part(P, TailsOf(R, rw, l), fr)
    PROVE  Part(P, TailsOf(R, rw, k), Freed(fr, <<l[q]>>))
<1> DEFINE t == TailsOf(R, rw, l)
           v == TailsOf(R, rw, k)
           f == <<l[q]>>
           m == [i \in {1} |-> <<q, 0>>]
<1>1. /\ \A h : h \in DOMAIN t <=> IsTail(R, l, h)
      /\ \A h \in DOMAIN t : t[h] = IF h[2] = 0 THEN l[h[1]] ELSE rw[R[h[1]].idx][h[2]]
  BY TailsFacts
<1>2. /\ \A h : h \in DOMAIN v <=> IsTail(R, k, h)
      /\ \A h \in DOMAIN v : v[h] = IF h[2] = 0 THEN k[h[1]] ELSE rw[R[h[1]].idx][h[2]]
  BY TailsFacts
<1>3. \A p \in Request : \A i : InTail(R[p], i) => i # 0
  BY DEF InTail, Records
<1>4. DOMAIN f = {1} /\ f[1] = l[q] /\ m[1] = <<q, 0>>
  OBVIOUS
<1>5. <<q, 0>> \in DOMAIN t /\ t[<<q, 0>>] = l[q]
  BY TailAt
<1> HIDE DEF t, v, f, m
<1>6. ASSUME NEW h PROVE IsTail(R, k, h) <=> IsTail(R, l, h) /\ h # <<q, 0>>
  <2>1. h = <<q, 0>> => h[1] = q /\ h[2] = 0
    OBVIOUS
  <2>2. IsTail(R, k, h) => h # <<q, 0>>
    BY <1>3, <2>1 DEF IsTail
  <2>3. h = <<h[1], h[2]>> /\ h[1] = q /\ h[2] = 0 => h = <<q, 0>>
    OBVIOUS
  <2> QED
    BY <2>2, <2>3 DEF IsTail
<1>7. \A h : h \in DOMAIN v <=> h \in DOMAIN t /\ \A x \in DOMAIN f : m[x] # h
  BY <1>1, <1>2, <1>4, <1>6
<1>8. ASSUME NEW h \in DOMAIN v PROVE v[h] = t[h]
  <2>1. h \in DOMAIN t /\ IsTail(R, k, h)
    BY <1>2, <1>7
  <2>2. CASE h[2] = 0
    <3>1. h[1] \in DOMAIN k
      BY <1>3, <2>1, <2>2 DEF IsTail
    <3> QED
      BY <1>1, <1>2, <2>1, <2>2, <3>1
  <2>3. CASE h[2] # 0
    BY <1>1, <1>2, <2>1, <2>3
  <2> QED
    BY <2>2, <2>3
<1>9. Drops(t, f, m, v)
  BY <1>4, <1>5, <1>7, <1>8 DEF Drops
<1> QED
  BY <1>9, DropPart DEF t, v, f

-----------------------------------------------------------------------------
(* The parts of the invariant, one change at a time *)

\* The requests' records.
LEMMA TypesFacts ==
    ASSUME NEW R, NEW ch, NEW sa, NEW o, NEW n, TypesOf(R, ch, sa, o, n)
    PROVE  /\ Records(R) /\ DOMAIN R = Request
           /\ \A q \in Request : \A cr, rn :
                 LifeTypes(q, R[q], Use(o, q), Use(n, q), Stands(cr, rn, q), Chunked(ch, q))
<1>1. R = [q \in Request |-> R[q]] /\ (\A q \in Request : IsReq(R[q])) /\ IsBatch(o) /\ IsBatch(n)
  BY DEF TypesOf
<1>2. DOMAIN R = Request
  BY <1>1
<1>3. \A q \in Request : R[q].pre \in Seq(Slot) /\ R[q].slen \in Nat
  BY <1>1 DEF IsReq
<1>4. Records(R)
  BY <1>3 DEF Records
<1>5. \A q : Use(o, q) \in Modes /\ Use(n, q) \in Modes
  BY <1>1 DEF IsBatch, Use, Modes
<1>6. \A q, cr, rn : Stands(cr, rn, q) \in {"can", "run", "out"} /\ Chunked(ch, q) \in {"yes", "no"}
  BY DEF Stands, Chunked
<1> QED
  BY <1>1, <1>2, <1>4, <1>5, <1>6 DEF LifeTypes

\* Who is where.
LEMMA StandsFacts ==
    ASSUME NEW cr, NEW rn, NEW q
    PROVE  /\ Stands(cr, rn, q) = "can" <=> q \in ToSet(cr)
           /\ Stands(cr, rn, q) = "run" <=> q \notin ToSet(cr) /\ q \in ToSet(rn)
           /\ Stands(cr, rn, q) = "out" <=> q \notin ToSet(cr) /\ q \notin ToSet(rn)
BY DEF Stands

\* A request's part in a batch.
LEMMA UseFacts ==
    ASSUME NEW b, IsBatch(b), NEW q
    PROVE  /\ Use(b, q) # "none" <=> q \in ToSet(b.reqs)
           /\ q \in ToSet(b.reqs) => Use(b, q) = b.mode /\ q \in Request
<1>1. ToSet(<<>>) = {}
  BY DEF ToSet
<1>2. b.reqs \in Seq(Request)
  BY DEF IsBatch
<1>3. ToSet(b.reqs) \subseteq Request
  BY <1>2, ToSetFacts
<1> QED
  BY <1>1, <1>3 DEF Use, IsBatch

\* No batch.
LEMMA NoBatchFacts == IsBatch(NoBatch) /\ \A q : Use(NoBatch, q) = "none" /\ q \notin ToSet(NoBatch.reqs)
<1>1. NoBatch.mode = "none" /\ NoBatch.reqs = <<>> /\ ToSet(<<>>) = {} /\ <<>> \in Seq(Request)
  BY DEF NoBatch, ToSet
<1> QED
  BY <1>1 DEF IsBatch, Use, Distinct

\* The rows keep their requests.
LEMMA RowsKept ==
    ASSUME NEW R, NEW rw, NEW f, NEW n, RowsOf(R, rw, f, n), NEW S, NEW rx,
           rx = [i \in 1..n |-> rx[i]], \A q \in Request : S[q].idx = R[q].idx,
           \A q \in Rowed(S) : RowOf(S[q], rx[S[q].idx])
    PROVE  RowsOf(S, rx, f, n)
<1>1. Rowed(S) = Rowed(R) /\ \A q \in Rowed(R) : q \in Request /\ S[q].idx = R[q].idx
  BY DEF Rowed
<1> QED
  BY <1>1 DEF RowsOf

\* A request gives its row back.
LEMMA RowsDrop ==
    ASSUME NEW R, NEW rw, NEW f, NEW n, RowsOf(R, rw, f, n), NEW q \in Request, R[q].idx # 0,
           NEW S, NEW rx, rx = [i \in 1..n |-> rx[i]], S[q].idx = 0,
           \A p \in Request : p # q => S[p].idx = R[p].idx,
           \A p \in Rowed(S) : RowOf(S[p], rx[S[p].idx])
    PROVE  RowsOf(S, rx, Append(f, R[q].idx), n)
<1>1. /\ \A p \in Rowed(S) : p \in Rowed(R) /\ S[p].idx = R[p].idx /\ p # q
      /\ q \in Rowed(R)
  BY DEF Rowed
<1>2. f \in Seq(1..n) /\ Distinct(f) /\ R[q].idx \in 1..n /\ R[q].idx \notin ToSet(f)
  BY <1>1 DEF RowsOf
<1>3. /\ Append(f, R[q].idx) \in Seq(1..n) /\ Distinct(Append(f, R[q].idx))
      /\ \A x : x \in ToSet(Append(f, R[q].idx)) <=> x \in ToSet(f) \/ x = R[q].idx
  <2> DEFINE X == 1..n
             e == R[q].idx
  <2>1. f \in Seq(X) /\ Distinct(f) /\ e \in X /\ e \notin ToSet(f)
    BY <1>2
  <2> HIDE DEF X, e
  <2>2. /\ Append(f, e) \in Seq(X) /\ Distinct(Append(f, e))
        /\ \A x : x \in ToSet(Append(f, e)) <=> x \in ToSet(f) \/ x = e
    BY ONLY <2>1, AppendSet
  <2> QED
    BY <2>2 DEF X, e
<1>4. \A p \in Rowed(S) : S[p].idx \notin ToSet(Append(f, R[q].idx))
  BY <1>1, <1>3 DEF RowsOf
<1> QED
  BY <1>1, <1>3, <1>4 DEF RowsOf

\* A batch takes the first free rows.
LEMMA RowsTake ==
    ASSUME NEW R, NEW rw, NEW f, NEW n, RowsOf(R, rw, f, n), NEW s \in Seq(Request), Distinct(s),
           Len(s) <= Len(f), \A q \in ToSet(s) : R[q].idx = 0,
           NEW S, NEW rx, rx = [i \in 1..n |-> rx[i]],
           \A q \in Request : S[q].idx = IF q \in ToSet(s) THEN f[Position(s, q)] ELSE R[q].idx,
           \A q \in Rowed(S) : RowOf(S[q], rx[S[q].idx])
    PROVE  RowsOf(S, rx, SubSeq(f, Len(s) + 1, Len(f)), n)
<1> DEFINE k == Len(s)
           g == SubSeq(f, k + 1, Len(f))
<1>1. f \in Seq(1..n) /\ Distinct(f)
  BY DEF RowsOf
<1>2. k \in Nat /\ Len(f) \in Nat /\ k \in 0..Len(f)
  BY <1>1
<1>3. /\ g \in Seq(1..n) /\ Distinct(g)
      /\ \A i \in DOMAIN g : g[i] \in ToSet(f) /\ \A j \in 1..k : f[j] # g[i]
  <2> DEFINE X == 1..n
  <2>1. f \in Seq(X) /\ Distinct(f)
    BY <1>1
  <2> HIDE DEF X, k
  <2>2. LET h == SubSeq(f, k + 1, Len(f))
        IN  /\ h \in Seq(X) /\ Distinct(h)
            /\ \A i \in DOMAIN h : h[i] \in ToSet(f) /\ \A j \in 1..k : f[j] # h[i]
    BY ONLY <1>2, <2>1, DropSet
  <2> QED
    BY <2>2 DEF X
<1> HIDE DEF g
<1>4. \A x \in ToSet(g) : x \in ToSet(f) /\ \A j \in 1..k : f[j] # x
  <2> TAKE x \in ToSet(g)
  <2>1. \E i \in 1..Len(g) : g[i] = x
    BY <1>3, ToSetFacts
  <2>2. DOMAIN g = 1..Len(g)
    BY <1>3
  <2> QED
    BY <1>3, <2>1, <2>2
<1>5. /\ \A q \in ToSet(s) : Position(s, q) \in 1..k /\ q \in Request
      /\ \A p, q \in ToSet(s) : Position(s, p) = Position(s, q) => p = q
  BY PositionFacts, ToSetFacts
<1>6. \A j \in 1..k : j \in DOMAIN f /\ f[j] \in 1..n /\ f[j] \in ToSet(f)
  <2>1. \A j \in 1..k : j \in 1..Len(f)
    BY <1>2
  <2> DEFINE X == 1..n
  <2>2. f \in Seq(X)
    BY <1>1
  <2> HIDE DEF X
  <2>3. DOMAIN f = 1..Len(f) /\ \A i \in 1..Len(f) : f[i] \in X /\ f[i] \in ToSet(f)
    BY ONLY <2>2, ToSetFacts
  <2> QED
    BY <2>1, <2>3 DEF X
<1>7. \A q \in ToSet(s) : S[q].idx = f[Position(s, q)] /\ S[q].idx \in 1..n /\ S[q].idx \in ToSet(f)
  BY <1>5, <1>6
<1>8. \A q \in Rowed(S) : q \notin ToSet(s) => q \in Rowed(R) /\ S[q].idx = R[q].idx
  BY DEF Rowed
<1>9. \A q \in Rowed(S) : S[q].idx \in 1..n
  BY <1>7, <1>8 DEF RowsOf
<1>10. \A q \in Rowed(R) : R[q].idx \notin ToSet(f)
  BY DEF RowsOf
<1>11. \A q \in Rowed(S) : S[q].idx \notin ToSet(g)
  BY <1>4, <1>5, <1>7, <1>8, <1>10
<1>12. ASSUME NEW p \in Rowed(S), NEW q \in Rowed(S), S[p].idx = S[q].idx PROVE p = q
  <2>1. CASE p \in ToSet(s) /\ q \in ToSet(s)
    <3>1. Position(s, p) \in DOMAIN f /\ Position(s, q) \in DOMAIN f
          /\ f[Position(s, p)] = f[Position(s, q)]
      BY <1>5, <1>6, <1>7, <1>12, <2>1
    <3>2. Position(s, p) = Position(s, q)
      BY <1>1, <3>1 DEF Distinct
    <3> QED
      BY <1>5, <2>1, <3>2
  <2>2. CASE p \notin ToSet(s) /\ q \notin ToSet(s)
    BY <1>8, <1>12, <2>2 DEF RowsOf
  <2>3. CASE p \in ToSet(s) /\ q \notin ToSet(s)
    BY <1>7, <1>8, <1>10, <1>12, <2>3
  <2>4. CASE p \notin ToSet(s) /\ q \in ToSet(s)
    BY <1>7, <1>8, <1>10, <1>12, <2>4
  <2> QED
    BY <2>1, <2>2, <2>3, <2>4
<1> QED
  BY <1>3, <1>9, <1>11, <1>12 DEF RowsOf, g

\* The pins do not change.
LEMMA LocksSame ==
    ASSUME NEW T, NEW H, NEW R, LocksOf(T, H, R), NEW S, NEW G,
           \A q : q \in G <=> q \in H,
           \A q \in H : S[q].last = R[q].last /\ S[q].pre = R[q].pre
    PROVE  LocksOf(T, G, S)
<1>1. G = H
  OBVIOUS
<1>2. Tended(T, H, LastOf(R)) /\ H \subseteq Request /\ \A q \in H : PrefixIn(q, R[q], T.pos)
  BY DEF LocksOf, Tended
<1>3. \A q \in H : LastOf(S)[q] = LastOf(R)[q]
  BY <1>2 DEF LastOf
<1>4. Tended(T, H, LastOf(S))
  BY <1>2, <1>3, TendedSame
<1>5. \A q \in H : PrefixIn(q, S[q], T.pos)
  BY <1>2 DEF PrefixIn
<1> QED
  BY <1>1, <1>4, <1>5 DEF LocksOf

\* evict, and the slots of what it takes.
LEMMA LocksEvict ==
    ASSUME NEW T, NEW H, NEW R, Records(R), LocksOf(T, H, R), NEW k, NEW D \in EvictChoices(T, k),
           NEW t, NEW fr, Part(T.pos, t, fr)
    PROVE  LocksOf(Delete(T, D), H, R) /\ Part(Delete(T, D).pos, t, Freed(fr, SlotsOf(T, D)))
<1>1. Tended(T, H, LastOf(R)) /\ \A q \in H : PrefixIn(q, R[q], T.pos)
  BY DEF LocksOf
<1>2. H \subseteq Request /\ TreeOK(T) /\ PlacesOK(T)
  BY <1>1 DEF Tended, TreeOK
<1>3. EvictSet(T, D)
  BY <1>2, EvictFacts
<1>4. /\ Tended(Delete(T, D), H, LastOf(R))
      /\ \A q \in H : \A r : LastOf(R)[q] = r.last /\ Len(r.pre) \in Nat /\ PrefixIn(q, r, T.pos)
                               => PrefixIn(q, r, Delete(T, D).pos)
  BY <1>1, <1>3, EvictTended
<1>5. ASSUME NEW q \in H PROVE PrefixIn(q, R[q], Delete(T, D).pos)
  <2>1. LastOf(R)[q] = R[q].last /\ Len(R[q].pre) \in Nat
    BY <1>2 DEF LastOf, Records
  <2> QED
    BY <1>1, <1>4, <2>1
<1>6. Part(Delete(T, D).pos, t, Freed(fr, SlotsOf(T, D)))
  BY <1>2, <1>3, EvictPart
<1> QED
  BY <1>4, <1>5, <1>6 DEF LocksOf

\* A request lets go of its prefix.
LEMMA LocksDrop ==
    ASSUME NEW T, NEW H, NEW R, LocksOf(T, H, R), NEW q \in H, NEW S, NEW G,
           \A p : p \in G <=> p \in H /\ p # q,
           \A p \in H : p # q => S[p].last = R[p].last /\ S[p].pre = R[p].pre
    PROVE  LocksOf(DecLockRef(T, R[q].last), G, S) /\ DecLockRef(T, R[q].last).pos = T.pos
<1>1. G = H \ {q}
  OBVIOUS
<1>2. Tended(T, H, LastOf(R)) /\ H \subseteq Request /\ \A p \in H : PrefixIn(p, R[p], T.pos)
  BY DEF LocksOf, Tended
<1>3. \A p \in H : p # q => LastOf(S)[p] = LastOf(R)[p]
  BY <1>2 DEF LastOf
<1>4. LastOf(R)[q] = R[q].last
  BY <1>2 DEF LastOf
<1>5. /\ Tended(DecLockRef(T, LastOf(R)[q]), H \ {q}, LastOf(S))
      /\ DecLockRef(T, LastOf(R)[q]).pos = T.pos
  <2> DEFINE L == LastOf(R)
             K == LastOf(S)
  <2>1. Tended(T, H, L) /\ q \in H /\ \A p \in H : p # q => K[p] = L[p]
    BY <1>2, <1>3
  <2> HIDE DEF L, K
  <2>2. Tended(DecLockRef(T, L[q]), H \ {q}, K) /\ DecLockRef(T, L[q]).pos = T.pos
    BY ONLY <2>1, Unpinned
  <2> QED
    BY <2>2 DEF L, K
<1>6. \A p \in H \ {q} : PrefixIn(p, S[p], T.pos)
  BY <1>2 DEF PrefixIn
<1> QED
  BY <1>1, <1>4, <1>5, <1>6 DEF LocksOf

\* The batches o and n become p and m, and the finished requests are where they were.
SameEnds(R, S) == \A q \in Request : S[q].st = "done" <=> R[q].st = "done"
LateStay(R, o, n, p, m) ==
    \A q \in Request : R[q].st = "done" =>
      \/ /\ q \notin ToSet(o.reqs) /\ q \notin ToSet(n.reqs)
         /\ q \notin ToSet(p.reqs) /\ q \notin ToSet(m.reqs)
      \/ /\ q \in ToSet(n.reqs) /\ q \in ToSet(m.reqs) /\ m.loc[q] = n.loc[q]
      \/ /\ q \notin ToSet(n.reqs) /\ q \notin ToSet(m.reqs)
         /\ q \in ToSet(o.reqs) /\ q \in ToSet(p.reqs) /\ p.loc[q] = o.loc[q]
      \/ /\ q \in ToSet(n.reqs) /\ q \notin ToSet(m.reqs)
         /\ q \in ToSet(p.reqs) /\ p.loc[q] = n.loc[q]

\* The late slots do not change.
LEMMA LateSame ==
    ASSUME NEW R, NEW o, NEW n, NEW S, NEW p, NEW m, SameEnds(R, S), LateStay(R, o, n, p, m)
    PROVE  SameLate(LateSlots(R, o, n), LateSlots(S, p, m)) /\ DOMAIN LateSlots(R, o, n) \subseteq Request
<1>1. LateIn(S, p, m) = LateIn(R, o, n)
  BY DEF LateIn, SameEnds, LateStay
<1>2. \A q \in LateIn(R, o, n) : LateSlots(S, p, m)[q] = LateSlots(R, o, n)[q]
  BY <1>1 DEF LateIn, LateSlots, LateStay
<1> QED
  BY <1>1, <1>2 DEF SameLate, LateSlots, LateIn

\* A request keeps its tail.
LEMMA KeepsTail ==
    ASSUME NEW R, NEW rw, NEW S, NEW rx, NEW q, S[q].slen = R[q].slen, S[q].pre = R[q].pre,
           S[q].idx = R[q].idx, rx[S[q].idx] = rw[R[q].idx]
    PROVE  SameTail(R, rw, S, rx, q)
BY DEF SameTail, InTail

\* Two requests without a tail.
LEMMA NoTail ==
    ASSUME NEW R, NEW rw, NEW S, NEW rx, NEW q, R[q].slen \in Nat, S[q].slen \in Nat,
           Len(R[q].pre) \in Nat, Len(S[q].pre) \in Nat,
           R[q].slen <= Len(R[q].pre), S[q].slen <= Len(S[q].pre)
    PROVE  SameTail(R, rw, S, rx, q)
BY DEF SameTail, InTail

\* The requests keep their rows, prefixes and nodes.
SameSeats(R, S) ==
    /\ \A q \in Request : /\ S[q].idx = R[q].idx /\ S[q].slen = R[q].slen
                          /\ S[q].pre = R[q].pre /\ S[q].last = R[q].last
    /\ SameEnds(R, S)

\* Then rows, pins and slots are as they were.
LEMMA QuietParts ==
    ASSUME NEW R, Records(R), NEW rw, NEW f, NEW nr, RowsOf(R, rw, f, nr),
           NEW T, NEW H, LocksOf(T, H, R), NEW o, NEW n, NEW fr,
           Part(T.pos, TailsOf(R, rw, LateSlots(R, o, n)), fr),
           NEW S, Records(S), SameSeats(R, S), NEW G, \A q : q \in G <=> q \in H,
           NEW p, NEW m, LateStay(R, o, n, p, m)
    PROVE  /\ RowsOf(S, rw, f, nr) /\ LocksOf(T, G, S)
           /\ Part(T.pos, TailsOf(S, rw, LateSlots(S, p, m)), fr)
<1>1. \A q \in Request : /\ S[q].idx = R[q].idx /\ S[q].slen = R[q].slen
                         /\ S[q].pre = R[q].pre /\ S[q].last = R[q].last
  BY DEF SameSeats
<1>2. RowsOf(S, rw, f, nr)
  <2>1. rw = [i \in 1..nr |-> rw[i]] /\ \A q \in Rowed(R) : RowOf(R[q], rw[R[q].idx])
    BY DEF RowsOf
  <2>2. \A q \in Rowed(S) : q \in Rowed(R) /\ q \in Request
    BY <1>1 DEF Rowed
  <2>3. \A q \in Rowed(S) : RowOf(S[q], rw[S[q].idx])
    <3> TAKE q \in Rowed(S)
    <3>1. RowOf(R[q], rw[R[q].idx])
      BY <2>1, <2>2
    <3>2. S[q].idx = R[q].idx /\ S[q].slen = R[q].slen /\ S[q].pre = R[q].pre
      BY <1>1, <2>2
    <3> QED
      BY ONLY <3>1, <3>2 DEF RowOf
  <2>4. \A q \in Request : S[q].idx = R[q].idx
    BY <1>1
  <2> QED
    BY ONLY <2>1, <2>3, <2>4, RowsOf(R, rw, f, nr), RowsKept
<1>3. LocksOf(T, G, S)
  <2>1. H \subseteq Request
    BY DEF LocksOf, Tended
  <2>2. \A q \in H : S[q].last = R[q].last /\ S[q].pre = R[q].pre
    BY <1>1, <2>1
  <2> QED
    BY <2>2, LocksSame
<1>4. /\ SameLate(LateSlots(R, o, n), LateSlots(S, p, m))
      /\ DOMAIN LateSlots(R, o, n) \subseteq Request
  BY LateSame DEF SameSeats
<1>5. \A q \in Request : SameTail(R, rw, S, rw, q)
  BY <1>1, KeepsTail
<1> QED
  BY <1>2, <1>3, <1>4, <1>5, TailsSame

-----------------------------------------------------------------------------
(* Steps that leave pools and tree alone *)

\* The number of rows.
LEMMA SizeFacts ==
    ASSUME Types
    PROVE  /\ MaxRunning \in Nat /\ MaxRunning # 0 /\ NumRows \in Nat
           /\ ChunkedSize \in Nat /\ ChunkedSize # 0
BY OverlapAssumption DEF Types, TypesOf, MaxRunning, NumRows, ChunkedSize

\* The requests keep what they have.
LEMMA QuietInv ==
    ASSUME OverlapInv, UNCHANGED <<tree, free, rows, free_rows, server_args>>,
           Types', Lives', Lists', SameSeats(req, req'),
           \A q : q \in HeldBy(req', can_run') <=> q \in HeldBy(req, can_run),
           LateStay(req, Old, cur, Old', cur'), LastSlot(req', rows', cur')
    PROVE  OverlapInv'
<1>1. Records(req) /\ Records(req')
  BY TypesFacts DEF OverlapInv, Types
<1>2. /\ RowsOf(req, rows, free_rows, NumRows) /\ LocksOf(tree, HeldBy(req, can_run), req)
      /\ Part(tree.pos, TailsOf(req, rows, LateSlots(req, Old, cur)), free)
  BY DEF OverlapInv, Rows, Locks, Slots
<1>3. /\ RowsOf(req', rows, free_rows, NumRows) /\ LocksOf(tree, HeldBy(req', can_run'), req')
      /\ Part(tree.pos, TailsOf(req', rows, LateSlots(req', Old', cur')), free)
  BY <1>1, <1>2, QuietParts
<1>4. NumRows' = NumRows
  BY DEF NumRows, MaxRunning
<1>5. Rows' /\ Locks' /\ Slots'
  BY <1>3, <1>4 DEF Rows, Locks, Slots
<1> QED
  BY <1>5 DEF OverlapInv

\* Nothing of this changes.
LEMMA SameInv ==
    ASSUME OverlapInv, UNCHANGED <<tree, free, rows, free_rows, req, running, can_run, chunked_req,
                                   server_args, last_batch, result, cur, loop>>
    PROVE  OverlapInv'
<1>1. Old' = Old /\ NumRows' = NumRows
  BY DEF Old, NumRows, MaxRunning
<1>2. Types' /\ Lives' /\ Lists'
  BY <1>1 DEF OverlapInv, Types, Lives, Lists
<1>3. Rows' /\ Locks' /\ Slots'
  BY <1>1 DEF OverlapInv, Rows, Locks, Slots
<1> QED
  BY <1>2, <1>3 DEF OverlapInv

\* The batches stay.
LEMMA LateStays ==
    ASSUME NEW R, NEW o, NEW n
    PROVE  LateStay(R, o, n, o, n)
BY DEF LateStay

\* What is known before a step.
LEMMA Before ==
    ASSUME OverlapInv
    PROVE  /\ TypesOf(req, chunked_req, server_args, Old, cur)
           /\ LivesOf(req, Old, cur, can_run, running, chunked_req, loop)
           /\ ListsOf(req, running, can_run, chunked_req, server_args, loop)
           /\ RowsOf(req, rows, free_rows, NumRows)
           /\ LocksOf(tree, HeldBy(req, can_run), req)
           /\ Part(tree.pos, TailsOf(req, rows, LateSlots(req, Old, cur)), free)
           /\ LastSlot(req, rows, cur)
BY DEF OverlapInv, Types, Lives, Lists, Rows, Locks, Slots

\* A request that has nothing.
Blank(st, out, rt) ==
    [st |-> st, out |-> out, fill |-> 0, pre |-> <<>>, last |-> NoNode, idx |-> 0,
     slen |-> 0, fut |-> 0, chunks |-> 0, retracted |-> rt]

\* What it is.
LEMMA Emptied ==
    ASSUME NEW st \in {"new", "queued", "in", "done", "gone"}, NEW out \in Nat, NEW rt, NEW r,
           r = Blank(st, out, rt)
    PROVE  IsReq(r) /\ Cleared(r) /\ r.st = st /\ r.out = out /\ r.retracted = rt
<1>1. r = [st |-> st, out |-> out, fill |-> 0, pre |-> <<>>, last |-> NoNode, idx |-> 0,
           slen |-> 0, fut |-> 0, chunks |-> 0, retracted |-> rt]
  BY DEF Blank
<1>2. /\ r.st = st /\ r.out = out /\ r.fill = 0 /\ r.pre = <<>> /\ r.last = NoNode /\ r.idx = 0
      /\ r.slen = 0 /\ r.fut = 0 /\ r.chunks = 0
  BY ONLY <1>1
<1>5. r.retracted = rt
  BY ONLY <1>1
<1>3. 0 \in Nat /\ <<>> \in Seq(Slot)
  OBVIOUS
<1>4. IsReq(r)
  BY <1>1, <1>2, <1>3, <1>5 DEF IsReq
<1> QED
  BY <1>2, <1>4, <1>5 DEF Cleared

\* r2 differs from r in nothing the other parts are about.
SeatKept(r, r2) ==
    /\ r2.idx = r.idx /\ r2.slen = r.slen /\ r2.pre = r.pre /\ r2.last = r.last
    /\ r2.fill = r.fill
    /\ r2.st = "in" <=> r.st = "in"
    /\ r2.st = "done" <=> r.st = "done"

\* One request's record changes, or its part in the batch whose results are due.
LEMMA OneQuiet ==
    ASSUME OverlapInv, NEW q \in Request, NEW r2, IsReq(r2), SeatKept(req[q], r2),
           r2.out = req[q].out \/ q \notin ToSet(can_run), req' = [req EXCEPT ![q] = r2],
           UNCHANGED <<tree, free, rows, free_rows, running, can_run, chunked_req, server_args,
                       cur, loop>>,
           IsBatch(Old'), LateStay(req, Old, cur, Old', cur),
           \A p \in Request : p # q => Use(Old', p) = Use(Old, p),
           LifeOf(q, r2, Use(Old', q), Use(cur, q), Stands(can_run, running, q),
                  Chunked(chunked_req, q), loop)
    PROVE  OverlapInv'
<1>3. /\ TypesOf(req, chunked_req, server_args, Old, cur)
      /\ LivesOf(req, Old, cur, can_run, running, chunked_req, loop)
      /\ ListsOf(req, running, can_run, chunked_req, server_args, loop)
      /\ LastSlot(req, rows, cur)
  BY Before
<1>4. DOMAIN req = Request /\ (\A p \in Request : IsReq(req[p]))
  BY <1>3, TypesFacts DEF TypesOf
<1>6. /\ req'[q] = r2 /\ \A p \in Request : p # q => req'[p] = req[p]
      /\ req' = [p \in Request |-> req'[p]]
  BY <1>4
<1>9. LivesOf(req', Old', cur, can_run, running, chunked_req, loop)
  BY <1>3, <1>6 DEF LivesOf
<1>10. \A p \in Request : IsReq(req'[p])
  BY <1>4, <1>6
<1>11. TypesOf(req', chunked_req, server_args, Old', cur)
  BY <1>3, <1>6, <1>10 DEF TypesOf
<1>12. \A p \in Request : /\ req'[p].fill = req[p].fill /\ req'[p].pre = req[p].pre
                          /\ (req'[p].out = req[p].out \/ p \notin ToSet(can_run))
                          /\ req'[p].last = req[p].last
                          /\ req'[p].idx = req[p].idx /\ req'[p].slen = req[p].slen
                          /\ (req'[p].st = "done" <=> req[p].st = "done")
                          /\ (req'[p].st = "in" <=> req[p].st = "in")
  BY <1>6 DEF SeatKept
<1>13. ToSet(can_run) \subseteq Request
  BY <1>3, ToSetFacts DEF ListsOf
<1>14. ListsOf(req', running, can_run, chunked_req, server_args, loop)
  <2>1. \A p \in ToSet(can_run) : /\ Cut(p, req'[p]) <=> Cut(p, req[p])
                                  /\ req'[p].fill - Len(req'[p].pre) = req[p].fill - Len(req[p].pre)
    BY <1>12, <1>13 DEF Cut, Full
  <2> QED
    BY <1>3, <2>1 DEF ListsOf
<1>15. SameSeats(req, req')
  BY <1>12 DEF SameSeats, SameEnds
<1>16. LastSlot(req', rows, cur)
  BY <1>3, <1>12 DEF LastSlot
<1>17. \A p : p \in HeldBy(req', can_run) <=> p \in HeldBy(req, can_run)
  BY <1>12 DEF HeldBy
<1>19. Types' /\ Lives' /\ Lists' /\ LastSlot(req', rows', cur')
  BY <1>9, <1>11, <1>14, <1>16 DEF Types, Lives, Lists
<1> QED
  BY <1>15, <1>17, <1>19, QuietInv

\* What a request is before a step.
LEMMA LifeNow ==
    ASSUME OverlapInv, NEW q \in Request
    PROVE  /\ LifeTypes(q, req[q], Use(Old, q), Use(cur, q), Stands(can_run, running, q),
                        Chunked(chunked_req, q))
           /\ LifeOf(q, req[q], Use(Old, q), Use(cur, q), Stands(can_run, running, q),
                     Chunked(chunked_req, q), loop)
           /\ IsReq(req[q]) /\ DOMAIN req = Request
           /\ IsBatch(Old) /\ IsBatch(cur)
<1>1. TypesOf(req, chunked_req, server_args, Old, cur)
      /\ LivesOf(req, Old, cur, can_run, running, chunked_req, loop)
  BY Before
<1>2. IsReq(req[q]) /\ IsBatch(Old) /\ IsBatch(cur)
  BY <1>1 DEF TypesOf
<1> QED
  BY <1>1, <1>2, TypesFacts DEF LivesOf

\* _add_request_to_queue
LEMMA ArriveInv == ASSUME NEW q \in Request, OverlapInv, Arrive(q) PROVE OverlapInv'
<1> DEFINE r == req[q]
           r2 == [req[q] EXCEPT !.st = "queued"]
<1>1. /\ loop = "recv" /\ r.st = "new" /\ req' = [req EXCEPT ![q] = r2]
      /\ UNCHANGED <<tree, free, rows, free_rows, running, can_run, chunked_req, server_args,
                     last_batch, result, cur, loop>>
  BY DEF Arrive, pools, queue, flow
<1>2. Old' = Old
  BY <1>1 DEF Old
<1>3. /\ LifeTypes(q, r, Use(Old, q), Use(cur, q), Stands(can_run, running, q), Chunked(chunked_req, q))
      /\ LifeOf(q, r, Use(Old, q), Use(cur, q), Stands(can_run, running, q), Chunked(chunked_req, q), loop)
      /\ IsReq(r) /\ IsBatch(Old)
  BY LifeNow
<1>4. LifeOf(q, r2, Use(Old, q), Use(cur, q), Stands(can_run, running, q), Chunked(chunked_req, q), loop)
  BY <1>1, <1>3, LifeArrives
<1>5. IsReq(r2) /\ SeatKept(r, r2) /\ r2.out = r.out
  <2> HIDE DEF r
  <2> QED
    BY <1>1, <1>3 DEF IsReq, SeatKept, r
<1>6. LateStay(req, Old, cur, Old', cur)
  BY <1>2, LateStays
<1> HIDE DEF r2
<1> QED
  BY <1>1, <1>2, <1>3, <1>4, <1>5, <1>6, OneQuiet

\* abort_request
LEMMA AbortInv == ASSUME NEW q \in Request, OverlapInv, AbortWaiting(q) PROVE OverlapInv'
<1> DEFINE r == req[q]
           r2 == [NewReq EXCEPT !.st = "gone", !.retracted = req[q].retracted]
<1>1. /\ loop = "recv" /\ q \in Waiting /\ req' = [req EXCEPT ![q] = r2]
      /\ UNCHANGED <<tree, free, rows, free_rows, running, can_run, chunked_req, server_args,
                     last_batch, result, cur, loop>>
  BY DEF AbortWaiting, pools, queue, flow
<1>2. Old' = Old
  BY <1>1 DEF Old
<1>3. /\ LifeTypes(q, r, Use(Old, q), Use(cur, q), Stands(can_run, running, q), Chunked(chunked_req, q))
      /\ LifeOf(q, r, Use(Old, q), Use(cur, q), Stands(can_run, running, q), Chunked(chunked_req, q), loop)
      /\ IsReq(r) /\ IsBatch(Old)
  BY LifeNow
<1>4. r.st = "queued" /\ q \notin ToSet(can_run)
  BY <1>1 DEF Waiting
<1>5. Stands(can_run, running, q) = "out" /\ Cleared(r)
  <2>1. Stands(can_run, running, q) # "run"
    BY <1>3, <1>4 DEF LifeOf
  <2>2. Stands(can_run, running, q) = "out"
    BY <1>4, <2>1, StandsFacts
  <2> QED
    BY <1>3, <1>4, <2>2 DEF LifeOf
<1>0. r2 = [NewReq EXCEPT !.st = "gone", !.retracted = req[q].retracted]
  OBVIOUS
<1> HIDE DEF r2
<1>6. r2 = Blank("gone", 0, req[q].retracted)
  BY ONLY <1>0 DEF NewReq, Blank
<1>7. IsReq(r2) /\ Cleared(r2) /\ r2.st = "gone"
  BY <1>6, Emptied
<1>8. LifeOf(q, r2, Use(Old, q), Use(cur, q), Stands(can_run, running, q), Chunked(chunked_req, q), loop)
  BY <1>1, <1>3, <1>4, <1>5, <1>7, LifeGone
<1>9. SeatKept(r, r2)
  BY <1>4, <1>5, <1>7 DEF SeatKept, Cleared
<1>10. LateStay(req, Old, cur, Old', cur)
  BY <1>2, LateStays
<1> QED
  BY <1>1, <1>2, <1>3, <1>4, <1>7, <1>8, <1>9, <1>10, OneQuiet

\* Only the loop, the lists and the batches change.
LEMMA MoveInv ==
    ASSUME OverlapInv, UNCHANGED <<tree, free, rows, free_rows, server_args, req, chunked_req, can_run>>,
           IsBatch(Old'), IsBatch(cur'), Lives', Lists',
           LateStay(req, Old, cur, Old', cur'), LastSlot(req, rows, cur')
    PROVE  OverlapInv'
<1>1. TypesOf(req, chunked_req, server_args, Old, cur)
  BY Before
<1>2. Types'
  BY <1>1 DEF Types, TypesOf
<1>3. SameSeats(req, req')
  BY DEF SameSeats, SameEnds
<1>4. \A q : q \in HeldBy(req', can_run') <=> q \in HeldBy(req, can_run)
  OBVIOUS
<1>5. LastSlot(req', rows', cur')
  OBVIOUS
<1> QED
  BY <1>2, <1>3, <1>4, <1>5, QuietInv

\* get_new_batch_prefill adds no more requests.
LEMMA StopInv == ASSUME OverlapInv, StopAdding PROVE OverlapInv'
<1>1. /\ loop = "admit" /\ loop' = "launch"
      /\ UNCHANGED <<tree, free, rows, free_rows, req, running, can_run, chunked_req, server_args,
                     last_batch, result, cur>>
  BY DEF StopAdding, pools, flow
<1>2. Old' = Old
  BY <1>1 DEF Old
<1>3. /\ TypesOf(req, chunked_req, server_args, Old, cur)
      /\ LivesOf(req, Old, cur, can_run, running, chunked_req, loop)
      /\ ListsOf(req, running, can_run, chunked_req, server_args, loop)
      /\ LastSlot(req, rows, cur)
  BY Before
<1>4. \A q \in Request : LifeTypes(q, req[q], Use(Old, q), Use(cur, q),
                                   Stands(can_run, running, q), Chunked(chunked_req, q))
  BY <1>3, TypesFacts
<1>5. LivesOf(req, Old, cur, can_run, running, chunked_req, "launch")
  <2> SUFFICES ASSUME NEW q \in Request
               PROVE  LifeOf(q, req[q], Use(Old, q), Use(cur, q), Stands(can_run, running, q),
                             Chunked(chunked_req, q), "launch")
    BY DEF LivesOf
  <2>1. LifeOf(q, req[q], Use(Old, q), Use(cur, q), Stands(can_run, running, q),
               Chunked(chunked_req, q), "admit")
    BY <1>1, <1>3 DEF LivesOf
  <2> QED
    BY <1>4, <2>1, LifeStops
<1>6. ListsOf(req, running, can_run, chunked_req, server_args, "launch")
  BY <1>3 DEF ListsOf
<1>7. Lives' /\ Lists'
  BY <1>1, <1>2, <1>5, <1>6 DEF Lives, Lists
<1>8. IsBatch(Old') /\ IsBatch(cur') /\ LateStay(req, Old, cur, Old', cur')
  BY <1>1, <1>2, <1>3, LateStays DEF TypesOf
<1> QED
  BY <1>1, <1>3, <1>7, <1>8, MoveInv

\* An empty list.
LEMMA EmptyList == <<>> \in Seq(Request) /\ Distinct(<<>>) /\ \A x : x \notin ToSet(<<>>)
BY DEF Distinct, ToSet

\* The requests that decode: those of the running batch that are not over.
LEMMA DecodingFacts ==
    ASSUME OverlapInv
    PROVE  /\ Decoding \in Seq(Request) /\ Distinct(Decoding)
           /\ \A q : q \in ToSet(Decoding) <=> q \in ToSet(running) /\ req[q].st # "done"
<1>1. running \in Seq(Request) /\ Distinct(running)
  BY Before DEF ListsOf
<1>2. ToSet(running) \subseteq Request
  BY <1>1, ToSetFacts
<1>3. /\ Decoding \in Seq(Request) /\ Distinct(Decoding)
      /\ \A q : q \in ToSet(Decoding) <=> q \in ToSet(running) /\ q \in NotDone
  BY <1>1, FilterFacts DEF Decoding, Unfinished
<1> QED
  BY <1>2, <1>3 DEF NotDone

\* No prefill and nothing to decode.
LEMMA NothingInv == ASSUME OverlapInv, FlowInv, NothingToRun PROVE OverlapInv'
<1>1. /\ loop = "launch" /\ can_run = <<>> /\ Unfinished(running) = <<>> /\ running' = <<>>
      /\ cur' = NoBatch /\ loop' = "process"
      /\ UNCHANGED <<tree, free, rows, free_rows, req, can_run, chunked_req, server_args,
                     last_batch, result>>
  BY DEF NothingToRun, pools
<1>2. Old' = Old
  BY <1>1 DEF Old
<1>3. /\ TypesOf(req, chunked_req, server_args, Old, cur)
      /\ LivesOf(req, Old, cur, can_run, running, chunked_req, loop)
      /\ ListsOf(req, running, can_run, chunked_req, server_args, loop)
  BY Before
<1>4. \A q \in Request : LifeTypes(q, req[q], Use(Old, q), Use(cur, q),
                                   Stands(can_run, running, q), Chunked(chunked_req, q))
  BY <1>3, TypesFacts
<1>5. cur = NoBatch
  BY <1>1 DEF FlowInv, AtMostTwo
<1>6. \A q \in ToSet(running) : req[q].st = "done"
  <2>1. Decoding = <<>>
    BY <1>1 DEF Decoding
  <2> QED
    BY <2>1, DecodingFacts, EmptyList
<1>7. LivesOf(req, Old, cur, <<>>, <<>>, chunked_req, "process")
  <2> SUFFICES ASSUME NEW q \in Request
               PROVE  LifeOf(q, req[q], Use(Old, q), Use(cur, q), Stands(<<>>, <<>>, q),
                             Chunked(chunked_req, q), "process")
    BY DEF LivesOf
  <2>1. LifeOf(q, req[q], Use(Old, q), Use(cur, q), Stands(<<>>, running, q),
               Chunked(chunked_req, q), "launch")
        /\ LifeTypes(q, req[q], Use(Old, q), Use(cur, q), Stands(<<>>, running, q),
                     Chunked(chunked_req, q))
    BY <1>1, <1>3, <1>4 DEF LivesOf
  <2>2. Stands(<<>>, running, q) # "can"
    BY StandsFacts, EmptyList
  <2>3. Stands(<<>>, <<>>, q) = IF req[q].st = "done" THEN "out" ELSE Stands(<<>>, running, q)
    BY <1>6, EmptyList DEF Stands
  <2> QED
    BY <2>1, <2>2, <2>3, LifeStays
<1>8. ListsOf(req, <<>>, <<>>, chunked_req, server_args, "process")
  BY EmptyList DEF ListsOf
<1>9. Lives' /\ Lists'
  BY <1>1, <1>2, <1>5, <1>7, <1>8 DEF Lives, Lists
<1>10. IsBatch(Old') /\ IsBatch(cur') /\ LateStay(req, Old, cur, Old', cur')
  BY <1>1, <1>2, <1>3, <1>5, LateStays DEF TypesOf
<1>11. LastSlot(req, rows, cur')
  BY <1>1, NoBatchFacts DEF LastSlot
<1> QED
  BY <1>1, <1>9, <1>10, <1>11, MoveInv

\* resolve_last_batch_result: the result is the last batch's.
LEMMA ResolveInv == ASSUME OverlapInv, FlowInv, ResolveLastBatchResult PROVE OverlapInv'
<1>1. /\ loop = "process" /\ last_batch # NoBatch /\ loop' = "apply"
      /\ result' = Head(result_queue)
      /\ UNCHANGED <<tree, free, rows, free_rows, req, can_run, running, chunked_req, server_args,
                     last_batch, cur>>
  BY DEF ResolveLastBatchResult, pools, queue
<1>2. Head(result_queue) = last_batch
  BY <1>1, FlowImplies DEF ResultIsLastBatch
<1>3. Old' = Old
  BY <1>1, <1>2 DEF Old
<1>4. /\ TypesOf(req, chunked_req, server_args, Old, cur)
      /\ LivesOf(req, Old, cur, can_run, running, chunked_req, loop)
      /\ ListsOf(req, running, can_run, chunked_req, server_args, loop)
      /\ LastSlot(req, rows, cur)
  BY Before
<1>5. \A q \in Request : LifeTypes(q, req[q], Use(Old, q), Use(cur, q),
                                   Stands(can_run, running, q), Chunked(chunked_req, q))
  BY <1>4, TypesFacts
<1>6. LivesOf(req, Old, cur, can_run, running, chunked_req, "apply")
  <2> SUFFICES ASSUME NEW q \in Request
               PROVE  LifeOf(q, req[q], Use(Old, q), Use(cur, q), Stands(can_run, running, q),
                             Chunked(chunked_req, q), "apply")
    BY DEF LivesOf
  <2>1. LifeOf(q, req[q], Use(Old, q), Use(cur, q), Stands(can_run, running, q),
               Chunked(chunked_req, q), "process")
    BY <1>1, <1>4 DEF LivesOf
  <2> QED
    BY <1>5, <2>1, LifeResolves
<1>7. ListsOf(req, running, can_run, chunked_req, server_args, "apply")
  BY <1>4 DEF ListsOf
<1>8. Lives' /\ Lists'
  BY <1>1, <1>3, <1>6, <1>7 DEF Lives, Lists
<1>9. IsBatch(Old') /\ IsBatch(cur') /\ LateStay(req, Old, cur, Old', cur')
  BY <1>1, <1>3, <1>4, LateStays DEF TypesOf
<1> QED
  BY <1>1, <1>4, <1>8, <1>9, MoveInv

\* The end of the iteration.
LEMMA EndInv == ASSUME OverlapInv, EndIteration PROVE OverlapInv'
<1>1. /\ (loop = "process" /\ last_batch = NoBatch) \/ (loop = "apply" /\ result.reqs = <<>>)
      /\ last_batch' = cur /\ cur' = NoBatch /\ loop' = "recv"
      /\ UNCHANGED <<tree, free, rows, free_rows, req, can_run, running, chunked_req, server_args>>
  BY DEF EndIteration, pools, queue
<1>2. Old' = cur
  BY <1>1 DEF Old
<1>3. Old.reqs = <<>>
  BY <1>1 DEF Old, NoBatch
<1>4. /\ TypesOf(req, chunked_req, server_args, Old, cur)
      /\ LivesOf(req, Old, cur, can_run, running, chunked_req, loop)
      /\ ListsOf(req, running, can_run, chunked_req, server_args, loop)
  BY Before
<1>5. \A q \in Request : LifeTypes(q, req[q], Use(Old, q), Use(cur, q),
                                   Stands(can_run, running, q), Chunked(chunked_req, q))
  BY <1>4, TypesFacts
<1>6. \A q : Use(Old, q) = "none" /\ q \notin ToSet(Old.reqs)
  BY <1>3, EmptyList DEF Use
<1>7. \A q : Use(NoBatch, q) = "none" /\ q \notin ToSet(NoBatch.reqs)
  BY NoBatchFacts
<1>8. LivesOf(req, cur, NoBatch, can_run, running, chunked_req, "recv")
  <2> SUFFICES ASSUME NEW q \in Request
               PROVE  LifeOf(q, req[q], Use(cur, q), Use(NoBatch, q), Stands(can_run, running, q),
                             Chunked(chunked_req, q), "recv")
    BY DEF LivesOf
  <2>1. LifeOf(q, req[q], Use(Old, q), Use(cur, q), Stands(can_run, running, q),
               Chunked(chunked_req, q), loop) /\ loop \in {"process", "apply"}
    BY <1>1, <1>4 DEF LivesOf
  <2> QED
    BY <1>5, <1>6, <1>7, <2>1, LifeEnds
<1>9. ListsOf(req, running, can_run, chunked_req, server_args, "recv")
  BY <1>4 DEF ListsOf
<1>10. Lives' /\ Lists'
  BY <1>1, <1>2, <1>8, <1>9 DEF Lives, Lists
<1>11. IsBatch(Old') /\ IsBatch(cur')
  BY <1>1, <1>2, <1>4, NoBatchFacts DEF TypesOf
<1>12. LateStay(req, Old, cur, Old', cur')
  BY <1>1, <1>2, <1>6, <1>7 DEF LateStay
<1>13. LastSlot(req, rows, cur')
  BY <1>1, <1>7 DEF LastSlot
<1> QED
  BY <1>1, <1>10, <1>11, <1>12, <1>13, MoveInv

\* A slot that nobody owns.
LEMMA AllFree ==
    ASSUME NEW t, \A h : h \notin DOMAIN t
    PROVE  Part(EmptyTree.pos, t, [s \in Slot |-> 1])
<1>1. DOMAIN EmptyTree.pos = {}
  BY DEF EmptyTree
<1>2. Apart(EmptyTree.pos, t) /\ \A s : ~Owned(EmptyTree.pos, t, s)
  BY <1>1 DEF Apart, Owned
<1>3. [s \in Slot |-> 1] \in [Slot -> {0, 1}]
  OBVIOUS
<1> QED
  BY <1>2, <1>3 DEF Part

\* No tails.
LEMMA NoTails ==
    ASSUME NEW R, \A q \in Request : Cleared(R[q]), NEW rw, NEW l, \A q : q \notin DOMAIN l
    PROVE  \A h : h \notin DOMAIN TailsOf(R, rw, l)
<1>1. Len(<<>>) = 0
  OBVIOUS
<1>2. \A q \in Request : \A i : ~InTail(R[q], i)
  <2> TAKE q \in Request
  <2> TAKE i
  <2>1. R[q].slen = 0 /\ Len(R[q].pre) = 0
    BY <1>1 DEF Cleared
  <2> QED
    BY <2>1 DEF InTail
<1> QED
  BY <1>2, TailsFacts DEF IsTail

\* All rows are free.
LEMMA FreshRows ==
    ASSUME NEW n \in Nat
    PROVE  LET f == [i \in 1..n |-> i] IN f \in Seq(1..n) /\ Distinct(f)
<1> DEFINE f == [i \in 1..n |-> i]
<1>1. f \in [1..n -> 1..n] /\ DOMAIN f = 1..n /\ \A i \in 1..n : f[i] = i
  OBVIOUS
<1>2. f \in Seq(1..n)
  BY <1>1, SeqDef
<1> HIDE DEF f
<1>3. Distinct(f)
  BY <1>1 DEF Distinct
<1> QED
  BY <1>2, <1>3 DEF f

\* Nobody pins anything.
LEMMA NoLocks ==
    ASSUME NEW H, \A q : q \notin H, NEW R
    PROVE  LocksOf(EmptyTree, H, R)
<1>1. TreeOK(EmptyTree) /\ Pins(EmptyTree, H, LastOf(R)) /\ LockedBy(EmptyTree, H, LastOf(R))
  BY EmptyTreeOK
<1>2. H = {}
  OBVIOUS
<1>3. IsFiniteSet(H)
  BY <1>2, FS_EmptySet
<1> QED
  BY <1>1, <1>2, <1>3 DEF LocksOf, Tended

\* flush_cache, when nothing is in flight: no request has anything then.
LEMMA FlushInv ==
    ASSUME OverlapInv, FlowInv, FlushCache, ~FlushInFlight
    PROVE  OverlapInv'
<1>1. /\ loop = "recv" /\ Waiting = {} /\ running = <<>> /\ last_batch = NoBatch /\ chunked_req = NoReq
      /\ tree' = EmptyTree /\ free' = [s \in Slot |-> 1]
      /\ free_rows' = [i \in 1..NumRows |-> i]
      /\ cur' = NoBatch /\ last_batch' = NoBatch
      /\ UNCHANGED <<rows, req, can_run, running, chunked_req, server_args, result, loop>>
  BY DEF FlushCache, queue
<1>2. cur = NoBatch
  BY <1>1 DEF FlowInv, AtMostTwo
<1>3. Old' = Old /\ cur' = cur /\ NumRows' = NumRows /\ Old = NoBatch
  BY <1>1, <1>2 DEF Old, NumRows, MaxRunning
<1>4. /\ TypesOf(req, chunked_req, server_args, Old, cur)
      /\ LivesOf(req, Old, cur, can_run, running, chunked_req, loop)
      /\ ListsOf(req, running, can_run, chunked_req, server_args, loop)
      /\ RowsOf(req, rows, free_rows, NumRows)
  BY Before
<1>5. Types' /\ Lives' /\ Lists'
  BY <1>1, <1>3, <1>4 DEF Types, Lives, Lists
<1>6. ASSUME NEW q \in Request PROVE Cleared(req[q]) /\ req[q].st # "in" /\ q \notin ToSet(can_run)
  <2>1. /\ LifeTypes(q, req[q], Use(Old, q), Use(cur, q), Stands(can_run, running, q), Chunked(chunked_req, q))
        /\ LifeOf(q, req[q], Use(Old, q), Use(cur, q), Stands(can_run, running, q), Chunked(chunked_req, q), loop)
    BY LifeNow
  <2>2. Use(Old, q) = "none" /\ Use(cur, q) = "none"
    BY <1>2, <1>3, NoBatchFacts
  <2>3. Stands(can_run, running, q) # "can" /\ q \notin ToSet(can_run)
    BY <1>1, <2>1, StandsFacts DEF LifeOf
  <2>4. Stands(can_run, running, q) = "out"
    BY <1>1, <2>3, EmptyList, StandsFacts
  <2>5. req[q].st # "in"
    BY <2>1, <2>2, <2>4 DEF LifeOf
  <2>6. req[q].st \in {"new", "queued", "done", "gone"}
    BY <2>1, <2>5 DEF LifeTypes, IsReq
  <2> QED
    BY <2>1, <2>3, <2>4, <2>5, <2>6 DEF LifeOf
<1>7. \A q : q \notin Rowed(req)
  BY <1>6 DEF Rowed, Cleared
<1>8. NumRows \in Nat
  BY SizeFacts DEF OverlapInv
<1>9. Rows'
  <2>1. free_rows' \in Seq(1..NumRows) /\ Distinct(free_rows')
    BY <1>1, <1>8, FreshRows
  <2>2. rows = [i \in 1..NumRows |-> rows[i]]
    BY <1>4 DEF RowsOf
  <2>3. RowsOf(req, rows, free_rows', NumRows)
    BY <1>7, <2>1, <2>2 DEF RowsOf
  <2> QED
    BY <1>1, <1>3, <2>3 DEF Rows
<1>10. Locks'
  <2>1. \A q : q \notin HeldBy(req, can_run)
    BY <1>6 DEF HeldBy
  <2> QED
    BY <1>1, <2>1, NoLocks DEF Locks
<1>11. Slots'
  <2>1. \A q : q \notin DOMAIN LateSlots(req, Old, cur)
    BY <1>2, <1>3, NoBatchFacts DEF LateSlots, LateIn
  <2>2. \A h : h \notin DOMAIN TailsOf(req, rows, LateSlots(req, Old, cur))
    BY <1>6, <2>1, NoTails
  <2>3. Part(EmptyTree.pos, TailsOf(req, rows, LateSlots(req, Old, cur)), [s \in Slot |-> 1])
    BY <2>2, AllFree
  <2>4. LastSlot(req, rows, cur)
    BY <1>2, NoBatchFacts DEF LastSlot
  <2> QED
    BY <1>1, <1>3, <2>3, <2>4 DEF Slots
<1> QED
  BY <1>5, <1>9, <1>10, <1>11 DEF OverlapInv

\* The first state.
LEMMA InitInv == Init => OverlapInv
<1> SUFFICES ASSUME Init PROVE OverlapInv
  OBVIOUS
<1>1. /\ server_args \in ServerArgs /\ tree = EmptyTree /\ free = [s \in Slot |-> 1]
      /\ rows = [i \in 1..NumRows |-> <<>>] /\ free_rows = [i \in 1..NumRows |-> i]
      /\ req = [q \in Request |-> NewReq] /\ running = <<>>
      /\ chunked_req = NoReq /\ can_run = <<>> /\ loop = "recv"
      /\ cur = NoBatch /\ last_batch = NoBatch /\ result = NoBatch
  BY DEF Init
<1>2. Old = NoBatch
  BY <1>1 DEF Old
<1>4. IsReq(NewReq) /\ Cleared(NewReq) /\ NewReq.st = "new" /\ NewReq.out = 0
  <2>1. \A r : r = NewReq => IsReq(r) /\ Cleared(r) /\ r.st = "new" /\ r.out = 0
    <3> TAKE r
    <3> HAVE r = NewReq
    <3>1. r = [st |-> "new", out |-> 0, fill |-> 0, pre |-> <<>>, last |-> NoNode, idx |-> 0,
               slen |-> 0, fut |-> 0, chunks |-> 0, retracted |-> FALSE]
      BY DEF NewReq
    <3>2. /\ r.st = "new" /\ r.out = 0 /\ r.fill = 0 /\ r.pre = <<>> /\ r.last = NoNode
          /\ r.idx = 0 /\ r.slen = 0 /\ r.fut = 0 /\ r.chunks = 0
      BY ONLY <3>1
    <3>3. r.retracted = FALSE
      BY ONLY <3>1
    <3>4. 0 \in Nat /\ <<>> \in Seq(Slot)
      OBVIOUS
    <3>5. r = [st |-> r.st, out |-> r.out, fill |-> r.fill, pre |-> r.pre, last |-> r.last,
               idx |-> r.idx, slen |-> r.slen, fut |-> r.fut, chunks |-> r.chunks,
               retracted |-> r.retracted]
      BY ONLY <3>1, <3>2, <3>3
    <3> QED
      BY <3>2, <3>4, <3>5 DEF IsReq, Cleared
  <2> QED
    BY <2>1
<1>5. \A q \in Request : /\ req[q] = NewReq /\ IsReq(req[q]) /\ Cleared(req[q])
                         /\ req[q].st = "new" /\ req[q].out = 0
  BY <1>1, <1>4
<1>6. Types
  <2>1. req = [q \in Request |-> req[q]]
    BY <1>1
  <2> QED
    BY <1>1, <1>2, <1>5, <2>1, NoBatchFacts DEF Types, TypesOf
<1>7. Lives
  <2> SUFFICES ASSUME NEW q \in Request
               PROVE  LifeOf(q, req[q], "none", "none", "out", "no", "recv")
    <3>1. \A q \in Request : Use(Old, q) = "none" /\ Use(cur, q) = "none"
      BY <1>1, <1>2, NoBatchFacts
    <3>2. \A q \in Request : Stands(can_run, running, q) = "out" /\ Chunked(chunked_req, q) = "no"
      BY <1>1, EmptyList, OverlapAssumption DEF Stands, Chunked
    <3> QED
      BY <1>1, <3>1, <3>2 DEF Lives, LivesOf
  <2> QED
    BY <1>5 DEF LifeOf
<1>8. Lists
  BY <1>1, EmptyList DEF Lists, ListsOf
<1>9. NumRows \in Nat
  BY <1>6, SizeFacts
<1>10. \A q : q \notin Rowed(req)
  BY <1>5 DEF Rowed, Cleared
<1>11. Rows
  <2>1. free_rows \in Seq(1..NumRows) /\ Distinct(free_rows)
    BY <1>1, <1>9, FreshRows
  <2>2. rows = [i \in 1..NumRows |-> rows[i]]
    BY <1>1
  <2> QED
    BY <1>10, <2>1, <2>2 DEF Rows, RowsOf
<1>12. Locks
  <2>1. \A q : q \notin HeldBy(req, can_run)
    BY <1>1, <1>5, EmptyList DEF HeldBy
  <2> QED
    BY <1>1, <2>1, NoLocks DEF Locks
<1>13. Slots
  <2>1. \A q : q \notin DOMAIN LateSlots(req, Old, cur)
    BY <1>1, <1>2, NoBatchFacts DEF LateSlots, LateIn
  <2>2. \A h : h \notin DOMAIN TailsOf(req, rows, LateSlots(req, Old, cur))
    BY <1>5, <2>1, NoTails
  <2>3. Part(EmptyTree.pos, TailsOf(req, rows, LateSlots(req, Old, cur)), [s \in Slot |-> 1])
    BY <2>2, AllFree
  <2>4. LastSlot(req, rows, cur)
    BY <1>1, NoBatchFacts DEF LastSlot
  <2> QED
    BY <1>1, <2>3, <2>4 DEF Slots
<1> QED
  BY <1>6, <1>7, <1>8, <1>11, <1>12, <1>13 DEF OverlapInv

-----------------------------------------------------------------------------
(* process_batch_result *)

\* The batch whose results are applied, and what is left of it.
LEMMA ResultFacts ==
    ASSUME OverlapInv, loop = "apply", loop' = loop, result.reqs # <<>>,
           result' = [result EXCEPT !.reqs = Tail(@)], NEW q, q = Head(result.reqs)
    PROVE  /\ Old = result /\ q \in Request /\ q \in ToSet(Old.reqs)
           /\ Use(Old, q) = result.mode /\ result.mode \in {"extend", "decode"}
           /\ result.mode = "decode" => result.loc[q] = <<result.loc[q][1]>>
           /\ IsBatch(Old') /\ q \notin ToSet(Old'.reqs) /\ Use(Old', q) = "none"
           /\ \A p \in Request : p # q => /\ Use(Old', p) = Use(Old, p)
                                          /\ p \in ToSet(Old'.reqs) <=> p \in ToSet(Old.reqs)
           /\ Old'.loc = Old.loc
<1>1. Old = result /\ Old' = result' /\ IsBatch(result)
  BY Before DEF Old, TypesOf
<1>2. /\ result.reqs \in Seq(Request) /\ Distinct(result.reqs)
      /\ result.mode \in {"extend", "decode"}
      /\ result = [mode |-> result.mode, reqs |-> result.reqs, loc |-> result.loc,
                   len |-> result.len, idx |-> result.idx, fut |-> result.fut, ct |-> result.ct]
      /\ result.mode = "decode" => \A p \in ToSet(result.reqs) : result.loc[p] = <<result.loc[p][1]>>
  BY <1>1 DEF IsBatch
<1> DEFINE t == Tail(result.reqs)
<1>3. /\ q \in Request /\ q \in ToSet(result.reqs) /\ t \in Seq(Request) /\ Distinct(t)
      /\ \A x : x \in ToSet(t) <=> x \in ToSet(result.reqs) /\ x # q
  BY <1>2, TailSet
<1>4. result' = [result EXCEPT !.reqs = t]
  OBVIOUS
<1> HIDE DEF t
<1>5. /\ result'.mode = result.mode /\ result'.reqs = t /\ result'.loc = result.loc
      /\ result'.len = result.len /\ result'.idx = result.idx /\ result'.fut = result.fut
      /\ result'.ct = result.ct
      /\ result' = [mode |-> result.mode, reqs |-> t, loc |-> result.loc,
                    len |-> result.len, idx |-> result.idx, fut |-> result.fut, ct |-> result.ct]
  BY ONLY <1>2, <1>4
<1>6. IsBatch(result')
  BY <1>2, <1>3, <1>5 DEF IsBatch
<1>7. /\ Use(result, q) = result.mode /\ Use(result', q) = "none" /\ q \notin ToSet(result'.reqs)
      /\ \A p \in Request : p # q => /\ Use(result', p) = Use(result, p)
                                     /\ p \in ToSet(result'.reqs) <=> p \in ToSet(result.reqs)
  BY <1>3, <1>5 DEF Use
<1> QED
  BY <1>1, <1>2, <1>3, <1>5, <1>6, <1>7

\* Only the result of q is applied, and q is not over.
LEMMA ResultStay ==
    ASSUME NEW R, NEW o, NEW p, NEW n, NEW q \in Request, R[q].st # "done", p.loc = o.loc,
           \A x \in Request : x # q => (x \in ToSet(p.reqs) <=> x \in ToSet(o.reqs))
    PROVE  LateStay(R, o, n, p, n)
BY DEF LateStay

\* The lists, when no request of can_run changes.
LEMMA ListsSame ==
    ASSUME NEW R, NEW rn, NEW cr, NEW ch, NEW sa, NEW lp, ListsOf(R, rn, cr, ch, sa, lp), NEW S,
           \A q \in ToSet(cr) : S[q] = R[q]
    PROVE  ListsOf(S, rn, cr, ch, sa, lp)
BY DEF ListsOf

\* One request's record changes.
LEMMA OneChanged ==
    ASSUME NEW R, NEW ch, NEW sa, NEW o, NEW n, TypesOf(R, ch, sa, o, n), NEW q \in Request,
           NEW r2, IsReq(r2), NEW p, IsBatch(p)
    PROVE  LET S == [R EXCEPT ![q] = r2]
           IN  /\ TypesOf(S, ch, sa, p, n) /\ S[q] = r2
               /\ \A x \in Request : x # q => S[x] = R[x]
               /\ Records(R) /\ Records(S)
<1> DEFINE S == [R EXCEPT ![q] = r2]
<1>1. DOMAIN R = Request
  BY TypesFacts
<1>2. S[q] = r2 /\ (\A x \in Request : x # q => S[x] = R[x]) /\ S = [x \in Request |-> S[x]]
  BY <1>1
<1> HIDE DEF S
<1>3. TypesOf(S, ch, sa, p, n)
  BY <1>2 DEF TypesOf
<1>4. Records(R) /\ Records(S)
  BY <1>3, TypesFacts
<1> QED
  BY <1>2, <1>3, <1>4 DEF S

\* A result that changes nothing but counters of the request.
LEMMA QuietResult ==
    ASSUME OverlapInv, loop = "apply", loop' = loop, result.reqs # <<>>,
           result' = [result EXCEPT !.reqs = Tail(@)], NEW q, q = Head(result.reqs),
           req[q].st # "done", NEW r2, IsReq(r2), SeatKept(req[q], r2),
           r2.out = req[q].out \/ q \notin ToSet(can_run), req' = [req EXCEPT ![q] = r2],
           UNCHANGED <<tree, free, rows, free_rows, running, can_run, chunked_req, server_args, cur>>,
           LifeOf(q, r2, "none", Use(cur, q), Stands(can_run, running, q),
                  Chunked(chunked_req, q), "apply")
    PROVE  OverlapInv'
<1>1. /\ q \in Request /\ IsBatch(Old') /\ Use(Old', q) = "none" /\ Old'.loc = Old.loc
      /\ \A p \in Request : p # q => /\ Use(Old', p) = Use(Old, p)
                                     /\ p \in ToSet(Old'.reqs) <=> p \in ToSet(Old.reqs)
  BY ResultFacts
<1>2. LateStay(req, Old, cur, Old', cur)
  BY <1>1, ResultStay
<1> QED
  BY <1>1, <1>2, OneQuiet

\* A request's late slot is that of the next batch, if the request is in it.
LEMMA LateFacts ==
    ASSUME NEW R, NEW o, NEW n
    PROVE  LET l == LateSlots(R, o, n)
           IN  /\ DOMAIN l \subseteq Request
               /\ \A q : q \in DOMAIN l <=> /\ q \in Request /\ R[q].st = "done"
                                            /\ q \in ToSet(o.reqs) \/ q \in ToSet(n.reqs)
               /\ \A q \in DOMAIN l : q \in ToSet(n.reqs) => l[q] = n.loc[q][1]
               /\ \A q \in DOMAIN l : q \notin ToSet(n.reqs) => l[q] = o.loc[q][1]
BY DEF LateSlots, LateIn

\* Request q is over, with the first f tokens cached; the next batch n may have it
\* once more, and then decodes into the last slot of its row.
Ending(R, rw, o, n, p, S, q, f) ==
    /\ Records(R) /\ Records(S) /\ q \in Request
    /\ R[q].st = "in" /\ S[q].st = "done" /\ Cleared(S[q])
    /\ \A x \in Request : x # q => S[x] = R[x]
    /\ q \notin ToSet(p.reqs) /\ p.loc = o.loc
    /\ \A x \in Request : x # q => (x \in ToSet(p.reqs) <=> x \in ToSet(o.reqs))
    /\ f \in Nat /\ f <= R[q].slen /\ Len(R[q].pre) <= f
    /\ rw[R[q].idx] \in Seq(Slot) /\ Len(rw[R[q].idx]) = R[q].slen
    /\ \/ q \notin ToSet(n.reqs) /\ R[q].slen = f
       \/ /\ q \in ToSet(n.reqs) /\ R[q].slen = f + 1
          /\ n.loc[q][1] = rw[R[q].idx][R[q].slen]

\* The late slots l become k: q may have one now.
EndLate(l, k, n, q) ==
    /\ DOMAIN l \subseteq Request /\ q \notin DOMAIN l
    /\ q \notin ToSet(n.reqs) => SameLate(l, k)
    /\ q \in ToSet(n.reqs) => /\ DOMAIN k = DOMAIN l \cup {q} /\ k[q] = n.loc[q][1]
                              /\ \A x \in DOMAIN l : k[x] = l[x]

\* The late slots then.
LEMMA EndingLate ==
    ASSUME NEW R, NEW rw, NEW o, NEW n, NEW p, NEW S, NEW q, NEW f,
           Ending(R, rw, o, n, p, S, q, f)
    PROVE  EndLate(LateSlots(R, o, n), LateSlots(S, p, n), n, q)
<1> DEFINE l == LateSlots(R, o, n)
           k == LateSlots(S, p, n)
<1>1. /\ DOMAIN l \subseteq Request
      /\ \A x : x \in DOMAIN l <=> /\ x \in Request /\ R[x].st = "done"
                                   /\ x \in ToSet(o.reqs) \/ x \in ToSet(n.reqs)
      /\ \A x \in DOMAIN l : x \in ToSet(n.reqs) => l[x] = n.loc[x][1]
      /\ \A x \in DOMAIN l : x \notin ToSet(n.reqs) => l[x] = o.loc[x][1]
  BY LateFacts
<1>2. /\ DOMAIN k \subseteq Request
      /\ \A x : x \in DOMAIN k <=> /\ x \in Request /\ S[x].st = "done"
                                   /\ x \in ToSet(p.reqs) \/ x \in ToSet(n.reqs)
      /\ \A x \in DOMAIN k : x \in ToSet(n.reqs) => k[x] = n.loc[x][1]
      /\ \A x \in DOMAIN k : x \notin ToSet(n.reqs) => k[x] = p.loc[x][1]
  BY LateFacts
<1> HIDE DEF l, k
<1>3. /\ q \in Request /\ R[q].st = "in" /\ S[q].st = "done"
      /\ \A x \in Request : x # q => S[x] = R[x]
      /\ q \notin ToSet(p.reqs) /\ p.loc = o.loc
      /\ \A x \in Request : x # q => (x \in ToSet(p.reqs) <=> x \in ToSet(o.reqs))
  BY DEF Ending
<1>4. q \notin DOMAIN l /\ (q \in DOMAIN k <=> q \in ToSet(n.reqs))
  BY <1>1, <1>2, <1>3
<1>5. \A x : x # q => (x \in DOMAIN k <=> x \in DOMAIN l)
  BY <1>1, <1>2, <1>3
<1>6. \A x \in DOMAIN l : x # q /\ k[x] = l[x]
  BY <1>1, <1>2, <1>3, <1>4, <1>5
<1>7. q \notin ToSet(n.reqs) => SameLate(l, k)
  BY <1>4, <1>5, <1>6 DEF SameLate
<1>8. q \in ToSet(n.reqs) => DOMAIN k = DOMAIN l \cup {q} /\ k[q] = n.loc[q][1]
  BY <1>2, <1>4, <1>5
<1> QED
  BY <1>1, <1>4, <1>6, <1>7, <1>8 DEF l, k, EndLate

\* What becomes of the tails.
LEMMA EndingTails ==
    ASSUME NEW R, NEW rw, NEW o, NEW n, NEW p, NEW S, NEW q, NEW f,
           Ending(R, rw, o, n, p, S, q, f)
    PROVE  \E v : /\ Loses(TailsOf(R, rw, LateSlots(R, o, n)), q, rw[R[q].idx], Len(R[q].pre), f, v)
                  /\ \A P, fr : Part(P, v, fr) => Part(P, TailsOf(S, rw, LateSlots(S, p, n)), fr)
<1> DEFINE l == LateSlots(R, o, n)
           k == LateSlots(S, p, n)
           w == rw[R[q].idx]
<1>1. /\ DOMAIN l \subseteq Request /\ q \notin DOMAIN l
      /\ q \notin ToSet(n.reqs) => SameLate(l, k)
      /\ q \in ToSet(n.reqs) => /\ DOMAIN k = DOMAIN l \cup {q} /\ k[q] = n.loc[q][1]
                                /\ \A x \in DOMAIN l : k[x] = l[x]
  <2>1. EndLate(l, k, n, q)
    BY EndingLate
  <2> HIDE DEF l, k
  <2> QED
    BY <2>1 DEF EndLate
<1> HIDE DEF l, k
<1>2. /\ Records(R) /\ Records(S) /\ q \in Request /\ f \in Nat /\ f <= R[q].slen
      /\ Len(R[q].pre) <= f /\ R[q].slen \in Nat /\ Len(R[q].pre) \in Nat
      /\ w \in Seq(Slot) /\ Len(w) = R[q].slen
      /\ S[q].slen = 0 /\ Len(S[q].pre) = 0
      /\ \A x \in Request : x # q => S[x] = R[x]
  <2>1. /\ Records(R) /\ Records(S) /\ q \in Request /\ f \in Nat /\ f <= R[q].slen
        /\ Len(R[q].pre) <= f /\ w \in Seq(Slot) /\ Len(w) = R[q].slen
        /\ Cleared(S[q]) /\ \A x \in Request : x # q => S[x] = R[x]
    BY DEF Ending
  <2>2. Len(<<>>) = 0
    OBVIOUS
  <2>3. S[q].slen = 0 /\ Len(S[q].pre) = 0
    BY <2>1, <2>2 DEF Cleared
  <2> QED
    BY <2>1, <2>3 DEF Records
<1>3. \A x \in Request : x # q => SameTail(R, rw, S, rw, x)
  BY <1>2, KeepsTail
<1>4. \A i : ~InTail(S[q], i)
  BY <1>2 DEF InTail
<1>5. CASE q \notin ToSet(n.reqs)
  <2>1. R[q].slen = f
    BY <1>5 DEF Ending
  <2>2. RestOfTail(R, rw, S, rw, q, f)
    BY <1>2, <1>4, <2>1 DEF RestOfTail, InTail
  <2>3. Loses(TailsOf(R, rw, l), q, w, Len(R[q].pre), f, TailsOf(S, rw, k))
    BY <1>1, <1>2, <1>3, <1>5, <2>2, LoseTail
  <2> QED
    BY <2>3 DEF l, k
<1>6. CASE q \in ToSet(n.reqs)
  <2>1. R[q].slen = f + 1 /\ n.loc[q][1] = w[f + 1]
    BY <1>6 DEF Ending
  <2> DEFINE pre0 == SubSeq(w, 1, f)
             r0 == [pre |-> pre0, idx |-> R[q].idx, slen |-> R[q].slen]
             S0 == [x \in Request |-> IF x = q THEN r0 ELSE R[x]]
  <2>2. Len(pre0) = f
    BY <1>2
  <2> HIDE DEF pre0
  <2>3. r0.pre = pre0 /\ r0.idx = R[q].idx /\ r0.slen = R[q].slen
    OBVIOUS
  <2> HIDE DEF r0
  <2>4. S0[q] = r0 /\ \A x \in Request : x # q => S0[x] = R[x]
    BY <1>2
  <2> HIDE DEF S0
  <2>5. Records(S0)
    BY <1>2, <2>2, <2>3, <2>4 DEF Records
  <2>6. \A x \in Request : x # q => SameTail(R, rw, S0, rw, x) /\ SameTail(S0, rw, S, rw, x)
    BY <1>2, <2>4, KeepsTail
  <2>7. RestOfTail(R, rw, S0, rw, q, f)
    BY <1>2, <2>2, <2>3, <2>4 DEF RestOfTail, InTail
  <2>8. SameLate(l, l)
    BY DEF SameLate
  <2>9. Loses(TailsOf(R, rw, l), q, w, Len(R[q].pre), f, TailsOf(S0, rw, l))
    BY <1>1, <1>2, <2>5, <2>6, <2>7, <2>8, LoseTail
  <2> DEFINE g == f + 1
  <2>10. \A i : InTail(S0[q], i) <=> i = g
    BY <1>2, <2>1, <2>2, <2>3, <2>4 DEF InTail
  <2>11. k[q] = rw[S0[q].idx][g]
    BY <1>1, <1>6, <2>1, <2>3, <2>4
  <2> HIDE DEF g
  <2>12. \A P, fr : Part(P, TailsOf(S0, rw, l), fr) => Part(P, TailsOf(S, rw, k), fr)
    <3> TAKE P, fr
    <3> HAVE Part(P, TailsOf(S0, rw, l), fr)
    <3>1. DOMAIN k = DOMAIN l \cup {q} /\ \A x \in DOMAIN l : k[x] = l[x]
      BY <1>1, <1>6
    <3>2. \A x \in Request : x # q => SameTail(S0, rw, S, rw, x)
      BY <2>6
    <3>3. Rekeyed(S0, rw, l, S, rw, k, q, g)
      BY ONLY <1>1, <1>2, <1>4, <2>5, <2>10, <2>11, <3>1, <3>2 DEF Rekeyed
    <3> QED
      BY <3>3, RekeyTail
  <2> QED
    BY <2>9, <2>12 DEF l, k
<1> QED
  BY <1>5, <1>6

\* The row of a request.
LEMMA RowFacts ==
    ASSUME OverlapInv, NEW q \in Request, req[q].idx # 0
    PROVE  /\ Row(q) = rows[req[q].idx] /\ Row(q) \in Seq(Slot) /\ Len(Row(q)) = req[q].slen
           /\ req[q].idx \in 1..NumRows
           /\ \A i \in 1..Len(req[q].pre) : Row(q)[i] = req[q].pre[i]
BY Before DEF RowsOf, RowOf, Rowed, Row

\* The tree of a request that is about to be cached.
LEMMA CachingNow ==
    ASSUME OverlapInv, NEW q \in Request, req[q].st = "in", req[q].idx # 0, NEW n \in Nat,
           Len(req[q].pre) <= n, n <= req[q].slen, n <= Len(Text(q)), NEW v,
           Loses(TailsOf(req, rows, LateSlots(req, Old, cur)), q, Row(q), Len(req[q].pre), n, v)
    PROVE  Caching(tree, HeldBy(req, can_run), LastOf(req), q, req[q], n, Row(q),
                   TailsOf(req, rows, LateSlots(req, Old, cur)), free, v)
<1>1. /\ LocksOf(tree, HeldBy(req, can_run), req)
      /\ Part(tree.pos, TailsOf(req, rows, LateSlots(req, Old, cur)), free)
  BY Before
<1>2. Row(q) \in Seq(Slot) /\ Len(Row(q)) = req[q].slen
  BY RowFacts
<1>3. q \in HeldBy(req, can_run) /\ LastOf(req)[q] = req[q].last
  BY DEF HeldBy, LastOf
<1>4. PrefixIn(q, req[q], tree.pos) /\ Tended(tree, HeldBy(req, can_run), LastOf(req))
  BY <1>1, <1>3 DEF LocksOf
<1>5. Len(req[q].pre) \in Nat
  BY LifeNow, LifeNumbers
<1>6. n \in 0..Len(Text(q))
  BY TextFacts
<1> QED
  BY <1>1, <1>2, <1>3, <1>4, <1>5, <1>6 DEF Caching

\* The last token of a request: it is cached, all but that token, and lets go of
\* its row and of its prefix; a batch may still have it.
LEMMA FinishInv ==
    ASSUME OverlapInv, loop = "apply", loop' = loop, result.reqs # <<>>,
           result' = [result EXCEPT !.reqs = Tail(@)], NEW q, q = Head(result.reqs),
           Appended(q, req[q], Use(Old, q), Use(cur, q), Stands(can_run, running, q),
                    Chunked(chunked_req, q)),
           Finishes(q), UNCHANGED <<running, can_run, chunked_req, server_args, cur>>
    PROVE  OverlapInv'
<1> DEFINE r == req[q]
           f == Full(q, r)
           w == Row(q)
           r2 == [NewReq EXCEPT !.st = "done"]
           H == HeldBy(req, can_run)
           t == TailsOf(req, rows, LateSlots(req, Old, cur))
           K == LastOf(req')
<1>1. /\ Old = result /\ q \in Request /\ Use(Old, q) # "none"
      /\ IsBatch(Old') /\ q \notin ToSet(Old'.reqs) /\ Use(Old', q) = "none"
      /\ \A p \in Request : p # q => /\ Use(Old', p) = Use(Old, p)
                                     /\ p \in ToSet(Old'.reqs) <=> p \in ToSet(Old.reqs)
      /\ Old'.loc = Old.loc
  BY ResultFacts
<1>2. /\ TypesOf(req, chunked_req, server_args, Old, cur)
      /\ LivesOf(req, Old, cur, can_run, running, chunked_req, loop)
      /\ ListsOf(req, running, can_run, chunked_req, server_args, loop)
      /\ RowsOf(req, rows, free_rows, NumRows)
      /\ LocksOf(tree, H, req) /\ LastSlot(req, rows, cur)
  BY Before
<1>3. /\ r.st = "in" /\ Stands(can_run, running, q) # "can" /\ Use(cur, q) # "extend" /\ r.idx # 0
      /\ Len(r.pre) <= r.fill /\ r.fill <= f /\ r.fill <= r.slen
      /\ r.slen = f + One(Use(cur, q) = "decode") /\ r.out < Meta[q].out
  BY DEF Appended
<1>4. /\ LifeTypes(q, r, Use(Old, q), Use(cur, q), Stands(can_run, running, q), Chunked(chunked_req, q))
      /\ LifeOf(q, r, Use(Old, q), Use(cur, q), Stands(can_run, running, q), Chunked(chunked_req, q), "apply")
      /\ IsBatch(cur)
  BY <1>1, LifeNow
<1>5. /\ f \in Nat /\ Len(r.pre) \in Nat /\ r.fill \in Nat /\ r.slen \in Nat /\ r.out \in Nat
      /\ f = Len(Meta[q].prompt) + r.out /\ Len(Meta[q].prompt) \in Nat /\ Meta[q].out \in Nat
      /\ Use(cur, q) \in Modes
  BY <1>4, LifeNumbers
<1>6. f <= Len(Text(q))
  <2>1. Len(Text(q)) = Len(Meta[q].prompt) + Meta[q].out
    BY <1>1, TextFacts
  <2> HIDE DEF f, r
  <2> QED
    BY ONLY <1>3, <1>5, <2>1, SMTT(20)
<1>7. SeqLen(q) = f
  BY ONLY <1>5 DEF SeqLen, Full
<1>8. /\ tree' = DecLockRef(Insert(tree, q, f), r.last)
      /\ free' = Freed(free, Duplicates(q, f))
      /\ free_rows' = Append(free_rows, r.idx)
      /\ req' = [req EXCEPT ![q] = r2] /\ rows' = rows
  <2>1. CacheFinishedReq(q, SeqLen(q) + 1)
    BY DEF Finishes
  <2> DEFINE n == SeqLen(q) + 1
  <2>2. n - 1 = f
    BY ONLY <1>5, <1>7
  <2>4. CacheFinishedReq(q, n)
    BY ONLY <2>1
  <2> HIDE DEF n, f
  <2>3. /\ tree' = DecLockRef(Insert(tree, q, n - 1), r.last)
        /\ free' = Freed(free, Duplicates(q, n - 1))
        /\ free_rows' = Append(free_rows, r.idx)
        /\ req' = [req EXCEPT ![q] = r2] /\ rows' = rows
    BY <2>4 DEF CacheFinishedReq
  <2> QED
    BY <2>2, <2>3
<1>9. r2 = [NewReq EXCEPT !.st = "done"]
  OBVIOUS
<1> HIDE DEF r2
<1>10. IsReq(r2) /\ Cleared(r2) /\ r2.st = "done" /\ ~r2.retracted
  <2>1. r2 = [st |-> "done", out |-> 0, fill |-> 0, pre |-> <<>>, last |-> NoNode, idx |-> 0,
              slen |-> 0, fut |-> 0, chunks |-> 0, retracted |-> FALSE]
    BY ONLY <1>9 DEF NewReq
  <2>2. /\ r2.st = "done" /\ r2.out = 0 /\ r2.fill = 0 /\ r2.pre = <<>> /\ r2.last = NoNode
        /\ r2.idx = 0 /\ r2.slen = 0 /\ r2.fut = 0 /\ r2.chunks = 0
    BY ONLY <2>1
  <2>3. r2.retracted = FALSE
    BY ONLY <2>1
  <2>4. 0 \in Nat /\ <<>> \in Seq(Slot)
    OBVIOUS
  <2>5. r2 = [st |-> r2.st, out |-> r2.out, fill |-> r2.fill, pre |-> r2.pre, last |-> r2.last,
              idx |-> r2.idx, slen |-> r2.slen, fut |-> r2.fut, chunks |-> r2.chunks,
              retracted |-> r2.retracted]
    BY ONLY <2>1, <2>2, <2>3
  <2> QED
    BY <2>2, <2>3, <2>4, <2>5 DEF IsReq, Cleared
<1>11. /\ TypesOf(req', chunked_req, server_args, Old', cur) /\ req'[q] = r2
       /\ \A x \in Request : x # q => req'[x] = req[x]
       /\ Records(req) /\ Records(req')
  <2> DEFINE o2 == Old'
  <2>1. IsBatch(o2)
    BY <1>1
  <2> HIDE DEF o2
  <2>2. LET S == [req EXCEPT ![q] = r2]
        IN  /\ TypesOf(S, chunked_req, server_args, o2, cur) /\ S[q] = r2
            /\ \A x \in Request : x # q => S[x] = req[x]
            /\ Records(req) /\ Records(S)
    BY <1>1, <1>2, <1>10, <2>1, OneChanged
  <2> QED
    BY <1>8, <2>2 DEF o2
<1>12. Types'
  BY <1>11 DEF Types
<1>13. q \notin ToSet(can_run)
  BY <1>3, StandsFacts
<1>14. Lives'
  <2>1. LifeOf(q, r2, "none", Use(cur, q), Stands(can_run, running, q), Chunked(chunked_req, q), "apply")
    BY <1>1, <1>4, <1>10, LifeFinishes
  <2> QED
    BY <1>1, <1>2, <1>11, <2>1 DEF Lives, LivesOf
<1>15. Lists'
  <2>1. \A p \in ToSet(can_run) : p \in Request
    BY <1>2, ToSetFacts DEF ListsOf
  <2>2. ListsOf(req', running, can_run, chunked_req, server_args, loop)
    BY <1>2, <1>11, <1>13, <2>1, ListsSame
  <2> QED
    BY <2>2 DEF Lists
<1>16. Rows'
  <2>1. rows = [i \in 1..NumRows |-> rows[i]] /\ req'[q].idx = 0
    BY <1>2, <1>10, <1>11 DEF RowsOf, Cleared
  <2>2. \A p \in Rowed(req') : RowOf(req'[p], rows[req'[p].idx])
    BY <1>2, <1>11, <2>1 DEF RowsOf, Rowed
  <2>3. \A p \in Request : p # q => req'[p].idx = req[p].idx
    BY <1>11
  <2>4. RowsOf(req', rows, Append(free_rows, r.idx), NumRows)
    BY <1>1, <1>2, <1>3, <2>1, <2>2, <2>3, RowsDrop
  <2> QED
    BY <1>8, <2>4 DEF Rows, NumRows, MaxRunning
<1>17. w = rows[r.idx] /\ w \in Seq(Slot) /\ Len(w) = r.slen
  BY <1>1, <1>3, RowFacts
<1>18. Ending(req, rows, Old, cur, Old', req', q, f)
  <2>1. f <= r.slen /\ Len(r.pre) <= f
    BY ONLY <1>3, <1>5, SMTT(20) DEF One
  <2>2. CASE Use(cur, q) = "decode"
    <3>1. q \in ToSet(cur.reqs) /\ r.slen = f + 1
      BY <1>3, <1>4, <2>2, UseFacts DEF One
    <3>2. cur.loc[q][1] = rows[r.idx][r.slen]
      BY <1>1, <1>2, <1>3, <2>2, SMTT(20) DEF LastSlot
    <3> QED
      BY <1>1, <1>3, <1>5, <1>10, <1>11, <1>17, <2>1, <3>1, <3>2 DEF Ending
  <2>3. CASE Use(cur, q) = "none"
    <3>1. q \notin ToSet(cur.reqs) /\ r.slen = f
      BY <1>3, <1>4, <1>5, <2>3, UseFacts DEF One
    <3> QED
      BY <1>1, <1>3, <1>5, <1>10, <1>11, <1>17, <2>1, <3>1 DEF Ending
  <2> QED
    BY <1>3, <1>5, <2>2, <2>3 DEF Modes
<1>19. PICK v : /\ Loses(t, q, rows[r.idx], Len(r.pre), f, v)
                /\ \A P, fr : Part(P, v, fr) => Part(P, TailsOf(req', rows, LateSlots(req', Old', cur)), fr)
  BY <1>18, EndingTails, SMTT(20)
<1>20. Caching(tree, H, LastOf(req), q, r, f, w, t, free, v)
  <2>1. f <= r.slen /\ Len(r.pre) <= f
    BY ONLY <1>3, <1>5 DEF One
  <2>2. Loses(t, q, w, Len(r.pre), f, v)
    BY <1>17, <1>19
  <2> HIDE DEF f
  <2> QED
    BY <1>1, <1>3, <1>5, <1>6, <2>1, <2>2, CachingNow
<1>21. \A p \in H : p # q => K[p] = LastOf(req)[p]
  BY <1>11 DEF HeldBy, LastOf
<1> HIDE DEF K
<1>22. /\ Tended(tree', H \ {q}, K) /\ Gains(tree.pos, tree'.pos, q, f)
       /\ Part(tree'.pos, v, free')
  <2>1. Insert(tree, q, f) = InsertHelper(tree, Root, Take(Text(q), f), w, Chunk, "private")
    BY DEF Insert
  <2>2. Duplicates(q, f) = Dups(tree, q, r, f, w)
    BY DEF Duplicates, Dups
  <2> HIDE DEF f, w, t, H, r
  <2> DEFINE LL == LastOf(req)
  <2>3. Caching(tree, H, LL, q, r, f, w, t, free, v) /\ \A p \in H : p # q => K[p] = LL[p]
    BY <1>20, <1>21
  <2> HIDE DEF LL
  <2> QED
    BY <1>8, <2>1, <2>2, <2>3, FinishedTree
<1>23. HeldBy(req', can_run) = H \ {q}
  <2>1. req'[q].st # "in"
    BY <1>10, <1>11
  <2> QED
    BY <1>1, <1>11, <1>13, <2>1 DEF HeldBy
<1>24. Locks'
  <2>1. \A p \in H : PrefixIn(p, req[p], tree.pos)
    BY <1>2 DEF LocksOf
  <2>2. \A p \in H \ {q} : p \in Request /\ req'[p] = req[p]
    BY <1>11 DEF HeldBy
  <2>3. \A x \in DOMAIN tree.pos : x \in DOMAIN tree'.pos /\ tree'.pos[x] = tree.pos[x]
    BY <1>22 DEF Gains
  <2>4. \A p \in H \ {q} : PrefixIn(p, req'[p], tree'.pos)
    BY <2>1, <2>2, <2>3, PrefixKept
  <2>5. LocksOf(tree', HeldBy(req', can_run), req')
    BY <1>22, <1>23, <2>4, SMTT(20) DEF LocksOf, K
  <2> QED
    BY <2>5 DEF Locks
<1>25. Slots'
  <2>1. Part(tree'.pos, TailsOf(req', rows, LateSlots(req', Old', cur)), free')
    BY <1>19, <1>22
  <2>2. \A p \in Request : req'[p].st = "in" => req'[p] = req[p]
    BY <1>10, <1>11
  <2>3. LastSlot(req', rows, cur)
    BY <1>2, <2>2 DEF LastSlot
  <2> QED
    BY <1>8, <2>1, <2>3 DEF Slots
<1> QED
  BY <1>12, <1>14, <1>15, <1>16, <1>24, <1>25 DEF OverlapInv

\* cache_unfinished_req gives the request q, whose record is r, the record c.req, the
\* row c.row for w, and the prefix that it caches.
Recached(q, r, w, c) ==
    /\ c.req = [r EXCEPT !.pre = c.req.pre, !.last = c.req.last]
    /\ c.req.pre \in Seq(Slot) /\ Len(c.req.pre) = r.fill
    /\ c.row \in Seq(Slot) /\ Len(c.row) = r.slen
    /\ \A i \in 1..r.fill : c.row[i] = c.req.pre[i]
    /\ \A i \in 1..r.slen : r.fill < i => c.row[i] = w[i]

\* The other requests of H keep their nodes and prefixes.
OthersKept(R, S, H, q) ==
    \A p \in H : p # q => S[p].last = R[p].last /\ S[p].pre = R[p].pre

\* A request for which cache_unfinished_req is called.
Recaching(q, r) ==
    /\ q \in Request /\ r.st = "in" /\ r.idx # 0
    /\ Len(r.pre) <= r.fill /\ r.fill <= r.slen /\ r.fill <= Len(Text(q))

\* A row whose beginning is replaced.
LEMMA SplicedRow ==
    ASSUME NEW u \in Seq(Slot), NEW w \in Seq(Slot), NEW n \in Nat, Len(u) = n, n <= Len(w)
    PROVE  LET x == u \o SubSeq(w, n + 1, Len(w))
           IN  /\ x \in Seq(Slot) /\ Len(x) = Len(w)
               /\ \A i \in 1..n : x[i] = u[i]
               /\ \A i \in 1..Len(w) : n < i => x[i] = w[i]
<1> DEFINE y == SubSeq(w, n + 1, Len(w))
<1>1. /\ y \in Seq(Slot) /\ Len(y) = Len(w) - n /\ Len(w) \in Nat
      /\ \A i \in 1..Len(y) : y[i] = w[n + i]
  OBVIOUS
<1> HIDE DEF y
<1> DEFINE x == u \o y
<1>2. /\ x \in Seq(Slot) /\ Len(x) = Len(w)
      /\ \A i \in 1..n : x[i] = u[i]
      /\ \A i \in 1..Len(w) : n < i => x[i] = y[i - n]
  <2>1. /\ x \in Seq(Slot) /\ Len(x) = Len(u) + Len(y)
        /\ \A i \in 1..Len(u) + Len(y) : x[i] = IF i <= Len(u) THEN u[i] ELSE y[i - Len(u)]
    BY <1>1
  <2> HIDE DEF x
  <2> QED
    BY <1>1, <2>1
<1> HIDE DEF x
<1>3. ASSUME NEW i \in 1..Len(w), n < i PROVE x[i] = w[i]
  <2>1. i - n \in 1..Len(y) /\ n + (i - n) = i
    BY <1>1, <1>3
  <2> QED
    BY <1>1, <1>2, <1>3, <2>1
<1> QED
  BY <1>2, <1>3 DEF x, y

\* What cache_unfinished_req returns.
LEMMA RecacheFacts ==
    ASSUME OverlapInv, NEW q, Recaching(q, req[q]), NEW c, c = CacheUnfinishedReq(q)
    PROVE  /\ Recached(q, req[q], Row(q), c)
           /\ \A S, v : OthersKept(req, S, HeldBy(req, can_run), q) /\ S[q].pre = c.req.pre
                        /\ S[q].last = c.req.last
                        /\ Loses(TailsOf(req, rows, LateSlots(req, Old, cur)), q, Row(q),
                                 Len(req[q].pre), req[q].fill, v)
                => LocksOf(c.tree, HeldBy(req, can_run), S) /\ Part(c.tree.pos, v, c.free)
<1> DEFINE r == req[q]
           w == Row(q)
           H == HeldBy(req, can_run)
           t == TailsOf(req, rows, LateSlots(req, Old, cur))
           n == req[q].fill
           key == Take(Text(q), n)
           U == Insert(tree, q, n)
           m == MatchPrefix(U, key)
<1>1. /\ q \in Request /\ r.st = "in" /\ r.idx # 0
      /\ Len(r.pre) <= n /\ n <= r.slen /\ n <= Len(Text(q))
  BY DEF Recaching
<1>2. n \in Nat /\ Len(r.pre) \in Nat /\ r.slen \in Nat /\ IsReq(r)
  BY <1>1, LifeNow, LifeNumbers
<1>3. w \in Seq(Slot) /\ Len(w) = r.slen
  BY <1>1, RowFacts, SMTT(20)
<1>4. /\ c.tree = IncLockRef(DecLockRef(m.tree, r.last), m.last)
      /\ c.free = Freed(free, Duplicates(q, n))
      /\ c.row = m.pre \o SubSeq(w, Len(key) + 1, Len(w))
      /\ c.req = [r EXCEPT !.pre = m.pre, !.last = m.last]
  BY DEF CacheUnfinishedReq
<1>5. U = InsertHelper(tree, Root, key, w, Chunk, "private")
  BY DEF Insert
<1>6. Duplicates(q, n) = Dups(tree, q, r, n, w)
  BY DEF Duplicates, Dups
<1>7. n \in 0..Len(Text(q)) /\ Len(key) = n
  <2>1. n \in 0..Len(Text(q))
    BY <1>1, <1>2, TextFacts
  <2> QED
    BY <1>1, <2>1, KeyPlaces
<1> HIDE DEF m, U
<1>8. \A v, K : Loses(t, q, w, Len(r.pre), n, v) /\ (\A p \in H : p # q => K[p] = LastOf(req)[p])
                /\ K[q] = m.last
        => /\ Tended(c.tree, H, K) /\ Gains(tree.pos, c.tree.pos, q, n)
           /\ Part(c.tree.pos, v, c.free)
           /\ m.pre \in Seq(Slot) /\ Len(m.pre) = n /\ m.last = Place(q, n)
           /\ \A i \in 1..n : c.tree.pos[Place(q, i)] = m.pre[i]
  <2> TAKE v, K
  <2> HAVE Loses(t, q, w, Len(r.pre), n, v) /\ (\A p \in H : p # q => K[p] = LastOf(req)[p])
           /\ K[q] = m.last
  <2>1. Caching(tree, H, LastOf(req), q, r, n, w, t, free, v)
    BY <1>1, <1>2, CachingNow
  <2> DEFINE LL == LastOf(req)
  <2>2. Caching(tree, H, LL, q, r, n, w, t, free, v) /\ \A p \in H : p # q => K[p] = LL[p]
    BY <2>1
  <2>3. m = MatchPrefix(U, Take(Text(q), n))
    BY DEF m
  <2>4. U = InsertHelper(tree, Root, Take(Text(q), n), w, Chunk, "private")
    BY <1>5
  <2>5. K[q] = m.last
    OBVIOUS
  <2> HIDE DEF LL, t, w, H, n, r
  <2>6. LET R == IncLockRef(DecLockRef(m.tree, r.last), m.last)
        IN  /\ Tended(R, H, K) /\ Gains(tree.pos, R.pos, q, n)
            /\ Part(R.pos, v, Freed(free, Dups(tree, q, r, n, w)))
            /\ m.pre \in Seq(Slot) /\ Len(m.pre) = n /\ m.last = Place(q, n)
            /\ \A i \in 1..n : R.pos[Place(q, i)] = m.pre[i]
    BY ONLY <2>2, <2>3, <2>4, <2>5, RecachedTree
  <2> QED
    BY ONLY <1>4, <1>6, <2>6
<1>9. m.pre \in Seq(Slot) /\ Len(m.pre) = n
  <2> DEFINE v == [h \in {g \in DOMAIN t : \A i \in Len(r.pre) + 1 .. n : g # <<q, i>>} |-> t[h]]
             K == [p \in Request |-> IF p = q THEN m.last ELSE LastOf(req)[p]]
  <2>1. Loses(t, q, w, Len(r.pre), n, v)
    <3>1. Records(req) /\ DOMAIN LateSlots(req, Old, cur) \subseteq Request
      BY Before, TypesFacts, LateFacts
    <3>2. \A i : InTail(r, i) => <<q, i>> \in DOMAIN t /\ t[<<q, i>>] = rows[r.idx][i]
      BY <1>1, <3>1, TailAt
    <3>3. \A i \in Len(r.pre) + 1 .. n : InTail(r, i)
      BY <1>1, <1>2 DEF InTail
    <3>4. w = rows[r.idx]
      BY DEF Row
    <3> HIDE DEF t, w, n, r
    <3>5. /\ \A h : h \in DOMAIN v <=> h \in DOMAIN t /\ \A i \in Len(r.pre) + 1 .. n : h # <<q, i>>
          /\ \A h \in DOMAIN v : v[h] = t[h]
      BY ZenonT(30)
    <3> HIDE DEF v
    <3> QED
      BY ONLY <3>2, <3>3, <3>4, <3>5 DEF Loses
  <2>2. \A p \in H : p # q => K[p] = LastOf(req)[p]
    BY DEF HeldBy
  <2>3. K[q] = m.last
    BY <1>1
  <2> HIDE DEF v, K, t, w, H, n, r
  <2> QED
    BY ONLY <1>8, <2>1, <2>2, <2>3
<1>10. Recached(q, r, w, c)
  <2>1. c.row = m.pre \o SubSeq(w, n + 1, Len(w))
    BY <1>4, <1>7
  <2> HIDE DEF w, n
  <2>2. /\ c.row \in Seq(Slot) /\ Len(c.row) = Len(w)
        /\ \A i \in 1..n : c.row[i] = m.pre[i]
        /\ \A i \in 1..Len(w) : n < i => c.row[i] = w[i]
    <3>1. n <= Len(w)
      BY <1>1, <1>3 DEF n
    <3>2. LET x == m.pre \o SubSeq(w, n + 1, Len(w))
          IN  /\ x \in Seq(Slot) /\ Len(x) = Len(w)
              /\ \A i \in 1..n : x[i] = m.pre[i]
              /\ \A i \in 1..Len(w) : n < i => x[i] = w[i]
      BY ONLY <1>2, <1>3, <1>9, <3>1, SplicedRow
    <3> DEFINE x == m.pre \o SubSeq(w, n + 1, Len(w))
    <3> HIDE DEF x
    <3> QED
      BY ONLY <2>1, <3>2 DEF x
  <2> HIDE DEF r
  <2>3. c.req.pre = m.pre /\ c.req.last = m.last
    BY ONLY <1>2, <1>4 DEF IsReq
  <2>4. c.req = [r EXCEPT !.pre = c.req.pre, !.last = c.req.last]
    BY ONLY <1>4, <2>3
  <2>5. n = r.fill
    BY DEF n, r
  <2> QED
    BY ONLY <1>3, <1>9, <2>2, <2>3, <2>4, <2>5 DEF Recached
<1>11. ASSUME NEW S, NEW v, OthersKept(req, S, H, q), S[q].pre = c.req.pre, S[q].last = c.req.last,
              Loses(t, q, w, Len(r.pre), n, v)
       PROVE  LocksOf(c.tree, H, S) /\ Part(c.tree.pos, v, c.free)
  <2>0. c.req.pre = m.pre /\ c.req.last = m.last
    BY ONLY <1>2, <1>4 DEF IsReq
  <2> DEFINE K == LastOf(S)
  <2>1. \A p \in H : p # q => K[p] = LastOf(req)[p]
    BY <1>11 DEF OthersKept, HeldBy, LastOf
  <2>2. K[q] = m.last
    BY <1>1, <1>11, <2>0 DEF LastOf
  <2>3. \A p \in H : PrefixIn(p, req[p], tree.pos) /\ p \in Request
    BY Before DEF LocksOf, HeldBy
  <2>4. OthersKept(req, S, H, q) /\ S[q].pre = m.pre /\ S[q].last = m.last
    BY <1>11, <2>0
  <2>5. Loses(t, q, w, Len(r.pre), n, v)
    BY <1>11
  <2> HIDE DEF K, t, w, H, n, r
  <2>6. /\ Tended(c.tree, H, K) /\ Gains(tree.pos, c.tree.pos, q, n)
        /\ Part(c.tree.pos, v, c.free)
        /\ m.pre \in Seq(Slot) /\ Len(m.pre) = n /\ m.last = Place(q, n)
        /\ \A i \in 1..n : c.tree.pos[Place(q, i)] = m.pre[i]
    BY ONLY <1>8, <2>1, <2>2, <2>5
  <2>7. PrefixIn(q, S[q], c.tree.pos)
    BY ONLY <1>1, <2>4, <2>6 DEF PrefixIn, Gains
  <2>8. \A p \in H : p # q => PrefixIn(p, S[p], c.tree.pos)
    <3> TAKE p \in H
    <3> HAVE p # q
    <3>1. PrefixIn(p, req[p], tree.pos) /\ S[p].last = req[p].last /\ S[p].pre = req[p].pre
      BY <2>3, <2>4 DEF OthersKept
    <3>2. PrefixIn(p, S[p], tree.pos)
      BY ONLY <3>1 DEF PrefixIn
    <3>3. \A x \in DOMAIN tree.pos : x \in DOMAIN c.tree.pos /\ c.tree.pos[x] = tree.pos[x]
      BY <2>6 DEF Gains
    <3> QED
      BY <3>2, <3>3, PrefixKept
  <2> QED
    BY ONLY <2>6, <2>7, <2>8 DEF LocksOf, K
<1> QED
  BY <1>10, <1>11

\* The first token of a request that goes on: its prompt is cached.
LEMMA PrefilledInv ==
    ASSUME OverlapInv, loop = "apply", loop' = loop, result.reqs # <<>>,
           result' = [result EXCEPT !.reqs = Tail(@)], NEW q, q = Head(result.reqs),
           Appended(q, req[q], Use(Old, q), Use(cur, q), Stands(can_run, running, q),
                    Chunked(chunked_req, q)),
           Use(Old, q) = "extend", req[q].out + 1 < Meta[q].out,
           NEW c, c = CacheUnfinishedReq(q), tree' = c.tree, free' = c.free,
           rows' = [rows EXCEPT ![c.req.idx] = c.row],
           req' = [req EXCEPT ![q] = [c.req EXCEPT !.out = @ + 1]],
           UNCHANGED <<free_rows, running, can_run, chunked_req, server_args, cur>>
    PROVE  OverlapInv'
<1> DEFINE r == req[q]
           r2 == [c.req EXCEPT !.out = @ + 1]
           H == HeldBy(req, can_run)
           t == TailsOf(req, rows, LateSlots(req, Old, cur))
           v == TailsOf(req', rows', LateSlots(req', Old', cur))
<1>1. /\ q \in Request /\ IsBatch(Old') /\ Use(Old', q) = "none" /\ Old'.loc = Old.loc
      /\ \A p \in Request : p # q => /\ Use(Old', p) = Use(Old, p)
                                     /\ p \in ToSet(Old'.reqs) <=> p \in ToSet(Old.reqs)
  BY ResultFacts
<1>2. /\ TypesOf(req, chunked_req, server_args, Old, cur)
      /\ LivesOf(req, Old, cur, can_run, running, chunked_req, loop)
      /\ ListsOf(req, running, can_run, chunked_req, server_args, loop)
      /\ RowsOf(req, rows, free_rows, NumRows)
      /\ LocksOf(tree, H, req) /\ LastSlot(req, rows, cur)
  BY Before
<1>3. /\ r.st = "in" /\ Stands(can_run, running, q) # "can" /\ Use(cur, q) # "extend" /\ r.idx # 0
      /\ Len(r.pre) <= r.fill /\ r.fill = Full(q, r) /\ r.fill <= r.slen
      /\ r.slen = Full(q, r) + One(Use(cur, q) = "decode") /\ r.out < Meta[q].out
  BY DEF Appended
<1>4. /\ LifeTypes(q, r, Use(Old, q), Use(cur, q), Stands(can_run, running, q), Chunked(chunked_req, q))
      /\ LifeOf(q, r, Use(Old, q), Use(cur, q), Stands(can_run, running, q), Chunked(chunked_req, q), "apply")
      /\ IsBatch(cur) /\ IsReq(r)
  BY <1>1, LifeNow
<1>5. /\ Len(r.pre) \in Nat /\ r.fill \in Nat /\ r.slen \in Nat /\ r.out \in Nat
      /\ Full(q, r) = Len(Meta[q].prompt) + r.out /\ Len(Meta[q].prompt) \in Nat /\ Meta[q].out \in Nat
  BY <1>4, LifeNumbers
<1>6. Recaching(q, r)
  <2>1. Len(Text(q)) = Len(Meta[q].prompt) + Meta[q].out
    BY <1>1, TextFacts
  <2>2. r.fill <= Len(Text(q))
    BY ONLY <1>3, <1>5, <2>1
  <2> QED
    BY <1>1, <1>3, <2>2 DEF Recaching
<1>7. /\ Recached(q, r, Row(q), c)
      /\ \A S, x : OthersKept(req, S, H, q) /\ S[q].pre = c.req.pre /\ S[q].last = c.req.last
                   /\ Loses(t, q, Row(q), Len(r.pre), r.fill, x)
            => LocksOf(c.tree, H, S) /\ Part(c.tree.pos, x, c.free)
  BY <1>6, RecacheFacts, SMTT(20)
<1>8. /\ c.req = [r EXCEPT !.pre = c.req.pre, !.last = c.req.last]
      /\ c.req.pre \in Seq(Slot) /\ Len(c.req.pre) = r.fill
      /\ c.row \in Seq(Slot) /\ Len(c.row) = r.slen
      /\ \A i \in 1..r.fill : c.row[i] = c.req.pre[i]
      /\ \A i \in 1..r.slen : r.fill < i => c.row[i] = Row(q)[i]
  BY <1>7 DEF Recached
<1>9. /\ IsReq(r2) /\ r2.st = r.st /\ r2.out = r.out + 1 /\ r2.fill = r.fill /\ r2.idx = r.idx
      /\ r2.slen = r.slen /\ r2.chunks = r.chunks /\ r2.retracted = r.retracted
      /\ r2.pre = c.req.pre /\ r2.last = c.req.last /\ c.req.idx = r.idx
  <2> DEFINE cr == c.req
  <2>0. r2 = [cr EXCEPT !.out = cr.out + 1]
    OBVIOUS
  <2>1. cr = [r EXCEPT !.pre = cr.pre, !.last = cr.last] /\ cr.pre \in Seq(Slot)
    BY <1>8
  <2> HIDE DEF r2, cr, r
  <2>2. /\ r = [st |-> r.st, out |-> r.out, fill |-> r.fill, pre |-> r.pre, last |-> r.last,
                idx |-> r.idx, slen |-> r.slen, fut |-> r.fut, chunks |-> r.chunks,
                retracted |-> r.retracted]
        /\ r.st \in {"new", "queued", "in", "done", "gone"}
        /\ r.out \in Nat /\ r.fill \in Nat /\ r.slen \in Nat /\ r.chunks \in Nat
    BY <1>4 DEF IsReq
  <2>3. cr = [st |-> r.st, out |-> r.out, fill |-> r.fill, pre |-> cr.pre, last |-> cr.last,
              idx |-> r.idx, slen |-> r.slen, fut |-> r.fut, chunks |-> r.chunks,
              retracted |-> r.retracted]
    BY ONLY <2>1, <2>2
  <2>4. r2 = [st |-> r.st, out |-> r.out + 1, fill |-> r.fill, pre |-> cr.pre, last |-> cr.last,
              idx |-> r.idx, slen |-> r.slen, fut |-> r.fut, chunks |-> r.chunks,
              retracted |-> r.retracted]
    BY ONLY <2>0, <2>3
  <2>5. /\ r2.st = r.st /\ r2.out = r.out + 1 /\ r2.fill = r.fill /\ r2.idx = r.idx
        /\ r2.slen = r.slen /\ r2.chunks = r.chunks
        /\ r2.pre = cr.pre /\ r2.last = cr.last /\ r2.fut = r.fut
    BY ONLY <2>4
  <2>6. r2.retracted = r.retracted
    BY ONLY <2>4
  <2>7. cr.idx = r.idx
    BY ONLY <2>3
  <2>8. r2 = [st |-> r2.st, out |-> r2.out, fill |-> r2.fill, pre |-> r2.pre, last |-> r2.last,
              idx |-> r2.idx, slen |-> r2.slen, fut |-> r2.fut, chunks |-> r2.chunks,
              retracted |-> r2.retracted]
    BY ONLY <2>4, <2>5, <2>6
  <2>9. r.out + 1 \in Nat
    BY <2>2
  <2>10. IsReq(r2)
    BY ONLY <2>1, <2>2, <2>5, <2>8, <2>9 DEF IsReq
  <2> QED
    BY <2>5, <2>6, <2>7, <2>10 DEF cr
<1>10. req' = [req EXCEPT ![q] = r2]
  OBVIOUS
<1> HIDE DEF r2
<1>11. /\ TypesOf(req', chunked_req, server_args, Old', cur) /\ req'[q] = r2
       /\ \A x \in Request : x # q => req'[x] = req[x]
       /\ Records(req) /\ Records(req')
  <2> DEFINE o2 == Old'
  <2>1. IsBatch(o2)
    BY <1>1
  <2> HIDE DEF o2
  <2>2. LET S == [req EXCEPT ![q] = r2]
        IN  /\ TypesOf(S, chunked_req, server_args, o2, cur) /\ S[q] = r2
            /\ \A x \in Request : x # q => S[x] = req[x]
            /\ Records(req) /\ Records(S)
    BY ONLY <1>1, <1>2, <1>9, <2>1, OneChanged
  <2> QED
    BY <1>10, <2>2 DEF o2
<1>12. Types'
  BY <1>11 DEF Types
<1>13. q \notin ToSet(can_run)
  BY <1>3, StandsFacts
<1>14. Lives'
  <2>0. Len(r2.pre) \in Nat /\ Len(r2.pre) <= r.fill /\ r2.out < Meta[q].out
    BY <1>5, <1>8, <1>9, SMTT(20)
  <2>1. LifeOf(q, r2, "none", Use(cur, q), Stands(can_run, running, q), Chunked(chunked_req, q), "apply")
    BY <1>3, <1>4, <1>9, <2>0, LifeGoesOn
  <2> QED
    BY <1>1, <1>2, <1>11, <2>1, SMTT(20) DEF Lives, LivesOf
<1>15. Lists'
  <2>1. \A p \in ToSet(can_run) : p \in Request
    BY <1>2, ToSetFacts DEF ListsOf
  <2>2. ListsOf(req', running, can_run, chunked_req, server_args, loop)
    BY ONLY <1>2, <1>11, <1>13, <2>1, ListsSame, SMTT(20)
  <2> QED
    BY <2>2 DEF Lists
<1>16. /\ rows' = [i \in 1..NumRows |-> rows'[i]] /\ rows'[r.idx] = c.row
       /\ \A i \in 1..NumRows : i # r.idx => rows'[i] = rows[i]
  <2>1. rows = [i \in 1..NumRows |-> rows[i]]
    BY <1>2 DEF RowsOf
  <2>2. r.idx \in 1..NumRows
    BY <1>1, <1>3, RowFacts, SMTT(20)
  <2>3. rows' = [rows EXCEPT ![r.idx] = c.row]
    BY <1>9
  <2> DEFINE N == NumRows
             i0 == r.idx
             w2 == c.row
  <2>4. /\ rows = [i \in 1..N |-> rows[i]] /\ i0 \in 1..N /\ rows' = [rows EXCEPT ![i0] = w2]
    BY <2>1, <2>2, <2>3
  <2> HIDE DEF N, i0, w2
  <2>5. /\ rows' = [i \in 1..N |-> rows'[i]] /\ rows'[i0] = w2
        /\ \A i \in 1..N : i # i0 => rows'[i] = rows[i]
    BY ONLY <2>4
  <2> QED
    BY <2>5 DEF N, i0, w2
<1>17. \A p \in Rowed(req) : p # q => req[p].idx \in 1..NumRows /\ req[p].idx # r.idx
  BY <1>1, <1>2, <1>3, SMTT(20) DEF RowsOf, Rowed
<1>18. \A p \in Request : req'[p].idx = req[p].idx
  BY <1>9, <1>11
<1>19. Rows'
  <2>1. RowOf(r2, c.row)
    BY ONLY <1>8, <1>9 DEF RowOf
  <2>2. \A p \in Rowed(req') : RowOf(req'[p], rows'[req'[p].idx])
    <3> TAKE p \in Rowed(req')
    <3>1. p \in Request /\ p \in Rowed(req)
      BY <1>18 DEF Rowed
    <3>2. CASE p = q
      BY ONLY <1>9, <1>11, <1>16, <2>1, <3>2
    <3>3. CASE p # q
      <4>1. RowOf(req[p], rows[req[p].idx]) /\ req'[p] = req[p]
        BY <1>2, <1>11, <3>1, <3>3 DEF RowsOf
      <4>2. rows'[req[p].idx] = rows[req[p].idx]
        BY <1>16, <1>17, <3>1, <3>3
      <4> QED
        BY <4>1, <4>2
    <3> QED
      BY <3>2, <3>3
  <2>3. RowsOf(req', rows', free_rows, NumRows)
    BY ONLY <1>2, <1>16, <1>18, <2>2, RowsKept
  <2> QED
    BY <2>3 DEF Rows, NumRows, MaxRunning
<1>20. Loses(t, q, Row(q), Len(r.pre), r.fill, v)
  <2> DEFINE l == LateSlots(req, Old, cur)
             k == LateSlots(req', Old', cur)
  <2>1. SameLate(l, k) /\ DOMAIN l \subseteq Request
    <3>1. LateStay(req, Old, cur, Old', cur)
      BY <1>1, <1>3, ResultStay
    <3>2. SameEnds(req, req')
      BY <1>3, <1>9, <1>11 DEF SameEnds
    <3> QED
      BY <3>1, <3>2, LateSame
  <2>2. \A p \in Request : p # q => SameTail(req, rows, req', rows', p)
    <3> TAKE p \in Request
    <3> HAVE p # q
    <3>0. req'[p] = req[p] /\ req[p].slen \in Nat /\ Len(req[p].pre) \in Nat
      BY <1>11 DEF Records
    <3>1. CASE p \in Rowed(req)
      <4>1. rows'[req'[p].idx] = rows[req[p].idx]
        BY ONLY <1>16, <1>17, <3>0, <3>1, p # q
      <4> QED
        BY ONLY <3>0, <4>1, KeepsTail
    <3>2. CASE p \notin Rowed(req)
      <4>0. LifeTypes(p, req[p], Use(Old, p), Use(cur, p), Stands(can_run, running, p), Chunked(chunked_req, p))
            /\ LifeOf(p, req[p], Use(Old, p), Use(cur, p), Stands(can_run, running, p), Chunked(chunked_req, p), loop)
        BY LifeNow
      <4>1. req[p].slen = 0
        BY <3>2, <4>0 DEF LifeOf, LifeTypes, IsReq, Cleared, Admitted, Seated, Rowed
      <4> QED
        BY ONLY <3>0, <4>1, NoTail
    <3> QED
      BY <3>1, <3>2
  <2>3. RestOfTail(req, rows, req', rows', q, r.fill)
    <3>1. Row(q) = rows[r.idx]
      BY DEF Row
    <3>2. \A i : InTail(r2, i) <=> InTail(r, i) /\ r.fill < i
      BY ONLY <1>3, <1>5, <1>8, <1>9 DEF InTail
    <3>3. \A i : InTail(r2, i) => i \in 1..r.slen /\ r.fill < i
      BY ONLY <1>3, <1>5, <1>8, <1>9 DEF InTail
    <3>4. \A i : InTail(r2, i) => c.row[i] = rows[r.idx][i]
      BY <1>8, <3>1, <3>3, SMTT(20)
    <3> QED
      BY ONLY <1>9, <1>11, <1>16, <3>2, <3>4 DEF RestOfTail
  <2>4. Row(q) = rows[r.idx]
    BY DEF Row
  <2> HIDE DEF l, k
  <2>5. Loses(TailsOf(req, rows, l), q, rows[r.idx], Len(r.pre), r.fill, TailsOf(req', rows', k))
    BY <1>1, <1>3, <1>5, <1>11, <2>1, <2>2, <2>3, LoseTail, ZenonT(40)
  <2> QED
    BY <2>4, <2>5 DEF l, k
<1>21. LocksOf(tree', H, req') /\ Part(tree'.pos, v, free')
  <2>1. OthersKept(req, req', H, q)
    BY <1>11 DEF OthersKept, HeldBy
  <2>2. req'[q].pre = c.req.pre /\ req'[q].last = c.req.last
    BY <1>9, <1>11
  <2> HIDE DEF H, t, v, r
  <2> QED
    BY <1>7, <1>20, <2>1, <2>2
<1>22. HeldBy(req', can_run) = H
  <2>1. \A p \in Request : req'[p].st = req[p].st
    BY <1>9, <1>11
  <2> QED
    BY <2>1, SMTT(20) DEF HeldBy
<1>23. LastSlot(req', rows', cur)
  <2> SUFFICES ASSUME NEW p \in Request, req'[p].st = "in", Use(cur, p) = "decode"
               PROVE  cur.loc[p][1] = rows'[req'[p].idx][req'[p].slen]
    BY Zenon DEF LastSlot
  <2>1. CASE p = q
    <3>1. cur.loc[q][1] = Row(q)[r.slen]
      BY <1>2, <1>3, <2>1 DEF LastSlot, Row
    <3>2. r.slen \in 1..r.slen /\ r.fill < r.slen
      BY <1>3, <1>5, <2>1, SMTT(20) DEF One
    <3> QED
      BY ONLY <1>8, <1>9, <1>11, <1>16, <2>1, <3>1, <3>2
  <2>2. CASE p # q
    <3>1. req'[p] = req[p] /\ cur.loc[p][1] = rows[req[p].idx][req[p].slen]
      BY <1>2, <1>11, <2>2 DEF LastSlot
    <3>2. req[p].idx # 0
      <4>1. LifeOf(p, req[p], Use(Old, p), Use(cur, p), Stands(can_run, running, p), Chunked(chunked_req, p), loop)
        BY LifeNow
      <4>2. Stands(can_run, running, p) # "can"
        BY <3>1, <4>1, SMTT(20) DEF LifeOf
      <4> QED
        BY <3>1, <4>1, <4>2 DEF LifeOf, Seated
    <3>3. rows'[req[p].idx] = rows[req[p].idx]
      BY <1>16, <1>17, <2>2, <3>2, SMTT(20) DEF Rowed
    <3> QED
      BY <3>1, <3>3
  <2> QED
    BY <2>1, <2>2
<1>24. Locks' /\ Slots'
  BY <1>21, <1>22, <1>23 DEF Locks, Slots
<1> QED
  BY <1>12, <1>14, <1>15, <1>19, <1>24 DEF OverlapInv

\* "Free the one extra delayed token": the late slot of a finished request goes back.
LEMMA DelayedInv ==
    ASSUME OverlapInv, loop = "apply", loop' = loop, result.reqs # <<>>,
           result' = [result EXCEPT !.reqs = Tail(@)], NEW q, q = Head(result.reqs),
           result.mode = "decode", req[q].st = "done", free' = Freed(free, result.loc[q]),
           UNCHANGED <<tree, rows, free_rows, req, running, can_run, chunked_req, server_args, cur>>
    PROVE  OverlapInv'
<1>1. /\ Old = result /\ q \in Request /\ q \in ToSet(Old.reqs) /\ Use(Old, q) = "decode"
      /\ result.loc[q] = <<result.loc[q][1]>>
      /\ IsBatch(Old') /\ q \notin ToSet(Old'.reqs) /\ Use(Old', q) = "none"
      /\ \A p \in Request : p # q => /\ Use(Old', p) = Use(Old, p)
                                     /\ p \in ToSet(Old'.reqs) <=> p \in ToSet(Old.reqs)
      /\ Old'.loc = Old.loc
  BY ResultFacts
<1>2. /\ TypesOf(req, chunked_req, server_args, Old, cur)
      /\ LivesOf(req, Old, cur, can_run, running, chunked_req, loop)
      /\ Part(tree.pos, TailsOf(req, rows, LateSlots(req, Old, cur)), free)
      /\ LastSlot(req, rows, cur)
  BY Before
<1>3. /\ LifeTypes(q, req[q], Use(Old, q), Use(cur, q), Stands(can_run, running, q), Chunked(chunked_req, q))
      /\ LifeOf(q, req[q], Use(Old, q), Use(cur, q), Stands(can_run, running, q), Chunked(chunked_req, q), "apply")
      /\ IsBatch(cur)
  BY <1>1, LifeNow
<1>4. /\ LifeOf(q, req[q], "none", Use(cur, q), Stands(can_run, running, q), Chunked(chunked_req, q), "apply")
      /\ Use(cur, q) = "none"
  BY <1>1, <1>3, LifeDelayed
<1>5. q \notin ToSet(cur.reqs)
  BY <1>3, <1>4, UseFacts
<1>6. Types'
  BY <1>1, <1>2 DEF Types, TypesOf
<1>7. Lives'
  BY <1>1, <1>2, <1>4 DEF Lives, LivesOf
<1>8. Lists' /\ Rows' /\ Locks'
  BY DEF OverlapInv, Lists, Rows, Locks, NumRows, MaxRunning
<1> DEFINE l == LateSlots(req, Old, cur)
           k == LateSlots(req, Old', cur)
<1>9. /\ DOMAIN l \subseteq Request
      /\ \A x : x \in DOMAIN l <=> /\ x \in Request /\ req[x].st = "done"
                                   /\ x \in ToSet(Old.reqs) \/ x \in ToSet(cur.reqs)
      /\ \A x \in DOMAIN l : x \in ToSet(cur.reqs) => l[x] = cur.loc[x][1]
      /\ \A x \in DOMAIN l : x \notin ToSet(cur.reqs) => l[x] = Old.loc[x][1]
  BY LateFacts
<1>10. /\ DOMAIN k \subseteq Request
       /\ \A x : x \in DOMAIN k <=> /\ x \in Request /\ req[x].st = "done"
                                    /\ x \in ToSet(Old'.reqs) \/ x \in ToSet(cur.reqs)
       /\ \A x \in DOMAIN k : x \in ToSet(cur.reqs) => k[x] = cur.loc[x][1]
       /\ \A x \in DOMAIN k : x \notin ToSet(cur.reqs) => k[x] = Old'.loc[x][1]
  <2> DEFINE o2 == Old'
  <2> HIDE DEF o2
  <2>1. LET y == LateSlots(req, o2, cur)
        IN  /\ DOMAIN y \subseteq Request
            /\ \A x : x \in DOMAIN y <=> /\ x \in Request /\ req[x].st = "done"
                                         /\ x \in ToSet(o2.reqs) \/ x \in ToSet(cur.reqs)
            /\ \A x \in DOMAIN y : x \in ToSet(cur.reqs) => y[x] = cur.loc[x][1]
            /\ \A x \in DOMAIN y : x \notin ToSet(cur.reqs) => y[x] = o2.loc[x][1]
    BY ONLY LateFacts
  <2> QED
    BY ONLY <2>1 DEF o2
<1> HIDE DEF l, k
<1>11. q \in DOMAIN l /\ l[q] = result.loc[q][1]
  BY <1>1, <1>5, <1>9
<1>12. DOMAIN k = DOMAIN l \ {q}
  BY ONLY <1>1, <1>5, <1>9, <1>10
<1>13. \A p \in DOMAIN k : k[p] = l[p]
  BY ONLY <1>1, <1>9, <1>10, <1>12
<1>14. Part(tree.pos, TailsOf(req, rows, l), free) /\ Records(req)
  BY <1>2, TypesFacts DEF l
<1>15. Part(tree.pos, TailsOf(req, rows, k), Freed(free, <<l[q]>>))
  BY ONLY <1>9, <1>11, <1>12, <1>13, <1>14, DropLate
<1>16. free' = Freed(free, <<l[q]>>)
  BY <1>1, <1>11
<1>17. Slots'
  BY <1>2, <1>15, <1>16 DEF Slots, k
<1> QED
  BY <1>6, <1>7, <1>8, <1>17 DEF OverlapInv

\* A counter of a request, and what keeps it a request.
LEMMA Counted ==
    ASSUME NEW r, IsReq(r), NEW k \in Nat
    PROVE  /\ LET r2 == [r EXCEPT !.chunks = k]
              IN  /\ IsReq(r2) /\ SeatKept(r, r2) /\ r2.out = r.out /\ r2.chunks = k /\ r2.st = r.st
                  /\ r2.retracted = r.retracted
           /\ LET r2 == [r EXCEPT !.out = k]
              IN  /\ IsReq(r2) /\ SeatKept(r, r2) /\ r2.out = k /\ r2.chunks = r.chunks /\ r2.st = r.st
                  /\ r2.retracted = r.retracted
<1>1. /\ r = [st |-> r.st, out |-> r.out, fill |-> r.fill, pre |-> r.pre, last |-> r.last,
              idx |-> r.idx, slen |-> r.slen, fut |-> r.fut, chunks |-> r.chunks,
              retracted |-> r.retracted]
      /\ r.st \in {"new", "queued", "in", "done", "gone"}
      /\ r.out \in Nat /\ r.fill \in Nat /\ r.slen \in Nat /\ r.chunks \in Nat
      /\ r.pre \in Seq(Slot)
  BY DEF IsReq
<1>2. ASSUME NEW a \in Nat, NEW b \in Nat, NEW r2,
             r2 = [st |-> r.st, out |-> a, fill |-> r.fill, pre |-> r.pre, last |-> r.last,
                   idx |-> r.idx, slen |-> r.slen, fut |-> r.fut, chunks |-> b,
                   retracted |-> r.retracted]
      PROVE  /\ IsReq(r2) /\ SeatKept(r, r2) /\ r2.out = a /\ r2.chunks = b /\ r2.st = r.st
             /\ r2.retracted = r.retracted
  <2>1. /\ r2.st = r.st /\ r2.out = a /\ r2.fill = r.fill /\ r2.idx = r.idx
        /\ r2.slen = r.slen /\ r2.chunks = b /\ r2.pre = r.pre /\ r2.last = r.last /\ r2.fut = r.fut
    BY ONLY <1>2
  <2>2. r2.retracted = r.retracted
    BY ONLY <1>2
  <2>3. r2 = [st |-> r2.st, out |-> r2.out, fill |-> r2.fill, pre |-> r2.pre, last |-> r2.last,
              idx |-> r2.idx, slen |-> r2.slen, fut |-> r2.fut, chunks |-> r2.chunks,
              retracted |-> r2.retracted]
    BY ONLY <1>2, <2>1, <2>2
  <2>4. IsReq(r2)
    BY ONLY <1>1, <1>2, <2>1, <2>3 DEF IsReq
  <2>5. SeatKept(r, r2)
    BY ONLY <2>1 DEF SeatKept
  <2> QED
    BY <2>1, <2>2, <2>4, <2>5
<1>3. \A r2 : r2 = [r EXCEPT !.chunks = k] =>
        /\ IsReq(r2) /\ SeatKept(r, r2) /\ r2.out = r.out /\ r2.chunks = k /\ r2.st = r.st
        /\ r2.retracted = r.retracted
  <2> TAKE r2
  <2> HAVE r2 = [r EXCEPT !.chunks = k]
  <2>1. r2 = [st |-> r.st, out |-> r.out, fill |-> r.fill, pre |-> r.pre, last |-> r.last,
              idx |-> r.idx, slen |-> r.slen, fut |-> r.fut, chunks |-> k,
              retracted |-> r.retracted]
    BY ONLY <1>1, r2 = [r EXCEPT !.chunks = k]
  <2> QED
    BY <1>1, <1>2, <2>1
<1>4. \A r2 : r2 = [r EXCEPT !.out = k] =>
        /\ IsReq(r2) /\ SeatKept(r, r2) /\ r2.out = k /\ r2.chunks = r.chunks /\ r2.st = r.st
        /\ r2.retracted = r.retracted
  <2> TAKE r2
  <2> HAVE r2 = [r EXCEPT !.out = k]
  <2>1. r2 = [st |-> r.st, out |-> k, fill |-> r.fill, pre |-> r.pre, last |-> r.last,
              idx |-> r.idx, slen |-> r.slen, fut |-> r.fut, chunks |-> r.chunks,
              retracted |-> r.retracted]
    BY ONLY <1>1, r2 = [r EXCEPT !.out = k]
  <2> QED
    BY <1>1, <1>2, <2>1
<1> QED
  BY <1>3, <1>4

\* The ways a result is applied.
Passes(q) == req[q].retracted /\ UNCHANGED <<tree, free, rows, free_rows, req>>
ChunkDone(q) ==
    /\ result.mode = "extend" /\ ~req[q].retracted /\ req[q].chunks > 0
    /\ req' = [req EXCEPT ![q].chunks = @ - 1] /\ UNCHANGED <<tree, free, rows, free_rows>>
IsOver(q) ==
    /\ ~req[q].retracted /\ req[q].st # "done" /\ (result.mode = "extend" => req[q].chunks = 0)
    /\ Finishes(q)
Prefilled(q) ==
    /\ result.mode = "extend" /\ ~req[q].retracted /\ req[q].chunks = 0 /\ Continues(q)
    /\ \E c \in {CacheUnfinishedReq(q)} :
          /\ tree' = c.tree /\ free' = c.free
          /\ rows' = [rows EXCEPT ![c.req.idx] = c.row]
          /\ req' = [req EXCEPT ![q] = [c.req EXCEPT !.out = @ + 1]]
          /\ UNCHANGED free_rows
IsLate(q) ==
    /\ result.mode = "decode" /\ ~req[q].retracted /\ req[q].st = "done"
    /\ free' = Freed(free, result.loc[q]) /\ UNCHANGED <<tree, rows, free_rows, req>>
Decoded(q) ==
    /\ result.mode = "decode" /\ ~req[q].retracted /\ req[q].st = "in" /\ Continues(q)
    /\ req' = [req EXCEPT ![q].out = @ + 1] /\ UNCHANGED <<tree, free, rows, free_rows>>
Applies(q) ==
    Passes(q) \/ ChunkDone(q) \/ IsOver(q) \/ Prefilled(q) \/ IsLate(q) \/ Decoded(q)

\* process_batch_result_prefill and process_batch_result_decode.
LEMMA AppliesResult ==
    ASSUME OverlapInv, ProcessBatchResult, NEW q, q = Head(result.reqs)
    PROVE  /\ loop = "apply" /\ loop' = loop /\ result.reqs # <<>>
           /\ result' = [result EXCEPT !.reqs = Tail(@)]
           /\ UNCHANGED <<running, can_run, chunked_req, server_args, cur>>
           /\ Applies(q)
<1>1. /\ loop = "apply" /\ loop' = loop /\ result.reqs # <<>>
      /\ result' = [result EXCEPT !.reqs = Tail(@)]
      /\ UNCHANGED <<running, can_run, chunked_req, server_args, cur>>
      /\ \/ result.mode = "extend" /\ ApplyPrefill(q)
         \/ result.mode = "decode" /\ ApplyDecode(q)
  BY DEF ProcessBatchResult, queue
<1>2. Use(Old, q) = result.mode /\ q \in Request
  BY ONLY <1>1, OverlapInv, q = Head(result.reqs), ResultFacts
<1>3. ASSUME result.mode = "extend", ~req[q].retracted PROVE req[q].st # "done"
  <2>1. LifeOf(q, req[q], Use(Old, q), Use(cur, q), Stands(can_run, running, q),
               Chunked(chunked_req, q), loop)
    BY ONLY <1>2, OverlapInv, LifeNow
  <2> QED
    BY ONLY <1>2, <1>3, <2>1 DEF LifeOf
<1> SUFFICES Applies(q)
  BY <1>1
<1>4. CASE result.mode = "extend" /\ ApplyPrefill(q)
  <2>1. CASE Skipped(q) /\ Skip
    <3>2. req[q].retracted
      BY ONLY <2>1 DEF Skipped
    <3>3. UNCHANGED <<tree, free, rows, free_rows, req>>
      BY ONLY <2>1 DEF Skip, pools
    <3>1. Passes(q)
      BY ONLY <3>2, <3>3, Zenon DEF Passes
    <3> QED
      BY ONLY <3>1 DEF Applies
  <2>2. CASE /\ ~Skipped(q) /\ req[q].chunks > 0
             /\ req' = [req EXCEPT ![q].chunks = @ - 1] /\ UNCHANGED <<tree, pools, kv>>
    <3>2. ~req[q].retracted
      BY ONLY <2>2 DEF Skipped
    <3>1. ChunkDone(q)
      BY ONLY <3>2, <1>4, <2>2 DEF pools, ChunkDone
    <3> QED
      BY ONLY <3>1 DEF Applies
  <2>3. CASE ~Skipped(q) /\ req[q].chunks = 0 /\ Finishes(q)
    <3>1. ~req[q].retracted
      BY ONLY <2>3 DEF Skipped
    <3>2. IsOver(q)
      BY ONLY <1>3, <1>4, <2>3, <3>1 DEF IsOver
    <3> QED
      BY ONLY <3>2 DEF Applies
  <2>4. CASE /\ ~Skipped(q) /\ req[q].chunks = 0 /\ Continues(q)
             /\ \E c \in {CacheUnfinishedReq(q)} :
                  /\ tree' = c.tree /\ free' = c.free
                  /\ kv' = Forget(kv, free')
                  /\ rows' = [rows EXCEPT ![c.req.idx] = c.row]
                  /\ req' = [req EXCEPT ![q] = [c.req EXCEPT !.out = @ + 1]]
                  /\ UNCHANGED free_rows
    <3>2. ~req[q].retracted
      BY ONLY <2>4 DEF Skipped
    <3>1. Prefilled(q)
      BY ONLY <3>2, <1>4, <2>4 DEF Prefilled
    <3> QED
      BY ONLY <3>1 DEF Applies
  <2> QED
    BY ONLY <1>1, <1>4, <2>1, <2>2, <2>3, <2>4, Zenon DEF ApplyPrefill
<1>5. CASE result.mode = "decode" /\ ApplyDecode(q)
  <2>1. CASE Skipped(q) /\ Skip
    <3>2. req[q].retracted
      BY ONLY <2>1 DEF Skipped
    <3>3. UNCHANGED <<tree, free, rows, free_rows, req>>
      BY ONLY <2>1 DEF Skip, pools
    <3>1. Passes(q)
      BY ONLY <3>2, <3>3, Zenon DEF Passes
    <3> QED
      BY ONLY <3>1 DEF Applies
  <2>2. CASE /\ ~Skipped(q) /\ req[q].st = "done"
             /\ free' = Freed(free, DelayedToken(q)) /\ kv' = Forget(kv, free')
             /\ UNCHANGED <<tree, rows, free_rows, req>>
    <3>2. ~req[q].retracted
      BY ONLY <2>2 DEF Skipped
    <3>1. IsLate(q)
      BY ONLY <3>2, <1>5, <2>2 DEF DelayedToken, IsLate
    <3> QED
      BY ONLY <3>1 DEF Applies
  <2>3. CASE ~Skipped(q) /\ req[q].st = "in" /\ Finishes(q)
    <3>2. ~req[q].retracted
      BY ONLY <2>3 DEF Skipped
    <3>1. IsOver(q)
      BY ONLY <3>2, <1>5, <2>3 DEF IsOver
    <3> QED
      BY ONLY <3>1 DEF Applies
  <2>4. CASE /\ ~Skipped(q) /\ req[q].st = "in" /\ Continues(q)
             /\ req' = [req EXCEPT ![q].out = @ + 1]
             /\ UNCHANGED <<tree, pools, kv>>
    <3>2. ~req[q].retracted
      BY ONLY <2>4 DEF Skipped
    <3>1. Decoded(q)
      BY ONLY <3>2, <1>5, <2>4 DEF pools, Decoded
    <3> QED
      BY ONLY <3>1 DEF Applies
  <2> QED
    BY ONLY <1>1, <1>5, <2>1, <2>2, <2>3, <2>4 DEF ApplyDecode
<1> QED
  BY ONLY <1>1, <1>4, <1>5

\* process_batch_result for one request.
LEMMA ProcessInv == ASSUME OverlapInv, ProcessBatchResult PROVE OverlapInv'
<1> DEFINE q == Head(result.reqs)
           r == req[q]
<1>0. q = Head(result.reqs)
  OBVIOUS
<1> HIDE DEF q
<1>1. /\ loop = "apply" /\ loop' = loop /\ result.reqs # <<>>
      /\ result' = [result EXCEPT !.reqs = Tail(@)]
      /\ UNCHANGED <<running, can_run, chunked_req, server_args, cur>>
      /\ Applies(q)
  BY <1>0, AppliesResult
<1>2. /\ Old = result /\ q \in Request /\ Use(Old, q) = result.mode
      /\ result.mode \in {"extend", "decode"}
  BY ONLY OverlapInv, <1>0, <1>1, ResultFacts
<1> DEFINE o == Use(Old, q)
           n == Use(cur, q)
           w == Stands(can_run, running, q)
           h == Chunked(chunked_req, q)
<1>3. LifeTypes(q, r, o, n, w, h) /\ LifeOf(q, r, o, n, w, h, "apply") /\ IsReq(r) /\ o # "none"
      /\ DOMAIN req = Request
  BY ONLY OverlapInv, <1>1, <1>2, LifeNow
<1>10. req = [x \in Request |-> req[x]]
  BY Before DEF TypesOf
<1>4. CASE Passes(q)
  <2>10. r.retracted /\ UNCHANGED <<tree, free, rows, free_rows, req>>
    BY ONLY <1>4 DEF Passes
  <2>1. LifeOf(q, r, "none", n, w, h, "apply") /\ r.st = "queued"
    BY ONLY <1>3, <2>10, LifeSkips
  <2>2. SeatKept(r, r)
    BY DEF SeatKept
  <2>3. req' = [req EXCEPT ![q] = r]
    BY ONLY <1>2, <1>10, <2>10
  <2> HIDE DEF r
  <2>4. r = req[q] /\ req[q].st # "done"
    BY ONLY <2>1 DEF r
  <2> QED
    BY ONLY OverlapInv, <1>0, <1>1, <1>3, <2>10, <2>1, <2>2, <2>3, <2>4, QuietResult
<1>5. CASE ChunkDone(q)
  <2>10. /\ result.mode = "extend" /\ ~r.retracted /\ r.chunks > 0
         /\ req' = [req EXCEPT ![q].chunks = @ - 1] /\ UNCHANGED <<tree, free, rows, free_rows>>
    BY ONLY <1>5 DEF ChunkDone
  <2> DEFINE k == r.chunks - 1
             r2 == [r EXCEPT !.chunks = k]
  <2>1. r.chunks \in Nat /\ k \in Nat
    BY ONLY <1>3, <2>10 DEF IsReq
  <2>2. /\ IsReq(r2) /\ SeatKept(r, r2) /\ r2.out = r.out /\ r2.chunks = r.chunks - 1 /\ r2.st = r.st
        /\ r2.retracted = r.retracted
    <3> HIDE DEF k
    <3>1. /\ IsReq(r2) /\ SeatKept(r, r2) /\ r2.out = r.out /\ r2.chunks = k /\ r2.st = r.st
          /\ r2.retracted = r.retracted
      BY ONLY <1>3, <2>1, Counted
    <3> QED
      BY ONLY <3>1 DEF k
  <2>3. req' = [req EXCEPT ![q] = r2]
    BY ONLY <2>10
  <2> HIDE DEF r2
  <2>4. LifeOf(q, r2, "none", n, w, h, "apply") /\ r.st = "in"
    BY ONLY <1>2, <1>3, <2>10, <2>2, LifeChunkDone DEF SeatKept
  <2>5. r.st # "done"
    BY ONLY <2>4
  <2> QED
    BY ONLY OverlapInv, <1>0, <1>1, <1>3, <2>10, <2>2, <2>3, <2>4, <2>5, QuietResult
<1>6. CASE IsOver(q)
  <2>10. /\ ~r.retracted /\ r.st # "done" /\ (result.mode = "extend" => r.chunks = 0) /\ Finishes(q)
    BY ONLY <1>6 DEF IsOver
  <2>1. Appended(q, r, o, n, w, h)
    BY ONLY <1>2, <1>3, <2>10, LifeAppended
  <2> QED
    BY ONLY OverlapInv, <1>0, <1>1, <2>10, <2>1, FinishInv
<1>7. CASE Prefilled(q)
  <2>10. /\ result.mode = "extend" /\ ~r.retracted /\ r.chunks = 0 /\ Continues(q)
         /\ \E c \in {CacheUnfinishedReq(q)} :
                /\ tree' = c.tree /\ free' = c.free
                /\ rows' = [rows EXCEPT ![c.req.idx] = c.row]
                /\ req' = [req EXCEPT ![q] = [c.req EXCEPT !.out = @ + 1]]
                /\ UNCHANGED free_rows
    BY ONLY <1>7 DEF Prefilled
  <2>0. r.st # "done"
    BY ONLY <1>2, <1>3, <2>10 DEF LifeOf
  <2>1. Appended(q, r, o, n, w, h)
    BY ONLY <1>2, <1>3, <2>10, <2>0, LifeAppended
  <2>2. r.out + 1 < Meta[q].out
    BY ONLY <2>10 DEF Continues
  <2>3. PICK c : /\ c = CacheUnfinishedReq(q) /\ tree' = c.tree /\ free' = c.free
                 /\ rows' = [rows EXCEPT ![c.req.idx] = c.row]
                 /\ req' = [req EXCEPT ![q] = [c.req EXCEPT !.out = @ + 1]]
                 /\ UNCHANGED free_rows
    BY ONLY <2>10
  <2>4. Use(Old, q) = "extend"
    BY ONLY <1>2, <2>10
  <2> QED
    BY ONLY OverlapInv, <1>0, <1>1, <2>1, <2>2, <2>3, <2>4, PrefilledInv
<1>8. CASE IsLate(q)
  <2>10. /\ result.mode = "decode" /\ ~r.retracted /\ r.st = "done"
         /\ free' = Freed(free, result.loc[q]) /\ UNCHANGED <<tree, rows, free_rows, req>>
    BY ONLY <1>8 DEF IsLate
  <2> QED
    BY ONLY OverlapInv, <1>0, <1>1, <2>10, DelayedInv
<1>9. CASE Decoded(q)
  <2>10. /\ result.mode = "decode" /\ ~r.retracted /\ r.st = "in" /\ Continues(q)
         /\ req' = [req EXCEPT ![q].out = @ + 1] /\ UNCHANGED <<tree, free, rows, free_rows>>
    BY ONLY <1>9 DEF Decoded
  <2> DEFINE k == r.out + 1
             r2 == [r EXCEPT !.out = k]
  <2>1. r.out \in Nat /\ k \in Nat
    BY ONLY <1>3 DEF IsReq
  <2>2. /\ IsReq(r2) /\ SeatKept(r, r2) /\ r2.out = r.out + 1 /\ r2.chunks = r.chunks /\ r2.st = r.st
        /\ r2.retracted = r.retracted
    <3> HIDE DEF k
    <3>1. /\ IsReq(r2) /\ SeatKept(r, r2) /\ r2.out = k /\ r2.chunks = r.chunks /\ r2.st = r.st
          /\ r2.retracted = r.retracted
      BY ONLY <1>3, <2>1, Counted
    <3> QED
      BY ONLY <3>1 DEF k
  <2>3. req' = [req EXCEPT ![q] = r2]
    BY ONLY <2>10
  <2> HIDE DEF r2
  <2>4. Appended(q, r, o, n, w, h)
    BY ONLY <1>2, <1>3, <2>10, LifeAppended
  <2>5. /\ r2.fill = r.fill /\ r2.idx = r.idx /\ r2.slen = r.slen /\ r2.pre = r.pre
        /\ r2.out < Meta[q].out
    BY ONLY <2>10, <2>2 DEF SeatKept, Continues
  <2>6. Len(r2.pre) \in Nat /\ Len(r2.pre) <= r.fill
    BY ONLY <1>3, <2>4, <2>5, LifeNumbers DEF Appended
  <2>7. LifeOf(q, r2, "none", n, w, h, "apply")
    BY ONLY <1>3, <2>10, <2>2, <2>4, <2>5, <2>6, LifeGoesOn
  <2>8. r.st # "done" /\ q \notin ToSet(can_run)
    BY ONLY <2>10, <2>4, StandsFacts DEF Appended
  <2> QED
    BY ONLY OverlapInv, <1>0, <1>1, <1>3, <2>10, <2>2, <2>3, <2>7, <2>8, QuietResult
<1> QED
  BY ONLY <1>1, <1>4, <1>5, <1>6, <1>7, <1>8, <1>9 DEF Applies

-----------------------------------------------------------------------------
(* get_next_batch_to_run *)

\* The smaller of two numbers.
LEMMA MinOf ==
    ASSUME NEW a \in Nat, NEW b \in Nat
    PROVE  LET m == Min({a, b})
           IN  m \in Nat /\ m <= a /\ m <= b /\ (m < a => m = b) /\ (m = a \/ m = b)
<1> DEFINE P(x) == x \in {a, b} /\ \A y \in {a, b} : x =< y
<1>1. \E x : P(x)
  <2>1. CASE a <= b
    BY <2>1
  <2>2. CASE ~(a <= b)
    BY <2>2
  <2> QED
    BY <2>1, <2>2
<1>2. Min({a, b}) \in {a, b} /\ \A y \in {a, b} : Min({a, b}) =< y
  BY <1>1 DEF Min
<1> DEFINE m == Min({a, b})
<1>3. (m = a \/ m = b) /\ m <= a /\ m <= b
  BY <1>2
<1> HIDE DEF m
<1>4. m \in Nat /\ m <= a /\ m <= b /\ (m < a => m = b) /\ (m = a \/ m = b)
  BY <1>3
<1> QED
  BY <1>4 DEF m

\* The running requests and those of the last prefill batch.
LEMMA MergedFacts ==
    ASSUME OverlapInv, loop = "recv"
    PROVE  /\ running \o Merged \in Seq(Request) /\ Distinct(running \o Merged)
           /\ \A q : q \in ToSet(running \o Merged) <=>
                 \/ q \in ToSet(running)
                 \/ Use(Old, q) = "extend" /\ req[q].st # "done" /\ q # chunked_req
           /\ \A q \in Request : Stands(can_run, running, q) # "can"
           /\ \A q : q \notin ToSet(can_run)
<1>1. /\ TypesOf(req, chunked_req, server_args, Old, cur)
      /\ LivesOf(req, Old, cur, can_run, running, chunked_req, loop)
      /\ ListsOf(req, running, can_run, chunked_req, server_args, loop)
  BY Before
<1>2. Old = last_batch /\ IsBatch(last_batch)
  BY <1>1 DEF Old, TypesOf
<1>3. running \in Seq(Request) /\ Distinct(running) /\ ToSet(running) \subseteq Request
      /\ ToSet(can_run) \subseteq Request
  BY <1>1, ToSetFacts DEF ListsOf
<1>4. last_batch.reqs \in Seq(Request) /\ Distinct(last_batch.reqs)
      /\ ToSet(last_batch.reqs) \subseteq Request
  BY <1>2, ToSetFacts DEF IsBatch
<1>5. /\ Merged \in Seq(Request) /\ Distinct(Merged)
      /\ \A q : q \in ToSet(Merged) <=> Use(Old, q) = "extend" /\ req[q].st # "done" /\ q # chunked_req
  <2>1. CASE last_batch.mode # "extend"
    <3>1. Merged = <<>>
      BY <2>1 DEF Merged
    <3>2. \A q : Use(Old, q) # "extend"
      BY <1>2, <2>1 DEF Use
    <3> QED
      BY <3>1, <3>2, EmptyList
  <2>2. CASE last_batch.mode = "extend"
    <3> DEFINE S == NotDone \ {chunked_req}
    <3>1. Merged = Filter(last_batch.reqs, S)
      BY <2>2 DEF Merged
    <3>2. \A q : Use(Old, q) = "extend" <=> q \in ToSet(last_batch.reqs)
      BY <1>2, <2>2 DEF Use
    <3>3. \A q \in Request : q \in S <=> req[q].st # "done" /\ q # chunked_req
      BY DEF NotDone
    <3> HIDE DEF S
    <3>4. /\ Merged \in Seq(Request) /\ Distinct(Merged)
          /\ \A q : q \in ToSet(Merged) <=> q \in ToSet(last_batch.reqs) /\ q \in S
      BY <1>4, <3>1, FilterFacts
    <3> QED
      BY <1>4, <3>2, <3>3, <3>4
  <2> QED
    BY <2>1, <2>2
<1>6. \A q \in Request : Stands(can_run, running, q) # "can"
  BY <1>1 DEF LivesOf, LifeOf
<1>7. \A q : q \notin ToSet(can_run)
  BY <1>3, <1>6, StandsFacts
<1>8. \A q \in ToSet(running) : q \notin ToSet(Merged)
  <2> SUFFICES ASSUME NEW q \in ToSet(running), q \in ToSet(Merged) PROVE FALSE
    OBVIOUS
  <2>1. Use(Old, q) = "extend" /\ req[q].st # "done" /\ q \in Request
    BY <1>3, <1>5
  <2>2. Stands(can_run, running, q) = "run"
    BY <1>7, StandsFacts
  <2>3. LifeOf(q, req[q], Use(Old, q), Use(cur, q), Stands(can_run, running, q), Chunked(chunked_req, q), loop)
        /\ IsReq(req[q])
    BY <2>1, LifeNow
  <2> QED
    BY <2>1, <2>2, <2>3 DEF LifeOf, IsReq
<1>9. /\ running \o Merged \in Seq(Request) /\ Distinct(running \o Merged)
      /\ \A q : q \in ToSet(running \o Merged) <=> q \in ToSet(running) \/ q \in ToSet(Merged)
  BY <1>3, <1>5, <1>8, ConcatSet
<1> QED
  BY <1>5, <1>6, <1>7, <1>9

\* A request that is not prefilled in chunks.
LEMMA MergesLife ==
    ASSUME OverlapInv, loop = "recv", NEW q \in Request, q # chunked_req, NEW cr, q \notin ToSet(cr)
    PROVE  LifeOf(q, req[q], Use(Old, q), Use(cur, q), Stands(cr, running \o Merged, q),
                  Chunked(chunked_req, q), "admit")
<1> DEFINE w == Stands(can_run, running, q)
           w2 == Stands(cr, running \o Merged, q)
<1>1. /\ \A p : p \in ToSet(running \o Merged) <=>
                 \/ p \in ToSet(running)
                 \/ Use(Old, p) = "extend" /\ req[p].st # "done" /\ p # chunked_req
      /\ w # "can" /\ q \notin ToSet(can_run)
  BY MergedFacts
<1>2. w2 = IF Use(Old, q) = "extend" /\ req[q].st # "done" THEN "run" ELSE w
  BY <1>1 DEF Stands
<1>3. /\ LifeTypes(q, req[q], Use(Old, q), Use(cur, q), w, Chunked(chunked_req, q))
      /\ LifeOf(q, req[q], Use(Old, q), Use(cur, q), w, Chunked(chunked_req, q), "recv")
  BY LifeNow
<1>4. Chunked(chunked_req, q) = "no"
  BY DEF Chunked
<1> HIDE DEF w, w2
<1>5. LifeOf(q, req[q], Use(Old, q), Use(cur, q), w2, Chunked(chunked_req, q), "admit")
  BY <1>2, <1>3, <1>4, LifeMerges
<1> QED
  BY <1>5 DEF w2

\* No prompt is being prefilled in chunks.
LEMMA MergeInv ==
    ASSUME OverlapInv, FlowInv, GetNextBatchToRun, chunked_req = NoReq
    PROVE  OverlapInv'
<1>1. /\ loop = "recv" /\ loop' = "admit" /\ running' = running \o Merged /\ can_run' = <<>>
      /\ UNCHANGED <<tree, free, rows, free_rows, req, server_args, chunked_req, cur, last_batch, result>>
  BY DEF GetNextBatchToRun, pools, flow
<1>2. Old' = Old
  BY <1>1 DEF Old
<1>3. /\ running \o Merged \in Seq(Request) /\ Distinct(running \o Merged)
      /\ \A q : q \notin ToSet(can_run)
  BY <1>1, MergedFacts
<1>4. Types'
  BY <1>1, <1>2, Before DEF Types
<1>5. Lives'
  <2>1. \A q \in Request : LifeOf(q, req[q], Use(Old, q), Use(cur, q), Stands(<<>>, running \o Merged, q),
                                  Chunked(chunked_req, q), "admit")
    <3> TAKE q \in Request
    <3>1. q # chunked_req /\ q \notin ToSet(<<>>)
      BY EmptyList, OverlapAssumption
    <3> QED
      BY <1>1, <3>1, MergesLife
  <2> QED
    BY <1>1, <1>2, <2>1 DEF Lives, LivesOf
<1>6. Lists'
  BY <1>1, <1>3, EmptyList DEF Lists, ListsOf
<1>7. SameSeats(req, req')
  BY <1>1 DEF SameSeats, SameEnds
<1>8. \A q : q \in HeldBy(req', can_run') <=> q \in HeldBy(req, can_run)
  BY <1>1, <1>3, EmptyList DEF HeldBy
<1>9. LateStay(req, Old, cur, Old', cur') /\ LastSlot(req', rows', cur')
  BY <1>1, <1>2, LateStays, Before
<1> QED
  BY <1>1, <1>4, <1>5, <1>6, <1>7, <1>8, <1>9, QuietInv

\* The chunk that was launched is cached, and the next one goes first into the new
\* batch.
LEMMA ChunkInv ==
    ASSUME OverlapInv, GetNextBatchToRun, chunked_req # NoReq
    PROVE  OverlapInv'
<1> DEFINE q == chunked_req
           r == req[q]
           c == CacheUnfinishedReq(q)
           f == Min({SeqLen(q), Len(c.req.pre) + ChunkedSize})
           r2 == [c.req EXCEPT !.idx = 0, !.slen = 0, !.fut = 0, !.fill = f]
           H == HeldBy(req, can_run)
           t == TailsOf(req, rows, LateSlots(req, Old, cur))
           v == TailsOf(req', rows', LateSlots(req', Old', cur))
<1>1. /\ loop = "recv" /\ loop' = "admit" /\ running' = running \o Merged
      /\ tree' = c.tree /\ free' = c.free
      /\ rows' = [rows EXCEPT ![c.req.idx] = c.row]
      /\ free_rows' = Append(free_rows, c.req.idx)
      /\ req' = [req EXCEPT ![q] = r2] /\ can_run' = <<q>>
      /\ UNCHANGED <<server_args, chunked_req, cur, last_batch, result>>
  BY DEF GetNextBatchToRun, NextChunk, flow
<1>2. /\ TypesOf(req, chunked_req, server_args, Old, cur)
      /\ LivesOf(req, Old, cur, can_run, running, chunked_req, loop)
      /\ ListsOf(req, running, can_run, chunked_req, server_args, loop)
      /\ RowsOf(req, rows, free_rows, NumRows)
      /\ LocksOf(tree, H, req) /\ LastSlot(req, rows, cur)
  BY ONLY OverlapInv, Before
<1>3. q \in Request
  BY ONLY <1>2, chunked_req # NoReq DEF TypesOf
<1>4. Old' = Old
  BY ONLY <1>1 DEF Old
<1>5. /\ LifeTypes(q, r, Use(Old, q), Use(cur, q), Stands(can_run, running, q), Chunked(chunked_req, q))
      /\ LifeOf(q, r, Use(Old, q), Use(cur, q), Stands(can_run, running, q), Chunked(chunked_req, q), "recv")
      /\ IsBatch(Old) /\ IsBatch(cur) /\ IsReq(r)
  BY ONLY OverlapInv, <1>1, <1>3, LifeNow
<1>6. Chunked(chunked_req, q) = "yes"
  BY ONLY TRUE DEF Chunked
<1>7. /\ running \o Merged \in Seq(Request) /\ Distinct(running \o Merged)
      /\ (\A p : p \in ToSet(running \o Merged) <=>
            \/ p \in ToSet(running)
            \/ Use(Old, p) = "extend" /\ req[p].st # "done" /\ p # chunked_req)
      /\ \A p : p \notin ToSet(can_run)
      /\ \A p \in Request : Stands(can_run, running, p) # "can"
  BY ONLY OverlapInv, <1>1, MergedFacts
<1>8. /\ r.st = "in" /\ r.idx # 0 /\ Len(r.pre) <= r.fill /\ r.fill = r.slen
      /\ r.fill < Full(q, r) /\ r.out < Meta[q].out
  <2>0. Stands(can_run, running, q) # "can"
    BY ONLY <1>3, <1>7
  <2>1. r.st = "in"
    BY ONLY <1>5, <1>6 DEF LifeOf, IsReq
  <2>2. Seated(q, r, Use(Old, q), Use(cur, q), "yes") /\ r.out < Meta[q].out
    BY ONLY <1>5, <1>6, <2>0, <2>1 DEF LifeOf
  <2> QED
    BY ONLY <2>1, <2>2 DEF Seated
<1>9. /\ Len(r.pre) \in Nat /\ r.fill \in Nat /\ r.slen \in Nat /\ r.out \in Nat /\ Full(q, r) \in Nat
      /\ Full(q, r) = Len(Meta[q].prompt) + r.out /\ Len(Meta[q].prompt) \in Nat /\ Meta[q].out \in Nat
  BY ONLY <1>5, LifeNumbers
<1>10. Recaching(q, r)
  <2>1. Len(Text(q)) = Len(Meta[q].prompt) + Meta[q].out
    BY ONLY <1>3, TextFacts
  <2>2. r.fill <= Len(Text(q)) /\ r.fill <= r.slen
    BY ONLY <1>8, <1>9, <2>1, SMTT(20)
  <2> QED
    BY ONLY <1>3, <1>8, <2>2 DEF Recaching
<1>11. /\ Recached(q, r, Row(q), c)
       /\ \A S, x : OthersKept(req, S, H, q) /\ S[q].pre = c.req.pre /\ S[q].last = c.req.last
                   /\ Loses(t, q, Row(q), Len(r.pre), r.fill, x)
            => LocksOf(c.tree, H, S) /\ Part(c.tree.pos, x, c.free)
  BY ONLY OverlapInv, <1>10, RecacheFacts
<1> HIDE DEF c
<1>12. /\ c.req = [r EXCEPT !.pre = c.req.pre, !.last = c.req.last]
       /\ c.req.pre \in Seq(Slot) /\ Len(c.req.pre) = r.fill
       /\ c.row \in Seq(Slot) /\ Len(c.row) = r.slen
       /\ \A i \in 1..r.fill : c.row[i] = c.req.pre[i]
  BY ONLY <1>11 DEF Recached
<1>13. /\ ChunkedSize \in Nat /\ ChunkedSize # 0 /\ NumRows \in Nat
  BY ONLY OverlapInv, SizeFacts DEF OverlapInv
<1>14. /\ f \in Nat /\ r.fill < f /\ f <= Full(q, r)
       /\ f < Full(q, r) => f = r.fill + ChunkedSize
  <2>1. SeqLen(q) = Full(q, r)
    BY ONLY TRUE DEF SeqLen, Full
  <2> DEFINE a == Full(q, r)
             b == r.fill + ChunkedSize
  <2>2. a \in Nat /\ b \in Nat /\ r.fill < a /\ r.fill < b
    BY ONLY <1>8, <1>9, <1>13
  <2>3. f = Min({a, b})
    BY ONLY <1>12, <2>1
  <2> HIDE DEF a, b, f
  <2>4. f \in Nat /\ f <= a /\ f <= b /\ (f < a => f = b) /\ (f = a \/ f = b)
    BY ONLY <2>2, <2>3, MinOf
  <2> QED
    BY ONLY <2>2, <2>4 DEF a, b
<1> HIDE DEF f
<1>15. /\ IsReq(r2) /\ r2.st = r.st /\ r2.out = r.out /\ r2.fill = f /\ r2.idx = 0
       /\ r2.slen = 0 /\ r2.chunks = r.chunks /\ r2.retracted = r.retracted
       /\ r2.pre = c.req.pre /\ r2.last = c.req.last /\ c.req.idx = r.idx
  <2> DEFINE cr == c.req
  <2>0. r2 = [cr EXCEPT !.idx = 0, !.slen = 0, !.fut = 0, !.fill = f]
    OBVIOUS
  <2>1. cr = [r EXCEPT !.pre = cr.pre, !.last = cr.last] /\ cr.pre \in Seq(Slot)
    BY ONLY <1>12
  <2> HIDE DEF r2, cr, r
  <2>2. /\ r = [st |-> r.st, out |-> r.out, fill |-> r.fill, pre |-> r.pre, last |-> r.last,
                idx |-> r.idx, slen |-> r.slen, fut |-> r.fut, chunks |-> r.chunks,
                retracted |-> r.retracted]
        /\ r.st \in {"new", "queued", "in", "done", "gone"}
        /\ r.out \in Nat /\ r.chunks \in Nat
    BY ONLY <1>5 DEF IsReq
  <2>3. cr = [st |-> r.st, out |-> r.out, fill |-> r.fill, pre |-> cr.pre, last |-> cr.last,
              idx |-> r.idx, slen |-> r.slen, fut |-> r.fut, chunks |-> r.chunks,
              retracted |-> r.retracted]
    BY ONLY <2>1, <2>2
  <2>4. r2 = [st |-> r.st, out |-> r.out, fill |-> f, pre |-> cr.pre, last |-> cr.last,
              idx |-> 0, slen |-> 0, fut |-> 0, chunks |-> r.chunks,
              retracted |-> r.retracted]
    <3> DEFINE x1 == [cr EXCEPT !.idx = 0]
               x2 == [x1 EXCEPT !.slen = 0]
               x3 == [x2 EXCEPT !.fut = 0]
    <3>1. x1 = [st |-> r.st, out |-> r.out, fill |-> r.fill, pre |-> cr.pre, last |-> cr.last,
                idx |-> 0, slen |-> r.slen, fut |-> r.fut, chunks |-> r.chunks,
                retracted |-> r.retracted]
      BY ONLY <2>3
    <3>0. r2 = [x3 EXCEPT !.fill = f]
      BY ONLY <2>0
    <3> HIDE DEF x1
    <3>2. x2 = [st |-> r.st, out |-> r.out, fill |-> r.fill, pre |-> cr.pre, last |-> cr.last,
                idx |-> 0, slen |-> 0, fut |-> r.fut, chunks |-> r.chunks,
                retracted |-> r.retracted]
      BY ONLY <3>1
    <3> HIDE DEF x2
    <3>3. x3 = [st |-> r.st, out |-> r.out, fill |-> r.fill, pre |-> cr.pre, last |-> cr.last,
                idx |-> 0, slen |-> 0, fut |-> 0, chunks |-> r.chunks,
                retracted |-> r.retracted]
      BY ONLY <3>2
    <3> HIDE DEF x3
    <3> QED
      BY ONLY <3>0, <3>3
  <2>5. /\ r2.st = r.st /\ r2.out = r.out /\ r2.fill = f /\ r2.idx = 0
        /\ r2.slen = 0 /\ r2.chunks = r.chunks
        /\ r2.pre = cr.pre /\ r2.last = cr.last /\ r2.fut = 0
    BY ONLY <2>4
  <2>6. r2.retracted = r.retracted
    BY ONLY <2>4
  <2>7. cr.idx = r.idx
    BY ONLY <2>3
  <2>8. r2 = [st |-> r2.st, out |-> r2.out, fill |-> r2.fill, pre |-> r2.pre, last |-> r2.last,
              idx |-> r2.idx, slen |-> r2.slen, fut |-> r2.fut, chunks |-> r2.chunks,
              retracted |-> r2.retracted]
    BY ONLY <2>4, <2>5, <2>6
  <2>9. 0 \in Nat
    OBVIOUS
  <2>10. IsReq(r2)
    BY ONLY <1>14, <2>1, <2>2, <2>5, <2>8, <2>9 DEF IsReq
  <2> QED
    BY ONLY <2>5, <2>6, <2>7, <2>10 DEF cr
<1>16. req' = [req EXCEPT ![q] = r2]
  BY ONLY <1>1
<1> HIDE DEF r2
<1>17. /\ TypesOf(req', chunked_req, server_args, Old, cur) /\ req'[q] = r2
       /\ \A x \in Request : x # q => req'[x] = req[x]
       /\ Records(req) /\ Records(req')
  <2>1. LET S == [req EXCEPT ![q] = r2]
        IN  /\ TypesOf(S, chunked_req, server_args, Old, cur) /\ S[q] = r2
            /\ \A x \in Request : x # q => S[x] = req[x]
            /\ Records(req) /\ Records(S)
    BY ONLY <1>2, <1>3, <1>5, <1>15, OneChanged
  <2> QED
    BY ONLY <1>16, <2>1
<1>18. Types'
  BY ONLY <1>1, <1>4, <1>17 DEF Types
<1>19. \A x : x \in ToSet(<<q>>) <=> x = q
  BY ONLY TRUE DEF ToSet
<1>20. Lives'
  <2>1. LifeOf(q, r2, Use(Old, q), Use(cur, q), "can", Chunked(chunked_req, q), "admit")
    BY ONLY <1>5, <1>6, <1>8, <1>12, <1>14, <1>15, LifeChunk
  <2>2. Stands(<<q>>, running \o Merged, q) = "can"
    BY ONLY <1>19, StandsFacts
  <2>3. \A p \in Request : p # q =>
            LifeOf(p, req[p], Use(Old, p), Use(cur, p), Stands(<<q>>, running \o Merged, p),
                   Chunked(chunked_req, p), "admit")
    <3> TAKE p \in Request
    <3> HAVE p # q
    <3>1. p \notin ToSet(<<q>>)
      BY ONLY <1>19, p # q
    <3>2. p # chunked_req
      BY ONLY p # q
    <3> QED
      BY ONLY OverlapInv, <1>1, p \in Request, <3>1, <3>2, MergesLife
  <2>4. \A p \in Request : LifeOf(p, req'[p], Use(Old, p), Use(cur, p),
                                  Stands(<<q>>, running \o Merged, p), Chunked(chunked_req, p), "admit")
    BY ONLY <1>17, <2>1, <2>2, <2>3
  <2> QED
    BY ONLY <1>1, <1>4, <2>4 DEF Lives, LivesOf
<1>21. q \notin ToSet(running \o Merged)
  <2>1. Stands(can_run, running, q) # "run"
    BY ONLY <1>5, <1>6, <1>8 DEF LifeOf
  <2> QED
    BY ONLY <1>7, <2>1, StandsFacts
<1>22. Lists'
  <2>1. <<q>> \in Seq(Request) /\ Distinct(<<q>>)
    BY ONLY <1>3 DEF Distinct
  <2>2. Cut(q, req'[q]) => req'[q].fill - Len(req'[q].pre) = ChunkedSize
    <3>1. Full(q, r2) = Full(q, r)
      BY ONLY <1>15 DEF Full
    <3> QED
      <4>1. Len(r2.pre) = r.fill /\ r2.fill = f
        BY ONLY <1>12, <1>15
      <4>2. Cut(q, r2) => f - r.fill = ChunkedSize
        BY ONLY <1>9, <1>13, <1>14, <1>15, <3>1 DEF Cut
      <4> QED
        BY ONLY <1>17, <4>1, <4>2
  <2>3. ListsOf(req', running \o Merged, <<q>>, chunked_req, server_args, "admit")
    BY ONLY <1>7, <1>19, <1>21, <2>1, <2>2 DEF ListsOf, ChunkedSize
  <2> QED
    BY ONLY <1>1, <2>3 DEF Lists
<1>23. /\ rows' = [i \in 1..NumRows |-> rows'[i]]
       /\ \A i \in 1..NumRows : i # r.idx => rows'[i] = rows[i]
  <2>1. rows = [i \in 1..NumRows |-> rows[i]]
    BY ONLY <1>2 DEF RowsOf
  <2>2. r.idx \in 1..NumRows
    BY ONLY OverlapInv, <1>3, <1>8, RowFacts
  <2>3. rows' = [rows EXCEPT ![r.idx] = c.row]
    BY ONLY <1>1, <1>15
  <2> DEFINE N == NumRows
             i0 == r.idx
             w2 == c.row
  <2>4. /\ rows = [i \in 1..N |-> rows[i]] /\ i0 \in 1..N /\ rows' = [rows EXCEPT ![i0] = w2]
    BY ONLY <2>1, <2>2, <2>3
  <2> HIDE DEF N, i0, w2
  <2>5. /\ rows' = [i \in 1..N |-> rows'[i]] /\ rows'[i0] = w2
        /\ \A i \in 1..N : i # i0 => rows'[i] = rows[i]
    BY ONLY <2>4
  <2> QED
    BY ONLY <2>5 DEF N, i0, w2
<1>24. \A p \in Rowed(req) : p # q => req[p].idx \in 1..NumRows /\ req[p].idx # r.idx
  BY ONLY <1>2, <1>3, <1>8 DEF RowsOf, Rowed
<1>25. Rows'
  <2>1. req'[q].idx = 0 /\ \A p \in Request : p # q => req'[p].idx = req[p].idx
    BY ONLY <1>15, <1>17
  <2>2. \A p \in Rowed(req') : RowOf(req'[p], rows'[req'[p].idx])
    <3> TAKE p \in Rowed(req')
    <3>1. p \in Request /\ p \in Rowed(req) /\ p # q
      BY ONLY p \in Rowed(req'), <2>1 DEF Rowed
    <3>2. RowOf(req[p], rows[req[p].idx]) /\ req'[p] = req[p]
      BY ONLY <1>2, <1>17, <3>1 DEF RowsOf
    <3>3. rows'[req[p].idx] = rows[req[p].idx]
      BY ONLY <1>23, <1>24, <3>1
    <3> QED
      BY ONLY <3>2, <3>3
  <2>3. RowsOf(req', rows', Append(free_rows, r.idx), NumRows)
    BY ONLY <1>2, <1>3, <1>8, <1>23, <2>1, <2>2, RowsDrop
  <2> QED
    BY ONLY <1>1, <1>15, <2>3 DEF Rows, NumRows, MaxRunning
<1>26. Loses(t, q, Row(q), Len(r.pre), r.fill, v)
  <2> DEFINE l == LateSlots(req, Old, cur)
             k == LateSlots(req', Old', cur)
  <2>1. SameLate(l, k) /\ DOMAIN l \subseteq Request
    <3>1. LateStay(req, Old, cur, Old', cur)
      BY ONLY <1>4, LateStays
    <3>2. SameEnds(req, req')
      BY ONLY <1>8, <1>15, <1>17 DEF SameEnds
    <3> QED
      BY ONLY <3>1, <3>2, LateSame
  <2>2. \A p \in Request : p # q => SameTail(req, rows, req', rows', p)
    <3> TAKE p \in Request
    <3> HAVE p # q
    <3>0. req'[p] = req[p] /\ req[p].slen \in Nat /\ Len(req[p].pre) \in Nat
      BY ONLY <1>17, p \in Request, p # q DEF Records
    <3>1. CASE p \in Rowed(req)
      <4>1. rows'[req'[p].idx] = rows[req[p].idx]
        BY ONLY <1>23, <1>24, <3>0, <3>1, p # q
      <4> QED
        BY ONLY <3>0, <4>1, KeepsTail
    <3>2. CASE p \notin Rowed(req)
      <4>0. LifeTypes(p, req[p], Use(Old, p), Use(cur, p), Stands(can_run, running, p), Chunked(chunked_req, p))
            /\ LifeOf(p, req[p], Use(Old, p), Use(cur, p), Stands(can_run, running, p), Chunked(chunked_req, p), loop)
        BY ONLY OverlapInv, p \in Request, LifeNow
      <4>1. req[p].slen = 0
        BY ONLY <3>2, p \in Request, <4>0 DEF LifeOf, LifeTypes, IsReq, Cleared, Admitted, Seated, Rowed
      <4> QED
        BY ONLY <3>0, <4>1, NoTail
    <3> QED
      BY ONLY <3>1, <3>2
  <2>3. RestOfTail(req, rows, req', rows', q, r.fill)
    <3>2. \A i : ~InTail(r2, i)
      BY ONLY <1>12, <1>15, <1>9 DEF InTail
    <3>3. \A i : ~(InTail(r, i) /\ r.fill < i)
      BY ONLY <1>8, <1>9 DEF InTail
    <3> QED
      BY ONLY <1>17, <3>2, <3>3 DEF RestOfTail
  <2>4. Row(q) = rows[r.idx]
    BY ONLY TRUE DEF Row
  <2> HIDE DEF l, k
  <2>5. Loses(TailsOf(req, rows, l), q, rows[r.idx], Len(r.pre), r.fill, TailsOf(req', rows', k))
    <3>1. r.fill <= r.slen
      BY ONLY <1>8, <1>9
    <3> QED
      BY ONLY <1>3, <1>9, <1>17, <2>1, <2>2, <2>3, <3>1, LoseTail
  <2> QED
    BY ONLY <2>4, <2>5 DEF l, k
<1>27. LocksOf(tree', H, req') /\ Part(tree'.pos, v, free')
  <2>1. OthersKept(req, req', H, q)
    BY ONLY <1>17 DEF OthersKept, HeldBy
  <2>2. req'[q].pre = c.req.pre /\ req'[q].last = c.req.last
    BY ONLY <1>15, <1>17
  <2> HIDE DEF H, t, v, r
  <2> QED
    BY ONLY <1>1, <1>11, <1>26, <2>1, <2>2
<1>28. HeldBy(req', <<q>>) = H
  <2>1. \A p \in Request : req'[p].st = req[p].st
    BY ONLY <1>15, <1>17
  <2> QED
    BY ONLY <1>7, <1>8, <1>19, <2>1 DEF HeldBy
<1>29. LastSlot(req', rows', cur)
  <2>1. \A p \in Request : Use(cur, p) # "decode"
    BY ONLY <1>1, <1>2 DEF LivesOf, LifeOf
  <2> QED
    BY ONLY <2>1 DEF LastSlot
<1>30. Locks' /\ Slots'
  BY ONLY <1>1, <1>27, <1>28, <1>29 DEF Locks, Slots
<1> QED
  BY ONLY <1>18, <1>20, <1>22, <1>25, <1>30 DEF OverlapInv

\* get_next_batch_to_run, up to the admission of new requests.
LEMMA GetNextInv == ASSUME OverlapInv, FlowInv, GetNextBatchToRun PROVE OverlapInv'
BY MergeInv, ChunkInv

-----------------------------------------------------------------------------
(* add_one_req *)

\* A sum of one term.
LEMMA Single ==
    ASSUME NEW q, NEW f, DOMAIN f = {q}, f[q] \in Nat
    PROVE  Total(f) = f[q]
<1> DEFINE e == [x \in {} |-> 0]
<1>1. DOMAIN e = {} /\ IsFiniteSet({})
  BY FS_EmptySet
<1>2. Total(e) = 0
  <2>1. UNION {{x} \X (1..e[x]) : x \in DOMAIN e} = {}
    BY <1>1
  <2> QED
    BY <2>1, FS_EmptySet DEF Total
<1> HIDE DEF e
<1>3. Total(f) = Total(e) + f[q]
  BY <1>1, TotalAdd
<1> QED
  BY <1>2, <1>3

\* rem_chunk_tokens is a number, and 0 once a prompt is cut off.
LEMMA RemFacts ==
    ASSUME OverlapInv, loop = "admit"
    PROVE  /\ RemChunkTokens \in Int
           /\ \A p \in ToSet(can_run) : Cut(p, req[p]) => RemChunkTokens = 0
<1> DEFINE f == [q \in ToSet(can_run) |-> ExtendLen(q)]
<1>1. /\ TypesOf(req, chunked_req, server_args, Old, cur)
      /\ ListsOf(req, running, can_run, chunked_req, server_args, loop)
      /\ ChunkedSize \in Nat
  BY ONLY OverlapInv, Before, SizeFacts DEF OverlapInv
<1>2. ToSet(can_run) \subseteq Request
  BY ONLY <1>1, ToSetFacts DEF ListsOf
<1>3. \A q \in Request : req[q].fill \in Nat /\ Len(req[q].pre) \in Nat
  <2> TAKE q \in Request
  <2>1. IsReq(req[q])
    BY ONLY <1>1 DEF TypesOf
  <2> QED
    BY ONLY <2>1 DEF IsReq
<1>4. DOMAIN f = ToSet(can_run) /\ \A q \in DOMAIN f : f[q] \in Int /\ f[q] = ExtendLen(q)
  BY ONLY <1>2, <1>3 DEF ExtendLen
<1>5. IsFiniteSet(ToSet(can_run))
  BY ONLY <1>2, OverlapAssumption, FS_Subset DEF OverlapAssumption
<1>6. RemChunkTokens = ChunkedSize - Total(f)
  BY ONLY TRUE DEF RemChunkTokens
<1> HIDE DEF f
<1>7. Total(f) \in Nat
  BY ONLY <1>4, <1>5, PairsFinite
<1>8. \A p \in ToSet(can_run) : Cut(p, req[p]) => RemChunkTokens = 0
  <2> TAKE p \in ToSet(can_run)
  <2> HAVE Cut(p, req[p])
  <2>1. can_run = <<p>> /\ req[p].fill - Len(req[p].pre) = ChunkedSize
    BY ONLY <1>1, loop = "admit", p \in ToSet(can_run), Cut(p, req[p]) DEF ListsOf, ChunkedSize
  <2>2. ToSet(can_run) = {p}
    BY ONLY <2>1 DEF ToSet
  <2>3. DOMAIN f = {p} /\ f[p] = ChunkedSize
    BY ONLY <1>4, <2>1, <2>2 DEF ExtendLen
  <2>4. Total(f) = f[p]
    BY ONLY <1>1, <2>3, Single
  <2> QED
    BY ONLY <1>1, <1>6, <2>3, <2>4
<1> QED
  BY ONLY <1>1, <1>6, <1>7, <1>8

\* A waiting request holds nothing, and what it matches.
LEMMA WaitingFacts ==
    ASSUME OverlapInv, loop = "admit", NEW q \in Waiting, NEW m,
           m = MatchPrefix(tree, Take(Text(q), SeqLen(q) - 1))
    PROVE  /\ q \in Request /\ req[q].st = "queued" /\ q \notin ToSet(can_run)
           /\ q \notin ToSet(running) /\ q \notin HeldBy(req, can_run)
           /\ Stands(can_run, running, q) = "out" /\ Cleared(req[q])
           /\ Matched(tree, q, Full(q, req[q]) - 1, m)
           /\ Full(q, req[q]) \in Nat /\ Len(m.pre) < Full(q, req[q]) /\ Len(m.pre) \in Nat
           /\ Full(q, req[q]) <= Len(Text(q))
<1>1. q \in Request /\ req[q].st = "queued" /\ q \notin ToSet(can_run)
  BY ONLY q \in Waiting DEF Waiting
<1>2. /\ LifeTypes(q, req[q], Use(Old, q), Use(cur, q), Stands(can_run, running, q),
                   Chunked(chunked_req, q))
      /\ LifeOf(q, req[q], Use(Old, q), Use(cur, q), Stands(can_run, running, q),
                Chunked(chunked_req, q), loop)
  BY ONLY OverlapInv, <1>1, LifeNow
<1>3. Stands(can_run, running, q) # "run" /\ req[q].out < Meta[q].out
  BY ONLY <1>1, <1>2 DEF LifeOf
<1>4. q \notin ToSet(running) /\ Stands(can_run, running, q) = "out"
  BY ONLY <1>1, <1>3, StandsFacts
<1>5. Cleared(req[q])
  BY ONLY <1>1, <1>2, <1>4 DEF LifeOf
<1>6. q \notin HeldBy(req, can_run)
  BY ONLY <1>1 DEF HeldBy
<1>7. /\ req[q].out \in Nat /\ Full(q, req[q]) \in Nat /\ Meta[q].out \in Nat
      /\ Full(q, req[q]) = Len(Meta[q].prompt) + req[q].out /\ Len(Meta[q].prompt) \in Nat
      /\ Len(Meta[q].prompt) > 0
  BY ONLY <1>2, LifeNumbers
<1>8. Len(Text(q)) = Len(Meta[q].prompt) + Meta[q].out
  BY ONLY <1>1, TextFacts
<1> DEFINE n == Full(q, req[q]) - 1
<1>9. n \in 0..Len(Text(q)) /\ Full(q, req[q]) <= Len(Text(q))
  BY ONLY <1>3, <1>7, <1>8, SMTT(20)
<1>10. m = MatchPrefix(tree, Take(Text(q), n))
  BY ONLY m = MatchPrefix(tree, Take(Text(q), SeqLen(q) - 1)) DEF SeqLen, Full
<1>11. TreeOK(tree) /\ \A x \in DOMAIN tree.pos : tree.pos[x] \in Slot
  BY ONLY OverlapInv, Before DEF LocksOf, Tended, Part, Apart
<1> HIDE DEF n
<1>12. Matched(tree, q, n, m)
  BY ONLY <1>1, <1>9, <1>10, <1>11, MatchFacts
<1>13. Len(m.pre) \in Nat /\ Len(m.pre) <= n
  BY ONLY <1>12 DEF Matched
<1>14. Len(m.pre) < Full(q, req[q])
  BY ONLY <1>7, <1>13 DEF n
<1> QED
  BY ONLY <1>1, <1>4, <1>5, <1>6, <1>7, <1>9, <1>12, <1>13, <1>14 DEF n

\* It is not admitted: only the tree is split where the match ends.
LEMMA RefusedInv ==
    ASSUME OverlapInv, loop = "admit", loop' = "launch", NEW q \in Waiting, NEW m,
           m = MatchPrefix(tree, Take(Text(q), SeqLen(q) - 1)), tree' = m.tree,
           UNCHANGED <<free, rows, free_rows, req, running, can_run, chunked_req, server_args,
                       last_batch, result, cur>>
    PROVE  OverlapInv'
<1>1. UNCHANGED <<free, rows, free_rows, req, running, can_run, chunked_req, server_args,
                  last_batch, result, cur>> /\ loop = "admit" /\ loop' = "launch" /\ tree' = m.tree
  OBVIOUS
<1>2. Old' = Old
  BY ONLY <1>1 DEF Old
<1>3. /\ TypesOf(req, chunked_req, server_args, Old, cur)
      /\ LivesOf(req, Old, cur, can_run, running, chunked_req, loop)
      /\ ListsOf(req, running, can_run, chunked_req, server_args, loop)
      /\ RowsOf(req, rows, free_rows, NumRows)
      /\ LocksOf(tree, HeldBy(req, can_run), req)
      /\ Part(tree.pos, TailsOf(req, rows, LateSlots(req, Old, cur)), free)
      /\ LastSlot(req, rows, cur)
  BY ONLY OverlapInv, Before
<1>4. \A p \in Request : LifeTypes(p, req[p], Use(Old, p), Use(cur, p),
                                   Stands(can_run, running, p), Chunked(chunked_req, p))
  BY ONLY <1>3, TypesFacts
<1>5. LivesOf(req, Old, cur, can_run, running, chunked_req, "launch")
  <2> SUFFICES ASSUME NEW p \in Request
               PROVE  LifeOf(p, req[p], Use(Old, p), Use(cur, p), Stands(can_run, running, p),
                             Chunked(chunked_req, p), "launch")
    BY DEF LivesOf
  <2>1. LifeOf(p, req[p], Use(Old, p), Use(cur, p), Stands(can_run, running, p),
               Chunked(chunked_req, p), "admit")
    BY ONLY <1>1, <1>3, p \in Request DEF LivesOf
  <2> QED
    BY ONLY p \in Request, <1>4, <2>1, LifeStops
<1>6. ListsOf(req, running, can_run, chunked_req, server_args, "launch")
  BY ONLY <1>3 DEF ListsOf
<1>7. Matched(tree, q, Full(q, req[q]) - 1, m)
  BY WaitingFacts
<1> DEFINE H == HeldBy(req, can_run)
           L == LastOf(req)
<1>8. LocksOf(m.tree, H, req) /\ m.tree.pos = tree.pos
  <2>1. Tended(tree, H, L) /\ \A p \in H : PrefixIn(p, req[p], tree.pos)
    BY ONLY <1>3 DEF LocksOf
  <2>3. Grown(tree, m.tree) /\ m.tree.pos = tree.pos
    BY ONLY <1>7 DEF Matched
  <2> HIDE DEF H, L
  <2>4. Tended(m.tree, H, L)
    BY ONLY <2>1, <2>3, GrownTended
  <2> QED
    BY ONLY <2>1, <2>3, <2>4 DEF LocksOf, L
<1>9. Types' /\ Lives' /\ Lists'
  BY ONLY <1>1, <1>2, <1>3, <1>5, <1>6 DEF Types, Lives, Lists
<1>10. Rows'
  BY ONLY <1>1, <1>3 DEF Rows, NumRows, MaxRunning
<1>11. Locks' /\ Slots'
  BY ONLY <1>1, <1>2, <1>3, <1>8 DEF Locks, Slots
<1> QED
  BY ONLY <1>9, <1>10, <1>11 DEF OverlapInv

\* Request q gets a prefix, its node and a number of tokens to prefill.
Fills(r, a, b, k, r2) == r2 = [r EXCEPT !.pre = a, !.last = b, !.fill = k]

\* What becomes of its record.
LEMMA Filled ==
    ASSUME NEW r, IsReq(r), NEW a \in Seq(Slot), NEW b, NEW k \in Nat, NEW r2,
           Fills(r, a, b, k, r2)
    PROVE  /\ IsReq(r2) /\ r2.st = r.st /\ r2.out = r.out /\ r2.fill = k /\ r2.pre = a
           /\ r2.last = b /\ r2.idx = r.idx /\ r2.slen = r.slen /\ r2.chunks = r.chunks
           /\ r2.retracted = r.retracted
<1>1. /\ r = [st |-> r.st, out |-> r.out, fill |-> r.fill, pre |-> r.pre, last |-> r.last,
              idx |-> r.idx, slen |-> r.slen, fut |-> r.fut, chunks |-> r.chunks,
              retracted |-> r.retracted]
      /\ r.st \in {"new", "queued", "in", "done", "gone"}
      /\ r.out \in Nat /\ r.slen \in Nat /\ r.chunks \in Nat
  BY ONLY IsReq(r) DEF IsReq
<1>2. r2 = [st |-> r.st, out |-> r.out, fill |-> k, pre |-> a, last |-> b,
            idx |-> r.idx, slen |-> r.slen, fut |-> r.fut, chunks |-> r.chunks,
            retracted |-> r.retracted]
  <2> DEFINE x1 == [r EXCEPT !.pre = a]
             x2 == [x1 EXCEPT !.last = b]
  <2>1. x1 = [st |-> r.st, out |-> r.out, fill |-> r.fill, pre |-> a, last |-> r.last,
              idx |-> r.idx, slen |-> r.slen, fut |-> r.fut, chunks |-> r.chunks,
              retracted |-> r.retracted]
    BY ONLY <1>1
  <2>2. r2 = [x2 EXCEPT !.fill = k]
    BY ONLY Fills(r, a, b, k, r2) DEF Fills
  <2> HIDE DEF x1
  <2>3. x2 = [st |-> r.st, out |-> r.out, fill |-> r.fill, pre |-> a, last |-> b,
              idx |-> r.idx, slen |-> r.slen, fut |-> r.fut, chunks |-> r.chunks,
              retracted |-> r.retracted]
    BY ONLY <2>1
  <2> HIDE DEF x2
  <2> QED
    BY ONLY <2>2, <2>3
<1>3. /\ r2.st = r.st /\ r2.out = r.out /\ r2.fill = k /\ r2.pre = a /\ r2.last = b
      /\ r2.idx = r.idx /\ r2.slen = r.slen /\ r2.chunks = r.chunks /\ r2.fut = r.fut
  BY ONLY <1>2
<1>4. r2.retracted = r.retracted
  BY ONLY <1>2
<1>5. r2 = [st |-> r2.st, out |-> r2.out, fill |-> r2.fill, pre |-> r2.pre, last |-> r2.last,
            idx |-> r2.idx, slen |-> r2.slen, fut |-> r2.fut, chunks |-> r2.chunks,
            retracted |-> r2.retracted]
  BY ONLY <1>2, <1>3, <1>4
<1>6. IsReq(r2)
  BY ONLY a \in Seq(Slot), k \in Nat, <1>1, <1>3, <1>5 DEF IsReq
<1> QED
  BY ONLY <1>3, <1>4, <1>6

\* How much of a prompt is prefilled: what the chunk has room for.
LEMMA FillFacts ==
    ASSUME NEW p \in Nat, NEW f \in Nat, p < f, NEW c \in Int, c > 0, NEW k,
           k = p + Min({f - p, c})
    PROVE  k \in Nat /\ p < k /\ k <= f /\ (f - p < c => k = f)
<1> DEFINE a == f - p
           m == Min({a, c})
<1>1. a \in Nat /\ c \in Nat /\ a > 0
  BY ONLY p \in Nat, f \in Nat, p < f, c \in Int, c > 0
<1>2. k = p + m
  OBVIOUS
<1> HIDE DEF a
<1>3. m \in Nat /\ m <= a /\ m <= c /\ (m < a => m = c) /\ (m = a \/ m = c)
  BY ONLY <1>1, MinOf
<1> HIDE DEF m
<1> QED
  BY ONLY <1>1, <1>2, <1>3, p \in Nat, f \in Nat, c \in Int, c > 0 DEF a

\* Request q is put into can_run_list: it pins what it matches.
LEMMA AdmittedInv ==
    ASSUME OverlapInv, loop = "admit", loop' \in {"admit", "launch"}, NEW q \in Waiting, NEW m,
           m = MatchPrefix(tree, Take(Text(q), SeqLen(q) - 1)), NEW k,
           k = Len(m.pre) + Min({SeqLen(q) - Len(m.pre), RemChunkTokens}), RemChunkTokens > 0,
           loop' = "admit" => SeqLen(q) - Len(m.pre) < RemChunkTokens,
           tree' = IncLockRef(m.tree, m.last), can_run' = Append(can_run, q),
           req' = [req EXCEPT ![q].pre = m.pre, ![q].last = m.last, ![q].fill = k],
           UNCHANGED <<free, rows, free_rows, running, chunked_req, server_args,
                       last_batch, result, cur>>
    PROVE  OverlapInv'
<1> DEFINE r == req[q]
           r2 == [r EXCEPT !.pre = m.pre, !.last = m.last, !.fill = k]
           H == HeldBy(req, can_run)
           cr2 == Append(can_run, q)
<1>1. UNCHANGED <<free, rows, free_rows, running, chunked_req, server_args,
                  last_batch, result, cur>> /\ loop = "admit" /\ loop' \in {"admit", "launch"}
      /\ can_run' = cr2
  OBVIOUS
<1>2. Old' = Old
  BY ONLY <1>1 DEF Old
<1>3. /\ TypesOf(req, chunked_req, server_args, Old, cur)
      /\ LivesOf(req, Old, cur, can_run, running, chunked_req, loop)
      /\ ListsOf(req, running, can_run, chunked_req, server_args, loop)
      /\ RowsOf(req, rows, free_rows, NumRows)
      /\ LocksOf(tree, HeldBy(req, can_run), req)
      /\ Part(tree.pos, TailsOf(req, rows, LateSlots(req, Old, cur)), free)
      /\ LastSlot(req, rows, cur)
  BY ONLY OverlapInv, Before
<1>4. /\ q \in Request /\ req[q].st = "queued" /\ q \notin ToSet(can_run)
      /\ q \notin ToSet(running) /\ q \notin HeldBy(req, can_run)
      /\ Stands(can_run, running, q) = "out" /\ Cleared(req[q])
      /\ Matched(tree, q, Full(q, req[q]) - 1, m)
      /\ Full(q, req[q]) \in Nat /\ Len(m.pre) < Full(q, req[q]) /\ Len(m.pre) \in Nat
      /\ Full(q, req[q]) <= Len(Text(q))
  BY ONLY OverlapInv, loop = "admit", q \in Waiting,
          m = MatchPrefix(tree, Take(Text(q), SeqLen(q) - 1)), WaitingFacts
<1>5. RemChunkTokens \in Int /\ \A p \in ToSet(can_run) : ~Cut(p, req[p])
  <2>1. RemChunkTokens > 0
    OBVIOUS
  <2>2. /\ RemChunkTokens \in Int
        /\ \A p \in ToSet(can_run) : Cut(p, req[p]) => RemChunkTokens = 0
    BY ONLY OverlapInv, loop = "admit", RemFacts
  <2> QED
    BY ONLY <2>1, <2>2
<1>6. SeqLen(q) = Full(q, r)
  BY ONLY TRUE DEF SeqLen, Full
<1>7. /\ k \in Nat /\ Len(m.pre) < k /\ k <= Full(q, r)
      /\ loop' = "admit" => k = Full(q, r)
  <2>1. /\ k = Len(m.pre) + Min({Full(q, r) - Len(m.pre), RemChunkTokens}) /\ RemChunkTokens > 0
        /\ loop' = "admit" => Full(q, r) - Len(m.pre) < RemChunkTokens
    BY <1>6
  <2> DEFINE f == Full(q, r)
             p == Len(m.pre)
             c == RemChunkTokens
  <2>2. p \in Nat /\ f \in Nat /\ p < f /\ c \in Int /\ c > 0 /\ k = p + Min({f - p, c})
    BY ONLY <1>4, <1>5, <2>1
  <2> HIDE DEF f, p, c
  <2>3. k \in Nat /\ p < k /\ k <= f /\ (f - p < c => k = f)
    BY ONLY <2>2, FillFacts
  <2> QED
    BY ONLY <2>1, <2>3 DEF f, p, c
<1>8. IsReq(r) /\ DOMAIN req = Request /\ req = [p \in Request |-> req[p]]
  BY ONLY <1>3, <1>4 DEF TypesOf
<1>9. req' = [req EXCEPT ![q] = r2]
  <2>1. req' = [req EXCEPT ![q].pre = m.pre, ![q].last = m.last, ![q].fill = k]
    OBVIOUS
  <2> QED
    BY ONLY <1>4, <1>8, <2>1
<1>10. r2 = [r EXCEPT !.pre = m.pre, !.last = m.last, !.fill = k]
  OBVIOUS
<1> HIDE DEF r2
<1>11. m.pre \in Seq(Slot) /\ m.last = Place(q, Len(m.pre))
  BY ONLY <1>4 DEF Matched
<1>12. /\ IsReq(r2) /\ r2.st = r.st /\ r2.out = r.out /\ r2.fill = k /\ r2.pre = m.pre
       /\ r2.last = m.last /\ r2.idx = r.idx /\ r2.slen = r.slen /\ r2.chunks = r.chunks
       /\ r2.retracted = r.retracted
  <2> DEFINE a == m.pre
             b == m.last
  <2>1. Fills(r, a, b, k, r2) /\ a \in Seq(Slot)
    BY ONLY <1>10, <1>11 DEF Fills
  <2> HIDE DEF a, b, r
  <2>2. /\ IsReq(r2) /\ r2.st = r.st /\ r2.out = r.out /\ r2.fill = k /\ r2.pre = a
        /\ r2.last = b /\ r2.idx = r.idx /\ r2.slen = r.slen /\ r2.chunks = r.chunks
        /\ r2.retracted = r.retracted
    BY ONLY <1>7, <1>8, <2>1, Filled
  <2> QED
    BY ONLY <2>2 DEF a, b
<1>13. IsBatch(Old) /\ IsBatch(cur)
  BY ONLY <1>3 DEF TypesOf
<1>14. /\ TypesOf(req', chunked_req, server_args, Old, cur) /\ req'[q] = r2
       /\ \A x \in Request : x # q => req'[x] = req[x]
       /\ Records(req) /\ Records(req')
  <2>1. LET S == [req EXCEPT ![q] = r2]
        IN  /\ TypesOf(S, chunked_req, server_args, Old, cur) /\ S[q] = r2
            /\ \A x \in Request : x # q => S[x] = req[x]
            /\ Records(req) /\ Records(S)
    BY ONLY <1>3, <1>4, <1>12, <1>13, OneChanged
  <2> QED
    BY ONLY <1>9, <2>1
<1>15. Types'
  BY ONLY <1>1, <1>2, <1>14 DEF Types
<1>16. /\ cr2 \in Seq(Request) /\ Distinct(cr2)
       /\ \A x : x \in ToSet(cr2) <=> x \in ToSet(can_run) \/ x = q
  <2>1. can_run \in Seq(Request) /\ Distinct(can_run)
    BY ONLY <1>3 DEF ListsOf
  <2> QED
    BY ONLY <1>4, <2>1, AppendSet
<1>17. \A p \in Request : p # q => Stands(cr2, running, p) = Stands(can_run, running, p)
  BY ONLY <1>16 DEF Stands
<1> HIDE DEF cr2
<1>18. Lives'
  <2> DEFINE lp == loop'
  <2>0. lp \in {"admit", "launch"}
    BY ONLY <1>1
  <2> HIDE DEF lp
  <2>1. /\ LifeTypes(q, r, Use(Old, q), Use(cur, q), Stands(can_run, running, q), Chunked(chunked_req, q))
        /\ LifeOf(q, r, Use(Old, q), Use(cur, q), Stands(can_run, running, q), Chunked(chunked_req, q), "admit")
    BY ONLY OverlapInv, <1>1, <1>4, LifeNow
  <2>2. LifeOf(q, r2, Use(Old, q), Use(cur, q), "can", Chunked(chunked_req, q), lp)
    BY ONLY <1>4, <1>7, <1>12, <2>0, <2>1, LifeAdmitted
  <2>3. Stands(cr2, running, q) = "can"
    BY ONLY <1>16, StandsFacts
  <2>4. \A p \in Request : p # q =>
            LifeOf(p, req[p], Use(Old, p), Use(cur, p), Stands(cr2, running, p), Chunked(chunked_req, p), lp)
    <3> TAKE p \in Request
    <3> HAVE p # q
    <3>1. /\ LifeTypes(p, req[p], Use(Old, p), Use(cur, p), Stands(can_run, running, p), Chunked(chunked_req, p))
          /\ LifeOf(p, req[p], Use(Old, p), Use(cur, p), Stands(can_run, running, p), Chunked(chunked_req, p), "admit")
      BY ONLY OverlapInv, <1>1, p \in Request, LifeNow
    <3>2. LifeOf(p, req[p], Use(Old, p), Use(cur, p), Stands(can_run, running, p), Chunked(chunked_req, p), "launch")
      BY ONLY <3>1, LifeStops
    <3>3. Stands(cr2, running, p) = Stands(can_run, running, p)
      BY ONLY <1>17, p \in Request, p # q
    <3> QED
      BY ONLY <2>0, <3>1, <3>2, <3>3
  <2>5. \A p \in Request : LifeOf(p, req'[p], Use(Old, p), Use(cur, p), Stands(cr2, running, p),
                                  Chunked(chunked_req, p), lp)
    BY ONLY <1>14, <2>2, <2>3, <2>4
  <2> QED
    BY ONLY <1>1, <1>2, <2>5 DEF Lives, LivesOf, lp
<1>19. Lists'
  <2>1. \A p \in ToSet(can_run) : p \in Request /\ p # q /\ ~Cut(p, req'[p])
    <3>1. ToSet(can_run) \subseteq Request
      BY ONLY <1>3, ToSetFacts DEF ListsOf
    <3> QED
      BY ONLY <1>4, <1>5, <1>14, <3>1
  <2>2. loop' = "admit" => ~Cut(q, req'[q])
    <3>1. Full(q, r2) = Full(q, r)
      BY ONLY <1>12 DEF Full
    <3> QED
      BY ONLY <1>4, <1>7, <1>12, <1>14, <3>1 DEF Cut
  <2>3. ListsOf(req', running, cr2, chunked_req, server_args, loop')
    <3>1. running \in Seq(Request) /\ Distinct(running) /\ \A p \in ToSet(can_run) : p \notin ToSet(running)
      BY ONLY <1>3 DEF ListsOf
    <3>2. \A p \in ToSet(cr2) : Cut(p, req'[p]) => p = q
      BY ONLY <1>16, <2>1
    <3>3. \A p \in ToSet(cr2) : p \notin ToSet(running)
      BY ONLY <1>4, <1>16, <3>1
    <3>4. loop' = "admit" => \A p \in ToSet(cr2) : ~Cut(p, req'[p])
      BY ONLY <1>16, <2>1, <2>2
    <3> QED
      BY ONLY <1>16, <3>1, <3>2, <3>3, <3>4 DEF ListsOf
  <2> QED
    BY ONLY <1>1, <2>3 DEF Lists
<1>20. r.idx = 0 /\ r.slen = 0
  BY ONLY <1>4 DEF Cleared
<1>21. Rows'
  <2>1. rows = [i \in 1..NumRows |-> rows[i]]
    BY ONLY <1>3 DEF RowsOf
  <2>2. \A p \in Request : req'[p].idx = req[p].idx
    BY ONLY <1>12, <1>14
  <2>3. \A p \in Rowed(req') : RowOf(req'[p], rows[req'[p].idx])
    <3> TAKE p \in Rowed(req')
    <3>1. p \in Request /\ p \in Rowed(req) /\ p # q
      BY ONLY p \in Rowed(req'), <1>20, <2>2 DEF Rowed
    <3> QED
      BY ONLY <1>3, <1>14, <3>1 DEF RowsOf
  <2>4. RowsOf(req', rows, free_rows, NumRows)
    BY ONLY <1>3, <2>1, <2>2, <2>3, RowsKept
  <2> QED
    BY ONLY <1>1, <2>4 DEF Rows, NumRows, MaxRunning
<1>22. Part(tree.pos, TailsOf(req', rows, LateSlots(req', Old, cur)), free)
  <2> DEFINE l == LateSlots(req, Old, cur)
             j == LateSlots(req', Old, cur)
  <2>1. SameLate(l, j) /\ DOMAIN l \subseteq Request
    <3>1. LateStay(req, Old, cur, Old, cur)
      BY ONLY LateStays
    <3>2. SameEnds(req, req')
      BY ONLY <1>12, <1>14 DEF SameEnds
    <3> QED
      BY ONLY <3>1, <3>2, LateSame
  <2>2. \A p \in Request : SameTail(req, rows, req', rows, p)
    <3> TAKE p \in Request
    <3>1. CASE p = q
      <4>1. /\ req[p].slen = 0 /\ req'[p].slen = 0
            /\ Len(req[p].pre) \in Nat /\ Len(req'[p].pre) \in Nat
        BY ONLY <1>12, <1>14, <1>20, <3>1, p \in Request DEF Records
      <4> QED
        BY ONLY <4>1, NoTail
    <3>2. CASE p # q
      BY ONLY <1>14, <3>2, p \in Request, KeepsTail
    <3> QED
      BY ONLY <3>1, <3>2
  <2>3. Part(tree.pos, TailsOf(req, rows, l), free)
    BY ONLY <1>3
  <2> HIDE DEF l, j
  <2>4. Part(tree.pos, TailsOf(req', rows, j), free)
    BY ONLY <1>14, <2>1, <2>2, <2>3, TailsSame
  <2> QED
    BY ONLY <2>4 DEF j
<1>23. LocksOf(tree', H \cup {q}, req') /\ tree'.pos = tree.pos
  <2> DEFINE L == LastOf(req)
             K == LastOf(req')
             n == Full(q, req[q]) - 1
  <2>1. Tended(tree, H, L) /\ \A p \in H : PrefixIn(p, req[p], tree.pos)
    BY ONLY <1>3 DEF LocksOf
  <2>2. K[q] = m.last /\ \A p \in H : K[p] = L[p] /\ req'[p] = req[p]
    BY ONLY <1>4, <1>12, <1>14 DEF LastOf, HeldBy
  <2>3. q \in Request /\ q \notin H /\ Matched(tree, q, n, m)
    BY ONLY <1>4
  <2>4. tree' = IncLockRef(m.tree, m.last)
    OBVIOUS
  <2> DEFINE y == m.last
             S == m.tree
  <2>5. K[q] = y /\ \A p \in H : K[p] = L[p]
    BY ONLY <2>2
  <2>9. Grown(tree, S) /\ S.pos = tree.pos /\ (y[2] = <<>> \/ y \in DOMAIN S.nd)
    BY ONLY <2>3 DEF Matched
  <2> HIDE DEF H, L, K, n, y, S
  <2>10. Tended(S, H, L)
    BY ONLY <2>1, <2>9, GrownTended
  <2>6. Tended(IncLockRef(m.tree, m.last), H \cup {q}, K) /\ IncLockRef(m.tree, m.last).pos = tree.pos
    <3>1. Tended(IncLockRef(S, y), H \cup {q}, K) /\ IncLockRef(S, y).pos = S.pos
      BY ONLY <2>3, <2>5, <2>9, <2>10, Pinned
    <3> QED
      BY ONLY <2>9, <3>1 DEF S, y
  <2>7. PrefixIn(q, r2, tree.pos)
    <3>1. /\ \A i \in 1..Len(m.pre) : Place(q, i) \in DOMAIN tree.pos /\ tree.pos[Place(q, i)] = m.pre[i]
          /\ Len(m.pre) <= Len(Text(q))
      <4>1. Len(Text(q)) \in Nat
        BY ONLY <1>4, TextFacts
      <4>2. Len(m.pre) <= Len(Text(q))
        BY ONLY <1>4, <4>1
      <4> QED
        BY ONLY <1>4, <4>2 DEF Matched
    <3> QED
      BY ONLY <1>11, <1>12, <3>1 DEF PrefixIn
  <2>8. \A p \in H \cup {q} : PrefixIn(p, req'[p], tree.pos)
    BY ONLY <1>14, <2>1, <2>2, <2>7
  <2> QED
    BY ONLY <2>4, <2>6, <2>8 DEF LocksOf, K
<1>24. HeldBy(req', cr2) = H \cup {q}
  <2>1. \A p \in Request : req'[p].st = req[p].st
    BY ONLY <1>12, <1>14
  <2> QED
    BY ONLY <1>4, <1>16, <2>1 DEF HeldBy
<1>25. LastSlot(req', rows, cur)
  <2>1. \A p \in Request : Use(cur, p) # "decode"
    BY ONLY <1>1, <1>3 DEF LivesOf, LifeOf
  <2> QED
    BY ONLY <2>1 DEF LastSlot
<1>26. Locks' /\ Slots'
  BY ONLY <1>1, <1>2, <1>22, <1>23, <1>24, <1>25 DEF Locks, Slots
<1> QED
  BY ONLY <1>15, <1>18, <1>19, <1>21, <1>26 DEF OverlapInv

\* add_one_req for one waiting request.
LEMMA AddInv == ASSUME NEW q \in Request, OverlapInv, AddOneReq(q) PROVE OverlapInv'
<1> DEFINE m == MatchPrefix(tree, Take(Text(q), SeqLen(q) - 1))
           x == SeqLen(q) - Len(m.pre)
           k == Len(m.pre) + Min({x, RemChunkTokens})
<1>1. /\ loop = "admit" /\ q \in Waiting
      /\ \/ tree' = m.tree /\ loop' = "launch" /\ UNCHANGED <<req, can_run>>
         \/ /\ RemChunkTokens > 0 /\ tree' = IncLockRef(m.tree, m.last)
            /\ can_run' = Append(can_run, q)
            /\ req' = [req EXCEPT ![q].pre = m.pre, ![q].last = m.last, ![q].fill = k]
            /\ \/ loop' = "launch"
               \/ loop' = IF x >= RemChunkTokens THEN "launch" ELSE "admit"
      /\ UNCHANGED <<free, rows, free_rows, running, chunked_req, server_args,
                     last_batch, result, cur>>
  <2> DEFINE locked == IncLockRef(m.tree, m.last)
             total == x + NewTokens(q) + TokenOffset
             room == Available(free) + locked.evictable
  <2>1. AddMatched(q, m, locked, x, total, room) /\ loop = "admit" /\ q \in Waiting
        /\ UNCHANGED <<free, rows, free_rows, running, chunked_req, server_args,
                       last_batch, result, cur>>
    BY DEF AddOneReq, pools, flow
  <2> HIDE DEF m, x, total, room
  <2> QED
    BY ONLY <2>1 DEF AddMatched
<1> HIDE DEF m
<1>2. m = MatchPrefix(tree, Take(Text(q), SeqLen(q) - 1))
  BY DEF m
<1>3. CASE tree' = m.tree /\ loop' = "launch" /\ UNCHANGED <<req, can_run>>
  BY ONLY OverlapInv, <1>1, <1>2, <1>3, RefusedInv
<1>4. CASE /\ RemChunkTokens > 0 /\ tree' = IncLockRef(m.tree, m.last)
           /\ can_run' = Append(can_run, q)
           /\ req' = [req EXCEPT ![q].pre = m.pre, ![q].last = m.last, ![q].fill = k]
           /\ \/ loop' = "launch"
              \/ loop' = IF x >= RemChunkTokens THEN "launch" ELSE "admit"
  <2>1. RemChunkTokens \in Int
    BY ONLY OverlapInv, <1>1, RemFacts
  <2>2. SeqLen(q) \in Int /\ Len(m.pre) \in Int
    <3>1. Full(q, req[q]) \in Nat /\ Len(m.pre) \in Nat
      BY ONLY OverlapInv, <1>1, <1>2, WaitingFacts
    <3> QED
      BY ONLY <3>1 DEF SeqLen, Full
  <2>3. loop' \in {"admit", "launch"} /\ (loop' = "admit" => x < RemChunkTokens)
    BY ONLY <1>4, <2>1, <2>2
  <2>4. /\ RemChunkTokens > 0 /\ tree' = IncLockRef(m.tree, m.last)
        /\ can_run' = Append(can_run, q)
    BY ONLY <1>4
  <2>5. k = Len(m.pre) + Min({SeqLen(q) - Len(m.pre), RemChunkTokens})
        /\ (loop' = "admit" => SeqLen(q) - Len(m.pre) < RemChunkTokens)
    BY ONLY <2>3
  <2> HIDE DEF k
  <2>6. req' = [req EXCEPT ![q].pre = m.pre, ![q].last = m.last, ![q].fill = k]
    BY ONLY <1>4
  <2> QED
    BY ONLY OverlapInv, <1>1, <1>2, <2>3, <2>4, <2>5, <2>6, AdmittedInv
<1> QED
  BY ONLY <1>1, <1>3, <1>4

-----------------------------------------------------------------------------
(* retract_decode *)

\* What retract_decode does to tree, free list and requests.
Retracts(q, k0, D0, T, left, k, D) ==
    /\ D0 \in EvictChoices(tree, k0)
    /\ T = DecLockRef(Delete(tree, D0), req[q].last)
    /\ left = Freed(Freed(free, SlotsOf(tree, D0)),
                    SubSeq(Row(q), Len(req[q].pre) + 1, req[q].slen))
    /\ D \in EvictChoices(T, k)
    /\ tree' = Delete(T, D) /\ free' = Freed(left, SlotsOf(T, D))

\* The step, without its guards.
LEMMA RetractSays ==
    ASSUME NEW q \in Request, RetractDecode(q)
    PROVE  /\ loop \in {"launch", "retract"} /\ can_run = <<>> /\ q \in ToSet(Decoding)
           /\ \E k0, D0, T, left, k, D : Retracts(q, k0, D0, T, left, k, D)
           /\ free_rows' = Append(free_rows, req[q].idx)
           /\ req' = [req EXCEPT ![q] = [NewReq EXCEPT !.st = "queued", !.out = req[q].out,
                                                       !.retracted = TRUE]]
           /\ running' = Filter(Decoding, Request \ {q}) /\ loop' = "retract"
           /\ UNCHANGED <<rows, server_args, chunked_req, can_run, cur, last_batch, result>>
<1>1. PICK D0 \in IF loop = "launch" THEN CheckDecodeMem ELSE {{}} :
         \E T \in {DecLockRef(Delete(tree, D0), req[q].last)} :
         \E left \in {Freed(Freed(free, SlotsOf(tree, D0)),
                            SubSeq(Row(q), Len(req[q].pre) + 1, req[q].slen))} :
         \E D \in EvictChoices(T, Monus(RetractSteps * (Len(Decoding) - 1),
                                        Available(left))) :
            /\ tree' = Delete(T, D)
            /\ free' = Freed(left, SlotsOf(T, D))
  BY DEF RetractDecode
<1>2. \E k0 : D0 \in EvictChoices(tree, k0)
  <2>1. CASE loop = "launch"
    BY <1>1, <2>1 DEF CheckDecodeMem
  <2>2. CASE loop # "launch"
    <3>1. D0 \in EvictChoices(tree, 0)
      BY <1>1, <2>2 DEF EvictChoices
    <3> QED
      BY <3>1
  <2> QED
    BY <2>1, <2>2
<1>3. \E k0, T, left, k, D : Retracts(q, k0, D0, T, left, k, D)
  BY ONLY <1>1, <1>2 DEF Retracts
<1> QED
  BY <1>3 DEF RetractDecode, flow

\* The pools and the tree then.
LEMMA RetractedPools ==
    ASSUME OverlapInv, NEW q \in Request, req[q].st = "in", req[q].idx # 0,
           Len(req[q].pre) <= req[q].slen, NEW k0, NEW D0, NEW T, NEW left, NEW k, NEW D,
           Retracts(q, k0, D0, T, left, k, D), NEW S, Records(S),
           \A p \in Request : p # q => S[p] = req[p], NEW G,
           \A p : p \in G <=> p \in HeldBy(req, can_run) /\ p # q, NEW v,
           Loses(TailsOf(req, rows, LateSlots(req, Old, cur)), q, Row(q), Len(req[q].pre),
                 req[q].slen, v)
    PROVE  LocksOf(tree', G, S) /\ Part(tree'.pos, v, free')
<1> DEFINE H == HeldBy(req, can_run)
           t == TailsOf(req, rows, LateSlots(req, Old, cur))
           a == Len(req[q].pre)
           n == req[q].slen
           w == Row(q)
           f0 == Freed(free, SlotsOf(tree, D0))
           T0 == Delete(tree, D0)
<1>1. LocksOf(tree, H, req) /\ Part(tree.pos, t, free) /\ Records(req)
  BY ONLY OverlapInv, Before, TypesFacts
<1>2. /\ D0 \in EvictChoices(tree, k0) /\ T = DecLockRef(T0, req[q].last)
      /\ left = Freed(f0, SubSeq(w, a + 1, n)) /\ D \in EvictChoices(T, k)
      /\ tree' = Delete(T, D) /\ free' = Freed(left, SlotsOf(T, D))
  BY DEF Retracts
<1>3. Row(q) \in Seq(Slot) /\ Len(Row(q)) = req[q].slen
  BY ONLY OverlapInv, q \in Request, req[q].idx # 0, RowFacts
<1>4. w \in Seq(Slot) /\ a \in Nat /\ n \in Nat /\ a <= n /\ n <= Len(w)
  <2>1. Len(req[q].pre) <= req[q].slen
    OBVIOUS
  <2>2. Len(req[q].pre) \in Nat /\ req[q].slen \in Nat
    BY ONLY <1>1, q \in Request DEF Records
  <2>3. n <= Len(w)
    BY ONLY <1>3, <2>2
  <2> QED
    BY ONLY <1>3, <2>1, <2>2, <2>3
<1>5. q \in H /\ H \subseteq Request
  <2>1. req[q].st = "in" /\ q \in Request
    OBVIOUS
  <2> QED
    BY ONLY <2>1 DEF HeldBy
<1>6. Loses(t, q, w, a, n, v)
  OBVIOUS
<1>7. \A p \in H : p # q => S[p].last = req[p].last /\ S[p].pre = req[p].pre
  BY <1>5
<1>8. \A p : p \in G <=> p \in H /\ p # q
  OBVIOUS
<1> HIDE DEF H, t, a, n, w, f0, T0
<1>9. LocksOf(T0, H, req) /\ Part(T0.pos, t, f0)
  BY ONLY <1>1, <1>2, LocksEvict DEF T0, f0
<1>10. LocksOf(T, G, S) /\ T.pos = T0.pos
  BY ONLY <1>2, <1>5, <1>7, <1>8, <1>9, LocksDrop
<1>11. Part(T.pos, v, left)
  <2>1. Part(T0.pos, v, Freed(f0, SubSeq(w, a + 1, n)))
    BY ONLY <1>4, <1>6, <1>9, DropTail
  <2> QED
    BY ONLY <1>2, <1>10, <2>1
<1> QED
  BY ONLY Records(S), <1>2, <1>10, <1>11, LocksEvict

\* A running request is retracted: its tail is freed and its prefix let go of.
LEMMA RetractInv == ASSUME NEW q \in Request, OverlapInv, RetractDecode(q) PROVE OverlapInv'
<1> DEFINE r == req[q]
           r2 == [NewReq EXCEPT !.st = "queued", !.out = r.out, !.retracted = TRUE]
           rn2 == Filter(Decoding, Request \ {q})
           H == HeldBy(req, can_run)
           t == TailsOf(req, rows, LateSlots(req, Old, cur))
           v == TailsOf(req', rows, LateSlots(req', Old, cur))
<1>1. /\ loop \in {"launch", "retract"} /\ can_run = <<>> /\ q \in ToSet(Decoding)
      /\ \E k0, D0, T, left, k, D : Retracts(q, k0, D0, T, left, k, D)
      /\ free_rows' = Append(free_rows, r.idx)
      /\ req' = [req EXCEPT ![q] = r2]
      /\ running' = rn2 /\ loop' = "retract"
      /\ UNCHANGED <<rows, server_args, chunked_req, can_run, cur, last_batch, result>>
  BY ONLY q \in Request, RetractDecode(q), RetractSays
<1>2. Old' = Old
  BY ONLY <1>1 DEF Old
<1>3. /\ TypesOf(req, chunked_req, server_args, Old, cur)
      /\ LivesOf(req, Old, cur, can_run, running, chunked_req, loop)
      /\ ListsOf(req, running, can_run, chunked_req, server_args, loop)
      /\ RowsOf(req, rows, free_rows, NumRows)
      /\ LocksOf(tree, H, req) /\ Part(tree.pos, t, free)
  BY ONLY OverlapInv, Before
<1>4. /\ Decoding \in Seq(Request) /\ Distinct(Decoding)
      /\ \A p : p \in ToSet(Decoding) <=> p \in ToSet(running) /\ req[p].st # "done"
  BY ONLY OverlapInv, DecodingFacts
<1>5. /\ rn2 \in Seq(Request) /\ Distinct(rn2)
      /\ \A p : p \in ToSet(rn2) <=> p \in ToSet(running) /\ req[p].st # "done" /\ p # q /\ p \in Request
  <2> DEFINE dd == Decoding
             Z == Request \ {q}
  <2>1. dd \in Seq(Request) /\ Distinct(dd)
    BY ONLY <1>4
  <2> HIDE DEF dd, Z
  <2>2. /\ Filter(dd, Z) \in Seq(Request) /\ Distinct(Filter(dd, Z))
        /\ \A x : x \in ToSet(Filter(dd, Z)) <=> x \in ToSet(dd) /\ x \in Z
    BY ONLY <2>1, FilterFacts
  <2> QED
    BY ONLY <1>4, <2>2 DEF dd, Z
<1> HIDE DEF rn2
<1>6. \A p : p \notin ToSet(can_run)
  BY ONLY <1>1, EmptyList
<1>7. /\ LifeTypes(q, r, Use(Old, q), Use(cur, q), Stands(can_run, running, q), Chunked(chunked_req, q))
      /\ LifeOf(q, r, Use(Old, q), Use(cur, q), Stands(can_run, running, q), Chunked(chunked_req, q), loop)
      /\ IsBatch(Old) /\ IsBatch(cur)
  BY ONLY OverlapInv, q \in Request, LifeNow
<1>8. r.st # "done" /\ Stands(can_run, running, q) = "run"
  BY ONLY <1>1, <1>4, <1>6, StandsFacts
<1>9. /\ r.out \in Nat /\ r.fill \in Nat /\ r.slen \in Nat /\ Len(r.pre) \in Nat
      /\ r.st \in {"new", "queued", "in", "done", "gone"}
  BY ONLY <1>7, LifeNumbers
<1>10. r.st = "in" /\ r.idx # 0 /\ Len(r.pre) <= r.slen
  <2>1. r.st = "in"
    BY ONLY <1>7, <1>8, <1>9 DEF LifeOf
  <2>2. Seated(q, r, Use(Old, q), Use(cur, q), Chunked(chunked_req, q))
    BY ONLY <1>7, <1>8, <2>1 DEF LifeOf
  <2>3. r.idx # 0 /\ Len(r.pre) <= r.fill /\ r.fill <= r.slen
    BY ONLY <2>2 DEF Seated
  <2> QED
    BY ONLY <1>9, <2>1, <2>3
<1>11. r2 = [NewReq EXCEPT !.st = "queued", !.out = r.out, !.retracted = TRUE]
  OBVIOUS
<1> HIDE DEF r2
<1>12. r2 = Blank("queued", r.out, TRUE)
  <2> HIDE DEF r
  <2> QED
    BY ONLY <1>11 DEF NewReq, Blank
<1>13. IsReq(r2) /\ Cleared(r2) /\ r2.st = "queued" /\ r2.out = r.out /\ r2.retracted = TRUE
  <2> DEFINE o == r.out
             s == "queued"
             b == TRUE
  <2>1. o \in Nat /\ s \in {"new", "queued", "in", "done", "gone"} /\ r2 = Blank(s, o, b)
    BY ONLY <1>9, <1>12
  <2> HIDE DEF o, s, b
  <2>2. IsReq(r2) /\ Cleared(r2) /\ r2.st = s /\ r2.out = o /\ r2.retracted = b
    BY ONLY <2>1, Emptied
  <2> QED
    BY ONLY <2>2 DEF o, s, b
<1>14. /\ TypesOf(req', chunked_req, server_args, Old, cur) /\ req'[q] = r2
       /\ \A x \in Request : x # q => req'[x] = req[x]
       /\ Records(req) /\ Records(req')
  <2>1. LET S == [req EXCEPT ![q] = r2]
        IN  /\ TypesOf(S, chunked_req, server_args, Old, cur) /\ S[q] = r2
            /\ \A x \in Request : x # q => S[x] = req[x]
            /\ Records(req) /\ Records(S)
    BY ONLY q \in Request, <1>3, <1>7, <1>13, OneChanged
  <2> QED
    BY ONLY <1>1, <2>1
<1>15. Types'
  BY ONLY <1>1, <1>2, <1>14 DEF Types
<1>16. Lives'
  <2>1. LifeOf(q, r2, Use(Old, q), Use(cur, q), "out", Chunked(chunked_req, q), "retract")
    <3>1. r2.retracted
      BY ONLY <1>13
    <3>2. r2.st = "queued" /\ r2.out = r.out /\ Cleared(r2)
      BY ONLY <1>13
    <3> QED
      BY ONLY <1>1, <1>7, <1>8, <3>1, <3>2, LifeRetracted
  <2>2. Stands(can_run, rn2, q) = "out"
    BY ONLY <1>5, <1>6, StandsFacts
  <2>3. \A p \in Request : p # q =>
            LifeOf(p, req[p], Use(Old, p), Use(cur, p), Stands(can_run, rn2, p), Chunked(chunked_req, p), "retract")
    <3> TAKE p \in Request
    <3> HAVE p # q
    <3>1. /\ LifeTypes(p, req[p], Use(Old, p), Use(cur, p), Stands(can_run, running, p), Chunked(chunked_req, p))
          /\ LifeOf(p, req[p], Use(Old, p), Use(cur, p), Stands(can_run, running, p), Chunked(chunked_req, p), loop)
      BY ONLY OverlapInv, p \in Request, LifeNow
    <3>2. Stands(can_run, rn2, p) = IF req[p].st = "done" THEN "out" ELSE Stands(can_run, running, p)
      BY ONLY p \in Request, p # q, <1>5, <1>6 DEF Stands
    <3>3. Stands(can_run, running, p) # "can"
      BY ONLY <1>6, StandsFacts
    <3> DEFINE w == Stands(can_run, running, p)
               w2 == Stands(can_run, rn2, p)
    <3>4. w2 = IF req[p].st = "done" THEN "out" ELSE w
      BY ONLY <3>2
    <3> HIDE DEF w, w2
    <3>5. LifeOf(p, req[p], Use(Old, p), Use(cur, p), w2, Chunked(chunked_req, p), "retract")
      BY ONLY <1>1, <3>1, <3>3, <3>4, LifeStays DEF w
    <3> QED
      BY ONLY <3>5 DEF w2
  <2>4. \A p \in Request : LifeOf(p, req'[p], Use(Old, p), Use(cur, p), Stands(can_run, rn2, p),
                                  Chunked(chunked_req, p), "retract")
    BY ONLY <1>14, <2>1, <2>2, <2>3
  <2> QED
    BY ONLY <1>1, <1>2, <2>4 DEF Lives, LivesOf
<1>17. Lists'
  <2>1. ListsOf(req', rn2, can_run, chunked_req, server_args, "retract")
    <3>1. can_run \in Seq(Request) /\ Distinct(can_run)
      BY ONLY <1>3 DEF ListsOf
    <3> QED
      BY ONLY <1>5, <1>6, <3>1 DEF ListsOf
  <2> QED
    BY ONLY <1>1, <2>1 DEF Lists
<1>18. Rows'
  <2>1. req'[q].idx = 0 /\ \A p \in Request : p # q => req'[p].idx = req[p].idx
    BY ONLY <1>13, <1>14 DEF Cleared
  <2>2. \A p \in Rowed(req') : RowOf(req'[p], rows[req'[p].idx])
    <3> TAKE p \in Rowed(req')
    <3>1. p \in Request /\ p \in Rowed(req) /\ p # q
      BY ONLY p \in Rowed(req'), <2>1 DEF Rowed
    <3> QED
      BY ONLY <1>3, <1>14, <3>1 DEF RowsOf
  <2>3. rows = [i \in 1..NumRows |-> rows[i]]
    BY ONLY <1>3 DEF RowsOf
  <2>4. RowsOf(req', rows, Append(free_rows, r.idx), NumRows)
    BY ONLY q \in Request, <1>3, <1>10, <2>1, <2>2, <2>3, RowsDrop
  <2> QED
    BY ONLY <1>1, <2>4 DEF Rows, NumRows, MaxRunning
<1>19. Loses(t, q, Row(q), Len(r.pre), r.slen, v)
  <2> DEFINE l == LateSlots(req, Old, cur)
             j == LateSlots(req', Old, cur)
  <2>1. SameLate(l, j) /\ DOMAIN l \subseteq Request
    <3>1. LateStay(req, Old, cur, Old, cur)
      BY ONLY LateStays
    <3>2. SameEnds(req, req')
      BY ONLY <1>10, <1>13, <1>14 DEF SameEnds
    <3> QED
      BY ONLY <3>1, <3>2, LateSame
  <2>2. \A p \in Request : p # q => SameTail(req, rows, req', rows, p)
    BY ONLY <1>14, KeepsTail
  <2>3. RestOfTail(req, rows, req', rows, q, r.slen)
    <3>1. \A i : ~InTail(r2, i)
      BY ONLY <1>13 DEF InTail, Cleared
    <3>2. \A i : ~(InTail(r, i) /\ r.slen < i)
      BY ONLY <1>9 DEF InTail
    <3> QED
      BY ONLY <1>14, <3>1, <3>2 DEF RestOfTail
  <2> HIDE DEF l, j
  <2>4. Row(q) = rows[r.idx]
    BY ONLY TRUE DEF Row
  <2>5. r.slen <= r.slen
    BY ONLY <1>9
  <2>6. Loses(TailsOf(req, rows, l), q, rows[r.idx], Len(r.pre), r.slen, TailsOf(req', rows, j))
    BY ONLY q \in Request, <1>9, <1>14, <2>1, <2>2, <2>3, <2>5, LoseTail
  <2> QED
    BY ONLY <2>4, <2>6 DEF l, j
<1>20. LocksOf(tree', HeldBy(req', can_run), req') /\ Part(tree'.pos, v, free')
  <2>1. PICK k0, D0, T, left, k, D : Retracts(q, k0, D0, T, left, k, D)
    BY ONLY <1>1
  <2> DEFINE G == HeldBy(req', can_run)
  <2>2. \A p : p \in G <=> p \in H /\ p # q
    BY ONLY <1>6, <1>10, <1>13, <1>14 DEF HeldBy
  <2>3. \A p \in Request : p # q => req'[p] = req[p]
    BY ONLY <1>14
  <2> DEFINE S == req'
  <2> HIDE DEF G, v, S
  <2>4. LocksOf(tree', G, S) /\ Part(tree'.pos, v, free')
    BY ONLY OverlapInv, q \in Request, <1>10, <1>14, <1>19, <2>1, <2>2, <2>3, RetractedPools DEF S
  <2> QED
    BY ONLY <2>4 DEF G, S
<1>21. LastSlot(req', rows, cur)
  <2>1. \A p \in Request : Use(cur, p) # "decode"
    BY ONLY <1>1, <1>3 DEF LivesOf, LifeOf
  <2> QED
    BY ONLY <2>1 DEF LastSlot
<1>22. Locks' /\ Slots'
  BY ONLY <1>1, <1>2, <1>20, <1>21 DEF Locks, Slots
<1> QED
  BY ONLY <1>15, <1>16, <1>17, <1>18, <1>22 DEF OverlapInv

-----------------------------------------------------------------------------
(* prepare_for_extend *)

\* A request gets row i and placeholder x, and k chunks to come.
Seats(r, i, x, k, r2) ==
    r2 = [r EXCEPT !.st = "in", !.retracted = FALSE, !.idx = i, !.slen = r.fill, !.fut = x,
                   !.chunks = k]

\* Its record, field by field.
Sits(r, i, k, r2) ==
    /\ IsReq(r2) /\ r2.st = "in" /\ r2.out = r.out /\ r2.fill = r.fill /\ r2.pre = r.pre
    /\ r2.last = r.last /\ r2.idx = i /\ r2.slen = r.fill /\ r2.chunks = k
    /\ r2.retracted = FALSE

\* What becomes of its record.
LEMMA SeatFacts ==
    ASSUME NEW r, IsReq(r), NEW i, NEW x, NEW k \in Nat, NEW r2, Seats(r, i, x, k, r2)
    PROVE  Sits(r, i, k, r2)
<1>1. /\ r = [st |-> r.st, out |-> r.out, fill |-> r.fill, pre |-> r.pre, last |-> r.last,
              idx |-> r.idx, slen |-> r.slen, fut |-> r.fut, chunks |-> r.chunks,
              retracted |-> r.retracted]
      /\ r.out \in Nat /\ r.fill \in Nat /\ r.pre \in Seq(Slot)
  BY ONLY IsReq(r) DEF IsReq
<1>2. r2 = [st |-> "in", out |-> r.out, fill |-> r.fill, pre |-> r.pre, last |-> r.last,
            idx |-> i, slen |-> r.fill, fut |-> x, chunks |-> k, retracted |-> FALSE]
  <2> DEFINE b == FALSE
             f == r.fill
             x1 == [r EXCEPT !.st = "in"]
             x2 == [x1 EXCEPT !.retracted = b]
             x3 == [x2 EXCEPT !.idx = i]
             x4 == [x3 EXCEPT !.slen = f]
             x5 == [x4 EXCEPT !.fut = x]
  <2>1. r2 = [x5 EXCEPT !.chunks = k]
    BY ONLY Seats(r, i, x, k, r2) DEF Seats
  <2>2. x1 = [st |-> "in", out |-> r.out, fill |-> f, pre |-> r.pre, last |-> r.last,
              idx |-> r.idx, slen |-> r.slen, fut |-> r.fut, chunks |-> r.chunks,
              retracted |-> r.retracted]
    BY ONLY <1>1
  <2> HIDE DEF x1, f, b
  <2>3. x2 = [st |-> "in", out |-> r.out, fill |-> f, pre |-> r.pre, last |-> r.last,
              idx |-> r.idx, slen |-> r.slen, fut |-> r.fut, chunks |-> r.chunks,
              retracted |-> b]
    BY ONLY <2>2
  <2> HIDE DEF x2
  <2>4. x3 = [st |-> "in", out |-> r.out, fill |-> f, pre |-> r.pre, last |-> r.last,
              idx |-> i, slen |-> r.slen, fut |-> r.fut, chunks |-> r.chunks,
              retracted |-> b]
    BY ONLY <2>3
  <2> HIDE DEF x3
  <2>5. x4 = [st |-> "in", out |-> r.out, fill |-> f, pre |-> r.pre, last |-> r.last,
              idx |-> i, slen |-> f, fut |-> r.fut, chunks |-> r.chunks,
              retracted |-> b]
    BY ONLY <2>4
  <2> HIDE DEF x4
  <2>6. x5 = [st |-> "in", out |-> r.out, fill |-> f, pre |-> r.pre, last |-> r.last,
              idx |-> i, slen |-> f, fut |-> x, chunks |-> r.chunks,
              retracted |-> b]
    BY ONLY <2>5
  <2> HIDE DEF x5
  <2>7. r2 = [st |-> "in", out |-> r.out, fill |-> f, pre |-> r.pre, last |-> r.last,
              idx |-> i, slen |-> f, fut |-> x, chunks |-> k, retracted |-> b]
    BY ONLY <2>1, <2>6
  <2> QED
    BY ONLY <2>7 DEF f, b
<1>3. /\ r2.st = "in" /\ r2.out = r.out /\ r2.fill = r.fill /\ r2.pre = r.pre /\ r2.last = r.last
      /\ r2.idx = i /\ r2.slen = r.fill /\ r2.chunks = k /\ r2.fut = x
  BY ONLY <1>2
<1>4. r2.retracted = FALSE
  BY ONLY <1>2
<1>5. r2 = [st |-> r2.st, out |-> r2.out, fill |-> r2.fill, pre |-> r2.pre, last |-> r2.last,
            idx |-> r2.idx, slen |-> r2.slen, fut |-> r2.fut, chunks |-> r2.chunks,
            retracted |-> r2.retracted]
  BY ONLY <1>2, <1>3, <1>4
<1>6. IsReq(r2)
  BY ONLY k \in Nat, <1>1, <1>3, <1>5 DEF IsReq
<1> QED
  BY ONLY <1>3, <1>4, <1>6 DEF Sits

\* The rows a batch takes are free ones, and different.
LEMMA TakenRows ==
    ASSUME NEW R, NEW rw, NEW f, NEW n, RowsOf(R, rw, f, n), NEW s \in Seq(Request), Distinct(s),
           Len(s) <= Len(f)
    PROVE  /\ \A q \in ToSet(s) : f[Position(s, q)] \in 1..n /\ f[Position(s, q)] \in ToSet(f)
           /\ \A p, q \in ToSet(s) : f[Position(s, p)] = f[Position(s, q)] => p = q
<1> DEFINE X == 1..n
<1>1. f \in Seq(X) /\ Distinct(f)
  BY DEF RowsOf
<1> HIDE DEF X
<1>2. Len(f) \in Nat /\ DOMAIN f = 1..Len(f) /\ \A i \in 1..Len(f) : f[i] \in X /\ f[i] \in ToSet(f)
  BY ONLY <1>1, ToSetFacts
<1>3. /\ \A q \in ToSet(s) : Position(s, q) \in 1..Len(s)
      /\ \A p, q \in ToSet(s) : Position(s, p) = Position(s, q) => p = q
      /\ Len(s) \in Nat
  BY PositionFacts, ToSetFacts
<1>4. \A q \in ToSet(s) : Position(s, q) \in 1..Len(f)
  BY <1>2, <1>3
<1>5. \A q \in ToSet(s) : f[Position(s, q)] \in X /\ f[Position(s, q)] \in ToSet(f)
  BY ONLY <1>2, <1>4
<1>6. \A p, q \in ToSet(s) : f[Position(s, p)] = f[Position(s, q)] => p = q
  BY ONLY <1>1, <1>2, <1>3, <1>4 DEF Distinct
<1> QED
  BY ONLY <1>5, <1>6 DEF X

\* What request q is given: the m slots after the first c of a.
Given(a, c, m, g) ==
    /\ g \in Seq(Slot) /\ Len(g) = m
    /\ \A i \in 1..m : g[i] = a[c + i]

\* The share of each request of a batch.
LEMMA ShareFacts ==
    ASSUME NEW a \in Seq(Slot), NEW need, NEW i, NEW c, c = Upto(need, i - 1), c \in Nat,
           need[i] \in Nat, c + need[i] <= Len(a)
    PROVE  Given(a, c, need[i], Share(a, need, i))
<1> DEFINE m == need[i]
           g == SubSeq(a, c + 1, c + m)
<1>1. Share(a, need, i) = g
  BY DEF Share, Upto
<1>2. m \in Nat /\ c \in Nat /\ c + m <= Len(a) /\ Len(a) \in Nat
  OBVIOUS
<1>3. g = [j \in 1..m |-> a[c + j]]
  <2> HIDE DEF m
  <2>1. /\ 1 + (c + m) - (c + 1) = m
        /\ \A j \in 1..m : j + (c + 1) - 1 = c + j
    BY ONLY <1>2
  <2> QED
    BY ONLY <1>2, <2>1
<1>4. \A j \in 1..m : a[c + j] \in Slot
  <2>1. \A j \in 1..m : c + j \in 1..Len(a)
    BY ONLY <1>2
  <2> QED
    BY <2>1
<1> HIDE DEF m
<1>5. g \in Seq(Slot) /\ Len(g) = m /\ \A j \in 1..m : g[j] = a[c + j]
  BY ONLY <1>2, <1>3, <1>4
<1> QED
  BY ONLY <1>1, <1>5 DEF Given, m

\* The rows of a batch are written: row f[q] with w[q].
Written(rw, rx, F, f, w) ==
    rx = [i \in DOMAIN rw |->
            IF \E q \in F : f[q] = i THEN w[CHOOSE q \in F : f[q] = i] ELSE rw[i]]

\* There are n rows.
RowsTo(rw, n) == rw = [i \in 1..n |-> rw[i]]

\* Each request of F has a row of its own.
OneEach(F, f, n) ==
    /\ \A q \in F : f[q] \in 1..n
    /\ \A p, q \in F : f[p] = f[q] => p = q

\* The row of each is written, the others are kept.
Overwrites(rw, rx, F, f, w, n) ==
    /\ rx = [i \in 1..n |-> rx[i]]
    /\ \A q \in F : rx[f[q]] = w[q]
    /\ \A i \in 1..n : (\A q \in F : f[q] # i) => rx[i] = rw[i]

\* Each row that is written has one request.
LEMMA WrittenFacts ==
    ASSUME NEW rw, NEW n, NEW rx, NEW F, NEW f, NEW w, Written(rw, rx, F, f, w), RowsTo(rw, n),
           OneEach(F, f, n)
    PROVE  Overwrites(rw, rx, F, f, w, n)
<1> DEFINE X == 1..n
<1>1. DOMAIN rw = X
  BY DEF RowsTo
<1>2. \A q \in F : f[q] \in X
  BY DEF OneEach
<1>6. rx = [i \in X |->
            IF \E q \in F : f[q] = i THEN w[CHOOSE q \in F : f[q] = i] ELSE rw[i]]
  BY <1>1 DEF Written
<1>7. \A p, q \in F : f[p] = f[q] => p = q
  BY DEF OneEach
<1> HIDE DEF X
<1>3. rx = [i \in X |-> rx[i]]
  BY ONLY <1>6
<1>4. \A q \in F : rx[f[q]] = w[q]
  <2> TAKE q \in F
  <2>1. (CHOOSE p \in F : f[p] = f[q]) = q
    BY ONLY <1>7, q \in F
  <2>2. rx[f[q]] = w[CHOOSE p \in F : f[p] = f[q]]
    BY ONLY <1>2, <1>6, q \in F
  <2> QED
    BY ONLY <2>1, <2>2
<1>5. \A i \in X : (\A q \in F : f[q] # i) => rx[i] = rw[i]
  BY ONLY <1>6
<1> QED
  BY ONLY <1>3, <1>4, <1>5 DEF X, Overwrites

\* The slots and the rows of the prefill batch.
Needs == [i \in DOMAIN can_run |-> ExtendLen(can_run[i])]
NewSlots(pool) ==
    [q \in ToSet(can_run) |-> Share(AllocSeq(pool, Total(Needs)), Needs, Position(can_run, q))]
NewRows == [q \in ToSet(can_run) |-> free_rows[Position(can_run, q)]]
FilledRows(new) == [q \in ToSet(can_run) |-> req[q].pre \o new[q]]

\* What prepare_for_extend does once D is evicted.
Extends(k, D, pool) ==
    /\ D \in EvictChoices(tree, k) /\ pool = Freed(free, SlotsOf(tree, D))
    /\ Available(pool) >= Total(Needs)
    /\ tree' = Delete(tree, D) /\ free' = AllocRest(pool, Total(Needs))
    /\ Written(rows, rows', ToSet(can_run), NewRows, FilledRows(NewSlots(pool)))
    /\ cur' = Batch("extend", can_run, NewSlots(pool), [q \in ToSet(can_run) |-> req[q].fill],
                    NewRows, [q \in ToSet(can_run) |-> 0])

\* What becomes of the requests.
SeatedAll ==
    /\ req' = [q \in Request |-> req'[q]]
    /\ \A q \in Request : q \notin ToSet(can_run) => req'[q] = req[q]
    /\ \A q \in Request : q \in ToSet(can_run) =>
          Seats(req[q], NewRows[q], future_ct + Position(can_run, q),
                IF Truncated(q) THEN req[q].chunks + 1 ELSE req[q].chunks, req'[q])

\* The step, without its guards.
LEMMA ExtendSays ==
    ASSUME PrepareForExtend
    PROVE  /\ loop = "launch" /\ can_run # <<>> /\ Len(can_run) <= Len(free_rows)
           /\ \E k, D, pool : Extends(k, D, pool)
           /\ SeatedAll
           /\ free_rows' = SubSeq(free_rows, Len(can_run) + 1, Len(free_rows))
           /\ chunked_req' = IF \E q \in ToSet(can_run) : Truncated(q)
                             THEN CHOOSE q \in ToSet(can_run) : Truncated(q) ELSE NoReq
           /\ can_run' = <<>> /\ loop' = "process"
           /\ UNCHANGED <<running, server_args, last_batch, result>>
<1>1. PICK D \in AllocEvicts(tree, free, Total(Needs)) :
         LaunchExtend(D, Freed(free, SlotsOf(tree, D)), Total(Needs),
                      NewSlots(Freed(free, SlotsOf(tree, D))), NewRows)
  BY DEF PrepareForExtend, NewSlots, NewRows, Needs
<1> DEFINE pool == Freed(free, SlotsOf(tree, D))
           total == Total(Needs)
           new == NewSlots(pool)
           idx == NewRows
           F == ToSet(can_run)
           w == FilledRows(new)
<1>2. PICK k : D \in EvictChoices(tree, k)
  BY DEF AllocEvicts
<1>3. LaunchExtend(D, pool, total, new, idx) /\ DOMAIN idx = F
      /\ w = [q \in F |-> req[q].pre \o new[q]]
  BY ONLY <1>1 DEF NewRows, FilledRows
<1>4. pool = Freed(free, SlotsOf(tree, D)) /\ total = Total(Needs) /\ new = NewSlots(pool) /\ idx = NewRows
      /\ w = FilledRows(new)
  OBVIOUS
<1> HIDE DEF pool, total, new, idx, w
<1>5. /\ Available(pool) >= total /\ tree' = Delete(tree, D) /\ free' = AllocRest(pool, total)
      /\ free_rows' = SubSeq(free_rows, Len(can_run) + 1, Len(free_rows))
      /\ loop' = "process" /\ UNCHANGED <<last_batch, result>>
      /\ cur' = Batch("extend", can_run, new, [q \in F |-> req[q].fill], idx, [q \in F |-> 0])
  BY ONLY <1>3 DEF LaunchExtend, RunBatch
<1>6. Written(rows, rows', F, idx, w)
  <2>1. rows' = [i \in DOMAIN rows |->
                  IF \E q \in F : idx[q] = i
                  THEN LET q == CHOOSE q \in F : idx[q] = i
                       IN  req[q].pre \o new[q]
                  ELSE rows[i]]
    BY ONLY <1>3 DEF LaunchExtend
  <2> HIDE DEF F
  <2>2. \A i : (\E q \in F : idx[q] = i) =>
            LET q == CHOOSE q \in F : idx[q] = i
            IN  req[q].pre \o new[q] = w[q]
    BY ONLY <1>3
  <2>3. rows' = [i \in DOMAIN rows |->
            IF \E q \in F : idx[q] = i THEN w[CHOOSE q \in F : idx[q] = i] ELSE rows[i]]
    BY ONLY <2>1, <2>2
  <2> QED
    BY ONLY <2>3 DEF Written
<1>7. SeatedAll
  <2>1. req' = [q \in Request |->
                 IF q \notin F THEN req[q]
                 ELSE [req[q] EXCEPT
                         !.st = "in", !.retracted = FALSE,
                         !.idx = idx[q], !.slen = req[q].fill,
                         !.fut = future_ct + Position(can_run, q),
                         !.chunks = IF Truncated(q) THEN @ + 1 ELSE @]]
    BY ONLY <1>3 DEF LaunchExtend
  <2>2. req' = [q \in Request |-> req'[q]] /\ \A q \in Request : q \notin F => req'[q] = req[q]
    BY ONLY <2>1
  <2>3. \A q \in Request : q \in F =>
          Seats(req[q], idx[q], future_ct + Position(can_run, q),
                IF Truncated(q) THEN req[q].chunks + 1 ELSE req[q].chunks, req'[q])
    <3> TAKE q \in Request
    <3> HAVE q \in F
    <3>1. req'[q] = [req[q] EXCEPT
                         !.st = "in", !.retracted = FALSE,
                         !.idx = idx[q], !.slen = req[q].fill,
                         !.fut = future_ct + Position(can_run, q),
                         !.chunks = IF Truncated(q) THEN @ + 1 ELSE @]
      BY ONLY <2>1, q \in Request, q \in F
    <3> QED
      BY ONLY <3>1 DEF Seats
  <2> QED
    BY ONLY <1>4, <2>2, <2>3 DEF SeatedAll
<1>8. Extends(k, D, pool)
  BY ONLY <1>2, <1>4, <1>5, <1>6 DEF Extends
<1>9. /\ loop = "launch" /\ can_run # <<>> /\ Len(can_run) <= Len(free_rows)
      /\ chunked_req' = IF \E q \in ToSet(can_run) : Truncated(q)
                        THEN CHOOSE q \in ToSet(can_run) : Truncated(q) ELSE NoReq
      /\ can_run' = <<>> /\ UNCHANGED <<running, server_args>>
  BY DEF PrepareForExtend
<1> QED
  BY ONLY <1>5, <1>7, <1>8, <1>9

\* The requests of can_run_list have a prefix, tokens to prefill and no row.
LEMMA CanRunFacts ==
    ASSUME OverlapInv, loop = "launch"
    PROVE  /\ can_run \in Seq(Request) /\ Distinct(can_run) /\ ToSet(can_run) \subseteq Request
           /\ \A q \in ToSet(can_run) :
                 /\ req[q].idx = 0 /\ req[q].slen = 0 /\ req[q].st # "done"
                 /\ Len(req[q].pre) \in Nat /\ req[q].fill \in Nat /\ Len(req[q].pre) < req[q].fill
                 /\ ExtendLen(q) \in Nat
<1>1. can_run \in Seq(Request) /\ Distinct(can_run)
  BY ONLY OverlapInv, Before DEF ListsOf
<1>2. ToSet(can_run) \subseteq Request
  BY ONLY <1>1, ToSetFacts
<1>3. \A q \in ToSet(can_run) :
         /\ req[q].idx = 0 /\ req[q].slen = 0 /\ req[q].st # "done"
         /\ Len(req[q].pre) \in Nat /\ req[q].fill \in Nat /\ Len(req[q].pre) < req[q].fill
  <2> TAKE q \in ToSet(can_run)
  <2>0. q \in Request
    BY ONLY <1>2, q \in ToSet(can_run)
  <2>1. /\ LifeTypes(q, req[q], Use(Old, q), Use(cur, q), Stands(can_run, running, q), Chunked(chunked_req, q))
        /\ LifeOf(q, req[q], Use(Old, q), Use(cur, q), Stands(can_run, running, q), Chunked(chunked_req, q), loop)
    BY ONLY OverlapInv, <2>0, LifeNow
  <2>2. Stands(can_run, running, q) = "can"
    BY ONLY q \in ToSet(can_run), StandsFacts
  <2>3. /\ req[q].st \in {"new", "queued", "in", "done", "gone"}
        /\ Len(req[q].pre) \in Nat /\ req[q].fill \in Nat
    BY ONLY <2>1, LifeNumbers
  <2>4. Admitted(q, req[q]) /\ req[q].st # "done"
    BY ONLY <2>1, <2>2, <2>3 DEF LifeOf
  <2> QED
    BY ONLY <2>3, <2>4 DEF Admitted
<1>4. \A q \in ToSet(can_run) : ExtendLen(q) \in Nat
  BY ONLY <1>3 DEF ExtendLen
<1> QED
  BY ONLY <1>1, <1>2, <1>3, <1>4

\* The slots of the batch are dealt out in its order.
LEMMA ExtendShares ==
    ASSUME OverlapInv, loop = "launch", NEW pool \in [Slot -> {0, 1}], NEW total, total = Total(Needs),
           Available(pool) >= total, NEW need, need = [q \in ToSet(can_run) |-> ExtendLen(q)],
           NEW off, off = [q \in ToSet(can_run) |-> Upto(Needs, Position(can_run, q) - 1)]
    PROVE  /\ total \in Nat /\ Dealt(need, total, off)
           /\ \A q \in ToSet(can_run) :
                 Given(AllocSeq(pool, total), off[q], need[q], NewSlots(pool)[q])
<1> DEFINE C == can_run
           F == ToSet(can_run)
           f == Needs
           a == AllocSeq(pool, total)
<1>1. /\ C \in Seq(Request) /\ Distinct(C) /\ F \subseteq Request
      /\ \A q \in F : ExtendLen(q) \in Nat
  BY ONLY OverlapInv, loop = "launch", CanRunFacts
<1>2. /\ Len(C) \in Nat /\ DOMAIN C = 1..Len(C) /\ \A i \in 1..Len(C) : C[i] \in F
      /\ F = ToSet(C)
  BY ONLY <1>1, ToSetFacts
<1>3. f = [i \in 1..Len(C) |-> ExtendLen(C[i])]
  BY ONLY <1>2 DEF Needs
<1>4. \A i \in 1..Len(C) : f[i] = ExtendLen(C[i]) /\ f[i] \in Nat
  BY ONLY <1>1, <1>2, <1>3
<1>5. /\ \A q \in F : Position(C, q) \in 1..Len(C) /\ C[Position(C, q)] = q
  BY ONLY <1>1, PositionFacts
<1>6. total = Upto(f, Len(C))
  <2>1. f = [t \in 1..Len(C) |-> f[t]]
    BY ONLY <1>3
  <2>2. total = Total(f)
    OBVIOUS
  <2> QED
    BY ONLY <2>1, <2>2 DEF Upto
<1>7. need = [q \in F |-> f[Position(C, q)]]
  <2>1. need = [q \in F |-> ExtendLen(q)]
    OBVIOUS
  <2>2. \A q \in F : f[Position(C, q)] = ExtendLen(q)
    BY ONLY <1>4, <1>5
  <2> QED
    BY ONLY <2>1, <2>2
<1>8. off = [q \in F |-> Upto(f, Position(C, q) - 1)]
  OBVIOUS
<1>12. \A q \in F : NewSlots(pool)[q] = Share(a, f, Position(C, q))
  BY DEF NewSlots
<1> HIDE DEF f, C, F
<1>9. Dealt(need, total, off)
  BY ONLY <1>1, <1>2, <1>4, <1>6, <1>7, <1>8, DealtList
<1>10. total \in Nat
  <2>1. \A i \in 0..Len(C) : Upto(f, i) \in Nat
    BY ONLY <1>2, <1>4, UptoFacts
  <2>2. Len(C) \in 0..Len(C)
    BY ONLY <1>2
  <2> QED
    BY ONLY <1>6, <2>1, <2>2
<1>11. a \in Seq(Slot) /\ Len(a) = total
  BY <1>10, OverlapAssumption, AllocFacts
<1> HIDE DEF a
<1>13. \A q \in F : Given(a, off[q], need[q], NewSlots(pool)[q])
  <2> TAKE q \in F
  <2> DEFINE i == Position(C, q)
             c == off[q]
  <2>1. c = Upto(f, i - 1) /\ need[q] = f[i] /\ i \in 1..Len(C)
    BY ONLY q \in F, <1>5, <1>7, <1>8
  <2>2. q \in DOMAIN need
    BY ONLY q \in F, <1>7
  <2>3. c \in Nat /\ f[i] \in Nat /\ c + f[i] <= Len(a)
    BY ONLY <1>9, <1>11, <2>1, <2>2 DEF Dealt
  <2>4. NewSlots(pool)[q] = Share(a, f, i)
    BY ONLY <1>12, q \in F
  <2> HIDE DEF c, i
  <2>5. Given(a, c, f[i], Share(a, f, i))
    BY ONLY <1>11, <2>1, <2>3, ShareFacts
  <2> QED
    BY ONLY <2>1, <2>4, <2>5 DEF c
<1> QED
  BY ONLY <1>9, <1>10, <1>13 DEF a, F

\* Row w is prefix u and the m slots after the first c of a.
Joined(u, a, c, m, w) ==
    /\ w \in Seq(Slot) /\ Len(w) = Len(u) + m
    /\ \A i \in 1..Len(u) : w[i] = u[i]
    /\ \A i \in 1..m : w[Len(u) + i] = a[c + i]

Joins(u, g, w) == w = u \o g

\* A row that is a prefix and what was allocated.
LEMMA JoinedRow ==
    ASSUME NEW u \in Seq(Slot), NEW a, NEW c, NEW m \in Nat, NEW g, Given(a, c, m, g), NEW w,
           Joins(u, g, w)
    PROVE  Joined(u, a, c, m, w)
<1>1. g \in Seq(Slot) /\ Len(g) = m /\ \A i \in 1..m : g[i] = a[c + i]
  BY DEF Given
<1>2. w \in Seq(Slot) /\ Len(w) = Len(u) + m
  <2>0. u \in Seq(Slot) /\ g \in Seq(Slot)
    BY <1>1
  <2>1. Len(g) = m /\ w = u \o g
    BY <1>1 DEF Joins
  <2>2. u \o g \in Seq(Slot) /\ Len(u \o g) = Len(u) + Len(g)
    BY ONLY <2>0, ConcatProperties
  <2> QED
    BY ONLY <2>1, <2>2
<1>3. \A i \in 1..Len(u) : w[i] = u[i]
  BY <1>1 DEF Joins
<1>4. \A i \in 1..m : w[Len(u) + i] = g[i]
  <2> TAKE i \in 1..m
  <2> DEFINE n == Len(u)
             j == n + i
  <2>1. n \in Nat /\ j \in 1..n + m /\ ~(j <= n) /\ j - n = i
    OBVIOUS
  <2>2. w = u \o g /\ Len(g) = m /\ Len(u) = n
    BY <1>1 DEF Joins
  <2> HIDE DEF n, j
  <2>3. (u \o g)[j] = g[j - n]
    <3>1. u \in Seq(Slot) /\ g \in Seq(Slot)
      BY <1>1
    <3>2. j \in 1..Len(u) + Len(g) /\ ~(j <= Len(u))
      BY ONLY <2>1, <2>2
    <3>3. (u \o g)[j] = g[j - Len(u)]
      BY ONLY <3>1, <3>2
    <3> QED
      BY ONLY <2>2, <3>3
  <2> QED
    BY ONLY <2>1, <2>2, <2>3 DEF n, j
<1> QED
  BY <1>1, <1>2, <1>3, <1>4 DEF Joined

\* The prompt that is cut off, if any, is the one prefilled in chunks next.
LEMMA NextChunked ==
    ASSUME OverlapInv, loop = "launch", NEW ch,
           ch = IF \E q \in ToSet(can_run) : Truncated(q)
                THEN CHOOSE q \in ToSet(can_run) : Truncated(q) ELSE NoReq
    PROVE  /\ ch \in Request \cup {NoReq}
           /\ \A q \in Request : Chunked(ch, q) = "yes" <=> q \in ToSet(can_run) /\ Truncated(q)
           /\ \A q : Chunked(ch, q) \in {"yes", "no"}
<1>1. \A p, q \in ToSet(can_run) : Cut(p, req[p]) /\ Cut(q, req[q]) => p = q
  BY ONLY OverlapInv, Before DEF ListsOf
<1>2. \A q : Cut(q, req[q]) <=> Truncated(q)
  BY ONLY TRUE DEF Cut, Truncated, Full, SeqLen
<1>3. \A p, q \in ToSet(can_run) : Truncated(p) /\ Truncated(q) => p = q
  BY ONLY <1>1, <1>2
<1>4. ToSet(can_run) \subseteq Request /\ NoReq \notin Request
  BY ONLY OverlapInv, loop = "launch", CanRunFacts, OverlapAssumption
<1>5. CASE \E q \in ToSet(can_run) : Truncated(q)
  <2>1. ch \in ToSet(can_run) /\ Truncated(ch)
    BY <1>5
  <2> QED
    BY ONLY <1>3, <1>4, <2>1 DEF Chunked
<1>6. CASE ~\E q \in ToSet(can_run) : Truncated(q)
  <2>1. ch = NoReq
    BY <1>6
  <2> QED
    BY ONLY <1>4, <1>6, <2>1 DEF Chunked
<1> QED
  BY ONLY <1>5, <1>6

\* prepare_for_extend: the batch takes rows and slots, and is launched.
LEMMA ExtendInv == ASSUME OverlapInv, FlowInv, PrepareForExtend PROVE OverlapInv'
<1> DEFINE C == can_run
           F == ToSet(can_run)
           H == HeldBy(req, can_run)
           t == TailsOf(req, rows, LateSlots(req, Old, cur))
           v == TailsOf(req', rows', LateSlots(req', Old, cur'))
<1>1. /\ loop = "launch" /\ can_run # <<>> /\ Len(can_run) <= Len(free_rows)
      /\ (\E k, D, pool : Extends(k, D, pool))
      /\ SeatedAll
      /\ free_rows' = SubSeq(free_rows, Len(can_run) + 1, Len(free_rows))
      /\ chunked_req' = IF \E q \in ToSet(can_run) : Truncated(q)
                        THEN CHOOSE q \in ToSet(can_run) : Truncated(q) ELSE NoReq
      /\ can_run' = <<>> /\ loop' = "process"
      /\ UNCHANGED <<running, server_args, last_batch, result>>
  BY ONLY PrepareForExtend, ExtendSays
<1>2. Old' = Old
  BY ONLY <1>1 DEF Old
<1>3. /\ TypesOf(req, chunked_req, server_args, Old, cur)
      /\ LivesOf(req, Old, cur, can_run, running, chunked_req, loop)
      /\ ListsOf(req, running, can_run, chunked_req, server_args, loop)
      /\ RowsOf(req, rows, free_rows, NumRows)
      /\ LocksOf(tree, H, req) /\ Part(tree.pos, t, free)
  BY ONLY OverlapInv, Before
<1>4. /\ can_run \in Seq(Request) /\ Distinct(can_run) /\ F \subseteq Request
      /\ \A q \in F :
            /\ req[q].idx = 0 /\ req[q].slen = 0 /\ req[q].st # "done"
            /\ Len(req[q].pre) \in Nat /\ req[q].fill \in Nat /\ Len(req[q].pre) < req[q].fill
            /\ ExtendLen(q) \in Nat
  BY ONLY OverlapInv, <1>1, CanRunFacts
<1>5. cur = NoBatch
  BY ONLY <1>1, FlowInv DEF FlowInv, AtMostTwo
<1>6. PICK k, D, pool : Extends(k, D, pool)
  BY ONLY <1>1
<1> DEFINE total == Total(Needs)
           new == NewSlots(pool)
           w == FilledRows(new)
<1>7. /\ D \in EvictChoices(tree, k) /\ pool = Freed(free, SlotsOf(tree, D))
      /\ Available(pool) >= total /\ tree' = Delete(tree, D) /\ free' = AllocRest(pool, total)
      /\ Written(rows, rows', F, NewRows, w)
      /\ cur' = Batch("extend", can_run, new, [q \in F |-> req[q].fill], NewRows, [q \in F |-> 0])
  BY ONLY <1>6 DEF Extends
<1>8. IsBatch(cur') /\ cur'.reqs = can_run /\ cur'.mode = "extend"
  <2>1. cur' = [mode |-> "extend", reqs |-> can_run, loc |-> new, len |-> [q \in F |-> req[q].fill],
                idx |-> NewRows, fut |-> [q \in F |-> 0], ct |-> future_ct]
    BY ONLY <1>7 DEF Batch
  <2> DEFINE b == cur'
             x1 == [q \in F |-> req[q].fill]
             x2 == [q \in F |-> 0]
  <2>2. b = [mode |-> "extend", reqs |-> can_run, loc |-> new, len |-> x1,
             idx |-> NewRows, fut |-> x2, ct |-> future_ct]
    BY ONLY <2>1
  <2> HIDE DEF b, new, x1, x2
  <2>3. /\ b.reqs = can_run /\ b.mode = "extend" /\ b.loc = new /\ b.len = x1 /\ b.idx = NewRows
        /\ b.fut = x2 /\ b.ct = future_ct
    BY ONLY <2>2
  <2>4. IsBatch(b)
    BY ONLY <1>4, <2>2, <2>3 DEF IsBatch
  <2> QED
    BY ONLY <2>3, <2>4 DEF b
<1>9. \A q \in Request : IsReq(req[q]) /\ req[q].chunks \in Nat
  <2> TAKE q \in Request
  <2>1. IsReq(req[q])
    BY ONLY <1>3, q \in Request DEF TypesOf
  <2> QED
    BY ONLY <2>1 DEF IsReq
<1>10. /\ \A q \in F : /\ IsReq(req'[q]) /\ req'[q].st = "in" /\ req'[q].out = req[q].out
                       /\ req'[q].fill = req[q].fill /\ req'[q].pre = req[q].pre
                       /\ req'[q].last = req[q].last /\ req'[q].idx = NewRows[q]
                       /\ req'[q].slen = req[q].fill /\ req'[q].retracted = FALSE
                       /\ req'[q].chunks = IF Truncated(q) THEN req[q].chunks + 1 ELSE req[q].chunks
       /\ \A q \in Request : q \notin F => req'[q] = req[q]
       /\ req' = [q \in Request |-> req'[q]]
  <2>1. ASSUME NEW q \in F
        PROVE  /\ IsReq(req'[q]) /\ req'[q].st = "in" /\ req'[q].out = req[q].out
               /\ req'[q].fill = req[q].fill /\ req'[q].pre = req[q].pre
               /\ req'[q].last = req[q].last /\ req'[q].idx = NewRows[q]
               /\ req'[q].slen = req[q].fill /\ req'[q].retracted = FALSE
               /\ req'[q].chunks = IF Truncated(q) THEN req[q].chunks + 1 ELSE req[q].chunks
    <3> DEFINE r == req[q]
               r2 == req'[q]
               i == NewRows[q]
               x == future_ct + Position(can_run, q)
               m == IF Truncated(q) THEN req[q].chunks + 1 ELSE req[q].chunks
    <3>1. q \in Request
      BY ONLY <1>4, q \in F
    <3>2. Seats(r, i, x, m, r2)
      BY ONLY <1>1, <3>1, q \in F DEF SeatedAll
    <3>3. IsReq(r) /\ m \in Nat
      BY ONLY <1>9, <3>1
    <3> HIDE DEF r, r2, i, x, m
    <3>4. Sits(r, i, m, r2)
      BY ONLY <3>2, <3>3, SeatFacts
    <3> QED
      BY ONLY <3>4 DEF r, r2, i, m, Sits
  <2>2. /\ \A q \in Request : q \notin F => req'[q] = req[q]
        /\ req' = [q \in Request |-> req'[q]]
    BY ONLY <1>1 DEF SeatedAll
  <2> QED
    BY ONLY <2>1, <2>2
<1>11. /\ chunked_req' \in Request \cup {NoReq}
       /\ \A q \in Request : Chunked(chunked_req', q) = "yes" <=> q \in F /\ Truncated(q)
       /\ \A q : Chunked(chunked_req', q) \in {"yes", "no"}
  <2> DEFINE ch == chunked_req'
  <2>1. ch = IF \E q \in ToSet(can_run) : Truncated(q)
             THEN CHOOSE q \in ToSet(can_run) : Truncated(q) ELSE NoReq
    BY ONLY <1>1
  <2> HIDE DEF ch
  <2>2. /\ ch \in Request \cup {NoReq}
        /\ \A q \in Request : Chunked(ch, q) = "yes" <=> q \in F /\ Truncated(q)
        /\ \A q : Chunked(ch, q) \in {"yes", "no"}
    BY ONLY OverlapInv, <1>1, <2>1, NextChunked
  <2> QED
    BY ONLY <2>2 DEF ch
<1>12. TypesOf(req', chunked_req', server_args, Old, cur') /\ Records(req) /\ Records(req')
  <2>1. \A q \in Request : IsReq(req'[q])
    BY ONLY <1>9, <1>10
  <2>2. TypesOf(req', chunked_req', server_args, Old, cur')
    BY ONLY <1>3, <1>8, <1>10, <1>11, <2>1 DEF TypesOf
  <2>3. Records(req)
    BY ONLY <1>3, TypesFacts
  <2> DEFINE R2 == req'
             ch == chunked_req'
             b == cur'
  <2>4. TypesOf(R2, ch, server_args, Old, b)
    BY ONLY <2>2
  <2> HIDE DEF R2, ch, b
  <2>5. Records(R2)
    BY ONLY <2>4, TypesFacts
  <2> QED
    BY ONLY <2>2, <2>3, <2>5 DEF R2
<1>13. Types'
  BY ONLY <1>1, <1>2, <1>12 DEF Types
<1>14. \A q : /\ q \in F => Use(cur', q) = "extend"
              /\ q \notin F => Use(cur', q) = "none"
  BY ONLY <1>8 DEF Use
<1>15. \A q : q \notin ToSet(<<>>)
  BY ONLY EmptyList
<1>16. \A q \in F : q \notin ToSet(running)
  BY ONLY <1>3 DEF ListsOf
<1>17. Lives'
  <2>1. ASSUME NEW q \in F
        PROVE  LifeOf(q, req'[q], Use(Old, q), "extend", "out", Chunked(chunked_req', q), "process")
    <3> DEFINE r == req[q]
               r2 == req'[q]
               c2 == Chunked(chunked_req', q)
    <3>0. q \in Request
      BY ONLY <1>4, q \in F
    <3>1. /\ LifeTypes(q, r, Use(Old, q), Use(cur, q), Stands(can_run, running, q), Chunked(chunked_req, q))
          /\ LifeOf(q, r, Use(Old, q), Use(cur, q), Stands(can_run, running, q), Chunked(chunked_req, q), "launch")
      BY ONLY OverlapInv, <1>1, <3>0, LifeNow
    <3>2. Stands(can_run, running, q) = "can"
      BY ONLY q \in F, StandsFacts
    <3>3. c2 \in {"yes", "no"} /\ (c2 = "yes" <=> r.fill < Full(q, r))
      <4>1. c2 \in {"yes", "no"} /\ (c2 = "yes" <=> Truncated(q))
        BY ONLY <1>11, <3>0, q \in F
      <4> QED
        BY ONLY <4>1 DEF Truncated, SeqLen, Full
    <3>4. r2.chunks = r.chunks + One(c2 = "yes")
      <4>1. c2 = "yes" <=> Truncated(q)
        BY ONLY <1>11, <3>0, q \in F
      <4>2. r2.chunks = IF Truncated(q) THEN r.chunks + 1 ELSE r.chunks
        BY ONLY <1>10, q \in F
      <4>3. r.chunks \in Nat
        BY ONLY <1>9, <3>0
      <4>4. CASE c2 = "yes"
        BY ONLY <4>1, <4>2, <4>3, <4>4 DEF One
      <4>5. CASE c2 # "yes"
        BY ONLY <4>1, <4>2, <4>3, <4>5 DEF One
      <4> QED
        BY ONLY <4>4, <4>5
    <3>5. /\ r2.st = "in" /\ r2.out = r.out /\ r2.fill = r.fill /\ r2.pre = r.pre /\ r2.slen = r.fill
      BY ONLY <1>10, q \in F
    <3>6. r2.retracted = FALSE
      BY ONLY <1>10, q \in F
    <3>7. r2.idx # 0
      <4>1. \A p \in ToSet(can_run) : free_rows[Position(can_run, p)] \in 1..NumRows
        BY ONLY <1>1, <1>3, <1>4, TakenRows
      <4>2. r2.idx \in 1..NumRows
        BY ONLY <1>10, <4>1, q \in F DEF NewRows
      <4>3. NumRows \in Nat
        BY ONLY OverlapInv, SizeFacts DEF OverlapInv
      <4> QED
        BY ONLY <4>2, <4>3
    <3> HIDE DEF r, r2, c2
    <3>8. LifeOf(q, r2, Use(Old, q), "extend", "out", c2, "process")
      BY ONLY <3>1, <3>2, <3>3, <3>4, <3>5, <3>6, <3>7, LifeExtends, ZenonT(40)
    <3> QED
      BY ONLY <3>8 DEF r2, c2
  <2>2. ASSUME NEW q \in Request, q \notin F
        PROVE  LifeOf(q, req[q], Use(Old, q), "none", Stands(can_run, running, q), "no", "process")
    <3>1. /\ LifeTypes(q, req[q], Use(Old, q), Use(cur, q), Stands(can_run, running, q), Chunked(chunked_req, q))
          /\ LifeOf(q, req[q], Use(Old, q), Use(cur, q), Stands(can_run, running, q), Chunked(chunked_req, q), "launch")
      BY ONLY OverlapInv, <1>1, q \in Request, LifeNow
    <3>2. Stands(can_run, running, q) # "can"
      BY ONLY <2>2, StandsFacts
    <3>3. LifeOf(q, req[q], Use(Old, q), Use(cur, q), Stands(can_run, running, q), "no", "process") /\ Use(cur, q) = "none"
      BY ONLY <3>1, <3>2, LifeWaits
    <3> QED
      BY ONLY <3>3
  <2>3. \A q \in Request : LifeOf(q, req'[q], Use(Old, q), Use(cur', q), Stands(<<>>, running, q),
                                  Chunked(chunked_req', q), "process")
    <3> TAKE q \in Request
    <3>1. CASE q \in F
      <4>1. Stands(<<>>, running, q) = "out" /\ Use(cur', q) = "extend"
        BY ONLY <1>14, <1>15, <1>16, <3>1, StandsFacts
      <4> QED
        BY ONLY <2>1, <3>1, <4>1
    <3>2. CASE q \notin F
      <4>1. Stands(<<>>, running, q) = Stands(can_run, running, q) /\ Use(cur', q) = "none"
        BY ONLY <1>14, <1>15, <3>2 DEF Stands
      <4>2. Chunked(chunked_req', q) = "no" /\ req'[q] = req[q]
        BY ONLY <1>10, <1>11, <3>2, q \in Request
      <4> QED
        BY ONLY <2>2, <3>2, q \in Request, <4>1, <4>2
    <3> QED
      BY ONLY <3>1, <3>2
  <2> QED
    BY ONLY <1>1, <1>2, <2>3 DEF Lives, LivesOf
<1>18. Lists'
  <2>1. ListsOf(req', running, <<>>, chunked_req', server_args, "process")
    BY ONLY <1>3, EmptyList DEF ListsOf
  <2> QED
    BY ONLY <1>1, <2>1 DEF Lists
<1>19. Part(tree'.pos, t, pool) /\ LocksOf(tree', H, req)
  <2> HIDE DEF H, t
  <2> QED
    BY ONLY <1>3, <1>7, <1>12, LocksEvict
<1> DEFINE need == [q \in F |-> ExtendLen(q)]
           off == [q \in F |-> Upto(Needs, Position(can_run, q) - 1)]
           a == AllocSeq(pool, total)
<1>20. /\ total \in Nat /\ Dealt(need, total, off)
       /\ \A q \in F : Given(a, off[q], need[q], new[q])
  <2>1. pool \in [Slot -> {0, 1}]
    BY ONLY <1>19 DEF Part
  <2>2. total = Total(Needs) /\ need = [q \in ToSet(can_run) |-> ExtendLen(q)]
        /\ off = [q \in ToSet(can_run) |-> Upto(Needs, Position(can_run, q) - 1)]
    OBVIOUS
  <2> HIDE DEF total, need, off
  <2> QED
    BY ONLY OverlapInv, <1>1, <1>7, <2>1, <2>2, ExtendShares
<1>21. \A q \in F : w[q] = req[q].pre \o new[q] /\ need[q] = req[q].fill - Len(req[q].pre)
  BY ONLY TRUE DEF FilledRows, ExtendLen
<1>22. \A q \in F : req[q].pre \in Seq(Slot)
  BY ONLY <1>4, <1>9 DEF IsReq
<1> DEFINE N == NumRows
<1>23. /\ rows = [i \in 1..N |-> rows[i]]
       /\ \A q \in F : NewRows[q] \in 1..N /\ NewRows[q] \in ToSet(free_rows)
       /\ \A p, q \in F : NewRows[p] = NewRows[q] => p = q
  <2>1. /\ \A q \in ToSet(can_run) : /\ free_rows[Position(can_run, q)] \in 1..NumRows
                                     /\ free_rows[Position(can_run, q)] \in ToSet(free_rows)
        /\ \A p, q \in ToSet(can_run) : free_rows[Position(can_run, p)] = free_rows[Position(can_run, q)] => p = q
    BY ONLY <1>1, <1>3, <1>4, TakenRows
  <2>2. rows = [i \in 1..N |-> rows[i]]
    BY ONLY <1>3 DEF RowsOf
  <2> QED
    BY ONLY <2>1, <2>2 DEF NewRows
<1> HIDE DEF need, off, a, total, new, w, N
<1>24. /\ rows' = [i \in 1..N |-> rows'[i]]
       /\ \A q \in F : rows'[NewRows[q]] = w[q]
       /\ \A i \in 1..N : (\A q \in F : NewRows[q] # i) => rows'[i] = rows[i]
  <2> DEFINE rx == rows'
             f == NewRows
             G == F
  <2>1. RowsTo(rows, N) /\ Written(rows, rx, G, f, w) /\ OneEach(G, f, N)
    BY ONLY <1>7, <1>23 DEF RowsTo, OneEach
  <2> HIDE DEF rx, f, G
  <2>2. Overwrites(rows, rx, G, f, w, N)
    BY ONLY <2>1, WrittenFacts
  <2> QED
    BY ONLY <2>2 DEF rx, f, G, Overwrites
<1>25. \A q \in F : /\ w[q] \in Seq(Slot) /\ Len(w[q]) = req[q].fill
                    /\ \A i \in 1..Len(req[q].pre) : w[q][i] = req[q].pre[i]
                    /\ \A i \in 1..need[q] : w[q][Len(req[q].pre) + i] = a[off[q] + i]
  <2> TAKE q \in F
  <2> DEFINE u == req[q].pre
             c == off[q]
             m == need[q]
             g == new[q]
             y == w[q]
             f == req[q].fill
  <2>1. u \in Seq(Slot) /\ Given(a, c, m, g) /\ Joins(u, g, y)
    BY ONLY <1>20, <1>21, <1>22, q \in F DEF Joins
  <2>2. m = f - Len(u) /\ m \in Nat /\ f \in Nat /\ Len(u) \in Nat
    BY ONLY <1>4, <1>21, q \in F DEF ExtendLen
  <2> HIDE DEF u, c, m, g, y, f
  <2>3. Joined(u, a, c, m, y)
    BY ONLY <2>1, <2>2, JoinedRow
  <2>4. Len(y) = f
    BY ONLY <2>2, <2>3 DEF Joined
  <2>5. /\ y \in Seq(Slot) /\ Len(y) = f
        /\ \A i \in 1..Len(u) : y[i] = u[i]
        /\ \A i \in 1..m : y[Len(u) + i] = a[c + i]
    BY ONLY <2>3, <2>4 DEF Joined
  <2> QED
    BY ONLY <2>5 DEF u, c, m, y, f
<1>26. \A p \in Rowed(req) : /\ p \in Request /\ p \notin F /\ req'[p] = req[p]
                             /\ rows'[req[p].idx] = rows[req[p].idx]
  <2> TAKE p \in Rowed(req)
  <2>1. p \in Request /\ p \notin F
    BY ONLY <1>4, p \in Rowed(req) DEF Rowed
  <2>2. req[p].idx \in 1..N /\ req[p].idx \notin ToSet(free_rows)
    BY ONLY <1>3, p \in Rowed(req) DEF RowsOf, N
  <2>3. \A q \in F : NewRows[q] # req[p].idx
    BY ONLY <1>23, <2>2
  <2> QED
    BY ONLY <1>10, <1>24, <2>1, <2>2, <2>3
<1>27. Rows'
  <2> DEFINE R2 == req'
             rx == rows'
  <2>1. \A q \in Request : R2[q].idx = IF q \in ToSet(can_run) THEN free_rows[Position(can_run, q)] ELSE req[q].idx
    BY ONLY <1>10 DEF NewRows
  <2>2. \A q \in Rowed(R2) : RowOf(R2[q], rx[R2[q].idx])
    <3> TAKE q \in Rowed(R2)
    <3>1. CASE q \in F
      <4>1. /\ R2[q].pre = req[q].pre /\ R2[q].slen = req[q].fill /\ R2[q].idx = NewRows[q]
        BY ONLY <1>10, <3>1
      <4>2. rx[R2[q].idx] = w[q]
        BY ONLY <1>24, <3>1, <4>1
      <4> QED
        BY ONLY <1>25, <3>1, <4>1, <4>2 DEF RowOf
    <3>2. CASE q \notin F
      <4>1. q \in Rowed(req)
        BY ONLY <1>10, <3>2, q \in Rowed(R2) DEF Rowed
      <4>2. RowOf(req[q], rows[req[q].idx])
        BY ONLY <1>3, <4>1 DEF RowsOf
      <4> QED
        BY ONLY <1>26, <4>1, <4>2
    <3> QED
      BY ONLY <3>1, <3>2
  <2>3. rx = [i \in 1..NumRows |-> rx[i]]
    BY ONLY <1>24 DEF N
  <2>4. \A q \in ToSet(can_run) : req[q].idx = 0
    BY ONLY <1>4
  <2> HIDE DEF R2, rx
  <2>5. RowsOf(R2, rx, SubSeq(free_rows, Len(can_run) + 1, Len(free_rows)), NumRows)
    BY ONLY <1>1, <1>3, <1>4, <2>1, <2>2, <2>3, <2>4, RowsTake
  <2> QED
    BY ONLY <1>1, <2>5 DEF Rows, NumRows, MaxRunning, R2, rx
<1>28. Part(tree'.pos, v, free')
  <2> DEFINE l == LateSlots(req, Old, cur)
             j == LateSlots(req', Old, cur')
             R2 == req'
             rx == rows'
             L == [q \in F |-> Len(req[q].pre)]
  <2>1. SameLate(l, j) /\ DOMAIN l \subseteq Request
    <3>1. LateStay(req, Old, cur, Old, cur')
      <4>1. \A q \in Request : q \notin ToSet(cur.reqs)
        BY ONLY <1>5, NoBatchFacts
      <4>2. \A q \in Request : req[q].st = "done" => q \notin ToSet(cur'.reqs)
        BY ONLY <1>4, <1>8
      <4> QED
        BY ONLY <4>1, <4>2 DEF LateStay
    <3>2. SameEnds(req, req')
      BY ONLY <1>4, <1>10 DEF SameEnds
    <3> DEFINE b == cur'
    <3>3. LateStay(req, Old, cur, Old, b) /\ SameEnds(req, R2)
      BY ONLY <3>1, <3>2
    <3> HIDE DEF b, R2
    <3>4. SameLate(l, LateSlots(R2, Old, b)) /\ DOMAIN l \subseteq Request
      BY ONLY <3>3, LateSame
    <3> QED
      BY ONLY <3>4 DEF b, R2
  <2>2. \A q \in Request : q \notin F => SameTail(req, rows, R2, rx, q)
    <3> TAKE q \in Request
    <3> HAVE q \notin F
    <3>0. R2[q] = req[q] /\ req[q].slen \in Nat /\ Len(req[q].pre) \in Nat
      BY ONLY <1>10, <1>12, q \in Request, q \notin F DEF Records
    <3> HIDE DEF R2, rx
    <3>1. CASE q \in Rowed(req)
      <4>1. rx[R2[q].idx] = rows[req[q].idx]
        BY ONLY <1>26, <3>0, <3>1 DEF rx
      <4> QED
        BY ONLY <3>0, <4>1, KeepsTail
    <3>2. CASE q \notin Rowed(req)
      <4>0. LifeTypes(q, req[q], Use(Old, q), Use(cur, q), Stands(can_run, running, q), Chunked(chunked_req, q))
            /\ LifeOf(q, req[q], Use(Old, q), Use(cur, q), Stands(can_run, running, q), Chunked(chunked_req, q), loop)
        BY ONLY OverlapInv, q \in Request, LifeNow
      <4>1. req[q].slen = 0
        BY ONLY <3>2, q \in Request, <4>0 DEF LifeOf, LifeTypes, IsReq, Cleared, Admitted, Seated, Rowed
      <4> QED
        BY ONLY <3>0, <4>1, NoTail
    <3> QED
      BY ONLY <3>1, <3>2
  <2>3. \A q \in F : GrownTail(req, rows, R2, rx, q, need[q], L[q], off[q], a)
    <3> TAKE q \in F
    <3> DEFINE r == req[q]
               r2 == R2[q]
               b == L[q]
               m == need[q]
               x == rx[R2[q].idx]
    <3>1. r2.pre = r.pre /\ r2.slen = r.fill /\ r.slen = 0 /\ b = Len(r.pre)
      BY ONLY <1>4, <1>10, q \in F
    <3>2. m = r.fill - b /\ r.fill \in Nat /\ b \in Nat /\ b < r.fill
      BY ONLY <1>4, <1>21, q \in F
    <3>3. x = w[q]
      BY ONLY <1>10, <1>24, q \in F
    <3>4. \A i \in 1..m : x[b + i] = a[off[q] + i]
      BY ONLY <1>25, <3>3, q \in F
    <3>5. \A i : ~InTail(r, i)
      BY ONLY <3>1, <3>2 DEF InTail
    <3> HIDE DEF b, m
    <3>6. \A i : InTail(r2, i) <=> (i \in Nat /\ i - b \in 1..m)
      BY ONLY <3>1, <3>2, SMTT(20) DEF InTail
    <3>7. m \in Nat
      BY ONLY <3>2
    <3> QED
      BY ONLY <3>2, <3>4, <3>5, <3>6, <3>7 DEF GrownTail, b, m
  <2>4. DOMAIN need = F /\ F \subseteq Request
    BY ONLY <1>4 DEF need
  <2>5. Part(tree'.pos, TailsOf(req, rows, l), pool)
    BY ONLY <1>19
  <2> DEFINE P == tree'.pos
  <2>6. Part(P, TailsOf(req, rows, l), pool) /\ Records(R2)
    BY ONLY <1>12, <2>5
  <2>7. /\ \A q \in Request : q \notin DOMAIN need => SameTail(req, rows, R2, rx, q)
        /\ \A q \in DOMAIN need :
                GrownTail(req, rows, R2, rx, q, need[q], L[q], off[q], AllocSeq(pool, total))
        /\ DOMAIN need \subseteq Request
    BY ONLY <2>2, <2>3, <2>4 DEF a
  <2> HIDE DEF l, j, R2, rx, L, P
  <2>8. Part(P, TailsOf(R2, rx, j), AllocRest(pool, total))
    BY ONLY <1>7, <1>12, <1>20, <2>1, <2>6, <2>7, GrowTails
  <2> QED
    BY ONLY <1>7, <2>8 DEF P, R2, rx, j
<1>29. LocksOf(tree', HeldBy(req', <<>>), req')
  <2> DEFINE G == HeldBy(req', <<>>)
             S == req'
             T == tree'
  <2>1. \A q : q \in G <=> q \in H
    BY ONLY <1>4, <1>10, <1>15 DEF HeldBy
  <2>2. \A q \in H : S[q].last = req[q].last /\ S[q].pre = req[q].pre
    <3>1. H \subseteq Request
      BY ONLY TRUE DEF HeldBy
    <3> QED
      BY ONLY <1>10, <3>1
  <2>3. LocksOf(T, H, req)
    BY ONLY <1>19
  <2> HIDE DEF G, S, T, H
  <2>4. LocksOf(T, G, S)
    BY ONLY <2>1, <2>2, <2>3, LocksSame
  <2> QED
    BY ONLY <2>4 DEF G, S, T
<1>30. LastSlot(req', rows', cur')
  <2>1. \A q \in Request : Use(cur', q) # "decode"
    BY ONLY <1>14
  <2> QED
    BY ONLY <2>1 DEF LastSlot
<1>31. Locks' /\ Slots'
  BY ONLY <1>1, <1>2, <1>28, <1>29, <1>30 DEF Locks, Slots
<1> QED
  BY ONLY <1>13, <1>17, <1>18, <1>27, <1>31 DEF OverlapInv

(* prepare_for_decode *)

\* The sequence of a request grows by one token, and it gets placeholder x.
Steps(r, x, r2) == r2 = [r EXCEPT !.slen = r.slen + 1, !.fut = x]

\* Its record, field by field.
Stepped(r, r2) ==
    /\ IsReq(r2) /\ r2.st = r.st /\ r2.out = r.out /\ r2.fill = r.fill /\ r2.pre = r.pre
    /\ r2.last = r.last /\ r2.idx = r.idx /\ r2.slen = r.slen + 1 /\ r2.chunks = r.chunks
    /\ r2.retracted = r.retracted

\* What becomes of its record.
LEMMA StepFacts ==
    ASSUME NEW r, IsReq(r), NEW x, NEW r2, Steps(r, x, r2)
    PROVE  Stepped(r, r2)
<1>1. /\ r = [st |-> r.st, out |-> r.out, fill |-> r.fill, pre |-> r.pre, last |-> r.last,
              idx |-> r.idx, slen |-> r.slen, fut |-> r.fut, chunks |-> r.chunks,
              retracted |-> r.retracted]
      /\ r.slen \in Nat
  BY ONLY IsReq(r) DEF IsReq
<1> DEFINE n == r.slen + 1
           x1 == [r EXCEPT !.slen = n]
<1>2. r2 = [x1 EXCEPT !.fut = x]
  BY ONLY Steps(r, x, r2) DEF Steps
<1>3. n \in Nat
  BY ONLY <1>1
<1> HIDE DEF n
<1>4. x1 = [st |-> r.st, out |-> r.out, fill |-> r.fill, pre |-> r.pre, last |-> r.last,
            idx |-> r.idx, slen |-> n, fut |-> r.fut, chunks |-> r.chunks,
            retracted |-> r.retracted]
  BY ONLY <1>1
<1> HIDE DEF x1
<1>5. r2 = [st |-> r.st, out |-> r.out, fill |-> r.fill, pre |-> r.pre, last |-> r.last,
            idx |-> r.idx, slen |-> n, fut |-> x, chunks |-> r.chunks,
            retracted |-> r.retracted]
  BY ONLY <1>2, <1>4
<1>6. /\ r2.st = r.st /\ r2.out = r.out /\ r2.fill = r.fill /\ r2.pre = r.pre
      /\ r2.last = r.last /\ r2.idx = r.idx /\ r2.slen = n /\ r2.chunks = r.chunks
      /\ r2.fut = x
  BY ONLY <1>5
<1>7. r2.retracted = r.retracted
  BY ONLY <1>5
<1>8. r2 = [st |-> r2.st, out |-> r2.out, fill |-> r2.fill, pre |-> r2.pre, last |-> r2.last,
            idx |-> r2.idx, slen |-> r2.slen, fut |-> r2.fut, chunks |-> r2.chunks,
            retracted |-> r2.retracted]
  BY ONLY <1>5, <1>6, <1>7
<1>9. IsReq(r2)
  BY ONLY IsReq(r), <1>3, <1>6, <1>8 DEF IsReq
<1> QED
  BY ONLY <1>6, <1>7, <1>9 DEF Stepped, n

\* The slots and the rows of the decode batch.
OneSlots(pool) ==
    [q \in ToSet(Decoding) |-> <<AllocSeq(pool, Len(Decoding))[Position(Decoding, q)]>>]
OldRows == [q \in ToSet(Decoding) |-> req[q].idx]
LongerRows(new) ==
    [q \in ToSet(Decoding) |-> Take(rows[req[q].idx], req[q].slen) \o new[q]]

\* What prepare_for_decode does once D is evicted from T.
Decodes(T, fr, k, D, pool) ==
    /\ D \in EvictChoices(T, k) /\ pool = Freed(fr, SlotsOf(T, D))
    /\ Available(pool) >= Len(Decoding)
    /\ tree' = Delete(T, D) /\ free' = AllocRest(pool, Len(Decoding))
    /\ Written(rows, rows', ToSet(Decoding), OldRows, LongerRows(OneSlots(pool)))
    /\ cur' = Batch("decode", Decoding, OneSlots(pool),
                    [q \in ToSet(Decoding) |-> req[q].slen + 1], OldRows,
                    [q \in ToSet(Decoding) |-> req[q].fut])

\* What becomes of the requests.
SteppedAll ==
    /\ req' = [q \in Request |-> req'[q]]
    /\ \A q \in Request : q \notin ToSet(Decoding) => req'[q] = req[q]
    /\ \A q \in Request : q \in ToSet(Decoding) =>
          Steps(req[q], future_ct + Position(Decoding, q), req'[q])

\* The step, without its guards.
LEMMA DecodeSays ==
    ASSUME NEW T, NEW fr, DecodeFrom(T, fr)
    PROVE  /\ \E k, D, pool : Decodes(T, fr, k, D, pool)
           /\ SteppedAll
           /\ running' = Decoding /\ loop' = "process"
           /\ UNCHANGED <<free_rows, can_run, chunked_req, server_args, last_batch, result>>
<1>1. PICK D \in AllocEvicts(T, fr, Len(Decoding)) :
         LaunchDecode(T, D, Freed(fr, SlotsOf(T, D)), OneSlots(Freed(fr, SlotsOf(T, D))))
  BY DEF DecodeFrom, OneSlots
<1> DEFINE pool == Freed(fr, SlotsOf(T, D))
           new == OneSlots(pool)
           F == ToSet(Decoding)
           idx == OldRows
           w == LongerRows(new)
<1>2. PICK k : D \in EvictChoices(T, k)
  BY DEF AllocEvicts
<1>3. LaunchDecode(T, D, pool, new) /\ DOMAIN new = F
      /\ w = [q \in F |-> Take(rows[req[q].idx], req[q].slen) \o new[q]]
      /\ idx = [q \in F |-> req[q].idx]
  BY ONLY <1>1 DEF OneSlots, LongerRows, OldRows
<1>4. pool = Freed(fr, SlotsOf(T, D)) /\ new = OneSlots(pool) /\ idx = OldRows
      /\ w = LongerRows(new)
  BY SMTT(20)
<1> HIDE DEF pool, new, idx, w
<1>5. /\ Available(pool) >= Len(Decoding) /\ tree' = Delete(T, D) /\ free' = AllocRest(pool, Len(Decoding))
      /\ loop' = "process" /\ running' = Decoding
      /\ UNCHANGED <<free_rows, can_run, chunked_req, server_args, last_batch, result>>
  BY ONLY <1>3 DEF LaunchDecode, RunBatch
<1>6. cur' = Batch("decode", Decoding, new, [q \in F |-> req[q].slen + 1], idx, [q \in F |-> req[q].fut])
  <2>1. cur' = Batch("decode", Decoding, new,
                      [q \in DOMAIN new |-> req[q].slen + 1],
                      [q \in DOMAIN new |-> req[q].idx],
                      [q \in DOMAIN new |-> req[q].fut])
    BY ONLY <1>3 DEF LaunchDecode, RunBatch
  <2> HIDE DEF F
  <2> QED
    BY ONLY <1>3, <2>1, SMTT(20)
<1>7. Written(rows, rows', F, idx, w)
  <2>1. rows' = [i \in DOMAIN rows |->
                  IF \E q \in DOMAIN new : req[q].idx = i
                  THEN LET q == CHOOSE q \in DOMAIN new : req[q].idx = i
                       IN  Take(rows[i], req[q].slen) \o new[q]
                  ELSE rows[i]]
    BY ONLY <1>3 DEF LaunchDecode
  <2> HIDE DEF F
  <2>2. rows' = [i \in DOMAIN rows |->
                  IF \E q \in F : req[q].idx = i
                  THEN LET q == CHOOSE q \in F : req[q].idx = i
                       IN  Take(rows[i], req[q].slen) \o new[q]
                  ELSE rows[i]]
    BY ONLY <1>3, <2>1
  <2>3. \A i : (\E q \in F : req[q].idx = i) =>
            LET q == CHOOSE q \in F : req[q].idx = i
            IN  Take(rows[i], req[q].slen) \o new[q] = w[q]
    <3> TAKE i
    <3> HAVE \E q \in F : req[q].idx = i
    <3> DEFINE q == CHOOSE q \in F : req[q].idx = i
    <3>1. q \in F /\ req[q].idx = i
      OBVIOUS
    <3> HIDE DEF q
    <3>2. w[q] = Take(rows[req[q].idx], req[q].slen) \o new[q]
      BY ONLY <1>3, <3>1
    <3>3. Take(rows[i], req[q].slen) \o new[q] = w[q]
      BY ONLY <3>1, <3>2
    <3> QED
      BY ONLY <3>3 DEF q
  <2>4. rows' = [i \in DOMAIN rows |->
            IF \E q \in F : req[q].idx = i THEN w[CHOOSE q \in F : req[q].idx = i] ELSE rows[i]]
    BY ONLY <2>2, <2>3
  <2>5. \A i : /\ (\E q \in F : idx[q] = i) <=> (\E q \in F : req[q].idx = i)
               /\ (CHOOSE q \in F : idx[q] = i) = (CHOOSE q \in F : req[q].idx = i)
    <3> TAKE i
    <3>1. \A q \in F : idx[q] = req[q].idx
      BY ONLY <1>3
    <3>2. \A q : (q \in F /\ idx[q] = i) <=> (q \in F /\ req[q].idx = i)
      BY ONLY <3>1
    <3>3. (CHOOSE q : q \in F /\ idx[q] = i) = (CHOOSE q : q \in F /\ req[q].idx = i)
      BY ONLY <3>2
    <3> QED
      BY ONLY <3>2, <3>3
  <2>6. rows' = [i \in DOMAIN rows |->
            IF \E q \in F : idx[q] = i THEN w[CHOOSE q \in F : idx[q] = i] ELSE rows[i]]
    BY ONLY <2>4, <2>5
  <2> QED
    BY ONLY <2>6, SMTT(20) DEF Written
<1>8. SteppedAll
  <2>1. req' = [q \in Request |->
                 IF q \notin DOMAIN new THEN req[q]
                 ELSE [req[q] EXCEPT !.slen = @ + 1,
                                     !.fut = future_ct + Position(Decoding, q)]]
    BY ONLY <1>3 DEF LaunchDecode
  <2> HIDE DEF F
  <2>2. req' = [q \in Request |-> req'[q]] /\ \A q \in Request : q \notin F => req'[q] = req[q]
    BY ONLY <1>3, <2>1
  <2>3. \A q \in Request : q \in F =>
          Steps(req[q], future_ct + Position(Decoding, q), req'[q])
    <3> TAKE q \in Request
    <3> HAVE q \in F
    <3>1. req'[q] = [req[q] EXCEPT !.slen = @ + 1, !.fut = future_ct + Position(Decoding, q)]
      BY ONLY <1>3, <2>1, q \in Request, q \in F
    <3> QED
      BY ONLY <3>1 DEF Steps
  <2> QED
    BY ONLY <2>2, <2>3 DEF SteppedAll, F
<1>9. Decodes(T, fr, k, D, pool)
  BY ONLY <1>2, <1>4, <1>5, <1>6, <1>7 DEF Decodes
<1> QED
  BY ONLY <1>5, <1>8, <1>9

\* The requests that decode have a row.
LEMMA DecoderFacts ==
    ASSUME OverlapInv, loop \in {"launch", "retract"}, can_run = <<>>
    PROVE  /\ Decoding \in Seq(Request) /\ Distinct(Decoding) /\ ToSet(Decoding) \subseteq Request
           /\ \A q \in Request : q \notin ToSet(can_run)
           /\ \A q : q \in ToSet(Decoding) <=> q \in ToSet(running) /\ req[q].st # "done"
           /\ \A q \in ToSet(Decoding) :
                 /\ Stands(can_run, running, q) = "run" /\ req[q].st = "in" /\ req[q].idx # 0
                 /\ Len(req[q].pre) \in Nat /\ req[q].slen \in Nat /\ Len(req[q].pre) <= req[q].slen
<1>1. /\ Decoding \in Seq(Request) /\ Distinct(Decoding)
      /\ \A q : q \in ToSet(Decoding) <=> q \in ToSet(running) /\ req[q].st # "done"
  BY ONLY OverlapInv, DecodingFacts
<1>2. ToSet(Decoding) \subseteq Request
  BY ONLY <1>1, ToSetFacts
<1>3. \A q : q \notin ToSet(can_run)
  BY ONLY can_run = <<>>, EmptyList
<1>4. \A q \in ToSet(Decoding) :
         /\ Stands(can_run, running, q) = "run" /\ req[q].st = "in" /\ req[q].idx # 0
         /\ Len(req[q].pre) \in Nat /\ req[q].slen \in Nat /\ Len(req[q].pre) <= req[q].slen
  <2> TAKE q \in ToSet(Decoding)
  <2> DEFINE r == req[q]
             o == Use(Old, q)
             n == Use(cur, q)
             w == Stands(can_run, running, q)
             c == Chunked(chunked_req, q)
  <2>0. q \in Request
    BY ONLY <1>2, q \in ToSet(Decoding)
  <2>1. LifeTypes(q, r, o, n, w, c) /\ LifeOf(q, r, o, n, w, c, loop) /\ IsReq(r)
    BY ONLY OverlapInv, <2>0, LifeNow
  <2>2. w = "run" /\ r.st # "done"
    BY ONLY <1>1, <1>3, q \in ToSet(Decoding), StandsFacts
  <2> HIDE DEF r, o, n, w, c
  <2>3. r.st \in {"new", "queued", "in", "done", "gone"} /\ Len(r.pre) \in Nat /\ r.fill \in Nat /\ r.slen \in Nat
    BY ONLY <2>1 DEF IsReq
  <2>4. r.st = "in" /\ Seated(q, r, o, n, c)
    BY ONLY <2>1, <2>2, <2>3 DEF LifeOf
  <2>5. r.idx # 0 /\ Len(r.pre) <= r.slen
    BY ONLY <2>3, <2>4 DEF Seated
  <2> QED
    BY ONLY <2>2, <2>3, <2>4, <2>5 DEF r, w
<1> QED
  BY ONLY <1>1, <1>2, <1>3, <1>4

\* A list of one slot.
LEMMA GivenOne ==
    ASSUME NEW a \in Seq(Slot), NEW i \in 1..Len(a), NEW c, c = i - 1, NEW g, g = <<a[i]>>
    PROVE  Given(a, c, 1, g)
<1>1. a[i] \in Slot /\ i \in Int
  OBVIOUS
<1> DEFINE e == a[i]
<1>2. e \in Slot /\ g = <<e>>
  BY <1>1
<1> HIDE DEF e
<1>3. g \in Seq(Slot) /\ Len(g) = 1 /\ g[1] = e
  BY ONLY <1>2
<1>4. c + 1 = i
  BY ONLY c = i - 1, <1>1
<1>5. \A j \in 1..1 : g[j] = a[c + j]
  <2> TAKE j \in 1..1
  <2>1. j = 1
    BY ONLY j \in 1..1
  <2>2. g[1] = a[c + 1]
    BY ONLY <1>3, <1>4 DEF e
  <2> QED
    BY ONLY <2>1, <2>2
<1> QED
  BY ONLY <1>3, <1>5 DEF Given

\* Each request of the batch gets one slot.
LEMMA DecodeShares ==
    ASSUME OverlapInv, NEW pool \in [Slot -> {0, 1}], NEW total, total = Len(Decoding),
           Available(pool) >= total, NEW need, need = [q \in ToSet(Decoding) |-> 1],
           NEW off, off = [q \in ToSet(Decoding) |-> Position(Decoding, q) - 1]
    PROVE  /\ total \in Nat /\ Dealt(need, total, off)
           /\ \A q \in ToSet(Decoding) :
                 Given(AllocSeq(pool, total), off[q], 1, OneSlots(pool)[q])
<1> DEFINE C == Decoding
           F == ToSet(Decoding)
           a == AllocSeq(pool, total)
<1>1. C \in Seq(Request) /\ Distinct(C)
  BY ONLY OverlapInv, DecodingFacts
<1>2. total \in Nat
  BY ONLY <1>1, total = Len(Decoding), ToSetFacts
<1>3. Dealt(need, total, off)
  <2> HIDE DEF C
  <2>1. Dealt([q \in ToSet(C) |-> 1], Len(C), [q \in ToSet(C) |-> Position(C, q) - 1])
    BY ONLY <1>1, DealtOne
  <2>2. need = [q \in ToSet(C) |-> 1] /\ Len(C) = total /\ off = [q \in ToSet(C) |-> Position(C, q) - 1]
    BY DEF C
  <2> QED
    BY ONLY <2>1, <2>2
<1>4. a \in Seq(Slot) /\ Len(a) = total
  BY ONLY OverlapAssumption, pool \in [Slot -> {0, 1}], Available(pool) >= total, <1>2, AllocFacts
<1>5. \A q \in F : Position(C, q) \in 1..Len(C) /\ C[Position(C, q)] = q
  BY ONLY <1>1, PositionFacts
<1>6. \A q \in F : Given(a, off[q], 1, OneSlots(pool)[q])
  <2> TAKE q \in F
  <2> DEFINE i == Position(C, q)
             c == off[q]
             g == OneSlots(pool)[q]
  <2>1. i \in 1..Len(a)
    BY ONLY <1>4, <1>5, q \in F, total = Len(Decoding)
  <2>2. c = i - 1
    BY q \in F
  <2>3. g = <<a[i]>>
    BY ONLY q \in F, total = Len(Decoding) DEF OneSlots
  <2> HIDE DEF a, i, c, g
  <2>4. Given(a, c, 1, g)
    BY ONLY <1>4, <2>1, <2>2, <2>3, GivenOne
  <2> QED
    BY ONLY <2>4 DEF c, g
<1> QED
  BY ONLY <1>2, <1>3, <1>6 DEF a

\* The first n of n slots.
LEMMA TakeRow ==
    ASSUME NEW w \in Seq(Slot), NEW n, n = Len(w)
    PROVE  Take(w, n) = w
<1>1. Take(w, Len(w)) = SubSeq(w, 1, Len(w))
  BY DEF Take
<1>2. SubSeq(w, 1, Len(w)) = w
  OBVIOUS
<1> QED
  BY <1>1, <1>2

\* prepare_for_decode, from a tree T and a free list fr that are as they should be:
\* the requests of the batch get one slot each, and it is launched.
LEMMA DecodeInv ==
    ASSUME OverlapInv, FlowInv, loop \in {"launch", "retract"}, can_run = <<>>, NEW T, NEW fr,
           LocksOf(T, HeldBy(req, can_run), req),
           Part(T.pos, TailsOf(req, rows, LateSlots(req, Old, cur)), fr), DecodeFrom(T, fr)
    PROVE  OverlapInv'
<1> DEFINE C == Decoding
           F == ToSet(Decoding)
           H == HeldBy(req, can_run)
           t == TailsOf(req, rows, LateSlots(req, Old, cur))
           v == TailsOf(req', rows', LateSlots(req', Old, cur'))
<1>0. /\ loop \in {"launch", "retract"} /\ can_run = <<>>
      /\ LocksOf(T, H, req) /\ Part(T.pos, t, fr)
  OBVIOUS
<1>1. /\ (\E k, D, pool : Decodes(T, fr, k, D, pool))
      /\ SteppedAll
      /\ running' = Decoding /\ loop' = "process"
      /\ UNCHANGED <<free_rows, can_run, chunked_req, server_args, last_batch, result>>
  BY ONLY DecodeFrom(T, fr), DecodeSays
<1>2. Old' = Old
  BY ONLY <1>0, <1>1 DEF Old
<1>3. /\ TypesOf(req, chunked_req, server_args, Old, cur)
      /\ LivesOf(req, Old, cur, can_run, running, chunked_req, loop)
      /\ ListsOf(req, running, can_run, chunked_req, server_args, loop)
      /\ RowsOf(req, rows, free_rows, NumRows)
  BY ONLY OverlapInv, Before
<1>4. /\ C \in Seq(Request) /\ Distinct(C) /\ F \subseteq Request
      /\ \A q \in Request : q \notin ToSet(can_run)
      /\ \A q : q \in F <=> q \in ToSet(running) /\ req[q].st # "done"
      /\ \A q \in F :
            /\ Stands(can_run, running, q) = "run" /\ req[q].st = "in" /\ req[q].idx # 0
            /\ Len(req[q].pre) \in Nat /\ req[q].slen \in Nat /\ Len(req[q].pre) <= req[q].slen
  BY ONLY OverlapInv, <1>0, DecoderFacts
<1>5. cur = NoBatch
  BY ONLY <1>0, FlowInv DEF FlowInv, AtMostTwo
<1>6. PICK k, D, pool : Decodes(T, fr, k, D, pool)
  BY ONLY <1>1
<1> DEFINE total == Len(Decoding)
           new == OneSlots(pool)
           w == LongerRows(new)
<1>7. /\ D \in EvictChoices(T, k) /\ pool = Freed(fr, SlotsOf(T, D))
      /\ Available(pool) >= total /\ tree' = Delete(T, D) /\ free' = AllocRest(pool, total)
      /\ Written(rows, rows', F, OldRows, w)
      /\ cur' = Batch("decode", Decoding, new, [q \in F |-> req[q].slen + 1], OldRows, [q \in F |-> req[q].fut])
  BY ONLY <1>6 DEF Decodes
<1>8. IsBatch(cur') /\ cur'.reqs = C /\ cur'.mode = "decode" /\ cur'.loc = new
  <2>1. cur' = [mode |-> "decode", reqs |-> C, loc |-> new, len |-> [q \in F |-> req[q].slen + 1],
                idx |-> OldRows, fut |-> [q \in F |-> req[q].fut], ct |-> future_ct]
    BY ONLY <1>7 DEF Batch
  <2> DEFINE b == cur'
             x1 == [q \in F |-> req[q].slen + 1]
             x2 == [q \in F |-> req[q].fut]
  <2>2. b = [mode |-> "decode", reqs |-> C, loc |-> new, len |-> x1,
             idx |-> OldRows, fut |-> x2, ct |-> future_ct]
    BY ONLY <2>1
  <2>5. \A q \in ToSet(C) : new[q] = <<new[q][1]>>
    BY ONLY TRUE DEF OneSlots
  <2> HIDE DEF b, new, x1, x2, C
  <2>3. /\ b.reqs = C /\ b.mode = "decode" /\ b.loc = new /\ b.len = x1 /\ b.idx = OldRows
        /\ b.fut = x2 /\ b.ct = future_ct
    BY ONLY <2>2
  <2>4. IsBatch(b)
    BY ONLY <1>4, <2>2, <2>3, <2>5 DEF IsBatch
  <2> QED
    BY ONLY <2>3, <2>4 DEF b
<1>9. \A q \in Request : IsReq(req[q])
  BY ONLY <1>3 DEF TypesOf
<1>10. /\ \A q \in F : Stepped(req[q], req'[q])
       /\ \A q \in Request : q \notin F => req'[q] = req[q]
       /\ req' = [q \in Request |-> req'[q]]
  <2>1. ASSUME NEW q \in F
        PROVE  Stepped(req[q], req'[q])
    <3> DEFINE r == req[q]
               r2 == req'[q]
               x == future_ct + Position(Decoding, q)
    <3>1. q \in Request
      BY ONLY <1>4, q \in F
    <3>2. Steps(r, x, r2)
      BY ONLY <1>1, <3>1, q \in F DEF SteppedAll
    <3>3. IsReq(r)
      BY ONLY <1>9, <3>1
    <3> HIDE DEF r, r2, x
    <3>4. Stepped(r, r2)
      BY ONLY <3>2, <3>3, StepFacts
    <3> QED
      BY ONLY <3>4 DEF r, r2
  <2>2. /\ \A q \in Request : q \notin F => req'[q] = req[q]
        /\ req' = [q \in Request |-> req'[q]]
    BY ONLY <1>1 DEF SteppedAll
  <2> QED
    BY ONLY <2>1, <2>2
<1>11. \A q \in Request : /\ IsReq(req'[q]) /\ req'[q].st = req[q].st /\ req'[q].pre = req[q].pre
                          /\ req'[q].last = req[q].last /\ req'[q].idx = req[q].idx
  <2> TAKE q \in Request
  <2>1. CASE q \in F
    BY ONLY <1>10, <2>1 DEF Stepped
  <2>2. CASE q \notin F
    BY ONLY <1>9, <1>10, <2>2, q \in Request
  <2> QED
    BY ONLY <2>1, <2>2
<1>12. TypesOf(req', chunked_req', server_args, Old, cur') /\ Records(req) /\ Records(req')
  <2>2. TypesOf(req', chunked_req', server_args, Old, cur')
    BY ONLY <1>1, <1>3, <1>8, <1>10, <1>11 DEF TypesOf
  <2>3. Records(req)
    BY ONLY <1>3, TypesFacts
  <2> DEFINE R2 == req'
             ch == chunked_req'
             b == cur'
  <2>4. TypesOf(R2, ch, server_args, Old, b)
    BY ONLY <2>2
  <2> HIDE DEF R2, ch, b
  <2>5. Records(R2)
    BY ONLY <2>4, TypesFacts
  <2> QED
    BY ONLY <2>2, <2>3, <2>5 DEF R2
<1>13. Types'
  BY ONLY <1>1, <1>2, <1>12 DEF Types
<1>14. \A q : /\ q \in F => Use(cur', q) = "decode"
              /\ q \notin F => Use(cur', q) = "none"
  BY ONLY <1>8 DEF Use
<1>15. \A q : q \notin ToSet(can_run)
  BY ONLY <1>0, EmptyList
<1>17. Lives'
  <2>1. ASSUME NEW q \in F
        PROVE  LifeOf(q, req'[q], Use(Old, q), "decode", "run", Chunked(chunked_req, q), "process")
    <3> DEFINE r == req[q]
               r2 == req'[q]
               o == Use(Old, q)
               n == Use(cur, q)
               s == Stands(can_run, running, q)
               c == Chunked(chunked_req, q)
    <3>0. q \in Request
      BY ONLY <1>4, q \in F
    <3>1. LifeTypes(q, r, o, n, s, c) /\ LifeOf(q, r, o, n, s, c, loop)
      BY ONLY OverlapInv, <3>0, LifeNow
    <3>2. s = "run" /\ r.st # "done"
      BY ONLY <1>4, q \in F
    <3>5. /\ r2.st = r.st /\ r2.out = r.out /\ r2.fill = r.fill /\ r2.pre = r.pre /\ r2.idx = r.idx
          /\ r2.slen = r.slen + 1 /\ r2.chunks = r.chunks
      BY ONLY <1>10, q \in F DEF Stepped
    <3>6. r2.retracted = r.retracted
      BY ONLY <1>10, q \in F DEF Stepped
    <3> HIDE DEF r, r2, o, n, s, c
    <3>8. LifeOf(q, r2, o, "decode", s, c, "process")
      BY ONLY <1>0, <3>1, <3>2, <3>5, <3>6, LifeDecodes
    <3> QED
      BY ONLY <3>2, <3>8 DEF r2, o, c
  <2>2. ASSUME NEW q \in Request, q \notin F
        PROVE  LifeOf(q, req[q], Use(Old, q), "none", Stands(can_run, Decoding, q), Chunked(chunked_req, q), "process")
    <3> DEFINE r == req[q]
               o == Use(Old, q)
               n == Use(cur, q)
               s == Stands(can_run, running, q)
               s2 == Stands(can_run, Decoding, q)
               c == Chunked(chunked_req, q)
    <3>1. LifeTypes(q, r, o, n, s, c) /\ LifeOf(q, r, o, n, s, c, loop)
      BY ONLY OverlapInv, q \in Request, LifeNow
    <3>2. s # "can"
      BY ONLY <1>15, StandsFacts
    <3>3. s2 = IF r.st = "done" THEN "out" ELSE s
      <4>1. s2 = "out"
        BY ONLY <1>15, q \notin F, StandsFacts
      <4>2. r.st # "done" => s = "out"
        BY ONLY <1>4, <1>15, q \notin F, StandsFacts
      <4> QED
        BY ONLY <4>1, <4>2
    <3> HIDE DEF r, o, n, s, s2, c
    <3>4. LifeOf(q, r, o, n, s2, c, "process") /\ n = "none"
      BY ONLY <1>0, <3>1, <3>2, <3>3, LifeStays
    <3> QED
      BY ONLY <3>4 DEF r, o, s2, c
  <2>3. \A q \in Request : LifeOf(q, req'[q], Use(Old, q), Use(cur', q), Stands(can_run, Decoding, q),
                                  Chunked(chunked_req, q), "process")
    <3> TAKE q \in Request
    <3>1. CASE q \in F
      <4>1. Stands(can_run, Decoding, q) = "run" /\ Use(cur', q) = "decode"
        BY ONLY <1>14, <1>15, <3>1, StandsFacts
      <4> QED
        BY ONLY <2>1, <3>1, <4>1
    <3>2. CASE q \notin F
      <4>1. Use(cur', q) = "none" /\ req'[q] = req[q]
        BY ONLY <1>10, <1>14, <3>2, q \in Request
      <4> QED
        BY ONLY <2>2, <3>2, q \in Request, <4>1
    <3> QED
      BY ONLY <3>1, <3>2
  <2> QED
    BY ONLY <1>1, <1>2, <2>3 DEF Lives, LivesOf
<1>18. Lists'
  <2>1. ListsOf(req', Decoding, can_run, chunked_req, server_args, "process")
    BY ONLY <1>0, <1>4, EmptyList DEF ListsOf
  <2> QED
    BY ONLY <1>1, <2>1 DEF Lists
<1>19. Part(tree'.pos, t, pool) /\ LocksOf(tree', H, req)
  <2> HIDE DEF H, t
  <2> QED
    BY ONLY <1>0, <1>7, <1>12, LocksEvict
<1> DEFINE need == [q \in F |-> 1]
           off == [q \in F |-> Position(Decoding, q) - 1]
           a == AllocSeq(pool, total)
<1>20. /\ total \in Nat /\ Dealt(need, total, off)
       /\ \A q \in F : Given(a, off[q], 1, new[q])
  <2>1. pool \in [Slot -> {0, 1}]
    BY ONLY <1>19 DEF Part
  <2>2. total = Len(Decoding) /\ need = [q \in ToSet(Decoding) |-> 1]
        /\ off = [q \in ToSet(Decoding) |-> Position(Decoding, q) - 1]
    OBVIOUS
  <2> HIDE DEF total, need, off
  <2> QED
    BY ONLY OverlapInv, <1>7, <2>1, <2>2, DecodeShares
<1> DEFINE N == NumRows
<1>21. \A q \in F : /\ rows[req[q].idx] \in Seq(Slot) /\ Len(rows[req[q].idx]) = req[q].slen
                    /\ req[q].idx \in 1..N /\ q \in Rowed(req)
                    /\ \A i \in 1..Len(req[q].pre) : rows[req[q].idx][i] = req[q].pre[i]
  <2> TAKE q \in F
  <2>1. q \in Rowed(req)
    BY ONLY <1>4, q \in F DEF Rowed
  <2>2. RowOf(req[q], rows[req[q].idx]) /\ req[q].idx \in 1..N
    BY ONLY <1>3, <2>1 DEF RowsOf
  <2> QED
    BY ONLY <2>1, <2>2 DEF RowOf
<1>22. \A q \in F : Joins(rows[req[q].idx], new[q], w[q])
  <2> TAKE q \in F
  <2> DEFINE y == rows[req[q].idx]
             n == req[q].slen
             g == new[q]
             z == w[q]
  <2>1. z = Take(y, n) \o g
    BY ONLY q \in F DEF LongerRows
  <2>2. y \in Seq(Slot) /\ n = Len(y)
    BY ONLY <1>21, q \in F
  <2> HIDE DEF y, n, g, z
  <2>3. Take(y, n) = y
    BY ONLY <2>2, TakeRow
  <2>4. Joins(y, g, z)
    BY ONLY <2>1, <2>3 DEF Joins
  <2> QED
    BY ONLY <2>4 DEF y, g, z
<1>23. RowsTo(rows, N) /\ OneEach(F, OldRows, N)
  <2>1. rows = [i \in 1..N |-> rows[i]]
    BY ONLY <1>3 DEF RowsOf
  <2>2. \A p, q \in F : req[p].idx = req[q].idx => p = q
    BY ONLY <1>3, <1>21 DEF RowsOf
  <2>3. \A q \in F : OldRows[q] = req[q].idx
    BY ONLY TRUE DEF OldRows
  <2>4. OneEach(F, OldRows, N)
    BY ONLY <1>21, <2>2, <2>3 DEF OneEach
  <2> QED
    BY ONLY <2>1, <2>4 DEF RowsTo
<1> HIDE DEF need, off, a, total, new, w, N
<1>24. /\ rows' = [i \in 1..N |-> rows'[i]]
       /\ \A q \in F : rows'[req[q].idx] = w[q]
       /\ \A i \in 1..N : (\A q \in F : req[q].idx # i) => rows'[i] = rows[i]
  <2> DEFINE rx == rows'
             f == OldRows
             G == F
  <2>1. RowsTo(rows, N) /\ Written(rows, rx, G, f, w) /\ OneEach(G, f, N)
    BY ONLY <1>7, <1>23
  <2>3. \A q \in G : f[q] = req[q].idx
    BY ONLY TRUE DEF OldRows
  <2> HIDE DEF rx, f, G
  <2>2. Overwrites(rows, rx, G, f, w, N)
    BY ONLY <2>1, WrittenFacts
  <2>4. /\ rx = [i \in 1..N |-> rx[i]]
        /\ \A q \in G : rx[req[q].idx] = w[q]
        /\ \A i \in 1..N : (\A q \in G : req[q].idx # i) => rx[i] = rows[i]
    BY ONLY <2>2, <2>3 DEF Overwrites
  <2> QED
    BY ONLY <2>4 DEF rx, G
<1>25. \A q \in F : /\ w[q] \in Seq(Slot) /\ Len(w[q]) = req[q].slen + 1
                    /\ \A i \in 1..req[q].slen : w[q][i] = rows[req[q].idx][i]
                    /\ w[q][req[q].slen + 1] = a[off[q] + 1]
                    /\ w[q][req[q].slen + 1] = new[q][1]
  <2> TAKE q \in F
  <2> DEFINE u == rows[req[q].idx]
             c == off[q]
             g == new[q]
             y == w[q]
             n == req[q].slen
  <2>1. u \in Seq(Slot) /\ Given(a, c, 1, g) /\ Joins(u, g, y) /\ Len(u) = n /\ 1 \in Nat
    BY ONLY <1>20, <1>21, <1>22, q \in F
  <2> HIDE DEF u, c, g, y, n
  <2>3. Joined(u, a, c, 1, y)
    BY ONLY <2>1, JoinedRow
  <2>4. g[1] = a[c + 1]
    BY ONLY <2>1 DEF Given
  <2>5. /\ y \in Seq(Slot) /\ Len(y) = n + 1
        /\ \A i \in 1..n : y[i] = u[i]
        /\ y[n + 1] = a[c + 1]
    BY ONLY <2>1, <2>3 DEF Joined
  <2> QED
    BY ONLY <2>4, <2>5 DEF u, c, g, y, n
<1>26. \A p \in Rowed(req) : p \notin F => rows'[req[p].idx] = rows[req[p].idx]
  <2> TAKE p \in Rowed(req)
  <2> HAVE p \notin F
  <2>1. req[p].idx \in 1..N
    BY ONLY <1>3, p \in Rowed(req) DEF RowsOf, N
  <2>2. \A q \in F : req[q].idx # req[p].idx
    BY ONLY <1>3, <1>21, p \in Rowed(req), p \notin F DEF RowsOf
  <2> QED
    BY ONLY <1>24, <2>1, <2>2
<1>27. Rows'
  <2> DEFINE R2 == req'
             rx == rows'
  <2>1. \A q \in Request : R2[q].idx = req[q].idx
    BY ONLY <1>11
  <2>2. \A q \in Rowed(R2) : RowOf(R2[q], rx[R2[q].idx])
    <3> TAKE q \in Rowed(R2)
    <3>0. q \in Rowed(req)
      BY ONLY <2>1, q \in Rowed(R2) DEF Rowed
    <3>1. CASE q \in F
      <4>1. R2[q].pre = req[q].pre /\ R2[q].slen = req[q].slen + 1 /\ R2[q].idx = req[q].idx
        BY ONLY <1>10, <3>1 DEF Stepped
      <4>2. rx[R2[q].idx] = w[q]
        BY ONLY <1>24, <3>1, <4>1
      <4>3. \A i \in 1..Len(req[q].pre) : w[q][i] = req[q].pre[i]
        <5> TAKE i \in 1..Len(req[q].pre)
        <5>1. i \in 1..req[q].slen
          BY ONLY <1>4, <3>1, i \in 1..Len(req[q].pre)
        <5> QED
          BY ONLY <1>21, <1>25, <3>1, <5>1, i \in 1..Len(req[q].pre)
      <4> QED
        BY ONLY <1>25, <3>1, <4>1, <4>2, <4>3 DEF RowOf
    <3>2. CASE q \notin F
      <4>1. RowOf(req[q], rows[req[q].idx])
        BY ONLY <1>3, <3>0 DEF RowsOf
      <4>2. R2[q] = req[q]
        BY ONLY <1>10, <3>0, <3>2 DEF Rowed
      <4> QED
        BY ONLY <1>26, <3>0, <3>2, <4>1, <4>2
    <3> QED
      BY ONLY <3>1, <3>2
  <2>3. rx = [i \in 1..NumRows |-> rx[i]]
    BY ONLY <1>24 DEF N
  <2> HIDE DEF R2, rx
  <2>5. RowsOf(R2, rx, free_rows, NumRows)
    BY ONLY <1>3, <2>1, <2>2, <2>3, RowsKept
  <2> QED
    BY ONLY <1>1, <2>5 DEF Rows, NumRows, MaxRunning, R2, rx
<1>28. Part(tree'.pos, v, free')
  <2> DEFINE l == LateSlots(req, Old, cur)
             j == LateSlots(req', Old, cur')
             R2 == req'
             rx == rows'
             L == [q \in F |-> req[q].slen]
  <2>1. SameLate(l, j) /\ DOMAIN l \subseteq Request
    <3>1. LateStay(req, Old, cur, Old, cur')
      <4>1. \A q \in Request : q \notin ToSet(cur.reqs)
        BY ONLY <1>5, NoBatchFacts
      <4>2. \A q \in Request : req[q].st = "done" => q \notin ToSet(cur'.reqs)
        BY ONLY <1>4, <1>8
      <4> QED
        BY ONLY <4>1, <4>2 DEF LateStay
    <3>2. SameEnds(req, req')
      BY ONLY <1>11 DEF SameEnds
    <3> DEFINE b == cur'
    <3>3. LateStay(req, Old, cur, Old, b) /\ SameEnds(req, R2)
      BY ONLY <3>1, <3>2
    <3> HIDE DEF b, R2
    <3>4. SameLate(l, LateSlots(R2, Old, b)) /\ DOMAIN l \subseteq Request
      BY ONLY <3>3, LateSame
    <3> QED
      BY ONLY <3>4 DEF b, R2
  <2>2. \A q \in Request : q \notin F => SameTail(req, rows, R2, rx, q)
    <3> TAKE q \in Request
    <3> HAVE q \notin F
    <3>0. R2[q] = req[q] /\ req[q].slen \in Nat /\ Len(req[q].pre) \in Nat
      BY ONLY <1>10, <1>12, q \in Request, q \notin F DEF Records
    <3>1. CASE q \in Rowed(req)
      <4>1. rx[R2[q].idx] = rows[req[q].idx]
        BY ONLY <1>26, <3>0, <3>1, q \notin F
      <4> HIDE DEF R2, rx
      <4> QED
        BY ONLY <3>0, <4>1, KeepsTail
    <3>2. CASE q \notin Rowed(req)
      <4>0. LifeTypes(q, req[q], Use(Old, q), Use(cur, q), Stands(can_run, running, q), Chunked(chunked_req, q))
            /\ LifeOf(q, req[q], Use(Old, q), Use(cur, q), Stands(can_run, running, q), Chunked(chunked_req, q), loop)
        BY ONLY OverlapInv, q \in Request, LifeNow
      <4>1. req[q].slen = 0
        BY ONLY <3>2, q \in Request, <4>0 DEF LifeOf, LifeTypes, IsReq, Cleared, Admitted, Seated, Rowed
      <4> HIDE DEF R2, rx
      <4> QED
        BY ONLY <3>0, <4>1, NoTail
    <3> QED
      BY ONLY <3>1, <3>2
  <2>3. \A q \in F : GrownTail(req, rows, R2, rx, q, 1, L[q], off[q], a)
    <3> TAKE q \in F
    <3> DEFINE r == req[q]
               r2 == R2[q]
               b == L[q]
               y == rows[req[q].idx]
               x == rx[R2[q].idx]
    <3>1. r2.pre = r.pre /\ r2.slen = b + 1 /\ r.slen = b /\ r2.idx = r.idx
      BY ONLY <1>10, q \in F DEF Stepped
    <3>2. b \in Nat /\ Len(r.pre) \in Nat /\ Len(r.pre) <= b
      BY ONLY <1>4, q \in F
    <3>3. x = w[q]
      BY ONLY <1>24, <3>1, q \in F
    <3>4. x[b + 1] = a[off[q] + 1] /\ \A i \in 1..b : x[i] = y[i]
      BY ONLY <1>25, <3>3, q \in F
    <3> HIDE DEF b, r, r2, x, y
    <3>5. \A i : InTail(r, i) => i <= b /\ x[i] = y[i]
      <4> TAKE i
      <4> HAVE InTail(r, i)
      <4>1. i \in 1..b
        BY ONLY <3>1, <3>2, InTail(r, i) DEF InTail
      <4> QED
        BY ONLY <3>2, <3>4, <4>1
    <3>6. \A i : InTail(r2, i) <=> InTail(r, i) \/ (i \in Nat /\ i - b \in 1..1)
      BY ONLY <3>1, <3>2 DEF InTail
    <3>7. \A i \in 1..1 : x[b + i] = a[off[q] + i]
      <4> TAKE i \in 1..1
      <4>1. i = 1
        BY ONLY i \in 1..1
      <4> QED
        BY ONLY <3>4, <4>1
    <3> QED
      BY ONLY <3>2, <3>5, <3>6, <3>7 DEF GrownTail, b, r, r2, x, y
  <2>4. DOMAIN need = F /\ F \subseteq Request /\ \A q \in F : need[q] = 1
    BY ONLY <1>4 DEF need
  <2>5. Part(tree'.pos, TailsOf(req, rows, l), pool)
    BY ONLY <1>19
  <2> DEFINE P == tree'.pos
  <2>6. Part(P, TailsOf(req, rows, l), pool) /\ Records(R2)
    BY ONLY <1>12, <2>5
  <2>7. /\ \A q \in Request : q \notin DOMAIN need => SameTail(req, rows, R2, rx, q)
        /\ \A q \in DOMAIN need :
                GrownTail(req, rows, R2, rx, q, need[q], L[q], off[q], AllocSeq(pool, total))
        /\ DOMAIN need \subseteq Request
    <3> HIDE DEF L, R2, rx
    <3> QED
      BY ONLY <2>2, <2>3, <2>4 DEF a
  <2> HIDE DEF l, j, R2, rx, L, P
  <2>8. Part(P, TailsOf(R2, rx, j), AllocRest(pool, total))
    BY ONLY <1>7, <1>12, <1>20, <2>1, <2>6, <2>7, GrowTails
  <2> QED
    BY ONLY <1>7, <2>8 DEF P, R2, rx, j
<1>29. LocksOf(tree', HeldBy(req', can_run), req')
  <2> DEFINE G == HeldBy(req', can_run)
             S == req'
             U == tree'
  <2>1. \A q : q \in G <=> q \in H
    BY ONLY <1>11 DEF HeldBy
  <2>2. \A q \in H : S[q].last = req[q].last /\ S[q].pre = req[q].pre
    <3>1. H \subseteq Request
      BY ONLY TRUE DEF HeldBy
    <3> QED
      BY ONLY <1>11, <3>1
  <2>3. LocksOf(U, H, req)
    BY ONLY <1>19
  <2> HIDE DEF G, S, U, H
  <2>4. LocksOf(U, G, S)
    BY ONLY <2>1, <2>2, <2>3, LocksSame
  <2> QED
    BY ONLY <2>4 DEF G, S, U
<1>30. LastSlot(req', rows', cur')
  <2>1. ASSUME NEW q \in Request, Use(cur', q) = "decode"
        PROVE  cur'.loc[q][1] = rows'[req'[q].idx][req'[q].slen]
    <3>1. q \in F
      BY ONLY <1>14, <2>1
    <3>2. req'[q].slen = req[q].slen + 1 /\ req'[q].idx = req[q].idx
      BY ONLY <1>10, <3>1 DEF Stepped
    <3>3. rows'[req'[q].idx][req'[q].slen] = w[q][req[q].slen + 1]
      BY ONLY <1>24, <3>1, <3>2
    <3>4. w[q][req[q].slen + 1] = new[q][1] /\ cur'.loc = new
      BY ONLY <1>8, <1>25, <3>1
    <3> QED
      BY ONLY <3>3, <3>4
  <2> QED
    BY ONLY <2>1 DEF LastSlot
<1>31. Locks' /\ Slots'
  BY ONLY <1>1, <1>2, <1>28, <1>29, <1>30 DEF Locks, Slots
<1> QED
  BY ONLY <1>13, <1>17, <1>18, <1>27, <1>31 DEF OverlapInv

\* update_running_batch and prepare_for_decode.
LEMMA PrepareInv == ASSUME OverlapInv, FlowInv, PrepareForDecode PROVE OverlapInv'
<1> DEFINE H == HeldBy(req, can_run)
           t == TailsOf(req, rows, LateSlots(req, Old, cur))
<1>1. loop = "launch" /\ can_run = <<>>
  BY DEF PrepareForDecode
<1>2. PICK D \in CheckDecodeMem : DecodeFrom(Delete(tree, D), Freed(free, SlotsOf(tree, D)))
  BY DEF PrepareForDecode
<1>3. PICK k : D \in EvictChoices(tree, k)
  BY ONLY D \in CheckDecodeMem DEF CheckDecodeMem
<1>4. LocksOf(tree, H, req) /\ Part(tree.pos, t, free) /\ TypesOf(req, chunked_req, server_args, Old, cur)
  BY ONLY OverlapInv, Before
<1>5. Records(req)
  BY ONLY <1>4, TypesFacts
<1> DEFINE T == Delete(tree, D)
           fr == Freed(free, SlotsOf(tree, D))
<1> HIDE DEF H, t
<1>6. LocksOf(T, H, req) /\ Part(T.pos, t, fr)
  BY ONLY <1>3, <1>4, <1>5, LocksEvict
<1>7. DecodeFrom(T, fr)
  BY ONLY <1>2
<1>8. /\ LocksOf(T, HeldBy(req, can_run), req) /\ loop \in {"launch", "retract"}
      /\ Part(T.pos, TailsOf(req, rows, LateSlots(req, Old, cur)), fr)
  BY ONLY <1>1, <1>6 DEF H, t
<1> HIDE DEF T, fr
<1> QED
  BY ONLY OverlapInv, FlowInv, <1>1, <1>7, <1>8, DecodeInv

\* prepare_for_decode after retract_decode.
LEMMA AfterRetractInv ==
    ASSUME OverlapInv, FlowInv, PrepareForDecodeAfterRetract
    PROVE  OverlapInv'
<1>1. loop = "retract" /\ DecodeFrom(tree, free)
  BY DEF PrepareForDecodeAfterRetract
<1>2. can_run \in Seq(Request)
  BY ONLY OverlapInv, Before DEF ListsOf
<1>3. \A q \in Request : q \notin ToSet(can_run)
  <2> TAKE q \in Request
  <2>1. LifeOf(q, req[q], Use(Old, q), Use(cur, q), Stands(can_run, running, q), Chunked(chunked_req, q), loop)
    BY ONLY OverlapInv, q \in Request, LifeNow
  <2>2. Stands(can_run, running, q) # "can"
    BY ONLY <1>1, <2>1 DEF LifeOf
  <2> QED
    BY ONLY <2>2, StandsFacts
<1>4. can_run = <<>>
  <2>1. can_run = <<>> <=> Len(can_run) = 0
    BY ONLY <1>2, ToSetFacts
  <2>2. Len(can_run) \in Nat /\ \A i \in 1..Len(can_run) : can_run[i] \in Request /\ can_run[i] \in ToSet(can_run)
    BY ONLY <1>2, ToSetFacts
  <2>3. ~(1 \in 1..Len(can_run))
    BY ONLY <1>3, <2>2
  <2>4. Len(can_run) = 0
    BY ONLY <2>2, <2>3
  <2> QED
    BY ONLY <2>1, <2>4
<1>5. /\ LocksOf(tree, HeldBy(req, can_run), req)
      /\ Part(tree.pos, TailsOf(req, rows, LateSlots(req, Old, cur)), free)
  BY ONLY OverlapInv, Before
<1>6. loop \in {"launch", "retract"}
  BY ONLY <1>1
<1> QED
  BY ONLY OverlapInv, FlowInv, <1>1, <1>4, <1>5, <1>6, DecodeInv

-----------------------------------------------------------------------------
(* The invariant, and what it says of the slots *)

\* A result is being applied only in that part of the loop.
NoResult == loop # "apply" => result = NoBatch

\* Between resolve_last_batch_result and the end of the iteration.
LEMMA NoResultStep == NoResult /\ [Next]_vars => NoResult'
<1> SUFFICES ASSUME NoResult, [Next]_vars PROVE NoResult'
  OBVIOUS
<1>1. CASE FlushCache \/ GetNextBatchToRun \/ StopAdding \/ PrepareForExtend \/ NothingToRun
  <2>1. loop # "apply" /\ result' = result
    BY <1>1, ExtendSays DEF FlushCache, GetNextBatchToRun, StopAdding, NothingToRun, flow
  <2> QED
    BY <2>1 DEF NoResult
<1>2. ASSUME NEW q \in Request, Arrive(q) \/ AbortWaiting(q) \/ AddOneReq(q) \/ RetractDecode(q)
      PROVE  NoResult'
  <2>1. loop # "apply" /\ result' = result
    BY <1>2, SMTT(20) DEF Arrive, AbortWaiting, AddOneReq, RetractDecode, flow
  <2> QED
    BY <2>1 DEF NoResult
<1>3. CASE PrepareForDecode \/ PrepareForDecodeAfterRetract
  <2>1. loop # "apply" /\ result' = result
    <3>1. /\ loop # "apply"
          /\ \E T, fr : DecodeFrom(T, fr)
      BY ONLY <1>3, Zenon DEF PrepareForDecode, PrepareForDecodeAfterRetract
    <3> QED
      BY ONLY <3>1, DecodeSays
  <2> QED
    BY <2>1 DEF NoResult
<1>4. CASE Launch \/ Sample \/ UNCHANGED vars
  <2>1. loop' = loop /\ result' = result
    BY ONLY <1>4, Zenon DEF Launch, Sample, vars, flow
  <2> QED
    BY <2>1 DEF NoResult
<1>5. CASE ResolveLastBatchResult \/ ProcessBatchResult
  <2>1. loop' = "apply"
    BY <1>5 DEF ResolveLastBatchResult, ProcessBatchResult
  <2> QED
    BY <2>1 DEF NoResult
<1>6. CASE EndIteration
  BY <1>6 DEF EndIteration, NoResult
<1> QED
  BY <1>1, <1>2, <1>3, <1>4, <1>5, <1>6 DEF Next, Schedule

\* A request with a row: it fits into the pool.
LEMMA RowFits ==
    ASSUME OverlapInv, NEW q \in Request
    PROVE  /\ req[q].slen \in Nat /\ Len(req[q].pre) \in Nat
           /\ req[q].slen <= NumSlots /\ NumSlots \in Nat
           /\ req[q].idx = 0 => req[q].slen = 0
<1> DEFINE r == req[q]
           o == Use(Old, q)
           n == Use(cur, q)
           w == Stands(can_run, running, q)
           c == Chunked(chunked_req, q)
<1>1. LifeTypes(q, r, o, n, w, c) /\ LifeOf(q, r, o, n, w, c, loop)
  BY ONLY OverlapInv, q \in Request, LifeNow
<1>2. /\ Len(Meta[q].prompt) + Meta[q].out <= NumSlots - 2 /\ NumSlots \in Nat
  BY ONLY OverlapAssumption, q \in Request
<1> HIDE DEF r, o, n, w, c
<1>3. /\ r.out \in Nat /\ r.fill \in Nat /\ r.slen \in Nat
      /\ Len(r.pre) \in Nat /\ Full(q, r) \in Nat /\ Meta[q].out \in Nat
      /\ Full(q, r) = Len(Meta[q].prompt) + r.out /\ Len(Meta[q].prompt) \in Nat
      /\ w \in {"can", "run", "out"} /\ c \in {"yes", "no"}
      /\ r.st \in {"new", "queued", "in", "done", "gone"}
  BY ONLY <1>1, LifeNumbers
<1>5. ASSUME NEW k \in Nat, k <= Full(q, r) + 1, r.out < Meta[q].out
      PROVE  k <= NumSlots
  <2> DEFINE a == Len(Meta[q].prompt)
             m == Meta[q].out
             f == Full(q, r)
             e == r.out
  <2>1. a \in Nat /\ m \in Nat /\ e \in Nat /\ f = a + e /\ a + m <= NumSlots - 2 /\ NumSlots \in Nat
        /\ k \in Nat /\ k <= f + 1 /\ e < m
    BY ONLY <1>2, <1>3, <1>5
  <2> HIDE DEF a, m, f, e
  <2> QED
    BY ONLY <2>1
<1>4. r.slen <= NumSlots /\ (r.idx = 0 => r.slen = 0)
  <2>1. CASE r.st = "in" /\ w # "can"
    <3>1. Seated(q, r, o, n, c) /\ r.out < Meta[q].out
      BY ONLY <1>1, <2>1 DEF LifeOf
    <3>2. r.idx # 0
      BY ONLY <3>1 DEF Seated
    <3>3. CASE c = "yes"
      <4>1. r.slen < Full(q, r)
        BY ONLY <1>3, <3>1, <3>3 DEF Seated
      <4>2. r.slen <= Full(q, r) + 1
        BY ONLY <1>3, <4>1
      <4> QED
        BY ONLY <1>3, <1>5, <3>1, <3>2, <4>2
    <3>4. CASE c = "no"
      <4> DEFINE x == One(o # "none" \/ n = "extend")
                 y == One(n = "decode")
      <4>1. x \in {0, 1} /\ y \in {0, 1}
        BY ONLY TRUE DEF One
      <4>2. r.slen + 1 = Full(q, r) + x + y
        BY ONLY <3>1, <3>4 DEF Seated
      <4> HIDE DEF x, y
      <4>4. r.slen <= Full(q, r) + 1
        BY ONLY <1>3, <4>1, <4>2
      <4>3. r.slen <= NumSlots
        BY ONLY <1>3, <1>5, <3>1, <4>4
      <4> QED
        BY ONLY <3>2, <4>3
    <3> QED
      BY ONLY <1>3, <3>3, <3>4
  <2>2. CASE ~(r.st = "in" /\ w # "can")
    <3>1. Cleared(r) \/ Admitted(q, r)
      BY ONLY <1>1, <1>3, <2>2 DEF LifeOf
    <3>2. r.slen = 0
      BY ONLY <3>1 DEF Cleared, Admitted
    <3> QED
      BY ONLY <1>2, <3>2
  <2> QED
    BY ONLY <2>1, <2>2
<1> QED
  BY ONLY <1>2, <1>3, <1>4 DEF r

\* The batches whose results are still to come are the two that the invariant is about.
Pending == (IF result.mode = "decode" THEN {result} ELSE {})
             \cup {result_queue[i] : i \in DOMAIN result_queue}

\* Nothing else is pending, and no batch of the two is missing.
LEMMA PendingFacts ==
    ASSUME OverlapInv, FlowInv, NoResult
    PROVE  /\ \A b \in Pending : b.mode = "decode" => b = Old \/ b = cur
           /\ Old.mode = "decode" => Old \in Pending
           /\ cur.mode = "decode" => cur \in Pending
<1> DEFINE Q == {result_queue[i] : i \in DOMAIN result_queue}
<1>1. IsSeq(result_queue)
  BY ONLY FlowInv DEF FlowInv, QueueTypes
<1>2. DOMAIN result_queue = 1..Len(result_queue) /\ Len(result_queue) \in Nat
  BY ONLY <1>1, LenFacts
<1>3. NoBatch.mode = "none"
  BY ONLY TRUE DEF NoBatch
<1>4. CASE loop = "apply"
  <2>1. Old = result
    BY ONLY <1>4 DEF Old
  <2>2. /\ cur = NoBatch => Len(result_queue) = 0
        /\ cur # NoBatch => Len(result_queue) = 1 /\ result_queue[1] = cur
    BY ONLY FlowInv, <1>4 DEF FlowInv, AtMostTwo
  <2>3. /\ \A b \in Q : b = cur
        /\ cur # NoBatch => cur \in Q
    BY ONLY <1>2, <2>2
  <2> QED
    BY ONLY <1>3, <2>1, <2>3 DEF Pending
<1>5. CASE loop = "process"
  <2>1. Old = last_batch /\ result = NoBatch
    BY ONLY NoResult, <1>5 DEF Old, NoResult
  <2>2. /\ last_batch = NoBatch /\ cur = NoBatch => Len(result_queue) = 0
        /\ last_batch = NoBatch /\ cur # NoBatch =>
              Len(result_queue) = 1 /\ result_queue[1] = cur
        /\ last_batch # NoBatch /\ cur = NoBatch =>
              Len(result_queue) = 1 /\ result_queue[1] = last_batch
        /\ last_batch # NoBatch /\ cur # NoBatch =>
              /\ Len(result_queue) = 2
              /\ result_queue[1] = last_batch /\ result_queue[2] = cur
    BY ONLY FlowInv, <1>5 DEF FlowInv, AtMostTwo
  <2>3. /\ \A b \in Q : b = cur \/ b = last_batch
        /\ cur # NoBatch => cur \in Q
        /\ last_batch # NoBatch => last_batch \in Q
    <3>1. CASE Len(result_queue) = 0
      BY ONLY <1>2, <2>2, <3>1
    <3>2. CASE Len(result_queue) = 1
      BY ONLY <1>2, <2>2, <3>2
    <3>3. CASE Len(result_queue) = 2
      <4>1. /\ last_batch # NoBatch /\ cur # NoBatch
            /\ result_queue[1] = last_batch /\ result_queue[2] = cur
        BY ONLY <2>2, <3>3
      <4>2. \A i : i \in DOMAIN result_queue <=> i = 1 \/ i = 2
        BY ONLY <1>2, <3>3
      <4> QED
        BY ONLY <4>1, <4>2
    <3> QED
      BY ONLY <2>2, <3>1, <3>2, <3>3
  <2> QED
    BY ONLY <1>3, <2>1, <2>3 DEF Pending
<1>6. CASE loop \in {"recv", "admit", "launch", "retract"}
  <2>1. Old = last_batch /\ result = NoBatch
    BY ONLY NoResult, <1>6 DEF Old, NoResult
  <2>2. /\ cur = NoBatch
        /\ last_batch = NoBatch => Len(result_queue) = 0
        /\ last_batch # NoBatch =>
              Len(result_queue) = 1 /\ result_queue[1] = last_batch
    BY ONLY FlowInv, <1>6 DEF FlowInv, AtMostTwo
  <2>3. /\ \A b \in Q : b = last_batch
        /\ last_batch # NoBatch => last_batch \in Q
    BY ONLY <1>2, <2>2
  <2> QED
    BY ONLY <1>3, <2>1, <2>2, <2>3 DEF Pending
<1> QED
  BY ONLY FlowInv, <1>4, <1>5, <1>6 DEF FlowInv, Places

\* The batch in which the finished request q is late.
LateBatch(q) == IF q \in ToSet(cur.reqs) THEN cur ELSE Old

\* A finished request is late in one batch only, which decodes.
LEMMA LateOnce ==
    ASSUME OverlapInv, FlowInv, NoResult, NEW q \in Request, req[q].st = "done"
    PROVE  /\ \A b : b \in Pending /\ b.mode = "decode" /\ q \in ToSet(b.reqs) => b = LateBatch(q)
           /\ q \in DOMAIN LateSlots(req, Old, cur) =>
                 /\ LateBatch(q) \in Pending /\ LateBatch(q).mode = "decode"
                 /\ q \in ToSet(LateBatch(q).reqs)
                 /\ LateBatch(q).loc[q] = <<LateSlots(req, Old, cur)[q]>>
           /\ \A b : b \in Pending /\ b.mode = "decode" /\ q \in ToSet(b.reqs) =>
                 q \in DOMAIN LateSlots(req, Old, cur)
<1> DEFINE l == LateSlots(req, Old, cur)
<1>1. /\ LifeOf(q, req[q], Use(Old, q), Use(cur, q), Stands(can_run, running, q), Chunked(chunked_req, q), loop)
      /\ IsBatch(Old) /\ IsBatch(cur)
  BY ONLY OverlapInv, q \in Request, LifeNow
<1>2. /\ Use(Old, q) # "extend" /\ Use(cur, q) # "extend"
      /\ Use(Old, q) = "none" \/ Use(cur, q) = "none"
  BY ONLY <1>1, req[q].st = "done" DEF LifeOf
<1>3. /\ Use(Old, q) # "none" <=> q \in ToSet(Old.reqs)
      /\ Use(cur, q) # "none" <=> q \in ToSet(cur.reqs)
      /\ q \in ToSet(Old.reqs) => Use(Old, q) = Old.mode
      /\ q \in ToSet(cur.reqs) => Use(cur, q) = cur.mode
  BY ONLY <1>1, UseFacts
<1>4. Old.mode \in {"none", "extend", "decode"} /\ cur.mode \in {"none", "extend", "decode"}
  BY ONLY <1>1 DEF IsBatch
<1>5. /\ q \in ToSet(Old.reqs) => Old.mode = "decode" /\ q \notin ToSet(cur.reqs)
      /\ q \in ToSet(cur.reqs) => cur.mode = "decode" /\ q \notin ToSet(Old.reqs)
  BY ONLY <1>2, <1>3, <1>4
<1>6. /\ \A b \in Pending : b.mode = "decode" => b = Old \/ b = cur
      /\ Old.mode = "decode" => Old \in Pending
      /\ cur.mode = "decode" => cur \in Pending
  BY ONLY OverlapInv, FlowInv, NoResult, PendingFacts
<1>7. /\ \A p : p \in DOMAIN l <=> /\ p \in Request /\ req[p].st = "done"
                                   /\ p \in ToSet(Old.reqs) \/ p \in ToSet(cur.reqs)
      /\ \A p \in DOMAIN l : p \in ToSet(cur.reqs) => l[p] = cur.loc[p][1]
      /\ \A p \in DOMAIN l : p \notin ToSet(cur.reqs) => l[p] = Old.loc[p][1]
  BY ONLY LateFacts
<1>8. q \in DOMAIN l <=> q \in ToSet(Old.reqs) \/ q \in ToSet(cur.reqs)
  BY ONLY <1>7, q \in Request, req[q].st = "done"
<1>9. /\ Old.mode = "decode" => \A p \in ToSet(Old.reqs) : Old.loc[p] = <<Old.loc[p][1]>>
      /\ cur.mode = "decode" => \A p \in ToSet(cur.reqs) : cur.loc[p] = <<cur.loc[p][1]>>
  BY ONLY <1>1 DEF IsBatch
<1>10. \A b : b \in Pending /\ b.mode = "decode" /\ q \in ToSet(b.reqs) =>
          b = LateBatch(q) /\ q \in DOMAIN l
  BY ONLY <1>5, <1>6, <1>8 DEF LateBatch
<1> HIDE DEF l
<1>11. ASSUME q \in DOMAIN l
       PROVE  /\ LateBatch(q) \in Pending /\ LateBatch(q).mode = "decode"
              /\ q \in ToSet(LateBatch(q).reqs) /\ LateBatch(q).loc[q] = <<l[q]>>
  <2>1. CASE q \in ToSet(cur.reqs)
    <3>1. LateBatch(q) = cur
      BY ONLY <2>1 DEF LateBatch
    <3>2. cur.mode = "decode" /\ cur \in Pending /\ l[q] = cur.loc[q][1] /\ cur.loc[q] = <<cur.loc[q][1]>>
      BY ONLY <1>5, <1>6, <1>7, <1>9, <1>11, <2>1
    <3> QED
      BY ONLY <2>1, <3>1, <3>2
  <2>2. CASE q \notin ToSet(cur.reqs)
    <3>1. LateBatch(q) = Old /\ q \in ToSet(Old.reqs)
      BY ONLY <1>8, <1>11, <2>2 DEF LateBatch
    <3>2. Old.mode = "decode" /\ Old \in Pending /\ l[q] = Old.loc[q][1] /\ Old.loc[q] = <<Old.loc[q][1]>>
      BY ONLY <1>5, <1>6, <1>7, <1>9, <1>11, <2>2, <3>1
    <3> QED
      BY ONLY <3>1, <3>2
  <2> QED
    BY ONLY <2>1, <2>2
<1> QED
  BY ONLY <1>10, <1>11 DEF l

\* The invariant gives every slot one owner.
LEMMA InvPartitioned ==
    ASSUME OverlapInv, FlowInv, NoResult
    PROVE  SlotsPartitioned
<1> DEFINE P == tree.pos
           l == LateSlots(req, Old, cur)
           t == TailsOf(req, rows, l)
           X(s) == {x \in DOMAIN P : P[x] = s}
           Y(s) == {h \in Live \X (1..NumSlots) :
                      /\ h[2] > Len(req[h[1]].pre) /\ h[2] <= req[h[1]].slen
                      /\ Row(h[1])[h[2]] = s}
           W(s) == {d \in Delayed : d[1].loc[d[2]] = <<s>>}
<1> SUFFICES ASSUME NEW s \in Slot
             PROVE  free[s] + Cardinality(X(s)) + Cardinality(Y(s)) + Cardinality(W(s)) = 1
  BY DEF SlotsPartitioned
<1>0. OverlapInv /\ FlowInv /\ NoResult
  OBVIOUS
<1>1. Part(P, t, free) /\ Apart(P, t) /\ Records(req) /\ DOMAIN l \subseteq Request
  <2>1. Part(P, t, free) /\ TypesOf(req, chunked_req, server_args, Old, cur)
    BY ONLY <1>0, Before
  <2>2. Records(req)
    BY ONLY <2>1, TypesFacts
  <2> QED
    BY ONLY <2>1, <2>2, LateFacts DEF Part
<1>2. /\ \A h : h \in DOMAIN t => /\ h = <<h[1], h[2]>> /\ h[1] \in Request /\ h[2] \in Nat
                                  /\ h[2] # 0 => InTail(req[h[1]], h[2])
                                  /\ h[2] = 0 => h[1] \in DOMAIN l
      /\ \A q \in Request : \A i : InTail(req[q], i) =>
            /\ <<q, i>> \in DOMAIN t /\ t[<<q, i>>] = rows[req[q].idx][i] /\ i \in Nat /\ i # 0
      /\ \A q \in DOMAIN l : <<q, 0>> \in DOMAIN t /\ t[<<q, 0>>] = l[q]
  <2> HIDE DEF l
  <2> QED
    BY ONLY <1>1, TailAt
<1>3. \A q \in Request : /\ req[q].slen \in Nat /\ Len(req[q].pre) \in Nat
                         /\ req[q].slen <= NumSlots /\ NumSlots \in Nat
                         /\ req[q].idx = 0 => req[q].slen = 0
  BY ONLY <1>0, RowFits
<1> HIDE DEF t, P, l
\* The uncached rows are the tails with an index ...
<1>4. \A h : h \in Y(s) <=> h \in DOMAIN t /\ t[h] = s /\ h[2] # 0
  <2>1. ASSUME NEW h, h \in Y(s) PROVE h \in DOMAIN t /\ t[h] = s /\ h[2] # 0
    <3>1. /\ h = <<h[1], h[2]>> /\ h[1] \in Request /\ h[2] \in 1..NumSlots
          /\ h[2] > Len(req[h[1]].pre) /\ h[2] <= req[h[1]].slen /\ rows[req[h[1]].idx][h[2]] = s
      BY ONLY <2>1 DEF Live, Row
    <3>2. h[2] \in Nat
      BY ONLY <1>3, <3>1
    <3>3. InTail(req[h[1]], h[2])
      BY ONLY <1>3, <3>1, <3>2 DEF InTail
    <3>4. <<h[1], h[2]>> \in DOMAIN t /\ t[<<h[1], h[2]>>] = s /\ h[2] # 0
      BY ONLY <1>2, <3>1, <3>3
    <3> QED
      BY ONLY <3>1, <3>4
  <2>2. ASSUME NEW h, h \in DOMAIN t, t[h] = s, h[2] # 0 PROVE h \in Y(s)
    <3>1. h = <<h[1], h[2]>> /\ h[1] \in Request /\ h[2] \in Nat /\ InTail(req[h[1]], h[2])
      BY ONLY <1>2, <2>2
    <3>2. t[<<h[1], h[2]>>] = rows[req[h[1]].idx][h[2]]
      BY ONLY <1>2, <3>1
    <3>3. rows[req[h[1]].idx][h[2]] = s
      BY ONLY <2>2, <3>1, <3>2
    <3>4. Len(req[h[1]].pre) < h[2] /\ h[2] <= req[h[1]].slen
      BY ONLY <3>1 DEF InTail
    <3>5. h[2] \in 1..NumSlots /\ h[2] > Len(req[h[1]].pre) /\ req[h[1]].idx # 0
      BY ONLY <1>3, <3>1, <3>4
    <3>6. h \in Live \X (1..NumSlots)
      BY ONLY <3>1, <3>5 DEF Live
    <3> QED
      BY ONLY <3>3, <3>4, <3>5, <3>6 DEF Row
  <2> HIDE DEF Y
  <2> QED
    BY ONLY <2>1, <2>2
\* ... and the delayed tokens those without.
<1>5. \A d : d \in Delayed <=> /\ d = <<d[1], d[2]>> /\ d[1] \in Pending /\ d[2] \in Request
                               /\ d[1].mode = "decode" /\ d[2] \in ToSet(d[1].reqs)
                               /\ req[d[2]].st = "done"
  BY ONLY TRUE DEF Delayed, Pending
<1>6. \A d : d \in W(s) => <<d[2], 0>> \in DOMAIN t /\ t[<<d[2], 0>>] = s /\ d = <<LateBatch(d[2]), d[2]>>
  <2> TAKE d
  <2> HAVE d \in W(s)
  <2>1. d \in Delayed /\ d[1].loc[d[2]] = <<s>>
    BY ONLY d \in W(s)
  <2> DEFINE b == d[1]
             q == d[2]
  <2>2. d = <<b, q>> /\ b \in Pending /\ q \in Request /\ b.mode = "decode" /\ q \in ToSet(b.reqs)
        /\ req[q].st = "done" /\ b.loc[q] = <<s>>
    BY ONLY <1>5, <2>1
  <2> HIDE DEF b, q
  <2>3. b = LateBatch(q) /\ q \in DOMAIN l /\ LateBatch(q).loc[q] = <<l[q]>>
    BY ONLY <1>0, <2>2, LateOnce DEF l
  <2>4. <<l[q]>> = <<s>>
    BY ONLY <2>2, <2>3
  <2>5. l[q] = s
    BY ONLY <2>4
  <2>6. <<q, 0>> \in DOMAIN t /\ t[<<q, 0>>] = s
    BY ONLY <1>2, <2>3, <2>5
  <2> QED
    BY ONLY <2>2, <2>3, <2>6 DEF q
<1>7. \A h : h \in DOMAIN t /\ t[h] = s /\ h[2] = 0 => <<LateBatch(h[1]), h[1]>> \in W(s)
  <2> TAKE h
  <2> HAVE h \in DOMAIN t /\ t[h] = s /\ h[2] = 0
  <2> DEFINE q == h[1]
             b == LateBatch(q)
             d == <<b, q>>
  <2>1. h = <<q, 0>> /\ q \in DOMAIN l
    BY ONLY <1>2, h \in DOMAIN t /\ t[h] = s /\ h[2] = 0
  <2> HIDE DEF q
  <2>2. l[q] = s
    BY ONLY <1>2, <2>1, h \in DOMAIN t /\ t[h] = s /\ h[2] = 0
  <2>3. q \in Request /\ req[q].st = "done"
    BY ONLY <2>1, LateFacts DEF l
  <2>4. b \in Pending /\ b.mode = "decode" /\ q \in ToSet(b.reqs) /\ b.loc[q] = <<l[q]>>
    BY ONLY <1>0, <2>1, <2>3, LateOnce DEF l
  <2> HIDE DEF b
  <2>5. d[1] = b /\ d[2] = q /\ d = <<d[1], d[2]>>
    BY ONLY TRUE
  <2> HIDE DEF d
  <2>6. d \in Delayed
    BY ONLY <1>5, <2>3, <2>4, <2>5
  <2>7. d[1].loc[d[2]] = <<s>>
    BY ONLY <2>2, <2>4, <2>5
  <2>8. d \in W(s)
    BY ONLY <2>6, <2>7
  <2> QED
    BY ONLY <2>8 DEF d, b, q
<1> HIDE DEF Y, W
<1> DEFINE F == Y(s)
           G == W(s)
<1>8. free[s] \in {0, 1} /\ (free[s] = 0 <=> Owned(P, t, s))
  BY ONLY <1>1, s \in Slot DEF Part
<1>9. ASSUME \A h \in DOMAIN t : t[h] # s
      PROVE  Y(s) = {} /\ W(s) = {}
  BY ONLY <1>4, <1>6, <1>9
<1>10. CASE free[s] = 1
  <2>1. X(s) = {} /\ \A h \in DOMAIN t : t[h] # s
    BY ONLY <1>8, <1>10 DEF Owned
  <2>2. Cardinality(X(s)) = 0 /\ Cardinality(Y(s)) = 0 /\ Cardinality(W(s)) = 0
    BY ONLY <1>9, <2>1, FS_EmptySet
  <2> HIDE DEF X
  <2> QED
    BY ONLY <1>10, <2>2
<1>11. CASE free[s] = 0 /\ \E x \in DOMAIN P : P[x] = s
  <2>1. PICK x \in DOMAIN P : P[x] = s
    BY ONLY <1>11
  <2>2. X(s) = {x} /\ \A h \in DOMAIN t : t[h] # s
    BY ONLY <1>1, <2>1 DEF Apart
  <2>3. Cardinality(X(s)) = 1 /\ Cardinality(Y(s)) = 0 /\ Cardinality(W(s)) = 0
    BY ONLY <1>9, <2>2, FS_EmptySet, FS_Singleton
  <2> HIDE DEF X
  <2> QED
    BY ONLY <1>11, <2>3
<1>12. CASE free[s] = 0 /\ \E h \in DOMAIN t : t[h] = s
  <2>1. PICK h \in DOMAIN t : t[h] = s
    BY ONLY <1>12
  <2>2. X(s) = {} /\ \A g \in DOMAIN t : t[g] = s => g = h
    BY ONLY <1>1, <2>1 DEF Apart
  <2>3. Cardinality(X(s)) = 0
    BY ONLY <2>2, FS_EmptySet
  <2>4. CASE h[2] # 0
    <3>1. Y(s) = {h}
      BY ONLY <1>4, <2>1, <2>2, <2>4
    <3>2. W(s) = {}
      <4>1. ASSUME NEW d, d \in W(s) PROVE FALSE
        <5> DEFINE y == d[2]
        <5>1. h = <<y, 0>>
          BY ONLY <1>6, <2>2, <4>1
        <5> HIDE DEF y
        <5>2. h[2] = 0
          BY ONLY <5>1
        <5> QED
          BY ONLY <2>4, <5>2
      <4> QED
        BY ONLY <4>1
    <3>3. Cardinality(Y(s)) = 1 /\ Cardinality(W(s)) = 0
      BY ONLY <3>1, <3>2, FS_EmptySet, FS_Singleton
    <3> HIDE DEF X
    <3> QED
      BY ONLY <1>12, <2>3, <3>3
  <2>5. CASE h[2] = 0
    <3>1. Y(s) = {}
      BY ONLY <1>4, <2>2, <2>5
    <3> DEFINE e == <<LateBatch(h[1]), h[1]>>
    <3>2. e \in W(s)
      BY ONLY <1>7, <2>1, <2>5
    <3>3. \A d \in W(s) : d = e
      <4> TAKE d \in W(s)
      <4>1. <<d[2], 0>> = h /\ d = <<LateBatch(d[2]), d[2]>>
        BY ONLY <1>6, <2>2, d \in W(s)
      <4>2. d[2] = h[1]
        BY ONLY <4>1
      <4> QED
        BY ONLY <4>1, <4>2
    <3> HIDE DEF e
    <3>4. W(s) = {e}
      BY ONLY <3>2, <3>3
    <3>5. Cardinality(Y(s)) = 0 /\ Cardinality(W(s)) = 1
      BY ONLY <3>1, <3>4, FS_EmptySet, FS_Singleton
    <3> HIDE DEF X
    <3> QED
      BY ONLY <1>12, <2>3, <3>5
  <2> QED
    BY ONLY <2>4, <2>5
<1> QED
  BY ONLY <1>8, <1>10, <1>11, <1>12 DEF Owned

\* Every step of the two threads keeps the invariant, unless the cache is flushed with
\* a batch in flight.
LEMMA OverlapStep == ~FlushInFlight /\ OverlapInv /\ FlowInv /\ [Next]_vars => OverlapInv'
<1> SUFFICES ASSUME ~FlushInFlight, OverlapInv, FlowInv, [Next]_vars PROVE OverlapInv'
  OBVIOUS
<1>1. ASSUME NEW q \in Request, Arrive(q) \/ AbortWaiting(q) PROVE OverlapInv'
  BY ONLY OverlapInv, <1>1, ArriveInv, AbortInv
<1>2. CASE FlushCache
  BY ONLY OverlapInv, FlowInv, ~FlushInFlight, <1>2, FlushInv
<1>3. CASE GetNextBatchToRun \/ StopAdding
  BY ONLY OverlapInv, FlowInv, <1>3, GetNextInv, StopInv
<1>4. ASSUME NEW q \in Request, AddOneReq(q) \/ RetractDecode(q) PROVE OverlapInv'
  BY ONLY OverlapInv, <1>4, AddInv, RetractInv
<1>5. CASE PrepareForExtend \/ PrepareForDecode \/ PrepareForDecodeAfterRetract \/ NothingToRun
  BY ONLY OverlapInv, FlowInv, <1>5, ExtendInv, PrepareInv, AfterRetractInv, NothingInv
<1>6. CASE ResolveLastBatchResult \/ ProcessBatchResult \/ EndIteration
  BY ONLY OverlapInv, FlowInv, <1>6, ResolveInv, ProcessInv, EndInv
<1>7. CASE Launch \/ Sample \/ UNCHANGED vars
  <2>1. UNCHANGED <<tree, free, rows, free_rows, req, running, can_run, chunked_req,
                    server_args, last_batch, result, cur, loop>>
    BY ONLY <1>7, Zenon DEF Launch, Sample, vars, pools, queue, flow
  <2> QED
    BY ONLY OverlapInv, <2>1, SameInv, SMTT(20)
<1> QED
  BY <1>1, <1>2, <1>3, <1>4, <1>5, <1>6, <1>7 DEF Next, Schedule

\* The bookkeeping of the overlapped loop, whatever is in flight: each request is where
\* its record, the lists and the two batches say, rows and pinned prefixes are in
\* order, and free list, tree, rows and late tokens share the slots, provided
\* flush_cache does not run with a batch in flight.
THEOREM LoopInvariant == ~FlushInFlight => (Spec => [](OverlapInv /\ FlowInv /\ NoResult))
<1> SUFFICES ASSUME ~FlushInFlight PROVE Spec => [](OverlapInv /\ FlowInv /\ NoResult)
  OBVIOUS
<1> DEFINE IInv == OverlapInv /\ FlowInv /\ NoResult
<1>1. Init => IInv
  <2>1. Init => NoResult
    BY DEF Init, NoResult
  <2> QED
    BY ONLY <2>1, InitInv, FlowInit
<1>2. IInv /\ [Next]_vars => IInv'
  <2>1. OverlapInv /\ FlowInv /\ [Next]_vars => OverlapInv'
    BY OverlapStep
  <2>2. FlowInv /\ [Next]_vars => FlowInv'
    BY FlowStep
  <2> QED
    BY ONLY <2>1, <2>2, NoResultStep
<1> QED
  BY <1>1, <1>2, PTL DEF Spec

\* "Free the one extra delayed token" (process_batch_result_decode): through
\* prefills, chunks, decodes, retractions, evictions and results an iteration late,
\* no slot is lost, freed twice or used twice.
THEOREM OverlapSlots == ~FlushInFlight => (Spec => []SlotsPartitioned)
<1> SUFFICES ASSUME ~FlushInFlight PROVE Spec => []SlotsPartitioned
  OBVIOUS
<1>1. Spec => [](OverlapInv /\ FlowInv /\ NoResult)
  BY LoopInvariant
<1>2. OverlapInv /\ FlowInv /\ NoResult => SlotsPartitioned
  BY InvPartitioned
<1> QED
  BY <1>1, <1>2, PTL
=============================================================================
