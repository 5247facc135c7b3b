----------------------- MODULE TokenizerManager_proofs -----------------------
(***************************************************************************)
(* The lock's invariant, for all finite sets of readers and writers, with  *)
(* any of them cancelled at any wait; and that TokenizerManager, which     *)
(* takes and releases the lock in twelve places, is one of its users.      *)
(*                                                                         *)
(* Then, from an invariant on where a request's messages can be, that an   *)
(* abort finds its request's state, that only an abort by somebody else    *)
(* strands a call, and that a weight update finds no call waiting.         *)
(***************************************************************************)
EXTENDS TokenizerManager, FiniteSetTheorems, TLAPS

LockIInv == LockTypeOK /\ LockInv

\* The sets that are counted are finite.
LEMMA Counted == IsFiniteSet(Holders) /\ IsFiniteSet(Waiting)
<1>1. Holders \subseteq Reader /\ Waiting \subseteq Writer
  BY DEF Holders, Waiting
<1> QED
  BY <1>1, LockAssumption, FS_Subset

\* A reader or writer can join or leave a finite set, and the count follows.
LEMMA Joins ==
  ASSUME NEW S, NEW t, IsFiniteSet(S), t \notin S
  PROVE  Cardinality(S \cup {t}) = Cardinality(S) + 1
BY FS_AddElement

\* Leaving a set takes one off its size.
LEMMA Leaves ==
  ASSUME NEW S, NEW t, IsFiniteSet(S), t \in S
  PROVE  Cardinality(S \ {t}) = Cardinality(S) - 1
BY FS_RemoveElement

\* The lock's invariant holds at the start.
LEMMA LockInitOK == LockInit => LockIInv
<1> SUFFICES ASSUME LockInit PROVE LockIInv
  OBVIOUS
<1>1. Holders = {} /\ Waiting = {}
  BY DEF LockInit, Holders, Waiting, Task
<1>2. Cardinality({}) = 0
  BY FS_EmptySet
<1> QED
  BY <1>1, <1>2 DEF LockInit, LockIInv, LockTypeOK, LockInv, Task

\* What every acquire, release and cancellation must keep.
LEMMA LockStep == LockIInv /\ [LockNext]_lockVars => LockIInv'
<1> SUFFICES ASSUME LockIInv, [LockNext]_lockVars PROVE LockIInv'
  OBVIOUS
<1> USE LockAssumption DEF LockIInv, LockTypeOK, LockInv, Task
<1> Cardinality(Holders) \in Nat /\ Cardinality(Waiting) \in Nat
  BY Counted, FS_CardinalityType
<1>1. ASSUME NEW t \in Reader, AcquireReader(t) PROVE LockIInv'
  <2>1. Waiting' = Waiting
    BY <1>1 DEF AcquireReader, Waiting
  <2>2. CASE ReaderBlocked
    <3>1. Holders' = Holders
      BY <1>1, <2>2 DEF AcquireReader, Holders
    <3> QED
      BY <1>1, <2>1, <2>2, <3>1 DEF AcquireReader
  <2>3. CASE ~ReaderBlocked
    <3>1. Holders' = Holders \cup {t} /\ t \notin Holders
      BY <1>1, <2>3 DEF AcquireReader, Holders
    <3>2. Cardinality(Holders') = Cardinality(Holders) + 1
      BY <3>1, Counted, Joins
    <3> QED
      BY <1>1, <2>1, <2>3, <3>2 DEF AcquireReader, ReaderBlocked
  <2> QED
    BY <2>2, <2>3
<1>2. ASSUME NEW t \in Reader, ReleaseReader(t) PROVE LockIInv'
  <2>1. Waiting' = Waiting
    BY <1>2 DEF ReleaseReader, Notified, Waiting
  <2>2. Holders' = Holders \ {t} /\ t \in Holders
    BY <1>2 DEF ReleaseReader, Notified, Holders
  <2>3. Cardinality(Holders') = Cardinality(Holders) - 1 /\ readers' = readers - 1
    BY <1>2, <2>2, Counted, Leaves DEF ReleaseReader
  <2>4. Cardinality(Holders') \in Nat
    BY <2>2, Counted, FS_CardinalityType, FS_RemoveElement
  <2>5. \A w \in Writer : at[w] # "in"
    BY <1>2 DEF ReleaseReader
  <2> QED
    BY <1>2, <2>1, <2>3, <2>4, <2>5 DEF ReleaseReader, Notified
<1>3. ASSUME NEW t \in Reader, CancelReader(t) PROVE LockIInv'
  <2>1. Holders' = Holders /\ Waiting' = Waiting
    BY <1>3 DEF CancelReader, Holders, Waiting
  <2> QED
    BY <1>3, <2>1 DEF CancelReader
<1>4. ASSUME NEW t \in Writer, AcquireWriter(t) PROVE LockIInv'
  <2>1. Holders' = Holders
    BY <1>4 DEF AcquireWriter, Holders
  <2> DEFINE counted == waiting_writers + (IF at[t] = "out" THEN 1 ELSE 0)
  <2>2. counted = Cardinality(Waiting \cup {t}) /\ counted \in Nat \ {0}
    <3>1. CASE at[t] = "out"
      <4>1. t \notin Waiting
        BY <3>1 DEF Waiting
      <4>2. Cardinality(Waiting \cup {t}) = Cardinality(Waiting) + 1
        BY <4>1, Counted, Joins
      <4>3. counted = waiting_writers + 1
        BY <3>1
      <4> QED
        BY <4>2, <4>3
    <3>2. CASE at[t] = "woken"
      <4>1. Waiting \cup {t} = Waiting /\ t \in Waiting
        BY <3>2 DEF Waiting
      <4>2. Cardinality(Waiting \ {t}) = Cardinality(Waiting) - 1
        BY <4>1, Counted, Leaves
      <4>3. Cardinality(Waiting \ {t}) \in Nat
        BY Counted, FS_CardinalityType, FS_RemoveElement
      <4>4. counted = waiting_writers
        BY <3>2
      <4> QED
        BY <4>1, <4>2, <4>3, <4>4
    <3> QED
      BY <1>4, <3>1, <3>2 DEF AcquireWriter
  <2>3. CASE WriterBlocked
    <3>1. Waiting' = Waiting \cup {t}
      BY <1>4, <2>3 DEF AcquireWriter, Waiting
    <3>2. waiting_writers' = counted
      BY <1>4, <2>3 DEF AcquireWriter
    <3> QED
      BY <1>4, <2>1, <2>2, <2>3, <3>1, <3>2 DEF AcquireWriter
  <2>4. CASE ~WriterBlocked
    <3>1. Waiting' = (Waiting \cup {t}) \ {t}
      BY <1>4, <2>4 DEF AcquireWriter, Waiting
    <3>2. IsFiniteSet(Waiting \cup {t})
      BY Counted, FS_AddElement
    <3>3. Cardinality(Waiting') = counted - 1 /\ waiting_writers' = counted - 1
      BY <1>4, <2>2, <2>4, <3>1, <3>2, Leaves DEF AcquireWriter
    <3>4. Holders = {}
      BY <1>4, <2>4, Counted, FS_EmptySet DEF WriterBlocked
    <3>5. \A u \in Task : at[u] # "in"
      BY <2>4, <3>4 DEF WriterBlocked, Holders
    <3>6. waiting_writers' \in Nat /\ waiting_writers' = Cardinality(Waiting')
      BY <2>2, <3>3
    <3>7. /\ at' = [at EXCEPT ![t] = "in"]
          /\ writer_active' = TRUE
          /\ readers' = readers
      BY <1>4, <2>4 DEF AcquireWriter
    <3> HIDE DEF counted
    <3> QED
      BY <2>1, <3>5, <3>6, <3>7
  <2> QED
    BY <2>3, <2>4
<1>5. ASSUME NEW t \in Writer, ReleaseWriter(t) PROVE LockIInv'
  <2>1. Holders' = Holders /\ Waiting' = Waiting
    BY <1>5 DEF ReleaseWriter, Notified, Holders, Waiting
  <2> QED
    BY <1>5, <2>1 DEF ReleaseWriter, Notified
<1>6. ASSUME NEW t \in Writer, CancelWriter(t) PROVE LockIInv'
  <2>1. Holders' = Holders
    BY <1>6 DEF CancelWriter, Holders
  <2>2. Waiting' = Waiting \ {t} /\ t \in Waiting
    BY <1>6 DEF CancelWriter, Waiting
  <2>3. Cardinality(Waiting') = Cardinality(Waiting) - 1
    BY <2>2, Counted, Leaves
  <2>4. Cardinality(Waiting') \in Nat
    BY <2>2, Counted, FS_CardinalityType, FS_RemoveElement
  <2> QED
    BY <1>6, <2>1, <2>3, <2>4 DEF CancelWriter
<1>7. CASE UNCHANGED lockVars
  <2>1. Holders' = Holders /\ Waiting' = Waiting
    BY <1>7 DEF lockVars, Holders, Waiting
  <2> QED
    BY <1>7, <2>1 DEF lockVars
<1> QED
  BY <1>1, <1>2, <1>3, <1>4, <1>5, <1>6, <1>7 DEF LockNext

\* Readers and writers exclude each other and the counters are exact under any
\* use of the lock, with any task cancelled in any wait.
THEOREM LockCorrect == LockSpec => []LockInv
<1>1. LockInit => LockIInv
  BY LockInitOK
<1>2. LockIInv /\ [LockNext]_lockVars => LockIInv'
  BY LockStep
<1> QED
  BY <1>1, <1>2, PTL DEF LockSpec, LockIInv

\* Every path of a request and of an update through TokenizerManager, normal,
\* raising or cancelled, acquires and releases the lock as its users must.
LEMMA StepUsesLock == [Next]_vars => [LockNext]_lockVars
<1> SUFFICES ASSUME [Next]_vars PROVE LockNext \/ UNCHANGED lockVars
  OBVIOUS
<1> USE DEF Request, Update, LockNext
<1>1. ASSUME NEW r \in Request, Acquire(r) PROVE LockNext
  BY <1>1 DEF Acquire
<1>2. ASSUME NEW r \in Request, AbortAndRaise(r) PROVE LockNext
  BY <1>2 DEF AbortAndRaise
<1>3. ASSUME NEW r \in Request, Waiter(r) PROVE LockNext \/ UNCHANGED lockVars
  BY <1>2, <1>3 DEF Waiter, SendOneRequest, TokenizeFails, Timeout, TakePart,
     TakeFinal, Close
<1>4. ASSUME NEW r \in Request, CancelStream(r) PROVE LockNext
  BY <1>4 DEF CancelStream
<1>5. ASSUME NEW r \in Request,
             BackgroundAbort(r) \/ Disconnect(r) \/ AbortByHand(r)
      PROVE UNCHANGED lockVars
  BY <1>5 DEF BackgroundAbort, Disconnect, AbortByHand
<1>6. ASSUME NEW w \in Update, UpdateAcquire(w) \/ UpdateReturns(w)
      PROVE LockNext
  BY <1>6 DEF UpdateAcquire, UpdateReturns
<1>7. ASSUME HandleLoop PROVE UNCHANGED lockVars
  BY <1>7 DEF HandleLoop, HandleBatchOutput, HandleAbortReq, HandleUpdateResult
<1>8. ASSUME ProcessInput PROVE UNCHANGED lockVars
  BY <1>8 DEF ProcessInput, HandleGenerateRequest, SchedulerAbort, SchedulerUpdate
<1>9. ASSUME RunBatch PROVE UNCHANGED lockVars
  BY <1>9 DEF RunBatch, Prefill, Decode
<1>10. CASE UNCHANGED vars
  BY <1>10 DEF vars
<1> QED
  BY <1>1, <1>3, <1>4, <1>5, <1>6, <1>7, <1>8, <1>9, <1>10 DEF Next

\* TokenizerManager is one of the lock's users.
THEOREM TokenizerUsesLock == Spec => ImplementsLock
<1>1. Init => LockInit
  BY DEF Init
<1> QED
  BY <1>1, StepUsesLock, PTL DEF Spec, ImplementsLock, LockSpec

\* In the server itself, whatever clients, aborts and updates do, the lock's counters
\* are right and a weight update holds the writer lock alone (generate_request's
\* reader lock, update_weights_from_disk's writer lock).
THEOREM TokenizerLockCorrect == Spec => []LockInv
BY LockCorrect, TokenizerUsesLock, PTL DEF ImplementsLock
-----------------------------------------------------------------------------
(* The inductive invariant: what is in flight between the two processes. *)

Once(m, q) == \A i, j \in DOMAIN q : q[i] = m /\ q[j] = m => i = j

\* The scheduler has, or will receive, a request that it has not finished.
Working(r) == Occurs(Req(r), toSched) \/ sched[r] \in {"queued", "last", "running"}

\* A request and the task that waits for it agree with the lock.
TaskInv(r) ==
    /\ at[r] = "in" <=> task[r] \in {"tokenize", "await", "closing"}
    /\ event[r] # "none" => task[r] \in {"await", "closing"}
    /\ r \in bg => task[r] = "over"

\* The scheduler is sent a request once, by a task that then waits.
SentInv(r) ==
    /\ Occurs(Req(r), toSched) => sched[r] = "none" /\ Once(Req(r), toSched)
    /\ Occurs(Req(r), toSched) \/ sched[r] # "none" =>
          task[r] \in {"await", "closing", "over"}

\* The scheduler answers a request once: by a final output or by an abort.
AnswerInv(r) ==
    /\ Working(r) =>
          r \in rid_to_state /\ ~FinalPending(r) /\ ~Occurs(Abort(r), toTok)
    /\ FinalPending(r) => sched[r] \in {"finished", "gone"}
    /\ Occurs(Abort(r), toTok) =>
          /\ sched[r] = "gone" /\ r \in rid_to_state
          /\ ~FinalPending(r) /\ Once(Abort(r), toTok)

\* The response is over because the client went away.
Left(r) == task[r] = "over" /\ ~conn[r]

\* A state is kept while its task waits, or after its client left.  It leaves
\* rid_to_state with a final output for the waiter, or because of an abort; and
\* an abort of a rid comes after its client left or from /abort_request.
WaiterInv(r) ==
    /\ event[r] = "final" => r \notin rid_to_state
    /\ r \in rid_to_state => task[r] = "await" \/ Left(r)
    /\ task[r] = "await" /\ r \notin rid_to_state /\ event[r] # "final" => Caught(r)
    /\ Occurs(Abort(r), toSched) => r \in byHand \/ Left(r)
    /\ Occurs(Abort(r), toTok) => task[r] = "over" \/ Caught(r)

\* An update's message, or its answer, is under way only while the update holds
\* the writer lock.
UpdateInv(w) ==
    /\ at[w] = "in" <=> upd[w] \in {"sent", "answered"}
    /\ Occurs(Weights(w), toSched) =>
          upd[w] = "sent" /\ Once(Weights(w), toSched) /\ ~Occurs(Weights(w), toTok)
    /\ Occurs(Weights(w), toTok) => upd[w] = "sent" /\ Once(Weights(w), toTok)

Unfinished(r) ==
    sched[r] \in {"none", "queued", "last", "running"} => tokens[r] < MaxTokens

TokIInv ==
    /\ TokTypeOK
    /\ LockInv
    /\ \A r \in Request : TaskInv(r) /\ SentInv(r) /\ AnswerInv(r) /\ WaiterInv(r)
                          /\ Unfinished(r)
    /\ \A w \in Update : UpdateInv(w)
    /\ UpdateSparesWaiters

-----------------------------------------------------------------------------
(* What sending and receiving a message changes. *)

\* Sending puts one message in the pipe.
LEMMA Sent ==
  ASSUME NEW S, NEW q \in Seq(S), NEW m \in S
  PROVE  /\ Append(q, m) \in Seq(S)
         /\ \A x : Occurs(x, Append(q, m)) <=> Occurs(x, q) \/ x = m
         /\ \A x : Once(x, q) /\ x # m => Once(x, Append(q, m))
         /\ ~Occurs(m, q) => Once(m, Append(q, m))
<1>1. /\ Append(q, m) \in Seq(S)
      /\ DOMAIN Append(q, m) = DOMAIN q \cup {Len(q) + 1}
      /\ Append(q, m)[Len(q) + 1] = m
      /\ \A i \in DOMAIN q : Append(q, m)[i] = q[i]
  OBVIOUS
<1> QED
  BY <1>1 DEF Occurs, Once

\* Receiving takes the first message out of the pipe.
LEMMA Received ==
  ASSUME NEW S, NEW q \in Seq(S), q # <<>>
  PROVE  /\ Tail(q) \in Seq(S) /\ Head(q) \in S
         /\ Occurs(Head(q), q)
         /\ \A x : Occurs(x, Tail(q)) => Occurs(x, q)
         /\ \A x : Once(x, q) => Once(x, Tail(q))
         /\ Once(Head(q), q) => ~Occurs(Head(q), Tail(q))
<1>1. /\ Tail(q) \in Seq(S) /\ Len(Tail(q)) = Len(q) - 1 /\ Len(q) \in Nat \ {0}
      /\ \A i \in DOMAIN Tail(q) : i + 1 \in DOMAIN q /\ Tail(q)[i] = q[i + 1]
      /\ 1 \in DOMAIN q /\ Head(q) = q[1] /\ DOMAIN Tail(q) \subseteq Nat \ {0}
  OBVIOUS
<1>2. /\ Head(q) \in S /\ Occurs(Head(q), q)
  BY <1>1 DEF Occurs
<1>3. ASSUME NEW x, Occurs(x, Tail(q)) PROVE Occurs(x, q)
  BY <1>1, <1>3 DEF Occurs
<1>4. ASSUME NEW x, Once(x, q) PROVE Once(x, Tail(q))
  BY <1>1, <1>4 DEF Once
<1>5. ASSUME Once(Head(q), q) PROVE ~Occurs(Head(q), Tail(q))
  BY <1>1, <1>5 DEF Once, Occurs
<1> QED
  BY <1>1, <1>2, <1>3, <1>4, <1>5

\* Messages of different kinds, or about different requests, differ.
LEMMA Messages ==
  /\ \A r \in Request : Req(r) \in Message /\ Abort(r) \in Message
  /\ \A w \in Update : Weights(w) \in Message
  /\ \A r, s : Req(r) # Abort(s) /\ Req(r) # Weights(s) /\ Abort(r) # Weights(s)
  /\ \A r, s : r # s => /\ Req(r) # Req(s)
                        /\ Abort(r) # Abort(s)
                        /\ Weights(r) # Weights(s)
BY DEF Req, Abort, Weights, Message

\* A message is one of the three, and its first field tells which.
LEMMA Kinds ==
  ASSUME NEW m \in Message
  PROVE  /\ m[1] = "req" => m[2] \in Request /\ m = Req(m[2])
         /\ m[1] = "abort" => m[2] \in Request /\ m = Abort(m[2])
         /\ m[1] = "weights" => m[2] \in Update /\ m = Weights(m[2])
BY DEF Message, Req, Abort, Weights

\* Batches of outputs come and go in order.
LEMMA Outputs ==
  ASSUME NEW S, NEW q \in Seq([part : SUBSET S, final : SUBSET S])
  PROVE  /\ \A b \in [part : SUBSET S, final : SUBSET S] : \A r :
               (\E i \in DOMAIN Append(q, b) : r \in Append(q, b)[i].final)
               <=> (\E i \in DOMAIN q : r \in q[i].final) \/ r \in b.final
         /\ q # <<>> => \A r :
               /\ (\E i \in DOMAIN Tail(q) : r \in Tail(q)[i].final)
                  => (\E i \in DOMAIN q : r \in q[i].final)
               /\ r \in Head(q).final => \E i \in DOMAIN q : r \in q[i].final
<1>1. q # <<>> =>
        /\ \A i \in DOMAIN Tail(q) : i + 1 \in DOMAIN q /\ Tail(q)[i] = q[i + 1]
        /\ 1 \in DOMAIN q /\ Head(q) = q[1]
  OBVIOUS
<1>2. ASSUME NEW b \in [part : SUBSET S, final : SUBSET S]
      PROVE  /\ DOMAIN Append(q, b) = DOMAIN q \cup {Len(q) + 1}
             /\ \A i \in DOMAIN q : Append(q, b)[i] = q[i]
             /\ Append(q, b)[Len(q) + 1] = b
  OBVIOUS
<1> QED
  BY <1>1, <1>2
\* Two runs of messages make one.
LEMMA Joined ==
  ASSUME NEW S, NEW q \in Seq(S), NEW u \in Seq(S)
  PROVE  q \o u \in Seq(S) /\ Len(q \o u) = Len(q) + Len(u)
OBVIOUS

\* The reports of the requests removed from waiting_queue, in any order.
LEMMA Reported ==
  ASSUME NEW S \in SUBSET Request, NEW o \in Orders(S), NEW q \in Seq(Message)
  PROVE  /\ Reporting(q, o) \in Seq(Message)
         /\ \A k : Occurs(k, Reporting(q, o)) =>
                     Occurs(k, q) \/ \E s \in S : k = Abort(s)
         /\ \A k : Once(k, q) /\ (\A s \in S : k # Abort(s)) =>
                     Once(k, Reporting(q, o))
         /\ \A s \in S : ~Occurs(Abort(s), q) => Once(Abort(s), Reporting(q, o))
<1> DEFINE n == Cardinality(S)
           u == [i \in DOMAIN o |-> Abort(o[i])]
           t == Reporting(q, o)
<1>1. n \in Nat
  <2>1. IsFiniteSet(S)
    BY LockAssumption, FS_Subset DEF Request
  <2> QED
    BY <2>1, FS_CardinalityType
<1> HIDE DEF n
<1>2. /\ o \in [1 .. n -> S]
      /\ \A i, j \in 1 .. n : o[i] = o[j] => i = j
  BY DEF Orders, n
<1>3. /\ u \in Seq(Message) /\ Len(u) = n
      /\ \A i \in 1 .. n : u[i] = Abort(o[i])
  BY <1>1, <1>2, Messages
<1>4. t = q \o u
  BY DEF Reporting
<1> HIDE DEF u, t
<1>5. /\ t \in Seq(Message) /\ Len(t) = Len(q) + n /\ Len(q) \in Nat
      /\ \A i \in 1 .. Len(q) : t[i] = q[i]
      /\ \A i \in 1 .. Len(t) : i > Len(q) => t[i] = u[i - Len(q)]
      /\ DOMAIN t = 1 .. Len(t) /\ DOMAIN q = 1 .. Len(q)
  <2>1. u \in Seq(Message) /\ Len(u) = n
    BY <1>3
  <2>2. q \o u \in Seq(Message) /\ Len(q \o u) = Len(q) + Len(u)
    BY <2>1, Joined
  <2>3. t \in Seq(Message) /\ Len(t) = Len(q) + Len(u)
    BY ONLY <1>4, <2>2, Zenon
  <2>4. \A i \in 1 .. Len(q) : t[i] = q[i]
    BY <1>4, <2>1
  <2>5. \A i \in 1 .. Len(t) : i > Len(q) => t[i] = u[i - Len(q)]
    BY <1>1, <1>4, <2>1, <2>3
  <2> QED
    BY <2>1, <2>3, <2>4, <2>5
<1>6. ASSUME NEW i \in DOMAIN t
      PROVE  \/ i \in DOMAIN q /\ t[i] = q[i]
             \/ /\ i > Len(q) /\ i - Len(q) \in 1 .. n
                /\ t[i] = Abort(o[i - Len(q)]) /\ o[i - Len(q)] \in S
  BY <1>1, <1>2, <1>3, <1>5
<1>7. \A k : Occurs(k, t) => Occurs(k, q) \/ \E s \in S : k = Abort(s)
  BY <1>6 DEF Occurs
<1>8. \A k : Once(k, q) /\ (\A s \in S : k # Abort(s)) => Once(k, t)
  BY <1>6 DEF Once
<1>9. ASSUME NEW s \in S, ~Occurs(Abort(s), q) PROVE Once(Abort(s), t)
  <2>1. SUFFICES ASSUME NEW i \in DOMAIN t, NEW j \in DOMAIN t,
                        t[i] = Abort(s), t[j] = Abort(s)
                 PROVE  i = j
    BY DEF Once
  <2>2. /\ i - Len(q) \in 1 .. n /\ t[i] = Abort(o[i - Len(q)])
        /\ j - Len(q) \in 1 .. n /\ t[j] = Abort(o[j - Len(q)])
    BY <1>6, <1>9, <2>1 DEF Occurs
  <2>3. o[i - Len(q)] = o[j - Len(q)]
    BY <2>1, <2>2, Messages
  <2>4. i - Len(q) = j - Len(q)
    BY <1>2, <2>2, <2>3
  <2> QED
    BY <1>5, <2>4
<1> QED
  BY <1>5, <1>7, <1>8, <1>9 DEF t
-----------------------------------------------------------------------------
(* The invariant is preserved. *)

\* Nobody takes an abort by hand back, and a client that left stays away.
LEMMA CaughtKept ==
  ASSUME byHand \subseteq byHand', \A q \in Request : ~conn[q] => ~conn'[q]
  PROVE  \A x : Caught(x) => Caught(x)'
BY DEF Caught

\* In particular when no client is involved.
LEMMA CaughtSame ==
  ASSUME byHand' = byHand, conn' = conn
  PROVE  \A x : Caught(x) => Caught(x)'
BY DEF Caught

\* Who is inside the lock after each of its operations.
LEMMA Inside ==
  ASSUME LockTypeOK, NEW t \in Task
  PROVE  /\ AcquireReader(t) \/ AcquireWriter(t) =>
              \A x \in Task \ {t} : at'[x] = at[x]
         /\ ReleaseReader(t) \/ ReleaseWriter(t) \/ CancelReader(t) =>
              \A x \in Task : at'[x] = "in" <=> at[x] = "in" /\ x # t
BY DEF LockTypeOK, AcquireReader, AcquireWriter, ReleaseReader, ReleaseWriter,
       CancelReader, Notified

\* Every step is a step of the lock or leaves it alone.
LEMMA LockKept == TokIInv /\ [Next]_vars => LockTypeOK' /\ LockInv'
BY StepUsesLock, LockStep DEF TokIInv, TokTypeOK, LockIInv

\* The type invariant in parts, the Boolean ones apart.
FlagType == stream \in [Request -> BOOLEAN] /\ conn \in [Request -> BOOLEAN]

TaskType ==
    /\ task \in [Request -> {"new", "lock", "tokenize", "await", "closing", "over"}]
    /\ event \in [Request -> {"none", "part", "final"}]
    /\ rid_to_state \subseteq Request /\ bg \subseteq Request /\ byHand \subseteq Request
    /\ upd \in [Update -> {"new", "lock", "sent", "answered", "over"}]

NetType ==
    /\ toSched \in Seq(Message) /\ toTok \in Seq(Message)
    /\ outputs \in Seq([part : SUBSET Request, final : SUBSET Request])

SchedType ==
    /\ sched \in [Request -> {"none", "queued", "last", "running", "finished",
                              "gone", "dropped"}]
    /\ to_abort \subseteq Request
    /\ tokens \in [Request -> 0 .. MaxTokens]
    /\ retracts \in 0 .. MaxRetracts

\* The type invariant, variable by variable.
LEMMA TypeParts ==
  /\ TokTypeOK <=>
       LockTypeOK /\ FlagType /\ TaskType /\ NetType /\ SchedType /\ dead \in BOOLEAN
  /\ TokTypeOK' <=>
       LockTypeOK' /\ FlagType' /\ TaskType' /\ NetType' /\ SchedType' /\ dead' \in BOOLEAN
BY Zenon DEF TokTypeOK, FlagType, TaskType, NetType, SchedType

\* The invariant holds at the start.
LEMMA TokInitOK == Init => TokIInv
<1> SUFFICES ASSUME Init PROVE TokIInv
  OBVIOUS
<1>1. LockTypeOK /\ LockInv
  BY LockInitOK DEF Init, LockIInv
<1>2. \A m : ~Occurs(m, toSched) /\ ~Occurs(m, toTok)
  BY DEF Init, Occurs
<1>3. \A r : ~FinalPending(r)
  BY DEF Init, FinalPending
<1>4. TokTypeOK
  <2>1. FlagType
    BY SMT DEF Init, FlagType
  <2>2. TaskType
    BY DEF Init, TaskType
  <2>3. NetType
    BY DEF Init, NetType
  <2>4. SchedType
    BY TokenizerAssumption DEF Init, SchedType
  <2>5. dead \in BOOLEAN
    BY Zenon DEF Init
  <2> QED
    BY <1>1, <2>1, <2>2, <2>3, <2>4, <2>5, TypeParts
<1>5. \A r \in Request : at[r] = "out"
  BY DEF Init, LockInit, Task, Request
<1>6. \A w \in Update : at[w] = "out"
  BY DEF Init, LockInit, Task, Update
<1> QED
  BY <1>1, <1>2, <1>3, <1>4, <1>5, <1>6, TokenizerAssumption
  DEF Init, TokIInv, TaskInv, SentInv, AnswerInv, WaiterInv, Unfinished, Working,
      UpdateInv, UpdateSparesWaiters

\* A step of a task that sends nothing keeps what the messages say: it only moves
\* its own task forward and takes no state away.
LEMMA TaskStep ==
  ASSUME TokIInv, LockTypeOK', LockInv', NEW r \in Request,
         \/ Acquire(r) \/ TokenizeFails(r) \/ TakeFinal(r) \/ Close(r)
         \/ CancelStream(r) \/ Disconnect(r)
  PROVE  TokIInv'
<1> USE DEF Request, Update, Task
<1>1. FlagType'
  BY TypeParts DEF TokIInv, FlagType, Acquire, TokenizeFails, TakeFinal, Close,
                   CancelStream, Disconnect
<1>2. TaskType'
  BY TypeParts DEF TokIInv, TaskType, Acquire, TokenizeFails, TakeFinal, Close,
                   CancelStream, Disconnect, Ends
<1>3. UNCHANGED <<schedVars, netVars, rid_to_state, byHand, upd, dead>>
  BY DEF Acquire, TokenizeFails, TakeFinal, Close, CancelStream, Disconnect
<1>4. TokTypeOK'
  BY <1>1, <1>2, <1>3, TypeParts DEF TokIInv, NetType, SchedType, schedVars, netVars
<1>5. ASSUME NEW x \in Request PROVE TaskInv(x)'
  BY Inside, LockAssumption
  DEF TokIInv, TokTypeOK, TaskInv, Acquire, TokenizeFails, TakeFinal, Close,
      CancelStream, Disconnect, Ends, lockVars
<1>6. \A x \in Request :
        /\ \/ task'[x] = task[x] \/ task'[x] = "over"
           \/ (task[x] = "await" /\ task'[x] = "closing")
           \/ (task[x] \in {"new", "lock"} /\ task'[x] # "await")
        /\ event'[x] = event[x] \/ (task'[x] = "over" /\ event'[x] = "none")
        /\ task[x] = "over" => task'[x] = "over"
        /\ ~conn[x] => ~conn'[x]
        /\ x \in rid_to_state => task'[x] = "await" \/ Left(x)'
  <2> FlagType /\ TaskType
    BY TypeParts DEF TokIInv
  <2> \A x \in Request :
        /\ event[x] = "final" => x \notin rid_to_state
        /\ x \in rid_to_state => task[x] = "await" \/ Left(x)
    BY DEF TokIInv, WaiterInv
  <2>1. CASE Acquire(r)
    BY <2>1 DEF TaskType, Acquire, Left
  <2>2. CASE TakeFinal(r) \/ Disconnect(r)
    BY <2>2 DEF FlagType, TaskType, TakeFinal, Disconnect, Left
  <2>3. CASE TokenizeFails(r) \/ Close(r) \/ CancelStream(r)
    BY <2>3 DEF TaskType, TokenizeFails, Close, CancelStream, Ends, Left
  <2> QED
    BY <2>1, <2>2, <2>3
<1>7. ASSUME NEW x \in Request
      PROVE  SentInv(x)' /\ AnswerInv(x)' /\ WaiterInv(x)' /\ Unfinished(x)'
  <2>1. SentInv(x) /\ AnswerInv(x) /\ WaiterInv(x) /\ Unfinished(x)
    BY DEF TokIInv
  <2>2. SentInv(x)' /\ AnswerInv(x)' /\ Unfinished(x)'
    BY <1>3, <1>6, <2>1
    DEF SentInv, AnswerInv, Unfinished, Working, FinalPending, schedVars, netVars
  <2>3. WaiterInv(x)'
    <3>1. Caught(x) => Caught(x)'
      BY <1>3, <1>6, CaughtKept
    <3>2. Left(x) => Left(x)'
      BY <1>6 DEF Left
    <3> QED
      BY <1>3, <1>6, <2>1, <3>1, <3>2 DEF WaiterInv, netVars
  <2> QED
    BY <2>2, <2>3
<1>8. ASSUME NEW w \in Update PROVE UpdateInv(w)'
  <2>1. w # r /\ w \in Task
    BY LockAssumption
  <2>2. at'[w] = "in" <=> at[w] = "in"
    BY <2>1, Inside
    DEF TokIInv, TokTypeOK, Acquire, TokenizeFails, TakeFinal, Close, CancelStream,
        Disconnect, lockVars
  <2> QED
    BY <1>3, <2>2 DEF TokIInv, UpdateInv, netVars
<1>9. UpdateSparesWaiters'
  BY <1>3, <1>6 DEF TokIInv, UpdateSparesWaiters, schedVars
<1> QED
  BY <1>4, <1>5, <1>7, <1>8, <1>9 DEF TokIInv

\* The request is sent, and its state kept, before the task waits.
LEMMA SendStep ==
  ASSUME TokIInv, LockTypeOK', LockInv', NEW r \in Request, SendOneRequest(r)
  PROVE  TokIInv'
<1> USE DEF Request, Update, Task
<1>1. FlagType /\ TaskType /\ NetType /\ SchedType /\ dead \in BOOLEAN
  BY TypeParts DEF TokIInv
<1>2. /\ \A m : Occurs(m, toSched') <=> Occurs(m, toSched) \/ m = Req(r)
      /\ \A m : Once(m, toSched) /\ m # Req(r) => Once(m, toSched')
      /\ ~Occurs(Req(r), toSched) => Once(Req(r), toSched')
      /\ toSched' \in Seq(Message)
  BY <1>1, Sent, Messages DEF NetType, SendOneRequest
<1>3. /\ UNCHANGED <<lockVars, stream, conn, event, bg, byHand, upd, schedVars,
                     toTok, outputs, dead>>
      /\ rid_to_state' = rid_to_state \cup {r}
      /\ task' = [task EXCEPT ![r] = "await"]
      /\ task[r] = "tokenize"
  BY DEF SendOneRequest
<1>4. TokTypeOK'
  <2>1. FlagType'
    BY <1>1, <1>3 DEF FlagType
  <2>2. TaskType' /\ NetType' /\ SchedType'
    BY <1>1, <1>2, <1>3 DEF TaskType, NetType, SchedType, schedVars
  <2> QED
    BY <1>1, <1>3, <2>1, <2>2, TypeParts
<1>5. ASSUME NEW x \in Request
      PROVE  /\ TaskInv(x)' /\ SentInv(x)' /\ AnswerInv(x)' /\ WaiterInv(x)'
             /\ Unfinished(x)'
  <2>1. TaskInv(x) /\ SentInv(x) /\ AnswerInv(x) /\ WaiterInv(x) /\ Unfinished(x)
    BY DEF TokIInv
  <2>2. FinalPending(x)' <=> FinalPending(x)
    BY <1>3 DEF FinalPending
  <2>3. TaskInv(x)' /\ WaiterInv(x)' /\ Unfinished(x)'
    <3>1. Caught(x) => Caught(x)'
      BY <1>3, CaughtSame
    <3>2. Left(x) => Left(x)'
      BY <1>1, <1>3 DEF Left, TaskType
    <3>3. TaskInv(x)' /\ Unfinished(x)'
      BY <1>1, <1>2, <1>3, <2>1, Messages
      DEF TaskType, TaskInv, Unfinished, lockVars, schedVars
    <3>4. WaiterInv(x)'
      BY <1>1, <1>2, <1>3, <2>1, <3>1, <3>2, Messages DEF TaskType, TaskInv, WaiterInv
    <3> QED
      BY <3>3, <3>4
  <2>4. SentInv(x)' /\ AnswerInv(x)'
    <3>1. CASE x = r
      BY <1>1, <1>2, <1>3, <2>1, <2>2, <3>1, Messages
      DEF TaskType, SchedType, SentInv, AnswerInv, Working, schedVars
    <3>2. CASE x # r
      BY <1>1, <1>2, <1>3, <2>1, <2>2, <3>2, Messages
      DEF TaskType, SchedType, SentInv, AnswerInv, Working, schedVars
    <3> QED
      BY <3>1, <3>2
  <2> QED
    BY <2>3, <2>4
<1>6. ASSUME NEW w \in Update PROVE UpdateInv(w)'
  BY <1>2, <1>3, Messages DEF TokIInv, UpdateInv, lockVars
<1>7. UpdateSparesWaiters'
  BY <1>1, <1>3 DEF TokIInv, UpdateSparesWaiters, TaskType, schedVars
<1> QED
  BY <1>4, <1>5, <1>6, <1>7 DEF TokIInv

\* An abort is sent for a request whose client left or that was aborted by hand.
LEMMA AbortStep ==
  ASSUME TokIInv, LockTypeOK', LockInv', NEW r \in Request,
         Timeout(r) \/ TakePart(r) \/ BackgroundAbort(r) \/ AbortByHand(r)
  PROVE  TokIInv'
<1> USE DEF Request, Update, Task
<1>1. FlagType /\ TaskType /\ NetType /\ SchedType /\ dead \in BOOLEAN
  BY TypeParts DEF TokIInv
<1>2. /\ UNCHANGED <<stream, conn, rid_to_state, upd, schedVars, toTok, outputs, dead>>
      /\ byHand \subseteq byHand'
      /\ toSched' = toSched \/ toSched' = Append(toSched, Abort(r))
      /\ TaskType'
      /\ toSched' # toSched => r \in byHand' \/ Left(r)'
      /\ \A x \in Request :
           /\ TaskInv(x)'
           /\ \/ task'[x] = task[x] /\ event'[x] = event[x]
              \/ task'[x] = task[x] /\ event[x] = "part" /\ event'[x] = "none"
              \/ Left(x)' /\ event'[x] = "none"
      /\ \A w \in Update : at'[w] = "in" <=> at[w] = "in"
  <2> LockTypeOK /\ \A x \in Request : TaskInv(x)
    BY DEF TokIInv, TokTypeOK
  <2>0. r \in rid_to_state => task[r] = "await" \/ Left(r)
    BY DEF TokIInv, WaiterInv
  <2> USE <1>1 DEF TaskType, TaskInv, Left
  <2>1. CASE /\ task[r] = "await" /\ ~conn[r] /\ AbortAndRaise(r)
    <3>1. \A x \in Task : at'[x] = "in" <=> (at[x] = "in" /\ x # r)
      BY <2>1, Inside DEF AbortAndRaise
    <3>2. r \notin Writer
      BY LockAssumption
    <3> QED
      BY <2>1, <3>1, <3>2 DEF AbortAndRaise, AbortRequest, Ends
  <2>2. CASE /\ task[r] = "await" /\ event[r] = "part"
             /\ event' = [event EXCEPT ![r] = "none"]
             /\ UNCHANGED <<lockVars, stream, conn, task, rid_to_state, bg, byHand,
                            upd, schedVars, netVars, dead>>
    BY <2>2 DEF lockVars, netVars
  <2>3. CASE BackgroundAbort(r)
    BY <2>0, <2>3 DEF BackgroundAbort, AbortRequest, lockVars
  <2>4. CASE AbortByHand(r)
    BY <2>4 DEF AbortByHand, AbortRequest, lockVars
  <2> QED
    BY <2>1, <2>2, <2>3, <2>4 DEF Timeout, TakePart
<1>3. /\ \A m : Occurs(m, toSched') => Occurs(m, toSched) \/ m = Abort(r)
      /\ \A m : Occurs(m, toSched) => Occurs(m, toSched')
      /\ Occurs(Abort(r), toSched') =>
           Occurs(Abort(r), toSched) \/ r \in byHand' \/ Left(r)'
      /\ \A m : Once(m, toSched) /\ m # Abort(r) => Once(m, toSched')
      /\ toSched' \in Seq(Message)
  <2>1. CASE toSched' = toSched
    BY <1>1, <2>1 DEF NetType
  <2>2. CASE toSched' # toSched
    <3>1. toSched \in Seq(Message) /\ Abort(r) \in Message
      BY <1>1, Messages DEF NetType
    <3>2. toSched' = Append(toSched, Abort(r))
      BY <1>2, <2>2
    <3>3. r \in byHand' \/ Left(r)'
      BY <1>2, <2>2
    <3> QED
      BY <3>1, <3>2, <3>3, Sent
  <2> QED
    BY <2>1, <2>2
<1>4. TokTypeOK'
  <2>1. FlagType'
    BY <1>1, <1>2 DEF FlagType
  <2>2. NetType' /\ SchedType'
    BY <1>1, <1>2, <1>3 DEF NetType, SchedType, schedVars
  <2> QED
    BY <1>1, <1>2, <2>1, <2>2, TypeParts
<1>5. ASSUME NEW x \in Request
      PROVE  SentInv(x)' /\ AnswerInv(x)' /\ WaiterInv(x)' /\ Unfinished(x)'
  <2>1. SentInv(x) /\ AnswerInv(x) /\ WaiterInv(x) /\ Unfinished(x)
    BY DEF TokIInv
  <2>2. FinalPending(x)' <=> FinalPending(x)
    BY <1>2 DEF FinalPending
  <2>3. WaiterInv(x)' /\ Unfinished(x)'
    <3>1. Caught(x) => Caught(x)'
      BY <1>2, CaughtKept
    <3>2. (Left(x) => Left(x)') /\ (Left(x)' => task'[x] = "over")
      BY <1>2 DEF Left
    <3>3. Unfinished(x)'
      BY <1>2, <2>1 DEF Unfinished, schedVars
    <3> QED
      BY <1>2, <1>3, <2>1, <3>1, <3>2, <3>3, Messages DEF WaiterInv
  <2>4. SentInv(x)' /\ AnswerInv(x)'
    BY <1>2, <1>3, <2>1, <2>2, Messages DEF SentInv, AnswerInv, Working, Left, schedVars
  <2> QED
    BY <2>3, <2>4
<1>6. ASSUME NEW w \in Update PROVE UpdateInv(w)'
  BY <1>2, <1>3, Messages DEF TokIInv, UpdateInv
<1>7. UpdateSparesWaiters'
  BY <1>2 DEF TokIInv, UpdateSparesWaiters, Left, schedVars
<1> QED
  BY <1>2, <1>4, <1>5, <1>6, <1>7 DEF TokIInv

\* An update sends its message as it gets the writer lock and returns after its
\* answer.
LEMMA UpdateStep ==
  ASSUME TokIInv, LockTypeOK', LockInv', NEW w \in Update,
         UpdateAcquire(w) \/ UpdateReturns(w)
  PROVE  TokIInv'
<1> USE DEF Request, Update, Task
<1>1. FlagType /\ TaskType /\ NetType /\ SchedType /\ dead \in BOOLEAN
  BY TypeParts DEF TokIInv
<1>2. UNCHANGED <<stream, conn, task, event, rid_to_state, bg, byHand, schedVars,
                  toTok, outputs, dead>>
  BY DEF UpdateAcquire, UpdateReturns, netVars
<1>3. /\ \A m : Occurs(m, toSched') => Occurs(m, toSched) \/ m = Weights(w)
      /\ \A m : Occurs(m, toSched) => Occurs(m, toSched')
      /\ \A m : Once(m, toSched) /\ m # Weights(w) => Once(m, toSched')
      /\ Occurs(Weights(w), toSched') =>
           Occurs(Weights(w), toSched) \/ (upd'[w] = "sent" /\ UpdateAcquire(w))
      /\ Occurs(Weights(w), toSched) \/ Once(Weights(w), toSched')
      /\ toSched' \in Seq(Message)
  <2>1. CASE toSched' = toSched
    BY <1>1, <2>1 DEF NetType, Once, Occurs
  <2>2. CASE toSched' # toSched
    <3>1. toSched \in Seq(Message) /\ Weights(w) \in Message
      BY <1>1, Messages DEF NetType
    <3>2. /\ toSched' = Append(toSched, Weights(w))
          /\ upd'[w] = "sent" /\ UpdateAcquire(w)
      BY <1>1, <2>2 DEF TaskType, UpdateAcquire, UpdateReturns, netVars
    <3> QED
      BY <3>1, <3>2, Sent
  <2> QED
    BY <2>1, <2>2
<1>4. TokTypeOK'
  <2>1. FlagType'
    BY <1>1, <1>2 DEF FlagType
  <2>2. TaskType' /\ NetType' /\ SchedType'
    BY <1>1, <1>2, <1>3
    DEF TaskType, NetType, SchedType, schedVars, UpdateAcquire, UpdateReturns
  <2> QED
    BY <1>1, <1>2, <2>1, <2>2, TypeParts
<1>5. ASSUME NEW x \in Request
      PROVE  /\ TaskInv(x)' /\ SentInv(x)' /\ AnswerInv(x)' /\ WaiterInv(x)'
             /\ Unfinished(x)'
  <2>1. TaskInv(x) /\ SentInv(x) /\ AnswerInv(x) /\ WaiterInv(x) /\ Unfinished(x)
    BY DEF TokIInv
  <2>2. FinalPending(x)' <=> FinalPending(x)
    BY <1>2 DEF FinalPending
  <2>3. x # w /\ x \in Task /\ w \in Task /\ LockTypeOK
    BY LockAssumption DEF TokIInv, TokTypeOK
  <2>4. at'[x] = "in" <=> at[x] = "in"
    BY <2>3, Inside DEF UpdateAcquire, UpdateReturns
  <2>5. TaskInv(x)' /\ WaiterInv(x)' /\ Unfinished(x)'
    BY <1>2, <1>3, <2>1, <2>4, Messages, CaughtSame
    DEF TaskInv, WaiterInv, Left, Unfinished, schedVars
  <2>6. SentInv(x)' /\ AnswerInv(x)'
    BY <1>2, <1>3, <2>1, <2>2, Messages DEF SentInv, AnswerInv, Working, schedVars
  <2> QED
    BY <2>5, <2>6
<1>6. ASSUME NEW v \in Update PROVE UpdateInv(v)'
  <2>1. UpdateInv(v) /\ LockTypeOK /\ w \in Task /\ v \in Task
    BY DEF TokIInv, TokTypeOK
  <2>2. CASE v # w
    <3>1. (at'[v] = "in" <=> at[v] = "in") /\ upd'[v] = upd[v]
      BY <1>1, <2>1, <2>2, Inside DEF TaskType, UpdateAcquire, UpdateReturns
    <3> QED
      BY <1>2, <1>3, <2>1, <2>2, <3>1, Messages DEF UpdateInv
  <2>3. CASE v = w /\ UpdateAcquire(w)
    <3>1. ~Occurs(Weights(w), toSched) /\ ~Occurs(Weights(w), toTok)
      BY <2>1, <2>3 DEF UpdateInv, UpdateAcquire
    <3>2. at'[w] = "in" <=> upd'[w] \in {"sent", "answered"}
      BY <1>1, <2>3 DEF TaskType, UpdateAcquire
    <3> QED
      BY <1>2, <1>3, <2>3, <3>1, <3>2 DEF UpdateInv
  <2>4. CASE v = w /\ UpdateReturns(w)
    <3>1. at'[w] # "in" /\ upd'[w] = "over" /\ toSched' = toSched
      BY <1>1, <2>1, <2>4, Inside DEF TaskType, UpdateReturns, netVars
    <3>2. ~Occurs(Weights(w), toSched) /\ ~Occurs(Weights(w), toTok)
      BY <2>1, <2>4 DEF UpdateInv, UpdateReturns
    <3> QED
      BY <1>2, <2>4, <3>1, <3>2 DEF UpdateInv
  <2> QED
    BY <2>2, <2>3, <2>4
<1>7. UpdateSparesWaiters'
  BY <1>2 DEF TokIInv, UpdateSparesWaiters, schedVars
<1> QED
  BY <1>4, <1>5, <1>6, <1>7 DEF TokIInv

\* An output reaches the waiter of a request whose state is kept.
LEMMA OutputStep ==
  ASSUME TokIInv, LockTypeOK', LockInv', HandleBatchOutput
  PROVE  TokIInv'
<1> USE DEF Request, Update, Task
<1> DEFINE b == Head(outputs)
           Waits(x) == x \in rid_to_state /\ task[x] = "await"
<1>1. FlagType /\ TaskType /\ NetType /\ SchedType /\ dead \in BOOLEAN
  BY TypeParts DEF TokIInv
<1>2. /\ UNCHANGED <<lockVars, stream, conn, task, bg, byHand, upd, schedVars,
                     toSched, toTok, dead>>
      /\ outputs # <<>> /\ outputs' = Tail(outputs)
      /\ rid_to_state' = rid_to_state \ b.final
      /\ event' = [x \in Request |->
                     CASE x \in b.final /\ Waits(x)           -> "final"
                       [] x \in b.part \ b.final /\ Waits(x)  -> "part"
                       [] OTHER                               -> event[x]]
  BY DEF HandleBatchOutput
<1>3. \A x : (FinalPending(x)' => FinalPending(x)) /\ (x \in b.final => FinalPending(x))
  <2>1. outputs \in Seq([part : SUBSET Request, final : SUBSET Request])
    BY <1>1 DEF NetType
  <2> QED
    BY <1>2, <2>1, Outputs DEF FinalPending
<1>4. ASSUME NEW x \in Request
      PROVE  \/ event'[x] = "final" /\ x \in b.final /\ Waits(x)
             \/ event'[x] = "part" /\ x \notin b.final /\ Waits(x)
             \/ event'[x] = event[x] /\ ~(x \in b.final /\ Waits(x))
  BY <1>2
<1> HIDE DEF b
<1>5. TokTypeOK'
  <2>1. FlagType'
    BY <1>1, <1>2 DEF FlagType
  <2>2. TaskType' /\ SchedType'
    BY <1>1, <1>2, <1>4 DEF TaskType, SchedType, schedVars
  <2>3. NetType'
    BY <1>1, <1>2 DEF NetType
  <2> QED
    BY <1>1, <1>2, <2>1, <2>2, <2>3, TypeParts
<1>6. ASSUME NEW x \in Request
      PROVE  /\ TaskInv(x)' /\ SentInv(x)' /\ AnswerInv(x)' /\ WaiterInv(x)'
             /\ Unfinished(x)'
  <2>1. TaskInv(x) /\ SentInv(x) /\ AnswerInv(x) /\ WaiterInv(x) /\ Unfinished(x)
    BY DEF TokIInv
  <2>2. TaskInv(x)' /\ SentInv(x)' /\ Unfinished(x)'
    BY <1>2, <1>4, <2>1 DEF TaskInv, SentInv, Unfinished, lockVars, schedVars
  <2>3. AnswerInv(x)'
    BY <1>2, <1>3, <2>1 DEF AnswerInv, Working, schedVars
  <2>4. WaiterInv(x)'
    BY <1>2, <1>4, <2>1, CaughtSame DEF WaiterInv, Left
  <2> QED
    BY <2>2, <2>3, <2>4
<1>7. ASSUME NEW w \in Update PROVE UpdateInv(w)'
  BY <1>2 DEF TokIInv, UpdateInv, lockVars
<1>8. UpdateSparesWaiters'
  BY <1>2 DEF TokIInv, UpdateSparesWaiters, schedVars
<1> QED
  BY <1>5, <1>6, <1>7, <1>8 DEF TokIInv

\* A report from the scheduler is consumed: an aborted request's, which finds
\* its state, or an update's.
LEMMA ReportStep ==
  ASSUME TokIInv, LockTypeOK', LockInv', HandleAbortReq \/ HandleUpdateResult
  PROVE  TokIInv' /\ (HandleAbortReq => dead' = FALSE)
<1> USE DEF Request, Update, Task
<1> DEFINE m == Head(toTok)
<1>1. FlagType /\ TaskType /\ NetType /\ SchedType /\ dead \in BOOLEAN
  BY TypeParts DEF TokIInv
<1>2. /\ UNCHANGED <<lockVars, stream, conn, task, event, bg, byHand, schedVars,
                     toSched, outputs>>
      /\ toTok # <<>> /\ toTok' = Tail(toTok)
  BY DEF HandleAbortReq, HandleUpdateResult
<1>3. /\ toTok' \in Seq(Message) /\ m \in Message
      /\ Occurs(m, toTok)
      /\ \A k : Occurs(k, toTok') => Occurs(k, toTok)
      /\ \A k : Once(k, toTok) => Once(k, toTok')
      /\ Once(m, toTok) => ~Occurs(m, toTok')
  BY <1>1, <1>2, Received DEF NetType
<1>4. \/ /\ HandleAbortReq /\ m[2] \in Request /\ m = Abort(m[2])
         /\ rid_to_state' = rid_to_state \ {m[2]} /\ upd' = upd
         /\ dead' = (m[2] \notin rid_to_state)
      \/ /\ HandleUpdateResult /\ ~HandleAbortReq
         /\ m[2] \in Update /\ m = Weights(m[2])
         /\ upd' = [upd EXCEPT ![m[2]] = "answered"]
         /\ UNCHANGED <<rid_to_state, dead>>
  BY <1>3, Kinds DEF HandleAbortReq, HandleUpdateResult
<1> HIDE DEF m
<1>5. HandleAbortReq => dead' = FALSE
  <2>1. HandleAbortReq => AnswerInv(m[2]) /\ Occurs(Abort(m[2]), toTok)
    BY <1>3, <1>4 DEF TokIInv
  <2> QED
    BY <1>4, <2>1 DEF AnswerInv
<1>6. TokTypeOK'
  <2>1. FlagType'
    BY <1>1, <1>2 DEF FlagType
  <2>2. TaskType'
    BY <1>1, <1>2, <1>4 DEF TaskType
  <2>3. NetType' /\ SchedType'
    BY <1>1, <1>2, <1>3 DEF NetType, SchedType, schedVars
  <2>4. dead' \in BOOLEAN
    BY <1>1, <1>4, Zenon
  <2> QED
    BY <2>1, <2>2, <2>3, <2>4, TypeParts
<1>7. ASSUME NEW x \in Request
      PROVE  /\ TaskInv(x)' /\ SentInv(x)' /\ AnswerInv(x)' /\ WaiterInv(x)'
             /\ Unfinished(x)'
  <2>1. TaskInv(x) /\ SentInv(x) /\ AnswerInv(x) /\ WaiterInv(x) /\ Unfinished(x)
    BY DEF TokIInv
  <2>2. TaskInv(x)' /\ SentInv(x)' /\ Unfinished(x)'
    BY <1>2, <2>1 DEF TaskInv, SentInv, Unfinished, lockVars, schedVars
  <2>3. FinalPending(x)' <=> FinalPending(x)
    BY <1>2 DEF FinalPending
  <2>4. CASE x \in rid_to_state' <=> x \in rid_to_state
    BY <1>2, <1>3, <2>1, <2>3, <2>4, <2>2, CaughtSame
    DEF AnswerInv, WaiterInv, Left, Working, schedVars
  <2>5. CASE ~(x \in rid_to_state' <=> x \in rid_to_state)
    <3>1. m = Abort(x) /\ x \notin rid_to_state' /\ x \in rid_to_state
      BY <1>4, <2>5
    <3>2. /\ sched[x] = "gone" /\ ~FinalPending(x) /\ Once(Abort(x), toTok)
          /\ ~Working(x)
      BY <1>3, <2>1, <3>1 DEF AnswerInv
    <3>3. ~Occurs(Abort(x), toTok') /\ Occurs(Abort(x), toTok)
      BY <1>3, <3>1, <3>2
    <3>4. AnswerInv(x)'
      BY <1>2, <2>3, <3>2, <3>3 DEF AnswerInv, Working, schedVars
    <3>5. WaiterInv(x)'
      BY <1>2, <2>1, <3>1, <3>3, CaughtSame DEF WaiterInv, Left
    <3> QED
      BY <2>2, <3>4, <3>5
  <2> QED
    BY <2>2, <2>4, <2>5
<1>8. ASSUME NEW w \in Update PROVE UpdateInv(w)'
  <2>1. UpdateInv(w)
    BY DEF TokIInv
  <2>2. CASE upd'[w] = upd[w]
    BY <1>2, <1>3, <2>1, <2>2 DEF UpdateInv, lockVars
  <2>3. CASE upd'[w] # upd[w]
    <3>1. m = Weights(w) /\ upd'[w] = "answered"
      BY <1>1, <1>4, <2>3 DEF TaskType
    <3> QED
      BY <1>2, <1>3, <2>1, <3>1 DEF UpdateInv, lockVars
  <2> QED
    BY <2>2, <2>3
<1>9. UpdateSparesWaiters'
  BY <1>2 DEF TokIInv, UpdateSparesWaiters, schedVars
<1> QED
  BY <1>5, <1>6, <1>7, <1>8, <1>9 DEF TokIInv

\* What every handler of the scheduler's input does to send_to_scheduler.
LEMMA InputTaken ==
  ASSUME NetType, toSched # <<>>, toSched' = Tail(toSched)
  PROVE  /\ toSched' \in Seq(Message) /\ Head(toSched) \in Message
         /\ Occurs(Head(toSched), toSched)
         /\ \A k : Occurs(k, toSched') => Occurs(k, toSched)
         /\ \A k : Once(k, toSched) => Once(k, toSched')
         /\ Once(Head(toSched), toSched) => ~Occurs(Head(toSched), toSched')
BY Received DEF NetType

\* The request joins waiting_queue.
LEMMA ArriveStep ==
  ASSUME TokIInv, LockTypeOK', LockInv', HandleGenerateRequest
  PROVE  TokIInv'
<1> USE DEF Request, Update, Task
<1> DEFINE r == Head(toSched)[2]
<1>1. FlagType /\ TaskType /\ NetType /\ SchedType /\ dead \in BOOLEAN
  BY TypeParts DEF TokIInv
<1>2. /\ UNCHANGED <<lockVars, taskVars, to_abort, tokens, retracts, toTok, outputs,
                     dead>>
      /\ toSched # <<>> /\ toSched' = Tail(toSched) /\ Head(toSched)[1] = "req"
      /\ sched' = [sched EXCEPT ![r] = "queued"]
  BY DEF HandleGenerateRequest
<1>3. /\ toSched' \in Seq(Message)
      /\ Occurs(Head(toSched), toSched)
      /\ \A k : Occurs(k, toSched') => Occurs(k, toSched)
      /\ \A k : Once(k, toSched) => Once(k, toSched')
      /\ Once(Head(toSched), toSched) => ~Occurs(Head(toSched), toSched')
  BY <1>1, <1>2, InputTaken
<1>4. r \in Request /\ Head(toSched) = Req(r)
  BY <1>1, <1>2, InputTaken, Kinds
<1> HIDE DEF r
<1>5. TokTypeOK'
  <2>1. FlagType'
    BY <1>1, <1>2 DEF FlagType, taskVars
  <2>2. TaskType' /\ NetType' /\ SchedType'
    BY <1>1, <1>2, <1>3, <1>4 DEF TaskType, NetType, SchedType, taskVars
  <2> QED
    BY <1>1, <1>2, <2>1, <2>2, TypeParts
<1>6. ASSUME NEW x \in Request
      PROVE  /\ TaskInv(x)' /\ SentInv(x)' /\ AnswerInv(x)' /\ WaiterInv(x)'
             /\ Unfinished(x)'
  <2>1. TaskInv(x) /\ SentInv(x) /\ AnswerInv(x) /\ WaiterInv(x) /\ Unfinished(x)
    BY DEF TokIInv
  <2>2. FinalPending(x)' <=> FinalPending(x)
    BY <1>2 DEF FinalPending
  <2>3. TaskInv(x)' /\ WaiterInv(x)'
    BY <1>2, <1>3, <2>1, CaughtSame DEF TaskInv, WaiterInv, Left, lockVars, taskVars
  <2>4. CASE x = r
    <3>1. /\ Occurs(Req(x), toSched) /\ Once(Req(x), toSched)
          /\ sched[x] = "none" /\ sched'[x] = "queued"
      BY <1>1, <1>2, <1>3, <1>4, <2>1, <2>4 DEF SentInv, SchedType
    <3>2. ~Occurs(Req(x), toSched')
      BY <1>3, <1>4, <2>4, <3>1
    <3> QED
      BY <1>2, <2>1, <2>2, <2>3, <3>1, <3>2
      DEF SentInv, AnswerInv, Working, Unfinished, taskVars
  <2>5. CASE x # r
    <3>1. sched'[x] = sched[x]
      BY <1>1, <1>2, <2>5 DEF SchedType
    <3> QED
      BY <1>2, <1>3, <2>1, <2>2, <2>3, <3>1
      DEF SentInv, AnswerInv, Working, Unfinished, taskVars
  <2> QED
    BY <2>4, <2>5
<1>7. ASSUME NEW w \in Update PROVE UpdateInv(w)'
  BY <1>2, <1>3 DEF TokIInv, UpdateInv, lockVars, taskVars
<1>8. UpdateSparesWaiters'
  BY <1>1, <1>2, <1>4 DEF TokIInv, UpdateSparesWaiters, SchedType, taskVars
<1> QED
  BY <1>5, <1>6, <1>7, <1>8 DEF TokIInv

\* The queued requests an abort reaches are removed and reported; any other is at
\* most marked.
LEMMA SchedulerAbortStep ==
  ASSUME TokIInv, LockTypeOK', LockInv', SchedulerAbort
  PROVE  TokIInv'
<1> USE DEF Request, Update, Task
<1> DEFINE r == Head(toSched)[2]
           removed == Extending[r] \cap In("queued")
<1>1. FlagType /\ TaskType /\ NetType /\ SchedType /\ dead \in BOOLEAN
  BY TypeParts DEF TokIInv
<1>2. /\ UNCHANGED <<lockVars, taskVars, tokens, retracts, outputs, dead>>
      /\ toSched # <<>> /\ toSched' = Tail(toSched) /\ Head(toSched)[1] = "abort"
      /\ sched' = [x \in Request |-> IF x \in Extending[r] /\ sched[x] = "queued"
                                     THEN "gone" ELSE sched[x]]
      /\ to_abort' = to_abort \cup (Extending[r] \cap (In("last") \cup In("running")))
  BY DEF SchedulerAbort
<1>3. /\ toSched' \in Seq(Message)
      /\ Occurs(Head(toSched), toSched)
      /\ \A k : Occurs(k, toSched') => Occurs(k, toSched)
      /\ \A k : Once(k, toSched) => Once(k, toSched')
  BY <1>1, <1>2, InputTaken
<1>4. r \in Request /\ Head(toSched) = Abort(r)
  BY <1>1, <1>2, InputTaken, Kinds
<1>5. PICK o \in Orders(removed) : toTok' = Reporting(toTok, o)
  BY DEF SchedulerAbort
<1>6. removed \subseteq Request
  BY DEF In
<1>7. \A x \in Request : x \in removed <=> x \in Extending[r] /\ sched[x] = "queued"
  BY DEF In
<1> HIDE DEF r, removed
<1>8. /\ toTok' \in Seq(Message)
      /\ \A k : Occurs(k, toTok') => Occurs(k, toTok) \/ \E x \in removed : k = Abort(x)
      /\ \A k : Once(k, toTok) /\ (\A x \in removed : k # Abort(x)) => Once(k, toTok')
      /\ \A x \in removed : ~Occurs(Abort(x), toTok) => Once(Abort(x), toTok')
  <2>1. toTok \in Seq(Message)
    BY <1>1 DEF NetType
  <2>2. removed \in SUBSET Request
    BY <1>6
  <2> QED
    BY <1>5, <2>1, <2>2, Reported
<1>9. TokTypeOK'
  <2>1. FlagType'
    BY <1>1, <1>2 DEF FlagType, taskVars
  <2>2. TaskType' /\ NetType'
    BY <1>1, <1>2, <1>3, <1>8 DEF TaskType, NetType, taskVars
  <2>3. SchedType'
    BY <1>1, <1>2 DEF SchedType, In
  <2> QED
    BY <1>1, <1>2, <2>1, <2>2, <2>3, TypeParts
<1>10. ASSUME NEW x \in Request
       PROVE  /\ TaskInv(x)' /\ SentInv(x)' /\ AnswerInv(x)' /\ WaiterInv(x)'
              /\ Unfinished(x)'
  <2>1. TaskInv(x) /\ SentInv(x) /\ AnswerInv(x) /\ WaiterInv(x) /\ Unfinished(x)
    BY DEF TokIInv
  <2>2. FinalPending(x)' <=> FinalPending(x)
    BY <1>2 DEF FinalPending
  <2>3. TaskInv(x)'
    BY <1>2, <2>1 DEF TaskInv, lockVars, taskVars
  <2>4. x \in removed => task[x] = "over" \/ Caught(x)
    <3>1. r \in byHand \/ Left(r)
      BY <1>3, <1>4 DEF TokIInv, WaiterInv
    <3> QED
      BY <1>4, <1>7, <3>1 DEF Caught, Left
  <2>5. Occurs(Abort(x), toTok') => Occurs(Abort(x), toTok) \/ x \in removed
    BY <1>6, <1>8, Messages
  <2>6. WaiterInv(x)'
    <3>1. Caught(x) => Caught(x)'
      BY <1>2, CaughtSame DEF taskVars
    <3> QED
      BY <1>2, <1>3, <2>1, <2>4, <2>5, <3>1 DEF WaiterInv, Left, taskVars
  <2>7. CASE x \in removed
    <3>1. sched'[x] = "gone" /\ sched[x] = "queued"
      BY <1>2, <1>7, <2>7
    <3>2. /\ x \in rid_to_state /\ ~FinalPending(x) /\ ~Occurs(Abort(x), toTok)
          /\ ~Occurs(Req(x), toSched)
      BY <2>1, <3>1 DEF AnswerInv, SentInv, Working
    <3>3. ~Occurs(Req(x), toSched') /\ Once(Abort(x), toTok')
      BY <1>3, <1>8, <2>7, <3>2
    <3> QED
      BY <1>2, <2>1, <2>2, <2>3, <2>6, <3>1, <3>2, <3>3
      DEF SentInv, AnswerInv, Working, Unfinished, taskVars
  <2>8. CASE x \notin removed
    <3>1. sched'[x] = sched[x]
      BY <1>2, <1>7, <2>8
    <3>2. /\ Occurs(Abort(x), toTok') => Occurs(Abort(x), toTok)
          /\ Once(Abort(x), toTok) => Once(Abort(x), toTok')
      BY <1>6, <1>8, <2>5, <2>8, Messages
    <3> QED
      BY <1>2, <1>3, <2>1, <2>2, <2>3, <2>6, <3>1, <3>2
      DEF SentInv, AnswerInv, Working, Unfinished, taskVars
  <2> QED
    BY <2>7, <2>8
<1>11. ASSUME NEW w \in Update PROVE UpdateInv(w)'
  <2>1. \A x : Weights(w) # Abort(x)
    BY Messages
  <2> QED
    BY <1>2, <1>3, <1>8, <2>1 DEF TokIInv, UpdateInv, lockVars, taskVars
<1>12. UpdateSparesWaiters'
  BY <1>2 DEF TokIInv, UpdateSparesWaiters, taskVars
<1> QED
  BY <1>9, <1>10, <1>11, <1>12 DEF TokIInv

\* The scheduler takes up an update: its writer is inside the lock, so nobody
\* waits for the requests that flush_cache forgets.
LEMMA SchedulerUpdateStep ==
  ASSUME TokIInv, LockTypeOK', LockInv', SchedulerUpdate
  PROVE  TokIInv'
<1> USE DEF Request, Update, Task
<1> DEFINE w == Head(toSched)[2]
<1>1. FlagType /\ TaskType /\ NetType /\ SchedType /\ dead \in BOOLEAN
  BY TypeParts DEF TokIInv
<1>2. /\ UNCHANGED <<lockVars, taskVars, to_abort, tokens, retracts, outputs>>
      /\ toSched # <<>> /\ toSched' = Tail(toSched) /\ Head(toSched)[1] = "weights"
      /\ toTok' = toTok \/ toTok' = Append(toTok, Head(toSched))
      /\ sched' \in [Request -> {"none", "queued", "last", "running", "finished",
                                 "gone", "dropped"}]
      /\ \A x \in Request :
           sched'[x] = sched[x] \/ (sched[x] = "last" /\ sched'[x] = "dropped")
  BY <1>1 DEF SchedulerUpdate, SchedType
<1>3. /\ toSched' \in Seq(Message)
      /\ Occurs(Head(toSched), toSched)
      /\ \A k : Occurs(k, toSched') => Occurs(k, toSched)
      /\ \A k : Once(k, toSched) => Once(k, toSched')
      /\ Once(Head(toSched), toSched) => ~Occurs(Head(toSched), toSched')
  BY <1>1, <1>2, InputTaken
<1>4. w \in Update /\ Head(toSched) = Weights(w)
  BY <1>1, <1>2, InputTaken, Kinds
<1> HIDE DEF w
<1>5. /\ toTok' \in Seq(Message)
      /\ \A k : Occurs(k, toTok') => Occurs(k, toTok) \/ k = Weights(w)
      /\ \A k : Once(k, toTok) /\ k # Weights(w) => Once(k, toTok')
      /\ ~Occurs(Weights(w), toTok) => Once(Weights(w), toTok')
  <2>1. toTok \in Seq(Message) /\ Weights(w) \in Message
    BY <1>1, <1>4, Messages DEF NetType
  <2>2. CASE toTok' = Append(toTok, Weights(w))
    BY <2>1, <2>2, Sent
  <2>3. CASE toTok' = toTok
    BY <2>1, <2>3 DEF Once, Occurs
  <2> QED
    BY <1>2, <1>4, <2>2, <2>3
<1>6. TokTypeOK'
  <2>1. FlagType'
    BY <1>1, <1>2 DEF FlagType, taskVars
  <2>2. TaskType' /\ NetType' /\ SchedType'
    BY <1>1, <1>2, <1>3, <1>5 DEF TaskType, NetType, SchedType, taskVars
  <2>3. dead' \in BOOLEAN
    BY Zenon DEF SchedulerUpdate
  <2> QED
    BY <2>1, <2>2, <2>3, TypeParts
<1>7. /\ Occurs(Weights(w), toSched) /\ Once(Weights(w), toSched)
      /\ upd[w] = "sent" /\ at[w] = "in" /\ ~Occurs(Weights(w), toTok)
  BY <1>3, <1>4 DEF TokIInv, UpdateInv
<1>8. ASSUME NEW x \in Request, sched[x] = "last"
      PROVE  task[x] = "over"
  <2>1. x # w /\ x \in Task /\ w \in Writer
    BY <1>4, LockAssumption
  <2>2. at[x] # "in"
    BY <1>7, <2>1 DEF TokIInv, LockInv
  <2> QED
    BY <1>8, <2>2 DEF TokIInv, TaskInv, SentInv
<1>9. ASSUME NEW x \in Request
      PROVE  /\ TaskInv(x)' /\ SentInv(x)' /\ AnswerInv(x)' /\ WaiterInv(x)'
             /\ Unfinished(x)'
  <2>1. TaskInv(x) /\ SentInv(x) /\ AnswerInv(x) /\ WaiterInv(x) /\ Unfinished(x)
    BY DEF TokIInv
  <2>2. FinalPending(x)' <=> FinalPending(x)
    BY <1>2 DEF FinalPending
  <2>3. TaskInv(x)' /\ WaiterInv(x)'
    BY <1>2, <1>3, <1>5, <2>1, Messages, CaughtSame
    DEF TaskInv, WaiterInv, Left, lockVars, taskVars
  <2>4. /\ Occurs(Abort(x), toTok') => Occurs(Abort(x), toTok)
        /\ Once(Abort(x), toTok) => Once(Abort(x), toTok')
    BY <1>5, Messages
  <2>5. SentInv(x)' /\ AnswerInv(x)' /\ Unfinished(x)'
    BY <1>2, <1>3, <2>1, <2>2, <2>4 DEF SentInv, AnswerInv, Working, Unfinished, taskVars
  <2> QED
    BY <2>3, <2>5
<1>10. ASSUME NEW v \in Update PROVE UpdateInv(v)'
  <2>1. UpdateInv(v) /\ upd' = upd /\ at' = at
    BY <1>2 DEF TokIInv, lockVars, taskVars
  <2>2. CASE v = w
    <3>1. ~Occurs(Weights(v), toSched') /\ Once(Weights(v), toTok')
      BY <1>3, <1>4, <1>5, <1>7, <2>2
    <3> QED
      BY <1>7, <2>1, <2>2, <3>1 DEF UpdateInv
  <2>3. CASE v # w
    BY <1>3, <1>5, <2>1, <2>3, Messages DEF UpdateInv
  <2> QED
    BY <2>2, <2>3
<1>11. UpdateSparesWaiters'
  BY <1>2, <1>8 DEF TokIInv, UpdateSparesWaiters, taskVars
<1> QED
  BY <1>6, <1>9, <1>10, <1>11 DEF TokIInv

\* What a batch that finishes the given requests does: they were unfinished and are
\* announced, and the others stay where they are or move between the queues.
BatchEffect(finished) ==
    /\ \A x \in finished :
          sched[x] \in {"queued", "last", "running"} /\ sched'[x] \in {"finished", "gone"}
    /\ \A x \in Request \ finished :
          \/ sched'[x] = sched[x]
          \/ /\ sched[x] \in {"queued", "last", "running"}
             /\ sched'[x] \in {"queued", "last", "running"}
          \/ sched[x] = "finished" /\ sched'[x] = "gone"
    /\ \A x \in Request : FinalPending(x)' => FinalPending(x) \/ x \in finished
    /\ outputs' \in Seq([part : SUBSET Request, final : SUBSET Request])
    /\ SchedType'
    /\ \A x \in Request : Unfinished(x)'

\* stream_output announces the end of finished requests only.
LEMMA Streamed ==
  ASSUME NetType, NEW finished \in SUBSET Request, NEW others \in SUBSET Request,
         StreamOutput(finished, others)
  PROVE  /\ \A x \in Request : FinalPending(x)' => FinalPending(x) \/ x \in finished
         /\ outputs' \in Seq([part : SUBSET Request, final : SUBSET Request])
<1>1. outputs \in Seq([part : SUBSET Request, final : SUBSET Request])
  BY DEF NetType
<1>2. PICK p \in SUBSET others :
        outputs' = IF finished \cup p = {} THEN outputs
                   ELSE Append(outputs, [part |-> p, final |-> finished])
  BY DEF StreamOutput
<1>3. CASE outputs' = outputs
  BY <1>1, <1>3 DEF FinalPending
<1>4. CASE outputs' = Append(outputs, [part |-> p, final |-> finished])
  <2>1. [part |-> p, final |-> finished] \in [part : SUBSET Request, final : SUBSET Request]
    OBVIOUS
  <2> QED
    BY <1>1, <1>4, <2>1, Outputs DEF FinalPending
<1> QED
  BY <1>2, <1>3, <1>4

\* A prefill step has the effect of a batch.
LEMMA PrefillEffect ==
  ASSUME TokIInv, Prefill
  PROVE  \E finished \in SUBSET Request : BatchEffect(finished)
<1> USE DEF Request
<1>1. NetType /\ SchedType /\ \A x \in Request : Unfinished(x)
  BY TypeParts DEF TokIInv
<1>2. PICK admitted \in SUBSET In("queued"), finished \in SUBSET Request :
        /\ finished \subseteq admitted
        /\ admitted \cap MustFinish \subseteq finished
        /\ sched' = [r \in Request |->
                       CASE r \in finished             -> "gone"
                         [] r \in admitted \ finished  -> "last"
                         [] sched[r] = "last"          -> "running"
                         [] OTHER                      -> sched[r]]
        /\ tokens' = [r \in Request |-> tokens[r] + IF r \in admitted THEN 1 ELSE 0]
        /\ StreamOutput(finished, admitted \ finished)
        /\ UNCHANGED <<to_abort, retracts>>
  BY DEF Prefill, In
<1>3. admitted \subseteq Request /\ \A x \in admitted : sched[x] = "queued"
  BY DEF In
<1>4. ASSUME NEW x \in Request
      PROVE  /\ x \in finished => sched'[x] = "gone"
             /\ x \in admitted \ finished => sched'[x] = "last"
             /\ x \notin admitted =>
                  sched'[x] = IF sched[x] = "last" THEN "running" ELSE sched[x]
  BY <1>2, <1>3
<1>5. sched' \in [Request -> {"none", "queued", "last", "running", "finished",
                              "gone", "dropped"}]
  <2>1. sched' = [r \in Request |-> sched'[r]]
    BY <1>2
  <2>2. \A x \in Request : sched'[x] \in {"none", "queued", "last", "running",
                                          "finished", "gone", "dropped"}
    BY <1>1, <1>3, <1>4 DEF SchedType
  <2> QED
    BY <2>1, <2>2
<1>6. ASSUME NEW x \in Request
      PROVE  tokens'[x] \in 0 .. MaxTokens /\ Unfinished(x)'
  <2>1. /\ tokens[x] \in 0 .. MaxTokens /\ Unfinished(x)
        /\ tokens'[x] = tokens[x] + IF x \in admitted THEN 1 ELSE 0
    BY <1>1, <1>2 DEF SchedType
  <2>2. CASE x \in admitted
    <3>1. tokens[x] < MaxTokens /\ tokens'[x] = tokens[x] + 1
      BY <1>3, <2>1, <2>2 DEF Unfinished
    <3>2. x \notin finished => tokens[x] + 1 # MaxTokens
      BY <1>2, <2>2 DEF MustFinish
    <3> QED
      BY <1>4, <2>1, <3>1, <3>2, TokenizerAssumption DEF Unfinished
  <2>3. CASE x \notin admitted
    BY <1>1, <1>4, <2>1, <2>3, TokenizerAssumption DEF Unfinished, SchedType
  <2> QED
    BY <2>2, <2>3
<1>7. SchedType'
  BY <1>1, <1>2, <1>5, <1>6 DEF SchedType
<1>8. /\ \A x \in Request : FinalPending(x)' => FinalPending(x) \/ x \in finished
      /\ outputs' \in Seq([part : SUBSET Request, final : SUBSET Request])
  BY <1>1, <1>2, <1>3, Streamed
<1>9. BatchEffect(finished)
  BY <1>2, <1>3, <1>4, <1>6, <1>7, <1>8 DEF BatchEffect
<1> QED
  BY <1>3, <1>9

\* A decode step has the effect of a batch.
LEMMA DecodeEffect ==
  ASSUME TokIInv, Decode
  PROVE  \E finished \in SUBSET Request : BatchEffect(finished)
<1> USE DEF Request
<1> DEFINE merged == In("last") \cup In("running")
<1>1. NetType /\ SchedType /\ \A x \in Request : Unfinished(x)
  BY TypeParts DEF TokIInv
<1>2. PICK retracted \in SUBSET merged, finished \in SUBSET merged :
        /\ finished \subseteq merged \ retracted
        /\ (merged \ retracted) \cap MustFinish \subseteq finished
        /\ retracts' = retracts + Cardinality(retracted)
        /\ retracts' <= MaxRetracts
        /\ sched' = [r \in Request |->
                       CASE r \in retracted                         -> "queued"
                         [] r \in finished                          -> "finished"
                         [] r \in merged \ (retracted \cup finished) -> "running"
                         [] sched[r] = "finished"                   -> "gone"
                         [] OTHER                                   -> sched[r]]
        /\ tokens' = [r \in Request |->
                        tokens[r] + IF r \in merged \ retracted THEN 1 ELSE 0]
        /\ StreamOutput(finished, merged \ (retracted \cup finished))
        /\ to_abort' = to_abort
  BY DEF Decode
<1>3. merged \subseteq Request /\ \A x \in Request : x \in merged <=> sched[x] \in {"last", "running"}
  BY DEF In
<1> HIDE DEF merged
<1>4. ASSUME NEW x \in Request
      PROVE  /\ x \in retracted => sched'[x] = "queued"
             /\ x \in finished => sched'[x] = "finished"
             /\ x \in merged \ (retracted \cup finished) => sched'[x] = "running"
             /\ x \notin merged =>
                  sched'[x] = IF sched[x] = "finished" THEN "gone" ELSE sched[x]
  BY <1>2, <1>3
<1>5. sched' \in [Request -> {"none", "queued", "last", "running", "finished",
                              "gone", "dropped"}]
  <2>1. sched' = [r \in Request |-> sched'[r]]
    BY <1>2
  <2>2. \A x \in Request : sched'[x] \in {"none", "queued", "last", "running",
                                          "finished", "gone", "dropped"}
    BY <1>1, <1>3, <1>4 DEF SchedType
  <2> QED
    BY <2>1, <2>2
<1>6. ASSUME NEW x \in Request
      PROVE  tokens'[x] \in 0 .. MaxTokens /\ Unfinished(x)'
  <2>1. /\ tokens[x] \in 0 .. MaxTokens /\ Unfinished(x)
        /\ tokens'[x] = tokens[x] + IF x \in merged \ retracted THEN 1 ELSE 0
    BY <1>1, <1>2 DEF SchedType
  <2>2. CASE x \in merged \ retracted
    <3>1. tokens[x] < MaxTokens /\ tokens'[x] = tokens[x] + 1
      BY <1>3, <2>1, <2>2 DEF Unfinished
    <3>2. x \notin finished => tokens[x] + 1 # MaxTokens
      BY <1>2, <2>2 DEF MustFinish
    <3> QED
      BY <1>4, <2>1, <2>2, <3>1, <3>2, TokenizerAssumption DEF Unfinished
  <2>3. CASE x \notin merged \ retracted
    BY <1>1, <1>2, <1>3, <1>4, <2>1, <2>3, TokenizerAssumption DEF Unfinished, SchedType
  <2> QED
    BY <2>2, <2>3
<1>7. SchedType'
  <2>1. IsFiniteSet(retracted)
    BY <1>2, <1>3, LockAssumption, FS_Subset
  <2>2. Cardinality(retracted) \in Nat
    BY <2>1, FS_CardinalityType
  <2> QED
    BY <1>1, <1>2, <1>5, <1>6, <2>2, TokenizerAssumption DEF SchedType
<1>8. /\ \A x \in Request : FinalPending(x)' => FinalPending(x) \/ x \in finished
      /\ outputs' \in Seq([part : SUBSET Request, final : SUBSET Request])
  BY <1>1, <1>2, <1>3, Streamed
<1>9. BatchEffect(finished)
  BY <1>2, <1>3, <1>4, <1>6, <1>7, <1>8 DEF BatchEffect
<1> QED
  BY <1>2, <1>3, <1>9

\* A batch answers a request at most once.
LEMMA BatchStep ==
  ASSUME TokIInv, LockTypeOK', LockInv', Prefill \/ Decode
  PROVE  TokIInv'
<1> USE DEF Request, Update, Task
<1>1. FlagType /\ TaskType /\ NetType /\ SchedType /\ dead \in BOOLEAN
  BY TypeParts DEF TokIInv
<1>2. UNCHANGED <<lockVars, taskVars, to_abort, toSched, toTok, dead>>
  BY DEF Prefill, Decode
<1>3. PICK finished \in SUBSET Request : BatchEffect(finished)
  BY PrefillEffect, DecodeEffect
<1>4. /\ \A x \in Request : FinalPending(x)' => FinalPending(x) \/ x \in finished
      /\ outputs' \in Seq([part : SUBSET Request, final : SUBSET Request])
      /\ SchedType'
      /\ \A x \in Request : Unfinished(x)'
      /\ \A x \in Request :
           IF x \in finished
           THEN /\ sched[x] \in {"queued", "last", "running"}
                /\ sched'[x] \in {"finished", "gone"}
           ELSE \/ sched'[x] = sched[x]
                \/ /\ sched[x] \in {"queued", "last", "running"}
                   /\ sched'[x] \in {"queued", "last", "running"}
                \/ (sched[x] = "finished" /\ sched'[x] = "gone")
  BY <1>3 DEF BatchEffect
<1>5. TokTypeOK'
  <2>1. FlagType'
    BY <1>1, <1>2 DEF FlagType, taskVars
  <2>2. TaskType' /\ NetType'
    BY <1>1, <1>2, <1>4 DEF TaskType, NetType, taskVars
  <2> QED
    BY <1>1, <1>2, <1>4, <2>1, <2>2, TypeParts
<1>6. ASSUME NEW x \in Request
      PROVE  /\ TaskInv(x)' /\ SentInv(x)' /\ AnswerInv(x)' /\ WaiterInv(x)'
             /\ Unfinished(x)'
  <2>1. TaskInv(x) /\ SentInv(x) /\ AnswerInv(x) /\ WaiterInv(x) /\ Unfinished(x)
    BY DEF TokIInv
  <2>2. TaskInv(x)' /\ WaiterInv(x)'
    BY <1>2, <2>1, CaughtSame DEF TaskInv, WaiterInv, Left, lockVars, taskVars
  <2>3. SentInv(x)'
    BY <1>2, <1>4, <2>1 DEF SentInv, taskVars
  <2>4. AnswerInv(x)'
    BY <1>2, <1>4, <2>1 DEF AnswerInv, SentInv, Working, taskVars
  <2> QED
    BY <1>4, <2>2, <2>3, <2>4
<1>7. ASSUME NEW w \in Update PROVE UpdateInv(w)'
  BY <1>2 DEF TokIInv, UpdateInv, lockVars, taskVars
<1>8. UpdateSparesWaiters'
  BY <1>2, <1>4 DEF TokIInv, UpdateSparesWaiters, taskVars
<1> QED
  BY <1>5, <1>6, <1>7, <1>8 DEF TokIInv

\* The invariant is inductive.
LEMMA TokStep == TokIInv /\ [Next]_vars => TokIInv'
<1> SUFFICES ASSUME TokIInv, [Next]_vars PROVE TokIInv'
  OBVIOUS
<1>1. LockTypeOK' /\ LockInv'
  BY LockKept
<1>2. CASE UNCHANGED vars
  <2>1. TokTypeOK'
    BY <1>2 DEF TokIInv, TokTypeOK, vars, lockVars, taskVars, schedVars, netVars, LockTypeOK
  <2>2. \A x \in Request : TaskInv(x)' /\ SentInv(x)' /\ AnswerInv(x)' /\ WaiterInv(x)'
                           /\ Unfinished(x)'
    BY <1>2 DEF TokIInv, TaskInv, SentInv, AnswerInv, WaiterInv, Left, Caught,
                Unfinished, Working, FinalPending, vars, lockVars, taskVars, schedVars, netVars
  <2>3. (\A w \in Update : UpdateInv(w)') /\ UpdateSparesWaiters'
    BY <1>2 DEF TokIInv, UpdateInv, UpdateSparesWaiters, vars, lockVars, taskVars,
                schedVars, netVars
  <2> QED
    BY <1>1, <2>1, <2>2, <2>3 DEF TokIInv
<1>3. CASE Next
  BY <1>1, <1>3, TaskStep, SendStep, AbortStep, UpdateStep, OutputStep, ReportStep,
     ArriveStep, SchedulerAbortStep, SchedulerUpdateStep, BatchStep
  DEF Next, Waiter, HandleLoop, ProcessInput, RunBatch
<1> QED
  BY <1>2, <1>3

\* The invariant holds in every reachable state.
LEMMA TokInvariant == Spec => []TokIInv
BY TokInitOK, TokStep, PTL DEF Spec

\* The types of the whole request path, the token counts within their limit: no
\* retraction, abort or update makes a request produce a token too many.
THEOREM TokenizerTypeCorrect == Spec => []TokTypeOK
<1>1. TokIInv => TokTypeOK
  BY DEF TokIInv
<1> QED
  BY <1>1, TokInvariant, PTL

\* However a request is aborted, by the timeout, the background task or by hand, and
\* even after a retraction, its AbortReq finds its state (_handle_abort_req's pop):
\* for any number of clients and any interleaving of the two processes.
THEOREM AbortsFindState == Spec => []AbortFindsState
<1>1. TokIInv => AbortFindsState
  BY DEF TokIInv, AnswerInv, AbortFindsState
<1> QED
  BY <1>1, TokInvariant, PTL

\* The handler of an AbortReq never kills the server (print_exception_wrapper).
THEOREM AbortNeverKills == Spec => [][HandleAbortReq => dead' = FALSE]_vars
<1>1. TokIInv /\ [Next]_vars => [HandleAbortReq => dead' = FALSE]_vars
  <2> SUFFICES ASSUME TokIInv, [Next]_vars, HandleAbortReq PROVE dead' = FALSE
    OBVIOUS
  <2> QED
    BY LockKept, ReportStep
<1> QED
  BY <1>1, TokInvariant, PTL DEF Spec

\* A waiter is left behind only by an abort from elsewhere: by hand of its rid or of
\* a prefix of it, or because another client left whose rid is a prefix of it.  The
\* aborts of its own _wait_one_response and create_abort_task come after the response;
\* for any number of clients and any rids.
THEOREM OnlyOthersStrand == Spec => []StrandedOnlyByOthers
<1>1. TokIInv => StrandedOnlyByOthers
  BY DEF TokIInv, WaiterInv, Stranded, StrandedOnlyByOthers
<1> QED
  BY <1>1, TokInvariant, PTL

\* The flush after a weight update forgets only requests nobody waits for, since the
\* update's message is in flight only while its writer excludes every reader.
THEOREM UpdatesSpareWaiters == Spec => []UpdateSparesWaiters
<1>1. TokIInv => UpdateSparesWaiters
  BY DEF TokIInv
<1> QED
  BY <1>1, TokInvariant, PTL
=============================================================================
