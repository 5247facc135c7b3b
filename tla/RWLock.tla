------------------------------- MODULE RWLock -------------------------------
(***************************************************************************)
(* aio_rwlock.RWLock: the readers-writer lock of one event loop that keeps *)
(* weight updates (writers) apart from generation requests (readers).      *)
(*                                                                         *)
(* The loop is single-threaded and _lock is given up only inside           *)
(* _cond.wait(), so everything a call does up to a wait, and everything a  *)
(* woken waiter does until it waits again or returns, is one step.         *)
(* notify_all only makes waiters runnable: they test again later, in any   *)
(* order, and a new call may get in before them.                           *)
(***************************************************************************)
EXTENDS Naturals, FiniteSets

CONSTANTS Reader,   \* the tasks that take reader_lock
          Writer    \* the tasks that take writer_lock

ASSUME LockAssumption ==
    /\ IsFiniteSet(Reader) /\ IsFiniteSet(Writer)
    /\ Reader \cap Writer = {}

VARIABLES readers,          \* _readers
          writer_active,    \* _writer_active
          waiting_writers,  \* _waiting_writers
          at                \* where each task is: "out" of the lock, in
                            \* cond.wait ("waits"), notified but not run yet
                            \* ("woken"), or "in"

lockVars == <<readers, writer_active, waiting_writers, at>>

Task == Reader \cup Writer

LockTypeOK ==
    /\ readers \in Nat
    /\ waiting_writers \in Nat
    /\ writer_active \in BOOLEAN
    /\ at \in [Task -> {"out", "waits", "woken", "in"}]

LockInit ==
    /\ readers = 0
    /\ writer_active = FALSE
    /\ waiting_writers = 0
    /\ at = [t \in Task |-> "out"]

\* a, with every waiter notified if c holds.
Notified(a, c) == [t \in Task |-> IF c /\ a[t] = "waits" THEN "woken" ELSE a[t]]

ReaderBlocked == writer_active \/ waiting_writers > 0
\* A mutant: a writer does not wait for the readers.
Mut_WriterBlocked == writer_active

WriterBlocked == writer_active \/ readers > 0

\* acquire_reader up to its first wait, or from one wait to the next: a new
\* call is "out", a notified one "woken".
AcquireReader(t) ==
    /\ at[t] \in {"out", "woken"}
    /\ \/ /\ ReaderBlocked
          /\ at' = [at EXCEPT ![t] = "waits"]
          /\ UNCHANGED readers
       \/ /\ ~ReaderBlocked
          /\ at' = [at EXCEPT ![t] = "in"]
          /\ readers' = readers + 1
    /\ UNCHANGED <<writer_active, waiting_writers>>

ReleaseReader(t) ==
    /\ at[t] = "in"
    /\ readers' = readers - 1
    /\ at' = Notified([at EXCEPT ![t] = "out"], readers' = 0)
    /\ UNCHANGED <<writer_active, waiting_writers>>

\* The task is cancelled in its wait: the wait raises and nothing was counted.
CancelReader(t) ==
    /\ at[t] \in {"waits", "woken"}
    /\ at' = [at EXCEPT ![t] = "out"]
    /\ UNCHANGED <<readers, writer_active, waiting_writers>>

\* The call counts itself as waiting, and no longer once it is in.
AcquireWriter(t) ==
    /\ at[t] \in {"out", "woken"}
    /\ LET counted == waiting_writers + (IF at[t] = "out" THEN 1 ELSE 0)
       IN  \/ /\ WriterBlocked
              /\ at' = [at EXCEPT ![t] = "waits"]
              /\ waiting_writers' = counted
              /\ UNCHANGED writer_active
           \/ /\ ~WriterBlocked
              /\ at' = [at EXCEPT ![t] = "in"]
              /\ waiting_writers' = counted - 1
              /\ writer_active' = TRUE
    /\ UNCHANGED readers

\* A mutant: the writer wakes nobody.
Mut_ReleaseWriter(t) ==
    /\ at[t] = "in"
    /\ writer_active' = FALSE
    /\ at' = [at EXCEPT ![t] = "out"]
    /\ UNCHANGED <<readers, waiting_writers>>

ReleaseWriter(t) ==
    /\ at[t] = "in"
    /\ writer_active' = FALSE
    /\ at' = Notified([at EXCEPT ![t] = "out"], TRUE)
    /\ UNCHANGED <<readers, waiting_writers>>

\* The finally clause of a cancelled acquire_writer: the count goes down and
\* nobody is notified.
CancelWriter(t) ==
    /\ at[t] \in {"waits", "woken"}
    /\ at' = [at EXCEPT ![t] = "out"]
    /\ waiting_writers' = waiting_writers - 1
    /\ UNCHANGED <<readers, writer_active>>

LockNext ==
    \/ \E t \in Reader : AcquireReader(t) \/ ReleaseReader(t) \/ CancelReader(t)
    \/ \E t \in Writer : AcquireWriter(t) \/ ReleaseWriter(t) \/ CancelWriter(t)

LockSpec == LockInit /\ [][LockNext]_lockVars
-----------------------------------------------------------------------------
Holders == {t \in Reader : at[t] = "in"}
Waiting == {t \in Writer : at[t] \in {"waits", "woken"}}

\* The lock's counters count: _readers are the tasks inside reader_lock and
\* _waiting_writers the writers queued, and a writer inside excludes everyone
\* else, whatever is cancelled or raises between acquire and release.
LockInv ==
    /\ readers = Cardinality(Holders)
    /\ waiting_writers = Cardinality(Waiting)
    /\ \A w \in Writer : at[w] = "in" =>
          writer_active /\ \A t \in Task \ {w} : at[t] # "in"
    /\ writer_active => \E w \in Writer : at[w] = "in"
=============================================================================
