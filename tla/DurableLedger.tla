--------------------------- MODULE DurableLedger ----------------------------
(***************************************************************************)
(* The disk-backed DurableLedger of mem_cache/safekv_policy.py: replicas   *)
(* (worker processes) that share one ledger file.                          *)
(*                                                                         *)
(* Every method holds the replica's RLock from entry to exit, so a replica *)
(* runs one method at a time and pc[r] names the point it has reached; the *)
(* advisory file lock (flock on path + ".lock") is taken inside it.  A     *)
(* missing key of the store, and a missing file, count 0.  The temporary   *)
(* file of _save_locked is never read back, so it is not a variable: a     *)
(* save is the interval between "*_save" and the os.replace.               *)
(***************************************************************************)
EXTENDS Naturals

CONSTANTS Replica,         \* processes sharing the ledger path
          NoReplica,       \* nobody holds the file lock
          Fingerprint,     \* ledger keys
          B,               \* access_budget_B
          MaxCrashes,      \* bound on process crashes
          MaxCorruptions,  \* bound on external damage to the file
          MaxResets        \* bound on calls of reset()

ASSUME LedgerAssumption ==
    /\ NoReplica \notin Replica
    /\ Fingerprint # {}
    /\ B \in Nat \ {0}     \* reserve_hit raises ValueError for budget <= 0
    /\ MaxCrashes \in Nat
    /\ MaxCorruptions \in Nat
    /\ MaxResets \in Nat

VARIABLES
    pc,          \* pc[r]: where the method running in replica r is
    arg,         \* arg[r]: the fingerprint r's reservation is about
    store,       \* store[r]: self._store
    available,   \* available[r]: self._available
    ready,       \* ready[r]: self._ready
    flock,       \* the replica holding the file lock
    disk,        \* the counters in the ledger file
    diskOk,      \* the ledger file parses
    charged,     \* history: charges that reached the file in this epoch
    served,      \* history: reservations returned as accepted in this epoch
    crashes, corruptions, resets  \* how much of each bound is used

procVars == <<pc, arg, store, available, ready>>
diskVars == <<disk, diskOk>>
histVars == <<charged, served>>
boundVars == <<crashes, corruptions, resets>>
vars == <<pc, arg, store, available, ready, flock, disk, diskOk, charged,
          served, crashes, corruptions, resets>>

Saving == {"reserve_save", "flush_save", "reset_save"}
Waiting == {"reserve_wait", "flush_wait", "reset_wait"}
PC == {"down", "idle", "reserve_return"} \cup Saving \cup Waiting

Counters == [Fingerprint -> Nat]
Empty == [f \in Fingerprint |-> 0]

TypeOK ==
    /\ pc \in [Replica -> PC]
    /\ arg \in [Replica -> Fingerprint]
    /\ store \in [Replica -> Counters]
    /\ available \in [Replica -> BOOLEAN]
    /\ ready \in [Replica -> BOOLEAN]
    /\ flock \in Replica \cup {NoReplica}
    /\ disk \in Counters
    /\ diskOk \in BOOLEAN
    /\ charged \in Counters
    /\ served \in Counters
    /\ crashes \in Nat
    /\ corruptions \in Nat
    /\ resets \in Nat

Init ==
    /\ pc = [r \in Replica |-> "down"]
    /\ arg \in [Replica -> {CHOOSE f \in Fingerprint : TRUE}]
    /\ store = [r \in Replica |-> Empty]
    /\ available = [r \in Replica |-> TRUE]
    /\ ready = [r \in Replica |-> TRUE]
    /\ flock = NoReplica
    /\ disk = Empty
    /\ diskOk = TRUE
    /\ charged = Empty
    /\ served = Empty
    /\ crashes = 0
    /\ corruptions = 0
    /\ resets = 0

-----------------------------------------------------------------------------
\* __init__ and _load: the file is read without the file lock; a file that
\* does not parse leaves the store empty and the ledger not ready.
Start(r) ==
    /\ pc[r] = "down"
    /\ pc' = [pc EXCEPT ![r] = "idle"]
    /\ store' = [store EXCEPT ![r] = IF diskOk THEN disk ELSE Empty]
    /\ available' = [available EXCEPT ![r] = TRUE]
    /\ ready' = [ready EXCEPT ![r] = diskOk]
    /\ UNCHANGED <<arg, flock, diskVars, histVars, boundVars>>

\* The process dies at any point; the kernel drops its file lock.
Crash(r) ==
    /\ pc[r] # "down"
    /\ crashes < MaxCrashes
    /\ crashes' = crashes + 1
    /\ pc' = [pc EXCEPT ![r] = "down"]
    /\ store' = [store EXCEPT ![r] = Empty]
    /\ flock' = IF flock = r THEN NoReplica ELSE flock
    /\ UNCHANGED <<arg, available, ready, diskVars, histVars, corruptions,
                   resets>>

\* Damage to the file from outside (the case _load and _reload_locked catch).
Corrupt ==
    /\ diskOk
    /\ corruptions < MaxCorruptions
    /\ corruptions' = corruptions + 1
    /\ diskOk' = FALSE
    /\ UNCHANGED <<procVars, flock, disk, histVars, crashes, resets>>

\* set_available: health handling.
SetAvailable(r, b) ==
    /\ pc[r] = "idle"
    /\ available[r] # b
    /\ available' = [available EXCEPT ![r] = b]
    /\ UNCHANGED <<pc, arg, store, ready, flock, diskVars, histVars, boundVars>>

IsOperational(r) == available[r] /\ ready[r]

-----------------------------------------------------------------------------
\* _process_lock, taken by a replica waiting in pc "*_wait".
Lock(r) ==
    /\ flock = NoReplica
    /\ flock' = r

Unlock(r) == flock' = NoReplica

\* reserve_hit up to the file lock; a ledger that is not operational rejects.
ReserveBegin(r, f) ==
    /\ pc[r] = "idle"
    /\ IsOperational(r)
    /\ pc' = [pc EXCEPT ![r] = "reserve_wait"]
    /\ arg' = [arg EXCEPT ![r] = f]
    /\ UNCHANGED <<store, available, ready, flock, diskVars, histVars,
                   boundVars>>

\* Mutant: the budget test lets one hit too many through.
Mut_BudgetOffByOne(r) ==
    /\ pc[r] = "reserve_wait"
    /\ diskOk
    /\ disk[arg[r]] <= B
    /\ Lock(r)
    /\ store' = [store EXCEPT ![r] = [disk EXCEPT ![arg[r]] = @ + 1]]
    /\ ready' = [ready EXCEPT ![r] = TRUE]
    /\ pc' = [pc EXCEPT ![r] = "reserve_save"]
    /\ UNCHANGED <<arg, available, diskVars, histVars, boundVars>>

\* Mutant: the reservation trusts its own store instead of reloading the file.
Mut_NoReload(r) ==
    /\ pc[r] = "reserve_wait"
    /\ store[r][arg[r]] < B
    /\ Lock(r)
    /\ store' = [store EXCEPT ![r][arg[r]] = @ + 1]
    /\ pc' = [pc EXCEPT ![r] = "reserve_save"]
    /\ UNCHANGED <<arg, available, ready, diskVars, histVars, boundVars>>

\* Mutant: the file is rewritten in place, not through a temporary file.
Mut_WriteInPlace(r) ==
    /\ pc[r] = "reserve_wait"
    /\ diskOk
    /\ disk[arg[r]] < B
    /\ Lock(r)
    /\ store' = [store EXCEPT ![r] = [disk EXCEPT ![arg[r]] = @ + 1]]
    /\ ready' = [ready EXCEPT ![r] = TRUE]
    /\ pc' = [pc EXCEPT ![r] = "reserve_save"]
    /\ diskOk' = FALSE
    /\ UNCHANGED <<arg, available, disk, histVars, boundVars>>

\* Under the file lock: _reload_locked, the budget test, the increment.
ReserveReload(r) ==
    /\ pc[r] = "reserve_wait"
    /\ diskOk
    /\ disk[arg[r]] < B
    /\ Lock(r)
    /\ store' = [store EXCEPT ![r] = [disk EXCEPT ![arg[r]] = @ + 1]]
    /\ ready' = [ready EXCEPT ![r] = TRUE]
    /\ pc' = [pc EXCEPT ![r] = "reserve_save"]
    /\ UNCHANGED <<arg, available, diskVars, histVars, boundVars>>

\* The reload finds the budget used up ("exhausted").
ReserveExhausted(r) ==
    /\ pc[r] = "reserve_wait"
    /\ flock = NoReplica
    /\ diskOk
    /\ disk[arg[r]] >= B
    /\ store' = [store EXCEPT ![r] = disk]
    /\ ready' = [ready EXCEPT ![r] = TRUE]
    /\ pc' = [pc EXCEPT ![r] = "idle"]
    /\ UNCHANGED <<arg, available, flock, diskVars, histVars, boundVars>>

\* Mutant: an unreadable file is taken for an empty ledger.
Mut_FailOpen(r) ==
    /\ pc[r] = "reserve_wait"
    /\ ~diskOk
    /\ Lock(r)
    /\ store' = [store EXCEPT ![r] = [Empty EXCEPT ![arg[r]] = 1]]
    /\ pc' = [pc EXCEPT ![r] = "reserve_save"]
    /\ UNCHANGED <<arg, available, ready, diskVars, histVars, boundVars>>

\* The reload fails ("recovery_incomplete").
ReserveUnreadable(r) ==
    /\ pc[r] = "reserve_wait"
    /\ flock = NoReplica
    /\ ~diskOk
    /\ ready' = [ready EXCEPT ![r] = FALSE]
    /\ pc' = [pc EXCEPT ![r] = "idle"]
    /\ UNCHANGED <<arg, store, available, flock, diskVars, histVars, boundVars>>

\* _save_locked: os.replace makes the new counters the ledger file.
ReserveReplace(r) ==
    /\ pc[r] = "reserve_save"
    /\ disk' = store[r]
    /\ diskOk' = TRUE
    /\ charged' = [charged EXCEPT ![arg[r]] = @ + 1]
    /\ pc' = [pc EXCEPT ![r] = "reserve_return"]
    /\ UNCHANGED <<arg, store, available, ready, flock, served, boundVars>>

\* Mutant: the failure path leaves the file lock held.
Mut_KeepLock(r) ==
    /\ pc[r] = "reserve_save"
    /\ store' = [store EXCEPT ![r][arg[r]] = @ - 1]
    /\ ready' = [ready EXCEPT ![r] = FALSE]
    /\ pc' = [pc EXCEPT ![r] = "idle"]
    /\ UNCHANGED <<arg, available, flock, diskVars, histVars, boundVars>>

\* _save_locked raises ("persist_failed"): roll back and stop serving.
ReserveSaveFails(r) ==
    /\ pc[r] = "reserve_save"
    /\ store' = [store EXCEPT ![r][arg[r]] = @ - 1]
    /\ ready' = [ready EXCEPT ![r] = FALSE]
    /\ pc' = [pc EXCEPT ![r] = "idle"]
    /\ Unlock(r)
    /\ UNCHANGED <<arg, available, diskVars, histVars, boundVars>>

\* return True, current + 1, "ok": both locks are released, the hit is served.
ReserveReturn(r) ==
    /\ pc[r] = "reserve_return"
    /\ served' = [served EXCEPT ![arg[r]] = @ + 1]
    /\ pc' = [pc EXCEPT ![r] = "idle"]
    /\ Unlock(r)
    /\ UNCHANGED <<arg, store, available, ready, diskVars, charged, boundVars>>

-----------------------------------------------------------------------------
\* charged_hits and snapshot: an operational ledger refreshes its store.
Refresh(r) ==
    /\ pc[r] = "idle"
    /\ IsOperational(r)
    /\ flock = NoReplica
    /\ store' = [store EXCEPT ![r] = IF diskOk THEN disk ELSE @]
    /\ ready' = [ready EXCEPT ![r] = diskOk]
    /\ UNCHANGED <<pc, arg, available, flock, diskVars, histVars, boundVars>>

\* flush up to the file lock.
FlushBegin(r) ==
    /\ pc[r] = "idle"
    /\ IsOperational(r)
    /\ pc' = [pc EXCEPT ![r] = "flush_wait"]
    /\ UNCHANGED <<arg, store, available, ready, flock, diskVars, histVars,
                   boundVars>>

\* Mutant: flush adds the pending counters to the stored ones.
Mut_MergeBySum(r) ==
    /\ pc[r] = "flush_wait"
    /\ diskOk
    /\ Lock(r)
    /\ store' = [store EXCEPT ![r] =
                    [f \in Fingerprint |-> store[r][f] + disk[f]]]
    /\ ready' = [ready EXCEPT ![r] = TRUE]
    /\ pc' = [pc EXCEPT ![r] = "flush_save"]
    /\ UNCHANGED <<arg, available, diskVars, histVars, boundVars>>

\* flush: reload, then keep the larger of the pending and the stored counter.
FlushMerge(r) ==
    /\ pc[r] = "flush_wait"
    /\ diskOk
    /\ Lock(r)
    /\ store' = [store EXCEPT ![r] =
                    [f \in Fingerprint |->
                        IF store[r][f] > disk[f] THEN store[r][f] ELSE disk[f]]]
    /\ ready' = [ready EXCEPT ![r] = TRUE]
    /\ pc' = [pc EXCEPT ![r] = "flush_save"]
    /\ UNCHANGED <<arg, available, diskVars, histVars, boundVars>>

FlushUnreadable(r) ==
    /\ pc[r] = "flush_wait"
    /\ flock = NoReplica
    /\ ~diskOk
    /\ ready' = [ready EXCEPT ![r] = FALSE]
    /\ pc' = [pc EXCEPT ![r] = "idle"]
    /\ UNCHANGED <<arg, store, available, flock, diskVars, histVars, boundVars>>

FlushReplace(r) ==
    /\ pc[r] = "flush_save"
    /\ disk' = store[r]
    /\ diskOk' = TRUE
    /\ pc' = [pc EXCEPT ![r] = "idle"]
    /\ Unlock(r)
    /\ UNCHANGED <<arg, store, available, ready, histVars, boundVars>>

\* The save of flush() or reset() raises: the caller sees the exception, the
\* store keeps what the method had put into it.
SaveRaises(r) ==
    /\ pc[r] \in {"flush_save", "reset_save"}
    /\ pc' = [pc EXCEPT ![r] = "idle"]
    /\ Unlock(r)
    /\ UNCHANGED <<arg, store, available, ready, diskVars, histVars, boundVars>>

\* reset up to the file lock; it does not ask whether the ledger is operational.
ResetBegin(r) ==
    /\ pc[r] = "idle"
    /\ resets < MaxResets
    /\ resets' = resets + 1
    /\ pc' = [pc EXCEPT ![r] = "reset_wait"]
    /\ UNCHANGED <<arg, store, available, ready, flock, diskVars, histVars,
                   crashes, corruptions>>

ResetClear(r) ==
    /\ pc[r] = "reset_wait"
    /\ Lock(r)
    /\ store' = [store EXCEPT ![r] = Empty]
    /\ ready' = [ready EXCEPT ![r] = TRUE]
    /\ pc' = [pc EXCEPT ![r] = "reset_save"]
    /\ UNCHANGED <<arg, available, diskVars, histVars, boundVars>>

\* The cleared file is in place: a new accounting epoch begins.
ResetReplace(r) ==
    /\ pc[r] = "reset_save"
    /\ disk' = store[r]
    /\ diskOk' = TRUE
    /\ charged' = Empty
    /\ served' = Empty
    /\ pc' = [pc EXCEPT ![r] = "idle"]
    /\ Unlock(r)
    /\ UNCHANGED <<arg, store, available, ready, boundVars>>

-----------------------------------------------------------------------------
Reserve(r) ==
    \/ \E f \in Fingerprint : ReserveBegin(r, f)
    \/ ReserveReload(r)
    \/ ReserveExhausted(r)
    \/ ReserveUnreadable(r)
    \/ ReserveReplace(r)
    \/ ReserveSaveFails(r)
    \/ ReserveReturn(r)

Flush(r) ==
    \/ FlushBegin(r)
    \/ FlushMerge(r)
    \/ FlushUnreadable(r)
    \/ FlushReplace(r)

Reset(r) ==
    \/ ResetBegin(r)
    \/ ResetClear(r)
    \/ ResetReplace(r)

Next ==
    \/ \E r \in Replica :
        \/ Start(r)
        \/ Crash(r)
        \/ \E b \in BOOLEAN : SetAvailable(r, b)
        \/ Reserve(r)
        \/ Refresh(r)
        \/ Flush(r)
        \/ SaveRaises(r)
        \/ Reset(r)
    \/ Corrupt

Spec == Init /\ [][Next]_vars

\* A running method keeps running (weak fairness of its thread), and the
\* kernel's flock queue does not starve a waiter (strong fairness).
TakeLock(r) ==
    \/ ReserveReload(r) \/ ReserveExhausted(r) \/ ReserveUnreadable(r)
    \/ FlushMerge(r) \/ FlushUnreadable(r)
    \/ ResetClear(r)

FinishLocked(r) ==
    \/ ReserveReplace(r) \/ ReserveSaveFails(r) \/ ReserveReturn(r)
    \/ FlushReplace(r) \/ ResetReplace(r) \/ SaveRaises(r)

FairSpec ==
    /\ Spec
    /\ \A r \in Replica : SF_vars(TakeLock(r)) /\ WF_vars(FinishLocked(r))

-----------------------------------------------------------------------------
\* reserve_hit: no crash, save failure, stale store or concurrent replica makes
\* the accepted hits of one epoch exceed the budget.
BudgetNeverExceeded == \A f \in Fingerprint : served[f] <= B

\* reserve_hit, flush, reset: whenever the ledger file is readable it accounts
\* for every charge of the epoch, and no hit was served without its charge.
FileCoversServed ==
    \A f \in Fingerprint :
        /\ served[f] <= charged[f]
        /\ diskOk => charged[f] <= disk[f]

\* _save_locked: only outside damage makes the file unreadable; a crash in the
\* middle of a save never does.
NeverTorn == corruptions = 0 => diskOk

\* flush after reserve_hit: while no epoch is rotated, merging a stale store
\* never charges a fingerprint for hits nobody reserved.
NoOvercharge == resets = 0 /\ diskOk => disk = charged

\* A method that a live replica has begun ends (or the replica crashes).
MethodsReturn ==
    \A r \in Replica :
        pc[r] \notin {"down", "idle"} ~> pc[r] \in {"down", "idle"}

\* The ledger implements the abstract budget, with the replaces under
\* reserve_hit as its charges and the accepted returns as its hits.
Budget == INSTANCE BudgetSpec WITH Fingerprint <- Fingerprint, B <- B,
                                   charged <- charged, served <- served
ImplementsBudget == Budget!Spec
=============================================================================
