------------------------ MODULE DurableLedger_proofs ------------------------
(***************************************************************************)
(* Proofs about DurableLedger, for every set of replicas and fingerprints, *)
(* every budget B and every bound on crashes, corruptions and resets.      *)
(***************************************************************************)
EXTENDS DurableLedger, TLAPS

\* A replica is between taking and releasing the file lock exactly when it is
\* the one recorded as holding it.
LockInv ==
    \A r \in Replica : (pc[r] \in Saving \cup {"reserve_return"}) <=> flock = r

\* What the store about to be written is known to cover.
SaveInv ==
    \A r \in Replica :
        /\ pc[r] = "reserve_save" =>
              /\ \A f \in Fingerprint : charged[f] <= store[r][f]
              /\ charged[arg[r]] < B
              /\ charged[arg[r]] < store[r][arg[r]]
        /\ pc[r] = "flush_save" =>
              \A f \in Fingerprint : charged[f] <= store[r][f]
        /\ pc[r] = "reserve_return" => served[arg[r]] < charged[arg[r]]

ChargeBound == \A f \in Fingerprint : charged[f] <= B

\* The inductive invariant behind the budget.
IInv == TypeOK /\ LockInv /\ SaveInv /\ ChargeBound /\ FileCoversServed

\* The empty ledger satisfies the inductive invariant.
LEMMA InitIInv == Init => IInv
<1> SUFFICES ASSUME Init PROVE IInv
  OBVIOUS
<1>1. (CHOOSE f \in Fingerprint : TRUE) \in Fingerprint
  BY LedgerAssumption
<1>2. TypeOK
  BY <1>1 DEF Init, TypeOK, PC, Counters, Empty
<1>3. LockInv
  BY LedgerAssumption DEF Init, LockInv, Saving
<1>4. SaveInv
  BY DEF Init, SaveInv
<1>5. ChargeBound /\ FileCoversServed
  BY LedgerAssumption DEF Init, ChargeBound, FileCoversServed, Empty
<1> QED
  BY <1>2, <1>3, <1>4, <1>5 DEF IInv

\* Every step of the ledger, of a crash or of outside damage keeps it.
LEMMA NextIInv == IInv /\ [Next]_vars => IInv'
<1> SUFFICES ASSUME IInv, [Next]_vars PROVE IInv'
  OBVIOUS
<1> USE LedgerAssumption DEF IInv, TypeOK, LockInv, SaveInv, ChargeBound,
        FileCoversServed, PC, Saving, Waiting, Counters, Empty, procVars,
        diskVars, histVars, boundVars, Lock, Unlock, IsOperational
<1>1. ASSUME NEW r \in Replica, Start(r) PROVE IInv'
  BY <1>1 DEF Start
<1>2. ASSUME NEW r \in Replica, Crash(r) PROVE IInv'
  BY <1>2 DEF Crash
<1>3. ASSUME NEW r \in Replica, NEW b \in BOOLEAN, SetAvailable(r, b)
      PROVE IInv'
  BY <1>3 DEF SetAvailable
<1>4. ASSUME NEW r \in Replica, NEW f \in Fingerprint, ReserveBegin(r, f)
      PROVE IInv'
  BY <1>4 DEF ReserveBegin
<1>5. ASSUME NEW r \in Replica, ReserveReload(r) PROVE IInv'
  BY <1>5 DEF ReserveReload
<1>6. ASSUME NEW r \in Replica, ReserveExhausted(r) PROVE IInv'
  BY <1>6 DEF ReserveExhausted
<1>7. ASSUME NEW r \in Replica, ReserveUnreadable(r) PROVE IInv'
  BY <1>7 DEF ReserveUnreadable
<1>8. ASSUME NEW r \in Replica, ReserveReplace(r) PROVE IInv'
  BY <1>8 DEF ReserveReplace
<1>9. ASSUME NEW r \in Replica, ReserveSaveFails(r) PROVE IInv'
  BY <1>9 DEF ReserveSaveFails
<1>10. ASSUME NEW r \in Replica, ReserveReturn(r) PROVE IInv'
  BY <1>10 DEF ReserveReturn
<1>11. ASSUME NEW r \in Replica, Refresh(r) PROVE IInv'
  BY <1>11 DEF Refresh
<1>12. ASSUME NEW r \in Replica, FlushBegin(r) PROVE IInv'
  BY <1>12 DEF FlushBegin
<1>13. ASSUME NEW r \in Replica, FlushMerge(r) PROVE IInv'
  BY <1>13 DEF FlushMerge
<1>14. ASSUME NEW r \in Replica, FlushUnreadable(r) PROVE IInv'
  BY <1>14 DEF FlushUnreadable
<1>15. ASSUME NEW r \in Replica, FlushReplace(r) PROVE IInv'
  BY <1>15 DEF FlushReplace
<1>16. ASSUME NEW r \in Replica, SaveRaises(r) PROVE IInv'
  BY <1>16 DEF SaveRaises
<1>17. ASSUME NEW r \in Replica, ResetBegin(r) PROVE IInv'
  BY <1>17 DEF ResetBegin
<1>18. ASSUME NEW r \in Replica, ResetClear(r) PROVE IInv'
  BY <1>18 DEF ResetClear
<1>19. ASSUME NEW r \in Replica, ResetReplace(r) PROVE IInv'
  BY <1>19 DEF ResetReplace
<1>20. ASSUME Corrupt PROVE IInv'
  <2>1. /\ UNCHANGED <<pc, arg, store, available, ready, flock, disk, charged,
                       served, crashes, resets>>
        /\ ~diskOk' /\ diskOk' \in BOOLEAN /\ corruptions' \in Nat
    <3>1. UNCHANGED <<pc, arg, store, available, ready, flock, disk, charged,
                      served, crashes, resets>>
      BY <1>20 DEF Corrupt
    <3>2. diskOk' = FALSE
      BY <1>20, Zenon DEF Corrupt
    <3>3. corruptions' \in Nat
      BY <1>20 DEF Corrupt
    <3> QED BY <3>1, <3>2, <3>3, Zenon
  <2>2. TypeOK' /\ LockInv' /\ SaveInv' /\ ChargeBound'
    BY <2>1
  <2>3. FileCoversServed'
    BY <2>1
  <2> QED
    BY <2>2, <2>3
<1>21. ASSUME UNCHANGED vars PROVE IInv'
  BY <1>21 DEF vars
<1> QED
  BY <1>1, <1>2, <1>3, <1>4, <1>5, <1>6, <1>7, <1>8, <1>9, <1>10, <1>11,
     <1>12, <1>13, <1>14, <1>15, <1>16, <1>17, <1>18, <1>19, <1>20, <1>21
     DEF Next, Reserve, Flush, Reset

\* The inductive invariant holds in every reachable state.
THEOREM IInvCorrect == Spec => []IInv
<1> QED BY InitIInv, NextIInv, PTL DEF Spec

\* Type correctness: in particular the roll-back of a failed save never takes
\* a counter below zero.
THEOREM TypeCorrect == Spec => []TypeOK
<1>1. IInv => TypeOK
  BY DEF IInv
<1> QED BY IInvCorrect, <1>1, PTL

\* reserve_hit: no interleaving of replicas, crashes, failed saves and damage
\* serves more than B hits of one fingerprint in an epoch.
THEOREM BudgetTheorem == Spec => []BudgetNeverExceeded
<1>1. IInv => BudgetNeverExceeded
  BY LedgerAssumption
  DEF IInv, TypeOK, Counters, ChargeBound, FileCoversServed, BudgetNeverExceeded
<1> QED BY IInvCorrect, <1>1, PTL

\* A readable ledger file always accounts for every hit served.
THEOREM FileCoversTheorem == Spec => []FileCoversServed
<1>1. IInv => FileCoversServed
  BY DEF IInv
<1> QED BY IInvCorrect, <1>1, PTL

-----------------------------------------------------------------------------
\* _save_locked replaces the file atomically: only outside damage tears it.
THEOREM NeverTornTheorem == Spec => []NeverTorn
<1>1. Init => NeverTorn
  BY DEF Init, NeverTorn
<1>2. IInv /\ NeverTorn /\ [Next]_vars => NeverTorn'
  <2> SUFFICES ASSUME IInv, NeverTorn, [Next]_vars PROVE NeverTorn'
    OBVIOUS
  <2> USE DEF IInv, TypeOK, NeverTorn, procVars, diskVars, histVars, boundVars
  <2>1. CASE Corrupt
    BY <2>1 DEF Corrupt
  <2>2. CASE UNCHANGED vars
    BY <2>2 DEF vars
  <2>3. ASSUME NEW r \in Replica,
               \/ ReserveReplace(r) \/ FlushReplace(r) \/ ResetReplace(r)
        PROVE NeverTorn'
    BY <2>3 DEF ReserveReplace, FlushReplace, ResetReplace
  <2>4. ASSUME NEW r \in Replica,
               \/ Start(r) \/ Crash(r) \/ Refresh(r) \/ SaveRaises(r)
               \/ \E b \in BOOLEAN : SetAvailable(r, b)
               \/ FlushBegin(r) \/ FlushMerge(r) \/ FlushUnreadable(r)
               \/ ResetBegin(r) \/ ResetClear(r)
        PROVE NeverTorn'
    BY <2>4 DEF Start, Crash, Refresh, SaveRaises, SetAvailable, FlushBegin,
       FlushMerge, FlushUnreadable, ResetBegin, ResetClear
  <2>5. ASSUME NEW r \in Replica,
               \/ \E f \in Fingerprint : ReserveBegin(r, f)
               \/ ReserveReload(r) \/ ReserveExhausted(r)
               \/ ReserveUnreadable(r) \/ ReserveSaveFails(r)
               \/ ReserveReturn(r)
        PROVE NeverTorn'
    BY <2>5 DEF ReserveBegin, ReserveReload, ReserveExhausted,
       ReserveUnreadable, ReserveSaveFails, ReserveReturn
  <2> QED
    BY <2>1, <2>2, <2>3, <2>4, <2>5 DEF Next, Reserve, Flush, Reset
<1> QED BY <1>1, <1>2, IInvCorrect, PTL DEF Spec

-----------------------------------------------------------------------------
\* The ledger implements BudgetSpec: a replace under reserve_hit is a Charge,
\* the return of an accepted reservation is a Serve, the replace under reset is
\* a Rotate, and every other step leaves the promise untouched.
THEOREM Refinement == Spec => ImplementsBudget
<1>1. Init => Budget!Init
  BY DEF Init, Budget!Init, Empty
<1>2. IInv /\ [Next]_vars => [Budget!Next]_(Budget!vars)
  <2> SUFFICES ASSUME IInv, [Next]_vars PROVE [Budget!Next]_(Budget!vars)
    OBVIOUS
  <2> USE DEF IInv, TypeOK, SaveInv, Budget!vars, procVars, diskVars, histVars,
          boundVars
  <2>1. CASE UNCHANGED <<charged, served>>
    BY <2>1
  <2>2. ASSUME NEW r \in Replica, ReserveReplace(r)
        PROVE  Budget!Charge(arg[r])
    BY <2>2 DEF ReserveReplace, Budget!Charge
  <2>3. ASSUME NEW r \in Replica, ReserveReturn(r)
        PROVE  Budget!Serve(arg[r])
    BY <2>3 DEF ReserveReturn, Budget!Serve
  <2>4. ASSUME NEW r \in Replica, ResetReplace(r)
        PROVE  Budget!Rotate
    BY <2>4 DEF ResetReplace, Budget!Rotate, Empty
  <2>5. ASSUME NEW r \in Replica,
               \/ Start(r) \/ Crash(r) \/ Refresh(r) \/ SaveRaises(r)
               \/ \E b \in BOOLEAN : SetAvailable(r, b)
               \/ FlushBegin(r) \/ FlushMerge(r) \/ FlushUnreadable(r)
               \/ FlushReplace(r) \/ ResetBegin(r) \/ ResetClear(r)
        PROVE  UNCHANGED <<charged, served>>
    BY <2>5 DEF Start, Crash, Refresh, SaveRaises, SetAvailable, FlushBegin,
       FlushMerge, FlushUnreadable, FlushReplace, ResetBegin, ResetClear
  <2>6. ASSUME NEW r \in Replica,
               \/ \E f \in Fingerprint : ReserveBegin(r, f)
               \/ ReserveReload(r) \/ ReserveExhausted(r)
               \/ ReserveUnreadable(r) \/ ReserveSaveFails(r)
        PROVE  UNCHANGED <<charged, served>>
    BY <2>6 DEF ReserveBegin, ReserveReload, ReserveExhausted,
       ReserveUnreadable, ReserveSaveFails
  <2>7. CASE Corrupt
    BY <2>7 DEF Corrupt
  <2>8. CASE UNCHANGED vars
    BY <2>8 DEF vars
  <2> QED
    BY <2>1, <2>2, <2>3, <2>4, <2>5, <2>6, <2>7, <2>8
    DEF Next, Reserve, Flush, Reset, Budget!Next
<1> QED BY <1>1, <1>2, IInvCorrect, PTL DEF Spec, ImplementsBudget, Budget!Spec

-----------------------------------------------------------------------------
(* Until the first reset the file charges nobody for a hit that was not      *)
(* reserved, although flush merges stores that may be out of date.           *)

Below(c) == \A f \in Fingerprint : c[f] <= charged[f]

\* What the stores hold: a stale copy is never ahead of the charges, and what is
\* about to be written is exactly what the file will have to say.
StoreInv ==
    \A r \in Replica :
        /\ pc[r] \notin {"reset_wait", "reset_save"}
        /\ pc[r] \notin {"reserve_save", "flush_save"} => Below(store[r])
        /\ pc[r] = "reserve_save" =>
              store[r] = [charged EXCEPT ![arg[r]] = @ + 1]
        /\ pc[r] = "flush_save" => store[r] = charged

ExactInv == resets = 0 => StoreInv /\ (diskOk => disk = charged)

\* A step keeps it: only the holder of the file lock writes, and it has read the
\* file under that lock.
LEMMA ExactStep == IInv /\ ExactInv /\ [Next]_vars => ExactInv'
<1> SUFFICES ASSUME IInv, ExactInv, [Next]_vars, resets' = 0
             PROVE  StoreInv' /\ (diskOk' => disk' = charged')
  BY DEF ExactInv
<1>0. resets = 0
  <2>1. resets \in Nat
    BY DEF IInv, TypeOK
  <2>2. resets' = resets \/ resets' = resets + 1
    BY DEF Next, Reserve, Flush, Reset, vars, procVars, diskVars, histVars, boundVars, Start,
       Crash, Corrupt, SetAvailable, ReserveBegin, ReserveReload, ReserveExhausted,
       ReserveUnreadable, ReserveReplace, ReserveSaveFails, ReserveReturn, Refresh, FlushBegin,
       FlushMerge, FlushUnreadable, FlushReplace, SaveRaises, ResetBegin, ResetClear,
       ResetReplace
  <2> QED
    BY <2>1, <2>2
<1>1. StoreInv /\ (diskOk => disk = charged)
  BY <1>0 DEF ExactInv
<1> USE LedgerAssumption, <1>1 DEF IInv, TypeOK, LockInv, StoreInv, Below, PC, Saving, Waiting,
        Counters, Empty, procVars, diskVars, histVars, boundVars, Lock, Unlock
<1>2. ASSUME NEW r \in Replica, Start(r) PROVE StoreInv' /\ (diskOk' => disk' = charged')
  BY <1>2 DEF Start
<1>3. ASSUME NEW r \in Replica, Crash(r) PROVE StoreInv' /\ (diskOk' => disk' = charged')
  BY <1>3 DEF Crash
<1>4. ASSUME NEW r \in Replica,
             \/ \E b \in BOOLEAN : SetAvailable(r, b)
             \/ \E f \in Fingerprint : ReserveBegin(r, f)
             \/ ReserveUnreadable(r) \/ FlushBegin(r) \/ FlushUnreadable(r)
      PROVE  StoreInv' /\ (diskOk' => disk' = charged')
  <2>1. /\ UNCHANGED <<store, disk, diskOk, charged>> /\ pc[r] \notin Saving
        /\ \A q \in Replica : q # r => pc'[q] = pc[q] /\ arg'[q] = arg[q]
        /\ pc'[r] \in {"idle", "reserve_wait", "flush_wait"}
    BY <1>4 DEF SetAvailable, ReserveBegin, ReserveUnreadable, FlushBegin, FlushUnreadable
  <2> QED
    BY <2>1
<1>5. ASSUME NEW r \in Replica, ReserveReload(r)
      PROVE  StoreInv' /\ (diskOk' => disk' = charged')
  BY <1>5 DEF ReserveReload
<1>6. ASSUME NEW r \in Replica, ReserveExhausted(r) \/ Refresh(r)
      PROVE  StoreInv' /\ (diskOk' => disk' = charged')
  <2>1. CASE ReserveExhausted(r)
    BY <2>1 DEF ReserveExhausted
  <2>2. CASE Refresh(r)
    <3>1. /\ UNCHANGED <<pc, arg, disk, diskOk, charged>> /\ pc[r] = "idle"
          /\ store' = store \/ (diskOk /\ store' = [store EXCEPT ![r] = disk])
      BY <2>2 DEF Refresh
    <3> QED
      BY <3>1
  <2> QED
    BY <1>6, <2>1, <2>2
<1>7. ASSUME NEW r \in Replica, ReserveReplace(r)
      PROVE  StoreInv' /\ (diskOk' => disk' = charged')
  BY <1>7 DEF ReserveReplace
<1>8. ASSUME NEW r \in Replica, ReserveSaveFails(r)
      PROVE  StoreInv' /\ (diskOk' => disk' = charged')
  BY <1>8 DEF ReserveSaveFails
<1>9. ASSUME NEW r \in Replica, ReserveReturn(r)
      PROVE  StoreInv' /\ (diskOk' => disk' = charged')
  BY <1>9 DEF ReserveReturn
<1>10. ASSUME NEW r \in Replica, FlushMerge(r)
       PROVE  StoreInv' /\ (diskOk' => disk' = charged')
  BY <1>10 DEF FlushMerge
<1>11. ASSUME NEW r \in Replica, FlushReplace(r)
       PROVE  StoreInv' /\ (diskOk' => disk' = charged')
  BY <1>11 DEF FlushReplace
<1>12. ASSUME NEW r \in Replica, SaveRaises(r)
       PROVE  StoreInv' /\ (diskOk' => disk' = charged')
  BY <1>12 DEF SaveRaises
<1>13. ASSUME NEW r \in Replica, Reset(r) PROVE FALSE
  BY <1>0, <1>13 DEF Reset, ResetBegin, ResetClear, ResetReplace
<1>14. ASSUME Corrupt PROVE StoreInv' /\ (diskOk' => disk' = charged')
  <2>1. /\ UNCHANGED <<pc, arg, store, charged>> /\ ~diskOk'
    BY <1>14 DEF Corrupt
  <2> QED
    BY <2>1
<1>15. ASSUME UNCHANGED vars PROVE StoreInv' /\ (diskOk' => disk' = charged')
  BY <1>15 DEF vars
<1> QED
  BY <1>2, <1>3, <1>4, <1>5, <1>6, <1>7, <1>8, <1>9, <1>10, <1>11, <1>12, <1>13, <1>14, <1>15
     DEF Next, Reserve, Flush

\* flush after reserve_hit: merging a stale store never charges a fingerprint for
\* hits nobody reserved, whatever crashes or saves that fail come in between.
THEOREM NoOverchargeTheorem == Spec => []NoOvercharge
<1>1. Init => ExactInv
  BY DEF Init, ExactInv, StoreInv, Below, Empty
<1>2. ExactInv => NoOvercharge
  BY DEF ExactInv, NoOvercharge
<1> QED
  BY <1>1, <1>2, IInvCorrect, ExactStep, PTL DEF Spec
=============================================================================
