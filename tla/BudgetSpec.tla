----------------------------- MODULE BudgetSpec -----------------------------
(***************************************************************************)
(* What SafeKV's Balanced mode promises about cross-tenant reuse: for each *)
(* fingerprint at most B hits are charged per accounting epoch, and a hit  *)
(* is served only against a charge made before it.                         *)
(***************************************************************************)
EXTENDS Naturals

CONSTANTS Fingerprint,  \* the accounting keys (SHA-256 of a token prefix)
          B             \* the access budget of one fingerprint

VARIABLES charged,      \* charges made in this epoch
          served        \* cross-tenant hits handed out in this epoch

vars == <<charged, served>>

Init ==
    /\ charged = [f \in Fingerprint |-> 0]
    /\ served = [f \in Fingerprint |-> 0]

\* A reservation: the charge is recorded before the hit is served.
Charge(f) ==
    /\ charged[f] < B
    /\ charged' = [charged EXCEPT ![f] = @ + 1]
    /\ UNCHANGED served

\* A reserved hit is handed to the requester.
Serve(f) ==
    /\ served[f] < charged[f]
    /\ served' = [served EXCEPT ![f] = @ + 1]
    /\ UNCHANGED charged

\* A new accounting epoch.
Rotate ==
    /\ charged' = [f \in Fingerprint |-> 0]
    /\ served' = [f \in Fingerprint |-> 0]

Next ==
    \/ \E f \in Fingerprint : Charge(f) \/ Serve(f)
    \/ Rotate

Spec == Init /\ [][Next]_vars
=============================================================================
