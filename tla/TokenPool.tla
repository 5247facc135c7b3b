------------------------------ MODULE TokenPool -----------------------------
(***************************************************************************)
(* TokenToKVPoolAllocator (mem_cache/memory_pool.py): the free list of KV  *)
(* slots, as a bag fr, so that a slot freed twice is on it twice.          *)
(***************************************************************************)
EXTENDS Naturals, Sequences, FiniteSets, FiniteSetsExt

CONSTANT NumSlots      \* size of the token pool

Slot == 1..NumSlots

\* The sum of a function to the naturals: the number of pairs <<x, k>> with
\* 1 <= k <= f[x].
Total(f) == Cardinality(UNION {{x} \X (1..f[x]) : x \in DOMAIN f})

\* available_size
Available(fr) == Total(fr)

\* alloc: slots are interchangeable, so it takes the smallest ones.
AllocSeq(fr, n) ==
    [i \in 1..n |->
        Min({s \in Slot : Total([t \in 1..s |-> fr[t]]) >= i})]

AllocRest(fr, n) ==
    [s \in Slot |-> fr[s] - Cardinality({i \in 1..n : AllocSeq(fr, n)[i] = s})]

\* free: f is a sequence of slots or a function onto slots.
Freed(fr, f) ==
    [s \in Slot |-> fr[s] + Cardinality({x \in DOMAIN f : f[x] = s})]

\* What a slot holds no longer matters once it is free (it is kept as <<>>).
Forget(contents, fr) ==
    [s \in Slot |-> IF fr[s] > 0 THEN <<>> ELSE contents[s]]
=============================================================================
