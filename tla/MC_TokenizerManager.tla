------------------------ MODULE MC_TokenizerManager -------------------------
(* Two clients that may go away at any time, and one or two weight updates. *)
EXTENDS TokenizerManager

CONSTANTS r1, r2, w1, w2

\* Client-supplied rids, the second of which starts with the first.
PrefixRids == [r \in {r1, r2} |-> IF r = r1 THEN {r1, r2} ELSE {r}]
\* Generated rids: none is a prefix of another.
UnrelatedRids == [r \in {r1, r2} |-> {r}]
=============================================================================
