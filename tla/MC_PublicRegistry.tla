------------------------- MODULE MC_PublicRegistry -------------------------
(* Instances of PublicRegistry: one or two objects, nested prefixes. *)
EXTENDS PublicRegistry

CONSTANTS o1, o2

\* Two prompts, one extending the other.
TwoKeys == {<<1>>, <<1, 2>>}
=============================================================================
