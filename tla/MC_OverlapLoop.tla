--------------------------- MODULE MC_OverlapLoop ---------------------------
(* Instances of OverlapLoop: requests with prompts that share a prefix. *)
EXTENDS OverlapLoop

CONSTANTS q1, q2, q3

Ask(p, n, g) == [prompt |-> p, out |-> n, grammar |-> g]

\* A long prompt constrained by a grammar, and two short ones with more output:
\* with its last token but one, the third no longer passes add_one_req's test.
Prompts ==
    q1 :> Ask(<<1, 2, 2, 2>>, 1, TRUE) @@ q2 :> Ask(<<1>>, 3, FALSE)
      @@ q3 :> Ask(<<2, 1>>, 3, FALSE)
Args(r, c) == [max_running_requests |-> r, chunked_prefill_size |-> c]

\* Few places and a prompt in chunks; places for all and whole prompts.
StartedWith == {Args(2, 1), Args(3, 6)}
=============================================================================
