--------------------------- MODULE MC_RadixCache ----------------------------
(* Instances of RadixCache: principals whose prompts share a prefix. *)
EXTENDS RadixCache

CONSTANTS u1, u2, o1, q1, q2, q3

Three(m1, m2, m3) == q1 :> m1 @@ q2 :> m2 @@ q3 :> m3
Ask(u, p, a, n) == [user |-> u, prompt |-> p, auth |-> a, out |-> n]

\* Two requests of one principal that share a prefix, one of another principal
\* with the same prompt.
PrivateMeta ==
    Three(Ask(u1, <<1, 2>>, NoObject, 3), Ask(u1, <<1, 1>>, NoObject, 3),
          Ask(u2, <<1, 2>>, NoObject, 3))

\* Two principals, the second of whom asks for what the first is given (every
\* output is 1) and the first of whom carries a manifest for its token,
\* ShortPublic (q2 is not in Request).
BalancedMeta ==
    Three(Ask(u1, <<1>>, o1, 2), Ask(u1, <<1, 1>>, NoObject, 1),
          Ask(u2, <<1, 1>>, NoObject, 1))

\* Both positions of q1's prompt in its owner's tree.
FirstPrompt == {<<u1, <<1>>>>, <<u1, <<1, 2>>>>}

NoPublic == <<>>
ShortPublic == o1 :> <<1>>
=============================================================================
