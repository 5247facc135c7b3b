------------------------ MODULE MC_DetectionPipeline ------------------------
(* Two nodes: one and its child, or the two halves of one. *)
EXTENDS DetectionPipeline

CONSTANTS l1, l2, d1, p1, n1, n2

Server == {l1, d1}
Script == {l1, l2, p1}
Both == {Server, Script}
Race == {Script}

\* A line for every way through the two tiers.
Lines == {"hello", "odd", "card", "junk", "huge"}
Rules == [x \in Lines |-> CASE x = "card" -> "match" [] x = "junk" -> "error"
                            [] OTHER -> "miss"]
Screen == [x \in Lines |-> CASE x = "huge" -> "error" [] x = "odd" -> "uncertain"
                             [] x = "hello" -> "public" [] OTHER -> "private"]

\* One line, or several of which the last but one is screened.
Clear == <<"odd", "hello", "card">>
Unsure == <<"hello", "odd", "hello">>
AllPrompts == {Clear, Unsure, <<"card">>, <<"junk">>, <<"huge">>}

\* A node, one below it with the tokens of its back half, and one below its front
\* half.
Tokens == {<<1, 2>>, <<1>>, <<2>>}
Requests ==
    {<<n1, NoNode, <<1, 2>>, p>> : p \in {Clear, Unsure, NoPrompt}}
    \cup {<<n2, n1, <<2>>, p>> : p \in {<<"card">>, <<"junk">>, <<"huge">>}}
    \cup {<<n1, n2, <<2>>, NoPrompt>>}
=============================================================================
