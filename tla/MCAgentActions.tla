---------------------------- MODULE MCAgentActions ----------------------------
(* AgentActionsManager with files of up to two entries on one start status:     *)
(* every pair of the patterns below in both modes, or one entry with the moves  *)
(* it may add or leave out; and five files it is changed to.                    *)
EXTENDS AgentActionsManager, TLC

A == "a"
B == "b"
Patterns == {<<>>, <<Star>>, <<A>>, <<A, B>>, <<A, Star>>, <<Star, B>>, <<Star, A, Star>>}
MCProjects == {<<A>>, <<B>>, <<A, B>>, <<B, A>>}

Ends(e) == IF e.trigger = "comments" THEN e ELSE [e EXCEPT !.end = "done"]
Pair(p, t, q, u) == File(<<Ends(Entry(p, t, "todo")), Ends(Entry(q, u, "todo"))>>)
Pairs == {Pair(p, t, q, u) : p \in Patterns, t \in {"status", "comments"},
                             q \in Patterns, u \in {"status", "comments"}}

Statuses == {NoStatus, "done"}
Single == {File(<<[Entry(<<"a", Star>>, t, "todo") EXCEPT !.end = e, !.error = f, !.inProgress = i]>>) :
             t \in {"status", "comments"}, e \in Statuses, f \in Statuses, i \in Statuses}

MCEdits == {Garbage, Missing} \union
           {Pair(<<"a">>, "comments", <<Star>>, "status"),
            Pair(<<Star>>, "status", <<"a">>, "comments"),
            File(<<Ends(Entry(<<>>, "status", "chat"))>>)}
MCContents == Pairs \union Single \union MCEdits
===============================================================================
