---------------------------- MODULE MCZigCleanup ----------------------------
EXTENDS ZigCleanup, FiniteSets

MCNames == {"repo", "alias", "outside", "linked", "sub", "missing", "zig-out", "cache", "logs",
            "x", ".git", ".."}

\* The root as it is, and through a symlink.
MCRoots == {<<"repo">>, <<"alias">>}

Listed == {<<"zig-out">>, <<"sub", "zig-out">>, <<"sub">>, <<"missing">>,
           <<"linked", "zig-out">>, <<"linked", "..">>, <<"..", "outside", "zig-out">>,
           <<"..", "repo", "sub">>, <<".git">>, <<"cache">>, <<"cache", "logs">>,
           <<"cache", "logs", "x">>, <<>>, <<"sub", "..">>, <<".git", "..", "sub">>,
           <<"zig-out", "sub">>}

MCCandidates == {<<>>} \cup {<<p>> : p \in Listed} \cup {<<p, q>> : p, q \in Listed}

Kept == {<<"repo">>, <<"outside">>, <<"outside", "zig-out">>, <<"repo", ".git">>,
         <<"repo", "cache">>, <<"repo", "cache", "logs">>,
         <<"repo", "cache", "logs", "x">>, <<"repo", "sub">>}

\* zig-out is a directory, absent, or a symlink to sub.
MCTrees == {Kept \cup extra : extra \in SUBSET {<<"repo", "zig-out">>, <<"repo", "sub", "zig-out">>}}
LinkedOutside == (<<"repo", "linked">> :> <<"outside">>) @@ (<<"alias">> :> <<"repo">>)
MCLinks == {LinkedOutside, LinkedOutside @@ (<<"repo", "zig-out">> :> <<"repo", "sub">>)}

\* Others may touch zig-out, and link it to where clean must not follow.
MCCacheNames == {"zig-out"}
MCTargets == {<<"outside">>, <<"repo", "sub">>, <<"repo", ".git">>}
=============================================================================
