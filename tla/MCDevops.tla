------------------------------ MODULE MCDevops ------------------------------
EXTENDS Devops, TLC

CONSTANTS p1, p2, p3

Invocation(sub, args, asRoot) == [sub |-> sub, args |-> args, asRoot |-> asRoot]

Two == {p1, p2}
Three == {p1, p2, p3}
OneDirectory == <<"zig-out">>
TwoDirectories == <<"zig-out", ".zig-cache">>
SuccessOrFailure == {0, 1}
AllCodes == {0, 1, -2}

Kept == Invocation("zig", <<Keep>>, FALSE)
KeptAsRoot == Invocation("zig", <<Keep>>, TRUE)
Throwaway == Invocation("zig", <<"build", Keep>>, FALSE)
Clean == Invocation("clean", <<>>, FALSE)

Image == Invocation("image", <<>>, FALSE)

\* Every subcommand, good and bad arguments.
AllInvocations ==
  {Kept, KeptAsRoot, Throwaway, Clean, Invocation("clean", <<"x">>, FALSE),
   Image, Invocation("prune", <<>>, FALSE),
   Invocation("ci", <<Keep, Keep, "check">>, FALSE), Invocation("ci", <<"nope">>, FALSE),
   Invocation("shell", <<Keep>>, FALSE), Invocation("shell", <<"x">>, FALSE),
   Invocation("--help", <<>>, FALSE), Invocation("unknown", <<>>, FALSE)}

KeptAndClean == {Kept, Clean}
ThrowawayAndClean == {Throwaway, Clean}
CacheAndImageUsers == {Kept, KeptAsRoot, Clean, Image}

\* The pins agree, or the Dockerfile names no Zig, or it is missing.
AgreeingPins == {<<"1", "1">>}
AllPins == {<<"1", "1">>, <<"1", "no ARG">>, <<"1", "none">>}
EditedPins == {<<"1", "1">>, <<"2", "2">>}

Symmetry == Permutations(Processes)
=============================================================================
