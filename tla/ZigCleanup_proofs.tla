-------------------------- MODULE ZigCleanup_proofs --------------------------
(***************************************************************************)
(* What a path resolves to, and from it the rules of devops clean on what  *)
(* is refused, removed and protected, for any repository, candidates and   *)
(* symlinks.                                                               *)
(***************************************************************************)
EXTENDS ZigCleanup, Integers, WellFoundedInduction, SequenceTheorems, TLAPS

-----------------------------------------------------------------------------
(* Induction over the natural numbers, for a set instead of a predicate *)

LEMMA LeastNumber == ASSUME NEW T, T \subseteq Nat, T # {}
                     PROVE  \E m \in T : \A k \in T : m <= k
  <1> DEFINE Less == {pair \in Nat \X Nat : pair[1] < pair[2]}
  <1>1. OpToRel(<, Nat) = Less
    BY DEF OpToRel
  <1>2. IsWellFoundedOn(Less, Nat)
    BY <1>1, NatLessThanWellFounded
  <1>3. \E x \in T : \A y \in T : ~(<<y, x>> \in Less)
    <2> HIDE DEF Less
    <2> QED BY <1>2, WFMin
  <1>4. ASSUME NEW x \in Nat, NEW y \in Nat, ~(<<y, x>> \in Less) PROVE x <= y
    BY <1>4
  <1> QED BY <1>3, <1>4

LEMMA SetInduction == ASSUME NEW T, 0 \in T, \A n \in Nat : n \in T => n + 1 \in T
                      PROVE  \A n \in Nat : n \in T
  <1> SUFFICES ASSUME NEW n \in Nat, n \notin T PROVE FALSE
    OBVIOUS
  <1> DEFINE U == {k \in Nat : k \notin T}
  <1>1. PICK m \in U : \A k \in U : m <= k
    <2>1. U \subseteq Nat /\ U # {}
      OBVIOUS
    <2> HIDE DEF U
    <2> QED BY <2>1, LeastNumber
  <1>2. m # 0 /\ m - 1 \in Nat /\ m - 1 \notin U
    BY <1>1
  <1> QED BY <1>1, <1>2

-----------------------------------------------------------------------------
(* Prefixes of paths *)

LEMMA PrefixPointwise ==
  ASSUME NEW s \in Paths, NEW t \in Paths
  PROVE  /\ IsPrefix(s, t) <=> Len(s) <= Len(t) /\ \A i \in 1..Len(s) : s[i] = t[i]
         /\ IsStrictPrefix(s, t) <=> Len(s) < Len(t) /\ \A i \in 1..Len(s) : s[i] = t[i]
  <1> USE DEF Paths
  <1>1. SubSeq(s, 1, Len(s)) = s
    BY SubSeqFull
  <1>2. ASSUME Len(s) <= Len(t)
        PROVE  /\ SubSeq(t, 1, Len(s)) \in Seq(Names) /\ Len(SubSeq(t, 1, Len(s))) = Len(s)
               /\ \A i \in 1..Len(s) : SubSeq(t, 1, Len(s))[i] = t[i]
    BY <1>2
  <1>3. IsPrefix(s, t) <=> Len(s) <= Len(t) /\ \A i \in 1..Len(s) : s[i] = t[i]
    <2>1. ASSUME Len(s) <= Len(t), \A i \in 1..Len(s) : s[i] = t[i]
          PROVE  s = SubSeq(t, 1, Len(s))
      BY <1>2, <2>1, SeqEqual
    <2> QED BY <1>1, <1>2, <2>1 DEF IsPrefix
  <1>4. Len(s) = Len(t) /\ (\A i \in 1..Len(s) : s[i] = t[i]) => s = t
    BY SeqEqual
  <1> QED BY <1>3, <1>4 DEF IsStrictPrefix

LEMMA PrefixTransitive ==
  ASSUME NEW s \in Paths, NEW t \in Paths, NEW u \in Paths
  PROVE  /\ IsPrefix(s, s)
         /\ IsPrefix(s, t) /\ IsPrefix(t, u) => IsPrefix(s, u)
         /\ IsStrictPrefix(s, t) /\ IsPrefix(t, u) => IsStrictPrefix(s, u)
  BY PrefixPointwise DEF Paths

\* Two paths to the same directory: one leads through the other.
LEMMA PrefixesCompare ==
  ASSUME NEW s \in Paths, NEW t \in Paths, NEW u \in Paths, IsPrefix(s, u), IsPrefix(t, u)
  PROVE  IsPrefix(s, t) \/ IsStrictPrefix(t, s)
  BY PrefixPointwise DEF Paths

LEMMA Below ==
  ASSUME NEW path \in Paths, NEW name \in Names
  PROVE  /\ Append(path, name) \in Paths /\ Append(path, name) # <<>>
         /\ Len(Append(path, name)) = Len(path) + 1
         /\ SubSeq(Append(path, name), 1, Len(path) + 1) = Append(path, name)
         /\ \A n \in 1..Len(path) : SubSeq(Append(path, name), 1, n) = SubSeq(path, 1, n)
  <1> USE DEF Paths
  <1>1. /\ Append(path, name) \in Seq(Names) /\ Append(path, name) # <<>>
        /\ Len(Append(path, name)) = Len(path) + 1
        /\ \A i \in 1..Len(path) : Append(path, name)[i] = path[i]
    BY AppendProperties
  <1>2. SubSeq(Append(path, name), 1, Len(path) + 1) = Append(path, name)
    BY <1>1, SubSeqFull
  <1>3. ASSUME NEW n \in 1..Len(path)
        PROVE  SubSeq(Append(path, name), 1, n) = SubSeq(path, 1, n)
    BY <1>1
  <1> QED BY <1>1, <1>2, <1>3

LEMMA Above ==
  ASSUME NEW path \in Paths, path # <<>>
  PROVE  /\ Len(path) \in Nat \ {0}
         /\ Front(path) \in Paths /\ Len(Front(path)) = Len(path) - 1
         /\ Last(path) = path[Len(path)] /\ Last(path) \in Names
         /\ \A n \in 1..Len(path) - 1 : /\ Front(path)[n] = path[n]
                                        /\ SubSeq(Front(path), 1, n) = SubSeq(path, 1, n)
  <1> USE DEF Paths
  <1>1. Len(path) \in Nat \ {0} /\ Last(path) = path[Len(path)] /\ Last(path) \in Names
    BY EmptySeq DEF Last
  <1>2. /\ Front(path) \in Seq(Names) /\ Len(Front(path)) = Len(path) - 1
        /\ \A n \in 1..Len(path) - 1 : Front(path)[n] = path[n]
    <2>1. Len(path) - 1 \in Nat /\ \A i \in 1..Len(path) - 1 : path[i] \in Names
      BY <1>1
    <2> DEFINE last == Len(path) - 1
    <2>2. /\ SubSeq(path, 1, last) \in Seq(Names)
          /\ Len(SubSeq(path, 1, last)) = IF 1 <= last THEN last - 1 + 1 ELSE 0
          /\ \A i \in 1..last - 1 + 1 : SubSeq(path, 1, last)[i] = path[1 + i - 1]
      <3> HIDE DEF last
      <3> QED BY <2>1, SubSeqProperties DEF last
    <2>3. Front(path) = SubSeq(path, 1, last)
      BY DEF Front
    <2> HIDE DEF last
    <2>4. last \in Nat
      BY <2>1 DEF last
    <2>5. Len(Front(path)) = last /\ \A n \in 1..last : Front(path)[n] = path[n]
      BY <2>2, <2>3, <2>4
    <2> QED BY <2>2, <2>3, <2>5 DEF last
  <1>3. ASSUME NEW n \in 1..Len(path) - 1 PROVE SubSeq(Front(path), 1, n) = SubSeq(path, 1, n)
    BY <1>1, <1>2
  <1> QED BY <1>1, <1>2, <1>3
-----------------------------------------------------------------------------
(* What a path resolves to *)

IsWalk(at, path) ==
  at = [n \in 0..Len(path) |-> IF n = 0 THEN <<>> ELSE Follow(at[n - 1], path[n])]

Walk(path) == CHOOSE at : IsWalk(at, path)

LEMMA WalkExists == ASSUME NEW path \in Paths PROVE IsWalk(Walk(path), path)
  <1> DEFINE Upto(k, at) == at = [n \in 0..k |-> IF n = 0 THEN <<>> ELSE Follow(at[n - 1], path[n])]
             Reached == {k \in Nat : \E at : Upto(k, at)}
  <1>1. 0 \in Reached
    <2>1. Upto(0, [n \in 0..0 |-> <<>>])
      OBVIOUS
    <2> QED BY <2>1
  <1>2. ASSUME NEW k \in Nat, k \in Reached PROVE k + 1 \in Reached
    <2>1. PICK at : Upto(k, at)
      BY <1>2
    <2> DEFINE on == [n \in 0..k + 1 |-> IF n = k + 1 THEN Follow(at[k], path[k + 1]) ELSE at[n]]
    <2>2. Upto(k + 1, on)
      BY <2>1
    <2>3. \E walk : Upto(k + 1, walk)
      BY <2>2
    <2> HIDE DEF Upto
    <2> QED BY <2>3
  <1>3. \A k \in Nat : k \in Reached
    <2> HIDE DEF Reached
    <2> QED BY <1>1, <1>2, SetInduction
  <1>4. Len(path) \in Nat
    BY DEF Paths
  <1>5. \E at : IsWalk(at, path)
    BY <1>3, <1>4 DEF IsWalk
  <1> QED BY <1>5 DEF Walk

LEMMA WalkResolves == ASSUME NEW path PROVE Resolve(path) = Walk(path)[Len(path)]
  BY Zenon DEF Resolve, Walk, IsWalk

LEMMA WalkSteps ==
  ASSUME NEW path \in Paths
  PROVE  /\ Walk(path)[0] = <<>>
         /\ \A k \in 0..Len(path) - 1 : Walk(path)[k + 1] = Follow(Walk(path)[k], path[k + 1])
  <1> DEFINE at == Walk(path)
  <1>1. /\ at = [n \in 0..Len(path) |-> IF n = 0 THEN <<>> ELSE Follow(at[n - 1], path[n])]
        /\ Len(path) \in Nat
    BY WalkExists DEF IsWalk, Paths
  <1> HIDE DEF at
  <1>2. at[0] = <<>>
    BY <1>1
  <1>3. ASSUME NEW k \in 0..Len(path) - 1 PROVE at[k + 1] = Follow(at[k], path[k + 1])
    <2>1. k + 1 \in 0..Len(path) /\ k + 1 # 0 /\ (k + 1) - 1 = k
      BY <1>1
    <2> QED BY <1>1, <2>1
  <1> QED BY <1>2, <1>3 DEF at

LEMMA ResolvesByName ==
  /\ Resolve(<<>>) = <<>>
  /\ \A path \in Paths : path # <<>> => Resolve(path) = Follow(Resolve(Front(path)), Last(path))
  <1>1. Resolve(<<>>) = <<>>
    <2>1. <<>> \in Paths /\ Len(<<>>) = 0
      BY DEF Paths
    <2> QED BY <2>1, WalkResolves, WalkSteps
  <1>2. ASSUME NEW path \in Paths, path # <<>>
        PROVE  Resolve(path) = Follow(Resolve(Front(path)), Last(path))
    <2> DEFINE last == Len(path) - 1
               front == Front(path)
               Same == {k \in Nat : k <= last => Walk(front)[k] = Walk(path)[k]}
    <2>1. /\ Len(path) \in Nat /\ last \in Nat /\ front \in Paths /\ Len(front) = last
          /\ \A k \in 1..last : front[k] = path[k]
          /\ Last(path) = path[last + 1]
      BY <1>2, Above
    <2> HIDE DEF last, front
    <2>2. 0 \in Same
      BY <2>1, WalkSteps
    <2>3. ASSUME NEW k \in Nat, k \in Same PROVE k + 1 \in Same
      <3> SUFFICES ASSUME k + 1 <= last PROVE Walk(front)[k + 1] = Walk(path)[k + 1]
        OBVIOUS
      <3>1. k \in 0..Len(front) - 1 /\ k \in 0..Len(path) - 1 /\ front[k + 1] = path[k + 1]
        BY <2>1 DEF last
      <3>2. Walk(front)[k] = Walk(path)[k]
        BY <2>1, <2>3
      <3>3. Walk(front)[k + 1] = Follow(Walk(front)[k], front[k + 1])
        BY <2>1, <3>1, WalkSteps
      <3>4. Walk(path)[k + 1] = Follow(Walk(path)[k], path[k + 1])
        BY <1>2, <3>1, WalkSteps
      <3> QED BY <3>1, <3>2, <3>3, <3>4
    <2>4. last \in Same
      <3> HIDE DEF Same
      <3> QED BY <2>1, <2>2, <2>3, SetInduction
    <2>5. Resolve(front) = Walk(path)[last]
      BY <2>1, <2>4, WalkResolves
    <2>6. Walk(path)[last + 1] = Follow(Walk(path)[last], path[last + 1])
      <3>1. last \in 0..Len(path) - 1
        BY <2>1 DEF last
      <3> QED BY <1>2, <3>1, WalkSteps
    <2>7. Resolve(path) = Walk(path)[last + 1]
      BY <2>1, WalkResolves DEF last
    <2> QED BY <2>1, <2>5, <2>6, <2>7 DEF front
  <1> QED BY <1>1, <1>2

LinkShape == DOMAIN link \subseteq Paths /\ \A at \in DOMAIN link : link[at] \in Paths
RealLinks == LinkShape /\ \A at \in DOMAIN link : Real(link, link[at])

LEMMA FrontIsPath ==
  ASSUME NEW path \in Paths
  PROVE  Front(path) \in Paths /\ \A links : Real(links, path) => Real(links, Front(path))
  <1>1. CASE path = <<>>
    BY <1>1, SubSeqEmpty DEF Front, Paths, Real
  <1>2. CASE path # <<>>
    <2>1. /\ Front(path) \in Paths /\ Len(Front(path)) = Len(path) - 1 /\ Len(path) \in Nat
          /\ \A n \in 1..Len(path) - 1 : SubSeq(Front(path), 1, n) = SubSeq(path, 1, n)
      BY <1>2, Above
    <2>2. ASSUME NEW links, Real(links, path) PROVE Real(links, Front(path))
      <3> SUFFICES ASSUME NEW n \in 1..Len(path) - 1
                   PROVE  SubSeq(path, 1, n) \notin DOMAIN links
        BY <2>1 DEF Real
      <3>1. n \in 1..Len(path)
        BY <2>1
      <3> QED BY <2>2, <3>1 DEF Real
    <2> QED BY <2>1, <2>2
  <1> QED BY <1>1, <1>2

LEMMA FollowReal ==
  ASSUME LinkShape, NEW at \in Paths, NEW name \in Names
  PROVE  /\ Follow(at, name) \in Paths
         /\ RealLinks /\ Real(link, at) => Real(link, Follow(at, name))
  <1> DEFINE below == Append(at, name)
  <1>1. CASE name = ".."
    BY <1>1, FrontIsPath DEF Follow
  <1>2. CASE name # ".." /\ below \in DOMAIN link
    BY <1>2 DEF Follow, LinkShape, RealLinks
  <1>3. CASE name # ".." /\ below \notin DOMAIN link
    <2>1. Follow(at, name) = below
      BY <1>3 DEF Follow
    <2>2. below \in Paths /\ Len(below) = Len(at) + 1 /\ SubSeq(below, 1, Len(at) + 1) = below
          /\ \A n \in 1..Len(at) : SubSeq(below, 1, n) = SubSeq(at, 1, n)
      BY Below
    <2>3. Len(at) \in Nat
      BY DEF Paths
    <2> HIDE DEF below
    <2>4. ASSUME Real(link, at), NEW n \in 1..Len(below) PROVE SubSeq(below, 1, n) \notin DOMAIN link
      <3>1. CASE n = Len(at) + 1
        BY <1>3, <2>2, <3>1 DEF below
      <3>2. CASE n \in 1..Len(at)
        BY <2>2, <2>4, <3>2 DEF Real
      <3> QED BY <2>2, <2>3, <3>1, <3>2
    <2> QED BY <2>1, <2>2, <2>4 DEF Real
  <1> QED BY <1>1, <1>2, <1>3

LEMMA ResolveReal ==
  ASSUME LinkShape, NEW path \in Paths
  PROVE  /\ Resolve(path) \in Paths
         /\ RealLinks => Real(link, Resolve(path))
  <1> DEFINE Fits(p) == p \in Paths /\ (RealLinks => Real(link, p))
             Good == {k \in Nat : k <= Len(path) => Fits(Walk(path)[k])}
  <1>1. Len(path) \in Nat
    BY DEF Paths
  <1>2. 0 \in Good
    <2>1. <<>> \in Paths /\ Len(<<>>) = 0
      BY DEF Paths
    <2> QED BY <2>1, WalkSteps DEF Real
  <1>3. ASSUME NEW k \in Nat, k \in Good PROVE k + 1 \in Good
    <2> SUFFICES ASSUME k + 1 <= Len(path) PROVE Fits(Walk(path)[k + 1])
      OBVIOUS
    <2>1. Fits(Walk(path)[k]) /\ k \in 0..Len(path) - 1
      BY <1>1, <1>3
    <2>2. path[k + 1] \in Names
      BY <1>1, <2>1 DEF Paths
    <2>3. Walk(path)[k + 1] = Follow(Walk(path)[k], path[k + 1])
      BY <2>1, WalkSteps
    <2> QED BY <2>1, <2>2, <2>3, FollowReal
  <1>4. Len(path) \in Good
    <2> HIDE DEF Good
    <2> QED BY <1>1, <1>2, <1>3, SetInduction
  <1> QED BY <1>1, <1>4, WalkResolves

-----------------------------------------------------------------------------
(* The inductive invariant *)

Finished == {"removing", "failed", "done"}

Shape == /\ root \in Paths /\ candidates \in Seq(Paths) /\ resolvedRoot \in Paths
         /\ LinkShape /\ tree \subseteq Paths /\ removed \subseteq Paths
         /\ changes \in Nat /\ next \in Nat \ {0} /\ selected \in Seq(Paths)
         /\ phase \in Finished \cup {"selecting", "refused"}

\* As long as nobody else changes anything, the links are the given ones, and so is the
\* tree until the removal starts.
WorldIsGiven == changes = 0 => /\ link \in Links
                               /\ phase = "selecting" => tree \in Trees

\* Nothing unsafe stands before the loop's index, unless the call ends there.
SafeSoFar == changes = 0 => IF phase = "refused" THEN \E i \in DOMAIN candidates : Unsafe(Candidate(i))
                            ELSE \A i \in DOMAIN candidates : i < next => ~Unsafe(Candidate(i))

AllExamined == phase \in Finished => next > Len(candidates)

\* A directory that a refusal has let through.
Passed(path) == /\ IsInside(path) /\ ~IsProtected(path)
                /\ \E i \in DOMAIN candidates : Located(Candidate(i)) = path

SelectedPassed == \A n \in DOMAIN selected : Passed(selected[n])

RemovedPassed == \A dir \in removed : /\ phase \in Finished
                                      /\ \E path \in Paths : Passed(path) /\ IsPrefix(path, dir)

\* A candidate that the loop has looked at is still to be removed, or is not there.
Accounted(path) == \/ \E n \in DOMAIN selected : selected[n] = path
                   \/ \A dir \in tree : ~IsPrefix(path, dir)

AllAccounted ==
  changes = 0 /\ phase \in {"selecting", "removing", "done"} =>
    /\ \A i \in DOMAIN candidates : i < next => Accounted(Located(Candidate(i)))
    /\ phase = "done" => selected = <<>>

CleanInv == /\ Shape /\ WorldIsGiven /\ SafeSoFar /\ AllExamined
            /\ SelectedPassed /\ RemovedPassed /\ AllAccounted

-----------------------------------------------------------------------------
(* What a step leaves as it is *)

LEMMA LocatedIsPath ==
  ASSUME LinkShape, NEW path \in Paths
  PROVE  Located(path) \in Paths
  <1>1. CASE path = <<>> \/ Last(path) = ".."
    BY <1>1, ResolveReal DEF Located
  <1>2. CASE path # <<>> /\ Last(path) # ".."
    <2>1. Front(path) \in Paths /\ Last(path) \in Names
      BY <1>2, Above
    <2> QED BY <1>2, <2>1, ResolveReal, Below DEF Located
  <1> QED BY <1>1, <1>2

LEMMA CandidateIsPath ==
  ASSUME Shape, NEW i \in DOMAIN candidates
  PROVE  Candidate(i) \in Paths /\ Located(Candidate(i)) \in Paths
  <1>1. candidates[i] \in Paths /\ root \in Paths
    BY DEF Shape
  <1>2. Candidate(i) \in Paths
    BY <1>1, ConcatProperties DEF Candidate, Paths
  <1> QED BY <1>2, LocatedIsPath DEF Shape

LEMMA ResolvedStays ==
  ASSUME UNCHANGED <<link, root, candidates>>, NEW i
  PROVE  /\ Resolve(Candidate(i))' = Resolve(Candidate(i))
         /\ Located(Candidate(i))' = Located(Candidate(i))
         /\ resolvedRoot' = resolvedRoot => Unsafe(Candidate(i))' = Unsafe(Candidate(i))
  <1>1. Candidate(i)' = Candidate(i)
    BY DEF Candidate
  <1>2. ASSUME NEW path PROVE Resolve(path)' = Resolve(path)
    BY DEF Resolve, Follow
  <1>3. Resolve(Candidate(i))' = Resolve(Candidate(i))
    BY <1>1, <1>2
  <1> QED BY <1>1, <1>2, <1>3 DEF Located, Unsafe, IsProtected

Steady == /\ UNCHANGED inputs
          /\ \A i \in DOMAIN candidates : Located(Candidate(i))' = Located(Candidate(i))

LEMMA StepsAreSteady == ASSUME [Next]_vars PROVE Steady
  <1>1. CASE UNCHANGED <<inputs, link>>
    BY <1>1, ResolvedStays DEF Steady, inputs
  <1>2. CASE \E path \in CachePaths : Others(path)
    BY <1>2 DEF Steady, Others
  <1> QED BY <1>1, <1>2 DEF Next, vars, inputs, world, Examine, EndSelection, RemoveTree,
       RemoveFails, EndRemoval, Done

LEMMA PassedStays == ASSUME Steady, NEW path, Passed(path) PROVE Passed(path)'
  BY DEF Steady, inputs, Passed, IsInside, IsProtected

-----------------------------------------------------------------------------
(* A refusal hits what is unsafe, and nothing else *)

LEMMA WholePath ==
  ASSUME NEW path \in Paths, path # <<>>
  PROVE  /\ Len(path) \in 1..Len(path) /\ SubSeq(path, 1, Len(path)) = path
         /\ \A links : Real(links, path) => path \notin DOMAIN links
  <1>1. Len(path) \in Nat \ {0} /\ SubSeq(path, 1, Len(path)) = path
    BY EmptySeq, SubSeqFull DEF Paths
  <1>2. Len(path) \in 1..Len(path)
    BY <1>1
  <1> QED BY <1>1, <1>2 DEF Real

LEMMA TopIsOutside == ASSUME resolvedRoot \in Paths PROVE ~IsInside(<<>>)
  <1>1. <<>> \in Paths /\ Len(<<>>) = 0 /\ Len(resolvedRoot) \in Nat
    BY DEF Paths
  <1>2. ~(Len(resolvedRoot) < 0)
    BY <1>1
  <1> QED BY <1>1, <1>2, PrefixPointwise DEF IsInside

LEMMA RefusalIsRight ==
  ASSUME RealLinks, resolvedRoot \in Paths, NEW path \in Paths
  PROVE  /\ Refused(Located(path)) <=> Unsafe(path)
         /\ ~Unsafe(path) => Resolve(path) = Located(path)
  <1>1. Resolve(path) \in Paths /\ Real(link, Resolve(path))
    BY ResolveReal DEF RealLinks
  <1>2. ASSUME NEW real \in Paths, Real(link, real), real \in DOMAIN link PROVE ~IsInside(real)
    BY <1>2, WholePath, TopIsOutside
  <1>3. CASE path = <<>> \/ Last(path) = ".."
    <2>1. Located(path) = Resolve(path)
      BY <1>3 DEF Located
    <2> QED BY <1>1, <1>2, <1>3, <2>1 DEF Refused, Unsafe, IsSymlink, IsInside
  <1>4. CASE path # <<>> /\ Last(path) # ".."
    <2> DEFINE place == Append(Resolve(Front(path)), Last(path))
    <2>1. /\ Located(path) = place
          /\ Resolve(path) = IF place \in DOMAIN link THEN link[place] ELSE place
      BY <1>4, ResolvesByName DEF Located, Follow
    <2>2. place \in Paths /\ place # <<>>
      <3>1. Front(path) \in Paths /\ Last(path) \in Names
        BY <1>4, Above
      <3>2. Resolve(Front(path)) \in Paths
        BY <3>1, ResolveReal DEF RealLinks
      <3> QED BY <3>1, <3>2, Below
    <2> HIDE DEF place
    <2>3. CASE place \in DOMAIN link
      <3>1. ~Real(link, place)
        BY <2>2, <2>3, WholePath
      <3>2. Resolve(path) # place
        BY <1>1, <3>1
      <3> QED BY <1>4, <2>1, <2>3, <3>2 DEF Refused, Unsafe, IsSymlink, place
    <2>4. CASE place \notin DOMAIN link
      BY <1>4, <2>1, <2>4 DEF Refused, Unsafe, IsSymlink, IsInside, place
    <2> QED BY <2>3, <2>4
  <1> QED BY <1>3, <1>4

LEMMA GivenLinksAreReal ==
  ASSUME Shape, WorldIsGiven, changes = 0
  PROVE  RealLinks
  BY WorldAssumption DEF Shape, WorldIsGiven, RealLinks

\* What is not there has nothing below it.
LEMMA ClosedTrees ==
  ASSUME NEW t \in Trees, NEW path \in Paths, path # <<>>, path \notin t, NEW dir \in t
  PROVE  ~IsPrefix(path, dir)
  <1>1. dir \in Paths /\ \A n \in 1..Len(dir) : SubSeq(dir, 1, n) \in t
    BY WorldAssumption
  <1>2. SUFFICES ASSUME Len(path) <= Len(dir), path = SubSeq(dir, 1, Len(path)) PROVE FALSE
    BY WholePath DEF IsPrefix
  <1>3. Len(path) \in 1..Len(dir)
    BY <1>1, <1>2, WholePath DEF Paths
  <1> QED BY <1>1, <1>2, <1>3

-----------------------------------------------------------------------------
(* The invariant holds at first and is kept *)

LEMMA InitCleans == Init => CleanInv
  <1> SUFFICES ASSUME Init PROVE CleanInv
    OBVIOUS
  <1>1. Shape
    <2>1. root \in Paths /\ candidates \in Seq(Paths) /\ LinkShape /\ tree \subseteq Paths
      BY InputsAssumption, WorldAssumption DEF Init, LinkShape
    <2>2. resolvedRoot \in Paths
      BY <2>1, ResolveReal DEF Init
    <2> QED BY <2>1, <2>2 DEF Init, Shape
  <1>2. Len(candidates) \in Nat /\ DOMAIN candidates = 1..Len(candidates)
    BY <1>1 DEF Shape
  <1> QED BY <1>1, <1>2 DEF Init, CleanInv, WorldIsGiven, SafeSoFar, AllExamined, Finished,
       SelectedPassed, RemovedPassed, AllAccounted

LEMMA ShapeStays == ASSUME Shape, [Next]_vars PROVE Shape'
  <1>1. CASE Examine
    <2>1. next \in DOMAIN candidates
      BY <1>1 DEF Examine, Shape
    <2>2. Located(Candidate(next)) \in Paths
      BY <2>1, CandidateIsPath
    <2>3. Selecting(Located(Candidate(next))) \in Seq(Paths)
      BY <2>2, AppendProperties DEF Selecting, Shape
    <2>4. /\ selected' \in Seq(Paths)
          /\ phase' \in {"selecting", "refused"}
      <3>1. CASE Refused(Located(Candidate(next)))
        BY <1>1, <3>1 DEF Examine, AfterRefusal, Shape
      <3>2. CASE ~Refused(Located(Candidate(next)))
        BY <1>1, <2>3, <3>2 DEF Examine
      <3> QED BY <3>1, <3>2
    <2>5. /\ next' = next + 1
          /\ UNCHANGED <<root, candidates, resolvedRoot, link, tree, changes, removed>>
      BY <1>1 DEF Examine, inputs, world
    <2> QED BY <2>4, <2>5 DEF Shape, LinkShape
  <1>2. CASE RemoveTree \/ RemoveFails
    <2>1. Takes(Head(selected)) \subseteq tree
      BY DEF Takes, Under
    <2>2. /\ tree' \subseteq tree /\ removed' \subseteq removed \cup tree
          /\ phase' \in Finished /\ selected' \in {selected, Tail(selected)} /\ selected # <<>>
          /\ UNCHANGED <<root, candidates, resolvedRoot, link, changes, next>>
      BY <1>2, <2>1 DEF RemoveTree, RemoveFails, inputs, Finished
    <2>3. selected' \in Seq(Paths)
      BY <2>2, HeadTailProperties DEF Shape
    <2> QED BY <2>2, <2>3 DEF Shape, LinkShape
  <1>3. CASE EndSelection \/ EndRemoval
    BY <1>3 DEF EndSelection, EndRemoval, inputs, world, Shape, LinkShape, Finished
  <1>4. ASSUME NEW path \in CachePaths, Others(path) PROVE Shape'
    <2>1. path \in Paths
      BY InputsAssumption, Below DEF CachePaths, Shape
    <2>2. tree' \subseteq tree \cup {path}
      BY <1>4 DEF Others
    <2>3. LinkShape'
      <3> DEFINE Without == [at \in DOMAIN link \ {path} |-> link[at]]
                 With(target) == [at \in DOMAIN link \cup {path} |-> IF at = path THEN target ELSE link[at]]
      <3>1. link' = Without \/ \E target \in Targets : link' = With(target)
        BY <1>4 DEF Others
      <3>2. CASE link' = Without
        BY <3>2 DEF Shape, LinkShape
      <3>3. ASSUME NEW target \in Targets, link' = With(target) PROVE LinkShape'
        BY <2>1, <3>3, InputsAssumption DEF Shape, LinkShape
      <3> QED BY <3>1, <3>2, <3>3
    <2>4. changes' = changes + 1 /\ UNCHANGED <<root, candidates, resolvedRoot, removed, next, selected, phase>>
      BY <1>4 DEF Others, inputs
    <2> QED BY <2>1, <2>2, <2>3, <2>4 DEF Shape
  <1>5. CASE UNCHANGED vars
    BY <1>5 DEF vars, inputs, world, Shape, LinkShape
  <1> QED BY <1>1, <1>2, <1>3, <1>4, <1>5 DEF Next, Done

LEMMA WorldStaysGiven == ASSUME Shape, WorldIsGiven, [Next]_vars PROVE WorldIsGiven'
  <1>1. CASE \E path \in CachePaths : Others(path)
    BY <1>1 DEF Others, Shape, WorldIsGiven
  <1>2. CASE ~\E path \in CachePaths : Others(path)
    <2>1. UNCHANGED <<link, changes>>
      BY <1>2 DEF Next, vars, inputs, world, Examine, EndSelection, RemoveTree, RemoveFails,
         EndRemoval, Done
    <2>2. phase' = "selecting" => phase = "selecting" /\ tree' = tree
      <3>1. CASE Examine
        BY <3>1 DEF Examine, world
      <3>2. CASE EndSelection \/ RemoveTree \/ RemoveFails \/ EndRemoval
        BY <3>2 DEF EndSelection, RemoveTree, RemoveFails, EndRemoval
      <3>3. CASE UNCHANGED vars
        BY <3>3 DEF vars, world
      <3> QED BY <1>2, <3>1, <3>2, <3>3 DEF Next, Done
    <2> QED BY <2>1, <2>2 DEF WorldIsGiven
  <1> QED BY <1>1, <1>2

LEMMA SafeSoFarStays == ASSUME CleanInv, [Next]_vars PROVE SafeSoFar'
  <1> SUFFICES ASSUME changes' = 0 PROVE SafeSoFar'
    BY DEF SafeSoFar
  <1>1. changes = 0 /\ UNCHANGED <<inputs, link, changes>>
    <2>1. \A path \in CachePaths : Others(path) => changes' = changes + 1
      BY DEF Others
    <2>2. ~\E path \in CachePaths : Others(path)
      BY <2>1 DEF CleanInv, Shape
    <2> QED BY <2>2 DEF Next, vars, inputs, world, Examine, EndSelection, RemoveTree, RemoveFails,
         EndRemoval, Done
  <1>2. \A i : Unsafe(Candidate(i))' = Unsafe(Candidate(i))
    BY <1>1, ResolvedStays DEF inputs
  <1>3. RealLinks /\ resolvedRoot \in Paths
    BY <1>1, GivenLinksAreReal DEF CleanInv, Shape
  <1>4. CASE Examine
    <2>1. next \in DOMAIN candidates
      BY <1>4 DEF Examine, CleanInv, Shape
    <2>2. Refused(Located(Candidate(next))) <=> Unsafe(Candidate(next))
      BY <1>3, <2>1, CandidateIsPath, RefusalIsRight DEF CleanInv
    <2>3. CASE Refused(Located(Candidate(next)))
      BY <1>1, <1>2, <1>4, <2>1, <2>2, <2>3 DEF Examine, AfterRefusal, SafeSoFar, inputs
    <2>4. CASE ~Refused(Located(Candidate(next)))
      <3>1. phase' = phase /\ phase = "selecting" /\ next' = next + 1
        BY <1>4, <2>4 DEF Examine
      <3>2. \A i \in DOMAIN candidates : i < next + 1 => i < next \/ i = next
        BY DEF CleanInv, Shape
      <3>3. \A i \in DOMAIN candidates : i < next => ~Unsafe(Candidate(i))
        BY <1>1, <3>1 DEF CleanInv, SafeSoFar
      <3> QED BY <1>1, <1>2, <2>2, <2>4, <3>1, <3>2, <3>3 DEF SafeSoFar, inputs
    <2> QED BY <2>3, <2>4
  <1>5. CASE ~Examine
    <2>1. next' = next /\ (phase' = "refused" <=> phase = "refused")
      BY <1>5 DEF Next, vars, inputs, world, EndSelection, RemoveTree, RemoveFails, EndRemoval,
         Done, Others
    <2> QED BY <1>1, <1>2, <2>1 DEF SafeSoFar, CleanInv, inputs
  <1> QED BY <1>4, <1>5

LEMMA AllExaminedStays == ASSUME Shape, AllExamined, [Next]_vars PROVE AllExamined'
  <1>1. CASE Examine
    BY <1>1 DEF Examine, AfterRefusal, AllExamined, Finished
  <1>2. CASE EndSelection
    BY <1>2 DEF EndSelection, inputs, AllExamined
  <1>3. CASE ~Examine /\ ~EndSelection
    <2>1. UNCHANGED <<candidates, next>> /\ (phase' \in Finished => phase \in Finished)
      BY <1>3 DEF Next, vars, inputs, RemoveTree, RemoveFails, EndRemoval, Others, Done, Finished
    <2> QED BY <2>1 DEF AllExamined
  <1> QED BY <1>1, <1>2, <1>3

\* What the list of paths to remove looks like after a step.
LEMMA Selections ==
  ASSUME Shape, [Next]_vars
  PROVE  \A n \in DOMAIN selected' :
           \/ \E m \in DOMAIN selected : selected'[n] = selected[m]
           \/ /\ Examine /\ next \in DOMAIN candidates
              /\ selected'[n] = Located(Candidate(next)) /\ ~Refused(selected'[n])
  <1>1. CASE selected' = selected
    BY <1>1
  <1>2. CASE Examine /\ selected' # selected
    <2> DEFINE path == Located(Candidate(next))
    <2>1. next \in DOMAIN candidates
      BY <1>2 DEF Examine, Shape
    <2>2. path \in Paths
      BY <2>1, CandidateIsPath
    <2>3. ~Refused(path) /\ selected' = Append(selected, path)
      BY <1>2 DEF Examine, Selecting
    <2> HIDE DEF path
    <2>4. /\ DOMAIN selected' = 1..Len(selected) + 1 /\ DOMAIN selected = 1..Len(selected)
          /\ Len(selected) \in Nat
          /\ selected'[Len(selected) + 1] = path
          /\ \A n \in 1..Len(selected) : selected'[n] = selected[n]
      BY <2>2, <2>3, AppendProperties, LenProperties DEF Shape
    <2>5. \A n \in DOMAIN selected' : n \in DOMAIN selected \/ n = Len(selected) + 1
      BY <2>4
    <2> QED BY <1>2, <2>1, <2>3, <2>4, <2>5 DEF path
  <1>3. CASE RemoveTree
    <2>1. selected # <<>> /\ selected' = Tail(selected) /\ selected \in Seq(Paths)
      BY <1>3 DEF RemoveTree, Shape
    <2>2. /\ Len(selected) \in Nat /\ DOMAIN selected = 1..Len(selected)
          /\ DOMAIN selected' = 1..Len(selected) - 1
          /\ \A n \in 1..Len(selected) - 1 : selected'[n] = selected[n + 1]
      BY <2>1, HeadTailProperties, LenProperties
    <2>3. \A n \in 1..Len(selected) - 1 : n + 1 \in DOMAIN selected
      BY <2>2
    <2> QED BY <2>2, <2>3
  <1> QED BY <1>1, <1>2, <1>3 DEF Next, vars, EndSelection, RemoveFails, EndRemoval, Others, Done

LEMMA SelectedPassedStays ==
  ASSUME Shape, SelectedPassed, [Next]_vars
  PROVE  SelectedPassed'
  <1> SUFFICES ASSUME NEW n \in DOMAIN selected' PROVE Passed(selected[n])'
    BY DEF SelectedPassed
  <1>1. PICK path : path = selected'[n]
    OBVIOUS
  <1>2. Passed(path)
    <2>1. CASE \E m \in DOMAIN selected : path = selected[m]
      BY <2>1 DEF SelectedPassed
    <2>2. CASE /\ next \in DOMAIN candidates /\ path = Located(Candidate(next)) /\ ~Refused(path)
      BY <2>2 DEF Passed, Refused
    <2> QED BY <1>1, <2>1, <2>2, Selections
  <1>3. Passed(path)'
    BY <1>2, StepsAreSteady, PassedStays
  <1> QED BY <1>1, <1>3 DEF Passed, IsInside, IsProtected

LEMMA HeadIsSelected ==
  ASSUME Shape, selected # <<>>
  PROVE  /\ 1 \in DOMAIN selected /\ Head(selected) = selected[1] /\ Head(selected) \in Paths
         /\ \A n \in DOMAIN selected : n = 1 \/ (n - 1 \in DOMAIN Tail(selected)
                                               /\ Tail(selected)[n - 1] = selected[n])
  <1>1. /\ selected \in Seq(Paths) /\ Len(selected) \in Nat \ {0}
        /\ DOMAIN selected = 1..Len(selected)
    BY EmptySeq, LenProperties DEF Shape
  <1>2. /\ Head(selected) \in Paths
        /\ Tail(selected) \in Seq(Paths) /\ Len(Tail(selected)) = Len(selected) - 1
        /\ \A i \in 1..Len(Tail(selected)) : Tail(selected)[i] = selected[i + 1]
    BY <1>1, HeadTailProperties
  <1>3. DOMAIN Tail(selected) = 1..Len(selected) - 1
    BY <1>2, LenProperties
  <1>4. Head(selected) = selected[1] /\ 1 \in DOMAIN selected
    BY <1>1
  <1>5. ASSUME NEW n \in DOMAIN selected, n # 1
        PROVE  n - 1 \in 1..Len(selected) - 1 /\ (n - 1) + 1 = n
    BY <1>1, <1>5
  <1> QED BY <1>2, <1>3, <1>4, <1>5

LEMMA RemovedPassedStays ==
  ASSUME CleanInv, [Next]_vars
  PROVE  RemovedPassed'
  <1> SUFFICES ASSUME NEW dir \in removed'
               PROVE  phase' \in Finished /\ \E path \in Paths : Passed(path)' /\ IsPrefix(path, dir)
    BY DEF RemovedPassed
  <1>1. ASSUME NEW path, Passed(path) PROVE Passed(path)'
    BY <1>1, StepsAreSteady, PassedStays
  <1>2. CASE dir \in removed
    <2>1. phase \in Finished /\ \E path \in Paths : Passed(path) /\ IsPrefix(path, dir)
      BY <1>2 DEF CleanInv, RemovedPassed
    <2>2. phase' \in Finished
      BY <2>1 DEF Next, vars, Examine, EndSelection, RemoveTree, RemoveFails, EndRemoval, Others,
         Done, Finished
    <2> QED BY <1>1, <2>1, <2>2
  <1>3. CASE dir \notin removed
    <2>1. RemoveTree \/ RemoveFails
      BY <1>3 DEF Next, vars, inputs, world, Examine, EndSelection, EndRemoval, Others, Done
    <2>2. selected # <<>> /\ dir \in Takes(Head(selected)) /\ phase' \in Finished
      BY <1>3, <2>1 DEF RemoveTree, RemoveFails, Finished
    <2>3. Passed(Head(selected)) /\ Head(selected) \in Paths
      BY <2>2, HeadIsSelected DEF CleanInv, SelectedPassed
    <2>4. IsPrefix(Head(selected), dir)
      BY <2>2 DEF Takes, Under
    <2> QED BY <1>1, <2>2, <2>3, <2>4
  <1> QED BY <1>2, <1>3

LEMMA AllAccountedStays ==
  ASSUME CleanInv, [Next]_vars
  PROVE  AllAccounted'
  <1> SUFFICES ASSUME changes' = 0, phase' \in {"selecting", "removing", "done"}
               PROVE  /\ \A i \in DOMAIN candidates :
                           i < next' => Accounted(Located(Candidate(i)))'
                      /\ phase' = "done" => selected' = <<>>
    BY StepsAreSteady DEF AllAccounted, Steady, inputs
  <1>1. ~\E path \in CachePaths : Others(path)
    <2>1. \A path \in CachePaths : Others(path) => changes' = changes + 1
      BY DEF Others
    <2> QED BY <2>1 DEF CleanInv, Shape
  <1>2. changes = 0 /\ phase \in {"selecting", "removing", "done"}
    BY <1>1 DEF Next, vars, inputs, world, Examine, EndSelection, RemoveTree, RemoveFails,
       EndRemoval, Done
  <1>3. /\ \A i \in DOMAIN candidates : i < next => Accounted(Located(Candidate(i)))
        /\ phase = "done" => selected = <<>>
    BY <1>2 DEF CleanInv, AllAccounted
  <1>4. phase' = "done" => selected' = <<>>
    BY <1>1, <1>3 DEF Next, vars, inputs, world, Examine, AfterRefusal, EndSelection, RemoveTree,
       RemoveFails, EndRemoval, Done
  <1>5. ASSUME NEW i \in DOMAIN candidates, i < next' PROVE Accounted(Located(Candidate(i)))'
    <2>1. PICK path : path = Located(Candidate(i))
      OBVIOUS
    <2>2. Located(Candidate(i))' = path /\ path \in Paths
      BY <2>1, StepsAreSteady, CandidateIsPath DEF Steady, CleanInv
    <2>3. SUFFICES Accounted(path)'
      BY <2>2 DEF Accounted
    <2>4. tree' \subseteq tree
      BY <1>1 DEF Next, vars, world, Examine, EndSelection, RemoveTree, RemoveFails, EndRemoval, Done
    <2>5. CASE Accounted(path) /\ selected' = selected
      BY <2>4, <2>5 DEF Accounted
    <2>6. CASE RemoveTree
      <3>1. Accounted(path) /\ selected # <<>> /\ selected' = Tail(selected)
        BY <1>3, <1>5, <2>1, <2>6 DEF RemoveTree
      <3>2. CASE \A dir \in tree : ~IsPrefix(path, dir)
        BY <2>4, <3>2 DEF Accounted
      <3>3. ASSUME NEW n \in DOMAIN selected, selected[n] = path PROVE Accounted(path)'
        <4>1. CASE n = 1
          <5>1. Head(selected) = path
            BY <3>1, <3>3, <4>1, HeadIsSelected DEF CleanInv
          <5>2. tree' = tree \ {dir \in tree : IsPrefix(path, dir)}
            BY <2>6, <5>1 DEF RemoveTree, Takes, Under
          <5> QED BY <5>2 DEF Accounted
        <4>2. CASE n # 1
          BY <3>1, <3>3, <4>2, HeadIsSelected DEF Accounted, CleanInv
        <4> QED BY <4>1, <4>2
      <3> QED BY <3>1, <3>2, <3>3 DEF Accounted
    <2>7. CASE Examine
      <3>1. ~Refused(Located(Candidate(next))) /\ selected' = Selecting(Located(Candidate(next)))
        BY <2>7 DEF Examine, AfterRefusal
      <3>2. next' = next + 1 /\ next \in DOMAIN candidates /\ phase = "selecting" /\ tree' = tree
        BY <2>7 DEF Examine, CleanInv, Shape, world
      <3>3. CASE i = next
        <4>1. CASE path \in tree
          <5>1. selected' = Append(selected, path) /\ selected \in Seq(Paths)
            BY <2>1, <3>1, <3>3, <4>1 DEF Selecting, CleanInv, Shape
          <5>2. /\ Len(selected) + 1 \in DOMAIN selected'
                /\ selected'[Len(selected) + 1] = path
            BY <2>2, <5>1, AppendProperties, LenProperties
          <5> QED BY <5>2 DEF Accounted
        <4>2. CASE path \notin tree
          <5>1. path # <<>>
            BY <2>1, <3>1, <3>3, TopIsOutside DEF Refused, CleanInv, Shape
          <5>2. tree \in Trees
            BY <1>2, <3>2 DEF CleanInv, WorldIsGiven
          <5>3. \A dir \in tree : ~IsPrefix(path, dir)
            BY <2>2, <4>2, <5>1, <5>2, ClosedTrees
          <5> QED BY <3>2, <5>3 DEF Accounted
        <4> QED BY <4>1, <4>2
      <3>4. CASE i # next
        <4>1. Accounted(path)
          <5>1. i < next
            BY <1>5, <3>2, <3>4 DEF CleanInv, Shape
          <5> QED BY <1>3, <2>1, <5>1
        <4>2. ASSUME NEW n \in DOMAIN selected
              PROVE  n \in DOMAIN selected' /\ selected'[n] = selected[n]
          <5>1. Located(Candidate(next)) \in Paths /\ selected \in Seq(Paths)
            BY <3>2, CandidateIsPath DEF CleanInv, Shape
          <5>2. CASE selected' = selected
            BY <5>2
          <5>3. CASE selected' = Append(selected, Located(Candidate(next)))
            BY <5>1, <5>3, AppendProperties, LenProperties
          <5> QED BY <3>1, <5>2, <5>3 DEF Selecting
        <4> QED BY <3>2, <4>1, <4>2 DEF Accounted
      <3> QED BY <3>3, <3>4
    <2>8. CASE EndSelection \/ EndRemoval \/ UNCHANGED vars
      <3>1. next' = next /\ selected' = selected
        BY <2>8 DEF EndSelection, EndRemoval, vars
      <3> QED BY <1>3, <1>5, <2>1, <2>5, <3>1
    <2>9. ~RemoveFails
      BY DEF RemoveFails
    <2> QED BY <1>1, <2>6, <2>7, <2>8, <2>9 DEF Next, Done
  <1> QED BY <1>4, <1>5

LEMMA NextCleans == CleanInv /\ [Next]_vars => CleanInv'
  BY ShapeStays, WorldStaysGiven, SafeSoFarStays, AllExaminedStays, SelectedPassedStays,
     RemovedPassedStays, AllAccountedStays DEF CleanInv

LEMMA Cleans == Spec => []CleanInv
  BY InitCleans, NextCleans, PTL DEF Spec

-----------------------------------------------------------------------------
(* The rules *)

\* Without changes by others, the call is refused if and only if a candidate is unsafe:
\* SafeSoFar at the end of the loop, which AllExamined says was reached.
THEOREM UnsafeAreRefused == Spec => []RefusesExactlyTheUnsafe
  <1>1. CleanInv => RefusesExactlyTheUnsafe
    <2>1. ASSUME Shape, AllExamined, phase \in Finished, NEW i \in DOMAIN candidates PROVE i < next
      BY <2>1 DEF Shape, AllExamined
    <2> QED BY <2>1 DEF CleanInv, SafeSoFar, RefusesExactlyTheUnsafe, Finished
  <1> QED BY <1>1, Cleans, PTL

\* Whatever others do in the meantime, nothing goes before the last candidate has passed,
\* and what goes lies at or below a candidate that is inside the repository.
THEOREM OnlyCandidatesAreRemoved == Spec => []RemovesOnlyCandidates
  <1>1. CleanInv => RemovesOnlyCandidates
    <2> SUFFICES ASSUME CleanInv, NEW dir \in removed
                 PROVE  /\ next > Len(candidates) /\ phase # "refused"
                        /\ IsStrictPrefix(resolvedRoot, dir)
                        /\ \E i \in DOMAIN candidates : IsPrefix(Located(Candidate(i)), dir)
      BY DEF RemovesOnlyCandidates
    <2>1. phase \in Finished /\ \E path \in Paths : Passed(path) /\ IsPrefix(path, dir)
      BY DEF CleanInv, RemovedPassed
    <2>2. resolvedRoot \in Paths /\ dir \in Paths
      BY DEF CleanInv, Shape
    <2>3. next > Len(candidates) /\ phase # "refused"
      BY <2>1 DEF CleanInv, AllExamined, Finished
    <2>4. PICK path \in Paths : Passed(path) /\ IsPrefix(path, dir)
      BY <2>1
    <2>5. IsStrictPrefix(resolvedRoot, dir)
      BY <2>2, <2>4, PrefixTransitive DEF Passed, IsInside
    <2> QED BY <2>3, <2>4, <2>5 DEF Passed
  <1> QED BY <1>1, Cleans, PTL

\* A clean that ends has removed every candidate with all that was below it: each is
\* accounted for, and nothing is left to remove.
THEOREM EveryCandidateGoes == Spec => []DoneRemovesAll
  <1>1. CleanInv => DoneRemovesAll
    <2> SUFFICES ASSUME CleanInv, phase = "done", changes = 0, NEW i \in DOMAIN candidates
                 PROVE  \A dir \in tree : ~IsPrefix(Resolve(Candidate(i)), dir)
      BY DEF DoneRemovesAll
    <2>1. i < next
      BY DEF CleanInv, Shape, AllExamined, Finished
    <2>2. ~Unsafe(Candidate(i))
      BY <2>1 DEF CleanInv, SafeSoFar
    <2>3. Resolve(Candidate(i)) = Located(Candidate(i))
      BY <2>2, GivenLinksAreReal, CandidateIsPath, RefusalIsRight DEF CleanInv, Shape
    <2>4. Accounted(Located(Candidate(i))) /\ selected = <<>>
      BY <2>1 DEF CleanInv, AllAccounted
    <2>5. DOMAIN selected = {}
      BY <2>4
    <2> QED BY <2>3, <2>4, <2>5 DEF Accounted
  <1> QED BY <1>1, Cleans, PTL

\* A protected directory goes only with a candidate above it: the directory and the
\* candidate are both on the way to what was removed, and a candidate in or below the
\* protected directory is refused.
THEOREM ProtectedAreKept == Spec => []ProtectedStay
  <1>1. CleanInv => ProtectedStay
    <2> SUFFICES ASSUME CleanInv, NEW dir \in removed, NEW protected \in Protected,
                        IsPrefix(resolvedRoot \o protected, dir)
                 PROVE  \E i \in DOMAIN candidates :
                          /\ IsInside(Located(Candidate(i)))
                          /\ IsStrictPrefix(Located(Candidate(i)), resolvedRoot \o protected)
      BY DEF ProtectedStay
    <2>1. PICK path \in Paths : Passed(path) /\ IsPrefix(path, dir)
      BY DEF CleanInv, RemovedPassed
    <2>2. resolvedRoot \in Paths /\ dir \in Paths
      BY DEF CleanInv, Shape
    <2>3. resolvedRoot \o protected \in Paths
      <3>1. protected \in Paths
        BY NamesAssumption
      <3> QED BY <2>2, <3>1, ConcatProperties DEF Paths
    <2>4. ~IsPrefix(resolvedRoot \o protected, path)
      BY <2>1 DEF Passed, IsProtected
    <2>5. IsStrictPrefix(path, resolvedRoot \o protected)
      BY <2>1, <2>2, <2>3, <2>4, PrefixesCompare
    <2> QED BY <2>1, <2>5 DEF Passed
  <1> QED BY <1>1, Cleans, PTL
=============================================================================
