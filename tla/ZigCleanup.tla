----------------------------- MODULE ZigCleanup -----------------------------
(***************************************************************************)
(* devops clean: choosing the cache paths (zig_cleanup.py) and removing    *)
(* them one by one (remove_zig_build_caches).  A path is a sequence of     *)
(* names from the file system's root; `tree` holds the directories by      *)
(* their real paths, `link` maps the path of a symlink to where it leads.  *)
(* Others may replace a cache directory at any moment in between, but not  *)
(* a directory that a candidate's path leads through.                      *)
(***************************************************************************)
EXTENDS Naturals, SequencesExt

CONSTANTS
  Names,       \* the names on paths
  Roots,       \* how the repository root may be given
  Candidates,  \* sequences of paths, relative to the root, that may be passed
  Trees,       \* sets of directories that may exist
  Links,       \* functions from symlinks to their targets
  CacheNames,  \* the cache directories that others make, replace and remove
  Targets,     \* where a symlink that others put there may lead
  MaxChanges   \* bound: changes that others make

Paths == Seq(Names)

\* A path is real if no symlink is on it.
Real(links, path) == \A n \in 1..Len(path) : SubSeq(path, 1, n) \notin DOMAIN links

ASSUME BoundsAssumption == MaxChanges \in Nat
ASSUME InputsAssumption == /\ Roots \subseteq Paths /\ \A list \in Candidates : list \in Seq(Paths)
                           /\ CacheNames \subseteq Names /\ Targets \subseteq Paths
\* A directory's parents exist; a symlink's final target is a real path.
ASSUME WorldAssumption ==
  /\ \A t \in Trees : /\ t \subseteq Paths
                      /\ \A dir \in t : \A n \in 1..Len(dir) : SubSeq(dir, 1, n) \in t
  /\ \A links \in Links : /\ DOMAIN links \subseteq Paths
                          /\ \A at \in DOMAIN links : links[at] \in Paths /\ Real(links, links[at])

Protected == {<<".git">>, <<"cache", "logs">>}
ASSUME NamesAssumption == Protected \subseteq Paths

VARIABLES root, candidates,        \* the call's inputs
          resolvedRoot,            \* the root's real path, taken once
          link, tree, changes,     \* symlinks and directories; changes by others
          removed,                 \* directories that this call has removed
          next, selected,          \* the loop's index; the paths to remove
          phase                    \* "selecting", "refused", "removing", "failed", "done"

inputs == <<root, candidates, resolvedRoot>>
world == <<link, tree, changes, removed>>
vars == <<inputs, world, next, selected, phase>>

\* Path.resolve: name by name, following symlinks; ".." leads to the real parent,
\* and from the top to the top.
Follow(at, name) == LET below == Append(at, name)
                    IN IF name = ".." THEN Front(at)
                       ELSE IF below \in DOMAIN link THEN link[below] ELSE below

Resolve(path) ==
  LET at[n \in 0..Len(path)] == IF n = 0 THEN <<>> ELSE Follow(at[n - 1], path[n])
  IN at[Len(path)]

Init == /\ root \in Roots /\ candidates \in Candidates
        /\ link \in Links /\ tree \in {t \in Trees : t \cap DOMAIN link = {}}
        /\ resolvedRoot = Resolve(root)
        /\ changes = 0 /\ removed = {}
        /\ next = 1 /\ selected = <<>> /\ phase = "selecting"

Candidate(i) == root \o candidates[i]

LocatedFollowing(path) == Resolve(path)
\* The parent is resolved, a last name that is not ".." is kept.
Located(path) == IF path = <<>> \/ Last(path) = ".." THEN Resolve(path)
                 ELSE Append(Resolve(Front(path)), Last(path))

IsInside(path) == IsStrictPrefix(resolvedRoot, path)
IsProtected(path) == \E dir \in Protected : IsPrefix(resolvedRoot \o dir, path)
IsSymlink(path) == path \in DOMAIN link

RefusedUnlessProtected(path) == ~IsInside(path) \/ IsSymlink(path)
Refused(path) == ~IsInside(path) \/ IsProtected(path) \/ IsSymlink(path)

SelectingLast(path) == IF path \in tree THEN <<path>> ELSE selected
Selecting(path) == IF path \in tree THEN Append(selected, path) ELSE selected

\* One turn of the loop: a refusal raises, what exists is selected.
AfterRefusal == "refused"

Examine ==
  /\ phase = "selecting" /\ next <= Len(candidates)
  /\ LET path == Located(Candidate(next)) IN
     IF Refused(path) THEN phase' = AfterRefusal /\ UNCHANGED selected
     ELSE /\ selected' = Selecting(path)
          /\ UNCHANGED phase
  /\ next' = next + 1
  /\ UNCHANGED <<inputs, world>>

EndSelection == /\ phase = "selecting" /\ next > Len(candidates)
                /\ phase' = "removing"
                /\ UNCHANGED <<inputs, world, next, selected>>

Under(path) == {dir \in tree : IsPrefix(path, dir)}

\* What is removed below `path`, which stays when it is a symlink by now.
TakesFollowing(path) == Under(Resolve(path))
Takes(path) == Under(path)

\* rmtree, all of it or, after an OSError, a part: it raises on what is gone, on a
\* symlink, and when somebody writes into the tree.  (The walk that measures the
\* tree first may raise too; it removes nothing.)
RemoveTree == /\ phase = "removing" /\ selected # <<>> /\ Takes(Head(selected)) # {}
              /\ tree' = tree \ Takes(Head(selected))
              /\ removed' = removed \cup Takes(Head(selected))
              /\ selected' = Tail(selected)
              /\ UNCHANGED <<inputs, link, changes, next, phase>>

RemoveFails == /\ phase = "removing" /\ selected # <<>>
               /\ \E gone \in SUBSET Takes(Head(selected)) :
                    tree' = tree \ gone /\ removed' = removed \cup gone
               /\ phase' = "failed"
               /\ UNCHANGED <<inputs, link, changes, next, selected>>

EndRemoval == /\ phase = "removing" /\ selected = <<>>
              /\ phase' = "done"
              /\ UNCHANGED <<inputs, world, next, selected>>

\* A build or the user makes, removes or relinks a cache directory meanwhile,
\* which is not on the way to a candidate.
CachePaths == {Append(resolvedRoot, name) : name \in CacheNames}

Others(path) ==
  /\ phase \in {"selecting", "removing"} /\ changes < MaxChanges
  /\ LET bare == tree \ Under(path)
     IN \/ /\ link' = [at \in DOMAIN link \ {path} |-> link[at]]
           /\ tree' \in {bare, bare \cup {path}}
        \/ /\ \E target \in Targets :
                link' = [at \in DOMAIN link \cup {path} |-> IF at = path THEN target ELSE link[at]]
           /\ tree' = bare
  /\ changes' = changes + 1
  /\ UNCHANGED <<inputs, removed, next, selected, phase>>
  /\ \A i \in DOMAIN candidates : Located(Candidate(i))' = Located(Candidate(i))

Done == phase \in {"refused", "failed", "done"} /\ UNCHANGED vars

Next == Examine \/ EndSelection \/ RemoveTree \/ RemoveFails \/ EndRemoval
        \/ (\E path \in CachePaths : Others(path)) \/ Done

Spec == Init /\ [][Next]_vars

-----------------------------------------------------------------------------
(* Properties *)

\* The docstring's words on real paths: a candidate is unsafe if it leads outside
\* the repository, to its root, into a protected directory, or is a symlink.
Unsafe(path) == \/ path # <<>> /\ Last(path) # ".." /\ Resolve(path) # Append(Resolve(Front(path)), Last(path))
                \/ ~IsStrictPrefix(resolvedRoot, Resolve(path))
                \/ IsProtected(Resolve(path))

\* "Refuse the whole set if any is unsafe": wherever an unsafe candidate stands in
\* the list, the call ends in a refusal, and no call without one does.
RefusesExactlyTheUnsafe ==
  LET unsafe == \E i \in DOMAIN candidates : Unsafe(Candidate(i))
  IN changes = 0 => /\ phase \in {"removing", "failed", "done"} => ~unsafe
                    /\ phase = "refused" => unsafe

\* All or nothing, and only what was listed: nothing is removed before the last
\* candidate has passed, and what is removed lies at or below a candidate, inside
\* the repository, also when a cache directory has become a symlink since it was
\* looked at.
RemovesOnlyCandidates ==
  \A dir \in removed :
    /\ next > Len(candidates) /\ phase # "refused"
    /\ IsStrictPrefix(resolvedRoot, dir)
    /\ \E i \in DOMAIN candidates : IsPrefix(Located(Candidate(i)), dir)

\* A clean that goes through to the end has removed each candidate, with all that
\* was under it, wherever in the list it stood and whatever else was listed.
DoneRemovesAll ==
  phase = "done" /\ changes = 0 =>
    \A i \in DOMAIN candidates : \A dir \in tree : ~IsPrefix(Resolve(Candidate(i)), dir)

\* ".git/ and cache/logs/ are never cleaned", the refusal's text, whatever others
\* link to them in the meantime; unless a directory that holds them is listed, which
\* the refusal does not look for: .git never goes, and cache/logs only with cache.
ProtectedStay ==
  \A dir \in removed, protected \in Protected :
    IsPrefix(resolvedRoot \o protected, dir) =>
      \E i \in DOMAIN candidates : /\ IsInside(Located(Candidate(i)))
                                  /\ IsStrictPrefix(Located(Candidate(i)), resolvedRoot \o protected)
=============================================================================
