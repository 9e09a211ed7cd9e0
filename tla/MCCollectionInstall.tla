------------------------- MODULE MCCollectionInstall -------------------------
(* Two revisions of a source: a file is added to g, and h gets a version.   *)
EXTENDS CollectionInstall, TLC

CONSTANTS g, h, v1, v2, r1, r2, a, b, dir, other

TwoRevisions ==
  [r \in Revision |->
     IF r = r1 THEN {<<g, v1, a>>, <<h, v1, a>>}
               ELSE {<<g, v1, a>>, <<g, v1, b>>, <<h, v2, a>>}]

Locked(gem, version, source) == [gem |-> gem, version |-> version, source |-> source]

\* g moves to a directory, comes back at another revision, and goes back to the revision
\* it had first, as when a branch is left; h is dropped, comes back from another
\* directory, and moves to git, at a revision whose tree alone has it.
Changing ==
  <<{Locked(g, v1, r2), Locked(h, v1, dir)},
    {Locked(g, v1, dir)},
    {Locked(g, v1, r1), Locked(h, v1, other)},
    {Locked(g, v1, r2), Locked(h, v1, r1)}>>
\* g changes its revision, and goes back to the one it had.
Returning == <<{Locked(g, v1, r2)}, {Locked(g, v1, r1)}, {Locked(g, v1, r2)}>>
\* Nobody updates the lockfile.
Constant == <<{Locked(g, v1, r1), Locked(h, v1, r1)}>>

Projects == Permutations(Project)
=============================================================================
