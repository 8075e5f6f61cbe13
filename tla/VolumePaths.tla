---------------------------- MODULE VolumePaths ----------------------------
(***************************************************************************)
(* Paths and mount tables as system/storagespeed.cpp works on them.  A     *)
(* path is the sequence of its names, the root the empty one: the code     *)
(* compares its strings on whole components, so nothing else tells two     *)
(* paths apart.  A link's target is a path too, in which ".." climbs.      *)
(***************************************************************************)
EXTENDS Naturals, Sequences, SequencesExt

IsWithinFolder(path, folder) == IsPrefix(folder, path)

\* A later mount on the same point hides the earlier ones.
Holding(mounts, path) == {n \in DOMAIN mounts : IsWithinFolder(path, mounts[n].point)}
IsDeepest(mounts, S, n) == n \in S /\ \A k \in S :
  \/ Len(mounts[k].point) < Len(mounts[n].point)
  \/ Len(mounts[k].point) = Len(mounts[n].point) /\ k <= n

NoMount == [point |-> <<>>, volume |-> <<>>, local |-> FALSE]
MountForPath(mounts, path) ==
  LET S == Holding(mounts, path) IN
  IF S = {} THEN NoMount ELSE mounts[CHOOSE n \in S : IsDeepest(mounts, S, n)]

\* The longest matching firmlink is replaced by its target.
CanonicalPath(path, firmlinks) ==
  LET S == {f \in DOMAIN firmlinks : IsWithinFolder(path, f)}
      f == CHOOSE g \in S : \A k \in S : Len(k) <= Len(g)
  IN IF S = {} THEN path ELSE firmlinks[f] \o SubSeq(path, Len(f) + 1, Len(path))

\* lexically_normal: ".." takes the name before it away, and the root is its
\* own parent.
Climb(path, name) ==
  IF name # ".." THEN Append(path, name) ELSE IF path = <<>> THEN <<>> ELSE Front(path)
LexicallyNormal(path) == FoldLeft(Climb, <<>>, path)
=============================================================================
