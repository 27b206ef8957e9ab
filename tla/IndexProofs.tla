---------------------------- MODULE IndexProofs ----------------------------
(***************************************************************************)
(* The root index, proved for trees of any size and any number of roots.   *)
(***************************************************************************)
EXTENDS IndexChecks, RootIndexProofs

----------------------------------------------------------------------------
(* The inductive invariant: the index is consistent. *)
Indexed == IsIndex(idx, Names)

LEMMA BoundedPathsArePaths == BoundedPaths \subseteq Path(Names)
BY DEF BoundedPaths, Path

LEMMA PreparedRootsAreRoots == PreparedRoots \subseteq RootOf(Names)
<1>1. ASSUME NEW p \in BoundedPaths, NEW b \in BOOLEAN
      PROVE  DirRoot(p, b) \in RootOf(Names) /\ FileRoot(p) \in RootOf(Names)
  BY <1>1, BoundedPathsArePaths, ParentIsPath DEF DirRoot, FileRoot, RootOf
<1> QED BY <1>1 DEF PreparedRoots

LEMMA IndexedNext == Indexed /\ [Next]_idx => Indexed'
<1> SUFFICES ASSUME Indexed, [Next]_idx PROVE IsIndex(idx', Names)
  BY DEF Indexed, IsIndex, RootsTyped, KeyedByPath, LookupsCurrent, RootKeys
<1> USE DEF Indexed
<1>1. ASSUME NEW r \in PreparedRoots, AddRoot(r) PROVE IsIndex(idx', Names)
  BY <1>1, AddKeepsIndex, PreparedRootsAreRoots DEF AddRoot
<1>2. ASSUME NEW p \in BoundedPaths, RemoveRoot(p) PROVE IsIndex(idx', Names)
  BY <1>2, RemoveKeepsIndex DEF RemoveRoot
<1>3. ASSUME NEW m \in Renames, Rename(m[1], m[2]) PROVE IsIndex(idx', Names)
  BY <1>3, RenameKeepsIndex, BoundedPathsArePaths DEF Rename, Renames
<1>4. CASE UNCHANGED idx
  BY <1>4
<1> QED BY <1>1, <1>2, <1>3, <1>4 DEF Next

(***************************************************************************)
(* Whatever is added, removed and renamed, the index stays consistent.     *)
(***************************************************************************)
THEOREM IndexInvariant == Spec => []Indexed
<1>1. Init => Indexed
  BY EmptyIsIndex DEF Init, Indexed
<1> QED BY <1>1, IndexedNext, PTL DEF Spec

(***************************************************************************)
(* Every root is found under its own path: Watcher.Remove hands the path   *)
(* of the root it looked up on to the backend.                             *)
(***************************************************************************)
THEOREM KeysStayPaths == Spec => []KeysArePaths
<1>1. Indexed => KeysArePaths
  BY DEF Indexed, IsIndex, KeyedByPath, KeysArePaths
<1> QED BY <1>1, IndexInvariant, PTL

----------------------------------------------------------------------------
(***************************************************************************)
(* A consistent index answers Matches by what its roots cover, for paths   *)
(* of every length.                                                        *)
(***************************************************************************)
LEMMA MatchesWhatRootsCover ==
    ASSUME NEW ix, IsIndex(ix, Names), NEW p \in Path(Names)
    PROVE  Matches(ix, p) <=> \E k \in RootKeys(ix) : Covers(ix.roots[k], p)
<1> DEFINE R(k) == ix.roots[k]
<1>1. /\ ix.recursiveDirs = {r.Path : r \in {x \in {R(k) : k \in RootKeys(ix)} : x.IsDir /\ x.Recursive}}
      /\ ix.flatDirs = {r.Path : r \in {x \in {R(k) : k \in RootKeys(ix)} : x.IsDir /\ ~x.Recursive}}
      /\ ix.fileRoots = {r.Path : r \in {x \in {R(k) : k \in RootKeys(ix)} : ~x.IsDir}}
  BY DEF IsIndex, LookupsCurrent, Rebuild, RootKeys
<1>2. ASSUME NEW k \in RootKeys(ix)
      PROVE  R(k) \in RootOf(Names) /\ R(k).Path \in Path(Names)
  BY DEF IsIndex, RootsTyped, RootOf
<1> HIDE DEF R
<1>3. /\ p \in ix.fileRoots <=> \E k \in RootKeys(ix) : ~R(k).IsDir /\ p = R(k).Path
      /\ ParentDir(p) \in ix.flatDirs <=>
           \E k \in RootKeys(ix) : R(k).IsDir /\ ~R(k).Recursive /\ ParentDir(p) = R(k).Path
      /\ SelfAndAncestors(p) \cap ix.recursiveDirs # {} <=>
           \E k \in RootKeys(ix) : R(k).IsDir /\ R(k).Recursive /\ R(k).Path \in SelfAndAncestors(p)
  BY <1>1
<1>4. ASSUME NEW k \in RootKeys(ix)
      PROVE  Covers(R(k), p) <=>
               \/ ~R(k).IsDir /\ p = R(k).Path
               \/ R(k).IsDir /\ ~R(k).Recursive /\ ParentDir(p) = R(k).Path
               \/ R(k).IsDir /\ R(k).Recursive /\ R(k).Path \in SelfAndAncestors(p)
  <2>1. /\ R(k).IsDir \in BOOLEAN /\ R(k).Recursive \in BOOLEAN
        /\ R(k).Path \in SelfAndAncestors(p) <=> IsPrefix(R(k).Path, p)
        /\ ParentDir(p) = R(k).Path <=>
             (\E n \in Names : p = Append(R(k).Path, n)) \/ (p = <<>> /\ R(k).Path = <<>>)
    BY <1>2, AncestorsArePrefixes, ParentsOfChildren DEF RootOf
  <2> QED BY <2>1 DEF Covers
<1>5. Matches(ix, p) <=> \E k \in RootKeys(ix) : Covers(R(k), p)
  BY <1>3, <1>4 DEF Matches
<1> QED BY <1>5 DEF R

(***************************************************************************)
(* Matches forgets no watched path and invents none, at every depth, after *)
(* every sequence of operations.                                           *)
(***************************************************************************)
THEOREM MatchesCovers == Spec => []MatchesIsCoverage
<1>1. Indexed => MatchesIsCoverage
  BY MatchesWhatRootsCover, BoundedPathsArePaths DEF Indexed, MatchesIsCoverage
<1> QED BY <1>1, IndexInvariant, PTL

----------------------------------------------------------------------------
(* The coverage of a directory root moves with it. *)
LEMMA CoverageMovesAlong ==
    ASSUME NEW r \in RootOf(Names), r.IsDir,
           NEW old \in Path(Names), NEW new \in Path(Names), old # <<>>,
           HasPathPrefix(r.Path, old),
           NEW p \in Path(Names), Covers(r, p)
    PROVE  Covers(MovedRoot(r, old, new), JoinMovedPath(p, old, new))
<1> DEFINE q == r.Path
           moved == MovedRoot(r, old, new)
<1>1. q \in Path(Names) /\ r.Recursive \in BOOLEAN
  BY DEF RootOf
<1>2. /\ moved.IsDir /\ moved.Recursive = r.Recursive
      /\ moved.Path = JoinMovedPath(q, old, new)
  BY DEF MovedRoot, PathMoves, RootOf
<1>3. Len(old) <= Len(q)
  <2>1. CASE q = old
    BY <1>1, <2>1, LenProperties DEF Path
  <2>2. CASE q # old
    BY <2>2 DEF HasPathPrefix, IsStrictPrefix, IsPrefix
  <2> QED BY <2>1, <2>2
<1>4. q # <<>>
  BY <1>1, <1>3, EmptySeq DEF Path
<1> HIDE DEF moved, q
<1>5. CASE r.Recursive
  <2>1. IsPrefix(q, p)
    BY <1>5 DEF Covers, q
  <2>2. IsPrefix(JoinMovedPath(q, old, new), JoinMovedPath(p, old, new))
    BY <1>1, <1>3, <2>1, PrefixMovesAlong
  <2> QED BY <1>2, <1>5, <2>2 DEF Covers, moved
<1>6. CASE ~r.Recursive
  <2>1. PICK name \in Names : p = Append(q, name)
    BY <1>4, <1>6 DEF Covers, q
  <2>2. JoinMovedPath(p, old, new) = Append(JoinMovedPath(q, old, new), name)
    BY <1>1, <1>3, <2>1, ChildMovesAlong
  <2> QED BY <1>2, <1>6, <2>2 DEF Covers, moved
<1> QED BY <1>5, <1>6

(***************************************************************************)
(* A rename carries coverage along: MovePrefix leaves no directory root    *)
(* behind that lands alone on its new path, and what it covered before the *)
(* rename it covers after it.                                              *)
(***************************************************************************)
THEOREM RenamesCarryCoverage == Spec => []RenameCarriesCoverage
<1>1. Indexed => RenameCarriesCoverage
  <2> SUFFICES ASSUME Indexed, NEW m \in Renames, NEW next \in MovePrefix(idx, m[1], m[2]),
                      NEW k \in RootKeys(idx), idx.roots[k].IsDir, HasPathPrefix(k, m[1]),
                      \A j \in ChangedKeys(idx, m[1]) \ {k} :
                         MovedRoot(idx.roots[j], m[1], m[2]).Path
                           # MovedRoot(idx.roots[k], m[1], m[2]).Path,
                      NEW p \in BoundedPaths, Covers(idx.roots[k], p)
               PROVE  Matches(next, JoinMovedPath(p, m[1], m[2]))
    BY DEF RenameCarriesCoverage
  <2> DEFINE old == m[1]
             new == m[2]
             moved == MovedRoot(idx.roots[k], old, new)
  <2>1. old \in Path(Names) /\ new \in Path(Names) /\ old # <<>> /\ p \in Path(Names)
    BY BoundedPathsArePaths DEF Renames
  <2>2. idx.roots[k] \in RootOf(Names) /\ idx.roots[k].Path = k
    BY DEF Indexed, IsIndex, RootsTyped, KeyedByPath
  <2>3. k \in ChangedKeys(idx, old)
    BY <2>2 DEF ChangedKeys, PathMoves
  <2>4. moved.Path \in LandedPaths(idx, old, new)
    BY <2>3 DEF LandedPaths
  <2> HIDE DEF old, new
  <2>5. IsIndex(next, Names)
    BY <2>1, RenameKeepsIndex DEF Indexed, old, new
  <2>6. PICK j \in ChangedKeys(idx, old) :
           /\ next.roots[moved.Path] = MovedRoot(idx.roots[j], old, new)
           /\ next.roots[moved.Path].Path = moved.Path
    BY <2>1, <2>4, RenameLeaves DEF Indexed, old, new
  <2>7. j = k
    BY <2>6 DEF old, new
  <2>8. moved.Path \in RootKeys(next)
    BY <2>1, <2>4, RenameLeaves DEF Indexed, old, new
  <2>9. Covers(moved, JoinMovedPath(p, old, new))
    BY <2>1, <2>2, CoverageMovesAlong DEF old
  <2>10. JoinMovedPath(p, old, new) \in Path(Names)
    BY <2>1, JoinIsPath
  <2> HIDE DEF moved
  <2>11. Matches(next, JoinMovedPath(p, old, new))
    BY <2>5, <2>6, <2>7, <2>8, <2>9, <2>10, MatchesWhatRootsCover DEF moved
  <2> QED BY <2>11 DEF old, new
<1> QED BY <1>1, IndexInvariant, PTL
=============================================================================
