---------------------------- MODULE IndexChecks ----------------------------
(***************************************************************************)
(* The root index driven by every sequence of Add, Remove and renames over *)
(* a bounded tree, and what its lookups promise.                           *)
(***************************************************************************)
EXTENDS RootIndex

CONSTANTS Names,      \* path components
          MaxDepth,   \* bound: components in a path
          MaxRoots    \* bound: roots in the index

VARIABLE idx

BoundedPaths == UNION {[1 .. n -> Names] : n \in 0 .. MaxDepth}

(* The roots prepareTarget builds: a file is watched through its parent. *)
DirRoot(path, recursive) ==
    [Path |-> path, WatchPath |-> path, IsDir |-> TRUE, Recursive |-> recursive]
FileRoot(path) ==
    [Path |-> path, WatchPath |-> ParentDir(path), IsDir |-> FALSE, Recursive |-> FALSE]
PreparedRoots == {DirRoot(p, TRUE) : p \in BoundedPaths}
                 \cup {DirRoot(p, FALSE) : p \in BoundedPaths}
                 \cup {FileRoot(p) : p \in BoundedPaths \ {<<>>}}

(* The renames a filesystem performs: no directory moves below itself. *)
Renames == {m \in (BoundedPaths \ {<<>>}) \X (BoundedPaths \ {<<>>}) :
              ~HasPathPrefix(m[2], m[1]) /\ ~HasPathPrefix(m[1], m[2])}

Init == idx = EmptyIndex

AddRoot(root) == /\ Cardinality(RootKeys(idx) \cup {root.Path}) <= MaxRoots
             /\ idx' = IndexAdd(idx, root)

RemoveRoot(path) == /\ path \in RootKeys(idx)
                /\ idx' = IndexRemove(idx, path)

Rename(old, new) ==
    /\ idx' \in MovePrefix(idx, old, new)
    /\ \A k \in RootKeys(idx') : {k, idx'.roots[k].WatchPath} \subseteq BoundedPaths

Next == \/ \E root \in PreparedRoots : AddRoot(root)
        \/ \E path \in BoundedPaths : RemoveRoot(path)
        \/ \E m \in Renames : Rename(m[1], m[2])

Spec == Init /\ [][Next]_idx

----------------------------------------------------------------------------
(* What one root covers, by the meaning of the three kinds of root and not
   by the lookup sets. The parent of "/" is "/", so a flat "/" covers itself. *)
Covers(root, path) ==
    \/ root.IsDir /\ root.Recursive /\ IsPrefix(root.Path, path)
    \/ root.IsDir /\ ~root.Recursive /\ \E n \in Names : path = Append(root.Path, n)
    \/ root.IsDir /\ ~root.Recursive /\ path = <<>> /\ root.Path = <<>>
    \/ ~root.IsDir /\ path = root.Path

(***************************************************************************)
(* Matches answers from the lookup sets exactly what the map of roots      *)
(* covers, after every sequence of operations: no operation forgets        *)
(* rebuild(), and walking up with ParentDir finds every recursive ancestor.*)
(***************************************************************************)
MatchesIsCoverage ==
    \A p \in BoundedPaths :
        Matches(idx, p) <=> \E k \in RootKeys(idx) : Covers(idx.roots[k], p)

(***************************************************************************)
(* Every root is stored under its own Path, whatever was renamed:          *)
(* Watcher.Remove looks a root up by path and hands root.Path on to the    *)
(* backend, so a root under another key could never be released.           *)
(***************************************************************************)
KeysArePaths == \A k \in RootKeys(idx) : idx.roots[k].Path = k

(***************************************************************************)
(* Whatever the index holds, a rename carries the coverage of the          *)
(* directory roots at or below the renamed path along: what such a root    *)
(* covered is covered at the new place, whichever unchanged root was       *)
(* indexed there before.  Two moved roots that land on one path are        *)
(* excepted: one of them is lost.                                          *)
(***************************************************************************)
RenameCarriesCoverage ==
    \A m \in Renames : \A next \in MovePrefix(idx, m[1], m[2]) :
      \A k \in {r \in RootKeys(idx) : idx.roots[r].IsDir /\ HasPathPrefix(r, m[1])} :
        LET Lands(j) == MovedRoot(idx.roots[j], m[1], m[2]).Path
        IN  (\A j \in ChangedKeys(idx, m[1]) \ {k} : Lands(j) # Lands(k)) =>
              \A p \in BoundedPaths :
                Covers(idx.roots[k], p) /\ HasPathPrefix(p, m[1]) =>
                  Matches(next, JoinMovedPath(p, m[1], m[2]))
============================================================================
