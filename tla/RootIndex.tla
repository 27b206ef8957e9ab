----------------------------- MODULE RootIndex -----------------------------
(***************************************************************************)
(* The index of watched roots, internal/tree/index.go.  Every operation    *)
(* runs under Index.mu, so it is one step: an operator from the index to   *)
(* the index that the operation leaves behind.                             *)
(*                                                                         *)
(* An index holds the map of roots and the three lookup sets rebuild()     *)
(* derives from it; Matches reads the lookup sets, never the map.          *)
(***************************************************************************)
EXTENDS Paths

Path(Names) == Seq(Names)

(* tree.Root, prepareTarget's preparedTarget and backend.Target have the
   same four fields. *)
RootOf(Names) == [Path : Path(Names), WatchPath : Path(Names),
                  IsDir : BOOLEAN, Recursive : BOOLEAN]

(* rebuild: the lookup sets computed afresh from the roots. *)
Rebuild(roots) ==
    LET rs == {roots[k] : k \in DOMAIN roots}
    IN  [roots         |-> roots,
         recursiveDirs |-> {r.Path : r \in {x \in rs : x.IsDir /\ x.Recursive}},
         flatDirs      |-> {r.Path : r \in {x \in rs : x.IsDir /\ ~x.Recursive}},
         fileRoots     |-> {r.Path : r \in {x \in rs : ~x.IsDir}}]

EmptyIndex == Rebuild(<<>>)

(* The keys of Index.roots. *)
RootKeys(idx) == DOMAIN idx.roots

(* A root already stored under root.Path is overwritten. *)
IndexAdd(idx, root) ==
    Rebuild([k \in RootKeys(idx) \cup {root.Path} |->
                IF k = root.Path THEN root ELSE idx.roots[k]])

(* Mutant of IndexRemove: the root goes, the lookup sets stay. *)
MutantRemoveKeepsLookups(idx, path) ==
    IF path \in RootKeys(idx)
    THEN [idx EXCEPT !.roots = Restrict(idx.roots, RootKeys(idx) \ {path})]
    ELSE idx

(* A path that is no key leaves the index alone. *)
IndexRemove(idx, path) ==
    IF path \in RootKeys(idx)
    THEN Rebuild(Restrict(idx.roots, RootKeys(idx) \ {path}))
    ELSE idx

----------------------------------------------------------------------------
(* Mutant of PathMoves: only the renamed root itself follows the rename. *)
MutantOnlyExactPathMoves(root, old) == root.Path = old

(* MovePrefix: what a rename of old to new does to one root.  The Path of a
   file root moves only if the file itself was renamed, its WatchPath also
   if an ancestor of it was. *)
PathMoves(root, old) ==
    root.Path = old \/ (root.IsDir /\ HasPathPrefix(root.Path, old))

WatchPathMoves(root, old) == HasPathPrefix(root.WatchPath, old)

MovedRoot(root, old, new) ==
    [root EXCEPT
       !.Path      = IF PathMoves(root, old) THEN JoinMovedPath(@, old, new) ELSE @,
       !.WatchPath = IF WatchPathMoves(root, old) THEN JoinMovedPath(@, old, new) ELSE @]

ChangedKeys(idx, old) ==
    {k \in RootKeys(idx) : \/ PathMoves(idx.roots[k], old)
                           \/ WatchPathMoves(idx.roots[k], old)}

(* Mutant of MovePrefix: roots are rewritten under their old keys. *)
MutantMoveKeepsKeys(idx, old, new) ==
    {Rebuild([k \in RootKeys(idx) |-> MovedRoot(idx.roots[k], old, new)])}

(***************************************************************************)
(* The indexes MovePrefix may leave.  A moved root displaces an unchanged  *)
(* root stored under its new path; of two moved roots that land on one     *)
(* path the one Go's map iteration visits last stays, so the result is a   *)
(* set.  A rename never moves a directory below itself, so no moved root   *)
(* is deleted by the visit of another one.                                 *)
(***************************************************************************)
MovePrefix(idx, old, new) ==
    LET changed  == ChangedKeys(idx, old)
        moved(k) == MovedRoot(idx.roots[k], old, new)
        landed   == {moved(k).Path : k \in changed}
        last     == {f \in [landed -> changed] : \A p \in landed : moved(f[p]).Path = p}
    IN  {Rebuild([p \in (RootKeys(idx) \ changed) \cup landed |->
                     IF p \in landed THEN moved(f[p]) ELSE idx.roots[p]]) : f \in last}

----------------------------------------------------------------------------
(* Index.Matches: a file root itself, a child of a flat directory root, or
   anything at or below a recursive one. *)
Matches(idx, path) ==
    \/ path \in idx.fileRoots
    \/ ParentDir(path) \in idx.flatDirs
    \/ SelfAndAncestors(path) \cap idx.recursiveDirs # {}
============================================================================
