------------------------------- MODULE Paths -------------------------------
(***************************************************************************)
(* Path arithmetic of internal/utils/path.go.                              *)
(*                                                                         *)
(* Every path the watcher handles after normalizePath is absolute and      *)
(* clean, so a path is the sequence of its components and "/" is the empty *)
(* sequence: <<"a", "f">> stands for "/a/f".                               *)
(***************************************************************************)
EXTENDS Sequences, Naturals, SequencesExt

IsPath(path) == path \in Seq({path[i] : i \in DOMAIN path})

(***************************************************************************)
(* utils.HasPathPrefix compares path[len(prefix)] with the separator.      *)
(* "/" already ends in the separator, so nothing but "/" itself is at or   *)
(* below "/" for this function.                                            *)
(***************************************************************************)
HasPathPrefix(path, prefix) ==
    \/ path = prefix
    \/ prefix # <<>> /\ IsStrictPrefix(prefix, path)

(* Mutant: what is below the old prefix lands on the new one. *)
MutantJoinDropsRest(path, oldPrefix, newPrefix) == newPrefix

(* utils.JoinMovedPath: newPrefix followed by what path has after oldPrefix. *)
JoinMovedPath(path, oldPrefix, newPrefix) ==
    newPrefix \o SubSeq(path, Len(oldPrefix) + 1, Len(path))

(* utils.ParentDir of an absolute path; the parent of "/" is "/". *)
ParentDir(path) == SubSeq(path, 1, Len(path) - 1)

(* A path and all its ancestors, "/" included: what the loop of
   Index.Matches walks through with ParentDir. *)
SelfAndAncestors(path) == {SubSeq(path, 1, n) : n \in 0 .. Len(path)}
============================================================================
