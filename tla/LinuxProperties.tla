-------------------------- MODULE LinuxProperties --------------------------
(***************************************************************************)
(* What must hold of the Linux backend.                                    *)
(***************************************************************************)
EXTENDS LinuxBackend

WatchedWds == {watched[dir].wd : dir \in DOMAIN watched}

RunLabels == {"loop", "next", "snapshot", "walk", "rename", "report", "unwatch", "gone",
              "drop", "emit", "exited"}

TypeOK ==
    /\ DOMAIN fs \subseteq Tree /\ DOMAIN watches \subseteq 1 .. nextWd - 1
    /\ DOMAIN roots = DOMAIN rootDirs
    /\ \A p \in DOMAIN roots : roots[p] \in Targets /\ roots[p].Path = p
    /\ \A p \in DOMAIN rootDirs : rootDirs[p] \subseteq Tree
    /\ DOMAIN watched \subseteq Tree /\ DOMAIN wdToPath \subseteq 1 .. nextWd - 1
    /\ closed \in BOOLEAN /\ fdOpen \in BOOLEAN
    /\ runPc \in RunLabels
    /\ callPc \in [Callers -> {"idle", "walk", "cleanup"}]
    /\ walkErr \in [Walkers -> BOOLEAN]

----------------------------------------------------------------------------
(* Everything that has happened on disk has been handled. *)
Quiet ==
    /\ runPc = "loop" /\ kq = <<>> /\ pending = <<>>
    /\ \A c \in Callers : callPc[c] = "idle"
    /\ ~closed

(***************************************************************************)
(* The three tables and the kernel say the same: every node's descriptor   *)
(* stands for its directory, the kernel watches none that wdToPath does    *)
(* not know, wdToPath knows none without a node, and a root is in the node *)
(* of exactly the directories enrolled for it.  There is one exception:    *)
(* dropWatch takes the node of the descriptor that a Remove and an Add     *)
(* have given the path since handle() looked it up, and leaves that        *)
(* descriptor behind, in wdToPath and in the kernel, until a walk of the   *)
(* directory picks it up again.  So it is at every step where nothing is   *)
(* renamed: renameWatchedPrefix drops a node it displaces, and leaves its  *)
(* descriptor as well.                                                     *)
(***************************************************************************)
TablesAgree ==
    /\ WatchedWds \cup DOMAIN watches \subseteq DOMAIN wdToPath
    /\ DOMAIN wdToPath \subseteq WatchedWds \cup astray
    /\ WatchedWds \cap astray = {}
    /\ \A dir \in DOMAIN watched : wdToPath[watched[dir].wd] = dir
    /\ \A p \in DOMAIN rootDirs : \A dir \in Tree :
         dir \in rootDirs[p] <=> dir \in DOMAIN watched /\ p \in watched[dir].roots

(***************************************************************************)
(* Once the last root is removed nothing is left, in the tables or in the  *)
(* kernel, but such descriptors: whatever walk or handler is under way at  *)
(* the moment, it enrolls nothing for a root that is not registered.       *)
(***************************************************************************)
NothingLeftBehind ==
    roots = <<>> =>
      watched = <<>> /\ DOMAIN wdToPath \subseteq astray /\ DOMAIN watches \subseteq astray

(***************************************************************************)
(* A descriptor never stands for another directory than the one the kernel *)
(* watches, once all events have been handled.                             *)
(***************************************************************************)
WatchesAreTrue ==
    Quiet => \A dir \in DOMAIN watched :
               /\ IsDirectory(dir)
               /\ watched[dir].wd \in DOMAIN watches
               /\ watches[watched[dir].wd] = fs[dir].ino

(***************************************************************************)
(* Once all events have been handled, every directory of a recursive root  *)
(* is watched.                                                             *)
(***************************************************************************)
InExcluded(p) == \E a \in SelfAndAncestors(p) : ShouldExclude(a, TRUE)

TreeFollowed(causes) ==
    Quiet => \A rt \in DOMAIN roots :
       roots[rt].IsDir /\ roots[rt].Recursive =>
         \A p \in {dir \in Below(rt) : fs[dir].isDir /\ ~InExcluded(dir)} :
             \/ p \in DOMAIN watched /\ rt \in watched[p].roots
             \/ \E a \in SelfAndAncestors(p), why \in causes : <<rt, a, why>> \in lost

TreeIsWatched == TreeFollowed({})

(***************************************************************************)
(* The same, except at and below the directories that a walk of run() did  *)
(* not come to, because it had ended with an error, which is ignored.      *)
(***************************************************************************)
TreeIsWatchedUnlessCut == TreeFollowed({"cut"})

(***************************************************************************)
(* The same where roots come and go.  Here a root loses directories also   *)
(* when their node is taken although they are there: by a handler that     *)
(* acts on a path looked up before a Remove and an Add of the root had put *)
(* them back, or with the node of a directory made again that another root *)
(* had joined, or by an unmount; and the root itself when it is deleted,   *)
(* as nobody watches its parent.  A directory that is enrolled for the     *)
(* root again is lost no longer.                                           *)
(***************************************************************************)
TreeIsWatchedUnlessLost == TreeFollowed({"cut", "taken"})

(***************************************************************************)
(* Once all events have been handled, what was reported last about an      *)
(* entry of a watched directory is true of it: it was removed and is gone, *)
(* or it was created or changed and is there.                              *)
(***************************************************************************)
ReportsAreTrue ==
    Quiet => \A p \in DOMAIN said \ {<<>>} :
               ParentDir(p) \in DOMAIN watched => (said[p] = "remove" <=> ~Exists(p))

(***************************************************************************)
(* Whatever happens on disk, to the queue and to the roots, and at every   *)
(* step: a directory is enrolled only for registered roots, for at least   *)
(* one, and each of them has it on its list. So Remove of the last root    *)
(* empties the table.                                                      *)
(***************************************************************************)
NodesAreReleasable ==
    \A dir \in DOMAIN watched :
      /\ watched[dir].roots # {}
      /\ \A p \in watched[dir].roots : p \in DOMAIN rootDirs /\ dir \in rootDirs[p]
============================================================================
