-------------------------- MODULE DarwinProperties --------------------------
(***************************************************************************)
(* What must hold of the macOS backend.                                    *)
(***************************************************************************)
EXTENDS DarwinBackend

RunLabels == {"next", "gone", "rescan", "read", "diff", "enroll", "exited"}

TypeOK ==
    /\ DOMAIN fs \subseteq Tree /\ \A p \in DOMAIN watched : IsPath(p)
    /\ DOMAIN roots = DOMAIN rootNodes /\ \A p \in DOMAIN roots : roots[p].Path = p
    /\ \A i \in DOMAIN queue : queue[i] \in DOMAIN fds /\ fds[queue[i]].notes # {}
    /\ runPc \in RunLabels /\ closed = ~kqOpen
    /\ \A w \in Walkers : adding[w].step \in {"none", "arm", "enter"}
    /\ \A c \in Callers : callPc[c] \in {"idle", "enroll", "cleanup", "close"}
    /\ removed # {} => runPc = "diff"

----------------------------------------------------------------------------
(***************************************************************************)
(* Whatever happens, the descriptors of the watched paths and those that   *)
(* addPaths under way have opened are open, each is held once, and so is   *)
(* closed once only. And none but these is open, so that none leaks,       *)
(* unless a rename has overwritten the node of its new path.  After Close  *)
(* only an addPath under way holds any.                                    *)
(***************************************************************************)
WatchedFds == {watched[p].fd : p \in DOMAIN watched}
InFlight   == {adding[w].fd : w \in {v \in Walkers : adding[v].step # "none"}}

DescriptorsAreHeld ==
    /\ WatchedFds \cup InFlight \subseteq DOMAIN fds /\ WatchedFds \cap InFlight = {}
    /\ \A p, q \in DOMAIN watched : watched[p].fd = watched[q].fd => p = q
    /\ \A v, w \in Walkers : adding[v].step # "none" /\ adding[w].step # "none"
                             /\ adding[v].fd = adding[w].fd => v = w
    /\ "displaced" \notin mishaps => DOMAIN fds \subseteq WatchedFds \cup InFlight

(***************************************************************************)
(* At every step and whatever happens on disk: a path is watched for       *)
(* registered roots only, for at least one, and each of them lists it.     *)
(* renamePrefix writes w.rootNodes[root] for every root of a node, which   *)
(* panics for a root that has been removed.                                *)
(***************************************************************************)
NodesAreReleasable ==
    \A p \in DOMAIN watched :
      /\ watched[p].roots # {}
      /\ \A rt \in watched[p].roots : rt \in DOMAIN rootNodes /\ p \in rootNodes[rt]

(***************************************************************************)
(* A descriptor stands for the path whose node holds it, and a directory   *)
(* that is watched has a snapshot to compare with.                         *)
(***************************************************************************)
TablesAgree ==
    ~closed /\ mishaps \cap {"displaced", "mistaken"} = {} =>
               /\ DOMAIN fdToPath = WatchedFds
               /\ \A p \in DOMAIN watched : fdToPath[watched[p].fd] = p
               /\ \A p \in DOMAIN watched : watched[p].isDir => p \in DOMAIN snapshots
               /\ "torn" \notin mishaps => \A p \in DOMAIN snapshots : p \in DOMAIN watched

(***************************************************************************)
(* The snapshot rescanDir compares with and puts back into the pool when   *)
(* it is done is in nobody else's hands meanwhile: no Remove clears it     *)
(* while rescanDir iterates over it, and it goes into the pool once.       *)
(***************************************************************************)
SnapshotsAreOwned == "torn" \notin mishaps

(***************************************************************************)
(* The properties below are about what is left when everything that has    *)
(* happened was handled, and about the paths nothing has spoilt: the       *)
(* mishaps and the blurred paths of DarwinBackend name the orders of steps *)
(* after which the code does lose track, and each of them was found by     *)
(* checking the property without its exception.                            *)
(***************************************************************************)
Spoilt(p) == \/ mishaps \cap {"torn", "stale", "displaced", "mistaken"} # {}
             \/ \E q \in SelfAndAncestors(p) : q \in blurred

(***************************************************************************)
(* A watched path exists, and its descriptor is one of what is there now:  *)
(* handle, removePath and removePrefix leave no watch of what is gone.     *)
(***************************************************************************)
WatchesAreTrue ==
    Quiet => \A p \in DOMAIN watched : ~Spoilt(p) =>
                Exists(p) /\ fds[watched[p].fd].ino = fs[p].ino

(***************************************************************************)
(* What was reported last about an entry of a watched directory is true of *)
(* it: its removal was reported, by its own note or by the rescan of its   *)
(* directory, if and only if it is gone.                                   *)
(***************************************************************************)
Claimed == {p \in DOMAIN said \ {<<>>} : ParentDir(p) \in DOMAIN watched}

ReportsAreTrue ==
    Quiet => \A p \in Claimed : said[p] = "remove" <=> ~Exists(p)

(***************************************************************************)
(* The same, but for spoilt paths, for what a removed root alone watched,  *)
(* and for the directories in a root that is not recursive: these are      *)
(* reported when they come, never watched, and so not when they go.        *)
(***************************************************************************)
SubdirOfFlat(p) == \A rt \in DOMAIN roots : InScope(p, roots[rt]) =>
                      ~roots[rt].Recursive /\ p # rt /\ Last(p) \in DirNames

ReportsAreTrueUnlessSpoilt ==
    Quiet /\ mishaps \cap {"withdrawn", "joined"} = {} =>
       \A p \in Claimed :
         \/ Spoilt(p)
         \/ SubdirOfFlat(p)
         \/ said[p] = "remove" <=> ~Exists(p)

(***************************************************************************)
(* Everything below a recursive root that is not excluded is watched for   *)
(* it, whenever it came: before Add, during its walk, or later and found   *)
(* by a rescan.  Excepted besides spoilt paths is what a walk of run()     *)
(* that failed half-way has left ("cut").                                  *)
(***************************************************************************)
InExcluded(p) == \E q \in SelfAndAncestors(p) : ShouldExclude(q, IsDirectory(q))

TreeIsWatchedUnlessSpoilt ==
    Quiet /\ mishaps \cap {"cut", "joined"} = {} =>
       \A rt \in DOMAIN roots : roots[rt].IsDir /\ roots[rt].Recursive =>
         \A p \in {q \in Below(rt) : ~InExcluded(q)} :
             Spoilt(p) \/ (p \in DOMAIN watched /\ rt \in watched[p].roots)

(***************************************************************************)
(* Once run() has ended and no addPath is under way nothing is open:       *)
(* Close, and an addPath it overtakes, give every descriptor back.         *)
(***************************************************************************)
CloseReleasesAll ==
    runPc = "exited" /\ InFlight = {} /\ "displaced" \notin mishaps =>
       fds = <<>> /\ watched = <<>>
============================================================================
