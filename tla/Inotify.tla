------------------------------- MODULE Inotify -------------------------------
(***************************************************************************)
(* The file system and the inotify instance the Linux backend uses:        *)
(* external to the repository, modelled as far as backend_linux.go sees    *)
(* it.  A watch belongs to an inode, not to a path; the events of an       *)
(* inotify instance form one bounded queue.                                *)
(***************************************************************************)
EXTENDS Paths, FiniteSets, SequencesExt

CONSTANTS Tree,        \* the paths that may exist
          InitialDirs, \* the directories there are at the start
          Lasting,     \* the paths nobody deletes, moves or unmounts
          DirNames,    \* the last components that name directories
          QueueLimit,  \* fs.inotify.max_queued_events
          Changes,     \* which changes happen: names of actions below
          MaxChanges,  \* bound: changes on disk
          NoName       \* the name of an event about the watched directory itself

ASSUME InotifyAssumption ==
    /\ <<>> \in InitialDirs /\ <<>> \in Lasting /\ InitialDirs \subseteq Tree
    /\ \A path \in Tree : IsPath(path)
    /\ QueueLimit \in Nat \ {0} /\ MaxChanges \in Nat

VARIABLES fs,        \* fs[p]: the inode at an existing path p, and its kind
          watches,   \* watches[wd]: the inode a live watch descriptor watches
          nextWd,    \* descriptors are never used twice
          kq,        \* the queue of events
          changes    \* how many changes there have been; serial number and cookie

kernelVars == <<fs, watches, nextWd, kq, changes>>

(* An inode is named by where and when it was made. *)
Inode(path) == <<path, changes>>

InotifyInit ==
    /\ fs = [p \in InitialDirs |-> [ino |-> <<p, 0>>, isDir |-> TRUE]]
    /\ watches = <<>> /\ nextWd = 1 /\ kq = <<>> /\ changes = 1

Exists(path)     == path \in DOMAIN fs
IsDirectory(path) == Exists(path) /\ fs[path].isDir
Children(path)   == {p \in DOMAIN fs : p # <<>> /\ p # path /\ ParentDir(p) = path}
Below(path)      == {p \in DOMAIN fs : HasPathPrefix(p, path)}

Watching(ino) == {wd \in DOMAIN watches : watches[wd] = ino}

(* With the queue full one overflow event stands for all that are lost; an
   event equal to the last one is merged into it. *)
RawOverflow == [kind |-> "Q_OVERFLOW", wd |-> 0, name |-> NoName, isDir |-> FALSE,
                cookie |-> 0]

Enqueued(queue, raw) ==
    LET full == Len(queue) >= QueueLimit
    IN  IF \/ queue # <<>> /\ Last(queue) = raw
           \/ full /\ Contains(queue, RawOverflow)
        THEN queue
        ELSE Append(queue, IF full THEN RawOverflow ELSE raw)

EnqueuedAll(queue, raws) == FoldLeft(Enqueued, queue, raws)

(* The event a watch on path, if there is one, gets. *)
About(path, kind, name, isDir) ==
    IF Exists(path)
    THEN SetToSeq({[kind |-> kind, wd |-> wd, name |-> name, isDir |-> isDir,
                    cookie |-> changes] : wd \in Watching(fs[path].ino)})
    ELSE <<>>

InParent(path, kind, isDir) == About(ParentDir(path), kind, Last(path), isDir)

Ignored(wds) ==
    SetToSeq({[kind |-> "IGNORED", wd |-> wd, name |-> NoName, isDir |-> FALSE,
               cookie |-> 0] : wd \in wds})

----------------------------------------------------------------------------
(* inotify_add_watch: the watch of an inode keeps its descriptor. *)
WatchFor(path) ==
    IF Watching(fs[path].ino) # {}
    THEN CHOOSE wd \in Watching(fs[path].ino) : TRUE
    ELSE nextWd

AddWatch(path) ==
    /\ watches' = [wd \in DOMAIN watches \cup {WatchFor(path)} |->
                      IF wd = WatchFor(path) THEN fs[path].ino ELSE watches[wd]]
    /\ nextWd' = IF WatchFor(path) = nextWd THEN nextWd + 1 ELSE nextWd
    /\ UNCHANGED <<fs, kq, changes>>

(* inotify_rm_watch of several descriptors; one that is no more is refused
   without any effect. *)
RmWatches(wds) ==
    LET live == wds \cap DOMAIN watches
    IN  /\ watches' = Restrict(watches, DOMAIN watches \ live)
        /\ kq' = EnqueuedAll(kq, Ignored(live))
        /\ UNCHANGED <<fs, nextWd, changes>>

----------------------------------------------------------------------------
(* What other programs do to the tree. *)
Change(kind) == /\ kind \in Changes /\ changes <= MaxChanges
                /\ changes' = changes + 1

Make(path) ==
    /\ Change("make")
    /\ ~Exists(path) /\ path # <<>> /\ IsDirectory(ParentDir(path))
    /\ LET isDir == Last(path) \in DirNames
       IN  /\ fs' = [p \in DOMAIN fs \cup {path} |->
                        IF p = path THEN [ino |-> Inode(path), isDir |-> isDir] ELSE fs[p]]
           /\ kq' = EnqueuedAll(kq, InParent(path, "CREATE", isDir))
    /\ UNCHANGED <<watches, nextWd>>

Delete(path) ==
    /\ Change("delete")
    /\ Exists(path) /\ path \notin Lasting /\ Children(path) = {}
    /\ LET isDir == fs[path].isDir
           wds   == Watching(fs[path].ino)
       IN  /\ kq' = EnqueuedAll(kq, About(path, "DELETE_SELF", NoName, FALSE)
                                      \o Ignored(wds) \o InParent(path, "DELETE", isDir))
           /\ watches' = Restrict(watches, DOMAIN watches \ wds)
    /\ fs' = Restrict(fs, DOMAIN fs \ {path})
    /\ UNCHANGED nextWd

(* The inodes below old keep their watches, and only the renamed directory
   itself is told. *)
Move(old, new) ==
    /\ Change("move")
    /\ Exists(old) /\ old \notin Lasting /\ ~Exists(new) /\ IsDirectory(ParentDir(new))
    /\ ~HasPathPrefix(new, old)
    /\ Last(old) \in DirNames <=> Last(new) \in DirNames
    /\ LET isDir   == fs[old].isDir
           kept    == DOMAIN fs \ Below(old)
           back(p) == JoinMovedPath(p, new, old)
           moved   == {JoinMovedPath(p, old, new) : p \in Below(old)}
       IN  /\ moved \subseteq Tree
           /\ fs' = [p \in kept \cup moved |-> IF p \in moved THEN fs[back(p)] ELSE fs[p]]
           /\ kq' = EnqueuedAll(kq, InParent(old, "MOVED_FROM", isDir)
                                      \o InParent(new, "MOVED_TO", isDir)
                                      \o About(old, "MOVE_SELF", NoName, FALSE))
    /\ UNCHANGED <<watches, nextWd>>

Write(path) ==
    /\ Change("write")
    /\ Exists(path) /\ ~fs[path].isDir
    /\ kq' = EnqueuedAll(kq, InParent(path, "MODIFY", FALSE))
    /\ UNCHANGED <<fs, watches, nextWd>>

(* A directory's own watch is told of its attributes too. *)
Chmod(path) ==
    /\ Change("chmod")
    /\ Exists(path) /\ path # <<>>
    /\ kq' = EnqueuedAll(kq, InParent(path, "ATTRIB", fs[path].isDir)
                               \o About(path, "ATTRIB", NoName, TRUE))
    /\ UNCHANGED <<fs, watches, nextWd>>

(* The file system mounted at path goes: the kernel drops the watch and the
   directory below the mount appears. handle() has no case for IN_UNMOUNT,
   which comes first. *)
Unmount(path) ==
    /\ Change("unmount")
    /\ IsDirectory(path) /\ path \notin Lasting /\ Children(path) = {}
    /\ LET wds == Watching(fs[path].ino)
       IN  /\ kq' = EnqueuedAll(kq, Ignored(wds))
           /\ watches' = Restrict(watches, DOMAIN watches \ wds)
    /\ fs' = [fs EXCEPT ![path].ino = Inode(path)]
    /\ UNCHANGED nextWd

DiskChanges ==
    \/ \E p \in Tree : Make(p) \/ Delete(p) \/ Write(p) \/ Chmod(p) \/ Unmount(p)
    \/ \E old, new \in Tree : Move(old, new)
=============================================================================
