---------------------------- MODULE LinuxBackend ----------------------------
(***************************************************************************)
(* internal/backend/backend_linux.go with the walk of helpers.go: the      *)
(* tables that tie roots, directories and watch descriptors together, the  *)
(* goroutine run() that turns inotify events into backend events, and the  *)
(* callers of Add, Remove and Close.                                       *)
(*                                                                         *)
(* A step is one critical section of linuxWatcher.mu, one system call      *)
(* outside it, or one send on the events channel.  The look-up of a        *)
(* descriptor with which handle() begins is a step of its own where what   *)
(* follows takes the lock again for the tables.  The disk changes between  *)
(* any two steps.                                                          *)
(***************************************************************************)
EXTENDS Inotify

CONSTANTS
    Callers,       \* goroutines calling Add and Remove
    Targets,       \* the targets they add, [Path, WatchPath, IsDir, Recursive]
    Excluded,      \* <<path, isDir>> that Config.ShouldExclude rejects
    MaxCalls,      \* bound: calls, of all callers together
    MayClose,      \* whether Close is called
    NoTarget, NoPath

Run     == "run"
Walkers == Callers \cup {Run}

ASSUME LinuxAssumption ==
    /\ Run \notin Callers
    /\ Targets \subseteq [Path : Tree, WatchPath : Tree, IsDir : BOOLEAN, Recursive : BOOLEAN]
    /\ MaxCalls \in Nat /\ MayClose \in BOOLEAN

VARIABLES
    \* linuxWatcher, guarded by mu.
    roots,       \* roots[p]: the target registered under p
    rootDirs,    \* rootDirs[p]: the directories enrolled for root p
    watched,     \* watched[dir]: the node [wd, roots] of an enrolled directory
    wdToPath,    \* wdToPath[wd]: the directory a descriptor stands for
    pending,     \* pending[cookie]: a MOVED_FROM whose MOVED_TO has not come
    closed,      \* linuxWatcher.closed
    fdOpen,      \* the inotify descriptor has not been closed
    \* run()
    runPc,       \* its control
    buf,         \* what the last read returned, from the current event on
    cur,         \* the current event, its path and the path it was renamed from
    left,        \* the roots addRecursiveDirIfNeeded still has to walk for
    hand,        \* the events to send on the channel
    \* callers
    callPc, target, calls,
    \* walkPath in progress
    walk,        \* walk[w]: the root it is for, the directories still to visit,
                 \* the one being read, and whether the start is still to lstat
    walkErr,     \* the walk of w ended with an error
    \* What has happened, read by properties only.
    said,        \* said[p]: the last operation sent about p
    astray,      \* descriptors without a node: dropWatch took it for another's
    lost         \* <<root, dir, why>>: run() never put dir on the root, or has
                 \* taken it off, though nothing on disk need tell it so again

tables  == <<roots, rootDirs, watched, wdToPath>>
runVars == <<runPc, buf, cur, left, hand>>
callVars == <<callPc, target, calls>>
walkVars == <<walk, walkErr>>
history  == <<said, astray, lost>>
vars == <<kernelVars, tables, pending, closed, fdOpen, runVars, callVars, walkVars, history>>

Idle == [root |-> <<>>, todo |-> {}, reading |-> NoPath, recursive |-> FALSE,
         lstat |-> FALSE]
NoEvent == [raw |-> RawOverflow, path |-> <<>>, old |-> NoPath]

Init ==
    /\ InotifyInit
    /\ roots = <<>> /\ rootDirs = <<>> /\ watched = <<>> /\ wdToPath = <<>>
    /\ pending = <<>> /\ closed = FALSE /\ fdOpen = TRUE
    /\ runPc = "loop" /\ buf = <<>> /\ cur = NoEvent /\ left = {} /\ hand = <<>>
    /\ callPc = [c \in Callers |-> "idle"]
    /\ target = [c \in Callers |-> NoTarget]
    /\ calls = 0
    /\ walk = [w \in Walkers |-> Idle]
    /\ walkErr = [w \in Walkers |-> FALSE]
    /\ said = <<>> /\ astray = {} /\ lost = {}

Event(op, path) == [op |-> op, path |-> path, old |-> NoPath]

Put(f, k, v) == [j \in DOMAIN f \cup {k} |-> IF j = k THEN v ELSE f[j]]
Without(f, ks) == Restrict(f, DOMAIN f \ ks)

ShouldExclude(path, isDir) == <<path, isDir>> \in Excluded

----------------------------------------------------------------------------
(* walkPath by w for a root: from a path, recursively or not.  Siblings are
   visited in any order; every directory is enrolled before it is read, so
   what appears in it later is reported.  A file root enrolls its WatchPath
   without a walk, that is without the first lstat. *)
StartWalk(w, rt, path, recursive, lstat) ==
    /\ walk' = [walk EXCEPT ![w] = [root |-> rt, todo |-> {path}, reading |-> NoPath,
                                    recursive |-> recursive, lstat |-> lstat]]
    /\ walkErr' = [walkErr EXCEPT ![w] = FALSE]

Walking(w) == walk[w].todo # {} \/ walk[w].reading # NoPath

(* An error ends the whole walk.  That of a caller fails its Add; run()
   ignores the error, and with it the directories not visited yet. *)
Abort(w, unvisited) ==
    /\ walk' = [walk EXCEPT ![w] = Idle]
    /\ walkErr' = [walkErr EXCEPT ![w] = TRUE]
    /\ lost' = IF w = Run THEN lost \cup ({walk[w].root} \X unvisited \X {"cut"}) ELSE lost
    /\ UNCHANGED <<said, astray>>

Skip(w, dir) == /\ walk' = [walk EXCEPT ![w].todo = @ \ {dir}]
                /\ UNCHANGED walkErr

(* fn returned nil: a recursive walk goes on to read the directory. *)
Enrolled(w, dir) ==
    /\ walk' = [walk EXCEPT ![w].todo = @ \ {dir}, ![w].lstat = FALSE,
                            ![w].reading = IF walk[w].recursive THEN dir ELSE NoPath]
    /\ UNCHANGED walkErr

(* shouldExclude of a recursive walk. *)
WalkExcluded(w) ==
    \E dir \in walk[w].todo :
        /\ walk[w].reading = NoPath
        /\ walk[w].recursive /\ ShouldExclude(dir, TRUE)
        /\ Skip(w, dir)
        /\ UNCHANGED <<kernelVars, tables, pending, closed, fdOpen, runVars, callVars, history>>

Visits(w, dir) == /\ dir \in walk[w].todo /\ walk[w].reading = NoPath
                  /\ ~(walk[w].recursive /\ ShouldExclude(dir, TRUE))

(* The walk calls addDir on an open watcher. *)
Adds(w, dir) == Visits(w, dir) /\ ~closed /\ (walk[w].lstat => IsDirectory(dir))

Enroll(dir, node, rt) ==
    /\ watched' = Put(watched, dir, node)
    /\ rootDirs' = [rootDirs EXCEPT ![rt] = @ \cup {dir}]
    /\ lost' = lost \ ({rt} \X {dir} \X {"cut", "taken"})
    /\ astray' = astray \ {node.wd}
    /\ UNCHANGED said

(* addDir: the root was removed while this enrollment was in flight. *)
AddDirOrphan(w) ==
    \E dir \in walk[w].todo :
        /\ Adds(w, dir)
        /\ walk[w].root \notin DOMAIN rootDirs
        /\ Enrolled(w, dir)
        /\ UNCHANGED <<kernelVars, tables, pending, closed, fdOpen, runVars, callVars, history>>

(* Mutant: a directory that has a node is taken for enrolled. *)
MutantSharedIsDone(w) ==
    \E dir \in walk[w].todo :
        /\ Adds(w, dir)
        /\ walk[w].root \in DOMAIN rootDirs /\ dir \in DOMAIN watched
        /\ Enrolled(w, dir)
        /\ UNCHANGED <<kernelVars, tables, pending, closed, fdOpen, runVars, callVars, history>>

(* addDir: the directory has a node, which the root joins. *)
AddDirShared(w) ==
    \E dir \in walk[w].todo :
        /\ Adds(w, dir)
        /\ walk[w].root \in DOMAIN rootDirs /\ dir \in DOMAIN watched
        /\ Enroll(dir, [watched[dir] EXCEPT !.roots = @ \cup {walk[w].root}], walk[w].root)
        /\ Enrolled(w, dir)
        /\ UNCHANGED <<kernelVars, roots, wdToPath, pending, closed, fdOpen, runVars, callVars>>

(* Mutant: the root is not looked up again under the lock. *)
MutantNoOrphanCheck(w) ==
    \E dir \in walk[w].todo :
        /\ Adds(w, dir)
        /\ dir \notin DOMAIN watched
        /\ IsDirectory(dir) /\ fdOpen
        /\ AddWatch(dir)
        /\ Enroll(dir, [wd |-> WatchFor(dir), roots |-> {walk[w].root}], walk[w].root)
        /\ wdToPath' = Put(wdToPath, WatchFor(dir), dir)
        /\ Enrolled(w, dir)
        /\ UNCHANGED <<roots, pending, closed, fdOpen, runVars, callVars>>

(* addDir: a new watch, or the descriptor the inode has already. *)
AddDirWatch(w) ==
    \E dir \in walk[w].todo :
        /\ Adds(w, dir)
        /\ walk[w].root \in DOMAIN rootDirs /\ dir \notin DOMAIN watched
        /\ IsDirectory(dir) /\ fdOpen
        /\ AddWatch(dir)
        /\ Enroll(dir, [wd |-> WatchFor(dir), roots |-> {walk[w].root}], walk[w].root)
        /\ wdToPath' = Put(wdToPath, WatchFor(dir), dir)
        /\ Enrolled(w, dir)
        /\ UNCHANGED <<roots, pending, closed, fdOpen, runVars, callVars>>

(* The first lstat finds nothing, or addDir fails because the watcher is
   closed or the directory is gone. *)
AddDirFails(w) ==
    \E dir \in walk[w].todo :
        /\ Visits(w, dir)
        /\ \/ closed
           \/ /\ ~IsDirectory(dir)
              /\ walk[w].lstat \/ (walk[w].root \in DOMAIN rootDirs /\ dir \notin DOMAIN watched)
        /\ Abort(w, walk[w].todo \ {dir})
        /\ UNCHANGED <<kernelVars, tables, pending, closed, fdOpen, runVars, callVars>>

ReadDir(w) ==
    /\ walk[w].reading # NoPath /\ IsDirectory(walk[w].reading)
    /\ walk' = [walk EXCEPT ![w].todo = @ \cup {p \in Children(walk[w].reading) : fs[p].isDir},
                            ![w].reading = NoPath]
    /\ UNCHANGED <<kernelVars, tables, pending, closed, fdOpen, runVars, callVars, walkErr, history>>

ReadDirFails(w) ==
    /\ walk[w].reading # NoPath /\ ~IsDirectory(walk[w].reading)
    /\ Abort(w, walk[w].todo)
    /\ UNCHANGED <<kernelVars, tables, pending, closed, fdOpen, runVars, callVars>>

WalkStep(w) ==
    \/ WalkExcluded(w) \/ AddDirOrphan(w) \/ AddDirShared(w) \/ AddDirWatch(w)
    \/ AddDirFails(w) \/ ReadDir(w) \/ ReadDirFails(w)

----------------------------------------------------------------------------
(* Add and Remove *)

CallGoto(c, label) == callPc' = [callPc EXCEPT ![c] = label]

CallBegin(c) == callPc[c] = "idle" /\ calls < MaxCalls /\ calls' = calls + 1

(* A call on a closed watcher, an Add of a root that is registered and a
   Remove of one that is not change nothing: they are stuttering steps. *)
AddRegister(c, tgt) ==
    /\ CallBegin(c) /\ ~closed /\ tgt.Path \notin DOMAIN roots
    /\ roots' = Put(roots, tgt.Path, tgt)
    /\ rootDirs' = Put(rootDirs, tgt.Path, {})
    /\ target' = [target EXCEPT ![c] = tgt]
    /\ StartWalk(c, tgt.Path, tgt.WatchPath, tgt.IsDir /\ tgt.Recursive, tgt.IsDir)
    /\ CallGoto(c, "walk")
    /\ lost' = {loss \in lost : loss[1] # tgt.Path}
    /\ UNCHANGED <<kernelVars, watched, wdToPath, pending, closed, fdOpen, runVars, said, astray>>

AddDone(c) ==
    /\ callPc[c] = "walk" /\ ~Walking(c)
    /\ CallGoto(c, IF walkErr[c] THEN "cleanup" ELSE "idle")
    /\ target' = IF walkErr[c] THEN target ELSE [target EXCEPT ![c] = NoTarget]
    /\ UNCHANGED <<kernelVars, tables, pending, closed, fdOpen, runVars, calls, walkVars, history>>

(* Mutant: Remove forgets the directories of the root, but not the root. *)
MutantForgetKeepsRoot(path) ==
    LET dirs == rootDirs[path] \cap DOMAIN watched
        dead == {dir \in dirs : watched[dir].roots \subseteq {path}}
    IN  /\ RmWatches({watched[dir].wd : dir \in dead})
        /\ wdToPath' = Without(wdToPath, {watched[dir].wd : dir \in dead})
        /\ watched' = Without(watched, dead)
        /\ rootDirs' = Without(rootDirs, {path})
        /\ UNCHANGED roots

(* Remove's critical section: the root leaves every directory enrolled for
   it, and a directory no root is left for is unwatched. *)
ForgetRoot(path) ==
    LET dirs == rootDirs[path] \cap DOMAIN watched
        dead == {dir \in dirs : watched[dir].roots \subseteq {path}}
    IN  /\ RmWatches({watched[dir].wd : dir \in dead})
        /\ wdToPath' = Without(wdToPath, {watched[dir].wd : dir \in dead})
        /\ watched' = [dir \in DOMAIN watched \ dead |->
                         IF dir \in dirs
                         THEN [watched[dir] EXCEPT !.roots = @ \ {path}]
                         ELSE watched[dir]]
        /\ rootDirs' = Without(rootDirs, {path})
        /\ roots' = Without(roots, {path})

(* Add failed: its call of Remove; nothing to do if somebody removed the
   root in the meantime. *)
AddCleanup(c) ==
    /\ callPc[c] = "cleanup"
    /\ IF target[c].Path \in DOMAIN roots
       THEN ForgetRoot(target[c].Path)
       ELSE UNCHANGED <<kernelVars, tables>>
    /\ CallGoto(c, "idle")
    /\ target' = [target EXCEPT ![c] = NoTarget]
    /\ UNCHANGED <<pending, closed, fdOpen, runVars, calls, walkVars, history>>

RemoveRoot(c, path) ==
    /\ CallBegin(c) /\ path \in DOMAIN roots
    /\ ForgetRoot(path)
    /\ UNCHANGED <<pending, closed, fdOpen, runVars, callPc, target, walkVars, history>>

(* Close sets the flag under the lock and closes the descriptor after it;
   with the descriptor go the watches and the queue. *)
CloseFlag ==
    /\ MayClose /\ ~closed
    /\ closed' = TRUE
    /\ UNCHANGED <<kernelVars, tables, pending, fdOpen, runVars, callVars, walkVars, history>>

CloseDescriptor ==
    /\ closed /\ fdOpen
    /\ fdOpen' = FALSE
    /\ watches' = <<>> /\ kq' = <<>>
    /\ UNCHANGED <<fs, nextWd, changes, tables, pending, closed, runVars, callVars,
                   walkVars, history>>

----------------------------------------------------------------------------
(* run() *)

RunGoto(label) == runPc' = label

(* Directories lose their nodes.  One that is there all the same, or that is
   the root's own, is not put back unless it is made or enrolled again. *)
Loses(gone) ==
    lost' = lost \cup {loss \in (DOMAIN roots) \X gone \X {"taken"} :
                         /\ loss[1] \in watched[loss[2]].roots
                         /\ IsDirectory(loss[2]) \/ loss[2] = loss[1]}

(* Mutant: the roots keep the directories on their lists. *)
MutantUnwatchKeepsLists(prefixes) ==
    LET gone == {dir \in DOMAIN watched : \E p \in prefixes : HasPathPrefix(dir, p)}
        wds  == {watched[dir].wd : dir \in gone}
    IN  /\ RmWatches(wds)
        /\ wdToPath' = Without(wdToPath, wds)
        /\ watched' = Without(watched, gone)
        /\ Loses(gone)
        /\ UNCHANGED <<roots, rootDirs, said, astray>>

(* removeWatchedPrefix, and removeWatchedPrefixLocked: every watched path at
   or below prefix loses its watch, whatever roots it was enrolled for. *)
Unwatch(prefixes) ==
    LET gone == {dir \in DOMAIN watched : \E p \in prefixes : HasPathPrefix(dir, p)}
        wds  == {watched[dir].wd : dir \in gone}
    IN  /\ RmWatches(wds)
        /\ wdToPath' = Without(wdToPath, wds)
        /\ watched' = Without(watched, gone)
        /\ rootDirs' = [rt \in DOMAIN rootDirs |->
                          rootDirs[rt] \ {dir \in gone : rt \in watched[dir].roots}]
        /\ Loses(gone)
        /\ UNCHANGED <<roots, said, astray>>

(* flushPending: the renames whose other half has not come in 250 ms are
   removals.  Which ones are that old, is left open. *)
FlushPending ==
    /\ runPc = "loop" /\ fdOpen
    /\ \E old \in (SUBSET DOMAIN pending) \ {{}} :
         /\ Unwatch({pending[k].path : k \in {j \in old : pending[j].isDir}})
         /\ hand' \in SetToSeqs({Event("remove", pending[k].path) : k \in old})
         /\ pending' = Without(pending, old)
    /\ RunGoto("emit")
    /\ UNCHANGED <<closed, fdOpen, buf, cur, left, callVars, walkVars>>

(* poll and read: all the queue holds. *)
Read ==
    /\ runPc = "loop" /\ fdOpen /\ kq # <<>>
    /\ buf' = kq
    /\ kq' = <<>>
    /\ RunGoto("next")
    /\ UNCHANGED <<fs, watches, nextWd, changes, tables, pending, closed, fdOpen, cur, left,
                   hand, callVars, walkVars, history>>

(* read fails on the closed descriptor. *)
RunExits ==
    /\ runPc = "loop" /\ ~fdOpen
    /\ RunGoto("exited")
    /\ UNCHANGED <<kernelVars, tables, pending, closed, fdOpen, buf, cur, left, hand,
                   callVars, walkVars, history>>

(* After the last event of the buffer. *)
BufferDone ==
    /\ runPc = "next" /\ buf = <<>>
    /\ RunGoto("loop")
    /\ UNCHANGED <<kernelVars, tables, pending, closed, fdOpen, buf, cur, left, hand,
                   callVars, walkVars, history>>

Raw == buf[1]
FullPath == IF Raw.name = NoName THEN wdToPath[Raw.wd] ELSE Append(wdToPath[Raw.wd], Raw.name)

Dispatches(kinds) ==
    runPc = "next" /\ buf # <<>> /\ Raw.kind \in kinds /\ Raw.wd \in DOMAIN wdToPath

Taken == buf' = Tail(buf)

(* A descriptor that was removed: the event is about nothing anymore. *)
HandleUnknown ==
    /\ runPc = "next" /\ buf # <<>>
    /\ Raw.kind # "Q_OVERFLOW" /\ Raw.wd \notin DOMAIN wdToPath
    /\ Taken
    /\ UNCHANGED <<kernelVars, tables, pending, closed, fdOpen, runPc, cur, left, hand,
                   callVars, walkVars, history>>

HandleOverflow ==
    /\ runPc = "next" /\ buf # <<>> /\ Raw.kind = "Q_OVERFLOW"
    /\ Taken
    /\ hand' = <<Event("overflow", NoPath)>>
    /\ RunGoto("emit")
    /\ UNCHANGED <<kernelVars, tables, pending, closed, fdOpen, cur, left, callVars,
                   walkVars, history>>

HandleMovedFrom ==
    /\ Dispatches({"MOVED_FROM"})
    /\ pending' = Put(pending, Raw.cookie, [path |-> FullPath, isDir |-> Raw.isDir])
    /\ Taken
    /\ UNCHANGED <<kernelVars, tables, closed, fdOpen, runPc, cur, left, hand, callVars,
                   walkVars, history>>

(* Modified or closed after writing, or its attributes changed. *)
HandleContent ==
    /\ Dispatches({"MODIFY", "ATTRIB"})
    /\ hand' = <<Event(IF Raw.kind = "ATTRIB" THEN "chmod" ELSE "write", FullPath)>>
    /\ Taken
    /\ RunGoto("emit")
    /\ UNCHANGED <<kernelVars, tables, pending, closed, fdOpen, cur, left, callVars,
                   walkVars, history>>

(* takeRename: the other half of a MOVED_TO, if it has been seen. *)
OldPath == IF Raw.kind = "MOVED_TO" /\ Raw.cookie \in DOMAIN pending
           THEN pending[Raw.cookie].path ELSE NoPath

HandleAppeared ==
    /\ Dispatches({"CREATE", "MOVED_TO"})
    /\ cur' = [raw |-> Raw, path |-> FullPath, old |-> OldPath]
    /\ pending' = IF Raw.kind = "MOVED_TO" THEN Without(pending, {Raw.cookie}) ELSE pending
    /\ Taken
    /\ RunGoto(IF Raw.isDir THEN "snapshot" ELSE "report")
    /\ UNCHANGED <<kernelVars, tables, closed, fdOpen, left, hand, callVars, walkVars, history>>

(* addRecursiveDirIfNeeded: which roots the new directory belongs to. *)
SnapshotRoots ==
    /\ runPc = "snapshot"
    /\ left' = {rt \in DOMAIN roots : /\ roots[rt].IsDir /\ roots[rt].Recursive
                                      /\ HasPathPrefix(cur.path, roots[rt].Path)}
    /\ RunGoto("walk")
    /\ UNCHANGED <<kernelVars, tables, pending, closed, fdOpen, buf, cur, hand, callVars,
                   walkVars, history>>

(* Mutant: a new directory is enrolled without what is in it already. *)
MutantWalkIsFlat ==
    /\ runPc = "walk" /\ ~Walking(Run)
    /\ \E rt \in left : StartWalk(Run, rt, cur.path, FALSE, TRUE) /\ left' = left \ {rt}
    /\ UNCHANGED <<kernelVars, tables, pending, closed, fdOpen, runPc, buf, cur, hand,
                   callVars, history>>

(* One walk per root; its error is ignored. *)
WalkNextRoot ==
    /\ runPc = "walk" /\ ~Walking(Run)
    /\ \E rt \in left : StartWalk(Run, rt, cur.path, TRUE, TRUE) /\ left' = left \ {rt}
    /\ UNCHANGED <<kernelVars, tables, pending, closed, fdOpen, runPc, buf, cur, hand,
                   callVars, history>>

WalksDone ==
    /\ runPc = "walk" /\ ~Walking(Run) /\ left = {}
    /\ RunGoto(IF cur.old = NoPath THEN "report" ELSE "rename")
    /\ UNCHANGED <<kernelVars, tables, pending, closed, fdOpen, buf, cur, left, hand,
                   callVars, walkVars, history>>

(* Mutant: the nodes move, the lists of the roots do not. *)
MutantRenameKeepsLists ==
    /\ runPc = "rename"
    /\ LET to(dir)   == JoinMovedPath(dir, cur.old, cur.path)
           from(dir) == JoinMovedPath(dir, cur.path, cur.old)
           moved == {dir \in DOMAIN watched : HasPathPrefix(dir, cur.old)}
           after == {to(dir) : dir \in moved}
       IN  /\ watched' = [dir \in (DOMAIN watched \ moved) \cup after |->
                            IF dir \in after THEN watched[from(dir)] ELSE watched[dir]]
           /\ wdToPath' = [wd \in DOMAIN wdToPath |->
                            IF \E dir \in moved : watched[dir].wd = wd
                            THEN to(CHOOSE dir \in moved : watched[dir].wd = wd)
                            ELSE wdToPath[wd]]
    /\ RunGoto("report")
    /\ UNCHANGED <<kernelVars, roots, rootDirs, pending, closed, fdOpen, buf, cur, left,
                   hand, callVars, walkVars, history>>

(* renameWatchedPrefix: the nodes at or below the old path are stored under
   their new paths and displace the nodes there. *)
RenameWatched ==
    /\ runPc = "rename"
    /\ LET to(dir)   == JoinMovedPath(dir, cur.old, cur.path)
           from(dir) == JoinMovedPath(dir, cur.path, cur.old)
           moved == {dir \in DOMAIN watched : HasPathPrefix(dir, cur.old)}
           after == {to(dir) : dir \in moved}
       IN  /\ watched' = [dir \in (DOMAIN watched \ moved) \cup after |->
                            IF dir \in after THEN watched[from(dir)] ELSE watched[dir]]
           /\ wdToPath' = [wd \in DOMAIN wdToPath \cup {watched[dir].wd : dir \in moved} |->
                            IF \E dir \in moved : watched[dir].wd = wd
                            THEN to(CHOOSE dir \in moved : watched[dir].wd = wd)
                            ELSE wdToPath[wd]]
           /\ rootDirs' = [rt \in DOMAIN rootDirs |->
                            (rootDirs[rt] \ {dir \in moved : rt \in watched[dir].roots})
                            \cup {to(dir) : dir \in {m \in moved : rt \in watched[m].roots}}]
    /\ RunGoto("report")
    /\ UNCHANGED <<kernelVars, roots, pending, closed, fdOpen, buf, cur, left, hand,
                   callVars, walkVars, history>>

Report ==
    /\ runPc = "report"
    /\ hand' = <<IF cur.old = NoPath THEN Event("create", cur.path)
                 ELSE [op |-> "rename", path |-> cur.path, old |-> cur.old]>>
    /\ cur' = NoEvent
    /\ RunGoto("emit")
    /\ UNCHANGED <<kernelVars, tables, pending, closed, fdOpen, buf, left, callVars,
                   walkVars, history>>

(* Mutant: only what was watched itself is reported as removed. *)
MutantOnlySelfGoes ==
    /\ Dispatches({"DELETE", "DELETE_SELF", "MOVE_SELF"})
    /\ cur' = [raw |-> Raw, path |-> FullPath, old |-> NoPath]
    /\ Taken
    /\ RunGoto(IF Raw.kind = "DELETE" THEN "next" ELSE "unwatch")
    /\ UNCHANGED <<kernelVars, tables, pending, closed, fdOpen, left, hand, callVars,
                   walkVars, history>>

(* A name is gone from a watched directory, or a watched directory itself
   is gone or has moved. *)
HandleGone ==
    /\ Dispatches({"DELETE", "DELETE_SELF", "MOVE_SELF"})
    /\ cur' = [raw |-> Raw, path |-> FullPath, old |-> NoPath]
    /\ Taken
    /\ RunGoto(IF Raw.kind = "DELETE" /\ ~Raw.isDir THEN "gone" ELSE "unwatch")
    /\ UNCHANGED <<kernelVars, tables, pending, closed, fdOpen, left, hand, callVars,
                   walkVars, history>>

UnwatchGone ==
    /\ runPc = "unwatch"
    /\ Unwatch({cur.path})
    /\ RunGoto("gone")
    /\ UNCHANGED <<pending, closed, fdOpen, buf, cur, left, hand, callVars, walkVars>>

ReportGone ==
    /\ runPc = "gone"
    /\ hand' = <<Event("remove", cur.path)>>
    /\ cur' = NoEvent
    /\ RunGoto("emit")
    /\ UNCHANGED <<kernelVars, tables, pending, closed, fdOpen, buf, left, callVars,
                   walkVars, history>>

(* handle() looks the path of the dropped watch up and unlocks. *)
HandleIgnored ==
    /\ Dispatches({"IGNORED"})
    /\ cur' = [raw |-> Raw, path |-> FullPath, old |-> NoPath]
    /\ Taken
    /\ RunGoto("drop")
    /\ UNCHANGED <<kernelVars, tables, pending, closed, fdOpen, left, hand, callVars,
                   walkVars, history>>

(* Mutant: the descriptor is forgotten, the node stays. *)
MutantDropKeepsNode ==
    /\ runPc = "drop"
    /\ wdToPath' = Without(wdToPath, {cur.raw.wd})
    /\ cur' = NoEvent
    /\ RunGoto("next")
    /\ UNCHANGED <<kernelVars, roots, rootDirs, watched, pending, closed, fdOpen, buf, left,
                   hand, callVars, walkVars, history>>

(* dropWatch: the node under the path goes, whatever descriptor it holds by
   now, and the descriptor of the event is forgotten if there was a node. *)
DropWatch ==
    /\ runPc = "drop"
    /\ LET gone == {cur.path} \cap DOMAIN watched
       IN  /\ wdToPath' = IF gone = {} THEN wdToPath ELSE Without(wdToPath, {cur.raw.wd})
           /\ watched' = Without(watched, gone)
           /\ rootDirs' = [rt \in DOMAIN rootDirs |->
                             rootDirs[rt] \ {dir \in gone : rt \in watched[dir].roots}]
           /\ astray' = astray \cup ({watched[dir].wd : dir \in gone} \ {cur.raw.wd})
           /\ Loses(gone)
    /\ cur' = NoEvent
    /\ RunGoto("next")
    /\ UNCHANGED <<kernelVars, roots, pending, closed, fdOpen, buf, left, hand, callVars,
                   walkVars, said>>

(* emitEvent: the send, once the channel has room. *)
Emit ==
    /\ runPc = "emit"
    /\ said' = IF Head(hand).path = NoPath THEN said
               ELSE Put(said, Head(hand).path, Head(hand).op)
    /\ hand' = Tail(hand)
    /\ RunGoto(IF Len(hand) = 1 THEN "next" ELSE "emit")
    /\ UNCHANGED <<kernelVars, tables, pending, closed, fdOpen, buf, cur, left, callVars,
                   walkVars, astray, lost>>

----------------------------------------------------------------------------
RunStep ==
    \/ FlushPending \/ Read \/ RunExits \/ BufferDone
    \/ HandleUnknown \/ HandleOverflow \/ HandleMovedFrom \/ HandleContent
    \/ HandleAppeared \/ SnapshotRoots \/ WalkNextRoot \/ WalksDone \/ RenameWatched
    \/ Report \/ HandleGone \/ UnwatchGone \/ ReportGone \/ HandleIgnored \/ DropWatch \/ Emit

CallStep(c) ==
    \/ \E tgt \in Targets : AddRegister(c, tgt)
    \/ AddDone(c) \/ AddCleanup(c)
    \/ \E path \in DOMAIN roots : RemoveRoot(c, path)

Next ==
    \/ DiskChanges /\ UNCHANGED <<tables, pending, closed, fdOpen, runVars, callVars,
                                  walkVars, history>>
    \/ \E w \in Walkers : WalkStep(w)
    \/ \E c \in Callers : CallStep(c)
    \/ RunStep
    \/ CloseFlag \/ CloseDescriptor

Spec == Init /\ [][Next]_vars
=============================================================================
