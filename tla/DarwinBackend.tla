---------------------------- MODULE DarwinBackend ----------------------------
(***************************************************************************)
(* internal/backend/backend_darwin.go with the walk of helpers.go: a       *)
(* descriptor for every directory and file, the snapshots of directories   *)
(* that tell what was made and removed in them, the goroutine run() that   *)
(* handles a batch of kernel notes, and the callers of Add, Remove, Close. *)
(*                                                                         *)
(* A step is one critical section of darwinWatcher.mu or one system call   *)
(* outside it, with the sends on the events channel that follow.  The disk *)
(* changes between any two steps.                                          *)
(***************************************************************************)
EXTENDS Kqueue

CONSTANTS
    Callers,       \* goroutines calling the backend
    MayCall,       \* what they call: <<caller, "Add" | "Remove" | "Close">>
    Targets,       \* the targets they add, [Path, WatchPath, IsDir, Recursive]
    Excluded,      \* <<path, isDir>> that Config.ShouldExclude rejects
    MaxCalls,      \* bound: calls
    NoPath

Run     == "run"
Walkers == Callers \cup {Run}

ASSUME DarwinAssumption ==
    /\ Run \notin Callers /\ MaxCalls \in Nat /\ NoPath \notin Tree
    /\ Targets \subseteq [Path : Tree, WatchPath : Tree, IsDir : BOOLEAN, Recursive : BOOLEAN]

VARIABLES
    \* darwinWatcher, guarded by mu.
    roots,       \* roots[p]: the target registered under p
    rootNodes,   \* rootNodes[p]: the paths enrolled for root p
    watched,     \* watched[path]: the node [fd, isDir, roots] of an enrolled path
    fdToPath,    \* fdToPath[fd]: the path a descriptor stands for
    snapshots,   \* snapshots[dir]: the entries dir had when it was last read
    closed,      \* closedFlag
    \* run()
    runPc,       \* its control
    batch,       \* what kevent returned, from the current note on
    gone,        \* what handle() found gone: its path, inode and kind
    here,        \* the directory rescanDir is at
    held,        \* the copy of its roots
    seen,        \* its new snapshot
    added, removed,  \* the differences left to report
    making,      \* the new entry being enrolled, and the roots left for it
    \* callers
    callPc, target, calls,
    \* walkPath and addPath in progress
    walk,        \* walk[w]: root, kind, path to lstat, entries to visit, directory to read
    adding,      \* adding[w]: the entry addPath is at, its step and descriptor
    walkErr,     \* the walk of w ended with an error
    \* What has happened, read by properties only.
    said,        \* said[p]: the last operation reported about p
    mishaps,     \* reasons why the tables or the reports may be off, see Mishaps
    blurred      \* paths of which the backend missed that they went or came, see Blurred

tables   == <<roots, rootNodes, watched, fdToPath, snapshots>>
scanVars == <<here, held, seen, added, removed, making>>
runVars  == <<runPc, batch, gone, scanVars>>
callVars == <<callPc, target, calls>>
walkVars == <<walk, adding, walkErr>>
history == <<said, mishaps, blurred>>
vars == <<kernelVars, tables, closed, runVars, callVars, walkVars,
          history>>

NoWalk   == [root |-> NoPath, kind |-> "none", start |-> NoPath, todo |-> {}, reading |-> NoPath]
NoAdd    == [step |-> "none", path |-> NoPath, isDir |-> FALSE, fd |-> 0]
NoneGone == [path |-> NoPath, ino |-> NoPath, isDir |-> FALSE]
NoMaking == [entry |-> NoPath, left |-> {}]

Init ==
    /\ KqueueInit
    /\ roots = <<>> /\ rootNodes = <<>> /\ watched = <<>> /\ fdToPath = <<>>
    /\ snapshots = <<>> /\ closed = FALSE
    /\ runPc = "next" /\ batch = <<>> /\ gone = NoneGone
    /\ here = NoPath /\ held = {} /\ seen = {} /\ added = {} /\ removed = {}
    /\ making = NoMaking
    /\ callPc = [c \in Callers |-> "idle"] /\ target = [c \in Callers |-> NoPath]
    /\ calls = 0
    /\ walk = [w \in Walkers |-> NoWalk] /\ adding = [w \in Walkers |-> NoAdd]
    /\ walkErr = [w \in Walkers |-> FALSE]
    /\ said = <<>> /\ mishaps = {} /\ blurred = {}

Put(f, k, v) == [j \in DOMAIN f \cup {k} |-> IF j = k THEN v ELSE f[j]]
Without(f, ks) == Restrict(f, DOMAIN f \ ks)
ShouldExclude(path, isDir) == <<path, isDir>> \in Excluded

(* readDirSnapshot: entries by name, not by path, so that the snapshot of a
   directory that is renamed stays true.  A directory that cannot be read has
   none. *)
SnapshotOf(dir) ==
    IF IsDirectory(dir)
    THEN {Entry(p) : p \in {q \in Children(dir) : ~ShouldExclude(q, fs[q].isDir)}}
    ELSE {}

(* Mishaps.  "torn": the snapshot rescanDir works with was put into the pool;
   "stale": a note was acted on when its descriptor or its path stood for
   another inode;
   "displaced": a rename overwrote the node of its new path;
   "mistaken": renamePath, for a file, carried a directory enrolled meanwhile
   under that name, and left its snapshot;
   "joined": a root joined a directory whose roots rescanDir had copied;
   "cut": a walk of run() ended with an error, which it ignores; and
   "withdrawn": a root was removed, and what it alone had watched is not. *)
Befalls(new) == mishaps' = mishaps \cup new
Torn(paths)  == IF runPc \in {"read", "diff", "enroll"} /\ here \in paths \cap DOMAIN snapshots
                THEN {"torn"} ELSE {}

(* Mutant: a path several roots watch is spared. *)
MutantUnregisterSparesShared(paths, mishap) ==
    LET dead == {p \in paths : Cardinality(watched[p].roots) = 1}
    IN  /\ watched' = Without(watched, dead)
        /\ fdToPath' = Without(fdToPath, {watched[p].fd : p \in dead})
        /\ snapshots' = Without(snapshots, dead)
        /\ rootNodes' = [rt \in DOMAIN rootNodes |->
                            rootNodes[rt] \ {p \in dead : rt \in watched[p].roots}]
        /\ CloseFds({watched[p].fd : p \in dead})
        /\ Befalls(Torn(dead) \cup mishap)
        /\ UNCHANGED roots

(* unregisterLocked of some paths.  Their snapshots are cleared and go into
   the pool: rescanDir may be working with one of them. *)
Unregister(paths, mishap) ==
    /\ watched' = Without(watched, paths)
    /\ fdToPath' = Without(fdToPath, {watched[p].fd : p \in paths})
    /\ snapshots' = Without(snapshots, paths)
    /\ rootNodes' = [rt \in DOMAIN rootNodes |->
                        rootNodes[rt] \ {p \in paths : rt \in watched[p].roots}]
    /\ CloseFds({watched[p].fd : p \in paths})
    /\ Befalls(Torn(paths) \cup mishap)
    /\ UNCHANGED roots

----------------------------------------------------------------------------
(* walkPath by w, and addPath for each entry.  A "tree" is walked to its
   leaves from what lstat finds, "flat" is a directory and the files in it,
   "file" a directory and one file in it, "one" a single entry. *)
StartWalk(w, rt, kind, path, isDir) ==
    /\ walk' = [walk EXCEPT ![w] =
          [root |-> rt, kind |-> kind, reading |-> NoPath,
           start |-> IF kind = "tree" THEN path ELSE NoPath,
           todo |-> IF kind = "tree" THEN {} ELSE {[path |-> path, isDir |-> isDir]}]]
    /\ walkErr' = [walkErr EXCEPT ![w] = FALSE]
    /\ UNCHANGED adding

Walking(w) == walk[w].start # NoPath \/ walk[w].todo # {} \/ walk[w].reading # NoPath

Abort(w) == /\ walk' = [walk EXCEPT ![w] = NoWalk]
            /\ adding' = [adding EXCEPT ![w] = NoAdd]
            /\ walkErr' = [walkErr EXCEPT ![w] = TRUE]
            /\ Befalls(IF w = Run THEN {"cut"} ELSE {})
            /\ UNCHANGED <<closed, runVars, callVars, said, blurred>>

(* Going on after the entry e: a directory is read after it is enrolled. *)
Visited(w, e) ==
    /\ walk' = [walk EXCEPT ![w].reading = IF e.isDir /\ @ = NoPath /\ walk[w].kind \in {"tree", "flat"}
                                           THEN e.path ELSE NoPath,
          ![w].todo = (@ \ {e}) \cup (IF walk[w].kind = "file" /\ e.isDir
                                      THEN {[path |-> walk[w].root, isDir |-> FALSE]} ELSE {})]
    /\ adding' = [adding EXCEPT ![w] = NoAdd]
    /\ UNCHANGED <<closed, runVars, callVars, walkErr, said, blurred>>

(* The walk itself: lstat of its start, exclusion, and reading a directory. *)
Lstat(w) ==
    /\ walk[w].start # NoPath
    /\ IF Exists(walk[w].start)
       THEN /\ walk' = [walk EXCEPT ![w].start = NoPath,
                  ![w].todo = {[path |-> walk[w].start, isDir |-> fs[walk[w].start].isDir]}]
            /\ UNCHANGED <<closed, runVars, callVars, adding, walkErr, history>>
       ELSE Abort(w)
    /\ UNCHANGED <<kernelVars, tables>>

Visits(w, e) == e \in walk[w].todo /\ walk[w].reading = NoPath /\ adding[w].step = "none"

WalkExcluded(w) ==
    \E e \in walk[w].todo :
        /\ Visits(w, e) /\ walk[w].kind = "tree" /\ ShouldExclude(e.path, e.isDir)
        /\ walk' = [walk EXCEPT ![w].todo = @ \ {e}]
        /\ UNCHANGED <<kernelVars, tables, closed, runVars, callVars, adding, walkErr,
                       history>>

ReadDir(w) ==
    LET dir     == walk[w].reading
        found   == {[path |-> p, isDir |-> fs[p].isDir] : p \in Children(dir)}
        kept(e) == walk[w].kind = "tree" \/ ~(e.isDir \/ ShouldExclude(e.path, FALSE))
    IN  /\ dir # NoPath
        /\ IF IsDirectory(dir)
           THEN /\ walk' = [walk EXCEPT ![w].reading = NoPath,
                                        ![w].todo = @ \cup {e \in found : kept(e)}]
                /\ UNCHANGED <<closed, runVars, callVars, adding, walkErr, history>>
           ELSE Abort(w)
        /\ UNCHANGED <<kernelVars, tables>>

(* addPath, up to its first unlock.  It asks ShouldExclude of everything but
   the root itself, and enrolls nothing for a root that has been removed. *)
Considers(w, e) ==
    /\ Visits(w, e)
    /\ walk[w].kind = "tree" => ~ShouldExclude(e.path, e.isDir)

IsRoot(w, e) == walk[w].root \in DOMAIN roots /\ e.path = walk[w].root
Registered(w) == walk[w].root \in DOMAIN rootNodes
Wanted(w, e) == Registered(w) /\ (ShouldExclude(e.path, e.isDir) => IsRoot(w, e))

AddNothing(w) ==
    \E e \in walk[w].todo :
        /\ Considers(w, e) /\ ~Wanted(w, e)
        /\ Visited(w, e)
        /\ UNCHANGED <<kernelVars, tables, mishaps>>

(* The path has a node, which the root joins. *)
Join(w, path) ==
    /\ watched' = [watched EXCEPT ![path].roots = @ \cup {walk[w].root}]
    /\ rootNodes' = [rootNodes EXCEPT ![walk[w].root] = @ \cup {path}]
    /\ Befalls(IF runPc = "read" /\ here = path THEN {"joined"} ELSE {})
    /\ UNCHANGED <<roots, fdToPath, snapshots>>

AddShared(w) ==
    \E e \in walk[w].todo :
        /\ Considers(w, e) /\ Wanted(w, e) /\ e.path \in DOMAIN watched
        /\ Join(w, e.path)
        /\ Visited(w, e)
        /\ UNCHANGED kernelVars

(* A new path is opened and registered with the kqueue outside the lock. *)
AddOpens(w) ==
    \E e \in walk[w].todo :
        /\ Considers(w, e) /\ Wanted(w, e) /\ e.path \notin DOMAIN watched
        /\ Exists(e.path)
        /\ Open(e.path)
        /\ adding' = [adding EXCEPT ![w] = [step |-> "arm", path |-> e.path,
                                           isDir |-> e.isDir, fd |-> LowestFree]]
        /\ UNCHANGED <<tables, closed, runVars, callVars, walk, walkErr, history>>

AddArm(w) ==
    /\ adding[w].step = "arm" /\ kqOpen
    /\ Arm(adding[w].fd)
    /\ adding' = [adding EXCEPT ![w].step = "enter"]
    /\ UNCHANGED <<tables, closed, runVars, callVars, walk, walkErr, history>>

(* Mutant: an addPath that comes after Close keeps its descriptor. *)
MutantFailKeepsFd(w) ==
    /\ \/ /\ \E e \in walk[w].todo : /\ Considers(w, e) /\ Wanted(w, e)
                                     /\ e.path \notin DOMAIN watched /\ ~Exists(e.path)
          /\ UNCHANGED kernelVars
       \/ adding[w].step = "arm" /\ ~kqOpen /\ CloseFds({adding[w].fd})
       \/ adding[w].step = "enter" /\ closed /\ UNCHANGED kernelVars
    /\ Abort(w)
    /\ UNCHANGED tables

(* The path is gone, the kqueue is closed, or the watcher is: an error,
   with the descriptor given back. *)
AddFails(w) ==
    /\ \/ /\ \E e \in walk[w].todo : /\ Considers(w, e) /\ Wanted(w, e)
                                     /\ e.path \notin DOMAIN watched /\ ~Exists(e.path)
          /\ UNCHANGED kernelVars
       \/ adding[w].step = "arm" /\ ~kqOpen /\ CloseFds({adding[w].fd})
       \/ adding[w].step = "enter" /\ closed /\ CloseFds({adding[w].fd})
    /\ Abort(w)
    /\ UNCHANGED tables

(* addPath's second critical section. *)
Entering(w) == adding[w].step = "enter" /\ ~closed
Entered(w)  == Visited(w, [path |-> adding[w].path, isDir |-> adding[w].isDir])

(* Mutant: the descriptor of an orphan is not given back. *)
MutantOrphanKeepsFd(w) ==
    /\ Entering(w) /\ ~Registered(w)
    /\ Entered(w)
    /\ UNCHANGED <<kernelVars, tables, mishaps>>

EnterOrphan(w) ==
    /\ Entering(w) /\ ~Registered(w)
    /\ CloseFds({adding[w].fd})
    /\ Entered(w)
    /\ UNCHANGED <<tables, mishaps>>

EnterShared(w) ==
    /\ Entering(w) /\ Registered(w) /\ adding[w].path \in DOMAIN watched
    /\ CloseFds({adding[w].fd})
    /\ Join(w, adding[w].path)
    /\ Entered(w)

EnterNew(w) ==
    LET path == adding[w].path  rt == walk[w].root  fd == adding[w].fd
    IN  /\ Entering(w) /\ Registered(w) /\ path \notin DOMAIN watched
        /\ watched' = Put(watched, path, [fd |-> fd, isDir |-> adding[w].isDir, roots |-> {rt}])
        /\ fdToPath' = Put(fdToPath, fd, path)
        /\ rootNodes' = [rootNodes EXCEPT ![rt] = @ \cup {path}]
        /\ snapshots' = IF adding[w].isDir THEN Put(snapshots, path, SnapshotOf(path))
                                           ELSE snapshots
        /\ Entered(w)
        /\ UNCHANGED <<kernelVars, roots, mishaps>>

WalkStep(w) ==
    \/ Lstat(w) \/ WalkExcluded(w) \/ ReadDir(w)
    \/ AddNothing(w) \/ AddShared(w) \/ AddOpens(w) \/ AddArm(w) \/ AddFails(w)
    \/ EnterOrphan(w) \/ EnterShared(w) \/ EnterNew(w)

----------------------------------------------------------------------------
(* Add, Remove and Close.  A call that changes nothing is no step: Add of a
   closed watcher or of a root that is there, Remove of a path that is no
   root, a second Close, which does not wait for the first. *)

CallBegins(c, op) == /\ <<c, op>> \in MayCall /\ callPc[c] = "idle"
                     /\ calls < MaxCalls /\ calls' = calls + 1
CallGoto(c, label) == callPc' = [callPc EXCEPT ![c] = label]

AddRegister(c) ==
    \E t \in Targets :
        /\ CallBegins(c, "Add") /\ ~closed /\ t.Path \notin DOMAIN roots
        /\ roots' = Put(roots, t.Path, t) /\ rootNodes' = Put(rootNodes, t.Path, {})
        /\ target' = [target EXCEPT ![c] = t.Path]
        /\ StartWalk(c, t.Path, IF t.IsDir THEN IF t.Recursive THEN "tree" ELSE "flat" ELSE "file",
                     t.WatchPath, TRUE)
        /\ CallGoto(c, "enroll")
        /\ UNCHANGED <<kernelVars, watched, fdToPath, snapshots, closed, runVars, history>>

AddReturns(c) ==
    /\ callPc[c] = "enroll" /\ ~Walking(c)
    /\ CallGoto(c, IF walkErr[c] THEN "cleanup" ELSE "idle")
    /\ UNCHANGED <<kernelVars, tables, closed, runVars, target, calls, walkVars, history>>

(* Mutant: the root's list is left. *)
MutantForgetKeepsList(path) ==
    LET mine == rootNodes[path] \cap DOMAIN watched
        dead == {p \in mine : watched[p].roots \subseteq {path}}
        left == [p \in DOMAIN watched \ dead |->
                    IF p \in mine THEN [watched[p] EXCEPT !.roots = @ \ {path}] ELSE watched[p]]
    IN  /\ watched' = left
        /\ fdToPath' = Without(fdToPath, {watched[p].fd : p \in dead})
        /\ snapshots' = Without(snapshots, dead)
        /\ roots' = Without(roots, {path})
        /\ Befalls(Torn(dead) \cup {"withdrawn"})
        /\ CloseFds({watched[p].fd : p \in dead})
        /\ UNCHANGED rootNodes

(* Remove's critical section; also what Add does about a root whose
   enrolment failed. *)
ForgetRoot(path) ==
    LET mine == rootNodes[path] \cap DOMAIN watched
        dead == {p \in mine : watched[p].roots \subseteq {path}}
        left == [p \in DOMAIN watched \ dead |->
                    IF p \in mine THEN [watched[p] EXCEPT !.roots = @ \ {path}] ELSE watched[p]]
    IN  /\ watched' = left
        /\ fdToPath' = Without(fdToPath, {watched[p].fd : p \in dead})
        /\ snapshots' = Without(snapshots, dead)
        /\ rootNodes' = Without(rootNodes, {path})
        /\ roots' = Without(roots, {path})
        /\ Befalls(Torn(dead) \cup {"withdrawn"})
        /\ CloseFds({watched[p].fd : p \in dead})

AddCleanup(c) ==
    /\ callPc[c] = "cleanup"
    /\ IF target[c] \in DOMAIN roots THEN ForgetRoot(target[c])
                                     ELSE UNCHANGED <<kernelVars, tables, mishaps>>
    /\ CallGoto(c, "idle")
    /\ UNCHANGED <<closed, runVars, target, calls, walkVars, said, blurred>>

RemoveRoot(c) ==
    \E path \in DOMAIN roots :
        /\ CallBegins(c, "Remove")
        /\ ForgetRoot(path)
        /\ UNCHANGED <<closed, runVars, callPc, target, walkVars, said, blurred>>

(* All descriptors are closed, and the kqueue, which wakes run(). *)
CloseBegins(c) ==
    /\ CallBegins(c, "Close") /\ ~closed
    /\ closed' = TRUE
    /\ watched' = <<>> /\ snapshots' = <<>>
    /\ LET closing == {watched[p].fd : p \in DOMAIN watched}
       IN  /\ fds' = [fd \in DOMAIN fds \ closing |-> [fds[fd] EXCEPT !.armed = FALSE, !.notes = {}]]
           /\ queue' = <<>> /\ kqOpen' = FALSE
    /\ CallGoto(c, "close")
    /\ UNCHANGED <<fs, changes, roots, rootNodes, fdToPath, runVars, target, walkVars,
                   history>>

CloseReturns(c) ==
    /\ callPc[c] = "close" /\ runPc = "exited"
    /\ CallGoto(c, "idle")
    /\ UNCHANGED <<kernelVars, tables, closed, runVars, target, calls, walkVars, history>>

Call(c) == \/ AddRegister(c) \/ WalkStep(c) \/ AddReturns(c) \/ AddCleanup(c)
           \/ RemoveRoot(c) \/ CloseBegins(c) \/ CloseReturns(c)

----------------------------------------------------------------------------
(* run() and handle().  A send on the events channel is part of the step it
   follows: who reads the channel is modelled in Watcher, which passes on what
   is in the scope of a root. *)
At(label) == runPc = label
InScope(p, t) == \/ t.Path = p
                 \/ t.IsDir /\ t.Recursive /\ HasPathPrefix(p, t.Path)
                 \/ t.IsDir /\ ~t.Recursive /\ ParentDir(p) = t.Path
Says(op, path) == said' = IF \E rt \in DOMAIN roots : InScope(path, roots[rt])
                          THEN Put(said, path, op) ELSE said

Wait ==
    /\ At("next") /\ batch = <<>> /\ kqOpen /\ queue # <<>>
    /\ batch' = Taken
    /\ TakeNotes
    /\ UNCHANGED <<tables, closed, runPc, gone, scanVars, callVars, walkVars, history>>

(* kevent fails on the closed kqueue. *)
Exit ==
    /\ At("next") /\ batch = <<>> /\ ~kqOpen
    /\ runPc' = "exited"
    /\ UNCHANGED <<kernelVars, tables, closed, batch, gone, scanVars, callVars, walkVars, history>>

(* handle looks the descriptor up by its number. *)
PathOf(fd) == IF fd \in DOMAIN fdToPath /\ fdToPath[fd] \in DOMAIN watched
              THEN fdToPath[fd] ELSE NoPath
IsGone(note) == note.notes \cap {"DELETE", "RENAME"} # {}
Stale(note)  == IF \E fd \in {note.fd} \cap DOMAIN fds : fds[fd].ino # note.ino
                THEN {"stale"} ELSE {}

Handles(note, path) ==
    /\ At("next") /\ batch # <<>> /\ note = batch[1] /\ path = PathOf(note.fd)
    /\ batch' = Tail(batch)

HandleUnknown ==
    \E note \in {batch[i] : i \in DOMAIN batch} :
        /\ Handles(note, NoPath)
        /\ UNCHANGED <<kernelVars, tables, closed, runPc, gone, scanVars, callVars, walkVars, history>>

(* A chmod is reported first, then what went is removed ... *)
HandleGone ==
    \E note \in {batch[i] : i \in DOMAIN batch}, path \in DOMAIN watched :
        /\ Handles(note, path) /\ IsGone(note)
        /\ gone' = [path |-> path, ino |-> note.ino, isDir |-> watched[path].isDir]
        /\ runPc' = "gone"
        /\ Befalls(Stale(note))
        /\ IF "ATTRIB" \in note.notes THEN Says("chmod", path) ELSE UNCHANGED said
        /\ UNCHANGED <<kernelVars, tables, closed, scanVars, callVars, walkVars, blurred>>

(* ... or a directory is read again, or a file was written. *)
HandleChanged ==
    \E note \in {batch[i] : i \in DOMAIN batch}, path \in DOMAIN watched :
        LET dir == watched[path].isDir  wrote == "WRITE" \in note.notes
        IN  /\ Handles(note, path) /\ ~IsGone(note)
            /\ runPc' = IF dir /\ wrote THEN "rescan" ELSE "next"
            /\ here' = IF dir /\ wrote THEN path ELSE NoPath
            /\ \/ wrote /\ ~dir /\ Says("write", path)
               \/ (dir \/ ~wrote) /\ "ATTRIB" \in note.notes /\ Says("chmod", path)
               \/ dir /\ wrote /\ "ATTRIB" \notin note.notes /\ UNCHANGED said
            /\ Befalls(Stale(note))
            /\ UNCHANGED <<kernelVars, tables, closed, gone, held, seen, added, removed, making,
                           callVars, walkVars, blurred>>

AtOrBelow(path) == {p \in DOMAIN watched : HasPathPrefix(p, path)}

(* The path was looked up in an earlier critical section. *)
ActedLate == IF \E p \in {gone.path} \cap DOMAIN watched : fds[watched[p].fd].ino # gone.ino
             THEN {"stale"} ELSE {}

(* Mutant: what is gone is unregistered and not reported. *)
MutantGoneSilently ==
    /\ At("gone")
    /\ LET dead == IF gone.isDir THEN AtOrBelow(gone.path) ELSE {gone.path} \cap DOMAIN watched
       IN  Unregister(dead, ActedLate)
    /\ here' = ParentDir(gone.path) /\ runPc' = "rescan" /\ gone' = NoneGone
    /\ UNCHANGED <<closed, batch, held, seen, added, removed, making, callVars, walkVars, said,
                   blurred>>

(* removePath or removePrefix, the report, and on to the parent. *)
RemoveGone ==
    /\ At("gone")
    /\ LET dead == IF gone.isDir THEN AtOrBelow(gone.path) ELSE {gone.path} \cap DOMAIN watched
       IN  Unregister(dead, ActedLate)
    /\ Says("remove", gone.path)
    /\ here' = ParentDir(gone.path) /\ runPc' = "rescan" /\ gone' = NoneGone
    /\ UNCHANGED <<closed, batch, held, seen, added, removed, making, callVars, walkVars, blurred>>

(* rescanDir takes the old snapshot and the roots under the lock ... *)
RescanSkips ==
    /\ At("rescan") /\ ~(here \in DOMAIN watched /\ watched[here].isDir)
    /\ runPc' = "next" /\ here' = NoPath
    /\ UNCHANGED <<kernelVars, tables, closed, batch, gone, held, seen, added, removed, making,
                   callVars, walkVars, history>>

RescanBegins ==
    /\ At("rescan") /\ here \in DOMAIN watched /\ watched[here].isDir
    /\ seen' = IF here \in DOMAIN snapshots THEN snapshots[here] ELSE {}
    /\ held' = watched[here].roots
    /\ runPc' = "read"
    /\ UNCHANGED <<kernelVars, tables, closed, batch, gone, here, added, removed, making,
                   callVars, walkVars, history>>

(* ... and compares it with the directory outside the lock, by name.  If
   the old snapshot was cleared meanwhile, what is read of it is open. *)
Names(entries) == {e.name : e \in entries}
PathIn(e) == Append(here, e.name)

RescanReads ==
    /\ At("read")
    /\ \E old \in IF "torn" \in mishaps THEN {seen, {}} ELSE {seen} :
         /\ removed' = {e \in old : e.name \notin Names(SnapshotOf(here))}
         /\ added' = {e \in SnapshotOf(here) : e.name \notin Names(old)}
    /\ seen' = SnapshotOf(here)
    /\ runPc' = "diff"
    /\ UNCHANGED <<kernelVars, tables, closed, batch, gone, here, held, making, callVars,
                   walkVars, history>>

(* An entry that went and one that came with its inode are a rename:
   renamePrefix or renamePath carry nodes, lists and snapshots over. *)
Pairs == {pr \in removed \X added : pr[1].ino = pr[2].ino /\ pr[1].isDir = pr[2].isDir}

(* Mutant: the new paths are not listed. *)
MutantListsLoseMoved(old, new, moved) ==
    [rt \in DOMAIN rootNodes |-> rootNodes[rt] \ {p \in moved : rt \in watched[p].roots}]

ListsAfter(old, new, moved) ==
    [rt \in DOMAIN rootNodes |->
        LET mine == {p \in moved : rt \in watched[p].roots}
        IN  (rootNodes[rt] \ mine) \cup {JoinMovedPath(p, old, new) : p \in mine}]

RescanRename ==
    /\ At("diff")
    /\ \E pr \in Pairs :
         LET old == PathIn(pr[1])  new == PathIn(pr[2])
             moved == IF pr[1].isDir THEN AtOrBelow(old) ELSE {old} \cap DOMAIN watched
             to(p) == JoinMovedPath(p, old, new)
             from  == [q \in {to(p) : p \in moved} |-> JoinMovedPath(q, new, old)]
             Carried(f) == [q \in (DOMAIN f \ moved) \cup {to(p) : p \in moved \cap DOMAIN f} |->
                               IF q \in DOMAIN from /\ from[q] \in DOMAIN f THEN f[from[q]] ELSE f[q]]
         IN  /\ watched' = Carried(watched)
             /\ snapshots' = IF pr[1].isDir THEN Carried(snapshots) ELSE snapshots
             /\ fdToPath' = [fd \in DOMAIN fdToPath \cup {watched[p].fd : p \in moved} |->
                   IF \E p \in moved : watched[p].fd = fd
                   THEN to(CHOOSE p \in moved : watched[p].fd = fd) ELSE fdToPath[fd]]
             /\ rootNodes' = ListsAfter(old, new, moved)
             /\ Says("rename", new)
             /\ removed' = removed \ {pr[1]} /\ added' = added \ {pr[2]}
             /\ Befalls((IF DOMAIN from \cap (DOMAIN watched \ moved) # {}
                         THEN {"displaced"} ELSE {})
                        \cup (IF ~pr[1].isDir /\ \E p \in moved : watched[p].isDir
                              THEN {"mistaken"} ELSE {}))
    /\ UNCHANGED <<kernelVars, roots, closed, runPc, batch, gone, here, held, seen, making,
                   callVars, walkVars, blurred>>

(* What went is reported if it was still watched. *)
RescanRemove ==
    /\ At("diff") /\ Pairs = {}
    /\ \E e \in removed :
         LET path == PathIn(e)
             dead == IF e.isDir THEN AtOrBelow(path) ELSE {path} \cap DOMAIN watched
         IN  /\ Unregister(dead, {})
             /\ IF dead # {} THEN Says("remove", path) ELSE UNCHANGED said
             /\ removed' = removed \ {e}
    /\ UNCHANGED <<closed, runPc, batch, gone, here, held, seen, added, making, callVars,
                   walkVars, blurred>>

(* What came is enrolled for each root held, and then reported. *)
RescanCreate ==
    /\ At("diff") /\ removed = {}
    /\ \E e \in added : making' = [entry |-> e, left |-> held]
    /\ runPc' = "enroll"
    /\ UNCHANGED <<kernelVars, tables, closed, batch, gone, here, held, seen, added, removed,
                   callVars, walkVars, history>>

(* Mutant: a new directory is not enrolled. *)
MutantKindForNoTree(rt, e) ==
    IF rt \in DOMAIN roots /\ ~e.isDir /\ InScope(PathIn(e), roots[rt]) THEN "one" ELSE "none"

(* enrollAddedPath, for one root: what the new entry is to it. *)
KindFor(rt, e) ==
    IF rt \notin DOMAIN roots \/ ~InScope(PathIn(e), roots[rt]) THEN "none"
    ELSE IF ~e.isDir THEN "one"
    ELSE IF roots[rt].IsDir /\ roots[rt].Recursive THEN "tree" ELSE "none"

EnrollFor ==
    /\ At("enroll") /\ ~Walking(Run)
    /\ \E rt \in making.left :
         /\ making' = [making EXCEPT !.left = @ \ {rt}]
         /\ LET kind == KindFor(rt, making.entry)
            IN  IF kind = "none" THEN UNCHANGED walkVars
                ELSE StartWalk(Run, rt, kind, PathIn(making.entry), making.entry.isDir)
    /\ UNCHANGED <<kernelVars, tables, closed, runPc, batch, gone, here, held, seen, added,
                   removed, callVars, history>>

Enrolled ==
    /\ At("enroll") /\ ~Walking(Run) /\ making.left = {}
    /\ Says("create", PathIn(making.entry))
    /\ added' = added \ {making.entry} /\ making' = NoMaking
    /\ runPc' = "diff"
    /\ UNCHANGED <<kernelVars, tables, closed, batch, gone, here, held, seen, removed, callVars,
                   walkVars, mishaps, blurred>>

RescanEnds ==
    /\ At("diff") /\ removed = {} /\ added = {}
    /\ snapshots' = Put(snapshots, here, seen)
    /\ runPc' = "next"
    /\ here' = NoPath /\ held' = {} /\ seen' = {}
    /\ UNCHANGED <<kernelVars, roots, rootNodes, watched, fdToPath, closed, batch, gone, added,
                   removed, making, callVars, walkVars, history>>

RunStep ==
    \/ Wait \/ Exit \/ HandleUnknown \/ HandleGone \/ HandleChanged \/ RemoveGone
    \/ RescanSkips \/ RescanBegins \/ RescanReads \/ RescanRename \/ RescanRemove
    \/ RescanCreate \/ EnrollFor \/ Enrolled \/ RescanEnds
    \/ (At("enroll") /\ WalkStep(Run))

----------------------------------------------------------------------------
(* Everything that has happened on disk has been handled. *)
Quiet ==
    /\ At("next") /\ batch = <<>> /\ queue = <<>> /\ ~closed
    /\ \A c \in Callers : callPc[c] = "idle"

(* The disk changes under all of it.  Three kinds of change escape the
   backend, and blur the paths they are about: what is moved becomes unwatched;
   a path comes while the backend still has an entry of that name, since
   snapshots are compared by name; and a path goes after a rescan has found it
   new, or before a walk under way has it in the tables. *)
Known(path) == \/ path \in DOMAIN watched
               \/ \E dir \in {ParentDir(path)} \cap DOMAIN snapshots : Last(path) \in Names(snapshots[dir])
Coming(path) == \/ \E e \in added \cup ({making.entry} \ {NoPath}) : path = PathIn(e)
                \/ \E w \in Walkers :
                      \/ adding[w].path = path
                      \/ Walking(w) /\ HasPathPrefix(path, walk[w].root) /\ path \notin DOMAIN watched
Moved(before, after) == {p \in DOMAIN after : \E q \in DOMAIN before \ {p} :
                                                after[p].ino = before[q].ino}
Blurred == {p \in DOMAIN fs' \ DOMAIN fs : Known(p)}
           \cup {p \in DOMAIN fs \ DOMAIN fs' : Coming(p)}
           \cup Moved(fs, fs') \cup Moved(fs', fs)

Environment ==
    /\ DiskChanges
    /\ blurred' = blurred \cup Blurred
    /\ UNCHANGED <<tables, closed, runVars, callVars, walkVars, said, mishaps>>

Next == (\E c \in Callers : Call(c)) \/ RunStep \/ Environment

Spec == Init /\ [][Next]_vars
==============================================================================
