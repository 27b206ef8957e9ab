------------------------------- MODULE Kqueue -------------------------------
(***************************************************************************)
(* The file system, file descriptors and the kqueue the macOS backend      *)
(* uses: external to the repository, modelled as far as backend_darwin.go  *)
(* sees it.  A descriptor is the lowest number that is free and stands for *)
(* an inode; what happens to the inode is added to the descriptor's notes  *)
(* until kevent() takes them, which returns a copy of all there is.        *)
(***************************************************************************)
EXTENDS Paths, FiniteSets, SequencesExt

CONSTANTS Tree,        \* the paths that may exist
          Initial,     \* what there is at the start
          Lasting,     \* the paths nobody deletes or moves
          DirNames,    \* the last components that name directories
          Changes,     \* which changes happen: names of actions below
          MaxChanges   \* bound: changes on disk

ASSUME KqueueAssumption ==
    /\ <<>> \in Initial /\ <<>> \in Lasting /\ Initial \subseteq Tree
    /\ \A path \in Tree : IsPath(path)
    /\ MaxChanges \in Nat

VARIABLES fs,       \* fs[p]: the inode at an existing path p, and its kind
          fds,      \* fds[fd]: inode, whether kqueue knows it, and its notes
          queue,    \* the descriptors that have notes, in order
          kqOpen,   \* the kqueue has not been closed
          changes   \* how many changes there have been; names new inodes

kernelVars == <<fs, fds, queue, kqOpen, changes>>

KqueueInit ==
    /\ fs = [p \in Initial |-> [ino |-> <<p, 0>>, isDir |-> p = <<>> \/ Last(p) \in DirNames]]
    /\ fds = <<>> /\ queue = <<>> /\ kqOpen = TRUE /\ changes = 1

Exists(path)      == path \in DOMAIN fs
IsDirectory(path) == Exists(path) /\ fs[path].isDir
Children(path)    == {p \in DOMAIN fs : p # <<>> /\ ParentDir(p) = path}
Below(path)       == {p \in DOMAIN fs : HasPathPrefix(p, path)}
Entry(path)       == [name |-> Last(path), isDir |-> fs[path].isDir, ino |-> fs[path].ino]

----------------------------------------------------------------------------
(* System calls of the backend. *)

LowestFree == CHOOSE n \in 1 .. Cardinality(DOMAIN fds) + 1 :
                 n \notin DOMAIN fds /\ \A m \in 1 .. n - 1 : m \in DOMAIN fds

Open(path) ==
    /\ fds' = [fd \in DOMAIN fds \cup {LowestFree} |->
                  IF fd = LowestFree
                  THEN [ino |-> fs[path].ino, armed |-> FALSE, notes |-> {}] ELSE fds[fd]]
    /\ UNCHANGED <<fs, queue, kqOpen, changes>>

(* EV_ADD | EV_ENABLE | EV_CLEAR *)
Arm(fd) == /\ fds' = [fds EXCEPT ![fd].armed = TRUE]
           /\ UNCHANGED <<fs, queue, kqOpen, changes>>

(* close of several descriptors; their notes go with them. *)
CloseFds(closing) ==
    /\ fds' = Restrict(fds, DOMAIN fds \ closing)
    /\ LET Left(q, fd) == IF fd \in closing THEN q ELSE Append(q, fd)
       IN  queue' = FoldLeft(Left, <<>>, queue)
    /\ UNCHANGED <<fs, kqOpen, changes>>

(* kevent: every descriptor that has notes, which are cleared. *)
Taken == [i \in DOMAIN queue |-> [fd |-> queue[i], ino |-> fds[queue[i]].ino,
                                  notes |-> fds[queue[i]].notes]]
TakeNotes ==
    /\ fds' = [fd \in DOMAIN fds |-> [fds[fd] EXCEPT !.notes = {}]]
    /\ queue' = <<>>
    /\ UNCHANGED <<fs, kqOpen, changes>>

----------------------------------------------------------------------------
(* What other programs do, and the notes of it in the order the kernel
   makes them: <<inode, note>>. *)
Holding(ino) == {fd \in DOMAIN fds : fds[fd].armed /\ fds[fd].ino = ino}

Noted(state, posted) ==
    LET hit == Holding(posted[1])
    IN  [fds |-> [fd \in DOMAIN fds |->
                     IF fd \in hit THEN [state.fds[fd] EXCEPT !.notes = @ \cup {posted[2]}]
                                   ELSE state.fds[fd]],
         queue |-> state.queue
                   \o SetToSeq({fd \in hit : state.fds[fd].notes = {}})]

Post(notes) ==
    LET after == FoldLeft(Noted, [fds |-> fds, queue |-> queue], notes)
    IN  fds' = after.fds /\ queue' = after.queue

InParent(path) == <<fs[ParentDir(path)].ino, "WRITE">>

Change(kind) == /\ kind \in Changes /\ changes <= MaxChanges
                /\ changes' = changes + 1 /\ UNCHANGED kqOpen

Make(path) ==
    /\ Change("make")
    /\ ~Exists(path) /\ path # <<>> /\ IsDirectory(ParentDir(path))
    /\ fs' = [p \in DOMAIN fs \cup {path} |->
                 IF p = path THEN [ino |-> <<path, changes>>, isDir |-> Last(path) \in DirNames]
                 ELSE fs[p]]
    /\ Post(<<InParent(path)>>)

Delete(path) ==
    /\ Change("delete")
    /\ Exists(path) /\ path \notin Lasting /\ Children(path) = {}
    /\ fs' = Restrict(fs, DOMAIN fs \ {path})
    /\ Post(<< <<fs[path].ino, "DELETE">>, InParent(path)>>)

Write(path) ==
    /\ Change("write")
    /\ Exists(path) /\ ~fs[path].isDir
    /\ Post(<< <<fs[path].ino, "WRITE">> >>)
    /\ UNCHANGED fs

Chmod(path) ==
    /\ Change("chmod")
    /\ Exists(path) /\ path # <<>>
    /\ Post(<< <<fs[path].ino, "ATTRIB">> >>)
    /\ UNCHANGED fs

(* The directories are told first, then a file that is replaced, then what
   was renamed; nothing below it is told. *)
Move(old, new) ==
    /\ Change("move")
    /\ Exists(old) /\ old \notin Lasting /\ new \notin Lasting /\ new # old
    /\ IsDirectory(ParentDir(new)) /\ ~HasPathPrefix(new, old)
    /\ Exists(new) => ~fs[new].isDir
    /\ Last(old) \in DirNames <=> Last(new) \in DirNames
    /\ LET kept    == DOMAIN fs \ (Below(old) \cup {new})
           back(p) == JoinMovedPath(p, new, old)
           moved   == {JoinMovedPath(p, old, new) : p \in Below(old)}
       IN  /\ moved \subseteq Tree
           /\ fs' = [p \in kept \cup moved |-> IF p \in moved THEN fs[back(p)] ELSE fs[p]]
           /\ Post(<<InParent(old), InParent(new)>>
                   \o (IF Exists(new) THEN << <<fs[new].ino, "DELETE">> >> ELSE <<>>)
                   \o << <<fs[old].ino, "RENAME">> >>)

DiskChanges ==
    \/ \E p \in Tree : Make(p) \/ Delete(p) \/ Write(p) \/ Chmod(p)
    \/ \E old, new \in Tree : Move(old, new)
=============================================================================
