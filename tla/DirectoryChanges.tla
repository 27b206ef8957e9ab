-------------------------- MODULE DirectoryChanges --------------------------
(***************************************************************************)
(* Directory handles and ReadDirectoryChangesW as backend_windows.go uses  *)
(* them: external to the repository.  A handle is a number that names an   *)
(* open file object and is free again once it is closed.  An object starts *)
(* to record changes with the first read, in a buffer of its own; when the *)
(* buffer is full everything in it is lost, and the next read returns no   *)
(* bytes.  A rename is recorded as two changes, which are two steps.       *)
(***************************************************************************)
EXTENDS Paths, FiniteSets, Integers, Functions

CONSTANTS Tree,        \* the paths of files that may exist
          InitialFiles,\* the files there are at the start
          NotesLimit,  \* bound: changes an object's buffer holds
          MaxObjects,  \* bound: handles opened
          Changes,     \* which changes happen: names of actions below
          MaxChanges,  \* bound: changes on disk
          NoRename, NoPath

ASSUME DirectoryChangesAssumption ==
    /\ InitialFiles \subseteq Tree /\ NotesLimit \in Nat \ {0} /\ MaxChanges \in Nat /\ MaxObjects \in Nat
    /\ \A path \in Tree : IsPath(path) /\ path # <<>>
    /\ NoPath \notin Tree /\ NoRename \notin Tree \X Tree \X SUBSET Nat

VARIABLES files,     \* the files there are
          open,      \* open[n]: the object the open handle n names
          used,      \* the numbers used so far are 1 .. used
          objects,   \* the objects made so far, closed ones included
          renaming,  \* between the halves of a rename: old, new, and who recorded the first
          changes    \* how many changes there have been

kernelVars == <<files, open, used, objects, renaming, changes>>

KernelInit ==
    /\ files = InitialFiles /\ open = <<>> /\ used = 0 /\ objects = <<>> /\ renaming = NoRename /\ changes = 0

(* CreateFile: a new object, and a number that was closed or one that was
   never used. *)
OpenDirectory(n, dir, recursive) ==
    /\ n \in 1 .. used + 1 /\ n \notin DOMAIN open
    /\ Len(objects) < MaxObjects
    /\ used' = IF n > used THEN n ELSE used
    /\ objects' = Append(objects, [dir |-> dir, recursive |-> recursive,
                                   recording |-> FALSE, notes |-> <<>>, lost |-> FALSE,
                                   history |-> <<>>, losses |-> FALSE])
    /\ open' = [m \in DOMAIN open \cup {n} |->
                   IF m = n THEN Len(objects) + 1 ELSE open[m]]
    /\ UNCHANGED <<files, renaming, changes>>

Sees(obj, path) == IF obj.recursive THEN HasPathPrefix(path, obj.dir) /\ path # obj.dir
                                    ELSE path # <<>> /\ ParentDir(path) = obj.dir

Relative(obj, path) == SubSeq(path, Len(obj.dir) + 1, Len(path))

(* One change as the objects that see it record it.  history is what a
   reader has to be told of it, <<>> for the first half of a rename. *)
Recorded(obj, action, path, told) ==
    IF ~obj.recording \/ ~Sees(obj, path) THEN obj
    ELSE LET full == obj.lost \/ Len(obj.notes) = NotesLimit
         IN  [obj EXCEPT
                !.notes = IF full THEN <<>>
                          ELSE Append(@, [action |-> action, name |-> Relative(obj, path)]),
                !.lost = full, !.losses = @ \/ full,
                !.history = @ \o told]

Record(action, path, told) ==
    objects' = [k \in DOMAIN objects |-> Recorded(objects[k], action, path, told)]

Told(op, path, old) == <<[op |-> op, path |-> path, old |-> old]>>

Change(kind) == /\ kind \in Changes /\ changes < MaxChanges
                /\ changes' = changes + 1

Busy(path) == renaming # NoRename /\ path \in {renaming[1], renaming[2]}

Make(path) ==
    /\ Change("make") /\ path \notin files /\ ~Busy(path)
    /\ files' = files \cup {path}
    /\ Record("ADDED", path, Told("create", path, NoPath))
    /\ UNCHANGED <<open, used, renaming>>

Delete(path) ==
    /\ Change("delete") /\ path \in files /\ ~Busy(path)
    /\ files' = files \ {path}
    /\ Record("REMOVED", path, Told("remove", path, NoPath))
    /\ UNCHANGED <<open, used, renaming>>

Write(path) ==
    /\ Change("write") /\ path \in files /\ ~Busy(path)
    /\ Record("MODIFIED", path, Told("write", path, NoPath))
    /\ UNCHANGED <<files, open, used, renaming>>

(* A rename in a directory; a move to another directory is recorded as a
   deletion and a creation. *)
RenameFrom(old, new) ==
    /\ Change("rename") /\ renaming = NoRename
    /\ old \in files /\ new \notin files /\ ParentDir(old) = ParentDir(new)
    /\ files' = (files \ {old}) \cup {new}
    /\ renaming' = <<old, new, {k \in DOMAIN objects : objects[k].recording}>>
    /\ Record("RENAMED_OLD_NAME", old, <<>>)
    /\ UNCHANGED <<open, used>>

(* An object that began to record in between has seen a new name only. *)
RenameTo ==
    /\ renaming # NoRename
    /\ objects' = [k \in DOMAIN objects |->
          Recorded(objects[k], "RENAMED_NEW_NAME", renaming[2],
                   IF k \in renaming[3] THEN Told("rename", renaming[2], renaming[1])
                                        ELSE Told("create", renaming[2], NoPath))]
    /\ renaming' = NoRename
    /\ UNCHANGED <<files, open, used, changes>>

DiskChanges ==
    \/ \E path \in Tree : Make(path) \/ Delete(path) \/ Write(path)
    \/ \E old, new \in Tree : RenameFrom(old, new)
    \/ RenameTo
=============================================================================
