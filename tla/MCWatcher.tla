----------------------------- MODULE MCWatcher -----------------------------
(***************************************************************************)
(* Small instances of the watcher for TLC: the tree has the directories    *)
(* /d and /e, files in them, and a symlink /l to /d.                       *)
(***************************************************************************)
EXTENDS WatcherProperties

CONSTANTS c1, c2, d, e, t, f, x, l

D   == <<d>>
DT  == <<d, t>>
DF  == <<d, f>>
DX  == <<d, x>>
EF  == <<e, f>>
L   == <<l>>

MCNames == {d, e, t, f, x, l}

Dir(path)  == [path |-> path, resolved |-> path, link |-> FALSE, isDir |-> TRUE]
File(path) == [path |-> path, resolved |-> path, link |-> FALSE, isDir |-> FALSE]
Link(path, to) == [path |-> path, resolved |-> to, link |-> TRUE, isDir |-> TRUE]

MCLookups == {Dir(D), File(DF), Link(L, D)}

Change(op, path) == [op |-> op, path |-> path, old |-> NoPath, isDir |-> FALSE]
Renamed(old, new, isDir) ==
    [op |-> "rename", path |-> new, old |-> old, isDir |-> isDir]
Overflow == [op |-> "overflow", path |-> NoPath, old |-> NoPath, isDir |-> FALSE]

(* A path that may be watched twice, one that is filtered out, a rename that
   leaves the directory and moves no root, and an overflow. *)
MixedEvents == {Change("write", DF), Change("write", DX), Renamed(DT, EF, FALSE), Overflow}
(* Overflows are for no root: they pass to OnEvent whatever is watched. *)
OnlyOverflows == {Overflow}
PlainEvents == {Change("write", DF)}

DefaultOps == {}
SomeOps    == {"write", "rename"}
NoExcludes == {}
ExcludeX   == {<<DX, FALSE>>, <<DX, TRUE>>}

Serve(one, two, onEvent, onError) ==
    [y \in Threads |-> CASE y = c1 -> one
                         [] y = c2 -> two
                         [] y = RunEvents -> onEvent
                         [] OTHER -> onError]

(* One caller adds, removes and closes a directory, another closes as well,
   and OnEvent adds and removes a file in it. *)
AllAtOnce == Serve(API, {"Close"}, {"Add", "Remove"}, {})
OwnRoots  == Serve({D}, {}, {DF}, {})
(* A Close, while OnError adds the directory that OnEvent removes. *)
CloseUnderLoad == Serve({"Close"}, {}, {"Remove"}, {"Add"})
(* The same with two overlapping Closes, and without the Add. *)
OverlappingCloses == Serve({"Close"}, {"Close"}, {"Remove"}, {})
(* Two callers of the same root. *)
Pair     == Serve({"Add", "Remove"}, {"Add", "Remove"}, {}, {})
SameRoot == Serve({D}, {D}, {D}, {D})
(* OnEvent closes the watcher; one caller adds and removes a symlink. *)
OnEventCloses == Serve({"Add"}, {}, {"Close"}, {})
Solo          == Serve({"Add", "Remove"}, {}, {}, {})
LinkedRoot    == Serve({L}, {}, {}, {})
============================================================================
