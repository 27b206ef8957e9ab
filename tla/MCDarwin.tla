------------------------------ MODULE MCDarwin ------------------------------
(***************************************************************************)
(* Instances of the macOS backend for TLC.  MovingTree starts with a file  *)
(* f in a directory a; there is a second name for a file in a, so that one *)
(* can be renamed or moved onto another, and a place g where a can be      *)
(* moved to with f in it.  R may be added recursively or not, and RAF as a *)
(* file; the file in g is excluded.                                        *)
(***************************************************************************)
EXTENDS DarwinProperties

CONSTANTS r, a, f, g, h, c1, c2

R   == <<r>>
RA  == <<r, a>>
RF  == <<r, f>>
RG  == <<r, g>>
RAF == <<r, a, f>>
RAH == <<r, a, h>>
RGF == <<r, g, f>>

MovingTree == {<<>>, R, RA, RAF, RAH, RG, RGF}
SmallTree  == {<<>>, R, RF}
JustRoot   == {<<>>, R}
WithFile   == {<<>>, R, RA, RAF}
MCDirNames == {r, a, g}

DirTarget(p, rec) == [Path |-> p, WatchPath |-> p, IsDir |-> TRUE, Recursive |-> rec]
FileTarget(p) == [Path |-> p, WatchPath |-> ParentDir(p), IsDir |-> FALSE, Recursive |-> FALSE]

AllTargets == {DirTarget(R, TRUE), DirTarget(R, FALSE), FileTarget(RAF)}
OneTarget  == {DirTarget(R, TRUE)}
NoExcludes == {}
ExcludeF   == {<<RGF, FALSE>>}

AddersAndRemovers == {<<c1, "Add">>, <<c2, "Remove">>, <<c2, "Close">>}
OneAddsAndRemoves == {<<c1, "Add">>, <<c1, "Remove">>}
============================================================================
