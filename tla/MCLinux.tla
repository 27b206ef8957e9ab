------------------------------ MODULE MCLinux ------------------------------
EXTENDS LinuxProperties

CONSTANTS r, a, b, c, f

(* Nothing tells one caller from another. *)
CallerSymmetry == Permutations(Callers)

R   == <<r>>
RA  == <<r, a>>
RB  == <<r, b>>
RAB == <<r, a, b>>
RF  == <<r, f>>
RAC == <<r, a, c>>
RAF == <<r, a, f>>

Dirs  == {<<>>, R, RA, RB, RAB}
Files == {<<>>, R, RF, RA, RAB, RAC}
JustRoot == {<<>>, R}
RootAndDir == {<<>>, R, RA}
MCDirNames == {r, a, b, c}

DirTarget(p, rec) == [Path |-> p, WatchPath |-> p, IsDir |-> TRUE, Recursive |-> rec]
FileTarget(p) == [Path |-> p, WatchPath |-> ParentDir(p), IsDir |-> FALSE, Recursive |-> FALSE]

OneRoot == {DirTarget(R, TRUE)}
RootAndFile == {DirTarget(R, TRUE), FileTarget(RF)}
NoExcludes == {}
ExcludeB == {<<RB, TRUE>>}
TwoRoots == {DirTarget(R, TRUE), DirTarget(RA, TRUE)}
============================================================================
