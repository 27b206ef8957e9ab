----------------------------- MODULE MCWindows -----------------------------
EXTENDS WindowsProperties, TLC

CONSTANTS d, e, f, g, c1, c2

D  == <<d>>
E  == <<e>>
DF == <<d, f>>
DG == <<d, g>>

MCDirs == {D, E}
MCTree == {DF, DG}
OneFile == {DF}

RemoveRaces == c1 :> {"Add", "Remove"} @@ c2 :> {"Remove", "Close"}

DirTarget(p) == [Path |-> p, WatchPath |-> p, IsDir |-> TRUE, Recursive |-> TRUE]
MCTargets == {DirTarget(D), DirTarget(E)}
============================================================================
