-------------------------- MODULE BackendContract --------------------------
(***************************************************************************)
(* What internal/backend/backend.go's Watcher interface promises to its    *)
(* one user, watcher.go: roots come and go while it is open, Close ends    *)
(* registration for good, reports pass through a bounded channel in        *)
(* between, and the channel is closed once, after the last report.         *)
(***************************************************************************)
EXTENDS Naturals

CONSTANTS Paths,    \* the keys of roots
          Buffer    \* capacity of the events channel

VARIABLES roots,    \* the registered roots
          phase,    \* "open", "closing" from Close on, "ended" with the channel closed
          backlog   \* events in the channel

vars == <<roots, phase, backlog>>

Init == roots = {} /\ phase = "open" /\ backlog = 0

Register(path) ==
    /\ phase = "open" /\ path \notin roots
    /\ roots' = roots \cup {path}
    /\ UNCHANGED <<phase, backlog>>

Unregister(path) ==
    /\ roots' = roots \ {path}
    /\ UNCHANGED <<phase, backlog>>

Report ==
    /\ phase # "ended" /\ backlog < Buffer
    /\ backlog' = backlog + 1
    /\ UNCHANGED <<roots, phase>>

Receive ==
    /\ backlog > 0
    /\ backlog' = backlog - 1
    /\ UNCHANGED <<roots, phase>>

(* A backend may forget its roots when it closes. *)
Close ==
    /\ phase = "open"
    /\ phase' = "closing"
    /\ roots' \in {roots, {}}
    /\ UNCHANGED backlog

End ==
    /\ phase = "closing"
    /\ phase' = "ended"
    /\ UNCHANGED <<roots, backlog>>

Next ==
    \/ \E path \in Paths : Register(path)
    \/ \E path \in roots : Unregister(path)
    \/ Report \/ Receive \/ Close \/ End

Spec == Init /\ [][Next]_vars
============================================================================
