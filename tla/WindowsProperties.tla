------------------------- MODULE WindowsProperties -------------------------
(***************************************************************************)
(* What must hold of the Windows backend.                                  *)
(***************************************************************************)
EXTENDS WindowsBackend

Labels == {"start", "read", "waiting", "overflow", "parse", "error", "done"}

TypeOK ==
    /\ DOMAIN open \subseteq 1 .. used /\ \A n \in DOMAIN open : open[n] \in DOMAIN objects
    /\ Len(objects) = Len(made) /\ files \subseteq Tree
    /\ mu \in Callers \cup {NoOne} /\ closed \in BOOLEAN /\ ended \in BOOLEAN
    /\ \A p \in DOMAIN roots : made[roots[p]].target.Path = p
    /\ events \in 0 .. EventBuffer
    /\ runPc \in [DOMAIN made -> Labels]
    /\ callPc \in [Callers -> {"idle", "ready", "remove", "close"}]
    /\ \A k \in DOMAIN made : (runPc[k] = "parse") = (buf[k] # <<>>)

----------------------------------------------------------------------------
(***************************************************************************)
(* Every open handle has one owner that will close it: a registered root,  *)
(* or the one call that has taken it.  So no handle is left open, none is  *)
(* closed twice, and none that CreateFile has given to another root since. *)
(***************************************************************************)
Owned(n) == \E p \in DOMAIN roots : made[roots[p]].handle = n /\ open[n] = roots[p]

HandlesHaveOneOwner ==
    /\ \A c \in Callers : hands[c] \subseteq DOMAIN open
    /\ \A n \in DOMAIN open :
         \/ Owned(n) /\ \A c \in Callers : n \notin hands[c]
         \/ \E c \in Callers : /\ n \in hands[c] /\ ~ \E p \in DOMAIN roots : made[roots[p]].handle = n
                               /\ \A b \in Callers \ {c} : n \notin hands[b]

(***************************************************************************)
(* Nothing is sent on a closed channel: when Close closes them, no         *)
(* goroutine is left and none can be started.                              *)
(***************************************************************************)
ChannelsOutliveRuns ==
    ended => closed /\ \A k \in DOMAIN runPc : runPc[k] = "done"

(***************************************************************************)
(* While nothing is lost, the events of a root are the changes in its      *)
(* directory in their order, renames paired even if their halves come in   *)
(* different reads; and at rest all of them.                               *)
(***************************************************************************)
Undisturbed(k) == k \notin failed /\ \A s \in strayed : k \notin {s[1], s[2]}

AtRest(k) == /\ runPc[k] = "waiting" /\ renaming = NoRename
             /\ objects[k].notes = <<>> /\ ~objects[k].lost

ReportsAreTheHistory ==
    \A k \in DOMAIN made : Undisturbed(k) /\ ~objects[k].losses =>
        /\ IsPrefix(sent[k], objects[k].history)
        /\ AtRest(k) => sent[k] = objects[k].history

(***************************************************************************)
(* A loss is never silent: a root that is at rest after its directory's    *)
(* buffer overflowed has sent an overflow.                                 *)
(***************************************************************************)
LossIsReported ==
    \A k \in DOMAIN made :
        Undisturbed(k) /\ AtRest(k) /\ objects[k].losses => k \in warned

(***************************************************************************)
(* A registered root is read from, until Close or until a read of it       *)
(* failed: neither an overflow nor the end of another root ends it.        *)
(***************************************************************************)
RootsAreServed ==
    \A p \in DOMAIN roots :
        roots[p] \notin failed => runPc[roots[p]] \notin {"error", "done"}

(* Every rename that is reported pairs the two names of one rename. *)
RenamesAreReal ==
    \A k \in DOMAIN made : Undisturbed(k) =>
        \A j \in DOMAIN sent[k] : sent[k][j].op = "rename" =>
            \E h \in DOMAIN objects[k].history : objects[k].history[h] = sent[k][j]

(***************************************************************************)
(* Close returns, and the goroutine of a removed root ends, unless it has  *)
(* gone on to read another root's directory.                               *)
(***************************************************************************)
CloseReturns == closed ~> ended

Removed(k) == k \in DOMAIN made /\ ~ \E p \in DOMAIN roots : roots[p] = k

RemovedRunsEnd ==
    \A k \in 1 .. MaxObjects :
        Removed(k) ~> k \in {s[1] : s \in strayed} \/ k \in {j \in DOMAIN runPc : runPc[j] = "done"}

(***************************************************************************)
(* The backend keeps the promises of the interface.                        *)
(***************************************************************************)
Contract == INSTANCE BackendContract WITH
    Paths   <- {t.Path : t \in Targets},
    Buffer  <- EventBuffer,
    roots   <- DOMAIN roots,
    phase   <- IF ended THEN "ended" ELSE IF closed THEN "closing" ELSE "open",
    backlog <- events

ImplementsContract == Contract!Spec
============================================================================
