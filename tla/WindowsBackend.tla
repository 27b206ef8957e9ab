--------------------------- MODULE WindowsBackend ---------------------------
(***************************************************************************)
(* internal/backend/backend_windows.go: one goroutine per root that reads  *)
(* the changes of its directory and turns them into events, and callers of *)
(* Add, Remove and Close.                                                  *)
(*                                                                         *)
(* A step is one critical section of windowsWatcher.mu, one system call    *)
(* outside it, or one send.  The handle is a number: Remove and Close give *)
(* it back outside the lock while the root's goroutine may be anywhere     *)
(* between two reads.                                                      *)
(***************************************************************************)
EXTENDS DirectoryChanges

CONSTANTS
    Callers,       \* goroutines that call
    MayCall,       \* MayCall[c]: what c calls, of "Add", "Remove" and "Close"
    Targets,       \* the targets they add, [Path, WatchPath, IsDir, Recursive]
    Dirs,          \* the directories there are
    MaxCalls,      \* bound: calls
    EventBuffer,   \* capacity of the events channel
    NoOne

ASSUME WindowsAssumption ==
    /\ Targets \subseteq [Path : Dirs \cup Tree, WatchPath : Dirs, IsDir : BOOLEAN,
                          Recursive : BOOLEAN]
    /\ EventBuffer \in Nat /\ MaxCalls \in Nat
    /\ NoOne \notin Callers /\ MayCall \in [Callers -> SUBSET {"Add", "Remove", "Close"}]
    /\ \A dir \in Dirs : IsPath(dir)

VARIABLES
    \* windowsWatcher
    mu,          \* who holds the mutex beyond a step: an Add that waits for ready
    closed,      \* windowsWatcher.closed
    roots,       \* roots[path]: the number of the windowsRoot
    made,        \* made[k]: target and handle of the k-th windowsRoot made
    events,      \* how many events the channel holds
    ended,       \* the channels are closed
    \* runRoot of the k-th root
    runPc,       \* its control
    reading,     \* the object its pending read is on
    buf,         \* what the read returned, from the current record on
    pendingOld,  \* the first half of a rename
    \* callers
    callPc, calls,
    hands,       \* the handles a Remove or Close has taken and not yet closed
    \* What has happened, read by properties only.
    sent,        \* sent[k]: the events the k-th root has sent, overflows left out
    warned,      \* the roots that have sent an overflow
    strayed,     \* <<k, j>>: the k-th root has read from the object of the j-th
    failed       \* the roots whose read failed

registry == <<mu, closed, roots, made>>
channel  == <<events, ended>>
runVars  == <<runPc, reading, buf, pendingOld>>
callVars == <<callPc, calls, hands>>
history  == <<sent, warned, strayed, failed>>
vars == <<kernelVars, registry, channel, runVars, callVars, history>>

Init ==
    /\ KernelInit
    /\ mu = NoOne /\ closed = FALSE /\ roots = <<>> /\ made = <<>>
    /\ events = 0 /\ ended = FALSE
    /\ runPc = <<>> /\ reading = <<>> /\ buf = <<>> /\ pendingOld = <<>>
    /\ callPc = [c \in Callers |-> "idle"] /\ calls = 0
    /\ hands = [c \in Callers |-> {}]
    /\ sent = <<>> /\ warned = {} /\ strayed = {} /\ failed = {}

Goto(c, label) == callPc' = [callPc EXCEPT ![c] = label]

Begin(c, op) == /\ op \in MayCall[c] /\ callPc[c] = "idle" /\ calls < MaxCalls /\ mu = NoOne
                /\ calls' = calls + 1

----------------------------------------------------------------------------
(* A call that changes nothing is no step: Add of a closed watcher, of a
   root that is there or with a CreateFile that fails, Remove of a path that
   is no root, a second Close, which does not wait for the first. *)

(* Add: the handle is opened and the goroutine started under the lock,
   which is held until the goroutine says that it runs. *)
AddOpen(c) ==
    \E t \in Targets, n \in 1 .. MaxObjects :
        /\ Begin(c, "Add") /\ ~closed /\ t.Path \notin DOMAIN roots
        /\ OpenDirectory(n, t.WatchPath, t.IsDir /\ t.Recursive)
        /\ made' = Append(made, [target |-> t, handle |-> n])
        /\ roots' = [p \in DOMAIN roots \cup {t.Path} |->
                        IF p = t.Path THEN Len(made) + 1 ELSE roots[p]]
        /\ runPc' = Append(runPc, "start") /\ reading' = Append(reading, 0)
        /\ buf' = Append(buf, <<>>) /\ pendingOld' = Append(pendingOld, NoPath)
        /\ sent' = Append(sent, <<>>)
        /\ mu' = c /\ Goto(c, "ready")
        /\ UNCHANGED <<closed, channel, hands, warned, strayed, failed>>

(* <-root.ready *)
AddReturns(c) ==
    /\ callPc[c] = "ready" /\ runPc[Len(made)] # "start"
    /\ mu' = NoOne /\ Goto(c, "idle")
    /\ UNCHANGED <<kernelVars, closed, roots, made, channel, runVars, calls, hands, history>>

(* Mutant: the root stays in the map, and a later call takes it again. *)
MutantTakeKeepsRoots(c, paths) ==
    /\ hands' = [hands EXCEPT ![c] = {made[roots[p]].handle : p \in paths}]
    /\ roots' = roots

(* Who takes a root out of the map closes its handle, after the lock. *)
Take(c, paths) ==
    /\ hands' = [hands EXCEPT ![c] = {made[roots[p]].handle : p \in paths}]
    /\ roots' = Restrict(roots, DOMAIN roots \ paths)

RemoveTake(c) ==
    \E path \in DOMAIN roots :
        /\ Begin(c, "Remove")
        /\ Take(c, {path}) /\ Goto(c, "remove")
        /\ UNCHANGED <<kernelVars, mu, closed, made, channel, runVars, history>>

CloseTake(c) ==
    /\ Begin(c, "Close") /\ ~closed
    /\ closed' = TRUE
    /\ Take(c, DOMAIN roots) /\ Goto(c, "close")
    /\ UNCHANGED <<kernelVars, mu, made, channel, runVars, history>>

(* Mutant: CloseHandle without CancelIoEx leaves a waiting read waiting. *)
MutantCloseLeavesRead(c) ==
    \E n \in hands[c] :
        /\ open' = Restrict(open, DOMAIN open \ {n})
        /\ hands' = [hands EXCEPT ![c] = @ \ {n}]
        /\ Goto(c, IF callPc[c] = "remove" THEN "idle" ELSE "close")
        /\ UNCHANGED <<files, used, objects, renaming, changes, registry, channel, runVars, calls,
                       history>>

(* closeWindowsHandle, of one handle after the other.  CancelIoEx aborts a
   read that waits on the object; one that comes between the two calls ends
   with CloseHandle, aborted or without bytes. *)
HandleClosed(c) ==
    \E n \in hands[c], how \in {"error", "overflow"} :
        /\ open' = Restrict(open, DOMAIN open \ {n})
        /\ hands' = [hands EXCEPT ![c] = @ \ {n}]
        /\ runPc' = [k \in DOMAIN runPc |->
              IF runPc[k] = "waiting" /\ reading[k] \in {open[m] : m \in {n} \cap DOMAIN open}
              THEN how ELSE runPc[k]]
        /\ Goto(c, IF callPc[c] = "remove" THEN "idle" ELSE "close")
        /\ UNCHANGED <<files, used, objects, renaming, changes, registry, channel, reading, buf,
                       pendingOld, calls, history>>

(* Mutant: Close closes the channels without wg.Wait. *)
MutantCloseDoesNotWait(c) ==
    /\ callPc[c] = "close" /\ hands[c] = {}
    /\ ended' = TRUE /\ Goto(c, "idle")
    /\ UNCHANGED <<kernelVars, registry, events, runVars, calls, hands, history>>

(* wg.Wait, and the channels are closed. *)
CloseEnds(c) ==
    /\ callPc[c] = "close" /\ hands[c] = {}
    /\ \A k \in DOMAIN runPc : runPc[k] = "done"
    /\ ended' = TRUE /\ Goto(c, "idle")
    /\ UNCHANGED <<kernelVars, registry, events, runVars, calls, hands, history>>

Call(c) == \/ AddOpen(c) \/ AddReturns(c)
           \/ RemoveTake(c) \/ CloseTake(c) \/ HandleClosed(c) \/ CloseEnds(c)

----------------------------------------------------------------------------
(* runRoot *)

RunGoto(k, label) == runPc' = [runPc EXCEPT ![k] = label]

RunStarts(k) ==
    /\ runPc[k] = "start"
    /\ RunGoto(k, "read")
    /\ UNCHANGED <<kernelVars, registry, channel, reading, buf, pendingOld, callVars, history>>

(* ReadDirectoryChanges finds the object by the number and waits on it; the
   first read of an object makes it record. *)
ReadBegins(k) ==
    LET n == made[k].handle
    IN  /\ runPc[k] = "read"
        /\ n \in DOMAIN open
        /\ reading' = [reading EXCEPT ![k] = open[n]]
        /\ objects' = [objects EXCEPT ![open[n]].recording = TRUE]
        /\ strayed' = strayed \cup ({<<k, open[n]>>} \ {<<k, k>>})
        /\ RunGoto(k, "waiting")
        /\ UNCHANGED <<files, open, used, renaming, changes, registry, channel, buf, pendingOld,
                       callVars, sent, warned, failed>>

(* ERROR_INVALID_HANDLE *)
ReadRefused(k) ==
    /\ runPc[k] = "read" /\ made[k].handle \notin DOMAIN open
    /\ RunGoto(k, "error")
    /\ UNCHANGED <<kernelVars, registry, channel, reading, buf, pendingOld, callVars, history>>

(* Mutant: pendingOld is a variable of the loop's body. *)
MutantReadDropsOld(k) ==
    LET obj == objects[reading[k]]
    IN  /\ runPc[k] = "waiting" /\ (obj.lost \/ obj.notes # <<>>)
        /\ RunGoto(k, IF obj.lost THEN "overflow" ELSE "parse")
        /\ buf' = [buf EXCEPT ![k] = obj.notes]
        /\ pendingOld' = [pendingOld EXCEPT ![k] = NoPath]
        /\ objects' = [objects EXCEPT ![reading[k]].notes = <<>>, ![reading[k]].lost = FALSE]
        /\ UNCHANGED <<files, open, used, renaming, changes, registry, channel, reading, callVars, history>>

(* No bytes after an overflow, or else what has been recorded. *)
ReadReturns(k) ==
    LET obj == objects[reading[k]]
    IN  /\ runPc[k] = "waiting" /\ (obj.lost \/ obj.notes # <<>>)
        /\ RunGoto(k, IF obj.lost THEN "overflow" ELSE "parse")
        /\ buf' = [buf EXCEPT ![k] = obj.notes]
        /\ objects' = [objects EXCEPT ![reading[k]].notes = <<>>, ![reading[k]].lost = FALSE]
        /\ UNCHANGED <<files, open, used, renaming, changes, registry, channel, reading, pendingOld,
                       callVars, history>>

(* The directory is gone, say; the root stays in the map. *)
ReadFails(k) ==
    /\ runPc[k] = "waiting" /\ "fail" \in Changes
    /\ RunGoto(k, "error")
    /\ failed' = failed \cup {k}
    /\ UNCHANGED <<kernelVars, registry, channel, reading, buf, pendingOld, callVars, sent,
                   warned, strayed>>

(* Every error ends the goroutine; isClosed() takes the lock to tell which
   of them to report. *)
RunEnds(k) ==
    /\ runPc[k] = "error" /\ mu = NoOne
    /\ RunGoto(k, "done")
    /\ UNCHANGED <<kernelVars, registry, channel, reading, buf, pendingOld, callVars, history>>

(* emitEvent waits for room in the channel. *)
Send == events < EventBuffer /\ events' = events + 1 /\ UNCHANGED ended

(* Mutant: a read without bytes is taken for one without changes. *)
MutantOverflowIgnored(k) ==
    /\ runPc[k] = "overflow"
    /\ RunGoto(k, "read")
    /\ UNCHANGED <<kernelVars, registry, channel, reading, buf, pendingOld, callVars, history>>

(* Mutant: a read without bytes ends the goroutine. *)
MutantOverflowEnds(k) ==
    /\ runPc[k] = "overflow"
    /\ Send
    /\ warned' = warned \cup {k}
    /\ RunGoto(k, "done")
    /\ UNCHANGED <<kernelVars, registry, reading, buf, pendingOld, callVars, sent, strayed, failed>>

EmitOverflow(k) ==
    /\ runPc[k] = "overflow"
    /\ Send
    /\ warned' = warned \cup {k}
    /\ RunGoto(k, "read")
    /\ UNCHANGED <<kernelVars, registry, reading, buf, pendingOld, callVars, sent, strayed, failed>>

(* Mutant: the last record is not noticed. *)
MutantAdvancePastEnd(k) ==
    /\ buf' = [buf EXCEPT ![k] = Tail(@)]
    /\ RunGoto(k, IF Len(buf[k]) = 0 THEN "read" ELSE "parse")

(* One record of the buffer done; after the last one the next read. *)
Advance(k) == /\ buf' = [buf EXCEPT ![k] = Tail(@)]
              /\ RunGoto(k, IF Len(buf[k]) = 1 THEN "read" ELSE "parse")

FullPath(k) == made[k].target.WatchPath \o Head(buf[k]).name

KeepOldName(k) ==
    /\ runPc[k] = "parse" /\ Head(buf[k]).action = "RENAMED_OLD_NAME"
    /\ pendingOld' = [pendingOld EXCEPT ![k] = FullPath(k)]
    /\ Advance(k)
    /\ UNCHANGED <<kernelVars, registry, channel, reading, callVars, history>>

EventOf(k) ==
    LET action == Head(buf[k]).action
    IN  CASE action = "ADDED"    -> Told("create", FullPath(k), NoPath)
          [] action = "REMOVED"  -> Told("remove", FullPath(k), NoPath)
          [] action = "MODIFIED" -> Told("write", FullPath(k), NoPath)
          [] action = "RENAMED_NEW_NAME" ->
               Told(IF pendingOld[k] = NoPath THEN "create" ELSE "rename", FullPath(k), pendingOld[k])

EmitRecord(k) ==
    /\ runPc[k] = "parse" /\ Head(buf[k]).action # "RENAMED_OLD_NAME"
    /\ Send
    /\ sent' = [sent EXCEPT ![k] = @ \o EventOf(k)]
    /\ pendingOld' = IF Head(buf[k]).action = "RENAMED_NEW_NAME"
                     THEN [pendingOld EXCEPT ![k] = NoPath] ELSE pendingOld
    /\ Advance(k)
    /\ UNCHANGED <<kernelVars, registry, reading, callVars, warned, strayed, failed>>

RunRoot(k) ==
    \/ RunStarts(k) \/ ReadBegins(k) \/ ReadRefused(k) \/ ReadReturns(k) \/ RunEnds(k)
    \/ EmitOverflow(k) \/ KeepOldName(k) \/ EmitRecord(k)

----------------------------------------------------------------------------
(* The watcher's runBackend takes events until the channel is closed. *)
Receive == /\ events > 0 /\ events' = events - 1
           /\ UNCHANGED <<kernelVars, registry, ended, runVars, callVars, history>>

(* The disk changes under any of them. *)
Environment == DiskChanges /\ UNCHANGED <<registry, channel, runVars, callVars, history>>

Next ==
    \/ \E c \in Callers : Call(c)
    \/ \E k \in DOMAIN runPc : RunRoot(k) \/ ReadFails(k)
    \/ Receive
    \/ Environment

Spec == Init /\ [][Next]_vars

(* Go runs every goroutine that can run; nobody has to begin a call, and
   nothing has to happen on disk. *)
Fairness ==
    /\ \A c \in Callers : WF_vars(AddReturns(c)) /\ WF_vars(HandleClosed(c) \/ CloseEnds(c))
    /\ \A k \in 1 .. MaxObjects : WF_vars(k \in DOMAIN runPc /\ RunRoot(k))
    /\ WF_vars(Receive)

FairSpec == Spec /\ Fairness
=============================================================================
