------------------------------- MODULE Watcher -------------------------------
(***************************************************************************)
(* The Watcher of watcher.go: callers of Add, Remove and Close, the        *)
(* goroutine runBackend that turns backend events into public ones, and    *)
(* the goroutine runEvents that hands them to OnEvent.  It composes the    *)
(* root index, the event queue and the backend driver.                     *)
(*                                                                         *)
(* A step is what a goroutine does between two points where another one    *)
(* can interfere: one critical section, one atomic access or one channel   *)
(* operation.                                                              *)
(***************************************************************************)
EXTENDS RootIndex, EventQueue, Driver

CONSTANTS
    Callers,          \* goroutines of the program that use the watcher
    MayCall,          \* MayCall[t]: the operations t calls; RunBackend calls them
                      \* from OnError, RunEvents from OnEvent
    Inputs,           \* Inputs[t]: the paths t passes to Add and Remove
    Names,            \* path components
    NoPath,           \* the empty string in Event.Path and Event.OldPath
    NoRoot,
    Lookups,          \* what prepareTarget can find at a path
    Events,           \* the events the backend can report
    MaxEvents,        \* bound: events the backend reports
    Ops,              \* Config.Ops; {} is the zero value
    Recursion,        \* Config.Recursion
    FollowSymlinks,   \* Config.FollowSymlinks
    Excluded          \* <<path, isDir>> the matcher excludes

RunBackend == "runBackend"
RunEvents  == "runEvents"
Threads    == Callers \cup {RunBackend, RunEvents}

API    == {"Add", "Remove", "Close"}
AllOps == {"create", "write", "remove", "rename", "chmod", "overflow"}

AllPaths  == Path(Names)
AllRoots  == RootOf(Names)
Lookup == [path : AllPaths, resolved : AllPaths, link : BOOLEAN, isDir : BOOLEAN]
Event  == [op : AllOps, path : AllPaths \cup {NoPath},
           old : AllPaths \cup {NoPath}, isDir : BOOLEAN]

ASSUME WatcherAssumption ==
    /\ RunBackend \notin Callers /\ RunEvents \notin Callers
    /\ MayCall \in [Threads -> SUBSET API]
    /\ Inputs \in [Threads -> SUBSET AllPaths]
    /\ NoPath \notin AllPaths /\ NoRoot \notin AllRoots
    /\ Lookups \subseteq Lookup
    /\ Events \subseteq Event
    /\ MaxEvents \in Nat
    /\ Ops \subseteq AllOps
    /\ Recursion \in {"default", "disabled", "enabled"}
    /\ FollowSymlinks \in BOOLEAN

(* No backend puts a path into an overflow (backend_linux.go, handle;
   backend_windows.go, runRoot). *)
ASSUME OverflowAssumption ==
    \A evt \in Events : evt.op = "overflow" => evt.path = NoPath /\ evt.old = NoPath

VARIABLES
    pc,            \* pc[t]: control of thread t
    input,         \* input[t]: the path t passed to its call
    root,          \* root[t]: the prepared target of Add, the root Remove found
    closed,        \* Watcher.closed
    once,          \* Watcher.closeOnce
    closeErr,      \* Watcher.closeErr
    backendDone,   \* Watcher.backendDone has been closed
    done,          \* Watcher.done has been closed
    idx,           \* Watcher.index
    evOpen,        \* runBackend's evCh is not nil
    errOpen,       \* runBackend's errCh is not nil
    hand,          \* the event handleBackendEvent works on
    \* What has happened, read by properties and bounds only.
    delivered,     \* events passed to OnEvent, in order
    emitted,       \* how many events the backend has observed
    closeRes,      \* the results of the Close calls that returned
    granted,       \* inputs Add returned nil for and Remove did not release
    missed         \* granted inputs Remove reported os.ErrNotExist for

callVars  == <<input, root>>
closeVars == <<closed, once, closeErr, backendDone, done>>
loopVars  == <<evOpen, errOpen, hand>>
history   == <<delivered, emitted, closeRes, granted, missed>>
vars      == <<queueVars, drvVars, pc, callVars, closeVars, idx, loopVars, history>>

Init ==
    /\ QueueInit /\ DriverInit
    /\ pc = [t \in Threads |-> IF t = RunBackend THEN "select"
                               ELSE IF t = RunEvents THEN "pop" ELSE "idle"]
    /\ input = [t \in Threads |-> NoPath]
    /\ root = [t \in Threads |-> NoRoot]
    /\ closed = FALSE /\ once = "new" /\ closeErr = "nil"
    /\ backendDone = FALSE /\ done = FALSE
    /\ idx = EmptyIndex
    /\ evOpen = TRUE /\ errOpen = TRUE /\ hand = <<>>
    /\ delivered = <<>> /\ emitted = 0
    /\ closeRes = {} /\ granted = {} /\ missed = {}

Goto(t, label) == pc' = [pc EXCEPT ![t] = label]

(* Where t starts a call, and where it is once the call has returned: a
   callback makes at most one call. *)
Ready(t) == IF t = RunBackend THEN "onError"
            ELSE IF t = RunEvents THEN "onEvent" ELSE "idle"
Rest(t) == IF t \in Callers THEN "idle" ELSE "called"

Calls(t, operation) == operation \in MayCall[t] /\ pc[t] = Ready(t)

Return(t) == /\ Goto(t, Rest(t))
             /\ input' = [input EXCEPT ![t] = NoPath]
             /\ root' = [root EXCEPT ![t] = NoRoot]

----------------------------------------------------------------------------
(* Configuration: resolveConfig, recursiveEnabled and the second half of
   handleBackendEvent. *)
EffectiveOps == IF Ops = {} THEN AllOps ELSE Ops \cup {"overflow"}

RecursiveEnabled == Recursion # "disabled"

ShouldExclude(path, isDir) == <<path, isDir>> \in Excluded

(* prepareTarget, once lstat and the symlink have been resolved. *)
Target(look) ==
    [Path      |-> look.resolved,
     WatchPath |-> IF look.isDir THEN look.resolved ELSE ParentDir(look.resolved),
     IsDir     |-> look.isDir,
     Recursive |-> look.isDir /\ RecursiveEnabled]

(* What the mask and the filters let through to the queue. *)
Permitted(evt) ==
    /\ evt.op = "overflow" \/ evt.op \in EffectiveOps
    /\ ~(evt.path # NoPath /\ ShouldExclude(evt.path, evt.isDir))
    /\ ~(evt.old # NoPath /\ ShouldExclude(evt.old, evt.isDir) /\ evt.path = NoPath)

----------------------------------------------------------------------------
(* Add *)

(* The closed flag, lstat, a symlink or a filter rejects the path.  What is
   on disk is not the watcher's, so lstat may always fail. *)
AddRejected(t) ==
    /\ Calls(t, "Add")
    /\ Return(t)
    /\ UNCHANGED <<queueVars, drvVars, closeVars, idx, loopVars, history>>

AddBegin(t, look) ==
    /\ Calls(t, "Add") /\ look.path \in Inputs[t]
    /\ ~closed
    /\ look.link => FollowSymlinks
    /\ ~ShouldExclude(look.resolved, look.isDir)
    /\ input' = [input EXCEPT ![t] = look.path]
    /\ root' = [root EXCEPT ![t] = Target(look)]
    /\ Goto(t, "addIndex")
    /\ UNCHANGED <<queueVars, drvVars, closeVars, idx, loopVars, history>>

AddToIndex(t) ==
    /\ pc[t] = "addIndex"
    /\ idx' = IndexAdd(idx, root[t])
    /\ Goto(t, "addDriver")
    /\ UNCHANGED <<queueVars, drvVars, callVars, closeVars, loopVars, history>>

Grant(t) == granted' = granted \cup {input[t]}

(* driver.Add reaches its first unlock. *)
AddRegister(t) ==
    /\ pc[t] = "addDriver" /\ ~drvClosed /\ root[t].Path \notin drvRoots
    /\ DriverRegister(root[t].Path)
    /\ Goto(t, "addEnroll")
    /\ UNCHANGED <<queueVars, drvRun, events, errs, callVars, closeVars, idx,
                   loopVars, history>>

(* Mutant of AddDuplicate: a root the driver has is a failed Add. *)
MutantDuplicateFails(t) ==
    /\ pc[t] = "addDriver" /\ ~drvClosed /\ root[t].Path \in drvRoots
    /\ Goto(t, "addRollback")
    /\ UNCHANGED <<queueVars, drvVars, callVars, closeVars, idx, loopVars, history>>

(* driver.Add of a root the driver has: nil, whether or not the Add that
   registered it has enrolled anything. *)
AddDuplicate(t) ==
    /\ pc[t] = "addDriver" /\ ~drvClosed /\ root[t].Path \in drvRoots
    /\ Grant(t)
    /\ Return(t)
    /\ UNCHANGED <<queueVars, drvVars, closeVars, idx, loopVars,
                   delivered, emitted, closeRes, missed>>

AddClosed(t) ==
    /\ pc[t] = "addDriver" /\ drvClosed
    /\ Goto(t, "addRollback")
    /\ UNCHANGED <<queueVars, drvVars, callVars, closeVars, idx, loopVars, history>>

(* The enrollment of the directories ends well, or the kernel refuses one,
   or the driver was closed in between. *)
AddEnrolled(t) ==
    /\ pc[t] = "addEnroll"
    /\ Grant(t)
    /\ Return(t)
    /\ UNCHANGED <<queueVars, drvVars, closeVars, idx, loopVars,
                   delivered, emitted, closeRes, missed>>

AddEnrollFails(t) ==
    /\ pc[t] = "addEnroll"
    /\ Goto(t, "addCleanup")
    /\ UNCHANGED <<queueVars, drvVars, callVars, closeVars, idx, loopVars, history>>

AddCleanup(t) ==
    /\ pc[t] = "addCleanup"
    /\ DriverRemove(root[t].Path)
    /\ Goto(t, "addRollback")
    /\ UNCHANGED <<queueVars, drvRun, events, errs, callVars, closeVars, idx,
                   loopVars, history>>

(* Mutant of AddRollback: the index keeps the root whose Add failed. *)
MutantNoRollback(t) ==
    /\ pc[t] = "addRollback"
    /\ Return(t)
    /\ UNCHANGED <<queueVars, drvVars, closeVars, idx, loopVars, history>>

AddRollback(t) ==
    /\ pc[t] = "addRollback"
    /\ idx' = IndexRemove(idx, root[t].Path)
    /\ Return(t)
    /\ UNCHANGED <<queueVars, drvVars, closeVars, loopVars, history>>

----------------------------------------------------------------------------
(* Remove *)

RemoveRejected(t) ==
    /\ Calls(t, "Remove") /\ closed
    /\ Return(t)
    /\ UNCHANGED <<queueVars, drvVars, closeVars, idx, loopVars, history>>

(* normalizePath only: no symlink is resolved. *)
RemoveBegin(t, path) ==
    /\ Calls(t, "Remove") /\ path \in Inputs[t]
    /\ ~closed
    /\ input' = [input EXCEPT ![t] = path]
    /\ Goto(t, "removeIndex")
    /\ UNCHANGED <<queueVars, drvVars, root, closeVars, idx, loopVars, history>>

ReportMissing(t) ==
    missed' = IF input[t] \in granted THEN missed \cup {input[t]} ELSE missed

RemoveFromIndex(t) ==
    /\ pc[t] = "removeIndex" /\ input[t] \in RootKeys(idx)
    /\ root' = [root EXCEPT ![t] = idx.roots[input[t]]]
    /\ idx' = IndexRemove(idx, input[t])
    /\ Goto(t, "removeDriver")
    /\ UNCHANGED <<queueVars, drvVars, input, closeVars, loopVars, history>>

RemoveNotIndexed(t) ==
    /\ pc[t] = "removeIndex" /\ input[t] \notin RootKeys(idx)
    /\ ReportMissing(t)
    /\ Return(t)
    /\ UNCHANGED <<queueVars, drvVars, closeVars, idx, loopVars,
                   delivered, emitted, closeRes, granted>>

(* driver.Remove looks for root.Path among its own roots. *)
RemoveFromDriver(t) ==
    /\ pc[t] = "removeDriver" /\ root[t].Path \in drvRoots
    /\ DriverRemove(root[t].Path)
    /\ granted' = granted \ {input[t]}
    /\ Return(t)
    /\ UNCHANGED <<queueVars, drvRun, events, errs, closeVars, idx, loopVars,
                   delivered, emitted, closeRes, missed>>

RemoveNotRegistered(t) ==
    /\ pc[t] = "removeDriver" /\ root[t].Path \notin drvRoots
    /\ ReportMissing(t)
    /\ Return(t)
    /\ UNCHANGED <<queueVars, drvVars, closeVars, idx, loopVars,
                   delivered, emitted, closeRes, granted>>

----------------------------------------------------------------------------
(* Close: closeOnce lets one caller in, the others wait for it. *)

CloseBegin(t) ==
    /\ Calls(t, "Close")
    /\ once' = IF once = "new" THEN "running" ELSE once
    /\ Goto(t, IF once = "new" THEN "closeFlag" ELSE "closeAwait")
    /\ UNCHANGED <<queueVars, drvVars, callVars, closed, closeErr, backendDone,
                   done, idx, loopVars, history>>

CloseFlag(t) ==
    /\ pc[t] = "closeFlag"
    /\ closed' = TRUE
    /\ Goto(t, "closeDriver")
    /\ UNCHANGED <<queueVars, drvVars, callVars, once, closeErr, backendDone,
                   done, idx, loopVars, history>>

(* Mutant of CloseDriver: Close also closes the queue it did not fill. *)
MutantCloseClosesQueue(t) ==
    /\ pc[t] = "closeDriver"
    /\ DriverClose
    /\ qClosed' = TRUE /\ qDone' = TRUE
    /\ Goto(t, "closeStopping")
    /\ UNCHANGED <<ch, drvRun, events, errs, callVars, closeVars, idx, loopVars,
                   history>>

(* driver.Close sets its flag and closes the descriptor, *)
CloseDriver(t) ==
    /\ pc[t] = "closeDriver"
    /\ DriverClose
    /\ Goto(t, "closeStopping")
    /\ UNCHANGED <<queueVars, drvRun, events, errs, callVars, closeVars, idx,
                   loopVars, history>>

(* waits for run() and returns what closing the descriptor returned. *)
CloseStopped(t) ==
    /\ pc[t] = "closeStopping" /\ DriverDone
    /\ closeErr' \in {"nil", "error"}
    /\ Goto(t, "closeBackend")
    /\ UNCHANGED <<queueVars, drvVars, callVars, closed, once, backendDone,
                   done, idx, loopVars, history>>

CloseBackend(t) ==
    /\ pc[t] = "closeBackend" /\ backendDone
    /\ Goto(t, "closeEvents")
    /\ UNCHANGED <<queueVars, drvVars, callVars, closeVars, idx, loopVars, history>>

(* Mutant of CloseEvents: Close does not wait for runEvents. *)
MutantCloseSkipsDone(t) ==
    /\ pc[t] = "closeEvents"
    /\ once' = "done"
    /\ Goto(t, "closeAwait")
    /\ UNCHANGED <<queueVars, drvVars, callVars, closed, closeErr, backendDone,
                   done, idx, loopVars, history>>

CloseEvents(t) ==
    /\ pc[t] = "closeEvents" /\ done
    /\ once' = "done"
    /\ Goto(t, "closeAwait")
    /\ UNCHANGED <<queueVars, drvVars, callVars, closed, closeErr, backendDone,
                   done, idx, loopVars, history>>

(* Mutant of CloseReturn: a second Close does not wait for the first. *)
MutantCloseReturnsEarly(t) ==
    /\ pc[t] = "closeAwait"
    /\ closeRes' = closeRes \cup {closeErr}
    /\ Return(t)
    /\ UNCHANGED <<queueVars, drvVars, closeVars, idx, loopVars,
                   delivered, emitted, granted, missed>>

CloseReturn(t) ==
    /\ pc[t] = "closeAwait" /\ once = "done"
    /\ closeRes' = closeRes \cup {closeErr}
    /\ Return(t)
    /\ UNCHANGED <<queueVars, drvVars, closeVars, idx, loopVars,
                   delivered, emitted, granted, missed>>

----------------------------------------------------------------------------
(* runBackend *)

(* The select: any of the four cases that is ready. *)
SelectEvent ==
    /\ pc[RunBackend] = "select" /\ evOpen
    /\ \E evt \in {events[n] : n \in DOMAIN events} :
          ReceiveEvent(evt) /\ hand' = <<evt>>
    /\ Goto(RunBackend, "move")
    /\ UNCHANGED <<queueVars, callVars, closeVars, idx, evOpen, errOpen, history>>

SelectEventsEnd ==
    /\ pc[RunBackend] = "select" /\ evOpen /\ EventsEnded
    /\ evOpen' = FALSE
    /\ UNCHANGED <<queueVars, drvVars, pc, callVars, closeVars, idx, errOpen,
                   hand, history>>

(* emitError calls OnError in this goroutine. *)
SelectError ==
    /\ pc[RunBackend] = "select" /\ errOpen
    /\ ReceiveError
    /\ Goto(RunBackend, "onError")
    /\ UNCHANGED <<queueVars, callVars, closeVars, idx, loopVars, history>>

SelectErrorsEnd ==
    /\ pc[RunBackend] = "select" /\ errOpen /\ ErrorsEnded
    /\ errOpen' = FALSE
    /\ UNCHANGED <<queueVars, drvVars, pc, callVars, closeVars, idx, evOpen,
                   hand, history>>

(* A panic of OnError is recovered in dispatchError: same as a return. *)
OnErrorReturns ==
    /\ pc[RunBackend] \in {"onError", "called"}
    /\ Goto(RunBackend, "select")
    /\ UNCHANGED <<queueVars, drvVars, callVars, closeVars, idx, loopVars, history>>

(* handleBackendEvent: the index follows a rename before it is asked. *)
HandleMove ==
    /\ pc[RunBackend] = "move"
    /\ LET evt == hand[1]
       IN  IF evt.op = "rename" /\ evt.path # NoPath /\ evt.old # NoPath
           THEN idx' \in MovePrefix(idx, evt.old, evt.path)
           ELSE UNCHANGED idx
    /\ Goto(RunBackend, "match")
    /\ UNCHANGED <<queueVars, drvVars, callVars, closeVars, loopVars, history>>

Drop == Goto(RunBackend, "select") /\ hand' = <<>>

Forward(evt) ==
    IF Permitted(evt) THEN Goto(RunBackend, "push") /\ UNCHANGED hand ELSE Drop

(* Index.Matches(evt.Path); an overflow and an event without a path pass. *)
HandleMatch ==
    /\ pc[RunBackend] = "match"
    /\ LET evt == hand[1]
       IN  IF evt.op = "overflow" \/ evt.path = NoPath \/ Matches(idx, evt.path)
           THEN Forward(evt)
           ELSE IF evt.old = NoPath
                THEN Drop
                ELSE Goto(RunBackend, "matchOld") /\ UNCHANGED hand
    /\ UNCHANGED <<queueVars, drvVars, callVars, closeVars, idx, evOpen, errOpen,
                   history>>

(* Index.Matches(evt.OldPath), a critical section of its own. *)
HandleMatchOld ==
    /\ pc[RunBackend] = "matchOld"
    /\ IF Matches(idx, hand[1].old) THEN Forward(hand[1]) ELSE Drop
    /\ UNCHANGED <<queueVars, drvVars, callVars, closeVars, idx, evOpen, errOpen,
                   history>>

(* queue.Push, the flag. *)
HandlePush ==
    /\ pc[RunBackend] = "push"
    /\ Goto(RunBackend, IF PushRefusedByFlag THEN "select" ELSE "pushSelect")
    /\ hand' = IF PushRefusedByFlag THEN <<>> ELSE hand
    /\ UNCHANGED <<queueVars, drvVars, callVars, closeVars, idx, evOpen, errOpen,
                   history>>

(* Mutant of HandlePushSelect: a full queue loses the event. *)
MutantPushNeverBlocks ==
    /\ pc[RunBackend] = "pushSelect"
    /\ IF Len(ch) < Room THEN PushSend(hand[1]) ELSE UNCHANGED queueVars
    /\ hand' = <<>>
    /\ Goto(RunBackend, "select")
    /\ UNCHANGED <<drvVars, callVars, closeVars, idx, evOpen, errOpen, history>>

(* queue.Push, the select: whichever of its cases is ready. *)
HandlePushSelect ==
    /\ pc[RunBackend] = "pushSelect"
    /\ \E sent \in {s \in BOOLEAN : IF s THEN Len(ch) < Room ELSE qDone} :
          IF sent THEN PushSend(hand[1]) ELSE PushAbort
    /\ hand' = <<>>
    /\ Goto(RunBackend, "select")
    /\ UNCHANGED <<drvVars, callVars, closeVars, idx, evOpen, errOpen, history>>

(* Mutant of BackendLoopEnds: the loop also stops once the watcher is closed,
   whatever its channels still hold. *)
MutantLoopEndsOnClosed ==
    /\ pc[RunBackend] = "select" /\ (closed \/ ~(evOpen \/ errOpen))
    /\ Goto(RunBackend, "queueFlag")
    /\ UNCHANGED <<queueVars, drvVars, callVars, closeVars, idx, loopVars, history>>

(* Both channels are nil: the deferred queue.Close and close(backendDone). *)
BackendLoopEnds ==
    /\ pc[RunBackend] = "select" /\ ~evOpen /\ ~errOpen
    /\ Goto(RunBackend, "queueFlag")
    /\ UNCHANGED <<queueVars, drvVars, callVars, closeVars, idx, loopVars, history>>

BackendQueueFlag ==
    /\ pc[RunBackend] = "queueFlag"
    /\ CloseSetFlag
    /\ Goto(RunBackend, "queueDone")
    /\ UNCHANGED <<drvVars, callVars, closeVars, idx, loopVars, history>>

BackendQueueDone ==
    /\ pc[RunBackend] = "queueDone"
    /\ CloseDone
    /\ Goto(RunBackend, "leaving")
    /\ UNCHANGED <<drvVars, callVars, closeVars, idx, loopVars, history>>

BackendExits ==
    /\ pc[RunBackend] = "leaving"
    /\ backendDone' = TRUE
    /\ Goto(RunBackend, "exited")
    /\ UNCHANGED <<queueVars, drvVars, callVars, closed, once, closeErr, done, idx,
                   loopVars, history>>

----------------------------------------------------------------------------
(* runEvents *)

(* queue.Pop returns an event and dispatchEvent enters OnEvent with it. *)
EventsPop ==
    /\ pc[RunEvents] = "pop"
    /\ \E evt \in {ch[n] : n \in DOMAIN ch} :
          PopValue(evt) /\ delivered' = Append(delivered, evt)
    /\ Goto(RunEvents, "onEvent")
    /\ UNCHANGED <<drvVars, callVars, closeVars, idx, loopVars, emitted, closeRes,
                   granted, missed>>

OnEventReturns ==
    /\ pc[RunEvents] \in {"onEvent", "called"}
    /\ Goto(RunEvents, "pop")
    /\ UNCHANGED <<queueVars, drvVars, callVars, closeVars, idx, loopVars, history>>

(* dispatchEvent recovers the panic and reports it to OnError, whose own
   panic dispatchError recovers. *)
OnEventPanics ==
    /\ pc[RunEvents] \in {"onEvent", "called"}
    /\ Goto(RunEvents, "report")
    /\ UNCHANGED <<queueVars, drvVars, callVars, closeVars, idx, loopVars, history>>

ReportReturns ==
    /\ pc[RunEvents] = "report"
    /\ Goto(RunEvents, "pop")
    /\ UNCHANGED <<queueVars, drvVars, callVars, closeVars, idx, loopVars, history>>

EventsEnd ==
    /\ pc[RunEvents] = "pop"
    /\ PopEnd
    /\ Goto(RunEvents, "leaving")
    /\ UNCHANGED <<drvVars, callVars, closeVars, idx, loopVars, history>>

EventsExit ==
    /\ pc[RunEvents] = "leaving"
    /\ done' = TRUE
    /\ Goto(RunEvents, "exited")
    /\ UNCHANGED <<queueVars, drvVars, callVars, closed, once, closeErr, backendDone,
                   idx, loopVars, history>>

----------------------------------------------------------------------------
(* The backend goroutine. *)
BackendObserves ==
    /\ emitted < MaxEvents
    /\ \E evt \in Events : DriverObserve(evt)
    /\ emitted' = emitted + 1
    /\ UNCHANGED <<queueVars, pc, callVars, closeVars, idx, loopVars,
                   delivered, closeRes, granted, missed>>

DriverRuns ==
    /\ DriverEmit \/ DriverLeave \/ DriverExit
    /\ UNCHANGED <<queueVars, pc, callVars, closeVars, idx, loopVars, history>>

BackendFails ==
    /\ DriverError
    /\ UNCHANGED <<queueVars, pc, callVars, closeVars, idx, loopVars, history>>

----------------------------------------------------------------------------
BeginCall(t) ==
    \/ AddRejected(t) \/ \E look \in Lookups : AddBegin(t, look)
    \/ RemoveRejected(t) \/ \E path \in Inputs[t] : RemoveBegin(t, path)
    \/ CloseBegin(t)

AddStep(t) ==
    \/ AddToIndex(t) \/ AddRegister(t) \/ AddDuplicate(t) \/ AddClosed(t)
    \/ AddEnrolled(t) \/ AddEnrollFails(t) \/ AddCleanup(t) \/ AddRollback(t)

RemoveStep(t) ==
    \/ RemoveFromIndex(t) \/ RemoveNotIndexed(t)
    \/ RemoveFromDriver(t) \/ RemoveNotRegistered(t)

CloseStep(t) ==
    \/ CloseFlag(t) \/ CloseDriver(t) \/ CloseStopped(t)
    \/ CloseBackend(t) \/ CloseEvents(t) \/ CloseReturn(t)

CallStep(t) == AddStep(t) \/ RemoveStep(t) \/ CloseStep(t)

RunBackendStep ==
    \/ SelectEvent \/ SelectEventsEnd \/ SelectError \/ SelectErrorsEnd
    \/ OnErrorReturns
    \/ HandleMove \/ HandleMatch \/ HandleMatchOld \/ HandlePush \/ HandlePushSelect
    \/ BackendLoopEnds \/ BackendQueueFlag \/ BackendQueueDone \/ BackendExits

RunEventsStep ==
    \/ EventsPop \/ OnEventReturns \/ OnEventPanics \/ ReportReturns
    \/ EventsEnd \/ EventsExit

Next ==
    \/ \E t \in Threads : BeginCall(t) \/ CallStep(t)
    \/ RunBackendStep
    \/ RunEventsStep
    \/ BackendObserves \/ DriverRuns \/ BackendFails

(* Every goroutine that can run is scheduled and callbacks return; Go's
   select takes every case that stays ready. Nobody has to start a call,
   and nothing has to happen on disk. *)
Fairness ==
    /\ \A t \in Threads : WF_vars(CallStep(t))
    /\ WF_vars(RunBackendStep) /\ SF_vars(SelectEvent) /\ SF_vars(SelectEventsEnd)
    /\ WF_vars(RunEventsStep)
    /\ WF_vars(DriverRuns)

Spec == Init /\ [][Next]_vars

FairSpec == Spec /\ Fairness
=============================================================================
