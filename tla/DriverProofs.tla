---------------------------- MODULE DriverProofs ----------------------------
(***************************************************************************)
(* Type correctness of the watcher, that the backend composed with it      *)
(* keeps BackendContract, and that its index and the backend agree, for    *)
(* any paths, callers, events and capacities.                              *)
(***************************************************************************)
EXTENDS WatcherProofs, RootIndexProofs

----------------------------------------------------------------------------
(* The inductive invariant, in parts. *)

(* The steps of Add and Remove that read what the call has prepared. *)
WithRoot == {"addIndex", "addDriver", "addEnroll", "addCleanup", "addRollback", "removeDriver"}

CallsTyped ==
    /\ \A t \in Threads : pc[t] \in Labels(t)
    /\ input \in [Threads -> AllPaths \cup {NoPath}]
    /\ root \in [Threads -> AllRoots \cup {NoRoot}]
    /\ \A t \in Threads : pc[t] \in WithRoot \cup {"removeIndex"} => input[t] \in AllPaths
    /\ \A t \in Threads : pc[t] \in WithRoot => root[t] \in AllRoots

FlagsTyped ==
    /\ qClosed \in BOOLEAN /\ qDone \in BOOLEAN
    /\ drvClosed \in BOOLEAN /\ errs \in Nat
    /\ drvPc \in {"run", "emit", "close_events", "close_errors", "close_done", "done"}
    /\ closed \in BOOLEAN /\ once \in {"new", "running", "done"}
    /\ closeErr \in {"nil", "error"}
    /\ backendDone \in BOOLEAN /\ done \in BOOLEAN
    /\ evOpen \in BOOLEAN /\ errOpen \in BOOLEAN
    /\ emitted \in Nat /\ closeRes \subseteq {"nil", "error"}

PathsTyped ==
    /\ drvRoots \subseteq AllPaths /\ granted \subseteq AllPaths /\ missed \subseteq AllPaths
    /\ delivered \in Seq(Events)

Typed == Carried /\ CallsTyped /\ FlagsTyped /\ PathsTyped /\ IsIndex(idx, Names)

LEMMA TypedInit == Init => Typed
<1> SUFFICES ASSUME Init PROVE Typed
  OBVIOUS
<1>1. FlagsTyped
  BY DEF Init, QueueInit, DriverInit, FlagsTyped
<1>2. CallsTyped
  BY CallersApart DEF Init, CallsTyped, Threads, Labels, BackendLabels, EventsLabels, CallerLabels,
     CallLabels, WithRoot, RunBackend, RunEvents
<1>3. PathsTyped
  BY EmptySeq DEF Init, DriverInit, PathsTyped
<1>4. IsIndex(idx, Names)
  BY EmptyIsIndex DEF Init
<1> QED BY <1>1, <1>2, <1>3, <1>4, CarriedInit DEF Typed

----------------------------------------------------------------------------
LEMMA TargetIsRoot ==
    ASSUME NEW look \in Lookups
    PROVE  Target(look) \in AllRoots /\ look.path \in AllPaths
<1>1. look \in Lookup
  BY WatcherAssumption
<1>2. ParentDir(look.resolved) \in AllPaths
  BY <1>1, ParentIsPath DEF Lookup, AllPaths
<1> QED BY <1>1, <1>2 DEF Target, Lookup, AllRoots, RootOf, AllPaths, RecursiveEnabled

(* A thread that goes on needs what the place it goes to reads. *)
LEMMA GotoKeepsCalls ==
    ASSUME CallsTyped, PcIsControl, NEW t \in Threads, NEW label, Goto(t, label),
           label \in Labels(t), UNCHANGED callVars,
           label \in WithRoot => pc[t] \in WithRoot,
           label # "removeIndex"
    PROVE  CallsTyped'
<1>1. pc' = [pc EXCEPT ![t] = label] /\ input' = input /\ root' = root
  BY DEF Goto, callVars
<1>2. \A u \in Threads : pc'[u] = IF u = t THEN label ELSE pc[u]
  BY <1>1 DEF PcIsControl
<1> QED BY <1>1, <1>2 DEF CallsTyped

(* A thread that returns needs nothing. *)
LEMMA ReturnKeepsCalls ==
    ASSUME CallsTyped, PcIsControl, NEW t \in Threads, Return(t)
    PROVE  CallsTyped'
<1>1. /\ pc' = [pc EXCEPT ![t] = Rest(t)]
      /\ input' = [input EXCEPT ![t] = NoPath] /\ root' = [root EXCEPT ![t] = NoRoot]
  BY DEF Goto, Return
<1>2. \A u \in Threads : pc'[u] = IF u = t THEN Rest(t) ELSE pc[u]
  BY <1>1 DEF PcIsControl
<1>3. Rest(t) \in Labels(t) /\ Rest(t) \notin WithRoot \cup {"removeIndex"}
  BY CallersApart DEF Rest, Labels, BackendLabels, EventsLabels, CallerLabels, WithRoot, Threads
<1>4. \A u \in Threads \ {t} : input'[u] = input[u] /\ root'[u] = root[u]
  BY <1>1 DEF CallsTyped
<1>5. /\ input' \in [Threads -> AllPaths \cup {NoPath}]
      /\ root' \in [Threads -> AllRoots \cup {NoRoot}]
  BY <1>1 DEF CallsTyped
<1> QED BY <1>2, <1>3, <1>4, <1>5 DEF CallsTyped

(* A thread that begins a call, or has found its root, gets both. *)
LEMMA PrepareKeepsCalls ==
    ASSUME CallsTyped, PcIsControl, NEW t \in Threads, NEW label \in CallLabels, Goto(t, label),
           NEW p \in AllPaths, input' = [input EXCEPT ![t] = p],
           NEW r \in AllRoots \cup {NoRoot}, root' = [root EXCEPT ![t] = r],
           label \in WithRoot => r \in AllRoots
    PROVE  CallsTyped'
<1>1. pc' = [pc EXCEPT ![t] = label]
  BY DEF Goto
<1>2. \A u \in Threads : pc'[u] = IF u = t THEN label ELSE pc[u]
  BY <1>1 DEF PcIsControl
<1>3. label \in Labels(t)
  BY DEF Labels, BackendLabels, EventsLabels, CallerLabels
<1>4. \A u \in Threads : /\ input'[u] = IF u = t THEN p ELSE input[u]
                        /\ root'[u] = IF u = t THEN r ELSE root[u]
  BY DEF CallsTyped
<1>5. /\ input' \in [Threads -> AllPaths \cup {NoPath}]
      /\ root' \in [Threads -> AllRoots \cup {NoRoot}]
  BY DEF CallsTyped
<1> QED BY <1>2, <1>3, <1>4, <1>5 DEF CallsTyped

LEMMA CallsAreLabels == \A t \in Threads : CallLabels \subseteq Labels(t)
BY DEF Labels, BackendLabels, EventsLabels, CallerLabels

----------------------------------------------------------------------------
(* Calls. *)

Rests == FlagsTyped' /\ PathsTyped' /\ IsIndex(idx', Names)

LEMMA TypedAdd ==
    ASSUME Typed, NEW t \in Threads,
           AddRejected(t) \/ (\E look \in Lookups : AddBegin(t, look)) \/ AddStep(t)
    PROVE  CallsTyped' /\ Rests
<1> USE DEF Typed, Carried, Shutdown, Rests, FlagsTyped, PathsTyped
<1> USE DEF queueVars, drvVars, drvRegistry, drvRun, closeVars, loopVars, history
<1>1. CASE AddRejected(t)
  BY <1>1, ReturnKeepsCalls DEF AddRejected
<1>2. ASSUME NEW look \in Lookups, AddBegin(t, look)
      PROVE  CallsTyped' /\ Rests
  <2>1. CallsTyped'
    BY <1>2, TargetIsRoot, PrepareKeepsCalls DEF AddBegin, CallLabels
  <2> QED BY <1>2, <2>1 DEF AddBegin
<1>3. CASE AddToIndex(t)
  <2>1. IsIndex(idx', Names)
    BY <1>3, AddKeepsIndex DEF AddToIndex, AllRoots, CallsTyped, WithRoot
  <2>2. CallsTyped'
    BY <1>3, GotoKeepsCalls, CallsAreLabels DEF AddToIndex, CallLabels, WithRoot
  <2> QED BY <1>3, <2>1, <2>2 DEF AddToIndex
<1>4. CASE AddRegister(t) \/ AddCleanup(t)
  <2>1. root[t].Path \in AllPaths
    BY <1>4 DEF AddRegister, AddCleanup, CallsTyped, WithRoot, AllRoots, RootOf, AllPaths
  <2>2. CallsTyped'
    BY <1>4, GotoKeepsCalls, CallsAreLabels DEF AddRegister, AddCleanup, CallLabels, WithRoot
  <2>3. CASE AddRegister(t)
    BY <2>1, <2>2, <2>3 DEF AddRegister, DriverRegister
  <2>4. CASE AddCleanup(t)
    BY <2>1, <2>2, <2>4 DEF AddCleanup, DriverRemove
  <2> QED BY <1>4, <2>3, <2>4
<1>5. CASE AddDuplicate(t) \/ AddEnrolled(t)
  <2>1. input[t] \in AllPaths
    BY <1>5 DEF AddDuplicate, AddEnrolled, CallsTyped, WithRoot
  <2>2. CallsTyped'
    BY <1>5, ReturnKeepsCalls DEF AddDuplicate, AddEnrolled
  <2>3. granted' \subseteq AllPaths
    BY <1>5, <2>1 DEF AddDuplicate, AddEnrolled, Grant
  <2>4. CASE AddDuplicate(t)
    BY <2>2, <2>3, <2>4 DEF AddDuplicate
  <2>5. CASE AddEnrolled(t)
    BY <2>2, <2>3, <2>5 DEF AddEnrolled
  <2> QED BY <1>5, <2>4, <2>5
<1>6. CASE AddClosed(t) \/ AddEnrollFails(t)
  <2>1. CallsTyped'
    BY <1>6, GotoKeepsCalls, CallsAreLabels DEF AddClosed, AddEnrollFails, CallLabels, WithRoot
  <2>2. CASE AddClosed(t)
    BY <2>1, <2>2 DEF AddClosed
  <2>3. CASE AddEnrollFails(t)
    BY <2>1, <2>3 DEF AddEnrollFails
  <2> QED BY <1>6, <2>2, <2>3
<1>7. CASE AddRollback(t)
  <2>1. IsIndex(idx', Names)
    BY <1>7, RemoveKeepsIndex DEF AddRollback
  <2>2. CallsTyped'
    BY <1>7, ReturnKeepsCalls DEF AddRollback
  <2> QED BY <1>7, <2>1, <2>2 DEF AddRollback
<1> QED BY <1>1, <1>2, <1>3, <1>4, <1>5, <1>6, <1>7 DEF AddStep

LEMMA TypedRemove ==
    ASSUME Typed, NEW t \in Threads,
           RemoveRejected(t) \/ (\E path \in Inputs[t] : RemoveBegin(t, path)) \/ RemoveStep(t)
    PROVE  CallsTyped' /\ Rests
<1> USE DEF Typed, Carried, Shutdown, Rests, FlagsTyped, PathsTyped
<1> USE DEF queueVars, drvVars, drvRegistry, drvRun, closeVars, loopVars, history
<1>1. CASE RemoveRejected(t)
  BY <1>1, ReturnKeepsCalls DEF RemoveRejected
<1>2. ASSUME NEW path \in Inputs[t], RemoveBegin(t, path)
      PROVE  CallsTyped' /\ Rests
  <2>1. path \in AllPaths
    BY WatcherAssumption
  <2>2. root[t] \in AllRoots \cup {NoRoot} /\ root' = [root EXCEPT ![t] = root[t]]
    BY <1>2 DEF CallsTyped, RemoveBegin
  <2>3. CallsTyped'
    BY <1>2, <2>1, <2>2, PrepareKeepsCalls DEF RemoveBegin, CallLabels, WithRoot
  <2> QED BY <1>2, <2>3 DEF RemoveBegin
<1>3. CASE RemoveFromIndex(t)
  <2>1. idx.roots[input[t]] \in AllRoots
    BY <1>3 DEF RemoveFromIndex, IsIndex, RootsTyped, AllRoots
  <2>2. IsIndex(idx', Names)
    BY <1>3, RemoveKeepsIndex DEF RemoveFromIndex
  <2>3. input[t] \in AllPaths /\ input' = [input EXCEPT ![t] = input[t]]
    BY <1>3 DEF RemoveFromIndex, CallsTyped
  <2>4. CallsTyped'
    BY <1>3, <2>1, <2>3, PrepareKeepsCalls DEF RemoveFromIndex, CallLabels
  <2> QED BY <1>3, <2>2, <2>4 DEF RemoveFromIndex
<1>4. CASE RemoveNotIndexed(t) \/ RemoveNotRegistered(t)
  <2>1. input[t] \in AllPaths
    BY <1>4 DEF RemoveNotIndexed, RemoveNotRegistered, CallsTyped, WithRoot
  <2>2. CallsTyped'
    BY <1>4, ReturnKeepsCalls DEF RemoveNotIndexed, RemoveNotRegistered
  <2>3. missed' \subseteq AllPaths
    BY <1>4, <2>1 DEF RemoveNotIndexed, RemoveNotRegistered, ReportMissing
  <2>4. CASE RemoveNotIndexed(t)
    BY <2>2, <2>3, <2>4 DEF RemoveNotIndexed
  <2>5. CASE RemoveNotRegistered(t)
    BY <2>2, <2>3, <2>5 DEF RemoveNotRegistered
  <2> QED BY <1>4, <2>4, <2>5
<1>5. CASE RemoveFromDriver(t)
  <2>1. CallsTyped'
    BY <1>5, ReturnKeepsCalls DEF RemoveFromDriver
  <2> QED BY <1>5, <2>1 DEF RemoveFromDriver, DriverRemove
<1> QED BY <1>1, <1>2, <1>3, <1>4, <1>5 DEF RemoveStep

LEMMA TypedClose ==
    ASSUME Typed, NEW t \in Threads, CloseBegin(t) \/ CloseStep(t)
    PROVE  CallsTyped' /\ Rests
<1> USE DEF Typed, Carried, Shutdown, Rests, FlagsTyped, PathsTyped
<1> USE DEF queueVars, drvVars, drvRegistry, drvRun, closeVars, loopVars, history
<1>1. CASE CloseBegin(t)
  <2>1. CallsTyped'
    BY <1>1, GotoKeepsCalls, CallsAreLabels DEF CloseBegin, CallLabels, WithRoot
  <2> QED BY <1>1, <2>1 DEF CloseBegin
<1>2. CASE CloseReturn(t)
  <2>1. CallsTyped'
    BY <1>2, ReturnKeepsCalls DEF CloseReturn
  <2> QED BY <1>2, <2>1 DEF CloseReturn
<1>3. CASE CloseFlag(t) \/ CloseDriver(t) \/ CloseStopped(t) \/ CloseBackend(t) \/ CloseEvents(t)
  <2>1. PICK label \in CallLabels \ (WithRoot \cup {"removeIndex"}) :
           Goto(t, label) /\ UNCHANGED callVars
    BY <1>3 DEF CloseFlag, CloseDriver, CloseStopped, CloseBackend, CloseEvents, CallLabels, WithRoot
  <2>2. CallsTyped'
    BY <2>1, GotoKeepsCalls, CallsAreLabels
  <2>3. CASE CloseFlag(t)
    BY <2>2, <2>3 DEF CloseFlag
  <2>4. CASE CloseDriver(t)
    BY <2>2, <2>4 DEF CloseDriver, DriverClose
  <2>5. CASE CloseStopped(t)
    BY <2>2, <2>5 DEF CloseStopped
  <2>6. CASE CloseBackend(t)
    BY <2>2, <2>6 DEF CloseBackend
  <2>7. CASE CloseEvents(t)
    BY <2>2, <2>7 DEF CloseEvents
  <2> QED BY <1>3, <2>3, <2>4, <2>5, <2>6, <2>7
<1> QED BY <1>1, <1>2, <1>3 DEF CloseStep

----------------------------------------------------------------------------
(* The goroutines. *)

LEMMA TypedRunBackend ==
    ASSUME Typed, RunBackendStep
    PROVE  CallsTyped' /\ Rests
<1>1. CallsTyped'
  <2> USE DEF Typed, Carried, Shutdown
  <2>1. RunBackend \in Threads /\ Labels(RunBackend) = BackendLabels
    BY DEF Threads, Labels
  <2>2. CASE SelectEventsEnd \/ SelectErrorsEnd
    BY <2>2 DEF SelectEventsEnd, SelectErrorsEnd, CallsTyped, callVars
  <2>3. ASSUME NEW label \in BackendLabels \ CallLabels, Goto(RunBackend, label), UNCHANGED callVars
        PROVE  CallsTyped'
    BY <2>1, <2>3, GotoKeepsCalls DEF CallLabels, WithRoot
  <2>4. CASE SelectEvent \/ SelectError \/ OnErrorReturns \/ HandleMove
    BY <2>3, <2>4 DEF SelectEvent, SelectError, OnErrorReturns, HandleMove, BackendLabels, CallLabels
  <2>5. CASE HandleMatch \/ HandleMatchOld
    BY <2>3, <2>5 DEF HandleMatch, HandleMatchOld, Forward, Drop, BackendLabels, CallLabels
  <2>6. CASE HandlePush \/ HandlePushSelect
    BY <2>3, <2>6 DEF HandlePush, HandlePushSelect, BackendLabels, CallLabels
  <2>7. CASE BackendLoopEnds \/ BackendQueueFlag \/ BackendQueueDone \/ BackendExits
    BY <2>3, <2>7 DEF BackendLoopEnds, BackendQueueFlag, BackendQueueDone, BackendExits,
       BackendLabels, CallLabels
  <2> QED BY <2>2, <2>4, <2>5, <2>6, <2>7 DEF RunBackendStep
<1> USE DEF Typed, Rests, FlagsTyped, PathsTyped
<1> USE DEF queueVars, drvVars, drvRegistry, drvRun, callVars, closeVars, loopVars, history
<1>2. CASE SelectEvent
  BY <1>1, <1>2 DEF SelectEvent, ReceiveEvent
<1>3. CASE SelectEventsEnd
  BY <1>1, <1>3 DEF SelectEventsEnd
<1>4. CASE SelectError
  BY <1>1, <1>4 DEF SelectError, ReceiveError
<1>5. CASE SelectErrorsEnd
  BY <1>1, <1>5 DEF SelectErrorsEnd
<1>6. CASE OnErrorReturns
  BY <1>1, <1>6 DEF OnErrorReturns
<1>7. CASE HandleMove
  <2>1. hand[1] \in Event
    BY <1>7, WatcherAssumption DEF HandleMove, Carried, HandIsFull, ChannelsTyped, Hands, Handling
  <2>2. CASE UNCHANGED idx
    BY <1>1, <1>7, <2>2 DEF HandleMove
  <2>3. CASE /\ hand[1].path # NoPath /\ hand[1].old # NoPath
             /\ idx' \in MovePrefix(idx, hand[1].old, hand[1].path)
    <3>1. hand[1].path \in Path(Names) /\ hand[1].old \in Path(Names)
      BY <2>1, <2>3 DEF Event, AllPaths
    <3>2. IsIndex(idx', Names)
      BY <2>3, <3>1, RenameKeepsIndex
    <3> QED BY <1>1, <1>7, <3>2 DEF HandleMove
  <2> QED BY <1>7, <2>2, <2>3 DEF HandleMove
<1>8. CASE HandleMatch
  BY <1>1, <1>8 DEF HandleMatch
<1>9. CASE HandleMatchOld
  BY <1>1, <1>9 DEF HandleMatchOld
<1>10. CASE HandlePush
  BY <1>1, <1>10 DEF HandlePush
<1>11. CASE HandlePushSelect
  <2>1. UNCHANGED <<qClosed, qDone>>
    BY <1>11 DEF HandlePushSelect, PushSend, PushAbort
  <2> QED BY <1>1, <1>11, <2>1 DEF HandlePushSelect
<1>12. CASE BackendLoopEnds
  BY <1>1, <1>12 DEF BackendLoopEnds
<1>13. CASE BackendQueueFlag
  BY <1>1, <1>13 DEF BackendQueueFlag, CloseSetFlag
<1>14. CASE BackendQueueDone
  BY <1>1, <1>14 DEF BackendQueueDone, CloseDone
<1>15. CASE BackendExits
  BY <1>1, <1>15 DEF BackendExits
<1> QED
  BY <1>2, <1>3, <1>4, <1>5, <1>6, <1>7, <1>8, <1>9, <1>10, <1>11, <1>12, <1>13, <1>14, <1>15
     DEF RunBackendStep

LEMMA TypedRunEvents ==
    ASSUME Typed, RunEventsStep
    PROVE  CallsTyped' /\ Rests
<1>1. CallsTyped'
  <2> USE DEF Typed, Carried, Shutdown
  <2>1. RunEvents \in Threads /\ Labels(RunEvents) = EventsLabels
    BY DEF Threads, Labels, RunBackend, RunEvents
  <2>2. ASSUME NEW label \in EventsLabels \ CallLabels, Goto(RunEvents, label), UNCHANGED callVars
        PROVE  CallsTyped'
    BY <2>1, <2>2, GotoKeepsCalls DEF CallLabels, WithRoot
  <2> QED
    BY <2>2 DEF RunEventsStep, EventsPop, OnEventReturns, OnEventPanics, ReportReturns, EventsEnd,
                EventsExit, EventsLabels, CallLabels
<1> USE DEF Typed, Rests, FlagsTyped, PathsTyped
<1> USE DEF queueVars, drvVars, drvRegistry, drvRun, callVars, closeVars, loopVars, history
<1>2. CASE EventsPop
  <2>1. Append(delivered, Head(ch)) \in Seq(Events)
    BY <1>2, HeadTailProperties, AppendProperties DEF EventsPop, PopValue, Carried, ChannelsTyped
  <2> QED BY <1>1, <1>2, <2>1 DEF EventsPop, PopValue
<1>3. CASE OnEventReturns
  BY <1>1, <1>3 DEF OnEventReturns
<1>4. CASE OnEventPanics
  BY <1>1, <1>4 DEF OnEventPanics
<1>5. CASE ReportReturns
  BY <1>1, <1>5 DEF ReportReturns
<1>6. CASE EventsEnd
  BY <1>1, <1>6 DEF EventsEnd, PopEnd
<1>7. CASE EventsExit
  BY <1>1, <1>7 DEF EventsExit
<1> QED BY <1>2, <1>3, <1>4, <1>5, <1>6, <1>7 DEF RunEventsStep

LEMMA TypedDriver ==
    ASSUME Typed, BackendObserves \/ DriverRuns \/ BackendFails
    PROVE  CallsTyped' /\ Rests
<1> USE DEF queueVars, drvVars, drvRegistry, drvRun, callVars, closeVars, loopVars, history
<1>1. /\ UNCHANGED <<queueVars, pc, callVars, closeVars, idx, loopVars>>
      /\ UNCHANGED <<delivered, closeRes, granted, missed, drvRoots, drvClosed>>
  BY DEF BackendObserves, DriverObserve, DriverRuns, DriverEmit, DriverLeave, DriverExit,
         BackendFails, DriverError
<1>2. CallsTyped'
  BY <1>1 DEF Typed, CallsTyped
<1>3. /\ drvPc' \in {"run", "emit", "close_events", "close_errors", "close_done", "done"}
      /\ errs' \in Nat /\ emitted' \in Nat
  <2> USE DEF Typed, FlagsTyped
  <2>1. CASE BackendObserves
    BY <2>1 DEF BackendObserves, DriverObserve
  <2>2. CASE DriverRuns
    BY <2>2 DEF DriverRuns, DriverEmit, DriverLeave, DriverExit
  <2>3. CASE BackendFails
    BY <2>3, BufferAssumption DEF BackendFails, DriverError
  <2> QED BY <2>1, <2>2, <2>3
<1> QED BY <1>1, <1>2, <1>3 DEF Typed, Rests, FlagsTyped, PathsTyped

LEMMA TypedStep == Typed /\ [Next]_vars => Typed'
<1> SUFFICES ASSUME Typed, [Next]_vars
             PROVE  CallsTyped' /\ Rests
  <2>1. IsIndex(idx', Names) <=> IsIndex(idx, Names)'
    BY DEF IsIndex, RootsTyped, KeyedByPath, LookupsCurrent, RootKeys
  <2> QED BY <2>1, CarriedStep DEF Typed, Rests
<1>1. CASE UNCHANGED vars
  BY <1>1 DEF vars, queueVars, drvVars, drvRegistry, drvRun, callVars, closeVars, loopVars, history,
              Typed, CallsTyped, Rests, FlagsTyped, PathsTyped
<1>2. CASE \E t \in Threads : BeginCall(t) \/ CallStep(t)
  BY <1>2, TypedAdd, TypedRemove, TypedClose DEF BeginCall, CallStep
<1> QED BY <1>1, <1>2, TypedRunBackend, TypedRunEvents, TypedDriver DEF Next

(***************************************************************************)
(* The watcher's state keeps its types: a call that reads its prepared     *)
(* root has one, a rename the index follows has two paths, and the lookup  *)
(* sets of the index are the ones of its roots at every step.              *)
(***************************************************************************)
THEOREM TypeCorrect == Spec => []TypeOK
<1>1. Typed => TypeOK
  <2> SUFFICES ASSUME Typed PROVE TypeOK
    OBVIOUS
  <2>1. \A s \in Seq(Events) : s \in Seq(Event)
    BY WatcherAssumption
  <2>2. \A h \in Hands : h \in Seq(Event) /\ Len(h) <= 1
    <3>1. \A h \in Hands : Len(h) <= 1
      <4>1. \A evt \in Events : Len(<<evt>>) = 1
        OBVIOUS
      <4> QED BY <4>1, EmptySeq DEF Hands
    <3> QED BY <2>1, <3>1, HandsAreSequences
  <2>3. IndexType
    BY DEF Typed, IsIndex, RootsTyped, LookupsCurrent, IndexType, Rebuild, AllPaths, AllRoots
  <2>4. /\ ch \in Seq(Event) /\ events \in Seq(Event) /\ delivered \in Seq(Event)
        /\ drvHand \in Seq(Event) /\ Len(drvHand) <= 1
        /\ hand \in Seq(Event) /\ Len(hand) <= 1
    BY <2>1, <2>2 DEF Typed, Carried, ChannelsTyped, PathsTyped
  <2>5. pc \in [Threads -> AllLabels]
    BY DEF Typed, Carried, Shutdown, PcIsControl
  <2> QED BY <2>3, <2>4, <2>5 DEF Typed, CallsTyped, FlagsTyped, PathsTyped, TypeOK
<1> QED BY <1>1, TypedInit, TypedStep, PTL DEF Spec

----------------------------------------------------------------------------
(* The inductive invariant beyond the types, in parts. *)

(* What an Add is about to register has been looked up. *)
Keys == {look.resolved : look \in Lookups}
BeforeRegister == {"addIndex", "addDriver"}
Looked == \A t \in Threads : pc[t] \in BeforeRegister => root[t].Path \in Keys

(* run() leaves its loop only after Close. *)
LeavesClosed == drvPc \notin {"run", "emit"} => drvClosed

Kept == Typed /\ Looked /\ LeavesClosed

LEMMA KeptInit == Init => Kept
<1> SUFFICES ASSUME Init PROVE Kept
  OBVIOUS
<1>1. Looked /\ LeavesClosed
  BY DEF Init, DriverInit, Looked, LeavesClosed, BeforeRegister
<1> QED BY <1>1, TypedInit DEF Kept

(* A thread that goes anywhere else presupposes nothing. *)
LEMMA GotoKeepsLooked ==
    ASSUME Kept, NEW t \in Threads, NEW label, label \notin BeforeRegister, Goto(t, label),
           \A u \in Threads \ {t} : root'[u] = root[u]
    PROVE  Looked'
<1>1. \A u \in Threads : pc'[u] = IF u = t THEN label ELSE pc[u]
  BY DEF Kept, Typed, Carried, Shutdown, PcIsControl, Goto
<1> QED BY <1>1 DEF Kept, Looked

LEMMA ReturnKeepsLooked ==
    ASSUME Kept, NEW t \in Threads, Return(t)
    PROVE  Looked'
<1>1. Rest(t) \notin BeforeRegister
  BY DEF Rest, BeforeRegister
<1>2. \A u \in Threads \ {t} : root'[u] = root[u]
  BY DEF Return, Kept, Typed, CallsTyped
<1> QED BY <1>1, <1>2, GotoKeepsLooked DEF Return

LEMMA CallKeepsLooked ==
    ASSUME Kept, NEW t \in Threads, BeginCall(t) \/ CallStep(t)
    PROVE  Looked'
<1> USE DEF callVars, BeforeRegister
<1>1. ASSUME NEW look \in Lookups, AddBegin(t, look) PROVE Looked'
  <2>1. \A u \in Threads : root'[u] = IF u = t THEN Target(look) ELSE root[u]
    BY <1>1 DEF AddBegin, Kept, Typed, CallsTyped
  <2>2. \A u \in Threads : pc'[u] = IF u = t THEN "addIndex" ELSE pc[u]
    BY <1>1 DEF AddBegin, Kept, Typed, Carried, Shutdown, PcIsControl, Goto
  <2>3. Target(look).Path \in Keys
    BY DEF Target, Keys
  <2> QED BY <2>1, <2>2, <2>3 DEF Kept, Looked
<1>2. CASE AddToIndex(t)
  <2>1. \A u \in Threads : pc'[u] = IF u = t THEN "addDriver" ELSE pc[u]
    BY <1>2 DEF AddToIndex, Kept, Typed, Carried, Shutdown, PcIsControl, Goto
  <2> QED BY <1>2, <2>1 DEF AddToIndex, Kept, Looked
<1>3. CASE RemoveFromIndex(t)
  <2>1. \A u \in Threads \ {t} : root'[u] = root[u]
    BY <1>3 DEF RemoveFromIndex, Kept, Typed, CallsTyped
  <2> QED BY <1>3, <2>1, GotoKeepsLooked DEF RemoveFromIndex
<1>4. CASE \/ AddRejected(t) \/ AddDuplicate(t) \/ AddEnrolled(t) \/ AddRollback(t)
           \/ RemoveRejected(t) \/ RemoveNotIndexed(t) \/ RemoveFromDriver(t)
           \/ RemoveNotRegistered(t) \/ CloseReturn(t)
  <2>1. Return(t)
    BY <1>4 DEF AddRejected, AddDuplicate, AddEnrolled, AddRollback, RemoveRejected,
       RemoveNotIndexed, RemoveFromDriver, RemoveNotRegistered, CloseReturn
  <2> QED BY <2>1, ReturnKeepsLooked
<1>5. CASE AddRegister(t) \/ AddClosed(t) \/ AddEnrollFails(t) \/ AddCleanup(t)
  BY <1>5, GotoKeepsLooked DEF AddRegister, AddClosed, AddEnrollFails, AddCleanup
<1>6. CASE (\E path \in Inputs[t] : RemoveBegin(t, path)) \/ CloseBegin(t)
  BY <1>6, GotoKeepsLooked DEF RemoveBegin, CloseBegin
<1>7. CASE CloseFlag(t) \/ CloseDriver(t) \/ CloseStopped(t) \/ CloseBackend(t) \/ CloseEvents(t)
  BY <1>7, GotoKeepsLooked DEF CloseFlag, CloseDriver, CloseStopped, CloseBackend, CloseEvents
<1> QED
  BY <1>1, <1>2, <1>3, <1>4, <1>5, <1>6, <1>7
     DEF BeginCall, CallStep, AddStep, RemoveStep, CloseStep

(* The goroutines neither prepare roots nor touch the registry. *)
LEMMA LoopsKeepLooked ==
    ASSUME Kept, RunBackendStep \/ RunEventsStep
    PROVE  Looked' /\ UNCHANGED drvRegistry /\ drvPc' = drvPc
<1> USE DEF callVars, drvVars, drvRegistry, drvRun, BeforeRegister
<1>1. RunBackend \in Threads /\ RunEvents \in Threads
  BY DEF Threads
<1>2. ASSUME NEW t \in Threads, NEW label, Goto(t, label), label \notin BeforeRegister,
             UNCHANGED callVars
      PROVE  Looked'
  BY <1>2, GotoKeepsLooked
<1>3. UNCHANGED drvRegistry /\ drvPc' = drvPc
  <2>1. CASE SelectEvent \/ SelectError
    BY <2>1 DEF SelectEvent, ReceiveEvent, SelectError, ReceiveError
  <2>2. CASE SelectEventsEnd \/ SelectErrorsEnd \/ OnErrorReturns \/ BackendExits
             \/ BackendLoopEnds \/ BackendQueueFlag \/ BackendQueueDone
    BY <2>2 DEF SelectEventsEnd, SelectErrorsEnd, OnErrorReturns, BackendExits, BackendLoopEnds,
       BackendQueueFlag, BackendQueueDone
  <2>3. CASE HandleMove \/ HandleMatch \/ HandleMatchOld \/ HandlePush \/ HandlePushSelect
    BY <2>3 DEF HandleMove, HandleMatch, HandleMatchOld, HandlePush, HandlePushSelect
  <2>4. CASE RunEventsStep
    BY <2>4 DEF RunEventsStep, EventsPop, OnEventReturns, OnEventPanics, ReportReturns, EventsEnd,
       EventsExit
  <2> QED BY <2>1, <2>2, <2>3, <2>4 DEF RunBackendStep
<1>4. CASE SelectEventsEnd \/ SelectErrorsEnd
  BY <1>4 DEF SelectEventsEnd, SelectErrorsEnd, Kept, Looked
<1>5. CASE \/ SelectEvent \/ SelectError \/ OnErrorReturns \/ HandleMove \/ HandlePush
           \/ HandlePushSelect \/ BackendLoopEnds \/ BackendQueueFlag \/ BackendQueueDone
           \/ BackendExits
  <2>1. PICK label \in {"select", "onError", "move", "match", "pushSelect", "queueFlag",
                        "queueDone", "leaving", "exited"} : Goto(RunBackend, label)
    BY <1>5 DEF SelectEvent, SelectError, OnErrorReturns, HandleMove, HandlePush,
       HandlePushSelect, BackendLoopEnds, BackendQueueFlag, BackendQueueDone, BackendExits
  <2>2. UNCHANGED callVars
    BY <1>5 DEF SelectEvent, SelectError, OnErrorReturns, HandleMove, HandlePush,
       HandlePushSelect, BackendLoopEnds, BackendQueueFlag, BackendQueueDone, BackendExits
  <2> QED BY <1>1, <1>2, <1>3, <2>1, <2>2
<1>6. CASE HandleMatch \/ HandleMatchOld
  BY <1>1, <1>2, <1>6 DEF HandleMatch, HandleMatchOld, Forward, Drop
<1>7. CASE RunEventsStep
  BY <1>1, <1>2, <1>7 DEF RunEventsStep, EventsPop, OnEventReturns, OnEventPanics, ReportReturns,
     EventsEnd, EventsExit
<1> QED BY <1>3, <1>4, <1>5, <1>6, <1>7 DEF RunBackendStep

(* Calls leave run() alone, and nothing opens the driver again. *)
LEMMA CallsKeepClosed ==
    ASSUME NEW t \in Threads, BeginCall(t) \/ CallStep(t)
    PROVE  drvPc' = drvPc /\ (drvClosed => drvClosed')
BY DEF BeginCall, CallStep, AddStep, RemoveStep, CloseStep, AddRejected, AddBegin, AddToIndex,
   AddRegister, DriverRegister, AddDuplicate, AddClosed, AddEnrolled, AddEnrollFails, AddCleanup,
   DriverRemove, AddRollback, RemoveRejected, RemoveBegin, RemoveFromIndex, RemoveNotIndexed,
   RemoveFromDriver, RemoveNotRegistered, CloseBegin, CloseFlag, CloseDriver, DriverClose,
   CloseStopped, CloseBackend, CloseEvents, CloseReturn, drvVars, drvRegistry, drvRun

LEMMA DriverKeepsClosed ==
    ASSUME Kept, BackendObserves \/ DriverRuns \/ BackendFails
    PROVE  LeavesClosed' /\ Looked'
<1>1. UNCHANGED <<pc, root, drvClosed>>
  BY DEF BackendObserves, DriverObserve, DriverRuns, DriverEmit, DriverLeave, DriverExit,
     BackendFails, DriverError, drvRegistry, callVars
<1>2. drvPc' \notin {"run", "emit"} => drvClosed
  BY DEF BackendObserves, DriverObserve, DriverRuns, DriverEmit, DriverLeave, DriverExit,
     BackendFails, DriverError, drvRun, Kept, LeavesClosed
<1> QED BY <1>1, <1>2 DEF Kept, Looked, LeavesClosed

LEMMA KeptStep == Kept /\ [Next]_vars => Kept'
<1> SUFFICES ASSUME Kept, [Next]_vars PROVE Looked' /\ LeavesClosed'
  BY TypedStep DEF Kept
<1>1. CASE \E t \in Threads : BeginCall(t) \/ CallStep(t)
  BY <1>1, CallKeepsLooked, CallsKeepClosed DEF Kept, LeavesClosed
<1>2. CASE RunBackendStep \/ RunEventsStep
  BY <1>2, LoopsKeepLooked DEF Kept, LeavesClosed, drvRegistry
<1>3. CASE UNCHANGED vars
  BY <1>3 DEF vars, drvVars, drvRegistry, drvRun, callVars, Kept, Looked, LeavesClosed
<1> QED BY <1>1, <1>2, <1>3, DriverKeepsClosed DEF Next

----------------------------------------------------------------------------
(* The refinement, step by step. *)

Apart == UNCHANGED <<drvRoots, drvClosed, drvPc, events>>

LEMMA ApartStutters == Apart => UNCHANGED Contract!vars
BY DEF Apart, Contract!vars, EventsClosed

(* Calls register, remove and close. *)
LEMMA CallKeepsContract ==
    ASSUME Kept, NEW t \in Threads, BeginCall(t) \/ CallStep(t)
    PROVE  [Contract!Next]_Contract!vars
<1> USE DEF drvVars, drvRegistry, drvRun
<1>1. CASE AddRegister(t)
  <2>1. /\ pc[t] = "addDriver" /\ ~drvClosed /\ root[t].Path \notin drvRoots
        /\ drvRoots' = drvRoots \cup {root[t].Path}
        /\ UNCHANGED <<drvClosed, drvPc, events>>
    BY <1>1 DEF AddRegister, DriverRegister
  <2>2. root[t].Path \in Keys
    BY <2>1 DEF Kept, Looked, BeforeRegister
  <2>3. ~EventsClosed
    BY <2>1 DEF Kept, LeavesClosed, EventsClosed
  <2>4. Contract!Register(root[t].Path)
    BY <2>1, <2>3 DEF Contract!Register, EventsClosed
  <2> QED BY <2>2, <2>4 DEF Contract!Next, Keys
<1>2. CASE AddCleanup(t) \/ RemoveFromDriver(t)
  <2>1. drvRoots' = drvRoots \ {root[t].Path} /\ UNCHANGED <<drvClosed, drvPc, events>>
    BY <1>2 DEF AddCleanup, RemoveFromDriver, DriverRemove
  <2>2. CASE root[t].Path \in drvRoots
    <3>1. Contract!Unregister(root[t].Path)
      BY <2>1 DEF Contract!Unregister, EventsClosed
    <3> QED BY <2>2, <3>1 DEF Contract!Next
  <2>3. CASE root[t].Path \notin drvRoots
    BY <2>1, <2>3, ApartStutters DEF Apart
  <2> QED BY <2>2, <2>3
<1>3. CASE CloseDriver(t)
  <2>1. drvClosed' = TRUE /\ UNCHANGED <<drvRoots, drvPc, events>>
    BY <1>3 DEF CloseDriver, DriverClose
  <2>2. CASE drvClosed
    BY <2>1, <2>2, ApartStutters DEF Apart, Kept, Typed, FlagsTyped
  <2>3. CASE ~drvClosed
    <3>1. ~EventsClosed /\ ~EventsClosed'
      BY <2>1, <2>3 DEF Kept, LeavesClosed, EventsClosed
    <3>2. Contract!Close
      BY <2>1, <2>3, <3>1 DEF Contract!Close
    <3> QED BY <3>2 DEF Contract!Next
  <2> QED BY <2>2, <2>3
<1>4. CASE \/ AddRejected(t) \/ (\E look \in Lookups : AddBegin(t, look)) \/ AddToIndex(t)
           \/ AddDuplicate(t) \/ AddClosed(t) \/ AddEnrolled(t) \/ AddEnrollFails(t)
           \/ AddRollback(t)
  <2>1. Apart
    BY <1>4 DEF Apart, AddRejected, AddBegin, AddToIndex, AddDuplicate, AddClosed, AddEnrolled,
       AddEnrollFails, AddRollback
  <2> QED BY <2>1, ApartStutters
<1>5. CASE \/ RemoveRejected(t) \/ (\E path \in Inputs[t] : RemoveBegin(t, path))
           \/ RemoveFromIndex(t) \/ RemoveNotIndexed(t) \/ RemoveNotRegistered(t)
  <2>1. Apart
    BY <1>5 DEF Apart, RemoveRejected, RemoveBegin, RemoveFromIndex, RemoveNotIndexed,
       RemoveNotRegistered
  <2> QED BY <2>1, ApartStutters
<1>6. CASE \/ CloseBegin(t) \/ CloseFlag(t) \/ CloseStopped(t) \/ CloseBackend(t)
           \/ CloseEvents(t) \/ CloseReturn(t)
  <2>1. Apart
    BY <1>6 DEF Apart, CloseBegin, CloseFlag, CloseStopped, CloseBackend, CloseEvents, CloseReturn
  <2> QED BY <2>1, ApartStutters
<1> QED
  BY <1>1, <1>2, <1>3, <1>4, <1>5, <1>6 DEF BeginCall, CallStep, AddStep, RemoveStep, CloseStep

(* runBackend receives. *)
LEMMA LoopKeepsContract ==
    ASSUME Kept, RunBackendStep \/ RunEventsStep
    PROVE  [Contract!Next]_Contract!vars
<1> USE DEF drvVars, drvRegistry, drvRun
<1>1. CASE SelectEvent
  <2>1. events # <<>> /\ events' = Tail(events) /\ UNCHANGED <<drvRoots, drvClosed, drvPc>>
    BY <1>1 DEF SelectEvent, ReceiveEvent
  <2>2. Len(events) > 0 /\ Len(events') = Len(events) - 1
    BY <2>1, HeadTailProperties, EmptySeq DEF Kept, Typed, Carried, ChannelsTyped
  <2>3. Contract!Receive
    BY <2>1, <2>2 DEF Contract!Receive, EventsClosed
  <2> QED BY <2>3 DEF Contract!Next
<1>2. CASE ~SelectEvent
  <2>1. Apart
    BY <1>2 DEF Apart, RunBackendStep, SelectEventsEnd, SelectError, ReceiveError,
       SelectErrorsEnd, OnErrorReturns, HandleMove, HandleMatch, HandleMatchOld, HandlePush,
       HandlePushSelect, BackendLoopEnds, BackendQueueFlag, BackendQueueDone, BackendExits,
       RunEventsStep, EventsPop, OnEventReturns, OnEventPanics, ReportReturns, EventsEnd,
       EventsExit
  <2> QED BY <2>1, ApartStutters
<1> QED BY <1>1, <1>2

(* run() reports and ends. *)
LEMMA RunKeepsContract ==
    ASSUME Kept, BackendObserves \/ DriverRuns \/ BackendFails
    PROVE  [Contract!Next]_Contract!vars
<1> USE DEF drvRegistry, drvRun
<1>1. CASE DriverRuns /\ DriverEmit
  <2>1. /\ drvPc = "emit" /\ drvPc' = "run" /\ Len(events) < EventBuffer
        /\ events' = events \o drvHand /\ UNCHANGED <<drvRoots, drvClosed>>
    BY <1>1 DEF DriverRuns, DriverEmit
  <2>2. PICK evt \in Events : drvHand = <<evt>>
    BY <2>1 DEF Kept, Typed, Carried, HandIsFull, ChannelsTyped, Hands
  <2>3. events' = Append(events, evt)
    BY <2>1, <2>2, AppendIsConcat DEF Kept, Typed, Carried, ChannelsTyped
  <2>4. Len(events') = Len(events) + 1
    BY <2>3, AppendProperties DEF Kept, Typed, Carried, ChannelsTyped
  <2>5. Contract!Report
    BY <2>1, <2>4 DEF Contract!Report, EventsClosed
  <2> QED BY <2>5 DEF Contract!Next
<1>2. CASE DriverRuns /\ DriverExit
  <2>1. UNCHANGED <<drvRoots, drvClosed, events>>
    BY <1>2 DEF DriverExit
  <2>2. CASE drvPc = "close_events"
    <3>1. drvPc' = "close_errors" /\ drvClosed
      BY <1>2, <2>2 DEF DriverExit, Kept, LeavesClosed
    <3>2. Contract!End
      BY <2>1, <2>2, <3>1 DEF Contract!End, EventsClosed
    <3> QED BY <3>2 DEF Contract!Next
  <2>3. CASE drvPc # "close_events"
    <3>1. EventsClosed /\ EventsClosed'
      BY <1>2, <2>3 DEF DriverExit, EventsClosed
    <3> QED BY <2>1, <3>1 DEF Contract!vars
  <2> QED BY <2>2, <2>3
<1>3. CASE BackendObserves \/ (DriverRuns /\ DriverLeave) \/ BackendFails
  <2>1. /\ UNCHANGED <<drvRoots, drvClosed, events>>
        /\ ~EventsClosed /\ ~EventsClosed'
    BY <1>3 DEF BackendObserves, DriverObserve, DriverLeave, BackendFails, DriverError,
       EventsClosed
  <2> QED BY <2>1 DEF Contract!vars
<1> QED BY <1>1, <1>2, <1>3 DEF DriverRuns

(***************************************************************************)
(* Composed with the watcher, the backend keeps the contract the Windows   *)
(* backend is proved to keep: no root is registered once it is closing,    *)
(* its channel stays within its capacity and is closed once, after Close   *)
(* and with nothing sent into it later.                                    *)
(***************************************************************************)
THEOREM BackendKeepsContract == Spec => DriverKeepsContract
<1>1. Init => Contract!Init
  BY EmptySeq DEF Init, DriverInit, EventsClosed, Contract!Init
<1>2. Kept /\ [Next]_vars => [Contract!Next]_Contract!vars
  <2> SUFFICES ASSUME Kept, [Next]_vars PROVE [Contract!Next]_Contract!vars
    OBVIOUS
  <2>1. CASE UNCHANGED vars
    BY <2>1, ApartStutters DEF vars, drvVars, drvRegistry, drvRun, Apart
  <2> QED
    BY <2>1, CallKeepsContract, LoopKeepsContract, RunKeepsContract DEF Next
<1> QED
  BY <1>1, <1>2, KeptInit, KeptStep, PTL DEF Spec, DriverKeepsContract, Contract!Spec
----------------------------------------------------------------------------
(***************************************************************************)
(* The two registries.  Add writes the index first and the backend second, *)
(* Remove does the same, and neither holds a lock across the two; what     *)
(* follows is what they still guarantee to calls that do not meet on one   *)
(* path.                                                                   *)
(***************************************************************************)

(* The steps between which a call works on a path, and that path. *)
Working == WithRoot \cup {"removeIndex"}
PathOf(t) == IF pc[t] = "removeIndex" THEN input[t] ELSE root[t].Path

(* No two calls that work on one path overlap, *)
WorkApart ==
    \A t, u \in Threads :
        pc[t] \in Working /\ pc[u] \in Working /\ t # u => PathOf(t) # PathOf(u)

(* no rename that runBackend follows moves a root, *)
IndexFollows(evt) == evt.op = "rename" /\ evt.path # NoPath /\ evt.old # NoPath

RootsStay ==
    pc[RunBackend] = "move" /\ IndexFollows(hand[1]) =>
        \A k \in RootKeys(idx) : ~PathMoves(idx.roots[k], hand[1].old)

(* and what is added is watched under the path it was added by. *)
NoLinks == \A t \in Threads : pc[t] \in WithRoot => input[t] = root[t].Path

(* The inductive invariant: how far the two agree on a path is a matter of *)
(* where the call is that works on it. *)
InBoth(p) == p \in RootKeys(idx) /\ p \in drvRoots
AgreeOn(p) == p \in RootKeys(idx) <=> p \in drvRoots
Owned(p) == \E t \in Threads : pc[t] \in Working /\ PathOf(t) = p

Halfway(t) ==
    /\ pc[t] \in {"addIndex", "removeIndex"} => drvClosed \/ AgreeOn(PathOf(t))
    /\ pc[t] = "addDriver" => PathOf(t) \in RootKeys(idx)
    /\ pc[t] \in {"addEnroll", "addCleanup"} => InBoth(PathOf(t))
    /\ pc[t] = "addRollback" => drvClosed \/ PathOf(t) \notin drvRoots
    /\ pc[t] = "removeDriver" => PathOf(t) \notin RootKeys(idx) /\ PathOf(t) = input[t]

Flags ==
    /\ drvClosed => closed
    /\ closed => once # "new"
    /\ \A t \in Threads : pc[t] \in Closing \ {"closeFlag"} => closed

Settled ==
    /\ \A t \in Threads : Halfway(t)
    /\ \A p \in AllPaths : drvClosed \/ AgreeOn(p) \/ Owned(p)
    /\ Flags

(* What Add has granted is in both, or is about to be released. *)
GrantedHalfway(t) ==
    PathOf(t) \in granted =>
      /\ pc[t] \in {"addIndex", "removeIndex"} => InBoth(PathOf(t))
      /\ pc[t] \in {"addDriver", "removeDriver"} => PathOf(t) \in drvRoots
      /\ pc[t] \notin {"addEnroll", "addCleanup"}
      /\ pc[t] = "addRollback" => closed

GrantsHeld ==
    /\ \A t \in Threads : pc[t] \in Working => GrantedHalfway(t)
    /\ \A p \in granted : closed \/ InBoth(p) \/ Owned(p)
    /\ missed = {}

Together == Typed /\ Settled

(* A step of t that touches the registries at p only, where p is what t    *)
(* works on, before the step or after it. *)
LEMMA OthersStay ==
    ASSUME Together, WorkApart, NEW t \in Threads, NEW label, Goto(t, label),
           \A u \in Threads \ {t} : input'[u] = input[u] /\ root'[u] = root[u],
           NEW p, pc[t] \in Working => p = PathOf(t),
           \A q \in AllPaths \ {p} : /\ q \in RootKeys(idx') <=> q \in RootKeys(idx)
                                     /\ q \in drvRoots' <=> q \in drvRoots,
           \/ pc[t] \in Working
           \/ RootKeys(idx') = RootKeys(idx) /\ UNCHANGED drvRoots,
           UNCHANGED drvClosed
    PROVE  /\ \A u \in Threads \ {t} : Halfway(u)'
           /\ \A q \in AllPaths \ {p} : (drvClosed \/ AgreeOn(q) \/ Owned(q))'
<1>1. \A u \in Threads \ {t} : pc'[u] = pc[u]
  BY DEF Goto, Together, Typed, Carried, Shutdown, PcIsControl
<1>2. \A u \in Threads \ {t} : PathOf(u)' = PathOf(u)
  BY <1>1 DEF PathOf
<1>3. ASSUME NEW u \in Threads \ {t} PROVE Halfway(u)'
  <2>1. CASE pc[u] \notin Working
    BY <1>1, <2>1 DEF Halfway, Working, WithRoot
  <2>2. CASE pc[u] \in Working
    <3>1. PathOf(u) \in AllPaths
      BY <2>2 DEF PathOf, Together, Typed, CallsTyped, Working, WithRoot, AllRoots, RootOf, AllPaths
    <3>2. /\ PathOf(u) \in RootKeys(idx') <=> PathOf(u) \in RootKeys(idx)
          /\ PathOf(u) \in drvRoots' <=> PathOf(u) \in drvRoots
      <4>1. CASE pc[t] \in Working
        <5>1. PathOf(u) # p
          BY <2>2, <4>1 DEF WorkApart
        <5> QED BY <3>1, <5>1
      <4>2. CASE pc[t] \notin Working
        BY <4>2
      <4> QED BY <4>1, <4>2
    <3>3. Halfway(u)
      BY DEF Together, Settled
    <3>4. RootKeys(idx)' = RootKeys(idx')
      BY DEF RootKeys
    <3> QED BY <1>1, <1>2, <3>2, <3>3, <3>4 DEF Halfway, AgreeOn, InBoth
  <2> QED BY <2>1, <2>2
<1>4. ASSUME NEW q \in AllPaths, q # p PROVE (drvClosed \/ AgreeOn(q) \/ Owned(q))'
  <2>1. CASE drvClosed \/ AgreeOn(q)
    <3>1. q \in RootKeys(idx)' <=> q \in RootKeys(idx')
      BY DEF RootKeys
    <3>2. (q \in drvRoots)' <=> q \in drvRoots'
      OBVIOUS
    <3>3. AgreeOn(q) <=> AgreeOn(q)'
      BY <1>4, <3>1 DEF AgreeOn
    <3> QED BY <2>1, <3>3
  <2>2. CASE Owned(q)
    <3>1. PICK u \in Threads : pc[u] \in Working /\ PathOf(u) = q
      BY <2>2 DEF Owned
    <3>2. u # t
      BY <1>4, <3>1
    <3> QED BY <1>1, <1>2, <3>1, <3>2 DEF Owned
  <2> QED BY <2>1, <2>2 DEF Together, Settled
<1> QED BY <1>3, <1>4

(* A step that starts, ends and advances no work on a path. *)
LEMMA NothingMoves ==
    ASSUME Together, Flags',
           \A u \in Threads : pc[u] \in Working \/ pc'[u] \in Working =>
               pc'[u] = pc[u] /\ input'[u] = input[u] /\ root'[u] = root[u],
           RootKeys(idx') = RootKeys(idx), UNCHANGED drvRoots, drvClosed => drvClosed'
    PROVE  Settled'
<1>1. RootKeys(idx)' = RootKeys(idx)
  BY DEF RootKeys
<1>2. \A p : (AgreeOn(p)' <=> AgreeOn(p)) /\ (InBoth(p)' <=> InBoth(p))
  BY <1>1 DEF AgreeOn, InBoth
<1>3. \A u \in Threads : pc[u] \in Working => PathOf(u)' = PathOf(u)
  BY DEF PathOf
<1>4. ASSUME NEW u \in Threads PROVE Halfway(u)'
  <2>1. CASE pc'[u] \notin Working
    BY <2>1 DEF Halfway, Working, WithRoot
  <2>2. CASE pc'[u] \in Working
    BY <1>1, <1>2, <1>3, <2>2 DEF Halfway, Together, Settled
  <2> QED BY <2>1, <2>2
<1>5. ASSUME NEW p \in AllPaths PROVE (drvClosed \/ AgreeOn(p) \/ Owned(p))'
  <2>1. CASE drvClosed \/ AgreeOn(p)
    BY <1>2, <2>1
  <2>2. CASE Owned(p)
    BY <1>3, <2>2 DEF Owned
  <2> QED BY <2>1, <2>2 DEF Together, Settled
<1> QED BY <1>4, <1>5 DEF Settled

LEMMA StepSettles ==
    ASSUME Together, WorkApart, NEW t \in Threads, NEW label, Goto(t, label),
           \A u \in Threads \ {t} : input'[u] = input[u] /\ root'[u] = root[u],
           NEW p, pc[t] \in Working => p = PathOf(t),
           \A q \in AllPaths \ {p} : /\ q \in RootKeys(idx') <=> q \in RootKeys(idx)
                                     /\ q \in drvRoots' <=> q \in drvRoots,
           \/ pc[t] \in Working
           \/ RootKeys(idx') = RootKeys(idx) /\ UNCHANGED drvRoots,
           UNCHANGED drvClosed, Flags',
           Halfway(t)', (drvClosed \/ AgreeOn(p) \/ Owned(p))'
    PROVE  Settled'
BY OthersStay DEF Settled

LEMMA FlagsStay ==
    ASSUME Together, [Next]_vars
    PROVE  Flags'
<1> USE DEF Flags, Closing
<1>1. Flags /\ PcIsControl /\ OneCloser
  BY DEF Together, Settled, Typed, Carried, Shutdown
<1>2. ASSUME NEW t \in Threads, AddRejected(t) \/ (\E look \in Lookups : AddBegin(t, look)) \/ AddStep(t)
      PROVE  Flags'
  BY <1>1, <1>2 DEF PcIsControl, Goto, Return, Rest, closeVars, drvVars, drvRegistry, AddRejected,
     AddBegin, AddStep, AddToIndex, AddRegister, DriverRegister, AddDuplicate, AddClosed,
     AddEnrolled, AddEnrollFails, AddCleanup, DriverRemove, AddRollback
<1>3. ASSUME NEW t \in Threads,
             RemoveRejected(t) \/ (\E path \in Inputs[t] : RemoveBegin(t, path)) \/ RemoveStep(t)
      PROVE  Flags'
  BY <1>1, <1>3 DEF PcIsControl, Goto, Return, Rest, closeVars, drvVars, drvRegistry,
     RemoveRejected, RemoveBegin, RemoveStep, RemoveFromIndex, RemoveNotIndexed, RemoveFromDriver,
     DriverRemove, RemoveNotRegistered
<1>4. ASSUME NEW t \in Threads, CloseBegin(t) \/ CloseStep(t)
      PROVE  Flags'
  <2> USE DEF PcIsControl, Goto, Return, Rest, closeVars, drvVars, drvRegistry
  <2>1. CASE CloseBegin(t)
    BY <1>1, <2>1 DEF CloseBegin
  <2>2. CASE CloseFlag(t)
    BY <1>1, <2>2 DEF CloseFlag, OneCloser
  <2>3. CASE CloseDriver(t)
    BY <1>1, <2>3 DEF CloseDriver, DriverClose
  <2>4. CASE CloseStopped(t) \/ CloseBackend(t)
    BY <1>1, <2>4 DEF CloseStopped, CloseBackend
  <2>5. CASE CloseEvents(t) \/ CloseReturn(t)
    BY <1>1, <2>5 DEF CloseEvents, CloseReturn
  <2> QED BY <1>4, <2>1, <2>2, <2>3, <2>4, <2>5 DEF CloseStep
<1>5. ASSUME RunBackendStep \/ RunEventsStep \/ BackendObserves \/ DriverRuns \/ BackendFails
      PROVE  Flags'
  <2>1. UNCHANGED <<closed, once, drvClosed>>
    BY <1>5 DEF RunBackendStep, SelectEvent, ReceiveEvent, SelectEventsEnd, SelectError,
       ReceiveError, SelectErrorsEnd, OnErrorReturns, HandleMove, HandleMatch, HandleMatchOld,
       HandlePush, HandlePushSelect, BackendLoopEnds, BackendQueueFlag, BackendQueueDone,
       BackendExits, RunEventsStep, EventsPop, OnEventReturns, OnEventPanics, ReportReturns,
       EventsEnd, EventsExit, BackendObserves, DriverObserve, DriverRuns, DriverEmit, DriverLeave,
       DriverExit, BackendFails, DriverError, closeVars, drvVars, drvRegistry
  <2>2. \A t \in Threads : pc'[t] \in Closing => pc'[t] = pc[t]
    BY <1>1, <1>5 DEF PcIsControl, Goto, Drop, Forward, RunBackendStep, SelectEvent,
       SelectEventsEnd, SelectError, SelectErrorsEnd, OnErrorReturns, HandleMove, HandleMatch,
       HandleMatchOld, HandlePush, HandlePushSelect, BackendLoopEnds, BackendQueueFlag,
       BackendQueueDone, BackendExits, RunEventsStep, EventsPop, OnEventReturns, OnEventPanics,
       ReportReturns, EventsEnd, EventsExit, BackendObserves, DriverRuns, BackendFails
  <2> QED BY <1>1, <2>1, <2>2
<1>6. CASE UNCHANGED vars
  BY <1>1, <1>6 DEF vars, closeVars, drvVars, drvRegistry
<1> QED BY <1>2, <1>3, <1>4, <1>5, <1>6 DEF Next, BeginCall, CallStep

(* A call begins to work on a path nobody works on. *)
LEMMA BeginSettles ==
    ASSUME Together, WorkApart, WorkApart', Flags', NEW t \in Threads,
           \/ \E look \in Lookups : AddBegin(t, look)
           \/ \E path \in Inputs[t] : RemoveBegin(t, path)
    PROVE  Settled'
<1>0. PICK p : p = PathOf(t)'
  OBVIOUS
<1>1. /\ pc[t] \notin Working
      /\ \A u \in Threads \ {t} : pc'[u] = pc[u] /\ input'[u] = input[u] /\ root'[u] = root[u]
  BY DEF AddBegin, RemoveBegin, Calls, Ready, Working, WithRoot, Goto, Together, Typed, Carried,
     Shutdown, PcIsControl, CallsTyped
<1>2. PICK label \in {"addIndex", "removeIndex"} : Goto(t, label)
  BY DEF AddBegin, RemoveBegin
<1>3. pc'[t] = label
  BY <1>2 DEF Goto, Together, Typed, Carried, Shutdown, PcIsControl
<1>4. UNCHANGED <<idx, drvRoots, drvClosed>>
  BY DEF AddBegin, RemoveBegin, drvVars, drvRegistry
<1>5. p \in AllPaths
  <2>1. ASSUME NEW look \in Lookups, AddBegin(t, look) PROVE p \in AllPaths
    <3>1. root'[t] = Target(look) /\ pc'[t] = "addIndex"
      BY <2>1 DEF AddBegin, Goto, Together, Typed, Carried, Shutdown, PcIsControl, CallsTyped
    <3> QED BY <1>0, <3>1, TargetIsRoot DEF PathOf, AllRoots, RootOf, AllPaths
  <2>2. ASSUME NEW path \in Inputs[t], RemoveBegin(t, path) PROVE p \in AllPaths
    <3>1. input'[t] = path /\ pc'[t] = "removeIndex"
      BY <2>2 DEF RemoveBegin, Goto, Together, Typed, Carried, Shutdown, PcIsControl, CallsTyped
    <3> QED BY <1>0, <3>1, WatcherAssumption DEF PathOf
  <2> QED BY <2>1, <2>2
<1>6. ~Owned(p)
  <2> SUFFICES ASSUME NEW u \in Threads, pc[u] \in Working, PathOf(u) = p PROVE FALSE
    BY DEF Owned
  <2>1. u # t /\ pc'[u] \in Working /\ PathOf(u)' = p
    BY <1>1 DEF PathOf
  <2>2. pc'[t] \in Working
    BY <1>3 DEF Working, WithRoot
  <2> QED BY <1>0, <2>1, <2>2 DEF WorkApart
<1>7. drvClosed \/ AgreeOn(p)
  BY <1>5, <1>6 DEF Together, Settled
<1>8. (drvClosed \/ AgreeOn(PathOf(t)))' /\ Owned(p)'
  BY <1>0, <1>3, <1>4, <1>7 DEF AgreeOn, Owned, Working, WithRoot
<1>9. Halfway(t)'
  BY <1>3, <1>8 DEF Halfway
<1>10. RootKeys(idx') = RootKeys(idx)
  BY <1>4
<1> QED BY <1>1, <1>2, <1>4, <1>8, <1>9, <1>10, StepSettles

(* What IndexAdd and IndexRemove do to the keys. *)
LEMMA KeysAfter ==
    ASSUME NEW ix, NEW r, NEW p
    PROVE  /\ RootKeys(IndexAdd(ix, r)) = RootKeys(ix) \cup {r.Path}
           /\ RootKeys(IndexRemove(ix, p)) = RootKeys(ix) \ {p}
<1>1. RootKeys(IndexAdd(ix, r)) = RootKeys(ix) \cup {r.Path}
  BY RebuildKeepsRoots DEF IndexAdd, RootKeys
<1>2. RootKeys(IndexRemove(ix, p)) = RootKeys(ix) \ {p}
  BY RebuildKeepsRoots DEF IndexRemove, RootKeys, Restrict
<1> QED BY <1>1, <1>2

LEMMA RemovalLeavesRoots ==
    ASSUME NEW ix, NEW p
    PROVE  /\ RootKeys(IndexRemove(ix, p)) \subseteq RootKeys(ix)
           /\ \A k \in RootKeys(IndexRemove(ix, p)) : IndexRemove(ix, p).roots[k] = ix.roots[k]
BY RebuildKeepsRoots DEF IndexRemove, RootKeys, Restrict

(* A call goes on with its path. *)
LEMMA GoesOn ==
    ASSUME Together, NEW t \in Threads, NEW label, Goto(t, label)
    PROVE  /\ pc'[t] = label
           /\ UNCHANGED callVars /\ label # "removeIndex" /\ pc[t] # "removeIndex" =>
                PathOf(t)' = PathOf(t)
BY DEF Goto, callVars, PathOf, Together, Typed, Carried, Shutdown, PcIsControl

LEMMA AddSettles ==
    ASSUME Together, WorkApart, Flags', NEW t \in Threads, AddStep(t)
    PROVE  Settled'
<1>0. PICK p : p = PathOf(t)
  OBVIOUS
<1> USE DEF Working, WithRoot, drvVars, drvRegistry
<1>1. pc[t] \in WithRoot /\ p = root[t].Path
  BY <1>0 DEF AddStep, AddToIndex, AddRegister, AddDuplicate, AddClosed, AddEnrolled, AddEnrollFails,
     AddCleanup, AddRollback, PathOf
<1>2. Halfway(t)
  BY DEF Together, Settled
<1>3. ASSUME NEW label \in WithRoot, Goto(t, label), UNCHANGED callVars, UNCHANGED drvClosed,
             \A q \in AllPaths \ {p} : /\ q \in RootKeys(idx') <=> q \in RootKeys(idx)
                                       /\ q \in drvRoots' <=> q \in drvRoots,
             Halfway(t)'
      PROVE  Settled'
  <2>1. pc'[t] = label /\ PathOf(t)' = p
    BY <1>0, <1>1, <1>3, GoesOn
  <2>2. Owned(p)'
    BY <2>1 DEF Owned
  <2>3. \A u \in Threads \ {t} : input'[u] = input[u] /\ root'[u] = root[u]
    BY <1>3 DEF callVars
  <2> QED BY <1>0, <1>1, <1>3, <2>2, <2>3, StepSettles
<1>4. ASSUME Return(t), UNCHANGED <<drvRoots, drvClosed>>,
             \A q \in AllPaths \ {p} : q \in RootKeys(idx') <=> q \in RootKeys(idx),
             (drvClosed \/ AgreeOn(p))'
      PROVE  Settled'
  <2>1. Goto(t, Rest(t)) /\ pc'[t] \notin Working
    BY <1>4, GoesOn DEF Return, Rest
  <2>2. Halfway(t)'
    BY <2>1 DEF Halfway
  <2>3. \A u \in Threads \ {t} : input'[u] = input[u] /\ root'[u] = root[u]
    BY <1>4 DEF Return, Together, Typed, CallsTyped
  <2> QED BY <1>0, <1>1, <1>4, <2>1, <2>2, <2>3, StepSettles
<1>5. CASE AddToIndex(t)
  <2>1. RootKeys(idx') = RootKeys(idx) \cup {p}
    BY <1>1, <1>5, KeysAfter DEF AddToIndex
  <2>2. pc'[t] = "addDriver" /\ PathOf(t)' = p
    BY <1>0, <1>5, GoesOn DEF AddToIndex
  <2>3. Halfway(t)'
    BY <2>1, <2>2 DEF Halfway
  <2> QED BY <1>3, <1>5, <2>1, <2>3 DEF AddToIndex
<1>6. CASE AddRegister(t)
  <2>1. drvRoots' = drvRoots \cup {p} /\ idx' = idx
    BY <1>1, <1>6 DEF AddRegister, DriverRegister
  <2>2. pc'[t] = "addEnroll" /\ PathOf(t)' = p
    BY <1>0, <1>6, GoesOn DEF AddRegister
  <2>3. Halfway(t)'
    BY <1>0, <1>2, <1>6, <2>1, <2>2 DEF Halfway, InBoth, AddRegister
  <2> QED BY <1>3, <1>6, <2>1, <2>3 DEF AddRegister, DriverRegister
<1>7. CASE AddDuplicate(t)
  <2>1. AgreeOn(p) /\ UNCHANGED <<idx, drvRoots>>
    BY <1>0, <1>1, <1>2, <1>7 DEF AddDuplicate, Halfway, AgreeOn
  <2>2. AgreeOn(p)'
    BY <2>1 DEF AgreeOn
  <2> QED BY <1>4, <1>7, <2>1, <2>2 DEF AddDuplicate
<1>8. CASE AddClosed(t)
  <2>1. pc'[t] = "addRollback" /\ drvClosed'
    BY <1>8, GoesOn DEF AddClosed
  <2> QED BY <1>3, <1>8, <2>1 DEF AddClosed, Halfway
<1>9. CASE AddEnrolled(t)
  <2>1. AgreeOn(p) /\ UNCHANGED <<idx, drvRoots>>
    BY <1>0, <1>2, <1>9 DEF AddEnrolled, Halfway, AgreeOn, InBoth
  <2>2. AgreeOn(p)'
    BY <2>1 DEF AgreeOn
  <2> QED BY <1>4, <1>9, <2>1, <2>2 DEF AddEnrolled
<1>10. CASE AddEnrollFails(t)
  <2>1. pc'[t] = "addCleanup" /\ PathOf(t)' = p
    BY <1>0, <1>10, GoesOn DEF AddEnrollFails
  <2>2. Halfway(t)'
    BY <1>0, <1>2, <1>10, <2>1 DEF Halfway, InBoth, AddEnrollFails
  <2> QED BY <1>3, <1>10, <2>2 DEF AddEnrollFails
<1>11. CASE AddCleanup(t)
  <2>1. drvRoots' = drvRoots \ {p} /\ idx' = idx
    BY <1>1, <1>11 DEF AddCleanup, DriverRemove
  <2>2. pc'[t] = "addRollback" /\ PathOf(t)' = p
    BY <1>0, <1>11, GoesOn DEF AddCleanup
  <2>3. Halfway(t)'
    BY <2>1, <2>2 DEF Halfway
  <2> QED BY <1>3, <1>11, <2>1, <2>3 DEF AddCleanup, DriverRemove
<1>12. CASE AddRollback(t)
  <2>1. RootKeys(idx') = RootKeys(idx) \ {p} /\ UNCHANGED <<drvRoots, drvClosed>>
    BY <1>1, <1>12, KeysAfter DEF AddRollback
  <2>2. (drvClosed \/ AgreeOn(p))'
    BY <1>0, <1>2, <1>12, <2>1 DEF Halfway, AgreeOn, AddRollback
  <2> QED BY <1>4, <1>12, <2>1, <2>2 DEF AddRollback
<1> QED BY <1>5, <1>6, <1>7, <1>8, <1>9, <1>10, <1>11, <1>12 DEF AddStep

LEMMA RemoveSettles ==
    ASSUME Together, WorkApart, Flags', NEW t \in Threads, RemoveStep(t)
    PROVE  Settled'
<1>0. PICK p : p = PathOf(t)
  OBVIOUS
<1> USE DEF Working, WithRoot, drvVars, drvRegistry
<1>1. pc[t] \in Working /\ Halfway(t)
  BY DEF RemoveStep, RemoveFromIndex, RemoveNotIndexed, RemoveFromDriver, RemoveNotRegistered,
     Together, Settled
<1>2. ASSUME Return(t), UNCHANGED <<idx, drvClosed>>,
             \A q \in AllPaths \ {p} : q \in drvRoots' <=> q \in drvRoots,
             (drvClosed \/ AgreeOn(p))'
      PROVE  Settled'
  <2>1. Goto(t, Rest(t)) /\ pc'[t] \notin Working
    BY <1>2, GoesOn DEF Return, Rest
  <2>2. Halfway(t)'
    BY <2>1 DEF Halfway
  <2>3. \A u \in Threads \ {t} : input'[u] = input[u] /\ root'[u] = root[u]
    BY <1>2 DEF Return, Together, Typed, CallsTyped
  <2> QED BY <1>0, <1>1, <1>2, <2>1, <2>2, <2>3, StepSettles
<1>3. CASE RemoveFromIndex(t)
  <2>1. p = input[t] /\ p \in RootKeys(idx)
    BY <1>0, <1>3 DEF RemoveFromIndex, PathOf
  <2>2. RootKeys(idx') = RootKeys(idx) \ {p} /\ UNCHANGED <<drvRoots, drvClosed>>
    BY <1>3, <2>1, KeysAfter DEF RemoveFromIndex
  <2>3. /\ pc'[t] = "removeDriver" /\ input'[t] = p
        /\ root'[t] = idx.roots[p]
        /\ \A u \in Threads \ {t} : input'[u] = input[u] /\ root'[u] = root[u]
    BY <1>3, <2>1, GoesOn DEF RemoveFromIndex, Together, Typed, CallsTyped
  <2>4. PathOf(t)' = p
    BY <2>1, <2>3 DEF PathOf, Together, Typed, IsIndex, KeyedByPath
  <2>5. Halfway(t)' /\ Owned(p)'
    BY <2>2, <2>3, <2>4 DEF Halfway, Owned
  <2> QED BY <1>0, <1>1, <1>3, <2>2, <2>3, <2>5, StepSettles DEF RemoveFromIndex
<1>4. CASE RemoveNotIndexed(t)
  <2>1. drvClosed \/ AgreeOn(p)
    BY <1>0, <1>1, <1>4 DEF RemoveNotIndexed, Halfway
  <2>2. (drvClosed \/ AgreeOn(p))'
    BY <1>4, <2>1 DEF RemoveNotIndexed, AgreeOn
  <2> QED BY <1>2, <1>4, <2>2 DEF RemoveNotIndexed
<1>5. CASE RemoveFromDriver(t)
  <2>1. /\ drvRoots' = drvRoots \ {p} /\ UNCHANGED <<idx, drvClosed>>
        /\ p \notin RootKeys(idx)
    BY <1>0, <1>1, <1>5 DEF RemoveFromDriver, DriverRemove, Halfway, PathOf
  <2>2. AgreeOn(p)'
    BY <2>1 DEF AgreeOn
  <2> QED BY <1>2, <1>5, <2>1, <2>2 DEF RemoveFromDriver
<1>6. CASE RemoveNotRegistered(t)
  <2>1. p \notin drvRoots /\ p \notin RootKeys(idx) /\ UNCHANGED <<idx, drvRoots, drvClosed>>
    BY <1>0, <1>1, <1>6 DEF RemoveNotRegistered, Halfway, PathOf
  <2>2. AgreeOn(p)'
    BY <2>1 DEF AgreeOn
  <2> QED BY <1>2, <1>6, <2>1, <2>2 DEF RemoveNotRegistered
<1> QED BY <1>3, <1>4, <1>5, <1>6 DEF RemoveStep

(* A rename that moves no root rewrites at most the WatchPath of file roots *)
(* below it. *)
LEMMA StayingRootsKeepKeys ==
    ASSUME Typed, RootsStay, HandleMove
    PROVE  /\ RootKeys(idx') = RootKeys(idx)
           /\ \A k \in RootKeys(idx) : /\ idx'.roots[k].Path = idx.roots[k].Path
                                       /\ idx'.roots[k].IsDir = idx.roots[k].IsDir
<1> DEFINE old == hand[1].old
           new == hand[1].path
<1>1. CASE ~IndexFollows(hand[1])
  BY <1>1 DEF HandleMove, IndexFollows
<1>2. CASE IndexFollows(hand[1])
  <2>1. hand[1] \in Event
    BY WatcherAssumption DEF HandleMove, Typed, Carried, HandIsFull, ChannelsTyped,
       Hands, Handling
  <2>2. old \in Path(Names) /\ new \in Path(Names) /\ idx' \in MovePrefix(idx, old, new)
    BY <1>2, <2>1 DEF IndexFollows, Event, AllPaths, HandleMove
  <2>3. \A k \in RootKeys(idx) : ~PathMoves(idx.roots[k], old)
    BY <1>2 DEF RootsStay, HandleMove
  <2> HIDE DEF old, new
  <2>4. ASSUME NEW k \in RootKeys(idx)
        PROVE  /\ MovedRoot(idx.roots[k], old, new).Path = k
               /\ MovedRoot(idx.roots[k], old, new).IsDir = idx.roots[k].IsDir
    <3>1. idx.roots[k] \in RootOf(Names) /\ idx.roots[k].Path = k
      BY DEF Typed, IsIndex, RootsTyped, KeyedByPath
    <3> QED BY <2>3, <3>1 DEF MovedRoot, RootOf
  <2>5. IsIndex(idx, Names)
    BY DEF Typed
  <2>6. LandedPaths(idx, old, new) = ChangedKeys(idx, old) /\ ChangedKeys(idx, old) \subseteq RootKeys(idx)
    BY <2>4 DEF LandedPaths, ChangedKeys
  <2>7. RootKeys(idx') = RootKeys(idx)
    BY <2>2, <2>5, <2>6, RenameLeaves
  <2>8. ASSUME NEW k \in RootKeys(idx)
        PROVE  idx'.roots[k].Path = idx.roots[k].Path /\ idx'.roots[k].IsDir = idx.roots[k].IsDir
    <3>1. CASE k \notin ChangedKeys(idx, old)
      BY <2>2, <2>5, <2>6, <2>7, <3>1, RenameLeaves
    <3>2. CASE k \in ChangedKeys(idx, old)
      <4>1. PICK j \in ChangedKeys(idx, old) : /\ idx'.roots[k] = MovedRoot(idx.roots[j], old, new)
                                              /\ idx'.roots[k].Path = k
        BY <2>2, <2>5, <2>6, <3>2, RenameLeaves
      <4>2. j = k
        BY <2>4, <2>6, <4>1
      <4>3. idx.roots[k].Path = k
        BY <2>5 DEF IsIndex, KeyedByPath
      <4> QED BY <2>4, <4>1, <4>2, <4>3
    <3> QED BY <3>1, <3>2
  <2> QED BY <2>7, <2>8
<1> QED BY <1>1, <1>2

(* Steps outside Add and Remove. *)
Elsewhere ==
    \/ \E t \in Threads : AddRejected(t) \/ RemoveRejected(t) \/ CloseBegin(t) \/ CloseStep(t)
    \/ RunBackendStep \/ RunEventsStep
    \/ BackendObserves \/ DriverRuns \/ BackendFails
    \/ UNCHANGED vars

LEMMA ElsewhereLeavesCalls ==
    ASSUME Typed, Elsewhere
    PROVE  /\ \A u \in Threads : pc[u] \in Working \/ pc'[u] \in Working =>
                  pc'[u] = pc[u] /\ input'[u] = input[u] /\ root'[u] = root[u]
           /\ UNCHANGED <<drvRoots, granted, missed>>
           /\ drvClosed => drvClosed'
           /\ closed => closed'
           /\ HandleMove \/ UNCHANGED idx
<1> DEFINE Unmoved == \A u \in Threads : pc[u] \in Working \/ pc'[u] \in Working =>
                         pc'[u] = pc[u] /\ input'[u] = input[u] /\ root'[u] = root[u]
<1> USE DEF Working, WithRoot, callVars, drvVars, drvRegistry, Goto, history, closeVars
<1>0. pc \in [Threads -> AllLabels] /\ RunBackend \in Threads /\ RunEvents \in Threads
  BY DEF Typed, Carried, Shutdown, PcIsControl, Threads
<1>1. ASSUME NEW t \in Threads, AddRejected(t) \/ RemoveRejected(t) \/ CloseReturn(t)
      PROVE  Unmoved /\ UNCHANGED <<idx, drvRoots, drvClosed, closed, granted, missed>>
  <2>1. Return(t) /\ pc[t] \notin Working
    BY <1>1 DEF AddRejected, RemoveRejected, CloseReturn, Calls, Ready
  <2>2. Unmoved
    BY <1>0, <2>1 DEF Return, Rest, Typed, CallsTyped
  <2> QED BY <1>1, <2>2 DEF AddRejected, RemoveRejected, CloseReturn
<1>2. ASSUME NEW t \in Threads,
             \/ CloseBegin(t) \/ CloseFlag(t) \/ CloseDriver(t) \/ CloseStopped(t)
             \/ CloseBackend(t) \/ CloseEvents(t)
      PROVE  /\ Unmoved /\ UNCHANGED <<idx, drvRoots, granted, missed>>
             /\ (drvClosed => drvClosed') /\ (closed => closed')
  <2>1. UNCHANGED callVars /\ pc[t] \notin Working
    BY <1>2 DEF CloseBegin, CloseFlag, CloseDriver, CloseStopped, CloseBackend, CloseEvents,
       Calls, Ready
  <2>2. Unmoved
    BY <1>0, <1>2, <2>1 DEF CloseBegin, CloseFlag, CloseDriver, CloseStopped, CloseBackend,
       CloseEvents
  <2> QED BY <1>2, <2>2 DEF CloseBegin, CloseFlag, CloseDriver, DriverClose, CloseStopped,
       CloseBackend, CloseEvents
<1>3. CASE RunBackendStep
  <2>1. UNCHANGED <<callVars, drvRoots, drvClosed, closed, granted, missed>>
    BY <1>3 DEF RunBackendStep, SelectEvent, ReceiveEvent, SelectEventsEnd, SelectError,
       ReceiveError, SelectErrorsEnd, OnErrorReturns, HandleMove, HandleMatch, HandleMatchOld,
       HandlePush, HandlePushSelect, BackendLoopEnds, BackendQueueFlag, BackendQueueDone,
       BackendExits
  <2>2. Unmoved
    BY <1>0, <1>3, <2>1 DEF RunBackendStep, SelectEvent, SelectEventsEnd, SelectError,
       SelectErrorsEnd, OnErrorReturns, HandleMove, HandleMatch, HandleMatchOld, HandlePush,
       Forward, Drop, HandlePushSelect, BackendLoopEnds, BackendQueueFlag, BackendQueueDone,
       BackendExits
  <2>3. HandleMove \/ UNCHANGED idx
    BY <1>3 DEF RunBackendStep, SelectEvent, SelectEventsEnd, SelectError, SelectErrorsEnd,
       OnErrorReturns, HandleMatch, HandleMatchOld, HandlePush, HandlePushSelect,
       BackendLoopEnds, BackendQueueFlag, BackendQueueDone, BackendExits
  <2> QED BY <2>1, <2>2, <2>3
<1>4. CASE RunEventsStep
  <2>1. UNCHANGED <<idx, drvRoots, drvClosed, callVars, closed, granted, missed>>
    BY <1>4 DEF RunEventsStep, EventsPop, OnEventReturns, OnEventPanics, ReportReturns, EventsEnd,
       EventsExit
  <2>2. Unmoved
    BY <1>0, <1>4, <2>1 DEF RunEventsStep, EventsPop, OnEventReturns, OnEventPanics,
       ReportReturns, EventsEnd, EventsExit
  <2> QED BY <2>1, <2>2
<1>5. CASE BackendObserves \/ DriverRuns \/ BackendFails
  <2>1. UNCHANGED <<pc, idx, drvRoots, drvClosed, callVars, closed, granted, missed>>
    BY <1>5 DEF BackendObserves, DriverObserve, DriverRuns, DriverEmit, DriverLeave, DriverExit,
       BackendFails, DriverError
  <2> QED BY <2>1
<1>6. CASE UNCHANGED vars
  BY <1>6 DEF vars
<1> QED BY <1>1, <1>2, <1>3, <1>4, <1>5, <1>6 DEF Elsewhere, CloseStep

LEMMA ElsewhereLeavesKeys ==
    ASSUME Typed, RootsStay, Elsewhere
    PROVE  RootKeys(idx') = RootKeys(idx)
BY ElsewhereLeavesCalls, StayingRootsKeepKeys

LEMMA StepsAreCallsOrElsewhere ==
    ASSUME [Next]_vars
    PROVE  \/ Elsewhere
           \/ \E t \in Threads : \/ \E look \in Lookups : AddBegin(t, look)
                                 \/ \E path \in Inputs[t] : RemoveBegin(t, path)
                                 \/ AddStep(t) \/ RemoveStep(t)
BY DEF Next, BeginCall, CallStep, Elsewhere

LEMMA TogetherInit == Init => Together
<1> SUFFICES ASSUME Init PROVE Settled
  BY TypedInit DEF Together
<1>1. Flags
  BY DEF Init, DriverInit, Flags, Closing
<1>2. RootKeys(idx) = {} /\ drvRoots = {}
  BY RebuildKeepsRoots DEF Init, DriverInit, EmptyIndex, RootKeys
<1>3. \A t \in Threads : Halfway(t)
  BY DEF Init, Halfway
<1> QED BY <1>1, <1>2, <1>3 DEF Settled, AgreeOn

LEMMA TogetherStep ==
    Together /\ WorkApart /\ WorkApart' /\ RootsStay /\ [Next]_vars => Together'
<1> SUFFICES ASSUME Together, WorkApart, WorkApart', RootsStay, [Next]_vars
             PROVE  Settled'
  BY TypedStep DEF Together
<1>1. Flags'
  BY FlagsStay
<1>2. CASE Elsewhere
  BY <1>1, <1>2, ElsewhereLeavesCalls, ElsewhereLeavesKeys, NothingMoves DEF Together
<1> QED
  BY <1>1, <1>2, StepsAreCallsOrElsewhere, BeginSettles, AddSettles, RemoveSettles

(***************************************************************************)
(* As long as no two calls work on one path at the same time and no rename *)
(* moves a watched root, the index and the backend agree on which roots    *)
(* are watched whenever no call is under way and the watcher is open:      *)
(* neither a failed enrolment, nor a second Add of a root, nor the events  *)
(* that runBackend handles in between leave a root in only one of them.    *)
(* Calls of the same path in turn and calls of different paths at once are *)
(* covered, and both hypotheses are needed: ConcurrentAddRemove shows what *)
(* becomes of two calls that meet.                                         *)
(***************************************************************************)
THEOREM RegistriesAgreeApart ==
    Spec /\ [](WorkApart /\ RootsStay) => []RegistriesAgree
<1>1. Together => RegistriesAgree
  <2> SUFFICES ASSUME Together, NoCallInFlight, once = "new" PROVE RootKeys(idx) = drvRoots
    BY DEF RegistriesAgree
  <2>1. ~drvClosed
    BY DEF Together, Settled, Flags
  <2>2. \A p \in AllPaths : AgreeOn(p)
    BY <2>1 DEF Together, Settled, Owned, NoCallInFlight, CallLabels, Working, WithRoot
  <2>3. RootKeys(idx) \subseteq AllPaths /\ drvRoots \subseteq AllPaths
    BY DEF Together, Typed, IsIndex, RootsTyped, AllPaths, PathsTyped
  <2> QED BY <2>2, <2>3 DEF AgreeOn
<1> QED BY <1>1, TogetherInit, TogetherStep, PTL DEF Spec

----------------------------------------------------------------------------
(* Grants.  Every step of every other thread leaves what t relies on: the  *)
(* step touches the registries and the grants at one path p at most, on    *)
(* which no other thread works.                                            *)
Reliant == Together /\ GrantsHeld

LEMMA StepKeepsGrants ==
    ASSUME Reliant, WorkApart, NEW t \in Threads, NEW label, Goto(t, label),
           \A u \in Threads \ {t} : input'[u] = input[u] /\ root'[u] = root[u],
           NEW p, pc[t] \in Working => p = PathOf(t),
           \A q \in AllPaths \ {p} : /\ q \in RootKeys(idx') <=> q \in RootKeys(idx)
                                     /\ q \in drvRoots' <=> q \in drvRoots
                                     /\ q \in granted' <=> q \in granted,
           \/ pc[t] \in Working
           \/ RootKeys(idx') = RootKeys(idx) /\ UNCHANGED <<drvRoots, granted>>,
           closed => closed', missed' = {}, granted' \subseteq AllPaths,
           pc'[t] \in Working => GrantedHalfway(t)',
           p \in granted' => (closed \/ InBoth(p) \/ Owned(p))'
    PROVE  GrantsHeld'
<1>1. \A u \in Threads \ {t} : pc'[u] = pc[u]
  BY DEF Goto, Reliant, Together, Typed, Carried, Shutdown, PcIsControl
<1>2. \A u \in Threads \ {t} : PathOf(u)' = PathOf(u)
  BY <1>1 DEF PathOf
<1>3. RootKeys(idx)' = RootKeys(idx')
  BY DEF RootKeys
<1>4. ASSUME NEW u \in Threads \ {t}, pc'[u] \in Working PROVE GrantedHalfway(u)'
  <2>1. PathOf(u) \in AllPaths
    BY <1>1, <1>4 DEF PathOf, Reliant, Together, Typed, CallsTyped, Working, WithRoot, AllRoots,
       RootOf, AllPaths
  <2>2. /\ PathOf(u) \in RootKeys(idx') <=> PathOf(u) \in RootKeys(idx)
        /\ PathOf(u) \in drvRoots' <=> PathOf(u) \in drvRoots
        /\ PathOf(u) \in granted' <=> PathOf(u) \in granted
    <3>1. CASE pc[t] \in Working
      <4>1. PathOf(u) # p
        BY <1>1, <1>4, <3>1 DEF WorkApart
      <4> QED BY <2>1, <4>1
    <3>2. CASE pc[t] \notin Working
      BY <3>2
    <3> QED BY <3>1, <3>2
  <2>3. GrantedHalfway(u)
    BY <1>1, <1>4 DEF Reliant, GrantsHeld
  <2> QED BY <1>1, <1>2, <1>3, <2>2, <2>3 DEF GrantedHalfway, InBoth
<1>5. ASSUME NEW q \in granted', q # p PROVE (closed \/ InBoth(q) \/ Owned(q))'
  <2>1. q \in AllPaths /\ q \in granted
    BY <1>5
  <2>2. CASE closed \/ InBoth(q)
    BY <1>3, <1>5, <2>1, <2>2 DEF InBoth
  <2>3. CASE Owned(q)
    <3>1. PICK u \in Threads : pc[u] \in Working /\ PathOf(u) = q
      BY <2>3 DEF Owned
    <3>2. u # t
      BY <1>5, <3>1
    <3> QED BY <1>1, <1>2, <3>1, <3>2 DEF Owned
  <2> QED BY <2>1, <2>2, <2>3 DEF Reliant, GrantsHeld
<1> QED BY <1>4, <1>5 DEF GrantsHeld

LEMMA NothingKeepsGrants ==
    ASSUME Reliant,
           \A u \in Threads : pc[u] \in Working \/ pc'[u] \in Working =>
               pc'[u] = pc[u] /\ input'[u] = input[u] /\ root'[u] = root[u],
           RootKeys(idx') = RootKeys(idx), UNCHANGED <<drvRoots, granted, missed>>,
           closed => closed'
    PROVE  GrantsHeld'
<1>1. RootKeys(idx)' = RootKeys(idx)
  BY DEF RootKeys
<1>2. \A p : InBoth(p)' <=> InBoth(p)
  BY <1>1 DEF InBoth
<1>3. \A u \in Threads : pc[u] \in Working => PathOf(u)' = PathOf(u)
  BY DEF PathOf
<1>4. ASSUME NEW u \in Threads, pc'[u] \in Working PROVE GrantedHalfway(u)'
  <2>1. GrantedHalfway(u)
    BY <1>4 DEF Reliant, GrantsHeld
  <2> QED BY <1>1, <1>2, <1>3, <1>4, <2>1 DEF GrantedHalfway
<1>5. ASSUME NEW p \in granted PROVE (closed \/ InBoth(p) \/ Owned(p))'
  <2>1. CASE closed \/ InBoth(p)
    BY <1>2, <2>1
  <2>2. CASE Owned(p)
    BY <1>3, <2>2 DEF Owned
  <2> QED BY <2>1, <2>2 DEF Reliant, GrantsHeld
<1> QED BY <1>4, <1>5 DEF GrantsHeld, Reliant

LEMMA BeginKeepsGrants ==
    ASSUME Reliant, WorkApart, WorkApart', NEW t \in Threads,
           \/ \E look \in Lookups : AddBegin(t, look)
           \/ \E path \in Inputs[t] : RemoveBegin(t, path)
    PROVE  GrantsHeld'
<1>0. PICK p : p = PathOf(t)'
  OBVIOUS
<1>1. /\ pc[t] \notin Working /\ ~closed
      /\ \A u \in Threads \ {t} : pc'[u] = pc[u] /\ input'[u] = input[u] /\ root'[u] = root[u]
  BY DEF AddBegin, RemoveBegin, Calls, Ready, Working, WithRoot, Goto, Reliant, Together, Typed,
     Carried, Shutdown, PcIsControl, CallsTyped
<1>2. PICK label \in {"addIndex", "removeIndex"} : Goto(t, label)
  BY DEF AddBegin, RemoveBegin
<1>3. pc'[t] = label
  BY <1>2 DEF Goto, Reliant, Together, Typed, Carried, Shutdown, PcIsControl
<1>4. UNCHANGED <<idx, drvRoots, granted, closed>>
  BY DEF AddBegin, RemoveBegin, drvVars, drvRegistry, history, closeVars
<1>5. missed' = {} /\ granted \subseteq AllPaths
  BY DEF AddBegin, RemoveBegin, history, Reliant, GrantsHeld, Together, Typed, PathsTyped
<1>6. ~Owned(p)
  <2> SUFFICES ASSUME NEW u \in Threads, pc[u] \in Working, PathOf(u) = p PROVE FALSE
    BY DEF Owned
  <2>1. u # t /\ pc'[u] \in Working /\ PathOf(u)' = p
    BY <1>1 DEF PathOf
  <2>2. pc'[t] \in Working
    BY <1>3 DEF Working, WithRoot
  <2> QED BY <1>0, <2>1, <2>2 DEF WorkApart
<1>7. p \in granted => InBoth(p)
  BY <1>1, <1>6 DEF Reliant, GrantsHeld
<1>8. GrantedHalfway(t)' /\ (p \in granted' => InBoth(p)')
  BY <1>0, <1>3, <1>4, <1>7 DEF GrantedHalfway, InBoth
<1>9. RootKeys(idx') = RootKeys(idx)
  BY <1>4
<1> QED BY <1>1, <1>2, <1>4, <1>5, <1>8, <1>9, StepKeepsGrants

(* What a step of Add or Remove by t leaves of what it relies on. *)
LEMMA OnOwnPath ==
    ASSUME Reliant, WorkApart, NEW t \in Threads, NEW p, p = PathOf(t), pc[t] \in Working,
           \A q \in AllPaths \ {p} : /\ q \in RootKeys(idx') <=> q \in RootKeys(idx)
                                     /\ q \in drvRoots' <=> q \in drvRoots
                                     /\ q \in granted' <=> q \in granted,
           UNCHANGED closed, missed' = {}, granted' \subseteq AllPaths,
           \/ Return(t) /\ (p \in granted' => (closed \/ InBoth(p))')
           \/ \E label \in Working : /\ Goto(t, label) /\ PathOf(t)' = p /\ GrantedHalfway(t)'
                                     /\ \A u \in Threads \ {t} : /\ input'[u] = input[u]
                                                                /\ root'[u] = root[u]
    PROVE  GrantsHeld'
<1>1. CASE Return(t) /\ (p \in granted' => (closed \/ InBoth(p))')
  <2>1. Goto(t, Rest(t)) /\ pc'[t] \notin Working
    BY <1>1, GoesOn DEF Return, Rest, Reliant, Working, WithRoot
  <2>2. \A u \in Threads \ {t} : input'[u] = input[u] /\ root'[u] = root[u]
    BY <1>1 DEF Return, Reliant, Together, Typed, CallsTyped
  <2> QED BY <1>1, <2>1, <2>2, StepKeepsGrants
<1>2. ASSUME NEW label \in Working, Goto(t, label), PathOf(t)' = p, GrantedHalfway(t)',
             \A u \in Threads \ {t} : input'[u] = input[u] /\ root'[u] = root[u]
      PROVE  GrantsHeld'
  <2>1. Owned(p)'
    BY <1>2, GoesOn DEF Owned, Reliant
  <2> QED BY <1>2, <2>1, StepKeepsGrants
<1> QED BY <1>1, <1>2

LEMMA AddKeepsGrants ==
    ASSUME Reliant, WorkApart, NoLinks, NEW t \in Threads, AddStep(t)
    PROVE  GrantsHeld'
<1>0. PICK p : p = PathOf(t)
  OBVIOUS
<1> USE DEF Working, WithRoot, drvVars, drvRegistry, history, closeVars
<1>1. pc[t] \in WithRoot /\ p = root[t].Path /\ p = input[t] /\ p \in AllPaths
  BY <1>0 DEF AddStep, AddToIndex, AddRegister, AddDuplicate, AddClosed, AddEnrolled,
     AddEnrollFails, AddCleanup, AddRollback, PathOf, NoLinks, Reliant, Together, Typed, CallsTyped
<1>2. Halfway(t) /\ (p \in granted => GrantedHalfway(t))
  BY <1>1 DEF Reliant, Together, Settled, GrantsHeld
<1>3. missed = {} /\ granted \subseteq AllPaths
  BY DEF Reliant, GrantsHeld, Together, Typed, PathsTyped
<1>4. ASSUME NEW label \in WithRoot, Goto(t, label), UNCHANGED callVars
      PROVE  /\ pc'[t] = label /\ PathOf(t)' = p
             /\ \A u \in Threads \ {t} : input'[u] = input[u] /\ root'[u] = root[u]
  BY <1>0, <1>1, <1>4, GoesOn DEF Reliant, callVars
<1>5. CASE AddToIndex(t)
  <2>1. RootKeys(idx') = RootKeys(idx) \cup {p} /\ UNCHANGED <<drvRoots, granted, missed, closed>>
    BY <1>1, <1>5, KeysAfter DEF AddToIndex
  <2>2. Goto(t, "addDriver") /\ pc'[t] = "addDriver" /\ PathOf(t)' = p
        /\ \A u \in Threads \ {t} : input'[u] = input[u] /\ root'[u] = root[u]
    BY <1>4, <1>5 DEF AddToIndex
  <2>3. GrantedHalfway(t)'
    BY <1>0, <1>2, <1>5, <2>1, <2>2 DEF AddToIndex, GrantedHalfway, InBoth
  <2> QED BY <1>0, <1>1, <1>3, <2>1, <2>2, <2>3, OnOwnPath
<1>6. CASE AddRegister(t)
  <2>1. /\ drvRoots' = drvRoots \cup {p} /\ p \notin drvRoots
        /\ UNCHANGED <<idx, granted, missed, closed>>
    BY <1>1, <1>6 DEF AddRegister, DriverRegister
  <2>2. Goto(t, "addEnroll") /\ pc'[t] = "addEnroll" /\ PathOf(t)' = p
        /\ \A u \in Threads \ {t} : input'[u] = input[u] /\ root'[u] = root[u]
    BY <1>4, <1>6 DEF AddRegister
  <2>3. GrantedHalfway(t)'
    BY <1>0, <1>2, <1>6, <2>1, <2>2 DEF AddRegister, GrantedHalfway
  <2> QED BY <1>0, <1>1, <1>3, <2>1, <2>2, <2>3, OnOwnPath
<1>7. CASE AddDuplicate(t) \/ AddEnrolled(t)
  <2>1. /\ granted' = granted \cup {p} /\ UNCHANGED <<idx, drvRoots, missed, closed>>
        /\ Return(t) /\ InBoth(p)
    BY <1>0, <1>1, <1>2, <1>7 DEF AddDuplicate, AddEnrolled, Grant, Halfway, InBoth
  <2>2. InBoth(p)'
    BY <2>1 DEF InBoth
  <2> QED BY <1>0, <1>1, <1>3, <2>1, <2>2, OnOwnPath
<1>8. CASE AddClosed(t)
  <2>1. UNCHANGED <<idx, drvRoots, granted, missed, closed>> /\ closed
    BY <1>8 DEF AddClosed, Reliant, Together, Settled, Flags
  <2>2. Goto(t, "addRollback") /\ pc'[t] = "addRollback" /\ PathOf(t)' = p
        /\ \A u \in Threads \ {t} : input'[u] = input[u] /\ root'[u] = root[u]
    BY <1>4, <1>8 DEF AddClosed
  <2>3. GrantedHalfway(t)'
    BY <2>1, <2>2 DEF GrantedHalfway
  <2> QED BY <1>0, <1>1, <1>3, <2>1, <2>2, <2>3, OnOwnPath
<1>9. CASE AddEnrollFails(t)
  <2>1. UNCHANGED <<idx, drvRoots, granted, missed, closed>>
    BY <1>9 DEF AddEnrollFails
  <2>2. Goto(t, "addCleanup") /\ pc'[t] = "addCleanup" /\ PathOf(t)' = p
        /\ \A u \in Threads \ {t} : input'[u] = input[u] /\ root'[u] = root[u]
    BY <1>4, <1>9 DEF AddEnrollFails
  <2>3. GrantedHalfway(t)'
    BY <1>0, <1>2, <1>9, <2>1, <2>2 DEF AddEnrollFails, GrantedHalfway
  <2> QED BY <1>0, <1>1, <1>3, <2>1, <2>2, <2>3, OnOwnPath
<1>10. CASE AddCleanup(t)
  <2>1. drvRoots' = drvRoots \ {p} /\ UNCHANGED <<idx, granted, missed, closed>>
    BY <1>1, <1>10 DEF AddCleanup, DriverRemove
  <2>2. Goto(t, "addRollback") /\ pc'[t] = "addRollback" /\ PathOf(t)' = p
        /\ \A u \in Threads \ {t} : input'[u] = input[u] /\ root'[u] = root[u]
    BY <1>4, <1>10 DEF AddCleanup
  <2>3. GrantedHalfway(t)'
    BY <1>0, <1>2, <1>10, <2>1, <2>2 DEF AddCleanup, GrantedHalfway
  <2> QED BY <1>0, <1>1, <1>3, <2>1, <2>2, <2>3, OnOwnPath
<1>11. CASE AddRollback(t)
  <2>1. /\ RootKeys(idx') = RootKeys(idx) \ {p} /\ UNCHANGED <<drvRoots, granted, missed, closed>>
        /\ Return(t)
    BY <1>1, <1>11, KeysAfter DEF AddRollback
  <2>2. p \in granted => closed
    BY <1>0, <1>2, <1>11 DEF AddRollback, GrantedHalfway
  <2> QED BY <1>0, <1>1, <1>3, <2>1, <2>2, OnOwnPath
<1> QED BY <1>5, <1>6, <1>7, <1>8, <1>9, <1>10, <1>11 DEF AddStep

LEMMA RemoveKeepsGrants ==
    ASSUME Reliant, WorkApart, NEW t \in Threads, RemoveStep(t)
    PROVE  GrantsHeld'
<1>0. PICK p : p = PathOf(t)
  OBVIOUS
<1> USE DEF Working, WithRoot, drvVars, drvRegistry, history, closeVars
<1>1. pc[t] \in Working /\ p = input[t] /\ p \in AllPaths
  BY <1>0 DEF RemoveStep, RemoveFromIndex, RemoveNotIndexed, RemoveFromDriver,
     RemoveNotRegistered, PathOf, Halfway, Reliant, Together, Settled, Typed, CallsTyped
<1>2. Halfway(t) /\ (p \in granted => GrantedHalfway(t))
  BY <1>1 DEF Reliant, Together, Settled, GrantsHeld
<1>3. missed = {} /\ granted \subseteq AllPaths
  BY DEF Reliant, GrantsHeld, Together, Typed, PathsTyped
<1>4. CASE RemoveFromIndex(t)
  <2>1. p \in RootKeys(idx) /\ idx.roots[p].Path = p
    BY <1>1, <1>4 DEF RemoveFromIndex, Reliant, Together, Typed, IsIndex, KeyedByPath
  <2>2. RootKeys(idx') = RootKeys(idx) \ {p} /\ UNCHANGED <<drvRoots, granted, missed, closed>>
    BY <1>1, <1>4, KeysAfter DEF RemoveFromIndex
  <2>3. /\ Goto(t, "removeDriver") /\ pc'[t] = "removeDriver" /\ root'[t] = idx.roots[p]
        /\ \A u \in Threads \ {t} : input'[u] = input[u] /\ root'[u] = root[u]
    BY <1>1, <1>4, GoesOn DEF RemoveFromIndex, Reliant, Together, Typed, CallsTyped
  <2>4. PathOf(t)' = p
    BY <2>1, <2>3 DEF PathOf
  <2>5. GrantedHalfway(t)'
    BY <1>0, <1>2, <1>4, <2>2, <2>3, <2>4 DEF RemoveFromIndex, GrantedHalfway, InBoth
  <2> QED BY <1>0, <1>1, <1>3, <2>2, <2>3, <2>4, <2>5, OnOwnPath
<1>5. CASE RemoveNotIndexed(t) \/ RemoveNotRegistered(t)
  <2>1. p \notin granted
    BY <1>0, <1>1, <1>2, <1>5 DEF RemoveNotIndexed, RemoveNotRegistered, GrantedHalfway, InBoth,
       PathOf
  <2>2. UNCHANGED <<idx, drvRoots, granted, closed>> /\ missed' = missed /\ Return(t)
    BY <1>1, <1>5, <2>1 DEF RemoveNotIndexed, RemoveNotRegistered, ReportMissing
  <2> QED BY <1>0, <1>1, <1>3, <2>1, <2>2, OnOwnPath
<1>6. CASE RemoveFromDriver(t)
  <2>1. /\ drvRoots' = drvRoots \ {p} /\ UNCHANGED <<idx, missed, closed>>
        /\ granted' = granted \ {p} /\ Return(t)
    BY <1>0, <1>1, <1>6 DEF RemoveFromDriver, DriverRemove, PathOf
  <2> QED BY <1>0, <1>1, <1>3, <2>1, OnOwnPath
<1> QED BY <1>4, <1>5, <1>6 DEF RemoveStep

LEMMA ReliantInit == Init => Reliant
<1> SUFFICES ASSUME Init PROVE GrantsHeld
  BY TogetherInit DEF Reliant
<1>1. \A t \in Threads : pc[t] \notin Working
  BY DEF Init, Working, WithRoot
<1> QED BY <1>1 DEF Init, GrantsHeld

LEMMA ReliantStep ==
    Reliant /\ WorkApart /\ WorkApart' /\ RootsStay /\ NoLinks /\ [Next]_vars => Reliant'
<1> SUFFICES ASSUME Reliant, WorkApart, WorkApart', RootsStay, NoLinks, [Next]_vars
             PROVE  GrantsHeld'
  BY TogetherStep DEF Reliant
<1>1. CASE Elsewhere
  BY <1>1, ElsewhereLeavesCalls, ElsewhereLeavesKeys, NothingKeepsGrants DEF Reliant, Together
<1> QED BY <1>1, StepsAreCallsOrElsewhere, BeginKeepsGrants, AddKeepsGrants, RemoveKeepsGrants

(***************************************************************************)
(* Where, besides, no root is added through a symlink, a path that Add has *)
(* returned nil for and no Remove has released can be removed: Remove      *)
(* finds it in the index and the backend at whatever step it comes,        *)
(* also after failed Adds of the same path, and while the watcher closes.  *)
(* A root added through a link is stored under the path it leads to, where *)
(* Remove of the link does not look.                                       *)
(***************************************************************************)
THEOREM GrantedIsRemovable ==
    Spec /\ [](WorkApart /\ RootsStay /\ NoLinks) => []AddedCanBeRemoved
<1>1. Reliant => AddedCanBeRemoved
  BY DEF Reliant, GrantsHeld, AddedCanBeRemoved
<1> QED BY <1>1, ReliantInit, ReliantStep, PTL DEF Spec

----------------------------------------------------------------------------
(***************************************************************************)
(* A program that keeps to these rules meets the hypotheses above: every   *)
(* goroutine and callback adds and removes paths of its own, nothing that  *)
(* is added is renamed or below what is renamed, and no path that is added *)
(* is a symlink.                                                           *)
(***************************************************************************)
PathsOf(t) == Inputs[t] \cup {look.resolved : look \in {l \in Lookups : l.path \in Inputs[t]}}

OwnPaths == \A t, u \in Threads : t # u => PathsOf(t) \cap PathsOf(u) = {}

StillRoots ==
    \A evt \in Events, look \in Lookups : IndexFollows(evt) => ~PathMoves(Target(look), evt.old)

DirectInputs ==
    \A t \in Threads, look \in Lookups : look.path \in Inputs[t] => look.resolved = look.path

(* What a call works on was looked up for its input, and so was every root *)
(* of the index for some input. *)
WorksOnInput(t) ==
    /\ pc[t] \in Working => input[t] \in Inputs[t]
    /\ pc[t] \in WithRoot \ {"removeDriver"} =>
         \E look \in Lookups : look.path = input[t] /\ root[t] = Target(look)
    /\ pc[t] = "removeDriver" => root[t].Path = input[t]

IndexLookedUp ==
    \A k \in RootKeys(idx) : \E look \in Lookups : /\ idx.roots[k].Path = look.resolved
                                                  /\ idx.roots[k].IsDir = look.isDir

Tracked == Typed /\ (\A t \in Threads : WorksOnInput(t)) /\ IndexLookedUp

LEMMA TrackedMeans ==
    ASSUME Tracked
    PROVE  /\ OwnPaths => WorkApart
           /\ StillRoots => RootsStay
           /\ DirectInputs => \A t \in Threads : pc[t] \in WithRoot => input[t] = root[t].Path
<1>1. ASSUME NEW t \in Threads, pc[t] \in Working PROVE PathOf(t) \in PathsOf(t)
  <2>1. CASE pc[t] \in WithRoot \ {"removeDriver"}
    <3>1. PICK look \in Lookups : look.path = input[t] /\ root[t] = Target(look)
      BY <2>1 DEF Tracked, WorksOnInput
    <3>2. PathOf(t) = look.resolved
      BY <2>1, <3>1 DEF PathOf, Target, WithRoot
    <3> QED BY <1>1, <3>1, <3>2 DEF Tracked, WorksOnInput, PathsOf
  <2>2. CASE pc[t] \in {"removeDriver", "removeIndex"}
    BY <1>1, <2>2 DEF Tracked, WorksOnInput, PathOf, PathsOf
  <2> QED BY <1>1, <2>1, <2>2 DEF Working
<1>2. ASSUME StillRoots PROVE RootsStay
  <2> SUFFICES ASSUME pc[RunBackend] = "move", IndexFollows(hand[1]), NEW k \in RootKeys(idx)
               PROVE  ~PathMoves(idx.roots[k], hand[1].old)
    BY DEF RootsStay
  <2>1. hand[1] \in Events
    BY DEF Tracked, Typed, Carried, HandIsFull, ChannelsTyped, Hands, Handling
  <2>2. PICK look \in Lookups : idx.roots[k].Path = look.resolved /\ idx.roots[k].IsDir = look.isDir
    BY DEF Tracked, IndexLookedUp
  <2> QED BY <1>2, <2>1, <2>2 DEF StillRoots, PathMoves, Target
<1>3. ASSUME DirectInputs, NEW t \in Threads, pc[t] \in WithRoot
      PROVE  input[t] = root[t].Path
  <2>1. CASE pc[t] # "removeDriver"
    <3>1. PICK look \in Lookups : look.path = input[t] /\ root[t] = Target(look)
      BY <1>3, <2>1 DEF Tracked, WorksOnInput
    <3>2. input[t] \in Inputs[t]
      BY <1>3 DEF Tracked, WorksOnInput, Working
    <3> QED BY <1>3, <3>1, <3>2 DEF DirectInputs, Target
  <2>2. CASE pc[t] = "removeDriver"
    BY <2>2 DEF Tracked, WorksOnInput
  <2> QED BY <2>1, <2>2
<1>4. OwnPaths => WorkApart
  BY <1>1 DEF OwnPaths, WorkApart
<1> QED BY <1>2, <1>3, <1>4

LEMMA TrackedInit == Init => Tracked
<1> SUFFICES ASSUME Init PROVE Tracked
  OBVIOUS
<1>1. RootKeys(idx) = {}
  BY RebuildKeepsRoots DEF Init, EmptyIndex, RootKeys
<1>2. \A t \in Threads : pc[t] \notin Working
  BY DEF Init, Working, WithRoot
<1> QED BY <1>1, <1>2, TypedInit DEF Tracked, WorksOnInput, IndexLookedUp, Working,
     WithRoot

(* A thread that goes on with its call, or leaves it. *)
LEMMA GoingOnTracks ==
    ASSUME Tracked, NEW t \in Threads,
           \/ Return(t)
           \/ \E label \in WithRoot \ {"removeDriver"} :
                Goto(t, label) /\ UNCHANGED callVars /\ pc[t] \in WithRoot \ {"removeDriver"}
    PROVE  \A u \in Threads : WorksOnInput(u)'
<1>1. \A u \in Threads \ {t} : pc'[u] = pc[u] /\ input'[u] = input[u] /\ root'[u] = root[u]
  BY DEF Return, Goto, callVars, Tracked, Typed, Carried, Shutdown, PcIsControl, CallsTyped
<1>2. CASE Return(t)
  BY <1>1, <1>2 DEF Return, Goto, Rest, Tracked, Typed, Carried, Shutdown, PcIsControl,
     WorksOnInput, Working, WithRoot
<1>3. CASE ~Return(t)
  BY <1>1, <1>3 DEF Goto, callVars, Tracked, Typed, Carried, Shutdown, PcIsControl,
     WorksOnInput, Working, WithRoot
<1> QED BY <1>2, <1>3

LEMMA TrackedStep == Tracked /\ StillRoots /\ [Next]_vars => Tracked'
<1> SUFFICES ASSUME Tracked, StillRoots, [Next]_vars
             PROVE  (\A t \in Threads : WorksOnInput(t)') /\ IndexLookedUp'
  BY TypedStep DEF Tracked
<1>1. CASE Elsewhere
  <2> USE DEF Working, WithRoot, callVars, drvVars, drvRegistry, Goto
  <2>0. RootsStay
    BY TrackedMeans
  <2>1. \A u \in Threads : pc'[u] \in Working =>
            pc'[u] = pc[u] /\ input'[u] = input[u] /\ root'[u] = root[u]
    BY <1>1, ElsewhereLeavesCalls DEF Tracked
  <2>2. \A t \in Threads : WorksOnInput(t)'
    BY <2>1 DEF Tracked, WorksOnInput
  <2>3. CASE HandleMove
    BY <2>0, <2>2, <2>3, StayingRootsKeepKeys DEF Tracked, IndexLookedUp, RootKeys
  <2>4. CASE ~HandleMove
    <3>1. idx' = idx
      BY <1>1, <2>4, ElsewhereLeavesCalls DEF Tracked
    <3> QED BY <2>2, <3>1 DEF Tracked, IndexLookedUp
  <2> QED BY <2>3, <2>4
<1>2. ASSUME NEW t \in Threads, NEW look \in Lookups, AddBegin(t, look)
      PROVE  (\A u \in Threads : WorksOnInput(u)') /\ IndexLookedUp'
  <2>1. /\ pc'[t] = "addIndex" /\ input'[t] = look.path /\ root'[t] = Target(look) /\ idx' = idx
        /\ look.path \in Inputs[t]
        /\ \A u \in Threads \ {t} : pc'[u] = pc[u] /\ input'[u] = input[u] /\ root'[u] = root[u]
    BY <1>2 DEF AddBegin, Goto, Tracked, Typed, Carried, Shutdown, PcIsControl, CallsTyped
  <2> QED BY <2>1 DEF Tracked, WorksOnInput, IndexLookedUp
<1>3. ASSUME NEW t \in Threads, NEW path \in Inputs[t], RemoveBegin(t, path)
      PROVE  (\A u \in Threads : WorksOnInput(u)') /\ IndexLookedUp'
  <2>1. /\ pc'[t] = "removeIndex" /\ input'[t] = path /\ idx' = idx
        /\ \A u \in Threads \ {t} : pc'[u] = pc[u] /\ input'[u] = input[u] /\ root'[u] = root[u]
    BY <1>3 DEF RemoveBegin, Goto, Tracked, Typed, Carried, Shutdown, PcIsControl, CallsTyped
  <2> QED BY <2>1 DEF Tracked, WorksOnInput, IndexLookedUp, WithRoot
<1>4. ASSUME NEW t \in Threads, AddStep(t)
      PROVE  (\A u \in Threads : WorksOnInput(u)') /\ IndexLookedUp'
  <2>1. \A u \in Threads : WorksOnInput(u)'
    BY <1>4, GoingOnTracks DEF AddStep, AddToIndex, AddRegister, AddDuplicate, AddClosed,
       AddEnrolled, AddEnrollFails, AddCleanup, AddRollback, WithRoot
  <2>2. CASE AddToIndex(t)
    <3>1. PICK look \in Lookups : root[t] = Target(look)
      BY <2>2 DEF AddToIndex, Tracked, WorksOnInput, WithRoot
    <3>2. /\ RootKeys(idx') = RootKeys(idx) \cup {root[t].Path}
          /\ \A k \in RootKeys(idx') : idx'.roots[k] = IF k = root[t].Path THEN root[t] ELSE idx.roots[k]
      BY <2>2, RebuildKeepsRoots DEF AddToIndex, IndexAdd, RootKeys
    <3>3. root[t].Path = look.resolved /\ root[t].IsDir = look.isDir
      BY <3>1 DEF Target
    <3> QED BY <2>1, <3>2, <3>3 DEF Tracked, IndexLookedUp, RootKeys
  <2>3. CASE AddRollback(t)
    BY <2>1, <2>3, RemovalLeavesRoots DEF AddRollback, Tracked, IndexLookedUp, RootKeys
  <2>4. CASE ~AddToIndex(t) /\ ~AddRollback(t)
    <3>1. idx' = idx
      BY <1>4, <2>4 DEF AddStep, AddRegister, AddDuplicate, AddClosed, AddEnrolled,
         AddEnrollFails, AddCleanup
    <3> QED BY <2>1, <3>1 DEF Tracked, IndexLookedUp
  <2> QED BY <2>2, <2>3, <2>4
<1>5. ASSUME NEW t \in Threads, RemoveStep(t)
      PROVE  (\A u \in Threads : WorksOnInput(u)') /\ IndexLookedUp'
  <2>1. CASE RemoveFromIndex(t)
    <3>1. /\ pc[t] = "removeIndex" /\ pc'[t] = "removeDriver" /\ input' = input
          /\ root'[t] = idx.roots[input[t]] /\ input[t] \in RootKeys(idx)
          /\ \A u \in Threads \ {t} : pc'[u] = pc[u] /\ root'[u] = root[u]
      BY <2>1 DEF RemoveFromIndex, Goto, Tracked, Typed, Carried, Shutdown, PcIsControl, CallsTyped
    <3>2. root'[t].Path = input[t]
      BY <3>1 DEF Tracked, Typed, IsIndex, KeyedByPath
    <3>3. \A u \in Threads : WorksOnInput(u)'
      BY <3>1, <3>2 DEF Tracked, WorksOnInput, Working, WithRoot
    <3> QED BY <2>1, <3>3, RemovalLeavesRoots DEF RemoveFromIndex, Tracked, IndexLookedUp, RootKeys
  <2>2. CASE ~RemoveFromIndex(t)
    <3>1. Return(t) /\ idx' = idx
      BY <1>5, <2>2 DEF RemoveStep, RemoveNotIndexed, RemoveFromDriver, RemoveNotRegistered
    <3> QED BY <3>1, GoingOnTracks DEF Tracked, IndexLookedUp
  <2> QED BY <2>1, <2>2
<1> QED BY <1>1, <1>2, <1>3, <1>4, <1>5, StepsAreCallsOrElsewhere

(***************************************************************************)
(* Registries and grants for a program that keeps to the rules: whatever   *)
(* its goroutines and callbacks call and however their calls overlap.      *)
(***************************************************************************)
THEOREM OwnPathsAgree ==
    ASSUME OwnPaths, StillRoots
    PROVE  Spec => [](RegistriesAgree /\ (DirectInputs => AddedCanBeRemoved))
<1>1. Tracked => WorkApart /\ RootsStay
  BY TrackedMeans
<1>2. Tracked /\ DirectInputs => NoLinks
  BY TrackedMeans DEF NoLinks
<1>3. Spec => []Tracked
  BY TrackedInit, TrackedStep, PTL DEF Spec
<1>4. Spec => []RegistriesAgree
  BY <1>1, <1>3, RegistriesAgreeApart, PTL
<1>5. CASE DirectInputs
  <2>1. Spec => []AddedCanBeRemoved
    BY <1>1, <1>2, <1>3, <1>5, GrantedIsRemovable, PTL
  <2> QED BY <1>4, <2>1, PTL
<1>6. CASE ~DirectInputs
  BY <1>4, <1>6, PTL
<1> QED BY <1>5, <1>6
=============================================================================
