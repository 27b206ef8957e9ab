--------------------------- MODULE WatcherProofs ---------------------------
(***************************************************************************)
(* The shutdown protocol of the watcher, and that it delivers events as    *)
(* EventDelivery promises, proved for any callers, calls of callbacks,     *)
(* events and capacities.                                                  *)
(***************************************************************************)
EXTENDS WatcherProperties, SequenceTheorems, TLAPS

----------------------------------------------------------------------------
(* The inductive invariant, in parts: what each stage of the shutdown      *)
(* presupposes.                                                            *)

Handling == {"move", "match", "matchOld", "push", "pushSelect"}
Ending   == {"queueFlag", "queueDone", "leaving", "exited"}
Closing  == {"closeFlag", "closeDriver", "closeStopping", "closeBackend", "closeEvents"}

PcIsControl == pc \in [Threads -> AllLabels]

(* The backend holds an event only between observing and sending it. *)
DriverHand == drvPc # "emit" => drvHand = <<>>

(* runBackend gives a channel up only when it is closed and drained. *)
ChannelsGivenUp ==
    /\ ~evOpen => EventsClosed /\ events = <<>>
    /\ ~errOpen => ErrorsClosed /\ errs = 0

(* It ends only when it has given up both, with nothing in its hands. *)
BackendEnding ==
    /\ pc[RunBackend] \in Ending => ~evOpen /\ ~errOpen
    /\ hand # <<>> => pc[RunBackend] \in Handling

(* The queue is closed by runBackend's end, and by nothing else. *)
QueueClosed ==
    /\ qClosed => pc[RunBackend] \in {"queueDone", "leaving", "exited"}
    /\ qDone => pc[RunBackend] \in {"leaving", "exited"}
    /\ backendDone => pc[RunBackend] = "exited"

(* runEvents ends only when the queue is closed and drained. *)
EventsEnding ==
    /\ pc[RunEvents] \in {"leaving", "exited"} => qDone /\ ch = <<>>
    /\ done => pc[RunEvents] = "exited"

(* One thread is inside closeOnce. *)
OneCloser ==
    /\ \A t \in Threads : pc[t] \in Closing => once = "running"
    /\ \A t, u \in Threads : pc[t] \in Closing /\ pc[u] \in Closing => t = u

(* What it has waited for, stays. *)
CloserWaited ==
    /\ \A t \in Threads : pc[t] \in {"closeBackend", "closeEvents"} => DriverDone
    /\ \A t \in Threads : pc[t] = "closeEvents" => backendDone
    /\ once = "done" => DriverDone /\ backendDone /\ done

Results == closeRes # {} => once = "done" /\ closeRes = {closeErr}

Shutdown ==
    /\ PcIsControl /\ DriverHand /\ ChannelsGivenUp /\ BackendEnding /\ QueueClosed
    /\ EventsEnding /\ OneCloser /\ CloserWaited /\ Results

----------------------------------------------------------------------------
LEMMA ShutdownInit == Init => Shutdown
BY DEF Init, Shutdown, PcIsControl, DriverHand, ChannelsGivenUp, BackendEnding, QueueClosed,
       EventsEnding, OneCloser, CloserWaited, Results, EventsClosed, ErrorsClosed,
       DriverDone, QueueInit, DriverInit, Ending, Closing,
       Handling, Threads, AllLabels, CallerLabels, BackendLabels, EventsLabels, CallLabels,
       RunBackend, RunEvents

(* Add: no step of it is part of the shutdown. *)
LEMMA ShutdownAdd ==
    ASSUME Shutdown, NEW t \in Threads, AddRejected(t) \/ (\E look \in Lookups : AddBegin(t, look)) \/ AddStep(t)
    PROVE  Shutdown'
<1> USE DEF Shutdown, PcIsControl, DriverHand, ChannelsGivenUp, BackendEnding, QueueClosed,
            EventsEnding, OneCloser, CloserWaited, Results, EventsClosed, ErrorsClosed,
            DriverDone
<1> USE DEF Threads, RunBackend, RunEvents, AllLabels, CallerLabels, BackendLabels,
            EventsLabels, CallLabels, Ending, Closing, Handling, Goto
<1> USE DEF Return, Rest, Ready, Calls
<1> USE DEF queueVars, drvVars, drvRegistry, drvRun, callVars, closeVars, loopVars, history
<1>1. CASE AddRejected(t)
  BY <1>1 DEF AddRejected
<1>2. CASE \E look \in Lookups : AddBegin(t, look)
  BY <1>2 DEF AddBegin
<1>3. CASE AddToIndex(t)
  BY <1>3 DEF AddToIndex
<1>4. CASE AddRegister(t)
  BY <1>4 DEF AddRegister
<1>5. CASE AddDuplicate(t)
  BY <1>5 DEF AddDuplicate
<1>6. CASE AddClosed(t)
  BY <1>6 DEF AddClosed
<1>7. CASE AddEnrolled(t)
  BY <1>7 DEF AddEnrolled
<1>8. CASE AddEnrollFails(t)
  BY <1>8 DEF AddEnrollFails
<1>9. CASE AddCleanup(t)
  BY <1>9 DEF AddCleanup
<1>10. CASE AddRollback(t)
  BY <1>10 DEF AddRollback
<1> QED
  BY <1>1, <1>2, <1>3, <1>4, <1>5, <1>6, <1>7, <1>8, <1>9, <1>10 DEF AddStep

(* Remove: neither is any of its. *)
LEMMA ShutdownRemove ==
    ASSUME Shutdown, NEW t \in Threads, RemoveRejected(t) \/ (\E path \in Inputs[t] : RemoveBegin(t, path)) \/ RemoveStep(t)
    PROVE  Shutdown'
<1> USE DEF Shutdown, PcIsControl, DriverHand, ChannelsGivenUp, BackendEnding, QueueClosed,
            EventsEnding, OneCloser, CloserWaited, Results, EventsClosed, ErrorsClosed,
            DriverDone
<1> USE DEF Threads, RunBackend, RunEvents, AllLabels, CallerLabels, BackendLabels,
            EventsLabels, CallLabels, Ending, Closing, Handling, Goto
<1> USE DEF Return, Rest, Ready, Calls
<1> USE DEF queueVars, drvVars, drvRegistry, drvRun, callVars, closeVars, loopVars, history
<1>1. CASE RemoveRejected(t)
  BY <1>1 DEF RemoveRejected
<1>2. CASE \E path \in Inputs[t] : RemoveBegin(t, path)
  BY <1>2 DEF RemoveBegin
<1>3. CASE RemoveFromIndex(t)
  BY <1>3 DEF RemoveFromIndex
<1>4. CASE RemoveNotIndexed(t)
  BY <1>4 DEF RemoveNotIndexed
<1>5. CASE RemoveFromDriver(t)
  BY <1>5 DEF RemoveFromDriver
<1>6. CASE RemoveNotRegistered(t)
  BY <1>6 DEF RemoveNotRegistered
<1> QED
  BY <1>1, <1>2, <1>3, <1>4, <1>5, <1>6 DEF RemoveStep

(* Close waits for one part after the other. *)
LEMMA ShutdownClose ==
    ASSUME Shutdown, NEW t \in Threads, CloseBegin(t) \/ CloseStep(t)
    PROVE  Shutdown'
<1> USE DEF Shutdown, PcIsControl, DriverHand, ChannelsGivenUp, BackendEnding, QueueClosed,
            EventsEnding, OneCloser, CloserWaited, Results, EventsClosed, ErrorsClosed,
            DriverDone
<1> USE DEF Threads, RunBackend, RunEvents, AllLabels, CallerLabels, BackendLabels,
            EventsLabels, CallLabels, Ending, Closing, Handling, Goto
<1> USE DEF Return, Rest, Ready, Calls
<1> USE DEF queueVars, drvVars, drvRegistry, drvRun, callVars, closeVars, loopVars, history
<1>1. CASE CloseBegin(t)
  BY <1>1 DEF CloseBegin
<1>2. CASE CloseFlag(t)
  BY <1>2 DEF CloseFlag
<1>3. CASE CloseDriver(t)
  BY <1>3 DEF CloseDriver, DriverClose
<1>4. CASE CloseStopped(t)
  BY <1>4 DEF CloseStopped
<1>5. CASE CloseBackend(t)
  BY <1>5 DEF CloseBackend
<1>6. CASE CloseEvents(t)
  BY <1>6 DEF CloseEvents
<1>7. CASE CloseReturn(t)
  BY <1>7 DEF CloseReturn
<1> QED
  BY <1>1, <1>2, <1>3, <1>4, <1>5, <1>6, <1>7 DEF CloseStep

(* runBackend drains its channels and only then closes the queue. *)
LEMMA ShutdownRunBackend ==
    ASSUME Shutdown, RunBackendStep
    PROVE  Shutdown'
<1> USE DEF Shutdown, PcIsControl, DriverHand, ChannelsGivenUp, BackendEnding, QueueClosed,
            EventsEnding, OneCloser, CloserWaited, Results, EventsClosed, ErrorsClosed,
            DriverDone
<1> USE DEF Threads, RunBackend, RunEvents, AllLabels, CallerLabels, BackendLabels,
            EventsLabels, CallLabels, Ending, Closing, Handling, Goto
<1> USE DEF queueVars, drvVars, drvRegistry, drvRun, callVars, closeVars, loopVars, history
<1>1. CASE SelectEvent
  BY <1>1 DEF SelectEvent, ReceiveEvent
<1>2. CASE SelectEventsEnd
  BY <1>2 DEF SelectEventsEnd, EventsEnded
<1>3. CASE SelectError
  BY <1>3 DEF SelectError, ReceiveError
<1>4. CASE SelectErrorsEnd
  BY <1>4 DEF SelectErrorsEnd, ErrorsEnded
<1>5. CASE OnErrorReturns
  BY <1>5 DEF OnErrorReturns
<1>6. CASE HandleMove
  BY <1>6 DEF HandleMove
<1>7. CASE HandleMatch
  BY <1>7 DEF HandleMatch, Forward, Drop
<1>8. CASE HandleMatchOld
  BY <1>8 DEF HandleMatchOld, Forward, Drop
<1>9. CASE HandlePush
  BY <1>9 DEF HandlePush, PushRefusedByFlag
<1>10. CASE HandlePushSelect
  BY <1>10 DEF HandlePushSelect, PushSend, PushAbort, queueVars
<1>11. CASE BackendLoopEnds
  BY <1>11 DEF BackendLoopEnds
<1>12. CASE BackendQueueFlag
  BY <1>12 DEF BackendQueueFlag, CloseSetFlag
<1>13. CASE BackendQueueDone
  BY <1>13 DEF BackendQueueDone, CloseDone
<1>14. CASE BackendExits
  BY <1>14 DEF BackendExits
<1> QED
  BY <1>1, <1>2, <1>3, <1>4, <1>5, <1>6, <1>7, <1>8, <1>9, <1>10, <1>11, <1>12, <1>13,
     <1>14 DEF RunBackendStep

(* runEvents drains the queue. *)
LEMMA ShutdownRunEvents ==
    ASSUME Shutdown, RunEventsStep
    PROVE  Shutdown'
<1> USE DEF Shutdown, PcIsControl, DriverHand, ChannelsGivenUp, BackendEnding, QueueClosed,
            EventsEnding, OneCloser, CloserWaited, Results, EventsClosed, ErrorsClosed,
            DriverDone
<1> USE DEF Threads, RunBackend, RunEvents, AllLabels, CallerLabels, BackendLabels,
            EventsLabels, CallLabels, Ending, Closing, Handling, Goto
<1> USE DEF queueVars, drvVars, drvRegistry, drvRun, callVars, closeVars, loopVars, history
<1>1. CASE EventsPop
  BY <1>1 DEF EventsPop, PopValue
<1>2. CASE OnEventReturns
  BY <1>2 DEF OnEventReturns
<1>3. CASE OnEventPanics
  BY <1>3 DEF OnEventPanics
<1>4. CASE ReportReturns
  BY <1>4 DEF ReportReturns
<1>5. CASE EventsEnd
  BY <1>5 DEF EventsEnd, PopEnd, queueVars
<1>6. CASE EventsExit
  BY <1>6 DEF EventsExit
<1> QED
  BY <1>1, <1>2, <1>3, <1>4, <1>5, <1>6 DEF RunEventsStep

(* The backend sends nothing after it has closed its channels. *)
LEMMA ShutdownDriver ==
    ASSUME Shutdown, BackendObserves \/ DriverRuns \/ BackendFails
    PROVE  Shutdown'
<1> USE DEF Shutdown, PcIsControl, DriverHand, ChannelsGivenUp, BackendEnding, QueueClosed,
            EventsEnding, OneCloser, CloserWaited, Results, EventsClosed, ErrorsClosed,
            DriverDone
<1> USE DEF Threads, RunBackend, RunEvents, AllLabels, CallerLabels, BackendLabels,
            EventsLabels, CallLabels, Ending, Closing, Handling, Goto
<1> USE DEF queueVars, drvVars, drvRegistry, drvRun, callVars, closeVars, loopVars, history
<1>1. CASE BackendObserves
  BY <1>1 DEF BackendObserves, DriverObserve
<1>2. CASE DriverRuns /\ DriverEmit
  BY <1>2 DEF DriverRuns, DriverEmit
<1>3. CASE DriverRuns /\ DriverLeave
  BY <1>3 DEF DriverRuns, DriverLeave
<1>4. CASE DriverRuns /\ DriverExit
  BY <1>4 DEF DriverRuns, DriverExit
<1>5. CASE BackendFails
  BY <1>5 DEF BackendFails, DriverError
<1> QED
  BY <1>1, <1>2, <1>3, <1>4, <1>5 DEF DriverRuns

LEMMA ShutdownStep == Shutdown /\ [Next]_vars => Shutdown'
<1> SUFFICES ASSUME Shutdown, [Next]_vars PROVE Shutdown'
  OBVIOUS
<1>1. CASE \E t \in Threads : BeginCall(t) \/ CallStep(t)
  BY <1>1, ShutdownAdd, ShutdownRemove, ShutdownClose DEF BeginCall, CallStep
<1>2. CASE RunBackendStep
  BY <1>2, ShutdownRunBackend
<1>3. CASE RunEventsStep
  BY <1>3, ShutdownRunEvents
<1>4. CASE BackendObserves \/ DriverRuns \/ BackendFails
  BY <1>4, ShutdownDriver
<1>5. CASE UNCHANGED vars
  BY <1>5 DEF vars, queueVars, drvVars, drvRegistry, drvRun, callVars, closeVars, loopVars, history,
              Shutdown, PcIsControl, DriverHand, ChannelsGivenUp, BackendEnding, QueueClosed,
              EventsEnding, OneCloser, CloserWaited, Results, EventsClosed, ErrorsClosed,
              DriverDone
<1> QED
  BY <1>1, <1>2, <1>3, <1>4, <1>5 DEF Next

(***************************************************************************)
(* What each stage of Close presupposes of the goroutines that ended       *)
(* before it holds at every step, whatever the callbacks call.             *)
(***************************************************************************)
THEOREM ShutdownInvariant == Spec => []Shutdown
<1> QED
  BY ShutdownInit, ShutdownStep, PTL DEF Spec

(***************************************************************************)
(* Close waits for in-flight dispatch to drain: once any Close has         *)
(* returned, the three goroutines are gone and nothing waits anywhere.     *)
(***************************************************************************)
THEOREM CloseDrains == Spec => []CloseMeansDrained
<1>1. Shutdown => CloseMeansDrained
  BY DEF Shutdown, DriverHand, ChannelsGivenUp, BackendEnding, QueueClosed, EventsEnding,
         CloserWaited, Results, CloseMeansDrained, DriverDone, Ending, Handling
<1> QED
  BY <1>1, ShutdownInvariant, PTL

(***************************************************************************)
(* Every Close returns the same error, also when calls overlap.            *)
(***************************************************************************)
THEOREM CloseAgrees == Spec => []CloseErrorStable
<1>1. Shutdown => CloseErrorStable
  BY DEF Shutdown, Results, CloseErrorStable
<1> QED
  BY <1>1, ShutdownInvariant, PTL

(***************************************************************************)
(* runBackend never meets a closed queue with an event in its hands, so    *)
(* ignoring what Push returns loses none.                                  *)
(***************************************************************************)
THEOREM PushIsNeverRefused == Spec => []QueueOpenWhileHandling
<1>1. Shutdown => QueueOpenWhileHandling
  BY DEF Shutdown, BackendEnding, QueueClosed, QueueOpenWhileHandling, Handling
<1> QED
  BY <1>1, ShutdownInvariant, PTL

----------------------------------------------------------------------------
(* The inductive invariant, in parts. *)

Hands == {<<>>} \cup {<<evt>> : evt \in Events}

ChannelsTyped ==
    /\ events \in Seq(Events) /\ ch \in Seq(Events)
    /\ hand \in Hands /\ drvHand \in Hands

(* While handleBackendEvent runs, its event is in the hand. *)
HandIsFull ==
    /\ pc[RunBackend] \in Handling => hand # <<>>
    /\ drvPc = "emit" => drvHand # <<>>

(* What it knows of the event at the points where it has branched on it. *)
HandIsChecked ==
    /\ pc[RunBackend] = "matchOld" => hand[1].op # "overflow"
    /\ pc[RunBackend] \in {"push", "pushSelect"} => Permitted(hand[1])

Carried == Shutdown /\ ChannelsTyped /\ HandIsFull /\ HandIsChecked

LEMMA HandsAreSequences == Hands \subseteq Seq(Events)
<1>1. \A evt \in Events : <<evt>> \in Seq(Events)
  OBVIOUS
<1> QED BY <1>1, EmptySeq DEF Hands

LEMMA CarriedInit == Init => Carried
<1> SUFFICES ASSUME Init PROVE Carried
  OBVIOUS
<1>1. pc[RunBackend] = "select"
  BY DEF Init, Threads, RunBackend
<1>2. ChannelsTyped
  BY EmptySeq DEF Init, QueueInit, DriverInit, ChannelsTyped, Hands
<1>3. HandIsFull /\ HandIsChecked
  BY <1>1 DEF Init, DriverInit, HandIsFull, HandIsChecked, Handling
<1> QED BY <1>2, <1>3, ShutdownInit DEF Carried

LEMMA CallersApart == RunBackend \notin Callers /\ RunEvents \notin Callers
BY WatcherAssumption

(* Calls leave the way of the events alone; a call that OnError makes keeps *)
(* runBackend outside handleBackendEvent.                                   *)
CallsApart ==
    /\ UNCHANGED <<events, ch, hand, drvHand, drvPc, delivered>>
    /\ pc'[RunBackend] = pc[RunBackend] \/ pc'[RunBackend] \in CallLabels \cup {"called"}

LEMMA CallsAreApart ==
    ASSUME PcIsControl, NEW t \in Threads, BeginCall(t) \/ CallStep(t)
    PROVE  CallsApart
<1> USE CallersApart
<1> USE DEF PcIsControl, CallsApart, CallLabels, Threads, RunBackend, RunEvents, Goto, Return, Rest,
            queueVars, drvVars, drvRegistry, drvRun, callVars, closeVars, loopVars, history
<1>1. CASE AddRejected(t) \/ RemoveRejected(t) \/ CloseBegin(t)
  BY <1>1 DEF AddRejected, RemoveRejected, CloseBegin
<1>2. CASE \E look \in Lookups : AddBegin(t, look)
  BY <1>2 DEF AddBegin
<1>3. CASE \E path \in Inputs[t] : RemoveBegin(t, path)
  BY <1>3 DEF RemoveBegin
<1>4. CASE AddStep(t)
  BY <1>4 DEF AddStep, AddToIndex, AddRegister, AddDuplicate, AddClosed, AddEnrolled,
              AddEnrollFails, AddCleanup, AddRollback
<1>5. CASE RemoveStep(t)
  BY <1>5 DEF RemoveStep, RemoveFromIndex, RemoveNotIndexed, RemoveFromDriver, RemoveNotRegistered
<1>6. CASE CloseStep(t)
  BY <1>6 DEF CloseStep, CloseFlag, CloseDriver, CloseStopped, CloseBackend, CloseEvents, CloseReturn
<1> QED BY <1>1, <1>2, <1>3, <1>4, <1>5, <1>6 DEF BeginCall, CallStep

----------------------------------------------------------------------------
(* Every step keeps the invariant.  The shutdown part is ShutdownStep's. *)

LEMMA CarriedBackendStep ==
    ASSUME Carried, RunBackendStep
    PROVE  (ChannelsTyped /\ HandIsFull /\ HandIsChecked)'
<1> USE DEF Carried, Shutdown, PcIsControl, ChannelsTyped, HandIsFull, HandIsChecked, Hands,
            Handling, Goto, RunBackend, Threads,
            queueVars, drvVars, drvRegistry, drvRun, callVars, closeVars, loopVars, history
<1>1. CASE SelectEvent
  <2>1. Head(events) \in Events /\ Tail(events) \in Seq(Events)
    BY <1>1, HeadTailProperties DEF SelectEvent, ReceiveEvent
  <2> QED BY <1>1, <2>1 DEF SelectEvent, ReceiveEvent
<1>2. CASE SelectEventsEnd \/ SelectError \/ SelectErrorsEnd \/ OnErrorReturns
  BY <1>2 DEF SelectEventsEnd, SelectError, ReceiveError, SelectErrorsEnd, OnErrorReturns
<1>3. CASE HandleMove
  BY <1>3 DEF HandleMove
<1>4. CASE HandleMatch
  BY <1>4 DEF HandleMatch, Forward, Drop
<1>5. CASE HandleMatchOld
  BY <1>5 DEF HandleMatchOld, Forward, Drop
<1>6. CASE HandlePush
  BY <1>6 DEF HandlePush, PushRefusedByFlag
<1>7. CASE HandlePushSelect
  <2>1. hand[1] \in Events
    BY <1>7 DEF HandlePushSelect
  <2>2. Append(ch, hand[1]) \in Seq(Events)
    BY <2>1, AppendProperties
  <2> QED BY <1>7, <2>2 DEF HandlePushSelect, PushSend, PushAbort
<1>8. CASE BackendLoopEnds \/ BackendQueueFlag \/ BackendQueueDone \/ BackendExits
  BY <1>8 DEF BackendLoopEnds, BackendQueueFlag, BackendQueueDone, BackendExits, CloseSetFlag,
              CloseDone
<1> QED
  BY <1>1, <1>2, <1>3, <1>4, <1>5, <1>6, <1>7, <1>8 DEF RunBackendStep

LEMMA CarriedEventsStep ==
    ASSUME Carried, RunEventsStep
    PROVE  (ChannelsTyped /\ HandIsFull /\ HandIsChecked)'
<1> USE DEF Carried, Shutdown, PcIsControl, ChannelsTyped, HandIsFull, HandIsChecked, Hands,
            Handling, Goto, RunBackend, RunEvents, Threads,
            queueVars, drvVars, drvRegistry, drvRun, callVars, closeVars, loopVars, history
<1>1. CASE EventsPop
  <2>1. Tail(ch) \in Seq(Events)
    BY <1>1, HeadTailProperties DEF EventsPop, PopValue
  <2> QED BY <1>1, <2>1 DEF EventsPop, PopValue
<1>2. CASE OnEventReturns \/ OnEventPanics \/ ReportReturns \/ EventsEnd \/ EventsExit
  BY <1>2 DEF OnEventReturns, OnEventPanics, ReportReturns, EventsEnd, EventsExit, PopEnd
<1> QED BY <1>1, <1>2 DEF RunEventsStep

LEMMA CarriedDriverStep ==
    ASSUME Carried, BackendObserves \/ DriverRuns \/ BackendFails
    PROVE  (ChannelsTyped /\ HandIsFull /\ HandIsChecked)'
<1> USE DEF Carried, ChannelsTyped, HandIsFull, HandIsChecked, Hands, Handling,
            queueVars, drvVars, drvRegistry, drvRun, callVars, closeVars, loopVars, history
<1>1. CASE BackendObserves
  BY <1>1 DEF BackendObserves, DriverObserve
<1>2. CASE DriverRuns /\ DriverEmit
  <2>1. events \in Seq(Events) /\ drvHand \in Seq(Events)
    BY HandsAreSequences
  <2>2. events \o drvHand \in Seq(Events)
    BY <2>1, ConcatProperties, Zenon
  <2> QED BY <1>2, <2>2 DEF DriverRuns, DriverEmit
<1>3. CASE DriverRuns /\ (DriverLeave \/ DriverExit)
  BY <1>3 DEF DriverRuns, DriverLeave, DriverExit
<1>4. CASE BackendFails
  BY <1>4 DEF BackendFails, DriverError
<1> QED BY <1>1, <1>2, <1>3, <1>4 DEF DriverRuns

LEMMA CarriedStep == Carried /\ [Next]_vars => Carried'
<1> SUFFICES ASSUME Carried, [Next]_vars
             PROVE  (ChannelsTyped /\ HandIsFull /\ HandIsChecked)'
  BY ShutdownStep DEF Carried
<1>1. CASE \E t \in Threads : BeginCall(t) \/ CallStep(t)
  <2>1. CallsApart
    BY <1>1, CallsAreApart DEF Carried, Shutdown
  <2> QED
    BY <2>1 DEF CallsApart, CallLabels, Carried, ChannelsTyped, HandIsFull, HandIsChecked, Handling
<1>2. CASE RunBackendStep
  BY <1>2, CarriedBackendStep
<1>3. CASE RunEventsStep
  BY <1>3, CarriedEventsStep
<1>4. CASE BackendObserves \/ DriverRuns \/ BackendFails
  BY <1>4, CarriedDriverStep
<1>5. CASE UNCHANGED vars
  BY <1>5 DEF vars, queueVars, drvVars, drvRun, loopVars,
              Carried, ChannelsTyped, HandIsFull, HandIsChecked
<1> QED
  BY <1>1, <1>2, <1>3, <1>4, <1>5 DEF Next

----------------------------------------------------------------------------
(* The step of EventDelivery that each step of the watcher is. *)

Untouched == UNCHANGED <<events, ch, hand, delivered, once>>

LEMMA UntouchedStutters == Untouched => UNCHANGED Delivery!vars
BY DEF Untouched, Delivery!vars

(* A call moves events only as far as Close declares the watcher shut. *)
LEMMA CallsImplement ==
    ASSUME Carried, NEW t \in Threads, BeginCall(t) \/ CallStep(t)
    PROVE  [Delivery!Next]_Delivery!vars
<1> USE DEF queueVars, drvVars, callVars, closeVars, loopVars, history
<1>1. UNCHANGED <<events, ch, hand, delivered>>
  BY CallsAreApart DEF CallsApart, Carried, Shutdown
<1>2. CASE CloseEvents(t)
  <2>1. once' = "done"
    BY <1>2 DEF CloseEvents
  <2>2. pc[RunBackend] = "exited" /\ pc[RunEvents] = "exited"
    BY <1>2 DEF CloseEvents, Carried, Shutdown, CloserWaited, QueueClosed, EventsEnding
  <2>3. events = <<>> /\ hand = <<>> /\ ch = <<>>
    BY <2>2 DEF Carried, Shutdown, BackendEnding, ChannelsGivenUp, EventsEnding, Ending, Handling
  <2>4. Delivery!Shut
    BY <1>1, <2>1, <2>3 DEF Delivery!Shut
  <2> QED BY <2>4 DEF Delivery!Next
<1>3. CASE CloseBegin(t)
  <2>1. (once' = "done") <=> (once = "done")
    BY <1>3 DEF CloseBegin
  <2> QED BY <1>1, <2>1 DEF Delivery!vars
<1>4. CASE ~CloseEvents(t) /\ ~CloseBegin(t)
  <2>1. once' = once
    BY <1>4 DEF BeginCall, CallStep, AddStep, RemoveStep, CloseStep,
         AddRejected, AddBegin, AddToIndex, AddRegister, AddDuplicate, AddClosed, AddEnrolled,
         AddEnrollFails, AddCleanup, AddRollback,
         RemoveRejected, RemoveBegin, RemoveFromIndex, RemoveNotIndexed, RemoveFromDriver,
         RemoveNotRegistered, CloseFlag, CloseDriver, CloseStopped, CloseBackend, CloseReturn
  <2> QED BY <1>1, <2>1, UntouchedStutters DEF Untouched
<1> QED BY <1>2, <1>3, <1>4

(* handleBackendEvent accepts or drops the event at the backlog's head. *)
LEMMA BackendImplements ==
    ASSUME Carried, RunBackendStep
    PROVE  [Delivery!Next]_Delivery!vars
<1> USE DEF queueVars, drvVars, callVars, closeVars, loopVars, history
<1>1. ASSUME pc[RunBackend] \in Handling
      PROVE  /\ hand = <<hand[1]>> /\ hand[1] \in Events /\ ~qClosed /\ ~qDone
             /\ hand \o events # <<>>
             /\ Head(hand \o events) = hand[1] /\ Tail(hand \o events) = <<>> \o events
  <2>1. hand # <<>> /\ hand \in Hands /\ events \in Seq(Events)
    BY <1>1 DEF Carried, HandIsFull, ChannelsTyped
  <2>2. PICK evt \in Events : hand = <<evt>>
    BY <2>1 DEF Hands
  <2>3. ~qClosed /\ ~qDone
    BY <1>1 DEF Carried, Shutdown, QueueClosed, Handling
  <2> QED BY <2>1, <2>2, <2>3
<1>2. CASE SelectEvent
  <2>1. hand = <<>> /\ events # <<>> /\ events \in Seq(Events)
    BY <1>2 DEF SelectEvent, ReceiveEvent, Carried, Shutdown, BackendEnding, Handling, ChannelsTyped
  <2>2. hand' = <<Head(events)>> /\ events' = Tail(events) /\ UNCHANGED <<ch, delivered, once>>
    BY <1>2 DEF SelectEvent, ReceiveEvent
  <2>3. <<Head(events)>> \o Tail(events) = <<>> \o events
    BY <2>1
  <2> QED BY <2>1, <2>2, <2>3 DEF Delivery!vars
<1>3. ASSUME pc[RunBackend] \in Handling, hand[1].op # "overflow", hand' = <<>>,
             UNCHANGED <<events, ch, delivered, once>>
      PROVE  Delivery!Next
  <2>1. Delivery!Drop
    BY <1>1, <1>3 DEF Delivery!Drop, IsOverflow
  <2> QED BY <2>1 DEF Delivery!Next
<1>4. ASSUME pc[RunBackend] \in Handling, hand[1].op = "overflow"
      PROVE  Permitted(hand[1])
  BY <1>1, <1>4, OverflowAssumption DEF Permitted
<1>5. CASE HandleMatch
  <2>1. pc[RunBackend] \in Handling /\ UNCHANGED <<events, ch, delivered, once>>
    BY <1>5 DEF HandleMatch, Handling
  <2>2. hand' = hand \/ (hand' = <<>> /\ hand[1].op # "overflow")
    BY <1>4, <1>5, <2>1 DEF HandleMatch, Forward, Drop
  <2> QED BY <1>3, <2>1, <2>2, UntouchedStutters DEF Untouched
<1>6. CASE HandleMatchOld
  <2>1. pc[RunBackend] \in Handling /\ UNCHANGED <<events, ch, delivered, once>>
    BY <1>6 DEF HandleMatchOld, Handling
  <2>2. hand' = hand \/ hand' = <<>>
    BY <1>6 DEF HandleMatchOld, Forward, Drop
  <2>3. hand[1].op # "overflow"
    BY <1>6 DEF HandleMatchOld, Carried, HandIsChecked
  <2> QED BY <1>3, <2>1, <2>2, <2>3, UntouchedStutters DEF Untouched
<1>7. CASE HandlePush
  <2>1. ~qClosed
    BY <1>1, <1>7 DEF HandlePush, Handling
  <2> QED BY <1>7, <2>1, UntouchedStutters DEF HandlePush, PushRefusedByFlag, Untouched
<1>8. CASE HandlePushSelect
  <2>1. pc[RunBackend] \in Handling /\ Permitted(hand[1])
    BY <1>8 DEF HandlePushSelect, Handling, Carried, HandIsChecked
  <2>2. /\ ch' = Append(ch, hand[1]) /\ hand' = <<>>
        /\ UNCHANGED <<events, delivered, once>>
    BY <1>1, <1>8, <2>1 DEF HandlePushSelect, PushSend, PushAbort
  <2>3. Delivery!Accept
    BY <1>1, <2>1, <2>2 DEF Delivery!Accept
  <2> QED BY <2>3 DEF Delivery!Next
<1>9. CASE \/ SelectEventsEnd \/ SelectError \/ SelectErrorsEnd \/ OnErrorReturns \/ HandleMove
           \/ BackendLoopEnds \/ BackendQueueFlag \/ BackendQueueDone \/ BackendExits
  <2>1. Untouched
    BY <1>9 DEF Untouched, SelectEventsEnd, SelectError, ReceiveError, SelectErrorsEnd,
         OnErrorReturns, HandleMove, BackendLoopEnds, BackendQueueFlag, BackendQueueDone,
         BackendExits, CloseSetFlag, CloseDone
  <2> QED BY <2>1, UntouchedStutters
<1> QED
  BY <1>2, <1>5, <1>6, <1>7, <1>8, <1>9 DEF RunBackendStep

(* OnEvent gets the event at the queue's head. *)
LEMMA EventsImplement ==
    ASSUME Carried, RunEventsStep
    PROVE  [Delivery!Next]_Delivery!vars
<1> USE DEF queueVars, drvVars, callVars, closeVars, loopVars, history
<1>1. CASE EventsPop
  <2>1. Delivery!Deliver
    BY <1>1 DEF EventsPop, PopValue, Delivery!Deliver
  <2> QED BY <2>1 DEF Delivery!Next
<1>2. CASE OnEventReturns \/ OnEventPanics \/ ReportReturns \/ EventsEnd \/ EventsExit
  <2>1. Untouched
    BY <1>2 DEF Untouched, OnEventReturns, OnEventPanics, ReportReturns, EventsEnd, EventsExit, PopEnd
  <2> QED BY <2>1, UntouchedStutters
<1> QED BY <1>1, <1>2 DEF RunEventsStep

(* The backend reports what it sends, and never once the watcher is shut. *)
LEMMA DriverImplements ==
    ASSUME Carried, BackendObserves \/ DriverRuns \/ BackendFails
    PROVE  [Delivery!Next]_Delivery!vars
<1> USE DEF queueVars, drvVars, drvRegistry, drvRun, callVars, closeVars, loopVars, history
<1>1. CASE DriverRuns /\ DriverEmit
  <2>1. drvPc = "emit" /\ UNCHANGED <<hand, ch, delivered, once>>
    BY <1>1 DEF DriverRuns, DriverEmit
  <2>2. PICK evt \in Events : drvHand = <<evt>>
    BY <2>1 DEF Carried, HandIsFull, ChannelsTyped, Hands
  <2>3. events' = Append(events, evt)
    BY <1>1, <2>2, AppendIsConcat DEF DriverRuns, DriverEmit, Carried, ChannelsTyped
  <2>4. hand \o Append(events, evt) = Append(hand \o events, evt)
    BY <2>2 DEF Carried, ChannelsTyped, Hands
  <2>5. once # "done"
    BY <2>1 DEF Carried, Shutdown, CloserWaited, DriverDone
  <2>6. Delivery!Report(evt)
    BY <2>1, <2>3, <2>4, <2>5 DEF Delivery!Report
  <2> QED BY <2>6 DEF Delivery!Next
<1>2. CASE BackendObserves \/ (DriverRuns /\ (DriverLeave \/ DriverExit)) \/ BackendFails
  <2>1. Untouched
    BY <1>2 DEF Untouched, BackendObserves, DriverObserve, DriverRuns, DriverLeave, DriverExit,
         BackendFails, DriverError
  <2> QED BY <2>1, UntouchedStutters
<1> QED BY <1>1, <1>2 DEF DriverRuns

(***************************************************************************)
(* The watcher implements EventDelivery: every event the backend sends is  *)
(* accepted or dropped in its turn, an overflow is never dropped, OnEvent  *)
(* gets the accepted ones once each and in order, and Close returns only   *)
(* when nothing waits.                                                     *)
(***************************************************************************)
THEOREM WatcherDelivers == Spec => ImplementsDelivery
<1>1. Init => Delivery!Init
  <2>1. <<>> \o <<>> = <<>>
    BY ConcatEmptySeq, EmptySeq
  <2> QED BY <2>1 DEF Init, QueueInit, DriverInit, Delivery!Init
<1>2. Carried /\ [Next]_vars => [Delivery!Next]_Delivery!vars
  <2> SUFFICES ASSUME Carried, [Next]_vars PROVE [Delivery!Next]_Delivery!vars
    OBVIOUS
  <2>1. CASE UNCHANGED vars
    BY <2>1, UntouchedStutters
       DEF Untouched, vars, queueVars, drvVars, closeVars, loopVars, history
  <2> QED
    BY <2>1, CallsImplement, BackendImplements, EventsImplement, DriverImplements DEF Next
<1> QED
  BY <1>1, <1>2, CarriedInit, CarriedStep, PTL DEF Spec, ImplementsDelivery, Delivery!Spec
============================================================================
