------------------------------- MODULE Driver -------------------------------
(***************************************************************************)
(* The backend.Watcher interface as the watcher sees it: a registry of     *)
(* roots under a mutex, one goroutine that observes changes and reports    *)
(* them, a buffered channel of events, a buffered channel of errors, and   *)
(* a Close that waits for the goroutine.  The control is that of           *)
(* internal/backend/backend_linux.go; what the kernel reports is left      *)
(* open: the goroutine may observe any event.                              *)
(*                                                                         *)
(* The module that composes it supplies the goroutines that call Add,      *)
(* Remove and Close.                                                       *)
(***************************************************************************)
EXTENDS Sequences, Integers

CONSTANTS EventBuffer,   \* capacity of the events channel, max(QueueCapacity, 64)
          ErrorBuffer    \* capacity of the errors channel, 64

ASSUME BufferAssumption == EventBuffer \in Nat /\ ErrorBuffer \in Nat

VARIABLES drvRoots,    \* keys of linuxWatcher.roots
          drvClosed,   \* linuxWatcher.closed
          drvPc,       \* control of run()
          drvHand,     \* the event run() has observed and not yet sent
          events,      \* the events channel
          errs         \* how many errors the errors channel holds

drvRegistry == <<drvRoots, drvClosed>>
drvRun      == <<drvPc, drvHand>>
drvVars     == <<drvRegistry, drvRun, events, errs>>

DriverInit ==
    /\ drvRoots = {} /\ drvClosed = FALSE
    /\ drvPc = "run" /\ drvHand = <<>>
    /\ events = <<>> /\ errs = 0

----------------------------------------------------------------------------
(* Add, its first critical section: a closed driver refuses, a root that is
   already there is done, a new one is registered before it is enrolled. *)
DriverRegister(path) == drvRoots' = drvRoots \cup {path} /\ UNCHANGED drvClosed

(* Remove; also what Add does about a root whose enrollment failed.  A path
   that is no root is reported and changes nothing. *)
DriverRemove(path) == drvRoots' = drvRoots \ {path} /\ UNCHANGED drvClosed

(* Close up to its wait: the flag is set and the descriptor is closed, on
   which run() notices. *)
DriverClose == drvClosed' = TRUE /\ UNCHANGED drvRoots

----------------------------------------------------------------------------
(* run() has read something and computed an event from it; it holds no lock
   from here until the event is sent. *)
DriverObserve(evt) ==
    /\ drvPc = "run"
    /\ drvHand' = <<evt>>
    /\ drvPc' = "emit"
    /\ UNCHANGED <<drvRegistry, events, errs>>

(* emitEvent blocks until the channel has room: the backpressure of a slow
   OnEvent reaches the kernel queue through here. *)
DriverEmit ==
    /\ drvPc = "emit"
    /\ Len(events) < EventBuffer
    /\ events' = events \o drvHand
    /\ drvHand' = <<>>
    /\ drvPc' = "run"
    /\ UNCHANGED <<drvRegistry, errs>>

(* poll or read fails on an open descriptor.  emitError never blocks: with
   the channel full the error is dropped. *)
DriverError ==
    /\ drvPc = "run" /\ ~drvClosed
    /\ errs' = IF errs < ErrorBuffer THEN errs + 1 ELSE errs
    /\ UNCHANGED <<drvRegistry, drvRun, events>>

(* Mutant of DriverLeave: run() leaves its loop on any failed read. *)
MutantLeaveUnclosed ==
    /\ drvPc = "run"
    /\ drvPc' = "close_events"
    /\ UNCHANGED <<drvRegistry, drvHand, events, errs>>

(* poll or read fails and isClosed() holds: run() leaves its loop and its
   deferred function closes events, errors and done, in this order. *)
DriverLeave ==
    /\ drvPc = "run" /\ drvClosed
    /\ drvPc' = "close_events"
    /\ UNCHANGED <<drvRegistry, drvHand, events, errs>>

DriverExit ==
    /\ \/ drvPc = "close_events" /\ drvPc' = "close_errors"
       \/ drvPc = "close_errors" /\ drvPc' = "close_done"
       \/ drvPc = "close_done"   /\ drvPc' = "done"
    /\ UNCHANGED <<drvRegistry, drvHand, events, errs>>

EventsClosed == drvPc \in {"close_errors", "close_done", "done"}
ErrorsClosed == drvPc \in {"close_done", "done"}
DriverDone   == drvPc = "done"

----------------------------------------------------------------------------
(* The watcher's ends of the two channels.  A closed channel still hands
   out what it holds. *)
ReceiveEvent(evt) ==
    /\ events # <<>>
    /\ evt = Head(events)
    /\ events' = Tail(events)
    /\ UNCHANGED <<drvRegistry, drvRun, errs>>

ReceiveError ==
    /\ errs > 0
    /\ errs' = errs - 1
    /\ UNCHANGED <<drvRegistry, drvRun, events>>

EventsEnded == EventsClosed /\ events = <<>>
ErrorsEnded == ErrorsClosed /\ errs = 0
=============================================================================
