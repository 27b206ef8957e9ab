------------------------- MODULE WatcherProperties -------------------------
(***************************************************************************)
(* What must hold of the watcher.                                          *)
(***************************************************************************)
EXTENDS Watcher, FiniteSets

CallLabels == {"addIndex", "addDriver", "addEnroll", "addCleanup", "addRollback",
               "removeIndex", "removeDriver",
               "closeFlag", "closeDriver", "closeStopping", "closeBackend",
               "closeEvents", "closeAwait"}

CallerLabels == {"idle"} \cup CallLabels
BackendLabels == {"select", "onError", "called", "move", "match", "matchOld", "push",
                  "pushSelect", "queueFlag", "queueDone", "leaving", "exited"} \cup CallLabels
EventsLabels == {"pop", "onEvent", "called", "report", "leaving", "exited"} \cup CallLabels

Labels(t) == IF t = RunBackend THEN BackendLabels
             ELSE IF t = RunEvents THEN EventsLabels ELSE CallerLabels

AllLabels == CallerLabels \cup BackendLabels \cup EventsLabels

IndexType ==
    /\ DOMAIN idx = {"roots", "recursiveDirs", "flatDirs", "fileRoots"}
    /\ RootKeys(idx) \subseteq AllPaths
    /\ idx = Rebuild(idx.roots)
    /\ \A k \in RootKeys(idx) : idx.roots[k] \in AllRoots

TypeOK ==
    /\ ch \in Seq(Event) /\ qClosed \in BOOLEAN /\ qDone \in BOOLEAN
    /\ drvRoots \subseteq AllPaths /\ drvClosed \in BOOLEAN
    /\ drvPc \in {"run", "emit", "close_events", "close_errors", "close_done", "done"}
    /\ drvHand \in Seq(Event) /\ Len(drvHand) <= 1
    /\ events \in Seq(Event) /\ errs \in Nat
    /\ pc \in [Threads -> AllLabels]
    /\ \A t \in Threads : pc[t] \in Labels(t)
    /\ input \in [Threads -> AllPaths \cup {NoPath}]
    /\ root \in [Threads -> AllRoots \cup {NoRoot}]
    /\ closed \in BOOLEAN /\ once \in {"new", "running", "done"}
    /\ closeErr \in {"nil", "error"}
    /\ backendDone \in BOOLEAN /\ done \in BOOLEAN
    /\ IndexType
    /\ evOpen \in BOOLEAN /\ errOpen \in BOOLEAN
    /\ hand \in Seq(Event) /\ Len(hand) <= 1
    /\ delivered \in Seq(Event) /\ emitted \in Nat
    /\ closeRes \subseteq {"nil", "error"}
    /\ granted \subseteq AllPaths /\ missed \subseteq AllPaths

----------------------------------------------------------------------------
(***************************************************************************)
(* Close waits for in-flight dispatch to drain: once any Close has         *)
(* returned, both goroutines and the backend's are gone, every event the   *)
(* backend observed has been delivered or dropped by the filters, and no   *)
(* error is left in the channel.                                           *)
(***************************************************************************)
CloseMeansDrained ==
    closeRes # {} =>
      /\ pc[RunBackend] = "exited" /\ pc[RunEvents] = "exited" /\ DriverDone
      /\ drvHand = <<>> /\ events = <<>> /\ errs = 0 /\ hand = <<>> /\ ch = <<>>

(***************************************************************************)
(* Every Close returns the same error, the one the first Close got from    *)
(* the backend, also when calls overlap.                                   *)
(***************************************************************************)
CloseErrorStable == \A r \in closeRes : r = closeErr

(***************************************************************************)
(* runBackend never meets a closed queue with an event in its hands, so    *)
(* Push's "false", which handleBackendEvent ignores, never loses an event. *)
(***************************************************************************)
QueueOpenWhileHandling == hand # <<>> => ~qClosed /\ ~qDone

(***************************************************************************)
(* When no Add or Remove is under way and the watcher is open, the index   *)
(* and the backend agree on which roots are watched.                       *)
(***************************************************************************)
NoCallInFlight == \A t \in Threads : pc[t] \notin CallLabels

RegistriesAgree ==
    NoCallInFlight /\ once = "new" => RootKeys(idx) = drvRoots

(***************************************************************************)
(* Remove, given a path Add accepted and no Remove has released since,     *)
(* does not report os.ErrNotExist: the path is in the index, and the root  *)
(* found there is one the backend knows, so that its watches are released. *)
(***************************************************************************)
AddedCanBeRemoved == missed = {}

----------------------------------------------------------------------------
(***************************************************************************)
(* The watcher implements the abstract delivery: what waits in the events  *)
(* channel and in runBackend's hands is the backlog, what waits in the     *)
(* queue is accepted, and the watcher is shut when closeOnce is through.   *)
(***************************************************************************)
IsOverflow(evt) == evt.op = "overflow"

Delivery ==
    INSTANCE EventDelivery WITH
        Event    <- Events,
        Allowed  <- Permitted,
        Lossless <- IsOverflow,
        backlog  <- hand \o events,
        accepted <- ch,
        phase    <- IF once = "done" THEN "shut" ELSE "open"

ImplementsDelivery == Delivery!Spec

(***************************************************************************)
(* What the watcher takes a backend for keeps the backends' contract,      *)
(* however the watcher uses it: no root is registered once it is closing,  *)
(* its channel never holds more than its capacity, and it is closed once,  *)
(* after Close and with nothing sent into it later.                        *)
(***************************************************************************)
Contract ==
    INSTANCE BackendContract WITH
        Paths   <- {look.resolved : look \in Lookups},
        Buffer  <- EventBuffer,
        roots   <- drvRoots,
        phase   <- IF EventsClosed THEN "ended" ELSE IF drvClosed THEN "closing" ELSE "open",
        backlog <- Len(events)

DriverKeepsContract == Contract!Spec

MayClose == {t \in Threads : "Close" \in MayCall[t]}

(***************************************************************************)
(* A Close that has begun returns, whatever the backend still reports and  *)
(* whatever else is called, provided OnEvent and OnError return.           *)
(***************************************************************************)
CloseReturns == \A t \in MayClose : pc[t] \in {"closeFlag", "closeAwait"} ~> pc[t] = Rest(t)

(***************************************************************************)
(* Every accepted event reaches OnEvent, closing or not: what waits in the *)
(* queue leaves it, and it leaves it for OnEvent only (EventsPop).  As the *)
(* backend reports finitely many events, the queue is empty in the end.    *)
(***************************************************************************)
AcceptedReachHandler == ch # <<>> ~> ch = <<>>
============================================================================
