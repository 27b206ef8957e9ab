---------------------------- MODULE QueueClients ----------------------------
(***************************************************************************)
(* The event queue used by any number of goroutines at once: pushers,      *)
(* poppers and closers, as queue.go allows and queue_test.go exercises.    *)
(***************************************************************************)
EXTENDS EventQueue

CONSTANTS Pushers, Poppers, Closers,
          MaxPushes                    \* bound: values per pusher

VARIABLES pc, onceTaken,
          pushed,      \* pushed[c]: how many Push calls c has begun
          accepted,    \* values whose Push returned true
          popped,      \* values Pop has returned
          overlapping  \* values whose Push had passed the flag when Close set it

clientVars == <<pc, onceTaken, pushed, accepted, popped, overlapping>>
vars == <<queueVars, clientVars>>

Clients == Pushers \cup Poppers \cup Closers

Value(c) == <<c, pushed[c]>>

Init ==
    /\ QueueInit
    /\ pc = [c \in Clients |-> "idle"]
    /\ onceTaken = FALSE
    /\ pushed = [c \in Pushers |-> 0]
    /\ accepted = {} /\ popped = {} /\ overlapping = {}

Goto(c, label) == pc' = [pc EXCEPT ![c] = label]

----------------------------------------------------------------------------
(* Push: the flag, then the select. *)
PushBegin(c) ==
    /\ pc[c] = "idle" /\ pushed[c] < MaxPushes
    /\ pushed' = [pushed EXCEPT ![c] = @ + 1]
    /\ Goto(c, "load")
    /\ UNCHANGED <<queueVars, onceTaken, accepted, popped, overlapping>>

PushLoad(c) ==
    /\ pc[c] = "load"
    /\ Goto(c, IF PushRefusedByFlag THEN "idle" ELSE "select")
    /\ UNCHANGED <<queueVars, onceTaken, pushed, accepted, popped, overlapping>>

PushSelectSend(c) ==
    /\ pc[c] = "select"
    /\ PushSend(Value(c))
    /\ accepted' = accepted \cup {Value(c)}
    /\ Goto(c, "idle")
    /\ UNCHANGED <<onceTaken, pushed, popped, overlapping>>

PushSelectAbort(c) ==
    /\ pc[c] = "select"
    /\ PushAbort
    /\ Goto(c, "idle")
    /\ UNCHANGED <<onceTaken, pushed, accepted, popped, overlapping>>

(* Pop blocks in "pop" until a value or the end arrives; a popper that saw
   the end stops, as runEvents does. *)
PopBegin(c) ==
    /\ pc[c] = "idle"
    /\ Goto(c, "pop")
    /\ UNCHANGED <<queueVars, onceTaken, pushed, accepted, popped, overlapping>>

PopReturns(c) ==
    /\ pc[c] = "pop"
    /\ \E v \in {ch[n] : n \in DOMAIN ch} :
          PopValue(v) /\ popped' = popped \cup {v}
    /\ Goto(c, "idle")
    /\ UNCHANGED <<onceTaken, pushed, accepted, overlapping>>

PopEnds(c) ==
    /\ pc[c] = "pop"
    /\ PopEnd
    /\ Goto(c, "drained")
    /\ UNCHANGED <<onceTaken, pushed, accepted, popped, overlapping>>

(* Close: closeOnce lets one caller in; the others wait for it. *)
CloseBegin(c) ==
    /\ pc[c] = "idle"
    /\ Goto(c, IF onceTaken THEN "await" ELSE "flag")
    /\ onceTaken' = TRUE
    /\ UNCHANGED <<queueVars, pushed, accepted, popped, overlapping>>

CloseFlag(c) ==
    /\ pc[c] = "flag"
    /\ CloseSetFlag
    /\ overlapping' = overlapping \cup {Value(p) : p \in {p \in Pushers : pc[p] = "select"}}
    /\ Goto(c, "done")
    /\ UNCHANGED <<onceTaken, pushed, accepted, popped>>

CloseChannel(c) ==
    /\ pc[c] = "done"
    /\ CloseDone
    /\ Goto(c, "ended")
    /\ UNCHANGED <<onceTaken, pushed, accepted, popped, overlapping>>

CloseAwait(c) ==
    /\ pc[c] = "await" /\ qDone
    /\ Goto(c, "ended")
    /\ UNCHANGED <<queueVars, onceTaken, pushed, accepted, popped, overlapping>>

----------------------------------------------------------------------------
PushStep(c) == PushLoad(c) \/ PushSelectSend(c) \/ PushSelectAbort(c)
PopStep(c) == PopReturns(c) \/ PopEnds(c)
CloseStep(c) == CloseFlag(c) \/ CloseChannel(c) \/ CloseAwait(c)

Next == \/ \E c \in Pushers : PushBegin(c) \/ PushStep(c)
        \/ \E c \in Poppers : PopBegin(c) \/ PopStep(c)
        \/ \E c \in Closers : CloseBegin(c) \/ CloseStep(c)

(* A goroutine that can run is scheduled; nobody has to start a call. *)
Fairness == /\ \A c \in Pushers : WF_vars(PushStep(c))
            /\ \A c \in Poppers : WF_vars(PopStep(c))
            /\ \A c \in Closers : WF_vars(CloseStep(c))

Spec == Init /\ [][Next]_vars /\ Fairness

----------------------------------------------------------------------------
(***************************************************************************)
(* Close drains: once a Pop has reported the end, every value a Push       *)
(* accepted has been handed out, unless that Push had loaded the flag      *)
(* before Close stored it.  Only such a Push may still send to a channel   *)
(* nobody reads (queue.go:26 and :31 are two steps), and a value that was  *)
(* in the channel when Close came is never left behind.                    *)
(***************************************************************************)
DrainedBeforeEnd ==
    (\E c \in Poppers : pc[c] = "drained") => accepted \subseteq popped \cup overlapping

(***************************************************************************)
(* Close releases everyone: after it has closed done, every Push and Pop   *)
(* that waits returns (TestQueueCloseUnblocksWaiters tries one waiter).    *)
(***************************************************************************)
CloseReleasesWaiters ==
    \A c \in Pushers \cup Poppers :
        qDone /\ pc[c] \in {"select", "pop"} ~> pc[c] \in {"idle", "drained"}
=============================================================================
