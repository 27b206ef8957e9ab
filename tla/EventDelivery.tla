--------------------------- MODULE EventDelivery ---------------------------
(***************************************************************************)
(* What a watcher promises about events, without goroutines, locks or      *)
(* channels: the backend reports events, each is accepted for delivery or  *)
(* dropped in the order of the reports, OnEvent gets the accepted ones     *)
(* once each and in that order, and the watcher shuts only when nothing    *)
(* waits.  An overflow is never dropped.                                   *)
(***************************************************************************)
EXTENDS Sequences

CONSTANTS Event,          \* the events there are
          Allowed(_),     \* the events the configuration lets through
          Lossless(_)     \* the events that must not be dropped

VARIABLES backlog,     \* reported, not yet decided on
          accepted,    \* accepted, not yet delivered
          delivered,   \* passed to OnEvent, in order
          phase        \* "open" or "shut"

vars == <<backlog, accepted, delivered, phase>>

Init == backlog = <<>> /\ accepted = <<>> /\ delivered = <<>> /\ phase = "open"

Report(evt) == /\ phase = "open"
               /\ backlog' = Append(backlog, evt)
               /\ UNCHANGED <<accepted, delivered, phase>>

Accept == /\ backlog # <<>> /\ Allowed(Head(backlog))
          /\ backlog' = Tail(backlog)
          /\ accepted' = Append(accepted, Head(backlog))
          /\ UNCHANGED <<delivered, phase>>

Drop == /\ backlog # <<>> /\ ~Lossless(Head(backlog))
        /\ backlog' = Tail(backlog)
        /\ UNCHANGED <<accepted, delivered, phase>>

Deliver == /\ accepted # <<>>
           /\ delivered' = Append(delivered, Head(accepted))
           /\ accepted' = Tail(accepted)
           /\ UNCHANGED <<backlog, phase>>

Shut == /\ backlog = <<>> /\ accepted = <<>>
        /\ phase' = "shut"
        /\ UNCHANGED <<backlog, accepted, delivered>>

Next == \/ \E evt \in Event : Report(evt)
        \/ Accept \/ Drop \/ Deliver \/ Shut

Spec == Init /\ [][Next]_vars
============================================================================
