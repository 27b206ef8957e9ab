----------------------------- MODULE EventQueue -----------------------------
(***************************************************************************)
(* The bounded queue between a watcher's two goroutines,                   *)
(* internal/queue/queue.go: a buffered channel, a flag and a channel that  *)
(* Close closes.  Each operation is split where another goroutine can      *)
(* step in; the module that owns the goroutines supplies their control.    *)
(***************************************************************************)
EXTENDS Sequences, Integers

CONSTANT Capacity    \* the argument of queue.New

ASSUME CapacityAssumption == Capacity \in Int

VARIABLES ch,        \* Queue.ch, the buffered values
          qClosed,   \* Queue.closed, the atomic flag
          qDone      \* Queue.done has been closed

queueVars == <<ch, qClosed, qDone>>

(* queue.New never makes an unbuffered channel. *)
Room == IF Capacity < 1 THEN 1 ELSE Capacity

QueueInit == ch = <<>> /\ qClosed = FALSE /\ qDone = FALSE

(* Push, its first statement: the flag refuses the value. *)
PushRefusedByFlag == qClosed

(* Push, the select: send, or give up because done is closed.  With room in
   the channel and done closed the select takes either. *)
PushSend(v) == /\ Len(ch) < Room
               /\ ch' = Append(ch, v)
               /\ UNCHANGED <<qClosed, qDone>>

(* Mutant of PushAbort: the select has no case for done. *)
MutantPushIgnoresDone == FALSE /\ UNCHANGED queueVars

PushAbort == qDone /\ UNCHANGED queueVars

(* Pop returns a value: from the first select, or from the second one after
   done was chosen. *)
PopValue(v) == /\ ch # <<>>
               /\ v = Head(ch)
               /\ ch' = Tail(ch)
               /\ UNCHANGED <<qClosed, qDone>>

(* Mutant of PopEnd: done alone ends the queue, without a second receive. *)
MutantPopEndsOnDone == qDone /\ UNCHANGED queueVars

(* Pop reports the end: done is closed and the channel is empty. *)
PopEnd == qDone /\ ch = <<>> /\ UNCHANGED queueVars

(* Close, under closeOnce: the flag first, then the channel. *)
CloseSetFlag == qClosed' = TRUE /\ UNCHANGED <<ch, qDone>>

CloseDone == qDone' = TRUE /\ UNCHANGED <<ch, qClosed>>
=============================================================================
