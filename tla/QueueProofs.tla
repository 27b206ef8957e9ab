---------------------------- MODULE QueueProofs ----------------------------
(***************************************************************************)
(* The event queue under any number of pushers, poppers and closers, any   *)
(* number of values and any capacity.                                      *)
(***************************************************************************)
EXTENDS QueueClients, SequenceTheorems, TLAPS

----------------------------------------------------------------------------
(* The inductive invariant, in parts. *)

Values == Pushers \X Nat

Places == {"idle", "load", "select", "pop", "flag", "done", "await", "ended", "drained"}

QueueTyped ==
    /\ ch \in Seq(Values)
    /\ pushed \in [Pushers -> Nat]
    /\ pc \in [Clients -> Places]

Contents(s) == {s[n] : n \in DOMAIN s}

Buffered == Contents(ch)

(* An accepted value waits in the channel until a Pop returns it. *)
NothingVanishes == accepted \subseteq popped \cup Buffered

(* Close sets the flag before it closes done. *)
FlagBeforeDone ==
    /\ qDone => qClosed
    /\ \A c \in Closers : pc[c] = "done" => qClosed

(* Who is past the flag after it was set was past it when it was set. *)
LateOnesKnown ==
    qClosed => \A c \in Pushers : pc[c] = "select" => Value(c) \in overlapping

(* After the end only the values of those Pushes can be in the channel. *)
EndFoundEmpty ==
    (\E c \in Poppers : pc[c] = "drained") => qDone /\ Buffered \subseteq overlapping

Draining == QueueTyped /\ NothingVanishes /\ FlagBeforeDone /\ LateOnesKnown /\ EndFoundEmpty

----------------------------------------------------------------------------
(* What one value appended to the channel, or taken from its head, does to *)
(* the set of values in it.                                                *)

LEMMA SendBuffers ==
    ASSUME NEW S, NEW s \in Seq(S), NEW v \in S
    PROVE  /\ Append(s, v) \in Seq(S)
           /\ Contents(Append(s, v)) = Contents(s) \cup {v}
<1>1. /\ Append(s, v) \in Seq(S) /\ Len(s) \in Nat
      /\ DOMAIN s = 1 .. Len(s) /\ DOMAIN Append(s, v) = 1 .. Len(s) + 1
      /\ Append(s, v)[Len(s) + 1] = v
      /\ \A n \in 1 .. Len(s) : Append(s, v)[n] = s[n]
  BY AppendProperties, LenProperties
<1>2. 1 .. Len(s) + 1 = (1 .. Len(s)) \cup {Len(s) + 1}
  BY <1>1
<1> QED BY <1>1, <1>2 DEF Contents

LEMMA ReceiveTakes ==
    ASSUME NEW S, NEW s \in Seq(S), s # <<>>
    PROVE  /\ Tail(s) \in Seq(S) /\ Head(s) \in S
           /\ Contents(s) = {Head(s)} \cup Contents(Tail(s))
<1>1. /\ Tail(s) \in Seq(S) /\ Head(s) \in S /\ Head(s) = s[1]
      /\ Len(Tail(s)) = Len(s) - 1
      /\ \A n \in 1 .. Len(Tail(s)) : Tail(s)[n] = s[n + 1]
  BY HeadTailProperties
<1>2. Len(s) \in Nat /\ Len(s) > 0 /\ DOMAIN s = 1 .. Len(s) /\ DOMAIN Tail(s) = 1 .. Len(s) - 1
  BY <1>1, EmptySeq, LenProperties
<1>3. ASSUME NEW n \in DOMAIN s, n # 1
      PROVE  n - 1 \in DOMAIN Tail(s) /\ Tail(s)[n - 1] = s[n]
  <2>1. n - 1 \in 1 .. Len(Tail(s)) /\ (n - 1) + 1 = n
    BY <1>1, <1>2, <1>3
  <2> QED BY <1>1, <1>2, <2>1
<1>4. ASSUME NEW n \in DOMAIN Tail(s)
      PROVE  n + 1 \in DOMAIN s /\ Tail(s)[n] = s[n + 1]
  BY <1>1, <1>2
<1>5. Head(s) \in Contents(s)
  BY <1>1, <1>2 DEF Contents
<1>6. ASSUME NEW v \in Contents(s), v # Head(s)
      PROVE  v \in Contents(Tail(s))
  <2>1. PICK n \in DOMAIN s : v = s[n]
    BY <1>6 DEF Contents
  <2> QED BY <1>1, <1>3, <1>6, <2>1 DEF Contents
<1>7. Contents(Tail(s)) \subseteq Contents(s)
  BY <1>4 DEF Contents
<1> QED BY <1>1, <1>5, <1>6, <1>7

----------------------------------------------------------------------------
LEMMA DrainingInit == Init => Draining
<1> SUFFICES ASSUME Init PROVE Draining
  OBVIOUS
<1>1. /\ ch = <<>> /\ accepted = {} /\ qClosed = FALSE /\ qDone = FALSE
      /\ pushed = [c \in Pushers |-> 0] /\ pc = [c \in Clients |-> "idle"]
  BY DEF Init, QueueInit
<1>2. <<>> \in Seq(Values)
  BY EmptySeq
<1> QED BY <1>1, <1>2 DEF Draining, QueueTyped, Places, NothingVanishes, FlagBeforeDone,
        LateOnesKnown, EndFoundEmpty, Clients

(* A client moves on, and nothing but its place and the number of a Push  *)
(* that begins changes.                                                    *)
LEMMA DrainingMoves ==
    ASSUME Draining, NEW c \in Clients, NEW label \in Places,
           Goto(c, label), pushed' \in [Pushers -> Nat],
           \A d \in Pushers : d # c => pushed'[d] = pushed[d],
           label = "done" => qClosed,
           label = "select" => ~qClosed,
           label = "drained" => qDone /\ ch = <<>>,
           UNCHANGED <<ch, qClosed, qDone, accepted, popped, overlapping>>
    PROVE  Draining'
<1> USE DEF Draining
<1>1. /\ pc' \in [Clients -> Places] /\ pc'[c] = label
      /\ \A d \in Clients : d # c => pc'[d] = pc[d]
  BY DEF Goto, QueueTyped
<1>2. Pushers \subseteq Clients /\ Poppers \subseteq Clients /\ Closers \subseteq Clients
  BY DEF Clients
<1>3. Buffered' = Buffered
  BY DEF Buffered, Contents
<1>4. QueueTyped' /\ NothingVanishes' /\ FlagBeforeDone'
  BY <1>1, <1>2, <1>3 DEF QueueTyped, NothingVanishes, FlagBeforeDone
<1>5. LateOnesKnown'
  <2>1. ASSUME qClosed', NEW d \in Pushers, pc'[d] = "select"
        PROVE  Value(d)' \in overlapping'
    <3>1. d # c
      BY <1>1, <2>1
    <3>2. pc[d] = "select" /\ Value(d)' = Value(d)
      BY <1>1, <1>2, <2>1, <3>1 DEF Value
    <3> QED BY <2>1, <3>2 DEF LateOnesKnown
  <2> QED BY <2>1 DEF LateOnesKnown
<1>6. EndFoundEmpty'
  <2>1. ASSUME NEW d \in Poppers, pc'[d] = "drained"
        PROVE  qDone' /\ Buffered' \subseteq overlapping'
    <3>1. CASE d = c
      BY <1>1, <2>1, <3>1 DEF Buffered, Contents
    <3>2. CASE d # c
      BY <1>1, <1>2, <1>3, <2>1, <3>2 DEF EndFoundEmpty
    <3> QED BY <3>1, <3>2
  <2> QED BY <2>1 DEF EndFoundEmpty
<1> QED BY <1>4, <1>5, <1>6

(* A send: after the end only a Push known to overlap Close can do it. *)
LEMMA DrainingSend ==
    ASSUME Draining, NEW c \in Pushers, PushSelectSend(c)
    PROVE  Draining'
<1> USE DEF Draining
<1> DEFINE v == Value(c)
<1>1. c \in Clients /\ v \in Values
  BY DEF Clients, Value, Values, QueueTyped
<1>2. /\ pc[c] = "select" /\ ch' = Append(ch, v) /\ accepted' = accepted \cup {v}
      /\ pc' = [pc EXCEPT ![c] = "idle"]
      /\ UNCHANGED <<qClosed, qDone, pushed, popped, overlapping>>
  BY DEF PushSelectSend, PushSend, Goto
<1>3. ch' \in Seq(Values) /\ Buffered' = Buffered \cup {v}
  BY <1>1, <1>2, SendBuffers DEF QueueTyped, Buffered
<1>4. /\ Pushers \subseteq Clients /\ Poppers \subseteq Clients /\ Closers \subseteq Clients
      /\ pc' \in [Clients -> Places] /\ pc'[c] = "idle"
      /\ \A d \in Clients : d # c => pc'[d] = pc[d]
  BY <1>1, <1>2 DEF QueueTyped, Places, Clients
<1>5. qClosed => v \in overlapping
  BY <1>2 DEF LateOnesKnown
<1> HIDE DEF v
<1>6. QueueTyped' /\ NothingVanishes' /\ FlagBeforeDone'
  BY <1>2, <1>3, <1>4 DEF QueueTyped, NothingVanishes, FlagBeforeDone
<1>7. LateOnesKnown'
  BY <1>2, <1>4 DEF LateOnesKnown, Value
<1>8. EndFoundEmpty'
  <2>1. ASSUME NEW d \in Poppers, pc'[d] = "drained"
        PROVE  qDone /\ Buffered \subseteq overlapping
    BY <1>4, <2>1 DEF EndFoundEmpty
  <2> QED BY <1>2, <1>3, <1>5, <2>1 DEF EndFoundEmpty, FlagBeforeDone
<1> QED BY <1>6, <1>7, <1>8

(* A Pop that returns a value takes it from the channel. *)
LEMMA DrainingPop ==
    ASSUME Draining, NEW c \in Poppers, PopReturns(c)
    PROVE  Draining'
<1> USE DEF Draining
<1>1. /\ ch # <<>> /\ ch' = Tail(ch) /\ popped' = popped \cup {Head(ch)}
      /\ pc' = [pc EXCEPT ![c] = "idle"]
      /\ UNCHANGED <<qClosed, qDone, accepted, pushed, overlapping>>
  BY DEF PopReturns, PopValue, Goto
<1>2. ch' \in Seq(Values) /\ Buffered = {Head(ch)} \cup Buffered'
  BY <1>1, ReceiveTakes DEF QueueTyped, Buffered
<1>3. /\ Pushers \subseteq Clients /\ Poppers \subseteq Clients /\ Closers \subseteq Clients
      /\ pc' \in [Clients -> Places]
      /\ \A d \in Clients : pc'[d] \in {"idle", pc[d]}
  BY <1>1 DEF QueueTyped, Places, Clients
<1>4. QueueTyped' /\ NothingVanishes' /\ FlagBeforeDone'
  BY <1>1, <1>2, <1>3 DEF QueueTyped, NothingVanishes, FlagBeforeDone
<1>5. LateOnesKnown'
  BY <1>1, <1>3 DEF LateOnesKnown, Value
<1>6. EndFoundEmpty'
  BY <1>1, <1>2, <1>3 DEF EndFoundEmpty
<1> QED BY <1>4, <1>5, <1>6

(* Close sets the flag: who has passed it by then is noted. *)
LEMMA DrainingFlag ==
    ASSUME Draining, NEW c \in Closers, CloseFlag(c)
    PROVE  Draining'
<1> USE DEF Draining
<1>1. /\ qClosed' = TRUE /\ pc' = [pc EXCEPT ![c] = "done"]
      /\ overlapping' = overlapping \cup {Value(p) : p \in {p \in Pushers : pc[p] = "select"}}
      /\ UNCHANGED <<ch, qDone, pushed, accepted, popped>>
  BY DEF CloseFlag, CloseSetFlag, Goto
<1>2. /\ Pushers \subseteq Clients /\ Poppers \subseteq Clients /\ Closers \subseteq Clients
      /\ pc' \in [Clients -> Places]
      /\ \A d \in Clients : pc'[d] \in {"done", pc[d]}
  BY <1>1 DEF QueueTyped, Places, Clients
<1>3. Buffered' = Buffered
  BY <1>1 DEF Buffered, Contents
<1>4. QueueTyped' /\ NothingVanishes' /\ FlagBeforeDone'
  BY <1>1, <1>2, <1>3 DEF QueueTyped, NothingVanishes, FlagBeforeDone
<1>5. LateOnesKnown'
  BY <1>1, <1>2 DEF LateOnesKnown, Value
<1>6. EndFoundEmpty'
  BY <1>1, <1>2, <1>3 DEF EndFoundEmpty
<1> QED BY <1>4, <1>5, <1>6

(* Close closes done, after its flag. *)
LEMMA DrainingDone ==
    ASSUME Draining, NEW c \in Closers, CloseChannel(c)
    PROVE  Draining'
<1> USE DEF Draining
<1>1. /\ pc[c] = "done" /\ qDone' = TRUE /\ pc' = [pc EXCEPT ![c] = "ended"]
      /\ UNCHANGED <<ch, qClosed, pushed, accepted, popped, overlapping>>
  BY DEF CloseChannel, CloseDone, Goto
<1>2. /\ Pushers \subseteq Clients /\ Poppers \subseteq Clients /\ Closers \subseteq Clients
      /\ pc' \in [Clients -> Places]
      /\ \A d \in Clients : pc'[d] \in {"ended", pc[d]}
  BY <1>1 DEF QueueTyped, Places, Clients
<1>3. Buffered' = Buffered
  BY <1>1 DEF Buffered, Contents
<1>4. QueueTyped' /\ NothingVanishes' /\ FlagBeforeDone'
  BY <1>1, <1>2, <1>3 DEF QueueTyped, NothingVanishes, FlagBeforeDone
<1>5. LateOnesKnown' /\ EndFoundEmpty'
  BY <1>1, <1>2, <1>3 DEF LateOnesKnown, EndFoundEmpty, Value
<1> QED BY <1>4, <1>5

LEMMA DrainingNext == Draining /\ [Next]_vars => Draining'
<1> SUFFICES ASSUME Draining, [Next]_vars PROVE Draining'
  OBVIOUS
<1>1. Pushers \subseteq Clients /\ Poppers \subseteq Clients /\ Closers \subseteq Clients
  BY DEF Clients
<1>2. pushed \in [Pushers -> Nat]
  BY DEF Draining, QueueTyped
<1>3. ASSUME NEW c \in Pushers, PushBegin(c) PROVE Draining'
  <2>1. /\ Goto(c, "load") /\ pushed' = [pushed EXCEPT ![c] = @ + 1]
        /\ UNCHANGED <<ch, qClosed, qDone, accepted, popped, overlapping>>
    BY <1>3 DEF PushBegin, queueVars
  <2>2. pushed' \in [Pushers -> Nat] /\ \A d \in Pushers : d # c => pushed'[d] = pushed[d]
    BY <1>2, <2>1
  <2>3. "load" \in Places
    BY DEF Places
  <2>4. c \in Clients
    BY <1>1
  <2> QED BY <2>1, <2>2, <2>3, <2>4, DrainingMoves
<1>4. ASSUME NEW c \in Clients,
             \/ c \in Pushers /\ (PushLoad(c) \/ PushSelectAbort(c))
             \/ c \in Poppers /\ (PopBegin(c) \/ PopEnds(c))
             \/ c \in Closers /\ (CloseBegin(c) \/ CloseAwait(c))
      PROVE  Draining'
  <2>1. PICK label \in Places \ {"done"} :
           /\ Goto(c, label)
           /\ label = "select" => ~qClosed
           /\ label = "drained" => qDone /\ ch = <<>>
           /\ UNCHANGED <<ch, qClosed, qDone, pushed, accepted, popped, overlapping>>
    BY <1>4 DEF PushLoad, PushSelectAbort, PushAbort, PushRefusedByFlag, PopBegin, PopEnds, PopEnd,
                CloseBegin, CloseAwait, Places, queueVars
  <2> QED BY <1>2, <2>1, DrainingMoves
<1>5. CASE UNCHANGED vars
  BY <1>5 DEF vars, queueVars, clientVars, Draining, QueueTyped, NothingVanishes, FlagBeforeDone,
              LateOnesKnown, EndFoundEmpty, Buffered, Contents, Value
<1> QED BY <1>1, <1>3, <1>4, <1>5, DrainingSend, DrainingPop, DrainingFlag, DrainingDone
        DEF Next, PushStep, PopStep, CloseStep

(***************************************************************************)
(* Close drains the queue for any number of clients, any capacity and any  *)
(* interleaving: once a Pop has reported the end, a value a Push accepted  *)
(* was handed out, or its Push had passed the flag when Close set it.      *)
(***************************************************************************)
THEOREM QueueDrains == Spec => []DrainedBeforeEnd
<1>1. Draining => DrainedBeforeEnd
  BY DEF Draining, NothingVanishes, EndFoundEmpty, DrainedBeforeEnd
<1> QED BY <1>1, DrainingInit, DrainingNext, PTL DEF Spec
=============================================================================
