--------------------------- MODULE WindowsProofs ---------------------------
(***************************************************************************)
(* The Windows backend, for any callers, targets, changes on disk, sizes   *)
(* of buffers and capacity.  In this order: its channels are closed after  *)
(* the last goroutine that sends on them, so that it keeps the contract of *)
(* a backend; its types; every handle has one owner; registered roots are  *)
(* read; no loss is silent; what is sent is the history of the directory.  *)
(***************************************************************************)
EXTENDS WindowsProperties, SequenceTheorems, TLAPS

----------------------------------------------------------------------------
(* The inductive invariant, in parts. *)

(* Who waits for the goroutines to end has closed registration before. *)
ClosersClosed == \A c \in Callers : callPc[c] = "close" => closed

(* Only a Remove, of one handle, or a Close has handles to give back: when
   it has, a Remove returns and a Close goes on. *)
HandsTaken ==
    /\ \A c \in Callers : hands[c] # {} => callPc[c] \in {"remove", "close"}
    /\ \A c \in Callers : callPc[c] = "remove" => \E n : hands[c] = {n}

CallersTyped == DOMAIN callPc = Callers /\ DOMAIN hands = Callers

Lifetimes == CallersTyped /\ ClosersClosed /\ HandsTaken /\ ChannelsOutliveRuns

LEMMA LifetimesInit == Init => Lifetimes
BY DEF Init, Lifetimes, CallersTyped, ClosersClosed, HandsTaken, ChannelsOutliveRuns

----------------------------------------------------------------------------
(* A goroutine is started only while the watcher is open; only Close waits. *)
LEMMA CallKeepsLifetimes ==
    ASSUME Lifetimes, NEW c \in Callers, Call(c)
    PROVE  Lifetimes'
<1> USE DEF Lifetimes, CallersTyped, ClosersClosed, HandsTaken, ChannelsOutliveRuns, Goto, Begin
<1> USE DEF registry, channel, runVars, callVars
<1>1. CASE AddOpen(c)
  <2>1. ~closed' /\ ~ended'
    BY <1>1 DEF AddOpen
  <2>2. callPc' = [callPc EXCEPT ![c] = "ready"] /\ hands' = hands /\ callPc[c] = "idle"
    BY <1>1 DEF AddOpen
  <2>3. \A b \in Callers : callPc'[b] = IF b = c THEN "ready" ELSE callPc[b]
    BY <2>2
  <2>4. CallersTyped' /\ ClosersClosed' /\ ChannelsOutliveRuns'
    BY <2>1, <2>2, <2>3, <1>1 DEF AddOpen
  <2>5. HandsTaken'
    BY <2>2, <2>3
  <2> QED BY <2>4, <2>5
<1>2. CASE AddReturns(c)
  BY <1>2 DEF AddReturns
<1>3. CASE RemoveTake(c)
  <2>1. PICK path \in DOMAIN roots : Take(c, {path}) /\ callPc' = [callPc EXCEPT ![c] = "remove"]
                                   /\ UNCHANGED <<closed, ended, runPc>>
    BY <1>3 DEF RemoveTake
  <2>2. hands' = [hands EXCEPT ![c] = {made[roots[path]].handle}]
    BY <2>1 DEF Take
  <2> QED BY <2>1, <2>2
<1>4. CASE CloseTake(c)
  <2>1. closed' /\ ~ended' /\ callPc' = [callPc EXCEPT ![c] = "close"]
    BY <1>4 DEF CloseTake
  <2>2. \A b \in Callers \ {c} : hands'[b] = hands[b] /\ callPc'[b] = callPc[b]
    BY <1>4, <2>1 DEF CloseTake, Take
  <2>3. DOMAIN hands' = Callers
    BY <1>4 DEF CloseTake, Take
  <2> QED BY <2>1, <2>2, <2>3
<1>5. CASE HandleClosed(c)
  <2>1. PICK n \in hands[c] : hands' = [hands EXCEPT ![c] = @ \ {n}]
    BY <1>5 DEF HandleClosed
  <2>2. callPc[c] \in {"remove", "close"}
    BY <2>1
  <2>3. callPc' = [callPc EXCEPT ![c] = IF callPc[c] = "remove" THEN "idle" ELSE "close"]
    BY <1>5 DEF HandleClosed
  <2>4. callPc[c] = "remove" => hands'[c] = {}
    BY <2>1
  <2>5. HandsTaken' /\ CallersTyped'
    BY <2>1, <2>2, <2>3, <2>4
  <2>6. UNCHANGED <<closed, ended>> /\ ClosersClosed'
    BY <1>5, <2>2, <2>3 DEF HandleClosed
  <2>7. ChannelsOutliveRuns'
    BY <1>5, <2>6 DEF HandleClosed
  <2> QED BY <2>5, <2>6, <2>7
<1>6. CASE CloseEnds(c)
  BY <1>6 DEF CloseEnds
<1> QED BY <1>1, <1>2, <1>3, <1>4, <1>5, <1>6 DEF Call

(* A goroutine that has ended does nothing more. *)
LEMMA RunKeepsLifetimes ==
    ASSUME Lifetimes, NEW k \in DOMAIN runPc, RunRoot(k) \/ ReadFails(k)
    PROVE  ~ended /\ Lifetimes'
<1>1. /\ runPc[k] # "done"
      /\ UNCHANGED <<closed, ended, callPc, hands>>
  BY DEF RunRoot, RunStarts, ReadBegins, ReadRefused, ReadReturns, RunEnds, EmitOverflow,
     KeepOldName, EmitRecord, ReadFails, Send, registry, channel, callVars
<1> QED BY <1>1 DEF Lifetimes, CallersTyped, ClosersClosed, HandsTaken, ChannelsOutliveRuns

LEMMA LifetimesStep == Lifetimes /\ [Next]_vars => Lifetimes'
<1> SUFFICES ASSUME Lifetimes, [Next]_vars PROVE Lifetimes'
  OBVIOUS
<1>1. CASE Receive \/ Environment \/ UNCHANGED vars
  BY <1>1 DEF Receive, Environment, vars, Lifetimes, CallersTyped, ClosersClosed, HandsTaken,
     ChannelsOutliveRuns, registry, channel, runVars, callVars
<1> QED BY <1>1, CallKeepsLifetimes, RunKeepsLifetimes DEF Next

(* The whole holds at every step: what Close and Remove have taken, and what
   the end of the channels presupposes. *)
THEOREM LifetimesInvariant == Spec => []Lifetimes
<1> QED BY LifetimesInit, LifetimesStep, PTL DEF Spec

(***************************************************************************)
(* The channels are closed after every goroutine that sends on them has    *)
(* ended, and none is started any more.                                    *)
(***************************************************************************)
THEOREM NothingIsSentLate == Spec => []ChannelsOutliveRuns
<1>1. Lifetimes => ChannelsOutliveRuns
  BY DEF Lifetimes
<1> QED BY <1>1, LifetimesInvariant, PTL

----------------------------------------------------------------------------
(* The refinement, step by step. *)

Untouched == UNCHANGED <<roots, closed, ended, events>>

LEMMA UntouchedStutters == Untouched => UNCHANGED Contract!vars
BY DEF Untouched, Contract!vars

LEMMA CallImplements ==
    ASSUME Lifetimes, NEW c \in Callers, Call(c)
    PROVE  [Contract!Next]_Contract!vars
<1> USE DEF registry, channel, runVars, callVars
<1>1. CASE AddOpen(c)
  <2>1. PICK t \in Targets : /\ ~closed /\ t.Path \notin DOMAIN roots
                             /\ DOMAIN roots' = DOMAIN roots \cup {t.Path}
                             /\ UNCHANGED <<closed, ended, events>>
    BY <1>1 DEF AddOpen, Begin
  <2>2. ~ended
    BY <2>1 DEF Lifetimes, ChannelsOutliveRuns
  <2>3. Contract!Register(t.Path)
    BY <2>1, <2>2 DEF Contract!Register
  <2> QED BY <2>3 DEF Contract!Next
<1>2. CASE RemoveTake(c)
  <2>1. PICK path \in DOMAIN roots : Take(c, {path}) /\ UNCHANGED <<closed, ended, events>>
    BY <1>2 DEF RemoveTake
  <2>2. DOMAIN roots' = DOMAIN roots \ {path}
    BY <2>1 DEF Take, Restrict
  <2>3. Contract!Unregister(path)
    BY <2>1, <2>2 DEF Contract!Unregister
  <2> QED BY <2>1, <2>3 DEF Contract!Next
<1>3. CASE CloseTake(c)
  <2>1. ~closed /\ closed' /\ DOMAIN roots' = {} /\ UNCHANGED <<ended, events>>
    BY <1>3 DEF CloseTake, Take, Restrict
  <2>2. ~ended
    BY <2>1 DEF Lifetimes, ChannelsOutliveRuns
  <2>3. Contract!Close
    BY <2>1, <2>2 DEF Contract!Close
  <2> QED BY <2>3 DEF Contract!Next
<1>4. CASE CloseEnds(c)
  <2>1. closed /\ ended' /\ UNCHANGED <<roots, closed, events>>
    BY <1>4 DEF CloseEnds, Lifetimes, ClosersClosed
  <2>2. CASE ended
    BY <2>1, <2>2, UntouchedStutters DEF Untouched, Lifetimes
  <2>3. CASE ~ended
    BY <2>1, <2>3 DEF Contract!End, Contract!Next
  <2> QED BY <2>2, <2>3
<1>5. CASE AddReturns(c) \/ HandleClosed(c)
  <2>1. Untouched
    BY <1>5 DEF AddReturns, HandleClosed, Untouched
  <2> QED BY <2>1, UntouchedStutters
<1> QED BY <1>1, <1>2, <1>3, <1>4, <1>5 DEF Call

LEMMA RunImplements ==
    ASSUME Lifetimes, NEW k \in DOMAIN runPc, RunRoot(k) \/ ReadFails(k)
    PROVE  [Contract!Next]_Contract!vars
<1>1. ~ended
  BY RunKeepsLifetimes
<1>2. CASE EmitOverflow(k) \/ EmitRecord(k)
  <2>1. events < EventBuffer /\ events' = events + 1 /\ UNCHANGED <<roots, closed, ended>>
    BY <1>2 DEF EmitOverflow, EmitRecord, Send, registry
  <2>2. Contract!Report
    BY <1>1, <2>1 DEF Contract!Report
  <2> QED BY <2>2 DEF Contract!Next
<1>3. CASE \/ RunStarts(k) \/ ReadBegins(k) \/ ReadRefused(k) \/ ReadReturns(k) \/ RunEnds(k)
           \/ KeepOldName(k) \/ ReadFails(k)
  <2>1. Untouched
    BY <1>3 DEF RunStarts, ReadBegins, ReadRefused, ReadReturns, RunEnds, KeepOldName, ReadFails,
       Untouched, registry, channel
  <2> QED BY <2>1, UntouchedStutters
<1> QED BY <1>2, <1>3 DEF RunRoot

(***************************************************************************)
(* The Windows backend keeps the contract watcher.go relies on: no root is *)
(* registered after Close, the channel never holds more than its capacity, *)
(* and nothing is sent on it once it is closed.                            *)
(***************************************************************************)
THEOREM WindowsKeepsContract == Spec => ImplementsContract
<1>1. Init => Contract!Init
  BY DEF Init, Contract!Init
<1>2. Lifetimes /\ [Next]_vars => [Contract!Next]_Contract!vars
  <2> SUFFICES ASSUME Lifetimes, [Next]_vars PROVE [Contract!Next]_Contract!vars
    OBVIOUS
  <2>1. CASE Receive
    <3>1. events > 0 /\ events' = events - 1 /\ UNCHANGED <<roots, closed, ended>>
      BY <2>1 DEF Receive, registry
    <3> QED BY <3>1 DEF Contract!Receive, Contract!Next
  <2>2. CASE Environment \/ UNCHANGED vars
    <3>1. Untouched
      BY <2>2 DEF Environment, vars, Untouched, registry, channel
    <3> QED BY <3>1, UntouchedStutters
  <2> QED BY <2>1, <2>2, CallImplements, RunImplements DEF Next
<1> QED
  BY <1>1, <1>2, LifetimesInit, LifetimesStep, PTL DEF Spec, ImplementsContract, Contract!Spec
----------------------------------------------------------------------------
(* Types.  The objects, the roots made and the locals of their goroutines
   are sequences of one length. *)

Component == UNION {{path[i] : i \in DOMAIN path} : path \in Tree \cup Dirs}
Path      == Seq(Component)
Actions   == {"ADDED", "REMOVED", "MODIFIED", "RENAMED_OLD_NAME", "RENAMED_NEW_NAME"}
Note      == [action : Actions, name : Path]
Report    == [op : {"create", "remove", "write", "rename"}, path : Path, old : Path \cup {NoPath}]
Object    == [dir : Path, recursive : BOOLEAN, recording : BOOLEAN, notes : Seq(Note),
              lost : BOOLEAN, history : Seq(Report), losses : BOOLEAN]

Root      == [target : Targets, handle : Nat]

KernelTyped ==
    /\ files \subseteq Tree
    /\ used \in Nat /\ open \in [DOMAIN open -> DOMAIN objects] /\ DOMAIN open \subseteq 1 .. used
    /\ objects \in Seq(Object)
    /\ \A k \in DOMAIN objects : objects[k].lost => objects[k].notes = <<>>
    /\ renaming \in {NoRename} \cup (Tree \X Tree \X SUBSET Nat)

RegistryTyped ==
    /\ made \in Seq(Root) /\ Len(made) = Len(objects)
    /\ roots \in [DOMAIN roots -> DOMAIN made]
    /\ \A p \in DOMAIN roots : made[roots[p]].target.Path = p

RunsTyped ==
    /\ runPc \in Seq(Labels) /\ Len(runPc) = Len(made)
    /\ reading \in Seq(Nat) /\ Len(reading) = Len(made)
    /\ \A k \in DOMAIN made : runPc[k] = "waiting" => reading[k] \in DOMAIN made
    /\ buf \in Seq(Seq(Note)) /\ Len(buf) = Len(made)
    /\ pendingOld \in Seq(Path \cup {NoPath}) /\ Len(pendingOld) = Len(made)
    /\ sent \in Seq(Seq(Report)) /\ Len(sent) = Len(made)
    /\ \A k \in DOMAIN made : runPc[k] = "parse" <=> buf[k] # <<>>

CallsTyped ==
    /\ mu \in Callers \cup {NoOne} /\ closed \in BOOLEAN /\ ended \in BOOLEAN
    /\ events \in 0 .. EventBuffer
    /\ callPc \in [Callers -> {"idle", "ready", "remove", "close"}]
    /\ hands \in [Callers -> SUBSET Nat]

Typed == KernelTyped /\ RegistryTyped /\ RunsTyped /\ CallsTyped

LEMMA TypedInit == Init => Typed
<1> SUFFICES ASSUME Init PROVE Typed
  OBVIOUS
<1>1. KernelTyped /\ RegistryTyped /\ RunsTyped
  BY DirectoryChangesAssumption DEF Init, KernelInit, KernelTyped, RegistryTyped, RunsTyped
<1>2. events \in 0 .. EventBuffer
  BY WindowsAssumption DEF Init
<1>3. CallsTyped
  BY <1>2 DEF Init, CallsTyped
<1> QED BY <1>1, <1>3 DEF Typed

----------------------------------------------------------------------------
(* Paths. *)

LEMMA TreeIsPath == \A path \in Tree \cup Dirs : path \in Path
<1>1. ASSUME NEW path \in Tree \cup Dirs PROVE path \in Path
  <2>1. IsPath(path)
    BY DirectoryChangesAssumption, WindowsAssumption
  <2>2. path \in Seq({path[i] : i \in DOMAIN path}) /\ DOMAIN path = 1 .. Len(path) /\ Len(path) \in Nat
    BY <2>1 DEF IsPath
  <2>3. \A i \in 1 .. Len(path) : path[i] \in Component
    BY <2>2 DEF Component
  <2>4. path = [i \in 1 .. Len(path) |-> path[i]]
    BY <2>2
  <2> QED BY <2>2, <2>3, <2>4 DEF Path
<1> QED BY <1>1

LEMMA RelativeIsPath ==
    ASSUME NEW obj \in Object, NEW path \in Tree
    PROVE  Relative(obj, path) \in Path
<1>1. path \in Path /\ obj.dir \in Path
  BY TreeIsPath DEF Object
<1> QED BY <1>1, SubSeqProperties DEF Relative, Path

(* What an object makes of a change. *)
LEMMA RecordedIsObject ==
    ASSUME NEW obj \in Object, obj.lost => obj.notes = <<>>,
           NEW action \in Actions, NEW path \in Tree, NEW told \in Seq(Report)
    PROVE  /\ Recorded(obj, action, path, told) \in Object
           /\ Recorded(obj, action, path, told).lost => Recorded(obj, action, path, told).notes = <<>>
<1> DEFINE note == [action |-> action, name |-> Relative(obj, path)]
           full == obj.lost \/ Len(obj.notes) = NotesLimit
           after == [obj EXCEPT !.notes = IF full THEN <<>> ELSE Append(@, note), !.lost = full,
                                !.losses = @ \/ full, !.history = @ \o told]
<1>1. note \in Note
  BY RelativeIsPath DEF Note
<1>2. Append(obj.notes, note) \in Seq(Note) /\ <<>> \in Seq(Note) /\ obj.history \o told \in Seq(Report)
  BY <1>1 DEF Object
<1>3. full \in BOOLEAN /\ (obj.losses \/ full) \in BOOLEAN
  BY DEF Object
<1>4. after \in Object
  BY <1>2, <1>3 DEF Object
<1>5. after.lost => after.notes = <<>>
  BY DEF Object
<1>6. Recorded(obj, action, path, told) \in {obj, after}
  BY DEF Recorded
<1> QED BY <1>4, <1>5, <1>6
(* Sequences that grow, change in one place or change everywhere. *)
LEMMA Appended ==
    ASSUME NEW S, NEW f \in Seq(S), NEW x \in S, NEW g, g = Append(f, x)
    PROVE  /\ g \in Seq(S) /\ Len(g) = Len(f) + 1 /\ DOMAIN g = DOMAIN f \cup {Len(f) + 1}
           /\ \A i \in DOMAIN f : g[i] = f[i]
           /\ g[Len(f) + 1] = x /\ Len(f) + 1 \notin DOMAIN f /\ Len(f) + 1 \in Nat
OBVIOUS

LEMMA Replaced ==
    ASSUME NEW S, NEW f \in Seq(S), NEW k \in DOMAIN f, NEW x \in S, NEW g, g = [f EXCEPT ![k] = x]
    PROVE  /\ g \in Seq(S) /\ Len(g) = Len(f) /\ DOMAIN g = DOMAIN f /\ g[k] = x
           /\ \A i \in DOMAIN f \ {k} : g[i] = f[i]
OBVIOUS

LEMMA Mapped ==
    ASSUME NEW S, NEW T, NEW f \in Seq(S), NEW g \in [DOMAIN f -> T]
    PROVE  g \in Seq(T) /\ Len(g) = Len(f) /\ DOMAIN g = DOMAIN f
OBVIOUS

LEMMA SameLength ==
    ASSUME NEW S, NEW T, NEW f \in Seq(S), NEW g \in Seq(T), Len(f) = Len(g)
    PROVE  DOMAIN f = DOMAIN g
OBVIOUS

LEMMA Element ==
    ASSUME NEW S, NEW f \in Seq(S), NEW k \in DOMAIN f
    PROVE  f[k] \in S /\ k \in Nat
OBVIOUS

(* The sequences of one goroutine each have one domain. *)
LEMMA OneDomain ==
    ASSUME Typed
    PROVE  /\ DOMAIN objects = DOMAIN made /\ DOMAIN runPc = DOMAIN made
           /\ DOMAIN reading = DOMAIN made /\ DOMAIN buf = DOMAIN made
           /\ DOMAIN pendingOld = DOMAIN made /\ DOMAIN sent = DOMAIN made
<1>1. objects \in Seq(Object) /\ made \in Seq(Root) /\ Len(made) = Len(objects)
  BY DEF Typed, KernelTyped, RegistryTyped
<1>2. DOMAIN objects = DOMAIN made
  BY <1>1, SameLength
<1>3. DOMAIN runPc = DOMAIN made /\ DOMAIN reading = DOMAIN made
  BY <1>1, SameLength DEF Typed, RunsTyped
<1>4. DOMAIN buf = DOMAIN made /\ DOMAIN pendingOld = DOMAIN made
  BY <1>1, SameLength DEF Typed, RunsTyped
<1>5. DOMAIN sent = DOMAIN made
  BY <1>1, SameLength DEF Typed, RunsTyped
<1> QED BY <1>2, <1>3, <1>4, <1>5

LEMMA TypedGivesTypeOK == Typed => TypeOK
<1> SUFFICES ASSUME Typed PROVE TypeOK
  OBVIOUS
<1>1. DOMAIN open \subseteq 1 .. used /\ \A n \in DOMAIN open : open[n] \in DOMAIN objects
  BY DEF Typed, KernelTyped
<1>2. \A k \in DOMAIN made : (runPc[k] = "parse") = (buf[k] # <<>>)
  BY DEF Typed, RunsTyped
<1>3. runPc \in Seq(Labels)
  BY DEF Typed, RunsTyped
<1>4. \A k \in DOMAIN runPc : runPc[k] \in Labels
  BY <1>3, Element
<1>5. runPc \in [DOMAIN made -> Labels]
  BY <1>3, <1>4, OneDomain
<1>6. Len(objects) = Len(made) /\ files \subseteq Tree
  BY DEF Typed, KernelTyped, RegistryTyped
<1>7. \A p \in DOMAIN roots : made[roots[p]].target.Path = p
  BY DEF Typed, RegistryTyped
<1>8. /\ mu \in Callers \cup {NoOne} /\ closed \in BOOLEAN /\ ended \in BOOLEAN
      /\ events \in 0 .. EventBuffer
      /\ callPc \in [Callers -> {"idle", "ready", "remove", "close"}]
  BY DEF Typed, CallsTyped
<1> QED BY <1>1, <1>2, <1>5, <1>6, <1>7, <1>8 DEF TypeOK

(* What AddOpen makes of the tables: one object and one root more. *)
WithRoot(path, k) == [p \in DOMAIN roots \cup {path} |-> IF p = path THEN k ELSE roots[p]]

Opened(t, n, k) ==
    /\ k \notin DOMAIN made /\ DOMAIN made' = DOMAIN made \cup {k} /\ Len(made') = Len(made) + 1
    /\ \A i \in DOMAIN made : made'[i] = made[i]
    /\ made'[k] = [target |-> t, handle |-> n]
    /\ n \notin DOMAIN open /\ DOMAIN open' = DOMAIN open \cup {n}
    /\ open'[n] = k /\ \A m \in DOMAIN open : open'[m] = open[m]
    /\ DOMAIN objects' = DOMAIN objects \cup {k}
    /\ \A i \in DOMAIN objects : objects'[i] = objects[i]
    /\ objects'[k] = [dir |-> t.WatchPath, recursive |-> t.IsDir /\ t.Recursive,
                      recording |-> FALSE, notes |-> <<>>, lost |-> FALSE,
                      history |-> <<>>, losses |-> FALSE]

LEMMA OpenedTables ==
    ASSUME KernelTyped, RegistryTyped, NEW t \in Targets, NEW n \in 1 .. MaxObjects, NEW k,
           k = Len(made) + 1,
           OpenDirectory(n, t.WatchPath, t.IsDir /\ t.Recursive),
           made' = Append(made, [target |-> t, handle |-> n]),
           roots' = WithRoot(t.Path, k)
    PROVE  KernelTyped' /\ RegistryTyped' /\ Opened(t, n, k)
<1> DEFINE root == [target |-> t, handle |-> n]
           obj  == [dir |-> t.WatchPath, recursive |-> t.IsDir /\ t.Recursive,
                    recording |-> FALSE, notes |-> <<>>, lost |-> FALSE,
                    history |-> <<>>, losses |-> FALSE]
<1>0. made \in Seq(Root) /\ objects \in Seq(Object) /\ Len(objects) = Len(made)
  BY DEF KernelTyped, RegistryTyped
<1>1. t.WatchPath \in Path /\ (t.IsDir /\ t.Recursive) \in BOOLEAN
  BY WindowsAssumption, TreeIsPath
<1>2. obj \in Object
  BY <1>1 DEF Object
<1>3. root \in Root /\ made' = Append(made, root) /\ root.target = t
  BY DEF Root
<1>4. objects' = Append(objects, obj)
  BY DEF OpenDirectory
<1>5. /\ open' = [m \in DOMAIN open \cup {n} |-> IF m = n THEN k ELSE open[m]]
      /\ n \notin DOMAIN open /\ n \in 1 .. used + 1
      /\ used' = IF n > used THEN n ELSE used
      /\ UNCHANGED <<files, renaming>>
  BY <1>0 DEF OpenDirectory
<1>6. obj.notes = <<>>
  OBVIOUS
<1> HIDE DEF root, obj
<1>7. /\ made' \in Seq(Root) /\ Len(made') = Len(made) + 1 /\ made'[k] = root
      /\ DOMAIN made' = DOMAIN made \cup {k} /\ k \notin DOMAIN made /\ k \in Nat
      /\ \A i \in DOMAIN made : made'[i] = made[i]
  BY <1>0, <1>3, Appended
<1>8. /\ objects' \in Seq(Object) /\ Len(objects') = Len(objects) + 1 /\ objects'[k] = obj
      /\ DOMAIN objects' = DOMAIN objects \cup {k}
      /\ \A i \in DOMAIN objects : objects'[i] = objects[i]
  BY <1>0, <1>2, <1>4, Appended
<1>9. used' \in Nat /\ DOMAIN open' \subseteq 1 .. used'
  BY <1>5 DEF KernelTyped
<1>10. open' \in [DOMAIN open' -> DOMAIN objects']
  BY <1>5, <1>8 DEF KernelTyped
<1>11. \A i \in DOMAIN objects' : objects'[i].lost => objects'[i].notes = <<>>
  BY <1>6, <1>8 DEF KernelTyped
<1>12. KernelTyped'
  BY <1>5, <1>8, <1>9, <1>10, <1>11 DEF KernelTyped
<1>13. roots' \in [DOMAIN roots' -> DOMAIN made']
  BY <1>7 DEF RegistryTyped, WithRoot
<1>14. \A p \in DOMAIN roots' : made'[roots'[p]].target.Path = p
  BY <1>3, <1>7 DEF RegistryTyped, WithRoot
<1>15. RegistryTyped'
  BY <1>0, <1>7, <1>8, <1>13, <1>14 DEF RegistryTyped
<1>16. Opened(t, n, k)
  BY <1>0, <1>5, <1>7, <1>8 DEF Opened, root, obj
<1> QED BY <1>12, <1>15, <1>16

(* One goroutine more, that has read nothing. *)
LEMMA OpenedRun ==
    ASSUME RunsTyped, NEW k, k = Len(made) + 1, made \in Seq(Root), made' \in Seq(Root),
           Len(made') = Len(made) + 1,
           runPc' = Append(runPc, "start"), reading' = Append(reading, 0),
           buf' = Append(buf, <<>>), pendingOld' = Append(pendingOld, NoPath),
           sent' = Append(sent, <<>>)
    PROVE  /\ RunsTyped'
           /\ runPc'[k] = "start" /\ buf'[k] = <<>> /\ pendingOld'[k] = NoPath /\ sent'[k] = <<>>
           /\ \A i \in DOMAIN made : /\ runPc'[i] = runPc[i] /\ reading'[i] = reading[i]
                                     /\ buf'[i] = buf[i] /\ pendingOld'[i] = pendingOld[i]
                                     /\ sent'[i] = sent[i]
<1>1. DOMAIN made' = DOMAIN made \cup {k}
  OBVIOUS
<1>2. /\ DOMAIN runPc = DOMAIN made /\ DOMAIN reading = DOMAIN made /\ DOMAIN buf = DOMAIN made
  BY SameLength DEF RunsTyped
<1>3. DOMAIN pendingOld = DOMAIN made /\ DOMAIN sent = DOMAIN made
  BY SameLength DEF RunsTyped
<1>4. "start" \in Labels /\ <<>> \in Seq(Note) /\ <<>> \in Seq(Report)
  BY DEF Labels
<1>5. /\ runPc' \in Seq(Labels) /\ Len(runPc') = Len(made') /\ runPc'[k] = "start"
      /\ \A i \in DOMAIN made : runPc'[i] = runPc[i]
  BY <1>2, <1>4, Appended DEF RunsTyped
<1>6. /\ reading' \in Seq(Nat) /\ Len(reading') = Len(made')
      /\ \A i \in DOMAIN made : reading'[i] = reading[i]
  BY <1>2, Appended DEF RunsTyped
<1>7. /\ buf' \in Seq(Seq(Note)) /\ Len(buf') = Len(made') /\ buf'[k] = <<>>
      /\ \A i \in DOMAIN made : buf'[i] = buf[i]
  BY <1>2, <1>4, Appended DEF RunsTyped
<1>8. /\ pendingOld' \in Seq(Path \cup {NoPath}) /\ Len(pendingOld') = Len(made')
      /\ pendingOld'[k] = NoPath /\ \A i \in DOMAIN made : pendingOld'[i] = pendingOld[i]
  BY <1>3, Appended DEF RunsTyped
<1>9. /\ sent' \in Seq(Seq(Report)) /\ Len(sent') = Len(made') /\ sent'[k] = <<>>
      /\ \A i \in DOMAIN made : sent'[i] = sent[i]
  BY <1>3, <1>4, Appended DEF RunsTyped
<1>10. \A i \in DOMAIN made' : /\ runPc'[i] = "parse" <=> buf'[i] # <<>>
                               /\ runPc'[i] = "waiting" => reading'[i] \in DOMAIN made'
  BY <1>1, <1>5, <1>6, <1>7 DEF RunsTyped
<1>11. RunsTyped'
  BY <1>5, <1>6, <1>7, <1>8, <1>9, <1>10 DEF RunsTyped
<1> QED BY <1>5, <1>6, <1>7, <1>8, <1>9, <1>11

(* Who takes roots out of the map has their handles. *)
LEMMA TakeKeepsTyped ==
    ASSUME Typed, NEW c \in Callers, NEW paths \in SUBSET DOMAIN roots, Take(c, paths),
           UNCHANGED <<kernelVars, mu, made, runVars, events, ended, sent>>,
           closed' \in BOOLEAN, NEW pc \in {"remove", "close"}, Goto(c, pc)
    PROVE  Typed'
<1>1. KernelTyped' /\ RunsTyped'
  BY DEF Typed, KernelTyped, RunsTyped, kernelVars, runVars
<1>2. roots' = [p \in DOMAIN roots \ paths |-> roots[p]] /\ UNCHANGED <<made, objects>>
  BY DEF Take, Restrict, kernelVars
<1>3. roots \in [DOMAIN roots -> DOMAIN made] /\ made \in Seq(Root) /\ Len(made) = Len(objects)
      /\ \A p \in DOMAIN roots : made[roots[p]].target.Path = p
  BY DEF Typed, RegistryTyped
<1>4. RegistryTyped'
  <2>1. DOMAIN roots' \subseteq DOMAIN roots /\ \A p \in DOMAIN roots' : roots'[p] = roots[p]
        /\ roots' \in [DOMAIN roots' -> DOMAIN made]
    BY <1>2, <1>3
  <2>2. \A p \in DOMAIN roots' : made[roots'[p]].target.Path = p
    BY <1>3, <2>1
  <2> QED BY <1>2, <1>3, <2>1, <2>2 DEF RegistryTyped
<1>5. \A p \in paths : made[roots[p]].handle \in Nat
  <2> SUFFICES ASSUME NEW p \in paths PROVE made[roots[p]].handle \in Nat
    OBVIOUS
  <2>1. made[roots[p]] \in Root
    BY <1>3, Element
  <2> QED BY <2>1 DEF Root
<1>6. {made[roots[p]].handle : p \in paths} \in SUBSET Nat
  BY <1>5
<1>7. CallsTyped'
  BY <1>6 DEF Typed, CallsTyped, Take, Goto
<1> QED BY <1>1, <1>4, <1>7 DEF Typed

LEMMA CallKeepsTyped ==
    ASSUME Typed, NEW c \in Callers, Call(c)
    PROVE  Typed'
<1>1. CASE AddOpen(c)
  <2>1. PICK t \in Targets, n \in 1 .. MaxObjects :
          /\ OpenDirectory(n, t.WatchPath, t.IsDir /\ t.Recursive)
          /\ made' = Append(made, [target |-> t, handle |-> n])
          /\ roots' = WithRoot(t.Path, Len(made) + 1)
          /\ runPc' = Append(runPc, "start") /\ reading' = Append(reading, 0)
          /\ buf' = Append(buf, <<>>) /\ pendingOld' = Append(pendingOld, NoPath)
          /\ sent' = Append(sent, <<>>)
    BY <1>1 DEF AddOpen, WithRoot
  <2>2. KernelTyped' /\ RegistryTyped' /\ Len(made') = Len(made) + 1
    BY <2>1, OpenedTables DEF Typed, Opened
  <2>3. RunsTyped'
    BY <2>1, <2>2, OpenedRun DEF Typed, RegistryTyped
  <2>4. /\ mu' = c /\ callPc' = [callPc EXCEPT ![c] = "ready"]
        /\ UNCHANGED <<closed, events, ended, hands>>
    BY <1>1 DEF AddOpen, channel, Goto
  <2>5. CallsTyped'
    BY <2>4 DEF Typed, CallsTyped
  <2> QED BY <2>2, <2>3, <2>5 DEF Typed
<1>2. CASE AddReturns(c)
  <2>1. KernelTyped' /\ RegistryTyped' /\ RunsTyped'
    BY <1>2 DEF AddReturns, Typed, KernelTyped, RegistryTyped, RunsTyped, kernelVars, runVars, history
  <2>2. CallsTyped'
    BY <1>2 DEF AddReturns, Typed, CallsTyped, Goto, channel
  <2> QED BY <2>1, <2>2 DEF Typed
<1>3. CASE RemoveTake(c)
  <2>1. PICK path \in DOMAIN roots : Take(c, {path}) /\ Goto(c, "remove")
    BY <1>3 DEF RemoveTake
  <2>2. UNCHANGED <<kernelVars, mu, made, runVars, events, ended, sent, closed>>
    BY <1>3 DEF RemoveTake, channel, history
  <2>3. closed' \in BOOLEAN /\ {path} \in SUBSET DOMAIN roots
    BY <2>2 DEF Typed, CallsTyped
  <2> QED BY <2>1, <2>2, <2>3, TakeKeepsTyped
<1>4. CASE CloseTake(c)
  <2>1. Take(c, DOMAIN roots) /\ Goto(c, "close") /\ closed' \in BOOLEAN
    BY <1>4 DEF CloseTake
  <2>2. UNCHANGED <<kernelVars, mu, made, runVars, events, ended, sent>>
    BY <1>4 DEF CloseTake, channel, history
  <2> QED BY <2>1, <2>2, TakeKeepsTyped
<1>5. CASE HandleClosed(c)
  <2>1. PICK n \in hands[c], how \in {"error", "overflow"} :
          /\ open' = Restrict(open, DOMAIN open \ {n})
          /\ hands' = [hands EXCEPT ![c] = @ \ {n}]
          /\ runPc' = [k \in DOMAIN runPc |->
                IF runPc[k] = "waiting" /\ reading[k] \in {open[m] : m \in {n} \cap DOMAIN open}
                THEN how ELSE runPc[k]]
    BY <1>5 DEF HandleClosed
  <2>2. UNCHANGED <<files, used, objects, renaming, mu, closed, roots, made, events, ended,
                    reading, buf, pendingOld, sent>>
        /\ Goto(c, IF callPc[c] = "remove" THEN "idle" ELSE "close")
    BY <1>5 DEF HandleClosed, registry, channel, history
  <2>3. KernelTyped'
    BY <2>1, <2>2 DEF Typed, KernelTyped, Restrict
  <2>4. RegistryTyped'
    BY <2>2 DEF Typed, RegistryTyped
  <2>5. RunsTyped'
    <3>1. DOMAIN runPc = DOMAIN made /\ runPc \in Seq(Labels) /\ Len(runPc) = Len(made)
      BY OneDomain DEF Typed, RunsTyped
    <3>2. \A k \in DOMAIN runPc : runPc[k] \in Labels
      BY <3>1, Element
    <3>3. \A k \in DOMAIN runPc : /\ runPc'[k] \in Labels
                                  /\ runPc'[k] = "parse" <=> runPc[k] = "parse"
                                  /\ runPc'[k] = "waiting" => runPc[k] = "waiting"
      BY <2>1, <3>2 DEF Labels
    <3>4. runPc' \in [DOMAIN runPc -> Labels]
      BY <2>1, <3>3
    <3>5. runPc' \in Seq(Labels) /\ Len(runPc') = Len(made)
      BY <3>1, <3>4, Mapped
    <3> QED BY <2>2, <3>1, <3>3, <3>5 DEF Typed, RunsTyped
  <2>6. CallsTyped'
    BY <2>1, <2>2 DEF Typed, CallsTyped, Goto
  <2> QED BY <2>3, <2>4, <2>5, <2>6 DEF Typed
<1>6. CASE CloseEnds(c)
  <2>1. KernelTyped' /\ RegistryTyped' /\ RunsTyped'
    BY <1>6 DEF CloseEnds, Typed, KernelTyped, RegistryTyped, RunsTyped, kernelVars, registry,
       runVars, history
  <2>2. CallsTyped'
    BY <1>6 DEF CloseEnds, Typed, CallsTyped, Goto, registry
  <2> QED BY <2>1, <2>2 DEF Typed
<1> QED BY <1>1, <1>2, <1>3, <1>4, <1>5, <1>6 DEF Call

----------------------------------------------------------------------------
(* The goroutine of the k-th root at its label. *)
LEMMA RunLocals ==
    ASSUME Typed, NEW k \in DOMAIN runPc
    PROVE  /\ k \in DOMAIN made /\ k \in DOMAIN objects
           /\ runPc[k] \in Labels /\ buf[k] \in Seq(Note) /\ sent[k] \in Seq(Report)
           /\ pendingOld[k] \in Path \cup {NoPath}
           /\ runPc[k] = "parse" <=> buf[k] # <<>>
           /\ runPc[k] = "waiting" => reading[k] \in DOMAIN objects
           /\ made[k] \in Root /\ objects[k] \in Object
<1>1. k \in DOMAIN made /\ k \in DOMAIN objects /\ k \in DOMAIN buf /\ k \in DOMAIN sent
      /\ k \in DOMAIN pendingOld /\ DOMAIN made = DOMAIN objects
  BY OneDomain
<1>2. runPc[k] \in Labels /\ buf[k] \in Seq(Note)
  BY <1>1, Element DEF Typed, RunsTyped
<1>3. sent[k] \in Seq(Report) /\ pendingOld[k] \in Path \cup {NoPath}
  BY <1>1, Element DEF Typed, RunsTyped
<1>4. made[k] \in Root /\ objects[k] \in Object
  BY <1>1, Element DEF Typed, RegistryTyped, KernelTyped
<1>5. runPc[k] = "parse" <=> buf[k] # <<>>
  BY <1>1 DEF Typed, RunsTyped
<1>6. runPc[k] = "waiting" => reading[k] \in DOMAIN objects
  BY <1>1 DEF Typed, RunsTyped
<1> QED BY <1>1, <1>2, <1>3, <1>4, <1>5, <1>6

(* The goroutine goes on to a label with a buffer that agrees with it. *)
LEMMA RunMoves ==
    ASSUME Typed, NEW k \in DOMAIN runPc, NEW label \in Labels, RunGoto(k, label),
           NEW b \in Seq(Note), buf' = [buf EXCEPT ![k] = b], label = "parse" <=> b # <<>>,
           UNCHANGED <<made, reading>>, label = "waiting" => reading[k] \in DOMAIN made
    PROVE  /\ runPc' \in Seq(Labels) /\ Len(runPc') = Len(made')
           /\ reading' \in Seq(Nat) /\ Len(reading') = Len(made')
           /\ buf' \in Seq(Seq(Note)) /\ Len(buf') = Len(made')
           /\ \A i \in DOMAIN made' : /\ runPc'[i] = "parse" <=> buf'[i] # <<>>
                                      /\ runPc'[i] = "waiting" => reading'[i] \in DOMAIN made'
<1>1. DOMAIN runPc = DOMAIN made /\ DOMAIN buf = DOMAIN made
  BY OneDomain
<1>2. /\ runPc' \in Seq(Labels) /\ Len(runPc') = Len(made) /\ runPc'[k] = label
      /\ \A i \in DOMAIN made \ {k} : runPc'[i] = runPc[i]
  BY <1>1, Replaced DEF Typed, RunsTyped, RunGoto
<1>3. /\ buf' \in Seq(Seq(Note)) /\ Len(buf') = Len(made) /\ buf'[k] = b
      /\ \A i \in DOMAIN made \ {k} : buf'[i] = buf[i]
  BY <1>1, Replaced DEF Typed, RunsTyped
<1>4. \A i \in DOMAIN made : /\ runPc'[i] = "parse" <=> buf'[i] # <<>>
                             /\ runPc'[i] = "waiting" => reading'[i] \in DOMAIN made
  BY <1>2, <1>3 DEF Typed, RunsTyped
<1> QED BY <1>2, <1>3, <1>4 DEF Typed, RunsTyped

(* A step to a label at which nothing is in the buffer, from another one. *)
LEMMA RunSteps ==
    ASSUME Typed, NEW k \in DOMAIN runPc, NEW label \in Labels \ {"parse", "waiting"},
           RunGoto(k, label), runPc[k] # "parse", UNCHANGED <<made, reading, buf, pendingOld, sent>>
    PROVE  RunsTyped'
<1>1. buf[k] = <<>> /\ buf[k] \in Seq(Note)
  BY RunLocals
<1>2. buf' = [buf EXCEPT ![k] = <<>>] /\ <<>> \in Seq(Note)
  BY <1>1 DEF Typed, RunsTyped
<1> QED BY <1>2, RunMoves DEF Typed, RunsTyped

LEMMA AdvanceMoves ==
    ASSUME Typed, NEW k \in DOMAIN runPc, runPc[k] = "parse", Advance(k), UNCHANGED <<made, reading>>
    PROVE  /\ runPc' \in Seq(Labels) /\ Len(runPc') = Len(made')
           /\ reading' \in Seq(Nat) /\ Len(reading') = Len(made')
           /\ buf' \in Seq(Seq(Note)) /\ Len(buf') = Len(made')
           /\ \A i \in DOMAIN made' : /\ runPc'[i] = "parse" <=> buf'[i] # <<>>
                                      /\ runPc'[i] = "waiting" => reading'[i] \in DOMAIN made'
<1> DEFINE label == IF Len(buf[k]) = 1 THEN "read" ELSE "parse"
<1>1. buf[k] \in Seq(Note) /\ buf[k] # <<>>
  BY RunLocals
<1>5. Tail(buf[k]) \in Seq(Note) /\ Len(Tail(buf[k])) = Len(buf[k]) - 1 /\ Len(buf[k]) \in Nat
  BY <1>1, HeadTailProperties, LenProperties
<1>6. Tail(buf[k]) = <<>> <=> Len(Tail(buf[k])) = 0
  BY <1>5, EmptySeq, LenProperties
<1>4. Tail(buf[k]) \in Seq(Note) /\ (Len(buf[k]) = 1 <=> Tail(buf[k]) = <<>>)
  BY <1>5, <1>6
<1>2. Tail(buf[k]) \in Seq(Note) /\ (label = "parse" <=> Tail(buf[k]) # <<>>)
  BY <1>4
<1>3. label \in Labels /\ label # "waiting" /\ RunGoto(k, label)
      /\ buf' = [buf EXCEPT ![k] = Tail(buf[k])]
  BY DEF Labels, Advance
<1> HIDE DEF label
<1> QED BY <1>2, <1>3, RunMoves

(* The path of a record, and the event made of it. *)
LEMMA ParsedTyped ==
    ASSUME Typed, NEW k \in DOMAIN runPc, runPc[k] = "parse"
    PROVE  /\ Head(buf[k]) \in Note /\ FullPath(k) \in Path
           /\ Head(buf[k]).action # "RENAMED_OLD_NAME" => EventOf(k) \in Seq(Report)
<1>1. Head(buf[k]) \in Note
  BY RunLocals
<1>2. made[k] \in Root /\ pendingOld[k] \in Path \cup {NoPath}
  BY RunLocals
<1>3. made[k].target.WatchPath \in Path
  BY <1>2, WindowsAssumption, TreeIsPath DEF Root
<1>4. FullPath(k) \in Path
  BY <1>1, <1>3 DEF FullPath, Note, Path
<1>5. Head(buf[k]).action \in Actions
  BY <1>1 DEF Note
<1>6. ASSUME NEW op \in {"create", "remove", "write", "rename"}, NEW path \in Path, NEW old \in Path \cup {NoPath}
      PROVE  Told(op, path, old) \in Seq(Report)
  <2>1. [op |-> op, path |-> path, old |-> old] \in Report
    BY <1>6 DEF Report
  <2> QED BY <2>1 DEF Told
<1>7. Head(buf[k]).action # "RENAMED_OLD_NAME" => EventOf(k) \in Seq(Report)
  <2>1. Told("create", FullPath(k), NoPath) \in Seq(Report)
    BY <1>4, <1>6
  <2>2. Told("remove", FullPath(k), NoPath) \in Seq(Report)
    BY <1>4, <1>6
  <2>3. Told("write", FullPath(k), NoPath) \in Seq(Report)
    BY <1>4, <1>6
  <2>4. Told(IF pendingOld[k] = NoPath THEN "create" ELSE "rename", FullPath(k), pendingOld[k]) \in Seq(Report)
    BY <1>2, <1>4, <1>6
  <2> QED BY <1>5, <2>1, <2>2, <2>3, <2>4 DEF EventOf, Actions
<1> QED BY <1>1, <1>4, <1>7

LEMMA RunKeepsTyped ==
    ASSUME Typed, NEW k \in DOMAIN runPc, RunRoot(k) \/ ReadFails(k)
    PROVE  Typed'
<1>1. CASE RunStarts(k) \/ ReadRefused(k) \/ ReadFails(k) \/ RunEnds(k) \/ EmitOverflow(k)
  <2>1. PICK label \in {"read", "error", "done"} : RunGoto(k, label)
    BY <1>1 DEF RunStarts, ReadRefused, ReadFails, RunEnds, EmitOverflow
  <2>2. runPc[k] # "parse" /\ UNCHANGED <<made, reading, buf, pendingOld, sent>>
    BY <1>1 DEF RunStarts, ReadRefused, ReadFails, RunEnds, EmitOverflow, registry, history
  <2>3. label \in Labels \ {"parse", "waiting"}
    BY DEF Labels
  <2>4. RunsTyped'
    BY <2>1, <2>2, <2>3, RunSteps
  <2>5. UNCHANGED <<kernelVars, roots, made, mu, closed, ended, callPc, hands>>
    BY <1>1 DEF RunStarts, ReadRefused, ReadFails, RunEnds, EmitOverflow, registry, channel, callVars, Send
  <2>6. KernelTyped' /\ RegistryTyped'
    BY <2>5 DEF Typed, KernelTyped, RegistryTyped, kernelVars
  <2>7. events' \in 0 .. EventBuffer
    BY <1>1, WindowsAssumption DEF RunStarts, ReadRefused, ReadFails, RunEnds, EmitOverflow, channel, Send,
       Typed, CallsTyped
  <2>8. CallsTyped'
    BY <2>5, <2>7 DEF Typed, CallsTyped
  <2> QED BY <2>4, <2>6, <2>8 DEF Typed
<1>2. CASE ReadBegins(k)
  <2> DEFINE j == open[made[k].handle]
  <2>1. /\ made[k].handle \in DOMAIN open /\ runPc[k] = "read" /\ RunGoto(k, "waiting")
        /\ reading' = [reading EXCEPT ![k] = j]
        /\ objects' = [objects EXCEPT ![j].recording = TRUE]
        /\ UNCHANGED <<files, open, used, renaming, registry, channel, buf, pendingOld, callVars, sent>>
    BY <1>2 DEF ReadBegins
  <2>2. j \in DOMAIN objects /\ objects \in Seq(Object) /\ Len(made) = Len(objects) /\ j \in DOMAIN made
    BY <2>1, OneDomain DEF Typed, KernelTyped, RegistryTyped
  <2> HIDE DEF j
  <2>15. j \in Nat /\ objects[j] \in Object
    BY <2>2, Element
  <2>3. [objects[j] EXCEPT !.recording = TRUE] \in Object
    BY <2>15 DEF Object
  <2>4. objects' = [objects EXCEPT ![j] = [objects[j] EXCEPT !.recording = TRUE]]
    BY <2>1
  <2>5. /\ objects' \in Seq(Object) /\ Len(objects') = Len(objects) /\ DOMAIN objects' = DOMAIN objects
        /\ objects'[j] = [objects[j] EXCEPT !.recording = TRUE]
        /\ \A i \in DOMAIN objects \ {j} : objects'[i] = objects[i]
    BY <2>2, <2>3, <2>4, Replaced
  <2>6. \A i \in DOMAIN objects : objects'[i].lost = objects[i].lost /\ objects'[i].notes = objects[i].notes
    BY <2>15, <2>5 DEF Object
  <2>7. KernelTyped'
    BY <2>1, <2>5, <2>6 DEF Typed, KernelTyped
  <2>8. RegistryTyped'
    BY <2>1, <2>5 DEF Typed, RegistryTyped, registry
  <2>9. CallsTyped'
    BY <2>1 DEF Typed, CallsTyped, registry, channel, callVars
  <2>10. DOMAIN runPc = DOMAIN made /\ DOMAIN reading = DOMAIN made
    BY OneDomain
  <2>11. /\ runPc' \in Seq(Labels) /\ Len(runPc') = Len(made) /\ runPc'[k] = "waiting"
         /\ \A i \in DOMAIN made \ {k} : runPc'[i] = runPc[i]
    BY <2>1, <2>10, Replaced DEF Typed, RunsTyped, RunGoto, Labels
  <2>12. /\ reading' \in Seq(Nat) /\ Len(reading') = Len(made) /\ reading'[k] = j
         /\ \A i \in DOMAIN made \ {k} : reading'[i] = reading[i]
    BY <2>1, <2>15, <2>10, Replaced DEF Typed, RunsTyped
  <2>13. \A i \in DOMAIN made : /\ runPc'[i] = "parse" <=> buf[i] # <<>>
                                /\ runPc'[i] = "waiting" => reading'[i] \in DOMAIN made
    BY <2>1, <2>2, <2>11, <2>12 DEF Typed, RunsTyped
  <2>14. RunsTyped'
    BY <2>1, <2>11, <2>12, <2>13 DEF Typed, RunsTyped, registry
  <2> QED BY <2>7, <2>8, <2>9, <2>14 DEF Typed
<1>3. CASE ReadReturns(k)
  <2> DEFINE j == reading[k]
  <2>1. /\ runPc[k] = "waiting" /\ (objects[j].lost \/ objects[j].notes # <<>>)
        /\ RunGoto(k, IF objects[j].lost THEN "overflow" ELSE "parse")
        /\ buf' = [buf EXCEPT ![k] = objects[j].notes]
        /\ objects' = [objects EXCEPT ![j].notes = <<>>, ![j].lost = FALSE]
        /\ UNCHANGED <<files, open, used, renaming, registry, channel, reading, pendingOld, callVars, sent>>
    BY <1>3 DEF ReadReturns, history
  <2>2. j \in DOMAIN objects /\ objects \in Seq(Object)
    BY <2>1, RunLocals DEF Typed, KernelTyped
  <2> HIDE DEF j
  <2>3. objects[j] \in Object /\ (objects[j].lost => objects[j].notes = <<>>)
    BY <2>2, Element DEF Typed, KernelTyped
  <2> DEFINE after == [objects[j] EXCEPT !.notes = <<>>, !.lost = FALSE]
  <2>13. objects[j].notes \in Seq(Note) /\ objects[j].lost \in BOOLEAN
    BY <2>3 DEF Object
  <2>14. ASSUME NEW obj \in Object
         PROVE  /\ [obj EXCEPT !.notes = <<>>, !.lost = FALSE] \in Object
                /\ ~[obj EXCEPT !.notes = <<>>, !.lost = FALSE].lost
    <3>1. <<>> \in Seq(Note)
      OBVIOUS
    <3>2. [obj EXCEPT !.notes = <<>>, !.lost = FALSE] \in Object
      BY <3>1 DEF Object
    <3>3. ~[obj EXCEPT !.notes = <<>>, !.lost = FALSE].lost
      BY DEF Object
    <3> QED BY <3>2, <3>3
  <2>11. after \in Object /\ ~after.lost
    BY <2>3, <2>14
  <2>12. objects' = [objects EXCEPT ![j] = after]
    BY <2>1, <2>2
  <2>4. objects' = [objects EXCEPT ![j] = after] /\ after \in Object /\ ~after.lost
        /\ objects[j].notes \in Seq(Note) /\ objects[j].lost \in BOOLEAN
    BY <2>11, <2>12, <2>13
  <2> HIDE DEF after
  <2>5. /\ objects' \in Seq(Object) /\ Len(objects') = Len(objects) /\ DOMAIN objects' = DOMAIN objects
        /\ objects'[j] = after /\ \A i \in DOMAIN objects \ {j} : objects'[i] = objects[i]
    BY <2>2, <2>4, Replaced
  <2>6. KernelTyped'
    BY <2>1, <2>4, <2>5 DEF Typed, KernelTyped
  <2>7. RegistryTyped'
    BY <2>1, <2>5 DEF Typed, RegistryTyped, registry
  <2>8. CallsTyped'
    BY <2>1 DEF Typed, CallsTyped, registry, channel, callVars
  <2> DEFINE label == IF objects[j].lost THEN "overflow" ELSE "parse"
  <2>9. label \in Labels /\ label # "waiting" /\ RunGoto(k, label)
        /\ (label = "parse" <=> objects[j].notes # <<>>)
    BY <2>1, <2>3 DEF Labels
  <2> HIDE DEF label
  <2>10. RunsTyped'
    BY <2>1, <2>4, <2>9, RunMoves DEF Typed, RunsTyped, registry
  <2> QED BY <2>6, <2>7, <2>8, <2>10 DEF Typed
<1>4. CASE KeepOldName(k) \/ EmitRecord(k)
  <2>1. /\ runPc[k] = "parse" /\ Advance(k)
        /\ UNCHANGED <<kernelVars, registry, reading, callVars, ended>>
    BY <1>4 DEF KeepOldName, EmitRecord, channel, Send
  <2>2. DOMAIN pendingOld = DOMAIN made /\ DOMAIN sent = DOMAIN made /\ k \in DOMAIN made
    BY OneDomain
  <2>3. pendingOld' \in Seq(Path \cup {NoPath}) /\ Len(pendingOld') = Len(made)
    <3>1. /\ pendingOld \in Seq(Path \cup {NoPath}) /\ Len(pendingOld) = Len(made)
      BY DEF Typed, RunsTyped
    <3>2. PICK x \in Path \cup {NoPath} : pendingOld' \in {pendingOld, [pendingOld EXCEPT ![k] = x]}
      BY <1>4, <2>1, ParsedTyped DEF KeepOldName, EmitRecord
    <3> QED BY <2>2, <3>1, <3>2, Replaced
  <2>4. sent' \in Seq(Seq(Report)) /\ Len(sent') = Len(made)
    <3>1. sent \in Seq(Seq(Report)) /\ Len(sent) = Len(made)
      BY DEF Typed, RunsTyped
    <3>2. CASE KeepOldName(k)
      BY <3>1, <3>2 DEF KeepOldName, history
    <3>3. CASE EmitRecord(k)
      <4>1. sent' = [sent EXCEPT ![k] = sent[k] \o EventOf(k)] /\ EventOf(k) \in Seq(Report)
        BY <2>1, <3>3, ParsedTyped DEF EmitRecord
      <4>2. sent[k] \o EventOf(k) \in Seq(Report)
        BY <4>1, RunLocals
      <4> QED BY <2>2, <3>1, <4>1, <4>2, Replaced
    <3> QED BY <1>4, <3>2, <3>3
  <2>5. RunsTyped'
    BY <2>1, <2>3, <2>4, AdvanceMoves DEF RunsTyped, registry
  <2>6. KernelTyped' /\ RegistryTyped'
    BY <2>1 DEF Typed, KernelTyped, RegistryTyped, kernelVars, registry
  <2>7. events' \in 0 .. EventBuffer
    BY <1>4, WindowsAssumption DEF KeepOldName, EmitRecord, channel, Send, Typed, CallsTyped
  <2>8. CallsTyped'
    BY <2>1, <2>7 DEF Typed, CallsTyped, registry, callVars
  <2> QED BY <2>5, <2>6, <2>8 DEF Typed
<1> QED BY <1>1, <1>2, <1>3, <1>4 DEF RunRoot

----------------------------------------------------------------------------
(* A change on disk: every object makes of it what Recorded does. *)
Changed(action, path) ==
    /\ objects' = [k \in DOMAIN objects |-> objects'[k]]
    /\ \A k \in DOMAIN objects :
         \E told \in Seq(Report) : objects'[k] = Recorded(objects[k], action, path, told)

LEMMA ChangedKeepsObjects ==
    ASSUME Typed, NEW action \in Actions, NEW path \in Tree, Changed(action, path)
    PROVE  /\ objects' \in Seq(Object) /\ Len(objects') = Len(objects)
           /\ DOMAIN objects' = DOMAIN objects
           /\ \A k \in DOMAIN objects : objects'[k].lost => objects'[k].notes = <<>>
<1>1. objects \in Seq(Object)
  BY DEF Typed, KernelTyped
<1>2. ASSUME NEW k \in DOMAIN objects
      PROVE  /\ objects'[k] \in Object
             /\ objects'[k].lost => objects'[k].notes = <<>>
  <2>1. objects[k] \in Object /\ (objects[k].lost => objects[k].notes = <<>>)
    BY <1>1, Element DEF Typed, KernelTyped
  <2>2. PICK told \in Seq(Report) : objects'[k] = Recorded(objects[k], action, path, told)
    BY DEF Changed
  <2> QED BY <2>1, <2>2, RecordedIsObject
<1>3. objects' \in [DOMAIN objects -> Object]
  BY <1>2 DEF Changed
<1> QED BY <1>1, <1>2, <1>3, Mapped

(* What the goroutines have to be told of a change is a report. *)
LEMMA ToldIsReport ==
    ASSUME NEW op \in {"create", "remove", "write", "rename"}, NEW path \in Path,
           NEW old \in Path \cup {NoPath}
    PROVE  Told(op, path, old) \in Seq(Report)
<1>1. [op |-> op, path |-> path, old |-> old] \in Report
  BY DEF Report
<1> QED BY <1>1 DEF Told

LEMMA DiskIsChanged ==
    ASSUME Typed, DiskChanges
    PROVE  /\ files' \subseteq Tree /\ UNCHANGED <<open, used>>
           /\ renaming' \in {NoRename} \cup (Tree \X Tree \X SUBSET Nat)
           /\ \E action \in Actions, path \in Tree : Changed(action, path)
<1>1. ASSUME NEW path \in Tree, Make(path) \/ Delete(path) \/ Write(path)
      PROVE  \E action \in Actions : Changed(action, path)
  <2>1. path \in Path
    BY TreeIsPath
  <2>2. PICK action \in {"ADDED", "REMOVED", "MODIFIED"}, op \in {"create", "remove", "write"} :
          Record(action, path, Told(op, path, NoPath))
    BY <1>1 DEF Make, Delete, Write
  <2>3. Told(op, path, NoPath) \in Seq(Report)
    BY <2>1, ToldIsReport
  <2>4. Changed(action, path)
    BY <2>2, <2>3 DEF Record, Changed
  <2> QED BY <2>4 DEF Actions
<1>2. CASE \E path \in Tree : Make(path) \/ Delete(path) \/ Write(path)
  <2>1. PICK path \in Tree : Make(path) \/ Delete(path) \/ Write(path)
    BY <1>2
  <2>2. \E action \in Actions : Changed(action, path)
    BY <1>1, <2>1
  <2>3. files' \subseteq Tree /\ UNCHANGED <<open, used, renaming>>
    BY <2>1 DEF Make, Delete, Write, Typed, KernelTyped
  <2> QED BY <2>2, <2>3 DEF Typed, KernelTyped
<1>3. CASE \E old, new \in Tree : RenameFrom(old, new)
  <2>1. PICK old, new \in Tree : RenameFrom(old, new)
    BY <1>3
  <2>2. Record("RENAMED_OLD_NAME", old, <<>>) /\ <<>> \in Seq(Report)
    BY <2>1 DEF RenameFrom
  <2>3. Changed("RENAMED_OLD_NAME", old)
    BY <2>2 DEF Record, Changed
  <2>4. DOMAIN objects \in SUBSET Nat
    BY DEF Typed, KernelTyped
  <2>5. renaming' \in Tree \X Tree \X SUBSET Nat
    BY <2>1, <2>4 DEF RenameFrom
  <2>6. files' \subseteq Tree /\ UNCHANGED <<open, used>>
    BY <2>1 DEF RenameFrom, Typed, KernelTyped
  <2> QED BY <2>3, <2>5, <2>6 DEF Actions
<1>4. CASE RenameTo
  <2>1. renaming \in Tree \X Tree \X SUBSET Nat
    BY <1>4 DEF RenameTo, Typed, KernelTyped
  <2>2. renaming[1] \in Tree /\ renaming[2] \in Tree
    BY <2>1
  <2>3. renaming[1] \in Path /\ renaming[2] \in Path
    BY <2>2, TreeIsPath
  <2>4. Told("rename", renaming[2], renaming[1]) \in Seq(Report)
    BY <2>3, ToldIsReport
  <2>5. Told("create", renaming[2], NoPath) \in Seq(Report)
    BY <2>3, ToldIsReport
  <2>6. Changed("RENAMED_NEW_NAME", renaming[2])
    BY <1>4, <2>4, <2>5 DEF RenameTo, Changed
  <2>7. files' \subseteq Tree /\ UNCHANGED <<open, used>> /\ renaming' = NoRename
    BY <1>4 DEF RenameTo, Typed, KernelTyped
  <2> QED BY <2>2, <2>6, <2>7 DEF Actions
<1> QED BY <1>2, <1>3, <1>4 DEF DiskChanges

LEMMA EnvironmentKeepsTyped ==
    ASSUME Typed, Environment
    PROVE  Typed'
<1>1. UNCHANGED <<registry, channel, runVars, callVars, history>> /\ DiskChanges
  BY DEF Environment
<1>2. /\ objects' \in Seq(Object) /\ Len(objects') = Len(objects)
      /\ DOMAIN objects' = DOMAIN objects
      /\ \A k \in DOMAIN objects : objects'[k].lost => objects'[k].notes = <<>>
  BY <1>1, DiskIsChanged, ChangedKeepsObjects
<1>3. KernelTyped'
  BY <1>1, <1>2, DiskIsChanged DEF Typed, KernelTyped
<1>4. RegistryTyped' /\ RunsTyped'
  BY <1>1, <1>2 DEF Typed, RegistryTyped, RunsTyped, registry, runVars, history
<1>5. CallsTyped'
  BY <1>1 DEF Typed, CallsTyped, registry, channel, callVars
<1> QED BY <1>3, <1>4, <1>5 DEF Typed

LEMMA TypedStep == Typed /\ [Next]_vars => Typed'
<1> SUFFICES ASSUME Typed, [Next]_vars PROVE Typed'
  OBVIOUS
<1>1. CASE Receive
  <2>1. UNCHANGED <<kernelVars, registry, ended, runVars, callVars, history>> /\ events' = events - 1
        /\ events > 0
    BY <1>1 DEF Receive
  <2>2. KernelTyped' /\ RegistryTyped' /\ RunsTyped'
    BY <2>1 DEF Typed, KernelTyped, RegistryTyped, RunsTyped, kernelVars, registry, runVars, history
  <2>3. CallsTyped'
    BY <2>1, WindowsAssumption DEF Typed, CallsTyped, registry, callVars
  <2> QED BY <2>2, <2>3 DEF Typed
<1>2. CASE UNCHANGED vars
  <2>1. UNCHANGED <<kernelVars, registry, channel, runVars, callVars, history>>
    BY <1>2 DEF vars
  <2>2. KernelTyped' /\ RegistryTyped' /\ RunsTyped'
    BY <2>1 DEF Typed, KernelTyped, RegistryTyped, RunsTyped, kernelVars, registry, runVars, history
  <2>3. CallsTyped'
    BY <2>1 DEF Typed, CallsTyped, registry, channel, callVars
  <2> QED BY <2>2, <2>3 DEF Typed
<1> QED BY <1>1, <1>2, CallKeepsTyped, RunKeepsTyped, EnvironmentKeepsTyped DEF Next

(***************************************************************************)
(* Every table of the backend and of the kernel below it is well formed,   *)
(* and the goroutines, the objects and the roots are as many.              *)
(***************************************************************************)
THEOREM TypeInvariant == Spec => []TypeOK
<1> QED BY TypedInit, TypedStep, TypedGivesTypeOK, PTL DEF Spec

----------------------------------------------------------------------------
(* Handles.  Every open one is a registered root's, for its own object, or
   in the hands of one call; no object has two. *)

RootsOpen ==
    \A p \in DOMAIN roots : /\ made[roots[p]].handle \in DOMAIN open
                            /\ open[made[roots[p]].handle] = roots[p]

HandsOpen ==
    /\ \A c \in Callers : hands[c] \subseteq DOMAIN open
    /\ \A c \in Callers, p \in DOMAIN roots : made[roots[p]].handle \notin hands[c]
    /\ \A b, c \in Callers : b # c => hands[b] \cap hands[c] = {}

AllOwned ==
    \A n \in DOMAIN open : \/ \E p \in DOMAIN roots : made[roots[p]].handle = n
                           \/ \E c \in Callers : n \in hands[c]

OneNumberEach == \A m, n \in DOMAIN open : open[m] = open[n] => m = n

Handles == RootsOpen /\ HandsOpen /\ AllOwned /\ OneNumberEach

LEMMA HandlesGiveOwners == Typed /\ Handles => HandlesHaveOneOwner
<1> SUFFICES ASSUME Typed, Handles PROVE HandlesHaveOneOwner
  OBVIOUS
<1>1. \A c \in Callers : hands[c] \subseteq DOMAIN open
  BY DEF Handles, HandsOpen
<1>2. ASSUME NEW n \in DOMAIN open, NEW p \in DOMAIN roots, made[roots[p]].handle = n
      PROVE  Owned(n) /\ \A c \in Callers : n \notin hands[c]
  BY <1>2 DEF Handles, HandsOpen, RootsOpen, Owned
<1>3. ASSUME NEW n \in DOMAIN open, NEW c \in Callers, n \in hands[c]
      PROVE  /\ ~ \E p \in DOMAIN roots : made[roots[p]].handle = n
             /\ \A b \in Callers \ {c} : n \notin hands[b]
  BY <1>3 DEF Handles, HandsOpen
<1> QED BY <1>1, <1>2, <1>3 DEF HandlesHaveOneOwner, Handles, AllOwned

(* Roots have different numbers and different handles. *)
LEMMA RootsDiffer ==
    ASSUME Typed, RootsOpen, NEW p \in DOMAIN roots, NEW q \in DOMAIN roots,
           made[roots[p]].handle = made[roots[q]].handle
    PROVE  p = q
<1>1. roots[p] = roots[q]
  BY DEF RootsOpen
<1> QED BY <1>1 DEF Typed, RegistryTyped

LEMMA TakeKeepsHandles ==
    ASSUME Typed, Handles, Lifetimes, NEW c \in Callers, callPc[c] = "idle",
           NEW paths \in SUBSET DOMAIN roots, Take(c, paths), UNCHANGED <<open, made>>
    PROVE  Handles'
<1>1. hands[c] = {}
  BY DEF Lifetimes, HandsTaken
<1>2. /\ DOMAIN roots' = DOMAIN roots \ paths /\ \A p \in DOMAIN roots' : roots'[p] = roots[p]
      /\ hands'[c] = {made[roots[p]].handle : p \in paths}
      /\ \A b \in Callers \ {c} : hands'[b] = hands[b]
  BY DEF Take, Restrict, Lifetimes, CallersTyped
<1>3. RootsOpen' /\ OneNumberEach'
  BY <1>2 DEF Handles, RootsOpen, OneNumberEach
<1>4. \A p \in DOMAIN roots' : made'[roots'[p]].handle \notin hands'[c]
  <2> SUFFICES ASSUME NEW p \in DOMAIN roots', NEW q \in paths, made[roots[p]].handle = made[roots[q]].handle
               PROVE  FALSE
    BY <1>2
  <2>1. p = q
    BY <1>2, RootsDiffer DEF Handles
  <2> QED BY <1>2, <2>1
<1>5. HandsOpen'
  <2>1. hands'[c] \subseteq DOMAIN open'
    BY <1>2 DEF Handles, RootsOpen
  <2>2. \A b \in Callers \ {c} : hands'[b] \cap hands'[c] = {}
    BY <1>2 DEF Handles, HandsOpen
  <2> QED BY <1>2, <1>4, <2>1, <2>2 DEF Handles, HandsOpen
<1>6. AllOwned'
  <2> SUFFICES ASSUME NEW n \in DOMAIN open
               PROVE  \/ \E p \in DOMAIN roots' : made[roots'[p]].handle = n
                      \/ \E b \in Callers : n \in hands'[b]
    BY DEF AllOwned
  <2>1. CASE \E p \in DOMAIN roots : made[roots[p]].handle = n
    BY <1>2, <2>1
  <2>2. CASE \E b \in Callers : n \in hands[b]
    BY <1>1, <1>2, <2>2
  <2> QED BY <2>1, <2>2 DEF Handles, AllOwned
<1> QED BY <1>3, <1>5, <1>6 DEF Handles

LEMMA CallKeepsHandles ==
    ASSUME Typed, Handles, Lifetimes, NEW c \in Callers, Call(c)
    PROVE  Handles'
<1>1. CASE AddOpen(c)
  <2>1. PICK t \in Targets, n \in 1 .. MaxObjects :
          /\ t.Path \notin DOMAIN roots
          /\ OpenDirectory(n, t.WatchPath, t.IsDir /\ t.Recursive)
          /\ made' = Append(made, [target |-> t, handle |-> n])
          /\ roots' = WithRoot(t.Path, Len(made) + 1)
          /\ hands' = hands
    BY <1>1 DEF AddOpen, WithRoot
  <2>12. PICK k : k = Len(made) + 1
    OBVIOUS
  <2>13. roots' = WithRoot(t.Path, k)
    BY <2>1, <2>12
  <2>2. /\ k \notin DOMAIN made /\ \A i \in DOMAIN made : made'[i] = made[i]
        /\ made'[k] = [target |-> t, handle |-> n]
        /\ n \notin DOMAIN open /\ DOMAIN open' = DOMAIN open \cup {n}
        /\ open'[n] = k /\ \A m \in DOMAIN open : open'[m] = open[m]
    <3>1. Opened(t, n, k)
      BY <2>1, <2>12, <2>13, OpenedTables DEF Typed
    <3> QED BY <3>1 DEF Opened
  <2>3. roots'[t.Path] = k /\ DOMAIN roots' = DOMAIN roots \cup {t.Path}
        /\ \A p \in DOMAIN roots : roots'[p] = roots[p]
    BY <2>1, <2>13 DEF WithRoot
  <2>4. \A p \in DOMAIN roots : roots[p] \in DOMAIN made
    BY DEF Typed, RegistryTyped
  <2>5. \A p \in DOMAIN roots : made'[roots'[p]].handle = made[roots[p]].handle
    BY <2>2, <2>3, <2>4
  <2>6. made'[roots'[t.Path]].handle = n
    BY <2>2, <2>3
  <2>7. RootsOpen'
    BY <2>2, <2>3, <2>5, <2>6 DEF Handles, RootsOpen
  <2>14. \A b \in Callers : n \notin hands[b] /\ hands'[b] = hands[b] /\ hands[b] \subseteq DOMAIN open'
    BY <2>1, <2>2 DEF Handles, HandsOpen
  <2>15. \A b \in Callers, p \in DOMAIN roots' : made'[roots'[p]].handle \notin hands'[b]
    BY <2>3, <2>5, <2>6, <2>14 DEF Handles, HandsOpen
  <2>8. HandsOpen'
    BY <2>14, <2>15 DEF Handles, HandsOpen
  <2>16. ASSUME NEW m \in DOMAIN open
         PROVE  \/ \E p \in DOMAIN roots' : made'[roots'[p]].handle = m
                \/ \E b \in Callers : m \in hands'[b]
    BY <2>3, <2>5, <2>14 DEF Handles, AllOwned
  <2>9. AllOwned'
    BY <2>2, <2>3, <2>6, <2>16 DEF AllOwned
  <2>10. \A m \in DOMAIN open : open[m] \in DOMAIN made
    BY OneDomain DEF Typed, KernelTyped
  <2>11. OneNumberEach'
    BY <2>2, <2>10 DEF Handles, OneNumberEach
  <2> QED BY <2>7, <2>8, <2>9, <2>11 DEF Handles
<1>2. CASE AddReturns(c) \/ CloseEnds(c)
  <2>1. UNCHANGED <<open, roots, made, hands>>
    BY <1>2 DEF AddReturns, CloseEnds, kernelVars, registry
  <2> QED BY <2>1 DEF Handles, RootsOpen, HandsOpen, AllOwned, OneNumberEach
<1>3. CASE RemoveTake(c)
  <2>1. PICK path \in DOMAIN roots : Take(c, {path})
    BY <1>3 DEF RemoveTake
  <2>2. callPc[c] = "idle" /\ UNCHANGED <<open, made>> /\ {path} \in SUBSET DOMAIN roots
    BY <1>3 DEF RemoveTake, Begin, kernelVars
  <2> QED BY <2>1, <2>2, TakeKeepsHandles
<1>4. CASE CloseTake(c)
  <2>1. Take(c, DOMAIN roots) /\ callPc[c] = "idle" /\ UNCHANGED <<open, made>>
    BY <1>4 DEF CloseTake, Begin, kernelVars
  <2> QED BY <2>1, TakeKeepsHandles
<1>5. CASE HandleClosed(c)
  <2>1. PICK n \in hands[c] : /\ open' = Restrict(open, DOMAIN open \ {n})
                              /\ hands' = [hands EXCEPT ![c] = @ \ {n}]
    BY <1>5 DEF HandleClosed
  <2>2. UNCHANGED <<roots, made>>
    BY <1>5 DEF HandleClosed, registry
  <2>3. DOMAIN open' = DOMAIN open \ {n} /\ \A m \in DOMAIN open' : open'[m] = open[m]
    BY <2>1 DEF Restrict
  <2>4. /\ hands'[c] = hands[c] \ {n} /\ \A b \in Callers \ {c} : hands'[b] = hands[b] /\ n \notin hands[b]
    BY <2>1 DEF Lifetimes, CallersTyped, Handles, HandsOpen
  <2>5. \A p \in DOMAIN roots : made[roots[p]].handle # n
    BY DEF Handles, HandsOpen
  <2>6. RootsOpen' /\ OneNumberEach'
    BY <2>2, <2>3, <2>5 DEF Handles, RootsOpen, OneNumberEach
  <2>7. HandsOpen'
    BY <2>2, <2>3, <2>4 DEF Handles, HandsOpen
  <2>8. AllOwned'
    BY <2>2, <2>3, <2>4 DEF Handles, AllOwned
  <2> QED BY <2>6, <2>7, <2>8 DEF Handles
<1> QED BY <1>1, <1>2, <1>3, <1>4, <1>5 DEF Call

LEMMA HandlesInit == Init => Handles
BY DEF Init, KernelInit, Handles, RootsOpen, HandsOpen, AllOwned, OneNumberEach

LEMMA HandlesStep == Typed /\ Lifetimes /\ Handles /\ [Next]_vars => Handles'
<1> SUFFICES ASSUME Typed, Lifetimes, Handles, [Next]_vars PROVE Handles'
  OBVIOUS
<1>1. ASSUME UNCHANGED <<open, roots, made, hands>> PROVE Handles'
  BY <1>1 DEF Handles, RootsOpen, HandsOpen, AllOwned, OneNumberEach
<1>2. CASE Environment
  <2>1. UNCHANGED <<open, roots, made, hands>>
    BY <1>2, DiskIsChanged DEF Environment, registry, callVars
  <2> QED BY <1>1, <2>1
<1>3. CASE Receive \/ UNCHANGED vars
  <2>1. UNCHANGED <<open, roots, made, hands>>
    BY <1>3 DEF Receive, vars, kernelVars, registry, callVars
  <2> QED BY <1>1, <2>1
<1>4. ASSUME NEW k \in DOMAIN runPc, RunRoot(k) \/ ReadFails(k) PROVE Handles'
  <2>1. UNCHANGED <<open, roots, made, hands>>
    BY <1>4 DEF RunRoot, RunStarts, ReadBegins, ReadRefused, ReadReturns, RunEnds, EmitOverflow,
       KeepOldName, EmitRecord, ReadFails, kernelVars, registry, callVars
  <2> QED BY <1>1, <2>1
<1> QED BY <1>2, <1>3, <1>4, CallKeepsHandles DEF Next

(***************************************************************************)
(* Every open handle is closed by exactly one owner, whatever calls and    *)
(* goroutines do in between and however handle numbers are given again.    *)
(***************************************************************************)
THEOREM HandlesAreOwned == Spec => []HandlesHaveOneOwner
<1>1. Init => Typed /\ Lifetimes /\ Handles
  BY TypedInit, LifetimesInit, HandlesInit
<1>2. Typed /\ Lifetimes /\ Handles /\ [Next]_vars => (Typed /\ Lifetimes /\ Handles)'
  BY TypedStep, LifetimesStep, HandlesStep
<1>3. Typed /\ Lifetimes /\ Handles => HandlesHaveOneOwner
  BY HandlesGiveOwners
<1> QED BY <1>1, <1>2, <1>3, PTL DEF Spec

----------------------------------------------------------------------------
(* Who reads what.  A goroutine that waits on another root's object is known
   to have strayed; the one of a registered root waits on its own. *)

ReadersKnown ==
    \A k \in DOMAIN made :
        runPc[k] = "waiting" /\ reading[k] # k => <<k, reading[k]>> \in strayed

RootsRead ==
    \A p \in DOMAIN roots : runPc[roots[p]] = "waiting" => reading[roots[p]] = roots[p]

Served == RootsRead /\ RootsAreServed

(* What has been lost is in the object, or on its way to the channel. *)
LossKept ==
    \A k \in DOMAIN made : Undisturbed(k) /\ objects[k].losses =>
        objects[k].lost \/ k \in warned \/ runPc[k] = "overflow"

(* Of the loss itself. *)
LostIsLoss == \A k \in DOMAIN objects : objects[k].lost => objects[k].losses

(***************************************************************************)
(* The reports to come.  Replays says that a reader which has sent the     *)
(* first n reports of history, holds old as the first half of a rename and *)
(* parses notes below dir one after the other sends the rest of history,   *)
(* in its order, and then holds last.                                      *)
(***************************************************************************)
NewHold(dir, old, note) ==
    CASE note.action = "RENAMED_OLD_NAME" -> dir \o note.name
      [] note.action = "RENAMED_NEW_NAME" -> NoPath
      [] OTHER -> old

Reported(dir, old, note) ==
    CASE note.action = "ADDED"    -> [op |-> "create", path |-> dir \o note.name, old |-> NoPath]
      [] note.action = "REMOVED"  -> [op |-> "remove", path |-> dir \o note.name, old |-> NoPath]
      [] note.action = "MODIFIED" -> [op |-> "write", path |-> dir \o note.name, old |-> NoPath]
      [] OTHER -> [op |-> IF old = NoPath THEN "create" ELSE "rename",
                   path |-> dir \o note.name, old |-> old]

Step(dir, note, from, to, old, hold, all) ==
    /\ hold = NewHold(dir, old, note)
    /\ IF note.action = "RENAMED_OLD_NAME" THEN to = from
       ELSE to = from + 1 /\ all[to] = Reported(dir, old, note)

ReplaysBy(f, g, dir, n, old, notes, all, last) ==
    /\ f \in [0 .. Len(notes) -> 0 .. Len(all)] /\ f[0] = n /\ f[Len(notes)] = Len(all)
    /\ DOMAIN g = 0 .. Len(notes) /\ g[0] = old /\ g[Len(notes)] = last
    /\ \A i \in 1 .. Len(notes) : Step(dir, notes[i], f[i - 1], f[i], g[i - 1], g[i], all)

Replays(dir, n, old, notes, all, last) ==
    \E f, g : ReplaysBy(f, g, dir, n, old, notes, all, last)

(* The first half of a rename whose second half is still to come. *)
Halfway(k) == IF renaming # NoRename /\ k \in renaming[3] /\ Sees(objects[k], renaming[1])
              THEN renaming[1] ELSE NoPath

HistoryOf(k) ==
    /\ \A i \in DOMAIN sent[k] : sent[k][i] = objects[k].history[i]
    /\ Replays(made[k].target.WatchPath, Len(sent[k]), pendingOld[k],
               buf[k] \o objects[k].notes, objects[k].history, Halfway(k))

HistoryKept == \A k \in DOMAIN made : Undisturbed(k) /\ ~objects[k].losses => HistoryOf(k)

(* A rename is within one directory; who has seen its first half records. *)
RenamesPaired ==
    renaming # NoRename =>
        /\ ParentDir(renaming[1]) = ParentDir(renaming[2])
        /\ \A k \in renaming[3] : k \in DOMAIN objects /\ objects[k].recording

ObjectsWatch == \A k \in DOMAIN made : objects[k].dir = made[k].target.WatchPath

----------------------------------------------------------------------------
(* The label and the read of a goroutine change by its own steps, and from
   "waiting" when the handle of the object it waits on is closed. *)
LEMMA StrayingGrows ==
    [Next]_vars => strayed \subseteq strayed' /\ failed \subseteq failed' /\ warned \subseteq warned'
<1> SUFFICES ASSUME [Next]_vars
             PROVE  strayed \subseteq strayed' /\ failed \subseteq failed' /\ warned \subseteq warned'
  OBVIOUS
<1>1. ASSUME NEW c \in Callers, Call(c) PROVE UNCHANGED <<strayed, failed, warned>>
  BY <1>1 DEF Call, AddOpen, AddReturns, RemoveTake, CloseTake, HandleClosed, CloseEnds, history
<1>2. ASSUME NEW k \in DOMAIN runPc, RunRoot(k) \/ ReadFails(k)
      PROVE  strayed \subseteq strayed' /\ failed \subseteq failed' /\ warned \subseteq warned'
  BY <1>2 DEF RunRoot, RunStarts, ReadBegins, ReadRefused, ReadReturns, RunEnds, EmitOverflow,
     KeepOldName, EmitRecord, ReadFails, history
<1>3. CASE Receive \/ Environment \/ UNCHANGED vars
  BY <1>3 DEF Receive, Environment, vars, history
<1> QED BY <1>1, <1>2, <1>3 DEF Next

LEMMA UndisturbedBefore ==
    ASSUME [Next]_vars, NEW k, Undisturbed(k)'
    PROVE  Undisturbed(k)
BY StrayingGrows DEF Undisturbed

(* An undisturbed root's object is read by its own goroutine only. *)
LEMMA OwnReader ==
    ASSUME Typed, ReadersKnown, NEW j \in DOMAIN runPc, runPc[j] = "waiting", NEW k, Undisturbed(k)
    PROVE  reading[j] = k <=> j = k
<1>1. j \in DOMAIN made
  BY OneDomain
<1>2. reading[j] # j => <<j, reading[j]>> \in strayed
  BY <1>1 DEF ReadersKnown
<1> QED BY <1>2 DEF Undisturbed

(* The goroutines that a step leaves alone. *)
OthersStay(k) ==
    /\ DOMAIN runPc' = DOMAIN runPc
    /\ \A i \in DOMAIN runPc \ {k} : runPc'[i] = runPc[i] /\ reading'[i] = reading[i]

LEMMA RunsApart ==
    ASSUME Typed, NEW k \in DOMAIN runPc, RunRoot(k) \/ ReadFails(k)
    PROVE  OthersStay(k) /\ UNCHANGED <<roots, made, open>>
<1>1. runPc \in Seq(Labels) /\ k \in DOMAIN reading /\ DOMAIN reading = DOMAIN runPc
  BY OneDomain DEF Typed, RunsTyped
<1>2. /\ \E label : RunGoto(k, label)
      /\ reading' = reading \/ \E n : reading' = [reading EXCEPT ![k] = n]
      /\ UNCHANGED <<roots, made, open>>
  BY DEF RunRoot, RunStarts, ReadBegins, ReadRefused, ReadReturns, RunEnds, EmitOverflow,
     KeepOldName, EmitRecord, ReadFails, Advance, kernelVars, registry
<1> QED BY <1>1, <1>2 DEF OthersStay, RunGoto

LEMMA ReadersInit == Init => ReadersKnown /\ Served /\ LossKept /\ LostIsLoss
BY DEF Init, KernelInit, ReadersKnown, Served, RootsRead, RootsAreServed, LossKept, LostIsLoss

(* What AddOpen does to the goroutines and the roots. *)
LEMMA AddOpenDoes ==
    ASSUME Typed, NEW c \in Callers, AddOpen(c)
    PROVE  \E t \in Targets, n \in 1 .. MaxObjects, k \in Nat :
             /\ k = Len(made) + 1 /\ Opened(t, n, k) /\ roots' = WithRoot(t.Path, k)
             /\ t.Path \notin DOMAIN roots
             /\ runPc'[k] = "start" /\ buf'[k] = <<>> /\ pendingOld'[k] = NoPath /\ sent'[k] = <<>>
             /\ \A i \in DOMAIN made : /\ runPc'[i] = runPc[i] /\ reading'[i] = reading[i]
                                       /\ buf'[i] = buf[i] /\ pendingOld'[i] = pendingOld[i]
                                       /\ sent'[i] = sent[i]
             /\ UNCHANGED <<strayed, failed, warned, renaming>>
<1>1. PICK t \in Targets, n \in 1 .. MaxObjects :
        /\ t.Path \notin DOMAIN roots
        /\ OpenDirectory(n, t.WatchPath, t.IsDir /\ t.Recursive)
        /\ made' = Append(made, [target |-> t, handle |-> n])
        /\ roots' = WithRoot(t.Path, Len(made) + 1)
        /\ runPc' = Append(runPc, "start") /\ reading' = Append(reading, 0)
        /\ buf' = Append(buf, <<>>) /\ pendingOld' = Append(pendingOld, NoPath)
        /\ sent' = Append(sent, <<>>)
        /\ UNCHANGED <<strayed, failed, warned>>
  BY DEF AddOpen, WithRoot
<1>2. UNCHANGED renaming
  BY <1>1 DEF OpenDirectory
<1>3. PICK k \in Nat : k = Len(made) + 1
  BY LenProperties DEF Typed, RegistryTyped
<1>4. Opened(t, n, k) /\ RegistryTyped' /\ roots' = WithRoot(t.Path, k)
  BY <1>1, <1>3, OpenedTables DEF Typed
<1>5. made \in Seq(Root) /\ made' \in Seq(Root) /\ Len(made') = Len(made) + 1
  BY <1>4 DEF Typed, RegistryTyped, Opened
<1>6. /\ runPc'[k] = "start" /\ buf'[k] = <<>> /\ pendingOld'[k] = NoPath /\ sent'[k] = <<>>
      /\ \A i \in DOMAIN made : /\ runPc'[i] = runPc[i] /\ reading'[i] = reading[i]
                                /\ buf'[i] = buf[i] /\ pendingOld'[i] = pendingOld[i]
                                /\ sent'[i] = sent[i]
  BY <1>1, <1>3, <1>5, OpenedRun DEF Typed
<1> QED BY <1>1, <1>2, <1>3, <1>4, <1>6

(* What HandleClosed does to the goroutines. *)
LEMMA HandleClosedDoes ==
    ASSUME Typed, Handles, NEW c \in Callers, HandleClosed(c)
    PROVE  \E n \in hands[c] :
             /\ n \in DOMAIN open
             /\ UNCHANGED <<roots, made, reading, buf, pendingOld, history, renaming, objects>>
             /\ \A k \in DOMAIN made :
                  /\ runPc'[k] = runPc[k] \/ (runPc[k] = "waiting" /\ runPc'[k] \in {"error", "overflow"})
                  /\ runPc[k] = "waiting" /\ reading[k] # open[n] => runPc'[k] = "waiting"
<1>1. PICK n \in hands[c], how \in {"error", "overflow"} :
        runPc' = [k \in DOMAIN runPc |->
            IF runPc[k] = "waiting" /\ reading[k] \in {open[m] : m \in {n} \cap DOMAIN open}
            THEN how ELSE runPc[k]]
  BY DEF HandleClosed
<1>2. UNCHANGED <<roots, made, reading, buf, pendingOld, history, renaming, objects>>
  BY DEF HandleClosed, registry
<1>3. n \in DOMAIN open
  BY DEF Handles, HandsOpen
<1>4. {open[m] : m \in {n} \cap DOMAIN open} = {open[n]} /\ DOMAIN runPc = DOMAIN made
  BY <1>3, OneDomain
<1>5. \A k \in DOMAIN made :
        /\ runPc'[k] = runPc[k] \/ (runPc[k] = "waiting" /\ runPc'[k] \in {"error", "overflow"})
        /\ runPc[k] = "waiting" /\ reading[k] # open[n] => runPc'[k] = "waiting"
  BY <1>1, <1>4
<1> QED BY <1>2, <1>3, <1>5

LEMMA ReadersStep ==
    ASSUME Typed, Handles, ReadersKnown, [Next]_vars
    PROVE  ReadersKnown'
<1>1. ASSUME NEW c \in Callers, AddOpen(c) PROVE ReadersKnown'
  <2>1. PICK t \in Targets, n \in 1 .. MaxObjects, k \in Nat :
          /\ Opened(t, n, k) /\ runPc'[k] = "start" /\ UNCHANGED strayed
          /\ \A i \in DOMAIN made : runPc'[i] = runPc[i] /\ reading'[i] = reading[i]
    BY <1>1, AddOpenDoes
  <2>2. DOMAIN made' = DOMAIN made \cup {k}
    BY <2>1 DEF Opened
  <2> QED BY <2>1, <2>2 DEF ReadersKnown
<1>2. ASSUME NEW c \in Callers, HandleClosed(c) PROVE ReadersKnown'
  <2>1. /\ UNCHANGED <<made, reading, history>>
        /\ \A k \in DOMAIN made : runPc'[k] = "waiting" => runPc[k] = "waiting"
    BY <1>2, HandleClosedDoes
  <2> QED BY <2>1 DEF ReadersKnown, history
<1>3. ASSUME NEW c \in Callers, AddReturns(c) \/ RemoveTake(c) \/ CloseTake(c) \/ CloseEnds(c)
      PROVE  ReadersKnown'
  BY <1>3 DEF AddReturns, RemoveTake, CloseTake, CloseEnds, registry, runVars, history, ReadersKnown
<1>4. ASSUME NEW k \in DOMAIN runPc, RunRoot(k) \/ ReadFails(k) PROVE ReadersKnown'
  <2>1. OthersStay(k) /\ UNCHANGED made /\ DOMAIN runPc = DOMAIN made
    BY <1>4, RunsApart, OneDomain
  <2>2. runPc'[k] = "waiting" /\ reading'[k] # k => <<k, reading'[k]>> \in strayed'
    <3>1. CASE ReadBegins(k)
      <4>1. /\ strayed' = strayed \cup ({<<k, open[made[k].handle]>>} \ {<<k, k>>})
            /\ reading' = [reading EXCEPT ![k] = open[made[k].handle]] /\ k \in DOMAIN reading
        BY <3>1, OneDomain DEF ReadBegins
      <4> QED BY <4>1
    <3>2. CASE ~ReadBegins(k)
      <4>1. \E label : RunGoto(k, label) /\ label # "waiting"
        BY <1>4, <3>2 DEF RunRoot, RunStarts, ReadRefused, ReadReturns, RunEnds, EmitOverflow,
           KeepOldName, EmitRecord, ReadFails, Advance
      <4> QED BY <4>1 DEF RunGoto
    <3> QED BY <3>1, <3>2
  <2> QED BY <2>1, <2>2, StrayingGrows DEF OthersStay, ReadersKnown
<1>5. CASE Receive \/ Environment \/ UNCHANGED vars
  BY <1>5 DEF Receive, Environment, vars, registry, runVars, history, ReadersKnown
<1> QED BY <1>1, <1>2, <1>3, <1>4, <1>5 DEF Next, Call

(* Neither the end of another root, nor the number of its handle given
   again, reaches the goroutine of a registered one. *)
LEMMA ServedStep ==
    ASSUME Typed, Handles, Served, [Next]_vars
    PROVE  Served'
<1> USE DEF Served, RootsRead, RootsAreServed
<1>r. \A p \in DOMAIN roots : roots[p] \in DOMAIN made
  BY DEF Typed, RegistryTyped
<1>1. ASSUME NEW c \in Callers, AddOpen(c) PROVE Served'
  <2>1. PICK t \in Targets, n \in 1 .. MaxObjects, k \in Nat :
          /\ Opened(t, n, k) /\ runPc'[k] = "start" /\ UNCHANGED failed /\ roots' = WithRoot(t.Path, k)
          /\ \A i \in DOMAIN made : runPc'[i] = runPc[i] /\ reading'[i] = reading[i]
    BY <1>1, AddOpenDoes
  <2>2. DOMAIN roots' = DOMAIN roots \cup {t.Path}
        /\ \A p \in DOMAIN roots' : roots'[p] = k \/ (p \in DOMAIN roots /\ roots'[p] = roots[p])
    BY <2>1 DEF WithRoot
  <2> QED BY <1>r, <2>1, <2>2
<1>2. ASSUME NEW c \in Callers, HandleClosed(c) PROVE Served'
  <2>1. PICK n \in hands[c] :
             /\ n \in DOMAIN open
             /\ UNCHANGED <<roots, made, reading, history>>
             /\ \A k \in DOMAIN made :
                  /\ runPc'[k] = runPc[k] \/ (runPc[k] = "waiting" /\ runPc'[k] \in {"error", "overflow"})
                  /\ runPc[k] = "waiting" /\ reading[k] # open[n] => runPc'[k] = "waiting"
    BY <1>2, HandleClosedDoes
  <2>2. ASSUME NEW p \in DOMAIN roots PROVE runPc'[roots[p]] = runPc[roots[p]]
    <3>1. CASE runPc[roots[p]] = "waiting"
      <4>1. reading[roots[p]] = roots[p]
        BY <3>1
      <4>2. made[roots[p]].handle # n /\ open[made[roots[p]].handle] = roots[p]
            /\ made[roots[p]].handle \in DOMAIN open
        BY DEF Handles, HandsOpen, RootsOpen
      <4>3. open[n] # roots[p]
        BY <2>1, <4>2 DEF Handles, OneNumberEach
      <4> QED BY <1>r, <2>1, <3>1, <4>1, <4>3
    <3>2. CASE runPc[roots[p]] # "waiting"
      BY <1>r, <2>1, <3>2
    <3> QED BY <3>1, <3>2
  <2> QED BY <2>1, <2>2 DEF history
<1>3. ASSUME NEW c \in Callers, RemoveTake(c) \/ CloseTake(c) PROVE Served'
  <2>1. \E paths : roots' = Restrict(roots, DOMAIN roots \ paths)
    BY <1>3 DEF RemoveTake, CloseTake, Take
  <2>2. DOMAIN roots' \subseteq DOMAIN roots /\ \A p \in DOMAIN roots' : roots'[p] = roots[p]
    BY <2>1 DEF Restrict
  <2> QED BY <1>3, <2>2 DEF RemoveTake, CloseTake, runVars, history
<1>4. ASSUME NEW c \in Callers, AddReturns(c) \/ CloseEnds(c) PROVE Served'
  BY <1>4 DEF AddReturns, CloseEnds, registry, runVars, history
<1>5. ASSUME NEW k \in DOMAIN runPc, RunRoot(k) \/ ReadFails(k) PROVE Served'
  <2>1. OthersStay(k) /\ UNCHANGED <<roots, made, open>> /\ DOMAIN runPc = DOMAIN made
    BY <1>5, RunsApart, OneDomain
  <2>2. ASSUME NEW p \in DOMAIN roots, roots[p] = k
        PROVE  /\ runPc'[k] = "waiting" => reading'[k] = k
               /\ k \notin failed' => runPc'[k] \notin {"error", "done"}
    <3>1. made[k].handle \in DOMAIN open /\ open[made[k].handle] = k /\ k \in DOMAIN reading
      BY <2>2, OneDomain DEF Handles, RootsOpen
    <3>2. CASE ReadBegins(k)
      BY <3>1, <3>2 DEF ReadBegins, RunGoto
    <3>3. CASE ReadRefused(k)
      BY <3>1, <3>3 DEF ReadRefused
    <3>4. CASE ReadFails(k)
      BY <3>4 DEF ReadFails, RunGoto
    <3>5. CASE RunEnds(k)
      BY <2>2, <3>5 DEF RunEnds, RunGoto, history
    <3>6. CASE RunStarts(k) \/ ReadReturns(k) \/ EmitOverflow(k) \/ KeepOldName(k) \/ EmitRecord(k)
      <4>1. \E label \in {"read", "overflow", "parse"} : RunGoto(k, label)
        BY <3>6 DEF RunStarts, ReadReturns, EmitOverflow, KeepOldName, EmitRecord, Advance
      <4> QED BY <4>1 DEF RunGoto
    <3> QED BY <1>5, <3>2, <3>3, <3>4, <3>5, <3>6 DEF RunRoot
  <2> QED BY <1>r, <2>1, <2>2, StrayingGrows DEF OthersStay
<1>6. CASE Receive \/ Environment \/ UNCHANGED vars
  BY <1>6 DEF Receive, Environment, vars, registry, runVars, history
<1> QED BY <1>1, <1>2, <1>3, <1>4, <1>5, <1>6 DEF Next, Call

(***************************************************************************)
(* A registered root whose read has not failed is read from: no overflow,  *)
(* no other root's end and no handle number given again ends its goroutine.*)
(***************************************************************************)
THEOREM RootsStayServed == Spec => []RootsAreServed
<1>1. Init => Typed /\ Lifetimes /\ Handles /\ Served
  BY TypedInit, LifetimesInit, HandlesInit, ReadersInit
<1>2. Typed /\ Lifetimes /\ Handles /\ Served /\ [Next]_vars
      => (Typed /\ Lifetimes /\ Handles /\ Served)'
  BY TypedStep, LifetimesStep, HandlesStep, ServedStep
<1>3. Typed /\ Lifetimes /\ Handles /\ Served => RootsAreServed
  BY DEF Served
<1> QED BY <1>1, <1>2, <1>3, PTL DEF Spec

----------------------------------------------------------------------------
(* What a step does to the object and the goroutine of an undisturbed root. *)

LEMMA LostIsLossStep ==
    ASSUME Typed, LostIsLoss, [Next]_vars
    PROVE  LostIsLoss'
<1> USE DEF LostIsLoss
<1>1. ASSUME NEW c \in Callers, AddOpen(c) PROVE LostIsLoss'
  <2>1. PICK t \in Targets, n \in 1 .. MaxObjects, k \in Nat : Opened(t, n, k)
    BY <1>1, AddOpenDoes
  <2> QED BY <2>1 DEF Opened
<1>2. ASSUME NEW c \in Callers, Call(c), ~AddOpen(c) PROVE LostIsLoss'
  BY <1>2 DEF Call, AddReturns, RemoveTake, CloseTake, HandleClosed, CloseEnds, kernelVars
<1>3. ASSUME NEW k \in DOMAIN runPc, ReadBegins(k) PROVE LostIsLoss'
  <2>1. objects' = [objects EXCEPT ![open[made[k].handle]].recording = TRUE] /\ objects \in Seq(Object)
    BY <1>3 DEF ReadBegins, Typed, KernelTyped
  <2>2. \A i \in DOMAIN objects : objects[i] \in Object
    BY <2>1, Element
  <2>3. DOMAIN objects' = DOMAIN objects
        /\ \A i \in DOMAIN objects : objects'[i] \in {objects[i], [objects[i] EXCEPT !.recording = TRUE]}
    BY <2>1
  <2> QED BY <2>2, <2>3 DEF Object
<1>4. ASSUME NEW k \in DOMAIN runPc, ReadReturns(k) PROVE LostIsLoss'
  <2>1. objects' = [objects EXCEPT ![reading[k]].notes = <<>>, ![reading[k]].lost = FALSE]
        /\ objects \in Seq(Object)
    BY <1>4 DEF ReadReturns, Typed, KernelTyped
  <2>2. \A i \in DOMAIN objects : objects[i] \in Object
    BY <2>1, Element
  <2>3. DOMAIN objects' = DOMAIN objects
        /\ \A i \in DOMAIN objects : objects'[i] \in {objects[i], [objects[i] EXCEPT !.notes = <<>>, !.lost = FALSE]}
    BY <2>1
  <2> QED BY <2>2, <2>3 DEF Object
<1>5. ASSUME NEW k \in DOMAIN runPc, RunRoot(k) \/ ReadFails(k), ~ReadBegins(k), ~ReadReturns(k)
      PROVE  LostIsLoss'
  BY <1>5 DEF RunRoot, RunStarts, ReadRefused, RunEnds, EmitOverflow, KeepOldName, EmitRecord,
     ReadFails, kernelVars
<1>6. CASE Environment
  <2>1. PICK action \in Actions, path \in Tree : Changed(action, path)
    BY <1>6, DiskIsChanged DEF Environment
  <2>2. ASSUME NEW k \in DOMAIN objects PROVE objects'[k].lost => objects'[k].losses
    <3>1. PICK told \in Seq(Report) : objects'[k] = Recorded(objects[k], action, path, told)
      BY <2>1 DEF Changed
    <3>2. objects[k] \in Object
      BY Element DEF Typed, KernelTyped
    <3> QED BY <3>1, <3>2 DEF Recorded, Object
  <2>3. DOMAIN objects' = DOMAIN objects
    BY <2>1, ChangedKeepsObjects
  <2> QED BY <2>2, <2>3
<1>7. CASE Receive \/ UNCHANGED vars
  BY <1>7 DEF Receive, vars, kernelVars
<1> QED BY <1>1, <1>2, <1>3, <1>4, <1>5, <1>6, <1>7 DEF Next

LEMMA LossStep ==
    ASSUME Typed, Handles, ReadersKnown, LostIsLoss, LossKept, [Next]_vars
    PROVE  LossKept'
<1> USE DEF LossKept
<1>o. DOMAIN objects = DOMAIN made /\ DOMAIN runPc = DOMAIN made
  BY OneDomain
<1>u. \A k : Undisturbed(k)' => Undisturbed(k)
  BY UndisturbedBefore
<1>w. warned \subseteq warned'
  BY StrayingGrows
<1>e. \A i \in DOMAIN objects : objects[i] \in Object
  BY Element DEF Typed, KernelTyped
<1>1. ASSUME NEW c \in Callers, AddOpen(c) PROVE LossKept'
  <2>1. PICK t \in Targets, n \in 1 .. MaxObjects, k \in Nat :
          Opened(t, n, k) /\ \A i \in DOMAIN made : runPc'[i] = runPc[i]
    BY <1>1, AddOpenDoes
  <2>2. /\ DOMAIN made' = DOMAIN made \cup {k} /\ \A i \in DOMAIN made : objects'[i] = objects[i]
        /\ ~objects'[k].losses
    BY <1>o, <2>1 DEF Opened
  <2> QED BY <1>u, <1>w, <2>1, <2>2
<1>2. ASSUME NEW c \in Callers, HandleClosed(c) PROVE LossKept'
  <2>1. /\ UNCHANGED <<made, objects>>
        /\ \A k \in DOMAIN made : runPc'[k] = runPc[k] \/ runPc[k] = "waiting"
    BY <1>2, HandleClosedDoes
  <2> QED BY <1>u, <1>w, <2>1
<1>3. ASSUME NEW c \in Callers, AddReturns(c) \/ RemoveTake(c) \/ CloseTake(c) \/ CloseEnds(c)
      PROVE  LossKept'
  <2>1. UNCHANGED <<made, objects, runPc>>
    BY <1>3 DEF AddReturns, RemoveTake, CloseTake, CloseEnds, kernelVars, registry, runVars
  <2> QED BY <1>u, <1>w, <2>1
<1>4. ASSUME NEW k \in DOMAIN runPc, RunRoot(k) \/ ReadFails(k) PROVE LossKept'
  <2>1. OthersStay(k) /\ UNCHANGED made
    BY <1>4, RunsApart
  <2>2. CASE ReadReturns(k)
    <3> DEFINE j == reading[k]
    <3>1. /\ runPc[k] = "waiting" /\ RunGoto(k, IF objects[j].lost THEN "overflow" ELSE "parse")
          /\ objects' = [objects EXCEPT ![j].notes = <<>>, ![j].lost = FALSE]
      BY <2>2 DEF ReadReturns
    <3>2. \A i \in DOMAIN objects \ {j} : objects'[i] = objects[i]
      BY <3>1
    <3>3. \A i \in DOMAIN objects : objects'[i].losses = objects[i].losses
      BY <1>e, <3>1 DEF Object
    <3>4. ASSUME NEW i \in DOMAIN made, Undisturbed(i)', objects'[i].losses
          PROVE  objects'[i].lost \/ i \in warned' \/ runPc'[i] = "overflow"
      <4>1. Undisturbed(i) /\ objects[i].losses
        BY <1>o, <1>u, <3>3, <3>4
      <4>2. CASE i = k
        <5>1. j = k
          BY <3>1, <4>1, <4>2, OwnReader
        <5> QED BY <1>w, <3>1, <4>1, <4>2, <5>1 DEF RunGoto
      <4>3. CASE i # k
        <5>1. j # i
          BY <3>1, <4>1, <4>3, OwnReader
        <5> QED BY <1>o, <1>w, <2>1, <3>2, <4>1, <4>3, <5>1 DEF OthersStay
      <4> QED BY <4>2, <4>3
    <3> QED BY <2>1, <3>4
  <2>3. CASE ReadBegins(k)
    <3>1. /\ runPc[k] = "read" /\ objects' = [objects EXCEPT ![open[made[k].handle]].recording = TRUE]
      BY <2>3 DEF ReadBegins
    <3>2. \A i \in DOMAIN objects : objects'[i].losses = objects[i].losses /\ objects'[i].lost = objects[i].lost
      BY <1>e, <3>1 DEF Object
    <3> QED BY <1>o, <1>u, <1>w, <2>1, <3>1, <3>2 DEF OthersStay
  <2>4. CASE EmitOverflow(k)
    <3>1. UNCHANGED objects /\ k \in warned'
      BY <2>4 DEF EmitOverflow, kernelVars
    <3> QED BY <1>o, <1>u, <1>w, <2>1, <3>1 DEF OthersStay
  <2>5. CASE ~ReadReturns(k) /\ ~ReadBegins(k) /\ ~EmitOverflow(k)
    <3>1. UNCHANGED objects /\ runPc[k] # "overflow"
      BY <1>4, <2>5 DEF RunRoot, RunStarts, ReadRefused, RunEnds, KeepOldName, EmitRecord,
         ReadFails, kernelVars
    <3> QED BY <1>o, <1>u, <1>w, <2>1, <3>1 DEF OthersStay
  <2> QED BY <2>2, <2>3, <2>4, <2>5
<1>5. CASE Environment
  <2>1. PICK action \in Actions, path \in Tree : Changed(action, path)
    BY <1>5, DiskIsChanged DEF Environment
  <2>2. UNCHANGED <<made, runPc>>
    BY <1>5 DEF Environment, registry, runVars
  <2>3. ASSUME NEW k \in DOMAIN objects
        PROVE  objects'[k].losses => objects'[k].lost \/ (objects[k].losses /\ ~objects[k].lost)
                                      \/ (objects[k].losses /\ objects'[k].lost)
    <3>1. PICK told \in Seq(Report) : objects'[k] = Recorded(objects[k], action, path, told)
      BY <2>1 DEF Changed
    <3>2. objects'[k] = objects[k] \/ (objects'[k].losses => objects'[k].lost \/ (objects[k].losses /\ ~objects[k].lost))
      BY <1>e, <3>1 DEF Recorded, Object
    <3> QED BY <3>2
  <2> QED BY <1>o, <1>u, <1>w, <2>2, <2>3
<1>6. CASE Receive \/ UNCHANGED vars
  <2>1. UNCHANGED <<made, objects, runPc>>
    BY <1>6 DEF Receive, vars, kernelVars, registry, runVars
  <2> QED BY <1>u, <1>w, <2>1
<1> QED BY <1>1, <1>2, <1>3, <1>4, <1>5, <1>6 DEF Next, Call

(***************************************************************************)
(* No loss is silent: a root at rest after its directory's buffer          *)
(* overflowed has sent an overflow, whatever else ran meanwhile.           *)
(***************************************************************************)
THEOREM NoSilentLoss == Spec => []LossIsReported
<1> DEFINE All == Typed /\ Lifetimes /\ Handles /\ ReadersKnown /\ LostIsLoss /\ LossKept
<1>1. Init => All
  BY TypedInit, LifetimesInit, HandlesInit, ReadersInit
<1>2. All /\ [Next]_vars => All'
  BY TypedStep, LifetimesStep, HandlesStep, ReadersStep, LostIsLossStep, LossStep
<1>3. All => LossIsReported
  BY DEF LossKept, LossIsReported, AtRest
<1> QED BY <1>1, <1>2, <1>3, PTL DEF Spec

----------------------------------------------------------------------------
(* Reading notes in their order. *)

LEMMA ReplayNothing ==
    ASSUME NEW dir, NEW all \in Seq(Report), NEW old
    PROVE  Replays(dir, Len(all), old, <<>>, all, old)
<1> DEFINE f == [i \in 0 .. 0 |-> Len(all)]
           g == [i \in 0 .. 0 |-> old]
<1>1. Len(all) \in Nat /\ Len(<<>>) = 0
  BY LenProperties
<1>2. ReplaysBy(f, g, dir, Len(all), old, <<>>, all, old)
  BY <1>1 DEF ReplaysBy
<1> QED BY <1>2 DEF Replays

LEMMA ReplayIsLong ==
    ASSUME NEW dir, NEW n, NEW old, NEW notes \in Seq(Note), NEW all \in Seq(Report), NEW last,
           Replays(dir, n, old, notes, all, last)
    PROVE  n \in 0 .. Len(all) /\ (notes = <<>> => n = Len(all))
<1>1. PICK f, g : ReplaysBy(f, g, dir, n, old, notes, all, last)
  BY DEF Replays
<1>2. Len(notes) \in Nat
  BY LenProperties
<1> QED BY <1>1, <1>2 DEF ReplaysBy

(* One note more, with what it makes readers be told. *)
ToldOf(dir, old, note) ==
    IF note.action = "RENAMED_OLD_NAME" THEN <<>> ELSE <<Reported(dir, old, note)>>

LEMMA ReplayMore ==
    ASSUME NEW dir, NEW n, NEW old, NEW notes \in Seq(Note), NEW all \in Seq(Report), NEW last,
           Replays(dir, n, old, notes, all, last),
           NEW note \in Note, NEW told \in Seq(Report), told = ToldOf(dir, last, note)
    PROVE  Replays(dir, n, old, Append(notes, note), all \o told, NewHold(dir, last, note))
<1>1. PICK f, g : ReplaysBy(f, g, dir, n, old, notes, all, last)
  BY DEF Replays
<1>2. PICK len : len = Len(notes) /\ len \in Nat
  BY LenProperties
<1>3. PICK more : more = Append(notes, note)
  OBVIOUS
<1>4. /\ Len(more) = len + 1 /\ more[len + 1] = note /\ \A i \in 1 .. len : more[i] = notes[i]
  BY <1>2, <1>3
<1>5. PICK whole : whole = all \o told
  OBVIOUS
<1>6. /\ Len(whole) = Len(all) + Len(told) /\ Len(all) \in Nat /\ Len(told) \in Nat
      /\ \A i \in 1 .. Len(all) : whole[i] = all[i]
  BY <1>5, LenProperties
<1>7. IF note.action = "RENAMED_OLD_NAME" THEN Len(told) = 0
      ELSE Len(told) = 1 /\ whole[Len(all) + 1] = Reported(dir, last, note)
  BY <1>5 DEF ToldOf
<1>8. PICK F : F = [i \in 0 .. len + 1 |-> IF i = len + 1 THEN Len(whole) ELSE f[i]]
  OBVIOUS
<1>9. PICK G : G = [i \in 0 .. len + 1 |-> IF i = len + 1 THEN NewHold(dir, last, note) ELSE g[i]]
  OBVIOUS
<1>10. /\ f \in [0 .. len -> 0 .. Len(all)] /\ f[0] = n /\ f[len] = Len(all)
       /\ g[0] = old /\ g[len] = last
       /\ \A i \in 1 .. len : Step(dir, notes[i], f[i - 1], f[i], g[i - 1], g[i], all)
  BY <1>1, <1>2 DEF ReplaysBy
<1>11. /\ DOMAIN F = 0 .. len + 1 /\ DOMAIN G = 0 .. len + 1
       /\ F[len + 1] = Len(whole) /\ G[len + 1] = NewHold(dir, last, note)
       /\ \A i \in 0 .. len : F[i] = f[i] /\ G[i] = g[i]
  BY <1>2, <1>8, <1>9
<1>12. F \in [0 .. len + 1 -> 0 .. Len(whole)]
  BY <1>2, <1>6, <1>8, <1>10
<1>13. ASSUME NEW i \in 1 .. len + 1
       PROVE  Step(dir, more[i], F[i - 1], F[i], G[i - 1], G[i], whole)
  <2>1. CASE i = len + 1
    <3>1. i - 1 = len /\ len \in 0 .. len
      BY <1>2, <2>1
    <3>2. F[i - 1] = Len(all) /\ G[i - 1] = last /\ F[i] = Len(whole)
          /\ G[i] = NewHold(dir, last, note) /\ more[i] = note
      BY <1>4, <1>10, <1>11, <2>1, <3>1
    <3>3. CASE note.action = "RENAMED_OLD_NAME"
      <4>1. Len(whole) = Len(all)
        BY <1>6, <1>7, <3>3
      <4> QED BY <3>2, <3>3, <4>1 DEF Step
    <3>4. CASE note.action # "RENAMED_OLD_NAME"
      <4>1. Len(whole) = Len(all) + 1 /\ whole[Len(whole)] = Reported(dir, last, note)
        BY <1>6, <1>7, <3>4
      <4> QED BY <3>2, <3>4, <4>1 DEF Step
    <3> QED BY <3>3, <3>4
  <2>2. CASE i # len + 1
    <3>1. i \in 1 .. len /\ i - 1 \in 0 .. len /\ i \in 0 .. len
      BY <1>2, <2>2
    <3>2. Step(dir, notes[i], f[i - 1], f[i], g[i - 1], g[i], all)
      BY <1>10, <3>1
    <3>3. f[i - 1] \in 0 .. Len(all) /\ f[i] \in 0 .. Len(all)
      BY <1>10, <3>1
    <3>4. f[i] = f[i - 1] + 1 => f[i] \in 1 .. Len(all)
      BY <1>6, <3>3
    <3>5. F[i - 1] = f[i - 1] /\ F[i] = f[i] /\ G[i - 1] = g[i - 1] /\ G[i] = g[i] /\ more[i] = notes[i]
      BY <1>4, <1>11, <3>1
    <3> QED BY <1>6, <3>2, <3>4, <3>5 DEF Step
  <2> QED BY <2>1, <2>2
<1>14. F[0] = n /\ G[0] = old
  BY <1>2, <1>10, <1>11
<1>15. ReplaysBy(F, G, dir, n, old, more, whole, NewHold(dir, last, note))
  BY <1>4, <1>11, <1>12, <1>13, <1>14 DEF ReplaysBy
<1> QED BY <1>3, <1>5, <1>15 DEF Replays

(* The first note parsed. *)
LEMMA ReplayOne ==
    ASSUME NEW dir, NEW n, NEW old, NEW notes \in Seq(Note), NEW all \in Seq(Report), NEW last,
           Replays(dir, n, old, notes, all, last), notes # <<>>
    PROVE  LET note == Head(notes)
           IN  IF note.action = "RENAMED_OLD_NAME"
               THEN Replays(dir, n, NewHold(dir, old, note), Tail(notes), all, last)
               ELSE /\ n + 1 \in 1 .. Len(all) /\ all[n + 1] = Reported(dir, old, note)
                    /\ Replays(dir, n + 1, NewHold(dir, old, note), Tail(notes), all, last)
<1>1. PICK f, g : ReplaysBy(f, g, dir, n, old, notes, all, last)
  BY DEF Replays
<1>2. PICK rest : rest = Tail(notes)
  OBVIOUS
<1>3. PICK len : len = Len(rest)
  OBVIOUS
<1>4. /\ len \in Nat /\ Len(notes) = len + 1 /\ Head(notes) = notes[1]
      /\ \A i \in 1 .. len : rest[i] = notes[i + 1]
  BY <1>2, <1>3, HeadTailProperties, LenProperties
<1>5. /\ f \in [0 .. len + 1 -> 0 .. Len(all)] /\ f[0] = n /\ f[len + 1] = Len(all)
      /\ g[0] = old /\ g[len + 1] = last
      /\ \A i \in 1 .. len + 1 : Step(dir, notes[i], f[i - 1], f[i], g[i - 1], g[i], all)
  BY <1>1, <1>4 DEF ReplaysBy
<1>6. Step(dir, Head(notes), n, f[1], old, g[1], all)
  BY <1>4, <1>5
<1>7. PICK F : F = [i \in 0 .. len |-> f[i + 1]]
  OBVIOUS
<1>8. PICK G : G = [i \in 0 .. len |-> g[i + 1]]
  OBVIOUS
<1>9. ASSUME NEW i \in 0 .. len PROVE F[i] = f[i + 1] /\ G[i] = g[i + 1] /\ f[i + 1] \in 0 .. Len(all)
  BY <1>4, <1>5, <1>7, <1>8
<1>10. F \in [0 .. len -> 0 .. Len(all)] /\ DOMAIN G = 0 .. len
  BY <1>7, <1>8, <1>9
<1>11. ASSUME NEW i \in 1 .. len
       PROVE  Step(dir, rest[i], F[i - 1], F[i], G[i - 1], G[i], all)
  <2>1. i + 1 \in 1 .. len + 1 /\ (i + 1) - 1 = i /\ i - 1 \in 0 .. len /\ i \in 0 .. len /\ (i - 1) + 1 = i
    BY <1>4
  <2>2. Step(dir, notes[i + 1], f[(i + 1) - 1], f[i + 1], g[(i + 1) - 1], g[i + 1], all)
    BY <1>5, <2>1
  <2>3. F[i - 1] = f[i] /\ G[i - 1] = g[i] /\ F[i] = f[i + 1] /\ G[i] = g[i + 1]
    BY <1>9, <2>1
  <2> QED BY <1>4, <2>1, <2>2, <2>3
<1>12. F[0] = f[1] /\ F[len] = Len(all) /\ G[0] = g[1] /\ G[len] = last
  BY <1>4, <1>5, <1>9
<1>13. ReplaysBy(F, G, dir, f[1], g[1], rest, all, last)
  BY <1>3, <1>10, <1>11, <1>12 DEF ReplaysBy
<1>14. Replays(dir, f[1], g[1], Tail(notes), all, last)
  BY <1>2, <1>13 DEF Replays
<1>15. f[1] \in 0 .. Len(all) /\ n \in 0 .. Len(all) /\ Len(all) \in Nat
  BY <1>4, <1>5, LenProperties
<1> QED BY <1>6, <1>14, <1>15 DEF Step

----------------------------------------------------------------------------
(* A directory sees both names of a rename or neither, and the name it
   records leads back to the path. *)

LEMMA PrefixOfParent ==
    ASSUME NEW S, NEW path \in Seq(S), path # <<>>, NEW dir \in Seq(S)
    PROVE  IsStrictPrefix(dir, path) <=> IsPrefix(dir, ParentDir(path))
<1>1. Len(path) \in Nat \ {0} /\ Len(dir) \in Nat
  BY EmptySeq, LenProperties
<1>2. PICK parent : parent = ParentDir(path)
  OBVIOUS
<1>3. /\ parent \in Seq(S) /\ Len(parent) = Len(path) - 1
      /\ \A i \in 1 .. Len(path) - 1 : parent[i] = path[i]
  <2>1. parent = SubSeq(path, 1, Len(path) - 1) /\ \A i \in 1 .. Len(path) - 1 : path[i] \in S
    BY <1>1, <1>2 DEF ParentDir
  <2>2. \A i \in 1 .. (Len(path) - 1) - 1 + 1 : parent[i] = path[1 + i - 1]
    BY <1>1, <2>1, SubSeqProperties
  <2>4. parent \in Seq(S)
    BY <1>1, <2>1, SubSeqProperties
  <2>5. Len(parent) = IF 1 <= Len(path) - 1 THEN (Len(path) - 1) - 1 + 1 ELSE 0
    BY <1>1, <2>1, SubSeqProperties
  <2>6. Len(path) \in Int /\ Len(path) >= 1
    BY <1>1
  <2>7. CASE 1 <= Len(path) - 1
    BY <2>2, <2>4, <2>5, <2>6, <2>7
  <2>8. CASE Len(path) = 1
    BY <2>2, <2>4, <2>5, <2>6, <2>8
  <2>10. \A n \in Int : n >= 1 => 1 <= n - 1 \/ n = 1
    OBVIOUS
  <2>9. 1 <= Len(path) - 1 \/ Len(path) = 1
    BY <2>6, <2>10
  <2> QED BY <2>7, <2>8, <2>9
<1>4. ASSUME NEW p \in Seq(S)
      PROVE  IsPrefix(dir, p) <=> Len(dir) <= Len(p) /\ \A i \in 1 .. Len(dir) : dir[i] = p[i]
  <2>1. Len(p) \in Nat
    BY LenProperties
  <2>2. ASSUME Len(dir) <= Len(p)
        PROVE  SubSeq(dir, 1, Len(dir)) = SubSeq(p, 1, Len(dir)) <=> \A i \in 1 .. Len(dir) : dir[i] = p[i]
    BY <1>1, <2>1, <2>2
  <2> QED BY <2>2 DEF IsPrefix
<1>5. dir = path <=> Len(dir) = Len(path) /\ \A i \in 1 .. Len(dir) : dir[i] = path[i]
  BY SeqEqual
<1>6. IsStrictPrefix(dir, path) <=> Len(dir) < Len(path) /\ \A i \in 1 .. Len(dir) : dir[i] = path[i]
  BY <1>1, <1>4, <1>5 DEF IsStrictPrefix
<1>7. IsPrefix(dir, parent) <=> Len(dir) < Len(path) /\ \A i \in 1 .. Len(dir) : dir[i] = path[i]
  BY <1>1, <1>3, <1>4
<1> QED BY <1>2, <1>6, <1>7

LEMMA SeesByParent ==
    ASSUME NEW obj \in Object, NEW path \in Tree
    PROVE  Sees(obj, path) <=> IF obj.recursive THEN obj.dir # <<>> /\ IsPrefix(obj.dir, ParentDir(path))
                                                ELSE ParentDir(path) = obj.dir
<1>1. path \in Path /\ obj.dir \in Path /\ path # <<>>
  BY TreeIsPath, DirectoryChangesAssumption DEF Object
<1>2. IsStrictPrefix(obj.dir, path) <=> IsPrefix(obj.dir, ParentDir(path))
  BY <1>1, PrefixOfParent DEF Path
<1> QED BY <1>1, <1>2 DEF Sees, HasPathPrefix, IsStrictPrefix

LEMMA SeenTogether ==
    ASSUME NEW obj \in Object, NEW old \in Tree, NEW new \in Tree, ParentDir(old) = ParentDir(new)
    PROVE  Sees(obj, old) <=> Sees(obj, new)
BY SeesByParent

LEMMA NameLeadsBack ==
    ASSUME NEW obj \in Object, NEW path \in Tree, Sees(obj, path)
    PROVE  obj.dir \o Relative(obj, path) = path
<1>1. path \in Path /\ obj.dir \in Path /\ path # <<>>
  BY TreeIsPath, DirectoryChangesAssumption DEF Object
<1>2. Len(path) \in Nat \ {0} /\ Len(obj.dir) \in Nat
  BY <1>1, EmptySeq, LenProperties DEF Path
<1>3. Len(obj.dir) < Len(path) /\ \A i \in 1 .. Len(obj.dir) : obj.dir[i] = path[i]
  <2>1. CASE obj.recursive
    <3>1. IsPrefix(obj.dir, path) /\ obj.dir # path
      BY <2>1 DEF Sees, HasPathPrefix, IsStrictPrefix
    <3>2. Len(obj.dir) <= Len(path) /\ SubSeq(obj.dir, 1, Len(obj.dir)) = SubSeq(path, 1, Len(obj.dir))
      BY <3>1 DEF IsPrefix
    <3>3. \A i \in 1 .. Len(obj.dir) : obj.dir[i] = path[i]
      <4>1. \A i \in 1 .. Len(obj.dir) : /\ SubSeq(obj.dir, 1, Len(obj.dir))[i] = obj.dir[i]
                                         /\ SubSeq(path, 1, Len(obj.dir))[i] = path[i]
        BY <1>1, <1>2, <3>2, SubSeqProperties DEF Path
      <4> QED BY <3>2, <4>1
    <3>4. Len(obj.dir) # Len(path)
      BY <1>1, <3>1, <3>3, SeqEqual DEF Path
    <3> QED BY <1>2, <3>2, <3>3, <3>4
  <2>2. CASE ~obj.recursive
    <3>1. obj.dir = SubSeq(path, 1, Len(path) - 1)
      BY <2>2 DEF Sees, ParentDir
    <3> QED BY <1>1, <1>2, <3>1, SubSeqProperties DEF Path
  <2> QED BY <2>1, <2>2
<1>4. PICK name : name = Relative(obj, path)
  OBVIOUS
<1>5. /\ name \in Path /\ Len(name) = Len(path) - Len(obj.dir)
      /\ \A i \in 1 .. Len(path) - Len(obj.dir) : name[i] = path[Len(obj.dir) + i]
  <2>1. name = SubSeq(path, Len(obj.dir) + 1, Len(path))
        /\ \A i \in Len(obj.dir) + 1 .. Len(path) : path[i] \in Component
    BY <1>1, <1>2, <1>4 DEF Relative, Path
  <2>4. Len(obj.dir) + 1 \in Int /\ Len(path) \in Int /\ Len(obj.dir) + 1 <= Len(path)
    BY <1>2, <1>3
  <2>5. name \in Seq(Component)
    BY <2>1, <2>4, SubSeqProperties
  <2>6. Len(name) = Len(path) - (Len(obj.dir) + 1) + 1
    BY <2>1, <2>4, SubSeqProperties
  <2>7. \A i \in 1 .. Len(path) - (Len(obj.dir) + 1) + 1 : name[i] = path[(Len(obj.dir) + 1) + i - 1]
    BY <2>1, <2>4, SubSeqProperties
  <2>2. /\ name \in Seq(Component) /\ Len(name) = Len(path) - Len(obj.dir)
        /\ \A i \in 1 .. Len(path) - (Len(obj.dir) + 1) + 1 : name[i] = path[(Len(obj.dir) + 1) + i - 1]
    BY <1>2, <2>5, <2>6, <2>7
  <2>3. ASSUME NEW i \in 1 .. Len(path) - Len(obj.dir) PROVE name[i] = path[Len(obj.dir) + i]
    <3>1. i \in 1 .. Len(path) - (Len(obj.dir) + 1) + 1 /\ (Len(obj.dir) + 1) + i - 1 = Len(obj.dir) + i
      BY <1>2
    <3> QED BY <2>2, <3>1
  <2> QED BY <2>2, <2>3 DEF Path
<1>6. PICK whole : whole = obj.dir \o name
  OBVIOUS
<1>7. /\ whole \in Path /\ Len(whole) = Len(path)
      /\ \A i \in 1 .. Len(path) : whole[i] = IF i <= Len(obj.dir) THEN obj.dir[i] ELSE name[i - Len(obj.dir)]
  BY <1>1, <1>2, <1>5, <1>6, ConcatProperties DEF Path
<1>8. ASSUME NEW i \in 1 .. Len(path) PROVE whole[i] = path[i]
  <2>1. CASE i <= Len(obj.dir)
    BY <1>2, <1>3, <1>7, <2>1
  <2>2. CASE ~(i <= Len(obj.dir))
    <3>1. i - Len(obj.dir) \in 1 .. Len(path) - Len(obj.dir) /\ Len(obj.dir) + (i - Len(obj.dir)) = i
      BY <1>2, <1>3, <2>2
    <3> QED BY <1>5, <1>7, <2>2, <3>1
  <2> QED BY <2>1, <2>2
<1>9. whole = path
  BY <1>1, <1>7, <1>8, SeqEqual DEF Path
<1> QED BY <1>4, <1>6, <1>9

----------------------------------------------------------------------------
(* An object keeps its directory, and records for good. *)
LEMMA ObjectsStay ==
    ASSUME Typed, [Next]_vars, NEW i \in DOMAIN objects
    PROVE  /\ i \in DOMAIN objects' /\ objects'[i].dir = objects[i].dir
           /\ objects'[i].recursive = objects[i].recursive
           /\ objects[i].recording => objects'[i].recording
           /\ objects[i].losses => objects'[i].losses
<1>e. objects[i] \in Object /\ objects \in Seq(Object)
  BY Element DEF Typed, KernelTyped
<1>1. ASSUME NEW c \in Callers, AddOpen(c)
      PROVE  i \in DOMAIN objects' /\ objects'[i] = objects[i]
  <2>1. PICK t \in Targets, n \in 1 .. MaxObjects, k \in Nat : Opened(t, n, k)
    BY <1>1, AddOpenDoes
  <2> QED BY <2>1 DEF Opened
<1>2. ASSUME NEW c \in Callers, Call(c), ~AddOpen(c) PROVE UNCHANGED objects
  BY <1>2 DEF Call, AddReturns, RemoveTake, CloseTake, HandleClosed, CloseEnds, kernelVars
<1>3. ASSUME NEW k \in DOMAIN runPc, ReadBegins(k)
      PROVE  i \in DOMAIN objects' /\ objects'[i] \in {objects[i], [objects[i] EXCEPT !.recording = TRUE]}
  BY <1>e, <1>3 DEF ReadBegins
<1>4. ASSUME NEW k \in DOMAIN runPc, ReadReturns(k)
      PROVE  i \in DOMAIN objects' /\ objects'[i] \in {objects[i], [objects[i] EXCEPT !.notes = <<>>, !.lost = FALSE]}
  BY <1>e, <1>4 DEF ReadReturns
<1>5. ASSUME NEW k \in DOMAIN runPc, RunRoot(k) \/ ReadFails(k), ~ReadBegins(k), ~ReadReturns(k)
      PROVE  UNCHANGED objects
  BY <1>5 DEF RunRoot, RunStarts, ReadRefused, RunEnds, EmitOverflow, KeepOldName, EmitRecord,
     ReadFails, kernelVars
<1>6. CASE Environment
  <2>1. PICK action \in Actions, path \in Tree : Changed(action, path)
    BY <1>6, DiskIsChanged DEF Environment
  <2>2. PICK told \in Seq(Report) : objects'[i] = Recorded(objects[i], action, path, told)
    BY <2>1 DEF Changed
  <2>3. DOMAIN objects' = DOMAIN objects
    BY <2>1, ChangedKeepsObjects
  <2> QED BY <1>e, <2>2, <2>3 DEF Recorded, Object
<1>7. CASE Receive \/ UNCHANGED vars
  BY <1>7 DEF Receive, vars, kernelVars
<1> QED BY <1>e, <1>1, <1>2, <1>3, <1>4, <1>5, <1>6, <1>7 DEF Next, Object

LEMMA HalfwayStays ==
    ASSUME Typed, [Next]_vars, NEW i \in DOMAIN objects, UNCHANGED renaming
    PROVE  Halfway(i)' = Halfway(i)
<1>1. objects'[i].dir = objects[i].dir /\ objects'[i].recursive = objects[i].recursive
  BY ObjectsStay
<1> QED BY <1>1 DEF Halfway, Sees

LEMMA RenamesPairedInit == Init => RenamesPaired /\ ObjectsWatch /\ HistoryKept
BY DEF Init, KernelInit, RenamesPaired, ObjectsWatch, HistoryKept

(* Only the disk changes what is being renamed. *)
LEMMA OnlyDiskRenames ==
    ASSUME [Next]_vars, ~Environment
    PROVE  UNCHANGED renaming
<1>1. ASSUME NEW c \in Callers, Call(c) PROVE UNCHANGED renaming
  BY <1>1 DEF Call, AddOpen, OpenDirectory, AddReturns, RemoveTake, CloseTake, HandleClosed, CloseEnds,
     kernelVars
<1>2. ASSUME NEW k \in DOMAIN runPc, RunRoot(k) \/ ReadFails(k) PROVE UNCHANGED renaming
  BY <1>2 DEF RunRoot, RunStarts, ReadBegins, ReadRefused, ReadReturns, RunEnds, EmitOverflow,
     KeepOldName, EmitRecord, ReadFails, kernelVars
<1>3. CASE Receive \/ UNCHANGED vars
  BY <1>3 DEF Receive, vars, kernelVars
<1> QED BY <1>1, <1>2, <1>3 DEF Next

LEMMA RenamesPairedStep ==
    ASSUME Typed, RenamesPaired, [Next]_vars
    PROVE  RenamesPaired'
<1>1. CASE UNCHANGED renaming
  BY <1>1, ObjectsStay DEF RenamesPaired
<1>2. CASE ~UNCHANGED renaming
  <2>1. DiskChanges
    BY <1>2, OnlyDiskRenames DEF Environment
  <2>2. CASE RenameTo
    BY <2>2 DEF RenameTo, RenamesPaired
  <2>3. CASE \E old, new \in Tree : RenameFrom(old, new)
    <3>1. PICK old, new \in Tree : RenameFrom(old, new)
      BY <2>3
    <3>2. PICK seen : seen = {k \in DOMAIN objects : objects[k].recording}
      OBVIOUS
    <3>3. renaming' = <<old, new, seen>> /\ ParentDir(old) = ParentDir(new)
      BY <3>1, <3>2 DEF RenameFrom
    <3>4. \A k \in seen : k \in DOMAIN objects' /\ objects'[k].recording
      BY <3>2, ObjectsStay
    <3> QED BY <3>3, <3>4 DEF RenamesPaired
  <2> QED BY <1>2, <2>1, <2>2, <2>3 DEF DiskChanges, Make, Delete, Write
<1> QED BY <1>1, <1>2

LEMMA ObjectsWatchStep ==
    ASSUME Typed, ObjectsWatch, [Next]_vars
    PROVE  ObjectsWatch'
<1>o. DOMAIN objects = DOMAIN made
  BY OneDomain
<1>1. ASSUME NEW c \in Callers, AddOpen(c) PROVE ObjectsWatch'
  <2>1. PICK t \in Targets, n \in 1 .. MaxObjects, k \in Nat : Opened(t, n, k)
    BY <1>1, AddOpenDoes
  <2> QED BY <1>o, <2>1 DEF Opened, ObjectsWatch
<1>2. CASE UNCHANGED made
  BY <1>2, <1>o, ObjectsStay DEF ObjectsWatch
<1>3. CASE ~UNCHANGED made
  <2>1. ASSUME NEW k \in DOMAIN runPc, RunRoot(k) \/ ReadFails(k) PROVE UNCHANGED made
    BY <2>1, RunsApart
  <2>2. ASSUME NEW c \in Callers, Call(c), ~AddOpen(c) PROVE UNCHANGED made
    BY <2>2 DEF Call, AddReturns, RemoveTake, CloseTake, HandleClosed, CloseEnds, registry
  <2>3. CASE Receive \/ Environment \/ UNCHANGED vars
    BY <1>3, <2>3 DEF Receive, Environment, vars, registry
  <2> QED BY <1>1, <1>3, <2>1, <2>2, <2>3 DEF Next
<1> QED BY <1>2, <1>3

----------------------------------------------------------------------------
(* The reports of a root follow the history of its directory. *)

SameFor(i) ==
    /\ made'[i].target = made[i].target /\ sent'[i] = sent[i] /\ pendingOld'[i] = pendingOld[i]
    /\ buf'[i] = buf[i] /\ objects'[i].notes = objects[i].notes
    /\ objects'[i].history = objects[i].history
    /\ objects'[i].losses = objects[i].losses /\ Halfway(i)' = Halfway(i)

LEMMA SameHistory ==
    ASSUME NEW i, SameFor(i), HistoryOf(i)
    PROVE  HistoryOf(i)'
BY DEF SameFor, HistoryOf

LEMMA AppendToConcat ==
    \A s, t \in Seq(Note), x \in Note : Append(s \o t, x) = s \o Append(t, x)
OBVIOUS

(* One directory's record of a change. *)
LEMMA RecordKeepsHistory ==
    ASSUME Typed, ObjectsWatch, NEW i \in DOMAIN made, HistoryOf(i),
           NEW action \in Actions, NEW path \in Tree, NEW told \in Seq(Report),
           objects'[i] = Recorded(objects[i], action, path, told), ~objects'[i].losses,
           UNCHANGED <<made, sent, pendingOld, buf>>,
           NEW note, note = [action |-> action, name |-> Relative(objects[i], path)],
           objects[i].recording /\ Sees(objects[i], path) =>
               /\ told = ToldOf(objects[i].dir, Halfway(i), note)
               /\ Halfway(i)' = NewHold(objects[i].dir, Halfway(i), note),
           ~(objects[i].recording /\ Sees(objects[i], path)) => Halfway(i)' = Halfway(i)
    PROVE  HistoryOf(i)'
<1>e. objects[i] \in Object /\ i \in DOMAIN runPc /\ buf[i] \in Seq(Note) /\ sent[i] \in Seq(Report)
  BY OneDomain, RunLocals
<1>n. /\ objects[i].notes \in Seq(Note) /\ objects[i].history \in Seq(Report)
      /\ objects[i].dir = made[i].target.WatchPath
  BY <1>e DEF Object, ObjectsWatch
<1>1. CASE ~(objects[i].recording /\ Sees(objects[i], path))
  <2>1. objects'[i] = objects[i]
    BY <1>1 DEF Recorded
  <2> QED BY <1>1, <2>1 DEF HistoryOf
<1>2. CASE objects[i].recording /\ Sees(objects[i], path)
  <2>1. note \in Note /\ note.action = action
    BY <1>e, RelativeIsPath DEF Note
  <2>2. /\ objects'[i].notes = Append(objects[i].notes, note)
        /\ objects'[i].history = objects[i].history \o told
    BY <1>e, <1>2 DEF Recorded, Object
  <2>3. Replays(made[i].target.WatchPath, Len(sent[i]), pendingOld[i],
                Append(buf[i] \o objects[i].notes, note), objects[i].history \o told, Halfway(i)')
    <3>1. buf[i] \o objects[i].notes \in Seq(Note)
      BY <1>e, <1>n
    <3>2. Replays(made[i].target.WatchPath, Len(sent[i]), pendingOld[i],
                  buf[i] \o objects[i].notes, objects[i].history, Halfway(i))
      BY DEF HistoryOf
    <3>3. /\ told = ToldOf(made[i].target.WatchPath, Halfway(i), note)
          /\ Halfway(i)' = NewHold(made[i].target.WatchPath, Halfway(i), note)
      BY <1>2, <1>n, <2>1
    <3>4. ASSUME NEW dir, NEW n, NEW old, NEW notes \in Seq(Note), NEW all \in Seq(Report), NEW last,
                 Replays(dir, n, old, notes, all, last), told = ToldOf(dir, last, note)
          PROVE  Replays(dir, n, old, Append(notes, note), all \o told, NewHold(dir, last, note))
      BY <2>1, <3>4, ReplayMore
    <3> QED BY <1>n, <3>1, <3>2, <3>3, <3>4
  <2>4. Append(buf[i] \o objects[i].notes, note) = buf[i] \o Append(objects[i].notes, note)
    BY <1>e, <1>n, <2>1, AppendToConcat
  <2>5. ASSUME NEW j \in DOMAIN sent[i] PROVE sent[i][j] = (objects[i].history \o told)[j]
    <3>1. Len(sent[i]) \in 0 .. Len(objects[i].history)
        <4>1. buf[i] \o objects[i].notes \in Seq(Note)
        BY <1>e, <1>n
      <4> QED BY <1>n, <4>1, ReplayIsLong DEF HistoryOf
    <3>2. j \in 1 .. Len(objects[i].history) /\ sent[i][j] = objects[i].history[j]
      BY <1>e, <1>n, <3>1, LenProperties DEF HistoryOf
    <3>3. (objects[i].history \o told)[j] = objects[i].history[j]
      BY <1>n, <3>2, ConcatProperties, LenProperties
    <3> QED BY <3>2, <3>3
  <2> QED BY <2>2, <2>3, <2>4, <2>5 DEF HistoryOf
<1> QED BY <1>1, <1>2

(* What a change on disk makes of the history of each directory. *)
LEMMA DiskKeepsHistory ==
    ASSUME Typed, RenamesPaired, ObjectsWatch, Environment, [Next]_vars,
           NEW i \in DOMAIN made, HistoryOf(i), ~objects'[i].losses
    PROVE  HistoryOf(i)'
<1>u. UNCHANGED <<made, sent, pendingOld, buf>>
  BY DEF Environment, registry, runVars, history
<1>o. i \in DOMAIN objects /\ objects[i] \in Object
  BY OneDomain, Element DEF Typed, KernelTyped
<1> DEFINE note(action, path) == [action |-> action, name |-> Relative(objects[i], path)]
<1>p. ASSUME NEW path \in Tree, Sees(objects[i], path) PROVE objects[i].dir \o Relative(objects[i], path) = path
  BY <1>o, <1>p, NameLeadsBack
<1>1. ASSUME NEW path \in Tree, Make(path) \/ Delete(path) \/ Write(path) PROVE HistoryOf(i)'
  <2>1. path \in Path
    BY TreeIsPath
  <2>2. PICK action \in {"ADDED", "REMOVED", "MODIFIED"}, op \in {"create", "remove", "write"} :
          /\ Record(action, path, Told(op, path, NoPath))
          /\ action = "ADDED" => op = "create"
          /\ action = "REMOVED" => op = "remove"
          /\ action = "MODIFIED" => op = "write"
    BY <1>1 DEF Make, Delete, Write
  <2>3. Told(op, path, NoPath) \in Seq(Report)
    BY <2>1, ToldIsReport
  <2>4. objects'[i] = Recorded(objects[i], action, path, Told(op, path, NoPath))
    BY <1>o, <2>2 DEF Record
  <2>5. UNCHANGED renaming
    BY <1>1 DEF Make, Delete, Write
  <2>6. Halfway(i)' = Halfway(i)
    BY <1>o, <2>5, HalfwayStays
  <2>7. Sees(objects[i], path) =>
          Told(op, path, NoPath) = ToldOf(objects[i].dir, Halfway(i), note(action, path))
    BY <1>p, <2>2 DEF ToldOf, Reported, Told
  <2>8. Halfway(i) = NewHold(objects[i].dir, Halfway(i), note(action, path))
    BY <2>2 DEF NewHold
  <2>9. action \in Actions
    BY DEF Actions
  <2> HIDE DEF note
  <2>10. note(action, path) = [action |-> action, name |-> Relative(objects[i], path)]
    BY DEF note
  <2> QED BY <1>u, <2>3, <2>4, <2>6, <2>7, <2>8, <2>9, <2>10, RecordKeepsHistory
<1>2. ASSUME NEW old \in Tree, NEW new \in Tree, RenameFrom(old, new) PROVE HistoryOf(i)'
  <2>1. /\ objects'[i] = Recorded(objects[i], "RENAMED_OLD_NAME", old, <<>>)
        /\ renaming = NoRename
    BY <1>2, <1>o DEF RenameFrom, Record
  <2>2. PICK seen : seen = {k \in DOMAIN objects : objects[k].recording}
    OBVIOUS
  <2>3. renaming' = <<old, new, seen>> /\ seen \in SUBSET Nat
    BY <1>2, <2>2 DEF RenameFrom, Typed, KernelTyped
  <2>4. renaming' # NoRename
    <3>1. <<old, new, seen>> \in Tree \X Tree \X SUBSET Nat
      BY <2>3
    <3> QED BY <2>3, <3>1, DirectoryChangesAssumption
  <2>5. objects'[i].dir = objects[i].dir /\ objects'[i].recursive = objects[i].recursive
    BY <1>o, ObjectsStay
  <2>6. Halfway(i)' = IF objects[i].recording /\ Sees(objects[i], old) THEN old ELSE NoPath
    <3>1. renaming'[1] = old /\ renaming'[3] = seen
      BY <2>3
    <3>2. Sees(objects'[i], old) <=> Sees(objects[i], old)
      BY <2>5 DEF Sees
    <3> QED BY <1>o, <2>2, <2>4, <3>1, <3>2 DEF Halfway
  <2>7. Halfway(i) = NoPath
    BY <2>1 DEF Halfway
  <2>8. <<>> = ToldOf(objects[i].dir, Halfway(i), note("RENAMED_OLD_NAME", old))
    BY DEF ToldOf
  <2>9. Sees(objects[i], old) =>
          old = NewHold(objects[i].dir, Halfway(i), note("RENAMED_OLD_NAME", old))
    BY <1>p DEF NewHold
  <2>10. "RENAMED_OLD_NAME" \in Actions /\ <<>> \in Seq(Report)
    BY DEF Actions
  <2>11. objects[i].recording /\ Sees(objects[i], old) =>
           Halfway(i)' = NewHold(objects[i].dir, Halfway(i), note("RENAMED_OLD_NAME", old))
    BY <2>6, <2>9
  <2>12. ~(objects[i].recording /\ Sees(objects[i], old)) => Halfway(i)' = Halfway(i)
    BY <2>6, <2>7
  <2> HIDE DEF note
  <2>13. note("RENAMED_OLD_NAME", old) = [action |-> "RENAMED_OLD_NAME", name |-> Relative(objects[i], old)]
    BY DEF note
  <2> QED BY <1>u, <2>1, <2>8, <2>10, <2>11, <2>12, <2>13, RecordKeepsHistory
<1>3. ASSUME RenameTo PROVE HistoryOf(i)'
  <2>1. PICK old \in Tree, new \in Tree, seen \in SUBSET Nat : renaming = <<old, new, seen>>
    BY <1>3 DEF RenameTo, Typed, KernelTyped
  <2>2. /\ renaming # NoRename /\ renaming' = NoRename
        /\ renaming[1] = old /\ renaming[2] = new /\ renaming[3] = seen
    BY <1>3, <2>1 DEF RenameTo
  <2>3. PICK told : told = IF i \in seen THEN Told("rename", new, old) ELSE Told("create", new, NoPath)
    OBVIOUS
  <2>4. objects'[i] = Recorded(objects[i], "RENAMED_NEW_NAME", new, told)
    BY <1>3, <1>o, <2>2, <2>3 DEF RenameTo
  <2>5. told \in Seq(Report)
    <3>1. old \in Path /\ new \in Path
      BY TreeIsPath
    <3> QED BY <2>3, <3>1, ToldIsReport
  <2>6. Halfway(i)' = NoPath
    BY <2>2 DEF Halfway
  <2>7. /\ Sees(objects[i], old) <=> Sees(objects[i], new)
        /\ i \in seen => objects[i].recording
    <3>1. ParentDir(old) = ParentDir(new) /\ (i \in seen => objects[i].recording)
      BY <2>2 DEF RenamesPaired
    <3> QED BY <1>o, <3>1, SeenTogether
  <2>8. Halfway(i) = IF i \in seen /\ Sees(objects[i], new) THEN old ELSE NoPath
    BY <2>2, <2>7 DEF Halfway
  <2>9. old # NoPath
    BY DirectoryChangesAssumption
  <2>10. Sees(objects[i], new) =>
           told = ToldOf(objects[i].dir, Halfway(i), note("RENAMED_NEW_NAME", new))
    BY <1>p, <2>3, <2>8, <2>9 DEF ToldOf, Reported, Told
  <2>11. Halfway(i)' = NewHold(objects[i].dir, Halfway(i), note("RENAMED_NEW_NAME", new))
    BY <2>6 DEF NewHold
  <2>12. ~(objects[i].recording /\ Sees(objects[i], new)) => Halfway(i)' = Halfway(i)
    BY <2>6, <2>7, <2>8
  <2>13. "RENAMED_NEW_NAME" \in Actions
    BY DEF Actions
  <2> HIDE DEF note
  <2>14. note("RENAMED_NEW_NAME", new) = [action |-> "RENAMED_NEW_NAME", name |-> Relative(objects[i], new)]
    BY DEF note
  <2> QED BY <1>u, <2>4, <2>5, <2>10, <2>11, <2>12, <2>13, <2>14, RecordKeepsHistory
<1> QED BY <1>1, <1>2, <1>3 DEF Environment, DiskChanges

LEMMA PrependedParse ==
    ASSUME NEW b \in Seq(Note), b # <<>>, NEW t \in Seq(Note), NEW s, s = b \o t
    PROVE  /\ s \in Seq(Note) /\ s # <<>> /\ Head(s) = Head(b) /\ Tail(s) = Tail(b) \o t
<1>1. s \in Seq(Note) /\ s # <<>> /\ Head(s) = Head(b)
  OBVIOUS
<1>2. Tail(s) = Tail(b) \o t
  OBVIOUS
<1> QED BY <1>1, <1>2

Longer(s, x, t) ==
    /\ Len(t) = Len(s) + 1 /\ DOMAIN t = DOMAIN s \cup {Len(s) + 1}
    /\ \A i \in DOMAIN s : t[i] = s[i]
    /\ t[Len(s) + 1] = x

LEMMA Extended ==
    ASSUME NEW S, NEW s \in Seq(S), NEW x, NEW t, t = s \o <<x>>
    PROVE  Longer(s, x, t)
BY DEF Longer

(* A record parsed. *)
LEMMA ParsedHistory ==
    ASSUME Typed, ObjectsWatch, NEW k \in DOMAIN runPc, runPc[k] = "parse", HistoryOf(k),
           UNCHANGED <<made, objects>>, Halfway(k)' = Halfway(k),
           buf'[k] = Tail(buf[k]),
           pendingOld'[k] = NewHold(made[k].target.WatchPath, pendingOld[k], Head(buf[k])),
           sent'[k] = sent[k] \o ToldOf(made[k].target.WatchPath, pendingOld[k], Head(buf[k])),
           ToldOf(made[k].target.WatchPath, pendingOld[k], Head(buf[k])) \in Seq(Report)
    PROVE  HistoryOf(k)'
<1>e. /\ k \in DOMAIN made /\ objects[k] \in Object /\ buf[k] \in Seq(Note) /\ sent[k] \in Seq(Report)
      /\ buf[k] # <<>>
  BY RunLocals
<1>n. objects[k].notes \in Seq(Note) /\ objects[k].history \in Seq(Report)
  BY <1>e DEF Object
<1>1. PICK dir : dir = made[k].target.WatchPath
  OBVIOUS
<1>2. PICK notes : notes = buf[k] \o objects[k].notes
  OBVIOUS
<1>3. /\ notes \in Seq(Note) /\ notes # <<>> /\ Head(notes) = Head(buf[k])
      /\ Tail(notes) = Tail(buf[k]) \o objects[k].notes
  BY <1>e, <1>n, <1>2, PrependedParse
<1>4. PICK all : all = objects[k].history
  OBVIOUS
<1>5. PICK note : note = Head(buf[k])
  OBVIOUS
<1>6. Replays(dir, Len(sent[k]), pendingOld[k], notes, all, Halfway(k))
  BY <1>1, <1>2, <1>4 DEF HistoryOf
<1>7. IF note.action = "RENAMED_OLD_NAME"
      THEN Replays(dir, Len(sent[k]), NewHold(dir, pendingOld[k], note), Tail(notes), all, Halfway(k))
      ELSE /\ Len(sent[k]) + 1 \in 1 .. Len(all) /\ all[Len(sent[k]) + 1] = Reported(dir, pendingOld[k], note)
           /\ Replays(dir, Len(sent[k]) + 1, NewHold(dir, pendingOld[k], note), Tail(notes), all, Halfway(k))
  <2>1. all \in Seq(Report)
    BY <1>n, <1>4
  <2> QED BY <1>3, <1>5, <1>6, <2>1, ReplayOne
<1>8. /\ pendingOld'[k] = NewHold(dir, pendingOld[k], note) /\ buf'[k] \o objects'[k].notes = Tail(notes)
      /\ objects'[k].history = all /\ made'[k].target.WatchPath = dir
      /\ sent'[k] = sent[k] \o ToldOf(dir, pendingOld[k], note)
  BY <1>1, <1>3, <1>4, <1>5
<1>9. \A i \in DOMAIN sent[k] : sent[k][i] = all[i]
  BY <1>4 DEF HistoryOf
<1>10. CASE note.action = "RENAMED_OLD_NAME"
  <2>1. sent'[k] = sent[k]
    BY <1>e, <1>8, <1>10, ConcatEmptySeq DEF ToldOf
  <2> QED BY <1>7, <1>8, <1>9, <1>10, <2>1 DEF HistoryOf
<1>11. CASE note.action # "RENAMED_OLD_NAME"
  <2>1. PICK report : report = Reported(dir, pendingOld[k], note)
    OBVIOUS
  <2>2. sent'[k] = sent[k] \o <<report>>
    BY <1>8, <1>11, <2>1 DEF ToldOf
  <2>3. /\ Len(sent'[k]) = Len(sent[k]) + 1 /\ DOMAIN sent'[k] = DOMAIN sent[k] \cup {Len(sent[k]) + 1}
        /\ \A i \in DOMAIN sent[k] : sent'[k][i] = sent[k][i]
        /\ sent'[k][Len(sent[k]) + 1] = report
    <3>1. Longer(sent[k], report, sent'[k])
      BY <1>e, <2>2, Extended
    <3> QED BY <3>1 DEF Longer
  <2>4. all[Len(sent[k]) + 1] = report
    BY <1>7, <1>11, <2>1
  <2>5. \A i \in DOMAIN sent'[k] : sent'[k][i] = all[i]
    BY <1>9, <2>3, <2>4
  <2>6. Replays(dir, Len(sent'[k]), pendingOld'[k], Tail(notes), all, Halfway(k))
    BY <1>7, <1>8, <1>11, <2>3
  <2> QED BY <1>8, <2>5, <2>6 DEF HistoryOf
<1> QED BY <1>10, <1>11

(* What parsing sends and holds is what the note makes readers be told. *)
LEMMA ParseTells ==
    ASSUME Typed, NEW k \in DOMAIN runPc, runPc[k] = "parse"
    PROVE  LET note == Head(buf[k])
               dir  == made[k].target.WatchPath
           IN  /\ FullPath(k) = dir \o note.name
               /\ note.action # "RENAMED_OLD_NAME" => EventOf(k) = ToldOf(dir, pendingOld[k], note)
<1>1. Head(buf[k]).action \in Actions
  BY ParsedTyped DEF Note
<1>2. FullPath(k) = made[k].target.WatchPath \o Head(buf[k]).name
  BY DEF FullPath
<1> QED BY <1>1, <1>2 DEF EventOf, ToldOf, Reported, Told, Actions

LEMMA PrefixByElements ==
    ASSUME NEW S, NEW s \in Seq(S), NEW t \in Seq(S), Len(s) <= Len(t), \A i \in 1 .. Len(s) : s[i] = t[i]
    PROVE  IsPrefix(s, t)
<1>1. SubSeq(s, 1, Len(s)) = SubSeq(t, 1, Len(s))
  OBVIOUS
<1> QED BY <1>1 DEF IsPrefix

LEMMA RunKeepsHistory ==
    ASSUME Typed, ReadersKnown, LostIsLoss, ObjectsWatch, [Next]_vars,
           NEW k \in DOMAIN runPc, RunRoot(k) \/ ReadFails(k),
           NEW i \in DOMAIN made, Undisturbed(i), HistoryOf(i), ~objects'[i].losses
    PROVE  HistoryOf(i)'
<1>o. /\ i \in DOMAIN objects /\ i \in DOMAIN runPc /\ DOMAIN runPc = DOMAIN made /\ DOMAIN objects = DOMAIN made
      /\ {i, k} \subseteq DOMAIN buf /\ {i, k} \subseteq DOMAIN sent
      /\ {i, k} \subseteq DOMAIN pendingOld
      /\ objects[i] \in Object
  BY OneDomain, Element DEF Typed, KernelTyped
<1>h. Halfway(i)' = Halfway(i)
  <2>1. ~Environment => UNCHANGED renaming
    BY OnlyDiskRenames
  <2>2. UNCHANGED renaming
    BY <2>1 DEF RunRoot, RunStarts, ReadBegins, ReadRefused, ReadReturns, RunEnds, EmitOverflow,
       KeepOldName, EmitRecord, ReadFails, kernelVars
  <2> QED BY <1>o, <2>2, HalfwayStays
<1>1. CASE RunStarts(k) \/ ReadRefused(k) \/ RunEnds(k) \/ EmitOverflow(k) \/ ReadFails(k)
  <2>1. UNCHANGED <<made, sent, pendingOld, buf, objects>>
    BY <1>1 DEF RunStarts, ReadRefused, RunEnds, EmitOverflow, ReadFails, kernelVars, registry, history
  <2> QED BY <1>h, <2>1, SameHistory DEF SameFor
<1>2. CASE ReadBegins(k)
  <2>1. UNCHANGED <<made, sent, pendingOld, buf>>
        /\ objects' = [objects EXCEPT ![open[made[k].handle]].recording = TRUE]
    BY <1>2 DEF ReadBegins, registry
  <2>2. objects'[i] \in {objects[i], [objects[i] EXCEPT !.recording = TRUE]}
    BY <1>o, <2>1
  <2>3. /\ objects'[i].notes = objects[i].notes /\ objects'[i].history = objects[i].history
        /\ objects'[i].losses = objects[i].losses
    BY <1>o, <2>2 DEF Object
  <2> QED BY <1>h, <2>1, <2>3, SameHistory DEF SameFor
<1>3. CASE ReadReturns(k)
  <2> DEFINE j == reading[k]
  <2>1. /\ runPc[k] = "waiting" /\ UNCHANGED <<made, sent, pendingOld>>
        /\ buf' = [buf EXCEPT ![k] = objects[j].notes]
        /\ objects' = [objects EXCEPT ![j].notes = <<>>, ![j].lost = FALSE]
    BY <1>3 DEF ReadReturns, registry, history
  <2>2. j = i <=> k = i
    BY <2>1, OwnReader
  <2>3. CASE k # i
    <3>1. objects'[i] = objects[i] /\ buf'[i] = buf[i]
      BY <1>o, <2>1, <2>2, <2>3
    <3> QED BY <1>h, <2>1, <3>1, SameHistory DEF SameFor
  <2>4. CASE k = i
    <3>1. buf[i] = <<>>
      BY <1>o, <2>1, <2>4, RunLocals
    <3>2. buf'[i] = objects[i].notes /\ objects'[i] = [objects[i] EXCEPT !.notes = <<>>, !.lost = FALSE]
      BY <1>o, <2>1, <2>2, <2>4
    <3>3. objects'[i].notes = <<>> /\ objects'[i].history = objects[i].history
          /\ objects[i].notes \in Seq(Note)
      BY <1>o, <3>2 DEF Object
    <3>4. <<>> \o objects[i].notes = objects[i].notes /\ objects[i].notes \o <<>> = objects[i].notes
      BY <3>3, ConcatEmptySeq
    <3>5. buf'[i] \o objects'[i].notes = buf[i] \o objects[i].notes
      BY <3>1, <3>2, <3>3, <3>4
    <3> QED BY <1>h, <2>1, <3>3, <3>5 DEF HistoryOf
  <2> QED BY <2>3, <2>4
<1>4. CASE KeepOldName(k) \/ EmitRecord(k)
  <2>1. /\ runPc[k] = "parse" /\ buf' = [buf EXCEPT ![k] = Tail(@)] /\ UNCHANGED <<made, objects>>
    BY <1>4 DEF KeepOldName, EmitRecord, Advance, kernelVars, registry
  <2>2. CASE k # i
    <3>1. buf'[i] = buf[i] /\ sent'[i] = sent[i] /\ pendingOld'[i] = pendingOld[i]
      <4>1. buf'[i] = buf[i]
        BY <2>1, <2>2
      <4>4. sent' = sent \/ \E x : sent' = [sent EXCEPT ![k] = x]
        BY <1>4 DEF KeepOldName, EmitRecord, history
      <4>5. pendingOld' = pendingOld \/ \E x : pendingOld' = [pendingOld EXCEPT ![k] = x]
        BY <1>4 DEF KeepOldName, EmitRecord
      <4>2. sent'[i] = sent[i]
        BY <1>o, <2>2, <4>4
      <4>3. pendingOld'[i] = pendingOld[i]
        BY <1>o, <2>2, <4>5
      <4> QED BY <4>1, <4>2, <4>3
    <3> QED BY <1>h, <2>1, <3>1, SameHistory DEF SameFor
  <2>3. CASE k = i
    <3>1. PICK note, dir : note = Head(buf[k]) /\ dir = made[k].target.WatchPath
      OBVIOUS
    <3>2. /\ FullPath(k) = dir \o note.name
          /\ note.action # "RENAMED_OLD_NAME" => EventOf(k) = ToldOf(dir, pendingOld[k], note)
      BY <2>1, <3>1, ParseTells
    <3>3. sent[k] \in Seq(Report)
      BY RunLocals
    <3>4. /\ pendingOld'[k] = NewHold(dir, pendingOld[k], note)
          /\ sent'[k] = sent[k] \o ToldOf(dir, pendingOld[k], note)
          /\ ToldOf(dir, pendingOld[k], note) \in Seq(Report)
      <4>1. CASE KeepOldName(k)
        <5>1. ToldOf(dir, pendingOld[k], note) = <<>> /\ sent' = sent /\ pendingOld'[k] = FullPath(k)
              /\ note.action = "RENAMED_OLD_NAME"
          BY <1>o, <3>1, <4>1 DEF KeepOldName, ToldOf, history
        <5>2. sent[k] \o <<>> = sent[k] /\ <<>> \in Seq(Report)
          BY <3>3, ConcatEmptySeq
        <5> QED BY <3>2, <5>1, <5>2 DEF NewHold
      <4>2. CASE EmitRecord(k)
        <5>1. note.action # "RENAMED_OLD_NAME" /\ sent' = [sent EXCEPT ![k] = @ \o EventOf(k)]
              /\ pendingOld' = IF note.action = "RENAMED_NEW_NAME"
                               THEN [pendingOld EXCEPT ![k] = NoPath] ELSE pendingOld
          BY <3>1, <4>2 DEF EmitRecord
        <5>2. EventOf(k) \in Seq(Report)
          BY <2>1, <3>1, <5>1, ParsedTyped
        <5>3. pendingOld'[k] = NewHold(dir, pendingOld[k], note)
          BY <1>o, <5>1 DEF NewHold
        <5> QED BY <1>o, <3>2, <5>1, <5>2, <5>3
      <4> QED BY <1>4, <4>1, <4>2
    <3>5. buf'[k] = Tail(buf[k]) /\ Halfway(k)' = Halfway(k) /\ HistoryOf(k)
      BY <1>o, <1>h, <2>1, <2>3
    <3> QED BY <2>1, <2>3, <3>1, <3>4, <3>5, ParsedHistory
  <2> QED BY <2>2, <2>3
<1> QED BY <1>1, <1>2, <1>3, <1>4 DEF RunRoot

LEMMA HistoryStep ==
    ASSUME Typed, Handles, ReadersKnown, LostIsLoss, RenamesPaired, ObjectsWatch, HistoryKept, [Next]_vars
    PROVE  HistoryKept'
<1>o. DOMAIN objects = DOMAIN made
  BY OneDomain
<1>u. \A i : Undisturbed(i)' => Undisturbed(i)
  BY UndisturbedBefore
<1>l. ASSUME NEW i \in DOMAIN objects, ~objects'[i].losses PROVE ~objects[i].losses
  BY <1>l, ObjectsStay
<1>h. ASSUME NEW i \in DOMAIN made, Undisturbed(i)', ~objects'[i].losses PROVE HistoryOf(i) /\ Undisturbed(i)
  BY <1>o, <1>u, <1>l, <1>h DEF HistoryKept
<1>r. ASSUME NEW i \in DOMAIN objects, ~Environment PROVE Halfway(i)' = Halfway(i)
  BY <1>r, OnlyDiskRenames, HalfwayStays
<1>1. ASSUME NEW c \in Callers, AddOpen(c), ~Environment PROVE HistoryKept'
  <2>1. PICK t \in Targets, n \in 1 .. MaxObjects, k \in Nat :
          /\ Opened(t, n, k) /\ UNCHANGED renaming
          /\ buf'[k] = <<>> /\ pendingOld'[k] = NoPath /\ sent'[k] = <<>>
          /\ \A i \in DOMAIN made : /\ buf'[i] = buf[i] /\ pendingOld'[i] = pendingOld[i]
                                    /\ sent'[i] = sent[i]
    BY <1>1, AddOpenDoes
  <2>2. /\ k \notin DOMAIN made /\ DOMAIN made' = DOMAIN made \cup {k}
        /\ \A i \in DOMAIN made : made'[i] = made[i] /\ objects'[i] = objects[i]
        /\ objects'[k].notes = <<>> /\ objects'[k].history = <<>>
    BY <1>o, <2>1 DEF Opened
  <2>3. ASSUME NEW i \in DOMAIN made, Undisturbed(i)', ~objects'[i].losses PROVE HistoryOf(i)'
    <3>1. HistoryOf(i) /\ Halfway(i)' = Halfway(i)
      BY <1>1, <1>o, <1>h, <1>r, <2>3
    <3> QED BY <2>1, <2>2, <3>1, SameHistory DEF SameFor
  <2>4. HistoryOf(k)'
    <3>1. Halfway(k)' = NoPath
      <4>1. renaming' # NoRename => k \notin renaming'[3]
        BY <1>o, <2>1, <2>2 DEF RenamesPaired
      <4> QED BY <4>1 DEF Halfway
    <3>2. <<>> \o <<>> = <<>> /\ <<>> \in Seq(Report) /\ Len(<<>>) = 0 /\ DOMAIN <<>> = {}
      OBVIOUS
    <3>3. Replays(made'[k].target.WatchPath, Len(<<>>), NoPath, <<>>, <<>>, NoPath)
      BY <3>2, ReplayNothing
    <3> QED BY <2>1, <2>2, <3>1, <3>2, <3>3 DEF HistoryOf
  <2> QED BY <2>2, <2>3, <2>4 DEF HistoryKept
<1>2. ASSUME UNCHANGED <<made, sent, pendingOld, buf, objects>>, ~Environment PROVE HistoryKept'
  <2>1. ASSUME NEW i \in DOMAIN made, Undisturbed(i)', ~objects'[i].losses PROVE HistoryOf(i)'
    <3>1. HistoryOf(i) /\ Halfway(i)' = Halfway(i)
      BY <1>2, <1>o, <1>h, <1>r, <2>1
    <3> QED BY <1>2, <3>1, SameHistory DEF SameFor
  <2> QED BY <1>2, <2>1 DEF HistoryKept
<1>3. ASSUME NEW c \in Callers, Call(c), ~AddOpen(c), ~Environment PROVE HistoryKept'
  <2>1. UNCHANGED <<made, sent, pendingOld, buf, objects>>
    BY <1>3 DEF Call, AddReturns, RemoveTake, CloseTake, HandleClosed, CloseEnds, kernelVars, registry,
       runVars, history
  <2> QED BY <1>2, <1>3, <2>1
<1>4. ASSUME NEW k \in DOMAIN runPc, RunRoot(k) \/ ReadFails(k) PROVE HistoryKept'
  <2>1. UNCHANGED made
    BY <1>4, RunsApart
  <2>2. ASSUME NEW i \in DOMAIN made, Undisturbed(i)', ~objects'[i].losses PROVE HistoryOf(i)'
    BY <1>4, <1>h, <2>2, RunKeepsHistory
  <2> QED BY <2>1, <2>2 DEF HistoryKept
<1>5. CASE Environment
  <2>1. UNCHANGED made
    BY <1>5 DEF Environment, registry
  <2>2. ASSUME NEW i \in DOMAIN made, Undisturbed(i)', ~objects'[i].losses PROVE HistoryOf(i)'
    BY <1>5, <1>h, <2>2, DiskKeepsHistory
  <2> QED BY <2>1, <2>2 DEF HistoryKept
<1>6. ASSUME Receive \/ UNCHANGED vars, ~Environment PROVE HistoryKept'
  <2>1. UNCHANGED <<made, sent, pendingOld, buf, objects>>
    BY <1>6 DEF Receive, vars, kernelVars, registry, runVars, history
  <2> QED BY <1>2, <1>6, <2>1
<1> QED BY <1>1, <1>3, <1>4, <1>5, <1>6 DEF Next

LEMMA HistoryGivesReports ==
    ASSUME Typed, ReadersKnown, HistoryKept
    PROVE  ReportsAreTheHistory
<1> SUFFICES ASSUME NEW k \in DOMAIN made, Undisturbed(k), ~objects[k].losses
             PROVE  /\ IsPrefix(sent[k], objects[k].history)
                    /\ AtRest(k) => sent[k] = objects[k].history
  BY DEF ReportsAreTheHistory
<1>e. /\ k \in DOMAIN runPc /\ objects[k] \in Object /\ buf[k] \in Seq(Note) /\ sent[k] \in Seq(Report)
      /\ runPc[k] = "waiting" => buf[k] = <<>>
  BY OneDomain, RunLocals
<1>n. objects[k].notes \in Seq(Note) /\ objects[k].history \in Seq(Report)
  BY <1>e DEF Object
<1>1. HistoryOf(k)
  BY DEF HistoryKept
<1>2. /\ Len(sent[k]) \in 0 .. Len(objects[k].history)
      /\ buf[k] \o objects[k].notes = <<>> => Len(sent[k]) = Len(objects[k].history)
  <2>1. buf[k] \o objects[k].notes \in Seq(Note)
    BY <1>e, <1>n
  <2> QED BY <1>1, <1>n, <2>1, ReplayIsLong DEF HistoryOf
<1>3. PICK s : s = sent[k]
  OBVIOUS
<1>4. PICK all : all = objects[k].history
  OBVIOUS
<1>5. s \in Seq(Report) /\ all \in Seq(Report) /\ Len(s) <= Len(all) /\ \A i \in 1 .. Len(s) : s[i] = all[i]
  BY <1>1, <1>2, <1>3, <1>4, <1>e, <1>n, LenProperties DEF HistoryOf
<1>6. IsPrefix(s, all)
  BY <1>5, PrefixByElements
<1>7. AtRest(k) => s = all
  <2>1. ASSUME AtRest(k) PROVE Len(s) = Len(all)
    <3>1. buf[k] \o objects[k].notes = <<>>
      BY <1>e, <2>1 DEF AtRest
    <3> QED BY <1>2, <1>3, <1>4, <3>1
  <2> QED BY <1>5, <2>1, SeqEqual
<1> QED BY <1>3, <1>4, <1>6, <1>7

(***************************************************************************)
(* While nothing is lost, what a root has sent is the history of its       *)
(* directory up to some point, and at rest all of it: for any number of    *)
(* roots, changes and calls, and however the halves of a rename are split  *)
(* between reads.                                                          *)
(***************************************************************************)
THEOREM ReportsFollowHistory == Spec => []ReportsAreTheHistory
<1> DEFINE All == /\ Typed /\ Lifetimes /\ Handles /\ ReadersKnown /\ LostIsLoss
                  /\ RenamesPaired /\ ObjectsWatch /\ HistoryKept
<1>1. Init => All
  BY TypedInit, LifetimesInit, HandlesInit, ReadersInit, RenamesPairedInit
<1>2. All /\ [Next]_vars => All'
  BY TypedStep, LifetimesStep, HandlesStep, ReadersStep, LostIsLossStep, RenamesPairedStep,
     ObjectsWatchStep, HistoryStep
<1>3. All => ReportsAreTheHistory
  BY HistoryGivesReports
<1> QED BY <1>1, <1>2, <1>3, PTL DEF Spec

=============================================================================
