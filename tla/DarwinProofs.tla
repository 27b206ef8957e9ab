---------------------------- MODULE DarwinProofs ----------------------------
(***************************************************************************)
(* The tables and descriptors of the macOS backend, proved for any tree,   *)
(* callers, targets and changes on disk, renames included.                 *)
(***************************************************************************)
EXTENDS DarwinProperties, RootIndexProofs

Components == UNION {{path[i] : i \in DOMAIN path} : path \in Tree}
AllPaths   == Path(Components)

Notes     == {"WRITE", "DELETE", "ATTRIB", "RENAME"}
FdRec     == [ino : Tree \X Nat, armed : BOOLEAN, notes : SUBSET Notes]
EntryRec  == [name : Components, isDir : BOOLEAN, ino : Tree \X Nat]
Node      == [fd : Nat, isDir : BOOLEAN, roots : SUBSET Tree]
WalkEntry == [path : AllPaths, isDir : BOOLEAN]
Kinds     == {"none", "tree", "flat", "file", "one"}
WalkRec   == {rec \in [root : Tree \cup {NoPath}, kind : Kinds, start : AllPaths \cup {NoPath},
                       todo : SUBSET WalkEntry, reading : AllPaths \cup {NoPath}] :
                rec.kind # "none" => rec.root \in Tree}
AddRec    == {rec \in [step : {"none", "arm", "enter"}, path : AllPaths \cup {NoPath},
                       isDir : BOOLEAN, fd : Nat] :
                rec.step # "none" => rec.path \in AllPaths}

FilesTyped ==
    /\ fs \in [DOMAIN fs -> [ino : Tree \X Nat, isDir : BOOLEAN]] /\ DOMAIN fs \subseteq Tree
    /\ <<>> \in DOMAIN fs /\ fs[<<>>].isDir
    /\ changes \in Nat

FdsTyped ==
    /\ fds \in [DOMAIN fds -> FdRec] /\ DOMAIN fds \subseteq Nat /\ IsFiniteSet(DOMAIN fds)
    /\ queue \in Seq(DOMAIN fds) /\ \A i \in DOMAIN queue : fds[queue[i]].notes # {}
    /\ kqOpen \in BOOLEAN

TablesTyped ==
    /\ roots \in [DOMAIN roots -> Targets] /\ \A p \in DOMAIN roots : roots[p].Path = p
    /\ rootNodes \in [DOMAIN roots -> SUBSET AllPaths]
    /\ watched \in [DOMAIN watched -> Node] /\ DOMAIN watched \subseteq AllPaths
    /\ fdToPath \in [DOMAIN fdToPath -> AllPaths]
    /\ snapshots \in [DOMAIN snapshots -> SUBSET EntryRec]

RunTyped ==
    /\ runPc \in RunLabels /\ closed = ~kqOpen
    /\ runPc \in {"read", "diff", "enroll"} => here \in AllPaths
    /\ held \subseteq Tree /\ seen \subseteq EntryRec
    /\ added \subseteq EntryRec /\ removed \subseteq EntryRec
    /\ removed # {} => runPc = "diff"
    /\ making \in [entry : EntryRec \cup {NoPath}, left : SUBSET Tree]
    /\ runPc = "enroll" => making.entry \in EntryRec

(* A walk is at one thing at a time: an addPath under way has an entry to
   come back to, and a caller that walks is in Add. *)
OneThing(rec, add) ==
    /\ add.step # "none" => rec.start = NoPath /\ rec.reading = NoPath /\ rec.todo # {}
    /\ rec.start # NoPath => rec.todo = {} /\ rec.reading = NoPath

WalksTyped ==
    /\ walk \in [Walkers -> WalkRec] /\ adding \in [Walkers -> AddRec]
    /\ callPc \in [Callers -> {"idle", "enroll", "cleanup", "close"}]
    /\ \A w \in Walkers : OneThing(walk[w], adding[w])
    /\ \A c \in Callers : callPc[c] # "enroll" => ~Walking(c)

Typed == FilesTyped /\ FdsTyped /\ TablesTyped /\ RunTyped /\ WalksTyped

ClosedEmpty == (runPc = "exited" => closed) /\ (closed => DOMAIN watched = {})

(* While rescanDir is at a directory it stays watched, or its snapshot is
   put into the pool. *)
Rescanning == runPc \in {"read", "diff", "enroll"}
HereStays ==
    /\ Rescanning /\ ~closed
    /\ mishaps \cap {"displaced", "mistaken", "torn"} = {}
    => here \in DOMAIN watched /\ watched[here].isDir

(* Only directories have snapshots. *)
SnapshotsOfDirs ==
    ~closed /\ mishaps \cap {"displaced", "mistaken", "torn"} = {} =>
       \A p \in DOMAIN snapshots : p \in DOMAIN watched /\ watched[p].isDir
----------------------------------------------------------------------------
(* Paths. *)
LEMMA TreeIsPath == Tree \subseteq AllPaths
<1>1. ASSUME NEW path \in Tree PROVE path \in AllPaths
  <2>1. IsPath(path)
    BY KqueueAssumption
  <2>2. path \in Seq({path[i] : i \in DOMAIN path}) /\ DOMAIN path = 1 .. Len(path) /\ Len(path) \in Nat
    BY <2>1 DEF IsPath
  <2>3. \A i \in 1 .. Len(path) : path[i] \in Components
    BY <2>2 DEF Components
  <2>4. path = [i \in 1 .. Len(path) |-> path[i]]
    BY <2>2
  <2> QED BY <2>2, <2>3, <2>4 DEF AllPaths, Path
<1> QED BY <1>1

LEMMA LastIsComponent ==
    ASSUME NEW path \in Tree, path # <<>>
    PROVE  Last(path) \in Components
<1>1. path \in Seq(Components)
  BY TreeIsPath DEF AllPaths, Path
<1>2. Len(path) \in DOMAIN path /\ path[Len(path)] \in Components
  BY <1>1
<1> QED BY <1>2 DEF Last

LEMMA RootExists == <<>> \in Initial /\ <<>> \in Tree /\ <<>> \in AllPaths
BY KqueueAssumption, TreeIsPath

----------------------------------------------------------------------------
(* The disk. *)
LEMMA MovedFiles ==
    ASSUME FilesTyped, NEW old \in Tree, NEW new \in Tree, Move(old, new)
    PROVE  FilesTyped'
<1> DEFINE kept == DOMAIN fs \ (Below(old) \cup {new})
           back(p) == JoinMovedPath(p, new, old)
           moved == {JoinMovedPath(p, old, new) : p \in Below(old)}
<1>1. /\ moved \subseteq Tree /\ changes' = changes + 1
      /\ fs' = [p \in kept \cup moved |-> IF p \in moved THEN fs[back(p)] ELSE fs[p]]
      /\ old # <<>> /\ new # <<>>
  BY KqueueAssumption DEF Move, Exists, Change
<1>2. old \in AllPaths /\ new \in AllPaths /\ Below(old) \subseteq AllPaths
  BY TreeIsPath DEF Below, FilesTyped
<1>3. ASSUME NEW p \in Below(old)
      PROVE  back(JoinMovedPath(p, old, new)) = p
  BY <1>2, MovesBack DEF AllPaths, Below
<1>4. \A q \in moved : back(q) \in DOMAIN fs
  BY <1>3 DEF Below
<1>5. <<>> \in kept
  <2>1. ~HasPathPrefix(<<>>, old)
    <3>1. old \in Seq(Components) /\ Len(<<>>) = 0
      BY <1>2 DEF AllPaths, Path
    <3>2. Len(old) # 0 /\ Len(old) \in Nat
      BY <1>1, <3>1
    <3> QED BY <1>1, <3>1, <3>2 DEF HasPathPrefix, IsStrictPrefix, IsPrefix
  <2> QED BY <1>1, <2>1 DEF Below, FilesTyped
<1>6. <<>> \notin moved
  <2>1. new # <<>> /\ new \in Seq(Components)
    BY <1>1, <1>2 DEF AllPaths, Path
  <2>2. ASSUME NEW p \in Below(old) PROVE JoinMovedPath(p, old, new) # <<>>
    <3>1. p \in Path(Components) /\ Len(old) \in Nat /\ Len(p) \in Nat
      BY <1>2 DEF AllPaths, Path
    <3>2. SubSeq(p, Len(old) + 1, Len(p)) \in Seq(Components)
      BY <3>1, SubSeqIsPath DEF Path
    <3>3. \A s \in Seq(Components) : new \o s # <<>>
      BY <2>1
    <3> QED BY <3>2, <3>3 DEF JoinMovedPath
  <2> QED BY <2>2
<1> HIDE DEF kept, back, moved
<1>7. \A q \in kept \cup moved : fs'[q] \in [ino : Tree \X Nat, isDir : BOOLEAN]
  BY <1>1, <1>4 DEF FilesTyped, kept
<1>8. DOMAIN fs' \subseteq Tree
  BY <1>1 DEF FilesTyped, kept
<1>9. fs'[<<>>] = fs[<<>>]
  BY <1>1, <1>5, <1>6
<1>10. DOMAIN fs' = kept \cup moved /\ fs' = [q \in DOMAIN fs' |-> fs'[q]]
  BY <1>1
<1>11. fs' \in [DOMAIN fs' -> [ino : Tree \X Nat, isDir : BOOLEAN]]
  BY <1>7, <1>10
<1>12. <<>> \in DOMAIN fs' /\ fs'[<<>>].isDir /\ changes' \in Nat
  BY <1>1, <1>5, <1>9, <1>10 DEF FilesTyped
<1> QED BY <1>8, <1>11, <1>12 DEF FilesTyped

LEMMA DiskKeepsFiles ==
    ASSUME FilesTyped, DiskChanges
    PROVE  FilesTyped'
<1> USE DEF FilesTyped
<1>0. changes' = changes + 1
  BY DEF DiskChanges, Make, Delete, Write, Chmod, Move, Change
<1>1. ASSUME NEW path \in Tree, Make(path) PROVE FilesTyped'
  <2>1. fs' = [p \in DOMAIN fs \cup {path} |->
                 IF p = path THEN [ino |-> <<path, changes>>, isDir |-> Last(path) \in DirNames]
                 ELSE fs[p]]
    BY <1>1 DEF Make
  <2>2. <<path, changes>> \in Tree \X Nat /\ path \notin DOMAIN fs
    BY <1>1 DEF Make, Exists
  <2> QED BY <1>0, <2>1, <2>2
<1>2. ASSUME NEW path \in Tree, Delete(path) PROVE FilesTyped'
  BY <1>0, <1>2, KqueueAssumption DEF Delete, Restrict
<1>3. ASSUME NEW path \in Tree, Write(path) \/ Chmod(path) PROVE FilesTyped'
  BY <1>0, <1>3 DEF Write, Chmod
<1> QED BY <1>1, <1>2, <1>3, MovedFiles DEF DiskChanges

----------------------------------------------------------------------------
(* Descriptors and their notes. *)

(* What the kernel has noted so far while it posts. *)
NotedStates ==
    {s \in [fds : [DOMAIN fds -> FdRec], queue : Seq(DOMAIN fds)] :
        \A i \in DOMAIN s.queue : s.fds[s.queue[i]].notes # {}}

LEMMA NotedTyped ==
    ASSUME FdsTyped, NEW state \in NotedStates, NEW posted, posted[2] \in Notes
    PROVE  Noted(state, posted) \in NotedStates
<1> DEFINE hit == Holding(posted[1])
           fresh == {fd \in hit : state.fds[fd].notes = {}}
           after == [fd \in DOMAIN fds |->
                       IF fd \in hit THEN [state.fds[fd] EXCEPT !.notes = @ \cup {posted[2]}]
                                     ELSE state.fds[fd]]
<1>1. hit \subseteq DOMAIN fds /\ fresh \subseteq hit
  BY DEF Holding
<1>2. Noted(state, posted) = [fds |-> after, queue |-> state.queue \o SetToSeq(fresh)]
  BY DEF Noted
<1>3. IsFiniteSet(fresh)
  BY <1>1, FS_Subset DEF FdsTyped
<1> HIDE DEF hit, fresh
<1>4. SetToSeq(fresh) \in Seq(fresh)
  BY <1>3, SetToSeqElements
<1>5. PICK more : more = SetToSeq(fresh)
  OBVIOUS
<1>6. more \in Seq(fresh) /\ more \in Seq(DOMAIN fds)
  BY <1>1, <1>4, <1>5
<1>7. ASSUME NEW fd \in DOMAIN fds
      PROVE  after[fd] \in FdRec /\ (state.fds[fd].notes # {} \/ fd \in hit => after[fd].notes # {})
  <2>1. state.fds[fd] \in FdRec
    BY DEF NotedStates
  <2> QED BY <2>1 DEF FdRec
<1> HIDE DEF after
<1>8. after \in [DOMAIN fds -> FdRec]
  <2>1. after = [fd \in DOMAIN fds |-> after[fd]]
    BY DEF after
  <2> QED BY <1>7, <2>1
<1>9. state.queue \in Seq(DOMAIN fds) /\ state.queue \o more \in Seq(DOMAIN fds)
  BY <1>6 DEF NotedStates
<1>10. ASSUME NEW i \in DOMAIN (state.queue \o more)
       PROVE  after[(state.queue \o more)[i]].notes # {}
  <2>1. CASE i \in DOMAIN state.queue
    <3>1. (state.queue \o more)[i] = state.queue[i] /\ state.queue[i] \in DOMAIN fds
      BY <1>6, <1>9, <2>1
    <3>2. state.fds[state.queue[i]].notes # {}
      BY <2>1 DEF NotedStates
    <3> QED BY <1>7, <3>1, <3>2
  <2>2. CASE i \notin DOMAIN state.queue
    <3>1. (state.queue \o more)[i] \in fresh
      BY <1>6, <1>9, <1>10, <2>2
    <3> QED BY <1>1, <1>7, <3>1 DEF fresh
  <2> QED BY <2>1, <2>2
<1>11. PICK s : s = [fds |-> after, queue |-> state.queue \o more]
  OBVIOUS
<1>12. s.fds = after /\ s.queue = state.queue \o more
       /\ s \in [fds : [DOMAIN fds -> FdRec], queue : Seq(DOMAIN fds)]
  BY <1>8, <1>9, <1>11
<1> QED BY <1>2, <1>5, <1>10, <1>11, <1>12 DEF NotedStates

(* it[s]: what the kernel has after the notes whose positions are in s. *)
OneByOne(it, notes) ==
    /\ it[{}] = [fds |-> fds, queue |-> queue]
    /\ fds' = it[1 .. Len(notes)].fds /\ queue' = it[1 .. Len(notes)].queue
    /\ \A s \in SUBSET (1 .. Len(notes)) :
         s # {} => it[s] = Noted(it[s \ {Max(s)}], notes[Max(s)])

LEMMA PostedOneByOne ==
    ASSUME FdsTyped, NEW G, \A g \in G : g[2] \in Notes, NEW notes \in Seq(G), Post(notes)
    PROVE  \E it : OneByOne(it, notes)
<1> DEFINE Q == NotedStates
           base == [fds |-> fds, queue |-> queue]
           N == Len(notes)
           F == [x \in (1 .. N) \X Q |-> Noted(x[2], notes[x[1]])]
           Step(it) == [s \in SUBSET DOMAIN notes |->
                          IF s = {} THEN base ELSE Noted(it[s \ {Max(s)}], notes[Max(s)])]
<1>0. base \in Q
  BY DEF NotedStates, FdsTyped
<1>1. N \in Nat /\ DOMAIN notes = 1 .. N
  OBVIOUS
<1>2. ASSUME NEW q \in Q, NEW i \in 1 .. N PROVE Noted(q, notes[i]) \in Q
  BY <1>1, NotedTyped
<1>3. F \in [(1 .. N) \X Q -> Q]
  BY <1>2
<1> HIDE DEF Q, F, base
<1>4. PICK g \in [SUBSET (1 .. N) -> Q] : Folds(g, N, base, F)
  BY <1>0, <1>1, <1>3, FoldExists
<1>5. ASSUME NEW s \in SUBSET (1 .. N), s # {}
      PROVE  Max(s) \in 1 .. N /\ s \ {Max(s)} \in SUBSET (1 .. N)
  BY <1>1, <1>5, GreatestOfPositions
<1>6. g = Step(g)
  <2>1. ASSUME NEW s \in SUBSET (1 .. N), s # {}
        PROVE  g[s] = Noted(g[s \ {Max(s)}], notes[Max(s)])
    <3>1. g[s] = F[<<Max(s), g[s \ {Max(s)}]>>]
      BY <1>4, <2>1 DEF Folds
    <3>2. <<Max(s), g[s \ {Max(s)}]>> \in (1 .. N) \X Q
      BY <1>4, <1>5, <2>1
    <3> QED BY <3>1, <3>2 DEF F
  <2>2. g[{}] = base
    BY <1>4 DEF Folds
  <2> QED BY <1>1, <1>4, <2>1, <2>2
<1>7. PICK it : /\ it = Step(it)
                /\ fds' = it[DOMAIN notes].fds /\ queue' = it[DOMAIN notes].queue
  <2>1. FoldLeft(Noted, base, notes) = (CHOOSE it : it = Step(it))[DOMAIN notes]
    BY DEF FoldLeft, MapThenFoldSet
  <2> QED BY <1>6, <2>1 DEF Post, base
<1>8. it[{}] = base
  BY <1>7
<1>9. ASSUME NEW s \in SUBSET (1 .. N), s # {}
      PROVE  it[s] = Noted(it[s \ {Max(s)}], notes[Max(s)])
  <2>1. s \in SUBSET DOMAIN notes
    BY <1>1
  <2> QED BY <1>7, <1>9, <2>1
<1> HIDE DEF Step
<1> QED BY <1>1, <1>7, <1>8, <1>9 DEF OneByOne, base

LEMMA PostKeepsFds ==
    ASSUME FdsTyped, NEW G, \A g \in G : g[2] \in Notes, NEW notes \in Seq(G), Post(notes),
           UNCHANGED kqOpen
    PROVE  FdsTyped' /\ DOMAIN fds' = DOMAIN fds
<1> DEFINE Q == NotedStates
           N == Len(notes)
<1>1. N \in Nat /\ \A i \in 1 .. N : notes[i][2] \in Notes
  OBVIOUS
<1>2. PICK it : OneByOne(it, notes)
  BY PostedOneByOne
<1>3. it[{}] \in Q
  BY <1>2 DEF OneByOne, NotedStates, FdsTyped
<1>4. ASSUME NEW s \in SUBSET (1 .. N), s # {}, it[s \ {Max(s)}] \in Q
      PROVE  it[s] \in Q
  <2>1. Max(s) \in 1 .. N
    BY <1>1, <1>4, GreatestOfPositions
  <2> QED BY <1>1, <1>2, <1>4, <2>1, NotedTyped DEF OneByOne
<1>5. it[1 .. N] \in Q
  <2> HIDE DEF Q
  <2> QED BY <1>1, <1>3, <1>4, FoldStays
<1>11. PICK s \in Q : fds' = s.fds /\ queue' = s.queue
  BY <1>2, <1>5 DEF OneByOne
<1>12. fds' \in [DOMAIN fds -> FdRec] /\ queue' \in Seq(DOMAIN fds)
       /\ \A i \in DOMAIN queue' : fds'[queue'[i]].notes # {}
  BY <1>11 DEF Q, NotedStates
<1>13. DOMAIN fds' = DOMAIN fds
  BY <1>12
<1> QED BY <1>12, <1>13 DEF FdsTyped

(* Whatever the disk does, the kernel's notes stay those of open descriptors. *)
LEMMA DiskKeepsFds ==
    ASSUME FdsTyped, DiskChanges
    PROVE  FdsTyped' /\ DOMAIN fds' = DOMAIN fds /\ kqOpen' = kqOpen
<1>0. kqOpen' = kqOpen
  BY DEF DiskChanges, Make, Delete, Write, Chmod, Move, Change
<1>1. ASSUME NEW a, NEW n \in Notes, NEW b, NEW m \in Notes
      PROVE  <<a, n>>[2] \in Notes /\ <<b, m>>[2] \in Notes
             /\ << <<a, n>> >> \in Seq({<<a, n>>}) /\ << <<a, n>>, <<b, m>> >> \in Seq({<<a, n>>, <<b, m>>})
  OBVIOUS
<1>2. ASSUME NEW path \in Tree, Make(path) PROVE FdsTyped' /\ DOMAIN fds' = DOMAIN fds
  <2>1. Post(<<InParent(path)>>) /\ InParent(path) = <<fs[ParentDir(path)].ino, "WRITE">>
    BY <1>2 DEF Make, InParent
  <2>2. <<InParent(path)>> \in Seq({InParent(path)}) /\ InParent(path)[2] \in Notes
    BY <2>1 DEF Notes
  <2> QED BY <1>0, <2>1, <2>2, PostKeepsFds
<1>3. ASSUME NEW path \in Tree, Delete(path) PROVE FdsTyped' /\ DOMAIN fds' = DOMAIN fds
  <2> DEFINE G == {<<fs[path].ino, "DELETE">>, InParent(path)}
  <2>1. \A g \in G : g[2] \in Notes
    BY DEF Notes, InParent
  <2>2. << <<fs[path].ino, "DELETE">>, InParent(path)>> \in Seq(G)
    OBVIOUS
  <2>3. Post(<< <<fs[path].ino, "DELETE">>, InParent(path)>>)
    BY <1>3 DEF Delete
  <2> QED BY <1>0, <2>1, <2>2, <2>3, PostKeepsFds
<1>4. ASSUME NEW path \in Tree, Write(path) PROVE FdsTyped' /\ DOMAIN fds' = DOMAIN fds
  <2> DEFINE G == {<<fs[path].ino, "WRITE">>}
  <2>1. \A g \in G : g[2] \in Notes
    BY DEF Notes
  <2>2. << <<fs[path].ino, "WRITE">> >> \in Seq(G)
    OBVIOUS
  <2>3. Post(<< <<fs[path].ino, "WRITE">> >>)
    BY <1>4 DEF Write
  <2> QED BY <1>0, <2>1, <2>2, <2>3, PostKeepsFds
<1>5. ASSUME NEW path \in Tree, Chmod(path) PROVE FdsTyped' /\ DOMAIN fds' = DOMAIN fds
  <2> DEFINE G == {<<fs[path].ino, "ATTRIB">>}
  <2>1. \A g \in G : g[2] \in Notes
    BY DEF Notes
  <2>2. << <<fs[path].ino, "ATTRIB">> >> \in Seq(G)
    OBVIOUS
  <2>3. Post(<< <<fs[path].ino, "ATTRIB">> >>)
    BY <1>5 DEF Chmod
  <2> QED BY <1>0, <2>1, <2>2, <2>3, PostKeepsFds
<1>6. ASSUME NEW old \in Tree, NEW new \in Tree, Move(old, new)
      PROVE  FdsTyped' /\ DOMAIN fds' = DOMAIN fds
  <2> DEFINE G == {InParent(old), InParent(new), <<fs[new].ino, "DELETE">>, <<fs[old].ino, "RENAME">>}
             replaced == IF Exists(new) THEN << <<fs[new].ino, "DELETE">> >> ELSE <<>>
             notes == <<InParent(old), InParent(new)>> \o replaced \o << <<fs[old].ino, "RENAME">> >>
  <2>1. \A g \in G : g[2] \in Notes
    BY DEF Notes, InParent
  <2>2. notes \in Seq(G)
    <3>1. replaced \in Seq(G) /\ <<InParent(old), InParent(new)>> \in Seq(G)
          /\ << <<fs[old].ino, "RENAME">> >> \in Seq(G)
      OBVIOUS
    <3> HIDE DEF G, replaced
    <3> QED BY <3>1
  <2>3. Post(notes)
    BY <1>6 DEF Move
  <2> HIDE DEF G, notes
  <2> QED BY <1>0, <2>1, <2>2, <2>3, PostKeepsFds
<1> QED BY <1>0, <1>2, <1>3, <1>4, <1>5, <1>6 DEF DiskChanges

(* A new descriptor gets a number that is not in use. *)
LEMMA LowestFreeIsFree ==
    ASSUME FdsTyped
    PROVE  LowestFree \in Nat /\ LowestFree \notin DOMAIN fds
<1> DEFINE n == Cardinality(DOMAIN fds)
           U == {k \in 1 .. n + 1 : k \notin DOMAIN fds}
<1>1. n \in Nat
  BY FS_CardinalityType DEF FdsTyped
<1>2. U # {}
  <2>1. ASSUME 1 .. n + 1 \subseteq DOMAIN fds PROVE FALSE
    <3>1. Cardinality(1 .. n + 1) = n + 1
      BY <1>1, FS_Interval
    <3>2. Cardinality(1 .. n + 1) <= n
      BY <2>1, FS_Subset DEF FdsTyped
    <3> HIDE DEF n
    <3> QED BY <1>1, <3>1, <3>2
  <2> QED BY <2>1
<1> HIDE DEF n
<1>3. U \subseteq Nat
  BY <1>1
<1>4. PICK k \in U : \A j \in U : ~(<<j, k>> \in OpToRel(<, Nat))
  <2> HIDE DEF U
  <2> QED BY <1>2, <1>3, NatLessThanWellFounded, WFMin
<1>5. ASSUME NEW m \in 1 .. k - 1 PROVE m \in DOMAIN fds
  <2>1. m \in Nat /\ k \in Nat /\ m < k /\ m \in 1 .. n + 1
    BY <1>1, <1>5
  <2>2. <<m, k>> \in OpToRel(<, Nat)
    BY <2>1 DEF OpToRel
  <2> QED BY <1>4, <2>1, <2>2
<1>6. \E j \in 1 .. n + 1 : j \notin DOMAIN fds /\ \A m \in 1 .. j - 1 : m \in DOMAIN fds
  BY <1>5
<1>7. LowestFree \in 1 .. n + 1 /\ LowestFree \notin DOMAIN fds
  BY <1>6 DEF LowestFree, n
<1> QED BY <1>1, <1>7

LEMMA OpenKeepsFds ==
    ASSUME FdsTyped, FilesTyped, NEW path, Exists(path), Open(path)
    PROVE  FdsTyped' /\ DOMAIN fds' = DOMAIN fds \cup {LowestFree}
<1>1. PICK rec : rec = [ino |-> fs[path].ino, armed |-> FALSE, notes |-> {}]
  OBVIOUS
<1>2. rec \in FdRec
  BY <1>1 DEF FdRec, FilesTyped, Exists
<1>3. fds' = [fd \in DOMAIN fds \cup {LowestFree} |-> IF fd = LowestFree THEN rec ELSE fds[fd]]
      /\ queue' = queue /\ kqOpen' = kqOpen
  BY <1>1 DEF Open
<1>4. DOMAIN fds' = DOMAIN fds \cup {LowestFree} /\ LowestFree \in Nat /\ LowestFree \notin DOMAIN fds
  BY <1>3, LowestFreeIsFree
<1>5. IsFiniteSet(DOMAIN fds')
  BY <1>4, FS_AddElement DEF FdsTyped
<1>6. fds' \in [DOMAIN fds' -> FdRec] /\ DOMAIN fds' \subseteq Nat
  BY <1>2, <1>3, <1>4 DEF FdsTyped
<1>7. queue' \in Seq(DOMAIN fds') /\ \A i \in DOMAIN queue' : fds'[queue'[i]].notes # {}
  BY <1>3, <1>4 DEF FdsTyped
<1> QED BY <1>3, <1>4, <1>5, <1>6, <1>7 DEF FdsTyped

LEMMA ArmKeepsFds ==
    ASSUME FdsTyped, NEW fd, Arm(fd)
    PROVE  FdsTyped' /\ DOMAIN fds' = DOMAIN fds
<1>1. fds' = [fds EXCEPT ![fd].armed = TRUE] /\ queue' = queue /\ kqOpen' = kqOpen
  BY DEF Arm
<1>2. DOMAIN fds' = DOMAIN fds
  BY <1>1
<1>3. ASSUME NEW n \in DOMAIN fds PROVE fds'[n] \in FdRec /\ fds'[n].notes = fds[n].notes
  BY <1>1 DEF FdsTyped, FdRec
<1>4. fds' \in [DOMAIN fds -> FdRec]
  BY <1>1, <1>2, <1>3
<1> QED BY <1>1, <1>2, <1>3, <1>4 DEF FdsTyped

(* What a close leaves in the queue. *)
LEMMA QueueAfterClose ==
    ASSUME NEW T, NEW closing, queue \in Seq(T), CloseFds(closing)
    PROVE  /\ queue' \in Seq(T \ closing)
           /\ \A i \in DOMAIN queue : queue[i] \notin closing =>
                 \E j \in DOMAIN queue' : queue'[j] = queue[i]
<1> DEFINE Q == Seq(T \ closing)
           Left(q, fd) == IF fd \in closing THEN q ELSE Append(q, fd)
           N == Len(queue)
           F == [x \in (1 .. N) \X Q |-> Left(x[2], queue[x[1]])]
           Step(it) == [s \in SUBSET DOMAIN queue |->
                          IF s = {} THEN <<>> ELSE Left(it[s \ {Max(s)}], queue[Max(s)])]
<1>1. N \in Nat /\ DOMAIN queue = 1 .. N /\ <<>> \in Q
  OBVIOUS
<1>2. ASSUME NEW q \in Q, NEW i \in 1 .. N PROVE Left(q, queue[i]) \in Q
  BY <1>1
<1>3. F \in [(1 .. N) \X Q -> Q]
  BY <1>2
<1> HIDE DEF Q, F
<1>4. PICK g \in [SUBSET (1 .. N) -> Q] : Folds(g, N, <<>>, F)
  BY <1>1, <1>3, FoldExists
<1>5. ASSUME NEW s \in SUBSET (1 .. N), s # {}
      PROVE  Max(s) \in 1 .. N /\ s \ {Max(s)} \in SUBSET (1 .. N)
  BY <1>1, <1>5, GreatestOfPositions
<1>6. g = Step(g)
  <2>1. ASSUME NEW s \in SUBSET (1 .. N), s # {}
        PROVE  g[s] = Left(g[s \ {Max(s)}], queue[Max(s)])
    <3>1. g[s] = F[<<Max(s), g[s \ {Max(s)}]>>]
      BY <1>4, <2>1 DEF Folds
    <3>2. <<Max(s), g[s \ {Max(s)}]>> \in (1 .. N) \X Q
      BY <1>4, <1>5, <2>1
    <3> QED BY <3>1, <3>2 DEF F
  <2>2. g[{}] = <<>>
    BY <1>4 DEF Folds
  <2> QED BY <1>1, <1>4, <2>1, <2>2
<1>7. PICK it : it = Step(it) /\ queue' = it[DOMAIN queue]
  <2>1. FoldLeft(Left, <<>>, queue) = (CHOOSE it : it = Step(it))[DOMAIN queue]
    BY DEF FoldLeft, MapThenFoldSet
  <2> QED BY <1>6, <2>1 DEF CloseFds
<1> DEFINE K == {pair \in (SUBSET (1 .. N)) \X Q :
                   \A i \in pair[1] : queue[i] \notin closing =>
                      \E j \in DOMAIN pair[2] : pair[2][j] = queue[i]}
           h == [s \in SUBSET (1 .. N) |-> <<s, it[s]>>]
<1>8. h[{}] \in K
  BY <1>1, <1>7
<1>9. ASSUME NEW s \in SUBSET (1 .. N), s # {}, h[s \ {Max(s)}] \in K
      PROVE  h[s] \in K
  <2> DEFINE q == it[s \ {Max(s)}]
  <2>1. Max(s) \in 1 .. N /\ s \ {Max(s)} \in SUBSET (1 .. N)
    BY <1>5, <1>9
  <2>2. s \in SUBSET DOMAIN queue
    BY <1>1
  <2>3. it[s] = Left(q, queue[Max(s)])
    BY <1>7, <1>9, <2>2
  <2>4. q \in Q /\ \A i \in s \ {Max(s)} : queue[i] \notin closing =>
                      \E j \in DOMAIN q : q[j] = queue[i]
    BY <1>9, <2>1
  <2>5. Left(q, queue[Max(s)]) \in Q
    BY <1>2, <2>1, <2>4
  <2> HIDE DEF q
  <2>6. \A i \in s : queue[i] \notin closing =>
           \E j \in DOMAIN Left(q, queue[Max(s)]) : Left(q, queue[Max(s)])[j] = queue[i]
    <3>1. CASE queue[Max(s)] \in closing
      BY <2>4, <3>1
    <3>2. CASE queue[Max(s)] \notin closing
      <4>1. q \in Seq(T \ closing) /\ queue[Max(s)] \in T \ closing
        BY <1>1, <2>1, <2>4, <3>2 DEF Q
      <4>2. PICK more : more = Append(q, queue[Max(s)])
        OBVIOUS
      <4>3. /\ DOMAIN more = 1 .. Len(q) + 1 /\ DOMAIN q = 1 .. Len(q) /\ Len(q) \in Nat
            /\ more[Len(q) + 1] = queue[Max(s)]
            /\ \A j \in DOMAIN q : more[j] = q[j]
        BY <4>1, <4>2
      <4>4. Left(q, queue[Max(s)]) = more
        BY <3>2, <4>2
      <4>5. ASSUME NEW i \in s, queue[i] \notin closing PROVE \E j \in DOMAIN more : more[j] = queue[i]
        <5>1. CASE i = Max(s)
          BY <4>3, <5>1
        <5>2. CASE i # Max(s)
          BY <2>4, <4>3, <4>5, <5>2
        <5> QED BY <5>1, <5>2
      <4> HIDE DEF Left
      <4> QED BY <4>4, <4>5
    <3> QED BY <3>1, <3>2
  <2>7. h[s] = <<s, it[s]>>
    OBVIOUS
  <2> HIDE DEF Left, Q, h
  <2>8. /\ it[s] \in Q
        /\ \A i \in s : queue[i] \notin closing => \E j \in DOMAIN it[s] : it[s][j] = queue[i]
    BY <2>3, <2>5, <2>6
  <2>9. <<s, it[s]>> \in (SUBSET (1 .. N)) \X Q
    BY <2>8
  <2> QED BY <2>7, <2>8, <2>9
<1> HIDE DEF h, K, Step
<1>10. h[1 .. N] \in K
  BY <1>1, <1>8, <1>9, FoldStays
<1>11. h[1 .. N] = <<1 .. N, it[1 .. N]>>
  BY DEF h
<1>12. /\ it[1 .. N] \in Q
       /\ \A i \in 1 .. N : queue[i] \notin closing =>
             \E j \in DOMAIN it[1 .. N] : it[1 .. N][j] = queue[i]
  BY <1>10, <1>11 DEF K
<1> QED BY <1>1, <1>7, <1>12 DEF Q

LEMMA CloseKeepsFds ==
    ASSUME FdsTyped, NEW closing, CloseFds(closing)
    PROVE  FdsTyped' /\ DOMAIN fds' = DOMAIN fds \ closing
<1> DEFINE T == {fd \in DOMAIN fds : fds[fd].notes # {}}
<1>1. fds' = Restrict(fds, DOMAIN fds \ closing) /\ kqOpen' = kqOpen
  BY DEF CloseFds
<1>2. DOMAIN fds' = DOMAIN fds \ closing /\ \A fd \in DOMAIN fds' : fds'[fd] = fds[fd]
  BY <1>1 DEF Restrict
<1>3. IsFiniteSet(DOMAIN fds')
  BY <1>2, FS_Subset DEF FdsTyped
<1>4. queue \in Seq(T)
  BY DEF FdsTyped
<1> HIDE DEF T
<1>5. queue' \in Seq(T \ closing)
  BY <1>4, QueueAfterClose
<1>6. T \ closing \subseteq DOMAIN fds' /\ \A fd \in T \ closing : fds'[fd].notes # {}
  BY <1>2 DEF T
<1>7. fds' \in [DOMAIN fds' -> FdRec]
  BY <1>1, <1>2 DEF FdsTyped, Restrict
<1>8. queue' \in Seq(DOMAIN fds') /\ \A i \in DOMAIN queue' : fds'[queue'[i]].notes # {}
  BY <1>5, <1>6
<1> QED BY <1>1, <1>2, <1>3, <1>7, <1>8 DEF FdsTyped

LEMMA TakeKeepsFds ==
    ASSUME FdsTyped, TakeNotes
    PROVE  FdsTyped' /\ DOMAIN fds' = DOMAIN fds
<1>1. fds' = [fd \in DOMAIN fds |-> [fds[fd] EXCEPT !.notes = {}]] /\ queue' = <<>> /\ kqOpen' = kqOpen
  BY DEF TakeNotes
<1>2. \A fd \in DOMAIN fds : [fds[fd] EXCEPT !.notes = {}] \in FdRec
  BY DEF FdsTyped, FdRec
<1>3. fds' \in [DOMAIN fds -> FdRec] /\ DOMAIN fds' = DOMAIN fds
  BY <1>1, <1>2
<1> QED BY <1>1, <1>3 DEF FdsTyped

----------------------------------------------------------------------------
(* What a rename found by rescanDir does to the tables: go says where the
   nodes at or below the old path go. *)
Goes(pr) ==
    LET old == PathIn(pr[1])
    IN  [p \in (IF pr[1].isDir THEN AtOrBelow(old) ELSE {old} \cap DOMAIN watched) |->
            JoinMovedPath(p, old, PathIn(pr[2]))]

Landed(f, go) == {go[p] : p \in DOMAIN go \cap DOMAIN f}

Carries(f, g, go) ==
    /\ g = [q \in (DOMAIN f \ DOMAIN go) \cup Landed(f, go) |-> g[q]]
    /\ \A p \in DOMAIN go \cap DOMAIN f : g[go[p]] = f[p]
    /\ \A q \in DOMAIN f \ DOMAIN go : q \notin Landed(f, go) => g[q] = f[q]

RenamesTables(go) ==
    /\ go \in [DOMAIN go -> AllPaths] /\ DOMAIN go \subseteq DOMAIN watched /\ here \notin DOMAIN go
    /\ \A p, q \in DOMAIN go : go[p] = go[q] => p = q
    /\ Carries(watched, watched', go)
    /\ fdToPath' = [fd \in DOMAIN fdToPath \cup {watched[p].fd : p \in DOMAIN go} |-> fdToPath'[fd]]
    /\ \A fd \in {watched[p].fd : p \in DOMAIN go} :
         \E p \in DOMAIN go : watched[p].fd = fd /\ fdToPath'[fd] = go[p]
    /\ \A fd \in DOMAIN fdToPath \ {watched[p].fd : p \in DOMAIN go} : fdToPath'[fd] = fdToPath[fd]
    /\ rootNodes' = [rt \in DOMAIN rootNodes |->
          (rootNodes[rt] \ {p \in DOMAIN go : rt \in watched[p].roots})
          \cup {go[p] : p \in {m \in DOMAIN go : rt \in watched[m].roots}}]
    /\ \/ Carries(snapshots, snapshots', go)
       \/ snapshots' = snapshots /\ ((\E p \in DOMAIN go : watched[p].isDir) => "mistaken" \in mishaps')
    /\ Landed(watched, go) \cap (DOMAIN watched \ DOMAIN go) # {} => "displaced" \in mishaps'
    /\ mishaps \subseteq mishaps'
    /\ UNCHANGED <<roots, kernelVars, closed, runPc, here>>

LEMMA EntryPath ==
    ASSUME RunTyped, runPc \in {"read", "diff", "enroll"}, NEW e \in EntryRec
    PROVE  PathIn(e) \in AllPaths /\ PathIn(e) # here /\ ~HasPathPrefix(here, PathIn(e))
<1>1. here \in Seq(Components) /\ e.name \in Components
  BY DEF RunTyped, EntryRec, AllPaths, Path
<1>2. PathIn(e) \in Seq(Components) /\ Len(PathIn(e)) = Len(here) + 1 /\ Len(here) \in Nat
  BY <1>1 DEF PathIn
<1>3. PathIn(e) # here
  BY <1>2
<1>4. ~IsPrefix(PathIn(e), here)
  BY <1>1, <1>2 DEF IsPrefix
<1> QED BY <1>2, <1>3, <1>4 DEF AllPaths, Path, HasPathPrefix, IsStrictPrefix

LEMMA CarriedCarries ==
    ASSUME NEW f, NEW go, \A p, q \in DOMAIN go : go[p] = go[q] => p = q,
           NEW from, from = [q \in {go[p] : p \in DOMAIN go} |-> from[q]],
           \A p \in DOMAIN go : from[go[p]] = p,
           NEW g, g = [q \in (DOMAIN f \ DOMAIN go) \cup Landed(f, go) |->
                          IF q \in DOMAIN from /\ from[q] \in DOMAIN f THEN f[from[q]] ELSE f[q]]
    PROVE  Carries(f, g, go)
<1>1. DOMAIN from = {go[p] : p \in DOMAIN go} /\ DOMAIN g = (DOMAIN f \ DOMAIN go) \cup Landed(f, go)
  OBVIOUS
<1>2. ASSUME NEW p \in DOMAIN go \cap DOMAIN f PROVE g[go[p]] = f[p]
  <2>1. go[p] \in Landed(f, go) /\ go[p] \in DOMAIN from /\ from[go[p]] = p
    BY <1>1 DEF Landed
  <2> QED BY <2>1
<1>3. ASSUME NEW q \in DOMAIN f \ DOMAIN go, q \notin Landed(f, go) PROVE g[q] = f[q]
  <2>1. ~(q \in DOMAIN from /\ from[q] \in DOMAIN f)
    <3>1. ASSUME q \in DOMAIN from, from[q] \in DOMAIN f PROVE FALSE
      <4>1. PICK p \in DOMAIN go : q = go[p]
        BY <1>1, <3>1
      <4>2. p \in DOMAIN f
        BY <3>1, <4>1
      <4> QED BY <1>3, <4>1, <4>2 DEF Landed
    <3> QED BY <3>1
  <2> QED BY <2>1
<1>4. g = [q \in (DOMAIN f \ DOMAIN go) \cup Landed(f, go) |-> g[q]]
  OBVIOUS
<1> QED BY <1>2, <1>3, <1>4 DEF Carries

LEMMA RenameIsCarrying ==
    ASSUME TablesTyped, RunTyped, RescanRename
    PROVE  \E pr \in Pairs : RenamesTables(Goes(pr))
<1>1. PICK pr \in Pairs :
         LET old == PathIn(pr[1])  new == PathIn(pr[2])
             moved == IF pr[1].isDir THEN AtOrBelow(old) ELSE {old} \cap DOMAIN watched
             to(p) == JoinMovedPath(p, old, new)
             from  == [q \in {to(p) : p \in moved} |-> JoinMovedPath(q, new, old)]
             Carried(f) == [q \in (DOMAIN f \ moved) \cup {to(p) : p \in moved \cap DOMAIN f} |->
                               IF q \in DOMAIN from /\ from[q] \in DOMAIN f THEN f[from[q]] ELSE f[q]]
         IN  /\ watched' = Carried(watched)
             /\ snapshots' = IF pr[1].isDir THEN Carried(snapshots) ELSE snapshots
             /\ fdToPath' = [fd \in DOMAIN fdToPath \cup {watched[p].fd : p \in moved} |->
                   IF \E p \in moved : watched[p].fd = fd
                   THEN to(CHOOSE p \in moved : watched[p].fd = fd) ELSE fdToPath[fd]]
             /\ rootNodes' = [rt \in DOMAIN rootNodes |->
                   LET mine == {p \in moved : rt \in watched[p].roots}
                   IN  (rootNodes[rt] \ mine) \cup {to(p) : p \in mine}]
             /\ Befalls((IF DOMAIN from \cap (DOMAIN watched \ moved) # {}
                         THEN {"displaced"} ELSE {})
                        \cup (IF ~pr[1].isDir /\ \E p \in moved : watched[p].isDir
                              THEN {"mistaken"} ELSE {}))
  BY DEF RescanRename, ListsAfter
<1> DEFINE old == PathIn(pr[1])
           new == PathIn(pr[2])
           moved == IF pr[1].isDir THEN AtOrBelow(old) ELSE {old} \cap DOMAIN watched
           to(p) == JoinMovedPath(p, old, new)
           back(q) == JoinMovedPath(q, new, old)
           from == [q \in {to(p) : p \in moved} |-> back(q)]
           Carried(f) == [q \in (DOMAIN f \ moved) \cup {to(p) : p \in moved \cap DOMAIN f} |->
                               IF q \in DOMAIN from /\ from[q] \in DOMAIN f THEN f[from[q]] ELSE f[q]]
<1>2. /\ watched' = Carried(watched)
      /\ snapshots' = IF pr[1].isDir THEN Carried(snapshots) ELSE snapshots
      /\ fdToPath' = [fd \in DOMAIN fdToPath \cup {watched[p].fd : p \in moved} |->
            IF \E p \in moved : watched[p].fd = fd
            THEN to(CHOOSE p \in moved : watched[p].fd = fd) ELSE fdToPath[fd]]
      /\ rootNodes' = [rt \in DOMAIN rootNodes |->
            (rootNodes[rt] \ {p \in moved : rt \in watched[p].roots})
            \cup {to(p) : p \in {m \in moved : rt \in watched[m].roots}}]
      /\ mishaps' = mishaps \cup ((IF DOMAIN from \cap (DOMAIN watched \ moved) # {}
                         THEN {"displaced"} ELSE {})
                        \cup (IF ~pr[1].isDir /\ \E p \in moved : watched[p].isDir
                              THEN {"mistaken"} ELSE {}))
  BY <1>1 DEF Befalls
<1>3. runPc = "diff" /\ UNCHANGED <<roots, kernelVars, closed, runPc, here>>
  BY DEF RescanRename, At
<1>4. pr[1] \in EntryRec /\ pr[2] \in EntryRec
  BY DEF Pairs, RunTyped
<1>5. old \in AllPaths /\ new \in AllPaths /\ old # here /\ ~HasPathPrefix(here, old)
  BY <1>3, <1>4, EntryPath
<1>6. ASSUME NEW p \in moved
      PROVE  p \in DOMAIN watched /\ HasPathPrefix(p, old) /\ p # here
  BY <1>5 DEF AtOrBelow, HasPathPrefix
<1>7. ASSUME NEW p \in moved
      PROVE  to(p) \in AllPaths /\ back(to(p)) = p
  <2>1. p \in Path(Components) /\ old \in Path(Components) /\ new \in Path(Components)
    BY <1>5, <1>6 DEF TablesTyped, AllPaths
  <2> QED BY <1>6, <2>1, JoinIsPath, MovesBack DEF AllPaths
<1>8. PICK go : go = [p \in moved |-> to(p)]
  OBVIOUS
<1>9. Goes(pr) = go
  BY <1>8 DEF Goes
<1>10. Pairs \subseteq Pairs /\ pr \in Pairs
  OBVIOUS
<1> HIDE DEF moved, to, back
<1>11. /\ DOMAIN go = moved /\ \A p \in moved : go[p] = to(p)
       /\ go \in [DOMAIN go -> AllPaths] /\ DOMAIN go \subseteq DOMAIN watched /\ here \notin DOMAIN go
       /\ \A p, q \in DOMAIN go : go[p] = go[q] => p = q
  <2>1. DOMAIN go = moved /\ \A p \in moved : go[p] = to(p)
    BY <1>8
  <2>2. go \in [DOMAIN go -> AllPaths]
    BY <1>7, <1>8, <2>1
  <2>3. DOMAIN go \subseteq DOMAIN watched /\ here \notin DOMAIN go
    BY <1>6, <2>1
  <2>4. \A p, q \in DOMAIN go : go[p] = go[q] => p = q
    BY <1>7, <2>1
  <2> QED BY <2>1, <2>2, <2>3, <2>4
<1>12. DOMAIN from = {to(p) : p \in moved} /\ {to(p) : p \in moved} = {go[p] : p \in DOMAIN go}
       /\ from = [q \in {go[p] : p \in DOMAIN go} |-> from[q]]
  BY <1>11
<1>13. \A p \in DOMAIN go : from[go[p]] = p
  BY <1>7, <1>11, <1>12
<1>14. ASSUME NEW f PROVE Landed(f, go) = {to(p) : p \in moved \cap DOMAIN f}
  BY <1>11 DEF Landed
<1> HIDE DEF from
<1>15. ASSUME NEW f PROVE Carries(f, Carried(f), go)
  <2>1. PICK g : g = Carried(f)
    OBVIOUS
  <2>2. g = [q \in (DOMAIN f \ DOMAIN go) \cup Landed(f, go) |->
                IF q \in DOMAIN from /\ from[q] \in DOMAIN f THEN f[from[q]] ELSE f[q]]
    BY <1>11, <1>14, <2>1
  <2> HIDE DEF Carried
  <2>3. Carries(f, g, go)
    BY <1>11, <1>12, <1>13, <2>2, CarriedCarries
  <2> QED BY <2>1, <2>3
<1>16. Carries(watched, watched', go)
  BY <1>2, <1>15
<1>17. fdToPath' = [fd \in DOMAIN fdToPath \cup {watched[p].fd : p \in DOMAIN go} |-> fdToPath'[fd]]
       /\ (\A fd \in {watched[p].fd : p \in DOMAIN go} :
             \E p \in DOMAIN go : watched[p].fd = fd /\ fdToPath'[fd] = go[p])
       /\ \A fd \in DOMAIN fdToPath \ {watched[p].fd : p \in DOMAIN go} : fdToPath'[fd] = fdToPath[fd]
  <2>1. ASSUME NEW fd \in {watched[p].fd : p \in moved}
        PROVE  \E p \in moved : watched[p].fd = fd /\ fdToPath'[fd] = to(p)
    <3>1. \E p \in moved : watched[p].fd = fd
      OBVIOUS
    <3>2. PICK p : p = CHOOSE m \in moved : watched[m].fd = fd
      OBVIOUS
    <3>3. p \in moved /\ watched[p].fd = fd
      BY <3>1, <3>2
    <3> QED BY <1>2, <3>1, <3>2, <3>3
  <2>2. DOMAIN fdToPath' = DOMAIN fdToPath \cup {watched[p].fd : p \in moved}
        /\ fdToPath' = [fd \in DOMAIN fdToPath \cup {watched[p].fd : p \in moved} |-> fdToPath'[fd]]
    BY <1>2
  <2>3. \A fd \in DOMAIN fdToPath \ {watched[p].fd : p \in moved} : fdToPath'[fd] = fdToPath[fd]
    BY <1>2
  <2>4. {watched[p].fd : p \in DOMAIN go} = {watched[p].fd : p \in moved}
    BY <1>11
  <2>5. \A p \in moved : go[p] = to(p)
    BY <1>11
  <2>6. \A fd \in {watched[p].fd : p \in moved} :
          \E p \in moved : watched[p].fd = fd /\ fdToPath'[fd] = go[p]
    BY <2>1, <2>5
  <2> QED BY <1>11, <2>2, <2>3, <2>4, <2>6
<1>18. rootNodes' = [rt \in DOMAIN rootNodes |->
          (rootNodes[rt] \ {p \in DOMAIN go : rt \in watched[p].roots})
          \cup {go[p] : p \in {m \in DOMAIN go : rt \in watched[m].roots}}]
  <2>1. \A rt : {to(p) : p \in {m \in moved : rt \in watched[m].roots}}
                = {go[p] : p \in {m \in DOMAIN go : rt \in watched[m].roots}}
    BY <1>11
  <2> QED BY <1>2, <1>11, <2>1
<1>19. \/ Carries(snapshots, snapshots', go)
       \/ snapshots' = snapshots /\ ((\E p \in DOMAIN go : watched[p].isDir) => "mistaken" \in mishaps')
  <2>1. CASE pr[1].isDir
    BY <1>2, <1>15, <2>1
  <2>2. CASE ~pr[1].isDir
    BY <1>2, <1>11, <2>2
  <2> QED BY <2>1, <2>2
<1>20. Landed(watched, go) \cap (DOMAIN watched \ DOMAIN go) # {} => "displaced" \in mishaps'
  <2>1. Landed(watched, go) \subseteq DOMAIN from
    BY <1>12 DEF Landed
  <2> QED BY <1>2, <1>11, <2>1
<1>21. mishaps \subseteq mishaps'
  BY <1>2
<1>22. RenamesTables(go)
  BY <1>3, <1>11, <1>16, <1>17, <1>18, <1>19, <1>20, <1>21 DEF RenamesTables
<1> QED BY <1>9, <1>22

----------------------------------------------------------------------------
(* Types. *)
LEMMA RootsInTree ==
    ASSUME TablesTyped
    PROVE  DOMAIN roots \subseteq Tree /\ DOMAIN rootNodes = DOMAIN roots
BY DarwinAssumption DEF TablesTyped

LEMMA TypedInit == Init => Typed
<1> SUFFICES ASSUME Init PROVE Typed
  OBVIOUS
<1> USE DEF Init, KqueueInit
<1>0. \A S : <<>> \in [{} -> S]
  OBVIOUS
<1>1. FilesTyped
  <2>1. /\ fs = [p \in Initial |-> [ino |-> <<p, 0>>, isDir |-> p = <<>> \/ Last(p) \in DirNames]]
        /\ changes = 1
    OBVIOUS
  <2>2. DOMAIN fs = Initial /\ \A p \in Initial : fs[p] \in [ino : Tree \X Nat, isDir : BOOLEAN]
    BY <2>1, KqueueAssumption
  <2>3. fs \in [DOMAIN fs -> [ino : Tree \X Nat, isDir : BOOLEAN]]
    BY <2>1, <2>2
  <2>4. <<>> \in DOMAIN fs /\ DOMAIN fs \subseteq Tree
    BY <2>1, KqueueAssumption
  <2>5. fs[<<>>].isDir
    <3>1. fs[<<>>] = [ino |-> << <<>>, 0 >>, isDir |-> <<>> = <<>> \/ Last(<<>>) \in DirNames]
      BY <2>1, <2>4, Zenon
    <3>2. (<<>> = <<>> \/ Last(<<>>) \in DirNames) = TRUE
      OBVIOUS
    <3>3. fs[<<>>] = [ino |-> << <<>>, 0 >>, isDir |-> TRUE]
      BY <3>1, <3>2, Zenon
    <3> QED BY <3>3
  <2> QED BY <2>1, <2>3, <2>4, <2>5 DEF FilesTyped
<1>2. FdsTyped
  <2>1. IsFiniteSet({}) /\ DOMAIN fds = {} /\ fds \in [{} -> FdRec] /\ queue \in Seq({})
    BY <1>0, FS_EmptySet
  <2>2. \A i \in DOMAIN queue : fds[queue[i]].notes # {}
    OBVIOUS
  <2> QED BY <2>1, <2>2 DEF FdsTyped
<1>3. TablesTyped
  BY <1>0, Zenon DEF TablesTyped
<1>4. RunTyped
  <2>1. making \in [entry : EntryRec \cup {NoPath}, left : SUBSET Tree]
    BY DEF NoMaking
  <2> QED BY <2>1 DEF RunTyped, RunLabels
<1>5. WalksTyped
  <2>1. NoWalk \in WalkRec
    BY DEF NoWalk, WalkRec, Kinds
  <2>2. NoAdd \in AddRec
    BY DEF NoAdd, AddRec
  <2>3. NoAdd.step = "none" /\ NoWalk.todo = {} /\ NoWalk.reading = NoPath /\ NoWalk.start = NoPath
    BY DEF NoAdd, NoWalk
  <2>4. walk \in [Walkers -> WalkRec] /\ adding \in [Walkers -> AddRec]
        /\ \A w \in Walkers : walk[w] = NoWalk /\ adding[w] = NoAdd
    BY <2>1, <2>2
  <2>5. callPc \in [Callers -> {"idle", "enroll", "cleanup", "close"}]
    OBVIOUS
  <2> QED BY <2>3, <2>4, <2>5 DEF WalksTyped, OneThing, Walking, Walkers
<1> QED BY <1>1, <1>2, <1>3, <1>4, <1>5 DEF Typed

LEMMA UnregisterKeepsTables ==
    ASSUME TablesTyped, NEW paths, NEW mishap, Unregister(paths, mishap)
    PROVE  TablesTyped'
<1>1. /\ watched' = Without(watched, paths) /\ snapshots' = Without(snapshots, paths)
      /\ fdToPath' = Without(fdToPath, {watched[p].fd : p \in paths}) /\ roots' = roots
  BY DEF Unregister
<1>2. rootNodes' = [rt \in DOMAIN rootNodes |->
                        rootNodes[rt] \ {p \in paths : rt \in watched[p].roots}]
  BY DEF Unregister
<1>3. rootNodes' \in [DOMAIN roots' -> SUBSET AllPaths]
  BY <1>1, <1>2 DEF TablesTyped
<1> QED BY <1>1, <1>3 DEF TablesTyped, Without, Restrict

LEMMA ForgetKeepsTables ==
    ASSUME TablesTyped, NEW path, ForgetRoot(path)
    PROVE  TablesTyped'
<1> DEFINE mine == rootNodes[path] \cap DOMAIN watched
           dead == {p \in mine : watched[p].roots \subseteq {path}}
<1>1. /\ watched' = [p \in DOMAIN watched \ dead |->
                       IF p \in mine THEN [watched[p] EXCEPT !.roots = @ \ {path}] ELSE watched[p]]
      /\ fdToPath' = Without(fdToPath, {watched[p].fd : p \in dead})
      /\ snapshots' = Without(snapshots, dead)
      /\ rootNodes' = Without(rootNodes, {path}) /\ roots' = Without(roots, {path})
  BY DEF ForgetRoot
<1> HIDE DEF mine, dead
<1>2. \A p \in DOMAIN watched : watched[p] \in Node /\ [watched[p] EXCEPT !.roots = @ \ {path}] \in Node
  BY DEF TablesTyped, Node
<1>3. watched' \in [DOMAIN watched' -> Node] /\ DOMAIN watched' \subseteq AllPaths
  BY <1>1, <1>2 DEF TablesTyped
<1>4. /\ roots' \in [DOMAIN roots' -> Targets] /\ \A p \in DOMAIN roots' : roots'[p].Path = p
      /\ rootNodes' \in [DOMAIN roots' -> SUBSET AllPaths]
  BY <1>1 DEF Without, Restrict, TablesTyped
<1>5. fdToPath' \in [DOMAIN fdToPath' -> AllPaths] /\ snapshots' \in [DOMAIN snapshots' -> SUBSET EntryRec]
  BY <1>1 DEF Without, Restrict, TablesTyped
<1> QED BY <1>3, <1>4, <1>5 DEF TablesTyped

LEMMA JoinKeepsTables ==
    ASSUME TablesTyped, NEW w \in Walkers, walk[w].root \in DOMAIN rootNodes,
           NEW path \in DOMAIN watched, Join(w, path)
    PROVE  TablesTyped'
<1>1. /\ watched' = [watched EXCEPT ![path].roots = @ \cup {walk[w].root}]
      /\ rootNodes' = [rootNodes EXCEPT ![walk[w].root] = @ \cup {path}]
      /\ UNCHANGED <<roots, fdToPath, snapshots>>
  BY DEF Join
<1>2. [watched[path] EXCEPT !.roots = @ \cup {walk[w].root}] \in Node
  BY RootsInTree DEF TablesTyped, Node
<1>3. watched' \in [DOMAIN watched -> Node] /\ DOMAIN watched' = DOMAIN watched
  BY <1>1, <1>2 DEF TablesTyped
<1>4. rootNodes' \in [DOMAIN roots -> SUBSET AllPaths]
  BY <1>1 DEF TablesTyped
<1> QED BY <1>1, <1>3, <1>4 DEF TablesTyped

LEMMA SnapshotTyped ==
    ASSUME FilesTyped, NEW dir
    PROVE  SnapshotOf(dir) \subseteq EntryRec
<1>1. ASSUME NEW p \in Children(dir) PROVE Entry(p) \in EntryRec
  <2>1. p \in DOMAIN fs /\ p # <<>> /\ p \in Tree
    BY DEF Children, FilesTyped
  <2>2. Last(p) \in Components /\ fs[p] \in [ino : Tree \X Nat, isDir : BOOLEAN]
    BY <2>1, LastIsComponent DEF FilesTyped
  <2> QED BY <2>2 DEF Entry, EntryRec
<1> QED BY <1>1 DEF SnapshotOf

LEMMA EnterKeepsTables ==
    ASSUME FilesTyped, TablesTyped, WalksTyped, NEW w \in Walkers, EnterNew(w)
    PROVE  TablesTyped'
<1>1. PICK node : node = [fd |-> adding[w].fd, isDir |-> adding[w].isDir, roots |-> {walk[w].root}]
  OBVIOUS
<1>2. /\ walk[w].root \in DOMAIN rootNodes /\ adding[w].step = "enter"
      /\ watched' = Put(watched, adding[w].path, node)
      /\ fdToPath' = Put(fdToPath, adding[w].fd, adding[w].path)
      /\ rootNodes' = [rootNodes EXCEPT ![walk[w].root] = @ \cup {adding[w].path}]
      /\ snapshots' = IF adding[w].isDir THEN Put(snapshots, adding[w].path, SnapshotOf(adding[w].path))
                                         ELSE snapshots
      /\ UNCHANGED roots
  BY <1>1 DEF EnterNew, Entering, Registered
<1>3. adding[w] \in AddRec
  BY DEF WalksTyped
<1>4. adding[w].path \in AllPaths /\ adding[w].fd \in Nat /\ adding[w].isDir \in BOOLEAN
  BY <1>2, <1>3 DEF AddRec
<1>5. node \in Node
  BY <1>1, <1>2, <1>4, RootsInTree DEF Node
<1>6. watched' \in [DOMAIN watched' -> Node] /\ DOMAIN watched' \subseteq AllPaths
  BY <1>2, <1>4, <1>5 DEF Put, TablesTyped
<1>7. fdToPath' \in [DOMAIN fdToPath' -> AllPaths]
  BY <1>2, <1>4 DEF Put, TablesTyped
<1>8. rootNodes' \in [DOMAIN roots -> SUBSET AllPaths]
  BY <1>2, <1>4 DEF TablesTyped
<1>9. PICK new : new = SnapshotOf(adding[w].path)
  OBVIOUS
<1>10. new \subseteq EntryRec
  BY <1>9, SnapshotTyped
<1>11. snapshots' \in [DOMAIN snapshots' -> SUBSET EntryRec]
  BY <1>2, <1>9, <1>10 DEF Put, TablesTyped
<1> QED BY <1>2, <1>6, <1>7, <1>8, <1>11 DEF TablesTyped

LEMMA CarriedTyped ==
    ASSUME NEW S, NEW f, f \in [DOMAIN f -> S], NEW g, NEW go, Carries(f, g, go)
    PROVE  g \in [DOMAIN g -> S] /\ DOMAIN g = (DOMAIN f \ DOMAIN go) \cup Landed(f, go)
<1>1. DOMAIN g = (DOMAIN f \ DOMAIN go) \cup Landed(f, go)
  BY DEF Carries
<1>2. ASSUME NEW q \in DOMAIN g PROVE g[q] \in S
  <2>1. CASE q \in Landed(f, go)
    BY <2>1 DEF Landed, Carries
  <2>2. CASE q \notin Landed(f, go)
    BY <1>1, <2>2 DEF Carries
  <2> QED BY <2>1, <2>2
<1>3. g = [q \in DOMAIN g |-> g[q]]
  BY <1>1 DEF Carries
<1> QED BY <1>1, <1>2, <1>3

LEMMA RenameKeepsTables ==
    ASSUME TablesTyped, NEW go, RenamesTables(go)
    PROVE  TablesTyped'
<1> USE DEF RenamesTables
<1>1. watched' \in [DOMAIN watched' -> Node]
  BY CarriedTyped DEF TablesTyped
<1>2. DOMAIN watched' \subseteq AllPaths
  <2>1. DOMAIN watched' = (DOMAIN watched \ DOMAIN go) \cup Landed(watched, go)
    BY DEF Carries
  <2>2. Landed(watched, go) \subseteq AllPaths
    BY DEF Landed
  <2> QED BY <2>1, <2>2 DEF TablesTyped
<1>3. snapshots' \in [DOMAIN snapshots' -> SUBSET EntryRec]
  BY CarriedTyped DEF TablesTyped
<1>4. fdToPath' \in [DOMAIN fdToPath' -> AllPaths]
  <2> DEFINE fdsOf == {watched[p].fd : p \in DOMAIN go}
  <2>1. \A fd \in fdsOf : fdToPath'[fd] \in AllPaths
    OBVIOUS
  <2>2. \A fd \in DOMAIN fdToPath \ fdsOf : fdToPath'[fd] \in AllPaths
    BY DEF TablesTyped
  <2>3. fdToPath' = [fd \in DOMAIN fdToPath \cup fdsOf |-> fdToPath'[fd]]
    OBVIOUS
  <2> HIDE DEF fdsOf, RenamesTables
  <2>4. DOMAIN fdToPath' = DOMAIN fdToPath \cup fdsOf
    BY <2>3
  <2> QED BY <2>1, <2>2, <2>3, <2>4
<1>5. rootNodes' \in [DOMAIN roots -> SUBSET AllPaths]
  <2>1. \A rt \in DOMAIN rootNodes : rootNodes'[rt] \subseteq AllPaths
    BY DEF TablesTyped
  <2> QED BY <2>1 DEF TablesTyped
<1> QED BY <1>1, <1>2, <1>3, <1>4, <1>5 DEF TablesTyped

(* The same for the walks: w goes from one walk record to another. *)
LEMMA WalkOn ==
    ASSUME WalksTyped, NEW w \in Walkers, NEW rec \in WalkRec, NEW add \in AddRec,
           OneThing(rec, add), walk' = [walk EXCEPT ![w] = rec],
           adding' = [adding EXCEPT ![w] = add], UNCHANGED callPc, Walking(w)
    PROVE  WalksTyped'
<1>1. walk' \in [Walkers -> WalkRec] /\ adding' \in [Walkers -> AddRec]
      /\ walk'[w] = rec /\ adding'[w] = add
      /\ \A v \in Walkers \ {w} : walk'[v] = walk[v] /\ adding'[v] = adding[v]
  BY DEF WalksTyped
<1>2. \A v \in Walkers : OneThing(walk'[v], adding'[v])
  BY <1>1 DEF WalksTyped
<1>3. ASSUME NEW c \in Callers, callPc[c] # "enroll" PROVE ~Walking(c)'
  <2>1. c # w /\ c \in Walkers /\ ~Walking(c)
    BY <1>3 DEF WalksTyped, Walkers
  <2> QED BY <1>1, <2>1 DEF Walking
<1> QED BY <1>1, <1>2, <1>3 DEF WalksTyped

LEMMA VisitedKeepsWalks ==
    ASSUME WalksTyped, NEW w \in Walkers, NEW e \in WalkEntry, walk[w].todo # {}, Visited(w, e)
    PROVE  WalksTyped'
<1> DEFINE onward == IF e.isDir /\ walk[w].reading = NoPath /\ walk[w].kind \in {"tree", "flat"}
                     THEN e.path ELSE NoPath
           left == (walk[w].todo \ {e}) \cup (IF walk[w].kind = "file" /\ e.isDir
                                              THEN {[path |-> walk[w].root, isDir |-> FALSE]} ELSE {})
<1>1. PICK rec : rec = [walk[w] EXCEPT !.reading = onward, !.todo = left]
  OBVIOUS
<1>2. walk[w] \in WalkRec /\ walk[w].start = NoPath /\ w \in DOMAIN walk
  BY DEF WalksTyped, OneThing
<1>3. onward \in AllPaths \cup {NoPath}
  BY DEF WalkEntry
<1>4. left \subseteq WalkEntry
  <2>1. walk[w].kind = "file" => walk[w].root \in AllPaths
    BY <1>2, TreeIsPath DEF WalkRec
  <2>2. walk[w].todo \subseteq WalkEntry
    BY <1>2 DEF WalkRec
  <2>3. walk[w].kind = "file" => [path |-> walk[w].root, isDir |-> FALSE] \in WalkEntry
    BY <2>1 DEF WalkEntry
  <2> QED BY <2>2, <2>3
<1>5. /\ walk' = [walk EXCEPT ![w].reading = onward, ![w].todo = left]
      /\ adding' = [adding EXCEPT ![w] = NoAdd]
      /\ UNCHANGED callPc
  BY DEF Visited, callVars
<1> HIDE DEF onward, left
<1>6. rec \in WalkRec /\ rec.start = NoPath
  BY <1>1, <1>2, <1>3, <1>4 DEF WalkRec
<1>7. walk' = [walk EXCEPT ![w] = rec]
  BY <1>1, <1>2, <1>5
<1>8. NoAdd \in AddRec /\ OneThing(rec, NoAdd)
  BY <1>6 DEF NoAdd, AddRec, OneThing
<1> QED BY <1>5, <1>6, <1>7, <1>8, WalkOn DEF Walking

LEMMA AbortKeepsWalks ==
    ASSUME WalksTyped, NEW w \in Walkers, Walking(w), Abort(w)
    PROVE  WalksTyped'
<1>1. walk' = [walk EXCEPT ![w] = NoWalk] /\ adding' = [adding EXCEPT ![w] = NoAdd]
      /\ UNCHANGED callPc
  BY DEF Abort, callVars
<1>2. NoWalk \in WalkRec /\ NoAdd \in AddRec /\ OneThing(NoWalk, NoAdd)
  BY DEF NoWalk, WalkRec, Kinds, NoAdd, AddRec, OneThing
<1> QED BY <1>1, <1>2, WalkOn

LEMMA WalkStepTyped ==
    ASSUME Typed, NEW w \in Walkers, WalkStep(w)
    PROVE  Typed' /\ Walking(w) /\ UNCHANGED <<closed, kqOpen, runVars, callVars>>
<1> USE DEF Typed
<1>a. walk[w] \in WalkRec /\ adding[w] \in AddRec /\ OneThing(walk[w], adding[w]) /\ w \in DOMAIN walk
  BY DEF WalksTyped
<1>b. walk[w].todo \subseteq WalkEntry
  BY <1>a DEF WalkRec
<1>c. NoAdd \in AddRec /\ \A e \in WalkEntry : e.path \in AllPaths /\ e.isDir \in BOOLEAN
  BY DEF NoAdd, AddRec, WalkEntry
<1>d. Walking(w)
  BY <1>a DEF WalkStep, Walking, OneThing, Lstat, WalkExcluded, Visits, ReadDir, AddNothing, AddShared,
              AddOpens, AddArm, AddFails, EnterOrphan, EnterShared, EnterNew, Considers, Entering
<1>e. UNCHANGED <<closed, runVars, callVars>>
  BY DEF WalkStep, Lstat, WalkExcluded, ReadDir, AddNothing, AddShared, AddOpens, AddArm, AddFails,
         EnterOrphan, EnterShared, EnterNew, Visited, Entered, Abort
<1>f. UNCHANGED <<fs, changes, kqOpen>>
  BY DEF WalkStep, Lstat, WalkExcluded, ReadDir, AddNothing, AddShared, AddOpens, AddArm, AddFails,
         EnterOrphan, EnterShared, EnterNew, kernelVars, Open, Arm, CloseFds
<1>1. FilesTyped' /\ RunTyped'
  BY <1>e, <1>f DEF FilesTyped, RunTyped, runVars, scanVars
<1>2. FdsTyped'
  <2>1. CASE UNCHANGED kernelVars
    BY <2>1 DEF kernelVars, FdsTyped
  <2>2. CASE AddOpens(w)
    BY <2>2, OpenKeepsFds DEF AddOpens
  <2>3. CASE AddArm(w)
    BY <2>3, ArmKeepsFds DEF AddArm
  <2>4. CASE CloseFds({adding[w].fd})
    BY <2>4, CloseKeepsFds
  <2> QED BY <2>1, <2>2, <2>3, <2>4 DEF WalkStep, Lstat, WalkExcluded, ReadDir, AddNothing, AddShared,
             AddFails, EnterOrphan, EnterShared, EnterNew
<1>3. TablesTyped'
  <2>1. CASE UNCHANGED tables
    BY <2>1 DEF tables, TablesTyped
  <2>2. CASE AddShared(w)
    BY <2>2, JoinKeepsTables DEF AddShared, Wanted, Registered
  <2>3. CASE EnterShared(w)
    BY <2>3, JoinKeepsTables DEF EnterShared, Registered
  <2>4. CASE EnterNew(w)
    BY <2>4, EnterKeepsTables
  <2> QED BY <2>1, <2>2, <2>3, <2>4 DEF WalkStep, Lstat, WalkExcluded, ReadDir, AddNothing,
             AddOpens, AddArm, AddFails, EnterOrphan
<1>4. WalksTyped'
  <2>1. CASE Abort(w)
    BY <1>d, <2>1, AbortKeepsWalks
  <2>2. ASSUME Lstat(w), ~Abort(w) PROVE WalksTyped'
    <3>1. PICK found : found = {[path |-> walk[w].start, isDir |-> fs[walk[w].start].isDir]}
      OBVIOUS
    <3>2. PICK rec : rec = [walk[w] EXCEPT !.start = NoPath, !.todo = found]
      OBVIOUS
    <3>3. /\ walk[w].start # NoPath /\ Exists(walk[w].start) /\ UNCHANGED adding
          /\ walk' = [walk EXCEPT ![w].start = NoPath, ![w].todo = found]
      BY <2>2, <3>1 DEF Lstat
    <3>4. found \subseteq WalkEntry
      BY <1>a, <3>1, <3>3 DEF WalkRec, WalkEntry, Exists, FilesTyped
    <3>5. rec \in WalkRec /\ rec.start = NoPath
      BY <1>a, <3>2, <3>4 DEF WalkRec
    <3>6. adding[w].step = "none" /\ OneThing(rec, adding[w])
      BY <1>a, <3>3, <3>5 DEF OneThing
    <3>7. walk' = [walk EXCEPT ![w] = rec] /\ adding' = [adding EXCEPT ![w] = adding[w]]
      BY <1>a, <3>2, <3>3 DEF WalksTyped
    <3> QED BY <1>a, <1>d, <1>e, <3>5, <3>6, <3>7, WalkOn DEF callVars
  <2>3. ASSUME WalkExcluded(w) PROVE WalksTyped'
    <3>1. PICK e \in walk[w].todo : Visits(w, e) /\ walk' = [walk EXCEPT ![w].todo = @ \ {e}]
                                    /\ UNCHANGED adding
      BY <2>3 DEF WalkExcluded
    <3>2. PICK rec : rec = [walk[w] EXCEPT !.todo = @ \ {e}]
      OBVIOUS
    <3>3. rec \in WalkRec /\ rec.start = walk[w].start
      BY <1>a, <3>2 DEF WalkRec
    <3>4. adding[w].step = "none" /\ walk[w].start = NoPath /\ OneThing(rec, adding[w])
      BY <1>a, <3>1, <3>3 DEF OneThing, Visits
    <3>5. walk' = [walk EXCEPT ![w] = rec] /\ adding' = [adding EXCEPT ![w] = adding[w]]
      BY <1>a, <3>1, <3>2 DEF WalksTyped
    <3> QED BY <1>a, <1>d, <1>e, <3>3, <3>4, <3>5, WalkOn DEF callVars
  <2>4. ASSUME ReadDir(w), ~Abort(w) PROVE WalksTyped'
    <3>1. PICK more : /\ more \subseteq {[path |-> p, isDir |-> fs[p].isDir] : p \in Children(walk[w].reading)}
                      /\ walk' = [walk EXCEPT ![w].reading = NoPath, ![w].todo = @ \cup more]
                      /\ walk[w].reading # NoPath /\ UNCHANGED adding
      <4> DEFINE kept(e) == walk[w].kind = "tree" \/ ~(e.isDir \/ ShouldExclude(e.path, FALSE))
      <4>1. PICK found : found = {[path |-> p, isDir |-> fs[p].isDir] : p \in Children(walk[w].reading)}
        OBVIOUS
      <4>2. PICK more : more = {e \in found : kept(e)}
        OBVIOUS
      <4>3. walk' = [walk EXCEPT ![w].reading = NoPath, ![w].todo = @ \cup more]
            /\ walk[w].reading # NoPath /\ UNCHANGED adding
        BY <2>4, <4>1, <4>2 DEF ReadDir
      <4>4. more \subseteq found
        BY <4>2
      <4> QED BY <4>1, <4>3, <4>4
    <3>2. more \subseteq WalkEntry
      BY <3>1, TreeIsPath DEF Children, FilesTyped, WalkEntry
    <3>3. PICK rec : rec = [walk[w] EXCEPT !.reading = NoPath, !.todo = @ \cup more]
      OBVIOUS
    <3>4. rec \in WalkRec /\ rec.start = walk[w].start
      BY <1>a, <3>2, <3>3 DEF WalkRec
    <3>5. adding[w].step = "none" /\ walk[w].start = NoPath /\ OneThing(rec, adding[w])
      BY <1>a, <3>1, <3>4 DEF OneThing
    <3>6. walk' = [walk EXCEPT ![w] = rec] /\ adding' = [adding EXCEPT ![w] = adding[w]]
      BY <1>a, <3>1, <3>3 DEF WalksTyped
    <3> QED BY <1>a, <1>d, <1>e, <3>4, <3>5, <3>6, WalkOn DEF callVars
  <2>5. ASSUME AddOpens(w) PROVE WalksTyped'
    <3>1. PICK e \in walk[w].todo : /\ Visits(w, e) /\ UNCHANGED walk
            /\ adding' = [adding EXCEPT ![w] = [step |-> "arm", path |-> e.path,
                                                isDir |-> e.isDir, fd |-> LowestFree]]
      BY <2>5 DEF AddOpens, Considers
    <3>2. PICK add : add = [step |-> "arm", path |-> e.path, isDir |-> e.isDir, fd |-> LowestFree]
      OBVIOUS
    <3>3. add \in AddRec /\ add.step = "arm"
      BY <1>b, <1>c, <3>2, LowestFreeIsFree DEF AddRec
    <3>4. OneThing(walk[w], add)
      BY <1>a, <3>1, <3>3 DEF OneThing, Visits
    <3>5. walk' = [walk EXCEPT ![w] = walk[w]] /\ adding' = [adding EXCEPT ![w] = add]
      BY <1>a, <3>1, <3>2 DEF WalksTyped
    <3> QED BY <1>a, <1>d, <1>e, <3>3, <3>4, <3>5, WalkOn DEF callVars
  <2>6. ASSUME AddArm(w) PROVE WalksTyped'
    <3>1. PICK add : add = [adding[w] EXCEPT !.step = "enter"]
      OBVIOUS
    <3>2. add \in AddRec /\ add.step = "enter"
      BY <1>a, <2>6, <3>1 DEF AddRec, AddArm
    <3>3. OneThing(walk[w], add)
      BY <1>a, <2>6, <3>2 DEF OneThing, AddArm
    <3>4. walk' = [walk EXCEPT ![w] = walk[w]] /\ adding' = [adding EXCEPT ![w] = add]
      BY <1>a, <2>6, <3>1 DEF WalksTyped, AddArm
    <3> QED BY <1>a, <1>d, <1>e, <3>2, <3>3, <3>4, WalkOn DEF callVars
  <2>7. ASSUME Entering(w), Entered(w) PROVE WalksTyped'
    <3>1. PICK e : e = [path |-> adding[w].path, isDir |-> adding[w].isDir]
      OBVIOUS
    <3>2. e \in WalkEntry /\ walk[w].todo # {}
      BY <1>a, <2>7, <3>1 DEF Entering, AddRec, WalkEntry, OneThing
    <3> QED BY <2>7, <3>1, <3>2, VisitedKeepsWalks DEF Entered
  <2>8. ASSUME AddNothing(w) \/ AddShared(w) PROVE WalksTyped'
    <3>1. PICK e \in walk[w].todo : Visited(w, e)
      BY <2>8 DEF AddNothing, AddShared
    <3> QED BY <1>b, <3>1, VisitedKeepsWalks
  <2> QED BY <2>1, <2>2, <2>3, <2>4, <2>5, <2>6, <2>7, <2>8
          DEF WalkStep, AddFails, EnterOrphan, EnterShared, EnterNew
<1> QED BY <1>1, <1>2, <1>3, <1>4, <1>d, <1>e, <1>f

(* A call that is at one place goes to another: a caller that is not in Add
   has no walk. *)
LEMMA CallOn ==
    ASSUME WalksTyped, NEW c \in Callers, ~Walking(c),
           NEW label \in {"idle", "cleanup", "close"}, CallGoto(c, label), UNCHANGED walkVars
    PROVE  WalksTyped'
<1>1. callPc' = [callPc EXCEPT ![c] = label] /\ UNCHANGED <<walk, adding>>
  BY DEF CallGoto, walkVars
<1>2. \A d \in Callers : callPc'[d] # "enroll" => ~Walking(d)'
  BY <1>1 DEF WalksTyped, Walking
<1> QED BY <1>1, <1>2 DEF WalksTyped

LEMMA StartKeepsWalks ==
    ASSUME WalksTyped, NEW w \in Walkers, ~Walking(w), NEW rt \in Tree, NEW kind \in Kinds,
           NEW path \in AllPaths, NEW isDir \in BOOLEAN, StartWalk(w, rt, kind, path, isDir),
           \/ w \in Callers /\ callPc' = [callPc EXCEPT ![w] = "enroll"]
           \/ w = Run /\ callPc' = callPc
    PROVE  WalksTyped'
<1> DEFINE todo == IF kind = "tree" THEN {} ELSE {[path |-> path, isDir |-> isDir]}
           start == IF kind = "tree" THEN path ELSE NoPath
<1>1. PICK rec : rec = [root |-> rt, kind |-> kind, reading |-> NoPath, start |-> start, todo |-> todo]
  OBVIOUS
<1>2. walk' = [walk EXCEPT ![w] = rec] /\ UNCHANGED adding
  BY <1>1 DEF StartWalk
<1>3. todo \subseteq WalkEntry /\ start \in AllPaths \cup {NoPath} /\ (start # NoPath => todo = {})
  BY DEF WalkEntry
<1> HIDE DEF todo, start
<1>4. rec \in WalkRec
  BY <1>1, <1>3 DEF WalkRec
<1>5. adding[w].step = "none"
  BY DEF WalksTyped, OneThing, Walking
<1>6. OneThing(rec, adding[w])
  BY <1>1, <1>3, <1>5 DEF OneThing
<1>7. walk' \in [Walkers -> WalkRec] /\ walk'[w] = rec /\ \A v \in Walkers \ {w} : walk'[v] = walk[v]
  BY <1>2, <1>4 DEF WalksTyped
<1>8. \A v \in Walkers : OneThing(walk'[v], adding'[v])
  BY <1>2, <1>6, <1>7 DEF WalksTyped
<1>9. callPc' \in [Callers -> {"idle", "enroll", "cleanup", "close"}]
  BY DEF WalksTyped
<1>10. ASSUME NEW c \in Callers, callPc'[c] # "enroll" PROVE ~Walking(c)'
  <2>1. c # w /\ c \in Walkers /\ callPc'[c] = callPc[c]
    BY <1>10, DarwinAssumption DEF WalksTyped, Walkers
  <2>2. ~Walking(c)
    BY <1>10, <2>1 DEF WalksTyped
  <2> QED BY <1>7, <2>1, <2>2 DEF Walking
<1> QED BY <1>2, <1>7, <1>8, <1>9, <1>10 DEF WalksTyped

LEMMA CallTyped ==
    ASSUME Typed, NEW c \in Callers, Call(c)
    PROVE  Typed'
<1> USE DEF Typed
<1>w. c \in Walkers
  BY DEF Walkers
<1>1. ASSUME UNCHANGED kernelVars PROVE FilesTyped' /\ FdsTyped'
  BY <1>1 DEF kernelVars, FilesTyped, FdsTyped
<1>2. ASSUME UNCHANGED <<closed, runVars, kqOpen>> PROVE RunTyped'
  BY <1>2 DEF RunTyped, runVars, scanVars
<1>3. ASSUME AddRegister(c) PROVE Typed'
  <2>1. PICK t \in Targets :
          /\ CallBegins(c, "Add")
          /\ roots' = Put(roots, t.Path, t) /\ rootNodes' = Put(rootNodes, t.Path, {})
          /\ StartWalk(c, t.Path, IF t.IsDir THEN IF t.Recursive THEN "tree" ELSE "flat" ELSE "file",
                       t.WatchPath, TRUE)
          /\ CallGoto(c, "enroll")
          /\ UNCHANGED <<kernelVars, watched, fdToPath, snapshots, closed, runVars>>
    BY <1>3 DEF AddRegister
  <2>2. t.Path \in Tree /\ t.WatchPath \in AllPaths
    BY DarwinAssumption, TreeIsPath
  <2>3. WalksTyped'
    <3>1. PICK kind \in Kinds : StartWalk(c, t.Path, kind, t.WatchPath, TRUE)
      BY <2>1 DEF Kinds
    <3>2. ~Walking(c) /\ callPc' = [callPc EXCEPT ![c] = "enroll"]
      BY <2>1 DEF CallBegins, CallGoto, WalksTyped
    <3> QED BY <1>w, <2>2, <3>1, <3>2, StartKeepsWalks
  <2>4. TablesTyped'
    BY <2>1 DEF Put, TablesTyped
  <2> QED BY <1>1, <1>2, <2>1, <2>3, <2>4 DEF kernelVars
<1>4. ASSUME AddReturns(c) PROVE Typed'
  <2>1. WalksTyped'
    BY <1>4, CallOn DEF AddReturns
  <2> QED BY <1>1, <1>2, <1>4, <2>1 DEF AddReturns, kernelVars, tables, TablesTyped
<1>5. ASSUME NEW path, ForgetRoot(path), UNCHANGED <<closed, runVars>>
      PROVE  FilesTyped' /\ FdsTyped' /\ TablesTyped' /\ RunTyped'
  <2>1. \E closing : CloseFds(closing)
    BY <1>5 DEF ForgetRoot
  <2>2. FilesTyped' /\ UNCHANGED kqOpen
    BY <2>1 DEF CloseFds, FilesTyped
  <2> QED BY <1>2, <1>5, <2>1, <2>2, CloseKeepsFds, ForgetKeepsTables
<1>6. ASSUME AddCleanup(c) PROVE Typed'
  <2>1. WalksTyped'
    BY <1>6, CallOn DEF AddCleanup, WalksTyped
  <2>2. CASE ForgetRoot(target[c])
    BY <1>5, <1>6, <2>1, <2>2 DEF AddCleanup
  <2>3. CASE ~ForgetRoot(target[c])
    BY <1>1, <1>2, <1>6, <2>1, <2>3 DEF AddCleanup, kernelVars, tables, TablesTyped
  <2> QED BY <2>2, <2>3
<1>7. ASSUME RemoveRoot(c) PROVE Typed'
  <2>1. WalksTyped'
    BY <1>7 DEF RemoveRoot, WalksTyped, walkVars, Walking
  <2> QED BY <1>5, <1>7, <2>1 DEF RemoveRoot
<1>8. ASSUME CloseBegins(c) PROVE Typed'
  <2>1. PICK closing : fds' = [fd \in DOMAIN fds \ closing |-> [fds[fd] EXCEPT !.armed = FALSE, !.notes = {}]]
    BY <1>8 DEF CloseBegins
  <2>2. /\ closed' = TRUE /\ watched' = <<>> /\ snapshots' = <<>> /\ queue' = <<>> /\ kqOpen' = FALSE
        /\ CallGoto(c, "close") /\ callPc[c] = "idle"
        /\ UNCHANGED <<fs, changes, roots, rootNodes, fdToPath, runVars, walkVars>>
    BY <1>8 DEF CloseBegins, CallBegins
  <2>3. WalksTyped'
    BY <2>2, CallOn DEF WalksTyped
  <2>4. ASSUME NEW fd \in DOMAIN fds PROVE [fds[fd] EXCEPT !.armed = FALSE, !.notes = {}] \in FdRec
    BY DEF FdsTyped, FdRec
  <2>5. fds' \in [DOMAIN fds' -> FdRec] /\ DOMAIN fds' \subseteq DOMAIN fds
    BY <2>1, <2>4
  <2>6. FdsTyped'
    <3>1. IsFiniteSet(DOMAIN fds') /\ DOMAIN fds' \subseteq Nat
      BY <2>5, FS_Subset DEF FdsTyped
    <3>2. queue' \in Seq(DOMAIN fds') /\ DOMAIN queue' = {}
      BY <2>2
    <3> QED BY <2>2, <2>5, <3>1, <3>2 DEF FdsTyped
  <2>7. TablesTyped'
    BY <2>2 DEF TablesTyped
  <2>8. FilesTyped' /\ RunTyped'
    BY <2>2 DEF FilesTyped, RunTyped, runVars, scanVars
  <2> QED BY <2>3, <2>6, <2>7, <2>8
<1>9. ASSUME CloseReturns(c) PROVE Typed'
  <2>1. WalksTyped'
    BY <1>9, CallOn DEF CloseReturns, WalksTyped
  <2> QED BY <1>1, <1>2, <1>9, <2>1 DEF CloseReturns, kernelVars, tables, TablesTyped
<1> QED BY <1>w, <1>3, <1>4, <1>6, <1>7, <1>8, <1>9, WalkStepTyped DEF Call

LEMMA RunTypedStep ==
    ASSUME Typed, RunStep
    PROVE  Typed'
<1> USE DEF Typed
<1>1. ASSUME UNCHANGED kernelVars PROVE FilesTyped' /\ FdsTyped' /\ kqOpen' = kqOpen
  BY <1>1 DEF kernelVars, FilesTyped, FdsTyped
<1>2. ASSUME UNCHANGED tables PROVE TablesTyped'
  BY <1>2 DEF tables, TablesTyped
<1>3. ASSUME UNCHANGED <<walkVars, callVars>> PROVE WalksTyped'
  BY <1>3 DEF walkVars, callVars, WalksTyped, Walking
<1>4. CASE Wait
  <2>1. FdsTyped' /\ FilesTyped' /\ kqOpen' = kqOpen
    BY <1>4, TakeKeepsFds DEF Wait, TakeNotes, FilesTyped
  <2>2. RunTyped'
    BY <1>4, <2>1 DEF Wait, RunTyped, scanVars
  <2> QED BY <1>2, <1>3, <1>4, <2>1, <2>2 DEF Wait
<1>5. ASSUME Exit \/ HandleUnknown \/ HandleGone \/ HandleChanged \/ RescanSkips PROVE Typed'
  <2>1. UNCHANGED <<kernelVars, tables, closed, walkVars, callVars>>
    BY <1>5 DEF Exit, HandleUnknown, HandleGone, HandleChanged, RescanSkips
  <2>2. runPc' \in RunLabels \ {"read", "diff", "enroll"} /\ runPc \in RunLabels \ {"diff"}
        /\ UNCHANGED <<held, seen, added, removed, making>>
    BY <1>5 DEF Exit, HandleUnknown, HandleGone, HandleChanged, RescanSkips, RunLabels, At, scanVars, Handles
  <2>3. RunTyped'
    BY <1>1, <2>1, <2>2 DEF RunTyped
  <2> QED BY <1>1, <1>2, <1>3, <2>1, <2>3
<1>6. ASSUME NEW paths, NEW mishap, Unregister(paths, mishap)
      PROVE  FilesTyped' /\ FdsTyped' /\ TablesTyped' /\ kqOpen' = kqOpen
  <2>1. CloseFds({watched[p].fd : p \in paths})
    BY <1>6 DEF Unregister
  <2>2. FilesTyped' /\ kqOpen' = kqOpen
    BY <2>1 DEF CloseFds, FilesTyped
  <2> QED BY <1>6, <2>1, <2>2, CloseKeepsFds, UnregisterKeepsTables
<1>7. CASE RemoveGone
  <2>1. /\ runPc = "gone" /\ runPc' = "rescan"
        /\ UNCHANGED <<closed, held, seen, added, removed, making, callVars, walkVars>>
        /\ \E paths, mishap : Unregister(paths, mishap)
    BY <1>7 DEF RemoveGone, At
  <2>2. kqOpen' = kqOpen /\ FilesTyped' /\ FdsTyped' /\ TablesTyped'
    BY <1>6, <2>1
  <2>3. RunTyped'
    BY <2>1, <2>2 DEF RunTyped, RunLabels
  <2> QED BY <1>3, <2>1, <2>2, <2>3
<1>8. CASE RescanBegins
  <2>1. /\ runPc = "rescan" /\ runPc' = "read" /\ here \in DOMAIN watched /\ UNCHANGED here
        /\ seen' = (IF here \in DOMAIN snapshots THEN snapshots[here] ELSE {})
        /\ held' = watched[here].roots
        /\ UNCHANGED <<kernelVars, tables, closed, added, removed, making, callVars, walkVars>>
    BY <1>8 DEF RescanBegins, At
  <2>2. here \in AllPaths /\ held' \subseteq Tree /\ seen' \subseteq EntryRec
    BY <2>1 DEF TablesTyped, Node
  <2>3. RunTyped'
    BY <1>1, <2>1, <2>2 DEF RunTyped, RunLabels
  <2> QED BY <1>1, <1>2, <1>3, <2>1, <2>3
<1>9. CASE RescanReads
  <2>1. /\ runPc = "read" /\ runPc' = "diff" /\ seen' = SnapshotOf(here)
        /\ UNCHANGED <<kernelVars, tables, closed, here, held, making, callVars, walkVars>>
    BY <1>9 DEF RescanReads, At
  <2>2. SnapshotOf(here) \subseteq EntryRec
    BY SnapshotTyped
  <2>3. PICK old : /\ old \subseteq EntryRec
                   /\ removed' = {e \in old : e.name \notin Names(SnapshotOf(here))}
                   /\ added' = {e \in SnapshotOf(here) : e.name \notin Names(old)}
    BY <1>9 DEF RescanReads, RunTyped
  <2>4. removed' \subseteq EntryRec /\ added' \subseteq EntryRec
    BY <2>2, <2>3
  <2>5. RunTyped'
    BY <1>1, <2>1, <2>2, <2>4 DEF RunTyped, RunLabels
  <2> QED BY <1>1, <1>2, <1>3, <2>1, <2>5
<1>10. CASE RescanRename
  <2>1. /\ UNCHANGED <<kernelVars, closed, runPc, here, held, seen, making, callVars, walkVars>>
        /\ removed' \subseteq removed /\ added' \subseteq added /\ runPc = "diff"
    BY <1>10 DEF RescanRename, At
  <2>2. TablesTyped'
    BY <1>10, RenameIsCarrying, RenameKeepsTables
  <2>3. RunTyped'
    BY <1>1, <2>1 DEF RunTyped
  <2> QED BY <1>1, <1>3, <2>1, <2>2, <2>3
<1>11. CASE RescanRemove
  <2>1. /\ runPc = "diff" /\ removed' \subseteq removed /\ \E paths : Unregister(paths, {})
        /\ UNCHANGED <<closed, runPc, here, held, seen, added, making, callVars, walkVars>>
    BY <1>11 DEF RescanRemove, At
  <2>2. kqOpen' = kqOpen /\ FilesTyped' /\ FdsTyped' /\ TablesTyped'
    BY <1>6, <2>1
  <2>3. RunTyped'
    BY <2>1, <2>2 DEF RunTyped
  <2> QED BY <1>3, <2>1, <2>2, <2>3
<1>12. CASE RescanCreate
  <2>1. PICK e \in added : making' = [entry |-> e, left |-> held]
    BY <1>12 DEF RescanCreate
  <2>2. /\ runPc = "diff" /\ runPc' = "enroll" /\ removed = {}
        /\ UNCHANGED <<kernelVars, tables, closed, here, held, seen, added, removed, callVars, walkVars>>
    BY <1>12 DEF RescanCreate, At
  <2>3. making' \in [entry : EntryRec \cup {NoPath}, left : SUBSET Tree] /\ making'.entry \in EntryRec
    BY <2>1 DEF RunTyped
  <2>4. RunTyped'
    BY <1>1, <2>2, <2>3 DEF RunTyped, RunLabels
  <2> QED BY <1>1, <1>2, <1>3, <2>2, <2>4
<1>13. CASE EnrollFor
  <2>1. PICK rt \in making.left :
          /\ making' = [making EXCEPT !.left = @ \ {rt}]
          /\ LET kind == KindFor(rt, making.entry)
             IN  IF kind = "none" THEN UNCHANGED walkVars
                 ELSE StartWalk(Run, rt, kind, PathIn(making.entry), making.entry.isDir)
    BY <1>13 DEF EnrollFor
  <2>2. /\ runPc = "enroll" /\ ~Walking(Run)
        /\ UNCHANGED <<kernelVars, tables, closed, runPc, here, held, seen, added, removed, callVars>>
    BY <1>13 DEF EnrollFor, At
  <2>3. rt \in Tree /\ making.entry \in EntryRec /\ PathIn(making.entry) \in AllPaths
        /\ making.entry.isDir \in BOOLEAN
    BY <2>2, EntryPath DEF RunTyped, EntryRec
  <2>4. RunTyped'
    <3>1. making' \in [entry : EntryRec \cup {NoPath}, left : SUBSET Tree] /\ making'.entry = making.entry
      BY <2>1 DEF RunTyped
    <3> QED BY <1>1, <2>2, <3>1 DEF RunTyped
  <2>5. WalksTyped'
    <3>1. CASE UNCHANGED walkVars
      BY <1>3, <2>2, <3>1
    <3>2. ASSUME NEW kind, kind = KindFor(rt, making.entry),
                 StartWalk(Run, rt, kind, PathIn(making.entry), making.entry.isDir)
          PROVE  WalksTyped'
      <4>1. kind \in Kinds
        BY <3>2 DEF KindFor, Kinds
      <4>2. Run \in Walkers /\ callPc' = callPc
        BY <2>2 DEF Walkers, callVars
      <4> QED BY <2>2, <2>3, <3>2, <4>1, <4>2, StartKeepsWalks
    <3> QED BY <2>1, <3>1, <3>2
  <2> QED BY <1>1, <1>2, <2>2, <2>4, <2>5
<1>14. CASE Enrolled
  <2>1. /\ runPc = "enroll" /\ runPc' = "diff" /\ added' \subseteq added /\ making' = NoMaking
        /\ UNCHANGED <<kernelVars, tables, closed, here, held, seen, removed, callVars, walkVars>>
    BY <1>14 DEF Enrolled, At
  <2>2. NoMaking \in [entry : EntryRec \cup {NoPath}, left : SUBSET Tree]
    BY DEF NoMaking
  <2>3. RunTyped'
    BY <1>1, <2>1, <2>2 DEF RunTyped, RunLabels
  <2> QED BY <1>1, <1>2, <1>3, <2>1, <2>3
<1>15. CASE RescanEnds
  <2>1. /\ runPc = "diff" /\ runPc' = "next" /\ removed = {} /\ removed' = removed
        /\ snapshots' = Put(snapshots, here, seen) /\ held' = {} /\ seen' = {}
        /\ UNCHANGED <<kernelVars, roots, rootNodes, watched, fdToPath, closed, added, making, callVars, walkVars>>
    BY <1>15 DEF RescanEnds, At
  <2>2. snapshots' \in [DOMAIN snapshots' -> SUBSET EntryRec]
    BY <2>1 DEF Put, RunTyped, TablesTyped
  <2>3. TablesTyped'
    BY <2>1, <2>2 DEF TablesTyped
  <2>4. RunTyped'
    BY <1>1, <2>1 DEF RunTyped, RunLabels
  <2> QED BY <1>1, <1>3, <2>1, <2>3, <2>4
<1>16. CASE WalkStep(Run)
  BY <1>16, WalkStepTyped DEF Walkers
<1> QED BY <1>4, <1>5, <1>7, <1>8, <1>9, <1>10, <1>11, <1>12, <1>13, <1>14, <1>15, <1>16 DEF RunStep

LEMMA TypedStep ==
    ASSUME Typed, [Next]_vars
    PROVE  Typed'
<1>1. CASE Environment
  <2>1. DiskChanges /\ UNCHANGED <<tables, closed, runVars, callVars, walkVars>>
    BY <1>1 DEF Environment
  <2>2. FilesTyped' /\ FdsTyped' /\ kqOpen' = kqOpen
    BY <2>1, DiskKeepsFiles, DiskKeepsFds DEF Typed
  <2>3. TablesTyped'
    BY <2>1 DEF Typed, tables, TablesTyped
  <2>4. RunTyped'
    BY <2>1, <2>2 DEF Typed, runVars, scanVars, RunTyped
  <2>5. WalksTyped'
    BY <2>1 DEF Typed, callVars, walkVars, WalksTyped, Walking
  <2> QED BY <2>2, <2>3, <2>4, <2>5 DEF Typed
<1>2. CASE UNCHANGED vars
  <2>1. FilesTyped' /\ FdsTyped'
    BY <1>2 DEF Typed, vars, kernelVars, FilesTyped, FdsTyped
  <2>2. TablesTyped' /\ RunTyped' /\ WalksTyped'
    BY <1>2 DEF Typed, vars, kernelVars, tables, runVars, scanVars, callVars, walkVars, TablesTyped, RunTyped,
                WalksTyped, Walking
  <2> QED BY <2>1, <2>2 DEF Typed
<1> QED BY <1>1, <1>2, CallTyped, RunTypedStep DEF Next

(* Types, at every step of any run of the backend. *)
THEOREM TypesInvariant == Spec => []Typed
BY TypedInit, TypedStep, PTL DEF Spec

(* The type invariant the runs check: the two root tables have the same
   paths, the kernel's queue names open descriptors that have notes, and the
   backend is closed exactly when its kqueue is. *)
THEOREM TypeInvariant == Spec => []TypeOK
<1>1. ASSUME Typed PROVE TypeOK
  <2>1. \A p \in AllPaths : IsPath(p)
    <3>1. ASSUME NEW p \in AllPaths PROVE IsPath(p)
      <4>1. p \in Seq(Components)
        BY DEF AllPaths, Path
      <4>2. p \in Seq({p[i] : i \in DOMAIN p})
        BY <4>1
      <4> QED BY <4>2 DEF IsPath
    <3> QED BY <3>1
  <2>2. \A w \in Walkers : adding[w].step \in {"none", "arm", "enter"}
    BY <1>1 DEF Typed, WalksTyped, AddRec
  <2>3. \A i \in DOMAIN queue : queue[i] \in DOMAIN fds /\ fds[queue[i]].notes # {}
    BY <1>1 DEF Typed, FdsTyped
  <2>4. \A c \in Callers : callPc[c] \in {"idle", "enroll", "cleanup", "close"}
    BY <1>1 DEF Typed, WalksTyped
  <2> QED BY <1>1, <2>1, <2>2, <2>3, <2>4 DEF Typed, TypeOK, FilesTyped, TablesTyped, RunTyped
<1> QED BY <1>1, TypesInvariant, PTL

----------------------------------------------------------------------------
(* NodesAreReleasable. *)
LEMMA RenameKeepsReleasable ==
    ASSUME TablesTyped, NodesAreReleasable, NEW go, RenamesTables(go)
    PROVE  NodesAreReleasable'
<1>1. DOMAIN watched' = (DOMAIN watched \ DOMAIN go) \cup Landed(watched, go)
      /\ DOMAIN rootNodes' = DOMAIN rootNodes
  BY DEF RenamesTables, Carries
<1>2. ASSUME NEW p \in DOMAIN go
      PROVE  watched'[go[p]] = watched[p] /\ watched[p].roots # {}
             /\ \A rt \in watched[p].roots : rt \in DOMAIN rootNodes' /\ go[p] \in rootNodes'[rt]
  <2>1. p \in DOMAIN watched /\ watched'[go[p]] = watched[p]
    BY DEF RenamesTables, Carries
  <2> QED BY <2>1 DEF RenamesTables, NodesAreReleasable
<1>3. ASSUME NEW q \in DOMAIN watched \ DOMAIN go, q \notin Landed(watched, go)
      PROVE  watched'[q] = watched[q] /\ watched[q].roots # {}
             /\ \A rt \in watched[q].roots : rt \in DOMAIN rootNodes' /\ q \in rootNodes'[rt]
  <2>1. watched'[q] = watched[q]
    BY <1>3 DEF RenamesTables, Carries
  <2> QED BY <2>1 DEF RenamesTables, NodesAreReleasable
<1>4. \A q \in DOMAIN watched' : \/ \E p \in DOMAIN go : q = go[p]
                                 \/ q \in DOMAIN watched \ DOMAIN go /\ q \notin Landed(watched, go)
  BY <1>1 DEF Landed
<1> HIDE DEF RenamesTables
<1> QED BY <1>2, <1>3, <1>4 DEF NodesAreReleasable

LEMMA UnregisterKeepsReleasable ==
    ASSUME NodesAreReleasable, NEW paths, NEW mishap, Unregister(paths, mishap)
    PROVE  NodesAreReleasable'
<1>1. /\ watched' = Without(watched, paths)
      /\ rootNodes' = [rt \in DOMAIN rootNodes |->
                          rootNodes[rt] \ {p \in paths : rt \in watched[p].roots}]
  BY DEF Unregister
<1> QED BY <1>1 DEF NodesAreReleasable, Without, Restrict

LEMMA ForgetKeepsReleasable ==
    ASSUME NodesAreReleasable, NEW path, ForgetRoot(path)
    PROVE  NodesAreReleasable'
<1> DEFINE mine == rootNodes[path] \cap DOMAIN watched
           dead == {p \in mine : watched[p].roots \subseteq {path}}
<1>1. /\ watched' = [p \in DOMAIN watched \ dead |->
                       IF p \in mine THEN [watched[p] EXCEPT !.roots = @ \ {path}] ELSE watched[p]]
      /\ rootNodes' = Without(rootNodes, {path})
  BY DEF ForgetRoot
<1>2. ASSUME NEW p \in DOMAIN watched'
      PROVE  /\ p \in DOMAIN watched /\ watched'[p].roots # {}
             /\ watched'[p].roots \subseteq watched[p].roots \ {path}
  <2>1. p \in DOMAIN watched \ dead
    BY <1>1
  <2>2. CASE p \in mine
    <3>1. watched'[p] = [watched[p] EXCEPT !.roots = @ \ {path}]
      BY <1>1, <2>1, <2>2
    <3>2. ~(watched[p].roots \subseteq {path})
      BY <2>1, <2>2
    <3>3. watched'[p].roots = watched[p].roots \ {path} \/ watched'[p].roots = watched[p].roots
      BY <3>1
    <3> QED BY <2>1, <3>1, <3>2, <3>3
  <2>3. CASE p \notin mine
    <3>1. watched'[p] = watched[p] /\ p \in DOMAIN watched /\ p \notin rootNodes[path]
      BY <1>1, <2>1, <2>3
    <3> QED BY <3>1 DEF NodesAreReleasable
  <2> QED BY <2>2, <2>3
<1>3. \A rt \in DOMAIN rootNodes \ {path} : rt \in DOMAIN rootNodes' /\ rootNodes'[rt] = rootNodes[rt]
  BY <1>1 DEF Without, Restrict
<1> HIDE DEF mine, dead
<1> QED BY <1>2, <1>3 DEF NodesAreReleasable

LEMMA JoinKeepsReleasable ==
    ASSUME TablesTyped, NodesAreReleasable, NEW w \in Walkers, walk[w].root \in DOMAIN rootNodes,
           NEW path \in DOMAIN watched, Join(w, path)
    PROVE  NodesAreReleasable'
<1>1. /\ watched' = [watched EXCEPT ![path].roots = @ \cup {walk[w].root}]
      /\ rootNodes' = [rootNodes EXCEPT ![walk[w].root] = @ \cup {path}]
  BY DEF Join
<1>2. DOMAIN watched' = DOMAIN watched /\ DOMAIN rootNodes' = DOMAIN rootNodes
      /\ \A rt \in DOMAIN rootNodes : rootNodes[rt] \subseteq rootNodes'[rt]
      /\ path \in rootNodes'[walk[w].root]
  BY <1>1
<1>3. watched[path] \in Node
  BY DEF TablesTyped
<1>4. watched'[path].roots = watched[path].roots \cup {walk[w].root}
  BY <1>1, <1>3 DEF Node
<1>5. \A p \in DOMAIN watched \ {path} : watched'[p] = watched[p]
  BY <1>1
<1> QED BY <1>2, <1>4, <1>5 DEF NodesAreReleasable

LEMMA EnterKeepsReleasable ==
    ASSUME NodesAreReleasable, NEW w \in Walkers, EnterNew(w)
    PROVE  NodesAreReleasable'
<1>1. PICK node : node = [fd |-> adding[w].fd, isDir |-> adding[w].isDir, roots |-> {walk[w].root}]
  OBVIOUS
<1>2. /\ walk[w].root \in DOMAIN rootNodes
      /\ watched' = Put(watched, adding[w].path, node)
      /\ rootNodes' = [rootNodes EXCEPT ![walk[w].root] = @ \cup {adding[w].path}]
  BY <1>1 DEF EnterNew, Registered
<1>3. DOMAIN rootNodes' = DOMAIN rootNodes
      /\ \A rt \in DOMAIN rootNodes : rootNodes[rt] \subseteq rootNodes'[rt]
      /\ adding[w].path \in rootNodes'[walk[w].root]
  BY <1>2
<1>4. watched'[adding[w].path] = node /\ node.roots = {walk[w].root}
  BY <1>1, <1>2 DEF Put
<1>5. \A p \in DOMAIN watched' \ {adding[w].path} : p \in DOMAIN watched /\ watched'[p] = watched[p]
  BY <1>2 DEF Put
<1> QED BY <1>2, <1>3, <1>4, <1>5 DEF NodesAreReleasable

LEMMA ReleasableStep ==
    ASSUME Typed, NodesAreReleasable, [Next]_vars
    PROVE  NodesAreReleasable'
<1> USE DEF Typed
<1>1. ASSUME UNCHANGED <<watched, rootNodes>> PROVE NodesAreReleasable'
  BY <1>1 DEF NodesAreReleasable
<1>2. ASSUME NEW w \in Walkers, WalkStep(w) PROVE NodesAreReleasable'
  <2>1. CASE AddShared(w)
    BY <2>1, JoinKeepsReleasable DEF AddShared, Wanted, Registered
  <2>2. CASE EnterShared(w)
    BY <2>2, JoinKeepsReleasable DEF EnterShared, Registered
  <2>3. CASE EnterNew(w)
    BY <2>3, EnterKeepsReleasable
  <2>4. CASE UNCHANGED <<watched, rootNodes>>
    BY <1>1, <2>4
  <2> QED BY <1>2, <2>1, <2>2, <2>3, <2>4 DEF WalkStep, Lstat, WalkExcluded, ReadDir, AddNothing,
             AddOpens, AddArm, AddFails, EnterOrphan, tables
<1>3. ASSUME NEW c \in Callers, Call(c) PROVE NodesAreReleasable'
  <2>1. CASE AddRegister(c)
    <3>1. PICK p : p \notin DOMAIN roots /\ rootNodes' = Put(rootNodes, p, {}) /\ UNCHANGED watched
      BY <2>1 DEF AddRegister
    <3>2. \A rt \in DOMAIN rootNodes : rt \in DOMAIN rootNodes' /\ rootNodes'[rt] = rootNodes[rt]
      BY <3>1, RootsInTree DEF Put
    <3> QED BY <3>1, <3>2 DEF NodesAreReleasable
  <2>2. CASE AddCleanup(c)
    BY <1>1, <2>2, ForgetKeepsReleasable DEF AddCleanup, tables
  <2>3. CASE RemoveRoot(c)
    BY <2>3, ForgetKeepsReleasable DEF RemoveRoot
  <2>4. CASE CloseBegins(c)
    <3>1. watched' = <<>>
      BY <2>4 DEF CloseBegins
    <3>2. DOMAIN watched' = {}
      BY <3>1
    <3> QED BY <3>2 DEF NodesAreReleasable
  <2>5. CASE AddReturns(c) \/ CloseReturns(c)
    BY <1>1, <2>5 DEF AddReturns, CloseReturns, tables
  <2> QED BY <1>2, <1>3, <2>1, <2>2, <2>3, <2>4, <2>5 DEF Call, Walkers
<1>4. ASSUME RunStep PROVE NodesAreReleasable'
  <2>1. CASE RescanRename
    BY <2>1, RenameIsCarrying, RenameKeepsReleasable
  <2>2. CASE RemoveGone
    BY <2>2, UnregisterKeepsReleasable DEF RemoveGone
  <2>3. CASE RescanRemove
    <3>1. \E paths : Unregister(paths, {})
      BY <2>3 DEF RescanRemove
    <3> QED BY <3>1, UnregisterKeepsReleasable
  <2>4. CASE WalkStep(Run)
    BY <1>2, <2>4 DEF Walkers
  <2>5. CASE UNCHANGED <<watched, rootNodes>>
    BY <1>1, <2>5
  <2> QED BY <1>4, <2>1, <2>2, <2>3, <2>4, <2>5 DEF RunStep, Wait, Exit, HandleUnknown, HandleGone,
             HandleChanged, RescanSkips, RescanBegins, RescanReads, RescanCreate, EnrollFor, Enrolled,
             RescanEnds, tables
<1>5. CASE Environment
  BY <1>1, <1>5 DEF Environment, tables
<1>6. CASE UNCHANGED vars
  BY <1>1, <1>6 DEF vars, tables
<1> QED BY <1>3, <1>4, <1>5, <1>6 DEF Next

(* A path is watched for registered roots only and for at least one, and
   each of them lists it, whatever Add, Remove, run() and the disk do: so
   Remove of the roots releases every node, and renamePrefix never writes
   the list of a root that is gone. *)
THEOREM NodesStayReleasable == Spec => []NodesAreReleasable
<1>1. Init => NodesAreReleasable
  BY DEF Init, NodesAreReleasable
<1> QED BY <1>1, TypesInvariant, ReleasableStep, PTL DEF Spec

----------------------------------------------------------------------------
(* Descriptors: what any step does to them, to the nodes and the walks. *)
SameFlights ==
    \A w \in Walkers : /\ adding'[w].step # "none" <=> adding[w].step # "none"
                       /\ adding[w].step # "none" => adding'[w].fd = adding[w].fd

(* Some nodes go, and their descriptors are closed; there may be none. *)
Strips(dead) ==
    /\ dead \subseteq DOMAIN watched /\ DOMAIN watched' = DOMAIN watched \ dead
    /\ \A p \in DOMAIN watched' : /\ watched'[p].fd = watched[p].fd
                                  /\ watched'[p].isDir = watched[p].isDir
    /\ fdToPath' = Without(fdToPath, {watched[p].fd : p \in dead})
    /\ snapshots' = Without(snapshots, dead)
    /\ Torn(dead) \subseteq mishaps'

Frees(dead) ==
    /\ Strips(dead)
    /\ DOMAIN fds' = DOMAIN fds \ {watched[p].fd : p \in dead}
    /\ SameFlights

(* addPath opens, gives back, or enters a descriptor. *)
Opens(w) ==
    /\ UNCHANGED <<watched, fdToPath, snapshots>>
    /\ adding[w].step = "none" /\ adding'[w].step # "none"
    /\ adding'[w].fd \notin DOMAIN fds /\ DOMAIN fds' = DOMAIN fds \cup {adding'[w].fd}
    /\ \A v \in Walkers \ {w} : adding'[v] = adding[v]

Drops(w) ==
    /\ DOMAIN watched' = DOMAIN watched
    /\ \A p \in DOMAIN watched' : /\ watched'[p].fd = watched[p].fd
                                  /\ watched'[p].isDir = watched[p].isDir
    /\ UNCHANGED <<fdToPath, snapshots>>
    /\ adding[w].step # "none" /\ adding'[w].step = "none"
    /\ DOMAIN fds' = DOMAIN fds \ {adding[w].fd}
    /\ \A v \in Walkers \ {w} : adding'[v] = adding[v]

Enters(w) ==
    /\ adding[w].step = "enter" /\ adding'[w].step = "none" /\ ~closed
    /\ \A v \in Walkers \ {w} : adding'[v] = adding[v]
    /\ adding[w].path \notin DOMAIN watched
    /\ \E node : /\ node.fd = adding[w].fd /\ watched' = Put(watched, adding[w].path, node)
                 /\ snapshots' = IF node.isDir
                                 THEN Put(snapshots, adding[w].path, SnapshotOf(adding[w].path))
                                 ELSE snapshots
    /\ fdToPath' = Put(fdToPath, adding[w].fd, adding[w].path)
    /\ UNCHANGED <<fs, fds>>

Renames(go) ==
    /\ RenamesTables(go) /\ adding' = adding
    /\ runPc = "diff" /\ \E pr \in Pairs : go = Goes(pr)

Closes ==
    /\ closed' /\ DOMAIN watched' = {} /\ DOMAIN snapshots' = {} /\ adding' = adding
    /\ DOMAIN fds' = DOMAIN fds \ {watched[p].fd : p \in DOMAIN watched}

(* rescanDir puts its snapshot back. *)
Ends ==
    /\ runPc = "diff" /\ snapshots' = Put(snapshots, here, seen)
    /\ UNCHANGED <<watched, fdToPath, adding>> /\ DOMAIN fds' = DOMAIN fds

NodesChange ==
    \/ \E dead : Frees(dead)
    \/ \E w \in Walkers : Opens(w) \/ Drops(w) \/ Enters(w)
    \/ \E go : Renames(go)
    \/ Closes
    \/ Ends

(* And where rescanDir is. *)
HereMoves ==
    Rescanning' => \/ Rescanning /\ here' = here
                   \/ here' \in DOMAIN watched' /\ watched'[here'].isDir

StepEffect ==
    /\ NodesChange /\ HereMoves
    /\ mishaps \subseteq mishaps' /\ (closed' = closed \/ Closes)

LEMMA NothingStripped ==
    ASSUME TablesTyped, DOMAIN watched' = DOMAIN watched,
           \A p \in DOMAIN watched : watched'[p].fd = watched[p].fd /\ watched'[p].isDir = watched[p].isDir,
           UNCHANGED <<fdToPath, snapshots>>
    PROVE  Strips({})
<1>1. {watched[p].fd : p \in {}} = {} /\ Torn({}) = {}
  BY DEF Torn
<1>2. fdToPath = [fd \in DOMAIN fdToPath |-> fdToPath[fd]]
      /\ snapshots = [d \in DOMAIN snapshots |-> snapshots[d]]
  BY DEF TablesTyped
<1>3. fdToPath' = Without(fdToPath, {})
  BY <1>2 DEF Without, Restrict
<1>4. snapshots' = Without(snapshots, {})
  BY <1>2 DEF Without, Restrict
<1> QED BY <1>1, <1>3, <1>4 DEF Strips

LEMMA NothingFreed ==
    ASSUME TablesTyped, DOMAIN watched' = DOMAIN watched,
           \A p \in DOMAIN watched : watched'[p].fd = watched[p].fd /\ watched'[p].isDir = watched[p].isDir,
           UNCHANGED <<fdToPath, snapshots>>, DOMAIN fds' = DOMAIN fds, SameFlights
    PROVE  Frees({})
<1>1. {watched[p].fd : p \in {}} = {}
  OBVIOUS
<1> QED BY <1>1, NothingStripped DEF Frees

LEMMA UnregisterFrees ==
    ASSUME Typed, NEW paths, paths \subseteq DOMAIN watched, NEW mishap,
           Unregister(paths, mishap), UNCHANGED adding
    PROVE  Frees(paths) /\ mishaps \subseteq mishaps'
<1>1. /\ watched' = Without(watched, paths)
      /\ fdToPath' = Without(fdToPath, {watched[p].fd : p \in paths})
      /\ snapshots' = Without(snapshots, paths)
      /\ CloseFds({watched[p].fd : p \in paths})
      /\ mishaps' = mishaps \cup Torn(paths) \cup mishap
  BY DEF Unregister, Befalls
<1>2. DOMAIN fds' = DOMAIN fds \ {watched[p].fd : p \in paths}
  BY <1>1, CloseKeepsFds DEF Typed
<1>3. DOMAIN watched' = DOMAIN watched \ paths /\ \A p \in DOMAIN watched' : watched'[p] = watched[p]
  BY <1>1 DEF Without, Restrict
<1>4. SameFlights
  BY DEF SameFlights
<1> QED BY <1>1, <1>2, <1>3, <1>4 DEF Frees, Strips

LEMMA ForgetFrees ==
    ASSUME Typed, NEW path, ForgetRoot(path), UNCHANGED adding
    PROVE  (\E dead : Frees(dead)) /\ mishaps \subseteq mishaps'
<1> DEFINE mine == rootNodes[path] \cap DOMAIN watched
           dead == {p \in mine : watched[p].roots \subseteq {path}}
<1>1. /\ watched' = [p \in DOMAIN watched \ dead |->
                       IF p \in mine THEN [watched[p] EXCEPT !.roots = @ \ {path}] ELSE watched[p]]
      /\ fdToPath' = Without(fdToPath, {watched[p].fd : p \in dead})
      /\ snapshots' = Without(snapshots, dead)
      /\ CloseFds({watched[p].fd : p \in dead})
      /\ mishaps' = mishaps \cup Torn(dead) \cup {"withdrawn"}
  BY DEF ForgetRoot, Befalls
<1>2. dead \subseteq DOMAIN watched
  OBVIOUS
<1> HIDE DEF mine, dead
<1>3. DOMAIN fds' = DOMAIN fds \ {watched[p].fd : p \in dead}
  BY <1>1, CloseKeepsFds DEF Typed
<1>4. \A p \in DOMAIN watched : [watched[p] EXCEPT !.roots = @ \ {path}].fd = watched[p].fd
                               /\ [watched[p] EXCEPT !.roots = @ \ {path}].isDir = watched[p].isDir
  BY DEF Typed, TablesTyped, Node
<1>5. DOMAIN watched' = DOMAIN watched \ dead
      /\ \A p \in DOMAIN watched' : watched'[p].fd = watched[p].fd /\ watched'[p].isDir = watched[p].isDir
  BY <1>1, <1>4
<1>6. SameFlights
  BY DEF SameFlights
<1> QED BY <1>1, <1>2, <1>3, <1>5, <1>6 DEF Frees, Strips

LEMMA JoinKeepsNodes ==
    ASSUME TablesTyped, NEW w, NEW path, Join(w, path)
    PROVE  /\ DOMAIN watched' = DOMAIN watched
           /\ \A p \in DOMAIN watched : watched'[p].fd = watched[p].fd /\ watched'[p].isDir = watched[p].isDir
           /\ UNCHANGED <<fdToPath, snapshots>> /\ mishaps \subseteq mishaps'
<1>1. /\ watched' = [watched EXCEPT ![path].roots = @ \cup {walk[w].root}]
      /\ UNCHANGED <<fdToPath, snapshots>> /\ mishaps \subseteq mishaps'
  BY DEF Join, Befalls
<1> QED BY <1>1 DEF TablesTyped, Node

LEMMA SpareVisit ==
    ASSUME WalksTyped, NEW w \in Walkers, adding[w].step = "none", adding' = [adding EXCEPT ![w] = NoAdd]
    PROVE  SameFlights
BY DEF WalksTyped, SameFlights, NoAdd

LEMMA WalkStepChanges ==
    ASSUME Typed, NEW w \in Walkers, WalkStep(w)
    PROVE  StepEffect
<1> USE DEF Typed
<1>1. HereMoves /\ closed' = closed
  BY WalkStepTyped DEF HereMoves, Rescanning, runVars, scanVars
<1>2. mishaps \subseteq mishaps'
  <2>1. CASE UNCHANGED mishaps
    BY <2>1
  <2>2. CASE Abort(w)
    BY <2>2 DEF Abort, Befalls
  <2>3. ASSUME NEW path, Join(w, path) PROVE mishaps \subseteq mishaps'
    BY <2>3, JoinKeepsNodes
  <2> QED BY <2>1, <2>2, <2>3 DEF WalkStep, Lstat, WalkExcluded, ReadDir, AddNothing, AddShared, AddOpens,
             AddArm, AddFails, EnterOrphan, EnterShared, EnterNew, history
<1>3. adding \in [Walkers -> AddRec] /\ NoAdd.step = "none"
  BY DEF WalksTyped, NoAdd
<1>4. ASSUME adding' = [adding EXCEPT ![w] = NoAdd]
      PROVE  adding'[w].step = "none" /\ \A v \in Walkers \ {w} : adding'[v] = adding[v]
  BY <1>3, <1>4
<1>5. ASSUME UNCHANGED <<watched, fdToPath, snapshots>>, DOMAIN fds' = DOMAIN fds, SameFlights
      PROVE  Frees({})
  BY <1>5, NothingFreed
<1>6. ASSUME Abort(w) \/ (\E e : Visited(w, e)) PROVE adding' = [adding EXCEPT ![w] = NoAdd]
  BY <1>6 DEF Abort, Visited
<1>7. CASE Lstat(w) \/ WalkExcluded(w) \/ ReadDir(w)
  <2>1. UNCHANGED <<kernelVars, tables>>
    BY <1>7 DEF Lstat, WalkExcluded, ReadDir
  <2>2. adding' = adding \/ (Abort(w) /\ adding[w].step = "none")
    BY <1>7 DEF Lstat, WalkExcluded, ReadDir, WalksTyped, OneThing
  <2>3. SameFlights
    BY <1>6, <2>2, SpareVisit DEF SameFlights
  <2>4. Frees({})
    BY <1>5, <2>1, <2>3 DEF kernelVars, tables
  <2> QED BY <1>1, <1>2, <2>4 DEF StepEffect, NodesChange
<1>8. CASE AddNothing(w)
  <2>1. UNCHANGED <<kernelVars, tables>> /\ adding[w].step = "none" /\ adding' = [adding EXCEPT ![w] = NoAdd]
    BY <1>6, <1>8 DEF AddNothing, Considers, Visits
  <2>2. Frees({})
    BY <1>5, <2>1, SpareVisit DEF kernelVars, tables
  <2> QED BY <1>1, <1>2, <2>2 DEF StepEffect, NodesChange
<1>9. CASE AddShared(w)
  <2>1. PICK e : Join(w, e.path) /\ adding[w].step = "none" /\ UNCHANGED kernelVars
                 /\ adding' = [adding EXCEPT ![w] = NoAdd]
    BY <1>6, <1>9 DEF AddShared, Considers, Visits
  <2>2. Frees({})
    BY <2>1, SpareVisit, JoinKeepsNodes, NothingFreed DEF kernelVars
  <2> QED BY <1>1, <1>2, <2>2 DEF StepEffect, NodesChange
<1>10. CASE AddOpens(w)
  <2>0. PICK e : /\ Visits(w, e) /\ Exists(e.path) /\ Open(e.path) /\ UNCHANGED tables
                 /\ adding' = [adding EXCEPT ![w] = [step |-> "arm", path |-> e.path,
                                                     isDir |-> e.isDir, fd |-> LowestFree]]
    BY <1>10 DEF AddOpens, Considers
  <2>r. PICK rec : rec = [step |-> "arm", path |-> e.path, isDir |-> e.isDir, fd |-> LowestFree]
    OBVIOUS
  <2>1. /\ Visits(w, e) /\ Exists(e.path) /\ Open(e.path) /\ UNCHANGED tables
        /\ adding' = [adding EXCEPT ![w] = rec] /\ rec.step = "arm" /\ rec.fd = LowestFree
    BY <2>0, <2>r
  <2>2. adding'[w] = rec /\ \A v \in Walkers \ {w} : adding'[v] = adding[v]
    BY <1>3, <2>1
  <2>3. DOMAIN fds' = DOMAIN fds \cup {LowestFree} /\ LowestFree \notin DOMAIN fds
    BY <2>1, OpenKeepsFds, LowestFreeIsFree
  <2>4. Opens(w)
    BY <2>1, <2>2, <2>3 DEF Opens, Visits, tables
  <2> QED BY <1>1, <1>2, <2>4 DEF StepEffect, NodesChange
<1>11. CASE AddArm(w)
  <2>1. adding' = [adding EXCEPT ![w].step = "enter"] /\ adding[w].step = "arm" /\ UNCHANGED tables
        /\ DOMAIN fds' = DOMAIN fds
    BY <1>11, ArmKeepsFds DEF AddArm
  <2>2. SameFlights
    BY <1>3, <2>1 DEF SameFlights, AddRec
  <2>3. Frees({})
    BY <1>5, <2>1, <2>2 DEF tables
  <2> QED BY <1>1, <1>2, <2>3 DEF StepEffect, NodesChange
<1>12. ASSUME adding[w].step # "none", adding' = [adding EXCEPT ![w] = NoAdd], CloseFds({adding[w].fd}),
              DOMAIN watched' = DOMAIN watched, UNCHANGED <<fdToPath, snapshots>>,
              \A p \in DOMAIN watched : watched'[p].fd = watched[p].fd /\ watched'[p].isDir = watched[p].isDir
       PROVE  Drops(w)
  <2>1. DOMAIN fds' = DOMAIN fds \ {adding[w].fd}
    BY <1>12, CloseKeepsFds
  <2> QED BY <1>4, <1>12, <2>1 DEF Drops
<1>13. CASE AddFails(w)
  <2>1. Abort(w) /\ UNCHANGED tables /\ adding' = [adding EXCEPT ![w] = NoAdd]
    BY <1>6, <1>13 DEF AddFails
  <2>2. CASE adding[w].step = "none"
    <3>1. UNCHANGED kernelVars
      BY <1>13, <2>2 DEF AddFails
    <3>2. Frees({})
      BY <1>5, <2>1, <2>2, <3>1, SpareVisit DEF kernelVars, tables
    <3> QED BY <1>1, <1>2, <3>2 DEF StepEffect, NodesChange
  <2>3. CASE adding[w].step # "none"
    <3>1. CloseFds({adding[w].fd})
      BY <1>13, <2>3 DEF AddFails, Considers, Visits
    <3>2. Drops(w)
      BY <1>12, <2>1, <2>3, <3>1 DEF tables
    <3> QED BY <1>1, <1>2, <3>2 DEF StepEffect, NodesChange
  <2> QED BY <2>2, <2>3
<1>14. CASE EnterOrphan(w) \/ EnterShared(w)
  <2>1. adding[w].step # "none" /\ CloseFds({adding[w].fd}) /\ adding' = [adding EXCEPT ![w] = NoAdd]
    BY <1>6, <1>14 DEF EnterOrphan, EnterShared, Entering, Entered
  <2>2. UNCHANGED tables \/ Join(w, adding[w].path)
    BY <1>14 DEF EnterOrphan, EnterShared
  <2>3. DOMAIN watched' = DOMAIN watched /\ UNCHANGED <<fdToPath, snapshots>>
        /\ \A p \in DOMAIN watched : watched'[p].fd = watched[p].fd /\ watched'[p].isDir = watched[p].isDir
    BY <2>2, JoinKeepsNodes DEF tables
  <2>4. Drops(w)
    BY <1>12, <2>1, <2>3
  <2> QED BY <1>1, <1>2, <2>4 DEF StepEffect, NodesChange
<1>15. CASE EnterNew(w)
  <2>1. PICK node : node = [fd |-> adding[w].fd, isDir |-> adding[w].isDir, roots |-> {walk[w].root}]
    OBVIOUS
  <2>2. /\ adding[w].step = "enter" /\ ~closed /\ adding[w].path \notin DOMAIN watched
        /\ watched' = Put(watched, adding[w].path, node)
        /\ fdToPath' = Put(fdToPath, adding[w].fd, adding[w].path)
        /\ snapshots' = IF adding[w].isDir THEN Put(snapshots, adding[w].path, SnapshotOf(adding[w].path))
                                           ELSE snapshots
        /\ adding' = [adding EXCEPT ![w] = NoAdd] /\ UNCHANGED kernelVars
    BY <1>15, <1>6, <2>1 DEF EnterNew, Entering, Entered
  <2>3. node.fd = adding[w].fd /\ node.isDir = adding[w].isDir
    BY <2>1
  <2>4. Enters(w)
    BY <1>4, <2>2, <2>3 DEF Enters, kernelVars
  <2> QED BY <1>1, <1>2, <2>4 DEF StepEffect, NodesChange
<1> QED BY <1>7, <1>8, <1>9, <1>10, <1>11, <1>13, <1>14, <1>15 DEF WalkStep

LEMMA CallChanges ==
    ASSUME Typed, NEW c \in Callers, Call(c)
    PROVE  StepEffect
<1> USE DEF Typed
<1>1. ASSUME UNCHANGED runVars PROVE HereMoves
  BY <1>1 DEF HereMoves, Rescanning, runVars, scanVars
<1>2. ASSUME UNCHANGED <<watched, fdToPath, snapshots, adding, fds>> PROVE Frees({})
  BY <1>2, NothingFreed DEF SameFlights
<1>3. CASE AddRegister(c)
  <2>1. UNCHANGED <<kernelVars, watched, fdToPath, snapshots, closed, runVars, history, adding>>
    BY <1>3 DEF AddRegister, StartWalk
  <2> QED BY <1>1, <1>2, <2>1 DEF StepEffect, NodesChange, kernelVars, history
<1>4. CASE AddReturns(c) \/ CloseReturns(c)
  <2>1. UNCHANGED <<kernelVars, tables, closed, runVars, history, adding>>
    BY <1>4 DEF AddReturns, CloseReturns, walkVars
  <2> QED BY <1>1, <1>2, <2>1 DEF StepEffect, NodesChange, kernelVars, tables, history
<1>5. ASSUME NEW path, ForgetRoot(path), UNCHANGED <<closed, runVars, walkVars>> PROVE StepEffect
  BY <1>1, <1>5, ForgetFrees DEF StepEffect, NodesChange, walkVars
<1>6. CASE AddCleanup(c)
  <2>1. CASE ForgetRoot(target[c])
    BY <1>5, <1>6, <2>1 DEF AddCleanup
  <2>2. CASE ~ForgetRoot(target[c])
    <3>1. UNCHANGED <<kernelVars, tables, mishaps, closed, runVars, adding>>
      BY <1>6, <2>2 DEF AddCleanup, walkVars
    <3> QED BY <1>1, <1>2, <3>1 DEF StepEffect, NodesChange, kernelVars, tables
  <2> QED BY <2>1, <2>2
<1>7. CASE RemoveRoot(c)
  BY <1>5, <1>7 DEF RemoveRoot
<1>8. CASE CloseBegins(c)
  <2>1. /\ closed' = TRUE /\ watched' = <<>> /\ snapshots' = <<>>
        /\ UNCHANGED <<runVars, walkVars, history>>
        /\ fds' = [fd \in DOMAIN fds \ {watched[p].fd : p \in DOMAIN watched} |->
                     [fds[fd] EXCEPT !.armed = FALSE, !.notes = {}]]
    BY <1>8 DEF CloseBegins
  <2>2. DOMAIN fds' = DOMAIN fds \ {watched[p].fd : p \in DOMAIN watched}
    BY <2>1
  <2>3. DOMAIN watched' = {} /\ DOMAIN snapshots' = {}
    <3>1. watched' = <<>> /\ snapshots' = <<>>
      BY <2>1
    <3> QED BY <3>1
  <2> QED BY <1>1, <2>1, <2>2, <2>3 DEF StepEffect, NodesChange, Closes, walkVars, history
<1> QED BY <1>3, <1>4, <1>6, <1>7, <1>8, WalkStepChanges DEF Call, Walkers

LEMMA RunChanges ==
    ASSUME Typed, RunStep
    PROVE  StepEffect
<1> USE DEF Typed
<1>1. ASSUME UNCHANGED <<watched, fdToPath, snapshots, adding>>, DOMAIN fds' = DOMAIN fds PROVE Frees({})
  BY <1>1, NothingFreed DEF SameFlights
<1>2. CASE Wait
  <2>1. UNCHANGED <<tables, closed, runPc, here, adding, mishaps>> /\ DOMAIN fds' = DOMAIN fds
    BY <1>2, TakeKeepsFds DEF Wait, scanVars, walkVars, history
  <2> QED BY <1>1, <2>1 DEF StepEffect, NodesChange, HereMoves, Rescanning, tables
<1>3. ASSUME Exit \/ HandleUnknown \/ HandleGone \/ HandleChanged \/ RescanSkips PROVE StepEffect
  <2>1. UNCHANGED <<kernelVars, tables, closed, walkVars>> /\ mishaps \subseteq mishaps'
    BY <1>3 DEF Exit, HandleUnknown, HandleGone, HandleChanged, RescanSkips, Befalls, history
  <2>2. runPc' \notin {"read", "diff", "enroll"}
    BY <1>3 DEF Exit, HandleUnknown, HandleGone, HandleChanged, RescanSkips, At, Handles
  <2> QED BY <1>1, <2>1, <2>2 DEF StepEffect, NodesChange, HereMoves, Rescanning, kernelVars, tables, walkVars
<1>4. CASE RemoveGone
  <2>1. /\ runPc' = "rescan" /\ UNCHANGED <<closed, adding>>
        /\ \E paths, mishap : paths \subseteq DOMAIN watched /\ Unregister(paths, mishap)
    BY <1>4 DEF RemoveGone, AtOrBelow, walkVars
  <2> QED BY <2>1, UnregisterFrees DEF StepEffect, NodesChange, HereMoves, Rescanning
<1>5. CASE RescanBegins
  <2>1. /\ here \in DOMAIN watched /\ watched[here].isDir /\ here' = here
        /\ UNCHANGED <<kernelVars, tables, closed, walkVars, history>>
    BY <1>5 DEF RescanBegins
  <2> QED BY <1>1, <2>1 DEF StepEffect, NodesChange, HereMoves, kernelVars, tables, walkVars, history
<1>6. CASE RescanReads \/ RescanCreate \/ Enrolled \/ EnrollFor
  <2>1. UNCHANGED <<kernelVars, tables, closed, here, adding, mishaps>> /\ Rescanning
    BY <1>6 DEF RescanReads, RescanCreate, Enrolled, EnrollFor, StartWalk, At, Rescanning, walkVars, history
  <2> QED BY <1>1, <2>1 DEF StepEffect, NodesChange, HereMoves, kernelVars, tables
<1>7. CASE RescanRename
  <2>1. UNCHANGED <<closed, runPc, here, adding>> /\ runPc = "diff"
    BY <1>7 DEF RescanRename, At, walkVars
  <2>2. PICK pr \in Pairs : RenamesTables(Goes(pr))
    BY <1>7, RenameIsCarrying
  <2> DEFINE go == Goes(pr)
  <2> HIDE DEF go
  <2>3. Renames(go) /\ mishaps \subseteq mishaps'
    BY <2>1, <2>2 DEF Renames, RenamesTables, go
  <2> QED BY <2>1, <2>3 DEF StepEffect, NodesChange, HereMoves, Rescanning
<1>8. CASE RescanRemove
  <2>1. /\ UNCHANGED <<closed, runPc, here, adding>>
        /\ \E paths : paths \subseteq DOMAIN watched /\ Unregister(paths, {})
    BY <1>8 DEF RescanRemove, AtOrBelow, walkVars
  <2> QED BY <2>1, UnregisterFrees DEF StepEffect, NodesChange, HereMoves, Rescanning
<1>9. CASE RescanEnds
  <2>1. /\ runPc = "diff" /\ runPc' = "next" /\ snapshots' = Put(snapshots, here, seen)
        /\ UNCHANGED <<kernelVars, watched, fdToPath, closed, adding, mishaps>>
    BY <1>9 DEF RescanEnds, At, walkVars, history
  <2>2. Ends
    BY <2>1 DEF Ends, Rescanning, kernelVars
  <2> QED BY <2>1, <2>2 DEF StepEffect, NodesChange, HereMoves, Rescanning
<1>10. CASE WalkStep(Run)
  BY <1>10, WalkStepChanges DEF Walkers
<1> QED BY <1>2, <1>3, <1>4, <1>5, <1>6, <1>7, <1>8, <1>9, <1>10 DEF RunStep

LEMMA StepChanges ==
    ASSUME Typed, [Next]_vars
    PROVE  StepEffect
<1>1. CASE Environment
  <2>1. UNCHANGED <<tables, closed, runVars, adding, mishaps>> /\ DOMAIN fds' = DOMAIN fds
    BY <1>1, DiskKeepsFds DEF Environment, Typed, walkVars
  <2>2. Frees({})
    BY <2>1, NothingFreed DEF Typed, tables, SameFlights
  <2> QED BY <2>1, <2>2 DEF StepEffect, NodesChange, HereMoves, Rescanning, runVars, scanVars
<1>2. CASE UNCHANGED vars
  <2>1. UNCHANGED <<watched, fdToPath, snapshots, closed, runPc, here, adding, mishaps, fds>>
    BY <1>2 DEF vars, kernelVars, tables, runVars, scanVars, walkVars, history
  <2>2. Frees({})
    BY <2>1, NothingFreed DEF Typed, SameFlights
  <2> QED BY <2>1, <2>2 DEF StepEffect, NodesChange, HereMoves, Rescanning
<1> QED BY <1>1, <1>2, CallChanges, RunChanges DEF Next

----------------------------------------------------------------------------
(* DescriptorsAreHeld. *)
LEMMA FreesKeepsHeld ==
    ASSUME DescriptorsAreHeld, mishaps \subseteq mishaps', NEW dead, Frees(dead)
    PROVE  DescriptorsAreHeld'
<1> USE DEF Frees, Strips
<1>1. WatchedFds' = WatchedFds \ {watched[p].fd : p \in dead}
  BY DEF WatchedFds, DescriptorsAreHeld
<1>2. InFlight' = InFlight
  BY DEF InFlight, SameFlights
<1>3. {watched[p].fd : p \in dead} \subseteq WatchedFds
  BY DEF WatchedFds
<1>4. \A p, q \in DOMAIN watched' : watched'[p].fd = watched'[q].fd => p = q
  BY DEF DescriptorsAreHeld
<1>5. \A v, w \in Walkers : adding'[v].step # "none" /\ adding'[w].step # "none"
                             /\ adding'[v].fd = adding'[w].fd => v = w
  BY DEF DescriptorsAreHeld, SameFlights
<1> QED BY <1>1, <1>2, <1>3, <1>4, <1>5 DEF DescriptorsAreHeld

LEMMA OpensKeepsHeld ==
    ASSUME DescriptorsAreHeld, mishaps \subseteq mishaps', NEW w \in Walkers, Opens(w)
    PROVE  DescriptorsAreHeld'
<1> USE DEF Opens
<1>1. WatchedFds' = WatchedFds /\ InFlight' = InFlight \cup {adding'[w].fd}
  BY DEF WatchedFds, InFlight
<1>2. \A u, v \in Walkers : adding'[u].step # "none" /\ adding'[v].step # "none"
                             /\ adding'[u].fd = adding'[v].fd => u = v
  <2>1. \A v \in Walkers \ {w} : adding'[v].step # "none" => adding'[v].fd \in DOMAIN fds
    BY DEF DescriptorsAreHeld, InFlight
  <2> QED BY <2>1 DEF DescriptorsAreHeld
<1> QED BY <1>1, <1>2 DEF DescriptorsAreHeld

LEMMA DropsKeepsHeld ==
    ASSUME DescriptorsAreHeld, mishaps \subseteq mishaps', NEW w \in Walkers, Drops(w)
    PROVE  DescriptorsAreHeld'
<1> USE DEF Drops
<1>1. WatchedFds' = WatchedFds
  BY DEF WatchedFds
<1>2. InFlight' = InFlight \ {adding[w].fd} /\ adding[w].fd \in InFlight
  BY DEF InFlight, DescriptorsAreHeld
<1>3. \A p, q \in DOMAIN watched' : watched'[p].fd = watched'[q].fd => p = q
  BY DEF DescriptorsAreHeld
<1>4. \A u, v \in Walkers : adding'[u].step # "none" /\ adding'[v].step # "none"
                             /\ adding'[u].fd = adding'[v].fd => u = v
  BY DEF DescriptorsAreHeld
<1> QED BY <1>1, <1>2, <1>3, <1>4 DEF DescriptorsAreHeld

LEMMA EntersKeepsHeld ==
    ASSUME DescriptorsAreHeld, mishaps \subseteq mishaps', NEW w \in Walkers, Enters(w)
    PROVE  DescriptorsAreHeld'
<1>1. PICK node : node.fd = adding[w].fd /\ watched' = Put(watched, adding[w].path, node)
  BY DEF Enters
<1> USE DEF Enters
<1>2. adding[w].fd \in InFlight
  BY DEF InFlight
<1>3. InFlight' = InFlight \ {adding[w].fd}
  BY DEF InFlight, DescriptorsAreHeld
<1>4. /\ DOMAIN watched' = DOMAIN watched \cup {adding[w].path} /\ watched'[adding[w].path] = node
      /\ \A p \in DOMAIN watched : watched'[p] = watched[p]
  BY <1>1 DEF Put
<1>5. WatchedFds' = WatchedFds \cup {adding[w].fd}
  BY <1>1, <1>4 DEF WatchedFds
<1>6. \A p, q \in DOMAIN watched' : watched'[p].fd = watched'[q].fd => p = q
  <2>1. \A p \in DOMAIN watched : watched[p].fd # adding[w].fd
    BY <1>2 DEF WatchedFds, DescriptorsAreHeld
  <2> HIDE DEF Enters
  <2> QED BY <1>1, <1>4, <2>1 DEF DescriptorsAreHeld
<1>7. \A u, v \in Walkers : adding'[u].step # "none" /\ adding'[v].step # "none"
                             /\ adding'[u].fd = adding'[v].fd => u = v
  BY DEF DescriptorsAreHeld
<1> QED BY <1>2, <1>3, <1>5, <1>6, <1>7 DEF DescriptorsAreHeld

LEMMA RenamesKeepsHeld ==
    ASSUME DescriptorsAreHeld, mishaps \subseteq mishaps', NEW go, Renames(go)
    PROVE  DescriptorsAreHeld'
<1>1. /\ DOMAIN watched' = (DOMAIN watched \ DOMAIN go) \cup Landed(watched, go)
      /\ DOMAIN go \subseteq DOMAIN watched /\ UNCHANGED <<fds, adding>>
      /\ \A p, q \in DOMAIN go : go[p] = go[q] => p = q
      /\ Landed(watched, go) \cap (DOMAIN watched \ DOMAIN go) # {} => "displaced" \in mishaps'
  BY DEF Renames, RenamesTables, Carries, kernelVars
<1>2. \A p \in DOMAIN go : go[p] \in Landed(watched, go) /\ watched'[go[p]] = watched[p]
  BY <1>1 DEF Renames, RenamesTables, Carries, Landed
<1>3. \A q \in DOMAIN watched \ DOMAIN go : q \notin Landed(watched, go) => watched'[q] = watched[q]
  BY DEF Renames, RenamesTables, Carries
<1>4. \A q \in DOMAIN watched' : \/ \E p \in DOMAIN go : q = go[p]
                                 \/ q \in DOMAIN watched \ DOMAIN go /\ q \notin Landed(watched, go)
  BY <1>1 DEF Landed
<1>5. InFlight' = InFlight
  BY <1>1 DEF InFlight
<1>6. WatchedFds' \subseteq WatchedFds
  BY <1>1, <1>2, <1>3, <1>4 DEF WatchedFds
<1>7. "displaced" \notin mishaps' => WatchedFds \subseteq WatchedFds'
  <2>1. ASSUME "displaced" \notin mishaps', NEW p \in DOMAIN watched
        PROVE  watched[p].fd \in WatchedFds'
    <3>1. CASE p \in DOMAIN go
      BY <1>1, <1>2, <3>1 DEF WatchedFds
    <3>2. CASE p \notin DOMAIN go
      <4>1. p \notin Landed(watched, go) /\ p \in DOMAIN watched'
        BY <1>1, <2>1, <3>2
      <4> QED BY <1>3, <3>2, <4>1 DEF WatchedFds
    <3> QED BY <3>1, <3>2
  <2> QED BY <2>1 DEF WatchedFds
<1>8. ASSUME NEW p \in DOMAIN watched', NEW q \in DOMAIN watched', watched'[p].fd = watched'[q].fd
      PROVE  p = q
  <2>1. PICK s \in DOMAIN watched : watched'[p] = watched[s]
                                    /\ ((s \in DOMAIN go /\ p = go[s]) \/ (s \notin DOMAIN go /\ p = s))
    BY <1>1, <1>2, <1>3, <1>4
  <2>2. PICK t \in DOMAIN watched : watched'[q] = watched[t]
                                    /\ ((t \in DOMAIN go /\ q = go[t]) \/ (t \notin DOMAIN go /\ q = t))
    BY <1>1, <1>2, <1>3, <1>4
  <2>3. s = t
    BY <1>8, <2>1, <2>2 DEF DescriptorsAreHeld
  <2> QED BY <2>1, <2>2, <2>3
<1>9. \A u, v \in Walkers : adding'[u].step # "none" /\ adding'[v].step # "none"
                             /\ adding'[u].fd = adding'[v].fd => u = v
  BY <1>1 DEF DescriptorsAreHeld
<1> QED BY <1>1, <1>5, <1>6, <1>7, <1>8, <1>9 DEF DescriptorsAreHeld

LEMMA ClosesKeepsHeld ==
    ASSUME DescriptorsAreHeld, mishaps \subseteq mishaps', Closes
    PROVE  DescriptorsAreHeld'
<1>1. WatchedFds' = {} /\ InFlight' = InFlight /\ DOMAIN fds' = DOMAIN fds \ WatchedFds
  BY DEF WatchedFds, InFlight, Closes
<1> QED BY <1>1 DEF DescriptorsAreHeld, Closes

LEMMA HeldStep ==
    ASSUME DescriptorsAreHeld, StepEffect
    PROVE  DescriptorsAreHeld'
<1>1. CASE Ends
  <2>1. WatchedFds' = WatchedFds /\ InFlight' = InFlight
    BY <1>1 DEF Ends, WatchedFds, InFlight
  <2> QED BY <1>1, <2>1 DEF Ends, DescriptorsAreHeld, StepEffect
<1> QED BY <1>1, FreesKeepsHeld, OpensKeepsHeld, DropsKeepsHeld, EntersKeepsHeld, RenamesKeepsHeld,
           ClosesKeepsHeld DEF StepEffect, NodesChange

LEMMA HeldInit == Init => DescriptorsAreHeld
<1> SUFFICES ASSUME Init PROVE DescriptorsAreHeld
  OBVIOUS
<1>1. watched = <<>> /\ fds = <<>> /\ adding = [w \in Walkers |-> NoAdd]
  BY DEF Init, KqueueInit
<1>2. DOMAIN watched = {} /\ DOMAIN fds = {} /\ \A w \in Walkers : adding[w].step = "none"
  BY <1>1 DEF NoAdd
<1>3. WatchedFds = {} /\ InFlight = {}
  BY <1>2 DEF WatchedFds, InFlight
<1> QED BY <1>2, <1>3 DEF DescriptorsAreHeld

(* Every descriptor of a node and of an addPath under way is open and held
   once, so no number is closed twice or while another path has it; and
   unless a rename has overwritten a node none but these is open: the errors,
   orphans and races of addPath and every removal give theirs back. *)
THEOREM DescriptorsStayHeld == Spec => []DescriptorsAreHeld
<1>1. Typed /\ DescriptorsAreHeld /\ [Next]_vars => DescriptorsAreHeld'
  BY StepChanges, HeldStep
<1> QED BY <1>1, HeldInit, TypesInvariant, PTL DEF Spec

(* After Close no path is watched. *)
LEMMA ClosedStep ==
    ASSUME Typed, ClosedEmpty, [Next]_vars
    PROVE  ClosedEmpty'
<1>1. StepEffect
  BY StepChanges
<1>2. ASSUME closed' PROVE DOMAIN watched' = {}
  <2>1. closed \/ Closes
    BY <1>1, <1>2 DEF StepEffect
  <2>2. CASE closed
    <3>1. DOMAIN watched = {}
      BY <2>2 DEF ClosedEmpty
    <3>2. ASSUME NEW go, Renames(go) PROVE DOMAIN watched' = {}
      BY <3>1, <3>2 DEF Renames, RenamesTables, Carries, Landed
    <3> QED BY <1>1, <2>2, <3>1, <3>2 DEF StepEffect, NodesChange, Frees, Strips, Opens, Drops, Enters, Closes, Ends
  <2> QED BY <2>1, <2>2 DEF Closes
<1>3. ASSUME runPc' = "exited" PROVE closed'
  <2>1. CASE runPc = "exited"
    <3>1. closed
      BY <2>1 DEF ClosedEmpty
    <3>2. closed' = closed \/ closed'
      BY <1>1 DEF StepEffect, Closes
    <3> QED BY <3>1, <3>2
  <2>2. CASE Exit
    BY <2>2 DEF Exit, Typed, RunTyped
  <2>3. CASE runPc' = runPc
    BY <1>3, <2>1, <2>3
  <2>4. ASSUME NEW w \in Walkers, WalkStep(w) PROVE runPc' = runPc
    BY <2>4, WalkStepTyped DEF runVars
  <2>5. CASE \E c \in Callers : Call(c)
    BY <2>3, <2>4, <2>5 DEF Call, AddRegister, AddReturns, AddCleanup, RemoveRoot, CloseBegins, CloseReturns,
       runVars, Walkers
  <2>6. CASE RunStep
    BY <1>3, <2>2, <2>3, <2>4, <2>6 DEF RunStep, Wait, HandleUnknown, HandleGone, HandleChanged, RemoveGone,
       RescanSkips, RescanBegins, RescanReads, RescanRename, RescanRemove, RescanCreate, EnrollFor,
       Enrolled, RescanEnds, Walkers
  <2>7. CASE Environment \/ UNCHANGED vars
    BY <2>3, <2>7 DEF Environment, vars, runVars
  <2> QED BY <2>5, <2>6, <2>7 DEF Next
<1> QED BY <1>2, <1>3 DEF ClosedEmpty

LEMMA ClosedInit == Init => ClosedEmpty
BY DEF Init, ClosedEmpty

(* Once run() has ended and every addPath is through, nothing is open. *)
THEOREM NothingIsLeftOpen == Spec => []CloseReleasesAll
<1>1. Spec => []ClosedEmpty
  BY ClosedInit, ClosedStep, TypesInvariant, PTL DEF Spec
<1>2. ASSUME Typed, DescriptorsAreHeld, ClosedEmpty, runPc = "exited", InFlight = {}, "displaced" \notin mishaps
      PROVE  fds = <<>> /\ watched = <<>>
  <2>1. DOMAIN watched = {}
    BY <1>2 DEF ClosedEmpty
  <2>2. WatchedFds = {}
    BY <2>1 DEF WatchedFds
  <2>3. DOMAIN fds = {}
    BY <1>2, <2>2 DEF DescriptorsAreHeld
  <2>4. \A f : f = [x \in DOMAIN f |-> f[x]] /\ DOMAIN f = {} => f = <<>>
    OBVIOUS
  <2>5. fds = [x \in DOMAIN fds |-> fds[x]] /\ watched = [x \in DOMAIN watched |-> watched[x]]
    BY <1>2 DEF Typed, FdsTyped, TablesTyped
  <2> QED BY <2>1, <2>3, <2>4, <2>5
<1>3. Typed /\ DescriptorsAreHeld /\ ClosedEmpty => CloseReleasesAll
  BY <1>2 DEF CloseReleasesAll
<1> QED BY <1>1, <1>3, TypesInvariant, DescriptorsStayHeld, PTL

----------------------------------------------------------------------------
(* TablesAgree, with what rescanDir relies on. *)
Agreed == TablesAgree /\ HereStays /\ SnapshotsOfDirs

Undisplaced == mishaps \cap {"displaced", "mistaken"} = {}
Untorn      == mishaps \cap {"displaced", "mistaken", "torn"} = {}

LEMMA StripsKeepsAgreed ==
    ASSUME TablesTyped, DescriptorsAreHeld, Agreed, StepEffect, NEW dead, Strips(dead)
    PROVE  Agreed'
<1> USE DEF Strips
<1>1. closed' = closed \/ Closes
  BY DEF StepEffect
<1>2. CASE closed'
  BY <1>2 DEF Agreed, TablesAgree, HereStays, SnapshotsOfDirs
<1>3. CASE ~closed'
  <2>1. ~closed /\ (Undisplaced' => Undisplaced) /\ (Untorn' => Untorn)
    BY <1>1, <1>3 DEF StepEffect, Closes, Undisplaced, Untorn
  <2>2. \A p \in DOMAIN watched : p \in dead <=> watched[p].fd \in {watched[d].fd : d \in dead}
    BY DEF DescriptorsAreHeld
  <2>3. WatchedFds' = WatchedFds \ {watched[p].fd : p \in dead}
    BY <2>2 DEF WatchedFds
  <2>4. Undisplaced' => DOMAIN fdToPath' = WatchedFds'
                        /\ \A p \in DOMAIN watched' : fdToPath'[watched'[p].fd] = p
    <3>1. ASSUME Undisplaced' PROVE DOMAIN fdToPath' = WatchedFds'
      BY <2>1, <2>3, <3>1 DEF Agreed, TablesAgree, Undisplaced, Without, Restrict
    <3>2. ASSUME Undisplaced', NEW p \in DOMAIN watched' PROVE fdToPath'[watched'[p].fd] = p
      <4>1. watched[p].fd \in DOMAIN fdToPath /\ fdToPath[watched[p].fd] = p
        BY <2>1, <3>2 DEF Agreed, TablesAgree, Undisplaced, WatchedFds
      <4>2. watched[p].fd \notin {watched[d].fd : d \in dead} /\ watched'[p].fd = watched[p].fd
        BY <2>2, <3>2
      <4> QED BY <4>1, <4>2 DEF Without, Restrict
    <3> QED BY <3>1, <3>2
  <2>5. DOMAIN snapshots' = DOMAIN snapshots \ dead
    BY DEF Without, Restrict
  <2>6. Undisplaced' => \A p \in DOMAIN watched' : watched'[p].isDir => p \in DOMAIN snapshots'
    BY <2>1, <2>5 DEF Agreed, TablesAgree, Undisplaced
  <2>7. Untorn' => \A p \in DOMAIN snapshots' : p \in DOMAIN watched' /\ watched'[p].isDir
    BY <2>1, <2>5, <1>3 DEF Agreed, SnapshotsOfDirs, Untorn
  <2>8. ASSUME Untorn', Rescanning' PROVE here' \in DOMAIN watched' /\ watched'[here'].isDir
    <3>1. CASE Rescanning /\ here' = here
      <4>1. here \in DOMAIN watched /\ watched[here].isDir
        BY <2>1, <2>8, <3>1 DEF Agreed, HereStays, Untorn
      <4>2. here \in DOMAIN snapshots
        BY <2>1, <2>8, <4>1 DEF Agreed, TablesAgree, Untorn
      <4>3. here \notin dead
        BY <2>8, <3>1, <4>2 DEF Torn, Rescanning, Untorn
      <4> QED BY <3>1, <4>1, <4>3
    <3>2. CASE ~(Rescanning /\ here' = here)
      BY <2>8, <3>2 DEF StepEffect, HereMoves
    <3> QED BY <3>1, <3>2
  <2>9. Untorn' <=> Undisplaced' /\ "torn" \notin mishaps'
    BY DEF Untorn, Undisplaced
  <2> HIDE DEF Strips
  <2> QED BY <2>4, <2>6, <2>7, <2>8, <2>9
          DEF Agreed, TablesAgree, HereStays, SnapshotsOfDirs, Undisplaced, Untorn
<1> QED BY <1>2, <1>3

LEMMA EntersKeepsAgreed ==
    ASSUME TablesTyped, DescriptorsAreHeld, Agreed, StepEffect, NEW w \in Walkers, Enters(w)
    PROVE  Agreed'
<1> DEFINE path == adding[w].path
           fd == adding[w].fd
<1>1. PICK node : /\ node.fd = fd /\ watched' = Put(watched, path, node)
                  /\ snapshots' = IF node.isDir THEN Put(snapshots, path, SnapshotOf(path)) ELSE snapshots
  BY DEF Enters
<1>2. /\ ~closed /\ path \notin DOMAIN watched /\ fdToPath' = Put(fdToPath, fd, path)
      /\ fd \in InFlight
  BY DEF Enters, InFlight
<1> HIDE DEF path, fd
<1>3. (Undisplaced' => Undisplaced) /\ (Untorn' => Untorn)
  BY DEF StepEffect, Undisplaced, Untorn
<1>4. /\ DOMAIN watched' = DOMAIN watched \cup {path} /\ watched'[path] = node
      /\ \A p \in DOMAIN watched : watched'[p] = watched[p] /\ p # path /\ watched[p].fd # fd
  BY <1>1, <1>2 DEF Put, DescriptorsAreHeld, WatchedFds
<1>5. WatchedFds' = WatchedFds \cup {fd}
  BY <1>1, <1>4 DEF WatchedFds
<1>6. DOMAIN fdToPath' = DOMAIN fdToPath \cup {fd} /\ fdToPath'[fd] = path
      /\ \A n \in DOMAIN fdToPath : n # fd => fdToPath'[n] = fdToPath[n]
  BY <1>2 DEF Put
<1>7. DOMAIN snapshots' = IF node.isDir THEN DOMAIN snapshots \cup {path} ELSE DOMAIN snapshots
  BY <1>1 DEF Put
<1>8. Undisplaced' => DOMAIN fdToPath' = WatchedFds'
                      /\ \A p \in DOMAIN watched' : fdToPath'[watched'[p].fd] = p
  <2>1. ASSUME Undisplaced', NEW p \in DOMAIN watched
        PROVE  watched[p].fd \in DOMAIN fdToPath /\ fdToPath[watched[p].fd] = p
    BY <1>2, <1>3, <2>1 DEF Agreed, TablesAgree, Undisplaced, WatchedFds
  <2>2. ASSUME Undisplaced' PROVE DOMAIN fdToPath = WatchedFds
    BY <1>2, <1>3, <2>2 DEF Agreed, TablesAgree, Undisplaced
  <2> QED BY <1>1, <1>4, <1>5, <1>6, <2>1, <2>2
<1>9. Undisplaced' => \A p \in DOMAIN watched' : watched'[p].isDir => p \in DOMAIN snapshots'
  BY <1>2, <1>3, <1>4, <1>7 DEF Agreed, TablesAgree, Undisplaced
<1>10. Untorn' => \A p \in DOMAIN snapshots' : p \in DOMAIN watched' /\ watched'[p].isDir
  BY <1>2, <1>3, <1>4, <1>7 DEF Agreed, SnapshotsOfDirs, Untorn
<1>11. ASSUME Untorn', Rescanning' PROVE here' \in DOMAIN watched' /\ watched'[here'].isDir
  <2>1. CASE Rescanning /\ here' = here
    BY <1>2, <1>3, <1>4, <1>11, <2>1 DEF Agreed, HereStays, Untorn
  <2>2. CASE ~(Rescanning /\ here' = here)
    BY <1>11, <2>2 DEF StepEffect, HereMoves
  <2> QED BY <2>1, <2>2
<1>12. Untorn' <=> Undisplaced' /\ "torn" \notin mishaps'
  BY DEF Untorn, Undisplaced
<1> QED BY <1>8, <1>9, <1>10, <1>11, <1>12
        DEF Agreed, TablesAgree, HereStays, SnapshotsOfDirs, Undisplaced, Untorn

LEMMA RenamesKeepsAgreed ==
    ASSUME TablesTyped, DescriptorsAreHeld, Agreed, StepEffect, NEW go, Renames(go)
    PROVE  Agreed'
<1> DEFINE theirs == {watched[p].fd : p \in DOMAIN go}
<1>1. /\ DOMAIN watched' = (DOMAIN watched \ DOMAIN go) \cup Landed(watched, go)
      /\ DOMAIN go \subseteq DOMAIN watched /\ here \notin DOMAIN go
      /\ \A p, q \in DOMAIN go : go[p] = go[q] => p = q
      /\ Landed(watched, go) \cap (DOMAIN watched \ DOMAIN go) # {} => "displaced" \in mishaps'
      /\ UNCHANGED <<closed, runPc, here>>
  BY DEF Renames, RenamesTables, Carries
<1>2. \A p \in DOMAIN go : go[p] \in Landed(watched, go) /\ watched'[go[p]] = watched[p]
  BY <1>1 DEF Renames, RenamesTables, Carries, Landed
<1>3. \A q \in DOMAIN watched \ DOMAIN go : q \notin Landed(watched, go) => watched'[q] = watched[q]
  BY DEF Renames, RenamesTables, Carries
<1>4. \A q \in DOMAIN watched' : \/ \E p \in DOMAIN go : q = go[p]
                                 \/ q \in DOMAIN watched \ DOMAIN go /\ q \notin Landed(watched, go)
  BY <1>1 DEF Landed
<1>5. /\ fdToPath' = [fd \in DOMAIN fdToPath \cup theirs |-> fdToPath'[fd]]
      /\ \A fd \in theirs : \E p \in DOMAIN go : watched[p].fd = fd /\ fdToPath'[fd] = go[p]
      /\ \A fd \in DOMAIN fdToPath \ theirs : fdToPath'[fd] = fdToPath[fd]
  BY DEF Renames, RenamesTables
<1>6. (Undisplaced' => Undisplaced) /\ (Untorn' => Untorn)
      /\ (Untorn' <=> Undisplaced' /\ "torn" \notin mishaps')
  BY DEF StepEffect, Undisplaced, Untorn
<1>7. Undisplaced' => Landed(watched, go) \cap (DOMAIN watched \ DOMAIN go) = {}
  BY <1>1 DEF Undisplaced
<1>8. ASSUME Undisplaced', ~closed
      PROVE  DOMAIN fdToPath' = WatchedFds' /\ \A q \in DOMAIN watched' : fdToPath'[watched'[q].fd] = q
  <2>1. DOMAIN fdToPath = WatchedFds /\ \A p \in DOMAIN watched : fdToPath[watched[p].fd] = p
    BY <1>6, <1>8 DEF Agreed, TablesAgree, Undisplaced
  <2>2. theirs \subseteq WatchedFds
    BY <1>1 DEF WatchedFds
  <2>3. DOMAIN fdToPath' = WatchedFds
    BY <1>5, <2>1, <2>2
  <2>4. WatchedFds \subseteq WatchedFds' /\ WatchedFds' \subseteq WatchedFds
    <3>1. ASSUME NEW p \in DOMAIN watched PROVE watched[p].fd \in WatchedFds'
      <4>1. CASE p \in DOMAIN go
        BY <1>1, <1>2, <4>1 DEF WatchedFds
      <4>2. CASE p \notin DOMAIN go
        BY <1>1, <1>3, <1>7, <1>8, <4>2 DEF WatchedFds
      <4> QED BY <4>1, <4>2
    <3>2. ASSUME NEW q \in DOMAIN watched' PROVE watched'[q].fd \in WatchedFds
      BY <1>1, <1>2, <1>3, <1>4 DEF WatchedFds
    <3> QED BY <3>1, <3>2 DEF WatchedFds
  <2>5. ASSUME NEW p \in DOMAIN go PROVE fdToPath'[watched'[go[p]].fd] = go[p]
    <3>1. PICK s \in DOMAIN go : watched[s].fd = watched[p].fd /\ fdToPath'[watched[p].fd] = go[s]
      BY <1>5
    <3>2. s = p
      BY <1>1, <3>1 DEF DescriptorsAreHeld
    <3> QED BY <1>2, <3>1, <3>2
  <2>6. ASSUME NEW q \in DOMAIN watched \ DOMAIN go, q \notin Landed(watched, go)
        PROVE  fdToPath'[watched'[q].fd] = q
    <3>1. watched[q].fd \notin theirs
      BY <1>1, <2>6 DEF DescriptorsAreHeld
    <3>2. watched[q].fd \in DOMAIN fdToPath
      BY <2>1 DEF WatchedFds
    <3> HIDE DEF theirs
    <3> QED BY <1>3, <1>5, <2>1, <2>6, <3>1, <3>2
  <2> QED BY <1>4, <2>3, <2>4, <2>5, <2>6
<1>9. \/ Carries(snapshots, snapshots', go)
      \/ snapshots' = snapshots /\ ((\E p \in DOMAIN go : watched[p].isDir) => "mistaken" \in mishaps')
  BY DEF Renames, RenamesTables
<1>10. ASSUME Undisplaced', ~closed, NEW q \in DOMAIN watched', watched'[q].isDir
       PROVE  q \in DOMAIN snapshots'
  <2>1. \A p \in DOMAIN watched : watched[p].isDir => p \in DOMAIN snapshots
    BY <1>6, <1>10 DEF Agreed, TablesAgree, Undisplaced
  <2>2. PICK p \in DOMAIN watched : /\ watched'[q] = watched[p]
                                    /\ \/ p \in DOMAIN go /\ q = go[p]
                                       \/ p \notin DOMAIN go /\ q = p
    BY <1>1, <1>2, <1>3, <1>4
  <2>3. p \in DOMAIN snapshots
    BY <1>10, <2>1, <2>2
  <2>4. CASE Carries(snapshots, snapshots', go)
    BY <2>2, <2>3, <2>4 DEF Carries, Landed
  <2>5. CASE snapshots' = snapshots /\ ~\E s \in DOMAIN go : watched[s].isDir
    BY <1>10, <2>2, <2>3, <2>5
  <2> QED BY <1>9, <1>10, <2>4, <2>5 DEF Undisplaced
<1>11. ASSUME Untorn', ~closed, NEW q \in DOMAIN snapshots'
       PROVE  q \in DOMAIN watched' /\ watched'[q].isDir
  <2>1. \A p \in DOMAIN snapshots : p \in DOMAIN watched /\ watched[p].isDir
    BY <1>6, <1>11 DEF Agreed, SnapshotsOfDirs, Untorn
  <2>2. \A p \in DOMAIN watched : p \notin DOMAIN go =>
           p \in DOMAIN watched' /\ watched'[p] = watched[p]
    BY <1>1, <1>3, <1>6, <1>7, <1>11
  <2>3. \A p \in DOMAIN go : go[p] \in DOMAIN watched' /\ watched'[go[p]] = watched[p]
    BY <1>1, <1>2
  <2>4. CASE Carries(snapshots, snapshots', go)
    <3>1. q \in DOMAIN snapshots \ DOMAIN go \/ \E p \in DOMAIN go \cap DOMAIN snapshots : q = go[p]
      BY <1>11, <2>4 DEF Carries, Landed
    <3> QED BY <2>1, <2>2, <2>3, <3>1
  <2>5. CASE snapshots' = snapshots /\ ~\E s \in DOMAIN go : watched[s].isDir
    BY <1>11, <2>1, <2>2, <2>5
  <2> QED BY <1>9, <1>11, <2>4, <2>5 DEF Untorn
<1>12. ASSUME Untorn', ~closed, Rescanning'
       PROVE  here' \in DOMAIN watched' /\ watched'[here'].isDir
  <2>1. here \in DOMAIN watched /\ watched[here].isDir
    BY <1>1, <1>6, <1>12 DEF Agreed, HereStays, Untorn, Rescanning
  <2>2. here \notin Landed(watched, go) /\ here \in DOMAIN watched'
    BY <1>1, <1>6, <1>7, <1>12, <2>1
  <2> QED BY <1>1, <1>3, <2>1, <2>2
<1> HIDE DEF Renames
<1>13. closed' = closed
  BY <1>1
<1> QED BY <1>6, <1>8, <1>10, <1>11, <1>12, <1>13
        DEF Agreed, TablesAgree, HereStays, SnapshotsOfDirs, Undisplaced, Untorn

LEMMA EndsKeepsAgreed ==
    ASSUME Agreed, StepEffect, Ends
    PROVE  Agreed'
<1> USE DEF Ends
<1>1. closed' = closed \/ Closes
  BY DEF StepEffect
<1>2. CASE closed'
  BY <1>2 DEF Agreed, TablesAgree, HereStays, SnapshotsOfDirs
<1>3. CASE ~closed'
  <2>1. ~closed /\ (Undisplaced' => Undisplaced) /\ (Untorn' => Untorn)
    BY <1>1, <1>3 DEF StepEffect, Closes, Undisplaced, Untorn
  <2>2. DOMAIN snapshots' = DOMAIN snapshots \cup {here} /\ WatchedFds' = WatchedFds
    BY DEF Put, WatchedFds
  <2>3. Undisplaced' => /\ DOMAIN fdToPath' = WatchedFds'
                        /\ \A p \in DOMAIN watched' : fdToPath'[watched'[p].fd] = p
                        /\ \A p \in DOMAIN watched' : watched'[p].isDir => p \in DOMAIN snapshots'
    BY <2>1, <2>2 DEF Agreed, TablesAgree, Undisplaced
  <2>4. Untorn' => here \in DOMAIN watched /\ watched[here].isDir
    BY <2>1 DEF Agreed, HereStays, Rescanning, Untorn
  <2>5. Untorn' => \A p \in DOMAIN snapshots' : p \in DOMAIN watched' /\ watched'[p].isDir
    BY <2>1, <2>2, <2>4 DEF Agreed, SnapshotsOfDirs, Untorn
  <2>6. Untorn' /\ Rescanning' => here' \in DOMAIN watched' /\ watched'[here'].isDir
    BY <2>4 DEF StepEffect, HereMoves
  <2>7. Untorn' <=> Undisplaced' /\ "torn" \notin mishaps'
    BY DEF Untorn, Undisplaced
  <2> HIDE DEF Ends
  <2> QED BY <2>3, <2>5, <2>6, <2>7 DEF Agreed, TablesAgree, HereStays, SnapshotsOfDirs, Undisplaced, Untorn
<1> QED BY <1>2, <1>3

LEMMA AgreedStep ==
    ASSUME Typed, DescriptorsAreHeld, Agreed, [Next]_vars
    PROVE  Agreed'
<1>1. StepEffect /\ TablesTyped
  BY StepChanges DEF Typed
<1>2. ASSUME NEW w \in Walkers, Opens(w) \/ Drops(w) PROVE Agreed'
  <2>1. Strips({})
    BY <1>1, <1>2, NothingStripped DEF Opens, Drops
  <2> QED BY <1>1, <2>1, StripsKeepsAgreed
<1>3. CASE Closes
  BY <1>3 DEF Closes, Agreed, TablesAgree, HereStays, SnapshotsOfDirs
<1>4. ASSUME NEW dead, Frees(dead) PROVE Agreed'
  BY <1>1, <1>4, StripsKeepsAgreed DEF Frees
<1> QED BY <1>1, <1>2, <1>3, <1>4, EntersKeepsAgreed, RenamesKeepsAgreed, EndsKeepsAgreed
        DEF StepEffect, NodesChange

LEMMA AgreedInit == Init => Agreed
<1> SUFFICES ASSUME Init PROVE Agreed
  OBVIOUS
<1>1. watched = <<>> /\ fdToPath = <<>> /\ snapshots = <<>> /\ runPc = "next"
  BY DEF Init
<1>2. DOMAIN watched = {} /\ DOMAIN fdToPath = {} /\ DOMAIN snapshots = {}
  BY <1>1
<1> QED BY <1>1, <1>2 DEF Agreed, TablesAgree, HereStays, SnapshotsOfDirs, WatchedFds, Rescanning

(* Until Close, and unless a rename has overwritten a node or carried a
   directory for a file: a note of a descriptor is looked up under the path
   whose node holds it, a watched directory has a snapshot, and while no
   snapshot was torn only what is watched has one. *)
THEOREM TablesStayAgreed == Spec => []TablesAgree
<1>1. Spec => []Agreed
  BY AgreedInit, AgreedStep, TypesInvariant, DescriptorsStayHeld, PTL DEF Spec
<1>2. Agreed => TablesAgree
  BY DEF Agreed
<1> QED BY <1>1, <1>2, PTL
----------------------------------------------------------------------------
(* The watches and the disk at rest: WatchesAreTrue.                       *)

(* What has notes is in the kernel's queue, so that the next kevent takes them. *)
NotesQueued ==
    \A fd \in DOMAIN fds : fds[fd].notes # {} => \E i \in DOMAIN queue : queue[i] = fd

(* A note reaches every descriptor of its inode and takes nothing back. *)
LEMMA NotedTells ==
    ASSUME FdsTyped, NEW state \in NotedStates, NEW posted, posted[2] \in Notes,
           NEW fd \in DOMAIN fds
    PROVE  LET after == Noted(state, posted)
           IN  /\ after.fds[fd].ino = state.fds[fd].ino
               /\ after.fds[fd].armed = state.fds[fd].armed
               /\ state.fds[fd].notes \subseteq after.fds[fd].notes
               /\ fd \in Holding(posted[1]) => posted[2] \in after.fds[fd].notes
               /\ \A j \in DOMAIN state.queue : \E k \in DOMAIN after.queue : after.queue[k] = state.queue[j]
               /\ after.fds[fd].notes # state.fds[fd].notes /\ state.fds[fd].notes = {} =>
                     \E k \in DOMAIN after.queue : after.queue[k] = fd
<1> DEFINE hit == Holding(posted[1])
           fresh == {n \in hit : state.fds[n].notes = {}}
           told == [n \in DOMAIN fds |->
                       IF n \in hit THEN [state.fds[n] EXCEPT !.notes = @ \cup {posted[2]}]
                                    ELSE state.fds[n]]
<1>1. hit \subseteq DOMAIN fds /\ fresh \subseteq hit /\ IsFiniteSet(fresh)
  BY FS_Subset DEF Holding, FdsTyped
<1>2. Noted(state, posted) = [fds |-> told, queue |-> state.queue \o SetToSeq(fresh)]
  BY DEF Noted
<1>3. state.fds[fd] \in FdRec /\ state.queue \in Seq(DOMAIN fds)
  BY DEF NotedStates
<1>4. PICK more : more = SetToSeq(fresh)
  OBVIOUS
<1>5. more \in Seq(fresh)
  BY <1>1, <1>4, SetToSeqElements
<1>6. fd \in fresh => \E k \in DOMAIN more : more[k] = fd
  <2>1. fd \in fresh => Contains(more, fd)
    BY <1>1, <1>4, SetToSeqHasAll
  <2>2. DOMAIN more = 1 .. Len(more)
    BY <1>5
  <2> QED BY <2>1, <2>2 DEF Contains
<1>7. /\ told[fd].ino = state.fds[fd].ino /\ told[fd].armed = state.fds[fd].armed
      /\ state.fds[fd].notes \subseteq told[fd].notes
      /\ fd \in hit => posted[2] \in told[fd].notes
      /\ fd \notin hit => told[fd].notes = state.fds[fd].notes
  BY <1>3 DEF FdRec
<1>8. fd \notin fresh => fd \notin hit \/ state.fds[fd].notes # {}
  OBVIOUS
<1> HIDE DEF hit, fresh, told
<1>9. more \in Seq(DOMAIN fds)
  BY <1>1, <1>5
<1>10. PICK q : q = state.queue \o more
  OBVIOUS
<1>11. /\ \A j \in DOMAIN state.queue : \E k \in DOMAIN q : q[k] = state.queue[j]
       /\ \A j \in DOMAIN more : \E k \in DOMAIN q : q[k] = more[j]
  <2>1. /\ DOMAIN state.queue = 1 .. Len(state.queue) /\ Len(state.queue) \in Nat
        /\ DOMAIN more = 1 .. Len(more) /\ Len(more) \in Nat
        /\ DOMAIN q = 1 .. Len(state.queue) + Len(more)
        /\ \A j \in 1 .. Len(state.queue) : q[j] = state.queue[j]
        /\ \A j \in 1 .. Len(more) : q[Len(state.queue) + j] = more[j]
    BY <1>3, <1>9, <1>10
  <2>2. \A j \in DOMAIN more : Len(state.queue) + j \in DOMAIN q
    BY <2>1
  <2> QED BY <2>1, <2>2
<1>12. PICK after : after = Noted(state, posted)
  OBVIOUS
<1>13. after.fds = told /\ after.queue = q
  BY <1>2, <1>4, <1>10, <1>12
<1>14. told[fd].notes # state.fds[fd].notes /\ state.fds[fd].notes = {} => \E k \in DOMAIN q : q[k] = fd
  BY <1>6, <1>7, <1>8, <1>11
<1>15. \A j \in DOMAIN state.queue : \E k \in DOMAIN q : q[k] = state.queue[j]
  BY <1>11
<1> QED BY <1>7, <1>12, <1>13, <1>14, <1>15 DEF hit

(* The kernel forgets no note, tells of each descriptor that it concerns, and queues them all. *)
LEMMA PostTells ==
    ASSUME FdsTyped, NotesQueued, NEW G, \A g \in G : g[2] \in Notes, NEW notes \in Seq(G), Post(notes)
    PROVE  /\ NotesQueued'
           /\ \A fd \in DOMAIN fds :
                /\ fds'[fd].ino = fds[fd].ino /\ fds'[fd].armed = fds[fd].armed
                /\ fds[fd].notes \subseteq fds'[fd].notes
                /\ \A i \in 1 .. Len(notes) : fd \in Holding(notes[i][1]) => notes[i][2] \in fds'[fd].notes
<1> DEFINE N == Len(notes)
           Told(s, state) ==
             /\ state \in NotedStates
             /\ \A fd \in DOMAIN fds :
                  /\ state.fds[fd].ino = fds[fd].ino /\ state.fds[fd].armed = fds[fd].armed
                  /\ fds[fd].notes \subseteq state.fds[fd].notes
                  /\ \A i \in s : fd \in Holding(notes[i][1]) => notes[i][2] \in state.fds[fd].notes
                  /\ state.fds[fd].notes # {} => \E k \in DOMAIN state.queue : state.queue[k] = fd
           Q == {pair \in (SUBSET (1 .. N)) \X NotedStates : Told(pair[1], pair[2])}
<1>1. N \in Nat /\ \A i \in 1 .. N : notes[i][2] \in Notes
  OBVIOUS
<1>2. PICK it : OneByOne(it, notes)
  BY PostedOneByOne
<1> DEFINE h == [s \in SUBSET (1 .. N) |-> <<s, it[s]>>]
<1>3. h[{}] \in Q
  <2>1. it[{}] = [fds |-> fds, queue |-> queue]
    BY <1>2 DEF OneByOne
  <2>f. /\ fds \in [DOMAIN fds -> FdRec] /\ queue \in Seq(DOMAIN fds)
        /\ \A i \in DOMAIN queue : fds[queue[i]].notes # {}
    BY DEF FdsTyped
  <2>2. it[{}] \in NotedStates /\ it[{}].fds = fds /\ it[{}].queue = queue
    BY <2>1, <2>f DEF NotedStates
  <2>3. Told({}, it[{}])
    BY <2>2 DEF NotesQueued
  <2> QED BY <2>2, <2>3
<1>4. ASSUME NEW s \in SUBSET (1 .. N), s # {}, h[s \ {Max(s)}] \in Q
      PROVE  h[s] \in Q
  <2> DEFINE state == it[s \ {Max(s)}]
             posted == notes[Max(s)]
             after == Noted(state, posted)
  <2>1. Max(s) \in s /\ Max(s) \in 1 .. N /\ posted[2] \in Notes
    BY <1>1, <1>4, GreatestOfPositions
  <2>2. it[s] = after
    BY <1>2, <1>4 DEF OneByOne
  <2>0. h[s \ {Max(s)}] = <<s \ {Max(s)}, state>>
    BY <1>4
  <2>3. Told(s \ {Max(s)}, state)
    <3> HIDE DEF state, h
    <3> QED BY <1>4, <2>0
  <2> HIDE DEF Q, state, posted
  <2>4. after \in NotedStates
    BY <2>1, <2>3, NotedTyped
  <2>5. ASSUME NEW fd \in DOMAIN fds
        PROVE  /\ after.fds[fd].ino = fds[fd].ino /\ after.fds[fd].armed = fds[fd].armed
               /\ fds[fd].notes \subseteq after.fds[fd].notes
               /\ \A i \in s : fd \in Holding(notes[i][1]) => notes[i][2] \in after.fds[fd].notes
               /\ after.fds[fd].notes # {} => \E k \in DOMAIN after.queue : after.queue[k] = fd
    <3>1. /\ after.fds[fd].ino = state.fds[fd].ino
          /\ after.fds[fd].armed = state.fds[fd].armed
          /\ state.fds[fd].notes \subseteq after.fds[fd].notes
          /\ fd \in Holding(posted[1]) => posted[2] \in after.fds[fd].notes
          /\ \A j \in DOMAIN state.queue : \E k \in DOMAIN after.queue : after.queue[k] = state.queue[j]
          /\ after.fds[fd].notes # state.fds[fd].notes /\ state.fds[fd].notes = {} =>
                     \E k \in DOMAIN after.queue : after.queue[k] = fd
      BY <2>1, <2>3, <2>5, NotedTells
    <3> HIDE DEF after
    <3>2. after.fds[fd].notes # {} => \E k \in DOMAIN after.queue : after.queue[k] = fd
      BY <2>3, <3>1
    <3>3. \A i \in s : fd \in Holding(notes[i][1]) => notes[i][2] \in after.fds[fd].notes
      BY <2>3, <3>1 DEF posted
    <3> QED BY <2>3, <3>1, <3>2, <3>3
  <2> HIDE DEF after
  <2>6. Told(s, it[s])
    BY <2>2, <2>4, <2>5
  <2>7. h[s] = <<s, it[s]>>
    BY <1>4
  <2> HIDE DEF Told, h
  <2> QED BY <1>4, <2>2, <2>4, <2>6, <2>7 DEF Q
<1> HIDE DEF Q, h
<1>5. h[1 .. N] \in Q
  BY <1>1, <1>3, <1>4, FoldStays
<1>6. h[1 .. N] = <<1 .. N, it[1 .. N]>>
  BY DEF h
<1>7. Told(1 .. N, it[1 .. N])
  BY <1>5, <1>6 DEF Q
<1>8. fds' = it[1 .. N].fds /\ queue' = it[1 .. N].queue
  BY <1>2 DEF OneByOne
<1>9. DOMAIN fds' = DOMAIN fds
  BY <1>7, <1>8 DEF NotedStates
<1> QED BY <1>7, <1>8, <1>9 DEF NotesQueued

LEMMA JoinedComponents ==
    ASSUME NEW p \in AllPaths, NEW old \in AllPaths, NEW new \in AllPaths, Len(old) <= Len(p)
    PROVE  /\ Len(JoinMovedPath(p, old, new)) = Len(new) + Len(p) - Len(old)
           /\ \A n \in 1 .. Len(new) : JoinMovedPath(p, old, new)[n] = new[n]
<1>1. old \in Path(Components) /\ new \in Path(Components) /\ p \in Path(Components)
  BY DEF AllPaths
<1>2. /\ Len(JoinMovedPath(p, old, new)) = Len(new) + Len(p) - Len(old)
      /\ \A n \in 1 .. Len(new) + Len(p) - Len(old) :
           JoinMovedPath(p, old, new)[n] = IF n <= Len(new) THEN new[n] ELSE p[n - Len(new) + Len(old)]
  BY <1>1, JoinComponents
<1>3. Len(new) \in Nat /\ Len(p) \in Nat /\ Len(old) \in Nat
  BY DEF AllPaths, Path
<1> QED BY <1>2, <1>3

(* A path that is moved is another one after. *)
LEMMA MovedElsewhere ==
    ASSUME NEW old \in AllPaths, NEW new \in AllPaths, old # new, NEW p \in AllPaths, HasPathPrefix(p, old)
    PROVE  JoinMovedPath(p, old, new) # p
<1> DEFINE q == JoinMovedPath(p, old, new)
<1>1. IsPrefix(old, p)
  <2>1. p \in Seq(Components) /\ old \in Seq(Components)
    BY DEF AllPaths, Path
  <2> QED BY <2>1, PrefixesAgree DEF HasPathPrefix, IsStrictPrefix, AllPaths, Path
<1>2. Len(old) <= Len(p) /\ \A n \in 1 .. Len(old) : old[n] = p[n]
  BY <1>1, PrefixesAgree DEF AllPaths
<1>3. Len(q) = Len(new) + Len(p) - Len(old) /\ \A n \in 1 .. Len(new) : q[n] = new[n]
  BY <1>2, JoinedComponents
<1>4. old \in Seq(Components) /\ new \in Seq(Components) /\ p \in Seq(Components)
  BY DEF AllPaths, Path
<1> HIDE DEF q
<1>5. ASSUME q = p PROVE FALSE
  <2>1. Len(old) = Len(new) /\ Len(old) \in Nat /\ Len(p) \in Nat
    BY <1>3, <1>4, <1>5
  <2>2. \A n \in 1 .. Len(old) : old[n] = new[n]
    BY <1>2, <1>3, <1>5, <2>1
  <2> QED BY <1>4, <2>1, <2>2
<1> QED BY <1>5 DEF q

(* A rename leaves what it does not blur, and what it changes it blurs at
   both ends. *)
LEMMA MoveBlurs ==
    ASSUME FilesTyped, NEW old \in Tree, NEW new \in Tree, Move(old, new)
    PROVE  /\ \A p \in DOMAIN fs : p \notin Moved(fs, fs') \cup Moved(fs', fs) =>
                 p \in DOMAIN fs' /\ fs'[p] = fs[p]
           /\ \A p \in DOMAIN fs' : \/ p \in DOMAIN fs /\ fs'[p] = fs[p]
                                    \/ \E q \in DOMAIN fs : fs'[p] = fs[q]
                                         /\ {p, q} \subseteq Moved(fs, fs') \cup Moved(fs', fs)
<1> DEFINE kept == DOMAIN fs \ (Below(old) \cup {new})
           to(p) == JoinMovedPath(p, old, new)
           back(p) == JoinMovedPath(p, new, old)
           moved == {to(p) : p \in Below(old)}
<1>1. /\ moved \subseteq Tree /\ Exists(old) /\ new # old
      /\ fs' = [p \in kept \cup moved |-> IF p \in moved THEN fs[back(p)] ELSE fs[p]]
  BY DEF Move
<1>2. old \in AllPaths /\ new \in AllPaths /\ Below(old) \subseteq AllPaths
      /\ Below(old) \subseteq DOMAIN fs /\ \A p \in Below(old) : HasPathPrefix(p, old)
  BY TreeIsPath DEF Below, FilesTyped
<1>3. ASSUME NEW p \in Below(old)
      PROVE  back(to(p)) = p /\ to(p) # p
  BY <1>1, <1>2, MovesBack, MovedElsewhere DEF AllPaths
<1>4. to(old) = new /\ old \in Below(old)
  <2>1. old \in Seq(Components) /\ new \in Seq(Components)
    BY <1>2 DEF AllPaths, Path
  <2>2. SubSeq(old, Len(old) + 1, Len(old)) = <<>>
    BY <2>1
  <2>3. to(old) = new
    BY <2>1, <2>2 DEF JoinMovedPath
  <2> QED BY <1>1, <2>3 DEF Below, Exists, HasPathPrefix
<1>5. new \in moved
  BY <1>4
<1> HIDE DEF to, back
<1>6. ASSUME NEW x \in Below(old)
      PROVE  /\ to(x) \in DOMAIN fs' /\ fs'[to(x)] = fs[x]
             /\ to(x) \in Moved(fs, fs') /\ x \in Moved(fs', fs)
  <2>1. to(x) \in DOMAIN fs' /\ fs'[to(x)] = fs[x]
    BY <1>1, <1>3
  <2>2. x \in DOMAIN fs /\ to(x) # x
    BY <1>2, <1>3
  <2> QED BY <2>1, <2>2 DEF Moved
<1>7. ASSUME NEW p \in DOMAIN fs, p \notin Moved(fs, fs') \cup Moved(fs', fs)
      PROVE  p \in DOMAIN fs' /\ fs'[p] = fs[p]
  <2>1. p \notin Below(old) /\ p \notin moved
    BY <1>6, <1>7
  <2>2. p \in kept
    BY <1>5, <2>1
  <2> HIDE DEF kept, moved
  <2> QED BY <1>1, <2>1, <2>2
<1>8. ASSUME NEW p \in DOMAIN fs'
      PROVE  \/ p \in DOMAIN fs /\ fs'[p] = fs[p]
             \/ \E q \in DOMAIN fs : fs'[p] = fs[q]
                  /\ {p, q} \subseteq Moved(fs, fs') \cup Moved(fs', fs)
  <2>1. CASE p \in moved
    <3>1. PICK x \in Below(old) : p = to(x)
      BY <2>1
    <3> QED BY <1>2, <1>6, <3>1
  <2>2. CASE p \notin moved
    <3>1. p \in kept
      BY <1>1, <2>2
    <3> QED BY <1>1, <2>2, <3>1
  <2> QED BY <2>1, <2>2
<1> QED BY <1>7, <1>8

(* What a change on disk does to a path: it stays what it is, or goes with
   a DELETE for every descriptor that stands for it, or is blurred. *)
LEMMA DiskTells ==
    ASSUME FilesTyped, FdsTyped, NotesQueued, DiskChanges
    PROVE  /\ NotesQueued'
           /\ \A fd \in DOMAIN fds : /\ fds'[fd].ino = fds[fd].ino /\ fds'[fd].armed = fds[fd].armed
                                     /\ fds[fd].notes \subseteq fds'[fd].notes
           /\ \A p \in DOMAIN fs :
                \/ p \in Blurred
                \/ p \in DOMAIN fs' /\ fs'[p] = fs[p]
                \/ p \notin DOMAIN fs' /\ \A fd \in Holding(fs[p].ino) : "DELETE" \in fds'[fd].notes
           /\ \A p \in DOMAIN fs' :
                \/ p \in DOMAIN fs /\ fs'[p] = fs[p]
                \/ p \notin DOMAIN fs /\ fs'[p].ino = <<p, changes>>
                \/ \E q \in DOMAIN fs : fs'[p] = fs[q] /\ {p, q} \subseteq Blurred
<1> DEFINE Grows == \A fd \in DOMAIN fds : /\ fds'[fd].ino = fds[fd].ino
                                           /\ fds'[fd].armed = fds[fd].armed
                                           /\ fds[fd].notes \subseteq fds'[fd].notes
           Stays(p) == \/ p \in Blurred
                       \/ p \in DOMAIN fs' /\ fs'[p] = fs[p]
                       \/ p \notin DOMAIN fs' /\ \A fd \in Holding(fs[p].ino) : "DELETE" \in fds'[fd].notes
           Comes(p) == \/ p \in DOMAIN fs /\ fs'[p] = fs[p]
                       \/ p \notin DOMAIN fs /\ fs'[p].ino = <<p, changes>>
                       \/ \E q \in DOMAIN fs : fs'[p] = fs[q] /\ {p, q} \subseteq Blurred
           Goal == NotesQueued' /\ Grows /\ (\A p \in DOMAIN fs : Stays(p)) /\ \A p \in DOMAIN fs' : Comes(p)
<1>1. ASSUME NEW path \in Tree, Make(path) PROVE Goal
  <2>1. Post(<<InParent(path)>>) /\ path \notin DOMAIN fs
        /\ fs' = [p \in DOMAIN fs \cup {path} |->
                 IF p = path THEN [ino |-> <<path, changes>>, isDir |-> Last(path) \in DirNames]
                 ELSE fs[p]]
    BY <1>1 DEF Make, Exists
  <2>2. <<InParent(path)>> \in Seq({InParent(path)}) /\ InParent(path)[2] \in Notes
    BY DEF Notes, InParent
  <2>3. NotesQueued' /\ Grows
    BY <2>1, <2>2, PostTells
  <2>4. /\ DOMAIN fs' = DOMAIN fs \cup {path} /\ fs'[path].ino = <<path, changes>>
        /\ \A p \in DOMAIN fs : fs'[p] = fs[p]
    BY <2>1
  <2> QED BY <2>1, <2>3, <2>4
<1>2. ASSUME NEW path \in Tree, Delete(path) PROVE Goal
  <2> DEFINE G == {<<fs[path].ino, "DELETE">>, InParent(path)}
             notes == << <<fs[path].ino, "DELETE">>, InParent(path)>>
  <2>1. \A g \in G : g[2] \in Notes
    BY DEF Notes, InParent
  <2>2. notes \in Seq(G) /\ 1 \in 1 .. Len(notes) /\ notes[1] = <<fs[path].ino, "DELETE">>
    OBVIOUS
  <2>3. Post(notes) /\ fs' = Restrict(fs, DOMAIN fs \ {path})
    BY <1>2 DEF Delete
  <2> HIDE DEF G, notes
  <2>4. NotesQueued' /\ Grows
        /\ \A fd \in DOMAIN fds : fd \in Holding(fs[path].ino) => "DELETE" \in fds'[fd].notes
    BY <2>1, <2>2, <2>3, PostTells
  <2>5. \A fd \in Holding(fs[path].ino) : "DELETE" \in fds'[fd].notes
    BY <2>4 DEF Holding
  <2>6. DOMAIN fs' = DOMAIN fs \ {path} /\ \A p \in DOMAIN fs' : fs'[p] = fs[p]
    BY <2>3 DEF Restrict
  <2> QED BY <2>4, <2>5, <2>6
<1>3. ASSUME NEW path \in Tree, Write(path) \/ Chmod(path) PROVE Goal
  <2>1. PICK note \in {"WRITE", "ATTRIB"} : Post(<< <<fs[path].ino, note>> >>) /\ fs' = fs
    BY <1>3 DEF Write, Chmod
  <2>2. << <<fs[path].ino, note>> >> \in Seq({<<fs[path].ino, note>>})
        /\ \A g \in {<<fs[path].ino, note>>} : g[2] \in Notes
    BY DEF Notes
  <2>3. NotesQueued' /\ Grows
    BY <2>1, <2>2, PostTells
  <2> QED BY <2>1, <2>3
<1>4. ASSUME NEW old \in Tree, NEW new \in Tree, Move(old, new) PROVE Goal
  <2> DEFINE G == {InParent(old), InParent(new), <<fs[new].ino, "DELETE">>, <<fs[old].ino, "RENAME">>}
             replaced == IF Exists(new) THEN << <<fs[new].ino, "DELETE">> >> ELSE <<>>
             notes == <<InParent(old), InParent(new)>> \o replaced \o << <<fs[old].ino, "RENAME">> >>
  <2>1. \A g \in G : g[2] \in Notes
    BY DEF Notes, InParent
  <2>2. notes \in Seq(G)
    <3>1. replaced \in Seq(G) /\ <<InParent(old), InParent(new)>> \in Seq(G)
          /\ << <<fs[old].ino, "RENAME">> >> \in Seq(G)
      <4>1. {InParent(old), InParent(new), <<fs[new].ino, "DELETE">>, <<fs[old].ino, "RENAME">>} \subseteq G
        OBVIOUS
      <4> HIDE DEF G
      <4> QED BY <4>1
    <3> HIDE DEF G, replaced
    <3> QED BY <3>1
  <2>3. Post(notes)
    BY <1>4 DEF Move
  <2> HIDE DEF G, notes
  <2>4. NotesQueued' /\ Grows
    BY <2>1, <2>2, <2>3, PostTells
  <2>5. Moved(fs, fs') \cup Moved(fs', fs) \subseteq Blurred
    BY DEF Blurred
  <2>6. (\A p \in DOMAIN fs : Stays(p)) /\ \A p \in DOMAIN fs' : Comes(p)
    BY <1>4, <2>5, MoveBlurs
  <2> QED BY <2>4, <2>6
<1> HIDE DEF Goal
<1>5. Goal
  BY <1>1, <1>2, <1>3, <1>4 DEF DiskChanges
<1> QED BY <1>5 DEF Goal

(* A path is blurry when it, or a directory above it, is blurred. *)
Blurry(p) == \E q \in SelfAndAncestors(p) : q \in blurred

(* An inode, named by the path it was made at, is there, or both are blurred.
   So it is on disk, in the snapshots, and in what rescanDir has in hand. *)
AtHome(p, ino) == ino[1] = p \/ {p, ino[1]} \subseteq blurred

EntriesAtHome(dir, entries) == Blurry(dir) \/ \A e \in entries : AtHome(Append(dir, e.name), e.ino)

FilesAtHome == \A p \in DOMAIN fs : AtHome(p, fs[p].ino)

SnapshotsAtHome == \A dir \in DOMAIN snapshots : EntriesAtHome(dir, snapshots[dir])

RescanAtHome ==
    /\ runPc = "read" => EntriesAtHome(here, seen)
    /\ runPc \in {"diff", "enroll"} => EntriesAtHome(here, seen \cup added \cup removed)
    /\ runPc = "diff" => \A x \in removed, y \in added : x.name # y.name

InodesAtHome == FilesAtHome /\ SnapshotsAtHome /\ RescanAtHome

LEMMA BlurSpreads ==
    ASSUME NEW q \in AllPaths, NEW p \in AllPaths, IsPrefix(q, p), Blurry(q)
    PROVE  Blurry(p)
<1>1. PICK r \in SelfAndAncestors(q) : r \in blurred
  BY DEF Blurry
<1>2. PICK n \in 0 .. Len(q) : r = SubSeq(q, 1, n)
  BY <1>1 DEF SelfAndAncestors
<1>3. r \in AllPaths
  BY <1>2, SubSeqIsPath DEF AllPaths
<1>4. IsPrefix(r, q)
  BY <1>1, <1>3, AncestorsArePrefixes DEF AllPaths
<1>5. /\ Len(r) <= Len(q) /\ \A k \in 1 .. Len(r) : r[k] = q[k]
      /\ Len(q) <= Len(p) /\ \A k \in 1 .. Len(q) : q[k] = p[k]
  BY <1>3, <1>4, PrefixesAgree DEF AllPaths
<1>6. Len(r) \in Nat /\ Len(q) \in Nat /\ Len(p) \in Nat
  BY <1>3 DEF AllPaths, Path
<1>7. Len(r) <= Len(p) /\ \A k \in 1 .. Len(r) : r[k] = p[k]
  BY <1>5, <1>6
<1>8. IsPrefix(r, p)
  BY <1>3, <1>7, PrefixesAgree DEF AllPaths
<1>9. r \in SelfAndAncestors(p)
  BY <1>3, <1>8, AncestorsArePrefixes DEF AllPaths
<1> QED BY <1>1, <1>9 DEF Blurry

LEMMA OwnAncestor ==
    ASSUME NEW p \in AllPaths
    PROVE  p \in SelfAndAncestors(p)
<1>1. IsPrefix(p, p)
  BY PrefixesAgree DEF AllPaths, Path
<1> QED BY <1>1, AncestorsArePrefixes DEF AllPaths

LEMMA BlurredIsBlurry ==
    ASSUME NEW p \in AllPaths, p \in blurred
    PROVE  Blurry(p)
BY OwnAncestor DEF Blurry

(* Only the environment changes the disk, or blurs. *)
LEMMA BackendLeavesDisk ==
    ASSUME [Next]_vars
    PROVE  UNCHANGED <<fs, blurred>> \/ Environment
<1>1. ASSUME UNCHANGED kernelVars PROVE UNCHANGED fs
  BY <1>1 DEF kernelVars
<1>2. ASSUME NEW closing, CloseFds(closing) PROVE UNCHANGED fs
  BY <1>2 DEF CloseFds
<1>3. ASSUME NEW w, WalkStep(w) PROVE UNCHANGED <<fs, blurred>>
  BY <1>1, <1>2, <1>3 DEF WalkStep, Lstat, WalkExcluded, ReadDir, AddNothing, AddShared, AddOpens, AddArm, AddFails,
     EnterOrphan, EnterShared, EnterNew, Abort, Visited, Entered, history, Open, Arm
<1>4. ASSUME NEW p, ForgetRoot(p) PROVE UNCHANGED fs
  BY <1>2, <1>4 DEF ForgetRoot
<1>5. ASSUME NEW paths, NEW mishap, Unregister(paths, mishap) PROVE UNCHANGED fs
  BY <1>2, <1>5 DEF Unregister
<1>6. ASSUME NEW c \in Callers, Call(c) PROVE UNCHANGED <<fs, blurred>>
  BY <1>1, <1>3, <1>4, <1>6 DEF Call, AddRegister, AddReturns, AddCleanup, RemoveRoot, CloseBegins,
     CloseReturns, history
<1>7. ASSUME RunStep PROVE UNCHANGED <<fs, blurred>>
  BY <1>1, <1>3, <1>5, <1>7 DEF RunStep, Wait, Exit, HandleUnknown, HandleGone, HandleChanged, RemoveGone,
     RescanSkips, RescanBegins, RescanReads, RescanRename, RescanRemove, RescanCreate, EnrollFor, Enrolled,
     RescanEnds, history, TakeNotes
<1> QED BY <1>6, <1>7 DEF Next, vars, kernelVars, history

(* Blurred paths stay blurred. *)
LEMMA BlurGrows ==
    ASSUME [Next]_vars
    PROVE  blurred \subseteq blurred' /\ \A p : Blurry(p) => Blurry(p)'
BY BackendLeavesDisk DEF Environment, Blurry

LEMMA FilesStayAtHome ==
    ASSUME Typed, NotesQueued, [Next]_vars, FilesAtHome
    PROVE  FilesAtHome'
<1>1. CASE UNCHANGED <<fs, blurred>>
  BY <1>1 DEF FilesAtHome, AtHome
<1>2. CASE Environment
  <2>1. DiskChanges /\ blurred' = blurred \cup Blurred
    BY <1>2 DEF Environment
  <2>2. ASSUME NEW p \in DOMAIN fs'
        PROVE  fs'[p].ino[1] = p \/ {p, fs'[p].ino[1]} \subseteq blurred'
    <3>1. \/ p \in DOMAIN fs /\ fs'[p] = fs[p]
          \/ fs'[p].ino = <<p, changes>>
          \/ \E q \in DOMAIN fs : fs'[p] = fs[q] /\ {p, q} \subseteq Blurred
      BY <2>1, <2>2, DiskTells DEF Typed
    <3> QED BY <2>1, <3>1 DEF FilesAtHome, AtHome
  <2> QED BY <2>2 DEF FilesAtHome, AtHome
<1> QED BY <1>1, <1>2, BackendLeavesDisk

LEMMA SnapshotAtHome ==
    ASSUME Typed, NEW dir \in AllPaths, FilesAtHome
    PROVE  EntriesAtHome(dir, SnapshotOf(dir))
<1>1. ASSUME NEW p \in DOMAIN fs, p # <<>>, ParentDir(p) = dir
      PROVE  Append(dir, Entry(p).name) = p /\ Entry(p).ino = fs[p].ino
  <2>1. p \in Seq(Components) /\ Len(p) # 0
    BY <1>1, TreeIsPath DEF Typed, FilesTyped, AllPaths, Path
  <2>2. Append(SubSeq(p, 1, Len(p) - 1), p[Len(p)]) = p
    BY <2>1, AppendProperties
  <2> QED BY <1>1, <2>2 DEF Entry, Last, ParentDir
<1>2. ASSUME NEW e \in SnapshotOf(dir) PROVE AtHome(Append(dir, e.name), e.ino)
  <2>1. PICK p \in DOMAIN fs : p # <<>> /\ ParentDir(p) = dir /\ e = Entry(p)
    BY <1>2 DEF SnapshotOf, Children
  <2> QED BY <1>1, <2>1 DEF FilesAtHome
<1> QED BY <1>2 DEF EntriesAtHome

LEMMA MovesBelow ==
    ASSUME NEW p \in AllPaths, NEW old \in AllPaths, NEW new \in AllPaths, IsPrefix(old, p)
    PROVE  JoinMovedPath(p, old, new) \in AllPaths /\ IsPrefix(new, JoinMovedPath(p, old, new))
<1> DEFINE q == JoinMovedPath(p, old, new)
<1>1. q \in AllPaths
  BY JoinIsPath DEF AllPaths
<1>2. Len(old) <= Len(p)
  BY PrefixesAgree DEF AllPaths
<1>3. Len(new) \in Nat /\ Len(p) \in Nat /\ Len(old) \in Nat
  BY DEF AllPaths, Path
<1>4. Len(q) = Len(new) + Len(p) - Len(old) /\ \A n \in 1 .. Len(new) : q[n] = new[n]
  BY <1>2, JoinedComponents
<1> HIDE DEF q
<1>5. Len(new) <= Len(q) /\ \A n \in 1 .. Len(new) : new[n] = q[n]
  BY <1>2, <1>3, <1>4
<1>6. IsPrefix(new, q)
  BY <1>1, <1>5, PrefixesAgree DEF AllPaths
<1> QED BY <1>1, <1>6 DEF q

(* What rescanDir takes for a rename has been moved on disk, so that both
   paths are blurry, with all there is below them. *)
LEMMA RenamesAreBlurry ==
    ASSUME Typed, InodesAtHome, runPc = "diff", NEW pr \in Pairs
    PROVE  \A p \in DOMAIN Goes(pr) : p \in AllPaths /\ Blurry(p) /\ Blurry(Goes(pr)[p])
<1> DEFINE old == PathIn(pr[1])
           new == PathIn(pr[2])
<1>1. /\ pr[1] \in removed /\ pr[2] \in added /\ pr[1].ino = pr[2].ino
      /\ pr[1] \in EntryRec /\ pr[2] \in EntryRec
  BY DEF Pairs, Typed, RunTyped
<1>2. /\ old \in AllPaths /\ new \in AllPaths /\ here \in AllPaths
      /\ old = Append(here, pr[1].name) /\ new = Append(here, pr[2].name)
  BY <1>1, EntryPath DEF Typed, RunTyped, PathIn
<1>3. old # new
  <2>1. pr[1].name # pr[2].name
    BY <1>1 DEF InodesAtHome, RescanAtHome
  <2> QED BY <1>2, <2>1 DEF AllPaths, Path
<1>4. IsPrefix(here, old) /\ IsPrefix(here, new)
  <2>1. ASSUME NEW n \in Components PROVE IsPrefix(here, Append(here, n))
    <3>1. here \in Seq(Components) /\ Append(here, n) \in Seq(Components)
      BY <1>2 DEF AllPaths, Path
    <3>2. Len(here) <= Len(Append(here, n)) /\ \A k \in 1 .. Len(here) : here[k] = Append(here, n)[k]
      BY <3>1
    <3> QED BY <3>1, <3>2, PrefixesAgree DEF Path
  <2> QED BY <1>1, <1>2, <2>1 DEF EntryRec
<1>5. Blurry(old) /\ Blurry(new)
  <2>1. CASE Blurry(here)
    BY <1>2, <1>4, <2>1, BlurSpreads
  <2>2. CASE ~Blurry(here)
    <3>1. AtHome(old, pr[1].ino) /\ AtHome(new, pr[1].ino)
      BY <1>1, <1>2, <2>2 DEF InodesAtHome, RescanAtHome, EntriesAtHome
    <3>2. old \in blurred /\ new \in blurred
      BY <1>3, <3>1 DEF AtHome
    <3> QED BY <1>2, <3>2, BlurredIsBlurry
  <2> QED BY <2>1, <2>2
<1>6. ASSUME NEW p \in DOMAIN Goes(pr)
      PROVE  p \in AllPaths /\ IsPrefix(old, p) /\ Goes(pr)[p] = JoinMovedPath(p, old, new)
  <2>1. p \in DOMAIN watched /\ HasPathPrefix(p, old) /\ Goes(pr)[p] = JoinMovedPath(p, old, new)
    BY <1>6 DEF Goes, AtOrBelow, HasPathPrefix
  <2>2. p \in AllPaths
    BY <2>1 DEF Typed, TablesTyped
  <2>3. IsPrefix(old, old)
    <3>1. Len(old) \in Nat
      BY <1>2 DEF AllPaths, Path
    <3> QED BY <1>2, <3>1, PrefixesAgree DEF AllPaths
  <2> QED BY <2>1, <2>2, <2>3 DEF HasPathPrefix, IsStrictPrefix
<1> HIDE DEF old, new
<1>7. ASSUME NEW p \in DOMAIN Goes(pr)
      PROVE  p \in AllPaths /\ Blurry(p) /\ Blurry(Goes(pr)[p])
  <2>1. p \in AllPaths /\ IsPrefix(old, p) /\ Goes(pr)[p] = JoinMovedPath(p, old, new)
    BY <1>6, <1>7
  <2>2. JoinMovedPath(p, old, new) \in AllPaths /\ IsPrefix(new, JoinMovedPath(p, old, new))
    BY <1>2, <2>1, MovesBelow
  <2> QED BY <1>2, <1>5, <2>1, <2>2, BlurSpreads
<1> QED BY <1>7

LEMMA EntriesStay ==
    ASSUME [Next]_vars, NEW dir, NEW entries, EntriesAtHome(dir, entries)
    PROVE  Blurry(dir)' \/ \A e \in entries : AtHome(Append(dir, e.name), e.ino)'
<1>1. Blurry(dir) => Blurry(dir)'
  BY BlurGrows
<1>2. blurred \subseteq blurred'
  BY BlurGrows
<1> QED BY <1>1, <1>2 DEF EntriesAtHome, AtHome

(* What the snapshots of a step say was said before, or has been read, or is
   of a directory that was renamed. *)
LEMMA SnapshotsStay ==
    ASSUME Typed, InodesAtHome, [Next]_vars, NEW dir \in DOMAIN snapshots'
    PROVE  Blurry(dir)' \/ \A e \in snapshots'[dir] : AtHome(Append(dir, e.name), e.ino)'
<1>1. StepEffect
  BY StepChanges
<1>2. ASSUME dir \in DOMAIN snapshots, snapshots'[dir] = snapshots[dir]
      PROVE  EntriesAtHome(dir, snapshots'[dir])
  BY <1>2 DEF InodesAtHome, SnapshotsAtHome
<1>3. CASE UNCHANGED snapshots
  BY <1>2, <1>3, EntriesStay
<1>4. ASSUME NEW dead, Frees(dead) PROVE EntriesAtHome(dir, snapshots'[dir])
  BY <1>2, <1>4 DEF Frees, Strips, Without, Restrict
<1>5. ASSUME NEW w \in Walkers, Enters(w) PROVE EntriesAtHome(dir, snapshots'[dir])
  <2>1. adding[w].path \in AllPaths
    BY <1>5 DEF Enters, Typed, WalksTyped, AddRec
  <2>2. EntriesAtHome(adding[w].path, SnapshotOf(adding[w].path))
    BY <2>1, SnapshotAtHome DEF InodesAtHome
  <2>3. snapshots' = snapshots \/ snapshots' = Put(snapshots, adding[w].path, SnapshotOf(adding[w].path))
    BY <1>5 DEF Enters
  <2> QED BY <1>2, <2>2, <2>3 DEF Put
<1>6. CASE Ends
  <2>1. EntriesAtHome(here, seen)
    BY <1>6 DEF Ends, InodesAtHome, RescanAtHome, EntriesAtHome
  <2> QED BY <1>2, <1>6, <2>1, EntriesStay DEF Ends, Put
<1>7. ASSUME NEW go, Renames(go) PROVE EntriesAtHome(dir, snapshots'[dir])
  <2>1. PICK pr \in Pairs : go = Goes(pr)
    BY <1>7 DEF Renames
  <2>2. \A p \in DOMAIN go : Blurry(go[p])
    BY <1>7, <2>1, RenamesAreBlurry DEF Renames
  <2>3. CASE snapshots' = snapshots
    BY <1>2, <2>3
  <2>4. CASE Carries(snapshots, snapshots', go)
    <3>1. CASE \E p \in DOMAIN go : dir = go[p]
      BY <2>2, <3>1 DEF EntriesAtHome
    <3>2. CASE ~\E p \in DOMAIN go : dir = go[p]
      BY <1>2, <2>4, <3>2 DEF Carries, Landed
    <3> QED BY <3>1, <3>2
  <2> QED BY <1>7, <2>3, <2>4 DEF Renames, RenamesTables
<1>8. ASSUME NEW w \in Walkers, Opens(w) \/ Drops(w) PROVE UNCHANGED snapshots
  BY <1>8 DEF Opens, Drops
<1>9. ~Closes
  BY DEF Closes
<1> QED BY <1>1, <1>3, <1>4, <1>5, <1>6, <1>7, <1>8, <1>9, EntriesStay DEF StepEffect, NodesChange

(* It takes a snapshot, reads the directory, and goes through the differences. *)
LEMMA RescanGoesOn ==
    ASSUME Typed, [Next]_vars
    PROVE  \/ runPc' \notin {"read", "diff", "enroll"}
           \/ runPc' = "read" /\ (RescanBegins \/ UNCHANGED <<runPc, here, seen>>)
           \/ RescanReads
           \/ /\ runPc \in {"diff", "enroll"} /\ UNCHANGED <<here, seen>>
              /\ added' \subseteq added /\ removed' \subseteq removed
              /\ runPc = "enroll" => removed = {}
<1> DEFINE Goal == \/ runPc' \notin {"read", "diff", "enroll"}
                   \/ runPc' = "read" /\ (RescanBegins \/ UNCHANGED <<runPc, here, seen>>)
                   \/ RescanReads
                   \/ /\ runPc \in {"diff", "enroll"} /\ UNCHANGED <<here, seen>>
                      /\ added' \subseteq added /\ removed' \subseteq removed
                      /\ runPc = "enroll" => removed = {}
<1>0. runPc = "enroll" => removed = {}
  BY DEF Typed, RunTyped
<1>1. CASE UNCHANGED <<runPc, here, seen, added, removed>>
  BY <1>0, <1>1
<1>2. ASSUME NEW w \in Walkers, WalkStep(w) PROVE Goal
  BY <1>1, <1>2, WalkStepTyped DEF Typed, runVars, scanVars
<1>3. CASE \E c \in Callers : Call(c)
  BY <1>1, <1>2, <1>3 DEF Call, AddRegister, AddReturns, AddCleanup, RemoveRoot, CloseBegins, CloseReturns,
     runVars, scanVars, Walkers
<1>4. CASE Wait \/ Exit \/ HandleUnknown \/ HandleGone \/ HandleChanged \/ RemoveGone \/ RescanSkips
  BY <1>1, <1>4 DEF Wait, Exit, HandleUnknown, HandleGone, HandleChanged, RemoveGone, RescanSkips, scanVars,
     At, Handles
<1>5. CASE RescanBegins
  BY <1>5 DEF RescanBegins
<1>6. CASE RescanRename \/ RescanRemove \/ RescanCreate \/ EnrollFor \/ Enrolled \/ RescanEnds
  BY <1>0, <1>6 DEF RescanRename, RescanRemove, RescanCreate, EnrollFor, Enrolled, RescanEnds, At
<1>7. CASE RunStep
  BY <1>2, <1>4, <1>5, <1>6, <1>7 DEF RunStep, Walkers
<1>8. CASE Environment \/ UNCHANGED vars
  BY <1>1, <1>8 DEF Environment, vars, runVars, scanVars
<1> QED BY <1>3, <1>7, <1>8 DEF Next

LEMMA RescanStays ==
    ASSUME Typed, InodesAtHome, [Next]_vars
    PROVE  RescanAtHome'
<1>1. RescanAtHome /\ FilesAtHome /\ blurred \subseteq blurred'
  BY BlurGrows DEF InodesAtHome
<1>2. CASE runPc' \notin {"read", "diff", "enroll"}
  BY <1>2 DEF RescanAtHome
<1>3. CASE runPc' = "read" /\ UNCHANGED <<runPc, here, seen>>
  BY <1>1, <1>3 DEF RescanAtHome, EntriesAtHome, AtHome, Blurry
<1>4. CASE RescanBegins
  <2>1. runPc' = "read" /\ UNCHANGED <<here, blurred>>
        /\ (seen' = {} \/ (here \in DOMAIN snapshots /\ seen' = snapshots[here]))
    BY <1>4 DEF RescanBegins, history
  <2>2. EntriesAtHome(here, seen')
    BY <2>1 DEF InodesAtHome, SnapshotsAtHome, EntriesAtHome
  <2> QED BY <2>1, <2>2 DEF RescanAtHome, EntriesAtHome, AtHome, Blurry
<1>5. CASE RescanReads
  <2>1. runPc = "read" /\ runPc' = "diff" /\ UNCHANGED <<here, blurred>> /\ seen' = SnapshotOf(here)
    BY <1>5 DEF RescanReads, At, history
  <2>2. PICK old \in {seen, {}} : /\ removed' = {e \in old : e.name \notin Names(SnapshotOf(here))}
                                  /\ added' = {e \in SnapshotOf(here) : e.name \notin Names(old)}
    BY <1>5 DEF RescanReads
  <2>3. EntriesAtHome(here, SnapshotOf(here)) /\ EntriesAtHome(here, seen)
    BY <1>1, <2>1, SnapshotAtHome DEF Typed, RunTyped, RescanAtHome
  <2>4. removed' \subseteq seen /\ added' \subseteq seen'
        /\ \A x \in removed', y \in added' : x.name # y.name
    BY <2>1, <2>2 DEF Names
  <2> QED BY <2>1, <2>3, <2>4 DEF RescanAtHome, EntriesAtHome, AtHome, Blurry
<1>6. CASE /\ runPc \in {"diff", "enroll"} /\ UNCHANGED <<here, seen>>
           /\ added' \subseteq added /\ removed' \subseteq removed
           /\ runPc = "enroll" => removed = {}
           /\ runPc' \in {"diff", "enroll"}
  BY <1>1, <1>6 DEF RescanAtHome, EntriesAtHome, AtHome, Blurry
<1>7. CASE /\ runPc \in {"diff", "enroll"} /\ UNCHANGED <<here, seen>> /\ runPc' = "read"
  BY <1>1, <1>7 DEF RescanAtHome, EntriesAtHome, AtHome, Blurry
<1> QED BY <1>2, <1>3, <1>4, <1>5, <1>6, <1>7, RescanGoesOn

LEMMA HomesStay ==
    ASSUME Typed, NotesQueued, InodesAtHome, [Next]_vars
    PROVE  InodesAtHome'
<1>1. FilesAtHome' /\ RescanAtHome'
  BY FilesStayAtHome, RescanStays DEF InodesAtHome
<1>2. SnapshotsAtHome'
  BY SnapshotsStay DEF SnapshotsAtHome, EntriesAtHome
<1> QED BY <1>1, <1>2 DEF InodesAtHome

(* What any step does to the descriptors and the disk. *)
LEMMA KernelSteps ==
    ASSUME [Next]_vars
    PROVE  \/ UNCHANGED kernelVars
           \/ \E closing : CloseFds(closing)
           \/ \E path : Open(path)
           \/ \E fd : Arm(fd)
           \/ Wait
           \/ \E c \in Callers : CloseBegins(c)
           \/ Environment
<1> DEFINE Goal == \/ UNCHANGED kernelVars
                   \/ \E closing : CloseFds(closing)
                   \/ \E path : Open(path)
                   \/ \E fd : Arm(fd)
                   \/ Wait
                   \/ \E c \in Callers : CloseBegins(c)
                   \/ Environment
<1>1. ASSUME NEW w, WalkStep(w) PROVE Goal
  <2>1. CASE Lstat(w) \/ WalkExcluded(w) \/ ReadDir(w) \/ AddNothing(w) \/ AddShared(w) \/ EnterNew(w)
    BY <2>1 DEF Lstat, WalkExcluded, ReadDir, AddNothing, AddShared, EnterNew
  <2>2. CASE AddOpens(w)
    BY <2>2 DEF AddOpens
  <2>3. CASE AddArm(w)
    BY <2>3 DEF AddArm
  <2>4. CASE AddFails(w) \/ EnterOrphan(w) \/ EnterShared(w)
    BY <2>4 DEF AddFails, EnterOrphan, EnterShared
  <2> QED BY <1>1, <2>1, <2>2, <2>3, <2>4 DEF WalkStep
<1>2. ASSUME NEW c \in Callers, Call(c) PROVE Goal
  <2>1. CASE AddRegister(c) \/ AddReturns(c) \/ CloseReturns(c)
    BY <2>1 DEF AddRegister, AddReturns, CloseReturns
  <2>2. CASE AddCleanup(c) \/ RemoveRoot(c)
    BY <2>2 DEF AddCleanup, RemoveRoot, ForgetRoot
  <2> QED BY <1>1, <1>2, <2>1, <2>2 DEF Call
<1>3. CASE RunStep
  <2>1. CASE Exit \/ HandleUnknown \/ HandleGone \/ HandleChanged \/ RescanSkips \/ RescanBegins \/ RescanReads
             \/ RescanRename \/ RescanCreate \/ EnrollFor \/ Enrolled \/ RescanEnds
    BY <2>1 DEF Exit, HandleUnknown, HandleGone, HandleChanged, RescanSkips, RescanBegins, RescanReads,
       RescanRename, RescanCreate, EnrollFor, Enrolled, RescanEnds
  <2>2. CASE RemoveGone \/ RescanRemove
    BY <2>2 DEF RemoveGone, RescanRemove, Unregister
  <2> QED BY <1>1, <1>3, <2>1, <2>2 DEF RunStep
<1>4. CASE UNCHANGED vars
  BY <1>4 DEF vars
<1> QED BY <1>2, <1>3, <1>4 DEF Next

(* An open descriptor stays that of its inode, and until Close it stays with
   the kqueue and keeps its notes but for the kevent that takes them. *)
LEMMA FdsStay ==
    ASSUME Typed, NotesQueued, [Next]_vars, NEW fd \in DOMAIN fds, fd \in DOMAIN fds'
    PROVE  /\ fds'[fd].ino = fds[fd].ino
           /\ closed' \/ (fds[fd].armed => fds'[fd].armed)
           /\ closed' \/ Wait \/ fds[fd].notes \subseteq fds'[fd].notes
<1>0. fds[fd] \in FdRec /\ fds = [f \in DOMAIN fds |-> fds[f]]
  BY DEF Typed, FdsTyped
<1>1. CASE UNCHANGED kernelVars
  BY <1>1 DEF kernelVars
<1>2. ASSUME NEW closing, CloseFds(closing) PROVE fds'[fd] = fds[fd]
  BY <1>2 DEF CloseFds, Restrict
<1>3. ASSUME NEW path, Open(path) PROVE fds'[fd] = fds[fd]
  BY <1>3, LowestFreeIsFree DEF Open, Typed
<1>4. ASSUME NEW f, Arm(f)
      PROVE  fds'[fd].ino = fds[fd].ino /\ (fds[fd].armed => fds'[fd].armed) /\ fds'[fd].notes = fds[fd].notes
  BY <1>0, <1>4 DEF Arm, FdRec
<1>5. CASE Wait
  <2>1. fds'[fd] = [fds[fd] EXCEPT !.notes = {}]
    BY <1>5 DEF Wait, TakeNotes
  <2> QED BY <1>0, <1>5, <2>1 DEF FdRec
<1>6. ASSUME NEW c \in Callers, CloseBegins(c) PROVE closed' /\ fds'[fd].ino = fds[fd].ino
  <2>1. /\ closed' /\ fd \in DOMAIN fds \ {watched[p].fd : p \in DOMAIN watched}
        /\ fds' = [f \in DOMAIN fds \ {watched[p].fd : p \in DOMAIN watched} |->
                     [fds[f] EXCEPT !.armed = FALSE, !.notes = {}]]
    BY <1>6 DEF CloseBegins
  <2>2. fds'[fd] = [fds[fd] EXCEPT !.armed = FALSE, !.notes = {}]
    BY <2>1
  <2> QED BY <1>0, <2>1, <2>2 DEF FdRec
<1>7. CASE Environment
  BY <1>7, DiskTells DEF Environment, Typed
<1> QED BY <1>1, <1>2, <1>3, <1>4, <1>5, <1>6, <1>7, KernelSteps

LEMMA NotesStayQueued ==
    ASSUME Typed, NotesQueued, [Next]_vars
    PROVE  NotesQueued'
<1>0. fds \in [DOMAIN fds -> FdRec] /\ \A fd \in DOMAIN fds : fds[fd] \in FdRec
  BY DEF Typed, FdsTyped
<1>1. CASE UNCHANGED kernelVars
  BY <1>1 DEF kernelVars, NotesQueued
<1>2. ASSUME NEW closing, CloseFds(closing) PROVE NotesQueued'
  <2>1. queue \in Seq(DOMAIN fds)
    BY DEF Typed, FdsTyped
  <2>2. \A i \in DOMAIN queue : queue[i] \notin closing => \E j \in DOMAIN queue' : queue'[j] = queue[i]
    BY <1>2, <2>1, QueueAfterClose
  <2>3. \A fd \in DOMAIN fds' : fd \in DOMAIN fds /\ fd \notin closing /\ fds'[fd] = fds[fd]
    BY <1>2 DEF CloseFds, Restrict
  <2> QED BY <2>2, <2>3 DEF NotesQueued
<1>3. ASSUME NEW path, Open(path) PROVE NotesQueued'
  BY <1>3 DEF Open, NotesQueued
<1>4. ASSUME NEW f, Arm(f) PROVE NotesQueued'
  <2>1. /\ DOMAIN fds' = DOMAIN fds /\ queue' = queue
        /\ \A fd \in DOMAIN fds : fds'[fd].notes = fds[fd].notes
    BY <1>0, <1>4 DEF Arm, FdRec
  <2> QED BY <2>1 DEF NotesQueued
<1>5. CASE Wait
  <2>1. \A fd \in DOMAIN fds' : fd \in DOMAIN fds /\ fds'[fd] = [fds[fd] EXCEPT !.notes = {}]
    BY <1>5 DEF Wait, TakeNotes
  <2>2. \A fd \in DOMAIN fds' : fds'[fd].notes = {}
    BY <1>0, <2>1 DEF FdRec
  <2> QED BY <2>2 DEF NotesQueued
<1>6. ASSUME NEW c \in Callers, CloseBegins(c) PROVE NotesQueued'
  <2> DEFINE closing == {watched[p].fd : p \in DOMAIN watched}
  <2>1. fds' = [fd \in DOMAIN fds \ closing |-> [fds[fd] EXCEPT !.armed = FALSE, !.notes = {}]]
    BY <1>6 DEF CloseBegins
  <2> HIDE DEF closing
  <2>2. \A fd \in DOMAIN fds' : fd \in DOMAIN fds /\ fds'[fd] = [fds[fd] EXCEPT !.armed = FALSE, !.notes = {}]
    BY <2>1
  <2>r. \A rec \in FdRec : [rec EXCEPT !.armed = FALSE, !.notes = {}].notes = {}
    BY DEF FdRec
  <2>3. \A fd \in DOMAIN fds' : fds'[fd].notes = {}
    BY <1>0, <2>2, <2>r
  <2> QED BY <2>3 DEF NotesQueued
<1>7. CASE Environment
  BY <1>7, DiskTells DEF Environment, Typed
<1> QED BY <1>1, <1>2, <1>3, <1>4, <1>5, <1>6, <1>7, KernelSteps

(* A path stays what it is, or is blurred, or goes and that is announced. *)
LEMMA FilesStay ==
    ASSUME Typed, NotesQueued, [Next]_vars, NEW p \in DOMAIN fs
    PROVE  \/ p \in DOMAIN fs' /\ fs'[p] = fs[p]
           \/ p \in blurred'
           \/ /\ p \notin DOMAIN fs' /\ (Coming(p) => p \in blurred')
              /\ \A fd \in Holding(fs[p].ino) : "DELETE" \in fds'[fd].notes
<1>1. CASE UNCHANGED <<fs, blurred>>
  BY <1>1
<1>2. CASE Environment
  <2>1. DiskChanges /\ blurred' = blurred \cup Blurred
    BY <1>2 DEF Environment
  <2>2. \/ p \in Blurred
        \/ p \in DOMAIN fs' /\ fs'[p] = fs[p]
        \/ p \notin DOMAIN fs' /\ \A fd \in Holding(fs[p].ino) : "DELETE" \in fds'[fd].notes
    BY <2>1, DiskTells DEF Typed
  <2>3. p \notin DOMAIN fs' /\ Coming(p) => p \in Blurred
    BY DEF Blurred
  <2> QED BY <2>1, <2>2, <2>3
<1> QED BY <1>1, <1>2, BackendLeavesDisk

----------------------------------------------------------------------------
(* The descriptor is one of what is at the path now. *)
Followed(p, fd) == Exists(p) /\ fds[fd].ino = fs[p].ino

(* Until Close, an addPath under way has a descriptor of what is at its path
   now, registered with the kqueue when the node is entered, or is blurry. *)
FlightsFollowed ==
    ~closed => \A w \in Walkers : adding[w].step # "none" =>
                 \/ Blurry(adding[w].path)
                 \/ /\ Followed(adding[w].path, adding[w].fd)
                    /\ adding[w].step = "enter" => fds[adding[w].fd].armed

LEMMA FlightSteps ==
    ASSUME Typed, [Next]_vars, NEW w \in Walkers, adding'[w].step # "none"
    PROVE  adding'[w] = adding[w] \/ AddOpens(w) \/ AddArm(w)
<1>0. adding \in [Walkers -> AddRec] /\ NoAdd.step = "none"
  BY DEF Typed, WalksTyped, NoAdd
<1>1. CASE UNCHANGED adding
  BY <1>1
<1>2. ASSUME NEW v \in Walkers, WalkStep(v)
      PROVE  adding'[w] = adding[w] \/ AddOpens(w) \/ AddArm(w)
  <2>1. CASE AddOpens(v)
    <3>1. PICK rec : adding' = [adding EXCEPT ![v] = rec]
      BY <2>1 DEF AddOpens
    <3> QED BY <1>0, <2>1, <3>1
  <2>2. CASE AddArm(v)
    <3>1. adding' = [adding EXCEPT ![v].step = "enter"]
      BY <2>2 DEF AddArm
    <3> QED BY <1>0, <2>2, <3>1
  <2>3. CASE adding' = [adding EXCEPT ![v] = NoAdd]
    BY <1>0, <2>3
  <2> QED BY <1>1, <1>2, <2>1, <2>2, <2>3 DEF WalkStep, Lstat, WalkExcluded, ReadDir, AddNothing, AddShared,
             AddFails, EnterOrphan, EnterShared, EnterNew, Abort, Entered, Visited
<1>3. ASSUME NEW c \in Callers, Call(c), ~WalkStep(c) PROVE UNCHANGED adding
  BY <1>3 DEF Call, AddRegister, AddReturns, AddCleanup, RemoveRoot, CloseBegins, CloseReturns, StartWalk, walkVars
<1>4. ASSUME RunStep, ~WalkStep(Run) PROVE UNCHANGED adding
  BY <1>4 DEF RunStep, Wait, Exit, HandleUnknown, HandleGone, HandleChanged, RemoveGone, RescanSkips,
     RescanBegins, RescanReads, RescanRename, RescanRemove, RescanCreate, EnrollFor, Enrolled, RescanEnds,
     StartWalk, walkVars
<1>5. ASSUME Environment \/ UNCHANGED vars PROVE UNCHANGED adding
  BY <1>5 DEF Environment, vars, walkVars
<1> QED BY <1>1, <1>2, <1>3, <1>4, <1>5 DEF Next, Walkers

LEMMA FlightsStay ==
    ASSUME Typed, NotesQueued, DescriptorsAreHeld, FlightsFollowed, [Next]_vars, DescriptorsAreHeld', Typed'
    PROVE  FlightsFollowed'
<1> SUFFICES ASSUME ~closed', NEW w \in Walkers, adding'[w].step # "none"
             PROVE  \/ Blurry(adding[w].path)'
                    \/ /\ Followed(adding[w].path, adding[w].fd)'
                       /\ adding'[w].step = "enter" => fds'[adding'[w].fd].armed
  BY DEF FlightsFollowed
<1>0. ~closed
  BY StepChanges DEF StepEffect, Closes
<1>1. CASE AddOpens(w)
  <2>1. PICK e : Exists(e.path) /\ Open(e.path)
                 /\ adding' = [adding EXCEPT ![w] = [step |-> "arm", path |-> e.path,
                                                     isDir |-> e.isDir, fd |-> LowestFree]]
    BY <1>1 DEF AddOpens
  <2>2. adding'[w].step = "arm" /\ adding'[w].path = e.path /\ adding'[w].fd = LowestFree
    BY <2>1 DEF Typed, WalksTyped
  <2>3. fds'[LowestFree].ino = fs[e.path].ino /\ fs' = fs
    BY <2>1 DEF Open
  <2> QED BY <2>1, <2>2, <2>3 DEF Followed, Exists

<1>3. adding'[w].fd \in DOMAIN fds'
  BY DEF DescriptorsAreHeld, InFlight
<1>4. CASE AddArm(w)
  <2>1. /\ adding[w].step = "arm" /\ Arm(adding[w].fd) /\ UNCHANGED blurred
        /\ adding' = [adding EXCEPT ![w].step = "enter"]
    BY <1>4 DEF AddArm, history
  <2>2. adding'[w].path = adding[w].path /\ adding'[w].fd = adding[w].fd
    BY <2>1 DEF Typed, WalksTyped, AddRec
  <2>3. adding[w].fd \in DOMAIN fds /\ fds[adding[w].fd] \in FdRec
    BY <2>1 DEF DescriptorsAreHeld, InFlight, Typed, FdsTyped
  <2>4. fds'[adding[w].fd].ino = fds[adding[w].fd].ino /\ fds'[adding[w].fd].armed /\ fs' = fs
    BY <2>1, <2>3 DEF Arm, FdRec
  <2>5. Blurry(adding[w].path) \/ Followed(adding[w].path, adding[w].fd)
    BY <1>0, <2>1 DEF FlightsFollowed
  <2> QED BY <2>1, <2>2, <2>4, <2>5 DEF Followed, Exists, Blurry
<1>5. CASE adding'[w] = adding[w]
  <2>p. PICK p, fd : p = adding[w].path /\ fd = adding[w].fd
    OBVIOUS
  <2>1. fd \in DOMAIN fds /\ fd \in DOMAIN fds' /\ p \in AllPaths
    BY <1>3, <1>5, <2>p DEF DescriptorsAreHeld, InFlight, Typed, WalksTyped, AddRec
  <2>2. Coming(p)
    BY <2>p DEF Coming
  <2>3. \/ Blurry(p)
        \/ p \in DOMAIN fs /\ fds[fd].ino = fs[p].ino /\ (adding[w].step = "enter" => fds[fd].armed)
    BY <1>0, <1>5, <2>p DEF FlightsFollowed, Followed, Exists
  <2>4. fds'[fd].ino = fds[fd].ino /\ (fds[fd].armed => fds'[fd].armed)
    BY <2>1, FdsStay
  <2>5. p \in DOMAIN fs => (p \in DOMAIN fs' /\ fs'[p] = fs[p]) \/ p \in blurred'
    BY <2>2, FilesStay
  <2>6. (Blurry(p) => Blurry(p)') /\ (p \in blurred' => Blurry(p)')
    <3>1. p \in SelfAndAncestors(p)
      BY <2>1, OwnAncestor
    <3> QED BY <3>1, BlurGrows DEF Blurry
  <2>7. \/ Blurry(p)'
        \/ p \in DOMAIN fs' /\ fds'[fd].ino = fs'[p].ino /\ (adding[w].step = "enter" => fds'[fd].armed)
    BY <2>3, <2>4, <2>5, <2>6
  <2> QED BY <1>5, <2>p, <2>7 DEF Followed, Exists, Blurry
<1> QED BY <1>1, <1>4, <1>5, FlightSteps

----------------------------------------------------------------------------
(* Announcements: a note that a path is gone waits with its descriptor, then
   in the batch, and then is being handled. *)
BatchRec   == [fd : Nat, ino : Tree \X Nat, notes : SUBSET Notes]
BatchTyped == batch \in Seq(BatchRec)

Announced(p, fd) ==
    \/ fds[fd].notes \cap {"DELETE", "RENAME"} # {}
    \/ \E i \in DOMAIN batch : batch[i].fd = fd /\ IsGone(batch[i])
    \/ runPc = "gone" /\ gone.path = p

LEMMA BatchSteps ==
    ASSUME Typed, [Next]_vars
    PROVE  \/ UNCHANGED batch /\ (runPc = "gone" => UNCHANGED <<runPc, gone>>)
           \/ Wait \/ HandleUnknown \/ HandleGone \/ HandleChanged \/ RemoveGone
<1> DEFINE Goal == \/ UNCHANGED batch /\ (runPc = "gone" => UNCHANGED <<runPc, gone>>)
                   \/ Wait \/ HandleUnknown \/ HandleGone \/ HandleChanged \/ RemoveGone
<1>1. CASE UNCHANGED <<runPc, batch, gone>>
  BY <1>1
<1>2. ASSUME NEW w \in Walkers, WalkStep(w) PROVE Goal
  BY <1>1, <1>2, WalkStepTyped DEF Typed, runVars
<1>3. ASSUME NEW c \in Callers, Call(c) PROVE Goal
  BY <1>1, <1>2, <1>3 DEF Call, AddRegister, AddReturns, AddCleanup, RemoveRoot, CloseBegins, CloseReturns,
     runVars, Walkers
<1>4. CASE RunStep
  BY <1>2, <1>4 DEF RunStep, Exit, RescanSkips, RescanBegins, RescanReads, RescanRename, RescanRemove,
     RescanCreate, EnrollFor, Enrolled, RescanEnds, At, Walkers
<1>5. CASE Environment \/ UNCHANGED vars
  BY <1>1, <1>5 DEF Environment, vars, runVars
<1> QED BY <1>3, <1>4, <1>5 DEF Next

LEMMA TakenTyped ==
    ASSUME FdsTyped
    PROVE  /\ Taken \in Seq(BatchRec) /\ DOMAIN Taken = DOMAIN queue
           /\ \A i \in DOMAIN queue : Taken[i].fd = queue[i] /\ Taken[i].notes = fds[queue[i]].notes
<1>1. \A i \in DOMAIN queue : queue[i] \in DOMAIN fds /\ fds[queue[i]] \in FdRec /\ queue[i] \in Nat
  BY DEF FdsTyped
<1>2. \A i \in DOMAIN queue : [fd |-> queue[i], ino |-> fds[queue[i]].ino, notes |-> fds[queue[i]].notes]
                              \in BatchRec
  BY <1>1 DEF FdRec, BatchRec
<1>3. DOMAIN queue = 1 .. Len(queue) /\ Len(queue) \in Nat
  BY DEF FdsTyped
<1> QED BY <1>2, <1>3 DEF Taken

LEMMA BatchStaysTyped ==
    ASSUME Typed, BatchTyped, [Next]_vars
    PROVE  BatchTyped'
<1>1. CASE UNCHANGED batch
  BY <1>1 DEF BatchTyped
<1>2. CASE Wait
  BY <1>2, TakenTyped DEF Wait, BatchTyped, Typed
<1>3. CASE HandleUnknown \/ HandleGone \/ HandleChanged
  <2>1. batch # <<>> /\ batch' = Tail(batch)
    BY <1>3 DEF HandleUnknown, HandleGone, HandleChanged, Handles
  <2> QED BY <2>1 DEF BatchTyped
<1>4. CASE RemoveGone
  BY <1>1, <1>4 DEF RemoveGone
<1> QED BY <1>1, <1>2, <1>3, <1>4, BatchSteps

(* While its path is watched, an announcement is passed on. *)
LEMMA AnnouncementStays ==
    ASSUME Typed, BatchTyped, NotesQueued, Agreed, [Next]_vars, ~closed', Undisplaced',
           NEW p \in Tree, NEW fd, p \in DOMAIN watched, p \in DOMAIN watched', watched[p].fd = fd,
           fd \in DOMAIN fds, fd \in DOMAIN fds', Announced(p, fd)
    PROVE  Announced(p, fd)'
<1>0. ~closed /\ mishaps \subseteq mishaps'
  BY StepChanges DEF StepEffect, Closes
<1>1. PathOf(fd) = p /\ p # NoPath
  <2>1. DOMAIN fdToPath = WatchedFds /\ fdToPath[fd] = p
    BY <1>0 DEF Agreed, TablesAgree, Undisplaced
  <2> QED BY <2>1, DarwinAssumption DEF PathOf, WatchedFds
<1>2. CASE fds[fd].notes \cap {"DELETE", "RENAME"} # {}
  <2>1. CASE Wait
    <3>1. PICK i \in DOMAIN queue : queue[i] = fd
      BY <1>2 DEF NotesQueued
    <3>2. batch' = Taken
      BY <2>1 DEF Wait
    <3>3. i \in DOMAIN batch' /\ batch'[i].fd = fd /\ batch'[i].notes = fds[fd].notes
      BY <3>1, <3>2, TakenTyped DEF Typed
    <3> QED BY <1>2, <3>3 DEF Announced, IsGone
  <2>2. CASE ~Wait
    <3>1. fds[fd].notes \subseteq fds'[fd].notes
      BY <2>2, FdsStay
    <3> QED BY <1>2, <3>1 DEF Announced
  <2> QED BY <2>1, <2>2
<1>3. ASSUME NEW i \in DOMAIN batch, batch[i].fd = fd, IsGone(batch[i]) PROVE Announced(p, fd)'
  <2>0. batch # <<>> /\ ~Wait
    <3>1. DOMAIN <<>> = {}
      OBVIOUS
    <3> QED BY <1>3, <3>1 DEF Wait
  <2>1. CASE UNCHANGED batch
    BY <1>3, <2>1 DEF Announced, IsGone
  <2>2. CASE HandleUnknown \/ HandleGone \/ HandleChanged
    <3>1. batch' = Tail(batch)
      BY <2>2 DEF HandleUnknown, HandleGone, HandleChanged, Handles
    <3>2. CASE i # 1
      <4>1. i - 1 \in DOMAIN Tail(batch) /\ Tail(batch)[i - 1] = batch[i]
        BY <1>3, <2>0, <3>2 DEF BatchTyped
      <4> QED BY <1>3, <3>1, <4>1 DEF Announced, IsGone
    <3>3. CASE i = 1
      <4>1. HandleGone
        BY <1>1, <1>3, <2>2, <3>3 DEF HandleUnknown, HandleChanged, Handles
      <4>2. PICK note, path : /\ Handles(note, path) /\ runPc' = "gone"
                              /\ gone' = [path |-> path, ino |-> note.ino, isDir |-> watched[path].isDir]
        BY <4>1 DEF HandleGone
      <4>3. path = p
        BY <1>1, <1>3, <3>3, <4>2 DEF Handles
      <4>4. runPc' = "gone" /\ gone'.path = p
        BY <4>2, <4>3
      <4> QED BY <4>4 DEF Announced
    <3> QED BY <3>2, <3>3
  <2>3. CASE RemoveGone
    BY <2>1, <2>3 DEF RemoveGone
  <2> QED BY <2>0, <2>1, <2>2, <2>3, BatchSteps
<1>4. CASE runPc = "gone" /\ gone.path = p
  <2>1. ~(Wait \/ HandleUnknown \/ HandleGone \/ HandleChanged)
    BY <1>4 DEF Wait, HandleUnknown, HandleGone, HandleChanged, Handles, At
  <2>2. ~RemoveGone
    <3>1. ASSUME RemoveGone PROVE FALSE
      <4>1. PICK dead, mishap : /\ Unregister(dead, mishap)
                                /\ dead = IF gone.isDir THEN AtOrBelow(gone.path)
                                          ELSE {gone.path} \cap DOMAIN watched
        BY <3>1 DEF RemoveGone
      <4>2. p \in dead
        BY <1>4, <4>1 DEF AtOrBelow, HasPathPrefix
      <4>3. p \notin DOMAIN watched'
        BY <4>1, <4>2 DEF Unregister, Without, Restrict
      <4> QED BY <4>3
    <3> QED BY <3>1
  <2> QED BY <1>4, <2>1, <2>2, BatchSteps DEF Announced
<1> QED BY <1>2, <1>3, <1>4 DEF Announced

LEMMA NodesStay ==
    ASSUME Typed, InodesAtHome, [Next]_vars, ~closed', NEW p \in DOMAIN watched'
    PROVE  \/ p \in DOMAIN watched /\ watched'[p].fd = watched[p].fd
           \/ \E w \in Walkers : Enters(w) /\ p = adding[w].path /\ watched'[p].fd = adding[w].fd
           \/ Blurry(p)
<1>1. StepEffect
  BY StepChanges
<1>2. ASSUME NEW dead, Frees(dead) PROVE p \in DOMAIN watched /\ watched'[p].fd = watched[p].fd
  BY <1>2 DEF Frees, Strips
<1>3. ASSUME NEW w \in Walkers, Opens(w) \/ Drops(w)
      PROVE  p \in DOMAIN watched /\ watched'[p].fd = watched[p].fd
  BY <1>3 DEF Opens, Drops
<1>4. ASSUME NEW w \in Walkers, Enters(w)
      PROVE  \/ p \in DOMAIN watched /\ watched'[p].fd = watched[p].fd
             \/ p = adding[w].path /\ watched'[p].fd = adding[w].fd
  BY <1>4 DEF Enters, Put
<1>5. ASSUME NEW go, Renames(go)
      PROVE  Blurry(p) \/ (p \in DOMAIN watched /\ watched'[p].fd = watched[p].fd)
  <2>1. PICK pr \in Pairs : go = Goes(pr)
    BY <1>5 DEF Renames
  <2>2. \A q \in DOMAIN go : Blurry(go[q])
    BY <1>5, <2>1, RenamesAreBlurry DEF Renames
  <2>3. Carries(watched, watched', go)
    BY <1>5 DEF Renames, RenamesTables
  <2> QED BY <2>2, <2>3 DEF Carries, Landed
<1>6. CASE Ends
  BY <1>6 DEF Ends
<1> QED BY <1>1, <1>2, <1>3, <1>4, <1>5, <1>6 DEF StepEffect, NodesChange, Closes

(* Until Close, and unless a rename has overwritten a node or carried a
   directory for a file: a watched path that is not blurry has a descriptor,
   registered with the kqueue, of what is there now, or that this is gone has
   been announced. *)
WatchesFollowed ==
    ~closed /\ Undisplaced =>
       \A p \in DOMAIN watched :
          \/ Blurry(p)
          \/ /\ p \in Tree /\ fds[watched[p].fd].armed
             /\ Followed(p, watched[p].fd) \/ Announced(p, watched[p].fd)

LEMMA FollowedStay ==
    ASSUME Typed, BatchTyped, NotesQueued, DescriptorsAreHeld, Agreed, InodesAtHome, FlightsFollowed,
           WatchesFollowed, [Next]_vars, Typed', DescriptorsAreHeld'
    PROVE  WatchesFollowed'
<1> SUFFICES ASSUME ~closed', Undisplaced', NEW p \in DOMAIN watched'
             PROVE  \/ Blurry(p)'
                    \/ /\ p \in Tree /\ fds'[watched'[p].fd].armed
                       /\ Followed(p, watched[p].fd)' \/ Announced(p, watched[p].fd)'
  BY DEF WatchesFollowed
<1>0. ~closed /\ Undisplaced
  BY StepChanges DEF StepEffect, Closes, Undisplaced
<1>1. (Blurry(p) => Blurry(p)') /\ (p \in blurred' => Blurry(p)')
  <2>1. p \in SelfAndAncestors(p)
    BY OwnAncestor DEF Typed, TablesTyped
  <2> QED BY <2>1, BlurGrows DEF Blurry
<1>2. ASSUME NEW w \in Walkers, Enters(w), p = adding[w].path, watched'[p].fd = adding[w].fd, ~Blurry(p)
      PROVE  p \in Tree /\ fds'[watched'[p].fd].armed /\ Followed(p, watched[p].fd)'
  <2>1. Followed(p, adding[w].fd) /\ fds[adding[w].fd].armed /\ UNCHANGED <<fs, fds>>
    BY <1>0, <1>2 DEF Enters, FlightsFollowed
  <2> QED BY <1>2, <2>1 DEF Followed, Exists, Typed, FilesTyped
<1>3. ASSUME p \in DOMAIN watched, watched'[p].fd = watched[p].fd, ~Blurry(p)'
      PROVE  /\ p \in Tree /\ fds'[watched'[p].fd].armed
             /\ Followed(p, watched[p].fd)' \/ Announced(p, watched[p].fd)'
  <2>1. PICK fd : fd = watched[p].fd
    OBVIOUS
  <2>2. fd \in DOMAIN fds /\ fd \in DOMAIN fds' /\ watched'[p].fd = fd
    BY <1>3, <2>1 DEF DescriptorsAreHeld, WatchedFds
  <2>3. /\ p \in Tree /\ fds[fd].armed
        /\ (p \in DOMAIN fs /\ fds[fd].ino = fs[p].ino) \/ Announced(p, fd)
    BY <1>0, <1>1, <1>3, <2>1 DEF WatchesFollowed, Followed, Exists
  <2>4. fds'[fd].ino = fds[fd].ino /\ fds'[fd].armed
    BY <2>2, <2>3, FdsStay
  <2>5. CASE Announced(p, fd)
    <3>1. Announced(p, fd)'
      BY <1>3, <2>1, <2>2, <2>3, <2>5, AnnouncementStays
    <3> QED BY <2>2, <2>3, <2>4, <3>1 DEF Announced
  <2>6. CASE p \in DOMAIN fs /\ fds[fd].ino = fs[p].ino
    <3>1. fd \in Holding(fs[p].ino)
      BY <2>2, <2>3, <2>6 DEF Holding
    <3>2. \/ p \in DOMAIN fs' /\ fs'[p] = fs[p]
          \/ "DELETE" \in fds'[fd].notes
      BY <1>1, <1>3, <2>6, <3>1, FilesStay
    <3> QED BY <2>2, <2>3, <2>4, <2>6, <3>2 DEF Followed, Exists, Announced
  <2> QED BY <2>3, <2>5, <2>6
<1> QED BY <1>1, <1>2, <1>3, NodesStay

----------------------------------------------------------------------------
Following == BatchTyped /\ NotesQueued /\ InodesAtHome /\ FlightsFollowed /\ WatchesFollowed

LEMMA FollowingInit == Init => Following
<1> SUFFICES ASSUME Init PROVE Following
  OBVIOUS
<1>1. /\ fs = [p \in Initial |-> [ino |-> <<p, 0>>, isDir |-> p = <<>> \/ Last(p) \in DirNames]]
      /\ fds = <<>> /\ batch = <<>> /\ snapshots = <<>> /\ runPc = "next" /\ watched = <<>>
      /\ adding = [w \in Walkers |-> NoAdd]
  BY DEF Init, KqueueInit
<1>2. DOMAIN fds = {} /\ DOMAIN snapshots = {} /\ DOMAIN watched = {} /\ batch \in Seq(BatchRec)
  BY <1>1
<1>3. \A w \in Walkers : adding[w].step = "none"
  BY <1>1 DEF NoAdd
<1>4. FilesAtHome
  BY <1>1 DEF FilesAtHome, AtHome
<1>5. SnapshotsAtHome /\ RescanAtHome
  BY <1>1, <1>2 DEF SnapshotsAtHome, RescanAtHome
<1> QED BY <1>2, <1>3, <1>4, <1>5
        DEF Following, BatchTyped, NotesQueued, InodesAtHome, FlightsFollowed, WatchesFollowed

LEMMA FollowingStep ==
    ASSUME Typed, DescriptorsAreHeld, Agreed, Following, [Next]_vars, Typed', DescriptorsAreHeld'
    PROVE  Following'
<1> USE DEF Following
<1>1. BatchTyped' /\ NotesQueued' /\ InodesAtHome'
  BY BatchStaysTyped, NotesStayQueued, HomesStay
<1>2. FlightsFollowed' /\ WatchesFollowed'
  BY FlightsStay, FollowedStay
<1> QED BY <1>1, <1>2

(* When all that has happened was handled, a watched path that nothing has
   spoilt exists, and its descriptor is one of what is there now. *)
THEOREM WatchesStayTrue == Spec => []WatchesAreTrue
<1>1. Spec => []Agreed
  BY AgreedInit, AgreedStep, TypesInvariant, DescriptorsStayHeld, PTL DEF Spec
<1>2. Spec => []Following
  BY <1>1, FollowingInit, FollowingStep, TypesInvariant, DescriptorsStayHeld, PTL DEF Spec
<1>3. Typed /\ DescriptorsAreHeld /\ Following => WatchesAreTrue
  <2> SUFFICES ASSUME Typed, DescriptorsAreHeld, Following, Quiet, NEW p \in DOMAIN watched, ~Spoilt(p)
               PROVE  Exists(p) /\ fds[watched[p].fd].ino = fs[p].ino
    BY DEF WatchesAreTrue
  <2>1. ~Blurry(p) /\ Undisplaced /\ ~closed
    BY DEF Spoilt, Blurry, Undisplaced, Quiet
  <2>2. Followed(p, watched[p].fd) \/ Announced(p, watched[p].fd)
    BY <2>1 DEF Following, WatchesFollowed
  <2>3. ~Announced(p, watched[p].fd)
    <3>1. queue = <<>> /\ batch = <<>> /\ runPc = "next"
      BY DEF Quiet, At
    <3>2. DOMAIN queue = {} /\ DOMAIN batch = {}
      BY <3>1
    <3>3. fds[watched[p].fd].notes = {}
      BY <3>2 DEF Following, NotesQueued, DescriptorsAreHeld, WatchedFds
    <3> QED BY <3>1, <3>2, <3>3 DEF Announced
  <2> QED BY <2>2, <2>3 DEF Followed
<1> QED BY <1>2, <1>3, TypesInvariant, DescriptorsStayHeld, PTL
=============================================================================
