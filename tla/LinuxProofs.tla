---------------------------- MODULE LinuxProofs ----------------------------
(***************************************************************************)
(* The tables of the Linux backend, proved for any tree, callers, targets, *)
(* changes on disk and length of the kernel's queue.  That the tables      *)
(* agree with each other and with the kernel holds where nothing is        *)
(* renamed (NoRenames), and is false otherwise; that the roots can release *)
(* every node holds with renames too.                                      *)
(***************************************************************************)
EXTENDS LinuxProperties, RootIndexProofs

----------------------------------------------------------------------------
(* Paths and events. *)

Components == UNION {{path[i] : i \in DOMAIN path} : path \in Tree}
AllPaths   == Path(Components)

(* What the kernel may put into the queue; renames only where there are any. *)
Kinds == {"CREATE", "DELETE", "DELETE_SELF", "MODIFY", "ATTRIB"}
         \cup (IF "move" \in Changes THEN {"MOVED_FROM", "MOVED_TO", "MOVE_SELF"} ELSE {})

Notices == [kind : Kinds, wd : Nat, name : Components \cup {NoName}, isDir : BOOLEAN,
            cookie : Nat]
Ignores == [kind : {"IGNORED"}, wd : Nat, name : {NoName}, isDir : {FALSE}, cookie : {0}]
Raws    == Notices \cup Ignores \cup {RawOverflow}

LEMMA TreeIsPath == Tree \subseteq AllPaths
<1>1. ASSUME NEW path \in Tree PROVE path \in AllPaths
  <2>1. IsPath(path)
    BY InotifyAssumption
  <2>2. path \in Seq({path[i] : i \in DOMAIN path}) /\ DOMAIN path = 1 .. Len(path) /\ Len(path) \in Nat
    BY <2>1 DEF IsPath
  <2>3. \A i \in 1 .. Len(path) : path[i] \in Components
    BY <2>2 DEF Components
  <2>4. path = [i \in 1 .. Len(path) |-> path[i]]
    BY <2>2
  <2> QED BY <2>2, <2>3, <2>4 DEF AllPaths, Path
<1> QED BY <1>1

LEMMA LastIsComponent ==
    ASSUME NEW path \in Tree, path # <<>>
    PROVE  Last(path) \in Components /\ Append(ParentDir(path), Last(path)) = path
<1>1. path \in Seq(Components)
  BY TreeIsPath DEF AllPaths, Path
<1>2. Len(path) \in DOMAIN path /\ path[Len(path)] \in Components
  BY <1>1
<1>3. Append(SubSeq(path, 1, Len(path) - 1), path[Len(path)]) = path
  BY <1>1, AppendProperties
<1> QED BY <1>2, <1>3 DEF Last, ParentDir

LEMMA RootExists == <<>> \in InitialDirs /\ <<>> \in Tree /\ <<>> \in AllPaths
BY InotifyAssumption, TreeIsPath

(* it[s]: the queue after the events of raws whose positions are in s. *)
OneByOne(it, queue, raws) ==
    /\ it[{}] = queue /\ EnqueuedAll(queue, raws) = it[1 .. Len(raws)]
    /\ \A s \in SUBSET (1 .. Len(raws)) :
         s # {} => it[s] = Enqueued(it[s \ {Max(s)}], raws[Max(s)])

LEMMA EnqueuedOneByOne ==
    ASSUME NEW G, RawOverflow \in G, NEW queue \in Seq(G), NEW raws \in Seq(G)
    PROVE  \E it : OneByOne(it, queue, raws)
<1> DEFINE Q == Seq(G)
           N == Len(raws)
           F == [x \in (1 .. N) \X Q |-> Enqueued(x[2], raws[x[1]])]
           Step(it) == [s \in SUBSET DOMAIN raws |->
                          IF s = {} THEN queue ELSE Enqueued(it[s \ {Max(s)}], raws[Max(s)])]
<1>1. N \in Nat /\ DOMAIN raws = 1 .. N
  OBVIOUS
<1>2. ASSUME NEW q \in Q, NEW i \in 1 .. N PROVE Enqueued(q, raws[i]) \in Q
  BY <1>1 DEF Enqueued
<1>3. F \in [(1 .. N) \X Q -> Q]
  BY <1>2
<1> HIDE DEF Q, F
<1>4. PICK g \in [SUBSET (1 .. N) -> Q] : Folds(g, N, queue, F)
  BY <1>1, <1>3, FoldExists DEF Q
<1>5. ASSUME NEW s \in SUBSET (1 .. N), s # {}
      PROVE  Max(s) \in 1 .. N /\ s \ {Max(s)} \in SUBSET (1 .. N)
  BY <1>1, <1>5, GreatestOfPositions
<1>6. g = Step(g)
  <2>1. ASSUME NEW s \in SUBSET (1 .. N), s # {}
        PROVE  g[s] = Enqueued(g[s \ {Max(s)}], raws[Max(s)])
    <3>1. g[s] = F[<<Max(s), g[s \ {Max(s)}]>>]
      BY <1>4, <2>1 DEF Folds
    <3>2. <<Max(s), g[s \ {Max(s)}]>> \in (1 .. N) \X Q
      BY <1>4, <1>5, <2>1
    <3> QED BY <3>1, <3>2 DEF F
  <2>2. g[{}] = queue
    BY <1>4 DEF Folds
  <2> QED BY <1>1, <1>4, <2>1, <2>2
<1>7. PICK it : it = Step(it) /\ EnqueuedAll(queue, raws) = it[DOMAIN raws]
  <2>1. EnqueuedAll(queue, raws) = (CHOOSE it : it = Step(it))[DOMAIN raws]
    BY DEF EnqueuedAll, FoldLeft, MapThenFoldSet
  <2> QED BY <1>6, <2>1
<1>8. it[{}] = queue
  BY <1>7
<1>9. ASSUME NEW s \in SUBSET (1 .. N), s # {}
      PROVE  it[s] = Enqueued(it[s \ {Max(s)}], raws[Max(s)])
  <2>1. s \in SUBSET DOMAIN raws
    BY <1>1
  <2> QED BY <1>7, <1>9, <2>1
<1> HIDE DEF Step
<1> QED BY <1>1, <1>7, <1>8, <1>9 DEF OneByOne

(* An event is lost to an overflow only, and that stands in the queue. *)
LEMMA EnqueuedKeeps ==
    ASSUME NEW G, NEW q \in Seq(G), NEW raw \in G, RawOverflow \in G
    PROVE  /\ Enqueued(q, raw) \in Seq(G)
           /\ \A e : Contains(q, e) => Contains(Enqueued(q, raw), e)
           /\ Contains(Enqueued(q, raw), RawOverflow) \/ Contains(Enqueued(q, raw), raw)
<1>1. ASSUME NEW e \in G
      PROVE  /\ Append(q, e) \in Seq(G) /\ Contains(Append(q, e), e)
             /\ \A d : Contains(q, d) => Contains(Append(q, e), d)
  <2>1. /\ Append(q, e) \in Seq(G) /\ Len(q) \in Nat /\ Len(Append(q, e)) = Len(q) + 1
        /\ Append(q, e)[Len(q) + 1] = e
        /\ \A i \in 1 .. Len(q) : Append(q, e)[i] = q[i]
    OBVIOUS
  <2> QED BY <2>1 DEF Contains
<1>2. q # <<>> => Contains(q, Last(q))
  <2>1. q # <<>> => Len(q) \in 1 .. Len(q)
    OBVIOUS
  <2> QED BY <2>1 DEF Contains, Last
<1>3. \/ Enqueued(q, raw) = q /\ (Contains(q, raw) \/ Contains(q, RawOverflow))
      \/ Enqueued(q, raw) = Append(q, RawOverflow)
      \/ Enqueued(q, raw) = Append(q, raw)
  BY <1>2 DEF Enqueued
<1> QED BY <1>1, <1>3

(* What is enqueued is what was in the queue, what is new, or the overflow. *)
LEMMA EnqueuedAllTyped ==
    ASSUME NEW G, RawOverflow \in G, NEW queue \in Seq(G), NEW raws \in Seq(G)
    PROVE  EnqueuedAll(queue, raws) \in Seq(G)
<1> DEFINE N == Len(raws)
<1>1. N \in Nat /\ DOMAIN raws = 1 .. N
  OBVIOUS
<1>2. PICK it : OneByOne(it, queue, raws)
  BY EnqueuedOneByOne
<1>3. /\ it[{}] = queue /\ EnqueuedAll(queue, raws) = it[1 .. N]
      /\ \A s \in SUBSET (1 .. N) :
           s # {} => it[s] = Enqueued(it[s \ {Max(s)}], raws[Max(s)])
  BY <1>2 DEF OneByOne
<1>4. ASSUME NEW s \in SUBSET (1 .. N), s # {}
      PROVE  Max(s) \in s /\ Max(s) \in 1 .. N /\ raws[Max(s)] \in G
  <2>1. Max(s) \in s
    BY <1>1, <1>4, GreatestOfPositions
  <2>2. \A i \in 1 .. N : raws[i] \in G
    OBVIOUS
  <2> QED BY <2>1, <2>2
<1>5. ASSUME NEW s \in SUBSET (1 .. N), s # {}, it[s \ {Max(s)}] \in Seq(G)
      PROVE  it[s] \in Seq(G)
  <2> DEFINE q == it[s \ {Max(s)}]
             raw == raws[Max(s)]
  <2>1. it[s] = Enqueued(q, raw) /\ raw \in G /\ q \in Seq(G)
    BY <1>3, <1>4, <1>5
  <2> HIDE DEF q, raw
  <2> QED BY <2>1, EnqueuedKeeps
<1>6. it[1 .. N] \in Seq(G)
  BY <1>1, <1>3, <1>5, FoldStays
<1> QED BY <1>3, <1>6

LEMMA NothingIsLost ==
    ASSUME NEW G, RawOverflow \in G, NEW queue \in Seq(G), NEW raws \in Seq(G)
    PROVE  /\ \A raw : Contains(queue, raw) => Contains(EnqueuedAll(queue, raws), raw)
           /\ ~Contains(EnqueuedAll(queue, raws), RawOverflow) =>
                \A i \in 1 .. Len(raws) : Contains(EnqueuedAll(queue, raws), raws[i])
<1> DEFINE N == Len(raws)
           Q == {pair \in (SUBSET (1 .. N)) \X Seq(G) :
                   /\ \A raw : Contains(queue, raw) => Contains(pair[2], raw)
                   /\ \/ Contains(pair[2], RawOverflow)
                      \/ \A i \in pair[1] : Contains(pair[2], raws[i])}
<1>1. N \in Nat /\ DOMAIN raws = 1 .. N
  OBVIOUS
<1>2. PICK it : OneByOne(it, queue, raws)
  BY EnqueuedOneByOne
<1>3. /\ it[{}] = queue /\ EnqueuedAll(queue, raws) = it[1 .. N]
      /\ \A s \in SUBSET (1 .. N) :
           s # {} => it[s] = Enqueued(it[s \ {Max(s)}], raws[Max(s)])
  BY <1>2 DEF OneByOne
<1>4. ASSUME NEW s \in SUBSET (1 .. N), s # {}
      PROVE  Max(s) \in s /\ Max(s) \in 1 .. N /\ raws[Max(s)] \in G
  <2>1. Max(s) \in s
    BY <1>1, <1>4, GreatestOfPositions
  <2>2. \A i \in 1 .. N : raws[i] \in G
    OBVIOUS
  <2> QED BY <2>1, <2>2
<1> DEFINE h == [s \in SUBSET (1 .. N) |-> <<s, it[s]>>]
<1>5. ASSUME NEW s \in SUBSET (1 .. N), s # {}, h[s \ {Max(s)}] \in Q
      PROVE  h[s] \in Q
  <2> DEFINE r == it[s \ {Max(s)}]
  <2>1. Max(s) \in s /\ Max(s) \in 1 .. N /\ raws[Max(s)] \in G
    BY <1>4, <1>5
  <2>2. h[s \ {Max(s)}] = <<s \ {Max(s)}, r>> /\ h[s] = <<s, Enqueued(r, raws[Max(s)])>>
    BY <1>3, <1>4, <1>5
  <2>3. /\ r \in Seq(G) /\ \A raw : Contains(queue, raw) => Contains(r, raw)
        /\ Contains(r, RawOverflow) \/ \A i \in s \ {Max(s)} : Contains(r, raws[i])
    BY <1>5, <2>2
  <2> HIDE DEF r
  <2>4. /\ Enqueued(r, raws[Max(s)]) \in Seq(G)
        /\ \A e : Contains(r, e) => Contains(Enqueued(r, raws[Max(s)]), e)
        /\ \/ Contains(Enqueued(r, raws[Max(s)]), RawOverflow)
           \/ Contains(Enqueued(r, raws[Max(s)]), raws[Max(s)])
    BY <2>1, <2>3, EnqueuedKeeps
  <2>5. \/ Contains(Enqueued(r, raws[Max(s)]), RawOverflow)
        \/ \A i \in s : Contains(Enqueued(r, raws[Max(s)]), raws[i])
    BY <2>3, <2>4
  <2> QED BY <2>2, <2>3, <2>4, <2>5
<1>6. h[{}] \in Q
  BY <1>3
<1> HIDE DEF h, Q
<1>7. h[1 .. N] \in Q
  BY <1>1, <1>5, <1>6, FoldStays
<1> QED BY <1>3, <1>7 DEF h, Q

----------------------------------------------------------------------------
(* The kernel's types. *)

KernelTyped ==
    /\ fs \in [DOMAIN fs -> [ino : Tree \X Nat, isDir : BOOLEAN]] /\ DOMAIN fs \subseteq Tree
    /\ <<>> \in DOMAIN fs /\ fs[<<>>].isDir
    /\ watches \in [DOMAIN watches -> Tree \X Nat]
    /\ nextWd \in Nat \ {0} /\ DOMAIN watches \subseteq 1 .. nextWd - 1
    /\ kq \in Seq(Raws) /\ changes \in Nat

LEMMA KernelTypedInit == InotifyInit => KernelTyped
<1> SUFFICES ASSUME InotifyInit PROVE KernelTyped
  OBVIOUS
<1>1. /\ fs \in [DOMAIN fs -> [ino : Tree \X Nat, isDir : BOOLEAN]] /\ DOMAIN fs \subseteq Tree
      /\ <<>> \in DOMAIN fs /\ fs[<<>>].isDir
  BY InotifyAssumption DEF InotifyInit
<1> QED BY <1>1 DEF InotifyInit, KernelTyped

LEMMA WatchingIsFinite ==
    ASSUME KernelTyped, NEW wds \in SUBSET DOMAIN watches
    PROVE  IsFiniteSet(wds)
<1>1. IsFiniteSet(1 .. nextWd - 1)
  BY FS_Interval DEF KernelTyped
<1> QED BY <1>1, FS_Subset DEF KernelTyped

(* One event for each watch on the path. *)
Told(path, kind, name, isDir) ==
    {[kind |-> kind, wd |-> wd, name |-> name, isDir |-> isDir, cookie |-> changes] :
       wd \in Watching(fs[path].ino)}

LEMMA AboutTyped ==
    ASSUME KernelTyped, NEW path, NEW kind, NEW name, NEW isDir, NEW G,
           Exists(path) => Told(path, kind, name, isDir) \subseteq G
    PROVE  About(path, kind, name, isDir) \in Seq(G)
<1>1. CASE Exists(path)
  <2>1. Watching(fs[path].ino) \in SUBSET DOMAIN watches
    BY DEF Watching
  <2>2. IsFiniteSet(Told(path, kind, name, isDir))
    <3> DEFINE W == Watching(fs[path].ino)
               f == [wd \in W |-> [kind |-> kind, wd |-> wd, name |-> name, isDir |-> isDir,
                                  cookie |-> changes]]
    <3>1. f \in Surjection(W, Told(path, kind, name, isDir))
      BY DEF Surjection, Told
    <3> HIDE DEF f
    <3>2. IsFiniteSet(W)
      BY <2>1, WatchingIsFinite
    <3> QED BY <3>1, <3>2, FS_Surjection
  <2>3. SetToSeq(Told(path, kind, name, isDir)) \in Seq(Told(path, kind, name, isDir))
    BY <2>2, SetToSeqElements
  <2>4. SetToSeq(Told(path, kind, name, isDir)) \in Seq(G)
    BY <1>1, <2>3
  <2> QED BY <1>1, <2>4 DEF About, Told
<1>2. CASE ~Exists(path)
  BY <1>2 DEF About
<1> QED BY <1>1, <1>2

LEMMA IgnoredTyped ==
    ASSUME KernelTyped, NEW wds \in SUBSET DOMAIN watches, NEW G,
           \A wd \in wds : [kind |-> "IGNORED", wd |-> wd, name |-> NoName, isDir |-> FALSE,
                            cookie |-> 0] \in G
    PROVE  Ignored(wds) \in Seq(G)
<1> DEFINE T == {[kind |-> "IGNORED", wd |-> wd, name |-> NoName, isDir |-> FALSE,
                  cookie |-> 0] : wd \in wds}
           f == [wd \in wds |-> [kind |-> "IGNORED", wd |-> wd, name |-> NoName, isDir |-> FALSE,
                                 cookie |-> 0]]
<1>1. f \in Surjection(wds, T)
  BY DEF Surjection
<1>2. T \subseteq G
  OBVIOUS
<1>3. Ignored(wds) = SetToSeq(T)
  BY DEF Ignored
<1> HIDE DEF f, T
<1>4. IsFiniteSet(T)
  BY <1>1, WatchingIsFinite, FS_Surjection
<1>5. SetToSeq(T) \in Seq(T)
  BY <1>4, SetToSeqElements
<1> QED BY <1>2, <1>3, <1>5

(* What a change on disk tells is in G, if all of these are. *)
LEMMA ThreeTyped ==
    ASSUME NEW G, NEW s \in Seq(G), NEW t \in Seq(G), NEW u \in Seq(G)
    PROVE  s \o t \o u \in Seq(G) /\ s \o t \in Seq(G)
OBVIOUS

(* G has everything that a change on disk can make the kernel tell. *)
Tellable(G) ==
    /\ RawOverflow \in G
    /\ \A path \in DOMAIN fs, kind \in Kinds, isDir \in BOOLEAN :
         Told(path, kind, NoName, isDir) \subseteq G
    /\ \A path \in Tree \ {<<>>}, kind \in Kinds, isDir \in BOOLEAN :
         Exists(ParentDir(path)) => Told(ParentDir(path), kind, Last(path), isDir) \subseteq G
    /\ \A wd \in DOMAIN watches \ DOMAIN watches' :
         [kind |-> "IGNORED", wd |-> wd, name |-> NoName, isDir |-> FALSE, cookie |-> 0] \in G

LEMMA ToldInParent ==
    ASSUME KernelTyped, NEW G, Tellable(G), NEW path \in Tree, path # <<>>,
           NEW kind \in Kinds, NEW isDir \in BOOLEAN
    PROVE  InParent(path, kind, isDir) \in Seq(G)
<1>1. Exists(ParentDir(path)) => Told(ParentDir(path), kind, Last(path), isDir) \subseteq G
  BY DEF Tellable
<1> QED BY <1>1, AboutTyped DEF InParent

LEMMA ToldItself ==
    ASSUME KernelTyped, NEW G, Tellable(G), NEW path, NEW kind \in Kinds, NEW isDir \in BOOLEAN
    PROVE  About(path, kind, NoName, isDir) \in Seq(G)
<1>1. Exists(path) => Told(path, kind, NoName, isDir) \subseteq G
  BY DEF Tellable, Exists
<1> QED BY <1>1, AboutTyped

LEMMA DiskTells ==
    ASSUME KernelTyped, DiskChanges, NEW G, Tellable(G), kq \in Seq(G)
    PROVE  kq' \in Seq(G)
<1> USE DEF KernelTyped
<1>0. RawOverflow \in G
  BY DEF Tellable
<1>1. ASSUME NEW path \in Tree, Make(path) PROVE kq' \in Seq(G)
  <2>1. path # <<>> /\ "CREATE" \in Kinds /\ (Last(path) \in DirNames) \in BOOLEAN
    BY <1>1 DEF Make, Kinds
  <2>2. InParent(path, "CREATE", Last(path) \in DirNames) \in Seq(G)
    BY <2>1, ToldInParent
  <2>3. kq' = EnqueuedAll(kq, InParent(path, "CREATE", Last(path) \in DirNames))
    BY <1>1 DEF Make
  <2> QED BY <1>0, <2>2, <2>3, EnqueuedAllTyped
<1>2. ASSUME NEW path \in Tree, Delete(path) PROVE kq' \in Seq(G)
  <2> DEFINE wds == Watching(fs[path].ino)
  <2>1. path \in DOMAIN fs /\ path # <<>> /\ {"DELETE_SELF", "DELETE"} \subseteq Kinds
        /\ fs[path].isDir \in BOOLEAN /\ FALSE \in BOOLEAN
    BY <1>2, InotifyAssumption DEF Delete, Kinds, Exists
  <2>2. InParent(path, "DELETE", fs[path].isDir) \in Seq(G)
    BY <2>1, ToldInParent
  <2>3. About(path, "DELETE_SELF", NoName, FALSE) \in Seq(G)
    BY <2>1, ToldItself
  <2>4. wds \in SUBSET DOMAIN watches /\ wds \cap DOMAIN watches' = {}
    BY <1>2 DEF Delete, Watching, Restrict
  <2>5. Ignored(wds) \in Seq(G)
    BY <2>4, IgnoredTyped DEF Tellable
  <2>6. kq' = EnqueuedAll(kq, About(path, "DELETE_SELF", NoName, FALSE) \o Ignored(wds)
                              \o InParent(path, "DELETE", fs[path].isDir))
    BY <1>2 DEF Delete
  <2>7. About(path, "DELETE_SELF", NoName, FALSE) \o Ignored(wds)
          \o InParent(path, "DELETE", fs[path].isDir) \in Seq(G)
    BY <2>2, <2>3, <2>5, ThreeTyped
  <2> QED BY <1>0, <2>6, <2>7, EnqueuedAllTyped
<1>3. ASSUME NEW path \in Tree, Write(path) PROVE kq' \in Seq(G)
  <2>1. path # <<>> /\ "MODIFY" \in Kinds /\ FALSE \in BOOLEAN
    BY <1>3 DEF Write, Kinds
  <2>2. InParent(path, "MODIFY", FALSE) \in Seq(G)
    BY <2>1, ToldInParent
  <2>3. kq' = EnqueuedAll(kq, InParent(path, "MODIFY", FALSE))
    BY <1>3 DEF Write
  <2> QED BY <1>0, <2>2, <2>3, EnqueuedAllTyped
<1>4. ASSUME NEW path \in Tree, Chmod(path) PROVE kq' \in Seq(G)
  <2>1. path # <<>> /\ "ATTRIB" \in Kinds /\ fs[path].isDir \in BOOLEAN /\ TRUE \in BOOLEAN
    BY <1>4 DEF Chmod, Kinds, Exists
  <2>2. InParent(path, "ATTRIB", fs[path].isDir) \in Seq(G)
    BY <2>1, ToldInParent
  <2>3. About(path, "ATTRIB", NoName, TRUE) \in Seq(G)
    BY <2>1, ToldItself
  <2>4. kq' = EnqueuedAll(kq, InParent(path, "ATTRIB", fs[path].isDir)
                              \o About(path, "ATTRIB", NoName, TRUE))
    BY <1>4 DEF Chmod
  <2>5. InParent(path, "ATTRIB", fs[path].isDir) \o About(path, "ATTRIB", NoName, TRUE) \in Seq(G)
    BY <2>2, <2>3, ThreeTyped
  <2> QED BY <1>0, <2>4, <2>5, EnqueuedAllTyped
<1>5. ASSUME NEW path \in Tree, Unmount(path) PROVE kq' \in Seq(G)
  <2> DEFINE wds == Watching(fs[path].ino)
  <2>1. wds \in SUBSET DOMAIN watches /\ wds \cap DOMAIN watches' = {}
    BY <1>5 DEF Unmount, Watching, Restrict
  <2>2. Ignored(wds) \in Seq(G)
    BY <2>1, IgnoredTyped DEF Tellable
  <2>3. kq' = EnqueuedAll(kq, Ignored(wds))
    BY <1>5 DEF Unmount
  <2> QED BY <1>0, <2>2, <2>3, EnqueuedAllTyped
<1>6. ASSUME NEW old \in Tree, NEW new \in Tree, Move(old, new) PROVE kq' \in Seq(G)
  <2>1. /\ old \in DOMAIN fs /\ old # <<>> /\ new # <<>>
        /\ {"MOVED_FROM", "MOVED_TO", "MOVE_SELF"} \subseteq Kinds
        /\ fs[old].isDir \in BOOLEAN /\ FALSE \in BOOLEAN
    BY <1>6, InotifyAssumption DEF Move, Change, Kinds, Exists
  <2>2. InParent(old, "MOVED_FROM", fs[old].isDir) \in Seq(G)
    BY <2>1, ToldInParent
  <2>3. InParent(new, "MOVED_TO", fs[old].isDir) \in Seq(G)
    BY <2>1, ToldInParent
  <2>4. About(old, "MOVE_SELF", NoName, FALSE) \in Seq(G)
    BY <2>1, ToldItself
  <2>5. kq' = EnqueuedAll(kq, InParent(old, "MOVED_FROM", fs[old].isDir)
                              \o InParent(new, "MOVED_TO", fs[old].isDir)
                              \o About(old, "MOVE_SELF", NoName, FALSE))
    BY <1>6 DEF Move
  <2>6. InParent(old, "MOVED_FROM", fs[old].isDir) \o InParent(new, "MOVED_TO", fs[old].isDir)
          \o About(old, "MOVE_SELF", NoName, FALSE) \in Seq(G)
    BY <2>2, <2>3, <2>4, ThreeTyped
  <2> QED BY <1>0, <2>5, <2>6, EnqueuedAllTyped
<1> QED BY <1>1, <1>2, <1>3, <1>4, <1>5, <1>6 DEF DiskChanges

LEMMA RawsAreTellable ==
    ASSUME KernelTyped
    PROVE  Tellable(Raws)
<1>1. \A wd \in DOMAIN watches : wd \in Nat
  BY DEF KernelTyped
<1>2. ASSUME NEW path, NEW kind \in Kinds, NEW name \in Components \cup {NoName}, NEW isDir \in BOOLEAN
      PROVE  Told(path, kind, name, isDir) \subseteq Raws
  <2>1. \A wd \in Watching(fs[path].ino) :
          [kind |-> kind, wd |-> wd, name |-> name, isDir |-> isDir, cookie |-> changes] \in Notices
    BY <1>1 DEF Watching, Notices, KernelTyped
  <2> QED BY <2>1 DEF Told, Raws
<1>3. ASSUME NEW wd \in DOMAIN watches
      PROVE  [kind |-> "IGNORED", wd |-> wd, name |-> NoName, isDir |-> FALSE, cookie |-> 0] \in Raws
  BY <1>1 DEF Raws, Ignores
<1> QED BY <1>2, <1>3, LastIsComponent DEF Tellable, Raws

FilesTyped ==
    /\ fs \in [DOMAIN fs -> [ino : Tree \X Nat, isDir : BOOLEAN]] /\ DOMAIN fs \subseteq Tree
    /\ <<>> \in DOMAIN fs /\ fs[<<>>].isDir

LEMMA MovedFiles ==
    ASSUME KernelTyped, NEW old \in Tree, NEW new \in Tree, Move(old, new)
    PROVE  FilesTyped'
<1> DEFINE kept == DOMAIN fs \ Below(old)
           back(p) == JoinMovedPath(p, new, old)
           moved == {JoinMovedPath(p, old, new) : p \in Below(old)}
<1>1. /\ moved \subseteq Tree
      /\ fs' = [p \in kept \cup moved |-> IF p \in moved THEN fs[back(p)] ELSE fs[p]]
      /\ old # <<>> /\ new \notin DOMAIN fs
  BY InotifyAssumption DEF Move, Exists
<1>2. old \in AllPaths /\ new \in AllPaths /\ Below(old) \subseteq AllPaths
  BY TreeIsPath DEF Below, KernelTyped
<1>3. ASSUME NEW p \in Below(old)
      PROVE  back(JoinMovedPath(p, old, new)) = p
  BY <1>2, MovesBack DEF AllPaths, Below
<1>4. \A q \in moved : back(q) \in DOMAIN fs
  BY <1>3 DEF Below
<1>5. <<>> \in kept
  <2>1. ~HasPathPrefix(<<>>, old)
    <3>1. old \in Seq(Components) /\ Len(<<>>) = 0
      BY <1>2 DEF AllPaths, Path
    <3>2. Len(old) # 0 /\ Len(old) \in Nat
      BY <1>1, <3>1
    <3> QED BY <1>1, <3>1, <3>2 DEF HasPathPrefix, IsStrictPrefix, IsPrefix
  <2> QED BY <2>1 DEF Below, KernelTyped
<1>6. <<>> \notin moved
  <2>1. new # <<>> /\ new \in Seq(Components)
    BY <1>1, <1>2 DEF KernelTyped, AllPaths, Path
  <2>2. ASSUME NEW p \in Below(old) PROVE JoinMovedPath(p, old, new) # <<>>
    <3>1. p \in Path(Components) /\ Len(old) \in Nat /\ Len(p) \in Nat
      BY <1>2 DEF AllPaths, Path
    <3>2. SubSeq(p, Len(old) + 1, Len(p)) \in Seq(Components)
      BY <3>1, SubSeqIsPath DEF Path
    <3>3. \A s \in Seq(Components) : new \o s # <<>>
      BY <2>1
    <3> QED BY <3>2, <3>3 DEF JoinMovedPath
  <2> QED BY <2>2
<1> HIDE DEF kept, back, moved
<1>7. \A q \in kept \cup moved : fs'[q] \in [ino : Tree \X Nat, isDir : BOOLEAN]
  BY <1>1, <1>4 DEF KernelTyped, kept
<1>8. DOMAIN fs' \subseteq Tree
  BY <1>1 DEF KernelTyped, kept
<1>9. fs'[<<>>] = fs[<<>>]
  BY <1>1, <1>5, <1>6
<1> QED BY <1>1, <1>5, <1>7, <1>8, <1>9 DEF KernelTyped, FilesTyped

LEMMA DiskKeepsKernel ==
    ASSUME KernelTyped, DiskChanges
    PROVE  KernelTyped'
<1>1. kq' \in Seq(Raws)
  BY DiskTells, RawsAreTellable DEF KernelTyped
<1>2. nextWd' = nextWd /\ changes' = changes + 1
  BY DEF DiskChanges, Make, Delete, Write, Chmod, Unmount, Move, Change
<1>3. watches' \in [DOMAIN watches' -> Tree \X Nat] /\ DOMAIN watches' \subseteq DOMAIN watches
  BY DEF DiskChanges, Make, Delete, Write, Chmod, Unmount, Move, Restrict, KernelTyped
<1>4. FilesTyped'
  <2> USE DEF KernelTyped, FilesTyped
  <2>1. ASSUME NEW path \in Tree, Make(path) PROVE FilesTyped'
    <3>1. fs' = [p \in DOMAIN fs \cup {path} |->
                   IF p = path THEN [ino |-> Inode(path), isDir |-> Last(path) \in DirNames]
                   ELSE fs[p]]
      BY <2>1 DEF Make
    <3>2. Inode(path) \in Tree \X Nat /\ path \notin DOMAIN fs
      BY <2>1 DEF Inode, Make, Exists
    <3> QED BY <3>1, <3>2
  <2>2. ASSUME NEW path \in Tree, Delete(path) PROVE FilesTyped'
    BY <2>2, InotifyAssumption DEF Delete, Restrict
  <2>3. ASSUME NEW path \in Tree, Write(path) \/ Chmod(path) PROVE FilesTyped'
    BY <2>3 DEF Write, Chmod
  <2>4. ASSUME NEW path \in Tree, Unmount(path) PROVE FilesTyped'
    <3>1. fs' = [fs EXCEPT ![path].ino = Inode(path)] /\ Inode(path) \in Tree \X Nat
      BY <2>4 DEF Unmount, Inode
    <3> QED BY <3>1
  <2> QED BY <2>1, <2>2, <2>3, <2>4, MovedFiles DEF DiskChanges
<1> QED BY <1>1, <1>2, <1>3, <1>4 DEF KernelTyped, FilesTyped

LEMMA RmWatchesTells ==
    ASSUME KernelTyped, NEW wds, RmWatches(wds), NEW G, kq \in Seq(G), RawOverflow \in G,
           \A wd \in wds \cap DOMAIN watches :
              [kind |-> "IGNORED", wd |-> wd, name |-> NoName, isDir |-> FALSE, cookie |-> 0] \in G
    PROVE  kq' \in Seq(G)
<1>1. Ignored(wds \cap DOMAIN watches) \in Seq(G)
  BY IgnoredTyped
<1>2. kq' = EnqueuedAll(kq, Ignored(wds \cap DOMAIN watches))
  BY DEF RmWatches
<1> QED BY <1>1, <1>2, EnqueuedAllTyped

LEMMA RmWatchesKeepsKernel ==
    ASSUME KernelTyped, NEW wds, RmWatches(wds)
    PROVE  KernelTyped' /\ UNCHANGED nextWd /\ DOMAIN watches' = DOMAIN watches \ wds
<1>1. RawOverflow \in Raws /\ kq \in Seq(Raws)
  BY DEF Raws, KernelTyped
<1>2. ASSUME NEW wd \in DOMAIN watches
      PROVE  [kind |-> "IGNORED", wd |-> wd, name |-> NoName, isDir |-> FALSE, cookie |-> 0] \in Raws
  BY DEF Raws, Ignores, KernelTyped
<1>3. kq' \in Seq(Raws)
  BY <1>1, <1>2, RmWatchesTells
<1>4. watches' = Restrict(watches, DOMAIN watches \ (wds \cap DOMAIN watches))
      /\ UNCHANGED <<fs, nextWd, changes>>
  BY DEF RmWatches
<1> QED BY <1>3, <1>4 DEF KernelTyped, Restrict

LEMMA AddWatchKeepsKernel ==
    ASSUME KernelTyped, NEW path, IsDirectory(path), AddWatch(path)
    PROVE  /\ KernelTyped'
           /\ WatchFor(path) \in 1 .. nextWd' - 1 /\ nextWd <= nextWd'
           /\ DOMAIN watches' = DOMAIN watches \cup {WatchFor(path)}
<1>1. WatchFor(path) \in DOMAIN watches \cup {nextWd}
  BY DEF WatchFor, Watching
<1>2. fs[path].ino \in Tree \X Nat
  BY DEF IsDirectory, Exists, KernelTyped
<1>3. nextWd' \in Nat \ {0} /\ nextWd <= nextWd' /\ WatchFor(path) \in 1 .. nextWd' - 1
  BY <1>1 DEF AddWatch, KernelTyped
<1>4. DOMAIN watches' = DOMAIN watches \cup {WatchFor(path)} /\ UNCHANGED <<fs, kq, changes>>
  BY DEF AddWatch
<1>5. watches' \in [DOMAIN watches' -> Tree \X Nat]
  BY <1>2 DEF AddWatch, KernelTyped
<1>6. DOMAIN watches' \subseteq 1 .. nextWd' - 1
  BY <1>3, <1>4 DEF KernelTyped
<1> QED BY <1>3, <1>4, <1>5, <1>6 DEF KernelTyped

----------------------------------------------------------------------------
(* The backend's types. *)

Node    == [wd : Nat, roots : SUBSET Tree]
WalkRec == [root : Tree, todo : SUBSET AllPaths, reading : AllPaths \cup {NoPath},
            recursive : BOOLEAN, lstat : BOOLEAN]

TablesTyped ==
    /\ roots \in [DOMAIN roots -> Targets] /\ \A p \in DOMAIN roots : roots[p].Path = p
    /\ rootDirs \in [DOMAIN roots -> SUBSET AllPaths]
    /\ watched \in [DOMAIN watched -> Node] /\ DOMAIN watched \subseteq AllPaths
    /\ \A dir \in DOMAIN watched : watched[dir].wd \in 1 .. nextWd - 1
    /\ wdToPath \in [DOMAIN wdToPath -> AllPaths] /\ DOMAIN wdToPath \subseteq 1 .. nextWd - 1

RunTyped ==
    /\ pending \in [DOMAIN pending -> [path : AllPaths, isDir : BOOLEAN]]
    /\ closed \in BOOLEAN /\ fdOpen \in BOOLEAN
    /\ runPc \in RunLabels /\ buf \in Seq(Raws)
    /\ cur \in [raw : Raws, path : AllPaths, old : AllPaths \cup {NoPath}]
    /\ runPc = "rename" => cur.old \in AllPaths
    /\ left \subseteq Tree

WalksTyped ==
    /\ callPc \in [Callers -> {"idle", "walk", "cleanup"}]
    /\ walk \in [Walkers -> WalkRec]
    /\ walkErr \in [Walkers -> BOOLEAN]

Typed == KernelTyped /\ TablesTyped /\ RunTyped /\ WalksTyped

LEMMA RootsInTree ==
    ASSUME TablesTyped
    PROVE  DOMAIN roots \subseteq Tree /\ DOMAIN rootDirs = DOMAIN roots
BY LinuxAssumption DEF TablesTyped

LEMMA TypedInit == Init => Typed
<1> SUFFICES ASSUME Init PROVE Typed
  OBVIOUS
<1> USE DEF Init
<1>1. KernelTyped
  BY KernelTypedInit
<1>2. TablesTyped
  <2>1. \A S : <<>> \in [{} -> S]
    OBVIOUS
  <2> QED BY <2>1, Zenon DEF TablesTyped
<1>3. RunTyped
  <2>1. NoEvent \in [raw : Raws, path : AllPaths, old : AllPaths \cup {NoPath}]
    BY RootExists DEF NoEvent, Raws
  <2>2. pending \in [DOMAIN pending -> [path : AllPaths, isDir : BOOLEAN]]
    OBVIOUS
  <2>3. buf \in Seq(Raws) /\ runPc \in RunLabels /\ runPc # "rename" /\ left \subseteq Tree
    BY DEF RunLabels
  <2> QED BY <2>1, <2>2, <2>3 DEF RunTyped
<1>4. WalksTyped
  <2>1. Idle \in WalkRec
    BY RootExists DEF Idle, WalkRec
  <2> QED BY <2>1 DEF WalksTyped
<1> QED BY <1>1, <1>2, <1>3, <1>4 DEF Typed

(* The tables under the operations of their critical sections. *)
LEMMA ForgetKeepsTypes ==
    ASSUME KernelTyped, TablesTyped, NEW path \in DOMAIN roots, ForgetRoot(path)
    PROVE  KernelTyped' /\ TablesTyped'
<1> DEFINE dirs == rootDirs[path] \cap DOMAIN watched
           dead == {dir \in dirs : watched[dir].roots \subseteq {path}}
           wds  == {watched[dir].wd : dir \in dead}
<1>1. RmWatches(wds) /\ wdToPath' = Without(wdToPath, wds)
  BY DEF ForgetRoot
<1>2. KernelTyped' /\ nextWd' = nextWd
  BY <1>1, RmWatchesKeepsKernel
<1>3. roots' = Without(roots, {path}) /\ rootDirs' = Without(rootDirs, {path})
  BY DEF ForgetRoot
<1>4. watched' = [dir \in DOMAIN watched \ dead |->
                    IF dir \in dirs THEN [watched[dir] EXCEPT !.roots = @ \ {path}] ELSE watched[dir]]
  BY DEF ForgetRoot
<1> HIDE DEF wds, dead
<1>5. \A dir \in DOMAIN watched : watched[dir] \in Node
                                  /\ [watched[dir] EXCEPT !.roots = @ \ {path}] \in Node
                                  /\ [watched[dir] EXCEPT !.roots = @ \ {path}].wd = watched[dir].wd
  BY DEF TablesTyped, Node
<1>6. /\ watched' \in [DOMAIN watched' -> Node] /\ DOMAIN watched' \subseteq DOMAIN watched
      /\ \A dir \in DOMAIN watched' : watched'[dir].wd = watched[dir].wd
  BY <1>4, <1>5
<1>7. /\ roots' \in [DOMAIN roots' -> Targets] /\ \A p \in DOMAIN roots' : roots'[p].Path = p
      /\ rootDirs' \in [DOMAIN roots' -> SUBSET AllPaths]
  BY <1>3 DEF Without, Restrict, TablesTyped
<1>8. wdToPath' \in [DOMAIN wdToPath' -> AllPaths] /\ DOMAIN wdToPath' \subseteq DOMAIN wdToPath
  BY <1>1 DEF Without, Restrict, TablesTyped
<1> QED BY <1>2, <1>6, <1>7, <1>8 DEF TablesTyped

LEMMA UnwatchKeepsTypes ==
    ASSUME KernelTyped, TablesTyped, NEW prefixes, Unwatch(prefixes)
    PROVE  KernelTyped' /\ TablesTyped'
<1> DEFINE gone == {dir \in DOMAIN watched : \E p \in prefixes : HasPathPrefix(dir, p)}
           wds  == {watched[dir].wd : dir \in gone}
<1>1. RmWatches(wds) /\ wdToPath' = Without(wdToPath, wds) /\ watched' = Without(watched, gone)
      /\ roots' = roots
  BY DEF Unwatch
<1>2. rootDirs' = [rt \in DOMAIN rootDirs |-> rootDirs[rt] \ {dir \in gone : rt \in watched[dir].roots}]
  BY DEF Unwatch
<1>3. KernelTyped' /\ nextWd' = nextWd
  BY <1>1, RmWatchesKeepsKernel
<1> HIDE DEF gone, wds
<1>4. rootDirs' \in [DOMAIN roots' -> SUBSET AllPaths]
  BY <1>1, <1>2 DEF TablesTyped
<1> QED BY <1>1, <1>3, <1>4 DEF TablesTyped, Without, Restrict

LEMMA EnrollKeepsTypes ==
    ASSUME KernelTyped, TablesTyped, NEW dir \in AllPaths, NEW node \in Node, NEW rt \in DOMAIN rootDirs,
           node.wd \in 1 .. nextWd' - 1, nextWd' \in Nat, nextWd <= nextWd',
           Enroll(dir, node, rt), UNCHANGED roots,
           wdToPath' = wdToPath \/ wdToPath' = Put(wdToPath, node.wd, dir)
    PROVE  TablesTyped'
<1>1. /\ watched' \in [DOMAIN watched' -> Node] /\ DOMAIN watched' \subseteq AllPaths
      /\ \A d \in DOMAIN watched' : watched'[d].wd \in 1 .. nextWd' - 1
  BY DEF Enroll, Put, TablesTyped, KernelTyped
<1>2. rootDirs' \in [DOMAIN roots' -> SUBSET AllPaths]
  BY DEF Enroll, TablesTyped
<1>3. wdToPath' \in [DOMAIN wdToPath' -> AllPaths] /\ DOMAIN wdToPath' \subseteq 1 .. nextWd' - 1
  <2>1. CASE wdToPath' = wdToPath
    BY <2>1 DEF TablesTyped, KernelTyped
  <2>2. CASE wdToPath' = Put(wdToPath, node.wd, dir)
    <3>1. DOMAIN wdToPath' = DOMAIN wdToPath \cup {node.wd}
      BY <2>2 DEF Put
    <3>2. wdToPath' \in [DOMAIN wdToPath' -> AllPaths]
      BY <2>2, <3>1 DEF Put, TablesTyped
    <3>3. DOMAIN wdToPath \subseteq 1 .. nextWd' - 1
      BY DEF TablesTyped, KernelTyped
    <3> QED BY <3>1, <3>2, <3>3
  <2> QED BY <2>1, <2>2
<1> QED BY <1>1, <1>2, <1>3 DEF TablesTyped

(* A directory the rename carries over is found again from its new path. *)
LEMMA RenamedBack ==
    ASSUME TablesTyped, RunTyped, runPc = "rename",
           NEW dir \in DOMAIN watched, HasPathPrefix(dir, cur.old)
    PROVE  /\ JoinMovedPath(dir, cur.old, cur.path) \in AllPaths
           /\ JoinMovedPath(JoinMovedPath(dir, cur.old, cur.path), cur.path, cur.old) = dir
<1>1. dir \in Path(Components) /\ cur.old \in Path(Components) /\ cur.path \in Path(Components)
  BY DEF TablesTyped, RunTyped, AllPaths
<1> QED BY <1>1, JoinIsPath, MovesBack DEF AllPaths

LEMMA RenameKeepsTypes ==
    ASSUME KernelTyped, TablesTyped, RunTyped, RenameWatched
    PROVE  KernelTyped' /\ TablesTyped'
<1> DEFINE to(dir)   == JoinMovedPath(dir, cur.old, cur.path)
           from(dir) == JoinMovedPath(dir, cur.path, cur.old)
           moved == {dir \in DOMAIN watched : HasPathPrefix(dir, cur.old)}
           after == {to(dir) : dir \in moved}
<1>1. /\ runPc = "rename" /\ UNCHANGED <<kernelVars, roots>>
      /\ watched' = [dir \in (DOMAIN watched \ moved) \cup after |->
                       IF dir \in after THEN watched[from(dir)] ELSE watched[dir]]
      /\ wdToPath' = [wd \in DOMAIN wdToPath \cup {watched[dir].wd : dir \in moved} |->
                       IF \E dir \in moved : watched[dir].wd = wd
                       THEN to(CHOOSE dir \in moved : watched[dir].wd = wd)
                       ELSE wdToPath[wd]]
      /\ rootDirs' = [rt \in DOMAIN rootDirs |->
                       (rootDirs[rt] \ {dir \in moved : rt \in watched[dir].roots})
                       \cup {to(dir) : dir \in {m \in moved : rt \in watched[m].roots}}]
  BY DEF RenameWatched
<1>2. \A dir \in moved : to(dir) \in AllPaths /\ from(to(dir)) = dir
  BY <1>1, RenamedBack
<1>3. KernelTyped'
  BY <1>1 DEF KernelTyped, kernelVars
<1> HIDE DEF to, from, moved
<1>4. after \subseteq AllPaths /\ \A q \in after : from(q) \in moved
  BY <1>2
<1>5. moved \subseteq DOMAIN watched
  BY DEF moved
<1> HIDE DEF after
<1>6. /\ watched' \in [DOMAIN watched' -> Node] /\ DOMAIN watched' \subseteq AllPaths
      /\ \A dir \in DOMAIN watched' : watched'[dir].wd \in 1 .. nextWd - 1
  BY <1>1, <1>4, <1>5 DEF TablesTyped
<1>7. /\ wdToPath' \in [DOMAIN wdToPath' -> AllPaths] /\ DOMAIN wdToPath' \subseteq 1 .. nextWd - 1
  BY <1>1, <1>2, <1>5 DEF TablesTyped
<1>8. rootDirs' \in [DOMAIN roots -> SUBSET AllPaths]
  BY <1>1, <1>2 DEF TablesTyped
<1>9. roots' = roots /\ nextWd' = nextWd
  BY <1>1 DEF kernelVars
<1> QED BY <1>3, <1>6, <1>7, <1>8, <1>9 DEF TablesTyped

LEMMA DropKeepsTypes ==
    ASSUME KernelTyped, TablesTyped, DropWatch
    PROVE  KernelTyped' /\ TablesTyped'
<1>1. UNCHANGED <<kernelVars, roots>>
  BY DEF DropWatch
<1>2. KernelTyped' /\ nextWd' = nextWd
  BY <1>1 DEF KernelTyped, kernelVars
<1>3. PICK gone \in SUBSET DOMAIN watched :
        /\ wdToPath' = wdToPath \/ wdToPath' = Without(wdToPath, {cur.raw.wd})
        /\ watched' = Without(watched, gone)
        /\ rootDirs' = [rt \in DOMAIN rootDirs |->
                          rootDirs[rt] \ {dir \in gone : rt \in watched[dir].roots}]
  BY DEF DropWatch
<1>4. rootDirs' \in [DOMAIN roots' -> SUBSET AllPaths]
  BY <1>1, <1>3 DEF TablesTyped
<1>5. wdToPath' \in [DOMAIN wdToPath' -> AllPaths] /\ DOMAIN wdToPath' \subseteq 1 .. nextWd' - 1
  BY <1>2, <1>3 DEF TablesTyped, Without, Restrict
<1> QED BY <1>1, <1>2, <1>3, <1>4, <1>5 DEF TablesTyped, Without, Restrict

(* The walks. *)
LEMMA WalkKeepsTypes ==
    ASSUME Typed, NEW w \in Walkers, WalkStep(w)
    PROVE  Typed'
<1> USE DEF Typed
<1>0. walk[w] \in WalkRec /\ \A dir \in walk[w].todo : dir \in AllPaths
  BY DEF WalksTyped, WalkRec
<1>1. WalksTyped'
  <2>1. ASSUME NEW rec \in WalkRec, walk' = [walk EXCEPT ![w] = rec],
               UNCHANGED callPc, walkErr' = walkErr \/ walkErr' = [walkErr EXCEPT ![w] = TRUE]
        PROVE  WalksTyped'
    BY <2>1 DEF WalksTyped
  <2>2. ASSUME NEW dir \in walk[w].todo, Enrolled(w, dir), UNCHANGED callPc PROVE WalksTyped'
    <3> DEFINE rec == [walk[w] EXCEPT !.todo = @ \ {dir}, !.lstat = FALSE,
                                      !.reading = IF walk[w].recursive THEN dir ELSE NoPath]
    <3>1. rec \in WalkRec
      BY <1>0 DEF WalkRec
    <3>2. walk' = [walk EXCEPT ![w] = rec] /\ walkErr' = walkErr
      BY <2>2 DEF Enrolled, WalksTyped
    <3> QED BY <2>1, <2>2, <3>1, <3>2
  <2>3. CASE WalkExcluded(w)
    <3>1. PICK dir \in walk[w].todo : walk' = [walk EXCEPT ![w].todo = @ \ {dir}]
                                      /\ UNCHANGED <<callPc, walkErr>>
      BY <2>3 DEF WalkExcluded, Skip, callVars
    <3>2. [walk[w] EXCEPT !.todo = @ \ {dir}] \in WalkRec
      BY <1>0 DEF WalkRec
    <3>3. walk' = [walk EXCEPT ![w] = [walk[w] EXCEPT !.todo = @ \ {dir}]]
      BY <3>1
    <3> QED BY <2>1, <3>1, <3>2, <3>3
  <2>4. CASE AddDirOrphan(w) \/ AddDirShared(w) \/ AddDirWatch(w)
    <3>1. \E dir \in walk[w].todo : Enrolled(w, dir) /\ UNCHANGED callPc
      BY <2>4 DEF AddDirOrphan, AddDirShared, AddDirWatch, callVars
    <3> QED BY <2>2, <3>1
  <2>5. CASE AddDirFails(w) \/ ReadDirFails(w)
    <3>1. Idle \in WalkRec
      BY RootExists DEF Idle, WalkRec
    <3>2. walk' = [walk EXCEPT ![w] = Idle] /\ walkErr' = [walkErr EXCEPT ![w] = TRUE] /\ UNCHANGED callPc
      BY <2>5 DEF AddDirFails, ReadDirFails, Abort, callVars
    <3> QED BY <2>1, <3>1, <3>2
  <2>6. CASE ReadDir(w)
    <3> DEFINE more == {p \in Children(walk[w].reading) : fs[p].isDir}
               rec  == [walk[w] EXCEPT !.todo = @ \cup more, !.reading = NoPath]
    <3>1. more \subseteq AllPaths
      BY TreeIsPath DEF Children, KernelTyped
    <3> HIDE DEF more
    <3>2. rec \in WalkRec
      BY <1>0, <3>1 DEF WalkRec
    <3>3. walk' = [walk EXCEPT ![w] = rec] /\ UNCHANGED <<callPc, walkErr>>
      BY <2>6 DEF ReadDir, more, callVars, WalksTyped
    <3> QED BY <2>1, <3>2, <3>3
  <2> QED BY <2>3, <2>4, <2>5, <2>6 DEF WalkStep
<1>2. RunTyped'
  BY DEF WalkStep, WalkExcluded, AddDirOrphan, AddDirShared, AddDirWatch, AddDirFails, ReadDir,
     ReadDirFails, RunTyped, runVars
<1>3. CASE AddDirWatch(w)
  <2>1. PICK dir \in walk[w].todo :
          /\ walk[w].root \in DOMAIN rootDirs /\ IsDirectory(dir) /\ AddWatch(dir)
          /\ Enroll(dir, [wd |-> WatchFor(dir), roots |-> {walk[w].root}], walk[w].root)
          /\ wdToPath' = Put(wdToPath, WatchFor(dir), dir) /\ UNCHANGED roots
    BY <1>3 DEF AddDirWatch
  <2>2. KernelTyped' /\ WatchFor(dir) \in 1 .. nextWd' - 1 /\ nextWd <= nextWd' /\ nextWd' \in Nat
    BY <2>1, AddWatchKeepsKernel DEF KernelTyped
  <2>3. PICK node : node = [wd |-> WatchFor(dir), roots |-> {walk[w].root}]
    OBVIOUS
  <2>4. node \in Node /\ node.wd = WatchFor(dir)
    BY <1>0, <2>2, <2>3 DEF Node, WalkRec
  <2>5. TablesTyped'
    BY <1>0, <2>1, <2>2, <2>3, <2>4, EnrollKeepsTypes
  <2> QED BY <1>1, <1>2, <2>2, <2>5
<1>4. CASE AddDirShared(w)
  <2>1. PICK dir \in walk[w].todo :
          /\ walk[w].root \in DOMAIN rootDirs /\ dir \in DOMAIN watched
          /\ Enroll(dir, [watched[dir] EXCEPT !.roots = @ \cup {walk[w].root}], walk[w].root)
          /\ UNCHANGED <<kernelVars, roots, wdToPath>>
    BY <1>4 DEF AddDirShared
  <2>2. KernelTyped' /\ nextWd' = nextWd /\ nextWd' \in Nat
    BY <2>1 DEF KernelTyped, kernelVars
  <2>3. PICK node : node = [watched[dir] EXCEPT !.roots = @ \cup {walk[w].root}]
    OBVIOUS
  <2>4. node \in Node /\ node.wd = watched[dir].wd
    BY <1>0, <2>1, <2>3 DEF Node, WalkRec, TablesTyped
  <2>5. node.wd \in 1 .. nextWd' - 1 /\ nextWd <= nextWd'
    BY <2>1, <2>2, <2>4 DEF TablesTyped
  <2>6. TablesTyped'
    BY <1>0, <2>1, <2>2, <2>3, <2>4, <2>5, EnrollKeepsTypes
  <2> QED BY <1>1, <1>2, <2>2, <2>6
<1>5. CASE ~AddDirWatch(w) /\ ~AddDirShared(w)
  <2>1. UNCHANGED <<kernelVars, tables>>
    BY <1>5 DEF WalkStep, WalkExcluded, AddDirOrphan, AddDirFails, ReadDir, ReadDirFails
  <2>2. KernelTyped' /\ TablesTyped'
    BY <2>1 DEF KernelTyped, TablesTyped, kernelVars, tables
  <2> QED BY <1>1, <1>2, <2>2
<1> QED BY <1>3, <1>4, <1>5

LEMMA StartWalkTyped ==
    ASSUME WalksTyped, NEW w \in Walkers, NEW rt \in Tree, NEW path \in AllPaths,
           NEW recursive \in BOOLEAN, NEW lstat \in BOOLEAN, StartWalk(w, rt, path, recursive, lstat)
    PROVE  walk' \in [Walkers -> WalkRec] /\ walkErr' \in [Walkers -> BOOLEAN]
<1>1. [root |-> rt, todo |-> {path}, reading |-> NoPath, recursive |-> recursive, lstat |-> lstat] \in WalkRec
  BY DEF WalkRec
<1> QED BY <1>1 DEF StartWalk, WalksTyped

LEMMA CallKeepsTypes ==
    ASSUME Typed, NEW c \in Callers, CallStep(c)
    PROVE  Typed'
<1> USE DEF Typed
<1>1. RunTyped'
  BY DEF CallStep, AddRegister, AddDone, AddCleanup, RemoveRoot, RunTyped, runVars
<1>2. ASSUME NEW tgt \in Targets, AddRegister(c, tgt) PROVE Typed'
  <2>1. /\ tgt.Path \in Tree /\ tgt.WatchPath \in AllPaths
        /\ tgt.IsDir \in BOOLEAN /\ (tgt.IsDir /\ tgt.Recursive) \in BOOLEAN
    BY LinuxAssumption, TreeIsPath
  <2>2. StartWalk(c, tgt.Path, tgt.WatchPath, tgt.IsDir /\ tgt.Recursive, tgt.IsDir)
    BY <1>2 DEF AddRegister
  <2>3. walk' \in [Walkers -> WalkRec] /\ walkErr' \in [Walkers -> BOOLEAN]
    BY <2>1, <2>2, StartWalkTyped DEF Walkers
  <2>4. WalksTyped'
    BY <1>2, <2>3 DEF AddRegister, CallGoto, WalksTyped
  <2>5. KernelTyped'
    BY <1>2 DEF AddRegister, KernelTyped, kernelVars
  <2>6. TablesTyped'
    <3>1. /\ roots' = Put(roots, tgt.Path, tgt) /\ rootDirs' = Put(rootDirs, tgt.Path, {})
          /\ UNCHANGED <<kernelVars, watched, wdToPath>>
      BY <1>2 DEF AddRegister
    <3>2. /\ roots' \in [DOMAIN roots' -> Targets] /\ \A p \in DOMAIN roots' : roots'[p].Path = p
          /\ rootDirs' \in [DOMAIN roots' -> SUBSET AllPaths]
      BY <3>1 DEF Put, TablesTyped
    <3> QED BY <3>1, <3>2 DEF TablesTyped, kernelVars
  <2> QED BY <1>1, <2>4, <2>5, <2>6
<1>3. CASE AddDone(c)
  BY <1>1, <1>3 DEF AddDone, CallGoto, KernelTyped, TablesTyped, WalksTyped, kernelVars, tables, walkVars
<1>4. CASE AddCleanup(c)
  <2>1. WalksTyped'
    BY <1>4 DEF AddCleanup, CallGoto, WalksTyped, walkVars
  <2>2. CASE target[c].Path \in DOMAIN roots
    BY <1>1, <1>4, <2>1, <2>2, ForgetKeepsTypes DEF AddCleanup
  <2>3. CASE target[c].Path \notin DOMAIN roots
    BY <1>1, <1>4, <2>1, <2>3 DEF AddCleanup, KernelTyped, TablesTyped, kernelVars, tables
  <2> QED BY <2>2, <2>3
<1>5. ASSUME NEW path \in DOMAIN roots, RemoveRoot(c, path) PROVE Typed'
  <2>1. WalksTyped' /\ ForgetRoot(path)
    BY <1>5 DEF RemoveRoot, WalksTyped, walkVars
  <2> QED BY <1>1, <2>1, ForgetKeepsTypes
<1> QED BY <1>2, <1>3, <1>4, <1>5 DEF CallStep

LEMMA RawsAreNotices ==
    ASSUME NEW raw \in Raws
    PROVE  /\ raw.wd \in Nat
           /\ raw.name # NoName => raw.name \in Components
           /\ raw.kind \notin {"IGNORED", "Q_OVERFLOW"} => raw \in Notices
           /\ raw.kind = "IGNORED" => raw.name = NoName
<1>1. CASE raw \in Notices
  BY <1>1 DEF Notices, Kinds
<1>2. CASE raw \in Ignores
  BY <1>2 DEF Ignores
<1>3. CASE raw = RawOverflow
  BY <1>3 DEF RawOverflow
<1> QED BY <1>1, <1>2, <1>3 DEF Raws

LEMMA FullPathTyped ==
    ASSUME Typed, NEW kinds, Dispatches(kinds)
    PROVE  /\ FullPath \in AllPaths /\ Raw \in Raws /\ Tail(buf) \in Seq(Raws)
           /\ (Raw.kind \notin {"IGNORED", "Q_OVERFLOW"} => Raw \in Notices)
<1>1. Raw \in Raws /\ Tail(buf) \in Seq(Raws)
  BY DEF Typed, RunTyped, Dispatches, Raw
<1>2. wdToPath[Raw.wd] \in AllPaths
  BY DEF Typed, TablesTyped, Dispatches
<1>3. Raw.name # NoName => Raw.name \in Components
  BY <1>1, RawsAreNotices
<1>4. FullPath \in AllPaths
  BY <1>2, <1>3 DEF FullPath, AllPaths, Path
<1>5. Raw.kind \notin {"IGNORED", "Q_OVERFLOW"} => Raw \in Notices
  BY <1>1, RawsAreNotices
<1> QED BY <1>1, <1>4, <1>5

LEMMA RunKeepsTypes ==
    ASSUME Typed, RunStep
    PROVE  Typed'
<1> USE DEF Typed
<1>1. CASE FlushPending
  <2>1. PICK old \in SUBSET DOMAIN pending :
          /\ Unwatch({pending[k].path : k \in {j \in old : pending[j].isDir}})
          /\ pending' = Without(pending, old)
    BY <1>1 DEF FlushPending
  <2>2. KernelTyped' /\ TablesTyped'
    BY <2>1, UnwatchKeepsTypes
  <2>3. RunTyped' /\ WalksTyped'
    BY <1>1, <2>1 DEF FlushPending, RunGoto, RunTyped, RunLabels, WalksTyped, Without, Restrict,
       callVars, walkVars
  <2> QED BY <2>2, <2>3
<1>2. CASE UnwatchGone
  <2>1. KernelTyped' /\ TablesTyped'
    BY <1>2, UnwatchKeepsTypes DEF UnwatchGone
  <2>2. RunTyped' /\ WalksTyped'
    BY <1>2 DEF UnwatchGone, RunGoto, RunTyped, RunLabels, WalksTyped, callVars, walkVars
  <2> QED BY <2>1, <2>2
<1>3. CASE RenameWatched
  <2>1. KernelTyped' /\ TablesTyped'
    BY <1>3, RenameKeepsTypes
  <2>2. RunTyped' /\ WalksTyped'
    BY <1>3 DEF RenameWatched, RunGoto, RunTyped, RunLabels, WalksTyped, callVars, walkVars
  <2> QED BY <2>1, <2>2
<1>4. CASE DropWatch
  <2>1. KernelTyped' /\ TablesTyped'
    BY <1>4, DropKeepsTypes
  <2>2. NoEvent \in [raw : Raws, path : AllPaths, old : AllPaths \cup {NoPath}]
    BY RootExists DEF NoEvent, Raws
  <2>3. RunTyped' /\ WalksTyped'
    BY <1>4, <2>2 DEF DropWatch, RunGoto, RunTyped, RunLabels, WalksTyped, callVars, walkVars
  <2> QED BY <2>1, <2>3
<1>5. CASE WalkNextRoot
  <2>1. PICK rt \in left : StartWalk(Run, rt, cur.path, TRUE, TRUE) /\ left' = left \ {rt}
    BY <1>5 DEF WalkNextRoot
  <2>2. rt \in Tree /\ cur.path \in AllPaths
    BY <2>1 DEF RunTyped
  <2>3. walk' \in [Walkers -> WalkRec] /\ walkErr' \in [Walkers -> BOOLEAN]
    BY <2>1, <2>2, StartWalkTyped DEF Walkers
  <2> QED BY <1>5, <2>1, <2>3
       DEF WalkNextRoot, KernelTyped, TablesTyped, RunTyped, WalksTyped, kernelVars, tables, callVars
<1>6. CASE Read
  <2>1. RunTyped' /\ KernelTyped'
    BY <1>6 DEF Read, RunGoto, RunTyped, RunLabels, KernelTyped
  <2> QED BY <1>6, <2>1 DEF Read, TablesTyped, WalksTyped, tables, callVars, walkVars
<1>7. ASSUME UNCHANGED <<kernelVars, tables, callVars, walkVars>>, RunTyped' PROVE Typed'
  BY <1>7 DEF KernelTyped, TablesTyped, WalksTyped, kernelVars, tables, callVars, walkVars
<1>8. CASE RunExits \/ BufferDone \/ Report \/ ReportGone \/ Emit
  <2>1. NoEvent \in [raw : Raws, path : AllPaths, old : AllPaths \cup {NoPath}]
    BY RootExists DEF NoEvent, Raws
  <2>2. RunTyped'
    BY <1>8, <2>1 DEF RunExits, BufferDone, Report, ReportGone, Emit, RunGoto, RunTyped, RunLabels
  <2> QED BY <1>7, <1>8, <2>2 DEF RunExits, BufferDone, Report, ReportGone, Emit
<1>9. CASE HandleUnknown \/ HandleOverflow
  <2>1. Tail(buf) \in Seq(Raws)
    BY <1>9 DEF HandleUnknown, HandleOverflow, RunTyped
  <2>2. RunTyped'
    BY <1>9, <2>1 DEF HandleUnknown, HandleOverflow, Taken, RunGoto, RunTyped, RunLabels
  <2> QED BY <1>7, <1>9, <2>2 DEF HandleUnknown, HandleOverflow
<1>10. CASE HandleMovedFrom
  <2>1. FullPath \in AllPaths /\ Raw \in Notices /\ Tail(buf) \in Seq(Raws)
    <3>1. Raw.kind = "MOVED_FROM"
      BY <1>10 DEF HandleMovedFrom, Dispatches
    <3> QED BY <1>10, <3>1, FullPathTyped DEF HandleMovedFrom
  <2>2. [path |-> FullPath, isDir |-> Raw.isDir] \in [path : AllPaths, isDir : BOOLEAN]
    BY <2>1 DEF Notices
  <2>3. RunTyped'
    BY <1>10, <2>1, <2>2 DEF HandleMovedFrom, Taken, Put, RunTyped
  <2> QED BY <1>7, <1>10, <2>3 DEF HandleMovedFrom
<1>11. CASE HandleContent
  <2>1. Tail(buf) \in Seq(Raws)
    BY <1>11, FullPathTyped DEF HandleContent
  <2>2. RunTyped'
    BY <1>11, <2>1 DEF HandleContent, Taken, RunGoto, RunTyped, RunLabels
  <2> QED BY <1>7, <1>11, <2>2 DEF HandleContent
<1>12. CASE HandleAppeared
  <2>1. FullPath \in AllPaths /\ Raw \in Raws /\ Tail(buf) \in Seq(Raws)
    BY <1>12, FullPathTyped DEF HandleAppeared
  <2>2. OldPath \in AllPaths \cup {NoPath}
    BY DEF OldPath, RunTyped
  <2>3. cur' \in [raw : Raws, path : AllPaths, old : AllPaths \cup {NoPath}]
    BY <1>12, <2>1, <2>2 DEF HandleAppeared
  <2>4. pending' \in [DOMAIN pending' -> [path : AllPaths, isDir : BOOLEAN]]
    BY <1>12 DEF HandleAppeared, RunTyped, Without, Restrict
  <2>5. RunTyped'
    BY <1>12, <2>1, <2>3, <2>4 DEF HandleAppeared, Taken, RunGoto, RunTyped, RunLabels
  <2> QED BY <1>7, <1>12, <2>5 DEF HandleAppeared
<1>13. CASE HandleGone \/ HandleIgnored
  <2>1. FullPath \in AllPaths /\ Raw \in Raws /\ Tail(buf) \in Seq(Raws)
    BY <1>13, FullPathTyped DEF HandleGone, HandleIgnored
  <2>2. RunTyped'
    BY <1>13, <2>1 DEF HandleGone, HandleIgnored, Taken, RunGoto, RunTyped, RunLabels
  <2> QED BY <1>7, <1>13, <2>2 DEF HandleGone, HandleIgnored
<1>14. CASE SnapshotRoots
  <2>1. left' \subseteq Tree
    BY <1>14, RootsInTree DEF SnapshotRoots
  <2>2. RunTyped'
    BY <1>14, <2>1 DEF SnapshotRoots, RunGoto, RunTyped, RunLabels
  <2> QED BY <1>7, <1>14, <2>2 DEF SnapshotRoots
<1>15. CASE WalksDone
  <2>1. RunTyped'
    BY <1>15 DEF WalksDone, RunGoto, RunTyped, RunLabels
  <2> QED BY <1>7, <1>15, <2>1 DEF WalksDone
<1> QED BY <1>1, <1>2, <1>3, <1>4, <1>5, <1>6, <1>8, <1>9, <1>10, <1>11, <1>12, <1>13, <1>14, <1>15
     DEF RunStep

LEMMA TypedStep == Typed /\ [Next]_vars => Typed'
<1> SUFFICES ASSUME Typed, [Next]_vars PROVE Typed'
  OBVIOUS
<1> USE DEF Typed
<1>1. ASSUME UNCHANGED <<tables, runVars, callVars, walkVars, pending, nextWd>>,
             closed' \in BOOLEAN, fdOpen' \in BOOLEAN, KernelTyped' PROVE Typed'
  BY <1>1 DEF TablesTyped, RunTyped, WalksTyped, tables, runVars, callVars, walkVars
<1>2. ASSUME DiskChanges, UNCHANGED <<tables, pending, closed, fdOpen, runVars, callVars, walkVars>>
      PROVE Typed'
  <2>1. nextWd' = nextWd
    BY <1>2 DEF DiskChanges, Make, Delete, Write, Chmod, Unmount, Move
  <2>2. closed' \in BOOLEAN /\ fdOpen' \in BOOLEAN
    BY <1>2 DEF RunTyped
  <2> QED BY <1>1, <1>2, <2>1, <2>2, DiskKeepsKernel
<1>3. CASE CloseFlag
  <2>1. closed' \in BOOLEAN /\ fdOpen' \in BOOLEAN /\ KernelTyped'
    BY <1>3 DEF CloseFlag, RunTyped, KernelTyped, kernelVars
  <2>2. UNCHANGED <<tables, runVars, callVars, walkVars, pending, nextWd>>
    BY <1>3 DEF CloseFlag, kernelVars
  <2> QED BY <1>1, <2>1, <2>2
<1>4. CASE CloseDescriptor
  <2>1. closed' \in BOOLEAN /\ fdOpen' \in BOOLEAN /\ KernelTyped'
    <3>1. watches' = <<>> /\ kq' = <<>> /\ UNCHANGED <<fs, nextWd, changes, closed>> /\ fdOpen' = FALSE
      BY <1>4 DEF CloseDescriptor
    <3>2. kq' \in Seq(Raws)
      BY <3>1
    <3>3. watches' \in [DOMAIN watches' -> Tree \X Nat] /\ DOMAIN watches' \subseteq 1 .. nextWd' - 1
      BY <3>1
    <3> QED BY <3>1, <3>2, <3>3 DEF RunTyped, KernelTyped
  <2>2. UNCHANGED <<tables, runVars, callVars, walkVars, pending, nextWd>>
    BY <1>4 DEF CloseDescriptor
  <2> QED BY <1>1, <2>1, <2>2
<1>5. CASE UNCHANGED vars
  <2>1. UNCHANGED <<tables, runVars, callVars, walkVars, pending, nextWd, closed, fdOpen, kernelVars>>
    BY <1>5 DEF vars, kernelVars
  <2>2. closed' \in BOOLEAN /\ fdOpen' \in BOOLEAN /\ KernelTyped'
    BY <2>1 DEF RunTyped, KernelTyped, kernelVars
  <2> QED BY <1>1, <2>1, <2>2
<1> QED BY <1>2, <1>3, <1>4, <1>5, WalkKeepsTypes, CallKeepsTypes, RunKeepsTypes DEF Next

(***************************************************************************)
(* Types at every step of any run of the backend, renames included: the    *)
(* tables, the walks, the locals of handle() and what the kernel has       *)
(* queued, where a path may be outside the tree.                           *)
(***************************************************************************)
THEOREM TypesInvariant == Spec => []Typed
<1> QED BY TypedInit, TypedStep, PTL DEF Spec

----------------------------------------------------------------------------
(* Nodes and lists. *)

LEMMA ForgetKeepsNodes ==
    ASSUME TablesTyped, NodesAreReleasable, NEW path \in DOMAIN roots, ForgetRoot(path)
    PROVE  NodesAreReleasable'
<1> DEFINE dirs == rootDirs[path] \cap DOMAIN watched
           dead == {dir \in dirs : watched[dir].roots \subseteq {path}}
<1>1. /\ rootDirs' = Without(rootDirs, {path})
      /\ watched' = [dir \in DOMAIN watched \ dead |->
                       IF dir \in dirs THEN [watched[dir] EXCEPT !.roots = @ \ {path}] ELSE watched[dir]]
  BY DEF ForgetRoot
<1>2. ASSUME NEW dir \in DOMAIN watched'
      PROVE  /\ dir \in DOMAIN watched /\ watched'[dir].roots = watched[dir].roots \ {path}
             /\ watched'[dir].roots # {}
  <2>1. dir \in DOMAIN watched \ dead
    BY <1>1
  <2>2. watched[dir] \in Node
    BY <2>1 DEF TablesTyped
  <2>3. CASE dir \in dirs
    BY <1>1, <2>1, <2>2, <2>3 DEF Node
  <2>4. CASE dir \notin dirs
    BY <1>1, <2>1, <2>4 DEF NodesAreReleasable
  <2> QED BY <2>1, <2>3, <2>4
<1> HIDE DEF dead, dirs
<1>3. ASSUME NEW dir \in DOMAIN watched', NEW p \in watched'[dir].roots
      PROVE  p \in DOMAIN rootDirs' /\ dir \in rootDirs'[p]
  <2>1. p # path /\ p \in DOMAIN rootDirs /\ dir \in rootDirs[p]
    BY <1>2, <1>3 DEF NodesAreReleasable
  <2> QED BY <1>1, <2>1 DEF Without, Restrict
<1> QED BY <1>2, <1>3 DEF NodesAreReleasable

LEMMA UnwatchKeepsNodes ==
    ASSUME NodesAreReleasable, NEW prefixes, Unwatch(prefixes)
    PROVE  NodesAreReleasable'
<1> DEFINE gone == {dir \in DOMAIN watched : \E p \in prefixes : HasPathPrefix(dir, p)}
<1>1. /\ watched' = Without(watched, gone)
      /\ rootDirs' = [rt \in DOMAIN rootDirs |-> rootDirs[rt] \ {dir \in gone : rt \in watched[dir].roots}]
  BY DEF Unwatch
<1> HIDE DEF gone
<1> QED BY <1>1 DEF NodesAreReleasable, Without, Restrict

LEMMA EnrollKeepsNodes ==
    ASSUME TablesTyped, NodesAreReleasable, NEW dir, NEW node, NEW rt \in DOMAIN rootDirs,
           node.roots = {rt} \/ (dir \in DOMAIN watched /\ node.roots = watched[dir].roots \cup {rt}),
           Enroll(dir, node, rt)
    PROVE  NodesAreReleasable'
<1>1. watched' = Put(watched, dir, node) /\ rootDirs' = [rootDirs EXCEPT ![rt] = @ \cup {dir}]
  BY DEF Enroll
<1>2. \A p \in DOMAIN rootDirs : /\ p \in DOMAIN rootDirs'
                                 /\ rootDirs[p] \subseteq rootDirs'[p] /\ dir \in rootDirs'[rt]
  BY <1>1
<1>3. ASSUME NEW d \in DOMAIN watched'
      PROVE  /\ watched'[d].roots # {}
             /\ \A p \in watched'[d].roots : p \in DOMAIN rootDirs' /\ d \in rootDirs'[p]
  <2>1. CASE d = dir
    <3>1. watched'[d] = node
      BY <1>1, <2>1 DEF Put
    <3> QED BY <1>2, <2>1, <3>1 DEF NodesAreReleasable
  <2>2. CASE d # dir
    <3>1. d \in DOMAIN watched /\ watched'[d] = watched[d]
      BY <1>1, <1>3, <2>2 DEF Put
    <3> QED BY <1>2, <3>1 DEF NodesAreReleasable
  <2> QED BY <2>1, <2>2
<1> QED BY <1>3 DEF NodesAreReleasable

LEMMA RenameKeepsNodes ==
    ASSUME TablesTyped, RunTyped, NodesAreReleasable, RenameWatched
    PROVE  NodesAreReleasable'
<1> DEFINE to(dir)   == JoinMovedPath(dir, cur.old, cur.path)
           from(dir) == JoinMovedPath(dir, cur.path, cur.old)
           moved == {dir \in DOMAIN watched : HasPathPrefix(dir, cur.old)}
           after == {to(dir) : dir \in moved}
<1>1. /\ runPc = "rename"
      /\ watched' = [dir \in (DOMAIN watched \ moved) \cup after |->
                       IF dir \in after THEN watched[from(dir)] ELSE watched[dir]]
      /\ rootDirs' = [rt \in DOMAIN rootDirs |->
                       (rootDirs[rt] \ {dir \in moved : rt \in watched[dir].roots})
                       \cup {to(dir) : dir \in {m \in moved : rt \in watched[m].roots}}]
  BY DEF RenameWatched
<1>2. \A dir \in moved : dir \in DOMAIN watched /\ from(to(dir)) = dir
  BY <1>1, RenamedBack
<1> HIDE DEF to, from, moved
<1>3. ASSUME NEW dir \in DOMAIN watched'
      PROVE  /\ watched'[dir].roots # {}
             /\ \A p \in watched'[dir].roots : p \in DOMAIN rootDirs' /\ dir \in rootDirs'[p]
  <2>1. CASE dir \in after
    <3>1. PICK m \in moved : dir = to(m)
      BY <2>1
    <3>2. watched'[dir] = watched[m]
      BY <1>1, <1>2, <1>3, <2>1, <3>1
    <3>3. \A p \in watched[m].roots : p \in DOMAIN rootDirs
      BY <1>2 DEF NodesAreReleasable
    <3>4. watched[m].roots # {}
      BY <1>2 DEF NodesAreReleasable
    <3> QED BY <1>1, <3>1, <3>2, <3>3, <3>4
  <2>2. CASE dir \notin after
    <3>1. dir \in DOMAIN watched /\ dir \notin moved /\ watched'[dir] = watched[dir]
      BY <1>1, <1>3, <2>2
    <3> QED BY <1>1, <3>1 DEF NodesAreReleasable
  <2> QED BY <2>1, <2>2
<1> QED BY <1>3 DEF NodesAreReleasable

LEMMA RegisterKeepsNodes ==
    ASSUME TablesTyped, NodesAreReleasable, NEW path, path \notin DOMAIN roots,
           rootDirs' = Put(rootDirs, path, {}), watched' = watched
    PROVE  NodesAreReleasable'
<1>1. DOMAIN rootDirs = DOMAIN roots
  BY DEF TablesTyped
<1> QED BY <1>1 DEF NodesAreReleasable, Put

LEMMA WalkKeepsNodes ==
    ASSUME TablesTyped, NodesAreReleasable, NEW w \in Walkers, WalkStep(w)
    PROVE  NodesAreReleasable'
<1>1. CASE AddDirWatch(w)
  <2>1. PICK dir \in walk[w].todo :
          /\ walk[w].root \in DOMAIN rootDirs
          /\ Enroll(dir, [wd |-> WatchFor(dir), roots |-> {walk[w].root}], walk[w].root)
    BY <1>1 DEF AddDirWatch
  <2>2. PICK node : node = [wd |-> WatchFor(dir), roots |-> {walk[w].root}]
    OBVIOUS
  <2>3. node.roots = {walk[w].root}
    BY <2>2
  <2> QED BY <2>1, <2>2, <2>3, EnrollKeepsNodes
<1>2. CASE AddDirShared(w)
  <2>1. PICK dir \in walk[w].todo :
          /\ walk[w].root \in DOMAIN rootDirs /\ dir \in DOMAIN watched
          /\ Enroll(dir, [watched[dir] EXCEPT !.roots = @ \cup {walk[w].root}], walk[w].root)
    BY <1>2 DEF AddDirShared
  <2>2. PICK node : node = [watched[dir] EXCEPT !.roots = @ \cup {walk[w].root}]
    OBVIOUS
  <2>3. node.roots = watched[dir].roots \cup {walk[w].root}
    BY <2>1, <2>2 DEF TablesTyped, Node
  <2> QED BY <2>1, <2>2, <2>3, EnrollKeepsNodes
<1>3. CASE ~AddDirWatch(w) /\ ~AddDirShared(w)
  BY <1>3 DEF WalkStep, WalkExcluded, AddDirOrphan, AddDirFails, ReadDir, ReadDirFails, tables,
     NodesAreReleasable
<1> QED BY <1>1, <1>2, <1>3

LEMMA NodesStep == Typed /\ NodesAreReleasable /\ [Next]_vars => NodesAreReleasable'
<1> SUFFICES ASSUME Typed, NodesAreReleasable, [Next]_vars PROVE NodesAreReleasable'
  OBVIOUS
<1> USE DEF Typed
<1>1. CASE UNCHANGED <<watched, rootDirs>>
  BY <1>1 DEF NodesAreReleasable
<1>2. ASSUME NEW c \in Callers, CallStep(c) PROVE NodesAreReleasable'
  <2>1. ASSUME NEW tgt \in Targets, AddRegister(c, tgt) PROVE NodesAreReleasable'
    BY <2>1, RegisterKeepsNodes DEF AddRegister
  <2>2. CASE AddDone(c)
    BY <1>1, <2>2 DEF AddDone, tables
  <2>3. CASE AddCleanup(c)
    BY <1>1, <2>3, ForgetKeepsNodes DEF AddCleanup, tables
  <2>4. ASSUME NEW path \in DOMAIN roots, RemoveRoot(c, path) PROVE NodesAreReleasable'
    BY <2>4, ForgetKeepsNodes DEF RemoveRoot
  <2> QED BY <1>2, <2>1, <2>2, <2>3, <2>4 DEF CallStep
<1>3. CASE RunStep
  <2>1. CASE FlushPending
    <3>1. PICK old \in SUBSET DOMAIN pending :
            Unwatch({pending[k].path : k \in {j \in old : pending[j].isDir}})
      BY <2>1 DEF FlushPending
    <3> QED BY <3>1, UnwatchKeepsNodes
  <2>2. CASE UnwatchGone
    BY <2>2, UnwatchKeepsNodes DEF UnwatchGone
  <2>3. CASE RenameWatched
    BY <2>3, RenameKeepsNodes
  <2>4. CASE DropWatch
    <3>1. PICK gone :
            /\ watched' = Without(watched, gone)
            /\ rootDirs' = [rt \in DOMAIN rootDirs |->
                              rootDirs[rt] \ {dir \in gone : rt \in watched[dir].roots}]
      BY <2>4 DEF DropWatch
    <3> QED BY <3>1 DEF NodesAreReleasable, Without, Restrict
  <2>5. CASE ~FlushPending /\ ~UnwatchGone /\ ~RenameWatched /\ ~DropWatch
    BY <1>1, <1>3, <2>5 DEF RunStep, Read, RunExits, BufferDone, HandleUnknown, HandleOverflow,
       HandleMovedFrom, HandleContent, HandleAppeared, SnapshotRoots, WalkNextRoot, WalksDone,
       Report, HandleGone, ReportGone, HandleIgnored, Emit, tables
  <2> QED BY <2>1, <2>2, <2>3, <2>4, <2>5
<1>4. CASE (DiskChanges /\ UNCHANGED tables) \/ CloseFlag \/ CloseDescriptor \/ UNCHANGED vars
  BY <1>1, <1>4 DEF CloseFlag, CloseDescriptor, vars, tables
<1> QED BY <1>2, <1>3, <1>4, WalkKeepsNodes DEF Next

(***************************************************************************)
(* Whatever happens on disk, renames included, to the queue and to the     *)
(* roots: a directory is enrolled only for registered roots, for at least  *)
(* one, and each of them has it on its list, so that Remove of the last    *)
(* root empties the table (ForgetRoot, renameWatchedPrefix, addDir).       *)
(***************************************************************************)
THEOREM NodesStayReleasable == Spec => []NodesAreReleasable
<1>1. Init => NodesAreReleasable
  BY DEF Init, NodesAreReleasable
<1> QED BY <1>1, NodesStep, TypesInvariant, PTL DEF Spec

----------------------------------------------------------------------------
(***************************************************************************)
(* Without renames an inode, and so a descriptor, stands for one path for  *)
(* good.  The kernel and the table agree on which one, as long as both     *)
(* know the descriptor, and what is in the queue was true when it was put  *)
(* there: an entry of a watched directory, or a watch that is no more.     *)
(***************************************************************************)
NoRenames == "move" \notin Changes

InodesNamed  == \A p \in DOMAIN fs : fs[p].ino[1] = p
WatchesNamed == \A wd \in DOMAIN watches \cap DOMAIN wdToPath : watches[wd][1] = wdToPath[wd]

SoundFor(ws, paths, next) ==
    {raw \in Raws :
       /\ raw.wd < next
       /\ raw.kind = "IGNORED" => raw.wd \notin DOMAIN ws
       /\ raw.name # NoName =>
            /\ raw.wd \in DOMAIN ws => Append(ws[raw.wd][1], raw.name) \in Tree
            /\ raw.wd \in DOMAIN paths => Append(paths[raw.wd], raw.name) \in Tree}
Sound == SoundFor(watches, wdToPath, nextWd)

Heard == kq \in Seq(Sound) /\ buf \in Seq(Sound)

NoHalves == pending = <<>> /\ runPc # "rename" /\ cur.old = NoPath

(* Between the look-up of handle() and dropWatch the descriptor that is gone
   may be forgotten, but it does not come to stand for another directory. *)
Dropping ==
    runPc = "drop" =>
      /\ cur.raw \in Sound /\ cur.raw.kind = "IGNORED"
      /\ cur.raw.wd \in DOMAIN wdToPath => wdToPath[cur.raw.wd] = cur.path

TablesInTree ==
    /\ DOMAIN watched \subseteq Tree /\ \A p \in DOMAIN rootDirs : rootDirs[p] \subseteq Tree
    /\ \A wd \in DOMAIN wdToPath : wdToPath[wd] \in Tree

InTree ==
    /\ TablesInTree
    /\ runPc \in {"snapshot", "walk"} => cur.path \in Tree
    /\ \A w \in Walkers : walk[w].todo \subseteq Tree

Steady == InodesNamed /\ WatchesNamed /\ Heard /\ NoHalves /\ InTree /\ TablesAgree /\ Dropping

LEMMA SteadyInit == NoRenames /\ Init => Steady
<1> SUFFICES ASSUME NoRenames, Init PROVE Steady
  OBVIOUS
<1> USE DEF Init, InotifyInit
<1>1. InodesNamed /\ WatchesNamed /\ NoHalves /\ Dropping
  BY DEF InodesNamed, WatchesNamed, NoHalves, NoEvent, Dropping
<1>2. Heard
  BY DEF Heard
<1>3. InTree
  <2>1. \A w \in Walkers : walk[w].todo = {}
    BY DEF Idle
  <2> QED BY <2>1 DEF InTree, TablesInTree
<1>4. TablesAgree
  BY DEF TablesAgree, WatchedWds
<1> QED BY <1>1, <1>2, <1>3, <1>4 DEF Steady

(* A step takes descriptors away, or adds ones that were never used. *)
WatchesLast ==
    /\ nextWd <= nextWd'
    /\ \A wd \in DOMAIN watches' : wd < nextWd => wd \in DOMAIN watches /\ watches'[wd] = watches[wd]
PathsLast ==
    \A wd \in DOMAIN wdToPath' : wd < nextWd => wd \in DOMAIN wdToPath /\ wdToPath'[wd] = wdToPath[wd]

LEMMA SoundLasts ==
    ASSUME KernelTyped, KernelTyped', WatchesLast, PathsLast
    PROVE  Sound \subseteq Sound'
<1> USE DEF Sound, SoundFor
<1>1. ASSUME NEW raw \in Sound PROVE raw \in Sound'
  <2>1. raw \in Raws /\ raw.wd < nextWd /\ raw.wd \in Nat
    <3>1. raw \in Raws /\ raw.wd < nextWd
      OBVIOUS
    <3> QED BY <3>1, RawsAreNotices
  <2>2. raw.wd < nextWd'
    BY <2>1 DEF WatchesLast, KernelTyped
  <2>3. raw.kind = "IGNORED" => raw.wd \notin DOMAIN watches'
    BY <1>1, <2>1 DEF WatchesLast
  <2>4. raw.name # NoName /\ raw.wd \in DOMAIN watches' => Append(watches'[raw.wd][1], raw.name) \in Tree
    BY <1>1, <2>1 DEF WatchesLast
  <2>5. raw.name # NoName /\ raw.wd \in DOMAIN wdToPath' => Append(wdToPath'[raw.wd], raw.name) \in Tree
    BY <1>1, <2>1 DEF PathsLast
  <2> QED BY <2>1, <2>2, <2>3, <2>4, <2>5
<1> QED BY <1>1

LEMMA SeqOfMore ==
    ASSUME NEW S, NEW T, S \subseteq T, NEW s \in Seq(S)
    PROVE  s \in Seq(T)
OBVIOUS

LEMMA OverflowIsSound ==
    ASSUME NEW ws, NEW paths, NEW next \in Nat \ {0}
    PROVE  RawOverflow \in SoundFor(ws, paths, next)
BY DEF SoundFor, Raws, RawOverflow

LEMMA IgnoredIsSound ==
    ASSUME NEW ws, NEW paths, NEW next \in Nat, NEW wd \in Nat, wd < next, wd \notin DOMAIN ws
    PROVE  [kind |-> "IGNORED", wd |-> wd, name |-> NoName, isDir |-> FALSE, cookie |-> 0]
             \in SoundFor(ws, paths, next)
BY DEF SoundFor, Raws, Ignores

LEMMA NoticeIsSound ==
    ASSUME NEW ws, NEW paths, NEW next \in Nat, NEW raw \in Notices, raw.wd < next,
           raw.name # NoName =>
             /\ raw.wd \in DOMAIN ws => Append(ws[raw.wd][1], raw.name) \in Tree
             /\ raw.wd \in DOMAIN paths => Append(paths[raw.wd], raw.name) \in Tree
    PROVE  raw \in SoundFor(ws, paths, next)
<1>1. raw \in Raws /\ raw.kind # "IGNORED"
  BY DEF Raws, Notices, Kinds
<1> QED BY <1>1 DEF SoundFor

LEMMA DiskIsSound ==
    ASSUME KernelTyped, KernelTyped', InodesNamed, WatchesNamed, WatchesLast, PathsLast,
           UNCHANGED <<nextWd, wdToPath>>
    PROVE  Tellable(Sound')
<1>1. nextWd' \in Nat \ {0} /\ \A wd \in DOMAIN watches : wd \in Nat /\ wd < nextWd'
  BY DEF KernelTyped
<1>2. RawOverflow \in Sound'
  BY <1>1, OverflowIsSound DEF Sound
<1>3. ASSUME NEW path, NEW kind \in Kinds, NEW name \in Components \cup {NoName}, NEW isDir \in BOOLEAN,
             Exists(path), name # NoName => Append(path, name) \in Tree
      PROVE  Told(path, kind, name, isDir) \subseteq Sound'
  <2>1. ASSUME NEW wd \in Watching(fs[path].ino)
        PROVE  [kind |-> kind, wd |-> wd, name |-> name, isDir |-> isDir, cookie |-> changes] \in Sound'
    <3> DEFINE raw == [kind |-> kind, wd |-> wd, name |-> name, isDir |-> isDir, cookie |-> changes]
    <3>1. wd \in DOMAIN watches /\ watches[wd] = fs[path].ino /\ wd \in Nat /\ wd < nextWd'
      BY <1>1 DEF Watching
    <3>2. raw \in Notices /\ raw.wd = wd /\ raw.name = name
      BY <3>1 DEF Notices, KernelTyped
    <3>3. ASSUME name # NoName
          PROVE  /\ wd \in DOMAIN watches' => Append(watches'[wd][1], name) \in Tree
                 /\ wd \in DOMAIN wdToPath' => Append(wdToPath'[wd], name) \in Tree
      <4>1. watches[wd][1] = path
        BY <1>3, <3>1, <3>3 DEF InodesNamed, Exists
      <4>2. wd \in DOMAIN watches' => watches'[wd] = watches[wd]
        BY <3>1 DEF WatchesLast
      <4>3. wd \in DOMAIN wdToPath' => wdToPath'[wd] = path
        BY <3>1, <4>1 DEF WatchesNamed
      <4> QED BY <1>3, <3>3, <4>1, <4>2, <4>3
    <3> HIDE DEF raw
    <3>5. raw \in Sound'
      BY <1>1, <3>1, <3>2, <3>3, NoticeIsSound DEF Sound
    <3> QED BY <3>5 DEF raw
  <2> QED BY <2>1 DEF Told
<1>4. \A path \in DOMAIN fs, kind \in Kinds, isDir \in BOOLEAN :
        Told(path, kind, NoName, isDir) \subseteq Sound'
  BY <1>3 DEF Exists
<1>5. ASSUME NEW path \in Tree \ {<<>>}, NEW kind \in Kinds, NEW isDir \in BOOLEAN,
             Exists(ParentDir(path))
      PROVE  Told(ParentDir(path), kind, Last(path), isDir) \subseteq Sound'
  <2>1. Last(path) \in Components /\ Append(ParentDir(path), Last(path)) \in Tree
    BY LastIsComponent
  <2> QED BY <1>3, <1>5, <2>1
<1>6. ASSUME NEW wd \in DOMAIN watches \ DOMAIN watches'
      PROVE  [kind |-> "IGNORED", wd |-> wd, name |-> NoName, isDir |-> FALSE, cookie |-> 0] \in Sound'
  <2>1. wd \in Nat /\ wd < nextWd' /\ wd \notin DOMAIN watches'
    BY <1>1
  <2> QED BY <1>1, <2>1, IgnoredIsSound DEF Sound
<1> QED BY <1>2, <1>4, <1>5, <1>6 DEF Tellable

LEMMA RmWatchesIsSound ==
    ASSUME KernelTyped, KernelTyped', Heard, PathsLast, NEW wds, RmWatches(wds)
    PROVE  /\ WatchesLast /\ UNCHANGED <<fs, nextWd>>
           /\ DOMAIN watches' = DOMAIN watches \ wds
           /\ \A wd \in DOMAIN watches' : watches'[wd] = watches[wd]
           /\ kq' \in Seq(Sound')
<1>1. watches' = Restrict(watches, DOMAIN watches \ (wds \cap DOMAIN watches))
      /\ UNCHANGED <<fs, nextWd, changes>>
  BY DEF RmWatches
<1>2. /\ DOMAIN watches' = DOMAIN watches \ wds
      /\ \A wd \in DOMAIN watches' : watches'[wd] = watches[wd]
  BY <1>1 DEF Restrict
<1>3. WatchesLast
  <2>1. nextWd \in Nat /\ nextWd' = nextWd
    BY <1>1 DEF KernelTyped
  <2> QED BY <1>2, <2>1 DEF WatchesLast
<1>4. kq \in Seq(Sound')
  BY <1>3, SoundLasts, SeqOfMore DEF Heard
<1>5. nextWd' \in Nat \ {0} /\ \A wd \in DOMAIN watches : wd \in Nat /\ wd < nextWd'
  BY <1>1 DEF KernelTyped
<1>6. RawOverflow \in Sound'
  BY <1>5, OverflowIsSound DEF Sound
<1>7. ASSUME NEW wd \in wds \cap DOMAIN watches
      PROVE  [kind |-> "IGNORED", wd |-> wd, name |-> NoName, isDir |-> FALSE, cookie |-> 0] \in Sound'
  <2>1. wd \in Nat /\ wd < nextWd' /\ wd \notin DOMAIN watches'
    BY <1>2, <1>5
  <2> QED BY <1>5, <2>1, IgnoredIsSound DEF Sound
<1>8. kq' \in Seq(Sound')
  <2> HIDE DEF Sound
  <2> QED BY <1>4, <1>6, <1>7, RmWatchesTells
<1> QED BY <1>1, <1>2, <1>3, <1>8

(* Directories leave the table, and their lists; with them the descriptors
   wds are forgotten, and those of the directories that are not among wds are
   astray. *)
LEMMA DropKeepsTables ==
    ASSUME TablesAgree, WatchesNamed, TablesInTree,
           NEW gone \in SUBSET DOMAIN watched, NEW wds,
           watched' = Without(watched, gone),
           DOMAIN wdToPath' = DOMAIN wdToPath \ wds,
           \A wd \in DOMAIN wdToPath' : wdToPath'[wd] = wdToPath[wd],
           rootDirs' = [rt \in DOMAIN rootDirs |->
                          rootDirs[rt] \ {dir \in gone : rt \in watched[dir].roots}],
           astray' = astray \cup ({watched[dir].wd : dir \in gone} \ wds),
           wds \cap WatchedWds \subseteq {watched[dir].wd : dir \in gone},
           DOMAIN watches' \subseteq DOMAIN watches \ wds,
           \A wd \in DOMAIN watches' : watches'[wd] = watches[wd]
    PROVE  /\ TablesAgree' /\ WatchesNamed' /\ PathsLast /\ TablesInTree'
           /\ WatchedWds' = WatchedWds \ {watched[dir].wd : dir \in gone}
<1> DEFINE freed == {watched[dir].wd : dir \in gone}
<1>1. \A dir \in DOMAIN watched : watched[dir].wd \in freed => dir \in gone
  BY DEF TablesAgree
<1>2. /\ DOMAIN watched' = DOMAIN watched \ gone
      /\ \A dir \in DOMAIN watched' : watched'[dir] = watched[dir]
  BY DEF Without, Restrict
<1>3. WatchedWds' = WatchedWds \ freed
  <2>1. \A dir \in DOMAIN watched \ gone : watched[dir].wd \notin freed
    BY <1>1
  <2> QED BY <1>2, <2>1 DEF WatchedWds
<1>4. freed \subseteq WatchedWds
  BY DEF WatchedWds
<1> HIDE DEF freed
<1>5. TablesAgree'
  <2>1. WatchedWds' \cup DOMAIN watches' \subseteq DOMAIN wdToPath'
    BY <1>3 DEF TablesAgree, freed
  <2>2. DOMAIN wdToPath' \subseteq WatchedWds' \cup astray'
    BY <1>3 DEF TablesAgree, freed
  <2>3. WatchedWds' \cap astray' = {}
    BY <1>3 DEF TablesAgree, freed
  <2>4. \A dir \in DOMAIN watched' : wdToPath'[watched'[dir].wd] = dir
    <3>1. \A dir \in DOMAIN watched' : watched'[dir].wd \in DOMAIN wdToPath'
      BY <2>1 DEF WatchedWds
    <3> QED BY <1>2, <3>1 DEF TablesAgree
  <2>5. ASSUME NEW p \in DOMAIN rootDirs', NEW dir \in Tree
        PROVE  dir \in rootDirs'[p] <=> dir \in DOMAIN watched' /\ p \in watched'[dir].roots
    BY <1>2 DEF TablesAgree
  <2> QED BY <2>1, <2>2, <2>3, <2>4, <2>5 DEF TablesAgree
<1>6. WatchesNamed' /\ PathsLast
  BY DEF WatchesNamed, PathsLast
<1>7. TablesInTree'
  BY <1>2 DEF TablesInTree
<1> QED BY <1>3, <1>5, <1>6, <1>7 DEF freed

LEMMA ForgetKeepsTables ==
    ASSUME KernelTyped, KernelTyped', TablesTyped, Steady, NodesAreReleasable,
           NEW path \in DOMAIN roots, ForgetRoot(path), UNCHANGED astray
    PROVE  /\ TablesAgree' /\ WatchesNamed' /\ InodesNamed' /\ TablesInTree'
           /\ WatchesLast /\ PathsLast /\ kq' \in Seq(Sound')
           /\ \E wds : RmWatches(wds) /\ WatchedWds' = WatchedWds \ wds
<1> USE DEF Steady, InTree
<1> DEFINE dirs == rootDirs[path] \cap DOMAIN watched
           dead == {dir \in dirs : watched[dir].roots \subseteq {path}}
           wds  == {watched[dir].wd : dir \in dead}
<1>1. RmWatches(wds) /\ wdToPath' = Without(wdToPath, wds) /\ rootDirs' = Without(rootDirs, {path})
  BY DEF ForgetRoot
<1>2. watched' = [dir \in DOMAIN watched \ dead |->
                    IF dir \in dirs THEN [watched[dir] EXCEPT !.roots = @ \ {path}] ELSE watched[dir]]
  BY DEF ForgetRoot
<1>3. \A dir \in DOMAIN watched : path \in watched[dir].roots => dir \in dirs
  BY DEF NodesAreReleasable
<1>4. dead \subseteq DOMAIN watched
  OBVIOUS
<1> HIDE DEF dead, dirs
<1>5. \A dir \in DOMAIN watched : watched[dir].wd \in wds => dir \in dead
  BY <1>4 DEF TablesAgree
<1>6. /\ DOMAIN watched' = DOMAIN watched \ dead
      /\ \A dir \in DOMAIN watched' : /\ watched'[dir].wd = watched[dir].wd
                                      /\ watched'[dir].roots = watched[dir].roots \ {path}
  <2>1. ASSUME NEW dir \in DOMAIN watched \ dead
        PROVE  watched'[dir].wd = watched[dir].wd /\ watched'[dir].roots = watched[dir].roots \ {path}
    <3>1. watched[dir] \in Node
      BY DEF TablesTyped
    <3> QED BY <1>2, <1>3, <3>1 DEF Node
  <2> QED BY <1>2, <2>1
<1>7. /\ DOMAIN wdToPath' = DOMAIN wdToPath \ wds
      /\ \A wd \in DOMAIN wdToPath' : wdToPath'[wd] = wdToPath[wd]
  BY <1>1 DEF Without, Restrict
<1>8. PathsLast
  BY <1>7 DEF PathsLast
<1>9. /\ WatchesLast /\ UNCHANGED <<fs, nextWd>> /\ DOMAIN watches' = DOMAIN watches \ wds
      /\ \A wd \in DOMAIN watches' : watches'[wd] = watches[wd]
      /\ kq' \in Seq(Sound')
  <2> HIDE DEF wds
  <2> QED BY <1>1, <1>8, RmWatchesIsSound
<1>10. WatchedWds' = WatchedWds \ wds
  <2>1. \A dir \in DOMAIN watched \ dead : watched[dir].wd \notin wds
    BY <1>5
  <2> QED BY <1>6, <2>1 DEF WatchedWds
<1>11. TablesAgree'
  <2>0. /\ WatchedWds' \cup DOMAIN watches' \subseteq DOMAIN wdToPath'
        /\ DOMAIN wdToPath' \subseteq WatchedWds' \cup astray' /\ WatchedWds' \cap astray' = {}
    <3> HIDE DEF wds
    <3> QED BY <1>7, <1>9, <1>10 DEF TablesAgree
  <2>1. \A dir \in DOMAIN watched' : wdToPath'[watched'[dir].wd] = dir
    BY <1>5, <1>6, <1>7 DEF TablesAgree, WatchedWds
  <2>2. ASSUME NEW p \in DOMAIN rootDirs', NEW dir \in Tree
        PROVE  dir \in rootDirs'[p] <=> dir \in DOMAIN watched' /\ p \in watched'[dir].roots
    <3>1. p \in DOMAIN rootDirs /\ p # path /\ rootDirs'[p] = rootDirs[p]
      BY <1>1 DEF Without, Restrict
    <3>2. dir \in dead => p \notin watched[dir].roots
      BY <3>1 DEF dead
    <3> QED BY <1>6, <3>1, <3>2 DEF TablesAgree
  <2> QED BY <2>0, <2>1, <2>2 DEF TablesAgree
<1>12. WatchesNamed' /\ InodesNamed'
  BY <1>7, <1>9 DEF WatchesNamed, InodesNamed
<1>13. TablesInTree'
  BY <1>1, <1>6, <1>7 DEF TablesInTree, Without, Restrict
<1> QED BY <1>1, <1>8, <1>9, <1>10, <1>11, <1>12, <1>13

LEMMA UnwatchKeepsTables ==
    ASSUME KernelTyped, KernelTyped', Steady, NEW prefixes, Unwatch(prefixes)
    PROVE  /\ TablesAgree' /\ WatchesNamed' /\ InodesNamed' /\ TablesInTree'
           /\ WatchesLast /\ PathsLast /\ kq' \in Seq(Sound')
           /\ \E wds : RmWatches(wds) /\ WatchedWds' = WatchedWds \ wds
<1> USE DEF Steady, InTree
<1> DEFINE gone == {dir \in DOMAIN watched : \E p \in prefixes : HasPathPrefix(dir, p)}
           wds  == {watched[dir].wd : dir \in gone}
<1>1. RmWatches(wds) /\ wdToPath' = Without(wdToPath, wds) /\ watched' = Without(watched, gone)
  BY DEF Unwatch
<1>2. rootDirs' = [rt \in DOMAIN rootDirs |->
                     rootDirs[rt] \ {dir \in gone : rt \in watched[dir].roots}]
      /\ astray' = astray
  BY DEF Unwatch
<1>3. gone \in SUBSET DOMAIN watched
  OBVIOUS
<1>4. PathsLast /\ DOMAIN wdToPath' = DOMAIN wdToPath \ wds
      /\ \A wd \in DOMAIN wdToPath' : wdToPath'[wd] = wdToPath[wd]
  BY <1>1 DEF PathsLast, Without, Restrict
<1> HIDE DEF gone
<1>5. /\ WatchesLast /\ UNCHANGED <<fs, nextWd>> /\ DOMAIN watches' = DOMAIN watches \ wds
      /\ \A wd \in DOMAIN watches' : watches'[wd] = watches[wd]
      /\ kq' \in Seq(Sound')
  <2> HIDE DEF wds
  <2> QED BY <1>1, <1>4, RmWatchesIsSound
<1>6. wds \subseteq {watched[dir].wd : dir \in gone}
  OBVIOUS
<1>7. /\ TablesAgree' /\ WatchesNamed' /\ TablesInTree'
      /\ WatchedWds' = WatchedWds \ {watched[dir].wd : dir \in gone}
  <2> DEFINE forgotten == wds
  <2> HIDE DEF forgotten
  <2>1. forgotten = {watched[dir].wd : dir \in gone}
    BY DEF forgotten
  <2> HIDE DEF wds
  <2>2. DOMAIN wdToPath' = DOMAIN wdToPath \ forgotten /\ DOMAIN watches' \subseteq DOMAIN watches \ forgotten
        /\ forgotten \cap WatchedWds \subseteq {watched[dir].wd : dir \in gone}
    BY <1>4, <1>5, <2>1 DEF forgotten
  <2>3. astray' = astray \cup ({watched[dir].wd : dir \in gone} \ forgotten)
    BY <1>2, <2>1
  <2> QED BY <1>1, <1>2, <1>3, <1>4, <1>5, <2>2, <2>3, DropKeepsTables
<1>8. InodesNamed'
  BY <1>5 DEF InodesNamed
<1> QED BY <1>1, <1>4, <1>5, <1>7, <1>8

(* dropWatch: the descriptor of the event has no other node than the one that
   is dropped, and the kernel does not watch it. *)
LEMMA DropWatchKeepsTables ==
    ASSUME TablesTyped, Steady, DropWatch
    PROVE  /\ TablesAgree' /\ WatchesNamed' /\ PathsLast /\ TablesInTree'
           /\ WatchedWds' \subseteq WatchedWds \ {cur.raw.wd}
<1> USE DEF Steady, InTree
<1> DEFINE wd == cur.raw.wd
           gone == {cur.path} \cap DOMAIN watched
           freed == {watched[dir].wd : dir \in gone}
           wds == IF gone = {} THEN {} ELSE {wd}
<1>1. wd \notin DOMAIN watches /\ (wd \in DOMAIN wdToPath => wdToPath[wd] = cur.path)
  BY DEF DropWatch, Dropping, Sound, SoundFor
<1>2. wd \in WatchedWds => cur.path \in DOMAIN watched /\ watched[cur.path].wd = wd
  BY <1>1 DEF TablesAgree, WatchedWds
<1>3. wd \in WatchedWds => gone # {} /\ wd \in freed
  BY <1>2
<1>4. /\ watched' = Without(watched, gone) /\ UNCHANGED watches
      /\ wdToPath' = IF gone = {} THEN wdToPath ELSE Without(wdToPath, {wd})
      /\ rootDirs' = [rt \in DOMAIN rootDirs |->
                        rootDirs[rt] \ {dir \in gone : rt \in watched[dir].roots}]
      /\ astray' = astray \cup (freed \ {wd})
  BY DEF DropWatch, kernelVars
<1>5. gone \in SUBSET DOMAIN watched /\ (gone = {} => freed = {})
  OBVIOUS
<1> HIDE DEF gone, wd
<1>6. /\ DOMAIN wdToPath' = DOMAIN wdToPath \ wds
      /\ \A d \in DOMAIN wdToPath' : wdToPath'[d] = wdToPath[d]
  BY <1>4 DEF Without, Restrict
<1>7. /\ astray' = astray \cup (freed \ wds) /\ wds \cap WatchedWds \subseteq freed
      /\ DOMAIN watches' \subseteq DOMAIN watches \ wds
      /\ \A d \in DOMAIN watches' : watches'[d] = watches[d]
  BY <1>1, <1>3, <1>4, <1>5
<1> HIDE DEF wds
<1>8. TablesAgree' /\ WatchesNamed' /\ PathsLast /\ TablesInTree' /\ WatchedWds' = WatchedWds \ freed
  BY <1>4, <1>5, <1>6, <1>7, DropKeepsTables
<1> QED BY <1>3, <1>8 DEF wd

LEMMA RegisterKeepsTables ==
    ASSUME TablesTyped, NodesAreReleasable, TablesAgree, NEW path, path \notin DOMAIN roots,
           rootDirs' = Put(rootDirs, path, {}), UNCHANGED <<watched, wdToPath, watches, astray>>
    PROVE  TablesAgree'
<1>1. path \notin DOMAIN rootDirs /\ \A dir \in DOMAIN watched : path \notin watched[dir].roots
  BY DEF TablesTyped, NodesAreReleasable
<1> QED BY <1>1 DEF TablesAgree, WatchedWds, Put

(* A directory without a node has an inode without a watch, and the
   descriptor that inotify_add_watch returns is new; or the watch it has is
   an astray one, which stands for the directory already. *)
LEMMA FreeDescriptor ==
    ASSUME KernelTyped, Steady, NEW dir, IsDirectory(dir), dir \notin DOMAIN watched
    PROVE  \/ WatchFor(dir) = nextWd
           \/ /\ WatchFor(dir) \in DOMAIN watches /\ watches[WatchFor(dir)] = fs[dir].ino
              /\ WatchFor(dir) \in DOMAIN wdToPath /\ wdToPath[WatchFor(dir)] = dir
              /\ WatchFor(dir) \notin WatchedWds
<1>1. ASSUME NEW wd \in Watching(fs[dir].ino)
      PROVE  /\ wd \in DOMAIN watches /\ watches[wd] = fs[dir].ino
             /\ wd \in DOMAIN wdToPath /\ wdToPath[wd] = dir /\ wd \notin WatchedWds
  <2>1. wd \in DOMAIN watches /\ watches[wd] = fs[dir].ino /\ fs[dir].ino[1] = dir
    BY DEF Watching, IsDirectory, Exists, Steady, InodesNamed
  <2>2. wd \in DOMAIN wdToPath
    BY <2>1 DEF Steady, TablesAgree
  <2>3. wdToPath[wd] = dir
    BY <2>1, <2>2 DEF Steady, WatchesNamed
  <2>4. ASSUME wd \in WatchedWds PROVE FALSE
    BY <2>3, <2>4 DEF Steady, TablesAgree, WatchedWds
  <2> QED BY <2>1, <2>2, <2>3, <2>4
<1> QED BY <1>1 DEF WatchFor

LEMMA AddDirKeepsTables ==
    ASSUME KernelTyped, TablesTyped, Steady, NodesAreReleasable, NEW dir \in Tree, NEW rt \in DOMAIN rootDirs,
           IsDirectory(dir), dir \notin DOMAIN watched, AddWatch(dir),
           Enroll(dir, [wd |-> WatchFor(dir), roots |-> {rt}], rt),
           wdToPath' = Put(wdToPath, WatchFor(dir), dir)
    PROVE  /\ TablesAgree' /\ WatchesNamed' /\ WatchesLast /\ PathsLast /\ TablesInTree'
           /\ WatchedWds' = WatchedWds \cup {WatchFor(dir)}
<1> USE DEF Steady, InTree
<1>1. PICK new : new = WatchFor(dir)
  OBVIOUS
<1>2. PICK node : node = [wd |-> new, roots |-> {rt}]
  OBVIOUS
<1>3. node.wd = new /\ node.roots = {rt}
  BY <1>2
<1>4. /\ DOMAIN watched' = DOMAIN watched \cup {dir} /\ watched'[dir] = node
      /\ \A d \in DOMAIN watched : watched'[d] = watched[d]
      /\ rootDirs' = [rootDirs EXCEPT ![rt] = @ \cup {dir}]
      /\ astray' = astray \ {new}
  BY <1>1, <1>2, <1>3 DEF Enroll, Put
<1>5. /\ nextWd \in Nat \ {0} /\ DOMAIN watches \subseteq 1 .. nextWd - 1
      /\ DOMAIN wdToPath \subseteq 1 .. nextWd - 1
      /\ nextWd \notin DOMAIN watches /\ nextWd \notin DOMAIN wdToPath
  BY DEF KernelTyped, TablesTyped
<1>6. \/ new = nextWd
      \/ /\ new \in DOMAIN watches /\ watches[new] = fs[dir].ino
         /\ new \in DOMAIN wdToPath /\ wdToPath[new] = dir
  BY <1>1, FreeDescriptor
<1>6a. new \notin WatchedWds
  <2>1. nextWd \notin WatchedWds
    BY <1>5 DEF TablesAgree
  <2> QED BY <1>1, <2>1, FreeDescriptor
<1>7. /\ DOMAIN wdToPath' = DOMAIN wdToPath \cup {new} /\ wdToPath'[new] = dir
      /\ \A wd \in DOMAIN wdToPath : wdToPath'[wd] = wdToPath[wd]
  BY <1>1, <1>5, <1>6 DEF Put
<1>8. /\ DOMAIN watches' = DOMAIN watches \cup {new} /\ watches'[new] = fs[dir].ino
      /\ \A wd \in DOMAIN watches : watches'[wd] = watches[wd]
      /\ nextWd <= nextWd'
  BY <1>1, <1>5, <1>6 DEF AddWatch
<1>9. WatchesLast /\ PathsLast
  BY <1>5, <1>6, <1>7, <1>8 DEF WatchesLast, PathsLast
<1>10. WatchesNamed'
  <2>1. fs[dir].ino[1] = dir
    BY DEF InodesNamed, IsDirectory, Exists
  <2>2. ASSUME NEW wd \in DOMAIN watches', wd # new PROVE watches'[wd][1] = wdToPath'[wd]
    <3>1. wd \in DOMAIN watches /\ wd \in DOMAIN wdToPath
      BY <1>8, <2>2 DEF TablesAgree
    <3> QED BY <1>7, <1>8, <3>1 DEF WatchesNamed
  <2> QED BY <1>7, <1>8, <2>1, <2>2 DEF WatchesNamed
<1>11. WatchedWds' = WatchedWds \cup {new}
  BY <1>3, <1>4 DEF WatchedWds
<1>13. TablesAgree'
  <2>1. \A d \in DOMAIN watched : watched[d].wd \in DOMAIN wdToPath /\ wdToPath[watched[d].wd] = d
    BY DEF TablesAgree, WatchedWds
  <2>2. \A d \in DOMAIN watched' : wdToPath'[watched'[d].wd] = d
    BY <1>3, <1>4, <1>7, <2>1
  <2>3. /\ WatchedWds' \cup DOMAIN watches' \subseteq DOMAIN wdToPath'
        /\ DOMAIN wdToPath' \subseteq WatchedWds' \cup astray' /\ WatchedWds' \cap astray' = {}
    BY <1>4, <1>7, <1>8, <1>11 DEF TablesAgree
  <2>4. ASSUME NEW p \in DOMAIN rootDirs', NEW d \in Tree
        PROVE  d \in rootDirs'[p] <=> d \in DOMAIN watched' /\ p \in watched'[d].roots
    <3>1. p \in DOMAIN rootDirs /\ rootDirs'[p] = IF p = rt THEN rootDirs[p] \cup {dir} ELSE rootDirs[p]
      BY <1>4
    <3>2. dir \notin rootDirs[p]
      BY <3>1 DEF TablesAgree
    <3>3. d \in rootDirs[p] <=> d \in DOMAIN watched /\ p \in watched[d].roots
      BY <3>1 DEF TablesAgree
    <3> QED BY <1>3, <1>4, <3>1, <3>2, <3>3
  <2> QED BY <2>2, <2>3, <2>4 DEF TablesAgree
<1>14. TablesInTree'
  BY <1>4, <1>7 DEF TablesInTree
<1> QED BY <1>1, <1>9, <1>10, <1>11, <1>13, <1>14

LEMMA SharedKeepsTables ==
    ASSUME TablesTyped, TablesAgree, InTree, NEW dir \in DOMAIN watched, NEW rt \in DOMAIN rootDirs,
           Enroll(dir, [watched[dir] EXCEPT !.roots = @ \cup {rt}], rt), UNCHANGED <<watches, wdToPath>>
    PROVE  TablesAgree' /\ TablesInTree' /\ WatchedWds' = WatchedWds
<1>1. PICK node : node = [watched[dir] EXCEPT !.roots = @ \cup {rt}]
  OBVIOUS
<1>2. node.wd = watched[dir].wd /\ node.roots = watched[dir].roots \cup {rt}
  BY <1>1 DEF TablesTyped, Node
<1>3. /\ DOMAIN watched' = DOMAIN watched /\ watched'[dir] = node
      /\ \A d \in DOMAIN watched \ {dir} : watched'[d] = watched[d]
      /\ rootDirs' = [rootDirs EXCEPT ![rt] = @ \cup {dir}]
      /\ astray' = astray \ {node.wd}
  BY <1>1 DEF Enroll, Put
<1>4. \A d \in DOMAIN watched : watched'[d].wd = watched[d].wd
  BY <1>2, <1>3
<1>5. WatchedWds' = WatchedWds
  BY <1>3, <1>4 DEF WatchedWds
<1>6. astray' = astray
  BY <1>2, <1>3 DEF TablesAgree, WatchedWds
<1>7. TablesAgree'
  <2>1. ASSUME NEW p \in DOMAIN rootDirs', NEW d \in Tree
        PROVE  d \in rootDirs'[p] <=> d \in DOMAIN watched' /\ p \in watched'[d].roots
    <3>1. p \in DOMAIN rootDirs /\ rootDirs'[p] = IF p = rt THEN rootDirs[p] \cup {dir} ELSE rootDirs[p]
      BY <1>3
    <3>2. d \in rootDirs[p] <=> d \in DOMAIN watched /\ p \in watched[d].roots
      BY <3>1 DEF TablesAgree
    <3> QED BY <1>2, <1>3, <3>1, <3>2
  <2>2. /\ WatchedWds' \cup DOMAIN watches' \subseteq DOMAIN wdToPath'
        /\ DOMAIN wdToPath' \subseteq WatchedWds' \cup astray' /\ WatchedWds' \cap astray' = {}
    BY <1>2, <1>3, <1>5, <1>6 DEF TablesAgree
  <2> QED BY <1>3, <1>4, <2>1, <2>2 DEF TablesAgree
<1>8. TablesInTree'
  BY <1>3 DEF InTree, TablesInTree
<1> QED BY <1>5, <1>7, <1>8

(* What is being dropped is so until dropWatch. *)
DropGoesOn == runPc' = "drop" => runPc = "drop" /\ UNCHANGED cur

(* The parts of Steady that a step brings about itself. *)
LEMMA TablesSteady ==
    ASSUME KernelTyped, KernelTyped', Steady, WatchesLast, PathsLast, InodesNamed',
           TablesAgree', WatchesNamed', InTree', NoHalves', DropGoesOn,
           kq' \in Seq(Sound'), buf' \in Seq(Sound)
    PROVE  Steady'
<1>1. Heard'
  BY SoundLasts, SeqOfMore DEF Heard
<1>2. Dropping'
  <2> SUFFICES ASSUME runPc' = "drop"
               PROVE  /\ cur'.raw \in Sound' /\ cur'.raw.kind = "IGNORED"
                      /\ cur'.raw.wd \in DOMAIN wdToPath' => wdToPath'[cur'.raw.wd] = cur'.path
    BY DEF Dropping
  <2>1. /\ cur' = cur /\ cur.raw \in Sound /\ cur.raw.kind = "IGNORED"
        /\ cur.raw.wd \in DOMAIN wdToPath => wdToPath[cur.raw.wd] = cur.path
    BY DEF DropGoesOn, Steady, Dropping
  <2>2. cur.raw \in Sound'
    BY <2>1, SoundLasts
  <2>3. cur.raw.wd < nextWd
    BY <2>1 DEF Sound, SoundFor
  <2>4. cur.raw.wd \in DOMAIN wdToPath' => wdToPath'[cur.raw.wd] = cur.path
    BY <2>1, <2>3 DEF PathsLast
  <2> QED BY <2>1, <2>2, <2>4
<1> QED BY <1>1, <1>2 DEF Steady

LEMMA QuietSteady ==
    ASSUME KernelTyped, KernelTyped', Steady, UNCHANGED <<fs, watches, nextWd, tables, astray>>,
           InTree', NoHalves', DropGoesOn, kq' \in Seq(Sound), buf' \in Seq(Sound)
    PROVE  Steady'
<1>1. nextWd \in Nat /\ nextWd' = nextWd
  BY DEF KernelTyped
<1>2. WatchesLast /\ PathsLast
  BY <1>1 DEF WatchesLast, PathsLast, tables
<1>3. kq' \in Seq(Sound')
  BY <1>2, SoundLasts, SeqOfMore
<1>4. TablesAgree' /\ WatchesNamed' /\ InodesNamed'
  BY DEF Steady, TablesAgree, WatchesNamed, InodesNamed, WatchedWds, tables
<1> QED BY <1>2, <1>3, <1>4, TablesSteady

LEMMA DiskSteady ==
    ASSUME NoRenames, KernelTyped, KernelTyped', Steady, DiskChanges,
           UNCHANGED <<tables, pending, runVars, walkVars, history>>
    PROVE  Steady'
<1> USE DEF Steady
<1>0. ASSUME NEW old \in Tree, NEW new \in Tree, Move(old, new) PROVE FALSE
  BY <1>0 DEF NoRenames, Move, Change
<1>1. PICK path \in Tree : Make(path) \/ Delete(path) \/ Write(path) \/ Chmod(path) \/ Unmount(path)
  BY <1>0 DEF DiskChanges
<1>2. nextWd' = nextWd /\ nextWd \in Nat
  BY <1>1 DEF KernelTyped, Make, Delete, Write, Chmod, Unmount
<1>3. /\ DOMAIN watches' \subseteq DOMAIN watches
      /\ \A wd \in DOMAIN watches' : watches'[wd] = watches[wd]
  BY <1>1 DEF Make, Delete, Write, Chmod, Unmount, Restrict
<1>4. WatchesLast /\ PathsLast
  BY <1>2, <1>3 DEF WatchesLast, PathsLast, tables
<1>5. Tellable(Sound')
  BY <1>2, <1>4, DiskIsSound DEF tables
<1>6. kq' \in Seq(Sound')
  <2>1. kq \in Seq(Sound')
    BY <1>4, SoundLasts, SeqOfMore DEF Heard
  <2> HIDE DEF Sound
  <2> QED BY <1>5, <2>1, DiskTells
<1>7. InodesNamed'
  <2>1. CASE Make(path)
    <3>1. fs' = [p \in DOMAIN fs \cup {path} |->
                   IF p = path THEN [ino |-> Inode(path), isDir |-> Last(path) \in DirNames]
                   ELSE fs[p]]
      BY <2>1 DEF Make
    <3> QED BY <3>1 DEF InodesNamed, Inode
  <2>2. CASE Delete(path)
    BY <2>2 DEF Delete, Restrict, InodesNamed
  <2>3. CASE Write(path) \/ Chmod(path)
    BY <2>3 DEF Write, Chmod, InodesNamed
  <2>4. CASE Unmount(path)
    <3>1. fs' = [fs EXCEPT ![path].ino = Inode(path)] /\ path \in DOMAIN fs
      BY <2>4 DEF Unmount, IsDirectory, Exists
    <3>2. fs \in [DOMAIN fs -> [ino : Tree \X Nat, isDir : BOOLEAN]]
      BY DEF KernelTyped
    <3>3. \A p \in DOMAIN fs : fs'[p].ino = IF p = path THEN Inode(path) ELSE fs[p].ino
      BY <3>1, <3>2
    <3> QED BY <3>1, <3>3 DEF InodesNamed, Inode
  <2> QED BY <1>1, <2>1, <2>2, <2>3, <2>4
<1>8. TablesAgree' /\ WatchesNamed'
  BY <1>3 DEF TablesAgree, WatchesNamed, WatchedWds, tables, history
<1>9. InTree' /\ NoHalves' /\ DropGoesOn
  BY DEF InTree, TablesInTree, NoHalves, DropGoesOn, tables, runVars, walkVars
<1>10. buf' \in Seq(Sound)
  BY DEF Heard, runVars
<1> QED BY <1>4, <1>6, <1>7, <1>8, <1>9, <1>10, TablesSteady

LEMMA WalkSteady ==
    ASSUME Typed, KernelTyped', NodesAreReleasable, Steady, NEW w \in Walkers, WalkStep(w)
    PROVE  Steady'
<1> USE DEF Typed, Steady
<1>1. NoHalves' /\ buf' \in Seq(Sound)
  BY DEF WalkStep, WalkExcluded, AddDirOrphan, AddDirShared, AddDirWatch, AddDirFails, ReadDir,
     ReadDirFails, NoHalves, Heard, runVars
<1>2. runPc' = runPc /\ cur' = cur /\ kq' = kq /\ DropGoesOn
  BY DEF WalkStep, WalkExcluded, AddDirOrphan, AddDirShared, AddDirWatch, AddDirFails, ReadDir,
     ReadDirFails, AddWatch, DropGoesOn, runVars, kernelVars
<1>3. walk \in [Walkers -> WalkRec]
  BY DEF WalksTyped
<1>4. \A v \in Walkers : walk'[v].todo \subseteq Tree
  <2>1. ASSUME NEW todo \in SUBSET Tree, NEW rec, rec.todo = todo, walk' = [walk EXCEPT ![w] = rec]
        PROVE  \A v \in Walkers : walk'[v].todo \subseteq Tree
    BY <1>3, <2>1 DEF InTree
  <2>2. walk[w].todo \subseteq Tree
    BY DEF InTree
  <2>3. ASSUME NEW dir, Enrolled(w, dir) PROVE \A v \in Walkers : walk'[v].todo \subseteq Tree
    <3> DEFINE rec == [walk[w] EXCEPT !.todo = @ \ {dir}, !.lstat = FALSE,
                                      !.reading = IF walk[w].recursive THEN dir ELSE NoPath]
    <3>1. walk' = [walk EXCEPT ![w] = rec] /\ rec.todo = walk[w].todo \ {dir}
      BY <1>3, <2>3 DEF Enrolled, WalkRec
    <3>2. walk[w].todo \ {dir} \in SUBSET Tree
      BY <2>2
    <3> HIDE DEF rec
    <3> QED BY <2>1, <3>1, <3>2
  <2>4. CASE WalkExcluded(w)
    <3>1. PICK dir \in walk[w].todo : walk' = [walk EXCEPT ![w].todo = @ \ {dir}]
      BY <2>4 DEF WalkExcluded, Skip
    <3>2. PICK rec : rec = [walk[w] EXCEPT !.todo = @ \ {dir}]
      OBVIOUS
    <3>3. walk' = [walk EXCEPT ![w] = rec] /\ rec.todo = walk[w].todo \ {dir}
      BY <1>3, <3>1, <3>2 DEF WalkRec
    <3>4. walk[w].todo \ {dir} \in SUBSET Tree
      BY <2>2
    <3> QED BY <2>1, <3>3, <3>4
  <2>5. CASE AddDirOrphan(w) \/ AddDirShared(w) \/ AddDirWatch(w)
    BY <2>3, <2>5 DEF AddDirOrphan, AddDirShared, AddDirWatch
  <2>6. CASE AddDirFails(w) \/ ReadDirFails(w)
    <3>1. walk' = [walk EXCEPT ![w] = Idle] /\ Idle.todo = {} /\ {} \in SUBSET Tree
      BY <2>6 DEF AddDirFails, ReadDirFails, Abort, Idle
    <3> QED BY <2>1, <3>1
  <2>7. CASE ReadDir(w)
    <3> DEFINE more == {p \in Children(walk[w].reading) : fs[p].isDir}
    <3>1. more \subseteq Tree
      BY DEF Children, KernelTyped
    <3>2. walk' = [walk EXCEPT ![w].todo = @ \cup more, ![w].reading = NoPath]
      BY <2>7 DEF ReadDir
    <3> HIDE DEF more
    <3>3. PICK rec : rec = [walk[w] EXCEPT !.todo = @ \cup more, !.reading = NoPath]
      OBVIOUS
    <3>4. walk' = [walk EXCEPT ![w] = rec] /\ rec.todo = walk[w].todo \cup more
      BY <1>3, <3>2, <3>3 DEF WalkRec
    <3>5. walk[w].todo \cup more \in SUBSET Tree
      BY <2>2, <3>1
    <3> QED BY <2>1, <3>4, <3>5
  <2> QED BY <2>4, <2>5, <2>6, <2>7 DEF WalkStep
<1>5. CASE AddDirWatch(w)
  <2>1. PICK dir \in walk[w].todo :
          /\ walk[w].root \in DOMAIN rootDirs /\ dir \notin DOMAIN watched
          /\ IsDirectory(dir) /\ AddWatch(dir)
          /\ Enroll(dir, [wd |-> WatchFor(dir), roots |-> {walk[w].root}], walk[w].root)
          /\ wdToPath' = Put(wdToPath, WatchFor(dir), dir)
    BY <1>5 DEF AddDirWatch
  <2>2. dir \in Tree
    BY DEF InTree
  <2>3. TablesAgree' /\ WatchesNamed' /\ WatchesLast /\ PathsLast /\ TablesInTree'
    BY <2>1, <2>2, AddDirKeepsTables
  <2>4. InTree'
    BY <1>2, <1>4, <2>3 DEF InTree
  <2>5. InodesNamed'
    BY <2>1 DEF AddWatch, InodesNamed
  <2>6. kq' \in Seq(Sound')
    BY <1>2, <2>3, SoundLasts, SeqOfMore DEF Heard
  <2> QED BY <1>1, <1>2, <2>3, <2>4, <2>5, <2>6, TablesSteady
<1>6. CASE AddDirShared(w)
  <2>1. PICK dir \in walk[w].todo :
          /\ walk[w].root \in DOMAIN rootDirs /\ dir \in DOMAIN watched
          /\ Enroll(dir, [watched[dir] EXCEPT !.roots = @ \cup {walk[w].root}], walk[w].root)
          /\ UNCHANGED <<kernelVars, wdToPath>>
    BY <1>6 DEF AddDirShared
  <2>2. TablesAgree' /\ TablesInTree'
    BY <2>1, SharedKeepsTables DEF kernelVars
  <2>3. UNCHANGED <<fs, watches, nextWd, kq, wdToPath>> /\ nextWd \in Nat
    BY <2>1 DEF kernelVars, KernelTyped
  <2>4. WatchesLast /\ PathsLast /\ WatchesNamed' /\ InodesNamed'
    BY <2>3 DEF WatchesLast, PathsLast, WatchesNamed, InodesNamed
  <2>5. InTree'
    BY <1>2, <1>4, <2>2 DEF InTree
  <2>6. kq' \in Seq(Sound')
    BY <2>3, <2>4, SoundLasts, SeqOfMore DEF Heard
  <2> QED BY <1>1, <1>2, <2>2, <2>4, <2>5, <2>6, TablesSteady
<1>7. CASE ~AddDirWatch(w) /\ ~AddDirShared(w)
  <2>1. UNCHANGED <<kernelVars, tables, astray>>
    BY <1>7 DEF WalkStep, WalkExcluded, AddDirOrphan, AddDirFails, ReadDir, ReadDirFails, Abort, history
  <2>2. InTree'
    BY <1>2, <1>4, <2>1 DEF InTree, TablesInTree, tables
  <2>3. kq' \in Seq(Sound)
    BY <2>1 DEF kernelVars, Heard
  <2> QED BY <1>1, <1>2, <2>1, <2>2, <2>3, QuietSteady DEF kernelVars
<1> QED BY <1>5, <1>6, <1>7

LEMMA CallSteady ==
    ASSUME Typed, KernelTyped', NodesAreReleasable, Steady, NEW c \in Callers, CallStep(c)
    PROVE  Steady'
<1> USE DEF Typed, Steady
<1>1. NoHalves' /\ buf' \in Seq(Sound) /\ runPc' = runPc /\ cur' = cur /\ DropGoesOn /\ astray' = astray
  BY DEF CallStep, AddRegister, AddDone, AddCleanup, RemoveRoot, NoHalves, Heard, DropGoesOn,
     runVars, history
<1>2. ASSUME NEW path \in DOMAIN roots, ForgetRoot(path), UNCHANGED walk PROVE Steady'
  <2>1. /\ TablesAgree' /\ WatchesNamed' /\ InodesNamed' /\ TablesInTree'
        /\ WatchesLast /\ PathsLast /\ kq' \in Seq(Sound')
    BY <1>1, <1>2, ForgetKeepsTables
  <2>2. InTree'
    BY <1>1, <1>2, <2>1 DEF InTree
  <2> QED BY <1>1, <2>1, <2>2, TablesSteady
<1>3. ASSUME UNCHANGED <<kernelVars, tables, walk>> PROVE Steady'
  <2>1. InTree' /\ kq' \in Seq(Sound)
    BY <1>1, <1>3 DEF InTree, TablesInTree, tables, kernelVars, Heard
  <2> QED BY <1>1, <1>3, <2>1, QuietSteady DEF kernelVars
<1>4. ASSUME NEW tgt \in Targets, AddRegister(c, tgt) PROVE Steady'
  <2>1. /\ tgt.Path \in Tree /\ tgt.Path \notin DOMAIN roots /\ tgt.WatchPath \in Tree
        /\ rootDirs' = Put(rootDirs, tgt.Path, {}) /\ UNCHANGED <<kernelVars, watched, wdToPath>>
    BY <1>4, LinuxAssumption DEF AddRegister
  <2>2. TablesAgree'
    BY <1>1, <2>1, RegisterKeepsTables DEF kernelVars
  <2>3. UNCHANGED <<fs, watches, nextWd, kq, watched, wdToPath>> /\ nextWd \in Nat
    BY <2>1 DEF kernelVars, KernelTyped
  <2>4. WatchesLast /\ PathsLast /\ WatchesNamed' /\ InodesNamed'
    BY <2>3 DEF WatchesLast, PathsLast, WatchesNamed, InodesNamed
  <2>5. TablesInTree'
    BY <2>1 DEF InTree, TablesInTree, Put
  <2>6. \A w \in Walkers : walk'[w].todo \subseteq Tree
    <3> DEFINE rec == [root |-> tgt.Path, todo |-> {tgt.WatchPath}, reading |-> NoPath,
                       recursive |-> tgt.IsDir /\ tgt.Recursive, lstat |-> tgt.IsDir]
    <3>1. walk' = [walk EXCEPT ![c] = rec] /\ rec.todo = {tgt.WatchPath}
      BY <1>4 DEF AddRegister, StartWalk
    <3> HIDE DEF rec
    <3> QED BY <2>1, <3>1 DEF WalksTyped, InTree
  <2>7. InTree'
    BY <1>1, <2>3, <2>5, <2>6 DEF InTree
  <2>8. kq' \in Seq(Sound')
    BY <2>3, <2>4, SoundLasts, SeqOfMore DEF Heard
  <2> QED BY <1>1, <2>2, <2>4, <2>7, <2>8, TablesSteady
<1>5. CASE AddDone(c)
  BY <1>3, <1>5 DEF AddDone, walkVars
<1>6. CASE AddCleanup(c)
  BY <1>2, <1>3, <1>6 DEF AddCleanup, walkVars
<1>7. ASSUME NEW path \in DOMAIN roots, RemoveRoot(c, path) PROVE Steady'
  BY <1>2, <1>7 DEF RemoveRoot, walkVars
<1> QED BY <1>4, <1>5, <1>6, <1>7 DEF CallStep

(* Without renames there is no half of one to wait for, nor a whole one. *)
LEMMA NothingIsRenamed ==
    ASSUME NoRenames, Typed, Steady
    PROVE  ~FlushPending /\ ~RenameWatched /\ ~HandleMovedFrom
<1>1. ~FlushPending
  <2>1. ASSUME FlushPending PROVE \E old \in SUBSET DOMAIN pending : old # {}
    BY <2>1 DEF FlushPending
  <2>2. DOMAIN pending = {}
    BY DEF Steady, NoHalves
  <2> HIDE DEF FlushPending
  <2>3. ASSUME FlushPending PROVE FALSE
    <3>1. PICK old \in SUBSET DOMAIN pending : old # {}
      BY <2>1, <2>3
    <3> QED BY <2>2, <3>1
  <2> QED BY <2>3
<1>2. ~RenameWatched
  BY DEF RenameWatched, Steady, NoHalves
<1>3. ASSUME HandleMovedFrom PROVE FALSE
  <2>1. Raw.kind = "MOVED_FROM" /\ Raw \in Raws
    BY <1>3, FullPathTyped DEF HandleMovedFrom, Dispatches
  <2>2. Raw.kind \in Kinds
    BY <2>1, RawsAreNotices DEF Notices
  <2> QED BY <2>1, <2>2 DEF Kinds, NoRenames
<1> QED BY <1>1, <1>2, <1>3

LEMMA FullPathInTree ==
    ASSUME Steady, NEW kinds, Dispatches(kinds)
    PROVE  FullPath \in Tree
<1> USE DEF Steady
<1>1. Raw \in Sound /\ Raw.wd \in DOMAIN wdToPath
  BY DEF Dispatches, Raw, Heard
<1>2. wdToPath[Raw.wd] \in Tree
  BY <1>1 DEF InTree, TablesInTree
<1>3. Raw.name # NoName => Append(wdToPath[Raw.wd], Raw.name) \in Tree
  BY <1>1 DEF Sound, SoundFor
<1> QED BY <1>2, <1>3 DEF FullPath

LEMMA RunSteady ==
    ASSUME NoRenames, Typed, KernelTyped', Steady, RunStep
    PROVE  Steady'
<1> USE DEF Typed, Steady
<1>1. ~FlushPending /\ ~RenameWatched /\ ~HandleMovedFrom
  BY NothingIsRenamed
<1>2. CASE UnwatchGone
  <2>1. Unwatch({cur.path}) /\ runPc' = "gone" /\ UNCHANGED <<pending, buf, cur, walk>>
    BY <1>2 DEF UnwatchGone, RunGoto, walkVars
  <2>2. /\ TablesAgree' /\ WatchesNamed' /\ InodesNamed' /\ TablesInTree'
        /\ WatchesLast /\ PathsLast /\ kq' \in Seq(Sound')
    BY <2>1, UnwatchKeepsTables
  <2>3. InTree' /\ NoHalves' /\ DropGoesOn /\ buf' \in Seq(Sound)
    BY <2>1, <2>2 DEF InTree, NoHalves, DropGoesOn, Heard
  <2> QED BY <2>2, <2>3, TablesSteady
<1>3. CASE DropWatch
  <2>1. UNCHANGED <<kernelVars, pending, buf, walk>> /\ runPc' = "next" /\ cur'.old = NoPath
    BY <1>3 DEF DropWatch, RunGoto, NoEvent, walkVars
  <2>2. TablesAgree' /\ WatchesNamed' /\ PathsLast /\ TablesInTree'
    BY <1>3, DropWatchKeepsTables
  <2>3. InTree' /\ NoHalves' /\ DropGoesOn /\ buf' \in Seq(Sound)
    BY <2>1, <2>2 DEF InTree, NoHalves, DropGoesOn, Heard
  <2>4. UNCHANGED <<fs, watches, nextWd, kq>> /\ nextWd \in Nat
    BY <2>1 DEF kernelVars, KernelTyped
  <2>5. WatchesLast /\ InodesNamed'
    BY <2>4 DEF WatchesLast, InodesNamed
  <2>6. kq' \in Seq(Sound')
    BY <2>2, <2>4, <2>5, SoundLasts, SeqOfMore DEF Heard
  <2> QED BY <2>2, <2>3, <2>5, <2>6, TablesSteady
<1>4. CASE Read
  <2>1. /\ buf' = kq /\ kq' = <<>> /\ runPc' = "next"
        /\ UNCHANGED <<fs, watches, nextWd, tables, astray, pending, cur, walk>>
    BY <1>4 DEF Read, RunGoto, walkVars, history
  <2>2. InTree' /\ NoHalves' /\ DropGoesOn
    BY <2>1 DEF InTree, TablesInTree, NoHalves, DropGoesOn, tables
  <2>3. kq' \in Seq(Sound) /\ buf' \in Seq(Sound)
    BY <2>1 DEF Heard
  <2> QED BY <2>1, <2>2, <2>3, QuietSteady
<1>5. ASSUME UNCHANGED <<kernelVars, tables, astray>>, InTree', NoHalves', DropGoesOn,
             buf' \in Seq(Sound)
      PROVE  Steady'
  <2>1. kq' \in Seq(Sound)
    BY <1>5 DEF kernelVars, Heard
  <2> QED BY <1>5, <2>1, QuietSteady DEF kernelVars
<1> USE DEF TablesInTree
<1>6. CASE RunExits \/ BufferDone \/ Report \/ ReportGone \/ Emit
  <2>1. InTree' /\ NoHalves' /\ DropGoesOn /\ buf' \in Seq(Sound)
    BY <1>6 DEF RunExits, BufferDone, Report, ReportGone, Emit, RunGoto, InTree, NoHalves, Heard,
       NoEvent, DropGoesOn, tables, walkVars
  <2> QED BY <1>5, <1>6, <2>1 DEF RunExits, BufferDone, Report, ReportGone, Emit, history
<1>7. CASE HandleUnknown \/ HandleOverflow \/ HandleContent \/ HandleGone
  <2>1. InTree' /\ NoHalves' /\ DropGoesOn
    BY <1>7 DEF HandleUnknown, HandleOverflow, HandleContent, HandleGone, Taken, RunGoto, InTree, NoHalves,
       DropGoesOn, tables, walkVars
  <2>2. buf' = Tail(buf) /\ buf # <<>>
    BY <1>7 DEF HandleUnknown, HandleOverflow, HandleContent, HandleGone, Taken, Dispatches
  <2>3. buf' \in Seq(Sound)
    BY <2>2 DEF Heard
  <2> QED BY <1>5, <1>7, <2>1, <2>3 DEF HandleUnknown, HandleOverflow, HandleContent, HandleGone, history
<1>8. CASE HandleAppeared
  <2>1. FullPath \in Tree
    BY <1>8, FullPathInTree DEF HandleAppeared
  <2>2. OldPath = NoPath
    BY DEF OldPath, NoHalves
  <2>3. cur'.path \in Tree /\ cur'.old = NoPath /\ pending' = <<>>
    <3>1. Without(pending, {Raw.cookie}) = <<>>
      BY DEF NoHalves, Without, Restrict
    <3> QED BY <1>8, <2>1, <2>2, <3>1 DEF HandleAppeared, NoHalves
  <2>4. InTree' /\ NoHalves' /\ DropGoesOn
    BY <1>8, <2>3 DEF HandleAppeared, RunGoto, InTree, NoHalves, DropGoesOn, tables, walkVars
  <2>5. buf' = Tail(buf) /\ buf # <<>>
    BY <1>8 DEF HandleAppeared, Taken, Dispatches
  <2>6. buf' \in Seq(Sound)
    BY <2>5 DEF Heard
  <2> QED BY <1>5, <1>8, <2>4, <2>6 DEF HandleAppeared, history
<1>9. CASE SnapshotRoots \/ WalksDone
  <2>1. InTree' /\ NoHalves' /\ DropGoesOn /\ buf' \in Seq(Sound)
    BY <1>9 DEF SnapshotRoots, WalksDone, RunGoto, InTree, NoHalves, DropGoesOn, Heard, tables, walkVars
  <2> QED BY <1>5, <1>9, <2>1 DEF SnapshotRoots, WalksDone, history
<1>10. CASE WalkNextRoot
  <2>1. PICK rt \in left : StartWalk(Run, rt, cur.path, TRUE, TRUE)
    BY <1>10 DEF WalkNextRoot
  <2>2. UNCHANGED <<kernelVars, tables, astray, pending, runPc, buf, cur>> /\ runPc = "walk"
    BY <1>10 DEF WalkNextRoot, history
  <2>3. \A w \in Walkers : walk'[w].todo \subseteq Tree
    <3> DEFINE rec == [root |-> rt, todo |-> {cur.path}, reading |-> NoPath,
                       recursive |-> TRUE, lstat |-> TRUE]
    <3>1. walk' = [walk EXCEPT ![Run] = rec] /\ rec.todo = {cur.path}
      BY <2>1 DEF StartWalk
    <3>2. cur.path \in Tree
      BY <2>2 DEF InTree
    <3> HIDE DEF rec
    <3> QED BY <3>1, <3>2 DEF WalksTyped, InTree
  <2>4. InTree' /\ NoHalves' /\ DropGoesOn /\ buf' \in Seq(Sound)
    BY <2>2, <2>3 DEF InTree, NoHalves, DropGoesOn, Heard, tables
  <2> QED BY <1>5, <2>2, <2>4
<1>11. CASE HandleIgnored
  <2>1. /\ UNCHANGED <<kernelVars, tables, astray, pending, walk>> /\ buf' = Tail(buf) /\ buf # <<>>
        /\ cur' = [raw |-> Raw, path |-> FullPath, old |-> NoPath] /\ runPc' = "drop"
        /\ Raw.kind = "IGNORED"
    BY <1>11 DEF HandleIgnored, Dispatches, Taken, RunGoto, walkVars, history
  <2>2. Raw \in Sound /\ buf' \in Seq(Sound)
    BY <2>1 DEF Heard, Raw
  <2>3. Raw.name = NoName
    BY <2>1, <2>2, RawsAreNotices DEF Sound, SoundFor
  <2>4. Dropping'
    <3>1. Sound' = Sound
      BY <2>1 DEF Sound, kernelVars, tables
    <3> HIDE DEF Sound
    <3> QED BY <2>1, <2>2, <2>3, <3>1 DEF Dropping, FullPath, tables
  <2>5. InTree' /\ NoHalves'
    BY <2>1 DEF InTree, NoHalves, tables
  <2>6. kq' \in Seq(Sound') /\ buf' \in Seq(Sound')
    <3>1. Sound' = Sound /\ kq' = kq
      BY <2>1 DEF Sound, kernelVars, tables
    <3> QED BY <2>2, <3>1 DEF Heard
  <2>7. TablesAgree' /\ WatchesNamed' /\ InodesNamed'
    BY <2>1 DEF TablesAgree, WatchesNamed, InodesNamed, WatchedWds, tables, kernelVars
  <2> QED BY <2>4, <2>5, <2>6, <2>7 DEF Heard
<1> QED BY <1>1, <1>2, <1>3, <1>4, <1>6, <1>7, <1>8, <1>9, <1>10, <1>11 DEF RunStep

LEMMA SteadyStep == NoRenames /\ Typed /\ Typed' /\ NodesAreReleasable /\ Steady /\ [Next]_vars => Steady'
<1> SUFFICES ASSUME NoRenames, Typed, Typed', NodesAreReleasable, Steady, [Next]_vars PROVE Steady'
  OBVIOUS
<1>0. KernelTyped /\ KernelTyped'
  BY DEF Typed
<1>1. CASE DiskChanges /\ UNCHANGED <<tables, pending, closed, fdOpen, runVars, callVars, walkVars, history>>
  BY <1>0, <1>1, DiskSteady
<1>2. CASE CloseFlag \/ UNCHANGED vars
  <2>1. UNCHANGED <<kernelVars, tables, astray, pending, runPc, buf, cur, walk>>
    BY <1>2 DEF CloseFlag, vars, runVars, walkVars, history
  <2>2. InTree' /\ NoHalves' /\ DropGoesOn /\ kq' \in Seq(Sound) /\ buf' \in Seq(Sound)
    BY <2>1 DEF Steady, InTree, TablesInTree, NoHalves, DropGoesOn, Heard, tables, kernelVars
  <2> QED BY <1>0, <2>1, <2>2, QuietSteady DEF kernelVars
<1>3. CASE CloseDescriptor
  <2>1. watches' = <<>> /\ kq' = <<>>
        /\ UNCHANGED <<fs, nextWd, tables, astray, pending, runPc, buf, cur, walk>>
    BY <1>3 DEF CloseDescriptor, runVars, walkVars, history
  <2>2. InTree' /\ NoHalves' /\ DropGoesOn /\ buf' \in Seq(Sound)
    BY <2>1 DEF Steady, InTree, TablesInTree, NoHalves, DropGoesOn, Heard, tables
  <2>3. DOMAIN watches' = {} /\ nextWd \in Nat /\ nextWd' = nextWd
    BY <1>0, <2>1 DEF KernelTyped
  <2>4. WatchesLast /\ PathsLast /\ WatchesNamed'
    BY <2>1, <2>3 DEF WatchesLast, PathsLast, WatchesNamed, tables
  <2>5. TablesAgree' /\ InodesNamed'
    BY <2>1, <2>3 DEF Steady, TablesAgree, InodesNamed, WatchedWds, tables
  <2>6. kq' \in Seq(Sound')
    BY <2>1
  <2> QED BY <1>0, <2>2, <2>4, <2>5, <2>6, TablesSteady
<1> QED BY <1>0, <1>1, <1>2, <1>3, WalkSteady, CallSteady, RunSteady DEF Next

----------------------------------------------------------------------------
(***************************************************************************)
(* Where nothing is renamed, at every step and whatever else happens on    *)
(* disk, overflows of the queue and Close included: every path in the      *)
(* tables and walks is a path of the tree, the tables agree, the kernel    *)
(* watches nothing they do not know, and what it has queued was true when  *)
(* it was put there (addDir, handle).                                      *)
(***************************************************************************)
THEOREM SteadyInvariant ==
    ASSUME NoRenames
    PROVE  Spec => []Steady
<1>1. Init => Steady
  BY SteadyInit
<1>2. Typed /\ Typed' /\ NodesAreReleasable /\ Steady /\ [Next]_vars => Steady'
  BY SteadyStep
<1> QED BY <1>1, <1>2, TypesInvariant, NodesStayReleasable, PTL DEF Spec

(***************************************************************************)
(* The type invariant the runs check: both registries of roots have the    *)
(* same paths, and where nothing is renamed no event, walk or root leads   *)
(* into a table with a path outside the tree (joinPath in handle).         *)
(***************************************************************************)
THEOREM TypeInvariant ==
    ASSUME NoRenames
    PROVE  Spec => []TypeOK
<1>1. Typed /\ Steady => TypeOK
  <2> SUFFICES ASSUME Typed, Steady PROVE TypeOK
    OBVIOUS
  <2>1. /\ DOMAIN fs \subseteq Tree /\ DOMAIN watches \subseteq 1 .. nextWd - 1
        /\ closed \in BOOLEAN /\ fdOpen \in BOOLEAN /\ runPc \in RunLabels
        /\ callPc \in [Callers -> {"idle", "walk", "cleanup"}]
        /\ walkErr \in [Walkers -> BOOLEAN]
    BY DEF Typed, KernelTyped, RunTyped, WalksTyped
  <2>2. /\ DOMAIN roots = DOMAIN rootDirs /\ DOMAIN wdToPath \subseteq 1 .. nextWd - 1
        /\ \A p \in DOMAIN roots : roots[p] \in Targets /\ roots[p].Path = p
    BY DEF Typed, TablesTyped
  <2>3. DOMAIN watched \subseteq Tree /\ \A p \in DOMAIN rootDirs : rootDirs[p] \subseteq Tree
    BY DEF Steady, InTree, TablesInTree
  <2> QED BY <2>1, <2>2, <2>3 DEF TypeOK
<1> QED BY <1>1, TypesInvariant, SteadyInvariant, PTL

(***************************************************************************)
(* Where nothing is renamed the three tables and the kernel say the same   *)
(* at every step: every watch of the kernel has its entry, a descriptor    *)
(* stands for the directory whose node holds it, a root is in the node of  *)
(* exactly the directories enrolled for it, and the only descriptors       *)
(* without a node are those of nodes that dropWatch took for another's     *)
(* (addDir, Remove, removeWatchedPrefixLocked, handle, dropWatch).         *)
(***************************************************************************)
THEOREM TablesStayAgreed ==
    ASSUME NoRenames
    PROVE  Spec => []TablesAgree
<1>1. Steady => TablesAgree
  BY DEF Steady
<1> QED BY <1>1, SteadyInvariant, PTL

(***************************************************************************)
(* And once the last root is removed, at that step and for as long as      *)
(* there is none, no node is left, and no descriptor or watch of the       *)
(* kernel but those that dropWatch has left behind: no walk or handler     *)
(* that is under way enrolls anything (Remove, addDir).                    *)
(***************************************************************************)
THEOREM NothingStaysBehind ==
    ASSUME NoRenames
    PROVE  Spec => []NothingLeftBehind
<1>1. Typed /\ NodesAreReleasable /\ Steady => NothingLeftBehind
  <2> SUFFICES ASSUME Typed, NodesAreReleasable, Steady, roots = <<>>
               PROVE  watched = <<>> /\ DOMAIN wdToPath \subseteq astray /\ DOMAIN watches \subseteq astray
    BY DEF NothingLeftBehind
  <2>1. DOMAIN rootDirs = {}
    BY DEF Typed, TablesTyped
  <2>2. DOMAIN watched = {}
    BY <2>1 DEF NodesAreReleasable
  <2>3. DOMAIN wdToPath \subseteq astray /\ DOMAIN watches \subseteq astray
    BY <2>2 DEF Steady, TablesAgree, WatchedWds
  <2>4. watched \in [DOMAIN watched -> Node]
    BY DEF Typed, TablesTyped
  <2>5. \A S : \A g \in [{} -> S] : g = <<>>
    OBVIOUS
  <2> QED BY <2>2, <2>3, <2>4, <2>5
<1> QED BY <1>1, TypesInvariant, NodesStayReleasable, SteadyInvariant, PTL

----------------------------------------------------------------------------
(***************************************************************************)
(* Watches and the disk.  The backend learns that the kernel has dropped a *)
(* watch from the IN_IGNORED event only, so that a node is false for as    *)
(* long as that event stands in the queue or the buffer or dropWatch is    *)
(* under way for it, and for ever if the queue overflows.                  *)
(***************************************************************************)
QueueHolds == ~Contains(kq, RawOverflow)

DroppedEvent(wd) ==
    [kind |-> "IGNORED", wd |-> wd, name |-> NoName, isDir |-> FALSE, cookie |-> 0]

(* What the kernel watches is a directory that is there, *)
WatchesStand ==
    \A wd \in DOMAIN watches :
      LET path == watches[wd][1]
      IN  path \in DOMAIN fs /\ fs[path].isDir /\ fs[path].ino = watches[wd]

(* and that it watches a node's no more is still to be read, or to be done. *)
Announced(wd) ==
    \/ Contains(kq, DroppedEvent(wd)) \/ Contains(buf, DroppedEvent(wd))
    \/ runPc = "drop" /\ cur.raw.wd = wd

LossesAnnounced == fdOpen => \A wd \in WatchedWds \ DOMAIN watches : Announced(wd)

BufferRead == runPc \in {"loop", "exited"} => buf = <<>>

Followed == WatchesStand /\ LossesAnnounced /\ BufferRead /\ (fdOpen \/ closed)

LEMMA FollowedInit == Init => Followed
<1> SUFFICES ASSUME Init PROVE Followed
  OBVIOUS
<1> QED BY DEF Init, InotifyInit, Followed, WatchesStand, LossesAnnounced, BufferRead, WatchedWds

LEMMA QueueGrows ==
    ASSUME KernelTyped, NEW raws \in Seq(Raws), kq' = EnqueuedAll(kq, raws)
    PROVE  /\ \A raw : Contains(kq, raw) => Contains(kq', raw)
           /\ QueueHolds' => \A raw : Contains(raws, raw) => Contains(kq', raw)
<1>1. RawOverflow \in Raws /\ kq \in Seq(Raws)
  BY DEF Raws, KernelTyped
<1>2. /\ \A raw : Contains(kq, raw) => Contains(EnqueuedAll(kq, raws), raw)
      /\ ~Contains(EnqueuedAll(kq, raws), RawOverflow) =>
           \A i \in 1 .. Len(raws) : Contains(EnqueuedAll(kq, raws), raws[i])
  BY <1>1, NothingIsLost
<1>3. QueueHolds' <=> ~Contains(kq', RawOverflow)
  BY DEF QueueHolds
<1>4. ASSUME QueueHolds', NEW raw, Contains(raws, raw) PROVE Contains(kq', raw)
  <2>1. PICK i \in 1 .. Len(raws) : raws[i] = raw
    BY <1>4 DEF Contains
  <2>2. Contains(EnqueuedAll(kq, raws), raws[i])
    BY <1>2, <1>3, <1>4
  <2> QED BY <2>1, <2>2
<1> QED BY <1>2, <1>4

LEMMA IgnoredHasAll ==
    ASSUME KernelTyped, NEW wds \in SUBSET DOMAIN watches
    PROVE  Ignored(wds) \in Seq(Raws) /\ \A wd \in wds : Contains(Ignored(wds), DroppedEvent(wd))
<1> DEFINE T == {[kind |-> "IGNORED", wd |-> wd, name |-> NoName, isDir |-> FALSE,
                  cookie |-> 0] : wd \in wds}
           f == [wd \in wds |-> [kind |-> "IGNORED", wd |-> wd, name |-> NoName, isDir |-> FALSE,
                                 cookie |-> 0]]
<1>1. f \in Surjection(wds, T)
  BY DEF Surjection
<1>2. \A wd \in wds : DroppedEvent(wd) \in T
  BY DEF DroppedEvent
<1>3. Ignored(wds) = SetToSeq(T)
  BY DEF Ignored
<1>4. \A wd \in wds : DroppedEvent(wd) \in Raws
  BY DEF DroppedEvent, Raws, Ignores, KernelTyped
<1>5. Ignored(wds) \in Seq(Raws)
  BY <1>4, IgnoredTyped DEF DroppedEvent
<1> HIDE DEF f, T
<1>6. IsFiniteSet(T)
  BY <1>1, WatchingIsFinite, FS_Surjection
<1> QED BY <1>2, <1>3, <1>5, <1>6, SetToSeqHasAll

LEMMA ConcatenationHasAll ==
    ASSUME NEW G, NEW s \in Seq(G), NEW t \in Seq(G), NEW u \in Seq(G)
    PROVE  \A e : Contains(t, e) => Contains(s \o t \o u, e)
<1>1. ASSUME NEW e, Contains(t, e) PROVE Contains(s \o t \o u, e)
  <2>1. PICK i \in 1 .. Len(t) : t[i] = e
    BY <1>1 DEF Contains
  <2>2. Len(s) \in Nat /\ Len(t) \in Nat /\ Len(u) \in Nat
    OBVIOUS
  <2>3. Len(s \o t \o u) = Len(s) + Len(t) + Len(u)
    OBVIOUS
  <2>4. (s \o t \o u)[Len(s) + i] = t[i]
    BY <2>2
  <2>5. Len(s) + i \in 1 .. Len(s \o t \o u)
    BY <2>2, <2>3
  <2> QED BY <2>1, <2>4, <2>5 DEF Contains
<1> QED BY <1>1

(* A change on disk leaves the watches true, and what it drops is told. *)
LEMMA DiskAnnounces ==
    ASSUME NoRenames, KernelTyped, Steady, WatchesStand, QueueHolds', DiskChanges
    PROVE  /\ WatchesStand'
           /\ \A raw : Contains(kq, raw) => Contains(kq', raw)
           /\ \A wd \in DOMAIN watches \ DOMAIN watches' : Contains(kq', DroppedEvent(wd))
<1> USE DEF Steady
<1>0. ASSUME NEW old \in Tree, NEW new \in Tree, Move(old, new) PROVE FALSE
  BY <1>0 DEF NoRenames, Move, Change
<1>1. PICK path \in Tree : Make(path) \/ Delete(path) \/ Write(path) \/ Chmod(path) \/ Unmount(path)
  BY <1>0 DEF DiskChanges
<1>2. Tellable(Raws)
  BY RawsAreTellable
<1>3. fs \in [DOMAIN fs -> [ino : Tree \X Nat, isDir : BOOLEAN]]
  BY DEF KernelTyped
<1>4. CASE Make(path)
  <2>1. path # <<>> /\ path \notin DOMAIN fs /\ "CREATE" \in Kinds /\ (Last(path) \in DirNames) \in BOOLEAN
    BY <1>4 DEF Make, Exists, Kinds
  <2>2. InParent(path, "CREATE", Last(path) \in DirNames) \in Seq(Raws)
    BY <1>2, <2>1, ToldInParent
  <2>3. kq' = EnqueuedAll(kq, InParent(path, "CREATE", Last(path) \in DirNames)) /\ UNCHANGED watches
    BY <1>4 DEF Make
  <2>4. \A p \in DOMAIN fs : p \in DOMAIN fs' /\ fs'[p] = fs[p]
    BY <1>4, <2>1 DEF Make
  <2>5. WatchesStand'
    BY <2>3, <2>4 DEF WatchesStand
  <2> QED BY <2>2, <2>3, <2>5, QueueGrows
<1>5. CASE Delete(path)
  <2> DEFINE wds == Watching(fs[path].ino)
  <2>1. path \in DOMAIN fs /\ path # <<>> /\ {"DELETE_SELF", "DELETE"} \subseteq Kinds
        /\ fs[path].isDir \in BOOLEAN /\ FALSE \in BOOLEAN
    BY <1>3, <1>5, InotifyAssumption DEF Delete, Kinds, Exists
  <2>2. wds \in SUBSET DOMAIN watches
    BY DEF Watching
  <2>3. /\ InParent(path, "DELETE", fs[path].isDir) \in Seq(Raws)
        /\ About(path, "DELETE_SELF", NoName, FALSE) \in Seq(Raws)
        /\ Ignored(wds) \in Seq(Raws) /\ \A wd \in wds : Contains(Ignored(wds), DroppedEvent(wd))
    BY <1>2, <2>1, <2>2, ToldInParent, ToldItself, IgnoredHasAll
  <2> DEFINE raws == About(path, "DELETE_SELF", NoName, FALSE) \o Ignored(wds)
                       \o InParent(path, "DELETE", fs[path].isDir)
  <2>4. /\ kq' = EnqueuedAll(kq, raws) /\ watches' = Restrict(watches, DOMAIN watches \ wds)
        /\ fs' = Restrict(fs, DOMAIN fs \ {path})
    BY <1>5 DEF Delete
  <2>5. raws \in Seq(Raws) /\ \A wd \in wds : Contains(raws, DroppedEvent(wd))
    BY <2>3, ThreeTyped, ConcatenationHasAll
  <2>6. \A wd \in DOMAIN watches' : wd \in DOMAIN watches \ wds /\ watches'[wd] = watches[wd]
    BY <2>4 DEF Restrict
  <2>7. ASSUME NEW wd \in DOMAIN watches'
        PROVE  watches'[wd][1] \in DOMAIN fs' /\ fs'[watches'[wd][1]] = fs[watches[wd][1]]
    <3>1. watches[wd] # fs[path].ino /\ wd \in DOMAIN watches
      BY <2>6 DEF Watching
    <3>2. watches[wd][1] # path /\ watches[wd][1] \in DOMAIN fs
      BY <3>1 DEF WatchesStand
    <3> QED BY <2>4, <2>6, <3>2 DEF Restrict
  <2>8. WatchesStand'
    BY <2>6, <2>7 DEF WatchesStand
  <2>9. DOMAIN watches \ DOMAIN watches' \subseteq wds
    BY <2>4 DEF Restrict
  <2> HIDE DEF raws, wds
  <2> QED BY <2>4, <2>5, <2>8, <2>9, QueueGrows
<1>6. CASE Write(path)
  <2>1. path # <<>> /\ "MODIFY" \in Kinds /\ FALSE \in BOOLEAN
    BY <1>6 DEF Write, Kinds, KernelTyped
  <2>2. InParent(path, "MODIFY", FALSE) \in Seq(Raws)
    BY <1>2, <2>1, ToldInParent
  <2>3. kq' = EnqueuedAll(kq, InParent(path, "MODIFY", FALSE)) /\ UNCHANGED <<watches, fs>>
    BY <1>6 DEF Write
  <2> QED BY <2>2, <2>3, QueueGrows DEF WatchesStand
<1>7. CASE Chmod(path)
  <2>1. path # <<>> /\ "ATTRIB" \in Kinds /\ fs[path].isDir \in BOOLEAN /\ TRUE \in BOOLEAN
    BY <1>3, <1>7 DEF Chmod, Kinds, Exists
  <2>2. /\ InParent(path, "ATTRIB", fs[path].isDir) \in Seq(Raws)
        /\ About(path, "ATTRIB", NoName, TRUE) \in Seq(Raws)
    BY <1>2, <2>1, ToldInParent, ToldItself
  <2>3. kq' = EnqueuedAll(kq, InParent(path, "ATTRIB", fs[path].isDir)
                              \o About(path, "ATTRIB", NoName, TRUE)) /\ UNCHANGED <<watches, fs>>
    BY <1>7 DEF Chmod
  <2>4. InParent(path, "ATTRIB", fs[path].isDir) \o About(path, "ATTRIB", NoName, TRUE) \in Seq(Raws)
    BY <2>2, ThreeTyped
  <2> QED BY <2>3, <2>4, QueueGrows DEF WatchesStand
<1>8. CASE Unmount(path)
  <2> DEFINE wds == Watching(fs[path].ino)
  <2>1. wds \in SUBSET DOMAIN watches
    BY DEF Watching
  <2>2. Ignored(wds) \in Seq(Raws) /\ \A wd \in wds : Contains(Ignored(wds), DroppedEvent(wd))
    BY <2>1, IgnoredHasAll
  <2>3. /\ kq' = EnqueuedAll(kq, Ignored(wds)) /\ watches' = Restrict(watches, DOMAIN watches \ wds)
        /\ fs' = [fs EXCEPT ![path].ino = Inode(path)]
    BY <1>8 DEF Unmount
  <2>4. \A wd \in DOMAIN watches' : wd \in DOMAIN watches \ wds /\ watches'[wd] = watches[wd]
    BY <2>3 DEF Restrict
  <2>5. ASSUME NEW wd \in DOMAIN watches'
        PROVE  watches'[wd][1] \in DOMAIN fs' /\ fs'[watches'[wd][1]] = fs[watches[wd][1]]
    <3>1. watches[wd] # fs[path].ino /\ wd \in DOMAIN watches
      BY <2>4 DEF Watching
    <3>2. watches[wd][1] # path /\ watches[wd][1] \in DOMAIN fs
      BY <3>1 DEF WatchesStand
    <3> QED BY <2>3, <2>4, <3>2
  <2>6. WatchesStand'
    BY <2>4, <2>5 DEF WatchesStand
  <2>7. DOMAIN watches \ DOMAIN watches' \subseteq wds
    BY <2>3 DEF Restrict
  <2> HIDE DEF wds
  <2> QED BY <2>2, <2>3, <2>6, <2>7, QueueGrows
<1> QED BY <1>1, <1>4, <1>5, <1>6, <1>7, <1>8

(* Watches that the backend removes itself it forgets in the same step. *)
LEMMA ReleaseFollowed ==
    ASSUME KernelTyped, Followed, NEW wds, RmWatches(wds), WatchedWds' = WatchedWds \ wds,
           UNCHANGED <<buf, closed, fdOpen, cur>>, runPc = "drop" => runPc' = "drop", BufferRead'
    PROVE  Followed'
<1> USE DEF Followed
<1> DEFINE live == wds \cap DOMAIN watches
<1>1. /\ watches' = Restrict(watches, DOMAIN watches \ live) /\ kq' = EnqueuedAll(kq, Ignored(live))
      /\ UNCHANGED fs
  BY DEF RmWatches
<1>2. Ignored(live) \in Seq(Raws)
  BY IgnoredHasAll
<1> HIDE DEF live
<1>3. \A raw : Contains(kq, raw) => Contains(kq', raw)
  BY <1>1, <1>2, QueueGrows
<1>4. WatchesStand'
  BY <1>1 DEF WatchesStand, Restrict
<1>5. \A wd \in WatchedWds' \ DOMAIN watches' : wd \in WatchedWds \ DOMAIN watches
  BY <1>1 DEF Restrict, live
<1>6. LossesAnnounced'
  BY <1>3, <1>5 DEF LossesAnnounced, Announced
<1> QED BY <1>4, <1>6

(* A step that only reads: nothing is unheard but what run() has taken up. *)
LEMMA ReadingFollowed ==
    ASSUME Followed, UNCHANGED <<fs, watches, fdOpen>>, closed => closed',
           WatchedWds' \subseteq WatchedWds, BufferRead',
           \A wd \in WatchedWds' : Announced(wd) => Announced(wd)'
    PROVE  Followed'
<1> USE DEF Followed
<1>1. WatchesStand'
  BY DEF WatchesStand
<1>2. LossesAnnounced'
  BY DEF LossesAnnounced
<1> QED BY <1>1, <1>2

LEMMA WalkFollowed ==
    ASSUME Typed, NodesAreReleasable, Steady, Followed, NEW w \in Walkers, WalkStep(w)
    PROVE  Followed'
<1> USE DEF Typed, Followed
<1>1. UNCHANGED <<kq, buf, runPc, cur, closed, fdOpen, fs>>
  BY DEF WalkStep, WalkExcluded, AddDirOrphan, AddDirShared, AddDirWatch, AddDirFails, ReadDir,
     ReadDirFails, AddWatch, runVars, kernelVars
<1>2. CASE AddDirWatch(w)
  <2>1. PICK dir \in walk[w].todo :
          /\ IsDirectory(dir) /\ AddWatch(dir) /\ dir \notin DOMAIN watched
          /\ walk[w].root \in DOMAIN rootDirs
          /\ Enroll(dir, [wd |-> WatchFor(dir), roots |-> {walk[w].root}], walk[w].root)
          /\ wdToPath' = Put(wdToPath, WatchFor(dir), dir)
    BY <1>2 DEF AddDirWatch
  <2>2. /\ DOMAIN watches' = DOMAIN watches \cup {WatchFor(dir)}
        /\ watches'[WatchFor(dir)] = fs[dir].ino
        /\ \A wd \in DOMAIN watches \ {WatchFor(dir)} : watches'[wd] = watches[wd]
    BY <2>1 DEF AddWatch
  <2>3. fs[dir].ino[1] = dir /\ dir \in DOMAIN fs /\ fs[dir].isDir
    BY <2>1 DEF Steady, InodesNamed, IsDirectory, Exists
  <2>4. WatchesStand'
    BY <1>1, <2>2, <2>3 DEF WatchesStand
  <2>5. WatchedWds' = WatchedWds \cup {WatchFor(dir)}
    <3>1. dir \in Tree
      BY DEF Steady, InTree
    <3> QED BY <2>1, <3>1, AddDirKeepsTables
  <2>6. LossesAnnounced'
    BY <1>1, <2>2, <2>5 DEF LossesAnnounced, Announced
  <2> QED BY <1>1, <2>4, <2>6 DEF BufferRead
<1>3. CASE AddDirShared(w)
  <2>1. PICK dir \in walk[w].todo :
          /\ walk[w].root \in DOMAIN rootDirs /\ dir \in DOMAIN watched
          /\ Enroll(dir, [watched[dir] EXCEPT !.roots = @ \cup {walk[w].root}], walk[w].root)
          /\ UNCHANGED <<kernelVars, wdToPath>>
    BY <1>3 DEF AddDirShared
  <2>2. WatchedWds' = WatchedWds /\ UNCHANGED watches
    BY <2>1, SharedKeepsTables DEF Steady, kernelVars
  <2> QED BY <1>1, <2>2, ReadingFollowed DEF BufferRead, Announced
<1>4. CASE ~AddDirWatch(w) /\ ~AddDirShared(w)
  <2>1. UNCHANGED <<watches, watched>>
    BY <1>4 DEF WalkStep, WalkExcluded, AddDirOrphan, AddDirFails, ReadDir, ReadDirFails,
       kernelVars, tables
  <2> QED BY <1>1, <2>1, ReadingFollowed DEF BufferRead, Announced, WatchedWds
<1> QED BY <1>2, <1>3, <1>4

LEMMA CallFollowed ==
    ASSUME Typed, KernelTyped', NodesAreReleasable, Steady, Followed, NEW c \in Callers, CallStep(c)
    PROVE  Followed'
<1> USE DEF Typed
<1>1. UNCHANGED <<buf, runPc, cur, closed, fdOpen, astray>>
  BY DEF CallStep, AddRegister, AddDone, AddCleanup, RemoveRoot, runVars, history
<1>2. ASSUME NEW path \in DOMAIN roots, ForgetRoot(path) PROVE Followed'
  <2>1. PICK wds : RmWatches(wds) /\ WatchedWds' = WatchedWds \ wds
    BY <1>1, <1>2, ForgetKeepsTables
  <2> QED BY <1>1, <2>1, ReleaseFollowed DEF BufferRead, Followed
<1>3. ASSUME UNCHANGED <<kernelVars, watched>> PROVE Followed'
  BY <1>1, <1>3, ReadingFollowed DEF BufferRead, Announced, WatchedWds, kernelVars, Followed
<1>4. CASE \E tgt \in Targets : AddRegister(c, tgt)
  BY <1>3, <1>4 DEF AddRegister
<1>5. CASE AddDone(c)
  BY <1>3, <1>5 DEF AddDone, tables
<1>6. CASE AddCleanup(c)
  BY <1>2, <1>3, <1>6 DEF AddCleanup, tables
<1>7. ASSUME NEW path \in DOMAIN roots, RemoveRoot(c, path) PROVE Followed'
  BY <1>2, <1>7 DEF RemoveRoot
<1> QED BY <1>4, <1>5, <1>6, <1>7 DEF CallStep

(* The event at the head of the buffer leaves it. *)
LEMMA TakenKeeps ==
    ASSUME RunTyped, runPc = "next", buf # <<>>, Taken, UNCHANGED kq
    PROVE  \A wd : Announced(wd) /\ Raw # DroppedEvent(wd) => Announced(wd)'
<1>1. \A e : Contains(buf, e) /\ e # Raw => Contains(buf', e)
  <2>1. ASSUME NEW e, Contains(buf, e), e # Raw PROVE Contains(buf', e)
    <3>1. PICK i \in 1 .. Len(buf) : buf[i] = e
      BY <2>1 DEF Contains
    <3>2. buf \in Seq(Raws) /\ buf' = Tail(buf)
      BY DEF RunTyped, Taken
    <3>3. i # 1
      BY <2>1, <3>1 DEF Raw
    <3>4. i - 1 \in 1 .. Len(Tail(buf)) /\ Tail(buf)[i - 1] = buf[i]
      BY <3>2, <3>3
    <3> QED BY <3>1, <3>2, <3>4 DEF Contains
  <2> QED BY <2>1
<1> QED BY <1>1 DEF Announced

LEMMA RunFollowed ==
    ASSUME NoRenames, Typed, KernelTyped', Steady, Followed, RunStep
    PROVE  Followed'
<1> USE DEF Typed
<1>1. ~FlushPending /\ ~RenameWatched /\ ~HandleMovedFrom
  BY NothingIsRenamed
<1>2. CASE UnwatchGone
  <2>1. PICK wds : RmWatches(wds) /\ WatchedWds' = WatchedWds \ wds
    BY <1>2, UnwatchKeepsTables DEF UnwatchGone
  <2>2. runPc = "unwatch" /\ runPc' = "gone" /\ UNCHANGED <<buf, closed, fdOpen, cur>>
    BY <1>2 DEF UnwatchGone, RunGoto
  <2> QED BY <2>1, <2>2, ReleaseFollowed DEF BufferRead
<1>3. CASE DropWatch
  <2>1. UNCHANGED <<kernelVars, closed, fdOpen, buf>> /\ runPc' = "next"
    BY <1>3 DEF DropWatch, RunGoto
  <2>2. WatchedWds' \subseteq WatchedWds \ {cur.raw.wd}
    BY <1>3, DropWatchKeepsTables
  <2>3. \A wd \in WatchedWds' : Announced(wd) => Announced(wd)'
    BY <2>1, <2>2 DEF Announced, kernelVars
  <2> QED BY <2>1, <2>2, <2>3, ReadingFollowed DEF BufferRead, kernelVars
<1>8. CASE HandleIgnored
  <2>1. /\ runPc = "next" /\ runPc' = "drop" /\ UNCHANGED <<kernelVars, closed, fdOpen, watched>>
        /\ Taken /\ buf # <<>> /\ cur'.raw = Raw
    BY <1>8 DEF HandleIgnored, Dispatches, RunGoto, tables
  <2>2. \A wd : Announced(wd) => Announced(wd)'
    <3>1. ASSUME NEW wd, Raw = DroppedEvent(wd) PROVE Announced(wd)'
      BY <2>1, <3>1 DEF Announced, DroppedEvent
    <3> QED BY <2>1, <3>1, TakenKeeps DEF kernelVars
  <2> QED BY <2>1, <2>2, ReadingFollowed DEF BufferRead, WatchedWds, kernelVars
<1>4. CASE Read
  <2>1. /\ buf' = kq /\ runPc' = "next" /\ runPc = "loop"
        /\ UNCHANGED <<fs, watches, tables, closed, fdOpen>>
    BY <1>4 DEF Read, RunGoto
  <2>2. buf = <<>>
    BY <2>1 DEF Followed, BufferRead
  <2>3. \A wd : Announced(wd) => Announced(wd)'
    BY <2>1, <2>2 DEF Announced, Contains
  <2> QED BY <2>1, <2>3, ReadingFollowed DEF BufferRead, WatchedWds, tables
<1>5. ASSUME UNCHANGED <<kernelVars, tables, closed, fdOpen>>, BufferRead',
             \A wd \in WatchedWds : Announced(wd) => Announced(wd)'
      PROVE  Followed'
  BY <1>5, ReadingFollowed DEF WatchedWds, kernelVars, tables
<1>6. CASE RunExits \/ BufferDone \/ Report \/ ReportGone \/ Emit \/ SnapshotRoots \/ WalksDone \/ WalkNextRoot
  <2>1. /\ UNCHANGED <<kernelVars, tables, closed, fdOpen, buf>>
        /\ runPc' \in {"loop", "exited"} => runPc \in {"loop", "exited"} \/ buf = <<>>
        /\ runPc # "drop"
    BY <1>6 DEF RunExits, BufferDone, Report, ReportGone, Emit, SnapshotRoots, WalksDone, WalkNextRoot, RunGoto
  <2>2. BufferRead'
    BY <2>1 DEF Followed, BufferRead
  <2> QED BY <1>5, <2>1, <2>2 DEF Announced, kernelVars
<1>7. CASE HandleUnknown \/ HandleOverflow \/ HandleContent \/ HandleGone \/ HandleAppeared
  <2>1. /\ runPc = "next" /\ runPc' \notin {"loop", "exited"} /\ buf # <<>> /\ Taken
        /\ UNCHANGED <<kernelVars, tables, closed, fdOpen>>
        /\ Raw.kind # "IGNORED" \/ Raw.wd \notin DOMAIN wdToPath
    BY <1>7 DEF HandleUnknown, HandleOverflow, HandleContent, HandleGone, HandleAppeared, Dispatches, RunGoto
  <2>2. \A wd \in WatchedWds : Raw # DroppedEvent(wd)
    BY <2>1 DEF DroppedEvent, Steady, TablesAgree
  <2>3. \A wd \in WatchedWds : Announced(wd) => Announced(wd)'
    BY <2>1, <2>2, TakenKeeps DEF kernelVars
  <2> QED BY <1>5, <2>1, <2>3 DEF BufferRead
<1> QED BY <1>1, <1>2, <1>3, <1>4, <1>6, <1>7, <1>8 DEF RunStep

LEMMA FollowedStep ==
    NoRenames /\ Typed /\ Typed' /\ NodesAreReleasable /\ Steady /\ Followed /\ QueueHolds'
      /\ [Next]_vars => Followed'
<1> SUFFICES ASSUME NoRenames, Typed, Typed', NodesAreReleasable, Steady, Followed, QueueHolds',
                    [Next]_vars
             PROVE  Followed'
  OBVIOUS
<1> USE DEF Followed
<1>0. KernelTyped /\ KernelTyped'
  BY DEF Typed
<1>1. CASE DiskChanges /\ UNCHANGED <<tables, pending, closed, fdOpen, runVars, callVars, walkVars, history>>
  <2>1. UNCHANGED <<watched, closed, fdOpen, runPc, buf, cur>>
    BY <1>1 DEF tables, runVars
  <2>2. /\ WatchesStand' /\ \A raw : Contains(kq, raw) => Contains(kq', raw)
        /\ \A wd \in DOMAIN watches \ DOMAIN watches' : Contains(kq', DroppedEvent(wd))
    BY <1>0, <1>1, DiskAnnounces
  <2>3. LossesAnnounced' /\ BufferRead'
    BY <2>1, <2>2 DEF LossesAnnounced, Announced, BufferRead, WatchedWds
  <2> QED BY <2>1, <2>2, <2>3
<1>2. CASE CloseFlag \/ UNCHANGED vars
  <2>1. UNCHANGED <<kernelVars, tables, fdOpen, runPc, buf, cur>> /\ (closed => closed')
    BY <1>2 DEF CloseFlag, vars, runVars
  <2> QED BY <2>1, ReadingFollowed DEF BufferRead, Announced, WatchedWds, kernelVars, tables
<1>3. CASE CloseDescriptor
  <2>1. watches' = <<>> /\ closed' /\ ~fdOpen' /\ UNCHANGED <<runPc, buf>>
    BY <1>3 DEF CloseDescriptor, runVars
  <2> QED BY <2>1 DEF WatchesStand, LossesAnnounced, BufferRead
<1> QED BY <1>0, <1>1, <1>2, <1>3, WalkFollowed, CallFollowed, RunFollowed DEF Next

----------------------------------------------------------------------------
(***************************************************************************)
(* Where nothing is renamed and the kernel's queue does not overflow: once *)
(* all events have been handled, every directory in the table is there,    *)
(* and the kernel watches it under the descriptor of its node and not one  *)
(* that was there before it; for any tree, callers and changes on disk     *)
(* (addDir, dropWatch, removeWatchedPrefix).  With an overflow it is       *)
(* false: the only notice of a lost watch may be lost with it.             *)
(***************************************************************************)
THEOREM WatchesStayTrue ==
    ASSUME NoRenames
    PROVE  Spec /\ []QueueHolds => []WatchesAreTrue
<1>1. Steady /\ Followed => WatchesAreTrue
  <2> SUFFICES ASSUME Steady, Followed, Quiet, NEW dir \in DOMAIN watched
               PROVE  /\ IsDirectory(dir) /\ watched[dir].wd \in DOMAIN watches
                      /\ watches[watched[dir].wd] = fs[dir].ino
    BY DEF WatchesAreTrue
  <2> DEFINE wd == watched[dir].wd
  <2>1. wd \in WatchedWds /\ wd \in DOMAIN wdToPath /\ wdToPath[wd] = dir
    BY DEF Steady, TablesAgree, WatchedWds
  <2>2. kq = <<>> /\ buf = <<>> /\ fdOpen /\ runPc # "drop"
    BY DEF Quiet, Followed, BufferRead
  <2>3. ~Announced(wd)
    BY <2>2 DEF Announced, Contains
  <2>4. wd \in DOMAIN watches
    BY <2>1, <2>2, <2>3 DEF Followed, LossesAnnounced
  <2>5. watches[wd][1] = dir
    BY <2>1, <2>4 DEF Steady, WatchesNamed
  <2> QED BY <2>4, <2>5 DEF Followed, WatchesStand, IsDirectory, Exists
<1>2. Typed /\ Typed' /\ NodesAreReleasable /\ Steady /\ Followed /\ QueueHolds' /\ [Next]_vars
        => Followed'
  BY FollowedStep
<1> QED BY <1>1, <1>2, FollowedInit, TypesInvariant, NodesStayReleasable, SteadyInvariant, PTL DEF Spec
============================================================================
