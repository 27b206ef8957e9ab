-------------------------- MODULE RootIndexProofs --------------------------
(***************************************************************************)
(* What the operations on the root index and on paths keep, for any set of *)
(* names and paths of any length; and what a fold over a sequence keeps,   *)
(* which the proofs about the backends use.                                *)
(***************************************************************************)
EXTENDS RootIndex, FiniteSetTheorems, SequenceTheorems, WellFoundedInduction, TLAPS

----------------------------------------------------------------------------
(* Path arithmetic stays within the paths over a set of names.             *)

LEMMA SubSeqIsPath ==
    ASSUME NEW Names, NEW p \in Path(Names), NEW m \in Nat \ {0}, NEW n \in 0 .. Len(p)
    PROVE  SubSeq(p, m, n) \in Path(Names)
<1>1. CASE m <= n
  BY <1>1, SubSeqProperties DEF Path
<1>2. CASE m > n
  <2>1. SubSeq(p, m, n) = <<>>
    BY <1>2, SubSeqEmpty
  <2> QED BY <2>1 DEF Path
<1> QED BY <1>1, <1>2

LEMMA ParentIsPath ==
    ASSUME NEW Names, NEW p \in Path(Names)
    PROVE  ParentDir(p) \in Path(Names)
<1>1. CASE p = <<>>
  BY <1>1 DEF ParentDir, Path
<1>2. CASE p # <<>>
  <2>1. Len(p) - 1 \in 0 .. Len(p)
    BY <1>2 DEF Path
  <2> QED BY <2>1, SubSeqIsPath DEF ParentDir
<1> QED BY <1>1, <1>2

LEMMA JoinIsPath ==
    ASSUME NEW Names, NEW p \in Path(Names), NEW old \in Path(Names), NEW new \in Path(Names)
    PROVE  JoinMovedPath(p, old, new) \in Path(Names)
<1>1. SubSeq(p, Len(old) + 1, Len(p)) \in Path(Names)
  BY SubSeqIsPath DEF Path
<1> QED BY <1>1 DEF JoinMovedPath, Path

----------------------------------------------------------------------------
(* The two ways up from a path: one step with ParentDir, all the way with  *)
(* SelfAndAncestors.                                                       *)

LEMMA AncestorsArePrefixes ==
    ASSUME NEW Names, NEW p \in Path(Names), NEW q \in Path(Names)
    PROVE  q \in SelfAndAncestors(p) <=> IsPrefix(q, p)
<1>1. SubSeq(q, 1, Len(q)) = q
  <2>1. Len(q) \in Nat /\ q \in [1 .. Len(q) -> Names] /\ DOMAIN q = 1 .. Len(q)
    BY DEF Path
  <2>2. CASE q = <<>>
    BY <2>2, SubSeqEmpty
  <2>3. CASE q # <<>>
    BY <2>1, <2>3 DEF Path
  <2> QED BY <2>2, <2>3
<1>2. ASSUME NEW n \in 0 .. Len(p), q = SubSeq(p, 1, n)
      PROVE  Len(q) = n
  BY <1>2 DEF Path
<1>3. ASSUME q \in SelfAndAncestors(p)
      PROVE  IsPrefix(q, p)
  <2>1. PICK n \in 0 .. Len(p) : q = SubSeq(p, 1, n)
    BY <1>3 DEF SelfAndAncestors
  <2> QED BY <1>1, <1>2, <2>1 DEF IsPrefix, Path
<1>4. ASSUME IsPrefix(q, p)
      PROVE  q \in SelfAndAncestors(p)
  <2>1. Len(q) \in 0 .. Len(p) /\ q = SubSeq(p, 1, Len(q))
    BY <1>1, <1>4 DEF IsPrefix, Path
  <2> QED BY <2>1 DEF SelfAndAncestors
<1> QED BY <1>3, <1>4

LEMMA ParentsOfChildren ==
    ASSUME NEW Names, NEW p \in Path(Names), NEW q \in Path(Names)
    PROVE  ParentDir(p) = q <=> (\E n \in Names : p = Append(q, n)) \/ (p = <<>> /\ q = <<>>)
<1>1. CASE p = <<>>
  <2>1. ParentDir(p) = <<>>
    BY <1>1 DEF ParentDir
  <2>2. ASSUME NEW n \in Names PROVE p # Append(q, n)
    BY <1>1, AppendProperties DEF Path
  <2> QED BY <1>1, <2>1, <2>2
<1>2. CASE p # <<>>
  <2>1. p = Append(ParentDir(p), p[Len(p)]) /\ p[Len(p)] \in Names
    BY <1>2, AppendProperties DEF ParentDir, Path
  <2>2. ASSUME NEW n \in Names, p = Append(q, n) PROVE ParentDir(p) = q
    BY <2>2, AppendProperties DEF ParentDir, Path
  <2> QED BY <1>2, <2>1, <2>2
<1> QED BY <1>1, <1>2

(* Prefixes agree component by component. *)
LEMMA PrefixesAgree ==
    ASSUME NEW Names, NEW p \in Path(Names), NEW q \in Path(Names)
    PROVE  IsPrefix(q, p) <=> Len(q) <= Len(p) /\ \A n \in 1 .. Len(q) : q[n] = p[n]
<1>1. CASE Len(q) <= Len(p)
  <2> DEFINE s == SubSeq(q, 1, Len(q))
             t == SubSeq(p, 1, Len(q))
  <2>1. /\ s \in Path(Names) /\ Len(s) = Len(q) /\ \A n \in 1 .. Len(q) : s[n] = q[n]
        /\ t \in Path(Names) /\ Len(t) = Len(q) /\ \A n \in 1 .. Len(q) : t[n] = p[n]
    BY <1>1, SubSeqProperties, ElementOfSeq, LenProperties DEF Path
  <2> HIDE DEF s, t
  <2>2. s = t <=> \A n \in 1 .. Len(q) : q[n] = p[n]
    BY <2>1, SeqEqual DEF Path
  <2> QED BY <1>1, <2>2 DEF IsPrefix, s, t
<1>2. CASE ~(Len(q) <= Len(p))
  BY <1>2 DEF IsPrefix
<1> QED BY <1>1, <1>2

(* A moved path: the new prefix, then what the path has after the old one. *)
LEMMA JoinComponents ==
    ASSUME NEW Names, NEW p \in Path(Names), NEW old \in Path(Names), NEW new \in Path(Names),
           Len(old) <= Len(p)
    PROVE  /\ Len(JoinMovedPath(p, old, new)) = Len(new) + Len(p) - Len(old)
           /\ \A n \in 1 .. Len(new) + Len(p) - Len(old) :
                JoinMovedPath(p, old, new)[n] =
                  IF n <= Len(new) THEN new[n] ELSE p[n - Len(new) + Len(old)]
<1> DEFINE rest == SubSeq(p, Len(old) + 1, Len(p))
<1>1. /\ rest \in Path(Names) /\ Len(rest) = Len(p) - Len(old)
      /\ \A n \in 1 .. Len(p) - Len(old) : rest[n] = p[n + Len(old)]
  BY SubSeqProperties, ElementOfSeq, LenProperties DEF Path
<1> HIDE DEF rest
<1>2. JoinMovedPath(p, old, new) = new \o rest
  BY DEF JoinMovedPath, rest
<1>3. Len(p) \in Nat /\ Len(old) \in Nat /\ Len(new) \in Nat
  BY LenProperties DEF Path
<1>4. /\ Len(new \o rest) = Len(new) + Len(rest)
      /\ \A n \in 1 .. Len(new) + Len(rest) :
           (new \o rest)[n] = IF n <= Len(new) THEN new[n] ELSE rest[n - Len(new)]
  <2>1. new \in Seq(Names) /\ rest \in Seq(Names)
    BY <1>1 DEF Path
  <2> QED BY <2>1, ConcatProperties, Zenon
<1>5. ASSUME NEW n \in 1 .. Len(new) + Len(p) - Len(old), ~(n <= Len(new))
      PROVE  rest[n - Len(new)] = p[n - Len(new) + Len(old)]
  BY <1>1, <1>3, <1>5
<1> QED BY <1>1, <1>2, <1>3, <1>4, <1>5

(* What is below a directory that moves, stays below it. *)
LEMMA PrefixMovesAlong ==
    ASSUME NEW Names, NEW p \in Path(Names), NEW q \in Path(Names),
           NEW old \in Path(Names), NEW new \in Path(Names),
           IsPrefix(q, p), Len(old) <= Len(q)
    PROVE  IsPrefix(JoinMovedPath(q, old, new), JoinMovedPath(p, old, new))
<1>1. Len(q) <= Len(p) /\ \A n \in 1 .. Len(q) : q[n] = p[n]
  BY PrefixesAgree
<1>2. Len(p) \in Nat /\ Len(q) \in Nat /\ Len(old) \in Nat /\ Len(new) \in Nat
  BY LenProperties DEF Path
<1> DEFINE q2 == JoinMovedPath(q, old, new)
           p2 == JoinMovedPath(p, old, new)
<1>3. q2 \in Path(Names) /\ p2 \in Path(Names)
  BY JoinIsPath
<1>4. Len(q2) = Len(new) + Len(q) - Len(old) /\ Len(p2) = Len(new) + Len(p) - Len(old)
  BY <1>1, <1>2, JoinComponents
<1>5. ASSUME NEW n \in 1 .. Len(new) + Len(q) - Len(old)
      PROVE  q2[n] = p2[n]
  <2>1. q2[n] = IF n <= Len(new) THEN new[n] ELSE q[n - Len(new) + Len(old)]
    BY <1>2, JoinComponents
  <2>2. p2[n] = IF n <= Len(new) THEN new[n] ELSE p[n - Len(new) + Len(old)]
    <3>1. n \in 1 .. Len(new) + Len(p) - Len(old) /\ Len(old) <= Len(p)
      BY <1>1, <1>2
    <3> QED BY <3>1, JoinComponents
  <2> QED BY <1>1, <1>2, <2>1, <2>2
<1> HIDE DEF q2, p2
<1>6. IsPrefix(q2, p2)
  BY <1>1, <1>2, <1>3, <1>4, <1>5, PrefixesAgree
<1> QED BY <1>6 DEF q2, p2

(* A path that is moved and moved back is where it was. *)
LEMMA MovesBack ==
    ASSUME NEW Names, NEW p \in Path(Names), NEW old \in Path(Names), NEW new \in Path(Names),
           HasPathPrefix(p, old)
    PROVE  JoinMovedPath(JoinMovedPath(p, old, new), new, old) = p
<1> DEFINE q == JoinMovedPath(p, old, new)
           back == JoinMovedPath(q, new, old)
<1>1. Len(p) \in Nat /\ Len(old) \in Nat /\ Len(new) \in Nat
  BY LenProperties DEF Path
<1>2. Len(old) <= Len(p) /\ \A n \in 1 .. Len(old) : old[n] = p[n]
  <2>1. CASE p = old
    BY <1>1, <2>1
  <2>2. CASE p # old
    BY <2>2, PrefixesAgree DEF HasPathPrefix, IsStrictPrefix
  <2> QED BY <2>1, <2>2
<1>3. q \in Path(Names)
  BY JoinIsPath
<1>4. /\ Len(q) = Len(new) + Len(p) - Len(old)
      /\ \A n \in 1 .. Len(new) + Len(p) - Len(old) :
           q[n] = IF n <= Len(new) THEN new[n] ELSE p[n - Len(new) + Len(old)]
  BY <1>2, JoinComponents
<1> HIDE DEF q
<1>5. Len(new) <= Len(q) /\ Len(q) \in Nat
  BY <1>1, <1>2, <1>4
<1>6. /\ Len(back) = Len(old) + Len(q) - Len(new)
      /\ \A n \in 1 .. Len(old) + Len(q) - Len(new) :
           back[n] = IF n <= Len(old) THEN old[n] ELSE q[n - Len(old) + Len(new)]
  BY <1>3, <1>5, JoinComponents
<1>7. back \in Path(Names)
  BY <1>3, JoinIsPath
<1> HIDE DEF back
<1>8. Len(back) = Len(p)
  BY <1>1, <1>4, <1>6
<1>9. ASSUME NEW n \in 1 .. Len(p) PROVE back[n] = p[n]
  <2>1. CASE n <= Len(old)
    BY <1>1, <1>2, <1>4, <1>6, <2>1
  <2>2. CASE ~(n <= Len(old))
    <3>1. /\ n \in 1 .. Len(old) + Len(q) - Len(new)
          /\ n - Len(old) + Len(new) \in 1 .. Len(new) + Len(p) - Len(old)
          /\ ~(n - Len(old) + Len(new) <= Len(new))
          /\ n - Len(old) + Len(new) - Len(new) + Len(old) = n
      BY <1>1, <1>2, <1>4, <2>2
    <3> QED BY <1>4, <1>6, <2>2, <3>1
  <2> QED BY <2>1, <2>2
<1>10. back = p
  BY <1>7, <1>8, <1>9, SeqEqual DEF Path
<1> QED BY <1>10 DEF back, q

(* A child of a directory that moves, stays its child. *)
LEMMA ChildMovesAlong ==
    ASSUME NEW Names, NEW q \in Path(Names), NEW name \in Names,
           NEW old \in Path(Names), NEW new \in Path(Names), Len(old) <= Len(q)
    PROVE  JoinMovedPath(Append(q, name), old, new) = Append(JoinMovedPath(q, old, new), name)
<1> DEFINE p == Append(q, name)
           q2 == JoinMovedPath(q, old, new)
           p2 == JoinMovedPath(p, old, new)
<1>1. Len(q) \in Nat /\ Len(old) \in Nat /\ Len(new) \in Nat
  BY LenProperties DEF Path
<1>2. /\ p \in Path(Names) /\ Len(p) = Len(q) + 1 /\ p[Len(q) + 1] = name
      /\ \A n \in 1 .. Len(q) : p[n] = q[n]
  BY AppendProperties DEF Path
<1> HIDE DEF p, q2
<1>3. q2 \in Path(Names) /\ p2 \in Path(Names)
  BY <1>2, JoinIsPath DEF q2
<1>4. /\ Len(q2) = Len(new) + Len(q) - Len(old)
      /\ \A n \in 1 .. Len(new) + Len(q) - Len(old) :
           q2[n] = IF n <= Len(new) THEN new[n] ELSE q[n - Len(new) + Len(old)]
  BY JoinComponents DEF q2
<1>5. /\ Len(p2) = Len(new) + Len(p) - Len(old)
      /\ \A n \in 1 .. Len(new) + Len(p) - Len(old) :
           p2[n] = IF n <= Len(new) THEN new[n] ELSE p[n - Len(new) + Len(old)]
  <2>1. Len(old) <= Len(p)
    BY <1>1, <1>2
  <2>2. p \in Path(Names) /\ Len(p) \in Nat
    BY <1>1, <1>2
  <2> QED BY <1>1, <2>1, <2>2, JoinComponents
<1> HIDE DEF p2
<1>6. /\ Append(q2, name) \in Path(Names) /\ Len(Append(q2, name)) = Len(q2) + 1
      /\ Append(q2, name)[Len(q2) + 1] = name
      /\ \A n \in 1 .. Len(q2) : Append(q2, name)[n] = q2[n]
  BY <1>3, AppendProperties DEF Path
<1>7. ASSUME NEW n \in 1 .. Len(q2) + 1
      PROVE  p2[n] = Append(q2, name)[n]
  <2>1. CASE n <= Len(q2)
    BY <1>1, <1>2, <1>4, <1>5, <1>6, <2>1
  <2>2. CASE n = Len(q2) + 1
    BY <1>1, <1>2, <1>4, <1>5, <1>6, <2>2
  <2> QED BY <1>1, <1>4, <2>1, <2>2
<1>8. Len(p2) = Len(Append(q2, name))
  BY <1>1, <1>2, <1>4, <1>5, <1>6
<1>9. p2 = Append(q2, name)
  BY <1>1, <1>3, <1>4, <1>6, <1>7, <1>8, SeqEqual DEF Path
<1> QED BY <1>9 DEF p, q2, p2

----------------------------------------------------------------------------
(* Induction over the natural numbers, for a set. *)
LEMMA NatSetInduction ==
    ASSUME NEW T, 0 \in T, \A n \in Nat : n \in T => n + 1 \in T
    PROVE  Nat \subseteq T
<1>1. ASSUME ~(Nat \subseteq T) PROVE FALSE
  <2>1. PICK x \in Nat \ T : \A y \in Nat \ T : ~(<<y, x>> \in OpToRel(<, Nat))
    <3> DEFINE U == Nat \ T
    <3>1. U \subseteq Nat /\ U # {}
      BY <1>1
    <3> HIDE DEF U
    <3>2. \E x \in U : \A y \in U : ~(<<y, x>> \in OpToRel(<, Nat))
      BY <3>1, NatLessThanWellFounded, WFMin
    <3> QED BY <3>2 DEF U
  <2>2. x - 1 \in Nat /\ (x - 1) + 1 = x
    <3>1. x # 0 /\ x \in Nat
      BY <2>1
    <3> QED BY <3>1
  <2>3. x - 1 \notin T
    BY <2>1, <2>2
  <2>4. <<x - 1, x>> \in OpToRel(<, Nat)
    BY <2>2 DEF OpToRel
  <2> QED BY <2>1, <2>2, <2>3, <2>4
<1> QED BY <1>1

(* The elements of a finite set, in some order. *)
LEMMA SetToSeqElements ==
    ASSUME NEW S, IsFiniteSet(S)
    PROVE  SetToSeq(S) \in Seq(S)
<1> DEFINE n == Cardinality(S)
<1>1. n \in Nat /\ ExistsBijection(1 .. n, S)
  BY FS_CardinalityType
<1>2. PICK f \in Bijection(1 .. n, S) : TRUE
  BY <1>1 DEF ExistsBijection
<1>3. f \in [1 .. n -> S] /\ IsInjective(f)
  BY <1>2 DEF Bijection, Injection, IsInjective
<1>4. SetToSeq(S) \in [1 .. n -> S]
  BY <1>3 DEF SetToSeq
<1> QED BY <1>1, <1>4

(* A sequence made of a finite set has each of its elements. *)
LEMMA SetToSeqHasAll ==
    ASSUME NEW S, IsFiniteSet(S), NEW e \in S
    PROVE  Contains(SetToSeq(S), e)
<1> DEFINE n == Cardinality(S)
           f == SetToSeq(S)
<1>1. n \in Nat /\ ExistsBijection(1 .. n, S)
  BY FS_CardinalityType
<1>2. PICK b \in Bijection(1 .. n, S) : TRUE
  BY <1>1 DEF ExistsBijection
<1>3. b \in [1 .. n -> S] /\ IsInjective(b)
  BY <1>2 DEF Bijection, Injection, IsInjective
<1>4. f \in [1 .. n -> S] /\ IsInjective(f)
  BY <1>3 DEF SetToSeq
<1> HIDE DEF f
<1>5. f \in Injection(1 .. n, S)
  BY <1>4 DEF Injection, IsInjective
<1>6. Cardinality(1 .. n) = n
  BY <1>1, FS_Interval
<1> HIDE DEF n
<1>7. f \in Surjection(1 .. n, S)
  BY <1>5, <1>6, FS_Injection DEF n
<1>8. Len(f) = n
  BY <1>1, <1>4
<1> QED BY <1>7, <1>8 DEF Surjection, Contains, f

(* The greatest element of a set of positions. *)
LEMMA GreatestOfPositions ==
    ASSUME NEW n \in Nat, NEW s \in SUBSET (1 .. n), s # {}
    PROVE  Max(s) \in s /\ \A y \in s : Max(s) >= y
<1> DEFINE Bounded(m) == \A t \in SUBSET (1 .. m) : t # {} => \E x \in t : \A y \in t : x >= y
           T == {m \in Nat : Bounded(m)}
<1>1. 0 \in T
  <2>1. \A t \in SUBSET (1 .. 0) : t = {}
    OBVIOUS
  <2> QED BY <2>1
<1>2. ASSUME NEW m \in Nat, m \in T PROVE m + 1 \in T
  <2>1. ASSUME NEW t \in SUBSET (1 .. m + 1), t # {}
        PROVE  \E x \in t : \A y \in t : x >= y
    <3>1. CASE m + 1 \in t
      BY <3>1
    <3>2. CASE m + 1 \notin t
      <4>1. t \in SUBSET (1 .. m)
        BY <3>2
      <4> QED BY <1>2, <2>1, <4>1
    <3> QED BY <3>1, <3>2
  <2> QED BY <2>1
<1> HIDE DEF T
<1>3. Nat \subseteq T
  BY <1>1, <1>2, NatSetInduction
<1>4. \E x \in s : \A y \in s : x >= y
  BY <1>3 DEF T
<1> QED BY <1>4 DEF Max

(***************************************************************************)
(* FoldLeft, for any step: F[i, x] is what the step makes of x at i.       *)
(***************************************************************************)
Folds(g, n, base, F) ==
    \A s \in SUBSET (1 .. n) :
        g[s] = IF s = {} THEN base ELSE F[<<Max(s), g[s \ {Max(s)}]>>]

LEMMA FoldExists ==
    ASSUME NEW N \in Nat, NEW Q, NEW base \in Q, NEW F \in [(1 .. N) \X Q -> Q]
    PROVE  \E g \in [SUBSET (1 .. N) -> Q] : Folds(g, N, base, F)
<1> DEFINE T == {n \in Nat : n <= N => \E g \in [SUBSET (1 .. n) -> Q] : Folds(g, n, base, F)}
<1>1. 0 \in T
  <2>1. \A s \in SUBSET (1 .. 0) : s = {}
    OBVIOUS
  <2>2. Folds([s \in SUBSET (1 .. 0) |-> base], 0, base, F)
    BY <2>1 DEF Folds
  <2> QED BY <2>2
<1>2. ASSUME NEW n \in Nat, n \in T, n + 1 <= N
      PROVE  \E g \in [SUBSET (1 .. n + 1) -> Q] : Folds(g, n + 1, base, F)
  <2>0. n <= N /\ n + 1 \in 1 .. N
    BY <1>2
  <2>1. PICK g \in [SUBSET (1 .. n) -> Q] : Folds(g, n, base, F)
    BY <1>2, <2>0
  <2>2. PICK h : h = [s \in SUBSET (1 .. n + 1) |->
                        IF n + 1 \in s THEN F[<<n + 1, g[s \ {n + 1}]>>] ELSE g[s]]
    OBVIOUS
  <2>3. ASSUME NEW s \in SUBSET (1 .. n + 1)
        PROVE  /\ h[s] \in Q
               /\ h[s] = IF s = {} THEN base ELSE F[<<Max(s), h[s \ {Max(s)}]>>]
    <3>1. CASE n + 1 \in s
      <4>1. Max(s) = n + 1
        <5>1. n + 1 \in Nat /\ s # {}
          BY <3>1
        <5>2. Max(s) \in s /\ Max(s) >= n + 1
          BY <3>1, <5>1, GreatestOfPositions
        <5>3. Max(s) \in 1 .. n + 1
          BY <5>2
        <5> QED BY <5>2, <5>3
      <4>2. s \ {n + 1} \in SUBSET (1 .. n) /\ s \ {n + 1} \in SUBSET (1 .. n + 1)
        OBVIOUS
      <4>3. h[s \ {n + 1}] = g[s \ {n + 1}] /\ g[s \ {n + 1}] \in Q
        BY <2>2, <4>2
      <4>4. h[s] = F[<<n + 1, g[s \ {n + 1}]>>] /\ <<n + 1, g[s \ {n + 1}]>> \in (1 .. N) \X Q
        BY <2>0, <2>2, <3>1, <4>3
      <4> QED BY <3>1, <4>1, <4>3, <4>4
    <3>2. CASE n + 1 \notin s
      <4>1. s \in SUBSET (1 .. n) /\ h[s] = g[s] /\ h[s] \in Q
        BY <2>2, <3>2
      <4>2. CASE s # {}
        <5>1. s \ {Max(s)} \in SUBSET (1 .. n) /\ n + 1 \notin s \ {Max(s)}
          BY <3>2, <4>1
        <5>2. h[s \ {Max(s)}] = g[s \ {Max(s)}]
          BY <2>2, <5>1
        <5> QED BY <2>1, <4>1, <4>2, <5>2 DEF Folds
      <4> QED BY <2>1, <4>1, <4>2 DEF Folds
    <3> QED BY <3>1, <3>2
  <2>4. h \in [SUBSET (1 .. n + 1) -> Q] /\ Folds(h, n + 1, base, F)
    BY <2>2, <2>3 DEF Folds
  <2> QED BY <2>4
<1>3. ASSUME NEW n \in Nat, n \in T PROVE n + 1 \in T
  <2>1. n + 1 \in Nat
    OBVIOUS
  <2> QED BY <1>2, <1>3, <2>1
<1> HIDE DEF T
<1>4. Nat \subseteq T
  BY <1>1, <1>3, NatSetInduction
<1>5. N \in T /\ N <= N
  BY <1>4
<1> QED BY <1>5 DEF T

LEMMA FoldStays ==
    ASSUME NEW N \in Nat, NEW Q, NEW g,
           g[{}] \in Q,
           \A s \in SUBSET (1 .. N) : s # {} /\ g[s \ {Max(s)}] \in Q => g[s] \in Q
    PROVE  g[1 .. N] \in Q
<1> DEFINE T == {n \in Nat : n <= N => \A s \in SUBSET (1 .. n) : g[s] \in Q}
<1>1. 0 \in T
  <2>1. \A s \in SUBSET (1 .. 0) : s = {}
    OBVIOUS
  <2> QED BY <2>1
<1>2. ASSUME NEW n \in Nat, n \in T, n + 1 <= N, NEW s \in SUBSET (1 .. n + 1)
      PROVE  g[s] \in Q
  <2>0. n <= N
    BY <1>2
  <2>1. CASE n + 1 \notin s
    <3>1. s \in SUBSET (1 .. n)
      BY <2>1
    <3> QED BY <1>2, <2>0, <3>1
  <2>2. CASE n + 1 \in s
    <3>1. n + 1 \in Nat /\ s # {}
      BY <2>2
    <3>2. Max(s) \in s /\ Max(s) >= n + 1
      BY <2>2, <3>1, GreatestOfPositions
    <3>3. Max(s) = n + 1
      <4>1. Max(s) \in 1 .. n + 1
        BY <3>2
      <4> QED BY <3>2, <4>1
    <3>4. s \ {Max(s)} \in SUBSET (1 .. n)
      BY <3>3
    <3>5. s \in SUBSET (1 .. N)
      BY <1>2
    <3>6. g[s \ {Max(s)}] \in Q
      BY <1>2, <2>0, <3>4
    <3> QED BY <3>1, <3>5, <3>6
  <2> QED BY <2>1, <2>2
<1>3. ASSUME NEW n \in Nat, n \in T PROVE n + 1 \in T
  <2>1. n + 1 \in Nat
    OBVIOUS
  <2> QED BY <1>2, <1>3, <2>1
<1> HIDE DEF T
<1>4. Nat \subseteq T
  BY <1>1, <1>3, NatSetInduction
<1>5. N \in T /\ N <= N
  BY <1>4
<1> QED BY <1>5 DEF T

----------------------------------------------------------------------------
(***************************************************************************)
(* A consistent index holds roots, each under its own Path, and its lookup *)
(* sets are the ones of exactly these roots.                               *)
(***************************************************************************)
RootsTyped(ix, Names) ==
    \A k \in RootKeys(ix) : k \in Path(Names) /\ ix.roots[k] \in RootOf(Names)

KeyedByPath(ix) == \A k \in RootKeys(ix) : ix.roots[k].Path = k

LookupsCurrent(ix) == ix = Rebuild(ix.roots)

IsIndex(ix, Names) == RootsTyped(ix, Names) /\ KeyedByPath(ix) /\ LookupsCurrent(ix)

LEMMA RebuildKeepsRoots ==
    ASSUME NEW roots
    PROVE  Rebuild(roots).roots = roots /\ LookupsCurrent(Rebuild(roots))
<1>1. Rebuild(roots).roots = roots
  BY DEF Rebuild
<1> QED BY <1>1 DEF LookupsCurrent

LEMMA EmptyIsIndex ==
    ASSUME NEW Names
    PROVE  IsIndex(EmptyIndex, Names)
<1>1. EmptyIndex.roots = <<>> /\ LookupsCurrent(EmptyIndex)
  BY RebuildKeepsRoots DEF EmptyIndex
<1>2. RootKeys(EmptyIndex) = {}
  BY <1>1 DEF RootKeys
<1> QED BY <1>1, <1>2 DEF IsIndex, RootsTyped, KeyedByPath

LEMMA AddKeepsIndex ==
    ASSUME NEW Names, NEW ix, IsIndex(ix, Names), NEW r \in RootOf(Names)
    PROVE  IsIndex(IndexAdd(ix, r), Names)
<1> DEFINE new == [k \in RootKeys(ix) \cup {r.Path} |->
                     IF k = r.Path THEN r ELSE ix.roots[k]]
           next == IndexAdd(ix, r)
<1>1. next.roots = new /\ LookupsCurrent(next)
  BY RebuildKeepsRoots DEF IndexAdd
<1>2. RootKeys(next) = RootKeys(ix) \cup {r.Path}
  BY <1>1 DEF RootKeys
<1>3. r.Path \in Path(Names)
  BY DEF RootOf
<1>4. ASSUME NEW k \in RootKeys(next)
      PROVE  next.roots[k] = IF k = r.Path THEN r ELSE ix.roots[k]
  BY <1>1, <1>2
<1> HIDE DEF new, next
<1>5. IsIndex(next, Names)
  BY <1>1, <1>2, <1>3, <1>4 DEF IsIndex, RootsTyped, KeyedByPath
<1> QED BY <1>5 DEF next

LEMMA RemoveKeepsIndex ==
    ASSUME NEW Names, NEW ix, IsIndex(ix, Names), NEW p
    PROVE  IsIndex(IndexRemove(ix, p), Names)
<1> DEFINE next == Rebuild(Restrict(ix.roots, RootKeys(ix) \ {p}))
<1>1. next.roots = Restrict(ix.roots, RootKeys(ix) \ {p}) /\ LookupsCurrent(next)
  BY RebuildKeepsRoots
<1>2. /\ RootKeys(next) = RootKeys(ix) \ {p}
      /\ \A k \in RootKeys(next) : next.roots[k] = ix.roots[k]
  BY <1>1 DEF RootKeys, Restrict
<1> HIDE DEF next
<1>3. IsIndex(next, Names)
  BY <1>1, <1>2 DEF IsIndex, RootsTyped, KeyedByPath
<1> QED BY <1>3 DEF IndexRemove, next

----------------------------------------------------------------------------
(* What a rename leaves: the moved roots at their new paths, and the       *)
(* unchanged roots wherever none of them landed.                           *)
LandedPaths(ix, old, new) ==
    {MovedRoot(ix.roots[k], old, new).Path : k \in ChangedKeys(ix, old)}

LEMMA RenameLeaves ==
    ASSUME NEW Names, NEW ix, IsIndex(ix, Names),
           NEW old \in Path(Names), NEW new \in Path(Names),
           NEW next \in MovePrefix(ix, old, new)
    PROVE  /\ LookupsCurrent(next)
           /\ RootKeys(next) = (RootKeys(ix) \ ChangedKeys(ix, old)) \cup LandedPaths(ix, old, new)
           /\ \A k \in RootKeys(next) \ LandedPaths(ix, old, new) : next.roots[k] = ix.roots[k]
           /\ \A p \in LandedPaths(ix, old, new) :
                \E k \in ChangedKeys(ix, old) : /\ next.roots[p] = MovedRoot(ix.roots[k], old, new)
                                               /\ next.roots[p].Path = p
<1> DEFINE changed == ChangedKeys(ix, old)
           moved(k) == MovedRoot(ix.roots[k], old, new)
           landed == {moved(k).Path : k \in changed}
           last == {f \in [landed -> changed] : \A p \in landed : moved(f[p]).Path = p}
           left(f) == [p \in (RootKeys(ix) \ changed) \cup landed |->
                         IF p \in landed THEN moved(f[p]) ELSE ix.roots[p]]
<1>1. PICK f \in last : next = Rebuild(left(f))
  BY Zenon DEF MovePrefix
<1>2. next.roots = left(f) /\ LookupsCurrent(next)
  BY <1>1, RebuildKeepsRoots
<1>3. RootKeys(next) = (RootKeys(ix) \ changed) \cup landed
  BY <1>2 DEF RootKeys
<1>4. ASSUME NEW k \in RootKeys(next)
      PROVE  next.roots[k] = IF k \in landed THEN moved(f[k]) ELSE ix.roots[k]
  BY <1>2, <1>3, Zenon
<1>5. ASSUME NEW p \in landed
      PROVE  f[p] \in changed /\ moved(f[p]).Path = p
  BY Zenon
<1>6. landed = LandedPaths(ix, old, new)
  BY DEF LandedPaths
<1> HIDE DEF changed, moved, landed
<1>7. \A p \in landed : \E k \in changed : next.roots[p] = moved(k) /\ next.roots[p].Path = p
  BY <1>3, <1>4, <1>5
<1> QED BY <1>2, <1>3, <1>4, <1>6, <1>7 DEF changed, moved

LEMMA RenameKeepsIndex ==
    ASSUME NEW Names, NEW ix, IsIndex(ix, Names),
           NEW old \in Path(Names), NEW new \in Path(Names),
           NEW next \in MovePrefix(ix, old, new)
    PROVE  IsIndex(next, Names)
<1> DEFINE moved(k) == MovedRoot(ix.roots[k], old, new)
<1>1. ASSUME NEW k \in RootKeys(ix)
      PROVE  moved(k) \in RootOf(Names)
  <2>1. ix.roots[k] \in RootOf(Names)
    BY DEF IsIndex, RootsTyped
  <2> QED BY <2>1, JoinIsPath DEF MovedRoot, RootOf
<1>2. ChangedKeys(ix, old) \subseteq RootKeys(ix)
  BY DEF ChangedKeys
<1> HIDE DEF moved
<1>3. ASSUME NEW p \in LandedPaths(ix, old, new)
      PROVE  next.roots[p] \in RootOf(Names) /\ next.roots[p].Path = p /\ p \in Path(Names)
  <2>1. PICK k \in ChangedKeys(ix, old) : next.roots[p] = moved(k) /\ next.roots[p].Path = p
    BY RenameLeaves DEF moved
  <2> QED BY <1>1, <1>2, <2>1 DEF RootOf
<1> QED BY <1>3, RenameLeaves DEF IsIndex, RootsTyped, KeyedByPath
=============================================================================
