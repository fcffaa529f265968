---------------------------- MODULE BatchProofs ----------------------------
(***************************************************************************)
(* Proofs about Commands under MapLibreAdapter, for any maps, commands and *)
(* batches: the inverses lead back, and the answers are true.              *)
(***************************************************************************)
EXTENDS MapLibreAdapter, SequenceTheorems, FiniteSetTheorems, TLAPS

-----------------------------------------------------------------------------
(***************************************************************************)
(* Sequences of whatever elements.                                         *)
(***************************************************************************)
IsSeq(s) == \E S : s \in Seq(S)

\* A sequence is the array of its elements.
LEMMA SeqIs ==
  ASSUME NEW s, IsSeq(s)
  PROVE  /\ Len(s) \in Nat /\ DOMAIN s = 1..Len(s)
         /\ s \in Seq({s[i] : i \in DOMAIN s}) /\ IsObject(s)
<1>1. PICK S : s \in Seq(S)
  BY DEF IsSeq
<1>2. s \in [1..Len(s) -> S] /\ Len(s) \in Nat /\ DOMAIN s = 1..Len(s)
  BY <1>1
<1>3. IsObject(s)
  BY <1>2 DEF IsObject
<1>4. s \in [1..Len(s) -> {s[i] : i \in DOMAIN s}]
  BY <1>2
<1> QED
  BY <1>2, <1>3, <1>4, SeqDef

\* What Append makes of a sequence.
LEMMA AppendIs ==
  ASSUME NEW s, IsSeq(s), NEW x
  PROVE  /\ IsSeq(Append(s, x)) /\ Len(Append(s, x)) = Len(s) + 1
         /\ DOMAIN Append(s, x) = 1..(Len(s) + 1)
         /\ Append(s, x)[Len(s) + 1] = x
         /\ \A i \in 1..Len(s) : Append(s, x)[i] = s[i]
<1>1. PICK S : s \in Seq(S)
  BY DEF IsSeq
<1> DEFINE T == S \cup {x}
<1>2. s \in Seq(T) /\ x \in T
  BY <1>1, SeqMonotonic
<1>3. /\ Append(s, x) \in Seq(T) /\ Len(Append(s, x)) = Len(s) + 1
      /\ \A i \in 1..Len(s) : Append(s, x)[i] = s[i]
      /\ Append(s, x)[Len(s) + 1] = x
  BY <1>2, AppendProperties
<1> QED
  BY <1>3 DEF IsSeq

\* u is s followed by t.
Joins(u, s, t) ==
    /\ IsSeq(u) /\ Len(u) = Len(s) + Len(t)
    /\ DOMAIN u = 1..(Len(s) + Len(t))
    /\ \A i \in 1..Len(s) : u[i] = s[i]
    /\ \A i \in 1..Len(t) : u[Len(s) + i] = t[i]

\* What \o makes of two sequences.
LEMMA ConcatIs ==
  ASSUME NEW s, IsSeq(s), NEW t, IsSeq(t), NEW u, u = s \o t
  PROVE  Joins(u, s, t)
<1>1. PICK S, T : s \in Seq(S) /\ t \in Seq(T)
  BY DEF IsSeq
<1> DEFINE U == S \cup T
<1>2. s \in Seq(U) /\ t \in Seq(U)
  BY <1>1, SeqMonotonic
<1> HIDE DEF U
<1>3. /\ u \in Seq(U) /\ Len(u) = Len(s) + Len(t)
      /\ \A i \in 1..Len(s) + Len(t) :
           u[i] = IF i <= Len(s) THEN s[i] ELSE t[i - Len(s)]
  BY <1>2, ConcatProperties
<1>4. Len(s) \in Nat /\ Len(t) \in Nat
  BY <1>1
<1>5. ASSUME NEW i \in 1..Len(t) PROVE u[Len(s) + i] = t[i]
  <2>1. Len(s) + i \in 1..Len(s) + Len(t) /\ ~(Len(s) + i <= Len(s)) /\ Len(s) + i - Len(s) = i
    BY <1>4
  <2> QED
    BY <1>3, <2>1
<1>6. DOMAIN u = 1..(Len(s) + Len(t))
  BY <1>3
<1>7. \A i \in 1..Len(s) : u[i] = s[i]
  BY <1>3, <1>4
<1> QED
  BY <1>3, <1>5, <1>6, <1>7 DEF IsSeq, Joins

\* Two sequences with the same elements are one.
LEMMA SameSeq ==
  ASSUME NEW s, IsSeq(s), NEW t, IsSeq(t), Len(s) = Len(t),
         \A i \in 1..Len(s) : s[i] = t[i]
  PROVE  s = t
<1>1. s = [i \in 1..Len(s) |-> s[i]] /\ t = [i \in 1..Len(t) |-> t[i]]
  BY SeqIs DEF IsObject
<1> QED
  BY <1>1

\* A function on the first numbers is a sequence.
LEMMA ArrayIs ==
  ASSUME NEW s, NEW n \in Nat, DOMAIN s = 1..n, IsObject(s)
  PROVE  IsSeq(s) /\ Len(s) = n
<1> DEFINE T == {s[i] : i \in 1..n}
<1>1. s = [i \in 1..n |-> s[i]]
  BY DEF IsObject
<1>2. s \in [1..n -> T]
  BY <1>1
<1>3. s \in Seq(T)
  BY <1>2, SeqDef
<1>4. Len(s) = n
  BY <1>3
<1>5. IsSeq(s)
  BY <1>3 DEF IsSeq
<1> QED
  BY <1>4, <1>5

\* Front and Last take an appended element off again.
LEMMA FrontIs ==
  ASSUME NEW s, IsSeq(s), NEW x
  PROVE  Front(Append(s, x)) = s /\ Last(Append(s, x)) = x
<1>1. PICK S : s \in Seq(S)
  BY DEF IsSeq
<1> DEFINE T == S \cup {x}
<1>2. s \in Seq(T) /\ x \in T
  BY <1>1, SeqMonotonic
<1> HIDE DEF T
<1> DEFINE t == Append(s, x)
<1>3. /\ t \in Seq(T) /\ Len(t) = Len(s) + 1 /\ Len(s) \in Nat
      /\ \A i \in 1..Len(s) : t[i] = s[i]
      /\ t[Len(s) + 1] = x
  BY <1>2, AppendProperties
<1> HIDE DEF t
<1>4. Len(t) - 1 = Len(s) /\ \A i \in 1..(Len(t) - 1) : t[i] \in T
  BY <1>3
<1>5. /\ SubSeq(t, 1, Len(s)) \in Seq(T)
      /\ Len(SubSeq(t, 1, Len(s))) = Len(s)
      /\ \A i \in 1..Len(s) : SubSeq(t, 1, Len(s))[i] = s[i]
  BY <1>3, <1>4, SubSeqProperties
<1>6. SubSeq(t, 1, Len(s)) = s
  BY <1>2, <1>5, SeqEqual
<1> QED
  BY <1>3, <1>4, <1>6 DEF Front, Last, t

\* A sequence is its last element appended to the others.
LEMMA AppendOf ==
  ASSUME NEW s, IsSeq(s), NEW t, IsSeq(t), Len(t) = Len(s) + 1,
         \A i \in 1..Len(s) : t[i] = s[i], NEW x, t[Len(t)] = x
  PROVE  t = Append(s, x)
<1> DEFINE u == Append(s, x)
<1> DEFINE n == Len(s)
<1>0. n \in Nat /\ Len(t) = n + 1
  BY SeqIs
<1>1. /\ IsSeq(u) /\ Len(u) = n + 1 /\ u[n + 1] = x
      /\ \A i \in 1..n : u[i] = s[i]
  BY AppendIs DEF n
<1> HIDE DEF u, n
<1>2. ASSUME NEW i \in 1..(n + 1) PROVE t[i] = u[i]
  <2>1. i \in 1..n \/ i = n + 1
    BY <1>0
  <2> QED
    BY <1>0, <1>1, <2>1 DEF n
<1>3. t = u
  BY <1>0, <1>1, <1>2, SameSeq
<1> QED
  BY <1>3 DEF u

\* The paths that patches use, one name or position at a time.
LEMMA Path2 ==
  ASSUME NEW a, NEW b
  PROVE  IsSeq(<<a, b>>) /\ <<a, b>> = Append(<<a>>, b)
<1>1. SUFFICES ASSUME NEW s, s = <<a>>, NEW t, t = <<a, b>> PROVE IsSeq(t) /\ t = Append(s, b)
  OBVIOUS
<1>2. IsSeq(s) /\ IsSeq(t)
  <2>1. s \in Seq({a, b}) /\ t \in Seq({a, b})
    BY <1>1
  <2> QED
    BY <2>1 DEF IsSeq
<1>3. /\ Len(t) = Len(s) + 1 /\ t[Len(t)] = b
      /\ \A i \in 1..Len(s) : t[i] = s[i]
  BY <1>1
<1> QED
  BY ONLY <1>2, <1>3, AppendOf

LEMMA Path3 ==
  ASSUME NEW a, NEW b, NEW c
  PROVE  IsSeq(<<a, b, c>>) /\ <<a, b, c>> = Append(<<a, b>>, c)
<1>1. SUFFICES ASSUME NEW s, s = <<a, b>>, NEW t, t = <<a, b, c>> PROVE IsSeq(t) /\ t = Append(s, c)
  OBVIOUS
<1>2. IsSeq(s) /\ IsSeq(t)
  <2>1. s \in Seq({a, b, c}) /\ t \in Seq({a, b, c})
    BY <1>1
  <2> QED
    BY <2>1 DEF IsSeq
<1>3. /\ Len(t) = Len(s) + 1 /\ t[Len(t)] = c
      /\ \A i \in 1..Len(s) : t[i] = s[i]
  BY <1>1
<1> QED
  BY ONLY <1>2, <1>3, AppendOf

LEMMA Path4 ==
  ASSUME NEW a, NEW b, NEW c, NEW d
  PROVE  IsSeq(<<a, b, c, d>>) /\ <<a, b, c, d>> = Append(<<a, b, c>>, d)
<1>1. SUFFICES ASSUME NEW s, s = <<a, b, c>>, NEW t, t = <<a, b, c, d>> PROVE IsSeq(t) /\ t = Append(s, d)
  OBVIOUS
<1>2. IsSeq(s) /\ IsSeq(t)
  <2>1. s \in Seq({a, b, c, d}) /\ t \in Seq({a, b, c, d})
    BY <1>1
  <2> QED
    BY <2>1 DEF IsSeq
<1>3. /\ Len(t) = Len(s) + 1 /\ t[Len(t)] = d
      /\ \A i \in 1..Len(s) : t[i] = s[i]
  BY <1>1
<1> QED
  BY ONLY <1>2, <1>3, AppendOf

LEMMA Path5 ==
  ASSUME NEW a, NEW b, NEW c, NEW d, NEW e
  PROVE  IsSeq(<<a, b, c, d, e>>) /\ <<a, b, c, d, e>> = Append(<<a, b, c, d>>, e)
<1>1. SUFFICES ASSUME NEW s, s = <<a, b, c, d>>, NEW t, t = <<a, b, c, d, e>> PROVE IsSeq(t) /\ t = Append(s, e)
  OBVIOUS
<1>2. IsSeq(s) /\ IsSeq(t)
  <2>1. s \in Seq({a, b, c, d, e}) /\ t \in Seq({a, b, c, d, e})
    BY <1>1
  <2> QED
    BY <2>1 DEF IsSeq
<1>3. /\ Len(t) = Len(s) + 1 /\ t[Len(t)] = e
      /\ \A i \in 1..Len(s) : t[i] = s[i]
  BY <1>1
<1> QED
  BY ONLY <1>2, <1>3, AppendOf

\* Paths, one step at a time.
LEMMA Path0 == IsSeq(<< >>)
<1>1. << >> \in Seq({})
  OBVIOUS
<1> QED
  BY <1>1 DEF IsSeq

LEMMA Path1 ==
  ASSUME NEW a
  PROVE  IsSeq(<< >>) /\ IsSeq(<<a>>) /\ <<a>> = Append(<< >>, a)
<1>1. << >> \in Seq({a}) /\ <<a>> \in Seq({a}) /\ <<a>> = Append(<< >>, a)
  OBVIOUS
<1> QED
  BY <1>1 DEF IsSeq

(***************************************************************************)
(* Patches, paths and their folds.                                         *)
(***************************************************************************)
\* What the folds of ApplyJsonPatch, GetAtPath and ApplyOperation do at each step.
PatchOp(context, document, o) == ApplyOperation(document, o)
GetOp(context, value, key) == value[key]
NestOp(context, i, inner) ==
    [GetAtPath(context.document, SubSeq(context.above, 1, i - 1)) EXCEPT ![context.above[i]] = inner]

Patching == INSTANCE FoldTheorems WITH Op <- PatchOp
Getting == INSTANCE FoldTheorems WITH Op <- GetOp
Nesting == INSTANCE FoldTheorems WITH Op <- NestOp

\* GetAtPath is such a fold.
LEMMA GetIsFold ==
  ASSUME NEW d, NEW path
  PROVE  GetAtPath(d, path) = Getting!LeftFold(0, d, path)
BY Zenon DEF GetAtPath, Getting!LeftFold, GetOp, FoldLeft, MapThenFoldSet,
   Getting!LeftStep, Max, Getting!Highest

\* A document with another value at the end of a path.
Update(document, above, changed) ==
    FoldRightDomain(
           LAMBDA i, inner : [GetAtPath(document, SubSeq(above, 1, i - 1))
                                 EXCEPT ![above[i]] = inner],
           above, changed)

\* The container an operation leaves.
Changed(container, o) ==
    IF IsArrayOperation(o) THEN ArrayOperation(container, Last(o.path), o)
    ELSE ObjectOperation(container, Last(o.path), o)

\* ApplyOperation updates the container at the end of the path.
LEMMA ApplyIs ==
  ASSUME NEW d, NEW o
  PROVE  ApplyOperation(d, o) = 
     Update(d, Front(o.path), Changed(GetAtPath(d, Front(o.path)), o))
BY Zenon DEF ApplyOperation, Update, Changed

\* Update is a fold, and so is ApplyJsonPatch.
LEMMA UpdateIsFold ==
  ASSUME NEW context, NEW x
  PROVE  Update(context.document, context.above, x) =
           Nesting!RightFold(context, [i \in DOMAIN context.above |-> i], x)
BY Zenon DEF Update, Nesting!RightFold, NestOp, FoldRight, FoldRightDomain, MapThenFoldSet,
   Nesting!RightStep, Min, Nesting!Lowest

LEMMA PatchIsFold ==
  ASSUME NEW d, NEW patch
  PROVE  ApplyJsonPatch(d, patch) = Patching!LeftFold(0, d, patch)
BY Zenon DEF ApplyJsonPatch, Patching!LeftFold, PatchOp, FoldLeft, MapThenFoldSet,
   Patching!LeftStep, Max, Patching!Highest

\* GetAtPath and Update, one step of the path at a time.
LEMMA GetEmpty ==
  ASSUME NEW d
  PROVE  GetAtPath(d, << >>) = d
<1>1. DOMAIN << >> = {}
  OBVIOUS
<1> QED
  BY <1>1, GetIsFold, Getting!LeftFoldEmpty

LEMMA GetAppend ==
  ASSUME NEW d, NEW a, IsSeq(a), NEW k
  PROVE  GetAtPath(d, Append(a, k)) = GetAtPath(d, a)[k]
<1> DEFINE n == Len(a)
<1> DEFINE u == Append(a, k)
<1>1. n \in Nat /\ DOMAIN a = 1..n
  BY SeqIs DEF n
<1>2. DOMAIN u = 1..(n + 1) /\ u[n + 1] = k /\ \A i \in 1..n : u[i] = a[i]
  BY AppendIs DEF n, u
<1> HIDE DEF n, u
<1>3. Getting!LeftFold(0, d, u) = GetOp(0, Getting!LeftFold(0, d, a), u[n + 1])
  BY <1>1, <1>2, Getting!LeftFoldLast
<1>4. GetAtPath(d, u) = GetAtPath(d, a)[k]
  BY <1>2, <1>3, GetIsFold DEF GetOp
<1> QED
  BY <1>4 DEF u

LEMMA UpdateEmpty ==
  ASSUME NEW d, NEW x
  PROVE  Update(d, << >>, x) = x
<1> DEFINE context == [document |-> d, above |-> << >>]
<1> DEFINE seq == [i \in DOMAIN context.above |-> i]
<1>1. context.document = d /\ context.above = << >>
  OBVIOUS
<1>2. DOMAIN seq = 1..0
  BY <1>1
<1>3. Update(d, << >>, x) = Nesting!RightFold(context, seq, x)
  <2> HIDE DEF context
  <2> QED
    BY <1>1, UpdateIsFold
<1> HIDE DEF context, seq
<1>4. PICK f : Nesting!RightSteps(context, x, seq, 0, f) /\ f[1] = Nesting!RightFold(context, seq, x)
  BY <1>2, Nesting!RightFoldSteps
<1> QED
  BY <1>3, <1>4 DEF Nesting!RightSteps

LEMMA UpdateAppend ==
  ASSUME NEW d, NEW a, IsSeq(a), NEW k, NEW x
  PROVE  Update(d, Append(a, k), x) = Update(d, a, [GetAtPath(d, a) EXCEPT ![k] = x])
<1>1. PICK n, b, y : /\ n = Len(a) /\ b = Append(a, k)
                     /\ y = [GetAtPath(d, a) EXCEPT ![k] = x]
  OBVIOUS
<1>2. /\ n \in Nat /\ DOMAIN a = 1..n /\ DOMAIN b = 1..(n + 1)
      /\ b[n + 1] = k /\ \A i \in 1..n : b[i] = a[i]
  BY <1>1, SeqIs, AppendIs
<1>3. PICK c, e : c = [document |-> d, above |-> a] /\ e = [document |-> d, above |-> b]
  OBVIOUS
<1>4. c.document = d /\ c.above = a /\ e.document = d /\ e.above = b
  BY <1>3
<1>5. PICK s, t : s = [i \in DOMAIN a |-> i] /\ t = [i \in DOMAIN b |-> i]
  OBVIOUS
<1>6. Update(d, a, y) = Nesting!RightFold(c, s, y) /\ Update(d, b, x) = Nesting!RightFold(e, t, x)
  <2>1. /\ Update(c.document, c.above, y) = Nesting!RightFold(c, [i \in DOMAIN c.above |-> i], y)
        /\ Update(e.document, e.above, x) = Nesting!RightFold(e, [i \in DOMAIN e.above |-> i], x)
    BY ONLY UpdateIsFold
  <2> QED
    BY ONLY <1>4, <1>5, <2>1
<1>7. DOMAIN s = 1..n /\ DOMAIN t = 1..(n + 1)
  BY <1>2, <1>5
<1>8. PICK f : Nesting!RightSteps(c, y, s, n, f) /\ f[1] = Nesting!RightFold(c, s, y)
  BY <1>2, <1>7, Nesting!RightFoldSteps
<1>9. \A i \in 0..n : SubSeq(b, 1, i) = SubSeq(a, 1, i)
  BY <1>1
<1>10. SubSeq(b, 1, n) = a
  <2>1. Front(b) = a /\ Len(b) - 1 = n
    BY <1>1, <1>2, FrontIs
  <2> QED
    BY <2>1 DEF Front
<1> DEFINE g == [i \in 1..(n + 2) |-> IF i = n + 2 THEN x ELSE f[i]]
<1>11. f[n + 1] = y /\ \A i \in 1..n : f[i] = NestOp(c, i, f[i + 1])
  <2>1. f[n + 1] = y /\ \A i \in 1..n : f[i] = NestOp(c, s[i], f[i + 1])
    BY <1>8 DEF Nesting!RightSteps
  <2> QED
    BY <1>2, <1>5, <2>1
<1>12. g[n + 2] = x /\ \A i \in 1..(n + 1) : g[i] = f[i]
  BY <1>2
<1> HIDE DEF g
<1>13. ASSUME NEW i \in 1..(n + 1) PROVE g[i] = NestOp(e, t[i], g[i + 1])
  <2>1. t[i] = i /\ i \in Nat
    BY <1>2, <1>5
  <2>2. CASE i \in 1..n
    <3>1. i - 1 \in 0..n /\ i + 1 \in 1..(n + 1) /\ b[i] = a[i]
      BY <1>2, <2>2
    <3>2. SubSeq(b, 1, i - 1) = SubSeq(a, 1, i - 1)
      BY <1>9, <3>1
    <3>3. NestOp(e, i, g[i + 1]) = NestOp(c, i, f[i + 1])
      BY <1>4, <1>12, <3>1, <3>2 DEF NestOp
    <3> QED
      BY <1>11, <1>12, <2>1, <2>2, <3>3
  <2>3. CASE i = n + 1
    <3>1. i - 1 = n /\ i + 1 = n + 2 /\ b[i] = k
      BY <1>2, <2>3
    <3>2. NestOp(e, i, g[i + 1]) = y
      BY <1>1, <1>4, <1>10, <1>12, <3>1 DEF NestOp
    <3> QED
      BY <1>11, <1>12, <2>1, <2>3, <3>2
  <2> QED
    BY <1>2, <2>2, <2>3
<1>14. (n + 1) + 1 = n + 2 /\ n + 1 \in Nat
  BY <1>2
<1>15. Nesting!RightSteps(e, x, t, n + 1, g)
  BY <1>12, <1>13, <1>14 DEF Nesting!RightSteps
<1>16. Nesting!RightFold(e, t, x) = g[1]
  BY <1>7, <1>14, <1>15, Nesting!RightFoldIs
<1>17. g[1] = f[1]
  BY <1>2, <1>12
<1> QED
  BY <1>1, <1>6, <1>8, <1>16, <1>17

\* What is put at the end of a path is found there, a second value replaces the
\* first, and what was there before restores the document.
Restorable(d, a) ==
    /\ \A x : GetAtPath(Update(d, a, x), a) = x
    /\ \A x, z : Update(Update(d, a, x), a, z) = Update(d, a, z)
    /\ Update(d, a, GetAtPath(d, a)) = d

\* That is so at the root, and below every member of what a path leads to.
LEMMA RestorableRoot ==
  ASSUME NEW d
  PROVE  Restorable(d, << >>)
BY GetEmpty, UpdateEmpty DEF Restorable

LEMMA RestorableAppend ==
  ASSUME NEW d, NEW a, IsSeq(a), Restorable(d, a), NEW G, G = GetAtPath(d, a),
         IsObject(G), NEW k \in DOMAIN G
  PROVE  Restorable(d, Append(a, k))
<1>1. ASSUME NEW x
      PROVE  \E y : /\ y = [G EXCEPT ![k] = x] /\ y[k] = x
                    /\ Update(d, Append(a, k), x) = Update(d, a, y)
                    /\ \A z : [y EXCEPT ![k] = z] = [G EXCEPT ![k] = z]
  <2>1. PICK y : y = [G EXCEPT ![k] = x]
    OBVIOUS
  <2>2. y[k] = x /\ \A z : [y EXCEPT ![k] = z] = [G EXCEPT ![k] = z]
    BY <2>1 DEF IsObject
  <2> QED
    BY <2>1, <2>2, UpdateAppend
<1>2. ASSUME NEW x PROVE GetAtPath(Update(d, Append(a, k), x), Append(a, k)) = x
  <2>1. PICK y : y[k] = x /\ Update(d, Append(a, k), x) = Update(d, a, y)
    BY <1>1
  <2>2. GetAtPath(Update(d, a, y), Append(a, k)) = GetAtPath(Update(d, a, y), a)[k]
    BY GetAppend
  <2> QED
    BY <2>1, <2>2 DEF Restorable
<1>3. ASSUME NEW x, NEW z
      PROVE  Update(Update(d, Append(a, k), x), Append(a, k), z) = Update(d, Append(a, k), z)
  <2>1. PICK y : /\ Update(d, Append(a, k), x) = Update(d, a, y)
                 /\ [y EXCEPT ![k] = z] = [G EXCEPT ![k] = z]
    BY <1>1
  <2>2. Update(Update(d, a, y), Append(a, k), z) =
          Update(Update(d, a, y), a, [GetAtPath(Update(d, a, y), a) EXCEPT ![k] = z])
    BY UpdateAppend
  <2>3. GetAtPath(Update(d, a, y), a) = y
    BY DEF Restorable
  <2>4. Update(Update(d, a, y), a, [y EXCEPT ![k] = z]) = Update(d, a, [y EXCEPT ![k] = z])
    BY DEF Restorable
  <2>5. Update(d, Append(a, k), z) = Update(d, a, [G EXCEPT ![k] = z])
    BY UpdateAppend
  <2> QED
    BY <2>1, <2>2, <2>3, <2>4, <2>5
<1>4. Update(d, Append(a, k), GetAtPath(d, Append(a, k))) = d
  <2>1. [G EXCEPT ![k] = G[k]] = G
    BY DEF IsObject
  <2>2. Update(d, Append(a, k), G[k]) = Update(d, a, [G EXCEPT ![k] = G[k]])
    BY UpdateAppend
  <2> QED
    BY <2>1, <2>2, GetAppend DEF Restorable
<1> QED
  BY <1>2, <1>3, <1>4 DEF Restorable

(***************************************************************************)
(* Arrays that get and lose elements.                                      *)
(***************************************************************************)
\* What SubSeq, InsertAt, RemoveAt and ReplaceAt make of a sequence.
LEMMA SubSeqIs ==
  ASSUME NEW s, IsSeq(s), NEW i \in Nat, i >= 1, NEW j \in Nat, i <= j + 1, j <= Len(s)
  PROVE  /\ IsSeq(SubSeq(s, i, j)) /\ Len(SubSeq(s, i, j)) = j - i + 1
         /\ \A l \in 1..(j - i + 1) : SubSeq(s, i, j)[l] = s[i + l - 1]
<1>1. PICK S : s \in Seq(S)
  BY DEF IsSeq
<1>2. \A l \in i..j : s[l] \in S
  BY <1>1
<1>3. /\ SubSeq(s, i, j) \in Seq(S)
      /\ Len(SubSeq(s, i, j)) = IF i <= j THEN j - i + 1 ELSE 0
      /\ \A l \in 1..(j - i + 1) : SubSeq(s, i, j)[l] = s[i + l - 1]
  BY <1>2, SubSeqProperties
<1> QED
  BY <1>3 DEF IsSeq

LEMMA InsertAtIs ==
  ASSUME NEW s, IsSeq(s), NEW i \in 1..(Len(s) + 1), NEW x
  PROVE  /\ IsSeq(InsertAt(s, i, x)) /\ Len(InsertAt(s, i, x)) = Len(s) + 1
         /\ \A j \in 1..(Len(s) + 1) :
              InsertAt(s, i, x)[j] = IF j < i THEN s[j] ELSE IF j = i THEN x ELSE s[j - 1]
<1>1. PICK n, p, o, q, r, u : /\ n = Len(s) /\ p = SubSeq(s, 1, i - 1) /\ q = SubSeq(s, i, n)
                              /\ o = <<x>> /\ r = p \o o /\ u = r \o q
  OBVIOUS
<1>2. n \in Nat /\ i \in Nat /\ i - 1 \in Nat /\ 1 <= i /\ i <= n + 1
  BY <1>1, SeqIs
<1>3. IsSeq(p) /\ Len(p) = i - 1 /\ \A l \in 1..(i - 1) : p[l] = s[l]
  <2>1. /\ IsSeq(SubSeq(s, 1, i - 1)) /\ Len(SubSeq(s, 1, i - 1)) = (i - 1) - 1 + 1
        /\ \A l \in 1..((i - 1) - 1 + 1) : SubSeq(s, 1, i - 1)[l] = s[1 + l - 1]
    BY <1>1, <1>2, SubSeqIs
  <2> QED
    BY <1>1, <1>2, <2>1
<1>4. IsSeq(q) /\ Len(q) = n - i + 1 /\ \A l \in 1..(n - i + 1) : q[l] = s[i + l - 1]
  BY <1>1, <1>2, SubSeqIs
<1>5. IsSeq(o) /\ Len(o) = 1 /\ o[1] = x
  BY <1>1, Path1
<1>6. IsSeq(r) /\ Len(r) = i /\ (\A l \in 1..(i - 1) : r[l] = p[l]) /\ r[i] = x
  <2>1. Joins(r, p, o)
    BY <1>1, <1>3, <1>5, ConcatIs
  <2>2. r[Len(p) + 1] = x /\ Len(p) + 1 = i
    BY <1>2, <1>3, <1>5, <2>1 DEF Joins
  <2> QED
    BY <1>2, <1>3, <1>5, <2>1, <2>2 DEF Joins
<1>7. Joins(u, r, q)
  BY <1>1, <1>4, <1>6, ConcatIs
<1>8. InsertAt(s, i, x) = u
  BY <1>1 DEF InsertAt
<1>9. ASSUME NEW j \in 1..(n + 1)
      PROVE  u[j] = IF j < i THEN s[j] ELSE IF j = i THEN x ELSE s[j - 1]
  <2>1. CASE j <= i
    BY <1>2, <1>3, <1>6, <1>7, <2>1 DEF Joins
  <2>2. CASE j > i
    <3>1. PICK l \in 1..(n - i + 1) : i + l = j /\ i + l - 1 = j - 1
      <4>1. j - i \in 1..(n - i + 1) /\ i + (j - i) = j /\ i + (j - i) - 1 = j - 1
        BY <1>2, <2>2
      <4> QED
        BY <4>1
    <3>2. u[i + l] = q[l]
      BY <1>4, <1>6, <1>7 DEF Joins
    <3> QED
      BY <1>2, <1>4, <2>2, <3>1, <3>2
  <2> QED
    BY <1>2, <2>1, <2>2
<1>10. Len(r) + Len(q) = n + 1
  BY <1>2, <1>4, <1>6
<1> QED
  BY <1>1, <1>7, <1>8, <1>9, <1>10 DEF Joins

LEMMA RemoveAtIs ==
  ASSUME NEW s, IsSeq(s), NEW i \in 1..Len(s)
  PROVE  /\ IsSeq(RemoveAt(s, i)) /\ Len(RemoveAt(s, i)) = Len(s) - 1
         /\ \A j \in 1..(Len(s) - 1) : RemoveAt(s, i)[j] = IF j < i THEN s[j] ELSE s[j + 1]
<1>1. PICK n, p, q, u : /\ n = Len(s) /\ p = SubSeq(s, 1, i - 1) /\ q = SubSeq(s, i + 1, n)
                        /\ u = p \o q
  OBVIOUS
<1>2. n \in Nat /\ i \in Nat /\ i - 1 \in Nat /\ i + 1 \in Nat /\ 1 <= i /\ i <= n
  BY <1>1, SeqIs
<1>3. IsSeq(p) /\ Len(p) = i - 1 /\ \A l \in 1..(i - 1) : p[l] = s[l]
  <2>1. /\ IsSeq(SubSeq(s, 1, i - 1)) /\ Len(SubSeq(s, 1, i - 1)) = (i - 1) - 1 + 1
        /\ \A l \in 1..((i - 1) - 1 + 1) : SubSeq(s, 1, i - 1)[l] = s[1 + l - 1]
    BY <1>1, <1>2, SubSeqIs
  <2> QED
    BY <1>1, <1>2, <2>1
<1>4. IsSeq(q) /\ Len(q) = n - i /\ \A l \in 1..(n - i) : q[l] = s[i + l]
  <2>1. /\ IsSeq(SubSeq(s, i + 1, n)) /\ Len(SubSeq(s, i + 1, n)) = n - (i + 1) + 1
        /\ \A l \in 1..(n - (i + 1) + 1) : SubSeq(s, i + 1, n)[l] = s[(i + 1) + l - 1]
    BY <1>1, <1>2, SubSeqIs
  <2> QED
    BY <1>1, <1>2, <2>1
<1>7. Joins(u, p, q)
  BY <1>1, <1>3, <1>4, ConcatIs
<1>8. RemoveAt(s, i) = u
  BY <1>1 DEF RemoveAt
<1>9. ASSUME NEW j \in 1..(n - 1)
      PROVE  u[j] = IF j < i THEN s[j] ELSE s[j + 1]
  <2>1. CASE j < i
    BY <1>2, <1>3, <1>7, <2>1 DEF Joins
  <2>2. CASE j >= i
    <3>1. PICK l \in 1..(n - i) : (i - 1) + l = j /\ i + l = j + 1
      <4>1. j - i + 1 \in 1..(n - i) /\ (i - 1) + (j - i + 1) = j /\ i + (j - i + 1) = j + 1
        BY <1>2, <2>2
      <4> QED
        BY <4>1
    <3>2. u[(i - 1) + l] = q[l]
      BY <1>3, <1>4, <1>7 DEF Joins
    <3>3. ~(j < i) /\ q[l] = s[j + 1]
      BY <1>2, <1>4, <2>2, <3>1
    <3> QED
      BY ONLY <3>1, <3>2, <3>3
  <2> QED
    BY <1>2, <2>1, <2>2
<1>10. Len(p) + Len(q) = n - 1
  BY <1>2, <1>3, <1>4
<1> QED
  BY <1>1, <1>7, <1>8, <1>9, <1>10 DEF Joins

\* An insertion, a removal and a replacement are taken back by their inverses.
LEMMA RemoveInserted ==
  ASSUME NEW s, IsSeq(s), NEW i \in 1..(Len(s) + 1), NEW x
  PROVE  /\ i \in 1..Len(InsertAt(s, i, x))
         /\ RemoveAt(InsertAt(s, i, x), i) = s
<1>1. PICK n, t : n = Len(s) /\ t = InsertAt(s, i, x)
  OBVIOUS
<1>2. n \in Nat /\ i \in 1..(n + 1)
  BY <1>1, SeqIs
<1>3. /\ IsSeq(t) /\ Len(t) = n + 1
      /\ \A j \in 1..(n + 1) : t[j] = IF j < i THEN s[j] ELSE IF j = i THEN x ELSE s[j - 1]
  BY <1>1, InsertAtIs
<1>4. /\ IsSeq(RemoveAt(t, i)) /\ Len(RemoveAt(t, i)) = (n + 1) - 1
      /\ \A j \in 1..((n + 1) - 1) : RemoveAt(t, i)[j] = IF j < i THEN t[j] ELSE t[j + 1]
  <2>1. IsSeq(t) /\ Len(t) = n + 1 /\ i \in 1..Len(t)
    BY <1>2, <1>3
  <2> QED
    BY ONLY <2>1, RemoveAtIs
<1>5. \A j \in 1..n : RemoveAt(t, i)[j] = s[j]
  BY <1>2, <1>3, <1>4
<1>6. RemoveAt(t, i) = s
  BY <1>1, <1>2, <1>4, <1>5, SameSeq
<1> QED
  BY <1>1, <1>2, <1>3, <1>6

LEMMA InsertRemoved ==
  ASSUME NEW s, IsSeq(s), NEW i \in 1..Len(s)
  PROVE  /\ i \in 1..(Len(RemoveAt(s, i)) + 1)
         /\ InsertAt(RemoveAt(s, i), i, s[i]) = s
<1>1. PICK n, t : n = Len(s) /\ t = RemoveAt(s, i)
  OBVIOUS
<1>2. n \in Nat /\ i \in 1..n
  BY <1>1, SeqIs
<1>3. /\ IsSeq(t) /\ Len(t) = n - 1
      /\ \A j \in 1..(n - 1) : t[j] = IF j < i THEN s[j] ELSE s[j + 1]
  BY <1>1, RemoveAtIs
<1>4. i \in 1..(Len(t) + 1) /\ Len(t) + 1 = n
  BY <1>2, <1>3
<1>5. /\ IsSeq(InsertAt(t, i, s[i])) /\ Len(InsertAt(t, i, s[i])) = n
      /\ \A j \in 1..n :
           InsertAt(t, i, s[i])[j] = IF j < i THEN t[j] ELSE IF j = i THEN s[i] ELSE t[j - 1]
  <2>1. PICK x : x = s[i]
    OBVIOUS
  <2>2. /\ IsSeq(InsertAt(t, i, x)) /\ Len(InsertAt(t, i, x)) = Len(t) + 1
        /\ \A j \in 1..(Len(t) + 1) :
             InsertAt(t, i, x)[j] = IF j < i THEN t[j] ELSE IF j = i THEN x ELSE t[j - 1]
    BY <1>3, <1>4, InsertAtIs
  <2> QED
    BY ONLY <1>4, <2>1, <2>2
<1>6. \A j \in 1..n : InsertAt(t, i, s[i])[j] = s[j]
  BY <1>2, <1>3, <1>5
<1>7. InsertAt(t, i, s[i]) = s
  BY <1>1, <1>2, <1>5, <1>6, SameSeq
<1> QED
  BY <1>1, <1>4, <1>7

LEMMA ReplacedIs ==
  ASSUME NEW s, IsSeq(s), NEW i \in 1..Len(s), NEW x
  PROVE  /\ IsSeq(ReplaceAt(s, i, x)) /\ Len(ReplaceAt(s, i, x)) = Len(s)
         /\ \A j \in 1..Len(s) : ReplaceAt(s, i, x)[j] = IF j = i THEN x ELSE s[j]
         /\ ReplaceAt(ReplaceAt(s, i, x), i, s[i]) = s
<1>1. PICK t : t = [s EXCEPT ![i] = x]
  OBVIOUS
<1>2. Len(s) \in Nat /\ DOMAIN s = 1..Len(s) /\ s = [j \in DOMAIN s |-> s[j]]
  BY SeqIs DEF IsObject
<1>3. /\ DOMAIN t = 1..Len(s) /\ t = [j \in DOMAIN t |-> t[j]]
      /\ \A j \in 1..Len(s) : t[j] = IF j = i THEN x ELSE s[j]
  BY <1>1, <1>2
<1>4. IsSeq(t) /\ Len(t) = Len(s)
  BY <1>2, <1>3, ArrayIs DEF IsObject
<1>5. [t EXCEPT ![i] = s[i]] = s
  BY <1>1, <1>2
<1> QED
  BY <1>1, <1>3, <1>4, <1>5 DEF ReplaceAt

(***************************************************************************)
(* One operation and its inverse.                                          *)
(***************************************************************************)
\* What With, Without, Merge and Only make are objects.
LEMMA ObjectsAre ==
  ASSUME NEW f, NEW g, NEW n, NEW v
  PROVE  /\ IsObject(With(f, n, v)) /\ IsObject(Without(f, n)) /\ IsObject(Merge(g, f))
         /\ \A names : IsObject(Only(f, names))
         /\ IsObject([f EXCEPT ![n] = v])
BY DEF IsObject, With, Without, Merge, Only

\* What With and Without make of an object.
LEMMA WithIs ==
  ASSUME NEW f, NEW n, NEW v
  PROVE  /\ DOMAIN With(f, n, v) = DOMAIN f \cup {n} /\ With(f, n, v)[n] = v
         /\ \A m \in DOMAIN f \ {n} : With(f, n, v)[m] = f[m]
BY DEF With

LEMMA WithoutIs ==
  ASSUME NEW f, NEW n
  PROVE  /\ DOMAIN Without(f, n) = DOMAIN f \ {n}
         /\ \A m \in DOMAIN f \ {n} : Without(f, n)[m] = f[m]
BY DEF Without

\* Putting a member and taking it away are taken back by their inverses.
LEMMA WithTaken ==
  ASSUME NEW f, IsObject(f), NEW n, NEW v
  PROVE  /\ n \notin DOMAIN f => Without(With(f, n, v), n) = f
         /\ n \in DOMAIN f => With(Without(f, n), n, f[n]) = f
         /\ n \in DOMAIN f => With(With(f, n, v), n, f[n]) = f
BY DEF IsObject, With, Without

\* The inverse of an operation can be applied after it, and takes it back.
Undoes(d, o) ==
    /\ Applicable(ApplyOperation(d, o), InvertOperation(d, o))
    /\ ApplyOperation(ApplyOperation(d, o), InvertOperation(d, o)) = d

\* An operation on member k of the container at the end of a path.
At(o, a, k) == IsSeq(a) /\ o.path = Append(a, k)

\* Such an operation finds its container and its member.
LEMMA AtIs ==
  ASSUME NEW o, NEW a, NEW k, At(o, a, k)
  PROVE  Front(o.path) = a /\ Last(o.path) = k
BY FrontIs DEF At

\* What it reads and what it changes.
LEMMA ReadAt ==
  ASSUME NEW d, NEW o, NEW a, NEW k, At(o, a, k)
  PROVE  GetAtPath(d, o.path) = GetAtPath(d, a)[k]
BY GetAppend DEF At

LEMMA ApplyAtObject ==
  ASSUME NEW d, NEW o, NEW a, NEW k, At(o, a, k), a \notin ArrayPaths
  PROVE  ApplyOperation(d, o) = Update(d, a, ObjectOperation(GetAtPath(d, a), k, o))
<1>1. Front(o.path) = a /\ Last(o.path) = k
  BY AtIs
<1>2. Changed(GetAtPath(d, a), o) = ObjectOperation(GetAtPath(d, a), k, o)
  BY <1>1 DEF Changed, IsArrayOperation
<1> QED
  BY <1>1, <1>2, ApplyIs

LEMMA ApplyAtArray ==
  ASSUME NEW d, NEW o, NEW a, NEW k, At(o, a, k), a \in ArrayPaths
  PROVE  ApplyOperation(d, o) = Update(d, a, ArrayOperation(GetAtPath(d, a), k, o))
<1>1. Front(o.path) = a /\ Last(o.path) = k
  BY AtIs
<1>2. Changed(GetAtPath(d, a), o) = ArrayOperation(GetAtPath(d, a), k, o)
  BY <1>1 DEF Changed, IsArrayOperation
<1> QED
  BY <1>1, <1>2, ApplyIs

\* i is the inverse of o, which has overwritten a value.
Inverts(i, o, value) ==
    /\ i.path = o.path
    /\ o.op = "add" => i.op = "remove"
    /\ o.op = "remove" => i.op = "add" /\ i.value = value
    /\ o.op = "replace" => i.op = "replace" /\ i.value = value

\* InvertOperation makes the inverse.
LEMMA InverseIs ==
  ASSUME NEW d, NEW o, o.op \in {"add", "remove", "replace"}
  PROVE  Inverts(InvertOperation(d, o), o, GetAtPath(d, o.path))
BY DEF InvertOperation, Inverts, Add, Delete, Replace

\* An operation on an object is undone by its inverse.
LEMMA ObjectUndone ==
  ASSUME NEW d, NEW a, a \notin ArrayPaths, Restorable(d, a),
         NEW G, G = GetAtPath(d, a), IsObject(G), NEW k, NEW o, At(o, a, k),
         o.op \in {"add", "remove", "replace"}, o.op = "add" <=> ~Has(G, k)
  PROVE  Undoes(d, o) /\ ApplyOperation(d, o) = Update(d, a, ObjectOperation(G, k, o))
<1>1. PICK H, e, i : /\ H = ObjectOperation(G, k, o) /\ e = Update(d, a, H)
                     /\ i = InvertOperation(d, o)
  OBVIOUS
<1>2. ApplyOperation(d, o) = e /\ GetAtPath(d, o.path) = G[k]
  <2>1. GetAtPath(d, o.path) = GetAtPath(d, a)[k]
    BY ReadAt
  <2>2. ApplyOperation(d, o) = Update(d, a, ObjectOperation(GetAtPath(d, a), k, o))
    BY ApplyAtObject
  <2> QED
    BY <1>1, <2>1, <2>2
<1>3. GetAtPath(e, a) = H
  BY <1>1 DEF Restorable
<1>4. /\ At(i, a, k)
      /\ o.op = "add" => i.op = "remove"
      /\ o.op = "remove" => i.op = "add" /\ i.value = G[k]
      /\ o.op = "replace" => i.op = "replace" /\ i.value = G[k]
  <2>1. Inverts(i, o, G[k])
    <3>1. Inverts(InvertOperation(d, o), o, GetAtPath(d, o.path))
      BY InverseIs
    <3> QED
      BY <1>1, <1>2, <3>1
  <2> QED
    BY <2>1 DEF Inverts, At
<1>5. Front(i.path) = a /\ Last(i.path) = k /\ ApplyOperation(e, i) = Update(e, a, ObjectOperation(H, k, i))
  BY <1>3, <1>4, AtIs, ApplyAtObject
<1>6. ObjectOperation(H, k, i) = G
  BY <1>1, <1>4, WithTaken DEF ObjectOperation, Has
<1>7. Has(H, k) \/ i.op = "add"
  BY <1>1, <1>4 DEF ObjectOperation, Has, With
<1>8. Applicable(e, i)
  BY <1>3, <1>5, <1>7 DEF Applicable, IsArrayOperation
<1>9. Update(e, a, G) = Update(d, a, G) /\ Update(d, a, G) = d
  BY <1>1 DEF Restorable
<1> QED
  BY <1>1, <1>2, <1>5, <1>6, <1>8, <1>9 DEF Undoes

\* An operation on an array is undone by its inverse.
LEMMA ArrayUndone ==
  ASSUME NEW d, NEW a, a \in ArrayPaths, Restorable(d, a),
         NEW G, G = GetAtPath(d, a), IsSeq(G), NEW k, NEW o, At(o, a, k),
         \/ o.op = "add" /\ k \in 1..(Len(G) + 1)
         \/ o.op \in {"remove", "replace"} /\ k \in 1..Len(G)
  PROVE  Undoes(d, o) /\ ApplyOperation(d, o) = Update(d, a, ArrayOperation(G, k, o))
<1>1. PICK H, e, i : /\ H = ArrayOperation(G, k, o) /\ e = Update(d, a, H)
                     /\ i = InvertOperation(d, o)
  OBVIOUS
<1>2. ApplyOperation(d, o) = e /\ GetAtPath(d, o.path) = G[k]
  <2>1. GetAtPath(d, o.path) = GetAtPath(d, a)[k]
    BY ONLY At(o, a, k), ReadAt
  <2>2. ApplyOperation(d, o) = Update(d, a, ArrayOperation(GetAtPath(d, a), k, o))
    BY ApplyAtArray
  <2> QED
    BY <1>1, <2>1, <2>2
<1>3. GetAtPath(e, a) = H
  BY <1>1 DEF Restorable
<1>4. /\ At(i, a, k)
      /\ o.op = "add" => i.op = "remove"
      /\ o.op = "remove" => i.op = "add" /\ i.value = G[k]
      /\ o.op = "replace" => i.op = "replace" /\ i.value = G[k]
  <2>1. Inverts(i, o, G[k])
    <3>1. Inverts(InvertOperation(d, o), o, GetAtPath(d, o.path))
      BY InverseIs
    <3> QED
      BY <1>1, <1>2, <3>1
  <2> QED
    BY <2>1 DEF Inverts, At
<1>5. Front(i.path) = a /\ Last(i.path) = k /\ ApplyOperation(e, i) = Update(e, a, ArrayOperation(H, k, i))
  BY <1>3, <1>4, AtIs, ApplyAtArray
<1>6. /\ ArrayOperation(H, k, i) = G
      /\ k \in 1..(Len(H) + IF i.op = "add" THEN 1 ELSE 0)
  <2>1. CASE o.op = "add"
    <3>1. H = InsertAt(G, k, o.value) /\ ArrayOperation(H, k, i) = RemoveAt(H, k)
      BY <1>1, <1>4, <2>1 DEF ArrayOperation
    <3>2. k \in 1..Len(H) /\ RemoveAt(H, k) = G
      BY <2>1, <3>1, RemoveInserted
    <3> QED
      BY <1>4, <2>1, <3>1, <3>2
  <2>2. CASE o.op = "remove"
    <3>1. H = RemoveAt(G, k) /\ ArrayOperation(H, k, i) = InsertAt(H, k, G[k])
      BY <1>1, <1>4, <2>2 DEF ArrayOperation
    <3>2. k \in 1..(Len(H) + 1) /\ InsertAt(H, k, G[k]) = G
      BY <2>2, <3>1, InsertRemoved
    <3> QED
      BY <1>4, <2>2, <3>1, <3>2
  <2>3. CASE o.op = "replace"
    <3>1. H = ReplaceAt(G, k, o.value) /\ ArrayOperation(H, k, i) = ReplaceAt(H, k, G[k])
      BY <1>1, <1>4, <2>3 DEF ArrayOperation
    <3>2. k \in 1..Len(H) /\ ReplaceAt(H, k, G[k]) = G
      BY <2>3, <3>1, ReplacedIs
    <3> QED
      BY <1>4, <2>3, <3>1, <3>2
  <2> QED
    BY <2>1, <2>2, <2>3
<1>8. Applicable(e, i)
  BY <1>3, <1>5, <1>6 DEF Applicable, IsArrayOperation
<1>9. Update(e, a, G) = Update(d, a, G) /\ Update(d, a, G) = d
  BY <1>1 DEF Restorable
<1> QED
  BY <1>1, <1>2, <1>5, <1>6, <1>8, <1>9 DEF Undoes

(***************************************************************************)
(* A patch and its inverse.                                                *)
(***************************************************************************)
\* What the folds of InvertPatch and Undoable do at each step.
InvertOp(context, acc, o) ==
    [inverse |-> <<InvertOperation(acc.document, o)>> \o acc.inverse,
     document |-> ApplyOperation(acc.document, o)]
UndoOp(context, acc, o) ==
    IF acc.ok /\ Applicable(acc.document, o)
    THEN [ok |-> TRUE, document |-> ApplyOperation(acc.document, o)]
    ELSE [ok |-> FALSE, document |-> acc.document]
Inverting == INSTANCE FoldTheorems WITH Op <- InvertOp
Undoing == INSTANCE FoldTheorems WITH Op <- UndoOp

\* The inverse of a patch, with the document the patch leads to.
Inverted(d, p) == Inverting!LeftFold(0, [inverse |-> << >>, document |-> d], p)

\* InvertPatch and Undoable are such folds.
LEMMA InvertIsFold ==
  ASSUME NEW d, NEW patch
  PROVE  InvertPatch(d, patch) = Inverted(d, patch).inverse
BY Zenon DEF InvertPatch, Inverted, Inverting!LeftFold, InvertOp, FoldLeft, MapThenFoldSet,
   Inverting!LeftStep, Max, Inverting!Highest

LEMMA UndoIsFold ==
  ASSUME NEW d, NEW patch
  PROVE  Undoable(d, patch) = Undoing!LeftFold(0, [ok |-> TRUE, document |-> d], patch)
BY Zenon DEF Undoable, Undoing!LeftFold, UndoOp, FoldLeft, MapThenFoldSet,
   Undoing!LeftStep, Max, Undoing!Highest

\* ApplyJsonPatch, one operation or one patch after another.
LEMMA PatchEmpty ==
  ASSUME NEW d
  PROVE  ApplyJsonPatch(d, << >>) = d
<1>1. DOMAIN << >> = {}
  OBVIOUS
<1> QED
  BY <1>1, PatchIsFold, Patching!LeftFoldEmpty

LEMMA PatchAppend ==
  ASSUME NEW d, NEW p, IsSeq(p), NEW o
  PROVE  ApplyJsonPatch(d, Append(p, o)) = ApplyOperation(ApplyJsonPatch(d, p), o)
<1>1. PICK n, u : n = Len(p) /\ u = Append(p, o)
  OBVIOUS
<1>2. /\ n \in Nat /\ DOMAIN p = 1..n
      /\ DOMAIN u = 1..(n + 1) /\ u[n + 1] = o /\ \A i \in 1..n : u[i] = p[i]
  BY <1>1, SeqIs, AppendIs
<1>3. Patching!LeftFold(0, d, u) = PatchOp(0, Patching!LeftFold(0, d, p), u[n + 1])
  BY <1>2, Patching!LeftFoldLast
<1> QED
  BY <1>1, <1>2, <1>3, PatchIsFold DEF PatchOp

LEMMA PatchConcat ==
  ASSUME NEW d, NEW p, IsSeq(p), NEW q, IsSeq(q)
  PROVE  ApplyJsonPatch(d, p \o q) = ApplyJsonPatch(ApplyJsonPatch(d, p), q)
<1>1. PICK m, n, u : m = Len(p) /\ n = Len(q) /\ u = p \o q
  OBVIOUS
<1>2. Joins(u, p, q)
  BY <1>1, ConcatIs
<1>3. /\ m \in Nat /\ n \in Nat /\ DOMAIN p = 1..m /\ DOMAIN q = 1..n
      /\ DOMAIN u = 1..(m + n)
      /\ \A i \in 1..m : u[i] = p[i]
      /\ \A i \in 1..n : u[m + i] = q[i]
  BY <1>1, <1>2, SeqIs DEF Joins
<1>4. Patching!LeftFold(0, d, u) = Patching!LeftFold(0, Patching!LeftFold(0, d, p), q)
  <2>1. Patching!Joined(u, p, m, q, n)
    BY <1>3 DEF Patching!Joined
  <2> QED
    BY <1>3, <2>1, Patching!LeftFoldConcat
<1> QED
  BY <1>1, <1>4, PatchIsFold

\* The inverse of a patch can be applied after it, and takes it back.
PatchUndone(d, p) ==
    /\ IsSeq(p) /\ IsSeq(Inverted(d, p).inverse)
    /\ Inverted(d, p).document = ApplyJsonPatch(d, p)
    /\ Undoable(ApplyJsonPatch(d, p), InvertPatch(d, p)) = [ok |-> TRUE, document |-> d]

\* That is so of no operation, and of one more that can be undone.
LEMMA EmptyUndone ==
  ASSUME NEW d
  PROVE  PatchUndone(d, << >>)
<1>1. DOMAIN << >> = {} /\ IsSeq(<< >>)
  BY Path0
<1>2. Inverted(d, << >>) = [inverse |-> << >>, document |-> d]
  BY <1>1, Inverting!LeftFoldEmpty DEF Inverted
<1>3. InvertPatch(d, << >>) = << >>
  BY <1>2, InvertIsFold
<1>4. Undoable(d, << >>) = [ok |-> TRUE, document |-> d]
  BY <1>1, UndoIsFold, Undoing!LeftFoldEmpty
<1> QED
  BY <1>1, <1>2, <1>3, <1>4, PatchEmpty DEF PatchUndone

LEMMA AppendUndone ==
  ASSUME NEW d, NEW p, PatchUndone(d, p), NEW o, Undoes(ApplyJsonPatch(d, p), o)
  PROVE  PatchUndone(d, Append(p, o))
<1>1. PICK n, u, e, f : /\ n = Len(p) /\ u = Append(p, o)
                        /\ e = ApplyJsonPatch(d, p) /\ f = ApplyOperation(e, o)
  OBVIOUS
<1>2. /\ IsSeq(p) /\ n \in Nat /\ DOMAIN p = 1..n
      /\ IsSeq(u) /\ DOMAIN u = 1..(n + 1) /\ u[n + 1] = o /\ \A i \in 1..n : u[i] = p[i]
  BY <1>1, SeqIs, AppendIs DEF PatchUndone
<1>3. ApplyJsonPatch(d, u) = f
  BY <1>1, <1>2, PatchAppend
<1>4. PICK acc, s, v, w : /\ acc = Inverted(d, p) /\ s = acc.inverse
                          /\ v = <<InvertOperation(e, o)>> /\ w = v \o s
  OBVIOUS
<1>5. acc.document = e /\ IsSeq(s) /\ InvertPatch(d, p) = s
  BY <1>1, <1>4, InvertIsFold DEF PatchUndone
<1>6. Inverted(d, u) = [inverse |-> w, document |-> f]
  <2>1. Inverted(d, u) = InvertOp(0, acc, u[n + 1])
    BY <1>2, <1>4, Inverting!LeftFoldLast DEF Inverted
  <2> QED
    BY <1>1, <1>2, <1>4, <1>5, <2>1 DEF InvertOp
<1>7. InvertPatch(d, u) = w
  BY <1>6, InvertIsFold
<1>8. IsSeq(v) /\ DOMAIN v = 1..1 /\ v[1] = InvertOperation(e, o)
  BY <1>4, Path1
<1>9. Joins(w, v, s)
  BY <1>4, <1>5, <1>8, ConcatIs
<1>10. PICK m : m = Len(s) /\ m \in Nat /\ DOMAIN s = 1..m
  BY <1>5, SeqIs
<1>11. /\ Len(v) = 1 /\ DOMAIN w = 1..(1 + m) /\ \A i \in 1..1 : w[i] = v[i]
       /\ \A i \in 1..m : w[1 + i] = s[i]
  BY <1>4, <1>9, <1>10 DEF Joins
<1>12. PICK b : b = [ok |-> TRUE, document |-> f]
  OBVIOUS
<1>13. Undoing!LeftFold(0, b, w) = Undoing!LeftFold(0, Undoing!LeftFold(0, b, v), s)
  <2>1. Undoing!Joined(w, v, 1, s, m) /\ 1 \in Nat
    BY <1>8, <1>10, <1>11 DEF Undoing!Joined
  <2> QED
    BY <1>10, <2>1, Undoing!LeftFoldConcat
<1>14. Undoing!LeftFold(0, b, v) = [ok |-> TRUE, document |-> e]
  <2>1. PICK g : Undoing!LeftSteps(0, b, v, 1, g) /\ g[1] = Undoing!LeftFold(0, b, v)
    BY <1>8, Undoing!LeftFoldSteps
  <2>2. g[0] = b /\ g[1] = UndoOp(0, g[0], v[1])
    BY <2>1 DEF Undoing!LeftSteps
  <2>3. Applicable(f, v[1]) /\ ApplyOperation(f, v[1]) = e
    BY <1>1, <1>8 DEF Undoes
  <2>4. b.ok = TRUE /\ b.document = f
    BY <1>12
  <2> QED
    BY <2>1, <2>2, <2>3, <2>4, Zenon DEF UndoOp
<1>15. Undoing!LeftFold(0, [ok |-> TRUE, document |-> e], s) = [ok |-> TRUE, document |-> d]
  BY <1>1, <1>5, UndoIsFold DEF PatchUndone
<1>16. Undoable(f, w) = [ok |-> TRUE, document |-> d]
  BY <1>12, <1>13, <1>14, <1>15, UndoIsFold
<1> QED
  BY <1>1, <1>2, <1>3, <1>6, <1>7, <1>9, <1>16 DEF PatchUndone, Joins

(***************************************************************************)
(* The paths of a MapSpec: what is there, and what may be put there.       *)
(***************************************************************************)
\* Documents with the same revision, or both with none.
SameRevision(d, e) ==
    /\ Has(e, "revision") <=> Has(d, "revision")
    /\ Member(e, "revision", 0) = Member(d, "revision", 0)

\* The value at the end of a path, and what may be put there.
Reaches(d, a, G) == IsSeq(a) /\ Restorable(d, a) /\ GetAtPath(d, a) = G

Fits(d, a, x) == SpecShape(Update(d, a, x)) /\ SameRevision(d, Update(d, a, x))

\* Every document is reached at its root.
LEMMA ReachRoot ==
  ASSUME NEW d
  PROVE  Reaches(d, << >>, d) /\ \A x : SpecShape(x) /\ SameRevision(d, x) => Fits(d, << >>, x)
BY Path0, GetEmpty, UpdateEmpty, RestorableRoot DEF Reaches, Fits

\* A path goes on to the members of an object.
LEMMA ReachInto ==
  ASSUME NEW d, NEW a, NEW G, Reaches(d, a, G), IsObject(G), NEW k \in DOMAIN G
  PROVE  Reaches(d, Append(a, k), G[k])
<1>1. IsSeq(a) /\ Restorable(d, a) /\ G = GetAtPath(d, a)
  BY DEF Reaches
<1>2. IsSeq(Append(a, k))
  BY <1>1, AppendIs
<1>3. Restorable(d, Append(a, k))
  BY <1>1, RestorableAppend
<1>4. GetAtPath(d, Append(a, k)) = G[k]
  BY <1>1, GetAppend
<1> QED
  BY <1>2, <1>3, <1>4 DEF Reaches

\* What fits a member fits as a change of the object.
LEMMA FitInto ==
  ASSUME NEW d, NEW a, NEW G, Reaches(d, a, G), NEW k, NEW x,
         Fits(d, a, [G EXCEPT ![k] = x])
  PROVE  Fits(d, Append(a, k), x)
<1>1. IsSeq(a) /\ G = GetAtPath(d, a)
  BY DEF Reaches
<1>2. Update(d, Append(a, k), x) = Update(d, a, [G EXCEPT ![k] = x])
  BY <1>1, UpdateAppend
<1> QED
  BY <1>2 DEF Fits

\* The members of a spec.
LEMMA MemberReach ==
  ASSUME NEW d, SpecShape(d), NEW k \in DOMAIN d, k # "revision"
  PROVE  /\ Reaches(d, <<k>>, d[k])
         /\ \A x : SpecShape([d EXCEPT ![k] = x]) => Fits(d, <<k>>, x)
<1>1. Reaches(d, << >>, d) /\ IsObject(d) /\ <<k>> = Append(<< >>, k)
  BY ReachRoot, Path1 DEF SpecShape
<1>2. ASSUME NEW x, SpecShape([d EXCEPT ![k] = x]) PROVE Fits(d, <<k>>, x)
  <2>1. SameRevision(d, [d EXCEPT ![k] = x])
    BY DEF SameRevision, Member, Has
  <2>2. Fits(d, << >>, [d EXCEPT ![k] = x])
    BY <1>2, <2>1, ReachRoot
  <2> QED
    BY <1>1, <2>2, FitInto
<1> QED
  BY <1>1, <1>2, ReachInto

\* Its layers, its sources and its extensions.
LEMMA LayersReach ==
  ASSUME NEW d, SpecShape(d)
  PROVE  /\ Reaches(d, <<"layers">>, d.layers) /\ IsSeq(d.layers) /\ IsObject(d.layers)
         /\ \A x : LayersShape(x) => Fits(d, <<"layers">>, x)
<1>1. "layers" \in DOMAIN d /\ "layers" # "revision" /\ LayersShape(d.layers)
  BY DEF SpecShape
<1>2. IsSeq(d.layers) /\ IsObject(d.layers)
  <2>1. IsSeq(d.layers)
    BY <1>1 DEF LayersShape, IsArray, IsSeq
  <2> QED
    BY <2>1, SeqIs
<1>3. ASSUME NEW x, LayersShape(x) PROVE SpecShape([d EXCEPT !["layers"] = x])
  BY <1>3, <1>1 DEF SpecShape, IsObject, Has
<1> QED
  BY <1>1, <1>2, <1>3, MemberReach

LEMMA SourcesReach ==
  ASSUME NEW d, SpecShape(d)
  PROVE  /\ Reaches(d, <<"sources">>, d.sources) /\ IsObject(d.sources)
         /\ \A x : IsObject(x) => Fits(d, <<"sources">>, x)
<1>1. "sources" \in DOMAIN d /\ "sources" # "revision" /\ IsObject(d.sources)
  BY DEF SpecShape
<1>3. ASSUME NEW x, IsObject(x) PROVE SpecShape([d EXCEPT !["sources"] = x])
  BY <1>3, <1>1 DEF SpecShape, IsObject, Has
<1> QED
  BY <1>1, <1>3, MemberReach

LEMMA ExtensionsReach ==
  ASSUME NEW d, SpecShape(d), Has(d, "extensions")
  PROVE  /\ Reaches(d, <<"extensions">>, d.extensions) /\ ExtensionsShape(d.extensions)
         /\ IsObject(d.extensions)
         /\ \A x : ExtensionsShape(x) => Fits(d, <<"extensions">>, x)
<1>1. "extensions" \in DOMAIN d /\ "extensions" # "revision" /\ ExtensionsShape(d.extensions)
  BY DEF SpecShape, Has
<1>3. ASSUME NEW x, ExtensionsShape(x) PROVE SpecShape([d EXCEPT !["extensions"] = x])
  BY <1>3, <1>1 DEF SpecShape, IsObject, Has
<1> QED
  BY <1>1, <1>3, MemberReach DEF ExtensionsShape

\* Layers stay layers when one is replaced, inserted or removed.
LEMMA LayerReplaced ==
  ASSUME NEW layers, LayersShape(layers), NEW i \in 1..Len(layers), NEW x, LayerShape(x)
  PROVE  LayersShape([layers EXCEPT ![i] = x])
<1>1. IsSeq(layers)
  BY DEF LayersShape, IsArray, IsSeq
<1>2. PICK t : t = ReplaceAt(layers, i, x)
  OBVIOUS
<1>3. /\ IsSeq(t) /\ Len(t) = Len(layers)
      /\ \A j \in 1..Len(layers) : t[j] = IF j = i THEN x ELSE layers[j]
  BY <1>1, <1>2, ReplacedIs
<1>4. DOMAIN t = 1..Len(layers) /\ DOMAIN layers = 1..Len(layers) /\ IsArray(t)
  BY <1>1, <1>3, SeqIs DEF IsArray
<1>5. LayersShape(t)
  BY <1>3, <1>4 DEF LayersShape
<1> QED
  BY <1>2, <1>5 DEF ReplaceAt

LEMMA LayerInserted ==
  ASSUME NEW layers, LayersShape(layers), NEW i \in 1..(Len(layers) + 1), NEW x, LayerShape(x)
  PROVE  LayersShape(InsertAt(layers, i, x))
<1>1. IsSeq(layers)
  BY DEF LayersShape, IsArray, IsSeq
<1>2. PICK t, n : t = InsertAt(layers, i, x) /\ n = Len(layers)
  OBVIOUS
<1>3. /\ IsSeq(t) /\ Len(t) = n + 1
      /\ \A j \in 1..(n + 1) :
           t[j] = IF j < i THEN layers[j] ELSE IF j = i THEN x ELSE layers[j - 1]
  BY <1>1, <1>2, InsertAtIs
<1>4. DOMAIN t = 1..(n + 1) /\ n \in Nat /\ DOMAIN layers = 1..n /\ IsArray(t)
  BY <1>1, <1>2, <1>3, SeqIs DEF IsArray
<1>5. ASSUME NEW j \in 1..(n + 1) PROVE LayerShape(t[j])
  <2>1. \/ j < i /\ j \in 1..n
        \/ j = i
        \/ ~(j < i) /\ j # i /\ j - 1 \in 1..n
    BY <1>2, <1>4
  <2> QED
    BY <1>3, <1>4, <2>1 DEF LayersShape
<1> QED
  BY <1>2, <1>4, <1>5 DEF LayersShape

LEMMA LayerRemoved ==
  ASSUME NEW layers, LayersShape(layers), NEW i \in 1..Len(layers)
  PROVE  LayersShape(RemoveAt(layers, i))
<1>1. IsSeq(layers)
  BY DEF LayersShape, IsArray, IsSeq
<1>2. PICK t, n : t = RemoveAt(layers, i) /\ n = Len(layers)
  OBVIOUS
<1>3. /\ IsSeq(t) /\ Len(t) = n - 1
      /\ \A j \in 1..(n - 1) : t[j] = IF j < i THEN layers[j] ELSE layers[j + 1]
  BY <1>1, <1>2, RemoveAtIs
<1>4. DOMAIN t = 1..(n - 1) /\ n \in Nat /\ DOMAIN layers = 1..n /\ IsArray(t)
  BY <1>1, <1>2, <1>3, SeqIs DEF IsArray
<1>5. ASSUME NEW j \in 1..(n - 1) PROVE LayerShape(t[j])
  <2>1. j \in 1..n /\ j + 1 \in 1..n
    BY <1>2, <1>4
  <2> QED
    BY <1>3, <1>4, <2>1 DEF LayersShape
<1> QED
  BY <1>2, <1>4, <1>5 DEF LayersShape

\* A layer of a MapSpec.
LEMMA LayerReach ==
  ASSUME NEW d, SpecShape(d), NEW i \in 1..Len(d.layers)
  PROVE  /\ Reaches(d, <<"layers", i>>, d.layers[i]) /\ LayerShape(d.layers[i])
         /\ IsObject(d.layers[i])
         /\ \A x : LayerShape(x) => Fits(d, <<"layers", i>>, x)
<1>1. /\ Reaches(d, <<"layers">>, d.layers) /\ IsSeq(d.layers) /\ IsObject(d.layers)
      /\ \A x : LayersShape(x) => Fits(d, <<"layers">>, x)
  BY LayersReach
<1>2. i \in DOMAIN d.layers /\ LayersShape(d.layers)
  BY <1>1, SeqIs DEF SpecShape
<1>3. <<"layers", i>> = Append(<<"layers">>, i)
  BY Path2
<1>4. ASSUME NEW x, LayerShape(x) PROVE Fits(d, <<"layers", i>>, x)
  <2>1. LayersShape([d.layers EXCEPT ![i] = x])
    BY <1>2, <1>4, LayerReplaced
  <2> QED
    BY <1>1, <1>3, <2>1, FitInto
<1> QED
  BY <1>1, <1>2, <1>3, <1>4, ReachInto DEF LayersShape, LayerShape

\* The paint or the layout of a layer.
LEMMA StyleReach ==
  ASSUME NEW d, SpecShape(d), NEW i \in 1..Len(d.layers), NEW member \in {"paint", "layout"},
         Has(d.layers[i], member)
  PROVE  /\ Reaches(d, <<"layers", i, member>>, d.layers[i][member])
         /\ IsObject(d.layers[i][member])
         /\ \A x : IsObject(x) => Fits(d, <<"layers", i, member>>, x)
<1> DEFINE layer == d.layers[i]
<1>1. /\ Reaches(d, <<"layers", i>>, layer) /\ LayerShape(layer) /\ IsObject(layer)
      /\ \A x : LayerShape(x) => Fits(d, <<"layers", i>>, x)
  BY LayerReach
<1>2. member \in DOMAIN layer
  BY DEF Has
<1> HIDE DEF layer
<1>3. <<"layers", i, member>> = Append(<<"layers", i>>, member)
  BY Path3
<1>4. ASSUME NEW x, IsObject(x) PROVE Fits(d, <<"layers", i, member>>, x)
  <2>1. LayerShape([layer EXCEPT ![member] = x])
    BY <1>1, <1>2, <1>4 DEF LayerShape, IsObject, Has
  <2> QED
    BY <1>1, <1>3, <2>1, FitInto
<1>5. IsObject(layer[member])
  BY <1>1, <1>2 DEF LayerShape
<1>6. Reaches(d, <<"layers", i, member>>, layer[member])
  BY <1>1, <1>2, <1>3, ReachInto
<1> QED
  BY <1>4, <1>5, <1>6 DEF layer

(***************************************************************************)
(* The paths of its scene.                                                 *)
(***************************************************************************)
\* A MapSpec that has a scene has it in its extensions.
LEMMA SceneIs ==
  ASSUME NEW d, SpecShape(d), HasScene(d)
  PROVE  /\ Has(d, "extensions") /\ Has(d.extensions, "scene3d")
         /\ Scene(d) = d.extensions.scene3d /\ SceneShape(Scene(d))
<1>1. Has(d, "extensions")
  BY DEF HasScene, Extensions, Member, Has
<1>2. Has(d.extensions, "scene3d") /\ Scene(d) = d.extensions.scene3d
  BY <1>1 DEF HasScene, Scene, Extensions, Member
<1>3. SceneShape(Scene(d))
  BY <1>1, <1>2 DEF SpecShape, ExtensionsShape
<1> QED
  BY <1>1, <1>2, <1>3

\* The scene of a MapSpec.
LEMMA SceneReach ==
  ASSUME NEW d, SpecShape(d), HasScene(d)
  PROVE  /\ Reaches(d, ScenePath, Scene(d)) /\ IsObject(Scene(d))
         /\ \A x : SceneShape(x) => Fits(d, ScenePath, x)
<1>1. /\ Reaches(d, <<"extensions">>, d.extensions) /\ ExtensionsShape(d.extensions)
      /\ IsObject(d.extensions)
      /\ \A x : ExtensionsShape(x) => Fits(d, <<"extensions">>, x)
  BY SceneIs, ExtensionsReach
<1>2. "scene3d" \in DOMAIN d.extensions /\ Scene(d) = d.extensions["scene3d"] /\ SceneShape(Scene(d))
  BY SceneIs DEF Has
<1>3. ScenePath = Append(<<"extensions">>, "scene3d")
  BY Path2 DEF ScenePath
<1>4. ASSUME NEW x, SceneShape(x) PROVE Fits(d, ScenePath, x)
  <2>1. ExtensionsShape([d.extensions EXCEPT !["scene3d"] = x])
    BY <1>1, <1>2, <1>4 DEF ExtensionsShape, IsObject, Has
  <2> QED
    BY <1>1, <1>3, <2>1, FitInto
<1>5. Reaches(d, ScenePath, Scene(d))
  BY <1>1, <1>2, <1>3, ReachInto
<1> QED
  BY <1>2, <1>4, <1>5 DEF SceneShape

\* Paths below the scene.
LEMMA ConcatAppend ==
  ASSUME NEW s, IsSeq(s), NEW t, IsSeq(t), NEW x
  PROVE  s \o Append(t, x) = Append(s \o t, x)
<1>1. PICK S, T : s \in Seq(S) /\ t \in Seq(T)
  BY DEF IsSeq
<1> DEFINE U == (S \cup T) \cup {x}
<1>2. s \in Seq(U) /\ t \in Seq(U) /\ x \in U
  BY <1>1, SeqMonotonic
<1> HIDE DEF U
<1>3. Append(t, x) = t \o <<x>> /\ <<x>> \in Seq(U)
  BY <1>2, AppendIsConcat
<1>4. s \o t \in Seq(U)
  BY <1>2, ConcatProperties
<1>5. Append(s \o t, x) = (s \o t) \o <<x>>
  BY <1>2, <1>4, AppendIsConcat
<1>6. (s \o t) \o <<x>> = s \o (t \o <<x>>)
  BY <1>2, <1>3, ConcatAssociative
<1> QED
  BY <1>3, <1>5, <1>6

LEMMA ScenePaths ==
  ASSUME NEW k, NEW l, NEW m
  PROVE  /\ IsSeq(ScenePath) /\ Append(ScenePath, k) = <<"extensions", "scene3d", k>>
         /\ ScenePath \o <<k, l>> = Append(Append(ScenePath, k), l)
         /\ ScenePath \o <<k, l, m>> = Append(Append(Append(ScenePath, k), l), m)
<1>1. IsSeq(ScenePath) /\ Append(ScenePath, k) = <<"extensions", "scene3d", k>>
  <2>1. IsSeq(<<"extensions", "scene3d">>)
    BY Path2
  <2>2. <<"extensions", "scene3d", k>> = Append(<<"extensions", "scene3d">>, k)
    BY Path3
  <2> QED
    BY <2>1, <2>2 DEF ScenePath
<1>2. PICK p, p0, p1, p2, p3 : p = ScenePath /\ p0 = << >> /\ p1 = <<k>> /\ p2 = <<k, l>> /\ p3 = <<k, l, m>>
  OBVIOUS
<1>3. /\ IsSeq(p) /\ IsSeq(p0) /\ IsSeq(p1) /\ IsSeq(p2)
      /\ p1 = Append(p0, k) /\ p2 = Append(p1, l) /\ p3 = Append(p2, m)
  BY <1>1, <1>2, Path0, Path1, Path2, Path3
<1>4. p \o p0 = p
  <2>1. PICK S : p \in Seq(S)
    BY <1>3 DEF IsSeq
  <2> QED
    BY <1>2, <2>1, ConcatEmptySeq
<1>5. p \o p1 = Append(p, k) /\ p \o p2 = Append(p \o p1, l) /\ p \o p3 = Append(p \o p2, m)
  BY <1>3, <1>4, ConcatAppend
<1> QED
  BY <1>1, <1>2, <1>5

\* The sources and the layers of the scene.
LEMMA SceneMemberReach ==
  ASSUME NEW d, SpecShape(d), HasScene(d), NEW k \in {"sources", "layers"}, Has(Scene(d), k)
  PROVE  /\ Reaches(d, Append(ScenePath, k), Scene(d)[k])
         /\ \A x : SceneShape([Scene(d) EXCEPT ![k] = x]) => Fits(d, Append(ScenePath, k), x)
<1>1. /\ Reaches(d, ScenePath, Scene(d)) /\ IsObject(Scene(d))
      /\ \A x : SceneShape(x) => Fits(d, ScenePath, x)
  BY SceneReach
<1> QED
  BY <1>1, ReachInto, FitInto DEF Has

LEMMA SceneSourcesReach ==
  ASSUME NEW d, SpecShape(d), HasScene(d), Has(Scene(d), "sources")
  PROVE  /\ Reaches(d, Append(ScenePath, "sources"), Scene(d).sources)
         /\ IsObject(Scene(d).sources)
         /\ \A x : IsObject(x) => Fits(d, Append(ScenePath, "sources"), x)
<1>1. SceneShape(Scene(d))
  BY SceneIs
<1>2. ASSUME NEW x, IsObject(x) PROVE SceneShape([Scene(d) EXCEPT !["sources"] = x])
  BY <1>1, <1>2 DEF SceneShape, IsObject, Has
<1> QED
  BY <1>1, <1>2, SceneMemberReach DEF SceneShape

LEMMA SceneLayersReach ==
  ASSUME NEW d, SpecShape(d), HasScene(d), Has(Scene(d), "layers")
  PROVE  /\ Reaches(d, Append(ScenePath, "layers"), Scene(d).layers)
         /\ LayersShape(Scene(d).layers)
         /\ IsSeq(Scene(d).layers) /\ IsObject(Scene(d).layers)
         /\ \A x : LayersShape(x) => Fits(d, Append(ScenePath, "layers"), x)
<1>1. SceneShape(Scene(d)) /\ LayersShape(Scene(d).layers)
  BY SceneIs DEF SceneShape
<1>2. ASSUME NEW x, LayersShape(x) PROVE SceneShape([Scene(d) EXCEPT !["layers"] = x])
  BY <1>1, <1>2 DEF SceneShape, IsObject, Has
<1>3. IsSeq(Scene(d).layers)
  BY <1>1 DEF LayersShape, IsArray, IsSeq
<1>4. IsObject(Scene(d).layers)
  BY <1>3, SeqIs
<1> QED
  BY <1>1, <1>2, <1>3, <1>4, SceneMemberReach

\* A layer of the scene.
LEMMA SceneLayerReach ==
  ASSUME NEW d, SpecShape(d), HasScene(d), Has(Scene(d), "layers"),
         NEW i \in 1..Len(Scene(d).layers)
  PROVE  /\ Reaches(d, Append(Append(ScenePath, "layers"), i), Scene(d).layers[i])
         /\ LayerShape(Scene(d).layers[i]) /\ IsObject(Scene(d).layers[i])
         /\ \A x : LayerShape(x) => Fits(d, Append(Append(ScenePath, "layers"), i), x)
<1>1. PICK a, layers : a = Append(ScenePath, "layers") /\ layers = Scene(d).layers
  OBVIOUS
<1>2. /\ Reaches(d, a, layers) /\ IsSeq(layers) /\ IsObject(layers) /\ LayersShape(layers)
      /\ \A x : LayersShape(x) => Fits(d, a, x)
  BY <1>1, SceneLayersReach
<1>3. i \in DOMAIN layers /\ i \in 1..Len(layers)
  BY <1>1, <1>2, SeqIs
<1>4. ASSUME NEW x, LayerShape(x) PROVE Fits(d, Append(a, i), x)
  <2>1. LayersShape([layers EXCEPT ![i] = x])
    BY <1>2, <1>3, <1>4, LayerReplaced
  <2> QED
    BY <1>2, <2>1, FitInto
<1>5. Reaches(d, Append(a, i), layers[i]) /\ LayerShape(layers[i]) /\ IsObject(layers[i])
  BY <1>2, <1>3, ReachInto DEF LayersShape, LayerShape
<1> QED
  BY <1>1, <1>4, <1>5

(***************************************************************************)
(* Operations that go: they apply, can be undone and leave a MapSpec.      *)
(***************************************************************************)
\* A path that was updated leads to what was put there.
LEMMA ReachAgain ==
  ASSUME NEW d, NEW a, NEW G, Reaches(d, a, G), NEW x, Fits(d, a, x), NEW e, e = Update(d, a, x)
  PROVE  /\ Reaches(e, a, x)
         /\ \A y : Fits(d, a, y) => Fits(e, a, y)
         /\ \A y : Update(e, a, y) = Update(d, a, y)
<1>1. /\ \A y : GetAtPath(Update(d, a, y), a) = y
      /\ \A y, z : Update(Update(d, a, y), a, z) = Update(d, a, z)
      /\ IsSeq(a)
  BY DEF Reaches, Restorable
<1>2. \A y : Update(e, a, y) = Update(d, a, y)
  BY <1>1
<1>3. GetAtPath(e, a) = x /\ Update(e, a, x) = e
  BY <1>1
<1>4. Restorable(e, a)
  BY <1>1, <1>2, <1>3 DEF Restorable
<1>5. ASSUME NEW y, Fits(d, a, y) PROVE Fits(e, a, y)
  BY <1>2, <1>5 DEF Fits, SameRevision
<1> QED
  BY <1>1, <1>2, <1>3, <1>4, <1>5 DEF Reaches

\* An operation can be undone and leaves a spec of the same revision.
OpGoes(d, o) ==
    /\ Undoes(d, o)
    /\ SpecShape(ApplyOperation(d, o)) /\ SameRevision(d, ApplyOperation(d, o))

\* The operations of the commands, at their paths.
LEMMA OperationsAt ==
  ASSUME NEW a, IsSeq(a), NEW k, NEW v
  PROVE  /\ At(Add(Append(a, k), v), a, k) /\ At(Replace(Append(a, k), v), a, k)
         /\ At(Delete(Append(a, k)), a, k)
BY DEF At, Add, Replace, Delete

\* On an object: put, add, replace and delete.
LEMMA PutGoes ==
  ASSUME NEW d, NEW a, NEW G, Reaches(d, a, G), IsObject(G), a \notin ArrayPaths,
         NEW k, NEW v, Fits(d, a, With(G, k, v))
  PROVE  /\ OpGoes(d, Put(G, k, Append(a, k), v))
         /\ ApplyOperation(d, Put(G, k, Append(a, k), v)) = Update(d, a, With(G, k, v))
<1>1. PICK o : o = Put(G, k, Append(a, k), v)
  OBVIOUS
<1>2. IsSeq(a) /\ Restorable(d, a) /\ G = GetAtPath(d, a)
  BY DEF Reaches
<1>3. At(o, a, k)
  BY <1>1, <1>2, OperationsAt DEF Put
<1>4. /\ o.op \in {"add", "remove", "replace"} /\ (o.op = "add" <=> ~Has(G, k))
      /\ ObjectOperation(G, k, o) = With(G, k, v)
  BY <1>1 DEF Put, Add, Replace, ObjectOperation
<1>5. Undoes(d, o) /\ ApplyOperation(d, o) = Update(d, a, ObjectOperation(G, k, o))
  BY <1>2, <1>3, <1>4, ObjectUndone
<1> QED
  BY <1>1, <1>4, <1>5 DEF OpGoes, Fits

LEMMA AddGoes ==
  ASSUME NEW d, NEW a, NEW G, Reaches(d, a, G), IsObject(G), a \notin ArrayPaths,
         NEW k, ~Has(G, k), NEW v, Fits(d, a, With(G, k, v))
  PROVE  OpGoes(d, Add(Append(a, k), v))
BY PutGoes DEF Put

LEMMA ReplaceGoes ==
  ASSUME NEW d, NEW a, NEW G, Reaches(d, a, G), IsObject(G), a \notin ArrayPaths,
         NEW k, Has(G, k), NEW v, Fits(d, a, With(G, k, v))
  PROVE  OpGoes(d, Replace(Append(a, k), v))
BY PutGoes DEF Put

LEMMA DeleteGoes ==
  ASSUME NEW d, NEW a, NEW G, Reaches(d, a, G), IsObject(G), a \notin ArrayPaths,
         NEW k, Has(G, k), Fits(d, a, Without(G, k))
  PROVE  OpGoes(d, Delete(Append(a, k)))
<1>1. PICK o : o = Delete(Append(a, k))
  OBVIOUS
<1>2. IsSeq(a) /\ Restorable(d, a) /\ G = GetAtPath(d, a)
  BY DEF Reaches
<1>3. At(o, a, k)
  BY <1>1, <1>2, OperationsAt
<1>4. /\ o.op = "remove" /\ o.op \in {"add", "remove", "replace"} /\ (o.op = "add" <=> ~Has(G, k))
      /\ ObjectOperation(G, k, o) = Without(G, k)
  BY <1>1 DEF Delete, ObjectOperation
<1>5. Undoes(d, o) /\ ApplyOperation(d, o) = Update(d, a, ObjectOperation(G, k, o))
  BY <1>2, <1>3, <1>4, ObjectUndone
<1> QED
  BY <1>1, <1>4, <1>5 DEF OpGoes, Fits

\* On an array: insert and remove.
LEMMA InsertGoes ==
  ASSUME NEW d, NEW a, NEW G, Reaches(d, a, G), IsSeq(G), a \in ArrayPaths,
         NEW k \in 1..(Len(G) + 1), NEW v, Fits(d, a, InsertAt(G, k, v))
  PROVE  OpGoes(d, Add(Append(a, k), v))
<1>1. PICK o : o = Add(Append(a, k), v)
  OBVIOUS
<1>2. IsSeq(a) /\ Restorable(d, a) /\ G = GetAtPath(d, a)
  BY DEF Reaches
<1>3. At(o, a, k)
  BY <1>1, <1>2, OperationsAt
<1>4. o.op = "add" /\ ArrayOperation(G, k, o) = InsertAt(G, k, v)
  BY <1>1 DEF Add, ArrayOperation
<1>5. Undoes(d, o) /\ ApplyOperation(d, o) = Update(d, a, ArrayOperation(G, k, o))
  BY <1>2, <1>3, <1>4, ArrayUndone
<1> QED
  BY <1>1, <1>4, <1>5 DEF OpGoes, Fits

LEMMA RemoveGoes ==
  ASSUME NEW d, NEW a, NEW G, Reaches(d, a, G), IsSeq(G), a \in ArrayPaths,
         NEW k \in 1..Len(G), Fits(d, a, RemoveAt(G, k))
  PROVE  /\ OpGoes(d, Delete(Append(a, k)))
         /\ ApplyOperation(d, Delete(Append(a, k))) = Update(d, a, RemoveAt(G, k))
<1>1. PICK o : o = Delete(Append(a, k))
  OBVIOUS
<1>2. IsSeq(a) /\ Restorable(d, a) /\ G = GetAtPath(d, a)
  BY DEF Reaches
<1>3. At(o, a, k)
  BY <1>1, <1>2, OperationsAt
<1>4. o.op = "remove" /\ ArrayOperation(G, k, o) = RemoveAt(G, k)
  BY <1>1 DEF Delete, ArrayOperation
<1>5. Undoes(d, o) /\ ApplyOperation(d, o) = Update(d, a, ArrayOperation(G, k, o))
  BY <1>2, <1>3, <1>4, ArrayUndone
<1> QED
  BY <1>1, <1>4, <1>5 DEF OpGoes, Fits

\* A patch can be undone and leads to a spec of the same revision.
PatchGoes(d, p) ==
    /\ PatchUndone(d, p)
    /\ SpecShape(ApplyJsonPatch(d, p)) /\ SameRevision(d, ApplyJsonPatch(d, p))

\* Patches of no, one more, one and two operations.
LEMMA GoesNowhere ==
  ASSUME NEW d, SpecShape(d)
  PROVE  PatchGoes(d, << >>)
BY EmptyUndone, PatchEmpty DEF PatchGoes, SameRevision

LEMMA GoesOn ==
  ASSUME NEW d, NEW p, PatchGoes(d, p), NEW o, OpGoes(ApplyJsonPatch(d, p), o)
  PROVE  PatchGoes(d, Append(p, o))
<1>1. PatchUndone(d, p) /\ IsSeq(p)
  BY DEF PatchGoes, PatchUndone
<1>2. PatchUndone(d, Append(p, o))
  BY <1>1, AppendUndone DEF OpGoes
<1>3. ApplyJsonPatch(d, Append(p, o)) = ApplyOperation(ApplyJsonPatch(d, p), o)
  BY <1>1, PatchAppend
<1> QED
  BY <1>2, <1>3 DEF PatchGoes, OpGoes, SameRevision

LEMMA GoesOne ==
  ASSUME NEW d, SpecShape(d), NEW o, OpGoes(d, o)
  PROVE  PatchGoes(d, <<o>>) /\ ApplyJsonPatch(d, <<o>>) = ApplyOperation(d, o)
<1>1. PICK p, q : p = << >> /\ q = <<o>>
  OBVIOUS
<1>2. PatchGoes(d, p) /\ ApplyJsonPatch(d, p) = d /\ IsSeq(p) /\ q = Append(p, o)
  BY <1>1, GoesNowhere, PatchEmpty, Path0, Path1
<1>3. PatchGoes(d, q)
  BY <1>2, GoesOn
<1>4. ApplyJsonPatch(d, q) = ApplyOperation(d, o)
  BY <1>2, PatchAppend
<1> QED
  BY <1>1, <1>3, <1>4

LEMMA GoesTwo ==
  ASSUME NEW d, SpecShape(d), NEW o, OpGoes(d, o), NEW q, OpGoes(ApplyOperation(d, o), q)
  PROVE  PatchGoes(d, <<o, q>>)
<1>1. PatchGoes(d, <<o>>) /\ ApplyJsonPatch(d, <<o>>) = ApplyOperation(d, o)
  BY GoesOne
<1>2. PatchGoes(d, Append(<<o>>, q))
  BY <1>1, GoesOn
<1>3. <<o, q>> = Append(<<o>>, q)
  BY Path2
<1> QED
  BY <1>2, <1>3

(***************************************************************************)
(* The commands on sources and layers.                                     *)
(***************************************************************************)
\* Which of the paths lead to arrays.
LEMMA Arrays ==
  ASSUME NEW i, NEW m
  PROVE  /\ <<"layers">> \in ArrayPaths /\ Append(ScenePath, "layers") \in ArrayPaths
         /\ << >> \notin ArrayPaths /\ <<"sources">> \notin ArrayPaths
         /\ <<"extensions">> \notin ArrayPaths /\ ScenePath \notin ArrayPaths
         /\ <<"layers", i>> \notin ArrayPaths /\ <<"layers", i, m>> \notin ArrayPaths
         /\ Append(ScenePath, "sources") \notin ArrayPaths
         /\ Append(Append(ScenePath, "layers"), i) \notin ArrayPaths
<1>1. /\ Append(ScenePath, "layers") = <<"extensions", "scene3d", "layers">>
      /\ Append(ScenePath, "sources") = <<"extensions", "scene3d", "sources">>
      /\ Append(Append(ScenePath, "layers"), i) = <<"extensions", "scene3d", "layers", i>>
  <2>1. \A k : Append(ScenePath, k) = <<"extensions", "scene3d", k>>
    BY ScenePaths
  <2>2. <<"extensions", "scene3d", "layers", i>> = Append(<<"extensions", "scene3d", "layers">>, i)
    BY Path4
  <2> QED
    BY <2>1, <2>2
<1>2. /\ <<"layers">> \in ArrayPaths /\ <<"extensions", "scene3d", "layers">> \in ArrayPaths
      /\ << >> \notin ArrayPaths /\ <<"sources">> \notin ArrayPaths
      /\ <<"extensions">> \notin ArrayPaths
      /\ <<"layers", i>> \notin ArrayPaths /\ <<"layers", i, m>> \notin ArrayPaths
      /\ <<"extensions", "scene3d", "sources">> \notin ArrayPaths
      /\ <<"extensions", "scene3d", "layers", i>> \notin ArrayPaths
  BY DEF ArrayPaths
<1>3. ScenePath \notin ArrayPaths
  BY DEF ArrayPaths, ScenePath
<1> QED
  BY <1>1, <1>2, <1>3

\* The position of a layer is one of the array that has its id, or 0.
LEMMA LayerFound ==
  ASSUME NEW layers, IsSeq(layers), NEW id
  PROVE  /\ LayerAt(layers, id) \in 0..Len(layers)
         /\ LayerAt(layers, id) # 0 => layers[LayerAt(layers, id)].id = id
<1> DEFINE I == {i \in 1..Len(layers) : layers[i].id = id}
<1>1. LayerAt(layers, id) = IF I # {} THEN Min(I) ELSE 0
  BY DEF LayerAt, SelectInSeq
<1>2. Len(layers) \in Nat /\ I \subseteq 1..Len(layers)
  BY SeqIs
<1> HIDE DEF I
<1>3. ASSUME I # {} PROVE Min(I) \in I
  <2>1. SUFFICES \E x \in I : \A y \in I : x =< y
    BY DEF Min
  <2> SUFFICES ASSUME \A x \in I : \E y \in I : ~(x =< y) PROVE FALSE
    OBVIOUS
  <2> DEFINE S == {n \in Nat : \A m \in 0..n : m \notin I}
  <2>2. 0 \in S
    BY <1>2
  <2>3. ASSUME NEW n \in Nat, n \in S PROVE n + 1 \in S
    <3>1. ASSUME NEW m \in 0..(n + 1), m \in I PROVE FALSE
      <4>1. m = n + 1
        BY <2>3, <3>1
      <4>2. PICK y \in I : ~(m =< y)
        BY <3>1
      <4>3. y \in 0..n
        BY <1>2, <4>1, <4>2
      <4> QED
        BY <2>3, <4>3
    <3> QED
      BY <3>1
  <2>4. Nat \subseteq S
    <3> HIDE DEF S
    <3> QED
      BY <2>2, <2>3, Patching!Induction
  <2>5. PICK x : x \in I
    BY <1>3
  <2>6. x \in Nat /\ x \in 0..x
    BY <1>2, <2>5
  <2> QED
    BY <2>4, <2>5, <2>6
<1>4. CASE I = {}
  BY <1>1, <1>2, <1>4
<1>5. CASE I # {}
  <2>1. LayerAt(layers, id) = Min(I) /\ Min(I) \in 1..Len(layers)
    BY <1>1, <1>2, <1>3, <1>5
  <2>2. layers[Min(I)].id = id
    BY <1>3, <1>5 DEF I
  <2> QED
    BY <1>2, <2>1, <2>2
<1> QED
  BY <1>4, <1>5

LEMMA LayerAtIs ==
  ASSUME NEW layers, IsSeq(layers), NEW id
  PROVE  LayerAt(layers, id) \in 0..Len(layers)
BY LayerFound

\* addSource and removeSource.
LEMMA AddSourceGoes ==
  ASSUME NEW c, NEW d, SpecShape(d), NEW b, b = AddSource(c, d), b.kind = "patch"
  PROVE  PatchGoes(d, b.patch)
<1>1. ~Has(d.sources, c.id) /\ b.patch = <<Add(<<"sources", c.id>>, c.value)>>
  BY DEF AddSource, Built, Skipped
<1>2. OpGoes(d, Add(Append(<<"sources">>, c.id), c.value))
  <2>1. IsObject(With(d.sources, c.id, c.value))
    BY ObjectsAre
  <2> QED
    BY <1>1, <2>1, SourcesReach, AddGoes, Arrays
<1> QED
  BY <1>1, <1>2, Path2, GoesOne

LEMMA RemoveSourceGoes ==
  ASSUME NEW c, NEW d, SpecShape(d), NEW b, b = RemoveSource(c, d), b.kind = "patch"
  PROVE  PatchGoes(d, b.patch)
<1>1. Has(d.sources, c.id) /\ b.patch = <<Delete(<<"sources", c.id>>)>>
  BY DEF RemoveSource, Built, Failed
<1>2. OpGoes(d, Delete(Append(<<"sources">>, c.id)))
  <2>1. IsObject(Without(d.sources, c.id))
    BY ObjectsAre
  <2> QED
    BY <1>1, <2>1, SourcesReach, DeleteGoes, Arrays
<1> QED
  BY <1>1, <1>2, Path2, GoesOne

\* addLayer: before a layer or after the last.
LEMMA AddLayerGoes ==
  ASSUME NEW c, NEW d, SpecShape(d), LayerShape(c.value),
         NEW b, b = AddLayer(c, d), b.kind = "patch"
  PROVE  PatchGoes(d, b.patch)
<1>1. PICK k : k = Anchor(d.layers, c.before)
  OBVIOUS
<1>2. k # 0 /\ b.patch = <<Add(<<"layers", k>>, c.value)>>
  BY <1>1 DEF AddLayer, Built, Failed, Skipped
<1>3. k \in 1..(Len(d.layers) + 1)
  BY <1>1, <1>2, LayersReach, LayerAtIs, SeqIs DEF Anchor
<1>4. OpGoes(d, Add(Append(<<"layers">>, k), c.value))
  <2>1. LayersShape(InsertAt(d.layers, k, c.value))
    BY <1>3, LayerInserted DEF SpecShape
  <2> QED
    BY <1>3, <2>1, LayersReach, InsertGoes, Arrays
<1> QED
  BY <1>2, <1>4, Path2, GoesOne

\* removeLayer.
LEMMA RemoveLayerGoes ==
  ASSUME NEW c, NEW d, SpecShape(d), LayerAt(d.layers, c.id) # 0
  PROVE  PatchGoes(d, RemoveLayer(c, d).patch)
<1>1. PICK k : k = LayerAt(d.layers, c.id)
  OBVIOUS
<1>2. RemoveLayer(c, d).patch = <<Delete(<<"layers", k>>)>>
  BY <1>1 DEF RemoveLayer, Built
<1>3. k \in 1..Len(d.layers)
  BY <1>1, LayersReach, LayerAtIs
<1>4. OpGoes(d, Delete(Append(<<"layers">>, k)))
  <2>1. LayersShape(RemoveAt(d.layers, k))
    BY <1>3, LayerRemoved DEF SpecShape
  <2> QED
    BY <1>3, <2>1, LayersReach, RemoveGoes, Arrays
<1> QED
  BY <1>2, <1>4, Path2, GoesOne

\* setFilter puts the filter or takes it away.
LEMMA SetFilterGoes ==
  ASSUME NEW c, NEW d, SpecShape(d), LayerAt(d.layers, c.id) # 0,
         NEW b, b = SetFilter(c, d), b.kind = "patch"
  PROVE  PatchGoes(d, b.patch)
<1>1. PICK k, layer : k = LayerAt(d.layers, c.id) /\ layer = d.layers[k]
  OBVIOUS
<1>2. k \in 1..Len(d.layers)
  BY <1>1, LayersReach, LayerAtIs
<1>3. /\ Reaches(d, <<"layers", k>>, layer) /\ LayerShape(layer) /\ IsObject(layer)
      /\ \A x : LayerShape(x) => Fits(d, <<"layers", k>>, x)
  BY <1>1, <1>2, LayerReach
<1>4. <<"layers", k, "filter">> = Append(<<"layers", k>>, "filter") /\ <<"layers", k>> \notin ArrayPaths
  BY Path3, Arrays
<1>5. CASE c.value # Absent
  <2>1. b.patch = <<Put(layer, "filter", <<"layers", k, "filter">>, c.value)>>
    BY <1>1, <1>5 DEF SetFilter, Built
  <2>2. LayerShape(With(layer, "filter", c.value))
    BY <1>3 DEF LayerShape, With, IsObject, Has
  <2>3. OpGoes(d, Put(layer, "filter", Append(<<"layers", k>>, "filter"), c.value))
    BY <1>3, <1>4, <2>2, PutGoes
  <2> QED
    BY <1>4, <2>1, <2>3, GoesOne
<1>6. CASE c.value = Absent
  <2>1. Has(layer, "filter") /\ b.patch = <<Delete(<<"layers", k, "filter">>)>>
    BY <1>1, <1>6 DEF SetFilter, Built, Skipped
  <2>2. LayerShape(Without(layer, "filter"))
    BY <1>3 DEF LayerShape, Without, IsObject, Has
  <2>3. OpGoes(d, Delete(Append(<<"layers", k>>, "filter")))
    BY <1>3, <1>4, <2>1, <2>2, DeleteGoes
  <2> QED
    BY <1>4, <2>1, <2>3, GoesOne
<1> QED
  BY <1>5, <1>6

\* setLayerZoomRange: two puts, one after the other.
LEMMA SetLayerZoomRangeGoes ==
  ASSUME NEW c, NEW d, SpecShape(d), LayerAt(d.layers, c.id) # 0,
         NEW b, b = SetLayerZoomRange(c, d), b.kind = "patch"
  PROVE  PatchGoes(d, b.patch)
<1>1. PICK k, layer : k = LayerAt(d.layers, c.id) /\ layer = d.layers[k]
  OBVIOUS
<1>2. k \in 1..Len(d.layers)
  BY <1>1, LayersReach, LayerAtIs
<1>3. PICK a : a = <<"layers", k>>
  OBVIOUS
<1>4. /\ Reaches(d, a, layer) /\ LayerShape(layer) /\ IsObject(layer)
      /\ \A x : LayerShape(x) => Fits(d, a, x)
  BY <1>1, <1>2, <1>3, LayerReach
<1>5. a \notin ArrayPaths /\ \A name : <<"layers", k, name>> = Append(a, name)
  BY <1>3, Path3, Arrays
<1>6. PICK o, q, l, m, e :
        /\ o = Put(layer, "minzoom", Append(a, "minzoom"), c.minzoom)
        /\ q = Put(layer, "maxzoom", Append(a, "maxzoom"), c.maxzoom)
        /\ l = With(layer, "minzoom", c.minzoom) /\ m = With(l, "maxzoom", c.maxzoom)
        /\ e = Update(d, a, l)
  OBVIOUS
<1>7. b.patch = <<o, q>>
  BY <1>1, <1>5, <1>6 DEF SetLayerZoomRange, Built, Failed
<1>8. IsObject(l) /\ IsObject(m) /\ LayerShape(l) /\ LayerShape(m)
  BY <1>4, <1>6 DEF LayerShape, With, IsObject, Has
<1>9. OpGoes(d, o) /\ ApplyOperation(d, o) = e
  BY <1>4, <1>5, <1>6, <1>8, PutGoes
<1>10. Reaches(e, a, l) /\ Fits(e, a, m)
  BY <1>4, <1>6, <1>8, ReachAgain
<1>11. q = Put(l, "maxzoom", Append(a, "maxzoom"), c.maxzoom)
  BY <1>6 DEF Put, With, Has
<1>12. OpGoes(e, q)
  BY <1>5, <1>6, <1>8, <1>10, <1>11, PutGoes
<1> QED
  BY <1>7, <1>9, <1>12, GoesTwo

\* reorderLayer: out of its place and into another.
LEMMA ReorderLayerGoes ==
  ASSUME NEW c, NEW d, SpecShape(d), LayerAt(d.layers, c.id) # 0,
         NEW b, b = ReorderLayer(c, d), b.kind = "patch"
  PROVE  PatchGoes(d, b.patch)
<1>1. PICK from, others, to, layer :
        /\ from = LayerAt(d.layers, c.id) /\ others = RemoveAt(d.layers, from)
        /\ to = Anchor(others, c.before) /\ layer = d.layers[from]
  OBVIOUS
<1>2. to # 0 /\ b.patch = <<Delete(<<"layers", from>>), Add(<<"layers", to>>, layer)>>
  BY <1>1 DEF ReorderLayer, Built, Failed, Skipped
<1>3. PICK a : a = <<"layers">>
  OBVIOUS
<1>4. /\ Reaches(d, a, d.layers) /\ IsSeq(d.layers)
      /\ \A x : LayersShape(x) => Fits(d, a, x)
  BY <1>3, LayersReach
<1>5. a \in ArrayPaths /\ \A i : <<"layers", i>> = Append(a, i)
  BY <1>3, Path2, Arrays
<1>6. from \in 1..Len(d.layers)
  BY <1>1, <1>4, LayerAtIs
<1>7. LayersShape(d.layers) /\ LayersShape(others) /\ LayerShape(layer) /\ IsSeq(others)
  <2>1. LayersShape(d.layers) /\ DOMAIN d.layers = 1..Len(d.layers)
    BY <1>4, SeqIs DEF SpecShape
  <2>2. LayerShape(layer)
    BY <1>1, <1>6, <2>1 DEF LayersShape
  <2> QED
    BY <1>1, <1>4, <1>6, <2>1, <2>2, LayerRemoved, RemoveAtIs
<1>8. to \in 1..(Len(others) + 1)
  <2>1. Len(others) \in Nat
    BY <1>7, SeqIs
  <2>2. CASE c.before = Absent
    BY <1>1, <2>1, <2>2 DEF Anchor
  <2>3. CASE c.before # Absent
    <3>1. to \in 0..Len(others)
      BY <1>1, <1>7, <2>3, LayerAtIs DEF Anchor
    <3> QED
      BY <1>2, <2>1, <3>1
  <2> QED
    BY <2>2, <2>3
<1>9. PICK e : e = Update(d, a, others)
  OBVIOUS
<1>10. OpGoes(d, Delete(Append(a, from))) /\ ApplyOperation(d, Delete(Append(a, from))) = e
  BY <1>1, <1>4, <1>5, <1>6, <1>7, <1>9, RemoveGoes
<1>11. LayersShape(InsertAt(others, to, layer))
  BY <1>7, <1>8, LayerInserted
<1>12. Reaches(e, a, others) /\ Fits(e, a, InsertAt(others, to, layer))
  BY <1>4, <1>7, <1>9, <1>11, ReachAgain
<1>13. OpGoes(e, Add(Append(a, to), layer))
  BY <1>5, <1>7, <1>8, <1>12, InsertGoes
<1>14. b.patch = <<Delete(Append(a, from)), Add(Append(a, to), layer)>>
  <2>1. <<"layers", from>> = Append(a, from) /\ <<"layers", to>> = Append(a, to)
    BY <1>3, Path2
  <2> QED
    BY <1>2, <2>1
<1> QED
  BY <1>10, <1>13, <1>14, GoesTwo

(***************************************************************************)
(* The commands on the view, the capabilities, the interactions and the camera. *)
(***************************************************************************)
\* A member of the root, the revision left aside.
LEMMA RootFits ==
  ASSUME NEW d, SpecShape(d), NEW k, k # "revision", NEW v, SpecShape(With(d, k, v))
  PROVE  /\ Reaches(d, << >>, d) /\ IsObject(d) /\ << >> \notin ArrayPaths
         /\ Fits(d, << >>, With(d, k, v)) /\ <<k>> = Append(<< >>, k)
<1>1. SameRevision(d, With(d, k, v))
  BY DEF SameRevision, Member, With, Has
<1> QED
  BY <1>1, ReachRoot, Path1, Arrays DEF SpecShape

\* setView and fitBounds replace the view.
LEMMA SetViewGoes ==
  ASSUME NEW c, NEW d, SpecShape(d), NEW x, IsObject(x)
  PROVE  PatchGoes(d, <<Replace(<<"view">>, x)>>)
<1>1. SpecShape(With(d, "view", x)) /\ Has(d, "view")
  BY DEF SpecShape, With, IsObject, Has
<1>2. OpGoes(d, Replace(Append(<< >>, "view"), x))
  BY <1>1, RootFits, ReplaceGoes
<1> QED
  BY <1>1, <1>2, RootFits, GoesOne

\* setCapabilities and setInteractions.
LEMMA SetMemberGoes ==
  ASSUME NEW c, NEW d, SpecShape(d), c.member \in {"capabilities", "interactions"}
  PROVE  PatchGoes(d, SetMember(c, d).patch)
<1>1. PICK k, v : k = c.member /\ v = c.value
  OBVIOUS
<1>2. SpecShape(With(d, k, v)) /\ k # "revision"
  BY <1>1 DEF SpecShape, With, IsObject, Has
<1>3. OpGoes(d, Put(d, k, Append(<< >>, k), v))
  BY <1>2, RootFits, PutGoes
<1>4. SetMember(c, d).patch = <<Put(d, k, <<k>>, v)>>
  BY <1>1 DEF SetMember, Built
<1> QED
  BY <1>2, <1>3, <1>4, RootFits, GoesOne

\* setSceneCamera, with the extensions and the scene it finds or makes.
LEMMA SetSceneCameraGoes ==
  ASSUME NEW c, NEW d, SpecShape(d)
  PROVE  PatchGoes(d, SetSceneCamera(c, d).patch)
<1>1. PICK v, w : v = [camera |-> c.value] /\ w = [scene3d |-> v]
  OBVIOUS
<1>2. SceneShape(v) /\ ExtensionsShape(w)
  BY <1>1 DEF SceneShape, ExtensionsShape, IsObject, Has
<1>3. CASE ~Has(d, "extensions")
  <2>1. SetSceneCamera(c, d).patch = <<Add(<<"extensions">>, w)>>
    BY <1>1, <1>3 DEF SetSceneCamera, Built
  <2>2. SpecShape(With(d, "extensions", w))
    BY <1>2 DEF SpecShape, With, IsObject, Has
  <2>3. OpGoes(d, Add(Append(<< >>, "extensions"), w))
    BY <1>3, <2>2, RootFits, AddGoes
  <2> QED
    BY <2>1, <2>2, <2>3, RootFits, GoesOne
<1>4. CASE Has(d, "extensions") /\ ~HasScene(d)
  <2>1. SetSceneCamera(c, d).patch = <<Add(ScenePath, v)>>
    BY <1>1, <1>4 DEF SetSceneCamera, Built
  <2>2. ~Has(d.extensions, "scene3d")
    BY <1>4 DEF HasScene, Extensions, Member
  <2>3. ExtensionsShape(With(d.extensions, "scene3d", v))
    BY <1>2, <1>4 DEF SpecShape, ExtensionsShape, With, IsObject, Has
  <2>4. OpGoes(d, Add(Append(<<"extensions">>, "scene3d"), v))
    BY <1>4, <2>2, <2>3, ExtensionsReach, Arrays, AddGoes
  <2>5. ScenePath = Append(<<"extensions">>, "scene3d")
    BY Path2 DEF ScenePath
  <2> QED
    BY <2>1, <2>4, <2>5, GoesOne
<1>5. CASE Has(d, "extensions") /\ HasScene(d)
  <2>1. SetSceneCamera(c, d).patch =
          <<Put(Scene(d), "camera", Append(ScenePath, "camera"), c.value)>>
    BY <1>5 DEF SetSceneCamera, Built
  <2>2. SceneShape(With(Scene(d), "camera", c.value))
    BY <1>5, SceneIs DEF SceneShape, With, IsObject, Has
  <2>3. OpGoes(d, Put(Scene(d), "camera", Append(ScenePath, "camera"), c.value))
    BY <1>5, <2>2, SceneReach, Arrays, PutGoes
  <2> QED
    BY <2>1, <2>3, GoesOne
<1> QED
  BY <1>3, <1>4, <1>5

\* What is in the scene of a MapSpec is there because it has a scene.
LEMMA SceneMembers ==
  ASSUME NEW d
  PROVE  /\ \A n : Has(SceneSources(d), n) =>
                     HasScene(d) /\ Has(Scene(d), "sources") /\ SceneSources(d) = Scene(d).sources
         /\ \A i : LayerAt(SceneLayers(d), i) # 0 =>
                     HasScene(d) /\ Has(Scene(d), "layers") /\ SceneLayers(d) = Scene(d).layers
<1>1. \A n : ~Has(<< >>, n)
  BY DEF Has
<1>2. \A i : LayerAt(<< >>, i) = 0
  <2>1. PICK e : e = << >>
    OBVIOUS
  <2>2. IsSeq(e) /\ Len(e) = 0
    BY <2>1, Path0
  <2>3. \A i : LayerAt(e, i) \in 0..Len(e)
    BY <2>2, LayerAtIs
  <2> QED
    BY <2>1, <2>2, <2>3
<1>3. ~HasScene(d) => Scene(d) = << >>
  BY DEF HasScene, Scene, Member
<1>4. ~Has(Scene(d), "sources") => SceneSources(d) = << >>
  BY DEF SceneSources, Member
<1>5. ~Has(Scene(d), "layers") => SceneLayers(d) = << >>
  BY DEF SceneLayers, Member
<1>6. Has(Scene(d), "sources") => SceneSources(d) = Scene(d).sources
  BY DEF SceneSources, Member
<1>7. Has(Scene(d), "layers") => SceneLayers(d) = Scene(d).layers
  BY DEF SceneLayers, Member
<1> QED
  BY <1>1, <1>2, <1>3, <1>4, <1>5, <1>6, <1>7, Zenon

(***************************************************************************)
(* The commands on the scene.                                              *)
(***************************************************************************)
\* addSceneSource.
LEMMA AddSceneSourceGoes ==
  ASSUME NEW c, NEW d, SpecShape(d), NEW b, b = AddSceneSource(c, d), b.kind = "patch"
  PROVE  PatchGoes(d, b.patch)
<1>1. HasScene(d) /\ ~Has(SceneSources(d), c.id)
  BY DEF AddSceneSource, Failed, Skipped
<1>2. SceneShape(Scene(d)) /\ Reaches(d, ScenePath, Scene(d)) /\ IsObject(Scene(d))
  BY <1>1, SceneIs, SceneReach
<1>3. PICK a : a = Append(ScenePath, "sources")
  OBVIOUS
<1>4. CASE ~Has(Scene(d), "sources")
  <2>1. PICK x : x = With(<< >>, c.id, c.value)
    OBVIOUS
  <2>2. b.patch = <<Add(Append(ScenePath, "sources"), x)>>
    BY <1>1, <1>4, <2>1 DEF AddSceneSource, Built
  <2>3. SceneShape(With(Scene(d), "sources", x))
    <3>1. IsObject(x)
      BY <2>1, ObjectsAre
    <3> QED
      BY <1>2, <3>1 DEF SceneShape, With, IsObject, Has
  <2>4. OpGoes(d, Add(Append(ScenePath, "sources"), x))
    BY <1>1, <1>2, <1>4, <2>3, SceneReach, Arrays, AddGoes
  <2> QED
    BY <2>2, <2>4, GoesOne
<1>5. CASE Has(Scene(d), "sources")
  <2>1. ~Has(Scene(d).sources, c.id)
    BY <1>1, <1>5 DEF SceneSources, Member
  <2>2. b.patch = <<Add(ScenePath \o <<"sources", c.id>>, c.value)>>
    BY <1>1, <1>5 DEF AddSceneSource, Built
  <2>3. /\ Reaches(d, a, Scene(d).sources) /\ IsObject(Scene(d).sources)
        /\ \A x : IsObject(x) => Fits(d, a, x)
    BY <1>1, <1>3, <1>5, SceneSourcesReach
  <2>4. OpGoes(d, Add(Append(a, c.id), c.value))
    BY <1>3, <2>1, <2>3, ObjectsAre, Arrays, AddGoes
  <2>5. ScenePath \o <<"sources", c.id>> = Append(a, c.id)
    BY <1>3, ScenePaths
  <2> QED
    BY <2>2, <2>4, <2>5, GoesOne
<1> QED
  BY <1>4, <1>5

\* removeSceneSource.
LEMMA RemoveSceneSourceGoes ==
  ASSUME NEW c, NEW d, SpecShape(d), NEW b, b = RemoveSceneSource(c, d), b.kind = "patch"
  PROVE  PatchGoes(d, b.patch)
<1>1. Has(SceneSources(d), c.id) /\ b.patch = <<Delete(ScenePath \o <<"sources", c.id>>)>>
  BY DEF RemoveSceneSource, Failed, Built
<1>2. HasScene(d) /\ Has(Scene(d), "sources") /\ Has(Scene(d).sources, c.id)
  BY <1>1, SceneMembers
<1>3. PICK a : a = Append(ScenePath, "sources")
  OBVIOUS
<1>4. /\ Reaches(d, a, Scene(d).sources) /\ IsObject(Scene(d).sources)
      /\ \A x : IsObject(x) => Fits(d, a, x)
  BY <1>2, <1>3, SceneSourcesReach
<1>5. OpGoes(d, Delete(Append(a, c.id)))
  BY <1>2, <1>3, <1>4, ObjectsAre, Arrays, DeleteGoes
<1>6. ScenePath \o <<"sources", c.id>> = Append(a, c.id)
  BY <1>3, ScenePaths
<1> QED
  BY <1>1, <1>5, <1>6, GoesOne

\* addSceneLayer.
LEMMA AddSceneLayerGoes ==
  ASSUME NEW c, NEW d, SpecShape(d), LayerShape(c.value),
         NEW b, b = AddSceneLayer(c, d), b.kind = "patch"
  PROVE  PatchGoes(d, b.patch)
<1>1. HasScene(d)
  BY DEF AddSceneLayer, Failed, Skipped
<1>2. SceneShape(Scene(d)) /\ Reaches(d, ScenePath, Scene(d)) /\ IsObject(Scene(d))
  BY <1>1, SceneIs, SceneReach
<1>3. PICK a : a = Append(ScenePath, "layers")
  OBVIOUS
<1>4. CASE ~Has(Scene(d), "layers")
  <2>1. PICK x, y : y = c.value /\ x = <<y>>
    OBVIOUS
  <2>2. b.patch = <<Add(Append(ScenePath, "layers"), x)>>
    BY <1>1, <1>4, <2>1 DEF AddSceneLayer, Built, Failed, Skipped
  <2>3. LayersShape(x)
    <3>1. IsArray(x)
      BY <2>1, Path1, SeqIs DEF IsArray
    <3>2. DOMAIN x = {1} /\ x[1] = y
      BY <2>1
    <3> QED
      BY <2>1, <3>1, <3>2 DEF LayersShape
  <2>4. SceneShape(With(Scene(d), "layers", x))
    BY <1>2, <2>3 DEF SceneShape, With, IsObject, Has
  <2>5. OpGoes(d, Add(Append(ScenePath, "layers"), x))
    BY <1>1, <1>2, <1>4, <2>4, SceneReach, Arrays, AddGoes
  <2> QED
    BY <2>2, <2>5, GoesOne
<1>5. CASE Has(Scene(d), "layers")
  <2>1. PICK k : k = Len(Scene(d).layers) + 1
    OBVIOUS
  <2>2. SceneLayers(d) = Scene(d).layers
    BY <1>5 DEF SceneLayers, Member
  <2>3. b.patch = <<Add(ScenePath \o <<"layers", k>>, c.value)>>
    BY <1>1, <1>5, <2>1, <2>2 DEF AddSceneLayer, Built, Failed, Skipped
  <2>4. /\ Reaches(d, a, Scene(d).layers) /\ LayersShape(Scene(d).layers)
        /\ IsSeq(Scene(d).layers) /\ \A x : LayersShape(x) => Fits(d, a, x)
    BY <1>1, <1>3, <1>5, SceneLayersReach
  <2>5. k \in 1..(Len(Scene(d).layers) + 1)
    BY <2>1, <2>4, SeqIs
  <2>6. LayersShape(InsertAt(Scene(d).layers, k, c.value))
    BY <2>4, <2>5, LayerInserted
  <2>7. OpGoes(d, Add(Append(a, k), c.value))
    BY <1>3, <2>4, <2>5, <2>6, Arrays, InsertGoes
  <2>8. ScenePath \o <<"layers", k>> = Append(a, k)
    BY <1>3, ScenePaths
  <2> QED
    BY <2>3, <2>7, <2>8, GoesOne
<1> QED
  BY <1>4, <1>5

\* removeSceneLayer.
LEMMA RemoveSceneLayerGoes ==
  ASSUME NEW c, NEW d, SpecShape(d), NEW b, b = RemoveSceneLayer(c, d), b.kind = "patch"
  PROVE  PatchGoes(d, b.patch)
<1>1. PICK k : k = LayerAt(SceneLayers(d), c.id)
  OBVIOUS
<1>2. k # 0 /\ b.patch = <<Delete(ScenePath \o <<"layers", k>>)>>
  BY <1>1 DEF RemoveSceneLayer, Failed, Built
<1>3. HasScene(d) /\ Has(Scene(d), "layers") /\ SceneLayers(d) = Scene(d).layers
  BY <1>1, <1>2, SceneMembers
<1>4. PICK a : a = Append(ScenePath, "layers")
  OBVIOUS
<1>5. /\ Reaches(d, a, Scene(d).layers) /\ LayersShape(Scene(d).layers)
      /\ IsSeq(Scene(d).layers) /\ \A x : LayersShape(x) => Fits(d, a, x)
  BY <1>3, <1>4, SceneLayersReach
<1>6. k \in 1..Len(Scene(d).layers)
  BY <1>1, <1>2, <1>3, <1>5, LayerAtIs
<1>7. LayersShape(RemoveAt(Scene(d).layers, k))
  BY <1>5, <1>6, LayerRemoved
<1>8. OpGoes(d, Delete(Append(a, k)))
  BY <1>4, <1>5, <1>6, <1>7, Arrays, RemoveGoes
<1>9. ScenePath \o <<"layers", k>> = Append(a, k)
  BY <1>4, ScenePaths
<1> QED
  BY <1>2, <1>8, <1>9, GoesOne

\* setSceneLayerVisibility.
LEMMA SetSceneLayerVisibilityGoes ==
  ASSUME NEW c, NEW d, SpecShape(d), NEW b, b = SetSceneLayerVisibility(c, d), b.kind = "patch"
  PROVE  PatchGoes(d, b.patch)
<1>1. PICK k : k = LayerAt(SceneLayers(d), c.id)
  OBVIOUS
<1>2. k # 0 /\ b.patch = <<Put(SceneLayers(d)[k], "visible",
                               ScenePath \o <<"layers", k, "visible">>, c.value)>>
  BY <1>1 DEF SetSceneLayerVisibility, Failed, Built
<1>3. HasScene(d) /\ Has(Scene(d), "layers") /\ SceneLayers(d) = Scene(d).layers
  BY <1>1, <1>2, SceneMembers
<1>4. k \in 1..Len(Scene(d).layers)
  BY <1>1, <1>2, <1>3, SceneLayersReach, LayerAtIs
<1>5. PICK a, layer : a = Append(Append(ScenePath, "layers"), k) /\ layer = Scene(d).layers[k]
  OBVIOUS
<1>6. /\ Reaches(d, a, layer) /\ LayerShape(layer) /\ IsObject(layer)
      /\ \A x : LayerShape(x) => Fits(d, a, x)
  BY <1>3, <1>4, <1>5, SceneLayerReach
<1>7. LayerShape(With(layer, "visible", c.value))
  BY <1>6 DEF LayerShape, With, IsObject, Has
<1>8. OpGoes(d, Put(layer, "visible", Append(a, "visible"), c.value))
  BY <1>5, <1>6, <1>7, Arrays, PutGoes
<1>9. ScenePath \o <<"layers", k, "visible">> = Append(a, "visible")
  BY <1>5, ScenePaths
<1> QED
  BY <1>2, <1>3, <1>5, <1>8, <1>9, GoesOne

(***************************************************************************)
(* patchRecordMerge.                                                       *)
(***************************************************************************)
\* SetToSeq lists the names of a finite set, each once.
LEMMA NamesInOrder ==
  ASSUME NEW S, IsFiniteSet(S), NEW f, f = SetToSeq(S)
  PROVE  /\ IsSeq(f) /\ \A i \in DOMAIN f : f[i] \in S
         /\ \A i, j \in DOMAIN f : f[i] = f[j] => i = j
<1>1. Cardinality(S) \in Nat /\ ExistsBijection(1..Cardinality(S), S)
  BY FS_CardinalityType
<1>2. PICK g : g \in [1..Cardinality(S) -> S] /\ IsInjective(g)
  BY <1>1 DEF ExistsBijection, Bijection, Injection
<1>3. f \in [1..Cardinality(S) -> S] /\ IsInjective(f)
  BY <1>2, Zenon DEF SetToSeq
<1>4. IsSeq(f)
  <2>1. DOMAIN f = 1..Cardinality(S) /\ IsObject(f)
    BY <1>3 DEF IsObject
  <2> QED
    BY <1>1, <2>1, ArrayIs
<1> QED
  BY <1>3, <1>4 DEF IsInjective

\* A patch up to an operation, and what it has made of an object: the names whose
\* turn has not come are as they were.
First(p, k) == [i \in 1..k |-> p[i]]

Merged(d, a, G, names, p, k, x) ==
    /\ ApplyJsonPatch(d, First(p, k)) = Update(d, a, x)
    /\ IsObject(x)
    /\ \A j \in 1..Len(names) : j > k => (Has(x, names[j]) <=> Has(G, names[j]))

\* A member of an object is put, one name after the other.
LEMMA MergeGoes ==
  ASSUME NEW d, SpecShape(d), NEW a, a \notin ArrayPaths, NEW G, Reaches(d, a, G), IsObject(G),
         \A x : IsObject(x) => Fits(d, a, x),
         NEW names, IsSeq(names), \A i, j \in DOMAIN names : names[i] = names[j] => i = j,
         NEW value,
         NEW p, p = [i \in DOMAIN names |->
                       Put(G, names[i], Append(a, names[i]), value[names[i]])]
  PROVE  PatchGoes(d, p)
<1> DEFINE S == {k \in Nat : k <= Len(names) => /\ PatchGoes(d, First(p, k))
                                               /\ \E x : Merged(d, a, G, names, p, k, x)}
<1>1. Len(names) \in Nat /\ DOMAIN names = 1..Len(names) /\ IsSeq(a)
  BY SeqIs DEF Reaches
<1>2. 0 \in S
  <2>1. First(p, 0) = << >>
    BY DEF First
  <2>2. PatchGoes(d, First(p, 0)) /\ ApplyJsonPatch(d, First(p, 0)) = d
    BY <2>1, GoesNowhere, PatchEmpty
  <2>3. d = Update(d, a, G)
    BY DEF Reaches, Restorable
  <2>4. Merged(d, a, G, names, p, 0, G)
    BY <2>2, <2>3 DEF Merged
  <2> QED
    BY <2>2, <2>4
<1>3. ASSUME NEW k \in Nat, k \in S PROVE k + 1 \in S
  <2> SUFFICES ASSUME k + 1 <= Len(names)
               PROVE  PatchGoes(d, First(p, k + 1)) /\ \E x : Merged(d, a, G, names, p, k + 1, x)
    OBVIOUS
  <2>1. PatchGoes(d, First(p, k)) /\ \E x : Merged(d, a, G, names, p, k, x)
    BY <1>1, <1>3
  <2>2. PICK x : Merged(d, a, G, names, p, k, x)
    BY <2>1
  <2>3. PICK e, n, v, o, y : /\ e = Update(d, a, x) /\ n = names[k + 1] /\ v = value[n]
                             /\ o = Put(x, n, Append(a, n), v) /\ y = With(x, n, v)
    OBVIOUS
  <2>4. k + 1 \in 1..Len(names)
    BY <1>1
  <2>5. p[k + 1] = o
    <3>1. p[k + 1] = Put(G, n, Append(a, n), v)
      BY <1>1, <2>3, <2>4
    <3>2. Has(x, n) <=> Has(G, n)
      BY <1>1, <2>2, <2>3, <2>4 DEF Merged
    <3> QED
      BY <2>3, <3>1, <3>2 DEF Put
  <2>6. IsObject(y) /\ Fits(d, a, x) /\ Fits(d, a, y)
    BY <2>2, <2>3, ObjectsAre DEF Merged
  <2>7. Reaches(e, a, x) /\ Fits(e, a, y) /\ Update(e, a, y) = Update(d, a, y)
    BY <2>3, <2>6, ReachAgain
  <2>8. OpGoes(e, o) /\ ApplyOperation(e, o) = Update(d, a, y)
    BY <2>2, <2>3, <2>7, PutGoes DEF Merged
  <2>9. First(p, k + 1) = Append(First(p, k), o)
    <3> DEFINE s == First(p, k)
               t == First(p, k + 1)
    <3>1. DOMAIN s = 1..k /\ IsObject(s) /\ DOMAIN t = 1..(k + 1) /\ IsObject(t)
      BY DEF First, IsObject
    <3>2. \A i \in 1..k : t[i] = s[i]
      BY DEF First
    <3>3. t[k + 1] = o
      BY <2>5 DEF First
    <3> HIDE DEF s, t
    <3>4. IsSeq(s) /\ Len(s) = k /\ IsSeq(t) /\ Len(t) = k + 1
      BY <3>1, ArrayIs
    <3>5. t = Append(s, o)
      BY <3>2, <3>3, <3>4, AppendOf
    <3> QED
      BY <3>5 DEF s, t
  <2>10. PatchGoes(d, First(p, k + 1))
    <3>1. ApplyJsonPatch(d, First(p, k)) = e
      BY <2>2, <2>3 DEF Merged
    <3> QED
      BY <2>1, <2>8, <2>9, <3>1, GoesOn
  <2>11. ApplyJsonPatch(d, First(p, k + 1)) = Update(d, a, y)
    <3>1. ApplyJsonPatch(d, First(p, k)) = e
      BY <2>2, <2>3 DEF Merged
    <3>2. IsSeq(First(p, k))
      BY <2>1 DEF PatchGoes, PatchUndone
    <3>3. PICK q : q = First(p, k)
      OBVIOUS
    <3>4. ApplyJsonPatch(d, Append(q, o)) = ApplyOperation(ApplyJsonPatch(d, q), o)
      BY <3>2, <3>3, PatchAppend
    <3> QED
      BY <2>8, <2>9, <3>1, <3>3, <3>4, Zenon
  <2>12. ASSUME NEW j \in 1..Len(names), j > k + 1 PROVE Has(y, names[j]) <=> Has(G, names[j])
    <3>1. Has(x, names[j]) <=> Has(G, names[j])
      BY <1>1, <2>2, <2>12 DEF Merged
    <3>2. names[j] # n
      BY <1>1, <2>3, <2>4, <2>12
    <3> QED
      BY <2>3, <3>1, <3>2 DEF Has, With
  <2>13. Merged(d, a, G, names, p, k + 1, y)
    BY <2>6, <2>11, <2>12 DEF Merged
  <2> QED
    BY <2>10, <2>13
<1>4. Nat \subseteq S
  <2> HIDE DEF S
  <2> QED
    BY <1>2, <1>3, Patching!Induction
<1>5. PatchGoes(d, First(p, Len(names)))
  BY <1>1, <1>4
<1>6. p = First(p, Len(names))
  BY <1>1 DEF First
<1> QED
  BY <1>5, <1>6

\* setPaint and setLayout.
LEMMA PatchRecordMergeGoes ==
  ASSUME NEW c, NEW d, SpecShape(d), LayerAt(d.layers, c.id) # 0,
         c.member \in {"paint", "layout"}, IsObject(c.value), IsFiniteSet(DOMAIN c.value)
  PROVE  PatchGoes(d, PatchRecordMerge(c, d).patch)
<1>1. PICK k, layer, m : k = LayerAt(d.layers, c.id) /\ layer = d.layers[k] /\ m = c.member
  OBVIOUS
<1>2. k \in 1..Len(d.layers)
  BY <1>1, LayersReach, LayerAtIs
<1>3. PICK a : a = <<"layers", k, m>>
  OBVIOUS
<1>4. CASE ~Has(layer, m)
  <2>1. /\ Reaches(d, <<"layers", k>>, layer) /\ LayerShape(layer) /\ IsObject(layer)
        /\ \A x : LayerShape(x) => Fits(d, <<"layers", k>>, x)
    BY <1>1, <1>2, LayerReach
  <2>2. PatchRecordMerge(c, d).patch = <<Add(a, c.value)>>
    BY <1>1, <1>3, <1>4 DEF PatchRecordMerge, Built
  <2>3. LayerShape(With(layer, m, c.value))
    BY <1>1, <2>1 DEF LayerShape, With, IsObject, Has
  <2>4. OpGoes(d, Add(Append(<<"layers", k>>, m), c.value))
    BY <1>4, <2>1, <2>3, Arrays, AddGoes
  <2>5. a = Append(<<"layers", k>>, m)
    BY <1>3, Path3
  <2> QED
    BY <2>2, <2>4, <2>5, GoesOne
<1>5. CASE Has(layer, m)
  <2>1. PICK names : names = SetToSeq(DOMAIN c.value)
    OBVIOUS
  <2>2. PICK p : p = [i \in DOMAIN names |->
                        Put(layer[m], names[i], Append(a, names[i]), c.value[names[i]])]
    OBVIOUS
  <2>3. PatchRecordMerge(c, d).patch = p
    BY <1>1, <1>3, <1>5, <2>1, <2>2 DEF PatchRecordMerge, Built
  <2>4. IsSeq(names) /\ \A i, j \in DOMAIN names : names[i] = names[j] => i = j
    BY <2>1, NamesInOrder
  <2>5. /\ Reaches(d, a, layer[m]) /\ IsObject(layer[m])
        /\ \A x : IsObject(x) => Fits(d, a, x)
    BY <1>1, <1>2, <1>3, <1>5, StyleReach
  <2>6. a \notin ArrayPaths
    BY <1>3, Arrays
  <2> QED
    BY <2>2, <2>3, <2>4, <2>5, <2>6, MergeGoes
<1> QED
  BY <1>4, <1>5

(***************************************************************************)
(* Every command.                                                          *)
(***************************************************************************)
\* The commands on a layer that is there.
LEMMA LayerCommandGoes ==
  ASSUME NEW c, CommandShape(c), NEW d, SpecShape(d),
         c.type \in {"removeLayer", "setPaint", "setLayout", "setFilter",
                     "setLayerZoomRange", "reorderLayer"},
         NEW b, b = LayerCommand(c, d), b.kind = "patch"
  PROVE  PatchGoes(d, b.patch)
<1>1. LayerAt(d.layers, c.id) # 0
  BY DEF LayerCommand, Failed
<1>2. CASE c.type = "removeLayer"
  BY <1>1, <1>2, RemoveLayerGoes DEF LayerCommand
<1>3. CASE c.type \in {"setPaint", "setLayout"}
  <2>1. c.member \in {"paint", "layout"} /\ IsObject(c.value) /\ IsFiniteSet(DOMAIN c.value)
    BY <1>3 DEF CommandShape
  <2>2. b = PatchRecordMerge(c, d)
    BY <1>1, <1>3 DEF LayerCommand
  <2> QED
    BY <1>1, <2>1, <2>2, PatchRecordMergeGoes
<1>4. CASE c.type = "setFilter"
  BY <1>1, <1>4, SetFilterGoes DEF LayerCommand
<1>5. CASE c.type = "setLayerZoomRange"
  BY <1>1, <1>5, SetLayerZoomRangeGoes DEF LayerCommand
<1>6. CASE c.type = "reorderLayer"
  BY <1>1, <1>6, ReorderLayerGoes DEF LayerCommand
<1> QED
  BY <1>2, <1>3, <1>4, <1>5, <1>6

\* Whatever patch a command is turned into, none of its operations throws, its
\* inverse takes it back, and it leaves the spec a spec with the revision it had.
LEMMA CommandGoes ==
  ASSUME NEW c, CommandShape(c), NEW d, SpecShape(d), BuildPatch(c, d).kind = "patch"
  PROVE  PatchGoes(d, BuildPatch(c, d).patch)
<1>1. PICK b : b = BuildPatch(c, d)
  OBVIOUS
<1>2. b.kind = "patch"
  BY <1>1
<1> SUFFICES PatchGoes(d, b.patch)
  BY <1>1
<1>3. CASE c.type = "addSource"
  BY <1>1, <1>2, <1>3, AddSourceGoes DEF BuildPatch
<1>4. CASE c.type = "removeSource"
  BY <1>1, <1>2, <1>4, RemoveSourceGoes DEF BuildPatch
<1>5. CASE c.type = "addLayer"
  <2>1. LayerShape(c.value)
    BY <1>5 DEF CommandShape
  <2> QED
    BY <1>1, <1>2, <1>5, <2>1, AddLayerGoes DEF BuildPatch
<1>6. CASE c.type \in {"removeLayer", "setPaint", "setLayout", "setFilter",
                       "setLayerZoomRange", "reorderLayer"}
  BY <1>1, <1>2, <1>6, LayerCommandGoes DEF BuildPatch
<1>7. CASE c.type \in {"setView", "fitBounds"}
  <2>1. PICK x : /\ c.type = "setView" => x = Merge(c.value, d.view)
                 /\ c.type = "fitBounds" =>
                      x = With(Only(d.view, {"mode", "bearing", "pitch"}), "bounds", c.value)
    BY <1>7
  <2>2. b.patch = <<Replace(<<"view">>, x)>>
    <3>1. CASE c.type = "setView"
      BY <1>1, <2>1, <3>1 DEF BuildPatch, SetView, Built
    <3>2. CASE c.type = "fitBounds"
      BY <1>1, <2>1, <3>2 DEF BuildPatch, FitBounds, Built
    <3> QED
      BY <1>7, <3>1, <3>2
  <2>3. IsObject(x)
    <3>1. IsObject(Merge(c.value, d.view)) /\ \A f, n, v : IsObject(With(f, n, v))
      BY ObjectsAre
    <3> QED
      BY <1>7, <2>1, <3>1
  <2> QED
    BY <2>2, <2>3, SetViewGoes
<1>8. CASE c.type \in {"setCapabilities", "setInteractions"}
  <2>1. c.member \in {"capabilities", "interactions"}
    BY <1>8 DEF CommandShape
  <2>2. b = SetMember(c, d)
    BY <1>1, <1>8 DEF BuildPatch
  <2> QED
    BY <2>1, <2>2, SetMemberGoes
<1>9. CASE c.type = "setSceneCamera"
  BY <1>1, <1>9, SetSceneCameraGoes DEF BuildPatch
<1>10. CASE c.type = "addSceneSource"
  BY <1>1, <1>2, <1>10, AddSceneSourceGoes DEF BuildPatch
<1>11. CASE c.type = "removeSceneSource"
  BY <1>1, <1>2, <1>11, RemoveSceneSourceGoes DEF BuildPatch
<1>12. CASE c.type = "addSceneLayer"
  <2>1. LayerShape(c.value)
    BY <1>12 DEF CommandShape
  <2> QED
    BY <1>1, <1>2, <1>12, <2>1, AddSceneLayerGoes DEF BuildPatch
<1>13. CASE c.type = "removeSceneLayer"
  BY <1>1, <1>2, <1>13, RemoveSceneLayerGoes DEF BuildPatch
<1>14. CASE c.type = "setSceneLayerVisibility"
  BY <1>1, <1>2, <1>14, SetSceneLayerVisibilityGoes DEF BuildPatch
<1>15. CASE c.type \notin {"addSource", "removeSource", "addLayer", "removeLayer", "setPaint",
                           "setLayout", "setFilter", "setLayerZoomRange", "reorderLayer",
                           "setView", "fitBounds", "setCapabilities", "setInteractions",
                           "setSceneCamera", "addSceneSource", "removeSceneSource",
                           "addSceneLayer", "removeSceneLayer", "setSceneLayerVisibility"}
  BY <1>1, <1>2, <1>15 DEF BuildPatch, Failed
<1> QED
  BY <1>3, <1>4, <1>5, <1>6, <1>7, <1>8, <1>9, <1>10, <1>11, <1>12, <1>13, <1>14, <1>15

\* What an applied command did: its patch and the one that takes it back.
WholeGoes(d, p) ==
    /\ IsSeq(WholePatch(p, d))
    /\ ApplyJsonPatch(d, WholePatch(p, d)) = WithNextRevision(ApplyJsonPatch(d, p))
    /\ SpecShape(WithNextRevision(ApplyJsonPatch(d, p)))
    /\ Revision(WithNextRevision(ApplyJsonPatch(d, p))) = NextRevision(d)
    /\ Undoable(WithNextRevision(ApplyJsonPatch(d, p)), InvertPatch(d, WholePatch(p, d)))
         = [ok |-> TRUE, document |-> d]

\* A patch with the operation that counts the revision up.
LEMMA RevisionGoes ==
  ASSUME NEW d, SpecShape(d), NEW p, PatchGoes(d, p)
  PROVE  WholeGoes(d, p)
<1>1. PICK e, n, o, f : /\ e = ApplyJsonPatch(d, p) /\ n = NextRevision(d)
                        /\ o = Put(d, "revision", <<"revision">>, n)
                        /\ f = With(e, "revision", n)
  OBVIOUS
<1>2. SpecShape(e) /\ IsObject(e) /\ SameRevision(d, e)
  BY <1>1 DEF PatchGoes, SpecShape
<1>3. NextRevision(e) = n /\ (Has(e, "revision") <=> Has(d, "revision"))
  BY <1>1, <1>2 DEF SameRevision, NextRevision
<1>4. f = WithNextRevision(e) /\ Revision(f) = n
  BY <1>1, <1>3 DEF WithNextRevision, Revision, Member, With, Has
<1>5. SpecShape(f)
  BY <1>1, <1>2 DEF SpecShape, With, IsObject, Has
<1>6. Undoes(e, o) /\ ApplyOperation(e, o) = f
  <2>1. Reaches(e, << >>, e) /\ << >> \notin ArrayPaths /\ <<"revision">> = Append(<< >>, "revision")
    BY ReachRoot, Path1, Arrays
  <2>2. PICK r : r = << >>
    OBVIOUS
  <2>3. At(o, r, "revision") /\ o.op \in {"add", "replace"}
        /\ (o.op = "add" <=> ~Has(e, "revision")) /\ o.value = n
    BY <1>1, <1>3, <2>1, <2>2, Path0 DEF At, Put, Add, Replace
  <2>4. Restorable(e, r) /\ GetAtPath(e, r) = e
    BY <2>1, <2>2 DEF Reaches
  <2>5. Undoes(e, o) /\ ApplyOperation(e, o) = Update(e, r, ObjectOperation(e, "revision", o))
    BY <1>2, <2>1, <2>2, <2>3, <2>4, ObjectUndone
  <2>6. ObjectOperation(e, "revision", o) = f
    BY <1>1, <2>3 DEF ObjectOperation
  <2> QED
    BY <2>2, <2>5, <2>6, UpdateEmpty
<1>7. PICK q : q = Append(p, o)
  OBVIOUS
<1>8. q = WholePatch(p, d)
  BY <1>1, <1>7 DEF WholePatch
<1>9. PatchUndone(d, q)
  BY <1>1, <1>6, <1>7, AppendUndone DEF PatchGoes
<1>10. ApplyJsonPatch(d, q) = f
  <2>1. IsSeq(p)
    BY DEF PatchGoes, PatchUndone
  <2>2. ApplyJsonPatch(d, Append(p, o)) = ApplyOperation(e, o)
    BY <1>1, <2>1, PatchAppend
  <2> QED
    BY <1>6, <1>7, <2>2
<1>11. IsSeq(q) /\ Undoable(f, InvertPatch(d, q)) = [ok |-> TRUE, document |-> d]
  BY <1>9, <1>10 DEF PatchUndone
<1> QED
  BY <1>1, <1>4, <1>5, <1>8, <1>10, <1>11 DEF WholeGoes

(***************************************************************************)
(* The log of a batch: the results that changed the spec it works on.      *)
(***************************************************************************)

\* What the folds of Effective, EffectivePatch and UndoRestores do at each step.
KeepOp(context, all, r) == IF r.status = "applied" /\ ~r.dryRun THEN Append(all, r) ELSE all
JoinOp(context, all, r) == all \o r.patch
RewindOp(context, r, acc) == IF acc.ok THEN Undoable(acc.document, r.inverse) ELSE acc

Keeping == INSTANCE FoldTheorems WITH Op <- KeepOp
Joining == INSTANCE FoldTheorems WITH Op <- JoinOp
Rewinding == INSTANCE FoldTheorems WITH Op <- RewindOp

\* The log of some results, the patch of a log, and what its inverses lead to.
Kept(all) == Keeping!LeftFold(0, << >>, all)
PatchOf(log) == Joining!LeftFold(0, << >>, log)
Rewound(d, log) == Rewinding!RightFold(0, log, [ok |-> TRUE, document |-> d])

\* Each of them, one result at a time.
LEMMA KeptEmpty == Kept(<< >>) = << >>
<1>1. DOMAIN << >> = {}
  OBVIOUS
<1> QED
  BY <1>1, Keeping!LeftFoldEmpty DEF Kept

LEMMA KeptAppend ==
  ASSUME NEW all, IsSeq(all), NEW r
  PROVE  Kept(Append(all, r)) = KeepOp(0, Kept(all), r)
<1>1. PICK n, u : n = Len(all) /\ u = Append(all, r)
  OBVIOUS
<1>2. /\ n \in Nat /\ DOMAIN all = 1..n
      /\ DOMAIN u = 1..(n + 1) /\ u[n + 1] = r /\ \A i \in 1..n : u[i] = all[i]
  BY <1>1, SeqIs, AppendIs
<1>3. Keeping!LeftFold(0, << >>, u) = KeepOp(0, Keeping!LeftFold(0, << >>, all), u[n + 1])
  BY <1>2, Keeping!LeftFoldLast
<1> QED
  BY <1>1, <1>2, <1>3 DEF Kept

LEMMA PatchOfEmpty == PatchOf(<< >>) = << >>
<1>1. DOMAIN << >> = {}
  OBVIOUS
<1> QED
  BY <1>1, Joining!LeftFoldEmpty DEF PatchOf

LEMMA PatchOfAppend ==
  ASSUME NEW log, IsSeq(log), NEW r
  PROVE  PatchOf(Append(log, r)) = PatchOf(log) \o r.patch
<1>1. PICK n, u : n = Len(log) /\ u = Append(log, r)
  OBVIOUS
<1>2. /\ n \in Nat /\ DOMAIN log = 1..n
      /\ DOMAIN u = 1..(n + 1) /\ u[n + 1] = r /\ \A i \in 1..n : u[i] = log[i]
  BY <1>1, SeqIs, AppendIs
<1>3. Joining!LeftFold(0, << >>, u) = JoinOp(0, Joining!LeftFold(0, << >>, log), u[n + 1])
  BY <1>2, Joining!LeftFoldLast
<1> QED
  BY <1>1, <1>2, <1>3 DEF PatchOf, JoinOp

LEMMA RewoundEmpty ==
  ASSUME NEW d
  PROVE  Rewound(d, << >>) = [ok |-> TRUE, document |-> d]
<1>1. PICK s, x : s = << >> /\ x = [ok |-> TRUE, document |-> d]
  OBVIOUS
<1>2. PICK f : f = [i \in {1} |-> x]
  OBVIOUS
<1>3. DOMAIN s = 1..0
  BY <1>1
<1>4. Rewinding!RightSteps(0, x, s, 0, f)
  BY <1>2 DEF Rewinding!RightSteps
<1>5. Rewinding!RightFold(0, s, x) = f[1]
  BY <1>3, <1>4, Rewinding!RightFoldIs
<1> QED
  BY <1>1, <1>2, <1>5 DEF Rewound

LEMMA RewoundAppend ==
  ASSUME NEW d, NEW e, NEW log, IsSeq(log), NEW r,
         Undoable(d, r.inverse) = [ok |-> TRUE, document |-> e]
  PROVE  Rewound(d, Append(log, r)) = Rewound(e, log)
<1>1. PICK n, u, x : n = Len(log) /\ u = Append(log, r) /\ x = [ok |-> TRUE, document |-> d]
  OBVIOUS
<1>2. /\ n \in Nat /\ DOMAIN log = 1..n
      /\ DOMAIN u = 1..(n + 1) /\ u[n + 1] = r /\ \A i \in 1..n : u[i] = log[i]
  BY <1>1, SeqIs, AppendIs
<1>3. Rewinding!RightFold(0, u, x) = Rewinding!RightFold(0, log, RewindOp(0, u[n + 1], x))
  BY <1>2, Rewinding!RightFoldLast
<1>4. RewindOp(0, r, x) = [ok |-> TRUE, document |-> e]
  BY <1>1 DEF RewindOp
<1> QED
  BY <1>1, <1>2, <1>3, <1>4 DEF Rewound

\* A spec whose revision a batch may work on.
Good(d) == SpecShape(d) /\ Member(d, "revision", 0) \in 0..MaxRevision

\* The records of a log are links of a chain of revisions from d to e.
Linked(d, e, log) ==
    /\ \A i \in DOMAIN log : log[i].base = IF i = 1 THEN Revision(d) ELSE log[i - 1].next
    /\ \A i \in DOMAIN log : i > 1 => log[i].next > log[i - 1].next
    /\ Revision(e) = IF Len(log) = 0 THEN Revision(d) ELSE log[Len(log)].next
    /\ log # << >> => Has(e, "revision") /\ Member(e, "revision", 0) > Member(d, "revision", 0)

\* The log leads from d to e, forwards by its patches, backwards by the inverses.
Logged(d, e, log) ==
    /\ IsSeq(log) /\ IsSeq(PatchOf(log))
    /\ Linked(d, e, log)
    /\ ApplyJsonPatch(d, PatchOf(log)) = e
    /\ Rewound(e, log) = [ok |-> TRUE, document |-> d]

\* Nothing happened: the empty log.
LEMMA LoggedNothing ==
  ASSUME NEW d
  PROVE  Logged(d, d, << >>)
<1>1. PICK s : s = << >>
  OBVIOUS
<1>2. IsSeq(s) /\ DOMAIN s = {} /\ Len(s) = 0
  BY <1>1, Path0
<1>3. Linked(d, d, s)
  BY <1>1, <1>2 DEF Linked
<1> QED
  BY <1>1, <1>2, <1>3, PatchOfEmpty, PatchEmpty, RewoundEmpty DEF Logged

\* One more command took effect: the log with its result.
LEMMA LoggedMore ==
  ASSUME NEW d, NEW e, NEW log, Logged(d, e, log), Good(d), Good(e), MaxRevision \in Nat,
         NEW p, WholeGoes(e, p), NEW f, f = WithNextRevision(ApplyJsonPatch(e, p)),
         NextRevision(e) # InvalidRevision,
         NEW r, r.patch = WholePatch(p, e), r.inverse = InvertPatch(e, WholePatch(p, e)),
         r.base = Revision(e), r.next = NextRevision(e)
  PROVE  Logged(d, f, Append(log, r)) /\ Good(f)
<1>1. PICK n, u, w : n = Len(log) /\ u = Append(log, r) /\ w = WholePatch(p, e)
  OBVIOUS
<1>2. /\ IsSeq(log) /\ IsSeq(u) /\ n \in Nat /\ DOMAIN log = 1..n
      /\ DOMAIN u = 1..(n + 1) /\ u[n + 1] = r /\ \A i \in 1..n : u[i] = log[i]
      /\ Len(u) = n + 1
  BY <1>1, SeqIs, AppendIs DEF Logged
<1>3. /\ IsSeq(w) /\ ApplyJsonPatch(e, w) = f /\ SpecShape(f) /\ Revision(f) = NextRevision(e)
      /\ Undoable(f, InvertPatch(e, w)) = [ok |-> TRUE, document |-> e]
  BY <1>1 DEF WholeGoes
<1>4. /\ Has(f, "revision") /\ Member(f, "revision", 0) = NextRevision(e)
      /\ NextRevision(e) = Member(e, "revision", 0) + 1
      /\ NextRevision(e) \in 1..MaxRevision
  <2>1. Has(f, "revision")
    BY DEF WithNextRevision, With, Has
  <2>2. Member(f, "revision", 0) = NextRevision(e)
    BY <1>3, <2>1 DEF Revision, Member
  <2> QED
    BY <2>1, <2>2 DEF NextRevision, Good
<1>5. IsSeq(PatchOf(u)) /\ ApplyJsonPatch(d, PatchOf(u)) = f
  <2>1. PICK a : a = PatchOf(log)
    OBVIOUS
  <2>2. PatchOf(u) = a \o w
    BY <1>1, <1>2, <2>1, PatchOfAppend
  <2>3. IsSeq(a) /\ ApplyJsonPatch(d, a) = e
    BY <2>1 DEF Logged
  <2>4. PICK q : q = a \o w
    OBVIOUS
  <2>5. IsSeq(q)
    BY <1>3, <2>3, <2>4, ConcatIs DEF Joins
  <2>6. ApplyJsonPatch(d, a \o w) = ApplyJsonPatch(ApplyJsonPatch(d, a), w)
    BY <1>3, <2>3, PatchConcat
  <2> QED
    BY <1>3, <2>2, <2>3, <2>4, <2>5, <2>6
<1>6. Rewound(f, u) = [ok |-> TRUE, document |-> d]
  <2>1. Rewound(f, Append(log, r)) = Rewound(e, log)
    BY <1>1, <1>2, <1>3, RewoundAppend
  <2> QED
    BY <1>1, <2>1 DEF Logged
<1>7. Linked(d, f, u)
  <2>1. Linked(d, e, log)
    BY DEF Logged
  <2>2. n # 0 => Revision(e) = log[n].next /\ Revision(e) = Member(e, "revision", 0)
    <3> SUFFICES ASSUME n # 0 PROVE Revision(e) = log[n].next /\ Revision(e) = Member(e, "revision", 0)
      OBVIOUS
    <3>1. log # << >>
      BY <1>1
    <3>2. Has(e, "revision")
      BY <2>1, <3>1 DEF Linked
    <3> QED
      BY <1>1, <2>1, <3>2 DEF Linked, Revision, Member
  <2>3. n = 0 => Revision(e) = Revision(d) /\ Member(e, "revision", 0) = Member(d, "revision", 0)
    <3> SUFFICES ASSUME n = 0
                 PROVE  Revision(e) = Revision(d) /\ Member(e, "revision", 0) = Member(d, "revision", 0)
      OBVIOUS
    <3>1. log = << >>
      BY <1>1, <1>2 DEF IsSeq
    <3>2. e = d
      BY <3>1, PatchOfEmpty, PatchEmpty DEF Logged
    <3> QED
      BY <3>2
  <2>4. ASSUME NEW i \in 1..(n + 1)
        PROVE  u[i].base = IF i = 1 THEN Revision(d) ELSE u[i - 1].next
    <3>1. CASE i \in 1..n
      BY <1>2, <2>1, <3>1 DEF Linked
    <3>2. CASE i = n + 1
      BY <1>2, <2>2, <2>3, <3>2
    <3> QED
      BY <1>2, <3>1, <3>2
  <2>5. ASSUME NEW i \in 1..(n + 1), i > 1 PROVE u[i].next > u[i - 1].next
    <3>1. CASE i \in 1..n
      BY <1>2, <2>1, <2>5, <3>1 DEF Linked
    <3>2. CASE i = n + 1
      BY <1>2, <1>4, <2>2, <2>5, <3>2 DEF Good
    <3> QED
      BY <1>2, <3>1, <3>2
  <2>6. Member(f, "revision", 0) > Member(d, "revision", 0)
    <3>1. CASE n = 0
      BY <1>4, <2>3, <3>1 DEF Good
    <3>2. CASE n # 0
      <4>1. log # << >>
        BY <1>1, <3>2
      <4>2. Member(e, "revision", 0) > Member(d, "revision", 0)
        BY <2>1, <4>1 DEF Linked
      <4> QED
        BY <1>4, <4>2 DEF Good
    <3> QED
      BY <3>1, <3>2
  <2>7. Revision(f) = u[n + 1].next /\ Len(u) # 0
    BY <1>2, <1>3
  <2> QED
    BY <1>2, <1>4, <2>4, <2>5, <2>6, <2>7 DEF Linked
<1>8. Good(f)
  BY <1>3, <1>4 DEF Good
<1> QED
  BY <1>1, <1>2, <1>5, <1>6, <1>7, <1>8 DEF Logged

(***************************************************************************)
(* The batches.                                                            *)
(***************************************************************************)
\* The operators of the properties are those of the log.
LEMMA EffectiveIs == Effective = Kept(results)
BY Zenon DEF Effective, Kept, Keeping!LeftFold, KeepOp, FoldLeft, MapThenFoldSet,
   Keeping!LeftStep, Max, Keeping!Highest

LEMMA EffectivePatchIs == EffectivePatch = PatchOf(Effective)
BY Zenon DEF EffectivePatch, PatchOf, Joining!LeftFold, JoinOp, FoldLeft, MapThenFoldSet,
   Joining!LeftStep, Max, Joining!Highest

LEMMA UndoRestoresIs == UndoRestores <=> Rewound(current, Effective) = [ok |-> TRUE, document |-> given]
BY Zenon DEF UndoRestores, Rewound, Rewinding!RightFold, RewindOp, FoldRight, MapThenFoldSet,
   Rewinding!RightStep, Min, Rewinding!Lowest

Statuses == {"failed", "skipped", "applied"}

\* What a call that has returned may have answered.
Answers ==
    {Answer(given, FALSE, TRUE), Answer(IF options.dryRun THEN given ELSE current, committed, FALSE)}

\* The inductive invariant: the effective results are a log of the way from the
\* given spec to the one the batch works on, and every spec that can be given to
\* a batch is one a batch may work on.
BatchInv ==
    /\ batches \in 1..Len(BatchSizes) /\ options \in Options /\ committed \in BOOLEAN
    /\ IsSeq(results) /\ Len(results) <= BatchSizes[batches]
    /\ \A i \in 1..Len(results) : results[i].status \in Statuses
    /\ ValidateSpec(given) => ValidateSpec(current)
    /\ Good(given) /\ Good(current) /\ Good(mapSpec)
    /\ Logged(given, current, Kept(results))
    /\ committed <=> ~options.dryRun /\ Kept(results) # << >>
    /\ Running \/ answer \in Answers

\* A batch has a size.
LEMMA Sizes ==
  ASSUME CommandsAssumption, NEW b \in 1..Len(BatchSizes)
  PROVE  BatchSizes[b] \in Nat
BY DEF CommandsAssumption

\* The invariant holds at the start.
LEMMA BatchStarts ==
  ASSUME CommandsAssumption, AdapterInit
  PROVE  BatchInv
<1>1. /\ given \in Specs /\ options \in Options /\ current = given /\ results = << >>
      /\ committed = FALSE /\ Running /\ batches = 1 /\ mapSpec = given
  BY DEF AdapterInit, BatchInit, Running
<1>2. Good(given)
  BY <1>1 DEF CommandsAssumption, Good
<1>3. 1 \in 1..Len(BatchSizes)
  BY DEF CommandsAssumption
<1>4. IsSeq(results) /\ Len(results) = 0 /\ Kept(results) = << >>
  BY <1>1, Path0, KeptEmpty
<1>5. Logged(given, current, Kept(results))
  BY <1>1, <1>4, LoggedNothing
<1>6. Len(results) <= BatchSizes[batches]
  BY <1>1, <1>3, <1>4, Sizes
<1>7. \A i \in 1..Len(results) : results[i].status \in Statuses
  BY <1>4
<1>8. committed <=> ~options.dryRun /\ Kept(results) # << >>
  BY <1>1, <1>4
<1>9. batches \in 1..Len(BatchSizes) /\ committed \in BOOLEAN
  BY <1>1, <1>3
<1> QED
  BY <1>1, <1>2, <1>4, <1>5, <1>6, <1>7, <1>8, <1>9 DEF BatchInv

\* A result that changed nothing is no part of the log.
LEMMA ResultAppended ==
  ASSUME CommandsAssumption, BatchInv, NEW c, Take(c), NEW r, r.status \in Statuses,
         results' = Append(results, r), batches' = batches
  PROVE  /\ IsSeq(results') /\ Len(results') <= BatchSizes[batches']
         /\ \A i \in 1..Len(results') : results'[i].status \in Statuses
         /\ Kept(results') = KeepOp(0, Kept(results), r)
<1>1. /\ IsSeq(results) /\ Len(results) < BatchSizes[batches]
      /\ \A i \in 1..Len(results) : results[i].status \in Statuses
  BY DEF BatchInv, Take
<1>2. BatchSizes[batches] \in Nat /\ Len(results) \in Nat
  BY <1>1, Sizes, SeqIs DEF BatchInv
<1>3. PICK s, t : s = results /\ t = Append(s, r)
  OBVIOUS
<1>4. /\ IsSeq(t) /\ Len(t) = Len(s) + 1 /\ t[Len(s) + 1] = r
      /\ \A i \in 1..Len(s) : t[i] = s[i]
  BY <1>1, <1>3, AppendIs
<1>5. \A i \in 1..Len(t) : t[i].status \in Statuses
  BY <1>1, <1>2, <1>3, <1>4
<1>6. Kept(t) = KeepOp(0, Kept(s), r)
  BY <1>1, <1>3, KeptAppend
<1> QED
  BY <1>1, <1>2, <1>3, <1>4, <1>5, <1>6

\* A command that fails or is skipped preserves the invariant.
LEMMA UnappliedKeeps ==
  ASSUME CommandsAssumption, BatchInv, NEW c, Take(c), NEW s \in {"failed", "skipped"},
         results' = Append(results, Unapplied(c, s)),
         answer' = answer \/ answer' = Answer(given, FALSE, TRUE),
         UNCHANGED <<given, options, current, committed, batches, mapSpec>>
  PROVE  BatchInv'
<1>1. PICK r : r = Unapplied(c, s)
  OBVIOUS
<1>2. r.status = s /\ r.status \in Statuses /\ results' = Append(results, r)
  BY <1>1 DEF Unapplied, Statuses
<1>3. /\ IsSeq(results') /\ Len(results') <= BatchSizes[batches']
      /\ \A i \in 1..Len(results') : results'[i].status \in Statuses
      /\ Kept(results') = KeepOp(0, Kept(results), r)
  BY <1>2, ResultAppended
<1>4. Kept(results') = Kept(results)
  BY <1>2, <1>3 DEF KeepOp
<1>5. Running' \/ answer' \in Answers'
  BY DEF Running, Take, Answers
<1> QED
  BY <1>3, <1>4, <1>5 DEF BatchInv

\* A command that is applied preserves the invariant: its patch and its inverse
\* are the next record of the log.
LEMMA ApplyKeeps ==
  ASSUME CommandsAssumption, BatchInv, NEW c, Apply(c), UNCHANGED mapSpec
  PROVE  BatchInv'
<1>1. /\ Take(c) /\ BuildPatch(c, current).kind = "patch" /\ CommandShape(c)
      /\ results' = Append(results, Applied(c)) /\ ValidateSpec(Outcome(c))
      /\ UNCHANGED <<given, options, answer, batches>>
  BY DEF Apply, Take, CommandsAssumption
<1>2. PICK p, w, r, f : /\ p = BuildPatch(c, current).patch /\ w = WholePatch(p, current)
                        /\ r = Applied(c) /\ f = Outcome(c)
  OBVIOUS
<1>3. WholeGoes(current, p)
  BY <1>1, <1>2, CommandGoes, RevisionGoes DEF BatchInv, Good
<1>4. f = WithNextRevision(ApplyJsonPatch(current, p))
  BY <1>2 DEF Outcome
<1>5. r = [status |-> "applied", patch |-> w, inverse |-> InvertPatch(current, w),
           base |-> Revision(current), next |-> NextRevision(current), dryRun |-> c.dryRun]
  BY <1>2 DEF Applied
<1>6. NextRevision(current) # InvalidRevision
  <2>1. Revision(f) = NextRevision(current)
    BY <1>3, <1>4 DEF WholeGoes
  <2>2. Has(f, "revision")
    BY <1>4 DEF WithNextRevision, With, Has
  <2>3. Member(f, "revision", 0) # InvalidRevision
    BY <1>1, <1>2 DEF ValidateSpec
  <2> QED
    BY <2>1, <2>2, <2>3 DEF Revision, Member
<1>7. /\ IsSeq(results') /\ Len(results') <= BatchSizes[batches']
      /\ \A i \in 1..Len(results') : results'[i].status \in Statuses
      /\ Kept(results') = KeepOp(0, Kept(results), r)
  BY <1>1, <1>2, <1>5, ResultAppended DEF Statuses
<1>8. Running'
  BY <1>1 DEF Take, Running
<1>9. CASE c.dryRun
  <2>1. Kept(results') = Kept(results)
    BY <1>5, <1>7, <1>9 DEF KeepOp
  <2>2. UNCHANGED <<current, committed>>
    BY <1>9 DEF Apply
  <2> QED
    BY <1>1, <1>7, <1>8, <2>1, <2>2 DEF BatchInv
<1>10. CASE ~c.dryRun
  <2>1. Kept(results') = Append(Kept(results), r)
    BY <1>5, <1>7, <1>10 DEF KeepOp
  <2>2. current' = f /\ committed' = (committed \/ ~options.dryRun)
    BY <1>2, <1>10 DEF Apply
  <2>3. Logged(given, f, Append(Kept(results), r)) /\ Good(f)
    <3>1. PICK log : log = Kept(results)
      OBVIOUS
    <3>2. r.patch = w /\ r.inverse = InvertPatch(current, w) /\ r.base = Revision(current)
          /\ r.next = NextRevision(current)
      BY <1>5
    <3>3. Logged(given, current, log) /\ Good(given) /\ Good(current) /\ MaxRevision \in Nat
      BY <3>1 DEF BatchInv, CommandsAssumption
    <3> QED
      BY <1>2, <1>3, <1>4, <1>6, <3>1, <3>2, <3>3, LoggedMore
  <2>4. Append(Kept(results), r) # << >>
    <3>1. PICK log, u : log = Kept(results) /\ u = Append(log, r)
      OBVIOUS
    <3>2. IsSeq(log)
      BY <3>1 DEF BatchInv, Logged
    <3>3. Len(u) = Len(log) + 1 /\ Len(log) \in Nat
      BY <3>1, <3>2, SeqIs, AppendIs
    <3> QED
      BY <3>1, <3>3
  <2>5. committed' <=> ~options'.dryRun /\ Kept(results') # << >>
    BY <1>1, <2>1, <2>2, <2>4 DEF BatchInv, Options
  <2>6. ValidateSpec(current')
    BY <1>1, <1>2, <2>2
  <2>7. Logged(given', current', Kept(results')) /\ Good(given') /\ Good(current') /\ Good(mapSpec')
    BY <1>1, <2>1, <2>2, <2>3 DEF BatchInv
  <2>8. batches' \in 1..Len(BatchSizes) /\ options' \in Options /\ committed' \in BOOLEAN
    BY <1>1, <2>2 DEF BatchInv
  <2> QED
    BY <1>7, <1>8, <2>5, <2>6, <2>7, <2>8 DEF BatchInv
<1> QED
  BY <1>9, <1>10

\* Every step of a batch preserves the invariant.
LEMMA BatchStepKeeps ==
  ASSUME CommandsAssumption, BatchInv, BatchStep, UNCHANGED mapSpec
  PROVE  BatchInv'
<1>1. CASE \E c \in CommandSet : Conflict(c) \/ BuildFails(c) \/ Skip(c) \/ Invalid(c) \/ Apply(c)
  <2>1. PICK c \in CommandSet : Conflict(c) \/ BuildFails(c) \/ Skip(c) \/ Invalid(c) \/ Apply(c)
    BY <1>1
  <2>2. CASE Conflict(c) \/ BuildFails(c) \/ Invalid(c)
    <3>1. Take(c) /\ Fail(c)
      BY <2>2 DEF Conflict, BuildFails, Invalid
    <3> QED
      BY <3>1, UnappliedKeeps DEF Fail
  <2>3. CASE Skip(c)
    BY <2>3, UnappliedKeeps DEF Skip
  <2>4. CASE Apply(c)
    BY <2>4, ApplyKeeps
  <2> QED
    BY <2>1, <2>2, <2>3, <2>4
<1>2. CASE Finish
  <2>1. answer' \in Answers'
    BY <1>2 DEF Finish, Answers
  <2> QED
    BY <1>2, <2>1 DEF Finish, BatchInv
<1> QED
  BY <1>1, <1>2 DEF BatchStep

\* What a batch answers can be given to the next one.
LEMMA AnswerIsGood ==
  ASSUME BatchInv, ~Running
  PROVE  Good(answer.spec)
BY DEF BatchInv, Answers, Answer

\* Every step of the adapter and its runtime preserves the invariant.
LEMMA BatchInvInductive ==
  ASSUME CommandsAssumption, BatchInv, [AdapterNext]_<<batchVars, adapterVars>>
  PROVE  BatchInv'
<1>1. CASE UNCHANGED batchVars /\ UNCHANGED mapSpec
  BY <1>1 DEF BatchInv, batchVars, Running, Answers
<1>2. CASE RunBatch
  BY <1>2, BatchStepKeeps DEF RunBatch, adapterVars
<1>3. CASE ApplyPatch
  <2>1. ~Running /\ UNCHANGED batchVars /\ (mapSpec' = answer.spec \/ mapSpec' = mapSpec)
    BY <1>3 DEF ApplyPatch
  <2>2. Good(mapSpec')
    BY <2>1, AnswerIsGood DEF BatchInv
  <2> QED
    BY <2>1, <2>2 DEF BatchInv, batchVars, Running, Answers
<1>4. CASE NextBatch
  <2>1. /\ batches < Len(BatchSizes) /\ given' = mapSpec /\ current' = mapSpec
        /\ options' \in Options /\ results' = << >> /\ committed' = FALSE /\ answer' = Pending
        /\ batches' = batches + 1 /\ mapSpec' = mapSpec
    BY <1>4 DEF NextBatch, NewBatch
  <2>2. batches' \in 1..Len(BatchSizes)
    BY <2>1 DEF BatchInv, CommandsAssumption
  <2>3. IsSeq(results') /\ Len(results') = 0 /\ Kept(results') = << >>
    BY <2>1, Path0, KeptEmpty
  <2>4. Logged(given', current', Kept(results'))
    BY <2>1, <2>3, LoggedNothing
  <2>5. Len(results') <= BatchSizes[batches']
    BY <2>2, <2>3, Sizes
  <2>6. Running'
    BY <2>1 DEF Running
  <2>7. \A i \in 1..Len(results') : results'[i].status \in Statuses
    BY <2>3
  <2>8. committed' <=> ~options'.dryRun /\ Kept(results') # << >>
    BY <2>1, <2>3
  <2>9. Good(mapSpec) /\ committed' \in BOOLEAN
    BY <2>1 DEF BatchInv
  <2> QED
    BY <2>1, <2>2, <2>3, <2>4, <2>5, <2>6, <2>7, <2>8, <2>9 DEF BatchInv
<1>5. CASE InstantiateMap \/ NothingToPatch \/ Reload \/ Destroy
  BY <1>1, <1>5 DEF InstantiateMap, NothingToPatch, Reload, Destroy
<1>6. CASE UNCHANGED <<batchVars, adapterVars>>
  BY <1>1, <1>6 DEF adapterVars
<1> QED
  BY <1>2, <1>3, <1>4, <1>5, <1>6 DEF AdapterNext

\* What the invariant says of the three properties.
LEMMA InvGivesType ==
  ASSUME BatchInv
  PROVE  BatchTypeOK
<1>1. DOMAIN results = 1..Len(results)
  BY SeqIs DEF BatchInv
<1> QED
  BY <1>1 DEF BatchInv, BatchTypeOK, Statuses

LEMMA InvGivesUndo ==
  ASSUME BatchInv
  PROVE  UndoRestores
BY EffectiveIs, UndoRestoresIs DEF BatchInv, Logged

LEMMA InvGivesAnswers ==
  ASSUME CommandsAssumption, BatchInv
  PROVE  AnswersTruly
<1>1. PICK log : log = Effective /\ log = Kept(results)
  BY EffectiveIs
<1>2. Logged(given, current, log) /\ IsSeq(log)
  BY <1>1 DEF BatchInv, Logged
<1>3. Len(log) \in Nat /\ DOMAIN log = 1..Len(log)
  BY <1>2, SeqIs
<1>4. Linked(given, current, log)
  BY <1>2 DEF Logged
<1>5. RevisionsChain
  <2>1. \A i \in DOMAIN log : log[i].base = IF i = 1 THEN Revision(given) ELSE log[i - 1].next
    BY <1>4 DEF Linked
  <2>2. \A i \in DOMAIN log :
          i > 1 => log[i].next > (IF i = 1 THEN Revision(given) ELSE log[i - 1].next)
    BY <1>3, <1>4 DEF Linked
  <2>3. Revision(current) = IF Len(log) + 1 = 1 THEN Revision(given) ELSE log[Len(log) + 1 - 1].next
    BY <1>3, <1>4 DEF Linked
  <2> QED
    BY <1>1, <2>1, <2>2, <2>3 DEF RevisionsChain
<1>6. log = << >> => current = given
  BY <1>2, PatchOfEmpty, PatchEmpty DEF Logged
<1>7. log # << >> => current # given
  <2>1. log # << >> => Member(current, "revision", 0) > Member(given, "revision", 0)
    BY <1>4 DEF Linked
  <2>2. Member(given, "revision", 0) \in Int
    BY DEF BatchInv, Good, CommandsAssumption
  <2> QED
    BY <2>1, <2>2
<1>8. committed <=> ~options.dryRun /\ log # << >>
  BY <1>1 DEF BatchInv
<1>9. current = ApplyJsonPatch(given, EffectivePatch)
  BY <1>1, <1>2, EffectivePatchIs DEF Logged
<1>10. ASSUME ~Running
       PROVE  /\ answer.committed <=> answer.spec # given
              /\ answer.rolledBack \/ options.dryRun => ~answer.committed
              /\ answer.committed => answer.spec = ApplyJsonPatch(given, EffectivePatch)
  <2>1. answer \in Answers /\ options.dryRun \in BOOLEAN /\ committed \in BOOLEAN
    BY <1>10 DEF BatchInv, Options
  <2>2. CASE answer = Answer(given, FALSE, TRUE)
    BY <2>2 DEF Answer
  <2>3. CASE answer = Answer(IF options.dryRun THEN given ELSE current, committed, FALSE)
    <3>1. answer.spec = (IF options.dryRun THEN given ELSE current)
          /\ answer.committed = committed /\ answer.rolledBack = FALSE
      BY <2>3 DEF Answer
    <3> QED
      BY <1>6, <1>7, <1>8, <1>9, <2>1, <3>1
  <2> QED
    BY <2>1, <2>2, <2>3 DEF Answers
<1> QED
  BY <1>5, <1>10 DEF AnswersTruly

\* The invariant holds in every behaviour.
THEOREM BatchInvHolds == AdapterSpec => []BatchInv
<1>1. AdapterInit => BatchInv
  BY CommandsAssumption, BatchStarts
<1>2. BatchInv /\ [AdapterNext]_<<batchVars, adapterVars>> => BatchInv'
  BY CommandsAssumption, BatchInvInductive
<1> QED
  BY <1>1, <1>2, PTL DEF AdapterSpec

\* Whatever the maps, the commands and the sizes of the batches: the counters
\* stay in their bounds, and a batch given a spec that validateSpec accepts only
\* works on such specs (applyCommands.ts validates every outcome).
THEOREM BatchIsTyped == AdapterSpec => []BatchTypeOK
BY BatchInvHolds, InvGivesType, PTL

\* At every moment of every batch the inverses of its effective commands, the
\* last one first, apply without an exception and lead back to the very spec the
\* batch was given (applyCommands.ts, invertPatch.ts).
THEOREM BatchCanBeUndone == AdapterSpec => []UndoRestores
BY BatchInvHolds, InvGivesUndo, PTL

\* The effective results are a chain of strictly increasing revisions, and what
\* the call answers is what has happened: nothing, or exactly the patches of the
\* effective commands applied to the given spec.
THEOREM AnswersAreTrue == AdapterSpec => []AnswersTruly
<1>1. BatchInv => AnswersTruly
  BY CommandsAssumption, InvGivesAnswers
<1> QED
  BY <1>1, BatchInvHolds, PTL
=============================================================================
