--------------------------- MODULE AdapterProofs ---------------------------
(***************************************************************************)
(* Proofs about MapLibreAdapter, for any maps, commands and batches: once  *)
(* a batch is over, a live map shows the committed spec.                   *)
(***************************************************************************)
EXTENDS BatchProofs

-----------------------------------------------------------------------------
(***************************************************************************)
(* What one operation changes.  Whatever the container, it is the member   *)
(* of the document that its path begins with.                              *)
(***************************************************************************)
Below(d, a, x) == \E y : Update(d, a, x) = [d EXCEPT ![a[1]] = y]

UpdatesBelow(d, a, k, x) ==
    Update(d, Append(a, k), x) = Update(d, a, [GetAtPath(d, a) EXCEPT ![k] = x])

LEMMA UpdateBelow ==
  ASSUME NEW d, NEW a, IsSeq(a), NEW k, NEW x
  PROVE  UpdatesBelow(d, a, k, x)
BY UpdateAppend DEF UpdatesBelow

LEMMA UpdateRoot ==
  ASSUME NEW d, NEW a, IsSeq(a), Len(a) >= 1, NEW x
  PROVE  Below(d, a, x)
<1> DEFINE R(n) == \A b, z : IsSeq(b) /\ Len(b) = n + 1 => Below(d, b, z)
           S == {n \in Nat : R(n)}
<1>1. R(0)
  <2> SUFFICES ASSUME NEW b, NEW z, IsSeq(b), Len(b) = 1
               PROVE  Below(d, b, z)
    OBVIOUS
  <2>1. PICK e : e = << >>
    OBVIOUS
  <2>2. IsSeq(e) /\ Len(e) = 0
    BY <2>1, Path0
  <2>3. PICK k : k = b[1]
    OBVIOUS
  <2>4. b = Append(e, k)
    BY <2>2, <2>3, AppendOf
  <2>5. UpdatesBelow(d, e, k, z)
    BY <2>2, UpdateBelow
  <2>6. GetAtPath(d, e) = d
    BY <2>1, GetEmpty
  <2>7. PICK w : w = [d EXCEPT ![k] = z]
    OBVIOUS
  <2>8. Update(d, e, w) = w
    BY <2>1, UpdateEmpty
  <2>9. Update(d, b, z) = w
    BY <2>4, <2>5, <2>6, <2>7, <2>8 DEF UpdatesBelow
  <2> QED
    BY <2>3, <2>7, <2>9 DEF Below
<1>2. ASSUME NEW n \in Nat, R(n) PROVE R(n + 1)
  <2> SUFFICES ASSUME NEW b, NEW z, IsSeq(b), Len(b) = n + 2
               PROVE  Below(d, b, z)
    OBVIOUS
  <2> DEFINE e == [i \in 1..(n + 1) |-> b[i]]
  <2>1. DOMAIN e = 1..(n + 1) /\ IsObject(e) /\ \A i \in 1..(n + 1) : e[i] = b[i]
    BY DEF IsObject
  <2> HIDE DEF e
  <2>2. IsSeq(e) /\ Len(e) = n + 1 /\ e[1] = b[1]
    BY <2>1, ArrayIs
  <2>3. PICK k : k = b[Len(b)]
    OBVIOUS
  <2>4. b = Append(e, k)
    BY <2>1, <2>2, <2>3, AppendOf
  <2>5. UpdatesBelow(d, e, k, z)
    BY <2>2, UpdateBelow
  <2>6. PICK w : Update(d, b, z) = Update(d, e, w)
    BY <2>4, <2>5 DEF UpdatesBelow
  <2>7. Below(d, e, w)
    BY <1>2, <2>2
  <2> QED
    BY <2>2, <2>6, <2>7 DEF Below
<1>3. Nat \subseteq S
  <2> HIDE DEF R
  <2>1. 0 \in S /\ \A n \in Nat : n \in S => n + 1 \in S
    BY <1>1, <1>2
  <2> HIDE DEF S
  <2> QED
    BY <2>1, Patching!Induction
<1>4. Len(a) - 1 \in Nat /\ Len(a) = (Len(a) - 1) + 1
  BY SeqIs
<1>5. R(Len(a) - 1)
  <2> HIDE DEF R
  <2> QED
    BY <1>3, <1>4
<1> QED
  BY <1>4, <1>5

\* The path of an operation is one name after another.
LEMMA PathSplits ==
  ASSUME NEW a, IsSeq(a), Len(a) >= 1
  PROVE  \E b, k : IsSeq(b) /\ a = Append(b, k) /\ Len(b) = Len(a) - 1
                   /\ \A i \in 1..Len(b) : b[i] = a[i]
<1>1. PICK n : n = Len(a) - 1
  OBVIOUS
<1>2. n \in Nat /\ Len(a) = n + 1
  BY <1>1, SeqIs
<1> DEFINE b == [i \in 1..n |-> a[i]]
<1>3. DOMAIN b = 1..n /\ IsObject(b) /\ \A i \in 1..n : b[i] = a[i]
  BY DEF IsObject
<1> HIDE DEF b
<1>4. IsSeq(b) /\ Len(b) = n
  BY <1>2, <1>3, ArrayIs
<1>5. a = Append(b, a[Len(a)])
  BY <1>2, <1>3, <1>4, AppendOf
<1> QED
  BY <1>1, <1>3, <1>4, <1>5

\* An operation on a member of a document, and one below a member of it.
LEMMA RootOperation ==
  ASSUME NEW d, NEW o, IsSeq(o.path), Len(o.path) = 1
  PROVE  ApplyOperation(d, o) = ObjectOperation(d, o.path[1], o)
<1> DEFINE a == o.path
<1>0. IsSeq(a) /\ Len(a) = 1
  OBVIOUS
<1> HIDE DEF a
<1>1. PICK b, k : IsSeq(b) /\ a = Append(b, k) /\ Len(b) = 0
  BY <1>0, PathSplits
<1>2. b = << >>
  <2>1. PICK e : e = << >>
    OBVIOUS
  <2>2. IsSeq(e) /\ Len(e) = 0
    BY <2>1, Path0
  <2>3. b = e
    BY <1>1, <2>2, SameSeq
  <2> QED
    BY <2>1, <2>3
<1>3. k = o.path[1]
  BY <1>1, AppendIs DEF a
<1>4. << >> \notin ArrayPaths
  BY Arrays
<1>5. ApplyOperation(d, o) = Update(d, b, ObjectOperation(GetAtPath(d, b), k, o))
  BY <1>1, <1>2, <1>4, ApplyAtObject DEF At, a
<1>6. GetAtPath(d, b) = d
  BY <1>2, GetEmpty
<1>7. PICK x : x = ObjectOperation(d, k, o)
  OBVIOUS
<1>8. Update(d, b, x) = x
  BY <1>2, UpdateEmpty
<1> QED
  BY <1>3, <1>5, <1>6, <1>7, <1>8

LEMMA DeepOperation ==
  ASSUME NEW d, NEW o, IsSeq(o.path), Len(o.path) >= 2
  PROVE  \E y : ApplyOperation(d, o) = [d EXCEPT ![o.path[1]] = y]
<1> DEFINE a == o.path
<1>0. IsSeq(a) /\ Len(a) >= 2 /\ Len(a) >= 1 /\ Len(a) \in Nat
  BY SeqIs
<1> HIDE DEF a
<1>1. PICK b, k : /\ IsSeq(b) /\ a = Append(b, k) /\ Len(b) = Len(a) - 1
                  /\ \A i \in 1..Len(b) : b[i] = a[i]
  BY <1>0, PathSplits
<1>2. Len(b) \in Nat
  BY <1>1, SeqIs
<1>3. Len(b) >= 1 /\ b[1] = a[1]
  BY <1>0, <1>1, <1>2
<1>4. PICK x : ApplyOperation(d, o) = Update(d, b, x)
  BY <1>1, AtIs, ApplyIs DEF At, a
<1> QED
  <2>1. Below(d, b, x)
    BY <1>1, <1>3, UpdateRoot
  <2>2. PICK y : Update(d, b, x) = [d EXCEPT ![b[1]] = y]
    BY <2>1 DEF Below
  <2> QED
    BY <1>3, <1>4, <2>2 DEF a

\* The two agree on whether there is such a member, and on what it is.
Same(a, b, n) == (Has(a, n) <=> Has(b, n)) /\ (Has(b, n) => a[n] = b[n])

\* A document an adapter can work on, and the operations that commands are made of,
\* on a document that they may be applied to.
Frame(d) == IsObject(d) /\ {"view", "sources", "layers"} \subseteq DOMAIN d

Known(d, o) ==
    /\ IsSeq(o.path) /\ Len(o.path) >= 1
    /\ o.op \in {"add", "remove", "replace"}
    /\ Len(o.path) = 1 => o.path[1] \notin {"sources", "layers"} /\ o.op # "remove"
    /\ o.path[1] = "sources" => Len(o.path) = 2
    /\ o.path[1] = "layers" /\ Len(o.path) > 2 => o.path[2] \in DOMAIN d.layers
    /\ o.path[1] = "layers" /\ Len(o.path) > 3 =>
           /\ Len(o.path) = 4 /\ o.op # "remove"
           /\ o.path[3] \in {"paint", "layout"} /\ Has(d.layers[o.path[2]], o.path[3])

LEMMA Elsewhere ==
  ASSUME NEW d, Frame(d), NEW o, Known(d, o)
  PROVE  /\ Frame(ApplyOperation(d, o))
         /\ \A n : n # o.path[1] => Same(ApplyOperation(d, o), d, n)
<1>1. PICK e, r : e = ApplyOperation(d, o) /\ r = o.path[1]
  OBVIOUS
<1>2. CASE Len(o.path) = 1
  <2>1. e = ObjectOperation(d, r, o)
    BY <1>1, <1>2, RootOperation DEF Known
  <2>2. e = With(d, r, o.value)
    BY <1>1, <1>2, <2>1 DEF Known, ObjectOperation
  <2> QED
    BY <1>1, <2>2 DEF With, Frame, IsObject, Same, Has
<1>3. CASE Len(o.path) >= 2
  <2>1. \E y : e = [d EXCEPT ![r] = y]
    BY <1>1, <1>3, DeepOperation DEF Known
  <2>2. PICK y : e = [d EXCEPT ![r] = y]
    BY <2>1
  <2> QED
    BY <1>1, <2>2 DEF Frame, IsObject, Same, Has
<1>4. Len(o.path) \in Nat /\ Len(o.path) >= 1
  BY SeqIs DEF Known
<1>5. Len(o.path) = 1 \/ Len(o.path) >= 2
  <2>1. PICK n : n = Len(o.path)
    OBVIOUS
  <2>2. n \in Nat /\ n >= 1
    BY <1>4, <2>1
  <2>3. n = 1 \/ n >= 2
    BY <2>2
  <2> QED
    BY <2>1, <2>3
<1> QED
  BY <1>2, <1>3, <1>5

\* What Update changes, a level or two or three down.
Updates1(d, r, x) ==
    /\ Update(d, <<r>>, x) = [d EXCEPT ![r] = x]
    /\ GetAtPath(d, <<r>>) = d[r]

Updates2(d, r, i, x) ==
    /\ Update(d, <<r, i>>, x) = [d EXCEPT ![r] = [d[r] EXCEPT ![i] = x]]
    /\ GetAtPath(d, <<r, i>>) = d[r][i]

Updates3(d, r, i, m, x) ==
    /\ Update(d, <<r, i, m>>, x) =
         [d EXCEPT ![r] = [d[r] EXCEPT ![i] = [d[r][i] EXCEPT ![m] = x]]]
    /\ GetAtPath(d, <<r, i, m>>) = d[r][i][m]

LEMMA Updates ==
  ASSUME NEW d, NEW r, NEW x
  PROVE  /\ Updates1(d, r, x)
         /\ \A i : Updates2(d, r, i, x)
         /\ \A i, m : Updates3(d, r, i, m, x)
<1>1. ASSUME NEW y PROVE Update(d, <<r>>, y) = [d EXCEPT ![r] = y]
  <2>1. IsSeq(<< >>) /\ <<r>> = Append(<< >>, r)
    BY Path1
  <2>2. UpdatesBelow(d, << >>, r, y)
    BY <2>1, UpdateBelow
  <2>3. PICK w : w = [d EXCEPT ![r] = y]
    OBVIOUS
  <2>4. Update(d, << >>, w) = w /\ GetAtPath(d, << >>) = d
    BY UpdateEmpty, GetEmpty
  <2> QED
    BY <2>1, <2>2, <2>3, <2>4 DEF UpdatesBelow
<1>2. GetAtPath(d, <<r>>) = d[r]
  <2>1. PICK a : a = << >>
    OBVIOUS
  <2>2. IsSeq(a) /\ <<r>> = Append(a, r)
    BY <2>1, Path1
  <2>3. GetAtPath(d, Append(a, r)) = GetAtPath(d, a)[r]
    BY <2>2, GetAppend
  <2>4. GetAtPath(d, a) = d
    BY <2>1, GetEmpty
  <2> QED
    BY <2>2, <2>3, <2>4
<1>3. ASSUME NEW i, NEW y
      PROVE  /\ Update(d, <<r, i>>, y) = [d EXCEPT ![r] = [d[r] EXCEPT ![i] = y]]
             /\ GetAtPath(d, <<r, i>>) = d[r][i]
  <2>1. PICK a, b : a = <<r>> /\ b = <<r, i>>
    OBVIOUS
  <2>2. IsSeq(a) /\ GetAtPath(d, a) = d[r]
    BY <1>2, <2>1, Path1
  <2>3. b = Append(a, i)
    BY <2>1, Path2
  <2>4. UpdatesBelow(d, a, i, y)
    BY <2>2, UpdateBelow
  <2>5. PICK w : w = [d[r] EXCEPT ![i] = y]
    OBVIOUS
  <2>6. Update(d, b, y) = Update(d, a, w)
    BY <2>2, <2>3, <2>4, <2>5 DEF UpdatesBelow
  <2>7. Update(d, a, w) = [d EXCEPT ![r] = w]
    BY <1>1, <2>1
  <2>8. GetAtPath(d, b) = d[r][i]
    BY <2>2, <2>3, GetAppend
  <2> QED
    BY <2>1, <2>5, <2>6, <2>7, <2>8
<1>4. ASSUME NEW i, NEW m
      PROVE  /\ Update(d, <<r, i, m>>, x) =
                  [d EXCEPT ![r] = [d[r] EXCEPT ![i] = [d[r][i] EXCEPT ![m] = x]]]
             /\ GetAtPath(d, <<r, i, m>>) = d[r][i][m]
  <2>1. PICK a, b : a = <<r, i>> /\ b = <<r, i, m>>
    OBVIOUS
  <2>2. IsSeq(a) /\ GetAtPath(d, a) = d[r][i]
    BY <1>3, <2>1, Path2
  <2>3. b = Append(a, m)
    BY <2>1, Path3
  <2>4. UpdatesBelow(d, a, m, x)
    BY <2>2, UpdateBelow
  <2>5. PICK w : w = [d[r][i] EXCEPT ![m] = x]
    OBVIOUS
  <2>6. Update(d, b, x) = Update(d, a, w)
    BY <2>2, <2>3, <2>4, <2>5 DEF UpdatesBelow
  <2>7. Update(d, a, w) = [d EXCEPT ![r] = [d[r] EXCEPT ![i] = w]]
    BY <1>3, <2>1
  <2>8. GetAtPath(d, b) = d[r][i][m]
    BY <2>2, <2>3, GetAppend
  <2> QED
    BY <2>1, <2>5, <2>6, <2>7, <2>8
<1> QED
  BY <1>1, <1>2, <1>3, <1>4 DEF Updates1, Updates2, Updates3

\* What an operation makes of the sources, and of the layers when it does not put one
\* in, take one out or replace one.
LEMMA OnSource ==
  ASSUME NEW d, Frame(d), NEW o, Known(d, o), o.path[1] = "sources"
  PROVE  ApplyOperation(d, o).sources = ObjectOperation(d.sources, o.path[2], o)
<1>1. PICK a, b, k : a = o.path /\ b = <<"sources">> /\ k = o.path[2]
  OBVIOUS
<1>2. IsSeq(a) /\ Len(a) = 2 /\ a[1] = "sources"
  BY <1>1 DEF Known
<1>3. IsSeq(b) /\ Len(b) = 1 /\ b[1] = "sources"
  BY <1>1, Path1
<1>4. a = Append(b, k)
  <2>1. Len(a) = Len(b) + 1 /\ (\A j \in 1..Len(b) : a[j] = b[j]) /\ a[Len(a)] = k
    BY <1>1, <1>2, <1>3
  <2>2. IsSeq(a) /\ IsSeq(b)
    BY <1>2, <1>3
  <2> QED
    BY ONLY <2>1, <2>2, AppendOf
<1>5. b \notin ArrayPaths
  BY <1>1, Arrays
<1>6. ApplyOperation(d, o) = Update(d, b, ObjectOperation(GetAtPath(d, b), k, o))
  BY <1>1, <1>3, <1>4, <1>5, ApplyAtObject DEF At
<1>7. PICK x : x = ObjectOperation(d.sources, k, o)
  OBVIOUS
<1>8. Update(d, b, x) = [d EXCEPT !["sources"] = x] /\ GetAtPath(d, b) = d["sources"]
  BY <1>1, Updates DEF Updates1
<1> QED
  BY <1>1, <1>6, <1>7, <1>8 DEF Frame

LEMMA OnLayerMember ==
  ASSUME NEW d, Frame(d), NEW o, Known(d, o), o.path[1] = "layers", Len(o.path) = 3,
         NEW i, i = o.path[2], NEW x, x = ObjectOperation(d.layers[i], o.path[3], o)
  PROVE  ApplyOperation(d, o).layers = [d.layers EXCEPT ![i] = x]
<1>1. PICK a, b, k : a = o.path /\ b = <<"layers", i>> /\ k = o.path[3]
  OBVIOUS
<1>2. IsSeq(a) /\ Len(a) = 3 /\ a[1] = "layers" /\ a[2] = i
  BY <1>1 DEF Known
<1>3. IsSeq(b) /\ Len(b) = 2 /\ b[1] = "layers" /\ b[2] = i
  BY <1>1, Path2
<1>4. a = Append(b, k)
  <2>1. Len(a) = Len(b) + 1 /\ (\A j \in 1..Len(b) : a[j] = b[j]) /\ a[Len(a)] = k
    BY <1>1, <1>2, <1>3
  <2>2. IsSeq(a) /\ IsSeq(b)
    BY <1>2, <1>3
  <2> QED
    BY ONLY <2>1, <2>2, AppendOf
<1>5. b \notin ArrayPaths
  BY <1>1, Arrays
<1>6. ApplyOperation(d, o) = Update(d, b, ObjectOperation(GetAtPath(d, b), k, o))
  BY <1>1, <1>3, <1>4, <1>5, ApplyAtObject DEF At
<1>7. /\ Update(d, b, x) = [d EXCEPT !["layers"] = [d["layers"] EXCEPT ![i] = x]]
      /\ GetAtPath(d, b) = d["layers"][i]
  <2>1. PICK r : r = "layers"
    OBVIOUS
  <2>2. Updates2(d, r, i, x)
    BY Updates
  <2> QED
    BY <1>1, <2>1, <2>2 DEF Updates2
<1> QED
  BY <1>1, <1>6, <1>7 DEF Frame

LEMMA OnCell ==
  ASSUME NEW d, Frame(d), NEW o, Known(d, o), o.path[1] = "layers", Len(o.path) = 4,
         NEW i, i = o.path[2], NEW m, m = o.path[3],
         NEW x, x = With(d.layers[i][m], o.path[4], o.value)
  PROVE  ApplyOperation(d, o).layers = [d.layers EXCEPT ![i] = [d.layers[i] EXCEPT ![m] = x]]
<1>1. PICK a, b, k : a = o.path /\ b = <<"layers", i, m>> /\ k = o.path[4]
  OBVIOUS
<1>2. IsSeq(a) /\ Len(a) = 4 /\ a[1] = "layers" /\ a[2] = i /\ a[3] = m
  BY <1>1 DEF Known
<1>3. IsSeq(b) /\ Len(b) = 3 /\ b[1] = "layers" /\ b[2] = i /\ b[3] = m
  BY <1>1, Path3
<1>4. a = Append(b, k)
  <2>1. Len(a) = Len(b) + 1 /\ (\A j \in 1..Len(b) : a[j] = b[j]) /\ a[Len(a)] = k
    BY <1>1, <1>2, <1>3
  <2>2. IsSeq(a) /\ IsSeq(b)
    BY <1>2, <1>3
  <2> QED
    BY ONLY <2>1, <2>2, AppendOf
<1>5. b \notin ArrayPaths
  BY <1>1, Arrays
<1>6. ApplyOperation(d, o) = Update(d, b, ObjectOperation(GetAtPath(d, b), k, o))
  BY <1>1, <1>3, <1>4, <1>5, ApplyAtObject DEF At
<1>7. /\ Update(d, b, x) =
           [d EXCEPT !["layers"] = [d["layers"] EXCEPT ![i] = [d["layers"][i] EXCEPT ![m] = x]]]
      /\ GetAtPath(d, b) = d["layers"][i][m]
  <2>1. PICK r : r = "layers"
    OBVIOUS
  <2>2. Updates3(d, r, i, m, x)
    BY Updates
  <2> QED
    BY <1>1, <2>1, <2>2 DEF Updates3
<1>8. ObjectOperation(d["layers"][i][m], k, o) = x
  BY <1>1 DEF ObjectOperation, Known
<1> QED
  BY <1>6, <1>7, <1>8 DEF Frame

-----------------------------------------------------------------------------
(***************************************************************************)
(* A patch is a way of known operations from a document to another.        *)
(***************************************************************************)
Walks(d, p, f) ==
    /\ f[0] = d
    /\ \A k \in 1..Len(p) : /\ f[k] = ApplyOperation(f[k - 1], p[k])
                            /\ Known(f[k - 1], p[k])

Way(d, p) == IsSeq(p) /\ Frame(d) /\ \E f : Walks(d, p, f)

LEMMA WalkEnds ==
  ASSUME NEW d, NEW p, Way(d, p), NEW f, Walks(d, p, f)
  PROVE  /\ f[Len(p)] = ApplyJsonPatch(d, p)
         /\ \A k \in 0..Len(p) : Frame(f[k])
<1>1. PICK n : n = Len(p)
  OBVIOUS
<1>2. n \in Nat /\ DOMAIN p = 1..n
  BY <1>1, SeqIs DEF Way
<1>3. f[n] = ApplyJsonPatch(d, p)
  <2>1. Patching!LeftSteps(0, d, p, n, f)
    BY <1>1 DEF Walks, Patching!LeftSteps, PatchOp
  <2>2. Patching!LeftFold(0, d, p) = f[n]
    BY <1>2, <2>1, Patching!LeftFoldIs
  <2> QED
    BY <2>2, PatchIsFold
<1> DEFINE S == {k \in Nat : k <= n => Frame(f[k])}
<1>4. 0 \in S
  BY DEF Way, Walks
<1>5. ASSUME NEW k \in Nat, k \in S PROVE k + 1 \in S
  <2> SUFFICES ASSUME k + 1 <= n PROVE Frame(f[k + 1])
    OBVIOUS
  <2>1. k + 1 \in 1..n /\ (k + 1) - 1 = k /\ Frame(f[k])
    BY <1>2, <1>5
  <2>2. f[k + 1] = ApplyOperation(f[k], p[k + 1]) /\ Known(f[k], p[k + 1])
    BY <1>1, <2>1 DEF Walks
  <2> QED
    BY <2>1, <2>2, Elsewhere
<1>6. Nat \subseteq S
  <2> HIDE DEF S
  <2> QED
    BY <1>4, <1>5, Patching!Induction
<1> QED
  BY <1>1, <1>2, <1>3, <1>6

LEMMA WayEmpty ==
  ASSUME NEW d, Frame(d)
  PROVE  Way(d, << >>)
<1>1. PICK p : p = << >>
  OBVIOUS
<1>2. IsSeq(p) /\ Len(p) = 0
  BY <1>1, Path0
<1>3. Walks(d, p, [k \in 0..0 |-> d])
  BY <1>2 DEF Walks
<1> QED
  BY <1>1, <1>2, <1>3 DEF Way

LEMMA WayConcat ==
  ASSUME NEW d, NEW p, Way(d, p), NEW q, Way(ApplyJsonPatch(d, p), q)
  PROVE  Way(d, p \o q)
<1>1. PICK m, n, u, e : m = Len(p) /\ n = Len(q) /\ u = p \o q /\ e = ApplyJsonPatch(d, p)
  OBVIOUS
<1>2. IsSeq(p) /\ IsSeq(q)
  BY DEF Way
<1>3. Joins(u, p, q)
  BY <1>1, <1>2, ConcatIs
<1>4. m \in Nat /\ n \in Nat /\ Len(u) = m + n
  BY <1>1, <1>2, <1>3, SeqIs DEF Joins
<1>5. PICK f : Walks(d, p, f)
  BY DEF Way
<1>6. PICK g : Walks(e, q, g)
  BY <1>1 DEF Way
<1>7. f[m] = e
  BY <1>1, <1>5, WalkEnds
<1> DEFINE h == [k \in 0..(m + n) |-> IF k <= m THEN f[k] ELSE g[k - m]]
<1>8. h[0] = d
  BY <1>4, <1>5 DEF Walks
<1>9. ASSUME NEW k \in 1..(m + n)
      PROVE  h[k] = ApplyOperation(h[k - 1], u[k]) /\ Known(h[k - 1], u[k])
  <2>1. CASE k <= m
    <3>1. k \in 1..m /\ h[k] = f[k] /\ h[k - 1] = f[k - 1] /\ u[k] = p[k]
      BY <1>1, <1>3, <1>4, <2>1 DEF Joins
    <3> QED
      BY <1>1, <1>5, <3>1 DEF Walks
  <2>2. CASE k > m
    <3>1. PICK j : j = k - m
      OBVIOUS
    <3>2. j \in 1..n /\ k = m + j /\ j - 1 = k - 1 - m
      BY <1>4, <2>2, <3>1
    <3>3. u[k] = q[j] /\ h[k] = g[j]
      <4>1. u[m + j] = q[j]
        BY <1>1, <1>3, <3>2 DEF Joins
      <4>2. k \in 0..(m + n) /\ ~(k <= m)
        BY <1>4, <2>2
      <4> QED
        BY <3>1, <3>2, <4>1, <4>2
    <3>4. h[k - 1] = g[j - 1]
      <4>1. CASE j = 1
        <5>1. k - 1 = m /\ j - 1 = 0
          BY <1>4, <3>2, <4>1
        <5>2. h[m] = f[m]
          BY <1>4
        <5> QED
          BY <1>6, <1>7, <5>1, <5>2 DEF Walks
      <4>2. CASE j # 1
        <5>1. k - 1 \in 0..(m + n) /\ ~(k - 1 <= m)
          BY <1>4, <3>2, <4>2
        <5> QED
          BY <3>2, <5>1
      <4> QED
        BY <4>1, <4>2
    <3> QED
      BY <1>1, <1>6, <3>2, <3>3, <3>4 DEF Walks
  <2> QED
    BY <1>4, <2>1, <2>2
<1>10. Walks(d, u, h)
  BY <1>4, <1>8, <1>9 DEF Walks
<1> QED
  BY <1>1, <1>3, <1>10 DEF Way, Joins

LEMMA WayOne ==
  ASSUME NEW d, Frame(d), NEW o, Known(d, o)
  PROVE  Way(d, <<o>>) /\ ApplyJsonPatch(d, <<o>>) = ApplyOperation(d, o)
<1>1. PICK p, f : /\ p = <<o>>
                  /\ f = [k \in 0..1 |-> IF k = 0 THEN d ELSE ApplyOperation(d, o)]
  OBVIOUS
<1>2. IsSeq(p) /\ Len(p) = 1 /\ p[1] = o
  BY <1>1, Path1
<1>3. f[0] = d /\ f[1] = ApplyOperation(d, o)
  BY <1>1
<1>4. Walks(d, p, f)
  <2>1. ASSUME NEW k \in 1..Len(p) PROVE k = 1 /\ k - 1 = 0
    BY <1>2
  <2> QED
    BY <1>2, <1>3, <2>1 DEF Walks
<1>5. Way(d, p)
  BY <1>2, <1>4 DEF Way
<1>6. ApplyJsonPatch(d, p) = f[1]
  BY <1>2, <1>4, <1>5, WalkEnds
<1> QED
  BY <1>1, <1>3, <1>5, <1>6

LEMMA WayOn ==
  ASSUME NEW d, NEW p, Way(d, p), NEW o, Known(ApplyJsonPatch(d, p), o)
  PROVE  Way(d, Append(p, o))
<1>1. PICK e, q : e = ApplyJsonPatch(d, p) /\ q = <<o>>
  OBVIOUS
<1>2. PICK f : Walks(d, p, f)
  BY DEF Way
<1>3. IsSeq(p) /\ Len(p) \in Nat
  BY SeqIs DEF Way
<1>4. Frame(e)
  BY <1>1, <1>2, <1>3, WalkEnds
<1>5. Way(e, q)
  BY <1>1, <1>4, WayOne
<1>6. p \o q = Append(p, o)
  <2>1. IsSeq(q) /\ Len(q) = 1 /\ q[1] = o
    BY <1>1, Path1
  <2>2. PICK u : u = p \o q
    OBVIOUS
  <2>3. Joins(u, p, q)
    BY <1>3, <2>1, <2>2, ConcatIs
  <2>4. Len(u) = Len(p) + 1 /\ u[Len(p) + 1] = o
    BY <1>3, <2>1, <2>3 DEF Joins
  <2>5. u = Append(p, o)
    BY <1>3, <2>3, <2>4, AppendOf DEF Joins
  <2> QED
    BY <2>2, <2>5
<1>7. Way(d, p \o q)
  BY <1>1, <1>5, WayConcat
<1> QED
  BY <1>6, <1>7

LEMMA WayTwo ==
  ASSUME NEW d, Frame(d), NEW o, Known(d, o), NEW q, Known(ApplyOperation(d, o), q)
  PROVE  Way(d, <<o, q>>)
<1>1. Way(d, <<o>>) /\ ApplyJsonPatch(d, <<o>>) = ApplyOperation(d, o)
  BY WayOne
<1>2. PICK p : p = <<o>>
  OBVIOUS
<1>3. Way(d, Append(p, q))
  BY <1>1, <1>2, WayOn
<1> QED
  BY <1>2, <1>3, Path2

-----------------------------------------------------------------------------
(***************************************************************************)
(* The patch of every command is such a way.                               *)
(***************************************************************************)
\* Short paths.
Path1Is(p, a) == IsSeq(p) /\ Len(p) = 1 /\ p[1] = a
Path2Is(p, a, b) == IsSeq(p) /\ Len(p) = 2 /\ p[1] = a /\ p[2] = b
Path3Is(p, a, b, c) == IsSeq(p) /\ Len(p) = 3 /\ p[1] = a /\ p[2] = b /\ p[3] = c
Path4Is(p, a, b, c, e) ==
    IsSeq(p) /\ Len(p) = 4 /\ p[1] = a /\ p[2] = b /\ p[3] = c /\ p[4] = e

LEMMA ShortPaths ==
  ASSUME NEW a, NEW b, NEW c, NEW e
  PROVE  /\ Path1Is(<<a>>, a) /\ Path2Is(<<a, b>>, a, b)
         /\ Path3Is(<<a, b, c>>, a, b, c) /\ Path4Is(<<a, b, c, e>>, a, b, c, e)
BY Path1, Path2, Path3, Path4 DEF Path1Is, Path2Is, Path3Is, Path4Is

InScene(a) == IsSeq(a) /\ Len(a) >= 2 /\ a[1] = "extensions"

LEMMA InSceneOn ==
  ASSUME NEW a, InScene(a), NEW k
  PROVE  InScene(Append(a, k))
<1>1. IsSeq(a) /\ Len(a) \in Nat /\ Len(a) >= 2
  BY SeqIs DEF InScene
<1>2. 1 \in 1..Len(a) /\ Len(a) + 1 >= 2
  BY <1>1
<1> QED
  BY <1>1, <1>2, AppendIs DEF InScene

LEMMA ScenePathsIn ==
  ASSUME NEW k, NEW l, NEW m
  PROVE  /\ InScene(ScenePath) /\ InScene(Append(ScenePath, k))
         /\ InScene(ScenePath \o <<k, l>>) /\ InScene(ScenePath \o <<k, l, m>>)
<1>1. PICK a : a = ScenePath
  OBVIOUS
<1>2. Path2Is(a, "extensions", "scene3d")
  BY <1>1, ShortPaths DEF ScenePath
<1>3. InScene(a)
  BY <1>2 DEF InScene, Path2Is
<1>4. InScene(Append(a, k))
  BY <1>3, InSceneOn
<1>5. InScene(Append(Append(a, k), l))
  BY <1>4, InSceneOn
<1>6. InScene(Append(Append(Append(a, k), l), m))
  BY <1>5, InSceneOn
<1>7. /\ a \o <<k, l>> = Append(Append(a, k), l)
      /\ a \o <<k, l, m>> = Append(Append(Append(a, k), l), m)
  BY <1>1, ScenePaths
<1> QED
  BY <1>1, <1>3, <1>4, <1>5, <1>6, <1>7

LEMMA InSceneKnown ==
  ASSUME NEW d, NEW o, InScene(o.path), o.op \in {"add", "remove", "replace"}
  PROVE  Known(d, o)
<1>1. PICK n : n = Len(o.path)
  OBVIOUS
<1>2. n \in Nat /\ n >= 2 /\ IsSeq(o.path) /\ o.path[1] = "extensions"
  BY <1>1, SeqIs DEF InScene
<1>3. n >= 1 /\ n # 1 /\ o.op \in {"add", "remove", "replace"}
  BY <1>2
<1> QED
  BY ONLY <1>1, <1>2, <1>3 DEF Known

\* The operations of the commands.
LEMMA OperationsAre ==
  ASSUME NEW G, NEW n, NEW path, NEW v
  PROVE  /\ Add(path, v).path = path /\ Add(path, v).op = "add"
         /\ Replace(path, v).path = path /\ Replace(path, v).op = "replace"
         /\ Delete(path).path = path /\ Delete(path).op = "remove"
         /\ Put(G, n, path, v).path = path /\ Put(G, n, path, v).op \in {"add", "replace"}
BY DEF Add, Replace, Delete, Put

LEMMA SpecIsFrame ==
  ASSUME NEW d, SpecShape(d)
  PROVE  Frame(d)
BY DEF SpecShape, Frame

LEMMA SceneWay ==
  ASSUME NEW d, SpecShape(d), NEW path, InScene(path),
         NEW o, o.path = path, o.op \in {"add", "remove", "replace"}
  PROVE  Way(d, <<o>>)
BY SpecIsFrame, InSceneKnown, WayOne

\* The commands on sources, on a member of the document and on a layer.
LEMMA SourceWay ==
  ASSUME NEW d, SpecShape(d), NEW id, NEW o, o.path = <<"sources", id>>, o.op \in {"add", "remove"}
  PROVE  Way(d, <<o>>)
<1>1. Path2Is(o.path, "sources", id)
  BY ShortPaths
<1>2. o.op \in {"add", "remove"}
  OBVIOUS
<1>3. Known(d, o)
  BY ONLY <1>1, <1>2 DEF Known, Path1Is, Path2Is, Path3Is, Path4Is
<1> QED
  BY <1>3, SpecIsFrame, WayOne

LEMMA MemberWay ==
  ASSUME NEW d, SpecShape(d), NEW n, n \notin {"sources", "layers"},
         NEW o, o.path = <<n>>, o.op \in {"add", "replace"}
  PROVE  Way(d, <<o>>)
<1>1. Path1Is(o.path, n)
  BY ShortPaths
<1>2. o.op \in {"add", "replace"} /\ n \notin {"sources", "layers"}
  OBVIOUS
<1>3. Known(d, o)
  BY ONLY <1>1, <1>2 DEF Known, Path1Is, Path2Is, Path3Is, Path4Is
<1> QED
  BY <1>3, SpecIsFrame, WayOne

LEMMA LayersKnown ==
  ASSUME NEW d, NEW i, NEW o, o.path = <<"layers", i>>, o.op \in {"add", "remove"}
  PROVE  Known(d, o)
<1>1. Path2Is(o.path, "layers", i)
  BY ShortPaths
<1>2. o.op \in {"add", "remove"}
  OBVIOUS
<1> QED
  BY ONLY <1>1, <1>2 DEF Known, Path1Is, Path2Is, Path3Is, Path4Is

LEMMA LayerMemberKnown ==
  ASSUME NEW d, NEW i \in DOMAIN d.layers, NEW m, NEW o, o.path = <<"layers", i, m>>,
         o.op \in {"add", "remove", "replace"}
  PROVE  Known(d, o)
<1>1. Path3Is(o.path, "layers", i, m)
  BY ShortPaths
<1>2. o.op \in {"add", "remove", "replace"} /\ i \in DOMAIN d.layers
  OBVIOUS
<1> QED
  BY ONLY <1>1, <1>2 DEF Known, Path1Is, Path2Is, Path3Is, Path4Is

LEMMA CellKnown ==
  ASSUME NEW d, NEW i \in DOMAIN d.layers, NEW m \in {"paint", "layout"}, Has(d.layers[i], m),
         NEW k, NEW o, o.path = <<"layers", i, m, k>>, o.op \in {"add", "replace"}
  PROVE  Known(d, o)
<1>1. Path4Is(o.path, "layers", i, m, k)
  BY ShortPaths
<1>2. o.op \in {"add", "replace"} /\ i \in DOMAIN d.layers /\ m \in {"paint", "layout"}
      /\ Has(d.layers[i], m)
  OBVIOUS
<1> QED
  BY ONLY <1>1, <1>2 DEF Known, Path1Is, Path2Is, Path3Is, Path4Is

\* The layer a command names is one of the layers.
LEMMA LayerIsThere ==
  ASSUME NEW d, SpecShape(d), NEW id, LayerAt(d.layers, id) # 0
  PROVE  LayerAt(d.layers, id) \in DOMAIN d.layers
<1>1. IsSeq(d.layers)
  BY LayersReach
<1>2. Len(d.layers) \in Nat /\ DOMAIN d.layers = 1..Len(d.layers)
  BY <1>1, SeqIs
<1>3. LayerAt(d.layers, id) \in 0..Len(d.layers)
  BY <1>1, LayerAtIs
<1> QED
  BY <1>2, <1>3

LEMMA SetFilterWay ==
  ASSUME NEW c, NEW d, SpecShape(d), LayerAt(d.layers, c.id) # 0,
         NEW b, b = SetFilter(c, d), b.kind = "patch"
  PROVE  Way(d, b.patch)
<1>1. PICK i, path : i = LayerAt(d.layers, c.id) /\ path = <<"layers", i, "filter">>
  OBVIOUS
<1>2. i \in DOMAIN d.layers
  BY <1>1, LayerIsThere
<1>3. PICK o, q : o = Put(d.layers[i], "filter", path, c.value) /\ q = Delete(path)
  OBVIOUS
<1>4. b.patch = <<o>> \/ b.patch = <<q>>
  BY <1>1, <1>3 DEF SetFilter, Built, Skipped
<1>5. Known(d, o) /\ Known(d, q)
  BY <1>1, <1>2, <1>3, OperationsAre, LayerMemberKnown
<1> QED
  BY <1>4, <1>5, SpecIsFrame, WayOne

LEMMA SetLayerZoomRangeWay ==
  ASSUME NEW c, NEW d, SpecShape(d), LayerAt(d.layers, c.id) # 0,
         NEW b, b = SetLayerZoomRange(c, d), b.kind = "patch"
  PROVE  Way(d, b.patch)
<1>1. PICK i : i = LayerAt(d.layers, c.id)
  OBVIOUS
<1>2. i \in DOMAIN d.layers
  BY <1>1, LayerIsThere
<1>3. PICK o, q, e :
        /\ o = Put(d.layers[i], "minzoom", <<"layers", i, "minzoom">>, c.minzoom)
        /\ q = Put(d.layers[i], "maxzoom", <<"layers", i, "maxzoom">>, c.maxzoom)
        /\ e = ApplyOperation(d, o)
  OBVIOUS
<1>4. b.patch = <<o, q>>
  BY <1>1, <1>3 DEF SetLayerZoomRange, Built, Failed
<1>5. o.path = <<"layers", i, "minzoom">> /\ q.path = <<"layers", i, "maxzoom">>
      /\ o.op \in {"add", "remove", "replace"} /\ q.op \in {"add", "remove", "replace"}
  BY <1>3, OperationsAre
<1>6. Known(d, o) /\ Frame(d)
  BY <1>2, <1>5, SpecIsFrame, LayerMemberKnown
<1>7. o.path[1] = "layers" /\ Len(o.path) = 3 /\ o.path[2] = i
  <2>1. Path3Is(o.path, "layers", i, "minzoom")
    BY <1>5, ShortPaths
  <2> QED
    BY <2>1 DEF Path3Is
<1>8. DOMAIN e.layers = DOMAIN d.layers
  <2>1. PICK x : x = ObjectOperation(d.layers[i], o.path[3], o)
    OBVIOUS
  <2>2. e.layers = [d.layers EXCEPT ![i] = x]
    BY <1>3, <1>6, <1>7, <2>1, OnLayerMember
  <2> QED
    BY <2>2
<1>9. Known(e, q)
  BY <1>2, <1>5, <1>8, LayerMemberKnown
<1> QED
  BY <1>3, <1>4, <1>6, <1>9, WayTwo

LEMMA ReorderLayerWay ==
  ASSUME NEW c, NEW d, SpecShape(d), LayerAt(d.layers, c.id) # 0,
         NEW b, b = ReorderLayer(c, d), b.kind = "patch"
  PROVE  Way(d, b.patch)
<1>1. PICK i, j, layer : /\ i = LayerAt(d.layers, c.id) /\ layer = d.layers[i]
                         /\ j = Anchor(RemoveAt(d.layers, i), c.before)
  OBVIOUS
<1>2. PICK o, q : o = Delete(<<"layers", i>>) /\ q = Add(<<"layers", j>>, layer)
  OBVIOUS
<1>3. b.patch = <<o, q>>
  BY <1>1, <1>2 DEF ReorderLayer, Built, Skipped, Failed
<1>4. \A e : Known(e, o) /\ Known(e, q)
  BY <1>2, OperationsAre, LayersKnown
<1> QED
  BY <1>3, <1>4, SpecIsFrame, WayTwo

\* patchRecordMerge: the layer keeps the member while its names are put one by one.
MergedSoFar(d, i, m, p, k) ==
    LET e == ApplyJsonPatch(d, First(p, k)) IN
    Way(d, First(p, k)) /\ Frame(e) /\ i \in DOMAIN e.layers /\ Has(e.layers[i], m)

LEMMA FirstIs ==
  ASSUME NEW p, IsSeq(p), NEW k \in Nat, k + 1 <= Len(p)
  PROVE  IsSeq(First(p, k)) /\ First(p, k + 1) = Append(First(p, k), p[k + 1])
<1>1. PICK s, t : s = First(p, k) /\ t = First(p, k + 1)
  OBVIOUS
<1>2. DOMAIN s = 1..k /\ IsObject(s) /\ DOMAIN t = 1..(k + 1) /\ IsObject(t)
  BY <1>1 DEF First, IsObject
<1>3. (\A i \in 1..k : t[i] = s[i]) /\ t[k + 1] = p[k + 1]
  BY <1>1 DEF First
<1>4. IsSeq(s) /\ Len(s) = k /\ IsSeq(t) /\ Len(t) = k + 1
  BY <1>2, ArrayIs
<1>5. t = Append(s, p[k + 1])
  BY <1>3, <1>4, AppendOf
<1> QED
  BY <1>1, <1>4, <1>5

LEMMA FirstOfAll ==
  ASSUME NEW p, IsSeq(p)
  PROVE  First(p, 0) = << >> /\ First(p, Len(p)) = p
<1>1. Len(p) \in Nat /\ DOMAIN p = 1..Len(p) /\ p = [i \in DOMAIN p |-> p[i]]
  BY SeqIs DEF IsObject
<1>2. First(p, Len(p)) = p
  BY <1>1 DEF First
<1>3. First(p, 0) = << >>
  BY DEF First
<1> QED
  BY <1>2, <1>3

PutsIn(p, i, m, names) ==
    \A k \in 1..Len(p) : /\ p[k].path = <<"layers", i, m, names[k]>>
                         /\ p[k].op \in {"add", "replace"}

LEMMA MergeWay ==
  ASSUME NEW d, SpecShape(d), NEW i \in DOMAIN d.layers, NEW m \in {"paint", "layout"},
         Has(d.layers[i], m), NEW names, NEW p, IsSeq(p), PutsIn(p, i, m, names)
  PROVE  Way(d, p)
<1> DEFINE S == {k \in Nat : k <= Len(p) => MergedSoFar(d, i, m, p, k)}
<1>1. Len(p) \in Nat
  BY SeqIs
<1>2. 0 \in S
  <2>1. First(p, 0) = << >>
    BY FirstOfAll
  <2>2. Way(d, << >>) /\ ApplyJsonPatch(d, << >>) = d /\ Frame(d)
    BY SpecIsFrame, WayEmpty, PatchEmpty
  <2> QED
    BY <2>1, <2>2 DEF MergedSoFar
<1>3. ASSUME NEW k \in Nat, k \in S PROVE k + 1 \in S
  <2> SUFFICES ASSUME k + 1 <= Len(p) PROVE MergedSoFar(d, i, m, p, k + 1)
    OBVIOUS
  <2>1. PICK q, o, e, x : /\ q = First(p, k) /\ o = p[k + 1] /\ e = ApplyJsonPatch(d, q)
                          /\ x = With(e.layers[i][m], o.path[4], o.value)
    OBVIOUS
  <2>2. Way(d, q) /\ Frame(e) /\ i \in DOMAIN e.layers /\ Has(e.layers[i], m)
    <3>1. MergedSoFar(d, i, m, p, k)
      BY <1>1, <1>3
    <3> QED
      BY <2>1, <3>1 DEF MergedSoFar
  <2>3. IsSeq(q) /\ First(p, k + 1) = Append(q, o)
    BY <2>1, FirstIs
  <2>4. o.path = <<"layers", i, m, names[k + 1]>> /\ o.op \in {"add", "replace"}
    BY <1>1, <2>1 DEF PutsIn
  <2>5. Known(e, o)
    BY <2>2, <2>4, CellKnown
  <2>6. Way(d, Append(q, o)) /\ ApplyJsonPatch(d, Append(q, o)) = ApplyOperation(e, o)
    <3>1. Known(ApplyJsonPatch(d, q), o)
      BY <2>1, <2>5
    <3>2. Way(d, Append(q, o))
      BY <2>2, <3>1, WayOn
    <3>3. ApplyJsonPatch(d, Append(q, o)) = ApplyOperation(ApplyJsonPatch(d, q), o)
      BY <2>3, PatchAppend
    <3> QED
      BY <2>1, <3>2, <3>3
  <2>7. Frame(ApplyOperation(e, o))
    BY <2>2, <2>5, Elsewhere
  <2>8. o.path[1] = "layers" /\ Len(o.path) = 4 /\ o.path[2] = i /\ o.path[3] = m
    <3>1. Path4Is(o.path, "layers", i, m, names[k + 1])
      BY <2>4, ShortPaths
    <3> QED
      BY <3>1 DEF Path4Is
  <2>9. ApplyOperation(e, o).layers = [e.layers EXCEPT ![i] = [e.layers[i] EXCEPT ![m] = x]]
    BY <2>1, <2>2, <2>5, <2>8, OnCell
  <2>10. /\ i \in DOMAIN ApplyOperation(e, o).layers
         /\ Has(ApplyOperation(e, o).layers[i], m)
    BY <2>2, <2>9 DEF Has
  <2> QED
    BY <2>3, <2>6, <2>7, <2>10 DEF MergedSoFar
<1>4. Nat \subseteq S
  <2> HIDE DEF S
  <2> QED
    BY <1>2, <1>3, Patching!Induction
<1>5. MergedSoFar(d, i, m, p, Len(p))
  BY <1>1, <1>4
<1> QED
  BY <1>5, FirstOfAll DEF MergedSoFar

LEMMA PatchRecordMergeIs ==
  ASSUME NEW c, NEW d, IsFiniteSet(DOMAIN c.value), NEW i, i = LayerAt(d.layers, c.id),
         NEW m, m = c.member, NEW p, p = PatchRecordMerge(c, d).patch
  PROVE  \/ ~Has(d.layers[i], m) /\ p = <<Add(<<"layers", i, m>>, c.value)>>
         \/ Has(d.layers[i], m) /\ IsSeq(p) /\ \E names : PutsIn(p, i, m, names)
<1>1. PICK layer, names, a : /\ layer = d.layers[i] /\ names = SetToSeq(DOMAIN c.value)
                             /\ a = <<"layers", i, m>>
  OBVIOUS
<1>2. CASE ~Has(layer, m)
  <2>1. p = <<Add(a, c.value)>>
    BY <1>1, <1>2 DEF PatchRecordMerge, Built
  <2> QED
    BY <1>1, <1>2, <2>1
<1>3. CASE Has(layer, m)
  <2>1. p = [k \in DOMAIN names |-> Put(layer[m], names[k], Append(a, names[k]), c.value[names[k]])]
    BY <1>1, <1>3 DEF PatchRecordMerge, Built
  <2>2. IsSeq(names)
    BY <1>1, NamesInOrder
  <2>3. Len(names) \in Nat /\ DOMAIN names = 1..Len(names)
    BY <2>2, SeqIs
  <2>4. IsSeq(p) /\ Len(p) = Len(names)
    <3>1. DOMAIN p = 1..Len(names) /\ IsObject(p)
      BY <2>1, <2>3 DEF IsObject
    <3> QED
      BY <2>3, <3>1, ArrayIs
  <2>5. ASSUME NEW k \in 1..Len(p)
        PROVE  p[k].path = <<"layers", i, m, names[k]>> /\ p[k].op \in {"add", "replace"}
    <3>1. p[k] = Put(layer[m], names[k], Append(a, names[k]), c.value[names[k]])
      BY <2>1, <2>3, <2>4
    <3>2. Append(a, names[k]) = <<"layers", i, m, names[k]>>
      BY <1>1, Path4
    <3> QED
      BY <3>1, <3>2, OperationsAre
  <2>6. PutsIn(p, i, m, names)
    BY <2>5 DEF PutsIn
  <2> QED
    BY <1>1, <1>3, <2>4, <2>6
<1> QED
  BY <1>2, <1>3

LEMMA PatchRecordMergeWay ==
  ASSUME NEW c, NEW d, SpecShape(d), LayerAt(d.layers, c.id) # 0,
         c.member \in {"paint", "layout"}, IsFiniteSet(DOMAIN c.value)
  PROVE  Way(d, PatchRecordMerge(c, d).patch)
<1>1. PICK i, m, p : /\ i = LayerAt(d.layers, c.id) /\ m = c.member
                     /\ p = PatchRecordMerge(c, d).patch
  OBVIOUS
<1>2. i \in DOMAIN d.layers /\ m \in {"paint", "layout"}
  BY <1>1, LayerIsThere
<1>3. CASE p = <<Add(<<"layers", i, m>>, c.value)>>
  <2>1. PICK o : o = Add(<<"layers", i, m>>, c.value)
    OBVIOUS
  <2>2. Known(d, o)
    BY <1>2, <2>1, OperationsAre, LayerMemberKnown
  <2> QED
    BY <1>1, <1>3, <2>1, <2>2, SpecIsFrame, WayOne
<1>4. CASE Has(d.layers[i], m) /\ IsSeq(p) /\ \E names : PutsIn(p, i, m, names)
  <2>1. PICK names : PutsIn(p, i, m, names)
    BY <1>4
  <2>2. Way(d, p)
    BY <1>2, <1>4, <2>1, MergeWay
  <2> QED
    BY <1>1, <2>2
<1> QED
  BY <1>1, <1>3, <1>4, PatchRecordMergeIs

LEMMA LayerCommandWay ==
  ASSUME NEW c, CommandShape(c), NEW d, SpecShape(d),
         c.type \in {"removeLayer", "setPaint", "setLayout", "setFilter",
                     "setLayerZoomRange", "reorderLayer"},
         NEW b, b = LayerCommand(c, d), b.kind = "patch"
  PROVE  Way(d, b.patch)
<1>1. LayerAt(d.layers, c.id) # 0
  BY DEF LayerCommand, Failed
<1>2. CASE c.type = "removeLayer"
  <2>1. PICK i, o : i = LayerAt(d.layers, c.id) /\ o = Delete(<<"layers", i>>)
    OBVIOUS
  <2>2. b.patch = <<o>>
    BY <1>1, <1>2, <2>1 DEF LayerCommand, RemoveLayer, Built
  <2>3. Known(d, o)
    BY <2>1, OperationsAre, LayersKnown
  <2> QED
    BY <2>2, <2>3, SpecIsFrame, WayOne
<1>3. CASE c.type \in {"setPaint", "setLayout"}
  <2>1. c.member \in {"paint", "layout"} /\ IsFiniteSet(DOMAIN c.value)
    BY <1>3 DEF CommandShape
  <2>2. b = PatchRecordMerge(c, d)
    BY <1>1, <1>3 DEF LayerCommand
  <2> QED
    BY <1>1, <2>1, <2>2, PatchRecordMergeWay
<1>4. CASE c.type = "setFilter"
  BY <1>1, <1>4, SetFilterWay DEF LayerCommand
<1>5. CASE c.type = "setLayerZoomRange"
  BY <1>1, <1>5, SetLayerZoomRangeWay DEF LayerCommand
<1>6. CASE c.type = "reorderLayer"
  BY <1>1, <1>6, ReorderLayerWay DEF LayerCommand
<1> QED
  BY <1>2, <1>3, <1>4, <1>5, <1>6

\* The commands on the scene: one operation, on the extensions or below the scene.
OnScene(p) ==
    \E o : /\ p = <<o>> /\ o.op \in {"add", "remove", "replace"}
           /\ InScene(o.path) \/ (o.path = <<"extensions">> /\ o.op = "add")

LEMMA SceneCommandIs ==
  ASSUME NEW c, NEW d,
         NEW b, b.kind = "patch",
         b \in {SetSceneCamera(c, d), AddSceneSource(c, d), RemoveSceneSource(c, d),
                AddSceneLayer(c, d), RemoveSceneLayer(c, d), SetSceneLayerVisibility(c, d)}
  PROVE  OnScene(b.patch)
<1>1. ASSUME NEW o, o.op \in {"add", "remove", "replace"}, InScene(o.path), b.patch = <<o>>
      PROVE  OnScene(b.patch)
  BY <1>1 DEF OnScene
<1>2. ASSUME NEW path, InScene(path), NEW v, b.patch = <<Add(path, v)>> PROVE OnScene(b.patch)
  <2>1. PICK o : o = Add(path, v)
    OBVIOUS
  <2>2. o.op \in {"add", "remove", "replace"} /\ o.path = path
    BY <2>1, OperationsAre
  <2> QED
    BY <1>1, <1>2, <2>1, <2>2
<1>3. ASSUME NEW path, InScene(path), b.patch = <<Delete(path)>> PROVE OnScene(b.patch)
  <2>1. PICK o : o = Delete(path)
    OBVIOUS
  <2>2. o.op \in {"add", "remove", "replace"} /\ o.path = path
    BY <2>1, OperationsAre
  <2> QED
    BY <1>1, <1>3, <2>1, <2>2
<1>4. ASSUME NEW G, NEW n, NEW path, InScene(path), NEW v, b.patch = <<Put(G, n, path, v)>>
      PROVE  OnScene(b.patch)
  <2>1. PICK o : o = Put(G, n, path, v)
    OBVIOUS
  <2>2. o.op \in {"add", "remove", "replace"} /\ o.path = path
    BY <2>1, OperationsAre
  <2> QED
    BY <1>1, <1>4, <2>1, <2>2
<1>5. CASE b = SetSceneCamera(c, d)
  <2>1. PICK o, a, v, w : /\ o = Add(<<"extensions">>, [scene3d |-> [camera |-> c.value]])
                          /\ a = Append(ScenePath, "camera")
                          /\ v = [camera |-> c.value] /\ w = Scene(d)
    OBVIOUS
  <2>2. \/ b.patch = <<o>> \/ b.patch = <<Add(ScenePath, v)>>
        \/ b.patch = <<Put(w, "camera", a, c.value)>>
    BY <1>5, <2>1 DEF SetSceneCamera, Built
  <2>3. CASE b.patch = <<o>>
    <3>1. PICK path, x : path = <<"extensions">> /\ x = [scene3d |-> [camera |-> c.value]]
      OBVIOUS
    <3>2. o = Add(path, x)
      BY <2>1, <3>1
    <3>3. o.path = <<"extensions">> /\ o.op = "add"
      BY <3>1, <3>2, OperationsAre
    <3> QED
      BY <2>3, <3>3 DEF OnScene
  <2>4. CASE b.patch = <<Add(ScenePath, v)>>
    BY <1>2, <2>4, ScenePathsIn
  <2>5. CASE b.patch = <<Put(w, "camera", a, c.value)>>
    BY <1>4, <2>1, <2>5, ScenePathsIn
  <2> QED
    BY <2>2, <2>3, <2>4, <2>5
<1>6. CASE b = AddSceneSource(c, d)
  <2>1. PICK a, e, v : /\ a = Append(ScenePath, "sources") /\ e = ScenePath \o <<"sources", c.id>>
                       /\ v = With(<< >>, c.id, c.value)
    OBVIOUS
  <2>2. b.patch = <<Add(a, v)>> \/ b.patch = <<Add(e, c.value)>>
    BY <1>6, <2>1 DEF AddSceneSource, Built, Failed, Skipped
  <2>3. InScene(a) /\ InScene(e)
    BY <2>1, ScenePathsIn
  <2> QED
    BY <1>2, <2>2, <2>3
<1>7. CASE b = RemoveSceneSource(c, d)
  <2>1. b.patch = <<Delete(ScenePath \o <<"sources", c.id>>)>>
    BY <1>7 DEF RemoveSceneSource, Built, Failed
  <2> QED
    BY <1>3, <2>1, ScenePathsIn
<1>8. CASE b = AddSceneLayer(c, d)
  <2>1. PICK a, e, v, n : /\ a = Append(ScenePath, "layers") /\ n = Len(SceneLayers(d)) + 1
                          /\ e = ScenePath \o <<"layers", n>> /\ v = <<c.value>>
    OBVIOUS
  <2>2. b.patch = <<Add(a, v)>> \/ b.patch = <<Add(e, c.value)>>
    BY <1>8, <2>1 DEF AddSceneLayer, Built, Failed, Skipped
  <2>3. InScene(a) /\ InScene(e)
    BY <2>1, ScenePathsIn
  <2> QED
    BY <1>2, <2>2, <2>3
<1>9. CASE b = RemoveSceneLayer(c, d)
  <2>1. PICK i : i = LayerAt(SceneLayers(d), c.id)
    OBVIOUS
  <2>2. b.patch = <<Delete(ScenePath \o <<"layers", i>>)>>
    BY <1>9, <2>1 DEF RemoveSceneLayer, Built, Failed
  <2> QED
    BY <1>3, <2>2, ScenePathsIn
<1>10. CASE b = SetSceneLayerVisibility(c, d)
  <2>1. PICK i, G, a : /\ i = LayerAt(SceneLayers(d), c.id) /\ G = SceneLayers(d)[i]
                       /\ a = ScenePath \o <<"layers", i, "visible">>
    OBVIOUS
  <2>2. b.patch = <<Put(G, "visible", a, c.value)>>
    BY <1>10, <2>1 DEF SetSceneLayerVisibility, Built, Failed
  <2>3. InScene(a)
    BY <2>1, ScenePathsIn
  <2> QED
    BY <1>4, <2>2, <2>3
<1> QED
  BY <1>5, <1>6, <1>7, <1>8, <1>9, <1>10

LEMMA SceneCommandWay ==
  ASSUME NEW c, NEW d, SpecShape(d),
         NEW b, b.kind = "patch",
         b \in {SetSceneCamera(c, d), AddSceneSource(c, d), RemoveSceneSource(c, d),
                AddSceneLayer(c, d), RemoveSceneLayer(c, d), SetSceneLayerVisibility(c, d)}
  PROVE  Way(d, b.patch)
<1>1. PICK o : /\ b.patch = <<o>> /\ o.op \in {"add", "remove", "replace"}
               /\ InScene(o.path) \/ (o.path = <<"extensions">> /\ o.op = "add")
  BY SceneCommandIs DEF OnScene
<1>2. CASE InScene(o.path)
  BY <1>1, <1>2, SceneWay
<1>3. CASE o.path = <<"extensions">> /\ o.op = "add"
  BY <1>1, <1>3, MemberWay
<1> QED
  BY <1>1, <1>2, <1>3

LEMMA CommandWay ==
  ASSUME NEW c, CommandShape(c), NEW d, SpecShape(d), NEW b, b = BuildPatch(c, d), b.kind = "patch"
  PROVE  Way(d, b.patch)
<1>1. CASE c.type = "addSource"
  <2>1. PICK o : o = Add(<<"sources", c.id>>, c.value)
    OBVIOUS
  <2>2. b.patch = <<o>>
    BY <1>1, <2>1 DEF BuildPatch, AddSource, Built, Skipped
  <2> QED
    BY <2>1, <2>2, OperationsAre, SourceWay
<1>2. CASE c.type = "removeSource"
  <2>1. PICK o : o = Delete(<<"sources", c.id>>)
    OBVIOUS
  <2>2. b.patch = <<o>>
    BY <1>2, <2>1 DEF BuildPatch, RemoveSource, Built, Failed
  <2> QED
    BY <2>1, <2>2, OperationsAre, SourceWay
<1>3. CASE c.type = "addLayer"
  <2>1. PICK i, o : i = Anchor(d.layers, c.before) /\ o = Add(<<"layers", i>>, c.value)
    OBVIOUS
  <2>2. b.patch = <<o>>
    BY <1>3, <2>1 DEF BuildPatch, AddLayer, Built, Skipped, Failed
  <2>3. Known(d, o)
    BY <2>1, OperationsAre, LayersKnown
  <2> QED
    BY <2>2, <2>3, SpecIsFrame, WayOne
<1>4. CASE c.type \in {"removeLayer", "setPaint", "setLayout", "setFilter",
                       "setLayerZoomRange", "reorderLayer"}
  <2>1. b = LayerCommand(c, d)
    BY <1>4 DEF BuildPatch
  <2> QED
    BY <1>4, <2>1, LayerCommandWay
<1>5. CASE c.type \in {"setView", "fitBounds"}
  <2>1. PICK x : b.patch = <<Replace(<<"view">>, x)>>
    BY <1>5 DEF BuildPatch, SetView, FitBounds, Built
  <2>2. PICK o : o = Replace(<<"view">>, x)
    OBVIOUS
  <2> QED
    BY <2>1, <2>2, OperationsAre, MemberWay
<1>6. CASE c.type \in {"setCapabilities", "setInteractions"}
  <2>1. c.member \in {"capabilities", "interactions"}
    BY <1>6 DEF CommandShape
  <2>2. PICK o : o = Put(d, c.member, <<c.member>>, c.value)
    OBVIOUS
  <2>3. b.patch = <<o>>
    BY <1>6, <2>2 DEF BuildPatch, SetMember, Built
  <2>4. o.path = <<c.member>> /\ o.op \in {"add", "replace"}
    BY <2>2, OperationsAre
  <2>5. c.member \notin {"sources", "layers"}
    BY <2>1
  <2> QED
    BY <2>3, <2>4, <2>5, MemberWay
<1>7. CASE c.type \in {"setSceneCamera", "addSceneSource", "removeSceneSource", "addSceneLayer",
                       "removeSceneLayer", "setSceneLayerVisibility"}
  <2>1. b \in {SetSceneCamera(c, d), AddSceneSource(c, d), RemoveSceneSource(c, d),
               AddSceneLayer(c, d), RemoveSceneLayer(c, d), SetSceneLayerVisibility(c, d)}
    BY <1>7 DEF BuildPatch
  <2> QED
    BY <2>1, SceneCommandWay
<1>8. \/ c.type \in {"addSource", "removeSource", "addLayer"}
      \/ c.type \in {"removeLayer", "setPaint", "setLayout", "setFilter",
                     "setLayerZoomRange", "reorderLayer"}
      \/ c.type \in {"setView", "fitBounds"} \/ c.type \in {"setCapabilities", "setInteractions"}
      \/ c.type \in {"setSceneCamera", "addSceneSource", "removeSceneSource", "addSceneLayer",
                     "removeSceneLayer", "setSceneLayerVisibility"}
  BY DEF BuildPatch, Failed
<1> QED
  BY <1>1, <1>2, <1>3, <1>4, <1>5, <1>6, <1>7, <1>8

\* With the operation on the revision after the others.
LEMMA WholeWay ==
  ASSUME NEW d, SpecShape(d), NEW p, Way(d, p)
  PROVE  Way(d, WholePatch(p, d))
<1>1. PICK o, e : o = Put(d, "revision", <<"revision">>, NextRevision(d)) /\ e = ApplyJsonPatch(d, p)
  OBVIOUS
<1>2. Path1Is(o.path, "revision") /\ o.op \in {"add", "replace"}
  <2>1. PICK path : path = <<"revision">>
    OBVIOUS
  <2>2. Path1Is(path, "revision")
    BY <2>1, ShortPaths
  <2>3. o.path = path /\ o.op \in {"add", "replace"}
    BY <1>1, <2>1, OperationsAre
  <2> QED
    BY <2>2, <2>3
<1>3. Known(e, o)
  BY ONLY <1>2 DEF Known, Path1Is
<1>4. Way(d, Append(p, o))
  BY <1>1, <1>3, WayOn
<1> QED
  BY <1>1, <1>4 DEF WholePatch

-----------------------------------------------------------------------------
(***************************************************************************)
(* An incremental patch.  A value that none of the operations left to come *)
(* touches is already what it is in the end, in the document and so, with  *)
(* the final values that the adapter takes, in the map.                    *)
(***************************************************************************)
OnSourceOf(o, id) == o.path[1] = "sources" /\ o.path[2] = id
OnFilterOf(o, i) == o.path[1] = "layers" /\ Len(o.path) = 3 /\ o.path[2] = i
OnCellOf(o, i, m, n) ==
    o.path[1] = "layers" /\ Len(o.path) = 4 /\ o.path[2] = i /\ o.path[3] = m /\ o.path[4] = n

\* No operation of a patch after the k-th is on it.
SourceLeft(p, k, id) == \A j \in 1..Len(p) : j > k => ~OnSourceOf(p[j], id)
FilterLeft(p, k, i) == \A j \in 1..Len(p) : j > k => ~OnFilterOf(p[j], i)
CellLeft(p, k, i, m, n) == \A j \in 1..Len(p) : j > k => ~OnCellOf(p[j], i, m, n)

NearSources(s, S, p, k) == \A id : SourceLeft(p, k, id) => Same(s, S, id)

NearLayer(l, L, p, k, i) ==
    /\ \A n : n \notin {"filter", "paint", "layout"} => Same(l, L, n)
    /\ FilterLeft(p, k, i) => Same(l, L, "filter")
    /\ \A m \in {"paint", "layout"} :
           /\ Has(l, m) <=> Has(L, m)
           /\ Has(L, m) => \A n : CellLeft(p, k, i, m, n) => Same(l[m], L[m], n)

NearLayers(s, S, p, k) ==
    DOMAIN s = DOMAIN S /\ \A i \in DOMAIN S : NearLayer(s[i], S[i], p, k, i)

\* The operations that an adapter handles.
Plain(o, F) ==
    \/ o.path[1] \in {"view", "interactions", "revision"}
    \/ o.path[1] = "sources"
    \/ /\ o.path[1] = "layers" /\ o.path[2] \in DOMAIN F.layers
       /\ \/ Len(o.path) = 4 /\ o.path[3] \in {"paint", "layout"}
          \/ Len(o.path) = 3 /\ o.path[3] = "filter"

LEMMA LeftBack ==
  ASSUME NEW p, IsSeq(p), NEW k \in 1..Len(p)
  PROVE  /\ \A id : SourceLeft(p, k - 1, id) => SourceLeft(p, k, id) /\ ~OnSourceOf(p[k], id)
         /\ \A i : FilterLeft(p, k - 1, i) => FilterLeft(p, k, i) /\ ~OnFilterOf(p[k], i)
         /\ \A i, m, n : CellLeft(p, k - 1, i, m, n) =>
                            CellLeft(p, k, i, m, n) /\ ~OnCellOf(p[k], i, m, n)
<1>1. Len(p) \in Nat /\ k \in Int /\ k > k - 1
  BY SeqIs
<1>2. \A j \in 1..Len(p) : j > k => j > k - 1
  BY <1>1
<1> QED
  BY <1>1, <1>2 DEF SourceLeft, FilterLeft, CellLeft

LEMMA LeftOn ==
  ASSUME NEW p, IsSeq(p), NEW k \in 1..Len(p)
  PROVE  /\ \A id : SourceLeft(p, k, id) /\ ~OnSourceOf(p[k], id) => SourceLeft(p, k - 1, id)
         /\ \A i : FilterLeft(p, k, i) /\ ~OnFilterOf(p[k], i) => FilterLeft(p, k - 1, i)
         /\ \A i, m, n : CellLeft(p, k, i, m, n) /\ ~OnCellOf(p[k], i, m, n) =>
                            CellLeft(p, k - 1, i, m, n)
<1>1. Len(p) \in Nat /\ k \in Int
  BY SeqIs
<1>2. \A j \in 1..Len(p) : j > k - 1 => j > k \/ j = k
  BY <1>1
<1> QED
  BY <1>2 DEF SourceLeft, FilterLeft, CellLeft

LEMMA NothingLeft ==
  ASSUME NEW p, IsSeq(p)
  PROVE  /\ \A id : SourceLeft(p, Len(p), id)
         /\ \A i : FilterLeft(p, Len(p), i)
         /\ \A i, m, n : CellLeft(p, Len(p), i, m, n)
<1>1. Len(p) \in Nat
  BY SeqIs
<1>2. \A j \in 1..Len(p) : ~(j > Len(p))
  BY <1>1
<1> QED
  BY <1>2 DEF SourceLeft, FilterLeft, CellLeft

\* With the operation still to come less is claimed.
LEMMA NearBefore ==
  ASSUME NEW p, IsSeq(p), NEW k \in 1..Len(p)
  PROVE  /\ \A s, S : NearSources(s, S, p, k) => NearSources(s, S, p, k - 1)
         /\ \A l, L, i : NearLayer(l, L, p, k, i) => NearLayer(l, L, p, k - 1, i)
         /\ \A s, S : NearLayers(s, S, p, k) => NearLayers(s, S, p, k - 1)
<1>1. ASSUME NEW s, NEW S, NearSources(s, S, p, k) PROVE NearSources(s, S, p, k - 1)
  BY <1>1, LeftBack DEF NearSources
<1>2. ASSUME NEW l, NEW L, NEW i, NearLayer(l, L, p, k, i) PROVE NearLayer(l, L, p, k - 1, i)
  BY <1>2, LeftBack DEF NearLayer
<1>3. ASSUME NEW s, NEW S, NearLayers(s, S, p, k) PROVE NearLayers(s, S, p, k - 1)
  BY <1>2, <1>3 DEF NearLayers
<1> QED
  BY <1>1, <1>2, <1>3

LEMMA NearItself ==
  ASSUME NEW p, NEW k, NEW s
  PROVE  NearSources(s, s, p, k) /\ NearLayers(s, s, p, k)
BY DEF NearSources, NearLayers, NearLayer, Same

\* What an operation leaves as it was.
LEMMA WithKept ==
  ASSUME NEW s, NEW n, NEW v
  PROVE  /\ IsObject(With(s, n, v)) /\ Has(With(s, n, v), n) /\ With(s, n, v)[n] = v
         /\ \A k : k # n => Same(With(s, n, v), s, k)
BY DEF With, Same, Has, IsObject

LEMMA WithoutKept ==
  ASSUME NEW s, NEW n
  PROVE  /\ IsObject(Without(s, n)) /\ ~Has(Without(s, n), n)
         /\ \A k : k # n => Same(Without(s, n), s, k)
BY DEF Without, Same, Has, IsObject

LEMMA OthersKept ==
  ASSUME NEW s, NEW n, NEW o
  PROVE  \A k : k # n => Same(ObjectOperation(s, n, o), s, k)
BY WithKept, WithoutKept DEF ObjectOperation

LEMMA RestKept ==
  ASSUME NEW d, Frame(d), NEW o, Known(d, o), NEW e, e = ApplyOperation(d, o)
  PROVE  /\ o.path[1] # "sources" => e.sources = d.sources
         /\ o.path[1] # "layers" => e.layers = d.layers
<1>1. \A n : n # o.path[1] => Same(e, d, n)
  BY Elsewhere
<1>2. Has(d, "sources") /\ Has(d, "layers")
  BY DEF Frame, Has
<1> QED
  BY <1>1, <1>2 DEF Same

LEMMA SourcesBack ==
  ASSUME NEW p, IsSeq(p), NEW k \in 1..Len(p), NEW d, Frame(d), NEW o, o = p[k], Known(d, o),
         NEW e, e = ApplyOperation(d, o), NEW S, NearSources(e.sources, S, p, k)
  PROVE  NearSources(d.sources, S, p, k - 1)
<1>1. CASE o.path[1] # "sources"
  BY <1>1, RestKept, NearBefore
<1>2. CASE o.path[1] = "sources"
  <2>1. e.sources = ObjectOperation(d.sources, o.path[2], o)
    BY <1>2, OnSource
  <2>2. ASSUME NEW id, SourceLeft(p, k - 1, id) PROVE Same(d.sources, S, id)
    <3>1. SourceLeft(p, k, id) /\ id # o.path[2]
      BY <1>2, <2>2, LeftBack DEF OnSourceOf
    <3>2. Same(e.sources, S, id) /\ Same(e.sources, d.sources, id)
      BY <2>1, <3>1, OthersKept DEF NearSources
    <3> QED
      BY <3>2 DEF Same
  <2> QED
    BY <2>2 DEF NearSources
<1> QED
  BY <1>1, <1>2

LEMMA FilterBack ==
  ASSUME NEW p, IsSeq(p), NEW k \in 1..Len(p), NEW o, o = p[k], NEW i, OnFilterOf(o, i),
         NEW l, NEW x, x = ObjectOperation(l, "filter", o), NEW L, NearLayer(x, L, p, k, i)
  PROVE  NearLayer(l, L, p, k - 1, i)
<1>1. \A n : n # "filter" => Same(x, l, n)
  BY OthersKept
<1>2. NearLayer(x, L, p, k - 1, i) /\ ~FilterLeft(p, k - 1, i)
  BY NearBefore, LeftBack
<1> QED
  BY <1>1, <1>2 DEF NearLayer, Same

LEMMA CellBack ==
  ASSUME NEW p, IsSeq(p), NEW k \in 1..Len(p), NEW o, o = p[k], NEW i, NEW m \in {"paint", "layout"},
         NEW n, OnCellOf(o, i, m, n), NEW l, Has(l, m), NEW v,
         NEW x, x = [l EXCEPT ![m] = With(l[m], n, v)], NEW L, NearLayer(x, L, p, k, i)
  PROVE  NearLayer(l, L, p, k - 1, i)
<1>1. \A a : a # m => Same(x, l, a)
  BY DEF Same, Has
<1>2. NearLayer(x, L, p, k - 1, i) /\ ~CellLeft(p, k - 1, i, m, n)
  BY NearBefore, LeftBack
<1>3. Has(x, m) /\ Has(L, m) /\ x[m] = With(l[m], n, v)
  BY <1>2 DEF Has, NearLayer
<1>4. ASSUME NEW a, CellLeft(p, k - 1, i, m, a) PROVE Same(l[m], L[m], a)
  <2>1. a # n
    BY <1>2, <1>4
  <2>2. Same(x[m], L[m], a) /\ Same(x[m], l[m], a)
    BY <1>2, <1>3, <1>4, <2>1, WithKept DEF NearLayer
  <2> QED
    BY <2>2 DEF Same
<1>5. ASSUME NEW a, a # m, Same(x, L, a) PROVE Same(l, L, a)
  BY <1>1, <1>5 DEF Same
<1>6. ASSUME NEW a \in {"paint", "layout"}
      PROVE  /\ Has(l, a) <=> Has(L, a)
             /\ Has(L, a) => \A b : CellLeft(p, k - 1, i, a, b) => Same(l[a], L[a], b)
  <2>1. CASE a = m
    BY <1>3, <1>4, <2>1
  <2>2. CASE a # m
    <3>1. Same(x, l, a) /\ (Has(x, a) <=> Has(L, a))
      BY <1>1, <1>2, <2>2 DEF NearLayer
    <3>2. Has(L, a) => l[a] = x[a]
      BY <3>1 DEF Same
    <3>3. Has(L, a) => \A b : CellLeft(p, k - 1, i, a, b) => Same(x[a], L[a], b)
      BY <1>2 DEF NearLayer
    <3> QED
      BY <3>1, <3>2, <3>3 DEF Same
  <2> QED
    BY <2>1, <2>2
<1>7. \A a : a \notin {"filter", "paint", "layout"} => Same(l, L, a)
  BY <1>2, <1>5 DEF NearLayer
<1>8. FilterLeft(p, k - 1, i) => Same(l, L, "filter")
  BY <1>2, <1>5 DEF NearLayer
<1> QED
  BY <1>6, <1>7, <1>8 DEF NearLayer

LEMMA LayersBack ==
  ASSUME NEW p, IsSeq(p), NEW k \in 1..Len(p), NEW d, Frame(d), NEW o, o = p[k], Known(d, o),
         NEW e, e = ApplyOperation(d, o), NEW F, Plain(o, F), NearLayers(e.layers, F.layers, p, k)
  PROVE  NearLayers(d.layers, F.layers, p, k - 1)
<1>1. CASE o.path[1] # "layers"
  BY <1>1, RestKept, NearBefore
<1>2. CASE o.path[1] = "layers"
  <2>1. PICK i, m : i = o.path[2] /\ m = o.path[3]
    OBVIOUS
  <2>2. /\ i \in DOMAIN F.layers
        /\ \/ Len(o.path) = 4 /\ m \in {"paint", "layout"}
           \/ Len(o.path) = 3 /\ m = "filter"
    BY <1>2, <2>1 DEF Plain
  <2>3. ASSUME NEW x, e.layers = [d.layers EXCEPT ![i] = x],
               NearLayer(x, F.layers[i], p, k, i) => NearLayer(d.layers[i], F.layers[i], p, k - 1, i)
        PROVE  NearLayers(d.layers, F.layers, p, k - 1)
    <3>1. DOMAIN d.layers = DOMAIN F.layers /\ e.layers[i] = x
      BY <2>2, <2>3 DEF NearLayers
    <3>2. \A j \in DOMAIN F.layers : j # i => e.layers[j] = d.layers[j]
      BY <2>3, <3>1
    <3>3. \A j \in DOMAIN F.layers : NearLayer(e.layers[j], F.layers[j], p, k, j)
      BY DEF NearLayers
    <3>4. NearLayer(d.layers[i], F.layers[i], p, k - 1, i)
      BY <2>2, <2>3, <3>1, <3>3
    <3>5. ASSUME NEW j \in DOMAIN F.layers, j # i
          PROVE  NearLayer(d.layers[j], F.layers[j], p, k - 1, j)
      BY <3>2, <3>3, <3>5, NearBefore
    <3> QED
      BY <3>1, <3>4, <3>5 DEF NearLayers
  <2>4. CASE Len(o.path) = 3 /\ m = "filter"
    <3>1. PICK x : x = ObjectOperation(d.layers[i], "filter", o)
      OBVIOUS
    <3>2. e.layers = [d.layers EXCEPT ![i] = x]
      <4>1. Len(o.path) = 3 /\ x = ObjectOperation(d.layers[i], o.path[3], o)
        BY <2>1, <2>4, <3>1
      <4>2. ApplyOperation(d, o).layers = [d.layers EXCEPT ![i] = x]
        BY ONLY Frame(d), Known(d, o), <1>2, <2>1, <4>1, OnLayerMember
      <4> QED
        BY <4>2
    <3>3. OnFilterOf(o, i)
      BY <1>2, <2>1, <2>4 DEF OnFilterOf
    <3> QED
      BY <2>3, <3>1, <3>2, <3>3, FilterBack
  <2>5. CASE Len(o.path) = 4 /\ m \in {"paint", "layout"}
    <3>1. PICK n, v, l, y, x : /\ n = o.path[4] /\ v = o.value /\ l = d.layers[i]
                               /\ y = With(l[m], n, v) /\ x = [l EXCEPT ![m] = With(l[m], n, v)]
      OBVIOUS
    <3>2. e.layers = [d.layers EXCEPT ![i] = [d.layers[i] EXCEPT ![m] = y]]
      <4>1. Len(o.path) = 4 /\ y = With(d.layers[i][m], o.path[4], o.value)
        BY <2>1, <2>5, <3>1
      <4>2. ApplyOperation(d, o).layers = [d.layers EXCEPT ![i] = [d.layers[i] EXCEPT ![m] = y]]
        BY ONLY Frame(d), Known(d, o), <1>2, <2>1, <4>1, OnCell
      <4> QED
        BY <4>2
    <3>3. e.layers = [d.layers EXCEPT ![i] = x]
      BY <3>1, <3>2
    <3>4. OnCellOf(o, i, m, n)
      BY <1>2, <2>1, <2>5, <3>1 DEF OnCellOf
    <3>5. Has(d.layers[i], m)
      <4>1. PICK n4 : n4 = Len(o.path)
        OBVIOUS
      <4>2. n4 = 4 /\ n4 > 3
        BY <2>5, <4>1
      <4> QED
        BY <1>2, <2>1, <4>1, <4>2 DEF Known
    <3>6. ASSUME NearLayer(x, F.layers[i], p, k, i) PROVE NearLayer(l, F.layers[i], p, k - 1, i)
      <4>1. PICK L : L = F.layers[i]
        OBVIOUS
      <4>2. /\ m \in {"paint", "layout"} /\ Has(l, m) /\ x = [l EXCEPT ![m] = With(l[m], n, v)]
            /\ IsSeq(p) /\ k \in 1..Len(p) /\ o = p[k]
        BY <2>5, <3>1, <3>5
      <4>3. NearLayer(x, L, p, k, i)
        BY <3>6, <4>1
      <4>4. NearLayer(l, L, p, k - 1, i)
        BY ONLY <3>4, <4>2, <4>3, CellBack
      <4> QED
        BY <4>1, <4>4
    <3> QED
      BY <2>3, <3>1, <3>3, <3>6
  <2> QED
    BY <2>2, <2>4, <2>5
<1> QED
  BY <1>1, <1>2

(***************************************************************************)
(* The style of a spec, cell by cell.                                      *)
(***************************************************************************)
StyleNames(type) ==
    {"id", "filter", "minzoom", "maxzoom", "layout", "paint"} \cup
        (IF type = "background" THEN {} ELSE {"source"})

Transforms(t, layer) ==
    /\ IsObject(t) /\ Has(t, "type") /\ t.type = MapLayerType(layer.type)
    /\ \A n : n # "type" => /\ Has(t, n) <=> Has(layer, n) /\ n \in StyleNames(layer.type)
                            /\ Has(t, n) => t[n] = layer[n]

LEMMA TransformIs ==
  ASSUME NEW layer
  PROVE  Transforms(TransformLayer(layer), layer)
<1>1. PICK o, v : o = Only(layer, StyleNames(layer.type)) /\ v = MapLayerType(layer.type)
  OBVIOUS
<1>2. TransformLayer(layer) = With(o, "type", v)
  BY <1>1 DEF TransformLayer, StyleNames
<1>3. \A n : /\ Has(o, n) <=> Has(layer, n) /\ n \in StyleNames(layer.type)
             /\ Has(o, n) => o[n] = layer[n]
  BY <1>1 DEF Only, Has
<1>4. IsObject(With(o, "type", v))
  BY ObjectsAre
<1>5. Has(With(o, "type", v), "type") /\ With(o, "type", v)["type"] = v
  BY DEF With, Has
<1>6. ASSUME NEW n, n # "type" PROVE Same(With(o, "type", v), o, n)
  BY <1>6, WithKept
<1> QED
  BY <1>1, <1>2, <1>3, <1>4, <1>5, <1>6 DEF Transforms, Same

LEMMA TransformNear ==
  ASSUME NEW p, NEW k, NEW i, NEW l, NEW L, NearLayer(l, L, p, k, i), Has(l, "type"),
         NEW t, Transforms(t, l), NEW T, Transforms(T, L)
  PROVE  NearLayer(t, T, p, k, i)
<1>1. Has(L, "type") /\ l.type = L.type
  BY DEF NearLayer, Same
<1>2. Same(t, T, "type")
  BY <1>1 DEF Transforms, Same
<1>3. ASSUME NEW n, n # "type", Same(l, L, n) PROVE Same(t, T, n)
  BY <1>1, <1>3 DEF Transforms, Same
<1>4. ASSUME NEW m \in {"paint", "layout"}
      PROVE  /\ Has(t, m) <=> Has(T, m)
             /\ Has(T, m) => \A n : CellLeft(p, k, i, m, n) => Same(t[m], T[m], n)
  <2>1. m \in StyleNames(l.type) /\ m \in StyleNames(L.type) /\ m # "type"
    BY DEF StyleNames
  <2>2. (Has(t, m) <=> Has(l, m)) /\ (Has(T, m) <=> Has(L, m))
        /\ (Has(t, m) => t[m] = l[m]) /\ (Has(T, m) => T[m] = L[m])
    BY <2>1 DEF Transforms
  <2> QED
    BY <2>2 DEF NearLayer
<1> QED
  BY <1>2, <1>3, <1>4 DEF NearLayer

\* Everything of a style is a JSON object.
LayerObject(l) == IsObject(l) /\ \A m \in {"paint", "layout"} \cap DOMAIN l : IsObject(l[m])

StyleObjects(sources, layers) ==
    IsObject(sources) /\ IsObject(layers) /\ \A i \in DOMAIN layers : LayerObject(layers[i])

LEMMA StyleIs ==
  ASSUME NEW d, SpecShape(d), NEW s, s = StyleOf(d)
  PROVE  /\ StyleObjects(s.sources, s.layers)
         /\ DOMAIN s.sources = DOMAIN d.sources /\ DOMAIN s.layers = DOMAIN d.layers
         /\ \A id \in DOMAIN d.sources : s.sources[id] = TransformSource(d.sources[id])
         /\ \A i \in DOMAIN d.layers : Transforms(s.layers[i], d.layers[i])
<1>1. /\ s.sources = [id \in DOMAIN d.sources |-> TransformSource(d.sources[id])]
      /\ s.layers = [i \in DOMAIN d.layers |-> TransformLayer(d.layers[i])]
  BY DEF StyleOf
<1>2. /\ IsObject(s.sources) /\ IsObject(s.layers)
      /\ DOMAIN s.sources = DOMAIN d.sources /\ DOMAIN s.layers = DOMAIN d.layers
  BY <1>1 DEF IsObject
<1>3. \A i \in DOMAIN d.layers : Transforms(s.layers[i], d.layers[i])
  BY <1>1, TransformIs
<1>4. \A i \in DOMAIN d.layers : LayerShape(d.layers[i])
  BY DEF SpecShape, LayersShape
<1>5. ASSUME NEW i \in DOMAIN s.layers PROVE LayerObject(s.layers[i])
  <2>1. PICK t, l : t = s.layers[i] /\ l = d.layers[i]
    OBVIOUS
  <2>2. Transforms(t, l) /\ LayerShape(l)
    BY <1>2, <1>3, <1>4, <2>1
  <2>3. LayerObject(t)
    <3>1. ASSUME NEW m \in {"paint", "layout"} \cap DOMAIN t PROVE IsObject(t[m])
      <4>1. Has(l, m) /\ t[m] = l[m]
        BY <2>2 DEF Transforms, Has
      <4> QED
        BY <2>2, <4>1 DEF LayerShape, Has
    <3> QED
      BY <2>2, <3>1 DEF LayerObject, Transforms
  <2> QED
    BY <2>1, <2>3
<1> QED
  BY <1>1, <1>2, <1>3, <1>5 DEF StyleObjects

(***************************************************************************)
(* A live map on its way to the style of a final spec.                     *)
(***************************************************************************)
IsMap(m) == IsObject(m) /\ {"sources", "layers", "camera", "toggles"} \subseteq DOMAIN m

Styled(m, F, p, k) ==
    /\ IsMap(m) /\ StyleObjects(m.sources, m.layers)
    /\ NearSources(m.sources, StyleOf(F).sources, p, k)
    /\ NearLayers(m.layers, StyleOf(F).layers, p, k)

LEMMA StyledAtFirst ==
  ASSUME NEW d, SpecShape(d), NEW F, SpecShape(F), NEW p,
         NearSources(d.sources, F.sources, p, 0), NearLayers(d.layers, F.layers, p, 0),
         NEW m, IsMap(m), m.sources = StyleOf(d).sources, m.layers = StyleOf(d).layers
  PROVE  Styled(m, F, p, 0)
<1>1. PICK s, S : s = StyleOf(d) /\ S = StyleOf(F)
  OBVIOUS
<1>2. /\ StyleObjects(s.sources, s.layers)
      /\ DOMAIN s.sources = DOMAIN d.sources /\ DOMAIN s.layers = DOMAIN d.layers
      /\ \A id \in DOMAIN d.sources : s.sources[id] = TransformSource(d.sources[id])
      /\ \A i \in DOMAIN d.layers : Transforms(s.layers[i], d.layers[i])
  BY <1>1, StyleIs
<1>3. /\ DOMAIN S.sources = DOMAIN F.sources /\ DOMAIN S.layers = DOMAIN F.layers
      /\ \A id \in DOMAIN F.sources : S.sources[id] = TransformSource(F.sources[id])
      /\ \A i \in DOMAIN F.layers : Transforms(S.layers[i], F.layers[i])
  BY <1>1, StyleIs
<1>4. ASSUME NEW id, Same(d.sources, F.sources, id) PROVE Same(s.sources, S.sources, id)
  BY <1>2, <1>3, <1>4 DEF Same, Has
<1>5. NearSources(s.sources, S.sources, p, 0)
  BY <1>4 DEF NearSources
<1>6. DOMAIN d.layers = DOMAIN F.layers
  BY DEF NearLayers
<1>7. ASSUME NEW i \in DOMAIN F.layers PROVE NearLayer(s.layers[i], S.layers[i], p, 0, i)
  <2>1. NearLayer(d.layers[i], F.layers[i], p, 0, i)
    BY DEF NearLayers
  <2>2. Has(d.layers[i], "type")
    BY <1>6 DEF SpecShape, LayersShape, LayerShape, Has
  <2>3. Transforms(s.layers[i], d.layers[i]) /\ Transforms(S.layers[i], F.layers[i])
    BY <1>2, <1>3, <1>6
  <2> QED
    BY <2>1, <2>2, <2>3, TransformNear
<1>8. NearLayers(s.layers, S.layers, p, 0)
  BY <1>2, <1>3, <1>6, <1>7 DEF NearLayers
<1> QED
  BY <1>1, <1>2, <1>5, <1>8 DEF Styled

LEMMA SameAll ==
  ASSUME NEW a, IsObject(a), NEW b, IsObject(b), \A n : Same(a, b, n)
  PROVE  a = b
<1>1. DOMAIN a = DOMAIN b /\ \A n \in DOMAIN b : a[n] = b[n]
  BY DEF Same, Has
<1>2. [n \in DOMAIN a |-> a[n]] = [n \in DOMAIN b |-> b[n]]
  BY <1>1
<1> QED
  BY <1>2 DEF IsObject

LEMMA StyledAtLast ==
  ASSUME NEW p, IsSeq(p), NEW F, SpecShape(F), NEW m, Styled(m, F, p, Len(p))
  PROVE  m.sources = StyleOf(F).sources /\ m.layers = StyleOf(F).layers
<1>1. PICK S, k : S = StyleOf(F) /\ k = Len(p)
  OBVIOUS
<1>2. /\ StyleObjects(m.sources, m.layers) /\ StyleObjects(S.sources, S.layers)
      /\ NearSources(m.sources, S.sources, p, k) /\ NearLayers(m.layers, S.layers, p, k)
  BY <1>1, StyleIs DEF Styled
<1>3. /\ \A id : SourceLeft(p, k, id)
      /\ \A i : FilterLeft(p, k, i)
      /\ \A i, n, c : CellLeft(p, k, i, n, c)
  BY <1>1, NothingLeft
<1>4. m.sources = S.sources
  BY <1>2, <1>3, SameAll DEF NearSources, StyleObjects
<1>5. DOMAIN m.layers = DOMAIN S.layers
  BY <1>2 DEF NearLayers
<1>6. ASSUME NEW i \in DOMAIN S.layers PROVE m.layers[i] = S.layers[i]
  <2>1. PICK l, L : l = m.layers[i] /\ L = S.layers[i]
    OBVIOUS
  <2>2. NearLayer(l, L, p, k, i) /\ LayerObject(l) /\ LayerObject(L)
    BY <1>2, <1>5, <2>1 DEF NearLayers, StyleObjects
  <2>3. ASSUME NEW n \in {"paint", "layout"} PROVE Same(l, L, n)
    <3>1. Has(l, n) <=> Has(L, n)
      BY <2>2 DEF NearLayer
    <3>2. ASSUME Has(L, n) PROVE l[n] = L[n]
      <4>1. \A c : Same(l[n], L[n], c)
        BY <1>3, <2>2, <3>2 DEF NearLayer
      <4>2. IsObject(l[n]) /\ IsObject(L[n])
        BY <2>2, <3>1, <3>2 DEF LayerObject, Has
      <4> QED
        BY <4>1, <4>2, SameAll
    <3> QED
      BY <3>1, <3>2 DEF Same
  <2>4. \A n : Same(l, L, n)
    BY <1>3, <2>2, <2>3 DEF NearLayer
  <2>5. l = L
    BY <2>2, <2>4, SameAll DEF LayerObject
  <2> QED
    BY <2>1, <2>5
<1>7. m.layers = S.layers
  <2>1. \A i : Same(m.layers, S.layers, i)
    BY <1>5, <1>6 DEF Same, Has
  <2> QED
    BY <1>2, <2>1, SameAll DEF StyleObjects
<1> QED
  BY <1>1, <1>4, <1>7

(***************************************************************************)
(* One operation on a live map.                                            *)
(***************************************************************************)
\* What the operation is not on is as near as it was.
LEMMA NearAfter ==
  ASSUME NEW p, IsSeq(p), NEW k \in 1..Len(p), NEW o, o = p[k]
  PROVE  /\ \A s, S : o.path[1] # "sources" /\ NearSources(s, S, p, k - 1) => NearSources(s, S, p, k)
         /\ \A l, L, i : /\ o.path[1] # "layers" \/ o.path[2] # i
                         /\ NearLayer(l, L, p, k - 1, i)
                         => NearLayer(l, L, p, k, i)
         /\ \A s, S : o.path[1] # "layers" /\ NearLayers(s, S, p, k - 1) => NearLayers(s, S, p, k)
<1>1. ASSUME NEW s, NEW S, o.path[1] # "sources", NearSources(s, S, p, k - 1)
      PROVE  NearSources(s, S, p, k)
  <2>1. \A id : ~OnSourceOf(o, id)
    BY <1>1 DEF OnSourceOf
  <2> QED
    BY <1>1, <2>1, LeftOn DEF NearSources
<1>2. ASSUME NEW l, NEW L, NEW i, o.path[1] # "layers" \/ o.path[2] # i,
             NearLayer(l, L, p, k - 1, i)
      PROVE  NearLayer(l, L, p, k, i)
  <2>1. ~OnFilterOf(o, i) /\ \A m, n : ~OnCellOf(o, i, m, n)
    BY <1>2 DEF OnFilterOf, OnCellOf
  <2>2. FilterLeft(p, k, i) => FilterLeft(p, k - 1, i)
    BY <2>1, LeftOn
  <2>3. \A m, n : CellLeft(p, k, i, m, n) => CellLeft(p, k - 1, i, m, n)
    BY <2>1, LeftOn
  <2> QED
    BY <1>2, <2>2, <2>3 DEF NearLayer
<1>3. ASSUME NEW s, NEW S, o.path[1] # "layers", NearLayers(s, S, p, k - 1)
      PROVE  NearLayers(s, S, p, k)
  BY <1>2, <1>3 DEF NearLayers
<1> QED
  BY <1>1, <1>2, <1>3

\* A source that a layer of the final style names is one of the final spec.
LEMMA SourceInUse ==
  ASSUME NEW F, SpecShape(F), ValidateSpec(F), NEW p, NEW k, NEW m, Styled(m, F, p, k),
         NEW i \in DOMAIN m.layers, Has(m.layers[i], "source")
  PROVE  Has(F.sources, m.layers[i].source)
<1>1. PICK S, l, L : S = StyleOf(F) /\ l = m.layers[i] /\ L = F.layers[i]
  OBVIOUS
<1>2. DOMAIN m.layers = DOMAIN S.layers /\ DOMAIN S.layers = DOMAIN F.layers
  BY <1>1, StyleIs DEF Styled, NearLayers
<1>3. Transforms(S.layers[i], L)
  BY <1>1, <1>2, StyleIs
<1>4. NearLayer(l, S.layers[i], p, k, i)
  BY <1>1, <1>2 DEF Styled, NearLayers
<1>5. Same(l, S.layers[i], "source") /\ Has(l, "source")
  BY <1>1, <1>4 DEF NearLayer
<1>6. Has(L, "source") /\ l.source = L.source
  BY <1>3, <1>5 DEF Same, Transforms
<1>7. ValidLayer(L, F)
  BY <1>1, <1>2 DEF ValidateSpec
<1> QED
  BY <1>1, <1>6, <1>7 DEF ValidLayer

Emptied(s, sources, id) == s = sources \/ s = Without(sources, id)

LEMMA RemoveSourceIs ==
  ASSUME NEW m, IsMap(m), NEW id, NEW r, r = RemoveSourceFrom(m, id)
  PROVE  /\ IsMap(r) /\ r.layers = m.layers /\ r.camera = m.camera /\ r.toggles = m.toggles
         /\ Emptied(r.sources, m.sources, id)
         /\ \/ r.sources = Without(m.sources, id)
            \/ \E i \in DOMAIN m.layers : Has(m.layers[i], "source") /\ m.layers[i].source = id
BY DEF RemoveSourceFrom, IsMap, IsObject, Emptied

SourceDone(m, o, F, r) ==
    LET id == o.path[2]
        emptied == RemoveSourceFrom(m, id) IN
    \/ r = emptied /\ o.op = "remove"
    \/ /\ r = [emptied EXCEPT !.sources = With(@, id, TransformSource(F.sources[id]))]
       /\ Has(F.sources, id)

LEMMA SourceHandled ==
  ASSUME NEW m, NEW o, NEW F, SourceOperation(m, o, F).handled
  PROVE  SourceDone(m, o, F, SourceOperation(m, o, F).map)
BY DEF SourceOperation, SourceDone, Refused, Handled

LEMMA SourceStyled ==
  ASSUME NEW F, SpecShape(F), ValidateSpec(F), NEW p, IsSeq(p), NEW k \in 1..Len(p),
         NEW o, o = p[k], o.path[1] = "sources", NEW d, Frame(d), Known(d, o),
         NearSources(ApplyOperation(d, o).sources, F.sources, p, k),
         NEW m, Styled(m, F, p, k - 1), NEW r, SourceDone(m, o, F, r)
  PROVE  Styled(r, F, p, k) /\ r.camera = m.camera /\ r.toggles = m.toggles
<1>1. PICK id, x, S, v : /\ id = o.path[2] /\ x = RemoveSourceFrom(m, id) /\ S = StyleOf(F)
                         /\ v = TransformSource(F.sources[id])
  OBVIOUS
<1>2. IsMap(m) /\ StyleObjects(m.sources, m.layers)
      /\ NearSources(m.sources, S.sources, p, k - 1) /\ NearLayers(m.layers, S.layers, p, k - 1)
  BY <1>1 DEF Styled
<1>3. /\ IsMap(x) /\ x.layers = m.layers /\ x.camera = m.camera /\ x.toggles = m.toggles
      /\ Emptied(x.sources, m.sources, id)
      /\ \/ x.sources = Without(m.sources, id)
         \/ \E i \in DOMAIN m.layers : Has(m.layers[i], "source") /\ m.layers[i].source = id
  BY <1>1, <1>2, RemoveSourceIs
<1>4. IsObject(x.sources)
  BY <1>2, <1>3, WithoutKept DEF Emptied, StyleObjects
<1>5. NearLayers(m.layers, S.layers, p, k)
  BY <1>2, NearAfter
<1>6. ASSUME NEW n, n # id, SourceLeft(p, k, n) PROVE Same(x.sources, S.sources, n)
  <2>1. SourceLeft(p, k - 1, n)
    BY <1>1, <1>6, LeftOn DEF OnSourceOf
  <2>2. Same(m.sources, S.sources, n)
    BY <1>2, <2>1 DEF NearSources
  <2>3. Same(x.sources, m.sources, n)
    <3>1. CASE x.sources = m.sources
      BY <3>1 DEF Same
    <3>2. CASE x.sources = Without(m.sources, id)
      BY <1>6, <3>2, WithoutKept
    <3> QED
      BY <1>3, <3>1, <3>2 DEF Emptied
  <2> QED
    BY <2>2, <2>3 DEF Same
<1>7. DOMAIN S.sources = DOMAIN F.sources
      /\ (Has(F.sources, id) => S.sources[id] = v)
  BY <1>1, StyleIs DEF Has
<1>8. CASE r = x /\ o.op = "remove"
  <2>1. ASSUME SourceLeft(p, k, id) PROVE Same(x.sources, S.sources, id)
    <3>1. ApplyOperation(d, o).sources = ObjectOperation(d.sources, id, o)
      BY <1>1, OnSource
    <3>2. Same(ApplyOperation(d, o).sources, F.sources, id)
      BY <2>1 DEF NearSources
    <3>3. ~Has(ObjectOperation(d.sources, id, o), id)
      BY <1>8, WithoutKept DEF ObjectOperation
    <3>4. ~Has(F.sources, id)
      BY <3>1, <3>2, <3>3 DEF Same
    <3>5. ~ \E i \in DOMAIN m.layers : Has(m.layers[i], "source") /\ m.layers[i].source = id
      BY <3>4, SourceInUse
    <3>6. ~Has(x.sources, id)
      BY <1>3, <3>5, WithoutKept
    <3> QED
      BY <1>7, <3>4, <3>6 DEF Same, Has
  <2>2. NearSources(r.sources, S.sources, p, k)
    BY <1>6, <1>8, <2>1 DEF NearSources
  <2> QED
    BY <1>1, <1>2, <1>3, <1>4, <1>5, <1>8, <2>2 DEF Styled, StyleObjects
<1>9. CASE /\ r = [x EXCEPT !.sources = With(@, id, v)] /\ Has(F.sources, id)
  <2>1. PICK y : y = With(x.sources, id, v)
    OBVIOUS
  <2>2. /\ IsMap(r) /\ r.sources = y /\ r.layers = m.layers
        /\ r.camera = m.camera /\ r.toggles = m.toggles
    BY <1>3, <1>9, <2>1 DEF IsMap, IsObject
  <2>3. IsObject(y) /\ Has(y, id) /\ y[id] = v
    BY <2>1, WithKept
  <2>4. Same(y, S.sources, id)
    BY <1>7, <1>9, <2>3 DEF Same, Has
  <2>5. ASSUME NEW n, n # id, SourceLeft(p, k, n) PROVE Same(y, S.sources, n)
    <3>1. Same(x.sources, S.sources, n) /\ Same(y, x.sources, n)
      BY <1>6, <2>1, <2>5, WithKept
    <3> QED
      BY <3>1 DEF Same
  <2>6. NearSources(r.sources, S.sources, p, k)
    BY <2>2, <2>4, <2>5 DEF NearSources
  <2> QED
    BY <1>1, <1>2, <1>5, <2>2, <2>3, <2>6 DEF Styled, StyleObjects
<1> QED
  BY <1>1, <1>8, <1>9 DEF SourceDone

(***************************************************************************)
(* A filter or a property of one layer.                                    *)
(***************************************************************************)
FilterSet(l, L) == IF Has(L, "filter") THEN With(l, "filter", L.filter) ELSE Without(l, "filter")

CellSet(l, L, m, n) == With(l, m, With(Member(l, m, << >>), n, L[m][n]))

LEMMA FilterStyled ==
  ASSUME NEW p, IsSeq(p), NEW k \in 1..Len(p), NEW o, o = p[k], NEW i, OnFilterOf(o, i),
         NEW L, NEW T, Transforms(T, L), NEW l, NearLayer(l, T, p, k - 1, i), LayerObject(l),
         NEW x, x = FilterSet(l, L)
  PROVE  NearLayer(x, T, p, k, i) /\ LayerObject(x)
<1>1. \A n : n # "filter" => Same(x, l, n)
  BY WithKept, WithoutKept DEF FilterSet
<1>2. Same(x, T, "filter")
  <2>1. /\ Has(T, "filter") <=> Has(L, "filter")
        /\ Has(T, "filter") => T.filter = L.filter
    BY DEF Transforms, StyleNames
  <2>2. CASE Has(L, "filter")
    BY <2>1, <2>2 DEF FilterSet, With, Same, Has
  <2>3. CASE ~Has(L, "filter")
    BY <2>1, <2>3 DEF FilterSet, Without, Same, Has
  <2> QED
    BY <2>2, <2>3
<1>3. IsObject(x)
  BY WithKept, WithoutKept DEF FilterSet
<1>4. LayerObject(x)
  BY <1>1, <1>3 DEF LayerObject, Same, Has
<1>5. \A m, n : CellLeft(p, k, i, m, n) => CellLeft(p, k - 1, i, m, n)
  <2>1. \A m, n : ~OnCellOf(o, i, m, n)
    BY DEF OnFilterOf, OnCellOf
  <2> QED
    BY <2>1, LeftOn
<1>6. ASSUME NEW m \in {"paint", "layout"}
      PROVE  /\ Has(x, m) <=> Has(T, m)
             /\ Has(T, m) => \A n : CellLeft(p, k, i, m, n) => Same(x[m], T[m], n)
  <2>1. Same(x, l, m)
    BY <1>1
  <2> QED
    BY <1>5, <2>1 DEF NearLayer, Same
<1>7. \A n : n \notin {"filter", "paint", "layout"} => Same(x, T, n)
  BY <1>1 DEF NearLayer, Same
<1> QED
  BY <1>2, <1>4, <1>6, <1>7 DEF NearLayer

\* The k-th operation of a patch sets the property n of a layer l of the map, which the
\* final spec has as L and its style as T.
SetsCell(p, k, i, m, n, L, T, l) ==
    /\ OnCellOf(p[k], i, m, n) /\ Has(L, m) /\ (CellLeft(p, k, i, m, n) => Has(L[m], n))
    /\ Transforms(T, L) /\ NearLayer(l, T, p, k - 1, i) /\ LayerObject(l)

LEMMA CellStyled ==
  ASSUME NEW p, IsSeq(p), NEW k \in 1..Len(p), NEW i, NEW m \in {"paint", "layout"}, NEW n,
         NEW L, NEW T, NEW l, SetsCell(p, k, i, m, n, L, T, l)
  PROVE  NearLayer(CellSet(l, L, m, n), T, p, k, i) /\ LayerObject(CellSet(l, L, m, n))
<1>0. PICK o, x : o = p[k] /\ x = CellSet(l, L, m, n)
  OBVIOUS
<1>11. OnCellOf(o, i, m, n) /\ Has(L, m) /\ (CellLeft(p, k, i, m, n) => Has(L[m], n))
      /\ Transforms(T, L) /\ NearLayer(l, T, p, k - 1, i) /\ LayerObject(l)
  BY <1>0 DEF SetsCell
<1>1. Has(T, m) /\ T[m] = L[m] /\ Has(l, m)
  <2>1. m \in StyleNames(L.type) /\ m # "type"
    BY DEF StyleNames
  <2> QED
    BY <1>11, <2>1 DEF Transforms, NearLayer
<1>2. PICK y : y = With(l[m], n, L[m][n])
  OBVIOUS
<1>3. x = With(l, m, y)
  BY <1>0, <1>1, <1>2 DEF CellSet, Member
<1>4. (\A a : a # m => Same(x, l, a)) /\ Has(x, m) /\ x[m] = y
  BY <1>3, WithKept
<1>5. IsObject(x) /\ IsObject(y)
  BY <1>2, <1>3, WithKept
<1>6. LayerObject(x)
  <2>1. ASSUME NEW a \in {"paint", "layout"} \cap DOMAIN x PROVE IsObject(x[a])
    <3>1. CASE a = m
      BY <1>4, <1>5, <3>1
    <3>2. CASE a # m
      BY <1>11, <1>4, <2>1, <3>2 DEF Same, Has, LayerObject
    <3> QED
      BY <3>1, <3>2
  <2> QED
    BY <1>5, <2>1 DEF LayerObject
<1>7. ASSUME NEW a, CellLeft(p, k, i, m, a) PROVE Same(y, L[m], a)
  <2>1. CASE a = n
    <3>1. Has(y, n) /\ y[n] = L[m][n]
      BY <1>2, WithKept
    <3> QED
      BY <1>11, <1>7, <2>1, <3>1 DEF Same
  <2>2. CASE a # n
    <3>1. CellLeft(p, k - 1, i, m, a)
      BY <1>0, <1>11, <1>7, <2>2, LeftOn DEF OnCellOf
    <3>2. Same(l[m], L[m], a)
      BY <1>11, <1>1, <3>1 DEF NearLayer
    <3>3. Same(y, l[m], a)
      BY <1>2, <2>2, WithKept
    <3> QED
      BY <3>2, <3>3 DEF Same
  <2> QED
    BY <2>1, <2>2
<1>8. ASSUME NEW a \in {"paint", "layout"}
      PROVE  /\ Has(x, a) <=> Has(T, a)
             /\ Has(T, a) => \A b : CellLeft(p, k, i, a, b) => Same(x[a], T[a], b)
  <2>1. CASE a = m
    BY <1>1, <1>4, <1>7, <2>1
  <2>2. CASE a # m
    <3>1. Same(x, l, a)
      BY <1>4, <2>2
    <3>2. \A b : CellLeft(p, k, i, a, b) => CellLeft(p, k - 1, i, a, b)
      BY <1>0, <1>11, <2>2, LeftOn DEF OnCellOf
    <3> QED
      BY <1>11, <3>1, <3>2 DEF NearLayer, Same
  <2> QED
    BY <2>1, <2>2
<1>9. FilterLeft(p, k, i) => Same(x, T, "filter")
  <2>1. FilterLeft(p, k, i) => FilterLeft(p, k - 1, i)
    BY <1>0, <1>11, LeftOn DEF OnFilterOf, OnCellOf
  <2>2. Same(x, l, "filter")
    BY <1>4
  <2> QED
    BY <1>11, <2>1, <2>2 DEF NearLayer, Same
<1>10. \A a : a \notin {"filter", "paint", "layout"} => Same(x, T, a)
  BY <1>11, <1>4 DEF NearLayer, Same
<1> QED
  BY <1>0, <1>6, <1>8, <1>9, <1>10 DEF NearLayer

LayerDone(m, o, F, r) ==
    LET i == o.path[2]
        L == F.layers[i] IN
    /\ i \in DOMAIN F.layers
    /\ \/ /\ Len(o.path) = 4 /\ o.path[3] \in {"paint", "layout"}
          /\ r = [m EXCEPT !.layers = [j \in DOMAIN m.layers |->
                     IF m.layers[j].id = L.id
                     THEN CellSet(m.layers[j], L, o.path[3], o.path[4]) ELSE m.layers[j]]]
       \/ /\ Len(o.path) = 3 /\ o.path[3] = "filter"
          /\ r = [m EXCEPT !.layers = [j \in DOMAIN m.layers |->
                     IF m.layers[j].id = L.id THEN FilterSet(m.layers[j], L) ELSE m.layers[j]]]

LEMMA LayerHandled ==
  ASSUME NEW m, NEW o, NEW F, LayerOperation(m, o, F).handled
  PROVE  LayerDone(m, o, F, LayerOperation(m, o, F).map)
<1>1. PICK i, L, n : i = o.path[2] /\ L = F.layers[i] /\ n = o.path[3]
  OBVIOUS
<1>2. i \in DOMAIN F.layers
  BY <1>1 DEF LayerOperation, Refused
<1>3. CASE Len(o.path) = 4 /\ n \in {"paint", "layout"}
  BY <1>1, <1>2, <1>3 DEF LayerOperation, LayerDone, Handled, WithLayer, CellSet
<1>4. CASE Len(o.path) = 3 /\ n = "filter"
  BY <1>1, <1>2, <1>4 DEF LayerOperation, LayerDone, Handled, WithLayer, FilterSet
<1>5. (Len(o.path) = 4 /\ n \in {"paint", "layout"}) \/ (Len(o.path) = 3 /\ n = "filter")
  BY <1>1, <1>2 DEF LayerOperation, Refused
<1> QED
  BY <1>3, <1>4, <1>5

LEMMA LayerStyled ==
  ASSUME NEW F, SpecShape(F), ValidateSpec(F), NEW p, IsSeq(p), NEW k \in 1..Len(p),
         NEW o, o = p[k], o.path[1] = "layers", NEW d, Frame(d), Known(d, o),
         NearLayers(ApplyOperation(d, o).layers, F.layers, p, k),
         NEW m, Styled(m, F, p, k - 1), NEW r, LayerDone(m, o, F, r)
  PROVE  Styled(r, F, p, k) /\ r.camera = m.camera /\ r.toggles = m.toggles
<1>1. PICK S, i, n, L : S = StyleOf(F) /\ i = o.path[2] /\ n = o.path[3] /\ L = F.layers[i]
  OBVIOUS
<1>2. /\ IsMap(m) /\ StyleObjects(m.sources, m.layers)
      /\ NearSources(m.sources, S.sources, p, k - 1) /\ NearLayers(m.layers, S.layers, p, k - 1)
  BY <1>1 DEF Styled
<1>3. /\ DOMAIN S.layers = DOMAIN F.layers
      /\ \A j \in DOMAIN F.layers : Transforms(S.layers[j], F.layers[j])
  BY <1>1, StyleIs
<1>4. DOMAIN m.layers = DOMAIN F.layers /\ i \in DOMAIN F.layers
  BY <1>1, <1>2, <1>3 DEF NearLayers, LayerDone
<1>5. ASSUME NEW j \in DOMAIN F.layers
      PROVE  m.layers[j].id = L.id <=> j = i
  <2>1. NearLayer(m.layers[j], S.layers[j], p, k - 1, j) /\ Transforms(S.layers[j], F.layers[j])
    BY <1>2, <1>3, <1>5 DEF NearLayers
  <2>2. Has(F.layers[j], "id")
    BY DEF SpecShape, LayersShape, LayerShape, Has
  <2>3. Has(S.layers[j], "id") /\ S.layers[j].id = F.layers[j].id
    BY <2>1, <2>2 DEF Transforms, StyleNames
  <2>4. m.layers[j].id = F.layers[j].id
    BY <2>1, <2>3 DEF NearLayer, Same
  <2>5. F.layers[j].id = L.id <=> j = i
    BY <1>1, <1>4 DEF ValidateSpec, DistinctIds
  <2> QED
    BY <2>4, <2>5
<1>6. ASSUME NEW x, NearLayer(x, S.layers[i], p, k, i), LayerObject(x),
             NEW f, DOMAIN f = DOMAIN m.layers, IsObject(f), f[i] = x,
             \A j \in DOMAIN f : j # i => f[j] = m.layers[j],
             r = [m EXCEPT !.layers = f]
      PROVE  Styled(r, F, p, k) /\ r.camera = m.camera /\ r.toggles = m.toggles
  <2>1. IsMap(r) /\ r.sources = m.sources /\ r.layers = f
        /\ r.camera = m.camera /\ r.toggles = m.toggles
    BY <1>2, <1>6 DEF IsMap, IsObject
  <2>2. StyleObjects(r.sources, r.layers)
    BY <1>2, <1>4, <1>6, <2>1 DEF StyleObjects
  <2>3. NearSources(r.sources, S.sources, p, k)
    BY <1>2, <2>1, NearAfter
  <2>4. ASSUME NEW j \in DOMAIN F.layers PROVE NearLayer(f[j], S.layers[j], p, k, j)
    <3>1. CASE j = i
      BY <1>6, <3>1
    <3>2. CASE j # i
      <4>1. NearLayer(m.layers[j], S.layers[j], p, k - 1, j) /\ f[j] = m.layers[j]
        BY <1>2, <1>3, <1>4, <1>6, <3>2 DEF NearLayers
      <4> QED
        BY <1>1, <3>2, <4>1, NearAfter
    <3> QED
      BY <3>1, <3>2
  <2>5. NearLayers(r.layers, S.layers, p, k)
    BY <1>3, <1>4, <1>6, <2>1, <2>4 DEF NearLayers
  <2> QED
    BY <1>1, <2>1, <2>2, <2>3, <2>5 DEF Styled
<1>7. /\ NearLayer(m.layers[i], S.layers[i], p, k - 1, i) /\ LayerObject(m.layers[i])
      /\ Transforms(S.layers[i], L)
  BY <1>1, <1>2, <1>3, <1>4 DEF NearLayers, StyleObjects
<1>8. CASE Len(o.path) = 3 /\ n = "filter"
  <2>1. PICK f : f = [j \in DOMAIN m.layers |->
                        IF m.layers[j].id = L.id THEN FilterSet(m.layers[j], L) ELSE m.layers[j]]
    OBVIOUS
  <2>2. r = [m EXCEPT !.layers = f]
    <3>1. PICK c : c = Len(o.path)
      OBVIOUS
    <3>2. c # 4
      BY <1>8, <3>1
    <3> QED
      BY <1>1, <2>1, <3>1, <3>2 DEF LayerDone
  <2>3. PICK l, x : l = m.layers[i] /\ x = FilterSet(l, L)
    OBVIOUS
  <2>4. OnFilterOf(o, i)
    BY <1>1, <1>8 DEF OnFilterOf
  <2>5. NearLayer(x, S.layers[i], p, k, i) /\ LayerObject(x)
    BY <1>7, <2>3, <2>4, FilterStyled
  <2>6. /\ DOMAIN f = DOMAIN m.layers /\ IsObject(f) /\ f[i] = x
        /\ \A j \in DOMAIN f : j # i => f[j] = m.layers[j]
    BY <1>4, <1>5, <2>1, <2>3 DEF IsObject
  <2> QED
    BY <1>6, <2>2, <2>5, <2>6
<1>9. CASE Len(o.path) = 4 /\ n \in {"paint", "layout"}
  <2>1. PICK c, f : /\ c = o.path[4]
                    /\ f = [j \in DOMAIN m.layers |->
                              IF m.layers[j].id = L.id THEN CellSet(m.layers[j], L, n, c)
                              ELSE m.layers[j]]
    OBVIOUS
  <2>2. r = [m EXCEPT !.layers = f]
    <3>1. PICK a : a = Len(o.path)
      OBVIOUS
    <3>2. a # 3
      BY <1>9, <3>1
    <3> QED
      BY <1>1, <2>1, <3>1, <3>2 DEF LayerDone
  <2>3. PICK l, x : l = m.layers[i] /\ x = CellSet(l, L, n, c)
    OBVIOUS
  <2>4. OnCellOf(o, i, n, c)
    BY <1>1, <1>9, <2>1 DEF OnCellOf
  <2>5. PICK y, e, h : /\ e = ApplyOperation(d, o) /\ h = d.layers[i]
                       /\ y = With(h[n], c, o.value)
    OBVIOUS
  <2>6. e.layers = [d.layers EXCEPT ![i] = [d.layers[i] EXCEPT ![n] = y]]
    <3>1. Len(o.path) = 4 /\ y = With(d.layers[i][n], o.path[4], o.value)
      BY <1>9, <2>1, <2>5
    <3>2. ApplyOperation(d, o).layers = [d.layers EXCEPT ![i] = [d.layers[i] EXCEPT ![n] = y]]
      BY ONLY Frame(d), Known(d, o), o.path[1] = "layers", <1>1, <3>1, OnCell
    <3> QED
      BY <2>5, <3>2
  <2>7. i \in DOMAIN d.layers /\ Has(h, n)
    <3>1. PICK a : a = Len(o.path)
      OBVIOUS
    <3>2. a = 4 /\ a > 2 /\ a > 3
      BY <1>9, <3>1
    <3> QED
      BY <1>1, <2>5, <3>1, <3>2 DEF Known
  <2>8. e.layers[i] = [h EXCEPT ![n] = y]
    BY <2>5, <2>6, <2>7
  <2>9. Has(e.layers[i], n) /\ e.layers[i][n] = y
    BY <2>7, <2>8 DEF Has
  <2>10. NearLayer(e.layers[i], L, p, k, i)
    BY <1>1, <1>4, <2>5 DEF NearLayers
  <2>11. Has(L, n)
    BY <1>9, <2>9, <2>10 DEF NearLayer
  <2>12. ASSUME CellLeft(p, k, i, n, c) PROVE Has(L[n], c)
    <3>1. Same(y, L[n], c)
      BY <1>9, <2>9, <2>10, <2>11, <2>12 DEF NearLayer
    <3>2. Has(y, c)
      BY <2>5, WithKept
    <3> QED
      BY <3>1, <3>2 DEF Same
  <2>13. NearLayer(x, S.layers[i], p, k, i) /\ LayerObject(x)
    <3>1. PICK T : T = S.layers[i]
      OBVIOUS
    <3>2. SetsCell(p, k, i, n, c, L, T, l)
      BY <1>7, <2>3, <2>4, <2>11, <2>12, <3>1 DEF SetsCell
    <3>3. n \in {"paint", "layout"} /\ IsSeq(p) /\ k \in 1..Len(p)
      BY <1>9
    <3> QED
      BY <2>3, <3>1, <3>2, <3>3, CellStyled
  <2>14. /\ DOMAIN f = DOMAIN m.layers /\ IsObject(f) /\ f[i] = x
         /\ \A j \in DOMAIN f : j # i => f[j] = m.layers[j]
    BY <1>4, <1>5, <2>1, <2>3 DEF IsObject
  <2> QED
    BY <1>6, <2>2, <2>13, <2>14
<1> QED
  BY <1>1, <1>8, <1>9 DEF LayerDone

(***************************************************************************)
(* Any operation that the adapter handles.                                 *)
(***************************************************************************)
LEMMA HandledIs ==
  ASSUME NEW m, NEW o, NEW F, NEW r, r = IncrementalOperation(m, o, F), r.handled
  PROVE  /\ Plain(o, F)
         /\ \/ o.path[1] \in {"view", "interactions", "revision"} /\ r.map = m
            \/ o.path[1] = "sources" /\ SourceDone(m, o, F, r.map)
            \/ o.path[1] = "layers" /\ LayerDone(m, o, F, r.map)
<1>1. CASE o.path[1] \in {"view", "interactions", "revision"}
  BY <1>1 DEF IncrementalOperation, Handled, Plain
<1>2. CASE o.path[1] = "sources"
  <2>1. r = SourceOperation(m, o, F)
    BY <1>2 DEF IncrementalOperation
  <2> QED
    BY <1>2, <2>1, SourceHandled DEF Plain
<1>3. CASE o.path[1] = "layers"
  <2>1. r = LayerOperation(m, o, F)
    BY <1>3 DEF IncrementalOperation
  <2>2. LayerDone(m, o, F, r.map)
    BY <2>1, LayerHandled
  <2> QED
    BY <1>3, <2>2 DEF Plain, LayerDone
<1>4. o.path[1] \in {"view", "interactions", "revision"} \/ o.path[1] \in {"sources", "layers"}
  BY DEF IncrementalOperation, Refused
<1> QED
  BY <1>1, <1>2, <1>3, <1>4

LEMMA OperationStyled ==
  ASSUME NEW F, SpecShape(F), ValidateSpec(F), NEW p, IsSeq(p), NEW k \in 1..Len(p),
         NEW o, o = p[k], NEW d, Frame(d), Known(d, o), NEW e, e = ApplyOperation(d, o),
         NearSources(e.sources, F.sources, p, k), NearLayers(e.layers, F.layers, p, k),
         NEW m, Styled(m, F, p, k - 1), NEW r, r = IncrementalOperation(m, o, F), r.handled
  PROVE  Styled(r.map, F, p, k) /\ r.map.camera = m.camera /\ r.map.toggles = m.toggles
<1>1. CASE o.path[1] \in {"view", "interactions", "revision"} /\ r.map = m
  BY <1>1, NearAfter DEF Styled
<1>2. CASE o.path[1] = "sources" /\ SourceDone(m, o, F, r.map)
  BY <1>2, SourceStyled
<1>3. CASE o.path[1] = "layers" /\ LayerDone(m, o, F, r.map)
  BY <1>3, LayerStyled
<1> QED
  BY <1>1, <1>2, <1>3, HandledIs

\* Handled or not, the camera and the toggles stay.
LEMMA OperationKeeps ==
  ASSUME NEW m, IsMap(m), NEW o, NEW F, NEW x, x = IncrementalOperation(m, o, F).map
  PROVE  IsMap(x) /\ x.camera = m.camera /\ x.toggles = m.toggles
<1>1. ASSUME NEW f PROVE LET y == [m EXCEPT !.layers = f] IN
                          IsMap(y) /\ y.camera = m.camera /\ y.toggles = m.toggles
  BY DEF IsMap, IsObject
<1>2. CASE o.path[1] \in {"view", "interactions", "revision"}
  BY <1>2 DEF IncrementalOperation, Handled
<1>3. CASE o.path[1] = "sources"
  <2>1. PICK id, y, v : /\ id = o.path[2] /\ y = RemoveSourceFrom(m, id)
                        /\ v = [y EXCEPT !.sources = With(@, id, TransformSource(F.sources[id]))]
    OBVIOUS
  <2>2. IsMap(y) /\ y.camera = m.camera /\ y.toggles = m.toggles
    BY <2>1, RemoveSourceIs
  <2>3. IsMap(v) /\ v.camera = m.camera /\ v.toggles = m.toggles
    BY <2>1, <2>2 DEF IsMap, IsObject
  <2>4. x = m \/ x = y \/ x = v
    BY <1>3, <2>1 DEF IncrementalOperation, SourceOperation, Handled, Refused
  <2> QED
    BY <2>2, <2>3, <2>4
<1>4. CASE o.path[1] = "layers"
  <2>1. PICK r : r = LayerOperation(m, o, F)
    OBVIOUS
  <2>2. x = r.map
    BY <1>4, <2>1 DEF IncrementalOperation
  <2>3. CASE r.handled
    <3>1. LayerDone(m, o, F, x)
      BY <2>1, <2>2, <2>3, LayerHandled
    <3>2. PICK i, n, L, f, g :
            /\ i = o.path[2] /\ n = o.path[3] /\ L = F.layers[i]
            /\ f = [j \in DOMAIN m.layers |->
                      IF m.layers[j].id = L.id THEN CellSet(m.layers[j], L, n, o.path[4])
                      ELSE m.layers[j]]
            /\ g = [j \in DOMAIN m.layers |->
                      IF m.layers[j].id = L.id THEN FilterSet(m.layers[j], L) ELSE m.layers[j]]
      OBVIOUS
    <3>3. x = [m EXCEPT !.layers = f] \/ x = [m EXCEPT !.layers = g]
      BY <3>1, <3>2 DEF LayerDone
    <3> QED
      BY <1>1, <3>3
  <2>4. CASE ~r.handled
    <3>1. x = m
      BY <2>1, <2>2, <2>4 DEF LayerOperation, Handled, Refused
    <3> QED
      BY <3>1
  <2> QED
    BY <2>3, <2>4
<1>5. CASE o.path[1] \notin {"view", "interactions", "revision", "sources", "layers"}
  BY <1>5 DEF IncrementalOperation, Refused
<1> QED
  BY <1>2, <1>3, <1>4, <1>5

(***************************************************************************)
(* All the operations of a patch, one after the other.                     *)
(***************************************************************************)
IncrementalOp(context, acc, o) ==
    IF acc.handled THEN IncrementalOperation(acc.map, o, context) ELSE acc

Incrementing == INSTANCE FoldTheorems WITH Op <- IncrementalOp

Done(m, patch, spec) ==
    FoldLeft(LAMBDA acc, o : IF acc.handled THEN IncrementalOperation(acc.map, o, spec) ELSE acc,
             Handled(m), patch)

LEMMA DoneIsFold ==
  ASSUME NEW m, NEW patch, NEW spec
  PROVE  Done(m, patch, spec) = Incrementing!LeftFold(spec, Handled(m), patch)
BY Zenon DEF Done, Incrementing!LeftFold, IncrementalOp, FoldLeft, MapThenFoldSet,
   Incrementing!LeftStep, Max, Incrementing!Highest

LEMMA IncrementalPatchIs ==
  ASSUME NEW m, NEW patch, NEW spec
  PROVE  ApplyIncrementalPatch(m, patch, spec) =
           IF m = Absent \/ Structural(patch) THEN Refused(m)
           ELSE IF Done(m, patch, spec).handled /\ Touches(patch, "view")
           THEN Handled(SynchronizeView(Done(m, patch, spec).map, spec.view))
           ELSE Done(m, patch, spec)
BY Zenon DEF ApplyIncrementalPatch, Done

\* What the adapter has after each operation.
Runs(m, F, p, g) ==
    /\ g[0] = Handled(m)
    /\ \A k \in 1..Len(p) : g[k] = IncrementalOp(F, g[k - 1], p[k])

LEMMA DoneRuns ==
  ASSUME NEW m, NEW F, NEW p, IsSeq(p)
  PROVE  \E g : Runs(m, F, p, g) /\ g[Len(p)] = Done(m, p, F)
<1>1. PICK n : n = Len(p)
  OBVIOUS
<1>2. n \in Nat /\ DOMAIN p = 1..n
  BY <1>1, SeqIs
<1>3. PICK g : /\ Incrementing!LeftSteps(F, Handled(m), p, n, g)
               /\ g[n] = Incrementing!LeftFold(F, Handled(m), p)
  BY <1>2, Incrementing!LeftFoldSteps
<1>4. Runs(m, F, p, g)
  BY <1>1, <1>3 DEF Incrementing!LeftSteps, Runs
<1> QED
  BY <1>1, <1>3, <1>4, DoneIsFold

\* The camera and the toggles are never touched on the way.
LEMMA RunsKeep ==
  ASSUME NEW m, IsMap(m), NEW F, NEW p, IsSeq(p), NEW g, Runs(m, F, p, g),
         NEW x, x = g[Len(p)].map
  PROVE  IsMap(x) /\ x.camera = m.camera /\ x.toggles = m.toggles
<1> DEFINE R(k) == LET y == g[k].map IN IsMap(y) /\ y.camera = m.camera /\ y.toggles = m.toggles
           S == {k \in Nat : k <= Len(p) => R(k)}
<1>1. Len(p) \in Nat
  BY SeqIs
<1>2. 0 \in S
  BY DEF Runs, Handled
<1>3. ASSUME NEW k \in Nat, k \in S PROVE k + 1 \in S
  <2> SUFFICES ASSUME k + 1 <= Len(p) PROVE R(k + 1)
    OBVIOUS
  <2>1. PICK y, z, o : y = g[k].map /\ z = g[k + 1].map /\ o = p[k + 1]
    OBVIOUS
  <2>2. IsMap(y) /\ y.camera = m.camera /\ y.toggles = m.toggles
    BY <1>1, <1>3, <2>1
  <2>3. k + 1 \in 1..Len(p) /\ (k + 1) - 1 = k
    BY <1>1
  <2>4. g[k + 1] = IncrementalOp(F, g[k], o)
    BY <2>1, <2>3 DEF Runs
  <2>5. z = y \/ z = IncrementalOperation(y, o, F).map
    BY <2>1, <2>4 DEF IncrementalOp
  <2>6. IsMap(z) /\ z.camera = m.camera /\ z.toggles = m.toggles
    BY <2>2, <2>5, OperationKeeps
  <2> QED
    BY <2>1, <2>6
<1>4. Nat \subseteq S
  <2> HIDE DEF S
  <2> QED
    BY <1>2, <1>3, Incrementing!Induction
<1> QED
  BY <1>1, <1>4

AllGoThrough(F, p, g) ==
    /\ \A k \in 0..Len(p) : g[k].handled
    /\ \A k \in 1..Len(p) : g[k] = IncrementalOperation(g[k - 1].map, p[k], F)

\* When the last was handled, all were.
LEMMA AllHandled ==
  ASSUME NEW m, NEW F, NEW p, IsSeq(p), NEW g, Runs(m, F, p, g), g[Len(p)].handled
  PROVE  AllGoThrough(F, p, g)
<1> DEFINE S == {k \in Nat : k <= Len(p) => g[Len(p) - k].handled}
<1>1. Len(p) \in Nat
  BY SeqIs
<1>2. 0 \in S
  BY <1>1
<1>3. ASSUME NEW k \in Nat, k \in S PROVE k + 1 \in S
  <2> SUFFICES ASSUME k + 1 <= Len(p) PROVE g[Len(p) - (k + 1)].handled
    OBVIOUS
  <2>1. PICK j : j = Len(p) - k
    OBVIOUS
  <2>2. j \in 1..Len(p) /\ j - 1 = Len(p) - (k + 1)
    BY <1>1, <2>1
  <2>3. g[j].handled
    BY <1>1, <1>3, <2>1
  <2>4. g[j] = IncrementalOp(F, g[j - 1], p[j])
    BY <2>2 DEF Runs
  <2>5. g[j - 1].handled
    BY <2>3, <2>4 DEF IncrementalOp
  <2> QED
    BY <2>2, <2>5
<1>4. Nat \subseteq S
  <2> HIDE DEF S
  <2> QED
    BY <1>2, <1>3, Incrementing!Induction
<1>5. ASSUME NEW k \in 0..Len(p) PROVE g[k].handled
  <2>1. Len(p) - k \in S /\ Len(p) - (Len(p) - k) = k /\ Len(p) - k <= Len(p)
    BY <1>1, <1>4
  <2> QED
    BY <2>1
<1>6. ASSUME NEW k \in 1..Len(p) PROVE g[k] = IncrementalOperation(g[k - 1].map, p[k], F)
  <2>1. k - 1 \in 0..Len(p)
    BY <1>1
  <2> QED
    BY <1>5, <2>1 DEF Runs, IncrementalOp
<1> QED
  BY <1>5, <1>6 DEF AllGoThrough

\* The documents on the way come nearer to the last.
LEMMA WalkNears ==
  ASSUME NEW d, NEW p, Way(d, p), NEW f, Walks(d, p, f), NEW F, F = f[Len(p)],
         \A k \in 1..Len(p) : Plain(p[k], F)
  PROVE  \A k \in 0..Len(p) : /\ NearSources(f[k].sources, F.sources, p, k)
                              /\ NearLayers(f[k].layers, F.layers, p, k)
<1> DEFINE R(k) == /\ NearSources(f[k].sources, F.sources, p, k)
                   /\ NearLayers(f[k].layers, F.layers, p, k)
           S == {k \in Nat : k <= Len(p) => R(Len(p) - k)}
<1>1. Len(p) \in Nat /\ IsSeq(p)
  BY SeqIs DEF Way
<1>2. 0 \in S
  <2>1. Len(p) - 0 = Len(p)
    BY <1>1
  <2>2. R(Len(p))
    BY NearItself
  <2> HIDE DEF R
  <2> QED
    BY <2>1, <2>2
<1>3. ASSUME NEW k \in Nat, k \in S PROVE k + 1 \in S
  <2> SUFFICES ASSUME k + 1 <= Len(p) PROVE R(Len(p) - (k + 1))
    OBVIOUS
  <2>1. PICK j : j = Len(p) - k
    OBVIOUS
  <2>2. j \in 1..Len(p) /\ j - 1 = Len(p) - (k + 1) /\ j - 1 \in 0..Len(p)
    BY <1>1, <2>1
  <2>3. R(j)
    <3> HIDE DEF R
    <3> QED
      BY <1>1, <1>3, <2>1
  <2>4. PICK e, b, o : e = f[j] /\ b = f[j - 1] /\ o = p[j]
    OBVIOUS
  <2>5. Known(b, o) /\ e = ApplyOperation(b, o) /\ Frame(b) /\ Plain(o, F)
    BY <2>2, <2>4, WalkEnds DEF Walks
  <2>6. NearSources(b.sources, F.sources, p, j - 1)
    BY <1>1, <2>2, <2>3, <2>4, <2>5, SourcesBack
  <2>7. NearLayers(b.layers, F.layers, p, j - 1)
    BY <1>1, <2>2, <2>3, <2>4, <2>5, LayersBack
  <2> QED
    BY <2>2, <2>4, <2>6, <2>7
<1>4. Nat \subseteq S
  <2> HIDE DEF S
  <2> QED
    BY <1>2, <1>3, Incrementing!Induction
<1>5. ASSUME NEW k \in 0..Len(p) PROVE R(k)
  <2>1. Len(p) - k \in S /\ Len(p) - (Len(p) - k) = k /\ Len(p) - k <= Len(p)
    BY <1>1, <1>4
  <2> HIDE DEF R
  <2> QED
    BY <2>1
<1> QED
  BY <1>5

\* A map that shows a spec is brought, operation by operation, to the style of the
\* spec that the patch leads to.
LEMMA DoneStyled ==
  ASSUME NEW d, SpecShape(d), NEW p, Way(d, p), NEW F, F = ApplyJsonPatch(d, p), SpecShape(F),
         ValidateSpec(F), NEW m, IsMap(m), m.sources = StyleOf(d).sources,
         m.layers = StyleOf(d).layers, NEW x, x = Done(m, p, F), x.handled
  PROVE  x.map.sources = StyleOf(F).sources /\ x.map.layers = StyleOf(F).layers
<1>1. Len(p) \in Nat /\ IsSeq(p)
  BY SeqIs DEF Way
<1>2. PICK g : Runs(m, F, p, g) /\ g[Len(p)] = x
  BY <1>1, DoneRuns
<1>3. PICK f : Walks(d, p, f)
  BY DEF Way
<1>4. F = f[Len(p)] /\ \A k \in 0..Len(p) : Frame(f[k])
  BY <1>3, WalkEnds
<1>5. /\ \A k \in 0..Len(p) : g[k].handled
      /\ \A k \in 1..Len(p) : g[k] = IncrementalOperation(g[k - 1].map, p[k], F)
  <2>1. IsSeq(p) /\ Runs(m, F, p, g) /\ g[Len(p)].handled
    BY <1>1, <1>2
  <2>2. AllGoThrough(F, p, g)
    BY ONLY <2>1, AllHandled
  <2> QED
    BY ONLY <2>2 DEF AllGoThrough
<1>6. ASSUME NEW k \in 1..Len(p) PROVE Plain(p[k], F)
  <2>1. PICK r : r = g[k]
    OBVIOUS
  <2>2. k \in 0..Len(p)
    BY <1>1
  <2>3. r.handled /\ r = IncrementalOperation(g[k - 1].map, p[k], F)
    BY <1>5, <2>1, <2>2
  <2> QED
    BY <2>3, HandledIs
<1>7. \A k \in 0..Len(p) : /\ NearSources(f[k].sources, F.sources, p, k)
                           /\ NearLayers(f[k].layers, F.layers, p, k)
  BY <1>3, <1>4, <1>6, WalkNears
<1> DEFINE S == {k \in Nat : k <= Len(p) => Styled(g[k].map, F, p, k)}
<1>8. 0 \in S
  <2>1. 0 \in 0..Len(p) /\ f[0] = d /\ g[0].map = m
    BY <1>1, <1>2, <1>3 DEF Walks, Runs, Handled
  <2>2. Styled(m, F, p, 0)
    BY <1>7, <2>1, StyledAtFirst
  <2> QED
    BY <2>1, <2>2
<1>9. ASSUME NEW k \in Nat, k \in S PROVE k + 1 \in S
  <2> SUFFICES ASSUME k + 1 <= Len(p) PROVE Styled(g[k + 1].map, F, p, k + 1)
    OBVIOUS
  <2>1. PICK j, y, r, o, b, e : /\ j = k + 1 /\ y = g[k].map /\ r = g[j] /\ o = p[j]
                                /\ b = f[k] /\ e = f[j]
    OBVIOUS
  <2>2. j \in 1..Len(p) /\ j \in 0..Len(p) /\ k \in 0..Len(p) /\ j - 1 = k /\ k <= Len(p)
    BY <1>1, <2>1
  <2>3. Styled(y, F, p, j - 1)
    BY <1>9, <2>1, <2>2
  <2>4. r.handled /\ r = IncrementalOperation(y, o, F)
    BY <1>5, <2>1, <2>2
  <2>5. Known(b, o) /\ e = ApplyOperation(b, o) /\ Frame(b)
    BY <1>3, <1>4, <2>1, <2>2 DEF Walks
  <2>6. NearSources(e.sources, F.sources, p, j) /\ NearLayers(e.layers, F.layers, p, j)
    BY <1>7, <2>1, <2>2
  <2>7. Styled(r.map, F, p, j)
    <3>1. SpecShape(F) /\ ValidateSpec(F) /\ IsSeq(p) /\ j \in 1..Len(p) /\ o = p[j]
      BY <1>1, <2>1, <2>2
    <3> QED
      BY ONLY <2>3, <2>4, <2>5, <2>6, <3>1, OperationStyled
  <2> QED
    BY <2>1, <2>7
<1>10. Nat \subseteq S
  <2> HIDE DEF S
  <2> QED
    BY <1>8, <1>9, Incrementing!Induction
<1>11. Styled(x.map, F, p, Len(p))
  BY <1>1, <1>2, <1>10
<1> QED
  BY <1>1, <1>11, StyledAtLast

\* A member that no operation of a patch is on stays what it is.
LEMMA Untouched ==
  ASSUME NEW d, NEW p, Way(d, p), NEW n, ~Touches(p, n)
  PROVE  Same(ApplyJsonPatch(d, p), d, n)
<1>1. Len(p) \in Nat /\ DOMAIN p = 1..Len(p)
  BY SeqIs DEF Way
<1>2. PICK f : Walks(d, p, f)
  BY DEF Way
<1>3. f[Len(p)] = ApplyJsonPatch(d, p) /\ \A k \in 0..Len(p) : Frame(f[k])
  BY <1>2, WalkEnds
<1> DEFINE S == {k \in Nat : k <= Len(p) => Same(f[k], d, n)}
<1>4. 0 \in S
  BY <1>2 DEF Walks, Same
<1>5. ASSUME NEW k \in Nat, k \in S PROVE k + 1 \in S
  <2> SUFFICES ASSUME k + 1 <= Len(p) PROVE Same(f[k + 1], d, n)
    OBVIOUS
  <2>1. PICK j, b, o : j = k + 1 /\ b = f[k] /\ o = p[j]
    OBVIOUS
  <2>2. j \in 1..Len(p) /\ k \in 0..Len(p) /\ j - 1 = k /\ k <= Len(p)
    BY <1>1, <2>1
  <2>3. Same(b, d, n) /\ Frame(b)
    BY <1>3, <1>5, <2>1, <2>2
  <2>4. f[j] = ApplyOperation(b, o) /\ Known(b, o)
    BY <1>2, <2>1, <2>2 DEF Walks
  <2>5. o.path[1] # n
    BY <1>1, <2>1, <2>2 DEF Touches
  <2>6. Same(f[j], b, n)
    BY <2>3, <2>4, <2>5, Elsewhere
  <2> QED
    BY <2>1, <2>3, <2>6 DEF Same
<1>6. Nat \subseteq S
  <2> HIDE DEF S
  <2> QED
    BY <1>4, <1>5, Incrementing!Induction
<1> QED
  BY <1>1, <1>3, <1>6

(***************************************************************************)
(* What a live map shows once a patch has reached it.                      *)
(***************************************************************************)
\* The camera is at every value that a view gives.
CameraAt(m, view) == \A name \in CameraMembers \cap DOMAIN view : m.camera[name] = view[name]

\* A live map shows a spec.
ShowsMap(m, d) == IsMap(m) /\ Shows(m, d)

LEMMA ViewSynchronized ==
  ASSUME NEW m, IsMap(m), NEW view, NEW x, x = SynchronizeView(m, view)
  PROVE  /\ IsMap(x) /\ CameraAt(x, view) /\ Fitted(x.camera, view)
         /\ x.sources = m.sources /\ x.layers = m.layers /\ x.toggles = m.toggles
<1>1. PICK c : /\ x = [m EXCEPT !.camera = c]
               /\ c = IF FitsBounds(view)
                      THEN With(Merge(Only(view, {"bearing", "pitch"}),
                                      Only(m.camera, {"bearing", "pitch"})), "bounds", view.bounds)
                      ELSE Merge(Only(view, CameraMembers), m.camera)
  BY DEF SynchronizeView
<1>2. /\ IsMap(x) /\ x.camera = c
      /\ x.sources = m.sources /\ x.layers = m.layers /\ x.toggles = m.toggles
  BY <1>1 DEF IsMap, IsObject
<1>3. ASSUME NEW name \in CameraMembers \cap DOMAIN view PROVE c[name] = view[name]
  <2>1. CASE FitsBounds(view)
    <3>1. name \in {"bearing", "pitch"}
      BY <2>1 DEF CameraMembers, FitsBounds
    <3>2. PICK o, r, w : /\ o = Only(view, {"bearing", "pitch"})
                         /\ r = Only(m.camera, {"bearing", "pitch"}) /\ w = Merge(o, r)
      OBVIOUS
    <3>3. Has(o, name) /\ o[name] = view[name]
      BY <3>1, <3>2 DEF Only, Has
    <3>4. Has(w, name) /\ w[name] = view[name]
      BY <3>2, <3>3 DEF Merge, Has
    <3>5. c = With(w, "bounds", view.bounds) /\ name # "bounds"
      BY <1>1, <2>1, <3>1, <3>2
    <3> QED
      BY <3>4, <3>5 DEF With, Has
  <2>2. CASE ~FitsBounds(view)
    <3>1. PICK o : o = Only(view, CameraMembers)
      OBVIOUS
    <3>2. Has(o, name) /\ o[name] = view[name]
      BY <3>1 DEF Only, Has
    <3>3. c = Merge(o, m.camera)
      BY <1>1, <2>2, <3>1
    <3> QED
      BY <3>2, <3>3 DEF Merge, Has
  <2> QED
    BY <2>1, <2>2
<1>4. ASSUME FitsBounds(view)
      PROVE  /\ Has(c, "bounds") /\ c.bounds = view.bounds
             /\ DOMAIN c \cap {"center", "zoom"} = {}
  <2>1. PICK o, r, w : /\ o = Only(view, {"bearing", "pitch"})
                       /\ r = Only(m.camera, {"bearing", "pitch"}) /\ w = Merge(o, r)
    OBVIOUS
  <2>2. DOMAIN w \subseteq {"bearing", "pitch"}
    BY <2>1 DEF Only, Merge
  <2>3. c = With(w, "bounds", view.bounds)
    BY <1>1, <1>4, <2>1
  <2>4. DOMAIN c = DOMAIN w \cup {"bounds"} /\ c["bounds"] = view.bounds
    BY <2>3 DEF With
  <2> QED
    BY <2>2, <2>4 DEF Has
<1> QED
  BY <1>2, <1>3, <1>4 DEF CameraAt, Fitted

\* A map of its own shows its spec.
LEMMA NewMapShows ==
  ASSUME NEW d
  PROVE  ShowsMap(NewMap(d), d)
<1>1. PICK s, z, x : /\ s = StyleOf(d) /\ x = NewMap(d)
                     /\ z = [center |-> "origin", zoom |-> 0, bearing |-> 0, pitch |-> 0]
  OBVIOUS
<1>2. x = [sources |-> s.sources, layers |-> s.layers, camera |-> Merge(s.camera, z),
           toggles |-> Toggles(d)]
  BY <1>1 DEF NewMap
<1>3. IsMap(x)
  BY <1>2 DEF IsMap, IsObject
<1>4. s.camera = Only(d.view, CameraMembers)
  BY <1>1 DEF StyleOf
<1>5. ASSUME NEW name \in CameraMembers \cap DOMAIN d.view PROVE x.camera[name] = d.view[name]
  <2>1. Has(s.camera, name) /\ s.camera[name] = d.view[name]
    BY <1>4 DEF Only, Has
  <2> QED
    BY <1>2, <2>1 DEF Merge, Has
<1> QED
  BY <1>1, <1>2, <1>3, <1>5 DEF ShowsMap, Shows

\* The map of a patch that an adapter could handle shows the spec it leads to.
LEMMA HandledShows ==
  ASSUME NEW d, SpecShape(d), NEW p, Way(d, p), NEW F, F = ApplyJsonPatch(d, p), SpecShape(F),
         ValidateSpec(F), NEW m, m # Absent, ShowsMap(m, d),
         NEW r, r = ApplyIncrementalPatch(m, p, F), r.handled,
         NEW t, t = Toggled(r.map, p, F)
  PROVE  /\ ShowsMap(t, F)
         /\ Touches(p, "view") \/ Fitted(m.camera, d.view) => Fitted(t.camera, F.view)
<1>1. PICK x : x = Done(m, p, F)
  OBVIOUS
<1>2. /\ ~Structural(p)
      /\ r = IF x.handled /\ Touches(p, "view") THEN Handled(SynchronizeView(x.map, F.view)) ELSE x
  BY <1>1, IncrementalPatchIs DEF Refused
<1>3. x.handled
  BY <1>2
<1>4. IsMap(m) /\ Shows(m, d) /\ IsSeq(p)
  BY DEF ShowsMap, Way
<1>5. x.map.sources = StyleOf(F).sources /\ x.map.layers = StyleOf(F).layers
  BY <1>1, <1>3, <1>4, DoneStyled DEF Shows
<1>6. IsMap(x.map) /\ x.map.camera = m.camera /\ x.map.toggles = m.toggles
  <2>1. PICK g : Runs(m, F, p, g) /\ g[Len(p)] = x
    BY <1>1, <1>4, DoneRuns
  <2> QED
    BY <1>4, <2>1, RunsKeep
<1>7. /\ IsMap(r.map) /\ CameraAt(r.map, F.view) /\ r.map.toggles = m.toggles
      /\ Touches(p, "view") \/ Fitted(m.camera, d.view) => Fitted(r.map.camera, F.view)
      /\ r.map.sources = StyleOf(F).sources /\ r.map.layers = StyleOf(F).layers
  <2>1. CASE Touches(p, "view")
    <3>1. r.map = SynchronizeView(x.map, F.view)
      BY <1>2, <1>3, <2>1 DEF Handled
    <3> QED
      BY <1>5, <1>6, <3>1, ViewSynchronized
  <2>2. CASE ~Touches(p, "view")
    <3>1. r = x
      BY <1>2, <2>2
    <3>2. F.view = d.view
      <4>1. Same(F, d, "view")
        BY <2>2, Untouched
      <4> QED
        BY <4>1 DEF Same, SpecShape, Has
    <3>3. CameraAt(x.map, F.view)
      BY <1>4, <1>6, <3>2 DEF Shows, CameraAt
    <3> QED
      BY <1>5, <1>6, <2>2, <3>1, <3>2, <3>3
  <2> QED
    BY <2>1, <2>2
<1>8. PICK y : y = r.map /\ t = Toggled(y, p, F)
  OBVIOUS
<1>9. /\ IsMap(t) /\ t.camera = y.camera /\ t.sources = y.sources /\ t.layers = y.layers
      /\ t.toggles = Toggles(F)
  <2>1. CASE Touches(p, "interactions")
    <3>1. t = [y EXCEPT !.toggles = Toggles(F)]
      BY <1>8, <2>1 DEF Toggled
    <3> QED
      BY <1>7, <1>8, <3>1 DEF IsMap, IsObject
  <2>2. CASE ~Touches(p, "interactions")
    <3>1. t = y
      BY <1>8, <2>2 DEF Toggled
    <3>2. Toggles(F) = Toggles(d)
      <4>1. Same(F, d, "interactions")
        BY <2>2, Untouched
      <4> QED
        BY <4>1 DEF Same, Toggles, Member
    <3> QED
      BY <1>4, <1>7, <1>8, <3>1, <3>2 DEF Shows
  <2> QED
    BY <2>1, <2>2
<1> QED
  BY <1>7, <1>8, <1>9 DEF ShowsMap, Shows, CameraAt

\* The steps before a refusal leave a live map, at the camera it had.
LEMMA RefusedKeeps ==
  ASSUME NEW m, IsMap(m), NEW p, IsSeq(p), NEW F,
         NEW r, r = ApplyIncrementalPatch(m, p, F), ~r.handled
  PROVE  IsMap(r.map) /\ r.map.camera = m.camera
<1>1. PICK x : x = Done(m, p, F)
  OBVIOUS
<1>2. r = Refused(m) \/ r = x
  BY <1>1, IncrementalPatchIs DEF Handled
<1>3. IsMap(x.map) /\ x.map.camera = m.camera
  <2>1. PICK g : Runs(m, F, p, g) /\ g[Len(p)] = x
    BY <1>1, DoneRuns
  <2> QED
    BY <2>1, RunsKeep
<1> QED
  BY <1>2, <1>3 DEF Refused

\* So does a map that was given a whole new style.
LEMMA RebuiltShows ==
  ASSUME NEW d, SpecShape(d), NEW p, Way(d, p), NEW F, F = ApplyJsonPatch(d, p), SpecShape(F),
         NEW m, m # Absent, ShowsMap(m, d),
         NEW r, r = ApplyIncrementalPatch(m, p, F), ~r.handled,
         NEW x, x = Rebuilt(r.map, p, F), x # Absent
  PROVE  /\ ShowsMap(x, F)
         /\ Touches(p, "view") \/ Fitted(m.camera, d.view) => Fitted(x.camera, F.view)
<1>1. PICK y, t : /\ y = r.map
                  /\ t = [y EXCEPT !.sources = StyleOf(F).sources, !.layers = StyleOf(F).layers,
                                   !.toggles = Toggles(F)]
  OBVIOUS
<1>2. IsMap(y) /\ y.camera = m.camera
  BY <1>1, RefusedKeeps DEF ShowsMap, Way
<1>3. /\ IsMap(t) /\ t.camera = m.camera /\ t.sources = StyleOf(F).sources
      /\ t.layers = StyleOf(F).layers /\ t.toggles = Toggles(F)
  <2>1. PICK u : u = [y EXCEPT !.sources = StyleOf(F).sources]
    OBVIOUS
  <2>2. IsMap(u) /\ u.sources = StyleOf(F).sources /\ u.camera = m.camera
    BY <1>2, <2>1 DEF IsMap, IsObject
  <2>3. PICK v : v = [u EXCEPT !.layers = StyleOf(F).layers]
    OBVIOUS
  <2>4. /\ IsMap(v) /\ v.sources = StyleOf(F).sources /\ v.layers = StyleOf(F).layers
        /\ v.camera = m.camera
    BY <2>2, <2>3 DEF IsMap, IsObject
  <2>5. t = [v EXCEPT !.toggles = Toggles(F)]
    BY <1>1, <2>1, <2>3
  <2> QED
    BY <2>4, <2>5 DEF IsMap, IsObject
<1>4. x = IF y = Absent THEN Absent
          ELSE IF Touches(p, "view") THEN SynchronizeView(t, F.view) ELSE t
  BY <1>1 DEF Rebuilt
<1>5. CASE Touches(p, "view")
  <2>1. x = SynchronizeView(t, F.view)
    BY <1>4, <1>5
  <2> QED
    BY <1>3, <2>1, ViewSynchronized DEF ShowsMap, Shows, CameraAt
<1>6. CASE ~Touches(p, "view")
  <2>1. x = t
    BY <1>4, <1>6
  <2>2. F.view = d.view
    <3>1. Same(F, d, "view")
      BY <1>6, Untouched
    <3> QED
      BY <3>1 DEF Same, SpecShape, Has
  <2> QED
    BY <1>3, <1>6, <2>1, <2>2 DEF ShowsMap, Shows
<1> QED
  BY <1>5, <1>6

(***************************************************************************)
(* The adapter and its runtime: whenever no batch is under way, a live map *)
(* shows the committed spec.                                               *)
(***************************************************************************)
JoinAllOp(context, all, r) == IF r.dryRun THEN all ELSE all \o r.patch

JoiningAll == INSTANCE FoldTheorems WITH Op <- JoinAllOp

\* The patches of all the results that were no dry runs.
JoinedAll(log) == JoiningAll!LeftFold(0, << >>, log)

\* The patch that the adapter gets is theirs.
LEMMA CommittedPatchIs ==
  CommittedPatch = IF answer.committed THEN JoinedAll(results) ELSE << >>
BY Zenon DEF CommittedPatch, JoinedAll, JoiningAll!LeftFold, JoinAllOp, FoldLeft,
   MapThenFoldSet, JoiningAll!LeftStep, Max, JoiningAll!Highest

LEMMA JoinedAllEmpty == JoinedAll(<< >>) = << >>
<1>1. DOMAIN << >> = {}
  OBVIOUS
<1> QED
  BY <1>1, JoiningAll!LeftFoldEmpty DEF JoinedAll

LEMMA JoinedAllAppend ==
  ASSUME NEW log, IsSeq(log), NEW r
  PROVE  JoinedAll(Append(log, r)) = JoinAllOp(0, JoinedAll(log), r)
<1>1. PICK n, u : n = Len(log) /\ u = Append(log, r)
  OBVIOUS
<1>2. /\ n \in Nat /\ DOMAIN log = 1..n
      /\ DOMAIN u = 1..(n + 1) /\ u[n + 1] = r /\ \A i \in 1..n : u[i] = log[i]
  BY <1>1, SeqIs, AppendIs
<1>3. JoiningAll!LeftFold(0, << >>, u) = JoinAllOp(0, JoiningAll!LeftFold(0, << >>, log), u[n + 1])
  BY <1>2, JoiningAll!LeftFoldLast
<1> QED
  BY <1>1, <1>2, <1>3 DEF JoinedAll

LEMMA NothingJoined ==
  ASSUME NEW s, IsSeq(s)
  PROVE  s \o << >> = s
<1>1. PICK e, u : e = << >> /\ u = s \o e
  OBVIOUS
<1>2. IsSeq(e) /\ Len(e) = 0 /\ Len(s) \in Nat
  BY <1>1, Path0, SeqIs
<1>3. IsSeq(u) /\ Len(u) = Len(s) + Len(e) /\ \A i \in 1..Len(s) : u[i] = s[i]
  BY <1>1, <1>2, ConcatIs DEF Joins
<1>4. Len(u) = Len(s)
  BY <1>2, <1>3
<1>5. u = s
  BY <1>3, <1>4, SameSeq
<1> QED
  BY <1>1, <1>5

\* The patches of a batch are a way from the spec it was given, and those that the
\* adapter collects are the ones of the effective results.
Wayward(d, log) ==
    Way(d, PatchOf(Kept(log))) /\ JoinedAll(log) = PatchOf(Kept(log))

LEMMA WaywardAtFirst ==
  ASSUME NEW d, SpecShape(d)
  PROVE  Wayward(d, << >>)
<1>1. Frame(d)
  BY DEF SpecShape, Frame
<1> QED
  BY <1>1, KeptEmpty, PatchOfEmpty, JoinedAllEmpty, WayEmpty DEF Wayward

\* A result that took no effect adds nothing.
LEMMA UnappliedWayward ==
  ASSUME NEW d, NEW log, IsSeq(log), Wayward(d, log),
         NEW r, ~(r.status = "applied" /\ ~r.dryRun), r.dryRun \/ r.patch = << >>
  PROVE  Wayward(d, Append(log, r))
<1>1. PICK p : p = PatchOf(Kept(log))
  OBVIOUS
<1>2. IsSeq(p) /\ JoinedAll(log) = p
  BY <1>1 DEF Wayward, Way
<1>3. Kept(Append(log, r)) = Kept(log)
  BY KeptAppend DEF KeepOp
<1>4. JoinedAll(Append(log, r)) = p
  <2>1. JoinedAll(Append(log, r)) = JoinAllOp(0, p, r)
    BY <1>2, JoinedAllAppend
  <2>2. CASE r.dryRun
    BY <2>1, <2>2 DEF JoinAllOp
  <2>3. CASE ~r.dryRun
    <3>1. JoinAllOp(0, p, r) = p \o << >>
      BY <2>3 DEF JoinAllOp
    <3> QED
      BY <1>2, <2>1, <3>1, NothingJoined
  <2> QED
    BY <2>2, <2>3
<1> QED
  BY <1>1, <1>3, <1>4 DEF Wayward

\* One that did goes on from where the log has led.
LEMMA AppliedWayward ==
  ASSUME NEW d, NEW log, IsSeq(log), Wayward(d, log), IsSeq(Kept(log)),
         NEW r, r.status = "applied", ~r.dryRun,
         Way(ApplyJsonPatch(d, PatchOf(Kept(log))), r.patch)
  PROVE  Wayward(d, Append(log, r))
<1>1. PICK k, p : k = Kept(log) /\ p = PatchOf(k)
  OBVIOUS
<1>2. Kept(Append(log, r)) = Append(k, r)
  BY <1>1, KeptAppend DEF KeepOp
<1>3. PatchOf(Append(k, r)) = p \o r.patch
  BY <1>1, PatchOfAppend
<1>4. JoinedAll(Append(log, r)) = p \o r.patch
  BY <1>1, JoinedAllAppend DEF JoinAllOp, Wayward
<1>5. Way(d, p \o r.patch)
  BY <1>1, WayConcat DEF Wayward
<1> QED
  BY <1>2, <1>3, <1>4, <1>5 DEF Wayward

\* The inductive invariant of the adapter.
MapInv ==
    /\ Wayward(given, results)
    /\ phase \in {"importing", "applying", "idle"} =>
           adapterSpec = mapSpec /\ style = StyleOf(mapSpec)
    /\ phase = "applying" \/ (phase = "importing" /\ Running) => given = mapSpec
    /\ phase = "reloading" => ~Running
    /\ phase \in {"applying", "idle"} /\ map # Absent =>
           ShowsMap(map, mapSpec) /\ (~loaded => Fitted(map.camera, mapSpec.view))

\* Every step of a batch preserves what is said of its results.
LEMMA BatchStepWayward ==
  ASSUME CommandsAssumption, BatchInv, Wayward(given, results), BatchStep
  PROVE  Wayward(given', results')
<1>1. /\ IsSeq(results) /\ IsSeq(Kept(results)) /\ SpecShape(current)
      /\ ApplyJsonPatch(given, PatchOf(Kept(results))) = current
  BY DEF BatchInv, Logged, Good
<1>2. ASSUME NEW c, NEW s \in {"failed", "skipped"},
             results' = Append(results, Unapplied(c, s)), given' = given
      PROVE  Wayward(given', results')
  <2>1. PICK r : r = Unapplied(c, s)
    OBVIOUS
  <2>2. r.status = s /\ r.patch = << >>
    BY <2>1 DEF Unapplied
  <2> QED
    BY <1>1, <1>2, <2>1, <2>2, UnappliedWayward
<1>3. ASSUME NEW c \in CommandSet, Apply(c)
      PROVE  Wayward(given', results')
  <2>1. /\ BuildPatch(c, current).kind = "patch" /\ CommandShape(c)
        /\ results' = Append(results, Applied(c)) /\ given' = given
    BY <1>3 DEF Apply, CommandsAssumption
  <2>2. PICK b, w, r : /\ b = BuildPatch(c, current) /\ w = WholePatch(b.patch, current)
                       /\ r = Applied(c)
    OBVIOUS
  <2>3. r.status = "applied" /\ r.patch = w /\ r.dryRun = c.dryRun
    BY <2>2 DEF Applied
  <2>4. Way(current, b.patch)
    BY <1>1, <2>1, <2>2, CommandWay
  <2>5. Way(current, w)
    BY <1>1, <2>2, <2>4, WholeWay
  <2>6. CASE r.dryRun
    BY <1>1, <2>1, <2>2, <2>6, UnappliedWayward
  <2>7. CASE ~r.dryRun
    BY <1>1, <2>1, <2>2, <2>3, <2>5, <2>7, AppliedWayward
  <2> QED
    BY <2>6, <2>7
<1>4. CASE Finish
  BY <1>4 DEF Finish
<1>5. CASE \E c \in CommandSet : Conflict(c) \/ BuildFails(c) \/ Skip(c) \/ Invalid(c) \/ Apply(c)
  <2>1. PICK c \in CommandSet : Conflict(c) \/ BuildFails(c) \/ Skip(c) \/ Invalid(c) \/ Apply(c)
    BY <1>5
  <2>2. CASE Conflict(c) \/ BuildFails(c) \/ Invalid(c)
    <3>1. Fail(c)
      BY <2>2 DEF Conflict, BuildFails, Invalid
    <3> QED
      BY <1>2, <3>1 DEF Fail
  <2>3. CASE Skip(c)
    BY <1>2, <2>3 DEF Skip
  <2> QED
    BY <1>3, <2>1, <2>2, <2>3
<1> QED
  BY <1>4, <1>5 DEF BatchStep

\* What a committed batch hands to the adapter leads from the spec it holds to the
\* one that was answered.
LEMMA CommittedIs ==
  ASSUME CommandsAssumption, BatchInv, MapInv, phase = "applying", ~Running,
         NEW p, p = CommittedPatch, p # << >>
  PROVE  /\ adapterSpec = mapSpec /\ SpecShape(mapSpec) /\ Way(mapSpec, p)
         /\ ApplyJsonPatch(mapSpec, p) = answer.spec /\ SpecShape(answer.spec)
<1>1. answer.committed /\ p = PatchOf(Kept(results)) /\ Way(given, p)
  BY CommittedPatchIs DEF MapInv, Wayward
<1>2. given = mapSpec /\ adapterSpec = mapSpec /\ SpecShape(given)
  BY DEF MapInv, BatchInv, Good
<1>3. answer.spec = ApplyJsonPatch(given, EffectivePatch)
  BY <1>1, InvGivesAnswers DEF AnswersTruly
<1>4. EffectivePatch = p
  BY <1>1, EffectiveIs, EffectivePatchIs
<1>5. SpecShape(answer.spec)
  BY AnswerIsGood DEF Good
<1> QED
  BY <1>1, <1>2, <1>3, <1>4, <1>5

\* A patch that could be transformed is shown, whichever way it went in.
LEMMA PatchShown ==
  ASSUME CommandsAssumption, BatchInv, MapInv, ApplyPatch, phase' = "idle"
  PROVE  /\ adapterSpec' = mapSpec' /\ style' = StyleOf(mapSpec')
         /\ map' # Absent =>
                ShowsMap(map', mapSpec') /\ (~loaded' => Fitted(map'.camera, mapSpec'.view))
<1>1. PICK p, F, r : /\ p = CommittedPatch /\ F = ApplyJsonPatch(adapterSpec, p)
                     /\ r = ApplyIncrementalPatch(map, p, F)
  OBVIOUS
<1>2. /\ phase = "applying" /\ ~Running /\ p # << >> /\ adapterSpec' = F
      /\ loaded' = (loaded /\ ~Touches(p, "view"))
  BY <1>1 DEF ApplyPatch
<1>3. /\ Transformable(F) /\ style' = StyleOf(F) /\ mapSpec' = answer.spec
      /\ map' = IF r.handled THEN Toggled(r.map, p, F) ELSE Rebuilt(r.map, p, F)
  BY <1>1 DEF ApplyPatch
<1>4. /\ adapterSpec = mapSpec /\ SpecShape(mapSpec) /\ Way(mapSpec, p)
      /\ F = answer.spec /\ SpecShape(F)
  BY <1>1, <1>2, CommittedIs
<1>5. ValidateSpec(F)
  BY <1>3 DEF Transformable
<1>6. ASSUME map' # Absent
      PROVE  ShowsMap(map', F) /\ (~loaded' => Fitted(map'.camera, F.view))
  <2>1. map # Absent
    <3> SUFFICES ASSUME map = Absent PROVE FALSE
      OBVIOUS
    <3>1. r = Refused(map)
      BY <1>1, IncrementalPatchIs
    <3>2. map' = Absent
      BY <1>3, <3>1 DEF Refused, Rebuilt
    <3> QED
      BY <1>6, <3>2
  <2>2. ShowsMap(map, mapSpec) /\ (~loaded => Fitted(map.camera, mapSpec.view))
    BY <1>2, <2>1 DEF MapInv
  <2>3. /\ ShowsMap(map', F)
        /\ Touches(p, "view") \/ Fitted(map.camera, mapSpec.view) => Fitted(map'.camera, F.view)
    <3>1. CASE r.handled
      BY <1>1, <1>3, <1>4, <1>5, <2>1, <2>2, <3>1, HandledShows
    <3>2. CASE ~r.handled
      BY <1>1, <1>3, <1>4, <1>6, <2>1, <2>2, <3>2, RebuiltShows
    <3> QED
      BY <3>1, <3>2
  <2> QED
    BY <1>2, <2>2, <2>3
<1> QED
  BY <1>2, <1>3, <1>4, <1>6

\* The invariant holds at the start.
LEMMA MapStarts ==
  ASSUME CommandsAssumption, AdapterInit
  PROVE  MapInv
<1>1. /\ results = << >> /\ mapSpec = given /\ adapterSpec = given /\ style = StyleOf(given)
      /\ phase = "importing" /\ given \in Specs
  BY DEF AdapterInit, BatchInit
<1>2. Wayward(given, results)
  BY <1>1, WaywardAtFirst DEF CommandsAssumption
<1> QED
  BY <1>1, <1>2 DEF MapInv

\* Every step of the adapter and its runtime preserves it.
LEMMA MapInvInductive ==
  ASSUME CommandsAssumption, BatchInv, MapInv, [AdapterNext]_<<batchVars, adapterVars>>
  PROVE  MapInv'
<1>1. CASE UNCHANGED <<batchVars, adapterVars>>
  BY <1>1 DEF MapInv, batchVars, adapterVars, Running
<1>2. CASE InstantiateMap
  <2>1. /\ phase = "importing" /\ map' \in {Absent, NewMap(adapterSpec)}
        /\ phase' = IF Running THEN "applying" ELSE "idle"
        /\ loaded' /\ UNCHANGED <<given, results, answer, mapSpec, adapterSpec, style>>
    BY <1>2 DEF InstantiateMap, batchVars
  <2>2. adapterSpec = mapSpec
    BY <2>1 DEF MapInv
  <2>3. map' # Absent => ShowsMap(map', mapSpec')
    BY <2>1, <2>2, NewMapShows
  <2> QED
    BY <2>1, <2>3 DEF MapInv, Running
<1>3. CASE RunBatch
  <2>1. /\ phase = "applying" /\ BatchStep
        /\ UNCHANGED <<mapSpec, adapterSpec, style, map, phase, loaded>>
    BY <1>3 DEF RunBatch, adapterVars
  <2>2. Wayward(given', results')
    BY <2>1, BatchStepWayward DEF MapInv
  <2>3. given' = given
    BY <2>1 DEF BatchStep, Conflict, BuildFails, Skip, Invalid, Apply, Fail, Finish
  <2> QED
    BY <2>1, <2>2, <2>3 DEF MapInv
<1>4. CASE NothingToPatch
  BY <1>4 DEF NothingToPatch, MapInv, batchVars
<1>5. CASE ApplyPatch
  <2>1. /\ UNCHANGED <<given, results, answer>> /\ phase' \in {"idle", "reloading"} /\ ~Running
    BY <1>5 DEF ApplyPatch, batchVars
  <2>2. Wayward(given', results') /\ ~Running'
    BY <2>1 DEF MapInv, Running
  <2>3. CASE phase' = "idle"
    BY <1>5, <2>2, <2>3, PatchShown DEF MapInv
  <2>4. CASE phase' = "reloading"
    BY <2>2, <2>4 DEF MapInv
  <2> QED
    BY <2>1, <2>3, <2>4
<1>6. CASE Reload
  <2>1. /\ phase = "reloading" /\ phase' = "importing" /\ adapterSpec' = mapSpec
        /\ style' = StyleOf(mapSpec) /\ UNCHANGED <<given, results, answer, mapSpec>>
    BY <1>6 DEF Reload, batchVars
  <2>2. Wayward(given', results') /\ ~Running'
    BY <2>1 DEF MapInv, Running
  <2> QED
    BY <2>1, <2>2 DEF MapInv
<1>7. CASE NextBatch
  <2>1. /\ phase = "idle" /\ phase' = "applying" /\ given' = mapSpec /\ results' = << >>
        /\ UNCHANGED <<mapSpec, adapterSpec, style, map, loaded>>
    BY <1>7 DEF NextBatch, NewBatch
  <2>2. Wayward(given', results')
    BY <2>1, WaywardAtFirst DEF BatchInv, Good
  <2> QED
    BY <2>1, <2>2 DEF MapInv
<1>8. CASE Destroy
  <2>1. phase' = "destroyed" /\ UNCHANGED <<given, results>>
    BY <1>8 DEF Destroy, batchVars
  <2> QED
    BY <2>1 DEF MapInv
<1> QED
  BY <1>1, <1>2, <1>3, <1>4, <1>5, <1>6, <1>7, <1>8 DEF AdapterNext

\* Whatever the maps, the commands and the order of the batches: once a batch is
\* over, the adapter holds the committed spec and hands out its style, and a live
\* map shows it, source by source and layer by layer, with its toggles and at every
\* center, zoom, bearing and pitch its view gives -- whether the patch went in one
\* operation at a time (styleDiff.ts), by a whole style (transformer.ts), or failed
\* half way and the spec was loaded again. A view given by its bounds alone is
\* fitted to once a patch has touched the view since the last load: the load itself
\* ignores them (adapter.ts:343-352).
THEOREM MapFollowsSpec == AdapterSpec => []MapShowsSpec
<1>1. AdapterInit => MapInv
  BY CommandsAssumption, MapStarts
<1>2. BatchInv /\ MapInv /\ [AdapterNext]_<<batchVars, adapterVars>> => MapInv'
  BY CommandsAssumption, MapInvInductive
<1>3. MapInv => MapShowsSpec
  BY DEF MapInv, MapShowsSpec, ShowsMap
<1> QED
  BY <1>1, <1>2, <1>3, BatchInvHolds, PTL DEF AdapterSpec
=============================================================================
