---------------------------- MODULE RestoreProofs ----------------------------
(***************************************************************************)
(* Proofs about the commands of diffSpecsTool (DiffSpecs): which specs the *)
(* atomic batch that restores them gives back, for any two specs, and that *)
(* a spec a batch has made is restored in just those cases, after any      *)
(* batches.                                                                *)
(***************************************************************************)
EXTENDS DiffProofs

(***************************************************************************)
(* The commands together.                                                  *)
(***************************************************************************)
LEMMA DiffIs ==
  ASSUME NEW b, NEW a
  PROVE  Diff(b, a) =
             ((FirstCommands(b, a) \o BuildReorderCommands(Survivors(b, a), Survived(b, a)))
              \o DiffView(b.view, a.view)) \o DiffInteractions(b, a)
BY Zenon DEF Diff, FirstCommands, Survivors, Survived

LEMMA RestoresIs ==
  ASSUME NEW b, NEW a, NEW cs, cs = Diff(b, a), IsSeq(cs)
  PROVE  Restores(b, a) <=> \E e : Leads(b, cs, e) /\ Meaning(e) = Meaning(a)
<1>1. PICK done : done = RunFrom(Fair(b), cs)
  OBVIOUS
<1>2. Restores(b, a) <=> done.ok /\ Meaning(done.spec) = Meaning(a)
  BY <1>1, RunIsFold DEF Restores
<1>3. PICK f : done \in {Fair(f), Foul(f)}
  BY <1>1, RunEnds
<1>4. CASE done = Fair(f)
  <2>1. done.ok /\ done.spec = f
    BY <1>4, States
  <2>2. \A e : Leads(b, cs, e) <=> e = f
    BY <1>1, <1>4, States DEF Leads
  <2> QED
    BY <1>2, <2>1, <2>2
<1>5. CASE done = Foul(f)
  <2>1. ~done.ok
    BY <1>5, States
  <2>2. \A e : ~Leads(b, cs, e)
    <3>1. \A e : Foul(f) # Fair(e)
      BY States
    <3> QED
      BY <1>1, <1>5, <3>1 DEF Leads
  <2> QED
    BY <1>2, <2>1, <2>2
<1> QED
  BY <1>3, <1>4, <1>5

\* Between two specs the batch restores one from the other exactly when their
\* difference is within the reach of the commands: it can be expressed, no layer has
\* to move, no source is replaced under a layer that stays, and no layer has to wait
\* for its view (diffSpecs.ts, applied by restoreWorkbenchRevision).
THEOREM RestoresWhatIsInReach ==
  ASSUME NEW b, Settled(b), NEW a, Settled(a)
  PROVE  Restores(b, a) <=>
             /\ Expressible(b, a) /\ InPlace(b.layers, a.layers)
             /\ Unused(b, a) /\ Timely(b, a)
<1>1. PICK p, q, r, s : /\ p = FirstCommands(b, a)
                        /\ q = BuildReorderCommands(Survivors(b, a), Survived(b, a))
                        /\ r = DiffView(b.view, a.view) /\ s = DiffInteractions(b, a)
  OBVIOUS
<1>2. PICK X, Y, J, F, E : /\ X = Survivors(b, a) /\ Y = Survived(b, a) /\ J = IdsOf(a.layers)
                           /\ F = FirstOrder(b, a) /\ E = DictOf(a.layers)
  OBVIOUS
<1>3. PICK L, m : L = Dressed(E, F) /\ m = Made(b, a.sources, L)
  OBVIOUS
<1>4. /\ LayersShape(a.layers) /\ DistinctIds(a.layers) /\ Frame(b)
      /\ \A i \in DOMAIN a.layers : a.layers[i].id # Absent
  BY DEF Settled, SpecShape, DiffShape, ValidateSpec, Frame
<1>5. /\ IsSeq(X) /\ Distinct(X) /\ IsSeq(Y) /\ Distinct(Y) /\ ToSet(X) = ToSet(Y)
      /\ IsSeq(F) /\ Distinct(F) /\ ToSet(F) = DOMAIN E
      /\ InPlace(b.layers, a.layers) <=> F = J /\ X = Y
  BY <1>2, InPlaceIs
<1>6. IsSeq(J) /\ Distinct(J) /\ Named(E) /\ DOMAIN E = ToSet(J) /\ a.layers = Dressed(E, J)
  BY <1>2, <1>4, DictIs
<1>7. Absent \notin ToSet(J)
  BY <1>2, <1>4 DEF ToSet, IdsOf
<1>8. LayersShape(L) /\ IdsOf(L) = F
  BY <1>3, <1>5, <1>6, DressedNamed
<1>9. /\ IsObject(m) /\ Has(m, "layers") /\ m.layers = L /\ IsSeq(L) /\ m.view = b.view
      /\ Made(b, a.sources, L) = m
  <2>1. IsObject(m) /\ m.layers = L /\ Frame(m) /\ m.view = b.view
    BY <1>3, <1>4, MadeIs
  <2>2. IsSeq(L)
    BY <1>3, <1>5, DressedIs
  <2> QED
    BY <1>3, <2>1, <2>2 DEF Frame, Has
<1>10. /\ Reorders(q, Y) /\ (X = Y => q = << >>)
       /\ \A e : Leads(m, q, e) => Rearranged(m, e)
       /\ \A e : Leads(m, q, e) /\ IdsOf(e.layers) = J => q = << >>
  <2>1. PICK C : Y = Among(J, C)
    BY <1>2 DEF Survived
  <2>2. q = BuildReorderCommands(X, Y)
    BY <1>1, <1>2
  <2>3. IsSeq(m.layers)
    BY <1>9
  <2> QED
    BY <1>5, <1>6, <1>7, <1>9, <2>1, <2>2, <2>3, NothingMoves
<1>11. IsSeq(p) /\ \A e : Leads(b, p, e) <=> e = m /\ Unused(b, a) /\ Timely(b, a)
  BY <1>1, <1>2, <1>3, FirstCommandsLead
<1>12. /\ IsSeq(r) /\ IsSeq(s) /\ IsSeq(q)
       /\ \A d : d.view = b.view => /\ \A e : Leads(d, r, e) => e = Viewed(b, a, d)
                                    /\ ValidateSpec(Viewed(b, a, d)) => Leads(d, r, Viewed(b, a, d))
       /\ \A d : /\ \A e : Leads(d, s, e) => e = Switched(b, a, d)
                 /\ ValidateSpec(Switched(b, a, d)) => Leads(d, s, Switched(b, a, d))
  <2>1. ASSUME NEW d, d.view = b.view
        PROVE  /\ IsSeq(r) /\ \A e : Leads(d, r, e) => e = Viewed(b, a, d)
               /\ ValidateSpec(Viewed(b, a, d)) => Leads(d, r, Viewed(b, a, d))
    BY <1>1, <2>1, ViewLeads
  <2>2. ASSUME NEW d
        PROVE  /\ IsSeq(s) /\ \A e : Leads(d, s, e) => e = Switched(b, a, d)
               /\ ValidateSpec(Switched(b, a, d)) => Leads(d, s, Switched(b, a, d))
    BY <1>1, TogglesLead
  <2>3. IsSeq(r) /\ IsSeq(s) /\ IsSeq(q)
    BY <1>10, <2>1, <2>2 DEF Reorders
  <2> QED
    BY <2>1, <2>2, <2>3
<1>13. PICK pq, pqr, cs : pq = p \o q /\ pqr = pq \o r /\ cs = pqr \o s
  OBVIOUS
<1>14. IsSeq(pq) /\ IsSeq(pqr) /\ IsSeq(cs)
  <2>1. IsSeq(pq)
    BY <1>11, <1>12, <1>13, ConcatHolds
  <2>2. IsSeq(pqr)
    BY <1>12, <1>13, <2>1, ConcatHolds
  <2>3. IsSeq(cs)
    BY <1>12, <1>13, <2>2, ConcatHolds
  <2> QED
    BY <2>1, <2>2, <2>3
<1>15. Restores(b, a) <=> \E e : Leads(b, cs, e) /\ Meaning(e) = Meaning(a)
  <2>1. cs = Diff(b, a)
    BY <1>1, <1>13, DiffIs
  <2> QED
    BY <1>14, <2>1, RestoresIs
<1>16. ASSUME NEW e
       PROVE  Leads(b, cs, e) <=>
                  \E u, v : Leads(b, p, m) /\ Leads(m, q, u) /\ Leads(u, r, v) /\ Leads(v, s, e)
  <2>1. Leads(b, cs, e) <=> \E v : Leads(b, pqr, v) /\ Leads(v, s, e)
    <3>1. IsSeq(pqr) /\ IsSeq(s)
      BY <1>12, <1>14
    <3>2. Leads(b, pqr \o s, e) <=> \E v : Leads(b, pqr, v) /\ Leads(v, s, e)
      BY ONLY <3>1, LeadsOn
    <3> QED
      BY <1>13, <3>2
  <2>2. \A v : Leads(b, pqr, v) <=> \E u : Leads(b, pq, u) /\ Leads(u, r, v)
    BY <1>12, <1>13, <1>14, LeadsOn
  <2>3. \A u : Leads(b, pq, u) <=> \E d : Leads(b, p, d) /\ Leads(d, q, u)
    BY <1>11, <1>12, <1>13, LeadsOn
  <2>4. \A d : Leads(b, p, d) => d = m
    BY <1>11
  <2> QED
    BY <2>1, <2>2, <2>3, <2>4
<1>17. ASSUME NEW u, NEW M, u = Made(b, a.sources, M), NEW e, e = Switched(b, a, Viewed(b, a, u))
       PROVE  /\ ViewedAs(b, a, Viewed(b, a, u), M) /\ ViewedAs(b, a, e, M)
              /\ Meaning(e) = Meaning(a) <=> Expressible(b, a) /\ M = a.layers
              /\ u.view = b.view /\ u.layers = M
  <2>1. ViewedAs(b, a, Viewed(b, a, u), M) /\ FinishedAs(b, a, e, M)
    BY <1>17, FinishedIs
  <2>2. Meaning(e) = Meaning(a) <=> Expressible(b, a) /\ M = a.layers
    BY <2>1, FinishedMeans
  <2>3. u.view = b.view /\ u.layers = M
    BY <1>4, <1>17, MadeIs
  <2> QED
    BY <2>1, <2>2, <2>3 DEF FinishedAs
<1>18. ASSUME Restores(b, a)
       PROVE  Expressible(b, a) /\ InPlace(b.layers, a.layers) /\ Unused(b, a) /\ Timely(b, a)
  <2>1. PICK e, u, v : /\ Meaning(e) = Meaning(a) /\ Leads(b, p, m)
                       /\ Leads(m, q, u) /\ Leads(u, r, v) /\ Leads(v, s, e)
    BY <1>15, <1>16, <1>18
  <2>2. Unused(b, a) /\ Timely(b, a)
    BY <1>11, <2>1
  <2>3. PICK M : u = InLayers(m, M)
    BY <1>10, <2>1 DEF Rearranged
  <2>4. u = Made(b, a.sources, M)
    BY <1>3, <1>4, <2>3, MadeAgain
  <2>5. u.view = b.view /\ u.layers = M
    BY <1>4, <2>4, MadeIs
  <2>6. v = Viewed(b, a, u) /\ e = Switched(b, a, v)
    BY <1>12, <2>1, <2>5
  <2>7. Expressible(b, a) /\ M = a.layers
    BY <1>17, <2>1, <2>4, <2>6
  <2>8. q = << >>
    BY <1>2, <1>10, <2>1, <2>5, <2>7
  <2>9. u = m
    BY <2>1, <2>8, LeadsNowhere
  <2>10. F = J
    BY <1>2, <1>8, <1>9, <2>5, <2>7, <2>9
  <2>11. X = Y
    <3>1. \A j \in 1..Len(Y) : X[j] = Y[j]
      <4>1. \A ds, x : IsSeq(ds) => Append(ds, x) # << >>
        <5>1. ASSUME NEW ds, IsSeq(ds), NEW x PROVE Append(ds, x) # << >>
          <6>1. PICK k, t : k = Len(ds) /\ t = Append(ds, x)
            OBVIOUS
          <6>2. k \in Nat /\ Len(t) = k + 1
            BY <5>1, <6>1, SeqIs, AppendIs
          <6> QED
            BY <6>1, <6>2, EmptyHolds
        <5> QED
          BY <5>1
      <4>2. q = BuildReorderCommands(X, Y)
        BY <1>1, <1>2
      <4>3. \/ q = << >> /\ \A j \in 1..Len(Y) : X[j] = Y[j]
            \/ \E j \in 1..Len(Y) : \E ds : /\ q = Append(ds, Reorder(Y, j)) /\ Reorders(ds, Y)
                                            /\ \E k \in 1..j : X[k] # Y[k]
        BY <1>5, <4>2, ReorderCommandsAre
      <4> QED
        BY <2>8, <4>1, <4>3 DEF Reorders
    <3> QED
      BY <1>5, <3>1, SameList
  <2> QED
    BY <1>5, <2>2, <2>7, <2>10, <2>11
<1>19. ASSUME Expressible(b, a), InPlace(b.layers, a.layers), Unused(b, a), Timely(b, a)
       PROVE  Restores(b, a)
  <2>1. F = J /\ X = Y
    BY <1>5, <1>19
  <2>2. L = a.layers /\ q = << >>
    BY <1>3, <1>6, <1>10, <2>1
  <2>3. PICK v, e : v = Viewed(b, a, m) /\ e = Switched(b, a, v)
    OBVIOUS
  <2>4. /\ ViewedAs(b, a, v, a.layers) /\ ViewedAs(b, a, e, a.layers)
        /\ Meaning(e) = Meaning(a)
    BY <1>3, <1>17, <1>19, <2>2, <2>3
  <2>5. ValidateSpec(v)
    BY <1>19, <2>4, ViewedValid
  <2>6. ValidateSpec(e)
    BY <1>19, <2>4, ViewedValid
  <2>7. Leads(b, p, m)
    BY <1>11, <1>19
  <2>8. Leads(m, q, m)
    BY <2>2, LeadsNowhere
  <2>9. Leads(m, r, v)
    BY <1>9, <1>12, <2>3, <2>5
  <2>10. Leads(v, s, e)
    BY <1>12, <2>3, <2>6
  <2> QED
    BY <1>15, <1>16, <2>4, <2>7, <2>8, <2>9, <2>10
<1> QED
  BY <1>18, <1>19


(***************************************************************************)
(* The shape of a spec under the commands.                                 *)
(***************************************************************************)
\* A document that is a spec of that shape, and the operations that leave it one
\* wherever they are known.
Identified(layers) == \A i \in DOMAIN layers : Has(layers[i], "id") /\ layers[i].id # Absent

Held(d) == Frame(d) /\ DiffShape(d) /\ Identified(d.layers)

Mild(o) ==
    /\ o.path[1] = "view" => Len(o.path) = 1 /\ DOMAIN o.value \subseteq ViewMembers
    /\ o.path[1] = "interactions" => Len(o.path) = 1 /\ o.value # Absent
    /\ o.path[1] = "layers" => Len(o.path) > 2 /\ (Len(o.path) = 3 => o.path[3] # "id")

\* What the shape is about, one member at a time.
LEMMA HeldIs ==
  ASSUME NEW d
  PROVE  Held(d) <=>
             /\ Frame(d) /\ DOMAIN d.view \subseteq ViewMembers /\ IsFiniteSet(DOMAIN d.sources)
             /\ Has(d, "interactions") => d.interactions # Absent
             /\ Identified(d.layers)
BY DEF Held, DiffShape, Identified

\* An operation on a member of the document that does not go below it.
LEMMA MildRoot ==
  ASSUME NEW d, NEW o, Known(d, o), Len(o.path) = 1
  PROVE  ApplyOperation(d, o)[o.path[1]] = o.value
<1>1. PICK r, e : r = o.path[1] /\ e = ApplyOperation(d, o)
  OBVIOUS
<1>2. e = ObjectOperation(d, r, o)
  BY <1>1, RootOperation DEF Known
<1>3. e = With(d, r, o.value)
  BY <1>2 DEF Known, ObjectOperation
<1>4. e[r] = o.value
  BY <1>3 DEF With
<1> QED
  BY <1>1, <1>4

\* The sources stay finitely many.
LEMMA MildSources ==
  ASSUME NEW d, Held(d), NEW o, Known(d, o), o.path[1] = "sources"
  PROVE  IsFiniteSet(DOMAIN ApplyOperation(d, o).sources)
<1>1. PICK S, T, k : S = d.sources /\ T = ObjectOperation(S, k, o) /\ k = o.path[2]
  OBVIOUS
<1>2. IsFiniteSet(DOMAIN S) /\ ApplyOperation(d, o).sources = T
  BY <1>1, HeldIs, OnSource
<1>3. DOMAIN T = DOMAIN S \ {k} \/ DOMAIN T = DOMAIN S \cup {k}
  BY <1>1 DEF ObjectOperation, With, Without
<1>4. IsFiniteSet(DOMAIN S \ {k})
  BY <1>2, FS_Subset
<1>5. IsFiniteSet(DOMAIN S \cup {k})
  BY <1>2, FS_AddElement
<1> QED
  BY <1>2, <1>3, <1>4, <1>5

\* A layer keeps its id.
LEMMA MildLayers ==
  ASSUME NEW d, Held(d), NEW o, Known(d, o), Mild(o), o.path[1] = "layers",
         NEW L, L = ApplyOperation(d, o).layers
  PROVE  Identified(L)
<1>1. PICK i, m, n, l, E : /\ i = o.path[2] /\ m = o.path[3] /\ n = Len(o.path)
                           /\ E = d.layers /\ l = E[i]
  OBVIOUS
<1>2. /\ n \in Nat /\ n > 2 /\ (n = 3 => m # "id") /\ (n > 3 => n = 4) /\ i \in DOMAIN E
      /\ (n = 4 => m \in {"paint", "layout"}) /\ Frame(d)
  <2>1. n \in Nat
    <3>1. IsSeq(o.path)
      BY DEF Known
    <3> QED
      BY <1>1, <3>1, SeqIs
  <2>2. n > 2 /\ (n = 3 => m # "id")
    BY <1>1 DEF Mild
  <2>3. i \in DOMAIN E /\ (n > 3 => n = 4) /\ (n > 3 => m \in {"paint", "layout"})
    BY <1>1, <2>2 DEF Known
  <2>4. Frame(d)
    BY DEF Held
  <2> QED
    BY <2>1, <2>2, <2>3, <2>4
<1>3. \A j \in DOMAIN E : Has(E[j], "id") /\ E[j].id # Absent
  BY <1>1, HeldIs DEF Identified
<1>4. Has(l, "id") /\ l.id # Absent
  BY <1>1, <1>2, <1>3
<1>5. PICK x : L = [E EXCEPT ![i] = x] /\ Has(x, "id") /\ x.id = l.id
  <2>1. CASE n = 3
    <3>1. PICK y : y = ObjectOperation(l, m, o)
      OBVIOUS
    <3>2. L = [E EXCEPT ![i] = y]
      <4>1. i = o.path[2] /\ y = ObjectOperation(d.layers[i], o.path[3], o)
        BY <1>1, <3>1
      <4>2. Len(o.path) = 3 /\ Known(d, o) /\ Frame(d) /\ o.path[1] = "layers"
        BY <1>1, <1>2, <2>1
      <4>3. ApplyOperation(d, o).layers = [d.layers EXCEPT ![i] = y]
        BY ONLY <4>1, <4>2, OnLayerMember
      <4> QED
        BY <1>1, <4>3
    <3>3. m # "id"
      BY <1>2, <2>1
    <3>4. Has(y, "id") /\ y.id = l.id
      BY <1>4, <3>1, <3>3 DEF ObjectOperation, With, Without, Has
    <3> QED
      BY <3>2, <3>4
  <2>2. CASE n = 4
    <3>1. PICK z, y : z = With(l[m], o.path[4], o.value) /\ y = [l EXCEPT ![m] = z]
      OBVIOUS
    <3>2. L = [E EXCEPT ![i] = y]
      <4>1. i = o.path[2] /\ m = o.path[3] /\ z = With(d.layers[i][m], o.path[4], o.value)
        BY <1>1, <3>1
      <4>2. Len(o.path) = 4 /\ Known(d, o) /\ Frame(d) /\ o.path[1] = "layers"
        BY <1>1, <1>2, <2>2
      <4>3. ApplyOperation(d, o).layers = [d.layers EXCEPT ![i] = [d.layers[i] EXCEPT ![m] = z]]
        BY ONLY <4>1, <4>2, OnCell
      <4> QED
        BY <1>1, <3>1, <4>3
    <3>3. m # "id"
      BY <1>2, <2>2
    <3>4. Has(y, "id") /\ y.id = l.id
      BY <1>4, <3>1, <3>3 DEF Has
    <3> QED
      BY <3>2, <3>4
  <2> QED
    BY <1>2, <2>1, <2>2
<1>6. DOMAIN L = DOMAIN E /\ L[i] = x /\ \A j \in DOMAIN E : j # i => L[j] = E[j]
  BY <1>2, <1>5
<1>7. ASSUME NEW j \in DOMAIN L PROVE Has(L[j], "id") /\ L[j].id # Absent
  <2>1. CASE j = i
    BY <1>4, <1>5, <1>6, <2>1
  <2>2. CASE j # i
    BY <1>3, <1>6, <1>7, <2>2
  <2> QED
    BY <2>1, <2>2
<1> QED
  BY <1>7 DEF Identified

LEMMA MildHolds ==
  ASSUME NEW d, Held(d), NEW o, Known(d, o), Mild(o)
  PROVE  Held(ApplyOperation(d, o))
<1>1. PICK e, r : e = ApplyOperation(d, o) /\ r = o.path[1]
  OBVIOUS
<1>2. /\ DOMAIN d.view \subseteq ViewMembers /\ IsFiniteSet(DOMAIN d.sources)
      /\ Has(d, "interactions") => d.interactions # Absent
      /\ Identified(d.layers)
  BY HeldIs
<1>3. Frame(d) /\ Frame(e) /\ \A n : n # r => Same(e, d, n)
  BY <1>1, Elsewhere DEF Held
<1>4. \A n \in {"view", "sources", "layers"} : n # r => e[n] = d[n]
  BY <1>3 DEF Same, Frame, Has
<1>5. DOMAIN e.view \subseteq ViewMembers
  <2>1. CASE r = "view"
    <3>1. Len(o.path) = 1 /\ DOMAIN o.value \subseteq ViewMembers
      BY <1>1, <2>1 DEF Mild
    <3>2. e[r] = o.value
      BY <1>1, <3>1, MildRoot
    <3> QED
      BY <2>1, <3>1, <3>2
  <2>2. CASE r # "view"
    BY <1>2, <1>4, <2>2
  <2> QED
    BY <2>1, <2>2
<1>6. IsFiniteSet(DOMAIN e.sources)
  <2>1. CASE r = "sources"
    BY <1>1, <2>1, MildSources
  <2>2. CASE r # "sources"
    BY <1>2, <1>4, <2>2
  <2> QED
    BY <2>1, <2>2
<1>7. Has(e, "interactions") => e.interactions # Absent
  <2>1. CASE r = "interactions"
    <3>1. Len(o.path) = 1 /\ o.value # Absent
      BY <1>1, <2>1 DEF Mild
    <3>2. e[r] = o.value
      BY <1>1, <3>1, MildRoot
    <3> QED
      BY <2>1, <3>1, <3>2
  <2>2. CASE r # "interactions"
    BY <1>2, <1>3, <2>2 DEF Same
  <2> QED
    BY <2>1, <2>2
<1>8. Identified(e.layers)
  <2>1. CASE r = "layers"
    BY <1>1, <2>1, MildLayers
  <2>2. CASE r # "layers"
    BY <1>2, <1>4, <2>2
  <2> QED
    BY <2>1, <2>2
<1> QED
  BY <1>1, <1>3, <1>5, <1>6, <1>7, <1>8, HeldIs

\* A patch of such operations.
MildPatch(p) == \A k \in 1..Len(p) : Mild(p[k])

LEMMA MildWay ==
  ASSUME NEW d, Held(d), NEW p, Way(d, p), MildPatch(p)
  PROVE  Held(ApplyJsonPatch(d, p))
<1>1. Len(p) \in Nat
  BY SeqIs DEF Way
<1>2. PICK f : Walks(d, p, f)
  BY DEF Way
<1>3. f[Len(p)] = ApplyJsonPatch(d, p)
  BY <1>2, WalkEnds
<1> DEFINE S == {k \in Nat : k <= Len(p) => Held(f[k])}
<1>4. 0 \in S
  BY <1>2 DEF Walks
<1>5. ASSUME NEW k \in Nat, k \in S PROVE k + 1 \in S
  <2> SUFFICES ASSUME k + 1 <= Len(p) PROVE Held(f[k + 1])
    OBVIOUS
  <2>1. PICK j, b, o : j = k + 1 /\ b = f[k] /\ o = p[j]
    OBVIOUS
  <2>2. j \in 1..Len(p) /\ j - 1 = k /\ k <= Len(p)
    BY <1>1, <2>1
  <2>3. Held(b)
    BY <1>5, <2>1, <2>2
  <2>4. f[j] = ApplyOperation(b, o) /\ Known(b, o)
    BY <1>2, <2>1, <2>2 DEF Walks
  <2>5. Mild(o)
    BY <2>1, <2>2 DEF MildPatch
  <2>6. Held(f[j])
    BY <2>3, <2>4, <2>5, MildHolds
  <2> QED
    BY <2>1, <2>6
<1>6. Nat \subseteq S
  <2> HIDE DEF S
  <2> QED
    BY <1>4, <1>5, Patching!Induction
<1> QED
  BY <1>1, <1>3, <1>6

LEMMA MildFew ==
  ASSUME NEW o, Mild(o), NEW q, Mild(q)
  PROVE  MildPatch(<<o>>) /\ MildPatch(<<o, q>>)
<1>1. PICK u, v : u = <<o>> /\ v = <<o, q>>
  OBVIOUS
<1>2. Len(u) = 1 /\ u[1] = o /\ Len(v) = 2 /\ v[1] = o /\ v[2] = q
  BY <1>1
<1>3. (\A k \in 1..Len(u) : k = 1) /\ \A k \in 1..Len(v) : k = 1 \/ k = 2
  BY <1>2
<1>4. (\A k \in 1..Len(u) : Mild(u[k])) /\ \A k \in 1..Len(v) : Mild(v[k])
  BY <1>2, <1>3
<1> QED
  BY <1>1, <1>4 DEF MildPatch

(***************************************************************************)
(* The commands leave a spec one of the shape.                             *)
(***************************************************************************)
\* Where an operation is mild.
LEMMA MildElsewhere ==
  ASSUME NEW o, o.path[1] \notin {"view", "interactions", "layers"}
  PROVE  Mild(o)
BY DEF Mild

LEMMA MildBelow ==
  ASSUME NEW o, NEW i, NEW m, m # "id", NEW k,
         o.path = <<"layers", i, m>> \/ o.path = <<"layers", i, m, k>>
  PROVE  Mild(o)
<1>1. CASE o.path = <<"layers", i, m>>
  <2>1. Path3Is(o.path, "layers", i, m)
    BY <1>1, ShortPaths
  <2> QED
    BY <2>1 DEF Path3Is, Mild
<1>2. CASE o.path = <<"layers", i, m, k>>
  <2>1. Path4Is(o.path, "layers", i, m, k)
    BY <1>2, ShortPaths
  <2> QED
    BY <2>1 DEF Path4Is, Mild
<1> QED
  BY <1>1, <1>2

LEMMA MildMember ==
  ASSUME NEW o, NEW n, o.path = <<n>>, n # "layers",
         n = "view" => DOMAIN o.value \subseteq ViewMembers, n = "interactions" => o.value # Absent
  PROVE  Mild(o)
<1>1. Path1Is(o.path, n)
  BY ShortPaths
<1> QED
  BY <1>1 DEF Path1Is, Mild

LEMMA MildSource ==
  ASSUME NEW o, NEW id, o.path = <<"sources", id>>
  PROVE  Mild(o)
<1>1. Path2Is(o.path, "sources", id)
  BY ShortPaths
<1> QED
  BY <1>1, MildElsewhere DEF Path2Is

\* Layers with ids, when one is taken out or put in.
LEMMA IdentifiedRemoved ==
  ASSUME NEW L, IsSeq(L), Identified(L), NEW k \in 1..Len(L)
  PROVE  Identified(RemoveAt(L, k))
<1>1. PICK M : M = RemoveAt(L, k)
  OBVIOUS
<1>2. /\ IsSeq(M) /\ Len(M) = Len(L) - 1
      /\ \A j \in 1..(Len(L) - 1) : M[j] = IF j < k THEN L[j] ELSE L[j + 1]
  BY <1>1, RemoveAtIs
<1>3. Len(L) \in Nat /\ DOMAIN L = 1..Len(L) /\ DOMAIN M = 1..(Len(L) - 1)
  BY <1>2, SeqIs
<1>4. ASSUME NEW j \in DOMAIN M PROVE \E i \in DOMAIN L : M[j] = L[i]
  <2>1. j \in 1..(Len(L) - 1)
    BY <1>3
  <2>2. PICK i : i = j + 1
    OBVIOUS
  <2>3. j \in DOMAIN L /\ i \in DOMAIN L
    BY <1>3, <2>1, <2>2
  <2>4. M[j] = L[j] \/ M[j] = L[i]
    BY <1>2, <2>1, <2>2
  <2> QED
    BY <2>3, <2>4
<1> QED
  BY <1>1, <1>4 DEF Identified

LEMMA IdentifiedInserted ==
  ASSUME NEW L, IsSeq(L), Identified(L), NEW k \in 1..(Len(L) + 1), NEW x, Has(x, "id"), x.id # Absent
  PROVE  Identified(InsertAt(L, k, x))
<1>1. PICK M : M = InsertAt(L, k, x)
  OBVIOUS
<1>2. /\ IsSeq(M) /\ Len(M) = Len(L) + 1
      /\ \A j \in 1..(Len(L) + 1) : M[j] = IF j < k THEN L[j] ELSE IF j = k THEN x ELSE L[j - 1]
  BY <1>1, InsertAtIs
<1>3. Len(L) \in Nat /\ DOMAIN L = 1..Len(L) /\ DOMAIN M = 1..(Len(L) + 1)
  BY <1>2, SeqIs
<1>4. ASSUME NEW j \in DOMAIN M PROVE M[j] = x \/ \E i \in DOMAIN L : M[j] = L[i]
  <2>1. j \in 1..(Len(L) + 1)
    BY <1>3
  <2>2. CASE j < k
    <3>1. M[j] = L[j] /\ j \in DOMAIN L
      BY <1>2, <1>3, <2>1, <2>2
    <3> QED
      BY <3>1
  <2>3. CASE j = k
    BY <1>2, <2>1, <2>3
  <2>4. CASE j > k
    <3>1. PICK i : i = j - 1
      OBVIOUS
    <3>2. M[j] = L[i] /\ i \in DOMAIN L
      BY <1>2, <1>3, <2>1, <2>4, <3>1
    <3> QED
      BY <3>2
  <2> QED
    BY <1>3, <2>1, <2>2, <2>3, <2>4
<1> QED
  BY <1>1, <1>4 DEF Identified

\* The document with other layers.
LEMMA HeldLayers ==
  ASSUME NEW d, Held(d), NEW M, Identified(M)
  PROVE  Held(InLayers(d, M))
<1>1. PICK e : e = InLayers(d, M)
  OBVIOUS
<1>2. Frame(d) /\ Has(d, "layers")
  BY DEF Held, Frame, Has
<1>3. Frame(e) /\ e.layers = M /\ e.view = d.view /\ e.sources = d.sources
      /\ (Has(e, "interactions") <=> Has(d, "interactions")) /\ e.interactions = d.interactions
  BY <1>1, <1>2 DEF InLayers, Frame, IsObject, Has
<1> QED
  BY <1>1, <1>3, HeldIs

\* addLayer, removeLayer and reorderLayer.
LEMMA AddLayerHolds ==
  ASSUME NEW c, LayerShape(c.value), c.value.id # Absent, NEW d, SpecShape(d), Held(d),
         NEW b, b = AddLayer(c, d), b.kind = "patch"
  PROVE  Held(ApplyJsonPatch(d, b.patch))
<1>1. PICK k, o, L, x : /\ k = Anchor(L, c.before) /\ o = Add(<<"layers", k>>, c.value)
                        /\ L = d.layers /\ x = c.value
  OBVIOUS
<1>2. k # 0 /\ b.patch = <<o>>
  BY <1>1 DEF AddLayer, Built, Failed, Skipped
<1>3. IsSeq(L) /\ Identified(L)
  BY <1>1, LayersReach, HeldIs
<1>4. k \in 1..(Len(L) + 1)
  BY <1>1, <1>2, <1>3, AnchorIs
<1>5. Has(x, "id") /\ x.id # Absent
  BY <1>1 DEF LayerShape, Has
<1>6. Identified(InsertAt(L, k, x))
  BY <1>3, <1>4, <1>5, IdentifiedInserted
<1>7. ApplyJsonPatch(d, <<o>>) = InLayers(d, InsertAt(L, k, x))
  BY <1>1, PatchOne, LayerOperationIn
<1> QED
  BY <1>2, <1>6, <1>7, HeldLayers

LEMMA RemoveLayerHolds ==
  ASSUME NEW c, NEW d, SpecShape(d), Held(d), LayerAt(d.layers, c.id) # 0
  PROVE  Held(ApplyJsonPatch(d, RemoveLayer(c, d).patch))
<1>1. PICK k, o, L : k = LayerAt(L, c.id) /\ o = Delete(<<"layers", k>>) /\ L = d.layers
  OBVIOUS
<1>2. RemoveLayer(c, d).patch = <<o>>
  BY <1>1 DEF RemoveLayer, Built
<1>3. IsSeq(L) /\ Identified(L)
  BY <1>1, LayersReach, HeldIs
<1>4. k \in 1..Len(L)
  BY <1>1, <1>3, LayerAtIs
<1>5. Identified(RemoveAt(L, k))
  BY <1>3, <1>4, IdentifiedRemoved
<1>6. ApplyJsonPatch(d, <<o>>) = InLayers(d, RemoveAt(L, k))
  BY <1>1, PatchOne, LayerOperationIn
<1> QED
  BY <1>2, <1>5, <1>6, HeldLayers

LEMMA ReorderLayerHolds ==
  ASSUME NEW c, NEW d, SpecShape(d), Held(d), LayerAt(d.layers, c.id) # 0,
         NEW b, b = ReorderLayer(c, d), b.kind = "patch"
  PROVE  Held(ApplyJsonPatch(d, b.patch))
<1>1. PICK L, from, others, to, x :
        /\ L = d.layers /\ from = LayerAt(L, c.id) /\ others = RemoveAt(L, from)
        /\ to = Anchor(others, c.before) /\ x = L[from]
  OBVIOUS
<1>2. PICK o, q, e : /\ o = Delete(<<"layers", from>>) /\ q = Add(<<"layers", to>>, x)
                     /\ e = InLayers(d, others)
  OBVIOUS
<1>3. to # 0 /\ b.patch = <<o, q>>
  BY <1>1, <1>2 DEF ReorderLayer, Built, Failed, Skipped
<1>4. IsSeq(L) /\ Identified(L)
  BY <1>1, LayersReach, HeldIs
<1>5. from \in 1..Len(L) /\ from \in DOMAIN L
  BY <1>1, <1>4, LayerAtIs, SeqIs
<1>6. IsSeq(others) /\ Identified(others) /\ Has(x, "id") /\ x.id # Absent
  BY <1>1, <1>4, <1>5, RemoveAtIs, IdentifiedRemoved DEF Identified
<1>7. to \in 1..(Len(others) + 1)
  BY <1>1, <1>3, <1>6, AnchorIs
<1>8. Identified(InsertAt(others, to, x))
  BY <1>6, <1>7, IdentifiedInserted
<1>9. ApplyOperation(d, o) = e /\ Held(e)
  BY <1>1, <1>2, <1>6, LayerOperationIn, HeldLayers
<1>10. e.layers = others
  BY <1>2 DEF InLayers, Held, Frame
<1>11. ApplyOperation(e, q) = InLayers(e, InsertAt(others, to, x))
  BY <1>2, <1>10, LayerOperationIn
<1>12. ApplyJsonPatch(d, <<o, q>>) = InLayers(e, InsertAt(others, to, x))
  BY <1>9, <1>11, PatchTwo
<1>13. Held(InLayers(e, InsertAt(others, to, x)))
  BY <1>8, <1>9, HeldLayers
<1> QED
  BY <1>3, <1>12, <1>13

\* setPaint, setLayout, setFilter and setLayerZoomRange change a layer below its id.
LEMMA RecordMild ==
  ASSUME NEW c, NEW d, IsFiniteSet(DOMAIN c.value), c.member \in {"paint", "layout"}
  PROVE  MildPatch(PatchRecordMerge(c, d).patch)
<1>1. PICK i, m, p : /\ i = LayerAt(d.layers, c.id) /\ m = c.member
                     /\ p = PatchRecordMerge(c, d).patch /\ m # "id"
  OBVIOUS
<1>2. CASE p = <<Add(<<"layers", i, m>>, c.value)>>
  <2>1. PICK o : o = Add(<<"layers", i, m>>, c.value)
    OBVIOUS
  <2>2. o.path = <<"layers", i, m>>
    BY <2>1, OperationsAre
  <2>3. Mild(o)
    BY <1>1, <2>2, MildBelow
  <2> QED
    BY <1>1, <1>2, <2>1, <2>3, MildFew
<1>3. CASE \E names : PutsIn(p, i, m, names)
  <2>1. PICK names : PutsIn(p, i, m, names)
    BY <1>3
  <2>2. ASSUME NEW k \in 1..Len(p) PROVE Mild(p[k])
    <3>1. PICK o : o = p[k]
      OBVIOUS
    <3>2. o.path = <<"layers", i, m, names[k]>>
      BY <2>1, <3>1 DEF PutsIn
    <3>3. Mild(o)
      BY <1>1, <3>2, MildBelow
    <3> QED
      BY <3>1, <3>3
  <2> QED
    BY <1>1, <2>2 DEF MildPatch
<1> QED
  BY <1>1, <1>2, <1>3, PatchRecordMergeIs

LEMMA FilterMild ==
  ASSUME NEW c, NEW d, NEW b, b = SetFilter(c, d), b.kind = "patch"
  PROVE  MildPatch(b.patch)
<1>1. PICK i, path, o, q : /\ i = LayerAt(d.layers, c.id) /\ path = <<"layers", i, "filter">>
                           /\ o = Put(d.layers[i], "filter", path, c.value) /\ q = Delete(path)
  OBVIOUS
<1>2. b.patch = <<o>> \/ b.patch = <<q>>
  BY <1>1 DEF SetFilter, Built, Skipped
<1>3. o.path = <<"layers", i, "filter">> /\ q.path = <<"layers", i, "filter">> /\ "filter" # "id"
  BY <1>1, OperationsAre
<1>4. Mild(o) /\ Mild(q)
  BY <1>3, MildBelow
<1> QED
  BY <1>2, <1>4, MildFew

LEMMA ZoomMild ==
  ASSUME NEW c, NEW d, NEW b, b = SetLayerZoomRange(c, d), b.kind = "patch"
  PROVE  MildPatch(b.patch)
<1>1. PICK i, o, q :
        /\ i = LayerAt(d.layers, c.id)
        /\ o = Put(d.layers[i], "minzoom", <<"layers", i, "minzoom">>, c.minzoom)
        /\ q = Put(d.layers[i], "maxzoom", <<"layers", i, "maxzoom">>, c.maxzoom)
  OBVIOUS
<1>2. b.patch = <<o, q>>
  BY <1>1 DEF SetLayerZoomRange, Built, Failed
<1>3. o.path = <<"layers", i, "minzoom">> /\ q.path = <<"layers", i, "maxzoom">>
  BY <1>1, OperationsAre
<1>4. Mild(o)
  <2>1. "minzoom" # "id"
    OBVIOUS
  <2> QED
    BY <1>3, <2>1, MildBelow
<1>5. Mild(q)
  <2>1. "maxzoom" # "id"
    OBVIOUS
  <2> QED
    BY <1>3, <2>1, MildBelow
<1> QED
  BY <1>2, <1>4, <1>5, MildFew

LEMMA LayerCommandHolds ==
  ASSUME NEW c, CommandShape(c), NEW d, SpecShape(d), Held(d),
         c.type \in {"removeLayer", "setPaint", "setLayout", "setFilter",
                     "setLayerZoomRange", "reorderLayer"},
         NEW b, b = LayerCommand(c, d), b.kind = "patch"
  PROVE  Held(ApplyJsonPatch(d, b.patch))
<1>1. LayerAt(d.layers, c.id) # 0 /\ Way(d, b.patch)
  BY LayerCommandWay DEF LayerCommand, Failed
<1>2. ASSUME MildPatch(b.patch) PROVE Held(ApplyJsonPatch(d, b.patch))
  BY <1>1, <1>2, MildWay
<1>3. CASE c.type = "removeLayer"
  BY <1>1, <1>3, RemoveLayerHolds DEF LayerCommand
<1>4. CASE c.type \in {"setPaint", "setLayout"}
  <2>1. c.member \in {"paint", "layout"} /\ IsFiniteSet(DOMAIN c.value)
    BY <1>4 DEF CommandShape
  <2>2. b = PatchRecordMerge(c, d)
    BY <1>1, <1>4 DEF LayerCommand
  <2>3. MildPatch(b.patch)
    BY <2>1, <2>2, RecordMild
  <2> QED
    BY <1>2, <2>3
<1>5. CASE c.type = "setFilter"
  <2>1. b = SetFilter(c, d)
    BY <1>1, <1>5 DEF LayerCommand
  <2> QED
    BY <1>2, <2>1, FilterMild
<1>6. CASE c.type = "setLayerZoomRange"
  <2>1. b = SetLayerZoomRange(c, d)
    BY <1>1, <1>6 DEF LayerCommand
  <2> QED
    BY <1>2, <2>1, ZoomMild
<1>7. CASE c.type = "reorderLayer"
  BY <1>1, <1>7, ReorderLayerHolds DEF LayerCommand
<1> QED
  BY <1>3, <1>4, <1>5, <1>6, <1>7

\* setView and fitBounds.
LEMMA ViewMild ==
  ASSUME NEW c, NEW d, Held(d), c.type \in {"setView", "fitBounds"},
         c.type = "setView" => DOMAIN c.value \subseteq ViewMembers
  PROVE  MildPatch(BuildPatch(c, d).patch)
<1>1. DOMAIN d.view \subseteq ViewMembers
  BY HeldIs
<1>2. PICK x : /\ BuildPatch(c, d).patch = <<Replace(<<"view">>, x)>>
               /\ DOMAIN x \subseteq ViewMembers
  <2>1. CASE c.type = "setView"
    <3>1. PICK x : x = Merge(c.value, d.view)
      OBVIOUS
    <3>2. BuildPatch(c, d).patch = <<Replace(<<"view">>, x)>>
      BY <2>1, <3>1 DEF BuildPatch, SetView, Built
    <3>3. DOMAIN x \subseteq ViewMembers
      BY <1>1, <2>1, <3>1 DEF Merge
    <3> QED
      BY <3>2, <3>3
  <2>2. CASE c.type = "fitBounds"
    <3>1. PICK v, x : v = Only(d.view, {"mode", "bearing", "pitch"}) /\ x = With(v, "bounds", c.value)
      OBVIOUS
    <3>2. BuildPatch(c, d).patch = <<Replace(<<"view">>, x)>>
      BY <2>2, <3>1 DEF BuildPatch, FitBounds, Built
    <3>3. DOMAIN v \subseteq ViewMembers /\ "bounds" \in ViewMembers
      BY <1>1, <3>1 DEF Only, ViewMembers
    <3>4. DOMAIN x \subseteq ViewMembers
      BY <3>1, <3>3 DEF With
    <3> QED
      BY <3>2, <3>4
  <2> QED
    BY <2>1, <2>2
<1>3. PICK o, n : o = Replace(<<n>>, x) /\ n = "view"
  OBVIOUS
<1>4. o.path = <<n>> /\ o.value = x
  BY <1>3 DEF Replace
<1>5. Mild(o)
  BY <1>2, <1>3, <1>4, MildMember
<1> QED
  BY <1>2, <1>3, <1>5, MildFew

\* setCapabilities and setInteractions.
LEMMA MemberMild ==
  ASSUME NEW c, NEW d, c.member \in {"capabilities", "interactions"},
         c.member = "interactions" => c.value # Absent
  PROVE  MildPatch(SetMember(c, d).patch)
<1>1. PICK o, n : o = Put(d, n, <<n>>, c.value) /\ n = c.member
  OBVIOUS
<1>2. SetMember(c, d).patch = <<o>>
  BY <1>1 DEF SetMember, Built
<1>3. o.path = <<n>> /\ o.value = c.value
  BY <1>1 DEF Put, Add, Replace
<1>4. n \in {"capabilities", "interactions"} /\ (n = "interactions" => o.value # Absent)
  BY <1>1, <1>3
<1>5. Mild(o)
  BY <1>3, <1>4, MildMember
<1> QED
  BY <1>2, <1>5, MildFew

\* The commands on the scene are mild.
LEMMA SceneMild ==
  ASSUME NEW p, OnScene(p)
  PROVE  MildPatch(p)
<1>1. PICK o : p = <<o>> /\ (InScene(o.path) \/ o.path = <<"extensions">>)
  BY DEF OnScene
<1>2. CASE InScene(o.path)
  <2>1. Mild(o)
    BY <1>2, MildElsewhere DEF InScene
  <2> QED
    BY <1>1, <2>1, MildFew
<1>3. CASE o.path = <<"extensions">>
  <2>1. PICK n : n = "extensions"
    OBVIOUS
  <2>2. Mild(o)
    BY <1>3, <2>1, MildMember
  <2> QED
    BY <1>1, <2>2, MildFew
<1> QED
  BY <1>1, <1>2, <1>3

\* What the schemas say of a command for the shape of a spec.
DiffCommandShape(c) ==
    /\ c.type = "setView" => DOMAIN c.value \subseteq ViewMembers
    /\ c.type = "addLayer" => c.value.id # Absent
    /\ c.type \in {"setCapabilities", "setInteractions"} /\ c.member = "interactions" =>
           c.value # Absent

LEMMA CommandHolds ==
  ASSUME NEW c, CommandShape(c), DiffCommandShape(c), NEW d, SpecShape(d), Held(d),
         NEW b, b = BuildPatch(c, d), b.kind = "patch"
  PROVE  Held(ApplyJsonPatch(d, b.patch))
<1>1. Way(d, b.patch)
  BY CommandWay
<1>2. ASSUME MildPatch(b.patch) PROVE Held(ApplyJsonPatch(d, b.patch))
  BY <1>1, <1>2, MildWay
<1>3. CASE c.type \in {"addSource", "removeSource"}
  <2>1. PICK o, q : o = Add(<<"sources", c.id>>, c.value) /\ q = Delete(<<"sources", c.id>>)
    OBVIOUS
  <2>2. b.patch = <<o>> \/ b.patch = <<q>>
    BY <1>3, <2>1 DEF BuildPatch, AddSource, RemoveSource, Built, Skipped, Failed
  <2>3. Mild(o) /\ Mild(q)
    BY <2>1, OperationsAre, MildSource
  <2> QED
    BY <1>2, <2>2, <2>3, MildFew
<1>4. CASE c.type = "addLayer"
  <2>1. LayerShape(c.value) /\ c.value.id # Absent /\ b = AddLayer(c, d)
    BY <1>4 DEF CommandShape, DiffCommandShape, BuildPatch
  <2> QED
    BY <2>1, AddLayerHolds
<1>5. CASE c.type \in {"removeLayer", "setPaint", "setLayout", "setFilter",
                       "setLayerZoomRange", "reorderLayer"}
  <2>1. b = LayerCommand(c, d)
    BY <1>5 DEF BuildPatch
  <2> QED
    BY <1>5, <2>1, LayerCommandHolds
<1>6. CASE c.type \in {"setView", "fitBounds"}
  BY <1>2, <1>6, ViewMild DEF DiffCommandShape
<1>7. CASE c.type \in {"setCapabilities", "setInteractions"}
  <2>1. c.member \in {"capabilities", "interactions"} /\ (c.member = "interactions" => c.value # Absent)
    BY <1>7 DEF CommandShape, DiffCommandShape
  <2>2. b = SetMember(c, d)
    BY <1>7 DEF BuildPatch
  <2> QED
    BY <1>2, <2>1, <2>2, MemberMild
<1>8. CASE c.type \in {"setSceneCamera", "addSceneSource", "removeSceneSource", "addSceneLayer",
                       "removeSceneLayer", "setSceneLayerVisibility"}
  <2>1. b \in {SetSceneCamera(c, d), AddSceneSource(c, d), RemoveSceneSource(c, d),
               AddSceneLayer(c, d), RemoveSceneLayer(c, d), SetSceneLayerVisibility(c, d)}
    BY <1>8 DEF BuildPatch
  <2> QED
    BY <1>2, <2>1, SceneCommandIs, SceneMild
<1>9. \/ c.type \in {"addSource", "removeSource"} \/ c.type = "addLayer"
      \/ c.type \in {"removeLayer", "setPaint", "setLayout", "setFilter",
                     "setLayerZoomRange", "reorderLayer"}
      \/ c.type \in {"setView", "fitBounds"} \/ c.type \in {"setCapabilities", "setInteractions"}
      \/ c.type \in {"setSceneCamera", "addSceneSource", "removeSceneSource", "addSceneLayer",
                     "removeSceneLayer", "setSceneLayerVisibility"}
  BY DEF BuildPatch, Failed
<1> QED
  BY <1>3, <1>4, <1>5, <1>6, <1>7, <1>8, <1>9

\* So does a command with the revision counted up.
LEMMA CommandShapes ==
  ASSUME NEW c, CommandShape(c), DiffCommandShape(c), NEW d, SpecShape(d), DiffShape(d),
         NEW b, b = BuildPatch(c, d), b.kind = "patch"
  PROVE  DiffShape(WithNextRevision(ApplyJsonPatch(d, b.patch)))
<1>1. Held(d)
  <2>1. Frame(d) /\ LayersShape(d.layers)
    BY SpecIsFrame DEF SpecShape
  <2>2. Identified(d.layers)
    BY <2>1 DEF DiffShape, Identified, LayersShape, LayerShape, Has
  <2> QED
    BY <2>1, <2>2 DEF Held
<1>2. PICK e, n, f : /\ e = ApplyJsonPatch(d, b.patch) /\ n = NextRevision(e)
                     /\ f = With(e, "revision", n)
  OBVIOUS
<1>3. Held(e)
  BY <1>1, <1>2, CommandHolds
<1>4. Frame(e) /\ DiffShape(e)
  BY <1>3 DEF Held
<1>5. /\ f.view = e.view /\ f.sources = e.sources /\ f.layers = e.layers
      /\ (Has(f, "interactions") <=> Has(e, "interactions"))
      /\ Has(e, "interactions") => f.interactions = e.interactions
  BY <1>2, <1>4 DEF Frame, With, Has
<1>6. DiffShape(f)
  BY <1>4, <1>5 DEF DiffShape
<1> QED
  BY <1>2, <1>6 DEF WithNextRevision

(***************************************************************************)
(* The specs that meet in a restore, in every behaviour.                   *)
(***************************************************************************)
\* The inductive invariant, along with BatchInv: every spec a batch is given, works
\* on or leaves to the next has the shape that a diff needs, and what a committed
\* batch has made was validated, even if the given spec was not.
RestoreInv ==
    /\ DiffShape(given) /\ DiffShape(current) /\ DiffShape(mapSpec)
    /\ committed => ValidateSpec(current)

LEMMA RestoreStarts ==
  ASSUME DiffAssumption, AdapterInit
  PROVE  RestoreInv
BY DEF AdapterInit, BatchInit, DiffAssumption, RestoreInv

\* An applied command preserves it.
LEMMA ApplyShapes ==
  ASSUME CommandsAssumption, DiffAssumption, BatchInv, RestoreInv, NEW c, Apply(c), UNCHANGED mapSpec
  PROVE  RestoreInv'
<1>1. /\ c \in CommandSet /\ BuildPatch(c, current).kind = "patch" /\ ValidateSpec(Outcome(c))
      /\ UNCHANGED <<given, mapSpec>>
  BY DEF Apply, Take
<1>2. CommandShape(c) /\ DiffCommandShape(c)
  BY <1>1 DEF CommandsAssumption, DiffAssumption, DiffCommandShape
<1>3. SpecShape(current) /\ DiffShape(current)
  BY DEF BatchInv, Good, RestoreInv
<1>4. DiffShape(Outcome(c))
  BY <1>1, <1>2, <1>3, CommandShapes DEF Outcome
<1>5. CASE c.dryRun
  <2>1. UNCHANGED <<current, committed>>
    BY <1>5 DEF Apply
  <2> QED
    BY <1>1, <2>1 DEF RestoreInv
<1>6. CASE ~c.dryRun
  <2>1. current' = Outcome(c)
    BY <1>6 DEF Apply
  <2> QED
    BY <1>1, <1>4, <2>1 DEF RestoreInv
<1> QED
  BY <1>5, <1>6

LEMMA RestoreStep ==
  ASSUME CommandsAssumption, DiffAssumption, BatchInv, RestoreInv, BatchStep, UNCHANGED mapSpec
  PROVE  RestoreInv'
<1>1. CASE UNCHANGED <<given, current, committed>>
  BY <1>1 DEF RestoreInv
<1>2. CASE \E c \in CommandSet : Conflict(c) \/ BuildFails(c) \/ Skip(c) \/ Invalid(c) \/ Apply(c)
  <2>1. PICK c \in CommandSet : Conflict(c) \/ BuildFails(c) \/ Skip(c) \/ Invalid(c) \/ Apply(c)
    BY <1>2
  <2>2. CASE Conflict(c) \/ BuildFails(c) \/ Invalid(c)
    <3>1. Fail(c)
      BY <2>2 DEF Conflict, BuildFails, Invalid
    <3> QED
      BY <1>1, <3>1 DEF Fail
  <2>3. CASE Skip(c)
    BY <1>1, <2>3 DEF Skip
  <2>4. CASE Apply(c)
    BY <2>4, ApplyShapes
  <2> QED
    BY <2>1, <2>2, <2>3, <2>4
<1>3. CASE Finish
  BY <1>1, <1>3 DEF Finish
<1> QED
  BY <1>2, <1>3 DEF BatchStep

\* Every step of the adapter and its runtime preserves it.
LEMMA RestoreInvInductive ==
  ASSUME CommandsAssumption, DiffAssumption, BatchInv, RestoreInv,
         [AdapterNext]_<<batchVars, adapterVars>>
  PROVE  RestoreInv'
<1>1. CASE UNCHANGED batchVars /\ UNCHANGED mapSpec
  BY <1>1 DEF RestoreInv, batchVars
<1>2. CASE RunBatch
  BY <1>2, RestoreStep DEF RunBatch, adapterVars
<1>3. CASE ApplyPatch
  <2>1. ~Running /\ UNCHANGED batchVars /\ (mapSpec' = answer.spec \/ mapSpec' = mapSpec)
    BY <1>3 DEF ApplyPatch
  <2>2. answer.spec \in {given, current}
    BY <2>1 DEF BatchInv, Answers, Answer
  <2> QED
    BY <2>1, <2>2 DEF RestoreInv, batchVars
<1>4. CASE NextBatch
  <2>1. given' = mapSpec /\ current' = mapSpec /\ committed' = FALSE /\ mapSpec' = mapSpec
    BY <1>4 DEF NextBatch, NewBatch
  <2> QED
    BY <2>1 DEF RestoreInv
<1>5. CASE InstantiateMap \/ NothingToPatch \/ Reload \/ Destroy
  BY <1>1, <1>5 DEF InstantiateMap, NothingToPatch, Reload, Destroy
<1>6. CASE UNCHANGED <<batchVars, adapterVars>>
  BY <1>1, <1>6 DEF adapterVars
<1> QED
  BY <1>2, <1>3, <1>4, <1>5, <1>6 DEF AdapterNext

LEMMA InvGivesRestores ==
  ASSUME CommandsAssumption, DiffAssumption, BatchInv, RestoreInv
  PROVE  RestoresWithinReach
<1> SUFFICES ASSUME ~Running, answer.committed, NEW old \in Specs \cup {given}, ValidateSpec(old)
             PROVE  Restores(current, old) <=>
                        /\ Expressible(current, old)
                        /\ InPlace(current.layers, old.layers)
                        /\ Unused(current, old)
                        /\ Timely(current, old)
  BY DEF RestoresWithinReach
<1>1. committed
  BY DEF BatchInv, Answers, Answer
<1>2. Settled(current)
  BY <1>1 DEF BatchInv, Good, RestoreInv, Settled
<1>3. Settled(old)
  BY DEF CommandsAssumption, DiffAssumption, BatchInv, Good, RestoreInv, Settled
<1> QED
  BY <1>2, <1>3, RestoresWhatIsInReach

\* The invariant holds in every behaviour.
THEOREM RestoreInvHolds == AdapterSpec => []RestoreInv
<1>1. AdapterInit => RestoreInv
  BY DiffAssumption, RestoreStarts
<1>2. BatchInv /\ RestoreInv /\ [AdapterNext]_<<batchVars, adapterVars>> => RestoreInv'
  BY CommandsAssumption, DiffAssumption, RestoreInvInductive
<1> QED
  BY <1>1, <1>2, BatchInvHolds, PTL DEF AdapterSpec

\* Whatever the maps, the commands and the batches: the spec that a committed atomic
\* batch has made is taken back, to the spec it was given or to one a map began with,
\* exactly when the difference is within the reach of the commands of diffSpecsTool,
\* and the restore is refused in every other case (restoreWorkbenchRevision).
THEOREM CommittedIsRestored == AdapterSpec => []RestoresWithinReach
<1>1. BatchInv /\ RestoreInv => RestoresWithinReach
  BY CommandsAssumption, DiffAssumption, InvGivesRestores
<1> QED
  BY <1>1, BatchInvHolds, RestoreInvHolds, PTL

=============================================================================
