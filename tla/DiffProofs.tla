----------------------------- MODULE DiffProofs -----------------------------
(***************************************************************************)
(* The commands of diffSpecsTool take a spec back to an earlier one        *)
(* exactly when the difference is within their reach.                      *)
(***************************************************************************)
EXTENDS AdapterProofs, DiffSpecs

(***************************************************************************)
(* Lists of ids, and the ids of a list that are in a set.                  *)
(***************************************************************************)
Distinct(s) == \A i, j \in DOMAIN s : s[i] = s[j] => i = j

AmongOp(set, kept, id) == IF id \in set THEN Append(kept, id) ELSE kept

Selecting == INSTANCE FoldTheorems WITH Op <- AmongOp

LEMMA AmongIsFold ==
  ASSUME NEW ids, NEW set
  PROVE  Among(ids, set) = Selecting!LeftFold(set, << >>, ids)
BY Zenon DEF Among, AmongOp, FoldLeft, MapThenFoldSet, Selecting!LeftFold, Selecting!LeftStep, Max, Selecting!Highest

LEMMA AmongEmpty ==
  ASSUME NEW set
  PROVE  Among(<< >>, set) = << >>
<1>1. DOMAIN << >> = {}
  OBVIOUS
<1> QED
  BY <1>1, AmongIsFold, Selecting!LeftFoldEmpty

LEMMA AmongAppend ==
  ASSUME NEW ids, IsSeq(ids), NEW id, NEW set
  PROVE  Among(Append(ids, id), set) =
           IF id \in set THEN Append(Among(ids, set), id) ELSE Among(ids, set)
<1>1. PICK n, u : n = Len(ids) /\ u = Append(ids, id)
  OBVIOUS
<1>2. /\ n \in Nat /\ DOMAIN ids = 1..n
      /\ DOMAIN u = 1..(n + 1) /\ u[n + 1] = id /\ \A i \in 1..n : u[i] = ids[i]
  BY <1>1, SeqIs, AppendIs
<1>3. Selecting!LeftFold(set, << >>, u) =
        AmongOp(set, Selecting!LeftFold(set, << >>, ids), u[n + 1])
  BY <1>2, Selecting!LeftFoldLast
<1> QED
  BY <1>1, <1>2, <1>3, AmongIsFold DEF AmongOp

\* What an appended list holds.
LEMMA AppendHolds ==
  ASSUME NEW s, IsSeq(s), NEW x
  PROVE  /\ ToSet(Append(s, x)) = ToSet(s) \cup {x}
         /\ Distinct(s) /\ x \notin ToSet(s) => Distinct(Append(s, x))
<1>1. PICK n, u : n = Len(s) /\ u = Append(s, x)
  OBVIOUS
<1>2. /\ n \in Nat /\ DOMAIN s = 1..n
      /\ DOMAIN u = 1..(n + 1) /\ u[n + 1] = x /\ \A i \in 1..n : u[i] = s[i]
  BY <1>1, SeqIs, AppendIs
<1>3. ToSet(u) = ToSet(s) \cup {x}
  <2>1. \A i \in 1..(n + 1) : i \in 1..n \/ i = n + 1
    BY <1>2
  <2>2. \A i \in 1..n : i \in 1..(n + 1)
    BY <1>2
  <2>3. n + 1 \in 1..(n + 1)
    BY <1>2
  <2> QED
    BY <1>2, <2>1, <2>2, <2>3 DEF ToSet
<1>4. ASSUME Distinct(s), x \notin ToSet(s) PROVE Distinct(u)
  <2>1. ASSUME NEW i \in 1..(n + 1), NEW j \in 1..(n + 1), u[i] = u[j] PROVE i = j
    <3>1. /\ i \in 1..n \/ i = n + 1
          /\ j \in 1..n \/ j = n + 1
      BY <1>2
    <3>2. \A k \in 1..n : u[k] # x
      BY <1>2, <1>4 DEF ToSet
    <3> QED
      BY <1>2, <1>4, <2>1, <3>1, <3>2 DEF Distinct
  <2> QED
    BY <1>2, <2>1 DEF Distinct
<1> QED
  BY <1>1, <1>3, <1>4

LEMMA EmptyHolds == IsSeq(<< >>) /\ Len(<< >>) = 0 /\ ToSet(<< >>) = {} /\ Distinct(<< >>)
BY Path0 DEF ToSet, Distinct

\* A beginning of a list, and the element that comes after it.
LEMMA FirstHolds ==
  ASSUME NEW s, IsSeq(s), NEW k \in Nat, k + 1 <= Len(s)
  PROVE  /\ IsSeq(First(s, k)) /\ ToSet(First(s, k)) \subseteq ToSet(s) /\ s[k + 1] \in ToSet(s)
         /\ Distinct(s) => s[k + 1] \notin ToSet(First(s, k))
<1>1. PICK n : n = Len(s)
  OBVIOUS
<1>2. n \in Nat /\ DOMAIN s = 1..n /\ k + 1 <= n
  BY <1>1, SeqIs
<1>3. IsSeq(First(s, k))
  BY FirstIs
<1>4. DOMAIN First(s, k) = 1..k /\ \A i \in 1..k : First(s, k)[i] = s[i]
  BY DEF First
<1>5. k + 1 \in 1..n /\ \A i \in 1..k : i \in 1..n /\ i # k + 1
  BY <1>2
<1>6. ToSet(First(s, k)) \subseteq ToSet(s) /\ s[k + 1] \in ToSet(s)
  BY <1>2, <1>4, <1>5 DEF ToSet
<1>7. Distinct(s) => s[k + 1] \notin ToSet(First(s, k))
  BY <1>2, <1>4, <1>5 DEF ToSet, Distinct
<1> QED
  BY <1>3, <1>6, <1>7

\* The beginnings of a list, and how the next one comes about.
Beginnings(ids) == {First(ids, k) : k \in 0..Len(ids)}

Grows(ids, s, x) ==
    /\ IsSeq(s) /\ Append(s, x) \in Beginnings(ids)
    /\ ToSet(s) \subseteq ToSet(ids) /\ x \in ToSet(ids)
    /\ Distinct(ids) => x \notin ToSet(s)

LEMMA BeginsEmpty ==
  ASSUME NEW ids, IsSeq(ids)
  PROVE  << >> \in Beginnings(ids)
<1>1. PICK n : n = Len(ids)
  OBVIOUS
<1>2. n \in Nat
  BY <1>1, SeqIs
<1>3. 0 \in 0..n /\ First(ids, 0) = << >>
  BY <1>2, FirstOfAll
<1> QED
  BY <1>1, <1>3 DEF Beginnings

\* What one more element preserves holds of the whole list.
LEMMA ListInduction ==
  ASSUME NEW ids, IsSeq(ids), NEW T, << >> \in T,
         \A s, x : s \in T /\ Grows(ids, s, x) => Append(s, x) \in T
  PROVE  ids \in T
<1>1. PICK n : n = Len(ids)
  OBVIOUS
<1>2. n \in Nat /\ n <= n
  BY <1>1, SeqIs
<1> DEFINE S == {k \in Nat : k <= n => First(ids, k) \in T}
<1>3. 0 \in S
  BY FirstOfAll
<1>4. ASSUME NEW k \in Nat, k \in S PROVE k + 1 \in S
  <2> SUFFICES ASSUME k + 1 <= n PROVE First(ids, k + 1) \in T
    OBVIOUS
  <2>1. PICK s, x, j : s = First(ids, k) /\ x = ids[k + 1] /\ j = k + 1
    OBVIOUS
  <2>2. k <= n /\ j \in 0..n
    BY <1>2, <2>1
  <2>3. s \in T
    BY <1>4, <2>1, <2>2
  <2>4. First(ids, j) = Append(s, x)
    BY <1>1, <2>1, FirstIs
  <2>5. Append(s, x) \in Beginnings(ids)
    BY <1>1, <2>2, <2>4 DEF Beginnings
  <2>6. Grows(ids, s, x)
    BY <1>1, <2>1, <2>5, FirstHolds DEF Grows
  <2>7. Append(s, x) \in T
    BY <2>3, <2>6
  <2> QED
    BY <2>1, <2>4, <2>7
<1>5. Nat \subseteq S
  <2> HIDE DEF S
  <2> QED
    BY <1>3, <1>4, Patching!Induction
<1>6. First(ids, n) \in T
  BY <1>2, <1>5
<1> QED
  BY <1>1, <1>6, FirstOfAll

\* What Among holds: the ids that are in the list and in the set, each once when
\* the list has each once.
LEMMA AmongIs ==
  ASSUME NEW ids, IsSeq(ids), NEW set
  PROVE  /\ IsSeq(Among(ids, set)) /\ ToSet(Among(ids, set)) = ToSet(ids) \cap set
         /\ Distinct(ids) => Distinct(Among(ids, set))
<1> DEFINE Fine(s) == /\ IsSeq(s) /\ IsSeq(Among(s, set))
                      /\ ToSet(Among(s, set)) = ToSet(s) \cap set
                      /\ Distinct(ids) => Distinct(Among(s, set))
           T == {s \in Beginnings(ids) : Fine(s)}
<1>3. << >> \in T
  BY BeginsEmpty, AmongEmpty, EmptyHolds
<1>4. ASSUME NEW s, NEW x, s \in T, Grows(ids, s, x) PROVE Append(s, x) \in T
  <2>2. Fine(s)
    BY <1>4
  <2>4. Distinct(ids) => x \notin ToSet(s)
    BY <1>4 DEF Grows
  <2>5. IsSeq(Append(s, x)) /\ ToSet(Append(s, x)) = ToSet(s) \cup {x}
    BY <2>2, AppendIs, AppendHolds
  <2>6. PICK a, b : a = Among(s, set) /\ b = Among(Append(s, x), set)
    OBVIOUS
  <2>7. b = IF x \in set THEN Append(a, x) ELSE a
    BY <2>2, <2>6, AmongAppend
  <2>8. IsSeq(a) /\ ToSet(a) = ToSet(s) \cap set /\ (Distinct(ids) => Distinct(a))
    BY <2>2, <2>6
  <2>9. IsSeq(b) /\ ToSet(b) = (ToSet(s) \cup {x}) \cap set /\ (Distinct(ids) => Distinct(b))
    <3>1. CASE x \in set
      <4>1. IsSeq(Append(a, x)) /\ ToSet(Append(a, x)) = ToSet(a) \cup {x}
        BY <2>8, AppendIs, AppendHolds
      <4>2. Distinct(ids) => Distinct(Append(a, x))
        BY <2>4, <2>8, AppendHolds
      <4> QED
        BY <2>7, <2>8, <3>1, <4>1, <4>2
    <3>2. CASE x \notin set
      BY <2>7, <2>8, <3>2
    <3> QED
      BY <3>1, <3>2
  <2>10. Fine(Append(s, x))
    BY <2>5, <2>6, <2>9
  <2> QED
    BY <1>4, <2>10 DEF Grows
<1>5. ids \in T
  <2> HIDE DEF T
  <2> QED
    BY <1>3, <1>4, ListInduction
<1> QED
  BY <1>5

\* Two sets with the same ids of a list select the same.
LEMMA AmongSame ==
  ASSUME NEW ids, IsSeq(ids), NEW U, NEW V, ToSet(ids) \cap U = ToSet(ids) \cap V
  PROVE  Among(ids, U) = Among(ids, V)
<1> DEFINE T == {s \in Beginnings(ids) : Among(s, U) = Among(s, V)}
<1>1. << >> \in T
  BY BeginsEmpty, AmongEmpty
<1>2. ASSUME NEW s, NEW x, s \in T, Grows(ids, s, x) PROVE Append(s, x) \in T
  <2>1. Among(s, U) = Among(s, V) /\ IsSeq(s) /\ (x \in U <=> x \in V)
    BY <1>2 DEF Grows
  <2>2. Among(Append(s, x), U) = IF x \in U THEN Append(Among(s, U), x) ELSE Among(s, U)
    BY <2>1, AmongAppend
  <2>3. Among(Append(s, x), V) = IF x \in V THEN Append(Among(s, V), x) ELSE Among(s, V)
    BY <2>1, AmongAppend
  <2> QED
    BY <1>2, <2>1, <2>2, <2>3 DEF Grows
<1>3. ids \in T
  <2> HIDE DEF T
  <2> QED
    BY <1>1, <1>2, ListInduction
<1> QED
  BY <1>3

\* A set with all the ids of a list selects the list.
LEMMA AmongAll ==
  ASSUME NEW ids, IsSeq(ids), NEW U, ToSet(ids) \subseteq U
  PROVE  Among(ids, U) = ids
<1> DEFINE T == {s \in Beginnings(ids) : Among(s, U) = s}
<1>1. << >> \in T
  BY BeginsEmpty, AmongEmpty
<1>2. ASSUME NEW s, NEW x, s \in T, Grows(ids, s, x) PROVE Append(s, x) \in T
  <2>1. Among(s, U) = s /\ IsSeq(s) /\ x \in U
    BY <1>2 DEF Grows
  <2>2. Among(Append(s, x), U) = Append(s, x)
    BY <2>1, AmongAppend
  <2> QED
    BY <1>2, <2>2 DEF Grows
<1>3. ids \in T
  <2> HIDE DEF T
  <2> QED
    BY <1>1, <1>2, ListInduction
<1> QED
  BY <1>3

LEMMA HoldsNothing ==
  ASSUME NEW s, IsSeq(s), ToSet(s) = {}
  PROVE  s = << >>
<1>1. PICK n, e : n = Len(s) /\ e = << >>
  OBVIOUS
<1>2. n \in Nat /\ DOMAIN s = 1..n
  BY <1>1, SeqIs
<1>3. n = 0
  <2> SUFFICES ASSUME n # 0 PROVE FALSE
    OBVIOUS
  <2>1. 1 \in 1..n
    BY <1>2
  <2> QED
    BY <1>2, <2>1 DEF ToSet
<1>4. IsSeq(e) /\ Len(e) = 0
  BY <1>1, EmptyHolds
<1>5. \A i \in 1..Len(s) : s[i] = e[i]
  BY <1>1, <1>3
<1> QED
  BY <1>1, <1>3, <1>4, <1>5, SameSeq

\* A set with none of them selects nothing.
LEMMA AmongNone ==
  ASSUME NEW ids, IsSeq(ids), NEW U, ToSet(ids) \cap U = {}
  PROVE  Among(ids, U) = << >>
BY AmongIs, HoldsNothing

\* What two lists hold, one after the other.
LEMMA ConcatHolds ==
  ASSUME NEW s, IsSeq(s), NEW t, IsSeq(t)
  PROVE  /\ IsSeq(s \o t) /\ ToSet(s \o t) = ToSet(s) \cup ToSet(t)
         /\ Distinct(s) /\ Distinct(t) /\ ToSet(s) \cap ToSet(t) = {} => Distinct(s \o t)
<1> DEFINE Fine(r) == /\ IsSeq(r) /\ IsSeq(s \o r) /\ ToSet(s \o r) = ToSet(s) \cup ToSet(r)
                      /\ Distinct(s) /\ Distinct(t) /\ ToSet(s) \cap ToSet(t) = {} =>
                             Distinct(s \o r)
           T == {r \in Beginnings(t) : Fine(r)}
<1>1. << >> \in T
  <2>1. s \o << >> = s
    BY NothingJoined
  <2> QED
    BY <2>1, BeginsEmpty, EmptyHolds
<1>2. ASSUME NEW r, NEW x, r \in T, Grows(t, r, x) PROVE Append(r, x) \in T
  <2>1. PICK u, v, w : u = s \o r /\ v = Append(u, x) /\ w = Append(r, x)
    OBVIOUS
  <2>2. IsSeq(r) /\ x \in ToSet(t) /\ (Distinct(t) => x \notin ToSet(r)) /\ w \in Beginnings(t)
    BY <1>2, <2>1 DEF Grows
  <2>3. s \o w = v
    BY <2>1, <2>2, ConcatAppend
  <2>4. /\ IsSeq(u) /\ ToSet(u) = ToSet(s) \cup ToSet(r)
        /\ Distinct(s) /\ Distinct(t) /\ ToSet(s) \cap ToSet(t) = {} => Distinct(u)
    BY <1>2, <2>1
  <2>5. IsSeq(v) /\ ToSet(v) = ToSet(u) \cup {x}
    BY <2>1, <2>4, AppendIs, AppendHolds
  <2>6. IsSeq(w) /\ ToSet(w) = ToSet(r) \cup {x}
    BY <2>1, <2>2, AppendIs, AppendHolds
  <2>7. Distinct(u) /\ x \notin ToSet(u) => Distinct(v)
    BY <2>1, <2>4, AppendHolds
  <2>8. Fine(w)
    BY <2>2, <2>3, <2>4, <2>5, <2>6, <2>7
  <2> QED
    BY <2>1, <2>2, <2>8
<1>3. t \in T
  <2> HIDE DEF T
  <2> QED
    BY <1>1, <1>2, ListInduction
<1> QED
  BY <1>3

\* To select from two lists, one after the other, is to select from each.
LEMMA AmongConcat ==
  ASSUME NEW s, IsSeq(s), NEW t, IsSeq(t), NEW U
  PROVE  Among(s \o t, U) = Among(s, U) \o Among(t, U)
<1> DEFINE T == {r \in Beginnings(t) : Among(s \o r, U) = Among(s, U) \o Among(r, U)}
<1>1. << >> \in T
  <2>1. s \o << >> = s /\ Among(s, U) \o << >> = Among(s, U)
    BY NothingJoined, AmongIs
  <2> QED
    BY <2>1, BeginsEmpty, AmongEmpty
<1>2. ASSUME NEW r, NEW x, r \in T, Grows(t, r, x) PROVE Append(r, x) \in T
  <2>1. PICK a, b, u : a = Among(s, U) /\ b = Among(r, U) /\ u = s \o r
    OBVIOUS
  <2>2. IsSeq(r) /\ Among(u, U) = a \o b
    BY <1>2, <2>1 DEF Grows
  <2>3. IsSeq(a) /\ IsSeq(b) /\ IsSeq(u)
    BY <2>1, <2>2, AmongIs, ConcatHolds
  <2>4. s \o Append(r, x) = Append(u, x)
    BY <2>1, <2>2, ConcatAppend
  <2>5. a \o Append(b, x) = Append(a \o b, x)
    BY <2>3, ConcatAppend
  <2>6. Among(Append(r, x), U) = IF x \in U THEN Append(b, x) ELSE b
    BY <2>1, <2>2, AmongAppend
  <2>7. Among(Append(u, x), U) = IF x \in U THEN Append(a \o b, x) ELSE a \o b
    BY <2>2, <2>3, AmongAppend
  <2>8. Among(s \o Append(r, x), U) = a \o Among(Append(r, x), U)
    BY <2>4, <2>5, <2>6, <2>7
  <2> QED
    BY <1>2, <2>1, <2>8 DEF Grows
<1>3. t \in T
  <2> HIDE DEF T
  <2> QED
    BY <1>1, <1>2, ListInduction
<1> QED
  BY <1>3

\* To take an id out of a list that has each once is to select the others.
LEMMA AmongRemoved ==
  ASSUME NEW ids, IsSeq(ids), Distinct(ids), NEW U, NEW x \in ToSet(ids) \cap U
  PROVE  \E p \in 1..Len(Among(ids, U)) :
             Among(ids, U)[p] = x /\ RemoveAt(Among(ids, U), p) = Among(ids, U \ {x})
<1> DEFINE Out(a, b) == \E p \in 1..Len(a) : a[p] = x /\ RemoveAt(a, p) = b
           Fine(s) == IF x \in ToSet(s) THEN Out(Among(s, U), Among(s, U \ {x}))
                      ELSE Among(s, U) = Among(s, U \ {x})
           T == {s \in Beginnings(ids) : Fine(s)}
<1>1. << >> \in T
  BY BeginsEmpty, AmongEmpty, EmptyHolds
<1>2. ASSUME NEW s, NEW y, s \in T, Grows(ids, s, y) PROVE Append(s, y) \in T
  <2>1. PICK a, b, w : a = Among(s, U) /\ b = Among(s, U \ {x}) /\ w = Append(s, y)
    OBVIOUS
  <2>2. a = Among(s, U) /\ b = Among(s, U \ {x})
    BY <2>1
  <2>3. IsSeq(s) /\ y \notin ToSet(s) /\ ToSet(w) = ToSet(s) \cup {y} /\ w \in Beginnings(ids)
    BY <1>2, <2>1, AppendHolds DEF Grows
  <2>4. IsSeq(a) /\ IsSeq(b) /\ (IF x \in ToSet(s) THEN Out(a, b) ELSE a = b)
    <3>1. Fine(s)
      BY <1>2
    <3>2. IsSeq(a) /\ IsSeq(b)
      BY <2>2, <2>3, AmongIs
    <3> QED
      BY <2>2, <3>1, <3>2
  <2>w. /\ Among(w, U) = IF y \in U THEN Append(a, y) ELSE a
        /\ Among(w, U \ {x}) = IF y \in U \ {x} THEN Append(b, y) ELSE b
    <3>1. Among(w, U) = IF y \in U THEN Append(a, y) ELSE a
      BY <2>1, <2>3, AmongAppend
    <3>2. Among(w, U \ {x}) = IF y \in U \ {x} THEN Append(b, y) ELSE b
      BY <2>1, <2>3, AmongAppend
    <3> QED
      BY <3>1, <3>2
  <2> HIDE DEF Out
  <2>5. CASE y \notin U
    <3>1. Among(w, U) = a /\ Among(w, U \ {x}) = b
      BY <2>5, <2>w
    <3>2. Fine(w)
      BY <2>3, <2>4, <2>5, <3>1
    <3> QED
      BY <2>1, <2>3, <3>2
  <2>6. CASE y = x
    <3>1. Among(w, U) = Append(a, x) /\ Among(w, U \ {x}) = b /\ a = b
      BY <2>3, <2>4, <2>6, <2>w
    <3>2. PICK n, u : n = Len(a) /\ u = Append(a, x)
      OBVIOUS
    <3>3. /\ n \in Nat /\ IsSeq(u) /\ Len(u) = n + 1 /\ u[n + 1] = x
          /\ \A i \in 1..n : u[i] = a[i]
      BY <2>4, <3>2, SeqIs, AppendIs
    <3>4. n + 1 \in 1..Len(u)
      BY <3>3
    <3>5. RemoveAt(u, n + 1) = a
      <4>1. PICK r : r = RemoveAt(u, n + 1)
        OBVIOUS
      <4>2. /\ IsSeq(r) /\ Len(r) = Len(u) - 1
            /\ \A j \in 1..(Len(u) - 1) : r[j] = IF j < n + 1 THEN u[j] ELSE u[j + 1]
        BY <3>3, <3>4, <4>1, RemoveAtIs
      <4>3. Len(r) = n /\ \A j \in 1..n : r[j] = a[j]
        BY <3>3, <4>2
      <4> QED
        BY <2>4, <3>2, <4>1, <4>2, <4>3, SameSeq
    <3>6. Out(u, b)
      BY <3>1, <3>3, <3>4, <3>5 DEF Out
    <3>7. Fine(w)
      BY <2>3, <2>6, <3>1, <3>2, <3>6
    <3> QED
      BY <2>1, <2>3, <3>7
  <2>7. CASE y \in U /\ y # x
    <3>1. Among(w, U) = Append(a, y) /\ Among(w, U \ {x}) = Append(b, y)
      BY <2>7, <2>w
    <3>2. ASSUME Out(a, b) PROVE Out(Append(a, y), Append(b, y))
      <4>1. PICK p \in 1..Len(a) : a[p] = x /\ RemoveAt(a, p) = b
        BY <3>2 DEF Out
      <4>2. PICK n, u, r : n = Len(a) /\ u = Append(a, y) /\ r = RemoveAt(u, p)
        OBVIOUS
      <4>3. /\ n \in Nat /\ IsSeq(u) /\ Len(u) = n + 1 /\ u[n + 1] = y
            /\ \A i \in 1..n : u[i] = a[i]
        BY <2>4, <4>2, SeqIs, AppendIs
      <4>4. p \in 1..n /\ p \in 1..Len(u) /\ u[p] = x
        BY <4>1, <4>2, <4>3
      <4>5. /\ IsSeq(r) /\ Len(r) = Len(u) - 1
            /\ \A j \in 1..(Len(u) - 1) : r[j] = IF j < p THEN u[j] ELSE u[j + 1]
        BY <4>2, <4>3, <4>4, RemoveAtIs
      <4>6. /\ Len(b) = n - 1
            /\ \A j \in 1..(n - 1) : b[j] = IF j < p THEN a[j] ELSE a[j + 1]
        BY <2>4, <4>1, <4>2, RemoveAtIs
      <4>7. /\ Len(r) = Len(b) + 1 /\ \A j \in 1..Len(b) : r[j] = b[j]
            /\ r[Len(r)] = y
        <5>1. Len(r) = n
          BY <4>3, <4>5
        <5>2. ASSUME NEW j \in 1..(n - 1) PROVE r[j] = b[j]
          <6>1. j \in 1..n /\ j + 1 \in 1..n
            BY <4>3, <5>2
          <6> QED
            BY <4>3, <4>5, <4>6, <5>2, <6>1
        <5>3. r[n] = y
          <6>1. n \in 1..n /\ ~(n < p) /\ n \in 1..(Len(u) - 1)
            BY <4>3, <4>4
          <6> QED
            BY <4>3, <4>5, <6>1
        <5> QED
          BY <4>3, <4>6, <5>1, <5>2, <5>3
      <4>8. r = Append(b, y)
        BY <2>4, <4>5, <4>7, AppendOf
      <4> QED
        BY <4>2, <4>4, <4>8 DEF Out
    <3>3. Fine(w)
      BY <2>3, <2>4, <2>7, <3>1, <3>2
    <3> QED
      BY <2>1, <2>3, <3>3
  <2> QED
    BY <2>5, <2>6, <2>7
<1>3. ids \in T
  <2> HIDE DEF T
  <2> QED
    BY <1>1, <1>2, ListInduction
<1> QED
  BY <1>3

(***************************************************************************)
(* What a batch of commands leads to.                                      *)
(***************************************************************************)
\* What the fold of RunAtomic does at each step.
RunOp(context, acc, c) ==
    LET built == BuildPatch(c, acc.spec)
        next == ApplyJsonPatch(acc.spec, built.patch) IN
    IF ~acc.ok \/ built.kind = "failed" THEN [acc EXCEPT !.ok = FALSE]
    ELSE IF built.kind = "skipped" THEN acc
    ELSE [ok |-> ValidateSpec(next), spec |-> next]

Redoing == INSTANCE FoldTheorems WITH Op <- RunOp

RunFrom(acc, cs) == Redoing!LeftFold(0, acc, cs)

\* The two kinds of states of a run: all went well so far, or the batch has failed.
Fair(d) == [ok |-> TRUE, spec |-> d]
Foul(d) == [ok |-> FALSE, spec |-> d]

LEMMA States ==
  ASSUME NEW d, NEW e
  PROVE  /\ Fair(d) = Fair(e) => d = e
         /\ Foul(d) # Fair(e)
         /\ Fair(d).ok /\ Fair(d).spec = d /\ ~Foul(d).ok /\ Foul(d).spec = d
         /\ [Fair(d) EXCEPT !.ok = FALSE] = Foul(d)
         /\ [Foul(d) EXCEPT !.ok = FALSE] = Foul(d)
<1>1. ASSUME NEW a, NEW b PROVE [[ok |-> a, spec |-> d] EXCEPT !.ok = b] = [ok |-> b, spec |-> d]
  OBVIOUS
<1>2. Fair(d).ok /\ Fair(d).spec = d /\ ~Foul(d).ok /\ Foul(d).spec = d /\ Fair(e).ok /\ Fair(e).spec = e
  BY DEF Fair, Foul
<1>3. /\ [Fair(d) EXCEPT !.ok = FALSE] = Foul(d)
      /\ [Foul(d) EXCEPT !.ok = FALSE] = Foul(d)
  BY <1>1, Zenon DEF Fair, Foul
<1> QED
  BY <1>2, <1>3

\* The commands lead from one spec to another: none fails and each outcome is valid.
Leads(d, cs, e) == RunFrom(Fair(d), cs) = Fair(e)

LEMMA RunIsFold ==
  ASSUME NEW cs, NEW d
  PROVE  RunAtomic(cs, d) = RunFrom(Fair(d), cs)
BY Zenon DEF RunAtomic, RunOp, FoldLeft, MapThenFoldSet, Redoing!LeftFold, Redoing!LeftStep, Max, Redoing!Highest, RunFrom, Fair

\* What a command does: it fails, is skipped, or its outcome is validated.
Outcomes(d, c, s) ==
    LET built == BuildPatch(c, d)
        next == ApplyJsonPatch(d, built.patch) IN
    s = IF built.kind = "failed" THEN Foul(d)
        ELSE IF built.kind = "skipped" THEN Fair(d)
        ELSE IF ValidateSpec(next) THEN Fair(next) ELSE Foul(next)

LEMMA RunStep ==
  ASSUME NEW d, NEW c
  PROVE  /\ RunOp(0, Foul(d), c) = Foul(d)
         /\ Outcomes(d, c, RunOp(0, Fair(d), c))
<1>1. PICK s, t : s = Foul(d) /\ t = Fair(d)
  OBVIOUS
<1>2. /\ ~s.ok /\ [s EXCEPT !.ok = FALSE] = s
      /\ t.ok /\ t.spec = d /\ [t EXCEPT !.ok = FALSE] = s
  BY <1>1, States
<1>3. RunOp(0, s, c) = s
  BY <1>2 DEF RunOp
<1>4. Outcomes(d, c, RunOp(0, t, c))
  <2>1. PICK b, n : b = BuildPatch(c, d) /\ n = ApplyJsonPatch(d, b.patch)
    OBVIOUS
  <2>2. RunOp(0, t, c) = IF b.kind = "failed" THEN s ELSE IF b.kind = "skipped" THEN t
                         ELSE [ok |-> ValidateSpec(n), spec |-> n]
    BY <1>2, <2>1 DEF RunOp
  <2>3. [ok |-> ValidateSpec(n), spec |-> n] = IF ValidateSpec(n) THEN Fair(n) ELSE Foul(n)
    <3>1. CASE ValidateSpec(n)
      <4>1. ValidateSpec(n) = TRUE
        BY <3>1 DEF ValidateSpec
      <4> QED
        BY <3>1, <4>1 DEF Fair
    <3>2. CASE ~ValidateSpec(n)
      <4>1. ValidateSpec(n) = FALSE
        BY <3>2 DEF ValidateSpec
      <4> QED
        BY <3>2, <4>1 DEF Foul
    <3> QED
      BY <3>1, <3>2
  <2> QED
    BY <1>1, <2>1, <2>2, <2>3 DEF Outcomes
<1> QED
  BY <1>1, <1>3, <1>4

\* Induction over the first numbers.
LEMMA StepInduction ==
  ASSUME NEW n \in Nat, NEW K, 0 \in K,
         \A j \in 1..n : \A i \in K : i = j - 1 => j \in K
  PROVE  0..n \subseteq K
<1> DEFINE S == {k \in Nat : k <= n => k \in K}
<1>1. 0 \in S
  OBVIOUS
<1>2. ASSUME NEW k \in Nat, k \in S PROVE k + 1 \in S
  <2>1. PICK j : j = k + 1
    OBVIOUS
  <2>2. j \in Nat /\ k = j - 1
    BY <2>1
  <2>3. j <= n => j \in 1..n /\ k \in K
    BY <1>2, <2>1
  <2> QED
    BY <2>1, <2>2, <2>3
<1>3. Nat \subseteq S
  <2> HIDE DEF S
  <2> QED
    BY <1>1, <1>2, Patching!Induction
<1> QED
  BY <1>3

\* A run is always in one of these states, and one that has failed stays as it is.
LEMMA RunEnds ==
  ASSUME NEW acc, NEW cs, IsSeq(cs)
  PROVE  /\ \A d : acc = Fair(d) => \E e : RunFrom(acc, cs) \in {Fair(e), Foul(e)}
         /\ \A d : acc = Foul(d) => RunFrom(acc, cs) = acc
<1>1. PICK n : n = Len(cs)
  OBVIOUS
<1>2. n \in Nat /\ DOMAIN cs = 1..n /\ n \in 0..n /\ 0 \in 0..n
  BY <1>1, SeqIs
<1>3. PICK f : /\ Redoing!LeftSteps(0, acc, cs, n, f)
               /\ f[n] = Redoing!LeftFold(0, acc, cs)
  BY <1>2, Redoing!LeftFoldSteps
<1>4. f[0] = acc /\ \A k \in 1..n : f[k] = RunOp(0, f[k - 1], cs[k])
  BY <1>3 DEF Redoing!LeftSteps
<1> DEFINE Kind(s) == \E e : s \in {Fair(e), Foul(e)}
           Fine(s) == (\A d : acc = Fair(d) => Kind(s)) /\ (\A d : acc = Foul(d) => s = acc)
           K == {k \in 0..n : Fine(f[k])}
<1>5. 0 \in K
  BY <1>2, <1>4
<1>6. ASSUME NEW j \in 1..n, NEW i \in K, i = j - 1 PROVE j \in K
  <2>1. PICK s, c : s = f[i] /\ c = cs[j]
    OBVIOUS
  <2>2. Fine(s) /\ f[j] = RunOp(0, s, c) /\ j \in 0..n
    BY <1>2, <1>4, <1>6, <2>1
  <2>3. ASSUME Kind(s) PROVE Kind(RunOp(0, s, c))
    <3>1. PICK e : s = Fair(e) \/ s = Foul(e)
      BY <2>3
    <3>2. CASE s = Fair(e)
      BY <3>2, RunStep DEF Outcomes
    <3>3. CASE s = Foul(e)
      BY <3>3, RunStep
    <3> QED
      BY <3>1, <3>2, <3>3
  <2>4. Fine(RunOp(0, s, c))
    <3> HIDE DEF Kind
    <3> QED
      BY <2>2, <2>3, RunStep
  <2> HIDE DEF Fine
  <2> QED
    BY <2>2, <2>4
<1>7. 0..n \subseteq K
  <2> HIDE DEF K
  <2> QED
    BY <1>2, <1>5, <1>6, StepInduction
<1>8. Fine(f[n])
  BY <1>2, <1>7
<1> QED
  BY <1>3, <1>8 DEF RunFrom

LEMMA RunConcat ==
  ASSUME NEW acc, NEW cs, IsSeq(cs), NEW ds, IsSeq(ds)
  PROVE  RunFrom(acc, cs \o ds) = RunFrom(RunFrom(acc, cs), ds)
<1>1. PICK m, n, u : m = Len(cs) /\ n = Len(ds) /\ u = cs \o ds
  OBVIOUS
<1>2. m \in Nat /\ n \in Nat /\ DOMAIN cs = 1..m /\ DOMAIN ds = 1..n
  BY <1>1, SeqIs
<1>3. Joins(u, cs, ds)
  BY <1>1, ConcatIs
<1>4. Redoing!Joined(u, cs, m, ds, n)
  BY <1>1, <1>2, <1>3 DEF Joins, Redoing!Joined
<1> QED
  BY <1>1, <1>2, <1>4, Redoing!LeftFoldConcat DEF RunFrom

\* To lead on is to lead there and on from there.
LEMMA LeadsOn ==
  ASSUME NEW d, NEW e, NEW cs, IsSeq(cs), NEW ds, IsSeq(ds)
  PROVE  Leads(d, cs \o ds, e) <=> \E u : Leads(d, cs, u) /\ Leads(u, ds, e)
<1>1. PICK acc, r : acc = Fair(d) /\ r = RunFrom(acc, cs)
  OBVIOUS
<1>2. RunFrom(acc, cs \o ds) = RunFrom(r, ds)
  BY <1>1, RunConcat
<1>3. \E u : r \in {Fair(u), Foul(u)}
  BY <1>1, RunEnds
<1>4. PICK u : r = Fair(u) \/ r = Foul(u)
  BY <1>3
<1>5. CASE r = Fair(u)
  <2>1. \A v : r = Fair(v) => u = v
    BY <1>5, States
  <2> QED
    BY <1>1, <1>2, <1>5, <2>1 DEF Leads
<1>6. CASE r = Foul(u)
  <2>1. RunFrom(r, ds) = r
    BY <1>6, RunEnds
  <2>2. \A v : r # Fair(v)
    BY <1>6, States
  <2> QED
    BY <1>1, <1>2, <2>1, <2>2 DEF Leads
<1> QED
  BY <1>4, <1>5, <1>6

\* The same when the first commands lead to one document only, or to none.
LEMMA LeadsVia ==
  ASSUME NEW d, NEW cs, IsSeq(cs), NEW ds, IsSeq(ds), NEW u, \A f : Leads(d, cs, f) => f = u, NEW e
  PROVE  Leads(d, cs \o ds, e) <=> Leads(d, cs, u) /\ Leads(u, ds, e)
<1>1. Leads(d, cs \o ds, e) <=> \E v : Leads(d, cs, v) /\ Leads(v, ds, e)
  BY LeadsOn
<1> QED
  BY <1>1

LEMMA LeadsNowhere ==
  ASSUME NEW d, NEW e
  PROVE  Leads(d, << >>, e) <=> e = d
<1>1. DOMAIN << >> = {}
  OBVIOUS
<1>2. PICK acc : acc = Fair(d)
  OBVIOUS
<1>3. RunFrom(acc, << >>) = acc
  BY <1>1, Redoing!LeftFoldEmpty DEF RunFrom
<1>4. acc = Fair(e) <=> e = d
  BY <1>2, States
<1> QED
  BY <1>2, <1>3, <1>4 DEF Leads

\* One command.
LEMMA LeadsOne ==
  ASSUME NEW d, NEW e, NEW c
  PROVE  Leads(d, <<c>>, e) <=> Outcomes(d, c, Fair(e))
<1>1. PICK acc, s, u, r : acc = Fair(d) /\ s = << >> /\ u = <<c>> /\ r = RunOp(0, acc, c)
  OBVIOUS
<1>2. DOMAIN s = 1..0 /\ DOMAIN u = 1..1 /\ u[1] = c /\ DOMAIN s = {}
  BY <1>1
<1>3. Redoing!LeftFold(0, acc, s) = acc
  BY <1>2, Redoing!LeftFoldEmpty
<1>4. RunFrom(acc, u) = r
  <2>1. PICK f : Redoing!LeftSteps(0, acc, u, 1, f) /\ f[1] = Redoing!LeftFold(0, acc, u)
    BY <1>2, Redoing!LeftFoldSteps
  <2>2. f[0] = acc /\ f[1] = RunOp(0, f[1 - 1], u[1])
    BY <2>1 DEF Redoing!LeftSteps
  <2>3. f[1] = r
    BY <1>1, <1>2, <2>2
  <2> QED
    BY <2>1, <2>3 DEF RunFrom
<1>6. Outcomes(d, c, r)
  BY <1>1, RunStep
<1>7. Leads(d, <<c>>, e) <=> r = Fair(e)
  BY <1>1, <1>4 DEF Leads
<1> QED
  BY <1>6, <1>7 DEF Outcomes

\* Commands that go through specs, one each.
Goes(d, c, e) == BuildPatch(c, d).kind = "patch" /\ e = ApplyJsonPatch(d, BuildPatch(c, d).patch)

Through(cs, g) == IsSeq(cs) /\ \A i \in 1..Len(cs) : Goes(g[i - 1], cs[i], g[i])

AllValid(g, k) == \A i \in 1..k : ValidateSpec(g[i])

LEMMA ThroughLeads ==
  ASSUME NEW cs, NEW g, Through(cs, g), NEW d, d = g[0], NEW e
  PROVE  Leads(d, cs, e) <=> e = g[Len(cs)] /\ AllValid(g, Len(cs))
<1>1. PICK n, acc : n = Len(cs) /\ acc = Fair(d)
  OBVIOUS
<1>2. n \in Nat /\ DOMAIN cs = 1..n /\ n \in 0..n /\ 0 \in 0..n
  BY <1>1, SeqIs DEF Through
<1>3. PICK f : /\ Redoing!LeftSteps(0, acc, cs, n, f)
               /\ f[n] = Redoing!LeftFold(0, acc, cs)
  BY <1>2, Redoing!LeftFoldSteps
<1>4. f[0] = acc /\ \A k \in 1..n : f[k] = RunOp(0, f[k - 1], cs[k])
  BY <1>3 DEF Redoing!LeftSteps
<1> DEFINE Fine(k) == /\ AllValid(g, k) => f[k] = Fair(g[k])
                      /\ ~AllValid(g, k) => \E t : f[k] = Foul(t)
           K == {k \in 0..n : Fine(k)}
<1>5. 0 \in K
  <2>1. AllValid(g, 0)
    BY DEF AllValid
  <2> QED
    BY <1>1, <1>2, <1>4, <2>1
<1>6. ASSUME NEW j \in 1..n, NEW i \in K, i = j - 1 PROVE j \in K
  <2>1. PICK c, a, b, s : c = cs[j] /\ a = g[i] /\ b = g[j] /\ s = f[i]
    OBVIOUS
  <2>2. /\ AllValid(g, i) => s = Fair(a)
        /\ ~AllValid(g, i) => \E t : s = Foul(t)
    BY <1>6, <2>1
  <2>3. f[j] = RunOp(0, s, c)
    BY <1>4, <1>6, <2>1
  <2>4. Goes(a, c, b)
    BY <1>1, <1>6, <2>1 DEF Through
  <2>5. AllValid(g, j) <=> AllValid(g, i) /\ ValidateSpec(b)
    <3>1. j \in 1..j /\ (\A l \in 1..j : l \in 1..i \/ l = j) /\ (\A l \in 1..i : l \in 1..j)
      BY <1>2, <1>6
    <3> QED
      BY <2>1, <3>1 DEF AllValid
  <2>6. CASE AllValid(g, i)
    <3>1. Outcomes(a, c, f[j])
      BY <2>2, <2>3, <2>6, RunStep
    <3>2. f[j] = IF ValidateSpec(b) THEN Fair(b) ELSE Foul(b)
      BY <2>4, <3>1 DEF Outcomes, Goes
    <3> QED
      BY <2>1, <2>5, <2>6, <3>2, <1>2
  <2>7. CASE ~AllValid(g, i)
    <3>1. PICK t : s = Foul(t)
      BY <2>2, <2>7
    <3>2. f[j] = Foul(t)
      BY <2>3, <3>1, RunStep
    <3> QED
      BY <2>5, <2>7, <3>2, <1>2
  <2> QED
    BY <2>6, <2>7
<1>7. 0..n \subseteq K
  <2> HIDE DEF K
  <2> QED
    BY <1>2, <1>5, <1>6, StepInduction
<1>8. Fine(n)
  BY <1>2, <1>7
<1>9. \A t : Foul(t) # Fair(e)
  BY States
<1>10. Fair(g[n]) = Fair(e) <=> e = g[n]
  BY States
<1>11. f[n] = Fair(e) <=> e = g[n] /\ AllValid(g, n)
  BY <1>8, <1>9, <1>10
<1> QED
  BY <1>1, <1>3, <1>11 DEF Leads, RunFrom

(***************************************************************************)
(* What the commands of a diff do to a spec.                               *)
(***************************************************************************)
InSources(d, sources) == [d EXCEPT !.sources = sources]
InLayers(d, layers) == [d EXCEPT !.layers = layers]

\* An operation on a member of a member.
Put1(d, r, x) == [d EXCEPT ![r] = x]

LEMMA OperationIn ==
  ASSUME NEW d, NEW o, NEW r, NEW k, o.path = <<r, k>>
  PROVE  /\ <<r>> \notin ArrayPaths => ApplyOperation(d, o) = Put1(d, r, ObjectOperation(d[r], k, o))
         /\ <<r>> \in ArrayPaths => ApplyOperation(d, o) = Put1(d, r, ArrayOperation(d[r], k, o))
<1>1. PICK a, v : a = <<r>> /\ v = d[r]
  OBVIOUS
<1>2. At(o, a, k)
  BY <1>1, Path1, Path2 DEF At
<1>3. GetAtPath(d, a) = v /\ \A x : Update(d, a, x) = Put1(d, r, x)
  BY <1>1, Updates DEF Updates1, Put1
<1>4. a \notin ArrayPaths => ApplyOperation(d, o) = Put1(d, r, ObjectOperation(v, k, o))
  BY ONLY <1>2, <1>3, ApplyAtObject
<1>5. a \in ArrayPaths => ApplyOperation(d, o) = Put1(d, r, ArrayOperation(v, k, o))
  BY ONLY <1>2, <1>3, ApplyAtArray
<1> QED
  BY <1>1, <1>4, <1>5

LEMMA PatchOne ==
  ASSUME NEW d, NEW o
  PROVE  ApplyJsonPatch(d, <<o>>) = ApplyOperation(d, o)
<1>1. PICK p, q : p = << >> /\ q = <<o>>
  OBVIOUS
<1>2. IsSeq(p) /\ q = Append(p, o) /\ ApplyJsonPatch(d, p) = d
  BY <1>1, Path0, Path1, PatchEmpty
<1>3. ApplyJsonPatch(d, Append(p, o)) = ApplyOperation(ApplyJsonPatch(d, p), o)
  BY <1>2, PatchAppend
<1> QED
  BY <1>1, <1>2, <1>3

LEMMA SourceAdded ==
  ASSUME NEW d, NEW c, c.type = "addSource", ~Has(d.sources, c.id)
  PROVE  Goes(d, c, InSources(d, With(d.sources, c.id, c.value)))
<1>1. PICK o : o = Add(<<"sources", c.id>>, c.value)
  OBVIOUS
<1>2. BuildPatch(c, d) = Built(<<o>>)
  BY <1>1 DEF BuildPatch, AddSource
<1>3. ApplyOperation(d, o) = Put1(d, "sources", ObjectOperation(d["sources"], c.id, o))
  <2>1. o.path = <<"sources", c.id>> /\ <<"sources">> \notin ArrayPaths
    BY <1>1, Arrays DEF Add
  <2> HIDE <1>1
  <2> QED
    BY <2>1, OperationIn
<1>4. ObjectOperation(d.sources, c.id, o) = With(d.sources, c.id, c.value)
  BY <1>1 DEF Add, ObjectOperation
<1>5. ApplyJsonPatch(d, <<o>>) = InSources(d, With(d.sources, c.id, c.value))
  BY <1>3, <1>4, PatchOne DEF InSources, Put1
<1> QED
  BY <1>2, <1>5 DEF Goes, Built

LEMMA SourceRemoved ==
  ASSUME NEW d, NEW c, c.type = "removeSource", Has(d.sources, c.id)
  PROVE  Goes(d, c, InSources(d, Without(d.sources, c.id)))
<1>1. PICK o : o = Delete(<<"sources", c.id>>)
  OBVIOUS
<1>2. BuildPatch(c, d) = Built(<<o>>)
  BY <1>1 DEF BuildPatch, RemoveSource
<1>3. ApplyOperation(d, o) = Put1(d, "sources", ObjectOperation(d["sources"], c.id, o))
  <2>1. o.path = <<"sources", c.id>> /\ <<"sources">> \notin ArrayPaths
    BY <1>1, Arrays DEF Delete
  <2> HIDE <1>1
  <2> QED
    BY <2>1, OperationIn
<1>4. ObjectOperation(d.sources, c.id, o) = Without(d.sources, c.id)
  BY <1>1 DEF Delete, ObjectOperation
<1>5. ApplyJsonPatch(d, <<o>>) = InSources(d, Without(d.sources, c.id))
  BY <1>3, <1>4, PatchOne DEF InSources, Put1
<1> QED
  BY <1>2, <1>5 DEF Goes, Built

\* Where a layer is.
LEMMA LayerIsAt ==
  ASSUME NEW layers, IsSeq(layers), DistinctIds(layers)
  PROVE  /\ \A i \in 1..Len(layers) : LayerAt(layers, layers[i].id) = i
         /\ \A id : LayerAt(layers, id) = 0 <=> \A i \in 1..Len(layers) : layers[i].id # id
<1>1. PICK n : n = Len(layers)
  OBVIOUS
<1>2. n \in Nat /\ DOMAIN layers = 1..n
  BY <1>1, SeqIs
<1> DEFINE I(id) == {i \in 1..n : layers[i].id = id}
<1>3. \A id : LayerAt(layers, id) = IF I(id) # {} THEN Min(I(id)) ELSE 0
  BY <1>1 DEF LayerAt, SelectInSeq
<1>4. ASSUME NEW i \in 1..n PROVE LayerAt(layers, layers[i].id) = i
  <2>1. PICK J : J = I(layers[i].id)
    OBVIOUS
  <2>2. J = {i}
    BY <1>2, <2>1 DEF DistinctIds
  <2>3. J \subseteq Int /\ i \in J /\ \A y \in J : i =< y
    BY <1>2, <2>2
  <2>4. Min(J) = i
    BY <2>3, Patching!LowestIsFirst DEF Min, Patching!Lowest
  <2> HIDE DEF I
  <2> QED
    BY <1>3, <2>1, <2>2, <2>4
<1>5. ASSUME NEW id PROVE LayerAt(layers, id) = 0 <=> \A i \in 1..n : layers[i].id # id
  <2>1. CASE \A i \in 1..n : layers[i].id # id
    <3>1. I(id) = {}
      BY <2>1
    <3> HIDE DEF I
    <3> QED
      BY <1>3, <2>1, <3>1
  <2>2. CASE \E i \in 1..n : layers[i].id = id
    BY <1>2, <1>4, <2>2
  <2> QED
    BY <2>1, <2>2
<1> QED
  BY <1>1, <1>4, <1>5

\* An operation on the layers.
LEMMA LayerOperationIn ==
  ASSUME NEW d, NEW k, NEW v
  PROVE  /\ ApplyOperation(d, Add(<<"layers", k>>, v)) = InLayers(d, InsertAt(d.layers, k, v))
         /\ ApplyOperation(d, Delete(<<"layers", k>>)) = InLayers(d, RemoveAt(d.layers, k))
<1>1. PICK o, q, a : o = Add(a, v) /\ q = Delete(a) /\ a = <<"layers", k>>
  OBVIOUS
<1>2. /\ o.path = a /\ ArrayOperation(d.layers, k, o) = InsertAt(d.layers, k, v)
      /\ q.path = a /\ ArrayOperation(d.layers, k, q) = RemoveAt(d.layers, k)
  BY ONLY <1>1 DEF Add, Delete, ArrayOperation
<1>3. o.path = <<"layers", k>> /\ q.path = <<"layers", k>> /\ <<"layers">> \in ArrayPaths
  BY <1>1, <1>2, Arrays
<1>4. ApplyOperation(d, o) = Put1(d, "layers", ArrayOperation(d["layers"], k, o))
  BY ONLY <1>3, OperationIn
<1>5. ApplyOperation(d, q) = Put1(d, "layers", ArrayOperation(d["layers"], k, q))
  BY ONLY <1>3, OperationIn
<1> QED
  BY <1>1, <1>2, <1>4, <1>5 DEF Put1, InLayers

LEMMA PatchTwo ==
  ASSUME NEW d, NEW o, NEW q
  PROVE  ApplyJsonPatch(d, <<o, q>>) = ApplyOperation(ApplyOperation(d, o), q)
<1>1. PICK u, v : u = <<o>> /\ v = <<o, q>>
  OBVIOUS
<1>2. IsSeq(u) /\ v = Append(u, q) /\ ApplyJsonPatch(d, u) = ApplyOperation(d, o)
  BY <1>1, Path1, Path2, PatchOne
<1>3. ApplyJsonPatch(d, Append(u, q)) = ApplyOperation(ApplyJsonPatch(d, u), q)
  BY <1>2, PatchAppend
<1> QED
  BY <1>1, <1>2, <1>3

LEMMA InsertedLast ==
  ASSUME NEW s, IsSeq(s), NEW x
  PROVE  InsertAt(s, Len(s) + 1, x) = Append(s, x)
<1>1. PICK n, k, t : n = Len(s) /\ k = n + 1 /\ t = InsertAt(s, k, x)
  OBVIOUS
<1>2. n \in Nat /\ k \in 1..(Len(s) + 1)
  BY <1>1, SeqIs
<1>3. /\ IsSeq(t) /\ Len(t) = Len(s) + 1
      /\ \A j \in 1..(Len(s) + 1) : t[j] = IF j < k THEN s[j] ELSE IF j = k THEN x ELSE s[j - 1]
  BY <1>1, <1>2, InsertAtIs
<1>4. (\A j \in 1..Len(s) : t[j] = s[j]) /\ t[Len(t)] = x
  BY <1>1, <1>2, <1>3
<1> QED
  BY <1>1, <1>3, <1>4, AppendOf

LEMMA LayerAdded ==
  ASSUME NEW d, IsSeq(d.layers), NEW c, c.type = "addLayer", c.before = Absent,
         LayerAt(d.layers, c.value.id) = 0
  PROVE  Goes(d, c, InLayers(d, Append(d.layers, c.value)))
<1>1. PICK k, o : k = Len(d.layers) + 1 /\ o = Add(<<"layers", k>>, c.value)
  OBVIOUS
<1>2. Anchor(d.layers, c.before) = k /\ k # 0
  BY <1>1, SeqIs DEF Anchor
<1>3. BuildPatch(c, d) = Built(<<o>>)
  BY <1>1, <1>2 DEF BuildPatch, AddLayer
<1>4. ApplyOperation(d, o) = InLayers(d, InsertAt(d.layers, k, c.value))
  BY <1>1, LayerOperationIn
<1>5. ApplyJsonPatch(d, <<o>>) = InLayers(d, Append(d.layers, c.value))
  BY <1>1, <1>4, PatchOne, InsertedLast
<1> QED
  BY <1>3, <1>5 DEF Goes, Built

LEMMA LayerGone ==
  ASSUME NEW d, NEW c, c.type = "removeLayer", NEW k, k = LayerAt(d.layers, c.id), k # 0
  PROVE  Goes(d, c, InLayers(d, RemoveAt(d.layers, k)))
<1>1. PICK o : o = Delete(<<"layers", k>>)
  OBVIOUS
<1>2. BuildPatch(c, d) = Built(<<o>>)
  BY <1>1 DEF BuildPatch, LayerCommand, RemoveLayer
<1>3. ApplyOperation(d, o) = InLayers(d, RemoveAt(d.layers, k))
  BY <1>1, LayerOperationIn
<1> QED
  BY <1>2, <1>3, PatchOne DEF Goes, Built

\* A layer that is moved: taken out, and put in at another place.
Moves(L, M, id, before) ==
    \E from \in 1..Len(L) : \E to \in 1..Len(L) :
        /\ L[from].id = id
        /\ M = InsertAt(RemoveAt(L, from), to, L[from])
        /\ before = Absent => to = Len(L)
        /\ before # Absent => RemoveAt(L, from)[to].id = before /\ to < Len(L)

LEMMA AnchorIs ==
  ASSUME NEW layers, IsSeq(layers), NEW before, NEW k, k = Anchor(layers, before), k # 0
  PROVE  /\ k \in 1..(Len(layers) + 1)
         /\ before = Absent => k = Len(layers) + 1
         /\ before # Absent => k \in 1..Len(layers) /\ layers[k].id = before
<1>1. PICK n : n = Len(layers) /\ n \in Nat
  BY SeqIs
<1>2. CASE before = Absent
  BY <1>1, <1>2 DEF Anchor
<1>3. CASE before # Absent
  <2>1. k \in 0..n /\ layers[k].id = before
    BY <1>1, <1>3, LayerFound DEF Anchor
  <2> QED
    BY <1>1, <1>3, <2>1
<1> QED
  BY <1>2, <1>3

\* A command that moves a layer fails, or moves it.
LEMMA LayerMoved ==
  ASSUME NEW d, Has(d, "layers"), IsSeq(d.layers), NEW c, c.type = "reorderLayer", c.before # c.id,
         BuildPatch(c, d).kind # "failed"
  PROVE  \E M : /\ Moves(d.layers, M, c.id, c.before)
                /\ \/ BuildPatch(c, d).kind = "skipped" /\ M = d.layers
                   \/ Goes(d, c, InLayers(d, M))
<1>1. PICK L, b : L = d.layers /\ b = BuildPatch(c, d)
  OBVIOUS
<1>2. PICK from, layer, others, to :
          /\ from = LayerAt(L, c.id) /\ layer = L[from] /\ others = RemoveAt(L, from)
          /\ to = Anchor(others, c.before)
  OBVIOUS
<1>3. LayerAt(L, c.id) # 0 /\ b = ReorderLayer(c, d)
  BY <1>1 DEF BuildPatch, LayerCommand, Failed
<1>4. from \in 1..Len(L) /\ layer.id = c.id /\ Len(L) \in Nat
  <2>1. LayerAt(L, c.id) \in 0..Len(L) /\ L[LayerAt(L, c.id)].id = c.id
    BY <1>1, <1>3, LayerFound
  <2> QED
    BY <1>1, <1>2, <1>3, <2>1, SeqIs
<1>5. IsSeq(others) /\ Len(others) = Len(L) - 1
  BY <1>1, <1>2, <1>4, RemoveAtIs
<1>6. PICK M, o, q : /\ M = InsertAt(others, to, layer)
                     /\ o = Delete(<<"layers", from>>) /\ q = Add(<<"layers", to>>, layer)
  OBVIOUS
<1>7. to # 0 /\ b = IF M = L THEN Skipped ELSE Built(<<o, q>>)
  BY <1>1, <1>2, <1>3, <1>6 DEF ReorderLayer, Failed
<1>8. Moves(L, M, c.id, c.before)
  <2>1. /\ to \in 1..(Len(others) + 1)
        /\ c.before = Absent => to = Len(others) + 1
        /\ c.before # Absent => to \in 1..Len(others) /\ others[to].id = c.before
    BY <1>2, <1>5, <1>7, AnchorIs
  <2>2. /\ to \in 1..Len(L) /\ (c.before = Absent => to = Len(L))
        /\ c.before # Absent => others[to].id = c.before /\ to < Len(L)
    BY <1>4, <1>5, <2>1
  <2> QED
    BY <1>2, <1>4, <1>6, <2>2 DEF Moves
<1>9. CASE M = L
  BY <1>1, <1>7, <1>8, <1>9 DEF Skipped
<1>10. CASE M # L
  <2>1. PICK e : e = InLayers(d, others)
    OBVIOUS
  <2>2. ApplyOperation(d, o) = e
    BY <1>1, <1>2, <1>6, <2>1, LayerOperationIn
  <2>3. ApplyOperation(e, q) = InLayers(e, InsertAt(e.layers, to, layer))
    BY <1>6, LayerOperationIn
  <2>4. InLayers(e, InsertAt(e.layers, to, layer)) = InLayers(d, M)
    BY <1>6, <2>1 DEF InLayers, Has
  <2>5. ApplyJsonPatch(d, <<o, q>>) = InLayers(d, M)
    BY <2>2, <2>3, <2>4, PatchTwo
  <2>6. Goes(d, c, InLayers(d, M))
    BY <1>1, <1>7, <1>10, <2>5 DEF Goes, Built
  <2> QED
    BY <1>1, <1>8, <2>6
<1> QED
  BY <1>9, <1>10

LEMMA RootPut ==
  ASSUME NEW d, NEW n, NEW v, NEW o, o.path = <<n>>, o.op \in {"add", "replace"}, o.value = v
  PROVE  ApplyJsonPatch(d, <<o>>) = With(d, n, v)
<1>1. IsSeq(o.path) /\ Len(o.path) = 1 /\ o.path[1] = n
  BY ShortPaths DEF Path1Is
<1>2. ApplyOperation(d, o) = ObjectOperation(d, n, o)
  BY <1>1, RootOperation
<1>3. ObjectOperation(d, n, o) = With(d, n, v)
  BY DEF ObjectOperation
<1> QED
  BY <1>2, <1>3, PatchOne

LEMMA ViewSet ==
  ASSUME NEW d, NEW c, c.type = "setView"
  PROVE  Goes(d, c, With(d, "view", Merge(c.value, d.view)))
<1>1. PICK x, o : x = Merge(c.value, d.view) /\ o = Replace(<<"view">>, x)
  OBVIOUS
<1>2. BuildPatch(c, d) = Built(<<o>>)
  BY <1>1 DEF BuildPatch, SetView
<1>3. o.path = <<"view">> /\ o.op \in {"add", "replace"} /\ o.value = x
  BY <1>1 DEF Replace
<1>4. ApplyJsonPatch(d, <<o>>) = With(d, "view", x)
  BY ONLY <1>3, RootPut
<1> QED
  BY <1>1, <1>2, <1>4 DEF Goes, Built

LEMMA MemberSet ==
  ASSUME NEW d, NEW c, c.type = "setInteractions"
  PROVE  Goes(d, c, With(d, c.member, c.value))
<1>1. PICK n, o, a : n = c.member /\ a = <<n>> /\ o = Put(d, n, a, c.value)
  OBVIOUS
<1>2. BuildPatch(c, d) = Built(<<o>>)
  BY <1>1 DEF BuildPatch, SetMember
<1>3. o.path = a /\ o.op \in {"add", "replace"} /\ o.value = c.value
  BY <1>1 DEF Put, Add, Replace
<1>4. ApplyJsonPatch(d, <<o>>) = With(d, n, c.value)
  BY <1>1, <1>3, RootPut
<1> QED
  BY <1>1, <1>2, <1>4 DEF Goes, Built

(***************************************************************************)
(* Specs that differ in sources and layers, and lists of layers.           *)
(***************************************************************************)
\* SetToSeq lists all of a finite set.
LEMMA ListedIs ==
  ASSUME NEW S, IsFiniteSet(S), NEW f, f = SetToSeq(S)
  PROVE  IsSeq(f) /\ ToSet(f) = S /\ Distinct(f)
<1>1. PICK n : n = Cardinality(S)
  OBVIOUS
<1>2. n \in Nat /\ ExistsBijection(1..n, S)
  BY <1>1, FS_CardinalityType
<1>3. PICK g : g \in [1..n -> S] /\ IsInjective(g)
  BY <1>2 DEF ExistsBijection, Bijection, Injection
<1>4. f \in [1..n -> S] /\ IsInjective(f)
  BY <1>1, <1>3, Zenon DEF SetToSeq
<1>5. f \in Injection(1..n, S)
  BY <1>4 DEF Injection, IsInjective
<1>6. IsFiniteSet(1..n) /\ Cardinality(1..n) = n
  <2>1. 1 \in Int /\ n \in Int /\ IF 1 > n THEN n = 0 ELSE n - 1 + 1 = n
    BY <1>2
  <2>2. IsFiniteSet(1..n) /\ Cardinality(1..n) = IF 1 > n THEN 0 ELSE n - 1 + 1
    BY <2>1, FS_Interval
  <2> QED
    BY <2>1, <2>2
<1>7. f \in Surjection(1..n, S)
  BY <1>1, <1>5, <1>6, FS_Injection
<1>8. \A x \in S : \E i \in 1..n : f[i] = x
  BY <1>7 DEF Surjection
<1>9. ToSet(f) = S
  BY <1>4, <1>8 DEF ToSet
<1> QED
  BY <1>4, <1>9, NamesInOrder DEF IsInjective, Distinct

Made(b, sources, layers) == InLayers(InSources(b, sources), layers)

LEMMA MadeIs ==
  ASSUME NEW b, Frame(b), NEW S, NEW L, NEW m, m = Made(b, S, L)
  PROVE  /\ m.sources = S /\ m.layers = L /\ IsObject(m) /\ DOMAIN m = DOMAIN b
         /\ Frame(m) /\ m.view = b.view
         /\ \A n \in DOMAIN b : n \notin {"sources", "layers"} => m[n] = b[n]
BY DEF Made, InLayers, InSources, Frame, IsObject

LEMMA MadeAgain ==
  ASSUME NEW b, Frame(b), NEW S, NEW L, NEW m, m = Made(b, S, L), NEW T, NEW M
  PROVE  /\ InSources(m, T) = Made(b, T, L) /\ InLayers(m, M) = Made(b, S, M)
         /\ Made(b, b.sources, b.layers) = b
<1>1. InSources(m, T) = Made(b, T, L)
  BY DEF Made, InLayers, InSources
<1>2. InLayers(m, M) = Made(b, S, M)
  BY DEF Made, InLayers, InSources
<1>3. Made(b, b.sources, b.layers) = b
  BY DEF Made, InLayers, InSources, Frame, IsObject
<1> QED
  BY <1>1, <1>2, <1>3

\* A layer that is valid over sources in a spec.
LayerFits(layer, sources, spec) ==
    /\ layer.type # "background" => Has(layer, "source")
    /\ Has(layer, "source") =>
           /\ Has(sources, layer.source)
           /\ Compatible(layer.type, sources[layer.source].type)
    /\ layer.type = "fill-extrusion-lite" => ExtrusionAllowed(spec)
    /\ Has(layer, "minzoom") /\ Has(layer, "maxzoom") => layer.minzoom <= layer.maxzoom
    /\ Has(layer, "filter") => layer.filter \notin Blocked
    /\ \A member \in {"paint", "layout"} \cap DOMAIN layer :
           \A name \in DOMAIN layer[member] : layer[member][name] \notin Blocked

\* The rest of ValidateSpec, and what it is about.
ValidBase(spec) ==
    /\ Member(spec, "revision", 0) # InvalidRevision
    /\ Mode(spec) # "scene3d" /\ "3d" \notin Requested(spec, "dimensions")
    /\ HasScene(spec) => ValidScene(spec)

Alike(d, e) ==
    /\ Mode(d) = Mode(e)
    /\ Same(d, e, "capabilities") /\ Same(d, e, "extensions")

LEMMA ValidIs ==
  ASSUME NEW d
  PROVE  ValidateSpec(d) <=> /\ ValidBase(d) /\ DistinctIds(d.layers)
                             /\ \A i \in DOMAIN d.layers : LayerFits(d.layers[i], d.sources, d)
BY DEF ValidateSpec, ValidBase, LayerFits, ValidLayer

LEMMA AlikeFit ==
  ASSUME NEW d, NEW e, Alike(d, e)
  PROVE  /\ ExtrusionAllowed(d) <=> ExtrusionAllowed(e)
         /\ \A n : Requested(d, n) = Requested(e, n)
         /\ Extensions(d) = Extensions(e)
         /\ Same(d, e, "revision") /\ ValidBase(e) => ValidBase(d)
         /\ \A l, S : LayerFits(l, S, d) <=> LayerFits(l, S, e)
<1>1. Mode(d) = Mode(e) /\ \A n : Requested(d, n) = Requested(e, n)
  BY DEF Alike, Same, Requested, Member, Has
<1>2. ExtrusionAllowed(d) <=> ExtrusionAllowed(e)
  BY <1>1 DEF ExtrusionAllowed
<1>3. Extensions(d) = Extensions(e)
  BY DEF Alike, Same, Extensions, Member, Has
<1>4. /\ HasScene(d) <=> HasScene(e)
      /\ ValidScene(d) <=> ValidScene(e)
  <2>1. Scene(d) = Scene(e)
    BY <1>3 DEF Scene
  <2>2. SceneSources(d) = SceneSources(e) /\ SceneLayers(d) = SceneLayers(e)
    BY <2>1 DEF SceneSources, SceneLayers
  <2> QED
    BY <1>3, <2>1, <2>2 DEF HasScene, ValidScene
<1>5. Same(d, e, "revision") => Member(d, "revision", 0) = Member(e, "revision", 0)
  BY DEF Same, Member, Has
<1>6. \A l, S : LayerFits(l, S, d) <=> LayerFits(l, S, e)
  BY <1>2 DEF LayerFits
<1> QED
  BY <1>1, <1>2, <1>3, <1>4, <1>5, <1>6 DEF ValidBase

LEMMA ValidMade ==
  ASSUME NEW b, Frame(b), ValidateSpec(b), NEW S, NEW L
  PROVE  ValidateSpec(Made(b, S, L)) <=>
             DistinctIds(L) /\ \A i \in DOMAIN L : LayerFits(L[i], S, b)
<1>1. PICK m : m = Made(b, S, L)
  OBVIOUS
<1>2. /\ m.sources = S /\ m.layers = L /\ DOMAIN m = DOMAIN b /\ m.view = b.view
      /\ \A n \in DOMAIN b : n \notin {"sources", "layers"} => m[n] = b[n]
  BY <1>1, MadeIs
<1>3. Alike(m, b) /\ Same(m, b, "revision")
  BY <1>2 DEF Alike, Same, Has, Mode
<1>4. ValidBase(m)
  BY <1>3, AlikeFit, ValidIs
<1>5. ValidateSpec(m) <=> DistinctIds(L) /\ \A i \in DOMAIN L : LayerFits(L[i], S, m)
  BY <1>2, <1>4, ValidIs
<1>6. \A i : LayerFits(L[i], S, m) <=> LayerFits(L[i], S, b)
  BY <1>3, AlikeFit
<1> QED
  BY <1>1, <1>5, <1>6

\* The layers of a dictionary in the order of a list of ids.
Dressed(dict, ids) == [i \in DOMAIN ids |-> dict[ids[i]]]

DictOf(layers) == [id \in ToSet(IdsOf(layers)) |-> LayerOf(layers, id)]

Named(dict) == \A id \in DOMAIN dict : LayerShape(dict[id]) /\ dict[id].id = id

LEMMA DressedIs ==
  ASSUME NEW dict, NEW ids, IsSeq(ids), NEW s, s = Dressed(dict, ids)
  PROVE  /\ IsSeq(s) /\ Len(s) = Len(ids) /\ DOMAIN s = 1..Len(ids)
         /\ \A i \in 1..Len(ids) : s[i] = dict[ids[i]]
<1>1. PICK n : n = Len(ids) /\ n \in Nat /\ DOMAIN ids = 1..n
  BY SeqIs
<1>2. DOMAIN s = 1..n /\ IsObject(s) /\ \A i \in 1..n : s[i] = dict[ids[i]]
  BY <1>1 DEF Dressed, IsObject
<1>3. IsSeq(s) /\ Len(s) = n
  BY <1>1, <1>2, ArrayIs
<1> QED
  BY <1>1, <1>2, <1>3

LEMMA DressedAppend ==
  ASSUME NEW dict, NEW ids, IsSeq(ids), NEW x
  PROVE  Dressed(dict, Append(ids, x)) = Append(Dressed(dict, ids), dict[x])
<1>1. PICK n, u, s, t : n = Len(ids) /\ u = Append(ids, x) /\ s = Dressed(dict, ids) /\ t = Dressed(dict, u)
  OBVIOUS
<1>2. n \in Nat /\ IsSeq(u) /\ Len(u) = n + 1 /\ u[n + 1] = x /\ \A i \in 1..n : u[i] = ids[i]
  BY <1>1, SeqIs, AppendIs
<1>3. IsSeq(s) /\ Len(s) = n /\ \A i \in 1..n : s[i] = dict[ids[i]]
  BY <1>1, DressedIs
<1>4. IsSeq(t) /\ Len(t) = n + 1 /\ \A i \in 1..(n + 1) : t[i] = dict[u[i]]
  <2>1. IsSeq(u) /\ t = Dressed(dict, u)
    BY <1>1, <1>2
  <2>2. IsSeq(t) /\ Len(t) = Len(u) /\ \A i \in 1..Len(u) : t[i] = dict[u[i]]
    BY ONLY <2>1, DressedIs
  <2> QED
    BY <1>2, <2>2
<1>5. /\ Len(t) = Len(s) + 1 /\ t[Len(t)] = dict[x]
      /\ \A i \in 1..Len(s) : t[i] = s[i]
  BY <1>2, <1>3, <1>4
<1> QED
  BY <1>1, <1>3, <1>4, <1>5, AppendOf

LEMMA DressedRemoved ==
  ASSUME NEW dict, NEW ids, IsSeq(ids), NEW p \in 1..Len(ids)
  PROVE  RemoveAt(Dressed(dict, ids), p) = Dressed(dict, RemoveAt(ids, p))
<1>1. PICK n, s, r, u, v : /\ n = Len(ids) /\ s = Dressed(dict, ids) /\ r = RemoveAt(s, p)
                           /\ u = RemoveAt(ids, p) /\ v = Dressed(dict, u)
  OBVIOUS
<1>2. n \in Nat /\ p \in 1..n
  BY <1>1, SeqIs
<1>3. IsSeq(s) /\ Len(s) = n /\ \A i \in 1..n : s[i] = dict[ids[i]]
  BY <1>1, DressedIs
<1>4. IsSeq(u) /\ Len(u) = n - 1 /\ \A j \in 1..(n - 1) : u[j] = IF j < p THEN ids[j] ELSE ids[j + 1]
  BY <1>1, RemoveAtIs
<1>5. IsSeq(r) /\ Len(r) = n - 1 /\ \A j \in 1..(n - 1) : r[j] = IF j < p THEN s[j] ELSE s[j + 1]
  <2>1. IsSeq(s) /\ p \in 1..Len(s) /\ r = RemoveAt(s, p)
    BY <1>1, <1>2, <1>3
  <2>2. /\ IsSeq(r) /\ Len(r) = Len(s) - 1
        /\ \A j \in 1..(Len(s) - 1) : r[j] = IF j < p THEN s[j] ELSE s[j + 1]
    BY ONLY <2>1, RemoveAtIs
  <2> QED
    BY <1>3, <2>2
<1>6. IsSeq(v) /\ Len(v) = n - 1 /\ \A j \in 1..(n - 1) : v[j] = dict[u[j]]
  BY <1>1, <1>4, DressedIs
<1>7. ASSUME NEW j \in 1..(n - 1) PROVE r[j] = v[j]
  <2>1. j \in 1..n /\ j + 1 \in 1..n
    BY <1>2
  <2> QED
    BY <1>3, <1>4, <1>5, <1>6, <2>1
<1>8. \A j \in 1..Len(r) : r[j] = v[j]
  BY <1>5, <1>7
<1> QED
  BY <1>1, <1>5, <1>6, <1>8, SameSeq

\* Layers with the ids they are listed by.
LEMMA DressedNamed ==
  ASSUME NEW dict, Named(dict), NEW ids, IsSeq(ids), Distinct(ids), ToSet(ids) \subseteq DOMAIN dict,
         NEW s, s = Dressed(dict, ids)
  PROVE  /\ LayersShape(s) /\ DistinctIds(s) /\ IdsOf(s) = ids
         /\ \A p \in 1..Len(ids) : LayerAt(s, ids[p]) = p
         /\ \A id : LayerAt(s, id) = 0 <=> id \notin ToSet(ids)
<1>1. PICK n : n = Len(ids) /\ n \in Nat /\ DOMAIN ids = 1..n /\ IsObject(ids)
  BY SeqIs
<1>2. IsSeq(s) /\ Len(s) = n /\ DOMAIN s = 1..n /\ \A i \in 1..n : s[i] = dict[ids[i]]
  BY <1>1, DressedIs
<1>3. \A i \in 1..n : ids[i] \in DOMAIN dict
  BY <1>1 DEF ToSet
<1>4. \A i \in 1..n : LayerShape(s[i]) /\ s[i].id = ids[i]
  BY <1>2, <1>3 DEF Named
<1>5. LayersShape(s)
  <2>1. IsArray(s)
    BY <1>2, SeqIs DEF IsArray
  <2> QED
    BY <1>2, <1>4, <2>1 DEF LayersShape
<1>6. DistinctIds(s)
  BY <1>1, <1>2, <1>4 DEF DistinctIds, Distinct
<1>7. IdsOf(s) = ids
  BY <1>1, <1>2, <1>4 DEF IdsOf, IsObject
<1>8. ASSUME NEW p \in 1..n PROVE LayerAt(s, ids[p]) = p
  <2>1. LayerAt(s, s[p].id) = p
    BY <1>2, <1>6, LayerIsAt
  <2> QED
    BY <1>4, <2>1
<1>9. ASSUME NEW id PROVE LayerAt(s, id) = 0 <=> id \notin ToSet(ids)
  <2>1. LayerAt(s, id) = 0 <=> \A i \in 1..n : s[i].id # id
    BY <1>2, <1>6, LayerIsAt
  <2> QED
    BY <1>1, <1>4, <2>1 DEF ToSet
<1> QED
  BY <1>1, <1>5, <1>6, <1>7, <1>8, <1>9

\* The layers of a spec are those of its dictionary, in their order.
LEMMA DictIs ==
  ASSUME NEW layers, LayersShape(layers), DistinctIds(layers),
         NEW ids, ids = IdsOf(layers), NEW dict, dict = DictOf(layers)
  PROVE  /\ IsSeq(ids) /\ Distinct(ids) /\ Named(dict) /\ DOMAIN dict = ToSet(ids)
         /\ layers = Dressed(dict, ids)
         /\ \A id \in ToSet(ids) : dict[id] = LayerOf(layers, id)
         /\ \A i \in DOMAIN layers : layers[i].id \in ToSet(ids) /\ dict[layers[i].id] = layers[i]
<1>0. IsSeq(layers)
  BY DEF LayersShape, IsArray, IsSeq
<1>1. PICK n : n = Len(layers) /\ n \in Nat /\ DOMAIN layers = 1..n /\ IsObject(layers)
  BY <1>0, SeqIs
<1>2. DOMAIN ids = 1..n /\ IsObject(ids) /\ \A i \in 1..n : ids[i] = layers[i].id
  BY <1>1 DEF IdsOf, IsObject
<1>3. IsSeq(ids) /\ Len(ids) = n
  BY <1>1, <1>2, ArrayIs
<1>4. Distinct(ids)
  BY <1>1, <1>2 DEF Distinct, DistinctIds
<1>5. DOMAIN dict = ToSet(ids) /\ \A id \in ToSet(ids) : dict[id] = LayerOf(layers, id)
  BY DEF DictOf
<1>6. ASSUME NEW i \in 1..n PROVE ids[i] \in ToSet(ids) /\ dict[ids[i]] = layers[i]
  <2>1. LayerAt(layers, layers[i].id) = i
    BY <1>0, <1>1, LayerIsAt
  <2>2. ids[i] \in ToSet(ids)
    BY <1>2 DEF ToSet
  <2> QED
    BY <1>2, <1>5, <2>1, <2>2 DEF LayerOf
<1>7. Named(dict)
  <2>1. ASSUME NEW id \in ToSet(ids) PROVE LayerShape(dict[id]) /\ dict[id].id = id
    <3>1. PICK i \in 1..n : id = ids[i]
      BY <1>2 DEF ToSet
    <3> QED
      BY <1>1, <1>2, <1>6, <3>1 DEF LayersShape
  <2> QED
    BY <1>5, <2>1 DEF Named
<1>8. layers = Dressed(dict, ids)
  <2>1. PICK s : s = Dressed(dict, ids)
    OBVIOUS
  <2>2. IsSeq(s) /\ Len(s) = n /\ \A i \in 1..n : s[i] = dict[ids[i]]
    BY <1>3, <2>1, DressedIs
  <2>3. \A i \in 1..Len(s) : s[i] = layers[i]
    BY <1>6, <2>2
  <2> QED
    BY <1>0, <1>1, <2>1, <2>2, <2>3, SameSeq
<1> QED
  BY <1>1, <1>2, <1>3, <1>4, <1>5, <1>6, <1>7, <1>8

\* Dictionaries that agree on the ids of a list.
LEMMA DressedSame ==
  ASSUME NEW ids, IsSeq(ids), NEW D, NEW E, \A id \in ToSet(ids) : D[id] = E[id]
  PROVE  Dressed(D, ids) = Dressed(E, ids)
BY DEF Dressed, ToSet

LEMMA ValidDressed ==
  ASSUME NEW b, Frame(b), ValidateSpec(b), NEW S,
         NEW D, Named(D), NEW ids, IsSeq(ids), Distinct(ids), ToSet(ids) \subseteq DOMAIN D
  PROVE  ValidateSpec(Made(b, S, Dressed(D, ids))) <=> \A id \in ToSet(ids) : LayerFits(D[id], S, b)
<1>1. PICK s : s = Dressed(D, ids)
  OBVIOUS
<1>2. DistinctIds(s)
  BY <1>1, DressedNamed
<1>3. DOMAIN s = DOMAIN ids /\ \A i \in DOMAIN ids : s[i] = D[ids[i]]
  BY <1>1 DEF Dressed
<1>4. ValidateSpec(Made(b, S, s)) <=> \A i \in DOMAIN s : LayerFits(s[i], S, b)
  BY <1>2, ValidMade
<1>5. (\A i \in DOMAIN s : LayerFits(s[i], S, b)) <=> \A id \in ToSet(ids) : LayerFits(D[id], S, b)
  BY <1>3 DEF ToSet
<1> QED
  BY <1>1, <1>4, <1>5

(***************************************************************************)
(* The lists of commands a diff begins with.                               *)
(***************************************************************************)
LEMMA FirstGrows ==
  ASSUME NEW ids, IsSeq(ids), Distinct(ids), NEW j \in 1..Len(ids), NEW i, i = j - 1
  PROVE  /\ IsSeq(First(ids, i)) /\ First(ids, j) = Append(First(ids, i), ids[j])
         /\ ToSet(First(ids, j)) = ToSet(First(ids, i)) \cup {ids[j]}
         /\ ids[j] \notin ToSet(First(ids, i)) /\ ids[j] \in ToSet(ids)
         /\ ToSet(First(ids, j)) \subseteq ToSet(ids)
<1>1. i \in Nat /\ i + 1 = j /\ i + 1 <= Len(ids)
  BY SeqIs
<1>2. IsSeq(First(ids, i)) /\ First(ids, i + 1) = Append(First(ids, i), ids[i + 1])
  BY <1>1, FirstIs
<1>3. /\ ToSet(First(ids, i)) \subseteq ToSet(ids) /\ ids[i + 1] \in ToSet(ids)
      /\ ids[i + 1] \notin ToSet(First(ids, i))
  BY <1>1, FirstHolds
<1>4. PICK s, x : s = First(ids, i) /\ x = ids[j]
  OBVIOUS
<1>5. IsSeq(s) /\ First(ids, j) = Append(s, x)
  BY <1>1, <1>2, <1>4
<1>6. ToSet(Append(s, x)) = ToSet(s) \cup {x}
  BY <1>5, AppendHolds
<1> QED
  BY <1>1, <1>3, <1>4, <1>5, <1>6

LEMMA NoFirst ==
  ASSUME NEW ids, IsSeq(ids)
  PROVE  /\ First(ids, 0) = << >> /\ ToSet(First(ids, 0)) = {} /\ First(ids, Len(ids)) = ids
BY FirstOfAll, EmptyHolds

LEMMA ListOfCommands ==
  ASSUME NEW ids, IsSeq(ids), NEW cs, DOMAIN cs = DOMAIN ids, IsObject(cs)
  PROVE  IsSeq(cs) /\ Len(cs) = Len(ids) /\ DOMAIN ids = 1..Len(ids) /\ Len(ids) \in Nat
<1>1. PICK n : n = Len(ids) /\ n \in Nat /\ DOMAIN ids = 1..n
  BY SeqIs
<1>2. IsSeq(cs) /\ Len(cs) = n
  BY <1>1, ArrayIs
<1> QED
  BY <1>1, <1>2

\* Layers are removed.
LEMMA LayersRemoved ==
  ASSUME NEW b, Frame(b), ValidateSpec(b), NEW S, NEW D, Named(D),
         NEW I, IsSeq(I), Distinct(I), ToSet(I) \subseteq DOMAIN D,
         \A id \in ToSet(I) : LayerFits(D[id], S, b),
         NEW U, NEW ids, IsSeq(ids), Distinct(ids), ToSet(ids) \subseteq ToSet(I) \cap U, NEW e
  PROVE  Leads(Made(b, S, Dressed(D, Among(I, U))), RemoveLayers(ids), e) <=>
             e = Made(b, S, Dressed(D, Among(I, U \ ToSet(ids))))
<1>1. PICK n, cs, g : /\ n = Len(ids) /\ cs = RemoveLayers(ids)
                      /\ g = [i \in 0..n |-> Made(b, S, Dressed(D, Among(I, U \ ToSet(First(ids, i)))))]
  OBVIOUS
<1>2. IsSeq(cs) /\ Len(cs) = n /\ DOMAIN ids = 1..n /\ n \in Nat
  <2>1. DOMAIN cs = DOMAIN ids /\ IsObject(cs)
    BY <1>1 DEF RemoveLayers, IsObject
  <2> QED
    BY <1>1, <2>1, ListOfCommands
<1>3. \A i \in 0..n : g[i] = Made(b, S, Dressed(D, Among(I, U \ ToSet(First(ids, i)))))
  BY <1>1
<1>4. ASSUME NEW j \in 1..n PROVE Goes(g[j - 1], cs[j], g[j])
  <2>1. PICK i, x, c, V : i = j - 1 /\ x = ids[j] /\ c = cs[j] /\ V = U \ ToSet(First(ids, i))
    OBVIOUS
  <2>2. i \in 0..n /\ j \in 0..n
    BY <1>2, <2>1
  <2>3. x \in ToSet(I) \cap V /\ U \ ToSet(First(ids, j)) = V \ {x}
    BY <1>1, <2>1, FirstGrows
  <2>4. PICK p \in 1..Len(Among(I, V)) :
            Among(I, V)[p] = x /\ RemoveAt(Among(I, V), p) = Among(I, V \ {x})
    BY <2>3, AmongRemoved
  <2>5. PICK a : a = Among(I, V)
    OBVIOUS
  <2>6. IsSeq(a) /\ Distinct(a) /\ ToSet(a) \subseteq DOMAIN D
    BY <2>5, AmongIs
  <2>7. PICK s, d : s = Dressed(D, a) /\ d = Made(b, S, s)
    OBVIOUS
  <2>8. LayerAt(s, x) = p /\ RemoveAt(s, p) = Dressed(D, Among(I, V \ {x}))
    <3>1. p \in 1..Len(a) /\ a[p] = x /\ RemoveAt(a, p) = Among(I, V \ {x})
      BY <2>4, <2>5
    <3>2. LayerAt(s, a[p]) = p
      BY <2>6, <2>7, <3>1, DressedNamed
    <3>3. RemoveAt(s, p) = Dressed(D, RemoveAt(a, p))
      BY <2>6, <2>7, <3>1, DressedRemoved
    <3> QED
      BY <3>1, <3>2, <3>3
  <2>9. c.type = "removeLayer" /\ c.id = x
    <3>1. c = DiffCommand("removeLayer", [id |-> x])
      BY <1>1, <1>2, <2>1 DEF RemoveLayers
    <3> QED
      BY <3>1 DEF DiffCommand, Merge, Has
  <2>10. d.layers = s /\ InLayers(d, RemoveAt(s, p)) = Made(b, S, RemoveAt(s, p))
    <3>1. d.layers = s
      BY <2>7, MadeIs
    <3>2. PICK M : M = RemoveAt(s, p)
      OBVIOUS
    <3>3. InLayers(d, M) = Made(b, S, M)
      BY <2>7, MadeAgain
    <3> QED
      BY <3>1, <3>2, <3>3
  <2>11. p # 0 /\ p = LayerAt(d.layers, c.id)
    BY <2>4, <2>8, <2>9, <2>10
  <2>12. Goes(d, c, InLayers(d, RemoveAt(d.layers, p)))
    BY <2>9, <2>11, LayerGone
  <2>13. g[i] = d /\ g[j] = Made(b, S, RemoveAt(s, p))
    BY <1>3, <2>1, <2>2, <2>3, <2>5, <2>7, <2>8
  <2> QED
    BY <2>1, <2>10, <2>12, <2>13
<1>5. Through(cs, g)
  BY <1>2, <1>4 DEF Through
<1>6. AllValid(g, n)
  <2>1. ASSUME NEW j \in 1..n PROVE ValidateSpec(g[j])
    <3>1. PICK a : a = Among(I, U \ ToSet(First(ids, j)))
      OBVIOUS
    <3>2. IsSeq(a) /\ Distinct(a) /\ ToSet(a) \subseteq ToSet(I)
      BY <3>1, AmongIs
    <3>3. ValidateSpec(Made(b, S, Dressed(D, a)))
      BY <3>2, ValidDressed
    <3>4. j \in 0..n
      BY <1>2
    <3> QED
      BY <1>3, <3>1, <3>3, <3>4
  <2> QED
    BY <2>1 DEF AllValid
<1>7. g[0] = Made(b, S, Dressed(D, Among(I, U)))
  <2>1. 0 \in 0..n /\ U \ {} = U
    BY <1>2
  <2> QED
    BY <1>3, <2>1, NoFirst
<1>8. g[n] = Made(b, S, Dressed(D, Among(I, U \ ToSet(ids))))
  <2>1. n \in 0..n
    BY <1>2
  <2> QED
    BY <1>1, <1>3, <2>1, NoFirst
<1> QED
  BY <1>1, <1>2, <1>5, <1>6, <1>7, <1>8, ThroughLeads

\* Fewer sources fit no more layers.
LEMMA FitsMore ==
  ASSUME NEW l, NEW S, NEW T, \A n \in DOMAIN S : n \in DOMAIN T /\ T[n] = S[n],
         NEW b, LayerFits(l, S, b)
  PROVE  LayerFits(l, T, b)
BY DEF LayerFits, Has

LEMMA OnlyIs ==
  ASSUME NEW S, NEW N
  PROVE  /\ DOMAIN Only(S, N) = DOMAIN S \cap N /\ IsObject(Only(S, N))
         /\ \A n \in DOMAIN S \cap N : Only(S, N)[n] = S[n]
BY DEF Only, IsObject

LEMMA OnlyLess ==
  ASSUME NEW S, NEW N, NEW x \in DOMAIN S \cap N
  PROVE  Without(Only(S, N), x) = Only(S, N \ {x})
BY DEF Without, Only

LEMMA MergeIs ==
  ASSUME NEW S, NEW T
  PROVE  /\ DOMAIN Merge(T, S) = DOMAIN T \cup DOMAIN S /\ IsObject(Merge(T, S))
         /\ \A n \in DOMAIN T : Merge(T, S)[n] = T[n]
         /\ \A n \in DOMAIN S \ DOMAIN T : Merge(T, S)[n] = S[n]
BY DEF Merge, IsObject, Has

LEMMA MergeMore ==
  ASSUME NEW S, NEW T, NEW N, NEW x \in DOMAIN T
  PROVE  With(Merge(Only(T, N), S), x, T[x]) = Merge(Only(T, N \cup {x}), S)
<1>1. PICK u, v : u = With(Merge(Only(T, N), S), x, T[x]) /\ v = Merge(Only(T, N \cup {x}), S)
  OBVIOUS
<1>2. DOMAIN u = DOMAIN v /\ IsObject(u) /\ IsObject(v)
  BY <1>1 DEF With, Merge, Only, IsObject
<1>3. ASSUME NEW n \in DOMAIN v PROVE u[n] = v[n]
  BY <1>1, <1>3 DEF With, Merge, Only, Has
<1> QED
  BY <1>1, <1>2, <1>3 DEF IsObject

\* All the layers of a list fit.
AllFit(D, I, S, b) == \A id \in ToSet(I) : LayerFits(D[id], S, b)

\* Sources are removed: what is left must do for the layers.
LEMMA SourcesRemoved ==
  ASSUME NEW b, Frame(b), ValidateSpec(b), NEW S, NEW D, Named(D),
         NEW I, IsSeq(I), Distinct(I), ToSet(I) \subseteq DOMAIN D,
         NEW N, NEW ids, IsSeq(ids), Distinct(ids), ToSet(ids) \subseteq DOMAIN S \cap N,
         AllFit(D, I, Only(S, N), b), NEW e
  PROVE  Leads(Made(b, Only(S, N), Dressed(D, I)), RemoveSources(ids), e) <=>
             /\ e = Made(b, Only(S, N \ ToSet(ids)), Dressed(D, I))
             /\ AllFit(D, I, Only(S, N \ ToSet(ids)), b)
<1>1. PICK n, L, cs, g : /\ n = Len(ids) /\ cs = RemoveSources(ids) /\ L = Dressed(D, I)
                         /\ g = [i \in 0..n |-> Made(b, Only(S, N \ ToSet(First(ids, i))), L)]
  OBVIOUS
<1>2. IsSeq(cs) /\ Len(cs) = n /\ DOMAIN ids = 1..n /\ n \in Nat
  <2>1. DOMAIN cs = DOMAIN ids /\ IsObject(cs)
    BY <1>1 DEF RemoveSources, IsObject
  <2> QED
    BY <1>1, <2>1, ListOfCommands
<1>3. \A i \in 0..n : g[i] = Made(b, Only(S, N \ ToSet(First(ids, i))), L)
  BY <1>1
<1>4. ASSUME NEW j \in 1..n PROVE Goes(g[j - 1], cs[j], g[j])
  <2>1. PICK i, x, c, V : i = j - 1 /\ x = ids[j] /\ c = cs[j] /\ V = N \ ToSet(First(ids, i))
    OBVIOUS
  <2>2. i \in 0..n /\ j \in 0..n
    BY <1>2, <2>1
  <2>3. x \in DOMAIN S \cap V /\ N \ ToSet(First(ids, j)) = V \ {x}
    BY <1>1, <2>1, FirstGrows
  <2>4. c.type = "removeSource" /\ c.id = x
    <3>1. c = DiffCommand("removeSource", [id |-> x])
      BY <1>1, <1>2, <2>1 DEF RemoveSources
    <3> QED
      BY <3>1 DEF DiffCommand, Merge, Has
  <2>5. PICK s, d, t : s = Only(S, V) /\ d = Made(b, s, L) /\ t = Only(S, V \ {x})
    OBVIOUS
  <2>6. Has(s, x) /\ Without(s, x) = t
    BY <2>3, <2>5, OnlyIs, OnlyLess DEF Has
  <2>7. d.sources = s
    BY <2>5, MadeIs
  <2>8. InSources(d, t) = Made(b, t, L)
    BY <2>5, MadeAgain
  <2>9. Goes(d, c, InSources(d, t))
    BY <2>4, <2>6, <2>7, SourceRemoved
  <2>10. g[i] = d /\ g[j] = Made(b, t, L)
    BY <1>3, <2>1, <2>2, <2>3, <2>5
  <2> QED
    BY <2>1, <2>8, <2>9, <2>10
<1>5. Through(cs, g)
  BY <1>2, <1>4 DEF Through
<1>6. ASSUME NEW j \in 0..n
      PROVE ValidateSpec(g[j]) <=> AllFit(D, I, Only(S, N \ ToSet(First(ids, j))), b)
  BY <1>1, <1>3, ValidDressed DEF AllFit
<1>7. /\ g[0] = Made(b, Only(S, N), L) /\ First(ids, n) = ids /\ n \in 0..n /\ 0 \in 0..n
      /\ ToSet(First(ids, 0)) = {} /\ N \ {} = N
  BY <1>1, <1>2, <1>3, NoFirst
<1>8. g[n] = Made(b, Only(S, N \ ToSet(ids)), L)
  BY <1>3, <1>7
<1>9. AllValid(g, n) <=> AllFit(D, I, Only(S, N \ ToSet(ids)), b)
  <2>1. ASSUME AllValid(g, n) PROVE AllFit(D, I, Only(S, N \ ToSet(ids)), b)
    <3>1. CASE n = 0
      <4>1. ToSet(ids) = {}
        BY <1>7, <3>1
      <4> QED
        BY <1>7, <4>1
    <3>2. CASE n # 0
      <4>1. n \in 1..n
        BY <1>2, <3>2
      <4>2. ValidateSpec(g[n])
        BY <2>1, <4>1 DEF AllValid
      <4> QED
        BY <1>6, <1>7, <4>2
    <3> QED
      BY <3>1, <3>2
  <2>2. ASSUME AllFit(D, I, Only(S, N \ ToSet(ids)), b), NEW j \in 1..n PROVE ValidateSpec(g[j])
    <3>1. PICK s, t : s = Only(S, N \ ToSet(ids)) /\ t = Only(S, N \ ToSet(First(ids, j)))
      OBVIOUS
    <3>2. ToSet(First(ids, j)) \subseteq ToSet(ids)
      BY <1>1, FirstGrows
    <3>3. \A m \in DOMAIN s : m \in DOMAIN t /\ t[m] = s[m]
      BY <3>1, <3>2 DEF Only
    <3>4. AllFit(D, I, s, b) => AllFit(D, I, t, b)
      BY <3>3, FitsMore DEF AllFit
    <3>5. j \in 0..n
      BY <1>2
    <3> QED
      BY <1>6, <2>2, <3>1, <3>4, <3>5
  <2> QED
    BY <2>1, <2>2 DEF AllValid
<1> QED
  BY <1>1, <1>2, <1>5, <1>7, <1>8, <1>9, ThroughLeads

\* Sources are added, which no layer minds.
LEMMA SourcesAdded ==
  ASSUME NEW b, Frame(b), ValidateSpec(b), NEW S, NEW T, NEW D, Named(D),
         NEW I, IsSeq(I), Distinct(I), ToSet(I) \subseteq DOMAIN D,
         NEW N, NEW ids, IsSeq(ids), Distinct(ids), ToSet(ids) \subseteq DOMAIN T,
         ToSet(ids) \cap N = {}, ToSet(ids) \cap DOMAIN S = {},
         AllFit(D, I, Merge(Only(T, N), S), b), NEW e
  PROVE  Leads(Made(b, Merge(Only(T, N), S), Dressed(D, I)), AddSources(ids, T), e) <=>
             e = Made(b, Merge(Only(T, N \cup ToSet(ids)), S), Dressed(D, I))
<1> DEFINE Had(K) == Merge(Only(T, N \cup K), S)
<1>1. PICK n, L, cs, g : /\ n = Len(ids) /\ cs = AddSources(ids, T) /\ L = Dressed(D, I)
                         /\ g = [i \in 0..n |-> Made(b, Had(ToSet(First(ids, i))), L)]
  OBVIOUS
<1>2. IsSeq(cs) /\ Len(cs) = n /\ DOMAIN ids = 1..n /\ n \in Nat
  <2>1. DOMAIN cs = DOMAIN ids /\ IsObject(cs)
    BY <1>1 DEF AddSources, IsObject
  <2> QED
    BY <1>1, <2>1, ListOfCommands
<1>3. \A i \in 0..n : g[i] = Made(b, Had(ToSet(First(ids, i))), L)
  BY <1>1
<1>4. ASSUME NEW j \in 1..n PROVE Goes(g[j - 1], cs[j], g[j])
  <2>1. PICK i, x, c, K : i = j - 1 /\ x = ids[j] /\ c = cs[j] /\ K = ToSet(First(ids, i))
    OBVIOUS
  <2>2. i \in 0..n /\ j \in 0..n
    BY <1>2, <2>1
  <2>3. x \in ToSet(ids) /\ x \notin K /\ ToSet(First(ids, j)) = K \cup {x}
    BY <1>1, <2>1, FirstGrows
  <2>4. c.type = "addSource" /\ c.id = x /\ c.value = T[x]
    <3>1. PICK v : v = T[x]
      OBVIOUS
    <3>2. c = DiffCommand("addSource", [id |-> x, value |-> v])
      BY <1>1, <1>2, <2>1, <3>1 DEF AddSources
    <3>3. c.type = "addSource" /\ c.id = x /\ c.value = v
      BY ONLY <3>2 DEF DiffCommand, Merge, Has
    <3> QED
      BY <3>1, <3>3
  <2>5. PICK s, d, t : s = Had(K) /\ d = Made(b, s, L) /\ t = Had(K \cup {x})
    OBVIOUS
  <2>6. With(s, x, T[x]) = t
    <3>1. (N \cup K) \cup {x} = N \cup (K \cup {x}) /\ x \in DOMAIN T
      BY <2>3
    <3>2. With(Merge(Only(T, N \cup K), S), x, T[x]) = Merge(Only(T, (N \cup K) \cup {x}), S)
      BY <3>1, MergeMore
    <3> QED
      BY <2>5, <3>1, <3>2
  <2>7. ~Has(s, x)
    <3>1. x \notin N \cup K /\ x \notin DOMAIN S
      BY <2>3
    <3> QED
      BY <2>5, <3>1 DEF Has, Merge, Only
  <2> HIDE DEF Had
  <2>8. d.sources = s
    BY <2>5, MadeIs
  <2>9. InSources(d, t) = Made(b, t, L)
    BY <2>5, MadeAgain
  <2>10. Goes(d, c, InSources(d, t))
    BY <2>4, <2>6, <2>7, <2>8, SourceAdded
  <2>11. g[i] = d /\ g[j] = Made(b, t, L)
    BY <1>3, <2>1, <2>2, <2>3, <2>5
  <2> QED
    BY <2>1, <2>9, <2>10, <2>11
<1>5. Through(cs, g)
  BY <1>2, <1>4 DEF Through
<1>6. ASSUME NEW j \in 1..n PROVE ValidateSpec(g[j])
  <2>1. PICK K, s, t : K = ToSet(First(ids, j)) /\ s = Merge(Only(T, N), S) /\ t = Had(K)
    OBVIOUS
  <2>2. K \cap DOMAIN S = {}
    BY <1>1, <2>1, FirstGrows
  <2>3. \A m \in DOMAIN s : m \in DOMAIN t /\ t[m] = s[m]
    BY <2>1, <2>2 DEF Merge, Only, Has
  <2>4. AllFit(D, I, t, b)
    BY <2>1, <2>3, FitsMore DEF AllFit
  <2>5. ValidateSpec(Made(b, t, L))
    BY <1>1, <2>4, ValidDressed DEF AllFit
  <2>6. j \in 0..n
    BY <1>2
  <2> QED
    BY <1>3, <2>1, <2>5, <2>6
<1> HIDE DEF Had
<1>7. AllValid(g, n)
  BY <1>6 DEF AllValid
<1>8. g[0] = Made(b, Merge(Only(T, N), S), L)
  <2>1. 0 \in 0..n /\ ToSet(First(ids, 0)) = {} /\ N \cup {} = N
    BY <1>2, NoFirst
  <2> QED
    BY <1>3, <2>1 DEF Had
<1>9. g[n] = Made(b, Merge(Only(T, N \cup ToSet(ids)), S), L)
  <2>1. n \in 0..n /\ First(ids, n) = ids
    BY <1>1, <1>2, NoFirst
  <2> QED
    BY <1>3, <2>1 DEF Had
<1> QED
  BY <1>1, <1>2, <1>5, <1>7, <1>8, <1>9, ThroughLeads

\* Layers are added, which must be valid.
LEMMA LayersAdded ==
  ASSUME NEW b, Frame(b), ValidateSpec(b), NEW S, NEW D, Named(D),
         NEW I, IsSeq(I), Distinct(I), ToSet(I) \subseteq DOMAIN D, AllFit(D, I, S, b),
         NEW ids, IsSeq(ids), Distinct(ids), ToSet(ids) \subseteq DOMAIN D,
         ToSet(ids) \cap ToSet(I) = {},
         NEW layers, \A id \in ToSet(ids) : LayerOf(layers, id) = D[id], NEW e
  PROVE  Leads(Made(b, S, Dressed(D, I)), AddLayers(ids, layers), e) <=>
             e = Made(b, S, Dressed(D, I \o ids)) /\ AllFit(D, ids, S, b)
<1>1. PICK n, cs, g : /\ n = Len(ids) /\ cs = AddLayers(ids, layers)
                      /\ g = [i \in 0..n |-> Made(b, S, Dressed(D, I \o First(ids, i)))]
  OBVIOUS
<1>2. IsSeq(cs) /\ Len(cs) = n /\ DOMAIN ids = 1..n /\ n \in Nat
  <2>1. DOMAIN cs = DOMAIN ids /\ IsObject(cs)
    BY <1>1 DEF AddLayers, IsObject
  <2> QED
    BY <1>1, <2>1, ListOfCommands
<1>3. \A i \in 0..n : g[i] = Made(b, S, Dressed(D, I \o First(ids, i)))
  BY <1>1
<1>a. ASSUME NEW k, IsSeq(k), Distinct(k), ToSet(k) \subseteq ToSet(ids)
      PROVE  /\ IsSeq(I \o k) /\ Distinct(I \o k) /\ ToSet(I \o k) \subseteq DOMAIN D
             /\ ToSet(I \o k) = ToSet(I) \cup ToSet(k)
  <2>1. ToSet(I) \cap ToSet(k) = {} /\ ToSet(k) \subseteq DOMAIN D
    BY <1>a
  <2> QED
    BY <1>a, <2>1, ConcatHolds
<1>b. ASSUME NEW i \in 0..n PROVE IsSeq(First(ids, i)) /\ Distinct(First(ids, i))
                                  /\ ToSet(First(ids, i)) \subseteq ToSet(ids)
  <2>1. PICK f : f = First(ids, i)
    OBVIOUS
  <2>2. DOMAIN f = 1..i /\ IsObject(f) /\ i \in Nat /\ \A k \in 1..i : f[k] = ids[k] /\ k \in 1..n
    BY <1>2, <2>1 DEF First, IsObject
  <2>3. IsSeq(f)
    BY <2>2, ArrayIs
  <2>4. Distinct(f) /\ ToSet(f) \subseteq ToSet(ids)
    BY <1>2, <2>2 DEF Distinct, ToSet
  <2> QED
    BY <2>1, <2>3, <2>4
<1>4. ASSUME NEW j \in 1..n PROVE Goes(g[j - 1], cs[j], g[j])
  <2>1. PICK i, x, c, k : i = j - 1 /\ x = ids[j] /\ c = cs[j] /\ k = First(ids, i)
    OBVIOUS
  <2>2. i \in 0..n /\ j \in 0..n
    BY <1>2, <2>1
  <2>3. x \in ToSet(ids) /\ x \notin ToSet(k) /\ IsSeq(k) /\ First(ids, j) = Append(k, x)
    BY <1>1, <2>1, FirstGrows
  <2>4. c.type = "addLayer" /\ c.value = D[x] /\ c.before = Absent
    <3>1. PICK v, u : v = LayerOf(layers, x) /\ u = Absent
      OBVIOUS
    <3>2. c = DiffCommand("addLayer", [value |-> v, before |-> u])
      BY <1>1, <1>2, <2>1, <3>1 DEF AddLayers
    <3>3. c.type = "addLayer" /\ c.value = v /\ c.before = u
      BY ONLY <3>2 DEF DiffCommand, Merge, Has
    <3> QED
      BY <2>3, <3>1, <3>3
  <2>5. PICK r, s, d, t : r = I \o k /\ s = Dressed(D, r) /\ d = Made(b, S, s) /\ t = Append(s, D[x])
    OBVIOUS
  <2>6. IsSeq(r) /\ Distinct(r) /\ ToSet(r) \subseteq DOMAIN D /\ x \notin ToSet(r)
    BY <1>a, <1>b, <2>1, <2>2, <2>3, <2>5
  <2>7. IsSeq(s) /\ LayerAt(s, x) = 0 /\ D[x].id = x
    <3>1. IsSeq(s)
      BY <2>5, <2>6, DressedIs
    <3>2. LayerAt(s, x) = 0
      BY <2>5, <2>6, DressedNamed
    <3> QED
      BY <2>3, <3>1, <3>2 DEF Named
  <2>8. d.layers = s
    BY <2>5, MadeIs
  <2>9. InLayers(d, t) = Made(b, S, t)
    <3>1. d = Made(b, S, s) /\ Frame(b)
      BY <2>5
    <3> QED
      BY ONLY <3>1, MadeAgain
  <2>10. Goes(d, c, InLayers(d, t))
    BY <2>4, <2>5, <2>7, <2>8, LayerAdded
  <2>11. t = Dressed(D, I \o Append(k, x))
    <3>1. I \o Append(k, x) = Append(r, x)
      BY <2>3, <2>5, ConcatAppend
    <3> QED
      BY <2>5, <2>6, <3>1, DressedAppend
  <2>12. g[i] = d /\ g[j] = Made(b, S, t)
    BY <1>3, <2>1, <2>2, <2>3, <2>5, <2>11
  <2> QED
    BY <2>1, <2>9, <2>10, <2>12
<1>5. Through(cs, g)
  BY <1>2, <1>4 DEF Through
<1>6. ASSUME NEW j \in 0..n PROVE ValidateSpec(g[j]) <=> AllFit(D, First(ids, j), S, b)
  <2>1. PICK k, r : k = First(ids, j) /\ r = I \o k
    OBVIOUS
  <2>2. IsSeq(r) /\ Distinct(r) /\ ToSet(r) \subseteq DOMAIN D /\ ToSet(r) = ToSet(I) \cup ToSet(k)
    BY <1>a, <1>b, <2>1
  <2>3. ValidateSpec(Made(b, S, Dressed(D, r))) <=> \A id \in ToSet(r) : LayerFits(D[id], S, b)
    BY <2>2, ValidDressed
  <2>4. (\A id \in ToSet(r) : LayerFits(D[id], S, b)) <=> AllFit(D, k, S, b)
    BY <2>2 DEF AllFit
  <2> QED
    BY <1>3, <2>1, <2>3, <2>4
<1>7. /\ g[0] = Made(b, S, Dressed(D, I)) /\ g[n] = Made(b, S, Dressed(D, I \o ids))
      /\ First(ids, n) = ids /\ n \in 0..n
  <2>1. /\ 0 \in 0..n /\ n \in 0..n /\ First(ids, 0) = << >> /\ I \o << >> = I
        /\ First(ids, n) = ids
    BY <1>1, <1>2, NoFirst, NothingJoined
  <2> QED
    BY <1>3, <2>1
<1>9. AllValid(g, n) <=> AllFit(D, ids, S, b)
  <2>1. ASSUME AllValid(g, n) PROVE AllFit(D, ids, S, b)
    <3>1. CASE n = 0
      <4>1. First(ids, n) = << >>
        BY <3>1, NoFirst
      <4>2. ToSet(ids) = {}
        BY <1>7, <4>1, EmptyHolds
      <4> QED
        BY <4>2 DEF AllFit
    <3>2. CASE n # 0
      <4>1. n \in 1..n
        BY <1>2, <3>2
      <4>2. ValidateSpec(g[n])
        BY <2>1, <4>1 DEF AllValid
      <4> QED
        BY <1>6, <1>7, <4>2
    <3> QED
      BY <3>1, <3>2
  <2>2. ASSUME AllFit(D, ids, S, b), NEW j \in 1..n PROVE ValidateSpec(g[j])
    <3>1. j \in 0..n
      BY <1>2
    <3>2. AllFit(D, First(ids, j), S, b)
      BY <1>b, <2>2, <3>1 DEF AllFit
    <3> QED
      BY <1>6, <3>1, <3>2
  <2> QED
    BY <2>1, <2>2 DEF AllValid
<1> QED
  BY <1>1, <1>2, <1>5, <1>7, <1>9, ThroughLeads


(***************************************************************************)
(* From one spec to another: the layers and the sources.                   *)
(***************************************************************************)

\* Two specs between which diffSpecsTool is asked for the commands.
Settled(spec) == SpecShape(spec) /\ ValidateSpec(spec) /\ DiffShape(spec)

List(s, S) == IsSeq(s) /\ Distinct(s) /\ ToSet(s) = S

\* Layers as their ids, in order, and a dictionary.
Listed(layers, I, D) ==
    /\ I = IdsOf(layers) /\ List(I, DOMAIN D) /\ Named(D) /\ layers = Dressed(D, I)
    /\ \A id \in DOMAIN D : D[id] = LayerOf(layers, id)

\* Removed, modified and added layers.
LayerParts(I, D, J, E, R, M, N) ==
    /\ List(I, DOMAIN D) /\ Named(D) /\ List(J, DOMAIN E) /\ Named(E)
    /\ List(R, DOMAIN D \ DOMAIN E) /\ List(N, DOMAIN E \ DOMAIN D)
    /\ List(M, {id \in DOMAIN D \cap DOMAIN E : D[id] # E[id]})

SourceParts(S, T, r, m, n) ==
    /\ IsObject(S) /\ IsObject(T)
    /\ List(r, DOMAIN S \ DOMAIN T) /\ List(n, DOMAIN T \ DOMAIN S)
    /\ List(m, {id \in DOMAIN S \cap DOMAIN T : S[id] # T[id]})

\* The ids of the layers that stay as they are, in the old order.
Staying(I, R, M) == Among(I, (ToSet(I) \ ToSet(R)) \ ToSet(M))

LEMMA LayersListed ==
  ASSUME NEW b, Settled(b)
  PROVE  /\ Frame(b) /\ ValidateSpec(b) /\ IsObject(b.sources) /\ IsFiniteSet(DOMAIN b.sources)
         /\ Listed(b.layers, IdsOf(b.layers), DictOf(b.layers))
         /\ AllFit(DictOf(b.layers), IdsOf(b.layers), b.sources, b)
<1>1. PICK l, I, D : l = b.layers /\ I = IdsOf(l) /\ D = DictOf(l)
  OBVIOUS
<1>2. /\ Frame(b) /\ ValidateSpec(b) /\ IsObject(b.sources) /\ LayersShape(l)
      /\ IsFiniteSet(DOMAIN b.sources)
  BY <1>1 DEF Settled, SpecShape, DiffShape, Frame
<1>3. DistinctIds(l) /\ \A i \in DOMAIN l : LayerFits(l[i], b.sources, b)
  BY <1>1, <1>2, ValidIs
<1>4. /\ IsSeq(I) /\ Distinct(I) /\ Named(D) /\ DOMAIN D = ToSet(I)
      /\ l = Dressed(D, I) /\ \A id \in ToSet(I) : D[id] = LayerOf(l, id)
      /\ \A i \in DOMAIN l : l[i].id \in ToSet(I) /\ D[l[i].id] = l[i]
  BY <1>1, <1>2, <1>3, DictIs
<1>5. ASSUME NEW id \in ToSet(I) PROVE LayerFits(D[id], b.sources, b)
  <2>1. PICK i \in DOMAIN l : id = l[i].id
    BY <1>1 DEF IdsOf, ToSet
  <2> QED
    BY <1>3, <1>4, <2>1
<1>6. Listed(l, I, D) /\ AllFit(D, I, b.sources, b)
  BY <1>1, <1>4, <1>5 DEF Listed, List, AllFit
<1> QED
  BY <1>1, <1>2, <1>6

LEMMA LayerPartsAre ==
  ASSUME NEW L, NEW I, NEW D, Listed(L, I, D), NEW M, NEW J, NEW E, Listed(M, J, E),
         NEW l, l = DiffLayers(L, M)
  PROVE  LayerParts(I, D, J, E, l.removed, l.modified, l.added)
<1>1. PICK U, V : U = DOMAIN D /\ V = DOMAIN E
  OBVIOUS
<1>2. /\ I = IdsOf(L) /\ IsSeq(I) /\ Distinct(I) /\ ToSet(I) = U /\ Named(D)
      /\ J = IdsOf(M) /\ IsSeq(J) /\ Distinct(J) /\ ToSet(J) = V /\ Named(E)
      /\ \A id \in U : D[id] = LayerOf(L, id)
      /\ \A id \in V : E[id] = LayerOf(M, id)
  BY <1>1 DEF Listed, List
<1>3. {id \in ToSet(IdsOf(L)) \cap ToSet(IdsOf(M)) : LayerOf(L, id) # LayerOf(M, id)}
        = {id \in U \cap V : D[id] # E[id]}
  BY <1>2
<1>4. PICK W : W = {id \in U \cap V : D[id] # E[id]}
  OBVIOUS
<1>5. l.removed = Among(I, U \ V) /\ l.modified = Among(I, W) /\ l.added = Among(J, V \ U)
  BY <1>2, <1>3, <1>4 DEF DiffLayers
<1>6. List(Among(I, U \ V), U \ V) /\ List(Among(I, W), W) /\ List(Among(J, V \ U), V \ U)
  <2>1. U \cap (U \ V) = U \ V /\ U \cap W = W /\ V \cap (V \ U) = V \ U
    BY <1>4
  <2>2. \A X : IsSeq(Among(I, X)) /\ Distinct(Among(I, X)) /\ ToSet(Among(I, X)) = U \cap X
    BY <1>2, AmongIs
  <2>3. \A X : IsSeq(Among(J, X)) /\ Distinct(Among(J, X)) /\ ToSet(Among(J, X)) = V \cap X
    BY <1>2, AmongIs
  <2> QED
    BY <2>1, <2>2, <2>3 DEF List
<1> QED
  BY <1>1, <1>2, <1>4, <1>5, <1>6 DEF LayerParts, List

LEMMA SourcePartsAre ==
  ASSUME NEW S, IsObject(S), IsFiniteSet(DOMAIN S), NEW T, IsObject(T), IsFiniteSet(DOMAIN T),
         NEW s, s = DiffSources(S, T)
  PROVE  SourceParts(S, T, s.removed, s.modified, s.added)
<1>1. PICK X, Y, Z : /\ X = DOMAIN T \ DOMAIN S /\ Y = DOMAIN S \ DOMAIN T
                     /\ Z = {id \in DOMAIN S \cap DOMAIN T : S[id] # T[id]}
  OBVIOUS
<1>2. IsFiniteSet(X) /\ IsFiniteSet(Y) /\ IsFiniteSet(Z)
  <2>1. X \subseteq DOMAIN T /\ Y \subseteq DOMAIN S /\ Z \subseteq DOMAIN S
    BY <1>1
  <2> QED
    BY <2>1, FS_Subset
<1>3. List(SetToSeq(X), X) /\ List(SetToSeq(Y), Y) /\ List(SetToSeq(Z), Z)
  BY <1>2, ListedIs DEF List
<1>4. s.added = SetToSeq(X) /\ s.removed = SetToSeq(Y) /\ s.modified = SetToSeq(Z)
  BY <1>1 DEF DiffSources
<1> QED
  BY <1>1, <1>3, <1>4 DEF SourceParts

\* The lists of commands are lists.
LEMMA CommandLists ==
  ASSUME NEW ids, IsSeq(ids), NEW X
  PROVE  /\ IsSeq(RemoveLayers(ids)) /\ IsSeq(RemoveSources(ids))
         /\ IsSeq(AddSources(ids, X)) /\ IsSeq(AddLayers(ids, X))
<1>1. ASSUME NEW cs, DOMAIN cs = DOMAIN ids, IsObject(cs) PROVE IsSeq(cs)
  BY <1>1, ListOfCommands
<1>2. IsSeq(RemoveLayers(ids))
  BY <1>1 DEF RemoveLayers, IsObject
<1>3. IsSeq(RemoveSources(ids))
  BY <1>1 DEF RemoveSources, IsObject
<1>4. IsSeq(AddSources(ids, X))
  BY <1>1 DEF AddSources, IsObject
<1>5. IsSeq(AddLayers(ids, X))
  BY <1>1 DEF AddLayers, IsObject
<1> QED
  BY <1>2, <1>3, <1>4, <1>5


\* The layers and sources that stand between two specs.
Between(b, a, I, D, J, E, R, M, N, T, r, m, n) ==
    /\ Frame(b) /\ ValidateSpec(b) /\ b.layers = Dressed(D, I)
    /\ AllFit(D, I, b.sources, b) /\ AllFit(E, J, T, a)
    /\ LayerParts(I, D, J, E, R, M, N) /\ SourceParts(b.sources, T, r, m, n)

LEMMA KeptIs ==
  ASSUME NEW I, NEW D, NEW J, NEW E, NEW R, NEW M, NEW N, LayerParts(I, D, J, E, R, M, N),
         NEW K, K = Staying(I, R, M)
  PROVE  /\ IsSeq(K) /\ Distinct(K) /\ ToSet(K) = {id \in DOMAIN D \cap DOMAIN E : D[id] = E[id]}
         /\ IsSeq(I) /\ Distinct(I) /\ ToSet(I) = DOMAIN D /\ ToSet(J) = DOMAIN E
         /\ \A id \in ToSet(K) : D[id] = E[id]
<1>1. /\ IsSeq(I) /\ Distinct(I) /\ ToSet(I) = DOMAIN D /\ ToSet(J) = DOMAIN E
      /\ ToSet(R) = DOMAIN D \ DOMAIN E
      /\ ToSet(M) = {id \in DOMAIN D \cap DOMAIN E : D[id] # E[id]}
  BY DEF LayerParts, List
<1>2. PICK U : U = (ToSet(I) \ ToSet(R)) \ ToSet(M)
  OBVIOUS
<1>3. U = {id \in DOMAIN D \cap DOMAIN E : D[id] = E[id]} /\ ToSet(I) \cap U = U
  BY <1>1, <1>2
<1>4. IsSeq(K) /\ Distinct(K) /\ ToSet(K) = U
  BY <1>1, <1>2, <1>3, AmongIs DEF Staying
<1> QED
  BY <1>1, <1>3, <1>4

\* All that commands can lead to, and if some layers fit.
Reach(d, cs, e) == \A f : Leads(d, cs, f) <=> f = e
ReachIf(d, cs, e, D, K, P, b) == \A f : Leads(d, cs, f) <=> f = e /\ AllFit(D, K, P, b)

\* The layers that go or change are removed, and nothing is in the way.
LEMMA LayersTorn ==
  ASSUME NEW b, NEW a, NEW I, NEW D, NEW J, NEW E, NEW R, NEW M, NEW N, NEW T, NEW r, NEW m, NEW n,
         Between(b, a, I, D, J, E, R, M, N, T, r, m, n), NEW K, K = Staying(I, R, M),
         NEW cs, cs = RemoveLayers(R) \o RemoveLayers(M)
  PROVE  Reach(b, cs, Made(b, b.sources, Dressed(D, K)))
<1>1. PICK S, U, V, X : /\ S = b.sources /\ U = ToSet(I) /\ V = U \ ToSet(R)
                        /\ X = Made(b, S, Dressed(D, Among(I, V)))
  OBVIOUS
<1>2. /\ Frame(b) /\ ValidateSpec(b) /\ b.layers = Dressed(D, I) /\ Named(D)
      /\ IsSeq(I) /\ Distinct(I) /\ ToSet(I) \subseteq DOMAIN D
      /\ \A id \in ToSet(I) : LayerFits(D[id], S, b)
      /\ IsSeq(R) /\ Distinct(R) /\ ToSet(R) \subseteq ToSet(I) \cap U
      /\ IsSeq(M) /\ Distinct(M) /\ ToSet(M) \subseteq ToSet(I) \cap V
  BY <1>1 DEF Between, LayerParts, List, AllFit
<1>3. b = Made(b, S, Dressed(D, Among(I, U)))
  <2>1. Among(I, U) = I
    BY <1>1, <1>2, AmongAll
  <2>2. Made(b, b.sources, b.layers) = b
    BY <1>2 DEF Made, InLayers, InSources, Frame, IsObject
  <2> QED
    BY <1>1, <1>2, <2>1, <2>2
<1>4. \A f : Leads(b, RemoveLayers(R), f) <=> f = X
  BY <1>1, <1>2, <1>3, LayersRemoved
<1>5. \A f : Leads(X, RemoveLayers(M), f) <=> f = Made(b, S, Dressed(D, Among(I, V \ ToSet(M))))
  BY <1>1, <1>2, LayersRemoved
<1>6. Among(I, V \ ToSet(M)) = K
  BY <1>1 DEF Staying
<1>7. IsSeq(RemoveLayers(R)) /\ IsSeq(RemoveLayers(M))
  BY <1>2, CommandLists
<1>8. \A f : Leads(b, cs, f) <=> Leads(b, RemoveLayers(R), X) /\ Leads(X, RemoveLayers(M), f)
  BY <1>4, <1>7, LeadsVia
<1> QED
  BY <1>1, <1>4, <1>5, <1>6, <1>8 DEF Reach

\* The sources that go or change are removed: those that change must not be those
\* of a layer that stays.
LEMMA SourcesTorn ==
  ASSUME NEW b, NEW a, NEW I, NEW D, NEW J, NEW E, NEW R, NEW M, NEW N, NEW T, NEW r, NEW m, NEW n,
         Between(b, a, I, D, J, E, R, M, N, T, r, m, n), NEW K, K = Staying(I, R, M),
         NEW cs, IsSeq(cs), NEW d, NEW S, S = b.sources,
         Reach(d, cs, Made(b, S, Dressed(D, K))),
         NEW P, P = Only(S, (DOMAIN S \cap DOMAIN T) \ ToSet(m)),
         NEW ds, ds = cs \o RemoveSources(r) \o RemoveSources(m)
  PROVE  ReachIf(d, ds, Made(b, P, Dressed(D, K)), D, K, P, b)
<1>1. PICK L, U, V, X : /\ L = Dressed(D, K) /\ U = DOMAIN S /\ V = U \ ToSet(r)
                        /\ X = Made(b, Only(S, V), L)
  OBVIOUS
<1>2. /\ Frame(b) /\ ValidateSpec(b) /\ Named(D) /\ IsObject(S)
      /\ IsSeq(r) /\ Distinct(r) /\ ToSet(r) = U \ DOMAIN T /\ IsSeq(m) /\ Distinct(m)
      /\ ToSet(m) \subseteq DOMAIN S \cap V
  BY <1>1 DEF Between, SourceParts, LayerParts, List
<1>3. IsSeq(K) /\ Distinct(K) /\ ToSet(K) \subseteq DOMAIN D /\ ToSet(K) \subseteq ToSet(I)
      /\ ToSet(K) \subseteq DOMAIN E /\ DOMAIN E = ToSet(J) /\ \A id \in ToSet(K) : D[id] = E[id]
  <2>1. LayerParts(I, D, J, E, R, M, N)
    BY DEF Between
  <2> QED
    BY <2>1, KeptIs
<1>4. Only(S, U) = S /\ V = DOMAIN S \cap DOMAIN T
  <2>1. \A s : IsObject(s) => Only(s, DOMAIN s) = s
    BY DEF Only, IsObject
  <2> QED
    BY <1>1, <1>2, <2>1
<1>5. AllFit(D, K, Only(S, U), b)
  BY <1>3, <1>4 DEF Between, AllFit
<1>6. AllFit(D, K, Only(S, V), b)
  <2>1. ASSUME NEW id \in ToSet(K) PROVE LayerFits(D[id], Only(S, V), b)
    <3>1. LayerFits(D[id], S, b) /\ LayerFits(D[id], T, a)
      BY <1>3 DEF Between, AllFit
    <3>2. \A y \in V : y \in DOMAIN Only(S, V) /\ Only(S, V)[y] = S[y]
      BY <1>4 DEF Only
    <3> QED
      BY <1>4, <3>1, <3>2 DEF LayerFits, Has
  <2> QED
    BY <2>1 DEF AllFit
<1>7. \A f : Leads(Made(b, S, L), RemoveSources(r), f) <=> f = X
  <2>1. ToSet(r) \subseteq DOMAIN S \cap U
    BY <1>1, <1>2
  <2>2. \A f : Leads(Made(b, Only(S, U), L), RemoveSources(r), f) <=>
                   f = Made(b, Only(S, U \ ToSet(r)), L) /\ AllFit(D, K, Only(S, U \ ToSet(r)), b)
    BY <1>1, <1>2, <1>3, <1>5, <2>1, SourcesRemoved
  <2> QED
    BY <1>1, <1>4, <1>6, <2>2
<1>8. \A f : Leads(X, RemoveSources(m), f) <=>
                 f = Made(b, Only(S, V \ ToSet(m)), L) /\ AllFit(D, K, Only(S, V \ ToSet(m)), b)
  BY <1>1, <1>2, <1>3, <1>6, SourcesRemoved
<1>9. Only(S, V \ ToSet(m)) = P
  BY <1>4
<1>10. IsSeq(RemoveSources(r)) /\ IsSeq(RemoveSources(m)) /\ IsSeq(cs \o RemoveSources(r))
  <2>1. IsSeq(RemoveSources(r)) /\ IsSeq(RemoveSources(m))
    BY <1>2, CommandLists
  <2> QED
    BY <2>1, ConcatHolds
<1>11. PICK Y : Y = Made(b, S, L)
  OBVIOUS
<1>12. \A f : Leads(d, cs, f) <=> f = Y
  BY <1>1, <1>11 DEF Reach
<1>13. \A f : Leads(d, cs \o RemoveSources(r), f) <=> f = X
  <2>1. \A f : Leads(d, cs \o RemoveSources(r), f) <=> Leads(d, cs, Y) /\ Leads(Y, RemoveSources(r), f)
    BY <1>10, <1>12, LeadsVia
  <2> QED
    BY <1>7, <1>11, <1>12, <2>1
<1>14. \A f : Leads(d, ds, f) <=>
                  Leads(d, cs \o RemoveSources(r), X) /\ Leads(X, RemoveSources(m), f)
  BY <1>10, <1>13, LeadsVia
<1> QED
  BY <1>1, <1>8, <1>9, <1>13, <1>14 DEF ReachIf


\* The new and the changed sources are added, and nothing is in the way.
LEMMA SourcesRebuilt ==
  ASSUME NEW b, NEW a, NEW I, NEW D, NEW J, NEW E, NEW R, NEW M, NEW N, NEW T, NEW r, NEW m, NEW n,
         Between(b, a, I, D, J, E, R, M, N, T, r, m, n), NEW K, K = Staying(I, R, M),
         NEW P, P = Only(b.sources, (DOMAIN b.sources \cap DOMAIN T) \ ToSet(m)),
         NEW cs, IsSeq(cs), NEW d,
         ReachIf(d, cs, Made(b, P, Dressed(D, K)), D, K, P, b),
         NEW ds, ds = cs \o AddSources(n, T) \o AddSources(m, T)
  PROVE  ReachIf(d, ds, Made(b, T, Dressed(D, K)), D, K, P, b)
<1>1. PICK S, L, Q, X, Y : /\ S = b.sources /\ L = Dressed(D, K) /\ X = Made(b, P, L)
                           /\ Q = Merge(Only(T, ToSet(n)), P) /\ Y = Made(b, Q, L)
  OBVIOUS
<1>2. /\ Frame(b) /\ ValidateSpec(b) /\ Named(D) /\ IsObject(S) /\ IsObject(T)
      /\ IsSeq(n) /\ Distinct(n) /\ ToSet(n) = DOMAIN T \ DOMAIN S /\ IsSeq(m) /\ Distinct(m)
      /\ ToSet(m) = {id \in DOMAIN S \cap DOMAIN T : S[id] # T[id]}
  BY <1>1 DEF Between, SourceParts, LayerParts, List
<1>3. IsSeq(K) /\ Distinct(K) /\ ToSet(K) \subseteq DOMAIN D
  <2>1. LayerParts(I, D, J, E, R, M, N)
    BY DEF Between
  <2> QED
    BY <2>1, KeptIs
<1>4. /\ DOMAIN P = (DOMAIN S \cap DOMAIN T) \ ToSet(m) /\ IsObject(P)
      /\ \A y \in DOMAIN P : P[y] = S[y] /\ P[y] = T[y] /\ y \in DOMAIN T
  BY <1>1, <1>2 DEF Only, IsObject
<1>5. Merge(Only(T, {}), P) = P
  BY <1>4 DEF Only, Merge, Has, IsObject
<1>6. Merge(Only(T, ToSet(n) \cup ToSet(m)), P) = T
  <2>1. PICK Z : Z = Merge(Only(T, ToSet(n) \cup ToSet(m)), P)
    OBVIOUS
  <2>2. /\ IsObject(Z) /\ DOMAIN Z = (DOMAIN T \cap (ToSet(n) \cup ToSet(m))) \cup DOMAIN P
        /\ \A y \in DOMAIN T \cap (ToSet(n) \cup ToSet(m)) : Z[y] = T[y]
        /\ \A y \in DOMAIN P \ (DOMAIN T \cap (ToSet(n) \cup ToSet(m))) : Z[y] = P[y]
    BY <2>1 DEF Merge, Only, Has, IsObject
  <2>3. DOMAIN Z = DOMAIN T /\ \A y \in DOMAIN T : Z[y] = T[y]
    BY <1>2, <1>4, <2>2
  <2> QED
    BY <1>2, <2>1, <2>2, <2>3 DEF IsObject
<1>7. ASSUME AllFit(D, K, P, b) PROVE AllFit(D, K, Q, b)
  <2>1. \A y \in DOMAIN P : y \in DOMAIN Q /\ Q[y] = P[y]
    <3>1. \A y \in DOMAIN P : y \notin ToSet(n)
      BY <1>2, <1>4
    <3> QED
      BY <1>1, <3>1 DEF Merge, Only, Has
  <2> QED
    BY <1>7, <2>1, FitsMore DEF AllFit
<1>a. ASSUME NEW A, NEW ids, IsSeq(ids), Distinct(ids), ToSet(ids) \subseteq DOMAIN T,
             ToSet(ids) \cap A = {}, ToSet(ids) \cap DOMAIN P = {},
             AllFit(D, K, Merge(Only(T, A), P), b)
      PROVE  \A f : Leads(Made(b, Merge(Only(T, A), P), L), AddSources(ids, T), f) <=>
                        f = Made(b, Merge(Only(T, A \cup ToSet(ids)), P), L)
  <2>1. TAKE f
  <2>2. /\ Frame(b) /\ ValidateSpec(b) /\ Named(D) /\ L = Dressed(D, K)
        /\ IsSeq(K) /\ Distinct(K) /\ ToSet(K) \subseteq DOMAIN D
    BY <1>1, <1>2, <1>3
  <2> QED
    BY ONLY <1>a, <2>2, SourcesAdded
<1>8. ASSUME AllFit(D, K, P, b)
      PROVE  /\ \A f : Leads(X, AddSources(n, T), f) <=> f = Y
             /\ \A f : Leads(Y, AddSources(m, T), f) <=> f = Made(b, T, L)
  <2>1. \A f : Leads(Made(b, Merge(Only(T, {}), P), L), AddSources(n, T), f) <=>
                 f = Made(b, Merge(Only(T, {} \cup ToSet(n)), P), L)
    <3>1. /\ AllFit(D, K, Merge(Only(T, {}), P), b) /\ ToSet(n) \subseteq DOMAIN T
          /\ ToSet(n) \cap {} = {} /\ ToSet(n) \cap DOMAIN P = {}
      BY <1>2, <1>4, <1>5, <1>8
    <3> QED
      BY <1>a, <1>2, <3>1
  <2>2. \A f : Leads(Made(b, Q, L), AddSources(m, T), f) <=>
                 f = Made(b, Merge(Only(T, ToSet(n) \cup ToSet(m)), P), L)
    <3>1. /\ AllFit(D, K, Merge(Only(T, ToSet(n)), P), b) /\ ToSet(m) \subseteq DOMAIN T
          /\ ToSet(m) \cap ToSet(n) = {} /\ ToSet(m) \cap DOMAIN P = {}
      BY <1>1, <1>2, <1>4, <1>7, <1>8
    <3> QED
      BY <1>a, <1>1, <1>2, <3>1
  <2>3. {} \cup ToSet(n) = ToSet(n)
    OBVIOUS
  <2> QED
    BY <1>1, <1>5, <1>6, <2>1, <2>2, <2>3
<1>9. IsSeq(AddSources(n, T)) /\ IsSeq(AddSources(m, T)) /\ IsSeq(cs \o AddSources(n, T))
  <2>1. IsSeq(AddSources(n, T)) /\ IsSeq(AddSources(m, T))
    BY <1>2, CommandLists
  <2> QED
    BY <2>1, ConcatHolds
<1>10. \A f : Leads(d, cs, f) <=> f = X /\ AllFit(D, K, P, b)
  BY <1>1 DEF ReachIf
<1>11. \A f : Leads(d, cs \o AddSources(n, T), f) <=> f = Y /\ AllFit(D, K, P, b)
  <2>1. \A f : Leads(d, cs \o AddSources(n, T), f) <=> Leads(d, cs, X) /\ Leads(X, AddSources(n, T), f)
    BY <1>9, <1>10, LeadsVia
  <2> QED
    BY <1>8, <1>10, <2>1
<1>12. \A f : Leads(d, ds, f) <=> Leads(d, cs \o AddSources(n, T), Y) /\ Leads(Y, AddSources(m, T), f)
  BY <1>9, <1>11, LeadsVia
<1> QED
  BY <1>1, <1>8, <1>11, <1>12 DEF ReachIf

ReachWhole(d, ds, b, T, D, E, K, N, M, P) ==
    \A f : Leads(d, ds, f) <=> /\ f = Made(b, T, Dressed(E, K \o N \o M))
                               /\ AllFit(D, K, P, b) /\ AllFit(E, N \o M, T, b)

\* The new and the changed layers are added, as far as the old view allows them.
LEMMA LayersRebuilt ==
  ASSUME NEW b, NEW a, NEW I, NEW D, NEW J, NEW E, NEW R, NEW M, NEW N, NEW T, NEW r, NEW m, NEW n,
         Between(b, a, I, D, J, E, R, M, N, T, r, m, n), NEW K, K = Staying(I, R, M),
         NEW P, P = Only(b.sources, (DOMAIN b.sources \cap DOMAIN T) \ ToSet(m)),
         NEW cs, IsSeq(cs), NEW d,
         ReachIf(d, cs, Made(b, T, Dressed(D, K)), D, K, P, b),
         NEW layers, Listed(layers, J, E),
         NEW ds, ds = cs \o AddLayers(N, layers) \o AddLayers(M, layers)
  PROVE  ReachWhole(d, ds, b, T, D, E, K, N, M, P)
<1>1. PICK S, X, Y : /\ S = b.sources /\ X = Made(b, T, Dressed(E, K))
                     /\ Y = Made(b, T, Dressed(E, K \o N))
  OBVIOUS
<1>2. /\ Frame(b) /\ ValidateSpec(b) /\ Named(E) /\ IsObject(S) /\ IsObject(T)
      /\ IsSeq(M) /\ Distinct(M) /\ ToSet(M) = {id \in DOMAIN D \cap DOMAIN E : D[id] # E[id]}
      /\ IsSeq(N) /\ Distinct(N) /\ ToSet(N) = DOMAIN E \ DOMAIN D
      /\ ToSet(m) = {id \in DOMAIN S \cap DOMAIN T : S[id] # T[id]}
      /\ \A id \in DOMAIN E : E[id] = LayerOf(layers, id)
  BY <1>1 DEF Between, SourceParts, LayerParts, List, Listed
<1>3. /\ IsSeq(K) /\ Distinct(K) /\ ToSet(K) = {id \in DOMAIN D \cap DOMAIN E : D[id] = E[id]}
      /\ \A id \in ToSet(K) : D[id] = E[id]
  <2>1. LayerParts(I, D, J, E, R, M, N)
    BY DEF Between
  <2> QED
    BY <2>1, KeptIs
<1>4. Dressed(D, K) = Dressed(E, K)
  BY <1>3, DressedSame
<1>5. ASSUME AllFit(D, K, P, b) PROVE AllFit(E, K, T, b)
  <2>1. \A y \in DOMAIN P : y \in DOMAIN T /\ T[y] = P[y]
    BY <1>1, <1>2 DEF Only
  <2>2. ASSUME NEW id \in ToSet(K) PROVE LayerFits(E[id], T, b)
    <3>1. PICK l : l = E[id]
      OBVIOUS
    <3>2. LayerFits(l, P, b)
      BY <1>3, <1>5, <3>1 DEF AllFit
    <3>3. LayerFits(l, T, b)
      BY ONLY <2>1, <3>2, FitsMore
    <3> QED
      BY <3>1, <3>3
  <2> QED
    BY <2>2 DEF AllFit
<1>6. /\ IsSeq(K \o N) /\ Distinct(K \o N) /\ ToSet(K \o N) = ToSet(K) \cup ToSet(N)
      /\ IsSeq(N \o M) /\ ToSet(N \o M) = ToSet(N) \cup ToSet(M)
  <2>1. ToSet(K) \cap ToSet(N) = {}
    BY <1>2, <1>3
  <2> QED
    BY <1>2, <1>3, <2>1, ConcatHolds
<1>7. AllFit(E, N \o M, T, b) <=> AllFit(E, N, T, b) /\ AllFit(E, M, T, b)
  BY <1>6 DEF AllFit
<1>8. ASSUME AllFit(D, K, P, b)
      PROVE  \A f : Leads(X, AddLayers(N, layers), f) <=> f = Y /\ AllFit(E, N, T, b)
  <2>1. /\ ToSet(K) \subseteq DOMAIN E /\ ToSet(N) \subseteq DOMAIN E /\ ToSet(N) \cap ToSet(K) = {}
        /\ AllFit(E, K, T, b) /\ \A id \in ToSet(N) : LayerOf(layers, id) = E[id]
    BY <1>2, <1>3, <1>5, <1>8
  <2> QED
    BY <1>1, <1>2, <1>3, <2>1, LayersAdded
<1>9. ASSUME AllFit(D, K, P, b), AllFit(E, N, T, b)
      PROVE  \A f : Leads(Y, AddLayers(M, layers), f) <=>
                        f = Made(b, T, Dressed(E, (K \o N) \o M)) /\ AllFit(E, M, T, b)
  <2>1. /\ ToSet(K \o N) \subseteq DOMAIN E /\ ToSet(M) \subseteq DOMAIN E
        /\ ToSet(M) \cap ToSet(K \o N) = {}
        /\ AllFit(E, K \o N, T, b) /\ \A id \in ToSet(M) : LayerOf(layers, id) = E[id]
    BY <1>2, <1>3, <1>5, <1>6, <1>9 DEF AllFit
  <2> QED
    BY <1>1, <1>2, <1>6, <2>1, LayersAdded
<1>10. /\ IsSeq(AddLayers(N, layers)) /\ IsSeq(AddLayers(M, layers))
       /\ IsSeq(cs \o AddLayers(N, layers))
  <2>1. IsSeq(AddLayers(N, layers)) /\ IsSeq(AddLayers(M, layers))
    BY <1>2, CommandLists
  <2> QED
    BY <2>1, ConcatHolds
<1>11. \A f : Leads(d, cs, f) <=> f = X /\ AllFit(D, K, P, b)
  BY <1>1, <1>4 DEF ReachIf
<1>12. \A f : Leads(d, cs \o AddLayers(N, layers), f) <=>
                  f = Y /\ AllFit(D, K, P, b) /\ AllFit(E, N, T, b)
  <2>1. \A f : Leads(d, cs \o AddLayers(N, layers), f) <=>
                   Leads(d, cs, X) /\ Leads(X, AddLayers(N, layers), f)
    BY <1>10, <1>11, LeadsVia
  <2> QED
    BY <1>8, <1>11, <2>1
<1>13. \A f : Leads(d, ds, f) <=>
                  Leads(d, cs \o AddLayers(N, layers), Y) /\ Leads(Y, AddLayers(M, layers), f)
  BY <1>10, <1>12, LeadsVia
<1> QED
  BY <1>7, <1>9, <1>12, <1>13 DEF ReachWhole


LEMMA BetweenIs ==
  ASSUME NEW b, Settled(b), NEW a, Settled(a),
         NEW l, l = DiffLayers(b.layers, a.layers), NEW s, s = DiffSources(b.sources, a.sources),
         NEW I, I = IdsOf(b.layers), NEW D, D = DictOf(b.layers),
         NEW J, J = IdsOf(a.layers), NEW E, E = DictOf(a.layers)
  PROVE  /\ Listed(b.layers, I, D) /\ Listed(a.layers, J, E)
         /\ Between(b, a, I, D, J, E, l.removed, l.modified, l.added,
                    a.sources, s.removed, s.modified, s.added)
<1>1. /\ Frame(b) /\ ValidateSpec(b) /\ IsObject(b.sources) /\ IsFiniteSet(DOMAIN b.sources)
      /\ Listed(b.layers, I, D) /\ AllFit(D, I, b.sources, b)
  BY LayersListed
<1>2. /\ IsObject(a.sources) /\ IsFiniteSet(DOMAIN a.sources)
      /\ Listed(a.layers, J, E) /\ AllFit(E, J, a.sources, a)
  BY LayersListed
<1>3. LayerParts(I, D, J, E, l.removed, l.modified, l.added)
  BY <1>1, <1>2, LayerPartsAre
<1>4. SourceParts(b.sources, a.sources, s.removed, s.modified, s.added)
  BY <1>1, <1>2, SourcePartsAre
<1>5. b.layers = Dressed(D, I)
  BY <1>1 DEF Listed
<1> QED
  BY <1>1, <1>2, <1>3, <1>4, <1>5 DEF Between

LEMMA ContainsIs ==
  ASSUME NEW s, IsSeq(s), NEW x
  PROVE  Contains(s, x) <=> x \in ToSet(s)
BY SeqIs DEF Contains, ToSet

\* No source has to be replaced under a layer.
LEMMA UnusedIs ==
  ASSUME NEW b, NEW a, NEW I, NEW D, NEW J, NEW E, NEW R, NEW M, NEW N, NEW T, NEW r, NEW m, NEW n,
         Between(b, a, I, D, J, E, R, M, N, T, r, m, n), NEW K, K = Staying(I, R, M),
         NEW P, P = Only(b.sources, (DOMAIN b.sources \cap DOMAIN T) \ ToSet(m)),
         Listed(b.layers, I, D), NEW l, NEW s,
         l = DiffLayers(b.layers, a.layers), s = DiffSources(b.sources, a.sources),
         l.removed = R, l.modified = M, s.modified = m
  PROVE  Unused(b, a) <=> AllFit(D, K, P, b)
<1>1. PICK S, L : S = b.sources /\ L = b.layers
  OBVIOUS
<1>2. /\ ToSet(R) = DOMAIN D \ DOMAIN E /\ IsSeq(R) /\ IsSeq(M) /\ IsSeq(m)
      /\ ToSet(M) = {id \in DOMAIN D \cap DOMAIN E : D[id] # E[id]}
      /\ IsSeq(I) /\ ToSet(I) = DOMAIN D /\ I = IdsOf(L)
      /\ ToSet(m) = {id \in DOMAIN S \cap DOMAIN T : S[id] # T[id]}
      /\ AllFit(D, I, S, b) /\ AllFit(E, J, T, a) /\ ToSet(J) = DOMAIN E
  BY <1>1 DEF Between, SourceParts, LayerParts, List, Listed
<1>3. ToSet(K) = {id \in DOMAIN D \cap DOMAIN E : D[id] = E[id]}
  <2>1. LayerParts(I, D, J, E, R, M, N)
    BY DEF Between
  <2> QED
    BY <2>1, KeptIs
<1>4. \A i \in DOMAIN L : L[i].id \in DOMAIN D /\ D[L[i].id] = L[i]
  <2>1. L = Dressed(D, I) /\ DOMAIN L = DOMAIN I /\ \A i \in DOMAIN L : I[i] = L[i].id
    BY <1>1, <1>2 DEF Listed, IdsOf
  <2> QED
    BY <1>2, <2>1 DEF Dressed, ToSet
<1>5. \A id \in DOMAIN D : \E i \in DOMAIN L : L[i].id = id
  BY <1>2 DEF IdsOf, ToSet
<1>6. IsSeq(R \o M) /\ ToSet(R \o M) = ToSet(R) \cup ToSet(M)
  BY <1>2, ConcatHolds
<1>7. Unused(b, a) <=>
          \A i \in DOMAIN L : Has(L[i], "source") /\ L[i].source \in ToSet(m) => L[i].id \in ToSet(R \o M)
  <2>1. \A x : Contains(m, x) <=> x \in ToSet(m)
    BY <1>2, ContainsIs
  <2>2. \A x : Contains(R \o M, x) <=> x \in ToSet(R \o M)
    BY <1>6, ContainsIs
  <2> QED
    BY <1>1, <2>1, <2>2 DEF Unused
<1>8. Unused(b, a) <=> \A id \in ToSet(K) : ~(Has(D[id], "source") /\ D[id].source \in ToSet(m))
  BY <1>2, <1>3, <1>4, <1>5, <1>6, <1>7
<1>9. ASSUME NEW id \in ToSet(K)
      PROVE  ~(Has(D[id], "source") /\ D[id].source \in ToSet(m)) <=> LayerFits(D[id], P, b)
  <2>1. LayerFits(D[id], S, b) /\ LayerFits(D[id], T, a)
    BY <1>2, <1>3 DEF AllFit
  <2>2. /\ DOMAIN P = (DOMAIN S \cap DOMAIN T) \ ToSet(m)
        /\ \A y \in DOMAIN P : P[y] = S[y]
    BY <1>1 DEF Only
  <2>3. ASSUME Has(D[id], "source"), D[id].source \in ToSet(m) PROVE ~LayerFits(D[id], P, b)
    BY <2>2, <2>3 DEF LayerFits, Has
  <2>4. ASSUME ~(Has(D[id], "source") /\ D[id].source \in ToSet(m)) PROVE LayerFits(D[id], P, b)
    BY <2>1, <2>2, <2>4 DEF LayerFits, Has
  <2> QED
    BY <2>3, <2>4
<1> QED
  BY <1>8, <1>9 DEF AllFit

\* No layer has to wait for the view that allows it.
LEMMA TimelyIs ==
  ASSUME NEW b, NEW a, NEW I, NEW D, NEW J, NEW E, NEW R, NEW M, NEW N, NEW T, NEW r, NEW m, NEW n,
         Between(b, a, I, D, J, E, R, M, N, T, r, m, n), Listed(a.layers, J, E), NEW l,
         l = DiffLayers(b.layers, a.layers), l.added = N, l.modified = M
  PROVE  Timely(b, a) <=> AllFit(E, N \o M, T, b)
<1>1. /\ IsSeq(M) /\ ToSet(M) = {id \in DOMAIN D \cap DOMAIN E : D[id] # E[id]}
      /\ IsSeq(N) /\ ToSet(N) = DOMAIN E \ DOMAIN D /\ ToSet(J) = DOMAIN E
      /\ AllFit(E, J, T, a) /\ \A id \in DOMAIN E : E[id] = LayerOf(a.layers, id)
  BY DEF Between, LayerParts, List, Listed
<1>2. ToSet(N \o M) = ToSet(N) \cup ToSet(M) /\ ToSet(N \o M) \subseteq DOMAIN E
  BY <1>1, ConcatHolds
<1>3. Timely(b, a) <=>
          \A id \in ToSet(N \o M) : E[id].type = "fill-extrusion-lite" => ExtrusionAllowed(b)
  BY <1>1, <1>2 DEF Timely
<1>4. ASSUME NEW id \in ToSet(N \o M)
      PROVE  (E[id].type = "fill-extrusion-lite" => ExtrusionAllowed(b)) <=> LayerFits(E[id], T, b)
  <2>1. LayerFits(E[id], T, a)
    BY <1>1, <1>2 DEF AllFit
  <2> QED
    BY <2>1 DEF LayerFits
<1> QED
  BY <1>3, <1>4 DEF AllFit

\* All the commands but those for the order, the view and the toggles.
FirstCommands(b, a) ==
    LET sources == DiffSources(b.sources, a.sources)
        layers == DiffLayers(b.layers, a.layers) IN
    RemoveLayers(layers.removed) \o RemoveLayers(layers.modified)
    \o RemoveSources(sources.removed) \o RemoveSources(sources.modified)
    \o AddSources(sources.added, a.sources) \o AddSources(sources.modified, a.sources)
    \o AddLayers(layers.added, a.layers) \o AddLayers(layers.modified, a.layers)

\* The ids of the layers they make, in their order.
FirstOrder(b, a) ==
    LET l == DiffLayers(b.layers, a.layers) IN
    Staying(IdsOf(b.layers), l.removed, l.modified) \o l.added \o l.modified

LEMMA FirstCommandsLead ==
  ASSUME NEW b, Settled(b), NEW a, Settled(a), NEW e
  PROVE  /\ IsSeq(FirstCommands(b, a))
         /\ Leads(b, FirstCommands(b, a), e) <=>
                /\ e = Made(b, a.sources, Dressed(DictOf(a.layers), FirstOrder(b, a)))
                /\ Unused(b, a) /\ Timely(b, a)
<1>1. PICK l, s, I, D, J, E, T :
          /\ l = DiffLayers(b.layers, a.layers) /\ s = DiffSources(b.sources, a.sources)
          /\ I = IdsOf(b.layers) /\ D = DictOf(b.layers) /\ J = IdsOf(a.layers) /\ E = DictOf(a.layers)
          /\ T = a.sources
  OBVIOUS
<1>2. PICK R, M, N, r, m, n : /\ R = l.removed /\ M = l.modified /\ N = l.added
                              /\ r = s.removed /\ m = s.modified /\ n = s.added
  OBVIOUS
<1>3. /\ Listed(b.layers, I, D) /\ Listed(a.layers, J, E)
      /\ Between(b, a, I, D, J, E, R, M, N, T, r, m, n)
  BY <1>1, <1>2, BetweenIs
<1>4. PICK K, P : K = Staying(I, R, M) /\ P = Only(b.sources, (DOMAIN b.sources \cap DOMAIN T) \ ToSet(m))
  OBVIOUS
<1>5. IsSeq(R) /\ IsSeq(M) /\ IsSeq(N) /\ IsSeq(r) /\ IsSeq(m) /\ IsSeq(n)
  BY <1>3 DEF Between, LayerParts, SourceParts, List
<1>6. PICK c2, c4, c6, c8 : /\ c2 = RemoveLayers(R) \o RemoveLayers(M)
                            /\ c4 = c2 \o RemoveSources(r) \o RemoveSources(m)
                            /\ c6 = c4 \o AddSources(n, T) \o AddSources(m, T)
                            /\ c8 = c6 \o AddLayers(N, a.layers) \o AddLayers(M, a.layers)
  OBVIOUS
<1>7. IsSeq(c2) /\ IsSeq(c4) /\ IsSeq(c6) /\ IsSeq(c8)
  <2>1. \A p, q : IsSeq(p) /\ IsSeq(q) => IsSeq(p \o q)
    BY ConcatHolds
  <2>2. IsSeq(RemoveLayers(R)) /\ IsSeq(RemoveLayers(M)) /\ IsSeq(RemoveSources(r))
        /\ IsSeq(RemoveSources(m)) /\ IsSeq(AddSources(n, T)) /\ IsSeq(AddSources(m, T))
        /\ IsSeq(AddLayers(N, a.layers)) /\ IsSeq(AddLayers(M, a.layers))
    BY <1>5, CommandLists
  <2> QED
    BY <1>6, <2>1, <2>2
<1>8. c8 = FirstCommands(b, a)
  BY <1>1, <1>2, <1>6 DEF FirstCommands
<1>9. Reach(b, c2, Made(b, b.sources, Dressed(D, K)))
  BY <1>3, <1>4, <1>6, LayersTorn
<1>10. ReachIf(b, c4, Made(b, P, Dressed(D, K)), D, K, P, b)
  BY <1>3, <1>4, <1>6, <1>7, <1>9, SourcesTorn
<1>11. ReachIf(b, c6, Made(b, T, Dressed(D, K)), D, K, P, b)
  BY <1>3, <1>4, <1>6, <1>7, <1>10, SourcesRebuilt
<1>12. ReachWhole(b, c8, b, T, D, E, K, N, M, P)
  <2>1. c8 = c6 \o AddLayers(N, a.layers) \o AddLayers(M, a.layers) /\ IsSeq(c6)
    BY <1>6, <1>7
  <2> QED
    BY ONLY <1>3, <1>4, <1>11, <2>1, LayersRebuilt
<1>13. Unused(b, a) <=> AllFit(D, K, P, b)
  BY <1>1, <1>2, <1>3, <1>4, UnusedIs
<1>14. Timely(b, a) <=> AllFit(E, N \o M, T, b)
  BY <1>1, <1>2, <1>3, TimelyIs
<1>15. FirstOrder(b, a) = K \o N \o M
  BY <1>1, <1>2, <1>4 DEF FirstOrder
<1> QED
  BY <1>1, <1>7, <1>8, <1>12, <1>13, <1>14, <1>15 DEF ReachWhole


(***************************************************************************)
(* The order of the layers.                                                *)
(***************************************************************************)

\* The command that puts a layer in its place of a list.
Reorder(list, i) ==
    DiffCommand("reorderLayer", [id |-> list[i], before |-> IF i > 1 THEN list[i - 1] ELSE Absent])

MovedOp(common, acc, i) ==
    IF acc.order[i] = common[i] THEN acc
    ELSE [order |-> InsertAt(Remove(acc.order, common[i]), i, common[i]),
          commands |-> Append(acc.commands, Reorder(common, i))]

Reordering == INSTANCE FoldTheorems WITH Op <- MovedOp

LEMMA ReorderIsFold ==
  ASSUME NEW X, NEW Y
  PROVE  BuildReorderCommands(X, Y) =
           Reordering!LeftFold(Among(Y, ToSet(X)),
               [order |-> Among(X, ToSet(Y)), commands |-> << >>],
               [i \in DOMAIN Among(Y, ToSet(X)) |-> i]).commands
BY Zenon DEF BuildReorderCommands, FoldLeftDomain, FoldLeft, MapThenFoldSet, MovedOp, Reorder,
             Reordering!LeftFold, Reordering!LeftStep, Max, Reordering!Highest

\* Commands that put layers of a list in their places.
Reorders(cs, list) ==
    IsSeq(cs) /\ \A k \in 1..Len(cs) : \E i \in 1..Len(list) : cs[k] = Reorder(list, i)

\* What is known when some layers have been looked at: none has moved, or the last
\* of those that have was put in its place.
Sorting(X, Y, i, acc) ==
    /\ Reorders(acc.commands, Y)
    /\ \/ acc.commands = << >> /\ acc.order = X /\ \A j \in 1..i : X[j] = Y[j]
       \/ \E j \in 1..i : \E cs : /\ acc.commands = Append(cs, Reorder(Y, j)) /\ Reorders(cs, Y)
                                  /\ \E k \in 1..j : X[k] # Y[k]

LEMMA SortingStarts ==
  ASSUME NEW X, NEW Y, NEW acc, acc = [order |-> X, commands |-> << >>]
  PROVE  Sorting(X, Y, 0, acc)
<1>1. acc.commands = << >> /\ acc.order = X /\ IsSeq(<< >>) /\ Len(<< >>) = 0
  BY EmptyHolds
<1> QED
  BY <1>1 DEF Sorting, Reorders

LEMMA SortingGoesOn ==
  ASSUME NEW X, NEW Y, NEW n, n = Len(Y), n \in Nat, NEW j \in 1..n, NEW i, i = j - 1, NEW acc,
         Sorting(X, Y, i, acc), NEW next, next = MovedOp(Y, acc, j)
  PROVE  Sorting(X, Y, j, next)
<1>1. CASE acc.order[j] = Y[j]
  <2>1. next = acc
    BY <1>1 DEF MovedOp
  <2>2. CASE acc.commands = << >> /\ acc.order = X /\ \A k \in 1..i : X[k] = Y[k]
    <3>1. \A k \in 1..j : X[k] = Y[k]
      BY <1>1, <2>2
    <3> QED
      BY <2>1, <2>2, <3>1 DEF Sorting
  <2>3. CASE \E k \in 1..i : \E cs : /\ acc.commands = Append(cs, Reorder(Y, k)) /\ Reorders(cs, Y)
                                     /\ \E h \in 1..k : X[h] # Y[h]
    <3>1. 1..i \subseteq 1..j
      OBVIOUS
    <3> QED
      BY <2>1, <2>3, <3>1 DEF Sorting
  <2> QED
    BY <2>2, <2>3 DEF Sorting
<1>2. CASE acc.order[j] # Y[j]
  <2>1. PICK cs, ds : cs = acc.commands /\ ds = next.commands
    OBVIOUS
  <2>2. ds = Append(cs, Reorder(Y, j))
    BY <1>2, <2>1 DEF MovedOp
  <2>3. Reorders(cs, Y)
    BY <2>1 DEF Sorting
  <2>4. Reorders(ds, Y)
    <3>1. /\ IsSeq(ds) /\ Len(ds) = Len(cs) + 1 /\ Len(cs) \in Nat
          /\ \A k \in 1..Len(cs) : ds[k] = cs[k]
          /\ ds[Len(cs) + 1] = Reorder(Y, j)
      BY <2>2, <2>3, AppendIs DEF Reorders
    <3> QED
      BY <2>3, <3>1 DEF Reorders
  <2>5. \E k \in 1..j : X[k] # Y[k]
    <3>1. CASE acc.order = X
      BY <1>2, <3>1
    <3>2. CASE \E h \in 1..i : \E k \in 1..h : X[k] # Y[k]
      <4>1. PICK h \in 1..i : \E k \in 1..h : X[k] # Y[k]
        BY <3>2
      <4>2. 1..h \subseteq 1..j
        OBVIOUS
      <4> QED
        BY <4>1, <4>2
    <3> QED
      BY <3>1, <3>2 DEF Sorting
  <2> QED
    BY <2>1, <2>2, <2>3, <2>4, <2>5 DEF Sorting
<1> QED
  BY <1>1, <1>2

\* No layer moves, or the last one that moves is put in its place.
LEMMA ReorderCommandsAre ==
  ASSUME NEW X, NEW Y, IsSeq(X), IsSeq(Y), ToSet(X) = ToSet(Y), NEW n, n = Len(Y), NEW cs,
         cs = BuildReorderCommands(X, Y)
  PROVE  /\ Reorders(cs, Y)
         /\ \/ cs = << >> /\ \A j \in 1..n : X[j] = Y[j]
            \/ \E j \in 1..n : \E ds : /\ cs = Append(ds, Reorder(Y, j)) /\ Reorders(ds, Y)
                                       /\ \E k \in 1..j : X[k] # Y[k]
<1>1. n \in Nat /\ DOMAIN Y = 1..n
  BY SeqIs
<1>2. Among(Y, ToSet(X)) = Y /\ Among(X, ToSet(Y)) = X
  <2>1. Among(Y, ToSet(Y)) = Y
    BY AmongAll
  <2>2. Among(X, ToSet(X)) = X
    BY AmongAll
  <2> QED
    BY <2>1, <2>2
<1>3. PICK base, s, acc : /\ base = [order |-> X, commands |-> << >>] /\ s = [i \in 1..n |-> i]
                          /\ acc = Reordering!LeftFold(Y, base, s)
  OBVIOUS
<1>4. cs = acc.commands
  <2>1. BuildReorderCommands(X, Y) =
           Reordering!LeftFold(Among(Y, ToSet(X)),
               [order |-> Among(X, ToSet(Y)), commands |-> << >>],
               [i \in DOMAIN Among(Y, ToSet(X)) |-> i]).commands
    BY ReorderIsFold
  <2> QED
    BY <1>1, <1>2, <1>3, <2>1
<1>5. DOMAIN s = 1..n /\ \A i \in 1..n : s[i] = i
  BY <1>3
<1>6. PICK f : Reordering!LeftSteps(Y, base, s, n, f) /\ f[n] = Reordering!LeftFold(Y, base, s)
  BY <1>1, <1>5, Reordering!LeftFoldSteps
<1>7. f[0] = base /\ \A j \in 1..n : f[j] = MovedOp(Y, f[j - 1], j)
  BY <1>1, <1>5, <1>6 DEF Reordering!LeftSteps
<1> DEFINE G == {i \in 0..n : Sorting(X, Y, i, f[i])}
<1>8. 0 \in G
  BY <1>1, <1>3, <1>7, SortingStarts
<1>9. ASSUME NEW j \in 1..n, NEW i \in G, i = j - 1 PROVE j \in G
  <2>1. Sorting(X, Y, j, f[j])
    BY <1>1, <1>7, <1>9, SortingGoesOn
  <2> QED
    BY <2>1, <1>1
<1>10. 0..n \subseteq G
  <2> HIDE DEF G
  <2> QED
    BY <1>1, <1>8, <1>9, StepInduction
<1>11. Sorting(X, Y, n, acc)
  BY <1>1, <1>3, <1>6, <1>10
<1> QED
  BY <1>4, <1>11 DEF Sorting


\* One list keeps the order of another.
Ordered(s, y) ==
    \A i, k \in 1..Len(y) : \A p, q \in 1..Len(s) : i < k /\ s[p] = y[i] /\ s[q] = y[k] => p < q

LEMMA OrderedMore ==
  ASSUME NEW s, IsSeq(s), NEW y, IsSeq(y), ToSet(y) \subseteq ToSet(s), Ordered(s, y),
         NEW x, x \notin ToSet(s), NEW t, t = Append(s, x)
  PROVE  /\ Ordered(t, y)
         /\ \A z : z = Append(y, x) => Ordered(t, z)
<1>1. PICK n, m : n = Len(s) /\ m = Len(y)
  OBVIOUS
<1>2. n \in Nat /\ m \in Nat /\ DOMAIN s = 1..n /\ DOMAIN y = 1..m
  BY <1>1, SeqIs
<1>3. /\ Len(t) = n + 1 /\ \A p \in 1..n : t[p] = s[p] /\ s[p] # x
      /\ t[n + 1] = x
  BY <1>1, <1>2, AppendIs DEF ToSet
<1>4. \A i \in 1..m : y[i] # x
  BY <1>2 DEF ToSet
<1>5. \A i, k \in 1..m : \A p, q \in 1..n : i < k /\ s[p] = y[i] /\ s[q] = y[k] => p < q
  BY <1>1 DEF Ordered
<1>6. Ordered(t, y)
  BY <1>1, <1>2, <1>3, <1>4, <1>5 DEF Ordered
<1>7. ASSUME NEW z, z = Append(y, x) PROVE Ordered(t, z)
  <2>1. Len(z) = m + 1 /\ z[m + 1] = x /\ \A i \in 1..m : z[i] = y[i]
    BY <1>1, <1>7, AppendIs
  <2>2. SUFFICES ASSUME NEW i \in 1..(m + 1), NEW k \in 1..(m + 1), NEW p \in 1..(n + 1),
                        NEW q \in 1..(n + 1), i < k, t[p] = z[i], t[q] = z[k]
                 PROVE  p < q
    BY <1>3, <2>1 DEF Ordered
  <2>3. i \in 1..m /\ z[i] # x
    BY <1>2, <1>4, <2>1, <2>2
  <2>4. p \in 1..n
    BY <1>2, <1>3, <2>2, <2>3
  <2>5. CASE k = m + 1
    <3>1. q = n + 1
      BY <1>2, <1>3, <2>1, <2>2, <2>5
    <3> QED
      BY <1>2, <2>4, <3>1
  <2>6. CASE k \in 1..m
    <3>1. q \in 1..n
      BY <1>2, <1>3, <1>4, <2>1, <2>2, <2>6
    <3> QED
      BY <1>3, <1>5, <2>1, <2>2, <2>3, <2>4, <2>6, <3>1
  <2> QED
    BY <1>2, <2>5, <2>6
<1> QED
  BY <1>6, <1>7

LEMMA AmongOrder ==
  ASSUME NEW J, IsSeq(J), Distinct(J), NEW C
  PROVE  Ordered(J, Among(J, C))
<1> DEFINE T == {s \in Beginnings(J) : Ordered(s, Among(s, C))}
<1>1. << >> \in T
  <2>1. Ordered(<< >>, << >>)
    BY EmptyHolds DEF Ordered
  <2> QED
    BY <2>1, BeginsEmpty, AmongEmpty
<1>2. ASSUME NEW s, NEW x, s \in T, Grows(J, s, x) PROVE Append(s, x) \in T
  <2>1. /\ IsSeq(s) /\ x \notin ToSet(s) /\ Append(s, x) \in Beginnings(J)
        /\ Ordered(s, Among(s, C))
    BY <1>2 DEF Grows
  <2>2. PICK y, t : y = Among(s, C) /\ t = Append(s, x)
    OBVIOUS
  <2>3. IsSeq(y) /\ ToSet(y) \subseteq ToSet(s)
    BY <2>1, <2>2, AmongIs
  <2>4. Ordered(t, y) /\ \A z : z = Append(y, x) => Ordered(t, z)
    BY <2>1, <2>2, <2>3, OrderedMore
  <2>5. Among(t, C) = IF x \in C THEN Append(y, x) ELSE y
    BY <2>1, <2>2, AmongAppend
  <2>6. Ordered(t, Among(t, C))
    BY <2>4, <2>5
  <2> QED
    BY <2>1, <2>2, <2>6
<1>3. J \in T
  <2> HIDE DEF T
  <2> QED
    BY <1>1, <1>2, ListInduction
<1> QED
  BY <1>3

\* Where a layer is after it has moved.
LEMMA MovesPlace ==
  ASSUME NEW L, IsSeq(L), NEW M, NEW id, NEW before, Moves(L, M, id, before)
  PROVE  /\ IsSeq(M) /\ Len(M) = Len(L) /\ Len(M) \in 1..Len(L)
         /\ before = Absent => M[Len(M)].id = id
         /\ before # Absent => \E p, q \in 1..Len(M) : q = p + 1 /\ M[p].id = id /\ M[q].id = before
<1>1. PICK n : n = Len(L)
  OBVIOUS
<1>2. PICK from \in 1..n, to \in 1..n :
        /\ L[from].id = id
        /\ M = InsertAt(RemoveAt(L, from), to, L[from])
        /\ before = Absent => to = n
        /\ before # Absent => RemoveAt(L, from)[to].id = before /\ to < n
  BY <1>1 DEF Moves
<1>3. n \in Nat
  BY <1>1, SeqIs
<1>4. PICK R, x : R = RemoveAt(L, from) /\ x = L[from]
  OBVIOUS
<1>5. IsSeq(R) /\ Len(R) = n - 1
  BY <1>1, <1>4, RemoveAtIs
<1>6. M = InsertAt(R, to, x)
  BY <1>2, <1>4
<1>7. to \in 1..(Len(R) + 1) /\ Len(R) + 1 = n
  BY <1>3, <1>5
<1>8. /\ IsSeq(M) /\ Len(M) = n
      /\ \A j \in 1..n : M[j] = IF j < to THEN R[j] ELSE IF j = to THEN x ELSE R[j - 1]
  BY <1>5, <1>6, <1>7, InsertAtIs
<1>9. M[to] = x
  BY <1>8
<1>10. ASSUME before # Absent
       PROVE  \E p, q \in 1..Len(M) : q = p + 1 /\ M[p].id = id /\ M[q].id = before
  <2>1. PICK q : q = to + 1
    OBVIOUS
  <2>2. q \in 1..n /\ q - 1 = to /\ ~(q < to) /\ q # to
    BY <1>2, <1>3, <1>10, <2>1
  <2>3. M[q] = R[to]
    BY <1>8, <2>2
  <2> QED
    BY <1>2, <1>4, <1>8, <1>9, <1>10, <2>1, <2>2, <2>3
<1> QED
  BY <1>1, <1>2, <1>3, <1>4, <1>8, <1>9, <1>10

\* A layer is put before the one it is to follow, and the first one last.
Anchored(Y, j, before) ==
    /\ j = 1 => before = Absent
    /\ \A i \in 1..Len(Y) : i = j - 1 => before = Y[i] /\ before # Absent

Differ(X, Y, j) == \E k \in 1..j : X[k] # Y[k]

\* The last move cannot have led to the order it was made for.
LEMMA LastMoveFails ==
  ASSUME NEW J, IsSeq(J), Distinct(J), NEW C, NEW Y, Y = Among(J, C),
         NEW X, IsSeq(X), ToSet(X) = ToSet(Y), NEW j \in 1..Len(Y), Differ(X, Y, j),
         NEW L, IsSeq(L), NEW M, IdsOf(M) = J, NEW before, Moves(L, M, Y[j], before),
         Anchored(Y, j, before)
  PROVE  FALSE
<1>1. PICK n, m : n = Len(J) /\ m = Len(Y)
  OBVIOUS
<1>2. IsSeq(Y) /\ ToSet(Y) \subseteq ToSet(J) /\ n \in Nat /\ DOMAIN J = 1..n /\ m \in Nat /\ DOMAIN Y = 1..m
  BY <1>1, AmongIs, SeqIs
<1>3. \A i, k \in 1..m : \A p, q \in 1..n : i < k /\ J[p] = Y[i] /\ J[q] = Y[k] => p < q
  <2>1. Ordered(J, Y)
    BY AmongOrder
  <2> QED
    BY <1>1, <2>1 DEF Ordered
<1>4. /\ IsSeq(M) /\ Len(M) \in Nat /\ Len(M) > 0
      /\ before = Absent => M[Len(M)].id = Y[j]
      /\ before # Absent => \E p, q \in 1..Len(M) : q = p + 1 /\ M[p].id = Y[j] /\ M[q].id = before
  BY MovesPlace, SeqIs
<1>5. Len(M) = n /\ \A p \in 1..n : J[p] = M[p].id
  <2>1. DOMAIN M = 1..Len(M) /\ DOMAIN J = DOMAIN M
    BY <1>4, SeqIs DEF IdsOf
  <2>2. \A h, k \in Nat : 1..h = 1..k => h = k
    <3>1. ASSUME NEW h \in Nat, NEW k \in Nat, 1..h = 1..k PROVE h <= k
      <4>1. CASE h = 0
        BY <4>1
      <4>2. CASE h # 0
        <5>1. h \in 1..h
          BY <4>2
        <5> QED
          BY <3>1, <5>1
      <4> QED
        BY <4>1, <4>2
    <3>2. ASSUME NEW h \in Nat, NEW k \in Nat, 1..h = 1..k PROVE h = k
      <4>1. h <= k /\ k <= h
        BY <3>1, <3>2
      <4> QED
        BY <4>1
    <3> QED
      BY <3>2
  <2>3. 1..Len(M) = 1..n
    BY <1>2, <2>1
  <2>4. Len(M) = n
    BY <1>2, <1>4, <2>2, <2>3
  <2> QED
    BY <2>1, <2>4 DEF IdsOf
<1>6. CASE j = 1
  <2>1. J[n] = Y[1] /\ n \in 1..n /\ X[1] # Y[1] /\ 1 \in 1..m
    <3>1. before = Absent /\ X[1] # Y[1]
      BY <1>6 DEF Anchored, Differ
    <3> QED
      BY <1>1, <1>2, <1>4, <1>5, <1>6, <3>1
  <2>2. ASSUME 2 \in 1..m PROVE FALSE
    <3>1. Y[2] \in ToSet(J)
      <4>1. Y[2] \in ToSet(Y)
        BY <1>2, <2>2 DEF ToSet
      <4> QED
        BY <1>2, <4>1
    <3>2. PICK q \in 1..n : J[q] = Y[2]
      BY <1>2, <3>1 DEF ToSet
    <3> QED
      BY <1>3, <2>1, <2>2, <3>2
  <2>3. 1..m = {1}
    BY <1>2, <2>1, <2>2
  <2>4. ToSet(Y) = {Y[1]}
    BY <1>2, <2>3 DEF ToSet
  <2>5. 1 \in DOMAIN X
    <3>1. DOMAIN X = 1..Len(X) /\ Len(X) \in Nat
      BY SeqIs
    <3>2. DOMAIN X # {}
      BY <2>4 DEF ToSet
    <3> QED
      BY <3>1, <3>2
  <2> QED
    BY <2>1, <2>4, <2>5 DEF ToSet
<1>7. CASE j # 1
  <2>1. PICK i : i = j - 1
    OBVIOUS
  <2>2. i \in 1..m /\ i < j /\ j \in 1..m
    BY <1>1, <1>2, <1>7, <2>1
  <2>3. before = Y[i] /\ before # Absent
    BY <1>1, <2>1, <2>2 DEF Anchored
  <2>4. PICK p, q \in 1..n : q = p + 1 /\ J[p] = Y[j] /\ J[q] = Y[i]
    BY <1>4, <1>5, <2>3
  <2> QED
    BY <1>2, <1>3, <2>2, <2>4
<1> QED
  BY <1>6, <1>7


\* What the commands on the order do to a spec.
Rearranged(d, e) == \E L : IsSeq(L) /\ e = InLayers(d, L)

LEMMA ReorderIs ==
  ASSUME NEW Y, IsSeq(Y), Distinct(Y), Absent \notin ToSet(Y), NEW j \in 1..Len(Y),
         NEW c, c = Reorder(Y, j)
  PROVE  /\ c.type = "reorderLayer" /\ c.id = Y[j] /\ c.before # c.id
         /\ j = 1 => c.before = Absent
         /\ \A i \in 1..Len(Y) : i = j - 1 => c.before = Y[i] /\ c.before # Absent
<1>1. PICK n, v : n = Len(Y) /\ v = IF j > 1 THEN Y[j - 1] ELSE Absent
  OBVIOUS
<1>2. n \in Nat /\ DOMAIN Y = 1..n /\ \A i \in 1..n : Y[i] # Absent
  BY <1>1, SeqIs DEF ToSet
<1>3. c = DiffCommand("reorderLayer", [id |-> Y[j], before |-> v])
  BY <1>1 DEF Reorder
<1>4. c.type = "reorderLayer" /\ c.id = Y[j] /\ c.before = v
  BY ONLY <1>3 DEF DiffCommand, Merge, Has
<1>5. j = 1 => v = Absent
  BY <1>1
<1>6. ASSUME NEW i \in 1..n, i = j - 1 PROVE v = Y[i] /\ v # Absent /\ i # j
  <2>1. j > 1
    BY <1>2, <1>6
  <2> QED
    BY <1>1, <1>2, <1>6, <2>1
<1>7. v # Y[j]
  <2>1. CASE j = 1
    BY <1>1, <1>2, <1>5, <2>1
  <2>2. CASE j # 1
    <3>1. PICK i \in 1..n : i = j - 1
      BY <1>1, <1>2, <2>2
    <3> QED
      BY <1>1, <1>2, <1>6, <3>1 DEF Distinct
  <2> QED
    BY <2>1, <2>2
<1> QED
  BY <1>1, <1>4, <1>5, <1>6, <1>7

LEMMA OneReorder ==
  ASSUME NEW Y, IsSeq(Y), Distinct(Y), Absent \notin ToSet(Y), NEW j \in 1..Len(Y),
         NEW c, c = Reorder(Y, j), NEW d, IsObject(d), Has(d, "layers"), IsSeq(d.layers),
         NEW e, Leads(d, <<c>>, e)
  PROVE  \E M : IsSeq(M) /\ e = InLayers(d, M) /\ Moves(d.layers, M, c.id, c.before)
<1>1. c.type = "reorderLayer" /\ c.before # c.id
  BY ReorderIs
<1>2. PICK built, next : built = BuildPatch(c, d) /\ next = ApplyJsonPatch(d, built.patch)
  OBVIOUS
<1>3. Outcomes(d, c, Fair(e))
  BY LeadsOne
<1>4. Fair(e) = IF built.kind = "failed" THEN Foul(d)
                ELSE IF built.kind = "skipped" THEN Fair(d)
                ELSE IF ValidateSpec(next) THEN Fair(next) ELSE Foul(next)
  BY <1>2, <1>3 DEF Outcomes
<1>5. built.kind # "failed" /\ (built.kind = "skipped" => e = d) /\ (built.kind = "patch" => e = next)
  <2>1. \A f : Foul(f) # Fair(e) /\ (Fair(e) = Fair(f) => e = f)
    BY States
  <2> QED
    BY <1>4, <2>1
<1>6. PICK M : /\ Moves(d.layers, M, c.id, c.before)
               /\ (built.kind = "skipped" /\ M = d.layers) \/ Goes(d, c, InLayers(d, M))
  BY <1>1, <1>2, <1>5, LayerMoved
<1>7. IsSeq(M)
  BY <1>6, MovesPlace
<1>8. e = InLayers(d, M)
  <2>1. CASE built.kind = "skipped" /\ M = d.layers
    <3>1. InLayers(d, d.layers) = d
      BY DEF InLayers, IsObject, Has
    <3> QED
      BY <1>5, <2>1, <3>1
  <2>2. CASE Goes(d, c, InLayers(d, M))
    BY <1>2, <1>5, <2>2 DEF Goes
  <2> QED
    BY <1>6, <2>1, <2>2
<1> QED
  BY <1>6, <1>7, <1>8

LEMMA RearrangedIs ==
  ASSUME NEW d, IsObject(d), Has(d, "layers"), NEW e, Rearranged(d, e)
  PROVE  /\ IsObject(e) /\ Has(e, "layers") /\ IsSeq(e.layers) /\ e = InLayers(d, e.layers)
         /\ \A L : InLayers(e, L) = InLayers(d, L)
<1>1. PICK L : IsSeq(L) /\ e = InLayers(d, L)
  BY DEF Rearranged
<1> QED
  BY <1>1 DEF InLayers, IsObject, Has

LEMMA AppendOne ==
  ASSUME NEW s, IsSeq(s), NEW x
  PROVE  Append(s, x) = s \o <<x>> /\ IsSeq(<<x>>)
<1>1. IsSeq(<<x>>) /\ <<x>> = Append(<< >>, x) /\ IsSeq(<< >>) /\ s \o << >> = s
  BY Path0, Path1, NothingJoined DEF IsSeq
<1>2. s \o Append(<< >>, x) = Append(s \o << >>, x)
  BY <1>1, ConcatAppend
<1> QED
  BY <1>1, <1>2

LEMMA ReordersRearrange ==
  ASSUME NEW Y, IsSeq(Y), Distinct(Y), Absent \notin ToSet(Y), NEW cs, Reorders(cs, Y),
         NEW d, IsObject(d), Has(d, "layers"), IsSeq(d.layers), NEW e, Leads(d, cs, e)
  PROVE  Rearranged(d, e)
<1>1. IsSeq(cs) /\ \A c \in ToSet(cs) : \E j \in 1..Len(Y) : c = Reorder(Y, j)
  BY SeqIs DEF Reorders, ToSet
<1> DEFINE T == {s \in Beginnings(cs) : \A f : Leads(d, s, f) => Rearranged(d, f)}
<1>2. << >> \in T
  <2>1. d = InLayers(d, d.layers)
    BY DEF InLayers, IsObject, Has
  <2>2. Rearranged(d, d)
    BY <2>1 DEF Rearranged
  <2> QED
    BY <1>1, <2>2, LeadsNowhere, BeginsEmpty
<1>3. ASSUME NEW s, NEW c, s \in T, Grows(cs, s, c) PROVE Append(s, c) \in T
  <2>1. /\ IsSeq(s) /\ c \in ToSet(cs) /\ Append(s, c) \in Beginnings(cs)
        /\ \A f : Leads(d, s, f) => Rearranged(d, f)
    BY <1>3 DEF Grows
  <2>2. ASSUME NEW f, Leads(d, Append(s, c), f) PROVE Rearranged(d, f)
    <3>1. PICK u : Leads(d, s, u) /\ Leads(u, <<c>>, f)
      <4>1. Append(s, c) = s \o <<c>> /\ IsSeq(<<c>>)
        BY <2>1, AppendOne
      <4>2. Leads(d, s \o <<c>>, f)
        BY <2>2, <4>1
      <4> QED
        BY <2>1, <4>1, <4>2, LeadsOn
    <3>2. Rearranged(d, u)
      BY <2>1, <3>1
    <3>3. IsObject(u) /\ Has(u, "layers") /\ IsSeq(u.layers) /\ \A L : InLayers(u, L) = InLayers(d, L)
      BY <3>2, RearrangedIs
    <3>4. PICK j \in 1..Len(Y) : c = Reorder(Y, j)
      BY <1>1, <2>1
    <3>5. PICK M : IsSeq(M) /\ f = InLayers(u, M)
      BY <3>1, <3>3, <3>4, OneReorder
    <3> QED
      BY <3>3, <3>5 DEF Rearranged
  <2> QED
    BY <2>1, <2>2
<1>4. cs \in T
  <2> HIDE DEF T
  <2> QED
    BY <1>1, <1>2, <1>3, ListInduction
<1> QED
  BY <1>4

\* Commands that lead to the order they are made for are none at all.
LEMMA NothingMoves ==
  ASSUME NEW J, IsSeq(J), Distinct(J), Absent \notin ToSet(J), NEW C, NEW Y, Y = Among(J, C),
         NEW X, IsSeq(X), Distinct(X), ToSet(X) = ToSet(Y), NEW cs, cs = BuildReorderCommands(X, Y),
         NEW d, IsObject(d), Has(d, "layers"), IsSeq(d.layers)
  PROVE  /\ Reorders(cs, Y)
         /\ \A e : Leads(d, cs, e) => Rearranged(d, e)
         /\ X = Y => cs = << >>
         /\ \A e : Leads(d, cs, e) /\ IdsOf(e.layers) = J => cs = << >>
<1>1. PICK n : n = Len(Y)
  OBVIOUS
<1>2. IsSeq(Y) /\ Distinct(Y) /\ Absent \notin ToSet(Y) /\ n \in Nat
  <2>1. IsSeq(Y) /\ Distinct(Y) /\ ToSet(Y) = ToSet(J) \cap C
    BY AmongIs
  <2> QED
    BY <1>1, <2>1, SeqIs
<1>3. /\ Reorders(cs, Y)
      /\ \/ cs = << >> /\ \A j \in 1..n : X[j] = Y[j]
         \/ \E j \in 1..n : \E ds : /\ cs = Append(ds, Reorder(Y, j)) /\ Reorders(ds, Y)
                                    /\ \E k \in 1..j : X[k] # Y[k]
  BY <1>1, <1>2, ReorderCommandsAre
<1>4. \A e : Leads(d, cs, e) => Rearranged(d, e)
  BY <1>2, <1>3, ReordersRearrange
<1>5. X = Y => cs = << >>
  BY <1>3
<1>6. ASSUME NEW e, Leads(d, cs, e), IdsOf(e.layers) = J, cs # << >> PROVE FALSE
  <2>0. PICK j \in 1..n : \E ds : /\ cs = Append(ds, Reorder(Y, j)) /\ Reorders(ds, Y)
                                   /\ \E k \in 1..j : X[k] # Y[k]
    BY <1>3, <1>6
  <2>1. PICK ds : /\ cs = Append(ds, Reorder(Y, j)) /\ Reorders(ds, Y)
                  /\ \E k \in 1..j : X[k] # Y[k]
    BY <2>0
  <2>2. PICK c : c = Reorder(Y, j)
    OBVIOUS
  <2>3. PICK u : Leads(d, ds, u) /\ Leads(u, <<c>>, e)
    <3>1. IsSeq(ds)
      BY <2>1 DEF Reorders
    <3>2. Append(ds, c) = ds \o <<c>> /\ IsSeq(<<c>>)
      BY <3>1, AppendOne
    <3>3. Leads(d, ds \o <<c>>, e)
      BY <1>6, <2>1, <2>2, <3>2
    <3> QED
      BY <3>1, <3>2, <3>3, LeadsOn
  <2>4. Rearranged(d, u)
    BY <1>2, <2>1, <2>3, ReordersRearrange
  <2>5. IsObject(u) /\ Has(u, "layers") /\ IsSeq(u.layers)
    BY <2>4, RearrangedIs
  <2>6. PICK M : IsSeq(M) /\ e = InLayers(u, M) /\ Moves(u.layers, M, c.id, c.before)
    BY <1>1, <1>2, <2>2, <2>3, <2>5, OneReorder
  <2>7. e.layers = M
    BY <2>5, <2>6 DEF InLayers, Has
  <2>8. /\ c.id = Y[j]
        /\ j = 1 => c.before = Absent
        /\ \A i \in 1..Len(Y) : i = j - 1 => c.before = Y[i] /\ c.before # Absent
    BY <1>1, <1>2, <2>2, ReorderIs
  <2> QED
    <3>1. PICK p : p = c.before
      OBVIOUS
    <3>2. /\ j \in 1..Len(Y) /\ Differ(X, Y, j)
          /\ Moves(u.layers, M, Y[j], p) /\ IdsOf(M) = J
      BY <1>1, <1>6, <2>1, <2>6, <2>7, <2>8, <3>1 DEF Differ
    <3>3. Anchored(Y, j, p)
      BY <2>8, <3>1 DEF Anchored
    <3> QED
      BY <2>5, <3>2, <3>3, LastMoveFails
<1> QED
  BY <1>3, <1>4, <1>5, <1>6


LEMMA AmongAmong ==
  ASSUME NEW ids, IsSeq(ids), NEW U, NEW V
  PROVE  Among(Among(ids, U), V) = Among(ids, U \cap V)
<1> DEFINE T == {s \in Beginnings(ids) : Among(Among(s, U), V) = Among(s, U \cap V)}
<1>1. << >> \in T
  BY BeginsEmpty, AmongEmpty
<1>2. ASSUME NEW s, NEW x, s \in T, Grows(ids, s, x) PROVE Append(s, x) \in T
  <2>1. /\ IsSeq(s) /\ Append(s, x) \in Beginnings(ids)
        /\ Among(Among(s, U), V) = Among(s, U \cap V)
    BY <1>2 DEF Grows
  <2>2. PICK t, y : t = Append(s, x) /\ y = Among(s, U)
    OBVIOUS
  <2>3. IsSeq(y)
    BY <2>1, <2>2, AmongIs
  <2>4. Among(t, U) = IF x \in U THEN Append(y, x) ELSE y
    BY <2>1, <2>2, AmongAppend
  <2>5. Among(t, U \cap V) = IF x \in U \cap V THEN Append(Among(y, V), x) ELSE Among(y, V)
    BY <2>1, <2>2, AmongAppend
  <2>6. Among(Append(y, x), V) = IF x \in V THEN Append(Among(y, V), x) ELSE Among(y, V)
    BY <2>3, AmongAppend
  <2>7. Among(Among(t, U), V) = Among(t, U \cap V)
    BY <2>4, <2>5, <2>6
  <2> QED
    BY <2>1, <2>2, <2>7
<1>3. ids \in T
  <2> HIDE DEF T
  <2> QED
    BY <1>1, <1>2, ListInduction
<1> QED
  BY <1>3

\* Lists of the same ids, each once, that agree as far as one of them goes.
LEMMA SameList ==
  ASSUME NEW X, IsSeq(X), Distinct(X), NEW Y, IsSeq(Y), Distinct(Y), ToSet(X) = ToSet(Y),
         \A j \in 1..Len(Y) : X[j] = Y[j]
  PROVE  X = Y
<1>1. PICK m, n : m = Len(X) /\ n = Len(Y)
  OBVIOUS
<1>2. m \in Nat /\ n \in Nat /\ DOMAIN X = 1..m /\ DOMAIN Y = 1..n
  BY <1>1, SeqIs
<1>3. ASSUME n < m PROVE FALSE
  <2>1. m \in DOMAIN X /\ X[m] \in ToSet(Y)
    BY <1>2, <1>3 DEF ToSet
  <2>2. PICK k \in 1..n : Y[k] = X[m]
    BY <1>2, <2>1 DEF ToSet
  <2>3. X[k] = X[m] /\ k \in DOMAIN X /\ k # m
    BY <1>1, <1>2, <1>3, <2>2
  <2> QED
    BY <2>1, <2>3 DEF Distinct
<1>4. ASSUME m < n PROVE FALSE
  <2>1. n \in DOMAIN Y /\ Y[n] \in ToSet(X)
    <3>1. n \in DOMAIN Y
      BY <1>2, <1>4
    <3>2. Y[n] \in ToSet(Y)
      BY <3>1 DEF ToSet
    <3> QED
      BY <3>1, <3>2
  <2>2. PICK k \in 1..m : X[k] = Y[n]
    BY <1>2, <2>1 DEF ToSet
  <2>3. Y[k] = Y[n] /\ k \in DOMAIN Y /\ k # n
    BY <1>1, <1>2, <1>4, <2>2
  <2> QED
    BY <2>1, <2>3 DEF Distinct
<1>5. m = n
  BY <1>2, <1>3, <1>4
<1>6. IsObject(X) /\ IsObject(Y)
  BY DEF IsSeq, IsObject
<1> QED
  BY <1>1, <1>2, <1>5, <1>6 DEF IsObject

\* The lists of the layers that are in both specs, in either order.
Survivors(b, a) ==
    LET l == DiffLayers(b.layers, a.layers)
        I == IdsOf(b.layers) IN Among(I, ToSet(I) \ ToSet(l.removed))

Survived(b, a) ==
    LET l == DiffLayers(b.layers, a.layers)
        J == IdsOf(a.layers) IN Among(J, ToSet(J) \ ToSet(l.added))

\* No layer has to move when the layers are in the order they are made in, and the
\* survivors are already.
LEMMA InPlaceIs ==
  ASSUME NEW b, Settled(b), NEW a, Settled(a), NEW X, X = Survivors(b, a),
         NEW Y, Y = Survived(b, a), NEW J, J = IdsOf(a.layers)
  PROVE  /\ IsSeq(X) /\ Distinct(X) /\ IsSeq(Y) /\ Distinct(Y) /\ ToSet(X) = ToSet(Y)
         /\ IsSeq(FirstOrder(b, a)) /\ Distinct(FirstOrder(b, a))
         /\ ToSet(FirstOrder(b, a)) = DOMAIN DictOf(a.layers)
         /\ InPlace(b.layers, a.layers) <=> FirstOrder(b, a) = J /\ X = Y
<1>1. PICK l, s, I, D, E : /\ l = DiffLayers(b.layers, a.layers) /\ s = DiffSources(b.sources, a.sources)
                           /\ I = IdsOf(b.layers) /\ D = DictOf(b.layers) /\ E = DictOf(a.layers)
  OBVIOUS
<1>2. PICK R, M, N : R = l.removed /\ M = l.modified /\ N = l.added
  OBVIOUS
<1>3. LayerParts(I, D, J, E, R, M, N)
  BY <1>1, <1>2, BetweenIs DEF Between
<1>4. PICK U, V, K : U = DOMAIN D /\ V = DOMAIN E /\ K = Staying(I, R, M)
  OBVIOUS
<1>5. /\ IsSeq(I) /\ Distinct(I) /\ ToSet(I) = U /\ IsSeq(J) /\ Distinct(J) /\ ToSet(J) = V
      /\ IsSeq(R) /\ IsSeq(M) /\ IsSeq(N) /\ Distinct(M) /\ Distinct(N)
      /\ ToSet(R) = U \ V /\ ToSet(N) = V \ U /\ ToSet(M) = {id \in U \cap V : D[id] # E[id]}
  BY <1>3, <1>4 DEF LayerParts, List
<1>6. /\ IsSeq(K) /\ Distinct(K) /\ ToSet(K) = {id \in U \cap V : D[id] = E[id]}
  BY <1>3, <1>4, KeptIs
<1>7. X = Among(I, U \ (U \ V)) /\ Y = Among(J, V \ (V \ U))
  BY <1>1, <1>2, <1>5 DEF Survivors, Survived
<1>8. /\ IsSeq(X) /\ Distinct(X) /\ ToSet(X) = U \cap V
      /\ IsSeq(Y) /\ Distinct(Y) /\ ToSet(Y) = U \cap V
  <2>1. IsSeq(X) /\ Distinct(X) /\ ToSet(X) = U \cap (U \ (U \ V))
    BY <1>5, <1>7, AmongIs
  <2>2. IsSeq(Y) /\ Distinct(Y) /\ ToSet(Y) = V \cap (V \ (V \ U))
    BY <1>5, <1>7, AmongIs
  <2> QED
    BY <2>1, <2>2
<1>9. /\ IsSeq(K \o N) /\ Distinct(K \o N) /\ ToSet(K \o N) = ToSet(K) \cup ToSet(N)
      /\ IsSeq(K \o M)
  <2>1. ToSet(K) \cap ToSet(N) = {}
    BY <1>5, <1>6
  <2> QED
    BY <1>5, <1>6, <2>1, ConcatHolds
<1>10. PICK F : F = (K \o N) \o M
  OBVIOUS
<1>11. IsSeq(F) /\ Distinct(F) /\ ToSet(F) = V
  <2>1. PICK P : P = K \o N
    OBVIOUS
  <2>2. IsSeq(P) /\ Distinct(P) /\ ToSet(P) = ToSet(K) \cup ToSet(N) /\ F = P \o M
    BY <1>9, <1>10, <2>1
  <2>3. ToSet(P) \cap ToSet(M) = {} /\ ToSet(P) \cup ToSet(M) = V
    BY <1>5, <1>6, <2>2
  <2>4. IsSeq(P \o M) /\ ToSet(P \o M) = ToSet(P) \cup ToSet(M) /\ Distinct(P \o M)
    BY <1>5, <2>2, <2>3, ConcatHolds
  <2> QED
    BY <2>2, <2>3, <2>4
<1>12. F = FirstOrder(b, a)
  BY <1>1, <1>2, <1>4, <1>10 DEF FirstOrder
<1>13. Among(I, V) = X
  <2>1. ToSet(I) \cap V = ToSet(I) \cap (U \ (U \ V))
    BY <1>5
  <2> QED
    BY <1>5, <1>7, <2>1, AmongSame
<1>14. Among(X, ToSet(X) \ ToSet(M)) = K
  <2>1. Among(X, ToSet(X) \ ToSet(M)) = Among(I, V \cap (ToSet(X) \ ToSet(M)))
    BY <1>5, <1>13, AmongAmong
  <2>2. ToSet(I) \cap (V \cap (ToSet(X) \ ToSet(M))) = ToSet(I) \cap ((ToSet(I) \ ToSet(R)) \ ToSet(M))
    BY <1>5, <1>8
  <2>3. Among(I, V \cap (ToSet(X) \ ToSet(M))) = Among(I, (ToSet(I) \ ToSet(R)) \ ToSet(M))
    BY <1>5, <2>2, AmongSame
  <2> QED
    BY <1>4, <2>1, <2>3 DEF Staying
<1>15. InPlace(b.layers, a.layers) <=> J = F /\ X = K \o M
  BY <1>1, <1>2, <1>5, <1>10, <1>13, <1>14 DEF InPlace
<1>16. ASSUME J = F PROVE Y = K \o M
  <2>1. PICK W : W = V \ (V \ U)
    OBVIOUS
  <2>2. Y = Among(K, W) \o Among(N, W) \o Among(M, W)
    <3>1. \A p, q : IsSeq(p) /\ IsSeq(q) => Among(p \o q, W) = Among(p, W) \o Among(q, W)
      BY AmongConcat
    <3>2. PICK P : P = K \o N
      OBVIOUS
    <3>3. IsSeq(P) /\ F = P \o M
      BY <1>9, <1>10, <3>2
    <3>4. Among(P, W) = Among(K, W) \o Among(N, W)
      BY <1>5, <1>6, <3>1, <3>2
    <3>5. Among(F, W) = Among(P, W) \o Among(M, W)
      BY <1>5, <3>1, <3>3
    <3> QED
      BY <1>7, <1>16, <2>1, <3>4, <3>5
  <2>3. Among(K, W) = K /\ Among(M, W) = M
    <3>1. ToSet(K) \subseteq W /\ ToSet(M) \subseteq W
      BY <1>5, <1>6, <2>1
    <3> QED
      BY <1>5, <1>6, <3>1, AmongAll
  <2>4. Among(N, W) = << >>
    <3>1. ToSet(N) \cap W = {}
      BY <1>5, <2>1
    <3> QED
      BY <1>5, <3>1, AmongNone
  <2>5. K \o << >> = K
    BY <1>6, NothingJoined
  <2> QED
    BY <2>2, <2>3, <2>4, <2>5
<1>17. InPlace(b.layers, a.layers) <=> F = J /\ X = Y
  BY <1>15, <1>16
<1> QED
  BY <1>1, <1>4, <1>8, <1>11, <1>12, <1>17


(***************************************************************************)
(* The view and the toggles, and what the restored spec says.              *)
(***************************************************************************)

\* The members of the view that are to change.
ViewDiff(b, a) == {n \in ViewMembers : Member(b.view, n, Absent) # Member(a.view, n, Absent)}

NewView(b, a) == Merge([n \in ViewDiff(b, a) |-> Member(a.view, n, Absent)], b.view)

Viewed(b, a, d) == IF ViewDiff(b, a) = {} THEN d ELSE With(d, "view", NewView(b, a))

\* The toggles stay as they are.
Toggle(b, a) == ~Has(a, "interactions") \/ Member(b, "interactions", Absent) = a.interactions

Switched(b, a, d) == IF Toggle(b, a) THEN d ELSE With(d, "interactions", a.interactions)

\* A command that changes a member of the root.
LEMMA PutLeads ==
  ASSUME NEW d, NEW c, NEW f, Goes(d, c, f)
  PROVE  /\ \A e : Leads(d, <<c>>, e) => e = f
         /\ ValidateSpec(f) => Leads(d, <<c>>, f)
<1>1. PICK built, next : built = BuildPatch(c, d) /\ next = ApplyJsonPatch(d, built.patch)
  OBVIOUS
<1>2. built.kind = "patch" /\ next = f
  BY <1>1 DEF Goes
<1>3. \A e : Leads(d, <<c>>, e) <=> Fair(e) = IF ValidateSpec(f) THEN Fair(f) ELSE Foul(f)
  <2>1. \A e : Leads(d, <<c>>, e) <=> Outcomes(d, c, Fair(e))
    BY LeadsOne
  <2> QED
    BY <1>1, <1>2, <2>1 DEF Outcomes
<1>4. \A e : Foul(f) # Fair(e) /\ (Fair(e) = Fair(f) => e = f)
  BY States
<1> QED
  BY <1>3, <1>4

LEMMA ViewLeads ==
  ASSUME NEW b, NEW a, NEW d, d.view = b.view, NEW cs, cs = DiffView(b.view, a.view)
  PROVE  /\ IsSeq(cs)
         /\ \A e : Leads(d, cs, e) => e = Viewed(b, a, d)
         /\ ValidateSpec(Viewed(b, a, d)) => Leads(d, cs, Viewed(b, a, d))
<1>1. PICK N : N = ViewDiff(b, a)
  OBVIOUS
<1>2. CASE N = {}
  <2>1. cs = << >> /\ Viewed(b, a, d) = d
    BY <1>1, <1>2 DEF DiffView, ViewDiff, Viewed
  <2>2. IsSeq(<< >>)
    BY EmptyHolds
  <2> QED
    BY <2>1, <2>2, LeadsNowhere
<1>3. CASE N # {}
  <2>1. PICK v : v = [n \in N |-> Member(a.view, n, Absent)]
    OBVIOUS
  <2>2. PICK c : c = DiffCommand("setView", [value |-> v])
    OBVIOUS
  <2>3. cs = <<c>>
    BY <1>1, <1>3, <2>1, <2>2 DEF DiffView, ViewDiff
  <2>4. c.type = "setView" /\ c.value = v
    BY ONLY <2>2 DEF DiffCommand, Merge, Has
  <2>5. Viewed(b, a, d) = With(d, "view", Merge(c.value, d.view))
    BY <1>1, <1>3, <2>1, <2>4 DEF Viewed, NewView
  <2>6. Goes(d, c, Viewed(b, a, d))
    BY <2>4, <2>5, ViewSet
  <2>7. IsSeq(<<c>>)
    BY AppendOne, EmptyHolds
  <2> QED
    BY <2>3, <2>6, <2>7, PutLeads
<1> QED
  BY <1>2, <1>3

LEMMA TogglesLead ==
  ASSUME NEW b, NEW a, NEW d, NEW cs, cs = DiffInteractions(b, a)
  PROVE  /\ IsSeq(cs)
         /\ \A e : Leads(d, cs, e) => e = Switched(b, a, d)
         /\ ValidateSpec(Switched(b, a, d)) => Leads(d, cs, Switched(b, a, d))
<1>1. CASE Toggle(b, a)
  <2>1. cs = << >> /\ Switched(b, a, d) = d
    BY <1>1 DEF DiffInteractions, Toggle, Switched
  <2>2. IsSeq(<< >>)
    BY EmptyHolds
  <2> QED
    BY <2>1, <2>2, LeadsNowhere
<1>2. CASE ~Toggle(b, a)
  <2>1. PICK v, c : /\ v = a.interactions
                    /\ c = DiffCommand("setInteractions", [member |-> "interactions", value |-> v])
    OBVIOUS
  <2>2. cs = <<c>>
    BY <1>2, <2>1 DEF DiffInteractions, Toggle
  <2>3. c.type = "setInteractions" /\ c.member = "interactions" /\ c.value = v
    <3>1. c = DiffCommand("setInteractions", [member |-> "interactions", value |-> v])
      BY <2>1
    <3> QED
      BY ONLY <3>1 DEF DiffCommand, Merge, Has
  <2>4. Switched(b, a, d) = With(d, c.member, c.value)
    BY <1>2, <2>1, <2>3 DEF Switched
  <2>5. Goes(d, c, Switched(b, a, d))
    BY <2>3, <2>4, MemberSet
  <2>6. IsSeq(<<c>>)
    BY AppendOne, EmptyHolds
  <2> QED
    BY <2>2, <2>5, <2>6, PutLeads
<1> QED
  BY <1>1, <1>2


\* The spec after all commands, whatever its layers: its view says what the new view
\* says, and the rest is as it was but for the sources and the toggles.
ViewedAs(b, a, e, L) ==
    /\ IsObject(e) /\ {"view", "sources", "layers"} \subseteq DOMAIN e
    /\ e.sources = a.sources /\ e.layers = L
    /\ DOMAIN e.view \subseteq ViewMembers
    /\ \A n \in ViewMembers : Member(e.view, n, Absent) = Member(a.view, n, Absent)
    /\ \A n : n \notin {"view", "sources", "layers", "interactions"} => Same(e, b, n)

FinishedAs(b, a, e, L) ==
    /\ ViewedAs(b, a, e, L)
    /\ Has(a, "interactions") => Same(e, a, "interactions")
    /\ ~Has(a, "interactions") => Same(e, b, "interactions")

LEMMA FinishedIs ==
  ASSUME NEW b, Settled(b), NEW a, Settled(a), NEW L, NEW e,
         e = Switched(b, a, Viewed(b, a, Made(b, a.sources, L)))
  PROVE  ViewedAs(b, a, Viewed(b, a, Made(b, a.sources, L)), L) /\ FinishedAs(b, a, e, L)
<1>1. PICK d, u, N, w : /\ d = Made(b, a.sources, L) /\ u = Viewed(b, a, d) /\ N = ViewDiff(b, a)
                        /\ w = [n \in N |-> Member(a.view, n, Absent)]
  OBVIOUS
<1>2. /\ Frame(b) /\ DOMAIN b.view \subseteq ViewMembers /\ DOMAIN a.view \subseteq ViewMembers
      /\ Has(a, "interactions") => a.interactions # Absent
  BY DEF Settled, SpecShape, DiffShape, Frame
<1>3. /\ IsObject(d) /\ DOMAIN d = DOMAIN b /\ {"view", "sources", "layers"} \subseteq DOMAIN d
      /\ d.sources = a.sources /\ d.layers = L /\ d.view = b.view
      /\ \A n \in DOMAIN b : n \notin {"sources", "layers"} => d[n] = b[n]
  BY <1>1, <1>2, MadeIs DEF Frame
<1>4. DOMAIN w = N /\ \A n \in N : w[n] = Member(a.view, n, Absent)
  BY <1>1
<1>5. \A n \in ViewMembers : n \notin N => Member(b.view, n, Absent) = Member(a.view, n, Absent)
  BY <1>1 DEF ViewDiff
<1>6. N \subseteq ViewMembers
  BY <1>1 DEF ViewDiff
<1>7. PICK v : v = IF N = {} THEN b.view ELSE Merge(w, b.view)
  OBVIOUS
<1>8. DOMAIN v \subseteq ViewMembers /\ \A n \in ViewMembers : Member(v, n, Absent) = Member(a.view, n, Absent)
  <2>1. CASE N = {}
    BY <1>2, <1>5, <1>7, <2>1
  <2>2. CASE N # {}
    <3>1. /\ DOMAIN v = N \cup DOMAIN b.view /\ \A n \in N : v[n] = w[n]
          /\ \A n \in DOMAIN b.view \ N : v[n] = b.view[n]
      BY <1>4, <1>7, <2>2 DEF Merge, Has
    <3>2. ASSUME NEW n \in N PROVE Member(v, n, Absent) = Member(a.view, n, Absent)
      <4>1. n \in DOMAIN v /\ v[n] = Member(a.view, n, Absent)
        BY <1>4, <3>1
      <4>2. Member(v, n, Absent) = v[n]
        BY <4>1 DEF Member, Has
      <4> QED
        BY <4>1, <4>2
    <3>3. ASSUME NEW n \in ViewMembers \ N PROVE Member(v, n, Absent) = Member(b.view, n, Absent)
      BY <3>1 DEF Member, Has
    <3> QED
      BY <1>2, <1>5, <1>6, <3>1, <3>2, <3>3
  <2> QED
    BY <2>1, <2>2
<1>9. /\ IsObject(u) /\ DOMAIN u = DOMAIN b /\ u.sources = a.sources /\ u.layers = L /\ u.view = v
      /\ \A n \in DOMAIN b : n \notin {"view", "sources", "layers"} => u[n] = b[n]
  <2>1. CASE N = {}
    <3>1. u = d
      BY <1>1, <2>1 DEF Viewed
    <3> QED
      BY <1>3, <1>7, <2>1, <3>1
  <2>2. CASE N # {}
    <3>1. u = With(d, "view", v)
      BY <1>1, <1>7, <2>2 DEF Viewed, NewView
    <3>2. /\ IsObject(u) /\ DOMAIN u = DOMAIN d /\ u.view = v
          /\ \A n \in DOMAIN d : n # "view" => u[n] = d[n]
      BY <1>3, <3>1 DEF With, IsObject
    <3> QED
      BY <1>3, <3>2
  <2> QED
    BY <2>1, <2>2
<1>10. e = Switched(b, a, u)
  BY <1>1
<1>11. ASSUME Toggle(b, a) PROVE FinishedAs(b, a, e, L)
  <2>1. e = u
    BY <1>10, <1>11 DEF Switched
  <2>2. /\ ~Has(a, "interactions") => Same(e, b, "interactions")
        /\ Has(a, "interactions") => Same(e, a, "interactions")
    <3>1. Same(e, b, "interactions")
      BY <1>9, <2>1 DEF Same, Has
    <3>2. Has(a, "interactions") => Same(b, a, "interactions")
      BY <1>2, <1>11 DEF Same, Toggle, Member
    <3> QED
      BY <3>1, <3>2 DEF Same
  <2>3. \A n : n \notin {"view", "sources", "layers", "interactions"} => Same(e, b, n)
    BY <1>9, <2>1 DEF Same, Has
  <2> QED
    BY <1>3, <1>8, <1>9, <2>1, <2>2, <2>3 DEF FinishedAs, ViewedAs
<1>12. ASSUME ~Toggle(b, a) PROVE FinishedAs(b, a, e, L)
  <2>1. e = With(u, "interactions", a.interactions) /\ Has(a, "interactions")
    BY <1>10, <1>12 DEF Switched, Toggle
  <2>2. /\ IsObject(e) /\ DOMAIN e = DOMAIN u \cup {"interactions"} /\ e.interactions = a.interactions
        /\ \A n \in DOMAIN u : n # "interactions" => e[n] = u[n]
    BY <2>1 DEF With, IsObject
  <2>3. \A n : n \notin {"view", "sources", "layers", "interactions"} => Same(e, b, n)
    BY <1>9, <2>2 DEF Same, Has
  <2>4. Same(e, a, "interactions")
    BY <2>1, <2>2 DEF Same, Has
  <2>5. e.sources = a.sources /\ e.layers = L /\ e.view = v
    BY <1>3, <1>9, <2>2
  <2> QED
    BY <1>3, <1>8, <1>9, <2>1, <2>2, <2>3, <2>4, <2>5 DEF FinishedAs, ViewedAs
<1>13. ViewedAs(b, a, u, L)
  <2>1. \A n : n \notin {"view", "sources", "layers", "interactions"} => Same(u, b, n)
    BY <1>9 DEF Same, Has
  <2> QED
    BY <1>3, <1>8, <1>9, <2>1 DEF ViewedAs
<1> QED
  BY <1>1, <1>11, <1>12, <1>13

\* What specs mean is the same when all they say is.
LEMMA MeaningIs ==
  ASSUME NEW d, IsObject(d), "view" \in DOMAIN d, DOMAIN d.view \subseteq ViewMembers,
         NEW e, IsObject(e), "view" \in DOMAIN e, DOMAIN e.view \subseteq ViewMembers,
         \A n \in ViewMembers : Member(d.view, n, Absent) = Member(e.view, n, Absent)
  PROVE  Meaning(d) = Meaning(e) <=> \A n : n \notin {"view", "revision"} => Same(d, e, n)
<1>1. PICK v, w : /\ v = Only(d.view, {n \in DOMAIN d.view : d.view[n] # Absent})
                  /\ w = Only(e.view, {n \in DOMAIN e.view : e.view[n] # Absent})
  OBVIOUS
<1>2. v = w
  <2>1. /\ IsObject(v) /\ DOMAIN v = {n \in DOMAIN d.view : d.view[n] # Absent}
        /\ \A n \in DOMAIN v : v[n] = d.view[n]
    BY <1>1 DEF Only, IsObject
  <2>2. /\ IsObject(w) /\ DOMAIN w = {n \in DOMAIN e.view : e.view[n] # Absent}
        /\ \A n \in DOMAIN w : w[n] = e.view[n]
    BY <1>1 DEF Only, IsObject
  <2>3. \A n \in ViewMembers : (n \in DOMAIN d.view /\ d.view[n] # Absent) <=>
                               (n \in DOMAIN e.view /\ e.view[n] # Absent)
    BY DEF Member, Has
  <2>4. \A n \in ViewMembers : n \in DOMAIN d.view /\ n \in DOMAIN e.view => d.view[n] = e.view[n]
    BY DEF Member, Has
  <2>5. DOMAIN v = DOMAIN w
    BY <2>1, <2>2, <2>3
  <2>6. \A n \in DOMAIN v : v[n] = w[n]
    BY <2>1, <2>2, <2>4, <2>5
  <2> QED
    BY <2>1, <2>2, <2>5, <2>6 DEF IsObject
<1>3. PICK p, q : p = Meaning(d) /\ q = Meaning(e)
  OBVIOUS
<1>4. /\ IsObject(p) /\ DOMAIN p = DOMAIN d \ {"revision"} /\ p.view = v
      /\ \A n \in DOMAIN d : n \notin {"view", "revision"} => p[n] = d[n]
  BY <1>1, <1>3 DEF Meaning, Without, IsObject
<1>5. /\ IsObject(q) /\ DOMAIN q = DOMAIN e \ {"revision"} /\ q.view = w
      /\ \A n \in DOMAIN e : n \notin {"view", "revision"} => q[n] = e[n]
  BY <1>1, <1>3 DEF Meaning, Without, IsObject
<1>6. ASSUME p = q, NEW n, n \notin {"view", "revision"} PROVE Same(d, e, n)
  BY <1>4, <1>5, <1>6 DEF Same, Has
<1>7. ASSUME \A n : n \notin {"view", "revision"} => Same(d, e, n) PROVE p = q
  <2>1. DOMAIN p = DOMAIN q
    <3>1. \A n : n \notin {"view", "revision"} => (n \in DOMAIN d <=> n \in DOMAIN e)
      BY <1>7 DEF Same, Has
    <3> QED
      BY <1>4, <1>5, <3>1
  <2>2. \A n \in DOMAIN p : p[n] = q[n]
    BY <1>2, <1>4, <1>5, <1>7, <2>1 DEF Same, Has
  <2> QED
    BY <1>4, <1>5, <2>1, <2>2 DEF IsObject
<1> QED
  BY <1>3, <1>6, <1>7


LEMMA ExpressibleIs ==
  ASSUME NEW b, NEW a
  PROVE  Expressible(b, a) <=>
             /\ \A n : n \notin {"sources", "layers", "view", "interactions", "revision"} => Same(b, a, n)
             /\ Has(b, "interactions") => Has(a, "interactions")
<1>1. PICK X, p, q : /\ X = {"sources", "layers", "view", "interactions", "revision"}
                     /\ p = Only(b, DOMAIN b \ X) /\ q = Only(a, DOMAIN a \ X)
  OBVIOUS
<1>2. /\ IsObject(p) /\ DOMAIN p = DOMAIN b \ X /\ \A n \in DOMAIN p : p[n] = b[n]
      /\ IsObject(q) /\ DOMAIN q = DOMAIN a \ X /\ \A n \in DOMAIN q : q[n] = a[n]
  BY <1>1 DEF Only, IsObject
<1>3. ASSUME p = q, NEW n, n \notin X PROVE Same(b, a, n)
  BY <1>2, <1>3 DEF Same, Has
<1>4. ASSUME \A n : n \notin X => Same(b, a, n) PROVE p = q
  <2>1. DOMAIN p = DOMAIN q
    <3>1. \A n : n \notin X => (n \in DOMAIN b <=> n \in DOMAIN a)
      BY <1>4 DEF Same, Has
    <3> QED
      BY <1>2, <3>1
  <2>2. \A n \in DOMAIN p : p[n] = q[n]
    BY <1>2, <1>4, <2>1 DEF Same, Has
  <2> QED
    BY <1>2, <2>1, <2>2 DEF IsObject
<1>5. Expressible(b, a) <=> p = q /\ (Has(b, "interactions") => Has(a, "interactions"))
  BY <1>1 DEF Expressible
<1> QED
  BY <1>1, <1>3, <1>4, <1>5

\* What is made means the new spec exactly when commands can express the rest and
\* the layers are those of the new spec.
LEMMA FinishedMeans ==
  ASSUME NEW b, Settled(b), NEW a, Settled(a), NEW L, NEW e, FinishedAs(b, a, e, L)
  PROVE  Meaning(e) = Meaning(a) <=> Expressible(b, a) /\ L = a.layers
<1>1. /\ IsObject(a) /\ {"view", "sources", "layers"} \subseteq DOMAIN a /\ DOMAIN a.view \subseteq ViewMembers
  BY DEF Settled, SpecShape, DiffShape
<1>2. Meaning(e) = Meaning(a) <=> \A n : n \notin {"view", "revision"} => Same(e, a, n)
  BY <1>1, MeaningIs DEF FinishedAs, ViewedAs
<1>3. Same(e, a, "sources") /\ (Same(e, a, "layers") <=> L = a.layers)
  BY <1>1 DEF FinishedAs, ViewedAs, Same, Has
<1>4. Same(e, a, "interactions") <=> (Has(b, "interactions") => Has(a, "interactions"))
  BY DEF FinishedAs, Same
<1>5. ASSUME NEW n, n \notin {"sources", "layers", "view", "interactions", "revision"}
      PROVE  Same(e, a, n) <=> Same(b, a, n)
  BY <1>5 DEF FinishedAs, ViewedAs, Same
<1>6. (\A n : n \notin {"view", "revision"} => Same(e, a, n)) <=>
          /\ Same(e, a, "sources") /\ Same(e, a, "layers") /\ Same(e, a, "interactions")
          /\ \A n : n \notin {"sources", "layers", "view", "interactions", "revision"} => Same(e, a, n)
  OBVIOUS
<1> QED
  BY <1>2, <1>3, <1>4, <1>5, <1>6, ExpressibleIs

LEMMA ViewedValid ==
  ASSUME NEW b, Settled(b), NEW a, Settled(a), Expressible(b, a), NEW e, ViewedAs(b, a, e, a.layers)
  PROVE  ValidateSpec(e)
<1>1. /\ ValidBase(b) /\ ValidBase(a) /\ DistinctIds(a.layers)
      /\ \A i \in DOMAIN a.layers : LayerFits(a.layers[i], a.sources, a)
  BY ValidIs DEF Settled
<1>2. e.sources = a.sources /\ e.layers = a.layers
  BY DEF ViewedAs
<1>3. Mode(e) = Mode(a)
  BY DEF ViewedAs, Mode, ViewMembers
<1>4. Same(e, a, "capabilities") /\ Same(e, a, "extensions") /\ Same(e, b, "revision")
  <2>1. /\ Same(e, b, "capabilities") /\ Same(e, b, "extensions") /\ Same(e, b, "revision")
        /\ Same(b, a, "capabilities") /\ Same(b, a, "extensions")
    BY ExpressibleIs DEF ViewedAs
  <2> QED
    BY <2>1 DEF Same
<1>5. Alike(e, a)
  BY <1>3, <1>4 DEF Alike
<1>6. \A l : LayerFits(l, a.sources, e) <=> LayerFits(l, a.sources, a)
  BY <1>5, AlikeFit
<1>7. ValidBase(e)
  <2>1. Member(e, "revision", 0) = Member(b, "revision", 0)
    BY <1>4 DEF Same, Member, Has
  <2>2. Extensions(e) = Extensions(a) /\ Requested(e, "dimensions") = Requested(a, "dimensions")
    BY <1>5, AlikeFit
  <2>3. Scene(e) = Scene(a) /\ (HasScene(e) <=> HasScene(a))
    BY <2>2 DEF Scene, HasScene
  <2>4. ValidScene(e) <=> ValidScene(a)
    BY <2>3 DEF ValidScene, SceneLayers, SceneSources
  <2> QED
    BY <1>1, <1>3, <2>1, <2>2, <2>3, <2>4 DEF ValidBase
<1> QED
  BY <1>1, <1>2, <1>6, <1>7, ValidIs

=============================================================================
