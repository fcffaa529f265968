---------------------------- MODULE FoldTheorems ----------------------------
(***************************************************************************)
(* What FoldLeft and FoldRight compute, one element at a time.  The        *)
(* operator that is folded is a constant: a module that folds with an      *)
(* operator of its own instantiates this one with it.  The context is what *)
(* that operator uses besides its arguments.  The folds are what the       *)
(* definitions of SequencesExt and Folds come to, written out: an instance *)
(* of this module brings every definition it extends into each proof.      *)
(***************************************************************************)
EXTENDS Integers, WellFoundedInduction, TLAPS

CONSTANT Op(_, _, _)

Highest(s) == CHOOSE x \in s : \A y \in s : x >= y
Lowest(s) == CHOOSE x \in s : \A y \in s : x =< y

LeftStep(context, base, seq, g, s) ==
    IF s = {} THEN base ELSE Op(context, g[s \ {Highest(s)}], seq[Highest(s)])

RightStep(context, base, seq, g, s) ==
    IF s = {} THEN base ELSE Op(context, seq[Lowest(s)], g[s \ {Lowest(s)}])

LeftFold(context, base, seq) ==
    (CHOOSE g : g = [s \in SUBSET DOMAIN seq |-> LeftStep(context, base, seq, g, s)])[DOMAIN seq]

RightFold(context, seq, base) ==
    (CHOOSE g : g = [s \in SUBSET DOMAIN seq |-> RightStep(context, base, seq, g, s)])[DOMAIN seq]

\* The values of a fold of n elements from the left, and of one from the right.
LeftSteps(context, base, seq, n, f) ==
    /\ f[0] = base
    /\ \A k \in 1..n : f[k] = Op(context, f[k - 1], seq[k])

RightSteps(context, base, seq, n, f) ==
    /\ f[n + 1] = base
    /\ \A k \in 1..n : f[k] = Op(context, seq[k], f[k + 1])

(***************************************************************************)
(* Induction over the natural numbers in the form of a set.                *)
(***************************************************************************)
LEMMA Induction ==
  ASSUME NEW S, 0 \in S, \A k \in Nat : k \in S => k + 1 \in S
  PROVE  Nat \subseteq S
<1>1. SUFFICES ASSUME Nat \ S # {} PROVE FALSE
  OBVIOUS
<1>2. PICK n \in Nat \ S : \A m \in Nat \ S : ~(<<m, n>> \in OpToRel(<, Nat))
  BY <1>1, NatLessThanWellFounded, WFMin
<1>3. \A m \in Nat \ S : ~(m < n)
  BY <1>2 DEF OpToRel
<1>4. n # 0 /\ n - 1 \in Nat
  OBVIOUS
<1>5. n - 1 \in S
  BY <1>3, <1>4
<1> QED
  BY <1>4, <1>5, n - 1 + 1 = n

(***************************************************************************)
(* The greatest and the least of the first numbers.                        *)
(***************************************************************************)
LEMMA HighestIsLast ==
  ASSUME NEW s, s \subseteq Int, NEW k \in s, \A y \in s : k >= y
  PROVE  Highest(s) = k
<1>1. Highest(s) \in s /\ \A y \in s : Highest(s) >= y
  BY DEF Highest
<1>2. k \in Int /\ \A m \in s : m \in Int
  OBVIOUS
<1>3. \A m \in Int : m >= k /\ k >= m => m = k
  BY <1>2
<1>4. Highest(s) \in Int /\ Highest(s) >= k /\ k >= Highest(s)
  BY <1>1, <1>2
<1> QED
  BY <1>3, <1>4

LEMMA LowestIsFirst ==
  ASSUME NEW s, s \subseteq Int, NEW k \in s, \A y \in s : k =< y
  PROVE  Lowest(s) = k
<1>1. Lowest(s) \in s /\ \A y \in s : Lowest(s) =< y
  BY DEF Lowest
<1>2. k \in Int /\ \A m \in s : m \in Int
  OBVIOUS
<1>3. \A m \in Int : m =< k /\ k =< m => m = k
  BY <1>2
<1>4. Lowest(s) \in Int /\ Lowest(s) =< k /\ k =< Lowest(s)
  BY <1>1, <1>2
<1> QED
  BY <1>3, <1>4

(***************************************************************************)
(* The functions that the folds are defined by.                            *)
(***************************************************************************)
LeftTable(context, base, seq, n, g) ==
    g = [s \in SUBSET (1..n) |-> LeftStep(context, base, seq, g, s)]

RightTable(context, base, seq, n, g) ==
    g = [s \in SUBSET (1..n) |-> RightStep(context, base, seq, g, s)]

LEMMA LeftStepExists ==
  ASSUME NEW context, NEW base, NEW seq, NEW n \in Nat
  PROVE  \E g : LeftTable(context, base, seq, n, g)
<1> DEFINE S == {k \in Nat : \E g : g = [s \in SUBSET (1..k) |->
                                           LeftStep(context, base, seq, g, s)]}
<1>1. 0 \in S
  <2> DEFINE g == [s \in SUBSET (1..0) |-> base]
  <2>1. 1..0 = {} /\ SUBSET (1..0) = {{}}
    OBVIOUS
  <2>2. g = [s \in SUBSET (1..0) |-> LeftStep(context, base, seq, g, s)]
    BY <2>1 DEF LeftStep
  <2> QED
    BY <2>2
<1>2. ASSUME NEW k \in Nat, k \in S PROVE k + 1 \in S
  <2>1. PICK h : h = [s \in SUBSET (1..k) |-> LeftStep(context, base, seq, h, s)]
    BY <1>2
  <2> DEFINE g == [s \in SUBSET (1..(k + 1)) |->
                      IF k + 1 \in s THEN Op(context, h[s \ {k + 1}], seq[k + 1]) ELSE h[s]]
  <2>2. ASSUME NEW s \in SUBSET (1..(k + 1))
        PROVE  g[s] = LeftStep(context, base, seq, g, s)
    <3>1. CASE k + 1 \in s
      <4>1. Highest(s) = k + 1
        <5>1. s \subseteq Int /\ k + 1 \in s /\ \A y \in s : k + 1 >= y
          BY <3>1, <2>2
        <5> HIDE DEF g
        <5> QED
          BY <5>1, HighestIsLast
      <4>2. s \ {k + 1} \in SUBSET (1..k) /\ s \ {k + 1} \in SUBSET (1..(k + 1))
        BY <2>2
      <4>3. g[s \ {k + 1}] = h[s \ {k + 1}]
        BY <4>2
      <4>4. g[s] = Op(context, h[s \ {k + 1}], seq[k + 1])
        BY <3>1
      <4>5. s # {}
        BY <3>1
      <4> HIDE DEF g
      <4> QED
        BY <4>1, <4>3, <4>4, <4>5 DEF LeftStep
    <3>2. CASE k + 1 \notin s
      <4>1. s \in SUBSET (1..k)
        BY <3>2, <2>2
      <4>2. g[s] = LeftStep(context, base, seq, h, s)
        BY <4>1, <2>1, <3>2
      <4>3. CASE s = {}
        BY <4>2, <4>3 DEF LeftStep
      <4>4. CASE s # {}
        <5>1. s \ {Highest(s)} \in SUBSET (1..(k + 1)) /\ k + 1 \notin s \ {Highest(s)}
          BY <3>2
        <5>2. g[s \ {Highest(s)}] = h[s \ {Highest(s)}]
          BY <5>1
        <5> HIDE DEF g
        <5> QED
          BY <4>2, <4>4, <5>2 DEF LeftStep
      <4> QED
        BY <4>3, <4>4
    <3> QED
      BY <3>1, <3>2
  <2>3. g = [s \in SUBSET (1..(k + 1)) |-> g[s]]
    OBVIOUS
  <2>4. [s \in SUBSET (1..(k + 1)) |-> g[s]] =
          [s \in SUBSET (1..(k + 1)) |-> LeftStep(context, base, seq, g, s)]
    <3> HIDE DEF g
    <3> QED
      BY <2>2
  <2>5. \E f : f = [s \in SUBSET (1..(k + 1)) |-> LeftStep(context, base, seq, f, s)]
    <3> HIDE DEF g
    <3> QED
      BY <2>3, <2>4
  <2> QED
    BY <2>5
<1>3. Nat \subseteq S
  <2> HIDE DEF S
  <2> QED
    BY <1>1, <1>2, Induction
<1> QED
  BY <1>3 DEF LeftTable

LEMMA RightStepExists ==
  ASSUME NEW context, NEW base, NEW seq, NEW n \in Nat
  PROVE  \E g : RightTable(context, base, seq, n, g)
<1> DEFINE S == {k \in Nat : \E g : g = [s \in SUBSET ((n - k + 1)..n) |->
                                           RightStep(context, base, seq, g, s)]}
<1>1. 0 \in S
  <2> DEFINE g == [s \in SUBSET ((n - 0 + 1)..n) |-> base]
  <2>1. (n - 0 + 1)..n = {}
    OBVIOUS
  <2>2. g = [s \in SUBSET ((n - 0 + 1)..n) |-> RightStep(context, base, seq, g, s)]
    BY <2>1 DEF RightStep
  <2> QED
    BY <2>2
<1>2. ASSUME NEW k \in Nat, k \in S PROVE k + 1 \in S
  <2> DEFINE m == n - k
  <2>1. PICK h : h = [s \in SUBSET ((m + 1)..n) |-> RightStep(context, base, seq, h, s)]
    BY <1>2
  <2>m. m \in Int /\ m = n - (k + 1) + 1 /\ m = n - k
    OBVIOUS
  <2> HIDE DEF m
  <2> DEFINE g == [s \in SUBSET (m..n) |->
                      IF m \in s THEN Op(context, seq[m], h[s \ {m}]) ELSE h[s]]
  <2>2. ASSUME NEW s \in SUBSET (m..n)
        PROVE  g[s] = RightStep(context, base, seq, g, s)
    <3>1. CASE m \in s
      <4>1. Lowest(s) = m
        <5>1. s \subseteq Int /\ m \in s /\ \A y \in s : m =< y
          BY <3>1, <2>2, <2>m
        <5> HIDE DEF g
        <5> QED
          BY <5>1, LowestIsFirst
      <4>2. s \ {m} \in SUBSET ((m + 1)..n) /\ s \ {m} \in SUBSET (m..n)
        BY <2>2, <2>m
      <4>3. g[s \ {m}] = h[s \ {m}]
        BY <4>2
      <4>4. g[s] = Op(context, seq[m], h[s \ {m}])
        BY <3>1
      <4>5. s # {}
        BY <3>1
      <4> HIDE DEF g
      <4> QED
        BY <4>1, <4>3, <4>4, <4>5 DEF RightStep
    <3>2. CASE m \notin s
      <4>1. s \in SUBSET ((m + 1)..n)
        BY <3>2, <2>2, <2>m
      <4>2. g[s] = RightStep(context, base, seq, h, s)
        BY <4>1, <2>1, <3>2
      <4>3. CASE s = {}
        BY <4>2, <4>3 DEF RightStep
      <4>4. CASE s # {}
        <5>1. s \ {Lowest(s)} \in SUBSET (m..n) /\ m \notin s \ {Lowest(s)}
          BY <3>2
        <5>2. g[s \ {Lowest(s)}] = h[s \ {Lowest(s)}]
          BY <5>1
        <5> HIDE DEF g
        <5> QED
          BY <4>2, <4>4, <5>2 DEF RightStep
      <4> QED
        BY <4>3, <4>4
    <3> QED
      BY <3>1, <3>2
  <2>3. g = [s \in SUBSET (m..n) |-> g[s]]
    OBVIOUS
  <2>4. [s \in SUBSET (m..n) |-> g[s]] =
          [s \in SUBSET (m..n) |-> RightStep(context, base, seq, g, s)]
    <3> HIDE DEF g
    <3> QED
      BY <2>2
  <2>5. \E f : f = [s \in SUBSET (m..n) |-> RightStep(context, base, seq, f, s)]
    <3> HIDE DEF g
    <3> QED
      BY <2>3, <2>4
  <2> QED
    BY <2>5, <2>m
<1>3. Nat \subseteq S
  <2> HIDE DEF S
  <2> QED
    BY <1>1, <1>2, Induction
<1>4. n - n + 1 = 1
  OBVIOUS
<1> QED
  BY <1>3, <1>4 DEF RightTable

(***************************************************************************)
(* What a fold is: the value of its last step.                             *)
(***************************************************************************)
LEMMA LeftFoldSteps ==
  ASSUME NEW context, NEW base, NEW seq, NEW n \in Nat, DOMAIN seq = 1..n
  PROVE  \E f : /\ LeftSteps(context, base, seq, n, f)
                /\ f[n] = LeftFold(context, base, seq)
<1> DEFINE g == CHOOSE h : LeftTable(context, base, seq, n, h)
<1>1. LeftTable(context, base, seq, n, g)
  BY LeftStepExists, Zenon
<1>2. LeftFold(context, base, seq) = g[1..n]
  BY DEF LeftTable, LeftFold
<1>3. \A s \in SUBSET (1..n) : g[s] = LeftStep(context, base, seq, g, s)
  <2>1. g = [s \in SUBSET (1..n) |-> LeftStep(context, base, seq, g, s)]
    BY <1>1 DEF LeftTable
  <2> HIDE DEF g
  <2> QED
    BY <2>1
<1> HIDE DEF g
<1> DEFINE f == [k \in 0..n |-> g[1..k]]
<1>4. f[0] = base
  <2>1. 1..0 = {}
    OBVIOUS
  <2>2. g[{}] = base
    BY <1>3 DEF LeftStep
  <2> QED
    BY <2>1, <2>2
<1>5. ASSUME NEW k \in 1..n PROVE f[k] = Op(context, f[k - 1], seq[k])
  <2>1. (1..k) \ {k} = 1..(k - 1)
    OBVIOUS
  <2>2. Highest(1..k) = k
    <3>1. 1..k \subseteq Int /\ k \in 1..k /\ \A y \in 1..k : k >= y
      OBVIOUS
    <3> QED
      BY <3>1, HighestIsLast
  <2>3. 1..k \in SUBSET (1..n) /\ 1..k # {}
    <3>1. k \in 1..k /\ \A i \in 1..k : i \in 1..n
      OBVIOUS
    <3> HIDE DEF f
    <3> QED
      BY <3>1
  <2>4. g[1..k] = Op(context, g[1..(k - 1)], seq[k])
    BY <1>3, <2>1, <2>2, <2>3 DEF LeftStep
  <2> QED
    BY <2>4
<1>6. f[n] = LeftFold(context, base, seq)
  BY <1>2
<1> HIDE DEF f
<1> QED
  BY <1>4, <1>5, <1>6 DEF LeftSteps

LEMMA RightFoldSteps ==
  ASSUME NEW context, NEW base, NEW seq, NEW n \in Nat, DOMAIN seq = 1..n
  PROVE  \E f : /\ RightSteps(context, base, seq, n, f)
                /\ f[1] = RightFold(context, seq, base)
<1> DEFINE g == CHOOSE h : RightTable(context, base, seq, n, h)
<1>1. RightTable(context, base, seq, n, g)
  BY RightStepExists, Zenon
<1>2. RightFold(context, seq, base) = g[1..n]
  BY DEF RightTable, RightFold
<1>3. \A s \in SUBSET (1..n) : g[s] = RightStep(context, base, seq, g, s)
  <2>1. g = [s \in SUBSET (1..n) |-> RightStep(context, base, seq, g, s)]
    BY <1>1 DEF RightTable
  <2> HIDE DEF g
  <2> QED
    BY <2>1
<1> HIDE DEF g
<1> DEFINE f == [k \in 1..(n + 1) |-> g[k..n]]
<1>4. f[n + 1] = base
  <2>1. (n + 1)..n = {}
    OBVIOUS
  <2>2. g[{}] = base
    BY <1>3 DEF RightStep
  <2> QED
    BY <2>1, <2>2
<1>5. ASSUME NEW k \in 1..n PROVE f[k] = Op(context, seq[k], f[k + 1])
  <2>1. (k..n) \ {k} = (k + 1)..n
    OBVIOUS
  <2>2. Lowest(k..n) = k
    <3>1. k..n \subseteq Int /\ k \in k..n /\ \A y \in k..n : k =< y
      OBVIOUS
    <3> QED
      BY <3>1, LowestIsFirst
  <2>3. k..n \in SUBSET (1..n) /\ k..n # {}
    <3>1. k \in k..n /\ \A i \in k..n : i \in 1..n
      OBVIOUS
    <3> HIDE DEF f
    <3> QED
      BY <3>1
  <2>4. g[k..n] = Op(context, seq[k], g[(k + 1)..n])
    BY <1>3, <2>1, <2>2, <2>3 DEF RightStep
  <2> QED
    BY <2>4
<1>6. f[1] = RightFold(context, seq, base)
  BY <1>2
<1> HIDE DEF f
<1> QED
  BY <1>4, <1>5, <1>6 DEF RightSteps

\* A function that takes the steps of a fold ends with its value.
THEOREM LeftFoldIs ==
  ASSUME NEW context, NEW base, NEW seq, NEW n \in Nat, DOMAIN seq = 1..n,
         NEW f, LeftSteps(context, base, seq, n, f)
  PROVE  LeftFold(context, base, seq) = f[n]
<1>1. PICK g : LeftSteps(context, base, seq, n, g) /\ g[n] = LeftFold(context, base, seq)
  BY LeftFoldSteps
<1> DEFINE S == {k \in Nat : k <= n => f[k] = g[k]}
<1>2. 0 \in S
  BY <1>1 DEF LeftSteps
<1>3. ASSUME NEW k \in Nat, k \in S PROVE k + 1 \in S
  <2>1. SUFFICES ASSUME k + 1 <= n PROVE f[k + 1] = g[k + 1]
    OBVIOUS
  <2>2. f[k] = g[k] /\ k + 1 \in 1..n /\ (k + 1) - 1 = k
    BY <1>3, <2>1
  <2>3. f[k + 1] = Op(context, f[k], seq[k + 1]) /\ g[k + 1] = Op(context, g[k], seq[k + 1])
    BY <1>1, <2>2 DEF LeftSteps
  <2> QED
    BY <2>2, <2>3
<1>4. Nat \subseteq S
  <2> HIDE DEF S
  <2> QED
    BY <1>2, <1>3, Induction
<1> QED
  BY <1>1, <1>4

THEOREM LeftFoldEmpty ==
  ASSUME NEW context, NEW base, NEW seq, DOMAIN seq = {}
  PROVE  LeftFold(context, base, seq) = base
<1>1. DOMAIN seq = 1..0
  OBVIOUS
<1>2. PICK f : LeftSteps(context, base, seq, 0, f) /\ f[0] = LeftFold(context, base, seq)
  BY <1>1, LeftFoldSteps
<1> QED
  BY <1>2 DEF LeftSteps

\* u is s, which has m elements, with t, which has n, after it.
Joined(u, s, m, t, n) ==
    /\ DOMAIN s = 1..m /\ DOMAIN t = 1..n /\ DOMAIN u = 1..(m + n)
    /\ \A k \in 1..m : u[k] = s[k]
    /\ \A k \in 1..n : u[m + k] = t[k]

\* Folding one sequence after another is to fold both.
THEOREM LeftFoldConcat ==
  ASSUME NEW context, NEW base, NEW m \in Nat, NEW n \in Nat,
         NEW s, NEW t, NEW u, Joined(u, s, m, t, n)
  PROVE  LeftFold(context, base, u) = LeftFold(context, LeftFold(context, base, s), t)
<1>1. /\ DOMAIN s = 1..m /\ DOMAIN t = 1..n /\ DOMAIN u = 1..(m + n)
      /\ \A k \in 1..m : u[k] = s[k]
      /\ \A k \in 1..n : u[m + k] = t[k]
  BY DEF Joined
<1>2. PICK h : /\ LeftSteps(context, base, u, m + n, h)
               /\ h[m + n] = LeftFold(context, base, u)
  BY <1>1, LeftFoldSteps
<1>3. LeftFold(context, base, s) = h[m]
  <2>1. ASSUME NEW k \in 1..m PROVE h[k] = Op(context, h[k - 1], s[k])
    <3>1. k \in 1..(m + n)
      OBVIOUS
    <3> QED
      BY <1>1, <1>2, <3>1 DEF LeftSteps
  <2>2. LeftSteps(context, base, s, m, h)
    BY <1>2, <2>1 DEF LeftSteps
  <2> QED
    BY <1>1, <2>2, LeftFoldIs
<1> DEFINE g == [k \in 0..n |-> h[m + k]]
<1>4. LeftSteps(context, h[m], t, n, g)
  <2>1. g[0] = h[m]
    OBVIOUS
  <2>2. ASSUME NEW k \in 1..n PROVE g[k] = Op(context, g[k - 1], t[k])
    <3>1. m + k \in 1..(m + n) /\ (m + k) - 1 = m + (k - 1) /\ k - 1 \in 0..n
      OBVIOUS
    <3>2. h[m + k] = Op(context, h[m + (k - 1)], u[m + k])
      BY <1>2, <3>1 DEF LeftSteps
    <3> QED
      BY <1>1, <3>1, <3>2
  <2> HIDE DEF g
  <2> QED
    BY <2>1, <2>2 DEF LeftSteps
<1>5. g[n] = LeftFold(context, base, u)
  BY <1>2
<1> HIDE DEF g
<1> QED
  BY <1>1, <1>3, <1>4, <1>5, LeftFoldIs

\* One more element is one more step.
THEOREM LeftFoldLast ==
  ASSUME NEW context, NEW base, NEW n \in Nat,
         NEW s, DOMAIN s = 1..n,
         NEW u, DOMAIN u = 1..(n + 1), \A k \in 1..n : u[k] = s[k]
  PROVE  LeftFold(context, base, u) = Op(context, LeftFold(context, base, s), u[n + 1])
<1>1. PICK f : LeftSteps(context, base, s, n, f) /\ f[n] = LeftFold(context, base, s)
  BY LeftFoldSteps
<1> DEFINE g == [k \in 0..(n + 1) |-> IF k = n + 1 THEN Op(context, f[n], u[n + 1]) ELSE f[k]]
<1>2. g[0] = base
  BY <1>1 DEF LeftSteps
<1>3. ASSUME NEW k \in 1..(n + 1) PROVE g[k] = Op(context, g[k - 1], u[k])
  <2>1. CASE k = n + 1
    BY <2>1
  <2>2. CASE k # n + 1
    <3>1. k \in 1..n /\ g[k] = f[k] /\ g[k - 1] = f[k - 1]
      BY <2>2
    <3>2. f[k] = Op(context, f[k - 1], s[k])
      BY <1>1, <3>1 DEF LeftSteps
    <3> HIDE DEF g
    <3> QED
      BY <3>1, <3>2
  <2> QED
    BY <2>1, <2>2
<1>4. g[n + 1] = Op(context, f[n], u[n + 1])
  OBVIOUS
<1> HIDE DEF g
<1>5. LeftSteps(context, base, u, n + 1, g)
  BY <1>2, <1>3 DEF LeftSteps
<1>6. n + 1 \in Nat
  OBVIOUS
<1> QED
  BY <1>1, <1>4, <1>5, <1>6, LeftFoldIs

\* The same from the right: what ends with the value of a fold takes its steps.
THEOREM RightFoldIs ==
  ASSUME NEW context, NEW base, NEW seq, NEW n \in Nat, DOMAIN seq = 1..n,
         NEW f, RightSteps(context, base, seq, n, f)
  PROVE  RightFold(context, seq, base) = f[1]
<1>1. PICK g : RightSteps(context, base, seq, n, g) /\ g[1] = RightFold(context, seq, base)
  BY RightFoldSteps
<1> DEFINE S == {k \in Nat : k <= n => f[n + 1 - k] = g[n + 1 - k]}
<1>2. 0 \in S
  <2>1. n + 1 - 0 = n + 1
    OBVIOUS
  <2> QED
    BY <1>1, <2>1 DEF RightSteps
<1>3. ASSUME NEW k \in Nat, k \in S PROVE k + 1 \in S
  <2>1. SUFFICES ASSUME k + 1 <= n PROVE f[n + 1 - (k + 1)] = g[n + 1 - (k + 1)]
    OBVIOUS
  <2> DEFINE i == n - k
  <2>2. i \in 1..n /\ n + 1 - (k + 1) = i /\ n + 1 - k = i + 1
    BY <2>1
  <2>3. f[i + 1] = g[i + 1]
    BY <1>3, <2>1, <2>2
  <2> HIDE DEF i
  <2>4. f[i] = Op(context, seq[i], f[i + 1]) /\ g[i] = Op(context, seq[i], g[i + 1])
    BY <1>1, <2>2 DEF RightSteps
  <2> QED
    BY <2>2, <2>3, <2>4
<1>4. Nat \subseteq S
  <2> HIDE DEF S
  <2> QED
    BY <1>2, <1>3, Induction
<1>5. n + 1 - n = 1
  OBVIOUS
<1> QED
  BY <1>1, <1>4, <1>5

THEOREM RightFoldLast ==
  ASSUME NEW context, NEW base, NEW n \in Nat,
         NEW s, DOMAIN s = 1..n,
         NEW u, DOMAIN u = 1..(n + 1), \A k \in 1..n : u[k] = s[k]
  PROVE  RightFold(context, u, base) = RightFold(context, s, Op(context, u[n + 1], base))
<1> DEFINE m == n + 1
<1>1. m \in Nat /\ m \in 1..m /\ m = n + 1
  OBVIOUS
<1> HIDE DEF m
<1>2. PICK f : RightSteps(context, base, u, m, f) /\ f[1] = RightFold(context, u, base)
  BY <1>1, RightFoldSteps
<1>3. f[n + 1] = Op(context, u[n + 1], base)
  BY <1>1, <1>2 DEF RightSteps
<1>4. ASSUME NEW k \in 1..n PROVE f[k] = Op(context, s[k], f[k + 1])
  <2>1. k \in 1..m
    BY <1>1
  <2> QED
    BY <1>2, <2>1 DEF RightSteps
<1>5. RightSteps(context, f[n + 1], s, n, f)
  BY <1>4 DEF RightSteps
<1> QED
  BY <1>2, <1>3, <1>5, RightFoldIs
=============================================================================
