--------------------------- MODULE FuzzPlanProofs ---------------------------
(* What FuzzPlan computes, for every template and every list of words: the  *)
(* levels, the values of a level and the paths of a given length, each      *)
(* listed once, and the order of the paths by prefix.                       *)
EXTENDS FuzzPlan, FiniteSetTheorems, SequenceTheorems, WellFoundedInduction, TLAPS

-----------------------------------------------------------------------------
(* Induction.  The subsets of Nat are well founded by inclusion, so a set   *)
(* of numbers that is not empty has a least element; and what a recursive   *)
(* function computes follows one step at a time.                            *)

\* A set of naturals that is not empty has a least element.
LEMMA Least ==
  ASSUME NEW T, T \subseteq Nat, T # {}
  PROVE  \E x \in T : \A y \in T : x <= y
<1> DEFINE B == {1 .. x : x \in T}
<1>1. IsWellFoundedOn(StrictSubsetOrdering(Nat), FiniteSubsetsOf(Nat))
  BY FS_StrictSubsetOrderingWellFounded
<1>2. B \subseteq FiniteSubsetsOf(Nat)
  <2>1. \A x \in T : IsFiniteSet(1 .. x)
    BY FS_Interval
  <2> QED
    BY <2>1 DEF FiniteSubsetsOf
<1>3. B # {}
  OBVIOUS
<1>4. \E b \in B : \A c \in B : ~(<<c, b>> \in StrictSubsetOrdering(Nat))
  <2> HIDE DEF B
  <2> QED
    BY <1>1, <1>2, <1>3, WFMin
<1>5. PICK x \in T : \A y \in T : ~(<<1 .. y, 1 .. x>> \in StrictSubsetOrdering(Nat))
  BY <1>4
<1>6. ASSUME NEW y \in T, y < x PROVE FALSE
  <2>1. <<1 .. y, 1 .. x>> \notin StrictSubsetOrdering(Nat)
    BY <1>5
  <2>2. 1 .. y \subseteq 1 .. x /\ 1 .. y \in SUBSET Nat /\ 1 .. x \in SUBSET Nat
    BY <1>6
  <2>3. x \in 1 .. x /\ x \notin 1 .. y
    BY <1>6
  <2> QED
    BY <2>1, <2>2, <2>3 DEF StrictSubsetOrdering
<1> QED
  BY <1>5, <1>6

\* A set that has 0, and with a number the next one, has all numbers up to n.
LEMMA UpTo ==
  ASSUME NEW n \in Nat, NEW G, 0 \in G, \A i \in 0 .. n - 1 : i \in G => i + 1 \in G
  PROVE  \A i \in 0 .. n : i \in G
<1> SUFFICES ASSUME (0 .. n) \ G # {} PROVE FALSE
  OBVIOUS
<1>1. PICK x \in (0 .. n) \ G : \A y \in (0 .. n) \ G : x <= y
  <2> DEFINE T == (0 .. n) \ G
  <2>1. T \subseteq Nat /\ T # {}
    OBVIOUS
  <2> HIDE DEF T
  <2>2. \E x \in T : \A y \in T : x <= y
    BY <2>1, Least
  <2> QED
    BY <2>2 DEF T
<1>2. x # 0 /\ x - 1 \in 0 .. n - 1 /\ (x - 1) + 1 = x
  BY <1>1
<1>3. x - 1 \in G
  BY <1>1, <1>2
<1> QED
  BY <1>1, <1>2, <1>3

\* f is computed step by step, and stays in X.
Computed(f, n, X, start, step) ==
  /\ f \in [0 .. n -> X]
  /\ f[0] = start /\ \A i \in 1 .. n : f[i] = step[i][f[i - 1]]

\* A recursive function over 0 .. n exists.
LEMMA Recursive ==
  ASSUME NEW n \in Nat, NEW X, NEW start \in X, NEW step,
         \A i \in 1 .. n : \A x \in X : step[i][x] \in X
  PROVE  \E f : Computed(f, n, X, start, step)
<1> DEFINE Good(m) == \E f : Computed(f, m, X, start, step)
           G == {m \in 0 .. n : Good(m)}
<1>1. 0 \in G
  <2> DEFINE g == [i \in 0 .. 0 |-> start]
  <2>1. Computed(g, 0, X, start, step)
    BY DEF Computed
  <2>2. Good(0)
    BY <2>1
  <2> QED
    BY <2>2
<1>2. ASSUME NEW m \in 0 .. n - 1, m \in G PROVE m + 1 \in G
  <2>1. PICK f : Computed(f, m, X, start, step)
    BY <1>2
  <2> DEFINE g == [i \in 0 .. m + 1 |-> IF i = m + 1 THEN step[m + 1][f[m]] ELSE f[i]]
  <2>2. step[m + 1][f[m]] \in X
    BY <2>1 DEF Computed
  <2>3. g \in [0 .. m + 1 -> X]
    BY <2>1, <2>2 DEF Computed
  <2>4. g[0] = start
    BY <2>1 DEF Computed
  <2>5. \A i \in 1 .. m + 1 : g[i] = step[i][g[i - 1]]
    BY <2>1 DEF Computed
  <2> HIDE DEF g
  <2>6. Good(m + 1)
    <3>1. Computed(g, m + 1, X, start, step)
      BY <2>3, <2>4, <2>5 DEF Computed
    <3> QED
      BY <3>1
  <2>7. m + 1 \in 0 .. n
    OBVIOUS
  <2> HIDE DEF Good
  <2> QED
    BY <2>6, <2>7
<1>3. \A m \in 0 .. n : m \in G
  <2> HIDE DEF G
  <2> QED
    BY <1>1, <1>2, UpTo
<1> QED
  BY <1>3

-----------------------------------------------------------------------------
(* Within. *)

Keeps(kept, S, s, A) ==
  /\ \A i \in 0 .. Len(s) : kept[i] \in Seq(S)
  /\ kept[0] = <<>>
  /\ \A i \in 1 .. Len(s) : kept[i] = IF s[i] \in A THEN Append(kept[i - 1], s[i])
                                                    ELSE kept[i - 1]

\* What Within has collected after i elements.
LEMMA WithinSteps ==
  ASSUME NEW S, NEW s \in Seq(S), NEW A
  PROVE  \E kept : Keeps(kept, S, s, A) /\ Within(s, A) = kept[Len(s)]
<1> DEFINE n == Len(s)
           step == [i \in 1 .. n |-> [q \in Seq(S) |-> IF s[i] \in A THEN Append(q, s[i]) ELSE q]]
<1>1. n \in Nat /\ \A i \in 1 .. n : s[i] \in S
  OBVIOUS
<1>2. \A i \in 1 .. n : \A x \in Seq(S) : step[i][x] \in Seq(S)
  BY <1>1
<1>3. <<>> \in Seq(S)
  OBVIOUS
<1>4. PICK f : Computed(f, n, Seq(S), <<>>, step)
  <2> DEFINE X == Seq(S)  start == <<>>
  <2>1. n \in Nat /\ start \in X /\ \A i \in 1 .. n : \A x \in X : step[i][x] \in X
    BY <1>1, <1>2, <1>3
  <2> HIDE DEF step, n, X, start
  <2>2. \E f : Computed(f, n, X, start, step)
    BY <2>1, Recursive
  <2> QED
    BY <2>2 DEF X, start
<1>5. ASSUME NEW i \in 1 .. n
      PROVE  f[i] = IF s[i] \in A THEN Append(f[i - 1], s[i]) ELSE f[i - 1]
  <2>1. f[i] = step[i][f[i - 1]] /\ i - 1 \in 0 .. n
    BY <1>1, <1>4 DEF Computed
  <2>2. f[i - 1] \in Seq(S)
    BY <1>4, <2>1 DEF Computed
  <2> QED
    BY <2>1, <2>2
<1> DEFINE Fix(g) == g = [i \in 0 .. Len(s) |-> IF i = 0 THEN <<>>
                            ELSE IF s[i] \in A THEN Append(g[i - 1], s[i]) ELSE g[i - 1]]
           kept == CHOOSE g : Fix(g)
<1>6. Fix(f)
  <2> HIDE DEF step
  <2>1. f \in [0 .. n -> Seq(S)] /\ f[0] = <<>>
    BY <1>4 DEF Computed
  <2>2. ASSUME NEW i \in 0 .. n
        PROVE  f[i] = IF i = 0 THEN <<>>
                      ELSE IF s[i] \in A THEN Append(f[i - 1], s[i]) ELSE f[i - 1]
    <3>1. CASE i = 0
      BY <2>1, <3>1
    <3>2. CASE i # 0
      <4>1. i \in 1 .. n
        BY <1>1, <3>2
      <4> HIDE DEF n
      <4> QED
        BY <1>5, <3>2, <4>1
    <3> QED
      BY <3>1, <3>2
  <2>3. f = [i \in 0 .. n |-> IF i = 0 THEN <<>>
                            ELSE IF s[i] \in A THEN Append(f[i - 1], s[i]) ELSE f[i - 1]]
    BY <2>1, <2>2
  <2> QED
    BY <2>3
<1>7. Fix(kept)
  BY <1>6
<1>8. Within(s, A) = kept[Len(s)]
  BY DEF Within
<1> HIDE DEF kept
<1>9. \A i \in 0 .. n : kept[i] = f[i]
  <2> DEFINE G == {i \in 0 .. n : kept[i] = f[i]}
  <2>1. 0 \in G
    BY <1>1, <1>4, <1>7 DEF Computed
  <2>2. ASSUME NEW i \in 0 .. n - 1, i \in G PROVE i + 1 \in G
    <3>1. i + 1 \in 1 .. n /\ (i + 1) - 1 = i /\ i + 1 # 0
      BY <1>1
    <3>2. kept[i + 1] = IF s[i + 1] \in A THEN Append(kept[i], s[i + 1]) ELSE kept[i]
      <4>1. i + 1 \in 0 .. Len(s)
        BY <3>1
      <4> HIDE DEF n
      <4> QED
        BY <1>7, <3>1, <4>1
    <3>3. f[i + 1] = IF s[i + 1] \in A THEN Append(f[i], s[i + 1]) ELSE f[i]
      BY <1>5, <3>1
    <3> QED
      BY <2>2, <3>1, <3>2, <3>3
  <2> HIDE DEF G
  <2>3. \A i \in 0 .. n : i \in G
    BY <1>1, <2>1, <2>2, UpTo
  <2> QED
    BY <2>3 DEF G
<1>10. /\ \A i \in 0 .. n : f[i] \in Seq(S)
       /\ f[0] = <<>> /\ Within(s, A) = f[n]
  BY <1>1, <1>4, <1>8, <1>9 DEF Computed
<1> HIDE DEF step
<1>11. Keeps(f, S, s, A)
  BY <1>5, <1>10 DEF Keeps
<1> QED
  BY <1>10, <1>11

\* Within keeps the elements of A, each as often as it occurs, so once if it
\* occurs once; the first element stays first if it is one of A.
LEMMA WithinKeeps ==
  ASSUME NEW S, NEW s \in Seq(S), NEW A, IsInjective(s)
  PROVE  /\ Within(s, A) \in Seq(S) /\ Len(Within(s, A)) <= Len(s)
         /\ IsInjective(Within(s, A))
         /\ ToSet(Within(s, A)) = ToSet(s) \cap A
         /\ Len(s) > 0 /\ s[1] \in A => Within(s, A) # <<>> /\ Within(s, A)[1] = s[1]
<1>0. Len(s) \in Nat /\ DOMAIN s = 1 .. Len(s)
  OBVIOUS
<1>1. PICK kept : Keeps(kept, S, s, A) /\ Within(s, A) = kept[Len(s)]
  BY WithinSteps
<1> DEFINE Fits(q, i) == /\ Len(q) <= i /\ IsInjective(q)
                         /\ ToSet(q) = {s[j] : j \in 1 .. i} \cap A
                         /\ i > 0 /\ s[1] \in A => q # <<>> /\ q[1] = s[1]
           G == {i \in 0 .. Len(s) : Fits(kept[i], i)}
<1>2. 0 \in G
  BY <1>0, <1>1 DEF Keeps, IsInjective, ToSet
<1>3. ASSUME NEW i \in 0 .. Len(s) - 1, i \in G PROVE i + 1 \in G
  <2> DEFINE q == kept[i] r == kept[i + 1]
  <2>1. q \in Seq(S) /\ Fits(q, i) /\ i + 1 \in 1 .. Len(s) /\ s[i + 1] \in S
    BY <1>0, <1>1, <1>3 DEF Keeps
  <2>2. r = IF s[i + 1] \in A THEN Append(q, s[i + 1]) ELSE q
    <3>1. (i + 1) - 1 = i
      OBVIOUS
    <3> QED
      BY <1>1, <2>1, <3>1 DEF Keeps
  <2>3. {s[j] : j \in 1 .. i + 1} = {s[j] : j \in 1 .. i} \cup {s[i + 1]}
    <3>1. 1 .. i + 1 = (1 .. i) \cup {i + 1}
      OBVIOUS
    <3> QED
      BY <3>1
  <2>4. \A j \in 1 .. i : s[j] # s[i + 1]
    BY <1>0, <2>1 DEF IsInjective
  <2> HIDE DEF q, r
  <2>5. CASE s[i + 1] \notin A
    <3>1. s[1] \in A => i > 0
      BY <2>5
    <3> QED
      BY <1>0, <2>1, <2>2, <2>3, <2>5, <3>1 DEF r
  <2>6. CASE s[i + 1] \in A
    <3>1. r = Append(q, s[i + 1]) /\ Len(r) = Len(q) + 1 /\ DOMAIN r = 1 .. Len(q) + 1
      BY <2>1, <2>2, <2>6
    <3>2. /\ \A k \in 1 .. Len(q) : r[k] = q[k]
          /\ r[Len(q) + 1] = s[i + 1] /\ Len(q) \in Nat /\ DOMAIN q = 1 .. Len(q)
      BY <2>1, <3>1
    <3>3. s[i + 1] \notin ToSet(q)
      BY <2>1, <2>4
    <3>4. ToSet(r) = ToSet(q) \cup {s[i + 1]}
      BY <3>1, <3>2 DEF ToSet
    <3>5. IsInjective(r)
      BY <2>1, <3>1, <3>2, <3>3 DEF IsInjective, ToSet
    <3>6. Len(r) <= i + 1 /\ r # <<>>
      BY <2>1, <3>1, <3>2
    <3>7. s[1] \in A => r[1] = s[1]
      <4>1. CASE i = 0
        <5>1. Len(q) = 0
          BY <2>1, <3>2, <4>1
        <5> QED
          BY <3>2, <4>1, <5>1
      <4>2. CASE i > 0
        BY <2>1, <3>2, <4>2
      <4> QED
        BY <4>1, <4>2
    <3>8. ToSet(r) = {s[j] : j \in 1 .. i + 1} \cap A
      BY <2>1, <2>3, <2>6, <3>4
    <3> QED
      BY <2>1, <3>5, <3>6, <3>7, <3>8 DEF r
  <2> QED
    BY <2>5, <2>6
<1>4. Len(s) \in G
  <2> HIDE DEF G
  <2>1. \A i \in 0 .. Len(s) : i \in G
    BY <1>0, <1>2, <1>3, UpTo
  <2> QED
    BY <1>0, <2>1
<1>5. ToSet(s) = {s[j] : j \in 1 .. Len(s)}
  BY <1>0 DEF ToSet
<1> QED
  BY <1>0, <1>1, <1>4, <1>5 DEF Keeps

-----------------------------------------------------------------------------
(* Listings.  A sequence lists a set if it has its elements, each once.     *)
Lists(q, A) == q \in Seq(A) /\ IsInjective(q) /\ ToSet(q) = A

\* A sequence without repetition lists its elements.
LEMMA ListsItself ==
  ASSUME NEW q, q \in Seq(ToSet(q)), IsInjective(q)
  PROVE  Lists(q, ToSet(q))
BY DEF Lists

\* What it means that q lists A, index by index.
LEMMA ListsFacts ==
  ASSUME NEW A, NEW q, Lists(q, A)
  PROVE  /\ Len(q) \in Nat /\ DOMAIN q = 1 .. Len(q)
         /\ \A i \in 1 .. Len(q) : q[i] \in A
         /\ \A a \in A : \E i \in 1 .. Len(q) : q[i] = a
         /\ \A i, j \in 1 .. Len(q) : q[i] = q[j] => i = j
         /\ q = <<>> <=> A = {}
<1>1. q \in Seq(A) /\ Len(q) \in Nat /\ DOMAIN q = 1 .. Len(q)
  BY DEF Lists
<1>2. \A a \in A : \E i \in 1 .. Len(q) : q[i] = a
  BY <1>1 DEF Lists, ToSet
<1>3. \A i \in 1 .. Len(q) : q[i] \in A
  BY <1>1
<1>4. q = <<>> <=> A = {}
  BY <1>1, <1>2, <1>3
<1> QED
  BY <1>1, <1>2, <1>3, <1>4 DEF Lists, IsInjective

Into(q, n, A) == q \in [1 .. n -> A]

\* How to show that a sequence lists a set.
LEMMA ListsIntro ==
  ASSUME NEW A, NEW q, NEW n \in Nat, Into(q, n, A),
         \A a \in A : \E i \in 1 .. n : q[i] = a,
         \A i, j \in 1 .. n : q[i] = q[j] => i = j
  PROVE  Lists(q, A) /\ Len(q) = n
<1>0. q \in [1 .. n -> A]
  BY DEF Into
<1>1. q \in Seq(A)
  BY <1>0, SeqDef
<1>2. IsInjective(q)
  BY <1>0 DEF IsInjective
<1>3. ToSet(q) = A
  BY <1>0 DEF ToSet
<1>4. Len(q) = n
  BY <1>0, <1>1, LenProperties
<1> QED
  BY <1>1, <1>2, <1>3, <1>4 DEF Lists

\* A listing of the images under a function that maps no two elements to one.
Images(f, A) == {f[a] : a \in A}
Mapped(f, q) == [i \in DOMAIN q |-> f[q[i]]]
OneToOne(f, A) == \A a, b \in A : f[a] = f[b] => a = b

\* The images of a list under an injective function.
LEMMA MapLists ==
  ASSUME NEW A, NEW q, Lists(q, A), NEW f, OneToOne(f, A)
  PROVE  Lists(Mapped(f, q), Images(f, A)) /\ Len(Mapped(f, q)) = Len(q)
<1> DEFINE r == Mapped(f, q)  B == Images(f, A)
<1>1. /\ Len(q) \in Nat /\ DOMAIN q = 1 .. Len(q)
      /\ \A i \in 1 .. Len(q) : q[i] \in A
      /\ \A a \in A : \E i \in 1 .. Len(q) : q[i] = a
      /\ \A i, j \in 1 .. Len(q) : q[i] = q[j] => i = j
  BY ListsFacts
<1>2. r = [i \in 1 .. Len(q) |-> f[q[i]]] /\ \A i \in 1 .. Len(q) : r[i] = f[q[i]] /\ r[i] \in B
  BY <1>1 DEF Mapped, Images
<1>3. Into(r, Len(q), B)
  BY <1>1, <1>2 DEF Into
<1>4. \A b \in B : \E i \in 1 .. Len(q) : r[i] = b
  BY <1>1, <1>2 DEF Images
<1>5. \A i, j \in 1 .. Len(q) : r[i] = r[j] => i = j
  BY <1>1, <1>2 DEF OneToOne
<1> HIDE DEF B, r
<1>6. Lists(r, B) /\ Len(r) = Len(q)
  BY <1>1, <1>3, <1>4, <1>5, ListsIntro
<1> QED
  BY <1>6 DEF B, r

Pairs(X, Y) == X \X Y

\* Two nested loops visit every pair once.
LEMMA NestedLists ==
  ASSUME NEW X, NEW xs, Lists(xs, X), NEW Y, NEW ys, Lists(ys, Y)
  PROVE  Lists(Nested(xs, ys), Pairs(X, Y)) /\ Len(Nested(xs, ys)) = Len(xs) * Len(ys)
<1> DEFINE m == Len(xs)  n == Len(ys)  A(i) == ((i - 1) \div n) + 1  B(i) == ((i - 1) % n) + 1
           r == Nested(xs, ys)
<1>1. /\ m \in Nat /\ \A i \in 1 .. m : xs[i] \in X
      /\ \A a \in X : \E i \in 1 .. m : xs[i] = a
      /\ \A i, j \in 1 .. m : xs[i] = xs[j] => i = j
  BY ListsFacts
<1>2. /\ n \in Nat /\ \A i \in 1 .. n : ys[i] \in Y
      /\ \A a \in Y : \E i \in 1 .. n : ys[i] = a
      /\ \A i, j \in 1 .. n : ys[i] = ys[j] => i = j
  BY ListsFacts
<1>3. m * n \in Nat /\ r = [i \in 1 .. m * n |-> <<xs[A(i)], ys[B(i)]>>]
  <2>1. m * n \in Nat
    BY <1>1, <1>2
  <2> QED
    BY <2>1 DEF Nested
<1>4. ASSUME NEW i \in 1 .. m * n
      PROVE  A(i) \in 1 .. m /\ B(i) \in 1 .. n /\ i = (A(i) - 1) * n + B(i)
  <2>1. n > 0
    BY <1>1, <1>2
  <2>2. i - 1 \in Nat /\ i - 1 \in 0 .. m * n - 1
    BY <1>3
  <2> DEFINE k == i - 1
  <2> HIDE DEF k
  <2>3. k \in Nat /\ k \in 0 .. m * n - 1
    BY <2>2 DEF k
  <2> HIDE DEF m, n
  <2>4. k \div n \in Nat /\ k % n \in 0 .. n - 1 /\ k = (k \div n) * n + (k % n)
    BY <1>2, <2>1, <2>3
  <2>5. k \div n < m
    BY <1>1, <1>2, <2>1, <2>3
  <2>6. /\ (k \div n) + 1 \in 1 .. m /\ (k % n) + 1 \in 1 .. n
        /\ k + 1 = (((k \div n) + 1) - 1) * n + ((k % n) + 1)
    <3> DEFINE u == k \div n  v == k % n
    <3>1. u \in Nat /\ v \in 0 .. n - 1 /\ k = u * n + v /\ u < m
      BY <2>4, <2>5
    <3> HIDE DEF u, v
    <3>2. u + 1 \in 1 .. m /\ v + 1 \in 1 .. n /\ (u + 1) - 1 = u
      BY <1>1, <1>2, <3>1
    <3>3. u * n \in Nat
      BY <1>2, <3>1
    <3>4. k + 1 = ((u + 1) - 1) * n + (v + 1)
      BY <1>2, <3>1, <3>2, <3>3
    <3> QED
      BY <3>2, <3>4 DEF u, v
  <2>7. k + 1 = i
    BY DEF k
  <2> QED
    BY <2>6, <2>7 DEF k
<1>5. ASSUME NEW a \in 1 .. m, NEW b \in 1 .. n
      PROVE  \E i \in 1 .. m * n : A(i) = a /\ B(i) = b
  <2> DEFINE k == (a - 1) * n + (b - 1)
  <2> HIDE DEF m, n
  <2>1. n > 0 /\ a - 1 \in Nat /\ b - 1 \in 0 .. n - 1
    BY <1>1, <1>2
  <2>2. k \div n = a - 1 /\ k % n = b - 1
    BY <1>2, <2>1
  <2>3. k \in Nat /\ k + 1 \in 1 .. m * n
    <3>1. (a - 1) * n \in Nat /\ (a - 1) * n + n = a * n
      BY <1>1, <1>2, <2>1
    <3>2. a * n <= m * n
      BY <1>1, <1>2
    <3> DEFINE u == (a - 1) * n  v == a * n  w == m * n
    <3>3. u \in Nat /\ u + n = v /\ v <= w /\ v \in Nat /\ w \in Nat
      BY <3>1, <3>2, <1>1, <1>2
    <3>4. k = u + (b - 1)
      OBVIOUS
    <3> HIDE DEF u, v, w, k
    <3>5. k \in Nat /\ k + 1 \in 1 .. w
      BY <1>2, <3>3, <3>4
    <3> QED
      BY <3>5 DEF w
  <2> HIDE DEF k
  <2>4. (k + 1) - 1 = k /\ (a - 1) + 1 = a /\ (b - 1) + 1 = b
    BY <1>1, <1>2, <2>3
  <2> QED
    BY <2>2, <2>3, <2>4
<1> HIDE DEF A, B, m, n, r
<1>6. DOMAIN r = 1 .. m * n /\ \A i \in 1 .. m * n : r[i] = <<xs[A(i)], ys[B(i)]>>
  BY <1>3
<1>7. ASSUME NEW i \in 1 .. m * n PROVE r[i] \in X \X Y
  <2>1. xs[A(i)] \in X /\ ys[B(i)] \in Y
    BY <1>1, <1>2, <1>4
  <2> DEFINE u == xs[A(i)]  v == ys[B(i)]
  <2>2. r[i] = <<u, v>>
    BY <1>6
  <2>3. u \in X /\ v \in Y
    BY <2>1
  <2> HIDE DEF u, v
  <2>4. <<u, v>> \in X \X Y
    BY <2>3
  <2> QED
    BY <2>2, <2>4
<1>8. ASSUME NEW c \in X \X Y PROVE \E i \in 1 .. m * n : r[i] = c
  <2>1. PICK a \in 1 .. m : xs[a] = c[1]
    BY <1>1
  <2>2. PICK b \in 1 .. n : ys[b] = c[2]
    BY <1>2
  <2>3. PICK i \in 1 .. m * n : A(i) = a /\ B(i) = b
    BY <1>5
  <2> QED
    BY <1>6, <2>1, <2>2, <2>3
<1>9. ASSUME NEW i \in 1 .. m * n, NEW j \in 1 .. m * n, r[i] = r[j] PROVE i = j
  <2>1. xs[A(i)] = xs[A(j)] /\ ys[B(i)] = ys[B(j)]
    BY <1>6, <1>9
  <2>2. A(i) = A(j) /\ B(i) = B(j)
    BY <1>1, <1>2, <1>4, <2>1
  <2> QED
    BY <1>4, <2>2
<1>10. Into(r, m * n, X \X Y)
  BY <1>3, <1>6, <1>7 DEF Into
<1>11. Lists(r, X \X Y) /\ Len(r) = m * n
  <2> DEFINE Z == X \X Y
  <2>1. /\ Into(r, m * n, Z) /\ m * n \in Nat
        /\ \A c \in Z : \E i \in 1 .. m * n : r[i] = c
        /\ \A i, j \in 1 .. m * n : r[i] = r[j] => i = j
    BY <1>3, <1>8, <1>9, <1>10
  <2> HIDE DEF Z
  <2>2. Lists(r, Z) /\ Len(r) = m * n
    BY <2>1, ListsIntro
  <2> QED
    BY <2>2 DEF Z
<1> QED
  BY <1>11 DEF m, n, r, Pairs

-----------------------------------------------------------------------------
(* The levels of a plan.                                                    *)
LEMMA FindPlaceholdersLists ==
  ASSUME NEW plan, IsPlan(plan)
  PROVE  /\ FindPlaceholders(plan) \in Seq(ToSet(SupportedPlaceholders))
         /\ IsInjective(FindPlaceholders(plan))
         /\ LastDepth(plan) \in Nat \ {0} /\ Depths(plan) = 1 .. LastDepth(plan)
<1> DEFINE A == ToSet(plan.url) \cup plan.rest  P == ToSet(SupportedPlaceholders)
<1>1. SupportedPlaceholders \in Seq(P) /\ IsInjective(SupportedPlaceholders)
  BY DEF SupportedPlaceholders, ToSet, IsInjective
<1>2. FindPlaceholders(plan) = Within(SupportedPlaceholders, A)
  BY DEF FindPlaceholders
<1> HIDE DEF A, P
<1>3. Within(SupportedPlaceholders, A) \in Seq(P) /\ IsInjective(Within(SupportedPlaceholders, A))
  BY <1>1, WithinKeeps
<1>4. FindPlaceholders(plan) # <<>>
  BY DEF IsPlan
<1> QED
  BY <1>2, <1>3, <1>4 DEF P, LastDepth, Depths

WordsAt(plan, d) == Levels(plan)[d].words

\* The words of a level, each once.
LEMMA LevelsList ==
  ASSUME NEW plan, IsPlan(plan), NEW d \in Depths(plan)
  PROVE  /\ Levels(plan)[d] = [ph |-> FindPlaceholders(plan)[d],
                               words |-> LevelWords(plan, FindPlaceholders(plan)[d])]
         /\ Lists(WordsAt(plan, d), ToSet(WordsAt(plan, d))) /\ WordsAt(plan, d) # <<>>
<1> DEFINE ph == FindPlaceholders(plan)[d]  P == ToSet(SupportedPlaceholders)
<1>1. ph \in P /\ {"FUZZ", "FOO"} \subseteq P
  <2>1. FindPlaceholders(plan) \in Seq(P) /\ d \in 1 .. Len(FindPlaceholders(plan))
    BY FindPlaceholdersLists DEF LastDepth
  <2>2. {"FUZZ", "FOO"} \subseteq P
    BY DEF SupportedPlaceholders, ToSet
  <2> HIDE DEF P
  <2> QED
    BY <2>1, <2>2, ElementOfSeq
<1>2. Levels(plan)[d] = [ph |-> ph, words |-> LevelWords(plan, ph)]
  BY DEF Levels, Depths
<1>3. \A x \in P : /\ Lists(OrNothing(plan.words[x]), ToSet(OrNothing(plan.words[x])))
                   /\ OrNothing(plan.words[x]) # <<>>
  <2> SUFFICES ASSUME NEW x \in P
               PROVE  /\ Lists(OrNothing(plan.words[x]), ToSet(OrNothing(plan.words[x])))
                      /\ OrNothing(plan.words[x]) # <<>>
    OBVIOUS
  <2>1. Lists(plan.words[x], ToSet(plan.words[x]))
    BY ListsItself DEF IsPlan
  <2>2. CASE plan.words[x] = <<>>
    <3>1. OrNothing(plan.words[x]) = <<NoWord>>
      BY <2>2 DEF OrNothing
    <3>2. <<NoWord>> \in Seq(ToSet(<<NoWord>>)) /\ IsInjective(<<NoWord>>) /\ <<NoWord>> # <<>>
      BY DEF ToSet, IsInjective
    <3> QED
      BY <3>1, <3>2, ListsItself
  <2>3. CASE plan.words[x] # <<>>
    BY <2>1, <2>3 DEF OrNothing
  <2> QED
    BY <2>2, <2>3
<1>4. \E x \in P : LevelWords(plan, ph) = OrNothing(plan.words[x])
  BY <1>1 DEF LevelWords
<1> QED
  BY <1>2, <1>3, <1>4 DEF WordsAt

\* The extensions of a level, by index, and the values it visits.
Variants(plan, d) == IF Levels(plan)[d].ph = "FUZZ" THEN 1 .. VariantCount(plan) ELSE {1}
ValueSet(plan, d) == {Value(w, e) : w \in ToSet(WordsAt(plan, d)), e \in Variants(plan, d)}

\* A word has at least the variant without an extension.
LEMMA VariantCountPositive ==
  ASSUME NEW plan, IsPlan(plan)
  PROVE  VariantCount(plan) \in Nat \ {0}
BY DEF IsPlan, VariantCount, HasExtensions

\* The values of a level with one extension.
LEMMA LevelLists ==
  ASSUME NEW A, NEW words, Lists(words, A), NEW e
  PROVE  Lists(Level(words, e), {Value(w, e) : w \in A}) /\ Len(Level(words, e)) = Len(words)
<1> DEFINE f == [w \in A |-> Value(w, e)]
<1>1. OneToOne(f, A)
  BY DEF Value, OneToOne
<1>2. Level(words, e) = Mapped(f, words)
  BY ListsFacts DEF Level, Mapped
<1>3. {Value(w, e) : w \in A} = Images(f, A)
  BY DEF Images
<1> HIDE DEF f
<1> QED
  BY <1>1, <1>2, <1>3, MapLists

\* The values of a level with every extension.
LEMMA ValuesAtLists ==
  ASSUME NEW plan, IsPlan(plan), NEW d \in Depths(plan)
  PROVE  /\ Lists(ValuesAt(plan, d), ValueSet(plan, d)) /\ ValueSet(plan, d) # {}
         /\ Len(ValuesAt(plan, d)) = Len(WordsAt(plan, d)) * (IF Levels(plan)[d].ph = "FUZZ"
                                                              THEN VariantCount(plan) ELSE 1)
<1> DEFINE W == ToSet(WordsAt(plan, d))  n == VariantCount(plan)  words == WordsAt(plan, d)
<1>1. Lists(words, W) /\ words # <<>> /\ n \in Nat \ {0}
  BY LevelsList, VariantCountPositive
<1>2. W # {} /\ Len(words) \in Nat
  BY <1>1, ListsFacts
<1>3. CASE Levels(plan)[d].ph = "FUZZ"
  <2> DEFINE exts == [e \in 1 .. n |-> e]  pairs == Nested(words, exts)  E == 1 .. n
             f == [c \in W \X E |-> Value(c[1], c[2])]
  <2>1. ValuesAt(plan, d) = [i \in DOMAIN pairs |-> Value(pairs[i][1], pairs[i][2])]
    BY <1>3 DEF ValuesAt, ExpandEager, WordsAt
  <2>2. Lists(exts, E) /\ Len(exts) = n
    <3>1. Into(exts, n, E)
      BY DEF Into
    <3>2. /\ \A e \in E : \E i \in 1 .. n : exts[i] = e
          /\ \A i, j \in 1 .. n : exts[i] = exts[j] => i = j
      OBVIOUS
    <3> HIDE DEF exts, E
    <3> QED
      BY <1>1, <3>1, <3>2, ListsIntro
  <2> HIDE DEF exts
  <2>3. Lists(pairs, W \X E) /\ Len(pairs) = Len(words) * n
    <3>1. Lists(words, W) /\ Lists(exts, E) /\ Len(exts) = n
      BY <1>1, <2>2
    <3> HIDE DEF words, W, E, n
    <3>2. Lists(pairs, Pairs(W, E)) /\ Len(pairs) = Len(words) * Len(exts)
      BY <3>1, NestedLists
    <3> QED
      BY <3>1, <3>2 DEF Pairs
  <2> HIDE DEF pairs
  <2>4. OneToOne(f, W \X E)
    BY DEF Value, OneToOne
  <2>5. ValuesAt(plan, d) = Mapped(f, pairs)
    BY <2>1, <2>3, ListsFacts DEF Mapped
  <2>6. ValueSet(plan, d) = Images(f, W \X E)
    <3>1. ValueSet(plan, d) = {Value(w, e) : w \in W, e \in E}
      BY <1>3 DEF ValueSet, Variants
    <3>2. \A w \in W, e \in E : f[<<w, e>>] = Value(w, e)
      OBVIOUS
    <3>3. \A c \in W \X E : c = <<c[1], c[2]>> /\ c[1] \in W /\ c[2] \in E
      OBVIOUS
    <3> HIDE DEF f, W, E
    <3>4. ASSUME NEW v \in ValueSet(plan, d) PROVE v \in Images(f, W \X E)
      <4>1. PICK w \in W, e \in E : v = Value(w, e)
        BY <3>1
      <4>2. <<w, e>> \in W \X E /\ f[<<w, e>>] = v
        BY <3>2, <4>1
      <4> QED
        BY <4>2 DEF Images
    <3>5. \A c \in W \X E : f[c] = Value(c[1], c[2])
      BY <3>2, <3>3
    <3>6. Images(f, W \X E) \subseteq ValueSet(plan, d)
      BY <3>1, <3>3, <3>5 DEF Images
    <3> QED
      BY <3>4, <3>6
  <2>7. Lists(ValuesAt(plan, d), Images(f, W \X E)) /\ Len(ValuesAt(plan, d)) = Len(pairs)
    <3> DEFINE Z == W \X E
    <3>1. Lists(pairs, Z) /\ OneToOne(f, Z)
      BY <2>3, <2>4
    <3> HIDE DEF f, Z
    <3>2. Lists(Mapped(f, pairs), Images(f, Z)) /\ Len(Mapped(f, pairs)) = Len(pairs)
      BY <3>1, MapLists
    <3> QED
      BY <2>5, <3>2 DEF Z
  <2>8. ValueSet(plan, d) # {}
    <3>1. PICK w \in W : TRUE
      BY <1>2
    <3>2. 1 \in Variants(plan, d)
      BY <1>1, <1>3 DEF Variants
    <3>3. Value(w, 1) \in ValueSet(plan, d)
      BY <3>1, <3>2 DEF ValueSet
    <3> QED
      BY <3>3
  <2> QED
    BY <1>3, <2>3, <2>6, <2>7, <2>8
<1>4. CASE Levels(plan)[d].ph # "FUZZ"
  <2>1. ValuesAt(plan, d) = Level(words, 1)
    BY <1>4 DEF ValuesAt, WordsAt
  <2>2. ValueSet(plan, d) = {Value(w, 1) : w \in W}
    BY <1>4 DEF ValueSet, Variants
  <2>3. Lists(Level(words, 1), {Value(w, 1) : w \in W}) /\ Len(Level(words, 1)) = Len(words)
    BY <1>1, LevelLists
  <2> QED
    BY <1>2, <1>4, <2>1, <2>2, <2>3
<1> QED
  BY <1>3, <1>4

-----------------------------------------------------------------------------
(* The paths.                                                               *)
Extended(P, V) == {Append(c[1], c[2]) : c \in Pairs(P, V)}

\* The members of Extended(P, V), and their components.
LEMMA ExtendedFacts ==
  ASSUME NEW P, NEW V
  PROVE  /\ \A p \in P, v \in V : Append(p, v) \in Extended(P, V)
         /\ \A q \in Extended(P, V) : \E p \in P, v \in V : q = Append(p, v)
<1>1. ASSUME NEW p \in P, NEW v \in V PROVE Append(p, v) \in Extended(P, V)
  <2>1. <<p, v>> \in P \X V
    OBVIOUS
  <2> QED
    BY <2>1 DEF Extended, Pairs
<1>2. ASSUME NEW q \in Extended(P, V) PROVE \E p \in P, v \in V : q = Append(p, v)
  BY DEF Extended, Pairs
<1> QED
  BY <1>1, <1>2

\* Extend lists every path with every value once.
LEMMA ExtendLists ==
  ASSUME NEW S, NEW P, P \subseteq Seq(S), NEW V, V \subseteq S,
         NEW paths, Lists(paths, P), NEW values, Lists(values, V)
  PROVE  /\ Lists(Extend(paths, values), Extended(P, V))
         /\ Len(Extend(paths, values)) = Len(paths) * Len(values)
<1> DEFINE Z == Pairs(P, V)  f == [c \in Z |-> Append(c[1], c[2])]  pairs == Nested(paths, values)
<1>1. Lists(pairs, Z) /\ Len(pairs) = Len(paths) * Len(values)
  BY NestedLists
<1>2. Extend(paths, values) = [i \in DOMAIN pairs |-> Append(pairs[i][1], pairs[i][2])]
  BY DEF Extend
<1>3. \A c \in Z : c[1] \in Seq(S) /\ c[2] \in S /\ c = <<c[1], c[2]>>
  BY DEF Pairs
<1> HIDE DEF pairs, Z
<1>4. OneToOne(f, Z)
  <2>1. ASSUME NEW a \in Z, NEW b \in Z, f[a] = f[b] PROVE a = b
    <3>1. a[1] = b[1] /\ a[2] = b[2]
      BY <1>3, <2>1, AppendInjective
    <3> QED
      BY <1>3, <3>1
  <2> QED
    BY <2>1 DEF OneToOne
<1>5. Extend(paths, values) = Mapped(f, pairs)
  BY <1>1, <1>2, ListsFacts DEF Mapped
<1>6. Extended(P, V) = Images(f, Z)
  BY DEF Extended, Z, Images
<1> HIDE DEF f
<1>7. Lists(Mapped(f, pairs), Images(f, Z)) /\ Len(Mapped(f, pairs)) = Len(pairs)
  BY <1>1, <1>4, MapLists
<1> QED
  BY <1>1, <1>5, <1>6, <1>7

AllValues(plan) == UNION {ValueSet(plan, d) : d \in Depths(plan)}

PathSet(plan, d) ==
  {p \in Seq(AllValues(plan)) : Len(p) = d /\ \A k \in 1 .. d : p[k] \in ValueSet(plan, k)}

\* The paths of a depth extend those of the depth above.
LEMMA PathSetGrows ==
  ASSUME NEW plan, NEW d \in Nat, d + 1 \in Depths(plan)
  PROVE  PathSet(plan, d + 1) = Extended(PathSet(plan, d), ValueSet(plan, d + 1))
<1> DEFINE P == PathSet(plan, d)  V == ValueSet(plan, d + 1)  A == AllValues(plan)
<1>0. V \subseteq A
  BY DEF AllValues
<1>1. ASSUME NEW q \in PathSet(plan, d + 1) PROVE q \in Extended(P, V)
  <2>1. q \in Seq(A) /\ Len(q) = d + 1 /\ \A k \in 1 .. d + 1 : q[k] \in ValueSet(plan, k)
    BY DEF PathSet
  <2> HIDE DEF A
  <2>2. PICK p \in Seq(A), v \in A : q = Append(p, v)
    BY <2>1, SequenceEmptyOrAppend
  <2>3. Len(p) = d /\ (\A k \in 1 .. d : q[k] = p[k]) /\ q[d + 1] = v
    BY <2>1, <2>2, AppendProperties
  <2>4. p \in P /\ v \in V
    BY <2>1, <2>2, <2>3 DEF PathSet, A
  <2> QED
    BY <2>2, <2>4, ExtendedFacts
<1>2. ASSUME NEW q \in Extended(P, V) PROVE q \in PathSet(plan, d + 1)
  <2>1. PICK p \in P, v \in V : q = Append(p, v)
    BY ExtendedFacts
  <2>2. p \in Seq(A) /\ Len(p) = d /\ \A k \in 1 .. d : p[k] \in ValueSet(plan, k)
    BY DEF PathSet
  <2> HIDE DEF A, P
  <2>3. /\ q \in Seq(A) /\ Len(q) = d + 1 /\ q[d + 1] = v
        /\ \A k \in 1 .. d : q[k] = p[k]
    BY <1>0, <2>1, <2>2, AppendProperties
  <2>4. \A k \in 1 .. d + 1 : q[k] \in ValueSet(plan, k)
    BY <2>2, <2>3
  <2> QED
    BY <2>3, <2>4 DEF PathSet, A
<1> QED
  BY <1>1, <1>2

\* Above the first level there is only the empty path.
LEMMA PathSetZero ==
  ASSUME NEW plan
  PROVE  PathSet(plan, 0) = {<<>>}
<1> DEFINE A == AllValues(plan)
<1>1. ASSUME NEW p \in PathSet(plan, 0) PROVE p = <<>>
  <2>1. p \in Seq(A) /\ Len(p) = 0
    BY DEF PathSet
  <2> HIDE DEF A
  <2> QED
    BY <2>1, EmptySeq
<1>2. <<>> \in PathSet(plan, 0)
  <2>1. <<>> \in Seq(A) /\ Len(<<>>) = 0
    BY EmptySeq
  <2> QED
    BY <2>1 DEF PathSet
<1> QED
  BY <1>1, <1>2

\* The paths of d values are iterated once each.
Iterates(g, plan, d) ==
  g = [k \in 0 .. d |-> IF k = 0 THEN << <<>> >> ELSE Extend(g[k - 1], ValuesAt(plan, k))]

\* PathsTo lists the paths of a depth, each once.
LEMMA PathsToLists ==
  ASSUME NEW plan, IsPlan(plan), NEW d \in 0 .. LastDepth(plan)
  PROVE  Lists(PathsTo(plan, d), PathSet(plan, d))
<1> DEFINE S == AllValues(plan)
           X == {q \in Seq(Seq(S)) : IsInjective(q)}
           step == [k \in 1 .. d |-> [q \in X |-> Extend(q, ValuesAt(plan, k))]]
           start == << <<>> >>
<1>1. d \in Nat /\ Depths(plan) = 1 .. LastDepth(plan) /\ LastDepth(plan) \in Nat
  BY FindPlaceholdersLists
<1>2. ASSUME NEW k \in 1 .. d
      PROVE  /\ Lists(ValuesAt(plan, k), ValueSet(plan, k)) /\ ValueSet(plan, k) \subseteq S
             /\ k \in Depths(plan)
  <2>1. k \in Depths(plan)
    BY <1>1
  <2> QED
    BY <2>1, ValuesAtLists DEF AllValues
<1>3. ASSUME NEW k \in 1 .. d, NEW q \in X PROVE step[k][q] \in X
  <2>1. Lists(q, ToSet(q)) /\ ToSet(q) \subseteq Seq(S)
    <3>1. q \in Seq(ToSet(q)) /\ ToSet(q) \subseteq Seq(S)
      BY SeqOfRange, RangeOfSeq DEF ToSet, Range
    <3> QED
      BY <3>1 DEF Lists
  <2>2. Lists(Extend(q, ValuesAt(plan, k)), Extended(ToSet(q), ValueSet(plan, k)))
    <3> HIDE DEF S, X, step
    <3> QED
      BY <1>2, <2>1, ExtendLists
  <2>3. Extended(ToSet(q), ValueSet(plan, k)) \subseteq Seq(S)
    <3> HIDE DEF S, X, step
    <3>1. ASSUME NEW r \in Extended(ToSet(q), ValueSet(plan, k)) PROVE r \in Seq(S)
      <4>1. PICK p \in ToSet(q), v \in ValueSet(plan, k) : r = Append(p, v)
        BY ExtendedFacts
      <4>2. p \in Seq(S) /\ v \in S
        BY <1>2, <2>1
      <4> QED
        BY <4>1, <4>2, AppendProperties
    <3> QED
      BY <3>1
  <2>4. Extend(q, ValuesAt(plan, k)) \in X
    <3>1. Extend(q, ValuesAt(plan, k)) \in Seq(Seq(S))
      BY <2>2, <2>3, SeqMonotonic DEF Lists
    <3> QED
      BY <2>2, <3>1 DEF Lists
  <2> QED
    BY <2>4
<1>4. start \in X
  BY EmptySeq DEF IsInjective
<1>5. PICK f : Computed(f, d, X, start, step)
  <2> HIDE DEF X, start, step
  <2> QED
    BY <1>1, <1>3, <1>4, Recursive
<1>6. /\ f \in [0 .. d -> X] /\ f[0] = start
      /\ \A k \in 1 .. d : f[k] = Extend(f[k - 1], ValuesAt(plan, k))
  <2>1. f \in [0 .. d -> X] /\ f[0] = start /\ \A k \in 1 .. d : f[k] = step[k][f[k - 1]]
    BY <1>5 DEF Computed
  <2> HIDE DEF X, start
  <2>2. \A k \in 1 .. d : f[k - 1] \in X
    BY <1>1, <2>1
  <2> QED
    BY <2>1, <2>2
<1> HIDE DEF step, X
<1> DEFINE kept == CHOOSE g : Iterates(g, plan, d)
<1>7. Iterates(f, plan, d)
  <2>1. ASSUME NEW k \in 0 .. d
        PROVE  f[k] = IF k = 0 THEN << <<>> >> ELSE Extend(f[k - 1], ValuesAt(plan, k))
    <3>1. CASE k = 0
      BY <1>6, <3>1
    <3>2. CASE k # 0
      <4>1. k \in 1 .. d
        BY <3>2
      <4> QED
        BY <1>6, <3>2, <4>1
    <3> QED
      BY <3>1, <3>2
  <2>2. f = [k \in 0 .. d |-> IF k = 0 THEN << <<>> >> ELSE Extend(f[k - 1], ValuesAt(plan, k))]
    BY <1>6, <2>1
  <2> QED
    BY <2>2 DEF Iterates
<1>8. Iterates(kept, plan, d)
  BY <1>7
<1>9. PathsTo(plan, d) = kept[d]
  BY DEF PathsTo, Iterates
<1> HIDE DEF kept
<1>10. kept[d] = f[d]
  <2> DEFINE G == {k \in 0 .. d : kept[k] = f[k]}
  <2>1. 0 \in G
    BY <1>1, <1>6, <1>8 DEF Iterates
  <2>2. ASSUME NEW k \in 0 .. d - 1, k \in G PROVE k + 1 \in G
    <3>1. k + 1 \in 1 .. d /\ (k + 1) - 1 = k /\ k + 1 # 0 /\ k + 1 \in 0 .. d
      BY <1>1
    <3>2. kept[k + 1] = Extend(kept[k], ValuesAt(plan, k + 1))
      BY <1>8, <3>1 DEF Iterates
    <3>3. f[k + 1] = Extend(f[k], ValuesAt(plan, k + 1))
      BY <1>6, <3>1
    <3> QED
      BY <2>2, <3>1, <3>2, <3>3
  <2> HIDE DEF G
  <2>3. \A k \in 0 .. d : k \in G
    BY <1>1, <2>1, <2>2, UpTo
  <2> QED
    BY <1>1, <2>3 DEF G
<1>11. Lists(f[d], PathSet(plan, d))
  <2> DEFINE G == {k \in 0 .. d : Lists(f[k], PathSet(plan, k))}
  <2>1. 0 \in G
    <3>1. Lists(<< <<>> >>, {<<>>})
      BY DEF Lists, IsInjective, ToSet
    <3>2. Lists(f[0], PathSet(plan, 0))
      BY <1>6, <3>1, PathSetZero
    <3> QED
      BY <1>1, <3>2
  <2>2. ASSUME NEW k \in 0 .. d - 1, k \in G PROVE k + 1 \in G
    <3>1. k + 1 \in 1 .. d /\ (k + 1) - 1 = k /\ k \in Nat /\ k + 1 \in 0 .. d
      BY <1>1
    <3>2. f[k + 1] = Extend(f[k], ValuesAt(plan, k + 1))
      BY <1>6, <3>1
    <3>3. Lists(f[k], PathSet(plan, k)) /\ PathSet(plan, k) \subseteq Seq(S)
      BY <2>2 DEF PathSet
    <3>4. Lists(f[k + 1], Extended(PathSet(plan, k), ValueSet(plan, k + 1)))
      <4> HIDE DEF S, G
      <4> QED
        BY <1>2, <3>1, <3>2, <3>3, ExtendLists
    <3>5. PathSet(plan, k + 1) = Extended(PathSet(plan, k), ValueSet(plan, k + 1))
      BY <1>2, <3>1, PathSetGrows
    <3> QED
      BY <3>1, <3>4, <3>5
  <2> HIDE DEF G
  <2>3. \A k \in 0 .. d : k \in G
    BY <1>1, <2>1, <2>2, UpTo
  <2> QED
    BY <1>1, <2>3 DEF G
<1> QED
  BY <1>9, <1>10, <1>11

Nodes(plan) == UNION {PathSet(plan, d) : d \in Depths(plan)}
Goals(plan) == PathSet(plan, LastDepth(plan))

\* The paths, and the candidates among them, of the plan.
LEMMA AllPathsAreNodes ==
  ASSUME NEW plan, IsPlan(plan)
  PROVE  /\ AllPaths(plan) = Nodes(plan)
         /\ ToSet(IterateCandidates(plan)) = Goals(plan) /\ Goals(plan) \subseteq Nodes(plan)
<1>1. LastDepth(plan) \in Nat \ {0} /\ Depths(plan) = 1 .. LastDepth(plan)
  BY FindPlaceholdersLists
<1>2. \A d \in Depths(plan) : ToSet(PathsTo(plan, d)) = PathSet(plan, d)
  <2>1. \A d \in Depths(plan) : d \in 0 .. LastDepth(plan)
    BY <1>1
  <2> QED
    BY <2>1, PathsToLists DEF Lists
<1>3. LastDepth(plan) \in Depths(plan)
  BY <1>1
<1> QED
  BY <1>2, <1>3 DEF AllPaths, Nodes, Goals, IterateCandidates

\* What a path of the plan looks like.
LEMMA NodesFacts ==
  ASSUME NEW plan, IsPlan(plan), NEW p \in Nodes(plan)
  PROVE  /\ p \in Seq(AllValues(plan)) /\ Len(p) \in Depths(plan) /\ p \in PathSet(plan, Len(p))
         /\ Len(p) \in 1 .. LastDepth(plan) /\ p # <<>>
         /\ IsLeaf(plan, p) <=> p \in Goals(plan)
<1>1. PICK d \in Depths(plan) : p \in PathSet(plan, d)
  BY DEF Nodes
<1>2. p \in Seq(AllValues(plan)) /\ Len(p) = d
  BY <1>1 DEF PathSet
<1>3. d \in 1 .. LastDepth(plan) /\ LastDepth(plan) \in Nat
  BY <1>1, FindPlaceholdersLists
<1>4. p # <<>>
  BY <1>2, <1>3
<1>5. IsLeaf(plan, p) <=> p \in Goals(plan)
  BY <1>1, <1>2, <1>3 DEF IsLeaf, Goals, PathSet
<1> QED
  BY <1>1, <1>2, <1>3, <1>4, <1>5

ChildSet(plan, p) == Extended({p}, ValueSet(plan, Len(p) + 1))

\* Children lists what is one value longer, and there is something.
LEMMA ChildrenLists ==
  ASSUME NEW plan, IsPlan(plan), NEW p \in Nodes(plan), ~IsLeaf(plan, p)
  PROVE  /\ Lists(Children(plan, p), ChildSet(plan, p)) /\ Children(plan, p) # <<>>
         /\ ChildSet(plan, p) # {} /\ Len(p) + 1 \in Depths(plan)
         /\ ChildSet(plan, p) \subseteq PathSet(plan, Len(p) + 1)
         /\ ChildSet(plan, p) \subseteq Nodes(plan)
<1> DEFINE d == Len(p) + 1  V == ValueSet(plan, d)  values == ValuesAt(plan, d)
           f == [v \in V |-> Append(p, v)]
<1>1. /\ p \in Seq(AllValues(plan)) /\ Len(p) \in Nat /\ d \in Depths(plan)
      /\ p \in PathSet(plan, Len(p))
  BY NodesFacts, FindPlaceholdersLists DEF IsLeaf
<1>2. Lists(values, V) /\ V # {} /\ V \subseteq AllValues(plan)
  BY <1>1, ValuesAtLists DEF AllValues
<1>3. OneToOne(f, V)
  <2>1. \A v, w \in V : Append(p, v) = Append(p, w) => v = w
    BY <1>1, <1>2, AppendInjective
  <2> QED
    BY <2>1 DEF OneToOne
<1>4. Children(plan, p) = Mapped(f, values)
  BY <1>2, ListsFacts DEF Children, Mapped
<1>5. Images(f, V) = ChildSet(plan, p)
  <2>1. \A v \in V : f[v] = Append(p, v)
    OBVIOUS
  <2> HIDE DEF V, f
  <2>2. Extended({p}, V) \subseteq Images(f, V)
    BY <2>1, ExtendedFacts DEF Images
  <2>3. \A v \in V : Append(p, v) \in Extended({p}, V)
    <3>1. p \in {p}
      OBVIOUS
    <3> QED
      BY <3>1, ExtendedFacts
  <2>4. Images(f, V) \subseteq Extended({p}, V)
    BY <2>1, <2>3 DEF Images
  <2> QED
    BY <2>2, <2>4 DEF ChildSet, V
<1> HIDE DEF f, values, V
<1>6. Lists(Children(plan, p), ChildSet(plan, p))
  BY <1>2, <1>3, <1>4, <1>5, MapLists
<1>7. ChildSet(plan, p) # {}
  BY <1>2, <1>5 DEF Images
<1>8. ChildSet(plan, p) \subseteq PathSet(plan, d)
  <2>1. PathSet(plan, d) = Extended(PathSet(plan, Len(p)), V)
    BY <1>1, PathSetGrows DEF V
  <2>2. ASSUME NEW q \in Extended({p}, V) PROVE q \in Extended(PathSet(plan, Len(p)), V)
    <3>1. PICK v \in V : q = Append(p, v)
      BY ExtendedFacts
    <3> QED
      BY <1>1, <3>1, ExtendedFacts
  <2> QED
    BY <2>1, <2>2 DEF ChildSet, V
<1>9. PathSet(plan, d) \subseteq Nodes(plan)
  BY <1>1 DEF Nodes
<1> QED
  BY <1>1, <1>6, <1>7, <1>8, <1>9, ListsFacts

-----------------------------------------------------------------------------
(* Prefixes.                                                                *)
LEMMA PrefixMeans ==
  ASSUME NEW S, NEW s \in Seq(S), NEW t \in Seq(S)
  PROVE  IsPrefix(s, t) <=> Len(s) <= Len(t) /\ \A i \in 1 .. Len(s) : s[i] = t[i]
<1>1. Len(s) \in Nat /\ Len(t) \in Nat
  OBVIOUS
<1>2. CASE Len(s) <= Len(t)
  <2> DEFINE u == SubSeq(s, 1, Len(s))  v == SubSeq(t, 1, Len(s))
  <2>1. /\ u \in Seq(S) /\ v \in Seq(S) /\ Len(u) = Len(s) /\ Len(v) = Len(s)
        /\ \A i \in 1 .. Len(s) : u[i] = s[i] /\ v[i] = t[i]
    BY <1>1, <1>2
  <2>2. IsPrefix(s, t) <=> u = v
    BY <1>2 DEF IsPrefix
  <2> HIDE DEF u, v
  <2>3. u = v <=> \A i \in 1 .. Len(s) : s[i] = t[i]
    BY <2>1, SeqEqual
  <2> QED
    BY <1>2, <2>2, <2>3
<1>3. CASE ~(Len(s) <= Len(t))
  BY <1>3 DEF IsPrefix
<1> QED
  BY <1>2, <1>3

\* The prefix order of paths.
LEMMA PrefixOrder ==
  ASSUME NEW S, NEW x \in Seq(S), NEW y \in Seq(S)
  PROVE  /\ IsPrefix(x, x)
         /\ IsPrefix(x, y) => Len(x) <= Len(y)
         /\ IsPrefix(x, y) /\ Len(x) = Len(y) => x = y
         /\ IsPrefix(x, y) /\ x # y => Len(x) < Len(y)
         /\ IsPrefix(x, y) /\ IsPrefix(y, x) => x = y
<1>1. IsPrefix(x, x)
  BY PrefixMeans
<1>2. IsPrefix(x, y) <=> Len(x) <= Len(y) /\ \A i \in 1 .. Len(x) : x[i] = y[i]
  BY PrefixMeans
<1>3. IsPrefix(y, x) => Len(y) <= Len(x)
  BY PrefixMeans
<1>4. IsPrefix(x, y) /\ Len(x) = Len(y) => x = y
  BY <1>2, SeqEqual
<1>5. Len(x) \in Nat /\ Len(y) \in Nat
  OBVIOUS
<1> QED
  BY <1>1, <1>2, <1>3, <1>4, <1>5

\* The prefix order is transitive.
LEMMA PrefixTransitive ==
  ASSUME NEW S, NEW x \in Seq(S), NEW y \in Seq(S), NEW z \in Seq(S),
         IsPrefix(x, y), IsPrefix(y, z)
  PROVE  IsPrefix(x, z)
<1>1. Len(x) <= Len(y) /\ \A i \in 1 .. Len(x) : x[i] = y[i]
  BY PrefixMeans
<1>2. Len(y) <= Len(z) /\ \A i \in 1 .. Len(y) : y[i] = z[i]
  BY PrefixMeans
<1>3. Len(x) \in Nat /\ Len(y) \in Nat /\ Len(z) \in Nat
  OBVIOUS
<1>4. Len(x) <= Len(z) /\ \A i \in 1 .. Len(x) : x[i] = z[i]
  BY <1>1, <1>2, <1>3
<1> QED
  BY <1>4, PrefixMeans

\* Two paths above the same path are comparable.
LEMMA PrefixesCompare ==
  ASSUME NEW S, NEW x \in Seq(S), NEW y \in Seq(S), NEW z \in Seq(S),
         IsPrefix(x, z), IsPrefix(y, z)
  PROVE  IsPrefix(x, y) \/ IsPrefix(y, x)
<1>1. Len(x) <= Len(z) /\ \A i \in 1 .. Len(x) : x[i] = z[i]
  BY PrefixMeans
<1>2. Len(y) <= Len(z) /\ \A i \in 1 .. Len(y) : y[i] = z[i]
  BY PrefixMeans
<1>3. Len(x) \in Nat /\ Len(y) \in Nat
  OBVIOUS
<1>4. CASE Len(x) <= Len(y)
  <2>1. \A i \in 1 .. Len(x) : x[i] = y[i]
    BY <1>1, <1>2, <1>3, <1>4
  <2> QED
    BY <1>4, <2>1, PrefixMeans
<1>5. CASE Len(y) <= Len(x)
  <2>1. \A i \in 1 .. Len(y) : y[i] = x[i]
    BY <1>1, <1>2, <1>3, <1>5
  <2> QED
    BY <1>5, <2>1, PrefixMeans
<1> QED
  BY <1>3, <1>4, <1>5

\* A set of nodes that takes the place of a node: they lie below it, none below
\* another, and every goal below the node lies below one of them.
Refines(plan, N, p) ==
  /\ N \subseteq Nodes(plan)
  /\ \A q \in N : IsPrefix(p, q) /\ q # p
  /\ \A q, r \in N : IsPrefix(q, r) => q = r
  /\ \A g \in Goals(plan) : IsPrefix(p, g) => \E q \in N : IsPrefix(q, g)

\* The children of a path stand for it: every goal below it is below one.
LEMMA ChildrenRefine ==
  ASSUME NEW plan, IsPlan(plan), NEW p \in Nodes(plan), ~IsLeaf(plan, p)
  PROVE  Refines(plan, ChildSet(plan, p), p)
<1> DEFINE A == AllValues(plan)  N == ChildSet(plan, p)  n == Len(p)
<1>1. /\ p \in Seq(A) /\ n \in Nat /\ N \subseteq Nodes(plan) /\ n + 1 \in Depths(plan)
      /\ \A q \in N : q \in Seq(A) /\ Len(q) = n + 1
      /\ n < LastDepth(plan) /\ LastDepth(plan) \in Nat
  BY NodesFacts, ChildrenLists, FindPlaceholdersLists DEF PathSet, IsLeaf
<1>2. \A q \in N : \E v \in ValueSet(plan, n + 1) : q = Append(p, v)
  BY ExtendedFacts DEF ChildSet
<1>3. \A v \in ValueSet(plan, n + 1) : Append(p, v) \in N
  BY ExtendedFacts DEF ChildSet
<1>4. ValueSet(plan, n + 1) \subseteq A
  BY <1>1 DEF AllValues
<1>5. \A g \in Goals(plan) : /\ g \in Seq(A) /\ Len(g) = LastDepth(plan)
                              /\ \A k \in 1 .. Len(g) : g[k] \in ValueSet(plan, k)
  BY DEF Goals, PathSet
<1> HIDE DEF A, N
<1>6. ASSUME NEW q \in N PROVE IsPrefix(p, q) /\ q # p
  <2>1. PICK v \in ValueSet(plan, n + 1) : q = Append(p, v)
    BY <1>2
  <2>2. v \in A
    BY <1>4
  <2>3. Len(q) = n + 1 /\ \A i \in 1 .. n : q[i] = p[i]
    BY <1>1, <2>1, <2>2, AppendProperties
  <2>4. IsPrefix(p, q)
    BY <1>1, <2>3, PrefixMeans
  <2> QED
    BY <1>1, <2>3, <2>4
<1>7. \A q, r \in N : IsPrefix(q, r) => q = r
  BY <1>1, PrefixOrder
<1>8. ASSUME NEW g \in Goals(plan), IsPrefix(p, g)
      PROVE  \E q \in N : IsPrefix(q, g)
  <2> DEFINE v == g[n + 1]  q == Append(p, v)
  <2>1. n + 1 \in 1 .. Len(g)
    BY <1>1, <1>5
  <2>2. v \in ValueSet(plan, n + 1) /\ v \in A
    BY <1>4, <1>5, <2>1
  <2>3. q \in N
    BY <1>3, <2>2
  <2>4. \A i \in 1 .. n : p[i] = g[i]
    BY <1>1, <1>5, <1>8, PrefixMeans
  <2>5. q \in Seq(A) /\ Len(q) = n + 1 /\ q[n + 1] = v /\ \A i \in 1 .. n : q[i] = p[i]
    BY <1>1, <2>2, AppendProperties
  <2> HIDE DEF q
  <2>6. \A i \in 1 .. n + 1 : q[i] = g[i]
    BY <1>1, <2>4, <2>5
  <2>7. n + 1 <= Len(g)
    BY <2>1
  <2>8. IsPrefix(q, g)
    BY <1>5, <2>5, <2>6, <2>7, PrefixMeans
  <2> QED
    BY <2>3, <2>8
<1> QED
  BY <1>1, <1>6, <1>7, <1>8 DEF Refines, N

\* So do the leaves below it.
LEMMA LeavesRefine ==
  ASSUME NEW plan, IsPlan(plan), NEW p \in Nodes(plan), ~IsLeaf(plan, p)
  PROVE  Refines(plan, {q \in Nodes(plan) : IsLeaf(plan, q) /\ IsPrefix(p, q)}, p)
<1> DEFINE A == AllValues(plan)  N == {q \in Nodes(plan) : IsLeaf(plan, q) /\ IsPrefix(p, q)}
<1>1. \A q \in N : q \in Seq(A) /\ Len(q) = LastDepth(plan) /\ q \in Nodes(plan)
  BY NodesFacts DEF IsLeaf
<1>2. \A q, r \in N : IsPrefix(q, r) => q = r
  BY <1>1, PrefixOrder
<1>3. \A g \in Goals(plan) : g \in Nodes(plan) /\ IsLeaf(plan, g) /\ g \in Seq(A)
  BY AllPathsAreNodes, NodesFacts
<1>4. \A g \in Goals(plan) : IsPrefix(p, g) => g \in N /\ IsPrefix(g, g)
  BY <1>3, PrefixOrder
<1> QED
  BY <1>2, <1>4 DEF Refines
-----------------------------------------------------------------------------
(* The request of a path.                                                   *)

\* The first element of a set of indices is its least.
LEMMA FirstIsLeast ==
  ASSUME NEW T, T \subseteq Nat, T # {}
  PROVE  First(T) \in T /\ \A j \in T : First(T) <= j
BY Least DEF First

\* The latest element of a bounded set of indices is its greatest.
LEMMA LatestIsGreatest ==
  ASSUME NEW T, NEW n \in Nat, T \subseteq 1 .. n, T # {}
  PROVE  Latest(T) \in T /\ \A j \in T : Latest(T) >= j
<1> DEFINE R == {n - i : i \in T}
<1>1. R \subseteq Nat /\ R # {}
  <2>1. \A i \in T : n - i \in Nat
    OBVIOUS
  <2> QED
    BY <2>1
<1> HIDE DEF R
<1>2. PICK x \in R : \A y \in R : x <= y
  BY <1>1, Least
<1>3. PICK i \in T : x = n - i
  BY DEF R
<1>4. ASSUME NEW j \in T PROVE i >= j
  <2>1. n - j \in R
    BY DEF R
  <2>2. n - i <= n - j
    BY <1>2, <1>3, <2>1
  <2>3. i \in Nat /\ j \in Nat
    OBVIOUS
  <2> QED
    BY <2>2, <2>3
<1> QED
  BY <1>4 DEF Latest

PlaceOf(plan, k) == Positions(plan.url, FindPlaceholders(plan)[k])

\* In the URL, the placeholder of a level comes before those of the deeper levels, unless
\* it is elsewhere in the request too.
LevelsInOrder(plan) ==
  \A k, j \in Depths(plan) :
    /\ k < j /\ PlaceOf(plan, k) # {} /\ PlaceOf(plan, j) # {}
    /\ FindPlaceholders(plan)[k] \notin plan.rest
    => First(PlaceOf(plan, k)) < First(PlaceOf(plan, j))

\* The placeholder of a level.
LEMMA LevelPlaceholder ==
  ASSUME NEW plan, IsPlan(plan), NEW k \in Depths(plan)
  PROVE  Levels(plan)[k].ph = FindPlaceholders(plan)[k]
<1> DEFINE ph == FindPlaceholders(plan)[k]  words == LevelWords(plan, ph)
<1>1. Levels(plan)[k] = [ph |-> ph, words |-> words]
  BY LevelsList
<1> HIDE DEF ph, words
<1> QED
  BY <1>1 DEF ph

\* The URL and the places of its placeholders.
LEMMA PlacesFacts ==
  ASSUME NEW plan, IsPlan(plan), NEW k \in Depths(plan)
  PROVE  /\ Len(plan.url) \in Nat /\ DOMAIN plan.url = 1 .. Len(plan.url)
         /\ PlaceOf(plan, k) \subseteq 1 .. Len(plan.url)
         /\ PlaceOf(plan, k) = Positions(plan.url, Levels(plan)[k].ph)
         /\ PlaceOf(plan, k) # {} => /\ First(PlaceOf(plan, k)) \in PlaceOf(plan, k)
                                     /\ First(PlaceOf(plan, k)) \in 1 .. Len(plan.url)
<1>1. Len(plan.url) \in Nat /\ DOMAIN plan.url = 1 .. Len(plan.url)
  <2>1. plan.url \in Seq(ToSet(plan.url))
    BY DEF IsPlan
  <2> QED
    BY <2>1
<1>2. PlaceOf(plan, k) \subseteq 1 .. Len(plan.url)
  BY <1>1 DEF PlaceOf, Positions
<1>3. Levels(plan)[k].ph = FindPlaceholders(plan)[k]
  BY LevelPlaceholder
<1>4. PlaceOf(plan, k) # {} => First(PlaceOf(plan, k)) \in PlaceOf(plan, k)
  <2>1. PlaceOf(plan, k) \subseteq Nat
    BY <1>1, <1>2
  <2> QED
    BY <2>1, FirstIsLeast
<1> QED
  BY <1>1, <1>2, <1>3, <1>4 DEF PlaceOf

\* Every placeholder has one level.
LEMMA DepthOfLevel ==
  ASSUME NEW plan, IsPlan(plan), NEW k \in Depths(plan)
  PROVE  DepthOf(plan, FindPlaceholders(plan)[k]) = k
<1>1. IsInjective(FindPlaceholders(plan))
  BY FindPlaceholdersLists
<1>2. \A j \in Depths(plan) : Levels(plan)[j].ph = FindPlaceholders(plan)[j]
  BY LevelPlaceholder
<1>3. \A j \in Depths(plan) : FindPlaceholders(plan)[j] = FindPlaceholders(plan)[k] => j = k
  BY <1>1 DEF IsInjective, Depths
<1> DEFINE ph == FindPlaceholders(plan)[k]
<1>4. \A j \in Depths(plan) : Levels(plan)[j].ph = ph <=> j = k
  BY <1>2, <1>3
<1> HIDE DEF ph
<1> QED
  BY <1>4 DEF DepthOf, ph

\* No cut for a deeper placeholder comes before the place of a level up to d.
LEMMA CutsComeLater ==
  ASSUME NEW plan, IsPlan(plan), NEW d \in Depths(plan), NEW k \in 1 .. d,
         PlaceOf(plan, k) # {}, NEW idx \in 1 .. Len(plan.url), First(PlaceOf(plan, k)) < idx
  PROVE  CutAt(plan, d, idx) \in 1 .. Len(plan.url) /\ First(PlaceOf(plan, k)) < CutAt(plan, d, idx)
<1> DEFINE n == Len(plan.url)  slashes == {i \in Positions(plan.url, "/") : i < idx}
           inURL == {j \in 1 .. d : Positions(plan.url, Levels(plan)[j].ph) # {}}
           ends == {First(Positions(plan.url, Levels(plan)[j].ph)) : j \in inURL}
<1>1. Depths(plan) = 1 .. LastDepth(plan) /\ LastDepth(plan) \in Nat
  BY FindPlaceholdersLists
<1>2. \A j \in 1 .. d : j \in Depths(plan)
  BY <1>1
<1>3. n \in Nat /\ DOMAIN plan.url = 1 .. n
  BY PlacesFacts
<1>4. ends = {First(PlaceOf(plan, j)) : j \in {i \in 1 .. d : PlaceOf(plan, i) # {}}}
  BY <1>2, PlacesFacts
<1>5. First(PlaceOf(plan, k)) \in ends
  BY <1>4
<1>6. ends \subseteq 1 .. n
  BY <1>2, <1>4, PlacesFacts
<1>7. MinSafe(plan, d) = Latest(ends)
  BY <1>5 DEF MinSafe
<1>8. slashes \subseteq 1 .. n
  BY <1>3 DEF Positions
<1> HIDE DEF ends, slashes, n
<1>9. MinSafe(plan, d) >= First(PlaceOf(plan, k)) /\ MinSafe(plan, d) \in 1 .. n
  <2>1. Latest(ends) \in ends /\ \A j \in ends : Latest(ends) >= j
    BY <1>3, <1>5, <1>6, LatestIsGreatest
  <2> QED
    BY <1>5, <1>6, <1>7, <2>1
<1>10. First(PlaceOf(plan, k)) \in 1 .. n
  BY <1>5, <1>6
<1>11. CASE slashes # {} /\ Latest(slashes) > MinSafe(plan, d)
  <2>1. Latest(slashes) \in slashes
    BY <1>3, <1>8, <1>11, LatestIsGreatest
  <2>2. CutAt(plan, d, idx) = Latest(slashes)
    BY <1>11 DEF CutAt, slashes
  <2>3. Latest(slashes) \in 1 .. n
    BY <1>8, <2>1
  <2> QED
    BY <1>3, <1>9, <1>10, <1>11, <2>2, <2>3 DEF n
<1>12. CASE ~(slashes # {} /\ Latest(slashes) > MinSafe(plan, d))
  <2>1. CutAt(plan, d, idx) = idx
    BY <1>12 DEF CutAt, slashes
  <2> QED
    BY <2>1
<1> QED
  BY <1>11, <1>12

\* A template in order keeps the first place of every level it is cut for.
LEMMA TruncateKeeps ==
  ASSUME NEW plan, IsPlan(plan), LevelsInOrder(plan), NEW d \in Depths(plan), NEW k \in 1 .. d,
         PlaceOf(plan, k) # {}, FindPlaceholders(plan)[k] \notin plan.rest
  PROVE  /\ First(PlaceOf(plan, k)) \in DOMAIN TruncateTemplate(plan, d)
         /\ TruncateTemplate(plan, d)[First(PlaceOf(plan, k))] = FindPlaceholders(plan)[k]
<1> DEFINE n == Len(plan.url)  i == First(PlaceOf(plan, k))  deeper == Deeper(plan, d)
           cuts == {CutAt(plan, d, First(Positions(plan.url, Levels(plan)[j].ph))) : j \in deeper}
<1>1. Depths(plan) = 1 .. LastDepth(plan) /\ LastDepth(plan) \in Nat
  BY FindPlaceholdersLists
<1>2. k \in Depths(plan)
  BY <1>1
<1>3. /\ n \in Nat /\ DOMAIN plan.url = 1 .. n /\ i \in 1 .. n
      /\ plan.url[i] = FindPlaceholders(plan)[k]
  BY <1>2, PlacesFacts DEF PlaceOf, Positions
<1>4. ASSUME NEW j \in deeper
      PROVE  /\ CutAt(plan, d, First(Positions(plan.url, Levels(plan)[j].ph))) \in 1 .. n
             /\ i < CutAt(plan, d, First(Positions(plan.url, Levels(plan)[j].ph)))
  <2>1. j \in Depths(plan) /\ j > k /\ Positions(plan.url, Levels(plan)[j].ph) # {}
    BY <1>1 DEF Deeper
  <2>2. PlaceOf(plan, j) = Positions(plan.url, Levels(plan)[j].ph) /\ PlaceOf(plan, j) # {}
    BY <2>1, PlacesFacts
  <2>3. First(PlaceOf(plan, k)) < First(PlaceOf(plan, j)) /\ First(PlaceOf(plan, j)) \in 1 .. n
    BY <1>2, <2>1, <2>2, PlacesFacts DEF LevelsInOrder
  <2> DEFINE idx == First(PlaceOf(plan, j))
  <2> HIDE DEF idx
  <2>4. CutAt(plan, d, idx) \in 1 .. n /\ First(PlaceOf(plan, k)) < CutAt(plan, d, idx)
    BY <2>3, CutsComeLater DEF idx
  <2> QED
    BY <2>2, <2>4 DEF idx
<1>5. CASE deeper = {}
  BY <1>3, <1>5 DEF TruncateTemplate
<1>6. CASE deeper # {}
  <2>1. cuts \subseteq 1 .. n /\ cuts # {} /\ \A c \in cuts : i < c
    BY <1>4, <1>6
  <2>2. TruncateTemplate(plan, d) = SubSeq(plan.url, 1, First(cuts) - 1)
    BY <1>6 DEF TruncateTemplate
  <2> HIDE DEF cuts, n, i, deeper
  <2>3. First(cuts) \in cuts
    <3>1. cuts \subseteq Nat
      BY <1>3, <2>1
    <3> QED
      BY <2>1, <3>1, FirstIsLeast
  <2>4. First(cuts) \in 1 .. n /\ i < First(cuts)
    BY <2>1, <2>3
  <2>5. PICK c \in 1 .. n : c = First(cuts)
    BY <2>4
  <2>6. plan.url \in Seq(ToSet(plan.url))
    BY DEF IsPlan
  <2>7. PICK u : u = plan.url
    OBVIOUS
  <2>8. PICK A : u \in Seq(A) /\ Len(u) = n
    BY <2>6, <2>7 DEF n
  <2>9. c - 1 \in 0 .. n /\ i \in 1 .. c - 1
    BY <1>3, <2>4, <2>5
  <2>10. DOMAIN SubSeq(u, 1, c - 1) = 1 .. c - 1 /\ SubSeq(u, 1, c - 1)[i] = u[i]
    BY <1>3, <2>8, <2>9
  <2> QED
    BY <1>3, <2>2, <2>5, <2>7, <2>9, <2>10 DEF i
<1> QED
  BY <1>5, <1>6

\* Two values of a level are never asked for with the same request.
THEOREM RequestsDiffer ==
  ASSUME NEW plan, IsPlan(plan), LevelsInOrder(plan), NEW d \in Depths(plan),
         NEW x \in PathSet(plan, d), NEW y \in PathSet(plan, d), x # y
  PROVE  BuildJob(plan, x) # BuildJob(plan, y)
<1> SUFFICES ASSUME BuildJob(plan, x) = BuildJob(plan, y) PROVE FALSE
  OBVIOUS
<1> DEFINE tokens == TruncateTemplate(plan, d)
<1>1. /\ x \in Seq(AllValues(plan)) /\ y \in Seq(AllValues(plan)) /\ Len(x) = d /\ Len(y) = d
      /\ Depths(plan) = 1 .. LastDepth(plan) /\ LastDepth(plan) \in Nat
  BY FindPlaceholdersLists DEF PathSet
<1>2. PICK k \in 1 .. d : x[k] # y[k]
  BY <1>1, SeqEqual
<1> DEFINE ph == FindPlaceholders(plan)[k]
<1>3. k \in Depths(plan) /\ DepthOf(plan, ph) = k /\ k <= d
  BY <1>1, DepthOfLevel
<1>4. Lookup(plan, x, ph) = x[k] /\ Lookup(plan, y, ph) = y[k]
  BY <1>1, <1>3 DEF Lookup
<1>5. /\ Render(plan, x, tokens) = Render(plan, y, tokens)
      /\ [q \in plan.rest |-> Lookup(plan, x, q)] = [q \in plan.rest |-> Lookup(plan, y, q)]
  BY <1>1 DEF BuildJob
<1>6. ph \in ToSet(SupportedPlaceholders) /\ ph \in ToSet(plan.url) \cup plan.rest
  <2> DEFINE P == ToSet(SupportedPlaceholders)  A == ToSet(plan.url) \cup plan.rest
  <2>1. SupportedPlaceholders \in Seq(P) /\ IsInjective(SupportedPlaceholders)
    BY DEF SupportedPlaceholders, ToSet, IsInjective
  <2>2. ph \in ToSet(FindPlaceholders(plan))
    BY <1>3 DEF ToSet, Depths
  <2>3. FindPlaceholders(plan) = Within(SupportedPlaceholders, A)
    BY DEF FindPlaceholders
  <2> HIDE DEF P, A, ph
  <2>4. ToSet(Within(SupportedPlaceholders, A)) = P \cap A
    BY <2>1, WithinKeeps DEF P
  <2> QED
    BY <2>2, <2>3, <2>4 DEF P, A
<1> HIDE DEF ph
<1>7. CASE ph \in plan.rest
  <2>1. Lookup(plan, x, ph) = Lookup(plan, y, ph)
    <3> DEFINE X == [q \in plan.rest |-> Lookup(plan, x, q)]
               Y == [q \in plan.rest |-> Lookup(plan, y, q)]
    <3>1. X[ph] = Lookup(plan, x, ph) /\ Y[ph] = Lookup(plan, y, ph)
      BY <1>7
    <3>2. X = Y
      BY <1>5
    <3> HIDE DEF X, Y
    <3> QED
      BY <3>1, <3>2
  <2> QED
    BY <1>2, <1>4, <2>1
<1>8. CASE ph \notin plan.rest
  <2>1. PICK i \in DOMAIN plan.url : plan.url[i] = ph
    BY <1>6, <1>8 DEF ToSet
  <2>2. PlaceOf(plan, k) # {}
    BY <2>1 DEF PlaceOf, Positions, ph
  <2>3. PICK j \in DOMAIN tokens : tokens[j] = ph
    BY <1>3, <1>8, <2>2, TruncateKeeps DEF ph
  <2> HIDE DEF tokens
  <2>4. /\ Render(plan, x, tokens)[j] = Lookup(plan, x, ph)
        /\ Render(plan, y, tokens)[j] = Lookup(plan, y, ph)
    BY <1>6, <2>3 DEF Render
  <2> QED
    BY <1>2, <1>4, <1>5, <2>4
<1> QED
  BY <1>7, <1>8

-----------------------------------------------------------------------------
(* How many candidates there are: below a path what recordPruned counts,    *)
(* and altogether what EstimateCandidates says.                             *)
Multiplies(g, fs, n) ==
  /\ g \in [0 .. n -> Nat] /\ g[0] = 1
  /\ \A k \in 1 .. n : g[k] = fs[k] * g[k - 1]

\* A product of naturals is computed factor by factor.
LEMMA ProductSteps ==
  ASSUME NEW fs, NEW n \in Nat, Len(fs) = n, \A i \in 1 .. n : fs[i] \in Nat
  PROVE  \E g : Multiplies(g, fs, n) /\ Product(fs) = g[n]
<1> DEFINE step == [i \in 1 .. n |-> [x \in Nat |-> fs[i] * x]]
<1>1. \A i \in 1 .. n : \A x \in Nat : step[i][x] \in Nat
  OBVIOUS
<1>2. PICK f : Computed(f, n, Nat, 1, step)
  <2>1. 1 \in Nat
    OBVIOUS
  <2> HIDE DEF step
  <2>2. \E f : Computed(f, n, Nat, 1, step)
    BY <1>1, <2>1, Recursive
  <2> QED
    BY <2>2
<1> DEFINE Fix(g) == g = [k \in 0 .. Len(fs) |-> IF k = 0 THEN 1 ELSE fs[k] * g[k - 1]]
           product == CHOOSE g : Fix(g)
<1>3. /\ f \in [0 .. n -> Nat] /\ f[0] = 1
      /\ \A k \in 1 .. n : f[k] = fs[k] * f[k - 1]
  <2>1. f \in [0 .. n -> Nat] /\ f[0] = 1 /\ \A i \in 1 .. n : f[i] = step[i][f[i - 1]]
    BY <1>2 DEF Computed
  <2>2. \A k \in 1 .. n : f[k - 1] \in Nat
    BY <2>1
  <2> QED
    BY <2>1, <2>2
<1> HIDE DEF step
<1>4. Fix(f)
  <2>1. ASSUME NEW i \in 0 .. n PROVE f[i] = IF i = 0 THEN 1 ELSE fs[i] * f[i - 1]
    <3>1. CASE i = 0
      BY <1>3, <3>1
    <3>2. CASE i # 0
      <4>1. i \in 1 .. n
        BY <3>2
      <4> QED
        BY <1>3, <3>2, <4>1
    <3> QED
      BY <3>1, <3>2, Zenon
  <2>2. f = [k \in 0 .. n |-> IF k = 0 THEN 1 ELSE fs[k] * f[k - 1]]
    BY <1>3, <2>1
  <2> QED
    BY <2>2
<1>5. Product(fs) = product[n]
  BY DEF Product
<1> HIDE DEF Fix
<1>6. Fix(product)
  BY <1>4
<1> HIDE DEF product
<1>7. /\ product[0] = 1 /\ DOMAIN product = 0 .. n
      /\ \A k \in 0 .. n : k # 0 => product[k] = fs[k] * product[k - 1]
  <2> DEFINE Value1(k) == IF k = 0 THEN 1 ELSE fs[k] * product[k - 1]
  <2>1. product = [k \in 0 .. n |-> Value1(k)]
    BY <1>6 DEF Fix
  <2>2. ASSUME NEW k \in 0 .. n PROVE product[k] = Value1(k)
    <3> HIDE DEF Value1
    <3> QED
      BY <2>1
  <2> QED
    BY <2>1, <2>2
<1>8. \A i \in 0 .. n : product[i] = f[i]
  <2> DEFINE G == {i \in 0 .. n : product[i] = f[i]}
  <2>1. 0 \in G
    BY <1>3, <1>7
  <2>2. ASSUME NEW i \in 0 .. n - 1, i \in G PROVE i + 1 \in G
    <3>1. i + 1 \in 1 .. n /\ i + 1 \in 0 .. n /\ (i + 1) - 1 = i /\ i + 1 # 0
      OBVIOUS
    <3>2. product[i + 1] = fs[i + 1] * product[i]
      BY <1>7, <3>1
    <3>3. f[i + 1] = fs[i + 1] * f[i]
      BY <1>3, <3>1
    <3> QED
      BY <2>2, <3>1, <3>2, <3>3
  <2> HIDE DEF G
  <2>3. \A i \in 0 .. n : i \in G
    BY <2>1, <2>2, UpTo
  <2> QED
    BY <2>3 DEF G
<1>9. Multiplies(f, fs, n) /\ Product(fs) = f[n]
  BY <1>3, <1>5, <1>8 DEF Multiplies
<1> QED
  BY <1>9

\* What is multiplied step by step is determined by its factors.
LEMMA ProductIs ==
  ASSUME NEW fs, NEW n \in Nat, Len(fs) = n, \A i \in 1 .. n : fs[i] \in Nat,
         NEW g, Multiplies(g, fs, n)
  PROVE  Product(fs) = g[n]
<1>1. PICK f : Multiplies(f, fs, n) /\ Product(fs) = f[n]
  BY ProductSteps
<1> DEFINE G == {i \in 0 .. n : g[i] = f[i]}
<1>2. 0 \in G
  BY <1>1 DEF Multiplies
<1>3. ASSUME NEW i \in 0 .. n - 1, i \in G PROVE i + 1 \in G
  <2>1. i + 1 \in 1 .. n /\ i + 1 \in 0 .. n /\ (i + 1) - 1 = i
    OBVIOUS
  <2>2. g[i + 1] = fs[i + 1] * g[i] /\ f[i + 1] = fs[i + 1] * f[i]
    BY <1>1, <2>1 DEF Multiplies
  <2> QED
    BY <1>3, <2>1, <2>2
<1> HIDE DEF G
<1>4. \A i \in 0 .. n : i \in G
  BY <1>2, <1>3, UpTo
<1> QED
  BY <1>1, <1>4 DEF G

\* A product of naturals is a natural number.
LEMMA ProductNat ==
  ASSUME NEW fs, NEW n \in Nat, Len(fs) = n, \A i \in 1 .. n : fs[i] \in Nat
  PROVE  Product(fs) \in Nat
<1>1. PICK g : Multiplies(g, fs, n) /\ Product(fs) = g[n]
  BY ProductSteps
<1> QED
  BY <1>1 DEF Multiplies

\* A listing is as long as the set is large.
LEMMA ListsCardinality ==
  ASSUME NEW A, NEW q, Lists(q, A)
  PROVE  IsFiniteSet(A) /\ Cardinality(A) = Len(q)
<1> DEFINE n == Len(q)
<1>1. /\ n \in Nat /\ DOMAIN q = 1 .. n
      /\ \A i \in 1 .. n : q[i] \in A
      /\ \A a \in A : \E i \in 1 .. n : q[i] = a
      /\ \A i, j \in 1 .. n : q[i] = q[j] => i = j
  BY ListsFacts
<1>2. q \in [1 .. n -> A]
  BY <1>1 DEF Lists
<1> HIDE DEF n
<1>3. q \in Bijection(1 .. n, A)
  BY <1>1, <1>2 DEF Bijection, Injection, Surjection, IsInjective
<1>4. ExistsBijection(1 .. n, A)
  BY <1>3 DEF ExistsBijection
<1>5. IsFiniteSet(1 .. n) /\ Cardinality(1 .. n) = n
  BY <1>1, FS_Interval
<1> QED
  BY <1>4, <1>5, FS_Bijection DEF n

\* The paths of a depth that lie below p.
BelowAt(plan, p, d) == {q \in PathSet(plan, d) : IsPrefix(p, q)}

\* Those below p at p's own depth, and how they grow from depth to depth.
LEMMA BelowGrows ==
  ASSUME NEW plan, IsPlan(plan), NEW n \in 0 .. LastDepth(plan), NEW p \in PathSet(plan, n)
  PROVE  /\ BelowAt(plan, p, n) = {p}
         /\ \A d \in n .. LastDepth(plan) - 1 :
              BelowAt(plan, p, d + 1) = Extended(BelowAt(plan, p, d), ValueSet(plan, d + 1))
<1> DEFINE A == AllValues(plan)
<1>1. LastDepth(plan) \in Nat \ {0} /\ Depths(plan) = 1 .. LastDepth(plan)
  BY FindPlaceholdersLists
<1>2. \A d, q : q \in PathSet(plan, d) => q \in Seq(A) /\ Len(q) = d
  BY DEF PathSet
<1>3. p \in Seq(A) /\ Len(p) = n /\ n \in Nat
  BY <1>1, <1>2
<1>4. \A d \in Depths(plan) : ValueSet(plan, d) \subseteq A
  BY DEF AllValues
<1> HIDE DEF A
<1>5. BelowAt(plan, p, n) = {p}
  <2>1. ASSUME NEW q \in BelowAt(plan, p, n) PROVE q = p
    <3>1. q \in Seq(A) /\ Len(q) = n /\ IsPrefix(p, q)
      BY <1>2 DEF BelowAt
    <3> QED
      BY <1>3, <3>1, PrefixOrder
  <2>2. IsPrefix(p, p)
    BY <1>3, PrefixOrder
  <2> QED
    BY <2>1, <2>2 DEF BelowAt
<1>6. ASSUME NEW d \in n .. LastDepth(plan) - 1
      PROVE  BelowAt(plan, p, d + 1) = Extended(BelowAt(plan, p, d), ValueSet(plan, d + 1))
  <2> DEFINE P == PathSet(plan, d)  V == ValueSet(plan, d + 1)
  <2>1. d \in Nat /\ d + 1 \in Depths(plan) /\ n <= d
    BY <1>1, <1>3
  <2>2. PathSet(plan, d + 1) = Extended(P, V) /\ V \subseteq A
    BY <1>4, <2>1, PathSetGrows
  <2>3. ASSUME NEW q \in P, NEW v \in V
        PROVE  IsPrefix(p, Append(q, v)) <=> IsPrefix(p, q)
    <3> DEFINE r == Append(q, v)
    <3>1. q \in Seq(A) /\ Len(q) = d /\ v \in A
      BY <1>2, <2>2
    <3>2. r \in Seq(A) /\ Len(r) = d + 1 /\ \A i \in 1 .. d : r[i] = q[i]
      BY <3>1, AppendProperties
    <3> HIDE DEF r
    <3>3. IsPrefix(p, r) <=> Len(p) <= Len(r) /\ \A i \in 1 .. Len(p) : p[i] = r[i]
      BY <1>3, <3>2, PrefixMeans
    <3>4. IsPrefix(p, q) <=> Len(p) <= Len(q) /\ \A i \in 1 .. Len(p) : p[i] = q[i]
      BY <1>3, <3>1, PrefixMeans
    <3>5. \A i \in 1 .. n : r[i] = q[i]
      BY <1>3, <2>1, <3>2
    <3> QED
      BY <1>3, <2>1, <3>1, <3>2, <3>3, <3>4, <3>5 DEF r
  <2> HIDE DEF P, V
  <2>4. ASSUME NEW x \in BelowAt(plan, p, d + 1) PROVE x \in Extended(BelowAt(plan, p, d), V)
    <3>1. x \in Extended(P, V) /\ IsPrefix(p, x)
      BY <2>2 DEF BelowAt
    <3>2. PICK q \in P, v \in V : x = Append(q, v)
      BY <3>1, ExtendedFacts
    <3>3. q \in BelowAt(plan, p, d)
      BY <2>3, <3>1, <3>2 DEF BelowAt, P
    <3> QED
      BY <3>2, <3>3, ExtendedFacts
  <2>5. ASSUME NEW x \in Extended(BelowAt(plan, p, d), V) PROVE x \in BelowAt(plan, p, d + 1)
    <3>1. PICK q \in BelowAt(plan, p, d), v \in V : x = Append(q, v)
      BY ExtendedFacts
    <3>2. q \in P /\ IsPrefix(p, q)
      BY DEF BelowAt, P
    <3>3. x \in Extended(P, V)
      BY <3>1, <3>2, ExtendedFacts
    <3> QED
      BY <2>2, <2>3, <3>1, <3>2, <3>3 DEF BelowAt
  <2> QED
    BY <2>4, <2>5 DEF V
<1> QED
  BY <1>5, <1>6

\* The number of values of a level.
Width(plan, d) == Len(ValuesAt(plan, d))

\* The candidates below a path are as many as the values of the deeper levels multiply to.
LEMMA CandidatesBelow ==
  ASSUME NEW plan, IsPlan(plan), NEW n \in 0 .. LastDepth(plan), NEW p \in PathSet(plan, n)
  PROVE  /\ IsFiniteSet(BelowAt(plan, p, LastDepth(plan)))
         /\ Cardinality(BelowAt(plan, p, LastDepth(plan)))
              = Product([i \in 1 .. LastDepth(plan) - n |-> Width(plan, n + i)])
<1> DEFINE m == LastDepth(plan) - n  fs == [i \in 1 .. m |-> Width(plan, n + i)]
<1>1. /\ LastDepth(plan) \in Nat \ {0} /\ Depths(plan) = 1 .. LastDepth(plan)
      /\ n \in Nat /\ m \in Nat /\ n + m = LastDepth(plan)
      /\ \A i \in 1 .. m : n + i \in Depths(plan)
  BY FindPlaceholdersLists
<1>2. ASSUME NEW d \in Depths(plan)
      PROVE  /\ Lists(ValuesAt(plan, d), ValueSet(plan, d)) /\ ValueSet(plan, d) \subseteq AllValues(plan)
             /\ Width(plan, d) \in Nat
  <2>1. Lists(ValuesAt(plan, d), ValueSet(plan, d))
    BY ValuesAtLists
  <2>2. Len(ValuesAt(plan, d)) \in Nat
    BY <2>1, ListsFacts
  <2> QED
    BY <2>1, <2>2 DEF Width, AllValues
<1>3. Len(fs) = m /\ \A i \in 1 .. m : fs[i] = Width(plan, n + i) /\ fs[i] \in Nat
  BY <1>1, <1>2
<1> HIDE DEF fs
<1>4. PICK g : Multiplies(g, fs, m) /\ Product(fs) = g[m]
  BY <1>1, <1>3, ProductSteps
<1> HIDE DEF m
<1> DEFINE B(j) == BelowAt(plan, p, n + j)
           Listed(j) == \E q : Lists(q, B(j)) /\ Len(q) = g[j]
           G == {j \in 0 .. m : Listed(j)}
<1>5. /\ BelowAt(plan, p, n) = {p}
      /\ \A d \in n .. LastDepth(plan) - 1 :
           BelowAt(plan, p, d + 1) = Extended(BelowAt(plan, p, d), ValueSet(plan, d + 1))
  BY BelowGrows
<1>6. 0 \in G
  <2>1. Lists(<<p>>, {p}) /\ Len(<<p>>) = 1
    BY DEF Lists, IsInjective, ToSet
  <2>2. g[0] = 1 /\ n + 0 = n
    BY <1>1, <1>4 DEF Multiplies
  <2>3. Listed(0)
    BY <1>5, <2>1, <2>2
  <2> HIDE DEF Listed
  <2> QED
    BY <1>1, <2>3
<1>7. ASSUME NEW j \in 0 .. m - 1, j \in G PROVE j + 1 \in G
  <2> DEFINE d == n + j  V == ValueSet(plan, d + 1)  vs == ValuesAt(plan, d + 1)
  <2>1. d \in n .. LastDepth(plan) - 1 /\ d + 1 \in Depths(plan) /\ d + 1 = n + (j + 1)
        /\ j + 1 \in 1 .. m /\ (j + 1) - 1 = j
    BY <1>1
  <2>2. PICK q : Lists(q, B(j)) /\ Len(q) = g[j]
    BY <1>7
  <2>3. B(j + 1) = Extended(B(j), V)
    BY <1>5, <2>1
  <2>4. Lists(vs, V) /\ V \subseteq AllValues(plan) /\ Len(vs) = Width(plan, d + 1)
    BY <1>2, <2>1 DEF Width
  <2>5. B(j) \subseteq Seq(AllValues(plan))
    BY DEF BelowAt, PathSet
  <2>6. g[j + 1] = fs[j + 1] * g[j] /\ fs[j + 1] = Width(plan, d + 1) /\ g[j] \in Nat
    <3>1. g \in [0 .. m -> Nat] /\ \A k \in 1 .. m : g[k] = fs[k] * g[k - 1]
      BY <1>4 DEF Multiplies
    <3>2. fs[j + 1] = Width(plan, n + (j + 1))
      BY <1>3, <2>1
    <3>3. g[j + 1] = fs[j + 1] * g[(j + 1) - 1]
      BY <2>1, <3>1
    <3>4. g[j] \in Nat
      BY <1>7, <3>1
    <3> HIDE DEF d
    <3> QED
      BY <2>1, <3>2, <3>3, <3>4
  <2> DEFINE Bj == B(j)  A == AllValues(plan)
  <2>7. Lists(q, Bj) /\ Bj \subseteq Seq(A) /\ Lists(vs, V) /\ V \subseteq A
    BY <2>2, <2>4, <2>5
  <2> HIDE DEF V, vs, Bj, A, d
  <2>8. Lists(Extend(q, vs), Extended(Bj, V)) /\ Len(Extend(q, vs)) = Len(q) * Len(vs)
    BY <2>7, ExtendLists
  <2>9. Len(q) * Len(vs) = g[j + 1]
    <3>1. Width(plan, d + 1) \in Nat
      BY <1>2, <2>1
    <3> DEFINE a == g[j]  b == Width(plan, d + 1)
    <3>2. Len(q) = a /\ Len(vs) = b /\ g[j + 1] = b * a /\ a \in Nat /\ b \in Nat
      BY <2>2, <2>4, <2>6, <3>1
    <3> HIDE DEF a, b
    <3> QED
      BY <3>2
  <2>10. Listed(j + 1)
    BY <2>3, <2>8, <2>9 DEF Bj
  <2> HIDE DEF Listed
  <2> QED
    BY <2>1, <2>10
<1>8. Listed(m)
  <2> HIDE DEF G
  <2>1. \A j \in 0 .. m : j \in G
    BY <1>1, <1>6, <1>7, UpTo
  <2>2. m \in 0 .. m
    BY <1>1
  <2> QED
    BY <2>1, <2>2 DEF G
<1>9. PICK q : Lists(q, B(m)) /\ Len(q) = g[m]
  BY <1>8
<1>10. IsFiniteSet(B(m)) /\ Cardinality(B(m)) = Len(q)
  <2> DEFINE Bm == B(m)
  <2> HIDE DEF Bm
  <2>1. Lists(q, Bm)
    BY <1>9 DEF Bm
  <2>2. IsFiniteSet(Bm) /\ Cardinality(Bm) = Len(q)
    BY <2>1, ListsCardinality
  <2> QED
    BY <2>2 DEF Bm
<1>11. B(m) = BelowAt(plan, p, LastDepth(plan))
  BY <1>1
<1> QED
  BY <1>4, <1>9, <1>10, <1>11 DEF fs, m

\* Only the first level can be that of FUZZ, so only it has extensions.
LEMMA FuzzFirst ==
  ASSUME NEW plan, IsPlan(plan), NEW d \in Depths(plan), d # 1
  PROVE  /\ Levels(plan)[d].ph # "FUZZ"
         /\ Width(plan, d) = Len(WordsAt(plan, d))
<1> DEFINE A == ToSet(plan.url) \cup plan.rest  P == ToSet(SupportedPlaceholders)
           ph == FindPlaceholders(plan)
<1>1. SupportedPlaceholders \in Seq(P) /\ IsInjective(SupportedPlaceholders)
      /\ Len(SupportedPlaceholders) > 0 /\ SupportedPlaceholders[1] = "FUZZ"
  BY DEF SupportedPlaceholders, ToSet, IsInjective
<1>2. ph = Within(SupportedPlaceholders, A)
  BY DEF FindPlaceholders
<1> HIDE DEF A, P, ph
<1>3. /\ ph \in Seq(P) /\ IsInjective(ph) /\ ToSet(ph) = ToSet(SupportedPlaceholders) \cap A
      /\ "FUZZ" \in A => ph # <<>> /\ ph[1] = "FUZZ"
  BY <1>1, <1>2, WithinKeeps
<1>4. d \in DOMAIN ph /\ 1 \in DOMAIN ph
  BY FindPlaceholdersLists DEF ph, Depths
<1>5. ph[d] # "FUZZ"
  <2> SUFFICES ASSUME ph[d] = "FUZZ" PROVE FALSE
    OBVIOUS
  <2>1. "FUZZ" \in A
    BY <1>3, <1>4 DEF ToSet
  <2>2. ph[1] = ph[d]
    BY <1>3, <2>1
  <2> QED
    BY <1>3, <1>4, <2>2 DEF IsInjective
<1>6. Levels(plan)[d].ph = ph[d]
  BY LevelPlaceholder DEF ph
<1>7. Len(ValuesAt(plan, d)) = Len(WordsAt(plan, d)) * 1
  BY <1>5, <1>6, ValuesAtLists
<1>8. Len(WordsAt(plan, d)) \in Nat
  <2>1. Lists(WordsAt(plan, d), ToSet(WordsAt(plan, d)))
    BY LevelsList
  <2> QED
    BY <2>1, ListsFacts
<1> QED
  BY <1>5, <1>6, <1>7, <1>8 DEF Width

\* recordPruned counts the candidates below the path (traversal.go:76-87).
LEMMA PrunedCounts ==
  ASSUME NEW plan, IsPlan(plan), NEW p \in Nodes(plan)
  PROVE  /\ IsFiniteSet({g \in Goals(plan) : IsPrefix(p, g)})
         /\ Cardinality({g \in Goals(plan) : IsPrefix(p, g)}) = Pruned(plan, p)
<1> DEFINE n == Len(p)  m == LastDepth(plan) - n
           fs == [i \in 1 .. m |-> Width(plan, n + i)]
           gs == [i \in 1 .. m |-> Len(Levels(plan)[n + i].words)]
<1>1. /\ n \in 1 .. LastDepth(plan) /\ p \in PathSet(plan, n) /\ LastDepth(plan) \in Nat \ {0}
      /\ Depths(plan) = 1 .. LastDepth(plan)
  BY NodesFacts, FindPlaceholdersLists
<1>2. n \in 0 .. LastDepth(plan)
  BY <1>1
<1> DEFINE B == BelowAt(plan, p, LastDepth(plan))
<1>3. IsFiniteSet(B) /\ Cardinality(B) = Product(fs)
  <2> HIDE DEF n
  <2> QED
    BY <1>1, <1>2, CandidatesBelow
<1>4. B = {g \in Goals(plan) : IsPrefix(p, g)}
  BY DEF BelowAt, Goals
<1>5. fs = gs
  <2>1. ASSUME NEW i \in 1 .. m PROVE Width(plan, n + i) = Len(Levels(plan)[n + i].words)
    <3>1. n + i \in Depths(plan) /\ n + i # 1
      BY <1>1
    <3> DEFINE d == n + i
    <3> HIDE DEF d
    <3>2. Width(plan, d) = Len(WordsAt(plan, d))
      BY <3>1, FuzzFirst DEF d
    <3> QED
      BY <3>2 DEF WordsAt, d
  <2> QED
    BY <2>1
<1>6. Pruned(plan, p) = Product(gs)
  BY DEF Pruned
<1> QED
  BY <1>3, <1>4, <1>5, <1>6

\* The values of a level, from its placeholder.
Size(plan, ph) == Len(LevelWords(plan, ph)) * (IF ph = "FUZZ" THEN VariantCount(plan) ELSE 1)
Sizes(plan, s) == [k \in DOMAIN s |-> Size(plan, s[k])]
Weight(plan, ph) == IF Active(plan, ph) THEN Size(plan, ph) ELSE 1

\* A word list of FUZZ that its placeholder can be filled from.
PrimaryListed(plan) == Active(plan, "FUZZ") => plan.words["FUZZ"] # <<>>

\* One more factor.
LEMMA ProductAppend ==
  ASSUME NEW fs \in Seq(Nat), NEW x \in Nat
  PROVE  Product(Append(fs, x)) = x * Product(fs) /\ Product(fs) \in Nat
<1> DEFINE n == Len(fs)  gs == Append(fs, x)
<1>1. n \in Nat /\ \A i \in 1 .. n : fs[i] \in Nat
  OBVIOUS
<1>2. PICK g : Multiplies(g, fs, n) /\ Product(fs) = g[n]
  BY <1>1, ProductSteps
<1>3. /\ Len(gs) = n + 1 /\ (\A i \in 1 .. n : gs[i] = fs[i]) /\ gs[n + 1] = x
      /\ \A i \in 1 .. n + 1 : gs[i] \in Nat
  <2>1. Len(gs) = n + 1 /\ (\A i \in 1 .. n : gs[i] = fs[i]) /\ gs[n + 1] = x
    BY AppendProperties
  <2> HIDE DEF gs, n
  <2> QED
    BY <1>1, <2>1
<1> HIDE DEF n, gs
<1> DEFINE h == [k \in 0 .. n + 1 |-> IF k = n + 1 THEN x * g[n] ELSE g[k]]
<1>4. g \in [0 .. n -> Nat] /\ g[0] = 1 /\ \A k \in 1 .. n : g[k] = fs[k] * g[k - 1]
  BY <1>2 DEF Multiplies
<1>5. Multiplies(h, gs, n + 1)
  <2>1. x * g[n] \in Nat
    BY <1>1, <1>4
  <2>2. h \in [0 .. n + 1 -> Nat] /\ h[0] = 1
    BY <1>1, <1>4, <2>1
  <2>3. ASSUME NEW k \in 1 .. n + 1 PROVE h[k] = gs[k] * h[k - 1]
    <3>1. CASE k = n + 1
      <4>1. h[k] = x * g[n] /\ h[k - 1] = g[n] /\ gs[k] = x
        BY <1>1, <1>3, <3>1
      <4> QED
        BY <4>1
    <3>2. CASE k # n + 1
      <4>1. k \in 1 .. n /\ k - 1 \in 0 .. n + 1 /\ k - 1 # n + 1
        BY <1>1, <3>2
      <4>2. h[k] = g[k] /\ h[k - 1] = g[k - 1] /\ gs[k] = fs[k]
        BY <1>1, <1>3, <3>2, <4>1
      <4> QED
        BY <1>4, <4>1, <4>2
    <3> QED
      BY <3>1, <3>2
  <2> HIDE DEF h
  <2> QED
    BY <2>2, <2>3 DEF Multiplies
<1>6. h[n + 1] = x * g[n] /\ n + 1 \in Nat
  BY <1>1
<1> HIDE DEF h
<1>7. Product(gs) = h[n + 1]
  BY <1>3, <1>5, <1>6, ProductIs
<1>8. g[n] \in Nat
  BY <1>1, <1>4
<1> QED
  BY <1>2, <1>6, <1>7, <1>8 DEF gs

\* Nothing to multiply.
LEMMA ProductEmpty == Product(<<>>) = 1
<1> DEFINE g == [k \in 0 .. 0 |-> 1]
<1>1. Multiplies(g, <<>>, 0)
  BY DEF Multiplies
<1>2. g[0] = 1 /\ Len(<<>>) = 0 /\ 0 \in Nat /\ \A i \in 1 .. 0 : <<>>[i] \in Nat
  OBVIOUS
<1> HIDE DEF g
<1>3. Product(<<>>) = g[0]
  BY <1>1, <1>2, ProductIs
<1> QED
  BY <1>2, <1>3

\* The words a level has, and its size.
LEMMA SizeFacts ==
  ASSUME NEW plan, IsPlan(plan), NEW ph \in ToSet(SupportedPlaceholders)
  PROVE  /\ Size(plan, ph) \in Nat
         /\ \A words : words = plan.words[ph] => Len(OrNothing(words)) \in Nat /\ Len(words) \in Nat
<1> DEFINE P == ToSet(SupportedPlaceholders)
<1>1. {"FUZZ", "FOO"} \subseteq P
  BY DEF SupportedPlaceholders, ToSet
<1>2. ASSUME NEW x \in P, NEW words, words = plan.words[x]
      PROVE  Len(OrNothing(words)) \in Nat /\ Len(words) \in Nat
  <2>1. words \in Seq(ToSet(words))
    BY <1>2 DEF IsPlan
  <2>2. Len(words) \in Nat
    BY <2>1
  <2>3. Len(<<NoWord>>) = 1
    OBVIOUS
  <2> QED
    BY <2>2, <2>3 DEF OrNothing
<1>3. Len(LevelWords(plan, ph)) \in Nat
  BY <1>1, <1>2 DEF LevelWords
<1>4. VariantCount(plan) \in Nat
  BY VariantCountPositive
<1>5. Size(plan, ph) \in Nat
  BY <1>3, <1>4 DEF Size
<1> QED
  BY <1>2, <1>5

\* The product over the placeholders that Within has collected after i of them.
LEMMA KeptProduct ==
  ASSUME NEW plan, IsPlan(plan), NEW kept,
         Keeps(kept, ToSet(SupportedPlaceholders), SupportedPlaceholders, ToSet(plan.url) \cup plan.rest)
  PROVE  /\ Product(Sizes(plan, kept[0])) = 1
         /\ \A i \in 0 .. 5 : Product(Sizes(plan, kept[i])) \in Nat
         /\ \A i \in 1 .. 5 : Product(Sizes(plan, kept[i]))
              = Weight(plan, SupportedPlaceholders[i]) * Product(Sizes(plan, kept[i - 1]))
<1> DEFINE P == ToSet(SupportedPlaceholders)  A == ToSet(plan.url) \cup plan.rest
           Q(i) == Product(Sizes(plan, kept[i]))
<1>1. Len(SupportedPlaceholders) = 5 /\ \A i \in 1 .. 5 : SupportedPlaceholders[i] \in P
  BY DEF SupportedPlaceholders, ToSet
<1>2. /\ \A i \in 0 .. 5 : kept[i] \in Seq(P)
      /\ kept[0] = <<>>
      /\ \A i \in 1 .. 5 : kept[i] = IF SupportedPlaceholders[i] \in A
                                       THEN Append(kept[i - 1], SupportedPlaceholders[i])
                                       ELSE kept[i - 1]
  BY <1>1 DEF Keeps
<1>3. \A ph \in P : Size(plan, ph) \in Nat
  BY SizeFacts
<1> HIDE DEF P
<1>4. ASSUME NEW s \in Seq(P) PROVE Sizes(plan, s) \in Seq(Nat) /\ Product(Sizes(plan, s)) \in Nat
  <2>1. Sizes(plan, s) \in Seq(Nat)
    <3>1. \A k \in DOMAIN s : s[k] \in P
      OBVIOUS
    <3>2. DOMAIN s = 1 .. Len(s) /\ Len(s) \in Nat
      OBVIOUS
    <3>3. Sizes(plan, s) \in [1 .. Len(s) -> Nat]
      BY <1>3, <3>1, <3>2 DEF Sizes
    <3> QED
      BY <3>2, <3>3, SeqDef
  <2> QED
    BY <2>1, ProductAppend
<1>5. Q(0) = 1
  <2>1. Sizes(plan, <<>>) = <<>>
    BY DEF Sizes
  <2> QED
    BY <1>2, <2>1, ProductEmpty
<1>6. \A i \in 0 .. 5 : Q(i) \in Nat
  BY <1>2, <1>4
<1>7. ASSUME NEW i \in 1 .. 5 PROVE Q(i) = Weight(plan, SupportedPlaceholders[i]) * Q(i - 1)
  <2> DEFINE ph == SupportedPlaceholders[i]  s == kept[i - 1]  t == kept[i]
  <2>1. ph \in P /\ s \in Seq(P) /\ i - 1 \in 0 .. 5 /\ t = IF ph \in A THEN Append(s, ph) ELSE s
    BY <1>1, <1>2
  <2>2. Active(plan, ph) <=> ph \in A
    BY DEF Active
  <2> HIDE DEF A, ph, s, t
  <2>3. Product(Sizes(plan, s)) \in Nat /\ Size(plan, ph) \in Nat /\ Sizes(plan, s) \in Seq(Nat)
    BY <1>3, <1>4, <2>1
  <2>4. Product(Sizes(plan, t)) = Weight(plan, ph) * Product(Sizes(plan, s))
    <3>1. CASE ph \in A
      <4>1. t = Append(s, ph) /\ Weight(plan, ph) = Size(plan, ph)
        BY <2>1, <2>2, <3>1 DEF Weight
      <4>2. Sizes(plan, Append(s, ph)) = Append(Sizes(plan, s), Size(plan, ph))
        <5> DEFINE u == Append(s, ph)  v == Append(Sizes(plan, s), Size(plan, ph))
        <5>1. /\ Len(u) = Len(s) + 1 /\ DOMAIN u = 1 .. Len(s) + 1 /\ u[Len(s) + 1] = ph
              /\ \A k \in 1 .. Len(s) : u[k] = s[k]
          BY <2>1
        <5>2. DOMAIN Sizes(plan, s) = 1 .. Len(s) /\ Len(Sizes(plan, s)) = Len(s) /\ Len(s) \in Nat
              /\ \A k \in 1 .. Len(s) : Sizes(plan, s)[k] = Size(plan, s[k])
          <6>1. DOMAIN s = 1 .. Len(s) /\ Len(s) \in Nat
            BY <2>1
          <6>2. DOMAIN Sizes(plan, s) = 1 .. Len(s)
            BY <6>1 DEF Sizes
          <6>3. \A k \in 1 .. Len(s) : Sizes(plan, s)[k] = Size(plan, s[k])
            BY <6>1 DEF Sizes
          <6>4. Len(Sizes(plan, s)) = Len(s)
            BY <2>3, <6>1, <6>2
          <6> QED
            BY <6>1, <6>2, <6>3, <6>4
        <5> DEFINE z == Sizes(plan, s)  x == Size(plan, ph)
        <5>3. z \in Seq(Nat) /\ x \in Nat
          BY <2>3
        <5>4. v = Append(z, x)
          OBVIOUS
        <5>5. v \in Seq(Nat) /\ DOMAIN v = 1 .. Len(s) + 1 /\ v[Len(s) + 1] = x
              /\ \A k \in 1 .. Len(s) : v[k] = z[k]
          <6>1. Len(z) = Len(s)
            BY <5>2
          <6> HIDE DEF z, x, v
          <6>2. v \in Seq(Nat) /\ Len(v) = Len(z) + 1 /\ v[Len(z) + 1] = x
                /\ \A k \in 1 .. Len(z) : v[k] = z[k]
            BY <5>3, <5>4, AppendProperties
          <6> QED
            BY <6>1, <6>2
        <5> HIDE DEF u, v
        <5>6. Sizes(plan, u) = [k \in 1 .. Len(s) + 1 |-> Size(plan, u[k])]
          BY <5>1 DEF Sizes
        <5>7. \A k \in 1 .. Len(s) + 1 : Size(plan, u[k]) = v[k]
          BY <5>1, <5>2, <5>5
        <5>8. v = [k \in 1 .. Len(s) + 1 |-> v[k]]
          BY <5>5
        <5>9. Sizes(plan, u) = v
          BY <5>6, <5>7, <5>8
        <5> QED
          BY <5>9 DEF u, v
      <4>3. Product(Append(Sizes(plan, s), Size(plan, ph))) = Size(plan, ph) * Product(Sizes(plan, s))
        BY <2>3, ProductAppend
      <4> QED
        BY <4>1, <4>2, <4>3
    <3>2. CASE ph \notin A
      BY <2>1, <2>2, <2>3, <3>2 DEF Weight
    <3> QED
      BY <3>1, <3>2
  <2> QED
    BY <2>4 DEF ph, s, t
<1> QED
  BY <1>5, <1>6, <1>7

\* The candidates of a plan are as many as the product over its levels.
LEMMA GoalsCount ==
  ASSUME NEW plan, IsPlan(plan)
  PROVE  /\ IsFiniteSet(Goals(plan))
         /\ Cardinality(Goals(plan)) = Product(Sizes(plan, FindPlaceholders(plan)))
<1> DEFINE m == LastDepth(plan)  p == <<>>
           fs == [i \in 1 .. m - 0 |-> Width(plan, 0 + i)]
<1>1. /\ m \in Nat \ {0} /\ Depths(plan) = 1 .. m /\ m = Len(FindPlaceholders(plan))
      /\ DOMAIN FindPlaceholders(plan) = 1 .. m
  BY FindPlaceholdersLists DEF LastDepth
<1>2. 0 \in 0 .. m /\ p \in PathSet(plan, 0)
  BY <1>1, PathSetZero
<1> DEFINE B == BelowAt(plan, p, m)
<1>3. IsFiniteSet(B) /\ Cardinality(B) = Product(fs)
  <2> HIDE DEF p
  <2> QED
    BY <1>2, CandidatesBelow
<1>4. B = Goals(plan)
  <2>1. ASSUME NEW q \in Goals(plan) PROVE IsPrefix(p, q)
    <3>1. q \in Seq(AllValues(plan))
      BY DEF Goals, PathSet
    <3> DEFINE S == AllValues(plan)
    <3>2. p \in Seq(S) /\ Len(p) = 0 /\ q \in Seq(S)
      BY <3>1
    <3> HIDE DEF S, p
    <3>3. Len(p) <= Len(q) /\ \A i \in 1 .. Len(p) : p[i] = q[i]
      BY <3>2
    <3> QED
      BY <3>2, <3>3, PrefixMeans
  <2> HIDE DEF p
  <2> QED
    BY <2>1 DEF BelowAt, Goals
<1>5. fs = Sizes(plan, FindPlaceholders(plan))
  <2>1. ASSUME NEW i \in 1 .. m PROVE Width(plan, 0 + i) = Size(plan, FindPlaceholders(plan)[i])
    <3>1. 0 + i = i /\ i \in Depths(plan)
      BY <1>1
    <3> DEFINE ph == FindPlaceholders(plan)[i]
    <3>2. Levels(plan)[i].ph = ph
      BY <3>1, LevelPlaceholder
    <3>3. WordsAt(plan, i) = LevelWords(plan, ph)
      <4> DEFINE words == LevelWords(plan, ph)
      <4>1. Levels(plan)[i] = [ph |-> ph, words |-> words]
        BY <3>1, LevelsList
      <4> HIDE DEF ph, words
      <4>2. Levels(plan)[i].words = words
        BY <4>1
      <4> QED
        BY <4>2 DEF WordsAt, words
    <3> DEFINE n == IF Levels(plan)[i].ph = "FUZZ" THEN VariantCount(plan) ELSE 1
    <3>4. Len(ValuesAt(plan, i)) = Len(WordsAt(plan, i)) * n
      BY <3>1, ValuesAtLists
    <3> HIDE DEF ph
    <3> QED
      BY <3>1, <3>2, <3>3, <3>4 DEF Width, Size, ph
  <2>2. 1 .. m - 0 = 1 .. m
    BY <1>1
  <2> QED
    BY <1>1, <2>1, <2>2 DEF Sizes
<1> QED
  BY <1>3, <1>4, <1>5

Factor(plan, ph) == IF plan.words[ph] = <<>> THEN 1 ELSE Len(plan.words[ph])

\* Every placeholder but FUZZ counts with its words, if it is there or not.
LEMMA FactorWeighs ==
  ASSUME NEW plan, IsPlan(plan), NEW ph \in ToSet(SupportedPlaceholders)
  PROVE  /\ ph # "FUZZ" => Weight(plan, ph) = Factor(plan, ph)
         /\ Factor(plan, ph) \in Nat
<1> DEFINE words == plan.words[ph]
<1>1. Len(words) \in Nat
  BY SizeFacts
<1>2. Factor(plan, ph) = IF words = <<>> THEN 1 ELSE Len(words)
  BY DEF Factor
<1>3. words # <<>> => Active(plan, ph)
  BY DEF IsPlan, InUse
<1> HIDE DEF words
<1>4. Len(OrNothing(words)) = IF words = <<>> THEN 1 ELSE Len(words)
  <2>1. Len(<<NoWord>>) = 1
    OBVIOUS
  <2> QED
    BY <2>1 DEF OrNothing
<1>5. ASSUME ph # "FUZZ" PROVE Weight(plan, ph) = Factor(plan, ph)
  <2>1. LevelWords(plan, ph) = OrNothing(words)
    BY <1>5 DEF LevelWords, words
  <2>2. Size(plan, ph) = Len(OrNothing(words))
    <3>1. Size(plan, ph) = Len(LevelWords(plan, ph)) * 1
      BY <1>5 DEF Size
    <3>2. Len(OrNothing(words)) \in Nat
      BY <1>1, <1>4
    <3> QED
      BY <2>1, <3>1, <3>2
  <2> QED
    BY <1>2, <1>3, <1>4, <2>2 DEF Weight
<1> QED
  BY <1>1, <1>2, <1>5

\* EstimateCandidates counts the candidates of every plan whose FUZZ, if it has one, has
\* words (strategy.go:204-262).
THEOREM EstimateIsRight ==
  ASSUME NEW plan, IsPlan(plan), PrimaryListed(plan)
  PROVE  IsFiniteSet(Goals(plan)) /\ Cardinality(Goals(plan)) = EstimateCandidates(plan)
<1> DEFINE P == ToSet(SupportedPlaceholders)  A == ToSet(plan.url) \cup plan.rest
<1>1. SupportedPlaceholders \in Seq(P) /\ Len(SupportedPlaceholders) = 5
  BY DEF SupportedPlaceholders, ToSet
<1>2. PICK kept : /\ Keeps(kept, P, SupportedPlaceholders, A)
                  /\ Within(SupportedPlaceholders, A) = kept[Len(SupportedPlaceholders)]
  <2> HIDE DEF P, A
  <2> QED
    BY <1>1, WithinSteps
<1>3. FindPlaceholders(plan) = kept[5]
  BY <1>1, <1>2 DEF FindPlaceholders
<1> DEFINE Q(i) == Product(Sizes(plan, kept[i]))
<1>4. /\ Q(0) = 1 /\ \A i \in 0 .. 5 : Q(i) \in Nat
      /\ \A i \in 1 .. 5 : Q(i) = Weight(plan, SupportedPlaceholders[i]) * Q(i - 1)
  BY <1>2, KeptProduct
<1>5. IsFiniteSet(Goals(plan)) /\ Cardinality(Goals(plan)) = Q(5)
  BY <1>3, GoalsCount
<1>6. \A i \in 1 .. 5 : SupportedPlaceholders[i] \in P
  BY DEF SupportedPlaceholders, ToSet
<1>7. SupportedPlaceholders[1] = "FUZZ" /\ \A i \in 2 .. 5 : SupportedPlaceholders[i] # "FUZZ"
  BY DEF SupportedPlaceholders
<1> HIDE DEF P, A, Q
<1> DEFINE fs == [i \in 1 .. 4 |-> Factor(plan, SupportedPlaceholders[i + 1])]
           w == Weight(plan, "FUZZ")
<1>8. Len(fs) = 4 /\ \A i \in 1 .. 4 : fs[i] \in Nat
  <2>1. \A i \in 1 .. 4 : i + 1 \in 1 .. 5
    OBVIOUS
  <2>2. \A ph \in P : Factor(plan, ph) \in Nat
    BY FactorWeighs DEF P
  <2> QED
    BY <1>6, <2>1, <2>2
<1>9. ASSUME NEW i \in 1 .. 4 PROVE Q(i + 1) = fs[i] * Q(i)
  <2> DEFINE ph == SupportedPlaceholders[i + 1]
  <2>1. i + 1 \in 1 .. 5 /\ i + 1 \in 2 .. 5 /\ (i + 1) - 1 = i
    OBVIOUS
  <2>2. ph \in P /\ ph # "FUZZ" /\ Q(i + 1) = Weight(plan, ph) * Q(i)
    BY <1>4, <1>6, <1>7, <2>1
  <2>3. fs[i] = Factor(plan, ph)
    OBVIOUS
  <2> HIDE DEF ph, fs
  <2>4. Weight(plan, ph) = Factor(plan, ph)
    BY <2>2, FactorWeighs DEF P
  <2> QED
    BY <2>2, <2>3, <2>4
<1>10. Q(1) = w /\ w \in Nat
  <2>1. 1 \in 1 .. 5 /\ 1 - 1 = 0 /\ 1 \in 0 .. 5
    OBVIOUS
  <2>2. Q(1) = w * 1 /\ Q(1) \in Nat
    BY <1>4, <1>7, <2>1
  <2>3. w \in Nat
    <3>1. "FUZZ" \in P
      BY DEF P, SupportedPlaceholders, ToSet
    <3>2. Size(plan, "FUZZ") \in Nat
      BY <3>1, SizeFacts DEF P
    <3> QED
      BY <3>2 DEF Weight
  <2> HIDE DEF w
  <2> QED
    BY <2>2, <2>3
<1> HIDE DEF fs, w
<1>11. PICK g : Multiplies(g, fs, 4) /\ Product(fs) = g[4]
  BY <1>8, ProductSteps
<1>12. Q(5) = w * Product(fs)
  <2> DEFINE G == {i \in 0 .. 4 : Q(i + 1) = w * g[i]}
  <2>1. g \in [0 .. 4 -> Nat] /\ g[0] = 1 /\ \A k \in 1 .. 4 : g[k] = fs[k] * g[k - 1]
    BY <1>11 DEF Multiplies
  <2>2. 0 \in G
    BY <1>10, <2>1
  <2>3. ASSUME NEW i \in 0 .. 4 - 1, i \in G PROVE i + 1 \in G
    <3>1. i + 1 \in 1 .. 4 /\ i + 1 \in 0 .. 4 /\ (i + 1) - 1 = i /\ i \in 0 .. 4
      OBVIOUS
    <3>2. Q((i + 1) + 1) = fs[i + 1] * Q(i + 1) /\ g[i + 1] = fs[i + 1] * g[i]
      BY <1>9, <2>1, <3>1
    <3>3. Q(i + 1) = w * g[i]
      BY <2>3
    <3>4. fs[i + 1] \in Nat /\ g[i] \in Nat
      BY <1>8, <2>1, <3>1
    <3> DEFINE a == fs[i + 1]  b == g[i]  c == g[i + 1]
    <3>5. a \in Nat /\ b \in Nat /\ Q((i + 1) + 1) = a * (w * b) /\ c = a * b
      BY <3>2, <3>3, <3>4
    <3> HIDE DEF a, b, c
    <3>6. a * (w * b) = w * (a * b)
      BY <1>10, <3>5
    <3>7. Q((i + 1) + 1) = w * c
      BY <3>5, <3>6
    <3> QED
      BY <3>1, <3>7 DEF c
  <2> HIDE DEF G
  <2>4. \A i \in 0 .. 4 : i \in G
    BY <2>2, <2>3, UpTo
  <2>5. 4 \in G
    BY <2>4
  <2> QED
    BY <1>11, <2>5 DEF G
<1>13. EstimateCandidates(plan) = w * Product(fs)
  <2> DEFINE words == plan.words["FUZZ"]  n == VariantCount(plan)
  <2>1. Product(fs) \in Nat
    BY <1>8, ProductNat
  <2>2. EstimateCandidates(plan)
          = IF Active(plan, "FUZZ") /\ Len(words) = 0 THEN 0
            ELSE (IF Active(plan, "FUZZ") THEN Len(words) * n ELSE 1) * Product(fs)
    BY DEF EstimateCandidates, Factor, fs
  <2>3. Active(plan, "FUZZ") => Len(words) # 0
    <3>1. "FUZZ" \in ToSet(SupportedPlaceholders)
      BY DEF SupportedPlaceholders, ToSet
    <3>2. words \in Seq(ToSet(words))
      BY <3>1 DEF IsPlan
    <3> HIDE DEF words
    <3>3. words # <<>> => Len(words) # 0
      BY <3>2, EmptySeq
    <3> QED
      BY <3>3 DEF PrimaryListed, words
  <2>4. Active(plan, "FUZZ") => w = Len(words) * n
    <3> SUFFICES ASSUME Active(plan, "FUZZ") PROVE w = Len(words) * n
      OBVIOUS
    <3>1. words # <<>>
      BY DEF PrimaryListed
    <3>2. LevelWords(plan, "FUZZ") = words
      BY <3>1 DEF LevelWords, OrNothing
    <3> HIDE DEF words, n
    <3> QED
      BY <3>2 DEF w, Weight, Size, n
  <2>5. ~Active(plan, "FUZZ") => w = 1
    BY DEF w, Weight
  <2> HIDE DEF words, n
  <2> QED
    BY <2>1, <2>2, <2>3, <2>4, <2>5
<1> QED
  BY <1>5, <1>12, <1>13
=============================================================================
