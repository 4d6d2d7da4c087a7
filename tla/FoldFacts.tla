------------------------------ MODULE FoldFacts ------------------------------
(***************************************************************************)
(* Induction stated with sets in place of predicates, and what it gives:   *)
(* functions defined by recursion exist, a sum over a finite set may be    *)
(* taken in any order, a fold goes through a sequence from left to right.  *)
(***************************************************************************)
EXTENDS Integers, Sequences, FiniteSets, FiniteSetsExt, FiniteSetTheorems,
        WellFoundedInduction, TLAPS

(* The least element of a set of numbers exists. *)
LEMMA LeastElement ==
  ASSUME NEW S \in SUBSET Nat, S # {}
  PROVE  \E x \in S : \A y \in S : x <= y
<1> DEFINE R == OpToRel(<, Nat)
<1>1. IsWellFoundedOn(R, Nat)
  BY NatLessThanWellFounded, Zenon
<1>2. \A x, y \in Nat : x < y => <<x, y>> \in R
  <2>1. R = {ss \in Nat \X Nat : ss[1] < ss[2]}
    BY Zenon DEF OpToRel
  <2> HIDE DEF R
  <2> QED BY <2>1
<1> HIDE DEF R
<1>3. PICK x \in S : \A y \in S : ~ (<<y, x>> \in R)
  BY <1>1, WFMin
<1>4. ASSUME NEW y \in S
      PROVE  x <= y
  <2>1. x \in Nat /\ y \in Nat
    OBVIOUS
  <2>2. ~ (y < x)
    BY <1>2, <1>3, <2>1, Zenon
  <2> QED BY <2>1, <2>2
<1> QED BY <1>4

(* Induction over the numbers. *)
LEMMA NatInduct ==
  ASSUME NEW P, 0 \in P, \A n \in Nat : n \in P => n + 1 \in P
  PROVE  \A n \in Nat : n \in P
<1> DEFINE S == Nat \ P
<1>1. SUFFICES ASSUME S # {} PROVE FALSE
  OBVIOUS
<1>2. PICK x \in S : \A y \in S : x <= y
  BY <1>1, LeastElement
<1>3. x \in Nat /\ x # 0 /\ x \notin P
  OBVIOUS
<1>4. x - 1 \in Nat /\ x - 1 \notin S /\ (x - 1) + 1 = x
  BY <1>2, <1>3
<1> QED BY <1>3, <1>4

(* Induction over an interval. *)
LEMMA IntervalInduct ==
  ASSUME NEW m \in Nat, NEW P, 0 \in P,
         \A n \in 1..m : n - 1 \in P => n \in P
  PROVE  \A n \in 0..m : n \in P
<1> DEFINE Q == {n \in Nat : n <= m => n \in P}
<1>1. 0 \in Q
  OBVIOUS
<1>2. ASSUME NEW n \in Nat, n \in Q
      PROVE  n + 1 \in Q
  <2>1. CASE n + 1 <= m
    <3>1. n + 1 \in 1..m /\ (n + 1) - 1 = n /\ n <= m
      BY <2>1
    <3>2. n \in P
      BY <1>2, <3>1
    <3> QED BY <3>1, <3>2
  <2>2. CASE ~(n + 1 <= m)
    BY <2>2
  <2> QED BY <2>1, <2>2
<1> HIDE DEF Q
<1>3. \A n \in Nat : n \in Q
  BY <1>1, <1>2, NatInduct
<1> QED BY <1>3 DEF Q

(* Induction over the subsets of a finite set, by taking one element away. *)
LEMMA SubsetInduct ==
  ASSUME NEW S, IsFiniteSet(S), NEW P,
         \A U \in SUBSET S : (\A x \in U : U \ {x} \in P) => U \in P
  PROVE  \A U \in SUBSET S : U \in P
<1> DEFINE Q == {n \in Nat : \A U \in SUBSET S : Cardinality(U) = n => U \in P}
<1>1. 0 \in Q
  <2>1. \A U \in SUBSET S : Cardinality(U) = 0 => U = {}
    BY FS_Subset, FS_EmptySet
  <2> QED BY <2>1
<1>2. ASSUME NEW n \in Nat, n \in Q
      PROVE  n + 1 \in Q
  <2> SUFFICES ASSUME NEW U \in SUBSET S, Cardinality(U) = n + 1
               PROVE  U \in P
    OBVIOUS
  <2>1. IsFiniteSet(U)
    BY FS_Subset
  <2>2. ASSUME NEW x \in U
        PROVE  U \ {x} \in P
    <3>1. Cardinality(U \ {x}) = Cardinality(U) - 1
      BY <2>1, FS_RemoveElement
    <3> QED BY <1>2, <3>1
  <2> QED BY <2>2
<1> HIDE DEF Q
<1>3. \A n \in Nat : n \in Q
  BY <1>1, <1>2, NatInduct
<1>4. \A U \in SUBSET S : Cardinality(U) \in Nat
  BY FS_Subset, FS_CardinalityType
<1> QED BY <1>3, <1>4 DEF Q

-----------------------------------------------------------------------------
(* A function on the numbers may be defined by its first value and a step.  *)
Iterates(f, T, base, step) ==
  /\ f \in [Nat -> T]
  /\ \A n \in Nat : f[n] = IF n = 0 THEN base ELSE step[n][f[n - 1]]

(* Such a function exists, for any step that stays in a set. *)
LEMMA NatRecursion ==
  ASSUME NEW T, NEW base \in T, NEW step \in [Nat -> [T -> T]]
  PROVE  \E f : Iterates(f, T, base, step)
<1> DEFINE Good(g, n) == /\ g \in [0..n -> T]
                         /\ \A i \in 0..n : g[i] = IF i = 0 THEN base
                                                   ELSE step[i][g[i - 1]]
           P == {n \in Nat : \E g : Good(g, n)}
<1>1. 0 \in P
  <2>1. Good([i \in 0..0 |-> base], 0)
    OBVIOUS
  <2> QED BY <2>1
<1>2. ASSUME NEW n \in Nat, n \in P
      PROVE  n + 1 \in P
  <2>1. PICK g : Good(g, n)
    BY <1>2
  <2> DEFINE h == [i \in 0..(n + 1) |-> IF i = n + 1 THEN step[n + 1][g[n]] ELSE g[i]]
  <2>2. step[n + 1][g[n]] \in T
    BY <2>1
  <2>3. h \in [0..(n + 1) -> T]
    BY <2>1, <2>2
  <2>4. ASSUME NEW i \in 0..(n + 1)
        PROVE  h[i] = IF i = 0 THEN base ELSE step[i][h[i - 1]]
    <3>1. CASE i = n + 1
      <4>1. i # 0 /\ i - 1 = n /\ n \in 0..(n + 1) /\ n # n + 1
        BY <3>1
      <4> QED BY <3>1, <4>1
    <3>2. CASE i # n + 1
      <4>1. i \in 0..n /\ (i # 0 => i - 1 \in 0..(n + 1) /\ i - 1 # n + 1)
        BY <3>2
      <4> QED BY <2>1, <3>2, <4>1
    <3> QED BY <3>1, <3>2
  <2> HIDE DEF h
  <2>5. Good(h, n + 1)
    BY <2>3, <2>4
  <2> HIDE DEF Good
  <2> QED BY <2>5
<1> HIDE DEF P
<1>3. \A n \in Nat : n \in P
  BY <1>1, <1>2, NatInduct
<1>4. \A n \in Nat : \E g : Good(g, n)
  BY <1>3 DEF P
(* The approximations agree where both are defined. *)
<1>5. ASSUME NEW m \in Nat, NEW n \in Nat, NEW g, NEW h, Good(g, m), Good(h, n), m <= n
      PROVE  \A i \in 0..m : g[i] = h[i]
  <2> DEFINE Q == {i \in 0..m : g[i] = h[i]}
  <2>1. 0 \in Q
    BY <1>5
  <2>2. ASSUME NEW i \in 1..m, i - 1 \in Q
        PROVE  i \in Q
    <3>1. i \in 0..m /\ i \in 0..n /\ i # 0
      BY <1>5
    <3> QED BY <1>5, <2>2, <3>1
  <2> HIDE DEF Q
  <2>3. \A i \in 0..m : i \in Q
    BY <2>1, <2>2, IntervalInduct
  <2> QED BY <2>3 DEF Q
<1> DEFINE G(n) == CHOOSE g : Good(g, n)
           f == [n \in Nat |-> G(n)[n]]
<1>6. \A n \in Nat : Good(G(n), n)
  <2> HIDE DEF Good
  <2> QED BY <1>4
<1> HIDE DEF G
<1>7. f \in [Nat -> T]
  BY <1>6
<1>8. ASSUME NEW n \in Nat
      PROVE  f[n] = IF n = 0 THEN base ELSE step[n][f[n - 1]]
  <2>1. CASE n = 0
    BY <1>6, <2>1
  <2>2. CASE n # 0
    <3>1. n - 1 \in Nat /\ n - 1 <= n /\ n \in 0..n /\ n - 1 \in 0..(n - 1)
      BY <2>2
    <3>2. Good(G(n), n) /\ Good(G(n - 1), n - 1)
      BY <1>6, <3>1
    <3>3. G(n)[n] = step[n][G(n)[n - 1]]
      BY <2>2, <3>1, <3>2
    <3>4. G(n - 1)[n - 1] = G(n)[n - 1]
      <4> HIDE DEF Good
      <4> QED BY <1>5, <3>1, <3>2
    <3> QED BY <2>2, <3>1, <3>3, <3>4
  <2> QED BY <2>1, <2>2
<1> HIDE DEF f
<1> QED BY <1>7, <1>8 DEF Iterates

(* A function on the subsets of a finite set may be defined by a step that   *)
(* takes one element away, which the function ch chooses.                    *)
Consumes(g, S, T, base, step, ch) ==
  /\ g \in [SUBSET S -> T]
  /\ \A s \in SUBSET S : g[s] = IF s = {} THEN base
                                ELSE step[ch[s]][g[s \ {ch[s]}]]

(* Such a function exists, for any finite set and any choice of the element *)
(* to take away.                                                            *)
LEMMA SetRecursion ==
  ASSUME NEW S, IsFiniteSet(S), NEW T, NEW base \in T, NEW step \in [S -> [T -> T]],
         NEW ch, \A s \in SUBSET S : s # {} => ch[s] \in s
  PROVE  \E g : Consumes(g, S, T, base, step, ch)
<1> DEFINE F == [SUBSET S -> T]
           longer == [n \in Nat |-> [f \in F |-> [s \in SUBSET S |->
                        IF s = {} THEN base ELSE step[ch[s]][f[s \ {ch[s]}]]]]]
           first == [s \in SUBSET S |-> base]
<1>1. first \in F /\ longer \in [Nat -> [F -> F]]
  <2>1. ASSUME NEW f \in F, NEW s \in SUBSET S, s # {}
        PROVE  step[ch[s]][f[s \ {ch[s]}]] \in T
    <3>1. ch[s] \in S /\ s \ {ch[s]} \in SUBSET S
      BY <2>1
    <3> QED BY <3>1
  <2> QED BY <2>1
<1>2. PICK app : Iterates(app, F, first, longer)
  <2> HIDE DEF F, longer, first
  <2> QED BY <1>1, NatRecursion
<1> DEFINE g == [s \in SUBSET S |-> app[Cardinality(s)][s]]
<1>3. \A s \in SUBSET S : IsFiniteSet(s) /\ Cardinality(s) \in Nat
  BY FS_Subset, FS_CardinalityType
<1>4. g \in [SUBSET S -> T] /\ app[0] = first
  <2>1. app \in [Nat -> F]
    BY <1>2 DEF Iterates
  <2>2. app[0] = first
    <3> HIDE DEF first, longer, F
    <3> QED BY <1>2 DEF Iterates
  <2>3. \A s \in SUBSET S : app[Cardinality(s)][s] \in T
    BY <1>3, <2>1
  <2> QED BY <2>2, <2>3
<1>5. ASSUME NEW s \in SUBSET S
      PROVE  g[s] = IF s = {} THEN base ELSE step[ch[s]][g[s \ {ch[s]}]]
  <2>1. CASE s = {}
    <3>1. g[s] = app[0][s] /\ s \in SUBSET S
      BY <2>1, FS_EmptySet
    <3> QED BY <1>4, <2>1, <3>1
  <2>2. CASE s # {}
    <3> DEFINE r == s \ {ch[s]}
               n == Cardinality(s)
    <3>1. ch[s] \in s /\ r \in SUBSET S /\ n \in Nat
      BY <1>3, <2>2
    <3>2. Cardinality(r) = n - 1
      BY <1>3, <3>1, FS_RemoveElement
    <3>3. n # 0 /\ n - 1 \in Nat
      BY <1>3, <3>1, <3>2
    <3>4. app[n] = longer[n][app[n - 1]] /\ app[n - 1] \in F
      <4> HIDE DEF longer, n, F
      <4> QED BY <1>2, <3>1, <3>3 DEF Iterates
    <3>5. app[n][s] = step[ch[s]][app[n - 1][r]]
      <4> HIDE DEF n
      <4> QED BY <2>2, <3>1, <3>4
    <3> QED BY <2>2, <3>1, <3>2, <3>5
  <2> QED BY <2>1, <2>2
<1> HIDE DEF g
<1> QED BY <1>4, <1>5 DEF Consumes

-----------------------------------------------------------------------------
(* The sum of a function's values over a finite set, as MapThenSumSet takes  *)
(* it: by a function on the subsets that the fold chooses to satisfy this.   *)
Summing(f, S, g) ==
  [s \in SUBSET S |-> IF s = {} THEN 0
                      ELSE LET x == CHOOSE x \in s : TRUE IN f[x] + g[s \ {x}]]

Total(f, S) == MapThenSumSet(LAMBDA x : f[x], S)

(* Such a function exists. *)
LEMMA SummingExists ==
  ASSUME NEW S, IsFiniteSet(S), NEW f, \A x \in S : f[x] \in Int
  PROVE  \E g : g = Summing(f, S, g)
<1> DEFINE ch == [s \in SUBSET S |-> CHOOSE x \in s : TRUE]
           step == [x \in S |-> [n \in Int |-> f[x] + n]]
<1>1. \A s \in SUBSET S : s # {} => ch[s] \in s
  OBVIOUS
<1>2. step \in [S -> [Int -> Int]] /\ 0 \in Int
  OBVIOUS
<1>3. PICK g : Consumes(g, S, Int, 0, step, ch)
  <2> HIDE DEF ch, step
  <2> QED BY <1>1, <1>2, SetRecursion
<1>4. \A s \in SUBSET S :
        g[s] = IF s = {} THEN 0
               ELSE LET x == CHOOSE x \in s : TRUE IN f[x] + g[s \ {x}]
  <2> TAKE s \in SUBSET S
  <2>1. CASE s # {}
    <3>1. ch[s] \in S /\ s \ {ch[s]} \in SUBSET S
      BY <1>1, <2>1
    <3>2. step[ch[s]][g[s \ {ch[s]}]] = f[ch[s]] + g[s \ {ch[s]}]
      <4>1. g[s \ {ch[s]}] \in Int
        <5> HIDE DEF ch
        <5> QED BY <1>3, <3>1 DEF Consumes
      <4> HIDE DEF ch
      <4> QED BY <3>1, <4>1
    <3> HIDE DEF step
    <3> QED BY <1>3, <2>1, <3>2 DEF Consumes
  <2> QED BY <1>3, <2>1 DEF Consumes
<1>5. g = [s \in SUBSET S |->
             IF s = {} THEN 0
             ELSE LET x == CHOOSE x \in s : TRUE IN f[x] + g[s \ {x}]]
  BY <1>3, <1>4 DEF Consumes
<1> QED BY <1>5 DEF Summing

(* Its values are integers, and any element may be taken away first. *)
Additive(g, f, S) ==
  \A s \in SUBSET S : /\ g[s] \in Int
                      /\ s = {} => g[s] = 0
                      /\ \A x \in s : g[s] = f[x] + g[s \ {x}]

(* MapThenSumSet's recursion, which takes elements away in an order of its  *)
(* own, is additive.                                                        *)
LEMMA SummingOrder ==
  ASSUME NEW S, IsFiniteSet(S), NEW f, \A x \in S : f[x] \in Int,
         NEW g, g = Summing(f, S, g)
  PROVE  Additive(g, f, S)
<1> DEFINE ch(s) == CHOOSE x \in s : TRUE
           P == {s \in SUBSET S : g[s] \in Int}
           Q == {s \in SUBSET S : \A x \in s : g[s] = f[x] + g[s \ {x}]}
<1>1. \A s \in SUBSET S : g[s] = IF s = {} THEN 0 ELSE f[ch(s)] + g[s \ {ch(s)}]
  BY DEF Summing
<1>2. \A s \in SUBSET S : s # {} => ch(s) \in s
  OBVIOUS
<1> HIDE DEF ch
<1>3. \A s \in SUBSET S : s \in P
  <2>1. ASSUME NEW U \in SUBSET S, \A x \in U : U \ {x} \in P
        PROVE  U \in P
    <3>1. CASE U = {}
      <4>1. g[U] = 0
        BY <1>1, <3>1
      <4> QED BY <4>1
    <3>2. CASE U # {}
      <4>1. ch(U) \in U
        BY <1>2, <3>2
      <4>2. g[U] = f[ch(U)] + g[U \ {ch(U)}]
        BY <1>1, <3>2
      <4>3. f[ch(U)] \in Int /\ g[U \ {ch(U)}] \in Int
        BY <2>1, <4>1
      <4> QED BY <4>2, <4>3
    <3> QED BY <3>1, <3>2
  <2> HIDE DEF P
  <2> QED BY <2>1, SubsetInduct
<1>4. \A s \in SUBSET S : g[s] \in Int
  BY <1>3
<1> HIDE DEF P
<1>5. \A s \in SUBSET S : s \in Q
  <2>1. ASSUME NEW U \in SUBSET S, \A x \in U : U \ {x} \in Q, NEW x \in U
        PROVE  g[U] = f[x] + g[U \ {x}]
    <3> DEFINE c == ch(U)
               R == (U \ {x}) \ {c}
    <3>1. c \in U /\ g[U] = f[c] + g[U \ {c}]
      BY <1>1, <1>2
    <3> HIDE DEF c
    <3>2. CASE x # c
      <4>1. U \ {c} \in Q /\ x \in U \ {c} /\ (U \ {c}) \ {x} = R
        BY <2>1, <3>1, <3>2
      <4>2. U \ {x} \in Q /\ c \in U \ {x}
        BY <2>1, <3>1, <3>2
      <4>3. g[U \ {c}] = f[x] + g[R] /\ g[U \ {x}] = f[c] + g[R]
        BY <4>1, <4>2
      <4>4. g[R] \in Int /\ f[x] \in Int /\ f[c] \in Int
        BY <1>4, <3>1
      <4> QED BY <3>1, <4>3, <4>4
    <3> QED BY <3>1, <3>2
  <2>2. \A U \in SUBSET S : (\A x \in U : U \ {x} \in Q) => U \in Q
    BY <2>1
  <2> HIDE DEF Q
  <2> QED BY <2>2, SubsetInduct
<1> QED BY <1>1, <1>4, <1>5 DEF Additive

(* Two such functions agree on the sets that both are about. *)
LEMMA SummingUnique ==
  ASSUME NEW S, IsFiniteSet(S), NEW f, \A x \in S : f[x] \in Int,
         NEW g, g = Summing(f, S, g),
         NEW R, S \subseteq R, NEW e, \A x \in S : e[x] = f[x],
         NEW h, h = Summing(e, R, h)
  PROVE  g[S] = h[S]
<1> DEFINE ch(s) == CHOOSE x \in s : TRUE
           P == {s \in SUBSET S : g[s] = h[s]}
<1>1. /\ \A s \in SUBSET S : g[s] = IF s = {} THEN 0 ELSE f[ch(s)] + g[s \ {ch(s)}]
      /\ \A s \in SUBSET R : h[s] = IF s = {} THEN 0 ELSE e[ch(s)] + h[s \ {ch(s)}]
  BY DEF Summing
<1>2. \A s \in SUBSET S : s # {} => ch(s) \in s
  OBVIOUS
<1> HIDE DEF ch
<1>3. ASSUME NEW U \in SUBSET S, \A x \in U : U \ {x} \in P
      PROVE  U \in P
  <2>1. U \in SUBSET R
    OBVIOUS
  <2>2. CASE U = {}
    <3>1. g[U] = 0 /\ h[U] = 0
      BY <1>1, <2>1, <2>2
    <3> QED BY <3>1
  <2>3. CASE U # {}
    <3>1. ch(U) \in U
      BY <1>2, <2>3
    <3>2. /\ g[U] = f[ch(U)] + g[U \ {ch(U)}]
          /\ h[U] = e[ch(U)] + h[U \ {ch(U)}]
      BY <1>1, <2>1, <2>3
    <3>3. g[U \ {ch(U)}] = h[U \ {ch(U)}] /\ e[ch(U)] = f[ch(U)]
      BY <1>3, <3>1
    <3> QED BY <3>2, <3>3
  <2> QED BY <2>2, <2>3
<1> HIDE DEF P
<1>4. \A U \in SUBSET S : U \in P
  BY <1>3, SubsetInduct
<1> QED BY <1>4 DEF P

(* A sum is the value of any function that sums. *)
LEMMA TotalIs ==
  ASSUME NEW S, IsFiniteSet(S), NEW f, \A x \in S : f[x] \in Int,
         NEW g, g = Summing(f, S, g)
  PROVE  g[S] = Total(f, S)
<1> DEFINE t == CHOOSE t : t = Summing(f, S, t)
<1>1. t = Summing(f, S, t)
  BY SummingExists
<1>2. Total(f, S) = t[S]
  BY DEF Total, MapThenSumSet, MapThenFoldSet, Summing
<1> HIDE DEF t
<1> QED BY <1>1, <1>2, SummingUnique

(* The sum over nothing, its type, and the sum without one element. *)
LEMMA TotalOf ==
  ASSUME NEW S, IsFiniteSet(S), NEW f, \A x \in S : f[x] \in Int
  PROVE  /\ Total(f, {}) = 0
         /\ Total(f, S) \in Int
         /\ \A x \in S : Total(f, S) = f[x] + Total(f, S \ {x})
<1>1. PICK g : g = Summing(f, S, g)
  BY SummingExists
<1>2. g[S] = Total(f, S)
  BY <1>1, TotalIs
<1>3. ASSUME NEW U \in SUBSET S
      PROVE  Total(f, U) = g[U]
  <2>1. IsFiniteSet(U) /\ \A x \in U : f[x] \in Int
    BY FS_Subset
  <2>2. PICK h : h = Summing(f, U, h)
    BY <2>1, SummingExists
  <2>3. h[U] = Total(f, U)
    BY <2>1, <2>2, TotalIs
  <2>4. h[U] = g[U]
    BY <1>1, <2>1, <2>2, SummingUnique
  <2> QED BY <2>3, <2>4
<1>4. Additive(g, f, S)
  BY <1>1, SummingOrder
<1>5. Total(f, {}) = 0
  BY <1>3, <1>4 DEF Additive
<1>6. Total(f, S) \in Int
  BY <1>2, <1>4 DEF Additive
<1>7. ASSUME NEW x \in S
      PROVE  Total(f, S) = f[x] + Total(f, S \ {x})
  <2>1. g[S] = f[x] + g[S \ {x}]
    BY <1>4 DEF Additive
  <2>2. Total(f, S \ {x}) = g[S \ {x}]
    BY <1>3
  <2> QED BY <1>2, <2>1, <2>2
<1> QED BY <1>5, <1>6, <1>7

(* Only the values at the elements of the set matter. *)
LEMMA TotalSame ==
  ASSUME NEW S, IsFiniteSet(S), NEW f, \A x \in S : f[x] \in Int,
         NEW e, \A x \in S : e[x] = f[x]
  PROVE  Total(e, S) = Total(f, S)
<1>1. PICK g : g = Summing(f, S, g)
  BY SummingExists
<1>2. \A x \in S : e[x] \in Int
  OBVIOUS
<1>3. PICK h : h = Summing(e, S, h)
  BY <1>2, SummingExists
<1>4. g[S] = Total(f, S) /\ h[S] = Total(e, S)
  BY <1>1, <1>2, <1>3, TotalIs
<1>5. g[S] = h[S]
  BY <1>1, <1>3, SummingUnique
<1> QED BY <1>4, <1>5

(* Elements whose value is 0 add nothing. *)
LEMMA TotalOver ==
  ASSUME NEW S, IsFiniteSet(S), NEW f, \A x \in S : f[x] \in Int,
         NEW R \in SUBSET S, \A x \in S \ R : f[x] = 0
  PROVE  Total(f, S) = Total(f, R)
<1> DEFINE P == {U \in SUBSET (S \ R) : Total(f, R \union U) = Total(f, R)}
<1>1. ASSUME NEW U \in SUBSET (S \ R), \A x \in U : U \ {x} \in P
      PROVE  U \in P
  <2>1. CASE U = {}
    <3>1. R \union U = R
      BY <2>1
    <3> QED BY <3>1
  <2>2. CASE U # {}
    <3>1. PICK x \in U : U \ {x} \in P
      BY <1>1, <2>2
    <3>2. IsFiniteSet(R \union U) /\ \A y \in R \union U : f[y] \in Int
      <4>1. R \union U \subseteq S
        OBVIOUS
      <4> QED BY <4>1, FS_Subset
    <3>3. Total(f, R \union U) = f[x] + Total(f, (R \union U) \ {x})
      BY <3>2, TotalOf
    <3>4. (R \union U) \ {x} = R \union (U \ {x})
      OBVIOUS
    <3>5. Total(f, R) \in Int
      BY FS_Subset, TotalOf
    <3>6. f[x] = 0
      OBVIOUS
    <3>7. Total(f, R \union (U \ {x})) = Total(f, R)
      BY <3>1, Zenon
    <3>8. Total(f, R \union U) = Total(f, R)
      <4>1. Total(f, (R \union U) \ {x}) = Total(f, R)
        BY <3>4, <3>7, Zenon
      <4>2. f[x] + Total(f, (R \union U) \ {x}) = Total(f, R)
        BY <3>5, <3>6, <4>1
      <4> QED BY <3>3, <4>2, Zenon
    <3>9. U \in SUBSET (S \ R)
      OBVIOUS
    <3> QED BY ONLY <3>8, <3>9, Zenon
  <2> QED BY <2>1, <2>2
<1> DEFINE W == S \ R
<1>2. IsFiniteSet(W)
  BY FS_Subset
<1>6. \A U \in SUBSET W : (\A x \in U : U \ {x} \in P) => U \in P
  BY <1>1
<1> HIDE DEF P, W
<1>3. \A U \in SUBSET W : U \in P
  BY ONLY <1>2, <1>6, SubsetInduct
<1>4. R \union (S \ R) = S
  OBVIOUS
<1>5. Total(f, R \union (S \ R)) = Total(f, R)
  BY <1>3, Zenon DEF P, W
<1> QED BY <1>4, <1>5

(* A sum of naturals is as great as each of them. *)
LEMMA PartOfTotal ==
  ASSUME NEW S, IsFiniteSet(S), NEW f, \A x \in S : f[x] \in Nat
  PROVE  Total(f, S) \in Nat /\ \A x \in S : f[x] <= Total(f, S)
<1> DEFINE P == {U \in SUBSET S : Total(f, U) \in Nat}
<1>1. ASSUME NEW U \in SUBSET S, \A x \in U : U \ {x} \in P
      PROVE  U \in P
  <2>1. IsFiniteSet(U) /\ \A x \in U : f[x] \in Int
    BY FS_Subset
  <2>2. CASE U = {}
    <3>1. Total(f, {}) = 0
      BY <2>1, TotalOf
    <3> QED BY <2>2, <3>1
  <2>3. CASE U # {}
    <3>1. PICK x \in U : Total(f, U \ {x}) \in Nat
      BY <1>1, <2>3
    <3>2. Total(f, U) = f[x] + Total(f, U \ {x})
      BY <2>1, TotalOf
    <3>3. f[x] \in Nat
      OBVIOUS
    <3>4. f[x] + Total(f, U \ {x}) \in Nat
      BY <3>1, <3>3
    <3>5. Total(f, U) \in Nat
      BY <3>2, <3>4, Zenon
    <3> QED BY <3>5
  <2> QED BY <2>2, <2>3
<1> HIDE DEF P
<1>2. \A U \in SUBSET S : U \in P
  BY <1>1, SubsetInduct
<1>3. \A U \in SUBSET S : Total(f, U) \in Nat
  BY <1>2 DEF P
<1>4. ASSUME NEW x \in S
      PROVE  f[x] <= Total(f, S)
  <2>1. Total(f, S) = f[x] + Total(f, S \ {x})
    BY TotalOf
  <2>2. Total(f, S \ {x}) \in Nat /\ f[x] \in Nat
    BY <1>3
  <2>3. f[x] <= f[x] + Total(f, S \ {x})
    BY <2>2
  <2> QED BY <2>1, <2>3, Zenon
<1> QED BY <1>3, <1>4

(* A sum may be taken over other names for the same things. *)
LEMMA TotalMapped ==
  ASSUME NEW S, IsFiniteSet(S), NEW f, \A x \in S : f[x] \in Int,
         NEW h, \A x, y \in S : h[x] = h[y] => x = y,
         NEW e, \A x \in S : e[h[x]] = f[x]
  PROVE  Total(f, S) = Total(e, {h[x] : x \in S})
<1> DEFINE Img(U) == {h[x] : x \in U}
           P == {U \in SUBSET S : Total(f, U) = Total(e, Img(U))}
<1>1. ASSUME NEW U \in SUBSET S, \A x \in U : U \ {x} \in P
      PROVE  U \in P
  <2>1. IsFiniteSet(U) /\ \A x \in U : f[x] \in Int
    BY FS_Subset
  <2>2. IsFiniteSet(Img(U)) /\ \A y \in Img(U) : e[y] \in Int
    <3>1. [x \in U |-> h[x]] \in Surjection(U, Img(U))
      BY DEF Surjection
    <3> HIDE DEF Img
    <3>2. IsFiniteSet(Img(U))
      BY <2>1, <3>1, FS_Surjection
    <3>3. \A y \in Img(U) : e[y] \in Int
      BY DEF Img
    <3> QED BY <3>2, <3>3
  <2>3. CASE U = {}
    <3>1. Img(U) = {}
      BY <2>3
    <3>2. Total(f, {}) = 0
      BY <2>1, TotalOf
    <3>3. Total(e, {}) = 0
      BY <2>2, TotalOf
    <3> HIDE DEF Img
    <3> QED BY <2>3, <3>1, <3>2, <3>3
  <2>4. CASE U # {}
    <3>1. PICK x \in U : TRUE
      BY <2>4
    <3>2. Total(f, U) = f[x] + Total(f, U \ {x})
      BY <2>1, <3>1, TotalOf
    <3>3. Total(e, Img(U)) = e[h[x]] + Total(e, Img(U) \ {h[x]})
      <4>1. h[x] \in Img(U)
        BY <3>1
      <4> HIDE DEF Img
      <4> QED BY <2>2, <4>1, TotalOf
    <3>4. Img(U) \ {h[x]} = Img(U \ {x})
      <4>1. \A y \in U : h[y] = h[x] <=> y = x
        BY <3>1
      <4>2. \A z : z \in Img(U) \ {h[x]} => z \in Img(U \ {x})
        BY <4>1
      <4>3. \A z : z \in Img(U \ {x}) => z \in Img(U) \ {h[x]}
        BY <4>1
      <4> QED BY <4>2, <4>3
    <3>5. Total(f, U \ {x}) = Total(e, Img(U \ {x}))
      BY <1>1, <3>1
    <3>6. e[h[x]] = f[x]
      BY <3>1
    <3> HIDE DEF Img
    <3>7. Total(f, U) = Total(e, Img(U))
      BY <3>2, <3>3, <3>4, <3>5, <3>6
    <3> QED BY <3>7 DEF Img
  <2> QED BY <2>3, <2>4
<1> HIDE DEF P
<1>2. \A U \in SUBSET S : U \in P
  BY <1>1, SubsetInduct
<1>3. S \in P
  BY <1>2
<1> QED BY <1>3 DEF P

-----------------------------------------------------------------------------
(* The greatest element of a set of positions exists. *)
LEMMA MaxOf ==
  ASSUME NEW n \in Nat, NEW S \in SUBSET (1..n), S # {}
  PROVE  Max(S) \in S /\ \A y \in S : Max(S) >= y
<1> DEFINE D == {n - x : x \in S}
<1>1. D \in SUBSET Nat /\ D # {}
  <2>1. \A x \in S : n - x \in Nat
    OBVIOUS
  <2> QED BY <2>1
<1> HIDE DEF D
<1>2. PICK d \in D : \A e \in D : d <= e
  BY <1>1, LeastElement
<1>3. PICK x \in S : d = n - x
  BY <1>2 DEF D
<1>4. ASSUME NEW y \in S
      PROVE  x >= y
  <2>1. n - y \in D
    BY DEF D
  <2>2. n - x <= n - y
    BY <1>2, <1>3, <2>1
  <2>3. x \in Int /\ y \in Int
    OBVIOUS
  <2> QED BY <2>2, <2>3
<1>5. \E z : z \in S /\ \A y \in S : z >= y
  BY <1>4
<1> QED BY <1>5 DEF Max

(* The positions before the last one. *)
LEMMA MaxOfInterval ==
  ASSUME NEW k \in Nat \ {0}
  PROVE  Max(1..k) = k /\ (1..k) \ {k} = 1..(k - 1)
<1>1. Max(1..k) \in 1..k /\ \A y \in 1..k : Max(1..k) >= y
  <2>1. 1..k \in SUBSET (1..k) /\ 1..k # {} /\ k \in Nat
    OBVIOUS
  <2> QED BY ONLY <2>1, MaxOf
<1>2. k \in 1..k
  OBVIOUS
<1> QED BY <1>1, <1>2

(* A fold from left to right exists, for a step that stays in a set. *)
LastOf(n) == [s \in SUBSET (1..n) |-> Max(s)]

(* Such a fold exists: the elements 1 .. n are taken away from the right. *)
LEMMA FoldRecursion ==
  ASSUME NEW n \in Nat, NEW T, NEW base \in T, NEW step \in [1..n -> [T -> T]]
  PROVE  \E g : Consumes(g, 1..n, T, base, step, LastOf(n))
<1>1. IsFiniteSet(1..n)
  BY FS_Interval
<1>2. \A s \in SUBSET (1..n) : s # {} => LastOf(n)[s] \in s
  BY MaxOf DEF LastOf
<1> QED BY <1>1, <1>2, SetRecursion

(* The sets of a sequence's first positions are what a fold goes through. *)
LEMMA FirstPositions ==
  ASSUME NEW n \in Nat, NEW k \in 1..n
  PROVE  /\ 1..k \in SUBSET (1..n) /\ 1..k # {}
         /\ Max(1..k) = k
         /\ (1..k) \ {Max(1..k)} = 1..(k - 1)
BY MaxOfInterval

(* A fold from left to right, by the sets of positions it has gone through.  *)
Folds(g, n, T, base, step) ==
  /\ g \in [SUBSET (1..n) -> T] /\ g[{}] = base
  /\ \A s \in SUBSET (1..n) : s # {} =>
       /\ Max(s) \in 1..n /\ g[s \ {Max(s)}] \in T
       /\ g[s] = step[Max(s)][g[s \ {Max(s)}]]

(* There is one for every step that stays in a set. *)
LEMMA FoldExists ==
  ASSUME NEW n \in Nat, NEW T, NEW base \in T, NEW step \in [1..n -> [T -> T]]
  PROVE  \E g : Folds(g, n, T, base, step)
<1>1. PICK g : Consumes(g, 1..n, T, base, step, LastOf(n))
  BY FoldRecursion
<1>2. g \in [SUBSET (1..n) -> T] /\ g[{}] = base
  <2>1. {} \in SUBSET (1..n)
    OBVIOUS
  <2> QED BY <1>1, <2>1 DEF Consumes
<1>3. ASSUME NEW s \in SUBSET (1..n), s # {}
      PROVE  /\ Max(s) \in 1..n /\ g[s \ {Max(s)}] \in T
             /\ g[s] = step[Max(s)][g[s \ {Max(s)}]]
  <2>1. LastOf(n)[s] = Max(s)
    BY DEF LastOf
  <2>2. Max(s) \in s
    BY <1>3, MaxOf
  <2>3. s \ {Max(s)} \in SUBSET (1..n)
    OBVIOUS
  <2>4. g[s] = step[Max(s)][g[s \ {Max(s)}]]
    BY <1>1, <1>3, <2>1 DEF Consumes
  <2> QED BY <1>2, <2>2, <2>3, <2>4
<1> QED BY <1>2, <1>3 DEF Folds

-----------------------------------------------------------------------------
(* The best of a sequence in one pass *)

(* better is a strict order of T. *)
Ranks(better, T) ==
  /\ better \in [T -> [T -> BOOLEAN]]
  /\ \A e \in T : ~better[e][e]
  /\ \A e, f, g \in T : better[e][f] /\ better[f][g] => better[e][g]

(* One pass over a sequence, which keeps the better one of what it has and    *)
(* what it sees.                                                              *)
Passes(h, n, T, base, seq, better) ==
  /\ base \in T /\ \A i \in 1..n : seq[i] \in T
  /\ h[1..0] = base
  /\ \A k \in 1..n : h[1..(k - 1)] \in T =>
       h[1..k] = IF better[seq[k]][h[1..(k - 1)]] THEN seq[k] ELSE h[1..(k - 1)]

(* What a pass has seen, and one of it than which nothing is better. *)
Seen(n, base, seq) == {base} \union {seq[i] : i \in 1..n}
BestOf(b, S, better) == b \in S /\ \A f \in S : ~better[f][b]

(* A pass ends up with it. *)
LEMMA OnePassChooses ==
  ASSUME NEW n \in Nat, NEW T, NEW base, NEW seq, NEW better, NEW h,
         Ranks(better, T), Passes(h, n, T, base, seq, better)
  PROVE  BestOf(h[1..n], Seen(n, base, seq), better)
<1>0. /\ base \in T /\ \A i \in 1..n : seq[i] \in T
      /\ h[1..0] = base
      /\ \A k \in 1..n : h[1..(k - 1)] \in T =>
           h[1..k] = IF better[seq[k]][h[1..(k - 1)]] THEN seq[k] ELSE h[1..(k - 1)]
  BY DEF Passes
<1> DEFINE B(k) == {base} \union {seq[i] : i \in 1..k}
           P == {k \in 0..n : /\ h[1..k] \in B(k)
                              /\ \A f \in B(k) : ~better[f][h[1..k]]}
<1>1. 0 \in P
  <2>1. B(0) = {base}
    OBVIOUS
  <2>2. ~better[base][base]
    BY <1>0 DEF Ranks
  <2> HIDE DEF B
  <2> QED BY <1>0, <2>1, <2>2
<1>2. ASSUME NEW k \in 1..n, k - 1 \in P
      PROVE  k \in P
  <2> DEFINE c == seq[k]
             b == h[1..(k - 1)]
             a == h[1..k]
  <2>1. B(k) = B(k - 1) \union {c}
    <3>1. \A i \in 1..k : i = k \/ i \in 1..(k - 1)
      OBVIOUS
    <3>2. k \in 1..k /\ \A i \in 1..(k - 1) : i \in 1..k
      OBVIOUS
    <3> QED BY <3>1, <3>2
  <2>2. b \in B(k - 1) /\ \A f \in B(k - 1) : ~better[f][b]
    BY <1>2
  <2>3. B(k - 1) \subseteq T /\ c \in T
    <3>1. \A i \in 1..(k - 1) : i \in 1..n
      OBVIOUS
    <3> QED BY <1>0, <3>1
  <2>4. a = IF better[c][b] THEN c ELSE b
    BY <1>0, <2>2, <2>3
  <2> HIDE DEF B, a, b, c
  <2>5. a \in B(k)
    BY <2>1, <2>2, <2>4
  <2>6. \A f \in B(k) : ~better[f][a]
    BY <2>1, <2>2, <2>3, <2>4 DEF Ranks
  <2> QED BY <2>5, <2>6 DEF a
<1> HIDE DEF P
<1>3. n \in P
  BY <1>1, <1>2, IntervalInduct
<1> QED BY <1>3 DEF P, BestOf, Seen
=============================================================================
