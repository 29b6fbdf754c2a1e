------------------------------ MODULE NatFacts ------------------------------
(***************************************************************************)
(* Facts that the proofs of several modules need: minima and maxima,       *)
(* induction over a set of numbers, remainders, recursion on 0 .. N, and   *)
(* the elements of a sequence that are in a set.                           *)
(*                                                                         *)
(* Induction is stated for a set, so that it can be used without operator  *)
(* parameters: to show P(n) for every n, show {n \in Nat : P(n)} = Nat.    *)
(***************************************************************************)
EXTENDS Integers, FiniteSetsExt, FiniteSetTheorems, Subsequences, TLAPS

\* A set of natural numbers has a least element, and Min is it.
LEMMA MinFacts ==
  ASSUME NEW S, S \subseteq Nat, S # {}
  PROVE  Min(S) \in S /\ \A x \in S : Min(S) <= x
  <1> DEFINE T == {0 .. x : x \in S}
  <1>1. T \subseteq FiniteSubsetsOf(Nat) /\ T # {}
    <2>1. \A x \in S : 0 .. x \subseteq Nat /\ IsFiniteSet(0 .. x) BY FS_Interval
    <2>2. QED BY <2>1 DEF FiniteSubsetsOf
  <1>2. PICK t \in T : \A u \in T : ~(<<u, t>> \in StrictSubsetOrdering(Nat))
    BY <1>1, WFMin, FS_StrictSubsetOrderingWellFounded
  <1>3. PICK m \in S : t = 0 .. m BY <1>2
  <1>4. \A y \in S : m <= y
    <2> SUFFICES ASSUME NEW y \in S, y < m PROVE FALSE BY <1>3
    <2>1. /\ 0 .. y \in T /\ 0 .. y \subseteq 0 .. m /\ 0 .. y # 0 .. m
          /\ 0 .. y \in SUBSET Nat /\ 0 .. m \in SUBSET Nat
      OBVIOUS
    <2>2. QED BY <1>2, <1>3, <2>1 DEF StrictSubsetOrdering
  <1>5. QED BY <1>3, <1>4 DEF Min

\* A bounded set of natural numbers has a greatest element, and Max is it.
LEMMA MaxFacts ==
  ASSUME NEW S, S \subseteq Nat, S # {}, NEW b \in Nat, \A x \in S : x <= b
  PROVE  Max(S) \in S /\ \A x \in S : x <= Max(S)
  <1> DEFINE T == {b - x : x \in S}
  <1>1. T \subseteq Nat /\ T # {}
    <2>1. \A x \in S : b - x \in Nat OBVIOUS
    <2>2. QED BY <2>1
  <1>2. Min(T) \in T /\ \A y \in T : Min(T) <= y BY <1>1, MinFacts
  <1>3. PICK m \in S : Min(T) = b - m BY <1>2
  <1>4. \A x \in S : m >= x
    <2> SUFFICES ASSUME NEW x \in S PROVE m >= x OBVIOUS
    <2>1. b - x \in T OBVIOUS
    <2>2. b - m <= b - x BY <1>2, <1>3, <2>1
    <2>3. QED BY <2>2
  <1>5. Max(S) \in S /\ \A x \in S : Max(S) >= x BY <1>3, <1>4 DEF Max
  <1>6. QED BY <1>5

\* A greatest element is the one Max gives.
LEMMA MaxIs ==
  ASSUME NEW S, S \subseteq Nat, NEW m \in S, \A x \in S : x <= m
  PROVE  Max(S) = m
  <1>1. m \in Nat /\ S # {} OBVIOUS
  <1>2. Max(S) \in S /\ \A x \in S : x <= Max(S) BY <1>1, MaxFacts
  <1>3. Max(S) <= m /\ m <= Max(S) /\ Max(S) \in Nat BY <1>2
  <1>4. QED BY <1>1, <1>3

\* A least element is the one Min gives.
LEMMA MinIs ==
  ASSUME NEW S, S \subseteq Nat, NEW m \in S, \A x \in S : m <= x
  PROVE  Min(S) = m
  <1>1. m \in Nat /\ S # {} OBVIOUS
  <1>2. Min(S) \in S /\ \A x \in S : Min(S) <= x BY <1>1, MinFacts
  <1>3. Min(S) <= m /\ m <= Min(S) /\ Min(S) \in Nat BY <1>2
  <1>4. QED BY <1>1, <1>3

\* Induction: a set of natural numbers with 0 and every successor.
LEMMA SetInduction ==
  ASSUME NEW P, 0 \in P, \A n \in Nat : n \in P => n + 1 \in P
  PROVE  Nat \subseteq P
  <1> SUFFICES ASSUME Nat \ P # {} PROVE FALSE OBVIOUS
  <1> DEFINE m == Min(Nat \ P)
  <1>1. m \in Nat /\ m \notin P /\ \A x \in Nat \ P : m <= x
    BY MinFacts
  <1> HIDE DEF m
  <1>2. m # 0 BY <1>1
  <1>3. m - 1 \in Nat /\ m - 1 \in P BY <1>1, <1>2
  <1>4. QED BY <1>1, <1>3

\* Remainders of numbers below the divisor, and of those less than once beyond.
LEMMA ModFacts ==
  ASSUME NEW n \in Nat \ {0}
  PROVE  /\ \A x \in Nat : x % n \in 0 .. (n - 1)
         /\ \A x \in 0 .. (n - 1) : x % n = x
         /\ \A x \in n .. (2 * n - 1) : x % n = x - n
  <1>1. \A x \in Nat : x % n \in 0 .. (n - 1) OBVIOUS
  <1>2. \A x \in 0 .. (n - 1) : x % n = x OBVIOUS
  <1>3. \A x \in n .. (2 * n - 1) : x % n = x - n OBVIOUS
  <1>4. QED BY <1>1, <1>2, <1>3

\* Finitely many natural numbers have a bound.
LEMMA ValuesBounded ==
  ASSUME NEW N \in Nat, NEW f \in [1 .. N -> Nat]
  PROVE  \E b \in Nat : \A i \in 1 .. N : f[i] <= b
  <1> DEFINE P == {n \in Nat : n <= N => \E b \in Nat : \A i \in 1 .. n : f[i] <= b}
  <1>1. 0 \in P OBVIOUS
  <1>2. ASSUME NEW n \in Nat, n \in P PROVE n + 1 \in P
    <2> SUFFICES ASSUME n + 1 <= N PROVE \E b \in Nat : \A i \in 1 .. (n + 1) : f[i] <= b
      OBVIOUS
    <2>1. PICK b \in Nat : \A i \in 1 .. n : f[i] <= b BY <1>2
    <2>2. n + 1 \in 1 .. N /\ f[n + 1] \in Nat OBVIOUS
    <2>3. \A i \in 1 .. n : i \in 1 .. N /\ f[i] \in Nat OBVIOUS
    <2>4. b + f[n + 1] \in Nat /\ \A i \in 1 .. (n + 1) : f[i] <= b + f[n + 1]
      BY <2>1, <2>2, <2>3
    <2>5. QED BY <2>4
  <1>3. Nat \subseteq P
    <2> HIDE DEF P
    <2>1. QED BY <1>1, <1>2, SetInduction
  <1>4. N \in P BY <1>3
  <1>5. QED BY <1>4

\* f takes the values in X that start with b and follow each other by the
\* steps G.
Recursion(N, X, b, G, f) ==
  /\ f \in [0 .. N -> X] /\ f[0] = b
  /\ \A n \in 1 .. N : f[n] = G[n][f[n - 1]]

\* A function that is defined by recursion on 0 .. N exists, if the step from
\* one value to the next, given as a function, stays within a set X.
LEMMA RecursionExists ==
  ASSUME NEW N \in Nat, NEW X, NEW b \in X, NEW G \in [1 .. N -> [X -> X]]
  PROVE  \E f : Recursion(N, X, b, G, f)
  <1> DEFINE Law(k, f) == f[0] = b /\ \A n \in 1 .. k : f[n] = G[n][f[n - 1]]
             P == {k \in Nat : k <= N => \E f \in [0 .. k -> X] : Law(k, f)}
  <1>1. 0 \in P
    <2> DEFINE f == [n \in 0 .. 0 |-> b]
    <2>1. f \in [0 .. 0 -> X] /\ f[0] = b OBVIOUS
    <2>2. Law(0, f) BY <2>1
    <2>3. QED BY <2>1, <2>2
  <1>2. ASSUME NEW k \in Nat, k \in P PROVE k + 1 \in P
    <2> SUFFICES ASSUME k + 1 <= N PROVE \E f \in [0 .. (k + 1) -> X] : Law(k + 1, f)
      OBVIOUS
    <2>1. PICK f \in [0 .. k -> X] : Law(k, f) BY <1>2
    <2> DEFINE v == G[k + 1][f[k]]
               g == [n \in 0 .. (k + 1) |-> IF n <= k THEN f[n] ELSE v]
    <2>2. v \in X
      <3>1. k + 1 \in 1 .. N /\ k \in 0 .. k OBVIOUS
      <3>2. G[k + 1] \in [X -> X] /\ f[k] \in X BY <3>1
      <3>3. QED BY <3>2
    <2>3. g \in [0 .. (k + 1) -> X] BY <2>2
    <2>4. g[0] = b BY <2>1
    <2>5. ASSUME NEW n \in 1 .. (k + 1) PROVE g[n] = G[n][g[n - 1]]
      <3>1. g[n - 1] = f[n - 1] OBVIOUS
      <3>2. CASE n <= k
        <4>1. n \in 1 .. k /\ g[n] = f[n] BY <3>2
        <4>2. QED BY <2>1, <3>1, <4>1
      <3>3. CASE ~(n <= k)
        <4>1. n = k + 1 /\ g[n] = v BY <3>3
        <4>2. QED BY <3>1, <4>1
      <3>4. QED BY <3>2, <3>3
    <2> HIDE DEF g
    <2>6. Law(k + 1, g) BY <2>4, <2>5
    <2>7. QED BY <2>3, <2>6
  <1>3. Nat \subseteq P
    <2> HIDE DEF P
    <2>1. QED BY <1>1, <1>2, SetInduction
  <1>4. N \in P BY <1>3
  <1>5. PICK f \in [0 .. N -> X] : Law(N, f) BY <1>4
  <1>6. Recursion(N, X, b, G, f) BY <1>5 DEF Recursion
  <1>7. QED BY <1>6

\* What starts in X and follows the steps as long as it is in X stays there.
Follows(N, X, b, G, u) ==
  u[0] = b /\ \A n \in 1 .. N : u[n - 1] \in X => u[n] = G[n][u[n - 1]]

LEMMA RecursionIn ==
  ASSUME NEW N \in Nat, NEW X, NEW b \in X, NEW G \in [1 .. N -> [X -> X]], NEW u,
         Follows(N, X, b, G, u)
  PROVE  \A n \in 0 .. N : u[n] \in X
  <1> DEFINE P == {n \in Nat : n <= N => u[n] \in X}
  <1>1. 0 \in P BY DEF Follows
  <1>2. ASSUME NEW n \in Nat, n \in P PROVE n + 1 \in P
    <2> SUFFICES ASSUME n + 1 <= N PROVE u[n + 1] \in X OBVIOUS
    <2>1. n + 1 \in 1 .. N /\ (n + 1) - 1 = n /\ u[n] \in X BY <1>2
    <2>2. u[n + 1] = G[n + 1][u[n]] BY <2>1 DEF Follows
    <2>3. QED BY <2>1, <2>2
  <1>3. Nat \subseteq P
    <2> HIDE DEF P
    <2>1. QED BY <1>1, <1>2, SetInduction
  <1>4. QED BY <1>3

\* A run of the steps G from b, within X.
Runs(N, X, b, G, u) ==
  (\A n \in 0 .. N : u[n] \in X) /\ u[0] = b /\ \A n \in 1 .. N : u[n] = G[n][u[n - 1]]

\* No step within Y loses anything of R, and step n brings C[n].
Gathers(N, Y, G, R, C) ==
  \A n \in 1 .. N : \A p \in Y :
    G[n][p] \in Y /\ R[p] \subseteq R[G[n][p]] /\ C[n] \subseteq R[G[n][p]]

\* What a run gathers, it has at its end.
LEMMA RunGathers ==
  ASSUME NEW N \in Nat, NEW X, NEW b, NEW G, NEW u, Runs(N, X, b, G, u), NEW Y, b \in Y, NEW R, NEW C,
         Gathers(N, Y, G, R, C)
  PROVE  u[N] \in Y /\ R[b] \subseteq R[u[N]] /\ \A n \in 1 .. N : C[n] \subseteq R[u[N]]
  <1> DEFINE Good(k) == u[k] \in Y /\ R[b] \subseteq R[u[k]] /\ \A n \in 1 .. k : C[n] \subseteq R[u[k]]
             P == {k \in Nat : k <= N => Good(k)}
  <1>1. 0 \in P
    <2>1. 1 .. 0 = {} OBVIOUS
    <2>2. u[0] = b BY DEF Runs
    <2>3. QED BY <2>1, <2>2
  <1>2. ASSUME NEW k \in Nat, k \in P PROVE k + 1 \in P
    <2> SUFFICES ASSUME k + 1 <= N PROVE Good(k + 1) OBVIOUS
    <2>1. k + 1 \in 1 .. N /\ (k + 1) - 1 = k /\ k <= N OBVIOUS
    <2>2. Good(k) BY <1>2, <2>1
    <2>3. u[k + 1] = G[k + 1][u[k]] BY <2>1 DEF Runs
    <2>4. u[k + 1] \in Y /\ R[u[k]] \subseteq R[u[k + 1]] /\ C[k + 1] \subseteq R[u[k + 1]]
      BY <2>1, <2>2, <2>3 DEF Gathers
    <2>5. \A n \in 1 .. (k + 1) : n \in 1 .. k \/ n = k + 1 OBVIOUS
    <2>6. QED BY <2>2, <2>4, <2>5
  <1>3. Nat \subseteq P
    <2> HIDE DEF P
    <2>1. QED BY <1>1, <1>2, SetInduction
  <1>4. QED BY <1>3

\* Division.
LEMMA DivFacts ==
  ASSUME NEW a \in Nat, NEW n \in Nat \ {0}
  PROVE  /\ a \div n \in Nat /\ n * (a \div n) <= a /\ a < n * (a \div n) + n
  OBVIOUS

\* t is the part of s at the places e, in their order.
Picks(s, t, e) ==
  /\ e \in [1 .. Len(t) -> 1 .. Len(s)]
  /\ \A i \in 1 .. Len(t) : t[i] = s[e[i]]
  /\ \A i, j \in 1 .. Len(t) : i < j => e[i] < e[j]

OnlyStep(s, T, n, r) == IF s[n] \in T THEN Append(r, s[n]) ELSE r

\* What the first n elements of s come to.
OnlyUpTo(s, T, n, r, e) ==
  /\ e \in [1 .. Len(r) -> 1 .. n]
  /\ \A i \in 1 .. Len(r) : r[i] = s[e[i]] /\ r[i] \in T
  /\ \A i, j \in 1 .. Len(r) : i < j => e[i] < e[j]
  /\ \A i \in 1 .. n : s[i] \in T => \E j \in 1 .. Len(r) : r[j] = s[i]

LEMMA OnlyNext ==
  ASSUME NEW S, NEW s \in Seq(S), NEW T, NEW n \in Nat, n + 1 <= Len(s), NEW r \in Seq(S),
         NEW e, OnlyUpTo(s, T, n, r, e)
  PROVE  \E d : OnlyUpTo(s, T, n + 1, OnlyStep(s, T, n + 1, r), d)
  <1> DEFINE x == s[n + 1]
             m == Len(r)
  <1>1. Len(s) \in Nat /\ m \in Nat /\ x \in S OBVIOUS
  <1>2. \A i \in 1 .. (n + 1) : i \in 1 .. n \/ i = n + 1 OBVIOUS
  <1>3. CASE x \notin T
    <2>1. OnlyStep(s, T, n + 1, r) = r BY <1>3 DEF OnlyStep
    <2>2. e \in [1 .. m -> 1 .. (n + 1)] BY DEF OnlyUpTo
    <2>3. OnlyUpTo(s, T, n + 1, r, e) BY <1>2, <1>3, <2>2 DEF OnlyUpTo
    <2>4. QED BY <2>1, <2>3
  <1>4. CASE x \in T
    <2> DEFINE t == Append(r, x)
               d == [i \in 1 .. (m + 1) |-> IF i = m + 1 THEN n + 1 ELSE e[i]]
    <2>1. OnlyStep(s, T, n + 1, r) = t BY <1>4 DEF OnlyStep
    <2>2. /\ Len(t) = m + 1 /\ t[m + 1] = x /\ \A i \in 1 .. m : t[i] = r[i]
      BY <1>1
    <2>3. \A i \in 1 .. m : e[i] \in 1 .. n BY DEF OnlyUpTo
    <2>4. /\ d[m + 1] = n + 1 /\ \A i \in 1 .. m : d[i] = e[i]
          /\ d \in [1 .. (m + 1) -> 1 .. (n + 1)]
      BY <1>1, <2>3
    <2> HIDE DEF d, t, m
    <2>5. \A i \in 1 .. (m + 1) : i \in 1 .. m \/ i = m + 1 BY <1>1
    <2>6. /\ \A i \in 1 .. m : r[i] = s[e[i]] /\ r[i] \in T
          /\ \A i, j \in 1 .. m : i < j => e[i] < e[j]
          /\ \A i \in 1 .. n : s[i] \in T => \E j \in 1 .. m : r[j] = s[i]
      BY DEF OnlyUpTo, m
    <2>7. \A i \in 1 .. (m + 1) : t[i] = s[d[i]] /\ t[i] \in T
      BY <1>4, <2>2, <2>4, <2>5, <2>6
    <2>8. ASSUME NEW i \in 1 .. (m + 1), NEW j \in 1 .. (m + 1), i < j PROVE d[i] < d[j]
      <3>1. i \in 1 .. m BY <1>1, <2>8
      <3>2. CASE j \in 1 .. m BY <2>4, <2>6, <2>8, <3>1, <3>2
      <3>3. CASE j = m + 1
        <4>1. d[i] = e[i] /\ e[i] \in 1 .. n /\ d[j] = n + 1 BY <2>3, <2>4, <3>1, <3>3
        <4>2. QED BY <4>1
      <3>4. QED BY <2>5, <3>2, <3>3
    <2>9. ASSUME NEW i \in 1 .. (n + 1), s[i] \in T PROVE \E j \in 1 .. (m + 1) : t[j] = s[i]
      <3>1. CASE i \in 1 .. n
        <4>1. PICK j \in 1 .. m : r[j] = s[i] BY <2>6, <2>9, <3>1
        <4>2. j \in 1 .. (m + 1) /\ t[j] = s[i] BY <1>1, <2>2, <4>1
        <4>3. QED BY <4>2
      <3>2. CASE i = n + 1
        <4>1. m + 1 \in 1 .. (m + 1) /\ t[m + 1] = s[i] BY <1>1, <2>2, <3>2
        <4>2. QED BY <4>1
      <3>3. QED BY <1>2, <3>1, <3>2
    <2>10. OnlyUpTo(s, T, n + 1, t, d) BY <2>2, <2>4, <2>7, <2>8, <2>9 DEF OnlyUpTo
    <2>11. QED BY <2>1, <2>10
  <1>5. QED BY <1>3, <1>4

\* The recursion of Only, and its value.
OnlyRun(S, s, T, u) ==
  /\ u \in [0 .. Len(s) -> Seq(S)]
  /\ u[0] = <<>> /\ \A n \in 1 .. Len(s) : u[n] = OnlyStep(s, T, n, u[n - 1])
  /\ Only(s, T) = u[Len(s)]

LEMMA OnlySteps ==
  ASSUME NEW S, NEW s \in Seq(S), NEW T
  PROVE  \E u : OnlyRun(S, s, T, u)
  <1> DEFINE N == Len(s)
             X == Seq(S)
             G == [n \in 1 .. N |-> [r \in X |-> OnlyStep(s, T, n, r)]]
             Law(g) == g = [n \in 0 .. N |-> IF n = 0 THEN <<>> ELSE OnlyStep(s, T, n, g[n - 1])]
             u == CHOOSE g : Law(g)
  <1>1. N \in Nat /\ <<>> \in X OBVIOUS
  <1>2. G \in [1 .. N -> [X -> X]]
    <2>1. ASSUME NEW n \in 1 .. N, NEW r \in X PROVE OnlyStep(s, T, n, r) \in X BY DEF OnlyStep
    <2> HIDE DEF X
    <2>2. QED BY <2>1
  <1>3. PICK f : Recursion(N, X, <<>>, G, f)
    <2> HIDE DEF N, X, G
    <2>1. QED BY <1>1, <1>2, RecursionExists
  <1> HIDE DEF X
  <1>4. Law(f)
    <2>1. f \in [0 .. N -> X] /\ f[0] = <<>> BY <1>3 DEF Recursion
    <2>2. ASSUME NEW n \in 1 .. N PROVE f[n] = OnlyStep(s, T, n, f[n - 1])
      <3>1. n - 1 \in 0 .. N BY <1>1
      <3>2. f[n - 1] \in X BY <2>1, <3>1
      <3>3. f[n] = G[n][f[n - 1]]
        <4> HIDE DEF G
        <4>1. QED BY <1>3 DEF Recursion
      <3>4. QED BY <3>2, <3>3
    <2> HIDE DEF N, G
    <2>3. \A n \in 0 .. N : f[n] = IF n = 0 THEN <<>> ELSE OnlyStep(s, T, n, f[n - 1])
      BY <1>1, <2>1, <2>2
    <2>4. QED BY <2>1, <2>3
  <1>5. Law(u)
    <2> HIDE DEF Law
    <2>1. QED BY <1>4
  <1>6. Only(s, T) = u[N] BY DEF Only, OnlyStep
  <1> HIDE DEF u
  <1>7. u[0] = <<>> /\ \A n \in 1 .. N : u[n] = OnlyStep(s, T, n, u[n - 1])
    <2> HIDE DEF N
    <2>1. \A n \in 0 .. N : u[n] = IF n = 0 THEN <<>> ELSE OnlyStep(s, T, n, u[n - 1]) BY <1>5
    <2>2. QED BY <1>1, <2>1
  <1>8. \A n \in 0 .. N : u[n] \in X
    <2>1. Follows(N, X, <<>>, G, u) BY <1>7 DEF Follows
    <2> HIDE DEF N, G
    <2>2. QED BY <1>1, <1>2, <2>1, RecursionIn
  <1>9. u = [n \in 0 .. N |-> IF n = 0 THEN <<>> ELSE OnlyStep(s, T, n, u[n - 1])] BY <1>5
  <1>10. u \in [0 .. N -> X]
    <2> HIDE DEF N
    <2>1. DOMAIN u = 0 .. N /\ u = [n \in DOMAIN u |-> u[n]] BY <1>9, Zenon
    <2>2. QED BY <1>8, <2>1
  <1>11. OnlyRun(S, s, T, u) BY <1>6, <1>7, <1>10 DEF X, OnlyRun
  <1>12. QED BY <1>11

\* Only keeps the elements that are in the set, in their order, and all of
\* them.
LEMMA OnlyKeeps ==
  ASSUME NEW S, NEW s \in Seq(S), NEW T
  PROVE  /\ Only(s, T) \in Seq(S)
         /\ \E e : Picks(s, Only(s, T), e)
         /\ \A i \in 1 .. Len(Only(s, T)) : Only(s, T)[i] \in T
         /\ \A i \in 1 .. Len(s) : s[i] \in T => \E j \in 1 .. Len(Only(s, T)) : Only(s, T)[j] = s[i]
  <1>0. PICK u : OnlyRun(S, s, T, u) BY OnlySteps
  <1>1. /\ u \in [0 .. Len(s) -> Seq(S)]
        /\ u[0] = <<>> /\ \A n \in 1 .. Len(s) : u[n] = OnlyStep(s, T, n, u[n - 1])
        /\ Only(s, T) = u[Len(s)]
    BY <1>0 DEF OnlyRun
  <1>2. Len(s) \in Nat OBVIOUS
  <1> DEFINE P == {n \in Nat : n <= Len(s) => \E e : OnlyUpTo(s, T, n, u[n], e)}
  <1>3. 0 \in P
    <2> DEFINE e == [i \in 1 .. 0 |-> 0]
    <2>1. Len(<<>>) = 0 /\ 1 .. 0 = {} OBVIOUS
    <2>2. e \in [1 .. 0 -> 1 .. 0] BY <2>1
    <2> HIDE DEF e
    <2>3. OnlyUpTo(s, T, 0, <<>>, e) BY <2>1, <2>2 DEF OnlyUpTo
    <2>4. QED BY <1>1, <2>3
  <1>4. ASSUME NEW n \in Nat, n \in P PROVE n + 1 \in P
    <2> SUFFICES ASSUME n + 1 <= Len(s) PROVE \E e : OnlyUpTo(s, T, n + 1, u[n + 1], e) OBVIOUS
    <2>1. n <= Len(s) /\ n \in 0 .. Len(s) /\ n + 1 \in 1 .. Len(s) /\ (n + 1) - 1 = n BY <1>2
    <2>2. PICK e : OnlyUpTo(s, T, n, u[n], e) BY <1>4, <2>1
    <2>3. u[n] \in Seq(S) /\ u[n + 1] = OnlyStep(s, T, n + 1, u[n]) BY <1>1, <2>1
    <2>4. QED BY <2>2, <2>3, OnlyNext
  <1>5. Nat \subseteq P
    <2> HIDE DEF P
    <2>1. QED BY <1>3, <1>4, SetInduction
  <1>6. PICK e : OnlyUpTo(s, T, Len(s), Only(s, T), e) BY <1>1, <1>2, <1>5
  <1>7. Len(s) \in 0 .. Len(s) BY <1>2
  <1>8. Only(s, T) \in Seq(S) BY <1>1, <1>7
  <1>9. Picks(s, Only(s, T), e) BY <1>6 DEF OnlyUpTo, Picks
  <1>10. QED BY <1>6, <1>8, <1>9 DEF OnlyUpTo

\* A sequence whose elements are all in the set is kept as it is.
LEMMA OnlyAll ==
  ASSUME NEW S, NEW s \in Seq(S), NEW T, \A i \in 1 .. Len(s) : s[i] \in T
  PROVE  Only(s, T) = s
  <1>0. PICK u : OnlyRun(S, s, T, u) BY OnlySteps
  <1>1. /\ u \in [0 .. Len(s) -> Seq(S)]
        /\ u[0] = <<>> /\ \A n \in 1 .. Len(s) : u[n] = OnlyStep(s, T, n, u[n - 1])
        /\ Only(s, T) = u[Len(s)]
    BY <1>0 DEF OnlyRun
  <1>2. Len(s) \in Nat OBVIOUS
  <1> DEFINE Same(n) == Len(u[n]) = n /\ \A i \in 1 .. n : u[n][i] = s[i]
             P == {n \in Nat : n <= Len(s) => Same(n)}
  <1>3. 0 \in P BY <1>1
  <1>4. ASSUME NEW n \in Nat, n \in P PROVE n + 1 \in P
    <2> SUFFICES ASSUME n + 1 <= Len(s) PROVE Same(n + 1)
      <3> HIDE DEF Same
      <3>1. QED OBVIOUS
    <2>1. n <= Len(s) /\ n \in 0 .. Len(s) /\ n + 1 \in 1 .. Len(s) /\ (n + 1) - 1 = n BY <1>2
    <2>2. Len(u[n]) = n /\ \A i \in 1 .. n : u[n][i] = s[i] BY <1>4, <2>1
    <2>3. u[n] \in Seq(S) /\ u[n + 1] = Append(u[n], s[n + 1]) BY <1>1, <2>1 DEF OnlyStep
    <2>4. s[n + 1] \in S BY <2>1
    <2> DEFINE r == u[n]
    <2> HIDE DEF r
    <2>5. r \in Seq(S) /\ Len(r) = n BY <2>2, <2>3 DEF r
    <2>6. /\ Len(Append(r, s[n + 1])) = n + 1 /\ Append(r, s[n + 1])[n + 1] = s[n + 1]
          /\ \A i \in 1 .. n : Append(r, s[n + 1])[i] = r[i]
      BY <2>4, <2>5
    <2>7. \A i \in 1 .. (n + 1) : i \in 1 .. n \/ i = n + 1 OBVIOUS
    <2>8. u[n + 1] = Append(r, s[n + 1]) BY <2>3 DEF r
    <2>9. \A i \in 1 .. n : r[i] = s[i] BY <2>2 DEF r
    <2>10. QED BY <2>6, <2>7, <2>8, <2>9
  <1>5. Nat \subseteq P
    <2> HIDE DEF P
    <2>1. QED BY <1>3, <1>4, SetInduction
  <1>6. Len(Only(s, T)) = Len(s) /\ \A i \in 1 .. Len(s) : Only(s, T)[i] = s[i] BY <1>1, <1>2, <1>5
  <1>7. Only(s, T) \in Seq(S) BY OnlyKeeps
  <1> DEFINE o == Only(s, T)
  <1> HIDE DEF o
  <1>8. o \in Seq(S) /\ Len(o) = Len(s) /\ \A i \in 1 .. Len(s) : o[i] = s[i] BY <1>6, <1>7 DEF o
  <1>9. o = s BY <1>8
  <1>10. QED BY <1>9 DEF o
=============================================================================
