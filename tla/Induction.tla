----------------------------- MODULE Induction -----------------------------
(***************************************************************************)
(* Induction over the natural numbers in a form that needs no operator as  *)
(* a parameter: the property that is proved is a set of numbers.  It rests *)
(* on the least element of a set of numbers (WFMin).  After it, what the   *)
(* operators on sequences return.                                          *)
(***************************************************************************)
EXTENDS Lists, WellFoundedInduction, TLAPS

\* A set of numbers that is not empty has a least element.
LEMMA LeastNumber ==
    ASSUME NEW T \in SUBSET Nat, T # {}
    PROVE  \E x \in T : \A y \in T : x <= y
<1>. DEFINE R == OpToRel(<, Nat)
<1>1. IsWellFoundedOn(R, Nat)
  BY Zenon, NatLessThanWellFounded
<1>2. \A a, b \in Nat : <<a, b>> \in R <=> a < b
  BY DEF OpToRel
<1>. HIDE DEF R
<1>3. PICK x \in T : \A y \in T : ~ (<<y, x>> \in R)
  BY Zenon, <1>1, WFMin
<1>4. ASSUME NEW y \in T PROVE x <= y
  <2>1. x \in Nat /\ y \in Nat /\ ~ (y < x)
    BY Zenon, <1>2, <1>3
  <2>. QED
    BY <2>1
<1>. QED
  BY <1>4

\* Induction up to a bound: a set that has 0 and, with a number below n, the
\* next one, has all numbers up to n.
LEMMA UpTo ==
    ASSUME NEW n \in Nat, NEW T, 0 \in T, \A k \in 1 .. n : k - 1 \in T => k \in T
    PROVE  0 .. n \subseteq T
<1>. SUFFICES ASSUME (0 .. n) \ T # {} PROVE FALSE
  OBVIOUS
<1>1. PICK x \in (0 .. n) \ T : \A y \in (0 .. n) \ T : x <= y
  <2>. (0 .. n) \ T \in SUBSET Nat
    OBVIOUS
  <2>. QED
    BY Zenon, LeastNumber
<1>2. x \in 1 .. n /\ x - 1 \in 0 .. n /\ ~ (x <= x - 1)
  BY <1>1
<1>. QED
  BY <1>1, <1>2

\* The same down from n.
LEMMA DownFrom ==
    ASSUME NEW n \in Nat, NEW T, n \in T, \A k \in 1 .. n : k \in T => k - 1 \in T
    PROVE  0 .. n \subseteq T
<1>. DEFINE U == {k \in 0 .. n : n - k \in T}
<1>1. 0 \in U
  OBVIOUS
<1>2. ASSUME NEW k \in 1 .. n, k - 1 \in U PROVE k \in U
  <2>1. n - (k - 1) \in 1 .. n /\ n - (k - 1) \in T /\ (n - (k - 1)) - 1 = n - k
    BY <1>2
  <2>. QED
    BY <2>1
<1>3. 0 .. n \subseteq U
  <2>. HIDE DEF U
  <2>. QED
    BY <1>1, <1>2, UpTo
<1>4. ASSUME NEW k \in 0 .. n PROVE k \in T
  <2>1. n - k \in 0 .. n /\ n - (n - k) = k
    OBVIOUS
  <2>. QED
    BY <1>3, <2>1
<1>. QED
  BY <1>4

-----------------------------------------------------------------------------
\* f is the function of 0 .. n that starts at base and goes on by step.
Iterates(f, n, base, step) ==
    f = [k \in 0 .. n |-> IF k = 0 THEN base ELSE step[k][f[k - 1]]]

\* There is such a function, so that a recursive definition along 0 .. n means
\* what its equation says.
LEMMA Iteration ==
    ASSUME NEW n \in Nat, NEW S, NEW base \in S, NEW step \in [1 .. n -> [S -> S]]
    PROVE  \E f \in [0 .. n -> S] : Iterates(f, n, base, step)
<1>. DEFINE G(m) == \E f \in [0 .. m -> S] : Iterates(f, m, base, step)
            T == {m \in 0 .. n : G(m)}
<1>1. G(0)
  <2>. DEFINE w == [k \in 0 .. 0 |-> base]
  <2>1. w \in [0 .. 0 -> S] /\ Iterates(w, 0, base, step)
    BY DEF Iterates
  <2>. QED
    BY <2>1
<1>2. ASSUME NEW m \in 0 .. n - 1, G(m) PROVE G(m + 1)
  <2>1. PICK w \in [0 .. m -> S] : Iterates(w, m, base, step)
    BY <1>2
  <2>. DEFINE v == [k \in 0 .. m + 1 |-> IF k = m + 1 THEN step[m + 1][w[m]] ELSE w[k]]
  <2>2. m + 1 \in 1 .. n /\ w[m] \in S /\ step[m + 1][w[m]] \in S
    BY <1>2
  <2>3. v \in [0 .. m + 1 -> S]
    BY <2>2
  <2>4. ASSUME NEW k \in 0 .. m + 1 PROVE v[k] = IF k = 0 THEN base ELSE step[k][v[k - 1]]
    <3>1. CASE k = m + 1
      <4>1. k # 0 /\ k - 1 = m /\ m \in 0 .. m + 1 /\ m # m + 1
        BY <3>1
      <4>2. v[k] = step[k][w[m]] /\ v[m] = w[m]
        BY <3>1, <4>1
      <4>. QED
        BY <4>1, <4>2
    <3>2. CASE k # m + 1
      <4>1. k \in 0 .. m /\ v[k] = w[k] /\ (k # 0 => v[k - 1] = w[k - 1])
        BY <3>2
      <4>. QED
        BY Zenon, <4>1, <2>1 DEF Iterates
    <3>. QED
      BY <3>1, <3>2
  <2>5. v = [k \in 0 .. m + 1 |-> IF k = 0 THEN base ELSE step[k][v[k - 1]]]
    BY <2>4
  <2>. QED
    BY Zenon, <2>3, <2>5 DEF Iterates
<1>. HIDE DEF G
<1>3. ASSUME NEW m \in 1 .. n, m - 1 \in T PROVE m \in T
  <2>1. m - 1 \in 0 .. n - 1 /\ (m - 1) + 1 = m /\ G(m - 1)
    BY <1>3
  <2>. QED
    BY <1>2, <2>1
<1>4. 0 .. n \subseteq T
  <2>. 0 \in T
    BY <1>1
  <2>. HIDE DEF T
  <2>. QED
    BY Zenon, <1>3, UpTo
<1>. QED
  BY <1>4 DEF G
-----------------------------------------------------------------------------
\* A sequence without its i-th element.
LEMMA RemoveAtFacts ==
    ASSUME NEW S, NEW s \in Seq(S), NEW i \in 1 .. Len(s)
    PROVE  /\ RemoveAt(s, i) \in Seq(S) /\ Len(RemoveAt(s, i)) = Len(s) - 1
           /\ \A k \in 1 .. Len(s) - 1 :
                 RemoveAt(s, i)[k] = s[IF k < i THEN k ELSE k + 1]
<1>. DEFINE z == RemoveAt(s, i)
            p(k) == IF k < i THEN k ELSE k + 1
<1>1. Len(s) \in Nat /\ \A k \in 1 .. Len(s) : s[k] \in S
  OBVIOUS
<1>2. /\ z \in Seq(S) /\ Len(z) = Len(s) - 1
      /\ \A k \in 1 .. Len(s) - 1 : z[k] = s[p(k)]
  <2>. DEFINE u == SubSeq(s, 1, i - 1)
              v == SubSeq(s, i + 1, Len(s))
  <2>1. u \in Seq(S) /\ Len(u) = i - 1 /\ \A k \in 1 .. i - 1 : u[k] = s[k]
    BY <1>1
  <2>2. v \in Seq(S) /\ Len(v) = Len(s) - i /\ \A k \in 1 .. Len(s) - i : v[k] = s[k + i]
    BY <1>1
  <2>3. z = u \o v
    BY DEF RemoveAt
  <2>. HIDE DEF u, v, z
  <2>4. z \in Seq(S) /\ Len(z) = Len(s) - 1
    BY <1>1, <2>1, <2>2, <2>3
  <2>5. ASSUME NEW k \in 1 .. Len(s) - 1 PROVE z[k] = s[p(k)]
    <3>1. CASE k < i
      <4>1. z[k] = u[k]
        BY <1>1, <2>1, <2>2, <2>3, <3>1
      <4>. QED
        BY <2>1, <3>1, <4>1
    <3>2. CASE ~ (k < i)
      <4>1. k - (i - 1) \in 1 .. Len(s) - i /\ (k - (i - 1)) + i = k + 1
        BY <1>1, <3>2
      <4>2. z[k] = v[k - (i - 1)]
        BY <1>1, <2>1, <2>2, <2>3, <3>2, <4>1
      <4>. QED
        BY <2>2, <3>2, <4>1, <4>2
    <3>. QED
      BY <3>1, <3>2
  <2>. QED
    BY <2>4, <2>5
<1>. QED
  BY <1>2

\* It has the other elements, once each if they were there once each.
LEMMA RemoveAtInjective ==
    ASSUME NEW S, NEW s \in Seq(S), NEW i \in 1 .. Len(s), IsInjective(s)
    PROVE  /\ IsInjective(RemoveAt(s, i))
           /\ \A x : Contains(RemoveAt(s, i), x) <=> Contains(s, x) /\ x # s[i]
<1>. DEFINE z == RemoveAt(s, i)
            p(k) == IF k < i THEN k ELSE k + 1
            N == Len(s)
<1>1. N \in Nat /\ i \in 1 .. N /\ \A a, b \in 1 .. N : s[a] = s[b] => a = b
  BY DEF IsInjective
<1>2. /\ z \in Seq(S) /\ Len(z) = N - 1
      /\ \A k \in 1 .. N - 1 : z[k] = s[p(k)]
  BY RemoveAtFacts
<1>. HIDE DEF z, N
<1>3. \A k \in 1 .. N - 1 : p(k) \in 1 .. N /\ p(k) # i
  BY <1>1
<1>4. \A a, b \in 1 .. N - 1 : p(a) = p(b) => a = b
  BY <1>1
<1>5. ASSUME NEW k \in 1 .. N, k # i PROVE \E j \in 1 .. N - 1 : p(j) = k
  <2>1. CASE k < i
    <3>1. k \in 1 .. N - 1 /\ p(k) = k
      BY <1>1, <2>1
    <3>. QED
      BY <3>1
  <2>2. CASE k > i
    <3>1. k - 1 \in 1 .. N - 1 /\ p(k - 1) = k
      BY <1>1, <2>2
    <3>. QED
      BY <3>1
  <2>. QED
    BY <1>1, <1>5, <2>1, <2>2
<1>. HIDE DEF p
<1>6. IsInjective(z)
  <2>1. DOMAIN z = 1 .. N - 1
    BY <1>1, <1>2
  <2>2. ASSUME NEW a \in 1 .. N - 1, NEW b \in 1 .. N - 1, z[a] = z[b] PROVE a = b
    <3>1. s[p(a)] = s[p(b)]
      BY <1>2, <2>2
    <3>2. p(a) = p(b)
      BY <1>1, <1>3, <3>1
    <3>. QED
      BY <1>4, <3>2
  <2>. QED
    BY <2>1, <2>2 DEF IsInjective
<1>7. ASSUME NEW x PROVE Contains(z, x) <=> Contains(s, x) /\ x # s[i]
  <2>1. ASSUME NEW k \in 1 .. N - 1, z[k] = x PROVE Contains(s, x) /\ x # s[i]
    <3>1. s[p(k)] = x /\ p(k) \in 1 .. N
      BY <1>2, <1>3, <2>1
    <3>2. s[p(k)] # s[i]
      BY <1>1, <1>3
    <3>. QED
      BY <3>1, <3>2 DEF Contains, N
  <2>2. ASSUME NEW k \in 1 .. N, s[k] = x, x # s[i] PROVE Contains(z, x)
    <3>1. PICK j \in 1 .. N - 1 : p(j) = k
      BY <1>5, <2>2
    <3>2. z[j] = x
      BY <1>2, <2>2, <3>1
    <3>. QED
      BY <1>2, <3>2 DEF Contains
  <2>. QED
    BY <1>2, <2>1, <2>2 DEF Contains, N
<1>. QED
  BY <1>6, <1>7 DEF z

\* A sequence with an element in front.
LEMMA ConsFacts ==
    ASSUME NEW S, NEW s \in Seq(S), NEW e \in S
    PROVE  /\ <<e>> \o s \in Seq(S) /\ Len(<<e>> \o s) = Len(s) + 1
           /\ (<<e>> \o s)[1] = e
           /\ \A k \in 1 .. Len(s) : (<<e>> \o s)[k + 1] = s[k]
           /\ \A k \in 2 .. Len(s) + 1 : (<<e>> \o s)[k] = s[k - 1]
           /\ \A x : Contains(<<e>> \o s, x) <=> Contains(s, x) \/ x = e
           /\ IsInjective(s) /\ ~ Contains(s, e) => IsInjective(<<e>> \o s)
<1>. DEFINE z == <<e>> \o s
            N == Len(s)
<1>1. N \in Nat /\ z \in Seq(S) /\ Len(z) = N + 1 /\ z[1] = e
  OBVIOUS
<1>2. \A k \in 1 .. N : z[k + 1] = s[k]
  OBVIOUS
<1>3. \A k \in 2 .. N + 1 : z[k] = s[k - 1]
  OBVIOUS
<1>4. DOMAIN s = 1 .. N /\ DOMAIN z = 1 .. N + 1
  BY <1>1
<1>. HIDE DEF z, N
<1>5. ASSUME NEW x PROVE Contains(z, x) <=> Contains(s, x) \/ x = e
  <2>1. ASSUME NEW k \in 1 .. N + 1, z[k] = x PROVE Contains(s, x) \/ x = e
    <3>1. CASE k = 1
      BY <1>1, <2>1, <3>1
    <3>2. CASE k # 1
      <4>1. k \in 2 .. N + 1 /\ k - 1 \in 1 .. N
        BY <1>1, <3>2
      <4>2. s[k - 1] = x
        BY <1>3, <2>1, <4>1
      <4>. QED
        BY <4>1, <4>2 DEF Contains, N
    <3>. QED
      BY <3>1, <3>2
  <2>2. ASSUME NEW k \in 1 .. N, s[k] = x PROVE Contains(z, x)
    <3>1. k + 1 \in 1 .. N + 1 /\ z[k + 1] = x
      BY <1>1, <1>2, <2>2
    <3>. QED
      BY <1>1, <3>1 DEF Contains
  <2>3. ASSUME x = e PROVE Contains(z, x)
    <3>1. 1 \in 1 .. N + 1 /\ z[1] = x
      BY <1>1, <2>3
    <3>. QED
      BY <1>1, <3>1 DEF Contains
  <2>. QED
    BY <1>1, <2>1, <2>2, <2>3 DEF Contains, N
<1>6. ASSUME IsInjective(s), ~ Contains(s, e) PROVE IsInjective(z)
  <2>1. \A a, b \in 1 .. N : s[a] = s[b] => a = b
    BY <1>4, <1>6 DEF IsInjective
  <2>2. \A a \in 1 .. N : s[a] # e
    BY <1>6 DEF Contains, N
  <2>3. ASSUME NEW a \in 1 .. N + 1, NEW b \in 1 .. N + 1, z[a] = z[b] PROVE a = b
    <3>1. a # 1 => a - 1 \in 1 .. N /\ a \in 2 .. N + 1
      BY <1>1
    <3>2. b # 1 => b - 1 \in 1 .. N /\ b \in 2 .. N + 1
      BY <1>1
    <3>3. (a # 1 => z[a] = s[a - 1] /\ z[a] # e) /\ (b # 1 => z[b] = s[b - 1] /\ z[b] # e)
      BY <1>3, <2>2, <3>1, <3>2
    <3>4. a = 1 <=> b = 1
      BY <1>1, <2>3, <3>3
    <3>5. a # 1 => a - 1 = b - 1
      BY <2>1, <2>3, <3>1, <3>2, <3>3, <3>4
    <3>. QED
      BY <1>1, <3>4, <3>5
  <2>. QED
    BY <1>4, <2>3 DEF IsInjective
<1>. QED
  BY <1>1, <1>2, <1>3, <1>5, <1>6 DEF z, N

\* Sequences of the same length with the same elements are the same.
LEMMA SeqEqual ==
    ASSUME NEW S, NEW s \in Seq(S), NEW t \in Seq(S), Len(s) = Len(t),
           \A k \in 1 .. Len(s) : s[k] = t[k]
    PROVE  s = t
  OBVIOUS

-----------------------------------------------------------------------------
(* What is left of a sequence when some of its elements are left out.      *)

\* k[n] is what is kept of the first n elements of s when D is left out.
Keeps(k, S, s, D) ==
    /\ k \in [0 .. Len(s) -> Seq(S)]
    /\ k[0] = << >>
    /\ \A n \in 1 .. Len(s) :
          k[n] = IF s[n] \in D THEN k[n - 1] ELSE Append(k[n - 1], s[n])

\* One element after the other is kept or left out.
LEMMA WithoutKept ==
    ASSUME NEW S, NEW s \in Seq(S), NEW D
    PROVE  \E k : Keeps(k, S, s, D) /\ Without(s, D) = k[Len(s)]
<1>. DEFINE N == Len(s)
            Q == Seq(S)
            Op(x, n) == IF s[n] \in D THEN x ELSE Append(x, s[n])
            step == [n \in 1 .. N |-> [x \in Q |-> Op(x, n)]]
            F(f) == [n \in 0 .. N |-> IF n = 0 THEN << >>
                                      ELSE IF s[n] \in D THEN f[n - 1]
                                                         ELSE Append(f[n - 1], s[n])]
<1>1. N \in Nat /\ << >> \in Q /\ \A n \in 1 .. N, x \in Q : Op(x, n) \in Q
  OBVIOUS
<1>2. \A f : \A n \in 1 .. N : F(f)[n] = Op(f[n - 1], n)
  BY <1>1
<1>3. step \in [1 .. N -> [Q -> Q]] /\ \A n \in 1 .. N, x \in Q : step[n][x] = Op(x, n)
  <2>. HIDE DEF Op
  <2>. QED
    BY <1>1
<1>. HIDE DEF N, Q, step
<1>4. PICK f \in [0 .. N -> Q] : Iterates(f, N, << >>, step)
  BY SMTT(30), <1>1, <1>3, Iteration
<1>5. f = F(f)
  <2>1. ASSUME NEW n \in 0 .. N, n # 0 PROVE n \in 1 .. N /\ f[n - 1] \in Q
    BY <1>1, <2>1
  <2>. QED
    BY Zenon, <1>3, <1>4, <2>1 DEF Iterates
<1>. DEFINE k == CHOOSE kept : kept = F(kept)
<1>6. k = F(k)
  BY Zenon, <1>5
<1>7. Without(s, D) = k[N]
  BY DEF Without, N
<1>. HIDE DEF k
<1>8. k[0] = << >> /\ DOMAIN k = 0 .. N
  BY <1>1, <1>6
<1>9. \A n \in 1 .. N : k[n] = Op(k[n - 1], n)
  BY Zenon, <1>2, <1>6
<1>10. \A n \in 0 .. N : k[n] \in Q
  <2>. DEFINE T == {n \in 0 .. N : k[n] \in Q}
  <2>. HIDE DEF Op, F
  <2>1. 0 \in T
    BY <1>1, <1>8
  <2>2. ASSUME NEW n \in 1 .. N, n - 1 \in T PROVE n \in T
    <3>1. k[n] \in Q /\ n \in 0 .. N
      BY <1>1, <1>9, <2>2
    <3>. QED
      BY <3>1
  <2>3. 0 .. N \subseteq T
    <3>. HIDE DEF T
    <3>. QED
      BY Zenon, <1>1, <2>1, <2>2, UpTo
  <2>. QED
    BY <2>3
<1>11. k \in [0 .. N -> Q]
  BY <1>6, <1>8, <1>10
<1>. QED
  BY <1>7, <1>8, <1>9, <1>11 DEF N, Q, Keeps

\* Nothing is forgotten when none is designated.
LEMMA WithoutNone ==
    ASSUME NEW S, NEW s \in Seq(S), NEW D, \A i \in 1 .. Len(s) : s[i] \notin D
    PROVE  Without(s, D) = s
<1>. DEFINE N == Len(s)
<1>1. PICK k : Keeps(k, S, s, D) /\ Without(s, D) = k[N]
  BY WithoutKept
<1>2. N \in Nat /\ \A n \in 1 .. N : s[n] \in S /\ s[n] \notin D
  OBVIOUS
<1>. DEFINE G(n) == Len(k[n]) = n /\ \A j \in 1 .. n : k[n][j] = s[j]
            T == {n \in 0 .. N : G(n)}
<1>. HIDE DEF N
<1>3. 0 \in T
  BY <1>1, <1>2 DEF Keeps
<1>4. ASSUME NEW n \in 1 .. N, n - 1 \in T PROVE n \in T
  <2>1. n - 1 \in 0 .. N /\ n \in 0 .. N /\ n - 1 \in Nat
    BY <1>2
  <2>2. k[n - 1] \in Seq(S) /\ k[n] = Append(k[n - 1], s[n]) /\ G(n - 1)
    BY Zenon, <1>1, <1>2, <1>4, <2>1 DEF Keeps, N
  <2>3. Len(k[n]) = n /\ k[n][n] = s[n] /\ \A j \in 1 .. n - 1 : k[n][j] = k[n - 1][j]
    <3>. DEFINE t == k[n - 1]
    <3>1. t \in Seq(S) /\ Len(t) = n - 1 /\ k[n] = Append(t, s[n]) /\ s[n] \in S
      BY <1>2, <2>2
    <3>. HIDE DEF t
    <3>2. Len(k[n]) = n /\ k[n][n] = s[n] /\ \A j \in 1 .. n - 1 : k[n][j] = t[j]
      BY <2>1, <3>1
    <3>. QED
      BY <3>2 DEF t
  <2>4. \A j \in 1 .. n : j = n \/ j \in 1 .. n - 1
    OBVIOUS
  <2>5. G(n)
    BY <2>2, <2>3, <2>4
  <2>. QED
    BY <2>1, <2>5
<1>5. 0 .. N \subseteq T
  <2>. HIDE DEF T
  <2>. QED
    BY Zenon, <1>2, <1>3, <1>4, UpTo
<1>6. k[N] \in Seq(S) /\ G(N)
  BY <1>1, <1>2, <1>5 DEF Keeps, N
<1>. QED
  BY <1>1, <1>6, SeqEqual DEF N

\* Removing an element from a sequence with one appended.
LEMMA RemoveAtAppend ==
    ASSUME NEW S, NEW t \in Seq(S), NEW x \in S
    PROVE  /\ RemoveAt(Append(t, x), Len(t) + 1) = t
           /\ \A m \in 1 .. Len(t) : RemoveAt(Append(t, x), m) = Append(RemoveAt(t, m), x)
<1>. DEFINE N == Len(t)
            a == Append(t, x)
<1>1. /\ N \in Nat /\ a \in Seq(S) /\ Len(a) = N + 1 /\ a[N + 1] = x
      /\ \A i \in 1 .. N : a[i] = t[i]
  OBVIOUS
<1>. HIDE DEF a
<1>2. RemoveAt(a, N + 1) = t
  <2>. DEFINE z == RemoveAt(a, N + 1)
  <2>1. /\ z \in Seq(S) /\ Len(z) = (N + 1) - 1
        /\ \A k \in 1 .. (N + 1) - 1 : z[k] = a[IF k < N + 1 THEN k ELSE k + 1]
    <3>1. N + 1 \in 1 .. Len(a)
      BY <1>1
    <3>. QED
      BY Zenon, <1>1, <3>1, RemoveAtFacts
  <2>. HIDE DEF z
  <2>2. Len(z) = N /\ \A k \in 1 .. N : z[k] = t[k]
    BY <1>1, <2>1
  <2>3. z = t
    BY <2>1, <2>2, SeqEqual
  <2>. QED
    BY <2>3 DEF z
<1>3. ASSUME NEW m \in 1 .. N PROVE RemoveAt(a, m) = Append(RemoveAt(t, m), x)
  <2>. DEFINE z == RemoveAt(a, m)
              r == RemoveAt(t, m)
              y == Append(r, x)
  <2>1. /\ z \in Seq(S) /\ Len(z) = (N + 1) - 1
        /\ \A k \in 1 .. (N + 1) - 1 : z[k] = a[IF k < m THEN k ELSE k + 1]
    <3>1. m \in 1 .. Len(a)
      BY <1>1
    <3>. QED
      BY Zenon, <1>1, <3>1, RemoveAtFacts
  <2>2. /\ r \in Seq(S) /\ Len(r) = N - 1
        /\ \A k \in 1 .. N - 1 : r[k] = t[IF k < m THEN k ELSE k + 1]
    BY RemoveAtFacts
  <2>. HIDE DEF z, r, N
  <2>3. y \in Seq(S) /\ Len(y) = N /\ y[N] = x /\ \A k \in 1 .. N - 1 : y[k] = r[k]
    BY <1>1, <2>2
  <2>. HIDE DEF y
  <2>4. ASSUME NEW k \in 1 .. N PROVE z[k] = y[k]
    <3>1. CASE k = N
      <4>1. z[k] = a[N + 1]
        BY <1>1, <2>1, <3>1
      <4>. QED
        BY <1>1, <2>3, <3>1, <4>1
    <3>2. CASE k # N
      <4>. DEFINE j == IF k < m THEN k ELSE k + 1
      <4>1. k \in 1 .. N - 1 /\ k \in 1 .. (N + 1) - 1 /\ j \in 1 .. N
        BY <1>1, <3>2
      <4>2. z[k] = a[j] /\ r[k] = t[j]
        BY Zenon, <2>1, <2>2, <4>1
      <4>. HIDE DEF j
      <4>3. a[j] = t[j] /\ y[k] = r[k]
        BY Zenon, <1>1, <2>3, <4>1
      <4>. QED
        BY Zenon, <4>2, <4>3
    <3>. QED
      BY <3>1, <3>2
  <2>5. Len(z) = N
    BY <1>1, <2>1
  <2>6. z = y
    BY <2>1, <2>3, <2>4, <2>5, SeqEqual
  <2>. QED
    BY <2>6 DEF z, y, r
<1>. QED
  BY <1>2, <1>3 DEF a

\* Forgetting one more takes it out of what was left.
LEMMA WithoutOneMore ==
    ASSUME NEW S, NEW u \in Seq(S), IsInjective(u), NEW D, NEW E, NEW j \in 1 .. Len(u),
           u[j] \notin D, E = D \cup {u[j]},
           NEW i \in 1 .. Len(Without(u, D)), Without(u, D)[i] = u[j],
           IsInjective(Without(u, D))
    PROVE  Without(u, E) = RemoveAt(Without(u, D), i)
<1>. DEFINE N == Len(u)
            e == u[j]
<1>1. PICK k : Keeps(k, S, u, D) /\ Without(u, D) = k[N]
  BY WithoutKept
<1>2. PICK l : Keeps(l, S, u, E) /\ Without(u, E) = l[N]
  BY WithoutKept
<1>3. /\ N \in Nat /\ j \in 1 .. N /\ \A n \in 1 .. N : u[n] \in S
      /\ \A n \in 1 .. N : n # j => u[n] # e
  BY DEF IsInjective
<1>4. /\ \A n \in 0 .. N : k[n] \in Seq(S) /\ l[n] \in Seq(S)
      /\ \A n \in 1 .. N : k[n] = IF u[n] \in D THEN k[n - 1] ELSE Append(k[n - 1], u[n])
      /\ \A n \in 1 .. N : l[n] = IF u[n] \in E THEN l[n - 1] ELSE Append(l[n - 1], u[n])
      /\ k[0] = << >> /\ l[0] = << >>
  BY Zenon, <1>1, <1>2 DEF Keeps
<1>. DEFINE m == Len(k[j - 1]) + 1
            Before(n) == l[n] = k[n]
            After(n) == m \in 1 .. Len(k[n]) /\ k[n][m] = e /\ l[n] = RemoveAt(k[n], m)
            T == {n \in 0 .. N : (n < j => Before(n)) /\ (~ (n < j) => After(n))}
<1>. HIDE DEF N, e
<1>5. 0 \in T
  <2>1. 0 < j /\ 0 \in 0 .. N
    BY <1>3
  <2>2. Before(0)
    BY <1>4
  <2>. QED
    BY <2>1, <2>2
<1>6. ASSUME NEW n \in 1 .. N, n - 1 \in T PROVE n \in T
  <2>1. n - 1 \in 0 .. N /\ n \in 0 .. N /\ k[n - 1] \in Seq(S) /\ l[n - 1] \in Seq(S) /\ u[n] \in S
    BY <1>3, <1>4
  <2>2. CASE n < j
    <3>1. u[n] # e /\ Before(n - 1)
      BY <1>3, <1>6, <2>1, <2>2
    <3>2. u[n] \in E <=> u[n] \in D
      BY <3>1 DEF e
    <3>3. Before(n)
      BY <1>4, <3>1, <3>2
    <3>. QED
      BY <2>1, <2>2, <3>3
  <2>3. CASE n = j
    <3>1. Before(n - 1)
      BY <1>3, <1>6, <2>1, <2>3
    <3>. DEFINE t == k[n - 1]
    <3>2. k[n] = Append(t, e) /\ l[n] = t /\ t \in Seq(S) /\ e \in S /\ m = Len(t) + 1
      BY Zenon, <1>4, <2>1, <2>3, <3>1 DEF e
    <3>. HIDE DEF t, m
    <3>3. m \in 1 .. Len(k[n]) /\ k[n][m] = e
      BY <3>2
    <3>4. RemoveAt(k[n], m) = t
      BY <3>2, RemoveAtAppend
    <3>5. After(n)
      BY <3>2, <3>3, <3>4
    <3>6. ~ (n < j)
      BY <1>3, <2>3
    <3>. QED
      BY <2>1, <3>5, <3>6
  <2>4. CASE n > j
    <3>1. u[n] # e /\ ~ (n - 1 < j) /\ ~ (n < j)
      BY <1>3, <2>1, <2>4
    <3>2. After(n - 1)
      BY <1>6, <3>1
    <3>3. u[n] \in E <=> u[n] \in D
      BY <3>1 DEF e
    <3>4. CASE u[n] \in D
      <4>1. After(n)
        BY Zenon, <1>4, <3>2, <3>3, <3>4
      <4>. QED
        BY <2>1, <3>1, <4>1
    <3>5. CASE u[n] \notin D
      <4>. DEFINE t == k[n - 1]
                  x == u[n]
      <4>1. /\ k[n] = Append(t, x) /\ l[n] = Append(RemoveAt(t, m), x)
            /\ t \in Seq(S) /\ x \in S /\ m \in 1 .. Len(t) /\ t[m] = e
        BY Zenon, <1>4, <2>1, <3>2, <3>3, <3>5
      <4>. HIDE DEF t, m, x
      <4>2. m \in 1 .. Len(k[n]) /\ k[n][m] = e
        BY <4>1
      <4>3. RemoveAt(k[n], m) = l[n]
        BY <4>1, RemoveAtAppend
      <4>4. After(n)
        BY <4>2, <4>3
      <4>. QED
        BY <2>1, <3>1, <4>4
    <3>. QED
      BY <3>4, <3>5
  <2>. QED
    BY <1>3, <2>2, <2>3, <2>4
<1>7. 0 .. N \subseteq T
  <2>. HIDE DEF T
  <2>. QED
    BY Zenon, <1>3, <1>5, <1>6, UpTo
<1>8. N \in 0 .. N /\ ~ (N < j)
  BY <1>3
<1>9. After(N)
  BY <1>7, <1>8
<1>10. i = m
  <2>1. i \in DOMAIN k[N] /\ m \in DOMAIN k[N] /\ k[N][i] = k[N][m]
    BY <1>1, <1>4, <1>8, <1>9 DEF e
  <2>2. IsInjective(k[N])
    BY <1>1
  <2>. HIDE DEF m
  <2>. QED
    BY <2>1, <2>2 DEF IsInjective
<1>. QED
  BY <1>1, <1>2, <1>9, <1>10

\* Everything is forgotten when every key is designated.
LEMMA WithoutAll ==
    ASSUME NEW S, NEW s \in Seq(S), NEW D, \A i \in 1 .. Len(s) : s[i] \in D
    PROVE  Without(s, D) = << >>
<1>. DEFINE N == Len(s)
<1>1. PICK k : Keeps(k, S, s, D) /\ Without(s, D) = k[N]
  BY WithoutKept
<1>2. N \in Nat /\ \A n \in 1 .. N : s[n] \in D
  OBVIOUS
<1>3. k[0] = << >> /\ \A n \in 1 .. N : k[n] = k[n - 1]
  BY <1>1, <1>2 DEF Keeps
<1>. DEFINE T == {n \in 0 .. N : k[n] = << >>}
<1>. HIDE DEF N
<1>4. 0 \in T
  BY <1>2, <1>3
<1>5. ASSUME NEW n \in 1 .. N, n - 1 \in T PROVE n \in T
  <2>1. n \in 0 .. N
    BY <1>2
  <2>. QED
    BY <1>3, <1>5, <2>1
<1>6. 0 .. N \subseteq T
  <2>. HIDE DEF T
  <2>. QED
    BY Zenon, <1>2, <1>4, <1>5, UpTo
<1>. QED
  BY <1>1, <1>2, <1>6 DEF N
\* The elements that are kept were there, in the same order, and are not in D;
\* if one is left out there are fewer.
LEMMA WithoutFacts ==
    ASSUME NEW S, NEW s \in Seq(S), NEW D
    PROVE  LET w == Without(s, D)
           IN  /\ w \in Seq(S) /\ Len(w) <= Len(s)
               /\ (\E i \in 1 .. Len(s) : s[i] \in D) => Len(w) < Len(s)
               /\ \A a \in 1 .. Len(w) : w[a] \notin D /\ Contains(s, w[a])
               /\ \A a, b \in 1 .. Len(w) : a < b =>
                     \E i, j \in 1 .. Len(s) : i < j /\ w[a] = s[i] /\ w[b] = s[j]
<1>. DEFINE N == Len(s)
<1>1. PICK k : Keeps(k, S, s, D) /\ Without(s, D) = k[N]
  BY WithoutKept
<1>2. /\ N \in Nat /\ \A n \in 1 .. N : s[n] \in S
      /\ \A n \in 0 .. N : k[n] \in Seq(S)
      /\ k[0] = << >>
      /\ \A n \in 1 .. N : k[n] = IF s[n] \in D THEN k[n - 1] ELSE Append(k[n - 1], s[n])
  <2>1. N \in Nat /\ \A n \in 1 .. N : s[n] \in S
    OBVIOUS
  <2>. QED
    BY Zenon, <1>1, <2>1 DEF Keeps
<1>. DEFINE Short(n) == Len(k[n]) <= n /\ ((\E i \in 1 .. n : s[i] \in D) => Len(k[n]) < n)
            Kept(n) == \A a \in 1 .. Len(k[n]) : k[n][a] \notin D /\ \E i \in 1 .. n : s[i] = k[n][a]
            Order(n) == \A a, b \in 1 .. Len(k[n]) : a < b =>
                           \E i, j \in 1 .. n : i < j /\ k[n][a] = s[i] /\ k[n][b] = s[j]
            T == {n \in 0 .. N : Short(n) /\ Kept(n) /\ Order(n)}
<1>. HIDE DEF N
<1>3. 0 \in T
  BY <1>2
<1>4. ASSUME NEW n \in 1 .. N, n - 1 \in T PROVE n \in T
  <2>. DEFINE t == k[n - 1]
              x == s[n]
              m == n - 1
  <2>1. /\ m \in Nat /\ m \in 0 .. N /\ n = m + 1 /\ n \in 0 .. N /\ Len(t) \in Nat
        /\ t \in Seq(S) /\ x \in S /\ Short(m) /\ Kept(m) /\ Order(m)
        /\ \A i \in 1 .. n : i \in 1 .. m \/ i = n
        /\ \A i \in 1 .. m : i \in 1 .. n /\ i < n
    <3>1. /\ m \in Nat /\ m \in 0 .. N /\ n = m + 1 /\ n \in 0 .. N
          /\ \A i \in 1 .. n : i \in 1 .. m \/ i = n
          /\ \A i \in 1 .. m : i \in 1 .. n /\ i < n
      BY <1>2
    <3>2. t \in Seq(S) /\ x \in S /\ Short(m) /\ Kept(m) /\ Order(m)
      BY Zenon, <1>2, <1>4, <3>1
    <3>3. Len(t) \in Nat
      BY <3>2
    <3>. QED
      BY Zenon, <3>1, <3>2, <3>3
  <2>2. CASE x \in D
    <3>1. k[n] = t
      BY <1>2, <2>2
    <3>2. Short(n)
      BY <2>1, <3>1
    <3>3. Kept(n)
      BY <2>1, <3>1
    <3>4. Order(n)
      <4>. SUFFICES ASSUME NEW a \in 1 .. Len(t), NEW b \in 1 .. Len(t), a < b
                    PROVE  \E i, j \in 1 .. n : i < j /\ t[a] = s[i] /\ t[b] = s[j]
        BY <3>1
      <4>1. PICK i \in 1 .. m, j \in 1 .. m : i < j /\ t[a] = s[i] /\ t[b] = s[j]
        BY <2>1
      <4>. QED
        BY <2>1, <4>1
    <3>. QED
      BY <2>1, <3>2, <3>3, <3>4
  <2>3. CASE x \notin D
    <3>. DEFINE w == k[n]
    <3>1. /\ w \in Seq(S) /\ Len(w) = Len(t) + 1 /\ w[Len(t) + 1] = x
          /\ \A a \in 1 .. Len(t) : w[a] = t[a]
      <4>1. w = Append(t, x)
        BY <1>2, <2>3
      <4>. HIDE DEF w, t, x
      <4>. QED
        BY <2>1, <4>1
    <3>. HIDE DEF w
    <3>2. Len(w) <= n /\ ((\E i \in 1 .. n : s[i] \in D) => Len(w) < n)
      BY <2>1, <2>3, <3>1
    <3>3. \A a \in 1 .. Len(w) : a \in 1 .. Len(t) \/ a = Len(t) + 1
      BY <2>1, <3>1
    <3>4. ASSUME NEW a \in 1 .. Len(w) PROVE w[a] \notin D /\ \E i \in 1 .. n : s[i] = w[a]
      <4>1. CASE a \in 1 .. Len(t)
        <5>1. w[a] = t[a] /\ t[a] \notin D /\ \E i \in 1 .. m : s[i] = t[a]
          BY <2>1, <3>1, <4>1
        <5>. QED
          BY <2>1, <5>1
      <4>2. CASE a = Len(t) + 1
        <5>1. w[a] = s[n] /\ n \in 1 .. n
          BY <2>1, <3>1, <4>2
        <5>. QED
          BY <2>3, <5>1
      <4>. QED
        BY <3>3, <4>1, <4>2
    <3>5. ASSUME NEW a \in 1 .. Len(w), NEW b \in 1 .. Len(w), a < b
          PROVE  \E i, j \in 1 .. n : i < j /\ w[a] = s[i] /\ w[b] = s[j]
      <4>1. a \in 1 .. Len(t)
        BY <2>1, <3>1, <3>5
      <4>2. CASE b \in 1 .. Len(t)
        <5>1. PICK i \in 1 .. m, j \in 1 .. m : i < j /\ t[a] = s[i] /\ t[b] = s[j]
          BY <2>1, <3>5, <4>1, <4>2
        <5>2. w[a] = s[i] /\ w[b] = s[j]
          BY <3>1, <4>1, <4>2, <5>1
        <5>. QED
          BY <2>1, <5>1, <5>2
      <4>3. CASE b = Len(t) + 1
        <5>1. PICK i \in 1 .. m : s[i] = t[a]
          BY <2>1, <4>1
        <5>2. i < n /\ w[a] = s[i] /\ w[b] = s[n] /\ i \in 1 .. n /\ n \in 1 .. n
          BY <2>1, <3>1, <4>1, <4>3, <5>1
        <5>. QED
          BY <5>2
      <4>. QED
        BY <3>3, <4>2, <4>3
    <3>. QED
      BY <2>1, <3>2, <3>4, <3>5 DEF w
  <2>. QED
    BY <2>2, <2>3
<1>5. 0 .. N \subseteq T
  <2>. HIDE DEF T
  <2>. QED
    BY Zenon, <1>2, <1>3, <1>4, UpTo
<1>6. N \in 0 .. N /\ k[N] \in Seq(S)
  BY <1>2
<1>7. Short(N) /\ Kept(N) /\ Order(N)
  BY <1>5, <1>6
<1>. QED
  BY <1>1, <1>6, <1>7 DEF N, Contains
=============================================================================
