----------------------- MODULE PureFunctions_proofs -----------------------
(***************************************************************************)
(* What the functions of StayDates and Listings return, for every input:   *)
(* the stays that compete, the nights charged, and the lists a guest reads *)
(* page by page.                                                           *)
(*                                                                         *)
(* filter and Joined are recursive functions.  Induction is drawn from   *)
(* the well-foundedness of the naturals, as a fact about sets: a set with  *)
(* 0 in it and n + 1 for each n in it has every natural number in it.      *)
(***************************************************************************)
EXTENDS PureFunctions, StayDates_proofs, SequenceTheorems, WellFoundedInduction

-----------------------------------------------------------------------------
(* Induction *)

LEMMA NatOrder == \E R : IsWellFoundedOn(R, Nat) /\ \A m, n \in Nat : <<n, m>> \in R <=> n < m
<1> DEFINE R == OpToRel(<, Nat)
<1>1. IsWellFoundedOn(R, Nat)
  BY NatLessThanWellFounded
<1>2. \A m, n \in Nat : <<n, m>> \in R <=> n < m
  BY DEF OpToRel
<1> HIDE DEF R
<1>3. QED
  BY <1>1, <1>2

\* A set of natural numbers with anything in it has a least element.
LEMMA Least ==
    ASSUME NEW T \in SUBSET Nat, T # {}
    PROVE  \E m \in T : \A n \in T : m <= n
<1>1. PICK R : IsWellFoundedOn(R, Nat) /\ \A m, n \in Nat : <<n, m>> \in R <=> n < m
  BY NatOrder
<1>2. PICK m \in T : \A n \in T : ~(<<n, m>> \in R)
  BY <1>1, WFMin
<1>3. ASSUME NEW n \in T PROVE m <= n
  <2>1. m \in Nat /\ n \in Nat /\ ~(<<n, m>> \in R)
    BY <1>2
  <2>2. ~(n < m)
    BY <1>1, <2>1
  <2>3. QED
    BY <2>1, <2>2
<1>4. QED
  BY <1>3

LEMMA Inductive ==
    ASSUME NEW S, 0 \in S, \A n \in Nat : n \in S => n + 1 \in S
    PROVE  \A n \in Nat : n \in S
<1> SUFFICES ASSUME Nat \ S # {} PROVE FALSE
  OBVIOUS
<1>1. PICK m \in Nat \ S : \A n \in Nat \ S : m <= n
  BY Least
<1>2. m # 0 /\ m - 1 \in Nat
  BY <1>1
<1>3. m - 1 \in S
  BY <1>1, <1>2
<1>4. QED
  BY <1>1, <1>2, <1>3

-----------------------------------------------------------------------------
(* Lists put together *)

\* f is the recursive function of Joined up to n.
JoinedUpTo(f, n, parts) == f = [m \in 0 .. n |-> IF m = 0 THEN <<>> ELSE f[m - 1] \o parts[m]]

LEMMA JoinedExists ==
    ASSUME NEW parts
    PROVE  \A n \in Nat : \E f : JoinedUpTo(f, n, parts)
<1> DEFINE S == {n \in Nat : \E f : JoinedUpTo(f, n, parts)}
<1>1. 0 \in S
  <2> DEFINE f == [m \in 0 .. 0 |-> <<>>]
  <2>1. JoinedUpTo(f, 0, parts)
    BY DEF JoinedUpTo
  <2>2. QED
    BY <2>1
<1>2. ASSUME NEW n \in Nat, n \in S PROVE n + 1 \in S
  <2>1. PICK f : JoinedUpTo(f, n, parts)
    BY <1>2
  <2> DEFINE last == f[n] \o parts[n + 1]
             g == [m \in 0 .. (n + 1) |-> IF m = n + 1 THEN last ELSE f[m]]
             h == [m \in 0 .. (n + 1) |-> IF m = 0 THEN <<>> ELSE g[m - 1] \o parts[m]]
  <2>2. ASSUME NEW m \in 0 .. (n + 1) PROVE g[m] = h[m]
    <3>1. CASE m = n + 1
      <4>1. m # 0 /\ m - 1 = n /\ n \in 0 .. (n + 1) /\ n # n + 1
        BY <3>1
      <4>2. g[m - 1] = f[n]
        BY <4>1
      <4>3. QED
        BY <3>1, <4>1, <4>2
    <3>2. CASE m # n + 1
      <4>1. m \in 0 .. n
        BY <3>2
      <4>2. g[m] = f[m]
        BY <3>2
      <4>3. f[m] = IF m = 0 THEN <<>> ELSE f[m - 1] \o parts[m]
        BY <2>1, <4>1 DEF JoinedUpTo
      <4>4. m # 0 => g[m - 1] = f[m - 1]
        BY <4>1
      <4>5. QED
        BY <4>2, <4>3, <4>4
    <3>3. QED
      BY <3>1, <3>2
  <2>3. g = h
    <3> HIDE DEF last
    <3>1. g = [m \in 0 .. (n + 1) |-> g[m]] /\ h = [m \in 0 .. (n + 1) |-> h[m]]
      OBVIOUS
    <3> HIDE DEF g, h
    <3>2. QED
      BY <2>2, <3>1
  <2>4. JoinedUpTo(g, n + 1, parts)
    <3> HIDE DEF g
    <3>1. QED
      BY <2>3 DEF JoinedUpTo
  <2>5. QED
    BY <2>4
<1> HIDE DEF S
<1>3. \A n \in Nat : n \in S
  BY <1>1, <1>2, Inductive
<1>4. QED
  BY <1>3 DEF S

\* Joined adds one part after the other.
LEMMA JoinedSteps ==
    ASSUME NEW parts, Len(parts) \in Nat
    PROVE  \E F : /\ Joined(parts) = F[Len(parts)]
                  /\ F[0] = <<>>
                  /\ \A m \in 1 .. Len(parts) : F[m] = F[m - 1] \o parts[m]
<1> DEFINE L == Len(parts)
           F == CHOOSE f : JoinedUpTo(f, L, parts)
<1>1. Joined(parts) = F[L]
  BY DEF Joined, JoinedUpTo
<1>2. JoinedUpTo(F, L, parts)
  BY JoinedExists
<1> HIDE DEF F
<1>3. \A m \in 0 .. L : F[m] = IF m = 0 THEN <<>> ELSE F[m - 1] \o parts[m]
  <2> TAKE m \in 0 .. L
  <2>1. QED
    BY <1>2 DEF JoinedUpTo
<1>4. F[0] = <<>>
  <2>1. 0 \in 0 .. L
    OBVIOUS
  <2>2. QED
    BY <1>3, <2>1
<1>5. ASSUME NEW m \in 1 .. L PROVE F[m] = F[m - 1] \o parts[m]
  <2>1. m \in 0 .. L /\ m # 0
    OBVIOUS
  <2>2. QED
    BY <1>3, <2>1
<1>6. QED
  BY <1>1, <1>4, <1>5

-----------------------------------------------------------------------------
(* filter *)

\* The places at which u has the entries of s: in order, those in I and no others.
Places(f, u, n, s, I) ==
    /\ f \in [1 .. Len(u) -> 1 .. n]
    /\ \A i, j \in 1 .. Len(u) : i < j => f[i] < f[j]
    /\ \A i \in 1 .. Len(u) : u[i] = s[f[i]]
    /\ \A k \in 1 .. n : k \in I <=> \E i \in 1 .. Len(u) : f[i] = k

IsKept(u, n, s, I) == \E f : Places(f, u, n, s, I)

LEMMA KeptGrows ==
    ASSUME NEW S, NEW s \in Seq(S), NEW I, NEW n \in Nat, n + 1 \in 1 .. Len(s),
           NEW u \in Seq(S), IsKept(u, n, s, I)
    PROVE  LET v == u \o (IF n + 1 \in I THEN <<s[n + 1]>> ELSE <<>>)
           IN  v \in Seq(S) /\ IsKept(v, n + 1, s, I)
<1> PICK f : Places(f, u, n, s, I)
  BY DEF IsKept
<1>1. /\ f \in [1 .. Len(u) -> 1 .. n]
      /\ \A i, j \in 1 .. Len(u) : i < j => f[i] < f[j]
      /\ \A i \in 1 .. Len(u) : u[i] = s[f[i]]
      /\ \A k \in 1 .. n : k \in I <=> \E i \in 1 .. Len(u) : f[i] = k
  BY DEF Places
<1>2. Len(u) \in Nat /\ s[n + 1] \in S
  BY LenProperties, ElementOfSeq
<1>3. CASE n + 1 \notin I
  <2>1. f \in [1 .. Len(u) -> 1 .. (n + 1)]
    BY <1>1
  <2>2. \A k \in 1 .. (n + 1) : k \in I <=> \E i \in 1 .. Len(u) : f[i] = k
    BY <1>1, <1>3
  <2>3. Places(f, u, n + 1, s, I)
    BY <1>1, <2>1, <2>2 DEF Places
  <2>4. u \o <<>> = u
    BY ConcatEmptySeq
  <2>5. QED
    BY <1>3, <2>3, <2>4 DEF IsKept
<1>4. CASE n + 1 \in I
  <2> DEFINE v == u \o <<s[n + 1]>>
             l == Len(u)
             g == [i \in 1 .. (l + 1) |-> IF i = l + 1 THEN n + 1 ELSE f[i]]
  <2>1. /\ v \in Seq(S) /\ Len(v) = l + 1 /\ v[l + 1] = s[n + 1]
        /\ \A i \in 1 .. l : v[i] = u[i]
    <3>1. <<s[n + 1]>> \in Seq(S) /\ Len(<<s[n + 1]>>) = 1 /\ <<s[n + 1]>>[1] = s[n + 1]
      BY <1>2
    <3>2. /\ v \in Seq(S) /\ Len(v) = l + Len(<<s[n + 1]>>)
          /\ \A i \in 1 .. l + Len(<<s[n + 1]>>) : v[i] = IF i <= l THEN u[i] ELSE <<s[n + 1]>>[i - l]
      BY <3>1, ConcatProperties
    <3>3. QED
      BY <1>2, <3>1, <3>2
  <2> HIDE DEF v
  <2>2. /\ g[l + 1] = n + 1 /\ \A i \in 1 .. l : g[i] = f[i]
        /\ g \in [1 .. (l + 1) -> 1 .. (n + 1)]
    BY <1>1, <1>2
  <2> HIDE DEF g
  <2>3. ASSUME NEW i \in 1 .. (l + 1), NEW j \in 1 .. (l + 1), i < j PROVE g[i] < g[j]
    <3>1. i \in 1 .. l /\ g[i] = f[i] /\ f[i] \in 1 .. n
      BY <1>1, <1>2, <2>2, <2>3
    <3>2. CASE j = l + 1
      BY <2>2, <3>1, <3>2
    <3>3. CASE j # l + 1
      <4>1. j \in 1 .. l /\ g[j] = f[j]
        BY <1>2, <2>2, <3>3
      <4>2. f[i] < f[j]
        BY <1>1, <2>3, <3>1, <4>1
      <4>3. QED
        BY <3>1, <4>1, <4>2
    <3>4. QED
      BY <3>2, <3>3
  <2>4. ASSUME NEW i \in 1 .. (l + 1) PROVE v[i] = s[g[i]]
    <3>1. i = l + 1 \/ i \in 1 .. l
      BY <1>2
    <3>2. QED
      BY <1>1, <2>1, <2>2, <3>1
  <2>5. ASSUME NEW k \in 1 .. (n + 1) PROVE k \in I <=> \E i \in 1 .. (l + 1) : g[i] = k
    <3>1. CASE k = n + 1
      BY <1>2, <1>4, <2>2, <3>1
    <3>2. CASE k # n + 1
      <4>1. k \in 1 .. n
        BY <3>2
      <4>2. k \in I <=> \E i \in 1 .. l : f[i] = k
        BY <1>1, <4>1
      <4>3. (\E i \in 1 .. l : f[i] = k) <=> \E i \in 1 .. (l + 1) : g[i] = k
        <5>1. ASSUME NEW i \in 1 .. l, f[i] = k PROVE \E j \in 1 .. (l + 1) : g[j] = k
          <6>1. i \in 1 .. (l + 1) /\ g[i] = k
            BY <1>2, <2>2, <5>1
          <6>2. QED
            BY <6>1
        <5>2. ASSUME NEW j \in 1 .. (l + 1), g[j] = k PROVE \E i \in 1 .. l : f[i] = k
          <6>1. j # l + 1
            BY <2>2, <3>2, <5>2
          <6>2. j \in 1 .. l /\ f[j] = k
            BY <1>2, <2>2, <5>2, <6>1
          <6>3. QED
            BY <6>2
        <5>3. QED
          BY <5>1, <5>2
      <4>4. QED
        BY <4>2, <4>3
    <3>3. QED
      BY <3>1, <3>2
  <2>6. Places(g, v, n + 1, s, I)
    BY <2>1, <2>2, <2>3, <2>4, <2>5 DEF Places
  <2>7. QED
    BY <1>4, <2>1, <2>6 DEF v, IsKept
<1>5. QED
  BY <1>3, <1>4

\* The entries of s at the places in I.
KeptParts(s, I) == [i \in 1 .. Len(s) |-> IF i \in I THEN <<s[i]>> ELSE <<>>]

\* What filter keeps of a list: the entries at the places asked for, each once and
\* in order.
LEMMA KeptIsExact ==
    ASSUME NEW S, NEW s \in Seq(S), NEW I
    PROVE  /\ Joined(KeptParts(s, I)) \in Seq(S)
           /\ IsKept(Joined(KeptParts(s, I)), Len(s), s, I)
<1> DEFINE L == Len(s)
           P == KeptParts(s, I)
<1>1. /\ L \in Nat /\ Len(P) = L
      /\ \A i \in 1 .. L : P[i] = IF i \in I THEN <<s[i]>> ELSE <<>>
  BY LenProperties DEF KeptParts
<1>2. PICK F : Joined(P) = F[L] /\ F[0] = <<>> /\ \A m \in 1 .. L : F[m] = F[m - 1] \o P[m]
  BY <1>1, JoinedSteps
<1> DEFINE T == {n \in Nat : n <= L => F[n] \in Seq(S) /\ IsKept(F[n], n, s, I)}
<1>3. 0 \in T
  <2>1. <<>> \in Seq(S) /\ Len(<<>>) = 0
    BY EmptySeq
  <2>2. Places(<<>>, <<>>, 0, s, I)
    BY <2>1 DEF Places
  <2>3. IsKept(<<>>, 0, s, I)
    BY <2>2 DEF IsKept
  <2>4. QED
    BY <1>2, <2>1, <2>3
<1>4. ASSUME NEW n \in Nat, n \in T PROVE n + 1 \in T
  <2> SUFFICES ASSUME n + 1 <= L PROVE F[n + 1] \in Seq(S) /\ IsKept(F[n + 1], n + 1, s, I)
    OBVIOUS
  <2>1. F[n] \in Seq(S) /\ IsKept(F[n], n, s, I) /\ n + 1 \in 1 .. L
    BY <1>1, <1>4
  <2>2. F[n + 1] = F[n] \o (IF n + 1 \in I THEN <<s[n + 1]>> ELSE <<>>)
    <3>1. (n + 1) - 1 = n
      OBVIOUS
    <3>2. F[n + 1] = F[n] \o P[n + 1]
      BY <1>2, <2>1, <3>1
    <3>3. QED
      BY <1>1, <2>1, <3>2
  <2> HIDE DEF T
  <2>3. QED
    BY <2>1, <2>2, KeptGrows
<1> HIDE DEF T
<1>5. L \in T
  BY <1>1, <1>3, <1>4, Inductive
<1>6. QED
  BY <1>1, <1>2, <1>5 DEF T

-----------------------------------------------------------------------------
(* Pages *)

LEMMA MinOfTwo == \A a, b \in Int : Min({a, b}) = IF a <= b THEN a ELSE b
<1> SUFFICES ASSUME NEW a \in Int, NEW b \in Int PROVE Min({a, b}) = IF a <= b THEN a ELSE b
  OBVIOUS
<1>1. \E x \in {a, b} : \A y \in {a, b} : x <= y
  OBVIOUS
<1>2. Min({a, b}) \in {a, b} /\ \A y \in {a, b} : Min({a, b}) <= y
  BY <1>1 DEF Min
<1>3. QED
  BY <1>2

LEMMA MaxOfTwo == \A a, b \in Int : Max({a, b}) = IF a >= b THEN a ELSE b
<1> SUFFICES ASSUME NEW a \in Int, NEW b \in Int PROVE Max({a, b}) = IF a >= b THEN a ELSE b
  OBVIOUS
<1>1. \E x \in {a, b} : \A y \in {a, b} : x >= y
  OBVIOUS
<1>2. Max({a, b}) \in {a, b} /\ \A y \in {a, b} : Max({a, b}) >= y
  BY <1>1 DEF Max
<1>3. QED
  BY <1>2

\* Multiples of a page size, in order.
LEMMA Multiples ==
    ASSUME NEW z \in Nat \ {0}
    PROVE  /\ \A k \in Nat : k * z \in Nat /\ (k + 1) * z = k * z + z
           /\ \A k, l \in Nat : k <= l => k * z <= l * z
<1>1. ASSUME NEW k \in Nat PROVE k * z \in Nat /\ (k + 1) * z = k * z + z
  OBVIOUS
<1>2. ASSUME NEW k \in Nat, NEW l \in Nat, k <= l PROVE k * z <= l * z
  <2>1. l * z = k * z + (l - k) * z /\ (l - k) * z \in Nat
    BY <1>2
  <2>2. QED
    BY <1>1, <2>1
<1>3. QED
  BY <1>1, <1>2

\* There are enough pages for all entries, and the last one is not empty.
LEMMA EnoughPages ==
    ASSUME NEW n \in Nat, NEW z \in Nat \ {0}
    PROVE  /\ totalPages(n, z) \in Nat
           /\ n <= totalPages(n, z) * z
           /\ totalPages(n, z) * z < n + z
<1> DEFINE m == n + z - 1
           q == m \div z
<1>1. m \in Nat /\ q \in Int /\ q * z <= m /\ m < q * z + z
  OBVIOUS
<1>2. q \in Nat
  BY <1>1
<1>3. q * z \in Nat
  BY <1>2, Multiples
<1>4. totalPages(n, z) = q
  BY DEF totalPages
<1> HIDE DEF q
<1>5. QED
  BY <1>1, <1>2, <1>3, <1>4

\* Where page k of n entries ends.
PageEnd(k, z, n) == Min({k * z, n})

LEMMA PageEnds ==
    ASSUME NEW n \in Nat, NEW z \in Nat \ {0}
    PROVE  \A k \in Nat : PageEnd(k, z, n) = IF k * z <= n THEN k * z ELSE n
<1> TAKE k \in Nat
<1>1. k * z \in Int /\ n \in Int
  BY Multiples
<1>2. QED
  BY <1>1, MinOfTwo DEF PageEnd

\* The pages of a list, put together, are the list.
LEMMA PagesMakeTheList ==
    ASSUME NEW S, NEW t \in Seq(S), NEW z \in Nat \ {0},
           NEW pages, Len(pages) = totalPages(Len(t), z),
           \A k \in 1 .. Len(pages) : pages[k] = SubSeq(t, (k - 1) * z + 1, PageEnd(k, z, Len(t)))
    PROVE  Joined(pages) = t
<1> DEFINE n == Len(t)
           N == totalPages(n, z)
<1>1. n \in Nat /\ N \in Nat /\ n <= N * z /\ N * z < n + z /\ N * z \in Nat
  BY LenProperties, EnoughPages, Multiples
<1>2. PICK F : Joined(pages) = F[N] /\ F[0] = <<>> /\ \A k \in 1 .. N : F[k] = F[k - 1] \o pages[k]
  BY <1>1, JoinedSteps
<1>3. \A k \in Nat : PageEnd(k, z, n) = IF k * z <= n THEN k * z ELSE n
  BY <1>1, PageEnds
<1> DEFINE T == {k \in Nat : k <= N => F[k] = SubSeq(t, 1, PageEnd(k, z, n))}
<1> HIDE DEF N, n
<1>4. 0 \in T
  <2>1. PageEnd(0, z, n) = 0
    BY <1>1, <1>3
  <2>2. SubSeq(t, 1, 0) = <<>>
    BY SubSeqEmpty
  <2>3. QED
    BY <1>2, <2>1, <2>2
<1>5. ASSUME NEW k \in Nat, k \in T PROVE k + 1 \in T
  <2> SUFFICES ASSUME k + 1 <= N PROVE F[k + 1] = SubSeq(t, 1, PageEnd(k + 1, z, n))
    OBVIOUS
  <2> DEFINE a == k * z
             b == PageEnd(k + 1, z, n)
  <2>1. a < n /\ a \in Nat
    <3> DEFINE c == (k + 1) * z
               e == N * z
    <3>1. c = a + z /\ a \in Nat /\ c <= e /\ e < n + z /\ e \in Nat /\ n \in Nat
      BY <1>1, Multiples
    <3> HIDE DEF a, c, e
    <3>2. QED
      BY <3>1
  <2>2. PageEnd(k, z, n) = a
    <3>1. PageEnd(k, z, n) = IF a <= n THEN a ELSE n
      BY <1>3
    <3> HIDE DEF a
    <3>2. QED
      BY <1>1, <2>1, <3>1
  <2>3. b \in a .. n
    <3>1. (k + 1) * z = a + z /\ (k + 1) * z \in Nat /\ k + 1 \in Nat
      BY Multiples
    <3>2. b = IF (k + 1) * z <= n THEN (k + 1) * z ELSE n
      BY <1>3, <3>1
    <3> HIDE DEF b, a
    <3>3. QED
      BY <1>1, <2>1, <3>1, <3>2
  <2>4. F[k] = SubSeq(t, 1, a)
    <3>1. k <= N
      BY <1>1
    <3>2. QED
      BY <1>5, <2>2, <3>1
  <2>5. pages[k + 1] = SubSeq(t, a + 1, b)
    <3>1. k + 1 \in 1 .. Len(pages) /\ (k + 1) - 1 = k
      BY <1>1 DEF N, n
    <3>2. QED
      BY <3>1 DEF n
  <2>6. F[k + 1] = F[k] \o pages[k + 1]
    <3>1. k + 1 \in 1 .. N /\ (k + 1) - 1 = k
      BY <1>1
    <3>2. QED
      BY <1>2, <3>1
  <2>7. SubSeq(t, 1, a) \o SubSeq(t, a + 1, b) = SubSeq(t, 1, b)
    <3>1. 1 \in 1 .. Len(t) + 1 /\ a \in 1 - 1 .. Len(t) /\ b \in a .. Len(t)
      BY <1>1, <2>1, <2>3 DEF n
    <3> HIDE DEF a, b
    <3>2. QED
      BY <3>1, ConcatAdjacentSubSeq
  <2>8. QED
    BY <2>4, <2>5, <2>6, <2>7
<1> HIDE DEF T
<1>6. N \in T
  BY <1>1, <1>4, <1>5, Inductive
<1>7. F[N] = SubSeq(t, 1, n)
  <2>1. PageEnd(N, z, n) = n
    <3> DEFINE e == N * z
    <3>1. PageEnd(N, z, n) = (IF e <= n THEN e ELSE n) /\ e \in Nat /\ n <= e
      BY <1>1, <1>3
    <3> HIDE DEF e
    <3>2. QED
      BY <1>1, <3>1
  <2>2. QED
    BY <1>1, <1>6, <2>1 DEF T
<1>8. QED
  BY <1>2, <1>7, SubSeqFull DEF n

-----------------------------------------------------------------------------
(* The stays *)

\* Every state is one of the inputs.
LEMMA InputsStay == Spec => []Init
<1>1. Init /\ [Next]_case => Init'
  BY DEF Init, Next
<1>2. QED
  BY <1>1, PTL DEF Spec

LEMMA Kinds ==
    ASSUME Init
    PROVE  /\ IsAbout("stay") =>
                 \/ case \in [stay: Stays(DateOnlyStrings), ctx: Stays(DateOnlyStrings), zone: Zone]
                 \/ case \in [stay: Stays(UtcStrings), ctx: Stays(UtcStrings), zone: {0}]
           /\ IsAbout("booked") => \E z \in Zone : case \in [booked: Bookable(z), zone: {z}]
           /\ IsAbout("hotels") => case \in Searches
           /\ IsAbout("reviews") => case \in Readings
<1>1. \A P, Q, R : \A c \in [stay: P, ctx: Q, zone: R] : DOMAIN c = {"stay", "ctx", "zone"}
  OBVIOUS
<1>2. \A P, Q : \A c \in [booked: P, zone: Q] : DOMAIN c = {"booked", "zone"}
  OBVIOUS
<1>3. \A c \in Searches : DOMAIN c = {"hotels", "query"}
  BY InputsAssumption
<1>4. \A c \in Readings : DOMAIN c = {"reviews", "query"}
  BY InputsAssumption
<1>5. CASE \/ case \in [stay: Stays(DateOnlyStrings), ctx: Stays(DateOnlyStrings), zone: Zone]
           \/ case \in [stay: Stays(UtcStrings), ctx: Stays(UtcStrings), zone: {0}]
  BY <1>1, <1>5 DEF IsAbout
<1>6. CASE \E z \in Zone : case \in [booked: Bookable(z), zone: {z}]
  BY <1>2, <1>6 DEF IsAbout
<1>7. CASE case \in Searches
  BY <1>3, <1>7 DEF IsAbout
<1>8. CASE case \in Readings
  BY <1>4, <1>8 DEF IsAbout
<1>9. QED
  BY <1>5, <1>6, <1>7, <1>8 DEF Init

\* A stay in date-only strings, by its days.
LEMMA DayStays ==
    ASSUME NEW s \in Stays(DateOnlyStrings)
    PROVE  \E a, b \in Int : a < b /\ s = DayStay(a, b)
<1>1. s \in [in: DateOnlyStrings, out: DateOnlyStrings] /\ ValidDates(s)
  BY DEF Stays
<1>2. PICK a \in Int : s.in = DateOnly(a)
  BY <1>1, InputsAssumption DEF DateOnlyStrings
<1>3. PICK b \in Int : s.out = DateOnly(b)
  BY <1>1, InputsAssumption DEF DateOnlyStrings
<1>4. s = [in |-> DateOnly(a), out |-> DateOnly(b)]
  BY <1>1, <1>2, <1>3
<1>5. b > a
  BY <1>1, <1>2, <1>3 DEF ValidDates, DateOnly
<1>6. QED
  BY <1>4, <1>5 DEF DayStay

LEMMA UtcStays ==
    ASSUME NEW s \in Stays(UtcStrings)
    PROVE  s \in [in: DateString, out: DateString] /\ s.in.offset = 0 /\ s.out.offset = 0
<1>1. s \in [in: UtcStrings, out: UtcStrings]
  BY DEF Stays
<1>2. 0 \in Zone
  BY HoursAssumption DEF Zone
<1>3. \A d \in UtcStrings : d \in DateString /\ d.offset = 0
  BY <1>2, InputsAssumption DEF UtcStrings, DateString
<1>4. QED
  BY <1>1, <1>3

\* No comparison of dates loses a stay, and with date-only strings none but the ones
\* with a server away from UTC finds one too many.
THEOREM SharedNightsAlwaysCompete == Spec => []SharedNightsCompete
<1>1. ASSUME Init, IsAbout("stay") PROVE SharedNightsCompete
  <2> DEFINE s == case.stay
             o == case.ctx
  <2>1. ASSUME s \in Stays(DateOnlyStrings), o \in Stays(DateOnlyStrings)
        PROVE  /\ HeldOverlap(s, o) <=> ShareANight(s, o)
               /\ StoredOverlap(s, o, 0) <=> ShareANight(s, o)
               /\ \A z \in Zone : ShareANight(s, o) => StoredOverlap(s, o, z)
    <3>1. PICK a \in Int, b \in Int : a < b /\ s = DayStay(a, b)
      BY <2>1, DayStays
    <3>2. PICK c \in Int, d \in Int : c < d /\ o = DayStay(c, d)
      BY <2>1, DayStays
    <3> HIDE DEF s, o
    <3>3. HeldOverlap(s, o) <=> ShareANight(s, o)
      BY <3>1, <3>2, HeldOverlapIsExact
    <3>4. StoredOverlap(s, o, 0) <=> ShareANight(s, o)
      BY <3>1, <3>2, StoredOverlapIsExactInUtc
    <3>5. \A z \in Zone : ShareANight(s, o) => StoredOverlap(s, o, z)
      BY <3>1, <3>2, StoredOverlapMissesNothing
    <3>6. QED
      BY <3>3, <3>4, <3>5
  <2>2. CASE case \in [stay: Stays(DateOnlyStrings), ctx: Stays(DateOnlyStrings), zone: Zone]
    <3>1. s \in Stays(DateOnlyStrings) /\ o \in Stays(DateOnlyStrings) /\ case.zone \in Zone
      BY <2>2
    <3>2. QED
      BY <2>1, <3>1 DEF SharedNightsCompete
  <2>3. CASE case \in [stay: Stays(UtcStrings), ctx: Stays(UtcStrings), zone: {0}]
    <3>1. s \in Stays(UtcStrings) /\ o \in Stays(UtcStrings) /\ case.zone = 0
      BY <2>3
    <3>2. ShareANight(s, o) => StoredOverlap(s, o, case.zone) /\ HeldOverlap(s, o)
      BY <3>1, UtcStays, UtcStaysMissNothing
    <3>3. QED
      BY <2>1, <3>2 DEF SharedNightsCompete
  <2>4. QED
    BY <1>1, <2>2, <2>3, Kinds
<1>2. Init => SharedNightsCompete
  BY <1>1 DEF SharedNightsCompete
<1>3. QED
  BY <1>2, InputsStay, PTL

\* A guest pays for the nights the booking occupies.
THEOREM NightsChargedAreAlwaysStored == Spec => []NightsChargedAreStored
<1>1. ASSUME Init, IsAbout("booked") PROVE calculateNights(case.booked) = StoredNights(case.booked, case.zone)
  <2>1. PICK z \in Zone : case.booked \in Bookable(z) /\ case.zone = z
    BY <1>1, Kinds
  <2> DEFINE strings == [day: Days, hour: 0 .. (HoursPerDay - 1), offset: Zone]
             s == case.booked
  <2>2. /\ s \in [in: strings, out: strings] /\ s.in.offset = s.out.offset
        /\ s.in.hour = s.out.hour \/ s.in.offset = z
    BY <2>1 DEF Bookable, Stays
  <2>3. \A d \in strings : d \in DateString
    BY InputsAssumption DEF DateString
  <2> HIDE DEF strings, s
  <2>4. s \in [in: DateString, out: DateString]
    BY <2>2, <2>3
  <2>5. calculateNights(s) = StoredNights(s, z)
    BY <2>2, <2>4, ChargedNightsAreStored
  <2>6. QED
    BY <2>1, <2>5 DEF s
<1>2. Init => NightsChargedAreStored
  BY <1>1 DEF NightsChargedAreStored
<1>3. QED
  BY <1>2, InputsStay, PTL

-----------------------------------------------------------------------------
(* The reviews of a hotel *)

\* Where a list has its visible reviews, and those.
VisiblePlaces(rows) == {i \in 1 .. Len(rows) : rows[i].status = "VISIBLE"}
VisibleRows(rows) == Joined(KeptParts(rows, VisiblePlaces(rows)))

LEMMA ReviewPageAsked ==
    /\ \A n \in Nat \ {0} : reviewPage(n) = n
    /\ \A n \in Int \cup {None} : reviewPageSize(n) \in Nat \ {0}
<1>1. ASSUME NEW n \in Nat \ {0} PROVE reviewPage(n) = n
  <2>1. n \notin {None, 0} /\ Max({1, n}) = n
    BY InputsAssumption, MaxOfTwo
  <2>2. QED
    BY <2>1 DEF reviewPage
<1>2. ASSUME NEW n \in Int \cup {None} PROVE reviewPageSize(n) \in Nat \ {0}
  <2>1. CASE n \in {None, 0}
    BY <2>1 DEF reviewPageSize
  <2>2. CASE n \notin {None, 0}
    <3>1. n \in Int
      BY <2>2
    <3>2. Max({1, n}) \in Nat \ {0}
      BY <3>1, MaxOfTwo
    <3>3. Min({50, Max({1, n})}) \in Nat \ {0}
      BY <3>2, MinOfTwo
    <3>4. QED
      BY <2>2, <3>3 DEF reviewPageSize
  <2>3. QED
    BY <2>1, <2>2
<1>3. QED
  BY <1>1, <1>2

\* A page of the reviews is a page of the visible ones.
LEMMA ReviewPage ==
    ASSUME NEW rows, NEW q
    PROVE  LET size == reviewPageSize(q.pageSize)
               page == reviewPage(q.page)
               visible == VisibleRows(rows)
           IN  /\ getHotelReviews(rows, q).data
                     = SubSeq(visible, (page - 1) * size + 1, PageEnd(page, size, Len(visible)))
               /\ getHotelReviews(rows, q).totalPages = totalPages(Len(visible), size)
<1> DEFINE parts == [i \in 1 .. Len(rows) |-> IF rows[i].status = "VISIBLE" THEN <<rows[i]>> ELSE <<>>]
<1>1. KeptParts(rows, VisiblePlaces(rows)) = parts
  BY DEF KeptParts, VisiblePlaces
<1>2. VisibleRows(rows) = Joined(parts)
  BY <1>1 DEF VisibleRows
<1>3. QED
  BY <1>2 DEF getHotelReviews, filter, PageEnd

\* The pages of a hotel's reviews are its visible reviews, each once and in order.
THEOREM ReviewPagesAreAlwaysExact == Spec => []ReviewPagesAreExact
<1>1. ASSUME Init, IsAbout("reviews") PROVE ReviewPagesAreExact
  <2> DEFINE rows == case.reviews
             q == case.query
             size == reviewPageSize(q.pageSize)
             visible == VisibleRows(rows)
             N == totalPages(Len(visible), size)
             pages == [n \in 1 .. getHotelReviews(rows, q).totalPages |->
                          getHotelReviews(rows, [q EXCEPT !.page = n]).data]
  <2>1. rows \in Seq(ReviewRow) /\ q \in [page: Int \cup {None}, pageSize: Int \cup {None}]
    BY <1>1, Kinds, InputsAssumption
  <2>2. size \in Nat \ {0}
    BY <2>1, ReviewPageAsked
  <2>3. visible \in Seq(ReviewRow) /\ IsKept(visible, Len(rows), rows, VisiblePlaces(rows))
    BY <2>1, KeptIsExact DEF VisibleRows
  <2>4. getHotelReviews(rows, q).totalPages = N /\ N \in Nat
    BY <2>2, <2>3, ReviewPage, EnoughPages, LenProperties
  <2>5. ASSUME NEW n \in 1 .. N
        PROVE  getHotelReviews(rows, [q EXCEPT !.page = n]).data
                  = SubSeq(visible, (n - 1) * size + 1, PageEnd(n, size, Len(visible)))
    <3>1. reviewPage(n) = n
      BY <2>4, ReviewPageAsked
    <3>2. ASSUME NEW asked, asked.page = n, asked.pageSize = q.pageSize
          PROVE  getHotelReviews(rows, asked).data
                    = SubSeq(visible, (n - 1) * size + 1, PageEnd(n, size, Len(visible)))
      BY <3>1, <3>2, ReviewPage
    <3>3. [q EXCEPT !.page = n].page = n /\ [q EXCEPT !.page = n].pageSize = q.pageSize
      BY <2>1
    <3> HIDE DEF rows, q, visible, size
    <3>4. QED
      BY <3>2, <3>3
  <2>6. Len(pages) = N /\ \A n \in 1 .. N : pages[n] = getHotelReviews(rows, [q EXCEPT !.page = n]).data
    <3> HIDE DEF rows, q, N
    <3>1. QED
      BY <2>4
  <2> HIDE DEF pages, N, size, visible, rows, q
  <2>7. Joined(pages) = visible
    BY <2>2, <2>3, <2>5, <2>6, PagesMakeTheList DEF N
  <2>8. PICK f : Places(f, visible, Len(rows), rows, VisiblePlaces(rows))
    BY <2>3 DEF IsKept
  <2> DEFINE Visible(x) == x.status = "VISIBLE"
             Shown(x, y) == x = y
  <2>9. IsFiltered(Joined(pages), rows, Visible, Shown)
    <3>1. \A k \in 1 .. Len(rows) : k \in VisiblePlaces(rows) <=> rows[k].status = "VISIBLE"
      BY DEF VisiblePlaces
    <3>2. QED
      BY <2>7, <2>8, <3>1 DEF IsFiltered, Places
  <2>10. QED
    BY <2>9 DEF ReviewPagesAreExact, pages, rows, q
<1>2. Init => ReviewPagesAreExact
  BY <1>1 DEF ReviewPagesAreExact
<1>3. QED
  BY <1>2, InputsStay, PTL

-----------------------------------------------------------------------------
(* A search for hotels *)

\* The room types of a hotel that are offered, and the hotels that are shown.
OfferedPlaces(rooms, q) == {i \in 1 .. Len(rooms) : Offered(rooms[i], q)}
OfferedRooms(rooms, q) == Joined(KeptParts(rooms, OfferedPlaces(rooms, q)))

ShownPlaces(hotels, q) ==
    {i \in 1 .. Len(hotels) :
        Includes(hotels[i].city, q.city) /\ availableRoomTypes(hotels[i], q) # <<>>}
ShownHotels(hotels, q) == Joined(KeptParts(hotels, ShownPlaces(hotels, q)))

LEMMA AvailableRoomTypes ==
    ASSUME NEW hotel, NEW q
    PROVE  availableRoomTypes(hotel, q)
              = [i \in 1 .. Len(OfferedRooms(hotel.roomTypes, q)) |->
                    Offer(OfferedRooms(hotel.roomTypes, q)[i], q)]
<1> DEFINE rooms == hotel.roomTypes
           parts == [i \in 1 .. Len(rooms) |-> IF Offered(rooms[i], q) THEN <<rooms[i]>> ELSE <<>>]
<1>1. KeptParts(rooms, OfferedPlaces(rooms, q)) = parts
  BY DEF KeptParts, OfferedPlaces
<1>2. OfferedRooms(rooms, q) = Joined(parts)
  BY <1>1 DEF OfferedRooms
<1>3. QED
  BY <1>2 DEF availableRoomTypes, filter

LEMMA ResultIsShown ==
    ASSUME NEW hotels, NEW q
    PROVE  Result(hotels, q)
              = [i \in 1 .. Len(ShownHotels(hotels, q)) |-> Entry(ShownHotels(hotels, q)[i], q)]
<1> DEFINE IsShown(hotel) == Includes(hotel.city, q.city) /\ availableRoomTypes(hotel, q) # <<>>
           parts == [i \in 1 .. Len(hotels) |-> IF IsShown(hotels[i]) THEN <<hotels[i]>> ELSE <<>>]
<1>1. KeptParts(hotels, ShownPlaces(hotels, q)) = parts
  BY DEF KeptParts, ShownPlaces
<1>2. ShownHotels(hotels, q) = Joined(parts)
  BY <1>1 DEF ShownHotels
<1>3. QED
  BY <1>2 DEF Result, filter

\* Only its other parameters say what a search is for.
SameSearch(p, q) ==
    /\ p.city = q.city /\ p.roomType = q.roomType
    /\ p.minPrice = q.minPrice /\ p.maxPrice = q.maxPrice
    /\ p.in = q.in /\ p.out = q.out /\ p.quantity = q.quantity

LEMMA SameResult ==
    ASSUME NEW hotels, NEW p, NEW q, SameSearch(p, q)
    PROVE  Result(hotels, p) = Result(hotels, q)
<1>1. \A room : Offered(room, p) <=> Offered(room, q)
  BY DEF SameSearch, Offered, Includes, Within, canBook, Dated
<1>2. \A room : Offer(room, p) = Offer(room, q)
  BY DEF SameSearch, Offer, Dated
<1>3. \A rooms : OfferedRooms(rooms, p) = OfferedRooms(rooms, q)
  <2> TAKE rooms
  <2>1. OfferedPlaces(rooms, p) = OfferedPlaces(rooms, q)
    BY <1>1 DEF OfferedPlaces
  <2>2. QED
    BY <2>1 DEF OfferedRooms
<1>4. \A hotel : availableRoomTypes(hotel, p) = availableRoomTypes(hotel, q)
  <2> TAKE hotel
  <2> DEFINE found == OfferedRooms(hotel.roomTypes, q)
  <2>1. /\ availableRoomTypes(hotel, p) = [i \in 1 .. Len(found) |-> Offer(found[i], p)]
        /\ availableRoomTypes(hotel, q) = [i \in 1 .. Len(found) |-> Offer(found[i], q)]
    BY <1>3, AvailableRoomTypes
  <2> HIDE DEF found
  <2>2. QED
    BY <1>2, <2>1
<1>5. \A hotel : Entry(hotel, p) = Entry(hotel, q)
  BY <1>4 DEF Entry
<1>6. ShownHotels(hotels, p) = ShownHotels(hotels, q)
  <2>1. ShownPlaces(hotels, p) = ShownPlaces(hotels, q)
    BY <1>4 DEF ShownPlaces, SameSearch
  <2>2. QED
    BY <2>1 DEF ShownHotels
<1> DEFINE found == ShownHotels(hotels, q)
<1>7. /\ Result(hotels, p) = [i \in 1 .. Len(found) |-> Entry(found[i], p)]
      /\ Result(hotels, q) = [i \in 1 .. Len(found) |-> Entry(found[i], q)]
  BY <1>6, ResultIsShown
<1> HIDE DEF found
<1>8. QED
  BY <1>5, <1>7

\* A room type is offered when it suits the guest.
LEMMA OfferedSuits ==
    ASSUME NEW room \in RoomType, NEW q \in Query
    PROVE  Offered(room, q) <=> Suits(room, q)
<1>1. room.available \in 0 .. room.totalQuantity
  BY DEF RoomType
<1>2. canBook(room, q) <=> (q.in = None \/ q.out = None
          \/ room.available \in {n \in 0 .. room.totalQuantity : n >= q.quantity})
  BY <1>1 DEF canBook, Dated
<1>3. QED
  BY <1>2 DEF Offered, Suits, Includes, Within

\* The offers of a hotel are its room types that suit the guest, each once and in
\* order, and a hotel without one has none.
LEMMA OffersAreExact ==
    ASSUME NEW rooms \in Seq(RoomType), NEW q \in Query, NEW hotel, hotel.roomTypes = rooms
    PROVE  LET offers == availableRoomTypes(hotel, q)
               kept == OfferedRooms(rooms, q)
           IN  /\ kept \in Seq(RoomType) /\ Len(offers) = Len(kept)
               /\ \A i \in 1 .. Len(kept) : offers[i] = Offer(kept[i], q)
               /\ \E f : Places(f, kept, Len(rooms), rooms, OfferedPlaces(rooms, q))
               /\ offers # <<>> <=> Len(kept) > 0
               /\ Len(kept) > 0 <=> \E i \in 1 .. Len(rooms) : Suits(rooms[i], q)
<1> DEFINE offers == availableRoomTypes(hotel, q)
           kept == OfferedRooms(rooms, q)
<1>1. kept \in Seq(RoomType) /\ IsKept(kept, Len(rooms), rooms, OfferedPlaces(rooms, q))
  BY KeptIsExact DEF OfferedRooms
<1>2. PICK f : Places(f, kept, Len(rooms), rooms, OfferedPlaces(rooms, q))
  BY <1>1 DEF IsKept
<1>3. offers = [i \in 1 .. Len(kept) |-> Offer(kept[i], q)]
  BY AvailableRoomTypes
<1>4. Len(kept) \in Nat
  BY <1>1, LenProperties
<1> HIDE DEF offers, kept
<1>5. Len(offers) = Len(kept) /\ \A i \in 1 .. Len(kept) : offers[i] = Offer(kept[i], q)
  BY <1>3, <1>4
<1>6. offers # <<>> <=> Len(kept) > 0
  <2>1. offers \in Seq({Offer(kept[i], q) : i \in 1 .. Len(kept)})
    BY <1>3, <1>4
  <2>2. QED
    BY <1>4, <1>5, <2>1, EmptySeq
<1>7. Len(kept) > 0 <=> \E i \in 1 .. Len(rooms) : Suits(rooms[i], q)
  <2>1. \A k \in 1 .. Len(rooms) : k \in OfferedPlaces(rooms, q) <=> Suits(rooms[k], q)
    <3> TAKE k \in 1 .. Len(rooms)
    <3>1. rooms[k] \in RoomType
      BY ElementOfSeq
    <3>2. QED
      BY <3>1, OfferedSuits DEF OfferedPlaces
  <2>2. \A k \in 1 .. Len(rooms) : k \in OfferedPlaces(rooms, q) <=> \E i \in 1 .. Len(kept) : f[i] = k
    BY <1>2 DEF Places
  <2>3. \A i \in 1 .. Len(kept) : f[i] \in 1 .. Len(rooms)
    BY <1>2 DEF Places
  <2>4. ASSUME Len(kept) > 0 PROVE \E i \in 1 .. Len(rooms) : Suits(rooms[i], q)
    <3>1. 1 \in 1 .. Len(kept)
      BY <1>4, <2>4
    <3>2. QED
      BY <2>1, <2>2, <2>3, <3>1
  <2>5. ASSUME NEW k \in 1 .. Len(rooms), Suits(rooms[k], q) PROVE Len(kept) > 0
    <3>1. PICK i \in 1 .. Len(kept) : f[i] = k
      BY <2>1, <2>2, <2>5
    <3>2. QED
      BY <1>4
  <2>6. QED
    BY <2>4, <2>5
<1>8. QED
  BY <1>1, <1>2, <1>5, <1>6, <1>7 DEF offers, kept

LEMMA EntriesAreTrue ==
    ASSUME NEW hotel \in Hotel, NEW q \in Query, availableRoomTypes(hotel, q) # <<>>
    PROVE  EntryIsTrue(Entry(hotel, q), q)
<1> DEFINE offers == availableRoomTypes(hotel, q)
           rooms == hotel.roomTypes
           kept == OfferedRooms(rooms, q)
           prices == {offers[i].pricePerNight : i \in 1 .. Len(offers)}
<1>1. rooms \in Seq(RoomType)
  BY DEF Hotel
<1>2. /\ kept \in Seq(RoomType) /\ Len(offers) = Len(kept)
      /\ \A i \in 1 .. Len(kept) : offers[i] = Offer(kept[i], q)
      /\ \E f : Places(f, kept, Len(rooms), rooms, OfferedPlaces(rooms, q))
      /\ offers # <<>> <=> Len(kept) > 0
  BY <1>1, OffersAreExact
<1>3. Entry(hotel, q).availableRoomTypes = offers /\ Entry(hotel, q).hotel = hotel
      /\ Entry(hotel, q).minPricePerNight = Min(prices)
  BY DEF Entry
<1>4. PICK f : Places(f, kept, Len(rooms), rooms, OfferedPlaces(rooms, q))
  BY <1>2
<1> HIDE DEF offers, kept
<1>5. \A i \in 1 .. Len(kept) : kept[i] = rooms[f[i]] /\ kept[i] \in RoomType
  BY <1>2, <1>4, ElementOfSeq DEF Places
<1>6. \A i \in 1 .. Len(kept) : offers[i].name = kept[i].name /\ offers[i].pricePerNight = kept[i].price
  <2>1. \A room : Offer(room, q).name = room.name /\ Offer(room, q).pricePerNight = room.price
    BY DEF Offer
  <2>2. \A i \in 1 .. Len(kept) : offers[i] = Offer(kept[i], q)
    BY <1>2
  <2>3. QED
    BY <2>1, <2>2
<1>7. prices \in SUBSET Nat /\ prices # {}
  <2>1. \A i \in 1 .. Len(offers) : offers[i].pricePerNight \in Nat
    BY <1>2, <1>5, <1>6 DEF RoomType
  <2>2. 1 \in 1 .. Len(offers)
    BY <1>2, LenProperties DEF offers
  <2>3. QED
    BY <2>1, <2>2
<1>8. Min(prices) \in prices /\ \A n \in prices : Min(prices) <= n
  <2> HIDE DEF prices
  <2>1. \E m \in prices : \A n \in prices : m <= n
    BY <1>7, Least
  <2>2. QED
    BY <2>1 DEF Min
<1>9. /\ \A k \in 1 .. Len(offers) : Min(prices) <= offers[k].pricePerNight
      /\ \E k \in 1 .. Len(offers) : Min(prices) = offers[k].pricePerNight
  <2> DEFINE least == Min(prices)
  <2>1. least \in {offers[i].pricePerNight : i \in 1 .. Len(offers)}
    BY <1>8
  <2>2. \A n \in {offers[i].pricePerNight : i \in 1 .. Len(offers)} : least <= n
    BY <1>8
  <2> HIDE DEF least
  <2>3. QED
    BY <2>1, <2>2 DEF least
<1> DEFINE Taken(room) == Suits(room, q)
           Priced(offer, room) == offer.name = room.name /\ offer.pricePerNight = room.price
<1>10. IsFiltered(offers, rooms, Taken, Priced)
  <2>1. \A k \in 1 .. Len(rooms) : k \in OfferedPlaces(rooms, q) <=> Suits(rooms[k], q)
    <3> TAKE k \in 1 .. Len(rooms)
    <3>1. rooms[k] \in RoomType
      BY <1>1, ElementOfSeq
    <3>2. QED
      BY <3>1, OfferedSuits DEF OfferedPlaces
  <2>2. \A i \in 1 .. Len(kept) : Priced(offers[i], rooms[f[i]])
    BY <1>5, <1>6
  <2>3. Len(kept) = Len(offers)
    BY <1>2
  <2>4. /\ f \in [1 .. Len(offers) -> 1 .. Len(rooms)]
        /\ \A i, j \in 1 .. Len(offers) : i < j => f[i] < f[j]
    BY <1>4, <2>3 DEF Places
  <2>5. \A k \in 1 .. Len(rooms) : Taken(rooms[k]) <=> \E i \in 1 .. Len(offers) : f[i] = k
    BY <1>4, <2>1, <2>3 DEF Places
  <2>6. \A i \in 1 .. Len(offers) : Priced(offers[i], rooms[f[i]])
    BY <2>2, <2>3
  <2> HIDE DEF rooms, prices
  <2>7. QED
    BY <2>4, <2>5, <2>6 DEF IsFiltered
<1> HIDE DEF prices, rooms
<1>11. QED
  BY <1>3, <1>9, <1>10 DEF EntryIsTrue, rooms

LEMMA SearchPage ==
    ASSUME NEW S, NEW t \in Seq(S), NEW z \in Nat \ {0}, NEW n \in 1 .. totalPages(Len(t), z)
    PROVE  paged(t, n, z) = SubSeq(t, (n - 1) * z + 1, PageEnd(n, z, Len(t)))
<1> DEFINE a == (n - 1) * z
           b == n * z
           c == totalPages(Len(t), z) * z
<1>1. totalPages(Len(t), z) \in Nat /\ Len(t) \in Nat /\ c < Len(t) + z
  BY LenProperties, EnoughPages
<1>2. n \in Nat /\ n - 1 \in Nat /\ n = (n - 1) + 1
  BY <1>1
<1>3. a \in Nat /\ b \in Nat /\ b = a + z /\ b <= c /\ c \in Nat
  BY <1>1, <1>2, Multiples
<1>4. paged(t, n, z) = slice(t, a, b)
  BY DEF paged
<1>5. PageEnd(n, z, Len(t)) = Min({b, Len(t)})
  BY DEF PageEnd
<1> SUFFICES slice(t, a, b) = SubSeq(t, a + 1, Min({b, Len(t)}))
  BY <1>4, <1>5
<1> HIDE DEF a, b, c
<1>6. a < Len(t)
  BY <1>1, <1>3
<1>7. Min({a, Len(t)}) = a
  BY <1>1, <1>3, <1>6, MinOfTwo
<1>8. ~(a < 0) /\ ~(b < 0)
  BY <1>3
<1>9. QED
  BY <1>7, <1>8 DEF slice

LEMMA SearchAnswer ==
    ASSUME NEW hotels, NEW q, ~Invalid(q)
    PROVE  /\ search(hotels, q).data = paged(Result(hotels, q), q.page, q.pageSize)
           /\ search(hotels, q).totalPages = totalPages(Len(Result(hotels, q)), q.pageSize)
  BY DEF search

\* The pages of a search are the hotels with a room type that suits the guest, each
\* once and in order, with those room types and the price of the cheapest.
THEOREM SearchIsAlwaysExact == Spec => []SearchIsExact
<1>1. ASSUME Init, IsAbout("hotels"), ~Invalid(case.query) PROVE SearchIsExact
  <2> DEFINE hotels == case.hotels
             q == case.query
             z == q.pageSize
             result == Result(hotels, q)
             shown == ShownHotels(hotels, q)
             N == totalPages(Len(result), z)
             pages == [n \in 1 .. search(hotels, q).totalPages |->
                          search(hotels, [q EXCEPT !.page = n]).data]
  <2>1. hotels \in Seq(Hotel) /\ q \in Query
    BY <1>1, Kinds, InputsAssumption
  <2>2. z \in Nat \ {0}
    BY <2>1 DEF Query
  <2>3. shown \in Seq(Hotel) /\ IsKept(shown, Len(hotels), hotels, ShownPlaces(hotels, q))
    BY <2>1, KeptIsExact DEF ShownHotels
  <2>4. result = [i \in 1 .. Len(shown) |-> Entry(shown[i], q)]
    BY ResultIsShown
  <2> HIDE DEF shown, result, z, q, hotels
  <2> DEFINE Entries == {Entry(shown[i], q) : i \in 1 .. Len(shown)}
  <2>5. /\ Len(shown) \in Nat /\ Len(result) = Len(shown) /\ result \in Seq(Entries)
        /\ \A i \in 1 .. Len(shown) : result[i] = Entry(shown[i], q)
    BY <2>3, <2>4, LenProperties
  <2> HIDE DEF Entries
  <2>6. search(hotels, q).totalPages = N /\ N \in Nat
    BY <1>1, <2>2, <2>5, SearchAnswer, EnoughPages DEF result, z, q
  <2>7. ASSUME NEW n \in 1 .. N
        PROVE  search(hotels, [q EXCEPT !.page = n]).data
                  = SubSeq(result, (n - 1) * z + 1, PageEnd(n, z, Len(result)))
    <3>1. ASSUME NEW asked, asked.page = n, asked.pageSize = z, SameSearch(asked, q)
          PROVE  search(hotels, asked).data
                    = SubSeq(result, (n - 1) * z + 1, PageEnd(n, z, Len(result)))
      <4>1. ~Invalid(asked)
        BY <1>1, <3>1 DEF SameSearch, Invalid, Dated, q
      <4>2. Result(hotels, asked) = result
        BY <3>1, SameResult DEF result
      <4>3. search(hotels, asked).data = paged(result, n, z)
        BY <3>1, <4>1, <4>2, SearchAnswer
      <4>4. QED
        BY <2>2, <2>5, <4>3, SearchPage
    <3>2. /\ [q EXCEPT !.page = n].page = n /\ [q EXCEPT !.page = n].pageSize = z
          /\ SameSearch([q EXCEPT !.page = n], q)
      BY <2>1 DEF Query, SameSearch, z
    <3> HIDE DEF N
    <3>3. QED
      BY <3>1, <3>2
  <2>8. Len(pages) = N /\ \A n \in 1 .. N : pages[n] = search(hotels, [q EXCEPT !.page = n]).data
    <3> HIDE DEF N
    <3>1. QED
      BY <2>6
  <2> HIDE DEF pages, N
  <2>9. Joined(pages) = result
    BY <2>2, <2>5, <2>7, <2>8, PagesMakeTheList DEF N
  <2>10. PICK f : Places(f, shown, Len(hotels), hotels, ShownPlaces(hotels, q))
    BY <2>3 DEF IsKept
  <2> DEFINE Fits(hotel) == SuitsHotel(hotel, q)
             Entered(entry, hotel) == entry.hotel = hotel
  <2>11. \A k \in 1 .. Len(hotels) : k \in ShownPlaces(hotels, q) <=> SuitsHotel(hotels[k], q)
    <3> TAKE k \in 1 .. Len(hotels)
    <3> DEFINE hotel == hotels[k]
    <3>1. hotel \in Hotel /\ hotel.roomTypes \in Seq(RoomType)
      <4>1. hotel \in Hotel
        BY <2>1, ElementOfSeq
      <4> HIDE DEF hotel
      <4>2. QED
        BY <4>1 DEF Hotel
    <3>2. availableRoomTypes(hotel, q) # <<>> <=>
             \E i \in 1 .. Len(hotel.roomTypes) : Suits(hotel.roomTypes[i], q)
      BY <2>1, <3>1, OffersAreExact
    <3>3. QED
      BY <3>2 DEF ShownPlaces, SuitsHotel, Includes
  <2>12. \A i \in 1 .. Len(result) : Entered(result[i], hotels[f[i]])
    <3>1. \A hotel : Entry(hotel, q).hotel = hotel
      BY DEF Entry
    <3>2. \A i \in 1 .. Len(shown) : shown[i] = hotels[f[i]]
      BY <2>10 DEF Places
    <3>3. QED
      BY <2>5, <3>1, <3>2
  <2>13. IsFiltered(result, hotels, Fits, Entered)
    <3> DEFINE L == Len(shown)
    <3>1. /\ f \in [1 .. L -> 1 .. Len(hotels)]
          /\ \A i, j \in 1 .. L : i < j => f[i] < f[j]
          /\ \A k \in 1 .. Len(hotels) : SuitsHotel(hotels[k], q) <=> \E i \in 1 .. L : f[i] = k
      BY <2>10, <2>11 DEF Places
    <3>2. Len(result) = L
      BY <2>5
    <3> HIDE DEF L
    <3>3. QED
      BY <2>12, <3>1, <3>2 DEF IsFiltered
  <2>14. \A i \in 1 .. Len(result) : EntryIsTrue(result[i], q)
    <3> TAKE i \in 1 .. Len(result)
    <3>1. f[i] \in 1 .. Len(hotels) /\ f[i] \in ShownPlaces(hotels, q) /\ shown[i] = hotels[f[i]]
      BY <2>5, <2>10 DEF Places
    <3>2. hotels[f[i]] \in Hotel /\ availableRoomTypes(hotels[f[i]], q) # <<>>
      BY <2>1, <3>1, ElementOfSeq DEF ShownPlaces
    <3>3. EntryIsTrue(Entry(shown[i], q), q)
      BY <2>1, <3>1, <3>2, EntriesAreTrue
    <3>4. QED
      BY <2>5, <3>3
  <2>15. QED
    BY <2>9, <2>13, <2>14 DEF SearchIsExact, pages, hotels, q
<1>2. Init => SearchIsExact
  BY <1>1 DEF SearchIsExact
<1>3. QED
  BY <1>2, InputsStay, PTL
=============================================================================
